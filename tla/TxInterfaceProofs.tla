------------------------- MODULE TxInterfaceProofs -------------------------
(***************************************************************************)
(* Proofs about the transmit side of the Ethernet port, for frames, FIFOs  *)
(* and a padding of any size.                                              *)
(*                                                                         *)
(* The words under way, from those the MAC already has to those in the     *)
(* crossing FIFO, are one stream.  The inductive invariant lays the        *)
(* accepted frames out in it: there are places start[1], start[2], ... so  *)
(* that the k-th frame, padded, stands behind start[k].  The state         *)
(* machines know none of these places.  They count commands, and the       *)
(* invariant says what their number means: the data FIFO ends in the frame *)
(* behind as many whole ones as there are commands.                        *)
(***************************************************************************)
EXTENDS TxInterface, SequenceTheorems, TLAPS

Words == [frame : Nat, pos : Nat, last : BOOLEAN, keep : Nat]

TypeInv ==
  /\ state \in {0, 1} /\ wordCounter \in Nat /\ tx_crossing \in Seq(Words)
  /\ frame \in 0 .. MaxFrames /\ pos \in 0 .. MaxWords - 1
  /\ state_wr \in {"IDLE", "LOAD"} /\ cmd_fifo_wr_en \in BOOLEAN
  /\ dataFifo \in Seq(Words) /\ cmdFifo \in Nat
  /\ state_rd \in {"IDLE", "PUSH"} /\ cmd_fifo_rd_en \in BOOLEAN
  /\ accepted \in Seq(LastWords) /\ toMac \in Seq(Words)

(* The words under way: how many, how many of them have left the crossing  *)
(* FIFO, and which.                                                        *)
Total  == Len(toMac) + Len(dataFifo) + Len(tx_crossing)
Stored == Len(toMac) + Len(dataFifo)

Line(t, d, c) ==
  [i \in 1 .. Len(t) + Len(d) + Len(c) |->
     IF i <= Len(t) THEN t[i]
     ELSE IF i <= Len(t) + Len(d) THEN d[i - Len(t)]
     ELSE c[i - Len(t) - Len(d)]]

Stream == Line(toMac, dataFifo, tx_crossing)

(* Words of the padded frame. *)
PadLen(w) == IF w.pos < MinWords THEN MinWords ELSE w.pos

(* The places behind which the frames stand. *)
Places(start, n) ==
  /\ start \in [1 .. n + 1 -> Nat] /\ start[1] = 0
  /\ \A k \in 1 .. n : start[k + 1] = start[k] + PadLen(accepted[k])
  /\ \A j, k \in 1 .. n + 1 : j <= k => start[j] <= start[k]

(* The words of a frame that are there are those of the padded frame. *)
Laid(start, n) ==
  \A k \in 1 .. n : \A i \in 1 .. PadLen(accepted[k]) :
    start[k] + i <= Total => Stream[start[k] + i] = PaddedFrame(accepted[k])[i]

(* A word of a frame that has not ended. *)
BodyWord(i) == [frame |-> frame, pos |-> i, last |-> FALSE, keep |-> WordBytes]

(* Behind the whole frames comes the begun one, or the padding is at work  *)
(* on the last one.                                                        *)
Tip(start, n) ==
  /\ state = 0 => /\ Total = start[n + 1] + pos /\ wordCounter = pos
                  /\ \A i \in 1 .. pos : Stream[start[n + 1] + i] = BodyWord(i)
  /\ state = 1 => /\ n >= 1 /\ pos = 0 /\ Total = start[n] + wordCounter
                  /\ wordCounter \in accepted[n].pos .. MinWords - 1
                  /\ frame = accepted[n].frame
  /\ pos > 0 => frame > 0

(* Commands for frames that are stored and have not left. *)
Commands == cmdFifo + (IF cmd_fifo_wr_en THEN 1 ELSE 0)
                    + (IF state_rd = "PUSH" /\ ~cmd_fifo_rd_en THEN 1 ELSE 0)

(* The commands tell how far the data FIFO reaches. *)
Reach(start, n) ==
  /\ Commands <= n
  /\ start[Commands + 1] <= Stored
  /\ Commands < n => Stored < start[Commands + 2]
  /\ state_wr = "IDLE" <=> Stored = start[Commands + 1]
  /\ toMac # <<>> => state_rd = "PUSH" /\ Len(toMac) < start[2]

(* A command is never lost, and never missing. *)
CommandFifo ==
  /\ cmdFifo <= CmdDepth
  /\ cmd_fifo_wr_en => state_wr = "IDLE" /\ cmdFifo < CmdDepth
  /\ cmd_fifo_rd_en => state_rd = "PUSH" /\ cmdFifo >= 1

Layout(start, n) == Places(start, n) /\ Laid(start, n) /\ Tip(start, n) /\ Reach(start, n)

TxInv == TypeInv /\ CommandFifo /\ \E start : Layout(start, Len(accepted))

-----------------------------------------------------------------------------
(* The valid bytes of its last word. *)
LastKeep(w) ==
  IF w.pos > MinWords \/ (w.pos = MinWords /\ w.keep >= MinLastBytes) THEN w.keep ELSE MinLastBytes

(* A padded frame, word by word. *)
LEMMA PaddedForm ==
  ASSUME NEW w \in LastWords
  PROVE  PaddedFrame(w) =
           [i \in 1 .. PadLen(w) |-> [frame |-> w.frame, pos |-> IF i <= w.pos THEN i ELSE 0,
                                      last |-> i = PadLen(w),
                                      keep |-> IF i = PadLen(w) THEN LastKeep(w) ELSE WordBytes]]
BY DEF PaddedFrame, PadLen, LastKeep

(* A padded frame has two words at least, and only its last word ends it. *)
LEMMA PaddedFrames ==
  ASSUME NEW w \in LastWords
  PROVE  /\ PadLen(w) \in Nat /\ PadLen(w) >= 2 /\ PadLen(w) >= MinWords /\ PadLen(w) >= w.pos
         /\ PaddedFrame(w) \in [1 .. PadLen(w) -> Words]
         /\ \A i \in 1 .. PadLen(w) : PaddedFrame(w)[i].last <=> i = PadLen(w)
<1>1. /\ w.pos \in 1 .. MaxWords /\ w.frame \in 1 .. MaxFrames /\ w.keep \in 1 .. WordBytes
      /\ MinWords \in Nat /\ MaxWords \in Nat /\ MinWords >= 2
      /\ WordBytes \in Nat /\ MinLastBytes \in 1 .. WordBytes /\ MaxFrames \in Nat
  BY PaddingAssumption, TxAssumption DEF LastWords
<1>2. PadLen(w) \in Nat /\ PadLen(w) >= 2 /\ PadLen(w) >= MinWords /\ PadLen(w) >= w.pos
  BY <1>1 DEF PadLen
<1>3. LastKeep(w) \in Nat
  BY <1>1 DEF LastKeep
<1>4. PaddedFrame(w) \in [1 .. PadLen(w) -> Words]
  <2>1. ASSUME NEW i \in 1 .. PadLen(w)
        PROVE  [frame |-> w.frame, pos |-> IF i <= w.pos THEN i ELSE 0, last |-> i = PadLen(w),
                keep |-> IF i = PadLen(w) THEN LastKeep(w) ELSE WordBytes] \in Words
    BY <1>1, <1>2, <1>3 DEF Words
  <2> QED BY <2>1, PaddedForm
<1>5. \A i \in 1 .. PadLen(w) : PaddedFrame(w)[i].last <=> i = PadLen(w)
  <2> SUFFICES ASSUME NEW i \in 1 .. PadLen(w) PROVE PaddedFrame(w)[i].last = (i = PadLen(w))
    OBVIOUS
  <2>1. PaddedFrame(w)[i] = [frame |-> w.frame, pos |-> IF i <= w.pos THEN i ELSE 0,
                             last |-> i = PadLen(w),
                             keep |-> IF i = PadLen(w) THEN LastKeep(w) ELSE WordBytes]
    BY PaddedForm
  <2> QED BY <2>1
<1> QED BY <1>2, <1>4, <1>5

LEMMA LastWordsAreWords ==
  ASSUME NEW w \in LastWords
  PROVE  w \in Words
<1>1. w = [frame |-> w.frame, pos |-> w.pos, last |-> w.last, keep |-> w.keep]
  BY DEF LastWords
<1>2. w.frame \in Nat /\ w.pos \in Nat /\ w.keep \in Nat
  BY PaddingAssumption, TxAssumption DEF LastWords
<1>3. w.last \in BOOLEAN
  BY DEF LastWords
<1>4. [frame |-> w.frame, pos |-> w.pos, last |-> w.last, keep |-> w.keep] \in Words
  BY <1>2, <1>3, Zenon DEF Words
<1> QED BY <1>1, <1>4, Zenon

(* The record of a short frame's last word that is filled up. *)
LEMMA EndTakenAway ==
  ASSUME NEW w \in Words, NEW k \in Nat
  PROVE  [w EXCEPT !.keep = k, !.last = FALSE]
           = [frame |-> w.frame, pos |-> w.pos, last |-> FALSE, keep |-> k]
<1> DEFINE u == [w EXCEPT !.keep = k, !.last = FALSE]
           v == [frame |-> w.frame, pos |-> w.pos, last |-> FALSE, keep |-> k]
<1>1. u \in Words /\ v \in Words
  BY DEF Words
<1>2. u.frame = v.frame /\ u.pos = v.pos /\ u.keep = v.keep
  BY DEF Words
<1>3. u.last = v.last
  BY DEF Words
<1> HIDE DEF u, v
<1>4. u = v
  BY <1>1, <1>2, <1>3 DEF Words
<1> QED BY <1>4 DEF u, v

(* The words of the padded frame: the accepted ones up to the last, which  *)
(* the padding may fill up, and then the filling.                          *)
LEMMA PaddedWords ==
  ASSUME NEW w \in LastWords
  PROVE  /\ \A i \in 1 .. w.pos - 1 : PaddedFrame(w)[i] =
              [frame |-> w.frame, pos |-> i, last |-> FALSE, keep |-> WordBytes]
         /\ w.pos < MinWords =>
              PaddedFrame(w)[w.pos] = [w EXCEPT !.keep = WordBytes, !.last = FALSE]
         /\ w.pos = MinWords /\ w.keep < MinLastBytes =>
              PaddedFrame(w)[w.pos] = [w EXCEPT !.keep = MinLastBytes]
         /\ w.pos > MinWords \/ (w.pos = MinWords /\ w.keep >= MinLastBytes) =>
              PaddedFrame(w)[w.pos] = w
         /\ \A i \in w.pos + 1 .. PadLen(w) : PaddedFrame(w)[i] =
              [frame |-> w.frame, pos |-> 0, last |-> i = PadLen(w),
               keep |-> IF i = PadLen(w) THEN MinLastBytes ELSE WordBytes]
<1>1. /\ w.pos \in 1 .. MaxWords /\ w.frame \in 1 .. MaxFrames /\ w.keep \in 1 .. WordBytes
      /\ MinWords \in Nat /\ MaxWords \in Nat /\ MinWords >= 2
      /\ WordBytes \in Nat /\ MinLastBytes \in 1 .. WordBytes /\ MaxFrames \in Nat
  BY PaddingAssumption, TxAssumption DEF LastWords
<1> DEFINE untouched == w.pos > MinWords \/ (w.pos = MinWords /\ w.keep >= MinLastBytes)
<1>2. PaddedFrame(w) =
        [i \in 1 .. PadLen(w) |-> [frame |-> w.frame, pos |-> IF i <= w.pos THEN i ELSE 0,
                                   last |-> i = PadLen(w),
                                   keep |-> IF i = PadLen(w) THEN LastKeep(w) ELSE WordBytes]]
  BY PaddedForm
<1>0. w.last = TRUE
  BY DEF LastWords
<1>a. w \in Words
  BY LastWordsAreWords
<1>b. ASSUME NEW k \in Nat
      PROVE  [w EXCEPT !.keep = k]
               = [frame |-> w.frame, pos |-> w.pos, last |-> TRUE, keep |-> k]
  <2>1. [w EXCEPT !.keep = k]
          = [frame |-> w.frame, pos |-> w.pos, last |-> w.last, keep |-> k]
    BY <1>a DEF Words
  <2> QED BY <1>0, <2>1, Zenon
<1>c. [w EXCEPT !.keep = WordBytes, !.last = FALSE]
        = [frame |-> w.frame, pos |-> w.pos, last |-> FALSE, keep |-> WordBytes]
  BY <1>1, <1>a, EndTakenAway
<1>3. PadLen(w) \in Nat /\ PadLen(w) >= w.pos /\ PadLen(w) >= MinWords
  BY PaddedFrames
<1>4. ASSUME NEW i \in 1 .. w.pos - 1
      PROVE  PaddedFrame(w)[i] = [frame |-> w.frame, pos |-> i, last |-> FALSE, keep |-> WordBytes]
  <2>1. i \in 1 .. PadLen(w) /\ i # PadLen(w) /\ i <= w.pos
    BY <1>1, <1>3
  <2> QED BY <1>2, <2>1
<1>5. ASSUME w.pos < MinWords
      PROVE  PaddedFrame(w)[w.pos] = [w EXCEPT !.keep = WordBytes, !.last = FALSE]
  <2>1. w.pos \in 1 .. PadLen(w) /\ w.pos # PadLen(w)
    BY <1>1, <1>3, <1>5
  <2>2. [w EXCEPT !.keep = WordBytes, !.last = FALSE]
          = [frame |-> w.frame, pos |-> w.pos, last |-> FALSE, keep |-> WordBytes]
    BY <1>c
  <2>3. w.pos <= w.pos
    BY <1>1
  <2>4. PaddedFrame(w)[w.pos]
          = [frame |-> w.frame, pos |-> w.pos, last |-> FALSE, keep |-> WordBytes]
    BY <1>2, <2>1, <2>3, Zenon
  <2> QED BY <2>2, <2>4
<1>6. ASSUME w.pos >= MinWords
      PROVE  PaddedFrame(w)[w.pos] = [frame |-> w.frame, pos |-> w.pos, last |-> TRUE, keep |-> LastKeep(w)]
  <2>1. w.pos \in 1 .. PadLen(w) /\ w.pos = PadLen(w)
    BY <1>1, <1>3, <1>6 DEF PadLen
  <2>2. w.pos <= w.pos
    BY <1>1
  <2> QED BY <1>2, <2>1, <2>2, Zenon
<1>7. ASSUME w.pos = MinWords, w.keep < MinLastBytes
      PROVE  PaddedFrame(w)[w.pos] = [w EXCEPT !.keep = MinLastBytes]
  <2>1. ~untouched
    BY <1>1, <1>7
  <2>2. [w EXCEPT !.keep = MinLastBytes]
          = [frame |-> w.frame, pos |-> w.pos, last |-> TRUE, keep |-> MinLastBytes]
    BY <1>1, <1>b
  <2>3. w.pos >= MinWords
    BY <1>1, <1>7
  <2> QED BY <1>6, <2>1, <2>2, <2>3 DEF LastKeep
<1>8. ASSUME untouched
      PROVE  PaddedFrame(w)[w.pos] = w
  <2>1. w.pos >= MinWords
    BY <1>1, <1>8
  <2>2. PaddedFrame(w)[w.pos]
          = [frame |-> w.frame, pos |-> w.pos, last |-> TRUE, keep |-> w.keep]
    BY <1>6, <1>8, <2>1 DEF LastKeep
  <2>3. w = [frame |-> w.frame, pos |-> w.pos, last |-> TRUE, keep |-> w.keep]
    BY <1>0, <1>a DEF Words
  <2> QED BY <2>2, <2>3
<1>9. ASSUME NEW i \in w.pos + 1 .. PadLen(w)
      PROVE  PaddedFrame(w)[i] =
              [frame |-> w.frame, pos |-> 0, last |-> i = PadLen(w),
               keep |-> IF i = PadLen(w) THEN MinLastBytes ELSE WordBytes]
  <2>1. i \in 1 .. PadLen(w) /\ ~(i <= w.pos) /\ ~untouched
    BY <1>1, <1>3 DEF PadLen
  <2> QED BY <1>2, <2>1 DEF LastKeep
<1> QED BY <1>4, <1>5, <1>7, <1>8, <1>9

-----------------------------------------------------------------------------
(* How the stream changes: the padding adds a word at its end. *)
LEMMA StreamGrows ==
  ASSUME TypeInv, NEW v \in Words, tx_crossing' = Append(tx_crossing, v),
         UNCHANGED <<toMac, dataFifo>>
  PROVE  /\ Total \in Nat /\ Total' = Total + 1 /\ Stored' = Stored
         /\ \A i \in 1 .. Total : Stream'[i] = Stream[i]
         /\ Stream'[Total + 1] = v
<1>1. /\ toMac \in Seq(Words) /\ dataFifo \in Seq(Words) /\ tx_crossing \in Seq(Words)
  BY DEF TypeInv
<1>2. Len(toMac) \in Nat /\ Len(dataFifo) \in Nat /\ Len(tx_crossing) \in Nat
  BY <1>1, LenProperties
<1>3. /\ Len(tx_crossing') = Len(tx_crossing) + 1
      /\ \A i \in 1 .. Len(tx_crossing) : tx_crossing'[i] = tx_crossing[i]
      /\ tx_crossing'[Len(tx_crossing) + 1] = v
  BY <1>1, AppendProperties
<1>4. Total \in Nat /\ Total' = Total + 1 /\ Stored' = Stored
  BY <1>2, <1>3 DEF Total, Stored
<1>5. ASSUME NEW i \in 1 .. Total
      PROVE  Stream'[i] = Stream[i]
  BY <1>2, <1>3, <1>4 DEF Stream, Line, Total, Stored
<1>6. Stream'[Total + 1] = v
  BY <1>2, <1>3, <1>4 DEF Stream, Line, Total, Stored
<1> QED BY <1>4, <1>5, <1>6

(* Where the ends of the FIFOs stand in the stream. *)
LEMMA StreamEnds ==
  ASSUME TypeInv
  PROVE  /\ Len(toMac) \in Nat /\ Len(dataFifo) \in Nat /\ Len(tx_crossing) \in Nat
         /\ Total \in Nat /\ Stored \in Nat /\ Stored <= Total
         /\ axis_rd_tvalid => Stored > Len(toMac) /\ Head(dataFifo) = Stream[Len(toMac) + 1]
         /\ axis_wr_tvalid => Total > Stored /\ Head(tx_crossing) = Stream[Stored + 1]
         /\ \A i \in 1 .. Len(toMac) : toMac[i] = Stream[i]
<1>1. /\ toMac \in Seq(Words) /\ dataFifo \in Seq(Words) /\ tx_crossing \in Seq(Words)
  BY DEF TypeInv
<1>2. Len(toMac) \in Nat /\ Len(dataFifo) \in Nat /\ Len(tx_crossing) \in Nat
  BY <1>1, LenProperties
<1>3. ASSUME axis_rd_tvalid
      PROVE  Stored > Len(toMac) /\ Head(dataFifo) = Stream[Len(toMac) + 1]
  <2>1. Len(dataFifo) >= 1 /\ Head(dataFifo) = dataFifo[1]
    BY <1>1, <1>2, <1>3, EmptySeq, HeadTailProperties DEF axis_rd_tvalid
  <2> QED BY <1>2, <2>1 DEF Stream, Line, Total, Stored
<1>4. ASSUME axis_wr_tvalid
      PROVE  Total > Stored /\ Head(tx_crossing) = Stream[Stored + 1]
  <2>1. Len(tx_crossing) >= 1 /\ Head(tx_crossing) = tx_crossing[1]
    BY <1>1, <1>2, <1>4, EmptySeq, HeadTailProperties DEF axis_wr_tvalid
  <2> QED BY <1>2, <2>1 DEF Stream, Line, Total, Stored
<1> QED BY <1>2, <1>3, <1>4 DEF Stream, Line, Total, Stored

(* The stream stays as it is when a word goes from the crossing FIFO to    *)
(* the data FIFO, and when one goes from there to the MAC.                 *)
LEMMA WordStored ==
  ASSUME NEW t \in Seq(Words), NEW d \in Seq(Words), NEW c \in Seq(Words), c # <<>>
  PROVE  /\ Append(d, Head(c)) \in Seq(Words) /\ Tail(c) \in Seq(Words)
         /\ Len(Append(d, Head(c))) = Len(d) + 1 /\ Len(Tail(c)) = Len(c) - 1
         /\ Line(t, Append(d, Head(c)), Tail(c)) = Line(t, d, c)
<1>1. Len(t) \in Nat /\ Len(d) \in Nat /\ Len(c) \in Nat
  BY LenProperties
<1>2. /\ Len(c) >= 1 /\ Head(c) = c[1] /\ Head(c) \in Words
      /\ Tail(c) \in Seq(Words) /\ Len(Tail(c)) = Len(c) - 1
      /\ \A i \in 1 .. Len(c) - 1 : Tail(c)[i] = c[i + 1]
  BY <1>1, EmptySeq, HeadTailProperties
<1>3. PICK e : e = Append(d, Head(c))
  OBVIOUS
<1>4. /\ e \in Seq(Words) /\ Len(e) = Len(d) + 1 /\ e[Len(d) + 1] = c[1]
      /\ \A i \in 1 .. Len(d) : e[i] = d[i]
  BY <1>2, <1>3, AppendProperties
<1>5. Line(t, e, Tail(c)) = Line(t, d, c)
  <2>1. PICK r : r = Tail(c)
    OBVIOUS
  <2>2. Len(r) = Len(c) - 1 /\ \A i \in 1 .. Len(c) - 1 : r[i] = c[i + 1]
    BY <1>2, <2>1
  <2>3. Len(e) = Len(d) + 1 /\ e[Len(d) + 1] = c[1] /\ \A i \in 1 .. Len(d) : e[i] = d[i]
    BY <1>4
  <2>4. Len(c) >= 1
    BY <1>2
  <2>5. Line(t, e, r) = Line(t, d, c)
    <3> DEFINE n == Len(t) + Len(d) + Len(c)
               f(i) == IF i <= Len(t) THEN t[i]
                       ELSE IF i <= Len(t) + Len(e) THEN e[i - Len(t)]
                       ELSE r[i - Len(t) - Len(e)]
               g(i) == IF i <= Len(t) THEN t[i]
                       ELSE IF i <= Len(t) + Len(d) THEN d[i - Len(t)]
                       ELSE c[i - Len(t) - Len(d)]
    <3>1. Len(t) + Len(e) + Len(r) = n
      BY <1>1, <2>2, <2>3
    <3>2. ASSUME NEW i \in 1 .. n PROVE f(i) = g(i)
      <4>1. CASE i <= Len(t) + Len(d)
        BY <1>1, <2>3, <4>1
      <4>2. CASE i = Len(t) + Len(d) + 1
        BY <1>1, <2>3, <4>2
      <4>3. CASE i > Len(t) + Len(d) + 1
        <5>1. PICK a \in Nat, b \in Nat, k \in Nat : a = Len(t) /\ b = Len(d) /\ k = Len(c)
          BY <1>1
        <5>2. Len(e) = b + 1 /\ i \in Nat /\ i > a + b + 1 /\ i <= a + b + k
          BY <2>3, <4>3, <5>1
        <5>3. PICK j \in Nat : j = i - a - (b + 1)
          BY <5>2
        <5>4. /\ j \in 1 .. k - 1 /\ i - a - b = j + 1
              /\ ~(i <= a) /\ ~(i <= a + b) /\ ~(i <= a + (b + 1))
          BY <5>2, <5>3
        <5>5. r[j] = c[j + 1]
          BY <2>2, <5>1, <5>4
        <5>6. f(i) = r[j] /\ g(i) = c[j + 1]
          BY <5>1, <5>2, <5>3, <5>4, Zenon
        <5> QED BY <5>5, <5>6, Zenon
      <4>4. i <= Len(t) + Len(d) \/ i = Len(t) + Len(d) + 1 \/ i > Len(t) + Len(d) + 1
        BY <1>1
      <4> QED BY <4>1, <4>2, <4>3, <4>4, Zenon
    <3>3. Line(t, e, r) = [i \in 1 .. n |-> f(i)] /\ Line(t, d, c) = [i \in 1 .. n |-> g(i)]
      BY <3>1 DEF Line
    <3> HIDE DEF f, g, n
    <3> QED BY <3>2, <3>3
  <2> QED BY <2>1, <2>5
<1> QED BY <1>2, <1>3, <1>4, <1>5

LEMMA WordTaken ==
  ASSUME NEW t \in Seq(Words), NEW d \in Seq(Words), NEW c \in Seq(Words), d # <<>>
  PROVE  /\ Tail(d) \in Seq(Words) /\ Len(Tail(d)) = Len(d) - 1 /\ Len(d) >= 1
         /\ Head(d) \in Words /\ Len(d) \in Nat /\ Len(t) \in Nat
         /\ Append(t, Head(d)) \in Seq(Words) /\ Len(Append(t, Head(d))) = Len(t) + 1
         /\ Line(Append(t, Head(d)), Tail(d), c) = Line(t, d, c)
<1>1. Len(t) \in Nat /\ Len(d) \in Nat /\ Len(c) \in Nat
  BY LenProperties
<1>2. /\ Len(d) >= 1 /\ Head(d) = d[1] /\ Head(d) \in Words
      /\ Tail(d) \in Seq(Words) /\ Len(Tail(d)) = Len(d) - 1
      /\ \A i \in 1 .. Len(d) - 1 : Tail(d)[i] = d[i + 1]
  BY <1>1, EmptySeq, HeadTailProperties
<1>3. PICK u : u = Append(t, Head(d))
  OBVIOUS
<1>4. /\ u \in Seq(Words) /\ Len(u) = Len(t) + 1 /\ u[Len(t) + 1] = d[1]
      /\ \A i \in 1 .. Len(t) : u[i] = t[i]
  BY <1>2, <1>3, AppendProperties
<1>5. Line(u, Tail(d), c) = Line(t, d, c)
  BY <1>1, <1>2, <1>4 DEF Line
<1> QED BY <1>1, <1>2, <1>3, <1>4, <1>5

(* Without the words the MAC has got it begins later. *)
LEMMA FrameTaken ==
  ASSUME NEW t \in Seq(Words), NEW d \in Seq(Words), NEW c \in Seq(Words)
  PROVE  \A i \in 1 .. Len(d) + Len(c) : Line(<<>>, d, c)[i] = Line(t, d, c)[i + Len(t)]
<1>1. Len(t) \in Nat /\ Len(d) \in Nat /\ Len(c) \in Nat /\ Len(<<>>) = 0
  BY LenProperties, EmptySeq
<1> QED BY <1>1 DEF Line

Ends(ready)   == axis_rd(ready) /\ Head(dataFifo).last
Taken(ready)  == IF axis_rd(ready) THEN 1 ELSE 0
StoredInCycle == IF axis_wr_tvalid THEN 1 ELSE 0

(* A cycle of the interface moves words along, and with the last word of a *)
(* frame takes the whole frame out.                                        *)
LEMMA StreamMoves ==
  ASSUME TypeInv, NEW ready \in BOOLEAN, Fifos(ready), Mac(ready)
  PROVE  /\ dataFifo' \in Seq(Words) /\ tx_crossing' \in Seq(Words) /\ toMac' \in Seq(Words)
         /\ ~Ends(ready) => /\ Len(toMac') = Len(toMac) + Taken(ready)
                            /\ Total' = Total
                            /\ Stored' = Stored + StoredInCycle
                            /\ Stream' = Stream
         /\ Ends(ready)  => /\ toMac' = <<>>
                            /\ Total' = Total - (Len(toMac) + 1)
                            /\ Stored' = Stored + StoredInCycle - (Len(toMac) + 1)
                            /\ \A i \in 1 .. Total' : Stream'[i] = Stream[i + (Len(toMac) + 1)]
<1>1. /\ toMac \in Seq(Words) /\ dataFifo \in Seq(Words) /\ tx_crossing \in Seq(Words)
  BY DEF TypeInv
<1>2. Len(toMac) \in Nat /\ Len(dataFifo) \in Nat /\ Len(tx_crossing) \in Nat
  BY <1>1, LenProperties
<1>3. PICK m : m = IF axis_rd(ready) THEN Tail(dataFifo) ELSE dataFifo
  OBVIOUS
<1>4. PICK t : t = IF axis_rd(ready) THEN Append(toMac, Head(dataFifo)) ELSE toMac
  OBVIOUS
<1>5. /\ m \in Seq(Words) /\ t \in Seq(Words) /\ Len(m) \in Nat
      /\ Len(t) = Len(toMac) + Taken(ready) /\ Len(m) = Len(dataFifo) - Taken(ready)
      /\ Line(t, m, tx_crossing) = Stream
  <2>1. CASE axis_rd(ready)
    <3>1. dataFifo # <<>>
      BY <2>1 DEF axis_rd, axis_rd_tvalid
    <3>2. /\ Tail(dataFifo) \in Seq(Words) /\ Len(Tail(dataFifo)) = Len(dataFifo) - 1
          /\ Append(toMac, Head(dataFifo)) \in Seq(Words) /\ Len(dataFifo) >= 1
          /\ Len(Append(toMac, Head(dataFifo))) = Len(toMac) + 1
          /\ Line(Append(toMac, Head(dataFifo)), Tail(dataFifo), tx_crossing)
               = Line(toMac, dataFifo, tx_crossing)
      BY <1>1, <3>1, WordTaken
    <3>3. m = Tail(dataFifo) /\ t = Append(toMac, Head(dataFifo)) /\ Taken(ready) = 1
      BY <1>3, <1>4, <2>1 DEF Taken
    <3>4. Len(m) = Len(dataFifo) - 1 /\ Len(t) = Len(toMac) + 1
      BY <3>2, <3>3
    <3> QED BY <1>2, <3>2, <3>3, <3>4 DEF Stream
  <2>2. CASE ~axis_rd(ready)
    <3>1. m = dataFifo /\ t = toMac /\ Taken(ready) = 0
      BY <1>3, <1>4, <2>2 DEF Taken
    <3> QED BY <1>1, <1>2, <3>1 DEF Stream
  <2> QED BY <2>1, <2>2
<1>6. /\ dataFifo' \in Seq(Words) /\ tx_crossing' \in Seq(Words)
      /\ Len(dataFifo') = Len(m) + StoredInCycle
      /\ Len(tx_crossing') = Len(tx_crossing) - StoredInCycle
      /\ Line(t, dataFifo', tx_crossing') = Line(t, m, tx_crossing)
  <2>1. CASE axis_wr_tvalid
    <3>1. tx_crossing # <<>>
      BY <2>1 DEF axis_wr_tvalid
    <3>2. dataFifo' = m \o <<Head(tx_crossing)>> /\ tx_crossing' = Tail(tx_crossing)
      BY <1>3, <2>1 DEF Fifos
    <3>3. StoredInCycle = 1
      BY <2>1 DEF StoredInCycle
    <3>a. t \in Seq(Words) /\ m \in Seq(Words)
      BY <1>5
    <3>4. /\ dataFifo' \in Seq(Words) /\ Tail(tx_crossing) \in Seq(Words)
          /\ Len(dataFifo') = Len(m) + 1 /\ Len(Tail(tx_crossing)) = Len(tx_crossing) - 1
          /\ Line(t, dataFifo', Tail(tx_crossing)) = Line(t, m, tx_crossing)
      <4>1. dataFifo' = Append(m, Head(tx_crossing))
        BY <3>a, <3>2
      <4>2. /\ Append(m, Head(tx_crossing)) \in Seq(Words) /\ Tail(tx_crossing) \in Seq(Words)
            /\ Len(Append(m, Head(tx_crossing))) = Len(m) + 1
            /\ Len(Tail(tx_crossing)) = Len(tx_crossing) - 1
            /\ Line(t, Append(m, Head(tx_crossing)), Tail(tx_crossing)) = Line(t, m, tx_crossing)
        BY <1>1, <3>a, <3>1, WordStored
      <4> QED BY <4>1, <4>2
    <3> QED BY <3>2, <3>3, <3>4
  <2>2. CASE ~axis_wr_tvalid
    <3>1. dataFifo' = m \o <<>> /\ tx_crossing' = tx_crossing
      BY <1>3, <2>2 DEF Fifos
    <3>2. dataFifo' = m
      BY <1>5, <3>1, ConcatEmptySeq
    <3>3. StoredInCycle = 0
      BY <2>2 DEF StoredInCycle
    <3> QED BY <1>1, <1>2, <1>5, <3>1, <3>2, <3>3
  <2> QED BY <2>1, <2>2
<1>7. CASE ~Ends(ready)
  <2>1. toMac' = t
    BY <1>4, <1>7 DEF Mac, Ends
  <2>2. StoredInCycle \in Int /\ Taken(ready) \in Int
    BY DEF StoredInCycle, Taken
  <2>3. Stream' = Stream
    BY <1>5, <1>6, <2>1 DEF Stream
  <2>4. Len(toMac') = Len(toMac) + Taken(ready)
    BY <1>5, <2>1
  <2>5. Len(dataFifo') = Len(dataFifo) - Taken(ready) + StoredInCycle
    BY <1>5, <1>6
  <2>6. Total' = Total /\ Stored' = Stored + StoredInCycle
    <3>1. Len(tx_crossing') = Len(tx_crossing) - StoredInCycle
      BY <1>6
    <3> QED BY <1>2, <2>2, <2>4, <2>5, <3>1 DEF Total, Stored
  <2> QED BY <1>5, <1>6, <1>7, <2>1, <2>3, <2>4, <2>6
<1>8. CASE Ends(ready)
  <2>1. /\ toMac' = <<>> /\ Taken(ready) = 1
    BY <1>8 DEF Mac, Ends, Taken
  <2>2. StoredInCycle \in {0, 1} /\ Len(toMac') = 0 /\ toMac' \in Seq(Words)
    BY <2>1, EmptySeq DEF StoredInCycle
  <2>3. Len(dataFifo') = Len(dataFifo) - 1 + StoredInCycle /\ Len(t) = Len(toMac) + 1
    BY <1>5, <1>6, <2>1
  <2>4. Total' = Total - (Len(toMac) + 1) /\ Stored' = Stored + StoredInCycle - (Len(toMac) + 1)
    BY <1>2, <1>6, <2>2, <2>3 DEF Total, Stored
  <2>5. Total' = Len(dataFifo') + Len(tx_crossing')
    BY <1>6, <2>2, LenProperties DEF Total
  <2>6. \A i \in 1 .. Len(dataFifo') + Len(tx_crossing') :
          Line(<<>>, dataFifo', tx_crossing')[i] = Line(t, dataFifo', tx_crossing')[i + Len(t)]
    BY <1>5, <1>6, FrameTaken
  <2>7. Stream' = Line(<<>>, dataFifo', tx_crossing')
    BY <2>1 DEF Stream
  <2>8. \A i \in 1 .. Total' : Stream'[i] = Stream[i + (Len(toMac) + 1)]
    BY <1>5, <1>6, <2>3, <2>5, <2>6, <2>7
  <2> QED BY <1>6, <1>8, <2>1, <2>2, <2>4, <2>8
<1> QED BY <1>7, <1>8

-----------------------------------------------------------------------------
(* The word the source presents goes on with the begun frame. *)
LEMMA SourceWord ==
  ASSUME frame \in 0 .. MaxFrames, pos \in 0 .. MaxWords - 1, pos > 0 => frame > 0,
         NEW w \in SourceWords
  PROVE  /\ w \in Words /\ w.pos = pos + 1 /\ w.frame \in 1 .. MaxFrames
         /\ pos > 0 => w.frame = frame
         /\ w.last => w \in LastWords
         /\ ~w.last => /\ w = [frame |-> w.frame, pos |-> pos + 1, last |-> FALSE, keep |-> WordBytes]
                       /\ pos + 1 < MaxWords
<1>1. /\ MaxFrames \in Nat /\ MaxWords \in Nat /\ WordBytes \in Nat
  BY PaddingAssumption, TxAssumption
<1>2. PICK f : f = IF pos = 0 THEN frame + 1 ELSE frame
  OBVIOUS
<1>3. /\ ~(f > MaxFrames)
      /\ \/ \E k \in 1 .. WordBytes : w = [frame |-> f, pos |-> pos + 1, last |-> TRUE, keep |-> k]
         \/ /\ w = [frame |-> f, pos |-> pos + 1, last |-> FALSE, keep |-> WordBytes]
            /\ pos + 1 < MaxWords
  BY <1>2 DEF SourceWords
<1>4. f \in 1 .. MaxFrames /\ (pos > 0 => f = frame)
  BY <1>1, <1>2, <1>3
<1>5. CASE \E k \in 1 .. WordBytes : w = [frame |-> f, pos |-> pos + 1, last |-> TRUE, keep |-> k]
  <2>1. PICK k \in 1 .. WordBytes : w = [frame |-> f, pos |-> pos + 1, last |-> TRUE, keep |-> k]
    BY <1>5
  <2>2. w.last /\ w.pos = pos + 1 /\ w.frame = f
    BY <2>1
  <2>3. k \in Nat /\ f \in Nat /\ pos + 1 \in 1 .. MaxWords /\ pos + 1 \in Nat
    BY <1>1, <1>4
  <2>4. w \in LastWords
    BY <1>4, <2>1, <2>3 DEF LastWords
  <2>5. w \in Words
    BY <2>1, <2>3 DEF Words
  <2> QED BY <1>4, <2>2, <2>4, <2>5
<1>6. CASE /\ w = [frame |-> f, pos |-> pos + 1, last |-> FALSE, keep |-> WordBytes]
           /\ pos + 1 < MaxWords
  <2>1. ~w.last /\ w.pos = pos + 1 /\ w.frame = f
    BY <1>6
  <2>2. w \in Words
    BY <1>1, <1>4, <1>6 DEF Words
  <2> QED BY <1>4, <1>6, <2>1, <2>2
<1> QED BY <1>3, <1>5, <1>6

(* What the padding function writes for it, and that it counts. *)
LEMMA ForwardedWord ==
  ASSUME TypeInv, pos > 0 => frame > 0, NEW w \in SourceWords, Forward(w), wordCounter = pos
  PROVE  /\ state = 0
         /\ ~w.last => tx_crossing' = Append(tx_crossing, w) /\ state' = 0 /\ wordCounter' = pos + 1
         /\ w.last =>
              /\ tx_crossing' = Append(tx_crossing, PaddedFrame(w)[w.pos])
              /\ w.pos < MinWords => state' = 1 /\ wordCounter' = w.pos
              /\ w.pos >= MinWords => state' = 0 /\ wordCounter' = 0
<1>1. /\ MinWords \in Nat /\ MaxWords \in Nat /\ CounterMod \in Nat /\ MaxWords < CounterMod
      /\ MinLastBytes \in Nat /\ pos \in 0 .. MaxWords - 1 /\ frame \in 0 .. MaxFrames
  BY PaddingAssumption DEF TypeInv
<1>2. CountWord = pos + 1
  BY <1>1 DEF CountWord
<1>3. w.pos = pos + 1 /\ (w.last => w \in LastWords) /\ w \in Words
  BY <1>1, SourceWord
<1>4. w.keep \in Nat
  BY <1>3 DEF Words
<1>5. state = 0
  BY DEF Forward
<1>6. ASSUME ~w.last
      PROVE  tx_crossing' = Append(tx_crossing, w) /\ state' = 0 /\ wordCounter' = pos + 1
  BY <1>2, <1>6 DEF Forward, Write, NextCount
<1>7. ASSUME w.last, w.pos < MinWords
      PROVE  /\ tx_crossing' = Append(tx_crossing, PaddedFrame(w)[w.pos])
             /\ state' = 1 /\ wordCounter' = w.pos
  <2>1. /\ tx_crossing' = Append(tx_crossing, [w EXCEPT !.keep = WordBytes, !.last = FALSE])
        /\ state' = 1 /\ wordCounter' = w.pos
    BY <1>2, <1>3, <1>7 DEF Forward, Write, NextCount
  <2>2. PaddedFrame(w)[w.pos] = [w EXCEPT !.keep = WordBytes, !.last = FALSE]
    BY <1>3, <1>7, PaddedWords
  <2> QED BY <2>1, <2>2
<1>8. ASSUME w.last, w.pos = MinWords, w.keep < MinLastBytes
      PROVE  /\ tx_crossing' = Append(tx_crossing, PaddedFrame(w)[w.pos])
             /\ state' = 0 /\ wordCounter' = 0
  <2>1. /\ tx_crossing' = Append(tx_crossing, [w EXCEPT !.keep = MinLastBytes])
        /\ state' = 0 /\ wordCounter' = 0
    BY <1>1, <1>2, <1>3, <1>8 DEF Forward, Write, NextCount
  <2>2. PaddedFrame(w)[w.pos] = [w EXCEPT !.keep = MinLastBytes]
    BY <1>3, <1>8, PaddedWords
  <2> QED BY <2>1, <2>2
<1>9. ASSUME w.last, w.pos > MinWords \/ (w.pos = MinWords /\ w.keep >= MinLastBytes)
      PROVE  /\ tx_crossing' = Append(tx_crossing, PaddedFrame(w)[w.pos])
             /\ state' = 0 /\ wordCounter' = 0
  <2>1. /\ tx_crossing' = Append(tx_crossing, w)
        /\ state' = 0 /\ wordCounter' = 0
    BY <1>1, <1>2, <1>3, <1>4, <1>9 DEF Forward, Write, NextCount
  <2>2. PaddedFrame(w)[w.pos] = w
    BY <1>3, <1>9, PaddedWords
  <2> QED BY <2>1, <2>2
<1>10. w.pos < MinWords \/ (w.pos = MinWords /\ w.keep < MinLastBytes)
         \/ (w.pos > MinWords \/ (w.pos = MinWords /\ w.keep >= MinLastBytes))
  BY <1>1, <1>3, <1>4
<1>11. ~(w.pos < MinWords /\ w.pos >= MinWords)
  BY <1>1, <1>3
<1>12. w.pos = MinWords \/ w.pos > MinWords => ~(w.pos < MinWords)
  BY <1>1, <1>3
<1> QED BY <1>5, <1>6, <1>7, <1>8, <1>9, <1>10, <1>11, <1>12

-----------------------------------------------------------------------------
(* The sequences grow by one word or frame at most. *)
LEMMA PadWordTypes ==
  ASSUME TxInv, NEW w \in SourceWords, PadWord(w)
  PROVE  TypeInv' /\ CommandFifo'
<1>1. TypeInv /\ CommandFifo
  BY DEF TxInv
<1>2. PICK start : Layout(start, Len(accepted))
  BY DEF TxInv
<1>3. /\ MinWords \in Nat /\ MaxWords \in Nat /\ MinWords >= 2
      /\ MaxFrames \in Nat
  BY PaddingAssumption, TxAssumption
<1>4. state = 0 /\ wordCounter = pos /\ (pos > 0 => frame > 0)
  BY <1>2 DEF Layout, Tip, PadWord, Forward
<1>5. /\ w \in Words /\ w.pos = pos + 1 /\ w.frame \in 1 .. MaxFrames
      /\ w.last => w \in LastWords
      /\ ~w.last => pos + 1 < MaxWords
  BY <1>1, <1>4, SourceWord DEF TypeInv
<1>6. /\ ~w.last => tx_crossing' = Append(tx_crossing, w) /\ state' = 0 /\ wordCounter' = pos + 1
      /\ w.last => /\ tx_crossing' = Append(tx_crossing, PaddedFrame(w)[w.pos])
                   /\ w.pos < MinWords => state' = 1 /\ wordCounter' = w.pos
                   /\ w.pos >= MinWords => state' = 0 /\ wordCounter' = 0
  BY <1>1, <1>4, ForwardedWord DEF PadWord
<1>7. pos \in 0 .. MaxWords - 1 /\ tx_crossing \in Seq(Words) /\ accepted \in Seq(LastWords)
  BY <1>1 DEF TypeInv
<1>8. PICK v \in Words : tx_crossing' = Append(tx_crossing, v)
  <2>1. ASSUME w.last PROVE PaddedFrame(w)[w.pos] \in Words
    <3>1. w.pos \in 1 .. PadLen(w) /\ PaddedFrame(w) \in [1 .. PadLen(w) -> Words]
      BY <1>5, <1>7, <1>3, <2>1, PaddedFrames
    <3> QED BY <3>1
  <2> QED BY <1>5, <1>6, <2>1
<1>9. tx_crossing' \in Seq(Words)
  BY <1>7, <1>8, AppendProperties
<1>10. state' \in {0, 1} /\ wordCounter' \in Nat
  BY <1>3, <1>5, <1>6, <1>7
<1>11. frame' \in 0 .. MaxFrames /\ pos' \in 0 .. MaxWords - 1
  BY <1>3, <1>5, <1>7 DEF PadWord
<1>12. accepted' \in Seq(LastWords)
  BY <1>5, <1>7, AppendProperties DEF PadWord
<1> QED BY <1>1, <1>9, <1>10, <1>11, <1>12 DEF TypeInv, CommandFifo, PadWord, txVars

(* What the places say, frame by frame. *)
LEMMA PlacesFacts ==
  ASSUME TypeInv, NEW n, n = Len(accepted), NEW start, Places(start, n)
  PROVE  /\ n \in Nat /\ start[n + 1] \in Nat /\ start[1] = 0
         /\ \A k \in 1 .. n + 1 : start[k] \in Nat /\ start[k] <= start[n + 1]
         /\ \A k \in 1 .. n :
              /\ accepted[k] \in LastWords
              /\ PadLen(accepted[k]) \in Nat /\ PadLen(accepted[k]) >= 2
              /\ start[k + 1] = start[k] + PadLen(accepted[k])
              /\ start[k + 1] \in Nat /\ start[k + 1] <= start[n + 1]
<1>1. accepted \in Seq(LastWords)
  BY DEF TypeInv
<1>2. n \in Nat
  BY <1>1, LenProperties
<1>3. \A k \in 1 .. n + 1 : start[k] \in Nat /\ start[k] <= start[n + 1]
  BY <1>2 DEF Places
<1>4. ASSUME NEW k \in 1 .. n
      PROVE  /\ accepted[k] \in LastWords
             /\ PadLen(accepted[k]) \in Nat /\ PadLen(accepted[k]) >= 2
             /\ start[k + 1] = start[k] + PadLen(accepted[k])
             /\ start[k + 1] \in Nat /\ start[k + 1] <= start[n + 1]
  <2>1. accepted[k] \in LastWords
    BY <1>1, ElementOfSeq
  <2>2. PadLen(accepted[k]) \in Nat /\ PadLen(accepted[k]) >= 2
    BY <2>1, PaddedFrames
  <2>3. k + 1 \in 1 .. n + 1
    BY <1>2
  <2> QED BY <1>3, <2>1, <2>2, <2>3 DEF Places
<1>5. n + 1 \in 1 .. n + 1
  BY <1>2
<1> QED BY <1>2, <1>3, <1>4, <1>5 DEF Places

(* A word of a frame that goes on. *)
LEMMA PadBodyWord ==
  ASSUME TxInv, NEW w \in SourceWords, PadWord(w), ~w.last
  PROVE  TxInv'
<1>1. TypeInv /\ TypeInv' /\ CommandFifo'
  BY PadWordTypes DEF TxInv
<1>2. PICK n : n = Len(accepted)
  OBVIOUS
<1>3. PICK start : Layout(start, n)
  BY <1>2 DEF TxInv
<1>4. n \in Nat
  BY <1>1, <1>2, LenProperties DEF TypeInv
<1>5. state = 0 /\ wordCounter = pos /\ (pos > 0 => frame > 0) /\ Total = start[n + 1] + pos
  BY <1>3 DEF Layout, Tip, PadWord, Forward
<1>6. pos \in 0 .. MaxWords - 1 /\ frame \in 0 .. MaxFrames /\ MaxWords \in Nat /\ MaxFrames \in Nat
  BY <1>1, PaddingAssumption, TxAssumption DEF TypeInv
<1>7. /\ w \in Words /\ w.pos = pos + 1 /\ w.frame \in 1 .. MaxFrames
      /\ pos > 0 => w.frame = frame
      /\ w = [frame |-> w.frame, pos |-> pos + 1, last |-> FALSE, keep |-> WordBytes]
  BY <1>5, <1>6, SourceWord
<1>8. tx_crossing' = Append(tx_crossing, w) /\ state' = 0 /\ wordCounter' = pos + 1
  BY <1>1, <1>5, ForwardedWord DEF PadWord
<1>9. /\ UNCHANGED <<txVars, toMac, dataFifo, accepted>> /\ frame' = w.frame /\ pos' = pos + 1
  BY <1>7 DEF PadWord, txVars
<1>10. /\ Total \in Nat /\ Total' = Total + 1 /\ Stored' = Stored
       /\ \A i \in 1 .. Total : Stream'[i] = Stream[i]
       /\ Stream'[Total + 1] = w
  BY <1>1, <1>7, <1>8, <1>9, StreamGrows
<1>11. Places(start, n)'
  BY <1>3, <1>9 DEF Layout, Places
<1>12. /\ start[n + 1] \in Nat
       /\ \A k \in 1 .. n : /\ start[k] \in Nat /\ PadLen(accepted[k]) \in Nat
                            /\ start[k + 1] = start[k] + PadLen(accepted[k])
                            /\ start[k + 1] <= start[n + 1]
  <2>1. \A k \in 1 .. n : k \in 1 .. n + 1
    BY <1>4
  <2> QED BY <1>1, <1>2, <1>3, <2>1, PlacesFacts DEF Layout
<1>13. Laid(start, n)'
  <2> SUFFICES ASSUME NEW k \in 1 .. n, NEW i \in 1 .. PadLen(accepted[k])
               PROVE  Stream'[start[k] + i] = PaddedFrame(accepted[k])[i]
    BY <1>9 DEF Laid
  <2>1. /\ start[k] \in Nat /\ PadLen(accepted[k]) \in Nat /\ start[k + 1] <= start[n + 1]
        /\ start[k + 1] = start[k] + PadLen(accepted[k])
    BY <1>12
  <2>3. start[k] + i \in 1 .. Total
    BY <1>5, <1>6, <1>12, <2>1
  <2> QED BY <1>3, <1>10, <2>3 DEF Layout, Laid
<1>14. Tip(start, n)'
  <2>1. Total' = start[n + 1] + pos' /\ wordCounter' = pos'
    BY <1>5, <1>6, <1>8, <1>9, <1>10, <1>12
  <2>2. ASSUME NEW i \in 1 .. pos'
        PROVE  Stream'[start[n + 1] + i] = BodyWord(i)'
    <3>1. CASE i <= pos
      <4>1. start[n + 1] + i \in 1 .. Total /\ i \in 1 .. pos /\ frame' = frame
        BY <1>5, <1>6, <1>7, <1>9, <1>12, <3>1
      <4> QED BY <1>3, <1>5, <1>10, <4>1 DEF Layout, Tip, BodyWord
    <3>2. CASE i = pos + 1
      <4>1. start[n + 1] + i = Total + 1
        BY <1>5, <1>6, <1>12, <3>2
      <4> QED BY <1>7, <1>9, <1>10, <3>2, <4>1 DEF BodyWord
    <3> QED BY <1>6, <1>9, <3>1, <3>2
  <2>3. frame' > 0
    BY <1>6, <1>7, <1>9
  <2> QED BY <1>8, <2>1, <2>2, <2>3 DEF Tip
<1>15. Commands' = Commands
  BY <1>9 DEF Commands, txVars
<1>16. Reach(start, n)'
  BY <1>3, <1>9, <1>10, <1>15 DEF Layout, Reach, txVars
<1>17. Layout(start, n)'
  BY <1>11, <1>13, <1>14, <1>16 DEF Layout
<1> QED BY <1>1, <1>2, <1>9, <1>17 DEF TxInv

(* The last word of a frame: the frame gets its place behind the others. *)
LEMMA PadLastWord ==
  ASSUME TxInv, NEW w \in SourceWords, PadWord(w), w.last
  PROVE  TxInv'
<1>1. TypeInv /\ TypeInv' /\ CommandFifo'
  BY PadWordTypes DEF TxInv
<1>2. PICK n : n = Len(accepted)
  OBVIOUS
<1>3. PICK start : Layout(start, n)
  BY <1>2 DEF TxInv
<1>4. /\ n \in Nat /\ start[n + 1] \in Nat /\ start[1] = 0
      /\ \A k \in 1 .. n + 1 : start[k] \in Nat /\ start[k] <= start[n + 1]
      /\ \A k \in 1 .. n : /\ PadLen(accepted[k]) \in Nat
                           /\ start[k + 1] = start[k] + PadLen(accepted[k])
                           /\ start[k + 1] \in Nat /\ start[k + 1] <= start[n + 1]
  BY <1>1, <1>2, <1>3, PlacesFacts DEF Layout
<1>5. state = 0 /\ wordCounter = pos /\ (pos > 0 => frame > 0) /\ Total = start[n + 1] + pos
  BY <1>3 DEF Layout, Tip, PadWord, Forward
<1>6. pos \in 0 .. MaxWords - 1 /\ frame \in 0 .. MaxFrames /\ MaxWords \in Nat /\ MaxFrames \in Nat
      /\ MinWords \in Nat
  BY <1>1, PaddingAssumption, TxAssumption DEF TypeInv
<1>7. w \in Words /\ w.pos = pos + 1 /\ w \in LastWords /\ (pos > 0 => w.frame = frame)
  BY <1>5, <1>6, SourceWord
<1>8. /\ PadLen(w) \in Nat /\ PadLen(w) >= 2 /\ PadLen(w) >= w.pos /\ w.pos \in 1 .. PadLen(w)
      /\ PaddedFrame(w) \in [1 .. PadLen(w) -> Words]
  BY <1>6, <1>7, PaddedFrames
<1>9. /\ tx_crossing' = Append(tx_crossing, PaddedFrame(w)[w.pos])
      /\ w.pos < MinWords => state' = 1 /\ wordCounter' = w.pos
      /\ w.pos >= MinWords => state' = 0 /\ wordCounter' = 0
  BY <1>1, <1>5, ForwardedWord DEF PadWord
<1>10. /\ UNCHANGED <<txVars, toMac, dataFifo>> /\ accepted' = Append(accepted, w)
       /\ frame' = w.frame /\ pos' = 0
  BY DEF PadWord, txVars
<1>11. /\ Total \in Nat /\ Total' = Total + 1 /\ Stored' = Stored
       /\ \A i \in 1 .. Total : Stream'[i] = Stream[i]
       /\ Stream'[Total + 1] = PaddedFrame(w)[w.pos]
  <2>1. PaddedFrame(w)[w.pos] \in Words
    BY <1>8
  <2> QED BY <1>1, <1>9, <1>10, <2>1, StreamGrows
<1>12. /\ Len(accepted') = n + 1 /\ accepted'[n + 1] = w
       /\ \A k \in 1 .. n : accepted'[k] = accepted[k]
  BY <1>1, <1>2, <1>7, <1>10, AppendProperties DEF TypeInv
<1>13. PICK t : t = [k \in 1 .. n + 2 |-> IF k <= n + 1 THEN start[k] ELSE start[n + 1] + PadLen(w)]
  OBVIOUS
<1>14. /\ \A k \in 1 .. n + 1 : t[k] = start[k]
       /\ t[n + 2] = start[n + 1] + PadLen(w) /\ t[n + 1] = start[n + 1] /\ t[1] = 0
  BY <1>4, <1>13
<1>15. Places(t, n + 1)'
  <2>1. t \in [1 .. (n + 1) + 1 -> Nat]
    BY <1>4, <1>8, <1>13
  <2>2. ASSUME NEW k \in 1 .. n + 1
        PROVE  t[k + 1] = t[k] + PadLen(accepted'[k])
    <3>1. CASE k \in 1 .. n
      <4>1. k \in 1 .. n + 1 /\ k + 1 \in 1 .. n + 1
        BY <1>4, <3>1
      <4> QED BY <1>4, <1>12, <1>14, <3>1, <4>1
    <3>2. CASE k = n + 1
      BY <1>4, <1>12, <1>14, <3>2
    <3> QED BY <1>4, <3>1, <3>2
  <2>3. ASSUME NEW j \in 1 .. (n + 1) + 1, NEW k \in 1 .. (n + 1) + 1, j <= k
        PROVE  t[j] <= t[k]
    <3>1. CASE k <= n + 1
      <4>1. start[j] <= start[k] /\ j \in 1 .. n + 1 /\ k \in 1 .. n + 1
        BY <1>3, <1>4, <2>3, <3>1 DEF Layout, Places
      <4> QED BY <1>14, <4>1
    <3>2. CASE k = n + 2 /\ j <= n + 1
      <4>1. j \in 1 .. n + 1 /\ start[j] \in Nat /\ start[j] <= start[n + 1]
        BY <1>4, <3>2
      <4> QED BY <1>4, <1>8, <1>14, <3>2, <4>1
    <3>3. CASE j = n + 2 /\ k = n + 2
      BY <1>4, <1>8, <1>14, <3>3
    <3> QED BY <1>4, <2>3, <3>1, <3>2, <3>3
  <2> QED BY <1>4, <1>14, <2>1, <2>2, <2>3 DEF Places
<1>16. Laid(t, n + 1)'
  <2> SUFFICES ASSUME NEW k \in 1 .. n + 1, NEW i \in 1 .. PadLen(accepted'[k]), t[k] + i <= Total'
               PROVE  Stream'[t[k] + i] = PaddedFrame(accepted'[k])[i]
    BY DEF Laid
  <2>1. CASE k \in 1 .. n
    <3>1. accepted'[k] = accepted[k] /\ t[k] = start[k]
      BY <1>4, <1>12, <1>14, <2>1
    <3>2. /\ start[k] \in Nat /\ PadLen(accepted[k]) \in Nat /\ start[k + 1] <= start[n + 1]
          /\ start[k + 1] = start[k] + PadLen(accepted[k])
      BY <1>4, <2>1
    <3>3. start[k] + i \in 1 .. Total /\ i \in 1 .. PadLen(accepted[k])
      BY <1>4, <1>5, <1>6, <3>1, <3>2
    <3>4. Stream[start[k] + i] = PaddedFrame(accepted[k])[i]
      BY <1>3, <2>1, <3>3 DEF Layout, Laid
    <3> QED BY <1>11, <3>1, <3>3, <3>4
  <2>2. CASE k = n + 1
    <3>1. accepted'[k] = w /\ t[k] = start[n + 1] /\ i \in 1 .. PadLen(w) /\ i \in Nat
      BY <1>12, <1>14, <2>2, <1>8
    <3>2. i <= w.pos
      BY <1>4, <1>5, <1>6, <1>7, <1>11, <3>1
    <3>3. CASE i = w.pos
      <4>1. t[k] + i = Total + 1
        BY <1>4, <1>5, <1>6, <1>7, <3>1, <3>3
      <4> QED BY <1>11, <3>1, <3>3, <4>1
    <3>4. CASE i < w.pos
      <4>1. i \in 1 .. pos /\ i \in 1 .. w.pos - 1 /\ start[n + 1] + i \in 1 .. Total
        BY <1>4, <1>5, <1>6, <1>7, <3>1, <3>4
      <4>2. Stream[start[n + 1] + i] = BodyWord(i)
        BY <1>3, <1>5, <4>1 DEF Layout, Tip
      <4>3. PaddedFrame(w)[i] = [frame |-> w.frame, pos |-> i, last |-> FALSE, keep |-> WordBytes]
        BY <1>7, <4>1, PaddedWords
      <4>4. w.frame = frame
        BY <1>6, <1>7, <4>1
      <4>5. Stream[start[n + 1] + i] = PaddedFrame(w)[i]
        BY <4>2, <4>3, <4>4 DEF BodyWord
      <4> QED BY <1>11, <3>1, <4>1, <4>5
    <3> QED BY <1>6, <1>7, <3>1, <3>2, <3>3, <3>4
  <2> QED BY <1>4, <2>1, <2>2
<1>17. Tip(t, n + 1)'
  <2>1. CASE w.pos < MinWords
    <3>1. state' = 1 /\ wordCounter' = w.pos /\ pos' = 0 /\ frame' = accepted'[n + 1].frame
      BY <1>9, <1>10, <1>12, <2>1
    <3>2. Total' = t[n + 1] + wordCounter'
      BY <1>4, <1>5, <1>6, <1>7, <1>11, <1>14, <3>1
    <3>3. wordCounter' \in accepted'[n + 1].pos .. MinWords - 1
      BY <1>6, <1>7, <1>12, <2>1, <3>1
    <3> QED BY <1>4, <3>1, <3>2, <3>3 DEF Tip
  <2>2. CASE w.pos >= MinWords
    <3>1. state' = 0 /\ wordCounter' = 0 /\ pos' = 0
      BY <1>9, <1>10, <2>2
    <3>2. PadLen(w) = w.pos
      BY <1>6, <1>7, <2>2 DEF PadLen
    <3>3. Total' = t[(n + 1) + 1] + pos'
      <4>1. (n + 1) + 1 = n + 2
        BY <1>4
      <4> QED BY <1>4, <1>5, <1>6, <1>7, <1>11, <1>14, <3>1, <3>2, <4>1
    <3> QED BY <3>1, <3>3 DEF Tip
  <2> QED BY <1>6, <1>7, <2>1, <2>2
<1>18. Commands' = Commands /\ Commands \in Nat
  BY <1>1, <1>10 DEF Commands, txVars, TypeInv
<1>19. Reach(t, n + 1)'
  <2>1. /\ Commands <= n /\ start[Commands + 1] <= Stored
        /\ Commands < n => Stored < start[Commands + 2]
        /\ state_wr = "IDLE" <=> Stored = start[Commands + 1]
        /\ toMac # <<>> => state_rd = "PUSH" /\ Len(toMac) < start[2]
    BY <1>3 DEF Layout, Reach
  <2>2. t[Commands + 1] = start[Commands + 1]
    BY <1>4, <1>14, <1>18, <2>1
  <2>3. Commands < n => t[Commands + 2] = start[Commands + 2]
    BY <1>4, <1>14, <1>18, <2>1
  <2>4. Stored <= Total /\ Stored \in Nat
    BY <1>1, StreamEnds
  <2>5. Stored < t[Commands + 2]
    <3>1. CASE Commands < n
      BY <2>1, <2>3, <3>1
    <3>2. CASE Commands = n
      BY <1>4, <1>5, <1>6, <1>7, <1>8, <1>14, <2>4, <3>2
    <3> QED BY <1>4, <1>18, <2>1, <3>1, <3>2
  <2>6. toMac # <<>> => state_rd = "PUSH" /\ Len(toMac) < t[2]
    <3> SUFFICES ASSUME toMac # <<>> PROVE Len(toMac) < t[2]
      BY <2>1
    <3>1. n >= 1 => t[2] = start[2]
      BY <1>4, <1>14
    <3>2. n = 0 => t[2] = start[1] + PadLen(w) /\ Commands = 0
      BY <1>4, <1>14, <1>18, <2>1
    <3>3. CASE n >= 1
      BY <2>1, <3>1, <3>3
    <3>4. CASE n = 0
      <4>1. Len(toMac) <= Stored /\ Len(toMac) \in Nat
        BY <1>1, LenProperties DEF Stored, TypeInv
      <4> QED BY <1>4, <1>8, <2>4, <2>5, <3>2, <3>4, <4>1
    <3> QED BY <1>4, <3>3, <3>4
  <2>7. Commands <= n + 1
    BY <1>4, <1>18, <2>1
  <2> QED BY <1>10, <1>11, <1>18, <2>1, <2>2, <2>5, <2>6, <2>7 DEF Reach, txVars
<1>20. Layout(t, n + 1)'
  BY <1>15, <1>16, <1>17, <1>19 DEF Layout
<1> QED BY <1>1, <1>12, <1>20 DEF TxInv

(* A word of padding is the next one of the last frame. *)
LEMMA PadFillStep ==
  ASSUME TxInv, PadFill
  PROVE  TxInv'
<1>1. TypeInv /\ CommandFifo
  BY DEF TxInv
<1>2. PICK n : n = Len(accepted)
  OBVIOUS
<1>3. PICK start : Layout(start, n)
  BY <1>2 DEF TxInv
<1>4. /\ n \in Nat /\ start[n + 1] \in Nat
      /\ \A k \in 1 .. n : /\ PadLen(accepted[k]) \in Nat /\ accepted[k] \in LastWords
                           /\ start[k + 1] = start[k] + PadLen(accepted[k])
                           /\ start[k + 1] \in Nat /\ start[k + 1] <= start[n + 1]
      /\ \A k \in 1 .. n + 1 : start[k] \in Nat /\ start[k] <= start[n + 1]
  BY <1>1, <1>2, <1>3, PlacesFacts DEF Layout
<1>5. /\ state = 1 /\ n >= 1 /\ pos = 0 /\ Total = start[n] + wordCounter
      /\ wordCounter \in accepted[n].pos .. MinWords - 1 /\ frame = accepted[n].frame
  BY <1>3 DEF Layout, Tip, PadFill, Fill
<1>6. PICK w : w = accepted[n]
  OBVIOUS
<1>7. /\ w \in LastWords /\ PadLen(w) \in Nat /\ start[n] \in Nat
      /\ start[n + 1] = start[n] + PadLen(w)
  <2>1. n \in 1 .. n /\ n \in 1 .. n + 1
    BY <1>4, <1>5
  <2> QED BY <1>4, <1>6, <2>1
<1>8. /\ MinWords \in Nat /\ MaxWords \in Nat /\ CounterMod \in Nat /\ MinWords <= MaxWords
      /\ MaxWords < CounterMod /\ w.pos \in 1 .. MaxWords /\ MinLastBytes \in Nat /\ WordBytes \in Nat
  BY <1>7, PaddingAssumption DEF LastWords
<1>9. PadLen(w) = MinWords /\ wordCounter \in w.pos .. MinWords - 1 /\ wordCounter \in Nat
  BY <1>5, <1>6, <1>8 DEF PadLen
<1>10. CountWord = wordCounter + 1
  BY <1>8, <1>9 DEF CountWord
<1> DEFINE v == PaddedFrame(w)[wordCounter + 1]
<1>11. /\ tx_crossing' = Append(tx_crossing, v)
       /\ wordCounter + 1 = MinWords => state' = 0 /\ wordCounter' = 0
       /\ wordCounter + 1 # MinWords => state' = 1 /\ wordCounter' = wordCounter + 1
  <2>1. wordCounter + 1 \in w.pos + 1 .. PadLen(w)
    BY <1>8, <1>9
  <2>2. v = [frame |-> w.frame, pos |-> 0, last |-> wordCounter + 1 = PadLen(w),
             keep |-> IF wordCounter + 1 = PadLen(w) THEN MinLastBytes ELSE WordBytes]
    BY <1>7, <2>1, PaddedWords
  <2>3. tx_crossing' = Append(tx_crossing,
          [frame |-> w.frame, pos |-> 0, last |-> wordCounter + 1 = MinWords,
           keep |-> IF wordCounter + 1 = MinWords THEN MinLastBytes ELSE WordBytes])
    BY <1>5, <1>6, <1>10 DEF PadFill, Fill, Write
  <2>4. /\ state' = IF wordCounter + 1 = MinWords THEN 0 ELSE 1
        /\ wordCounter' = IF wordCounter + 1 = MinWords THEN 0 ELSE wordCounter + 1
    BY <1>10 DEF PadFill, Fill, NextCount
  <2> QED BY <1>9, <2>2, <2>3, <2>4
<1>12. UNCHANGED <<txVars, toMac, dataFifo, accepted, frame, pos>>
  BY DEF PadFill, txVars
<1>13. v \in Words
  <2>1. wordCounter + 1 \in 1 .. PadLen(w) /\ PaddedFrame(w) \in [1 .. PadLen(w) -> Words]
    BY <1>7, <1>8, <1>9, PaddedFrames
  <2> QED BY <2>1
<1> HIDE DEF v
<1>14. /\ Total \in Nat /\ Total' = Total + 1 /\ Stored' = Stored
       /\ \A i \in 1 .. Total : Stream'[i] = Stream[i]
       /\ Stream'[Total + 1] = v
  BY <1>1, <1>11, <1>12, <1>13, StreamGrows
<1>15. TypeInv' /\ CommandFifo'
  <2>1. tx_crossing' \in Seq(Words)
    BY <1>1, <1>11, <1>13, AppendProperties DEF TypeInv
  <2>2. state' \in {0, 1} /\ wordCounter' \in Nat
    BY <1>9, <1>11
  <2> QED BY <1>1, <1>12, <2>1, <2>2 DEF TypeInv, CommandFifo, txVars
<1>16. Places(start, n)'
  BY <1>3, <1>12 DEF Layout, Places
<1>17. Laid(start, n)'
  <2> SUFFICES ASSUME NEW k \in 1 .. n, NEW i \in 1 .. PadLen(accepted[k]), start[k] + i <= Total'
               PROVE  Stream'[start[k] + i] = PaddedFrame(accepted[k])[i]
    BY <1>12 DEF Laid
  <2>1. start[k] \in Nat /\ PadLen(accepted[k]) \in Nat
    <3>1. k \in 1 .. n + 1
      BY <1>4
    <3> QED BY <1>4, <3>1
  <2>2. CASE start[k] + i <= Total
    <3>1. start[k] + i \in 1 .. Total
      BY <1>14, <2>1, <2>2
    <3> QED BY <1>3, <1>14, <2>2, <3>1 DEF Layout, Laid
  <2>3. CASE start[k] + i = Total + 1
    <3>1. k = n
      <4> SUFFICES ASSUME k < n PROVE FALSE
        BY <1>4
      <4>1. k + 1 \in 1 .. n + 1 /\ n \in 1 .. n + 1 /\ k + 1 <= n
        BY <1>4
      <4>2. start[k + 1] <= start[n]
        BY <1>3, <4>1 DEF Layout, Places
      <4>3. start[k + 1] = start[k] + PadLen(accepted[k])
        BY <1>4
      <4> QED BY <1>5, <1>7, <1>9, <2>1, <2>3, <4>2, <4>3
    <3>2. i = wordCounter + 1
      BY <1>5, <1>7, <1>9, <2>1, <2>3, <3>1
    <3> QED BY <1>6, <1>14, <2>3, <3>1, <3>2 DEF v
  <2> QED BY <1>14, <2>1, <2>2, <2>3
<1>18. Tip(start, n)'
  <2>1. CASE wordCounter + 1 = MinWords
    <3>1. Total' = start[n + 1] + pos'
      BY <1>5, <1>7, <1>9, <1>12, <1>14, <2>1
    <3> QED BY <1>5, <1>11, <1>12, <2>1, <3>1 DEF Tip
  <2>2. CASE wordCounter + 1 # MinWords
    <3>1. Total' = start[n] + wordCounter' /\ wordCounter' \in accepted'[n].pos .. MinWords - 1
      <4>1. wordCounter' = wordCounter + 1 /\ accepted'[n] = w
        BY <1>6, <1>11, <1>12, <2>2
      <4>2. wordCounter + 1 \in w.pos .. MinWords - 1
        BY <1>8, <1>9, <2>2
      <4> QED BY <1>5, <1>7, <1>9, <1>14, <4>1, <4>2
    <3> QED BY <1>5, <1>11, <1>12, <2>2, <3>1 DEF Tip
  <2> QED BY <2>1, <2>2
<1>19. Commands' = Commands
  BY <1>12 DEF Commands, txVars
<1>20. Reach(start, n)'
  BY <1>3, <1>12, <1>14, <1>19 DEF Layout, Reach, txVars
<1>21. Layout(start, n)'
  BY <1>16, <1>17, <1>18, <1>20 DEF Layout
<1> QED BY <1>2, <1>12, <1>15, <1>21 DEF TxInv

-----------------------------------------------------------------------------
(* The word that enters the data FIFO ends a frame exactly when it is the  *)
(* last one of the frame behind those with a command.                      *)
LEMMA StoredWord ==
  ASSUME TypeInv, NEW n, n = Len(accepted), NEW start, Layout(start, n), axis_wr_tvalid,
         Commands \in Nat
  PROVE  /\ Head(tx_crossing).last <=> Commands < n /\ Stored + 1 = start[Commands + 2]
         /\ Commands < n => Stored + 1 <= start[Commands + 2]
<1>1. /\ n \in Nat /\ start[n + 1] \in Nat
      /\ \A k \in 1 .. n + 1 : start[k] \in Nat
      /\ \A k \in 1 .. n : /\ accepted[k] \in LastWords /\ PadLen(accepted[k]) \in Nat
                           /\ start[k + 1] = start[k] + PadLen(accepted[k])
  BY PlacesFacts DEF Layout
<1>2. /\ Total \in Nat /\ Stored \in Nat /\ Stored < Total
      /\ Head(tx_crossing) = Stream[Stored + 1]
  BY StreamEnds
<1>3. /\ Commands <= n /\ start[Commands + 1] <= Stored
      /\ Commands < n => Stored < start[Commands + 2]
  BY DEF Layout, Reach
<1>4. CASE Commands < n
  <2>1. PICK k \in 1 .. n : k = Commands + 1
    BY <1>1, <1>4
  <2>2. /\ start[k] <= Stored /\ Stored < start[k + 1] /\ start[k] \in Nat
        /\ start[k + 1] = start[k] + PadLen(accepted[k]) /\ start[Commands + 2] = start[k + 1]
        /\ accepted[k] \in LastWords /\ PadLen(accepted[k]) \in Nat
    <3>1. k + 1 = Commands + 2 /\ k \in 1 .. n + 1
      BY <1>1, <2>1
    <3> QED BY <1>1, <1>3, <1>4, <2>1, <3>1
  <2>3. PICK i \in 1 .. PadLen(accepted[k]) : start[k] + i = Stored + 1
    <3>1. Stored + 1 - start[k] \in 1 .. PadLen(accepted[k])
      BY <1>2, <2>2
    <3> QED BY <1>2, <2>2, <3>1
  <2>4. Stream[Stored + 1] = PaddedFrame(accepted[k])[i]
    BY <1>2, <2>3 DEF Layout, Laid
  <2>5. PaddedFrame(accepted[k])[i].last <=> i = PadLen(accepted[k])
    BY <2>2, PaddedFrames
  <2>6. i = PadLen(accepted[k]) <=> Stored + 1 = start[Commands + 2]
    BY <1>2, <2>2, <2>3
  <2>7. Stored + 1 <= start[Commands + 2]
    BY <1>2, <2>2
  <2> QED BY <1>2, <1>4, <2>4, <2>5, <2>6, <2>7
<1>5. CASE Commands = n
  <2>1. state = 0
    <3> SUFFICES ASSUME state = 1 PROVE FALSE
      BY DEF TypeInv
    <3>1. /\ n >= 1 /\ Total = start[n] + wordCounter
          /\ wordCounter \in accepted[n].pos .. MinWords - 1
      BY DEF Layout, Tip
    <3>2. n \in 1 .. n /\ n \in 1 .. n + 1
      BY <1>1, <3>1
    <3>3. accepted[n] \in LastWords /\ start[n] \in Nat /\ start[n + 1] = start[n] + PadLen(accepted[n])
      BY <1>1, <3>2
    <3>4. PadLen(accepted[n]) >= MinWords /\ PadLen(accepted[n]) \in Nat /\ MinWords \in Nat
          /\ accepted[n].pos \in Nat
      <4>1. PadLen(accepted[n]) >= MinWords /\ PadLen(accepted[n]) \in Nat
        BY <3>3, PaddedFrames
      <4>2. accepted[n].pos \in 1 .. MaxWords
        BY <3>3 DEF LastWords
      <4> QED BY <4>1, <4>2, PaddingAssumption
    <3>5. wordCounter < MinWords /\ wordCounter \in Nat
      BY <3>1, <3>4
    <3> QED BY <1>1, <1>2, <1>3, <1>5, <3>1, <3>3, <3>4, <3>5, SMTT(30)
  <2>2. /\ Total = start[n + 1] + pos /\ \A i \in 1 .. pos : Stream[start[n + 1] + i] = BodyWord(i)
    BY <2>1 DEF Layout, Tip
  <2>3. pos \in Nat
    BY PaddingAssumption DEF TypeInv
  <2>4. PICK i \in 1 .. pos : start[n + 1] + i = Stored + 1
    <3>1. Stored + 1 - start[n + 1] \in 1 .. pos
      BY <1>1, <1>2, <1>3, <1>5, <2>2, <2>3
    <3> QED BY <1>1, <1>2, <3>1
  <2>5. Head(tx_crossing) = BodyWord(i)
    BY <1>2, <2>2, <2>4
  <2>6. ~Head(tx_crossing).last
    BY <2>5 DEF BodyWord
  <2>7. ~(Commands < n)
    BY <1>1, <1>5
  <2> QED BY <2>6, <2>7
<1> QED BY <1>1, <1>3, <1>4, <1>5

(* The word the MAC takes is the next one of the first frame, all of which *)
(* is stored.                                                              *)
LEMMA TakenWord ==
  ASSUME TypeInv, CommandFifo, NEW n, n = Len(accepted), NEW start, Layout(start, n),
         state_rd = "PUSH", Commands \in Nat
  PROVE  /\ n >= 1 /\ Commands >= 1 /\ Len(toMac) < start[2] /\ start[2] <= Stored
         /\ start[2] = PadLen(accepted[1]) /\ axis_rd_tvalid
         /\ Head(dataFifo) = PaddedFrame(accepted[1])[Len(toMac) + 1]
         /\ Head(dataFifo).last <=> Len(toMac) + 1 = start[2]
<1>1. /\ n \in Nat /\ start[1] = 0
      /\ \A k \in 1 .. n + 1 : start[k] \in Nat
      /\ \A k \in 1 .. n : /\ accepted[k] \in LastWords /\ PadLen(accepted[k]) \in Nat
                           /\ PadLen(accepted[k]) >= 2
                           /\ start[k + 1] = start[k] + PadLen(accepted[k])
  BY PlacesFacts DEF Layout
<1>2. /\ Total \in Nat /\ Stored \in Nat /\ Stored <= Total /\ Len(toMac) \in Nat
      /\ axis_rd_tvalid => Head(dataFifo) = Stream[Len(toMac) + 1]
  BY StreamEnds
<1>3. /\ Commands <= n /\ start[Commands + 1] <= Stored
      /\ toMac # <<>> => state_rd = "PUSH" /\ Len(toMac) < start[2]
  BY DEF Layout, Reach
<1>4. Commands >= 1
  BY DEF Commands, CommandFifo, TypeInv
<1>5. n >= 1 /\ 1 \in 1 .. n /\ 2 \in 1 .. n + 1 /\ Commands + 1 \in 1 .. n + 1 /\ 2 <= Commands + 1
  BY <1>1, <1>3, <1>4
<1>6. start[2] <= start[Commands + 1]
  BY <1>5 DEF Layout, Places
<1>7. /\ start[2] = PadLen(accepted[1]) /\ start[2] \in Nat /\ start[2] >= 2 /\ accepted[1] \in LastWords
      /\ start[Commands + 1] \in Nat
  <2>1. start[1 + 1] = start[1] + PadLen(accepted[1]) /\ PadLen(accepted[1]) \in Nat
        /\ PadLen(accepted[1]) >= 2 /\ accepted[1] \in LastWords
    BY <1>1, <1>5
  <2> QED BY <1>1, <1>5, <2>1
<1>8. Len(toMac) < start[2]
  <2>1. CASE toMac = <<>>
    BY <1>7, <2>1, EmptySeq
  <2>2. CASE toMac # <<>>
    BY <1>3, <2>2
  <2> QED BY <2>1, <2>2
<1>9. start[2] <= Stored
  BY <1>2, <1>3, <1>6, <1>7
<1>10. axis_rd_tvalid
  <2>1. Len(dataFifo) > 0
    BY <1>2, <1>7, <1>8, <1>9, LenProperties DEF Stored, TypeInv
  <2> QED BY <2>1, EmptySeq DEF axis_rd_tvalid
<1>11. Len(toMac) + 1 \in 1 .. PadLen(accepted[1]) /\ start[1] + (Len(toMac) + 1) = Len(toMac) + 1
       /\ Len(toMac) + 1 <= Total
  BY <1>1, <1>2, <1>7, <1>8, <1>9
<1>12. Stream[Len(toMac) + 1] = PaddedFrame(accepted[1])[Len(toMac) + 1]
  BY <1>5, <1>11 DEF Layout, Laid
<1>13. PaddedFrame(accepted[1])[Len(toMac) + 1].last <=> Len(toMac) + 1 = start[2]
  BY <1>7, <1>11, PaddedFrames
<1> QED BY <1>2, <1>4, <1>5, <1>7, <1>8, <1>9, <1>10, <1>12, <1>13

EndStored == IF axis_wr_tvalid /\ Head(tx_crossing).last THEN 1 ELSE 0
EndTaken(ready) == IF Ends(ready) THEN 1 ELSE 0

(* A command for every frame that has been stored, until it has left. *)
LEMMA CommandsCount ==
  ASSUME TypeInv, CommandFifo, NEW ready \in BOOLEAN, WriteFsm, ReadFsm(ready), Fifos(ready),
         axis_wr_tvalid /\ Head(tx_crossing).last => state_wr = "LOAD"
  PROVE  /\ Commands \in Nat
         /\ Commands' = Commands + EndStored - EndTaken(ready)
         /\ CommandFifo'
         /\ state_wr' \in {"IDLE", "LOAD"} /\ cmd_fifo_wr_en' \in BOOLEAN /\ cmdFifo' \in Nat
         /\ state_rd' \in {"IDLE", "PUSH"} /\ cmd_fifo_rd_en' \in BOOLEAN
         /\ axis_wr_tvalid /\ Head(tx_crossing).last => state_wr' = "IDLE"
         /\ axis_wr_tvalid /\ ~Head(tx_crossing).last => state_wr' = "LOAD"
         /\ ~axis_wr_tvalid => state_wr' = state_wr
         /\ state_rd = "PUSH" /\ ~Ends(ready) => state_rd' = "PUSH"
<1>1. /\ CmdDepth \in Nat /\ cmdFifo \in Nat /\ cmdFifo <= CmdDepth
      /\ state_wr \in {"IDLE", "LOAD"} /\ cmd_fifo_wr_en \in BOOLEAN
      /\ state_rd \in {"IDLE", "PUSH"} /\ cmd_fifo_rd_en \in BOOLEAN
      /\ cmd_fifo_wr_en => state_wr = "IDLE" /\ cmdFifo < CmdDepth
      /\ cmd_fifo_rd_en => state_rd = "PUSH" /\ cmdFifo >= 1
  BY TxAssumption DEF TypeInv, CommandFifo
<1>2. cmdFifo' = cmdFifo + (IF cmd_fifo_wr_en THEN 1 ELSE 0) - (IF cmd_fifo_rd_en THEN 1 ELSE 0)
  BY <1>1 DEF Fifos, cmd_fifo_full, cmd_fifo_empty
<1>3. PICK a, b \in BOOLEAN : /\ a <=> axis_wr_tvalid /\ Head(tx_crossing).last
                              /\ b <=> Ends(ready)
  <2>1. \E a \in BOOLEAN : a <=> axis_wr_tvalid /\ Head(tx_crossing).last
    <3>1. CASE axis_wr_tvalid /\ Head(tx_crossing).last
      BY <3>1
    <3>2. CASE ~(axis_wr_tvalid /\ Head(tx_crossing).last)
      BY <3>2
    <3> QED BY <3>1, <3>2
  <2>2. \E b \in BOOLEAN : b <=> Ends(ready)
    <3>1. CASE Ends(ready)
      BY <3>1
    <3>2. CASE ~Ends(ready)
      BY <3>2
    <3> QED BY <3>1, <3>2
  <2> QED BY <2>1, <2>2
<1>4. /\ (cmd_fifo_wr_en' <=> a) /\ cmd_fifo_wr_en' \in BOOLEAN
      /\ state_wr' \in {"IDLE", "LOAD"}
      /\ a => state_wr = "LOAD" /\ state_wr' = "IDLE" /\ cmdFifo # CmdDepth
      /\ axis_wr_tvalid /\ ~a => state_wr' = "LOAD"
      /\ ~axis_wr_tvalid => state_wr' = state_wr
  <2>1. a => cmdFifo # CmdDepth /\ axis_wr_tvalid
    BY <1>3 DEF axis_wr_tvalid, axi_str_tready_to_fifo, cmd_fifo_full
  <2>2. CASE state_wr = "IDLE"
    <3>1. cmd_fifo_wr_en' = FALSE /\ state_wr' = IF axis_wr_tvalid THEN "LOAD" ELSE "IDLE"
      BY <2>2 DEF WriteFsm
    <3>2. ~a
      BY <1>3, <2>2
    <3> QED BY <2>2, <3>1, <3>2
  <2>3. CASE state_wr = "LOAD"
    <3>1. /\ cmd_fifo_wr_en' = (axis_wr_tvalid /\ Head(tx_crossing).last)
          /\ state_wr' = IF axis_wr_tvalid /\ Head(tx_crossing).last THEN "IDLE" ELSE "LOAD"
      BY <2>3 DEF WriteFsm
    <3>2. (cmd_fifo_wr_en' <=> a) /\ cmd_fifo_wr_en' \in BOOLEAN
      BY <1>3, <3>1
    <3>3. state_wr' = IF a THEN "IDLE" ELSE "LOAD"
      BY <1>3, <3>1
    <3> QED BY <2>1, <2>3, <3>2, <3>3
  <2> QED BY <1>1, <2>2, <2>3
<1>5. /\ cmd_fifo_rd_en' \in BOOLEAN /\ state_rd' \in {"IDLE", "PUSH"}
      /\ b => state_rd = "PUSH"
      /\ state_rd = "PUSH" => ~cmd_fifo_rd_en' /\ (b => state_rd' = "IDLE") /\ (~b => state_rd' = "PUSH")
      /\ state_rd = "IDLE" /\ cmdFifo = 0 => ~cmd_fifo_rd_en' /\ state_rd' = "IDLE"
      /\ state_rd = "IDLE" /\ cmdFifo # 0 => cmd_fifo_rd_en' /\ state_rd' = "PUSH"
  <2>1. b => state_rd = "PUSH"
    BY <1>3 DEF Ends, axis_rd, pkg_push
  <2>2. CASE state_rd = "IDLE"
    <3>1. cmd_fifo_rd_en' = ~(cmdFifo = 0) /\ state_rd' = IF cmdFifo = 0 THEN "IDLE" ELSE "PUSH"
      BY <2>2 DEF ReadFsm, cmd_fifo_empty
    <3> QED BY <2>1, <2>2, <3>1
  <2>3. CASE state_rd = "PUSH"
    <3>1. cmd_fifo_rd_en' = FALSE /\ state_rd' = IF Ends(ready) THEN "IDLE" ELSE "PUSH"
      BY <2>3 DEF ReadFsm, Ends
    <3> QED BY <1>3, <2>1, <2>3, <3>1
  <2> QED BY <1>1, <2>2, <2>3
<1>6. EndStored = (IF a THEN 1 ELSE 0) /\ EndTaken(ready) = (IF b THEN 1 ELSE 0)
  BY <1>3 DEF EndStored, EndTaken
<1>7. cmdFifo' \in Nat
  BY <1>1, <1>2
<1>8. Commands \in Nat /\ Commands' = Commands + EndStored - EndTaken(ready)
  <2>1. Commands' = cmdFifo' + (IF a THEN 1 ELSE 0)
                             + (IF state_rd' = "PUSH" /\ ~cmd_fifo_rd_en' THEN 1 ELSE 0)
    BY <1>4 DEF Commands
  <2>2. CASE state_rd = "IDLE"
    BY <1>1, <1>2, <1>5, <1>6, <2>1, <2>2 DEF Commands
  <2>3. CASE state_rd = "PUSH"
    BY <1>1, <1>2, <1>5, <1>6, <2>1, <2>3 DEF Commands
  <2> QED BY <1>1, <2>2, <2>3
<1>9. CommandFifo'
  <2>1. cmdFifo' <= CmdDepth
    BY <1>1, <1>2
  <2>2. cmd_fifo_wr_en' => state_wr' = "IDLE" /\ cmdFifo' < CmdDepth
    BY <1>1, <1>2, <1>4
  <2>3. cmd_fifo_rd_en' => state_rd' = "PUSH" /\ cmdFifo' >= 1
    BY <1>1, <1>2, <1>5
  <2> QED BY <2>1, <2>2, <2>3 DEF CommandFifo
<1> QED BY <1>3, <1>4, <1>5, <1>7, <1>8, <1>9

(* How far the data FIFO reaches after a cycle, before a frame is taken    *)
(* out.                                                                    *)
LEMMA ReachAfterCycle ==
  ASSUME TypeInv, CommandFifo, NEW n, n = Len(accepted), NEW start, Layout(start, n),
         NEW ready \in BOOLEAN, Clock(ready)
  PROVE  /\ Commands \in Nat /\ Commands' = Commands + EndStored - EndTaken(ready)
         /\ EndStored \in {0, 1} /\ EndTaken(ready) \in {0, 1}
         /\ state_wr' \in {"IDLE", "LOAD"} /\ cmd_fifo_wr_en' \in BOOLEAN /\ cmdFifo' \in Nat
         /\ state_rd' \in {"IDLE", "PUSH"} /\ cmd_fifo_rd_en' \in BOOLEAN
         /\ CommandFifo'
         /\ state_rd = "PUSH" /\ ~Ends(ready) => state_rd' = "PUSH"
         /\ Commands + EndStored <= n
         /\ start[Commands + EndStored + 1] <= Stored + StoredInCycle
         /\ Commands + EndStored < n => Stored + StoredInCycle < start[Commands + EndStored + 2]
         /\ state_wr' = "IDLE" <=> Stored + StoredInCycle = start[Commands + EndStored + 1]
<1>1. WriteFsm /\ ReadFsm(ready) /\ Fifos(ready)
  BY DEF Clock
<1>2. Commands \in Nat
  BY DEF TypeInv, Commands
<1>3. /\ n \in Nat
      /\ \A k \in 1 .. n + 1 : start[k] \in Nat
      /\ \A k \in 1 .. n : /\ PadLen(accepted[k]) \in Nat /\ PadLen(accepted[k]) >= 2
                           /\ start[k + 1] = start[k] + PadLen(accepted[k])
  BY PlacesFacts DEF Layout
<1>4. /\ Commands <= n /\ start[Commands + 1] <= Stored
      /\ Commands < n => Stored < start[Commands + 2]
      /\ state_wr = "IDLE" <=> Stored = start[Commands + 1]
  BY DEF Layout, Reach
<1>5. Stored \in Nat /\ start[Commands + 1] \in Nat
  <2>1. Commands + 1 \in 1 .. n + 1
    BY <1>2, <1>3, <1>4
  <2> QED BY <1>3, <2>1, StreamEnds
<1>6. axis_wr_tvalid =>
        /\ Head(tx_crossing).last <=> Commands < n /\ Stored + 1 = start[Commands + 2]
        /\ Commands < n => Stored + 1 <= start[Commands + 2]
  BY <1>2, StoredWord
<1>7. \A c \in Nat : c < n => start[c + 2] \in Nat /\ start[c + 1] \in Nat /\ start[c + 2] >= start[c + 1] + 2
  <2> SUFFICES ASSUME NEW c \in Nat, c < n
               PROVE start[c + 2] \in Nat /\ start[c + 1] \in Nat /\ start[c + 2] >= start[c + 1] + 2
    OBVIOUS
  <2>1. c + 1 \in 1 .. n /\ c + 1 \in 1 .. n + 1 /\ (c + 1) + 1 = c + 2 /\ c + 2 \in 1 .. n + 1
    BY <1>3
  <2>2. start[(c + 1) + 1] = start[c + 1] + PadLen(accepted[c + 1])
        /\ PadLen(accepted[c + 1]) \in Nat /\ PadLen(accepted[c + 1]) >= 2
        /\ start[c + 1] \in Nat /\ start[c + 2] \in Nat
    BY <1>3, <2>1
  <2> QED BY <2>1, <2>2
<1>8. axis_wr_tvalid /\ Head(tx_crossing).last => state_wr = "LOAD"
  <2> SUFFICES ASSUME axis_wr_tvalid, Head(tx_crossing).last, state_wr = "IDLE" PROVE FALSE
    BY DEF TypeInv
  <2>1. Commands < n /\ Stored + 1 = start[Commands + 2] /\ Stored = start[Commands + 1]
    BY <1>4, <1>6
  <2> QED BY <1>2, <1>5, <1>7, <2>1
<1>9. /\ Commands' = Commands + EndStored - EndTaken(ready)
      /\ CommandFifo'
      /\ state_wr' \in {"IDLE", "LOAD"} /\ cmd_fifo_wr_en' \in BOOLEAN /\ cmdFifo' \in Nat
      /\ state_rd' \in {"IDLE", "PUSH"} /\ cmd_fifo_rd_en' \in BOOLEAN
      /\ axis_wr_tvalid /\ Head(tx_crossing).last => state_wr' = "IDLE"
      /\ axis_wr_tvalid /\ ~Head(tx_crossing).last => state_wr' = "LOAD"
      /\ ~axis_wr_tvalid => state_wr' = state_wr
      /\ state_rd = "PUSH" /\ ~Ends(ready) => state_rd' = "PUSH"
  BY <1>1, <1>8, CommandsCount
<1>10. EndStored \in {0, 1} /\ EndTaken(ready) \in {0, 1}
  BY DEF EndStored, EndTaken
<1>11. /\ Commands + EndStored <= n
       /\ start[Commands + EndStored + 1] <= Stored + StoredInCycle
       /\ Commands + EndStored < n => Stored + StoredInCycle < start[Commands + EndStored + 2]
       /\ state_wr' = "IDLE" <=> Stored + StoredInCycle = start[Commands + EndStored + 1]
  <2>1. CASE axis_wr_tvalid /\ Head(tx_crossing).last
    <3>1. EndStored = 1 /\ StoredInCycle = 1 /\ state_wr' = "IDLE"
      BY <1>9, <2>1 DEF EndStored, StoredInCycle
    <3>2. Commands < n /\ Stored + 1 = start[Commands + 2]
      BY <1>6, <2>1
    <3>3. Commands + 1 \in Nat /\ Commands + 1 + 1 = Commands + 2 /\ Commands + 1 <= n
          /\ Commands + 1 + 2 = (Commands + 1) + 2
      BY <1>2, <1>3, <3>2
    <3>4. Commands + 1 < n => Stored + 1 < start[Commands + 1 + 2]
      <4>1. Commands + 1 < n => start[Commands + 1 + 2] \in Nat
                                /\ start[Commands + 1 + 2] >= start[Commands + 1 + 1] + 2
        BY <1>7, <3>3
      <4> QED BY <1>5, <3>2, <3>3, <4>1
    <3>5. start[Commands + EndStored + 1] = Stored + StoredInCycle
      BY <3>1, <3>2, <3>3
    <3>6. start[Commands + EndStored + 1] <= Stored + StoredInCycle
      BY <1>5, <3>1, <3>5
    <3> QED BY <3>1, <3>3, <3>4, <3>5, <3>6
  <2>2. CASE axis_wr_tvalid /\ ~Head(tx_crossing).last
    <3>1. EndStored = 0 /\ StoredInCycle = 1 /\ state_wr' = "LOAD"
      BY <1>9, <2>2 DEF EndStored, StoredInCycle
    <3>2. Commands < n => Stored + 1 < start[Commands + 2]
      BY <1>2, <1>5, <1>6, <1>7, <2>2
    <3>3. Commands + 0 = Commands
      BY <1>2
    <3> QED BY <1>4, <1>5, <3>1, <3>2, <3>3
  <2>3. CASE ~axis_wr_tvalid
    <3>1. EndStored = 0 /\ StoredInCycle = 0 /\ state_wr' = state_wr
      BY <1>9, <2>3 DEF EndStored, StoredInCycle
    <3>2. Commands + 0 = Commands /\ Stored + 0 = Stored
      BY <1>2, <1>5
    <3> QED BY <1>4, <3>1, <3>2
  <2> QED BY <2>1, <2>2, <2>3
<1> QED BY <1>2, <1>9, <1>10, <1>11

(* A cycle in which no frame ends at the MAC. *)
LEMMA ClockWithin ==
  ASSUME TxInv, NEW ready \in BOOLEAN, Clock(ready), ~Ends(ready)
  PROVE  TxInv' /\ UNCHANGED <<accepted, sent>>
<1>1. TypeInv /\ CommandFifo
  BY DEF TxInv
<1>2. PICK n : n = Len(accepted)
  OBVIOUS
<1>3. PICK start : Layout(start, n)
  BY <1>2 DEF TxInv
<1>4. UNCHANGED <<accepted, sent, state, wordCounter, frame, pos>>
  BY DEF Clock, Mac, Ends
<1>5. /\ dataFifo' \in Seq(Words) /\ tx_crossing' \in Seq(Words) /\ toMac' \in Seq(Words)
      /\ Len(toMac') = Len(toMac) + Taken(ready)
      /\ Total' = Total /\ Stored' = Stored + StoredInCycle /\ Stream' = Stream
  BY <1>1, StreamMoves DEF Clock
<1>6. /\ Commands \in Nat /\ Commands' = Commands + EndStored - EndTaken(ready)
      /\ EndStored \in {0, 1}
      /\ state_wr' \in {"IDLE", "LOAD"} /\ cmd_fifo_wr_en' \in BOOLEAN /\ cmdFifo' \in Nat
      /\ state_rd' \in {"IDLE", "PUSH"} /\ cmd_fifo_rd_en' \in BOOLEAN
      /\ CommandFifo'
      /\ state_rd = "PUSH" => state_rd' = "PUSH"
      /\ Commands + EndStored <= n
      /\ start[Commands + EndStored + 1] <= Stored + StoredInCycle
      /\ Commands + EndStored < n => Stored + StoredInCycle < start[Commands + EndStored + 2]
      /\ state_wr' = "IDLE" <=> Stored + StoredInCycle = start[Commands + EndStored + 1]
  BY <1>1, <1>2, <1>3, ReachAfterCycle
<1>7. Commands' = Commands + EndStored
  <2>1. EndTaken(ready) = 0
    BY DEF EndTaken
  <2> QED BY <1>6, <2>1
<1>8. TypeInv'
  BY <1>1, <1>4, <1>5, <1>6 DEF TypeInv
<1>9. Places(start, n)' /\ Laid(start, n)' /\ Tip(start, n)'
  <2>1. Places(start, n)'
    BY <1>3, <1>4 DEF Layout, Places
  <2>2. Laid(start, n)'
    BY <1>3, <1>4, <1>5 DEF Layout, Laid
  <2>3. Tip(start, n)'
    BY <1>3, <1>4, <1>5 DEF Layout, Tip, BodyWord
  <2> QED BY <2>1, <2>2, <2>3
<1>10. toMac' # <<>> => state_rd' = "PUSH" /\ Len(toMac') < start[2]
  <2>1. CASE axis_rd(ready)
    <3>1. state_rd = "PUSH" /\ ~Head(dataFifo).last
      BY <2>1 DEF axis_rd, pkg_push, Ends
    <3>2. /\ n >= 1 /\ Len(toMac) < start[2] /\ start[2] <= Stored
          /\ start[2] = PadLen(accepted[1])
          /\ Head(dataFifo).last <=> Len(toMac) + 1 = start[2]
      BY <1>1, <1>2, <1>3, <1>6, <3>1, TakenWord
    <3>3. Taken(ready) = 1 /\ Len(toMac) \in Nat
      BY <1>1, <2>1, LenProperties DEF Taken, TypeInv
    <3>4. start[2] \in Nat
      <4>1. n \in Nat /\ \A k \in 1 .. n + 1 : start[k] \in Nat
        BY <1>1, <1>2, <1>3, PlacesFacts DEF Layout
      <4> QED BY <3>2, <4>1
    <3> QED BY <1>5, <1>6, <3>1, <3>2, <3>3, <3>4
  <2>2. CASE ~axis_rd(ready)
    <3>1. toMac' = toMac
      BY <2>2 DEF Clock, Mac
    <3> QED BY <1>3, <1>6, <3>1 DEF Layout, Reach
  <2> QED BY <2>1, <2>2
<1>11. Reach(start, n)'
  BY <1>5, <1>6, <1>7, <1>10, SMTT(30) DEF Reach
<1>12. Layout(start, n)'
  BY <1>9, <1>11 DEF Layout
<1> QED BY <1>2, <1>4, <1>6, <1>8, <1>12 DEF TxInv

(* A cycle in which the MAC gets the last word of a frame: the frame was   *)
(* the first accepted one, padded, and the others move up.                 *)
LEMMA ClockEnd ==
  ASSUME TxInv, NEW ready \in BOOLEAN, Clock(ready), Ends(ready)
  PROVE  /\ TxInv'
         /\ accepted # <<>> /\ sent' = PaddedFrame(Head(accepted)) /\ accepted' = Tail(accepted)
<1>1. TypeInv /\ CommandFifo
  BY DEF TxInv
<1>2. PICK n : n = Len(accepted)
  OBVIOUS
<1>3. PICK start : Layout(start, n)
  BY <1>2 DEF TxInv
<1>4. /\ UNCHANGED <<state, wordCounter, frame, pos>>
      /\ sent' = Append(toMac, Head(dataFifo)) /\ accepted' = Tail(accepted)
  BY DEF Clock, Mac, Ends
<1>5. /\ dataFifo' \in Seq(Words) /\ tx_crossing' \in Seq(Words) /\ toMac' \in Seq(Words)
      /\ toMac' = <<>>
      /\ Total' = Total - (Len(toMac) + 1) /\ Stored' = Stored + StoredInCycle - (Len(toMac) + 1)
      /\ \A i \in 1 .. Total' : Stream'[i] = Stream[i + (Len(toMac) + 1)]
  BY <1>1, StreamMoves DEF Clock
<1>6. /\ Commands \in Nat /\ Commands' = Commands + EndStored - EndTaken(ready)
      /\ EndStored \in {0, 1}
      /\ state_wr' \in {"IDLE", "LOAD"} /\ cmd_fifo_wr_en' \in BOOLEAN /\ cmdFifo' \in Nat
      /\ state_rd' \in {"IDLE", "PUSH"} /\ cmd_fifo_rd_en' \in BOOLEAN
      /\ CommandFifo'
      /\ Commands + EndStored <= n
      /\ start[Commands + EndStored + 1] <= Stored + StoredInCycle
      /\ Commands + EndStored < n => Stored + StoredInCycle < start[Commands + EndStored + 2]
      /\ state_wr' = "IDLE" <=> Stored + StoredInCycle = start[Commands + EndStored + 1]
  BY <1>1, <1>2, <1>3, ReachAfterCycle
<1>7. /\ n >= 1 /\ Commands >= 1 /\ Len(toMac) < start[2] /\ start[2] <= Stored
      /\ start[2] = PadLen(accepted[1]) /\ axis_rd_tvalid
      /\ Head(dataFifo) = PaddedFrame(accepted[1])[Len(toMac) + 1]
      /\ Len(toMac) + 1 = start[2]
  <2>1. state_rd = "PUSH" /\ Head(dataFifo).last
    BY DEF Ends, axis_rd, pkg_push
  <2> QED BY <1>1, <1>2, <1>3, <1>6, <2>1, TakenWord
<1>8. /\ n \in Nat /\ start[1] = 0 /\ start[n + 1] \in Nat
      /\ \A k \in 1 .. n + 1 : start[k] \in Nat /\ start[k] <= start[n + 1]
      /\ \A k \in 1 .. n : /\ accepted[k] \in LastWords /\ PadLen(accepted[k]) \in Nat
                           /\ start[k + 1] = start[k] + PadLen(accepted[k])
  BY <1>1, <1>2, <1>3, PlacesFacts DEF Layout
<1>9. /\ Total \in Nat /\ Stored \in Nat /\ Stored <= Total /\ Len(toMac) \in Nat
      /\ \A i \in 1 .. Len(toMac) : toMac[i] = Stream[i]
  BY <1>1, StreamEnds
<1>10. accepted # <<>> /\ Head(accepted) = accepted[1] /\ accepted' \in Seq(LastWords)
       /\ Len(accepted') = n - 1 /\ \A k \in 1 .. n - 1 : accepted'[k] = accepted[k + 1]
  <2>1. accepted \in Seq(LastWords)
    BY <1>1 DEF TypeInv
  <2>2. accepted # <<>>
    BY <1>2, <1>7, EmptySeq
  <2> QED BY <1>2, <1>4, <2>1, <2>2, HeadTailProperties
<1>11. sent' = PaddedFrame(Head(accepted))
  <2>1. 1 \in 1 .. n /\ accepted[1] \in LastWords
    BY <1>7, <1>8
  <2>2. PICK f : f = PaddedFrame(accepted[1])
    OBVIOUS
  <2>3. f \in [1 .. start[2] -> Words] /\ start[2] \in Nat /\ Head(dataFifo) = f[start[2]]
        /\ start[2] = Len(toMac) + 1
    BY <1>7, <1>8, <1>9, <2>1, <2>2, PaddedFrames
  <2>4. Head(dataFifo) \in Words
    BY <1>9, <2>3
  <2>5. /\ sent' \in Seq(Words) /\ Len(sent') = Len(toMac) + 1
        /\ sent'[Len(toMac) + 1] = Head(dataFifo)
        /\ \A i \in 1 .. Len(toMac) : sent'[i] = toMac[i]
    BY <1>1, <1>4, <2>4, AppendProperties DEF TypeInv
  <2>6. ASSUME NEW i \in 1 .. start[2]
        PROVE  sent'[i] = f[i]
    <3>1. CASE i = start[2]
      BY <2>3, <2>5, <3>1
    <3>2. CASE i < start[2]
      <4>1. i \in 1 .. Len(toMac) /\ i \in 1 .. PadLen(accepted[1]) /\ start[1] + i = i /\ i <= Total
        BY <1>7, <1>8, <1>9, <2>3, <3>2
      <4>2. Stream[i] = f[i]
        BY <1>3, <2>1, <2>2, <4>1 DEF Layout, Laid
      <4> QED BY <1>9, <2>5, <4>1, <4>2
    <3> QED BY <2>3, <3>1, <3>2
  <2>7. DOMAIN sent' = 1 .. start[2] /\ sent' = [i \in DOMAIN sent' |-> sent'[i]]
    BY <2>3, <2>5, LenProperties
  <2>8. DOMAIN f = 1 .. start[2] /\ f = [i \in DOMAIN f |-> f[i]]
    BY <2>3
  <2>9. sent' = f
    BY <2>6, <2>7, <2>8
  <2> QED BY <1>10, <2>2, <2>9
<1>12. TypeInv'
  BY <1>1, <1>4, <1>5, <1>6, <1>10 DEF TypeInv
<1>13. PICK m : m = n - 1
  OBVIOUS
<1>14. m \in Nat /\ n = m + 1 /\ start[2] \in Nat
  BY <1>7, <1>8, <1>13
<1>a. PICK d \in Nat : d = start[2] /\ d = Len(toMac) + 1
  BY <1>7, <1>14
<1>b. Total' = Total - d /\ Stored' = Stored + StoredInCycle - d
  BY <1>5, <1>a
<1>c. \A i \in 1 .. Total' : Stream'[i] = Stream[i + d]
  BY <1>5, <1>a
<1>15. PICK t : t = [k \in 1 .. m + 1 |-> start[k + 1] - start[2]]
  OBVIOUS
<1>16. \A k \in 1 .. m + 1 : /\ k + 1 \in 1 .. n + 1 /\ t[k] = start[k + 1] - start[2]
                             /\ t[k] \in Nat /\ start[k + 1] \in Nat
  <2> SUFFICES ASSUME NEW k \in 1 .. m + 1
               PROVE  /\ k + 1 \in 1 .. n + 1 /\ t[k] = start[k + 1] - start[2]
                      /\ t[k] \in Nat /\ start[k + 1] \in Nat
    OBVIOUS
  <2>1. k + 1 \in 1 .. n + 1 /\ 2 \in 1 .. n + 1 /\ 2 <= k + 1
    BY <1>14
  <2>2. start[2] <= start[k + 1]
    BY <1>3, <2>1 DEF Layout, Places
  <2>3. start[k + 1] \in Nat
    BY <1>8, <2>1
  <2> QED BY <1>14, <1>15, <2>1, <2>2, <2>3
<1>17. Places(t, m)'
  <2>1. t \in [1 .. m + 1 -> Nat] /\ t[1] = 0
    <3>1. 1 \in 1 .. m + 1 /\ 1 + 1 = 2
      BY <1>14
    <3>2. t[1] = start[2] - start[2]
      BY <1>16, <3>1
    <3>3. \A k \in 1 .. m + 1 : start[k + 1] - start[2] \in Nat
      BY <1>16
    <3> QED BY <1>14, <1>15, <3>2, <3>3
  <2>2. ASSUME NEW k \in 1 .. m
        PROVE  t[k + 1] = t[k] + PadLen(accepted'[k])
    <3>1. k \in 1 .. m + 1 /\ k + 1 \in 1 .. m + 1 /\ k + 1 \in 1 .. n /\ k \in 1 .. n - 1
      BY <1>14
    <3>2. t[k] = start[k + 1] - start[2] /\ t[k + 1] = start[(k + 1) + 1] - start[2]
      BY <1>16, <3>1
    <3>3. start[(k + 1) + 1] = start[k + 1] + PadLen(accepted[k + 1]) /\ PadLen(accepted[k + 1]) \in Nat
      BY <1>8, <3>1
    <3>4. accepted'[k] = accepted[k + 1] /\ start[k + 1] \in Nat
      BY <1>10, <1>16, <3>1
    <3> QED BY <1>14, <3>2, <3>3, <3>4
  <2>3. ASSUME NEW j \in 1 .. m + 1, NEW k \in 1 .. m + 1, j <= k
        PROVE  t[j] <= t[k]
    <3>1. start[j + 1] <= start[k + 1]
      BY <1>3, <1>16, <2>3 DEF Layout, Places
    <3> QED BY <1>14, <1>16, <3>1
  <2> QED BY <2>1, <2>2, <2>3 DEF Places
<1>18. Laid(t, m)'
  <2> SUFFICES ASSUME NEW k \in 1 .. m, NEW i \in 1 .. PadLen(accepted'[k]), t[k] + i <= Total'
               PROVE  Stream'[t[k] + i] = PaddedFrame(accepted'[k])[i]
    BY DEF Laid
  <2>1. k \in 1 .. m + 1 /\ k + 1 \in 1 .. n /\ k \in 1 .. n - 1
    BY <1>14
  <2>2. t[k] = start[k + 1] - start[2] /\ accepted'[k] = accepted[k + 1] /\ start[k + 1] \in Nat
        /\ t[k] \in Nat
    BY <1>10, <1>16, <2>1
  <2>3. i \in 1 .. PadLen(accepted[k + 1]) /\ PadLen(accepted[k + 1]) \in Nat
    BY <1>8, <2>1, <2>2
  <2>4. start[k + 1] + i <= Total /\ t[k] + i \in 1 .. Total' /\ (t[k] + i) + d = start[k + 1] + i
    <3>1. t[k] = start[k + 1] - d /\ Total' = Total - d /\ Total \in Nat
      BY <1>9, <1>a, <1>b, <2>2
    <3> QED BY <2>2, <2>3, <3>1
  <2>5. Stream[start[k + 1] + i] = PaddedFrame(accepted[k + 1])[i]
    BY <1>3, <2>1, <2>3, <2>4 DEF Layout, Laid
  <2>6. Stream'[t[k] + i] = Stream[(t[k] + i) + d]
    BY <1>c, <2>4
  <2> QED BY <2>2, <2>4, <2>5, <2>6
<1>19. Tip(t, m)'
  <2>0. pos > 0 => frame > 0
    BY <1>3 DEF Layout, Tip
  <2>1. CASE state = 0
    <3>1. /\ Total = start[n + 1] + pos /\ wordCounter = pos /\ pos \in Nat
          /\ \A i \in 1 .. pos : Stream[start[n + 1] + i] = BodyWord(i)
      BY <1>1, <1>3, <2>1, PaddingAssumption DEF Layout, Tip, TypeInv
    <3>2. m + 1 \in 1 .. m + 1 /\ t[m + 1] = start[n + 1] - start[2] /\ t[m + 1] \in Nat
      BY <1>14, <1>16
    <3>a. t[m + 1] = start[n + 1] - d /\ Total' = Total - d /\ Total \in Nat /\ start[n + 1] \in Nat
      BY <1>8, <1>9, <1>a, <1>b, <3>2
    <3>3. Total' = t[m + 1] + pos
      BY <3>1, <3>2, <3>a
    <3>4. ASSUME NEW i \in 1 .. pos
          PROVE  Stream'[t[m + 1] + i] = BodyWord(i)
      <4>1. t[m + 1] + i \in 1 .. Total' /\ (t[m + 1] + i) + d = start[n + 1] + i
        <5>1. pos \in Nat /\ i \in 1 .. pos
          BY <3>1
        <5> QED BY <3>2, <3>3, <3>a, <5>1
      <4>2. Stream'[t[m + 1] + i] = Stream[(t[m + 1] + i) + d]
        BY <1>c, <4>1
      <4> QED BY <3>1, <4>1, <4>2
    <3> QED BY <1>4, <2>0, <2>1, <3>1, <3>3, <3>4 DEF Tip, BodyWord
  <2>2. CASE state = 1
    <3>1. /\ pos = 0 /\ Total = start[n] + wordCounter /\ wordCounter \in Nat
          /\ wordCounter \in accepted[n].pos .. MinWords - 1 /\ frame = accepted[n].frame
      BY <1>1, <1>3, <2>2 DEF Layout, Tip, TypeInv
    <3>2. n \in 1 .. n /\ n \in 1 .. n + 1 /\ accepted[n] \in LastWords
      BY <1>7, <1>8
    <3>3. PadLen(accepted[n]) >= MinWords /\ MinWords \in Nat /\ PadLen(accepted[n]) \in Nat
      BY <3>2, PaddedFrames, PaddingAssumption
    <3>4. wordCounter < MinWords
      <4>1. accepted[n].pos \in 1 .. MaxWords
        BY <3>2 DEF LastWords
      <4> QED BY <3>1, <3>3, <4>1, PaddingAssumption
    <3>5. start[n + 1] = start[n] + PadLen(accepted[n]) /\ start[n] \in Nat
      BY <1>8, <3>2
    <3>6. Total < start[n + 1]
      BY <1>9, <3>1, <3>3, <3>4, <3>5
    <3>7. n # 1
      BY <1>7, <1>8, <1>9, <1>14, <3>6
    <3>8. m >= 1 /\ m \in 1 .. m + 1 /\ t[m] = start[n] - start[2] /\ t[m] \in Nat /\ m \in 1 .. n - 1
      BY <1>14, <1>16, <3>7
    <3>9. accepted'[m] = accepted[n]
      BY <1>10, <1>14, <3>8
    <3>10. Total' = t[m] + wordCounter
      <4>1. t[m] = start[n] - d /\ Total' = Total - d
        BY <1>a, <1>b, <3>8
      <4> QED BY <3>1, <3>5, <3>8, <4>1
    <3>11. wordCounter \in accepted'[m].pos .. MinWords - 1 /\ frame = accepted'[m].frame
      BY <3>1, <3>9
    <3>12. /\ state' = 1 /\ m >= 1 /\ pos' = 0 /\ Total' = t[m] + wordCounter'
           /\ wordCounter' \in accepted'[m].pos .. MinWords - 1 /\ frame' = accepted'[m].frame
      BY <1>4, <2>2, <3>1, <3>8, <3>10, <3>11
    <3> QED BY <3>12 DEF Tip
  <2> QED BY <1>1, <2>1, <2>2 DEF TypeInv
<1>20. Reach(t, m)'
  <2>1. Commands' = Commands + EndStored - 1 /\ Commands' \in Nat /\ EndStored \in Nat
    <3>1. EndTaken(ready) = 1
      BY DEF EndTaken
    <3> QED BY <1>6, <1>7, <3>1
  <2>2. StoredInCycle \in Nat
    BY DEF StoredInCycle
  <2>3. /\ Commands' <= m /\ Commands' + 1 \in 1 .. m + 1
        /\ (Commands' + 1) + 1 = Commands + EndStored + 1
    BY <1>6, <1>14, <2>1
  <2>4. t[Commands' + 1] = start[Commands + EndStored + 1] - start[2]
        /\ start[Commands + EndStored + 1] \in Nat
    BY <1>16, <2>3
  <2>5. PICK s \in Nat : s = Stored + StoredInCycle /\ Stored' = s - d
    BY <1>9, <1>b, <2>2
  <2>6. t[Commands' + 1] <= Stored' /\ (Stored + StoredInCycle = start[Commands + EndStored + 1]
                                          <=> Stored' = t[Commands' + 1])
    <3>1. PICK c \in Nat : c = start[Commands + EndStored + 1]
      BY <2>4
    <3>2. t[Commands' + 1] = c - d /\ c <= s
      BY <1>6, <1>a, <2>4, <2>5, <3>1
    <3> QED BY <2>5, <3>1, <3>2
  <2>7. Commands' < m => Stored' < t[Commands' + 2]
    <3> SUFFICES ASSUME Commands' < m PROVE Stored' < t[Commands' + 2]
      OBVIOUS
    <3>1. /\ Commands' + 2 \in 1 .. m + 1 /\ (Commands' + 2) + 1 = Commands + EndStored + 2
          /\ Commands + EndStored < n
      BY <1>6, <1>14, <2>1
    <3>2. t[Commands' + 2] = start[Commands + EndStored + 2] - start[2]
          /\ start[Commands + EndStored + 2] \in Nat
      BY <1>16, <3>1
    <3>3. s < start[Commands + EndStored + 2]
      BY <1>6, <2>5, <3>1
    <3>4. PICK x \in Nat : x = start[Commands + EndStored + 2]
      BY <3>2
    <3>5. t[Commands' + 2] = x - d /\ s < x
      BY <1>a, <3>2, <3>3, <3>4
    <3> QED BY <2>5, <3>5
  <2> QED BY <1>5, <1>6, <2>3, <2>6, <2>7 DEF Reach
<1>21. Layout(t, m)'
  BY <1>17, <1>18, <1>19, <1>20 DEF Layout
<1> QED BY <1>4, <1>6, <1>10, <1>11, <1>12, <1>13, <1>21 DEF TxInv

-----------------------------------------------------------------------------
LEMMA InitTxInv ==
  ASSUME Init
  PROVE  TxInv
<1>1. /\ state = 0 /\ wordCounter = 0 /\ tx_crossing = <<>> /\ frame = 0 /\ pos = 0
      /\ state_wr = "IDLE" /\ cmd_fifo_wr_en = FALSE /\ dataFifo = <<>> /\ cmdFifo = 0
      /\ state_rd = "IDLE" /\ cmd_fifo_rd_en = FALSE /\ accepted = <<>> /\ toMac = <<>>
  BY DEF Init, PaddingInit
<1>2. TypeInv
  <2>1. <<>> \in Seq(Words) /\ <<>> \in Seq(LastWords)
    BY EmptySeq
  <2>2. 0 \in 0 .. MaxFrames /\ 0 \in 0 .. MaxWords - 1
    BY PaddingAssumption, TxAssumption
  <2> QED BY <1>1, <2>1, <2>2 DEF TypeInv
<1>3. CommandFifo
  BY <1>1, TxAssumption DEF CommandFifo
<1>4. Len(accepted) = 0 /\ Total = 0 /\ Stored = 0 /\ Commands = 0
  BY <1>1, EmptySeq DEF Total, Stored, Commands
<1>5. PICK start : start = [k \in 1 .. 1 |-> 0]
  OBVIOUS
<1>6. start[1] = 0
  BY <1>5
<1>7. Places(start, 0)
  BY <1>5, <1>6 DEF Places
<1>8. Laid(start, 0)
  BY DEF Laid
<1>9. Tip(start, 0)
  BY <1>1, <1>4, <1>6 DEF Tip
<1>10. Reach(start, 0)
  BY <1>1, <1>4, <1>6 DEF Reach
<1> QED BY <1>2, <1>3, <1>4, <1>7, <1>8, <1>9, <1>10 DEF TxInv, Layout

LEMMA NextTxInv ==
  ASSUME TxInv, [Next]_vars
  PROVE  TxInv'
<1>1. CASE \E w \in SourceWords : PadWord(w)
  <2>1. PICK w \in SourceWords : PadWord(w)
    BY <1>1
  <2>2. CASE w.last
    BY <2>1, <2>2, PadLastWord
  <2>3. CASE ~w.last
    BY <2>1, <2>3, PadBodyWord
  <2> QED BY <2>2, <2>3
<1>2. CASE PadFill
  BY <1>2, PadFillStep
<1>3. CASE \E ready \in BOOLEAN : Clock(ready)
  <2>1. PICK ready \in BOOLEAN : Clock(ready)
    BY <1>3
  <2>2. CASE Ends(ready)
    BY <2>1, <2>2, ClockEnd
  <2>3. CASE ~Ends(ready)
    BY <2>1, <2>3, ClockWithin
  <2> QED BY <2>2, <2>3
<1>4. CASE UNCHANGED vars
  <2>1. TypeInv' /\ CommandFifo'
    BY <1>4 DEF TxInv, TypeInv, CommandFifo, vars, paddingVars, txVars
  <2>2. PICK start : Layout(start, Len(accepted))
    BY DEF TxInv
  <2>3. Total' = Total /\ Stored' = Stored /\ Stream' = Stream /\ Commands' = Commands
        /\ accepted' = accepted
    BY <1>4 DEF Total, Stored, Stream, Commands, vars, paddingVars, txVars
  <2>4. Places(start, Len(accepted))' /\ Laid(start, Len(accepted))'
    BY <2>2, <2>3 DEF Layout, Places, Laid
  <2>5. Tip(start, Len(accepted))' /\ Reach(start, Len(accepted))'
    BY <1>4, <2>2, <2>3 DEF Layout, Tip, Reach, BodyWord, vars, paddingVars, txVars
  <2> QED BY <2>1, <2>4, <2>5 DEF TxInv, Layout
<1> QED BY <1>1, <1>2, <1>3, <1>4 DEF Next

(* The MAC is never left without the next word of a frame it has begun to  *)
(* get, for FIFOs, frames and a padding of any size that fits.             *)
THEOREM MacIsNeverStarved == Spec => []NoUnderrun
<1>1. TxInv => NoUnderrun
  <2> SUFFICES ASSUME TxInv, toMac # <<>> PROVE state_rd = "PUSH" /\ axis_rd_tvalid
    BY DEF NoUnderrun, pkg_push
  <2>1. TypeInv /\ CommandFifo
    BY DEF TxInv
  <2>2. PICK n : n = Len(accepted)
    OBVIOUS
  <2>3. PICK start : Layout(start, n)
    BY <2>2 DEF TxInv
  <2>4. state_rd = "PUSH"
    BY <2>3 DEF Layout, Reach
  <2>5. Commands \in Nat
    BY <2>1 DEF Commands, TypeInv
  <2> QED BY <2>1, <2>2, <2>3, <2>4, <2>5, TakenWord
<1> QED BY <1>1, InitTxInv, NextTxInv, PTL DEF Spec

(* The port implements the queue of frames: the MAC gets every accepted    *)
(* frame once, in order, padded and otherwise as it was.                   *)
THEOREM PortIsAQueue == Spec => FramesInOrder
<1>1. Init => Queue!Init
  BY DEF Init, Queue!Init
<1>2. ASSUME TxInv, [Next]_vars
      PROVE  [Queue!Next]_<<accepted, sent>>
  <2>1. CASE \E w \in SourceWords : PadWord(w)
    <3>1. PICK w \in SourceWords : PadWord(w)
      BY <2>1
    <3>2. CASE w.last
      <4>1. accepted' = Append(accepted, w) /\ sent' = sent
        BY <3>1, <3>2 DEF PadWord
      <4>2. w \in LastWords
        <5>1. PICK start : Layout(start, Len(accepted))
          BY <1>2 DEF TxInv
        <5>2. frame \in 0 .. MaxFrames /\ pos \in 0 .. MaxWords - 1 /\ (pos > 0 => frame > 0)
          BY <1>2, <5>1 DEF TxInv, TypeInv, Layout, Tip
        <5> QED BY <3>2, <5>2, SourceWord
      <4> QED BY <4>1, <4>2 DEF Queue!Next, Queue!Accept
    <3>3. CASE ~w.last
      BY <3>1, <3>3 DEF PadWord
    <3> QED BY <3>2, <3>3
  <2>2. CASE PadFill
    BY <2>2 DEF PadFill
  <2>3. CASE \E ready \in BOOLEAN : Clock(ready)
    <3>1. PICK ready \in BOOLEAN : Clock(ready)
      BY <2>3
    <3>2. CASE Ends(ready)
      BY <1>2, <3>1, <3>2, ClockEnd DEF Queue!Next, Queue!Send
    <3>3. CASE ~Ends(ready)
      BY <1>2, <3>1, <3>3, ClockWithin
    <3> QED BY <3>2, <3>3
  <2>4. CASE UNCHANGED vars
    BY <2>4 DEF vars
  <2> QED BY <1>2, <2>1, <2>2, <2>3, <2>4 DEF Next
<1> QED BY <1>1, <1>2, InitTxInv, NextTxInv, PTL DEF Spec, FramesInOrder, Queue!Spec
=============================================================================
