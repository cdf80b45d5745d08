-------------------------- MODULE StreamUtilsProofs --------------------------
(***************************************************************************)
(* Proofs about StreamUtils: the chain of functions hands on the words as  *)
(* they were offered.                                                      *)
(*                                                                         *)
(* in is the line of all words that were ever offered.  Every stream and   *)
(* every static variable of a function is what it is because of how many   *)
(* of these words each function has read and sent.  Between the two shifts *)
(* there are other words, but also they are determined by their position:  *)
(* the word that holds the front of in[k], and behind the last word of a   *)
(* packet the one with what has moved out of it.                           *)
(***************************************************************************)
EXTENDS StreamUtils, SequenceTheorems, TLAPS

Item == (Nat \X Nat) \cup {<<>>}
DataWord == [bytes : Seq(Item), last : BOOLEAN]

(* A word of a packet: only the last one may be shorter. *)
Good(w) ==
  /\ w \in DataWord /\ Len(w.bytes) >= 1 /\ Len(w.bytes) <= Bytes
  /\ w.last = FALSE => Len(w.bytes) = Bytes

AllGood(in) == \A x \in Nat : Good(in[x])

(* Whether in[k] begins a packet. *)
First(in, k) == \A x \in Nat : k = x + 1 => in[x].last = TRUE

Keep == Bytes - offset

(* What stands before the bytes of in[k] when they were moved up. *)
Zeroes == [i \in 1 .. offset |-> <<>>]
FrontOf(in, k, front) ==
  /\ First(in, k) => front = Zeroes
  /\ \A x \in Nat : k = x + 1 /\ in[x].last = FALSE => front = Drop(in[x].bytes, Keep)

(* The shifted words of in[k]. *)
Raised(front, w) == Word(front \o Take(w.bytes, Keep), Len(w.bytes) <= Keep)
Spills(w) == w.last = TRUE /\ ~(Len(w.bytes) <= Keep)
Spilled(w) == Word(Drop(w.bytes, Keep), TRUE)
RaisedAt(in, k, u) == \E front \in Seq(Item) : FrontOf(in, k, front) /\ u = Raised(front, in[k])

-----------------------------------------------------------------------------
(* One word after the other, of in, from a up to b. *)
Between(q, in, a, b) ==
  \/ q = <<>> /\ b = a
  \/ q = <<in[a]>> /\ b = a + 1

(* lshiftWordByOctet has read the words before a. *)
Raising(in, a) ==
  /\ ls \in [firstWord : BOOLEAN, writeRemainder : BOOLEAN, prevWord : DataWord]
  /\ ls.firstWord = TRUE <=> First(in, a)
  /\ \A x \in Nat : a = x + 1 => ls.prevWord = in[x]

(* rshiftWordByOctet has read what was raised of the words before r.  What *)
(* has moved out of the last of them may be still to come.                 *)
Shifted(in, a, r) ==
  \/ shifted = <<>> /\ r = a
  \/ a = r + 1 /\ \E u : shifted = <<u>> /\ RaisedAt(in, r, u)
Owed(in, a, r, owed) ==
  \/ /\ owed = FALSE /\ Shifted(in, a, r)
     /\ ls.writeRemainder = TRUE <=> a = r + 1 /\ Spills(in[r])
  \/ /\ owed = TRUE /\ a = r
     /\ \E x \in Nat :
          /\ r = x + 1
          /\ \/ shifted = <<>> /\ ls.writeRemainder = TRUE
             \/ shifted = <<Spilled(in[x])>> /\ ls.writeRemainder = FALSE

(* It has sent the words before e. *)
Restored(in, r, e, owed) ==
  \/ /\ rs.fsmState = "PKG" /\ rs.firstWord = TRUE /\ r = e /\ owed = FALSE /\ First(in, r)
  \/ /\ rs.fsmState = "PKG" /\ rs.firstWord = FALSE /\ r = e + 1 /\ RaisedAt(in, e, rs.prevWord)
     /\ \/ owed = FALSE /\ in[e].last = FALSE
        \/ owed = TRUE /\ Spills(in[e])
  \/ /\ rs.fsmState = "REMAINDER" /\ r = e + 1 /\ RaisedAt(in, e, rs.prevWord)
     /\ rs.firstWord = TRUE /\ owed = FALSE /\ in[e].last = TRUE /\ ~Spills(in[e])
Restoring(in, r, e, owed) ==
  /\ rs \in [fsmState : {"PKG", "REMAINDER"}, firstWord : BOOLEAN, prevWord : DataWord]
  /\ Restored(in, r, e, owed)

(* convertStreamToDoubleWidth has read the words before c and sent those   *)
(* before g.                                                               *)
Widening(in, c, g) ==
  \/ dw.even = 0 /\ c = g
  \/ dw.even = 1 /\ c = g + 1 /\ dw.temp = in[g] /\ in[g].last = FALSE

Pair(in, w) == Word(in[w].bytes \o in[w + 1].bytes, in[w + 1].last)
Wide(in, w, g) ==
  \/ wide = <<>> /\ g = w
  \/ wide = <<in[w]>> /\ in[w].last = TRUE /\ g = w + 1
  \/ wide = <<Pair(in, w)>> /\ in[w].last = FALSE /\ g = w + 2

(* convertStreamToHalfWidth has read the words before w and sent those     *)
(* before h.                                                               *)
Halved(in, h, w) ==
  \/ hw.fsmState = "FIRST" /\ h = w
  \/ \E x \in Nat : /\ hw.fsmState = "SECOND" /\ hw.currWord = Pair(in, x) /\ in[x].last = FALSE
                    /\ h = x + 1 /\ w = x + 2

Halving(in, h, w) ==
  hw \in [fsmState : {"FIRST", "SECOND"}, currWord : DataWord] /\ Halved(in, h, w)

(* The words that have not come out are those from k up to n. *)
Flying(in, k, n) ==
  /\ inFlight \in Seq(DataWord) /\ n = k + Len(inFlight)
  /\ \A i \in 1 .. Len(inFlight) : inFlight[i] = in[k + (i - 1)]

(* The streams before, between and behind the shifts and the converters. *)
Ups(in, n, a, r, owed) ==
  Between(source, in, a, n) /\ Raising(in, a) /\ Owed(in, a, r, owed)
Downs(in, r, e, c, owed) == Restoring(in, r, e, owed) /\ Between(restored, in, c, e)
Halves(in, c, g, w, h, k) ==
  Widening(in, c, g) /\ Wide(in, w, g) /\ Halving(in, h, w) /\ Between(narrow, in, k, h)

Line(in, n, a, r, e, c, g, w, h, k, owed) ==
  /\ Ups(in, n, a, r, owed) /\ Downs(in, r, e, c, owed) /\ Halves(in, c, g, w, h, k)
  /\ Flying(in, k, n)

(* There are such positions. *)
EndOfLine(in, n, a, r, e, c, owed) ==
  \E g, w, h, k \in Nat : Line(in, n, a, r, e, c, g, w, h, k, owed)
InLine(in, n) ==
  \E a, r, e, c \in Nat : \E owed \in BOOLEAN : EndOfLine(in, n, a, r, e, c, owed)

StreamInv ==
  /\ offset \in Offsets
  /\ \E in \in [Nat -> DataWord] : \E n \in Nat : offered = n /\ AllGood(in) /\ InLine(in, n)

-----------------------------------------------------------------------------
(* Taking and dropping *)

LEMMA TakeDrop ==
  ASSUME NEW S, NEW s \in Seq(S), NEW n \in Nat, n <= Len(s)
  PROVE  /\ Take(s, n) \in Seq(S) /\ Len(Take(s, n)) = n
         /\ Drop(s, n) \in Seq(S) /\ Len(Drop(s, n)) = Len(s) - n
         /\ Take(s, n) \o Drop(s, n) = s
<1>1. PICK t, d : t = Take(s, n) /\ d = Drop(s, n)
  OBVIOUS
<1>2. t = SubSeq(s, 1, n) /\ d = SubSeq(s, n + 1, Len(s))
  BY <1>1 DEF Take, Drop
<1>3. t \in Seq(S) /\ Len(t) = n /\ \A i \in 1 .. n : t[i] = s[i]
  BY <1>2
<1>4. d \in Seq(S) /\ Len(d) = Len(s) - n /\ \A i \in 1 .. Len(s) - n : d[i] = s[n + i]
  BY <1>2
<1>5. /\ t \o d \in Seq(S) /\ Len(t \o d) = Len(s)
      /\ \A i \in 1 .. Len(s) : (t \o d)[i] = IF i <= n THEN t[i] ELSE d[i - n]
  BY <1>3, <1>4
<1>6. ASSUME NEW i \in 1 .. Len(s) PROVE (t \o d)[i] = s[i]
  <2>1. CASE i <= n
    BY <1>3, <1>5, <2>1
  <2>2. CASE ~(i <= n)
    <3>1. i - n \in 1 .. Len(s) - n /\ n + (i - n) = i
      BY <2>2
    <3> QED BY <1>4, <1>5, <2>2, <3>1
  <2> QED BY <2>1, <2>2
<1>7. t \o d = s
  BY <1>5, <1>6, SeqEqual
<1> QED BY <1>1, <1>3, <1>4, <1>7

LEMMA TakeAll ==
  ASSUME NEW S, NEW s \in Seq(S), NEW n \in Nat, Len(s) <= n
  PROVE  Take(s, n) = s /\ Drop(s, n) = <<>>
<1>1. Take(s, n) = SubSeq(s, 1, Len(s))
  BY DEF Take
<1> QED BY <1>1 DEF Drop

LEMMA Parts ==
  ASSUME NEW S, NEW p \in Seq(S), NEW q \in Seq(S)
  PROVE  Take(p \o q, Len(p)) = p /\ Drop(p \o q, Len(p)) = q
<1>1. Take(p \o q, Len(p)) = SubSeq(p \o q, 1, Len(p))
  BY DEF Take
<1>2. SubSeq(p \o q, 1, Len(p)) = p
  OBVIOUS
<1>3. SubSeq(p \o q, Len(p) + 1, Len(p \o q)) = q
  OBVIOUS
<1> QED BY <1>1, <1>2, <1>3 DEF Drop

(* The offsets move a part of a word. *)
LEMMA KeepIs ==
  ASSUME StreamAssumption, offset \in Offsets
  PROVE  /\ offset \in Nat \ {0} /\ Keep \in Nat \ {0} /\ Bytes \in Nat \ {0}
         /\ Keep + offset = Bytes /\ Keep < Bytes /\ offset < Bytes
  BY DEF StreamAssumption, Keep

LEMMA WordIs ==
  ASSUME NEW b \in Seq(Item), NEW l \in BOOLEAN
  PROVE  Word(b, l) \in DataWord /\ Word(b, l).bytes = b /\ Word(b, l).last = l
  BY DEF Word, DataWord

LEMMA SameWord ==
  ASSUME NEW v \in DataWord, NEW b, NEW l, b = v.bytes, l = v.last
  PROVE  Word(b, l) = v
  BY DEF Word, DataWord

(* What a raised word consists of: the front, which has offset bytes, and  *)
(* all of a word that does not spill.                                      *)
LEMMA RaisedIs ==
  ASSUME StreamAssumption, offset \in Offsets, NEW w, Good(w),
         NEW front \in Seq(Item), Len(front) = offset
  PROVE  /\ Raised(front, w) \in DataWord
         /\ Drop(Raised(front, w).bytes, offset) = Take(w.bytes, Keep)
         /\ Take(Raised(front, w).bytes, offset) = front
         /\ Raised(front, w).last = (Len(w.bytes) <= Keep)
         /\ ~(Len(Raised(front, w).bytes) <= offset)
         /\ Raised(front, w).last = TRUE => w.last = TRUE /\ Take(w.bytes, Keep) = w.bytes
<1>1. PICK b \in Seq(Item), K \in Nat \ {0} :
        b = w.bytes /\ K = Keep /\ Len(b) >= 1 /\ Len(b) <= Bytes /\ (w.last = FALSE => Len(b) = Bytes)
  BY KeepIs DEF Good, DataWord
<1>2. K < Bytes /\ Bytes \in Nat /\ offset \in Nat
  BY <1>1, KeepIs
<1>3. PICK t : t = Take(b, K)
  OBVIOUS
<1>4. t \in Seq(Item) /\ Len(t) >= 1 /\ (Len(b) <= K => t = b)
  <2>1. CASE K <= Len(b)
    <3>1. t \in Seq(Item) /\ Len(t) = K
      BY <1>3, <2>1, TakeDrop
    <3>2. Len(b) <= K => t = b
      BY <1>3, TakeAll
    <3> QED BY <3>1, <3>2
  <2>2. CASE ~(K <= Len(b))
    <3>1. Len(b) <= K
      BY <2>2
    <3>2. t = b
      BY <1>3, <3>1, TakeAll
    <3> QED BY <1>1, <3>2
  <2> QED BY <2>1, <2>2
<1>5. front \o t \in Seq(Item) /\ Len(front \o t) = offset + Len(t)
  BY <1>4
<1>6. (Len(b) <= K) \in BOOLEAN
  OBVIOUS
<1>7. PICK u : u = Raised(front, w)
  OBVIOUS
<1>8. u = Word(front \o t, Len(b) <= K)
  BY <1>1, <1>3, <1>7 DEF Raised
<1>9. u \in DataWord /\ u.bytes = front \o t /\ u.last = (Len(b) <= K)
  BY <1>5, <1>6, <1>8, WordIs
<1>10. Drop(front \o t, offset) = t /\ Take(front \o t, offset) = front
  BY <1>4, Parts
<1>11. ~(Len(front \o t) <= offset)
  BY <1>2, <1>4, <1>5
<1>12. w.last \in BOOLEAN
  BY DEF Good, DataWord
<1>13. Len(b) <= K => w.last = TRUE
  BY <1>1, <1>2, <1>12
<1> QED BY <1>1, <1>3, <1>4, <1>7, <1>9, <1>10, <1>11, <1>13

(* What spills is the rest of the word, and no more than offset bytes. *)
LEMMA SpilledIs ==
  ASSUME StreamAssumption, offset \in Offsets, NEW w, Good(w), ~(Len(w.bytes) <= Keep)
  PROVE  /\ Drop(w.bytes, Keep) \in Seq(Item)
         /\ Take(w.bytes, Keep) \o Drop(w.bytes, Keep) = w.bytes
         /\ Len(Drop(w.bytes, Keep)) <= offset
         /\ w.last = FALSE => Len(Drop(w.bytes, Keep)) = offset
         /\ Take(Drop(w.bytes, Keep), offset) = Drop(w.bytes, Keep)
<1>1. PICK b \in Seq(Item), K \in Nat \ {0} :
        b = w.bytes /\ K = Keep /\ Len(b) <= Bytes /\ (w.last = FALSE => Len(b) = Bytes) /\ K <= Len(b)
  BY KeepIs DEF Good, DataWord
<1>2. K + offset = Bytes /\ offset \in Nat /\ Bytes \in Nat
  BY <1>1, KeepIs
<1>3. PICK d : d = Drop(b, K)
  OBVIOUS
<1>4. d \in Seq(Item) /\ Len(d) = Len(b) - K /\ Take(b, K) \o d = b
  BY <1>1, <1>3, TakeDrop
<1>5. Len(d) <= offset /\ (w.last = FALSE => Len(d) = offset)
  <2>1. PICK y \in Nat, z \in Nat, o \in Nat, B \in Nat :
          y = Len(b) /\ z = Len(d) /\ o = offset /\ B = Bytes /\ z = y - K
    BY <1>2, <1>4
  <2>2. y <= B /\ K + o = B
    BY <1>1, <1>2, <2>1
  <2>3. z <= o /\ (y = B => z = o)
    BY <2>1, <2>2
  <2>4. w.last = FALSE => y = B
    BY <1>1, <2>1, Zenon
  <2> QED BY <2>1, <2>3, <2>4, Zenon
<1>6. Take(d, offset) = d
  BY <1>2, <1>4, <1>5, TakeAll
<1> QED BY <1>1, <1>3, <1>4, <1>5, <1>6

(* What stands before a word has offset bytes. *)
LEMMA FrontIs ==
  ASSUME StreamAssumption, offset \in Offsets, NEW in, AllGood(in),
         NEW k \in Nat, NEW front, FrontOf(in, k, front)
  PROVE  front \in Seq(Item) /\ Len(front) = offset
<1>1. CASE First(in, k)
  <2>1. front = Zeroes
    BY <1>1 DEF FrontOf
  <2>2. offset \in Nat
    BY KeepIs
  <2>3. Zeroes \in [1 .. offset -> Item]
    BY DEF Zeroes, Item
  <2> QED BY <2>1, <2>2, <2>3 DEF Zeroes
<1>2. CASE ~First(in, k)
  <2>1. PICK x \in Nat : k = x + 1 /\ in[x].last # TRUE
    BY <1>2 DEF First
  <2>2. Good(in[x]) /\ in[x].last = FALSE
    BY <2>1 DEF Good, AllGood, DataWord
  <2>3. front = Drop(in[x].bytes, Keep)
    BY <2>1, <2>2 DEF FrontOf
  <2>4. Len(in[x].bytes) = Bytes
    BY <2>2 DEF Good
  <2>5. ~(Len(in[x].bytes) <= Keep)
    BY <2>4, KeepIs
  <2> QED BY <2>2, <2>3, <2>5, SpilledIs
<1> QED BY <1>1, <1>2

(* The front of a word in its packet is what moved out of the word before. *)
LEMMA FrontBehind ==
  ASSUME NEW in, NEW x \in Nat, NEW front, FrontOf(in, x + 1, front), in[x].last = FALSE
  PROVE  front = Drop(in[x].bytes, Keep)
  BY DEF FrontOf

LEMMA FirstBehind ==
  ASSUME NEW in, NEW x \in Nat
  PROVE  First(in, x + 1) <=> in[x].last = TRUE
<1>1. \A y \in Nat : x + 1 = y + 1 => y = x
  OBVIOUS
<1>2. x + 1 = x + 1
  OBVIOUS
<1> QED BY <1>1, <1>2 DEF First

-----------------------------------------------------------------------------
(* lshiftWordByOctet *)

LEMMA RemainderRaised ==
  ASSUME StreamAssumption, offset \in Offsets, NEW in, AllGood(in),
         NEW n \in Nat, NEW a \in Nat, NEW r \in Nat, NEW owed \in BOOLEAN,
         Ups(in, n, a, r, owed), lshiftRemainder, UNCHANGED offset
  PROVE  Ups(in, n, a, r, owed)'
<1>1. /\ ls.writeRemainder = TRUE /\ shifted = <<>> /\ source' = source
      /\ shifted' = <<Word(Drop(ls.prevWord.bytes, Bytes - offset), TRUE)>>
      /\ ls' = [ls EXCEPT !.writeRemainder = FALSE]
  BY DEF lshiftRemainder, Ups, Raising
<1>2. PICK x \in Nat : owed = TRUE /\ a = r /\ r = x + 1
  <2>1. Owed(in, a, r, owed)
    BY DEF Ups
  <2>2. a # r + 1
    BY <1>1, <2>1 DEF Owed, Shifted
  <2> QED BY <1>1, <2>1, <2>2 DEF Owed
<1>3. ls.prevWord = in[x]
  BY <1>2 DEF Ups, Raising
<1>4. /\ ls' \in [firstWord : BOOLEAN, writeRemainder : BOOLEAN, prevWord : DataWord]
      /\ ls'.writeRemainder = FALSE /\ ls'.firstWord = ls.firstWord /\ ls'.prevWord = ls.prevWord
  BY <1>1 DEF Ups, Raising
<1>5. shifted' = <<Spilled(in[x])>>'
  BY <1>1, <1>3 DEF Spilled, Keep
<1>6. Owed(in, a, r, owed)'
  BY <1>2, <1>4, <1>5 DEF Owed
<1>7. Raising(in, a)'
  BY <1>4 DEF Ups, Raising, First
<1>8. Between(source, in, a, n)'
  BY <1>1 DEF Ups, Between
<1> QED BY <1>6, <1>7, <1>8 DEF Ups

LEMMA WordRaised ==
  ASSUME StreamAssumption, offset \in Offsets, NEW in, AllGood(in),
         NEW n \in Nat, NEW a \in Nat, NEW r \in Nat, NEW owed \in BOOLEAN,
         Ups(in, n, a, r, owed), lshiftRead, UNCHANGED offset
  PROVE  Ups(in, n, a + 1, r, owed)'
<1>1. PICK curr, front, send :
        /\ curr = source[1]
        /\ front = IF ls.firstWord THEN [i \in 1 .. offset |-> <<>>]
                                   ELSE Drop(ls.prevWord.bytes, Bytes - offset)
        /\ send = Word(front \o Take(curr.bytes, Bytes - offset), Len(curr.bytes) <= Bytes - offset)
        /\ shifted' = <<send>>
        /\ ls' = [firstWord |-> curr.last, writeRemainder |-> UpRemains(curr, send),
                  prevWord |-> curr]
  BY DEF lshiftRead
<1>2. source # <<>> /\ source' = <<>> /\ ~ls.writeRemainder /\ shifted = <<>>
  BY DEF lshiftRead
<1>3. curr = in[a] /\ n = a + 1 /\ Good(curr)
  BY <1>1, <1>2 DEF Ups, Between, AllGood
<1>4. owed = FALSE /\ a = r
  <2>1. Owed(in, a, r, owed)
    BY DEF Ups
  <2>2. ls.writeRemainder # TRUE
    BY <1>2
  <2>3. \A x \in Nat : shifted # <<Spilled(in[x])>>
    BY <1>2
  <2> QED BY <1>2, <2>1, <2>2, <2>3 DEF Owed, Shifted
<1>5. FrontOf(in, a, front)
  <2>1. Raising(in, a)
    BY DEF Ups
  <2>2. ls.firstWord \in BOOLEAN
    BY <2>1 DEF Raising
  <2>3. ASSUME First(in, a) PROVE front = Zeroes
    BY <1>1, <2>1, <2>3 DEF Raising, Zeroes
  <2>4. ASSUME NEW x \in Nat, a = x + 1, in[x].last = FALSE PROVE front = Drop(in[x].bytes, Keep)
    <3>1. ~First(in, a)
      BY <2>4 DEF First
    <3>2. ls.firstWord = FALSE /\ ls.prevWord = in[x]
      BY <2>1, <2>2, <2>4, <3>1 DEF Raising
    <3> QED BY <1>1, <3>2 DEF Keep
  <2> QED BY <2>3, <2>4 DEF FrontOf
<1>6. front \in Seq(Item) /\ Len(front) = offset
  BY <1>5, FrontIs
<1>7. send = Raised(front, in[a])
  BY <1>1, <1>3 DEF Raised, Keep
<1>8. RaisedAt(in, a, send)
  BY <1>5, <1>6, <1>7 DEF RaisedAt
<1>9. send.last = (Len(curr.bytes) <= Keep) /\ curr.last \in BOOLEAN /\ curr \in DataWord
  <2>1. curr \in DataWord /\ curr.last \in BOOLEAN
    BY <1>3 DEF Good, DataWord
  <2> QED BY <1>3, <1>6, <1>7, <2>1, RaisedIs
<1>10. UpRemains(curr, send) = Spills(in[a])
  BY <1>3, <1>9 DEF UpRemains, Spills
<1>11. UpRemains(curr, send) \in BOOLEAN
  BY DEF UpRemains
<1>12. /\ ls' \in [firstWord : BOOLEAN, writeRemainder : BOOLEAN, prevWord : DataWord]
       /\ ls'.firstWord = curr.last /\ ls'.writeRemainder = Spills(in[a]) /\ ls'.prevWord = curr
  BY <1>1, <1>9, <1>10, <1>11
<1>13. RaisedAt(in, a, send)' /\ Spills(in[a])' = Spills(in[a])
  BY <1>8 DEF RaisedAt, FrontOf, Zeroes, Raised, Spills, Keep, First
<1>14. Owed(in, a + 1, r, owed)'
  BY <1>1, <1>4, <1>12, <1>13 DEF Owed, Shifted
<1>15. Raising(in, a + 1)'
  <2>1. First(in, a + 1) <=> in[a].last = TRUE
    BY FirstBehind
  <2>2. \A x \in Nat : a + 1 = x + 1 => x = a
    OBVIOUS
  <2>3. First(in, a + 1)' <=> First(in, a + 1)
    BY DEF First
  <2> QED BY <1>3, <1>12, <2>1, <2>2, <2>3 DEF Raising
<1>16. Between(source, in, a + 1, n)'
  BY <1>2, <1>3 DEF Between
<1> QED BY <1>14, <1>15, <1>16 DEF Ups

-----------------------------------------------------------------------------
(* rshiftWordByOctet *)

LEMMA SameRaised ==
  ASSUME NEW in, NEW k, NEW u, RaisedAt(in, k, u), UNCHANGED offset
  PROVE  RaisedAt(in, k, u)'
  BY DEF RaisedAt, FrontOf, Zeroes, Raised, Keep, First

(* It reads a raised word, *)
LEMMA ReadRaised ==
  ASSUME NEW in, NEW n, NEW a, NEW r \in Nat, Ups(in, n, a, r, FALSE),
         shifted # <<>>, shifted' = <<>>, UNCHANGED <<source, ls, offset>>
  PROVE  /\ \E u : shifted = <<u>> /\ RaisedAt(in, r, u)
         /\ Ups(in, n, a, r + 1, Spills(in[r]))'
<1>1. Shifted(in, a, r) /\ (ls.writeRemainder = TRUE <=> a = r + 1 /\ Spills(in[r]))
      /\ ls.writeRemainder \in BOOLEAN
  BY DEF Ups, Owed, Raising
<1>2. a = r + 1 /\ \E u : shifted = <<u>> /\ RaisedAt(in, r, u)
  BY <1>1 DEF Shifted
<1>3. Spills(in[r])' = Spills(in[r]) /\ Spills(in[r]) \in BOOLEAN
  BY DEF Spills, Keep
<1>4. Between(source, in, a, n)' /\ Raising(in, a)'
  BY DEF Ups, Between, Raising, First
<1>5. Owed(in, a, r + 1, Spills(in[r]))'
  <2>1. CASE Spills(in[r])
    <3>1. ls'.writeRemainder = TRUE
      BY <1>1, <1>2, <2>1
    <3> QED BY <1>2, <1>3, <2>1, <3>1 DEF Owed
  <2>2. CASE ~Spills(in[r])
    <3>1. ls'.writeRemainder = FALSE /\ a # (r + 1) + 1
      BY <1>1, <1>2, <2>2
    <3>2. Shifted(in, a, r + 1)'
      BY <1>2 DEF Shifted
    <3> QED BY <1>2, <1>3, <2>2, <3>1, <3>2 DEF Owed
  <2> QED BY <2>1, <2>2
<1>6. Ups(in, n, a, r + 1, Spills(in[r]))'
  BY <1>3, <1>4, <1>5 DEF Ups
<1> QED BY <1>2, <1>6

(* or what moved out of it. *)
LEMMA ReadSpilled ==
  ASSUME NEW in, NEW n, NEW a, NEW x \in Nat, Ups(in, n, a, x + 1, TRUE),
         shifted # <<>>, shifted' = <<>>, UNCHANGED <<source, ls, offset>>
  PROVE  shifted = <<Spilled(in[x])>> /\ Ups(in, n, a, x + 1, FALSE)'
<1>1. \A y \in Nat : x + 1 = y + 1 => y = x
  OBVIOUS
<1>2. a = x + 1 /\ shifted = <<Spilled(in[x])>> /\ ls.writeRemainder = FALSE
  BY <1>1 DEF Ups, Owed
<1>3. Between(source, in, a, n)' /\ Raising(in, a)'
  BY DEF Ups, Between, Raising, First
<1>4. Shifted(in, a, x + 1)'
  BY <1>2 DEF Shifted
<1>5. a # (x + 1) + 1
  BY <1>2
<1>6. Owed(in, a, x + 1, FALSE)'
  BY <1>2, <1>4, <1>5 DEF Owed
<1> QED BY <1>2, <1>3, <1>6 DEF Ups

(* A raised word that was read is what the next one continues. *)
LEMMA HoldRaised ==
  ASSUME StreamAssumption, offset \in Offsets, NEW in, AllGood(in),
         NEW r \in Nat, NEW u, RaisedAt(in, r, u), UNCHANGED offset,
         rs' = [fsmState |-> IF u.last THEN "REMAINDER" ELSE "PKG", firstWord |-> u.last,
                prevWord |-> u]
  PROVE  Restoring(in, r + 1, r, Spills(in[r]))'
<1>1. PICK front \in Seq(Item) : FrontOf(in, r, front) /\ u = Raised(front, in[r])
  BY DEF RaisedAt
<1>2. Good(in[r]) /\ Len(front) = offset
  BY <1>1, FrontIs DEF AllGood
<1>3. /\ u \in DataWord /\ u.last = (Len(in[r].bytes) <= Keep)
      /\ u.last = TRUE => in[r].last = TRUE
  BY <1>1, <1>2, RaisedIs
<1>4. u.last \in BOOLEAN /\ in[r].last \in BOOLEAN
  BY <1>2, <1>3 DEF Good, DataWord
<1>5. /\ rs' \in [fsmState : {"PKG", "REMAINDER"}, firstWord : BOOLEAN, prevWord : DataWord]
      /\ rs'.firstWord = u.last /\ rs'.prevWord = u
      /\ u.last = TRUE => rs'.fsmState = "REMAINDER"
      /\ u.last = FALSE => rs'.fsmState = "PKG"
  BY <1>3, <1>4
<1>6. RaisedAt(in, r, u)' /\ Spills(in[r])' = Spills(in[r]) /\ Spills(in[r]) \in BOOLEAN
  BY SameRaised DEF Spills, Keep
<1>7. CASE u.last = TRUE
  <2>1. in[r].last = TRUE /\ ~Spills(in[r])
    BY <1>3, <1>7 DEF Spills
  <2>2. Restored(in, r + 1, r, FALSE)'
    BY <1>5, <1>6, <1>7, <2>1 DEF Restored
  <2> QED BY <1>5, <1>6, <2>1, <2>2 DEF Restoring
<1>8. CASE u.last = FALSE /\ in[r].last = TRUE
  <2>1. Spills(in[r])
    BY <1>3, <1>8 DEF Spills
  <2>2. Restored(in, r + 1, r, TRUE)'
    BY <1>5, <1>6, <1>8, <2>1 DEF Restored
  <2> QED BY <1>5, <1>6, <2>1, <2>2 DEF Restoring
<1>9. CASE u.last = FALSE /\ in[r].last = FALSE
  <2>1. ~Spills(in[r])
    BY <1>9 DEF Spills
  <2>2. Restored(in, r + 1, r, FALSE)'
    BY <1>5, <1>6, <1>9, <2>1 DEF Restored
  <2> QED BY <1>5, <1>6, <2>1, <2>2 DEF Restoring
<1> QED BY <1>4, <1>7, <1>8, <1>9

More(w) == w.last = FALSE
LastWord == [bytes : Seq(Item), last : {TRUE}]

(* What is sent for two words. *)
Joined(u, v) ==
  Word(Drop(u.bytes, offset) \o Take(v.bytes, offset), Len(v.bytes) <= offset)

(* A raised word and the next word make up the word they were raised from. *)
LEMMA JoinRaised ==
  ASSUME StreamAssumption, offset \in Offsets, NEW in, AllGood(in),
         NEW e \in Nat, NEW u, RaisedAt(in, e, u), More(in[e]),
         NEW k, k = e + 1, NEW v, RaisedAt(in, k, v)
  PROVE  Joined(u, v) = in[e]
<1>1. PICK front \in Seq(Item) : FrontOf(in, e, front) /\ u = Raised(front, in[e])
  BY DEF RaisedAt
<1>2. PICK next \in Seq(Item) : FrontOf(in, e + 1, next) /\ v = Raised(next, in[e + 1])
  BY DEF RaisedAt
<1>3. Len(front) = offset /\ Len(next) = offset /\ Good(in[e]) /\ Good(in[e + 1])
  BY <1>1, <1>2, FrontIs DEF AllGood
<1>4. Drop(u.bytes, offset) = Take(in[e].bytes, Keep)
  BY <1>1, <1>3, RaisedIs
<1>5. Take(v.bytes, offset) = next /\ ~(Len(v.bytes) <= offset)
  BY <1>2, <1>3, RaisedIs
<1>more. in[e].last = FALSE
  BY DEF More
<1>6. next = Drop(in[e].bytes, Keep)
  BY <1>2, <1>more, FrontBehind
<1>7. ~(Len(in[e].bytes) <= Keep)
  <2>1. Len(in[e].bytes) = Bytes
    BY <1>3, <1>more DEF Good
  <2> QED BY <2>1, KeepIs
<1>8. Take(in[e].bytes, Keep) \o Drop(in[e].bytes, Keep) = in[e].bytes
  BY <1>3, <1>7, SpilledIs
<1>9. Drop(u.bytes, offset) \o Take(v.bytes, offset) = in[e].bytes
  BY <1>4, <1>5, <1>6, <1>8
<1>10. (Len(v.bytes) <= offset) = in[e].last
  <2>1. v \in DataWord
    BY <1>2, <1>3, RaisedIs
  <2>2. PICK y \in Nat, o \in Nat : y = Len(v.bytes) /\ o = offset
    BY <2>1, KeepIs DEF DataWord
  <2>3. ~(y <= o)
    BY <1>5, <2>2
  <2>4. (y <= o) = FALSE
    BY <2>3
  <2> QED BY <1>more, <2>2, <2>4
<1>11. in[e] \in DataWord
  BY <1>3 DEF Good
<1> QED BY <1>9, <1>10, <1>11, SameWord DEF Joined

(* So do a raised word and what moved out of it, *)
LEMMA JoinSpilled ==
  ASSUME StreamAssumption, offset \in Offsets, NEW in, AllGood(in),
         NEW e \in Nat, NEW u, RaisedAt(in, e, u), Spills(in[e]), NEW v, v = Spilled(in[e])
  PROVE  Joined(u, v) = in[e] /\ v \in LastWord
<1>1. PICK front \in Seq(Item) : FrontOf(in, e, front) /\ u = Raised(front, in[e])
  BY DEF RaisedAt
<1>2. Len(front) = offset /\ Good(in[e])
  BY <1>1, FrontIs DEF AllGood
<1>3. Drop(u.bytes, offset) = Take(in[e].bytes, Keep)
  BY <1>1, <1>2, RaisedIs
<1>4. in[e].last = TRUE /\ ~(Len(in[e].bytes) <= Keep)
  BY DEF Spills
<1>5. PICK d : d = Drop(in[e].bytes, Keep)
  OBVIOUS
<1>6. d \in Seq(Item) /\ Take(in[e].bytes, Keep) \o d = in[e].bytes /\ Len(d) <= offset
      /\ Take(d, offset) = d
  BY <1>2, <1>4, <1>5, SpilledIs
<1>7. v \in DataWord /\ v.bytes = d /\ v.last = TRUE
  <2>1. v = Word(d, TRUE)
    BY <1>5 DEF Spilled
  <2> QED BY <1>6, <2>1, WordIs
<1>8. Drop(u.bytes, offset) \o Take(v.bytes, offset) = in[e].bytes
  BY <1>3, <1>6, <1>7
<1>9. (Len(v.bytes) <= offset) = in[e].last
  BY <1>4, <1>6, <1>7
<1>10. in[e] \in DataWord
  BY <1>2 DEF Good
<1>11. Joined(u, v) = in[e]
  BY <1>8, <1>9, <1>10, SameWord DEF Joined
<1>12. v \in LastWord
  BY <1>7 DEF DataWord, LastWord
<1> QED BY <1>11, <1>12

(* and a raised word alone, if nothing moved out of it. *)
LEMMA LowerRaised ==
  ASSUME StreamAssumption, offset \in Offsets, NEW in, AllGood(in),
         NEW e \in Nat, NEW u, RaisedAt(in, e, u), in[e].last = TRUE, ~Spills(in[e])
  PROVE  Word(Drop(u.bytes, offset), TRUE) = in[e]
<1>1. PICK front \in Seq(Item) : FrontOf(in, e, front) /\ u = Raised(front, in[e])
  BY DEF RaisedAt
<1>2. Len(front) = offset /\ Good(in[e]) /\ in[e] \in DataWord
  BY <1>1, FrontIs DEF Good, AllGood
<1>3. Len(in[e].bytes) <= Keep
  BY DEF Spills
<1>4. Drop(u.bytes, offset) = in[e].bytes
  BY <1>1, <1>2, <1>3, RaisedIs
<1>5. PICK b, l : b = Drop(u.bytes, offset) /\ l = TRUE
  OBVIOUS
<1>6. in[e] \in DataWord /\ b = in[e].bytes /\ l = in[e].last
  BY <1>2, <1>4, <1>5
<1>7. Word(b, l) = in[e]
  BY <1>6, SameWord
<1> QED BY <1>5, <1>7

LEMMA RemainderRestored ==
  ASSUME StreamAssumption, offset \in Offsets, NEW in, AllGood(in),
         NEW r \in Nat, NEW e \in Nat, NEW c \in Nat, NEW owed \in BOOLEAN,
         Downs(in, r, e, c, owed), rshiftRemainder, UNCHANGED offset
  PROVE  Downs(in, r, e + 1, c, owed)'
<1>1. /\ rs.fsmState = "REMAINDER" /\ restored = <<>>
      /\ restored' = <<Word(Drop(rs.prevWord.bytes, offset), TRUE)>>
      /\ rs' = [rs EXCEPT !.fsmState = "PKG"]
  BY DEF rshiftRemainder
<1>2. Restored(in, r, e, owed) /\ c = e
      /\ rs \in [fsmState : {"PKG", "REMAINDER"}, firstWord : BOOLEAN, prevWord : DataWord]
  BY <1>1 DEF Downs, Between, Restoring
<1>3. /\ r = e + 1 /\ RaisedAt(in, e, rs.prevWord)
      /\ rs.firstWord = TRUE /\ owed = FALSE /\ in[e].last = TRUE /\ ~Spills(in[e])
  BY <1>1, <1>2 DEF Restored
<1>4. restored' = <<in[e]>>
  BY <1>1, <1>3, LowerRaised
<1>5. First(in, e + 1)
  BY <1>3, FirstBehind
<1>6. /\ rs' \in [fsmState : {"PKG", "REMAINDER"}, firstWord : BOOLEAN, prevWord : DataWord]
      /\ rs'.fsmState = "PKG" /\ rs'.firstWord = TRUE
  BY <1>1, <1>2, <1>3
<1>7. First(in, r)'
  BY <1>3, <1>5 DEF First
<1>8. Restored(in, r, e + 1, owed)'
  BY <1>3, <1>6, <1>7 DEF Restored
<1>9. Between(restored, in, c, e + 1)'
  BY <1>2, <1>4 DEF Between
<1> QED BY <1>6, <1>8, <1>9 DEF Downs, Restoring

LEMMA WordRestored ==
  ASSUME StreamAssumption, offset \in Offsets, NEW in, AllGood(in),
         NEW n \in Nat, NEW a \in Nat, NEW r \in Nat, NEW e \in Nat, NEW c \in Nat,
         NEW owed \in BOOLEAN, Ups(in, n, a, r, owed), Downs(in, r, e, c, owed),
         rshiftRead, UNCHANGED <<source, ls, offset>>
  PROVE  \E r1 \in Nat, e1 \in Nat, owed1 \in BOOLEAN :
           Ups(in, n, a, r1, owed1)' /\ Downs(in, r1, e1, c, owed1)'
<1>1. PICK curr, send :
        /\ curr = shifted[1]
        /\ send = Word(Drop(rs.prevWord.bytes, offset) \o Take(curr.bytes, offset),
                       Len(curr.bytes) <= offset)
        /\ restored' = IF rs.firstWord THEN <<>> ELSE <<send>>
        /\ rs' = [fsmState |-> IF curr.last /\ (rs.firstWord \/ ~send.last) THEN "REMAINDER"
                                                                            ELSE "PKG",
                  firstWord |-> curr.last, prevWord |-> curr]
  BY DEF rshiftRead
<1>2. rs.fsmState = "PKG" /\ shifted # <<>> /\ restored = <<>> /\ shifted' = <<>>
  BY DEF rshiftRead
<1>3. Restored(in, r, e, owed) /\ c = e
  BY <1>2 DEF Downs, Between, Restoring
<1>4. CASE rs.firstWord = TRUE
  <2>1. r = e /\ owed = FALSE
    BY <1>2, <1>3, <1>4 DEF Restored
  <2>2. PICK u : shifted = <<u>> /\ RaisedAt(in, r, u)
    BY <1>2, <2>1, ReadRaised
  <2>3. Ups(in, n, a, r + 1, Spills(in[r]))'
    BY <1>2, <2>1, ReadRaised
  <2>4. rs' = [fsmState |-> IF u.last THEN "REMAINDER" ELSE "PKG", firstWord |-> u.last,
               prevWord |-> u]
    BY <1>1, <1>4, <2>2
  <2>5. Restoring(in, r + 1, r, Spills(in[r]))'
    BY <2>2, <2>4, HoldRaised
  <2>6. Between(restored, in, c, e)'
    BY <1>1, <1>3, <1>4 DEF Between
  <2>7. Spills(in[r]) \in BOOLEAN /\ Spills(in[r])' = Spills(in[r])
    BY DEF Spills, Keep
  <2>8. Ups(in, n, a, r + 1, Spills(in[r]))' /\ Downs(in, r + 1, e, c, Spills(in[r]))'
    BY <2>1, <2>3, <2>5, <2>6 DEF Downs
  <2>9. PICK o1 \in BOOLEAN : o1 = Spills(in[r])
    BY <2>7
  <2>10. Ups(in, n, a, r + 1, o1)' /\ Downs(in, r + 1, e, c, o1)'
    BY <2>7, <2>8, <2>9
  <2> QED BY <2>10
<1>5. CASE rs.firstWord = FALSE /\ owed = FALSE
  <2>1. r = e + 1 /\ RaisedAt(in, e, rs.prevWord) /\ in[e].last = FALSE
    BY <1>2, <1>3, <1>5 DEF Restored
  <2>2. PICK u : shifted = <<u>> /\ RaisedAt(in, r, u)
    BY <1>2, <1>5, ReadRaised
  <2>3. Ups(in, n, a, r + 1, Spills(in[r]))'
    BY <1>2, <1>5, ReadRaised
  <2>40. curr = u
    BY <1>1, <2>2
  <2>4. send = in[e]
    <3>1. PICK p : p = rs.prevWord
      OBVIOUS
    <3>2. RaisedAt(in, e, p) /\ More(in[e]) /\ RaisedAt(in, r, curr) /\ r = e + 1
      BY <2>1, <2>2, <2>40, <3>1 DEF More
    <3>3. Joined(p, curr) = in[e]
      BY <3>2, JoinRaised
    <3>4. send = Joined(p, curr)
      BY <1>1, <3>1 DEF Joined
    <3> QED BY <3>3, <3>4
  <2>5. rs' = [fsmState |-> IF u.last THEN "REMAINDER" ELSE "PKG", firstWord |-> u.last,
               prevWord |-> u]
    BY <1>1, <1>5, <2>1, <2>4, <2>40
  <2>6. Restoring(in, r + 1, r, Spills(in[r]))'
    BY <2>2, <2>5, HoldRaised
  <2>7. Between(restored, in, c, r)'
    BY <1>1, <1>3, <1>5, <2>1, <2>4 DEF Between
  <2>8. Spills(in[r]) \in BOOLEAN /\ Spills(in[r])' = Spills(in[r])
    BY DEF Spills, Keep
  <2>9. PICK o1 \in BOOLEAN : o1 = Spills(in[r])
    BY <2>8
  <2>10. Ups(in, n, a, r + 1, o1)' /\ Downs(in, r + 1, r, c, o1)'
    BY <2>3, <2>6, <2>7, <2>8, <2>9 DEF Downs
  <2> QED BY <2>10
<1>6. CASE rs.firstWord = FALSE /\ owed = TRUE
  <2>1. r = e + 1 /\ RaisedAt(in, e, rs.prevWord) /\ Spills(in[e])
    BY <1>2, <1>3, <1>6 DEF Restored
  <2>2. shifted = <<Spilled(in[e])>> /\ Ups(in, n, a, r, FALSE)'
    BY <1>2, <1>6, <2>1, ReadSpilled
  <2>3. curr = Spilled(in[e])
    BY <1>1, <2>2
  <2>4. send = in[e] /\ curr.last = TRUE /\ curr \in DataWord
    <3>1. PICK p : p = rs.prevWord
      OBVIOUS
    <3>2. RaisedAt(in, e, p) /\ Spills(in[e])
      BY <2>1, <3>1
    <3>3. Joined(p, curr) = in[e] /\ curr \in LastWord
      BY <2>3, <3>2, JoinSpilled
    <3>4. send = Joined(p, curr)
      BY <1>1, <3>1 DEF Joined
    <3>5. curr \in DataWord /\ curr.last = TRUE
      BY <3>3 DEF LastWord, DataWord
    <3> QED BY <3>3, <3>4, <3>5
  <2>5. in[e].last = TRUE
    BY <2>1 DEF Spills
  <2>6. /\ rs' \in [fsmState : {"PKG", "REMAINDER"}, firstWord : BOOLEAN, prevWord : DataWord]
        /\ rs'.fsmState = "PKG" /\ rs'.firstWord = TRUE
    BY <1>1, <1>6, <2>4, <2>5
  <2>7. First(in, r)'
    <3>1. First(in, r)
      BY <2>1, <2>5, FirstBehind
    <3> QED BY <3>1 DEF First
  <2>8. Restoring(in, r, r, FALSE)'
    BY <2>6, <2>7 DEF Restoring, Restored
  <2>9. Between(restored, in, c, r)'
    BY <1>1, <1>3, <1>6, <2>1, <2>4 DEF Between
  <2> QED BY <2>2, <2>8, <2>9 DEF Downs
<1>7. rs.firstWord \in BOOLEAN
  BY DEF Downs, Restoring
<1> QED BY <1>4, <1>5, <1>6, <1>7

-----------------------------------------------------------------------------
(* convertStreamToDoubleWidth and convertStreamToHalfWidth *)

(* The two words of a pair, of which the first one is full. *)
LEMMA PairIs ==
  ASSUME StreamAssumption, offset \in Offsets, NEW in, AllGood(in), NEW x \in Nat, More(in[x])
  PROVE  /\ Pair(in, x) \in DataWord /\ Pair(in, x).last = in[x + 1].last
         /\ Take(Pair(in, x).bytes, Bytes) = in[x].bytes
         /\ Drop(Pair(in, x).bytes, Bytes) = in[x + 1].bytes
         /\ Len(Pair(in, x).bytes) > Bytes
<1>1. Good(in[x]) /\ Good(in[x + 1])
  BY DEF AllGood
<1>2. PICK p \in Seq(Item), q \in Seq(Item), l \in BOOLEAN :
        p = in[x].bytes /\ q = in[x + 1].bytes /\ l = in[x + 1].last /\ Len(p) = Bytes /\ Len(q) >= 1
  BY <1>1 DEF Good, DataWord, More
<1>3. Pair(in, x) = Word(p \o q, l)
  BY <1>2 DEF Pair
<1>4. p \o q \in Seq(Item) /\ Len(p \o q) = Len(p) + Len(q)
  OBVIOUS
<1>5. Pair(in, x) \in DataWord /\ Pair(in, x).bytes = p \o q /\ Pair(in, x).last = l
  <2>1. PICK b \in Seq(Item) : b = p \o q
    BY <1>4
  <2>2. Word(b, l) \in DataWord /\ Word(b, l).bytes = b /\ Word(b, l).last = l
    BY WordIs, Zenon
  <2> QED BY <1>3, <2>1, <2>2, Zenon
<1>6. Take(p \o q, Bytes) = p /\ Drop(p \o q, Bytes) = q
  BY <1>2, Parts
<1>7. Len(p \o q) > Bytes
  BY <1>2, <1>4
<1> QED BY <1>2, <1>5, <1>6, <1>7

(* The part of the line that convertStreamToDoubleWidth moves in. *)
LowerPart(in, r, e, w, h, k, owed) ==
  \E c, g \in Nat : Downs(in, r, e, c, owed) /\ Halves(in, c, g, w, h, k)

LEMMA Widened ==
  ASSUME StreamAssumption, offset \in Offsets, NEW in, AllGood(in),
         NEW r \in Nat, NEW e \in Nat, NEW c \in Nat, NEW g \in Nat, NEW w \in Nat, NEW h \in Nat,
         NEW k \in Nat, NEW owed,
         Downs(in, r, e, c, owed), Halves(in, c, g, w, h, k), convertStreamToDoubleWidth
  PROVE  LowerPart(in, r, e, w, h, k, owed)'
<1>1. PICK curr, temp :
        /\ curr = restored[1]
        /\ temp = IF dw.even = 0 THEN curr ELSE Word(dw.temp.bytes \o curr.bytes, curr.last)
        /\ wide' = IF dw.even = 1 \/ curr.last THEN <<temp>> ELSE <<>>
        /\ dw' = [even |-> IF dw.even = 1 \/ curr.last THEN 0 ELSE 1, temp |-> temp]
  BY DEF convertStreamToDoubleWidth
<1>2. /\ restored # <<>> /\ wide = <<>> /\ restored' = <<>>
      /\ rs' = rs /\ hw' = hw /\ narrow' = narrow /\ offset' = offset
  BY DEF convertStreamToDoubleWidth, sourceVars
<1>3. curr = in[c] /\ e = c + 1
  BY <1>1, <1>2 DEF Downs, Between
<1>4. g = w /\ Widening(in, c, g) /\ Halving(in, h, w) /\ Between(narrow, in, k, h)
  BY <1>2 DEF Halves, Wide
<1>5. Halving(in, h, w)' /\ Between(narrow, in, k, h)'
  BY <1>2, <1>4 DEF Halving, Halved, Between, Pair
<1>6. in[c].last \in BOOLEAN
  BY DEF AllGood, Good, DataWord
<1>7. Restoring(in, r, e, owed)'
  <2>1. Restoring(in, r, e, owed)
    BY DEF Downs
  <2>2. \A u : RaisedAt(in, e, u)' <=> RaisedAt(in, e, u)
    BY <1>2 DEF RaisedAt, FrontOf, Zeroes, Raised, Keep, First
  <2>3. Spills(in[e])' = Spills(in[e]) /\ (First(in, r)' <=> First(in, r))
    BY <1>2 DEF Spills, Keep, First
  <2> QED BY <1>2, <2>1, <2>2, <2>3 DEF Restoring, Restored
<1>8. Downs(in, r, e, c + 1, owed)'
  BY <1>2, <1>3, <1>7 DEF Downs, Between
<1>a. ASSUME NEW g1 \in Nat, Halves(in, c + 1, g1, w, h, k)'
      PROVE  LowerPart(in, r, e, w, h, k, owed)'
  <2>1. PICK c1 \in Nat : c1 = c + 1
    OBVIOUS
  <2>2. Downs(in, r, e, c1, owed)' /\ Halves(in, c1, g1, w, h, k)'
    BY <1>8, <1>a, <2>1
  <2> QED BY <2>2 DEF LowerPart
<1>9. CASE dw.even = 0 /\ in[c].last = TRUE
  <2>1. c = g
    BY <1>4, <1>9 DEF Widening
  <2>2. wide' = <<in[w]>> /\ dw'.even = 0
    BY <1>1, <1>3, <1>4, <1>9, <2>1
  <2>3. Widening(in, c + 1, c + 1)' /\ Wide(in, w, c + 1)'
    BY <1>4, <1>9, <2>1, <2>2 DEF Widening, Wide
  <2>4. Halves(in, c + 1, c + 1, w, h, k)' /\ c + 1 \in Nat
    BY <1>5, <2>3 DEF Halves
  <2> QED BY <1>a, <2>4
<1>10. CASE dw.even = 0 /\ in[c].last = FALSE
  <2>1. c = g
    BY <1>4, <1>10 DEF Widening
  <2>2. wide' = <<>> /\ dw'.even = 1 /\ dw'.temp = in[c]
    <3>1. ~(dw.even = 1 \/ curr.last) /\ temp = curr
      BY <1>1, <1>3, <1>10
    <3> QED BY <1>1, <1>3, <3>1
  <2>3. Widening(in, c + 1, g)' /\ Wide(in, w, g)'
    BY <1>4, <1>10, <2>1, <2>2 DEF Widening, Wide
  <2>4. Halves(in, c + 1, g, w, h, k)'
    BY <1>5, <2>3 DEF Halves
  <2> QED BY <1>a, <2>4
<1>11. CASE dw.even = 1
  <2>1. c = g + 1 /\ dw.temp = in[g] /\ in[g].last = FALSE
    BY <1>4, <1>11 DEF Widening
  <2>2. temp = Pair(in, w)
    BY <1>1, <1>3, <1>4, <1>11, <2>1 DEF Pair
  <2>3. wide' = <<Pair(in, w)>> /\ dw'.even = 0
    BY <1>1, <1>11, <2>2
  <2>4. Pair(in, w)' = Pair(in, w) /\ c + 1 = w + 2
    BY <1>4, <2>1 DEF Pair
  <2>5. Widening(in, c + 1, c + 1)' /\ Wide(in, w, c + 1)'
    BY <1>4, <2>1, <2>3, <2>4 DEF Widening, Wide
  <2>6. Halves(in, c + 1, c + 1, w, h, k)' /\ c + 1 \in Nat
    BY <1>5, <2>5 DEF Halves
  <2> QED BY <1>a, <2>6
<1> QED BY <1>4, <1>6, <1>9, <1>10, <1>11 DEF Widening

LEMMA FirstHalved ==
  ASSUME StreamAssumption, offset \in Offsets, NEW in, AllGood(in),
         NEW c \in Nat, NEW g \in Nat, NEW w \in Nat, NEW h \in Nat, NEW k \in Nat,
         Halves(in, c, g, w, h, k), halfFirst, UNCHANGED dw
  PROVE  \E w1, h1 \in Nat : Halves(in, c, g, w1, h1, k)'
<1>1. PICK curr :
        /\ curr = wide[1]
        /\ narrow' = <<Word(Take(curr.bytes, Bytes), ~(Len(curr.bytes) > Bytes))>>
        /\ hw' = [fsmState |-> IF Len(curr.bytes) > Bytes THEN "SECOND" ELSE "FIRST",
                  currWord |-> curr]
  BY DEF halfFirst
<1>2. hw.fsmState = "FIRST" /\ wide # <<>> /\ narrow = <<>> /\ wide' = <<>>
  BY DEF halfFirst
<1>3. h = w /\ k = h /\ Wide(in, w, g) /\ Widening(in, c, g)
  BY <1>2 DEF Halves, Between, Halving, Halved
<1>4. Widening(in, c, g)'
  BY <1>3 DEF Widening
<1>5. Good(in[w]) /\ in[w] \in DataWord
  BY DEF AllGood, Good
<1>6. CASE wide = <<in[w]>> /\ in[w].last = TRUE /\ g = w + 1
  <2>1. curr = in[w]
    BY <1>1, <1>6
  <2>2. ~(Len(curr.bytes) > Bytes)
    BY <1>5, <2>1, KeepIs DEF Good, DataWord
  <2>3. Take(curr.bytes, Bytes) = in[w].bytes
    <3>1. in[w].bytes \in Seq(Item) /\ Len(in[w].bytes) <= Bytes /\ Bytes \in Nat
      BY <1>5, KeepIs DEF Good, DataWord
    <3> QED BY <2>1, <3>1, TakeAll
  <2>4. narrow' = <<in[w]>>
    <3>1. PICK b, l : b = Take(curr.bytes, Bytes) /\ l = ~(Len(curr.bytes) > Bytes)
      OBVIOUS
    <3>2. b = in[w].bytes /\ l = in[w].last
      BY <1>6, <2>2, <2>3, <3>1
    <3>3. Word(b, l) = in[w]
      BY <1>5, <3>2, SameWord
    <3> QED BY <1>1, <3>1, <3>3
  <2>5. hw' \in [fsmState : {"FIRST", "SECOND"}, currWord : DataWord] /\ hw'.fsmState = "FIRST"
    BY <1>1, <1>5, <2>1, <2>2
  <2>6. Wide(in, w + 1, g)' /\ Halving(in, w + 1, w + 1)' /\ Between(narrow, in, k, w + 1)'
    BY <1>2, <1>3, <1>6, <2>4, <2>5 DEF Wide, Halving, Halved, Between
  <2> QED BY <1>4, <2>6 DEF Halves
<1>7. CASE wide = <<Pair(in, w)>> /\ in[w].last = FALSE /\ g = w + 2
  <2>1. curr = Pair(in, w) /\ More(in[w])
    BY <1>1, <1>7 DEF More
  <2>2. /\ curr \in DataWord /\ Take(curr.bytes, Bytes) = in[w].bytes
        /\ Len(curr.bytes) > Bytes
    BY <2>1, PairIs
  <2>4. narrow' = <<in[w]>>
    <3>1. PICK b, l : b = Take(curr.bytes, Bytes) /\ l = ~(Len(curr.bytes) > Bytes)
      OBVIOUS
    <3>2. b = in[w].bytes /\ l = in[w].last
      BY <1>7, <2>2, <3>1
    <3>3. Word(b, l) = in[w]
      BY <1>5, <3>2, SameWord
    <3> QED BY <1>1, <3>1, <3>3
  <2>5. /\ hw' \in [fsmState : {"FIRST", "SECOND"}, currWord : DataWord]
        /\ hw'.fsmState = "SECOND" /\ hw'.currWord = Pair(in, w)
    BY <1>1, <2>1, <2>2
  <2>6. Halved(in, w + 1, w + 2)'
    BY <1>7, <2>5 DEF Halved, Pair
  <2>7. Wide(in, w + 2, g)' /\ Between(narrow, in, k, w + 1)'
    BY <1>2, <1>3, <1>7, <2>4 DEF Wide, Between
  <2> QED BY <1>4, <2>5, <2>6, <2>7 DEF Halves, Halving
<1> QED BY <1>2, <1>3, <1>6, <1>7 DEF Wide

LEMMA SecondHalved ==
  ASSUME StreamAssumption, offset \in Offsets, NEW in, AllGood(in),
         NEW c \in Nat, NEW g \in Nat, NEW w \in Nat, NEW h \in Nat, NEW k \in Nat,
         Halves(in, c, g, w, h, k), halfSecond, UNCHANGED dw
  PROVE  Halves(in, c, g, w, w, k)'
<1>1. /\ hw.fsmState = "SECOND" /\ narrow = <<>> /\ wide' = wide
      /\ narrow' = <<Word(Drop(hw.currWord.bytes, Bytes), hw.currWord.last)>>
      /\ hw' = [hw EXCEPT !.fsmState = "FIRST"]
  BY DEF halfSecond
<1>2. PICK x \in Nat : hw.currWord = Pair(in, x) /\ h = x + 1 /\ w = x + 2 /\ More(in[x])
  BY <1>1 DEF Halves, Halving, Halved, More
<1>3. k = x + 1
  BY <1>1, <1>2 DEF Halves, Between
<1>4. /\ Drop(hw.currWord.bytes, Bytes) = in[x + 1].bytes
      /\ hw.currWord.last = in[x + 1].last
  BY <1>2, PairIs
<1>5. in[x + 1] \in DataWord
  BY DEF AllGood, Good
<1>6. narrow' = <<in[k]>>
  <2>1. Word(Drop(hw.currWord.bytes, Bytes), hw.currWord.last) = in[x + 1]
    BY <1>4, <1>5, SameWord
  <2> QED BY <1>1, <1>3, <2>1
<1>7. hw' \in [fsmState : {"FIRST", "SECOND"}, currWord : DataWord] /\ hw'.fsmState = "FIRST"
  BY <1>1 DEF Halves, Halving
<1>8. Between(narrow, in, k, w)' /\ Halving(in, w, w)'
  BY <1>2, <1>3, <1>6, <1>7 DEF Between, Halving, Halved
<1>9. Widening(in, c, g)' /\ Wide(in, w, g)'
  BY <1>1 DEF Halves, Widening, Wide, Pair
<1> QED BY <1>8, <1>9 DEF Halves

-----------------------------------------------------------------------------
(* The whole chain *)

LEMMA SameUps ==
  ASSUME NEW in, NEW n, NEW a, NEW r, NEW owed, Ups(in, n, a, r, owed),
         UNCHANGED <<source, ls, shifted, offset>>
  PROVE  Ups(in, n, a, r, owed)'
<1>1. \A k, u : RaisedAt(in, k, u) => RaisedAt(in, k, u)'
  BY SameRaised
<1>2. \A w : Spills(w)' = Spills(w) /\ Spilled(w)' = Spilled(w)
  BY DEF Spills, Spilled, Keep
<1>3. Owed(in, a, r, owed)'
  BY <1>1, <1>2 DEF Ups, Owed, Shifted
<1> QED BY <1>3 DEF Ups, Between, Raising, First

LEMMA SameDowns ==
  ASSUME NEW in, NEW r, NEW e, NEW c, NEW owed, Downs(in, r, e, c, owed),
         UNCHANGED <<rs, restored, offset>>
  PROVE  Downs(in, r, e, c, owed)'
<1>1. \A u : RaisedAt(in, e, u) => RaisedAt(in, e, u)'
  BY SameRaised
<1>2. Spills(in[e])' = Spills(in[e]) /\ (First(in, r)' <=> First(in, r))
  BY DEF Spills, Keep, First
<1>3. Restoring(in, r, e, owed)'
  BY <1>1, <1>2 DEF Downs, Restoring, Restored
<1> QED BY <1>3 DEF Downs, Between

LEMMA SameHalves ==
  ASSUME NEW in, NEW c, NEW g, NEW w, NEW h, NEW k, Halves(in, c, g, w, h, k),
         UNCHANGED <<dw, wide, hw, narrow>>
  PROVE  Halves(in, c, g, w, h, k)'
  BY DEF Halves, Widening, Wide, Halving, Halved, Between, Pair

LEMMA SameFlying ==
  ASSUME NEW in, NEW k, NEW n, Flying(in, k, n), UNCHANGED inFlight
  PROVE  Flying(in, k, n)'
  BY DEF Flying

(* No function is ahead of the one before it. *)
LEMMA InOrder ==
  ASSUME NEW in, NEW n \in Nat, NEW a \in Nat, NEW r \in Nat, NEW e \in Nat, NEW c \in Nat,
         NEW g \in Nat, NEW w \in Nat, NEW h \in Nat, NEW k \in Nat, NEW owed,
         Line(in, n, a, r, e, c, g, w, h, k, owed)
  PROVE  k <= h /\ h <= w /\ w <= g /\ g <= c /\ c <= e /\ e <= r /\ r <= a /\ a <= n
<1>1. r <= a /\ a <= n
  BY DEF Line, Ups, Between, Owed, Shifted
<1>2. c <= e /\ e <= r
  BY DEF Line, Downs, Between, Restoring, Restored
<1>3. w <= g /\ g <= c
  BY DEF Line, Halves, Widening, Wide
<1>4. k <= h /\ h <= w
  BY DEF Line, Halves, Halving, Halved, Between
<1> QED BY <1>1, <1>2, <1>3, <1>4

(* Another word behind the line changes nothing in it. *)
Agree(in, in1, n) == \A x \in Nat : x < n => in1[x] = in[x]

LEMMA AgreeRaised ==
  ASSUME NEW in, NEW in1, NEW n \in Nat, Agree(in, in1, n), NEW k \in Nat, k < n,
         NEW u, RaisedAt(in, k, u)
  PROVE  RaisedAt(in1, k, u)
<1>1. PICK front \in Seq(Item) : FrontOf(in, k, front) /\ u = Raised(front, in[k])
  BY DEF RaisedAt
<1>2. in1[k] = in[k] /\ \A x \in Nat : k = x + 1 => in1[x] = in[x]
  BY DEF Agree
<1>3. FrontOf(in1, k, front)
  BY <1>1, <1>2 DEF FrontOf, First
<1> QED BY <1>1, <1>2, <1>3 DEF RaisedAt

LEMMA AgreeFirst ==
  ASSUME NEW in, NEW in1, NEW n \in Nat, Agree(in, in1, n), NEW k \in Nat, k <= n
  PROVE  First(in1, k) <=> First(in, k)
<1>1. \A x \in Nat : k = x + 1 => in1[x] = in[x]
  BY DEF Agree
<1> QED BY <1>1 DEF First

LEMMA AgreeUps ==
  ASSUME NEW in, NEW in1, NEW n \in Nat, Agree(in, in1, n), NEW r \in Nat, NEW a \in Nat, NEW owed,
         r <= a, a <= n, Raising(in, a), Owed(in, a, r, owed)
  PROVE  Raising(in1, a) /\ Owed(in1, a, r, owed)
<1>1. \A x \in Nat : a = x + 1 => in1[x] = in[x]
  BY DEF Agree
<1>2. First(in1, a) <=> First(in, a)
  BY AgreeFirst
<1>3. Raising(in1, a)
  BY <1>1, <1>2 DEF Raising
<1>4. CASE owed = FALSE
  <2>1. Shifted(in, a, r) /\ (ls.writeRemainder = TRUE <=> a = r + 1 /\ Spills(in[r]))
    BY <1>4 DEF Owed
  <2>2. a = r + 1 => r < n /\ in1[r] = in[r]
    BY <1>1
  <2>3. Shifted(in1, a, r)
    BY <2>1, <2>2, AgreeRaised DEF Shifted
  <2>4. ls.writeRemainder = TRUE <=> a = r + 1 /\ Spills(in1[r])
    BY <2>1, <2>2
  <2>5. Owed(in1, a, r, FALSE)
    BY <2>3, <2>4 DEF Owed
  <2> QED BY <1>3, <1>4, <2>5
<1>5. CASE owed = TRUE
  <2>1. PICK x \in Nat :
          /\ r = x + 1 /\ a = r
          /\ \/ shifted = <<>> /\ ls.writeRemainder = TRUE
             \/ shifted = <<Spilled(in[x])>> /\ ls.writeRemainder = FALSE
    BY <1>5 DEF Owed
  <2>2. in1[x] = in[x]
    BY <1>1, <2>1
  <2>3. Owed(in1, a, r, TRUE)
    BY <2>1, <2>2 DEF Owed
  <2> QED BY <1>3, <1>5, <2>3
<1>6. owed = TRUE \/ owed = FALSE
  BY DEF Owed
<1> QED BY <1>3, <1>4, <1>5, <1>6

LEMMA AgreeDowns ==
  ASSUME NEW in, NEW in1, NEW n \in Nat, Agree(in, in1, n), NEW r \in Nat, NEW e \in Nat,
         NEW c \in Nat, NEW owed, r <= n, c <= e, e <= r, Downs(in, r, e, c, owed)
  PROVE  Downs(in1, r, e, c, owed)
<1>1. First(in1, r) <=> First(in, r)
  BY AgreeFirst
<1>2. r = e + 1 => e < n /\ in1[e] = in[e]
  BY DEF Agree
<1>3. ASSUME NEW u, r = e + 1, RaisedAt(in, e, u) PROVE RaisedAt(in1, e, u)
  BY <1>2, <1>3, AgreeRaised
<1>4. Restoring(in1, r, e, owed)
  BY <1>1, <1>2, <1>3 DEF Downs, Restoring, Restored
<1>5. e = c + 1 => in1[c] = in[c]
  BY DEF Agree
<1>6. Between(restored, in1, c, e)
  BY <1>5 DEF Downs, Between
<1> QED BY <1>4, <1>6 DEF Downs

LEMMA AgreeHalves ==
  ASSUME NEW in, NEW in1, NEW n \in Nat, Agree(in, in1, n), NEW c \in Nat, NEW g \in Nat,
         NEW w \in Nat, NEW h \in Nat, NEW k \in Nat, c <= n, k <= h, h <= w, w <= g, g <= c,
         Halves(in, c, g, w, h, k)
  PROVE  Halves(in1, c, g, w, h, k)
<1>1. c = g + 1 => in1[g] = in[g]
  BY DEF Agree
<1>2. Widening(in1, c, g)
  BY <1>1 DEF Halves, Widening
<1>3. /\ g = w + 1 => in1[w] = in[w]
      /\ g = w + 2 => in1[w] = in[w] /\ in1[w + 1] = in[w + 1]
  BY DEF Agree
<1>4. Wide(in1, w, g)
  BY <1>3 DEF Halves, Wide, Pair
<1>5. \A x \in Nat : w = x + 2 => in1[x] = in[x] /\ in1[x + 1] = in[x + 1]
  BY DEF Agree
<1>6. Halving(in1, h, w)
  BY <1>5 DEF Halves, Halving, Halved, Pair
<1>7. h = k + 1 => in1[k] = in[k]
  BY DEF Agree
<1>8. Between(narrow, in1, k, h)
  BY <1>7 DEF Halves, Between
<1> QED BY <1>2, <1>4, <1>6, <1>8 DEF Halves

-----------------------------------------------------------------------------
(* The steps *)

LEMMA LineStart ==
  ASSUME StreamAssumption, Init
  PROVE  StreamInv
<1>1. PICK v : v = Word(<<<<>>>>, TRUE)
  OBVIOUS
<1>2. v \in DataWord /\ Good(v)
  <2>1. <<<<>>>> \in Seq(Item) /\ Len(<<<<>>>>) = 1
    BY DEF Item
  <2>2. v \in DataWord /\ v.bytes = <<<<>>>> /\ v.last = TRUE
    BY <1>1, <2>1, WordIs
  <2>3. Bytes \in Nat \ {0}
    BY KeepIs DEF Init
  <2> QED BY <2>1, <2>2, <2>3 DEF Good
<1>3. PICK in : in = [x \in Nat |-> v]
  OBVIOUS
<1>4. in \in [Nat -> DataWord] /\ AllGood(in)
  BY <1>2, <1>3 DEF AllGood
<1>5. NoWord \in DataWord
  BY DEF NoWord, Word, DataWord, Item
<1>6. First(in, 0)
  BY DEF First
<1>7. Ups(in, 0, 0, 0, FALSE)
  <2>1. /\ source = <<>> /\ shifted = <<>>
        /\ ls \in [firstWord : BOOLEAN, writeRemainder : BOOLEAN, prevWord : DataWord]
        /\ ls.firstWord = TRUE /\ ls.writeRemainder = FALSE
    BY <1>5 DEF Init
  <2>2. Raising(in, 0)
    BY <1>6, <2>1 DEF Raising
  <2> QED BY <2>1, <2>2 DEF Ups, Between, Owed, Shifted
<1>8. Downs(in, 0, 0, 0, FALSE)
  <2>1. /\ rs \in [fsmState : {"PKG", "REMAINDER"}, firstWord : BOOLEAN, prevWord : DataWord]
        /\ rs.fsmState = "PKG" /\ rs.firstWord = TRUE /\ restored = <<>>
    BY <1>5 DEF Init
  <2> QED BY <1>6, <2>1 DEF Downs, Between, Restoring, Restored
<1>9. Halves(in, 0, 0, 0, 0, 0)
  <2>1. /\ hw \in [fsmState : {"FIRST", "SECOND"}, currWord : DataWord] /\ hw.fsmState = "FIRST"
        /\ dw.even = 0 /\ wide = <<>> /\ narrow = <<>>
    BY <1>5 DEF Init
  <2> QED BY <2>1 DEF Halves, Widening, Wide, Halving, Halved, Between
<1>10. Flying(in, 0, 0)
  BY DEF Init, Flying
<1>11. offset \in Offsets /\ offered = 0
  BY DEF Init
<1>12. Line(in, 0, 0, 0, 0, 0, 0, 0, 0, 0, FALSE)
  BY <1>7, <1>8, <1>9, <1>10 DEF Line
<1>13. InLine(in, 0)
  BY <1>12 DEF InLine, EndOfLine
<1> QED BY <1>4, <1>11, <1>13 DEF StreamInv

LEMMA NextLine ==
  ASSUME NEW in \in [Nat -> DataWord], NEW n \in Nat, AllGood(in), InLine(in, n)',
         offset' \in Offsets, offered' = n
  PROVE  StreamInv'
<1>1. AllGood(in)' /\ in \in [Nat -> DataWord]'
  BY DEF AllGood, Good, DataWord, Item
<1>2. offset' \in Offsets' /\ n \in Nat' /\ (offered = n)'
  OBVIOUS
<1> QED BY <1>1, <1>2, Zenon DEF StreamInv

(* A word is offered. *)
LEMMA OfferKeeps ==
  ASSUME StreamAssumption, StreamInv, NEW n \in 1 .. Bytes, NEW last \in BOOLEAN, Offer(n, last)
  PROVE  /\ StreamInv'
         /\ output' = output /\ \E f \in Words : inFlight' = Append(inFlight, f)
<1>0. PICK in \in [Nat -> DataWord], N \in Nat : offered = N /\ AllGood(in) /\ InLine(in, N)
  BY DEF StreamInv
<1>a. PICK a \in Nat, r \in Nat, e \in Nat, c \in Nat, owed \in BOOLEAN :
        EndOfLine(in, N, a, r, e, c, owed)
  BY <1>0 DEF InLine
<1>1. PICK g \in Nat, w \in Nat, h \in Nat, k \in Nat : Line(in, N, a, r, e, c, g, w, h, k, owed)
  BY <1>a DEF EndOfLine
<1>2. N = offered /\ AllGood(in)
  BY <1>0
<1>3. PICK v :
        /\ v = Piece(N, n, last)
        /\ source' = <<v>> /\ inFlight' = Append(inFlight, v)
  BY <1>2 DEF Offer
<1>4. /\ source = <<>> /\ N < MaxWords /\ (last \/ n = Bytes) /\ offered' = N + 1
      /\ UNCHANGED <<shifted, restored, wide, narrow, other, offset, ls, rs, dw, hw, merge_pref,
                     output>>
  BY <1>2 DEF Offer
<1>5. offset \in Offsets /\ Bytes \in Nat \ {0} /\ n \in Nat /\ n >= 1 /\ n <= Bytes
  BY KeepIs DEF StreamInv
<1>6. v \in DataWord /\ Good(v)
  <2>1. PICK b : b = [i \in 1 .. n |-> <<N, i>>]
    OBVIOUS
  <2>2. b \in [1 .. n -> Item]
    BY <2>1, <1>5 DEF Item
  <2>3. b \in Seq(Item) /\ Len(b) = n
    BY <1>5, <2>1, <2>2
  <2>4. v \in DataWord /\ v.bytes = b /\ v.last = last
    BY <1>3, <2>1, <2>3, WordIs DEF Piece
  <2> QED BY <1>4, <1>5, <2>3, <2>4 DEF Good
<1>7. v \in Words
  <2>1. N \in 0 .. MaxWords - 1
    BY <1>4 DEF StreamAssumption
  <2> QED BY <1>3, <2>1 DEF Words
<1>8. k <= h /\ h <= w /\ w <= g /\ g <= c /\ c <= e /\ e <= r /\ r <= a /\ a <= N
  BY <1>1, <1>2, InOrder
<1>9. Ups(in, N, a, r, owed) /\ Downs(in, r, e, c, owed) /\ Halves(in, c, g, w, h, k)
      /\ Flying(in, k, N)
  BY <1>1, <1>2 DEF Line
<1>10. a = N
  BY <1>4, <1>9 DEF Ups, Between
<1>11. PICK in1 : in1 = [in EXCEPT ![N] = v]
  OBVIOUS
<1>12. in1 \in [Nat -> DataWord] /\ in1[N] = v /\ Agree(in, in1, N)
  BY <1>6, <1>11 DEF Agree
<1>13. AllGood(in1)
  BY <1>2, <1>6, <1>11 DEF AllGood
<1>14. Raising(in1, a) /\ Owed(in1, a, r, owed)
  BY <1>8, <1>9, <1>12, AgreeUps DEF Ups
<1>15. r <= N /\ c <= N
  BY <1>8
<1>16. Downs(in1, r, e, c, owed)
  BY <1>8, <1>9, <1>12, <1>15, AgreeDowns
<1>17. Halves(in1, c, g, w, h, k)
  BY <1>8, <1>9, <1>12, <1>15, AgreeHalves
<1>18. Raising(in1, a)' /\ Owed(in1, a, r, owed)'
  <2>1. Ups(in1, a, a, r, owed)
    BY <1>4, <1>14 DEF Ups, Between
  <2>2. Raising(in1, a)'
    BY <1>4, <1>14 DEF Raising, First
  <2>3. \A x, u : RaisedAt(in1, x, u) => RaisedAt(in1, x, u)'
    BY <1>4, SameRaised
  <2>4. \A x : Spills(x)' = Spills(x) /\ Spilled(x)' = Spilled(x)
    BY <1>4 DEF Spills, Spilled, Keep
  <2>5. Owed(in1, a, r, owed)'
    BY <1>4, <1>14, <2>3, <2>4 DEF Owed, Shifted
  <2> QED BY <2>2, <2>5
<1>19. Ups(in1, N + 1, a, r, owed)'
  BY <1>3, <1>10, <1>12, <1>18 DEF Ups, Between
<1>20. Downs(in1, r, e, c, owed)'
  BY <1>4, <1>16, SameDowns
<1>21. Halves(in1, c, g, w, h, k)'
  BY <1>4, <1>17, SameHalves
<1>22. Flying(in1, k, N + 1)'
  <2>1. PICK m \in Nat : m = Len(inFlight) /\ N = k + m /\ inFlight \in Seq(DataWord)
    BY <1>9 DEF Flying
  <2>2. /\ inFlight' \in Seq(DataWord) /\ Len(inFlight') = m + 1
        /\ \A i \in 1 .. m : inFlight'[i] = inFlight[i] /\ inFlight'[m + 1] = v
    BY <1>3, <1>6, <2>1
  <2>3. inFlight'[m + 1] = v
    BY <1>3, <1>6, <2>1
  <2>4. ASSUME NEW i \in 1 .. m + 1 PROVE inFlight'[i] = in1[k + (i - 1)]
    <3>1. CASE i = m + 1
      <4>1. k + (i - 1) = N
        BY <2>1, <3>1
      <4> QED BY <1>12, <2>3, <3>1, <4>1
    <3>2. CASE i # m + 1
      <4>1. i \in 1 .. m /\ k + (i - 1) \in Nat /\ k + (i - 1) < N
        BY <2>1, <3>2
      <4>2. in1[k + (i - 1)] = in[k + (i - 1)]
        BY <1>12, <4>1 DEF Agree
      <4>3. inFlight[i] = in[k + (i - 1)]
        BY <1>9, <2>1, <4>1 DEF Flying
      <4> QED BY <2>2, <4>1, <4>2, <4>3
    <3> QED BY <3>1, <3>2
  <2>5. N + 1 = k + Len(inFlight')
    BY <2>1, <2>2
  <2> QED BY <2>2, <2>4, <2>5 DEF Flying
<1>23. Line(in1, N + 1, a, r, e, c, g, w, h, k, owed)'
  BY <1>19, <1>20, <1>21, <1>22 DEF Line
<1>24. StreamInv'
  <2>1. PICK m \in Nat : m = N + 1
    OBVIOUS
  <2>2. Line(in1, m, a, r, e, c, g, w, h, k, owed)' /\ offered' = m /\ offset' \in Offsets
    BY <1>4, <1>5, <1>23, <2>1
  <2>3. EndOfLine(in1, m, a, r, e, c, owed)'
    BY <2>2, Zenon DEF EndOfLine
  <2>4. InLine(in1, m)'
    BY <2>3 DEF InLine
  <2> QED BY <1>12, <1>13, <2>2, <2>4, NextLine
<1> QED BY <1>3, <1>4, <1>7, <1>24

(* A word goes from one function to the next. *)
LEMMA UpKeeps ==
  ASSUME StreamAssumption, offset \in Offsets, NEW in, AllGood(in), NEW n \in Nat, InLine(in, n),
         lshiftWordByOctet
  PROVE  InLine(in, n)'
<1>1. PICK a \in Nat, r \in Nat, e \in Nat, c \in Nat, owed \in BOOLEAN :
        EndOfLine(in, n, a, r, e, c, owed)
  BY DEF InLine
<1>2. PICK g \in Nat, w \in Nat, h \in Nat, k \in Nat : Line(in, n, a, r, e, c, g, w, h, k, owed)
  BY <1>1 DEF EndOfLine
<1>3. UNCHANGED <<restored, wide, narrow, offset, rs, dw, hw, inFlight>>
  BY DEF lshiftWordByOctet, sourceVars, mergeVars
<1>4. PICK a1 \in Nat : Ups(in, n, a1, r, owed)'
  <2>1. Ups(in, n, a, r, owed) /\ UNCHANGED offset
    BY <1>2, <1>3 DEF Line
  <2>2. CASE lshiftRemainder
    BY <2>1, <2>2, RemainderRaised
  <2>3. CASE lshiftRead
    <3>1. Ups(in, n, a + 1, r, owed)'
      BY <2>1, <2>3, WordRaised
    <3> QED BY <3>1
  <2> QED BY <2>2, <2>3 DEF lshiftWordByOctet
<1>5. Downs(in, r, e, c, owed)'
  BY <1>2, <1>3, SameDowns DEF Line
<1>6. Halves(in, c, g, w, h, k)' /\ Flying(in, k, n)'
  BY <1>2, <1>3, SameHalves, SameFlying DEF Line
<1>7. Line(in, n, a1, r, e, c, g, w, h, k, owed)'
  BY <1>4, <1>5, <1>6 DEF Line
<1>8. EndOfLine(in, n, a1, r, e, c, owed)'
  BY <1>7, Zenon DEF EndOfLine
<1> QED BY <1>8 DEF InLine

LEMMA DownKeeps ==
  ASSUME StreamAssumption, offset \in Offsets, NEW in, AllGood(in), NEW n \in Nat, InLine(in, n),
         rshiftWordByOctet
  PROVE  InLine(in, n)'
<1>1. PICK a \in Nat, r \in Nat, e \in Nat, c \in Nat, owed \in BOOLEAN :
        EndOfLine(in, n, a, r, e, c, owed)
  BY DEF InLine
<1>2. PICK g \in Nat, w \in Nat, h \in Nat, k \in Nat : Line(in, n, a, r, e, c, g, w, h, k, owed)
  BY <1>1 DEF EndOfLine
<1>3. UNCHANGED <<source, wide, narrow, offset, ls, dw, hw, inFlight>>
  BY DEF rshiftWordByOctet, sourceVars, mergeVars
<1>4. PICK r1 \in Nat, e1 \in Nat, o1 \in BOOLEAN :
        Ups(in, n, a, r1, o1)' /\ Downs(in, r1, e1, c, o1)'
  <2>1. Ups(in, n, a, r, owed) /\ Downs(in, r, e, c, owed) /\ UNCHANGED <<source, ls, offset>>
    BY <1>2, <1>3 DEF Line
  <2>2. CASE rshiftRemainder
    <3>1. UNCHANGED shifted
      BY <2>2 DEF rshiftRemainder
    <3>2. Ups(in, n, a, r, owed)'
      BY <2>1, <3>1, SameUps
    <3>3. PICK e1 \in Nat : e1 = e + 1
      OBVIOUS
    <3>4. Downs(in, r, e1, c, owed)'
      BY <2>1, <2>2, <3>3, RemainderRestored
    <3> QED BY <3>2, <3>4
  <2>3. CASE rshiftRead
    BY <2>1, <2>3, WordRestored, SMTT(30)
  <2> QED BY <2>2, <2>3 DEF rshiftWordByOctet
<1>5. Halves(in, c, g, w, h, k)' /\ Flying(in, k, n)'
  BY <1>2, <1>3, SameHalves, SameFlying DEF Line
<1>6. Line(in, n, a, r1, e1, c, g, w, h, k, o1)'
  BY <1>4, <1>5 DEF Line
<1>7. EndOfLine(in, n, a, r1, e1, c, o1)'
  BY <1>6, Zenon DEF EndOfLine
<1> QED BY <1>7 DEF InLine

LEMMA WideKeeps ==
  ASSUME StreamAssumption, offset \in Offsets, NEW in, AllGood(in), NEW n \in Nat, InLine(in, n),
         convertStreamToDoubleWidth
  PROVE  InLine(in, n)'
<1>1. PICK a \in Nat, r \in Nat, e \in Nat, c \in Nat, owed \in BOOLEAN :
        EndOfLine(in, n, a, r, e, c, owed)
  BY DEF InLine
<1>2. PICK g \in Nat, w \in Nat, h \in Nat, k \in Nat : Line(in, n, a, r, e, c, g, w, h, k, owed)
  BY <1>1 DEF EndOfLine
<1>3. UNCHANGED <<source, shifted, offset, ls, inFlight>>
  BY DEF convertStreamToDoubleWidth, sourceVars, mergeVars
<1>4. Downs(in, r, e, c, owed) /\ Halves(in, c, g, w, h, k)
  BY <1>2 DEF Line
<1>5. PICK c1 \in Nat, g1 \in Nat : Downs(in, r, e, c1, owed)' /\ Halves(in, c1, g1, w, h, k)'
  <2>1. LowerPart(in, r, e, w, h, k, owed)'
    BY <1>4, Widened
  <2> QED BY <2>1 DEF LowerPart
<1>6. Ups(in, n, a, r, owed)' /\ Flying(in, k, n)'
  BY <1>2, <1>3, SameUps, SameFlying DEF Line
<1>7. Line(in, n, a, r, e, c1, g1, w, h, k, owed)'
  BY <1>5, <1>6 DEF Line
<1>8. EndOfLine(in, n, a, r, e, c1, owed)'
  BY <1>7, Zenon DEF EndOfLine
<1> QED BY <1>8 DEF InLine

LEMMA HalfKeeps ==
  ASSUME StreamAssumption, offset \in Offsets, NEW in, AllGood(in), NEW n \in Nat, InLine(in, n),
         convertStreamToHalfWidth
  PROVE  InLine(in, n)'
<1>1. PICK a \in Nat, r \in Nat, e \in Nat, c \in Nat, owed \in BOOLEAN :
        EndOfLine(in, n, a, r, e, c, owed)
  BY DEF InLine
<1>2. PICK g \in Nat, w \in Nat, h \in Nat, k \in Nat : Line(in, n, a, r, e, c, g, w, h, k, owed)
  BY <1>1 DEF EndOfLine
<1>3. UNCHANGED <<source, shifted, restored, offset, ls, rs, dw, inFlight>>
  BY DEF convertStreamToHalfWidth, sourceVars, mergeVars
<1>4. Halves(in, c, g, w, h, k) /\ UNCHANGED dw
  BY <1>2, <1>3 DEF Line
<1>5. PICK w1 \in Nat, h1 \in Nat : Halves(in, c, g, w1, h1, k)'
  <2>1. CASE halfFirst
    BY <1>4, <2>1, FirstHalved
  <2>2. CASE halfSecond
    BY <1>4, <2>2, SecondHalved
  <2> QED BY <2>1, <2>2 DEF convertStreamToHalfWidth
<1>6. Ups(in, n, a, r, owed)' /\ Downs(in, r, e, c, owed)' /\ Flying(in, k, n)'
  BY <1>2, <1>3, SameUps, SameDowns, SameFlying DEF Line
<1>7. Line(in, n, a, r, e, c, g, w1, h1, k, owed)'
  BY <1>5, <1>6 DEF Line
<1>8. EndOfLine(in, n, a, r, e, c, owed)'
  BY <1>7, Zenon DEF EndOfLine
<1> QED BY <1>8 DEF InLine

(* What leaves the chain is the word that has waited longest. *)
LEMMA ReadKeeps ==
  ASSUME StreamAssumption, offset \in Offsets, NEW in, AllGood(in), NEW n \in Nat, InLine(in, n),
         ReadIn1, UNCHANGED <<source, shifted, restored, wide, offset, ls, rs, dw, hw>>
  PROVE  /\ InLine(in, n)'
         /\ inFlight # <<>> /\ output' = Head(inFlight) /\ inFlight' = Tail(inFlight)
<1>1. PICK a \in Nat, r \in Nat, e \in Nat, c \in Nat, owed \in BOOLEAN :
        EndOfLine(in, n, a, r, e, c, owed)
  BY DEF InLine
<1>2. PICK g \in Nat, w \in Nat, h \in Nat, k \in Nat : Line(in, n, a, r, e, c, g, w, h, k, owed)
  BY <1>1 DEF EndOfLine
<1>3. /\ narrow # <<>> /\ narrow' = <<>>
      /\ output' = narrow[1] /\ inFlight' = Tail(inFlight)
  BY DEF ReadIn1
<1>4. PICK k1 \in Nat : k1 = k + 1
  OBVIOUS
<1>5. narrow = <<in[k]>> /\ h = k1
  BY <1>2, <1>3, <1>4 DEF Line, Halves, Between
<1>6. k < n
  <2>1. k <= h /\ h <= w /\ w <= g /\ g <= c /\ c <= e /\ e <= r /\ r <= a /\ a <= n
    BY <1>2, InOrder
  <2> QED BY <1>4, <1>5, <2>1
<1>7. PICK m \in Nat : /\ m = Len(inFlight) /\ n = k + m /\ inFlight \in Seq(DataWord)
                       /\ \A i \in 1 .. m : inFlight[i] = in[k + (i - 1)]
  BY <1>2 DEF Line, Flying
<1>8. m >= 1 /\ inFlight # <<>>
  BY <1>6, <1>7
<1>9. inFlight[1] = in[k]
  <2>1. 1 \in 1 .. m /\ k + (1 - 1) = k
    BY <1>8
  <2> QED BY <1>7, <2>1
<1>10. output' = Head(inFlight)
  BY <1>3, <1>5, <1>7, <1>8, <1>9
<1>11. Flying(in, k1, n)'
  <2>1. PICK q : q = Tail(inFlight)
    OBVIOUS
  <2>2. q \in Seq(DataWord) /\ Len(q) = m - 1 /\ \A i \in 1 .. m - 1 : q[i] = inFlight[i + 1]
    BY <1>7, <1>8, <2>1
  <2>3. ASSUME NEW i \in 1 .. m - 1 PROVE q[i] = in[k1 + (i - 1)]
    <3>1. i + 1 \in 1 .. m /\ k + ((i + 1) - 1) = k1 + (i - 1)
      BY <1>4, <2>3
    <3>2. inFlight[i + 1] = in[k + ((i + 1) - 1)]
      BY <1>7, <3>1
    <3> QED BY <2>2, <3>1, <3>2
  <2>4. n = k1 + Len(q)
    BY <1>4, <1>7, <2>2
  <2>5. inFlight' = q
    BY <1>3, <2>1
  <2> QED BY <2>2, <2>3, <2>4, <2>5 DEF Flying
<1>12. Halves(in, c, g, w, h, k1)'
  BY <1>2, <1>3, <1>5 DEF Line, Halves, Widening, Wide, Halving, Halved, Between, Pair
<1>13. Ups(in, n, a, r, owed)' /\ Downs(in, r, e, c, owed)'
  BY <1>2, SameUps, SameDowns DEF Line
<1>14. Line(in, n, a, r, e, c, g, w, h, k1, owed)'
  BY <1>11, <1>12, <1>13 DEF Line
<1>15. EndOfLine(in, n, a, r, e, c, owed)'
  BY <1>14, Zenon DEF EndOfLine
<1>16. InLine(in, n)'
  BY <1>15 DEF InLine
<1> QED BY <1>3, <1>8, <1>10, <1>16

(* The other stream is none of the chain's business. *)
LEMMA OtherKeeps ==
  ASSUME NEW in, NEW n \in Nat, InLine(in, n),
         UNCHANGED <<source, shifted, restored, wide, narrow, offset, ls, rs, dw, hw, inFlight>>
  PROVE  InLine(in, n)'
<1>1. PICK a \in Nat, r \in Nat, e \in Nat, c \in Nat, owed \in BOOLEAN :
        EndOfLine(in, n, a, r, e, c, owed)
  BY DEF InLine
<1>2. PICK g \in Nat, w \in Nat, h \in Nat, k \in Nat : Line(in, n, a, r, e, c, g, w, h, k, owed)
  BY <1>1 DEF EndOfLine
<1>3. Ups(in, n, a, r, owed)' /\ Downs(in, r, e, c, owed)'
  BY <1>2, SameUps, SameDowns DEF Line
<1>4. Halves(in, c, g, w, h, k)' /\ Flying(in, k, n)'
  BY <1>2, SameHalves, SameFlying DEF Line
<1>5. Line(in, n, a, r, e, c, g, w, h, k, owed)'
  BY <1>3, <1>4 DEF Line
<1>6. EndOfLine(in, n, a, r, e, c, owed)'
  BY <1>5, Zenon DEF EndOfLine
<1> QED BY <1>6 DEF InLine

-----------------------------------------------------------------------------
(* The specification *)

(* Every step keeps the line, and is a step of the queue or none. *)
QueueStep == [Queue!Next]_<<inFlight, output>>

LEMMA MergeKeeps ==
  ASSUME StreamAssumption, offset \in Offsets, NEW in, AllGood(in), NEW n \in Nat, InLine(in, n),
         fair_merger
  PROVE  InLine(in, n)' /\ QueueStep
<1>1. UNCHANGED <<source, shifted, restored, wide, offset, ls, rs, dw, hw>>
  BY DEF fair_merger, sourceVars
<1>2. ReadIn0 \/ ReadIn1
  BY DEF fair_merger
<1>3. CASE ReadIn0
  <2>1. UNCHANGED <<narrow, inFlight, output>>
    BY <1>3 DEF ReadIn0
  <2>2. InLine(in, n)'
    BY <1>1, <2>1, OtherKeeps
  <2> QED BY <2>1, <2>2 DEF QueueStep
<1>4. CASE ReadIn1
  <2>1. InLine(in, n)' /\ inFlight # <<>> /\ output' = Head(inFlight) /\ inFlight' = Tail(inFlight)
    BY <1>1, <1>4, ReadKeeps
  <2>2. Queue!Send
    BY <2>1 DEF Queue!Send, Same
  <2> QED BY <2>1, <2>2 DEF QueueStep, Queue!Next
<1> QED BY <1>2, <1>3, <1>4

LEMMA StreamStep ==
  ASSUME StreamAssumption, StreamInv, [Next]_vars
  PROVE  StreamInv' /\ QueueStep
<1>1. PICK in \in [Nat -> DataWord], n \in Nat : offered = n /\ AllGood(in) /\ InLine(in, n)
  BY DEF StreamInv
<1>2. offset \in Offsets
  BY DEF StreamInv
<1>3. ASSUME InLine(in, n)', UNCHANGED <<offered, offset>> PROVE StreamInv'
  <2>1. offset' \in Offsets /\ offered' = n
    BY <1>1, <1>2, <1>3
  <2> QED BY <1>1, <1>3, <2>1, NextLine
<1>4. ASSUME UNCHANGED <<inFlight, output>> PROVE QueueStep
  BY <1>4 DEF QueueStep
<1>5. ASSUME NEW m \in 1 .. Bytes, NEW last \in BOOLEAN, Offer(m, last)
      PROVE  StreamInv' /\ QueueStep
  <2>1. StreamInv' /\ output' = output
    BY <1>5, OfferKeeps
  <2>2. PICK f \in Words : inFlight' = Append(inFlight, f)
    BY <1>5, OfferKeeps
  <2>3. Queue!Accept(f)
    BY <2>1, <2>2 DEF Queue!Accept
  <2> QED BY <2>1, <2>2, <2>3 DEF QueueStep, Queue!Next
<1>6. CASE OfferOther
  <2>1. UNCHANGED <<source, shifted, restored, wide, narrow, offset, ls, rs, dw, hw, inFlight>>
        /\ UNCHANGED <<offered, offset>> /\ UNCHANGED <<inFlight, output>>
    BY <1>6 DEF OfferOther, sourceVars
  <2>2. InLine(in, n)'
    BY <1>1, <2>1, OtherKeeps
  <2> QED BY <1>3, <1>4, <2>1, <2>2
<1>7. CASE lshiftWordByOctet
  <2>1. UNCHANGED <<offered, offset>> /\ UNCHANGED <<inFlight, output>>
    BY <1>7 DEF lshiftWordByOctet, sourceVars, mergeVars
  <2>2. InLine(in, n)'
    BY <1>1, <1>2, <1>7, UpKeeps
  <2> QED BY <1>3, <1>4, <2>1, <2>2
<1>8. CASE rshiftWordByOctet
  <2>1. UNCHANGED <<offered, offset>> /\ UNCHANGED <<inFlight, output>>
    BY <1>8 DEF rshiftWordByOctet, sourceVars, mergeVars
  <2>2. InLine(in, n)'
    BY <1>1, <1>2, <1>8, DownKeeps
  <2> QED BY <1>3, <1>4, <2>1, <2>2
<1>9. CASE convertStreamToDoubleWidth
  <2>1. UNCHANGED <<offered, offset>> /\ UNCHANGED <<inFlight, output>>
    BY <1>9 DEF convertStreamToDoubleWidth, sourceVars, mergeVars
  <2>2. InLine(in, n)'
    BY <1>1, <1>2, <1>9, WideKeeps
  <2> QED BY <1>3, <1>4, <2>1, <2>2
<1>10. CASE convertStreamToHalfWidth
  <2>1. UNCHANGED <<offered, offset>> /\ UNCHANGED <<inFlight, output>>
    BY <1>10 DEF convertStreamToHalfWidth, sourceVars, mergeVars
  <2>2. InLine(in, n)'
    BY <1>1, <1>2, <1>10, HalfKeeps
  <2> QED BY <1>3, <1>4, <2>1, <2>2
<1>11. CASE fair_merger
  <2>1. UNCHANGED <<offered, offset>>
    BY <1>11 DEF fair_merger, sourceVars
  <2>2. InLine(in, n)' /\ QueueStep
    BY <1>1, <1>2, <1>11, MergeKeeps
  <2> QED BY <1>3, <2>1, <2>2
<1>12. CASE UNCHANGED vars
  <2>1. UNCHANGED <<source, shifted, restored, wide, narrow, offset, ls, rs, dw, hw, inFlight>>
        /\ UNCHANGED <<offered, offset>> /\ UNCHANGED <<inFlight, output>>
    BY <1>12 DEF vars, sourceVars, mergeVars
  <2>2. InLine(in, n)'
    BY <1>1, <2>1, OtherKeeps
  <2> QED BY <1>3, <1>4, <2>1, <2>2
<1> QED BY <1>5, <1>6, <1>7, <1>8, <1>9, <1>10, <1>11, <1>12 DEF Next

(* The inductive invariant: at any time, what stands in the streams and in *)
(* the static variables of lshiftWordByOctet(), rshiftWordByOctet(),       *)
(* convertStreamToDoubleWidth() and convertStreamToHalfWidth() is what     *)
(* the offered words from some position on make of it, and the word at     *)
(* the end of the chain is the one that has waited longest.                *)
THEOREM StreamsInLine == Spec => []StreamInv
<1>1. StreamAssumption
  BY StreamAssumption
<1>2. Init => StreamInv
  BY <1>1, LineStart
<1>3. StreamInv /\ [Next]_vars => StreamInv'
  BY <1>1, StreamStep
<1> QED BY <1>2, <1>3, PTL DEF Spec

(* The chain of the four functions and the merger implements a queue of    *)
(* words: for every width of a word, every offset from 1 to one less than  *)
(* a word and any number of words, what comes out are the words that went  *)
(* in, once each, in order, with their bytes and their last.               *)
THEOREM ChainIsAQueue == Spec => PacketsUnchanged
<1>1. StreamAssumption
  BY StreamAssumption
<1>2. Init => Queue!Init
  BY DEF Init, Queue!Init
<1>3. StreamInv /\ [Next]_vars => [Queue!Next]_<<inFlight, output>>
  BY <1>1, StreamStep DEF QueueStep
<1>4. Spec => []StreamInv
  BY StreamsInLine
<1> QED BY <1>2, <1>3, <1>4, PTL DEF Spec, PacketsUnchanged, Queue!Spec
=============================================================================
