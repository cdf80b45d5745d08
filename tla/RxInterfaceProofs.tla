------------------------- MODULE RxInterfaceProofs -------------------------
(***************************************************************************)
(* Proofs about RxInterface.  That the FIFOs suffice needs two arguments:  *)
(* how many words can still come in each state of the write FSM, and that  *)
(* each command in the command FIFO stands for a whole packet of two words *)
(* or more in the data FIFO.  The second is the layout of the data FIFO in *)
(* packets, which also says which word the read FSM hands on.              *)
(***************************************************************************)
EXTENDS RxInterface, SequenceTheorems, TLAPS

WordSet == [valid : BOOLEAN, frame : Nat, pos : Nat, last : BOOLEAN, eof : BOOLEAN,
            good : BOOLEAN]
CmdSet == [valid : BOOLEAN, crc : BOOLEAN]

RxTypes ==
  /\ frame \in Nat /\ pos \in Nat /\ good \in BOOLEAN
  /\ force_tlast_to_fifo \in BOOLEAN /\ wr_en \in BOOLEAN
  /\ state_wr \in {"IDLE_WR", "DA_DECODE", "BEGIN_WRITE", "DROP_FRAME"}
  /\ state_rd \in {"IDLE_RD", "PREP_READ_1", "PREP_READ_2", "BEGIN_READ"}
  /\ cmd_in \in CmdSet /\ cmd_out \in CmdSet /\ cmdFifo \in Seq(CmdSet)
  /\ dataFifo \in Seq(WordSet) /\ handed \in WordSet

(* The word of the last cycle: none, one that the frame goes on after, or  *)
(* its last one.                                                           *)
Arrived ==
  \/ axi_r = NoWord
  \/ axi_r = MacWord(frame, pos, FALSE, good) /\ pos > 0
  \/ pos = 0 /\ \E n \in Nat : n >= MinWords /\ axi_r = MacWord(frame, n, TRUE, good)

(* Where the write FSM is in the frame.  In IDLE_WR the last word of the   *)
(* frame may still be on its way into the FIFO, with its command.          *)
WriteFsmInv ==
  /\ state_wr = "IDLE_WR" => pos = 0 /\ (wr_en <=> axi_r.valid)
  /\ state_wr = "DA_DECODE" => ~wr_en /\ axi_r.valid /\ pos = 1 /\ ~force_tlast_to_fifo
  /\ state_wr = "BEGIN_WRITE" => ~wr_en /\ pos > 0 /\ (axi_r.valid => pos > 1)

(* The space that is left for the words that can still come. *)
Room ==
  /\ Len(dataFifo) <= FifoDepth
  /\ state_wr = "DA_DECODE" => Len(dataFifo) + THRESHOLD <= FifoDepth + 1
  /\ state_wr = "BEGIN_WRITE" /\ ~force_tlast_to_fifo => Len(dataFifo) + THRESHOLD <= FifoDepth + 1
  /\ state_wr = "BEGIN_WRITE" => Len(dataFifo) + THRESHOLD <= FifoDepth + 2
  /\ state_wr = "IDLE_WR" /\ axi_r.valid => Len(dataFifo) + THRESHOLD <= FifoDepth + 2

(* The packets of the n words of q: packet j in 0 .. m - 1 ends with word e[j + 1] and    *)
(* begins behind e[j]; -e[0] words of the first one have been read.  It    *)
(* holds the words of frame f[j], whose goodness is g[j]; if its crc c[j]  *)
(* lets it pass (7series) it is a whole good frame.  Behind the packets    *)
(* are t words of the frame fr that is being stored.                       *)
Packets(q, n, m, e, f, g, c, t, fr, gd) ==
  /\ e[0] <= 0 /\ (m = 0 => e[0] = 0) /\ (m > 0 => e[1] >= 1)
  /\ n = e[m] + t
  /\ \A i, j \in 0 .. m : i < j => e[i] + 2 * (j - i) <= e[j]
  /\ \A j \in 1 .. m : q[e[j]].last
  /\ \A j \in 0 .. m - 1 : \A i \in 1 .. e[j + 1] - 1 :
       e[j] < i => q[i] = MacWord(f[j], i - e[j], FALSE, g[j])
  /\ \A j \in 0 .. m - 1 :
       TuserGood /\ c[j] => g[j] /\ q[e[j + 1]] = MacWord(f[j], e[j + 1] - e[j], TRUE, TRUE)
  /\ \A i \in e[m] + 1 .. n : q[i] = MacWord(fr, i - e[m], FALSE, gd)

(* The words of the current frame that are in the data FIFO already. *)
Stored ==
  IF state_wr = "DROP_FRAME" THEN 0 ELSE IF axi_r.valid THEN axi_r.pos - 1 ELSE pos

Taken == IF Reading THEN 1 ELSE 0

(* The command of a truncated packet is one cycle behind it. *)
Behind == IF wr_en /\ state_wr = "DROP_FRAME" THEN 1 ELSE 0

(* One command for each packet, in the same order: the one that was taken, *)
(* the k in the FIFO, and the one that is behind.                          *)
Matched(m, c, taken, out, cq, k, behind, in) ==
  /\ m = taken + k + behind
  /\ taken = 1 => c[0] = out
  /\ \A i \in 1 .. k : c[taken + i - 1] = cq[i].crc
  /\ behind = 1 => c[m - 1] = in

(* The command that waits in cmd_in. *)
Waiting ==
  /\ Behind = 1 => ~cmd_in.crc
  /\ state_wr = "IDLE_WR" /\ axi_r.valid => cmd_in.crc = Tuser(axi_r)

(* The read FSM has begun a packet only in BEGIN_READ. *)
ReadFsmInv(e) ==
  /\ state_rd = "PREP_READ_1" => Len(cmdFifo) > 0
  /\ state_rd # "BEGIN_READ" => e[0] = 0

(* A frame is being stored, or begins to be. *)
Open == state_wr \in {"DA_DECODE", "BEGIN_WRITE"} \/ (state_wr = "IDLE_WR" /\ axi_r.valid)

(* The frames are in the order of their arrival, fr the current one. *)
InOrder(m, f, fr, open) ==
  /\ \A i, j \in 0 .. m - 1 : i < j => f[i] < f[j]
  /\ \A j \in 0 .. m - 1 : f[j] <= fr /\ (open => f[j] < fr)

(* The word h handed on last is the one before the next of the passing     *)
(* packet that is read, or the last one of an earlier frame.               *)
HandedLast(m, e, f, h, pass, fr, open) ==
  IF pass /\ e[0] < 0
  THEN ~h.last /\ h.pos = -e[0] /\ h.frame = f[0]
  ELSE /\ h.last /\ h.frame <= fr /\ (open => h.frame < fr)
       /\ \A j \in 0 .. m - 1 : h.frame < f[j]

Layout(m, e, f, g, c) ==
  /\ Packets(dataFifo, Len(dataFifo), m, e, f, g, c, Stored, frame, good)
  /\ Matched(m, c, Taken, cmd_out.crc, cmdFifo, Len(cmdFifo), Behind, cmd_in.crc)
  /\ ReadFsmInv(e)
  /\ TuserGood => /\ InOrder(m, f, frame, Open)
                  /\ HandedLast(m, e, f, handed, Reading /\ Passing, frame, Open)

RxInv ==
  /\ RxTypes /\ Arrived /\ WriteFsmInv /\ Room /\ Waiting
  /\ \E m \in Nat, e \in [Nat -> Int], f \in [Nat -> Nat], g, c \in [Nat -> BOOLEAN] :
       Layout(m, e, f, g, c)

-----------------------------------------------------------------------------
(* What the FIFOs do to the packets. *)

(* q1 is q without its first word, or with one more. *)
Shorter(q1, q, n) == \A i \in 1 .. n - 1 : q1[i] = q[i + 1]
Longer(q1, q, n) == \A i \in 1 .. n : q1[i] = q[i]

(* The ends move when a word is read, and with the last one a packet is    *)
(* gone.                                                                   *)
Earlier(d, e) == d \in [Nat -> Int] /\ \A j \in Nat : d[j] = e[j] - 1
EarlierRest(d, e) == d \in [Nat -> Int] /\ \A j \in Nat : d[j] = e[j + 1] - 1
Rest(h, f) == \A j \in Nat : h[j] = f[j + 1]

(* A packet more changes nothing of those before. *)
Same(h, f, m) == \A j \in 0 .. m - 1 : h[j] = f[j]

(* A word that is not the last of its packet is read. *)
LEMMA ReadWord ==
  ASSUME NEW q, NEW n \in Nat, NEW m \in Nat, NEW e \in [Nat -> Int], NEW f, NEW g, NEW c,
         NEW t \in Nat, NEW fr, NEW gd, Packets(q, n, m, e, f, g, c, t, fr, gd), m > 0, e[1] > 1,
         NEW q1, Shorter(q1, q, n), NEW d, Earlier(d, e)
  PROVE  n > 0 /\ Packets(q1, n - 1, m, d, f, g, c, t, fr, gd)
<1>0. /\ \A i \in 1 .. n - 1 : q1[i] = q[i + 1]
      /\ d \in [Nat -> Int] /\ \A j \in Nat : d[j] = e[j] - 1
  BY DEF Shorter, Earlier
<1> USE <1>0
<1>1. \A j \in Nat : e[j] \in Int
  OBVIOUS
<1>2. \A i, j \in 0 .. m : i < j => e[i] + 2 * (j - i) <= e[j]
  BY DEF Packets
<1>3. \A j \in 1 .. m : e[j] > 1
  <2> TAKE j \in 1 .. m
  <2>1. CASE j = 1
    BY <2>1
  <2>2. CASE j > 1
    <3>1. e[1] + 2 * (j - 1) <= e[j]
      BY <1>2, <2>2
    <3>2. e[1] \in Int /\ e[j] \in Int /\ j \in Nat
      BY <1>1
    <3> QED BY <2>2, <3>1, <3>2
  <2> QED BY <2>1, <2>2
<1>4. n = e[m] + t /\ n > 1
  <2>1. n = e[m] + t
    BY DEF Packets
  <2>2. e[m] \in Int /\ e[m] > 1
    BY <1>1, <1>3
  <2> QED BY <2>1, <2>2
<1>6. \A j \in 1 .. m : e[j] <= n
  <2> TAKE j \in 1 .. m
  <2>1. j < m => e[j] + 2 * (m - j) <= e[m]
    BY <1>2
  <2>2. e[j] \in Int /\ e[m] \in Int
    BY <1>1
  <2> QED BY <1>4, <2>1, <2>2
<1>7. /\ d[0] <= 0 /\ (m = 0 => d[0] = 0) /\ (m > 0 => d[1] >= 1)
      /\ n - 1 = d[m] + t
  <2>1. e[0] \in Int /\ e[1] \in Int /\ e[m] \in Int /\ e[0] <= 0
    BY <1>1 DEF Packets
  <2>2. d[0] = e[0] - 1 /\ d[1] = e[1] - 1 /\ d[m] = e[m] - 1
    OBVIOUS
  <2> QED BY <1>4, <2>1, <2>2
<1>8. \A i, j \in 0 .. m : i < j => d[i] + 2 * (j - i) <= d[j]
  <2> TAKE i, j \in 0 .. m
  <2>1. i < j => e[i] + 2 * (j - i) <= e[j]
    BY <1>2
  <2>2. e[i] \in Int /\ e[j] \in Int /\ d[i] = e[i] - 1 /\ d[j] = e[j] - 1
    BY <1>1
  <2> QED BY <2>1, <2>2
<1>9. \A j \in 1 .. m : q1[d[j]] = q[e[j]]
  <2> TAKE j \in 1 .. m
  <2>1. e[j] \in Int /\ d[j] = e[j] - 1 /\ e[j] > 1 /\ e[j] <= n
    BY <1>1, <1>3, <1>6
  <2>2. d[j] \in 1 .. n - 1 /\ d[j] + 1 = e[j]
    BY <2>1
  <2> QED BY <2>2
<1>10. \A j \in 1 .. m : q1[d[j]].last
  BY <1>9 DEF Packets
<1>11. ASSUME NEW j \in 0 .. m - 1, NEW i \in 1 .. d[j + 1] - 1, d[j] < i
       PROVE  q1[i] = MacWord(f[j], i - d[j], FALSE, g[j])
  <2>1. j \in Nat /\ j + 1 \in Nat /\ j + 1 \in 1 .. m
    OBVIOUS
  <2>2. /\ d[j] = e[j] - 1 /\ d[j + 1] = e[j + 1] - 1 /\ e[j] \in Int /\ e[j + 1] \in Int
        /\ e[j + 1] <= n
    BY <1>1, <1>6, <2>1
  <2>3. i + 1 \in 1 .. e[j + 1] - 1 /\ e[j] < i + 1 /\ i \in 1 .. n - 1
        /\ (i + 1) - e[j] = i - d[j]
    BY <1>11, <2>2
  <2>4. q[i + 1] = MacWord(f[j], (i + 1) - e[j], FALSE, g[j])
    BY <2>3 DEF Packets
  <2> QED BY <2>3, <2>4
<1>12. ASSUME NEW j \in 0 .. m - 1, TuserGood, c[j]
       PROVE  g[j] /\ q1[d[j + 1]] = MacWord(f[j], d[j + 1] - d[j], TRUE, TRUE)
  <2>1. j \in Nat /\ j + 1 \in Nat /\ j + 1 \in 1 .. m
    OBVIOUS
  <2>2. d[j] = e[j] - 1 /\ d[j + 1] = e[j + 1] - 1 /\ e[j] \in Int /\ e[j + 1] \in Int
    BY <1>1, <2>1
  <2>3. d[j + 1] - d[j] = e[j + 1] - e[j]
    BY <2>2
  <2>4. g[j] /\ q[e[j + 1]] = MacWord(f[j], e[j + 1] - e[j], TRUE, TRUE)
    BY <1>12 DEF Packets
  <2> QED BY <1>9, <2>1, <2>3, <2>4
<1>13. ASSUME NEW i \in d[m] + 1 .. n - 1
       PROVE  q1[i] = MacWord(fr, i - d[m], FALSE, gd)
  <2>1. d[m] = e[m] - 1 /\ e[m] \in Int /\ e[m] > 1
    BY <1>1, <1>3
  <2>2. i \in 1 .. n - 1 /\ i + 1 \in e[m] + 1 .. n /\ (i + 1) - e[m] = i - d[m]
    BY <1>4, <2>1
  <2>3. q[i + 1] = MacWord(fr, (i + 1) - e[m], FALSE, gd)
    BY <2>2 DEF Packets
  <2> QED BY <2>2, <2>3
<1>14. n > 0
  BY <1>4
<1> QED BY <1>7, <1>8, <1>10, <1>11, <1>12, <1>13, <1>14, Zenon DEF Packets

(* The last word of the first packet is read. *)
LEMMA ReadLast ==
  ASSUME NEW q, NEW n \in Nat, NEW m \in Nat, NEW e \in [Nat -> Int], NEW f, NEW g, NEW c,
         NEW t \in Nat, NEW fr, NEW gd, Packets(q, n, m, e, f, g, c, t, fr, gd), m > 0, e[1] = 1,
         NEW q1, Shorter(q1, q, n), NEW d, EarlierRest(d, e),
         NEW f1, Rest(f1, f), NEW g1, Rest(g1, g), NEW c1, Rest(c1, c)
  PROVE  n > 0 /\ d[0] = 0 /\ Packets(q1, n - 1, m - 1, d, f1, g1, c1, t, fr, gd)
<1>0. /\ \A i \in 1 .. n - 1 : q1[i] = q[i + 1]
      /\ d \in [Nat -> Int] /\ \A j \in Nat : d[j] = e[j + 1] - 1
      /\ \A j \in Nat : f1[j] = f[j + 1] /\ g1[j] = g[j + 1] /\ c1[j] = c[j + 1]
  BY DEF Shorter, EarlierRest, Rest
<1> USE <1>0
<1>1. \A j \in Nat : e[j] \in Int
  OBVIOUS
<1>2. \A i, j \in 0 .. m : i < j => e[i] + 2 * (j - i) <= e[j]
  BY DEF Packets
<1>3. \A j \in 2 .. m : e[j] > 1 /\ e[j] <= n
  <2> TAKE j \in 2 .. m
  <2>1. 1 + 2 * (j - 1) <= e[j]
    BY <1>2
  <2>2. CASE j = m
    <3>1. n = e[j] + t /\ e[j] \in Int
      BY <1>1, <2>2 DEF Packets
    <3> QED BY <2>1, <3>1
  <2>3. CASE j # m
    <3>0. j \in 0 .. m /\ m \in 0 .. m /\ j < m
      BY <2>3
    <3>1. e[j] + 2 * (m - j) <= e[m]
      BY <1>2, <3>0
    <3>2. e[j] \in Int /\ e[m] \in Int /\ n = e[m] + t
      BY <1>1 DEF Packets
    <3> QED BY <2>1, <2>3, <3>1, <3>2
  <2> QED BY <2>2, <2>3
<1>4. n = e[m] + t /\ n > 0
  <2>1. n = e[m] + t
    BY DEF Packets
  <2>2. e[m] \in Int /\ e[m] > 0
    BY <1>1, <1>3
  <2> QED BY <2>1, <2>2
<1>5. d[0] = 0
  BY <1>1
<1>6. m - 1 \in Nat /\ (m - 1) + 1 = m
  OBVIOUS
<1>7. d[m - 1] = e[m] - 1 /\ e[m] \in Int
  BY <1>1, <1>6
<1>8. m - 1 > 0 => d[1] >= 1
  <2>1. d[1] = e[2] - 1 /\ e[2] \in Int
    BY <1>1
  <2>2. m - 1 > 0 => e[2] > 1
    BY <1>3
  <2> QED BY <2>1, <2>2
<1>9. d[0] <= 0 /\ (m - 1 = 0 => d[0] = 0) /\ n - 1 = d[m - 1] + t
  BY <1>4, <1>5, <1>7
<1>10. \A i, j \in 0 .. m - 1 : i < j => d[i] + 2 * (j - i) <= d[j]
  <2> TAKE i, j \in 0 .. m - 1
  <2>1. i + 1 \in 0 .. m /\ j + 1 \in 0 .. m /\ i \in Nat /\ j \in Nat /\ (j + 1) - (i + 1) = j - i
    OBVIOUS
  <2>2. i < j => e[i + 1] + 2 * (j - i) <= e[j + 1]
    BY <1>2, <2>1
  <2>3. e[i + 1] \in Int /\ e[j + 1] \in Int /\ d[i] = e[i + 1] - 1 /\ d[j] = e[j + 1] - 1
    BY <1>1, <2>1
  <2> QED BY <2>1, <2>2, <2>3
<1>11. \A j \in 1 .. m - 1 : q1[d[j]] = q[e[j + 1]]
  <2> TAKE j \in 1 .. m - 1
  <2>1. e[j + 1] \in Int /\ d[j] = e[j + 1] - 1 /\ e[j + 1] > 1 /\ e[j + 1] <= n
    BY <1>1, <1>3
  <2>2. d[j] \in 1 .. n - 1 /\ d[j] + 1 = e[j + 1]
    <3>1. PICK a \in Int : a = e[j + 1] /\ a > 1 /\ a <= n /\ d[j] = a - 1
      BY <2>1
    <3>2. a - 1 \in 1 .. n - 1 /\ (a - 1) + 1 = a
      BY <3>1
    <3> QED BY <3>1, <3>2
  <2> QED BY <2>2
<1>12. \A j \in 1 .. m - 1 : q1[d[j]].last
  <2> TAKE j \in 1 .. m - 1
  <2>1. q[e[j + 1]].last
    BY DEF Packets
  <2> QED BY <1>11, <2>1
<1>13. ASSUME NEW j \in 0 .. (m - 1) - 1, NEW i \in 1 .. d[j + 1] - 1, d[j] < i
       PROVE  q1[i] = MacWord(f1[j], i - d[j], FALSE, g1[j])
  <2>1. j \in Nat /\ j + 1 \in Nat /\ j + 1 \in 0 .. m - 1 /\ (j + 1) + 1 \in 2 .. m
    OBVIOUS
  <2>2. /\ d[j] = e[j + 1] - 1 /\ d[j + 1] = e[(j + 1) + 1] - 1 /\ e[j + 1] \in Int
        /\ e[(j + 1) + 1] \in Int /\ e[(j + 1) + 1] <= n /\ f1[j] = f[j + 1] /\ g1[j] = g[j + 1]
    BY <1>1, <1>3, <2>1
  <2>3. i + 1 \in 1 .. e[(j + 1) + 1] - 1 /\ e[j + 1] < i + 1 /\ i \in 1 .. n - 1
        /\ (i + 1) - e[j + 1] = i - d[j]
    <3>1. PICK a, b \in Int : a = e[j + 1] /\ b = e[(j + 1) + 1]
      BY <2>2
    <3>2. d[j] = a - 1 /\ d[j + 1] = b - 1 /\ b <= n /\ d[j] < i
      BY <1>13, <2>2, <3>1
    <3>3. i \in 1 .. b - 2
      BY <3>1, <3>2
    <3>4. i + 1 \in 1 .. b - 1 /\ i \in 1 .. n - 1
      BY <3>2, <3>3
    <3>5. a < i + 1 /\ (i + 1) - a = i - d[j]
      BY <3>2, <3>3
    <3> QED BY <3>1, <3>4, <3>5
  <2>4. q[i + 1] = MacWord(f[j + 1], (i + 1) - e[j + 1], FALSE, g[j + 1])
    BY <2>1, <2>3 DEF Packets
  <2> QED BY <2>2, <2>3, <2>4
<1>14. ASSUME NEW j \in 0 .. (m - 1) - 1, TuserGood, c1[j]
       PROVE  g1[j] /\ q1[d[j + 1]] = MacWord(f1[j], d[j + 1] - d[j], TRUE, TRUE)
  <2>1. j \in Nat /\ j + 1 \in Nat /\ j + 1 \in 0 .. m - 1 /\ j + 1 \in 1 .. m - 1
    OBVIOUS
  <2>2. /\ d[j] = e[j + 1] - 1 /\ d[j + 1] = e[(j + 1) + 1] - 1 /\ e[j + 1] \in Int
        /\ e[(j + 1) + 1] \in Int /\ f1[j] = f[j + 1] /\ g1[j] = g[j + 1] /\ c1[j] = c[j + 1]
    BY <1>1, <2>1
  <2>3. d[j + 1] - d[j] = e[(j + 1) + 1] - e[j + 1]
    BY <2>2
  <2>4. g[j + 1] /\ q[e[(j + 1) + 1]] = MacWord(f[j + 1], e[(j + 1) + 1] - e[j + 1], TRUE, TRUE)
    BY <1>14, <2>1, <2>2 DEF Packets
  <2>5. q1[d[j + 1]] = q[e[(j + 1) + 1]]
    BY <1>11, <2>1
  <2> QED BY <2>2, <2>3, <2>4, <2>5
<1>15. ASSUME NEW i \in d[m - 1] + 1 .. n - 1
       PROVE  q1[i] = MacWord(fr, i - d[m - 1], FALSE, gd)
  <2>1. e[m] >= 1
    BY <1>1, <1>3
  <2>2. i \in 1 .. n - 1 /\ i + 1 \in e[m] + 1 .. n /\ (i + 1) - e[m] = i - d[m - 1]
    BY <1>4, <1>7, <2>1
  <2>3. q[i + 1] = MacWord(fr, (i + 1) - e[m], FALSE, gd)
    BY <2>2 DEF Packets
  <2> QED BY <2>2, <2>3
<1> QED
  BY <1>4, <1>5, <1>8, <1>9, <1>10, <1>12, <1>13, <1>14, <1>15, Zenon DEF Packets

(* A word of the frame that is being stored is written. *)
LEMMA WriteWord ==
  ASSUME NEW q, NEW n \in Nat, NEW m \in Nat, NEW e \in [Nat -> Int], NEW f, NEW g, NEW c,
         NEW t \in Nat, NEW fr, NEW gd, Packets(q, n, m, e, f, g, c, t, fr, gd),
         NEW q1, Longer(q1, q, n), q1[n + 1] = MacWord(fr, t + 1, FALSE, gd)
  PROVE  Packets(q1, n + 1, m, e, f, g, c, t + 1, fr, gd)
<1>0. \A i \in 1 .. n : q1[i] = q[i]
  BY DEF Longer
<1> USE <1>0
<1>1. \A j \in Nat : e[j] \in Int
  OBVIOUS
<1>2. \A j \in 1 .. m : e[j] \in 1 .. n
  <2> TAKE j \in 1 .. m
  <2>1. /\ j < m => e[j] + 2 * (m - j) <= e[m]
        /\ j > 1 => e[1] + 2 * (j - 1) <= e[j]
        /\ e[1] >= 1 /\ n = e[m] + t
    BY DEF Packets
  <2>2. e[j] \in Int /\ e[m] \in Int /\ e[1] \in Int
    BY <1>1
  <2> QED BY <2>1, <2>2
<1>3. \A j \in 1 .. m : q1[e[j]] = q[e[j]]
  BY <1>2
<1>4. \A j \in 1 .. m : q1[e[j]].last
  BY <1>3 DEF Packets
<1>5. /\ e[0] <= 0 /\ (m = 0 => e[0] = 0) /\ (m > 0 => e[1] >= 1)
      /\ \A i, j \in 0 .. m : i < j => e[i] + 2 * (j - i) <= e[j]
  BY DEF Packets
<1>6. n = e[m] + t /\ e[m] \in Int /\ n + 1 = e[m] + (t + 1)
  <2>1. n = e[m] + t /\ e[m] \in Int
    BY <1>1 DEF Packets
  <2> QED BY <2>1
<1>7. ASSUME NEW j \in 0 .. m - 1, NEW i \in 1 .. e[j + 1] - 1, e[j] < i
      PROVE  q1[i] = MacWord(f[j], i - e[j], FALSE, g[j])
  <2>1. e[j + 1] \in 1 .. n
    BY <1>2
  <2>2. i \in 1 .. n
    BY <2>1
  <2> QED BY <1>7, <2>2 DEF Packets
<1>8. ASSUME NEW j \in 0 .. m - 1, TuserGood, c[j]
      PROVE  g[j] /\ q1[e[j + 1]] = MacWord(f[j], e[j + 1] - e[j], TRUE, TRUE)
  <2>1. g[j] /\ q[e[j + 1]] = MacWord(f[j], e[j + 1] - e[j], TRUE, TRUE)
    BY <1>8 DEF Packets
  <2>2. j + 1 \in 1 .. m
    OBVIOUS
  <2> QED BY <1>3, <2>1, <2>2
<1>9. ASSUME NEW i \in e[m] + 1 .. n + 1
      PROVE  q1[i] = MacWord(fr, i - e[m], FALSE, gd)
  <2>1. CASE i = n + 1
    <3>1. i - e[m] = t + 1
      BY <1>6, <2>1
    <3> QED BY <2>1, <3>1
  <2>2. CASE i # n + 1
    <3>1. e[m] >= 0
      BY <1>1, <1>2, <1>5
    <3>2. i \in e[m] + 1 .. n /\ i \in 1 .. n
      BY <1>6, <2>2, <3>1
    <3> QED BY <3>2 DEF Packets
  <2> QED BY <2>1, <2>2
<1> QED BY <1>4, <1>5, <1>6, <1>7, <1>8, <1>9, Zenon DEF Packets

(* Where the packets end. *)
LEMMA EndsInside ==
  ASSUME NEW q, NEW n \in Nat, NEW m \in Nat, NEW e \in [Nat -> Int], NEW f, NEW g, NEW c,
         NEW t \in Nat, NEW fr, NEW gd, Packets(q, n, m, e, f, g, c, t, fr, gd)
  PROVE  /\ \A j \in 1 .. m : e[j] \in 1 .. n
         /\ e[m] \in Nat /\ n = e[m] + t
         /\ e[m] >= e[0] + 2 * m
         /\ m > 0 => e[m] >= 2 * m - 1
<1>1. \A j \in Nat : e[j] \in Int
  OBVIOUS
<1>2. \A j \in 1 .. m : e[j] \in 1 .. n
  <2> TAKE j \in 1 .. m
  <2>1. /\ j < m => e[j] + 2 * (m - j) <= e[m]
        /\ j > 1 => e[1] + 2 * (j - 1) <= e[j]
        /\ e[1] >= 1 /\ n = e[m] + t
    BY DEF Packets
  <2>2. e[j] \in Int /\ e[m] \in Int /\ e[1] \in Int
    BY <1>1
  <2> QED BY <2>1, <2>2
<1>3. n = e[m] + t /\ e[m] \in Int /\ e[0] \in Int /\ e[1] \in Int
  BY <1>1 DEF Packets
<1>4. CASE m = 0
  <2>1. e[0] = 0
    BY <1>4 DEF Packets
  <2> QED BY <1>2, <1>3, <1>4, <2>1
<1>5. CASE m > 0
  <2>1. e[m] \in 1 .. n
    BY <1>2, <1>5
  <2>2. e[0] + 2 * (m - 0) <= e[m] /\ e[1] >= 1 /\ (m > 1 => e[1] + 2 * (m - 1) <= e[m])
    BY <1>5 DEF Packets
  <2>3. e[m] >= e[0] + 2 * m /\ e[m] >= 2 * m - 1
    BY <1>3, <1>5, <2>1, <2>2
  <2> QED BY <1>2, <1>3, <2>1, <2>3
<1> QED BY <1>4, <1>5

(* The frame that is being stored ends, or its packet does. *)
LEMMA WriteLast ==
  ASSUME NEW q, NEW n \in Nat, NEW m \in Nat, NEW e \in [Nat -> Int], NEW f, NEW g, NEW c,
         NEW t \in Nat, NEW fr, NEW gd, Packets(q, n, m, e, f, g, c, t, fr, gd), t > 0,
         NEW q1, Longer(q1, q, n), q1[n + 1].last,
         NEW d \in [Nat -> Int], Same(d, e, m + 1), d[m + 1] = n + 1,
         NEW f1, Same(f1, f, m), f1[m] = fr, NEW g1, Same(g1, g, m), g1[m] = gd,
         NEW c1, Same(c1, c, m),
         TuserGood /\ c1[m] => gd /\ q1[n + 1] = MacWord(fr, t + 1, TRUE, TRUE),
         NEW fr1, NEW gd1
  PROVE  Packets(q1, n + 1, m + 1, d, f1, g1, c1, 0, fr1, gd1)
<1>0. /\ \A i \in 1 .. n : q1[i] = q[i]
      /\ \A j \in 0 .. m : d[j] = e[j]
      /\ \A j \in 0 .. m - 1 : f1[j] = f[j] /\ g1[j] = g[j] /\ c1[j] = c[j]
  <2>1. (m + 1) - 1 = m
    OBVIOUS
  <2> QED BY <2>1 DEF Longer, Same
<1> USE <1>0
<1>1. /\ \A j \in 1 .. m : e[j] \in 1 .. n
      /\ e[m] \in Nat /\ n = e[m] + t
      /\ e[m] >= e[0] + 2 * m
      /\ m > 0 => e[m] >= 2 * m - 1
  <2>1. Packets(q, n, m, e, f, g, c, t, fr, gd)
    OBVIOUS
  <2> QED BY <2>1, EndsInside, ZenonT(30)
<1>2. d[0] <= 0 /\ (m + 1 = 0 => d[0] = 0) /\ (m + 1 > 0 => d[1] >= 1) /\ n + 1 = d[m + 1] + 0
  <2>1. d[0] = e[0] /\ e[0] <= 0
    BY DEF Packets
  <2>2. d[1] >= 1
    <3>1. CASE m = 0
      BY <3>1
    <3>2. CASE m > 0
      <4>1. d[1] = e[1] /\ e[1] >= 1
        BY <3>2 DEF Packets
      <4> QED BY <4>1
    <3> QED BY <3>1, <3>2
  <2> QED BY <2>1, <2>2
<1>3. \A i, j \in 0 .. m + 1 : i < j => d[i] + 2 * (j - i) <= d[j]
  <2> SUFFICES ASSUME NEW i \in 0 .. m + 1, NEW j \in 0 .. m + 1, i < j
               PROVE  d[i] + 2 * (j - i) <= d[j]
    OBVIOUS
  <2>1. CASE j \in 0 .. m
    BY <2>1 DEF Packets
  <2>2. CASE j = m + 1
    <3>1. i \in 0 .. m /\ d[i] = e[i] /\ e[i] \in Int
      BY <2>2
    <3>2. i < m => e[i] + 2 * (m - i) <= e[m]
      BY <3>1 DEF Packets
    <3>3. PICK a, b \in Int : a = e[i] /\ b = e[m]
      BY <1>1, <3>1
    <3>4. i < m => a + 2 * (m - i) <= b
      BY <3>2, <3>3
    <3>5. i = m => a = b
      BY <3>3
    <3>6. a + 2 * (m - i) <= b
      BY <3>1, <3>4, <3>5
    <3> QED BY <1>1, <2>2, <3>1, <3>3, <3>6
  <2> QED BY <2>1, <2>2
<1>4. \A j \in 1 .. m + 1 : q1[d[j]].last
  <2> TAKE j \in 1 .. m + 1
  <2>1. CASE j = m + 1
    BY <2>1
  <2>2. CASE j \in 1 .. m
    <3>1. d[j] = e[j] /\ q1[e[j]] = q[e[j]] /\ q[e[j]].last
      BY <1>1, <2>2 DEF Packets
    <3> QED BY <3>1
  <2> QED BY <2>1, <2>2
<1>5. ASSUME NEW j \in 0 .. (m + 1) - 1, NEW i \in 1 .. d[j + 1] - 1, d[j] < i
      PROVE  q1[i] = MacWord(f1[j], i - d[j], FALSE, g1[j])
  <2>1. CASE j = m
    <3>1. d[j] = e[m] /\ d[j + 1] = n + 1 /\ f1[j] = fr /\ g1[j] = gd
      BY <2>1
    <3>2. i \in 1 .. n /\ i \in e[m] + 1 .. n
      BY <1>1, <1>5, <3>1
    <3> QED BY <3>1, <3>2, ZenonT(60) DEF Packets
  <2>2. CASE j # m
    <3>1. j \in 0 .. m - 1 /\ j + 1 \in 1 .. m /\ j + 1 \in 0 .. m /\ j \in 0 .. m
      BY <2>2
    <3>2. d[j] = e[j] /\ d[j + 1] = e[j + 1] /\ f1[j] = f[j] /\ g1[j] = g[j] /\ e[j + 1] \in 1 .. n
      BY <1>1, <3>1
    <3>3. i \in 1 .. n /\ i \in 1 .. e[j + 1] - 1 /\ e[j] < i
      BY <1>5, <3>2
    <3>4. q[i] = MacWord(f[j], i - e[j], FALSE, g[j])
      BY <3>1, <3>3 DEF Packets
    <3> QED BY <3>2, <3>3, <3>4
  <2> QED BY <2>1, <2>2
<1>6. ASSUME NEW j \in 0 .. (m + 1) - 1, TuserGood, c1[j]
      PROVE  g1[j] /\ q1[d[j + 1]] = MacWord(f1[j], d[j + 1] - d[j], TRUE, TRUE)
  <2>1. CASE j = m
    <3>1. d[j] = e[m] /\ d[j + 1] = n + 1 /\ f1[j] = fr /\ g1[j] = gd /\ (n + 1) - e[m] = t + 1
      BY <1>1, <2>1
    <3>2. gd /\ q1[n + 1] = MacWord(fr, t + 1, TRUE, TRUE)
      BY <1>6, <2>1
    <3> QED BY <3>1, <3>2
  <2>2. CASE j # m
    <3>1. j \in 0 .. m - 1 /\ j + 1 \in 1 .. m /\ j + 1 \in 0 .. m /\ j \in 0 .. m
      BY <2>2
    <3>2. d[j] = e[j] /\ d[j + 1] = e[j + 1] /\ f1[j] = f[j] /\ g1[j] = g[j] /\ c1[j] = c[j]
      BY <3>1
    <3>3. g[j] /\ q[e[j + 1]] = MacWord(f[j], e[j + 1] - e[j], TRUE, TRUE)
      BY <1>6, <3>1, <3>2 DEF Packets
    <3>4. q1[e[j + 1]] = q[e[j + 1]]
      BY <1>1, <3>1
    <3> QED BY <3>2, <3>3, <3>4
  <2> QED BY <2>1, <2>2
<1>7. \A i \in d[m + 1] + 1 .. n + 1 : q1[i] = MacWord(fr1, i - d[m + 1], FALSE, gd1)
  OBVIOUS
<1> QED BY <1>2, <1>3, <1>4, <1>5, <1>6, <1>7, Zenon DEF Packets

(* Nothing is being stored, so the next frame may be any. *)
LEMMA NextFrame ==
  ASSUME NEW q, NEW n \in Nat, NEW m \in Nat, NEW e \in [Nat -> Int], NEW f, NEW g, NEW c,
         NEW fr, NEW gd, Packets(q, n, m, e, f, g, c, 0, fr, gd), NEW fr1, NEW gd1
  PROVE  Packets(q, n, m, e, f, g, c, 0, fr1, gd1)
<1>1. n = e[m] + 0 /\ e[m] \in Int
  BY DEF Packets
<1>2. \A i \in e[m] + 1 .. n : q[i] = MacWord(fr1, i - e[m], FALSE, gd1)
  BY <1>1
<1> QED BY <1>2, Zenon DEF Packets

-----------------------------------------------------------------------------
(* The read FSM's half of a cycle. *)

LEMMA TailOf ==
  ASSUME NEW S, NEW q \in Seq(S), Len(q) > 0
  PROVE  /\ Tail(q) \in Seq(S) /\ Len(Tail(q)) = Len(q) - 1 /\ Head(q) = q[1] /\ q[1] \in S
         /\ \A i \in 1 .. Len(q) - 1 : Tail(q)[i] = q[i + 1]
<1>1. q # <<>>
  OBVIOUS
<1> QED BY <1>1, HeadTailProperties, ElementOfSeq

(* The FIFOs when the words and the command that are read have left. *)
DataRead(ready) ==
  IF axis_rd_tvalid /\ axis_rd_tready(ready) THEN Tail(dataFifo) ELSE dataFifo
CmdRead == IF state_rd = "PREP_READ_1" /\ ~empty THEN Tail(cmdFifo) ELSE cmdFifo
CmdTaken == cmd_out' = IF state_rd = "PREP_READ_1" /\ ~empty THEN Head(cmdFifo) ELSE cmd_out

ReadHalf(ready) == ReadFsm(ready) /\ HandOn(ready) /\ CmdTaken

(* Half way through the cycle: the read FSM has stepped, the rest has not. *)
HalfWay(m, e, f, g, c, q, cq) ==
  /\ Packets(q, Len(q), m, e, f, g, c, Stored, frame, good)
  /\ Matched(m, c, Taken', cmd_out'.crc, cq, Len(cq), Behind, cmd_in.crc)
  /\ state_rd' = "PREP_READ_1" => Len(cq) > 0
  /\ state_rd' # "BEGIN_READ" => e[0] = 0
  /\ TuserGood => /\ InOrder(m, f, frame, Open)
                  /\ HandedLast(m, e, f, handed', (Reading /\ Passing)', frame, Open)

(* What OnlyGoodFrames says of one step. *)
GoodHandOn ==
  handed' # handed =>
    /\ handed'.good /\ handed'.last = handed'.eof
    /\ IF handed.last THEN handed'.pos = 1 /\ handed'.frame > handed.frame
                      ELSE handed'.pos = handed.pos + 1 /\ handed'.frame = handed.frame

ReadStates == {"IDLE_RD", "PREP_READ_1", "PREP_READ_2", "BEGIN_READ"}

(* Nothing is read. *)
LEMMA ReadIdle ==
  ASSUME NEW m \in Nat, NEW e \in [Nat -> Int], NEW f, NEW g, NEW c, Layout(m, e, f, g, c),
         RxTypes, NEW ready \in BOOLEAN, ReadHalf(ready), state_rd = "IDLE_RD"
  PROVE  HalfWay(m, e, f, g, c, DataRead(ready), CmdRead) /\ GoodHandOn /\ state_rd' \in ReadStates
<1>1. /\ DataRead(ready) = dataFifo /\ CmdRead = cmdFifo /\ cmd_out' = cmd_out /\ handed' = handed
      /\ ~Reading /\ Taken = 0
  BY DEF ReadHalf, DataRead, CmdRead, CmdTaken, HandOn, axis_rd_tready, Reading, Taken
<1>2. state_rd' \in {"IDLE_RD", "PREP_READ_1"} /\ (state_rd' = "PREP_READ_1" => cmdFifo # <<>>)
  BY DEF ReadHalf, ReadFsm, empty
<1>3. ~Reading' /\ Taken' = 0
  BY <1>2 DEF Reading, Taken
<1>4. cmdFifo # <<>> => Len(cmdFifo) > 0
  <2>1. cmdFifo \in Seq(CmdSet)
    BY DEF RxTypes
  <2> QED BY <2>1
<1>5. ~(Reading /\ Passing) /\ ~(Reading /\ Passing)'
  BY <1>1, <1>3
<1>6. e[0] = 0
  BY DEF Layout, ReadFsmInv
<1>7. TuserGood => HandedLast(m, e, f, handed', (Reading /\ Passing)', frame, Open)
  BY <1>1, <1>5 DEF Layout, HandedLast
<1>8. Matched(m, c, Taken', cmd_out'.crc, CmdRead, Len(CmdRead), Behind, cmd_in.crc)
  BY <1>1, <1>3 DEF Layout
<1>9. HalfWay(m, e, f, g, c, DataRead(ready), CmdRead)
  BY <1>1, <1>2, <1>4, <1>6, <1>7, <1>8 DEF Layout, HalfWay
<1> QED BY <1>1, <1>2, <1>9 DEF GoodHandOn, ReadStates

(* The command is taken. *)
LEMMA ReadCommand ==
  ASSUME NEW m \in Nat, NEW e \in [Nat -> Int], NEW f, NEW g, NEW c, Layout(m, e, f, g, c),
         RxTypes, NEW ready \in BOOLEAN, ReadHalf(ready), state_rd = "PREP_READ_1"
  PROVE  HalfWay(m, e, f, g, c, DataRead(ready), CmdRead) /\ GoodHandOn /\ state_rd' \in ReadStates
<1>1. PICK k \in Nat : k = Len(cmdFifo)
  <2>1. cmdFifo \in Seq(CmdSet)
    BY DEF RxTypes
  <2> QED BY <2>1, LenProperties
<1>2. k > 0
  BY <1>1 DEF Layout, ReadFsmInv
<1>3. cmdFifo # <<>> /\ Len(Tail(cmdFifo)) = k - 1 /\ Head(cmdFifo) = cmdFifo[1]
      /\ \A i \in 1 .. k - 1 : Tail(cmdFifo)[i] = cmdFifo[i + 1]
  <2>1. cmdFifo \in Seq(CmdSet)
    BY DEF RxTypes
  <2>2. cmdFifo # <<>>
    BY <1>1, <1>2, <2>1
  <2> QED BY <1>1, <1>2, <2>1, <2>2, TailOf
<1>4. /\ DataRead(ready) = dataFifo /\ CmdRead = Tail(cmdFifo) /\ cmd_out' = cmdFifo[1]
      /\ handed' = handed /\ ~Reading /\ Taken = 0
  BY <1>3
  DEF ReadHalf, DataRead, CmdRead, CmdTaken, HandOn, axis_rd_tready, Reading, Taken, empty
<1>5. state_rd' = "PREP_READ_2" /\ Reading' /\ Taken' = 1
  BY DEF ReadHalf, ReadFsm, Reading, Taken
<1>6. e[0] = 0
  BY DEF Layout, ReadFsmInv
<1>7. TuserGood => HandedLast(m, e, f, handed', (Reading /\ Passing)', frame, Open)
  BY <1>4, <1>6 DEF Layout, HandedLast
<1>8. /\ m = 0 + k + Behind /\ (Behind = 1 => c[m - 1] = cmd_in.crc)
      /\ \A i \in 1 .. k : c[0 + i - 1] = cmdFifo[i].crc
  BY <1>1, <1>4 DEF Layout, Matched
<1>9. Behind \in {0, 1}
  BY DEF Behind
<1>10. Matched(m, c, 1, cmdFifo[1].crc, Tail(cmdFifo), k - 1, Behind, cmd_in.crc)
  <2>1. m = 1 + (k - 1) + Behind
    BY <1>8, <1>9
  <2>2. c[0] = cmdFifo[1].crc
    <3>1. 1 \in 1 .. k /\ 0 + 1 - 1 = 0
      BY <1>2
    <3> QED BY <1>8, <3>1
  <2>3. \A i \in 1 .. k - 1 : c[1 + i - 1] = Tail(cmdFifo)[i].crc
    <3> TAKE i \in 1 .. k - 1
    <3>1. i + 1 \in 1 .. k /\ 0 + (i + 1) - 1 = 1 + i - 1
      OBVIOUS
    <3> QED BY <1>3, <1>8, <3>1
  <2> QED BY <1>8, <2>1, <2>2, <2>3 DEF Matched
<1>11. HalfWay(m, e, f, g, c, DataRead(ready), CmdRead)
  BY <1>3, <1>4, <1>5, <1>6, <1>7, <1>10 DEF Layout, HalfWay
<1> QED BY <1>4, <1>5, <1>11 DEF GoodHandOn, ReadStates

LEMMA StoredNat ==
  ASSUME RxTypes, Arrived, WriteFsmInv, RxAssumption
  PROVE  Stored \in Nat
<1>1. pos \in Nat /\ MinWords >= 3 /\ MinWords \in Nat
  BY DEF RxTypes, RxAssumption
<1>2. CASE axi_r = NoWord
  BY <1>1, <1>2 DEF Stored, NoWord
<1>3. CASE axi_r = MacWord(frame, pos, FALSE, good) /\ pos > 0
  BY <1>1, <1>3 DEF Stored, MacWord
<1>4. CASE \E n \in Nat : n >= MinWords /\ axi_r = MacWord(frame, n, TRUE, good)
  BY <1>1, <1>4 DEF Stored, MacWord
<1> QED BY <1>2, <1>3, <1>4 DEF Arrived

(* A packet is being read: its command was taken, and it is there. *)
PacketThere(m, e, c) ==
  /\ Taken = 1 /\ CmdRead = cmdFifo /\ cmd_out' = cmd_out /\ c[0] = cmd_out.crc
  /\ m > 0 /\ e[1] >= 1 /\ e[1] \in Int /\ e[0] \in Int /\ e[0] <= 0 /\ e[0] + 2 <= e[1]
  /\ Len(dataFifo) \in Nat /\ Len(dataFifo) > 0 /\ axis_rd_tvalid
  /\ Head(dataFifo) = dataFifo[1]
  /\ Len(Tail(dataFifo)) = Len(dataFifo) - 1
  /\ \A i \in 1 .. Len(dataFifo) - 1 : Tail(dataFifo)[i] = dataFifo[i + 1]

LEMMA WhileReading ==
  ASSUME NEW m \in Nat, NEW e \in [Nat -> Int], NEW f, NEW g, NEW c, Layout(m, e, f, g, c),
         RxTypes, Stored \in Nat, NEW ready \in BOOLEAN, ReadHalf(ready), Reading
  PROVE  PacketThere(m, e, c)
<1>1. Taken = 1 /\ state_rd # "PREP_READ_1"
  BY DEF Reading, Taken
<1>2. CmdRead = cmdFifo /\ cmd_out' = cmd_out
  BY <1>1 DEF CmdRead, CmdTaken, ReadHalf
<1>3. PICK k \in Nat : k = Len(cmdFifo)
  <2>1. cmdFifo \in Seq(CmdSet)
    BY DEF RxTypes
  <2> QED BY <2>1, LenProperties
<1>4. m = 1 + k + Behind /\ c[0] = cmd_out.crc
  BY <1>1, <1>3 DEF Layout, Matched
<1>5. m > 0
  <2>1. Behind \in {0, 1}
    BY DEF Behind
  <2> QED BY <1>4, <2>1
<1>6. e[1] >= 1 /\ e[0] <= 0 /\ e[0] + 2 * (1 - 0) <= e[1]
  BY <1>5 DEF Layout, Packets
<1>7. e[1] \in Int /\ e[0] \in Int /\ e[0] + 2 <= e[1]
  BY <1>6
<1>8. PICK n \in Nat : n = Len(dataFifo)
  <2>1. dataFifo \in Seq(WordSet)
    BY DEF RxTypes
  <2> QED BY <2>1, LenProperties
<1>9. PICK t \in Nat : t = Stored
  OBVIOUS
<1>10. n > 0
  <2>1. Packets(dataFifo, n, m, e, f, g, c, t, frame, good)
    BY <1>8, <1>9 DEF Layout
  <2>2. \A j \in 1 .. m : e[j] \in 1 .. n
    BY <2>1, EndsInside, ZenonT(30)
  <2>3. e[1] \in 1 .. n
    BY <1>5, <2>2
  <2> QED BY <2>3
<1>11. axis_rd_tvalid /\ Head(dataFifo) = dataFifo[1] /\ Len(Tail(dataFifo)) = n - 1
       /\ \A i \in 1 .. n - 1 : Tail(dataFifo)[i] = dataFifo[i + 1]
  <2>1. dataFifo \in Seq(WordSet)
    BY DEF RxTypes
  <2>2. dataFifo # <<>>
    BY <1>8, <1>10, <2>1
  <2> QED BY <1>8, <1>10, <2>1, <2>2, TailOf DEF axis_rd_tvalid
<1> QED BY <1>1, <1>2, <1>4, <1>5, <1>6, <1>7, <1>8, <1>10, <1>11 DEF PacketThere

(* The reader of the packets is not ready. *)
LEMMA ReadWaits ==
  ASSUME NEW m \in Nat, NEW e \in [Nat -> Int], NEW f, NEW g, NEW c, Layout(m, e, f, g, c),
         RxTypes, Stored \in Nat, NEW ready \in BOOLEAN, ReadHalf(ready), Reading,
         ~axis_rd_tready(ready)
  PROVE  HalfWay(m, e, f, g, c, DataRead(ready), CmdRead) /\ GoodHandOn /\ state_rd' \in ReadStates
<1>0. PacketThere(m, e, c)
  BY WhileReading
<1>1. Taken = 1 /\ CmdRead = cmdFifo /\ cmd_out' = cmd_out
  BY <1>0, Zenon DEF PacketThere
<1>2. DataRead(ready) = dataFifo /\ handed' = handed
  BY DEF DataRead, ReadHalf, HandOn, axis_rd_tready
<1>3. state_rd' = "BEGIN_READ"
  BY DEF ReadHalf, ReadFsm, Reading
<1>4. Reading' /\ Taken' = 1 /\ (Passing' <=> Passing)
  BY <1>1, <1>3 DEF Reading, Taken, Passing, crc_pass
<1>5. TuserGood => HandedLast(m, e, f, handed', (Reading /\ Passing)', frame, Open)
  BY <1>2, <1>4 DEF Layout, HandedLast
<1>6. HalfWay(m, e, f, g, c, DataRead(ready), CmdRead)
  BY <1>1, <1>2, <1>3, <1>4, <1>5 DEF Layout, HalfWay
<1> QED BY <1>2, <1>3, <1>6 DEF GoodHandOn, ReadStates

(* A word that is not the last is read, and handed on if its packet        *)
(* passes.                                                                 *)
LEMMA ReadsWord ==
  ASSUME NEW m \in Nat, NEW e \in [Nat -> Int], NEW f \in [Nat -> Nat], NEW g \in [Nat -> BOOLEAN],
         NEW c \in [Nat -> BOOLEAN], Layout(m, e, f, g, c),
         RxTypes, Stored \in Nat, NEW ready \in BOOLEAN, ReadHalf(ready), Reading,
         axis_rd_tready(ready), e[1] > 1
  PROVE  /\ HalfWay(m, [j \in Nat |-> e[j] - 1], f, g, c, DataRead(ready), CmdRead)
         /\ TuserGood => GoodHandOn
         /\ state_rd' \in ReadStates
<1>0. PacketThere(m, e, c)
  BY WhileReading
<1>1. /\ Taken = 1 /\ CmdRead = cmdFifo /\ cmd_out' = cmd_out /\ c[0] = cmd_out.crc
      /\ m > 0 /\ e[0] \in Int /\ e[0] <= 0
      /\ axis_rd_tvalid /\ Head(dataFifo) = dataFifo[1]
  BY <1>0, Zenon DEF PacketThere
<1>2. PICK n \in Nat : n = Len(dataFifo)
  <2>1. dataFifo \in Seq(WordSet)
    BY DEF RxTypes
  <2> QED BY <2>1, LenProperties
<1>3. PICK q : q = Tail(dataFifo)
  OBVIOUS
<1>4. Len(q) = n - 1 /\ \A i \in 1 .. n - 1 : q[i] = dataFifo[i + 1]
  BY <1>0, <1>2, <1>3, Zenon DEF PacketThere
<1>5. DataRead(ready) = q
  BY <1>1, <1>3 DEF DataRead
<1>6. PICK t \in Nat : t = Stored
  OBVIOUS
<1>7. PICK d : d = [j \in Nat |-> e[j] - 1]
  OBVIOUS
<1>8. d \in [Nat -> Int] /\ \A j \in Nat : d[j] = e[j] - 1
  <2>1. \A j \in Nat : e[j] \in Int
    OBVIOUS
  <2> QED BY <1>7, <2>1
<1>9. n > 0 /\ Packets(q, n - 1, m, d, f, g, c, t, frame, good)
  <2>1. Packets(dataFifo, n, m, e, f, g, c, t, frame, good)
    BY <1>2, <1>6 DEF Layout
  <2>2. m > 0
    BY <1>1
  <2>3. Shorter(q, dataFifo, n)
    BY <1>4 DEF Shorter
  <2>4. Earlier(d, e)
    BY <1>8 DEF Earlier
  <2> QED BY <2>1, <2>2, <2>3, <2>4, ReadWord
<1>10. dataFifo[1] = MacWord(f[0], 1 - e[0], FALSE, g[0])
  <2>1. 0 \in 0 .. m - 1 /\ 1 \in 1 .. e[0 + 1] - 1 /\ e[0] < 1
    BY <1>1
  <2> QED BY <2>1 DEF Layout, Packets
<1>11. ~Head(dataFifo).last
  BY <1>1, <1>10 DEF MacWord
<1>12. state_rd' = "BEGIN_READ"
  BY <1>11 DEF ReadHalf, ReadFsm, Reading, axis_rd_tlast
<1>13. Reading' /\ Taken' = 1 /\ (Passing' <=> Passing)
  BY <1>1, <1>12 DEF Reading, Taken, Passing, crc_pass
<1>14. d[0] = e[0] - 1 /\ d[0] < 0 /\ -d[0] = 1 - e[0]
  BY <1>1, <1>8
<1>15. (TuserGood => HandedLast(m, d, f, handed', (Reading /\ Passing)', frame, Open))
       /\ (TuserGood => GoodHandOn)
  <2>1. CASE Passing
    <3>1. handed' = MacWord(f[0], 1 - e[0], FALSE, g[0])
      BY <1>1, <1>10, <2>1 DEF ReadHalf, HandOn, axis_rd_tready
    <3>2. handed'.last = FALSE /\ handed'.eof = FALSE /\ handed'.pos = 1 - e[0] /\ handed'.frame = f[0]
          /\ handed'.good = g[0]
      BY <3>1 DEF MacWord
    <3>3. TuserGood => g[0]
      <4>1. TuserGood => c[0]
        BY <1>1, <2>1 DEF Passing, crc_pass
      <4>2. 0 \in 0 .. m - 1
        BY <1>1
      <4> QED BY <4>1, <4>2 DEF Layout, Packets
    <3>4. TuserGood => HandedLast(m, d, f, handed', (Reading /\ Passing)', frame, Open)
      BY <1>13, <1>14, <2>1, <3>2 DEF HandedLast
    <3>5. TuserGood => GoodHandOn
      <4> SUFFICES ASSUME TuserGood
                   PROVE  IF handed.last THEN handed'.pos = 1 /\ handed'.frame > handed.frame
                          ELSE handed'.pos = handed.pos + 1 /\ handed'.frame = handed.frame
        BY <3>2, <3>3 DEF GoodHandOn
      <4>1. HandedLast(m, e, f, handed, Reading /\ Passing, frame, Open)
        BY DEF Layout
      <4>2. CASE e[0] < 0
        <5>1. ~handed.last /\ handed.pos = -e[0] /\ handed.frame = f[0]
          BY <2>1, <4>1, <4>2 DEF HandedLast
        <5>2. handed'.pos = handed.pos + 1
          BY <1>1, <3>2, <5>1
        <5> QED BY <3>2, <5>1, <5>2
      <4>3. CASE e[0] = 0
        <5>1. handed.last /\ \A j \in 0 .. m - 1 : handed.frame < f[j]
          BY <4>1, <4>3 DEF HandedLast
        <5>2. handed.frame < f[0] /\ handed.frame \in Nat /\ f[0] \in Nat
          <6>1. 0 \in 0 .. m - 1
            BY <1>1
          <6>2. handed.frame \in Nat
            BY DEF RxTypes, WordSet
          <6> QED BY <5>1, <6>1, <6>2
        <5> QED BY <3>2, <4>3, <5>1, <5>2
      <4> QED BY <1>1, <4>2, <4>3
    <3> QED BY <3>4, <3>5
  <2>2. CASE ~Passing
    <3>1. handed' = handed
      BY <2>2 DEF ReadHalf, HandOn
    <3>2. TuserGood => HandedLast(m, d, f, handed', (Reading /\ Passing)', frame, Open)
      BY <1>13, <2>2, <3>1 DEF Layout, HandedLast
    <3> QED BY <3>1, <3>2 DEF GoodHandOn
  <2> QED BY <2>1, <2>2
<1>16. Matched(m, c, Taken', cmd_out'.crc, CmdRead, Len(CmdRead), Behind, cmd_in.crc)
  BY <1>1, <1>13 DEF Layout
<1>17. HalfWay(m, d, f, g, c, q, CmdRead)
  BY <1>4, <1>6, <1>9, <1>12, <1>15, <1>16 DEF Layout, HalfWay
<1> QED BY <1>5, <1>7, <1>12, <1>15, <1>17 DEF ReadStates

(* The last word of a packet is read: the read FSM waits for a command     *)
(* again.                                                                  *)
LEMMA ReadsLast ==
  ASSUME NEW m \in Nat, NEW e \in [Nat -> Int], NEW f \in [Nat -> Nat], NEW g \in [Nat -> BOOLEAN],
         NEW c \in [Nat -> BOOLEAN], Layout(m, e, f, g, c),
         RxTypes, Stored \in Nat, NEW ready \in BOOLEAN, ReadHalf(ready), Reading,
         axis_rd_tready(ready), e[1] = 1
  PROVE  /\ m - 1 \in Nat
         /\ HalfWay(m - 1, [j \in Nat |-> e[j + 1] - 1], [j \in Nat |-> f[j + 1]],
                    [j \in Nat |-> g[j + 1]], [j \in Nat |-> c[j + 1]], DataRead(ready), CmdRead)
         /\ TuserGood => GoodHandOn
         /\ state_rd' \in ReadStates
<1>0. PacketThere(m, e, c)
  BY WhileReading
<1>1. /\ Taken = 1 /\ CmdRead = cmdFifo /\ cmd_out' = cmd_out /\ c[0] = cmd_out.crc
      /\ m > 0 /\ e[0] \in Int /\ e[0] + 2 <= e[1]
      /\ axis_rd_tvalid /\ Head(dataFifo) = dataFifo[1]
  BY <1>0, Zenon DEF PacketThere
<1>2. PICK n \in Nat : n = Len(dataFifo)
  <2>1. dataFifo \in Seq(WordSet)
    BY DEF RxTypes
  <2> QED BY <2>1, LenProperties
<1>3. PICK q : q = Tail(dataFifo)
  OBVIOUS
<1>4. Len(q) = n - 1 /\ \A i \in 1 .. n - 1 : q[i] = dataFifo[i + 1]
  BY <1>0, <1>2, <1>3, Zenon DEF PacketThere
<1>5. DataRead(ready) = q
  BY <1>1, <1>3 DEF DataRead
<1>6. PICK t \in Nat : t = Stored
  OBVIOUS
<1>7. PICK d, f1, g1, c1 : /\ d = [j \in Nat |-> e[j + 1] - 1] /\ f1 = [j \in Nat |-> f[j + 1]]
                           /\ g1 = [j \in Nat |-> g[j + 1]] /\ c1 = [j \in Nat |-> c[j + 1]]
  OBVIOUS
<1>8. EarlierRest(d, e) /\ Rest(f1, f) /\ Rest(g1, g) /\ Rest(c1, c)
  <2>1. \A j \in Nat : e[j + 1] \in Int
    OBVIOUS
  <2>2. d \in [Nat -> Int] /\ \A j \in Nat : d[j] = e[j + 1] - 1
    BY <1>7, <2>1
  <2> QED BY <1>7, <2>2 DEF EarlierRest, Rest
<1>9. n > 0 /\ d[0] = 0 /\ Packets(q, n - 1, m - 1, d, f1, g1, c1, t, frame, good)
  <2>1. Packets(dataFifo, n, m, e, f, g, c, t, frame, good)
    BY <1>2, <1>6 DEF Layout
  <2>2. m > 0
    BY <1>1
  <2>3. Shorter(q, dataFifo, n)
    BY <1>4 DEF Shorter
  <2> QED BY <1>8, <2>1, <2>2, <2>3, ReadLast
<1>10. dataFifo[1].last
  <2>1. 1 \in 1 .. m
    BY <1>1
  <2>2. dataFifo[e[1]].last
    BY <2>1 DEF Layout, Packets
  <2> QED BY <2>2
<1>11. state_rd = "BEGIN_READ"
  <2>1. e[0] # 0
    BY <1>1
  <2> QED BY <2>1 DEF Layout, ReadFsmInv
<1>12. state_rd' = "IDLE_RD"
  BY <1>1, <1>10, <1>11 DEF ReadHalf, ReadFsm, axis_rd_tlast
<1>13. ~Reading' /\ Taken' = 0
  BY <1>12 DEF Reading, Taken
<1>14. TuserGood => InOrder(m - 1, f1, frame, Open)
  <2> SUFFICES ASSUME TuserGood PROVE InOrder(m - 1, f1, frame, Open)
    OBVIOUS
  <2>1. InOrder(m, f, frame, Open)
    BY DEF Layout
  <2>2. \A i, j \in 0 .. (m - 1) - 1 : i < j => f1[i] < f1[j]
    <3> TAKE i, j \in 0 .. (m - 1) - 1
    <3>1. i \in Nat /\ j \in Nat /\ i + 1 \in 0 .. m - 1 /\ j + 1 \in 0 .. m - 1
          /\ (i < j => i + 1 < j + 1)
      OBVIOUS
    <3>2. f1[i] = f[i + 1] /\ f1[j] = f[j + 1]
      BY <1>8, <3>1 DEF Rest
    <3> QED BY <2>1, <3>1, <3>2 DEF InOrder
  <2>3. \A j \in 0 .. (m - 1) - 1 : f1[j] <= frame /\ (Open => f1[j] < frame)
    <3> TAKE j \in 0 .. (m - 1) - 1
    <3>1. j \in Nat /\ j + 1 \in 0 .. m - 1
      OBVIOUS
    <3>2. f1[j] = f[j + 1]
      BY <1>8, <3>1 DEF Rest
    <3> QED BY <2>1, <3>1, <3>2 DEF InOrder
  <2> QED BY <2>2, <2>3 DEF InOrder
<1>15. TuserGood => \A j \in 0 .. (m - 1) - 1 : f[0] < f1[j]
  <2> SUFFICES ASSUME TuserGood, NEW j \in 0 .. (m - 1) - 1 PROVE f[0] < f1[j]
    OBVIOUS
  <2>1. 0 \in 0 .. m - 1 /\ j \in Nat /\ j + 1 \in 0 .. m - 1 /\ 0 < j + 1
    OBVIOUS
  <2>2. f1[j] = f[j + 1]
    BY <1>8, <2>1 DEF Rest
  <2> QED BY <2>1, <2>2 DEF Layout, InOrder
<1>16. /\ TuserGood => HandedLast(m - 1, d, f1, handed', (Reading /\ Passing)', frame, Open)
       /\ TuserGood => GoodHandOn
  <2>0. SUFFICES ASSUME TuserGood
                 PROVE  /\ HandedLast(m - 1, d, f1, handed', FALSE, frame, Open)
                        /\ GoodHandOn
    BY <1>13 DEF HandedLast
  <2>1. 0 \in 0 .. m - 1
    BY <1>1
  <2>2. HandedLast(m, e, f, handed, Reading /\ Passing, frame, Open)
    BY <2>0 DEF Layout
  <2>3. CASE Passing
    <3>1. c[0]
      BY <1>1, <2>0, <2>3 DEF Passing, crc_pass
    <3>2. dataFifo[1] = MacWord(f[0], 1 - e[0], TRUE, TRUE)
      <4>1. dataFifo[e[0 + 1]] = MacWord(f[0], e[0 + 1] - e[0], TRUE, TRUE)
        BY <2>0, <2>1, <3>1 DEF Layout, Packets
      <4>2. 0 + 1 = 1
        OBVIOUS
      <4>3. e[0 + 1] = 1
        BY <4>2
      <4> QED BY <4>1, <4>3, Zenon
    <3>3. handed' = MacWord(f[0], 1 - e[0], TRUE, TRUE)
      BY <1>1, <2>3, <3>2 DEF ReadHalf, HandOn, axis_rd_tready
    <3>4. handed'.last = TRUE /\ handed'.eof = TRUE /\ handed'.pos = 1 - e[0] /\ handed'.frame = f[0]
          /\ handed'.good = TRUE
      BY <3>3 DEF MacWord
    <3>5. f[0] <= frame /\ (Open => f[0] < frame)
      BY <2>0, <2>1 DEF Layout, InOrder
    <3>6. HandedLast(m - 1, d, f1, handed', FALSE, frame, Open)
      BY <1>15, <2>0, <3>4, <3>5 DEF HandedLast
    <3>7. ~handed.last /\ handed.pos = -e[0] /\ handed.frame = f[0]
      <4>1. e[0] < 0
        BY <1>1
      <4> QED BY <2>2, <2>3, <4>1 DEF HandedLast
    <3>8. handed'.pos = handed.pos + 1
      BY <1>1, <3>4, <3>7
    <3> QED BY <3>4, <3>6, <3>7, <3>8 DEF GoodHandOn
  <2>4. CASE ~Passing
    <3>1. handed' = handed
      BY <2>4 DEF ReadHalf, HandOn
    <3>2. /\ handed.last /\ handed.frame <= frame /\ (Open => handed.frame < frame)
          /\ \A j \in 0 .. m - 1 : handed.frame < f[j]
      BY <2>2, <2>4 DEF HandedLast
    <3>3. \A j \in 0 .. (m - 1) - 1 : handed.frame < f1[j]
      <4> TAKE j \in 0 .. (m - 1) - 1
      <4>1. j \in Nat /\ j + 1 \in 0 .. m - 1
        OBVIOUS
      <4>2. f1[j] = f[j + 1]
        BY <1>8, <4>1 DEF Rest
      <4> QED BY <3>2, <4>1, <4>2
    <3>4. HandedLast(m - 1, d, f1, handed', FALSE, frame, Open)
      BY <3>1, <3>2, <3>3 DEF HandedLast
    <3> QED BY <3>1, <3>4 DEF GoodHandOn
  <2> QED BY <2>3, <2>4
<1>17. Matched(m - 1, c1, 0, cmd_out.crc, cmdFifo, Len(cmdFifo), Behind, cmd_in.crc)
  <2>1. PICK k \in Nat : k = Len(cmdFifo)
    <3>1. cmdFifo \in Seq(CmdSet)
      BY DEF RxTypes
    <3> QED BY <3>1, LenProperties
  <2>2. Behind \in {0, 1}
    BY DEF Behind
  <2>3. /\ m = 1 + k + Behind /\ (Behind = 1 => c[m - 1] = cmd_in.crc)
        /\ \A i \in 1 .. k : c[1 + i - 1] = cmdFifo[i].crc
    BY <1>1, <2>1 DEF Layout, Matched
  <2>4. m - 1 = 0 + k + Behind
    BY <2>2, <2>3
  <2>5. \A i \in 1 .. k : c1[0 + i - 1] = cmdFifo[i].crc
    <3> TAKE i \in 1 .. k
    <3>1. 0 + i - 1 \in Nat /\ (0 + i - 1) + 1 = 1 + i - 1
      OBVIOUS
    <3> QED BY <1>8, <2>3, <3>1 DEF Rest
  <2>6. Behind = 1 => c1[(m - 1) - 1] = cmd_in.crc
    <3> SUFFICES ASSUME Behind = 1 PROVE c1[(m - 1) - 1] = cmd_in.crc
      OBVIOUS
    <3>1. (m - 1) - 1 \in Nat /\ ((m - 1) - 1) + 1 = m - 1
      BY <2>3
    <3> QED BY <1>8, <2>3, <3>1 DEF Rest
  <2> QED BY <2>1, <2>4, <2>5, <2>6 DEF Matched
<1>18. HalfWay(m - 1, d, f1, g1, c1, q, CmdRead)
  BY <1>1, <1>4, <1>6, <1>9, <1>12, <1>13, <1>14, <1>16, <1>17 DEF HalfWay
<1>19. m - 1 \in Nat
  BY <1>1
<1> QED BY <1>5, <1>7, <1>12, <1>16, <1>18, <1>19 DEF ReadStates

(* The read FSM's half, whatever its state. *)
LEMMA ReadStep ==
  ASSUME NEW m \in Nat, NEW e \in [Nat -> Int], NEW f \in [Nat -> Nat], NEW g \in [Nat -> BOOLEAN],
         NEW c \in [Nat -> BOOLEAN], Layout(m, e, f, g, c),
         RxTypes, Stored \in Nat, NEW ready \in BOOLEAN, ReadHalf(ready)
  PROVE  /\ \E m1 \in Nat, e1 \in [Nat -> Int], f1 \in [Nat -> Nat], g1, c1 \in [Nat -> BOOLEAN] :
              HalfWay(m1, e1, f1, g1, c1, DataRead(ready), CmdRead)
         /\ TuserGood => GoodHandOn
         /\ state_rd' \in ReadStates
<1>1. CASE state_rd = "IDLE_RD"
  <2>1. HalfWay(m, e, f, g, c, DataRead(ready), CmdRead) /\ GoodHandOn /\ state_rd' \in ReadStates
    BY <1>1, ReadIdle
  <2> QED BY <2>1, Zenon
<1>2. CASE state_rd = "PREP_READ_1"
  <2>1. HalfWay(m, e, f, g, c, DataRead(ready), CmdRead) /\ GoodHandOn /\ state_rd' \in ReadStates
    BY <1>2, ReadCommand
  <2> QED BY <2>1, Zenon
<1>3. CASE Reading /\ ~axis_rd_tready(ready)
  <2>1. HalfWay(m, e, f, g, c, DataRead(ready), CmdRead) /\ GoodHandOn /\ state_rd' \in ReadStates
    BY <1>3, ReadWaits
  <2> QED BY <2>1, Zenon
<1>4. CASE Reading /\ axis_rd_tready(ready)
  <2>0. PacketThere(m, e, c)
    BY <1>4, WhileReading
  <2>1. e[1] >= 1 /\ e[1] \in Int
    BY <2>0, Zenon DEF PacketThere
  <2>2. CASE e[1] > 1
    <3>1. PICK d : d = [j \in Nat |-> e[j] - 1]
      OBVIOUS
    <3>2. d \in [Nat -> Int]
      <4>1. \A j \in Nat : e[j] - 1 \in Int
        OBVIOUS
      <4> QED BY <3>1, <4>1
    <3>3. /\ HalfWay(m, d, f, g, c, DataRead(ready), CmdRead)
          /\ TuserGood => GoodHandOn
          /\ state_rd' \in ReadStates
      BY <1>4, <2>2, <3>1, ReadsWord
    <3> QED BY <3>2, <3>3, Zenon
  <2>3. CASE e[1] = 1
    <3>1. PICK d, f1, g1, c1 : /\ d = [j \in Nat |-> e[j + 1] - 1] /\ f1 = [j \in Nat |-> f[j + 1]]
                               /\ g1 = [j \in Nat |-> g[j + 1]] /\ c1 = [j \in Nat |-> c[j + 1]]
      OBVIOUS
    <3>2. d \in [Nat -> Int] /\ f1 \in [Nat -> Nat] /\ g1 \in [Nat -> BOOLEAN]
          /\ c1 \in [Nat -> BOOLEAN]
      <4>1. \A j \in Nat : j + 1 \in Nat
        OBVIOUS
      <4>2. \A j \in Nat : e[j + 1] - 1 \in Int /\ f[j + 1] \in Nat
        BY <4>1
      <4>3. d \in [Nat -> Int] /\ f1 \in [Nat -> Nat]
        BY <3>1, <4>2
      <4>4. g1 \in [Nat -> BOOLEAN] /\ c1 \in [Nat -> BOOLEAN]
        BY <3>1, <4>1, Zenon
      <4> QED BY <4>3, <4>4
    <3>3. /\ m - 1 \in Nat
          /\ HalfWay(m - 1, d, f1, g1, c1, DataRead(ready), CmdRead)
          /\ TuserGood => GoodHandOn
          /\ state_rd' \in ReadStates
      BY <1>4, <2>3, <3>1, ReadsLast, ZenonT(60)
    <3> QED BY <3>2, <3>3, Zenon
  <2>4. e[1] > 1 \/ e[1] = 1
    BY <2>1
  <2> QED BY <2>2, <2>3, <2>4, Zenon
<1>5. state_rd \in {"IDLE_RD", "PREP_READ_1", "PREP_READ_2", "BEGIN_READ"}
  BY DEF RxTypes
<1> QED BY <1>1, <1>2, <1>3, <1>4, <1>5 DEF Reading

-----------------------------------------------------------------------------
(* The write FSM's half.  First what the MAC can do: nothing, begin a      *)
(* frame, go on with it, or end it.                                        *)
Silent(w) == w = NoWord /\ frame' = frame /\ pos' = pos /\ good' = good
First(w)  == /\ pos = 0 /\ w = MacWord(frame + 1, 1, FALSE, good')
             /\ frame' = frame + 1 /\ pos' = 1 /\ good' \in BOOLEAN
Middle(w) == /\ pos > 0 /\ w = MacWord(frame, pos + 1, FALSE, good)
             /\ frame' = frame /\ pos' = pos + 1 /\ good' = good
Final(w)  == /\ pos > 0 /\ w = MacWord(frame, pos + 1, TRUE, good) /\ pos + 1 >= MinWords
             /\ frame' = frame /\ pos' = 0 /\ good' = good

LEMMA MacStep ==
  ASSUME RxTypes, NEW w \in MacWords, Mac(w)
  PROVE  axi_r' = w /\ (Silent(w) \/ First(w) \/ Middle(w) \/ Final(w))
<1>1. pos \in Nat /\ axi_r' = w
  BY DEF RxTypes, Mac
<1>2. CASE w = NoWord
  <2>1. ~w.valid
    BY <1>2 DEF NoWord
  <2> QED BY <1>1, <1>2, <2>1 DEF Mac, Silent, macVars
<1>3. CASE w # NoWord /\ pos = 0
  <2>1. PICK b \in BOOLEAN : w = MacWord(frame + 1, 1, FALSE, b)
    BY <1>3 DEF MacWords
  <2>2. w.valid = TRUE /\ w.frame = frame + 1 /\ w.good = b /\ w.eof = FALSE /\ w.pos = 1
    BY <2>1 DEF MacWord
  <2>3. frame' = frame + 1 /\ good' = b /\ pos' = 1
    BY <2>2 DEF Mac
  <2> QED BY <1>1, <1>3, <2>1, <2>3 DEF First
<1>4. CASE w # NoWord /\ pos # 0
  <2>1. PICK b \in BOOLEAN : w = MacWord(frame, pos + 1, b, good) /\ (b => pos + 1 >= MinWords)
    BY <1>4 DEF MacWords
  <2>2. w.valid = TRUE /\ w.frame = frame /\ w.good = good /\ w.eof = b /\ w.pos = pos + 1
    BY <2>1 DEF MacWord
  <2>3. frame' = frame /\ good' = good /\ pos' = IF b THEN 0 ELSE pos + 1
    BY <2>2 DEF Mac
  <2>4. pos > 0
    BY <1>1, <1>4
  <2>5. CASE b = TRUE
    BY <1>1, <2>1, <2>3, <2>4, <2>5 DEF Final
  <2>6. CASE b = FALSE
    BY <1>1, <2>1, <2>3, <2>4, <2>6 DEF Middle
  <2> QED BY <2>5, <2>6
<1> QED BY <1>2, <1>3, <1>4

LEMMA MacCounts ==
  ASSUME NEW w
  PROVE  /\ Silent(w) => frame' = frame /\ pos' = pos /\ good' = good
         /\ First(w)  => pos = 0 /\ frame' = frame + 1 /\ pos' = 1 /\ good' \in BOOLEAN
         /\ Middle(w) => pos > 0 /\ frame' = frame /\ pos' = pos + 1 /\ good' = good
         /\ Final(w)  => /\ pos > 0 /\ pos + 1 >= MinWords
                         /\ frame' = frame /\ pos' = 0 /\ good' = good
  BY Zenon DEF Silent, First, Middle, Final

(* The word of this cycle, as the write FSM sees it. *)
LEMMA WordSeen ==
  ASSUME NEW w
  PROVE  /\ Silent(w) => w.valid = FALSE /\ w.last = FALSE
         /\ First(w) \/ Middle(w) => w.valid = TRUE /\ w.last = FALSE
         /\ Final(w) => w.valid = TRUE /\ w.last = TRUE
         /\ First(w) => w.pos = 1
         /\ Middle(w) \/ Final(w) => w.pos = pos + 1
  BY DEF Silent, First, Middle, Final, NoWord, MacWord

(* The word of the last cycle. *)
LEMMA WordKept ==
  ASSUME RxTypes, Arrived
  PROVE  \/ axi_r = NoWord /\ axi_r.valid = FALSE /\ axi_r.last = FALSE
         \/ /\ axi_r = MacWord(frame, pos, FALSE, good) /\ pos > 0
            /\ axi_r.valid = TRUE /\ axi_r.last = FALSE /\ axi_r.pos = pos
         \/ /\ axi_r = MacWord(frame, axi_r.pos, TRUE, good) /\ pos = 0
            /\ axi_r.valid = TRUE /\ axi_r.last = TRUE /\ axi_r.pos >= MinWords /\ axi_r.pos \in Nat
<1>1. CASE axi_r = NoWord
  BY <1>1 DEF NoWord
<1>2. CASE axi_r = MacWord(frame, pos, FALSE, good) /\ pos > 0
  BY <1>2 DEF MacWord
<1>3. CASE pos = 0 /\ \E n \in Nat : n >= MinWords /\ axi_r = MacWord(frame, n, TRUE, good)
  <2>1. PICK n \in Nat : n >= MinWords /\ axi_r = MacWord(frame, n, TRUE, good)
    BY <1>3
  <2>2. axi_r.pos = n /\ axi_r.valid = TRUE /\ axi_r.last = TRUE
    BY <2>1 DEF MacWord
  <2> QED BY <1>3, <2>1, <2>2
<1> QED BY <1>1, <1>2, <1>3 DEF Arrived

(* Both FIFOs suffice: the data FIFO by the space that is left in each     *)
(* state, the command FIFO because the packets of its commands, each two   *)
(* words or more, are in the data FIFO.                                    *)
LEMMA Suffice ==
  ASSUME RxInv, RxAssumption
  PROVE  FifosSuffice
<1>1. RxTypes /\ Arrived /\ WriteFsmInv /\ Room
  BY DEF RxInv
<1>2. PICK m \in Nat, e \in [Nat -> Int], f \in [Nat -> Nat], g \in [Nat -> BOOLEAN],
           c \in [Nat -> BOOLEAN] : Layout(m, e, f, g, c)
  BY DEF RxInv
<1>3. PICK n \in Nat : n = Len(dataFifo)
  <2>1. dataFifo \in Seq(WordSet)
    BY <1>1 DEF RxTypes
  <2> QED BY <2>1, LenProperties
<1>4. PICK k \in Nat : k = Len(cmdFifo)
  <2>1. cmdFifo \in Seq(CmdSet)
    BY <1>1 DEF RxTypes
  <2> QED BY <2>1, LenProperties
<1>5. /\ FifoDepth \in Nat /\ CmdDepth \in Nat /\ THRESHOLD \in Nat /\ THRESHOLD >= 3
      /\ 2 * CmdDepth >= FifoDepth /\ MinWords \in Nat /\ MinWords >= 3
  BY DEF RxAssumption
<1>6. axis_wr_tvalid => n < FifoDepth
  <2> SUFFICES ASSUME axis_wr_tvalid PROVE n < FifoDepth
    OBVIOUS
  <2>1. state_wr \in {"IDLE_WR", "DA_DECODE", "BEGIN_WRITE"}
        /\ (state_wr # "BEGIN_WRITE" => axi_r.valid)
    BY <1>1 DEF RxTypes, axis_wr_tvalid
  <2>2. n + THRESHOLD <= FifoDepth + 2
    <3>1. CASE state_wr = "DA_DECODE"
      <4>1. n + THRESHOLD <= FifoDepth + 1
        BY <1>1, <1>3, <3>1 DEF Room
      <4> QED BY <1>5, <4>1
    <3>2. CASE state_wr # "DA_DECODE"
      BY <1>1, <1>3, <2>1, <3>2 DEF Room
    <3> QED BY <3>1, <3>2
  <2> QED BY <1>5, <2>2
<1>7. PICK t \in Nat : t = Stored
  BY <1>1, StoredNat
<1>8. n = e[m] + t /\ e[m] \in Nat /\ e[m] >= e[0] + 2 * m /\ (m > 0 => e[m] >= 2 * m - 1)
  <2>1. Packets(dataFifo, n, m, e, f, g, c, t, frame, good)
    BY <1>2, <1>3, <1>7 DEF Layout
  <2>2. /\ \A j \in 1 .. m : e[j] \in 1 .. n
        /\ e[m] \in Nat /\ n = e[m] + t
        /\ e[m] >= e[0] + 2 * m
        /\ m > 0 => e[m] >= 2 * m - 1
    BY <2>1, EndsInside, ZenonT(30)
  <2> QED BY <2>2
<1>9. e[m] >= 2 * (m - Taken) /\ (Taken = 1 => e[m] >= 2 * (m - 1) + 1) /\ Taken \in {0, 1}
  <2>1. CASE Reading
    <3>1. Taken = 1 /\ m > 0
      <4>1. Taken = 1
        BY <2>1 DEF Taken
      <4>2. m = 1 + k + Behind /\ Behind \in {0, 1}
        BY <1>2, <1>4, <4>1 DEF Layout, Matched, Behind
      <4> QED BY <4>1, <4>2
    <3> QED BY <1>8, <3>1
  <2>2. CASE ~Reading
    <3>1. Taken = 0 /\ e[0] = 0
      BY <1>2, <2>2 DEF Layout, ReadFsmInv, Reading, Taken
    <3> QED BY <1>8, <3>1
  <2> QED BY <2>1, <2>2
<1>10. m = Taken + k + Behind
  BY <1>2, <1>4 DEF Layout, Matched
<1>11. wr_en => k # CmdDepth
  <2> SUFFICES ASSUME wr_en PROVE k < CmdDepth
    BY <1>4, <1>5
  <2>1. state_wr \in {"IDLE_WR", "DROP_FRAME"}
    BY <1>1 DEF RxTypes, WriteFsmInv
  <2>2. CASE state_wr = "DROP_FRAME"
    <3>1. Behind = 1
      BY <2>2 DEF Behind
    <3>2. n <= FifoDepth
      BY <1>1, <1>3 DEF Room
    <3>3. PICK u \in {0, 1}, x \in Nat : u = Taken /\ x = e[m]
      BY <1>8, <1>9
    <3>4. m = u + k + 1 /\ x >= 2 * (m - u) /\ n = x + t
      BY <1>8, <1>9, <1>10, <3>1, <3>3
    <3>5. 2 * k + 2 <= n
      BY <3>4
    <3> QED BY <1>5, <3>2, <3>5
  <2>3. CASE state_wr = "IDLE_WR"
    <3>1. Behind = 0 /\ axi_r.valid
      BY <1>1, <2>3 DEF Behind, WriteFsmInv
    <3>2. n + THRESHOLD <= FifoDepth + 2
      BY <1>1, <1>3, <2>3, <3>1 DEF Room
    <3>3. t >= 1
      <4>1. pos = 0
        BY <1>1, <2>3 DEF WriteFsmInv
      <4>2. axi_r.pos >= MinWords /\ axi_r.pos \in Nat
        BY <1>1, <3>1, <4>1, WordKept
      <4> QED BY <1>5, <1>7, <2>3, <3>1, <4>2 DEF Stored
    <3>4. PICK u \in {0, 1}, x \in Nat : u = Taken /\ x = e[m]
      BY <1>8, <1>9
    <3>5. m = u + k + 0 /\ x >= 2 * (m - u) /\ n = x + t
      BY <1>8, <1>9, <1>10, <3>1, <3>4
    <3>6. 2 * k + 1 <= n
      BY <3>3, <3>5
    <3> QED BY <1>5, <3>2, <3>6
  <2> QED BY <2>1, <2>2, <2>3
<1>12. axis_wr_tvalid => left_over_space_in_fifo > 0
  BY <1>3, <1>5, <1>6 DEF left_over_space_in_fifo
<1>13. wr_en => ~full
  BY <1>4, <1>11 DEF full
<1> QED BY <1>12, <1>13 DEF FifosSuffice

(* The write FSM follows the frame. *)
LEMMA ArrivedStep ==
  ASSUME RxTypes, RxAssumption, NEW w \in MacWords, Mac(w)
  PROVE  Arrived' /\ frame' \in Nat /\ pos' \in Nat /\ good' \in BOOLEAN
<1>1. axi_r' = w /\ (Silent(w) \/ First(w) \/ Middle(w) \/ Final(w))
  BY MacStep
<1>2. frame \in Nat /\ pos \in Nat /\ good \in BOOLEAN /\ MinWords \in Nat /\ MinWords >= 3
  BY DEF RxTypes, RxAssumption
<1>3. frame' \in Nat /\ pos' \in Nat /\ good' \in BOOLEAN
  <2>1. good' = good \/ good' \in BOOLEAN
    BY <1>1, MacCounts, Zenon
  <2>2. frame' = frame \/ frame' = frame + 1
    BY <1>1, MacCounts, Zenon
  <2>3. pos' = pos \/ pos' = pos + 1 \/ pos' = 1 \/ pos' = 0
    BY <1>1, MacCounts, Zenon
  <2>4. frame' \in Nat /\ pos' \in Nat
    BY <1>2, <2>2, <2>3
  <2> QED BY <1>2, <2>1, <2>4
<1>4. CASE Silent(w)
  <2>1. axi_r' = NoWord'
    BY <1>1, <1>4 DEF Silent, NoWord
  <2> QED BY <1>3, <2>1 DEF Arrived
<1>5. CASE First(w) \/ Middle(w)
  <2>1. axi_r' = MacWord(frame', pos', FALSE, good') /\ pos' > 0
    <3>1. CASE First(w)
      BY <1>1, <3>1 DEF First
    <3>2. CASE Middle(w)
      <4>1. axi_r' = MacWord(frame', pos', FALSE, good')
        BY <1>1, <3>2, Zenon DEF Middle
      <4>2. pos' > 0
        BY <1>2, <3>2, MacCounts
      <4> QED BY <4>1, <4>2
    <3> QED BY <1>5, <3>1, <3>2
  <2> QED BY <1>3, <2>1 DEF Arrived
<1>6. CASE Final(w)
  <2>1. pos + 1 \in Nat /\ pos + 1 >= MinWords /\ pos' = 0
        /\ axi_r' = MacWord(frame', pos + 1, TRUE, good')
    BY <1>1, <1>2, <1>6 DEF Final
  <2> QED BY <1>3, <2>1 DEF Arrived
<1> QED BY <1>1, <1>4, <1>5, <1>6

LEMMA WriteFsmStep ==
  ASSUME RxTypes, RxAssumption, Arrived, WriteFsmInv, Waiting, Room,
         NEW w \in MacWords, Mac(w), ForceTlast(w), WriteFsm(w)
  PROVE  /\ WriteFsmInv' /\ Waiting'
         /\ wr_en' \in BOOLEAN /\ force_tlast_to_fifo' \in BOOLEAN /\ cmd_in' \in CmdSet
         /\ state_wr' \in {"IDLE_WR", "DA_DECODE", "BEGIN_WRITE", "DROP_FRAME"}
<1>1. axi_r' = w /\ (Silent(w) \/ First(w) \/ Middle(w) \/ Final(w))
  BY MacStep
<1>2. frame \in Nat /\ pos \in Nat /\ good \in BOOLEAN /\ MinWords \in Nat /\ MinWords >= 3
  BY DEF RxTypes, RxAssumption
<1>3. force_tlast_to_fifo' \in BOOLEAN
      /\ (force_tlast_to_fifo' => wr_reached_threshold)
  BY DEF ForceTlast
<1>4. w.valid \in BOOLEAN /\ w.last \in BOOLEAN /\ Tuser(w) \in BOOLEAN
  <2>1. w.valid \in BOOLEAN /\ w.last \in BOOLEAN
    BY <1>1, WordSeen
  <2>2. TuserGood \in BOOLEAN
    BY DEF RxAssumption
  <2> QED BY <2>1, <2>2 DEF Tuser
<1>5. cmd_in \in CmdSet /\ force_tlast_to_fifo \in BOOLEAN /\ wr_en \in BOOLEAN
  BY DEF RxTypes
<1>6. CASE state_wr = "IDLE_WR"
  <2>1. /\ wr_en' = FALSE /\ cmd_in' = [valid |-> FALSE, crc |-> FALSE]
        /\ state_wr' = IF ~w.valid THEN "IDLE_WR"
                       ELSE IF full \/ wr_reached_threshold THEN "DROP_FRAME" ELSE "DA_DECODE"
    BY <1>6 DEF WriteFsm, IdleWr, DaDecode, BeginWrite, DropFrame
  <2>2. pos = 0
    BY <1>6 DEF WriteFsmInv
  <2>3. ~Middle(w) /\ ~Final(w)
    BY <2>2 DEF Middle, Final
  <2>4. cmd_in' \in CmdSet
    BY <2>1 DEF CmdSet
  <2>5. CASE Silent(w)
    <3>1. state_wr' = "IDLE_WR" /\ pos' = 0 /\ axi_r'.valid = FALSE
      BY <1>1, <2>1, <2>2, <2>5, WordSeen DEF Silent
    <3> QED BY <1>3, <2>1, <2>4, <3>1 DEF WriteFsmInv, Waiting, Behind
  <2>6. CASE First(w)
    <3>1. pos' = 1 /\ axi_r'.valid = TRUE /\ state_wr' \in {"DROP_FRAME", "DA_DECODE"}
          /\ (state_wr' = "DA_DECODE" => ~wr_reached_threshold)
      BY <1>1, <2>1, <2>6, WordSeen DEF First
    <3>2. state_wr' = "DA_DECODE" => ~force_tlast_to_fifo'
      BY <1>3, <3>1
    <3> QED BY <1>3, <2>1, <2>4, <3>1, <3>2 DEF WriteFsmInv, Waiting, Behind
  <2> QED BY <1>1, <2>3, <2>5, <2>6
<1>7. CASE state_wr = "DA_DECODE"
  <2>1. wr_en' = FALSE /\ cmd_in' = [cmd_in EXCEPT !.valid = TRUE] /\ state_wr' = "BEGIN_WRITE"
    BY <1>7 DEF WriteFsm, IdleWr, DaDecode, BeginWrite, DropFrame
  <2>2. pos = 1
    BY <1>7 DEF WriteFsmInv
  <2>3. ~First(w) /\ ~Final(w)
    BY <1>2, <2>2, MacCounts
  <2>4. cmd_in' \in CmdSet
    BY <1>5, <2>1 DEF CmdSet
  <2>5. pos' > 0 /\ (axi_r'.valid => pos' > 1)
    <3>1. CASE Silent(w)
      <4>1. axi_r'.valid = FALSE
        BY <1>1, <3>1, WordSeen
      <4>2. pos' = 1
        BY <2>2, <3>1, MacCounts
      <4> QED BY <4>1, <4>2
    <3>2. CASE Middle(w)
      BY <2>2, <3>2, MacCounts
    <3> QED BY <1>1, <2>3, <3>1, <3>2
  <2>6. WriteFsmInv'
    BY <2>1, <2>5 DEF WriteFsmInv
  <2>7. Waiting'
    BY <2>1 DEF Waiting, Behind
  <2> QED BY <1>3, <2>1, <2>4, <2>6, <2>7
<1>8. CASE state_wr = "BEGIN_WRITE"
  <2>1. /\ wr_en' = (force_tlast_to_fifo \/ (w.last /\ w.valid))
        /\ cmd_in' = [cmd_in EXCEPT !.crc = ~force_tlast_to_fifo /\ w.last /\ w.valid /\ Tuser(w)]
        /\ state_wr' = IF force_tlast_to_fifo THEN "DROP_FRAME"
                       ELSE IF w.last /\ w.valid THEN "IDLE_WR" ELSE "BEGIN_WRITE"
    BY <1>8 DEF WriteFsm, IdleWr, DaDecode, BeginWrite, DropFrame
  <2>2. pos > 0
    BY <1>8 DEF WriteFsmInv
  <2>3. ~First(w)
    BY <1>2, <2>2, MacCounts
  <2>4. cmd_in' \in CmdSet
        /\ (cmd_in'.crc <=> ~force_tlast_to_fifo /\ w.last /\ w.valid /\ Tuser(w))
    BY <1>4, <1>5, <2>1 DEF CmdSet
  <2>5. wr_en' \in BOOLEAN
    BY <1>4, <1>5, <2>1
  <2>6. CASE force_tlast_to_fifo
    <3>1. state_wr' = "DROP_FRAME" /\ ~cmd_in'.crc
      BY <2>1, <2>4, <2>6
    <3> QED BY <1>3, <2>4, <2>5, <3>1 DEF WriteFsmInv, Waiting
  <2>7. CASE ~force_tlast_to_fifo /\ Final(w)
    <3>1. w.valid = TRUE /\ w.last = TRUE
      BY <2>7, WordSeen
    <3>2. state_wr' = "IDLE_WR" /\ pos' = 0 /\ wr_en' = TRUE /\ axi_r'.valid = TRUE
      BY <1>1, <1>5, <2>1, <2>7, <3>1 DEF Final
    <3>3. cmd_in'.crc = Tuser(w)
      BY <1>4, <2>4, <2>7, <3>1 DEF CmdSet
    <3>4. Tuser(axi_r)' = Tuser(w)
      BY <1>1 DEF Tuser
    <3> QED BY <1>3, <2>4, <2>5, <3>2, <3>3, <3>4 DEF WriteFsmInv, Waiting, Behind
  <2>8. CASE ~force_tlast_to_fifo /\ (Silent(w) \/ Middle(w))
    <3>1. w.last = FALSE /\ (Middle(w) => w.valid = TRUE) /\ (Silent(w) => w.valid = FALSE)
      BY <2>8, WordSeen
    <3>2. state_wr' = "BEGIN_WRITE" /\ wr_en' = FALSE
      BY <1>5, <2>1, <2>8, <3>1
    <3>3. pos' > 0 /\ (axi_r'.valid => pos' > 1)
      <4>1. CASE Silent(w)
        BY <1>1, <2>2, <3>1, <4>1, MacCounts
      <4>2. CASE Middle(w)
        BY <1>2, <2>2, <4>2, MacCounts
      <4> QED BY <2>8, <4>1, <4>2
    <3>4. WriteFsmInv'
      BY <3>2, <3>3 DEF WriteFsmInv
    <3>5. Waiting'
      BY <3>2 DEF Waiting, Behind
    <3> QED BY <1>3, <2>4, <3>2, <3>4, <3>5
  <2> QED BY <1>1, <2>3, <2>6, <2>7, <2>8
<1>9. CASE state_wr = "DROP_FRAME"
  <2>1. /\ wr_en' = FALSE /\ cmd_in' = cmd_in
        /\ state_wr' = IF axi_r.last /\ axi_r.valid /\ ~wr_reached_threshold_extend
                       THEN IF w.valid THEN "DA_DECODE" ELSE "IDLE_WR"
                       ELSE "DROP_FRAME"
    BY <1>9 DEF WriteFsm, IdleWr, DaDecode, BeginWrite, DropFrame
  <2>2. CASE state_wr' = "DROP_FRAME"
    BY <1>3, <1>5, <2>1, <2>2 DEF WriteFsmInv, Waiting, Behind
  <2>3. CASE state_wr' # "DROP_FRAME"
    <3>1. axi_r.last /\ axi_r.valid /\ ~wr_reached_threshold_extend
      BY <2>1, <2>3
    <3>2. pos = 0
      BY <3>1, WordKept
    <3>3. ~Middle(w) /\ ~Final(w)
      BY <3>2 DEF Middle, Final
    <3>4. ~wr_reached_threshold
      <4>1. PICK n \in Nat : n = Len(dataFifo)
        <5>1. dataFifo \in Seq(WordSet)
          BY DEF RxTypes
        <5> QED BY <5>1, LenProperties
      <4>2. FifoDepth \in Nat /\ THRESHOLD \in Nat /\ THRESHOLD_EXT \in Nat
            /\ THRESHOLD <= THRESHOLD_EXT
        BY DEF RxAssumption
      <4> QED BY <3>1, <4>1, <4>2
          DEF wr_reached_threshold, wr_reached_threshold_extend, left_over_space_in_fifo
    <3>5. CASE Silent(w)
      <4>1. state_wr' = "IDLE_WR" /\ pos' = 0 /\ axi_r'.valid = FALSE
        BY <1>1, <2>1, <3>1, <3>2, <3>5, WordSeen DEF Silent
      <4> QED BY <1>3, <1>5, <2>1, <4>1 DEF WriteFsmInv, Waiting, Behind
    <3>6. CASE First(w)
      <4>1. state_wr' = "DA_DECODE" /\ pos' = 1 /\ axi_r'.valid = TRUE
        BY <1>1, <2>1, <3>1, <3>6, WordSeen DEF First
      <4> QED BY <1>3, <1>5, <2>1, <3>4, <4>1 DEF WriteFsmInv, Waiting, Behind
    <3> QED BY <1>1, <3>3, <3>5, <3>6
  <2> QED BY <2>2, <2>3
<1>10. state_wr \in {"IDLE_WR", "DA_DECODE", "BEGIN_WRITE", "DROP_FRAME"}
  BY DEF RxTypes
<1> QED BY <1>6, <1>7, <1>8, <1>9, <1>10

LEMMA RoomStep ==
  ASSUME RxTypes, RxAssumption, Arrived, WriteFsmInv, Room,
         NEW w \in MacWords, Mac(w), ForceTlast(w), WriteFsm(w),
         NEW n \in Nat, n = Len(dataFifo), NEW n1 \in Nat, n1 = Len(dataFifo'),
         n1 <= n + 1, ~axis_wr_tvalid => n1 <= n, axis_wr_tvalid => n < FifoDepth
  PROVE  Room'
<1>1. axi_r' = w /\ (Silent(w) \/ First(w) \/ Middle(w) \/ Final(w))
  BY MacStep
<1>2. FifoDepth \in Nat /\ THRESHOLD \in Nat /\ THRESHOLD_EXT \in Nat /\ THRESHOLD <= THRESHOLD_EXT
      /\ MinWords >= 3 /\ MinWords \in Nat /\ pos \in Nat
  BY DEF RxAssumption, RxTypes
<1>3. n1 <= FifoDepth
  <2>1. n <= FifoDepth
    BY DEF Room
  <2> QED BY <1>2, <2>1
<1>4. wr_reached_threshold <=> FifoDepth - n < THRESHOLD
  BY DEF wr_reached_threshold, left_over_space_in_fifo
<1>5. ~wr_reached_threshold => n + THRESHOLD <= FifoDepth
  BY <1>2, <1>4
<1>6. CASE state_wr = "IDLE_WR"
  <2>1. state_wr' = IF ~w.valid THEN "IDLE_WR"
                    ELSE IF full \/ wr_reached_threshold THEN "DROP_FRAME" ELSE "DA_DECODE"
    BY <1>6 DEF WriteFsm, IdleWr, DaDecode, BeginWrite, DropFrame
  <2>2. CASE ~w.valid
    <3>1. state_wr' = "IDLE_WR" /\ ~axi_r'.valid
      BY <1>1, <2>1, <2>2
    <3> QED BY <1>3, <3>1 DEF Room
  <2>3. CASE w.valid /\ state_wr' = "DROP_FRAME"
    BY <1>3, <2>3 DEF Room
  <2>4. CASE w.valid /\ state_wr' = "DA_DECODE"
    <3>1. n + THRESHOLD <= FifoDepth
      BY <1>5, <2>1, <2>4
    <3>2. n1 + THRESHOLD <= FifoDepth + 1
      BY <1>2, <3>1
    <3> QED BY <1>3, <2>4, <3>2 DEF Room
  <2> QED BY <2>1, <2>2, <2>3, <2>4
<1>7. CASE state_wr = "DA_DECODE"
  <2>1. state_wr' = "BEGIN_WRITE"
    BY <1>7 DEF WriteFsm, IdleWr, DaDecode, BeginWrite, DropFrame
  <2>2. pos = 1 /\ ~force_tlast_to_fifo /\ n + THRESHOLD <= FifoDepth + 1
    BY <1>7 DEF WriteFsmInv, Room
  <2>3. ~Final(w)
    BY <1>2, <2>2, MacCounts
  <2>4. w.last = FALSE
    BY <1>1, <2>3, WordSeen
  <2>5. ~force_tlast_to_fifo' => ~wr_reached_threshold
    BY <2>2, <2>4 DEF ForceTlast
  <2>6. ~force_tlast_to_fifo' => n1 + THRESHOLD <= FifoDepth + 1
    BY <1>2, <1>5, <2>5
  <2>7. n1 + THRESHOLD <= FifoDepth + 2
    BY <1>2, <2>2
  <2> QED BY <1>3, <2>1, <2>6, <2>7 DEF Room
<1>8. CASE state_wr = "BEGIN_WRITE" /\ force_tlast_to_fifo
  <2>1. state_wr' = "DROP_FRAME"
    BY <1>8 DEF WriteFsm, IdleWr, DaDecode, BeginWrite, DropFrame
  <2> QED BY <1>3, <2>1 DEF Room
<1>9. CASE state_wr = "BEGIN_WRITE" /\ ~force_tlast_to_fifo
  <2>1. state_wr' = IF w.last /\ w.valid THEN "IDLE_WR" ELSE "BEGIN_WRITE"
    BY <1>9 DEF WriteFsm, IdleWr, DaDecode, BeginWrite, DropFrame
  <2>2. n + THRESHOLD <= FifoDepth + 1
    BY <1>9 DEF Room
  <2>3. n1 + THRESHOLD <= FifoDepth + 2
    BY <1>2, <2>2
  <2>4. CASE w.last /\ w.valid
    <3>1. state_wr' = "IDLE_WR"
      BY <2>1, <2>4
    <3> QED BY <1>3, <2>3, <3>1 DEF Room
  <2>5. CASE ~(w.last /\ w.valid)
    <3>1. state_wr' = "BEGIN_WRITE"
      BY <2>1, <2>5
    <3>2. ~force_tlast_to_fifo' => ~wr_reached_threshold
      BY <1>9, <2>5 DEF ForceTlast
    <3>3. ~force_tlast_to_fifo' => n1 + THRESHOLD <= FifoDepth + 1
      BY <1>2, <1>5, <3>2
    <3> QED BY <1>3, <2>3, <3>1, <3>3 DEF Room
  <2> QED BY <2>4, <2>5
<1>10. CASE state_wr = "DROP_FRAME"
  <2>1. state_wr' = IF axi_r.last /\ axi_r.valid /\ ~wr_reached_threshold_extend
                    THEN IF w.valid THEN "DA_DECODE" ELSE "IDLE_WR"
                    ELSE "DROP_FRAME"
    BY <1>10 DEF WriteFsm, IdleWr, DaDecode, BeginWrite, DropFrame
  <2>2. n1 <= n
    BY <1>10 DEF axis_wr_tvalid
  <2>3. CASE state_wr' = "DROP_FRAME"
    BY <1>3, <2>3 DEF Room
  <2>4. CASE state_wr' = "IDLE_WR"
    <3>1. ~axi_r'.valid
      BY <1>1, <2>1, <2>4
    <3> QED BY <1>3, <2>4, <3>1 DEF Room
  <2>5. CASE state_wr' = "DA_DECODE"
    <3>1. ~(FifoDepth - n < THRESHOLD_EXT)
      BY <2>1, <2>5 DEF wr_reached_threshold_extend, left_over_space_in_fifo
    <3>2. n1 + THRESHOLD <= FifoDepth + 1
      BY <1>2, <2>2, <3>1
    <3> QED BY <1>3, <2>5, <3>2 DEF Room
  <2> QED BY <2>1, <2>3, <2>4, <2>5
<1>11. state_wr \in {"IDLE_WR", "DA_DECODE", "BEGIN_WRITE", "DROP_FRAME"}
  BY DEF RxTypes
<1> QED BY <1>6, <1>7, <1>8, <1>9, <1>10, <1>11

(* The order of the frames while no packet ends, and when one does. *)
LEMMA OrderKept ==
  ASSUME NEW m \in Nat, NEW e \in [Nat -> Int], NEW f \in [Nat -> Nat], NEW fr \in Nat, NEW fr1 \in Nat,
         NEW o, NEW o1, NEW h \in WordSet, NEW pass, InOrder(m, f, fr, o),
         HandedLast(m, e, f, h, pass, fr, o), fr1 >= fr, o1 => o \/ fr1 > fr
  PROVE  InOrder(m, f, fr1, o1) /\ HandedLast(m, e, f, h, pass, fr1, o1)
<1>1. h.frame \in Nat
  BY DEF WordSet
<1>2. ASSUME NEW x \in Nat, x <= fr, o => x < fr
      PROVE  x <= fr1 /\ (o1 => x < fr1)
  BY <1>2
<1>3. ASSUME NEW j \in 0 .. m - 1
      PROVE  f[j] <= fr1 /\ (o1 => f[j] < fr1)
  <2>1. f[j] \in Nat
    OBVIOUS
  <2>2. f[j] <= fr /\ (o => f[j] < fr)
    BY DEF InOrder
  <2> QED BY <1>2, <2>1, <2>2
<1>4. InOrder(m, f, fr1, o1)
  BY <1>3 DEF InOrder
<1>5. CASE pass /\ e[0] < 0
  BY <1>4, <1>5 DEF HandedLast
<1>6. CASE ~(pass /\ e[0] < 0)
  <2>1. /\ h.last /\ h.frame <= fr /\ (o => h.frame < fr)
        /\ \A j \in 0 .. m - 1 : h.frame < f[j]
    BY <1>6 DEF HandedLast
  <2>2. h.frame <= fr1 /\ (o1 => h.frame < fr1)
    BY <1>1, <1>2, <2>1
  <2> QED BY <1>4, <1>6, <2>1, <2>2 DEF HandedLast
<1> QED BY <1>5, <1>6

LEMMA OrderNew ==
  ASSUME NEW m \in Nat, NEW e \in [Nat -> Int], NEW f \in [Nat -> Nat], NEW fr \in Nat, NEW fr1 \in Nat,
         NEW o1, NEW h \in WordSet, NEW pass, InOrder(m, f, fr, TRUE),
         HandedLast(m, e, f, h, pass, fr, TRUE), fr1 >= fr, o1 => fr1 > fr, pass => m > 0,
         NEW d, d[0] = e[0], NEW f1, Same(f1, f, m), f1[m] = fr
  PROVE  InOrder(m + 1, f1, fr1, o1) /\ HandedLast(m + 1, d, f1, h, pass, fr1, o1)
<1>0. \A j \in 0 .. m - 1 : f1[j] = f[j]
  BY DEF Same
<1> USE <1>0
<1>1. h.frame \in Nat /\ \A j \in 0 .. m - 1 : f[j] \in Nat
  BY DEF WordSet
<1>2. \A j \in 0 .. m - 1 : f1[j] \in Nat /\ f1[j] < fr
  BY <1>1 DEF InOrder
<1>3. \A j \in 0 .. m : f1[j] \in Nat /\ f1[j] <= fr
  <2> TAKE j \in 0 .. m
  <2>1. CASE j = m
    BY <2>1
  <2>2. CASE j # m
    <3>1. j \in 0 .. m - 1
      BY <2>2
    <3>2. f1[j] \in Nat /\ f1[j] < fr
      BY <1>2, <3>1
    <3> QED BY <3>2
  <2> QED BY <2>1, <2>2
<1>4. \A i, j \in 0 .. (m + 1) - 1 : i < j => f1[i] < f1[j]
  <2> SUFFICES ASSUME NEW i \in 0 .. m, NEW j \in 0 .. m, i < j PROVE f1[i] < f1[j]
    OBVIOUS
  <2>1. i \in 0 .. m - 1
    OBVIOUS
  <2>2. CASE j = m
    BY <1>2, <2>1, <2>2
  <2>3. CASE j # m
    <3>1. j \in 0 .. m - 1
      BY <2>3
    <3> QED BY <2>1, <3>1 DEF InOrder
  <2> QED BY <2>2, <2>3
<1>5. \A j \in 0 .. (m + 1) - 1 : f1[j] <= fr1 /\ (o1 => f1[j] < fr1)
  <2> TAKE j \in 0 .. (m + 1) - 1
  <2>1. f1[j] \in Nat /\ f1[j] <= fr
    BY <1>3
  <2> QED BY <2>1
<1>6. InOrder(m + 1, f1, fr1, o1)
  BY <1>4, <1>5 DEF InOrder
<1>7. CASE pass /\ e[0] < 0
  <2>1. f1[0] = f[0]
    BY <1>7
  <2> QED BY <1>6, <1>7, <2>1 DEF HandedLast
<1>8. CASE ~(pass /\ e[0] < 0)
  <2>1. /\ h.last /\ h.frame <= fr /\ h.frame < fr
        /\ \A j \in 0 .. m - 1 : h.frame < f[j]
    BY <1>8 DEF HandedLast
  <2>2. h.frame <= fr1 /\ (o1 => h.frame < fr1)
    BY <1>1, <2>1
  <2>3. \A j \in 0 .. (m + 1) - 1 : h.frame < f1[j]
    <3> TAKE j \in 0 .. (m + 1) - 1
    <3>1. CASE j = m
      BY <2>1, <3>1
    <3>2. CASE j # m
      <4>1. j \in 0 .. m - 1
        BY <3>2
      <4> QED BY <2>1, <4>1
    <3> QED BY <3>1, <3>2
  <2>4. HandedLast(m + 1, d, f1, h, pass, fr1, o1)
    BY <1>8, <2>1, <2>2, <2>3 DEF HandedLast
  <2> QED BY <1>6, <2>4
<1> QED BY <1>7, <1>8

(* Without a command behind, cmd_in does not matter. *)
LEMMA MatchedIdle ==
  ASSUME NEW m, NEW c, NEW taken, NEW out, NEW cq, NEW k, NEW in, NEW in1,
         Matched(m, c, taken, out, cq, k, 0, in)
  PROVE  Matched(m, c, taken, out, cq, k, 0, in1)
<1>1. 0 # 1
  OBVIOUS
<1> QED BY <1>1, Zenon DEF Matched

(* The command that was behind enters the FIFO. *)
LEMMA MatchedPush ==
  ASSUME NEW m \in Nat, NEW c, NEW taken \in {0, 1}, NEW out, NEW cq, NEW k \in Nat, NEW in,
         NEW in1, NEW cq1, Longer(cq1, cq, k), cq1[k + 1].crc = in,
         Matched(m, c, taken, out, cq, k, 1, in)
  PROVE  Matched(m, c, taken, out, cq1, k + 1, 0, in1)
<1>0. \A i \in 1 .. k : cq1[i] = cq[i]
  BY DEF Longer
<1> USE <1>0
<1>1. m = taken + k + 1 /\ c[m - 1] = in /\ (taken = 1 => c[0] = out)
      /\ \A i \in 1 .. k : c[taken + i - 1] = cq[i].crc
  BY DEF Matched
<1>2. m = taken + (k + 1) + 0
  BY <1>1
<1>3. \A i \in 1 .. k + 1 : c[taken + i - 1] = cq1[i].crc
  <2> TAKE i \in 1 .. k + 1
  <2>1. CASE i = k + 1
    <3>1. taken + i - 1 = m - 1
      BY <1>1, <2>1
    <3> QED BY <1>1, <2>1, <3>1
  <2>2. CASE i # k + 1
    <3>1. i \in 1 .. k
      BY <2>2
    <3> QED BY <1>1, <3>1
  <2> QED BY <2>1, <2>2
<1> QED BY <1>1, <1>2, <1>3 DEF Matched

(* A packet ends: its command enters the FIFO, or will. *)
LEMMA MatchedNew ==
  ASSUME NEW m \in Nat, NEW c, NEW taken \in {0, 1}, NEW out, NEW cq, NEW k \in Nat, NEW in,
         NEW in1, Matched(m, c, taken, out, cq, k, 0, in),
         NEW c1, Same(c1, c, m), c1[m] = in1
  PROVE  /\ Matched(m + 1, c1, taken, out, cq, k, 1, in1)
         /\ taken = 1 => m > 0
<1>1. m = taken + k + 0 /\ (taken = 1 => c[0] = out)
      /\ \A i \in 1 .. k : c[taken + i - 1] = cq[i].crc
  BY DEF Matched
<1>2. m + 1 = taken + k + 1 /\ (taken = 1 => m > 0) /\ (m + 1) - 1 = m
  BY <1>1
<1>0. \A j \in 0 .. m - 1 : c1[j] = c[j]
  BY DEF Same
<1>3. taken = 1 => c1[0] = out
  BY <1>0, <1>1, <1>2
<1>4. \A i \in 1 .. k : c1[taken + i - 1] = cq[i].crc
  <2> TAKE i \in 1 .. k
  <2>1. taken + i - 1 \in 0 .. m - 1
    BY <1>1
  <2> QED BY <1>0, <1>1, <2>1
<1> QED BY <1>2, <1>3, <1>4 DEF Matched

(* What is written, behind what the read FSM has left. *)
DataWritten(q) ==
  IF axis_wr_tvalid
  THEN /\ Len(dataFifo') = Len(q) + 1 /\ Longer(dataFifo', q, Len(q))
       /\ dataFifo'[Len(q) + 1] = axis_wr_word
  ELSE dataFifo' = q
CmdWritten(cq) ==
  IF wr_en
  THEN /\ Len(cmdFifo') = Len(cq) + 1 /\ Longer(cmdFifo', cq, Len(cq))
       /\ cmdFifo'[Len(cq) + 1] = cmd_in
  ELSE cmdFifo' = cq

(* Steps of arithmetic. *)
LEMMA Positive ==
  ASSUME NEW x \in Nat, x = 1 \/ x > 0
  PROVE  x > 0 /\ x # 0
OBVIOUS

LEMMA Onward ==
  ASSUME NEW x \in Nat, NEW y, y = x \/ y = x + 1
  PROVE  y \in Nat /\ y >= x
OBVIOUS

(* Words of a frame are stored. *)
LEMMA WritesOn ==
  ASSUME RxTypes, RxAssumption, Arrived, WriteFsmInv, handed' \in WordSet,
         NEW w \in MacWords, Mac(w), WriteFsm(w),
         NEW q, NEW n \in Nat, n = Len(q), NEW cq, Len(cq) \in Nat, DataWritten(q), CmdWritten(cq),
         NEW m \in Nat, NEW e \in [Nat -> Int], NEW f \in [Nat -> Nat], NEW g \in [Nat -> BOOLEAN],
         NEW c \in [Nat -> BOOLEAN], HalfWay(m, e, f, g, c, q, cq),
         state_wr \in {"DA_DECODE", "BEGIN_WRITE"}, ~force_tlast_to_fifo
  PROVE  Layout(m, e, f, g, c)'
<1>1. axi_r' = w /\ (Silent(w) \/ First(w) \/ Middle(w) \/ Final(w))
  BY MacStep
<1>2. pos \in Nat /\ pos > 0 /\ ~wr_en /\ pos # 0
  <2>1. pos \in Nat
    BY DEF RxTypes
  <2>2. pos = 1 \/ pos > 0
    BY DEF WriteFsmInv
  <2>3. ~wr_en
    BY DEF WriteFsmInv
  <2>4. pos > 0 /\ pos # 0
    BY <2>1, <2>2, Positive, Zenon
  <2> QED BY <2>1, <2>3, <2>4
<1>3. ~First(w)
  BY <1>2, MacCounts
<1>4. frame' = frame /\ good' = good
  BY <1>1, <1>3, MacCounts
<1>5. Packets(dataFifo', Len(dataFifo'), m, e, f, g, c, pos, frame, good)
  <2>1. CASE axi_r.valid
    <3>1. axi_r = MacWord(frame, pos, FALSE, good) /\ axi_r.last = FALSE /\ axi_r.pos = pos
      <4>1. axi_r.valid # FALSE
        BY <2>1
      <4> QED BY <1>2, <4>1, WordKept, Zenon
    <3>2. Stored = pos - 1 /\ axis_wr_tvalid
      BY <2>1, <3>1 DEF Stored, axis_wr_tvalid
    <3>3. axis_wr_word = MacWord(frame, pos, FALSE, good)
      <4>1. axis_wr_word = [MacWord(frame, pos, FALSE, good) EXCEPT !.last = FALSE]
        BY <3>1 DEF axis_wr_word
      <4> QED BY <4>1 DEF MacWord
    <3>4. PICK t \in Nat : t = pos - 1 /\ t + 1 = pos
      BY <1>2
    <3>5. Packets(q, n, m, e, f, g, c, t, frame, good)
      BY <3>2, <3>4 DEF HalfWay
    <3>6. Len(dataFifo') = n + 1 /\ Longer(dataFifo', q, n)
          /\ dataFifo'[n + 1] = MacWord(frame, t + 1, FALSE, good)
      BY <3>2, <3>3, <3>4 DEF DataWritten
    <3>7. Packets(dataFifo', n + 1, m, e, f, g, c, t + 1, frame, good)
      BY <3>5, <3>6, WriteWord
    <3> QED BY <3>4, <3>6, <3>7
  <2>2. CASE ~axi_r.valid
    <3>1. Stored = pos /\ ~axis_wr_tvalid
      BY <2>2 DEF Stored, axis_wr_tvalid
    <3> QED BY <3>1 DEF HalfWay, DataWritten
  <2> QED BY <2>1, <2>2
<1>6. state_wr' \in {"BEGIN_WRITE", "IDLE_WR"} /\ (state_wr' = "IDLE_WR" => w.valid)
  BY DEF WriteFsm, IdleWr, DaDecode, BeginWrite, DropFrame
<1>7. Stored' = pos
  <2>1. CASE Silent(w)
    <3>1. axi_r'.valid = FALSE /\ pos' = pos
      BY <1>1, <2>1, WordSeen, MacCounts
    <3> QED BY <1>6, <3>1 DEF Stored
  <2>2. CASE Middle(w) \/ Final(w)
    <3>1. axi_r'.valid = TRUE /\ axi_r'.pos = pos + 1
      BY <1>1, <2>2, WordSeen
    <3>2. Stored' = axi_r'.pos - 1
      BY <1>6, <3>1 DEF Stored
    <3> QED BY <1>2, <3>1, <3>2
  <2> QED BY <1>1, <1>3, <2>1, <2>2
<1>8. Packets(dataFifo, Len(dataFifo), m, e, f, g, c, Stored, frame, good)'
  BY <1>4, <1>5, <1>7
<1>9. cmdFifo' = cq /\ Behind = 0 /\ Behind' = 0
  BY <1>2, <1>6 DEF CmdWritten, Behind
<1>10. Matched(m, c, Taken, cmd_out.crc, cmdFifo, Len(cmdFifo), Behind, cmd_in.crc)'
  <2>1. Matched(m, c, Taken', cmd_out'.crc, cq, Len(cq), 0, cmd_in.crc)
    BY <1>9 DEF HalfWay
  <2>2. Matched(m, c, Taken', cmd_out'.crc, cq, Len(cq), 0, cmd_in'.crc)
    BY <2>1, MatchedIdle
  <2> QED BY <1>9, <2>2
<1>11. ReadFsmInv(e)'
  BY <1>9 DEF HalfWay, ReadFsmInv
<1>12. TuserGood => /\ InOrder(m, f, frame', Open')
                    /\ HandedLast(m, e, f, handed', (Reading /\ Passing)', frame', Open')
  <2>1. Open /\ frame \in Nat
    BY DEF Open, RxTypes
  <2> QED BY <1>4, <2>1 DEF HalfWay, InOrder, HandedLast
<1> QED BY <1>8, <1>10, <1>11, <1>12 DEF Layout

(* A frame is dropped, and no more is stored; the command of the truncated *)
(* packet enters the FIFO.                                                 *)
LEMMA Drops ==
  ASSUME RxTypes, RxAssumption, Arrived, WriteFsmInv, handed' \in WordSet,
         NEW w \in MacWords, Mac(w), WriteFsm(w),
         NEW q, NEW n \in Nat, n = Len(q), NEW cq, NEW k \in Nat, k = Len(cq),
         DataWritten(q), CmdWritten(cq),
         NEW m \in Nat, NEW e \in [Nat -> Int], NEW f \in [Nat -> Nat], NEW g \in [Nat -> BOOLEAN],
         NEW c \in [Nat -> BOOLEAN], HalfWay(m, e, f, g, c, q, cq), state_wr = "DROP_FRAME"
  PROVE  Layout(m, e, f, g, c)'
<1>1. axi_r' = w /\ (Silent(w) \/ First(w) \/ Middle(w) \/ Final(w))
  BY MacStep
<1>2. pos \in Nat /\ frame \in Nat
  BY DEF RxTypes
<1>3. /\ wr_en' = FALSE
      /\ state_wr' = IF axi_r.last /\ axi_r.valid /\ ~wr_reached_threshold_extend
                     THEN IF w.valid THEN "DA_DECODE" ELSE "IDLE_WR"
                     ELSE "DROP_FRAME"
  BY DEF WriteFsm, IdleWr, DaDecode, BeginWrite, DropFrame
<1>4. Stored = 0 /\ dataFifo' = q
  BY DEF Stored, DataWritten, axis_wr_tvalid
<1>5. Packets(q, n, m, e, f, g, c, 0, frame', good')
  <2>1. Packets(q, n, m, e, f, g, c, 0, frame, good)
    BY <1>4 DEF HalfWay
  <2> QED BY <2>1, NextFrame
<1>6. Stored' = 0 /\ frame' \in Nat /\ frame' >= frame /\ (Open' => frame' > frame)
  <2>1. CASE state_wr' = "DROP_FRAME"
    <3>1. Stored' = 0 /\ ~Open'
      BY <2>1 DEF Stored, Open
    <3>2. frame' = frame \/ frame' = frame + 1
      BY <1>1, MacCounts, Zenon
    <3>3. frame' \in Nat /\ frame' >= frame
      BY <1>2, <3>2, Onward, Zenon
    <3> QED BY <3>1, <3>3, Zenon
  <2>2. CASE state_wr' # "DROP_FRAME"
    <3>1. axi_r.last /\ axi_r.valid
      BY <1>3, <2>2
    <3>2. pos = 0
      BY <3>1, WordKept
    <3>3. ~Middle(w) /\ ~Final(w)
      BY <3>2 DEF Middle, Final
    <3>4. CASE Silent(w)
      <4>1. axi_r'.valid = FALSE /\ pos' = 0 /\ frame' = frame
        BY <1>1, <3>2, <3>4, WordSeen, MacCounts
      <4>2. state_wr' = "IDLE_WR"
        BY <1>1, <1>3, <2>2, <4>1
      <4>3. Stored' = 0 /\ ~Open'
        BY <4>1, <4>2 DEF Stored, Open
      <4> QED BY <1>2, <4>1, <4>3
    <3>5. CASE First(w)
      <4>1. axi_r'.valid = TRUE /\ axi_r'.pos = 1 /\ frame' = frame + 1
        BY <1>1, <3>5, WordSeen, MacCounts
      <4>2. Stored' = 1 - 1
        BY <2>2, <4>1 DEF Stored
      <4> QED BY <1>2, <4>1, <4>2
    <3> QED BY <1>1, <3>3, <3>4, <3>5
  <2> QED BY <2>1, <2>2
<1>7. Packets(dataFifo, Len(dataFifo), m, e, f, g, c, Stored, frame, good)'
  BY <1>4, <1>5, <1>6
<1>8. Behind' = 0
  BY <1>3 DEF Behind
<1>9. Matched(m, c, Taken, cmd_out.crc, cmdFifo, Len(cmdFifo), Behind, cmd_in.crc)'
      /\ (k > 0 => Len(cmdFifo') > 0)
  <2>1. CASE wr_en
    <3>1. Behind = 1
      BY <2>1 DEF Behind
    <3>2. Len(cmdFifo') = k + 1 /\ Longer(cmdFifo', cq, k) /\ cmdFifo'[k + 1].crc = cmd_in.crc
      BY <2>1 DEF CmdWritten
    <3>3. Taken' \in {0, 1}
      BY DEF Taken
    <3>4a. PICK u \in {0, 1} : u = Taken'
      BY <3>3
    <3>4. PICK out, in, in1 : /\ u = Taken' /\ out = cmd_out'.crc
                              /\ in = cmd_in.crc /\ in1 = cmd_in'.crc
      BY <3>4a
    <3>5. Matched(m, c, u, out, cq, k, 1, in)
      BY <3>1, <3>4 DEF HalfWay
    <3>6. Longer(cmdFifo', cq, k) /\ cmdFifo'[k + 1].crc = in
      BY <3>2, <3>4
    <3>7. Matched(m, c, u, out, cmdFifo', k + 1, 0, in1)
      BY <3>5, <3>6, MatchedPush
    <3>8. k + 1 > 0
      OBVIOUS
    <3> QED BY <1>8, <3>2, <3>4, <3>7, <3>8
  <2>2. CASE ~wr_en
    <3>1. Behind = 0 /\ cmdFifo' = cq
      BY <2>2 DEF Behind, CmdWritten
    <3>2. Matched(m, c, Taken', cmd_out'.crc, cq, Len(cq), 0, cmd_in.crc)
      BY <3>1 DEF HalfWay
    <3>3. Matched(m, c, Taken', cmd_out'.crc, cq, Len(cq), 0, cmd_in'.crc)
      BY <3>2, MatchedIdle
    <3> QED BY <1>8, <3>1, <3>3
  <2> QED BY <2>1, <2>2
<1>10. ReadFsmInv(e)'
  BY <1>9 DEF HalfWay, ReadFsmInv
<1>11. TuserGood => /\ InOrder(m, f, frame', Open')
                    /\ HandedLast(m, e, f, handed', (Reading /\ Passing)', frame', Open')
  <2> SUFFICES ASSUME TuserGood
               PROVE  /\ InOrder(m, f, frame', Open')
                      /\ HandedLast(m, e, f, handed', (Reading /\ Passing)', frame', Open')
    OBVIOUS
  <2>0. PICK fr, fr1, o, o1, h, pass :
             /\ fr = frame /\ fr1 = frame' /\ o = Open /\ o1 = Open' /\ h = handed'
             /\ pass = (Reading /\ Passing)'
    OBVIOUS
  <2>1. fr \in Nat /\ fr1 \in Nat /\ h \in WordSet
    BY <1>2, <1>6, <2>0
  <2>2. /\ InOrder(m, f, fr, o) /\ HandedLast(m, e, f, h, pass, fr, o)
        /\ fr1 >= fr /\ (o1 => o \/ fr1 > fr)
    BY <1>6, <2>0 DEF HalfWay
  <2>3. InOrder(m, f, fr1, o1) /\ HandedLast(m, e, f, h, pass, fr1, o1)
    BY <2>1, <2>2, OrderKept
  <2> QED BY <2>0, <2>3
<1> QED BY <1>7, <1>9, <1>10, <1>11 DEF Layout

(* A packet ends, for good or not: its last word, with crc cr, and what is *)
(* known of it is added.                                                   *)
Closes(q1, q, n, t, fr, gd, cr) ==
  /\ Longer(q1, q, n) /\ q1[n + 1].last
  /\ TuserGood /\ cr => gd /\ q1[n + 1] = MacWord(fr, t + 1, TRUE, TRUE)
OneMore(m, e, f, fr, d, f1) == d[0] = e[0] /\ Same(f1, f, m) /\ f1[m] = fr

Ending(q, n, m, e, f, g, c, t, fr, gd, q1, cr, taken, out, cq, k, in) ==
  /\ n \in Nat /\ m \in Nat /\ e \in [Nat -> Int] /\ f \in [Nat -> Nat]
  /\ g \in [Nat -> BOOLEAN] /\ c \in [Nat -> BOOLEAN] /\ t \in Nat /\ fr \in Nat /\ gd \in BOOLEAN
  /\ cr \in BOOLEAN /\ taken \in {0, 1} /\ k \in Nat
  /\ Packets(q, n, m, e, f, g, c, t, fr, gd) /\ t > 0
  /\ Closes(q1, q, n, t, fr, gd, cr) /\ Matched(m, c, taken, out, cq, k, 0, in)
Ended(n, m, e, f, fr, q1, cr, taken, out, cq, k, d, f1, g1, c1, fr1, gd1) ==
  /\ Packets(q1, n + 1, m + 1, d, f1, g1, c1, 0, fr1, gd1)
  /\ Matched(m + 1, c1, taken, out, cq, k, 1, cr)
  /\ taken = 1 => m > 0
  /\ OneMore(m, e, f, fr, d, f1)

LEMMA PacketEnds ==
  ASSUME NEW q, NEW n, NEW m, NEW e, NEW f, NEW g, NEW c, NEW t, NEW fr, NEW gd, NEW q1, NEW cr,
         NEW taken, NEW out, NEW cq, NEW k, NEW in,
         Ending(q, n, m, e, f, g, c, t, fr, gd, q1, cr, taken, out, cq, k, in), NEW fr1, NEW gd1
  PROVE  \E d \in [Nat -> Int], f1 \in [Nat -> Nat], g1, c1 \in [Nat -> BOOLEAN] :
           Ended(n, m, e, f, fr, q1, cr, taken, out, cq, k, d, f1, g1, c1, fr1, gd1)
<1>0. /\ n \in Nat /\ m \in Nat /\ e \in [Nat -> Int] /\ f \in [Nat -> Nat]
      /\ g \in [Nat -> BOOLEAN] /\ c \in [Nat -> BOOLEAN] /\ t \in Nat /\ fr \in Nat /\ gd \in BOOLEAN
      /\ cr \in BOOLEAN /\ taken \in {0, 1} /\ k \in Nat
      /\ Packets(q, n, m, e, f, g, c, t, fr, gd) /\ t > 0
      /\ Closes(q1, q, n, t, fr, gd, cr) /\ Matched(m, c, taken, out, cq, k, 0, in)
  BY Zenon DEF Ending
<1> USE <1>0
<1>1. PICK d, f1, g1, c1 : /\ d = [e EXCEPT ![m + 1] = n + 1] /\ f1 = [f EXCEPT ![m] = fr]
                           /\ g1 = [g EXCEPT ![m] = gd] /\ c1 = [c EXCEPT ![m] = cr]
  OBVIOUS
<1>2. m + 1 \in Nat /\ n + 1 \in Int /\ (m + 1) - 1 = m /\ 0 # m + 1
  OBVIOUS
<1>3. d \in [Nat -> Int] /\ f1 \in [Nat -> Nat] /\ d[m + 1] = n + 1 /\ f1[m] = fr /\ d[0] = e[0]
  BY <1>1, <1>2
<1>4. g1 \in [Nat -> BOOLEAN] /\ c1 \in [Nat -> BOOLEAN] /\ g1[m] = gd /\ c1[m] = cr
  BY <1>1, Zenon
<1>5. \A j \in 0 .. m : d[j] = e[j]
  BY <1>1
<1>6. \A j \in 0 .. m - 1 : f1[j] = f[j] /\ g1[j] = g[j] /\ c1[j] = c[j]
  BY <1>1
<1>7. Same(d, e, m + 1) /\ Same(f1, f, m) /\ Same(g1, g, m) /\ Same(c1, c, m)
  BY <1>2, <1>5, <1>6 DEF Same
<1>8. /\ Longer(q1, q, n) /\ q1[n + 1].last
      /\ TuserGood /\ c1[m] => gd /\ q1[n + 1] = MacWord(fr, t + 1, TRUE, TRUE)
  BY <1>4 DEF Closes
<1>9. Packets(q1, n + 1, m + 1, d, f1, g1, c1, 0, fr1, gd1)
  BY <1>3, <1>4, <1>7, <1>8, WriteLast, ZenonT(30)
<1>10. Matched(m + 1, c1, taken, out, cq, k, 1, cr) /\ (taken = 1 => m > 0)
  BY <1>4, <1>7, MatchedNew
<1>11. OneMore(m, e, f, fr, d, f1)
  BY <1>3, <1>7 DEF OneMore
<1>12. Ended(n, m, e, f, fr, q1, cr, taken, out, cq, k, d, f1, g1, c1, fr1, gd1)
  BY <1>9, <1>10, <1>11, Zenon DEF Ended
<1> QED BY <1>3, <1>4, <1>12, Zenon

(* The space has run out: the packet is closed with whatever is in axi_r,  *)
(* and its command, which will not let it pass, follows.                   *)
LEMMA Truncates ==
  ASSUME RxTypes, RxAssumption, Arrived, WriteFsmInv, handed' \in WordSet,
         NEW w \in MacWords, Mac(w), WriteFsm(w),
         NEW q, NEW n \in Nat, n = Len(q), NEW cq, NEW k \in Nat, k = Len(cq),
         DataWritten(q), CmdWritten(cq),
         NEW m \in Nat, NEW e \in [Nat -> Int], NEW f \in [Nat -> Nat], NEW g \in [Nat -> BOOLEAN],
         NEW c \in [Nat -> BOOLEAN], HalfWay(m, e, f, g, c, q, cq),
         state_wr = "BEGIN_WRITE", force_tlast_to_fifo
  PROVE  \E m1 \in Nat, d \in [Nat -> Int], f1 \in [Nat -> Nat], g1, c1 \in [Nat -> BOOLEAN] :
           Layout(m1, d, f1, g1, c1)'
<1>1. axi_r' = w /\ (Silent(w) \/ First(w) \/ Middle(w) \/ Final(w))
  BY MacStep
<1>2. pos \in Nat /\ pos > 0 /\ frame \in Nat /\ good \in BOOLEAN /\ (axi_r.valid => pos > 1)
  BY DEF RxTypes, WriteFsmInv
<1>3. wr_en = FALSE /\ cmd_in \in CmdSet
  BY DEF RxTypes, WriteFsmInv
<1>4. state_wr' = "DROP_FRAME" /\ wr_en' /\ cmd_in' = [cmd_in EXCEPT !.crc = FALSE]
  BY DEF WriteFsm, IdleWr, DaDecode, BeginWrite, DropFrame
<1>5. cmd_in'.crc = FALSE /\ Behind = 0 /\ Behind' = 1 /\ cmdFifo' = cq
  BY <1>3, <1>4 DEF CmdSet, Behind, CmdWritten
<1>6. ~First(w)
  BY <1>2, MacCounts
<1>7. frame' = frame /\ good' = good
  BY <1>1, <1>6, MacCounts
<1>8. PICK t \in Nat : t = Stored /\ t > 0
  <2>1. CASE axi_r.valid
    <3>1. axi_r.pos = pos
      <4>1. axi_r.valid # FALSE /\ pos # 0
        BY <1>2, <2>1
      <4> QED BY <4>1, WordKept, Zenon
    <3>2. Stored = pos - 1
      BY <2>1, <3>1 DEF Stored
    <3>3. pos - 1 \in Nat /\ pos - 1 > 0
      BY <1>2, <2>1
    <3> QED BY <3>2, <3>3
  <2>2. CASE ~axi_r.valid
    BY <1>2, <2>2 DEF Stored
  <2> QED BY <2>1, <2>2
<1>9. Len(dataFifo') = n + 1 /\ Longer(dataFifo', q, n) /\ dataFifo'[n + 1].last
  <2>1. axis_wr_tvalid
    BY DEF axis_wr_tvalid
  <2>2. axis_wr_word.last
    <3>1. axi_r = NoWord \/ \E x, b : axi_r = MacWord(frame, x, b, good)
      BY DEF Arrived
    <3>2. "last" \in DOMAIN axi_r
      BY <3>1 DEF NoWord, MacWord
    <3> QED BY <3>1 DEF axis_wr_word, NoWord, MacWord
  <2> QED BY <2>1, <2>2 DEF DataWritten
<1>10. PICK u \in {0, 1} : u = Taken'
  BY DEF Taken
<1>11. Packets(q, n, m, e, f, g, c, t, frame, good)
  BY <1>8 DEF HalfWay
<1>12. Matched(m, c, u, cmd_out'.crc, cq, k, 0, cmd_in.crc)
  BY <1>5, <1>10 DEF HalfWay
<1>13a. PICK fr \in Nat, gd \in BOOLEAN : fr = frame /\ gd = good
  BY <1>2
<1>13. PICK q1 : fr = frame /\ gd = good /\ q1 = dataFifo'
  BY <1>13a
<1>14. PICK out, in : out = cmd_out'.crc /\ in = cmd_in.crc
  OBVIOUS
<1>15. PICK cr \in BOOLEAN : cr = FALSE
  OBVIOUS
<1>16. Ending(q, n, m, e, f, g, c, t, fr, gd, q1, cr, u, out, cq, k, in)
  <2>1. Closes(q1, q, n, t, fr, gd, cr)
    BY <1>9, <1>13, <1>15, Zenon DEF Closes
  <2> QED BY <1>8, <1>11, <1>12, <1>13, <1>14, <2>1, Zenon DEF Ending
<1>17. PICK d \in [Nat -> Int], f1 \in [Nat -> Nat], g1 \in [Nat -> BOOLEAN], c1 \in [Nat -> BOOLEAN] :
            Ended(n, m, e, f, fr, q1, cr, u, out, cq, k, d, f1, g1, c1, fr, gd)
  BY <1>16, PacketEnds, Zenon
<1>18. Stored' = 0
  BY <1>4 DEF Stored
<1>19. Packets(dataFifo, Len(dataFifo), m + 1, d, f1, g1, c1, Stored, frame, good)'
  BY <1>7, <1>9, <1>13, <1>17, <1>18 DEF Ended
<1>20. Matched(m + 1, c1, Taken, cmd_out.crc, cmdFifo, Len(cmdFifo), Behind, cmd_in.crc)'
  BY <1>5, <1>10, <1>14, <1>15, <1>17 DEF Ended
<1>21. ReadFsmInv(d)'
  BY <1>5, <1>17 DEF HalfWay, ReadFsmInv, Ended, OneMore
<1>22. TuserGood => /\ InOrder(m + 1, f1, frame', Open')
                    /\ HandedLast(m + 1, d, f1, handed', (Reading /\ Passing)', frame', Open')
  <2> SUFFICES ASSUME TuserGood
               PROVE  /\ InOrder(m + 1, f1, frame', Open')
                      /\ HandedLast(m + 1, d, f1, handed', (Reading /\ Passing)', frame', Open')
    OBVIOUS
  <2>0a. PICK h \in WordSet : h = handed'
    OBVIOUS
  <2>0. PICK pass : h = handed' /\ pass = (Reading /\ Passing)'
    BY <2>0a
  <2>1. Open = TRUE /\ Open' = FALSE
    BY <1>4 DEF Open
  <2>2. InOrder(m, f, fr, TRUE) /\ HandedLast(m, e, f, h, pass, fr, TRUE)
    BY <1>13, <2>0, <2>1 DEF HalfWay
  <2>3. pass => m > 0
    BY <1>10, <1>17, <2>0 DEF Taken, Ended
  <2>4. fr >= fr
    OBVIOUS
  <2>5. InOrder(m + 1, f1, fr, FALSE) /\ HandedLast(m + 1, d, f1, h, pass, fr, FALSE)
    BY <1>17, <2>2, <2>3, <2>4, OrderNew, ZenonT(30) DEF OneMore, Ended
  <2> QED BY <1>7, <1>13, <2>0, <2>1, <2>5
<1>23. Layout(m + 1, d, f1, g1, c1)'
  BY <1>19, <1>20, <1>21, <1>22 DEF Layout
<1>24. m + 1 \in Nat
  OBVIOUS
<1> QED BY <1>23, <1>24, Zenon

(* Between two frames: the next one begins, or is dropped, or none comes.  *)
LEMMA NextBegins ==
  ASSUME RxTypes, Arrived, WriteFsmInv, NEW w \in MacWords, Mac(w), WriteFsm(w),
         state_wr = "IDLE_WR"
  PROVE  /\ Stored' = 0 /\ wr_en' = FALSE /\ Behind' = 0
         /\ frame' \in Nat /\ frame' >= frame /\ (Open' => frame' > frame)
<1>1. axi_r' = w /\ (Silent(w) \/ First(w) \/ Middle(w) \/ Final(w))
  BY MacStep
<1>2. pos = 0 /\ frame \in Nat
  BY DEF RxTypes, WriteFsmInv
<1>3. ~Middle(w) /\ ~Final(w)
  BY <1>2 DEF Middle, Final
<1>4. /\ wr_en' = FALSE
      /\ state_wr' = IF ~w.valid THEN "IDLE_WR"
                     ELSE IF full \/ wr_reached_threshold THEN "DROP_FRAME" ELSE "DA_DECODE"
  BY DEF WriteFsm, IdleWr, DaDecode, BeginWrite, DropFrame
<1>5. Behind' = 0
  BY <1>4 DEF Behind
<1>6. CASE Silent(w)
  <2>1. axi_r'.valid = FALSE /\ pos' = 0 /\ frame' = frame
    BY <1>1, <1>2, <1>6, WordSeen, MacCounts
  <2>2. state_wr' = "IDLE_WR"
    BY <1>1, <1>4, <2>1
  <2>3. Stored' = 0 /\ ~Open'
    BY <2>1, <2>2 DEF Stored, Open
  <2>4. frame' \in Nat /\ frame' >= frame
    BY <1>2, <2>1, Onward, Zenon
  <2> QED BY <1>4, <1>5, <2>3, <2>4, Zenon
<1>7. CASE First(w)
  <2>1. axi_r'.valid = TRUE /\ axi_r'.pos = 1 /\ frame' = frame + 1
    BY <1>1, <1>7, WordSeen, MacCounts
  <2>2. Stored' = 0
    <3>1. Stored' = 0 \/ Stored' = 1 - 1
      BY <2>1 DEF Stored
    <3> QED BY <3>1
  <2>3. frame' \in Nat /\ frame' >= frame /\ frame' > frame
    BY <1>2, <2>1
  <2> QED BY <1>4, <1>5, <2>2, <2>3, Zenon
<1> QED BY <1>1, <1>3, <1>6, <1>7

(* Nothing is being stored. *)
LEMMA Rests ==
  ASSUME RxTypes, RxAssumption, Arrived, WriteFsmInv, handed' \in WordSet,
         NEW w \in MacWords, Mac(w), WriteFsm(w),
         NEW q, NEW n \in Nat, n = Len(q), NEW cq, NEW k \in Nat, k = Len(cq),
         DataWritten(q), CmdWritten(cq),
         NEW m \in Nat, NEW e \in [Nat -> Int], NEW f \in [Nat -> Nat], NEW g \in [Nat -> BOOLEAN],
         NEW c \in [Nat -> BOOLEAN], HalfWay(m, e, f, g, c, q, cq),
         state_wr = "IDLE_WR", axi_r.valid = FALSE
  PROVE  Layout(m, e, f, g, c)'
<1>1. /\ Stored' = 0 /\ wr_en' = FALSE /\ Behind' = 0
      /\ frame' \in Nat /\ frame' >= frame /\ (Open' => frame' > frame)
  BY NextBegins
<1>2. frame \in Nat
  BY DEF RxTypes
<1>3. wr_en = FALSE /\ pos = 0 /\ Behind = 0
  BY DEF RxTypes, WriteFsmInv, Behind
<1>4. Stored = 0 /\ dataFifo' = q /\ cmdFifo' = cq
  BY <1>3 DEF Stored, DataWritten, CmdWritten, axis_wr_tvalid
<1>5. Packets(q, n, m, e, f, g, c, 0, frame', good')
  <2>1. Packets(q, n, m, e, f, g, c, 0, frame, good)
    BY <1>4 DEF HalfWay
  <2> QED BY <2>1, NextFrame
<1>6. Packets(dataFifo, Len(dataFifo), m, e, f, g, c, Stored, frame, good)'
  BY <1>1, <1>4, <1>5
<1>7. Matched(m, c, Taken, cmd_out.crc, cmdFifo, Len(cmdFifo), Behind, cmd_in.crc)'
  <2>1. Behind = 0 /\ Behind' = 0 /\ cmdFifo' = cq
    BY <1>1, <1>3, <1>4, Zenon
  <2>2. Matched(m, c, Taken', cmd_out'.crc, cq, Len(cq), 0, cmd_in.crc)
    BY <2>1 DEF HalfWay
  <2>3. Matched(m, c, Taken', cmd_out'.crc, cq, Len(cq), 0, cmd_in'.crc)
    BY <2>2, MatchedIdle
  <2> QED BY <2>1, <2>3
<1>8. ReadFsmInv(e)'
  BY <1>4 DEF HalfWay, ReadFsmInv
<1>9. TuserGood => /\ InOrder(m, f, frame', Open')
                   /\ HandedLast(m, e, f, handed', (Reading /\ Passing)', frame', Open')
  <2> SUFFICES ASSUME TuserGood
               PROVE  /\ InOrder(m, f, frame', Open')
                      /\ HandedLast(m, e, f, handed', (Reading /\ Passing)', frame', Open')
    OBVIOUS
  <2>0. PICK fr, fr1, o, o1, h, pass :
             /\ fr = frame /\ fr1 = frame' /\ o = Open /\ o1 = Open' /\ h = handed'
             /\ pass = (Reading /\ Passing)'
    OBVIOUS
  <2>1. fr \in Nat /\ fr1 \in Nat /\ h \in WordSet
    BY <1>1, <1>2, <2>0
  <2>2. /\ InOrder(m, f, fr, o) /\ HandedLast(m, e, f, h, pass, fr, o)
        /\ fr1 >= fr /\ (o1 => o \/ fr1 > fr)
    BY <1>1, <2>0 DEF HalfWay
  <2>3. InOrder(m, f, fr1, o1) /\ HandedLast(m, e, f, h, pass, fr1, o1)
    BY <2>1, <2>2, OrderKept
  <2> QED BY <2>0, <2>3
<1> QED BY <1>6, <1>7, <1>8, <1>9 DEF Layout

(* The last word of a frame is stored, and its command with it. *)
LEMMA Completes ==
  ASSUME RxTypes, RxAssumption, Arrived, WriteFsmInv, Waiting, handed' \in WordSet,
         NEW w \in MacWords, Mac(w), WriteFsm(w),
         NEW q, NEW n \in Nat, n = Len(q), NEW cq, NEW k \in Nat, k = Len(cq),
         DataWritten(q), CmdWritten(cq),
         NEW m \in Nat, NEW e \in [Nat -> Int], NEW f \in [Nat -> Nat], NEW g \in [Nat -> BOOLEAN],
         NEW c \in [Nat -> BOOLEAN], HalfWay(m, e, f, g, c, q, cq),
         state_wr = "IDLE_WR", axi_r.valid # FALSE
  PROVE  \E m1 \in Nat, d \in [Nat -> Int], f1 \in [Nat -> Nat], g1, c1 \in [Nat -> BOOLEAN] :
           Layout(m1, d, f1, g1, c1)'
<1>1. /\ Stored' = 0 /\ wr_en' = FALSE /\ Behind' = 0
      /\ frame' \in Nat /\ frame' >= frame /\ (Open' => frame' > frame)
  BY NextBegins
<1>2. pos = 0 /\ frame \in Nat /\ good \in BOOLEAN /\ force_tlast_to_fifo \in BOOLEAN
      /\ cmd_in \in CmdSet /\ MinWords \in Nat /\ MinWords >= 3
  BY DEF RxTypes, WriteFsmInv, RxAssumption
<1>3. /\ axi_r = MacWord(frame, axi_r.pos, TRUE, good) /\ axi_r.valid = TRUE
      /\ axi_r.pos >= MinWords /\ axi_r.pos \in Nat
  <2>1. ~(pos > 0)
    BY <1>2
  <2> QED BY <2>1, WordKept, Zenon
<1>4. wr_en = TRUE /\ Behind = 0
  BY <1>3 DEF RxTypes, WriteFsmInv, Behind
<1>5. PICK t \in Nat : t = Stored /\ t > 0 /\ t + 1 = axi_r.pos
  <2>1. Stored = axi_r.pos - 1
    BY <1>3 DEF Stored
  <2>2. PICK x \in Nat : x = axi_r.pos /\ x >= MinWords
    BY <1>3, Zenon
  <2>3. PICK y \in Nat : y = MinWords /\ y >= 3
    BY <1>2, Zenon
  <2>4. x >= y
    BY <2>2, <2>3, Zenon
  <2>5. x - 1 \in Nat /\ x - 1 > 0 /\ (x - 1) + 1 = x
    BY <2>3, <2>4
  <2> QED BY <2>1, <2>2, <2>5, Zenon
<1>6. axis_wr_word = MacWord(frame, t + 1, TRUE, good)
  <2>1. axi_r = MacWord(frame, t + 1, TRUE, good)
    BY <1>3, <1>5
  <2>2. axi_r.last = TRUE
    BY <2>1 DEF MacWord
  <2>3. axis_wr_word = [MacWord(frame, t + 1, TRUE, good) EXCEPT !.last = TRUE]
    BY <1>2, <2>1, <2>2 DEF axis_wr_word
  <2> QED BY <2>3 DEF MacWord
<1>7a. PICK fr \in Nat, gd \in BOOLEAN : fr = frame /\ gd = good
  BY <1>2
<1>7. PICK q1 : fr = frame /\ gd = good /\ q1 = dataFifo'
  BY <1>7a
<1>8. Len(dataFifo') = n + 1 /\ Longer(q1, q, n) /\ q1[n + 1] = MacWord(fr, t + 1, TRUE, gd)
  <2>1. axis_wr_tvalid
    BY <1>3 DEF axis_wr_tvalid
  <2> QED BY <1>6, <1>7, <2>1 DEF DataWritten
<1>9. PICK cr \in BOOLEAN : cr = cmd_in.crc
  BY <1>2 DEF CmdSet
<1>10. TuserGood /\ cr => gd = TRUE
  <2>1. cr = Tuser(axi_r)
    BY <1>3, <1>9 DEF Waiting
  <2>2. axi_r.good = gd
    <3>1. MacWord(frame, axi_r.pos, TRUE, good).good = good
      BY DEF MacWord
    <3> QED BY <1>3, <1>7, <3>1
  <2> QED BY <2>1, <2>2 DEF Tuser
<1>11. Closes(q1, q, n, t, fr, gd, cr)
  <2>1. q1[n + 1].last
    BY <1>8 DEF MacWord
  <2> QED BY <1>8, <1>10, <2>1 DEF Closes
<1>12. PICK u \in {0, 1} : u = Taken'
  BY DEF Taken
<1>13. PICK out, in1 : out = cmd_out'.crc /\ in1 = cmd_in'.crc
  OBVIOUS
<1>14. Packets(q, n, m, e, f, g, c, t, fr, gd) /\ Matched(m, c, u, out, cq, k, 0, cr)
  BY <1>4, <1>5, <1>7, <1>9, <1>12, <1>13 DEF HalfWay
<1>15. Ending(q, n, m, e, f, g, c, t, fr, gd, q1, cr, u, out, cq, k, cr)
  BY <1>5, <1>11, <1>14, Zenon DEF Ending
<1>16. PICK d \in [Nat -> Int], f1 \in [Nat -> Nat], g1 \in [Nat -> BOOLEAN], c1 \in [Nat -> BOOLEAN] :
            Ended(n, m, e, f, fr, q1, cr, u, out, cq, k, d, f1, g1, c1, frame', good')
  BY <1>15, PacketEnds, Zenon
<1>17. Packets(dataFifo, Len(dataFifo), m + 1, d, f1, g1, c1, Stored, frame, good)'
  BY <1>1, <1>7, <1>8, <1>16 DEF Ended
<1>18. Len(cmdFifo') = k + 1 /\ Longer(cmdFifo', cq, k) /\ cmdFifo'[k + 1].crc = cr
  BY <1>4, <1>9 DEF CmdWritten
<1>19. Matched(m + 1, c1, Taken, cmd_out.crc, cmdFifo, Len(cmdFifo), Behind, cmd_in.crc)'
  <2>1. PICK cq1 : cq1 = cmdFifo'
    OBVIOUS
  <2>2. Longer(cq1, cq, k) /\ cq1[k + 1].crc = cr
    BY <1>18, <2>1
  <2>3. PICK m1 \in Nat : m1 = m + 1
    OBVIOUS
  <2>4. Matched(m1, c1, u, out, cq, k, 1, cr)
    BY <1>16, <2>3 DEF Ended
  <2>5. Matched(m1, c1, u, out, cq1, k + 1, 0, in1)
    BY <2>2, <2>4, MatchedPush
  <2> QED BY <1>1, <1>12, <1>13, <1>18, <2>1, <2>3, <2>5
<1>20. ReadFsmInv(d)'
  <2>1. k + 1 > 0
    OBVIOUS
  <2> QED BY <1>16, <1>18, <2>1 DEF HalfWay, ReadFsmInv, Ended, OneMore
<1>21. TuserGood => /\ InOrder(m + 1, f1, frame', Open')
                    /\ HandedLast(m + 1, d, f1, handed', (Reading /\ Passing)', frame', Open')
  <2> SUFFICES ASSUME TuserGood
               PROVE  /\ InOrder(m + 1, f1, frame', Open')
                      /\ HandedLast(m + 1, d, f1, handed', (Reading /\ Passing)', frame', Open')
    OBVIOUS
  <2>0. PICK fr1, o1, h, pass : /\ fr1 = frame' /\ o1 = Open' /\ h = handed'
                                /\ pass = (Reading /\ Passing)'
    OBVIOUS
  <2>1. fr1 \in Nat /\ h \in WordSet /\ fr1 >= fr /\ (o1 => fr1 > fr)
    BY <1>1, <1>7, <2>0
  <2>2. Open = TRUE
    BY <1>3 DEF Open
  <2>3. InOrder(m, f, fr, TRUE) /\ HandedLast(m, e, f, h, pass, fr, TRUE)
    BY <1>7, <2>0, <2>2 DEF HalfWay
  <2>4. pass => m > 0
    BY <1>12, <1>16, <2>0 DEF Taken, Ended
  <2>5. InOrder(m + 1, f1, fr1, o1) /\ HandedLast(m + 1, d, f1, h, pass, fr1, o1)
    BY <1>16, <2>1, <2>3, <2>4, OrderNew, ZenonT(30) DEF OneMore, Ended
  <2> QED BY <2>0, <2>5
<1>22. Layout(m + 1, d, f1, g1, c1)'
  BY <1>17, <1>19, <1>20, <1>21 DEF Layout
<1>23. m + 1 \in Nat
  OBVIOUS
<1> QED BY <1>22, <1>23, Zenon

LEMMA WriteStep ==
  ASSUME RxTypes, RxAssumption, Arrived, WriteFsmInv, Waiting, handed' \in WordSet,
         NEW w \in MacWords, Mac(w), WriteFsm(w),
         NEW q, NEW n \in Nat, n = Len(q), NEW cq, NEW k \in Nat, k = Len(cq),
         DataWritten(q), CmdWritten(cq),
         NEW m \in Nat, NEW e \in [Nat -> Int], NEW f \in [Nat -> Nat], NEW g \in [Nat -> BOOLEAN],
         NEW c \in [Nat -> BOOLEAN], HalfWay(m, e, f, g, c, q, cq)
  PROVE  \E m1 \in Nat, d \in [Nat -> Int], f1 \in [Nat -> Nat], g1, c1 \in [Nat -> BOOLEAN] :
           Layout(m1, d, f1, g1, c1)'
<1>1. CASE state_wr \in {"DA_DECODE", "BEGIN_WRITE"} /\ ~force_tlast_to_fifo
  <2>1. Layout(m, e, f, g, c)'
    BY <1>1, WritesOn
  <2> QED BY <2>1, Zenon
<1>2. CASE state_wr = "BEGIN_WRITE" /\ force_tlast_to_fifo
  BY <1>2, Truncates
<1>3. CASE state_wr = "DROP_FRAME"
  <2>1. Layout(m, e, f, g, c)'
    BY <1>3, Drops
  <2> QED BY <2>1, Zenon
<1>4. CASE state_wr = "IDLE_WR" /\ axi_r.valid = FALSE
  <2>1. Layout(m, e, f, g, c)'
    BY <1>4, Rests
  <2> QED BY <2>1, Zenon
<1>5. CASE state_wr = "IDLE_WR" /\ axi_r.valid # FALSE
  BY <1>5, Completes
<1>6. state_wr \in {"IDLE_WR", "DA_DECODE", "BEGIN_WRITE", "DROP_FRAME"}
  BY DEF RxTypes
<1>7. state_wr = "DA_DECODE" => ~force_tlast_to_fifo
  BY DEF WriteFsmInv
<1> QED BY <1>1, <1>2, <1>3, <1>4, <1>5, <1>6, <1>7, Zenon

-----------------------------------------------------------------------------
(* A whole cycle. *)
LEMMA AppendOf ==
  ASSUME NEW S, NEW q \in Seq(S), NEW x \in S, NEW n \in Nat, n = Len(q)
  PROVE  /\ q \o <<x>> \in Seq(S) /\ Len(q \o <<x>>) = n + 1
         /\ Longer(q \o <<x>>, q, n) /\ (q \o <<x>>)[n + 1] = x
<1>1. <<x>> \in Seq(S) /\ Len(<<x>>) = 1 /\ <<x>>[1] = x
  OBVIOUS
<1>2. /\ q \o <<x>> \in Seq(S) /\ Len(q \o <<x>>) = n + 1
      /\ \A i \in 1 .. n : (q \o <<x>>)[i] = q[i]
      /\ (q \o <<x>>)[n + 1] = x
  BY <1>1, ConcatProperties
<1> QED BY <1>2 DEF Longer

LEMMA NothingAppended ==
  ASSUME NEW S, NEW q \in Seq(S)
  PROVE  q \o <<>> = q
  BY ConcatEmptySeq

LEMMA WordTyped ==
  ASSUME RxTypes, Arrived
  PROVE  axi_r \in WordSet /\ axis_wr_word \in WordSet
<1>1. frame \in Nat /\ pos \in Nat /\ good \in BOOLEAN /\ force_tlast_to_fifo \in BOOLEAN
  BY DEF RxTypes
<1>2. axi_r \in WordSet
  <2>1. CASE axi_r = NoWord
    BY <2>1 DEF NoWord, WordSet
  <2>2. CASE axi_r = MacWord(frame, pos, FALSE, good) /\ pos > 0
    BY <1>1, <2>2 DEF MacWord, WordSet
  <2>3. CASE \E n \in Nat : n >= MinWords /\ axi_r = MacWord(frame, n, TRUE, good)
    <3>1. PICK n \in Nat : axi_r = MacWord(frame, n, TRUE, good)
      BY <2>3
    <3> QED BY <1>1, <3>1 DEF MacWord, WordSet
  <2> QED BY <2>1, <2>2, <2>3 DEF Arrived
<1>3. axi_r.last \in BOOLEAN
  BY <1>2 DEF WordSet
<1>4. (axi_r.last \/ force_tlast_to_fifo) \in BOOLEAN
  OBVIOUS
<1> QED BY <1>2, <1>4 DEF axis_wr_word, WordSet

(* What the read half leaves in the FIFOs. *)
LEMMA ReadTyped ==
  ASSUME RxTypes, NEW ready \in BOOLEAN, ReadHalf(ready),
         NEW n \in Nat, n = Len(dataFifo)
  PROVE  /\ DataRead(ready) \in Seq(WordSet) /\ Len(DataRead(ready)) \in Nat
         /\ Len(DataRead(ready)) <= n
         /\ CmdRead \in Seq(CmdSet) /\ Len(CmdRead) \in Nat
         /\ handed' \in WordSet /\ cmd_out' \in CmdSet
<1>1. dataFifo \in Seq(WordSet) /\ cmdFifo \in Seq(CmdSet) /\ handed \in WordSet /\ cmd_out \in CmdSet
  BY DEF RxTypes
<1>2. dataFifo # <<>> => /\ Tail(dataFifo) \in Seq(WordSet) /\ Head(dataFifo) \in WordSet
                         /\ Len(Tail(dataFifo)) = n - 1
  BY <1>1, HeadTailProperties
<1>3. cmdFifo # <<>> => Tail(cmdFifo) \in Seq(CmdSet) /\ Head(cmdFifo) \in CmdSet
  BY <1>1, HeadTailProperties
<1>4. DataRead(ready) \in Seq(WordSet)
  BY <1>1, <1>2 DEF DataRead, axis_rd_tvalid
<1>5. CmdRead \in Seq(CmdSet)
  BY <1>1, <1>3 DEF CmdRead, empty
<1>6. Len(DataRead(ready)) \in Nat /\ Len(CmdRead) \in Nat
  BY <1>4, <1>5, LenProperties
<1>7. Len(DataRead(ready)) <= n
  <2>1. Len(DataRead(ready)) = n \/ Len(DataRead(ready)) = n - 1
    BY <1>2 DEF DataRead, axis_rd_tvalid
  <2> QED BY <2>1
<1>8. handed' \in WordSet
  BY <1>1, <1>2 DEF ReadHalf, HandOn, axis_rd_tvalid
<1>9. cmd_out' \in CmdSet
  BY <1>1, <1>3 DEF ReadHalf, CmdTaken, empty
<1> QED BY <1>4, <1>5, <1>6, <1>7, <1>8, <1>9

LEMMA ClockStep ==
  ASSUME RxInv, RxAssumption, NEW w \in MacWords, NEW ready \in BOOLEAN, Clock(w, ready)
  PROVE  RxInv' /\ (TuserGood => GoodHandOn)
<1>1. RxTypes /\ Arrived /\ WriteFsmInv /\ Room /\ Waiting
  BY DEF RxInv
<1>2. PICK m \in Nat, e \in [Nat -> Int], f \in [Nat -> Nat], g \in [Nat -> BOOLEAN],
           c \in [Nat -> BOOLEAN] : Layout(m, e, f, g, c)
  BY DEF RxInv
<1>3. Mac(w) /\ ForceTlast(w) /\ WriteFsm(w)
  BY DEF Clock
<1>4. ReadHalf(ready)
  BY DEF Clock, CmdFifo, ReadHalf, CmdTaken
<1>5. PICK n \in Nat : n = Len(dataFifo)
  <2>1. dataFifo \in Seq(WordSet)
    BY <1>1 DEF RxTypes
  <2> QED BY <2>1, LenProperties
<1>6. /\ DataRead(ready) \in Seq(WordSet) /\ Len(DataRead(ready)) \in Nat
      /\ Len(DataRead(ready)) <= n
      /\ CmdRead \in Seq(CmdSet) /\ Len(CmdRead) \in Nat
      /\ handed' \in WordSet /\ cmd_out' \in CmdSet
  BY <1>1, <1>4, <1>5, ReadTyped
<1>7. PICK q \in Seq(WordSet), n0 \in Nat, cq \in Seq(CmdSet), k \in Nat :
           q = DataRead(ready) /\ n0 = Len(q) /\ n0 <= n /\ cq = CmdRead /\ k = Len(cq)
  BY <1>6
<1>8. FifosSuffice
  BY Suffice
<1>9. dataFifo' = q \o (IF axis_wr_tvalid THEN <<axis_wr_word>> ELSE <<>>)
  <2>1. dataFifo' = DataRead(ready) \o (IF axis_wr_tvalid /\ left_over_space_in_fifo > 0
                                        THEN <<axis_wr_word>> ELSE <<>>)
    BY Zenon DEF Clock, DataFifo, DataRead
  <2>2. axis_wr_tvalid => left_over_space_in_fifo > 0
    BY <1>8 DEF FifosSuffice
  <2> QED BY <1>7, <2>1, <2>2, Zenon
<1>10. cmdFifo' = cq \o (IF wr_en THEN <<cmd_in>> ELSE <<>>)
  <2>1. cmdFifo' = CmdRead \o (IF wr_en /\ ~full THEN <<cmd_in>> ELSE <<>>)
    BY Zenon DEF Clock, CmdFifo, CmdRead
  <2>2. wr_en => ~full
    BY <1>8 DEF FifosSuffice
  <2> QED BY <1>7, <2>1, <2>2, Zenon
<1>11. axis_wr_word \in WordSet /\ cmd_in \in CmdSet
  BY <1>1, WordTyped DEF RxTypes
<1>12. /\ dataFifo' \in Seq(WordSet) /\ DataWritten(q)
       /\ Len(dataFifo') = IF axis_wr_tvalid THEN n0 + 1 ELSE n0
  <2>1. CASE axis_wr_tvalid
    <3>1. dataFifo' = q \o <<axis_wr_word>>
      BY <1>9, <2>1
    <3>2. PICK x \in WordSet : x = axis_wr_word
      BY <1>11
    <3>3. /\ q \o <<x>> \in Seq(WordSet) /\ Len(q \o <<x>>) = n0 + 1
          /\ Longer(q \o <<x>>, q, n0) /\ (q \o <<x>>)[n0 + 1] = x
      <4>1. n0 = Len(q)
        BY <1>7, Zenon
      <4> QED BY <4>1, AppendOf
    <3> QED BY <1>7, <2>1, <3>1, <3>2, <3>3, Zenon DEF DataWritten
  <2>2. CASE ~axis_wr_tvalid
    <3>1. dataFifo' = q
      BY <1>9, <2>2, NothingAppended
    <3> QED BY <1>7, <2>2, <3>1 DEF DataWritten
  <2> QED BY <2>1, <2>2
<1>13. cmdFifo' \in Seq(CmdSet) /\ CmdWritten(cq)
  <2>1. CASE wr_en
    <3>1. cmdFifo' = cq \o <<cmd_in>>
      BY <1>10, <2>1
    <3>2. PICK x \in CmdSet : x = cmd_in
      BY <1>11
    <3>3. /\ cq \o <<x>> \in Seq(CmdSet) /\ Len(cq \o <<x>>) = k + 1
          /\ Longer(cq \o <<x>>, cq, k) /\ (cq \o <<x>>)[k + 1] = x
      BY <1>7, AppendOf, SMTT(60)
    <3> QED BY <1>7, <2>1, <3>1, <3>2, <3>3, Zenon DEF CmdWritten
  <2>2. CASE ~wr_en
    <3>1. cmdFifo' = cq
      BY <1>10, <2>2, NothingAppended
    <3> QED BY <1>7, <2>2, <3>1 DEF CmdWritten
  <2> QED BY <2>1, <2>2
<1>14. Arrived' /\ frame' \in Nat /\ pos' \in Nat /\ good' \in BOOLEAN
  BY <1>1, <1>3, ArrivedStep
<1>15. /\ WriteFsmInv' /\ Waiting'
       /\ wr_en' \in BOOLEAN /\ force_tlast_to_fifo' \in BOOLEAN /\ cmd_in' \in CmdSet
       /\ state_wr' \in {"IDLE_WR", "DA_DECODE", "BEGIN_WRITE", "DROP_FRAME"}
  BY <1>1, <1>3, WriteFsmStep
<1>16. Room'
  <2>1. PICK n1 \in Nat : n1 = Len(dataFifo')
    BY <1>7, <1>12
  <2>2. n1 <= n + 1 /\ (~axis_wr_tvalid => n1 <= n)
    <3>1. CASE axis_wr_tvalid
      <4>1. n1 = n0 + 1 /\ n0 <= n
        BY <1>7, <1>12, <2>1, <3>1
      <4> QED BY <3>1, <4>1
    <3>2. CASE ~axis_wr_tvalid
      <4>1. n1 = n0 /\ n0 <= n
        BY <1>7, <1>12, <2>1, <3>2
      <4> QED BY <4>1
    <3> QED BY <3>1, <3>2
  <2>3. axis_wr_tvalid => n < FifoDepth
    <3>1. FifoDepth \in Nat
      BY DEF RxAssumption
    <3> QED BY <1>5, <1>8, <3>1 DEF FifosSuffice, left_over_space_in_fifo
  <2> QED BY <1>1, <1>3, <1>5, <2>1, <2>2, <2>3, RoomStep
<1>17. Stored \in Nat
  BY <1>1, StoredNat
<1>18. /\ \E m1 \in Nat, e1 \in [Nat -> Int], f1 \in [Nat -> Nat], g1, c1 \in [Nat -> BOOLEAN] :
            HalfWay(m1, e1, f1, g1, c1, DataRead(ready), CmdRead)
       /\ TuserGood => GoodHandOn
       /\ state_rd' \in ReadStates
  BY <1>1, <1>2, <1>4, <1>17, ReadStep
<1>19. PICK m1 \in Nat, e1 \in [Nat -> Int], f1 \in [Nat -> Nat], g1 \in [Nat -> BOOLEAN],
            c1 \in [Nat -> BOOLEAN] : HalfWay(m1, e1, f1, g1, c1, q, cq)
  BY <1>7, <1>18
<1>20. \E m2 \in Nat, d \in [Nat -> Int], f2 \in [Nat -> Nat], g2, c2 \in [Nat -> BOOLEAN] :
           Layout(m2, d, f2, g2, c2)'
  BY <1>1, <1>3, <1>6, <1>7, <1>12, <1>13, <1>19, WriteStep
<1>21. RxTypes'
  BY <1>6, <1>12, <1>13, <1>14, <1>15, <1>18 DEF RxTypes, ReadStates
<1>22. RxInv'
  BY <1>14, <1>15, <1>16, <1>20, <1>21, Zenon DEF RxInv
<1> QED BY <1>18, <1>22

LEMMA RxStart ==
  ASSUME Init, RxAssumption
  PROVE  RxInv
<1>1. RxTypes
  <2>1. NoWord \in WordSet /\ [NoWord EXCEPT !.last = TRUE, !.eof = TRUE] \in WordSet
    BY DEF NoWord, WordSet
  <2>2. [valid |-> FALSE, crc |-> FALSE] \in CmdSet
    BY DEF CmdSet
  <2>3. handed \in WordSet /\ cmd_in \in CmdSet /\ cmd_out \in CmdSet
    BY <2>1, <2>2, Zenon DEF Init
  <2>4. dataFifo \in Seq(WordSet) /\ cmdFifo \in Seq(CmdSet)
    BY DEF Init
  <2>5. /\ frame \in Nat /\ pos \in Nat /\ good \in BOOLEAN
        /\ force_tlast_to_fifo \in BOOLEAN /\ wr_en \in BOOLEAN
        /\ state_wr \in {"IDLE_WR", "DA_DECODE", "BEGIN_WRITE", "DROP_FRAME"}
        /\ state_rd \in {"IDLE_RD", "PREP_READ_1", "PREP_READ_2", "BEGIN_READ"}
    BY DEF Init
  <2> QED BY <2>3, <2>4, <2>5 DEF RxTypes
<1>2. Arrived
  BY DEF Init, Arrived
<1>3. axi_r.valid = FALSE
  BY DEF Init, NoWord
<1>4. WriteFsmInv /\ Waiting
  BY <1>3 DEF Init, WriteFsmInv, Waiting, Behind
<1>5. Len(dataFifo) = 0 /\ Len(cmdFifo) = 0
  BY DEF Init
<1>6. Room
  <2>1. FifoDepth \in Nat
    BY DEF RxAssumption
  <2>2. 0 <= FifoDepth
    BY <2>1
  <2> QED BY <1>3, <1>5, <2>2 DEF Init, Room
<1>7. PICK e, f, g : /\ e = [j \in Nat |-> 0] /\ f = [j \in Nat |-> 0]
                     /\ g = [j \in Nat |-> FALSE]
  OBVIOUS
<1>8. e \in [Nat -> Int] /\ f \in [Nat -> Nat] /\ g \in [Nat -> BOOLEAN] /\ e[0] = 0
  BY <1>7
<1>9. Stored = 0 /\ Taken = 0 /\ Behind = 0
  BY <1>3 DEF Init, Stored, Taken, Behind, Reading
<1>10. Packets(dataFifo, 0, 0, e, f, g, g, 0, frame, good)
  <2>1. \A i \in 0 + 1 .. 0 : dataFifo[i] = MacWord(frame, i - 0, FALSE, good)
    OBVIOUS
  <2> QED BY <1>8, <2>1 DEF Packets
<1>11. Matched(0, g, 0, cmd_out.crc, cmdFifo, 0, 0, cmd_in.crc)
  BY DEF Matched
<1>12. ReadFsmInv(e)
  BY <1>8 DEF Init, ReadFsmInv
<1>13. InOrder(0, f, frame, Open)
  BY DEF InOrder
<1>14. HandedLast(0, e, f, handed, Reading /\ Passing, frame, Open)
  <2>1. ~Open
    BY <1>3 DEF Init, Open
  <2>2. handed.last = TRUE /\ handed.frame = 0 /\ frame = 0
    BY DEF Init, NoWord
  <2> QED BY <1>8, <2>1, <2>2 DEF HandedLast
<1>15. Layout(0, e, f, g, g)
  BY <1>5, <1>9, <1>10, <1>11, <1>12, <1>13, <1>14 DEF Layout
<1> QED BY <1>1, <1>2, <1>4, <1>6, <1>8, <1>15 DEF RxInv

LEMMA RxStutters ==
  ASSUME RxInv, UNCHANGED vars
  PROVE  RxInv'
<1>1. /\ frame' = frame /\ pos' = pos /\ good' = good /\ axi_r' = axi_r
      /\ force_tlast_to_fifo' = force_tlast_to_fifo /\ state_wr' = state_wr /\ wr_en' = wr_en
      /\ cmd_in' = cmd_in /\ dataFifo' = dataFifo /\ cmdFifo' = cmdFifo /\ state_rd' = state_rd
      /\ cmd_out' = cmd_out /\ handed' = handed
  BY DEF vars, macVars
<1>2. RxTypes' /\ Arrived' /\ WriteFsmInv'
  BY <1>1 DEF RxInv, RxTypes, Arrived, WriteFsmInv
<1>3. Behind' = Behind /\ Taken' = Taken /\ Stored' = Stored /\ Open' = Open
      /\ (Reading /\ Passing)' = (Reading /\ Passing)
  BY <1>1 DEF Behind, Taken, Stored, Open, Reading, Passing, crc_pass
<1>4. Room' /\ Waiting'
  BY <1>1, <1>3 DEF RxInv, Room, Waiting, Tuser
<1>5. PICK m \in Nat, e \in [Nat -> Int], f \in [Nat -> Nat], g \in [Nat -> BOOLEAN],
           c \in [Nat -> BOOLEAN] : Layout(m, e, f, g, c)
  BY DEF RxInv
<1>6. Layout(m, e, f, g, c)'
  BY <1>1, <1>3, <1>5 DEF Layout, ReadFsmInv
<1> QED BY <1>2, <1>4, <1>6 DEF RxInv

LEMMA RxStep ==
  ASSUME RxInv, RxAssumption, [Next]_vars
  PROVE  RxInv' /\ (TuserGood => [GoodHandOn]_vars)
<1>1. CASE UNCHANGED vars
  BY <1>1, RxStutters
<1>2. CASE Next
  <2>1. PICK w \in MacWords, ready \in BOOLEAN : Clock(w, ready)
    BY <1>2 DEF Next
  <2> QED BY <2>1, ClockStep
<1> QED BY <1>1, <1>2

LEMMA RxInvariant ==
  ASSUME RxAssumption
  PROVE  Spec => []RxInv
<1>1. Init => RxInv
  BY RxStart
<1>2. RxInv /\ [Next]_vars => RxInv'
  BY RxStep
<1> QED BY <1>1, <1>2, PTL DEF Spec

(* Neither FIFO loses anything: no word that the write FSM stores finds    *)
(* axis_sync_fifo full, whose tready nobody looks at, and no command finds *)
(* cmd_fifo_xgemac_rxif full, which DROP_FRAME does not check when the     *)
(* next frame follows at once.  For all depths and thresholds that         *)
(* RxAssumption allows, and for both versions of the file.                 *)
THEOREM NothingIsLost == Spec => []FifosSuffice
<1>1. RxInv => FifosSuffice
  BY Suffice, RxAssumption
<1> QED BY <1>1, RxInvariant, RxAssumption, PTL

(* In the 7series file the port hands on whole good frames in the order of *)
(* their arrival, and nothing else: the commands and the packets, which    *)
(* the two state machines only match by counting, never get out of step,   *)
(* whatever is dropped or truncated between them.                          *)
THEOREM WholeGoodFrames == TuserGood => (Spec => OnlyGoodFrames)
<1>1. RxInv /\ [Next]_vars => (TuserGood => [GoodHandOn]_vars)
  BY RxStep, RxAssumption
<1> SUFFICES ASSUME TuserGood PROVE Spec => OnlyGoodFrames
  OBVIOUS
<1>2. RxInv /\ [Next]_vars => [GoodHandOn]_vars
  BY <1>1
<1>3. Spec => [][GoodHandOn]_vars
  BY <1>2, RxInvariant, RxAssumption, PTL DEF Spec
<1> QED BY <1>3 DEF OnlyGoodFrames, GoodHandOn
=============================================================================
