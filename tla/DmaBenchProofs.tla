--------------------------- MODULE DmaBenchProofs ---------------------------
(***************************************************************************)
(* For every buffer, access length, stride and number of accesses, and     *)
(* whatever the streams do: the commands of the benchmark engine stay in   *)
(* the buffer, and what it reports is the length of the whole run.         *)
(***************************************************************************)
EXTENDS DmaBench, SequenceTheorems, TLAPS

Inv == TypeOK /\ CommandsInBuffer

(* What the host may put into the registers. *)
LEMMA RegsType ==
  ASSUME NEW r \in Runs
  PROVE  /\ r.regBaseAddr \in Nat /\ r.memorySize \in Nat /\ r.numberOfAccesses \in Nat
         /\ r.chunkLength \in Nat /\ r.chunkLength > 0 /\ r.strideLength \in Nat
         /\ r.isWrite \in BOOLEAN
         /\ r.chunkLength <= r.memorySize
  BY RunsAssumption

(* The next address is in the buffer if the last one was: an access that   *)
(* would leave it is moved to the base.                                    *)
LEMMA WrappedInBuffer ==
  ASSUME regs \in Runs, NEW a \in Nat, regs.regBaseAddr <= a
  PROVE  /\ Wrapped(a) \in Nat
         /\ regs.regBaseAddr <= Wrapped(a)
         /\ Wrapped(a) + regs.chunkLength <= regs.regBaseAddr + regs.memorySize
  <1>1. /\ regs.regBaseAddr \in Nat /\ regs.memorySize \in Nat /\ regs.chunkLength \in Nat
        /\ regs.chunkLength <= regs.memorySize
    BY RegsType
  <1> QED
    BY <1>1 DEF Wrapped

(* Power-up establishes the invariant. *)
LEMMA InitInv == Init => Inv
  <1> SUFFICES ASSUME Init PROVE Inv
    OBVIOUS
  <1>1. requested \in Seq(Nat \ {0})
    BY DEF Init
  <1>2. runs \in 0 .. MaxRuns /\ cycle_counter \in 0 .. MaxCycles /\ execution_cycles \in 0 .. MaxCycles
    BY RunsAssumption DEF Init
  <1>3. TypeOK
    <2>1. /\ currentAddress \in Nat /\ count \in Nat /\ remainingLength \in Nat /\ sent \in Nat
          /\ received \in Nat /\ startSignal \in 0 .. 2 /\ readDoneSignal \in 0 .. 2
          /\ writeDoneSignal \in 0 .. 2 /\ elapsed \in Nat /\ words \in Nat
      BY DEF Init
    <2>2. /\ regs \in Runs /\ start \in BOOLEAN /\ state \in {"IDLE", "WRITE_CMD", "READ_CMD"}
          /\ isRandom \in BOOLEAN /\ sending \in BOOLEAN /\ receiving \in BOOLEAN
          /\ running \in BOOLEAN
      BY Zenon DEF Init
    <2> QED
      BY <1>1, <1>2, <2>1, <2>2, Zenon DEF TypeOK
  <1>4. CommandsInBuffer
    BY DEF Init, CommandsInBuffer
  <1> QED
    BY <1>3, <1>4 DEF Inv

(* Loading the registers: the generator is idle, so nothing it has begun   *)
(* is measured against the new buffer.                                     *)
LEMMA StartInv ==
  ASSUME Inv, NEW r \in Runs, Start(r)
  PROVE  Inv'
  <1> USE RunsAssumption DEF Inv, Start, cmdVars, generatorVars, consumerVars
  <1>1. TypeOK'
    BY DEF TypeOK
  <1>2. CommandsInBuffer'
    BY DEF CommandsInBuffer
  <1> QED
    BY <1>1, <1>2

(* A cycle of the command generator keeps its address in the buffer. *)
LEMMA CmdGeneratorInv ==
  ASSUME Inv, NEW ready \in BOOLEAN, CmdGenerator(ready), regs' = regs
  PROVE  /\ state' \in {"IDLE", "WRITE_CMD", "READ_CMD"} /\ isRandom' \in BOOLEAN
         /\ currentAddress' \in Nat /\ count' \in Nat
         /\ CommandsInBuffer'
  <1>1. /\ regs \in Runs /\ state \in {"IDLE", "WRITE_CMD", "READ_CMD"} /\ isRandom \in BOOLEAN
        /\ currentAddress \in Nat /\ count \in Nat
    BY DEF Inv, TypeOK
  <1>2. /\ regs.regBaseAddr \in Nat /\ regs.memorySize \in Nat /\ regs.chunkLength \in Nat
        /\ regs.strideLength \in Nat /\ regs.chunkLength <= regs.memorySize
    BY <1>1, RegsType
  <1>3. CASE CmdStart
    BY <1>1, <1>2, <1>3 DEF CmdStart, CommandsInBuffer
  <1>4. CASE CmdSend
    <2> DEFINE a == currentAddress + IF isRandom THEN regs.strideLength ELSE regs.chunkLength
    <2>1. state # "IDLE" /\ regs.regBaseAddr <= currentAddress
      BY <1>4 DEF CmdSend, Inv, CommandsInBuffer
    <2>2. a \in Nat /\ regs.regBaseAddr <= a
      BY <1>1, <1>2, <2>1
    <2>3. currentAddress' = Wrapped(a)
      BY <1>4 DEF CmdSend
    <2>4. /\ currentAddress' \in Nat /\ regs.regBaseAddr <= currentAddress'
          /\ currentAddress' + regs.chunkLength <= regs.regBaseAddr + regs.memorySize
      <3> HIDE DEF a
      <3> QED
        BY <1>1, <2>2, <2>3, WrappedInBuffer
    <2>5. /\ state' \in {"IDLE", "WRITE_CMD", "READ_CMD"} /\ isRandom' = isRandom
          /\ count' \in Nat
      BY <1>1, <1>4 DEF CmdSend
    <2> QED
      BY <1>1, <2>4, <2>5 DEF CommandsInBuffer
  <1>5. CASE UNCHANGED cmdVars
    BY <1>1, <1>5 DEF cmdVars, Inv, CommandsInBuffer
  <1> QED
    BY <1>3, <1>4, <1>5 DEF CmdGenerator

(* What is still to come back stays a sequence of positive lengths. *)
LEMMA RequestedType ==
  ASSUME TypeOK, NEW ready \in BOOLEAN, NEW arrives \in BOOLEAN
  PROVE  Requested(ready, arrives) \in Seq(Nat \ {0})
  <1> DEFINE rest == IF ~Consumes(arrives) THEN requested
                     ELSE IF EndOfPacket THEN Tail(requested)
                     ELSE <<Head(requested) - WordSize>> \o Tail(requested)
  <1>1. requested \in Seq(Nat \ {0}) /\ regs \in Runs
    BY DEF TypeOK
  <1>2. regs.chunkLength \in Nat \ {0}
    BY <1>1, RegsType
  <1>3. rest \in Seq(Nat \ {0})
    <2>1. CASE ~Consumes(arrives)
      BY <1>1, <2>1
    <2>2. CASE Consumes(arrives)
      <3>1. requested # <<>>
        BY <2>2 DEF Consumes
      <3>2. Head(requested) \in Nat \ {0} /\ Tail(requested) \in Seq(Nat \ {0})
        BY <1>1, <3>1, HeadTailProperties
      <3>3. CASE EndOfPacket
        BY <2>2, <3>2, <3>3
      <3>4. CASE ~EndOfPacket
        <4>1. Head(requested) - WordSize \in Nat \ {0}
          BY <3>2, <3>4, RunsAssumption DEF EndOfPacket
        <4>2. <<Head(requested) - WordSize>> \in Seq(Nat \ {0})
          BY <4>1
        <4>3. <<Head(requested) - WordSize>> \o Tail(requested) \in Seq(Nat \ {0})
          BY <3>2, <4>2, ConcatProperties
        <4> QED
          BY <2>2, <3>4, <4>3
      <3> QED
        BY <3>3, <3>4
    <2> QED
      BY <2>1, <2>2
  <1>4. Append(rest, regs.chunkLength) \in Seq(Nat \ {0})
    BY <1>2, <1>3, AppendProperties
  <1> QED
    BY <1>3, <1>4 DEF Requested

(* A clock cycle keeps the types of everything but the command generator. *)
LEMMA TickType ==
  ASSUME TypeOK, NEW c \in BOOLEAN, NEW d \in BOOLEAN, NEW a \in BOOLEAN, Tick(c, d, a)
  PROVE  /\ regs' \in Runs /\ start' \in BOOLEAN
         /\ sending' \in BOOLEAN /\ remainingLength' \in Nat /\ sent' \in Nat
         /\ receiving' \in BOOLEAN /\ received' \in Nat
         /\ running' \in BOOLEAN /\ cycle_counter' \in 0 .. MaxCycles
         /\ execution_cycles' \in 0 .. MaxCycles
         /\ startSignal' \in 0 .. 2 /\ readDoneSignal' \in 0 .. 2 /\ writeDoneSignal' \in 0 .. 2
         /\ requested' \in Seq(Nat \ {0})
         /\ runs' \in 0 .. MaxRuns /\ elapsed' \in Nat /\ words' \in Nat
  <1>1. regs' \in Runs /\ start' \in BOOLEAN /\ runs' \in 0 .. MaxRuns
    BY DEF Tick, TypeOK
  <1>2. sending' \in BOOLEAN /\ remainingLength' \in Nat /\ sent' \in Nat
    <2>1. DataGenerator(d)
      BY DEF Tick
    <2>2. /\ sending \in BOOLEAN /\ remainingLength \in Nat /\ sent \in Nat
          /\ regs.chunkLength \in Nat /\ WordSize \in Nat
      BY RegsType, RunsAssumption DEF TypeOK
    <2>3. sending' \in BOOLEAN
      BY <2>1, <2>2, Zenon DEF DataGenerator, generatorVars
    <2>4. remainingLength' \in Nat /\ sent' \in Nat
      BY <2>1, <2>2 DEF DataGenerator, LastWord, Sent, generatorVars
    <2> QED
      BY <2>3, <2>4
  <1>3. receiving' \in BOOLEAN /\ received' \in Nat
    <2>1. DataConsumer(a) /\ receiving \in BOOLEAN /\ received \in Nat
      BY DEF Tick, TypeOK
    <2>2. receiving' \in BOOLEAN
      BY <2>1, Zenon DEF DataConsumer, consumerVars
    <2>3. received' \in Nat
      BY <2>1 DEF DataConsumer, Received, consumerVars
    <2> QED
      BY <2>2, <2>3
  <1>4. /\ running' \in BOOLEAN /\ cycle_counter' \in 0 .. MaxCycles
        /\ execution_cycles' \in 0 .. MaxCycles
    <2>1. /\ Clock /\ cycle_counter \in 0 .. MaxCycles /\ execution_cycles \in 0 .. MaxCycles
          /\ MaxCycles \in Nat
      BY RunsAssumption DEF Tick, TypeOK
    <2>2. Cycle \in 0 .. MaxCycles
      BY <2>1 DEF Cycle, Counted
    <2> QED
      BY <2>1, <2>2 DEF Clock
  <1>5. startSignal' \in 0 .. 2 /\ readDoneSignal' \in 0 .. 2 /\ writeDoneSignal' \in 0 .. 2
    BY DEF Tick, TypeOK, Through
  <1>6. requested' \in Seq(Nat \ {0})
    BY RequestedType DEF Tick
  <1>7. elapsed' \in Nat /\ words' \in Nat
    BY DEF Tick, TypeOK
  <1> QED
    BY <1>1, <1>2, <1>3, <1>4, <1>5, <1>6, <1>7

(* Every step of the engine and of the host keeps the invariant. *)
LEMMA NextInv == Inv /\ [Next]_vars => Inv'
  <1> SUFFICES ASSUME Inv, [Next]_vars PROVE Inv'
    OBVIOUS
  <1>1. ASSUME NEW r \in Runs, Start(r) PROVE Inv'
    BY <1>1, StartInv
  <1>2. ASSUME NEW c \in BOOLEAN, NEW d \in BOOLEAN, NEW a \in BOOLEAN, Tick(c, d, a)
        PROVE  Inv'
    <2>1. CmdGenerator(c) /\ regs' = regs
      BY <1>2 DEF Tick
    <2>2. /\ state' \in {"IDLE", "WRITE_CMD", "READ_CMD"} /\ isRandom' \in BOOLEAN
          /\ currentAddress' \in Nat /\ count' \in Nat
          /\ CommandsInBuffer'
      BY <2>1, CmdGeneratorInv
    <2>3. TypeOK'
      BY <1>2, <2>2, TickType DEF Inv, TypeOK
    <2> QED
      BY <2>2, <2>3 DEF Inv
  <1>3. CASE UNCHANGED vars
    BY <1>3 DEF Inv, TypeOK, CommandsInBuffer, vars, cmdVars, generatorVars, consumerVars, clockVars
  <1> QED
    BY <1>1, <1>2, <1>3 DEF Next

(* The four processes of the engine keep the types of their variables. *)
THEOREM TypeCorrect == Spec => []TypeOK
  <1>1. Inv => TypeOK
    BY DEF Inv
  <1> QED
    BY <1>1, InitInv, NextInv, PTL DEF Spec

(* Every command of cmd_generator lies in the buffer named by the host,    *)
(* for every buffer that holds one access, any stride and any number of    *)
(* wraps.                                                                  *)
THEOREM AddressesInBuffer == Spec => []CommandsInBuffer
  <1>1. Inv => CommandsInBuffer
    BY DEF Inv
  <1> QED
    BY <1>1, InitInv, NextInv, PTL DEF Spec
-----------------------------------------------------------------------------
(* Where the engine is between a start and its report.  Words that a       *)
(* length takes: *)
WordsOf(length) == (length + WordSize - 1) \div WordSize
PerAccess == WordsOf(regs.chunkLength)

(* The command generator has commands left exactly when it is not idle,    *)
(* and they are of the kind that the registers ask for.                    *)
GeneratorInv ==
  state # "IDLE" => count < regs.numberOfAccesses /\ (regs.isWrite <=> state = "WRITE_CMD")

(* What data_generator has sent of the packets of this run. *)
WriteProgress ==
  /\ sent < regs.numberOfAccesses
  /\ remainingLength \in 1 .. regs.chunkLength
  /\ words = sent * PerAccess + (PerAccess - WordsOf(remainingLength))

(* What is on its way to data_consumer, r packets and w words of length k  *)
(* having arrived of n that were asked for: the first packet may have      *)
(* arrived in part, the others are whole.                                  *)
Arriving(q, r, n, w, k) ==
  /\ r + Len(q) = n
  /\ \A i \in 2 .. Len(q) : q[i] = k
  /\ q # <<>> => q[1] \in 1 .. k
  /\ w = r * WordsOf(k) + (IF q = <<>> THEN 0 ELSE WordsOf(k) - WordsOf(q[1]))

(* There is one packet for each command. *)
ReadProgress ==
  /\ received < regs.numberOfAccesses
  /\ state = "IDLE" => count = regs.numberOfAccesses
  /\ Arriving(requested, received, count, words, regs.chunkLength)

(* All words of the run have moved, and a read has nothing left to do. *)
RunEnded ==
  /\ words = WordsOfRun
  /\ ~regs.isWrite => state = "IDLE" /\ count = regs.numberOfAccesses /\ requested = <<>>

Resting == sending = FALSE /\ receiving = FALSE
NothingDone == readDoneSignal = 0 /\ writeDoneSignal = 0

(* Data is moving: the run has not reported and no done signal is on its   *)
(* way.                                                                    *)
Moving ==
  /\ sending = regs.isWrite /\ receiving = ~regs.isWrite
  /\ NothingDone /\ execution_cycles = 0 /\ start = FALSE
  /\ IF regs.isWrite THEN requested = <<>> /\ WriteProgress ELSE ReadProgress

Quiet ==
  /\ start = FALSE /\ startSignal = 0 /\ NothingDone /\ running = FALSE /\ Resting
  /\ requested = <<>> /\ (runs = 0 \/ execution_cycles # 0)
  /\ state # "READ_CMD"
Started ==
  /\ start = TRUE /\ startSignal = 0 /\ NothingDone /\ running = FALSE /\ Resting
  /\ requested = <<>> /\ execution_cycles = 0 /\ runs # 0 /\ state = "IDLE"
Beginning == startSignal = 1 /\ running = FALSE /\ elapsed = 0 /\ runs # 0 /\ Moving
Running == startSignal = 0 /\ running = TRUE /\ elapsed = Counted /\ runs # 0 /\ Moving
Ending ==
  /\ start = FALSE /\ startSignal = 0 /\ running = TRUE /\ Resting /\ requested = <<>>
  /\ readDoneSignal + writeDoneSignal = 1 /\ execution_cycles = 0 /\ runs # 0
  /\ elapsed = Counted /\ RunEnded

(* Every state is in one of the phases of a run. *)
PhaseInv == GeneratorInv /\ (Quiet \/ Started \/ Beginning \/ Running \/ Ending)

(* Words of a length that ends in this word, and of a longer one. *)
LEMMA WordsOfStep ==
  ASSUME NEW r \in Nat \ {0}
  PROVE  /\ WordsOf(r) \in Nat
         /\ r <= WordSize => WordsOf(r) = 1
         /\ r > WordSize => WordsOf(r - WordSize) = WordsOf(r) - 1
  <1>1. WordSize \in Nat \ {0}
    BY RunsAssumption
  <1> QED
    BY <1>1, SMTT(30) DEF WordsOf

(* One more packet. *)
LEMMA OneMore ==
  ASSUME NEW n \in Nat, NEW p \in Nat
  PROVE  (n + 1) * p = n * p + p /\ n * p \in Nat
  OBVIOUS

(* A cycle of the command generator that sees no start signal. *)
LEMMA CmdStep ==
  ASSUME TypeOK, GeneratorInv, NEW c \in BOOLEAN, CmdGenerator(c), start = FALSE, regs' = regs
  PROVE  /\ GeneratorInv'
         /\ c /\ state # "IDLE" =>
              /\ count' = count + 1
              /\ state' = IF count' = regs.numberOfAccesses THEN "IDLE" ELSE state
         /\ ~(c /\ state # "IDLE") => count' = count /\ state' = state
  <1>1. /\ count \in Nat /\ regs.numberOfAccesses \in Nat
        /\ state \in {"IDLE", "WRITE_CMD", "READ_CMD"}
    BY RegsType DEF TypeOK
  <1>2. CASE c /\ state # "IDLE"
    <2>1. CmdSend
      BY <1>2 DEF CmdGenerator, CmdStart, GeneratorStarts
    <2> QED
      BY <1>1, <1>2, <2>1 DEF CmdSend, GeneratorInv
  <1>3. CASE ~(c /\ state # "IDLE")
    <2>1. count' = count /\ state' = state
      BY <1>3 DEF CmdGenerator, CmdStart, CmdSend, GeneratorStarts, cmdVars
    <2> QED
      BY <1>3, <2>1 DEF GeneratorInv
  <1> QED
    BY <1>2, <1>3

(* A cycle of data_generator: another word, or the last one of the run. *)
LEMMA WriteStep ==
  ASSUME TypeOK, WriteProgress, sending = TRUE, NEW d \in BOOLEAN, DataGenerator(d), regs' = regs,
         words' = IF d THEN words + 1 ELSE words
  PROVE  \/ sending' = TRUE /\ WriteProgress'
         \/ sending' = FALSE /\ words' = WordsOfRun'
  <1>1. /\ sent \in Nat /\ words \in Nat /\ remainingLength \in Nat \ {0}
        /\ remainingLength <= regs.chunkLength
        /\ regs.numberOfAccesses \in Nat /\ regs.chunkLength \in Nat \ {0}
        /\ WordSize \in Nat \ {0} /\ sent < regs.numberOfAccesses
        /\ words = sent * PerAccess + (PerAccess - WordsOf(remainingLength))
    BY RegsType, RunsAssumption DEF TypeOK, WriteProgress
  <1>2. /\ PerAccess \in Nat /\ WordsOf(remainingLength) \in Nat /\ PerAccess' = PerAccess
        /\ PerAccess = WordsOf(regs.chunkLength)
    BY <1>1, WordsOfStep DEF PerAccess, WordsOf
  <1>3. WordsOfRun' = regs.numberOfAccesses * PerAccess
    BY DEF WordsOfRun, PerAccess, WordsOf
  <1>4. sent * PerAccess \in Nat /\ (sent + 1) * PerAccess = sent * PerAccess + PerAccess
    BY <1>1, <1>2, OneMore
  <1>5. CASE ~d
    <2>1. /\ sending' = TRUE /\ remainingLength' = remainingLength /\ sent' = sent
          /\ words' = words
      BY <1>5 DEF DataGenerator, generatorVars
    <2> QED
      BY <1>2, <2>1 DEF WriteProgress, WordsOf
  <1>6. CASE d /\ ~LastWord
    <2>1. /\ remainingLength' = remainingLength - WordSize /\ sent' = sent
          /\ sending' = (sent # regs.numberOfAccesses) /\ words' = words + 1
      BY <1>6 DEF DataGenerator, Sent
    <2>2. remainingLength > WordSize
      BY <1>1, <1>6 DEF LastWord
    <2>3. /\ WordsOf(remainingLength)' = WordsOf(remainingLength) - 1
          /\ remainingLength' \in 1 .. regs.chunkLength
      <3>1. WordsOf(remainingLength)' = WordsOf(remainingLength - WordSize)
        BY <2>1 DEF WordsOf
      <3> QED
        BY <1>1, <2>1, <2>2, <3>1, WordsOfStep
    <2>4. words' = sent * PerAccess + (PerAccess - WordsOf(remainingLength)')
      BY <1>1, <1>2, <1>4, <2>1, <2>3
    <2>5. sending' = TRUE
      BY <1>1, <2>1
    <2> QED
      BY <1>1, <1>2, <2>1, <2>3, <2>4, <2>5 DEF WriteProgress
  <1>7. CASE d /\ LastWord
    <2>1. /\ remainingLength' = regs.chunkLength /\ sent' = sent + 1
          /\ sending' = (sent + 1 # regs.numberOfAccesses) /\ words' = words + 1
      BY <1>7 DEF DataGenerator, Sent
    <2>2. WordsOf(remainingLength) = 1
      BY <1>1, <1>7, WordsOfStep DEF LastWord
    <2>3. words' = (sent + 1) * PerAccess
      BY <1>1, <1>2, <1>4, <2>1, <2>2
    <2>4. CASE sent + 1 = regs.numberOfAccesses
      BY <1>3, <2>1, <2>3, <2>4
    <2>5. CASE sent + 1 # regs.numberOfAccesses
      <3>1. WordsOf(remainingLength)' = PerAccess
        BY <2>1 DEF PerAccess, WordsOf
      <3>2. words' = (sent + 1) * PerAccess + (PerAccess - PerAccess)
        <4>1. (sent + 1) * PerAccess \in Nat
          BY <1>2, <1>4
        <4> QED
          BY <1>2, <2>3, <4>1
      <3>3. sent' < regs.numberOfAccesses /\ remainingLength' \in 1 .. regs.chunkLength
        BY <1>1, <2>1, <2>5
      <3> QED
        BY <1>2, <2>1, <2>5, <3>1, <3>2, <3>3 DEF WriteProgress
    <2> QED
      BY <2>4, <2>5
  <1> QED
    BY <1>5, <1>6, <1>7

(* A word of the first packet arrives, and is not its last. *)
LEMMA ArriveWord ==
  ASSUME NEW q \in Seq(Nat \ {0}), NEW r \in Nat, NEW n \in Nat, NEW w \in Nat, NEW k \in Nat \ {0},
         Arriving(q, r, n, w, k), q # <<>>, Head(q) > WordSize
  PROVE  Arriving(<<Head(q) - WordSize>> \o Tail(q), r, n, w + 1, k)
  <1>1. WordSize \in Nat \ {0} /\ q[1] \in Nat \ {0} /\ Head(q) = q[1] /\ Len(q) \in Nat \ {0}
    BY RunsAssumption
  <1> DEFINE u == <<Head(q) - WordSize>> \o Tail(q)
  <1>2. /\ Len(u) = Len(q) /\ u # <<>> /\ u[1] = q[1] - WordSize
        /\ \A i \in 2 .. Len(q) : u[i] = q[i]
    BY <1>1
  <1>3. WordsOf(u[1]) = WordsOf(q[1]) - 1 /\ WordsOf(q[1]) \in Nat
    <2>1. q[1] > WordSize
      BY <1>1
    <2> QED
      BY <1>1, <1>2, <2>1, WordsOfStep
  <1>4. u[1] \in 1 .. k
    BY <1>1, <1>2 DEF Arriving
  <1>5. r * WordsOf(k) \in Nat /\ WordsOf(k) \in Nat
    BY WordsOfStep, OneMore
  <1>6. w + 1 = r * WordsOf(k) + (WordsOf(k) - WordsOf(u[1]))
    BY <1>3, <1>5, SMTT(30) DEF Arriving
  <1> HIDE DEF u
  <1>7. Arriving(u, r, n, w + 1, k)
    BY <1>2, <1>4, <1>6 DEF Arriving
  <1> QED
    BY <1>7 DEF u

(* The last word of the first packet arrives. *)
LEMMA ArrivePacket ==
  ASSUME NEW q \in Seq(Nat \ {0}), NEW r \in Nat, NEW n \in Nat, NEW w \in Nat, NEW k \in Nat \ {0},
         Arriving(q, r, n, w, k), q # <<>>, Head(q) <= WordSize
  PROVE  Arriving(Tail(q), r + 1, n, w + 1, k)
  <1>1. WordSize \in Nat \ {0} /\ q[1] \in Nat \ {0} /\ Head(q) = q[1] /\ Len(q) \in Nat \ {0}
    BY RunsAssumption
  <1>2. PICK m \in Nat : Len(q) = m + 1
    <2>1. \A l \in Nat \ {0} : \E m \in Nat : l = m + 1
      <3>1. ASSUME NEW l \in Nat \ {0} PROVE l - 1 \in Nat /\ l = (l - 1) + 1
        OBVIOUS
      <3> QED
        BY <3>1, Zenon
    <2> QED
      BY <1>1, <2>1, Zenon
  <1>3. PICK u : u = Tail(q)
    OBVIOUS
  <1>4. u \in Seq(Nat \ {0}) /\ Len(u) = m
    <2>1. Len(u) = Len(q) - 1 /\ u \in Seq(Nat \ {0})
      BY <1>3, HeadTailProperties
    <2> QED
      BY <1>2, <2>1
  <1>5. \A i \in 1 .. m : u[i] = q[i + 1]
    BY <1>2, <1>3
  <1>6. u = <<>> <=> m = 0
    BY <1>4, EmptySeq
  <1>7. \A i \in 2 .. m + 1 : q[i] = k
    BY <1>2 DEF Arriving
  <1>8. \A i \in 1 .. m : u[i] = k
    BY <1>5, <1>7
  <1>9. WordsOf(q[1]) = 1
    BY <1>1, WordsOfStep
  <1>10. /\ r * WordsOf(k) \in Nat /\ WordsOf(k) \in Nat
         /\ (r + 1) * WordsOf(k) = r * WordsOf(k) + WordsOf(k)
    BY WordsOfStep, OneMore
  <1>11. w + 1 = (r + 1) * WordsOf(k)
    BY <1>9, <1>10, SMTT(30) DEF Arriving
  <1>12. u # <<>> => u[1] = k
    BY <1>6, <1>8
  <1>13. w + 1 = (r + 1) * WordsOf(k) + (IF u = <<>> THEN 0 ELSE WordsOf(k) - WordsOf(u[1]))
    BY <1>10, <1>11, <1>12
  <1>14. r + 1 + Len(u) = n
    <2>1. r + (m + 1) = n
      BY <1>2 DEF Arriving
    <2> QED
      BY <1>4, <2>1
  <1>15. Arriving(u, r + 1, n, w + 1, k)
    <2>1. \A i \in 2 .. Len(u) : u[i] = k
      BY <1>4, <1>8
    <2>2. u # <<>> => u[1] \in 1 .. k
      BY <1>12
    <2> QED
      BY <1>13, <1>14, <2>1, <2>2 DEF Arriving
  <1> QED
    BY <1>3, <1>15

(* Another packet is asked for. *)
LEMMA ArriveMore ==
  ASSUME NEW q \in Seq(Nat \ {0}), NEW r \in Nat, NEW n \in Nat, NEW w \in Nat, NEW k \in Nat \ {0},
         Arriving(q, r, n, w, k)
  PROVE  Arriving(Append(q, k), r, n + 1, w, k)
  <1> DEFINE u == Append(q, k)
  <1>1. /\ Len(u) = Len(q) + 1 /\ u # <<>> /\ u[Len(q) + 1] = k
        /\ \A i \in 1 .. Len(q) : u[i] = q[i]
        /\ Len(q) \in Nat /\ (q = <<>> <=> Len(q) = 0)
    OBVIOUS
  <1>2. r * WordsOf(k) \in Nat /\ WordsOf(k) \in Nat
    BY WordsOfStep, OneMore
  <1>3. IF q = <<>> THEN u[1] = k ELSE u[1] = q[1]
    BY <1>1
  <1>4. /\ r + Len(q) = n /\ (\A i \in 2 .. Len(q) : q[i] = k) /\ (q # <<>> => q[1] \in 1 .. k)
        /\ w = r * WordsOf(k) + (IF q = <<>> THEN 0 ELSE WordsOf(k) - WordsOf(q[1]))
    BY DEF Arriving
  <1> HIDE DEF u
  <1>5. r + Len(u) = n + 1
    BY <1>1, <1>4, SMTT(30)
  <1>6. ASSUME NEW i \in 2 .. Len(u) PROVE u[i] = k
    BY <1>1, <1>4
  <1>7. u[1] \in 1 .. k
    BY <1>3, <1>4
  <1>8. w = r * WordsOf(k) + (WordsOf(k) - WordsOf(u[1]))
    BY <1>2, <1>3, <1>4
  <1>9. Arriving(u, r, n + 1, w, k)
    BY <1>1, <1>5, <1>6, <1>7, <1>8 DEF Arriving
  <1> QED
    BY <1>9 DEF u

(* A cycle of data_consumer while the commands go out: a word of the run,  *)
(* its last one, or none.                                                  *)
LEMMA ReadStep ==
  ASSUME TypeOK, GeneratorInv, ReadProgress, receiving = TRUE, regs.isWrite = FALSE, start = FALSE,
         NEW c \in BOOLEAN, NEW a \in BOOLEAN, CmdGenerator(c), DataConsumer(a), regs' = regs,
         requested' = Requested(c, a), words' = IF Consumes(a) THEN words + 1 ELSE words
  PROVE  \/ receiving' = TRUE /\ ReadProgress'
         \/ receiving' = FALSE /\ RunEnded'
  <1> DEFINE k == regs.chunkLength
             N == regs.numberOfAccesses
             rest == IF ~Consumes(a) THEN requested
                     ELSE IF EndOfPacket THEN Tail(requested)
                     ELSE <<Head(requested) - WordSize>> \o Tail(requested)
             more == state = "READ_CMD" /\ c
  <1>1. /\ requested \in Seq(Nat \ {0}) /\ received \in Nat /\ count \in Nat /\ words \in Nat
        /\ k \in Nat \ {0} /\ N \in Nat \ {0} /\ WordSize \in Nat \ {0}
        /\ state \in {"IDLE", "READ_CMD"}
    BY RegsType, RunsAssumption DEF TypeOK, GeneratorInv
  <1>2. /\ received < N /\ (state = "IDLE" => count = N)
        /\ Arriving(requested, received, count, words, k)
    BY DEF ReadProgress
  <1>3. /\ rest \in Seq(Nat \ {0}) /\ received' \in Nat /\ words' \in Nat
        /\ Arriving(rest, received', count, words', k)
        /\ received' \in {received, received + 1}
        /\ receiving' = (received' # N)
    <2>1. CASE ~Consumes(a)
      <3>1. received' = received /\ receiving' = TRUE /\ words' = words /\ rest = requested
        BY <2>1 DEF DataConsumer, consumerVars
      <3>2. received' # N
        BY <1>1, <1>2, <3>1
      <3>3. receiving' = (received' # N)
        BY <3>1, <3>2, Zenon
      <3> HIDE DEF rest
      <3> QED
        BY <1>1, <1>2, <3>1, <3>3
    <2>2. CASE Consumes(a)
      <3>1. requested # <<>> /\ words' = words + 1
        BY <2>2 DEF Consumes
      <3>2. received' = Received /\ receiving' = (Received # N)
        BY <2>2 DEF DataConsumer
      <3>3. Head(requested) \in Nat \ {0} /\ Tail(requested) \in Seq(Nat \ {0})
        BY <1>1, <3>1, HeadTailProperties
      <3>4. CASE EndOfPacket
        <4>1. rest = Tail(requested) /\ received' = received + 1
          BY <2>2, <3>2, <3>4 DEF Received
        <4>2. Head(requested) <= WordSize
          BY <3>4 DEF EndOfPacket
        <4>3. Arriving(Tail(requested), received + 1, count, words + 1, k)
          BY <1>1, <1>2, <3>1, <4>2, ArrivePacket
        <4> QED
          BY <1>1, <3>1, <3>2, <3>3, <4>1, <4>3
      <3>5. CASE ~EndOfPacket
        <4>1. rest = <<Head(requested) - WordSize>> \o Tail(requested) /\ received' = received
          BY <2>2, <3>2, <3>5 DEF Received
        <4>2. Head(requested) > WordSize
          BY <1>1, <3>3, <3>5 DEF EndOfPacket
        <4>3. Arriving(<<Head(requested) - WordSize>> \o Tail(requested), received, count, words + 1, k)
          BY <1>1, <1>2, <3>1, <4>2, ArriveWord
        <4>4. Head(requested) - WordSize \in Nat \ {0}
          BY <1>1, <3>3, <4>2
        <4>5. rest \in Seq(Nat \ {0})
          <5>1. <<Head(requested) - WordSize>> \in Seq(Nat \ {0})
            BY <4>4
          <5> QED
            BY <3>3, <4>1, <5>1, ConcatProperties, ZenonT(60)
        <4> QED
          BY <1>1, <3>1, <3>2, <4>1, <4>3, <4>5
      <3> QED
        BY <3>4, <3>5
    <2> QED
      BY <2>1, <2>2
  <1>4. requested' = IF more THEN Append(rest, k) ELSE rest
    BY DEF Requested
  <1> HIDE DEF rest
  <1>5. /\ count' = IF more THEN count + 1 ELSE count
        /\ state' = IF more /\ count + 1 = N THEN "IDLE" ELSE state
        /\ GeneratorInv'
    BY <1>1, CmdStep
  <1>6. Arriving(requested', received', count', words', k)
    <2>1. CASE more
      BY <1>1, <1>3, <1>4, <1>5, <2>1, ArriveMore, SMTT(30)
    <2>2. CASE ~more
      BY <1>3, <1>4, <1>5, <2>2
    <2> QED
      BY <2>1, <2>2
  <1>7. /\ count' \in Nat /\ count' <= N /\ (state' = "IDLE" => count' = N)
        /\ state' \in {"IDLE", "READ_CMD"}
    BY <1>1, <1>2, <1>5 DEF GeneratorInv
  <1>8. requested' \in Seq(Nat \ {0}) /\ Len(requested') \in Nat
    <2>1. requested' \in Seq(Nat \ {0})
      BY <1>1, <1>3, <1>4, AppendProperties
    <2> QED
      BY <2>1
  <1>9. received' + Len(requested') = count'
    BY <1>6 DEF Arriving
  <1>10. CASE received' # N
    <2>1. receiving' = TRUE
      BY <1>3, <1>10
    <2>2. received' < N
      BY <1>1, <1>2, <1>3, <1>10
    <2>3. ReadProgress'
      BY <1>6, <1>7, <2>2 DEF ReadProgress, Arriving, WordsOf
    <2> QED
      BY <2>1, <2>3
  <1>11. CASE received' = N
    <2>1. receiving' = FALSE
      BY <1>3, <1>11
    <2>2. Len(requested') = 0 /\ count' = N
      BY <1>1, <1>3, <1>7, <1>8, <1>9, <1>11
    <2>3. requested' = <<>>
      BY <1>8, <2>2
    <2>4. state' = "IDLE"
      BY <1>5, <1>7, <2>2 DEF GeneratorInv
    <2>5. words' = WordsOfRun'
      <3>1. words' = N * WordsOf(k) + 0
        BY <1>6, <1>11, <2>3 DEF Arriving
      <3>2. N * WordsOf(k) \in Nat
        BY <1>1, WordsOfStep, OneMore
      <3> QED
        BY <3>1, <3>2 DEF WordsOfRun, WordsOf
    <2>6. RunEnded'
      BY <2>2, <2>3, <2>4, <2>5 DEF RunEnded
    <2> QED
      BY <2>1, <2>6
  <1> QED
    BY <1>10, <1>11

(* A cycle in which data is moving: it goes on moving, or the run has      *)
(* ended and one done signal is on its way.                                *)
LEMMA MovingTick ==
  ASSUME TypeOK, GeneratorInv, Moving, NEW c \in BOOLEAN, NEW d \in BOOLEAN, NEW a \in BOOLEAN,
         Tick(c, d, a)
  PROVE  /\ start' = FALSE /\ execution_cycles' = 0
         /\ elapsed' = IF elapsed < MaxCycles THEN elapsed + 1 ELSE elapsed
         /\ \/ Moving'
            \/ /\ Resting' /\ requested' = <<>> /\ RunEnded'
               /\ readDoneSignal' + writeDoneSignal' = 1
  <1>1. /\ regs.isWrite \in BOOLEAN /\ sending = regs.isWrite /\ receiving = ~regs.isWrite
        /\ readDoneSignal = 0 /\ writeDoneSignal = 0 /\ execution_cycles = 0 /\ start = FALSE
    BY RegsType DEF TypeOK, Moving, NothingDone
  <1>2. /\ CmdGenerator(c) /\ DataGenerator(d) /\ DataConsumer(a) /\ Clock /\ regs' = regs
        /\ requested' = Requested(c, a) /\ start' = FALSE
        /\ readDoneSignal' = Through(readDoneSignal, receiving /\ ~receiving')
        /\ writeDoneSignal' = Through(writeDoneSignal, sending /\ ~sending')
    BY DEF Tick
  <1>3. ~GeneratorStarts
    BY <1>1 DEF GeneratorStarts
  <1>4. words' = IF (sending /\ d) \/ Consumes(a) THEN words + 1 ELSE words
    BY <1>3 DEF Tick
  <1>5. execution_cycles' = 0
    BY <1>1, <1>2 DEF Clock
  <1>6. elapsed' = IF elapsed < MaxCycles THEN elapsed + 1 ELSE elapsed
    BY <1>1, <1>3 DEF Tick
  <1>7. CASE regs.isWrite = TRUE
    <2>1. sending = TRUE /\ receiving = FALSE /\ requested = <<>> /\ WriteProgress
      BY <1>1, <1>7 DEF Moving
    <2>2. receiving' = FALSE /\ ~Consumes(a)
      BY <1>1, <1>2, <2>1 DEF DataConsumer, consumerVars, Consumes
    <2>3. requested' = <<>>
      BY <1>2, <1>7, <2>1, <2>2 DEF Requested, GeneratorInv
    <2>4. readDoneSignal' = 0
      BY <1>1, <1>2, <2>1 DEF Through
    <2>5. words' = IF d THEN words + 1 ELSE words
      BY <1>4, <2>1, <2>2
    <2>6. CASE sending' = TRUE /\ WriteProgress'
      <3>1. writeDoneSignal' = 0
        BY <1>1, <1>2, <2>6 DEF Through
      <3>2. NothingDone'
        BY <2>4, <3>1 DEF NothingDone
      <3>3. Moving'
        BY <1>2, <1>5, <1>7, <2>2, <2>3, <2>6, <3>2 DEF Moving
      <3> QED
        BY <1>2, <1>5, <1>6, <3>3
    <2>7. CASE sending' = FALSE /\ words' = WordsOfRun'
      <3>1. writeDoneSignal' = 1
        BY <1>1, <1>2, <2>1, <2>7 DEF Through
      <3>2. readDoneSignal' + writeDoneSignal' = 1
        BY <2>4, <3>1
      <3>3. RunEnded' /\ Resting'
        BY <1>2, <1>7, <2>2, <2>7 DEF RunEnded, Resting
      <3> QED
        BY <1>2, <1>5, <1>6, <2>3, <3>2, <3>3
    <2> QED
      BY <1>2, <2>1, <2>5, <2>6, <2>7, WriteStep
  <1>8. CASE regs.isWrite = FALSE
    <2>1. sending = FALSE /\ receiving = TRUE /\ ReadProgress
      BY <1>1, <1>8 DEF Moving
    <2>2. sending' = FALSE
      BY <1>1, <1>2, <2>1 DEF DataGenerator, generatorVars
    <2>3. writeDoneSignal' = 0
      BY <1>1, <1>2, <2>1 DEF Through
    <2>4. words' = IF Consumes(a) THEN words + 1 ELSE words
      BY <1>4, <2>1
    <2>5. CASE receiving' = TRUE /\ ReadProgress'
      <3>1. readDoneSignal' = 0
        BY <1>1, <1>2, <2>5 DEF Through
      <3>2. NothingDone'
        BY <2>3, <3>1 DEF NothingDone
      <3>3. Moving'
        BY <1>2, <1>5, <1>8, <2>2, <2>5, <3>2 DEF Moving
      <3> QED
        BY <1>2, <1>5, <1>6, <3>3
    <2>6. CASE receiving' = FALSE /\ RunEnded'
      <3>1. readDoneSignal' = 1
        BY <1>1, <1>2, <2>1, <2>6 DEF Through
      <3>2. readDoneSignal' + writeDoneSignal' = 1
        BY <2>3, <3>1
      <3>3. requested' = <<>> /\ Resting'
        BY <1>2, <1>8, <2>2, <2>6 DEF RunEnded, Resting
      <3> QED
        BY <1>2, <1>5, <1>6, <2>6, <3>2, <3>3
    <2> QED
      BY <1>1, <1>2, <1>8, <2>1, <2>4, <2>5, <2>6, ReadStep
  <1> QED
    BY <1>1, <1>7, <1>8

(* The clock while no done signal has come. *)
LEMMA ClockRuns ==
  ASSUME Clock, readDoneSignal = 0, writeDoneSignal = 0
  PROVE  /\ execution_cycles' = execution_cycles /\ cycle_counter' = Cycle
         /\ running = FALSE /\ startSignal = 0 => running' = FALSE
         /\ running = TRUE \/ startSignal = 1 => running' = TRUE
  <1>1. ~(readDoneSignal > 0) /\ ~(writeDoneSignal > 0)
    OBVIOUS
  <1>2. /\ execution_cycles' = execution_cycles /\ cycle_counter' = Cycle
        /\ running' = (running \/ startSignal > 0)
    BY <1>1, Zenon DEF Clock
  <1>3. (startSignal = 0 => ~(startSignal > 0)) /\ (startSignal = 1 => startSignal > 0)
    OBVIOUS
  <1> QED
    BY <1>2, <1>3, Zenon

(* From the cycle that takes the start signal out of its stream on, the    *)
(* clock runs one cycle behind the run it measures.                        *)
LEMMA RunTick ==
  ASSUME TypeOK, GeneratorInv, Beginning \/ Running,
         NEW c \in BOOLEAN, NEW d \in BOOLEAN, NEW a \in BOOLEAN, Tick(c, d, a)
  PROVE  Running' \/ Ending'
  <1>1. Moving /\ runs # 0 /\ runs' = runs
    BY DEF Beginning, Running, Tick
  <1>2. /\ start' = FALSE /\ execution_cycles' = 0
        /\ elapsed' = IF elapsed < MaxCycles THEN elapsed + 1 ELSE elapsed
        /\ \/ Moving'
           \/ /\ Resting' /\ requested' = <<>> /\ RunEnded'
              /\ readDoneSignal' + writeDoneSignal' = 1
    BY <1>1, MovingTick
  <1>3. readDoneSignal = 0 /\ writeDoneSignal = 0 /\ start = FALSE
    BY <1>1 DEF Moving, NothingDone
  <1>4. cycle_counter' = Cycle /\ startSignal' = Through(startSignal, FALSE)
    <2>1. Clock /\ startSignal' = Through(startSignal, GeneratorStarts)
      BY DEF Tick
    <2>2. GeneratorStarts = FALSE
      BY <1>3 DEF GeneratorStarts
    <2> QED
      BY <1>3, <2>1, <2>2, ClockRuns
  <1>5. MaxCycles \in Nat \ {0} /\ cycle_counter \in Nat
    BY RunsAssumption DEF TypeOK
  <1>6. running' = TRUE /\ startSignal' = 0 /\ elapsed' = Counted'
    <2>1. running' = TRUE
      <3>1. Clock
        BY DEF Tick
      <3> QED
        BY <1>3, <3>1, ClockRuns DEF Beginning, Running
    <2>2. CASE Beginning
      <3>1. startSignal = 1 /\ elapsed = 0
        BY <2>2 DEF Beginning
      <3>2. cycle_counter' = 0 /\ startSignal' = 0 /\ elapsed' = 1
        BY <1>2, <1>4, <1>5, <3>1 DEF Cycle, Through
      <3>3. Counted' = 1
        BY <1>5, <3>2 DEF Counted
      <3> QED
        BY <2>1, <3>2, <3>3
    <2>3. CASE Running
      <3>1. startSignal = 0 /\ running = TRUE /\ elapsed = Counted
        BY <2>3 DEF Running
      <3>2. cycle_counter' = Counted /\ startSignal' = 0
        BY <1>4, <3>1 DEF Cycle, Through
      <3>3. elapsed' = Counted'
        BY <1>2, <1>5, <3>1, <3>2 DEF Counted
      <3> QED
        BY <2>1, <3>2, <3>3
    <2> QED
      BY <2>2, <2>3
  <1> QED
    BY <1>1, <1>2, <1>6 DEF Running, Ending

(* The cycle that takes the start signal. *)
LEMMA StartedTick ==
  ASSUME TypeOK, Started, NEW c \in BOOLEAN, NEW d \in BOOLEAN, NEW a \in BOOLEAN, Tick(c, d, a)
  PROVE  Beginning' /\ GeneratorInv'
  <1>1. /\ start = TRUE /\ startSignal = 0 /\ readDoneSignal = 0 /\ writeDoneSignal = 0
        /\ running = FALSE /\ sending = FALSE /\ receiving = FALSE
        /\ requested = <<>> /\ execution_cycles = 0 /\ runs # 0 /\ state = "IDLE"
    BY DEF Started, NothingDone, Resting
  <1>2. /\ regs.isWrite \in BOOLEAN /\ regs.numberOfAccesses \in Nat \ {0}
        /\ regs.chunkLength \in Nat \ {0}
    BY RegsType, RunsAssumption DEF TypeOK
  <1>3. GeneratorStarts /\ ~Consumes(a)
    BY <1>1 DEF GeneratorStarts, Consumes
  <1>4. count' = 0 /\ state' = IF regs.isWrite THEN "WRITE_CMD" ELSE "READ_CMD"
    BY <1>1, <1>3 DEF Tick, CmdGenerator, CmdStart, CmdSend
  <1>5. /\ regs' = regs /\ runs' = runs /\ start' = FALSE /\ elapsed' = 0 /\ words' = 0
        /\ requested' = <<>> /\ startSignal' = 1
    BY <1>1, <1>3 DEF Tick, Requested, Through
  <1>6. running' = FALSE /\ execution_cycles' = 0 /\ readDoneSignal' = 0 /\ writeDoneSignal' = 0
    <2>1. Clock /\ readDoneSignal' = 0 /\ writeDoneSignal' = 0
      BY <1>1 DEF Tick, Through
    <2> QED
      BY <1>1, <2>1, ClockRuns
  <1>7. GeneratorInv'
    BY <1>2, <1>4, <1>5 DEF GeneratorInv
  <1>8. CASE regs.isWrite = TRUE
    <2>1. sending' = TRUE /\ remainingLength' = regs.chunkLength /\ sent' = 0 /\ receiving' = FALSE
      BY <1>1, <1>8 DEF Tick, DataGenerator, DataConsumer, consumerVars
    <2>2. WriteProgress'
      <3>1. PerAccess \in Nat /\ 0 * PerAccess = 0 /\ PerAccess - PerAccess = 0
        BY <1>2, WordsOfStep DEF PerAccess
      <3>2. PerAccess' = PerAccess /\ WordsOf(remainingLength)' = PerAccess
        BY <1>5, <2>1 DEF PerAccess, WordsOf
      <3>3. words' = sent' * PerAccess + (PerAccess - WordsOf(remainingLength)')
        BY <1>5, <2>1, <3>1, <3>2
      <3>4. sent' < regs'.numberOfAccesses /\ remainingLength' \in 1 .. regs'.chunkLength
        BY <1>2, <1>5, <2>1
      <3> QED
        BY <3>2, <3>3, <3>4 DEF WriteProgress
    <2>3. Moving'
      BY <1>5, <1>6, <1>8, <2>1, <2>2 DEF Moving, NothingDone
    <2> QED
      BY <1>1, <1>5, <1>6, <1>7, <2>3 DEF Beginning
  <1>9. CASE regs.isWrite = FALSE
    <2>1. sending' = FALSE /\ receiving' = TRUE /\ received' = 0
      BY <1>1, <1>9 DEF Tick, DataGenerator, DataConsumer, generatorVars
    <2>2. ReadProgress'
      <3>1. WordsOf(regs.chunkLength) \in Nat
        BY <1>2, WordsOfStep
      <3>2. 0 = 0 * WordsOf(regs.chunkLength) + 0
        BY <3>1
      <3>3. Arriving(<<>>, 0, 0, 0, regs.chunkLength)
        BY <3>2 DEF Arriving
      <3>4. Arriving(requested', received', count', words', regs'.chunkLength)
        BY <1>4, <1>5, <2>1, <3>3
      <3>5. received' < regs'.numberOfAccesses /\ state' # "IDLE"
        BY <1>2, <1>4, <1>5, <2>1
      <3> QED
        BY <3>4, <3>5 DEF ReadProgress, Arriving, WordsOf
    <2>3. Moving'
      BY <1>5, <1>6, <1>9, <2>1, <2>2 DEF Moving, NothingDone
    <2> QED
      BY <1>1, <1>5, <1>6, <1>7, <2>3 DEF Beginning
  <1> QED
    BY <1>2, <1>8, <1>9

(* The cycle that reports. *)
LEMMA EndingTick ==
  ASSUME TypeOK, GeneratorInv, Ending,
         NEW c \in BOOLEAN, NEW d \in BOOLEAN, NEW a \in BOOLEAN, Tick(c, d, a)
  PROVE  Quiet' /\ execution_cycles' = elapsed /\ execution_cycles' >= 1
  <1>1. /\ start = FALSE /\ startSignal = 0 /\ running = TRUE /\ sending = FALSE /\ receiving = FALSE
        /\ requested = <<>> /\ readDoneSignal + writeDoneSignal = 1 /\ runs # 0
        /\ elapsed = Counted /\ RunEnded
    BY DEF Ending, Resting
  <1>2. /\ readDoneSignal \in 0 .. 2 /\ writeDoneSignal \in 0 .. 2 /\ regs.isWrite \in BOOLEAN
        /\ MaxCycles \in Nat \ {0} /\ cycle_counter \in Nat
        /\ state \in {"IDLE", "WRITE_CMD", "READ_CMD"}
    BY RegsType, RunsAssumption DEF TypeOK
  <1>3. readDoneSignal > 0 \/ writeDoneSignal > 0
    BY <1>1, <1>2
  <1>4. running' = FALSE /\ execution_cycles' = Cycle
    BY <1>3 DEF Tick, Clock
  <1>5. Cycle = elapsed /\ elapsed >= 1
    BY <1>1, <1>2 DEF Cycle, Counted
  <1>6. readDoneSignal' = 0 /\ writeDoneSignal' = 0
    BY <1>1, <1>2 DEF Tick, Through
  <1>7. ~GeneratorStarts /\ ~Consumes(a)
    BY <1>1 DEF GeneratorStarts, Consumes
  <1>8. start' = FALSE /\ startSignal' = 0
    BY <1>1, <1>7 DEF Tick, Through
  <1>9. sending' = FALSE /\ receiving' = FALSE
    BY <1>1 DEF Tick, DataGenerator, DataConsumer, generatorVars, consumerVars
  <1>10. state # "READ_CMD"
    BY <1>1, <1>2 DEF GeneratorInv, RunEnded
  <1>11. requested' = <<>>
    BY <1>1, <1>7, <1>10 DEF Tick, Requested
  <1>12. state' # "READ_CMD"
    <2>1. CmdGenerator(c) /\ regs' = regs
      BY DEF Tick
    <2> QED
      BY <1>1, <1>10, <2>1, CmdStep
  <1>13. execution_cycles' # 0
    BY <1>2, <1>4, <1>5
  <1> QED
    BY <1>4, <1>5, <1>6, <1>8, <1>9, <1>11, <1>12, <1>13 DEF Quiet, NothingDone, Resting

(* While no benchmark runs, at most the commands of the last write go out. *)
LEMMA QuietTick ==
  ASSUME TypeOK, GeneratorInv, Quiet,
         NEW c \in BOOLEAN, NEW d \in BOOLEAN, NEW a \in BOOLEAN, Tick(c, d, a)
  PROVE  Quiet' /\ execution_cycles' = execution_cycles
  <1>1. /\ start = FALSE /\ startSignal = 0 /\ readDoneSignal = 0 /\ writeDoneSignal = 0
        /\ running = FALSE /\ sending = FALSE /\ receiving = FALSE /\ requested = <<>>
        /\ (runs = 0 \/ execution_cycles # 0) /\ state # "READ_CMD"
    BY DEF Quiet, NothingDone, Resting
  <1>2. ~GeneratorStarts /\ ~Consumes(a)
    BY <1>1 DEF GeneratorStarts, Consumes
  <1>3. /\ start' = FALSE /\ startSignal' = 0 /\ readDoneSignal' = 0 /\ writeDoneSignal' = 0
        /\ requested' = <<>> /\ runs' = runs
    BY <1>1, <1>2 DEF Tick, Through, Requested
  <1>4. running' = FALSE /\ execution_cycles' = execution_cycles
    <2>1. Clock
      BY DEF Tick
    <2> QED
      BY <1>1, <2>1, ClockRuns
  <1>5. sending' = FALSE /\ receiving' = FALSE
    BY <1>1 DEF Tick, DataGenerator, DataConsumer, generatorVars, consumerVars
  <1>6. state' # "READ_CMD"
    <2>1. CmdGenerator(c) /\ regs' = regs
      BY DEF Tick
    <2> QED
      BY <1>1, <2>1, CmdStep
  <1> QED
    BY <1>1, <1>3, <1>4, <1>5, <1>6 DEF Quiet, NothingDone, Resting

(* Every clock cycle leads from a phase to a phase. *)
LEMMA TickPhase ==
  ASSUME TypeOK, PhaseInv, NEW c \in BOOLEAN, NEW d \in BOOLEAN, NEW a \in BOOLEAN, Tick(c, d, a)
  PROVE  PhaseInv'
  <1>1. CASE Started
    BY <1>1, StartedTick DEF PhaseInv
  <1>2. CASE ~Started
    <2>1. start = FALSE
      BY <1>2 DEF PhaseInv, Quiet, Beginning, Running, Moving, Ending
    <2>2. GeneratorInv'
      <3>1. CmdGenerator(c) /\ regs' = regs
        BY DEF Tick
      <3> QED
        BY <2>1, <3>1, CmdStep DEF PhaseInv
    <2> QED
      BY <1>2, <2>2, RunTick, EndingTick, QuietTick DEF PhaseInv
  <1> QED
    BY <1>1, <1>2

(* The host starts a benchmark only in a quiet engine. *)
LEMMA StartPhase ==
  ASSUME TypeOK, PhaseInv, NEW r \in Runs, Start(r)
  PROVE  PhaseInv' /\ start' = TRUE
  <1>1. state = "IDLE" /\ (runs = 0 \/ execution_cycles # 0)
    BY DEF Start
  <1>2. Quiet
    BY <1>1 DEF PhaseInv, Started, Beginning, Running, Moving, Ending
  <1>3. /\ startSignal' = startSignal /\ readDoneSignal' = readDoneSignal
        /\ writeDoneSignal' = writeDoneSignal /\ running' = running /\ sending' = sending
        /\ receiving' = receiving /\ requested' = requested /\ state' = state
        /\ start' = TRUE /\ execution_cycles' = 0 /\ runs' = runs + 1
    BY DEF Start, cmdVars, generatorVars, consumerVars
  <1>4. runs' # 0
    BY <1>3 DEF TypeOK
  <1>5. Started'
    BY <1>1, <1>2, <1>3, <1>4 DEF Quiet, Started, NothingDone, Resting
  <1>6. GeneratorInv'
    BY <1>1, <1>3 DEF GeneratorInv
  <1> QED
    BY <1>3, <1>5, <1>6 DEF PhaseInv

FullInv == Inv /\ PhaseInv

LEMMA InitPhase == Init => PhaseInv
  BY DEF Init, PhaseInv, GeneratorInv, Quiet, NothingDone, Resting

LEMMA NextFull == FullInv /\ [Next]_vars => FullInv'
  <1> SUFFICES ASSUME FullInv, [Next]_vars PROVE PhaseInv'
    BY NextInv DEF FullInv
  <1>1. TypeOK /\ PhaseInv
    BY DEF FullInv, Inv
  <1>2. ASSUME NEW r \in Runs, Start(r) PROVE PhaseInv'
    BY <1>1, <1>2, StartPhase
  <1>3. ASSUME NEW c \in BOOLEAN, NEW d \in BOOLEAN, NEW a \in BOOLEAN, Tick(c, d, a)
        PROVE  PhaseInv'
    BY <1>1, <1>3, TickPhase
  <1>4. CASE UNCHANGED vars
    <2>1. /\ GeneratorInv' = GeneratorInv /\ Quiet' = Quiet /\ Started' = Started
          /\ Ending' = Ending
      BY <1>4 DEF vars, cmdVars, generatorVars, consumerVars, clockVars, GeneratorInv, Quiet,
         Started, Ending, NothingDone, Resting, RunEnded, WordsOfRun, Counted
    <2>2. WriteProgress' = WriteProgress /\ ReadProgress' = ReadProgress
      BY <1>4 DEF vars, cmdVars, generatorVars, consumerVars, WriteProgress, ReadProgress,
         PerAccess, WordsOf, Arriving
    <2>3. Moving' = Moving
      BY <1>4, <2>2 DEF vars, cmdVars, generatorVars, consumerVars, clockVars, Moving, NothingDone
    <2>4. Beginning' = Beginning /\ Running' = Running
      BY <1>4, <2>3 DEF vars, clockVars, Beginning, Running, Counted
    <2> QED
      BY <1>1, <2>1, <2>4 DEF PhaseInv
  <1> QED
    BY <1>2, <1>3, <1>4 DEF Next

(* The execution_cycles register changes only in the cycle that takes a    *)
(* done signal, apart from the start.                                      *)
LEMMA ReportOnlyAtEnd ==
  ASSUME TypeOK, PhaseInv, NEW c \in BOOLEAN, NEW d \in BOOLEAN, NEW a \in BOOLEAN, Tick(c, d, a),
         execution_cycles' # execution_cycles
  PROVE  Ending
  <1>1. ~Quiet
    BY QuietTick DEF PhaseInv
  <1>2. ASSUME readDoneSignal = 0 /\ writeDoneSignal = 0 PROVE FALSE
    BY <1>2 DEF Tick, Clock
  <1> QED
    BY <1>1, <1>2 DEF PhaseInv, Started, Beginning, Running, Moving, NothingDone

(* The host reads a count when the whole run is over: dma_bench writes the *)
(* register when every word has moved, and for a read when every command   *)
(* has been issued and answered.                                           *)
THEOREM CompleteReports == Spec => ReportsComplete
  <1>1. FullInv /\ [Next]_vars => [ReportAfterRun]_vars
    <2> SUFFICES ASSUME FullInv, Next, execution_cycles' # 0, execution_cycles = 0
                 PROVE  RunEnded
      BY DEF ReportAfterRun, RunEnded
    <2>1. TypeOK /\ PhaseInv
      BY DEF FullInv, Inv
    <2>2. ASSUME NEW r \in Runs, Start(r) PROVE RunEnded
      BY <2>2 DEF Start
    <2>3. ASSUME NEW c \in BOOLEAN, NEW d \in BOOLEAN, NEW a \in BOOLEAN, Tick(c, d, a)
          PROVE  RunEnded
      BY <2>1, <2>3, ReportOnlyAtEnd DEF Ending
    <2> QED
      BY <2>2, <2>3 DEF Next
  <1>2. Init => FullInv
    BY InitInv, InitPhase DEF FullInv
  <1> QED
    BY <1>1, <1>2, NextFull, PTL DEF Spec, ReportsComplete

(* The count that dma_bench reports is the number of cycles of this run,   *)
(* although start and end reach the clock through streams, and never 0,    *)
(* for which runDmaSeqWriteBenchmark() and its siblings would poll for     *)
(* ever.                                                                   *)
THEOREM OwnCycles == Spec => ReportsOwnCycles
  <1>1. FullInv /\ [Next]_vars
          => [execution_cycles' # execution_cycles /\ ~start' =>
                execution_cycles' = elapsed /\ execution_cycles' >= 1]_vars
    <2> SUFFICES ASSUME FullInv, Next, execution_cycles' # execution_cycles, ~start'
                 PROVE  execution_cycles' = elapsed /\ execution_cycles' >= 1
      OBVIOUS
    <2>1. TypeOK /\ PhaseInv
      BY DEF FullInv, Inv
    <2>2. ASSUME NEW r \in Runs, Start(r) PROVE FALSE
      BY <2>2 DEF Start
    <2>3. ASSUME NEW c \in BOOLEAN, NEW d \in BOOLEAN, NEW a \in BOOLEAN, Tick(c, d, a)
          PROVE  execution_cycles' = elapsed /\ execution_cycles' >= 1
      <3>1. Ending
        BY <2>1, <2>3, ReportOnlyAtEnd
      <3> QED
        BY <2>1, <2>3, <3>1, EndingTick DEF PhaseInv
    <2> QED
      BY <2>2, <2>3 DEF Next
  <1>2. Init => FullInv
    BY InitInv, InitPhase DEF FullInv
  <1> QED
    BY <1>1, <1>2, NextFull, PTL DEF Spec, ReportsOwnCycles
=============================================================================
