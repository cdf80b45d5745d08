------------------------- MODULE HostControlProofs -------------------------
(***************************************************************************)
(* Theorems about HostControl.  The registers of the FPGA know nothing of  *)
(* calls: word counters, the lower/upper toggles and the walks over the    *)
(* statistics advance with every access.  The argument is that the mutex   *)
(* lets one thread at a time touch them, that a call leaves each of them   *)
(* at rest when it gives the mutex back, and that while a call is inside,  *)
(* each of them says exactly how far that call has come.                   *)
(*                                                                         *)
(* ctrl_mutex excludes only threads of one process, so that everything     *)
(* beyond the types is proved under SingleProcess.                         *)
(***************************************************************************)
EXTENDS HostControl, SequenceTheorems, TLAPS

SingleProcess == \A t, u \in Thread : ProcessOf[t] = ProcessOf[u]

-----------------------------------------------------------------------------
(* The type-correctness part of the invariant: TypeOK, what the commands   *)
(* that are not yet loaded and the words read are, and how far a call can  *)
(* be in each of its phases.                                               *)
HostTypes ==
  /\ word_counter \in [{"dma", "bench"} -> 0 .. 7]
  /\ word_counter["dma"] < 5
  /\ data \in [CommandReg -> [0 .. 7 -> 0 .. Word - 1]]
  /\ tlb_valid \in BOOLEAN
  /\ running \subseteq BenchReg
  /\ toLoad \in [{"DMA_READS", "DMA_WRITES"} -> Seq(Nat)]
  /\ upper \in [WideReg -> BOOLEAN]
  /\ counter \in [WideReg -> Nat]
  /\ dma_reads_flushed \in BOOLEAN
  /\ statsRegAddr \in [StatsReg -> Nat]
  /\ \A s \in StatsReg : statsRegAddr[s] < NumStats[s]
  /\ ctrl_mutex \in [{ProcessOf[t] : t \in Thread} -> Thread \union {Nobody}]
  /\ pc \in [Thread -> {"idle", "lock", "write", "reset", "read", "stats", "return"}]
  /\ call \in [Thread -> Calls \union {NoCall}]
  /\ sent \in [Thread -> 0 .. 8]
  /\ got \in [Thread -> Seq(Nat)]

(* Where a thread is agrees with the call it executes. *)
Phases ==
  \A t \in Thread :
    /\ pc[t] = "idle" <=> call[t] = NoCall
    /\ pc[t] \in {"idle", "lock"} => sent[t] = 0
    /\ pc[t] \in {"write", "reset", "stats"} => pc[t] = First(call[t])
    /\ pc[t] = "read" => First(call[t]) = "read" \/ IsBenchmark(call[t])
    /\ pc[t] = "write" => sent[t] < NumWords(RegOf(call[t]))
    /\ pc[t] \in {"idle", "lock", "write", "reset"} => got[t] = <<>>
    /\ pc[t] = "read" => Len(got[t]) <= 2
    /\ pc[t] = "return" /\ First(call[t]) \in {"write", "reset", "read"} => Len(got[t]) <= 2

(* The thread has the mutex. *)
Inside(t) == pc[t] \in {"write", "reset", "read", "stats", "return"}

Mutex == \A t \in Thread : Inside(t) => ctrl_mutex[ProcessOf[t]] = t

(* A word counter is the number of words the call inside has written to a  *)
(* register of that controller, and 0 when no call is writing; the words   *)
(* are in place.                                                           *)
Writing(t, ctl) == pc[t] = "write" /\ ControllerOf(RegOf(call[t])) = ctl

CommandWords ==
  /\ \A ctl \in {"dma", "bench"} :
       word_counter[ctl] # 0 => \E t \in Thread : Writing(t, ctl)
  /\ \A t \in Thread : pc[t] = "write" =>
       /\ word_counter[ControllerOf(RegOf(call[t]))] = sent[t]
       /\ \A i \in 0 .. 7 : i < sent[t] => data[RegOf(call[t])][i] = WordsOf(call[t])[i + 1]

(* A wide register shows its upper word exactly when the call inside has   *)
(* read the lower one.                                                     *)
Reading(t, reg) == pc[t] = "read" /\ ResultReg(call[t]) = reg

WideReads ==
  /\ \A reg \in WideReg : upper[reg] => \E t \in Thread : Reading(t, reg)
  /\ \A t \in Thread : pc[t] = "read" => (upper[ResultReg(call[t])] <=> Len(got[t]) = 1)

(* A walk is where the call inside has come to, and at its start when no   *)
(* call prints.                                                            *)
Printing(t, s) == pc[t] = "stats" /\ StatsOf(call[t]) = s

StatsWalks ==
  /\ \A s \in StatsReg : statsRegAddr[s] # 0 => \E t \in Thread : Printing(t, s)
  /\ \A t \in Thread : pc[t] = "stats" => statsRegAddr[StatsOf(call[t])] = Len(got[t])

(* A benchmark that runs has a call that waits for it, and its count is 0; *)
(* without a DMA benchmark no read is loaded or under way.                 *)
Runs ==
  /\ \A reg \in running :
       /\ counter[CyclesOf(reg)] = 0
       /\ \E t \in Thread : pc[t] = "read" /\ IsBenchmark(call[t]) /\ RegOf(call[t]) = reg
  /\ "DMA_BENCH" \notin running => dma_reads_flushed /\ toLoad["DMA_READS"] = <<>>

(* The lower word that a call has read is still that of the register. *)
Wanted(t) == IsBenchmark(call[t]) \/ call[t].name = "getDmaReads"

LowerWord ==
  \A t \in Thread : pc[t] = "read" /\ Wanted(t) =>
    /\ Len(got[t]) = 1 /\ (IsBenchmark(call[t]) => got[t][1] # 0)
         => /\ got[t][1] = counter[ResultReg(call[t])] % Word
            /\ IsBenchmark(call[t]) => RegOf(call[t]) \notin running
    /\ Len(got[t]) = 2 => IsBenchmark(call[t]) /\ got[t][1] = 0

(* The inductive invariant. *)
TypeInv == HostTypes /\ Phases

HostInv ==
  /\ TypeInv /\ Mutex /\ CommandWords /\ WideReads /\ StatsWalks
  /\ Runs /\ LowerWord /\ ResultsWhole /\ StatsLabelled

-----------------------------------------------------------------------------
(* Words and wide values. *)

(* A value is made of its lower and its upper word. *)
LEMMA Split ==
  ASSUME NEW n \in Nat, NEW m \in Nat, m > 0
  PROVE  /\ n % m \in 0 .. m - 1
         /\ n \div m \in Nat
         /\ n = (n % m) + m * (n \div m)
  OBVIOUS

(* The upper word of a value below m * k is below k. *)
LEMMA UpperBelow ==
  ASSUME NEW n \in Nat, NEW m \in Nat, NEW k \in Nat, m > 0, n < m * k
  PROVE  n \div m < k
  <1>1. n = (n % m) + m * (n \div m) /\ n \div m \in Nat /\ n % m >= 0
    BY Split
  <1>2. SUFFICES ASSUME n \div m >= k PROVE FALSE
    BY <1>1
  <1>3. m * (n \div m) >= m * k
    BY <1>1, <1>2
  <1> QED
    BY <1>1, <1>3

-----------------------------------------------------------------------------
(* The calls. *)

(* A call starts in one phase, and no call is NoCall. *)
LEMMA CallKinds ==
  ASSUME NEW c \in Calls
  PROVE  /\ c # NoCall /\ c.name # "none"
         /\ First(c) \in {"write", "reset", "read", "stats"}
         /\ First(c) = "write" <=> (c.name = "writeTlb" \/ IsBenchmark(c))
         /\ First(c) = "read" <=> c.name \in {"getDmaReads", "getDmaWrites"}
         /\ First(c) = "stats" <=> c.name \in {"printDmaStatsRegs", "printDdrStatsRegs"}
         /\ IsBenchmark(c) => c.name # "writeTlb"
  BY HostAssumption DEF TypedCalls, NoCall, First, IsBenchmark

(* The command register of a call that writes one. *)
LEMMA CommandRegs ==
  ASSUME NEW c \in Calls, First(c) = "write"
  PROVE  /\ RegOf(c) \in CommandReg
         /\ ControllerOf(RegOf(c)) \in {"dma", "bench"}
         /\ IsBenchmark(c) <=> RegOf(c) \in BenchReg
         /\ NumWords(RegOf(c)) \in {5, 8}
         /\ ControllerOf(RegOf(c)) = "dma" => NumWords(RegOf(c)) = 5 /\ RegOf(c) = "TLB"
         /\ RegOf(c) = "TLB" => ControllerOf(RegOf(c)) = "dma"
  BY CallKinds DEF RegOf, CommandReg, BenchReg, ControllerOf, NumWords, IsBenchmark

(* The result register of a call that reads one. *)
LEMMA ResultRegs ==
  ASSUME NEW c \in Calls, First(c) = "read" \/ IsBenchmark(c)
  PROVE  /\ ResultReg(c) \in WideReg
         /\ IsBenchmark(c) => ResultReg(c) = CyclesOf(RegOf(c)) /\ RegOf(c) \in BenchReg
         /\ c.name = "getDmaReads" => ResultReg(c) = "DMA_READS"
  BY CallKinds DEF ResultReg, RegOf, BenchReg, WideReg, CyclesOf, IsBenchmark

(* The walk of a call that prints. *)
LEMMA StatsRegs ==
  ASSUME NEW c \in Calls, First(c) = "stats"
  PROVE  StatsOf(c) \in StatsReg
  BY CallKinds, HostAssumption, ControllersAssumption DEF StatsOf, TypedCalls

(* The words of a command: as many as the register takes, and the FPGA     *)
(* keeps all of their bits.                                                *)
LEMMA CommandLength ==
  ASSUME NEW c \in Calls, First(c) = "write"
  PROVE  Len(WordsOf(c)) = NumWords(RegOf(c))
  BY CallKinds DEF WordsOf, RegOf, NumWords, IsBenchmark

LEMMA CommandTypes ==
  ASSUME NEW c \in Calls, First(c) = "write", NEW i \in 0 .. NumWords(RegOf(c)) - 1
  PROVE  /\ WordsOf(c)[i + 1] \in 0 .. Word - 1
         /\ IsBenchmark(c) /\ i \in {1, 3} => WordsOf(c)[i + 1] % Half = WordsOf(c)[i + 1]
  <1> USE ControllersAssumption
  <1>1. CASE c.name = "writeTlb"
    <2>1. /\ c.vaddr \in Nat /\ c.paddr \in Nat /\ c.isBase \in {0, 1}
          /\ c.vaddr < Word * Word /\ c.paddr < Word * Word
      BY <1>1, HostAssumption DEF TypedCalls
    <2>2. /\ c.vaddr % Word \in 0 .. Word - 1 /\ c.paddr % Word \in 0 .. Word - 1
          /\ c.vaddr \div Word \in 0 .. Word - 1 /\ c.paddr \div Word \in 0 .. Word - 1
      BY <2>1, Split, UpperBelow
    <2>3. i \in 0 .. 4 /\ ~IsBenchmark(c)
      BY <1>1 DEF NumWords, RegOf, IsBenchmark
    <2> QED
      BY <1>1, <2>1, <2>2, <2>3 DEF WordsOf
  <1>2. CASE IsBenchmark(c)
    <2>1. /\ c.base \in Nat /\ c.size \in Nat
          /\ c.base < Word * Half /\ c.size < Word * Half
          /\ c.accesses \in 0 .. Word - 1 /\ c.chunk \in 0 .. Word - 1
          /\ c.stride \in 0 .. Word - 1
          /\ c.op + 2 * c.dest \in 0 .. Word - 1
      BY <1>2, HostAssumption DEF TypedCalls, IsBenchmark
    <2>2. /\ c.base % Word \in 0 .. Word - 1 /\ c.size % Word \in 0 .. Word - 1
          /\ c.base \div Word \in 0 .. Half - 1 /\ c.size \div Word \in 0 .. Half - 1
      BY <2>1, Split, UpperBelow
    <2>3. i \in 0 .. 7 /\ c.name # "writeTlb"
      BY <1>2 DEF NumWords, RegOf, IsBenchmark
    <2>4. \A n \in 0 .. Half - 1 : n % Half = n
      OBVIOUS
    <2>5. WordsOf(c)[2] = c.base \div Word /\ WordsOf(c)[4] = c.size \div Word
      BY <2>3 DEF WordsOf
    <2>6. WordsOf(c)[i + 1] \in 0 .. Word - 1
      BY <2>1, <2>2, <2>3 DEF WordsOf
    <2> QED
      BY <2>2, <2>4, <2>5, <2>6
  <1> QED
    BY <1>1, <1>2, CallKinds

-----------------------------------------------------------------------------
(* Types and phases, whatever the processes of the threads are. *)

LEMMA InitTypes == Init => TypeInv
  <1> SUFFICES ASSUME Init PROVE TypeInv
    OBVIOUS
  <1>1. HostTypes
    <2>1. /\ word_counter \in [{"dma", "bench"} -> 0 .. 7] /\ word_counter["dma"] < 5
          /\ data \in [CommandReg -> [0 .. 7 -> 0 .. Word - 1]]
          /\ running \subseteq BenchReg /\ counter \in [WideReg -> Nat]
      BY ControllersAssumption DEF Init, FpgaInit
    <2>2. /\ toLoad \in [{"DMA_READS", "DMA_WRITES"} -> Seq(Nat)]
          /\ got \in [Thread -> Seq(Nat)]
      BY DEF Init, FpgaInit
    <2>3. /\ tlb_valid \in BOOLEAN /\ upper \in [WideReg -> BOOLEAN]
          /\ dma_reads_flushed \in BOOLEAN
      BY DEF Init, FpgaInit
    <2>4. /\ statsRegAddr \in [StatsReg -> Nat]
          /\ \A s \in StatsReg : statsRegAddr[s] < NumStats[s]
      BY ControllersAssumption DEF Init, FpgaInit
    <2>5. /\ ctrl_mutex \in [{ProcessOf[t] : t \in Thread} -> Thread \union {Nobody}]
          /\ pc \in [Thread -> {"idle", "lock", "write", "reset", "read", "stats", "return"}]
          /\ call \in [Thread -> Calls \union {NoCall}] /\ sent \in [Thread -> 0 .. 8]
      BY DEF Init
    <2> QED
      BY <2>1, <2>2, <2>3, <2>4, <2>5 DEF HostTypes
  <1>2. Phases
    BY DEF Init, Phases, NoCall
  <1> QED
    BY <1>1, <1>2 DEF TypeInv

LEMMA CallTypes ==
  ASSUME TypeInv, NEW t \in Thread, NEW c \in Calls, Call(t, c)
  PROVE  TypeInv'
  <1> USE DEF Call, fpgaVars
  <1>1. HostTypes'
    BY DEF TypeInv, HostTypes
  <1>2. Phases'
    BY CallKinds DEF TypeInv, HostTypes, Phases
  <1> QED
    BY <1>1, <1>2 DEF TypeInv

LEMMA LockTypes ==
  ASSUME TypeInv, NEW t \in Thread, Lock(t)
  PROVE  TypeInv'
  <1> USE DEF Lock, fpgaVars
  <1>1. call[t] \in Calls
    BY DEF TypeInv, HostTypes, Phases
  <1>2. First(call[t]) \in {"write", "reset", "read", "stats"}
    BY <1>1, CallKinds
  <1>3. HostTypes'
    BY <1>2 DEF TypeInv, HostTypes
  <1>4. First(call[t]) = "write" => NumWords(RegOf(call[t])) > 0
    BY <1>1, CommandRegs
  <1>5. Phases'
    BY <1>1, <1>2, <1>4 DEF TypeInv, HostTypes, Phases
  <1> QED
    BY <1>3, <1>5 DEF TypeInv

(* What a thread that writes knows of its call and of the word it writes. *)
LEMMA WritePhase ==
  ASSUME TypeInv, NEW t \in Thread, pc[t] = "write"
  PROVE  /\ call[t] \in Calls /\ First(call[t]) = "write"
         /\ sent[t] \in 0 .. 7 /\ sent[t] < NumWords(RegOf(call[t]))
         /\ WordsOf(call[t])[sent[t] + 1] \in 0 .. Word - 1
         /\ IsBenchmark(call[t]) /\ sent[t] \in {1, 3}
              => WordsOf(call[t])[sent[t] + 1] % Half = WordsOf(call[t])[sent[t] + 1]
  <1>1. call[t] \in Calls /\ First(call[t]) = "write"
    BY DEF TypeInv, HostTypes, Phases
  <1>2. sent[t] \in 0 .. 8 /\ sent[t] < NumWords(RegOf(call[t]))
    BY DEF TypeInv, HostTypes, Phases
  <1>3. NumWords(RegOf(call[t])) \in {5, 8}
    BY <1>1, CommandRegs
  <1>4. sent[t] \in 0 .. NumWords(RegOf(call[t])) - 1
    BY <1>2, <1>3
  <1> QED
    BY <1>1, <1>2, <1>3, <1>4, CommandTypes

LEMMA WriteTypes ==
  ASSUME TypeInv, NEW t \in Thread, WriteWord(t)
  PROVE  TypeInv'
  <1> DEFINE reg == RegOf(call[t])
             value == WordsOf(call[t])[sent[t] + 1]
             i == word_counter[ControllerOf(reg)]
             kept == IF reg \in BenchReg /\ i \in {1, 3} THEN value % Half ELSE value
  <1>1. pc[t] = "write" /\ WriteCommandWord(reg, value)
    BY DEF WriteWord
  <1>2. /\ call[t] \in Calls /\ First(call[t]) = "write" /\ value \in 0 .. Word - 1
        /\ sent[t] \in 0 .. 7 /\ sent[t] < NumWords(reg)
    BY <1>1, WritePhase
  <1>3. /\ reg \in CommandReg /\ ControllerOf(reg) \in {"dma", "bench"}
        /\ IsBenchmark(call[t]) <=> reg \in BenchReg
        /\ NumWords(reg) \in {5, 8} /\ Len(WordsOf(call[t])) = NumWords(reg)
        /\ ControllerOf(reg) = "dma" => NumWords(reg) = 5
        /\ ControllerOf(reg) # "dma" => NumWords(reg) = 8
    BY <1>2, CommandRegs, CommandLength DEF ControllerOf, NumWords
  <1>4. i \in 0 .. 7
    BY <1>3 DEF TypeInv, HostTypes
  <1>5. word_counter' \in [{"dma", "bench"} -> 0 .. 7] /\ word_counter'["dma"] < 5
    <2>1. word_counter' = [word_counter EXCEPT ![ControllerOf(reg)] = NextWord(reg, i)]
      BY <1>1 DEF WriteCommandWord
    <2>2. NextWord(reg, i) \in 0 .. 7 /\ (ControllerOf(reg) = "dma" => NextWord(reg, i) < 5)
      <3>1. word_counter["dma"] < 5
        BY DEF TypeInv, HostTypes
      <3>2. ControllerOf(reg) = "dma" => i < 5
        BY <3>1
      <3> HIDE DEF reg, i
      <3> QED
        BY <3>2, <1>3, <1>4 DEF NextWord
    <2> QED
      BY <2>1, <2>2, <1>3 DEF TypeInv, HostTypes
  <1>6. data' \in [CommandReg -> [0 .. 7 -> 0 .. Word - 1]]
    <2>1. data' = [data EXCEPT ![reg][i] = kept]
      BY <1>1 DEF WriteCommandWord
    <2>2. kept \in 0 .. Word - 1
      BY <1>2, ControllersAssumption
    <2> HIDE DEF kept, reg, i
    <2> QED
      BY <2>1, <2>2, <1>3, <1>4 DEF TypeInv, HostTypes
  <1>7. /\ running' \subseteq BenchReg /\ counter' \in [WideReg -> Nat]
        /\ tlb_valid' \in BOOLEAN
    <2>1. running \subseteq BenchReg /\ counter \in [WideReg -> Nat] /\ tlb_valid \in BOOLEAN
      BY DEF TypeInv, HostTypes
    <2>2. CyclesOf(reg) \in WideReg
      BY DEF CyclesOf, WideReg
    <2>3. running' = running \/ (reg \in BenchReg /\ running' = running \union {reg})
      BY <1>1 DEF WriteCommandWord
    <2>4. counter' = counter \/ counter' = [counter EXCEPT ![CyclesOf(reg)] = 0]
      BY <1>1 DEF WriteCommandWord
    <2>5. tlb_valid' = (tlb_valid \/ (reg = "TLB" /\ i = NumWords(reg) - 1))
      BY <1>1 DEF WriteCommandWord
    <2> HIDE DEF value, reg, i
    <2>6. tlb_valid' \in BOOLEAN
      BY <2>5
    <2> QED
      BY <2>1, <2>2, <2>3, <2>4, <2>6
  <1>8. toLoad' \in [{"DMA_READS", "DMA_WRITES"} -> Seq(Nat)]
    <2>1. DmaCommands \in Seq(Nat)
      <3>1. data["DMA_BENCH"][4] \in Nat /\ data["DMA_BENCH"][5] \in Nat
        <4>1. data \in [CommandReg -> [0 .. 7 -> 0 .. Word - 1]]
          BY DEF TypeInv, HostTypes
        <4> QED
          BY <4>1, ControllersAssumption DEF CommandReg, BenchReg
      <3> QED
        BY <3>1 DEF DmaCommands
    <2>2. \/ toLoad' = toLoad
          \/ toLoad' = [toLoad EXCEPT ![LengthOf(value)] = @ \o DmaCommands]
      BY <1>1 DEF WriteCommandWord
    <2>3. LengthOf(value) \in {"DMA_READS", "DMA_WRITES"}
      BY DEF LengthOf
    <2>4. toLoad \in [{"DMA_READS", "DMA_WRITES"} -> Seq(Nat)]
      BY DEF TypeInv, HostTypes
    <2>5. \A r \in {"DMA_READS", "DMA_WRITES"} : toLoad[r] \o DmaCommands \in Seq(Nat)
      BY <2>1, <2>4, ConcatProperties
    <2> HIDE DEF value
    <2> QED
      BY <2>2, <2>3, <2>4, <2>5
  <1>9. HostTypes'
    <2>1. UNCHANGED <<upper, dma_reads_flushed, statsRegAddr, ctrl_mutex, call, got>>
      BY <1>1 DEF WriteCommandWord, WriteWord
    <2>2. sent' \in [Thread -> 0 .. 8]
      <3>1. sent \in [Thread -> 0 .. 8] /\ sent' = [sent EXCEPT ![t] = @ + 1]
        BY DEF WriteWord, TypeInv, HostTypes
      <3> QED
        BY <3>1, <1>2
    <2>3. pc' \in [Thread -> {"idle", "lock", "write", "reset", "read", "stats", "return"}]
      BY DEF WriteWord, TypeInv, HostTypes
    <2> QED
      BY <2>1, <2>2, <2>3, <1>5, <1>6, <1>7, <1>8 DEF TypeInv, HostTypes
  <1>10. Phases'
    <2> HIDE DEF reg, value
    <2>1. \A u \in Thread \ {t} : pc'[u] = pc[u] /\ sent'[u] = sent[u]
      BY DEF WriteWord, TypeInv, HostTypes
    <2>2. UNCHANGED <<call, got>>
      BY DEF WriteWord
    <2>3. sent'[t] = sent[t] + 1
      BY DEF WriteWord, TypeInv, HostTypes
    <2>4. pc'[t] = IF sent[t] + 1 < NumWords(reg) THEN "write"
                   ELSE IF IsBenchmark(call[t]) THEN "read" ELSE "return"
      BY <2>3, <1>3 DEF WriteWord, TypeInv, HostTypes, reg
    <2>5. got[t] = <<>> /\ call[t] # NoCall
      BY <1>1 DEF TypeInv, Phases
    <2> QED
      BY <2>1, <2>2, <2>3, <2>4, <2>5, <1>1, <1>2 DEF TypeInv, Phases, reg
  <1> QED
    BY <1>9, <1>10 DEF TypeInv

LEMMA ResetTypes ==
  ASSUME TypeInv, NEW t \in Thread, Reset(t)
  PROVE  TypeInv'
  <1> DEFINE reg == IF call[t].name = "resetDmaReads" THEN "DMA_READS" ELSE "DMA_WRITES"
  <1>1. pc[t] = "reset" /\ ResetLength(reg)
    BY DEF Reset
  <1>2. counter' \in [WideReg -> Nat]
    <2>1. counter \in [WideReg -> Nat] /\ reg \in WideReg
      BY DEF TypeInv, HostTypes, WideReg
    <2> QED
      BY <1>1, <2>1 DEF ResetLength
  <1>3. pc' = [pc EXCEPT ![t] = "return"]
    BY DEF Reset
  <1>4. UNCHANGED <<word_counter, data, tlb_valid, running, toLoad, upper, dma_reads_flushed,
                    statsRegAddr, ctrl_mutex, call, sent, got>>
    BY <1>1 DEF ResetLength, Reset
  <1> HIDE DEF reg
  <1>5. HostTypes'
    BY <1>2, <1>3, <1>4 DEF TypeInv, HostTypes
  <1>6. pc \in [Thread -> {"idle", "lock", "write", "reset", "read", "stats", "return"}]
    BY DEF TypeInv, HostTypes
  <1>7. Phases'
    BY <1>1, <1>3, <1>4, <1>6 DEF TypeInv, Phases
  <1> QED
    BY <1>5, <1>7 DEF TypeInv

(* The words read: at most two, and after two a new pair begins. *)
LEMMA ShortSeq ==
  ASSUME NEW s \in Seq(Nat), Len(s) <= 2
  PROVE  Len(s) = 0 \/ Len(s) = 1 \/ Len(s) = 2
  <1> DEFINE n == Len(s)
  <1>1. n \in Nat /\ n <= 2
    BY LenProperties
  <1> HIDE DEF n
  <1>2. n = 0 \/ n = 1 \/ n = 2
    BY <1>1
  <1> QED
    BY <1>2 DEF n

NextWords(s, w) == Append(IF Len(s) = 2 THEN <<>> ELSE s, w)

LEMMA NextWordsProperties ==
  ASSUME NEW s \in Seq(Nat), Len(s) <= 2, NEW w \in Nat
  PROVE  /\ NextWords(s, w) \in Seq(Nat)
         /\ Len(s) = 1 => Len(NextWords(s, w)) = 2
         /\ Len(s) # 1 => Len(NextWords(s, w)) = 1
         /\ NextWords(s, w)[Len(NextWords(s, w))] = w
         /\ Len(s) = 1 => NextWords(s, w)[1] = s[1]
  <1>1. CASE Len(s) = 2
    <2>1. NextWords(s, w) = <<w>>
      BY <1>1 DEF NextWords
    <2> QED
      BY <1>1, <2>1
  <1>2. CASE Len(s) # 2
    <2>1. NextWords(s, w) = Append(s, w)
      BY <1>2, Zenon DEF NextWords
    <2>2. /\ Append(s, w) \in Seq(Nat) /\ Len(Append(s, w)) = Len(s) + 1
          /\ Append(s, w)[Len(s) + 1] = w
      BY AppendProperties
    <2>3. Len(s) = 1 => Append(s, w)[1] = s[1]
      OBVIOUS
    <2>4. Len(s) = 0 \/ Len(s) = 1
      BY <1>2, ShortSeq
    <2> QED
      BY <2>1, <2>2, <2>3, <2>4
  <1> QED
    BY <1>1, <1>2

(* What a thread that reads knows of its call and of the word it reads. *)
LEMMA ReadPhase ==
  ASSUME TypeInv, NEW t \in Thread, pc[t] = "read"
  PROVE  /\ call[t] \in Calls
         /\ First(call[t]) = "read" \/ IsBenchmark(call[t])
         /\ ResultReg(call[t]) \in WideReg
         /\ WideWord(ResultReg(call[t])) \in Nat
         /\ got[t] \in Seq(Nat) /\ Len(got[t]) <= 2
  <1>1. call[t] \in Calls /\ (First(call[t]) = "read" \/ IsBenchmark(call[t]))
    BY DEF TypeInv, HostTypes, Phases
  <1>2. ResultReg(call[t]) \in WideReg
    BY <1>1, ResultRegs
  <1>3. counter[ResultReg(call[t])] \in Nat
    BY <1>2 DEF TypeInv, HostTypes
  <1>4. WideWord(ResultReg(call[t])) \in Nat
    BY <1>3, Split, ControllersAssumption DEF WideWord
  <1>5. got[t] \in Seq(Nat)
    BY DEF TypeInv, HostTypes
  <1>6. Len(got[t]) <= 2
    BY DEF TypeInv, Phases
  <1> QED
    BY <1>1, <1>2, <1>4, <1>5, <1>6

(* The words read so far, and where the call is after one more. *)
LEMMA ReadEffect ==
  ASSUME TypeInv, NEW t \in Thread, ReadWord(t)
  PROVE  /\ pc[t] = "read"
         /\ got' = [got EXCEPT ![t] = NextWords(got[t], WideWord(ResultReg(call[t])))]
         /\ got'[t] \in Seq(Nat)
         /\ Len(got[t]) = 1 => Len(got'[t]) = 2
         /\ Len(got[t]) # 1 => Len(got'[t]) = 1
         /\ got'[t][Len(got'[t])] = WideWord(ResultReg(call[t]))
         /\ Len(got[t]) = 1 => got'[t][1] = got[t][1]
         /\ pc' = [pc EXCEPT ![t] = IF Len(got[t]) # 1 \/ (IsBenchmark(call[t]) /\ got[t][1] = 0)
                                    THEN "read" ELSE "return"]
  <1> DEFINE w == WideWord(ResultReg(call[t]))
  <1>1. pc[t] = "read" /\ got' = [got EXCEPT ![t] = NextWords(got[t], w)]
    BY DEF ReadWord, NextWords
  <1>2. got[t] \in Seq(Nat) /\ Len(got[t]) <= 2 /\ w \in Nat
    BY <1>1, ReadPhase
  <1>3. got'[t] = NextWords(got[t], w)
    BY <1>1 DEF TypeInv, HostTypes
  <1>4. /\ got'[t] \in Seq(Nat)
        /\ Len(got[t]) = 1 => Len(got'[t]) = 2
        /\ Len(got[t]) # 1 => Len(got'[t]) = 1
        /\ got'[t][Len(got'[t])] = w
        /\ Len(got[t]) = 1 => got'[t][1] = got[t][1]
    <2>1. /\ NextWords(got[t], w) \in Seq(Nat)
          /\ Len(got[t]) = 1 => Len(NextWords(got[t], w)) = 2
          /\ Len(got[t]) # 1 => Len(NextWords(got[t], w)) = 1
          /\ NextWords(got[t], w)[Len(NextWords(got[t], w))] = w
          /\ Len(got[t]) = 1 => NextWords(got[t], w)[1] = got[t][1]
      <3> HIDE DEF w
      <3> QED
        BY <1>2, NextWordsProperties
    <2> QED
      BY <2>1, <1>3, Zenon
  <1>5. pc' = [pc EXCEPT ![t] = IF Len(got'[t]) < 2 \/ PollAgain(t) THEN "read" ELSE "return"]
    BY DEF ReadWord
  <1>6. (Len(got'[t]) < 2 \/ PollAgain(t))
          <=> (Len(got[t]) # 1 \/ (IsBenchmark(call[t]) /\ got[t][1] = 0))
    <2>1. CASE Len(got[t]) = 1
      <3>1. Len(got'[t]) = 2 /\ got'[t][1] = got[t][1]
        BY <2>1, <1>4
      <3> QED
        BY <3>1, <2>1 DEF PollAgain
    <2>2. CASE Len(got[t]) # 1
      BY <2>2, <1>4
    <2> QED
      BY <2>1, <2>2
  <1>7. pc' = [pc EXCEPT ![t] = IF Len(got[t]) # 1 \/ (IsBenchmark(call[t]) /\ got[t][1] = 0)
                                THEN "read" ELSE "return"]
    BY <1>5, <1>6
  <1> QED
    BY <1>1, <1>4, <1>7

LEMMA ReadTypes ==
  ASSUME TypeInv, NEW t \in Thread, ReadWord(t)
  PROVE  TypeInv'
  <1>1. UNCHANGED <<word_counter, data, tlb_valid, running, toLoad, counter, dma_reads_flushed,
                    statsRegAddr, ctrl_mutex, call, sent>>
    BY DEF ReadWord, ReadWide
  <1>2. /\ pc[t] = "read" /\ got'[t] \in Seq(Nat) /\ Len(got'[t]) <= 2
        /\ pc'[t] \in {"read", "return"}
        /\ \A u \in Thread \ {t} : pc'[u] = pc[u] /\ got'[u] = got[u]
        /\ pc' \in [Thread -> {"idle", "lock", "write", "reset", "read", "stats", "return"}]
        /\ got' \in [Thread -> Seq(Nat)]
    <2>1. /\ pc \in [Thread -> {"idle", "lock", "write", "reset", "read", "stats", "return"}]
          /\ got \in [Thread -> Seq(Nat)]
      BY DEF TypeInv, HostTypes
    <2> QED
      <3>1. pc[t] = "read" /\ got'[t] \in Seq(Nat) /\ (Len(got'[t]) = 2 \/ Len(got'[t]) = 1)
        BY ReadEffect, Zenon
      <3>2. \E p \in {"read", "return"} : pc' = [pc EXCEPT ![t] = p]
        BY ReadEffect
      <3>3. got' = [got EXCEPT ![t] = got'[t]]
        BY <2>1, ReadEffect
      <3>4. Len(got'[t]) <= 2
        <4>1. CASE Len(got'[t]) = 2
          BY <4>1
        <4>2. CASE Len(got'[t]) = 1
          BY <4>2
        <4> QED
          BY <3>1, <4>1, <4>2, Zenon
      <3> QED
        BY <2>1, <3>1, <3>2, <3>3, <3>4
  <1>3. upper' \in [WideReg -> BOOLEAN]
    <2>1. ResultReg(call[t]) \in WideReg
      BY <1>2, ReadPhase
    <2>2. upper \in [WideReg -> BOOLEAN]
      BY DEF TypeInv, HostTypes
    <2>3. upper' = [upper EXCEPT ![ResultReg(call[t])] = ~upper[ResultReg(call[t])]]
      BY DEF ReadWord, ReadWide
    <2> QED
      BY <2>1, <2>2, <2>3
  <1>4. HostTypes'
    BY <1>1, <1>2, <1>3 DEF TypeInv, HostTypes
  <1>5. Phases'
    <2>1. Len(got'[t]) <= 2 /\ call[t] # NoCall
      BY <1>2, ReadPhase, CallKinds
    <2> QED
      BY <1>1, <1>2, <2>1, ReadPhase DEF TypeInv, Phases
  <1> QED
    BY <1>4, <1>5 DEF TypeInv

(* The registers printed so far, and where the call is after one more. *)
LEMMA PrintEffect ==
  ASSUME TypeInv, NEW t \in Thread, PrintStat(t)
  PROVE  /\ pc[t] = "stats" /\ call[t] \in Calls /\ First(call[t]) = "stats"
         /\ StatsOf(call[t]) \in StatsReg
         /\ statsRegAddr[StatsOf(call[t])] \in Nat
         /\ got[t] \in Seq(Nat)
         /\ got' = [got EXCEPT ![t] = Append(got[t], statsRegAddr[StatsOf(call[t])])]
         /\ got'[t] = Append(got[t], statsRegAddr[StatsOf(call[t])])
         /\ Append(got[t], statsRegAddr[StatsOf(call[t])]) \in Seq(Nat)
         /\ Len(got'[t]) = Len(got[t]) + 1
         /\ pc' = [pc EXCEPT ![t] = IF Len(got[t]) + 1 < NumStats[StatsOf(call[t])]
                                    THEN "stats" ELSE "return"]
  <1> DEFINE s == StatsOf(call[t])
  <1>1. pc[t] = "stats" /\ got' = [got EXCEPT ![t] = Append(got[t], statsRegAddr[s])]
    BY DEF PrintStat
  <1>2. call[t] \in Calls /\ First(call[t]) = "stats"
    BY <1>1 DEF TypeInv, HostTypes, Phases
  <1>3. s \in StatsReg
    BY <1>2, StatsRegs
  <1>4. statsRegAddr[s] \in Nat /\ got[t] \in Seq(Nat)
    BY <1>3 DEF TypeInv, HostTypes
  <1>5. got'[t] = Append(got[t], statsRegAddr[s])
    BY <1>1 DEF TypeInv, HostTypes
  <1>6. /\ Append(got[t], statsRegAddr[s]) \in Seq(Nat)
        /\ Len(Append(got[t], statsRegAddr[s])) = Len(got[t]) + 1
    <2> HIDE DEF s
    <2> QED
      BY <1>4, AppendProperties
  <1>7. pc' = [pc EXCEPT ![t] = IF Len(got'[t]) < NumStats[s] THEN "stats" ELSE "return"]
    BY DEF PrintStat
  <1> HIDE DEF s
  <1>8. pc' = [pc EXCEPT ![t] = IF Len(got[t]) + 1 < NumStats[s] THEN "stats" ELSE "return"]
    BY <1>5, <1>6, <1>7, Zenon
  <1> QED
    BY <1>1, <1>2, <1>3, <1>4, <1>5, <1>6, <1>8, Zenon DEF s

LEMMA PrintTypes ==
  ASSUME TypeInv, NEW t \in Thread, PrintStat(t)
  PROVE  TypeInv'
  <1> DEFINE s == StatsOf(call[t])
  <1>1. UNCHANGED <<word_counter, data, tlb_valid, running, toLoad, upper, counter,
                    dma_reads_flushed, ctrl_mutex, call, sent>>
    BY DEF PrintStat, ReadStats
  <1>2. /\ pc[t] = "stats" /\ call[t] \in Calls /\ First(call[t]) = "stats" /\ s \in StatsReg
        /\ \E seq \in Seq(Nat) : got' = [got EXCEPT ![t] = seq]
        /\ \E p \in {"stats", "return"} : pc' = [pc EXCEPT ![t] = p]
    BY PrintEffect
  <1>3. statsRegAddr' = [statsRegAddr EXCEPT ![s] = (statsRegAddr[s] + 1) % NumStats[s]]
    BY DEF PrintStat, ReadStats, NextStatsReg
  <1>4. /\ statsRegAddr \in [StatsReg -> Nat]
        /\ \A x \in StatsReg : statsRegAddr[x] < NumStats[x]
        /\ pc \in [Thread -> {"idle", "lock", "write", "reset", "read", "stats", "return"}]
        /\ got \in [Thread -> Seq(Nat)]
    BY DEF TypeInv, HostTypes
  <1> HIDE DEF s
  <1>5. statsRegAddr' \in [StatsReg -> Nat] /\ \A x \in StatsReg : statsRegAddr'[x] < NumStats[x]
    <2>1. NumStats[s] \in Nat /\ NumStats[s] > 0 /\ statsRegAddr[s] + 1 \in Nat
      BY <1>2, <1>4, ControllersAssumption
    <2>2. (statsRegAddr[s] + 1) % NumStats[s] \in 0 .. NumStats[s] - 1
      BY <2>1, Split
    <2>3. /\ (statsRegAddr[s] + 1) % NumStats[s] \in Nat
          /\ (statsRegAddr[s] + 1) % NumStats[s] < NumStats[s]
      BY <2>1, <2>2
    <2> QED
      BY <2>3, <1>2, <1>3, <1>4
  <1>6. /\ pc' \in [Thread -> {"idle", "lock", "write", "reset", "read", "stats", "return"}]
        /\ got' \in [Thread -> Seq(Nat)]
        /\ pc'[t] \in {"stats", "return"}
        /\ \A u \in Thread \ {t} : pc'[u] = pc[u] /\ got'[u] = got[u]
    BY <1>2, <1>4
  <1>7. HostTypes'
    BY <1>1, <1>5, <1>6 DEF TypeInv, HostTypes
  <1>8. Phases'
    <2>1. call[t] # NoCall
      BY <1>2, CallKinds
    <2> QED
      BY <1>1, <1>2, <1>6, <2>1 DEF TypeInv, Phases
  <1> QED
    BY <1>7, <1>8 DEF TypeInv

LEMMA ReturnTypes ==
  ASSUME TypeInv, NEW t \in Thread, Return(t)
  PROVE  TypeInv'
  <1>1. /\ ctrl_mutex \in [{ProcessOf[u] : u \in Thread} -> Thread \union {Nobody}]
        /\ pc \in [Thread -> {"idle", "lock", "write", "reset", "read", "stats", "return"}]
        /\ call \in [Thread -> Calls \union {NoCall}] /\ sent \in [Thread -> 0 .. 8]
        /\ got \in [Thread -> Seq(Nat)]
    BY DEF TypeInv, HostTypes
  <1>2. /\ ctrl_mutex' \in [{ProcessOf[u] : u \in Thread} -> Thread \union {Nobody}]
        /\ pc' \in [Thread -> {"idle", "lock", "write", "reset", "read", "stats", "return"}]
        /\ call' \in [Thread -> Calls \union {NoCall}] /\ sent' \in [Thread -> 0 .. 8]
    BY <1>1 DEF Return
  <1>3. got' \in [Thread -> Seq(Nat)]
    BY <1>1, EmptySeq DEF Return
  <1>4. UNCHANGED fpgaVars
    BY DEF Return
  <1>5. HostTypes'
    BY <1>2, <1>3, <1>4 DEF TypeInv, HostTypes, fpgaVars
  <1>6. /\ pc'[t] = "idle" /\ call'[t] = NoCall /\ sent'[t] = 0 /\ got'[t] = <<>>
        /\ \A u \in Thread \ {t} : /\ pc'[u] = pc[u] /\ call'[u] = call[u]
                                   /\ sent'[u] = sent[u] /\ got'[u] = got[u]
    BY <1>1 DEF Return
  <1>7. Phases'
    BY <1>6 DEF TypeInv, Phases
  <1> QED
    BY <1>5, <1>7 DEF TypeInv

LEMMA FpgaTypes ==
  ASSUME TypeInv, FpgaStep, UNCHANGED hostVars
  PROVE  TypeInv'
  <1>1. Phases'
    BY DEF TypeInv, Phases, hostVars
  <1>2. /\ counter \in [WideReg -> Nat] /\ running \subseteq BenchReg
        /\ toLoad \in [{"DMA_READS", "DMA_WRITES"} -> Seq(Nat)]
        /\ dma_reads_flushed \in BOOLEAN
    BY DEF TypeInv, HostTypes
  <1>3. CASE TakeMapping
    BY <1>1, <1>3 DEF TakeMapping, TypeInv, HostTypes, hostVars
  <1>4. ASSUME NEW reg \in {"DMA_READS", "DMA_WRITES"}, LoadDmaCommand(reg) PROVE TypeInv'
    <2>1. Head(toLoad[reg]) \in Nat /\ Tail(toLoad[reg]) \in Seq(Nat)
      BY <1>2, <1>4, HeadTailProperties DEF LoadDmaCommand
    <2>2. toLoad' \in [{"DMA_READS", "DMA_WRITES"} -> Seq(Nat)]
      BY <1>2, <1>4, <2>1 DEF LoadDmaCommand
    <2>3. (counter[reg] + Head(toLoad[reg])) % (Word * Half) \in Nat
      <3>1. Word * Half \in Nat /\ Word * Half > 0
        BY ControllersAssumption
      <3>2. counter[reg] + Head(toLoad[reg]) \in Nat
        BY <1>2, <2>1 DEF WideReg
      <3> QED
        BY <3>1, <3>2, Split
    <2>4. counter' \in [WideReg -> Nat]
      BY <1>2, <1>4, <2>3 DEF LoadDmaCommand
    <2>5. dma_reads_flushed' \in BOOLEAN
      BY <1>4 DEF LoadDmaCommand
    <2> QED
      BY <1>1, <1>4, <2>2, <2>4, <2>5 DEF LoadDmaCommand, TypeInv, HostTypes, hostVars
  <1>5. CASE FlushReads
    BY <1>1, <1>5 DEF FlushReads, TypeInv, HostTypes, hostVars
  <1>6. ASSUME NEW reg \in BenchReg, NEW cycles \in Cycles, FinishBenchmark(reg, cycles)
        PROVE  TypeInv'
    <2>1. counter' \in [WideReg -> Nat] /\ running' \subseteq BenchReg
      BY <1>2, <1>6, ControllersAssumption DEF FinishBenchmark
    <2> QED
      BY <1>1, <1>6, <2>1 DEF FinishBenchmark, TypeInv, HostTypes, hostVars
  <1> QED
    BY <1>3, <1>4, <1>5, <1>6 DEF FpgaStep

LEMMA StutterTypes ==
  ASSUME TypeInv, UNCHANGED vars
  PROVE  TypeInv'
  BY DEF TypeInv, HostTypes, Phases, vars, fpgaVars, hostVars

LEMMA NextTypes == TypeInv /\ [Next]_vars => TypeInv'
  BY CallTypes, LockTypes, WriteTypes, ResetTypes, ReadTypes, PrintTypes, ReturnTypes,
     FpgaTypes, StutterTypes
     DEF Next, HostNext, Step

(* The registers and the threads stay within their types: no word counter  *)
(* runs past the registers it selects, no walk past its statistics, and no *)
(* call writes more words than its command has, for all sizes of words,    *)
(* threads and processes.                                                  *)
THEOREM TypeCorrect == Spec => []TypeOK
  <1>1. TypeInv => TypeOK
    <2> SUFFICES ASSUME TypeInv PROVE TypeOK
      OBVIOUS
    <2>1. /\ statsRegAddr \in [StatsReg -> Nat]
          /\ \A s \in StatsReg : statsRegAddr[s] < NumStats[s]
      BY DEF TypeInv, HostTypes
    <2>2. /\ DOMAIN statsRegAddr = StatsReg
          /\ \A s \in StatsReg : statsRegAddr[s] \in 0 .. NumStats[s] - 1
      BY <2>1, ControllersAssumption
    <2>3. \A reg \in CommandReg : data[reg] \in [0 .. 7 -> 0 .. Word - 1]
      BY DEF TypeInv, HostTypes
    <2>4. \A reg \in WideReg : counter[reg] \in Nat
      BY DEF TypeInv, HostTypes
    <2>5. \A t \in Thread : sent[t] \in 0 .. 8
      BY DEF TypeInv, HostTypes
    <2> QED
      BY <2>2, <2>3, <2>4, <2>5 DEF TypeInv, HostTypes, TypeOK
  <1> QED
    BY <1>1, InitTypes, NextTypes, PTL DEF Spec

-----------------------------------------------------------------------------
(* The mutex of the process: the thread inside is alone. *)

LEMMA Alone ==
  ASSUME SingleProcess, TypeInv, Mutex, NEW t \in Thread, Inside(t)
  PROVE  \A u \in Thread : u # t => pc[u] \in {"idle", "lock"} /\ ~Inside(u)
  <1> SUFFICES ASSUME NEW u \in Thread, u # t PROVE pc[u] \in {"idle", "lock"} /\ ~Inside(u)
    OBVIOUS
  <1>1. ~Inside(u)
    BY DEF SingleProcess, Mutex
  <1> QED
    BY <1>1 DEF Inside, TypeInv, HostTypes

LEMMA Free ==
  ASSUME SingleProcess, TypeInv, Mutex, NEW t \in Thread, ctrl_mutex[ProcessOf[t]] = Nobody
  PROVE  \A u \in Thread : pc[u] \in {"idle", "lock"} /\ ~Inside(u)
  <1> SUFFICES ASSUME NEW u \in Thread PROVE pc[u] \in {"idle", "lock"} /\ ~Inside(u)
    OBVIOUS
  <1>1. ~Inside(u)
    BY HostAssumption DEF SingleProcess, Mutex
  <1> QED
    BY <1>1 DEF Inside, TypeInv, HostTypes

(* Everything but the types, when no thread is inside, says that the       *)
(* registers are at rest.                                                  *)
LEMMA InitInv == Init => HostInv
  <1> SUFFICES ASSUME Init PROVE HostInv
    OBVIOUS
  <1>1. TypeInv
    BY InitTypes
  <1>2. \A t \in Thread : pc[t] = "idle" /\ call[t] = NoCall /\ got[t] = <<>>
    BY DEF Init
  <1>3. Mutex
    BY <1>2 DEF Mutex, Inside
  <1>4. CommandWords
    BY <1>2 DEF CommandWords, Init, FpgaInit
  <1>5. WideReads
    BY <1>2 DEF WideReads, Init, FpgaInit
  <1>6. StatsWalks
    BY <1>2 DEF StatsWalks, Init, FpgaInit
  <1>7. Runs
    BY DEF Runs, Init, FpgaInit
  <1>8. LowerWord /\ ResultsWhole
    BY <1>2 DEF LowerWord, ResultsWhole
  <1>9. StatsLabelled
    BY <1>2 DEF StatsLabelled, NoCall
  <1> QED
    BY <1>1, <1>3, <1>4, <1>5, <1>6, <1>7, <1>8, <1>9 DEF HostInv

(* A thread outside the mutex makes a call: it touches nothing. *)
LEMMA CallInv ==
  ASSUME HostInv, NEW t \in Thread, NEW c \in Calls, Call(t, c)
  PROVE  HostInv'
  <1>1. TypeInv'
    BY CallTypes DEF HostInv
  <1>2. /\ pc[t] = "idle" /\ pc'[t] = "lock" /\ got'[t] = <<>>
        /\ \A u \in Thread : u # t => pc'[u] = pc[u] /\ call'[u] = call[u]
        /\ UNCHANGED <<fpgaVars, ctrl_mutex, sent, got>>
    BY DEF Call, HostInv, TypeInv, HostTypes, Phases
  <1>3. Mutex'
    BY <1>2 DEF HostInv, Mutex, Inside
  <1>4. CommandWords'
    BY <1>2 DEF HostInv, CommandWords, Writing, fpgaVars
  <1>5. WideReads'
    BY <1>2 DEF HostInv, WideReads, Reading, fpgaVars
  <1>6. StatsWalks'
    BY <1>2 DEF HostInv, StatsWalks, Printing, fpgaVars
  <1>7. Runs'
    BY <1>2 DEF HostInv, Runs, fpgaVars
  <1>8. LowerWord'
    BY <1>2 DEF HostInv, LowerWord, Wanted, fpgaVars
  <1>9. ResultsWhole'
    BY <1>2 DEF HostInv, ResultsWhole, fpgaVars
  <1>10. StatsLabelled'
    BY <1>2 DEF HostInv, StatsLabelled, fpgaVars
  <1> QED
    BY <1>1, <1>3, <1>4, <1>5, <1>6, <1>7, <1>8, <1>9, <1>10 DEF HostInv

(* The thread that gets the mutex finds the registers at rest. *)
LEMMA LockInv ==
  ASSUME SingleProcess, HostInv, NEW t \in Thread, Lock(t)
  PROVE  HostInv'
  <1>1. TypeInv'
    BY LockTypes DEF HostInv
  <1>2. \A u \in Thread : pc[u] \in {"idle", "lock"} /\ ~Inside(u)
    BY Free DEF HostInv, Lock
  <1>3. /\ pc'[t] = First(call[t]) /\ sent[t] = 0 /\ got[t] = <<>> /\ call[t] \in Calls
        /\ \A u \in Thread : u # t => pc'[u] = pc[u]
        /\ UNCHANGED <<fpgaVars, call, sent, got>>
    BY DEF Lock, HostInv, TypeInv, HostTypes, Phases
  <1>4. First(call[t]) \in {"write", "reset", "read", "stats"}
    BY <1>3, CallKinds
  <1>5. Mutex'
    <2>1. ctrl_mutex'[ProcessOf[t]] = t
      BY DEF Lock, HostInv, TypeInv, HostTypes
    <2> QED
      BY <1>2, <1>3, <2>1 DEF Mutex, Inside
  <1>6. CommandWords'
    <2>1. \A ctl \in {"dma", "bench"} : word_counter[ctl] = 0
      BY <1>2 DEF HostInv, CommandWords, Writing
    <2>2. pc'[t] = "write" => ControllerOf(RegOf(call[t])) \in {"dma", "bench"}
      BY <1>3, CommandRegs
    <2> QED
      BY <1>2, <1>3, <2>1, <2>2 DEF CommandWords, fpgaVars
  <1>7. WideReads'
    <2>1. \A reg \in WideReg : ~upper[reg]
      BY <1>2 DEF HostInv, WideReads, Reading
    <2>2. pc'[t] = "read" => ResultReg(call[t]) \in WideReg
      BY <1>3, ResultRegs
    <2>3. Len(got[t]) = 0
      BY <1>3, EmptySeq
    <2> QED
      BY <1>2, <1>3, <2>1, <2>2, <2>3 DEF WideReads, fpgaVars
  <1>8. StatsWalks'
    <2>1. \A s \in StatsReg : statsRegAddr[s] = 0
      BY <1>2 DEF HostInv, StatsWalks, Printing
    <2>2. pc'[t] = "stats" => StatsOf(call[t]) \in StatsReg
      BY <1>3, StatsRegs
    <2>3. Len(got[t]) = 0
      BY <1>3, EmptySeq
    <2> QED
      BY <1>2, <1>3, <2>1, <2>2, <2>3 DEF StatsWalks, fpgaVars
  <1>9. Runs'
    BY <1>2, <1>3 DEF HostInv, Runs, fpgaVars
  <1>10. LowerWord'
    <2>1. Len(got[t]) = 0
      BY <1>3, EmptySeq
    <2> QED
      BY <1>2, <1>3, <2>1 DEF LowerWord
  <1>11. ResultsWhole'
    BY <1>2, <1>3, <1>4 DEF ResultsWhole
  <1>12. StatsLabelled'
    BY <1>3 DEF HostInv, StatsLabelled
  <1> QED
    BY <1>1, <1>5, <1>6, <1>7, <1>8, <1>9, <1>10, <1>11, <1>12 DEF HostInv

(* What a step of the thread inside leaves alone of the others. *)
OthersOutside(t) == \A u \in Thread : u # t => pc[u] \in {"idle", "lock"} /\ pc'[u] = pc[u]

LEMMA WriteInv ==
  ASSUME SingleProcess, HostInv, NEW t \in Thread, WriteWord(t)
  PROVE  HostInv'
  <1> DEFINE reg == RegOf(call[t])
             ctl == ControllerOf(reg)
             value == WordsOf(call[t])[sent[t] + 1]
             last == sent[t] = NumWords(reg) - 1
  <1>1. TypeInv'
    BY WriteTypes DEF HostInv
  <1>2. pc[t] = "write" /\ WriteCommandWord(reg, value)
    BY DEF WriteWord
  <1>3. /\ call[t] \in Calls /\ First(call[t]) = "write"
        /\ sent[t] \in 0 .. 7 /\ sent[t] < NumWords(reg)
        /\ IsBenchmark(call[t]) /\ sent[t] \in {1, 3} => value % Half = value
    BY <1>2, WritePhase DEF HostInv
  <1>4. /\ reg \in CommandReg /\ ctl \in {"dma", "bench"} /\ NumWords(reg) \in {5, 8}
        /\ IsBenchmark(call[t]) <=> reg \in BenchReg
        /\ Len(WordsOf(call[t])) = NumWords(reg)
    BY <1>3, CommandRegs, CommandLength
  <1>5. OthersOutside(t)
    <2>1. \A u \in Thread : u # t => pc[u] \in {"idle", "lock"}
      BY <1>2, Alone DEF HostInv, Inside
    <2> QED
      BY <2>1 DEF OthersOutside, WriteWord, HostInv, TypeInv, HostTypes
  <1>6. /\ UNCHANGED <<ctrl_mutex, call, got, upper, dma_reads_flushed, statsRegAddr>>
        /\ sent'[t] = sent[t] + 1 /\ got[t] = <<>>
        /\ pc'[t] = IF last THEN IF IsBenchmark(call[t]) THEN "read" ELSE "return" ELSE "write"
    <2>1. UNCHANGED <<ctrl_mutex, call, got, upper, dma_reads_flushed, statsRegAddr>>
      BY <1>2 DEF WriteWord, WriteCommandWord
    <2>2. sent'[t] = sent[t] + 1 /\ got[t] = <<>>
      BY <1>2 DEF WriteWord, HostInv, TypeInv, HostTypes, Phases
    <2>3. pc'[t] = IF sent'[t] < NumWords(reg) THEN "write"
                   ELSE IF IsBenchmark(call[t]) THEN "read" ELSE "return"
      BY <1>4 DEF WriteWord, HostInv, TypeInv, HostTypes
    <2>4. sent[t] + 1 < NumWords(reg) <=> ~last
      BY <1>3, <1>4
    <2> HIDE DEF last, reg
    <2> QED
      BY <2>1, <2>2, <2>3, <2>4
  <1>7. word_counter[ctl] = sent[t]
        /\ \A i \in 0 .. 7 : i < sent[t] => data[reg][i] = WordsOf(call[t])[i + 1]
    BY <1>2 DEF HostInv, CommandWords
  <1>8. word_counter' = [word_counter EXCEPT ![ctl] = IF last THEN 0 ELSE sent[t] + 1]
    BY <1>2, <1>7 DEF WriteCommandWord, NextWord
  <1>9. data' = [data EXCEPT ![reg][sent[t]] = value]
    <2>1. data' = [data EXCEPT ![reg][sent[t]] =
                     IF reg \in BenchReg /\ sent[t] \in {1, 3} THEN value % Half ELSE value]
      BY <1>2, <1>7 DEF WriteCommandWord
    <2> QED
      BY <2>1, <1>3, <1>4
  <1> HIDE DEF reg, ctl, value, last
  <1>10. Mutex'
    BY <1>2, <1>5, <1>6 DEF HostInv, Mutex, Inside, OthersOutside
  <1>11. CommandWords'
    <2>1. /\ word_counter \in [{"dma", "bench"} -> 0 .. 7]
          /\ data \in [CommandReg -> [0 .. 7 -> 0 .. Word - 1]]
      BY DEF HostInv, TypeInv, HostTypes
    <2>2. \A c \in {"dma", "bench"} : c # ctl => word_counter'[c] = 0
      <3>1. \A u \in Thread : ~(Writing(u, "dma") /\ ctl = "bench")
                              /\ ~(Writing(u, "bench") /\ ctl = "dma")
        BY <1>2, <1>5 DEF OthersOutside, Writing, ctl, reg
      <3> QED
        BY <3>1, <2>1, <1>4, <1>8 DEF HostInv, CommandWords
    <2>3. word_counter'[ctl] = IF last THEN 0 ELSE sent[t] + 1
      BY <2>1, <1>4, <1>8
    <2>4. ~last => pc'[t] = "write" /\ ControllerOf(RegOf(call'[t])) = ctl
      BY <1>6 DEF ctl, reg
    <2>5. \A c \in {"dma", "bench"} : word_counter'[c] # 0 => Writing(t, c)'
      BY <2>2, <2>3, <2>4 DEF Writing
    <2>6. \A i \in 0 .. 7 : i < sent[t] + 1 => data'[reg][i] = WordsOf(call[t])[i + 1]
      <3> SUFFICES ASSUME NEW i \in 0 .. 7, i < sent[t] + 1
                   PROVE  data'[reg][i] = WordsOf(call[t])[i + 1]
        OBVIOUS
      <3>1. data'[reg][i] = IF i = sent[t] THEN value ELSE data[reg][i]
        BY <1>3, <1>4, <1>9, <2>1
      <3>2. CASE i = sent[t]
        BY <3>1, <3>2 DEF value
      <3>3. CASE i < sent[t]
        BY <3>1, <3>3, <1>7, <1>3
      <3> QED
        BY <3>2, <3>3, <1>3
    <2>7. \A u \in Thread : pc'[u] = "write" =>
            u = t /\ ~last /\ RegOf(call'[u]) = reg /\ WordsOf(call'[u]) = WordsOf(call[t])
                  /\ sent'[u] = sent[t] + 1
      BY <1>5, <1>6 DEF OthersOutside, reg
    <2> QED
      BY <2>3, <2>5, <2>6, <2>7 DEF CommandWords, ctl
  <1>12. WideReads'
    <2>1. \A r \in WideReg : ~upper[r]
      BY <1>2, <1>5 DEF HostInv, WideReads, Reading, OthersOutside
    <2>2. pc'[t] = "read" => ResultReg(call[t]) \in WideReg
      BY <1>3, <1>6, ResultRegs
    <2>3. Len(got[t]) = 0
      BY <1>6, EmptySeq
    <2> QED
      BY <1>5, <1>6, <2>1, <2>2, <2>3 DEF WideReads, OthersOutside
  <1>13. StatsWalks'
    <2>1. \A s \in StatsReg : statsRegAddr[s] = 0
      BY <1>2, <1>5 DEF HostInv, StatsWalks, Printing, OthersOutside
    <2> QED
      BY <1>5, <1>6, <2>1 DEF StatsWalks, OthersOutside
  <1>14. Runs'
    <2>1. running = {}
      BY <1>2, <1>5 DEF HostInv, Runs, OthersOutside
    <2>2. /\ dma_reads_flushed' /\ toLoad["DMA_READS"] = <<>>
      BY <2>1, <1>6 DEF HostInv, Runs
    <2>3. CASE reg \in BenchReg /\ last
      <3>1. /\ counter' = [counter EXCEPT ![CyclesOf(reg)] = 0]
            /\ running' = IF Starts(reg, value) THEN {reg} ELSE {}
            /\ reg # "DMA_BENCH" => toLoad' = toLoad
        BY <1>2, <1>7, <2>1, <2>3 DEF WriteCommandWord, last, reg, ctl
      <3>2. counter'[CyclesOf(reg)] = 0
        <4>1. counter \in [WideReg -> Nat] /\ CyclesOf(reg) \in WideReg
          BY DEF HostInv, TypeInv, HostTypes, CyclesOf, WideReg
        <4> QED
          BY <3>1, <4>1
      <3>3. pc'[t] = "read" /\ IsBenchmark(call'[t]) /\ RegOf(call'[t]) = reg
        BY <1>4, <1>6, <2>3 DEF reg
      <3>4. reg = "DMA_BENCH" => reg \in running'
        BY <3>1 DEF Starts
      <3>5. \A r \in running' : r = reg
        BY <3>1
      <3> QED
        BY <2>2, <3>1, <3>2, <3>3, <3>4, <3>5 DEF Runs
    <2>4. CASE ~(reg \in BenchReg /\ last)
      <3>1. UNCHANGED <<counter, running, toLoad>>
        BY <1>2, <1>7, <2>4 DEF WriteCommandWord, last, reg, ctl
      <3> QED
        BY <2>1, <2>2, <3>1 DEF Runs
    <2> QED
      BY <2>3, <2>4
  <1>15. LowerWord'
    <2>1. Len(got'[t]) = 0
      BY <1>6, EmptySeq
    <2> QED
      BY <1>5, <2>1 DEF LowerWord, OthersOutside
  <1>16. ResultsWhole'
    <2>1. pc'[t] = "return" => ~IsBenchmark(call'[t]) /\ call'[t].name # "getDmaReads"
      BY <1>3, <1>6, CallKinds
    <2> QED
      BY <1>5, <2>1 DEF ResultsWhole, OthersOutside
  <1>17. StatsLabelled'
    BY <1>6 DEF HostInv, StatsLabelled
  <1> QED
    BY <1>1, <1>10, <1>11, <1>12, <1>13, <1>14, <1>15, <1>16, <1>17 DEF HostInv

LEMMA ResetInv ==
  ASSUME SingleProcess, HostInv, NEW t \in Thread, Reset(t)
  PROVE  HostInv'
  <1>1. TypeInv'
    BY ResetTypes DEF HostInv
  <1>2. /\ pc[t] = "reset" /\ pc'[t] = "return"
        /\ UNCHANGED <<word_counter, data, tlb_valid, running, toLoad, upper,
                       dma_reads_flushed, statsRegAddr, ctrl_mutex, call, sent, got>>
    BY DEF Reset, ResetLength, HostInv, TypeInv, HostTypes
  <1>3. OthersOutside(t)
    <2>1. \A u \in Thread : u # t => pc[u] \in {"idle", "lock"}
      BY <1>2, Alone DEF HostInv, Inside
    <2> QED
      BY <2>1 DEF OthersOutside, Reset, HostInv, TypeInv, HostTypes
  <1>4. Mutex'
    BY <1>2, <1>3 DEF HostInv, Mutex, Inside, OthersOutside
  <1>5. CommandWords'
    BY <1>2, <1>3 DEF HostInv, CommandWords, Writing, OthersOutside
  <1>6. WideReads'
    BY <1>2, <1>3 DEF HostInv, WideReads, Reading, OthersOutside
  <1>7. StatsWalks'
    BY <1>2, <1>3 DEF HostInv, StatsWalks, Printing, OthersOutside
  <1>8. Runs'
    BY <1>2, <1>3 DEF HostInv, Runs, OthersOutside
  <1>9. LowerWord'
    BY <1>2, <1>3 DEF LowerWord, OthersOutside
  <1>10. ResultsWhole'
    <2>1. call[t] \in Calls /\ First(call[t]) = "reset"
      BY <1>2 DEF HostInv, TypeInv, HostTypes, Phases
    <2>2. ~IsBenchmark(call'[t]) /\ call'[t].name # "getDmaReads"
      BY <1>2, <2>1, CallKinds
    <2> QED
      BY <1>3, <2>2 DEF ResultsWhole, OthersOutside
  <1>11. StatsLabelled'
    BY <1>2 DEF HostInv, StatsLabelled
  <1> QED
    BY <1>1, <1>4, <1>5, <1>6, <1>7, <1>8, <1>9, <1>10, <1>11 DEF HostInv

(* The words of a wide register that a call reads without anyone else      *)
(* changing it.                                                            *)
LEMMA WordRead ==
  ASSUME SingleProcess, HostInv, NEW t \in Thread, pc[t] = "read", Wanted(t)
  PROVE  /\ counter[ResultReg(call[t])] \in Nat
         /\ Len(got[t]) # 1
              => WideWord(ResultReg(call[t])) = counter[ResultReg(call[t])] % Word
         /\ Len(got[t]) = 1
              => WideWord(ResultReg(call[t])) = counter[ResultReg(call[t])] \div Word
  <1> DEFINE reg == ResultReg(call[t])
  <1>1. reg \in WideReg
    BY ReadPhase DEF HostInv
  <1>2. call[t] \in Calls
    BY ReadPhase DEF HostInv
  <1>3. counter[reg] \in Nat
    BY <1>1 DEF HostInv, TypeInv, HostTypes
  <1>4. upper[reg] <=> Len(got[t]) = 1
    BY DEF HostInv, WideReads
  <1>5. ~(reg = "DMA_READS" /\ ~dma_reads_flushed)
    <2>1. CASE IsBenchmark(call[t])
      BY <1>2, <2>1, ResultRegs DEF CyclesOf
    <2>2. CASE ~IsBenchmark(call[t])
      <3>1. \A u \in Thread : u # t => pc[u] \in {"idle", "lock"}
        BY Alone DEF HostInv, Inside
      <3>2. "DMA_BENCH" \notin running
        BY <2>2, <3>1 DEF HostInv, Runs
      <3> QED
        BY <3>2 DEF HostInv, Runs
    <2> QED
      BY <2>1, <2>2
  <1> HIDE DEF reg
  <1>6. WideWord(reg) = IF upper[reg] THEN counter[reg] \div Word ELSE counter[reg] % Word
    BY <1>5 DEF WideWord
  <1> QED
    BY <1>3, <1>4, <1>6 DEF reg

LEMMA ReadInv ==
  ASSUME SingleProcess, HostInv, NEW t \in Thread, ReadWord(t)
  PROVE  HostInv'
  <1> DEFINE reg == ResultReg(call[t])
             again == Len(got[t]) # 1 \/ (IsBenchmark(call[t]) /\ got[t][1] = 0)
  <1>1. TypeInv'
    BY ReadTypes DEF HostInv
  <1>2. /\ pc[t] = "read"
        /\ Len(got[t]) = 1 => Len(got'[t]) = 2 /\ got'[t][1] = got[t][1]
                              /\ got'[t][2] = WideWord(reg)
        /\ Len(got[t]) # 1 => Len(got'[t]) = 1 /\ got'[t][1] = WideWord(reg)
        /\ \A u \in Thread : u # t => got'[u] = got[u]
    BY ReadEffect, ZenonT(60) DEF HostInv, TypeInv, HostTypes
  <1>3. pc'[t] = (IF again THEN "read" ELSE "return") /\ \A u \in Thread : u # t => pc'[u] = pc[u]
    <2>1. pc' = [pc EXCEPT ![t] = IF again THEN "read" ELSE "return"]
      BY ReadEffect DEF HostInv
    <2>2. pc \in [Thread -> {"idle", "lock", "write", "reset", "read", "stats", "return"}]
      BY DEF HostInv, TypeInv, HostTypes
    <2> HIDE DEF again
    <2> QED
      BY <2>1, <2>2
  <1>4. /\ UNCHANGED <<word_counter, data, tlb_valid, running, toLoad, counter,
                       dma_reads_flushed, statsRegAddr, ctrl_mutex, call, sent>>
        /\ upper' = [upper EXCEPT ![reg] = ~upper[reg]]
    BY DEF ReadWord, ReadWide
  <1>5. OthersOutside(t)
    <2>1. \A u \in Thread : u # t => pc[u] \in {"idle", "lock"}
      BY <1>2, Alone DEF HostInv, Inside
    <2> QED
      BY <2>1, <1>3 DEF OthersOutside
  <1>6. call[t] \in Calls /\ reg \in WideReg /\ upper \in [WideReg -> BOOLEAN]
    BY <1>2, ReadPhase DEF HostInv, TypeInv, HostTypes
  <1>7. Mutex'
    BY <1>2, <1>3, <1>4, <1>5 DEF HostInv, Mutex, Inside, OthersOutside
  <1>8. CommandWords'
    BY <1>2, <1>3, <1>4, <1>5 DEF HostInv, CommandWords, Writing, OthersOutside
  <1>9. WideReads'
    <2>1. upper[reg] <=> Len(got[t]) = 1
      BY <1>2 DEF HostInv, WideReads
    <2>2. \A r \in WideReg : r # reg => ~upper[r]
      BY <1>2, <1>5 DEF HostInv, WideReads, Reading, OthersOutside
    <2>3. \A r \in WideReg : upper'[r] => r = reg /\ Len(got[t]) # 1
      BY <2>1, <2>2, <1>4, <1>6
    <2>4. pc'[t] = "read" => (upper'[reg] <=> Len(got'[t]) = 1)
      <3>1. upper'[reg] <=> ~upper[reg]
        BY <1>4, <1>6
      <3>2. CASE Len(got[t]) = 1
        BY <3>1, <3>2, <2>1, <1>2
      <3>3. CASE Len(got[t]) # 1
        BY <3>1, <3>3, <2>1, <1>2
      <3> QED
        BY <3>2, <3>3
    <2>5. \A r \in WideReg : upper'[r] => Reading(t, r)'
      BY <2>3, <1>3, <1>4 DEF Reading
    <2> QED
      BY <2>4, <2>5, <1>4, <1>5 DEF WideReads, OthersOutside
  <1>10. StatsWalks'
    BY <1>2, <1>3, <1>4, <1>5 DEF HostInv, StatsWalks, Printing, OthersOutside
  <1>11. Wanted(t) /\ pc'[t] = "return"
           => /\ got[t][1] = counter[reg] % Word
              /\ IsBenchmark(call[t]) => RegOf(call[t]) \notin running /\ got[t][1] # 0
    BY <1>2, <1>3 DEF HostInv, LowerWord
  <1>12. Runs'
    <2>1. \A r \in running :
            /\ counter[CyclesOf(r)] = 0
            /\ IsBenchmark(call[t]) /\ RegOf(call[t]) = r
      BY <1>2, <1>5 DEF HostInv, Runs, OthersOutside
    <2>2. running # {} => pc'[t] = "read"
      BY <2>1, <1>3, <1>11 DEF Wanted
    <2> QED
      BY <2>1, <2>2, <1>4 DEF HostInv, Runs
  <1>13. LowerWord'
    <2> SUFFICES ASSUME pc'[t] = "read", Wanted(t)
                 PROVE  /\ Len(got'[t]) = 1 /\ (IsBenchmark(call[t]) => got'[t][1] # 0)
                             => /\ got'[t][1] = counter[reg] % Word
                                /\ IsBenchmark(call[t]) => RegOf(call[t]) \notin running
                        /\ Len(got'[t]) = 2 => IsBenchmark(call[t]) /\ got'[t][1] = 0
      BY <1>4, <1>5 DEF LowerWord, Wanted, OthersOutside
    <2>1. CASE Len(got[t]) = 1
      BY <2>1, <1>2, <1>3
    <2>2. CASE Len(got[t]) # 1
      <3>1. Len(got'[t]) = 1 /\ got'[t][1] = counter[reg] % Word
        BY <2>2, <1>2, WordRead
      <3>2. IsBenchmark(call[t]) /\ RegOf(call[t]) \in running => counter[reg] = 0
        BY <1>6, ResultRegs DEF HostInv, Runs
      <3>3. 0 % Word = 0
        BY ControllersAssumption
      <3> QED
        BY <3>1, <3>2, <3>3
    <2> QED
      BY <2>1, <2>2
  <1>14. ResultsWhole'
    <2> SUFFICES ASSUME pc'[t] = "return", Wanted(t)
                 PROVE  /\ got'[t][1] + Word * got'[t][2] = counter[reg]
                        /\ IsBenchmark(call[t]) => RegOf(call[t]) \notin running
                                                   /\ got'[t] # <<0, 0>>
      BY <1>4, <1>5 DEF ResultsWhole, Wanted, OthersOutside
    <2>1. Len(got[t]) = 1
      BY <1>3
    <2>2. got'[t][1] = counter[reg] % Word /\ got'[t][2] = counter[reg] \div Word
      BY <2>1, <1>2, <1>11, WordRead
    <2>3. counter[reg] \in Nat
      BY <1>2, WordRead
    <2>4. counter[reg] = (counter[reg] % Word) + Word * (counter[reg] \div Word)
      <3>1. \A n \in Nat : n = (n % Word) + Word * (n \div Word)
        BY Split, ControllersAssumption
      <3> HIDE DEF reg
      <3> QED
        BY <2>3, <3>1, Zenon
    <2>5. IsBenchmark(call[t]) => RegOf(call[t]) \notin running /\ got'[t][1] # 0
      BY <2>1, <1>2, <1>11
    <2>6. got'[t] = <<0, 0>> => got'[t][1] = 0
      OBVIOUS
    <2>7. got'[t][1] + Word * got'[t][2] = counter[reg]
      BY <2>2, <2>4
    <2> QED
      BY <2>5, <2>6, <2>7
  <1>15. StatsLabelled'
    <2>1. call[t].name \notin {"printDmaStatsRegs", "printDdrStatsRegs"}
      <3>1. First(call[t]) = "read" \/ IsBenchmark(call[t])
        BY <1>2, ReadPhase DEF HostInv
      <3> QED
        BY <3>1, <1>6, CallKinds
    <2> QED
      BY <2>1, <1>2, <1>4 DEF HostInv, StatsLabelled
  <1> QED
    BY <1>1, <1>7, <1>8, <1>9, <1>10, <1>12, <1>13, <1>14, <1>15 DEF HostInv

LEMMA PrintInv ==
  ASSUME SingleProcess, HostInv, NEW t \in Thread, PrintStat(t)
  PROVE  HostInv'
  <1> DEFINE s == StatsOf(call[t])
             n == Len(got[t])
  <1>1. TypeInv'
    BY PrintTypes DEF HostInv
  <1>2. /\ pc[t] = "stats" /\ call[t] \in Calls /\ First(call[t]) = "stats" /\ s \in StatsReg
        /\ got[t] \in Seq(Nat) /\ got' = [got EXCEPT ![t] = Append(got[t], statsRegAddr[s])]
        /\ got'[t] = Append(got[t], statsRegAddr[s]) /\ Len(got'[t]) = n + 1
    BY PrintEffect DEF HostInv
  <1>3. /\ pc'[t] = (IF n + 1 < NumStats[s] THEN "stats" ELSE "return")
        /\ \A u \in Thread : u # t => pc'[u] = pc[u] /\ got'[u] = got[u]
    <2>1. pc' = [pc EXCEPT ![t] = IF n + 1 < NumStats[s] THEN "stats" ELSE "return"]
      BY PrintEffect DEF HostInv
    <2>2. /\ pc \in [Thread -> {"idle", "lock", "write", "reset", "read", "stats", "return"}]
          /\ got \in [Thread -> Seq(Nat)]
      BY DEF HostInv, TypeInv, HostTypes
    <2> HIDE DEF n, s
    <2> QED
      BY <2>1, <2>2, <1>2
  <1>4. /\ UNCHANGED <<word_counter, data, tlb_valid, running, toLoad, upper, counter,
                       dma_reads_flushed, ctrl_mutex, call, sent>>
        /\ statsRegAddr' = [statsRegAddr EXCEPT ![s] = (statsRegAddr[s] + 1) % NumStats[s]]
    BY DEF PrintStat, ReadStats, NextStatsReg
  <1>5. OthersOutside(t)
    <2>1. \A u \in Thread : u # t => pc[u] \in {"idle", "lock"}
      BY <1>2, Alone DEF HostInv, Inside
    <2> QED
      BY <2>1, <1>3 DEF OthersOutside
  <1>6. /\ statsRegAddr[s] = n /\ n < NumStats[s] /\ n \in Nat /\ NumStats[s] \in Nat
        /\ statsRegAddr \in [StatsReg -> Nat]
    <2>1. statsRegAddr[s] = n
      BY <1>2 DEF HostInv, StatsWalks
    <2>2. statsRegAddr \in [StatsReg -> Nat] /\ statsRegAddr[s] < NumStats[s]
      BY <1>2 DEF HostInv, TypeInv, HostTypes
    <2> QED
      BY <2>1, <2>2, <1>2, ControllersAssumption
  <1> HIDE DEF s, n
  <1>7. Mutex'
    BY <1>2, <1>3, <1>4, <1>5 DEF HostInv, Mutex, Inside, OthersOutside
  <1>8. CommandWords'
    BY <1>2, <1>3, <1>4, <1>5 DEF HostInv, CommandWords, Writing, OthersOutside
  <1>9. WideReads'
    BY <1>2, <1>3, <1>4, <1>5 DEF HostInv, WideReads, Reading, OthersOutside
  <1>10. StatsWalks'
    <2>1. \A x \in StatsReg : x # s => statsRegAddr[x] = 0
      BY <1>2, <1>5 DEF HostInv, StatsWalks, Printing, OthersOutside, s
    <2>2. (n + 1) % NumStats[s] = IF n + 1 < NumStats[s] THEN n + 1 ELSE 0
      <3>1. CASE n + 1 < NumStats[s]
        BY <3>1, <1>6
      <3>2. CASE n + 1 = NumStats[s]
        BY <3>2, <1>6
      <3> QED
        BY <3>1, <3>2, <1>6
    <2>3. statsRegAddr'[s] = IF n + 1 < NumStats[s] THEN n + 1 ELSE 0
      BY <2>2, <1>2, <1>4, <1>6
    <2>4. \A x \in StatsReg : statsRegAddr'[x] # 0 => Printing(t, x)'
      BY <2>1, <2>3, <1>3, <1>4, <1>6 DEF Printing, s
    <2>5. pc'[t] = "stats" => statsRegAddr'[StatsOf(call'[t])] = Len(got'[t])
      BY <2>3, <1>2, <1>3, <1>4 DEF s
    <2> QED
      BY <2>4, <2>5, <1>5 DEF StatsWalks, OthersOutside
  <1>11. Runs'
    BY <1>2, <1>3, <1>4, <1>5 DEF HostInv, Runs, OthersOutside
  <1>12. LowerWord'
    BY <1>2, <1>3, <1>5 DEF LowerWord, OthersOutside
  <1>13. ResultsWhole'
    <2>1. ~IsBenchmark(call'[t]) /\ call'[t].name # "getDmaReads"
      BY <1>2, <1>4, CallKinds
    <2> QED
      BY <1>5, <2>1 DEF ResultsWhole, OthersOutside
  <1>14. StatsLabelled'
    <2>1. \A i \in DOMAIN got[t] : got[t][i] = i - 1
      <3>1. call[t].name \in {"printDmaStatsRegs", "printDdrStatsRegs"}
        BY <1>2, CallKinds
      <3> QED
        BY <3>1 DEF HostInv, StatsLabelled
    <2>2. \A i \in DOMAIN got'[t] : got'[t][i] = i - 1
      <3> SUFFICES ASSUME NEW i \in DOMAIN got'[t] PROVE got'[t][i] = i - 1
        OBVIOUS
      <3>1. /\ DOMAIN got[t] = 1 .. n /\ DOMAIN got'[t] = 1 .. n + 1
            /\ got'[t][n + 1] = n
            /\ \A j \in 1 .. n : got'[t][j] = got[t][j]
        <4>1. Append(got[t], statsRegAddr[s]) \in Seq(Nat)
          BY PrintEffect DEF HostInv, s
        <4>2. DOMAIN got[t] = 1 .. n /\ DOMAIN got'[t] = 1 .. n + 1
          BY <4>1, <1>2, LenProperties DEF n
        <4>3. got'[t][n + 1] = n /\ \A j \in 1 .. n : got'[t][j] = got[t][j]
          BY <1>2, <1>6, AppendProperties DEF n
        <4> QED
          BY <4>2, <4>3
      <3>2. CASE i = n + 1
        BY <3>1, <3>2, <1>6
      <3>3. CASE i \in 1 .. n
        BY <3>1, <3>3, <2>1
      <3> QED
        BY <3>1, <3>2, <3>3, <1>6
    <2> QED
      BY <2>2, <1>3, <1>4 DEF HostInv, StatsLabelled
  <1> QED
    BY <1>1, <1>7, <1>8, <1>9, <1>10, <1>11, <1>12, <1>13, <1>14 DEF HostInv

(* The thread inside gives the mutex back: the registers it used are at    *)
(* rest.                                                                   *)
LEMMA ReturnInv ==
  ASSUME SingleProcess, HostInv, NEW t \in Thread, Return(t)
  PROVE  HostInv'
  <1>1. TypeInv'
    BY ReturnTypes DEF HostInv
  <1>2. /\ pc[t] = "return" /\ pc'[t] = "idle" /\ call'[t] = NoCall /\ got'[t] = <<>>
        /\ UNCHANGED fpgaVars
        /\ \A u \in Thread : u # t => /\ pc'[u] = pc[u] /\ call'[u] = call[u]
                                      /\ got'[u] = got[u] /\ sent'[u] = sent[u]
    BY DEF Return, HostInv, TypeInv, HostTypes
  <1>3. \A u \in Thread : pc'[u] \in {"idle", "lock"}
    <2>1. \A u \in Thread : u # t => pc[u] \in {"idle", "lock"}
      BY <1>2, Alone DEF HostInv, Inside
    <2> QED
      BY <2>1, <1>2
  <1>4. Mutex'
    BY <1>3 DEF Mutex, Inside
  <1>5. CommandWords'
    BY <1>2, <1>3 DEF HostInv, CommandWords, Writing, fpgaVars
  <1>6. WideReads'
    BY <1>2, <1>3 DEF HostInv, WideReads, Reading, fpgaVars
  <1>7. StatsWalks'
    BY <1>2, <1>3 DEF HostInv, StatsWalks, Printing, fpgaVars
  <1>8. Runs'
    BY <1>2, <1>3 DEF HostInv, Runs, fpgaVars
  <1>9. LowerWord' /\ ResultsWhole'
    BY <1>3 DEF LowerWord, ResultsWhole
  <1>10. StatsLabelled'
    BY <1>2 DEF HostInv, StatsLabelled, NoCall
  <1> QED
    BY <1>1, <1>4, <1>5, <1>6, <1>7, <1>8, <1>9, <1>10 DEF HostInv

(* A step of the FPGA touches no counter that a call is between two reads  *)
(* of, or has read and not yet returned.                                   *)
LEMMA FpgaInv ==
  ASSUME SingleProcess, HostInv, FpgaStep, UNCHANGED hostVars
  PROVE  HostInv'
  <1>1. TypeInv'
    BY FpgaTypes DEF HostInv
  <1>2. UNCHANGED <<word_counter, data, upper, statsRegAddr, ctrl_mutex, pc, call, sent, got>>
    BY DEF FpgaStep, TakeMapping, LoadDmaCommand, FlushReads, FinishBenchmark, hostVars
  <1>3. Mutex' /\ CommandWords' /\ WideReads' /\ StatsWalks' /\ StatsLabelled'
    BY <1>2 DEF HostInv, Mutex, Inside, CommandWords, Writing, WideReads, Reading,
                StatsWalks, Printing, StatsLabelled
  <1> SUFFICES Runs' /\ LowerWord' /\ ResultsWhole'
    BY <1>1, <1>3 DEF HostInv
  <1>4. counter \in [WideReg -> Nat] /\ toLoad \in [{"DMA_READS", "DMA_WRITES"} -> Seq(Nat)]
    BY DEF HostInv, TypeInv, HostTypes
  <1>5. \A t \in Thread : pc[t] \in {"read", "return"} /\ Wanted(t) =>
          /\ ResultReg(call[t]) \in WideReg
          /\ IsBenchmark(call[t])
               => ResultReg(call[t]) = CyclesOf(RegOf(call[t])) /\ RegOf(call[t]) \in BenchReg
          /\ ~IsBenchmark(call[t]) => ResultReg(call[t]) = "DMA_READS"
    <2> SUFFICES ASSUME NEW t \in Thread, pc[t] \in {"read", "return"}, Wanted(t)
                 PROVE  /\ ResultReg(call[t]) \in WideReg
                        /\ IsBenchmark(call[t])
                             => /\ ResultReg(call[t]) = CyclesOf(RegOf(call[t]))
                                /\ RegOf(call[t]) \in BenchReg
                        /\ ~IsBenchmark(call[t]) => ResultReg(call[t]) = "DMA_READS"
      OBVIOUS
    <2>1. call[t] \in Calls
      BY DEF HostInv, TypeInv, HostTypes, Phases
    <2>2. First(call[t]) = "read" \/ IsBenchmark(call[t])
      BY <2>1, CallKinds DEF Wanted
    <2> QED
      BY <2>1, <2>2, ResultRegs DEF Wanted
  <1>6. CASE TakeMapping
    BY <1>2, <1>6 DEF TakeMapping, HostInv, Runs, LowerWord, ResultsWhole, Wanted
  <1>7. CASE FlushReads
    BY <1>2, <1>7 DEF FlushReads, HostInv, Runs, LowerWord, ResultsWhole, Wanted
  <1>8. ASSUME NEW reg \in {"DMA_READS", "DMA_WRITES"}, LoadDmaCommand(reg)
        PROVE  Runs' /\ LowerWord' /\ ResultsWhole'
    <2>1. /\ running' = running /\ \A r \in WideReg : r # reg => counter'[r] = counter[r]
          /\ toLoad[reg] # <<>>
          /\ reg = "DMA_WRITES"
               => dma_reads_flushed' = dma_reads_flushed
                  /\ toLoad'["DMA_READS"] = toLoad["DMA_READS"]
      <3>1. dma_reads_flushed \in BOOLEAN
        BY DEF HostInv, TypeInv, HostTypes
      <3> QED
        BY <3>1, <1>4, <1>8 DEF LoadDmaCommand
    <2>2. reg = "DMA_READS" => "DMA_BENCH" \in running
      BY <2>1 DEF HostInv, Runs
    <2>3. \A r \in BenchReg : CyclesOf(r) \in WideReg \ {"DMA_READS", "DMA_WRITES"}
      BY DEF CyclesOf, WideReg
    <2>4. Runs'
      <3>1. \A r \in running' :
              /\ counter'[CyclesOf(r)] = 0
              /\ \E t \in Thread : pc[t] = "read" /\ IsBenchmark(call[t]) /\ RegOf(call[t]) = r
        BY <2>1, <2>3 DEF HostInv, Runs, TypeInv, HostTypes
      <3>2. "DMA_BENCH" \notin running' => dma_reads_flushed' /\ toLoad'["DMA_READS"] = <<>>
        <4> SUFFICES ASSUME "DMA_BENCH" \notin running'
                     PROVE  dma_reads_flushed' /\ toLoad'["DMA_READS"] = <<>>
          OBVIOUS
        <4>1. "DMA_BENCH" \notin running /\ reg = "DMA_WRITES"
          BY <2>1, <2>2
        <4>2. dma_reads_flushed /\ toLoad["DMA_READS"] = <<>>
          BY <4>1 DEF HostInv, Runs
        <4>3. dma_reads_flushed' = dma_reads_flushed /\ toLoad'["DMA_READS"] = toLoad["DMA_READS"]
          BY <4>1, <2>1
        <4> QED
          BY <4>2, <4>3, Zenon
      <3> QED
        BY <3>1, <3>2, <1>2 DEF Runs
    <2>5. \A t \in Thread : pc[t] \in {"read", "return"} /\ Wanted(t)
                             => counter'[ResultReg(call[t])] = counter[ResultReg(call[t])]
      <3> SUFFICES ASSUME NEW t \in Thread, pc[t] \in {"read", "return"}, Wanted(t)
                   PROVE  ResultReg(call[t]) # reg
        BY <1>5, <2>1
      <3>1. CASE IsBenchmark(call[t])
        BY <3>1, <1>5, <2>3
      <3>2. CASE ~IsBenchmark(call[t])
        <4>1. \A u \in Thread : u # t => pc[u] \in {"idle", "lock"}
          BY Alone DEF HostInv, Inside
        <4>2. "DMA_BENCH" \notin running
          BY <3>2, <4>1 DEF HostInv, Runs
        <4> QED
          BY <3>2, <4>2, <2>2, <1>5
      <3> QED
        BY <3>1, <3>2
    <2> QED
      BY <2>1, <2>4, <2>5, <1>2 DEF HostInv, LowerWord, ResultsWhole, Wanted
  <1>9. ASSUME NEW reg \in BenchReg, NEW cycles \in Cycles, FinishBenchmark(reg, cycles)
        PROVE  Runs' /\ LowerWord' /\ ResultsWhole'
    <2>1. /\ reg \in running /\ running' = running \ {reg}
          /\ counter' = [counter EXCEPT ![CyclesOf(reg)] = cycles]
          /\ UNCHANGED <<toLoad, dma_reads_flushed>>
          /\ reg = "DMA_BENCH" => dma_reads_flushed /\ toLoad["DMA_READS"] = <<>>
      BY <1>9 DEF FinishBenchmark
    <2>2. \A r \in BenchReg : /\ CyclesOf(r) \in WideReg \ {"DMA_READS", "DMA_WRITES"}
                              /\ r # reg => CyclesOf(r) # CyclesOf(reg)
      BY DEF CyclesOf, WideReg, BenchReg
    <2>3. \A r \in WideReg : r # CyclesOf(reg) => counter'[r] = counter[r]
      BY <2>1, <1>4
    <2>4. Runs'
      <3>1. \A r \in running' :
              /\ counter'[CyclesOf(r)] = 0
              /\ \E t \in Thread : pc[t] = "read" /\ IsBenchmark(call[t]) /\ RegOf(call[t]) = r
        BY <2>1, <2>2, <2>3 DEF HostInv, Runs, TypeInv, HostTypes
      <3>2. "DMA_BENCH" \notin running' => dma_reads_flushed' /\ toLoad'["DMA_READS"] = <<>>
        BY <2>1 DEF HostInv, Runs
      <3> QED
        BY <3>1, <3>2, <1>2 DEF Runs
    <2>5. \A t \in Thread :
            /\ pc[t] \in {"read", "return"} /\ Wanted(t)
            /\ IsBenchmark(call[t]) => RegOf(call[t]) \notin running
            => counter'[ResultReg(call[t])] = counter[ResultReg(call[t])]
      <3> SUFFICES ASSUME NEW t \in Thread, pc[t] \in {"read", "return"}, Wanted(t),
                          IsBenchmark(call[t]) => RegOf(call[t]) \notin running
                   PROVE  ResultReg(call[t]) # CyclesOf(reg)
        BY <1>5, <2>3
      <3>1. CASE IsBenchmark(call[t])
        BY <3>1, <1>5, <2>1, <2>2
      <3>2. CASE ~IsBenchmark(call[t])
        BY <3>2, <1>5, <2>2
      <3> QED
        BY <3>1, <3>2
    <2>6. LowerWord'
      BY <2>1, <2>5, <1>2 DEF HostInv, LowerWord, Wanted
    <2>7. ResultsWhole'
      BY <2>1, <2>5, <1>2 DEF HostInv, ResultsWhole, Wanted
    <2> QED
      BY <2>4, <2>6, <2>7
  <1> QED
    BY <1>6, <1>7, <1>8, <1>9 DEF FpgaStep

LEMMA StutterInv ==
  ASSUME HostInv, UNCHANGED vars
  PROVE  HostInv'
  <1>1. TypeInv'
    BY StutterTypes DEF HostInv
  <1> QED
    BY <1>1 DEF HostInv, Mutex, Inside, CommandWords, Writing, WideReads, Reading, StatsWalks,
                Printing, Runs, LowerWord, Wanted, ResultsWhole, StatsLabelled,
                vars, fpgaVars, hostVars

LEMMA NextInv ==
  ASSUME SingleProcess
  PROVE  HostInv /\ [Next]_vars => HostInv'
  BY CallInv, LockInv, WriteInv, ResetInv, ReadInv, PrintInv, ReturnInv, FpgaInv, StutterInv
     DEF Next, HostNext, Step

-----------------------------------------------------------------------------
(* In one process, getDmaReads() and the benchmarks return the value of    *)
(* the counter, its two words read in order and of one value, and a        *)
(* benchmark returns the count of its own run, which has ended: for every  *)
(* number of threads and calls, width of a word and cycle count.           *)
THEOREM WholeResults == SingleProcess => (Spec => []ResultsWhole)
  <1> SUFFICES ASSUME SingleProcess PROVE Spec => []ResultsWhole
    OBVIOUS
  <1>1. HostInv => ResultsWhole
    BY DEF HostInv
  <1>2. HostInv /\ [Next]_vars => HostInv'
    BY NextInv
  <1> QED
    BY <1>1, <1>2, InitInv, PTL DEF Spec

(* In one process, printDmaStatsRegs() and printDdrStatsRegs() print every *)
(* statistics register under its own name, for every number of registers.  *)
THEOREM LabelledStats == SingleProcess => (Spec => []StatsLabelled)
  <1> SUFFICES ASSUME SingleProcess PROVE Spec => []StatsLabelled
    OBVIOUS
  <1>1. HostInv => StatsLabelled
    BY DEF HostInv
  <1>2. HostInv /\ [Next]_vars => HostInv'
    BY NextInv
  <1> QED
    BY <1>1, <1>2, InitInv, PTL DEF Spec

(* A step that offers a mapping to the TLB or starts a benchmark is the    *)
(* last write of a call that asked for just that.                          *)
LEMMA StepCommandsWhole ==
  ASSUME SingleProcess, HostInv, [Next]_vars, NEW reg \in CommandReg,
         IF reg = "TLB" THEN ~tlb_valid /\ tlb_valid' ELSE reg \in running' \ running
  PROVE  \E t \in Thread :
             /\ pc[t] = "write" /\ pc'[t] # "write" /\ RegOf(call[t]) = reg
             /\ Asked(call[t]) = IF reg = "TLB" THEN Mapping' ELSE Benchmark(reg)'
  <1>1. PICK t \in Thread : WriteWord(t)
    <2>1. ~UNCHANGED <<tlb_valid, running>>
      OBVIOUS
    <2>2. ~UNCHANGED vars
      BY <2>1 DEF vars, fpgaVars
    <2>3. ~FpgaStep
      BY DEF FpgaStep, TakeMapping, LoadDmaCommand, FlushReads, FinishBenchmark
    <2>4. \A t \in Thread : /\ \A c \in Calls : ~Call(t, c)
                            /\ ~Lock(t) /\ ~Reset(t) /\ ~ReadWord(t) /\ ~PrintStat(t) /\ ~Return(t)
      BY <2>1 DEF Call, Lock, Reset, ResetLength, ReadWord, ReadWide, PrintStat, ReadStats,
                  Return, fpgaVars
    <2> QED
      BY <2>2, <2>3, <2>4 DEF Next, HostNext, Step
  <1> DEFINE c == call[t]
             value == WordsOf(c)[sent[t] + 1]
  <1>2. pc[t] = "write" /\ WriteCommandWord(RegOf(c), value)
    BY <1>1 DEF WriteWord
  <1>3. c \in Calls /\ First(c) = "write" /\ sent[t] \in 0 .. 7
    BY <1>2, WritePhase DEF HostInv
  <1>4. /\ RegOf(c) \in CommandReg /\ NumWords(RegOf(c)) \in {5, 8}
        /\ IsBenchmark(c) <=> RegOf(c) \in BenchReg
        /\ Len(WordsOf(c)) = NumWords(RegOf(c))
    BY <1>3, CommandRegs, CommandLength
  <1>5. word_counter[ControllerOf(RegOf(c))] = sent[t]
    BY <1>2 DEF HostInv, CommandWords
  <1>6. RegOf(c) = reg /\ sent[t] = NumWords(reg) - 1
    <2>1. CASE reg = "TLB"
      <3>1. RegOf(c) = "TLB" /\ sent[t] = NumWords(RegOf(c)) - 1
        BY <2>1, <1>2, <1>5 DEF WriteCommandWord
      <3> QED
        BY <2>1, <3>1
    <2>2. CASE reg # "TLB"
      <3>1. /\ RegOf(c) \in BenchReg /\ sent[t] = NumWords(RegOf(c)) - 1
            /\ running' \subseteq running \union {RegOf(c)}
        BY <2>2, <1>2, <1>5 DEF WriteCommandWord
      <3> QED
        BY <2>2, <3>1
    <2> QED
      BY <2>1, <2>2
  <1>7. pc'[t] # "write" /\ sent'[t] = NumWords(reg)
    <2>1. sent'[t] = sent[t] + 1
      BY <1>1 DEF WriteWord, HostInv, TypeInv, HostTypes
    <2>2. sent'[t] = NumWords(reg)
      BY <2>1, <1>3, <1>4, <1>6
    <2>3. ~(sent'[t] < Len(WordsOf(c)))
      BY <2>2, <1>4, <1>6
    <2> QED
      BY <1>1, <2>2, <2>3 DEF WriteWord, HostInv, TypeInv, HostTypes
  <1>8. \A i \in 0 .. 7 : i < NumWords(reg) => data'[reg][i] = WordsOf(c)[i + 1]
    <2>1. /\ \A i \in 0 .. 7 : i < sent[t] => data[reg][i] = WordsOf(c)[i + 1]
      BY <1>2, <1>6 DEF HostInv, CommandWords
    <2>2. data' = [data EXCEPT ![reg][sent[t]] = value]
      <3>1. data' = [data EXCEPT ![reg][sent[t]] =
                       IF reg \in BenchReg /\ sent[t] \in {1, 3} THEN value % Half ELSE value]
        BY <1>2, <1>5, <1>6 DEF WriteCommandWord
      <3>2. ~(reg \in BenchReg /\ sent[t] \in {1, 3})
        BY <1>6 DEF NumWords, BenchReg
      <3> QED
        BY <3>1, <3>2
    <2>3. data \in [CommandReg -> [0 .. 7 -> 0 .. Word - 1]]
      BY DEF HostInv, TypeInv, HostTypes
    <2> SUFFICES ASSUME NEW i \in 0 .. 7, i < NumWords(reg) PROVE data'[reg][i] = WordsOf(c)[i + 1]
      OBVIOUS
    <2> HIDE DEF c, value
    <2>4. data'[reg][i] = IF i = sent[t] THEN value ELSE data[reg][i]
      BY <2>2, <2>3, <1>3
    <2>5. CASE i = sent[t]
      BY <2>4, <2>5 DEF value
    <2>6. CASE i < sent[t]
      BY <2>1, <2>4, <2>6, <1>3
    <2> QED
      BY <2>5, <2>6, <1>3, <1>4, <1>6
  <1> HIDE DEF value
  <1>9. \A n \in Nat : (n % Word) + Word * (n \div Word) = n
    BY Split, ControllersAssumption
  <1>10. Asked(c) = IF reg = "TLB" THEN Mapping' ELSE Benchmark(reg)'
    <2>1. CASE reg = "TLB"
      <3>1. c.name = "writeTlb"
        BY <2>1, <1>3, <1>4, <1>6, CallKinds DEF BenchReg
      <3>2. c.vaddr \in Nat /\ c.paddr \in Nat /\ c.isBase \in {0, 1}
        BY <3>1, <1>3, HostAssumption DEF TypedCalls
      <3>3. /\ data'["TLB"][0] = c.vaddr % Word /\ data'["TLB"][1] = c.vaddr \div Word
            /\ data'["TLB"][2] = c.paddr % Word /\ data'["TLB"][3] = c.paddr \div Word
            /\ data'["TLB"][4] = c.isBase
        BY <1>8, <2>1, <3>1 DEF WordsOf, NumWords
      <3> HIDE DEF c
      <3>4. c.isBase % 2 = c.isBase
        BY <3>2
      <3>5. Mapping' = [vaddr |-> c.vaddr, paddr |-> c.paddr, isBase |-> c.isBase]
        BY <1>9, <3>2, <3>3, <3>4 DEF Mapping, Wide
      <3> QED
        BY <2>1, <3>1, <3>5 DEF Asked
    <2>2. CASE reg # "TLB"
      <3>1. IsBenchmark(c) /\ c.name # "writeTlb" /\ reg \in BenchReg
        BY <2>2, <1>3, <1>4, <1>6, CallKinds DEF CommandReg
      <3>2. /\ c.base \in Nat /\ c.size \in Nat /\ c.op \in {0, 1} /\ c.dest \in 0 .. 3
            /\ c.name = "runDmaBenchmark" => c.dest = 0
        BY <3>1, <1>3, HostAssumption DEF TypedCalls, IsBenchmark
      <3>3. reg = "DMA_BENCH" <=> c.name = "runDmaBenchmark"
        BY <3>1, <1>6 DEF RegOf, IsBenchmark
      <3>4. /\ data'[reg][0] = c.base % Word /\ data'[reg][1] = c.base \div Word
            /\ data'[reg][2] = c.size % Word /\ data'[reg][3] = c.size \div Word
            /\ data'[reg][4] = c.accesses /\ data'[reg][5] = c.chunk
            /\ data'[reg][6] = c.stride /\ data'[reg][7] = c.op + 2 * c.dest
        BY <1>8, <2>2, <3>1 DEF WordsOf, NumWords
      <3> HIDE DEF c
      <3>5. (c.op + 2 * c.dest) % 2 = c.op /\ ((c.op + 2 * c.dest) \div 2) % 4 = c.dest
        BY <3>2
      <3>6. /\ data'[reg][0] + Word * data'[reg][1] = c.base
            /\ data'[reg][2] + Word * data'[reg][3] = c.size
        BY <1>9, <3>2, <3>4
      <3>7. Benchmark(reg)' =
              [base |-> c.base, size |-> c.size, accesses |-> c.accesses, chunk |-> c.chunk,
               stride |-> c.stride, op |-> c.op, dest |-> c.dest]
        BY <3>2, <3>3, <3>4, <3>5, <3>6 DEF Benchmark, Wide
      <3> QED
        BY <2>2, <3>1, <3>7 DEF Asked
    <2> QED
      BY <2>1, <2>2
  <1> QED
    BY <1>2, <1>6, <1>7, <1>10

(* The command that the FPGA executes consists of the words of one call,   *)
(* each in its place: in one process the mapping offered to the TLB and    *)
(* the benchmark started are the ones some call asked for, for every width *)
(* of a word and all arguments the fields of the command can hold.         *)
THEOREM WholeCommands == SingleProcess => (Spec => CommandsWhole)
  <1> SUFFICES ASSUME SingleProcess PROVE Spec => CommandsWhole
    OBVIOUS
  <1>1. HostInv /\ [Next]_vars => HostInv'
    BY NextInv
  <1>2. HostInv /\ [Next]_vars =>
          [\A reg \in CommandReg :
             LET fires == IF reg = "TLB" THEN ~tlb_valid /\ tlb_valid' ELSE reg \in running' \ running
             IN  fires => \E t \in Thread :
                   /\ pc[t] = "write" /\ pc'[t] # "write" /\ RegOf(call[t]) = reg
                   /\ Asked(call[t]) = IF reg = "TLB" THEN Mapping' ELSE Benchmark(reg)']_vars
    BY StepCommandsWhole
  <1> QED
    BY <1>1, <1>2, InitInv, PTL DEF Spec, CommandsWhole
=============================================================================
