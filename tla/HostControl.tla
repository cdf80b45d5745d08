---------------------------- MODULE HostControl ----------------------------
(***************************************************************************)
(* The host's side of the registers (sw/src/fpga/FpgaController.cpp).  A   *)
(* call takes ctrl_mutex, writes the words of its command or reads the     *)
(* words of its result one register access at a time, and returns.  The    *)
(* benchmarks keep the mutex until the FPGA reports a cycle count.         *)
(*                                                                         *)
(* ctrl_mutex is a static member: one per process.  A register write is    *)
(* posted, so writeTlb() may return before the TLB has taken the mapping.  *)
(***************************************************************************)
EXTENDS Controllers

CONSTANTS
  Thread,     \* threads that call the controller
  ProcessOf,  \* the process of each thread
  Calls,      \* the calls the threads make, with their arguments
  MaxCalls,   \* bound on the number of calls
  Nobody      \* owner of a free mutex

(* The arguments have the types of the functions' parameters.  The         *)
(* addresses and sizes of a benchmark have 48 bits, as the addresses of    *)
(* user space do, and its last word holds its direction and its channel.   *)
TypedCalls ==
  [name : {"writeTlb"}, vaddr : 0 .. Word * Word - 1, paddr : 0 .. Word * Word - 1,
   isBase : {0, 1}]
  \union {c \in [name : {"runDmaBenchmark", "runDramBenchmark"}, base : 0 .. Word * Half - 1,
                 size : 0 .. Word * Half - 1, accesses : 0 .. Word - 1, chunk : 0 .. Word - 1,
                 stride : 0 .. Word - 1, op : {0, 1}, dest : 0 .. 3] :
            /\ c.op + 2 * c.dest < Word
            /\ c.name = "runDmaBenchmark" => c.dest = 0}
  \union [name : {"resetDmaReads", "resetDmaWrites", "getDmaReads", "getDmaWrites",
                  "printDmaStatsRegs"}]
  \union [name : {"printDdrStatsRegs"}, channel : StatsReg \ {"DMA"}]

ASSUME HostAssumption == Calls \subseteq TypedCalls /\ Nobody \notin Thread

VARIABLES
  ctrl_mutex,  \* of each process
  pc,          \* where each thread is
  call,        \* the call it executes
  sent,        \* number of command words written
  got,         \* words read, or for the statistics the registers read
  calls        \* number of calls made

hostVars == <<ctrl_mutex, pc, call, sent, got, calls>>
vars == <<fpgaVars, hostVars>>

NoCall == [name |-> "none"]

Init ==
  /\ FpgaInit
  /\ ctrl_mutex = [p \in {ProcessOf[t] : t \in Thread} |-> Nobody]
  /\ pc = [t \in Thread |-> "idle"]
  /\ call = [t \in Thread |-> NoCall]
  /\ sent = [t \in Thread |-> 0]
  /\ got = [t \in Thread |-> <<>>]
  /\ calls = 0

(* The command register of a call and the words it writes to it. *)
RegOf(c) == CASE c.name = "writeTlb" -> "TLB"
              [] c.name = "runDmaBenchmark" -> "DMA_BENCH"
              [] c.name = "runDramBenchmark" -> "DDR_BENCH"

WordsOf(c) ==
  IF c.name = "writeTlb"
  THEN <<c.vaddr % Word, c.vaddr \div Word, c.paddr % Word, c.paddr \div Word, c.isBase>>
  ELSE <<c.base % Word, c.base \div Word, c.size % Word, c.size \div Word,
         c.accesses, c.chunk, c.stride, c.op + 2 * c.dest>>

IsBenchmark(c) == c.name \in {"runDmaBenchmark", "runDramBenchmark"}

(* The register a call reads its result from. *)
ResultReg(c) == CASE c.name = "getDmaReads" -> "DMA_READS"
                  [] c.name = "getDmaWrites" -> "DMA_WRITES"
                  [] IsBenchmark(c) -> CyclesOf(RegOf(c))

First(c) == CASE c.name = "writeTlb" \/ IsBenchmark(c) -> "write"
              [] c.name \in {"resetDmaReads", "resetDmaWrites"} -> "reset"
              [] c.name \in {"getDmaReads", "getDmaWrites"} -> "read"
              [] c.name \in {"printDmaStatsRegs", "printDdrStatsRegs"} -> "stats"

StatsOf(c) == IF c.name = "printDmaStatsRegs" THEN "DMA" ELSE c.channel

-----------------------------------------------------------------------------
Call(t, c) ==
  /\ pc[t] = "idle"
  /\ calls < MaxCalls
  /\ calls' = calls + 1
  /\ call' = [call EXCEPT ![t] = c]
  /\ pc' = [pc EXCEPT ![t] = "lock"]
  /\ UNCHANGED <<fpgaVars, ctrl_mutex, sent, got>>

(* mutant: the mutex is not waited for *)
LockAnyway(t) ==
  /\ pc[t] = "lock"
  /\ ctrl_mutex' = [ctrl_mutex EXCEPT ![ProcessOf[t]] = t]
  /\ pc' = [pc EXCEPT ![t] = First(call[t])]
  /\ UNCHANGED <<fpgaVars, call, sent, got, calls>>

Lock(t) ==
  /\ pc[t] = "lock"
  /\ ctrl_mutex[ProcessOf[t]] = Nobody
  /\ ctrl_mutex' = [ctrl_mutex EXCEPT ![ProcessOf[t]] = t]
  /\ pc' = [pc EXCEPT ![t] = First(call[t])]
  /\ UNCHANGED <<fpgaVars, call, sent, got, calls>>

(* writeTlb and the benchmarks: one word of the command. *)
WriteWord(t) ==
  /\ pc[t] = "write"
  /\ WriteCommandWord(RegOf(call[t]), WordsOf(call[t])[sent[t] + 1])
  /\ sent' = [sent EXCEPT ![t] = @ + 1]
  /\ pc' = [pc EXCEPT ![t] = IF sent'[t] < Len(WordsOf(call[t])) THEN "write"
                             ELSE IF IsBenchmark(call[t]) THEN "read" ELSE "return"]
  /\ UNCHANGED <<ctrl_mutex, call, got, calls>>

Reset(t) ==
  /\ pc[t] = "reset"
  /\ ResetLength(IF call[t].name = "resetDmaReads" THEN "DMA_READS" ELSE "DMA_WRITES")
  /\ pc' = [pc EXCEPT ![t] = "return"]
  /\ UNCHANGED <<ctrl_mutex, call, sent, got, calls>>

(* mutant: the loop ends on any answer *)
PollOnce(t) == FALSE

(* A benchmark polls again as long as the lower word is 0. *)
PollAgain(t) == IsBenchmark(call[t]) /\ got'[t][1] = 0

(* The lower word, then the upper word. *)
ReadWord(t) ==
  /\ pc[t] = "read"
  /\ ReadWide(ResultReg(call[t]))
  /\ LET words == IF Len(got[t]) = 2 THEN <<>> ELSE got[t]
     IN  got' = [got EXCEPT ![t] = Append(words, WideWord(ResultReg(call[t])))]
  /\ pc' = [pc EXCEPT ![t] = IF Len(got'[t]) < 2 \/ PollAgain(t) THEN "read" ELSE "return"]
  /\ UNCHANGED <<ctrl_mutex, call, sent, calls>>

(* printDmaStatsRegs, printDdrStatsRegs: the i-th word read is printed     *)
(* under the i-th name.                                                    *)
PrintStat(t) ==
  LET s == StatsOf(call[t])
  IN  /\ pc[t] = "stats"
      /\ ReadStats(s)
      /\ got' = [got EXCEPT ![t] = Append(@, statsRegAddr[s])]
      /\ pc' = [pc EXCEPT ![t] = IF Len(got'[t]) < NumStats[s] THEN "stats" ELSE "return"]
      /\ UNCHANGED <<ctrl_mutex, call, sent, calls>>

(* mutant: the mutex is kept *)
ReturnLocked(t) ==
  /\ pc[t] = "return"
  /\ pc' = [pc EXCEPT ![t] = "idle"]
  /\ call' = [call EXCEPT ![t] = NoCall]
  /\ sent' = [sent EXCEPT ![t] = 0]
  /\ got' = [got EXCEPT ![t] = <<>>]
  /\ UNCHANGED <<fpgaVars, ctrl_mutex, calls>>

Return(t) ==
  /\ pc[t] = "return"
  /\ ctrl_mutex' = [ctrl_mutex EXCEPT ![ProcessOf[t]] = Nobody]
  /\ pc' = [pc EXCEPT ![t] = "idle"]
  /\ call' = [call EXCEPT ![t] = NoCall]
  /\ sent' = [sent EXCEPT ![t] = 0]
  /\ got' = [got EXCEPT ![t] = <<>>]
  /\ UNCHANGED <<fpgaVars, calls>>

Step(t) ==
  \/ Lock(t) \/ WriteWord(t) \/ Reset(t) \/ ReadWord(t) \/ PrintStat(t) \/ Return(t)

HostNext == \E t \in Thread : (\E c \in Calls : Call(t, c)) \/ Step(t)

Next == HostNext \/ (FpgaStep /\ UNCHANGED hostVars)

Spec == Init /\ [][Next]_vars

(* Threads in a call run on, a waiter gets the mutex in the end, and the   *)
(* FPGA takes mappings, loads commands, finishes reads and benchmarks.     *)
FairSpec ==
  /\ Spec
  /\ \A t \in Thread : WF_vars(Step(t)) /\ SF_vars(Lock(t))
  /\ WF_vars(TakeMapping /\ UNCHANGED hostVars)
  /\ \A reg \in {"DMA_READS", "DMA_WRITES"} : WF_vars(LoadDmaCommand(reg) /\ UNCHANGED hostVars)
  /\ WF_vars(FlushReads /\ UNCHANGED hostVars)
  /\ \A reg \in BenchReg :
       WF_vars(\E cycles \in Cycles : FinishBenchmark(reg, cycles) /\ UNCHANGED hostVars)

-----------------------------------------------------------------------------
(* A process is killed: its threads and its mutex are gone, the registers  *)
(* stay as they are.                                                       *)
Crash(p) ==
  /\ ctrl_mutex' = [ctrl_mutex EXCEPT ![p] = Nobody]
  /\ pc' = [t \in Thread |-> IF ProcessOf[t] = p THEN "idle" ELSE pc[t]]
  /\ call' = [t \in Thread |-> IF ProcessOf[t] = p THEN NoCall ELSE call[t]]
  /\ sent' = [t \in Thread |-> IF ProcessOf[t] = p THEN 0 ELSE sent[t]]
  /\ got' = [t \in Thread |-> IF ProcessOf[t] = p THEN <<>> ELSE got[t]]
  /\ UNCHANGED <<fpgaVars, calls>>

CrashSpec ==
  Init /\ [][Next \/ \E p \in {ProcessOf[t] : t \in Thread} : Crash(p)]_vars

-----------------------------------------------------------------------------
(* Type invariant. *)
TypeOK ==
  /\ word_counter \in [{"dma", "bench"} -> 0 .. 7]
  /\ \A reg \in CommandReg : data[reg] \in [0 .. 7 -> 0 .. Word - 1]
  /\ tlb_valid \in BOOLEAN /\ running \subseteq BenchReg
  /\ upper \in [WideReg -> BOOLEAN] /\ \A reg \in WideReg : counter[reg] \in Nat
  /\ dma_reads_flushed \in BOOLEAN
  /\ DOMAIN statsRegAddr = StatsReg
  /\ \A s \in StatsReg : statsRegAddr[s] \in 0 .. NumStats[s] - 1
  /\ pc \in [Thread -> {"idle", "lock", "write", "reset", "read", "stats", "return"}]
  /\ \A t \in Thread : sent[t] \in 0 .. 8

(* What a call asks the FPGA to do. *)
Asked(c) ==
  IF c.name = "writeTlb" THEN [vaddr |-> c.vaddr, paddr |-> c.paddr, isBase |-> c.isBase]
  ELSE [base |-> c.base, size |-> c.size, accesses |-> c.accesses, chunk |-> c.chunk,
        stride |-> c.stride, op |-> c.op, dest |-> c.dest]

(* The FPGA executes whole commands: the mapping the TLB is offered and    *)
(* the benchmark that is started consist of the words of one call, each in *)
(* its place, although the word counters know nothing of calls.            *)
CommandsWhole ==
  [][\A reg \in CommandReg :
       LET fires == IF reg = "TLB" THEN ~tlb_valid /\ tlb_valid' ELSE reg \in running' \ running
       IN  fires => \E t \in Thread :
             /\ pc[t] = "write" /\ pc'[t] # "write" /\ RegOf(call[t]) = reg
             /\ Asked(call[t]) = IF reg = "TLB" THEN Mapping' ELSE Benchmark(reg)']_vars

(* A call that reads a wide register returns its value: the two words were *)
(* read in the right order and belong to the same value.  For a benchmark  *)
(* it is the count of its own run, which has ended.  getDmaWrites() cannot *)
(* promise as much: commands of a write benchmark that is over may still   *)
(* be counted between its two reads.                                       *)
ResultsWhole ==
  \A t \in Thread :
    pc[t] = "return" /\ (IsBenchmark(call[t]) \/ call[t].name = "getDmaReads")
      => /\ got[t][1] + Word * got[t][2] = counter[ResultReg(call[t])]
         /\ IsBenchmark(call[t]) => RegOf(call[t]) \notin running /\ got[t] # <<0, 0>>

(* printDmaStatsRegs() and printDdrStatsRegs() print each register under   *)
(* its own name: the i-th access reads the i-th register.                  *)
StatsLabelled ==
  \A t \in Thread : call[t].name \in {"printDmaStatsRegs", "printDdrStatsRegs"} =>
    \A i \in DOMAIN got[t] : got[t][i] = i - 1

(* A benchmark that polls although its run is over, or was never started,  *)
(* because the lower word of the reported count is 0.                      *)
PollsForNothing(t) ==
  /\ pc[t] = "read" /\ IsBenchmark(call[t])
  /\ RegOf(call[t]) \notin running /\ counter[ResultReg(call[t])] % Word = 0

(* Every call returns, unless a benchmark of its process has a cycle count *)
(* that is a multiple of 2^32 (0 on a channel that does not exist): the    *)
(* loop takes the lower word alone for an answer, so this benchmark polls  *)
(* for ever and keeps the mutex that the others wait for.  With any other  *)
(* count a benchmark is waited for, and nobody waits for the mutex for     *)
(* ever.                                                                   *)
CallsReturn ==
  \A t \in Thread :
    pc[t] # "idle" ~> \/ pc[t] = "idle"
                      \/ \E u \in Thread : ProcessOf[u] = ProcessOf[t] /\ PollsForNothing(u)
=============================================================================
