---------------------------- MODULE Controllers ----------------------------
(***************************************************************************)
(* The register interfaces of the FPGA: hdl/common/dma_controller.sv, and  *)
(* hdl/common/benchmark_controller.sv with the command registers of        *)
(* hdl/common/benchmark_role.sv, and the reads of                          *)
(* hdl/common/ddr_controller.sv, one instance for each DDR channel.        *)
(*                                                                         *)
(* A command register takes a command word by word; a word counter that no *)
(* access can reset says which word comes next, and the two benchmark      *)
(* registers share one.  A wide counter is read through one address, the   *)
(* lower word and the upper word in turn, and the statistics registers     *)
(* through one address that walks over them.                               *)
(*                                                                         *)
(* The handshake states of the AXI-Lite slaves are not distinguished: one  *)
(* register access is one step.                                            *)
(***************************************************************************)
EXTENDS Integers, Sequences

CONSTANTS
  Word,      \* 2^32: number of values of a register word
  Half,      \* 2^16: what is kept of the upper word of a 48-bit field
  NumStats,  \* NUM_DMA_DEBUG_REGS and NUM_STATS_REGS, for "DMA" and each DDR channel
  Cycles     \* cycle counts a benchmark can report

StatsReg == DOMAIN NumStats

(* Words are wider than the fields of a command word and than the upper    *)
(* half of a 48-bit field, and every walk has a register to read.          *)
ASSUME ControllersAssumption ==
  /\ Word \in Nat /\ Half \in Nat /\ 1 <= Half /\ Half <= Word /\ 4 <= Word
  /\ "DMA" \in StatsReg
  /\ \A s \in StatsReg : NumStats[s] \in Nat \ {0}
  /\ Cycles \subseteq Nat

BenchReg == {"DDR_BENCH", "DMA_BENCH"}
CommandReg == {"TLB"} \union BenchReg
WideReg == {"DMA_READS", "DMA_WRITES", "DDR_BENCH_CYCLES", "DMA_BENCH_CYCLES"}

VARIABLES
  word_counter,   \* of the DMA controller and of the benchmark controller
  data,           \* words of each command register
  tlb_valid,      \* m_axis_tlb_interface_valid
  running,        \* benchmarks started and not finished
  toLoad,         \* lengths of the DMA commands of the benchmark not yet loaded
  upper,          \* which word of a wide register the next read returns
  counter,        \* contents of the wide registers
  dma_reads_flushed,
  statsRegAddr    \* debugRegAddr of the DMA controller, statsRegAddr of the others

fpgaVars == <<word_counter, data, tlb_valid, running, toLoad, upper, counter,
              dma_reads_flushed, statsRegAddr>>

FpgaInit ==
  /\ word_counter = [c \in {"dma", "bench"} |-> 0]
  /\ data = [reg \in CommandReg |-> [i \in 0 .. 7 |-> 0]]
  /\ tlb_valid = FALSE
  /\ running = {}
  /\ toLoad = [reg \in {"DMA_READS", "DMA_WRITES"} |-> <<>>]
  /\ upper = [reg \in WideReg |-> FALSE]
  /\ counter = [reg \in WideReg |-> 0]
  /\ dma_reads_flushed = TRUE
  /\ statsRegAddr = [s \in StatsReg |-> 0]

ControllerOf(reg) == IF reg = "TLB" THEN "dma" ELSE "bench"
NumWords(reg) == IF reg = "TLB" THEN 5 ELSE 8
CyclesOf(reg) == IF reg = "DDR_BENCH" THEN "DDR_BENCH_CYCLES" ELSE "DMA_BENCH_CYCLES"

(* A benchmark command on a DDR channel that does not exist starts nothing. *)
Starts(reg, lastWord) == reg = "DMA_BENCH" \/ (lastWord \div 2) % 4 \in {0, 1}

(* What the command registers hold as a command. *)
Wide(reg, i) == data[reg][i] + Word * data[reg][i + 1]
Mapping == [vaddr |-> Wide("TLB", 0), paddr |-> Wide("TLB", 2), isBase |-> data["TLB"][4] % 2]
Benchmark(reg) ==
  [base |-> Wide(reg, 0), size |-> Wide(reg, 2), accesses |-> data[reg][4],
   chunk |-> data[reg][5], stride |-> data[reg][6], op |-> data[reg][7] % 2,
   dest |-> IF reg = "DMA_BENCH" THEN 0 ELSE (data[reg][7] \div 2) % 4]

(* The length counter of a DMA benchmark and its commands. *)
LengthOf(lastWord) == IF lastWord % 2 = 1 THEN "DMA_WRITES" ELSE "DMA_READS"
DmaCommands == [i \in 1 .. data["DMA_BENCH"][4] |-> data["DMA_BENCH"][5]]

-----------------------------------------------------------------------------
(* Register accesses.  The DMA controller accepts no write while a mapping *)
(* waits for the TLB.                                                      *)

(* mutant: the counter is not reset after the last word *)
NextWordForever(reg, i) == (i + 1) % 8

NextWord(reg, i) == IF i = NumWords(reg) - 1 THEN 0 ELSE i + 1

WriteCommandWord(reg, value) ==
  LET i == word_counter[ControllerOf(reg)]
      last == i = NumWords(reg) - 1
      kept == IF reg \in BenchReg /\ i \in {1, 3} THEN value % Half ELSE value
  IN  /\ reg = "TLB" => ~tlb_valid
      /\ data' = [data EXCEPT ![reg][i] = kept]
      /\ word_counter' = [word_counter EXCEPT ![ControllerOf(reg)] = NextWord(reg, i)]
      /\ tlb_valid' = (tlb_valid \/ (reg = "TLB" /\ last))
      /\ IF reg \in BenchReg /\ last
         THEN /\ counter' = [counter EXCEPT ![CyclesOf(reg)] = 0]
              /\ running' = IF Starts(reg, value) THEN running \union {reg} ELSE running
              /\ toLoad' = IF reg = "DMA_BENCH" /\ reg \notin running
                           THEN [toLoad EXCEPT ![LengthOf(value)] = @ \o DmaCommands]
                           ELSE toLoad
         ELSE UNCHANGED <<counter, running, toLoad>>
      /\ UNCHANGED <<upper, dma_reads_flushed, statsRegAddr>>

ResetLength(reg) ==
  /\ reg \in {"DMA_READS", "DMA_WRITES"}
  /\ ~tlb_valid
  /\ counter' = [counter EXCEPT ![reg] = 0]
  /\ UNCHANGED <<word_counter, data, tlb_valid, running, toLoad, upper,
                 dma_reads_flushed, statsRegAddr>>

(* The word a read of a wide register returns.  The length of the reads is *)
(* shown only when no read is under way.                                   *)
WideWord(reg) ==
  IF reg = "DMA_READS" /\ ~dma_reads_flushed THEN 0
  ELSE IF upper[reg] THEN counter[reg] \div Word ELSE counter[reg] % Word

ReadWide(reg) ==
  /\ upper' = [upper EXCEPT ![reg] = ~@]
  /\ UNCHANGED <<word_counter, data, tlb_valid, running, toLoad, counter,
                 dma_reads_flushed, statsRegAddr>>

(* mutant: the walk goes one register too far *)
NextStatsRegTooFar(s) == (statsRegAddr[s] + 1) % (NumStats[s] + 1)

NextStatsReg(s) == (statsRegAddr[s] + 1) % NumStats[s]

ReadStats(s) ==
  /\ statsRegAddr' = [statsRegAddr EXCEPT ![s] = NextStatsReg(s)]
  /\ UNCHANGED <<word_counter, data, tlb_valid, running, toLoad, upper, counter,
                 dma_reads_flushed>>

-----------------------------------------------------------------------------
(* The blocks behind the registers. *)

TakeMapping ==
  /\ tlb_valid
  /\ tlb_valid' = FALSE
  /\ UNCHANGED <<word_counter, data, running, toLoad, upper, counter,
                 dma_reads_flushed, statsRegAddr>>

(* A DMA command is translated and counted.  A write benchmark is over     *)
(* when its data is handed to the DMA path, so its last commands may be    *)
(* counted later; the 48-bit counter wraps.                                *)
LoadDmaCommand(reg) ==
  /\ toLoad[reg] # <<>>
  /\ toLoad' = [toLoad EXCEPT ![reg] = Tail(@)]
  /\ counter' = [counter EXCEPT ![reg] = (@ + Head(toLoad[reg])) % (Word * Half)]
  /\ dma_reads_flushed' = (dma_reads_flushed /\ reg = "DMA_WRITES")
  /\ UNCHANGED <<word_counter, data, tlb_valid, running, upper, statsRegAddr>>

(* The data of all reads that were loaded is back. *)
FlushReads ==
  /\ ~dma_reads_flushed
  /\ dma_reads_flushed' = TRUE
  /\ UNCHANGED <<word_counter, data, tlb_valid, running, toLoad, upper, counter, statsRegAddr>>

FinishBenchmark(reg, cycles) ==
  /\ reg \in running
  /\ reg = "DMA_BENCH" => dma_reads_flushed /\ toLoad["DMA_READS"] = <<>>
  /\ running' = running \ {reg}
  /\ counter' = [counter EXCEPT ![CyclesOf(reg)] = cycles]
  /\ UNCHANGED <<word_counter, data, tlb_valid, toLoad, upper,
                 dma_reads_flushed, statsRegAddr>>

FpgaStep ==
  \/ TakeMapping
  \/ \E reg \in {"DMA_READS", "DMA_WRITES"} : LoadDmaCommand(reg)
  \/ FlushReads
  \/ \E reg \in BenchReg, cycles \in Cycles : FinishBenchmark(reg, cycles)
=============================================================================
