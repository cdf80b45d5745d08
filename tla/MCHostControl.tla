-------------------------- MODULE MCHostControl --------------------------
(***************************************************************************)
(* Two threads of one process.  A register word has four values, so that   *)
(* every address and size needs both of its words and the length counters  *)
(* carry into the upper word.                                              *)
(***************************************************************************)
EXTENDS HostControl

OneProcess == [t \in Thread |-> "p"]

Map(v, p, b) == [name |-> "writeTlb", vaddr |-> v, paddr |-> p, isBase |-> b]
Bench(n, b, o, d) == [name |-> n, base |-> b, size |-> 7, accesses |-> 2, chunk |-> 3,
                      stride |-> 1, op |-> o, dest |-> d]

AllCalls ==
  {Map(5, 14, 1), Map(9, 3, 0),
   Bench("runDmaBenchmark", 5, 1, 0), Bench("runDmaBenchmark", 6, 0, 0),
   Bench("runDramBenchmark", 2, 1, 1)}
  \union {[name |-> n] : n \in {"resetDmaReads", "resetDmaWrites", "getDmaReads",
                                "getDmaWrites", "printDmaStatsRegs"}}
  \union {[name |-> "printDdrStatsRegs", channel |-> "DDR0"]}

TwoWalks == [s \in {"DMA", "DDR0"} |-> IF s = "DMA" THEN 3 ELSE 2]

=============================================================================
