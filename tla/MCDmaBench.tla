----------------------------- MODULE MCDmaBench -----------------------------
(***************************************************************************)
(* Words of two bytes.  The buffers hold two accesses and a part of a      *)
(* third, so that the addresses wrap; the accesses fill one word, one and  *)
(* a half or two.                                                          *)
(***************************************************************************)
EXTENDS DmaBench

Registers(n, size, chunk, stride, w) ==
  [regBaseAddr |-> 4, memorySize |-> size, numberOfAccesses |-> n, chunkLength |-> chunk,
   strideLength |-> stride, isWrite |-> w]

SmallRuns == {Registers(n, 5, chunk, stride, w) :
                n \in {1, 3}, chunk \in {2, 3}, stride \in {0, 1}, w \in BOOLEAN}
             \union {Registers(2, 4, 4, 0, w) : w \in BOOLEAN}
=============================================================================
