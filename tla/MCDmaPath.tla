----------------------------- MODULE MCDmaPath -----------------------------
(***************************************************************************)
(* Buffers whose pages are swapped in physical memory, so that a command   *)
(* that crosses a page shows in memory, and, for the host that maps a      *)
(* smaller buffer after a larger one, a buffer of one page.                *)
(***************************************************************************)
EXTENDS DmaPath

TwoPages == {<<8, 0>>}
TwoPagesOrOne == {<<4, 0>>, <<8>>}
=============================================================================
