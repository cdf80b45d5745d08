--------------------------- MODULE MCXdmaSession ---------------------------
(***************************************************************************)
(* Two programs and a buffer of two huge pages of two pages each, mapped   *)
(* at addresses that overlap or do not; the second address passes from one *)
(* value of the upper word to the next inside the buffer.  All pages can   *)
(* be pinned, or a part of the first huge page.                            *)
(***************************************************************************)
EXTENDS XdmaSession, TLC

Symmetry == Permutations(Process)
=============================================================================
