-------------------------- MODULE MCMemoryManager --------------------------
(***************************************************************************)
(* Two threads on a buffer of three allocation granules of two cells: the  *)
(* buffer can be split into three chunks, and a request of 3 cells rounds  *)
(* up to two granules.                                                     *)
(***************************************************************************)
EXTENDS MemoryManager
=============================================================================
