--------------------------- MODULE MCTxInterface ---------------------------
(***************************************************************************)
(* Words of three bytes and frames of one to four words, padded to three   *)
(* words; one command fills the command FIFO.                              *)
(***************************************************************************)
EXTENDS TxInterface
=============================================================================
