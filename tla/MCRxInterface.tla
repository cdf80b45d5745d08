--------------------------- MODULE MCRxInterface ---------------------------
(***************************************************************************)
(* Frames of three or four words and a FIFO that holds two of them above   *)
(* the threshold, so that frames are truncated, dropped and taken again.   *)
(***************************************************************************)
EXTENDS RxInterface
=============================================================================
