--------------------------- MODULE MCStreamUtils ---------------------------
(***************************************************************************)
(* Words of three bytes shifted by one or by two bytes.                    *)
(***************************************************************************)
EXTENDS StreamUtils
=============================================================================
