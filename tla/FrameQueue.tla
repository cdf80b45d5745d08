----------------------------- MODULE FrameQueue -----------------------------
(***************************************************************************)
(* What the transmit side of the Ethernet port, and every chain of stream  *)
(* functions, promises: what was accepted leaves in the same order, each   *)
(* frame once and whole, in the form Padded gives it.                      *)
(***************************************************************************)
EXTENDS Sequences

CONSTANTS
  Frames,     \* what can be accepted
  Padded(_),  \* the words that leave for a frame
  Nothing     \* the state of the output before the first frame

VARIABLES queue, output

Init == queue = <<>> /\ output = Nothing

Accept(f) == queue' = Append(queue, f) /\ UNCHANGED output

Send ==
  /\ queue # <<>>
  /\ output' = Padded(Head(queue))
  /\ queue' = Tail(queue)

Next == Send \/ \E f \in Frames : Accept(f)

Spec == Init /\ [][Next]_<<queue, output>>
=============================================================================
