---------------------------- MODULE TxInterface ----------------------------
(***************************************************************************)
(* hdl/ultraplus/tx_interface.v (hdl/7series/tx_interface.v has the same   *)
(* logic) behind the padding, as hdl/ultraplus/network_module.v connects   *)
(* them.  The MAC must get a frame without a gap, so that the interface    *)
(* stores it to its end: a write state machine puts one command into a     *)
(* FIFO for every frame that is complete in the data FIFO, and a read      *)
(* state machine lets the MAC have one frame per command.  The commands    *)
(* carry nothing, only their number counts.                                *)
(*                                                                         *)
(* The padding runs in net_clk, the interface in the MAC's clock: a call   *)
(* of the padding function and a cycle of the interface are two actions    *)
(* that interleave through the crossing FIFO.  pkg_push is high in PUSH    *)
(* and low in IDLE.                                                        *)
(***************************************************************************)
EXTENDS FramePadding

CONSTANTS
  FifoDepth,  \* words in axis_sync_fifo, 1024
  CmdDepth,   \* commands in cmd_fifo_xgemac_txif, 1024
  MaxFrames   \* bound on the number of frames

(* A frame must fit into the FIFO: it leaves only when it is complete. *)
ASSUME TxAssumption ==
  /\ FifoDepth \in Nat /\ MaxWords <= FifoDepth
  /\ CmdDepth \in Nat \ {0} /\ MaxFrames \in Nat

VARIABLES
  frame, pos,      \* source: frames begun and words of the current one
  state_wr, cmd_fifo_wr_en,
  dataFifo, cmdFifo,  \* words, and the number of commands
  state_rd, cmd_fifo_rd_en,
  accepted,        \* history: frames read to their end, not yet sent
  toMac,           \* history: words of the current frame the MAC has got
  sent             \* history: the last frame it has got

txVars == <<state_wr, cmd_fifo_wr_en, dataFifo, cmdFifo, state_rd, cmd_fifo_rd_en>>
vars == <<paddingVars, frame, pos, txVars, accepted, toMac, sent>>

Init ==
  /\ PaddingInit
  /\ frame = 0 /\ pos = 0
  /\ state_wr = "IDLE" /\ cmd_fifo_wr_en = FALSE
  /\ dataFifo = <<>> /\ cmdFifo = 0
  /\ state_rd = "IDLE" /\ cmd_fifo_rd_en = FALSE
  /\ accepted = <<>> /\ toMac = <<>> /\ sent = <<>>

-----------------------------------------------------------------------------
(* The word that s_axis_0 can present: the frame goes on, or ends here. *)
SourceWords ==
  LET f == IF pos = 0 THEN frame + 1 ELSE frame
      word(last, keep) == [frame |-> f, pos |-> pos + 1, last |-> last, keep |-> keep]
  IN  IF f > MaxFrames THEN {}
      ELSE {word(TRUE, k) : k \in 1 .. WordBytes}
           \union (IF pos + 1 < MaxWords THEN {word(FALSE, WordBytes)} ELSE {})

PadWord(w) ==
  /\ Forward(w)
  /\ frame' = w.frame
  /\ pos' = IF w.last THEN 0 ELSE w.pos
  /\ accepted' = IF w.last THEN Append(accepted, w) ELSE accepted
  /\ UNCHANGED <<txVars, toMac, sent>>

PadFill ==
  /\ Fill(frame)
  /\ UNCHANGED <<frame, pos, txVars, accepted, toMac, sent>>

-----------------------------------------------------------------------------
cmd_fifo_full == cmdFifo = CmdDepth

cmd_fifo_emptyOfData == dataFifo = <<>>  \* mutant: starts with the first word
cmd_fifo_empty == cmdFifo = 0

axi_str_tready_to_fifo == ~cmd_fifo_full /\ Len(dataFifo) < FifoDepth
axis_wr_tvalid == tx_crossing # <<>> /\ axi_str_tready_to_fifo

WriteFsm ==
  \/ /\ state_wr = "IDLE"
     /\ cmd_fifo_wr_en' = FALSE
     /\ state_wr' = IF axis_wr_tvalid THEN "LOAD" ELSE "IDLE"
  \/ /\ state_wr = "LOAD"
     /\ LET end == axis_wr_tvalid /\ Head(tx_crossing).last
        IN  /\ cmd_fifo_wr_en' = end
            /\ state_wr' = IF end THEN "IDLE" ELSE "LOAD"

pkg_push == state_rd = "PUSH"
axis_rd_tvalid == dataFifo # <<>>
axis_rd(ready) == axis_rd_tvalid /\ pkg_push /\ ready

ReadFsm(ready) ==
  \/ /\ state_rd = "IDLE"
     /\ cmd_fifo_rd_en' = ~cmd_fifo_empty
     /\ state_rd' = IF cmd_fifo_empty THEN "IDLE" ELSE "PUSH"
  \/ /\ state_rd = "PUSH"
     /\ cmd_fifo_rd_en' = FALSE
     /\ state_rd' = IF axis_rd(ready) /\ Head(dataFifo).last THEN "IDLE" ELSE "PUSH"

(* The FIFOs: a full one loses a command, an empty one gives none. *)
Fifos(ready) ==
  /\ dataFifo' = (IF axis_rd(ready) THEN Tail(dataFifo) ELSE dataFifo)
                 \o (IF axis_wr_tvalid THEN <<Head(tx_crossing)>> ELSE <<>>)
  /\ tx_crossing' = IF axis_wr_tvalid THEN Tail(tx_crossing) ELSE tx_crossing
  /\ cmdFifo' = cmdFifo + (IF cmd_fifo_wr_en /\ ~cmd_fifo_full THEN 1 ELSE 0)
                        - (IF cmd_fifo_rd_en /\ ~cmd_fifo_empty THEN 1 ELSE 0)

(* What the MAC gets. *)
Mac(ready) ==
  LET got == Append(toMac, Head(dataFifo))
  IN  IF ~axis_rd(ready) THEN UNCHANGED <<toMac, sent, accepted>>
      ELSE IF Head(dataFifo).last
           THEN toMac' = <<>> /\ sent' = got /\ accepted' = Tail(accepted)
           ELSE toMac' = got /\ UNCHANGED <<sent, accepted>>

Clock(ready) ==
  /\ WriteFsm /\ ReadFsm(ready) /\ Fifos(ready) /\ Mac(ready)
  /\ UNCHANGED <<state, wordCounter, frame, pos>>

Next ==
  \/ \E w \in SourceWords : PadWord(w)
  \/ PadFill
  \/ \E ready \in BOOLEAN : Clock(ready)

(* Padding is a free-running kernel, the MAC's clock runs, and the MAC is  *)
(* ready again and again.                                                  *)
Spec == Init /\ [][Next]_vars /\ WF_vars(PadFill) /\ WF_vars(Clock(TRUE))

-----------------------------------------------------------------------------
(* The frame whose last word is w, as the comment in network_module.v      *)
(* wants it: at least MinWords words, of which the MinWords-th has no      *)
(* fewer than MinLastBytes valid bytes; longer frames are left alone.      *)
PaddedFrame(w) ==
  LET n == IF w.pos < MinWords THEN MinWords ELSE w.pos
      lastKeep == IF w.pos > MinWords \/ (w.pos = MinWords /\ w.keep >= MinLastBytes)
                  THEN w.keep ELSE MinLastBytes
  IN  [i \in 1 .. n |-> [frame |-> w.frame, pos |-> IF i <= w.pos THEN i ELSE 0,
                         last |-> i = n, keep |-> IF i = n THEN lastKeep ELSE WordBytes]]

LastWords == [frame : 1 .. MaxFrames, pos : 1 .. MaxWords, last : {TRUE}, keep : 1 .. WordBytes]

Queue == INSTANCE FrameQueue WITH Frames <- LastWords, Padded <- PaddedFrame, Nothing <- <<>>,
                                  queue <- accepted, output <- sent

(* The port is a queue: the MAC gets every accepted frame once, in order,  *)
(* padded and otherwise as it was, although frames and commands are        *)
(* matched by number only and a frame of one word would get no command.    *)
FramesInOrder == Queue!Spec

(* Once the MAC has the first word of a frame the next one is there in     *)
(* every cycle in which it is ready.                                       *)
NoUnderrun == toMac # <<>> => pkg_push /\ axis_rd_tvalid

(* Every accepted frame is sent. *)
FramesLeave ==
  \A f \in 1 .. MaxFrames :
    (accepted # <<>> /\ accepted[Len(accepted)].frame = f) ~> (sent # <<>> /\ sent[1].frame = f)
=============================================================================
