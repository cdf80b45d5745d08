---------------------------- MODULE RxInterface ----------------------------
(***************************************************************************)
(* The receive side of the Ethernet port, hdl/7series/rx_interface.v and   *)
(* hdl/ultraplus/rx_interface.v.  The MAC hands over a word in any clock   *)
(* cycle and cannot be held up.  A write state machine stores the words in *)
(* a data FIFO and, at the end of each packet, puts a command into a       *)
(* second FIFO that says whether the packet is good; a read state machine  *)
(* takes a command and then hands its packet on, or throws it away.  The   *)
(* two only agree on what belongs together by counting packets.            *)
(*                                                                         *)
(* One step is one cycle of user_clk: every register takes its next value  *)
(* from the registers and inputs of this cycle.  The two versions of the   *)
(* file differ in the polarity of the MAC's tuser and of crc_pass, which   *)
(* is TuserGood.  The length in the command, the statistics and            *)
(* rx_fifo_overflow are connected to nothing and left out.                 *)
(***************************************************************************)
EXTENDS Integers, Sequences

CONSTANTS
  FifoDepth,    \* words in axis_sync_fifo, 1024
  THRESHOLD, THRESHOLD_EXT,  \* 200 and 400 words of free space
  CmdDepth,     \* commands in cmd_fifo_xgemac_rxif, 1024
  MinWords, MaxWords,  \* length of the frames that pass the MAC, 6 to 192 words
  TuserGood,    \* tuser of a good frame: TRUE in 7series, FALSE in ultraplus
  MaxFrames     \* bound on the number of frames that arrive

(* A frame of fewer words ends before the write FSM looks for its end; a   *)
(* stored packet has two words at least, for which there is always a       *)
(* command; and two more words arrive before the force that ends a packet  *)
(* takes effect.                                                           *)
ASSUME RxAssumption ==
  /\ FifoDepth \in Nat /\ CmdDepth \in Nat /\ MaxFrames \in Nat
  /\ MinWords \in Nat /\ MaxWords \in Nat /\ MinWords >= 3
  /\ THRESHOLD \in 3 .. FifoDepth /\ THRESHOLD_EXT \in THRESHOLD .. FifoDepth
  /\ 2 * CmdDepth >= FifoDepth
  /\ TuserGood \in BOOLEAN

VARIABLES
  frame, pos, good,    \* MAC: frames begun, words of the current one, whether it is good
  axi_r,               \* the word of the last cycle
  force_tlast_to_fifo,
  state_wr, wr_en, cmd_in,
  dataFifo, cmdFifo,
  state_rd, cmd_out,
  handed               \* history: the word handed on last

macVars == <<frame, pos, good>>
vars == <<macVars, axi_r, force_tlast_to_fifo, state_wr, wr_en, cmd_in, dataFifo, cmdFifo,
          state_rd, cmd_out, handed>>

(* A word names its frame and its place in it; last is tlast, eof says     *)
(* that the MAC ended the frame here.                                      *)
NoWord == [valid |-> FALSE, frame |-> 0, pos |-> 0, last |-> FALSE, eof |-> FALSE,
           good |-> FALSE]

(* What the MAC can present in this cycle: nothing, the first word of a    *)
(* frame, or the next one.  A frame may have gaps.                         *)
MacWord(f, p, end, g) ==
  [valid |-> TRUE, frame |-> f, pos |-> p, last |-> end, eof |-> end, good |-> g]

MacWords ==
  {NoWord} \union
  IF pos = 0 THEN {MacWord(frame + 1, 1, FALSE, g) : g \in IF frame < MaxFrames THEN BOOLEAN
                                                                             ELSE {}}
  ELSE {MacWord(frame, pos + 1, end, good) :
          end \in {e \in BOOLEAN : /\ e => pos + 1 >= MinWords
                                   /\ pos + 1 = MaxWords => e}}

Tuser(w) == IF w.good THEN TuserGood ELSE ~TuserGood

Init ==
  /\ frame = 0 /\ pos = 0 /\ good = FALSE
  /\ axi_r = NoWord
  /\ force_tlast_to_fifo = FALSE
  /\ state_wr = "IDLE_WR" /\ wr_en = FALSE
  /\ cmd_in = [valid |-> FALSE, crc |-> FALSE]
  /\ dataFifo = <<>> /\ cmdFifo = <<>>
  /\ state_rd = "IDLE_RD" /\ cmd_out = [valid |-> FALSE, crc |-> FALSE]
  /\ handed = [NoWord EXCEPT !.last = TRUE, !.eof = TRUE]

-----------------------------------------------------------------------------
left_over_space_in_fifo == FifoDepth - Len(dataFifo)

wr_reached_threshold        == left_over_space_in_fifo < THRESHOLD
wr_reached_threshold_extend == left_over_space_in_fifo < THRESHOLD_EXT

axis_wr_tvalid ==
  /\ state_wr # "DROP_FRAME"
  /\ axi_r.valid \/ (force_tlast_to_fifo /\ state_wr = "BEGIN_WRITE")

axis_wr_word == [axi_r EXCEPT !.last = @ \/ force_tlast_to_fifo]

ForceTlast(w) ==
  force_tlast_to_fifo' = (~force_tlast_to_fifo /\ wr_reached_threshold /\ ~(w.last /\ w.valid))

full == Len(cmdFifo) = CmdDepth

(* mutant: a frame is begun however little space there is *)
IdleWrUnchecked(w) ==
  /\ state_wr = "IDLE_WR"
  /\ wr_en' = FALSE
  /\ cmd_in' = [valid |-> FALSE, crc |-> FALSE]
  /\ state_wr' = IF w.valid THEN "DA_DECODE" ELSE "IDLE_WR"

IdleWr(w) ==
  /\ state_wr = "IDLE_WR"
  /\ wr_en' = FALSE
  /\ cmd_in' = [valid |-> FALSE, crc |-> FALSE]
  /\ state_wr' = IF ~w.valid THEN "IDLE_WR"
                 ELSE IF full \/ wr_reached_threshold THEN "DROP_FRAME" ELSE "DA_DECODE"

(* The destination address is not decoded any more. *)
DaDecode ==
  /\ state_wr = "DA_DECODE"
  /\ wr_en' = FALSE
  /\ cmd_in' = [cmd_in EXCEPT !.valid = TRUE]
  /\ state_wr' = "BEGIN_WRITE"

(* mutant: no command for a frame with a wrong checksum *)
BeginWriteGoodOnly(w) ==
  /\ state_wr = "BEGIN_WRITE"
  /\ wr_en' = (force_tlast_to_fifo \/ (w.last /\ w.valid /\ w.good))
  /\ cmd_in' = [cmd_in EXCEPT !.crc = ~force_tlast_to_fifo /\ w.last /\ w.valid /\ Tuser(w)]
  /\ state_wr' = IF force_tlast_to_fifo THEN "DROP_FRAME"
                 ELSE IF w.last /\ w.valid THEN "IDLE_WR" ELSE "BEGIN_WRITE"

(* A packet ends because the space does, or with the frame. *)
BeginWrite(w) ==
  /\ state_wr = "BEGIN_WRITE"
  /\ wr_en' = (force_tlast_to_fifo \/ (w.last /\ w.valid))
  /\ cmd_in' = [cmd_in EXCEPT !.crc = ~force_tlast_to_fifo /\ w.last /\ w.valid /\ Tuser(w)]
  /\ state_wr' = IF force_tlast_to_fifo THEN "DROP_FRAME"
                 ELSE IF w.last /\ w.valid THEN "IDLE_WR" ELSE "BEGIN_WRITE"

(* Left with the last word of a frame only, if there is much space. *)
DropFrame(w) ==
  /\ state_wr = "DROP_FRAME"
  /\ wr_en' = FALSE
  /\ state_wr' = IF axi_r.last /\ axi_r.valid /\ ~wr_reached_threshold_extend
                 THEN IF w.valid THEN "DA_DECODE" ELSE "IDLE_WR"
                 ELSE "DROP_FRAME"
  /\ UNCHANGED cmd_in

-----------------------------------------------------------------------------
empty == cmdFifo = <<>>
crc_pass == cmd_out.crc = TuserGood
Passing == cmd_out.valid /\ crc_pass

Reading == state_rd \in {"PREP_READ_2", "BEGIN_READ"}
axis_rd_tvalid == dataFifo # <<>>
axis_rd_tready(ready) == Reading /\ (Passing => ready)
axis_rd_tlast == axis_rd_tvalid /\ Head(dataFifo).last

(* mutant: waits for the last word that is handed on *)
ReadFsmToHandedOn(ready) ==
  state_rd' =
    CASE state_rd = "IDLE_RD"     -> IF ready /\ ~empty THEN "PREP_READ_1" ELSE "IDLE_RD"
      [] state_rd = "PREP_READ_1" -> "PREP_READ_2"
      [] state_rd = "PREP_READ_2" -> "BEGIN_READ"
      [] state_rd = "BEGIN_READ"  ->
           IF axis_rd_tlast /\ Passing /\ ready THEN "IDLE_RD" ELSE "BEGIN_READ"

ReadFsm(ready) ==
  state_rd' =
    CASE state_rd = "IDLE_RD"     -> IF ready /\ ~empty THEN "PREP_READ_1" ELSE "IDLE_RD"
      [] state_rd = "PREP_READ_1" -> "PREP_READ_2"
      [] state_rd = "PREP_READ_2" -> "BEGIN_READ"
      [] state_rd = "BEGIN_READ"  ->
           IF axis_rd_tlast /\ axis_rd_tready(ready) THEN "IDLE_RD" ELSE "BEGIN_READ"

(* The packet FIFO behind takes a word that is valid when it is ready. *)
HandOn(ready) ==
  handed' = IF Reading /\ Passing /\ ready /\ axis_rd_tvalid THEN Head(dataFifo) ELSE handed

(* The two FIFOs.  Nobody looks at the tready of the data FIFO: a word     *)
(* that finds it full is lost, and so is a command.  rd_en is high in      *)
(* PREP_READ_1 only.                                                       *)
DataFifo(ready) ==
  dataFifo' = (IF axis_rd_tvalid /\ axis_rd_tready(ready) THEN Tail(dataFifo) ELSE dataFifo)
              \o (IF axis_wr_tvalid /\ left_over_space_in_fifo > 0 THEN <<axis_wr_word>>
                                                                  ELSE <<>>)

CmdFifo ==
  LET rd == state_rd = "PREP_READ_1" /\ ~empty
  IN  /\ cmdFifo' = (IF rd THEN Tail(cmdFifo) ELSE cmdFifo)
                    \o (IF wr_en /\ ~full THEN <<cmd_in>> ELSE <<>>)
      /\ cmd_out' = IF rd THEN Head(cmdFifo) ELSE cmd_out

Mac(w) ==
  /\ axi_r' = w
  /\ IF w.valid THEN /\ frame' = w.frame /\ good' = w.good
                     /\ pos' = IF w.eof THEN 0 ELSE w.pos
                ELSE UNCHANGED macVars

WriteFsm(w) == IdleWr(w) \/ DaDecode \/ BeginWrite(w) \/ DropFrame(w)

Clock(w, ready) ==
  /\ Mac(w) /\ ForceTlast(w) /\ WriteFsm(w) /\ DataFifo(ready)
  /\ CmdFifo /\ ReadFsm(ready) /\ HandOn(ready)

Next == \E w \in MacWords, ready \in BOOLEAN : Clock(w, ready)

(* The clock runs, and whoever takes the packets is ready again and again. *)
Spec == Init /\ [][Next]_vars /\ WF_vars(\E w \in MacWords : Clock(w, TRUE))

-----------------------------------------------------------------------------
(* Nothing is lost although neither FIFO can refuse: a word that is        *)
(* written finds space in the data FIFO, and a command in the command FIFO *)
(* (which a frame that follows a dropped one does not even check).         *)
FifosSuffice ==
  /\ axis_wr_tvalid => left_over_space_in_fifo > 0
  /\ wr_en => ~full

(* What is handed on is a sequence of whole good frames in the order of    *)
(* their arrival: after the last word of a packet comes the first word of  *)
(* a later frame, after any other word the next one of the same frame, the *)
(* packet ends where the frame ended, and no word of a bad frame appears.  *)
OnlyGoodFrames ==
  [][handed' # handed =>
       /\ handed'.good /\ handed'.last = handed'.eof
       /\ IF handed.last THEN handed'.pos = 1 /\ handed'.frame > handed.frame
                         ELSE handed'.pos = handed.pos + 1 /\ handed'.frame = handed.frame]_vars

(* A good frame that was stored to its end is handed on to its end.        *)
StoredFrame(f) ==
  \E i \in DOMAIN dataFifo : dataFifo[i].eof /\ dataFifo[i].good /\ dataFifo[i].frame = f

StoredFramesLeave ==
  \A f \in 1 .. MaxFrames : StoredFrame(f) ~> (handed.frame = f /\ handed.eof)
=============================================================================
