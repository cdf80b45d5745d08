--------------------------- MODULE BoundaryCheck ---------------------------
(***************************************************************************)
(* The page boundary check of the write path                               *)
(* (hls/mem_write_cmd_page_boundary_check_512).  Three dataflow processes  *)
(* connected by streams: calculate_page_offset and boundary_check split a  *)
(* write command that crosses a page into two commands, and pkg_split      *)
(* splits its data packet at the same byte and realigns the second half.   *)
(* A process that finds an output stream full stalls.                      *)
(*                                                                         *)
(* A data word is the sequence of its valid bytes (data and keep) and its  *)
(* last flag; a byte is a token of whoever fills dataIn.                   *)
(***************************************************************************)
EXTENDS Integers, Sequences

CONSTANTS
  PageSize,   \* PAGE_SIZE
  WordSize,   \* bytes of a data word, 64
  Lane,       \* pkg_split can cut a word at multiples of this, 8
  CmdDepth,   \* commands the output stream holds
  DataDepth,  \* words the output stream and its clock converter hold
  PageOffsetFifoDepth, MetaFifoDepth

VARIABLES
  cmdIn, dataIn, cmdOut, dataOut,
  pageOffsetFifo, metaFifo,
  bc_state, cmd,                      \* boundary_check
  pbc_state, meta, metaLoaded, prevWord  \* pkg_split

splitVars == <<pbc_state, meta, metaLoaded, prevWord, dataIn, dataOut>>
checkVars == <<cmdIn, dataIn, cmdOut, dataOut, pageOffsetFifo, metaFifo, bc_state,
               cmd, pbc_state, meta, metaLoaded, prevWord>>

Init ==
  /\ cmdIn = <<>>
  /\ dataIn = <<>>
  /\ cmdOut = <<>>
  /\ dataOut = <<>>
  /\ pageOffsetFifo = <<>>
  /\ metaFifo = <<>>
  /\ bc_state = "CMD"
  /\ cmd = [addr |-> 0, len |-> 0]
  /\ pbc_state = "PKG_FIRST"
  /\ meta = [length |-> 0, isSplit |-> FALSE]
  /\ metaLoaded = FALSE
  /\ prevWord = <<>>

-----------------------------------------------------------------------------
(* mutant: the offset is not masked *)
CalculateOffsetUnmasked(regBaseVaddr) ==
  /\ cmdIn # <<>>
  /\ Len(pageOffsetFifo) < PageOffsetFifoDepth
  /\ cmdIn' = Tail(cmdIn)
  /\ pageOffsetFifo' =
       Append(pageOffsetFifo, [addr |-> Head(cmdIn).addr, len |-> Head(cmdIn).len,
                               page_offset |-> Head(cmdIn).addr - regBaseVaddr])
  /\ UNCHANGED <<splitVars, cmdOut, metaFifo, bc_state, cmd>>

(* calculate_page_offset: the offset in a page counted from regBaseVaddr.  *)
(* The page size divides 2^48, so the wrap-around of the subtraction does  *)
(* not show.                                                               *)
CalculatePageOffset(regBaseVaddr) ==
  /\ cmdIn # <<>>
  /\ Len(pageOffsetFifo) < PageOffsetFifoDepth
  /\ cmdIn' = Tail(cmdIn)
  /\ pageOffsetFifo' =
       Append(pageOffsetFifo, [addr |-> Head(cmdIn).addr, len |-> Head(cmdIn).len,
                               page_offset |-> (Head(cmdIn).addr - regBaseVaddr) % PageSize])
  /\ UNCHANGED <<splitVars, cmdOut, metaFifo, bc_state, cmd>>

-----------------------------------------------------------------------------
CrossesOrTouches(c) == c.page_offset + c.len >= PageSize  \* mutant: off by one
LongerThanPage(c) == c.len > PageSize                     \* mutant: the offset is forgotten
Crosses(c) == c.page_offset + c.len > PageSize

(* boundary_check, state CMD: the whole command, or its part up to the     *)
(* boundary.                                                               *)
BoundaryCheckCmd ==
  /\ bc_state = "CMD"
  /\ pageOffsetFifo # <<>>
  /\ Len(cmdOut) < CmdDepth
  /\ Len(metaFifo) < MetaFifoDepth
  /\ LET c == Head(pageOffsetFifo)
         isSplit == Crosses(c)
         newLength == IF isSplit THEN PageSize - c.page_offset ELSE c.len
     IN  /\ cmdOut' = Append(cmdOut, [addr |-> c.addr, len |-> newLength])
         /\ metaFifo' = Append(metaFifo, [length |-> newLength, isSplit |-> isSplit])
         /\ cmd' = IF isSplit THEN [addr |-> c.addr + newLength, len |-> c.len - newLength]
                              ELSE [addr |-> c.addr, len |-> c.len]
         /\ bc_state' = IF isSplit THEN "CMD_SPLIT" ELSE "CMD"
  /\ pageOffsetFifo' = Tail(pageOffsetFifo)
  /\ UNCHANGED <<splitVars, cmdIn>>

(* State CMD_SPLIT: the rest, which is not checked for a second boundary.  *)
BoundaryCheckSplit ==
  /\ bc_state = "CMD_SPLIT"
  /\ Len(cmdOut) < CmdDepth
  /\ cmdOut' = Append(cmdOut, cmd)
  /\ bc_state' = "CMD"
  /\ UNCHANGED <<splitVars, cmdIn, metaFifo, pageOffsetFifo, cmd>>

-----------------------------------------------------------------------------
(* The lengths the switches of pkg_split have a case for. *)
Shift == {k * Lane : k \in 1 .. (WordSize \div Lane) - 1}

First(s, n) == SubSeq(s, 1, IF n < Len(s) THEN n ELSE Len(s))
Beyond(s, n) == SubSeq(s, n + 1, Len(s))

(* mutant: the last flag of the input is passed on *)
SendLastOfInput(m, currWord) == currWord.last

(* The flag of a word before the boundary: it is the last of its packet    *)
(* where the first command ends, whether or not the input goes on.         *)
SendLast(m, currWord) == m.length <= WordSize

(* PKG_FIRST: the words up to the boundary, or the whole packet when the   *)
(* command was not split.                                                  *)
PkgFirst ==
  /\ pbc_state = "PKG_FIRST"
  /\ dataIn # <<>>
  /\ metaLoaded \/ metaFifo # <<>>
  /\ Len(dataOut) < DataDepth
  /\ LET m == IF metaLoaded THEN meta ELSE Head(metaFifo)
         currWord == Head(dataIn)
         ends == m.length <= WordSize
         keep == IF ends /\ m.length \in Shift THEN First(currWord.bytes, m.length)
                                               ELSE currWord.bytes
     IN  /\ metaFifo' = IF metaLoaded THEN metaFifo ELSE Tail(metaFifo)
         /\ dataOut' = Append(dataOut, [bytes |-> keep, last |-> SendLast(m, currWord)])
         /\ prevWord' = currWord.bytes
         /\ meta' = IF ends THEN m ELSE [m EXCEPT !.length = @ - WordSize]
         /\ metaLoaded' = (m.isSplit \/ ~ends)
         /\ pbc_state' = CASE ~(ends /\ m.isSplit) -> "PKG_FIRST"
                           [] ends /\ m.isSplit /\ currWord.last -> "LAST"
                           [] ends /\ m.isSplit /\ ~currWord.last -> "PKG_SECOND"
  /\ dataIn' = Tail(dataIn)
  /\ UNCHANGED <<cmdIn, cmdOut, pageOffsetFifo, bc_state, cmd>>

(* PKG_SECOND: the leftover of the previous word and the front of this     *)
(* one; a boundary at the end of a word needs no realignment.              *)
PkgSecond ==
  /\ pbc_state = "PKG_SECOND"
  /\ dataIn # <<>>
  /\ Len(dataOut) < DataDepth
  /\ LET currWord == Head(dataIn)
         sendWord ==
           IF meta.length \in Shift
           THEN [bytes |-> Beyond(prevWord, meta.length) \o First(currWord.bytes, meta.length),
                 last  |-> Len(currWord.bytes) <= meta.length]
           ELSE currWord
     IN  /\ dataOut' = Append(dataOut, sendWord)
         /\ prevWord' = currWord.bytes
         /\ metaLoaded' = (metaLoaded /\ ~sendWord.last)
         /\ pbc_state' = CASE sendWord.last -> "PKG_FIRST"
                           [] ~sendWord.last /\ currWord.last -> "LAST"
                           [] ~sendWord.last /\ ~currWord.last -> "PKG_SECOND"
  /\ dataIn' = Tail(dataIn)
  /\ UNCHANGED <<cmdIn, cmdOut, pageOffsetFifo, metaFifo, bc_state, cmd, meta>>

(* mutant: the meta data stays loaded for the next packet *)
PkgLastKeepsMeta ==
  /\ pbc_state = "LAST"
  /\ Len(dataOut) < DataDepth
  /\ dataOut' = Append(dataOut, [bytes |-> Beyond(prevWord, meta.length), last |-> TRUE])
  /\ pbc_state' = "PKG_FIRST"
  /\ UNCHANGED <<cmdIn, dataIn, cmdOut, pageOffsetFifo, metaFifo, bc_state, cmd, meta,
                 metaLoaded, prevWord>>

(* LAST: the leftover of the packet's last word. *)
PkgLast ==
  /\ pbc_state = "LAST"
  /\ Len(dataOut) < DataDepth
  /\ dataOut' = Append(dataOut, [bytes |-> Beyond(prevWord, meta.length), last |-> TRUE])
  /\ metaLoaded' = FALSE
  /\ pbc_state' = "PKG_FIRST"
  /\ UNCHANGED <<cmdIn, dataIn, cmdOut, pageOffsetFifo, metaFifo, bc_state, cmd, meta, prevWord>>

PkgSplit == PkgFirst \/ PkgSecond \/ PkgLast
=============================================================================
