---------------------------- MODULE StreamUtils ----------------------------
(***************************************************************************)
(* The stream functions that all kernels include, hls/axi_utils.hpp, each  *)
(* a process of its own between streams of one word: a packet is shifted   *)
(* up by offset bytes (lshiftWordByOctet) and down again                   *)
(* (rshiftWordByOctet), brought to double width                            *)
(* (convertStreamToDoubleWidth) and back (convertStreamToHalfWidth), and   *)
(* merged with another stream (fair_merger).  If every function does what  *)
(* it is for, the packets come out as they went in.                        *)
(*                                                                         *)
(* A word is the sequence of its valid bytes, from byte 0 on, and last:    *)
(* keep has no holes, and all words of a packet but the last are full.     *)
(* Taking and dropping bytes is what the shifts of data and keep do.       *)
(***************************************************************************)
EXTENDS Integers, Sequences

CONSTANTS
  Bytes,     \* bytes in a word, W / 8
  Offsets,   \* the offsets that the two shifts are used with
  MaxWords   \* bound on the number of words that go in

(* rshiftWordByOctet() loses the first word when offset is 0. *)
ASSUME StreamAssumption ==
  /\ Bytes \in Nat /\ Offsets \subseteq 1 .. Bytes - 1 /\ MaxWords \in Nat

VARIABLES
  source, shifted, restored, wide, narrow,  \* streams: <<>> or one word
  other,            \* the other input of the merger: whether it holds a word
  offered,          \* number of words offered
  offset,           \* argument of both shifts, the same in all calls
  ls, rs, dw, hw,   \* the static variables of the four functions
  merge_pref,
  inFlight,         \* history: words offered that have not come out
  output            \* history: the last word that came out

sourceVars == <<offered, offset>>
mergeVars  == <<other, merge_pref, inFlight, output>>
vars == <<source, shifted, restored, wide, narrow, sourceVars, ls, rs, dw, hw, mergeVars>>

Word(bytes, last) == [bytes |-> bytes, last |-> last]
NoWord == Word(<<>>, FALSE)

Take(s, n) == SubSeq(s, 1, IF n < Len(s) THEN n ELSE Len(s))
Drop(s, n) == SubSeq(s, n + 1, Len(s))

Init ==
  /\ source = <<>> /\ shifted = <<>> /\ restored = <<>> /\ wide = <<>> /\ narrow = <<>>
  /\ other = FALSE /\ offered = 0 /\ offset \in Offsets
  /\ ls = [firstWord |-> TRUE, writeRemainder |-> FALSE, prevWord |-> NoWord]
  /\ rs = [fsmState |-> "PKG", firstWord |-> TRUE, prevWord |-> NoWord]
  /\ dw = [even |-> 0, temp |-> NoWord]
  /\ hw = [fsmState |-> "FIRST", currWord |-> NoWord]
  /\ merge_pref = TRUE
  /\ inFlight = <<>> /\ output = NoWord

-----------------------------------------------------------------------------
(* A byte is told apart from others by its word and its place. *)
Piece(k, n, last) == Word([i \in 1 .. n |-> <<k, i>>], last)

(* Words of packets; the last one that the bound allows ends its packet. *)
Offer(n, last) ==
  LET w == Piece(offered, n, last)
  IN  /\ source = <<>> /\ offered < MaxWords
      /\ last \/ (n = Bytes /\ offered + 1 < MaxWords)
      /\ source' = <<w>> /\ inFlight' = Append(inFlight, w)
      /\ offered' = offered + 1
      /\ UNCHANGED <<shifted, restored, wide, narrow, other, offset, ls, rs, dw, hw, merge_pref,
                     output>>

OfferOther ==
  /\ ~other /\ other' = TRUE
  /\ UNCHANGED <<source, shifted, restored, wide, narrow, sourceVars, ls, rs, dw, hw, merge_pref,
                 inFlight, output>>

-----------------------------------------------------------------------------
UpRemainsNever(curr, send) == FALSE  \* mutant: the bytes that moved are forgotten

(* Whether the bytes that move out of the last word need another one. *)
UpRemains(curr, send) == curr.last /\ ~send.last

(* Zeroes in front of a packet move its bytes up. *)
lshiftRemainder ==
  /\ ls.writeRemainder /\ shifted = <<>>
  /\ shifted' = <<Word(Drop(ls.prevWord.bytes, Bytes - offset), TRUE)>>
  /\ ls' = [ls EXCEPT !.writeRemainder = FALSE]
  /\ UNCHANGED source

lshiftRead ==
  /\ ~ls.writeRemainder /\ source # <<>> /\ shifted = <<>>
  /\ LET curr == source[1]
         front == IF ls.firstWord THEN [i \in 1 .. offset |-> <<>>]
                                  ELSE Drop(ls.prevWord.bytes, Bytes - offset)
         send == Word(front \o Take(curr.bytes, Bytes - offset), Len(curr.bytes) <= Bytes - offset)
     IN  /\ shifted' = <<send>>
         /\ ls' = [firstWord |-> curr.last, writeRemainder |-> UpRemains(curr, send),
                   prevWord |-> curr]
  /\ source' = <<>>

lshiftWordByOctet ==
  /\ lshiftRemainder \/ lshiftRead
  /\ UNCHANGED <<restored, wide, narrow, sourceVars, rs, dw, hw, mergeVars>>

(* Dropping the front of a packet moves its bytes down; nothing is sent    *)
(* for the first word, and a packet of one word is all remainder.          *)
rshiftRead ==
  /\ rs.fsmState = "PKG" /\ shifted # <<>> /\ restored = <<>>
  /\ LET curr == shifted[1]
         send == Word(Drop(rs.prevWord.bytes, offset) \o Take(curr.bytes, offset),
                      Len(curr.bytes) <= offset)
     IN  /\ restored' = IF rs.firstWord THEN <<>> ELSE <<send>>
         /\ rs' = [fsmState |-> IF curr.last /\ (rs.firstWord \/ ~send.last) THEN "REMAINDER"
                                                                             ELSE "PKG",
                   firstWord |-> curr.last, prevWord |-> curr]
  /\ shifted' = <<>>

rshiftRemainder ==
  /\ rs.fsmState = "REMAINDER" /\ restored = <<>>
  /\ restored' = <<Word(Drop(rs.prevWord.bytes, offset), TRUE)>>
  /\ rs' = [rs EXCEPT !.fsmState = "PKG"]
  /\ UNCHANGED shifted

rshiftWordByOctet ==
  /\ rshiftRead \/ rshiftRemainder
  /\ UNCHANGED <<source, wide, narrow, sourceVars, ls, dw, hw, mergeVars>>

-----------------------------------------------------------------------------
convertStreamToDoubleWidth ==
  /\ restored # <<>> /\ wide = <<>>
  /\ LET curr == restored[1]
         temp == IF dw.even = 0 THEN curr ELSE Word(dw.temp.bytes \o curr.bytes, curr.last)
         write == dw.even = 1 \/ curr.last
     IN  /\ wide' = IF write THEN <<temp>> ELSE <<>>
         /\ dw' = [even |-> IF write THEN 0 ELSE 1, temp |-> temp]
  /\ restored' = <<>>
  /\ UNCHANGED <<source, shifted, narrow, sourceVars, ls, rs, hw, mergeVars>>

halfFirst ==
  /\ hw.fsmState = "FIRST" /\ wide # <<>> /\ narrow = <<>>
  /\ LET curr == wide[1]
         more == Len(curr.bytes) > Bytes
     IN  /\ narrow' = <<Word(Take(curr.bytes, Bytes), ~more)>>
         /\ hw' = [fsmState |-> IF more THEN "SECOND" ELSE "FIRST", currWord |-> curr]
  /\ wide' = <<>>

halfSecond ==
  /\ hw.fsmState = "SECOND" /\ narrow = <<>>
  /\ narrow' = <<Word(Drop(hw.currWord.bytes, Bytes), hw.currWord.last)>>
  /\ hw' = [hw EXCEPT !.fsmState = "FIRST"]
  /\ UNCHANGED wide

convertStreamToHalfWidth ==
  /\ halfFirst \/ halfSecond
  /\ UNCHANGED <<source, shifted, restored, sourceVars, ls, rs, dw, mergeVars>>

-----------------------------------------------------------------------------
(* The two inputs of the merger: in0 is the other stream, in1 the packets. *)
ReadIn0 == other /\ other' = FALSE /\ UNCHANGED <<narrow, inFlight, output>>

ReadIn1 ==
  /\ narrow # <<>> /\ narrow' = <<>>
  /\ output' = narrow[1] /\ inFlight' = Tail(inFlight)
  /\ UNCHANGED other

stream_merger ==
  /\ IF other THEN ReadIn0 ELSE ReadIn1
  /\ UNCHANGED <<source, shifted, restored, wide, sourceVars, ls, rs, dw, hw, merge_pref>>

(* The preference goes to the other side when the preferred one is served. *)
fair_merger ==
  /\ IF merge_pref
     THEN IF other THEN ReadIn0 /\ merge_pref' = FALSE ELSE ReadIn1 /\ UNCHANGED merge_pref
     ELSE IF narrow # <<>> THEN ReadIn1 /\ merge_pref' = TRUE ELSE ReadIn0 /\ UNCHANGED merge_pref
  /\ UNCHANGED <<source, shifted, restored, wide, sourceVars, ls, rs, dw, hw>>

Next ==
  \/ \E n \in 1 .. Bytes, last \in BOOLEAN : Offer(n, last)
  \/ OfferOther
  \/ lshiftWordByOctet \/ rshiftWordByOctet
  \/ convertStreamToDoubleWidth \/ convertStreamToHalfWidth
  \/ fair_merger

(* Every function is called again and again, and packets that were begun   *)
(* are finished.                                                           *)
Spec ==
  /\ Init /\ [][Next]_vars
  /\ WF_vars(\E n \in 1 .. Bytes, last \in BOOLEAN : Offer(n, last))
  /\ WF_vars(lshiftWordByOctet) /\ WF_vars(rshiftWordByOctet)
  /\ WF_vars(convertStreamToDoubleWidth) /\ WF_vars(convertStreamToHalfWidth)
  /\ WF_vars(fair_merger)

-----------------------------------------------------------------------------
(* Any word the queue of what is in flight can hold. *)
Words ==
  {Piece(k, n, last) : k \in 0 .. MaxWords - 1, n \in 1 .. Bytes, last \in BOOLEAN}

Same(w) == w

Queue == INSTANCE FrameQueue WITH Frames <- Words, Padded <- Same, Nothing <- NoWord,
                                  queue <- inFlight, output <- output

(* The chain of the four functions is the identity: the words come out in  *)
(* order, with the bytes and the last they went in with, although every    *)
(* function keeps a part of a word from one call to the next and has to    *)
(* find out where a packet ends whose length it changed.                   *)
PacketsUnchanged == Queue!Spec

(* All that went in comes out, however much the other stream sends. *)
PacketsComeOut == (inFlight # <<>>) ~> (inFlight = <<>>)
=============================================================================
