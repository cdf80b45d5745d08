---------------------------- MODULE FramePadding ----------------------------
(***************************************************************************)
(* hls/ethernet_frame_padding/ethernet_frame_padding.cpp: one call reads   *)
(* at most one word of the outgoing stream and writes one.  A word names   *)
(* its frame and its place in it (place 0 is a word of zeroes); keep is    *)
(* the number of valid bytes.                                              *)
(***************************************************************************)
EXTENDS Integers, Sequences

CONSTANTS
  MinWords,      \* 8 words in the shortest frame that leaves
  WordBytes,     \* 8 bytes in a word
  MinLastBytes,  \* 4 valid bytes in the eighth word at least
  CounterMod,    \* 2^8, wordCounter is an ap_uint<8>
  MaxWords,      \* words in the longest frame
  CrossingDepth  \* words in the tx_crossing FIFO behind the padding

(* The counter of a longer frame wraps, and the frame could be padded at   *)
(* its end.                                                                *)
ASSUME PaddingAssumption ==
  /\ MinWords \in Nat /\ MaxWords \in Nat /\ CounterMod \in Nat
  /\ MinWords >= 2 /\ MinWords <= MaxWords /\ MaxWords < CounterMod
  /\ WordBytes \in Nat /\ MinLastBytes \in 1 .. WordBytes
  /\ CrossingDepth \in Nat \ {0}

VARIABLES state, wordCounter, tx_crossing

paddingVars == <<state, wordCounter, tx_crossing>>

PaddingInit == state = 0 /\ wordCounter = 0 /\ tx_crossing = <<>>

CountWordNarrow == (wordCounter + 1) % MaxWords  \* mutant: a counter of too few bits
CountWord == (wordCounter + 1) % CounterMod

NextCountKept(end) == CountWord  \* mutant: not set back at the end of a frame
NextCount(end) == IF end THEN 0 ELSE CountWord

Write(w) == Len(tx_crossing) < CrossingDepth /\ tx_crossing' = Append(tx_crossing, w)

(* A word of a frame.  The last word of a short frame is filled up, and    *)
(* more words follow.                                                      *)
Forward(w) ==
  LET short == w.last /\ CountWord < MinWords
      thin  == w.last /\ CountWord = MinWords /\ w.keep < MinLastBytes
  IN  /\ state = 0
      /\ Write(IF short THEN [w EXCEPT !.keep = WordBytes, !.last = FALSE]
               ELSE IF thin THEN [w EXCEPT !.keep = MinLastBytes] ELSE w)
      /\ state' = IF short THEN 1 ELSE 0
      /\ wordCounter' = NextCount(w.last /\ ~short)

(* A word of padding. *)
Fill(frame) ==
  LET end == CountWord = MinWords
  IN  /\ state = 1
      /\ Write([frame |-> frame, pos |-> 0, last |-> end,
                keep |-> IF end THEN MinLastBytes ELSE WordBytes])
      /\ state' = IF end THEN 0 ELSE 1
      /\ wordCounter' = NextCount(end)
=============================================================================
