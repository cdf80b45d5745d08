--------------------------- MODULE MemoryManager ---------------------------
(***************************************************************************)
(* The allocator of the host library (sw/src/fpga/MemoryManager.cpp): a    *)
(* linked list of chunks over the huge-page buffer shared with the FPGA.   *)
(* allocate() walks the list under memoryMutex, acquires the first chunk   *)
(* that fits with a weak compare-and-swap and splits it.  free() walks the *)
(* same list WITHOUT the mutex, wipes every chunk whose address is ptr and *)
(* then sets its flag.  Chunks are never merged.                           *)
(*                                                                         *)
(* A chunk is named by its position in the sequence chunks, which is the   *)
(* order of creation; the list is threaded through the next fields, and 0  *)
(* is nullptr.  Addresses are offsets from base.                           *)
(***************************************************************************)
EXTENDS Integers, Sequences

CONSTANTS
  Thread,    \* threads that call allocate and free
  MemSize,   \* size of the buffer
  Align,     \* allocation granularity, 4096 in the code
  SizeMod,   \* 2^64: number of values of size_t
  Request,   \* sizes the threads ask for
  Nobody     \* owner of an unlocked memoryMutex

(***************************************************************************)
(* The caller's side of the contract: a request is positive, and rounding  *)
(* it up does not overflow size_t.  The code checks neither: a request     *)
(* that rounds to 0 yields a chunk that shares its address with its        *)
(* successor.                                                              *)
(***************************************************************************)
ASSUME ConstantsAssumption ==
  /\ MemSize \in Nat \ {0}
  /\ Align \in Nat \ {0}
  /\ SizeMod \in Nat \ {0}
  /\ Nobody \notin Thread

VARIABLES
  chunks,       \* every MemChunk created so far
  memoryMutex,  \* the holder of the mutex
  pc,           \* where each thread is
  current,      \* the local variable of both walks
  roundedSize,  \* local of allocate
  ptr,          \* argument of free
  live,         \* regions returned by allocate and not yet given back
  dirty         \* memory cells that do not hold zero

vars == <<chunks, memoryMutex, pc, current, roundedSize, ptr, live, dirty>>

Cell  == 0 .. MemSize - 1
Chunk == [addr : 0 .. MemSize, size : 0 .. MemSize, free : BOOLEAN, next : Nat]
Region == [addr : 0 .. MemSize, size : 0 .. MemSize]
CellsOneMore(r) == r.addr .. r.addr + r.size  \* mutant: memset of a byte too many
Cells(r) == r.addr .. r.addr + r.size - 1

Rounded(allocSize) == (((allocSize + Align - 1) % SizeMod) \div Align) * Align

(* What allocate rounds every request to stays positive. *)
ASSUME RequestAssumption ==
  \A n \in Request : n \in Nat /\ Rounded(n) \in Nat \ {0}

(* The constructor wipes the buffer and covers it with one free chunk. *)
Init ==
  /\ chunks = <<[addr |-> 0, size |-> MemSize, free |-> TRUE, next |-> 0]>>
  /\ memoryMutex = Nobody
  /\ pc = [t \in Thread |-> "idle"]
  /\ current = [t \in Thread |-> 1]
  /\ roundedSize = [t \in Thread |-> 0]
  /\ ptr = [t \in Thread |-> 0]
  /\ live = [t \in Thread |-> {}]
  /\ dirty = {}

Goto(t, label) == pc' = [pc EXCEPT ![t] = label]

-----------------------------------------------------------------------------
(* allocate *)

AllocateCall(t, allocSize) ==
  /\ pc[t] = "idle"
  /\ Goto(t, "lock")
  /\ roundedSize' = [roundedSize EXCEPT ![t] = Rounded(allocSize)]
  /\ UNCHANGED <<chunks, memoryMutex, current, ptr, live, dirty>>

AllocateLock(t) ==
  /\ pc[t] = "lock"
  /\ memoryMutex = Nobody
  /\ memoryMutex' = t
  /\ current' = [current EXCEPT ![t] = 1]
  /\ Goto(t, "try")
  /\ UNCHANGED <<chunks, roundedSize, ptr, live, dirty>>

(* mutant: the flag is not tested *)
FitsTaken(t) == roundedSize[t] <= chunks[current[t]].size

Fits(t) == chunks[current[t]].free /\ roundedSize[t] <= chunks[current[t]].size

(* The compare-and-swap succeeds.  Only the mutex holder clears the flag,  *)
(* so the test and the swap are one step.                                  *)
AllocateAcquire(t) ==
  /\ pc[t] = "try"
  /\ Fits(t)
  /\ chunks' = [chunks EXCEPT ![current[t]].free = FALSE]
  /\ Goto(t, IF chunks[current[t]].size > roundedSize[t] THEN "split" ELSE "got")
  /\ UNCHANGED <<memoryMutex, current, roundedSize, ptr, live, dirty>>

(* The chunk does not fit, or the weak compare-and-swap fails spuriously;  *)
(* at the end of the list allocate returns nullptr.                        *)
AllocateSkip(t) ==
  /\ pc[t] = "try"
  /\ IF chunks[current[t]].next = 0
     THEN /\ Goto(t, "idle")
          /\ memoryMutex' = Nobody
          /\ UNCHANGED current
     ELSE /\ current' = [current EXCEPT ![t] = chunks[@].next]
          /\ UNCHANGED <<pc, memoryMutex>>
  /\ UNCHANGED <<chunks, roundedSize, ptr, live, dirty>>

(* mutant: the new chunk is not shortened *)
AllocateSplitLong(t) ==
  /\ pc[t] = "split"
  /\ LET c == chunks[current[t]]
         nchunk == [c EXCEPT !.addr = @ + roundedSize[t], !.free = TRUE]
     IN  chunks' = Append([chunks EXCEPT ![current[t]].size = roundedSize[t]], nchunk)
  /\ Goto(t, "link")
  /\ UNCHANGED <<memoryMutex, current, roundedSize, ptr, live, dirty>>

(* mutant: the new chunk does not get the old chunk's successor *)
AllocateSplitUnlinked(t) ==
  /\ pc[t] = "split"
  /\ LET c == chunks[current[t]]
         nchunk == [addr |-> c.addr + roundedSize[t], size |-> c.size - roundedSize[t],
                    free |-> TRUE, next |-> 0]
     IN  chunks' = Append([chunks EXCEPT ![current[t]].size = roundedSize[t]], nchunk)
  /\ Goto(t, "link")
  /\ UNCHANGED <<memoryMutex, current, roundedSize, ptr, live, dirty>>

(* The rest of the chunk becomes a free chunk that is not yet linked.      *)
AllocateSplit(t) ==
  /\ pc[t] = "split"
  /\ LET c == chunks[current[t]]
         nchunk == [addr |-> c.addr + roundedSize[t], size |-> c.size - roundedSize[t],
                    free |-> TRUE, next |-> c.next]
     IN  chunks' = Append([chunks EXCEPT ![current[t]].size = roundedSize[t]], nchunk)
  /\ Goto(t, "link")
  /\ UNCHANGED <<memoryMutex, current, roundedSize, ptr, live, dirty>>

AllocateLink(t) ==
  /\ pc[t] = "link"
  /\ chunks' = [chunks EXCEPT ![current[t]].next = Len(chunks)]
  /\ Goto(t, "got")
  /\ UNCHANGED <<memoryMutex, current, roundedSize, ptr, live, dirty>>

RegionOf(c) == [addr |-> c.addr, size |-> c.size]

(* mutant: the mutex is not released *)
AllocateReturnLocked(t) ==
  /\ pc[t] = "got"
  /\ live' = [live EXCEPT ![t] = @ \union {RegionOf(chunks[current[t]])}]
  /\ Goto(t, "idle")
  /\ UNCHANGED <<chunks, memoryMutex, current, roundedSize, ptr, dirty>>

AllocateReturn(t) ==
  /\ pc[t] = "got"
  /\ live' = [live EXCEPT ![t] = @ \union {RegionOf(chunks[current[t]])}]
  /\ memoryMutex' = Nobody
  /\ Goto(t, "idle")
  /\ UNCHANGED <<chunks, current, roundedSize, ptr, dirty>>

-----------------------------------------------------------------------------
(* free: the caller gives back a region it holds, once. *)

FreeCall(t, r) ==
  /\ pc[t] = "idle"
  /\ r \in live[t]
  /\ ptr' = [ptr EXCEPT ![t] = r.addr]
  /\ current' = [current EXCEPT ![t] = 1]
  /\ Goto(t, "walk")
  /\ UNCHANGED <<chunks, memoryMutex, roundedSize, live, dirty>>

Matches(t) == chunks[current[t]].addr = ptr[t]

(* mutant: no memset *)
FreeKeepsContents(t) ==
  /\ pc[t] = "walk"
  /\ Matches(t)
  /\ Goto(t, "publish")
  /\ UNCHANGED <<chunks, memoryMutex, current, roundedSize, ptr, live, dirty>>

(* memset of the chunk, while its flag still says it is taken. *)
FreeWipe(t) ==
  /\ pc[t] = "walk"
  /\ Matches(t)
  /\ dirty' = dirty \ Cells(chunks[current[t]])
  /\ Goto(t, "publish")
  /\ UNCHANGED <<chunks, memoryMutex, current, roundedSize, ptr, live>>

FreePublish(t) ==
  /\ pc[t] = "publish"
  /\ chunks' = [chunks EXCEPT ![current[t]].free = TRUE]
  /\ live' = [live EXCEPT ![t] = {r \in @ : r.addr # ptr[t]}]
  /\ Goto(t, "step")
  /\ UNCHANGED <<memoryMutex, current, roundedSize, ptr, dirty>>

(* current = current->next: after a match the walk goes on to the end.     *)
FreeStep(t) ==
  /\ \/ pc[t] = "step"
     \/ pc[t] = "walk" /\ ~Matches(t)
  /\ IF chunks[current[t]].next = 0
     THEN Goto(t, "idle") /\ UNCHANGED current
     ELSE /\ current' = [current EXCEPT ![t] = chunks[@].next]
          /\ Goto(t, "walk")
  /\ UNCHANGED <<chunks, memoryMutex, roundedSize, ptr, live, dirty>>

(* The program, or the FPGA on its behalf, writes to a region it holds.    *)
Write(t, r) ==
  /\ pc[t] = "idle"
  /\ r \in live[t]
  /\ dirty' = dirty \union Cells(r)
  /\ UNCHANGED <<chunks, memoryMutex, pc, current, roundedSize, ptr, live>>

-----------------------------------------------------------------------------
Allocate(t) ==
  \/ AllocateLock(t) \/ AllocateAcquire(t) \/ AllocateSkip(t)
  \/ AllocateSplit(t) \/ AllocateLink(t) \/ AllocateReturn(t)

Free(t) == FreeWipe(t) \/ FreePublish(t) \/ FreeStep(t)

Next ==
  \E t \in Thread :
    \/ \E n \in Request : AllocateCall(t, n)
    \/ Allocate(t)
    \/ \E r \in live[t] : FreeCall(t, r) \/ Write(t, r)
    \/ Free(t)

Spec == Init /\ [][Next]_vars

(* Threads inside a call are scheduled, and a waiter eventually gets the   *)
(* mutex whenever it is free again and again.                              *)
FairSpec ==
  /\ Spec
  /\ \A t \in Thread : WF_vars(Allocate(t)) /\ SF_vars(AllocateLock(t)) /\ WF_vars(Free(t))

-----------------------------------------------------------------------------
(* Type invariant. *)
TypeOK ==
  /\ chunks \in Seq(Chunk)
  /\ memoryMutex \in Thread \union {Nobody}
  /\ pc \in [Thread -> {"idle", "lock", "try", "split", "link", "got",
                        "walk", "publish", "step"}]
  /\ current \in [Thread -> Nat \ {0}]
  /\ roundedSize \in [Thread -> Nat]
  /\ ptr \in [Thread -> 0 .. MemSize]
  /\ live \in [Thread -> SUBSET Region]
  /\ dirty \subseteq Cell

(* No two regions the program holds share a cell, whichever threads hold   *)
(* them and wherever the unlocked walks of free are: what allocate()       *)
(* promises of the addresses it returns.                                   *)
NoOverlap ==
  \A t, u \in Thread : \A r \in live[t], s \in live[u] :
    (t # u \/ r # s) => Cells(r) \intersect Cells(s) = {}

(* allocate() returns memory that holds only zeroes: the memset of the     *)
(* constructor, or the one free() does before it sets the flag without     *)
(* the mutex, was the last write to it.                                    *)
HandedOutZeroed ==
  [][\A t \in Thread : \A r \in live'[t] \ live[t] : Cells(r) \intersect dirty' = {}]_vars

(* Splitting never loses memory: every cell belongs to exactly one chunk,  *)
(* also between the two pointer updates of a split.                        *)
ChunksPartitionMemory ==
  \A a \in Cell : \E i \in DOMAIN chunks :
    /\ a \in Cells(chunks[i])
    /\ \A j \in DOMAIN chunks \ {i} : a \notin Cells(chunks[j])

(* free(ptr) takes effect: its walk without the mutex cannot run past the  *)
(* chunk at ptr because of a concurrent split, so when it returns the      *)
(* region is no longer held.                                               *)
FreeTakesEffect ==
  [][\A t \in Thread : pc[t] \in {"walk", "step"} /\ pc'[t] = "idle" =>
       \A r \in live'[t] : r.addr # ptr[t]]_vars

(* Every call returns, although the list may grow under the walk of free.  *)
CallsReturn == \A t \in Thread : pc[t] # "idle" ~> pc[t] = "idle"

=============================================================================
