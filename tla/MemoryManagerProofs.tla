------------------------ MODULE MemoryManagerProofs ------------------------
(***************************************************************************)
(* The inductive invariant of MemoryManager and the proofs, for any set of *)
(* threads, buffer size and positive requests, that live regions never     *)
(* overlap, that memory is handed out zeroed, that the chunks partition    *)
(* the buffer and that free() always reaches its chunk.                    *)
(***************************************************************************)
EXTENDS MemoryManager, SequenceTheorems, TLAPS

Ids           == 1 .. Len(chunks)
InCritical(t) == pc[t] \in {"try", "split", "link", "got"}
Holds(t)      == pc[t] \in {"split", "link", "got"}
End(c)        == c.addr + c.size
Clean(c, d)   == \A a \in d : ~(c.addr <= a /\ a < End(c))

(* The mutex protects allocate's walk. *)
MutexInv == \A t \in Thread : InCritical(t) => memoryMutex = t

(* Chunks are positive, inside the buffer, and linked to chunks.           *)
ChunksInv ==
  /\ Len(chunks) > 0
  /\ chunks[1].addr = 0
  /\ \A i \in Ids :
       /\ chunks[i].size > 0
       /\ End(chunks[i]) <= MemSize
       /\ chunks[i].next \in 0 .. Len(chunks)

DisjointInv ==
  \A i, j \in Ids :
    i # j => End(chunks[i]) <= chunks[j].addr \/ End(chunks[j]) <= chunks[i].addr

CoverInv ==
  \A a \in Cell : \E i \in Ids : chunks[i].addr <= a /\ a < End(chunks[i])

(* The chunk an allocation is working on, from the swap to the return.     *)
AllocInvAt(t) ==
  /\ current[t] \in Ids
  /\ pc[t] \in {"lock", "try", "split", "link", "got"} => roundedSize[t] > 0
  /\ Holds(t) => /\ ~chunks[current[t]].free
                 /\ Clean(chunks[current[t]], dirty)
  /\ pc[t] = "split" => chunks[current[t]].size > roundedSize[t]
  /\ pc[t] = "link" => /\ chunks[Len(chunks)].free
                       /\ chunks[Len(chunks)].addr = End(chunks[current[t]])
AllocInv == \A t \in Thread : AllocInvAt(t)

(* A live region is a taken chunk that no allocation is still working on,  *)
(* and it has one owner.                                                   *)
LiveInv ==
  /\ \A t \in Thread : \A r \in live[t] : \E i \in Ids :
       /\ RegionOf(chunks[i]) = r
       /\ ~chunks[i].free
       /\ \A u \in Thread : Holds(u) => current[u] # i
  /\ \A t, u \in Thread : t # u => live[t] \intersect live[u] = {}

(* The walk of free has not passed its chunk before it gave it back, and   *)
(* is past it afterwards.                                                  *)
Pending(t) == \E r \in live[t] : r.addr = ptr[t]
FreeInvAt(t) ==
  /\ pc[t] = "publish" => Matches(t) /\ Pending(t)
  /\ pc[t] = "publish" => Clean(chunks[current[t]], dirty)
  /\ pc[t] = "walk" =>
       IF Pending(t) THEN chunks[current[t]].addr <= ptr[t]
                     ELSE chunks[current[t]].addr > ptr[t]
  /\ pc[t] = "step" => Matches(t) /\ ~Pending(t)
FreeInv == \A t \in Thread : FreeInvAt(t)

ZeroInv ==
  \A i \in Ids : chunks[i].free => Clean(chunks[i], dirty)

(* The list is in address order, and no link jumps over a chunk other than *)
(* the one a split has created and not yet linked.                         *)
Unlinked(j) == j = Len(chunks) /\ \E t \in Thread : pc[t] = "link"
LinkInv ==
  \A i \in Ids :
    /\ chunks[i].next # 0 => chunks[chunks[i].next].addr >= End(chunks[i])
    /\ \A j \in Ids :
         chunks[j].addr > chunks[i].addr /\ ~Unlinked(j) =>
           chunks[i].next # 0 /\ chunks[chunks[i].next].addr <= chunks[j].addr

IInv == /\ TypeOK /\ MutexInv /\ ChunksInv /\ DisjointInv /\ CoverInv
        /\ AllocInv /\ LiveInv /\ FreeInv /\ ZeroInv /\ LinkInv

-----------------------------------------------------------------------------
(* The constructor establishes the inductive invariant. *)
LEMMA InitIInv == Init => IInv
  <1> SUFFICES ASSUME Init PROVE IInv
    OBVIOUS
  <1> USE ConstantsAssumption DEF Init
  <1>1. /\ chunks \in Seq(Chunk) /\ Len(chunks) = 1 /\ DOMAIN chunks = {1}
        /\ chunks[1] = [addr |-> 0, size |-> MemSize, free |-> TRUE, next |-> 0]
    BY DEF Chunk
  <1>2. TypeOK
    BY <1>1 DEF TypeOK, Region
  <1>3. MutexInv /\ AllocInv /\ LiveInv /\ FreeInv /\ ZeroInv
    BY <1>1 DEF Ids, MutexInv, AllocInv, AllocInvAt, LiveInv, FreeInv, FreeInvAt, ZeroInv, InCritical, Holds, Clean
  <1>4. ChunksInv /\ DisjointInv /\ CoverInv /\ LinkInv
    BY <1>1 DEF Ids, ChunksInv, DisjointInv, CoverInv, LinkInv, End, Cell
  <1> QED
    BY <1>2, <1>3, <1>4 DEF IInv

(* What writing one field of one chunk leaves alone. *)
LEMMA SetFree ==
  ASSUME chunks \in Seq(Chunk), NEW i \in 1 .. Len(chunks), NEW b \in BOOLEAN,
         chunks' = [chunks EXCEPT ![i].free = b]
  PROVE  /\ chunks' \in Seq(Chunk) /\ Len(chunks') = Len(chunks)
         /\ \A j \in 1 .. Len(chunks) :
              /\ chunks'[j].addr = chunks[j].addr /\ chunks'[j].size = chunks[j].size
              /\ chunks'[j].next = chunks[j].next
              /\ chunks'[j].free = IF j = i THEN b ELSE chunks[j].free
  <1> DEFINE c == [chunks[i] EXCEPT !.free = b]
  <1>1. chunks[i] \in Chunk
    BY ElementOfSeq
  <1>2. /\ c \in Chunk /\ c.addr = chunks[i].addr /\ c.size = chunks[i].size
        /\ c.next = chunks[i].next /\ c.free = b
    BY <1>1 DEF Chunk
  <1>3. chunks' = [chunks EXCEPT ![i] = c]
    OBVIOUS
  <1> HIDE DEF c
  <1> QED
    BY <1>2, <1>3, ExceptSeq

(* Setting the successor of a chunk changes nothing else. *)
LEMMA SetNext ==
  ASSUME chunks \in Seq(Chunk), NEW i \in 1 .. Len(chunks), NEW n \in Nat,
         chunks' = [chunks EXCEPT ![i].next = n]
  PROVE  /\ chunks' \in Seq(Chunk) /\ Len(chunks') = Len(chunks)
         /\ \A j \in 1 .. Len(chunks) :
              /\ chunks'[j].addr = chunks[j].addr /\ chunks'[j].size = chunks[j].size
              /\ chunks'[j].free = chunks[j].free
              /\ chunks'[j].next = IF j = i THEN n ELSE chunks[j].next
  <1> DEFINE c == [chunks[i] EXCEPT !.next = n]
  <1>1. chunks[i] \in Chunk
    BY ElementOfSeq
  <1>2. /\ c \in Chunk /\ c.addr = chunks[i].addr /\ c.size = chunks[i].size
        /\ c.free = chunks[i].free /\ c.next = n
    BY <1>1 DEF Chunk
  <1>3. chunks' = [chunks EXCEPT ![i] = c]
    OBVIOUS
  <1> HIDE DEF c
  <1> QED
    BY <1>2, <1>3, ExceptSeq

(* A split shortens one chunk and appends the rest of it. *)
LEMMA SplitChunk ==
  ASSUME chunks \in Seq(Chunk), NEW i \in 1 .. Len(chunks), NEW n \in 0 .. MemSize,
         NEW e \in Chunk, chunks' = Append([chunks EXCEPT ![i].size = n], e)
  PROVE  /\ chunks' \in Seq(Chunk) /\ Len(chunks') = Len(chunks) + 1
         /\ chunks'[Len(chunks) + 1] = e
         /\ \A j \in 1 .. Len(chunks) :
              /\ chunks'[j].addr = chunks[j].addr /\ chunks'[j].next = chunks[j].next
              /\ chunks'[j].free = chunks[j].free
              /\ chunks'[j].size = IF j = i THEN n ELSE chunks[j].size
  <1> DEFINE c == [chunks[i] EXCEPT !.size = n]
             mid == [chunks EXCEPT ![i] = c]
  <1>1. chunks[i] \in Chunk
    BY ElementOfSeq
  <1>2. /\ c \in Chunk /\ c.addr = chunks[i].addr /\ c.next = chunks[i].next
        /\ c.free = chunks[i].free /\ c.size = n
    BY <1>1 DEF Chunk
  <1>3. chunks' = Append(mid, e)
    OBVIOUS
  <1> HIDE DEF c
  <1>4. /\ mid \in Seq(Chunk) /\ Len(mid) = Len(chunks)
        /\ \A j \in 1 .. Len(chunks) : mid[j] = IF j = i THEN c ELSE chunks[j]
    BY <1>2, ExceptSeq
  <1> HIDE DEF mid
  <1>5. /\ chunks' \in Seq(Chunk) /\ Len(chunks') = Len(mid) + 1 /\ chunks'[Len(mid) + 1] = e
        /\ \A j \in 1 .. Len(mid) : chunks'[j] = mid[j]
    <2>1. Append(mid, e) \in Seq(Chunk) /\ Len(Append(mid, e)) = Len(mid) + 1
      BY <1>4, AppendProperties
    <2>2. Append(mid, e)[Len(mid) + 1] = e
      BY <1>4, AppendProperties
    <2>3. \A j \in 1 .. Len(mid) : Append(mid, e)[j] = mid[j]
      BY <1>4, AppendProperties
    <2> QED
      BY <1>3, <2>1, <2>2, <2>3
  <1> QED
    BY <1>2, <1>4, <1>5

(* The fields of a chunk. *)
LEMMA ChunkType ==
  ASSUME TypeOK, NEW i \in Ids
  PROVE  /\ chunks[i] \in Chunk
         /\ chunks[i].addr \in 0 .. MemSize /\ chunks[i].size \in 0 .. MemSize
         /\ chunks[i].next \in Nat /\ chunks[i].free \in BOOLEAN
  <1>1. chunks[i] \in Chunk
    BY ElementOfSeq DEF TypeOK, Ids
  <1> QED
    BY <1>1 DEF Chunk

(* A chunk is determined by its address, because no chunk is empty. *)
LEMMA SameAddress ==
  ASSUME IInv, NEW i \in Ids, NEW j \in Ids, chunks[i].addr = chunks[j].addr
  PROVE  i = j
  BY ChunkType, ConstantsAssumption DEF IInv, ChunksInv, DisjointInv, End

(* The chunk behind a live region. *)
LEMMA LiveChunk ==
  ASSUME IInv, NEW t \in Thread, NEW r \in live[t]
  PROVE  \E i \in Ids :
           /\ r.addr = chunks[i].addr /\ r.size = chunks[i].size
           /\ r = RegionOf(chunks[i]) /\ ~chunks[i].free
           /\ \A u \in Thread : Holds(u) => current[u] # i
  BY DEF IInv, LiveInv, RegionOf

(* No cell is in two chunks. *)
LEMMA ChunksApart ==
  ASSUME TypeOK, DisjointInv, NEW i \in Ids, NEW j \in Ids, i # j, NEW a \in Int,
         chunks[i].addr <= a, a < End(chunks[i]), chunks[j].addr <= a, a < End(chunks[j])
  PROVE  FALSE
  <1>1. /\ chunks[i].addr \in Int /\ chunks[i].size \in Int
        /\ chunks[j].addr \in Int /\ chunks[j].size \in Int
    BY ChunkType
  <1>2. End(chunks[i]) <= chunks[j].addr \/ End(chunks[j]) <= chunks[i].addr
    BY DEF DisjointInv
  <1> QED
    BY <1>1, <1>2 DEF End

(* A step of a walk, or a call, leaves the live regions to their owners as *)
(* long as no allocation turns to another chunk.                           *)
LEMMA LiveInvKept ==
  ASSUME LiveInv, chunks' = chunks, live' = live,
         \A u \in Thread : Holds(u)' => Holds(u) /\ current'[u] = current[u]
  PROVE  LiveInv'
  <1>1. Ids' = Ids
    BY DEF Ids
  <1>2. ASSUME NEW t \in Thread, NEW r \in live'[t]
        PROVE  \E i \in Ids' : /\ RegionOf(chunks'[i]) = r
                               /\ ~chunks'[i].free
                               /\ \A u \in Thread : Holds(u)' => current'[u] # i
    <2>1. r \in live[t]
      OBVIOUS
    <2>2. PICK i \in Ids : /\ RegionOf(chunks[i]) = r
                           /\ ~chunks[i].free
                           /\ \A u \in Thread : Holds(u) => current[u] # i
      BY <2>1 DEF LiveInv
    <2>3. \A u \in Thread : Holds(u)' => current'[u] # i
      BY <2>2
    <2>4. i \in Ids' /\ RegionOf(chunks'[i]) = r /\ ~chunks'[i].free
      BY <1>1, <2>2
    <2> QED
      BY <2>3, <2>4
  <1>3. \A t, u \in Thread : t # u => live'[t] \intersect live'[u] = {}
    BY DEF LiveInv
  <1> QED
    BY <1>2, <1>3 DEF LiveInv

(* A step that touches no chunk keeps the walks of free() where they are.  *)
LEMMA FreeInvKept ==
  ASSUME FreeInv, chunks' = chunks, dirty' = dirty,
         \A u \in Thread : pc'[u] \in {"publish", "walk", "step"} =>
           /\ pc'[u] = pc[u] /\ current'[u] = current[u]
           /\ ptr'[u] = ptr[u] /\ live'[u] = live[u]
  PROVE  FreeInv'
  <1> SUFFICES ASSUME NEW u \in Thread PROVE FreeInvAt(u)'
    BY DEF FreeInv
  <1>1. CASE pc'[u] \in {"publish", "walk", "step"}
    <2>1. FreeInvAt(u)
      BY DEF FreeInv
    <2> QED
      BY <1>1, <2>1 DEF FreeInvAt, Matches, Pending, Clean, End
  <1>2. CASE pc'[u] \notin {"publish", "walk", "step"}
    BY <1>2 DEF FreeInvAt
  <1> QED
    BY <1>1, <1>2

(* Free chunks stay clean as long as neither chunks nor contents change. *)
LEMMA ZeroInvKept ==
  ASSUME ZeroInv, chunks' = chunks, dirty' = dirty
  PROVE  ZeroInv'
  BY DEF ZeroInv, Ids, Clean, End

(***************************************************************************)
(* Every step of allocate() and free() preserves the inductive invariant,  *)
(* one lemma for each action.                                              *)
(***************************************************************************)
(* Calling allocate() touches only the size the thread asks for. *)
LEMMA AllocateCallInv ==
  ASSUME IInv, NEW t \in Thread, NEW n \in Request, AllocateCall(t, n)
  PROVE  IInv'
  <1> USE RequestAssumption DEF AllocateCall, Goto, IInv, TypeOK
  <1>1. TypeOK'
    BY DEF Ids
  <1>2. (MutexInv /\ ChunksInv /\ DisjointInv /\ CoverInv)'
    BY DEF MutexInv, InCritical, ChunksInv, DisjointInv, CoverInv, End, Ids
  <1>3. AllocInv'
    BY DEF AllocInv, AllocInvAt, Holds, Clean, End, Ids
  <1>4. LiveInv'
    <2>1. chunks' = chunks /\ live' = live /\ LiveInv
      OBVIOUS
    <2>2. \A u \in Thread : Holds(u)' => Holds(u) /\ current'[u] = current[u]
      BY DEF Holds
    <2> QED
      BY <2>1, <2>2, LiveInvKept
  <1>5. FreeInv' /\ ZeroInv'
    <2>1. chunks' = chunks /\ dirty' = dirty
      OBVIOUS
    <2>2. \A u \in Thread : pc'[u] \in {"publish", "walk", "step"} =>
            /\ pc'[u] = pc[u] /\ current'[u] = current[u]
            /\ ptr'[u] = ptr[u] /\ live'[u] = live[u]
      OBVIOUS
    <2> QED
      BY <2>1, <2>2, FreeInvKept, ZeroInvKept
  <1>6. LinkInv'
    BY DEF LinkInv, Unlinked, End, Ids
  <1> QED
    BY <1>1, <1>2, <1>3, <1>4, <1>5, <1>6 DEF IInv

(* Taking memoryMutex: at most one thread is in the critical section. *)
LEMMA AllocateLockInv ==
  ASSUME IInv, NEW t \in Thread, AllocateLock(t)
  PROVE  IInv'
  <1> USE ConstantsAssumption DEF AllocateLock, Goto, IInv, TypeOK
  <1>1. TypeOK'
    BY DEF ChunksInv, Ids
  <1>2. (MutexInv /\ ChunksInv /\ DisjointInv /\ CoverInv)'
    BY DEF MutexInv, InCritical, ChunksInv, DisjointInv, CoverInv, End, Ids
  <1>3. AllocInv'
    BY DEF AllocInv, AllocInvAt, ChunksInv, Holds, Clean, End, Ids
  <1>4. LiveInv'
    <2>1. chunks' = chunks /\ live' = live /\ LiveInv
      OBVIOUS
    <2>2. \A u \in Thread : Holds(u)' => Holds(u) /\ current'[u] = current[u]
      BY DEF Holds
    <2> QED
      BY <2>1, <2>2, LiveInvKept
  <1>5. FreeInv' /\ ZeroInv'
    <2>1. chunks' = chunks /\ dirty' = dirty
      OBVIOUS
    <2>2. \A u \in Thread : pc'[u] \in {"publish", "walk", "step"} =>
            /\ pc'[u] = pc[u] /\ current'[u] = current[u]
            /\ ptr'[u] = ptr[u] /\ live'[u] = live[u]
      OBVIOUS
    <2> QED
      BY <2>1, <2>2, FreeInvKept, ZeroInvKept
  <1>6. LinkInv'
    BY DEF LinkInv, Unlinked, End, Ids
  <1> QED
    BY <1>1, <1>2, <1>3, <1>4, <1>5, <1>6 DEF IInv

(* The walk of allocate() goes to the next chunk or returns nullptr. *)
LEMMA AllocateSkipInv ==
  ASSUME IInv, NEW t \in Thread, AllocateSkip(t)
  PROVE  IInv'
  <1> USE ConstantsAssumption DEF AllocateSkip, Goto, IInv, TypeOK
  <1>a. current[t] \in Ids /\ chunks[current[t]].next \in 0 .. Len(chunks)
    BY DEF AllocInv, AllocInvAt, ChunksInv
  <1>b. \A u \in Thread : Holds(u)' => Holds(u) /\ current'[u] = current[u]
    BY DEF Holds
  <1>1. TypeOK'
    <2>1. CASE chunks[current[t]].next = 0
      BY <2>1
    <2>2. CASE chunks[current[t]].next # 0
      <3>1. chunks[current[t]].next \in Nat \ {0}
        BY <1>a, <2>2
      <3> QED
        BY <2>2, <3>1
    <2> QED
      BY <2>1, <2>2
  <1>2. (MutexInv /\ ChunksInv /\ DisjointInv /\ CoverInv)'
    BY DEF AllocInv, AllocInvAt, MutexInv, InCritical, ChunksInv, DisjointInv, CoverInv, End, Ids
  <1>3. AllocInv'
    <2> SUFFICES ASSUME NEW u \in Thread PROVE AllocInvAt(u)'
      BY DEF AllocInv
    <2>0. AllocInvAt(u)
      BY DEF AllocInv
    <2>1. /\ chunks' = chunks /\ dirty' = dirty /\ roundedSize' = roundedSize /\ Ids' = Ids
          /\ pc[t] = "try" /\ pc'[t] \in {"try", "idle"}
      BY DEF Ids
    <2>2. current'[u] \in Ids
      <3>1. current[u] \in Ids
        BY <2>0 DEF AllocInvAt
      <3>2. current'[u] = current[u] \/ (u = t /\ current'[t] = chunks[current[t]].next /\ chunks[current[t]].next # 0)
        OBVIOUS
      <3> QED
        BY <1>a, <3>1, <3>2 DEF Ids
    <2>3. CASE u = t
      <3>1. ~Holds(t)' /\ pc'[t] # "split" /\ pc'[t] # "link"
        BY <2>1 DEF Holds
      <3>2. pc'[t] \in {"lock", "try", "split", "link", "got"} => roundedSize'[t] > 0
        BY <2>0, <2>1, <2>3 DEF AllocInvAt
      <3> QED
        BY <2>1, <2>2, <2>3, <3>1, <3>2 DEF AllocInvAt
    <2>4. CASE u # t
      <3>1. pc'[u] = pc[u] /\ current'[u] = current[u]
        BY <2>4
      <3> HIDE DEF AllocateSkip, TypeOK, IInv
      <3> QED
        BY <2>0, <2>1, <3>1 DEF AllocInvAt, Holds, Clean, End
    <2> QED
      BY <2>3, <2>4
  <1>4. LiveInv'
    <2> HIDE DEF AllocateSkip, TypeOK
    <2>1. chunks' = chunks /\ live' = live
      BY DEF AllocateSkip
    <2> QED
      BY <1>b, <2>1, LiveInvKept
  <1>5. FreeInv' /\ ZeroInv'
    <2>1. chunks' = chunks /\ dirty' = dirty
      OBVIOUS
    <2>2. \A u \in Thread : pc'[u] \in {"publish", "walk", "step"} =>
            /\ pc'[u] = pc[u] /\ current'[u] = current[u]
            /\ ptr'[u] = ptr[u] /\ live'[u] = live[u]
      OBVIOUS
    <2> QED
      BY <2>1, <2>2, FreeInvKept, ZeroInvKept
  <1>6. LinkInv'
    BY DEF LinkInv, Unlinked, End, Ids
  <1> QED
    BY <1>1, <1>2, <1>3, <1>4, <1>5, <1>6 DEF IInv

(* allocate() returns a chunk that is clean and was in nobody's hands. *)
LEMMA AllocateReturnInv ==
  ASSUME IInv, NEW t \in Thread, AllocateReturn(t)
  PROVE  IInv'
  <1> USE DEF AllocateReturn, Goto, IInv, TypeOK
  <1> DEFINE i == current[t]
             new == RegionOf(chunks[i])
  <1>a. i \in Ids /\ ~chunks[i].free /\ Holds(t)
    BY DEF AllocInv, AllocInvAt, Holds
  <1>b. new \in Region
    BY <1>a, ChunkType DEF RegionOf, Region
  <1>c. \A u \in Thread : ~Holds(u)'
    BY DEF Holds, MutexInv, InCritical
  <1>d. \A u \in Thread : new \notin live[u]
    <2> SUFFICES ASSUME NEW u \in Thread, new \in live[u] PROVE FALSE
      OBVIOUS
    <2>1. PICK j \in Ids : new.addr = chunks[j].addr /\ current[t] # j
      BY <1>a, LiveChunk
    <2>2. chunks[i].addr = chunks[j].addr
      BY <2>1 DEF RegionOf
    <2> QED
      BY <1>a, <2>1, <2>2, SameAddress
  <1>1. TypeOK'
    BY <1>b DEF Ids
  <1>2. (MutexInv /\ ChunksInv /\ DisjointInv /\ CoverInv)'
    BY DEF MutexInv, InCritical, ChunksInv, DisjointInv, CoverInv, End, Ids
  <1>3. AllocInv'
    BY DEF AllocInv, AllocInvAt, Holds, Clean, End, Ids
  <1>4. LiveInv'
    <2>1. \A u \in Thread : \A r \in live'[u] : \E j \in Ids :
            RegionOf(chunks[j]) = r /\ ~chunks[j].free
      BY <1>a DEF LiveInv
    <2>2. \A u, v \in Thread : u # v => live'[u] \intersect live'[v] = {}
      BY <1>d DEF LiveInv
    <2> QED
      BY <1>c, <2>1, <2>2 DEF LiveInv, Ids, RegionOf
  <1>5. FreeInv' /\ ZeroInv'
    <2>1. chunks' = chunks /\ dirty' = dirty
      OBVIOUS
    <2>2. \A u \in Thread : pc'[u] \in {"publish", "walk", "step"} =>
            /\ pc'[u] = pc[u] /\ current'[u] = current[u]
            /\ ptr'[u] = ptr[u] /\ live'[u] = live[u]
      OBVIOUS
    <2> QED
      BY <2>1, <2>2, FreeInvKept, ZeroInvKept
  <1>6. LinkInv'
    BY DEF LinkInv, Unlinked, End, Ids
  <1> QED
    BY <1>1, <1>2, <1>3, <1>4, <1>5, <1>6 DEF IInv

(* free() is called with a region the thread holds: it lies ahead of the walk. *)
LEMMA FreeCallInv ==
  ASSUME IInv, NEW t \in Thread, NEW r \in live[t], FreeCall(t, r)
  PROVE  IInv'
  <1> USE ConstantsAssumption DEF FreeCall, Goto, IInv, TypeOK
  <1>1. TypeOK'
    BY DEF Region
  <1>2. (MutexInv /\ ChunksInv /\ DisjointInv /\ CoverInv)'
    BY DEF MutexInv, InCritical, ChunksInv, DisjointInv, CoverInv, End, Ids
  <1>3. AllocInv'
    <2> SUFFICES ASSUME NEW u \in Thread PROVE AllocInvAt(u)'
      BY DEF AllocInv
    <2>1. AllocInvAt(u) /\ chunks' = chunks /\ dirty' = dirty /\ roundedSize' = roundedSize
      BY DEF AllocInv
    <2>2. CASE u = t
      <3>1. pc'[t] = "walk" /\ current'[t] = 1 /\ 1 \in Ids'
        BY <2>1 DEF ChunksInv, Ids
      <3> QED
        BY <2>2, <3>1 DEF AllocInvAt, Holds
    <2>3. CASE u # t
      <3>1. pc'[u] = pc[u] /\ current'[u] = current[u]
        BY <2>3
      <3> QED
        BY <2>1, <3>1 DEF AllocInvAt, Holds, Clean, End, Ids
    <2> QED
      BY <2>2, <2>3
  <1>4. LiveInv'
    <2>1. chunks' = chunks /\ live' = live /\ LiveInv
      OBVIOUS
    <2>2. \A u \in Thread : Holds(u)' => Holds(u) /\ current'[u] = current[u]
      BY DEF Holds
    <2> QED
      BY <2>1, <2>2, LiveInvKept
  <1>5. FreeInv' /\ ZeroInv'
    <2>1. chunks' = chunks /\ dirty' = dirty /\ live' = live
      OBVIOUS
    <2>2. ASSUME NEW u \in Thread, u # t PROVE FreeInvAt(u)'
      <3>1. FreeInvAt(u) /\ pc'[u] = pc[u] /\ current'[u] = current[u] /\ ptr'[u] = ptr[u]
        BY <2>2 DEF FreeInv
      <3> QED
        BY <2>1, <3>1 DEF FreeInvAt, Matches, Pending, Clean, End
    <2>3. FreeInvAt(t)'
      <3>1. pc'[t] = "walk" /\ current'[t] = 1 /\ ptr'[t] = r.addr /\ r \in live'[t]
        OBVIOUS
      <3>2. chunks'[1].addr = 0 /\ r.addr \in Nat
        BY <2>1 DEF ChunksInv, Region
      <3>3. Pending(t)' /\ chunks'[current'[t]].addr <= ptr'[t]
        BY <3>1, <3>2 DEF Pending
      <3> QED
        BY <3>1, <3>3 DEF FreeInvAt
    <2> QED
      BY <2>1, <2>2, <2>3, ZeroInvKept DEF FreeInv
  <1>6. LinkInv'
    BY DEF LinkInv, Unlinked, End, Ids
  <1> QED
    BY <1>1, <1>2, <1>3, <1>4, <1>5, <1>6 DEF IInv

(* The memset of free() cleans its own chunk and dirties none. *)
LEMMA FreeWipeInv ==
  ASSUME IInv, NEW t \in Thread, FreeWipe(t)
  PROVE  IInv'
  <1> USE DEF FreeWipe, Goto, IInv, TypeOK
  <1>a. current[t] \in Ids
    BY DEF AllocInv, AllocInvAt
  <1>b. Clean(chunks'[current[t]], dirty')
    <2>1. chunks[current[t]].addr \in Int /\ chunks[current[t]].size \in Int
      BY <1>a, ChunkType
    <2> QED
      BY <2>1, SMTT(30) DEF Clean, Cells, End, Cell
  <1>c. Pending(t)
    BY <1>a, ChunkType DEF FreeInv, FreeInvAt, Matches
  <1>1. TypeOK'
    BY DEF Ids
  <1>2. (MutexInv /\ ChunksInv /\ DisjointInv /\ CoverInv)'
    BY DEF MutexInv, InCritical, ChunksInv, DisjointInv, CoverInv, End, Ids
  <1>3. AllocInv'
    BY DEF AllocInv, AllocInvAt, Holds, Clean, End, Ids
  <1>4. LiveInv'
    <2>1. chunks' = chunks /\ live' = live /\ LiveInv
      OBVIOUS
    <2>2. \A u \in Thread : Holds(u)' => Holds(u) /\ current'[u] = current[u]
      BY DEF Holds
    <2> QED
      BY <2>1, <2>2, LiveInvKept
  <1>5. FreeInv' /\ ZeroInv'
    <2>1. FreeInv'
      BY <1>b, <1>c DEF FreeInv, FreeInvAt, Matches, Pending, Clean, End
    <2> QED
      BY <2>1 DEF ZeroInv, Clean, End, Ids
  <1>6. LinkInv'
    BY DEF LinkInv, Unlinked, End, Ids
  <1> QED
    BY <1>1, <1>2, <1>3, <1>4, <1>5, <1>6 DEF IInv

(* The unlocked walk of free() goes on: no link jumps over the chunk it is *)
(* looking for, not even while a split is half done.                       *)
LEMMA FreeStepInv ==
  ASSUME IInv, NEW t \in Thread, FreeStep(t)
  PROVE  IInv'
  <1> USE DEF FreeStep, Goto, IInv, TypeOK
  <1> DEFINE c == chunks[current[t]]
  <1>a. current[t] \in Ids /\ c.next \in 0 .. Len(chunks)
    BY DEF AllocInv, AllocInvAt, ChunksInv
  <1>b. \A u \in Thread : Holds(u)' => Holds(u) /\ current'[u] = current[u]
    BY DEF Holds
  <1>c. \A u \in Thread : Pending(u)' <=> Pending(u)
    BY DEF Pending
  <1>d. c.addr \in Int /\ c.size \in Int /\ ptr[t] \in Int
    BY <1>a, ChunkType
  <1>e. pc[t] = "walk" => c.addr # ptr[t]
    BY DEF Matches
  <1>1. TypeOK'
    <2>1. CASE c.next = 0
      BY <2>1
    <2>2. CASE c.next # 0
      <3>1. c.next \in Nat \ {0}
        BY <1>a, <2>2
      <3> QED
        BY <2>2, <3>1
    <2> QED
      BY <2>1, <2>2
  <1>2. (MutexInv /\ ChunksInv /\ DisjointInv /\ CoverInv)'
    BY DEF MutexInv, InCritical, ChunksInv, DisjointInv, CoverInv, End, Ids
  <1>3. AllocInv'
    BY <1>a, <1>b DEF AllocInv, AllocInvAt, ChunksInv, Holds, Clean, End, Ids
  <1>4. LiveInv'
    <2>1. chunks' = chunks /\ live' = live
      OBVIOUS
    <2> QED
      BY <1>b, <2>1, LiveInvKept
  <1>5. FreeInv' /\ ZeroInv'
    <2>1. CASE c.next = 0
      BY <2>1 DEF FreeInv, FreeInvAt, ZeroInv, Matches, Pending, Clean, End, Ids
    <2>2. CASE c.next # 0
      <3>1. c.next \in Ids /\ chunks[c.next].addr >= c.addr + c.size /\ c.size > 0
        BY <1>a, <2>2 DEF Ids, LinkInv, End, ChunksInv
      <3>2. ASSUME pc[t] = "walk", Pending(t)
            PROVE  chunks[c.next].addr <= ptr[t]
        <4>1. PICK r \in live[t] : r.addr = ptr[t]
          BY <3>2 DEF Pending
        <4>2. PICK j \in Ids : r.addr = chunks[j].addr /\ ~chunks[j].free
          BY <4>1, LiveChunk
        <4>3. ~Unlinked(j)
          BY <4>2 DEF Unlinked, AllocInv, AllocInvAt
        <4>4. c.addr < chunks[j].addr
          <5>1. c.addr <= ptr[t]
            BY <3>2 DEF FreeInv, FreeInvAt
          <5>2. c.addr < ptr[t]
            BY <1>d, <1>e, <3>2, <5>1
          <5> QED
            BY <4>1, <4>2, <5>2
        <4> QED
          BY <1>a, <4>1, <4>2, <4>3, <4>4 DEF LinkInv
      <3>3. ASSUME ~Pending(t)
            PROVE  chunks[c.next].addr > ptr[t]
        <4>1. chunks[c.next].addr \in Int
          BY <3>1, ChunkType
        <4>2. c.addr >= ptr[t]
          BY <1>d, <3>3 DEF FreeInv, FreeInvAt, Matches
        <4> QED
          BY <1>d, <3>1, <4>1, <4>2
      <3>4. pc[t] = "step" => ~Pending(t)
        BY DEF FreeInv, FreeInvAt
      <3>5. FreeInv'
        BY <1>a, <1>c, <2>2, <3>2, <3>3, <3>4 DEF FreeInv, FreeInvAt, Matches, Clean, End
      <3> QED
        BY <3>5 DEF ZeroInv, Clean, End, Ids
    <2> QED
      BY <2>1, <2>2
  <1>6. LinkInv'
    BY DEF LinkInv, Unlinked, End, Ids
  <1> QED
    BY <1>1, <1>2, <1>3, <1>4, <1>5, <1>6 DEF IInv

(* A region inside the buffer consists of cells of the buffer. *)
LEMMA CellsInside ==
  ASSUME NEW r, r.addr \in 0 .. MemSize, r.size \in 0 .. MemSize, r.addr + r.size <= MemSize
  PROVE  Cells(r) \subseteq Cell
  BY ConstantsAssumption DEF Cells, Cell

(* Writing to the region of one chunk leaves the other chunks clean. *)
LEMMA CleanElsewhere ==
  ASSUME TypeOK, DisjointInv, NEW i \in Ids, NEW r, r.addr = chunks[i].addr,
         r.size = chunks[i].size, NEW j \in Ids, j # i, Clean(chunks[j], dirty)
  PROVE  Clean(chunks[j], dirty \union Cells(r))
  <1> SUFFICES ASSUME NEW a \in dirty \union Cells(r), chunks[j].addr <= a, a < End(chunks[j])
               PROVE  FALSE
    BY DEF Clean
  <1>1. a \in Cells(r)
    BY DEF Clean
  <1>2. chunks[i].addr \in Int /\ chunks[i].size \in Int
    BY ChunkType
  <1>3. a \in Int /\ chunks[i].addr <= a /\ a < End(chunks[i])
    BY <1>1, <1>2 DEF Cells, End
  <1> QED
    BY <1>3, ChunksApart

(* The program writes to a region it holds: free chunks stay clean. *)
LEMMA WriteInv ==
  ASSUME IInv, NEW t \in Thread, NEW r \in live[t], Write(t, r)
  PROVE  IInv'
  <1> USE DEF Write, Goto, IInv, TypeOK
  <1>a. PICK i \in Ids : /\ r.addr = chunks[i].addr /\ r.size = chunks[i].size
                          /\ r = RegionOf(chunks[i]) /\ ~chunks[i].free
                          /\ \A u \in Thread : Holds(u) => current[u] # i
    BY LiveChunk
  <1>b. \A j \in Ids : j # i /\ Clean(chunks[j], dirty) => Clean(chunks'[j], dirty')
    <2>1. chunks' = chunks /\ dirty' = dirty \union Cells(r) /\ TypeOK /\ DisjointInv
      OBVIOUS
    <2> QED
      BY <1>a, <2>1, CleanElsewhere
  <1>c. \A u \in Thread : pc[u] = "publish" => current[u] # i
    <2> SUFFICES ASSUME NEW u \in Thread, pc[u] = "publish", current[u] = i PROVE FALSE
      OBVIOUS
    <2>1. PICK q \in live[u] : q.addr = ptr[u]
      BY DEF FreeInv, FreeInvAt, Pending
    <2>2. PICK j \in Ids : q.addr = chunks[j].addr /\ q = RegionOf(chunks[j])
      BY LiveChunk
    <2>3. j = i
      BY <2>1, <2>2, SameAddress DEF FreeInv, FreeInvAt, Matches
    <2>4. q = r
      BY <1>a, <2>2, <2>3
    <2>5. pc[t] = "idle" /\ r \in live[t]
      OBVIOUS
    <2>6. u # t
      BY <2>5
    <2> QED
      BY <2>1, <2>4, <2>5, <2>6 DEF LiveInv
  <1>1. TypeOK'
    <2>1. Cells(r) \subseteq Cell
      <3>1. r.addr \in 0 .. MemSize /\ r.size \in 0 .. MemSize /\ r.addr + r.size <= MemSize
        BY <1>a, ChunkType DEF ChunksInv, End
      <3> QED
        BY <3>1, CellsInside
    <2> QED
      BY <2>1
  <1>2. (MutexInv /\ ChunksInv /\ DisjointInv /\ CoverInv)'
    BY DEF MutexInv, InCritical, ChunksInv, DisjointInv, CoverInv, End, Ids
  <1>3. AllocInv'
    BY <1>a, <1>b DEF AllocInv, AllocInvAt, Holds, End, Ids
  <1>4. LiveInv'
    <2>1. chunks' = chunks /\ live' = live /\ LiveInv
      OBVIOUS
    <2>2. \A u \in Thread : Holds(u)' => Holds(u) /\ current'[u] = current[u]
      BY DEF Holds
    <2> QED
      BY <2>1, <2>2, LiveInvKept
  <1>5. FreeInv' /\ ZeroInv'
    <2>1. ZeroInv'
      BY <1>a, <1>b DEF ZeroInv, Ids
    <2>2. FreeInv'
      BY <1>b, <1>c DEF FreeInv, FreeInvAt, Matches, Pending, AllocInv, AllocInvAt
    <2> QED
      BY <2>1, <2>2
  <1>6. LinkInv'
    BY DEF LinkInv, Unlinked, End, Ids
  <1> QED
    BY <1>1, <1>2, <1>3, <1>4, <1>5, <1>6 DEF IInv

(* The compare-and-swap takes a free chunk, which no live region is on. *)
LEMMA AllocateAcquireInv ==
  ASSUME IInv, NEW t \in Thread, AllocateAcquire(t)
  PROVE  IInv'
  <1> USE DEF IInv
  <1> DEFINE i == current[t]
  <1>a. i \in Ids /\ chunks[i].free /\ roundedSize[t] <= chunks[i].size /\ pc[t] = "try"
    BY DEF AllocInv, AllocInvAt, AllocateAcquire, Fits
  <1>b. /\ chunks' \in Seq(Chunk) /\ Len(chunks') = Len(chunks) /\ Len(chunks) \in Nat /\ Ids' = Ids
        /\ \A j \in Ids :
             /\ chunks'[j].addr = chunks[j].addr /\ chunks'[j].size = chunks[j].size
             /\ chunks'[j].next = chunks[j].next
             /\ chunks'[j].free = IF j = i THEN FALSE ELSE chunks[j].free
    <2>1. chunks \in Seq(Chunk) /\ i \in 1 .. Len(chunks) /\ chunks' = [chunks EXCEPT ![i].free = FALSE]
      BY <1>a DEF Ids, TypeOK, AllocateAcquire
    <2>2. /\ chunks' \in Seq(Chunk) /\ Len(chunks') = Len(chunks)
          /\ \A j \in 1 .. Len(chunks) :
               /\ chunks'[j].addr = chunks[j].addr /\ chunks'[j].size = chunks[j].size
               /\ chunks'[j].next = chunks[j].next
               /\ chunks'[j].free = IF j = i THEN FALSE ELSE chunks[j].free
      <3> HIDE DEF i
      <3> QED
        BY <2>1, SetFree
    <2> QED
      BY <2>1, <2>2 DEF Ids
  <1>c. \A u \in Thread : u # t => pc'[u] = pc[u]
    BY DEF AllocateAcquire, Goto, TypeOK
  <1>d. /\ pc'[t] \in {"split", "got"} /\ roundedSize[t] > 0
        /\ pc'[t] = "split" => chunks[i].size > roundedSize[t]
    BY <1>a DEF AllocateAcquire, Goto, TypeOK, AllocInv, AllocInvAt
  <1>e. UNCHANGED <<memoryMutex, current, roundedSize, ptr, live, dirty>>
    BY DEF AllocateAcquire
  <1>f. \A u \in Thread : u # t => ~Holds(u)' /\ ~InCritical(u)'
    BY <1>a, <1>c DEF Holds, MutexInv, InCritical
  <1>1. TypeOK'
    BY <1>b, <1>e DEF TypeOK, AllocateAcquire, Goto
  <1>2. (MutexInv /\ ChunksInv /\ DisjointInv /\ CoverInv)'
    <2>1. MutexInv'
      BY <1>a, <1>e, <1>f DEF MutexInv, InCritical
    <2>2. ChunksInv'
      <3>1. 1 \in Ids
        BY <1>b DEF ChunksInv, Ids
      <3>2. \A j \in Ids : /\ chunks'[j].size > 0 /\ End(chunks'[j]) <= MemSize
                            /\ chunks'[j].next \in 0 .. Len(chunks)
        BY <1>b DEF ChunksInv, End
      <3> QED
        BY <1>b, <3>1, <3>2 DEF ChunksInv
    <2> QED
      BY <1>b, <2>1, <2>2 DEF DisjointInv, CoverInv, End
  <1>3. AllocInv'
    <2>1. Clean(chunks[i], dirty)
      BY <1>a DEF ZeroInv
    <2>2. Clean(chunks'[i], dirty')
      BY <1>a, <1>b, <1>e, <2>1 DEF Clean, End
    <2> QED
      BY <1>a, <1>b, <1>c, <1>d, <1>e, <1>f, <2>2, ZenonT(60) DEF AllocInv, AllocInvAt, Holds
  <1>4. LiveInv'
    <2>1. ASSUME NEW u \in Thread, NEW r \in live[u]
          PROVE  \E j \in Ids : /\ RegionOf(chunks'[j]) = r /\ ~chunks'[j].free
                                /\ \A v \in Thread : Holds(v)' => current'[v] # j
      <3>1. PICK j \in Ids : RegionOf(chunks[j]) = r /\ ~chunks[j].free
        BY DEF LiveInv
      <3>2. j # i
        BY <1>a, <3>1
      <3> QED
        BY <1>b, <1>e, <1>f, <3>1, <3>2 DEF RegionOf
    <2> QED
      BY <1>b, <1>e, <2>1 DEF LiveInv, RegionOf
  <1>5. FreeInv' /\ ZeroInv'
    <2>1. \A u \in Thread : Pending(u)' <=> Pending(u)
      BY <1>e DEF Pending
    <2>2. \A j \in Ids : Clean(chunks[j], dirty) => Clean(chunks'[j], dirty')
      BY <1>b, <1>e DEF Clean, End
    <2>3. FreeInv'
      <3>1. \A u \in Thread : chunks'[current'[u]].addr = chunks[current[u]].addr
        BY <1>b, <1>e DEF AllocInv, AllocInvAt
      <3>2. \A u \in Thread :
              Clean(chunks[current[u]], dirty) => Clean(chunks[current[u]], dirty)'
        BY <1>b, <1>e, <2>2 DEF AllocInv, AllocInvAt
      <3> QED
        <4> SUFFICES ASSUME NEW u \in Thread PROVE FreeInvAt(u)'
          BY DEF FreeInv
        <4>1. CASE u = t
          BY <1>d, <4>1 DEF FreeInvAt
        <4>2. CASE u # t
          <5>1. /\ FreeInvAt(u) /\ pc'[u] = pc[u] /\ ptr'[u] = ptr[u]
                /\ Pending(u)' <=> Pending(u)
            BY <1>c, <1>e, <2>1, <4>2 DEF FreeInv
          <5>2. Matches(u)' <=> Matches(u)
            BY <3>1, <5>1 DEF Matches
          <5> QED
            BY <3>1, <3>2, <5>1, <5>2 DEF FreeInvAt
        <4> QED
          BY <4>1, <4>2
    <2> QED
      BY <1>b, <2>2, <2>3 DEF ZeroInv
  <1>6. LinkInv'
    <2>1. \A j \in Ids : Unlinked(j)' <=> Unlinked(j)
      BY <1>a, <1>b, <1>c, <1>d DEF Unlinked
    <2>2. \A j \in Ids : chunks[j].next # 0 => chunks[j].next \in Ids
      BY <1>b DEF ChunksInv, Ids
    <2> QED
      <3>1. ASSUME NEW j \in Ids, chunks'[j].next # 0
            PROVE  chunks'[chunks'[j].next].addr >= chunks'[j].addr + chunks'[j].size
        <4>1. chunks'[j].next = chunks[j].next /\ chunks[j].next \in Ids
          BY <1>b, <2>2, <3>1
        <4>2. chunks'[chunks'[j].next].addr = chunks[chunks[j].next].addr
          BY <1>b, <4>1
        <4> QED
          BY <1>b, <3>1, <4>1, <4>2 DEF LinkInv, End
      <3>2. ASSUME NEW j \in Ids, NEW k \in Ids, chunks'[k].addr > chunks'[j].addr, ~Unlinked(k)'
            PROVE  chunks'[j].next # 0 /\ chunks'[chunks'[j].next].addr <= chunks'[k].addr
        <4>1. chunks[j].next # 0 /\ chunks[chunks[j].next].addr <= chunks[k].addr
          BY <1>b, <2>1, <3>2 DEF LinkInv
        <4>2. chunks'[j].next = chunks[j].next /\ chunks[j].next \in Ids
          BY <1>b, <2>2, <4>1
        <4>3. chunks'[chunks'[j].next].addr = chunks[chunks[j].next].addr
          BY <1>b, <4>2
        <4> QED
          BY <1>b, <4>1, <4>2, <4>3
      <3> QED
        BY <1>b, <3>1, <3>2, Zenon DEF LinkInv, End
  <1> QED
    BY <1>1, <1>2, <1>3, <1>4, <1>5, <1>6 DEF IInv

(* Setting the flag gives back a clean chunk and ends one live region. *)
LEMMA FreePublishInv ==
  ASSUME IInv, NEW t \in Thread, FreePublish(t)
  PROVE  IInv'
  <1> USE DEF IInv
  <1> DEFINE i == current[t]
  <1>a. i \in Ids /\ pc[t] = "publish" /\ chunks[i].addr = ptr[t] /\ Clean(chunks[i], dirty)
    BY DEF AllocInv, AllocInvAt, FreePublish, FreeInv, FreeInvAt, Matches
  <1>b. /\ chunks' \in Seq(Chunk) /\ Len(chunks') = Len(chunks) /\ Len(chunks) \in Nat /\ Ids' = Ids
        /\ \A j \in Ids :
             /\ chunks'[j].addr = chunks[j].addr /\ chunks'[j].size = chunks[j].size
             /\ chunks'[j].next = chunks[j].next
             /\ chunks'[j].free = IF j = i THEN TRUE ELSE chunks[j].free
    <2>1. chunks \in Seq(Chunk) /\ i \in 1 .. Len(chunks) /\ chunks' = [chunks EXCEPT ![i].free = TRUE]
      BY <1>a DEF Ids, TypeOK, FreePublish
    <2>2. /\ chunks' \in Seq(Chunk) /\ Len(chunks') = Len(chunks)
          /\ \A j \in 1 .. Len(chunks) :
               /\ chunks'[j].addr = chunks[j].addr /\ chunks'[j].size = chunks[j].size
               /\ chunks'[j].next = chunks[j].next
               /\ chunks'[j].free = IF j = i THEN TRUE ELSE chunks[j].free
      <3> HIDE DEF i
      <3> QED
        BY <2>1, SetFree
    <2> QED
      BY <2>1, <2>2 DEF Ids
  <1>c. pc' = [pc EXCEPT ![t] = "step"]
    BY DEF FreePublish, Goto
  <1>d. UNCHANGED <<memoryMutex, current, roundedSize, ptr, dirty>>
    BY DEF FreePublish
  <1>e. \A u \in Thread : live'[u] = IF u = t THEN {r \in live[t] : r.addr # ptr[t]} ELSE live[u]
    BY DEF FreePublish, TypeOK
  <1>f. PICK r0 \in live[t] : r0.addr = ptr[t] /\ r0 = RegionOf(chunks[i])
                             /\ \A u \in Thread : Holds(u) => current[u] # i
    <2>1. PICK r \in live[t] : r.addr = ptr[t]
      BY <1>a DEF FreeInv, FreeInvAt, Pending
    <2>2. PICK j \in Ids : /\ r.addr = chunks[j].addr /\ r = RegionOf(chunks[j])
                            /\ \A u \in Thread : Holds(u) => current[u] # j
      BY LiveChunk
    <2>3. j = i
      BY <1>a, <2>1, <2>2, SameAddress
    <2> QED
      BY <2>1, <2>2, <2>3
  <1>g. \A u \in Thread : Holds(u)' <=> Holds(u)
    BY <1>a, <1>c DEF Holds, TypeOK
  <1>h. \A j \in Ids : Clean(chunks[j], dirty) => Clean(chunks'[j], dirty')
    BY <1>b, <1>d DEF Clean, End
  <1>1. TypeOK'
    BY <1>b, <1>c, <1>d DEF TypeOK, FreePublish
  <1>2. (MutexInv /\ ChunksInv /\ DisjointInv /\ CoverInv)'
    <2>1. MutexInv'
      BY <1>c, <1>d DEF MutexInv, InCritical, TypeOK
    <2>2. ChunksInv'
      <3>1. 1 \in Ids
        BY <1>b DEF ChunksInv, Ids
      <3>2. \A j \in Ids : /\ chunks'[j].size > 0 /\ End(chunks'[j]) <= MemSize
                            /\ chunks'[j].next \in 0 .. Len(chunks)
        BY <1>b DEF ChunksInv, End
      <3> QED
        BY <1>b, <3>1, <3>2 DEF ChunksInv
    <2> QED
      BY <1>b, <2>1, <2>2 DEF DisjointInv, CoverInv, End
  <1>3. AllocInv'
    <2>1. \A u \in Thread : u # t => pc'[u] = pc[u]
      BY <1>c DEF TypeOK
    <2>2. \A u \in Thread : Holds(u)' => ~chunks'[current[u]].free /\ Clean(chunks'[current[u]], dirty')
      BY <1>b, <1>f, <1>g, <1>h DEF AllocInv, AllocInvAt
    <2>3. pc'[t] = "step"
      BY <1>c DEF TypeOK
    <2>4. Len(chunks) \in Ids
      BY DEF ChunksInv, Ids, TypeOK
    <2> QED
      <3>1. \A u \in Thread : u # t /\ pc[u] = "link" =>
              /\ chunks'[Len(chunks)].free
              /\ chunks'[Len(chunks)].addr = End(chunks'[current[u]])
        BY <1>b, <2>4 DEF AllocInv, AllocInvAt, End
      <3> QED
        <4> SUFFICES ASSUME NEW u \in Thread PROVE AllocInvAt(u)'
          BY DEF AllocInv
        <4>1. CASE u = t
          BY <1>b, <1>d, <2>3, <4>1 DEF AllocInv, AllocInvAt, Holds
        <4>2. CASE u # t
          BY <1>b, <1>d, <2>1, <2>2, <3>1, <4>2 DEF AllocInv, AllocInvAt, Clean, End
        <4> QED
          BY <4>1, <4>2
  <1>4. LiveInv'
    <2>1. ASSUME NEW u \in Thread, NEW r \in live'[u]
          PROVE  \E j \in Ids : /\ RegionOf(chunks'[j]) = r /\ ~chunks'[j].free
                                /\ \A v \in Thread : Holds(v)' => current'[v] # j
      <3>1. r \in live[u] /\ (u = t => r.addr # ptr[t])
        BY <1>e
      <3>2. PICK j \in Ids : /\ RegionOf(chunks[j]) = r /\ ~chunks[j].free
                              /\ \A v \in Thread : Holds(v) => current[v] # j
        BY <3>1 DEF LiveInv
      <3>3. j # i
        <4> SUFFICES ASSUME j = i PROVE FALSE
          OBVIOUS
        <4>1. r = r0 /\ u # t
          BY <1>f, <3>1, <3>2
        <4> QED
          BY <3>1, <4>1 DEF LiveInv
      <3> QED
        BY <1>b, <1>d, <1>g, <3>2, <3>3 DEF RegionOf
    <2>2. \A u, v \in Thread : u # v => live'[u] \intersect live'[v] = {}
      BY <1>e DEF LiveInv
    <2> QED
      BY <1>b, <2>1, <2>2 DEF LiveInv, RegionOf
  <1>5. FreeInv' /\ ZeroInv'
    <2>1. \A u \in Thread : u # t => (Pending(u)' <=> Pending(u)) /\ pc'[u] = pc[u]
      BY <1>c, <1>d, <1>e DEF Pending, TypeOK
    <2>2. ~Pending(t)' /\ pc'[t] = "step"
      BY <1>c, <1>d, <1>e DEF Pending, TypeOK
    <2>3. FreeInv'
      <3>1. \A u \in Thread : chunks'[current'[u]].addr = chunks[current[u]].addr
        BY <1>b, <1>d DEF AllocInv, AllocInvAt
      <3>2. \A u \in Thread :
              Clean(chunks[current[u]], dirty) => Clean(chunks[current[u]], dirty)'
        BY <1>b, <1>d, <1>h DEF AllocInv, AllocInvAt
      <3> QED
        <4> SUFFICES ASSUME NEW u \in Thread PROVE FreeInvAt(u)'
          BY DEF FreeInv
        <4>1. CASE u = t
          <5>1. ptr'[t] = chunks'[current'[t]].addr
            BY <1>a, <1>d, <3>1
          <5> QED
            BY <2>2, <4>1, <5>1 DEF FreeInvAt, Matches
        <4>2. CASE u # t
          <5>1. /\ FreeInvAt(u) /\ pc'[u] = pc[u] /\ ptr'[u] = ptr[u]
                /\ Pending(u)' <=> Pending(u)
            BY <1>d, <2>1, <4>2 DEF FreeInv
          <5>2. Matches(u)' <=> Matches(u)
            BY <3>1, <5>1 DEF Matches
          <5> QED
            BY <3>1, <3>2, <5>1, <5>2 DEF FreeInvAt
        <4> QED
          BY <4>1, <4>2
    <2> QED
      BY <1>a, <1>b, <1>h, <2>3 DEF ZeroInv
  <1>6. LinkInv'
    <2>1. \A j \in Ids : Unlinked(j)' <=> Unlinked(j)
      BY <1>a, <1>b, <1>c DEF Unlinked, TypeOK
    <2>2. \A j \in Ids : chunks[j].next # 0 => chunks[j].next \in Ids
      BY <1>b DEF ChunksInv, Ids
    <2> QED
      <3>1. ASSUME NEW j \in Ids, chunks'[j].next # 0
            PROVE  chunks'[chunks'[j].next].addr >= chunks'[j].addr + chunks'[j].size
        <4>1. chunks'[j].next = chunks[j].next /\ chunks[j].next \in Ids
          BY <1>b, <2>2, <3>1
        <4>2. chunks'[chunks'[j].next].addr = chunks[chunks[j].next].addr
          BY <1>b, <4>1
        <4> QED
          BY <1>b, <3>1, <4>1, <4>2 DEF LinkInv, End
      <3>2. ASSUME NEW j \in Ids, NEW k \in Ids, chunks'[k].addr > chunks'[j].addr, ~Unlinked(k)'
            PROVE  chunks'[j].next # 0 /\ chunks'[chunks'[j].next].addr <= chunks'[k].addr
        <4>1. chunks[j].next # 0 /\ chunks[chunks[j].next].addr <= chunks[k].addr
          BY <1>b, <2>1, <3>2 DEF LinkInv
        <4>2. chunks'[j].next = chunks[j].next /\ chunks[j].next \in Ids
          BY <1>b, <2>2, <4>1
        <4>3. chunks'[chunks'[j].next].addr = chunks[chunks[j].next].addr
          BY <1>b, <4>2
        <4> QED
          BY <1>b, <4>1, <4>2, <4>3
      <3> QED
        BY <1>b, <3>1, <3>2, Zenon DEF LinkInv, End
  <1> QED
    BY <1>1, <1>2, <1>3, <1>4, <1>5, <1>6 DEF IInv

(* Shortening a chunk and creating its rest keeps the chunks disjoint and  *)
(* covering, and other threads' walks on the right side of their chunks.    *)
LEMMA AllocateSplitInv ==
  ASSUME IInv, NEW t \in Thread, AllocateSplit(t)
  PROVE  IInv'
  <1> USE DEF IInv
  <1> DEFINE i == current[t]
             n == Len(chunks) + 1
             e == [addr |-> chunks[i].addr + roundedSize[t],
                   size |-> chunks[i].size - roundedSize[t],
                   free |-> TRUE, next |-> chunks[i].next]
  <1>a. /\ i \in Ids /\ pc[t] = "split" /\ ~chunks[i].free /\ Len(chunks) \in Nat
        /\ roundedSize[t] \in Nat /\ roundedSize[t] > 0 /\ chunks[i].size > roundedSize[t]
    BY DEF AllocInv, AllocInvAt, AllocateSplit, Holds, TypeOK
  <1>w. Holds(t) /\ InCritical(t) /\ Clean(chunks[i], dirty)
    BY <1>a DEF AllocInv, AllocInvAt, Holds, InCritical
  <1>b. /\ chunks[i].addr \in Nat /\ chunks[i].size \in Nat /\ chunks[i].next \in 0 .. Len(chunks)
        /\ chunks[i].addr + chunks[i].size <= MemSize /\ MemSize \in Nat
    BY <1>a, ChunkType, ConstantsAssumption DEF ChunksInv, End
  <1>c. e \in Chunk
    <2>1. /\ chunks[i].addr + roundedSize[t] \in 0 .. MemSize
          /\ chunks[i].size - roundedSize[t] \in 0 .. MemSize /\ chunks[i].next \in Nat
      <3>1. /\ roundedSize[t] \in Nat /\ chunks[i].size > roundedSize[t]
            /\ chunks[i].addr \in Nat /\ chunks[i].size \in Nat /\ MemSize \in Nat
            /\ chunks[i].addr + chunks[i].size <= MemSize
        BY <1>a, <1>b
      <3> HIDE DEF i
      <3>2. chunks[i].next \in Nat
        BY <1>b
      <3> QED
        BY <3>1, <3>2
    <2> QED
      BY <2>1 DEF Chunk
  <1>d. /\ chunks' \in Seq(Chunk) /\ Len(chunks') = n /\ Ids' = Ids \union {n} /\ n \notin Ids
        /\ chunks'[n] = e
        /\ \A j \in Ids : /\ chunks'[j].addr = chunks[j].addr /\ chunks'[j].next = chunks[j].next
                           /\ chunks'[j].free = chunks[j].free
                           /\ chunks'[j].size = IF j = i THEN roundedSize[t] ELSE chunks[j].size
    <2>1. chunks' = Append([chunks EXCEPT ![i].size = roundedSize[t]], e)
      BY DEF AllocateSplit
    <2>2. roundedSize[t] \in 0 .. MemSize /\ chunks \in Seq(Chunk) /\ i \in 1 .. Len(chunks)
      BY <1>a, <1>b DEF TypeOK, Ids
    <2> HIDE DEF e, i
    <2>3. /\ chunks' \in Seq(Chunk) /\ Len(chunks') = Len(chunks) + 1
          /\ chunks'[Len(chunks) + 1] = e
          /\ \A j \in 1 .. Len(chunks) :
               /\ chunks'[j].addr = chunks[j].addr /\ chunks'[j].next = chunks[j].next
               /\ chunks'[j].free = chunks[j].free
               /\ chunks'[j].size = IF j = i THEN roundedSize[t] ELSE chunks[j].size
      BY <1>c, <2>1, <2>2, SplitChunk
    <2> QED
      BY <1>a, <2>3 DEF Ids
  <1>e. /\ e.addr = chunks[i].addr + roundedSize[t] /\ e.size = chunks[i].size - roundedSize[t]
        /\ e.free = TRUE /\ e.next = chunks[i].next
    OBVIOUS
  <1>f. \A u \in Thread : u # t => /\ pc'[u] = pc[u] /\ ~InCritical(u) /\ ~InCritical(u)'
                                    /\ ~Holds(u) /\ ~Holds(u)'
    BY <1>a, <1>w DEF AllocateSplit, Goto, TypeOK, MutexInv, InCritical, Holds
  <1>g. pc'[t] = "link"
    BY DEF AllocateSplit, Goto, TypeOK
  <1>h. UNCHANGED <<memoryMutex, current, roundedSize, ptr, live, dirty>>
    BY DEF AllocateSplit
  <1>i. \A j \in Ids : chunks[j].addr \in Int /\ chunks[j].size \in Int
    BY ChunkType
  <1>k. \A j \in Ids : chunks'[j].size \in Int /\ 0 < chunks'[j].size /\ chunks'[j].size <= chunks[j].size
    <2> SUFFICES ASSUME NEW j \in Ids
                 PROVE  chunks'[j].size \in Int /\ 0 < chunks'[j].size /\ chunks'[j].size <= chunks[j].size
      OBVIOUS
    <2>1. CASE j = i
      BY <1>a, <1>b, <1>d, <2>1
    <2>2. CASE j # i
      BY <1>d, <1>i, <2>2 DEF ChunksInv
    <2> QED
      BY <2>1, <2>2
  <1>l. chunks'[i].size = roundedSize[t]
    BY <1>a, <1>d
  <1> HIDE DEF e, i, n
  <1>1. TypeOK'
    BY <1>d, <1>h DEF TypeOK, AllocateSplit, Goto
  <1>2. (MutexInv /\ ChunksInv /\ DisjointInv /\ CoverInv)'
    <2>1. MutexInv'
      BY <1>w, <1>f, <1>h DEF MutexInv
    <2>2. ChunksInv'
      <3>1. 1 \in Ids /\ Len(chunks') > 0 /\ chunks'[1].addr = 0
        BY <1>a, <1>d DEF ChunksInv, Ids
      <3>2. \A j \in Ids : /\ chunks'[j].size > 0 /\ chunks'[j].addr + chunks'[j].size <= MemSize
                            /\ chunks'[j].next \in 0 .. n
        <4> SUFFICES ASSUME NEW j \in Ids
                     PROVE  /\ chunks'[j].size > 0 /\ chunks'[j].addr + chunks'[j].size <= MemSize
                            /\ chunks'[j].next \in 0 .. n
          OBVIOUS
        <4>1. chunks[j].addr + chunks[j].size <= MemSize /\ chunks[j].next \in 0 .. Len(chunks)
          BY DEF ChunksInv, End
        <4>2. chunks'[j].addr = chunks[j].addr /\ chunks'[j].next = chunks[j].next
          BY <1>d
        <4>3. /\ chunks[j].addr \in Int /\ chunks[j].size \in Int /\ chunks'[j].size \in Int
              /\ 0 < chunks'[j].size /\ chunks'[j].size <= chunks[j].size
          BY <1>i, <1>k
        <4>4. chunks'[j].addr + chunks'[j].size <= MemSize
          BY <4>1, <4>2, <4>3, ConstantsAssumption
        <4>5. n \in Nat /\ Len(chunks) <= n
          BY <1>a, <1>b DEF n
        <4>6. chunks'[j].next \in 0 .. n
          BY <4>1, <4>2, <4>5
        <4> QED
          BY <4>3, <4>4, <4>6
      <3>3. /\ chunks'[n].size > 0 /\ chunks'[n].addr + chunks'[n].size <= MemSize
            /\ chunks'[n].next \in 0 .. n
        <4>1. e.next \in 0 .. n
          BY <1>a, <1>b, <1>e DEF n
        <4> QED
          BY <1>a, <1>b, <1>d, <1>e, <4>1
      <3> QED
        BY <1>d, <3>1, <3>2, <3>3 DEF ChunksInv, End
    <2>3. DisjointInv'
      <3>1. \A j, k \in Ids : j # k =>
              \/ chunks'[j].addr + chunks'[j].size <= chunks'[k].addr
              \/ chunks'[k].addr + chunks'[k].size <= chunks'[j].addr
        <4> SUFFICES ASSUME NEW j \in Ids, NEW k \in Ids, j # k
                     PROVE  \/ chunks'[j].addr + chunks'[j].size <= chunks'[k].addr
                            \/ chunks'[k].addr + chunks'[k].size <= chunks'[j].addr
          OBVIOUS
        <4>1. \/ chunks[j].addr + chunks[j].size <= chunks[k].addr
              \/ chunks[k].addr + chunks[k].size <= chunks[j].addr
          BY DEF DisjointInv, End
        <4>2. chunks'[j].addr = chunks[j].addr /\ chunks'[k].addr = chunks[k].addr
          BY <1>d
        <4> QED
          BY <1>i, <1>k, <4>1, <4>2
      <3>2. \A j \in Ids :
              \/ chunks'[j].addr + chunks'[j].size <= chunks'[n].addr
              \/ chunks'[n].addr + chunks'[n].size <= chunks'[j].addr
        <4> SUFFICES ASSUME NEW j \in Ids
                     PROVE  \/ chunks'[j].addr + chunks'[j].size <= e.addr
                            \/ e.addr + e.size <= chunks'[j].addr
          BY <1>d
        <4>1. CASE j = i
          BY <1>a, <1>b, <1>d, <1>e, <1>l, <4>1
        <4>2. CASE j # i
          <5>1. \/ chunks[j].addr + chunks[j].size <= chunks[i].addr
                \/ chunks[i].addr + chunks[i].size <= chunks[j].addr
            BY <1>a, <4>2 DEF DisjointInv, End
          <5>2. chunks'[j].addr = chunks[j].addr
            BY <1>d
          <5>3. /\ chunks[j].addr \in Int /\ chunks[j].size \in Int /\ chunks'[j].size \in Int
                /\ chunks'[j].size <= chunks[j].size /\ roundedSize[t] \in Nat
                /\ chunks[i].addr \in Int /\ chunks[i].size \in Int
            BY <1>a, <1>i, <1>k
          <5>4. e.addr >= chunks[i].addr /\ e.addr + e.size = chunks[i].addr + chunks[i].size
            BY <1>e, <5>3
          <5>5. e.addr \in Int
            BY <1>e, <5>3
          <5> QED
            BY <5>1, <5>2, <5>3, <5>4, <5>5
        <4> QED
          BY <4>1, <4>2
      <3> QED
        BY <1>d, <3>1, <3>2 DEF DisjointInv, End
    <2>4. CoverInv'
      <3> SUFFICES ASSUME NEW a \in Cell
                   PROVE  \E j \in Ids' : chunks'[j].addr <= a /\ a < chunks'[j].addr + chunks'[j].size
        BY DEF CoverInv, End
      <3>1. PICK j \in Ids : chunks[j].addr <= a /\ a < chunks[j].addr + chunks[j].size
        BY DEF CoverInv, End
      <3>2. a \in Int
        BY DEF Cell
      <3>3. CASE j # i
        BY <1>d, <3>1, <3>3
      <3>4. CASE j = i
        <4>1. CASE a < chunks[i].addr + roundedSize[t]
          BY <1>a, <1>d, <1>l, <3>1, <3>4, <4>1
        <4>2. CASE a >= chunks[i].addr + roundedSize[t]
          <5>1. e.addr <= a /\ a < e.addr + e.size
            BY <1>a, <1>b, <1>e, <3>1, <3>2, <3>4, <4>2
          <5> QED
            <6>1. n \in Ids' /\ chunks'[n].addr = e.addr /\ chunks'[n].size = e.size
              BY <1>d
            <6> QED
              BY <5>1, <6>1
        <4> QED
          BY <1>a, <1>b, <3>2, <4>1, <4>2
      <3> QED
        BY <3>3, <3>4
    <2> QED
      BY <2>1, <2>2, <2>3, <2>4
  <1>j. \A j \in Ids : Clean(chunks[j], dirty) => Clean(chunks[j], dirty)'
    <2> SUFFICES ASSUME NEW j \in Ids, Clean(chunks[j], dirty), NEW a \in dirty,
                        chunks'[j].addr <= a, a < chunks'[j].addr + chunks'[j].size
                 PROVE  FALSE
      BY <1>h DEF Clean, End
    <2>1. a \in Int
      BY DEF TypeOK, Cell
    <2>2. /\ chunks[j].addr \in Int /\ chunks[j].size \in Int /\ chunks'[j].size \in Int
          /\ chunks'[j].addr = chunks[j].addr /\ chunks'[j].size <= chunks[j].size
      BY <1>d, <1>i, <1>k
    <2>3. chunks[j].addr <= a /\ a < chunks[j].addr + chunks[j].size
      BY <2>1, <2>2
    <2> QED
      BY <2>3 DEF Clean, End
  <1>3. AllocInv'
    <2> SUFFICES ASSUME NEW u \in Thread PROVE AllocInvAt(u)'
      BY DEF AllocInv
    <2>1. CASE u # t
      BY <1>d, <1>f, <1>h, <2>1 DEF AllocInv, AllocInvAt, Holds, InCritical
    <2>2. CASE u = t
      <3>1. chunks'[n].free /\ chunks'[n].addr = chunks'[i].addr + chunks'[i].size
        BY <1>a, <1>d, <1>e
      <3>2. i \in Ids' /\ ~chunks'[i].free /\ Clean(chunks[i], dirty)' /\ current'[t] = i
        BY <1>a, <1>w, <1>d, <1>h, <1>j DEF i
      <3>3. current'[t] \in Ids' /\ ~chunks'[current'[t]].free /\ Clean(chunks[current[t]], dirty)'
        BY <3>2, <1>h DEF Clean, End, i
      <3> QED
        BY <1>a, <1>d, <1>g, <1>h, <2>2, <3>1, <3>2, <3>3 DEF AllocInvAt, End
    <2> QED
      BY <2>1, <2>2
  <1>4. LiveInv'
    <2>1. ASSUME NEW u \in Thread, NEW r \in live[u]
          PROVE  \E j \in Ids' : /\ RegionOf(chunks'[j]) = r /\ ~chunks'[j].free
                                 /\ \A v \in Thread : Holds(v)' => current'[v] # j
      <3>1. PICK j \in Ids : RegionOf(chunks[j]) = r /\ ~chunks[j].free /\ i # j
        BY <1>a, <1>w DEF LiveInv, i
      <3> QED
        BY <1>d, <1>f, <1>h, <3>1 DEF RegionOf, i
    <2> QED
      BY <1>h, <2>1 DEF LiveInv, RegionOf
  <1>5. FreeInv' /\ ZeroInv'
    <2>1. FreeInv'
      <3> SUFFICES ASSUME NEW u \in Thread PROVE FreeInvAt(u)'
        BY DEF FreeInv
      <3>1. CASE u # t
        <4>1. /\ FreeInvAt(u) /\ pc'[u] = pc[u] /\ ptr'[u] = ptr[u] /\ current[u] \in Ids
              /\ Pending(u)' <=> Pending(u)
          BY <1>f, <1>h, <3>1 DEF FreeInv, Pending, AllocInv, AllocInvAt
        <4>2. chunks'[current'[u]].addr = chunks[current[u]].addr
          BY <1>d, <1>h, <4>1
        <4>3. Clean(chunks[current[u]], dirty) => Clean(chunks[current[u]], dirty)'
          BY <1>h, <1>j, <4>1
        <4> QED
          BY <4>1, <4>2, <4>3 DEF FreeInvAt, Matches
      <3>2. CASE u = t
        BY <1>g, <3>2 DEF FreeInvAt
      <3> QED
        BY <3>1, <3>2
    <2>2. Clean(chunks'[n], dirty')
      <3> SUFFICES ASSUME NEW a \in dirty, e.addr <= a, a < e.addr + e.size PROVE FALSE
        BY <1>d, <1>h DEF Clean, End
      <3>1. a \in Int
        BY DEF TypeOK, Cell
      <3> QED
        BY <1>a, <1>b, <1>e, <1>w, <3>1 DEF Clean, End
    <2>3. ZeroInv'
      <3>1. \A j \in Ids : chunks'[j].free => Clean(chunks[j], dirty)'
        BY <1>d, <1>j DEF ZeroInv
      <3>2. \A j \in Ids' : j \in Ids \/ j = n
        BY <1>d
      <3> HIDE DEF n
      <3> QED
        BY <2>2, <3>1, <3>2 DEF ZeroInv, Clean, End
    <2> QED
      BY <2>1, <2>3
  <1>6. LinkInv'
    <2>1. \A j \in Ids : chunks[j].next # 0 => chunks[j].next \in Ids
      BY <1>a DEF ChunksInv, Ids
    <2>2. \A j \in Ids : ~Unlinked(j)
      BY <1>a, <1>f DEF Unlinked, InCritical
    <2>3. \A k \in Ids' : k \notin Ids => Unlinked(k)'
      BY <1>d, <1>g DEF Unlinked
    <2>4. ASSUME NEW j \in Ids, chunks[j].next # 0
          PROVE  chunks'[chunks'[j].next].addr >= chunks'[j].addr + chunks'[j].size
      <3>1. chunks'[chunks'[j].next].addr = chunks[chunks[j].next].addr
        BY <1>d, <2>1, <2>4
      <3>2. chunks[chunks[j].next].addr >= chunks[j].addr + chunks[j].size
        BY <2>4 DEF LinkInv, End
      <3>3. chunks[chunks[j].next].addr \in Int
        BY <1>i, <2>1, <2>4
      <3> QED
        <4>1. chunks'[j].addr = chunks[j].addr
          BY <1>d
        <4> QED
          BY <1>i, <1>k, <3>1, <3>2, <3>3, <4>1
    <2>5. ASSUME NEW j \in Ids, NEW k \in Ids, chunks[k].addr > chunks[j].addr
          PROVE  chunks'[j].next # 0 /\ chunks'[chunks'[j].next].addr <= chunks'[k].addr
      <3>1. chunks[j].next # 0 /\ chunks[chunks[j].next].addr <= chunks[k].addr
        BY <2>2, <2>5 DEF LinkInv
      <3>2. chunks'[chunks'[j].next].addr = chunks[chunks[j].next].addr
        BY <1>d, <2>1, <3>1
      <3> QED
        BY <1>d, <3>1, <3>2
    <2>6. chunks'[n].next # 0 => chunks'[chunks'[n].next].addr >= chunks'[n].addr + chunks'[n].size
      <3> SUFFICES ASSUME chunks[i].next # 0
                   PROVE  chunks'[chunks[i].next].addr >= e.addr + e.size
        BY <1>d, <1>e
      <3>1. chunks'[chunks[i].next].addr = chunks[chunks[i].next].addr
        BY <1>a, <1>d, <2>1
      <3>2. chunks[chunks[i].next].addr >= chunks[i].addr + chunks[i].size
        BY <1>a DEF LinkInv, End
      <3> QED
        BY <1>a, <1>b, <1>e, <3>1, <3>2
    <2>7. ASSUME NEW k \in Ids, chunks'[k].addr > chunks'[n].addr
          PROVE  chunks'[n].next # 0 /\ chunks'[chunks'[n].next].addr <= chunks'[k].addr
      <3>1. chunks[k].addr > chunks[i].addr
        BY <1>a, <1>b, <1>d, <1>e, <1>i, <2>7
      <3>2. chunks'[i].next # 0 /\ chunks'[chunks'[i].next].addr <= chunks'[k].addr
        BY <1>a, <2>5, <3>1
      <3> QED
        BY <1>a, <1>d, <1>e, <3>2
    <2>8. ASSUME NEW j \in Ids' PROVE chunks'[j].next # 0 =>
             chunks'[chunks'[j].next].addr >= chunks'[j].addr + chunks'[j].size
      BY <1>d, <2>4, <2>6
    <2>9. ASSUME NEW j \in Ids', NEW k \in Ids', chunks'[k].addr > chunks'[j].addr, ~Unlinked(k)'
          PROVE  chunks'[j].next # 0 /\ chunks'[chunks'[j].next].addr <= chunks'[k].addr
      <3>1. k \in Ids
        BY <1>d, <2>3, <2>9
      <3>2. CASE j \in Ids
        BY <1>d, <2>5, <2>9, <3>1, <3>2
      <3>3. CASE j = n
        BY <2>7, <2>9, <3>1, <3>3
      <3> QED
        BY <1>d, <3>2, <3>3
    <2> QED
      BY <2>8, <2>9, Zenon DEF LinkInv, End
  <1> QED
    BY <1>1, <1>2, <1>3, <1>4, <1>5, <1>6 DEF IInv

(* Linking the rest restores the address order of the list. *)
LEMMA AllocateLinkInv ==
  ASSUME IInv, NEW t \in Thread, AllocateLink(t)
  PROVE  IInv'
  <1> USE DEF IInv
  <1> DEFINE i == current[t]
             n == Len(chunks)
  <1>a. /\ i \in Ids /\ pc[t] = "link" /\ n \in Ids /\ n \in Nat /\ n # i
        /\ ~chunks[i].free /\ chunks[n].addr = chunks[i].addr + chunks[i].size
    BY DEF AllocInv, AllocInvAt, AllocateLink, Holds, TypeOK, ChunksInv, Ids, End
  <1>b. /\ chunks' \in Seq(Chunk) /\ Len(chunks') = Len(chunks) /\ Ids' = Ids
        /\ \A j \in Ids : /\ chunks'[j].addr = chunks[j].addr /\ chunks'[j].size = chunks[j].size
                           /\ chunks'[j].free = chunks[j].free
                           /\ chunks'[j].next = IF j = i THEN n ELSE chunks[j].next
    <2>1. /\ chunks \in Seq(Chunk) /\ i \in 1 .. Len(chunks) /\ n \in Nat
          /\ chunks' = [chunks EXCEPT ![i].next = n]
      BY <1>a DEF Ids, TypeOK, AllocateLink
    <2>2. /\ chunks' \in Seq(Chunk) /\ Len(chunks') = Len(chunks)
          /\ \A j \in 1 .. Len(chunks) :
               /\ chunks'[j].addr = chunks[j].addr /\ chunks'[j].size = chunks[j].size
               /\ chunks'[j].free = chunks[j].free
               /\ chunks'[j].next = IF j = i THEN n ELSE chunks[j].next
      <3> HIDE DEF i, n
      <3> QED
        BY <2>1, SetNext
    <2> QED
      BY <2>1, <2>2 DEF Ids
  <1>c. \A u \in Thread : u # t => /\ pc'[u] = pc[u] /\ ~InCritical(u) /\ ~InCritical(u)'
                                    /\ ~Holds(u) /\ ~Holds(u)'
    BY <1>a DEF AllocateLink, Goto, TypeOK, MutexInv, InCritical, Holds
  <1>d. pc'[t] = "got"
    BY DEF AllocateLink, Goto, TypeOK
  <1>e. UNCHANGED <<memoryMutex, current, roundedSize, ptr, live, dirty>>
    BY DEF AllocateLink
  <1>f. \A j \in Ids : chunks[j].addr \in Int /\ chunks[j].size \in Int /\ chunks[j].size > 0
    BY ChunkType DEF ChunksInv
  <1>g. \A j \in Ids : Clean(chunks[j], dirty) => Clean(chunks'[j], dirty')
    BY <1>b, <1>e DEF Clean, End
  <1>1. TypeOK'
    BY <1>b, <1>e DEF TypeOK, AllocateLink, Goto
  <1>2. (MutexInv /\ ChunksInv /\ DisjointInv /\ CoverInv)'
    <2>1. MutexInv'
      BY <1>a, <1>c, <1>e DEF MutexInv, InCritical
    <2>2. ChunksInv'
      <3>1. 1 \in Ids
        BY <1>a DEF ChunksInv, Ids
      <3>2. \A j \in Ids : /\ chunks'[j].size > 0 /\ End(chunks'[j]) <= MemSize
                            /\ chunks'[j].next \in 0 .. Len(chunks)
        BY <1>a, <1>b DEF ChunksInv, End
      <3> QED
        BY <1>b, <3>1, <3>2 DEF ChunksInv
    <2> QED
      BY <1>b, <2>1, <2>2 DEF DisjointInv, CoverInv, End
  <1>3. AllocInv'
    <2> SUFFICES ASSUME NEW u \in Thread PROVE AllocInvAt(u)'
      BY DEF AllocInv
    <2>1. current[u] \in Ids'
      BY <1>b DEF AllocInv, AllocInvAt
    <2>2. CASE u # t
      BY <1>c, <1>e, <2>1, <2>2 DEF AllocInv, AllocInvAt, Holds, InCritical
    <2>3. CASE u = t
      <3>1. Clean(chunks[i], dirty) /\ roundedSize[t] > 0
        BY <1>a DEF AllocInv, AllocInvAt, Holds
      <3>2. Clean(chunks'[i], dirty') /\ ~chunks'[i].free
        BY <1>a, <1>b, <1>g, <3>1
      <3>3. Clean(chunks[current[t]], dirty)'
        BY <1>e, <3>2
      <3> QED
        BY <1>d, <1>e, <2>1, <2>3, <3>1, <3>2, <3>3 DEF AllocInvAt
    <2> QED
      BY <2>2, <2>3
  <1>4. LiveInv'
    <2>1. ASSUME NEW u \in Thread, NEW r \in live[u]
          PROVE  \E j \in Ids : /\ RegionOf(chunks'[j]) = r /\ ~chunks'[j].free
                                /\ \A v \in Thread : Holds(v)' => current'[v] # j
      <3>1. Holds(t)
        BY <1>a DEF Holds
      <3>2. PICK j \in Ids : RegionOf(chunks[j]) = r /\ ~chunks[j].free /\ current[t] # j
        BY <3>1 DEF LiveInv
      <3> QED
        BY <1>b, <1>c, <1>e, <3>2 DEF RegionOf
    <2> QED
      BY <1>b, <1>e, <2>1 DEF LiveInv, RegionOf
  <1>5. FreeInv' /\ ZeroInv'
    <2>1. FreeInv'
      <3> SUFFICES ASSUME NEW u \in Thread PROVE FreeInvAt(u)'
        BY DEF FreeInv
      <3>1. CASE u # t
        <4>1. /\ FreeInvAt(u) /\ pc'[u] = pc[u] /\ ptr'[u] = ptr[u] /\ current[u] \in Ids
              /\ Pending(u)' <=> Pending(u)
          BY <1>c, <1>e, <3>1 DEF FreeInv, Pending, AllocInv, AllocInvAt
        <4>2. chunks'[current'[u]].addr = chunks[current[u]].addr
          BY <1>b, <1>e, <4>1
        <4>3. Clean(chunks[current[u]], dirty) => Clean(chunks[current[u]], dirty)'
          BY <1>e, <1>g, <4>1
        <4> QED
          BY <4>1, <4>2, <4>3 DEF FreeInvAt, Matches
      <3>2. CASE u = t
        BY <1>d, <3>2 DEF FreeInvAt
      <3> QED
        BY <3>1, <3>2
    <2>2. ZeroInv'
      BY <1>b, <1>g DEF ZeroInv
    <2> QED
      BY <2>1, <2>2
  <1>6. LinkInv'
    <2> HIDE DEF i, n
    <2>1. \A j \in Ids : chunks[j].next # 0 => chunks[j].next \in Ids
      BY <1>a DEF ChunksInv, Ids, n
    <2>2. \A j \in Ids : j # n => ~Unlinked(j)
      BY DEF Unlinked, n
    <2>3. chunks'[i].next = n /\ n # 0 /\ chunks'[n].addr = chunks[i].addr + chunks[i].size
      BY <1>a, <1>b DEF Ids
    <2>4. ASSUME NEW j \in Ids, chunks'[j].next # 0
          PROVE  chunks'[chunks'[j].next].addr >= chunks'[j].addr + chunks'[j].size
      <3>1. CASE j = i
        BY <1>a, <1>b, <1>f, <2>3, <3>1
      <3>2. CASE j # i
        <4>1. chunks'[j].next = chunks[j].next /\ chunks[j].next \in Ids
          BY <1>b, <2>1, <2>4, <3>2
        <4>2. chunks'[chunks'[j].next].addr = chunks[chunks[j].next].addr
          BY <1>b, <4>1
        <4> QED
          BY <1>b, <2>4, <4>1, <4>2 DEF LinkInv, End
      <3> QED
        BY <3>1, <3>2
    <2>5. ASSUME NEW j \in Ids, NEW k \in Ids, chunks'[k].addr > chunks'[j].addr
          PROVE  chunks'[j].next # 0 /\ chunks'[chunks'[j].next].addr <= chunks'[k].addr
      <3>1. chunks[k].addr > chunks[j].addr
        BY <1>b, <2>5
      <3>2. CASE j = i
        <4>1. chunks[i].addr + chunks[i].size <= chunks[k].addr
          <5>1. \/ chunks[i].addr + chunks[i].size <= chunks[k].addr
                \/ chunks[k].addr + chunks[k].size <= chunks[i].addr
            BY <1>a, <1>f, <3>1, <3>2 DEF DisjointInv, End
          <5> QED
            BY <1>a, <1>f, <3>1, <3>2, <5>1
        <4> QED
          BY <1>b, <2>3, <3>2, <4>1
      <3>3. ASSUME j # i, NEW m \in Ids, m # n, chunks[m].addr > chunks[j].addr
            PROVE  chunks'[j].next # 0 /\ chunks'[chunks'[j].next].addr <= chunks[m].addr
        <4>1. chunks[j].next # 0 /\ chunks[chunks[j].next].addr <= chunks[m].addr
          BY <2>2, <3>3 DEF LinkInv
        <4>2. chunks'[j].next = chunks[j].next /\ chunks[j].next \in Ids
          BY <1>b, <2>1, <3>3, <4>1
        <4> QED
          BY <1>b, <4>1, <4>2
      <3>4. CASE j # i /\ k # n
        BY <1>b, <3>1, <3>3, <3>4
      <3>5. CASE j # i /\ k = n
        <4>1. chunks[j].addr < chunks[i].addr
          <5>1. \/ chunks[i].addr + chunks[i].size <= chunks[j].addr
                \/ chunks[j].addr + chunks[j].size <= chunks[i].addr
            BY <1>a, <3>5 DEF DisjointInv, End
          <5> QED
            BY <1>a, <1>f, <3>1, <3>5, <5>1
        <4>2. chunks'[j].next # 0 /\ chunks'[chunks'[j].next].addr <= chunks[i].addr
          BY <1>a, <1>f, <3>3, <3>5, <4>1
        <4>3. chunks'[chunks'[j].next].addr \in Int
          BY <1>b, <1>f, <2>1, <3>5, <4>2
        <4> QED
          BY <1>a, <1>b, <1>f, <2>3, <3>5, <4>2, <4>3
      <3> QED
        BY <3>2, <3>4, <3>5
    <2> QED
      BY <1>b, <2>4, <2>5, Zenon DEF LinkInv, End
  <1> QED
    BY <1>1, <1>2, <1>3, <1>4, <1>5, <1>6 DEF IInv

(* The invariant is inductive: every step of the specification keeps it. *)
LEMMA NextIInv == IInv /\ [Next]_vars => IInv'
  <1> SUFFICES ASSUME IInv, [Next]_vars PROVE IInv'
    OBVIOUS
  <1>1. CASE UNCHANGED vars
    BY <1>1 DEF vars, IInv, TypeOK, MutexInv, ChunksInv, DisjointInv, CoverInv, AllocInv,
       AllocInvAt, LiveInv, FreeInv, FreeInvAt, ZeroInv, LinkInv, Ids, InCritical, Holds,
       End, Clean, Pending, Matches, RegionOf, Unlinked
  <1>2. CASE Next
    <2>1. PICK t \in Thread :
            \/ \E n \in Request : AllocateCall(t, n)
            \/ Allocate(t)
            \/ \E r \in live[t] : FreeCall(t, r) \/ Write(t, r)
            \/ Free(t)
      BY <1>2 DEF Next
    <2>2. CASE \E n \in Request : AllocateCall(t, n)
      BY <2>2, AllocateCallInv
    <2>3. CASE Allocate(t)
      BY <2>3, AllocateLockInv, AllocateAcquireInv, AllocateSkipInv, AllocateSplitInv,
         AllocateLinkInv, AllocateReturnInv DEF Allocate
    <2>4. CASE \E r \in live[t] : FreeCall(t, r) \/ Write(t, r)
      BY <2>4, FreeCallInv, WriteInv
    <2>5. CASE Free(t)
      BY <2>5, FreeWipeInv, FreePublishInv, FreeStepInv DEF Free
    <2> QED
      BY <2>1, <2>2, <2>3, <2>4, <2>5
  <1> QED
    BY <1>1, <1>2

(* IInv is an invariant of the allocator. *)
THEOREM Invariance == Spec => []IInv
  BY InitIInv, NextIInv, PTL DEF Spec

(* The variables of allocate() and free() keep their types. *)
THEOREM TypeCorrect == Spec => []TypeOK
  <1>1. IInv => TypeOK
    BY DEF IInv
  <1> QED
    BY <1>1, Invariance, PTL

(* Regions returned by allocate() and not freed are disjoint, for any      *)
(* number of threads and any interleaving with free()'s unlocked walk.     *)
THEOREM LiveRegionsDisjoint == Spec => []NoOverlap
  <1>1. IInv => NoOverlap
    <2> SUFFICES ASSUME IInv, NEW t \in Thread, NEW u \in Thread, NEW r \in live[t],
                        NEW s \in live[u], t # u \/ r # s
                 PROVE  Cells(r) \intersect Cells(s) = {}
      BY DEF NoOverlap
    <2>1. PICK i \in Ids : r.addr = chunks[i].addr /\ r.size = chunks[i].size /\ r = RegionOf(chunks[i])
      BY LiveChunk
    <2>2. PICK j \in Ids : s.addr = chunks[j].addr /\ s.size = chunks[j].size /\ s = RegionOf(chunks[j])
      BY LiveChunk
    <2>3. i # j
      <3> SUFFICES ASSUME i = j PROVE FALSE
        OBVIOUS
      <3>1. r = s /\ t # u
        BY <2>1, <2>2
      <3> QED
        BY <3>1 DEF IInv, LiveInv
    <2>4. r.addr + r.size <= s.addr \/ s.addr + s.size <= r.addr
      BY <2>1, <2>2, <2>3 DEF IInv, DisjointInv, End
    <2>5. r.addr \in Int /\ r.size \in Int /\ s.addr \in Int /\ s.size \in Int
      BY <2>1, <2>2, ChunkType DEF IInv
    <2> QED
      BY <2>4, <2>5 DEF Cells
  <1> QED
    BY <1>1, Invariance, PTL

(* Splitting loses no memory and duplicates none. *)
THEOREM ChunksPartition == Spec => []ChunksPartitionMemory
  <1>1. IInv => ChunksPartitionMemory
    <2> SUFFICES ASSUME IInv, NEW a \in Cell
                 PROVE  \E i \in DOMAIN chunks :
                          /\ a \in Cells(chunks[i])
                          /\ \A j \in DOMAIN chunks \ {i} : a \notin Cells(chunks[j])
      BY DEF ChunksPartitionMemory
    <2>1. Ids = DOMAIN chunks /\ a \in Int
      BY DEF IInv, TypeOK, Ids, Cell
    <2>2. PICK i \in Ids : chunks[i].addr <= a /\ a < chunks[i].addr + chunks[i].size
      BY DEF IInv, CoverInv, End
    <2>3. \A j \in Ids : chunks[j].addr \in Int /\ chunks[j].size \in Int
      BY ChunkType DEF IInv
    <2>4. a \in Cells(chunks[i])
      BY <2>1, <2>2, <2>3 DEF Cells
    <2>5. ASSUME NEW j \in Ids, j # i PROVE a \notin Cells(chunks[j])
      <3>1. \/ chunks[i].addr + chunks[i].size <= chunks[j].addr
            \/ chunks[j].addr + chunks[j].size <= chunks[i].addr
        BY <2>5 DEF IInv, DisjointInv, End
      <3> QED
        BY <2>1, <2>2, <2>3, <3>1 DEF Cells
    <2> QED
      BY <2>1, <2>4, <2>5
  <1> QED
    BY <1>1, Invariance, PTL

(* What allocate() hands out holds only zeroes. *)
THEOREM AllocationsZeroed == Spec => HandedOutZeroed
  <1>1. IInv /\ [Next]_vars =>
          [\A t \in Thread : \A r \in live'[t] \ live[t] : Cells(r) \intersect dirty' = {}]_vars
    <2> SUFFICES ASSUME IInv, Next, NEW u \in Thread, NEW r \in live'[u] \ live[u]
                 PROVE  Cells(r) \intersect dirty' = {}
      OBVIOUS
    <2> USE DEF IInv
    <2>1. PICK t \in Thread : AllocateReturn(t)
      BY ZenonT(60) DEF Next, Allocate, Free, AllocateCall, AllocateLock, AllocateAcquire, AllocateSkip,
         AllocateSplit, AllocateLink, FreeCall, Write, FreeWipe, FreePublish, FreeStep, TypeOK
    <2>2. r = RegionOf(chunks[current[t]]) /\ dirty' = dirty /\ current[t] \in Ids
      BY <2>1 DEF AllocateReturn, TypeOK, AllocInv, AllocInvAt
    <2>3. Clean(chunks[current[t]], dirty)
      BY <2>1 DEF AllocateReturn, AllocInv, AllocInvAt, Holds
    <2>4. /\ r.addr = chunks[current[t]].addr /\ r.size = chunks[current[t]].size
          /\ r.addr \in Int /\ r.size \in Int
      BY <2>2, ChunkType DEF RegionOf
    <2>5. \A a \in dirty : ~(r.addr <= a /\ a < r.addr + r.size)
      BY <2>3, <2>4 DEF Clean, End
    <2>6. dirty \subseteq Int
      BY DEF TypeOK, Cell
    <2> QED
      BY <2>2, <2>4, <2>5, <2>6 DEF Cells
  <1> QED
    BY <1>1, Invariance, PTL DEF Spec, HandedOutZeroed

(* The unlocked walk of free() never misses the chunk it is to free. *)
THEOREM FreeReachesItsChunk == Spec => FreeTakesEffect
  <1>1. IInv /\ [Next]_vars =>
          [\A t \in Thread : pc[t] \in {"walk", "step"} /\ pc'[t] = "idle" =>
             \A r \in live'[t] : r.addr # ptr[t]]_vars
    <2> SUFFICES ASSUME IInv, Next, NEW t \in Thread, pc[t] \in {"walk", "step"},
                        pc'[t] = "idle"
                 PROVE  \A r \in live'[t] : r.addr # ptr[t]
      OBVIOUS
    <2> USE DEF IInv
    <2>1. FreeStep(t)
      BY DEF Next, Allocate, Free, AllocateCall, AllocateLock, AllocateAcquire, AllocateSkip,
         AllocateSplit, AllocateLink, AllocateReturn, FreeCall, Write, FreeWipe, FreePublish,
         FreeStep, Goto, TypeOK
    <2>2. chunks[current[t]].next = 0 /\ live' = live /\ current[t] \in Ids
      BY <2>1 DEF FreeStep, Goto, TypeOK, AllocInv, AllocInvAt
    <2>3. ~Pending(t)
      <3> SUFFICES ASSUME Pending(t) PROVE FALSE
        OBVIOUS
      <3>1. pc[t] = "walk" /\ ~Matches(t)
        BY <2>1 DEF FreeStep, FreeInv, FreeInvAt
      <3>2. PICK r \in live[t] : r.addr = ptr[t]
        BY DEF Pending
      <3>3. PICK j \in Ids : r.addr = chunks[j].addr /\ ~chunks[j].free
        BY LiveChunk
      <3>4. ~Unlinked(j)
        BY <3>3 DEF Unlinked, AllocInv, AllocInvAt
      <3>5. chunks[current[t]].addr <= ptr[t] /\ chunks[current[t]].addr # ptr[t]
        BY <3>1 DEF FreeInv, FreeInvAt, Matches
      <3>6. chunks[j].addr > chunks[current[t]].addr
        BY <2>2, <3>2, <3>3, <3>5, ChunkType DEF TypeOK
      <3> QED
        BY <2>2, <3>4, <3>6 DEF LinkInv
    <2> QED
      BY <2>2, <2>3 DEF Pending
  <1> QED
    BY <1>1, Invariance, PTL DEF Spec, FreeTakesEffect
=============================================================================
