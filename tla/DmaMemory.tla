----------------------------- MODULE DmaMemory -----------------------------
(***************************************************************************)
(* What the DMA path promises to the user logic on the FPGA: the bytes of  *)
(* its write requests reach host memory in the order of issue, each at the *)
(* physical address the host mapped its virtual address to, with nothing   *)
(* lost, repeated or added.  Pages, words, packets and descriptors are not *)
(* visible here.                                                           *)
(***************************************************************************)
EXTENDS Integers, Sequences

CONSTANTS
  PageSize,
  Lane,         \* granularity at which a request may cross a page
  Bases,        \* virtual addresses the host can map its buffer at
  PageTables,   \* physical pages the buffer can consist of, in order
  Lengths,      \* lengths of requests
  MaxRequests   \* bound on the number of write requests

VARIABLES
  mapping,   \* the buffer as the host mapped it
  requests,  \* number of write requests issued
  todo,      \* bytes issued and not yet in memory
  mem        \* contents of host memory, by physical address

Translate(vaddr) ==
  mapping.pages[((vaddr - mapping.base) \div PageSize) + 1] + ((vaddr - mapping.base) % PageSize)

(* A request stays in the mapped buffer and crosses at most one page       *)
(* boundary, at a multiple of the lane.                                    *)
Legal(addr, len) ==
  LET offset == (addr - mapping.base) % PageSize
  IN  /\ addr - mapping.base + len <= PageSize * Len(mapping.pages)
      /\ offset + len <= 2 * PageSize
      /\ offset + len > PageSize => (PageSize - offset) % Lane = 0

Address == {mapping.base + k : k \in 0 .. PageSize * Len(mapping.pages) - 1}

(* The bytes of request number n. *)
Bytes(n, addr, len) == [k \in 1 .. len |-> [vaddr |-> addr + k - 1, request |-> n]]

(* Memory after the given bytes were written to it, the last one last. *)
Written(bytes) ==
  [p \in DOMAIN mem |->
     LET hits == {k \in DOMAIN bytes : Translate(bytes[k].vaddr) = p}
     IN  IF hits = {} THEN mem[p]
         ELSE bytes[CHOOSE k \in hits : \A j \in hits : j <= k]]

(* Every byte of the physical pages. *)
Cells == UNION {{t[i] + k : i \in DOMAIN t, k \in 0 .. PageSize - 1} : t \in PageTables}

Init ==
  /\ mapping = [base |-> 0, pages |-> <<>>]
  /\ requests = 0
  /\ todo = <<>>
  /\ mem = [p \in Cells |-> [vaddr |-> 0, request |-> 0]]

Map ==
  /\ todo = <<>>
  /\ \E base \in Bases, pages \in PageTables : mapping' = [base |-> base, pages |-> pages]
  /\ UNCHANGED <<requests, todo, mem>>

Issue ==
  /\ requests < MaxRequests
  /\ requests' = requests + 1
  /\ \E addr \in Address, len \in Lengths :
       /\ Legal(addr, len)
       /\ todo' = todo \o Bytes(requests', addr, len)
  /\ UNCHANGED <<mapping, mem>>

Deliver ==
  \E n \in 1 .. Len(todo) :
    /\ mem' = Written(SubSeq(todo, 1, n))
    /\ todo' = SubSeq(todo, n + 1, Len(todo))
    /\ UNCHANGED <<mapping, requests>>

Next == Map \/ Issue \/ Deliver

vars == <<mapping, requests, todo, mem>>

Spec == Init /\ [][Next]_vars
=============================================================================
