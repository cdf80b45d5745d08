--------------------------- MODULE DmaPathProofs ---------------------------
(***************************************************************************)
(* Proofs about DmaPath, the reads first and then the writes.              *)
(*                                                                         *)
(* The read commands pass three streams, are translated between the first  *)
(* two of them, and are overtaken by writes and by the host's mappings.    *)
(* What holds a read to its mapping is that each of the streams holds a    *)
(* piece of the reads that were issued and not yet served, and that the    *)
(* table, while it is being filled, has no reads to translate (ReadInv).   *)
(*                                                                         *)
(* The commands and the data of a write take different ways, are cut by    *)
(* different processes and meet in the XDMA core.  What holds them         *)
(* together is the line of all bytes that were issued: each command,       *)
(* descriptor, meta entry and word of the path is determined by the        *)
(* position of its first byte in this line (WriteInv).                     *)
(***************************************************************************)
EXTENDS DmaPath, SequenceTheorems, TLAPS

LOCAL INSTANCE SequencesExt
WF == INSTANCE WellFoundedInduction

(* The n elements of q are those of source behind position at. *)
Follows(q, n, source, at) == \A i \in 1 .. n : q[i] = source[at + i]

(* The command that the XDMA core should get for c. *)
Moved(c) == [addr |-> Memory!Translate(c.addr), len |-> c.len]
Image == [i \in Nat |-> Moved(reads[i])]

InBuffer(c) ==
  /\ c.addr >= mapping.base /\ c.len < LenMod
  /\ c.addr - mapping.base < PageSize * Len(mapping.pages)
  /\ ((c.addr - mapping.base) % PageSize) + c.len <= PageSize

MappingOK ==
  /\ DOMAIN mapping = {"base", "pages"} /\ mapping.base \in Nat /\ mapping.pages \in Seq(Nat)
  /\ Len(mapping.pages) <= TlbEntries
  /\ mapping.base + PageSize * Len(mapping.pages) <= AddrMod

ReadTypes ==
  /\ readCmd \in Seq(Cmd) /\ dmaReadCmd \in Seq(Cmd) /\ h2cDsc \in Seq(Cmd) /\ reads \in Seq(Cmd)
  /\ tlbInterface \in Seq([vaddr : Nat, paddr : Nat, isBase : BOOLEAN])
  /\ tlb_table \in [0 .. TlbEntries - 1 -> Nat] /\ base_vaddr \in Nat
  /\ top_page_base \in Nat /\ dma_read_pkg_counter \in Nat

(* The streams, of lengths h, d and r, behind the p reads that were served. *)
Queues(p, h, d, r, n) ==
  /\ n = p + h + d + r
  /\ Follows(h2cDsc, h, Image, p)
  /\ Follows(dmaReadCmd, d, Image, p + h)
  /\ Follows(readCmd, r, reads, p + h + d)
  /\ \A i \in p + 1 .. n : InBuffer(reads[i])

(* The host's mapping, of which the TLB has taken the first k pages. *)
Entry(i) ==
  [vaddr |-> mapping.base + (i - 1) * PageSize, paddr |-> mapping.pages[i], isBase |-> i = 1]
Table(k) ==
  /\ Len(tlbInterface) = Len(mapping.pages) - k
  /\ \A i \in 1 .. Len(tlbInterface) : tlbInterface[i] = Entry(k + i)
  /\ k > 0 => base_vaddr = mapping.base
  /\ top_page_base >= k - 1
  /\ \A j \in 0 .. k - 1 : tlb_table[j] = mapping.pages[j + 1]

ReadInv ==
  /\ ReadTypes /\ MappingOK
  /\ Queues(dma_read_pkg_counter, Len(h2cDsc), Len(dmaReadCmd), Len(readCmd), Len(reads))
  /\ \E k \in 0 .. Len(mapping.pages) : Table(k)
  /\ tlbInterface # <<>> => dma_read_pkg_counter = Len(reads)

-----------------------------------------------------------------------------
(* Streams *)

Shorter(q1, q, n) == \A i \in 1 .. n - 1 : q1[i] = q[i + 1]
Longer(q1, q, n) == \A i \in 1 .. n : q1[i] = q[i]

LEMMA TailOf ==
  ASSUME NEW S, NEW q \in Seq(S), q # <<>>
  PROVE  /\ Len(q) \in Nat /\ Len(q) > 0 /\ Tail(q) \in Seq(S) /\ Len(Tail(q)) = Len(q) - 1
         /\ Shorter(Tail(q), q, Len(q)) /\ Head(q) = q[1] /\ Head(q) \in S
<1>1. Len(q) \in Nat /\ Len(q) > 0
  BY EmptySeq, LenProperties
<1>2. /\ Tail(q) \in Seq(S) /\ Len(Tail(q)) = Len(q) - 1 /\ Head(q) = q[1] /\ Head(q) \in S
      /\ \A i \in 1 .. Len(q) - 1 : Tail(q)[i] = q[i + 1]
  BY HeadTailProperties
<1> QED BY <1>1, <1>2 DEF Shorter

LEMMA AppendOf ==
  ASSUME NEW S, NEW q \in Seq(S), NEW x \in S
  PROVE  /\ Len(q) \in Nat /\ Append(q, x) \in Seq(S) /\ Len(Append(q, x)) = Len(q) + 1
         /\ Longer(Append(q, x), q, Len(q)) /\ Append(q, x)[Len(q) + 1] = x
<1>1. Len(q) \in Nat
  BY LenProperties
<1>2. /\ Append(q, x) \in Seq(S) /\ Len(Append(q, x)) = Len(q) + 1
      /\ \A i \in 1 .. Len(q) : Append(q, x)[i] = q[i]
      /\ Append(q, x)[Len(q) + 1] = x
  BY AppendProperties
<1> QED BY <1>1, <1>2 DEF Longer

LEMMA PopFollows ==
  ASSUME NEW q, NEW n \in Nat, n > 0, NEW source, NEW at \in Nat, Follows(q, n, source, at),
         NEW q1, Shorter(q1, q, n)
  PROVE  q[1] = source[at + 1] /\ Follows(q1, n - 1, source, at + 1)
<1>1. q[1] = source[at + 1]
  BY DEF Follows
<1>2. ASSUME NEW i \in 1 .. n - 1
      PROVE  q1[i] = source[(at + 1) + i]
  <2>1. i + 1 \in 1 .. n /\ at + (i + 1) = (at + 1) + i
    OBVIOUS
  <2>2. q1[i] = q[i + 1] /\ q[i + 1] = source[at + (i + 1)]
    BY <2>1 DEF Shorter, Follows
  <2> QED BY <2>1, <2>2
<1> QED BY <1>1, <1>2 DEF Follows

LEMMA PushFollows ==
  ASSUME NEW q, NEW n \in Nat, NEW source, NEW at \in Nat, Follows(q, n, source, at),
         NEW q1, Longer(q1, q, n), q1[n + 1] = source[at + n + 1]
  PROVE  Follows(q1, n + 1, source, at)
<1>1. ASSUME NEW i \in 1 .. n + 1
      PROVE  q1[i] = source[at + i]
  <2>1. CASE i = n + 1
    <3>1. at + i = at + n + 1
      BY <2>1
    <3> QED BY <2>1, <3>1
  <2>2. CASE i # n + 1
    <3>1. i \in 1 .. n
      BY <2>2
    <3> QED BY <3>1 DEF Longer, Follows
  <2> QED BY <2>1, <2>2
<1> QED BY <1>1 DEF Follows

LEMMA SameFollows ==
  ASSUME NEW q, NEW n \in Nat, NEW source, NEW at \in Nat, Follows(q, n, source, at),
         NEW source1, NEW N \in Nat, Longer(source1, source, N), at + n <= N
  PROVE  Follows(q, n, source1, at)
<1>1. ASSUME NEW i \in 1 .. n
      PROVE  q[i] = source1[at + i]
  <2>1. at + i \in 1 .. N
    OBVIOUS
  <2> QED BY <2>1 DEF Longer, Follows
<1> QED BY <1>1 DEF Follows

-----------------------------------------------------------------------------
(* Page numbers *)

LEMMA PageInside ==
  ASSUME NEW x \in Nat, NEW P \in Nat \ {0}, NEW L \in Nat, x < P * L
  PROVE  x \div P \in Nat /\ x \div P < L
<1>1. x = P * (x \div P) + (x % P) /\ x % P >= 0 /\ x \div P \in Int
  OBVIOUS
<1>2. x \div P >= 0
  BY <1>1
<1>3. PICK y \in Nat : y = x \div P
  BY <1>1, <1>2
<1>4. P * y < P * L
  BY <1>1, <1>3
<1>5. ASSUME y >= L PROVE FALSE
  <2>1. PICK z \in Nat : y = L + z
    <3>1. y - L \in Nat /\ y = L + (y - L)
      BY <1>5
    <3> QED BY <3>1
  <2>2. P * y = P * L + P * z /\ P * z >= 0
    BY <2>1
  <2> QED BY <1>4, <2>2
<1> QED BY <1>3, <1>5

LEMMA WrapsNot ==
  ASSUME NEW x \in Nat, NEW M \in Nat, x < M
  PROVE  x % M = x
OBVIOUS

LEMMA PageOfEntry ==
  ASSUME NEW k \in Nat, NEW P \in Nat \ {0}
  PROVE  (k * P) \div P = k
OBVIOUS

(* The TLB translates as the host mapped, once it has the whole mapping. *)
LEMMA TranslatesAsMapped ==
  ASSUME PathAssumption, ReadTypes, MappingOK, Table(Len(mapping.pages)),
         NEW c \in Cmd, InBuffer(c)
  PROVE  TLB!Translated(c) = Moved(c) /\ Moved(c) \in Cmd
<1>1. PICK P \in Nat \ {0}, L \in Nat, T \in Nat, A \in Nat, M \in Nat, b \in Nat, a \in Nat, l \in Nat :
        /\ P = PageSize /\ L = Len(mapping.pages) /\ T = TlbEntries /\ A = AddrMod /\ M = LenMod
        /\ b = mapping.base /\ a = c.addr /\ l = c.len
  <2>1. Len(mapping.pages) \in Nat
    BY LenProperties DEF MappingOK
  <2> QED BY <2>1 DEF PathAssumption, MappingOK, Cmd
<1>2. a >= b /\ l < M /\ a - b < P * L /\ L <= T /\ b + P * L <= A
  BY <1>1 DEF InBuffer, MappingOK
<1>3. PICK x \in Nat : x = a - b /\ x < P * L
  BY <1>2
<1>4. x < A /\ P * L \in Nat
  BY <1>2, <1>3
<1>5. x % A = x /\ l % M = l
  BY <1>2, <1>4, WrapsNot
<1>6. PICK y \in Nat : y = x \div P /\ y < L
  BY <1>3, PageInside
<1>7. y % T = y /\ y < T
  <2>1. y < T
    BY <1>2, <1>6
  <2> QED BY <2>1, WrapsNot
<1>8. PICK z \in Nat : z = x % P
  OBVIOUS
<1>9. base_vaddr = b /\ \A j \in 0 .. L - 1 : tlb_table[j] = mapping.pages[j + 1]
  <2>1. L > 0
    BY <1>6
  <2> QED BY <1>1, <2>1 DEF Table
<1>10. tlb_table[y] = mapping.pages[y + 1]
  BY <1>6, <1>9, SMTT(30)
<1>11. TLB!Translated(c) = [addr |-> tlb_table[y] + z, len |-> l]
  <2>1. TLB!PageBase(c.addr, base_vaddr) = y /\ TLB!PageOffset(c.addr, base_vaddr) = z
    BY <1>1, <1>3, <1>5, <1>6, <1>8, <1>9 DEF TLB!PageBase, TLB!PageOffset
  <2> QED BY <1>1, <1>5, <1>7, <2>1 DEF TLB!Translated
<1>12. Moved(c) = [addr |-> mapping.pages[y + 1] + z, len |-> l]
  BY <1>1, <1>3, <1>6, <1>8 DEF Moved, Memory!Translate
<1>13. mapping.pages[y + 1] \in Nat
  <2>1. mapping.pages \in Seq(Nat) /\ y + 1 \in 1 .. Len(mapping.pages)
    BY <1>1, <1>6 DEF MappingOK
  <2> QED BY <2>1, ElementOfSeq
<1>14. Moved(c) \in Cmd
  BY <1>12, <1>13, SMTT(30) DEF Cmd
<1> QED BY <1>10, <1>11, <1>12, <1>14

-----------------------------------------------------------------------------
(* The steps *)

(* The table is not changed. *)
LEMMA TableKept ==
  ASSUME ReadInv, UNCHANGED <<mapping, tlbInterface, tlb_table, base_vaddr, top_page_base>>
  PROVE  (\E k \in 0 .. Len(mapping.pages) : Table(k))' /\ MappingOK'
<1>1. /\ mapping' = mapping /\ tlbInterface' = tlbInterface /\ tlb_table' = tlb_table
      /\ base_vaddr' = base_vaddr /\ top_page_base' = top_page_base
  OBVIOUS
<1>2. \A k : Table(k) => Table(k)'
  BY <1>1 DEF Table, Entry
<1> QED BY <1>1, <1>2 DEF ReadInv, MappingOK

(* What the theorem is about, and nothing else changes it. *)
readState == <<readCmd, dmaReadCmd, h2cDsc, dma_read_pkg_counter, reads, mapping, tlbInterface,
               tlb_table, base_vaddr, top_page_base>>

LEMMA NotConcerned ==
  ASSUME ReadInv, UNCHANGED readState
  PROVE  ReadInv'
<1>1. /\ readCmd' = readCmd /\ dmaReadCmd' = dmaReadCmd /\ h2cDsc' = h2cDsc
      /\ dma_read_pkg_counter' = dma_read_pkg_counter /\ reads' = reads /\ mapping' = mapping
      /\ tlbInterface' = tlbInterface /\ tlb_table' = tlb_table /\ base_vaddr' = base_vaddr
      /\ top_page_base' = top_page_base
  BY DEF readState
<1>2. ReadTypes'
  BY <1>1 DEF ReadInv, ReadTypes
<1>3. Image' = Image
  BY <1>1 DEF Image, Moved, Memory!Translate
<1>4. Queues(dma_read_pkg_counter, Len(h2cDsc), Len(dmaReadCmd), Len(readCmd), Len(reads))'
  BY <1>1, <1>3 DEF ReadInv, Queues, InBuffer
<1>6. (\E k \in 0 .. Len(mapping.pages) : Table(k))' /\ MappingOK'
  BY <1>1, TableKept
<1> QED BY <1>1, <1>2, <1>4, <1>6 DEF ReadInv

(* The number of the streams' elements. *)
LEMMA Counts ==
  ASSUME ReadTypes
  PROVE  /\ Len(h2cDsc) \in Nat /\ Len(dmaReadCmd) \in Nat /\ Len(readCmd) \in Nat
         /\ Len(reads) \in Nat /\ dma_read_pkg_counter \in Nat
  BY LenProperties DEF ReadTypes

(* A read is served, or a word of it. *)
LEMMA H2cWordStep ==
  ASSUME ReadInv, H2cWord
  PROVE  ReadInv'
<1>1. /\ readCmd' = readCmd /\ dmaReadCmd' = dmaReadCmd /\ reads' = reads /\ mapping' = mapping
      /\ tlbInterface' = tlbInterface /\ tlb_table' = tlb_table /\ base_vaddr' = base_vaddr
      /\ top_page_base' = top_page_base
      /\ h2cDsc # <<>>
      /\ \/ h2cDsc' = h2cDsc /\ dma_read_pkg_counter' = dma_read_pkg_counter + 0
         \/ h2cDsc' = Tail(h2cDsc) /\ dma_read_pkg_counter' = dma_read_pkg_counter + 1
  BY DEF H2cWord, tlbVars, envVars
<1>2. ReadTypes /\ MappingOK
  BY DEF ReadInv
<1>3. PICK p \in Nat, h \in Nat, d \in Nat, r \in Nat, n \in Nat :
        /\ p = dma_read_pkg_counter /\ h = Len(h2cDsc) /\ d = Len(dmaReadCmd)
        /\ r = Len(readCmd) /\ n = Len(reads)
  BY <1>2, Counts
<1>4. CASE h2cDsc' = h2cDsc /\ dma_read_pkg_counter' = dma_read_pkg_counter + 0
  <2>1. dma_read_pkg_counter' = dma_read_pkg_counter
    BY <1>3, <1>4
  <2> QED BY <1>1, <1>4, <2>1, NotConcerned DEF readState
<1>5. CASE h2cDsc' = Tail(h2cDsc) /\ dma_read_pkg_counter' = dma_read_pkg_counter + 1
  <2>1. /\ h > 0 /\ h2cDsc' \in Seq(Cmd) /\ Len(h2cDsc') = h - 1 /\ Shorter(h2cDsc', h2cDsc, h)
    <3>1. h2cDsc \in Seq(Cmd)
      BY <1>2 DEF ReadTypes
    <3> QED BY <1>1, <1>3, <1>5, <3>1, TailOf
  <2>2. Image' = Image
    BY <1>1 DEF Image, Moved, Memory!Translate
  <2>3. Queues(p, h, d, r, n)
    BY <1>3 DEF ReadInv
  <2>4. n = p + h + d + r /\ Follows(h2cDsc, h, Image, p) /\ Follows(dmaReadCmd, d, Image, p + h)
        /\ Follows(readCmd, r, reads, p + h + d)
    BY <2>3 DEF Queues
  <2>5. h - 1 \in Nat /\ (p + 1) + (h - 1) = p + h /\ n = (p + 1) + (h - 1) + d + r
        /\ (p + 1) + (h - 1) + d = p + h + d /\ p < n
    BY <2>1, <2>4
  <2>6. Follows(h2cDsc', h - 1, Image, p + 1)
    BY <2>1, <2>4, PopFollows
  <2>7. \A i \in (p + 1) + 1 .. n : InBuffer(reads[i])
    BY <2>3 DEF Queues
  <2>8. \A c : InBuffer(c)' = InBuffer(c)
    BY <1>1 DEF InBuffer
  <2>9. Queues(dma_read_pkg_counter, Len(h2cDsc), Len(dmaReadCmd), Len(readCmd), Len(reads))'
    BY <1>1, <1>3, <1>5, <2>1, <2>2, <2>4, <2>5, <2>6, <2>7, <2>8 DEF Queues
  <2>10. ReadTypes'
    BY <1>1, <1>2, <1>3, <1>5, <2>1 DEF ReadTypes
  <2>12. (\E k \in 0 .. Len(mapping.pages) : Table(k))' /\ MappingOK'
    BY <1>1, TableKept
  <2>13. tlbInterface' = <<>>
    BY <1>1, <1>3, <2>5 DEF ReadInv
  <2> QED BY <2>9, <2>10, <2>12, <2>13 DEF ReadInv
<1> QED BY <1>1, <1>4, <1>5

(* A translated read becomes a descriptor. *)
LEMMA LoadReadDescriptorStep ==
  ASSUME ReadInv, LoadReadDescriptor
  PROVE  ReadInv'
<1>1. /\ readCmd' = readCmd /\ reads' = reads /\ mapping' = mapping
      /\ tlbInterface' = tlbInterface /\ tlb_table' = tlb_table /\ base_vaddr' = base_vaddr
      /\ top_page_base' = top_page_base
      /\ dma_read_pkg_counter' = dma_read_pkg_counter
      /\ dmaReadCmd # <<>> /\ dmaReadCmd' = Tail(dmaReadCmd)
      /\ h2cDsc' = Append(h2cDsc, Head(dmaReadCmd))
  BY DEF LoadReadDescriptor, envVars
<1>2. ReadTypes /\ MappingOK
  BY DEF ReadInv
<1>3. PICK p \in Nat, h \in Nat, d \in Nat, r \in Nat, n \in Nat :
        /\ p = dma_read_pkg_counter /\ h = Len(h2cDsc) /\ d = Len(dmaReadCmd)
        /\ r = Len(readCmd) /\ n = Len(reads)
  BY <1>2, Counts
<1>4. /\ d > 0 /\ dmaReadCmd' \in Seq(Cmd) /\ Len(dmaReadCmd') = d - 1
      /\ Shorter(dmaReadCmd', dmaReadCmd, d)
      /\ Head(dmaReadCmd) = dmaReadCmd[1] /\ Head(dmaReadCmd) \in Cmd
  <2>1. dmaReadCmd \in Seq(Cmd)
    BY <1>2 DEF ReadTypes
  <2> QED BY <1>1, <1>3, <2>1, TailOf
<1>5. /\ h2cDsc' \in Seq(Cmd) /\ Len(h2cDsc') = h + 1 /\ Longer(h2cDsc', h2cDsc, h)
      /\ h2cDsc'[h + 1] = dmaReadCmd[1]
  <2>1. h2cDsc \in Seq(Cmd)
    BY <1>2 DEF ReadTypes
  <2> QED BY <1>1, <1>3, <1>4, <2>1, AppendOf
<1>6. Image' = Image
  BY <1>1 DEF Image, Moved, Memory!Translate
<1>7. Queues(p, h, d, r, n)
  BY <1>3 DEF ReadInv
<1>8. n = p + h + d + r /\ Follows(h2cDsc, h, Image, p) /\ Follows(dmaReadCmd, d, Image, p + h)
      /\ Follows(readCmd, r, reads, p + h + d)
  BY <1>7 DEF Queues
<1>9. /\ p + h \in Nat /\ d - 1 \in Nat /\ p + (h + 1) = (p + h) + 1
      /\ n = p + (h + 1) + (d - 1) + r /\ p + (h + 1) + (d - 1) = p + h + d
      /\ (p + h) + 1 = p + h + 1
  BY <1>4, <1>8
<1>10. dmaReadCmd[1] = Image[(p + h) + 1] /\ Follows(dmaReadCmd', d - 1, Image, (p + h) + 1)
  BY <1>4, <1>8, <1>9, PopFollows
<1>11. Follows(h2cDsc', h + 1, Image, p)
  BY <1>5, <1>8, <1>9, <1>10, PushFollows
<1>12. \A i \in p + 1 .. n : InBuffer(reads[i])
  BY <1>7 DEF Queues
<1>13. \A c : InBuffer(c)' = InBuffer(c)
  BY <1>1 DEF InBuffer
<1>14. Queues(dma_read_pkg_counter, Len(h2cDsc), Len(dmaReadCmd), Len(readCmd), Len(reads))'
  BY <1>1, <1>3, <1>4, <1>5, <1>6, <1>8, <1>9, <1>10, <1>11, <1>12, <1>13 DEF Queues
<1>15. ReadTypes'
  BY <1>1, <1>2, <1>4, <1>5 DEF ReadTypes
<1>16. (\E k \in 0 .. Len(mapping.pages) : Table(k))' /\ MappingOK'
  BY <1>1, TableKept
<1> QED BY <1>1, <1>14, <1>15, <1>16 DEF ReadInv

(* A read is translated.  The TLB has the whole mapping: while it has not, *)
(* no read is waiting.                                                     *)
LEMMA TranslateReadStep ==
  ASSUME PathAssumption, ReadInv, TranslateRead
  PROVE  ReadInv'
<1>1. /\ h2cDsc' = h2cDsc /\ reads' = reads /\ mapping' = mapping
      /\ tlbInterface' = tlbInterface /\ tlb_table' = tlb_table /\ base_vaddr' = base_vaddr
      /\ top_page_base' = top_page_base
      /\ dma_read_pkg_counter' = dma_read_pkg_counter
      /\ readCmd # <<>> /\ readCmd' = Tail(readCmd)
      /\ dmaReadCmd' = Append(dmaReadCmd, TLB!Translated(Head(readCmd)))
  BY DEF TranslateRead, TLB!ReadCmd, TLB!table, readVars, envVars
<1>2. ReadTypes /\ MappingOK
  BY DEF ReadInv
<1>3. PICK p \in Nat, h \in Nat, d \in Nat, r \in Nat, n \in Nat :
        /\ p = dma_read_pkg_counter /\ h = Len(h2cDsc) /\ d = Len(dmaReadCmd)
        /\ r = Len(readCmd) /\ n = Len(reads)
  BY <1>2, Counts
<1>4. /\ r > 0 /\ readCmd' \in Seq(Cmd) /\ Len(readCmd') = r - 1
      /\ Shorter(readCmd', readCmd, r) /\ Head(readCmd) = readCmd[1] /\ Head(readCmd) \in Cmd
  <2>1. readCmd \in Seq(Cmd)
    BY <1>2 DEF ReadTypes
  <2> QED BY <1>1, <1>3, <2>1, TailOf
<1>5. Queues(p, h, d, r, n)
  BY <1>3 DEF ReadInv
<1>6. n = p + h + d + r /\ Follows(h2cDsc, h, Image, p) /\ Follows(dmaReadCmd, d, Image, p + h)
      /\ Follows(readCmd, r, reads, p + h + d)
  BY <1>5 DEF Queues
<1>7. /\ p + h \in Nat /\ p + h + d \in Nat /\ r - 1 \in Nat /\ (p + h + d) + 1 \in p + 1 .. n
      /\ (p + h + d) + 1 = (p + h) + d + 1
      /\ n = p + h + (d + 1) + (r - 1) /\ p + h + (d + 1) = (p + h + d) + 1 /\ p < n
  BY <1>4, <1>6
<1>8. readCmd[1] = reads[(p + h + d) + 1] /\ Follows(readCmd', r - 1, reads, (p + h + d) + 1)
  BY <1>4, <1>6, <1>7, PopFollows
<1>9. PICK c \in Cmd : c = Head(readCmd) /\ c = reads[(p + h + d) + 1] /\ InBuffer(c)
  <2>1. InBuffer(reads[(p + h + d) + 1])
    BY <1>5, <1>7 DEF Queues
  <2> QED BY <1>4, <1>8, <2>1
<1>10. TLB!Translated(c) = Moved(c) /\ Moved(c) \in Cmd
  <2>1. tlbInterface = <<>>
    BY <1>3, <1>7 DEF ReadInv
  <2>2. PICK k \in 0 .. Len(mapping.pages) : Table(k)
    BY DEF ReadInv
  <2>3. Len(mapping.pages) \in Nat
    BY <1>2, LenProperties DEF MappingOK
  <2>4. Len(mapping.pages) - k = 0
    BY <2>1, <2>2 DEF Table
  <2>5. k = Len(mapping.pages)
    BY <2>3, <2>4
  <2> QED BY <1>2, <1>9, <2>2, <2>5, TranslatesAsMapped
<1>11. /\ dmaReadCmd' \in Seq(Cmd) /\ Len(dmaReadCmd') = d + 1 /\ Longer(dmaReadCmd', dmaReadCmd, d)
       /\ dmaReadCmd'[d + 1] = Moved(c)
  <2>1. dmaReadCmd \in Seq(Cmd)
    BY <1>2 DEF ReadTypes
  <2>2. dmaReadCmd' = Append(dmaReadCmd, Moved(c))
    BY <1>1, <1>9, <1>10
  <2> QED BY <1>3, <1>10, <2>1, <2>2, AppendOf
<1>12. dmaReadCmd'[d + 1] = Image[(p + h) + d + 1]
  <2>1. Image[(p + h + d) + 1] = Moved(reads[(p + h + d) + 1])
    BY <1>7 DEF Image
  <2> QED BY <1>7, <1>9, <1>11, <2>1
<1>13. Follows(dmaReadCmd', d + 1, Image, p + h)
  BY <1>6, <1>7, <1>11, <1>12, PushFollows
<1>14. Image' = Image
  BY <1>1 DEF Image, Moved, Memory!Translate
<1>15. \A i \in p + 1 .. n : InBuffer(reads[i])
  BY <1>5 DEF Queues
<1>16. \A x : InBuffer(x)' = InBuffer(x)
  BY <1>1 DEF InBuffer
<1>17. Queues(dma_read_pkg_counter, Len(h2cDsc), Len(dmaReadCmd), Len(readCmd), Len(reads))'
  BY <1>1, <1>3, <1>4, <1>6, <1>7, <1>8, <1>11, <1>13, <1>14, <1>15, <1>16 DEF Queues
<1>18. ReadTypes'
  BY <1>1, <1>2, <1>4, <1>11 DEF ReadTypes
<1>19. (\E k \in 0 .. Len(mapping.pages) : Table(k))' /\ MappingOK'
  BY <1>1, TableKept
<1> QED BY <1>1, <1>17, <1>18, <1>19 DEF ReadInv

(* The user logic issues a read, in a buffer that is mapped. *)
LEMMA IssueReadStep ==
  ASSUME PathAssumption, ReadInv, NEW addr \in Memory!Address, NEW len \in Lengths,
         IssueRead(addr, len)
  PROVE  ReadInv'
<1>1. /\ dmaReadCmd' = dmaReadCmd /\ h2cDsc' = h2cDsc /\ mapping' = mapping
      /\ tlbInterface' = tlbInterface /\ tlb_table' = tlb_table /\ base_vaddr' = base_vaddr
      /\ top_page_base' = top_page_base
      /\ dma_read_pkg_counter' = dma_read_pkg_counter /\ tlbInterface = <<>>
      /\ reads' = Append(reads, [addr |-> addr, len |-> len])
      /\ readCmd' = Append(readCmd, [addr |-> addr, len |-> len])
      /\ ((addr - mapping.base) % PageSize) + len <= PageSize
  BY DEF IssueRead, readVars
<1>2. ReadTypes /\ MappingOK
  BY DEF ReadInv
<1>3. PICK p \in Nat, h \in Nat, d \in Nat, r \in Nat, n \in Nat :
        /\ p = dma_read_pkg_counter /\ h = Len(h2cDsc) /\ d = Len(dmaReadCmd)
        /\ r = Len(readCmd) /\ n = Len(reads)
  BY <1>2, Counts
<1>4. PICK c : c = [addr |-> addr, len |-> len]
  OBVIOUS
<1>5. c \in Cmd /\ InBuffer(c)
  <2>1. PICK L \in Nat, P \in Nat \ {0}, b \in Nat :
          L = Len(mapping.pages) /\ P = PageSize /\ b = mapping.base
    <3>1. Len(mapping.pages) \in Nat
      BY <1>2, LenProperties DEF MappingOK
    <3> QED BY <1>2, <3>1 DEF MappingOK, PathAssumption
  <2>2. PICK x \in 0 .. P * L - 1 : addr = b + x
    BY <2>1 DEF Memory!Address
  <2>3. addr \in Nat /\ addr >= b /\ addr - b < P * L
    BY <2>2
  <2>4. len \in Nat /\ LenMod \in Nat /\ 2 * P < LenMod
    BY <2>1 DEF PathAssumption
  <2>5. (addr - b) % P >= 0 /\ (addr - b) % P \in Int
    BY <2>2
  <2>6. ((addr - b) % P) + len <= P
    BY <1>1, <2>1
  <2>7. len < LenMod
    BY <2>4, <2>5, <2>6
  <2>8. c.addr = addr /\ c.len = len
    BY <1>4
  <2> QED BY <1>4, <2>1, <2>3, <2>4, <2>6, <2>7, <2>8 DEF Cmd, InBuffer
<1>6. reads' \in Seq(Cmd) /\ Len(reads') = n + 1 /\ Longer(reads', reads, n) /\ reads'[n + 1] = c
  <2>1. reads \in Seq(Cmd)
    BY <1>2 DEF ReadTypes
  <2> QED BY <1>1, <1>3, <1>4, <1>5, <2>1, AppendOf
<1>7. readCmd' \in Seq(Cmd) /\ Len(readCmd') = r + 1 /\ Longer(readCmd', readCmd, r)
      /\ readCmd'[r + 1] = c
  <2>1. readCmd \in Seq(Cmd)
    BY <1>2 DEF ReadTypes
  <2> QED BY <1>1, <1>3, <1>4, <1>5, <2>1, AppendOf
<1>8. Queues(p, h, d, r, n)
  BY <1>3 DEF ReadInv
<1>9. n = p + h + d + r /\ Follows(h2cDsc, h, Image, p) /\ Follows(dmaReadCmd, d, Image, p + h)
      /\ Follows(readCmd, r, reads, p + h + d)
  BY <1>8 DEF Queues
<1>10. Longer(Image', Image, n)
  <2>1. ASSUME NEW i \in 1 .. n
        PROVE  Image'[i] = Image[i]
    <3>1. reads'[i] = reads[i] /\ i \in Nat
      BY <1>6 DEF Longer
    <3> QED BY <1>1, <3>1 DEF Image, Moved, Memory!Translate
  <2> QED BY <2>1 DEF Longer
<1>11. /\ p + h \in Nat /\ p + h + d \in Nat /\ p + h <= n /\ (p + h) + d <= n
       /\ (p + h + d) + r <= n /\ (p + h + d) + r + 1 = n + 1
       /\ n + 1 = p + h + d + (r + 1)
  BY <1>9
<1>12. PICK I : I = Image'
  OBVIOUS
<1>13. Follows(h2cDsc, h, I, p) /\ Follows(dmaReadCmd, d, I, p + h)
  <2>1. Longer(I, Image, n)
    BY <1>10, <1>12
  <2> QED BY <1>9, <1>11, <2>1, SameFollows
<1>14. Follows(readCmd', r + 1, reads', p + h + d)
  <2>1. Follows(readCmd, r, reads', p + h + d)
    BY <1>6, <1>9, <1>11, SameFollows
  <2>2. readCmd'[r + 1] = reads'[(p + h + d) + r + 1]
    BY <1>6, <1>7, <1>11
  <2> QED BY <1>7, <1>11, <2>1, <2>2, PushFollows
<1>15. \A x : InBuffer(x)' = InBuffer(x)
  BY <1>1 DEF InBuffer
<1>16. ASSUME NEW i \in p + 1 .. n + 1
       PROVE  InBuffer(reads'[i])
  <2>1. CASE i = n + 1
    BY <1>5, <1>6, <2>1
  <2>2. CASE i # n + 1
    <3>1. i \in p + 1 .. n /\ i \in 1 .. n
      BY <2>2
    <3> QED BY <1>6, <1>8, <3>1 DEF Queues, Longer
  <2> QED BY <2>1, <2>2
<1>17. Queues(dma_read_pkg_counter, Len(h2cDsc), Len(dmaReadCmd), Len(readCmd), Len(reads))'
  BY <1>1, <1>3, <1>6, <1>7, <1>11, <1>12, <1>13, <1>14, <1>15, <1>16 DEF Queues
<1>18. ReadTypes'
  BY <1>1, <1>2, <1>6, <1>7 DEF ReadTypes
<1>19. (\E k \in 0 .. Len(mapping.pages) : Table(k))' /\ MappingOK'
  BY <1>1, TableKept
<1> QED BY <1>1, <1>17, <1>18, <1>19 DEF ReadInv

(* The TLB takes the next page of the mapping. *)
LEMMA TakeMappingStep ==
  ASSUME PathAssumption, ReadInv, TakeMapping
  PROVE  ReadInv'
<1>1. /\ readCmd' = readCmd /\ dmaReadCmd' = dmaReadCmd /\ h2cDsc' = h2cDsc /\ reads' = reads
      /\ mapping' = mapping /\ dma_read_pkg_counter' = dma_read_pkg_counter
      /\ tlbInterface # <<>> /\ tlbInterface' = Tail(tlbInterface)
  BY DEF TakeMapping, TLB!NewMapping, readVars, envVars
<1>2. ReadTypes /\ MappingOK
  BY DEF ReadInv
<1>3. PICK k \in 0 .. Len(mapping.pages) : Table(k)
  BY DEF ReadInv
<1>4. PICK P \in Nat \ {0}, L \in Nat, T \in Nat, A \in Nat, b \in Nat, l \in Nat :
        /\ P = PageSize /\ L = Len(mapping.pages) /\ T = TlbEntries /\ A = AddrMod
        /\ b = mapping.base /\ l = Len(tlbInterface)
  <2>1. Len(mapping.pages) \in Nat /\ Len(tlbInterface) \in Nat
    BY <1>2, LenProperties DEF MappingOK, ReadTypes
  <2> QED BY <1>2, <2>1 DEF PathAssumption, MappingOK
<1>5. l = L - k /\ L <= T /\ b + P * L <= A /\ k \in Nat
  BY <1>2, <1>3, <1>4 DEF Table, MappingOK
<1>6. /\ l > 0 /\ Head(tlbInterface) = tlbInterface[1] /\ Shorter(tlbInterface', tlbInterface, l)
      /\ tlbInterface' \in Seq([vaddr : Nat, paddr : Nat, isBase : BOOLEAN])
      /\ Len(tlbInterface') = l - 1
  <2>1. tlbInterface \in Seq([vaddr : Nat, paddr : Nat, isBase : BOOLEAN])
    BY <1>2 DEF ReadTypes
  <2> QED BY <1>1, <1>4, <2>1, TailOf
<1>7. k < L /\ k + 1 \in 1 .. L /\ l - 1 = L - (k + 1) /\ k % T = k /\ k \in 0 .. T - 1
  <2>1. k < L /\ k + 1 \in 1 .. L /\ l - 1 = L - (k + 1) /\ k < T
    BY <1>5, <1>6
  <2>2. k % T = k
    BY <1>5, <2>1, WrapsNot
  <2>3. k \in 0 .. T - 1
    BY <1>5, <2>1
  <2> QED BY <2>1, <2>2, <2>3
<1>8. Head(tlbInterface) = Entry(k + 1)
  <2>1. 1 \in 1 .. Len(tlbInterface)
    BY <1>4, <1>6
  <2> QED BY <1>3, <1>6, <2>1 DEF Table
<1>9. PICK m : m = Head(tlbInterface)
  OBVIOUS
<1>10. m.vaddr = b + k * P /\ m.paddr = mapping.pages[k + 1] /\ (m.isBase <=> k = 0)
  <2>1. (k + 1) - 1 = k /\ (k + 1 = 1 <=> k = 0)
    BY <1>5
  <2>2. m = [vaddr |-> mapping.base + ((k + 1) - 1) * PageSize, paddr |-> mapping.pages[k + 1],
             isBase |-> k + 1 = 1]
    BY <1>8, <1>9 DEF Entry
  <2>3. m.vaddr = mapping.base + ((k + 1) - 1) * PageSize /\ m.paddr = mapping.pages[k + 1]
        /\ m.isBase = (k + 1 = 1)
    BY <2>2, Zenon
  <2>4. m.vaddr = b + k * P
    BY <1>4, <2>1, <2>3, Zenon
  <2> QED BY <2>1, <2>3, <2>4, Zenon
<1>11. TLB!NewBase(m) = b
  <2>1. CASE k = 0
    <3>1. b + 0 * P = b
      OBVIOUS
    <3> QED BY <1>10, <2>1, <3>1 DEF TLB!NewBase
  <2>2. CASE k # 0
    <3>1. k > 0
      BY <1>5, <2>2
    <3>2. base_vaddr = b
      BY <1>3, <1>4, <3>1 DEF Table
    <3> QED BY <1>10, <2>2, <3>2 DEF TLB!NewBase
  <2> QED BY <2>1, <2>2
<1>12. TLB!PageBase(m.vaddr, b) = k
  <2>1. k * P \in Nat /\ (b + k * P) - b = k * P
    BY <1>5
  <2>2. k * P < A
    <3>1. PICK z \in Nat : L = k + 1 + z
      <4>1. L - k - 1 \in Nat /\ L = k + 1 + (L - k - 1)
        BY <1>5, <1>7
      <4> QED BY <4>1
    <3>2. P * L = k * P + P + P * z /\ P * z >= 0 /\ k * P >= 0
      BY <1>5, <3>1
    <3> QED BY <1>5, <2>1, <3>2
  <2>3. (k * P) % A = k * P
    BY <2>1, <2>2, WrapsNot
  <2>4. (k * P) \div P = k
    BY <1>5, PageOfEntry
  <2> QED BY <1>4, <1>10, <2>1, <2>3, <2>4 DEF TLB!PageBase
<1>13. base_vaddr' = b /\ tlb_table' = [tlb_table EXCEPT ![k] = mapping.pages[k + 1]]
  BY <1>4, <1>7, <1>9, <1>10, <1>11, <1>12 DEF TakeMapping, TLB!NewMapping
<1>24. top_page_base' \in Nat /\ top_page_base' >= (k + 1) - 1
  <2>1. top_page_base \in Nat
    BY <1>2 DEF ReadTypes
  <2>2. top_page_base' = IF k > top_page_base THEN k ELSE top_page_base
    BY <1>9, <1>11, <1>12 DEF TakeMapping, TLB!NewMapping
  <2> QED BY <1>5, <2>1, <2>2
<1>14. mapping.pages[k + 1] \in Nat
  <2>1. mapping.pages \in Seq(Nat) /\ k + 1 \in 1 .. Len(mapping.pages)
    BY <1>2, <1>4, <1>7 DEF MappingOK
  <2> QED BY <2>1, ElementOfSeq
<1>15. tlb_table \in [0 .. T - 1 -> Nat]
  BY <1>2, <1>4 DEF ReadTypes
<1>16. tlb_table' \in [0 .. T - 1 -> Nat]
  BY <1>7, <1>13, <1>14, <1>15
<1>17. \A j \in 0 .. (k + 1) - 1 : tlb_table'[j] = mapping.pages[j + 1]
  <2> TAKE j \in 0 .. (k + 1) - 1
  <2>1. j \in 0 .. T - 1
    BY <1>5, <1>7
  <2>2. CASE j = k
    BY <1>7, <1>13, <1>15, <2>2
  <2>3. CASE j # k
    <3>1. j \in 0 .. k - 1
      BY <1>5, <2>3
    <3>2. tlb_table[j] = mapping.pages[j + 1]
      BY <1>3, <3>1 DEF Table
    <3> QED BY <1>13, <1>15, <2>1, <2>3, <3>2
  <2> QED BY <2>2, <2>3
<1>18. \A i \in 1 .. l - 1 : tlbInterface'[i] = Entry((k + 1) + i)
  <2> TAKE i \in 1 .. l - 1
  <2>1. i + 1 \in 1 .. l /\ k + (i + 1) = (k + 1) + i
    BY <1>5
  <2>2. tlbInterface'[i] = tlbInterface[i + 1]
    BY <1>6 DEF Shorter
  <2>3. tlbInterface[i + 1] = Entry(k + (i + 1))
    BY <1>3, <1>4, <2>1 DEF Table
  <2> QED BY <2>1, <2>2, <2>3
<1>19. \A i : Entry(i)' = Entry(i)
  BY <1>1 DEF Entry
<1>20. Table(k + 1)'
  BY <1>1, <1>4, <1>6, <1>7, <1>13, <1>17, <1>18, <1>19, <1>24 DEF Table
<1>21. (\E i \in 0 .. Len(mapping.pages) : Table(i))'
  <2>1. k + 1 \in 0 .. Len(mapping'.pages)
    BY <1>1, <1>4, <1>7
  <2> QED BY <1>20, <2>1
<1>22. ReadTypes' /\ MappingOK'
  BY <1>1, <1>2, <1>4, <1>6, <1>13, <1>16, <1>24 DEF ReadTypes, MappingOK
<1>23. Image' = Image /\ \A x : InBuffer(x)' = InBuffer(x)
  BY <1>1 DEF Image, Moved, Memory!Translate, InBuffer
<1>25. Queues(dma_read_pkg_counter, Len(h2cDsc), Len(dmaReadCmd), Len(readCmd), Len(reads))'
  BY <1>1, <1>23 DEF ReadInv, Queues
<1>26. dma_read_pkg_counter' = Len(reads')
  BY <1>1 DEF ReadInv
<1> QED BY <1>21, <1>22, <1>25, <1>26 DEF ReadInv

LEMMA SeqOfLength ==
  ASSUME NEW S, NEW L \in Nat, NEW q \in [1 .. L -> S]
  PROVE  q \in Seq(S) /\ Len(q) = L
<1>1. q \in Seq(S)
  BY SeqDef
<1>2. Len(q) \in Nat /\ DOMAIN q = 1 .. Len(q) /\ DOMAIN q = 1 .. L
  BY <1>1, LenProperties
<1>3. PICK l \in Nat : l = Len(q)
  BY <1>2
<1>4. 1 .. l = 1 .. L
  BY <1>2, <1>3
<1>5. l = L
  <2>1. l > 0 => l \in 1 .. L
    BY <1>4
  <2>2. L > 0 => L \in 1 .. l
    BY <1>4
  <2> QED BY <2>1, <2>2
<1> QED BY <1>1, <1>3, <1>5

(* The host maps its buffer anew: no read is on its way. *)
LEMMA HostMapStep ==
  ASSUME PathAssumption, ReadInv, NEW base \in Bases, NEW pages \in PageTables,
         HostMap(base, pages)
  PROVE  ReadInv'
<1>1. /\ readCmd' = readCmd /\ dmaReadCmd' = dmaReadCmd /\ h2cDsc' = h2cDsc /\ reads' = reads
      /\ dma_read_pkg_counter' = dma_read_pkg_counter
      /\ tlb_table' = tlb_table /\ base_vaddr' = base_vaddr /\ top_page_base' = top_page_base
      /\ dma_read_pkg_counter = Len(reads)
      /\ mapping' = [base |-> base, pages |-> pages]
      /\ tlbInterface' = [i \in DOMAIN pages |->
                            [vaddr |-> base + (i - 1) * PageSize, paddr |-> pages[i],
                             isBase |-> i = 1]]
  BY DEF HostMap, readVars
<1>2. ReadTypes
  BY DEF ReadInv
<1>3. PICK p \in Nat, h \in Nat, d \in Nat, r \in Nat, n \in Nat :
        /\ p = dma_read_pkg_counter /\ h = Len(h2cDsc) /\ d = Len(dmaReadCmd)
        /\ r = Len(readCmd) /\ n = Len(reads)
  BY <1>2, Counts
<1>4. n = p + h + d + r
  BY <1>3 DEF ReadInv, Queues
<1>5. h = 0 /\ d = 0 /\ r = 0 /\ n = p
  BY <1>1, <1>3, <1>4
<1>6. Queues(p, 0, 0, 0, p)'
  <2>1. p = p + 0 + 0 + 0
    OBVIOUS
  <2> QED BY <2>1 DEF Queues, Follows
<1>7. Queues(dma_read_pkg_counter, Len(h2cDsc), Len(dmaReadCmd), Len(readCmd), Len(reads))'
  BY <1>1, <1>3, <1>5, <1>6
<1>8. PICK L \in Nat : L = Len(pages) /\ DOMAIN pages = 1 .. L /\ pages \in Seq(Nat)
  <2>1. pages \in Seq(Nat)
    BY DEF PathAssumption
  <2> QED BY <2>1, LenProperties
<1>9. mapping'.base = base /\ mapping'.pages = pages /\ DOMAIN mapping' = {"base", "pages"}
  BY <1>1
<1>10. MappingOK'
  <2>1. base \in Nat /\ Len(pages) \in 1 .. TlbEntries /\ base + PageSize * Len(pages) <= AddrMod
    BY DEF PathAssumption
  <2>2. Len(pages) <= TlbEntries
    BY <2>1 DEF PathAssumption
  <2> QED BY <1>8, <1>9, <2>1, <2>2 DEF MappingOK
<1>11. /\ tlbInterface' \in Seq([vaddr : Nat, paddr : Nat, isBase : BOOLEAN])
       /\ Len(tlbInterface') = L
       /\ \A i \in 1 .. L : tlbInterface'[i] = Entry(i)'
  <2>1. PICK P \in Nat, b \in Nat : P = PageSize /\ b = base
    BY DEF PathAssumption
  <2>2. ASSUME NEW i \in 1 .. L
        PROVE  [vaddr |-> b + (i - 1) * P, paddr |-> pages[i], isBase |-> i = 1]
                 \in [vaddr : Nat, paddr : Nat, isBase : BOOLEAN]
    <3>1. pages[i] \in Nat
      BY <1>8, ElementOfSeq
    <3>2. (i - 1) * P \in Nat
      OBVIOUS
    <3>3. b + (i - 1) * P \in Nat
      BY <3>2
    <3> QED BY <3>1, <3>3
  <2>3. tlbInterface' = [i \in 1 .. L |-> [vaddr |-> b + (i - 1) * P, paddr |-> pages[i],
                                           isBase |-> i = 1]]
    BY <1>1, <1>8, <2>1
  <2>4. tlbInterface' \in [1 .. L -> [vaddr : Nat, paddr : Nat, isBase : BOOLEAN]]
    BY <2>2, <2>3
  <2>5. tlbInterface' \in Seq([vaddr : Nat, paddr : Nat, isBase : BOOLEAN])
        /\ Len(tlbInterface') = L
    BY <2>4, SeqOfLength
  <2>6. \A i \in 1 .. L : tlbInterface'[i] = Entry(i)'
    BY <1>9, <2>1, <2>3 DEF Entry
  <2> QED BY <2>5, <2>6
<1>12. Table(0)'
  <2>1. L = L - 0 /\ ~(0 > 0) /\ \A i \in 1 .. L : 0 + i = i
    OBVIOUS
  <2>2. \A i \in 1 .. Len(tlbInterface') : tlbInterface'[i] = Entry(0 + i)'
    BY <1>11, <2>1
  <2>3. \A j \in 0 .. 0 - 1 : tlb_table'[j] = mapping'.pages[j + 1]
    OBVIOUS
  <2>4. top_page_base' >= 0 - 1
    BY <1>1, <1>2 DEF ReadTypes
  <2> QED BY <1>8, <1>9, <1>11, <2>1, <2>2, <2>3, <2>4 DEF Table
<1>13. (\E i \in 0 .. Len(mapping.pages) : Table(i))'
  <2>1. 0 \in 0 .. Len(mapping'.pages)
    BY <1>8, <1>9
  <2> QED BY <1>12, <2>1
<1>14. ReadTypes'
  BY <1>1, <1>2, <1>11 DEF ReadTypes
<1> QED BY <1>1, <1>7, <1>10, <1>13, <1>14 DEF ReadInv

(* The steps of the write path leave the reads alone. *)
LEMMA WritePathStep ==
  ASSUME \/ \E addr, len : IssueWrite(addr, len)
         \/ CheckStep \/ SplitStep \/ TranslateWrite \/ LoadWriteDescriptor \/ C2hWord
  PROVE  UNCHANGED readState
<1>1. CASE \E addr, len : IssueWrite(addr, len)
  BY <1>1 DEF IssueWrite, readState, tlbVars, readVars
<1>2. CASE CheckStep \/ SplitStep
  BY <1>2 DEF CheckStep, SplitStep, readState, tlbVars, readVars, envVars
<1>3. CASE TranslateWrite
  BY <1>3 DEF TranslateWrite, TLB!WriteCmd, TLB!table, readState, readVars, envVars
<1>4. CASE LoadWriteDescriptor
  BY <1>4 DEF LoadWriteDescriptor, readState, readVars, envVars
<1>5. CASE C2hWord
  BY <1>5 DEF C2hWord, readState, tlbVars, readVars, envVars
<1> QED BY <1>1, <1>2, <1>3, <1>4, <1>5

LEMMA ReadStart ==
  ASSUME PathAssumption, PathInit
  PROVE  ReadInv
<1>1. /\ readCmd = <<>> /\ dmaReadCmd = <<>> /\ h2cDsc = <<>> /\ reads = <<>>
      /\ tlbInterface = <<>> /\ dma_read_pkg_counter = 0 /\ base_vaddr = 0
      /\ top_page_base = 0
      /\ tlb_table = [page \in 0 .. TlbEntries - 1 |-> 0]
      /\ mapping = [base |-> 0, pages |-> <<>>]
  BY DEF PathInit, TLB!Init, Memory!Init
<1>2. ReadTypes
  BY <1>1 DEF ReadTypes
<1>3. mapping.base = 0 /\ mapping.pages = <<>> /\ DOMAIN mapping = {"base", "pages"}
      /\ Len(mapping.pages) = 0 /\ mapping.pages \in Seq(Nat)
  BY <1>1
<1>4. MappingOK
  <2>1. TlbEntries \in Nat /\ AddrMod \in Nat /\ PageSize \in Nat
    BY DEF PathAssumption
  <2>2. 0 <= TlbEntries /\ 0 + PageSize * 0 <= AddrMod
    BY <2>1
  <2> QED BY <1>3, <2>2 DEF MappingOK
<1>5. Queues(0, 0, 0, 0, 0)
  BY DEF Queues, Follows
<1>6. Queues(dma_read_pkg_counter, Len(h2cDsc), Len(dmaReadCmd), Len(readCmd), Len(reads))
  <2>1. Len(h2cDsc) = 0 /\ Len(dmaReadCmd) = 0 /\ Len(readCmd) = 0 /\ Len(reads) = 0
    BY <1>1
  <2> QED BY <1>1, <1>5, <2>1
<1>7. Table(0) /\ 0 \in 0 .. Len(mapping.pages)
  BY <1>1, <1>3 DEF Table
<1> QED BY <1>1, <1>2, <1>4, <1>6, <1>7 DEF ReadInv

LEMMA ReadStep ==
  ASSUME PathAssumption, ReadInv, [PathNext]_pathVars
  PROVE  ReadInv'
<1>1. CASE UNCHANGED pathVars
  BY <1>1, NotConcerned DEF pathVars, tlbVars, readVars, envVars, readState
<1>2. CASE \E base \in Bases, pages \in PageTables : HostMap(base, pages)
  BY <1>2, HostMapStep
<1>3. CASE \E addr \in Memory!Address, len \in Lengths : IssueRead(addr, len)
  BY <1>3, IssueReadStep
<1>4. CASE \/ \E addr \in Memory!Address, len \in Lengths : IssueWrite(addr, len)
           \/ CheckStep \/ SplitStep \/ TranslateWrite \/ LoadWriteDescriptor \/ C2hWord
  BY <1>4, WritePathStep, NotConcerned
<1>5. CASE TranslateRead
  BY <1>5, TranslateReadStep
<1>6. CASE TakeMapping
  BY <1>6, TakeMappingStep
<1>7. CASE LoadReadDescriptor
  BY <1>7, LoadReadDescriptorStep
<1>8. CASE H2cWord
  BY <1>8, H2cWordStep
<1> QED BY <1>1, <1>2, <1>3, <1>4, <1>5, <1>6, <1>7, <1>8 DEF PathNext

(* Each read that the TLB has translated is, in the order of issue, the    *)
(* oldest read that was not served, at the physical address of its page    *)
(* under the mapping that holds now: neither the writes that tlb() serves  *)
(* first, nor a host that maps another buffer when the reads have been     *)
(* served, makes one go to a page of another buffer.  For all page sizes,  *)
(* table sizes and buffers that PathAssumption allows.                     *)
THEOREM ReadsOwnPages == PathSpec => []ReadsTranslated
<1>1. PathInit => ReadInv
  BY ReadStart, PathAssumption
<1>2. ReadInv /\ [PathNext]_pathVars => ReadInv'
  BY ReadStep, PathAssumption
<1>3. ReadInv => ReadsTranslated
  <2> SUFFICES ASSUME ReadInv PROVE ReadsTranslated
    OBVIOUS
  <2>1. ReadTypes
    BY DEF ReadInv
  <2>2. PICK p \in Nat, h \in Nat, d \in Nat, r \in Nat, n \in Nat :
          /\ p = dma_read_pkg_counter /\ h = Len(h2cDsc) /\ d = Len(dmaReadCmd)
          /\ r = Len(readCmd) /\ n = Len(reads)
    BY <2>1, Counts
  <2>3. Follows(h2cDsc, h, Image, p) /\ Follows(dmaReadCmd, d, Image, p + h)
    BY <2>2 DEF ReadInv, Queues
  <2>4. PICK q : q = h2cDsc \o dmaReadCmd
    OBVIOUS
  <2>5. /\ DOMAIN q = 1 .. h + d
        /\ \A i \in 1 .. h + d : q[i] = IF i <= h THEN h2cDsc[i] ELSE dmaReadCmd[i - h]
    <3>1. h2cDsc \in Seq(Cmd) /\ dmaReadCmd \in Seq(Cmd)
      BY <2>1 DEF ReadTypes
    <3> QED BY <2>2, <2>4, <3>1
  <2>6. ASSUME NEW i \in DOMAIN q
        PROVE  q[i] = Moved(reads[p + i])
    <3>1. i \in 1 .. h + d
      BY <2>5
    <3>2. q[i] = Image[p + i]
      <4>1. CASE i <= h
        <5>1. i \in 1 .. h
          BY <3>1, <4>1
        <5> QED BY <2>3, <2>5, <3>1, <4>1, <5>1 DEF Follows
      <4>2. CASE ~(i <= h)
        <5>1. i - h \in 1 .. d /\ (p + h) + (i - h) = p + i
          BY <3>1, <4>2
        <5>2. dmaReadCmd[i - h] = Image[(p + h) + (i - h)]
          BY <2>3, <5>1 DEF Follows
        <5> QED BY <2>5, <3>1, <4>2, <5>1, <5>2
      <4> QED BY <4>1, <4>2
    <3>3. p + i \in Nat
      BY <3>1
    <3> QED BY <3>2, <3>3 DEF Image
  <2> QED BY <2>2, <2>4, <2>6 DEF ReadsTranslated, Moved
<1> QED BY <1>1, <1>2, <1>3, PTL DEF PathSpec

-----------------------------------------------------------------------------

(* The n elements of q lie one behind the other in a line of positions,    *)
(* from a to b.  An element is determined by its position in G, through K, *)
(* and next is the position of the element behind it.                      *)
Stream(q, n, K, next, G, a, b) ==
  \E f \in [Nat -> Nat] :
    /\ f[1] = a /\ f[n + 1] = b
    /\ \A i \in 1 .. n : f[i] \in G /\ q[i] = K[f[i]] /\ f[i + 1] = next[f[i]]
Queue(q, K, next, G, a, b) == Stream(q, Len(q), K, next, G, a, b)

LEMMA PopStream ==
  ASSUME NEW q, NEW n \in Nat, n > 0, NEW K, NEW next, NEW G, NEW a, NEW b,
         Stream(q, n, K, next, G, a, b), NEW q1, Shorter(q1, q, n)
  PROVE  a \in G /\ q[1] = K[a] /\ Stream(q1, n - 1, K, next, G, next[a], b)
<1>1. PICK f \in [Nat -> Nat] :
        /\ f[1] = a /\ f[n + 1] = b
        /\ \A i \in 1 .. n : f[i] \in G /\ q[i] = K[f[i]] /\ f[i + 1] = next[f[i]]
  BY DEF Stream
<1>2. PICK f1 : f1 = [i \in Nat |-> f[i + 1]]
  OBVIOUS
<1>3. f1 \in [Nat -> Nat] /\ \A i \in Nat : f1[i] = f[i + 1]
  BY <1>2
<1>4. f1[1] = next[a]
  <2>1. 1 \in 1 .. n
    OBVIOUS
  <2> QED BY <1>1, <1>3, <2>1
<1>5. f1[(n - 1) + 1] = b
  BY <1>1, <1>3
<1>6. ASSUME NEW i \in 1 .. n - 1
      PROVE  f1[i] \in G /\ q1[i] = K[f1[i]] /\ f1[i + 1] = next[f1[i]]
  <2>1. i + 1 \in 1 .. n /\ i \in Nat /\ i + 1 \in Nat
    OBVIOUS
  <2>2. f1[i] = f[i + 1] /\ f1[i + 1] = f[(i + 1) + 1] /\ q1[i] = q[i + 1]
    BY <1>3, <2>1 DEF Shorter
  <2> QED BY <1>1, <2>1, <2>2
<1>7. a \in G /\ q[1] = K[a]
  BY <1>1
<1> QED BY <1>3, <1>4, <1>5, <1>6, <1>7 DEF Stream

LEMMA PushStream ==
  ASSUME NEW q, NEW n \in Nat, NEW K, NEW next, NEW G, NEW a, NEW b,
         Stream(q, n, K, next, G, a, b), b \in G, next[b] \in Nat,
         NEW q1, Longer(q1, q, n), q1[n + 1] = K[b]
  PROVE  Stream(q1, n + 1, K, next, G, a, next[b])
<1>1. PICK f \in [Nat -> Nat] :
        /\ f[1] = a /\ f[n + 1] = b
        /\ \A i \in 1 .. n : f[i] \in G /\ q[i] = K[f[i]] /\ f[i + 1] = next[f[i]]
  BY DEF Stream
<1>2. PICK f1 : f1 = [f EXCEPT ![(n + 1) + 1] = next[b]]
  OBVIOUS
<1>3. f1 \in [Nat -> Nat] /\ f1[(n + 1) + 1] = next[b] /\ \A i \in 1 .. n + 1 : f1[i] = f[i]
  BY <1>2
<1>4. f1[1] = a
  BY <1>1, <1>3
<1>6. ASSUME NEW i \in 1 .. n + 1
      PROVE  f1[i] \in G /\ q1[i] = K[f1[i]] /\ f1[i + 1] = next[f1[i]]
  <2>1. CASE i = n + 1
    BY <1>1, <1>3, <2>1
  <2>2. CASE i # n + 1
    <3>1. i \in 1 .. n /\ i + 1 \in 1 .. n + 1
      BY <2>2
    <3>2. f1[i] = f[i] /\ f1[i + 1] = f[i + 1] /\ q1[i] = q[i]
      BY <1>3, <3>1 DEF Longer
    <3> QED BY <1>1, <3>1, <3>2
  <2> QED BY <2>1, <2>2
<1> QED BY <1>3, <1>4, <1>6 DEF Stream

LEMMA PopQueue ==
  ASSUME NEW S, NEW q \in Seq(S), q # <<>>, NEW K, NEW next, NEW G, NEW a, NEW b,
         Queue(q, K, next, G, a, b)
  PROVE  /\ Tail(q) \in Seq(S) /\ Len(Tail(q)) = Len(q) - 1 /\ Len(q) \in Nat
         /\ Queue(Tail(q), K, next, G, next[a], b)
         /\ a \in G /\ Head(q) = K[a] /\ K[a] \in S
<1>1. /\ Len(q) \in Nat /\ Len(q) > 0 /\ Tail(q) \in Seq(S) /\ Len(Tail(q)) = Len(q) - 1
      /\ Shorter(Tail(q), q, Len(q)) /\ Head(q) = q[1] /\ Head(q) \in S
  BY TailOf
<1>2. PICK n, t : n = Len(q) /\ n \in Nat /\ t = Tail(q)
  BY <1>1
<1>3. a \in G /\ q[1] = K[a] /\ Stream(t, n - 1, K, next, G, next[a], b)
  <2>1. n > 0 /\ Shorter(t, q, n) /\ Stream(q, n, K, next, G, a, b)
    BY <1>1, <1>2 DEF Queue
  <2> QED BY <1>2, <2>1, PopStream
<1> QED BY <1>1, <1>2, <1>3 DEF Queue

LEMMA PushQueue ==
  ASSUME NEW S, NEW q \in Seq(S), NEW K, NEW next, NEW G, NEW a, NEW b,
         Queue(q, K, next, G, a, b), b \in G, next[b] \in Nat, K[b] \in S
  PROVE  /\ Append(q, K[b]) \in Seq(S) /\ Len(Append(q, K[b])) = Len(q) + 1 /\ Len(q) \in Nat
         /\ Queue(Append(q, K[b]), K, next, G, a, next[b])
<1>1. PICK x \in S : x = K[b]
  OBVIOUS
<1>2. /\ Len(q) \in Nat /\ Append(q, x) \in Seq(S) /\ Len(Append(q, x)) = Len(q) + 1
      /\ Longer(Append(q, x), q, Len(q)) /\ Append(q, x)[Len(q) + 1] = x
  BY AppendOf
<1>3. PICK n, t : n = Len(q) /\ n \in Nat /\ t = Append(q, x)
  BY <1>2
<1>4. Stream(t, n + 1, K, next, G, a, next[b])
  <2>1. Longer(t, q, n) /\ t[n + 1] = K[b] /\ Stream(q, n, K, next, G, a, b)
    BY <1>1, <1>2, <1>3 DEF Queue
  <2> QED BY <1>3, <2>1, PushStream
<1> QED BY <1>1, <1>2, <1>3, <1>4 DEF Queue

LEMMA EmptyQueue ==
  ASSUME NEW K, NEW next, NEW G, NEW a \in Nat
  PROVE  Queue(<<>>, K, next, G, a, a)
<1>1. PICK f : f = [i \in Nat |-> a]
  OBVIOUS
<1>2. f \in [Nat -> Nat] /\ f[1] = a /\ f[0 + 1] = a
  BY <1>1
<1>3. Len(<<>>) = 0
  OBVIOUS
<1>4. Stream(<<>>, 0, K, next, G, a, a)
  BY <1>2 DEF Stream
<1> QED BY <1>3, <1>4 DEF Queue

(* A queue without elements is at one position. *)
LEMMA DrainedQueue ==
  ASSUME NEW q, q = <<>>, NEW K, NEW next, NEW G, NEW a, NEW b, Queue(q, K, next, G, a, b)
  PROVE  a = b
<1>1. Len(q) = 0
  OBVIOUS
<1>2. Stream(q, 0, K, next, G, a, b)
  BY <1>1 DEF Queue
<1>3. 0 + 1 = 1
  OBVIOUS
<1> QED BY <1>2, <1>3 DEF Stream

(* What an element is may change where there is no element. *)
LEMMA SameQueue ==
  ASSUME NEW q, NEW K, NEW next, NEW G, NEW a, NEW b, Queue(q, K, next, G, a, b),
         NEW K1, NEW next1, NEW G1,
         \A x \in G : x \in G1 /\ K1[x] = K[x] /\ next1[x] = next[x]
  PROVE  Queue(q, K1, next1, G1, a, b)
<1>1. PICK n : n = Len(q)
  OBVIOUS
<1>2. Stream(q, n, K, next, G, a, b)
  BY <1>1 DEF Queue
<1>3. PICK f \in [Nat -> Nat] :
        /\ f[1] = a /\ f[n + 1] = b
        /\ \A i \in 1 .. n : f[i] \in G /\ q[i] = K[f[i]] /\ f[i + 1] = next[f[i]]
  BY <1>2 DEF Stream
<1>4. \A i \in 1 .. n : f[i] \in G1 /\ q[i] = K1[f[i]] /\ f[i + 1] = next1[f[i]]
  BY <1>3
<1>5. Stream(q, n, K1, next1, G1, a, b)
  BY <1>3, <1>4 DEF Stream
<1> QED BY <1>1, <1>5 DEF Queue

LEMMA QueueEnds ==
  ASSUME NEW S, NEW q \in Seq(S), NEW K, NEW next, NEW G, NEW a, NEW b, Queue(q, K, next, G, a, b)
  PROVE  a \in Nat /\ b \in Nat
<1>1. PICK n \in Nat : n = Len(q)
  BY LenProperties
<1>2. Stream(q, n, K, next, G, a, b)
  BY <1>1 DEF Queue
<1> QED BY <1>2 DEF Stream

-----------------------------------------------------------------------------
(* Induction, in the form that the provers can use: a set of numbers that  *)
(* is not empty has a least element.                                       *)
Below == {ss \in Nat \X Nat : ss[1] < ss[2]}

LEMMA LeastElement ==
  ASSUME NEW S, S \subseteq Nat, S # {}
  PROVE  \E x \in S : \A y \in S : ~(y < x)
<1>1. WF!IsWellFoundedOn(Below, Nat)
  BY WF!NatLessThanWellFounded DEF WF!OpToRel, Below
<1>2. \E x \in S : \A y \in S : ~(<<y, x>> \in Below)
  BY <1>1, WF!WFMin
<1>3. \A y \in S, x \in S : y < x => <<y, x>> \in Below
  BY DEF Below
<1> QED BY <1>2, <1>3

-----------------------------------------------------------------------------
(* Runs of bytes *)

Byte == [vaddr : Nat, request : Nat]
Lesser(a, b) == IF a <= b THEN a ELSE b

(* The n bytes from position x on. *)
Slice(tok, x, n) == [k \in 1 .. n |-> tok[x + (k - 1)]]

LEMMA SliceSeq ==
  ASSUME NEW tok \in [Nat -> Byte], NEW x \in Nat, NEW n \in Nat
  PROVE  /\ Slice(tok, x, n) \in Seq(Byte) /\ Len(Slice(tok, x, n)) = n
         /\ \A k \in 1 .. n : Slice(tok, x, n)[k] = tok[x + (k - 1)]
<1>1. \A k \in 1 .. n : x + (k - 1) \in Nat
  OBVIOUS
<1>2. \A k \in 1 .. n : tok[x + (k - 1)] \in Byte
  BY <1>1
<1>3. Slice(tok, x, n) \in [1 .. n -> Byte]
  BY <1>2 DEF Slice
<1>4. Slice(tok, x, n) \in Seq(Byte) /\ Len(Slice(tok, x, n)) = n
  BY <1>3, SeqOfLength
<1> QED BY <1>4 DEF Slice

LEMMA IsSlice ==
  ASSUME NEW tok \in [Nat -> Byte], NEW x \in Nat, NEW n \in Nat, NEW s \in Seq(Byte),
         Len(s) = n, \A k \in 1 .. n : s[k] = tok[x + (k - 1)]
  PROVE  s = Slice(tok, x, n)
<1>1. PICK t \in Seq(Byte) : t = Slice(tok, x, n)
  BY SliceSeq
<1>2. Len(t) = n /\ \A k \in 1 .. n : t[k] = tok[x + (k - 1)]
  BY <1>1, SliceSeq
<1>3. Len(s) = Len(t) /\ \A k \in 1 .. Len(s) : s[k] = t[k]
  BY <1>2
<1> QED BY <1>1, <1>3, SeqEqual

LEMMA SubSlice ==
  ASSUME NEW tok \in [Nat -> Byte], NEW x \in Nat, NEW n \in Nat,
         NEW m \in Nat, NEW l \in Nat, m + l <= n
  PROVE  SubSeq(Slice(tok, x, n), m + 1, m + l) = Slice(tok, x + m, l)
<1>1. PICK s \in Seq(Byte) : s = Slice(tok, x, n)
  BY SliceSeq
<1>2. Len(s) = n /\ \A k \in 1 .. n : s[k] = tok[x + (k - 1)]
  BY <1>1, SliceSeq
<1>3. PICK t : t = SubSeq(s, m + 1, m + l)
  OBVIOUS
<1>4. \A i \in m + 1 .. m + l : s[i] \in Byte
  <2> TAKE i \in m + 1 .. m + l
  <2>1. i \in 1 .. Len(s)
    BY <1>2
  <2> QED BY <2>1, ElementOfSeq
<1>5. /\ t \in Seq(Byte) /\ Len(t) = IF m + 1 <= m + l THEN (m + l) - (m + 1) + 1 ELSE 0
      /\ \A i \in 1 .. (m + l) - (m + 1) + 1 : t[i] = s[(m + 1) + i - 1]
  BY <1>3, <1>4, SubSeqProperties
<1>6. Len(t) = l
  <2>1. (m + 1 <= m + l => (m + l) - (m + 1) + 1 = l) /\ (~(m + 1 <= m + l) => l = 0)
    OBVIOUS
  <2> QED BY <1>5, <2>1
<1>7. ASSUME NEW k \in 1 .. l
      PROVE  t[k] = tok[(x + m) + (k - 1)]
  <2>1. /\ k \in 1 .. (m + l) - (m + 1) + 1 /\ (m + 1) + k - 1 = m + k /\ m + k \in 1 .. n
        /\ x + ((m + k) - 1) = (x + m) + (k - 1)
    OBVIOUS
  <2> QED BY <1>2, <1>5, <2>1
<1>8. x + m \in Nat
  OBVIOUS
<1>9. t = Slice(tok, x + m, l)
  BY <1>5, <1>6, <1>7, <1>8, IsSlice
<1> QED BY <1>1, <1>3, <1>9

LEMMA FirstSlice ==
  ASSUME NEW tok \in [Nat -> Byte], NEW x \in Nat, NEW n \in Nat, NEW m \in Nat
  PROVE  First(Slice(tok, x, n), m) = Slice(tok, x, Lesser(m, n))
<1>1. Len(Slice(tok, x, n)) = n
  BY SliceSeq
<1>2. PICK l \in Nat : l = Lesser(m, n) /\ l <= n /\ l = (IF m < n THEN m ELSE n)
  BY DEF Lesser
<1>3. First(Slice(tok, x, n), m) = SubSeq(Slice(tok, x, n), 1, l)
  BY <1>1, <1>2 DEF First
<1>4. PICK z \in Nat : z = 0
  OBVIOUS
<1>5. z + 1 = 1 /\ z + l = l /\ x + z = x /\ z + l <= n
  BY <1>2, <1>4
<1>6. SubSeq(Slice(tok, x, n), z + 1, z + l) = Slice(tok, x + z, l)
  <2>1. z + l <= n
    BY <1>5
  <2> QED BY <2>1, SubSlice, SMTT(30)
<1> QED BY <1>2, <1>3, <1>5, <1>6

LEMMA BeyondSlice ==
  ASSUME NEW tok \in [Nat -> Byte], NEW x \in Nat, NEW n \in Nat, NEW m \in Nat, m <= n
  PROVE  Beyond(Slice(tok, x, n), m) = Slice(tok, x + m, n - m)
<1>1. Len(Slice(tok, x, n)) = n
  BY SliceSeq
<1>2. PICK l \in Nat : l = n - m /\ m + l = n /\ m + l <= n
  OBVIOUS
<1>3. SubSeq(Slice(tok, x, n), m + 1, m + l) = Slice(tok, x + m, l)
  <2>1. m + l <= n
    BY <1>2
  <2> QED BY <2>1, SubSlice, SMTT(30)
<1> QED BY <1>1, <1>2, <1>3 DEF Beyond

LEMMA ConcatSlices ==
  ASSUME NEW tok \in [Nat -> Byte], NEW x \in Nat, NEW n \in Nat, NEW m \in Nat
  PROVE  Slice(tok, x, n) \o Slice(tok, x + n, m) = Slice(tok, x, n + m)
<1>0. x + n \in Nat /\ n + m \in Nat
  OBVIOUS
<1>1. PICK s \in Seq(Byte), t \in Seq(Byte) : s = Slice(tok, x, n) /\ t = Slice(tok, x + n, m)
  BY <1>0, SliceSeq
<1>2. /\ Len(s) = n /\ \A k \in 1 .. n : s[k] = tok[x + (k - 1)]
      /\ Len(t) = m /\ \A k \in 1 .. m : t[k] = tok[(x + n) + (k - 1)]
  BY <1>0, <1>1, SliceSeq
<1>3. PICK u : u = s \o t
  OBVIOUS
<1>4. /\ u \in Seq(Byte) /\ Len(u) = n + m
      /\ \A i \in 1 .. n + m : u[i] = IF i <= n THEN s[i] ELSE t[i - n]
  <2>1. /\ s \o t \in Seq(Byte) /\ Len(s \o t) = Len(s) + Len(t)
        /\ \A i \in 1 .. Len(s) + Len(t) : (s \o t)[i] = IF i <= Len(s) THEN s[i] ELSE t[i - Len(s)]
    BY ConcatProperties
  <2> QED BY <1>2, <1>3, <2>1
<1>5. ASSUME NEW k \in 1 .. n + m
      PROVE  u[k] = tok[x + (k - 1)]
  <2>1. CASE k <= n
    <3>1. k \in 1 .. n
      BY <2>1
    <3> QED BY <1>2, <1>4, <2>1, <3>1
  <2>2. CASE ~(k <= n)
    <3>1. k - n \in 1 .. m /\ (x + n) + ((k - n) - 1) = x + (k - 1)
      BY <2>2
    <3>2. u[k] = t[k - n] /\ t[k - n] = tok[(x + n) + ((k - n) - 1)]
      BY <1>2, <1>4, <2>2, <3>1
    <3> QED BY <3>1, <3>2
  <2> QED BY <2>1, <2>2
<1>6. u = Slice(tok, x, n + m)
  BY <1>0, <1>4, <1>5, IsSlice
<1> QED BY <1>1, <1>3, <1>6

LEMMA EmptySlice ==
  ASSUME NEW tok, NEW x
  PROVE  Slice(tok, x, 0) = <<>>
  BY DEF Slice

LEMMA Ascending ==
  ASSUME NEW n \in Nat, NEW f \in [Nat -> Nat], \A i \in 1 .. n : f[i] <= f[i + 1]
  PROVE  \A i \in 1 .. n + 1 : f[1] <= f[i]
<1>1. PICK S : S = {i \in Nat : i \in 1 .. n + 1 /\ ~(f[1] <= f[i])}
  OBVIOUS
<1>2. ASSUME S # {} PROVE FALSE
  <2>1. PICK x \in S : \A y \in S : ~(y < x)
    <3>1. S \subseteq Nat
      BY <1>1
    <3> QED BY <1>2, <3>1, LeastElement
  <2>2. x \in Nat /\ x \in 1 .. n + 1 /\ ~(f[1] <= f[x])
    BY <1>1
  <2>3. x # 1
    <3>1. f[1] <= f[1]
      OBVIOUS
    <3> QED BY <2>2, <3>1
  <2>4. x - 1 \in 1 .. n /\ x - 1 < x /\ x - 1 \in Nat /\ (x - 1) + 1 = x /\ x - 1 \in 1 .. n + 1
    BY <2>2, <2>3
  <2>5. f[1] <= f[x - 1]
    BY <1>1, <2>1, <2>4
  <2>6. f[x - 1] <= f[x]
    BY <2>4
  <2>7. f[1] \in Nat /\ f[x - 1] \in Nat /\ f[x] \in Nat
    BY <2>2, <2>4
  <2> QED BY <2>2, <2>5, <2>6, <2>7
<1>3. ASSUME NEW i \in 1 .. n + 1 PROVE f[1] <= f[i]
  <2>1. i \in Nat
    OBVIOUS
  <2> QED BY <1>1, <1>2, <2>1
<1> QED BY <1>3

LEMMA JoinSlices ==
  ASSUME NEW tok \in [Nat -> Byte], NEW x \in Nat, NEW y \in Nat, NEW z \in Nat,
         x <= y, y <= z
  PROVE  Slice(tok, x, y - x) \o Slice(tok, y, z - y) = Slice(tok, x, z - x)
<1>1. PICK a \in Nat, b \in Nat : a = y - x /\ b = z - y
  OBVIOUS
<1>2. x + a = y /\ a + b = z - x
  BY <1>1
<1>3. Slice(tok, x, a) \o Slice(tok, x + a, b) = Slice(tok, x, a + b)
  BY ConcatSlices, ZenonT(30)
<1> QED BY <1>1, <1>2, <1>3

(* The function that FlattenSeq computes, step by step. *)
Flattens(g, seqs, n) == g = [i \in 1 .. n |-> IF i = 1 THEN seqs[i] ELSE g[i - 1] \o seqs[i]]

LEMMA FlattenIs ==
  ASSUME NEW seqs, NEW n \in Nat, n # 0, Len(seqs) = n, NEW g, Flattens(g, seqs, n)
  PROVE  FlattenSeq(seqs) = g[n]
<1>1. PICK h : h = CHOOSE f : Flattens(f, seqs, n)
  OBVIOUS
<1>2. Flattens(h, seqs, n)
  BY <1>1
<1>3. FlattenSeq(seqs) = h[n]
  BY <1>1 DEF FlattenSeq, Flattens
<1>4. \A i \in 1 .. n : /\ g[i] = IF i = 1 THEN seqs[i] ELSE g[i - 1] \o seqs[i]
                        /\ h[i] = IF i = 1 THEN seqs[i] ELSE h[i - 1] \o seqs[i]
  BY <1>2 DEF Flattens
<1>5. PICK S : S = {i \in Nat : i \in 1 .. n /\ g[i] # h[i]}
  OBVIOUS
<1>6. ASSUME S # {} PROVE FALSE
  <2>1. PICK x \in S : \A y \in S : ~(y < x)
    <3>1. S \subseteq Nat
      BY <1>5
    <3> QED BY <1>6, <3>1, LeastElement
  <2>2. x \in Nat /\ x \in 1 .. n /\ g[x] # h[x]
    BY <1>5
  <2>3. x # 1
    BY <1>4, <2>2
  <2>4. x - 1 \in 1 .. n /\ x - 1 < x /\ x - 1 \in Nat
    BY <2>2, <2>3
  <2>5. g[x - 1] = h[x - 1]
    BY <1>5, <2>1, <2>4
  <2> QED BY <1>4, <2>2, <2>3, <2>5
<1>7. n \in 1 .. n
  OBVIOUS
<1> QED BY <1>3, <1>5, <1>6, <1>7

(* Runs that lie one behind the other are flattened to one run. *)
Runs(seqs, n, f, tok) ==
  \A i \in 1 .. n : f[i] <= f[i + 1] /\ seqs[i] = Slice(tok, f[i], f[i + 1] - f[i])

LEMMA FlattenSlices ==
  ASSUME NEW tok \in [Nat -> Byte], NEW seqs, NEW n \in Nat, n # 0, Len(seqs) = n,
         NEW f \in [Nat -> Nat], Runs(seqs, n, f, tok), NEW a, NEW b, f[1] = a, f[n + 1] = b
  PROVE  FlattenSeq(seqs) = Slice(tok, a, b - a)
<1>1. \A i \in 1 .. n + 1 : f[1] <= f[i]
  BY Ascending DEF Runs
<1>2. PICK g : g = [i \in 1 .. n |-> Slice(tok, f[1], f[i + 1] - f[1])]
  OBVIOUS
<1>3. ASSUME NEW i \in 1 .. n
      PROVE  g[i] = IF i = 1 THEN seqs[i] ELSE g[i - 1] \o seqs[i]
  <2>1. CASE i = 1
    BY <1>2, <2>1 DEF Runs
  <2>2. CASE i # 1
    <3>1. /\ i - 1 \in 1 .. n /\ (i - 1) + 1 = i /\ i \in 1 .. n + 1 /\ i + 1 \in 1 .. n + 1
          /\ i \in Nat /\ i + 1 \in Nat
      BY <2>2
    <3>2. PICK x \in Nat, y \in Nat, z \in Nat : x = f[1] /\ y = f[i] /\ z = f[i + 1]
      BY <3>1
    <3>3. x <= y /\ y <= z
      BY <1>1, <3>1, <3>2 DEF Runs
    <3>4. /\ g[i - 1] = Slice(tok, x, y - x) /\ seqs[i] = Slice(tok, y, z - y)
          /\ g[i] = Slice(tok, x, z - x)
      BY <1>2, <3>1, <3>2 DEF Runs
    <3>5. Slice(tok, x, y - x) \o Slice(tok, y, z - y) = Slice(tok, x, z - x)
      BY <3>3, JoinSlices
    <3> QED BY <2>2, <3>4, <3>5
  <2> QED BY <2>1, <2>2
<1>4. Flattens(g, seqs, n)
  <2>1. PICK h : h = [i \in 1 .. n |-> IF i = 1 THEN seqs[i] ELSE g[i - 1] \o seqs[i]]
    OBVIOUS
  <2>2. DOMAIN g = 1 .. n /\ DOMAIN h = 1 .. n /\ \A i \in 1 .. n : g[i] = h[i]
    BY <1>2, <1>3, <2>1
  <2>3. g = h
    BY <1>2, <2>1, <2>2
  <2> QED BY <2>1, <2>3 DEF Flattens
<1>5. FlattenSeq(seqs) = g[n]
  BY <1>4, FlattenIs
<1>6. n \in 1 .. n
  OBVIOUS
<1> QED BY <1>2, <1>5, <1>6

-----------------------------------------------------------------------------
(* Quotients and remainders *)

LEMMA SmallMultiple ==
  ASSUME NEW P \in Nat \ {0}, NEW d \in Int, NEW r \in Int, P * d = r, r < P, r > 0 - P
  PROVE  d = 0
<1>1. ASSUME d >= 1 PROVE FALSE
  <2>1. PICK e \in Nat : d = e + 1
    <3>1. d - 1 \in Nat /\ d = (d - 1) + 1
      BY <1>1
    <3> QED BY <3>1
  <2>2. P * d = P * e + P /\ P * e >= 0
    BY <2>1
  <2> QED BY <2>2
<1>2. ASSUME d <= 0 - 1 PROVE FALSE
  <2>1. PICK e \in Nat : d = 0 - (e + 1)
    <3>1. (0 - d) - 1 \in Nat /\ d = 0 - (((0 - d) - 1) + 1)
      BY <1>2
    <3> QED BY <3>1
  <2>2. P * d = 0 - (P * e + P) /\ P * e >= 0
    BY <2>1
  <2> QED BY <2>2
<1> QED BY <1>1, <1>2

LEMMA Division ==
  ASSUME NEW P \in Nat \ {0}, NEW q \in Int, NEW r \in Int, 0 <= r, r < P,
         NEW y \in Int, y = P * q + r
  PROVE  y % P = r /\ y \div P = q
<1>1. PICK u \in Int, v \in Int : u = y \div P /\ v = y % P
  OBVIOUS
<1>2. y = P * u + v /\ 0 <= v /\ v < P
  BY <1>1
<1>3. P * (u - q) = r - v
  <2>1. P * (u - q) = P * u - P * q
    OBVIOUS
  <2> QED BY <1>2, <2>1
<1>4. u - q = 0
  <2>1. PICK d \in Int, s \in Int : d = u - q /\ s = r - v
    OBVIOUS
  <2>2. P * d = s /\ s < P /\ s > 0 - P
    BY <1>2, <1>3, <2>1
  <2> QED BY <2>1, <2>2, SmallMultiple
<1>5. u = q
  BY <1>4
<1>6. v = r
  BY <1>2, <1>5
<1> QED BY <1>1, <1>5, <1>6

LEMMA Divided ==
  ASSUME NEW P \in Nat \ {0}, NEW x \in Int
  PROVE  \E q, r \in Int : x = P * q + r /\ 0 <= r /\ r < P /\ r = x % P /\ q = x \div P
<1>1. PICK q \in Int, r \in Int : q = x \div P /\ r = x % P
  OBVIOUS
<1>2. x = P * q + r /\ 0 <= r /\ r < P
  BY <1>1
<1> QED BY <1>1, <1>2

(* The offset in a page does not depend on the page from which it is counted. *)
LEMMA SameOffset ==
  ASSUME NEW P \in Nat \ {0}, NEW a \in Int, NEW b \in Int, NEW c \in Int, b % P = 0, c % P = 0
  PROVE  (a - b) % P = (a - c) % P
<1>1. PICK u \in Int, r \in Int : b = P * u + r /\ r = b % P
  BY Divided
<1>2. PICK v \in Int, s \in Int : c = P * v + s /\ s = c % P
  BY Divided
<1>3. PICK w \in Int, t \in Int : a - b = P * w + t /\ 0 <= t /\ t < P /\ t = (a - b) % P
  <2>1. a - b \in Int
    OBVIOUS
  <2> QED BY <2>1, Divided
<1>4. b = P * u /\ c = P * v
  BY <1>1, <1>2
<1>5. PICK k \in Int : k = (w + u) - v
  OBVIOUS
<1>6. P * k = P * w + P * u - P * v
  BY <1>5
<1>7. a - c = P * k + t
  BY <1>3, <1>4, <1>6
<1>8. (a - c) % P = t
  <2>1. PICK y \in Int : y = a - c
    OBVIOUS
  <2>2. y = P * k + t
    BY <1>7, <2>1
  <2>3. 0 <= t /\ t < P
    BY <1>3
  <2>4. y % P = t
    BY <2>2, <2>3, Division
  <2> QED BY <2>1, <2>4
<1> QED BY <1>3, <1>8

(* Bytes of one page have its number, and one behind the other.            *)
LEMMA SamePage ==
  ASSUME NEW P \in Nat \ {0}, NEW x \in Nat, NEW d \in Nat, (x % P) + d < P
  PROVE  (x + d) % P = (x % P) + d /\ (x + d) \div P = x \div P
<1>1. PICK q \in Int, r \in Int : x = P * q + r /\ 0 <= r /\ r < P /\ r = x % P /\ q = x \div P
  BY Divided
<1>2. r + d \in Int /\ 0 <= r + d /\ r + d < P /\ x + d \in Int /\ x + d = P * q + (r + d)
  BY <1>1
<1>3. PICK s \in Int, y \in Int : s = r + d /\ y = x + d
  BY <1>2
<1>4. y % P = s /\ y \div P = q
  BY <1>2, <1>3, Division
<1> QED BY <1>1, <1>3, <1>4

(* The bytes behind the end of the page are counted from there. *)
LEMMA NextPage ==
  ASSUME NEW P \in Nat \ {0}, NEW x \in Nat, NEW d \in Nat, d < P
  PROVE  (x + ((P - (x % P)) + d)) % P = d
<1>1. PICK q \in Int, r \in Int : x = P * q + r /\ 0 <= r /\ r < P /\ r = x % P /\ q = x \div P
  BY Divided
<1>2. P * (q + 1) = P * q + P
  BY <1>1
<1>3. PICK u \in Int, y \in Int : u = q + 1 /\ y = x + ((P - (x % P)) + d)
  BY <1>1
<1>4. y = P * u + d
  BY <1>1, <1>2, <1>3
<1>5. y % P = d
  BY <1>4, Division
<1> QED BY <1>3, <1>5

LEMMA WholeLanes ==
  ASSUME NEW L \in Nat \ {0}, NEW a \in Nat, NEW b \in Nat, a % L = 0, b % L = 0
  PROVE  (a - b) % L = 0
<1>1. PICK u \in Int, r \in Int : a = L * u + r /\ r = a % L
  BY Divided
<1>2. PICK v \in Int, s \in Int : b = L * v + s /\ s = b % L
  BY Divided
<1>3. PICK w \in Int, y \in Int : w = u - v /\ y = a - b
  OBVIOUS
<1>4. L * w = L * u - L * v
  BY <1>3
<1>5. a = L * u /\ b = L * v
  BY <1>1, <1>2
<1>6. y % L = 0
  <2>1. y = L * w + 0
    BY <1>3, <1>4, <1>5
  <2>2. 0 <= 0 /\ 0 < L /\ 0 \in Int
    OBVIOUS
  <2> QED BY <2>1, <2>2, Division
<1> QED BY <1>3, <1>6

(* The cuts that pkg_split has a case for are those at a lane. *)
LEMMA ShiftIs ==
  ASSUME PathAssumption, NEW m \in Nat
  PROVE  /\ m \in Shift => 0 < m /\ m < WordSize
         /\ m % Lane = 0 /\ 0 < m /\ m < WordSize => m \in Shift
<1>1. PICK L \in Nat \ {0}, W \in Nat \ {0} : L = Lane /\ W = WordSize /\ W % L = 0
  BY DEF PathAssumption
<1>2. PICK w \in Int, r \in Int : W = L * w + r /\ r = W % L /\ w = W \div L
  BY Divided
<1>3. W = L * w
  BY <1>1, <1>2
<1>4. Shift = {k * L : k \in 1 .. w - 1}
  BY <1>1, <1>2 DEF Shift
<1>5. ASSUME m \in Shift PROVE 0 < m /\ m < W
  <2>1. PICK k \in 1 .. w - 1 : m = k * L
    BY <1>4, <1>5
  <2>2. PICK i \in Nat, j \in Nat : k = i + 1 /\ w = (k + j) + 1
    <3>1. k - 1 \in Nat /\ k = (k - 1) + 1 /\ (w - k) - 1 \in Nat /\ w = (k + ((w - k) - 1)) + 1
      BY <1>2, <2>1
    <3> QED BY <3>1
  <2>3. k * L = i * L + L /\ i * L >= 0
    BY <2>2
  <2>4. L * w = k * L + j * L + L /\ j * L >= 0
    BY <2>2
  <2> QED BY <1>3, <2>1, <2>3, <2>4
<1>6. ASSUME m % L = 0, 0 < m, m < W PROVE m \in Shift
  <2>1. PICK k \in Int, s \in Int : m = L * k + s /\ s = m % L
    BY Divided
  <2>2. m = L * k /\ m = k * L
    BY <1>6, <2>1
  <2>3. k >= 1
    <3>1. ASSUME k <= 0 PROVE FALSE
      <4>1. PICK j \in Nat : k = 0 - j
        <5>1. 0 - k \in Nat /\ k = 0 - (0 - k)
          BY <3>1
        <5> QED BY <5>1
      <4>2. L * k = 0 - (L * j) /\ L * j >= 0
        BY <4>1
      <4> QED BY <1>6, <2>2, <4>2
    <3> QED BY <3>1
  <2>4. k <= w - 1
    <3>1. ASSUME k >= w PROVE FALSE
      <4>1. PICK j \in Nat : k = w + j
        <5>1. k - w \in Nat /\ k = w + (k - w)
          BY <1>2, <3>1
        <5> QED BY <5>1
      <4>2. L * k = L * w + L * j /\ L * j >= 0
        BY <1>2, <4>1
      <4> QED BY <1>3, <1>6, <2>2, <4>2
    <3> QED BY <1>2, <3>1
  <2>5. k \in 1 .. w - 1
    BY <1>2, <2>3, <2>4
  <2> QED BY <1>4, <2>2, <2>5
<1> QED BY <1>1, <1>5, <1>6

-----------------------------------------------------------------------------
(* The writes.  All bytes of the requests that were issued lie in a line,  *)
(* in the order of issue.  Byte x is tok[x]; its request ends before       *)
(* rq[x], and the packet it is sent in, which ends at a page boundary or   *)
(* with the request, ends before pk[x].  T is the end of the line, z was   *)
(* the end of it when the host made its mapping, and st holds the first    *)
(* bytes of the requests since.  Every command and every word on its way   *)
(* is determined by the position of its first byte.                        *)

CmdAt(e, tok) == [x \in Nat |-> [addr |-> tok[x].vaddr, len |-> e[x] - x]]
OffsetOf(vaddr) == (vaddr - mapping.base) % PageSize
OffsetAt(rq, tok) ==
  [x \in Nat |-> [addr |-> tok[x].vaddr, len |-> rq[x] - x, page_offset |-> OffsetOf(tok[x].vaddr)]]
MetaAt(rq, pk) == [x \in Nat |-> [length |-> pk[x] - x, isSplit |-> pk[x] < rq[x]]]
MovedAt(pk, tok) == [x \in Nat |-> Moved(CmdAt(pk, tok)[x])]
WordAt(e, tok) ==
  [x \in Nat |-> [bytes |-> Slice(tok, x, Lesser(WordSize, e[x] - x)), last |-> e[x] - x <= WordSize]]
WordEnd(e) == [x \in Nat |-> Lesser(x + WordSize, e[x])]

Placed(x, T, rq, pk, tok) ==
  /\ x < pk[x] /\ pk[x] <= rq[x] /\ rq[x] <= T
  /\ pk[x] < rq[x] => pk[pk[x]] = rq[x]
  /\ \A y \in x .. rq[x] - 1 :
       /\ rq[y] = rq[x] /\ tok[y].vaddr = tok[x].vaddr + (y - x)
       /\ y < pk[x] => pk[y] = pk[x]

Line(z, T, rq, pk, tok, st) ==
  /\ z \in Nat /\ T \in Nat /\ z <= T /\ st \subseteq z .. T - 1
  /\ rq \in [Nat -> Nat] /\ pk \in [Nat -> Nat] /\ tok \in [Nat -> Byte]
  /\ \A x \in z .. T - 1 : Placed(x, T, rq, pk, tok)

(* Every packet is in a page of the buffer, and a request is cut where its *)
(* first page ends, which is at a lane.                                    *)
CutAt(x, rq, pk, tok) ==
  /\ pk[x] = IF OffsetOf(tok[x].vaddr) + (rq[x] - x) > PageSize
             THEN x + (PageSize - OffsetOf(tok[x].vaddr)) ELSE rq[x]
  /\ pk[x] < rq[x] => (pk[x] - x) % Lane = 0
InPages(z, T, rq, pk, tok, st) ==
  /\ \A x \in z .. T - 1 : InBuffer(CmdAt(pk, tok)[x])
  /\ \A x \in st : CutAt(x, rq, pk, tok)

(* The requests that boundary_check has not read begin at b, and those     *)
(* that pkg_split has not begun at m.                                      *)
Commands(T, rq, pk, tok, st, m, b, c) ==
  /\ Queue(cmdIn, CmdAt(rq, tok), rq, st, c, T)
  /\ Queue(pageOffsetFifo, OffsetAt(rq, tok), rq, st, b, c)
  /\ Queue(metaFifo, MetaAt(rq, pk), rq, st, m, b)

Checking(z, T, pk, tok, e, b) ==
  \/ bc_state = "CMD" /\ e = b
  \/ bc_state = "CMD_SPLIT" /\ e \in z .. T - 1 /\ pk[e] = b /\ cmd = CmdAt(pk, tok)[e]

(* The packets whose commands boundary_check has sent, translated or not. *)
Packets(z, T, pk, tok, d, d1, d2, e) ==
  /\ Queue(c2hDsc, MovedAt(pk, tok), pk, z .. T - 1, d, d1)
  /\ Queue(dmaWriteCmd, MovedAt(pk, tok), pk, z .. T - 1, d1, d2)
  /\ Queue(cmdOut, CmdAt(pk, tok), pk, z .. T - 1, d2, e)

(* The words, to T, and from what is in memory, f, to o. *)
Data(z, T, rq, pk, tok, f, o, i) ==
  /\ Queue(dataOut, WordAt(pk, tok), WordEnd(pk), z .. T - 1, f, o)
  /\ Queue(dataIn, WordAt(rq, tok), WordEnd(rq), z .. T - 1, i, T)

(* The packet that the C2H engine has begun. *)
Moving(z, T, pk, d, f) ==
  /\ f = d + c2hDone
  /\ c2hDone = 0 \/ (d \in z .. T - 1 /\ f < pk[d])

(* pkg_split has read up to i and sent up to o: nothing of a request, a    *)
(* part of the first packet, or the first packet and more, with a leftover *)
(* of the word prevWord when the packet did not end with a word.           *)
FirstPacket(z, T, rq, pk, o, i, m) ==
  /\ i = o /\ o \in z .. T - 1 /\ m = rq[o]
  /\ meta = MetaAt(rq, pk)[o] /\ (pk[o] < rq[o] => (pk[o] - o) % Lane = 0)

LeftoverAt(tok, o, i, m, w, n) ==
  /\ meta.length \in Shift /\ meta.length < n /\ n <= WordSize /\ prevWord = Slice(tok, w, n)
  /\ i = w + n /\ o = w + meta.length
  /\ \/ pbc_state = "PKG_SECOND" /\ i < m /\ n = WordSize
     \/ pbc_state = "LAST" /\ i = m
SecondPacket(z, T, rq, pk, tok, o, i, m) ==
  /\ o \in z .. T - 1 /\ rq[o] = m /\ pk[o] = m
  /\ \/ \E w, n \in Nat : LeftoverAt(tok, o, i, m, w, n)
     \/ pbc_state = "PKG_SECOND" /\ ~(meta.length \in Shift) /\ i = o

Splitting(z, T, rq, pk, tok, o, i, m) ==
  \/ pbc_state = "PKG_FIRST" /\ metaLoaded = FALSE /\ i = o /\ m = o
  \/ pbc_state = "PKG_FIRST" /\ metaLoaded = TRUE /\ FirstPacket(z, T, rq, pk, o, i, m)
  \/ metaLoaded = TRUE /\ SecondPacket(z, T, rq, pk, tok, o, i, m)

At(z, T, rq, pk, tok, st, f, m, b, c, e, d, d1, d2, o, i) ==
  /\ Line(z, T, rq, pk, tok, st) /\ InPages(z, T, rq, pk, tok, st)
  /\ Commands(T, rq, pk, tok, st, m, b, c) /\ Checking(z, T, pk, tok, e, b)
  /\ Packets(z, T, pk, tok, d, d1, d2, e) /\ Moving(z, T, pk, d, f)
  /\ Data(z, T, rq, pk, tok, f, o, i) /\ Splitting(z, T, rq, pk, tok, o, i, m)
  /\ {f, m, b, c, e, d, d1, d2, o, i} \subseteq 0 .. T
  /\ tlbInterface # <<>> => z = T

(* The bytes from f to T are on their way. *)
WritesAt(z, T, rq, pk, tok, st, f) ==
  \E m, b, c, e, d, d1, d2, o, i : At(z, T, rq, pk, tok, st, f, m, b, c, e, d, d1, d2, o, i)

Offset == [addr : Nat, len : Nat, page_offset : 0 .. PageSize - 1]
Meta == [length : Nat, isSplit : BOOLEAN]
DataWord == [bytes : Seq(Byte), last : BOOLEAN]

WriteTypes ==
  /\ cmdIn \in Seq(Cmd) /\ pageOffsetFifo \in Seq(Offset) /\ metaFifo \in Seq(Meta)
  /\ cmdOut \in Seq(Cmd) /\ dmaWriteCmd \in Seq(Cmd) /\ c2hDsc \in Seq(Cmd)
  /\ dataIn \in Seq(DataWord) /\ dataOut \in Seq(DataWord)
  /\ bc_state \in {"CMD", "CMD_SPLIT"} /\ cmd \in Cmd
  /\ pbc_state \in {"PKG_FIRST", "PKG_SECOND", "LAST"} /\ meta \in Meta /\ metaLoaded \in BOOLEAN
  /\ c2hDone \in Nat /\ requests \in 0 .. MaxRequests

(* No stream holds more than its capacity. *)
Capacities ==
  /\ Len(pageOffsetFifo) <= PageOffsetFifoDepth /\ Len(metaFifo) <= MetaFifoDepth
  /\ Len(cmdOut) <= CmdDepth /\ Len(dmaWriteCmd) <= CmdDepth /\ Len(dmaReadCmd) <= CmdDepth
  /\ Len(c2hDsc) <= DscDepth /\ Len(h2cDsc) <= DscDepth /\ Len(dataOut) <= DataDepth

(* Pages are counted from a page. *)
BasesAtPages ==
  /\ mapping.base % PageSize = 0
  /\ regBaseVaddr \in Nat /\ regBaseVaddr % PageSize = 0
  /\ regBaseVaddrBoundCheck \in Nat /\ regBaseVaddrBoundCheck % PageSize = 0

Counters ==
  /\ tlbPageCrossingCounter = 0 /\ tlbMissCounter = 0
  /\ dma_write_pkg_counter \in Nat /\ dma_write_cmd_counter = dma_write_pkg_counter + Len(c2hDsc)
  /\ h2cDone \in Nat

WriteInv ==
  /\ ReadInv /\ WriteTypes /\ Capacities /\ BasesAtPages /\ Counters
  /\ \E z, T, rq, pk, tok, st, f : WritesAt(z, T, rq, pk, tok, st, f)

-----------------------------------------------------------------------------
(* Positions *)

LEMMA LineAt ==
  ASSUME NEW z, NEW T, NEW rq, NEW pk, NEW tok, NEW st, Line(z, T, rq, pk, tok, st),
         NEW x \in z .. T - 1
  PROVE  /\ z \in Nat /\ T \in Nat /\ x \in Nat /\ z <= x /\ x < T
         /\ rq[x] \in Nat /\ pk[x] \in Nat /\ tok[x] \in Byte /\ tok[x].vaddr \in Nat
         /\ x < pk[x] /\ pk[x] <= rq[x] /\ rq[x] <= T
<1>1. /\ z \in Nat /\ T \in Nat /\ Placed(x, T, rq, pk, tok)
      /\ rq \in [Nat -> Nat] /\ pk \in [Nat -> Nat] /\ tok \in [Nat -> Byte]
  BY DEF Line
<1>2. x \in Nat /\ z <= x /\ x < T
  BY <1>1
<1>3. rq[x] \in Nat /\ pk[x] \in Nat /\ tok[x] \in Byte
  BY <1>1, <1>2
<1>4. tok[x].vaddr \in Nat
  BY <1>3 DEF Byte
<1>5. x < pk[x] /\ pk[x] <= rq[x] /\ rq[x] <= T
  BY <1>1 DEF Placed
<1> QED BY <1>1, <1>2, <1>3, <1>4, <1>5

(* The bytes of the same request and of the same packet. *)
LEMMA LineWithin ==
  ASSUME NEW z, NEW T, NEW rq, NEW pk, NEW tok, NEW st, Line(z, T, rq, pk, tok, st),
         NEW x \in z .. T - 1, NEW y \in Nat, x <= y, y < rq[x]
  PROVE  /\ y \in z .. T - 1 /\ rq[y] = rq[x] /\ tok[y].vaddr = tok[x].vaddr + (y - x)
         /\ y < pk[x] => pk[y] = pk[x]
<1>1. /\ z \in Nat /\ T \in Nat /\ x \in Nat /\ z <= x /\ x < T /\ rq[x] \in Nat /\ rq[x] <= T
  BY LineAt
<1>2. y \in z .. T - 1 /\ y \in x .. rq[x] - 1
  BY <1>1
<1>3. Placed(x, T, rq, pk, tok)
  BY DEF Line
<1> QED BY <1>2, <1>3 DEF Placed

(* The second packet of a request. *)
LEMMA LineSecond ==
  ASSUME NEW z, NEW T, NEW rq, NEW pk, NEW tok, NEW st, Line(z, T, rq, pk, tok, st),
         NEW x \in z .. T - 1, pk[x] < rq[x]
  PROVE  pk[x] \in z .. T - 1 /\ pk[pk[x]] = rq[x] /\ rq[pk[x]] = rq[x]
<1>1. pk[x] \in Nat /\ x <= pk[x]
  BY LineAt
<1>2. pk[x] \in z .. T - 1 /\ rq[pk[x]] = rq[x]
  BY <1>1, LineWithin
<1>3. Placed(x, T, rq, pk, tok)
  BY DEF Line
<1> QED BY <1>2, <1>3 DEF Placed

(* The words at a position. *)
LEMMA WordAtIs ==
  ASSUME PathAssumption, NEW e, NEW tok \in [Nat -> Byte], NEW x \in Nat, e[x] \in Nat, x < e[x]
  PROVE  /\ WordAt(e, tok)[x] = [bytes |-> Slice(tok, x, Lesser(WordSize, e[x] - x)),
                                 last |-> e[x] - x <= WordSize]
         /\ WordAt(e, tok)[x] \in DataWord
         /\ WordEnd(e)[x] = Lesser(x + WordSize, e[x]) /\ WordEnd(e)[x] \in Nat
         /\ Lesser(WordSize, e[x] - x) \in Nat \ {0} /\ Lesser(WordSize, e[x] - x) <= WordSize
         /\ WordEnd(e)[x] = x + Lesser(WordSize, e[x] - x) /\ WordEnd(e)[x] <= e[x]
<1>1. PICK W \in Nat \ {0}, y \in Nat : W = WordSize /\ y = e[x] /\ x < y
  BY DEF PathAssumption
<1>2. PICK n \in Nat \ {0} : n = Lesser(W, y - x) /\ n <= W /\ Lesser(x + W, y) = x + n /\ x + n <= y
  BY <1>1 DEF Lesser
<1>3. Slice(tok, x, n) \in Seq(Byte)
  BY SliceSeq
<1>4. (y - x <= W) \in BOOLEAN
  OBVIOUS
<1>5. WordAt(e, tok)[x] = [bytes |-> Slice(tok, x, Lesser(WordSize, e[x] - x)),
                           last |-> e[x] - x <= WordSize]
  BY DEF WordAt
<1>6. [bytes |-> Slice(tok, x, n), last |-> y - x <= W] \in DataWord
  BY <1>3, <1>4, Zenon DEF DataWord
<1>7. WordEnd(e)[x] = Lesser(x + WordSize, e[x])
  BY DEF WordEnd
<1> QED BY <1>1, <1>2, <1>5, <1>6, <1>7

-----------------------------------------------------------------------------
(* pkg_split *)

(* What a step of it has to establish. *)
SplitTypes ==
  /\ metaFifo \in Seq(Meta) /\ dataIn \in Seq(DataWord) /\ dataOut \in Seq(DataWord)
  /\ pbc_state \in {"PKG_FIRST", "PKG_SECOND", "LAST"} /\ meta \in Meta /\ metaLoaded \in BOOLEAN
SplitAt(z, T, rq, pk, tok, st, f, m, b, o, i) ==
  /\ SplitTypes
  /\ Queue(metaFifo, MetaAt(rq, pk), rq, st, m, b)
  /\ Data(z, T, rq, pk, tok, f, o, i) /\ Splitting(z, T, rq, pk, tok, o, i, m)
  /\ {m, o, i} \subseteq 0 .. T

(* Every word has a byte of the packet at o to send. *)
LEMMA SendWord ==
  ASSUME PathAssumption, NEW z, NEW T, NEW rq, NEW pk, NEW tok, NEW st,
         Line(z, T, rq, pk, tok, st), NEW f, NEW o \in z .. T - 1,
         dataOut \in Seq(DataWord), NEW q,
         Queue(dataOut, WordAt(pk, tok), WordEnd(pk), z .. T - 1, f, o),
         q = Append(dataOut, WordAt(pk, tok)[o])
  PROVE  /\ q \in Seq(DataWord) /\ Len(q) = Len(dataOut) + 1
         /\ Queue(q, WordAt(pk, tok), WordEnd(pk), z .. T - 1, f, WordEnd(pk)[o])
<1>1. o \in Nat /\ pk[o] \in Nat /\ o < pk[o]
  BY LineAt
<1>2. tok \in [Nat -> Byte]
  BY DEF Line
<1>3. WordAt(pk, tok)[o] \in DataWord /\ WordEnd(pk)[o] \in Nat
  BY <1>1, <1>2, WordAtIs
<1>4. PICK K, next, G, S, s :
        K = WordAt(pk, tok) /\ next = WordEnd(pk) /\ G = z .. T - 1 /\ S = DataWord /\ s = dataOut
  OBVIOUS
<1>5. s \in Seq(S) /\ Queue(s, K, next, G, f, o) /\ o \in G /\ next[o] \in Nat /\ K[o] \in S
  BY <1>3, <1>4
<1>6. /\ Append(s, K[o]) \in Seq(S) /\ Len(Append(s, K[o])) = Len(s) + 1
      /\ Queue(Append(s, K[o]), K, next, G, f, next[o])
  BY <1>5, PushQueue
<1> QED BY <1>4, <1>6

(* Lesser in the cases that occur. *)
LEMMA LesserIs ==
  ASSUME NEW a \in Int, NEW b \in Int
  PROVE  (a <= b => Lesser(a, b) = a) /\ (b <= a => Lesser(a, b) = b)
  BY DEF Lesser

(* The bytes that PKG_FIRST sends. *)
FirstPart(bytes, l) == IF l <= WordSize /\ l \in Shift THEN First(bytes, l) ELSE bytes

LEMMA FirstBytes ==
  ASSUME PathAssumption, NEW tok \in [Nat -> Byte],
         NEW x \in Nat, NEW l \in Nat, NEW r \in Nat, 0 < l, l <= r,
         l < r => l % Lane = 0
  PROVE  Slice(tok, x, Lesser(WordSize, l)) =
           FirstPart(Slice(tok, x, Lesser(WordSize, r)), l)
<1>1. PICK W \in Nat \ {0}, n \in Nat : W = WordSize /\ n = Lesser(W, r)
  <2>1. WordSize \in Nat \ {0}
    BY DEF PathAssumption
  <2>2. Lesser(WordSize, r) \in Nat
    BY <2>1 DEF Lesser
  <2> QED BY <2>1, <2>2
<1>2. l <= W => l <= n
  BY <1>1 DEF Lesser
<1>3. CASE l <= W /\ l \in Shift
  <2>1. First(Slice(tok, x, n), l) = Slice(tok, x, Lesser(l, n))
    BY FirstSlice
  <2>2. Lesser(l, n) = l /\ Lesser(W, l) = l
    BY <1>2, <1>3, LesserIs
  <2> QED BY <1>1, <1>3, <2>1, <2>2 DEF FirstPart
<1>4. CASE ~(l <= W /\ l \in Shift)
  <2>1. Lesser(W, l) = n
    <3>1. CASE l = r
      BY <1>1, <3>1
    <3>2. CASE l # r /\ l <= W
      <4>1. l % Lane = 0
        BY <1>1, <3>2
      <4>2. ~(l < W)
        BY <1>1, <1>4, <3>2, <4>1, ShiftIs
      <4>3. l = W
        BY <3>2, <4>2
      <4>4. r > W
        BY <1>1, <3>2, <4>3
      <4> QED BY <1>1, <4>3, <4>4 DEF Lesser
    <3>3. CASE ~(l <= W)
      <4>1. r > W
        BY <1>1, <3>3
      <4> QED BY <1>1, <3>3, <4>1 DEF Lesser
    <3> QED BY <3>1, <3>2, <3>3
  <2> QED BY <1>1, <1>4, <2>1 DEF FirstPart
<1> QED BY <1>3, <1>4

(* The word that pkg_split reads. *)
LEMMA ReadWord ==
  ASSUME PathAssumption, NEW z, NEW T, NEW rq, NEW pk, NEW tok, NEW st,
         Line(z, T, rq, pk, tok, st), NEW i,
         dataIn \in Seq(DataWord), dataIn # <<>>,
         Queue(dataIn, WordAt(rq, tok), WordEnd(rq), z .. T - 1, i, T)
  PROVE  /\ Tail(dataIn) \in Seq(DataWord) /\ i \in z .. T - 1
         /\ Queue(Tail(dataIn), WordAt(rq, tok), WordEnd(rq), z .. T - 1, WordEnd(rq)[i], T)
         /\ Head(dataIn) = [bytes |-> Slice(tok, i, Lesser(WordSize, rq[i] - i)),
                            last |-> rq[i] - i <= WordSize]
         /\ WordEnd(rq)[i] \in 0 .. T
         /\ WordEnd(rq)[i] = i + Lesser(WordSize, rq[i] - i)
<1>1. PICK K, next, G, S, s :
        K = WordAt(rq, tok) /\ next = WordEnd(rq) /\ G = z .. T - 1 /\ S = DataWord /\ s = dataIn
  OBVIOUS
<1>2. s \in Seq(S) /\ s # <<>> /\ Queue(s, K, next, G, i, T)
  BY <1>1
<1>3. Tail(s) \in Seq(S) /\ Queue(Tail(s), K, next, G, next[i], T) /\ i \in G /\ Head(s) = K[i]
  BY <1>2, PopQueue
<1>4. i \in z .. T - 1
  BY <1>1, <1>3
<1>5. i \in Nat /\ rq[i] \in Nat /\ i < rq[i] /\ rq[i] <= T /\ T \in Nat
  <2>1. i \in Nat /\ rq[i] \in Nat /\ i < pk[i] /\ pk[i] <= rq[i] /\ pk[i] \in Nat /\ rq[i] <= T
        /\ T \in Nat
    BY <1>4, LineAt
  <2> QED BY <2>1
<1>6. tok \in [Nat -> Byte]
  BY DEF Line
<1>7. /\ WordAt(rq, tok)[i] = [bytes |-> Slice(tok, i, Lesser(WordSize, rq[i] - i)),
                               last |-> rq[i] - i <= WordSize]
      /\ WordEnd(rq)[i] \in Nat /\ WordEnd(rq)[i] <= rq[i]
      /\ WordEnd(rq)[i] = i + Lesser(WordSize, rq[i] - i)
  BY <1>5, <1>6, WordAtIs
<1>8. WordEnd(rq)[i] \in 0 .. T
  BY <1>5, <1>7
<1> QED BY <1>1, <1>3, <1>4, <1>7, <1>8

(* The meta data of the packet at o, from the stream or loaded before. *)
NextMeta == IF metaLoaded THEN meta ELSE Head(metaFifo)
OtherMeta == IF metaLoaded THEN metaFifo ELSE Tail(metaFifo)

LEMMA LoadMeta ==
  ASSUME NEW z, NEW T, NEW rq, NEW pk, NEW tok, NEW st, Line(z, T, rq, pk, tok, st),
         InPages(z, T, rq, pk, tok, st), NEW f, NEW m, NEW b, NEW o, NEW i,
         SplitAt(z, T, rq, pk, tok, st, f, m, b, o, i),
         pbc_state = "PKG_FIRST", metaLoaded \/ metaFifo # <<>>, i \in z .. T - 1
  PROVE  /\ i = o /\ NextMeta = MetaAt(rq, pk)[o] /\ (pk[o] < rq[o] => (pk[o] - o) % Lane = 0)
         /\ OtherMeta \in Seq(Meta) /\ Queue(OtherMeta, MetaAt(rq, pk), rq, st, rq[o], b)
         /\ NextMeta \in Meta /\ Len(OtherMeta) <= Len(metaFifo)
<1>0. PICK q, mt : q = OtherMeta /\ mt = NextMeta
  OBVIOUS
<1>1. metaFifo \in Seq(Meta) /\ meta \in Meta /\ metaLoaded \in BOOLEAN
  BY DEF SplitAt, SplitTypes
<1>2. Queue(metaFifo, MetaAt(rq, pk), rq, st, m, b)
  BY DEF SplitAt
<1>3. \/ metaLoaded = FALSE /\ i = o /\ m = o
      \/ metaLoaded = TRUE /\ FirstPacket(z, T, rq, pk, o, i, m)
  BY DEF SplitAt, Splitting, SecondPacket, LeftoverAt
<1>4. Len(metaFifo) \in Nat
  BY <1>1, LenProperties
<1>5. CASE metaLoaded = TRUE /\ FirstPacket(z, T, rq, pk, o, i, m)
  <2>1. q = metaFifo /\ mt = meta
    BY <1>0, <1>5 DEF OtherMeta, NextMeta
  <2>2. i = o /\ m = rq[o] /\ meta = MetaAt(rq, pk)[o] /\ (pk[o] < rq[o] => (pk[o] - o) % Lane = 0)
    BY <1>5 DEF FirstPacket
  <2>3. Len(q) <= Len(metaFifo)
    BY <1>4, <2>1
  <2> QED BY <1>0, <1>1, <1>2, <2>1, <2>2, <2>3
<1>6. CASE metaLoaded = FALSE /\ i = o /\ m = o
  <2>1. q = Tail(metaFifo) /\ mt = Head(metaFifo) /\ metaFifo # <<>>
    BY <1>0, <1>6 DEF OtherMeta, NextMeta
  <2>2. PICK K, S, s : K = MetaAt(rq, pk) /\ S = Meta /\ s = metaFifo
    OBVIOUS
  <2>3. s \in Seq(S) /\ s # <<>> /\ Queue(s, K, rq, st, m, b)
    BY <1>1, <1>2, <2>1, <2>2
  <2>4. /\ Tail(s) \in Seq(S) /\ Queue(Tail(s), K, rq, st, rq[m], b) /\ m \in st /\ Head(s) = K[m]
        /\ K[m] \in S /\ Len(Tail(s)) = Len(s) - 1
    BY <2>3, PopQueue
  <2>5. CutAt(m, rq, pk, tok)
    BY <2>4 DEF InPages
  <2>6. pk[m] < rq[m] => (pk[m] - m) % Lane = 0
    BY <2>5 DEF CutAt
  <2>7. Len(q) <= Len(metaFifo)
    BY <1>4, <2>1, <2>2, <2>4
  <2> QED BY <1>0, <1>6, <2>1, <2>2, <2>4, <2>6, <2>7
<1> QED BY <1>3, <1>5, <1>6

LEMMA MetaAtIs ==
  ASSUME NEW rq, NEW pk, NEW x \in Nat
  PROVE  MetaAt(rq, pk)[x] = [length |-> pk[x] - x, isSplit |-> pk[x] < rq[x]]
  BY DEF MetaAt

(* The state after a word of PKG_FIRST, for a rest of l bytes up to the    *)
(* boundary, of a packet that is cut there and that ends with the word.    *)
AfterFirst(mt, l, cut, last) ==
  /\ meta' = IF l <= WordSize THEN mt ELSE [mt EXCEPT !.length = @ - WordSize]
  /\ metaLoaded' = (cut \/ ~(l <= WordSize))
  /\ pbc_state' = CASE ~(l <= WordSize /\ cut) -> "PKG_FIRST"
                    [] l <= WordSize /\ cut /\ last -> "LAST"
                    [] l <= WordSize /\ cut /\ ~last -> "PKG_SECOND"

(* PKG_FIRST sends the word of the first packet at o. *)
LEMMA SendFirst ==
  ASSUME PathAssumption, NEW z, NEW T, NEW rq, NEW pk, NEW tok, NEW st,
         Line(z, T, rq, pk, tok, st), InPages(z, T, rq, pk, tok, st),
         NEW f, NEW m, NEW b, NEW o, NEW i,
         SplitAt(z, T, rq, pk, tok, st, f, m, b, o, i), PkgFirst
  PROVE  /\ i = o /\ o \in z .. T - 1 /\ (pk[o] < rq[o] => (pk[o] - o) % Lane = 0)
         /\ metaFifo' \in Seq(Meta) /\ dataIn' \in Seq(DataWord) /\ dataOut' \in Seq(DataWord)
         /\ Queue(metaFifo', MetaAt(rq, pk), rq, st, rq[o], b)
         /\ Queue(dataOut', WordAt(pk, tok), WordEnd(pk), z .. T - 1, f, WordEnd(pk)[o])
         /\ Queue(dataIn', WordAt(rq, tok), WordEnd(rq), z .. T - 1, WordEnd(rq)[o], T)
         /\ prevWord' = Slice(tok, o, Lesser(WordSize, rq[o] - o))
         /\ AfterFirst(MetaAt(rq, pk)[o], pk[o] - o, pk[o] < rq[o], rq[o] - o <= WordSize)
<1>1. /\ Queue(dataOut, WordAt(pk, tok), WordEnd(pk), z .. T - 1, f, o)
      /\ Queue(dataIn, WordAt(rq, tok), WordEnd(rq), z .. T - 1, i, T)
      /\ dataIn \in Seq(DataWord) /\ dataOut \in Seq(DataWord)
  BY DEF SplitAt, SplitTypes, Data
<1>2. /\ pbc_state = "PKG_FIRST" /\ dataIn # <<>> /\ (metaLoaded \/ metaFifo # <<>>)
      /\ dataIn' = Tail(dataIn)
  BY DEF PkgFirst
<1>3. PICK cw : cw = Head(dataIn)
  OBVIOUS
<1>4. /\ dataIn' \in Seq(DataWord) /\ i \in z .. T - 1
      /\ Queue(dataIn', WordAt(rq, tok), WordEnd(rq), z .. T - 1, WordEnd(rq)[i], T)
      /\ cw = [bytes |-> Slice(tok, i, Lesser(WordSize, rq[i] - i)), last |-> rq[i] - i <= WordSize]
  BY <1>1, <1>2, <1>3, ReadWord
<1>5. PICK q, mt : q = OtherMeta /\ mt = NextMeta
  OBVIOUS
<1>6. /\ i = o /\ mt = MetaAt(rq, pk)[o] /\ (pk[o] < rq[o] => (pk[o] - o) % Lane = 0)
      /\ q \in Seq(Meta) /\ Queue(q, MetaAt(rq, pk), rq, st, rq[o], b)
  BY <1>2, <1>4, <1>5, LoadMeta
<1>7. /\ o \in Nat /\ pk[o] \in Nat /\ rq[o] \in Nat /\ o < pk[o] /\ pk[o] <= rq[o]
      /\ tok \in [Nat -> Byte]
  <2>1. o \in z .. T - 1
    BY <1>4, <1>6
  <2>2. tok \in [Nat -> Byte]
    BY DEF Line
  <2> QED BY <2>1, <2>2, LineAt
<1>8. mt.length = pk[o] - o /\ mt.isSplit = (pk[o] < rq[o])
  <2>0. o \in Nat
    BY <1>7
  <2>1. MetaAt(rq, pk)[o] = [length |-> pk[o] - o, isSplit |-> pk[o] < rq[o]]
    BY <2>0, MetaAtIs
  <2>2. mt = [length |-> pk[o] - o, isSplit |-> pk[o] < rq[o]]
    BY <1>6, <2>1
  <2> QED BY <2>2, Zenon
<1>9. cw.bytes = Slice(tok, o, Lesser(WordSize, rq[o] - o)) /\ cw.last = (rq[o] - o <= WordSize)
  BY <1>4, <1>6, Zenon
<1>10. Slice(tok, o, Lesser(WordSize, pk[o] - o)) = FirstPart(cw.bytes, mt.length)
  <2>1. PICK P \in Nat, R \in Nat : P = pk[o] /\ R = rq[o] /\ o < P /\ P <= R
    BY <1>7
  <2>2. P < R => (P - o) % Lane = 0
    BY <1>6, <2>1
  <2>3. Slice(tok, o, Lesser(WordSize, P - o)) =
          FirstPart(Slice(tok, o, Lesser(WordSize, R - o)), P - o)
    <3>1. o \in Nat /\ tok \in [Nat -> Byte] /\ o < P /\ P <= R
      BY <1>7, <2>1
    <3>2. PICK l \in Nat, r \in Nat : l = P - o /\ r = R - o /\ 0 < l /\ l <= r /\ (l < r => P < R)
      BY <3>1
    <3>3. l < r => l % Lane = 0
      BY <2>2, <3>2, Zenon
    <3>4. o \in Nat /\ tok \in [Nat -> Byte] /\ 0 < l /\ l <= r
      BY <3>1, <3>2
    <3>5. Slice(tok, o, Lesser(WordSize, l)) = FirstPart(Slice(tok, o, Lesser(WordSize, r)), l)
      BY <3>3, <3>4, FirstBytes
    <3> QED BY <3>2, <3>5, Zenon
  <2> QED BY <1>8, <1>9, <2>1, <2>3, Zenon
<1>11. dataOut' = Append(dataOut, [bytes |-> Slice(tok, o, Lesser(WordSize, pk[o] - o)),
                                   last |-> pk[o] - o <= WordSize])
  BY <1>3, <1>5, <1>8, <1>10, Zenon DEF PkgFirst, SendLast, NextMeta, FirstPart
<1>12. WordAt(pk, tok)[o] = [bytes |-> Slice(tok, o, Lesser(WordSize, pk[o] - o)),
                             last |-> pk[o] - o <= WordSize]
  <2>1. o \in Nat
    BY <1>7
  <2> QED BY <2>1, Zenon DEF WordAt
<1>13. dataOut' = Append(dataOut, WordAt(pk, tok)[o])
  BY <1>11, <1>12
<1>14. /\ dataOut' \in Seq(DataWord)
       /\ Queue(dataOut', WordAt(pk, tok), WordEnd(pk), z .. T - 1, f, WordEnd(pk)[o])
  BY <1>1, <1>4, <1>6, <1>13, SendWord
<1>15. metaFifo' = q /\ prevWord' = cw.bytes
  BY <1>3, <1>5, Zenon DEF PkgFirst, OtherMeta
<1>16. /\ meta' = IF mt.length <= WordSize THEN mt ELSE [mt EXCEPT !.length = @ - WordSize]
       /\ metaLoaded' = (mt.isSplit \/ ~(mt.length <= WordSize))
       /\ pbc_state' = CASE ~(mt.length <= WordSize /\ mt.isSplit) -> "PKG_FIRST"
                           [] mt.length <= WordSize /\ mt.isSplit /\ cw.last -> "LAST"
                           [] mt.length <= WordSize /\ mt.isSplit /\ ~cw.last -> "PKG_SECOND"
  BY <1>3, <1>5, Zenon DEF PkgFirst, NextMeta
<1>17. AfterFirst(MetaAt(rq, pk)[o], pk[o] - o, pk[o] < rq[o], rq[o] - o <= WordSize)
  BY <1>6, <1>8, <1>9, <1>16, Zenon DEF AfterFirst
<1> QED BY <1>4, <1>6, <1>9, <1>14, <1>15, <1>17

RunsTo(s, tok, a, b) ==
  \E n \in Nat, f \in [Nat -> Nat] :
    n # 0 /\ Len(s) = n /\ Runs(s, n, f, tok) /\ f[1] = a /\ f[n + 1] = b
Flat(s, tok, a, b) == FlattenSeq(s) = Slice(tok, a, b - a)

LEMMA FlattenRuns ==
  ASSUME NEW tok \in [Nat -> Byte], NEW s, NEW a, NEW b, RunsTo(s, tok, a, b)
  PROVE  Flat(s, tok, a, b)
<1>1. PICK n \in Nat, f \in [Nat -> Nat] :
        n # 0 /\ Len(s) = n /\ Runs(s, n, f, tok) /\ f[1] = a /\ f[n + 1] = b
  BY DEF RunsTo
<1>2. FlattenSeq(s) = Slice(tok, a, b - a)
  BY <1>1, FlattenSlices
<1> QED BY <1>2 DEF Flat

LEMMA PendingIs ==
  Pending = FlattenSeq(BytesOf(dataOut)) \o Leftover \o FlattenSeq(BytesOf(dataIn))
  BY DEF Pending

(* The words of a queue hold the bytes from its first to its last position. *)
LEMMA QueueFlattens ==
  ASSUME PathAssumption, NEW tok \in [Nat -> Byte], NEW e, NEW G, G \subseteq Nat,
         \A x \in G : e[x] \in Nat /\ x < e[x],
         NEW q \in Seq(DataWord), NEW a, NEW b, Queue(q, WordAt(e, tok), WordEnd(e), G, a, b)
  PROVE  a \in Nat /\ b \in Nat /\ a <= b /\ Flat(BytesOf(q), tok, a, b)
<1>1. PICK n \in Nat : n = Len(q) /\ DOMAIN q = 1 .. n
  BY LenProperties
<1>2. PICK f \in [Nat -> Nat] :
        /\ f[1] = a /\ f[n + 1] = b
        /\ \A i \in 1 .. n : /\ f[i] \in G /\ q[i] = WordAt(e, tok)[f[i]]
                             /\ f[i + 1] = WordEnd(e)[f[i]]
  BY <1>1 DEF Queue, Stream
<1>3. PICK s : s = BytesOf(q)
  OBVIOUS
<1>4. s = [i \in 1 .. n |-> q[i].bytes]
  BY <1>1, <1>3 DEF BytesOf
<1>5. ASSUME NEW i \in 1 .. n
      PROVE  f[i] <= f[i + 1] /\ s[i] = Slice(tok, f[i], f[i + 1] - f[i]) /\ s[i] \in Seq(Byte)
  <2>1. PICK x \in Nat : x = f[i] /\ x \in G
    BY <1>2
  <2>2. e[x] \in Nat /\ x < e[x]
    BY <2>1
  <2>3. PICK l \in Nat : l = Lesser(WordSize, e[x] - x)
    BY <2>2, WordAtIs
  <2>4. WordAt(e, tok)[x] = [bytes |-> Slice(tok, x, l), last |-> e[x] - x <= WordSize]
    <3>1. WordAt(e, tok)[x] = [bytes |-> Slice(tok, x, Lesser(WordSize, e[x] - x)),
                               last |-> e[x] - x <= WordSize]
      BY DEF WordAt
    <3> QED BY <2>3, <3>1, Zenon
  <2>5. WordEnd(e)[x] = x + l
    BY <2>2, <2>3, WordAtIs
  <2>6. q[i].bytes = Slice(tok, x, l)
    <3>1. PICK w, y : w = q[i] /\ y = (e[x] - x <= WordSize)
      OBVIOUS
    <3>2. w = [bytes |-> Slice(tok, x, l), last |-> y]
      BY <1>2, <2>1, <2>4, <3>1, Zenon
    <3> QED BY <3>1, <3>2
  <2>7. f[i + 1] = x + l /\ x <= x + l /\ (x + l) - x = l
    <3>1. f[i + 1] = x + l
      BY <1>2, <2>1, <2>5, Zenon
    <3> QED BY <3>1
  <2>8. Slice(tok, x, l) \in Seq(Byte)
    BY SliceSeq
  <2> QED BY <1>4, <2>1, <2>6, <2>7, <2>8
<1>6. s \in Seq(Seq(Byte)) /\ Len(s) = n
  <2>1. s \in [1 .. n -> Seq(Byte)]
    BY <1>4, <1>5
  <2> QED BY <2>1, SeqOfLength
<1>7. a \in Nat /\ b \in Nat /\ a <= b
  <2>1. \A i \in 1 .. n + 1 : f[1] <= f[i]
    BY <1>5, Ascending
  <2>2. n + 1 \in 1 .. n + 1 /\ n + 1 \in Nat
    OBVIOUS
  <2> QED BY <1>2, <2>1, <2>2
<1>8. CASE n = 0
  <2>1. s = <<>>
    BY <1>6, <1>8, EmptySeq
  <2>2. FlattenSeq(s) = s
    BY <1>6, <1>8 DEF FlattenSeq
  <2>3. a = b /\ b - a = 0
    <3>1. n + 1 = 1
      BY <1>8
    <3> QED BY <1>2, <1>7, <3>1
  <2> QED BY <1>3, <1>7, <2>1, <2>2, <2>3, EmptySlice DEF Flat
<1>9. CASE n # 0
  <2>1. Runs(s, n, f, tok)
    BY <1>5 DEF Runs
  <2>2. Flat(s, tok, a, b)
    <3>1. Len(s) = n /\ f[1] = a /\ f[n + 1] = b
      BY <1>2, <1>6
    <3>2. RunsTo(s, tok, a, b)
      BY <1>9, <2>1, <3>1 DEF RunsTo
    <3> QED BY <3>2, FlattenRuns
  <2> QED BY <1>3, <1>7, <2>2
<1> QED BY <1>8, <1>9

(* What pkg_split has read and not sent. *)
LEMMA LeftoverSlice ==
  ASSUME PathAssumption, WriteTypes, NEW z, NEW T, NEW rq, NEW pk, NEW tok \in [Nat -> Byte],
         NEW o \in Nat, NEW i \in Nat, NEW m, Splitting(z, T, rq, pk, tok, o, i, m)
  PROVE  o <= i /\ Leftover = Slice(tok, o, i - o)
<1>1. CASE i = o /\ ~(pbc_state \in {"PKG_SECOND", "LAST"} /\ meta.length \in Shift)
  <2>1. Leftover = <<>>
    BY <1>1 DEF Leftover
  <2>2. i - o = 0 /\ o <= i
    BY <1>1
  <2> QED BY <2>1, <2>2, EmptySlice
<1>2. CASE \E w, n \in Nat : LeftoverAt(tok, o, i, m, w, n)
  <2>1. PICK w \in Nat, n \in Nat : LeftoverAt(tok, o, i, m, w, n)
    BY <1>2
  <2>2. PICK l \in Nat : l = meta.length
    BY DEF WriteTypes, Meta
  <2>3. /\ l \in Shift /\ l < n /\ prevWord = Slice(tok, w, n) /\ i = w + n /\ o = w + l
        /\ pbc_state \in {"PKG_SECOND", "LAST"}
    BY <2>1, <2>2 DEF LeftoverAt
  <2>4. Leftover = Beyond(Slice(tok, w, n), l)
    BY <2>2, <2>3 DEF Leftover
  <2>5. Beyond(Slice(tok, w, n), l) = Slice(tok, w + l, n - l)
    <3>1. l <= n
      BY <2>3
    <3> QED BY <3>1, BeyondSlice
  <2>6. n - l = i - o /\ o <= i
    BY <2>3
  <2>7. Slice(tok, w + l, n - l) = Slice(tok, o, i - o)
    BY <2>3, <2>6
  <2> QED BY <2>4, <2>5, <2>6, <2>7
<1>3. \/ i = o /\ ~(pbc_state \in {"PKG_SECOND", "LAST"} /\ meta.length \in Shift)
      \/ \E w, n \in Nat : LeftoverAt(tok, o, i, m, w, n)
  <2>1. CASE pbc_state = "PKG_FIRST" /\ metaLoaded = FALSE /\ i = o /\ m = o
    BY <2>1
  <2>2. CASE pbc_state = "PKG_FIRST" /\ metaLoaded = TRUE /\ FirstPacket(z, T, rq, pk, o, i, m)
    BY <2>2 DEF FirstPacket
  <2>3. CASE metaLoaded = TRUE /\ SecondPacket(z, T, rq, pk, tok, o, i, m)
    <3>1. CASE \E w, n \in Nat : LeftoverAt(tok, o, i, m, w, n)
      BY <3>1
    <3>2. CASE pbc_state = "PKG_SECOND" /\ ~(meta.length \in Shift) /\ i = o
      BY <3>2
    <3> QED BY <2>3, <3>1, <3>2 DEF SecondPacket
  <2> QED BY <2>1, <2>2, <2>3 DEF Splitting
<1> QED BY <1>1, <1>2, <1>3

SliceTo(tok, x, y) == Slice(tok, x, y - x)

LEMMA JoinTo ==
  ASSUME NEW tok \in [Nat -> Byte], NEW x \in Nat, NEW y \in Nat, NEW z \in Nat,
         x <= y, y <= z
  PROVE  SliceTo(tok, x, y) \o SliceTo(tok, y, z) = SliceTo(tok, x, z)
  BY JoinSlices DEF SliceTo

(* The bytes on their way are those from f to T. *)
LEMMA PendingSlice ==
  ASSUME PathAssumption, WriteTypes, NEW z, NEW T, NEW rq, NEW pk, NEW tok, NEW st, NEW f,
         WritesAt(z, T, rq, pk, tok, st, f)
  PROVE  /\ f \in Nat /\ T \in Nat /\ f <= T /\ tok \in [Nat -> Byte]
         /\ Pending = Slice(tok, f, T - f)
<1>1. PICK m, b, c, e, d, d1, d2, o, i : At(z, T, rq, pk, tok, st, f, m, b, c, e, d, d1, d2, o, i)
  BY DEF WritesAt
<1>2. /\ Line(z, T, rq, pk, tok, st) /\ Data(z, T, rq, pk, tok, f, o, i)
      /\ Splitting(z, T, rq, pk, tok, o, i, m)
  BY <1>1 DEF At
<1>3. tok \in [Nat -> Byte] /\ z \in Nat /\ T \in Nat
  BY <1>2 DEF Line
<1>4. PICK G : G = z .. T - 1
  OBVIOUS
<1>5. /\ G \subseteq Nat /\ (\A x \in G : pk[x] \in Nat /\ x < pk[x])
      /\ \A x \in G : rq[x] \in Nat /\ x < rq[x]
  <2>1. G \subseteq Nat
    BY <1>3, <1>4
  <2>2. ASSUME NEW x \in G PROVE pk[x] \in Nat /\ rq[x] \in Nat /\ x < pk[x] /\ x < rq[x]
    <3>1. x \in Nat /\ pk[x] \in Nat /\ rq[x] \in Nat /\ x < pk[x] /\ pk[x] <= rq[x]
      BY <1>2, <1>4, LineAt
    <3> QED BY <3>1
  <2> QED BY <2>1, <2>2
<1>6. f \in Nat /\ o \in Nat /\ f <= o /\ Flat(BytesOf(dataOut), tok, f, o)
  <2>1. dataOut \in Seq(DataWord) /\ Queue(dataOut, WordAt(pk, tok), WordEnd(pk), G, f, o)
    BY <1>2, <1>4 DEF Data, WriteTypes
  <2> QED BY <1>3, <1>5, <2>1, QueueFlattens
<1>7. i \in Nat /\ i <= T /\ Flat(BytesOf(dataIn), tok, i, T)
  <2>1. dataIn \in Seq(DataWord) /\ Queue(dataIn, WordAt(rq, tok), WordEnd(rq), G, i, T)
    BY <1>2, <1>4 DEF Data, WriteTypes
  <2> QED BY <1>3, <1>5, <2>1, QueueFlattens
<1>8. o <= i /\ Leftover = Slice(tok, o, i - o)
  BY <1>2, <1>3, <1>6, <1>7, LeftoverSlice
<1>9. Pending = Slice(tok, f, o - f) \o Slice(tok, o, i - o) \o Slice(tok, i, T - i)
  BY <1>6, <1>7, <1>8, PendingIs DEF Flat
<1>10. Slice(tok, f, o - f) \o Slice(tok, o, i - o) = Slice(tok, f, i - f) /\ f <= i /\ f <= T
  <2>1. f <= i /\ f <= T
    BY <1>3, <1>6, <1>7, <1>8
  <2>2. Slice(tok, f, o - f) \o Slice(tok, o, i - o) = Slice(tok, f, i - f)
    <3>1. f \in Nat /\ o \in Nat /\ i \in Nat /\ f <= o /\ o <= i
      BY <1>6, <1>7, <1>8
    <3>2. SliceTo(tok, f, o) \o SliceTo(tok, o, i) = SliceTo(tok, f, i)
      BY <1>3, <3>1, JoinTo
    <3> QED BY <3>2 DEF SliceTo
  <2> QED BY <2>1, <2>2
<1>11. Slice(tok, f, i - f) \o Slice(tok, i, T - i) = Slice(tok, f, T - f)
  <2>1. f \in Nat /\ i \in Nat /\ T \in Nat /\ f <= i /\ i <= T
    BY <1>3, <1>6, <1>7, <1>10
  <2>2. SliceTo(tok, f, i) \o SliceTo(tok, i, T) = SliceTo(tok, f, T)
    BY <1>3, <2>1, JoinTo, ZenonT(30)
  <2> QED BY <2>2 DEF SliceTo
<1> QED BY <1>3, <1>6, <1>9, <1>10, <1>11

(* What is left to show once the streams are known. *)
LEMMA SplitNext ==
  ASSUME NEW z, NEW T, NEW rq, NEW pk, NEW tok, NEW st, NEW f, NEW b, NEW m, NEW o, NEW i,
         metaFifo' \in Seq(Meta), dataIn' \in Seq(DataWord), dataOut' \in Seq(DataWord),
         Queue(metaFifo', MetaAt(rq, pk), rq, st, m, b),
         Queue(dataOut', WordAt(pk, tok), WordEnd(pk), z .. T - 1, f, o),
         Queue(dataIn', WordAt(rq, tok), WordEnd(rq), z .. T - 1, i, T),
         pbc_state' \in {"PKG_FIRST", "PKG_SECOND", "LAST"}, meta' \in Meta, metaLoaded' \in BOOLEAN,
         Splitting(z, T, rq, pk, tok, o, i, m)', {m, o, i} \subseteq 0 .. T
  PROVE  SplitAt(z, T, rq, pk, tok, st, f, m, b, o, i)'
<1>1. SplitTypes'
  BY DEF SplitTypes
<1>2. Data(z, T, rq, pk, tok, f, o, i)'
  BY DEF Data
<1> QED BY <1>1, <1>2 DEF SplitAt

LEMMA PkgFirstStep ==
  ASSUME PathAssumption, NEW z, NEW T, NEW rq, NEW pk, NEW tok, NEW st,
         Line(z, T, rq, pk, tok, st), InPages(z, T, rq, pk, tok, st),
         NEW f, NEW m, NEW b, NEW o, NEW i,
         SplitAt(z, T, rq, pk, tok, st, f, m, b, o, i), PkgFirst
  PROVE  \E m1, o1, i1 : SplitAt(z, T, rq, pk, tok, st, f, m1, b, o1, i1)'
<1>1. /\ i = o /\ o \in z .. T - 1 /\ (pk[o] < rq[o] => (pk[o] - o) % Lane = 0)
      /\ metaFifo' \in Seq(Meta) /\ dataIn' \in Seq(DataWord) /\ dataOut' \in Seq(DataWord)
      /\ Queue(metaFifo', MetaAt(rq, pk), rq, st, rq[o], b)
      /\ Queue(dataOut', WordAt(pk, tok), WordEnd(pk), z .. T - 1, f, WordEnd(pk)[o])
      /\ Queue(dataIn', WordAt(rq, tok), WordEnd(rq), z .. T - 1, WordEnd(rq)[o], T)
      /\ prevWord' = Slice(tok, o, Lesser(WordSize, rq[o] - o))
  BY SendFirst
<1>2. PICK W \in Nat \ {0}, P \in Nat, R \in Nat, t \in Nat :
        W = WordSize /\ P = pk[o] /\ R = rq[o] /\ o \in Nat /\ o < P /\ P <= R /\ R <= t /\ t = T
  <2>1. /\ T \in Nat /\ o \in Nat /\ rq[o] \in Nat /\ pk[o] \in Nat
        /\ o < pk[o] /\ pk[o] <= rq[o] /\ rq[o] <= T
    BY <1>1, LineAt
  <2>2. WordSize \in Nat \ {0}
    BY DEF PathAssumption
  <2> QED BY <2>1, <2>2
<1>3. AfterFirst(MetaAt(rq, pk)[o], pk[o] - o, pk[o] < rq[o], rq[o] - o <= WordSize)
  BY SendFirst
<1>4. MetaAt(rq, pk)[o] = [length |-> P - o, isSplit |-> P < R]
  BY <1>2, MetaAtIs, ZenonT(30)
<1>5. WordEnd(pk)[o] = Lesser(o + W, P) /\ WordEnd(rq)[o] = Lesser(o + W, R)
  BY <1>2 DEF WordEnd
<1>6. CASE ~(P - o <= W)
  <2>1. PICK y \in Nat : y = o + W /\ o <= y /\ y < P /\ y < R /\ y \in 0 .. T /\ R \in 0 .. T
    BY <1>2, <1>6
  <2>2. y \in z .. T - 1 /\ rq[y] = R /\ pk[y] = P
    <3>1. o <= y /\ y < rq[o] /\ y < pk[o]
      BY <1>2, <2>1
    <3>2. y \in z .. T - 1 /\ rq[y] = rq[o] /\ (y < pk[o] => pk[y] = pk[o])
      BY <1>1, <2>1, <3>1, LineWithin, SMTT(30)
    <3> QED BY <1>2, <3>1, <3>2
  <2>3. WordEnd(pk)[o] = y /\ WordEnd(rq)[o] = y
    <3>1. o + W <= P /\ o + W <= R
      BY <2>1
    <3> QED BY <1>5, <2>1, <3>1 DEF Lesser
  <2>4. (P - o) - W = P - y
    BY <1>2, <2>1
  <2>12. ~(pk[o] - o <= WordSize)
    BY <1>2, <1>6
  <2>5. meta' = [length |-> P - y, isSplit |-> P < R]
    <3>0. meta' = [MetaAt(rq, pk)[o] EXCEPT !.length = @ - WordSize]
      BY <1>3, <2>12, Zenon DEF AfterFirst
    <3>1. meta' = [[length |-> P - o, isSplit |-> P < R] EXCEPT !.length = @ - W]
      BY <1>2, <1>4, <3>0
    <3>2. [[length |-> P - o, isSplit |-> P < R] EXCEPT !.length = @ - W]
            = [length |-> (P - o) - W, isSplit |-> P < R]
      OBVIOUS
    <3> QED BY <2>4, <3>1, <3>2
  <2>6. meta' = MetaAt(rq, pk)[y]
    <3>1. MetaAt(rq, pk)[y] = [length |-> pk[y] - y, isSplit |-> pk[y] < rq[y]]
      BY <2>1, MetaAtIs, ZenonT(30)
    <3> QED BY <2>2, <2>5, <3>1
  <2>7. pbc_state' = "PKG_FIRST" /\ metaLoaded' = TRUE
    BY <1>3, <2>12, Zenon DEF AfterFirst
  <2>8. P < R => (P - y) % Lane = 0
    <3>1. ASSUME P < R PROVE (P - y) % Lane = 0
      <4>1. PICK L \in Nat \ {0}, x \in Nat : L = Lane /\ W % L = 0 /\ x = P - o /\ x % L = 0
        BY <1>1, <1>2, <3>1, SMTT(30) DEF PathAssumption
      <4>2. W \in Nat /\ (x - W) % L = 0
        BY <4>1, WholeLanes
      <4> QED BY <2>4, <4>1, <4>2
    <3> QED BY <3>1
  <2>9. Splitting(z, T, rq, pk, tok, y, y, R)'
    <3>1. FirstPacket(z, T, rq, pk, y, y, R)'
      BY <2>2, <2>6, <2>8 DEF FirstPacket
    <3> QED BY <2>7, <3>1 DEF Splitting
  <2>10. meta' \in Meta
    <3>1. P - y \in Nat /\ (P < R) \in BOOLEAN
      BY <2>1
    <3> QED BY <2>5, <3>1, Zenon DEF Meta
  <2>11. SplitAt(z, T, rq, pk, tok, st, f, R, b, y, y)'
    <3>1. {R, y, y} \subseteq 0 .. T
      BY <2>1
    <3>2. /\ Queue(metaFifo', MetaAt(rq, pk), rq, st, R, b)
          /\ Queue(dataOut', WordAt(pk, tok), WordEnd(pk), z .. T - 1, f, y)
          /\ Queue(dataIn', WordAt(rq, tok), WordEnd(rq), z .. T - 1, y, T)
      BY <1>1, <1>2, <2>3
    <3>3. pbc_state' \in {"PKG_FIRST", "PKG_SECOND", "LAST"} /\ metaLoaded' \in BOOLEAN
      BY <2>7
    <3> QED BY <1>1, <2>9, <2>10, <3>1, <3>2, <3>3, SplitNext
  <2> QED BY <2>11
<1>7. CASE P - o <= W /\ ~(P < R)
  <2>1. P = R /\ R \in 0 .. T /\ P <= o + W
    BY <1>2, <1>7
  <2>12. pk[o] - o <= WordSize /\ ~(pk[o] < rq[o])
    BY <1>2, <1>7
  <2>2. WordEnd(pk)[o] = R /\ WordEnd(rq)[o] = R
    BY <1>2, <1>5, <2>1 DEF Lesser
  <2>3. pbc_state' = "PKG_FIRST" /\ metaLoaded' = FALSE
    BY <1>3, <2>12, Zenon DEF AfterFirst
  <2>4. Splitting(z, T, rq, pk, tok, R, R, R)'
    BY <2>3 DEF Splitting
  <2>5. meta' \in Meta
    <3>1. P - o \in Nat /\ (P < R) \in BOOLEAN
      BY <1>2
    <3>2. meta' = MetaAt(rq, pk)[o]
      BY <1>3, <2>12, Zenon DEF AfterFirst
    <3>3. meta' = [length |-> P - o, isSplit |-> P < R]
      BY <1>4, <3>2
    <3> QED BY <3>1, <3>3, Zenon DEF Meta
  <2>6. SplitAt(z, T, rq, pk, tok, st, f, R, b, R, R)'
    <3>1. {R, R, R} \subseteq 0 .. T
      BY <2>1
    <3>2. /\ Queue(metaFifo', MetaAt(rq, pk), rq, st, R, b)
          /\ Queue(dataOut', WordAt(pk, tok), WordEnd(pk), z .. T - 1, f, R)
          /\ Queue(dataIn', WordAt(rq, tok), WordEnd(rq), z .. T - 1, R, T)
      BY <1>1, <1>2, <2>2
    <3>3. pbc_state' \in {"PKG_FIRST", "PKG_SECOND", "LAST"} /\ metaLoaded' \in BOOLEAN
      BY <2>3
    <3> QED BY <1>1, <2>4, <2>5, <3>1, <3>2, <3>3, SplitNext
  <2> QED BY <2>6
<1>8. CASE P - o <= W /\ P < R
  <2>12. pk[o] - o <= WordSize /\ pk[o] < rq[o]
    BY <1>2, <1>8
  <2>13. R - o \in Nat /\ P - o \in Nat /\ P \in 0 .. T /\ R \in 0 .. T /\ P - o < R - o
    BY <1>2, <1>8
  <2>1. PICK n \in Nat : /\ n = Lesser(W, R - o) /\ o + n = Lesser(o + W, R) /\ o + n \in 0 .. T
                         /\ (R - o <= W => n = R - o) /\ (~(R - o <= W) => n = W)
    <3>1. PICK r \in Nat : r = R - o /\ R = o + r
      BY <1>2, <2>13
    <3>2. PICK n : n = IF W <= r THEN W ELSE r
      OBVIOUS
    <3>3. n \in Nat /\ n <= r /\ (r <= W => n = r) /\ (~(r <= W) => n = W)
      BY <3>2
    <3>7. o + n \in 0 .. T
      BY <1>2, <3>1, <3>3
    <3>4. n = Lesser(W, R - o)
      BY <3>1, <3>2 DEF Lesser
    <3>5. o + n = Lesser(o + W, R)
      <4>1. o + W <= R <=> W <= r
        BY <1>2, <3>1
      <4> QED BY <3>1, <3>2, <4>1 DEF Lesser
    <3>6. (R - o <= W => n = R - o) /\ (~(R - o <= W) => n = W)
      BY <3>1, <3>3, Zenon
    <3> QED BY <3>3, <3>4, <3>5, <3>6, <3>7
  <2>2. WordEnd(pk)[o] = P /\ WordEnd(rq)[o] = o + n
    <3>1. Lesser(o + W, P) = P
      BY <1>2, <1>8, SMTT(30) DEF Lesser
    <3> QED BY <1>5, <2>1, <3>1
  <2>3. P \in z .. T - 1 /\ rq[P] = R /\ pk[P] = R
    BY <1>1, <1>2, <1>8, LineSecond, SMTT(30)
  <2>4. meta' = [length |-> P - o, isSplit |-> P < R] /\ metaLoaded' = TRUE
    <3>1. meta' = MetaAt(rq, pk)[o] /\ metaLoaded' = TRUE
      BY <1>3, <2>12, Zenon DEF AfterFirst
    <3> QED BY <1>4, <3>1
  <2>5. meta'.length = P - o
    BY <2>4, Zenon
  <2>6. meta' \in Meta
    <3>1. P - o \in Nat /\ (P < R) \in BOOLEAN
      BY <1>2
    <3> QED BY <2>4, <3>1, Zenon DEF Meta
  <2>7. prevWord' = Slice(tok, o, n)
    BY <1>1, <1>2, <2>1
  <2>8. SecondPacket(z, T, rq, pk, tok, P, o + n, R)' /\ pbc_state' \in {"PKG_SECOND", "LAST"}
    <3>1. P - o < W => P - o \in Shift
      <4>1. (P - o) % Lane = 0 /\ 0 < P - o
        BY <1>1, <1>2, <1>8
      <4>2. PICK k \in Nat : k = P - o
        BY <2>13
      <4>3. k < WordSize => k \in Shift
        BY <4>1, <4>2, ShiftIs
      <4> QED BY <1>2, <4>2, <4>3
    <3>2. o + (P - o) = P
      BY <1>2
    <3>3. CASE R - o <= W
      <4>1. n = R - o /\ o + n = R /\ P - o < n /\ P - o < W
        BY <1>2, <1>8, <2>1, <2>13, <3>3, SMTT(30)
      <4>2. pbc_state' = "LAST"
        <5>1. (rq[o] - o <= WordSize)
          BY <1>2, <3>3
        <5> QED BY <1>3, <2>12, <5>1, Zenon DEF AfterFirst
      <4>3. LeftoverAt(tok, P, o + n, R, o, n)'
        BY <1>2, <2>1, <2>5, <2>7, <3>1, <3>2, <4>1, <4>2 DEF LeftoverAt
      <4> QED BY <1>2, <2>3, <4>2, <4>3 DEF SecondPacket
    <3>4. CASE ~(R - o <= W) /\ P - o < W
      <4>1. n = W /\ o + n < R /\ P - o < n
        BY <1>2, <1>8, <2>1, <2>13, <3>4
      <4>2. pbc_state' = "PKG_SECOND"
        <5>1. ~(rq[o] - o <= WordSize)
          BY <1>2, <3>4
        <5> QED BY <1>3, <2>12, <5>1, Zenon DEF AfterFirst
      <4>3. LeftoverAt(tok, P, o + n, R, o, n)'
        BY <1>2, <2>1, <2>5, <2>7, <3>1, <3>2, <3>4, <4>1, <4>2 DEF LeftoverAt
      <4> QED BY <1>2, <2>3, <4>2, <4>3 DEF SecondPacket
    <3>5. CASE ~(R - o <= W) /\ ~(P - o < W)
      <4>1. n = W /\ P - o = W /\ o + n = P
        BY <1>2, <1>8, <2>1, <2>13, <3>5
      <4>2. pbc_state' = "PKG_SECOND"
        <5>1. ~(rq[o] - o <= WordSize)
          BY <1>2, <3>5
        <5> QED BY <1>3, <2>12, <5>1, Zenon DEF AfterFirst
      <4>3. ~(P - o \in Shift)
        BY <1>2, <2>1, <4>1, ShiftIs
      <4> QED BY <2>3, <2>5, <4>1, <4>2, <4>3 DEF SecondPacket
    <3> QED BY <3>3, <3>4, <3>5
  <2>9. Splitting(z, T, rq, pk, tok, P, o + n, R)'
    BY <2>4, <2>8 DEF Splitting
  <2>10. SplitAt(z, T, rq, pk, tok, st, f, R, b, P, o + n)'
    <3>0. PICK i1 : i1 = o + n
      OBVIOUS
    <3>1. {R, P, i1} \subseteq 0 .. T
      BY <2>1, <2>13, <3>0
    <3>2. /\ Queue(metaFifo', MetaAt(rq, pk), rq, st, R, b)
          /\ Queue(dataOut', WordAt(pk, tok), WordEnd(pk), z .. T - 1, f, P)
          /\ Queue(dataIn', WordAt(rq, tok), WordEnd(rq), z .. T - 1, i1, T)
      BY <1>1, <1>2, <2>2, <3>0
    <3>3. /\ pbc_state' \in {"PKG_FIRST", "PKG_SECOND", "LAST"} /\ metaLoaded' \in BOOLEAN
          /\ Splitting(z, T, rq, pk, tok, P, i1, R)'
      BY <2>4, <2>8, <2>9, <3>0
    <3>4. SplitAt(z, T, rq, pk, tok, st, f, R, b, P, i1)'
      BY <1>1, <2>6, <3>1, <3>2, <3>3, SplitNext
    <3> QED BY <3>0, <3>4
  <2> QED BY <2>10
<1> QED BY <1>6, <1>7, <1>8

Joins(s, t, u) == s \o t = u

LEMMA JoinsSlices ==
  ASSUME NEW tok \in [Nat -> Byte], NEW x \in Nat, NEW n \in Nat, NEW m \in Nat
  PROVE  Joins(Slice(tok, x, n), Slice(tok, x + n, m), Slice(tok, x, n + m))
  BY ConcatSlices DEF Joins

LEMMA ConcatAt ==
  ASSUME NEW tok \in [Nat -> Byte], NEW x \in Nat, NEW n \in Nat, NEW m \in Nat,
         NEW y \in Nat, NEW c \in Nat, x + n = y, c = n + m
  PROVE  Joins(Slice(tok, x, n), Slice(tok, y, m), Slice(tok, x, c))
<1>1. Joins(Slice(tok, x, n), Slice(tok, x + n, m), Slice(tok, x, n + m))
  BY JoinsSlices
<1> QED BY <1>1

(* The bytes that PKG_SECOND sends: the leftover, and the front of the     *)
(* word behind it.                                                         *)
LEMMA SecondBytes ==
  ASSUME PathAssumption, NEW tok \in [Nat -> Byte], NEW w \in Nat, NEW k \in Nat, NEW R \in Nat,
         k < WordSize, w + WordSize < R
  PROVE  LET i == w + WordSize
             n == Lesser(WordSize, R - i)
         IN  /\ Beyond(Slice(tok, w, WordSize), k) \o First(Slice(tok, i, n), k)
                  = Slice(tok, w + k, Lesser(WordSize, R - (w + k)))
             /\ n <= k <=> R - (w + k) <= WordSize
<1>1. PICK W \in Nat \ {0}, i \in Nat, r \in Nat \ {0}, v \in Nat :
        W = WordSize /\ i = w + W /\ r = R - i /\ v = w + k
  <2>1. WordSize \in Nat \ {0}
    BY DEF PathAssumption
  <2>2. w + WordSize \in Nat /\ R - (w + WordSize) \in Nat \ {0} /\ w + k \in Nat
    BY <2>1
  <2> QED BY <2>1, <2>2
<1>2. R - v = (W - k) + r /\ k < W /\ W - k \in Nat /\ v + (W - k) = i
  BY <1>1
<1>3. PICK n : n = IF W <= r THEN W ELSE r
  OBVIOUS
<1>4. n \in Nat /\ n = Lesser(W, r)
  BY <1>3 DEF Lesser
<1>5. PICK l \in Nat : l = Lesser(k, n) /\ l = IF k <= n THEN k ELSE n
  BY <1>4 DEF Lesser
<1>6. n <= k <=> R - v <= W
  BY <1>2, <1>3
<1>7. (W - k) + l = Lesser(W, R - v)
  <2>1. CASE k <= r
    <3>1. k <= n /\ l = k
      BY <1>2, <1>3, <1>5, <2>1
    <3>2. W <= R - v /\ (W - k) + k = W
      BY <1>2, <2>1
    <3> QED BY <3>1, <3>2 DEF Lesser
  <2>2. CASE ~(k <= r)
    <3>1. n = r /\ l = r
      BY <1>2, <1>3, <1>5, <2>2
    <3>2. ~(W <= R - v) /\ R - v = (W - k) + r
      BY <1>2, <2>2
    <3> QED BY <3>1, <3>2 DEF Lesser
  <2> QED BY <2>1, <2>2
<1>8. Beyond(Slice(tok, w, W), k) = Slice(tok, w + k, W - k)
  <2>1. k <= W /\ W \in Nat
    BY <1>2
  <2> QED BY <2>1, BeyondSlice
<1>9. First(Slice(tok, i, n), k) = Slice(tok, i, l)
  <2>1. n \in Nat
    BY <1>4
  <2>2. First(Slice(tok, i, n), k) = Slice(tok, i, Lesser(k, n))
    BY <2>1, FirstSlice
  <2> QED BY <1>5, <2>2
<1>10. Joins(Slice(tok, v, W - k), Slice(tok, i, l), Slice(tok, v, (W - k) + l))
  <2>1. PICK a \in Nat, c \in Nat : a = W - k /\ v + a = i /\ c = a + l
    BY <1>2
  <2>2. v + a = i /\ c = a + l
    BY <2>1
  <2>3. Joins(Slice(tok, v, a), Slice(tok, i, l), Slice(tok, v, c))
    BY <2>2, ConcatAt
  <2> QED BY <2>1, <2>3
<1>11. Beyond(Slice(tok, w, W), k) \o First(Slice(tok, i, n), k) = Slice(tok, v, Lesser(W, R - v))
  BY <1>1, <1>7, <1>8, <1>9, <1>10 DEF Joins
<1> QED BY <1>1, <1>4, <1>6, <1>11

(* The word, and the state after it, of PKG_SECOND. *)
SecondWord(cw) ==
  IF meta.length \in Shift
  THEN [bytes |-> Beyond(prevWord, meta.length) \o First(cw.bytes, meta.length),
        last  |-> Len(cw.bytes) <= meta.length]
  ELSE cw
AfterSecond(last, inputLast) ==
  /\ metaLoaded' = (metaLoaded /\ ~last)
  /\ pbc_state' = CASE last -> "PKG_FIRST"
                    [] ~last /\ inputLast -> "LAST"
                    [] ~last /\ ~inputLast -> "PKG_SECOND"

(* PKG_SECOND sends the word of the second packet at o. *)
SecondSent(z, T, rq, pk, tok, f, m, o, i) ==
  /\ metaLoaded = TRUE /\ pbc_state = "PKG_SECOND" /\ o \in z .. T - 1 /\ i \in z .. T - 1
  /\ rq[o] = m /\ pk[o] = m /\ rq[i] = m
  /\ \/ \E w, n \in Nat : LeftoverAt(tok, o, i, m, w, n)
     \/ ~(meta.length \in Shift) /\ i = o
  /\ metaFifo' = metaFifo /\ meta' = meta
  /\ dataIn' \in Seq(DataWord) /\ dataOut' \in Seq(DataWord)
  /\ Queue(dataOut', WordAt(pk, tok), WordEnd(pk), z .. T - 1, f, WordEnd(pk)[o])
  /\ Queue(dataIn', WordAt(rq, tok), WordEnd(rq), z .. T - 1, WordEnd(rq)[i], T)
  /\ prevWord' = Slice(tok, i, Lesser(WordSize, m - i))
  /\ AfterSecond(m - o <= WordSize, m - i <= WordSize)

LEMMA SendSecond ==
  ASSUME PathAssumption, NEW z, NEW T, NEW rq, NEW pk, NEW tok, NEW st,
         Line(z, T, rq, pk, tok, st), NEW f, NEW m, NEW b, NEW o, NEW i,
         SplitAt(z, T, rq, pk, tok, st, f, m, b, o, i), PkgSecond
  PROVE  SecondSent(z, T, rq, pk, tok, f, m, o, i)
<1>1. /\ Queue(dataOut, WordAt(pk, tok), WordEnd(pk), z .. T - 1, f, o)
      /\ Queue(dataIn, WordAt(rq, tok), WordEnd(rq), z .. T - 1, i, T)
      /\ dataIn \in Seq(DataWord) /\ dataOut \in Seq(DataWord)
  BY DEF SplitAt, SplitTypes, Data
<1>2. /\ pbc_state = "PKG_SECOND" /\ dataIn # <<>> /\ dataIn' = Tail(dataIn)
      /\ metaFifo' = metaFifo /\ meta' = meta
  BY DEF PkgSecond
<1>3. metaLoaded = TRUE /\ SecondPacket(z, T, rq, pk, tok, o, i, m)
  BY <1>2 DEF SplitAt, Splitting
<1>4. /\ o \in z .. T - 1 /\ rq[o] = m /\ pk[o] = m
      /\ \/ \E w, n \in Nat : LeftoverAt(tok, o, i, m, w, n)
         \/ ~(meta.length \in Shift) /\ i = o
  BY <1>3 DEF SecondPacket
<1>5. o \in Nat /\ m \in Nat /\ o < m /\ T \in Nat /\ m <= T /\ tok \in [Nat -> Byte]
  <2>1. tok \in [Nat -> Byte]
    BY DEF Line
  <2>2. /\ T \in Nat /\ o \in Nat /\ rq[o] \in Nat /\ pk[o] \in Nat
        /\ o < pk[o] /\ rq[o] <= T
    BY <1>4, LineAt
  <2> QED BY <1>4, <2>1, <2>2
<1>6. PICK cw : cw = Head(dataIn)
  OBVIOUS
<1>7. /\ dataIn' \in Seq(DataWord) /\ i \in z .. T - 1
      /\ Queue(dataIn', WordAt(rq, tok), WordEnd(rq), z .. T - 1, WordEnd(rq)[i], T)
      /\ cw = [bytes |-> Slice(tok, i, Lesser(WordSize, rq[i] - i)), last |-> rq[i] - i <= WordSize]
  BY <1>1, <1>2, <1>6, ReadWord
<1>8. dataOut' = Append(dataOut, SecondWord(cw)) /\ prevWord' = cw.bytes
      /\ AfterSecond(SecondWord(cw).last, cw.last)
  BY <1>6, Zenon DEF PkgSecond, SecondWord, AfterSecond
<1>9. WordAt(pk, tok)[o] = [bytes |-> Slice(tok, o, Lesser(WordSize, m - o)), last |-> m - o <= WordSize]
  <2>1. pk[o] \in Nat /\ o < pk[o]
    BY <1>4, <1>5
  <2>2. WordAt(pk, tok)[o] = [bytes |-> Slice(tok, o, Lesser(WordSize, pk[o] - o)),
                              last |-> pk[o] - o <= WordSize]
    BY <1>5, <2>1, WordAtIs
  <2> QED BY <1>4, <2>2
<1>10. /\ rq[i] = m
       /\ SecondWord(cw) = [bytes |-> Slice(tok, o, Lesser(WordSize, m - o)), last |-> m - o <= WordSize]
  <2>1. CASE \E w, n \in Nat : LeftoverAt(tok, o, i, m, w, n)
    <3>1. PICK w \in Nat, n \in Nat : LeftoverAt(tok, o, i, m, w, n)
      BY <2>1
    <3>2. PICK k \in Nat, W \in Nat \ {0} :
            /\ k = meta.length /\ W = WordSize /\ k \in Shift /\ n = W /\ k < W
            /\ prevWord = Slice(tok, w, W) /\ i = w + W /\ o = w + k /\ i < m
      <4>1. /\ meta.length \in Shift /\ meta.length < n /\ prevWord = Slice(tok, w, n)
            /\ i = w + n /\ o = w + meta.length /\ i < m /\ n = WordSize
        BY <1>2, <3>1 DEF LeftoverAt
      <4>2. meta.length \in Nat
        BY DEF SplitAt, SplitTypes, Meta
      <4>3. WordSize \in Nat \ {0}
        BY DEF PathAssumption
      <4> QED BY <4>1, <4>2, <4>3
    <3>3. rq[i] = m
      <4>1. i \in Nat /\ o <= i /\ i < rq[o]
        BY <1>4, <3>2
      <4> QED BY <1>4, <4>1, LineWithin
    <3>4. PICK n1 \in Nat : n1 = Lesser(W, m - i)
      <4>1. m - i \in Nat
        BY <1>5, <3>2
      <4> QED BY <4>1 DEF Lesser
    <3>5. cw.bytes = Slice(tok, i, n1)
      <4>1. cw.bytes = Slice(tok, i, Lesser(WordSize, rq[i] - i))
        BY <1>7, Zenon
      <4> QED BY <3>2, <3>3, <3>4, <4>1
    <3>6. Len(cw.bytes) = n1
      <4>1. i \in Nat
        BY <3>2
      <4>2. Len(Slice(tok, i, n1)) = n1
        BY <1>5, <4>1, SliceSeq
      <4> QED BY <3>5, <4>2
    <3>7. /\ Beyond(Slice(tok, w, W), k) \o First(Slice(tok, i, n1), k)
               = Slice(tok, o, Lesser(W, m - o))
          /\ n1 <= k <=> m - o <= W
      <4>1. k < WordSize /\ w + WordSize < m
        BY <3>2
      <4>2. /\ Beyond(Slice(tok, w, WordSize), k)
                 \o First(Slice(tok, w + WordSize, Lesser(WordSize, m - (w + WordSize))), k)
                 = Slice(tok, w + k, Lesser(WordSize, m - (w + k)))
            /\ Lesser(WordSize, m - (w + WordSize)) <= k <=> m - (w + k) <= WordSize
        BY <1>5, <4>1, SecondBytes
      <4> QED BY <3>2, <3>4, <4>2
    <3>8. SecondWord(cw) = [bytes |-> Slice(tok, o, Lesser(W, m - o)), last |-> n1 <= k]
      BY <3>2, <3>5, <3>6, <3>7 DEF SecondWord
    <3>9. (n1 <= k) = (m - o <= W)
      BY <3>7
    <3> QED BY <3>2, <3>3, <3>8, <3>9
  <2>2. CASE ~(meta.length \in Shift) /\ i = o
    <3>1. SecondWord(cw) = cw /\ rq[i] = m
      BY <1>4, <2>2 DEF SecondWord
    <3> QED BY <1>7, <2>2, <3>1
  <2> QED BY <1>4, <2>1, <2>2
<1>11. dataOut' = Append(dataOut, WordAt(pk, tok)[o])
  BY <1>8, <1>9, <1>10
<1>12. /\ dataOut' \in Seq(DataWord)
       /\ Queue(dataOut', WordAt(pk, tok), WordEnd(pk), z .. T - 1, f, WordEnd(pk)[o])
  BY <1>1, <1>4, <1>11, SendWord
<1>13. SecondWord(cw).last = (m - o <= WordSize)
  <2>1. [bytes |-> Slice(tok, o, Lesser(WordSize, m - o)), last |-> m - o <= WordSize].last
          = (m - o <= WordSize)
    BY Zenon
  <2> QED BY <1>10, <2>1
<1>14. cw = [bytes |-> Slice(tok, i, Lesser(WordSize, m - i)), last |-> m - i <= WordSize]
  BY <1>7, <1>10
<1>15. cw.bytes = Slice(tok, i, Lesser(WordSize, m - i)) /\ cw.last = (m - i <= WordSize)
  BY <1>14, Zenon
<1>16. AfterSecond(m - o <= WordSize, m - i <= WordSize)
  BY <1>8, <1>13, <1>15, Zenon DEF AfterSecond
<1> QED BY <1>2, <1>3, <1>4, <1>7, <1>8, <1>10, <1>12, <1>15, <1>16 DEF SecondSent

LEMMA PkgSecondStep ==
  ASSUME PathAssumption, NEW z, NEW T, NEW rq, NEW pk, NEW tok, NEW st,
         Line(z, T, rq, pk, tok, st), NEW f, NEW m, NEW b, NEW o, NEW i,
         SplitAt(z, T, rq, pk, tok, st, f, m, b, o, i), PkgSecond
  PROVE  \E m1, o1, i1 : SplitAt(z, T, rq, pk, tok, st, f, m1, b, o1, i1)'
<1>0. SecondSent(z, T, rq, pk, tok, f, m, o, i)
  BY SendSecond
<1>1. /\ metaLoaded = TRUE /\ pbc_state = "PKG_SECOND" /\ o \in z .. T - 1 /\ i \in z .. T - 1
      /\ rq[o] = m /\ pk[o] = m /\ rq[i] = m
      /\ metaFifo' = metaFifo /\ meta' = meta
      /\ dataIn' \in Seq(DataWord) /\ dataOut' \in Seq(DataWord)
      /\ Queue(dataOut', WordAt(pk, tok), WordEnd(pk), z .. T - 1, f, WordEnd(pk)[o])
      /\ Queue(dataIn', WordAt(rq, tok), WordEnd(rq), z .. T - 1, WordEnd(rq)[i], T)
      /\ prevWord' = Slice(tok, i, Lesser(WordSize, m - i))
  BY <1>0 DEF SecondSent
<1>2. AfterSecond(m - o <= WordSize, m - i <= WordSize)
  BY <1>0 DEF SecondSent
<1>10. \/ \E w, n \in Nat : LeftoverAt(tok, o, i, m, w, n)
       \/ ~(meta.length \in Shift) /\ i = o
  BY <1>0 DEF SecondSent
<1>3. /\ metaFifo \in Seq(Meta) /\ meta \in Meta /\ Queue(metaFifo, MetaAt(rq, pk), rq, st, m, b)
  BY DEF SplitAt, SplitTypes
<1>4. PICK W \in Nat \ {0}, t \in Nat :
        W = WordSize /\ t = T /\ o \in Nat /\ i \in Nat /\ m \in Nat /\ o < m /\ i < m /\ m <= t
  <2>1. T \in Nat /\ o \in Nat /\ pk[o] \in Nat /\ o < pk[o] /\ rq[o] <= T
    BY <1>1, LineAt
  <2>2. i \in Nat /\ i < pk[i] /\ pk[i] <= rq[i] /\ pk[i] \in Nat /\ rq[i] \in Nat
    BY <1>1, LineAt
  <2>3. WordSize \in Nat \ {0}
    BY DEF PathAssumption
  <2>4. i < rq[i]
    BY <2>2
  <2> QED BY <1>1, <2>1, <2>2, <2>3, <2>4
<1>5. PICK o1 \in Nat, i1 \in Nat :
        /\ o1 = WordEnd(pk)[o] /\ i1 = WordEnd(rq)[i]
        /\ o1 = (IF o + W <= m THEN o + W ELSE m) /\ i1 = (IF i + W <= m THEN i + W ELSE m)
  <2>1. WordEnd(pk)[o] = Lesser(o + W, m) /\ WordEnd(rq)[i] = Lesser(i + W, m)
    BY <1>1, <1>4 DEF WordEnd
  <2> QED BY <1>4, <2>1 DEF Lesser
<1>6. {m, o1, i1} \subseteq 0 .. T
  BY <1>4, <1>5
<1>7. /\ Queue(metaFifo', MetaAt(rq, pk), rq, st, m, b)
      /\ Queue(dataOut', WordAt(pk, tok), WordEnd(pk), z .. T - 1, f, o1)
      /\ Queue(dataIn', WordAt(rq, tok), WordEnd(rq), z .. T - 1, i1, T)
      /\ metaFifo' \in Seq(Meta) /\ meta' \in Meta
  BY <1>1, <1>3, <1>5
<1>8. /\ Splitting(z, T, rq, pk, tok, o1, i1, m)'
      /\ pbc_state' \in {"PKG_FIRST", "PKG_SECOND", "LAST"} /\ metaLoaded' \in BOOLEAN
  <2>1. CASE m - o <= W
    <3>1. m - o <= WordSize
      BY <1>4, <2>1
    <3>2. pbc_state' = "PKG_FIRST" /\ metaLoaded' = FALSE
      BY <1>2, <3>1, Zenon DEF AfterSecond
    <3>3. o1 = m
      BY <1>4, <1>5, <2>1
    <3>4. i1 = m
      <4>1. m - i <= W
        <5>1. CASE \E w, n \in Nat : LeftoverAt(tok, o, i, m, w, n)
          <6>1. PICK w \in Nat, n \in Nat : LeftoverAt(tok, o, i, m, w, n)
            BY <5>1
          <6>2. i = w + n /\ o = w + meta.length /\ meta.length < n /\ meta.length \in Nat
            <7>1. i = w + n /\ o = w + meta.length /\ meta.length < n
              BY <6>1 DEF LeftoverAt
            <7> QED BY <1>3, <7>1 DEF Meta
          <6> QED BY <1>4, <2>1, <6>2
        <5>2. CASE ~(meta.length \in Shift) /\ i = o
          BY <2>1, <5>2
        <5> QED BY <1>10, <5>1, <5>2
      <4> QED BY <1>4, <1>5, <4>1
    <3> QED BY <3>2, <3>3, <3>4 DEF Splitting
  <2>2. CASE ~(m - o <= W)
    <3>1. ~(m - o <= WordSize) /\ o1 = o + W /\ o1 < m /\ o <= o1
      BY <1>4, <1>5, <2>2
    <3>2. metaLoaded' = TRUE
      BY <1>1, <1>2, <3>1, Zenon DEF AfterSecond
    <3>3. o1 \in z .. T - 1 /\ rq[o1] = m /\ pk[o1] = m
      <4>1. o1 < rq[o] /\ o1 < pk[o]
        BY <1>1, <3>1
      <4>2. o1 \in z .. T - 1 /\ rq[o1] = rq[o] /\ (o1 < pk[o] => pk[o1] = pk[o])
        BY <1>1, <3>1, <4>1, LineWithin
      <4> QED BY <1>1, <4>1, <4>2
    <3>4. /\ pbc_state' \in {"PKG_SECOND", "LAST"}
          /\ \/ \E w, n \in Nat : LeftoverAt(tok, o1, i1, m, w, n)'
             \/ pbc_state' = "PKG_SECOND" /\ ~(meta'.length \in Shift) /\ i1 = o1
      <4>1. CASE \E w, n \in Nat : LeftoverAt(tok, o, i, m, w, n)
        <5>1. PICK w \in Nat, n \in Nat : LeftoverAt(tok, o, i, m, w, n)
          BY <4>1
        <5>2. PICK k \in Nat : /\ k = meta.length /\ k \in Shift /\ n = W /\ k < W
                               /\ i = w + W /\ o = w + k
          <6>1. /\ meta.length \in Shift /\ meta.length < n
                /\ i = w + n /\ o = w + meta.length /\ n = WordSize
            BY <1>1, <5>1 DEF LeftoverAt
          <6>2. meta.length \in Nat
            BY <1>3 DEF Meta
          <6> QED BY <1>4, <6>1, <6>2
        <5>3. o1 = i + k /\ meta'.length = k
          BY <1>1, <3>1, <5>2
        <5>4. CASE m - i <= W
          <6>1. PICK n1 \in Nat : n1 = m - i /\ i1 = i + n1 /\ k < n1 /\ n1 <= W /\ i1 = m
            <7>1. m - i \in Nat /\ i + (m - i) = m /\ i1 = m
              BY <1>4, <1>5, <5>4
            <7>2. k < m - i
              <8>1. PICK x \in Nat, y \in Nat : x = i /\ y = m
                BY <1>4
              <8>2. ~(y - (w + k) <= W) /\ x = w + W
                BY <2>2, <5>2, <8>1
              <8>3. k < y - x
                BY <8>2
              <8> QED BY <8>1, <8>3
            <7> QED BY <5>4, <7>1, <7>2
          <6>2. prevWord' = Slice(tok, i, n1)
            <7>1. Lesser(W, m - i) = n1
              BY <5>4, <6>1 DEF Lesser
            <7> QED BY <1>1, <1>4, <7>1
          <6>3. pbc_state' = "LAST"
            <7>1. m - i <= WordSize
              BY <1>4, <5>4
            <7> QED BY <1>2, <3>1, <7>1, Zenon DEF AfterSecond
          <6>4. LeftoverAt(tok, o1, i1, m, i, n1)'
            BY <1>4, <5>2, <5>3, <6>1, <6>2, <6>3 DEF LeftoverAt
          <6> QED BY <1>4, <6>3, <6>4
        <5>5. CASE ~(m - i <= W)
          <6>1. i1 = i + W /\ i1 < m
            BY <1>4, <1>5, <5>5
          <6>2. prevWord' = Slice(tok, i, W)
            <7>1. Lesser(W, m - i) = W
              BY <1>4, <5>5 DEF Lesser
            <7> QED BY <1>1, <1>4, <7>1
          <6>3. pbc_state' = "PKG_SECOND"
            <7>1. ~(m - i <= WordSize)
              BY <1>4, <5>5
            <7> QED BY <1>2, <3>1, <7>1, Zenon DEF AfterSecond
          <6>4. W \in Nat /\ W <= W
            OBVIOUS
          <6>5. LeftoverAt(tok, o1, i1, m, i, W)'
            BY <1>4, <5>2, <5>3, <6>1, <6>2, <6>3, <6>4 DEF LeftoverAt
          <6> QED BY <1>4, <6>3, <6>4, <6>5
        <5> QED BY <5>4, <5>5
      <4>2. CASE ~(meta.length \in Shift) /\ i = o
        <5>1. i1 = o1
          BY <1>5, <4>2
        <5>2. ~(m - i <= WordSize)
          BY <3>1, <4>2
        <5>3. pbc_state' = "PKG_SECOND"
          BY <1>2, <3>1, <5>2, Zenon DEF AfterSecond
        <5> QED BY <1>1, <4>2, <5>1, <5>3
      <4> QED BY <1>10, <4>1, <4>2
    <3>5. SecondPacket(z, T, rq, pk, tok, o1, i1, m)'
      BY <3>3, <3>4 DEF SecondPacket
    <3> QED BY <3>2, <3>4, <3>5 DEF Splitting
  <2> QED BY <2>1, <2>2
<1>9. SplitAt(z, T, rq, pk, tok, st, f, m, b, o1, i1)'
  BY <1>1, <1>6, <1>7, <1>8, SplitNext
<1> QED BY <1>9

LEMMA PkgLastStep ==
  ASSUME PathAssumption, NEW z, NEW T, NEW rq, NEW pk, NEW tok, NEW st,
         Line(z, T, rq, pk, tok, st), NEW f, NEW m, NEW b, NEW o, NEW i,
         SplitAt(z, T, rq, pk, tok, st, f, m, b, o, i), PkgLast
  PROVE  \E m1, o1, i1 : SplitAt(z, T, rq, pk, tok, st, f, m1, b, o1, i1)'
<1>1. /\ Queue(dataOut, WordAt(pk, tok), WordEnd(pk), z .. T - 1, f, o)
      /\ Queue(dataIn, WordAt(rq, tok), WordEnd(rq), z .. T - 1, i, T)
      /\ dataIn \in Seq(DataWord) /\ dataOut \in Seq(DataWord)
      /\ metaFifo \in Seq(Meta) /\ meta \in Meta /\ Queue(metaFifo, MetaAt(rq, pk), rq, st, m, b)
  BY DEF SplitAt, SplitTypes, Data
<1>2. /\ pbc_state = "LAST" /\ dataIn' = dataIn /\ metaFifo' = metaFifo /\ meta' = meta
      /\ dataOut' = Append(dataOut, [bytes |-> Beyond(prevWord, meta.length), last |-> TRUE])
      /\ pbc_state' = "PKG_FIRST" /\ metaLoaded' = FALSE
  BY DEF PkgLast
<1>3. metaLoaded = TRUE /\ SecondPacket(z, T, rq, pk, tok, o, i, m)
  BY <1>2 DEF SplitAt, Splitting
<1>4. o \in z .. T - 1 /\ rq[o] = m /\ pk[o] = m
  BY <1>3 DEF SecondPacket
<1>5. PICK w \in Nat, n \in Nat : LeftoverAt(tok, o, i, m, w, n)
  BY <1>2, <1>3 DEF SecondPacket
<1>6. PICK k \in Nat, W \in Nat \ {0}, t \in Nat :
        /\ k = meta.length /\ W = WordSize /\ t = T /\ k < n /\ n <= W /\ prevWord = Slice(tok, w, n)
        /\ i = w + n /\ o = w + k /\ i = m /\ m <= t
  <2>1. /\ meta.length < n /\ prevWord = Slice(tok, w, n) /\ n <= WordSize
        /\ i = w + n /\ o = w + meta.length /\ i = m
    BY <1>2, <1>5 DEF LeftoverAt
  <2>2. meta.length \in Nat
    BY <1>1 DEF Meta
  <2>3. WordSize \in Nat \ {0}
    BY DEF PathAssumption
  <2>4. T \in Nat /\ rq[o] <= T
    BY <1>4, LineAt
  <2> QED BY <1>4, <2>1, <2>2, <2>3, <2>4
<1>7. tok \in [Nat -> Byte]
  BY DEF Line
<1>8. o \in Nat /\ m \in Nat /\ o < m /\ m - o = n - k /\ m - o <= W /\ i \in Nat
  <2>1. PICK x \in Nat, y \in Nat : x = w + k /\ y = w + n
    OBVIOUS
  <2>4. k < n /\ n <= W
    BY <1>6
  <2>2. x < y /\ y - x = n - k /\ y - x <= W
    BY <2>1, <2>4
  <2>3. o = x /\ m = y /\ i = y
    BY <1>6, <2>1
  <2> QED BY <2>2, <2>3
<1>9. Beyond(prevWord, meta.length) = Slice(tok, o, m - o)
  <2>1. k <= n
    BY <1>6
  <2>2. Beyond(Slice(tok, w, n), k) = Slice(tok, w + k, n - k)
    BY <1>7, <2>1, BeyondSlice
  <2> QED BY <1>6, <1>8, <2>2
<1>10. WordAt(pk, tok)[o] = [bytes |-> Beyond(prevWord, meta.length), last |-> TRUE]
  <2>1. pk[o] \in Nat /\ o < pk[o]
    BY <1>4, <1>8
  <2>2. WordAt(pk, tok)[o] = [bytes |-> Slice(tok, o, Lesser(WordSize, pk[o] - o)),
                              last |-> pk[o] - o <= WordSize]
    <3>1. o \in Nat
      BY <1>8
    <3> QED BY <1>7, <2>1, <3>1, WordAtIs
  <2>30. PICK r : r = m - o
    OBVIOUS
  <2>31. r <= WordSize
    BY <1>6, <1>8, <2>30
  <2>3. Lesser(WordSize, m - o) = m - o
    <3>1. r \in Nat /\ WordSize \in Nat
      <4>1. PICK x \in Nat, y \in Nat : x = o /\ y = m /\ x < y
        BY <1>8
      <4>2. y - x \in Nat
        BY <4>1
      <4> QED BY <1>6, <2>30, <4>1, <4>2
    <3>2. Lesser(WordSize, r) = r
      BY <2>31, <3>1 DEF Lesser
    <3> QED BY <2>30, <3>2, Zenon
  <2>4. (m - o <= WordSize) = TRUE
    BY <2>30, <2>31, Zenon
  <2> QED BY <1>4, <1>9, <2>2, <2>3, <2>4
<1>11. /\ dataOut' \in Seq(DataWord)
       /\ Queue(dataOut', WordAt(pk, tok), WordEnd(pk), z .. T - 1, f, WordEnd(pk)[o])
  <2>1. dataOut' = Append(dataOut, WordAt(pk, tok)[o])
    BY <1>2, <1>10
  <2> QED BY <1>1, <1>4, <2>1, SendWord
<1>12. WordEnd(pk)[o] = m
  <2>1. WordEnd(pk)[o] = Lesser(o + W, m)
    BY <1>4, <1>6, <1>8 DEF WordEnd
  <2> QED BY <1>8, <2>1 DEF Lesser
<1>13. Splitting(z, T, rq, pk, tok, m, m, m)'
  BY <1>2 DEF Splitting
<1>14. SplitAt(z, T, rq, pk, tok, st, f, m, b, m, m)'
  <2>1. {m, m, m} \subseteq 0 .. T
    BY <1>6, <1>8
  <2>2. /\ Queue(metaFifo', MetaAt(rq, pk), rq, st, m, b)
        /\ Queue(dataOut', WordAt(pk, tok), WordEnd(pk), z .. T - 1, f, m)
        /\ Queue(dataIn', WordAt(rq, tok), WordEnd(rq), z .. T - 1, m, T)
        /\ metaFifo' \in Seq(Meta) /\ meta' \in Meta /\ dataIn' \in Seq(DataWord)
    BY <1>1, <1>2, <1>6, <1>11, <1>12
  <2>3. pbc_state' \in {"PKG_FIRST", "PKG_SECOND", "LAST"} /\ metaLoaded' \in BOOLEAN
    BY <1>2
  <2> QED BY <1>11, <1>13, <2>1, <2>2, <2>3, SplitNext
<1> QED BY <1>14

(* What the positions mean changes with the mapping only. *)
LEMMA SameMapping ==
  ASSUME mapping' = mapping, NEW z, NEW T, NEW rq, NEW pk, NEW tok, NEW st
  PROVE  /\ InPages(z, T, rq, pk, tok, st)' = InPages(z, T, rq, pk, tok, st)
         /\ OffsetAt(rq, tok)' = OffsetAt(rq, tok) /\ MovedAt(pk, tok)' = MovedAt(pk, tok)
<1>1. \A v : OffsetOf(v)' = OffsetOf(v)
  BY DEF OffsetOf
<1>2. \A c : InBuffer(c)' = InBuffer(c) /\ Moved(c)' = Moved(c)
  BY DEF InBuffer, Moved, Memory!Translate
<1>3. OffsetAt(rq, tok)' = OffsetAt(rq, tok)
  BY <1>1, Zenon DEF OffsetAt
<1>4. MovedAt(pk, tok)' = MovedAt(pk, tok)
  BY <1>2, Zenon DEF MovedAt
<1>5. \A x : CutAt(x, rq, pk, tok)' = CutAt(x, rq, pk, tok)
  BY <1>1, Zenon DEF CutAt
<1>6. InPages(z, T, rq, pk, tok, st)' = InPages(z, T, rq, pk, tok, st)
  BY <1>2, <1>5, Zenon DEF InPages
<1> QED BY <1>3, <1>4, <1>6

(* The parts of the invariant that a step does not touch. *)
LEMMA SameCommands ==
  ASSUME NEW z, NEW T, NEW rq, NEW pk, NEW tok, NEW st, NEW m, NEW b, NEW c,
         Commands(T, rq, pk, tok, st, m, b, c), mapping' = mapping,
         cmdIn' = cmdIn, pageOffsetFifo' = pageOffsetFifo, metaFifo' = metaFifo
  PROVE  Commands(T, rq, pk, tok, st, m, b, c)'
<1>1. OffsetAt(rq, tok)' = OffsetAt(rq, tok)
  BY SameMapping
<1> QED BY <1>1 DEF Commands

LEMMA SamePackets ==
  ASSUME NEW z, NEW T, NEW pk, NEW tok, NEW d, NEW d1, NEW d2, NEW e,
         Packets(z, T, pk, tok, d, d1, d2, e), mapping' = mapping,
         c2hDsc' = c2hDsc, dmaWriteCmd' = dmaWriteCmd, cmdOut' = cmdOut
  PROVE  Packets(z, T, pk, tok, d, d1, d2, e)'
<1>1. MovedAt(pk, tok)' = MovedAt(pk, tok)
  BY SameMapping
<1> QED BY <1>1 DEF Packets

LEMMA SameChecking ==
  ASSUME NEW z, NEW T, NEW pk, NEW tok, NEW e, NEW b, Checking(z, T, pk, tok, e, b),
         bc_state' = bc_state, cmd' = cmd
  PROVE  Checking(z, T, pk, tok, e, b)'
  BY DEF Checking

LEMMA SameMoving ==
  ASSUME NEW z, NEW T, NEW pk, NEW d, NEW f, Moving(z, T, pk, d, f), c2hDone' = c2hDone
  PROVE  Moving(z, T, pk, d, f)'
  BY DEF Moving

LEMMA SameData ==
  ASSUME NEW z, NEW T, NEW rq, NEW pk, NEW tok, NEW f, NEW o, NEW i,
         Data(z, T, rq, pk, tok, f, o, i), dataIn' = dataIn, dataOut' = dataOut
  PROVE  Data(z, T, rq, pk, tok, f, o, i)'
  BY DEF Data

LEMMA SameSplitting ==
  ASSUME NEW z, NEW T, NEW rq, NEW pk, NEW tok, NEW o, NEW i, NEW m,
         Splitting(z, T, rq, pk, tok, o, i, m),
         pbc_state' = pbc_state, metaLoaded' = metaLoaded, meta' = meta, prevWord' = prevWord
  PROVE  Splitting(z, T, rq, pk, tok, o, i, m)'
<1>1. \A w, n : LeftoverAt(tok, o, i, m, w, n)' = LeftoverAt(tok, o, i, m, w, n)
  BY DEF LeftoverAt
<1>2. SecondPacket(z, T, rq, pk, tok, o, i, m)' = SecondPacket(z, T, rq, pk, tok, o, i, m)
  BY <1>1, Zenon DEF SecondPacket
<1>3. FirstPacket(z, T, rq, pk, o, i, m)' = FirstPacket(z, T, rq, pk, o, i, m)
  BY DEF FirstPacket
<1> QED BY <1>2, <1>3 DEF Splitting

(* A step of pkg_split. *)
LEMMA SplitStepKeeps ==
  ASSUME PathAssumption, WriteTypes, NEW z, NEW T, NEW rq, NEW pk, NEW tok, NEW st, NEW f,
         WritesAt(z, T, rq, pk, tok, st, f), SplitStep
  PROVE  WriteTypes' /\ WritesAt(z, T, rq, pk, tok, st, f)'
<1>1. PICK m, b, c, e, d, d1, d2, o, i : At(z, T, rq, pk, tok, st, f, m, b, c, e, d, d1, d2, o, i)
  BY DEF WritesAt
<1>2. /\ mapping' = mapping /\ tlbInterface' = tlbInterface /\ dmaWriteCmd' = dmaWriteCmd
      /\ c2hDsc' = c2hDsc /\ c2hDone' = c2hDone /\ requests' = requests
  BY DEF SplitStep, tlbVars, writeVars, envVars
<1>3. /\ cmdIn' = cmdIn /\ cmdOut' = cmdOut /\ pageOffsetFifo' = pageOffsetFifo
      /\ bc_state' = bc_state /\ cmd' = cmd
  BY DEF SplitStep, PkgSplit, PkgFirst, PkgSecond, PkgLast
<1>4. Line(z, T, rq, pk, tok, st) /\ InPages(z, T, rq, pk, tok, st)
  BY <1>1 DEF At
<1>5. SplitAt(z, T, rq, pk, tok, st, f, m, b, o, i)
  <2>1. SplitTypes
    BY DEF WriteTypes, SplitTypes
  <2>2. /\ Queue(metaFifo, MetaAt(rq, pk), rq, st, m, b)
        /\ Data(z, T, rq, pk, tok, f, o, i) /\ Splitting(z, T, rq, pk, tok, o, i, m)
        /\ {m, o, i} \subseteq 0 .. T
    BY <1>1 DEF At, Commands
  <2> QED BY <2>1, <2>2 DEF SplitAt
<1>6. PICK m1, o1, i1 : SplitAt(z, T, rq, pk, tok, st, f, m1, b, o1, i1)'
  <2>1. CASE PkgFirst
    BY <1>4, <1>5, <2>1, PkgFirstStep
  <2>2. CASE PkgSecond
    BY <1>4, <1>5, <2>2, PkgSecondStep
  <2>3. CASE PkgLast
    BY <1>4, <1>5, <2>3, PkgLastStep
  <2> QED BY <2>1, <2>2, <2>3 DEF SplitStep, PkgSplit
<1>7. /\ SplitTypes' /\ Queue(metaFifo', MetaAt(rq, pk), rq, st, m1, b)
      /\ Data(z, T, rq, pk, tok, f, o1, i1)' /\ Splitting(z, T, rq, pk, tok, o1, i1, m1)'
      /\ {m1, o1, i1} \subseteq 0 .. T
  BY <1>6 DEF SplitAt
<1>8. WriteTypes'
  BY <1>2, <1>3, <1>7 DEF WriteTypes, SplitTypes
<1>9. InPages(z, T, rq, pk, tok, st)' /\ OffsetAt(rq, tok)' = OffsetAt(rq, tok)
  BY <1>2, <1>4, SameMapping
<1>10. Commands(T, rq, pk, tok, st, m1, b, c)'
  <2>1. Queue(cmdIn, CmdAt(rq, tok), rq, st, c, T) /\ Queue(pageOffsetFifo, OffsetAt(rq, tok), rq, st, b, c)
    BY <1>1 DEF At, Commands
  <2> QED BY <1>3, <1>7, <1>9, <2>1 DEF Commands
<1>11. Packets(z, T, pk, tok, d, d1, d2, e)'
  <2>1. Packets(z, T, pk, tok, d, d1, d2, e)
    BY <1>1 DEF At
  <2> QED BY <1>2, <1>3, <2>1, SamePackets
<1>12. Checking(z, T, pk, tok, e, b)' /\ Moving(z, T, pk, d, f)'
  <2>1. Checking(z, T, pk, tok, e, b) /\ Moving(z, T, pk, d, f)
    BY <1>1 DEF At
  <2> QED BY <1>2, <1>3, <2>1, SameChecking, SameMoving
<1>13. {f, m1, b, c, e, d, d1, d2, o1, i1} \subseteq 0 .. T /\ (tlbInterface' # <<>> => z = T)
  <2>1. {f, m, b, c, e, d, d1, d2, o, i} \subseteq 0 .. T /\ (tlbInterface # <<>> => z = T)
    BY <1>1 DEF At
  <2> QED BY <1>2, <1>7, <2>1
<1>14. At(z, T, rq, pk, tok, st, f, m1, b, c, e, d, d1, d2, o1, i1)'
  BY <1>4, <1>7, <1>9, <1>10, <1>11, <1>12, <1>13 DEF At
<1> QED BY <1>8, <1>14 DEF WritesAt

LEMMA CmdAtIs ==
  ASSUME NEW tok \in [Nat -> Byte], NEW x \in Nat, NEW e, e[x] \in Nat, x < e[x]
  PROVE  /\ CmdAt(e, tok)[x] = [addr |-> tok[x].vaddr, len |-> e[x] - x]
         /\ CmdAt(e, tok)[x] \in Cmd
         /\ CmdAt(e, tok)[x].addr = tok[x].vaddr /\ CmdAt(e, tok)[x].len = e[x] - x
<1>1. tok[x].vaddr \in Nat /\ e[x] - x \in Nat
  BY DEF Byte
<1>2. CmdAt(e, tok)[x] = [addr |-> tok[x].vaddr, len |-> e[x] - x]
  BY DEF CmdAt
<1>3. CmdAt(e, tok)[x] \in Cmd
  BY <1>1, <1>2 DEF Cmd
<1> QED BY <1>2, <1>3

LEMMA OffsetAtIs ==
  ASSUME PathAssumption, MappingOK,
         NEW tok \in [Nat -> Byte], NEW x \in Nat, NEW rq, rq[x] \in Nat, x < rq[x]
  PROVE  /\ OffsetAt(rq, tok)[x] = [addr |-> tok[x].vaddr, len |-> rq[x] - x,
                                    page_offset |-> OffsetOf(tok[x].vaddr)]
         /\ OffsetAt(rq, tok)[x] \in Offset /\ OffsetOf(tok[x].vaddr) \in 0 .. PageSize - 1
<1>1. tok[x].vaddr \in Nat /\ rq[x] - x \in Nat
  <2>1. CmdAt(rq, tok)[x] \in Cmd /\ CmdAt(rq, tok)[x] = [addr |-> tok[x].vaddr, len |-> rq[x] - x]
    BY CmdAtIs
  <2> QED BY <2>1 DEF Cmd
<1>2. OffsetAt(rq, tok)[x] = [addr |-> tok[x].vaddr, len |-> rq[x] - x,
                              page_offset |-> OffsetOf(tok[x].vaddr)]
  BY DEF OffsetAt
<1>3. OffsetOf(tok[x].vaddr) \in 0 .. PageSize - 1
  <2>0. PageSize \in Nat \ {0} /\ mapping.base \in Nat
    BY DEF PathAssumption, MappingOK
  <2>3. PICK v \in Nat : v = tok[x].vaddr
    BY <1>1
  <2>1. PICK P \in Nat \ {0}, a \in Int : P = PageSize /\ a = v - mapping.base
    <3>1. v - mapping.base \in Int
      BY <2>0
    <3> QED BY <2>0, <3>1
  <2>2. a % P \in 0 .. P - 1
    OBVIOUS
  <2> QED BY <2>1, <2>2, <2>3 DEF OffsetOf
<1>4. OffsetAt(rq, tok)[x] \in Offset
  BY <1>1, <1>2, <1>3 DEF Offset
<1> QED BY <1>2, <1>3, <1>4

(* What a step of the command pipeline leaves alone. *)
dataPart == <<dataIn, dataOut, pbc_state, meta, metaLoaded, prevWord>>

LEMMA SameDataPart ==
  ASSUME NEW z, NEW T, NEW rq, NEW pk, NEW tok, NEW f, NEW o, NEW i, NEW m,
         Data(z, T, rq, pk, tok, f, o, i), Splitting(z, T, rq, pk, tok, o, i, m), UNCHANGED dataPart
  PROVE  Data(z, T, rq, pk, tok, f, o, i)' /\ Splitting(z, T, rq, pk, tok, o, i, m)'
<1>1. /\ dataIn' = dataIn /\ dataOut' = dataOut /\ pbc_state' = pbc_state /\ metaLoaded' = metaLoaded
      /\ meta' = meta /\ prevWord' = prevWord
  BY DEF dataPart
<1> QED BY <1>1, SameData, SameSplitting

(* calculate_page_offset: the base it counts from begins a page. *)
LEMMA CalculateStepKeeps ==
  ASSUME PathAssumption, MappingOK, BasesAtPages, WriteTypes,
         NEW z, NEW T, NEW rq, NEW pk, NEW tok, NEW st, NEW f,
         WritesAt(z, T, rq, pk, tok, st, f), CheckStep, CalculatePageOffset(regBaseVaddrBoundCheck)
  PROVE  WriteTypes' /\ WritesAt(z, T, rq, pk, tok, st, f)'
<1>1. PICK m, b, c, e, d, d1, d2, o, i : At(z, T, rq, pk, tok, st, f, m, b, c, e, d, d1, d2, o, i)
  BY DEF WritesAt
<1>2. /\ mapping' = mapping /\ tlbInterface' = tlbInterface /\ dmaWriteCmd' = dmaWriteCmd
      /\ c2hDsc' = c2hDsc /\ c2hDone' = c2hDone /\ requests' = requests
  BY DEF CheckStep, tlbVars, writeVars, envVars
<1>3. /\ UNCHANGED dataPart /\ cmdOut' = cmdOut /\ metaFifo' = metaFifo
      /\ bc_state' = bc_state /\ cmd' = cmd
      /\ cmdIn # <<>> /\ cmdIn' = Tail(cmdIn)
      /\ pageOffsetFifo' =
           Append(pageOffsetFifo, [addr |-> Head(cmdIn).addr, len |-> Head(cmdIn).len,
                    page_offset |-> (Head(cmdIn).addr - regBaseVaddrBoundCheck) % PageSize])
  BY DEF CalculatePageOffset, splitVars, dataPart
<1>4. /\ Line(z, T, rq, pk, tok, st) /\ InPages(z, T, rq, pk, tok, st)
      /\ Commands(T, rq, pk, tok, st, m, b, c) /\ Checking(z, T, pk, tok, e, b)
      /\ Packets(z, T, pk, tok, d, d1, d2, e) /\ Moving(z, T, pk, d, f)
      /\ Data(z, T, rq, pk, tok, f, o, i) /\ Splitting(z, T, rq, pk, tok, o, i, m)
      /\ {f, m, b, c, e, d, d1, d2, o, i} \subseteq 0 .. T /\ (tlbInterface # <<>> => z = T)
  BY <1>1 DEF At
<1>5. /\ cmdIn' \in Seq(Cmd) /\ Queue(cmdIn', CmdAt(rq, tok), rq, st, rq[c], T)
      /\ c \in st /\ Head(cmdIn) = CmdAt(rq, tok)[c]
  <2>1. PICK K, S, s : K = CmdAt(rq, tok) /\ S = Cmd /\ s = cmdIn
    OBVIOUS
  <2>2. s \in Seq(S) /\ s # <<>> /\ Queue(s, K, rq, st, c, T)
    BY <1>3, <1>4, <2>1 DEF Commands, WriteTypes
  <2>3. Tail(s) \in Seq(S) /\ Queue(Tail(s), K, rq, st, rq[c], T) /\ c \in st /\ Head(s) = K[c]
    BY <2>2, PopQueue
  <2> QED BY <1>3, <2>1, <2>3
<1>6. /\ c \in z .. T - 1 /\ c \in Nat /\ rq[c] \in Nat /\ c < rq[c] /\ rq[c] \in 0 .. T
      /\ tok \in [Nat -> Byte] /\ tok[c].vaddr \in Nat
  <2>1. c \in z .. T - 1 /\ tok \in [Nat -> Byte]
    BY <1>4, <1>5 DEF Line
  <2>2. /\ T \in Nat /\ c \in Nat /\ rq[c] \in Nat /\ pk[c] \in Nat /\ c < pk[c] /\ pk[c] <= rq[c]
        /\ rq[c] <= T /\ tok[c].vaddr \in Nat
    BY <1>4, <2>1, LineAt
  <2> QED BY <2>1, <2>2
<1>7. Head(cmdIn).addr = tok[c].vaddr /\ Head(cmdIn).len = rq[c] - c
  <2>2. tok \in [Nat -> Byte] /\ c \in Nat /\ rq[c] \in Nat /\ c < rq[c]
    BY <1>6
  <2>1. CmdAt(rq, tok)[c].addr = tok[c].vaddr /\ CmdAt(rq, tok)[c].len = rq[c] - c
    <3>1. CmdAt(rq, tok)[c] = [addr |-> tok[c].vaddr, len |-> rq[c] - c]
      BY <2>2, CmdAtIs
    <3> QED BY <3>1
  <2> QED BY <1>5, <2>1
<1>8. (tok[c].vaddr - regBaseVaddrBoundCheck) % PageSize = OffsetOf(tok[c].vaddr)
  <2>1. PICK P \in Nat \ {0}, a \in Int, u \in Int, v \in Int :
          /\ P = PageSize /\ a = tok[c].vaddr /\ u = regBaseVaddrBoundCheck /\ v = mapping.base
          /\ u % P = 0 /\ v % P = 0
    BY <1>6 DEF PathAssumption, MappingOK, BasesAtPages
  <2>2. (a - u) % P = (a - v) % P
    BY <2>1, SameOffset
  <2> QED BY <2>1, <2>2 DEF OffsetOf
<1>9. /\ OffsetAt(rq, tok)[c] = [addr |-> tok[c].vaddr, len |-> rq[c] - c,
                                 page_offset |-> OffsetOf(tok[c].vaddr)]
      /\ OffsetAt(rq, tok)[c] \in Offset
  BY <1>6, OffsetAtIs
<1>10. pageOffsetFifo' = Append(pageOffsetFifo, OffsetAt(rq, tok)[c])
  BY <1>3, <1>7, <1>8, <1>9
<1>11. /\ pageOffsetFifo' \in Seq(Offset)
       /\ Queue(pageOffsetFifo', OffsetAt(rq, tok), rq, st, b, rq[c])
  <2>1. PICK K, S, s : K = OffsetAt(rq, tok) /\ S = Offset /\ s = pageOffsetFifo
    OBVIOUS
  <2>2. s \in Seq(S) /\ Queue(s, K, rq, st, b, c) /\ c \in st /\ rq[c] \in Nat /\ K[c] \in S
    BY <1>4, <1>5, <1>6, <1>9, <2>1 DEF Commands, WriteTypes
  <2>3. Append(s, K[c]) \in Seq(S) /\ Queue(Append(s, K[c]), K, rq, st, b, rq[c])
    BY <2>2, PushQueue
  <2> QED BY <1>10, <2>1, <2>3
<1>12. WriteTypes'
  BY <1>2, <1>3, <1>5, <1>11 DEF WriteTypes, dataPart
<1>13. InPages(z, T, rq, pk, tok, st)' /\ OffsetAt(rq, tok)' = OffsetAt(rq, tok)
  BY <1>2, <1>4, SameMapping
<1>14. Commands(T, rq, pk, tok, st, m, b, rq[c])'
  BY <1>3, <1>4, <1>5, <1>11, <1>13 DEF Commands
<1>15. Packets(z, T, pk, tok, d, d1, d2, e)'
  BY <1>2, <1>3, <1>4, SamePackets
<1>16. Checking(z, T, pk, tok, e, b)' /\ Moving(z, T, pk, d, f)'
  BY <1>2, <1>3, <1>4, SameChecking, SameMoving
<1>17. Data(z, T, rq, pk, tok, f, o, i)' /\ Splitting(z, T, rq, pk, tok, o, i, m)'
  BY <1>3, <1>4, SameDataPart
<1>18. {f, m, b, rq[c], e, d, d1, d2, o, i} \subseteq 0 .. T /\ (tlbInterface' # <<>> => z = T)
  BY <1>2, <1>4, <1>6
<1>19. At(z, T, rq, pk, tok, st, f, m, b, rq[c], e, d, d1, d2, o, i)'
  BY <1>4, <1>13, <1>14, <1>15, <1>16, <1>17, <1>18 DEF At
<1> QED BY <1>12, <1>19 DEF WritesAt

-----------------------------------------------------------------------------
(* boundary_check *)

(* The part of a command up to the boundary is the packet of its bytes. *)
LEMMA CutCommand ==
  ASSUME NEW P \in Nat \ {0}, NEW b \in Nat, NEW p \in Nat, NEW R \in Nat, b < p, p <= R,
         NEW off \in 0 .. P - 1,
         p = IF off + (R - b) > P THEN b + (P - off) ELSE R
  PROVE  /\ (off + (R - b) > P) <=> p < R
         /\ (IF off + (R - b) > P THEN P - off ELSE R - b) = p - b
<1>1. CASE off + (R - b) > P
  <2>1. p = b + (P - off)
    BY <1>1
  <2>2. p < R /\ P - off = p - b
    BY <1>1, <2>1
  <2> QED BY <1>1, <2>2
<1>2. CASE ~(off + (R - b) > P)
  <2>1. p = R
    BY <1>2
  <2> QED BY <1>2, <2>1
<1> QED BY <1>1, <1>2

(* boundary_check sends a command of the packet at b. *)
LEMMA CheckedCommand ==
  ASSUME PathAssumption, MappingOK, NEW z, NEW T, NEW rq, NEW pk, NEW tok, NEW st,
         Line(z, T, rq, pk, tok, st), InPages(z, T, rq, pk, tok, st), NEW b \in st,
         NEW c, c = OffsetAt(rq, tok)[b]
  PROVE  /\ Crosses(c) <=> pk[b] < rq[b]
         /\ (IF Crosses(c) THEN PageSize - c.page_offset ELSE c.len) = pk[b] - b
         /\ c.addr = tok[b].vaddr /\ c.len = rq[b] - b
         /\ b \in z .. T - 1
<1>1. b \in z .. T - 1 /\ tok \in [Nat -> Byte]
  BY DEF Line
<1>2. /\ T \in Nat /\ b \in Nat /\ rq[b] \in Nat /\ pk[b] \in Nat /\ b < pk[b] /\ pk[b] <= rq[b]
  BY <1>1, LineAt
<1>3. /\ c = [addr |-> tok[b].vaddr, len |-> rq[b] - b, page_offset |-> OffsetOf(tok[b].vaddr)]
      /\ OffsetOf(tok[b].vaddr) \in 0 .. PageSize - 1
  <2>1. b < rq[b] /\ b \in Nat /\ rq[b] \in Nat
    BY <1>2
  <2> QED BY <1>1, <2>1, OffsetAtIs
<1>4. c.addr = tok[b].vaddr /\ c.len = rq[b] - b /\ c.page_offset = OffsetOf(tok[b].vaddr)
  BY <1>3
<1>5. CutAt(b, rq, pk, tok)
  BY DEF InPages
<1>a. PICK P \in Nat \ {0}, p \in Nat, R \in Nat, off \in 0 .. PageSize - 1 :
        P = PageSize /\ p = pk[b] /\ R = rq[b] /\ off = OffsetOf(tok[b].vaddr)
  <2>1. PageSize \in Nat \ {0}
    BY DEF PathAssumption
  <2> QED BY <1>2, <1>3, <2>1, Zenon
<1>6. /\ P = PageSize /\ p = pk[b] /\ R = rq[b] /\ off = OffsetOf(tok[b].vaddr)
      /\ b < p /\ p <= R /\ p = IF off + (R - b) > P THEN b + (P - off) ELSE R
  <2>1. pk[b] = IF OffsetOf(tok[b].vaddr) + (rq[b] - b) > PageSize
                THEN b + (PageSize - OffsetOf(tok[b].vaddr)) ELSE rq[b]
    BY <1>5, Zenon DEF CutAt
  <2>2. p = IF off + (R - b) > P THEN b + (P - off) ELSE R
    BY <1>a, <2>1, Zenon
  <2> QED BY <1>2, <1>a, <2>2
<1>7. /\ (off + (R - b) > P) <=> p < R
      /\ (IF off + (R - b) > P THEN P - off ELSE R - b) = p - b
  <2>1. /\ b \in Nat /\ b < p /\ p <= R /\ p = IF off + (R - b) > P THEN b + (P - off) ELSE R
        /\ off \in 0 .. P - 1
    BY <1>2, <1>6
  <2> QED BY <2>1, CutCommand
<1>8. Crosses(c) <=> off + (R - b) > P
  BY <1>4, <1>6 DEF Crosses
<1> QED BY <1>1, <1>4, <1>6, <1>7, <1>8

LEMMA BoundaryCheckCmdKeeps ==
  ASSUME PathAssumption, MappingOK, WriteTypes,
         NEW z, NEW T, NEW rq, NEW pk, NEW tok, NEW st, NEW f,
         WritesAt(z, T, rq, pk, tok, st, f), CheckStep, BoundaryCheckCmd
  PROVE  WriteTypes' /\ WritesAt(z, T, rq, pk, tok, st, f)'
<1>1. PICK m, b, c, e, d, d1, d2, o, i : At(z, T, rq, pk, tok, st, f, m, b, c, e, d, d1, d2, o, i)
  BY DEF WritesAt
<1>2. /\ mapping' = mapping /\ tlbInterface' = tlbInterface /\ dmaWriteCmd' = dmaWriteCmd
      /\ c2hDsc' = c2hDsc /\ c2hDone' = c2hDone /\ requests' = requests
  BY DEF CheckStep, tlbVars, writeVars, envVars
<1>4. /\ Line(z, T, rq, pk, tok, st) /\ InPages(z, T, rq, pk, tok, st)
      /\ Commands(T, rq, pk, tok, st, m, b, c) /\ Checking(z, T, pk, tok, e, b)
      /\ Packets(z, T, pk, tok, d, d1, d2, e) /\ Moving(z, T, pk, d, f)
      /\ Data(z, T, rq, pk, tok, f, o, i) /\ Splitting(z, T, rq, pk, tok, o, i, m)
      /\ {f, m, b, c, e, d, d1, d2, o, i} \subseteq 0 .. T /\ (tlbInterface # <<>> => z = T)
  BY <1>1 DEF At
<1>3. PICK h, l : h = Head(pageOffsetFifo)
                  /\ l = IF Crosses(h) THEN PageSize - h.page_offset ELSE h.len
  OBVIOUS
<1>5. /\ UNCHANGED dataPart /\ cmdIn' = cmdIn /\ bc_state = "CMD" /\ pageOffsetFifo # <<>>
      /\ pageOffsetFifo' = Tail(pageOffsetFifo)
      /\ cmdOut' = Append(cmdOut, [addr |-> h.addr, len |-> l])
      /\ metaFifo' = Append(metaFifo, [length |-> l, isSplit |-> Crosses(h)])
      /\ cmd' = IF Crosses(h) THEN [addr |-> h.addr + l, len |-> h.len - l]
                              ELSE [addr |-> h.addr, len |-> h.len]
      /\ bc_state' = IF Crosses(h) THEN "CMD_SPLIT" ELSE "CMD"
  BY <1>3, Zenon DEF BoundaryCheckCmd, splitVars, dataPart
<1>6. e = b
  BY <1>4, <1>5 DEF Checking
<1>7. /\ pageOffsetFifo' \in Seq(Offset) /\ Queue(pageOffsetFifo', OffsetAt(rq, tok), rq, st, rq[b], c)
      /\ b \in st /\ h = OffsetAt(rq, tok)[b]
  <2>1. PICK K, S, s : K = OffsetAt(rq, tok) /\ S = Offset /\ s = pageOffsetFifo
    OBVIOUS
  <2>2. s \in Seq(S) /\ s # <<>> /\ Queue(s, K, rq, st, b, c)
    BY <1>4, <1>5, <2>1 DEF Commands, WriteTypes
  <2>3. Tail(s) \in Seq(S) /\ Queue(Tail(s), K, rq, st, rq[b], c) /\ b \in st /\ Head(s) = K[b]
    BY <2>2, PopQueue
  <2> QED BY <1>3, <1>5, <2>1, <2>3
<1>8. /\ Crosses(h) <=> pk[b] < rq[b]
      /\ l = pk[b] - b /\ h.addr = tok[b].vaddr /\ h.len = rq[b] - b
      /\ b \in z .. T - 1
  <2>1. /\ Crosses(h) <=> pk[b] < rq[b]
        /\ (IF Crosses(h) THEN PageSize - h.page_offset ELSE h.len) = pk[b] - b
        /\ h.addr = tok[b].vaddr /\ h.len = rq[b] - b
        /\ b \in z .. T - 1
    <3>1. Line(z, T, rq, pk, tok, st) /\ InPages(z, T, rq, pk, tok, st)
      BY <1>4
    <3>2. b \in st /\ h = OffsetAt(rq, tok)[b]
      BY <1>7
    <3> QED BY <3>1, <3>2, CheckedCommand
  <2> QED BY <1>3, <2>1, Zenon
<1>9. /\ b \in Nat /\ rq[b] \in Nat /\ pk[b] \in Nat /\ b < pk[b] /\ pk[b] <= rq[b]
      /\ rq[b] \in 0 .. T /\ pk[b] \in 0 .. T /\ tok \in [Nat -> Byte] /\ tok[b].vaddr \in Nat
  <2>1. tok \in [Nat -> Byte]
    BY <1>4 DEF Line
  <2>2. /\ T \in Nat /\ b \in Nat /\ rq[b] \in Nat /\ pk[b] \in Nat /\ b < pk[b] /\ pk[b] <= rq[b]
        /\ rq[b] <= T /\ tok[b].vaddr \in Nat
    BY <1>4, <1>8, LineAt
  <2> QED BY <2>1, <2>2
<1>10. /\ CmdAt(pk, tok)[b] = [addr |-> tok[b].vaddr, len |-> pk[b] - b]
       /\ CmdAt(pk, tok)[b] \in Cmd
  BY <1>9, CmdAtIs
<1>11. cmdOut' \in Seq(Cmd) /\ Queue(cmdOut', CmdAt(pk, tok), pk, z .. T - 1, d2, pk[b])
  <2>1. PICK K, S, s, G : K = CmdAt(pk, tok) /\ S = Cmd /\ s = cmdOut /\ G = z .. T - 1
    OBVIOUS
  <2>2. s \in Seq(S) /\ Queue(s, K, pk, G, d2, b) /\ b \in G /\ pk[b] \in Nat /\ K[b] \in S
    BY <1>4, <1>6, <1>8, <1>9, <1>10, <2>1 DEF Packets, WriteTypes
  <2>3. Append(s, K[b]) \in Seq(S) /\ Queue(Append(s, K[b]), K, pk, G, d2, pk[b])
    BY <2>2, PushQueue
  <2>4. cmdOut' = Append(s, K[b])
    BY <1>5, <1>8, <1>10, <2>1
  <2> QED BY <2>1, <2>3, <2>4
<1>12. metaFifo' \in Seq(Meta) /\ Queue(metaFifo', MetaAt(rq, pk), rq, st, m, rq[b])
  <2>1. PICK K, S, s : K = MetaAt(rq, pk) /\ S = Meta /\ s = metaFifo
    OBVIOUS
  <2>5. MetaAt(rq, pk)[b] = [length |-> pk[b] - b, isSplit |-> pk[b] < rq[b]]
    BY <1>9, MetaAtIs
  <2>6. MetaAt(rq, pk)[b] \in Meta
    <3>1. pk[b] - b \in Nat /\ (pk[b] < rq[b]) \in BOOLEAN
      BY <1>9
    <3>2. [length |-> pk[b] - b, isSplit |-> pk[b] < rq[b]] \in Meta
      BY <3>1, Zenon DEF Meta
    <3> QED BY <2>5, <3>2
  <2>2. s \in Seq(S) /\ Queue(s, K, rq, st, m, b) /\ b \in st /\ rq[b] \in Nat /\ K[b] \in S
    BY <1>4, <1>7, <1>9, <2>1, <2>6 DEF Commands, WriteTypes
  <2>3. Append(s, K[b]) \in Seq(S) /\ Queue(Append(s, K[b]), K, rq, st, m, rq[b])
    BY <2>2, PushQueue
  <2>4. metaFifo' = Append(s, K[b])
    <3>1. (Crosses(h)) = (pk[b] < rq[b])
      BY <1>8 DEF Crosses
    <3>2. [length |-> l, isSplit |-> Crosses(h)] = MetaAt(rq, pk)[b]
      BY <1>8, <2>5, <3>1
    <3> QED BY <1>5, <2>1, <3>2
  <2> QED BY <2>1, <2>3, <2>4
<1>13. Checking(z, T, pk, tok, pk[b], rq[b])' /\ cmd' \in Cmd /\ bc_state' \in {"CMD", "CMD_SPLIT"}
  <2>1. CASE Crosses(h)
    <3>1. pk[b] < rq[b]
      BY <1>8, <2>1
    <3>2. pk[b] \in z .. T - 1 /\ pk[pk[b]] = rq[b]
      BY <1>4, <1>8, <3>1, LineSecond
    <3>3. tok[pk[b]].vaddr = tok[b].vaddr + (pk[b] - b)
      <4>1. pk[b] \in Nat /\ b <= pk[b] /\ pk[b] < rq[b]
        BY <1>9, <3>1
      <4> QED BY <1>4, <1>8, <4>1, LineWithin
    <3>4. /\ CmdAt(pk, tok)[pk[b]] = [addr |-> tok[pk[b]].vaddr, len |-> pk[pk[b]] - pk[b]]
          /\ CmdAt(pk, tok)[pk[b]] \in Cmd
      <4>1. PICK x \in Nat : x = pk[b] /\ pk[x] \in Nat /\ x < pk[x]
        BY <1>9, <3>1, <3>2
      <4>2. CmdAt(pk, tok)[x] = [addr |-> tok[x].vaddr, len |-> pk[x] - x] /\ CmdAt(pk, tok)[x] \in Cmd
        <5>1. tok \in [Nat -> Byte] /\ pk[x] \in Nat /\ x < pk[x]
          BY <1>9, <4>1
        <5> QED BY <5>1, CmdAtIs
      <4> QED BY <4>1, <4>2
    <3>5. (rq[b] - b) - (pk[b] - b) = rq[b] - pk[b]
      BY <1>9
    <3>6. cmd' = CmdAt(pk, tok)[pk[b]]
      BY <1>5, <1>8, <2>1, <3>2, <3>3, <3>4, <3>5
    <3>7. bc_state' = "CMD_SPLIT"
      BY <1>5, <2>1
    <3> QED BY <3>2, <3>4, <3>6, <3>7 DEF Checking
  <2>2. CASE ~Crosses(h)
    <3>1. pk[b] = rq[b]
      BY <1>8, <1>9, <2>2
    <3>2. bc_state' = "CMD" /\ cmd' = [addr |-> h.addr, len |-> h.len]
      BY <1>5, <2>2
    <3>3. cmd' = CmdAt(pk, tok)[b]
      BY <1>8, <1>10, <3>1, <3>2
    <3> QED BY <1>10, <3>1, <3>2, <3>3 DEF Checking
  <2> QED BY <2>1, <2>2
<1>14. WriteTypes'
  BY <1>2, <1>5, <1>7, <1>11, <1>12, <1>13 DEF WriteTypes, dataPart
<1>15. /\ InPages(z, T, rq, pk, tok, st)' /\ OffsetAt(rq, tok)' = OffsetAt(rq, tok)
       /\ MovedAt(pk, tok)' = MovedAt(pk, tok)
  BY <1>2, <1>4, SameMapping
<1>16. Commands(T, rq, pk, tok, st, m, rq[b], c)'
  BY <1>4, <1>5, <1>7, <1>12, <1>15 DEF Commands
<1>17. Packets(z, T, pk, tok, d, d1, d2, pk[b])'
  BY <1>2, <1>4, <1>11, <1>15 DEF Packets
<1>18. Moving(z, T, pk, d, f)'
  BY <1>2, <1>4, SameMoving
<1>19. Data(z, T, rq, pk, tok, f, o, i)' /\ Splitting(z, T, rq, pk, tok, o, i, m)'
  BY <1>4, <1>5, SameDataPart
<1>20. {f, m, rq[b], c, pk[b], d, d1, d2, o, i} \subseteq 0 .. T /\ (tlbInterface' # <<>> => z = T)
  BY <1>2, <1>4, <1>9
<1>21. At(z, T, rq, pk, tok, st, f, m, rq[b], c, pk[b], d, d1, d2, o, i)'
  BY <1>4, <1>13, <1>15, <1>16, <1>17, <1>18, <1>19, <1>20 DEF At
<1> QED BY <1>14, <1>21 DEF WritesAt

LEMMA BoundaryCheckSplitKeeps ==
  ASSUME PathAssumption, WriteTypes,
         NEW z, NEW T, NEW rq, NEW pk, NEW tok, NEW st, NEW f,
         WritesAt(z, T, rq, pk, tok, st, f), CheckStep, BoundaryCheckSplit
  PROVE  WriteTypes' /\ WritesAt(z, T, rq, pk, tok, st, f)'
<1>1. PICK m, b, c, e, d, d1, d2, o, i : At(z, T, rq, pk, tok, st, f, m, b, c, e, d, d1, d2, o, i)
  BY DEF WritesAt
<1>2. /\ mapping' = mapping /\ tlbInterface' = tlbInterface /\ dmaWriteCmd' = dmaWriteCmd
      /\ c2hDsc' = c2hDsc /\ c2hDone' = c2hDone /\ requests' = requests
  BY DEF CheckStep, tlbVars, writeVars, envVars
<1>3. /\ UNCHANGED dataPart /\ cmdIn' = cmdIn /\ metaFifo' = metaFifo
      /\ pageOffsetFifo' = pageOffsetFifo /\ cmd' = cmd
      /\ bc_state = "CMD_SPLIT" /\ cmdOut' = Append(cmdOut, cmd) /\ bc_state' = "CMD"
  BY DEF BoundaryCheckSplit, splitVars, dataPart
<1>4. /\ Line(z, T, rq, pk, tok, st) /\ InPages(z, T, rq, pk, tok, st)
      /\ Commands(T, rq, pk, tok, st, m, b, c) /\ Checking(z, T, pk, tok, e, b)
      /\ Packets(z, T, pk, tok, d, d1, d2, e) /\ Moving(z, T, pk, d, f)
      /\ Data(z, T, rq, pk, tok, f, o, i) /\ Splitting(z, T, rq, pk, tok, o, i, m)
      /\ {f, m, b, c, e, d, d1, d2, o, i} \subseteq 0 .. T /\ (tlbInterface # <<>> => z = T)
  BY <1>1 DEF At
<1>5. e \in z .. T - 1 /\ pk[e] = b /\ cmd = CmdAt(pk, tok)[e]
  BY <1>3, <1>4 DEF Checking
<1>6. cmdOut' \in Seq(Cmd) /\ Queue(cmdOut', CmdAt(pk, tok), pk, z .. T - 1, d2, b)
  <2>1. PICK K, S, s, G : K = CmdAt(pk, tok) /\ S = Cmd /\ s = cmdOut /\ G = z .. T - 1
    OBVIOUS
  <2>2. pk[e] \in Nat
    BY <1>4, <1>5, LineAt
  <2>3. s \in Seq(S) /\ Queue(s, K, pk, G, d2, e) /\ e \in G /\ pk[e] \in Nat /\ K[e] \in S
    BY <1>4, <1>5, <2>1, <2>2 DEF Packets, WriteTypes
  <2>4. Append(s, K[e]) \in Seq(S) /\ Queue(Append(s, K[e]), K, pk, G, d2, pk[e])
    BY <2>3, PushQueue
  <2> QED BY <1>3, <1>5, <2>1, <2>4
<1>7. WriteTypes'
  BY <1>2, <1>3, <1>6 DEF WriteTypes, dataPart
<1>8. InPages(z, T, rq, pk, tok, st)' /\ MovedAt(pk, tok)' = MovedAt(pk, tok)
  BY <1>2, <1>4, SameMapping
<1>9. Commands(T, rq, pk, tok, st, m, b, c)'
  BY <1>2, <1>3, <1>4, SameCommands
<1>10. Packets(z, T, pk, tok, d, d1, d2, b)'
  BY <1>2, <1>4, <1>6, <1>8 DEF Packets
<1>11. Moving(z, T, pk, d, f)' /\ Checking(z, T, pk, tok, b, b)'
  <2>1. Checking(z, T, pk, tok, b, b)'
    BY <1>3 DEF Checking
  <2> QED BY <1>2, <1>4, <2>1, SameMoving
<1>12. Data(z, T, rq, pk, tok, f, o, i)' /\ Splitting(z, T, rq, pk, tok, o, i, m)'
  BY <1>3, <1>4, SameDataPart
<1>13. {f, m, b, c, b, d, d1, d2, o, i} \subseteq 0 .. T /\ (tlbInterface' # <<>> => z = T)
  BY <1>2, <1>4
<1>14. At(z, T, rq, pk, tok, st, f, m, b, c, b, d, d1, d2, o, i)'
  BY <1>4, <1>8, <1>9, <1>10, <1>11, <1>12, <1>13 DEF At
<1> QED BY <1>7, <1>14 DEF WritesAt

-----------------------------------------------------------------------------
(* The TLB and the descriptors *)

(* The table is complete when no mapping is on its way. *)
LEMMA WholeTable ==
  ASSUME ReadInv, tlbInterface = <<>>
  PROVE  Table(Len(mapping.pages))
<1>1. PICK k \in 0 .. Len(mapping.pages) : Table(k)
  BY DEF ReadInv
<1>2. PICK L \in Nat : L = Len(mapping.pages)
  <2>1. mapping.pages \in Seq(Nat)
    BY DEF ReadInv, MappingOK
  <2> QED BY <2>1, LenProperties
<1>3. Len(tlbInterface) = 0
  OBVIOUS
<1>4. 0 = L - k /\ k \in 0 .. L
  BY <1>1, <1>2, <1>3 DEF Table
<1>5. k = L
  BY <1>4
<1> QED BY <1>1, <1>2, <1>5

(* A command within a page of the buffer is counted as no miss and no crossing. *)
LEMMA CountsNothing ==
  ASSUME PathAssumption, ReadTypes, MappingOK, Table(Len(mapping.pages)),
         NEW c \in Cmd, InBuffer(c), TLB!Count(c)
  PROVE  tlbMissCounter' = tlbMissCounter /\ tlbPageCrossingCounter' = tlbPageCrossingCounter
<1>1. PICK P \in Nat \ {0}, L \in Nat, A \in Nat, b \in Nat, a \in Nat, l \in Nat, t \in Nat :
        /\ P = PageSize /\ L = Len(mapping.pages) /\ A = AddrMod /\ t = top_page_base
        /\ b = mapping.base /\ a = c.addr /\ l = c.len
  <2>1. Len(mapping.pages) \in Nat
    BY LenProperties DEF MappingOK
  <2> QED BY <2>1 DEF PathAssumption, MappingOK, ReadTypes, Cmd
<1>2. a >= b /\ a - b < P * L /\ b + P * L <= A /\ ((a - b) % P) + l <= P
  BY <1>1 DEF InBuffer, MappingOK
<1>3. PICK x \in Nat : x = a - b /\ x < P * L
  BY <1>2
<1>4. x < A
  BY <1>2, <1>3
<1>5. x % A = x
  BY <1>4, WrapsNot
<1>6. PICK y \in Nat : y = x \div P /\ y < L
  BY <1>3, PageInside
<1>7. base_vaddr = b /\ t >= L - 1
  <2>1. L > 0
    BY <1>6
  <2> QED BY <1>1, <2>1 DEF Table
<1>8. TLB!PageBase(c.addr, base_vaddr) = y /\ TLB!PageOffset(c.addr, base_vaddr) = x % P
  BY <1>1, <1>3, <1>5, <1>6, <1>7 DEF TLB!PageBase, TLB!PageOffset
<1>9. ~(y > t)
  BY <1>6, <1>7
<1>10. ~((x % P) + l > P)
  <2>1. PICK r \in Int : r = x % P
    OBVIOUS
  <2>2. r + l <= P
    BY <1>2, <1>3, <2>1
  <2> QED BY <2>1, <2>2
<1> QED BY <1>1, <1>8, <1>9, <1>10 DEF TLB!Count

(* The TLB translates the packet at d2. *)
LEMMA TranslateWriteKeeps ==
  ASSUME PathAssumption, ReadInv, WriteTypes, Counters,
         NEW z, NEW T, NEW rq, NEW pk, NEW tok, NEW st, NEW f,
         WritesAt(z, T, rq, pk, tok, st, f), TranslateWrite
  PROVE  WriteTypes' /\ Counters' /\ WritesAt(z, T, rq, pk, tok, st, f)'
<1>1. PICK m, b, c, e, d, d1, d2, o, i : At(z, T, rq, pk, tok, st, f, m, b, c, e, d, d1, d2, o, i)
  BY DEF WritesAt
<1>2. /\ mapping' = mapping /\ tlbInterface' = tlbInterface /\ requests' = requests
      /\ c2hDsc' = c2hDsc /\ c2hDone' = c2hDone /\ h2cDone' = h2cDone
      /\ dma_write_pkg_counter' = dma_write_pkg_counter
      /\ dma_write_cmd_counter' = dma_write_cmd_counter
      /\ UNCHANGED dataPart /\ cmdIn' = cmdIn /\ metaFifo' = metaFifo
      /\ pageOffsetFifo' = pageOffsetFifo /\ cmd' = cmd /\ bc_state' = bc_state
  BY DEF TranslateWrite, TLB!WriteCmd, writeVars, readVars, envVars, restOfCheck, splitVars, dataPart
<1>3. /\ cmdOut # <<>> /\ cmdOut' = Tail(cmdOut) /\ TLB!Count(Head(cmdOut))
      /\ dmaWriteCmd' = Append(dmaWriteCmd, TLB!Translated(Head(cmdOut)))
  BY DEF TranslateWrite, TLB!WriteCmd
<1>4. /\ Line(z, T, rq, pk, tok, st) /\ InPages(z, T, rq, pk, tok, st)
      /\ Commands(T, rq, pk, tok, st, m, b, c) /\ Checking(z, T, pk, tok, e, b)
      /\ Packets(z, T, pk, tok, d, d1, d2, e) /\ Moving(z, T, pk, d, f)
      /\ Data(z, T, rq, pk, tok, f, o, i) /\ Splitting(z, T, rq, pk, tok, o, i, m)
      /\ {f, m, b, c, e, d, d1, d2, o, i} \subseteq 0 .. T /\ (tlbInterface # <<>> => z = T)
  BY <1>1 DEF At
<1>5. /\ cmdOut' \in Seq(Cmd) /\ Queue(cmdOut', CmdAt(pk, tok), pk, z .. T - 1, pk[d2], e)
      /\ d2 \in z .. T - 1 /\ Head(cmdOut) = CmdAt(pk, tok)[d2] /\ Head(cmdOut) \in Cmd
  <2>1. PICK K, S, s, G : K = CmdAt(pk, tok) /\ S = Cmd /\ s = cmdOut /\ G = z .. T - 1
    OBVIOUS
  <2>2. s \in Seq(S) /\ s # <<>> /\ Queue(s, K, pk, G, d2, e)
    BY <1>3, <1>4, <2>1 DEF Packets, WriteTypes
  <2>3. /\ Tail(s) \in Seq(S) /\ Queue(Tail(s), K, pk, G, pk[d2], e) /\ d2 \in G /\ Head(s) = K[d2]
        /\ K[d2] \in S
    BY <2>2, PopQueue
  <2> QED BY <1>3, <2>1, <2>3
<1>6. d2 \in Nat /\ pk[d2] \in Nat /\ pk[d2] \in 0 .. T /\ z < T
  <2>1. /\ z \in Nat /\ T \in Nat /\ d2 \in Nat /\ rq[d2] \in Nat /\ pk[d2] \in Nat
        /\ z <= d2 /\ d2 < T /\ pk[d2] <= rq[d2] /\ rq[d2] <= T
    BY <1>4, <1>5, LineAt
  <2> QED BY <2>1
<1>7. tlbInterface = <<>>
  <2>1. z # T
    <3>1. z \in Nat /\ T \in Nat
      BY <1>4 DEF Line
    <3> QED BY <1>6, <3>1
  <2> QED BY <1>4, <2>1
<1>8. PICK h : h = Head(cmdOut) /\ h \in Cmd /\ InBuffer(h)
  BY <1>4, <1>5 DEF InPages
<1>9. Table(Len(mapping.pages)) /\ ReadTypes /\ MappingOK
  BY <1>7, WholeTable DEF ReadInv
<1>10. TLB!Translated(h) = Moved(h) /\ Moved(h) \in Cmd
  BY <1>8, <1>9, TranslatesAsMapped
<1>11. tlbMissCounter' = tlbMissCounter /\ tlbPageCrossingCounter' = tlbPageCrossingCounter
  <2>1. TLB!Count(h)
    BY <1>3, <1>8
  <2> QED BY <1>8, <1>9, <2>1, CountsNothing
<1>12. MovedAt(pk, tok)[d2] = Moved(h)
  BY <1>5, <1>6, <1>8 DEF MovedAt
<1>13. dmaWriteCmd' \in Seq(Cmd) /\ Queue(dmaWriteCmd', MovedAt(pk, tok), pk, z .. T - 1, d1, pk[d2])
  <2>1. PICK K, S, s, G : K = MovedAt(pk, tok) /\ S = Cmd /\ s = dmaWriteCmd /\ G = z .. T - 1
    OBVIOUS
  <2>2. s \in Seq(S) /\ Queue(s, K, pk, G, d1, d2) /\ d2 \in G /\ pk[d2] \in Nat /\ K[d2] \in S
    BY <1>4, <1>5, <1>6, <1>10, <1>12, <2>1 DEF Packets, WriteTypes
  <2>3. Append(s, K[d2]) \in Seq(S) /\ Queue(Append(s, K[d2]), K, pk, G, d1, pk[d2])
    BY <2>2, PushQueue
  <2>4. dmaWriteCmd' = Append(s, K[d2])
    BY <1>3, <1>8, <1>10, <1>12, <2>1
  <2> QED BY <2>1, <2>3, <2>4
<1>14. WriteTypes' /\ Counters'
  BY <1>2, <1>5, <1>11, <1>13 DEF WriteTypes, Counters, dataPart
<1>15. InPages(z, T, rq, pk, tok, st)' /\ MovedAt(pk, tok)' = MovedAt(pk, tok)
  BY <1>2, <1>4, SameMapping
<1>16. Commands(T, rq, pk, tok, st, m, b, c)'
  BY <1>2, <1>4, SameCommands
<1>17. Packets(z, T, pk, tok, d, d1, pk[d2], e)'
  BY <1>2, <1>4, <1>5, <1>13, <1>15 DEF Packets
<1>18. Moving(z, T, pk, d, f)' /\ Checking(z, T, pk, tok, e, b)'
  BY <1>2, <1>4, SameMoving, SameChecking
<1>19. Data(z, T, rq, pk, tok, f, o, i)' /\ Splitting(z, T, rq, pk, tok, o, i, m)'
  BY <1>2, <1>4, SameDataPart
<1>20. {f, m, b, c, e, d, d1, pk[d2], o, i} \subseteq 0 .. T /\ (tlbInterface' # <<>> => z = T)
  BY <1>2, <1>4, <1>6
<1>21. At(z, T, rq, pk, tok, st, f, m, b, c, e, d, d1, pk[d2], o, i)'
  BY <1>4, <1>15, <1>16, <1>17, <1>18, <1>19, <1>20 DEF At
<1> QED BY <1>14, <1>21 DEF WritesAt

(* The descriptor of the packet at d1 is loaded. *)
LEMMA LoadWriteDescriptorKeeps ==
  ASSUME PathAssumption, WriteTypes, Counters,
         NEW z, NEW T, NEW rq, NEW pk, NEW tok, NEW st, NEW f,
         WritesAt(z, T, rq, pk, tok, st, f), LoadWriteDescriptor
  PROVE  WriteTypes' /\ Counters' /\ WritesAt(z, T, rq, pk, tok, st, f)'
<1>1. PICK m, b, c, e, d, d1, d2, o, i : At(z, T, rq, pk, tok, st, f, m, b, c, e, d, d1, d2, o, i)
  BY DEF WritesAt
<1>2. /\ mapping' = mapping /\ tlbInterface' = tlbInterface /\ requests' = requests
      /\ c2hDone' = c2hDone /\ h2cDone' = h2cDone
      /\ dma_write_pkg_counter' = dma_write_pkg_counter
      /\ dma_write_cmd_counter' = dma_write_cmd_counter + 1
      /\ tlbMissCounter' = tlbMissCounter /\ tlbPageCrossingCounter' = tlbPageCrossingCounter
      /\ UNCHANGED dataPart /\ cmdIn' = cmdIn /\ metaFifo' = metaFifo /\ cmdOut' = cmdOut
      /\ pageOffsetFifo' = pageOffsetFifo /\ cmd' = cmd /\ bc_state' = bc_state
  BY DEF LoadWriteDescriptor, readVars, envVars, checkVars, dataPart
<1>3. /\ dmaWriteCmd # <<>> /\ dmaWriteCmd' = Tail(dmaWriteCmd)
      /\ c2hDsc' = Append(c2hDsc, Head(dmaWriteCmd))
  BY DEF LoadWriteDescriptor
<1>4. /\ Line(z, T, rq, pk, tok, st) /\ InPages(z, T, rq, pk, tok, st)
      /\ Commands(T, rq, pk, tok, st, m, b, c) /\ Checking(z, T, pk, tok, e, b)
      /\ Packets(z, T, pk, tok, d, d1, d2, e) /\ Moving(z, T, pk, d, f)
      /\ Data(z, T, rq, pk, tok, f, o, i) /\ Splitting(z, T, rq, pk, tok, o, i, m)
      /\ {f, m, b, c, e, d, d1, d2, o, i} \subseteq 0 .. T /\ (tlbInterface # <<>> => z = T)
  BY <1>1 DEF At
<1>5. PICK K, S, s, q, G : /\ K = MovedAt(pk, tok) /\ S = Cmd /\ s = dmaWriteCmd /\ q = c2hDsc
                           /\ G = z .. T - 1
  OBVIOUS
<1>6. s \in Seq(S) /\ s # <<>> /\ Queue(s, K, pk, G, d1, d2) /\ q \in Seq(S) /\ Queue(q, K, pk, G, d, d1)
  BY <1>3, <1>4, <1>5 DEF Packets, WriteTypes
<1>7. /\ Tail(s) \in Seq(S) /\ Queue(Tail(s), K, pk, G, pk[d1], d2) /\ d1 \in G /\ Head(s) = K[d1]
      /\ K[d1] \in S
  BY <1>6, PopQueue
<1>8. pk[d1] \in Nat /\ pk[d1] \in 0 .. T
  <2>1. d1 \in z .. T - 1
    BY <1>5, <1>7
  <2>2. T \in Nat /\ rq[d1] \in Nat /\ pk[d1] \in Nat /\ pk[d1] <= rq[d1] /\ rq[d1] <= T
    BY <1>4, <2>1, LineAt
  <2> QED BY <2>2
<1>9. /\ Append(q, K[d1]) \in Seq(S) /\ Queue(Append(q, K[d1]), K, pk, G, d, pk[d1])
      /\ Len(Append(q, K[d1])) = Len(q) + 1 /\ Len(q) \in Nat
  BY <1>6, <1>7, <1>8, PushQueue
<1>10. /\ dmaWriteCmd' \in Seq(Cmd) /\ c2hDsc' \in Seq(Cmd)
       /\ Len(c2hDsc') = Len(c2hDsc) + 1 /\ Len(c2hDsc) \in Nat
  BY <1>3, <1>5, <1>7, <1>9
<1>11. WriteTypes'
  BY <1>2, <1>10 DEF WriteTypes, dataPart
<1>12. Counters'
  <2>1. PICK n \in Nat, l \in Nat : n = dma_write_pkg_counter /\ l = Len(c2hDsc)
    BY <1>10 DEF Counters
  <2>2. dma_write_cmd_counter = n + l
    BY <2>1 DEF Counters
  <2>3. (n + l) + 1 = n + (l + 1)
    OBVIOUS
  <2> QED BY <1>2, <1>10, <2>1, <2>2, <2>3 DEF Counters
<1>13. InPages(z, T, rq, pk, tok, st)' /\ MovedAt(pk, tok)' = MovedAt(pk, tok)
  BY <1>2, <1>4, SameMapping
<1>14. Commands(T, rq, pk, tok, st, m, b, c)'
  BY <1>2, <1>4, SameCommands
<1>15. Packets(z, T, pk, tok, d, pk[d1], d2, e)'
  BY <1>2, <1>3, <1>4, <1>5, <1>7, <1>9, <1>13 DEF Packets
<1>16. Moving(z, T, pk, d, f)' /\ Checking(z, T, pk, tok, e, b)'
  BY <1>2, <1>4, SameMoving, SameChecking
<1>17. Data(z, T, rq, pk, tok, f, o, i)' /\ Splitting(z, T, rq, pk, tok, o, i, m)'
  BY <1>2, <1>4, SameDataPart
<1>18. {f, m, b, c, e, d, pk[d1], d2, o, i} \subseteq 0 .. T /\ (tlbInterface' # <<>> => z = T)
  BY <1>2, <1>4, <1>8
<1>19. At(z, T, rq, pk, tok, st, f, m, b, c, e, d, pk[d1], d2, o, i)'
  BY <1>4, <1>13, <1>14, <1>15, <1>16, <1>17, <1>18 DEF At
<1> QED BY <1>11, <1>12, <1>19 DEF WritesAt

(* Within a page, an address is translated by its distance. *)
LEMMA TranslateWithin ==
  ASSUME PathAssumption, MappingOK, NEW v \in Nat, NEW l \in Nat, NEW k \in Nat, k < l,
         InBuffer([addr |-> v, len |-> l])
  PROVE  /\ Memory!Translate(v + k) = Memory!Translate(v) + k
         /\ Memory!Translate(v) \in Nat
<1>1. PICK P \in Nat \ {0}, L \in Nat, b \in Nat :
        P = PageSize /\ L = Len(mapping.pages) /\ b = mapping.base
  <2>1. Len(mapping.pages) \in Nat
    BY LenProperties DEF MappingOK
  <2> QED BY <2>1 DEF PathAssumption, MappingOK
<1>2. v >= b /\ v - b < P * L /\ ((v - b) % P) + l <= P
  BY <1>1 DEF InBuffer
<1>3. PICK x \in Nat : x = v - b /\ x < P * L
  BY <1>2
<1>4. PICK y \in Nat : y = x \div P /\ y < L
  BY <1>3, PageInside
<1>5. PICK r \in Nat : r = x % P /\ r + l <= P
  BY <1>2, <1>3
<1>6. (x % P) + k < P
  BY <1>5
<1>7. (x + k) % P = r + k /\ (x + k) \div P = y
  <2>1. (x + k) % P = (x % P) + k /\ (x + k) \div P = x \div P
    BY <1>6, SamePage
  <2> QED BY <1>4, <1>5, <2>1
<1>8. mapping.pages[y + 1] \in Nat
  <2>1. mapping.pages \in Seq(Nat) /\ y + 1 \in 1 .. Len(mapping.pages)
    BY <1>1, <1>4 DEF MappingOK
  <2> QED BY <2>1, ElementOfSeq
<1>9. PICK g \in Nat : g = mapping.pages[y + 1]
  BY <1>8
<1>10. (v + k) - b = x + k
  BY <1>3
<1>11. Memory!Translate(v + k) = g + (r + k)
  BY <1>1, <1>7, <1>9, <1>10 DEF Memory!Translate
<1>12. Memory!Translate(v) = g + r
  BY <1>1, <1>3, <1>4, <1>5, <1>9 DEF Memory!Translate
<1>13. g + (r + k) = (g + r) + k /\ g + r \in Nat
  OBVIOUS
<1> QED BY <1>11, <1>12, <1>13

-----------------------------------------------------------------------------
(* The C2H engine *)

(* What the C2H engine moves next: the n bytes at f, to their addresses.  *)
(* With the last word of the packet the descriptor is used up.            *)
Moves(tok, f, n) ==
  /\ n \in Nat \ {0} /\ Head(dataOut).bytes = Slice(tok, f, n)
  /\ Head(c2hDsc).addr \in Nat
  /\ \A k \in 0 .. n - 1 :
       Memory!Translate(tok[f + k].vaddr) = (Head(c2hDsc).addr + c2hDone) + k
  /\ Head(dataOut).last = TRUE => c2hDone + n = Head(c2hDsc).len

WordMoves(z, T, pk, tok, f, d, d1, o, n) ==
  /\ Moves(tok, f, n) /\ f + n <= T /\ f \in Nat /\ T \in Nat
  /\ Head(dataOut).last \in BOOLEAN
  /\ Tail(dataOut) \in Seq(DataWord)
  /\ Queue(Tail(dataOut), WordAt(pk, tok), WordEnd(pk), z .. T - 1, f + n, o)
  /\ Tail(c2hDsc) \in Seq(Cmd) /\ Len(Tail(c2hDsc)) = Len(c2hDsc) - 1 /\ Len(c2hDsc) \in Nat
  /\ Queue(Tail(c2hDsc), MovedAt(pk, tok), pk, z .. T - 1, pk[d], d1)
  /\ d \in z .. T - 1 /\ d \in Nat /\ f = d + c2hDone
  /\ Head(dataOut).last = TRUE => f + n = pk[d]
  /\ Head(dataOut).last = FALSE => f + n < pk[d]

LEMMA C2hWordMoves ==
  ASSUME PathAssumption, MappingOK, WriteTypes,
         NEW z, NEW T, NEW rq, NEW pk, NEW tok, NEW st, NEW f,
         NEW m, NEW b, NEW c, NEW e, NEW d, NEW d1, NEW d2, NEW o, NEW i,
         At(z, T, rq, pk, tok, st, f, m, b, c, e, d, d1, d2, o, i),
         c2hDsc # <<>>, dataOut # <<>>
  PROVE  \E n \in Nat \ {0} : WordMoves(z, T, pk, tok, f, d, d1, o, n)
<1>1. /\ Line(z, T, rq, pk, tok, st) /\ InPages(z, T, rq, pk, tok, st)
      /\ Packets(z, T, pk, tok, d, d1, d2, e) /\ Moving(z, T, pk, d, f)
      /\ Data(z, T, rq, pk, tok, f, o, i)
  BY DEF At
<1>2. tok \in [Nat -> Byte] /\ c2hDone \in Nat
  BY <1>1 DEF Line, WriteTypes
<1>3. /\ Tail(dataOut) \in Seq(DataWord) /\ f \in z .. T - 1 /\ Head(dataOut) = WordAt(pk, tok)[f]
      /\ Queue(Tail(dataOut), WordAt(pk, tok), WordEnd(pk), z .. T - 1, WordEnd(pk)[f], o)
  <2>1. PICK K, next, G, S, s : /\ K = WordAt(pk, tok) /\ next = WordEnd(pk) /\ G = z .. T - 1
                                /\ S = DataWord /\ s = dataOut
    OBVIOUS
  <2>2. s \in Seq(S) /\ s # <<>> /\ Queue(s, K, next, G, f, o)
    BY <1>1, <2>1 DEF Data, WriteTypes
  <2>3. /\ Tail(s) \in Seq(S) /\ Queue(Tail(s), K, next, G, next[f], o) /\ f \in G /\ Head(s) = K[f]
    BY <2>2, PopQueue
  <2> QED BY <2>1, <2>3
<1>4. /\ Tail(c2hDsc) \in Seq(Cmd) /\ Len(Tail(c2hDsc)) = Len(c2hDsc) - 1 /\ Len(c2hDsc) \in Nat
      /\ Queue(Tail(c2hDsc), MovedAt(pk, tok), pk, z .. T - 1, pk[d], d1)
      /\ d \in z .. T - 1 /\ Head(c2hDsc) = MovedAt(pk, tok)[d]
  <2>1. PICK K, S, s, G : K = MovedAt(pk, tok) /\ S = Cmd /\ s = c2hDsc /\ G = z .. T - 1
    OBVIOUS
  <2>2. s \in Seq(S) /\ s # <<>> /\ Queue(s, K, pk, G, d, d1)
    BY <1>1, <2>1 DEF Packets, WriteTypes
  <2>3. /\ Tail(s) \in Seq(S) /\ Queue(Tail(s), K, pk, G, pk[d], d1) /\ d \in G /\ Head(s) = K[d]
        /\ Len(Tail(s)) = Len(s) - 1 /\ Len(s) \in Nat
    BY <2>2, PopQueue
  <2> QED BY <2>1, <2>3
<1>5. /\ T \in Nat /\ d \in Nat /\ f \in Nat /\ pk[d] \in Nat /\ pk[f] \in Nat /\ rq[d] \in Nat
      /\ d < pk[d] /\ f < pk[f] /\ pk[d] <= rq[d] /\ rq[d] <= T /\ tok[d].vaddr \in Nat
  BY <1>1, <1>3, <1>4, LineAt
<1>6. f = d + c2hDone /\ f < pk[d] /\ d <= f
  <2>1. f = d + c2hDone /\ (c2hDone = 0 \/ f < pk[d])
    BY <1>1 DEF Moving
  <2> QED BY <1>2, <1>5, <2>1
<1>7. ASSUME NEW y \in Nat, d <= y, y < pk[d]
      PROVE  pk[y] = pk[d] /\ tok[y].vaddr = tok[d].vaddr + (y - d)
  <2>1. y < rq[d]
    BY <1>5, <1>7
  <2> QED BY <1>1, <1>4, <1>7, <2>1, LineWithin
<1>8. pk[f] = pk[d]
  BY <1>5, <1>6, <1>7
<1>9. PICK W \in Nat \ {0}, n \in Nat \ {0} :
        /\ W = WordSize /\ n = Lesser(W, pk[d] - f) /\ WordEnd(pk)[f] = f + n
        /\ Head(dataOut) = [bytes |-> Slice(tok, f, n), last |-> pk[d] - f <= W]
  <2>1. WordSize \in Nat \ {0}
    BY DEF PathAssumption
  <2>2. /\ WordAt(pk, tok)[f] = [bytes |-> Slice(tok, f, Lesser(WordSize, pk[f] - f)),
                                 last |-> pk[f] - f <= WordSize]
        /\ Lesser(WordSize, pk[f] - f) \in Nat \ {0}
        /\ WordEnd(pk)[f] = f + Lesser(WordSize, pk[f] - f)
    <3>1. f \in Nat /\ pk[f] \in Nat /\ f < pk[f]
      BY <1>5
    <3>2. WordAt(pk, tok)[f] = [bytes |-> Slice(tok, f, Lesser(WordSize, pk[f] - f)),
                                last |-> pk[f] - f <= WordSize]
      BY <1>2, <3>1, WordAtIs
    <3>3. Lesser(WordSize, pk[f] - f) \in Nat \ {0}
      BY <1>2, <3>1, WordAtIs
    <3>4. WordEnd(pk)[f] = f + Lesser(WordSize, pk[f] - f)
      BY <1>2, <3>1, WordAtIs
    <3> QED BY <3>2, <3>3, <3>4
  <2> QED BY <1>3, <1>8, <2>1, <2>2
<1>10. /\ Head(dataOut).bytes = Slice(tok, f, n) /\ Head(dataOut).last = (pk[d] - f <= W)
       /\ Head(dataOut).last \in BOOLEAN
  <2>1. PICK l : l = (pk[d] - f <= W)
    OBVIOUS
  <2>2. l \in BOOLEAN
    BY <1>5, <2>1
  <2>3. Head(dataOut) = [bytes |-> Slice(tok, f, n), last |-> l]
    BY <1>9, <2>1, Zenon
  <2>4. Head(dataOut).bytes = Slice(tok, f, n) /\ Head(dataOut).last = l
    BY <2>3
  <2> QED BY <2>1, <2>2, <2>4, Zenon
<1>11. /\ f + n <= pk[d] /\ f + n <= T
       /\ (Head(dataOut).last = TRUE => f + n = pk[d]) /\ (Head(dataOut).last = FALSE => f + n < pk[d])
  <2>1. PICK y \in Nat : y = pk[d] /\ f < y /\ y <= T
    BY <1>5, <1>6
  <2>2. n = Lesser(W, y - f)
    BY <1>9, <2>1
  <2>3. f + n <= y /\ ((y - f <= W) => f + n = y) /\ (~(y - f <= W) => f + n < y)
    <3>1. PICK r \in Nat : r = y - f /\ y = f + r /\ n = Lesser(W, r)
      BY <1>5, <2>1, <2>2
    <3>2. (W <= r => n = W) /\ (r <= W => n = r)
      <4>1. W \in Int /\ r \in Int
        OBVIOUS
      <4>2. (W <= r => Lesser(W, r) = W) /\ (r <= W => Lesser(W, r) = r)
        BY <4>1, LesserIs
      <4> QED BY <3>1, <4>2
    <3> QED BY <1>5, <3>1, <3>2
  <2>4. Head(dataOut).last = (y - f <= W)
    BY <1>10, <2>1, Zenon
  <2>5. f + n <= pk[d] /\ f + n <= T
    BY <1>5, <2>1, <2>3
  <2> QED BY <2>1, <2>3, <2>4, <2>5, Zenon
<1>12. PICK v \in Nat, l \in Nat : v = tok[d].vaddr /\ l = pk[d] - d
  BY <1>5
<1>13. CmdAt(pk, tok)[d] = [addr |-> v, len |-> l]
  BY <1>2, <1>5, <1>12, CmdAtIs
<1>14. InBuffer([addr |-> v, len |-> l])
  BY <1>1, <1>4, <1>13 DEF InPages
<1>15. Head(c2hDsc).addr = Memory!Translate(v) /\ Head(c2hDsc).len = l
  <2>1. MovedAt(pk, tok)[d] = Moved(CmdAt(pk, tok)[d])
    BY <1>5 DEF MovedAt
  <2>2. Moved([addr |-> v, len |-> l]) = [addr |-> Memory!Translate(v), len |-> l]
    BY DEF Moved
  <2>3. Head(c2hDsc) = [addr |-> Memory!Translate(v), len |-> l]
    BY <1>4, <1>13, <2>1, <2>2
  <2> QED BY <2>3
<1>16. PICK g \in Nat : g = Memory!Translate(v)
  <2>1. 0 < l /\ 0 \in Nat
    BY <1>5, <1>12
  <2> QED BY <1>14, <2>1, TranslateWithin
<1>17. ASSUME NEW k \in 0 .. n - 1
       PROVE  Memory!Translate(tok[f + k].vaddr) = (Head(c2hDsc).addr + c2hDone) + k
  <2>1. f + k \in Nat /\ d <= f + k /\ f + k < pk[d] /\ c2hDone + k \in Nat /\ c2hDone + k < l
        /\ (f + k) - d = c2hDone + k
    <3>1. PICK y \in Nat, h \in Nat : y = pk[d] /\ h = c2hDone
      BY <1>2, <1>5
    <3>2. f \in Nat /\ d \in Nat /\ f + n <= y /\ f = d + h /\ l = y - d
      BY <1>5, <1>6, <1>11, <1>12, <3>1
    <3>3. f + k \in Nat /\ d <= f + k /\ f + k < y /\ h + k \in Nat /\ h + k < l /\ (f + k) - d = h + k
      BY <3>2
    <3> QED BY <3>1, <3>3
  <2>2. tok[f + k].vaddr = v + (c2hDone + k)
    BY <1>7, <1>12, <2>1
  <2>3. Memory!Translate(v + (c2hDone + k)) = g + (c2hDone + k)
    BY <1>14, <1>16, <2>1, TranslateWithin
  <2>4. g + (c2hDone + k) = (g + c2hDone) + k
    BY <1>2
  <2> QED BY <1>15, <1>16, <2>2, <2>3, <2>4
<1>18. Head(dataOut).last = TRUE => c2hDone + n = Head(c2hDsc).len
  <2>1. f + n = pk[d] => c2hDone + n = pk[d] - d
    BY <1>2, <1>5, <1>6, <1>9
  <2> QED BY <1>11, <1>12, <1>15, <2>1
<1>19. Moves(tok, f, n)
  BY <1>10, <1>15, <1>16, <1>17, <1>18 DEF Moves
<1> QED BY <1>3, <1>4, <1>5, <1>6, <1>9, <1>10, <1>11, <1>19 DEF WordMoves

(* A word reaches the memory. *)
LEMMA C2hWordKeeps ==
  ASSUME PathAssumption, MappingOK, WriteTypes, Counters,
         NEW z, NEW T, NEW rq, NEW pk, NEW tok, NEW st, NEW f,
         WritesAt(z, T, rq, pk, tok, st, f), C2hWord
  PROVE  /\ WriteTypes' /\ Counters'
         /\ \E n \in Nat \ {0} : /\ Moves(tok, f, n) /\ f + n <= T
                                 /\ WritesAt(z, T, rq, pk, tok, st, f + n)'
<1>1. PICK m, b, c, e, d, d1, d2, o, i : At(z, T, rq, pk, tok, st, f, m, b, c, e, d, d1, d2, o, i)
  BY DEF WritesAt
<1>2. /\ mapping' = mapping /\ tlbInterface' = tlbInterface /\ requests' = requests
      /\ h2cDone' = h2cDone /\ dmaWriteCmd' = dmaWriteCmd
      /\ dma_write_cmd_counter' = dma_write_cmd_counter
      /\ tlbMissCounter' = tlbMissCounter /\ tlbPageCrossingCounter' = tlbPageCrossingCounter
      /\ cmdIn' = cmdIn /\ metaFifo' = metaFifo /\ cmdOut' = cmdOut
      /\ pageOffsetFifo' = pageOffsetFifo /\ cmd' = cmd /\ bc_state' = bc_state
      /\ dataIn' = dataIn /\ pbc_state' = pbc_state /\ metaLoaded' = metaLoaded
      /\ meta' = meta /\ prevWord' = prevWord
  BY DEF C2hWord, tlbVars, readVars, envVars
<1>3. c2hDsc # <<>> /\ dataOut # <<>> /\ dataOut' = Tail(dataOut)
  BY DEF C2hWord
<1>4. /\ Line(z, T, rq, pk, tok, st) /\ InPages(z, T, rq, pk, tok, st)
      /\ Commands(T, rq, pk, tok, st, m, b, c) /\ Checking(z, T, pk, tok, e, b)
      /\ Packets(z, T, pk, tok, d, d1, d2, e)
      /\ Data(z, T, rq, pk, tok, f, o, i) /\ Splitting(z, T, rq, pk, tok, o, i, m)
      /\ {f, m, b, c, e, d, d1, d2, o, i} \subseteq 0 .. T /\ (tlbInterface # <<>> => z = T)
  BY <1>1 DEF At
<1>20. PICK n \in Nat \ {0} : WordMoves(z, T, pk, tok, f, d, d1, o, n)
  BY <1>1, <1>3, C2hWordMoves
<1>5. /\ Moves(tok, f, n) /\ f + n <= T /\ f \in Nat /\ T \in Nat
      /\ Head(dataOut).last \in BOOLEAN
      /\ Tail(dataOut) \in Seq(DataWord)
      /\ Queue(Tail(dataOut), WordAt(pk, tok), WordEnd(pk), z .. T - 1, f + n, o)
      /\ Tail(c2hDsc) \in Seq(Cmd) /\ Len(Tail(c2hDsc)) = Len(c2hDsc) - 1 /\ Len(c2hDsc) \in Nat
      /\ Queue(Tail(c2hDsc), MovedAt(pk, tok), pk, z .. T - 1, pk[d], d1)
      /\ d \in z .. T - 1 /\ d \in Nat /\ f = d + c2hDone
      /\ Head(dataOut).last = TRUE => f + n = pk[d]
      /\ Head(dataOut).last = FALSE => f + n < pk[d]
  BY <1>20 DEF WordMoves
<1>6. Len(Head(dataOut).bytes) = n
  <2>1. tok \in [Nat -> Byte]
    BY <1>4 DEF Line
  <2>2. Head(dataOut).bytes = Slice(tok, f, n) /\ n \in Nat
    BY <1>5 DEF Moves
  <2>3. f \in Nat
    BY <1>5
  <2> QED BY <2>1, <2>2, <2>3, SliceSeq
<1>7. PICK p \in Nat, h \in Nat, l \in Nat :
        /\ p = dma_write_pkg_counter /\ h = c2hDone /\ l = Len(c2hDsc)
        /\ dma_write_cmd_counter = p + l
  BY <1>5 DEF Counters, WriteTypes
<1>8. pk[d] \in Nat /\ d < pk[d] /\ pk[d] \in 0 .. T
  <2>1. pk[d] \in Nat /\ d < pk[d] /\ rq[d] \in Nat /\ pk[d] <= rq[d] /\ rq[d] <= T /\ T \in Nat
    BY <1>4, <1>5, LineAt
  <2> QED BY <2>1
<1>9. PICK D \in Nat :
        /\ c2hDsc' \in Seq(Cmd) /\ c2hDone' \in Nat /\ Moving(z, T, pk, D, f + n)' /\ D \in 0 .. T
        /\ Queue(c2hDsc', MovedAt(pk, tok), pk, z .. T - 1, D, d1)
        /\ dma_write_pkg_counter' \in Nat
        /\ dma_write_cmd_counter = dma_write_pkg_counter' + Len(c2hDsc')
  <2>1. CASE Head(dataOut).last = TRUE
    <3>1. c2hDone' = 0 /\ c2hDsc' = Tail(c2hDsc) /\ dma_write_pkg_counter' = p + 1
      BY <1>7, <2>1 DEF C2hWord
    <3>2. f + n = pk[d]
      BY <1>5, <2>1
    <3>3. Moving(z, T, pk, pk[d], f + n)'
      <4>1. pk[d] = pk[d] + 0
        BY <1>8
      <4> QED BY <3>1, <3>2, <4>1 DEF Moving
    <3>4. p + l = (p + 1) + (l - 1) /\ p + 1 \in Nat
      OBVIOUS
    <3>5. dma_write_cmd_counter = dma_write_pkg_counter' + Len(c2hDsc')
      BY <1>5, <1>7, <3>1, <3>4
    <3> QED BY <1>5, <1>8, <3>1, <3>3, <3>4, <3>5
  <2>2. CASE Head(dataOut).last = FALSE
    <3>1. c2hDone' = h + n /\ c2hDsc' = c2hDsc /\ dma_write_pkg_counter' = p + 0
      BY <1>6, <1>7, <2>2 DEF C2hWord
    <3>2. f + n < pk[d]
      BY <1>5, <2>2
    <3>3. Moving(z, T, pk, d, f + n)'
      <4>1. f + n = d + (h + n)
        BY <1>5, <1>7
      <4> QED BY <1>5, <3>1, <3>2, <4>1 DEF Moving
    <3>4. Queue(c2hDsc', MovedAt(pk, tok), pk, z .. T - 1, d, d1) /\ c2hDsc' \in Seq(Cmd)
      BY <1>4, <3>1 DEF Packets, WriteTypes
    <3>5. dma_write_cmd_counter = dma_write_pkg_counter' + Len(c2hDsc') /\ dma_write_pkg_counter' \in Nat
      BY <1>7, <3>1
    <3>6. d \in 0 .. T /\ h + n \in Nat
      BY <1>4
    <3> QED BY <1>5, <3>1, <3>3, <3>4, <3>5, <3>6
  <2> QED BY <1>5, <2>1, <2>2
<1>10. WriteTypes'
  BY <1>2, <1>3, <1>5, <1>9 DEF WriteTypes
<1>11. Counters'
  BY <1>2, <1>9 DEF Counters
<1>12. InPages(z, T, rq, pk, tok, st)' /\ MovedAt(pk, tok)' = MovedAt(pk, tok)
  BY <1>2, <1>4, SameMapping
<1>13. Commands(T, rq, pk, tok, st, m, b, c)'
  BY <1>2, <1>4, SameCommands
<1>14. Packets(z, T, pk, tok, D, d1, d2, e)'
  BY <1>2, <1>4, <1>9, <1>12 DEF Packets
<1>15. Checking(z, T, pk, tok, e, b)' /\ Splitting(z, T, rq, pk, tok, o, i, m)'
  BY <1>2, <1>4, SameChecking, SameSplitting
<1>16. Data(z, T, rq, pk, tok, f + n, o, i)'
  BY <1>2, <1>3, <1>4, <1>5 DEF Data
<1>17. {f + n, m, b, c, e, D, d1, d2, o, i} \subseteq 0 .. T /\ (tlbInterface' # <<>> => z = T)
  <2>1. f + n \in 0 .. T
    BY <1>5
  <2> QED BY <1>2, <1>4, <1>9, <2>1
<1>18. At(z, T, rq, pk, tok, st, f + n, m, b, c, e, D, d1, d2, o, i)'
  BY <1>4, <1>9, <1>12, <1>13, <1>14, <1>15, <1>16, <1>17 DEF At
<1>19. WritesAt(z, T, rq, pk, tok, st, f + n)'
  BY <1>18 DEF WritesAt
<1> QED BY <1>5, <1>10, <1>11, <1>19

-----------------------------------------------------------------------------
(* Steps on the read side *)

(* What the writes depend on, besides the counters. *)
writeState == <<cmdIn, dataIn, cmdOut, dataOut, pageOffsetFifo, metaFifo, bc_state, cmd, pbc_state,
                meta, metaLoaded, prevWord, dmaWriteCmd, c2hDsc, c2hDone, mapping, requests>>

LEMMA SameWrites ==
  ASSUME WriteTypes, NEW z, NEW T, NEW rq, NEW pk, NEW tok, NEW st, NEW f,
         WritesAt(z, T, rq, pk, tok, st, f), UNCHANGED writeState,
         tlbInterface' # <<>> => tlbInterface # <<>>
  PROVE  WriteTypes' /\ WritesAt(z, T, rq, pk, tok, st, f)'
<1>1. PICK m, b, c, e, d, d1, d2, o, i : At(z, T, rq, pk, tok, st, f, m, b, c, e, d, d1, d2, o, i)
  BY DEF WritesAt
<1>2. /\ mapping' = mapping /\ requests' = requests /\ dmaWriteCmd' = dmaWriteCmd
      /\ c2hDsc' = c2hDsc /\ c2hDone' = c2hDone
      /\ cmdIn' = cmdIn /\ metaFifo' = metaFifo /\ cmdOut' = cmdOut
      /\ pageOffsetFifo' = pageOffsetFifo /\ cmd' = cmd /\ bc_state' = bc_state
      /\ dataIn' = dataIn /\ dataOut' = dataOut /\ pbc_state' = pbc_state
      /\ metaLoaded' = metaLoaded /\ meta' = meta /\ prevWord' = prevWord
  BY DEF writeState
<1>3. /\ Line(z, T, rq, pk, tok, st) /\ InPages(z, T, rq, pk, tok, st)
      /\ Commands(T, rq, pk, tok, st, m, b, c) /\ Checking(z, T, pk, tok, e, b)
      /\ Packets(z, T, pk, tok, d, d1, d2, e) /\ Moving(z, T, pk, d, f)
      /\ Data(z, T, rq, pk, tok, f, o, i) /\ Splitting(z, T, rq, pk, tok, o, i, m)
      /\ {f, m, b, c, e, d, d1, d2, o, i} \subseteq 0 .. T /\ (tlbInterface # <<>> => z = T)
  BY <1>1 DEF At
<1>4. WriteTypes'
  BY <1>2 DEF WriteTypes
<1>5. InPages(z, T, rq, pk, tok, st)'
  BY <1>2, <1>3, SameMapping
<1>6. Commands(T, rq, pk, tok, st, m, b, c)'
  BY <1>2, <1>3, SameCommands
<1>7. Packets(z, T, pk, tok, d, d1, d2, e)'
  BY <1>2, <1>3, SamePackets
<1>8. Checking(z, T, pk, tok, e, b)' /\ Moving(z, T, pk, d, f)'
  BY <1>2, <1>3, SameChecking, SameMoving
<1>9. Data(z, T, rq, pk, tok, f, o, i)' /\ Splitting(z, T, rq, pk, tok, o, i, m)'
  BY <1>2, <1>3, SameData, SameSplitting
<1>10. At(z, T, rq, pk, tok, st, f, m, b, c, e, d, d1, d2, o, i)'
  BY <1>3, <1>5, <1>6, <1>7, <1>8, <1>9 DEF At
<1> QED BY <1>4, <1>10 DEF WritesAt

LEMMA SameCounters ==
  ASSUME Counters, UNCHANGED <<tlbMissCounter, tlbPageCrossingCounter, dma_write_pkg_counter,
                               dma_write_cmd_counter, c2hDsc>>, h2cDone' \in Nat
  PROVE  Counters'
  BY DEF Counters

LEMMA SameBases ==
  ASSUME BasesAtPages, UNCHANGED <<mapping, baseVars>>
  PROVE  BasesAtPages'
  BY DEF BasesAtPages, baseVars

(* The read that the TLB serves next is in a page of the buffer, and it    *)
(* has the whole mapping.                                                  *)
LEMMA NextRead ==
  ASSUME ReadInv, readCmd # <<>>
  PROVE  Head(readCmd) \in Cmd /\ InBuffer(Head(readCmd)) /\ tlbInterface = <<>>
<1>2. ReadTypes
  BY DEF ReadInv
<1>3. PICK p \in Nat, h \in Nat, d \in Nat, r \in Nat, n \in Nat :
        /\ p = dma_read_pkg_counter /\ h = Len(h2cDsc) /\ d = Len(dmaReadCmd)
        /\ r = Len(readCmd) /\ n = Len(reads)
  BY <1>2, Counts
<1>4. r > 0 /\ Head(readCmd) = readCmd[1] /\ Head(readCmd) \in Cmd
  <2>1. readCmd \in Seq(Cmd)
    BY <1>2 DEF ReadTypes
  <2> QED BY <1>3, <2>1, TailOf
<1>5. Queues(p, h, d, r, n)
  BY <1>3 DEF ReadInv
<1>6. n = p + h + d + r /\ Follows(readCmd, r, reads, p + h + d)
  BY <1>5 DEF Queues
<1>7. 1 \in 1 .. r /\ (p + h + d) + 1 \in p + 1 .. n /\ p < n
  BY <1>4, <1>6
<1>8. readCmd[1] = reads[(p + h + d) + 1]
  BY <1>6, <1>7 DEF Follows
<1>9. InBuffer(reads[(p + h + d) + 1])
  BY <1>5, <1>7 DEF Queues
<1>10. tlbInterface = <<>>
  BY <1>3, <1>7 DEF ReadInv
<1> QED BY <1>4, <1>8, <1>9, <1>10

LEMMA TranslateReadKeeps ==
  ASSUME PathAssumption, ReadInv, Counters, TranslateRead
  PROVE  Counters' /\ UNCHANGED writeState /\ tlbInterface' = tlbInterface
<1>1. readCmd # <<>> /\ TLB!Count(Head(readCmd))
  BY DEF TranslateRead, TLB!ReadCmd
<1>2. UNCHANGED writeState /\ tlbInterface' = tlbInterface
  BY DEF TranslateRead, TLB!ReadCmd, restOfCheck, splitVars, writeVars, envVars, writeState
<1>3. PICK c : c = Head(readCmd) /\ c \in Cmd /\ InBuffer(c) /\ TLB!Count(c)
  BY <1>1, NextRead
<1>4. Table(Len(mapping.pages)) /\ ReadTypes /\ MappingOK
  BY <1>1, NextRead, WholeTable DEF ReadInv
<1>5. tlbMissCounter' = tlbMissCounter /\ tlbPageCrossingCounter' = tlbPageCrossingCounter
  BY <1>3, <1>4, CountsNothing
<1>6. /\ dma_write_pkg_counter' = dma_write_pkg_counter /\ c2hDsc' = c2hDsc
      /\ dma_write_cmd_counter' = dma_write_cmd_counter /\ h2cDone' = h2cDone
  BY DEF TranslateRead, writeVars, readVars
<1>7. Counters'
  BY <1>5, <1>6 DEF Counters
<1> QED BY <1>2, <1>7

(* The base registers get the base of the mapping. *)
LEMMA BaseEntry ==
  ASSUME PathAssumption, ReadInv, tlbInterface # <<>>, Head(tlbInterface).isBase = TRUE
  PROVE  Head(tlbInterface).vaddr = mapping.base
<1>1. ReadTypes /\ MappingOK
  BY DEF ReadInv
<1>2. PICK k \in 0 .. Len(mapping.pages) : Table(k)
  BY DEF ReadInv
<1>3. PICK P \in Nat \ {0}, b \in Nat : P = PageSize /\ b = mapping.base
  BY <1>1 DEF PathAssumption, MappingOK
<1>4. Head(tlbInterface) = tlbInterface[1] /\ 1 \in 1 .. Len(tlbInterface)
  <2>1. tlbInterface \in Seq([vaddr : Nat, paddr : Nat, isBase : BOOLEAN])
    BY <1>1 DEF ReadTypes
  <2>2. Head(tlbInterface) = tlbInterface[1] /\ Len(tlbInterface) \in Nat /\ Len(tlbInterface) > 0
    BY <2>1, TailOf
  <2> QED BY <2>2
<1>5. Head(tlbInterface) = Entry(k + 1)
  BY <1>2, <1>4 DEF Table
<1>6. PICK j \in Int, x \in Int : j = k + 1 /\ x = mapping.base + (j - 1) * PageSize
  <2>1. k + 1 \in Int
    OBVIOUS
  <2>2. PICK j \in Int : j = k + 1
    BY <2>1
  <2>3. b + (j - 1) * P \in Int
    OBVIOUS
  <2> QED BY <1>3, <2>2, <2>3
<1>7. Head(tlbInterface).isBase = (j = 1) /\ Head(tlbInterface).vaddr = x
  <2>1. Head(tlbInterface) = [vaddr |-> x, paddr |-> mapping.pages[j], isBase |-> j = 1]
    BY <1>5, <1>6, Zenon DEF Entry
  <2>2. PICK l : l = (j = 1)
    OBVIOUS
  <2>3. Head(tlbInterface) = [vaddr |-> x, paddr |-> mapping.pages[j], isBase |-> l]
    BY <2>1, <2>2, Zenon
  <2>4. Head(tlbInterface).isBase = l /\ Head(tlbInterface).vaddr = x
    BY <2>3
  <2> QED BY <2>2, <2>4, Zenon
<1>8. j = 1
  BY <1>7
<1>9. x = b
  BY <1>3, <1>6, <1>8
<1> QED BY <1>3, <1>7, <1>9

LEMMA TakeMappingKeeps ==
  ASSUME PathAssumption, ReadInv, Counters, BasesAtPages, TakeMapping
  PROVE  /\ Counters' /\ BasesAtPages' /\ UNCHANGED writeState
         /\ tlbInterface' # <<>> => tlbInterface # <<>>
<1>1. tlbInterface # <<>> /\ mapping' = mapping
  BY DEF TakeMapping, TLB!NewMapping, envVars
<1>2. UNCHANGED writeState
  BY DEF TakeMapping, TLB!NewMapping, restOfCheck, splitVars, writeVars, envVars, writeState
<1>3. Counters'
  BY DEF TakeMapping, TLB!NewMapping, TLB!counters, writeVars, readVars, Counters
<1>4. BasesAtPages'
  <2>1. CASE Head(tlbInterface).isBase
    <3>1. Head(tlbInterface).vaddr = mapping.base
      <4>1. Head(tlbInterface).isBase = TRUE
        <5>1. tlbInterface \in Seq([vaddr : Nat, paddr : Nat, isBase : BOOLEAN])
          BY DEF ReadInv, ReadTypes
        <5>2. Head(tlbInterface) \in [vaddr : Nat, paddr : Nat, isBase : BOOLEAN]
          BY <1>1, <5>1, TailOf
        <5>3. Head(tlbInterface).isBase \in BOOLEAN
          BY <5>2
        <5> QED BY <2>1, <5>3, Zenon
      <4> QED BY <1>1, <4>1, BaseEntry
    <3>2. regBaseVaddr' = Head(tlbInterface).vaddr /\ regBaseVaddrBoundCheck' = regBaseVaddr
      BY <2>1 DEF TakeMapping
    <3>3. mapping.base \in Nat
      BY DEF ReadInv, MappingOK
    <3> QED BY <1>1, <3>1, <3>2, <3>3 DEF BasesAtPages
  <2>2. CASE ~Head(tlbInterface).isBase
    <3>1. UNCHANGED baseVars
      BY <2>2 DEF TakeMapping
    <3> QED BY <1>1, <3>1, SameBases
  <2> QED BY <2>1, <2>2
<1> QED BY <1>1, <1>2, <1>3, <1>4

(* The other steps on the read side. *)
LEMMA ReadSideKeeps ==
  ASSUME PathAssumption, Counters, BasesAtPages,
         (\E addr, len : IssueRead(addr, len)) \/ LoadReadDescriptor \/ H2cWord \/ UNCHANGED pathVars
  PROVE  Counters' /\ BasesAtPages' /\ UNCHANGED writeState /\ tlbInterface' = tlbInterface
<1>1. CASE \E addr, len : IssueRead(addr, len)
  BY <1>1 DEF IssueRead, checkVars, writeVars, readVars, baseVars, writeState, Counters, BasesAtPages
<1>2. CASE LoadReadDescriptor
  BY <1>2 DEF LoadReadDescriptor, checkVars, writeVars, envVars, baseVars, writeState, Counters,
              BasesAtPages
<1>3. CASE H2cWord
  <2>1. h2cDone' \in Nat
    <3>1. h2cDone \in Nat /\ WordSize \in Nat
      BY DEF Counters, PathAssumption
    <3>2. h2cDone' = 0 \/ h2cDone' = h2cDone + WordSize
      BY <1>3 DEF H2cWord
    <3> QED BY <3>1, <3>2
  <2> QED BY <1>3, <2>1 DEF H2cWord, checkVars, tlbVars, writeVars, envVars, baseVars, writeState,
                            Counters, BasesAtPages
<1>4. CASE UNCHANGED pathVars
  BY <1>4 DEF pathVars, checkVars, tlbVars, writeVars, readVars, envVars, baseVars, writeState,
              Counters, BasesAtPages
<1> QED BY <1>1, <1>2, <1>3, <1>4

-----------------------------------------------------------------------------
(* Nothing is on its way when the host maps the buffer anew *)

(* When no byte is on its way, nothing is. *)
Idle(T) ==
  /\ cmdIn = <<>> /\ pageOffsetFifo = <<>> /\ metaFifo = <<>> /\ cmdOut = <<>> /\ dmaWriteCmd = <<>>
  /\ c2hDsc = <<>> /\ dataIn = <<>> /\ dataOut = <<>> /\ c2hDone = 0
  /\ bc_state = "CMD" /\ pbc_state = "PKG_FIRST" /\ metaLoaded = FALSE

LEMMA EndOfQueue ==
  ASSUME NEW S, NEW q \in Seq(S), NEW K, NEW next, NEW G, NEW a, NEW b, Queue(q, K, next, G, a, b),
         a \notin G
  PROVE  q = <<>> /\ a = b
<1>1. q = <<>>
  <2>1. ASSUME q # <<>> PROVE FALSE
    <3>1. a \in G
      BY <2>1, PopQueue
    <3> QED BY <3>1
  <2> QED BY <2>1
<1> QED BY <1>1, DrainedQueue

LEMMA NothingPending ==
  ASSUME PathAssumption, WriteTypes, NEW z, NEW T, NEW rq, NEW pk, NEW tok, NEW st, NEW f,
         WritesAt(z, T, rq, pk, tok, st, f), Pending = <<>>
  PROVE  Idle(T) /\ f = T
<1>1. PICK m, b, c, e, d, d1, d2, o, i : At(z, T, rq, pk, tok, st, f, m, b, c, e, d, d1, d2, o, i)
  BY DEF WritesAt
<1>2. /\ Line(z, T, rq, pk, tok, st)
      /\ Commands(T, rq, pk, tok, st, m, b, c) /\ Checking(z, T, pk, tok, e, b)
      /\ Packets(z, T, pk, tok, d, d1, d2, e) /\ Moving(z, T, pk, d, f)
      /\ Data(z, T, rq, pk, tok, f, o, i) /\ Splitting(z, T, rq, pk, tok, o, i, m)
      /\ {f, m, b, c, e, d, d1, d2, o, i} \subseteq 0 .. T
  BY <1>1 DEF At
<1>3. f = T
  <2>1. f \in Nat /\ T \in Nat /\ f <= T /\ tok \in [Nat -> Byte] /\ Pending = Slice(tok, f, T - f)
    BY PendingSlice
  <2>2. PICK n \in Nat : n = T - f
    BY <2>1
  <2>3. Len(Slice(tok, f, n)) = n
    BY <2>1, SliceSeq
  <2>4. Len(<<>>) = 0
    OBVIOUS
  <2>5. n = 0
    BY <2>1, <2>2, <2>3, <2>4
  <2> QED BY <2>1, <2>2, <2>5
<1>4. z \in Nat /\ T \in Nat /\ T \notin z .. T - 1 /\ T \notin st
  BY <1>2 DEF Line
<1>5. PICK G : G = z .. T - 1 /\ T \notin G
  BY <1>4
<1>17. T \notin G
  BY <1>5
<1>6. c2hDone = 0 /\ d = T
  <2>1. d \in 0 .. T /\ c2hDone \in Nat /\ f = d + c2hDone /\ (c2hDone = 0 \/ (d \in z .. T - 1 /\ f < pk[d]))
    BY <1>2 DEF Moving, WriteTypes
  <2>2. CASE c2hDone = 0
    BY <1>3, <1>4, <2>1, <2>2
  <2>3. CASE d \in z .. T - 1 /\ f < pk[d]
    <3>1. T \in Nat /\ rq[d] \in Nat /\ pk[d] \in Nat /\ pk[d] <= rq[d] /\ rq[d] <= T
      BY <1>2, <2>3, LineAt
    <3>2. T < pk[d]
      BY <1>3, <2>3
    <3> QED BY <3>1, <3>2
  <2> QED BY <2>1, <2>2, <2>3
<1>7. c2hDsc = <<>> /\ d1 = T
  <2>1. c2hDsc \in Seq(Cmd) /\ Queue(c2hDsc, MovedAt(pk, tok), pk, G, T, d1)
    BY <1>2, <1>5, <1>6 DEF Packets, WriteTypes
  <2> QED BY <1>17, <2>1, EndOfQueue
<1>8. dmaWriteCmd = <<>> /\ d2 = T
  <2>1. dmaWriteCmd \in Seq(Cmd) /\ Queue(dmaWriteCmd, MovedAt(pk, tok), pk, G, T, d2)
    BY <1>2, <1>5, <1>7 DEF Packets, WriteTypes
  <2> QED BY <1>17, <2>1, EndOfQueue
<1>9. cmdOut = <<>> /\ e = T
  <2>1. cmdOut \in Seq(Cmd) /\ Queue(cmdOut, CmdAt(pk, tok), pk, G, T, e)
    BY <1>2, <1>5, <1>8 DEF Packets, WriteTypes
  <2> QED BY <1>17, <2>1, EndOfQueue
<1>10. dataOut = <<>> /\ o = T
  <2>1. dataOut \in Seq(DataWord) /\ Queue(dataOut, WordAt(pk, tok), WordEnd(pk), G, T, o)
    BY <1>2, <1>3, <1>5 DEF Data, WriteTypes
  <2> QED BY <1>17, <2>1, EndOfQueue
<1>11. pbc_state = "PKG_FIRST" /\ metaLoaded = FALSE /\ i = T /\ m = T
  <2>1. ~FirstPacket(z, T, rq, pk, o, i, m) /\ ~SecondPacket(z, T, rq, pk, tok, o, i, m)
    BY <1>4, <1>10 DEF FirstPacket, SecondPacket
  <2> QED BY <1>2, <1>10, <2>1 DEF Splitting
<1>12. bc_state = "CMD"
  BY <1>2, <1>4, <1>9 DEF Checking
<1>13. dataIn = <<>>
  <2>1. dataIn \in Seq(DataWord) /\ Queue(dataIn, WordAt(rq, tok), WordEnd(rq), G, T, T)
    BY <1>2, <1>5, <1>11 DEF Data, WriteTypes
  <2> QED BY <1>17, <2>1, EndOfQueue
<1>14. metaFifo = <<>> /\ b = T
  <2>1. metaFifo \in Seq(Meta) /\ Queue(metaFifo, MetaAt(rq, pk), rq, st, T, b)
    BY <1>2, <1>11 DEF Commands, WriteTypes
  <2>2. b = T /\ metaFifo = <<>>
    BY <1>4, <2>1, EndOfQueue
  <2> QED BY <2>2
<1>15. pageOffsetFifo = <<>> /\ c = T
  <2>1. pageOffsetFifo \in Seq(Offset) /\ Queue(pageOffsetFifo, OffsetAt(rq, tok), rq, st, T, c)
    BY <1>2, <1>14 DEF Commands, WriteTypes
  <2>2. c = T /\ pageOffsetFifo = <<>>
    BY <1>4, <2>1, EndOfQueue
  <2> QED BY <2>2
<1>16. cmdIn = <<>>
  <2>1. cmdIn \in Seq(Cmd) /\ Queue(cmdIn, CmdAt(rq, tok), rq, st, T, T)
    BY <1>2, <1>15 DEF Commands, WriteTypes
  <2> QED BY <1>4, <2>1, EndOfQueue
<1> QED BY <1>3, <1>6, <1>7, <1>8, <1>9, <1>10, <1>11, <1>12, <1>13, <1>14, <1>15, <1>16 DEF Idle

(* Nothing on its way is at the end of every line. *)
LEMMA IdleAt ==
  ASSUME NEW T \in Nat, Idle(T), NEW rq \in [Nat -> Nat], NEW pk \in [Nat -> Nat],
         NEW tok \in [Nat -> Byte]
  PROVE  WritesAt(T, T, rq, pk, tok, {}, T)
<1>1. Line(T, T, rq, pk, tok, {}) /\ InPages(T, T, rq, pk, tok, {})
  <2>1. T .. T - 1 = {} /\ T <= T
    OBVIOUS
  <2> QED BY <2>1 DEF Line, InPages
<1>2. Commands(T, rq, pk, tok, {}, T, T, T)
  BY EmptyQueue DEF Idle, Commands
<1>3. Packets(T, T, pk, tok, T, T, T, T)
  BY EmptyQueue DEF Idle, Packets
<1>4. Data(T, T, rq, pk, tok, T, T, T)
  BY EmptyQueue DEF Idle, Data
<1>5. Checking(T, T, pk, tok, T, T) /\ Splitting(T, T, rq, pk, tok, T, T, T)
  BY DEF Idle, Checking, Splitting
<1>6. Moving(T, T, pk, T, T)
  <2>1. T = T + 0
    OBVIOUS
  <2> QED BY <2>1 DEF Moving, Idle
<1>7. {T, T, T, T, T, T, T, T, T, T} \subseteq 0 .. T
  OBVIOUS
<1>8. At(T, T, rq, pk, tok, {}, T, T, T, T, T, T, T, T, T, T)
  BY <1>1, <1>2, <1>3, <1>4, <1>5, <1>6, <1>7 DEF At
<1> QED BY <1>8 DEF WritesAt

IdleIsAtEnd ==
  \A T \in Nat, rq \in [Nat -> Nat], pk \in [Nat -> Nat], tok \in [Nat -> Byte] :
    Idle(T) => WritesAt(T, T, rq, pk, tok, {}, T)

LEMMA IdleAll == IdleIsAtEnd
  BY IdleAt DEF IdleIsAtEnd

LEMMA HostMapKeeps ==
  ASSUME PathAssumption, WriteTypes, Counters, BasesAtPages,
         NEW z, NEW T, NEW rq, NEW pk, NEW tok, NEW st, NEW f,
         WritesAt(z, T, rq, pk, tok, st, f),
         NEW base \in Bases, NEW pages \in PageTables, HostMap(base, pages)
  PROVE  WriteTypes' /\ Counters' /\ BasesAtPages' /\ WritesAt(T, T, rq, pk, tok, {}, T)'
<1>1. Pending = <<>> /\ mapping' = [base |-> base, pages |-> pages]
  BY DEF HostMap
<1>2. Idle(T) /\ f = T
  BY <1>1, NothingPending
<1>3. WriteTypes' /\ Counters' /\ Idle(T)'
  BY <1>2 DEF HostMap, checkVars, writeVars, readVars, WriteTypes, Counters, Idle
<1>4. BasesAtPages'
  <2>1. mapping'.base = base
    BY <1>1
  <2>2. base % PageSize = 0
    BY DEF PathAssumption
  <2>3. UNCHANGED <<regBaseVaddr, regBaseVaddrBoundCheck>>
    BY DEF HostMap, baseVars
  <2> QED BY <2>1, <2>2, <2>3 DEF BasesAtPages
<1>5. T \in Nat /\ rq \in [Nat -> Nat] /\ pk \in [Nat -> Nat] /\ tok \in [Nat -> Byte]
  <2>1. Line(z, T, rq, pk, tok, st)
    BY DEF WritesAt, At
  <2> QED BY <2>1 DEF Line
<1>7. IdleIsAtEnd'
  BY IdleAll, PTL
<1>6. WritesAt(T, T, rq, pk, tok, {}, T)'
  BY <1>3, <1>5, <1>7 DEF IdleIsAtEnd
<1> QED BY <1>3, <1>4, <1>6

-----------------------------------------------------------------------------
(* The line grows by a request *)

(* The line as it was, up to T. *)
Agrees(T, rq, pk, tok, rq1, pk1, tok1) ==
  /\ rq1 \in [Nat -> Nat] /\ pk1 \in [Nat -> Nat] /\ tok1 \in [Nat -> Byte]
  /\ \A x \in Nat : x < T => rq1[x] = rq[x] /\ pk1[x] = pk[x] /\ tok1[x] = tok[x]

LEMMA AgreesSlice ==
  ASSUME NEW T \in Nat, NEW rq, NEW pk, NEW tok \in [Nat -> Byte], NEW rq1, NEW pk1, NEW tok1,
         Agrees(T, rq, pk, tok, rq1, pk1, tok1), NEW x \in Nat, NEW n \in Nat, x + n <= T
  PROVE  Slice(tok1, x, n) = Slice(tok, x, n)
<1>1. tok1 \in [Nat -> Byte]
  BY DEF Agrees
<1>2. PICK s \in Seq(Byte) : s = Slice(tok, x, n)
  BY SliceSeq
<1>3. Len(s) = n /\ \A k \in 1 .. n : s[k] = tok[x + (k - 1)]
  BY <1>2, SliceSeq
<1>4. \A k \in 1 .. n : s[k] = tok1[x + (k - 1)]
  <2> TAKE k \in 1 .. n
  <2>1. x + (k - 1) \in Nat /\ x + (k - 1) < T
    OBVIOUS
  <2> QED BY <1>3, <2>1 DEF Agrees
<1>5. s = Slice(tok1, x, n)
  BY <1>1, <1>3, <1>4, IsSlice
<1> QED BY <1>2, <1>5

(* What the commands and the words are does not change. *)
SameAt(x, rq, pk, tok, rq1, pk1, tok1) ==
  /\ rq1[x] = rq[x] /\ pk1[x] = pk[x]
  /\ CmdAt(rq1, tok1)[x] = CmdAt(rq, tok)[x] /\ CmdAt(pk1, tok1)[x] = CmdAt(pk, tok)[x]
  /\ OffsetAt(rq1, tok1)[x] = OffsetAt(rq, tok)[x] /\ MetaAt(rq1, pk1)[x] = MetaAt(rq, pk)[x]
  /\ MovedAt(pk1, tok1)[x] = MovedAt(pk, tok)[x]
  /\ WordAt(rq1, tok1)[x] = WordAt(rq, tok)[x] /\ WordEnd(rq1)[x] = WordEnd(rq)[x]
  /\ WordAt(pk1, tok1)[x] = WordAt(pk, tok)[x] /\ WordEnd(pk1)[x] = WordEnd(pk)[x]

SameBytes(T, tok, tok1) == \A k, n \in Nat : k + n <= T => Slice(tok1, k, n) = Slice(tok, k, n)

SameEnd(T, e, e1, x) == e[x] \in Nat /\ x < e[x] /\ e[x] <= T /\ e1[x] = e[x]

WordStays(e, tok, e1, tok1, x) ==
  WordAt(e1, tok1)[x] = WordAt(e, tok)[x] /\ WordEnd(e1)[x] = WordEnd(e)[x]

LEMMA SameWord ==
  ASSUME PathAssumption, NEW T \in Nat, NEW tok \in [Nat -> Byte], NEW tok1,
         NEW e, NEW e1, NEW x \in Nat, SameEnd(T, e, e1, x), SameBytes(T, tok, tok1)
  PROVE  WordStays(e, tok, e1, tok1, x)
<1>7. e[x] \in Nat /\ x < e[x] /\ e[x] <= T /\ e1[x] = e[x]
  BY DEF SameEnd
<1>1. PICK n \in Nat : n = Lesser(WordSize, e[x] - x) /\ x + n <= e[x]
  <2>1. Lesser(WordSize, e[x] - x) \in Nat \ {0} /\ WordEnd(e)[x] = x + Lesser(WordSize, e[x] - x)
        /\ WordEnd(e)[x] <= e[x]
    BY <1>7, WordAtIs
  <2> QED BY <2>1
<1>2. x + n <= T
  BY <1>1, <1>7
<1>3. Slice(tok1, x, n) = Slice(tok, x, n)
  BY <1>2 DEF SameBytes
<1>4. WordAt(e, tok)[x] = [bytes |-> Slice(tok, x, Lesser(WordSize, e[x] - x)),
                           last |-> e[x] - x <= WordSize]
  BY DEF WordAt
<1>5. WordAt(e1, tok1)[x] = [bytes |-> Slice(tok1, x, Lesser(WordSize, e1[x] - x)),
                             last |-> e1[x] - x <= WordSize]
  BY DEF WordAt
<1>6. WordEnd(e1)[x] = Lesser(x + WordSize, e1[x]) /\ WordEnd(e)[x] = Lesser(x + WordSize, e[x])
  BY DEF WordEnd
<1>8. WordAt(e1, tok1)[x] = WordAt(e, tok)[x]
  BY <1>1, <1>3, <1>4, <1>5, <1>7, Zenon
<1> QED BY <1>6, <1>7, <1>8, Zenon DEF WordStays

LEMMA AgreesAt ==
  ASSUME PathAssumption, NEW z, NEW T, NEW rq, NEW pk, NEW tok, NEW st, Line(z, T, rq, pk, tok, st),
         NEW rq1, NEW pk1, NEW tok1, Agrees(T, rq, pk, tok, rq1, pk1, tok1), NEW x \in z .. T - 1
  PROVE  SameAt(x, rq, pk, tok, rq1, pk1, tok1)
<1>1. /\ T \in Nat /\ x \in Nat /\ x < T /\ rq[x] \in Nat /\ pk[x] \in Nat /\ x < pk[x]
      /\ pk[x] <= rq[x] /\ rq[x] <= T
  BY LineAt
<1>2. tok \in [Nat -> Byte]
  BY DEF Line
<1>3. rq1[x] = rq[x] /\ pk1[x] = pk[x] /\ tok1[x] = tok[x]
  BY <1>1 DEF Agrees
<1>4. SameBytes(T, tok, tok1)
  BY <1>1, <1>2, AgreesSlice DEF SameBytes
<1>5. WordAt(rq1, tok1)[x] = WordAt(rq, tok)[x] /\ WordEnd(rq1)[x] = WordEnd(rq)[x]
  <2>1. SameEnd(T, rq, rq1, x) /\ T \in Nat /\ x \in Nat
    BY <1>1, <1>3 DEF SameEnd
  <2>2. WordStays(rq, tok, rq1, tok1, x)
    BY <1>2, <1>4, <2>1, SameWord
  <2> QED BY <2>2 DEF WordStays
<1>6. WordAt(pk1, tok1)[x] = WordAt(pk, tok)[x] /\ WordEnd(pk1)[x] = WordEnd(pk)[x]
  <2>1. SameEnd(T, pk, pk1, x) /\ T \in Nat /\ x \in Nat
    BY <1>1, <1>3 DEF SameEnd
  <2>2. WordStays(pk, tok, pk1, tok1, x)
    BY <1>2, <1>4, <2>1, SameWord
  <2> QED BY <2>2 DEF WordStays
<1>7. x \in Nat
  BY <1>1
<1>8. CmdAt(rq1, tok1)[x] = CmdAt(rq, tok)[x] /\ CmdAt(pk1, tok1)[x] = CmdAt(pk, tok)[x]
  BY <1>3, <1>7, Zenon DEF CmdAt
<1>9. OffsetAt(rq1, tok1)[x] = OffsetAt(rq, tok)[x] /\ MetaAt(rq1, pk1)[x] = MetaAt(rq, pk)[x]
  BY <1>3, <1>7, Zenon DEF OffsetAt, MetaAt
<1>10. MovedAt(pk1, tok1)[x] = MovedAt(pk, tok)[x]
  BY <1>7, <1>8, Zenon DEF MovedAt
<1> QED BY <1>3, <1>5, <1>6, <1>8, <1>9, <1>10 DEF SameAt

(* The queues, up to T. *)
LEMMA GrownQueues ==
  ASSUME NEW z \in Nat, NEW T \in Nat, NEW N \in Nat, T < N, NEW st, st \subseteq z .. T - 1,
         NEW rq, NEW pk, NEW tok, NEW rq1, NEW pk1, NEW tok1,
         \A x \in z .. T - 1 : SameAt(x, rq, pk, tok, rq1, pk1, tok1),
         NEW m, NEW b, NEW c, NEW d, NEW d1, NEW d2, NEW e, NEW f, NEW o, NEW i,
         Commands(T, rq, pk, tok, st, m, b, c), Packets(z, T, pk, tok, d, d1, d2, e),
         Data(z, T, rq, pk, tok, f, o, i)
  PROVE  /\ Queue(cmdIn, CmdAt(rq1, tok1), rq1, st \cup {T}, c, T)
         /\ Queue(pageOffsetFifo, OffsetAt(rq1, tok1), rq1, st \cup {T}, b, c)
         /\ Queue(metaFifo, MetaAt(rq1, pk1), rq1, st \cup {T}, m, b)
         /\ Packets(z, N, pk1, tok1, d, d1, d2, e)
         /\ Queue(dataOut, WordAt(pk1, tok1), WordEnd(pk1), z .. N - 1, f, o)
         /\ Queue(dataIn, WordAt(rq1, tok1), WordEnd(rq1), z .. N - 1, i, T)
<1>1. \A x \in z .. T - 1 : x \in z .. N - 1 /\ SameAt(x, rq, pk, tok, rq1, pk1, tok1)
  OBVIOUS
<1>2. \A x \in st : x \in st \cup {T} /\ SameAt(x, rq, pk, tok, rq1, pk1, tok1)
  OBVIOUS
<1>3. PICK G, G1, s0, s1 : G = z .. T - 1 /\ G1 = z .. N - 1 /\ s0 = st /\ s1 = st \cup {T}
  OBVIOUS
<1>4. (\A x \in G : x \in G1 /\ SameAt(x, rq, pk, tok, rq1, pk1, tok1))
      /\ (\A x \in s0 : x \in s1 /\ SameAt(x, rq, pk, tok, rq1, pk1, tok1))
  BY <1>1, <1>2, <1>3
<1>5. Queue(cmdIn, CmdAt(rq1, tok1), rq1, s1, c, T)
  <2>1. PICK K, K1 : K = CmdAt(rq, tok) /\ K1 = CmdAt(rq1, tok1)
    OBVIOUS
  <2>2. Queue(cmdIn, K, rq, s0, c, T) /\ \A x \in s0 : x \in s1 /\ K1[x] = K[x] /\ rq1[x] = rq[x]
    BY <1>3, <1>4, <2>1 DEF Commands, SameAt
  <2>3. Queue(cmdIn, K1, rq1, s1, c, T)
    BY <2>2, SameQueue
  <2> QED BY <2>1, <2>3
<1>6. Queue(pageOffsetFifo, OffsetAt(rq1, tok1), rq1, s1, b, c)
  <2>1. PICK K, K1 : K = OffsetAt(rq, tok) /\ K1 = OffsetAt(rq1, tok1)
    OBVIOUS
  <2>2. Queue(pageOffsetFifo, K, rq, s0, b, c) /\ \A x \in s0 : x \in s1 /\ K1[x] = K[x] /\ rq1[x] = rq[x]
    BY <1>3, <1>4, <2>1 DEF Commands, SameAt
  <2>3. Queue(pageOffsetFifo, K1, rq1, s1, b, c)
    BY <2>2, SameQueue
  <2> QED BY <2>1, <2>3
<1>7. Queue(metaFifo, MetaAt(rq1, pk1), rq1, s1, m, b)
  <2>1. PICK K, K1 : K = MetaAt(rq, pk) /\ K1 = MetaAt(rq1, pk1)
    OBVIOUS
  <2>2. Queue(metaFifo, K, rq, s0, m, b) /\ \A x \in s0 : x \in s1 /\ K1[x] = K[x] /\ rq1[x] = rq[x]
    BY <1>3, <1>4, <2>1 DEF Commands, SameAt
  <2>3. Queue(metaFifo, K1, rq1, s1, m, b)
    BY <2>2, SameQueue
  <2> QED BY <2>1, <2>3
<1>8. Queue(c2hDsc, MovedAt(pk1, tok1), pk1, G1, d, d1) /\ Queue(dmaWriteCmd, MovedAt(pk1, tok1), pk1, G1, d1, d2)
  <2>1. PICK K, K1 : K = MovedAt(pk, tok) /\ K1 = MovedAt(pk1, tok1)
    OBVIOUS
  <2>2. /\ Queue(c2hDsc, K, pk, G, d, d1) /\ Queue(dmaWriteCmd, K, pk, G, d1, d2)
        /\ \A x \in G : x \in G1 /\ K1[x] = K[x] /\ pk1[x] = pk[x]
    BY <1>3, <1>4, <2>1 DEF Packets, SameAt
  <2>3. Queue(c2hDsc, K1, pk1, G1, d, d1) /\ Queue(dmaWriteCmd, K1, pk1, G1, d1, d2)
    BY <2>2, SameQueue
  <2> QED BY <2>1, <2>3
<1>9. Queue(cmdOut, CmdAt(pk1, tok1), pk1, G1, d2, e)
  <2>1. PICK K, K1 : K = CmdAt(pk, tok) /\ K1 = CmdAt(pk1, tok1)
    OBVIOUS
  <2>2. /\ Queue(cmdOut, K, pk, G, d2, e)
        /\ \A x \in G : x \in G1 /\ K1[x] = K[x] /\ pk1[x] = pk[x]
    BY <1>3, <1>4, <2>1 DEF Packets, SameAt
  <2>3. Queue(cmdOut, K1, pk1, G1, d2, e)
    BY <2>2, SameQueue
  <2> QED BY <2>1, <2>3
<1>10. Queue(dataOut, WordAt(pk1, tok1), WordEnd(pk1), G1, f, o)
  <2>1. PICK K, K1, e0, e1 : /\ K = WordAt(pk, tok) /\ K1 = WordAt(pk1, tok1)
                             /\ e0 = WordEnd(pk) /\ e1 = WordEnd(pk1)
    OBVIOUS
  <2>2. Queue(dataOut, K, e0, G, f, o) /\ \A x \in G : x \in G1 /\ K1[x] = K[x] /\ e1[x] = e0[x]
    BY <1>3, <1>4, <2>1 DEF Data, SameAt
  <2>3. Queue(dataOut, K1, e1, G1, f, o)
    BY <2>2, SameQueue
  <2> QED BY <2>1, <2>3
<1>11. Queue(dataIn, WordAt(rq1, tok1), WordEnd(rq1), G1, i, T)
  <2>1. PICK K, K1, e0, e1 : /\ K = WordAt(rq, tok) /\ K1 = WordAt(rq1, tok1)
                             /\ e0 = WordEnd(rq) /\ e1 = WordEnd(rq1)
    OBVIOUS
  <2>2. Queue(dataIn, K, e0, G, i, T) /\ \A x \in G : x \in G1 /\ K1[x] = K[x] /\ e1[x] = e0[x]
    BY <1>3, <1>4, <2>1 DEF Data, SameAt
  <2>3. Queue(dataIn, K1, e1, G1, i, T)
    BY <2>2, SameQueue
  <2> QED BY <2>1, <2>3
<1> QED BY <1>3, <1>5, <1>6, <1>7, <1>8, <1>9, <1>10, <1>11 DEF Packets

(* The processes, up to T. *)
LEMMA GrownProcesses ==
  ASSUME WriteTypes, NEW z \in Nat, NEW T \in Nat, NEW N \in Nat, T < N,
         NEW rq, NEW pk, NEW tok \in [Nat -> Byte],
         NEW rq1, NEW pk1, NEW tok1, Agrees(T, rq, pk, tok, rq1, pk1, tok1),
         \A x \in z .. T - 1 : SameAt(x, rq, pk, tok, rq1, pk1, tok1),
         NEW e, NEW b, NEW d, NEW f, NEW o, NEW i \in 0 .. T, NEW m,
         Checking(z, T, pk, tok, e, b), Moving(z, T, pk, d, f), Splitting(z, T, rq, pk, tok, o, i, m)
  PROVE  /\ Checking(z, N, pk1, tok1, e, b) /\ Moving(z, N, pk1, d, f)
         /\ Splitting(z, N, rq1, pk1, tok1, o, i, m)
<1>1. \A x \in z .. T - 1 : x \in z .. N - 1 /\ SameAt(x, rq, pk, tok, rq1, pk1, tok1)
  OBVIOUS
<1>2. PICK G, G1 : G = z .. T - 1 /\ G1 = z .. N - 1
  OBVIOUS
<1>3. \A x \in G : x \in G1 /\ SameAt(x, rq, pk, tok, rq1, pk1, tok1)
  BY <1>1, <1>2
<1>4. Checking(z, N, pk1, tok1, e, b)
  <2>1. CASE bc_state = "CMD" /\ e = b
    BY <2>1 DEF Checking
  <2>2. CASE bc_state = "CMD_SPLIT" /\ e \in G /\ pk[e] = b /\ cmd = CmdAt(pk, tok)[e]
    <3>1. e \in G1 /\ pk1[e] = b /\ cmd = CmdAt(pk1, tok1)[e]
      BY <1>3, <2>2 DEF SameAt
    <3> QED BY <1>2, <2>2, <3>1 DEF Checking
  <2> QED BY <1>2, <2>1, <2>2 DEF Checking
<1>5. Moving(z, N, pk1, d, f)
  <2>1. f = d + c2hDone /\ (c2hDone = 0 \/ (d \in G /\ f < pk[d]))
    BY <1>2 DEF Moving
  <2>2. d \in G => d \in G1 /\ pk1[d] = pk[d]
    BY <1>3 DEF SameAt
  <2> QED BY <1>2, <2>1, <2>2 DEF Moving
<1>6. FirstPacket(z, T, rq, pk, o, i, m) => FirstPacket(z, N, rq1, pk1, o, i, m)
  <2>1. o \in G => o \in G1 /\ rq1[o] = rq[o] /\ pk1[o] = pk[o] /\ MetaAt(rq1, pk1)[o] = MetaAt(rq, pk)[o]
    BY <1>3 DEF SameAt
  <2> QED BY <1>2, <2>1 DEF FirstPacket
<1>7. ASSUME NEW w \in Nat, NEW n \in Nat, LeftoverAt(tok, o, i, m, w, n)
      PROVE  LeftoverAt(tok1, o, i, m, w, n)
  <2>1. w + n <= T /\ prevWord = Slice(tok, w, n)
    BY <1>7 DEF LeftoverAt
  <2>2. Slice(tok1, w, n) = Slice(tok, w, n)
    BY <2>1, AgreesSlice
  <2> QED BY <1>7, <2>1, <2>2 DEF LeftoverAt
<1>8. SecondPacket(z, T, rq, pk, tok, o, i, m) => SecondPacket(z, N, rq1, pk1, tok1, o, i, m)
  <2>1. o \in G => o \in G1 /\ rq1[o] = rq[o] /\ pk1[o] = pk[o]
    BY <1>3 DEF SameAt
  <2> QED BY <1>2, <1>7, <2>1 DEF SecondPacket
<1>9. Splitting(z, N, rq1, pk1, tok1, o, i, m)
  BY <1>6, <1>8 DEF Splitting
<1> QED BY <1>4, <1>5, <1>9

(* The line with a request from T to N behind it, which is cut at cut. *)
Behind(T, cut, N, addr, n, rq1, pk1, tok1) ==
  \A x \in Nat : x >= T =>
    /\ rq1[x] = N /\ pk1[x] = (IF x < cut THEN cut ELSE N)
    /\ tok1[x] = [vaddr |-> addr + (x - T), request |-> n]

LEMMA GrownExists ==
  ASSUME NEW T \in Nat, NEW cut \in Nat, NEW N \in Nat, NEW addr \in Nat, NEW n \in Nat,
         NEW rq \in [Nat -> Nat], NEW pk \in [Nat -> Nat], NEW tok \in [Nat -> Byte]
  PROVE  \E rq1, pk1, tok1 : /\ Agrees(T, rq, pk, tok, rq1, pk1, tok1)
                             /\ Behind(T, cut, N, addr, n, rq1, pk1, tok1)
<1>1. PICK rq1, pk1, tok1 :
        /\ rq1 = [x \in Nat |-> IF x < T THEN rq[x] ELSE N]
        /\ pk1 = [x \in Nat |-> IF x < T THEN pk[x] ELSE IF x < cut THEN cut ELSE N]
        /\ tok1 = [x \in Nat |-> IF x < T THEN tok[x] ELSE [vaddr |-> addr + (x - T), request |-> n]]
  OBVIOUS
<1>2. rq1 \in [Nat -> Nat] /\ pk1 \in [Nat -> Nat]
  BY <1>1
<1>3. tok1 \in [Nat -> Byte]
  <2>1. ASSUME NEW x \in Nat, ~(x < T) PROVE [vaddr |-> addr + (x - T), request |-> n] \in Byte
    <3>1. addr + (x - T) \in Nat
      BY <2>1
    <3> QED BY <3>1 DEF Byte
  <2>2. \A x \in Nat : tok[x] \in Byte
    OBVIOUS
  <2> QED BY <1>1, <2>1, <2>2
<1>4. \A x \in Nat : x < T => rq1[x] = rq[x] /\ pk1[x] = pk[x] /\ tok1[x] = tok[x]
  BY <1>1
<1>5. ASSUME NEW x \in Nat, x >= T
      PROVE  /\ rq1[x] = N /\ pk1[x] = (IF x < cut THEN cut ELSE N)
             /\ tok1[x] = [vaddr |-> addr + (x - T), request |-> n]
  <2>1. ~(x < T)
    BY <1>5
  <2> QED BY <1>1, <2>1
<1>6. Agrees(T, rq, pk, tok, rq1, pk1, tok1)
  BY <1>2, <1>3, <1>4 DEF Agrees
<1>7. Behind(T, cut, N, addr, n, rq1, pk1, tok1)
  BY <1>5 DEF Behind
<1> QED BY <1>6, <1>7

LEMMA BehindAt ==
  ASSUME NEW T \in Nat, NEW cut \in Nat, NEW N \in Nat, NEW addr \in Nat, NEW n \in Nat,
         NEW rq1, NEW pk1, NEW tok1, Behind(T, cut, N, addr, n, rq1, pk1, tok1),
         NEW x \in Nat, x >= T
  PROVE  /\ rq1[x] = N /\ (x < cut => pk1[x] = cut) /\ (~(x < cut) => pk1[x] = N)
         /\ tok1[x].vaddr = addr + (x - T)
<1>1. /\ rq1[x] = N /\ pk1[x] = (IF x < cut THEN cut ELSE N)
      /\ tok1[x] = [vaddr |-> addr + (x - T), request |-> n]
  BY DEF Behind
<1> QED BY <1>1

LEMMA GrownLine ==
  ASSUME NEW z, NEW T, NEW rq, NEW pk, NEW tok, NEW st, Line(z, T, rq, pk, tok, st),
         NEW cut \in Nat, NEW N \in Nat, T < cut, cut <= N, NEW addr \in Nat, NEW n \in Nat,
         NEW rq1, NEW pk1, NEW tok1, Agrees(T, rq, pk, tok, rq1, pk1, tok1),
         Behind(T, cut, N, addr, n, rq1, pk1, tok1)
  PROVE  Line(z, N, rq1, pk1, tok1, st \cup {T})
<1>1. z \in Nat /\ T \in Nat /\ z <= T /\ st \subseteq z .. T - 1
  BY DEF Line
<1>2. z <= N /\ st \cup {T} \subseteq z .. N - 1
  BY <1>1
<1>3. ASSUME NEW x \in z .. N - 1, x < T
      PROVE  Placed(x, N, rq1, pk1, tok1)
  <2>1. x \in z .. T - 1 /\ x \in Nat
    BY <1>1, <1>3
  <2>2. rq[x] \in Nat /\ pk[x] \in Nat /\ x < pk[x] /\ pk[x] <= rq[x] /\ rq[x] <= T
    BY <2>1, LineAt
  <2>3. rq1[x] = rq[x] /\ pk1[x] = pk[x] /\ tok1[x] = tok[x]
    BY <1>3, <2>1 DEF Agrees
  <2>4. x < pk1[x] /\ pk1[x] <= rq1[x] /\ rq1[x] <= N
    BY <1>1, <2>2, <2>3
  <2>5. ASSUME pk1[x] < rq1[x] PROVE pk1[pk1[x]] = rq1[x]
    <3>1. pk[x] < rq[x]
      BY <2>3, <2>5
    <3>2. pk[pk[x]] = rq[x]
      BY <2>1, <3>1, LineSecond
    <3>3. pk[x] \in Nat /\ pk[x] < T
      BY <1>1, <2>2, <3>1
    <3>4. pk1[pk[x]] = pk[pk[x]]
      BY <3>3 DEF Agrees
    <3> QED BY <2>3, <3>2, <3>4
  <2>6. ASSUME NEW y \in x .. rq1[x] - 1
        PROVE  /\ rq1[y] = rq1[x] /\ tok1[y].vaddr = tok1[x].vaddr + (y - x)
               /\ y < pk1[x] => pk1[y] = pk1[x]
    <3>1. y \in Nat /\ x <= y /\ y < rq[x] /\ y < T
      BY <1>1, <2>1, <2>2, <2>3
    <3>2. /\ rq[y] = rq[x] /\ tok[y].vaddr = tok[x].vaddr + (y - x) /\ (y < pk[x] => pk[y] = pk[x])
      BY <2>1, <3>1, LineWithin
    <3>3. rq1[y] = rq[y] /\ pk1[y] = pk[y] /\ tok1[y] = tok[y]
      BY <3>1 DEF Agrees
    <3> QED BY <2>3, <3>2, <3>3
  <2> QED BY <2>4, <2>5, <2>6 DEF Placed
<1>4. ASSUME NEW x \in z .. N - 1, ~(x < T)
      PROVE  Placed(x, N, rq1, pk1, tok1)
  <2>1. x \in Nat /\ x >= T /\ x < N
    BY <1>1, <1>4
  <2>2. /\ rq1[x] = N /\ (x < cut => pk1[x] = cut) /\ (~(x < cut) => pk1[x] = N)
        /\ tok1[x].vaddr = addr + (x - T)
    BY <1>1, <2>1, BehindAt
  <2>3. x < pk1[x] /\ pk1[x] <= rq1[x] /\ rq1[x] <= N
    BY <2>1, <2>2
  <2>4. ASSUME pk1[x] < rq1[x] PROVE pk1[pk1[x]] = rq1[x]
    <3>1. pk1[x] = cut
      BY <2>2, <2>4
    <3>2. cut >= T /\ ~(cut < cut)
      BY <1>1
    <3>3. pk1[cut] = N
      BY <1>1, <3>2, BehindAt
    <3> QED BY <2>2, <3>1, <3>3
  <2>5. ASSUME NEW y \in x .. rq1[x] - 1
        PROVE  /\ rq1[y] = rq1[x] /\ tok1[y].vaddr = tok1[x].vaddr + (y - x)
               /\ y < pk1[x] => pk1[y] = pk1[x]
    <3>1. y \in Nat /\ y >= T /\ x <= y /\ y < N
      BY <1>1, <2>1, <2>2
    <3>2. /\ rq1[y] = N /\ (y < cut => pk1[y] = cut) /\ (~(y < cut) => pk1[y] = N)
          /\ tok1[y].vaddr = addr + (y - T)
      BY <1>1, <3>1, BehindAt, SMTT(30)
    <3>3. addr + (y - T) = (addr + (x - T)) + (y - x)
      BY <1>1, <2>1, <3>1
    <3>4. tok1[y].vaddr = tok1[x].vaddr + (y - x)
      BY <2>2, <3>2, <3>3
    <3>5. y < pk1[x] => pk1[y] = pk1[x]
      <4>1. CASE x < cut
        BY <2>2, <3>2, <4>1
      <4>2. CASE ~(x < cut)
        <5>1. ~(y < cut)
          BY <2>1, <3>1, <4>2
        <5> QED BY <2>2, <3>2, <4>2, <5>1
      <4> QED BY <4>1, <4>2
    <3> QED BY <2>2, <3>2, <3>4, <3>5
  <2> QED BY <2>3, <2>4, <2>5 DEF Placed
<1>5. rq1 \in [Nat -> Nat] /\ pk1 \in [Nat -> Nat] /\ tok1 \in [Nat -> Byte]
  BY DEF Agrees
<1> QED BY <1>1, <1>2, <1>3, <1>4, <1>5 DEF Line

(* A legal request, at distance X from the base of a buffer of L pages:    *)
(* where it is cut, and that its parts are in pages.                       *)
LEMMA CutOfRequest ==
  ASSUME NEW P \in Nat \ {0}, NEW X \in Nat, NEW l \in Nat \ {0}, NEW r \in Nat, r = X % P,
         r + l <= 2 * P, NEW k \in Nat, k < l
  PROVE  /\ r < P
         /\ r + l <= P => ((X + k) % P) + (l - k) <= P
         /\ r + l > P /\ k < P - r => ((X + k) % P) + ((P - r) - k) <= P
         /\ r + l > P /\ ~(k < P - r) => ((X + k) % P) + (l - k) <= P
<1>1. r < P
  OBVIOUS
<1>2. ASSUME r + k < P PROVE (X + k) % P = r + k
  <2>1. (X % P) + k < P
    BY <1>2
  <2>2. (X + k) % P = (X % P) + k
    BY <2>1, SamePage
  <2> QED BY <2>2
<1>3. ASSUME r + l <= P PROVE ((X + k) % P) + (l - k) <= P
  <2>1. r + k < P
    BY <1>3
  <2>2. (X + k) % P = r + k
    BY <1>2, <2>1
  <2>3. (r + k) + (l - k) = r + l
    OBVIOUS
  <2> QED BY <1>3, <2>2, <2>3
<1>4. ASSUME r + l > P, k < P - r PROVE ((X + k) % P) + ((P - r) - k) <= P
  <2>1. r + k < P
    BY <1>4
  <2>2. (X + k) % P = r + k
    BY <1>2, <2>1
  <2>3. (r + k) + ((P - r) - k) = P
    OBVIOUS
  <2> QED BY <2>2, <2>3
<1>5. ASSUME r + l > P, ~(k < P - r) PROVE ((X + k) % P) + (l - k) <= P
  <2>1. PICK j \in Nat : j = k - (P - r) /\ k = (P - r) + j
    <3>1. k - (P - r) \in Nat /\ k = (P - r) + (k - (P - r))
      BY <1>1, <1>5
    <3> QED BY <3>1
  <2>2. j < P /\ j + (l - k) <= P
    BY <2>1
  <2>3. (X + ((P - (X % P)) + j)) % P = j
    BY <2>2, NextPage
  <2>4. (X + k) % P = j
    BY <2>1, <2>3
  <2> QED BY <2>2, <2>4
<1> QED BY <1>1, <1>3, <1>4, <1>5

(* What a legal request is, in the numbers of the buffer. *)
LegalAt(P, b, L, X, r, addr, len) ==
  /\ P \in Nat \ {0} /\ b \in Nat /\ L \in Nat /\ X \in Nat /\ r \in Nat
  /\ P = PageSize /\ b = mapping.base /\ L = Len(mapping.pages) /\ addr = b + X
  /\ r = X % P /\ r = OffsetOf(addr) /\ len \in Nat \ {0} /\ addr \in Nat
  /\ X + len <= P * L /\ r + len <= 2 * P /\ r < P
  /\ r + len > P => (P - r) % Lane = 0
  /\ LenMod \in Nat /\ 2 * P < LenMod

LEMMA LegalIs ==
  ASSUME PathAssumption, MappingOK, NEW addr \in Memory!Address, NEW len \in Lengths,
         Memory!Legal(addr, len)
  PROVE  \E P, b, L, X, r : LegalAt(P, b, L, X, r, addr, len)
<1>1. PICK L \in Nat, P \in Nat \ {0}, b \in Nat :
        L = Len(mapping.pages) /\ P = PageSize /\ b = mapping.base
  <2>1. Len(mapping.pages) \in Nat
    BY LenProperties DEF MappingOK
  <2> QED BY <2>1 DEF MappingOK, PathAssumption
<1>2. PICK X \in 0 .. P * L - 1 : addr = b + X
  BY <1>1 DEF Memory!Address
<1>3. X \in Nat /\ addr \in Nat /\ addr - b = X
  BY <1>2
<1>4. PICK r \in Nat : r = X % P /\ r < P
  BY <1>3
<1>5. len \in Nat \ {0} /\ LenMod \in Nat /\ 2 * P < LenMod
  BY <1>1 DEF PathAssumption
<1>6. OffsetOf(addr) = r
  BY <1>1, <1>3, <1>4 DEF OffsetOf
<1>7. /\ (addr - b) + len <= P * L
      /\ ((addr - b) % P) + len <= 2 * P
      /\ ((addr - b) % P) + len > P => (P - ((addr - b) % P)) % Lane = 0
  BY <1>1 DEF Memory!Legal
<1>8. X + len <= P * L /\ r + len <= 2 * P /\ (r + len > P => (P - r) % Lane = 0)
  BY <1>3, <1>4, <1>7
<1> QED BY <1>1, <1>2, <1>3, <1>4, <1>5, <1>6, <1>8 DEF LegalAt

(* Where a request is cut. *)
CutOf(T, addr, len) ==
  IF OffsetOf(addr) + len > PageSize THEN T + (PageSize - OffsetOf(addr)) ELSE T + len

LEMMA GrownPages ==
  ASSUME PathAssumption, MappingOK, NEW addr \in Memory!Address, NEW len \in Lengths,
         Memory!Legal(addr, len), NEW n \in Nat,
         NEW z, NEW T, NEW rq, NEW pk, NEW tok, NEW st, Line(z, T, rq, pk, tok, st),
         InPages(z, T, rq, pk, tok, st),
         NEW cut \in Nat, cut = CutOf(T, addr, len), NEW N \in Nat, N = T + len,
         NEW rq1, NEW pk1, NEW tok1, Agrees(T, rq, pk, tok, rq1, pk1, tok1),
         Behind(T, cut, N, addr, n, rq1, pk1, tok1)
  PROVE  InPages(z, N, rq1, pk1, tok1, st \cup {T})
<1>1. z \in Nat /\ T \in Nat /\ z <= T /\ st \subseteq z .. T - 1
  BY DEF Line
<1>20. PICK P, b, L, X, r : LegalAt(P, b, L, X, r, addr, len)
  BY LegalIs
<1>2. /\ P \in Nat \ {0} /\ b \in Nat /\ L \in Nat /\ X \in Nat /\ r \in Nat
      /\ addr \in Nat /\ len \in Nat \ {0} /\ addr = b + X /\ r + len <= 2 * P /\ r < P
      /\ LenMod \in Nat /\ 2 * P < LenMod
  BY <1>20 DEF LegalAt
<1>21. P = PageSize /\ b = mapping.base /\ L = Len(mapping.pages) /\ r = OffsetOf(addr)
  BY <1>20 DEF LegalAt
<1>22. r = X % P
  BY <1>20 DEF LegalAt
<1>23. X + len <= P * L
  BY <1>20 DEF LegalAt
<1>24. r + len > P => (P - r) % Lane = 0
  BY <1>20 DEF LegalAt
<1>3. cut = IF r + len > P THEN T + (P - r) ELSE T + len
  BY <1>21 DEF CutOf
<1>4. ASSUME NEW x \in z .. N - 1, x < T
      PROVE  InBuffer(CmdAt(pk1, tok1)[x])
  <2>1. x \in z .. T - 1
    BY <1>1, <1>4
  <2>2. SameAt(x, rq, pk, tok, rq1, pk1, tok1)
    BY <2>1, AgreesAt
  <2>3. CmdAt(pk1, tok1)[x] = CmdAt(pk, tok)[x]
    BY <2>2 DEF SameAt
  <2>4. InBuffer(CmdAt(pk, tok)[x])
    BY <2>1 DEF InPages
  <2> QED BY <2>3, <2>4
<1>5. ASSUME NEW x \in z .. N - 1, ~(x < T)
      PROVE  InBuffer(CmdAt(pk1, tok1)[x])
  <2>1. PICK k \in Nat : x = T + k /\ k = x - T /\ k < len
    <3>1. x - T \in Nat /\ x = T + (x - T) /\ x - T < len
      BY <1>1, <1>2, <1>5
    <3> QED BY <3>1
  <2>2. x \in Nat /\ x >= T
    BY <1>1, <2>1
  <2>3. /\ (x < cut => pk1[x] = cut) /\ (~(x < cut) => pk1[x] = N)
        /\ tok1[x].vaddr = addr + (x - T)
    <3>1. /\ pk1[x] = (IF x < cut THEN cut ELSE N)
          /\ tok1[x] = [vaddr |-> addr + (x - T), request |-> n]
      BY <2>2 DEF Behind
    <3> QED BY <3>1
  <2>4. /\ r + len <= P => ((X + k) % P) + (len - k) <= P
        /\ r + len > P /\ k < P - r => ((X + k) % P) + ((P - r) - k) <= P
        /\ r + len > P /\ ~(k < P - r) => ((X + k) % P) + (len - k) <= P
    BY <1>2, <1>22, <2>1, CutOfRequest
  <2>5. PICK y \in Nat, l \in Nat : y = (X + k) % P /\ l = pk1[x] - x /\ y + l <= P
    <3>1. (X + k) % P \in Nat
      BY <1>2
    <3>2. CASE r + len <= P
      <4>1. cut = N /\ x < cut
        BY <1>1, <1>2, <1>3, <2>1, <3>2
      <4>2. pk1[x] - x = len - k /\ len - k \in Nat
        BY <1>1, <1>2, <2>1, <2>3, <4>1
      <4> QED BY <2>4, <3>1, <3>2, <4>2
    <3>3. CASE r + len > P /\ k < P - r
      <4>1. x < cut /\ cut = T + (P - r)
        BY <1>1, <1>2, <1>3, <2>1, <3>3
      <4>2. pk1[x] - x = (P - r) - k /\ (P - r) - k \in Nat
        BY <1>1, <1>2, <2>1, <2>3, <3>3, <4>1, SMTT(30)
      <4> QED BY <2>4, <3>1, <3>3, <4>2
    <3>4. CASE r + len > P /\ ~(k < P - r)
      <4>1. ~(x < cut)
        BY <1>1, <1>2, <1>3, <2>1, <3>4
      <4>2. pk1[x] - x = len - k /\ len - k \in Nat
        BY <1>1, <1>2, <2>1, <2>3, <4>1
      <4> QED BY <2>4, <3>1, <3>4, <4>2
    <3>5. r + len \in Nat /\ P \in Nat
      BY <1>2
    <3> QED BY <3>2, <3>3, <3>4, <3>5
  <2>6. CmdAt(pk1, tok1)[x].addr = addr + k /\ CmdAt(pk1, tok1)[x].len = l
    <3>1. CmdAt(pk1, tok1)[x] = [addr |-> tok1[x].vaddr, len |-> pk1[x] - x]
      BY <2>2 DEF CmdAt
    <3>2. addr + (x - T) = addr + k
      BY <2>1
    <3>3. tok1[x].vaddr = addr + k /\ pk1[x] - x = l
      BY <2>3, <2>5, <3>2
    <3> QED BY <3>1, <3>3
  <2>7. /\ addr + k >= b /\ l < LenMod /\ (addr + k) - b = X + k /\ X + k < P * L
    <3>1. l <= P
      <4>1. \A u, v \in Nat : u + v <= P => v <= P
        BY <1>2
      <4> QED BY <2>5, <4>1
    <3>2. PICK q \in Nat : q = P * L
      BY <1>2
    <3>3. X + len <= q
      BY <1>23, <3>2
    <3>4. X + k < q
      BY <1>2, <2>1, <3>3
    <3>5. addr + k >= b /\ l < LenMod /\ (addr + k) - b = X + k
      BY <1>2, <2>5, <3>1
    <3> QED BY <3>2, <3>4, <3>5
  <2> QED BY <1>21, <2>5, <2>6, <2>7 DEF InBuffer
<1>6. ASSUME NEW x \in st PROVE CutAt(x, rq1, pk1, tok1)
  <2>1. x \in z .. T - 1 /\ x \in Nat /\ x < T
    BY <1>1
  <2>2. rq1[x] = rq[x] /\ pk1[x] = pk[x] /\ tok1[x] = tok[x]
    BY <2>1 DEF Agrees
  <2>3. CutAt(x, rq, pk, tok)
    BY DEF InPages
  <2> QED BY <2>2, <2>3 DEF CutAt
<1>7. CutAt(T, rq1, pk1, tok1)
  <2>1. T >= T /\ T < cut
    BY <1>1, <1>2, <1>3
  <2>2. /\ rq1[T] = N /\ pk1[T] = cut /\ tok1[T].vaddr = addr + (T - T)
    <3>1. /\ rq1[T] = N /\ pk1[T] = (IF T < cut THEN cut ELSE N)
          /\ tok1[T] = [vaddr |-> addr + (T - T), request |-> n]
      BY <1>1, <2>1 DEF Behind
    <3> QED BY <2>1, <3>1
  <2>3. addr + (T - T) = addr
    BY <1>1, <1>2
  <2>4. OffsetOf(tok1[T].vaddr) = r
    BY <1>21, <2>2, <2>3
  <2>5. N - T = len /\ cut - T = IF r + len > P THEN P - r ELSE len
    BY <1>1, <1>2, <1>3
  <2>6. pk1[T] = IF OffsetOf(tok1[T].vaddr) + (rq1[T] - T) > PageSize
             THEN T + (PageSize - OffsetOf(tok1[T].vaddr)) ELSE rq1[T]
    BY <1>3, <1>21, <2>2, <2>4, <2>5
  <2>7. ASSUME pk1[T] < rq1[T] PROVE (pk1[T] - T) % Lane = 0
    <3>1. r + len > P
      BY <1>1, <1>2, <1>3, <2>2, <2>7
    <3>2. pk1[T] - T = P - r
      BY <2>2, <2>5, <3>1
    <3> QED BY <1>24, <3>1, <3>2
  <2> QED BY <2>6, <2>7 DEF CutAt
<1>8. \A x \in z .. N - 1 : InBuffer(CmdAt(pk1, tok1)[x])
  BY <1>4, <1>5
<1>9. \A x \in st \cup {T} : CutAt(x, rq1, pk1, tok1)
  BY <1>6, <1>7
<1> QED BY <1>8, <1>9 DEF InPages

(* One queue behind the other. *)
LEMMA ConcatQueue ==
  ASSUME NEW S, NEW q \in Seq(S), NEW s \in Seq(S), NEW K, NEW next, NEW G, NEW a, NEW b, NEW c,
         Queue(q, K, next, G, a, b), Queue(s, K, next, G, b, c)
  PROVE  q \o s \in Seq(S) /\ Queue(q \o s, K, next, G, a, c)
<1>1. /\ q \o s \in Seq(S) /\ Len(q \o s) = Len(q) + Len(s)
      /\ \A i \in 1 .. Len(q) + Len(s) : (q \o s)[i] = IF i <= Len(q) THEN q[i] ELSE s[i - Len(q)]
  BY ConcatProperties
<1>2. PICK n \in Nat, m \in Nat : n = Len(q) /\ m = Len(s)
  BY LenProperties
<1>3. PICK u : u = q \o s
  OBVIOUS
<1>4. Len(u) = n + m /\ \A i \in 1 .. n + m : u[i] = IF i <= n THEN q[i] ELSE s[i - n]
  BY <1>1, <1>2, <1>3
<1>5. PICK f \in [Nat -> Nat] :
        /\ f[1] = a /\ f[n + 1] = b
        /\ \A i \in 1 .. n : f[i] \in G /\ q[i] = K[f[i]] /\ f[i + 1] = next[f[i]]
  BY <1>2 DEF Queue, Stream
<1>6. PICK g \in [Nat -> Nat] :
        /\ g[1] = b /\ g[m + 1] = c
        /\ \A i \in 1 .. m : g[i] \in G /\ s[i] = K[g[i]] /\ g[i + 1] = next[g[i]]
  BY <1>2 DEF Queue, Stream
<1>7. PICK h : h = [i \in Nat |-> IF i <= n THEN f[i] ELSE g[i - n]]
  OBVIOUS
<1>8. h \in [Nat -> Nat] /\ (\A i \in Nat : h[i] = IF i <= n THEN f[i] ELSE g[i - n])
  <2>1. \A i \in Nat : (IF i <= n THEN f[i] ELSE g[i - n]) \in Nat
    <3> TAKE i \in Nat
    <3>2. f \in [Nat -> Nat] /\ g \in [Nat -> Nat]
      OBVIOUS
    <3>3. f[i] \in Nat
      BY <3>2
    <3>4. ~(i <= n) => i - n \in Nat
      OBVIOUS
    <3>1. f[i] \in Nat /\ (~(i <= n) => i - n \in Nat)
      BY <3>3, <3>4
    <3> QED BY <3>1, <3>2
  <2> QED BY <1>7, <2>1
<1>9. h[n + 1] = b
  <2>1. (n + 1) - n = 1 /\ ~(n + 1 <= n) /\ n + 1 \in Nat
    OBVIOUS
  <2> QED BY <1>6, <1>8, <2>1
<1>10. h[1] = a
  <2>1. CASE n = 0
    <3>1. n + 1 = 1
      BY <2>1
    <3> QED BY <1>5, <1>9, <3>1
  <2>2. CASE n # 0
    BY <1>5, <1>8, <2>2
  <2> QED BY <2>1, <2>2
<1>11. h[(n + m) + 1] = c
  <2>1. ((n + m) + 1) - n = m + 1 /\ ~((n + m) + 1 <= n) /\ (n + m) + 1 \in Nat
    OBVIOUS
  <2> QED BY <1>6, <1>8, <2>1
<1>12. ASSUME NEW i \in 1 .. n + m
       PROVE  h[i] \in G /\ u[i] = K[h[i]] /\ h[i + 1] = next[h[i]]
  <2>1. CASE i < n
    <3>1. i \in 1 .. n /\ i <= n /\ i + 1 <= n /\ i \in Nat /\ i + 1 \in Nat
      BY <2>1
    <3>2. h[i] = f[i] /\ h[i + 1] = f[i + 1] /\ u[i] = q[i]
      BY <1>4, <1>8, <3>1
    <3> QED BY <1>5, <3>1, <3>2
  <2>2. CASE i = n
    <3>1. i \in 1 .. n /\ i <= n /\ i \in Nat
      BY <2>2
    <3>2. h[i] = f[i] /\ h[i + 1] = f[i + 1] /\ u[i] = q[i]
      BY <1>4, <1>5, <1>8, <1>9, <2>2, <3>1
    <3> QED BY <1>5, <3>1, <3>2
  <2>3. CASE i > n
    <3>1. PICK j \in Nat : j = i - n
      BY <2>3
    <3>2. /\ j \in 1 .. m /\ (i + 1) - n = j + 1 /\ ~(i <= n) /\ ~(i + 1 <= n)
          /\ i \in Nat /\ i + 1 \in Nat
      BY <2>3, <3>1
    <3>3. h[i] = g[j] /\ h[i + 1] = g[j + 1] /\ u[i] = s[j]
      BY <1>4, <1>8, <3>1, <3>2
    <3> QED BY <1>6, <3>2, <3>3
  <2> QED BY <2>1, <2>2, <2>3
<1>13. Stream(u, n + m, K, next, G, a, c)
  BY <1>8, <1>10, <1>11, <1>12 DEF Stream
<1> QED BY <1>1, <1>3, <1>4, <1>13 DEF Queue

(* The words of a packet of l bytes, and where they begin in it. *)
Begins(W, l, n, g) ==
  /\ n \in Nat \ {0} /\ g \in [Nat -> Nat] /\ g[1] = 0 /\ l <= g[n + 1]
  /\ \A i \in 1 .. n : g[i] = (i - 1) * W /\ g[i + 1] = g[i] + W /\ g[i] < l

LEMMA WordsBegin ==
  ASSUME NEW W \in Nat \ {0}, NEW l \in Nat \ {0}
  PROVE  \E n, g : n = (l + W - 1) \div W /\ Begins(W, l, n, g)
<1>1. PICK y \in Int : y = l + (W - 1)
  OBVIOUS
<1>2. PICK q \in Int, r \in Int : y = W * q + r /\ 0 <= r /\ r < W /\ q = y \div W
  BY Divided
<1>3. PICK p \in Int : p = W * q /\ l <= p /\ p < l + W
  <2>1. W * q \in Int
    OBVIOUS
  <2> QED BY <1>1, <1>2, <2>1
<1>4. q >= 1
  <2>1. ASSUME q <= 0 PROVE FALSE
    <3>1. PICK j \in Nat : q = 0 - j
      <4>1. 0 - q \in Nat /\ q = 0 - (0 - q)
        BY <2>1
      <4> QED BY <4>1
    <3>2. W * q = 0 - (W * j) /\ W * j >= 0
      BY <3>1
    <3> QED BY <1>3, <3>2
  <2> QED BY <2>1
<1>5. PICK g : g = [i \in Nat |-> IF i = 0 THEN 0 ELSE (i - 1) * W]
  OBVIOUS
<1>6. g \in [Nat -> Nat] /\ \A i \in Nat \ {0} : g[i] = (i - 1) * W
  <2>1. \A i \in Nat : (IF i = 0 THEN 0 ELSE (i - 1) * W) \in Nat
    OBVIOUS
  <2> QED BY <1>5, <2>1
<1>7. q \in Nat \ {0}
  BY <1>4
<1>8. g[1] = 0
  <2>1. (1 - 1) * W = 0
    OBVIOUS
  <2> QED BY <1>6, <2>1
<1>9. g[q + 1] = p
  <2>1. q + 1 \in Nat \ {0} /\ (q + 1) - 1 = q /\ q * W = W * q
    BY <1>7
  <2> QED BY <1>3, <1>6, <2>1
<1>10. ASSUME NEW i \in 1 .. q
       PROVE  g[i] = (i - 1) * W /\ g[i + 1] = g[i] + W /\ g[i] < l
  <2>1. i \in Nat \ {0} /\ i + 1 \in Nat \ {0}
    OBVIOUS
  <2>2. g[i] = (i - 1) * W /\ g[i + 1] = ((i + 1) - 1) * W
    BY <1>6, <2>1
  <2>3. ((i + 1) - 1) * W = (i - 1) * W + W
    OBVIOUS
  <2>4. (i - 1) * W < l
    <3>1. PICK j \in Nat : q = i + j
      <4>1. q - i \in Nat /\ q = i + (q - i)
        BY <1>7
      <4> QED BY <4>1
    <3>2. W * q = ((i - 1) * W + W) + W * j /\ W * j >= 0
      BY <3>1
    <3>3. PICK v \in Int, w \in Int : v = (i - 1) * W /\ w = W * j
      OBVIOUS
    <3>4. p = (v + W) + w /\ w >= 0
      BY <1>3, <3>2, <3>3
    <3>5. v < l
      BY <1>3, <3>4
    <3> QED BY <3>3, <3>5
  <2> QED BY <2>2, <2>3, <2>4
<1>11. Begins(W, l, q, g)
  BY <1>3, <1>6, <1>7, <1>8, <1>9, <1>10 DEF Begins
<1>12. q = (l + W - 1) \div W
  BY <1>1, <1>2
<1> QED BY <1>11, <1>12

(* The words of a request from T to N are a queue. *)
Ends(rq, T, N) == \A x \in Nat : x >= T => rq[x] = N
LEMMA WordsQueue ==
  ASSUME PathAssumption, NEW tok \in [Nat -> Byte], NEW T \in Nat, NEW l \in Nat \ {0},
         NEW N \in Nat, N = T + l, NEW z \in Nat, z <= T, NEW rq, Ends(rq, T, N)
  PROVE  /\ Words(Slice(tok, T, l)) \in Seq(DataWord)
         /\ Queue(Words(Slice(tok, T, l)), WordAt(rq, tok), WordEnd(rq), z .. N - 1, T, N)
<1>1. PICK W \in Nat \ {0} : W = WordSize
  BY DEF PathAssumption
<1>2. PICK n, g : n = (l + W - 1) \div W /\ Begins(W, l, n, g)
  BY WordsBegin
<1>3. /\ n \in Nat \ {0} /\ g \in [Nat -> Nat] /\ g[1] = 0 /\ l <= g[n + 1]
      /\ \A i \in 1 .. n : g[i] = (i - 1) * W /\ g[i + 1] = g[i] + W /\ g[i] < l
  BY <1>2 DEF Begins
<1>30. \A i \in Nat : g[i] \in Nat
  <2>1. g \in [Nat -> Nat]
    BY <1>3
  <2> QED BY <2>1
<1>31. \A i \in 1 .. n : i \in Nat /\ i + 1 \in Nat
  BY <1>3
<1>4. PICK s : s = Slice(tok, T, l) /\ Len(s) = l
  BY SliceSeq
<1>5. PICK q : q = Words(s)
  OBVIOUS
<1>6. q = [i \in 1 .. n |-> [bytes |-> First(Beyond(s, (i - 1) * W), W), last |-> i = n]]
  BY <1>1, <1>2, <1>4, <1>5 DEF Words
<1>7. ASSUME NEW i \in 1 .. n
      PROVE  /\ T + g[i] \in Nat /\ T + g[i] \in z .. N - 1 /\ q[i] = WordAt(rq, tok)[T + g[i]]
             /\ q[i] \in DataWord /\ WordEnd(rq)[T + g[i]] = Lesser(T + g[i + 1], N)
  <2>1. PICK y \in Nat : y = g[i] /\ y < l /\ y = (i - 1) * W /\ g[i + 1] = y + W
    <3>1. g[i] \in Nat
      BY <1>30, <1>31
    <3> QED BY <1>3, <3>1
  <2>2. PICK x \in Nat : x = T + y /\ x \in z .. N - 1 /\ x >= T /\ N - x = l - y /\ x < N
    <3>1. T + y \in Nat /\ T + y \in z .. N - 1 /\ T + y >= T /\ N - (T + y) = l - y /\ T + y < N
      BY <2>1
    <3> QED BY <3>1
  <2>3. rq[x] = N
    BY <2>2 DEF Ends
  <2>30. rq[x] \in Nat /\ x < rq[x]
    BY <2>2, <2>3
  <2>4. /\ WordAt(rq, tok)[x] = [bytes |-> Slice(tok, x, Lesser(WordSize, rq[x] - x)),
                                 last |-> rq[x] - x <= WordSize]
        /\ WordAt(rq, tok)[x] \in DataWord
        /\ WordEnd(rq)[x] = Lesser(x + WordSize, rq[x])
    <3>1. WordAt(rq, tok)[x] = [bytes |-> Slice(tok, x, Lesser(WordSize, rq[x] - x)),
                                last |-> rq[x] - x <= WordSize]
      BY DEF WordAt
    <3>2. WordAt(rq, tok)[x] \in DataWord
      BY <2>30, WordAtIs
    <3>3. WordEnd(rq)[x] = Lesser(x + WordSize, rq[x])
      BY DEF WordEnd
    <3> QED BY <3>1, <3>2, <3>3, Zenon
  <2>5. Beyond(s, y) = Slice(tok, T + y, l - y)
    <3>1. y <= l /\ l \in Nat
      BY <2>1
    <3> QED BY <1>4, <3>1, BeyondSlice
  <2>6. PICK m \in Nat : m = l - y
    BY <2>1
  <2>7. First(Slice(tok, x, m), W) = Slice(tok, x, Lesser(W, m))
    <3>1. W \in Nat
      OBVIOUS
    <3> QED BY <3>1, FirstSlice
  <2>8. (i = n) = (m <= W)
    <3>1. CASE i = n
      BY <1>3, <2>1, <2>6, <3>1
    <3>2. CASE i # n
      <4>1. i + 1 \in 1 .. n
        BY <1>3, <3>2
      <4>2. y + W < l
        BY <1>3, <2>1, <4>1
      <4>3. ~(m <= W)
        BY <2>1, <2>6, <4>2
      <4> QED BY <3>2, <4>3
    <3> QED BY <3>1, <3>2
  <2>9. q[i] = [bytes |-> First(Beyond(s, y), W), last |-> i = n]
    BY <1>6, <2>1
  <2>10. First(Beyond(s, y), W) = Slice(tok, x, Lesser(W, m))
    BY <2>2, <2>5, <2>6, <2>7
  <2>11. rq[x] - x = m
    BY <2>2, <2>3, <2>6
  <2>12. q[i] = WordAt(rq, tok)[x]
    BY <1>1, <2>4, <2>8, <2>9, <2>10, <2>11, Zenon
  <2>13. WordEnd(rq)[x] = Lesser(T + g[i + 1], N)
    <3>1. x + W = T + g[i + 1]
      BY <2>1, <2>2
    <3> QED BY <1>1, <2>3, <2>4, <3>1
  <2>14. x = T + g[i]
    BY <2>1, <2>2
  <2> QED BY <2>2, <2>4, <2>12, <2>13, <2>14
<1>8. q \in [1 .. n -> DataWord]
  <2>1. DOMAIN q = 1 .. n /\ q = [i \in 1 .. n |-> q[i]]
    BY <1>6
  <2> QED BY <1>7, <2>1
<1>9. q \in Seq(DataWord) /\ Len(q) = n
  <2>1. n \in Nat
    BY <1>3
  <2> QED BY <1>8, <2>1, SeqOfLength
<1>10. PICK f : f = [i \in Nat |-> Lesser(T + g[i], N)]
  OBVIOUS
<1>11. f \in [Nat -> Nat]
  <2>1. ASSUME NEW i \in Nat PROVE Lesser(T + g[i], N) \in Nat
    <3>1. g[i] \in Nat
      BY <1>30
    <3> QED BY <3>1 DEF Lesser
  <2> QED BY <1>10, <2>1
<1>12. \A i \in Nat : f[i] = Lesser(T + g[i], N)
  BY <1>10
<1>13. \A i \in 1 .. n : f[i] = T + g[i]
  <2> TAKE i \in 1 .. n
  <2>1. g[i] < l /\ g[i] \in Nat /\ i \in Nat
    BY <1>3, <1>30, <1>31
  <2>2. T + g[i] <= N
    BY <2>1
  <2> QED BY <1>12, <2>1, <2>2 DEF Lesser
<1>14. f[1] = T
  <2>1. 1 \in 1 .. n
    BY <1>3
  <2>2. f[1] = T + g[1] /\ g[1] = 0
    BY <1>3, <1>13, <2>1
  <2>3. T + 0 = T
    OBVIOUS
  <2> QED BY <2>2, <2>3
<1>15. f[n + 1] = N
  <2>1. n + 1 \in Nat /\ g[n + 1] \in Nat
    BY <1>3
  <2>2. PICK y \in Nat : y = g[n + 1] /\ l <= y
    BY <1>3, <2>1
  <2>3. Lesser(T + y, N) = N
    <3>1. PICK v \in Nat : v = T + y /\ N <= v
      BY <2>2
    <3>2. v <= N => v = N
      BY <3>1
    <3>3. Lesser(v, N) = N
      BY <3>2 DEF Lesser
    <3> QED BY <3>1, <3>3
  <2> QED BY <1>12, <2>1, <2>2, <2>3
<1>16. ASSUME NEW i \in 1 .. n
       PROVE  f[i] \in z .. N - 1 /\ q[i] = WordAt(rq, tok)[f[i]] /\ f[i + 1] = WordEnd(rq)[f[i]]
  <2>1. i + 1 \in Nat
    OBVIOUS
  <2>2. f[i] = T + g[i] /\ f[i + 1] = Lesser(T + g[i + 1], N)
    BY <1>12, <1>13, <2>1
  <2> QED BY <1>7, <2>2
<1>17. Stream(q, n, WordAt(rq, tok), WordEnd(rq), z .. N - 1, T, N)
  <2>1. PICK K, next, G : K = WordAt(rq, tok) /\ next = WordEnd(rq) /\ G = z .. N - 1
    OBVIOUS
  <2>2. \A i \in 1 .. n : f[i] \in G /\ q[i] = K[f[i]] /\ f[i + 1] = next[f[i]]
    BY <1>16, <2>1
  <2>3. Stream(q, n, K, next, G, T, N)
    BY <1>11, <1>14, <1>15, <2>2 DEF Stream
  <2> QED BY <2>1, <2>3
<1> QED BY <1>4, <1>5, <1>9, <1>17 DEF Queue

(* The bytes of a request are those of the line behind T. *)
LEMMA BytesSlice ==
  ASSUME NEW T \in Nat, NEW cut \in Nat, NEW N \in Nat, NEW addr \in Nat, NEW n \in Nat,
         NEW rq1, NEW pk1, NEW tok1 \in [Nat -> Byte], Behind(T, cut, N, addr, n, rq1, pk1, tok1),
         NEW len \in Nat
  PROVE  Memory!Bytes(n, addr, len) = Slice(tok1, T, len)
<1>1. ASSUME NEW k \in 1 .. len
      PROVE  [vaddr |-> addr + k - 1, request |-> n] = tok1[T + (k - 1)]
  <2>1. PICK x \in Nat : x = T + (k - 1)
    OBVIOUS
  <2>2. x >= T /\ addr + (x - T) = addr + k - 1
    BY <2>1
  <2>3. tok1[x] = [vaddr |-> addr + (x - T), request |-> n]
    BY <2>2 DEF Behind
  <2> QED BY <2>1, <2>2, <2>3
<1> QED BY <1>1 DEF Memory!Bytes, Slice

LEMMA WiderRange ==
  ASSUME NEW a \in Nat, NEW b \in Nat, a <= b, NEW S, S \subseteq 0 .. a
  PROVE  S \subseteq 0 .. b
<1>1. \A x \in 0 .. a : x \in 0 .. b
  OBVIOUS
<1> QED BY <1>1

(* The line after a request was issued. *)
Issued(T, rq, pk, tok, N, rq1, pk1, tok1, addr, len) ==
  /\ N \in Nat /\ N = T + len /\ Agrees(T, rq, pk, tok, rq1, pk1, tok1)
  /\ Memory!Bytes(requests + 1, addr, len) = Slice(tok1, T, len)

LEMMA IssueWriteKeeps ==
  ASSUME PathAssumption, MappingOK, WriteTypes, Counters, BasesAtPages,
         NEW z, NEW T, NEW rq, NEW pk, NEW tok, NEW st, NEW f,
         WritesAt(z, T, rq, pk, tok, st, f),
         NEW addr \in Memory!Address, NEW len \in Lengths, IssueWrite(addr, len)
  PROVE  /\ WriteTypes' /\ Counters' /\ BasesAtPages'
         /\ \E N, rq1, pk1, tok1 :
              /\ Issued(T, rq, pk, tok, N, rq1, pk1, tok1, addr, len)
              /\ WritesAt(z, N, rq1, pk1, tok1, st \cup {T}, f)'
<1>1. PICK m, b, c, e, d, d1, d2, o, i : At(z, T, rq, pk, tok, st, f, m, b, c, e, d, d1, d2, o, i)
  BY DEF WritesAt
<1>2. /\ Line(z, T, rq, pk, tok, st) /\ InPages(z, T, rq, pk, tok, st)
      /\ Commands(T, rq, pk, tok, st, m, b, c) /\ Checking(z, T, pk, tok, e, b)
      /\ Packets(z, T, pk, tok, d, d1, d2, e) /\ Moving(z, T, pk, d, f)
      /\ Data(z, T, rq, pk, tok, f, o, i) /\ Splitting(z, T, rq, pk, tok, o, i, m)
      /\ {f, m, b, c, e, d, d1, d2, o, i} \subseteq 0 .. T
  BY <1>1 DEF At
<1>3. /\ mapping' = mapping /\ tlbInterface' = tlbInterface /\ tlbInterface = <<>>
      /\ c2hDsc' = c2hDsc /\ c2hDone' = c2hDone /\ dmaWriteCmd' = dmaWriteCmd
      /\ metaFifo' = metaFifo /\ cmdOut' = cmdOut
      /\ pageOffsetFifo' = pageOffsetFifo /\ cmd' = cmd /\ bc_state' = bc_state
      /\ dataOut' = dataOut /\ pbc_state' = pbc_state
      /\ metaLoaded' = metaLoaded /\ meta' = meta /\ prevWord' = prevWord
      /\ requests < MaxRequests /\ requests' = requests + 1
      /\ cmdIn' = Append(cmdIn, [addr |-> addr, len |-> len])
      /\ Memory!Legal(addr, len)
  BY DEF IssueWrite, tlbVars, writeVars
<1>4. dataIn' = dataIn \o Words(Memory!Bytes(requests + 1, addr, len))
  BY DEF IssueWrite
<1>5. Counters' /\ BasesAtPages'
  <2>1. /\ h2cDone' = h2cDone /\ dma_write_cmd_counter' = dma_write_cmd_counter
        /\ dma_write_pkg_counter' = dma_write_pkg_counter
        /\ tlbMissCounter' = tlbMissCounter /\ tlbPageCrossingCounter' = tlbPageCrossingCounter
        /\ regBaseVaddr' = regBaseVaddr /\ regBaseVaddrBoundCheck' = regBaseVaddrBoundCheck
    BY DEF IssueWrite, tlbVars, writeVars, readVars, baseVars
  <2>2. Counters'
    BY <1>3, <2>1 DEF Counters
  <2>3. BasesAtPages'
    BY <1>3, <2>1 DEF BasesAtPages
  <2> QED BY <2>2, <2>3
<1>6. /\ z \in Nat /\ T \in Nat /\ z <= T /\ st \subseteq z .. T - 1
      /\ rq \in [Nat -> Nat] /\ pk \in [Nat -> Nat] /\ tok \in [Nat -> Byte]
  BY <1>2 DEF Line
<1>7. PICK P, b0, L, X, r : LegalAt(P, b0, L, X, r, addr, len)
  BY <1>3, LegalIs
<1>8. addr \in Nat /\ len \in Nat \ {0} /\ len \in Nat
  BY <1>7 DEF LegalAt
<1>9. PICK N \in Nat : N = T + len /\ T < N
  <2>1. T + len \in Nat /\ T < T + len
    BY <1>6, <1>8
  <2> QED BY <2>1
<1>10. PICK cut \in Nat : cut = CutOf(T, addr, len) /\ T < cut /\ cut <= N
  <2>1. /\ P \in Nat /\ r \in Nat /\ r < P /\ P = PageSize /\ r = OffsetOf(addr)
    BY <1>7 DEF LegalAt
  <2>2. CutOf(T, addr, len) = IF r + len > P THEN T + (P - r) ELSE T + len
    BY <2>1 DEF CutOf
  <2>3. /\ CutOf(T, addr, len) \in Nat /\ T < CutOf(T, addr, len) /\ CutOf(T, addr, len) <= N
    <3>1. CASE r + len > P
      <4>1. PICK y \in Nat : y = P - r /\ 0 < y /\ y < len
        BY <1>8, <2>1, <3>1
      <4>2. CutOf(T, addr, len) = T + y
        BY <2>2, <3>1, <4>1
      <4>3. T + y \in Nat /\ T < T + y /\ T + y <= N
        <5>1. 0 < y /\ y < len
          BY <4>1
        <5>2. T \in Nat /\ len \in Nat /\ N = T + len
          BY <1>6, <1>8, <1>9
        <5>3. \A u, v, w \in Nat : 0 < v /\ v < w => u + v \in Nat /\ u < u + v /\ u + v <= u + w
          OBVIOUS
        <5> QED BY <5>1, <5>2, <5>3
      <4> QED BY <4>2, <4>3
    <3>2. CASE ~(r + len > P)
      BY <1>6, <1>8, <1>9, <2>1, <2>2, <3>2
    <3> QED BY <3>1, <3>2
  <2> QED BY <2>3
<1>11. PICK n \in Nat : n = requests + 1
  BY DEF WriteTypes
<1>12. PICK rq1, pk1, tok1 : /\ Agrees(T, rq, pk, tok, rq1, pk1, tok1)
                             /\ Behind(T, cut, N, addr, n, rq1, pk1, tok1)
  BY <1>6, <1>8, GrownExists
<1>13. Line(z, N, rq1, pk1, tok1, st \cup {T})
  <2>1. T < cut /\ cut <= N
    BY <1>10
  <2> QED BY <1>2, <1>8, <1>12, <2>1, GrownLine
<1>14. InPages(z, N, rq1, pk1, tok1, st \cup {T})
  BY <1>2, <1>3, <1>9, <1>10, <1>12, GrownPages
<1>15. \A x \in z .. T - 1 : SameAt(x, rq, pk, tok, rq1, pk1, tok1)
  BY <1>2, <1>12, AgreesAt
<1>16. /\ Queue(cmdIn, CmdAt(rq1, tok1), rq1, st \cup {T}, c, T)
       /\ Queue(pageOffsetFifo, OffsetAt(rq1, tok1), rq1, st \cup {T}, b, c)
       /\ Queue(metaFifo, MetaAt(rq1, pk1), rq1, st \cup {T}, m, b)
       /\ Packets(z, N, pk1, tok1, d, d1, d2, e)
       /\ Queue(dataOut, WordAt(pk1, tok1), WordEnd(pk1), z .. N - 1, f, o)
       /\ Queue(dataIn, WordAt(rq1, tok1), WordEnd(rq1), z .. N - 1, i, T)
  <2>1. T < N
    BY <1>9
  <2> QED BY <1>2, <1>6, <1>15, <2>1, GrownQueues
<1>17. /\ Checking(z, N, pk1, tok1, e, b) /\ Moving(z, N, pk1, d, f)
       /\ Splitting(z, N, rq1, pk1, tok1, o, i, m)
  <2>1. T < N
    BY <1>9
  <2>2. i \in 0 .. T
    BY <1>2
  <2> QED BY <1>2, <1>6, <1>12, <1>15, <2>1, <2>2, GrownProcesses
<1>18. rq1[T] = N /\ tok1[T].vaddr = addr /\ tok1 \in [Nat -> Byte] /\ Ends(rq1, T, N)
  <2>1. T >= T /\ addr + (T - T) = addr
    BY <1>6, <1>8
  <2>2. rq1[T] = N /\ tok1[T] = [vaddr |-> addr + (T - T), request |-> n]
    BY <1>6, <1>12, <2>1 DEF Behind
  <2>3. Ends(rq1, T, N)
    BY <1>12 DEF Behind, Ends
  <2>4. tok1 \in [Nat -> Byte]
    BY <1>12 DEF Agrees
  <2> QED BY <2>1, <2>2, <2>3, <2>4
<1>19. CmdAt(rq1, tok1)[T] = [addr |-> addr, len |-> len] /\ [addr |-> addr, len |-> len] \in Cmd
  <2>1. CmdAt(rq1, tok1)[T] = [addr |-> tok1[T].vaddr, len |-> rq1[T] - T]
    BY <1>6 DEF CmdAt
  <2>2. N - T = len
    BY <1>6, <1>8, <1>9
  <2>3. CmdAt(rq1, tok1)[T] = [addr |-> addr, len |-> len]
    BY <1>18, <2>1, <2>2
  <2>4. [addr |-> addr, len |-> len] \in Cmd
    BY <1>8 DEF Cmd
  <2> QED BY <2>3, <2>4
<1>20. cmdIn' \in Seq(Cmd) /\ Queue(cmdIn', CmdAt(rq1, tok1), rq1, st \cup {T}, c, N)
  <2>1. PICK K, G, q : K = CmdAt(rq1, tok1) /\ G = st \cup {T} /\ q = cmdIn
    OBVIOUS
  <2>2. q \in Seq(Cmd) /\ Queue(q, K, rq1, G, c, T) /\ T \in G /\ K[T] \in Cmd /\ rq1[T] \in Nat
    BY <1>16, <1>18, <1>19, <2>1 DEF WriteTypes
  <2>3. Append(q, K[T]) \in Seq(Cmd) /\ Queue(Append(q, K[T]), K, rq1, G, c, rq1[T])
    BY <2>2, PushQueue
  <2>4. cmdIn' = Append(q, K[T])
    BY <1>3, <1>19, <2>1
  <2> QED BY <1>18, <2>1, <2>3, <2>4
<1>21. Memory!Bytes(n, addr, len) = Slice(tok1, T, len)
  <2>1. tok1 \in [Nat -> Byte]
    BY <1>18
  <2>2. T \in Nat /\ addr \in Nat /\ len \in Nat
    BY <1>6, <1>8
  <2> QED BY <1>12, <2>1, <2>2, BytesSlice
<1>22. /\ Words(Slice(tok1, T, len)) \in Seq(DataWord)
       /\ Queue(Words(Slice(tok1, T, len)), WordAt(rq1, tok1), WordEnd(rq1), z .. N - 1, T, N)
  <2>1. N = T + len
    BY <1>9
  <2> QED BY <1>6, <1>8, <1>18, <2>1, WordsQueue
<1>23. dataIn' \in Seq(DataWord) /\ Queue(dataIn', WordAt(rq1, tok1), WordEnd(rq1), z .. N - 1, i, N)
  <2>1. PICK K, next, G, s : /\ K = WordAt(rq1, tok1) /\ next = WordEnd(rq1) /\ G = z .. N - 1
                             /\ s = Words(Slice(tok1, T, len))
    OBVIOUS
  <2>2. Queue(dataIn, K, next, G, i, T) /\ Queue(s, K, next, G, T, N) /\ s \in Seq(DataWord)
        /\ dataIn \in Seq(DataWord)
    BY <1>16, <1>22, <2>1 DEF WriteTypes
  <2>3. dataIn \o s \in Seq(DataWord) /\ Queue(dataIn \o s, K, next, G, i, N)
    BY <2>2, ConcatQueue
  <2>4. dataIn' = dataIn \o s
    BY <1>4, <1>11, <1>21, <2>1
  <2> QED BY <2>1, <2>3, <2>4
<1>24. WriteTypes'
  <2>1. requests' \in 0 .. MaxRequests
    BY <1>3 DEF WriteTypes, PathAssumption
  <2> QED BY <1>3, <1>20, <1>23, <2>1 DEF WriteTypes
<1>25. InPages(z, N, rq1, pk1, tok1, st \cup {T})'
  BY <1>3, <1>14, SameMapping
<1>26. Commands(N, rq1, pk1, tok1, st \cup {T}, m, b, c)'
  <2>1. OffsetAt(rq1, tok1)' = OffsetAt(rq1, tok1)
    BY <1>3, SameMapping
  <2> QED BY <1>3, <1>16, <1>20, <2>1 DEF Commands
<1>27. Packets(z, N, pk1, tok1, d, d1, d2, e)'
  BY <1>3, <1>16, SamePackets
<1>28. Checking(z, N, pk1, tok1, e, b)' /\ Moving(z, N, pk1, d, f)'
  BY <1>3, <1>17, SameChecking, SameMoving
<1>29. Splitting(z, N, rq1, pk1, tok1, o, i, m)'
  BY <1>3, <1>17, SameSplitting
<1>30. Data(z, N, rq1, pk1, tok1, f, o, i)'
  BY <1>3, <1>16, <1>23 DEF Data
<1>31. {f, m, b, c, e, d, d1, d2, o, i} \subseteq 0 .. N
  <2>1. T <= N
    BY <1>6, <1>9
  <2>2. PICK S : S = {f, m, b, c, e, d, d1, d2, o, i} /\ S \subseteq 0 .. T
    BY <1>2
  <2>3. S \subseteq 0 .. T
    BY <2>2
  <2>4. S \subseteq 0 .. N
    BY <1>6, <2>1, <2>3, WiderRange
  <2> QED BY <2>2, <2>4
<1>32. At(z, N, rq1, pk1, tok1, st \cup {T}, f, m, b, c, e, d, d1, d2, o, i)'
  <2>1. ~(tlbInterface' # <<>>)
    BY <1>3
  <2>2. Line(z, N, rq1, pk1, tok1, st \cup {T})'
    BY <1>13 DEF Line, Placed
  <2> QED BY <1>25, <1>26, <1>27, <1>28, <1>29, <1>30, <1>31, <2>1, <2>2 DEF At
<1>33. WritesAt(z, N, rq1, pk1, tok1, st \cup {T}, f)'
  BY <1>32 DEF WritesAt
<1>34. Issued(T, rq, pk, tok, N, rq1, pk1, tok1, addr, len)
  BY <1>9, <1>11, <1>12, <1>21 DEF Issued
<1> QED BY <1>5, <1>24, <1>33, <1>34

-----------------------------------------------------------------------------
(* Capacities *)

LEMMA AppendFits ==
  ASSUME NEW S, NEW q \in Seq(S), NEW n \in Nat, Len(q) < n, NEW x
  PROVE  Len(Append(q, x)) <= n
<1>1. q \in Seq(S \cup {x})
  <2>1. PICK l \in Nat : q \in [1 .. l -> S]
    BY SeqDef
  <2>2. q \in [1 .. l -> S \cup {x}]
    BY <2>1
  <2> QED BY <2>2, SeqOfLength
<1>2. x \in S \cup {x}
  OBVIOUS
<1>3. Len(q) \in Nat /\ Len(Append(q, x)) = Len(q) + 1
  BY <1>1, <1>2, AppendOf
<1> QED BY <1>3

LEMMA TailFits ==
  ASSUME NEW S, NEW q \in Seq(S), q # <<>>, NEW n \in Nat, Len(q) <= n
  PROVE  Len(Tail(q)) <= n
<1>1. Len(q) \in Nat /\ Len(Tail(q)) = Len(q) - 1
  BY TailOf
<1> QED BY <1>1

LEMMA CheckFits ==
  ASSUME PathAssumption, WriteTypes, Capacities, CheckStep
  PROVE  Capacities'
<1>1. /\ dmaWriteCmd' = dmaWriteCmd /\ dmaReadCmd' = dmaReadCmd /\ c2hDsc' = c2hDsc
      /\ h2cDsc' = h2cDsc
  BY DEF CheckStep, tlbVars, writeVars, readVars
<1>2. CmdDepth \in Nat /\ MetaFifoDepth \in Nat /\ PageOffsetFifoDepth \in Nat
  BY DEF PathAssumption
<1>3. cmdOut \in Seq(Cmd) /\ metaFifo \in Seq(Meta) /\ pageOffsetFifo \in Seq(Offset)
  BY DEF WriteTypes
<1>4. CASE CalculatePageOffset(regBaseVaddrBoundCheck)
  <2>1. UNCHANGED <<cmdOut, metaFifo, dataOut>>
    BY <1>4 DEF CalculatePageOffset, splitVars
  <2>2. Len(pageOffsetFifo') <= PageOffsetFifoDepth
    BY <1>2, <1>3, <1>4, AppendFits DEF CalculatePageOffset
  <2> QED BY <1>1, <2>1, <2>2 DEF Capacities
<1>5. CASE BoundaryCheckCmd
  <2>1. dataOut' = dataOut
    BY <1>5 DEF BoundaryCheckCmd, splitVars
  <2>2. Len(pageOffsetFifo') <= PageOffsetFifoDepth
    <3>1. Len(pageOffsetFifo) <= PageOffsetFifoDepth
      BY DEF Capacities
    <3> QED BY <1>2, <1>3, <1>5, <3>1, TailFits DEF BoundaryCheckCmd
  <2>3. Len(cmdOut') <= CmdDepth
    BY <1>2, <1>3, <1>5, AppendFits DEF BoundaryCheckCmd
  <2>4. Len(metaFifo') <= MetaFifoDepth
    BY <1>2, <1>3, <1>5, AppendFits DEF BoundaryCheckCmd
  <2> QED BY <1>1, <2>1, <2>2, <2>3, <2>4 DEF Capacities
<1>6. CASE BoundaryCheckSplit
  <2>1. UNCHANGED <<pageOffsetFifo, metaFifo, dataOut>>
    BY <1>6 DEF BoundaryCheckSplit, splitVars
  <2>2. Len(cmdOut') <= CmdDepth
    BY <1>2, <1>3, <1>6, AppendFits DEF BoundaryCheckSplit
  <2> QED BY <1>1, <2>1, <2>2 DEF Capacities
<1> QED BY <1>4, <1>5, <1>6 DEF CheckStep

LEMMA SplitFits ==
  ASSUME PathAssumption, WriteTypes, Capacities, SplitStep
  PROVE  Capacities'
<1>1. /\ dmaWriteCmd' = dmaWriteCmd /\ dmaReadCmd' = dmaReadCmd /\ c2hDsc' = c2hDsc
      /\ h2cDsc' = h2cDsc
  BY DEF SplitStep, tlbVars, writeVars, readVars
<1>2. UNCHANGED <<cmdOut, pageOffsetFifo>>
  BY DEF SplitStep, PkgSplit, PkgFirst, PkgSecond, PkgLast
<1>3. Len(dataOut') <= DataDepth
  <2>1. DataDepth \in Nat /\ dataOut \in Seq(DataWord)
    BY DEF PathAssumption, WriteTypes
  <2>2. Len(dataOut) < DataDepth /\ \E x : dataOut' = Append(dataOut, x)
    BY DEF SplitStep, PkgSplit, PkgFirst, PkgSecond, PkgLast
  <2> QED BY <2>1, <2>2, AppendFits
<1>4. Len(metaFifo') <= MetaFifoDepth
  <2>1. MetaFifoDepth \in Nat /\ metaFifo \in Seq(Meta) /\ Len(metaFifo) <= MetaFifoDepth
    BY DEF PathAssumption, WriteTypes, Capacities
  <2>2. metaFifo' = metaFifo \/ (metaFifo # <<>> /\ metaFifo' = Tail(metaFifo))
    BY DEF SplitStep, PkgSplit, PkgFirst, PkgSecond, PkgLast
  <2> QED BY <2>1, <2>2, TailFits
<1> QED BY <1>1, <1>2, <1>3, <1>4 DEF Capacities

LEMMA WritePathFits ==
  ASSUME PathAssumption, WriteTypes, Capacities,
         TranslateWrite \/ LoadWriteDescriptor \/ C2hWord
  PROVE  Capacities'
<1>1. UNCHANGED <<pageOffsetFifo, metaFifo, dmaReadCmd, h2cDsc>>
  BY DEF TranslateWrite, TLB!WriteCmd, LoadWriteDescriptor, C2hWord, checkVars, restOfCheck,
         tlbVars, readVars
<1>2. CmdDepth \in Nat /\ DataDepth \in Nat /\ DscDepth \in Nat
  BY DEF PathAssumption
<1>3. /\ cmdOut \in Seq(Cmd) /\ dmaWriteCmd \in Seq(Cmd) /\ c2hDsc \in Seq(Cmd)
      /\ dataOut \in Seq(DataWord)
  BY DEF WriteTypes
<1>4. /\ Len(cmdOut) <= CmdDepth /\ Len(dmaWriteCmd) <= CmdDepth /\ Len(c2hDsc) <= DscDepth
      /\ Len(dataOut) <= DataDepth
  BY DEF Capacities
<1>5. CASE TranslateWrite
  <2>1. UNCHANGED <<dataOut, c2hDsc>>
    BY <1>5 DEF TranslateWrite, restOfCheck, splitVars, writeVars
  <2>2. Len(cmdOut') <= CmdDepth
    BY <1>2, <1>3, <1>4, <1>5, TailFits DEF TranslateWrite, TLB!WriteCmd
  <2>3. Len(dmaWriteCmd') <= CmdDepth
    BY <1>2, <1>3, <1>5, AppendFits DEF TranslateWrite, TLB!WriteCmd
  <2> QED BY <1>1, <2>1, <2>2, <2>3 DEF Capacities
<1>6. CASE LoadWriteDescriptor
  <2>1. UNCHANGED <<dataOut, cmdOut>>
    BY <1>6 DEF LoadWriteDescriptor, checkVars
  <2>2. Len(dmaWriteCmd') <= CmdDepth
    BY <1>2, <1>3, <1>4, <1>6, TailFits DEF LoadWriteDescriptor
  <2>3. Len(c2hDsc') <= DscDepth
    BY <1>2, <1>3, <1>6, AppendFits DEF LoadWriteDescriptor
  <2> QED BY <1>1, <2>1, <2>2, <2>3 DEF Capacities
<1>7. CASE C2hWord
  <2>1. UNCHANGED <<cmdOut, dmaWriteCmd>>
    BY <1>7 DEF C2hWord, tlbVars
  <2>2. Len(dataOut') <= DataDepth
    BY <1>2, <1>3, <1>4, <1>7, TailFits DEF C2hWord
  <2>3. Len(c2hDsc') <= DscDepth
    <3>1. c2hDsc # <<>> /\ (c2hDsc' = c2hDsc \/ c2hDsc' = Tail(c2hDsc))
      BY <1>7 DEF C2hWord
    <3> QED BY <1>2, <1>3, <1>4, <3>1, TailFits
  <2> QED BY <1>1, <2>1, <2>2, <2>3 DEF Capacities
<1> QED BY <1>5, <1>6, <1>7

LEMMA ReadPathFits ==
  ASSUME PathAssumption, ReadTypes, Capacities,
         TranslateRead \/ LoadReadDescriptor \/ H2cWord
  PROVE  Capacities'
<1>1. UNCHANGED <<pageOffsetFifo, metaFifo, cmdOut, dmaWriteCmd, c2hDsc, dataOut>>
  BY DEF TranslateRead, TLB!ReadCmd, LoadReadDescriptor, H2cWord, checkVars, restOfCheck,
         splitVars, tlbVars, writeVars
<1>2. CmdDepth \in Nat /\ DscDepth \in Nat
  BY DEF PathAssumption
<1>3. dmaReadCmd \in Seq(Cmd) /\ h2cDsc \in Seq(Cmd)
  BY DEF ReadTypes
<1>4. Len(dmaReadCmd) <= CmdDepth /\ Len(h2cDsc) <= DscDepth
  BY DEF Capacities
<1>5. CASE TranslateRead
  <2>1. h2cDsc' = h2cDsc
    BY <1>5 DEF TranslateRead, readVars
  <2>2. Len(dmaReadCmd') <= CmdDepth
    BY <1>2, <1>3, <1>5, AppendFits DEF TranslateRead, TLB!ReadCmd
  <2> QED BY <1>1, <2>1, <2>2 DEF Capacities
<1>6. CASE LoadReadDescriptor
  <2>1. Len(dmaReadCmd') <= CmdDepth
    BY <1>2, <1>3, <1>4, <1>6, TailFits DEF LoadReadDescriptor
  <2>2. Len(h2cDsc') <= DscDepth
    BY <1>2, <1>3, <1>6, AppendFits DEF LoadReadDescriptor
  <2> QED BY <1>1, <2>1, <2>2 DEF Capacities
<1>7. CASE H2cWord
  <2>1. dmaReadCmd' = dmaReadCmd
    BY <1>7 DEF H2cWord, tlbVars
  <2>2. Len(h2cDsc') <= DscDepth
    <3>1. h2cDsc # <<>> /\ (h2cDsc' = h2cDsc \/ h2cDsc' = Tail(h2cDsc))
      BY <1>7 DEF H2cWord
    <3> QED BY <1>2, <1>3, <1>4, <3>1, TailFits
  <2> QED BY <1>1, <2>1, <2>2 DEF Capacities
<1> QED BY <1>5, <1>6, <1>7

(* Every bounded stream keeps to its capacity. *)
LEMMA CapacitiesStep ==
  ASSUME PathAssumption, ReadTypes, WriteTypes, Capacities, [PathNext]_pathVars
  PROVE  Capacities'
<1>1. CASE UNCHANGED pathVars
  BY <1>1 DEF Capacities, pathVars, checkVars, tlbVars, writeVars, readVars
<1>2. CASE \E base \in Bases, pages \in PageTables : HostMap(base, pages)
  BY <1>2 DEF Capacities, HostMap, checkVars, writeVars, readVars
<1>3. CASE \E addr \in Memory!Address, len \in Lengths : IssueWrite(addr, len) \/ IssueRead(addr, len)
  <2>1. PICK addr, len : IssueWrite(addr, len) \/ IssueRead(addr, len)
    BY <1>3
  <2>2. UNCHANGED <<pageOffsetFifo, metaFifo, cmdOut, dmaWriteCmd, c2hDsc, dataOut, dmaReadCmd, h2cDsc>>
    BY <2>1 DEF IssueWrite, IssueRead, checkVars, tlbVars, writeVars, readVars
  <2> QED BY <2>2 DEF Capacities
<1>4. CASE CheckStep \/ SplitStep
  BY <1>4, CheckFits, SplitFits
<1>5. CASE TranslateWrite \/ LoadWriteDescriptor \/ C2hWord
  BY <1>5, WritePathFits
<1>6. CASE TranslateRead \/ LoadReadDescriptor \/ H2cWord
  BY <1>6, ReadPathFits
<1>7. CASE TakeMapping
  <2>1. UNCHANGED <<pageOffsetFifo, metaFifo, cmdOut, dmaWriteCmd, c2hDsc, dataOut, dmaReadCmd, h2cDsc>>
    BY <1>7 DEF TakeMapping, TLB!NewMapping, restOfCheck, splitVars, writeVars, readVars
  <2> QED BY <2>1 DEF Capacities
<1> QED BY <1>1, <1>2, <1>3, <1>4, <1>5, <1>6, <1>7 DEF PathNext

-----------------------------------------------------------------------------
(* The invariant *)

LEMMA WriteStart ==
  ASSUME PathAssumption, PathInit
  PROVE  WriteInv
<1>1. ReadInv
  BY ReadStart
<1>2. /\ cmdIn = <<>> /\ dataIn = <<>> /\ cmdOut = <<>> /\ dataOut = <<>>
      /\ pageOffsetFifo = <<>> /\ metaFifo = <<>> /\ bc_state = "CMD"
      /\ cmd = [addr |-> 0, len |-> 0] /\ pbc_state = "PKG_FIRST"
      /\ meta = [length |-> 0, isSplit |-> FALSE] /\ metaLoaded = FALSE
  BY DEF PathInit, Init
<1>3. /\ dmaWriteCmd = <<>> /\ dmaReadCmd = <<>> /\ tlbMissCounter = 0 /\ tlbPageCrossingCounter = 0
      /\ requests = 0 /\ mapping = [base |-> 0, pages |-> <<>>]
      /\ regBaseVaddr = 0 /\ regBaseVaddrBoundCheck = 0 /\ c2hDsc = <<>> /\ c2hDone = 0
      /\ h2cDsc = <<>> /\ h2cDone = 0 /\ dma_write_cmd_counter = 0 /\ dma_write_pkg_counter = 0
  BY DEF PathInit, TLB!Init, Memory!Init
<1>4. WriteTypes
  <2>1. cmd \in Cmd /\ requests \in 0 .. MaxRequests /\ c2hDone \in Nat
    BY <1>2, <1>3 DEF Cmd, PathAssumption
  <2>2. meta \in Meta /\ metaLoaded \in BOOLEAN
    <3>1. 0 \in Nat /\ FALSE \in BOOLEAN
      OBVIOUS
    <3> QED BY <1>2, <3>1, Zenon DEF Meta
  <2>3. \A S : <<>> \in Seq(S)
    OBVIOUS
  <2> QED BY <1>2, <1>3, <2>1, <2>2, <2>3 DEF WriteTypes
<1>5. Capacities
  <2>1. Len(<<>>) = 0
    OBVIOUS
  <2>2. /\ 0 <= PageOffsetFifoDepth /\ 0 <= MetaFifoDepth /\ 0 <= CmdDepth /\ 0 <= DscDepth
        /\ 0 <= DataDepth
    BY DEF PathAssumption
  <2> QED BY <1>2, <1>3, <2>1, <2>2 DEF Capacities
<1>6. BasesAtPages
  <2>1. PageSize \in Nat \ {0}
    BY DEF PathAssumption
  <2>2. 0 % PageSize = 0 /\ 0 \in Nat
    BY <2>1
  <2>3. mapping.base = 0
    BY <1>3
  <2> QED BY <1>3, <2>2, <2>3 DEF BasesAtPages
<1>7. Counters
  <2>1. Len(<<>>) = 0 /\ 0 = 0 + 0
    OBVIOUS
  <2> QED BY <1>3, <2>1 DEF Counters
<1>8. Idle(0)
  BY <1>2, <1>3 DEF Idle
<1>9. PICK rq \in [Nat -> Nat], tok \in [Nat -> Byte] :
        rq = [x \in Nat |-> 0] /\ tok = [x \in Nat |-> [vaddr |-> 0, request |-> 0]]
  BY DEF Byte
<1>10. WritesAt(0, 0, rq, rq, tok, {}, 0)
  <2>1. 0 \in Nat
    OBVIOUS
  <2> QED BY <1>8, <2>1, IdleAt
<1> QED BY <1>1, <1>4, <1>5, <1>6, <1>7, <1>10 DEF WriteInv

(* The steps that move no byte of a write request into memory and issue    *)
(* none.                                                                   *)
InnerStep ==
  \/ CheckStep \/ SplitStep \/ TranslateWrite \/ LoadWriteDescriptor
  \/ TranslateRead \/ TakeMapping \/ LoadReadDescriptor \/ H2cWord
  \/ (\E addr \in Memory!Address, len \in Lengths : IssueRead(addr, len)) \/ UNCHANGED pathVars

LEMMA InnerStepKeeps ==
  ASSUME PathAssumption, ReadInv, WriteTypes, Counters, BasesAtPages,
         NEW z, NEW T, NEW rq, NEW pk, NEW tok, NEW st, NEW f,
         WritesAt(z, T, rq, pk, tok, st, f), InnerStep
  PROVE  WriteTypes' /\ Counters' /\ BasesAtPages' /\ WritesAt(z, T, rq, pk, tok, st, f)'
<1>1. MappingOK
  BY DEF ReadInv
<1>2. CASE CheckStep
  <2>1. Counters' /\ BasesAtPages'
    <3>1. /\ UNCHANGED <<tlbMissCounter, tlbPageCrossingCounter, dma_write_pkg_counter,
                         dma_write_cmd_counter, c2hDsc>>
          /\ h2cDone' = h2cDone /\ UNCHANGED <<mapping, baseVars>>
      BY <1>2 DEF CheckStep, tlbVars, writeVars, readVars, envVars
    <3>2. h2cDone' \in Nat
      BY <3>1 DEF Counters
    <3> QED BY <3>1, <3>2, SameCounters, SameBases
  <2>2. CASE CalculatePageOffset(regBaseVaddrBoundCheck)
    BY <1>1, <1>2, <2>1, <2>2, CalculateStepKeeps
  <2>3. CASE BoundaryCheckCmd
    BY <1>1, <1>2, <2>1, <2>3, BoundaryCheckCmdKeeps
  <2>4. CASE BoundaryCheckSplit
    BY <1>2, <2>1, <2>4, BoundaryCheckSplitKeeps
  <2> QED BY <1>2, <2>2, <2>3, <2>4 DEF CheckStep
<1>3. CASE SplitStep
  <2>1. Counters' /\ BasesAtPages'
    <3>1. /\ UNCHANGED <<tlbMissCounter, tlbPageCrossingCounter, dma_write_pkg_counter,
                         dma_write_cmd_counter, c2hDsc>>
          /\ h2cDone' = h2cDone /\ UNCHANGED <<mapping, baseVars>>
      BY <1>3 DEF SplitStep, tlbVars, writeVars, readVars, envVars
    <3>2. h2cDone' \in Nat
      BY <3>1 DEF Counters
    <3> QED BY <3>1, <3>2, SameCounters, SameBases
  <2> QED BY <1>3, <2>1, SplitStepKeeps
<1>4. CASE TranslateWrite
  <2>1. BasesAtPages'
    <3>1. UNCHANGED <<mapping, baseVars>>
      BY <1>4 DEF TranslateWrite, envVars
    <3> QED BY <3>1, SameBases
  <2> QED BY <1>4, <2>1, TranslateWriteKeeps
<1>5. CASE LoadWriteDescriptor
  <2>1. BasesAtPages'
    <3>1. UNCHANGED <<mapping, baseVars>>
      BY <1>5 DEF LoadWriteDescriptor, envVars
    <3> QED BY <3>1, SameBases
  <2> QED BY <1>5, <2>1, LoadWriteDescriptorKeeps
<1>6. CASE TranslateRead
  <2>1. Counters' /\ UNCHANGED writeState /\ tlbInterface' = tlbInterface
    BY <1>6, TranslateReadKeeps
  <2>2. BasesAtPages'
    <3>1. UNCHANGED <<mapping, baseVars>>
      BY <1>6 DEF TranslateRead, envVars
    <3> QED BY <3>1, SameBases
  <2>3. tlbInterface' # <<>> => tlbInterface # <<>>
    BY <2>1
  <2>4. WriteTypes' /\ WritesAt(z, T, rq, pk, tok, st, f)'
    BY <2>1, <2>3, SameWrites
  <2> QED BY <2>1, <2>2, <2>4
<1>7. CASE TakeMapping
  <2>1. /\ Counters' /\ BasesAtPages' /\ UNCHANGED writeState
        /\ tlbInterface' # <<>> => tlbInterface # <<>>
    BY <1>7, TakeMappingKeeps
  <2>2. WriteTypes' /\ WritesAt(z, T, rq, pk, tok, st, f)'
    BY <2>1, SameWrites
  <2> QED BY <2>1, <2>2
<1>8. CASE (\E addr \in Memory!Address, len \in Lengths : IssueRead(addr, len))
           \/ LoadReadDescriptor \/ H2cWord \/ UNCHANGED pathVars
  <2>1. Counters' /\ BasesAtPages' /\ UNCHANGED writeState /\ tlbInterface' = tlbInterface
    BY <1>8, ReadSideKeeps
  <2>2. tlbInterface' # <<>> => tlbInterface # <<>>
    BY <2>1
  <2>3. WriteTypes' /\ WritesAt(z, T, rq, pk, tok, st, f)'
    BY <2>1, <2>2, SameWrites
  <2> QED BY <2>1, <2>3
<1> QED BY <1>2, <1>3, <1>4, <1>5, <1>6, <1>7, <1>8 DEF InnerStep

LEMMA StepKinds ==
  ASSUME [PathNext]_pathVars
  PROVE  \/ \E base \in Bases, pages \in PageTables : HostMap(base, pages)
         \/ \E addr \in Memory!Address, len \in Lengths : IssueWrite(addr, len)
         \/ C2hWord \/ InnerStep
  BY DEF PathNext, InnerStep

LEMMA WriteStep ==
  ASSUME PathAssumption, WriteInv, [PathNext]_pathVars
  PROVE  WriteInv'
<1>1. ReadInv /\ WriteTypes /\ Capacities /\ BasesAtPages /\ Counters /\ ReadTypes /\ MappingOK
  BY DEF WriteInv, ReadInv
<1>2. PICK z, T, rq, pk, tok, st, f : WritesAt(z, T, rq, pk, tok, st, f)
  BY DEF WriteInv
<1>3. ReadInv' /\ Capacities'
  BY <1>1, ReadStep, CapacitiesStep
<1>4. CASE \E base \in Bases, pages \in PageTables : HostMap(base, pages)
  <2>1. PICK base \in Bases, pages \in PageTables : HostMap(base, pages)
    BY <1>4
  <2>2. WriteTypes' /\ Counters' /\ BasesAtPages' /\ WritesAt(T, T, rq, pk, tok, {}, T)'
    BY <1>1, <1>2, <2>1, HostMapKeeps
  <2> QED BY <1>3, <2>2 DEF WriteInv
<1>5. CASE \E addr \in Memory!Address, len \in Lengths : IssueWrite(addr, len)
  <2>1. PICK addr \in Memory!Address, len \in Lengths : IssueWrite(addr, len)
    BY <1>5
  <2>2. /\ WriteTypes' /\ Counters' /\ BasesAtPages'
        /\ \E N, rq1, pk1, tok1 :
              /\ Issued(T, rq, pk, tok, N, rq1, pk1, tok1, addr, len)
              /\ WritesAt(z, N, rq1, pk1, tok1, st \cup {T}, f)'
    BY <1>1, <1>2, <2>1, IssueWriteKeeps
  <2> QED BY <1>3, <2>2 DEF WriteInv
<1>6. CASE C2hWord
  <2>1. /\ WriteTypes' /\ Counters'
        /\ \E n \in Nat \ {0} : /\ Moves(tok, f, n) /\ f + n <= T
                                /\ WritesAt(z, T, rq, pk, tok, st, f + n)'
    BY <1>1, <1>2, <1>6, C2hWordKeeps
  <2>2. BasesAtPages'
    <3>1. UNCHANGED <<mapping, baseVars>>
      BY <1>6 DEF C2hWord, envVars
    <3> QED BY <1>1, <3>1, SameBases
  <2> QED BY <1>3, <2>1, <2>2 DEF WriteInv
<1>7. CASE InnerStep
  <2>1. WriteTypes' /\ Counters' /\ BasesAtPages' /\ WritesAt(z, T, rq, pk, tok, st, f)'
    BY <1>1, <1>2, <1>7, InnerStepKeeps
  <2> QED BY <1>3, <2>1 DEF WriteInv
<1> QED BY <1>4, <1>5, <1>6, <1>7, StepKinds

-----------------------------------------------------------------------------
(* What the invariant implies *)

LEMMA QueueElement ==
  ASSUME NEW S, NEW q \in Seq(S), NEW K, NEW next, NEW G, NEW a, NEW b, Queue(q, K, next, G, a, b),
         NEW i \in DOMAIN q
  PROVE  \E x \in G : q[i] = K[x]
<1>1. Len(q) \in Nat /\ DOMAIN q = 1 .. Len(q)
  BY LenProperties
<1>2. PICK n : n = Len(q) /\ i \in 1 .. n
  BY <1>1
<1>3. Stream(q, n, K, next, G, a, b)
  BY <1>2 DEF Queue
<1> QED BY <1>2, <1>3 DEF Stream

(* The words that a queue holds are words. *)
LEMMA QueueWords ==
  ASSUME PathAssumption, NEW z, NEW T, NEW rq, NEW pk, NEW tok, NEW st, Line(z, T, rq, pk, tok, st),
         NEW e, e = rq \/ e = pk, NEW q \in Seq(DataWord), NEW a, NEW b,
         Queue(q, WordAt(e, tok), WordEnd(e), z .. T - 1, a, b), NEW i \in DOMAIN q
  PROVE  Word(q[i])
<1>1. PICK x \in z .. T - 1 : q[i] = WordAt(e, tok)[x]
  <2>1. PICK K, next, G : K = WordAt(e, tok) /\ next = WordEnd(e) /\ G = z .. T - 1
    OBVIOUS
  <2>2. Queue(q, K, next, G, a, b)
    BY <2>1
  <2>3. \E x \in G : q[i] = K[x]
    BY <2>2, QueueElement
  <2> QED BY <2>1, <2>3
<1>2. x \in Nat /\ e[x] \in Nat /\ x < e[x]
  <2>1. x \in Nat /\ rq[x] \in Nat /\ pk[x] \in Nat /\ x < pk[x] /\ pk[x] <= rq[x]
    BY LineAt
  <2> QED BY <2>1
<1>3. tok \in [Nat -> Byte]
  BY DEF Line
<1>4. /\ WordAt(e, tok)[x] = [bytes |-> Slice(tok, x, Lesser(WordSize, e[x] - x)),
                              last |-> e[x] - x <= WordSize]
      /\ Lesser(WordSize, e[x] - x) \in Nat \ {0} /\ Lesser(WordSize, e[x] - x) <= WordSize
  BY <1>2, <1>3, WordAtIs
<1>5. PICK n \in Nat : n = Lesser(WordSize, e[x] - x) /\ n # 0 /\ n <= WordSize
  BY <1>4
<1>6. Len(Slice(tok, x, n)) = n
  BY <1>2, <1>3, SliceSeq
<1>7. n \in 1 .. WordSize
  <2>1. WordSize \in Nat
    BY DEF PathAssumption
  <2> QED BY <1>5, <2>1
<1>8. PICK l : l = (e[x] - x <= WordSize)
  OBVIOUS
<1>9. q[i] = [bytes |-> Slice(tok, x, n), last |-> l]
  BY <1>1, <1>4, <1>5, <1>8, Zenon
<1>10. DOMAIN q[i] = {"bytes", "last"} /\ q[i].bytes = Slice(tok, x, n)
  BY <1>9
<1>11. q[i].last \in BOOLEAN
  <2>1. q[i] \in DataWord
    BY LenProperties, ElementOfSeq
  <2> QED BY <2>1, Zenon DEF DataWord
<1> QED BY <1>6, <1>7, <1>10, <1>11 DEF Word

LEMMA InvTypes ==
  ASSUME PathAssumption, WriteInv
  PROVE  PathTypeOK
<1>1. ReadTypes /\ WriteTypes /\ Capacities /\ BasesAtPages /\ Counters
  BY DEF WriteInv, ReadInv
<1>2. PICK z, T, rq, pk, tok, st, f, o, i :
        Line(z, T, rq, pk, tok, st) /\ Data(z, T, rq, pk, tok, f, o, i)
  BY DEF WriteInv, WritesAt, At
<1>3. \A j \in DOMAIN dataIn : Word(dataIn[j])
  <2>1. Queue(dataIn, WordAt(rq, tok), WordEnd(rq), z .. T - 1, i, T) /\ dataIn \in Seq(DataWord)
    BY <1>1, <1>2 DEF Data, WriteTypes
  <2> QED BY <1>2, <2>1, QueueWords
<1>4. \A j \in DOMAIN dataOut : Word(dataOut[j])
  <2>1. Queue(dataOut, WordAt(pk, tok), WordEnd(pk), z .. T - 1, f, o) /\ dataOut \in Seq(DataWord)
    BY <1>1, <1>2 DEF Data, WriteTypes
  <2> QED BY <1>2, <2>1, QueueWords
<1>5. tlbMissCounter \in Nat /\ tlbPageCrossingCounter \in Nat /\ h2cDone \in Nat
  BY <1>1 DEF Counters
<1>6. regBaseVaddr \in Nat /\ regBaseVaddrBoundCheck \in Nat
  BY <1>1 DEF BasesAtPages
<1>7. /\ cmdIn \in Seq(Cmd) /\ cmdOut \in Seq(Cmd) /\ dmaWriteCmd \in Seq(Cmd) /\ c2hDsc \in Seq(Cmd)
      /\ bc_state \in {"CMD", "CMD_SPLIT"} /\ cmd \in Cmd
      /\ pbc_state \in {"PKG_FIRST", "PKG_SECOND", "LAST"} /\ metaLoaded \in BOOLEAN
      /\ c2hDone \in Nat /\ requests \in 0 .. MaxRequests
  BY <1>1 DEF WriteTypes
<1>8. /\ pageOffsetFifo \in Seq([addr : Nat, len : Nat, page_offset : 0 .. PageSize - 1])
      /\ metaFifo \in Seq([length : Nat, isSplit : BOOLEAN])
      /\ meta \in [length : Nat, isSplit : BOOLEAN]
  BY <1>1, Zenon DEF WriteTypes, Offset, Meta
<1>9. /\ readCmd \in Seq(Cmd) /\ dmaReadCmd \in Seq(Cmd) /\ h2cDsc \in Seq(Cmd) /\ reads \in Seq(Cmd)
      /\ tlbInterface \in Seq([vaddr : Nat, paddr : Nat, isBase : BOOLEAN])
      /\ tlb_table \in [0 .. TlbEntries - 1 -> Nat] /\ base_vaddr \in Nat /\ top_page_base \in Nat
  BY <1>1, Zenon DEF ReadTypes
<1>10. /\ Len(pageOffsetFifo) <= PageOffsetFifoDepth /\ Len(metaFifo) <= MetaFifoDepth
       /\ Len(cmdOut) <= CmdDepth /\ Len(dmaWriteCmd) <= CmdDepth /\ Len(dmaReadCmd) <= CmdDepth
       /\ Len(c2hDsc) <= DscDepth /\ Len(h2cDsc) <= DscDepth /\ Len(dataOut) <= DataDepth
  BY <1>1, Zenon DEF Capacities
<1> QED BY <1>3, <1>4, <1>5, <1>6, <1>7, <1>8, <1>9, <1>10, Zenon DEF PathTypeOK

(* LAST is entered with a leftover. *)
LEMMA InvLeftover ==
  ASSUME PathAssumption, WriteInv
  PROVE  LastHasLeftover
<1> SUFFICES ASSUME pbc_state = "LAST" PROVE meta.length \in Shift /\ Len(prevWord) > meta.length
  BY DEF LastHasLeftover
<1>1. PICK z, T, rq, pk, tok, st, o, i, m :
        Line(z, T, rq, pk, tok, st) /\ Splitting(z, T, rq, pk, tok, o, i, m) /\ i \in 0 .. T
  <2>1. PICK z, T, rq, pk, tok, st, f : WritesAt(z, T, rq, pk, tok, st, f)
    BY DEF WriteInv
  <2>2. PICK m, b, c, e, d, d1, d2, o, i : At(z, T, rq, pk, tok, st, f, m, b, c, e, d, d1, d2, o, i)
    BY <2>1 DEF WritesAt
  <2>3. {f, m, b, c, e, d, d1, d2, o, i} \subseteq 0 .. T
    BY <2>2 DEF At
  <2>4. i \in 0 .. T
    BY <2>3
  <2> QED BY <2>2, <2>4 DEF At
<1>2. SecondPacket(z, T, rq, pk, tok, o, i, m)
  BY <1>1 DEF Splitting
<1>3. PICK w \in Nat, n \in Nat : LeftoverAt(tok, o, i, m, w, n)
  BY <1>2 DEF SecondPacket
<1>4. meta.length \in Shift /\ meta.length < n /\ prevWord = Slice(tok, w, n)
  BY <1>3 DEF LeftoverAt
<1>5. Len(Slice(tok, w, n)) = n
  <2>1. tok \in [Nat -> Byte]
    BY <1>1 DEF Line
  <2> QED BY <2>1, SliceSeq
<1>6. meta.length \in Nat
  <2>1. meta \in Meta
    BY DEF WriteInv, WriteTypes
  <2> QED BY <2>1 DEF Meta
<1>7. Len(prevWord) > meta.length
  BY <1>4, <1>5, <1>6
<1> QED BY <1>4, <1>7

(* When no byte is on its way, no descriptor waits for one. *)
LEMMA InvStatistics ==
  ASSUME PathAssumption, WriteInv
  PROVE  StatisticsAgree
<1> SUFFICES ASSUME Pending = <<>> PROVE dma_write_cmd_counter = dma_write_pkg_counter
  BY DEF StatisticsAgree
<1>1. PICK z, T, rq, pk, tok, st, f : WritesAt(z, T, rq, pk, tok, st, f)
  BY DEF WriteInv
<1>2. WriteTypes
  BY DEF WriteInv
<1>3. Idle(T)
  BY <1>1, <1>2, NothingPending
<1>4. c2hDsc = <<>>
  BY <1>3 DEF Idle
<1>5. Len(c2hDsc) = 0
  BY <1>4
<1>6. dma_write_pkg_counter \in Nat /\ dma_write_cmd_counter = dma_write_pkg_counter + Len(c2hDsc)
  BY DEF WriteInv, Counters
<1> QED BY <1>5, <1>6

LEMMA InvCounters ==
  ASSUME WriteInv
  PROVE  NoCrossingNoMiss
  BY DEF WriteInv, Counters, NoCrossingNoMiss

(* The last word of a packet. *)
LEMMA PacketStep ==
  ASSUME PathAssumption, WriteInv, [PathNext]_pathVars,
         dma_write_pkg_counter' # dma_write_pkg_counter
  PROVE  c2hDone + Len(Head(dataOut).bytes) = Head(c2hDsc).len
<1>1. C2hWord
  <2>1. CASE \E base \in Bases, pages \in PageTables : HostMap(base, pages)
    BY <2>1 DEF HostMap, writeVars
  <2>2. CASE \E addr \in Memory!Address, len \in Lengths : IssueWrite(addr, len)
    BY <2>2 DEF IssueWrite, writeVars
  <2>3. CASE InnerStep
    <3>1. CASE CheckStep \/ SplitStep
      BY <3>1 DEF CheckStep, SplitStep, writeVars
    <3>2. CASE TranslateWrite \/ TranslateRead \/ TakeMapping
      BY <3>2 DEF TranslateWrite, TranslateRead, TakeMapping, writeVars
    <3>3. CASE LoadWriteDescriptor \/ LoadReadDescriptor \/ H2cWord
      BY <3>3 DEF LoadWriteDescriptor, LoadReadDescriptor, H2cWord, writeVars
    <3>4. CASE \E addr \in Memory!Address, len \in Lengths : IssueRead(addr, len)
      BY <3>4 DEF IssueRead, writeVars
    <3>5. CASE UNCHANGED pathVars
      BY <3>5 DEF pathVars, writeVars
    <3> QED BY <2>3, <3>1, <3>2, <3>3, <3>4, <3>5 DEF InnerStep
  <2> QED BY <2>1, <2>2, <2>3, StepKinds
<1>2. PICK z, T, rq, pk, tok, st, f : WritesAt(z, T, rq, pk, tok, st, f)
  BY DEF WriteInv
<1>3. WriteTypes /\ MappingOK /\ Counters
  BY DEF WriteInv, ReadInv
<1>4. PICK n \in Nat \ {0} : Moves(tok, f, n)
  BY <1>1, <1>2, <1>3, C2hWordKeeps
<1>5. Head(dataOut).last \in BOOLEAN /\ dataOut # <<>>
  <2>1. dataOut \in Seq(DataWord) /\ dataOut # <<>>
    BY <1>1, <1>3 DEF C2hWord, WriteTypes
  <2>2. Head(dataOut) \in DataWord
    BY <2>1, TailOf
  <2> QED BY <2>1, <2>2, Zenon DEF DataWord
<1>6. Head(dataOut).last = TRUE
  <2>1. dma_write_pkg_counter' = dma_write_pkg_counter + (IF Head(dataOut).last THEN 1 ELSE 0)
    BY <1>1 DEF C2hWord
  <2>2. dma_write_pkg_counter \in Nat
    BY <1>3 DEF Counters
  <2>3. ASSUME Head(dataOut).last = FALSE PROVE FALSE
    <3>1. dma_write_pkg_counter' = dma_write_pkg_counter + 0
      BY <2>1, <2>3
    <3> QED BY <2>2, <3>1
  <2> QED BY <1>5, <2>3, Zenon
<1>7. tok \in [Nat -> Byte] /\ f \in Nat
  BY <1>2, <1>3, PendingSlice
<1>8. Head(dataOut).bytes = Slice(tok, f, n) /\ c2hDone + n = Head(c2hDsc).len
  BY <1>4, <1>6 DEF Moves
<1>9. Len(Slice(tok, f, n)) = n
  <2>1. n \in Nat
    OBVIOUS
  <2> QED BY <1>7, <2>1, SliceSeq
<1> QED BY <1>8, <1>9

-----------------------------------------------------------------------------
(* The refinement of DmaMemory *)

(* What is on its way, in this state and in the next one. *)
PendingIsSlice ==
  \A z, T, rq, pk, tok, st, f :
    WriteTypes /\ WritesAt(z, T, rq, pk, tok, st, f) =>
      /\ f \in Nat /\ T \in Nat /\ f <= T /\ tok \in [Nat -> Byte]
      /\ Pending = Slice(tok, f, T - f)

LEMMA PendingAll == PendingIsSlice
  BY PendingSlice, PathAssumption DEF PendingIsSlice

LEMMA NextPending ==
  ASSUME WriteTypes', NEW z, NEW T, NEW rq, NEW pk, NEW tok, NEW st, NEW f,
         WritesAt(z, T, rq, pk, tok, st, f)'
  PROVE  /\ f \in Nat /\ T \in Nat /\ f <= T /\ tok \in [Nat -> Byte]
         /\ Pending' = Slice(tok, f, T - f)
<1>1. PendingIsSlice'
  BY PendingAll, PTL
<1> QED BY <1>1 DEF PendingIsSlice

(* A step inside of the path moves no byte. *)
LEMMA InnerStutters ==
  ASSUME PathAssumption, WriteInv, InnerStep
  PROVE  UNCHANGED <<mapping, requests, Pending, mem>>
<1>1. ReadInv /\ WriteTypes /\ BasesAtPages /\ Counters
  BY DEF WriteInv
<1>2. PICK z, T, rq, pk, tok, st, f : WritesAt(z, T, rq, pk, tok, st, f)
  BY DEF WriteInv
<1>3. WriteTypes' /\ WritesAt(z, T, rq, pk, tok, st, f)'
  BY <1>1, <1>2, InnerStepKeeps
<1>4. Pending = Slice(tok, f, T - f)
  BY <1>1, <1>2, PendingSlice
<1>5. Pending' = Slice(tok, f, T - f)
  BY <1>3, NextPending
<1>6. UNCHANGED <<mapping, requests, mem>>
  <2>1. CASE CheckStep \/ SplitStep
    BY <2>1 DEF CheckStep, SplitStep, writeVars, envVars
  <2>2. CASE TranslateWrite \/ TranslateRead \/ TakeMapping
    BY <2>2 DEF TranslateWrite, TranslateRead, TakeMapping, writeVars, envVars
  <2>3. CASE LoadWriteDescriptor \/ LoadReadDescriptor \/ H2cWord
    BY <2>3 DEF LoadWriteDescriptor, LoadReadDescriptor, H2cWord, writeVars, envVars
  <2>4. CASE \E addr \in Memory!Address, len \in Lengths : IssueRead(addr, len)
    BY <2>4 DEF IssueRead, writeVars
  <2>5. CASE UNCHANGED pathVars
    BY <2>5 DEF pathVars, writeVars, envVars
  <2> QED BY <2>1, <2>2, <2>3, <2>4, <2>5 DEF InnerStep
<1> QED BY <1>4, <1>5, <1>6

LEMMA HostMapMaps ==
  ASSUME PathAssumption, WriteInv, NEW base \in Bases, NEW pages \in PageTables,
         HostMap(base, pages)
  PROVE  Memory!Map
<1>1. ReadInv /\ WriteTypes /\ BasesAtPages /\ Counters
  BY DEF WriteInv
<1>2. PICK z, T, rq, pk, tok, st, f : WritesAt(z, T, rq, pk, tok, st, f)
  BY DEF WriteInv
<1>3. WriteTypes' /\ WritesAt(T, T, rq, pk, tok, {}, T)'
  BY <1>1, <1>2, HostMapKeeps
<1>4. T \in Nat /\ Pending' = Slice(tok, T, T - T)
  BY <1>3, NextPending
<1>5. Pending' = <<>>
  <2>1. T - T = 0
    BY <1>4
  <2> QED BY <1>4, <2>1, EmptySlice
<1>6. Pending = <<>> /\ mapping' = [base |-> base, pages |-> pages] /\ UNCHANGED <<requests, mem>>
  BY DEF HostMap, writeVars
<1> QED BY <1>5, <1>6 DEF Memory!Map

LEMMA IssueWriteIssues ==
  ASSUME PathAssumption, WriteInv, NEW addr \in Memory!Address, NEW len \in Lengths,
         IssueWrite(addr, len)
  PROVE  Memory!Issue
<1>1. ReadInv /\ MappingOK /\ WriteTypes /\ BasesAtPages /\ Counters
  BY DEF WriteInv, ReadInv
<1>2. PICK z, T, rq, pk, tok, st, f : WritesAt(z, T, rq, pk, tok, st, f)
  BY DEF WriteInv
<1>3. WriteTypes' /\ \E N, rq1, pk1, tok1 :
              /\ Issued(T, rq, pk, tok, N, rq1, pk1, tok1, addr, len)
              /\ WritesAt(z, N, rq1, pk1, tok1, st \cup {T}, f)'
  BY <1>1, <1>2, IssueWriteKeeps
<1>4. PICK N, rq1, pk1, tok1 :
              /\ Issued(T, rq, pk, tok, N, rq1, pk1, tok1, addr, len)
              /\ WritesAt(z, N, rq1, pk1, tok1, st \cup {T}, f)'
  BY <1>3
<1>5. f \in Nat /\ T \in Nat /\ f <= T /\ tok \in [Nat -> Byte] /\ Pending = Slice(tok, f, T - f)
  BY <1>1, <1>2, PendingSlice
<1>6. tok1 \in [Nat -> Byte] /\ Pending' = Slice(tok1, f, N - f)
  BY <1>3, <1>4, NextPending
<1>7. /\ N \in Nat /\ N = T + len /\ Agrees(T, rq, pk, tok, rq1, pk1, tok1)
      /\ Memory!Bytes(requests + 1, addr, len) = Slice(tok1, T, len)
  BY <1>4 DEF Issued
<1>8. PICK n \in Nat, l \in Nat : n = T - f /\ l = len /\ f + n = T /\ N - f = n + l
  <2>1. len \in Nat
    BY DEF PathAssumption
  <2>2. T - f \in Nat /\ f + (T - f) = T /\ N - f = (T - f) + len
    BY <1>5, <1>7, <2>1
  <2> QED BY <2>1, <2>2
<1>9. Slice(tok1, f, n) = Slice(tok, f, n)
  <2>1. f + n <= T
    BY <1>5, <1>8
  <2> QED BY <1>5, <1>7, <2>1, AgreesSlice
<1>10. Slice(tok1, f, n) \o Slice(tok1, T, l) = Slice(tok1, f, N - f)
  <2>1. f \in Nat /\ tok1 \in [Nat -> Byte]
    BY <1>5, <1>6
  <2>2. Joins(Slice(tok1, f, n), Slice(tok1, T, l), Slice(tok1, f, N - f))
    BY <1>8, <2>1, ConcatAt
  <2> QED BY <2>2 DEF Joins
<1>11. Pending' = Pending \o Memory!Bytes(requests + 1, addr, len)
  <2>1. Pending = Slice(tok1, f, n)
    BY <1>5, <1>8, <1>9
  <2>2. Memory!Bytes(requests + 1, addr, len) = Slice(tok1, T, l)
    BY <1>7, <1>8
  <2> QED BY <1>6, <1>10, <2>1, <2>2
<1>12. /\ requests < MaxRequests /\ requests' = requests + 1 /\ Memory!Legal(addr, len)
       /\ UNCHANGED <<mapping, mem>>
  BY DEF IssueWrite, writeVars
<1> QED BY <1>11, <1>12 DEF Memory!Issue

(* The last of the bytes that go to p is the only one. *)
Lands(s, a, n) == \A k \in 1 .. n : Memory!Translate(s[k].vaddr) = a + (k - 1)

LEMMA WrittenIs ==
  ASSUME NEW a \in Nat, NEW n \in Nat, NEW s \in Seq(Byte), Len(s) = n, Lands(s, a, n)
  PROVE  Memory!Written(s) = [p \in DOMAIN mem |-> IF p \in a .. a + n - 1
                                                   THEN s[p - a + 1] ELSE mem[p]]
<1>1. DOMAIN s = 1 .. n
  BY LenProperties
<1>2. ASSUME NEW p \in DOMAIN mem
      PROVE  (LET hits == {k \in DOMAIN s : Memory!Translate(s[k].vaddr) = p}
              IN  IF hits = {} THEN mem[p] ELSE s[CHOOSE k \in hits : \A j \in hits : j <= k])
             = IF p \in a .. a + n - 1 THEN s[p - a + 1] ELSE mem[p]
  <2>1. PICK hits : hits = {k \in DOMAIN s : Memory!Translate(s[k].vaddr) = p}
    OBVIOUS
  <2>2. hits = {k \in 1 .. n : a + (k - 1) = p}
    BY <1>1, <2>1 DEF Lands
  <2>3. CASE p \in a .. a + n - 1
    <3>1. PICK i \in 1 .. n : i = p - a + 1 /\ p = a + (i - 1)
      <4>1. p - a + 1 \in 1 .. n /\ p = a + ((p - a + 1) - 1)
        BY <2>3
      <4> QED BY <4>1
    <3>2. hits = {i}
      <4>1. ASSUME NEW k \in 1 .. n, a + (k - 1) = p PROVE k = i
        BY <3>1, <4>1
      <4>2. i \in hits
        BY <2>2, <3>1
      <4> QED BY <2>2, <4>1, <4>2
    <3>3. (CHOOSE k \in hits : \A j \in hits : j <= k) = i
      <4>1. i <= i
        OBVIOUS
      <4> QED BY <3>2, <4>1
    <3>4. hits # {}
      BY <3>2
    <3>5. (IF hits = {} THEN mem[p] ELSE s[CHOOSE k \in hits : \A j \in hits : j <= k]) = s[p - a + 1]
      BY <3>1, <3>3, <3>4, Zenon
    <3>6. (IF p \in a .. a + n - 1 THEN s[p - a + 1] ELSE mem[p]) = s[p - a + 1]
      BY <2>3, Zenon
    <3> QED BY <2>1, <3>5, <3>6, Zenon
  <2>4. CASE p \notin a .. a + n - 1
    <3>1. ASSUME NEW k \in hits PROVE FALSE
      <4>1. k \in 1 .. n /\ a + (k - 1) = p
        BY <2>2, <3>1
      <4>2. a + (k - 1) \in a .. a + n - 1
        BY <4>1
      <4> QED BY <2>4, <4>1, <4>2
    <3>2. hits = {}
      BY <3>1
    <3> QED BY <2>1, <2>4, <3>2
  <2> QED BY <2>3, <2>4
<1> QED BY <1>2 DEF Memory!Written

Part(s, i, j, t) == SubSeq(s, i, j) = t

LEMMA PartIs ==
  ASSUME NEW tok \in [Nat -> Byte], NEW x \in Nat, NEW n \in Nat,
         NEW m \in Nat, NEW l \in Nat, m + l <= n
  PROVE  Part(Slice(tok, x, n), m + 1, m + l, Slice(tok, x + m, l))
  BY SubSlice DEF Part

LEMMA PartSlice ==
  ASSUME NEW tok \in [Nat -> Byte], NEW x \in Nat, NEW n \in Nat,
         NEW m \in Nat, NEW l \in Nat, m + l <= n,
         NEW i, i = m + 1, NEW j, j = m + l, NEW y, y = x + m
  PROVE  Part(Slice(tok, x, n), i, j, Slice(tok, y, l))
<1>1. Part(Slice(tok, x, n), m + 1, m + l, Slice(tok, x + m, l))
  BY PartIs
<1> QED BY <1>1

LEMMA C2hWordDelivers ==
  ASSUME PathAssumption, WriteInv, C2hWord
  PROVE  Memory!Deliver
<1>1. ReadInv /\ MappingOK /\ WriteTypes /\ BasesAtPages /\ Counters
  BY DEF WriteInv, ReadInv
<1>2. PICK z, T, rq, pk, tok, st, f : WritesAt(z, T, rq, pk, tok, st, f)
  BY DEF WriteInv
<1>3. WriteTypes' /\ \E n \in Nat \ {0} : /\ Moves(tok, f, n) /\ f + n <= T
                                          /\ WritesAt(z, T, rq, pk, tok, st, f + n)'
  BY <1>1, <1>2, C2hWordKeeps
<1>4. PICK n \in Nat \ {0} : /\ Moves(tok, f, n) /\ f + n <= T
                             /\ WritesAt(z, T, rq, pk, tok, st, f + n)'
  BY <1>3
<1>5. f \in Nat /\ T \in Nat /\ f <= T /\ tok \in [Nat -> Byte] /\ Pending = Slice(tok, f, T - f)
  BY <1>1, <1>2, PendingSlice
<1>6. Pending' = Slice(tok, f + n, T - (f + n))
  BY <1>3, <1>4, NextPending
<1>7. PICK l \in Nat, z0 \in Nat, r \in Nat :
         /\ l = T - f /\ z0 = 0 /\ r = T - (f + n) /\ n <= l /\ n + r = l
  <2>1. T - f \in Nat /\ T - (f + n) \in Nat /\ n <= T - f /\ n + (T - (f + n)) = T - f
    BY <1>4, <1>5
  <2> QED BY <2>1
<1>20. f \in Nat /\ tok \in [Nat -> Byte]
  BY <1>5
<1>8. Len(Pending) = l
  <2>1. Len(Slice(tok, f, l)) = l
    BY <1>20, SliceSeq
  <2> QED BY <1>5, <1>7, <2>1
<1>30. n \in Nat
  OBVIOUS
<1>9. SubSeq(Pending, 1, n) = Slice(tok, f, n)
  <2>1. z0 + n <= l /\ 1 = z0 + 1 /\ n = z0 + n /\ f = f + z0
    BY <1>5, <1>7
  <2>2. Part(Slice(tok, f, l), 1, n, Slice(tok, f, n))
    BY <1>20, <1>30, <2>1, PartSlice
  <2> QED BY <1>5, <1>7, <2>2 DEF Part
<1>10. SubSeq(Pending, n + 1, Len(Pending)) = Slice(tok, f + n, r)
  <2>1. n + r <= l /\ l = n + r
    BY <1>7
  <2>2. Part(Slice(tok, f, l), n + 1, l, Slice(tok, f + n, r))
    BY <1>20, <1>30, <2>1, PartSlice
  <2> QED BY <1>5, <1>7, <1>8, <2>2 DEF Part
<1>11. mem' = Memory!Written(Slice(tok, f, n))
  <2>1. PICK a \in Nat : a = Head(c2hDsc).addr + c2hDone
    BY <1>1, <1>4 DEF Moves, WriteTypes
  <2>2. PICK s \in Seq(Byte) : s = Slice(tok, f, n) /\ Len(s) = n
                               /\ \A k \in 1 .. n : s[k] = tok[f + (k - 1)]
    <3>1. n \in Nat
      OBVIOUS
    <3>2. /\ Slice(tok, f, n) \in Seq(Byte) /\ Len(Slice(tok, f, n)) = n
          /\ \A k \in 1 .. n : Slice(tok, f, n)[k] = tok[f + (k - 1)]
      BY <1>20, <3>1, SliceSeq
    <3> QED BY <3>2
  <2>3. ASSUME NEW k \in 1 .. n PROVE Memory!Translate(s[k].vaddr) = a + (k - 1)
    <3>1. k - 1 \in 0 .. n - 1
      OBVIOUS
    <3>2. Memory!Translate(tok[f + (k - 1)].vaddr) = (Head(c2hDsc).addr + c2hDone) + (k - 1)
      BY <1>4, <3>1 DEF Moves
    <3> QED BY <2>1, <2>2, <3>2
  <2>4. Memory!Written(s) = [p \in DOMAIN mem |-> IF p \in a .. a + n - 1
                                                  THEN s[p - a + 1] ELSE mem[p]]
    <3>1. n \in Nat /\ Len(s) = n
      BY <2>2
    <3>2. Lands(s, a, n)
      BY <2>3 DEF Lands
    <3> QED BY <3>1, <3>2, WrittenIs, SMTT(30)
  <2>5. Head(dataOut).bytes = s
    BY <1>4, <2>2 DEF Moves
  <2>6. mem' = [p \in DOMAIN mem |->
                  IF p \in a .. a + Len(s) - 1 THEN s[p - a + 1] ELSE mem[p]]
    BY <2>1, <2>5 DEF C2hWord
  <2> QED BY <2>2, <2>4, <2>6
<1>12. n \in 1 .. Len(Pending)
  BY <1>7, <1>8
<1>13. UNCHANGED <<mapping, requests>>
  BY DEF C2hWord, envVars
<1>14. mem' = Memory!Written(SubSeq(Pending, 1, n))
       /\ Pending' = SubSeq(Pending, n + 1, Len(Pending))
  BY <1>6, <1>7, <1>9, <1>10, <1>11
<1> QED BY <1>12, <1>13, <1>14 DEF Memory!Deliver

LEMMA MemoryStep ==
  ASSUME PathAssumption, WriteInv, [PathNext]_pathVars
  PROVE  [Memory!Next]_(Memory!vars)
<1>1. CASE \E base \in Bases, pages \in PageTables : HostMap(base, pages)
  BY <1>1, HostMapMaps DEF Memory!Next
<1>2. CASE \E addr \in Memory!Address, len \in Lengths : IssueWrite(addr, len)
  BY <1>2, IssueWriteIssues DEF Memory!Next
<1>3. CASE C2hWord
  BY <1>3, C2hWordDelivers DEF Memory!Next
<1>4. CASE InnerStep
  BY <1>4, InnerStutters DEF Memory!vars
<1> QED BY <1>1, <1>2, <1>3, <1>4, StepKinds

(* The bytes of the write requests lie in a line, and every command,       *)
(* descriptor and word of the path is determined by the position of its    *)
(* first byte: the inductive invariant that the other theorems about the   *)
(* writes follow from.                                                     *)
THEOREM WritesInLine == PathSpec => []WriteInv
<1>1. PathInit => WriteInv
  BY WriteStart, PathAssumption
<1>2. WriteInv /\ [PathNext]_pathVars => WriteInv'
  BY WriteStep, PathAssumption
<1> QED BY <1>1, <1>2, PTL DEF PathSpec

(* Type correctness: no stream of the path, between the processes of the   *)
(* boundary check, the TLB and the XDMA core, holds more than its capacity *)
(* or anything but commands and words of 1 to WordSize bytes.              *)
THEOREM PathTypes == PathSpec => []PathTypeOK
<1>1. WriteInv => PathTypeOK
  BY InvTypes, PathAssumption
<1> QED BY <1>1, WritesInLine, PTL

(* LAST, the state in which pkg_split sends without reading, is entered    *)
(* only with a leftover, for which the switch over the length has a case.  *)
THEOREM LastWordIsAssigned == PathSpec => []LastHasLeftover
<1>1. WriteInv => LastHasLeftover
  BY InvLeftover, PathAssumption
<1> QED BY <1>1, WritesInLine, PTL

(* No legal request makes the TLB count a page crossing or a miss,         *)
(* although boundary_check cuts with a base address that is one mapping    *)
(* old and the table is refilled between requests.                         *)
THEOREM CommandsStayInPages == PathSpec => []NoCrossingNoMiss
<1>1. WriteInv => NoCrossingNoMiss
  BY InvCounters
<1> QED BY <1>1, WritesInLine, PTL

(* The counters of dma_inf agree whenever no byte is on its way: a         *)
(* descriptor that was counted and has no packet waits for bytes that are. *)
THEOREM StatisticsAreExact == PathSpec => []StatisticsAgree
<1>1. WriteInv => StatisticsAgree
  BY InvStatistics, PathAssumption
<1> QED BY <1>1, WritesInLine, PTL

(* The word that ends a packet ends the descriptor the XDMA core writes it *)
(* with: the two processes that cut commands and data cut alike.           *)
THEOREM PacketsFillDescriptors == PathSpec => PacketFillsDescriptor
<1>1. WriteInv /\ [PathNext]_pathVars =>
        [dma_write_pkg_counter' # dma_write_pkg_counter =>
           c2hDone + Len(Head(dataOut).bytes) = Head(c2hDsc).len]_pathVars
  BY PacketStep, PathAssumption
<1> QED BY <1>1, WritesInLine, PTL DEF PathSpec, PacketFillsDescriptor

(* The path implements DmaMemory: every byte of every write request        *)
(* reaches memory once, in the order of issue, at the physical address of  *)
(* its page.  A word that the XDMA core moves is a delivery of its bytes,  *)
(* and every other step of the hardware stutters.                          *)
THEOREM WritesImplementMemory == PathSpec => WritesReachMemory
<1>1. PathInit => Memory!Init
  BY DEF PathInit
<1>2. WriteInv /\ [PathNext]_pathVars => [Memory!Next]_(Memory!vars)
  BY MemoryStep, PathAssumption
<1> QED BY <1>1, <1>2, WritesInLine, PTL DEF PathSpec, WritesReachMemory, Memory!Spec
=============================================================================
