---------------------------- MODULE XdmaSession ----------------------------
(***************************************************************************)
(* How a program gets its buffer to the FPGA: Fpga::initializeMemory()     *)
(* (sw/src/fpga/Fpga.cpp) maps the huge page file and hands it to the      *)
(* driver, whose ioctls (driver/xdma_driver.c) pin the pages and report    *)
(* their physical addresses, and writes these to the TLB.                  *)
(*                                                                         *)
(* All programs map the same file, so they share its physical pages but    *)
(* not its virtual address.  The driver keeps one buffer for all of them   *)
(* and has no lock: two programs, for instance the example and the debug   *)
(* program, can be anywhere in their ioctls at the same time.  alone and   *)
(* clean record who got in between, so that the properties say how far one *)
(* program can rely on the driver and the TLB beside another.  A mapping   *)
(* goes to the TLB in five words through a register whose word counter no  *)
(* program resets: what a program that ends between two words has written  *)
(* stays there.  The TLB takes a mapping as in hls/tlb/tlb.cpp.            *)
(*                                                                         *)
(* Addresses are in units of 4 KB pages, virtual and physical ones.  The   *)
(* instance that xdma_open() finds is taken to be the same for everybody.  *)
(***************************************************************************)
EXTENDS Integers, Sequences, FiniteSets

CONSTANTS
  Process,     \* programs
  NumHuge,     \* NUM_HUGE_PAGES
  PerHuge,     \* 4 KB pages in a huge page, 512
  Bases,       \* numbers of the virtual huge pages at which mmap() can place the buffer
  TlbEntries,  \* TLB_ENTRIES, a power of two at least NumHuge
  Word,        \* pages that the lower word of an address can tell apart, 2^32 bytes
  Pins,        \* numbers of pages that get_user_pages() may pin
  MaxSessions  \* bound on the number of sessions

NumPages == NumHuge * PerHuge

(* The buffer fits into the TLB. *)
ASSUME SessionAssumption ==
  /\ NumHuge \in Nat /\ PerHuge \in Nat \ {0} /\ Bases \subseteq Nat
  /\ TlbEntries \in Nat \ {0} /\ NumHuge <= TlbEntries
  /\ Word \in Nat \ {0} /\ MaxSessions \in Nat
  /\ Pins \subseteq 1 .. NumPages

(* The physical huge page of page k of the file.  Files are not contiguous *)
(* in memory, so the pages are in reverse order here.                      *)
Phys(k) == 2 * NumHuge - k

(* A page pointer that was never written: no page of the file. *)
Garbage == <<0, 0>>

VARIABLES
  huge_pages,    \* the list of 4 KB pages, empty when there is none
  huge_npages, huge_hnpages,
  tlb_data,      \* words of a mapping in the register; word_counter is their number
  tlb_table, base_vaddr,
  pc,            \* where each process is in initializeMemory()
  huge_base,     \* where it mapped the file
  pinned,        \* get_user_pages()'s result in ioctl_do_buffer_set()
  dma_addr,      \* what MAPPING_GET returned, map.npages entries
  entry,         \* the loop variable of initializeMemory()
  sent,          \* words written in the current writeTlb()
  refs,          \* references the driver holds on each page of the file
  sessions,      \* number of sessions begun
  alone,         \* history: nobody else changed the list since the own BUFFER_SET began
  mapped_alone,  \* history: alone when MAPPING_GET was called
  clean          \* history: the register was empty when the first word of the own base
                 \* mapping was written, and nobody else wrote a word to it since

driverVars == <<huge_pages, huge_npages, huge_hnpages>>
tlbVars    == <<tlb_data, tlb_table, base_vaddr>>
presence   == <<alone, mapped_alone, clean>>
sessionVars ==
  <<driverVars, tlbVars, pc, huge_base, pinned, dma_addr, entry, sent, refs, sessions,
    presence>>

SessionInit ==
  /\ huge_pages = <<>> /\ huge_npages = 0 /\ huge_hnpages = 0
  /\ tlb_data = <<>>
  /\ tlb_table = [i \in 0 .. TlbEntries - 1 |-> 0]
  /\ base_vaddr = 0
  /\ pc = [p \in Process |-> "off"]
  /\ huge_base = [p \in Process |-> 0]
  /\ pinned = [p \in Process |-> 0]
  /\ dma_addr = [p \in Process |-> <<>>]
  /\ entry = [p \in Process |-> 0]
  /\ sent = [p \in Process |-> 0]
  /\ refs = [i \in 1 .. NumPages |-> 0]
  /\ sessions = 0
  /\ alone = [p \in Process |-> FALSE]
  /\ mapped_alone = [p \in Process |-> FALSE]
  /\ clean = [p \in Process |-> FALSE]

Goto(p, label) == pc' = [pc EXCEPT ![p] = label]

(* The i-th 4 KB page of the file. *)
PageOf(i) == <<Phys((i - 1) \div PerHuge), (i - 1) % PerHuge>>

(* A step of p that the flag records at the others, and starts at p. *)
Disturb(flag, p, start) == [q \in Process |-> IF q = p THEN start \/ flag[p] ELSE FALSE]

-----------------------------------------------------------------------------
(* Open the devices and map the buffer. *)
MapBuffer(p, base) ==
  /\ pc[p] = "off" /\ sessions < MaxSessions
  /\ sessions' = sessions + 1
  /\ huge_base' = [huge_base EXCEPT ![p] = base]
  /\ Goto(p, "set")
  /\ UNCHANGED <<driverVars, tlbVars, pinned, dma_addr, entry, sent, refs, presence>>

(* BUFFER_SET replaces the list by one that is not filled yet; the old one *)
(* is lost, and the counts still belong to it.                             *)
BufferSetAlloc(p) ==
  /\ pc[p] = "set"
  /\ huge_pages' = [i \in 1 .. NumPages |-> Garbage]
  /\ Goto(p, "pin")
  /\ alone' = Disturb(alone, p, TRUE)
  /\ UNCHANGED <<huge_npages, huge_hnpages, tlbVars, huge_base, pinned, dma_addr, entry, sent, refs,
                 sessions, mapped_alone, clean>>

(* get_user_pages fills the list, or as much of it as can be pinned.  It   *)
(* never returns 0 for a list that is not empty; a negative result, which  *)
(* the code would take for a number of pages, is left out.                 *)
BufferSetPin(p, n) ==
  /\ pc[p] = "pin"
  /\ huge_pages' = [i \in 1 .. NumPages |->
                      IF i <= n THEN PageOf(i) ELSE huge_pages[i]]
  /\ refs' = [i \in 1 .. NumPages |-> IF i <= n THEN refs[i] + 1 ELSE refs[i]]
  /\ pinned' = [pinned EXCEPT ![p] = n]
  /\ Goto(p, "count")
  /\ alone' = Disturb(alone, p, FALSE)
  /\ UNCHANGED <<huge_npages, huge_hnpages, tlbVars, huge_base, dma_addr, entry, sent, sessions,
                 mapped_alone, clean>>

(* Huge pages that begin in the first n pages. *)
HugeOf(n) == Cardinality({i \in 0 .. n - 1 : i % PerHuge = 0})

BufferSetCount(p) ==
  /\ pc[p] = "count"
  /\ huge_npages' = pinned[p]
  /\ huge_hnpages' = HugeOf(pinned[p])
  /\ Goto(p, "get")
  /\ alone' = Disturb(alone, p, FALSE)
  /\ UNCHANGED <<huge_pages, tlbVars, huge_base, pinned, dma_addr, entry, sent, refs, sessions,
                 mapped_alone, clean>>

(* page_to_phys *)
PageToPhys(page) == page[1] * PerHuge + page[2]

(* mutant: every page is taken for the first of a huge page *)
AddressesUnscaled == [k \in 1 .. huge_hnpages |-> PageToPhys(huge_pages[k])]

(* The physical address of the first page of each huge page. *)
Addresses == [k \in 1 .. huge_hnpages |-> PageToPhys(huge_pages[(k - 1) * PerHuge + 1])]

(* MAPPING_GET.  A caller with room for fewer pages is refused, which it   *)
(* ignores: it goes on with the zeroes it allocated.                       *)
MappingGet(p) ==
  /\ pc[p] = "get"
  /\ dma_addr' = [dma_addr EXCEPT ![p] =
       IF NumHuge < huge_hnpages THEN [k \in 1 .. NumHuge |-> 0] ELSE Addresses]
  /\ entry' = [entry EXCEPT ![p] = 0]
  /\ sent' = [sent EXCEPT ![p] = 0]
  /\ Goto(p, "tlb")
  /\ mapped_alone' = [mapped_alone EXCEPT ![p] = alone[p]]
  /\ UNCHANGED <<driverVars, tlbVars, huge_base, pinned, refs, sessions, alone, clean>>

IsBaseAlways(i) == TRUE  \* mutant: every entry is marked as the base
IsBase(i) == i = 0

(* The five words of writeTlb() for the next page. *)
VirtAddr(p, i) == (huge_base[p] + i) * PerHuge

WordsOf(p) ==
  LET vaddr == VirtAddr(p, entry[p])
      paddr == dma_addr[p][entry[p] + 1]
  IN  <<vaddr % Word, vaddr \div Word, paddr % Word, paddr \div Word,
        IF IsBase(entry[p]) THEN 1 ELSE 0>>

(* The entry the TLB has for an address. *)
EntryOf(vaddr, base) == ((vaddr - base) \div PerHuge) % TlbEntries

(* The TLB takes the mapping that five words make. *)
TakeMapping(words) ==
  LET vaddr == words[1] + Word * words[2]
      base == IF words[5] % 2 = 1 THEN vaddr ELSE base_vaddr
  IN  /\ base_vaddr' = base
      /\ tlb_table' = [tlb_table EXCEPT ![EntryOf(vaddr, base)] = words[3] + Word * words[4]]

(* The register takes a word as the next one of a mapping, whoever wrote   *)
(* the words before it; the fifth goes to the TLB, and the register        *)
(* accepts no other until the TLB has taken it.                            *)
TakeWord(word) ==
  LET words == Append(tlb_data, word)
  IN  IF Len(words) < 5
      THEN tlb_data' = words /\ UNCHANGED <<tlb_table, base_vaddr>>
      ELSE tlb_data' = <<>> /\ TakeMapping(words)

(* One write of writeTlb(). *)
WriteTlb(p) ==
  /\ pc[p] = "tlb" /\ entry[p] < Len(dma_addr[p])
  /\ TakeWord(WordsOf(p)[sent[p] + 1])
  /\ sent' = [sent EXCEPT ![p] = (@ + 1) % 5]
  /\ entry' = [entry EXCEPT ![p] = IF sent[p] = 4 THEN @ + 1 ELSE @]
  /\ clean' = [q \in Process |->
                 /\ q = p
                 /\ IF entry[p] = 0 /\ sent[p] = 0 THEN tlb_data = <<>> ELSE clean[p]]
  /\ UNCHANGED <<driverVars, pc, huge_base, pinned, dma_addr, refs, sessions, alone,
                 mapped_alone>>

(* The allocator is set up over the whole buffer. *)
Ready(p) ==
  /\ pc[p] = "tlb" /\ entry[p] = Len(dma_addr[p])
  /\ Goto(p, "ready")
  /\ UNCHANGED <<driverVars, tlbVars, huge_base, pinned, dma_addr, entry, sent, refs,
                 sessions, presence>>

ListedHuge == 1 .. huge_hnpages  \* mutant: the huge pages are counted
Listed == 1 .. huge_npages

(* The program is gone and its variables with it. *)
Leave(p) ==
  /\ Goto(p, "off")
  /\ huge_base' = [huge_base EXCEPT ![p] = 0]
  /\ pinned' = [pinned EXCEPT ![p] = 0]
  /\ dma_addr' = [dma_addr EXCEPT ![p] = <<>>]
  /\ entry' = [entry EXCEPT ![p] = 0] /\ sent' = [sent EXCEPT ![p] = 0]
  /\ mapped_alone' = [mapped_alone EXCEPT ![p] = FALSE]
  /\ clean' = [clean EXCEPT ![p] = FALSE]

(* RELEASE, which no program of the repository calls: it gives back the    *)
(* pages of whatever list the driver has now, and frees the list without   *)
(* forgetting it or the counts.  A page pointer that was never written or  *)
(* that was freed is taken to name no page of the file.                    *)
ReleasePages(p) ==
  /\ pc[p] = "ready"
  /\ refs' = [i \in 1 .. NumPages |->
                refs[i] - Cardinality({k \in Listed : huge_pages[k] = PageOf(i)})]
  /\ Goto(p, "free")
  /\ UNCHANGED <<driverVars, tlbVars, huge_base, pinned, dma_addr, entry, sent, sessions,
                 presence>>

ReleaseList(p) ==
  /\ pc[p] = "free"
  /\ huge_pages' = [i \in 1 .. NumPages |-> Garbage]
  /\ Leave(p)
  /\ alone' = [q \in Process |-> FALSE]
  /\ UNCHANGED <<huge_npages, huge_hnpages, tlbVars, refs, sessions>>

(* clear(), or the process ends, which it can do whenever it is not in the *)
(* driver, between two words of writeTlb() too.  Neither releases the      *)
(* pages or touches the TLB and its register.                              *)
End(p) ==
  /\ pc[p] \in {"set", "get", "tlb", "ready"}
  /\ Leave(p)
  /\ alone' = [alone EXCEPT ![p] = FALSE]
  /\ UNCHANGED <<driverVars, tlbVars, refs, sessions>>

-----------------------------------------------------------------------------
SessionNext ==
  \E p \in Process :
    \/ \E base \in Bases : MapBuffer(p, base)
    \/ BufferSetAlloc(p) \/ (\E n \in Pins : BufferSetPin(p, n)) \/ BufferSetCount(p)
    \/ MappingGet(p) \/ WriteTlb(p) \/ Ready(p)
    \/ ReleasePages(p) \/ ReleaseList(p) \/ End(p)

SessionSpec == SessionInit /\ [][SessionNext]_sessionVars

-----------------------------------------------------------------------------
(* What MAPPING_GET reports is the buffer, unless another program was in   *)
(* BUFFER_SET or RELEASE since the caller's own BUFFER_SET began: the k-th *)
(* address is that of the first page of the k-th huge page of the file,    *)
(* and was pinned, although the list is replaced before it is filled, the  *)
(* counts change last, and an earlier list may have been freed or left     *)
(* half filled.                                                            *)
MappingIsBuffer ==
  \A p \in Process : pc[p] = "tlb" /\ mapped_alone[p] =>
    \A k \in DOMAIN dma_addr[p] : dma_addr[p][k] = Phys(k - 1) * PerHuge

(* A session that is ready has its buffer behind its virtual addresses:    *)
(* every page that was reported, whatever mappings, at whatever base,      *)
(* earlier or parallel sessions left in the TLB.  It needs three things:   *)
(* its mapping is the buffer; no program had ended inside writeTlb() or    *)
(* mixed its words with another's, so that the register was in the middle  *)
(* of a mapping when the session began to write; and nobody else wrote a   *)
(* word since.  In the middle of a mapping the register would take the     *)
(* words of this session for others, up to the last.                       *)
TlbServesSession ==
  \A p \in Process : pc[p] = "ready" /\ mapped_alone[p] /\ clean[p] =>
    \A k \in 0 .. Len(dma_addr[p]) - 1 :
      tlb_table[EntryOf(VirtAddr(p, k), base_vaddr)] = Phys(k) * PerHuge

(* RELEASE gives back what the caller pinned: if nobody else changed the   *)
(* list since its BUFFER_SET began, every page it pinned loses one         *)
(* reference and no other page does, also when only a part was pinned.     *)
ReleaseGivesBackOwn ==
  [][\A p \in Process : pc[p] = "ready" /\ pc'[p] = "free" /\ alone[p] =>
       refs' = [i \in 1 .. NumPages |-> IF i <= pinned[p] THEN refs[i] - 1 ELSE refs[i]]
    ]_sessionVars
=============================================================================
