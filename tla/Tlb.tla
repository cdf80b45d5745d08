-------------------------------- MODULE Tlb --------------------------------
(***************************************************************************)
(* The translation table of the FPGA (hls/tlb/tlb.cpp).  One call of tlb() *)
(* serves one input stream: a write command if there is one, else a read   *)
(* command, else a mapping from the host.  A call whose output stream is   *)
(* full stalls, and with it every stream of lower priority.                *)
(*                                                                         *)
(* The module describes the calls only: who fills the input streams and    *)
(* drains the output streams is for the module that composes it.           *)
(***************************************************************************)
EXTENDS Integers, Sequences

CONSTANTS
  PageSize,    \* 2 MB
  TlbEntries,  \* TLB_ENTRIES
  AddrMod,     \* 2^64: number of values of an address
  LenMod,      \* 2^28: number of values of dmaCmd::len
  CmdDepth     \* commands an output stream and its clock converter hold

VARIABLES
  s_axis_mem_write_cmd, s_axis_mem_read_cmd, s_axis_tlb_interface,
  m_axis_dma_write_cmd, m_axis_dma_read_cmd,
  tlb_table,               \* physical base of each page
  base_vaddr,              \* virtual address of page 0
  top_page_base,           \* highest page mapped so far
  tlbMissCounter, tlbPageCrossingCounter

table == <<tlb_table, base_vaddr, top_page_base>>
counters == <<tlbMissCounter, tlbPageCrossingCounter>>

Init ==
  /\ s_axis_mem_write_cmd = <<>>
  /\ s_axis_mem_read_cmd = <<>>
  /\ s_axis_tlb_interface = <<>>
  /\ m_axis_dma_write_cmd = <<>>
  /\ m_axis_dma_read_cmd = <<>>
  /\ tlb_table = [page \in 0 .. TlbEntries - 1 |-> 0]
  /\ base_vaddr = 0
  /\ top_page_base = 0
  /\ tlbMissCounter = 0
  /\ tlbPageCrossingCounter = 0

PageBase(vaddr, base) == ((vaddr - base) % AddrMod) \div PageSize
PageOffset(vaddr, base) == ((vaddr - base) % AddrMod) % PageSize

(* mutant: the offset in the page is lost *)
TranslatedPage(cmd) ==
  [addr |-> tlb_table[PageBase(cmd.addr, base_vaddr) % TlbEntries], len |-> cmd.len % LenMod]

(* The command for the DMA engine.  The page number is cut to the width of *)
(* the table's index; nothing checks that the page was ever mapped.        *)
Translated(cmd) ==
  [addr |-> tlb_table[PageBase(cmd.addr, base_vaddr) % TlbEntries]
              + PageOffset(cmd.addr, base_vaddr),
   len  |-> cmd.len % LenMod]

Count(cmd) ==
  /\ tlbMissCounter' = IF PageBase(cmd.addr, base_vaddr) > top_page_base
                       THEN tlbMissCounter + 1 ELSE tlbMissCounter
  /\ tlbPageCrossingCounter' = IF PageOffset(cmd.addr, base_vaddr) + cmd.len > PageSize
                               THEN tlbPageCrossingCounter + 1 ELSE tlbPageCrossingCounter

WriteCmd ==
  /\ s_axis_mem_write_cmd # <<>>
  /\ Len(m_axis_dma_write_cmd) < CmdDepth
  /\ s_axis_mem_write_cmd' = Tail(s_axis_mem_write_cmd)
  /\ m_axis_dma_write_cmd' =
       Append(m_axis_dma_write_cmd, Translated(Head(s_axis_mem_write_cmd)))
  /\ Count(Head(s_axis_mem_write_cmd))
  /\ UNCHANGED <<table, s_axis_mem_read_cmd, s_axis_tlb_interface, m_axis_dma_read_cmd>>

ReadCmd ==
  /\ s_axis_mem_write_cmd = <<>>
  /\ s_axis_mem_read_cmd # <<>>
  /\ Len(m_axis_dma_read_cmd) < CmdDepth
  /\ s_axis_mem_read_cmd' = Tail(s_axis_mem_read_cmd)
  /\ m_axis_dma_read_cmd' =
       Append(m_axis_dma_read_cmd, Translated(Head(s_axis_mem_read_cmd)))
  /\ Count(Head(s_axis_mem_read_cmd))
  /\ UNCHANGED <<table, s_axis_mem_write_cmd, s_axis_tlb_interface, m_axis_dma_write_cmd>>

(* mutant: every mapping moves the base *)
EveryBase(m) == m.vaddr

NewBase(m) == IF m.isBase THEN m.vaddr ELSE base_vaddr

(* A base mapping moves the origin of the table and maps page 0; entries   *)
(* and top_page_base of an earlier origin stay.                            *)
NewMapping ==
  /\ s_axis_mem_write_cmd = <<>>
  /\ s_axis_mem_read_cmd = <<>>
  /\ s_axis_tlb_interface # <<>>
  /\ LET newMapping == Head(s_axis_tlb_interface)
         base == NewBase(newMapping)
         page == PageBase(newMapping.vaddr, base)
     IN  /\ base_vaddr' = base
         /\ tlb_table' = [tlb_table EXCEPT ![page % TlbEntries] = newMapping.paddr]
         /\ top_page_base' = IF page > top_page_base THEN page ELSE top_page_base
  /\ s_axis_tlb_interface' = Tail(s_axis_tlb_interface)
  /\ UNCHANGED <<counters, s_axis_mem_write_cmd, s_axis_mem_read_cmd,
                 m_axis_dma_write_cmd, m_axis_dma_read_cmd>>
=============================================================================
