------------------------------ MODULE DmaPath ------------------------------
(***************************************************************************)
(* The DMA path of the FPGA (hdl/common/dma_inf.sv): write commands and    *)
(* their data pass the boundary check, read commands bypass it, the TLB    *)
(* translates both, and the descriptor bypass loads the translated         *)
(* commands into the XDMA core, which moves the data.                      *)
(*                                                                         *)
(* The XDMA core is external: it takes the C2H descriptors in order, and   *)
(* writes the words of the next packet from the descriptor's address on.   *)
(* The user logic and the host are the environment, with the contract of   *)
(* the example program: a request is issued when the whole buffer has been *)
(* mapped, and the buffer is mapped anew when all requests have completed. *)
(***************************************************************************)
EXTENDS BoundaryCheck

LOCAL INSTANCE SequencesExt

CONSTANTS
  TlbEntries, AddrMod, LenMod,
  DscDepth,     \* descriptors the XDMA core holds per direction
  Bases, PageTables, Lengths, MaxRequests,
  MaxReads,     \* bound on the number of read requests
  MaxMappings   \* bound on the number of times the buffer is mapped

(* A buffer begins at a page, as a mapping of huge pages does, and fits    *)
(* the address space and the translation table.  What crosses one page     *)
(* boundary at most fits the length of a DMA command, and a word consists  *)
(* of whole lanes.                                                         *)
ASSUME PathAssumption ==
  /\ PageSize \in Nat \ {0} /\ WordSize \in Nat \ {0}
  /\ Lane \in Nat \ {0} /\ WordSize % Lane = 0
  /\ CmdDepth \in Nat /\ DataDepth \in Nat /\ DscDepth \in Nat
  /\ PageOffsetFifoDepth \in Nat /\ MetaFifoDepth \in Nat /\ MaxRequests \in Nat
  /\ TlbEntries \in Nat /\ AddrMod \in Nat /\ LenMod \in Nat /\ 2 * PageSize < LenMod
  /\ Bases \subseteq Nat /\ Lengths \subseteq Nat \ {0}
  /\ \A base \in Bases : base % PageSize = 0
  /\ \A pages \in PageTables :
       /\ pages \in Seq(Nat) /\ Len(pages) \in 1 .. TlbEntries
       /\ \A base \in Bases : base + PageSize * Len(pages) <= AddrMod

VARIABLES
  readCmd, tlbInterface, dmaWriteCmd, dmaReadCmd,
  tlb_table, base_vaddr, top_page_base, tlbMissCounter, tlbPageCrossingCounter,
  regBaseVaddr, regBaseVaddrBoundCheck,
  c2hDsc, c2hDone,    \* descriptors of the C2H engine, bytes moved of the first
  h2cDsc, h2cDone,    \* the same for the H2C engine
  dma_write_cmd_counter, dma_write_pkg_counter,
  dma_read_cmd_counter, dma_read_pkg_counter,
  mapping, mappings,  \* the host's mapping, and how many it made
  requests, reads,    \* number of writes issued, read requests issued
  mem                 \* host memory

TLB == INSTANCE Tlb WITH
         s_axis_mem_write_cmd <- cmdOut, s_axis_mem_read_cmd <- readCmd,
         s_axis_tlb_interface <- tlbInterface,
         m_axis_dma_write_cmd <- dmaWriteCmd, m_axis_dma_read_cmd <- dmaReadCmd

tlbVars == <<readCmd, tlbInterface, dmaWriteCmd, dmaReadCmd, tlb_table, base_vaddr,
             top_page_base, tlbMissCounter, tlbPageCrossingCounter>>
baseVars == <<regBaseVaddr, regBaseVaddrBoundCheck>>
writeVars == <<c2hDsc, c2hDone, dma_write_cmd_counter, dma_write_pkg_counter, mem>>
readVars == <<h2cDsc, h2cDone, dma_read_cmd_counter, dma_read_pkg_counter>>
envVars == <<mapping, mappings, requests, reads>>
pathVars == <<checkVars, tlbVars, baseVars, writeVars, readVars, envVars>>

(* The bytes on their way to memory: in the words that left pkg_split, in  *)
(* the part of the previous word it has still to send, and in the words it *)
(* has not read.                                                           *)
BytesOf(words) == [i \in DOMAIN words |-> words[i].bytes]
Leftover ==
  IF pbc_state \in {"PKG_SECOND", "LAST"} /\ meta.length \in Shift
  THEN Beyond(prevWord, meta.length) ELSE <<>>
Pending == FlattenSeq(BytesOf(dataOut)) \o Leftover \o FlattenSeq(BytesOf(dataIn))

Memory == INSTANCE DmaMemory WITH todo <- Pending

PathInit ==
  /\ Init
  /\ TLB!Init
  /\ Memory!Init
  /\ mappings = 0
  /\ reads = <<>>
  /\ regBaseVaddr = 0
  /\ regBaseVaddrBoundCheck = 0
  /\ c2hDsc = <<>>
  /\ c2hDone = 0
  /\ h2cDsc = <<>>
  /\ h2cDone = 0
  /\ dma_write_cmd_counter = 0
  /\ dma_write_pkg_counter = 0
  /\ dma_read_cmd_counter = 0
  /\ dma_read_pkg_counter = 0

-----------------------------------------------------------------------------
(* The environment.  The host maps the pages of its buffer in order, the   *)
(* first one as the base.                                                  *)
HostMap(base, pages) ==
  /\ mappings < MaxMappings
  /\ tlbInterface = <<>>
  /\ Pending = <<>>
  /\ dma_read_pkg_counter = Len(reads)
  /\ mapping' = [base |-> base, pages |-> pages]
  /\ mappings' = mappings + 1
  /\ tlbInterface' = [i \in DOMAIN pages |->
                        [vaddr |-> base + (i - 1) * PageSize, paddr |-> pages[i], isBase |-> i = 1]]
  /\ UNCHANGED <<checkVars, readCmd, dmaWriteCmd, dmaReadCmd, tlb_table, base_vaddr,
                 top_page_base, tlbMissCounter, tlbPageCrossingCounter, baseVars, writeVars,
                 readVars, requests, reads>>

(* The words of a packet.  They are put into dataIn together with the      *)
(* command: that they come later shows as a pkg_split that steps later.    *)
Words(bytes) ==
  LET n == (Len(bytes) + WordSize - 1) \div WordSize
  IN  [i \in 1 .. n |-> [bytes |-> First(Beyond(bytes, (i - 1) * WordSize), WordSize),
                         last |-> i = n]]

IssueWrite(addr, len) ==
  /\ requests < MaxRequests
  /\ tlbInterface = <<>>
  /\ Memory!Legal(addr, len)
  /\ requests' = requests + 1
  /\ cmdIn' = Append(cmdIn, [addr |-> addr, len |-> len])
  /\ dataIn' = dataIn \o Words(Memory!Bytes(requests', addr, len))
  /\ UNCHANGED <<cmdOut, dataOut, pageOffsetFifo, metaFifo, bc_state, cmd, pbc_state, meta,
                 metaLoaded, prevWord, tlbVars, baseVars, writeVars, readVars, mapping,
                 mappings, reads>>

(* Read commands are not split, so the user logic keeps them in one page.  *)
IssueRead(addr, len) ==
  /\ Len(reads) < MaxReads
  /\ tlbInterface = <<>>
  /\ Memory!Legal(addr, len)
  /\ ((addr - mapping.base) % PageSize) + len <= PageSize
  /\ reads' = Append(reads, [addr |-> addr, len |-> len])
  /\ readCmd' = Append(readCmd, [addr |-> addr, len |-> len])
  /\ UNCHANGED <<checkVars, tlbInterface, dmaWriteCmd, dmaReadCmd, tlb_table, base_vaddr,
                 top_page_base, tlbMissCounter, tlbPageCrossingCounter, baseVars, writeVars,
                 readVars, mapping, mappings, requests>>

-----------------------------------------------------------------------------
(* The boundary check, with the base address register it is wired to. *)
CheckStep ==
  /\ \/ CalculatePageOffset(regBaseVaddrBoundCheck)
     \/ BoundaryCheckCmd
     \/ BoundaryCheckSplit
  /\ UNCHANGED <<tlbVars, baseVars, writeVars, readVars, envVars>>

SplitStep ==
  /\ PkgSplit
  /\ UNCHANGED <<tlbVars, baseVars, writeVars, readVars, envVars>>

restOfCheck == <<cmdIn, dataIn, dataOut, pageOffsetFifo, metaFifo, bc_state, cmd, splitVars>>

TranslateWrite ==
  /\ TLB!WriteCmd
  /\ UNCHANGED <<restOfCheck, baseVars, writeVars, readVars, envVars>>

TranslateRead ==
  /\ TLB!ReadCmd
  /\ UNCHANGED <<restOfCheck, baseVars, writeVars, readVars, envVars>>

(* The base registers follow the mappings that the TLB takes; the one the  *)
(* boundary check is wired to gets the value the other one had before.     *)
TakeMapping ==
  /\ TLB!NewMapping
  /\ IF Head(tlbInterface).isBase
     THEN /\ regBaseVaddr' = Head(tlbInterface).vaddr
          /\ regBaseVaddrBoundCheck' = regBaseVaddr
     ELSE UNCHANGED baseVars
  /\ UNCHANGED <<restOfCheck, writeVars, readVars, envVars>>

-----------------------------------------------------------------------------
(* Descriptor bypass *)

LoadWriteDescriptor ==
  /\ dmaWriteCmd # <<>>
  /\ Len(c2hDsc) < DscDepth
  /\ dmaWriteCmd' = Tail(dmaWriteCmd)
  /\ c2hDsc' = Append(c2hDsc, Head(dmaWriteCmd))
  /\ dma_write_cmd_counter' = dma_write_cmd_counter + 1
  /\ UNCHANGED <<checkVars, readCmd, tlbInterface, dmaReadCmd, tlb_table, base_vaddr,
                 top_page_base, tlbMissCounter, tlbPageCrossingCounter, baseVars, c2hDone,
                 dma_write_pkg_counter, mem, readVars, envVars>>

LoadReadDescriptor ==
  /\ dmaReadCmd # <<>>
  /\ Len(h2cDsc) < DscDepth
  /\ dmaReadCmd' = Tail(dmaReadCmd)
  /\ h2cDsc' = Append(h2cDsc, Head(dmaReadCmd))
  /\ dma_read_cmd_counter' = dma_read_cmd_counter + 1
  /\ UNCHANGED <<checkVars, readCmd, tlbInterface, dmaWriteCmd, tlb_table, base_vaddr,
                 top_page_base, tlbMissCounter, tlbPageCrossingCounter, baseVars, h2cDone,
                 dma_read_pkg_counter, writeVars, envVars>>

(* The XDMA core (external): one word from the FPGA to host memory ... *)
C2hWord ==
  /\ c2hDsc # <<>>
  /\ dataOut # <<>>
  /\ LET word == Head(dataOut)
         addr == Head(c2hDsc).addr + c2hDone
     IN  /\ mem' = [p \in DOMAIN mem |->
                      IF p \in addr .. addr + Len(word.bytes) - 1
                      THEN word.bytes[p - addr + 1] ELSE mem[p]]
         /\ c2hDone' = IF word.last THEN 0 ELSE c2hDone + Len(word.bytes)
         /\ c2hDsc' = IF word.last THEN Tail(c2hDsc) ELSE c2hDsc
         /\ dma_write_pkg_counter' = dma_write_pkg_counter + (IF word.last THEN 1 ELSE 0)
  /\ dataOut' = Tail(dataOut)
  /\ UNCHANGED <<cmdIn, dataIn, cmdOut, pageOffsetFifo, metaFifo, bc_state, cmd, pbc_state,
                 meta, metaLoaded, prevWord, tlbVars, baseVars, dma_write_cmd_counter,
                 readVars, envVars>>

(* ... and one word from host memory to the FPGA. *)
H2cWord ==
  /\ h2cDsc # <<>>
  /\ LET done == h2cDone + WordSize
         last == done >= Head(h2cDsc).len
     IN  /\ h2cDone' = IF last THEN 0 ELSE done
         /\ h2cDsc' = IF last THEN Tail(h2cDsc) ELSE h2cDsc
         /\ dma_read_pkg_counter' = dma_read_pkg_counter + (IF last THEN 1 ELSE 0)
  /\ UNCHANGED <<checkVars, tlbVars, baseVars, writeVars, dma_read_cmd_counter, envVars>>

-----------------------------------------------------------------------------
PathNext ==
  \/ \E base \in Bases, pages \in PageTables : HostMap(base, pages)
  \/ \E addr \in Memory!Address, len \in Lengths : IssueWrite(addr, len) \/ IssueRead(addr, len)
  \/ CheckStep \/ SplitStep
  \/ TranslateWrite \/ TranslateRead \/ TakeMapping
  \/ LoadWriteDescriptor \/ LoadReadDescriptor
  \/ C2hWord \/ H2cWord

PathSpec == PathInit /\ [][PathNext]_pathVars

(* Every block is clocked, so a step that stays possible is taken. *)
FairPathSpec ==
  /\ PathSpec
  /\ WF_pathVars(CheckStep) /\ WF_pathVars(SplitStep)
  /\ WF_pathVars(TranslateWrite \/ TranslateRead \/ TakeMapping)
  /\ WF_pathVars(LoadWriteDescriptor) /\ WF_pathVars(LoadReadDescriptor)
  /\ WF_pathVars(C2hWord) /\ WF_pathVars(H2cWord)

-----------------------------------------------------------------------------
Cmd == [addr : Nat, len : Nat]
Word(w) == DOMAIN w = {"bytes", "last"} /\ w.last \in BOOLEAN /\ Len(w.bytes) \in 1 .. WordSize

(* Type invariant, with the capacity of every bounded stream. *)
PathTypeOK ==
  /\ cmdIn \in Seq(Cmd) /\ cmdOut \in Seq(Cmd) /\ Len(cmdOut) <= CmdDepth
  /\ \A i \in DOMAIN dataIn : Word(dataIn[i])
  /\ \A i \in DOMAIN dataOut : Word(dataOut[i])
  /\ Len(dataOut) <= DataDepth
  /\ pageOffsetFifo \in Seq([addr : Nat, len : Nat, page_offset : 0 .. PageSize - 1])
  /\ Len(pageOffsetFifo) <= PageOffsetFifoDepth
  /\ metaFifo \in Seq([length : Nat, isSplit : BOOLEAN]) /\ Len(metaFifo) <= MetaFifoDepth
  /\ bc_state \in {"CMD", "CMD_SPLIT"} /\ cmd \in Cmd
  /\ pbc_state \in {"PKG_FIRST", "PKG_SECOND", "LAST"}
  /\ meta \in [length : Nat, isSplit : BOOLEAN] /\ metaLoaded \in BOOLEAN
  /\ readCmd \in Seq(Cmd) /\ dmaWriteCmd \in Seq(Cmd) /\ dmaReadCmd \in Seq(Cmd)
  /\ Len(dmaWriteCmd) <= CmdDepth /\ Len(dmaReadCmd) <= CmdDepth
  /\ tlbInterface \in Seq([vaddr : Nat, paddr : Nat, isBase : BOOLEAN])
  /\ tlb_table \in [0 .. TlbEntries - 1 -> Nat] /\ base_vaddr \in Nat
  /\ top_page_base \in Nat /\ tlbMissCounter \in Nat /\ tlbPageCrossingCounter \in Nat
  /\ regBaseVaddr \in Nat /\ regBaseVaddrBoundCheck \in Nat
  /\ c2hDsc \in Seq(Cmd) /\ Len(c2hDsc) <= DscDepth /\ c2hDone \in Nat
  /\ h2cDsc \in Seq(Cmd) /\ Len(h2cDsc) <= DscDepth /\ h2cDone \in Nat
  /\ requests \in 0 .. MaxRequests /\ reads \in Seq(Cmd)

(* The path implements DmaMemory: whatever the order in which the command  *)
(* pipeline, the data pipeline and the XDMA core advance, every byte of    *)
(* every write request reaches memory once, in order, at the physical      *)
(* address of its page, although commands and packets are split in         *)
(* different processes.                                                    *)
WritesReachMemory == Memory!Spec

(* The k-th packet belongs to the k-th descriptor: when the last word of a *)
(* packet is moved, the descriptor's length has been moved.                *)
PacketFillsDescriptor ==
  [][dma_write_pkg_counter' # dma_write_pkg_counter =>
       c2hDone + Len(Head(dataOut).bytes) = Head(c2hDsc).len]_pathVars

(* A legal request makes the TLB count no page crossing and no miss, with  *)
(* boundaries computed from a base that is one mapping old.                *)
NoCrossingNoMiss == tlbPageCrossingCounter = 0 /\ tlbMissCounter = 0

(* LAST sends a leftover that exists: the switch of pkg_split has a case   *)
(* for the length, so it sends no word it has not assigned.                *)
LastHasLeftover ==
  pbc_state = "LAST" => meta.length \in Shift /\ Len(prevWord) > meta.length

(* Reads are served in order, each at the physical address of its page     *)
(* under the current mapping, although writes overtake them in the TLB.    *)
ReadsTranslated ==
  LET q == h2cDsc \o dmaReadCmd
  IN  \A i \in DOMAIN q :
        LET r == reads[dma_read_pkg_counter + i]
        IN  q[i] = [addr |-> Memory!Translate(r.addr), len |-> r.len]

(* Statistics agree: when no byte is on its way, as many packets as        *)
(* commands were counted.                                                  *)
StatisticsAgree == Pending = <<>> => dma_write_cmd_counter = dma_write_pkg_counter

(* Every request completes: no interplay of full streams, the split states *)
(* and the TLB's priorities stops the path.                                *)
RequestsComplete ==
  /\ \A n \in 1 .. MaxRequests :
       requests >= n ~> \A i \in DOMAIN Pending : Pending[i].request > n
  /\ \A n \in 1 .. MaxReads : Len(reads) >= n ~> dma_read_pkg_counter >= n
=============================================================================
