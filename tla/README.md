# Verification of the FPGA DMA driver

TLA+ models of the host library, the kernel driver, the DMA path, the register
interfaces, the Ethernet port and the stream functions of this repository, TLC
configurations that check them, and TLAPS proofs about the parts where a small
instance is not enough. Paths below are relative to the
repository's root.

## 1. The system

A host program maps a buffer of 2 MB huge pages, has the kernel driver pin it
and report the physical addresses of its pages, and writes these through
memory-mapped registers into a translation table (TLB) on the FPGA. From then on
user logic on the FPGA reads and writes the buffer by virtual address. The
example's user logic is a benchmark engine that measures PCIe and DDR
throughput; the host starts it through registers and polls for its result. Beside
this the repository has the Ethernet port of the boards, between a vendor MAC and
AXI streams for user logic, and a library of stream functions for its kernels.

    program (main.cpp, debug.cpp)
       |  Fpga::initializeMemory / allocate / free        runXxxBenchmark, printXxxStatsRegs
       v                                                        v
    MemoryManager        xdma_driver.c (ioctl, mmap)      FpgaController (ctrl_mutex)
                                |                               |  32-bit register accesses
    ----------------------------|---------- PCIe ---------------|--------------------------
                                v                               v
                          host memory <== XDMA core     dma_controller  benchmark_controller  ddr_controller
                                            ^                   | mappings      | commands        | statistics
                                            |                   v               v                 v
                            descriptors, data <-- dma_inf: TLB <-- boundary check <-- dma_bench    mem_single_inf

    user logic --> ethernet_frame_padding --> crossing FIFO --> tx_interface --> MAC
    user logic <-- crossing FIFO <-- rx_interface <-- MAC

### 1.1 Inventory

| Component | State | Operations | Interacts with |
|---|---|---|---|
| `MemoryManager` (`sw/src/fpga/MemoryManager.cpp`) | linked list of chunks (address, size, atomic flag), `memoryMutex` | constructor, `allocate`, `free` | threads of the program; the memory is also written by the FPGA |
| `FpgaController` (`sw/src/fpga/FpgaController.cpp`) | `ctrl_mutex` (one per process), the mapped registers | `writeTlb`, `run{Dma,Dram}Benchmark` and their wrappers, `reset`/`getDma{Reads,Writes}`, `print{Dma,Ddr}StatsRegs` | the three controllers below, word by word |
| `Fpga` session (`sw/src/fpga/Fpga.cpp`) | static pointers to controller, allocator, file | `initializeMemory`, `clear`, `allocate`, `free` | driver ioctls, `writeTlb` |
| Kernel driver (`driver/xdma_driver.c`) | device instance: BARs, engines, interrupt mode, pinned pages | `probe`, `remove`, `open`, `mmap`, three ioctls | PCI core, user pages |
| DMA controller (`hdl/common/dma_controller.sv`) | word counter, mapping register, valid flag, alternating read flags, statistics address | register reads and writes | TLB, counters of `dma_inf` |
| Benchmark controller and role (`hdl/common/benchmark_controller.sv`, `benchmark_role.sv`) | one word counter for two command registers, command data, cycle counts | register reads and writes, start and result of a benchmark | benchmark engines |
| DDR controller (`hdl/common/ddr_controller.sv`) | statistics address | register reads | `mem_single_inf` counters |
| TLB (`hls/tlb/tlb.cpp`) | table, base address, top page, two counters | translate write, translate read, take mapping, in this priority | streams |
| Boundary check (`hls/mem_write_cmd_page_boundary_check_512`) | two state machines, metadata stream, previous data word | compute offset, check/split command, split/realign packet | streams |
| DMA path (`hdl/common/dma_inf.sv`) | base registers, command/packet/length counters | wiring, descriptor bypass, counting | XDMA core (vendor IP) |
| Benchmark engine (`hls/dma_bench/dma_bench.cpp`) | generator, data generator, consumer, clock | one step of all four in each cycle | role, command and data streams |
| DDR interface (`hdl/common/mem_single_inf.sv`) | counters, clock crossing | command truncation, status words | vendor data mover |
| Ethernet receive adapter (`hdl/*/rx_interface.v`) | write and read state machine, data FIFO, command FIFO, force flag | store, truncate or drop a frame; hand on or throw away a packet | vendor MAC, which cannot be held up; packet FIFO behind |
| Ethernet transmit adapter (`hdl/*/tx_interface.v`) | write and read state machine, data FIFO, command FIFO | store a frame, let the MAC have it | crossing FIFO, vendor MAC |
| Frame padding (`hls/ethernet_frame_padding`) | state, word counter | forward a word, add a word | user logic, crossing FIFO |
| Stream functions (`hls/axi_utils.hpp`) | a part of a word and a state each | shift a packet by bytes, double or halve the width of a stream, merge streams | the kernels that include them |
| Tops, interconnect, memory and network wrappers | none of their own | wiring of vendor IP | - |

### 1.2 What is hard about it

* `free()` walks the allocator's list without the mutex while `allocate()` splits
  chunks, and publishes a chunk with a flag that only an atomic protects.
* A write that crosses a page is split twice, once as a command and once as a
  data packet, by processes that advance independently and share one stream of
  metadata. Nothing downstream compares a packet's length with its descriptor's.
* The TLB serves writes before reads before mappings; any full output stalls it.
* A command is written word by word through one register whose word counter no
  access can reset, and wide values are read through one register that alternates.
  All of this state survives the process that uses it.
* The engine's start signal lasts one cycle and its clock learns of start and end
  through streams; the host treats a count of 0 as "not finished yet".
* Kernel and session code unwinds partly done work by hand. The ioctls take no
  lock and keep one buffer for all programs; the TLB keeps what earlier or
  parallel programs wrote.
* The Ethernet adapters store packets in one FIFO and commands about them in
  another, and match them by number only. On the receive side no one can wait: a
  full FIFO loses data. On the transmit side a frame must not have a gap.
* The stream functions keep a part of a word from one call to the next and
  change the number of words of a packet.

The hazards, each at its line, are listed in `PROJECT.json` with the properties
that would show them going wrong.

## 2. Modules

| Module | Models | Uses |
|---|---|---|
| `MemoryManager` | the allocator | - |
| `MemoryManagerProofs` | its inductive invariant and theorems | `MemoryManager` |
| `Tlb` | one call of `tlb()` per action | - |
| `BoundaryCheck` | the three processes of the boundary check | - |
| `DmaMemory` | abstract specification: what the write path promises | - |
| `DmaPath` | `dma_inf`: boundary check, TLB, base registers, descriptor bypass, counters, with the XDMA core, user logic and host as environment | extends `BoundaryCheck`, instantiates `Tlb` and `DmaMemory` |
| `DmaPathProofs` | the invariants of the reads and of the writes, theorems and the refinement of `DmaMemory` | `DmaPath` |
| `Controllers` | the register interfaces and the command registers of the role | - |
| `HostControl` | `FpgaController` on top of `Controllers`, with threads, processes, crashes | extends `Controllers` |
| `HostControlProofs` | its inductive invariant and theorems | `HostControl` |
| `DmaBench` | the benchmark engine, cycle by cycle | - |
| `DmaBenchProofs` | its invariant and theorems | `DmaBench` |
| `XdmaDriver` | `probe()` and `remove()` of the kernel driver | - |
| `XdmaSession` | `Fpga::initializeMemory()` of several programs, the driver's ioctls and the TLB they fill | - |
| `XdmaProofs` | what the driver holds at each step and which BARs it found; the invariant of the sessions; theorems | `XdmaDriver`, `XdmaSession` |
| `RxInterface` | the receive side of the Ethernet port, cycle by cycle | - |
| `RxInterfaceProofs` | the layout of the FIFOs in packets, and theorems | `RxInterface` |
| `FramePadding` | one call of `ethernet_frame_padding()` per action | - |
| `TxInterface` | the transmit side: padding, crossing FIFO, adapter | extends `FramePadding`, instantiates `FrameQueue` |
| `TxInterfaceProofs` | the layout of the FIFOs in frames, theorems and the refinement | `TxInterface` |
| `StreamUtils` | the functions of `axi_utils.hpp` as a chain of processes | instantiates `FrameQueue` |
| `StreamUtilsProofs` | the line of offered words, its invariant and the refinement | `StreamUtils` |
| `FrameQueue` | abstract specification: a queue of frames or words | - |
| `MC*` | instances for TLC | the module they are named after |

Definitions whose comment starts with "mutant" are the plausible bugs the
properties were tried against. They are not used by any specification:
`PROJECT.json` says which definition each one replaces and which property then
fails.

### 2.1 MemoryManager

`chunks` is the sequence of all `MemChunk` objects in the order of creation; a
pointer is an index into it, 0 is `nullptr`, and the list is the chain of `next`
fields from chunk 1. `pc`, `current`, `roundedSize` and `ptr` are the threads'
locals. The steps are the points where another thread can see a difference:

* `AllocateLock`, `AllocateAcquire` (test and compare-and-swap: they can be one
  step because only the holder of the mutex clears a flag), `AllocateSkip` (no
  fit, or the weak compare-and-swap failing spuriously, which it may), the split
  in two steps `AllocateSplit` (line 65-67: the rest of the memory is in no chunk
  of the list) and `AllocateLink` (line 68), `AllocateReturn`;
* `FreeCall`, `FreeWipe` (the `memset`), `FreePublish` (the flag), `FreeStep`, all
  without the mutex. As in the code the walk does not stop at its chunk.

Shared fields are read and written atomically in program order, although
`addr` and `size` and `next` are plain fields and the program has a data race on
them by the letter of the C++ standard. This is what the supported build (x86-64,
aligned words, no reordering of the stores around the atomic) does. The race is
on `size` and `next` only; `addr` never changes. `live` and `dirty` are history
variables: what the program holds and which cells are not zero.

The caller's contract: a thread frees a region it got, once, and passes an address
rather than an arbitrary pointer; a request rounds to a positive size below 2^64
(`RequestAssumption`). A region moves between threads in the real program, which
adds nothing here: the walk of `free()` depends on the address only.

### 2.2 The DMA path

A byte is a token (virtual address, request number), a data word the sequence of
its valid bytes with a last flag, so the model says where each byte of each
request ends up. The width of a word and the lanes at which `pkg_split` can cut
are parameters (64 and 8 in the code), and so is the capacity of every stream. A
process with a full output stream stalls; streams of the environment's side are
unbounded. `CalculatePageOffset`, `BoundaryCheckCmd`/`BoundaryCheckSplit` and
`PkgFirst`/`PkgSecond`/`PkgLast` are the states of the three processes,
`Shift` the lengths the `switch` statements have a case for.

`DmaPath` wires them to the TLB the way `dma_inf.sv` does, including the base
register the boundary check is really wired to. The XDMA core is external: it
takes the words of the next packet for the first descriptor and starts the next
descriptor at the next packet. The contract of the environment is `Legal`:
a request stays in the mapped buffer, crosses at most one page boundary, and at a
multiple of the lane; reads, which are not checked, cross none; requests are
issued once the buffer is mapped, and it is mapped anew when all have completed.
That is what the example program does; the code checks none of it. `PathAssumption`
adds what holds of the constants: the buffer begins at a page (`Fpga.cpp` maps it from
a file of huge pages), fits the table and the address space, and a word consists of
whole lanes.

`DmaMemory` is the promise to user logic: the bytes of its writes arrive in order,
once, at the translation of their addresses. `DmaPath` implements it
(`WritesReachMemory == Memory!Spec`) under the mapping `todo <- Pending`: the bytes
in words that left `pkg_split`, then the part of the previous word it still has
to send, then the words it has not read. A word moved by the XDMA core is a
`Deliver`; splitting, translating and loading are stutters.

### 2.3 Registers

One register access is one step of `Controllers`; the handshake states of the
AXI-Lite slaves do not show, except that the DMA controller takes no write while
the TLB has not taken a mapping. Each command register keeps its words, each
controller its word counter (`dma_controller` has one, `benchmark_controller` one
for both of its registers). A 48-bit counter is read as lower and upper word
alternately, the statistics through an address that every read advances.
`toLoad` are the DMA commands of a benchmark that are not counted yet: a
benchmark of writes reports when its last data word has left, and its last
commands may be counted later. `dma_reads_flushed` follows the read counters
without the delay of its register.

A call of `HostControl` takes `ctrl_mutex`, accesses registers one at a time and
returns. A benchmark returns when the lower word of its result is not 0, as the
code has it, so a run whose count is a multiple of `Word` is polled for ever with the
mutex taken. `Crash` ends a process at any point; the FPGA's registers do not notice.
`Word` and `Half` stand for 2^32 and 2^16.

### 2.4 DmaBench

All four processes take their step in the same clock cycle (`Tick`), each reading
the streams as they were; three booleans say whether the command stream and the
data stream accept and whether a word of read data is there. The one-bit streams
between them pass a value in one cycle (HLS streams of depth 2 with registered
output). `elapsed` and `words` are history. `Start` is the role loading its
registers and pulsing the start signal. Its guard has the one assumption about
time: the command generator has sent its last command before the host, which
polls once a second and needs eight register writes for a start, starts the next
run. Without the guard a run could be missed by one process and taken by another
(hazard at `dma_bench.cpp:163`).

### 2.5 The kernel driver and a session

`XdmaDriver` takes `probe()` step by step. `step` is the place in the function; a
call that fails moves it to the label the code jumps to, and the labels are
actions of their own that fall through to the next. `held` counts what the kernel
holds for the driver and `keep`, a history variable, what it must still hold when
the device is unbound again: what it held before, and the device itself where
`request_regions()` assumes that another driver uses it. The board is chosen in
`Init`: `Layouts` says what its BARs contain, `present` which channels have an
engine, `capability` which interrupts it can raise. `MCXdmaDriver` has the layouts
the comment in `identify_bars()` allows and one without a configuration BAR; a BAR is
`"config"` when it is long enough for the registers and identifies itself, since
`map_bars()` does not call `is_config_bar()` for a shorter one.
The PCI core runs one `probe()` or `remove()` of a device at a time.

`XdmaSession` has the sequence of calls in `initializeMemory()`, made by any number
of programs at a time, such as the example and the debug program. `BUFFER_SET` is
three steps (new list, `get_user_pages`, counts), since the driver has no lock and
`get_user_pages` may block and may pin fewer pages than asked for; `MAPPING_GET`
only reads; `RELEASE` is two steps (`put_page`, `vfree`), of which the second leaves
the pointer and the counts as they are. No program of the repository calls
`RELEASE`; in the model a session ends with it or without.

`WriteTlb` is one of the five register writes of `writeTlb()`. `WordsOf` are the five
words of the current page, and `sent` how many of them the program has written. The
register keeps the words it was given (`tlb_data`; `word_counter` is their number) and
hands the fifth over to the TLB, whoever wrote the others (`TakeWord`,
`TakeMapping`). Addresses are in pages of 4 KB, and `Word` is what the lower word of
one can tell apart. `End` is `clear()` or the end of the process, at any point outside
the driver and so between any two words too; it loses the program's variables (`Leave`)
but neither releases the pages nor resets the TLB or the word counter.

All programs map the same file, so the pages are the same in every
session and the address is not. Two programs do get into each other's way, and
nothing in the repository says they may run at the same time. The history
variables `alone` (nobody else changed the list since the own `BUFFER_SET` began)
and `clean` (the register was empty when the first word of the own base mapping was
written, and nobody else wrote a word since) say when, and the properties hold as
long as they are true, whatever list, base and entries there were before.
Left out: `mmap` (no state), a negative result of `get_user_pages`, and failures after
which the program exits. `xdma_open()` derives the instance from the inode of a
misc device, which has no `cdev` of this driver; the model takes it to find the same
instance each time.

### 2.6 The Ethernet port

`RxInterface` is a synchronous circuit: one action, `Clock`, is a cycle of
`user_clk`, in which every register takes its next value from the registers and
inputs of this cycle. `w` is what the MAC presents (nothing, or a word; frames may
have gaps but the MAC cannot be held up), `ready` whether the FIFO behind accepts.
`IdleWr`, `DaDecode`, `BeginWrite`, `DropFrame` are the states of the write FSM;
`ForceTlast` is the flag that ends a packet when fewer than `THRESHOLD` words are
free. A word names its frame and its place in it and carries two end marks: `last`
is `tlast` in the FIFO, `eof` says that the frame really ended here. The two
versions of the file have the same state machines and differ in the polarity of
`tuser`, the constant `TuserGood`. The MAC's contract: a frame has at least three
words (the shortest Ethernet frame has six that reach this module).

`TxInterface` has two clocks, hence two kinds of actions that interleave: a call of
the padding function (`PadWord`, `PadFill`) and a cycle of the adapter (`Clock`).
The crossing FIFO between them belongs to the state of the padding. The commands
carry nothing; `cmdFifo` is their number. `pkg_push` is a function of the read
state. The refinement mapping of `FramesInOrder` is `queue <- accepted`, the last
words of the frames the padding has read to their end and the MAC has not, and
`output <- sent`, the words of the last frame the MAC got. `PaddedFrame` says what
these words must be, from the comment in `network_module.v:875`. A frame of one word
would get no command (`tx_interface.v:136`), which the padding rules out; the padding
in turn relies on frames of fewer than 256 words (`PaddingAssumption`).

### 2.7 Stream functions

`StreamUtils` puts the functions into a chain whose result is known: shifted up
by some bytes (`lshiftWordByOctet`) and down again (`rshiftWordByOctet`), widened and
narrowed, a packet must be what it was. Each function is a process with its static
variables as a record; streams hold one word, and a process with a full output
stalls. A word is the sequence of its valid bytes, each byte a token of its own, so
that lost, doubled or misplaced bytes show. Words that are not the last of a packet
are full, as everywhere in the repository. `fair_merger` merges the result with
another stream that may have a word at any time.

## 3. What TLC checks

| Run | Instance | Properties |
|---|---|---|
| `allocator` | 2 threads, 3 granules of 2 cells, requests of 1 and 3 cells, fair | `TypeOK`, `NoOverlap`, `ChunksPartitionMemory`, `HandedOutZeroed`, `FreeTakesEffect`, `CallsReturn` |
| `dma_writes` | 2 writes of 3 or 9 bytes at every offset of 2 pages of 2 words of 4 bytes; streams of 1 or 2 entries | `PathTypeOK`, `LastHasLeftover`, `StatisticsAgree`, `WritesReachMemory` (refinement), `PacketFillsDescriptor` |
| `dma_remap` | 2 writes and 1 read around 2 mappings of 1 or 2 pages at 2 bases, every stream 1 entry deep, fair | `NoCrossingNoMiss`, `ReadsTranslated`, `RequestsComplete` |
| `host_registers` | 2 threads, 3 calls out of 11, benchmarks of 1, 4 or 6 cycles with words of 4 values | `TypeOK`, `ResultsWhole`, `StatsLabelled`, `CommandsWhole`, `CallsReturn` (fair) |
| `stats_after_crash` | 2 calls and crashes; a violation | `StatsLabelled` |
| `bench_engine` | 2 runs out of 18 register settings, words of 2 bytes | `TypeOK`, `CommandsInBuffer`, `ReportsComplete`, `ReportsOwnCycles`, `RunsReport` (fair) |
| `driver_probe` | 2 probes of every board with 4 BARs and 2 channels per direction | `TypeOK`, `ProbeReleases`, `ReleasesHeld`, `BarsIdentified`, `EnginesOfOneChannelEnabled` |
| `session` | 2 sessions of 2 programs, 2 huge pages of 2 pages at 2 addresses, of which 1 page or all can be pinned, a TLB of 4 entries, words of 8 pages | `MappingIsBuffer`, `TlbServesSession`, `ReleaseGivesBackOwn` |
| `ethernet_rx` | 4 frames of 3 or 4 words, a FIFO of 9 words with thresholds 3 and 6, 5 commands; polarity of the 7series boards, fair | `FifosSuffice`, `OnlyGoodFrames`, `StoredFramesLeave` |
| `rx_truncated` | the same with the polarity of the UltraScale+ boards; a violation | `OnlyGoodFrames` |
| `ethernet_tx` | 3 frames of 1 to 4 words of 3 bytes, padded to 3 words; FIFOs of 2 and 4 words, 1 command; fair | `NoUnderrun`, `FramesInOrder` (refinement), `FramesLeave` |
| `stream_utils` | packets of 5 words in all, of 3 bytes, shifted by 1 or 2; fair | `PacketsUnchanged` (refinement), `PacketsComeOut` |

Why the bounds are enough for what they are meant to show:

* Three granules let the list have three chunks: one that is split while another
  thread's `free()` stands before it, at it or behind it, and a request that needs
  a chunk other than the first. Two threads are all that can meet at one chunk.
* A write of 9 bytes crosses a page of 8 at every offset, and with words of 4 the
  boundary falls at each position in a word, including its end; one of 3 bytes
  crosses or not and ends in the first word, which is the path that goes from
  `PKG_FIRST` directly to `LAST`. Two requests show state left from the first.
  The pages are swapped in physical memory, so a command that is not split
  writes to a wrong place.
* A register word of 4 values makes every address need both of its words, and
  two counted commands carry into the upper word; 3 calls by 2 threads include
  every pair with a third one that meets what the pair left behind. Of the cycle
  counts one fits the lower word, one needs both, and one has a lower word of 0.
* Buffers of two and a half accesses make addresses wrap, with and without a
  stride; accesses of a word, one and a half and two words end packets with full
  and with partial words. `MaxCycles` only caps the counter.
* Four BAR numbers hold the three BARs a board can have with a gap before, between
  or behind them. Two channels are enough for a first engine that is not number 0
  and for different numbers in the two directions. The second probe meets
  everything the first can leave behind.
* Two huge pages, at two addresses that overlap in a TLB of four entries modulo
  their number, make the entries of two sessions overlap and wrap. Two programs can
  be at any two points of the ioctls and of `writeTlb()`; the second session meets
  what a first that was interrupted between any two words, released or overtaken
  left. A word of 8 pages puts the two virtual addresses of one of the buffers, and
  the two physical ones, on both sides of a carry into the upper word. One pinned page is the half of a huge
  page, so that the list is short and its last huge page not whole.
* The receive FIFO holds two frames above the threshold and part of a third, so
  that frames are stored, truncated, dropped on arrival and taken again after a
  drop. A threshold of 3 is the least that `RxAssumption` allows; with 2 words in
  the pipeline when the force takes effect it is the hardest case. The command FIFO
  is as small as the assumption on their sizes allows.
* Frames of one, two, three and four words with three words as the minimum are
  padded by two words, by one, filled up in the last word, or left alone; one
  command fills the command FIFO, so that it stalls the input. The counter's modulus
  is above the longest frame, as 2^8 is above 192 words.
* Words of three bytes shifted by one or two have packets whose last word fits, or
  does not fit, after the shift, in every combination of two successive packets;
  five words give a packet of three words and one of two.

Deadlock is not checked where the number of requests or calls is bounded: such a
system stops when they are used up. The liveness runs show that it does not stop
earlier (`CallsReturn`, `RequestsComplete`). The driver stops after `MaxProbes`, a
session after `MaxSessions`. The allocator, the engine and the clocked Ethernet
adapters, which never stop, are checked for deadlock.

### 3.1 Fairness

* Threads that are in a call are scheduled (weak fairness of their steps), and
  waiters get a mutex that is free again and again (strong fairness of the lock
  step). The C++ standard does not promise the second; the Linux futex does in
  practice, and without it no property of this kind can hold. No fairness is
  assumed for starting calls, for the program's writes, or for crashes.
* Every hardware block is clocked: a step that stays possible is taken. The TLB
  has one fairness condition for its three actions, since their priority is fixed.
* The engine's streams accept again and again and requested data comes back,
  which is what `RequestsComplete` shows of the DMA path.
* In `HostControl`, a started benchmark finishes: what `RunsReport` shows of the
  engine.

* The clocks of the Ethernet adapters run, and whoever takes their output is ready
  again and again: `WF(Clock(TRUE))` asks only that a cycle with ready comes, not
  that it comes soon. Nothing is assumed of the MAC's arrivals or of user logic
  beginning a frame; a packet that was begun in `StreamUtils` is finished.
* Each stream function is a free-running kernel, called again and again.

### 3.2 Findings

* **Statistics under wrong names after a crash** (`stats_after_crash`). The address
  of the statistics walk lives in the FPGA and only a reset of the board sets it
  back, so a process that is killed while it prints shifts the names for all later
  ones. Without crashes, and with one process at a time, the names are right
  (`host_registers`).
* **A truncated frame is handed on as a good one** (`rx_truncated`).
  `hdl/ultraplus/rx_interface.v` was derived from the 7series version by inverting
  `crc_pass` (line 328), as its MAC sets `tuser` for bad frames. The command of a
  packet that is cut off for lack of space still has a 0 in the same bit (line 290),
  which now means good: the front part of the frame reaches user logic with `tlast`
  at its end, against line 26 ("detects a good frame and makes it available") and
  line 342 ("If CRC fails for a frame, the entire frame is dropped"). On the 7series
  boards the same packet is dropped (`ethernet_rx`). The case needs a reader that
  stalls until fewer than 200 words are free.

### 3.3 Observations

Nothing in the repository contradicts the following, or it does not matter for
the program as it is used.

* The boundary check runs on the base address of the previous mapping: the
  register wired to it is loaded with the old value of the other one
  (`dma_inf.sv:161`; line 151 says "get Base Addr of TLB for page boundary check").
  It does no harm as long as all bases are multiples of 2 MB, as those of huge page
  buffers are: `NoCrossingNoMiss` and `WritesReachMemory` hold with the register as
  it is wired.
* `probe_engines()` computes the registers in which it enables descriptor bypass
  with the two offsets exchanged (`xdma_driver.c:1096` against the comment in line
  1004 and the search in `probe_for_engine()`; line 34 asks "is this not the other way
  around??"). Both get the same value, so boards whose first engines have the same
  number work, which is what `EnginesOfOneChannelEnabled` says.
* MSI-X stays enabled when `probe()` fails after enabling it, which `ProbeReleases`
  excepts.
* Two programs at a time replace each other's list in the driver and entries in the
  TLB: without `alone` and `clean` all properties of `XdmaSession` fail. A second
  `RELEASE` uses the freed list.
* A program that ends inside `writeTlb()`, or two that write at the same time, leave
  the word counter of `dma_controller.sv` in the middle of a mapping. No program
  sets it back, and every later mapping is then made of words of two. `TlbServesSession` fails if `clean` does not ask for an empty register.
* A benchmark whose cycle count is a multiple of 2^32 never returns and keeps
  `ctrl_mutex` (`FpgaController.cpp:111-116`, `165-170`), so no other call of the
  process returns. `CallsReturn` excepts this case and no other, and fails without
  the exception.
* `rshiftWordByOctet()` loses the first word of a packet when its offset is 0
  (`axi_utils.hpp:401`; line 381 says "this has a bug"), so `StreamAssumption` excludes it.
  `fair_pkg_merger()`, which nothing uses, goes to the state of the wrong input after
  a word of `in0` (`axi_utils.hpp:602`).
* The padding does not clear the bytes of the last word that it makes valid: what
  the stream carried there is sent.
* The wrappers of the benchmarks (`FpgaController.cpp:71-89`, `125-143`) have no return
  statement and lose the count.
* What the models exclude by a named assumption or a contract, because callers must
  respect it and nothing tests it: requests to the allocator that round to 0
  (`RequestAssumption`; `free()` of such a region releases its neighbour too), a
  benchmark without accesses or with one longer than its buffer (`RunsAssumption`),
  write commands that cross two pages or cross one at an offset that is not a multiple
  of 8 bytes (`Legal`), a DDR benchmark on a channel that does not exist (its caller
  polls for ever with the mutex held), a second `initializeMemory()` after `clear()`
  (which leaves a pointer to the deleted controller). Write commands that keep coming
  starve reads and mappings in the TLB (`tlb.cpp:87`); the runs bound their number.
  The two words `getDmaWrites()` returns may belong to two values, since commands of a
  benchmark that has reported are still counted.

## 4. What is proved

Every theorem is about the specification that TLC runs, for every value of the
constants that satisfies the named assumptions. The assumptions are in the modules
that declare the constants, so each run evaluates them. A proof module extends its
component's module and contains the inductive invariant, one lemma per action (or
per half of a clock cycle), and the theorems.

| Proof module | Theorem | Shows | Assumption, hypothesis |
|---|---|---|---|
| `MemoryManagerProofs` | `TypeCorrect` | `[]TypeOK` | `ConstantsAssumption`, `RequestAssumption` |
| | `LiveRegionsDisjoint` | `[]NoOverlap` | |
| | `ChunksPartition` | `[]ChunksPartitionMemory` | |
| | `AllocationsZeroed` | `HandedOutZeroed` | |
| | `FreeReachesItsChunk` | `FreeTakesEffect` | |
| `HostControlProofs` | `TypeCorrect` | `[]TypeOK` | `ControllersAssumption`, `HostAssumption` |
| | `WholeResults` | `[]ResultsWhole` | and `SingleProcess` |
| | `LabelledStats` | `[]StatsLabelled` | and `SingleProcess` |
| | `WholeCommands` | `CommandsWhole` | and `SingleProcess` |
| `DmaBenchProofs` | `TypeCorrect` | `[]TypeOK` | `RunsAssumption` |
| | `AddressesInBuffer` | `[]CommandsInBuffer` | |
| | `CompleteReports` | `ReportsComplete` | |
| | `OwnCycles` | `ReportsOwnCycles` | |
| `XdmaProofs` | `TypeCorrect` | `[]TypeOK` | `BoardAssumption` |
| | `ReleasesOnFailure` | `[]ProbeReleases` | none |
| | `ReleasesOnlyHeld` | `[]ReleasesHeld` | none |
| | `BypassOfOneChannel` | `[]EnginesOfOneChannelEnabled` | none |
| | `RightBars` | `[]BarsIdentified` | `BoardAssumption` |
| | `MappingOfOwnBuffer` | `[]MappingIsBuffer` | `SessionAssumption` |
| | `TlbOfOwnSession` | `[]TlbServesSession` | |
| | `ReleasesOwnPages` | `ReleaseGivesBackOwn` | |
| `TxInterfaceProofs` | `MacIsNeverStarved` | `[]NoUnderrun` | `PaddingAssumption`, `TxAssumption` |
| | `PortIsAQueue` | `FramesInOrder`: `TxInterface` implements `FrameQueue` | |
| `RxInterfaceProofs` | `NothingIsLost` | `[]FifosSuffice` | `RxAssumption` |
| | `WholeGoodFrames` | `OnlyGoodFrames` | and `TuserGood` |
| `DmaPathProofs` | `ReadsOwnPages` | `[]ReadsTranslated` | `PathAssumption` |
| | `WritesInLine` | `[]WriteInv`, the inductive invariant of the writes | |
| | `PathTypes` | `[]PathTypeOK` | |
| | `LastWordIsAssigned` | `[]LastHasLeftover` | |
| | `CommandsStayInPages` | `[]NoCrossingNoMiss` | |
| | `StatisticsAreExact` | `[]StatisticsAgree` | |
| | `PacketsFillDescriptors` | `PacketFillsDescriptor` | |
| | `WritesImplementMemory` | `WritesReachMemory`: `DmaPath` implements `DmaMemory` | |
| `StreamUtilsProofs` | `StreamsInLine` | `[]StreamInv`, the inductive invariant | `StreamAssumption` |
| | `ChainIsAQueue` | `PacketsUnchanged`: `StreamUtils` implements `FrameQueue` | |

### 4.1 MemoryManagerProofs

All follow from `Invariance`, `Spec => []IInv`. None of the properties is inductive
alone, because each depends on what threads in the middle of a call know. `IInv`
conjoins:

* `MutexInv`: a thread inside `allocate()` holds the mutex;
* `ChunksInv`, `DisjointInv`, `CoverInv`: chunks are positive, inside the buffer,
  disjoint and cover it, also the one that is not linked yet;
* `AllocInv`: the chunk an allocation works on is taken and zeroed, and its rest is
  the last chunk created, right behind it;
* `LiveInv`: a live region is a taken chunk that no allocation works on, with one
  owner. This is where the unlocked `free()` is harmless: it touches only a chunk
  that the mutex holder cannot acquire before the flag is set;
* `FreeInv`: while the region is not given back, the walk has not passed its chunk;
* `ZeroInv`: a free chunk holds zeroes;
* `LinkInv`: the `next` fields go upwards without a gap, except for the chunk whose
  rest is not linked yet. With `FreeInv` it gives that a walk cannot skip its chunk:
  the chunk it looks for is taken, so it is not the rest being linked, and a walk
  that stands at a chunk being split finds either the rest or its successor.

### 4.2 HostControlProofs

The registers know nothing of calls: word counters, the lower/upper toggles and the
walks over the statistics advance with every access. `HostInv` says that the one
thread that is inside (`Mutex`) explains the state of all of them: a word counter is
the number of words this call has written (`CommandWords`), a toggle is set exactly
when it has read the lower word (`WideReads`), a walk is where it has come to
(`StatsWalks`), a benchmark that runs is the one it waits for (`Runs`), and the lower
word it has read is still the register's (`LowerWord`). When no call is inside, all
of them are at rest.

Beyond the types this needs `SingleProcess`, all threads in one process:
`ctrl_mutex` excludes no other process, and the crash run shows what happens then
(3.2 and 3.3). `TypeCorrect` needs no such hypothesis.

### 4.3 DmaBenchProofs

`CommandsInBuffer` follows from the lemma `WrappedInBuffer` about one step of the
address and from the guard of `Start`. The reports need to know where the engine is:
`PhaseInv` says that every state is in one of five phases, quiet, started, beginning
(the start signal is in the clock's stream), running, ending (a done signal is in a
stream), and in each phase what the four processes agree on. While data moves,
`WriteProgress` and `ReadProgress` count words: those of the packets that are
complete, and of the current one those that its remaining length leaves; for a read
there is one packet under way for each command issued and not answered. The clock is
one cycle behind the run until it takes the done signal, which gives `OwnCycles`; the
word counts give `CompleteReports`.

### 4.4 XdmaProofs: probe and remove

`HeldInv` makes what is held a function of `step` and of the flags, so that each error
label finds held what it and the labels behind it release; MSI-X is the exception
the property names. The numbers of probes, boards and BARs do not matter, and these
three theorems use no assumption. For `RightBars`, `Found` says which BARs the loop of
`map_bars()` has in its list in each round; it needs the order of the BARs
(`OrderedBars`), which the core guarantees and `identify_bars()` relies on.

### 4.5 XdmaProofs: sessions

`SessionInv` says what the history flags are worth. While a program is `alone` the
driver's list holds the pages it pinned, and the counts are those of this list; a
mapping obtained while alone names its pages; while the TLB is `clean` for a program
the register holds the words that the program has written in its current
`writeTlb()` and no others (`OwnWords`), and the TLB has its base and as many entries
as it has completed (`OwnEntries`). `OwnWords` is what makes the fifth word complete
the program's own mapping: put together, lower and upper words give back the
addresses (`TwoWords`), and the difference to the base gives back the number of the
entry (`EntryOfPage`). The list of another
program, left behind by one that did not release, is the case that makes the
conjuncts depend on the flags.

### 4.6 The Ethernet port

`TxInv` lays the accepted frames out in the one stream of words from the MAC back to
the crossing FIFO: places `start[k]` exist so that the k-th frame, padded, stands
behind `start[k]`. The state machines know none of these places. They count commands,
and `Reach` says what the count means: the data FIFO ends in the frame behind as many
whole ones as there are commands. A frame is begun only if it is stored whole, hence
`NoUnderrun`; and the layout is the refinement mapping's meaning, from which each step
is a step of `FrameQueue` or a stutter (`PortIsAQueue`, initial states and steps).

`RxInv` needs two arguments. `Room` bounds how many words can still come in each state
of the write FSM, given that `force_tlast_to_fifo` takes effect late. `Layout` divides
the data FIFO into packets and matches them one to one with the commands, those taken,
stored and one cycle behind; as a packet has two words at least, the command FIFO
cannot fill before the data FIFO (`RxAssumption`: `2 * CmdDepth >= FifoDepth`).
Both versions of the file have this. Which word the read FSM hands on also follows
from `Layout`, but `OnlyGoodFrames` needs `TuserGood`, that a 1 in the command means a
good frame (the 7series file); the other file is the finding of 3.2.

### 4.7 DmaPathProofs

`ReadInv` says that descriptors, translated commands and commands are three adjacent
pieces of the reads issued and not served (`Queues`), that the reads not served lie in
the buffer, and that the TLB has taken the first k pages of the mapping (`Table`), with
no read outstanding while k is not all. Behind it are lemmas on page numbers for any
page size, and that the cut of the page number to the table's index and of the address
to its width changes nothing for a buffer that fits (`PathAssumption`).

The writes are harder, because a request goes two ways: as commands through
`boundary_check`, the TLB and the descriptors, as words through `pkg_split`. Both are
cut, by different processes and at different times, and nothing but their order
connects them when they meet in the XDMA core. None of the properties is inductive: a
packet fills its descriptor only because every stream before it holds what it should.
`WriteInv` therefore puts all bytes that were ever issued in a line and places
everything in it:

* `tok[x]` is the byte at position x, `rq[x]` the end of its request and `pk[x]` the
  end of its packet, which is where the page or the request ends (`Line`, `InPages`).
  The line ends at T; z was its end at the last mapping, and st holds the positions
  at which requests begin;
* `Queue(q, K, next, G, a, b)` says that the elements of q lie one behind the other
  from a to b: the element at position x is `K[x]` and the one behind it is at
  `next[x]`. Each of the eight streams is such a queue: `cmdIn`, `pageOffsetFifo`
  and `metaFifo` advance by requests, `cmdOut`, `dmaWriteCmd` and `c2hDsc` by
  packets, `dataIn` and `dataOut` by words, where a word ends after `WordSize` bytes
  or with its request or packet. Adjacent streams meet at the positions m, b, c, e, d
  and so on, and all queues on the way of the data cover the bytes from f, the first
  one that is not in memory, to T;
* `Checking`, `Splitting` and `Moving` say what the processes remember between two
  queues. `Splitting` is the heart: `pkg_split` has read up to i and sent up to o, and
  the bytes between are the leftover in `prevWord`, behind lane `meta.length`;
* `BasesAtPages`: `boundary_check` subtracts a base address that is one mapping old.
  The offset in the page is right all the same, as all bases are multiples of the
  page size. Without this assumption `NoCrossingNoMiss` is false: with pages of 4
  bytes and bases 16 and 22, TLC finds a command that crosses a page;
* `Capacities` and `Counters`.

A process's step takes an element from the front of one queue and puts one at the end
of the next (`PopQueue`, `PushQueue`); that the element it puts is the one of its
position is arithmetic. `IssueWrite` extends the line (`GrownLine`), and what was
placed stays in place (`Agrees`). `HostMap` starts a new line behind the old one, for
which `NothingPending` shows that no byte being pending leaves nothing in any stream
or process.

For the refinement, `PendingSlice` shows that the refinement mapping `Pending`, a
flattening of the words in three places, is the part of the line from f to T. A word
that the XDMA core moves is then a `Deliver` of the bytes from f to the word's end,
`IssueWrite` is an `Issue`, `HostMap` a `Map`, and all other steps are stutters.

What flattening a queue of words gives is a statement about sequences of any length.
The provers cannot use an induction theorem, whose parameter is an operator, but they
can use that a set of naturals that is not empty has a least element (`LeastElement`,
from the library's theorem that < is well-founded): the least n at which the statement
fails is not 0, and it holds at n - 1.

### 4.8 StreamUtilsProofs

`PacketsUnchanged` is an equation between the two ends of a chain, and says nothing
about the functions between them. `StreamInv` again puts everything in a line: `in` is
the sequence of all words that were ever offered, and eight positions say how far each
function has come, a that `lshiftWordByOctet` has read the words before it, r and e
what `rshiftWordByOctet` has read and sent, c and g what
`convertStreamToDoubleWidth`, w and h what `convertStreamToHalfWidth` has read and
sent, and k what has left. The streams and static variables follow from these:

* a stream between two functions whose words are those of the packets is empty, or
  holds the one word at the reader's position (`Between`);
* between the shifts the words are others. `RaisedAt(in, k, u)` says that u is the
  word with the front of `in[k]` in it, behind the last `offset` bytes of the word
  before, or behind zeroes where a packet begins. The last word of a packet can spill
  (`Spills`): what moves out of it is then one word more, and `owed` says that
  `rshiftWordByOctet` has read the one and not yet the other (`Owed`). The two shifts
  decide from different lengths whether there is such a word. That they agree is the
  lemma pair `HoldRaised`, for the two cases in which the down shift has something
  left, and `JoinSpilled`;
* a word of double width is `Pair(in, w)`, or the last word of a packet alone
  (`Wide`), and the second half is owed while `hw.fsmState` is `"SECOND"` (`Halved`).

`JoinRaised`, `JoinSpilled` and `LowerRaised` show that what the down shift puts
together are the bytes and the `last` of the word that was raised, from what taking
and dropping do to sequences of any length (`TakeDrop`, `Parts`). Every word but the
last of a packet is full (`Good`); with `StreamAssumption`, offsets from 1 to one less
than a word, this makes the pieces non-empty. As `InOrder` puts the positions in order,
the word the merger reads is the first of `inFlight`. `Offer` is then `Accept` of the
queue, reading the packets' side of the merger is `Send`, and the other steps stutter.

### 4.9 Only model-checked

Liveness under fairness is out of the prover's reach: `CallsReturn`,
`RequestsComplete`, `RunsReport`, `StoredFramesLeave`, `FramesLeave` and
`PacketsComeOut` are checked by TLC on the instances of 3.1. All other properties of
the passing runs are theorems. The invariants `WriteInv` and `StreamInv` quantify over
functions on the naturals, so no run can evaluate them.

## 5. Not modelled, and the plan

Not modelled:

* vendor IP (XDMA, MIG, MAC, data mover, clock converters beyond the capacity they
  add to a stream), the interconnect and the tops (wiring), the network and memory
  wrappers (generated or instances of vendor IP), the build files;
* the DDR interface, `mem_single_inf.sv`: it passes commands to a vendor data mover
  and counts. No other block reads the counters but the statistics, whose walk is in
  `Controllers`; its error counters never count (line 339) and two of the error wires
  are exchanged (line 289);
* the word and load counters of `dma_inf.sv`, for the same reason;
* the programs `main.cpp` and `debug.cpp`: command line and output; their order of
  calls is the environment of the models;
* `fair_pkg_merger` and the conversions between `keep` and length in `axi_utils`
  (unused, and a table without state), `stream_merger` (no state; it is the variant
  of `fair_merger` that `PacketsComeOut` refutes).

Left for the proofs: that the allocator implements an abstract one in which `allocate`
and `free` are single steps.
