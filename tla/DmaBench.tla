------------------------------ MODULE DmaBench ------------------------------
(***************************************************************************)
(* The benchmark engine (hls/dma_bench/dma_bench.cpp): a generator of      *)
(* commands, a generator of write data, a consumer of read data and a      *)
(* clock, four processes that all take one step in every cycle and talk    *)
(* through one-bit streams.  The same engine drives the DMA path and each  *)
(* DDR channel.                                                            *)
(*                                                                         *)
(* The start signal lasts one cycle: a process that is busy in that cycle  *)
(* never sees it.  Base and size are 48-bit registers and the lengths      *)
(* 32-bit ones, so the 64-bit sums below do not overflow.                  *)
(***************************************************************************)
EXTENDS Integers, Sequences

CONSTANTS
  WordSize,   \* bytes of a data word (64)
  Runs,       \* benchmarks the host may start: the contents of the registers
  MaxRuns,    \* bound on the number of benchmarks
  MaxCycles   \* the cycle counter stops here

(* The host asks for at least one access, and an access fits the buffer;   *)
(* neither the program nor the FPGA tests it.                              *)
ASSUME RunsAssumption ==
  /\ WordSize \in Nat \ {0} /\ MaxRuns \in Nat /\ MaxCycles \in Nat \ {0}
  /\ Runs \subseteq [regBaseAddr : Nat, memorySize : Nat, numberOfAccesses : Nat \ {0},
                     chunkLength : Nat \ {0}, strideLength : Nat, isWrite : BOOLEAN]
  /\ \A r \in Runs : r.chunkLength <= r.memorySize

VARIABLES
  regs,                                   \* registers of the running benchmark
  start,                                  \* the start signal
  state, isRandom, currentAddress, count, \* cmd_generator
  sending, remainingLength, sent,         \* data_generator: state, remainingLength, count
  receiving, received,                    \* data_consumer: state, count
  running, cycle_counter,                 \* clock
  startSignal, readDoneSignal, writeDoneSignal,  \* entries in each stream
  requested,                              \* lengths of the packets still to come back
  execution_cycles,                       \* the register the host polls
  runs,                                   \* benchmarks started
  elapsed, words                          \* history: cycles and data words of this run

cmdVars      == <<state, isRandom, currentAddress, count>>
generatorVars == <<sending, remainingLength, sent>>
consumerVars == <<receiving, received>>
clockVars    == <<running, cycle_counter, execution_cycles>>
vars == <<regs, start, cmdVars, generatorVars, consumerVars, clockVars, startSignal,
          readDoneSignal, writeDoneSignal, requested, runs, elapsed, words>>

Init ==
  /\ regs \in Runs
  /\ start = FALSE
  /\ state = "IDLE" /\ isRandom = FALSE /\ currentAddress = 0 /\ count = 0
  /\ sending = FALSE /\ remainingLength = 0 /\ sent = 0
  /\ receiving = FALSE /\ received = 0
  /\ running = FALSE /\ cycle_counter = 0 /\ execution_cycles = 0
  /\ startSignal = 0 /\ readDoneSignal = 0 /\ writeDoneSignal = 0
  /\ requested = <<>>
  /\ runs = 0 /\ elapsed = 0 /\ words = 0

-----------------------------------------------------------------------------
(* cmd_generator *)

(* mutant: the length of the access is left out of the test *)
WrappedShort(a) == IF a > regs.regBaseAddr + regs.memorySize THEN regs.regBaseAddr ELSE a

(* An access that would leave the buffer starts again at its base. *)
Wrapped(a) ==
  IF a + regs.chunkLength > regs.regBaseAddr + regs.memorySize THEN regs.regBaseAddr ELSE a

GeneratorStarts == state = "IDLE" /\ start

CmdStart ==
  /\ GeneratorStarts
  /\ isRandom' = (regs.strideLength # 0)
  /\ currentAddress' = regs.regBaseAddr
  /\ count' = 0
  /\ state' = IF regs.isWrite THEN "WRITE_CMD" ELSE "READ_CMD"

(* One command leaves; a read command asks for a packet. *)
CmdSend ==
  /\ state # "IDLE"
  /\ currentAddress' =
       Wrapped(currentAddress + IF isRandom THEN regs.strideLength ELSE regs.chunkLength)
  /\ count' = count + 1
  /\ state' = IF count' = regs.numberOfAccesses THEN "IDLE" ELSE state
  /\ UNCHANGED isRandom

CmdGenerator(ready) ==
  \/ CmdStart
  \/ ready /\ CmdSend
  \/ ~GeneratorStarts /\ ~(ready /\ state # "IDLE") /\ UNCHANGED cmdVars

-----------------------------------------------------------------------------
(* data_generator: a write to a full stream waits. *)

(* mutant: only a full word ends a packet *)
LastWordFull == remainingLength = WordSize

LastWord == remainingLength <= WordSize
Sent == IF LastWord THEN sent + 1 ELSE sent

DataGenerator(ready) ==
  IF ~sending
  THEN IF start /\ regs.isWrite
       THEN sending' = TRUE /\ remainingLength' = regs.chunkLength /\ sent' = 0
       ELSE UNCHANGED generatorVars
  ELSE IF ready
       THEN /\ remainingLength' = IF LastWord THEN regs.chunkLength ELSE remainingLength - WordSize
            /\ sent' = Sent
            /\ sending' = (Sent # regs.numberOfAccesses)
       ELSE UNCHANGED generatorVars

-----------------------------------------------------------------------------
(* data_consumer: the packets come back in order, word by word. *)

EndOfPacket == Head(requested) <= WordSize

(* mutant: every word counts as a packet *)
ReceivedWords == received + 1

Received == IF EndOfPacket THEN received + 1 ELSE received

Consumes(arrives) == receiving /\ arrives /\ requested # <<>>

DataConsumer(arrives) ==
  IF ~receiving
  THEN IF start /\ ~regs.isWrite
       THEN receiving' = TRUE /\ received' = 0
       ELSE UNCHANGED consumerVars
  ELSE IF Consumes(arrives)
       THEN received' = Received /\ receiving' = (Received # regs.numberOfAccesses)
       ELSE UNCHANGED consumerVars

-----------------------------------------------------------------------------
(* clock *)

Counted == IF cycle_counter < MaxCycles THEN cycle_counter + 1 ELSE cycle_counter

(* mutant: a start does not set the counter back *)
CycleKept == IF running THEN Counted ELSE cycle_counter

Cycle == IF startSignal > 0 THEN 0 ELSE IF running THEN Counted ELSE cycle_counter

(* mutant: the done signal of a write is dropped *)
ClockReadsOnly ==
  LET done == readDoneSignal > 0
  IN  /\ cycle_counter' = Cycle
      /\ running' = ((running \/ startSignal > 0) /\ ~done)
      /\ execution_cycles' = IF done THEN Cycle ELSE execution_cycles

Clock ==
  LET done == readDoneSignal > 0 \/ writeDoneSignal > 0
  IN  /\ cycle_counter' = Cycle
      /\ running' = ((running \/ startSignal > 0) /\ ~done)
      /\ execution_cycles' = IF done THEN Cycle ELSE execution_cycles

-----------------------------------------------------------------------------
(* A bit goes into a stream in one cycle and can be read in the next. *)
Through(stream, written) == (IF stream > 0 THEN stream - 1 ELSE 0) + (IF written THEN 1 ELSE 0)

(* What is still to come back: what was asked for less what arrived. *)
Requested(ready, arrives) ==
  LET rest == IF ~Consumes(arrives) THEN requested
              ELSE IF EndOfPacket THEN Tail(requested)
              ELSE <<Head(requested) - WordSize>> \o Tail(requested)
  IN  IF state = "READ_CMD" /\ ready THEN Append(rest, regs.chunkLength) ELSE rest

(* One clock cycle.  The command stream and the data stream accept or not, *)
(* and a word of read data has arrived or not.                             *)
Tick(cmdReady, dataReady, arrives) ==
  LET written == sending /\ dataReady
  IN  /\ CmdGenerator(cmdReady)
      /\ DataGenerator(dataReady)
      /\ DataConsumer(arrives)
      /\ Clock
      /\ requested' = Requested(cmdReady, arrives)
      /\ startSignal' = Through(startSignal, GeneratorStarts)
      /\ readDoneSignal' = Through(readDoneSignal, receiving /\ ~receiving')
      /\ writeDoneSignal' = Through(writeDoneSignal, sending /\ ~sending')
      /\ start' = FALSE
      /\ elapsed' = IF GeneratorStarts THEN 0
                    ELSE IF (sending \/ receiving) /\ elapsed < MaxCycles THEN elapsed + 1
                    ELSE elapsed
      /\ words' = IF GeneratorStarts THEN 0
                  ELSE IF written \/ Consumes(arrives) THEN words + 1 ELSE words
      /\ UNCHANGED <<regs, runs>>

(* The role loads the registers and pulses start.  The host starts the     *)
(* next benchmark when the last one has reported; that the generator has   *)
(* sent its last command by then is an assumption on the host's speed.     *)
Start(r) ==
  /\ runs < MaxRuns
  /\ runs = 0 \/ execution_cycles # 0
  /\ state = "IDLE"
  /\ regs' = r
  /\ start' = TRUE
  /\ execution_cycles' = 0
  /\ runs' = runs + 1
  /\ UNCHANGED <<cmdVars, generatorVars, consumerVars, running, cycle_counter, startSignal,
                 readDoneSignal, writeDoneSignal, requested, elapsed, words>>

Next ==
  \/ \E r \in Runs : Start(r)
  \/ \E c, d, a \in BOOLEAN : Tick(c, d, a)

Spec == Init /\ [][Next]_vars

(* The clock runs, the streams accept again and again, and read data comes *)
(* back: what the DMA path and the memory controllers do for requests.     *)
FairSpec ==
  /\ Spec
  /\ WF_vars(\E d, a \in BOOLEAN : Tick(TRUE, d, a))
  /\ WF_vars(\E c, a \in BOOLEAN : Tick(c, TRUE, a))
  /\ WF_vars(\E c, d \in BOOLEAN : Tick(c, d, TRUE))

-----------------------------------------------------------------------------
(* Type invariant. *)
TypeOK ==
  /\ regs \in Runs /\ start \in BOOLEAN
  /\ state \in {"IDLE", "WRITE_CMD", "READ_CMD"} /\ isRandom \in BOOLEAN
  /\ currentAddress \in Nat /\ count \in Nat
  /\ sending \in BOOLEAN /\ remainingLength \in Nat /\ sent \in Nat
  /\ receiving \in BOOLEAN /\ received \in Nat
  /\ running \in BOOLEAN /\ cycle_counter \in 0 .. MaxCycles
  /\ execution_cycles \in 0 .. MaxCycles
  /\ startSignal \in 0 .. 2 /\ readDoneSignal \in 0 .. 2 /\ writeDoneSignal \in 0 .. 2
  /\ requested \in Seq(Nat \ {0})
  /\ runs \in 0 .. MaxRuns /\ elapsed \in Nat /\ words \in Nat

(* Every command stays inside the buffer the host named, sequential or     *)
(* with a stride, also after any number of wraps: the DMA engine would     *)
(* otherwise access pages the TLB maps to something else.                  *)
CommandsInBuffer ==
  state # "IDLE" => /\ regs.regBaseAddr <= currentAddress
                    /\ currentAddress + regs.chunkLength <= regs.regBaseAddr + regs.memorySize

WordsOfRun == regs.numberOfAccesses * ((regs.chunkLength + WordSize - 1) \div WordSize)

(* A report is about the whole run: when the clock takes the done signal,  *)
(* all words of the run have moved, and a read has issued exactly its      *)
(* commands and has nothing left to come back.                             *)
ReportAfterRun ==
  execution_cycles' # 0 /\ execution_cycles = 0 =>
    /\ words = WordsOfRun
    /\ ~regs.isWrite => state = "IDLE" /\ count = regs.numberOfAccesses /\ requested = <<>>
ReportsComplete == [][ReportAfterRun]_vars

(* The reported cycles are those of this run, from the cycle that takes    *)
(* the start signal to the one that moves the last word, although the      *)
(* clock learns of both through streams; and never 0, for which the host   *)
(* would poll for ever.                                                    *)
ReportsOwnCycles ==
  [][execution_cycles' # execution_cycles /\ ~start' =>
       execution_cycles' = elapsed /\ execution_cycles' >= 1]_vars

(* Every benchmark that is started reports. *)
RunsReport == start ~> execution_cycles # 0
=============================================================================
