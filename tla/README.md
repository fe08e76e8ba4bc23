# PulsePins: TLA+ models, model checking and proofs

PulsePins is a pulse sequencer for a Cyclone V SoC: an FPGA design (`ip/`, `pulsepins.sv`)
plays a program of run-length encoded words on output pins, and host software (`c++/`,
`tidbit/`, `python/`) builds programs, sends them, arms the trigger, waits and reads back.
This directory holds TLA+ models of the parts that carry its logic, the TLC configurations
that check them on small instances, and TLAPS proofs of the results that hold for every size.

## 1. Inventory

### Path of a program

    host sequence --DMA/FIFO--> st_mux --> st_interface --> streamer --> qout, strobe
                                                              |  ^
                         rl_encoder (read-back) <-------------+  +-- combiners: trigger, gate

| Part | State | Operations | Interacts through |
| ---- | ----- | ---------- | ----------------- |
| `cdc_bus_update` | send/pending data, toggles, synchronizers | update, sample, park, commit | every multi-bit value between `clk` and `streamer_clk` |
| preprocessor, input FIFOs | FIFO 1, FIFO 2, replay memory and indices | pass, store, replay, discard | valid/ready, `almost_full` |
| run-length decoder | current run, previous word, generator | load, emit, reload | pops FIFO 2, throttled by the output FIFO |
| output FIFO | dual-clock FIFO, output register, flags | write, read, done, underrun, retrigger request | crosses to `streamer_clk` |
| trigger chain | dual-clock FIFO of stages, state machine | queue, load, match, force, trigger reset, retrigger | fed from FIFO 2, starts the output FIFO |
| streamer | the composition, reset synchronizer, trigger latch | one edge of either clock, reset, reload | |
| register interface | control, override, initial value, snapshots | register reads and writes, initial reload | Avalon bus, `cdc_bus_update` |
| stream multiplexer | selected channel, beat counters | switch, transfer | streaming valid/ready |
| read-back encoder | current run, dual-clock FIFO, overflow latch | sample, flush, drain | host drains by polling |
| combiners | invert, mask and force registers of every port | configure, route, self test | between streamers, pins and triggers; survive the program that set them |
| counters, frequency meter, time stamps | windows, counts, FIFOs, snapshots | reset, latch, count, capture, read | register bus, one crossing per instrument |
| start-up and clocks | clock source, PLL registers, fabric reset, measured frequency | select, update, measure | every program before its work |
| streamer control and workflow | shadow of the control word, deadlines | reset, prepare, transmit, trigger, wait, read back, abort | registers, transports |
| transports | FIFO fill, descriptor queue, stall clock | send, repeat, poll, time out | DMA engine, FIFO |
| sequences | lists of elements, files | convert, merge, infer, write, read, generate | everything that plays or checks |
| servers | sessions, error queue, snapshot, descriptors | SCPI commands, HTTP requests, lines | host workflow, several threads |

### What is hard here

* Two unrelated clocks (three with the read-back): every value that crosses, every FIFO and
  every reset is seen by the two sides at different times.
* Back-pressure in registers: `almost_full`, `wrusedw`, `rdempty` are all late.
* Trigger and data elements share one queue; retrigger, force and trigger reset can meet in one cycle.
* A reset is a short pulse in one domain (two periods of `streamer_clk`, or 10 us) that must clear both,
  and acts in the other one after it has ended in the first.
* Configuration may be written at any time and must take effect only between streams.
* Bit operations depend on the previous word, also across a run boundary in the same cycle.
* Host time-outs race with late completion; counters are polled while they run.
* A process may be killed at any step, and the board keeps what it had written: the next one starts from there.
* Threads: two stamp readers, an aggregator and a main thread; web handlers; a server thread beside a command.
* The host decides from counters and flags whether a sequence was played, and compares what it reads
  back with a reference it computes itself.

PROJECT.json lists these as hazards, each at its line.

## 2. Modules

### FPGA

| Module | Models | Source |
| ------ | ------ | ------ |
| `LatestValue` | what a latest-value crossing promises | specification only |
| `CdcBusUpdate` | the toggle handshake, both domains, clock phases, resets | `ip/misc/cdc.sv` |
| `Elements` | elements, their constructors, the meaning of a program | `config.vh`, `elements.hh`, `rl_decoder.sv` |
| `Preprocessor` | pass, store, replay, discard | `preprocessor.sv` |
| `InputFifo` | both scfifos, counters, overflow latches, around `Preprocessor` | `input_fifo.sv` |
| `InputPath` | `InputFifo` between a pausing source and a pausing reader | environment |
| `DcFifo` | the vendor's dual-clock FIFO (external) | as used by `output_fifo.sv`, `chain_trigger.sv`, `rl_encoder.sv` |
| `RlDecoder` | decoder and generator | `rl_decoder.sv`, `prng.sv` |
| `OutputFifo` | crossing, throttle, done, underrun, output register | `output_fifo.sv` |
| `ChainTrigger` | stage queue, comparator, state machine | `chain_trigger.sv`, `and_trigger.sv` |
| `Streamer` | all of the above as one block, with reset and reload | `streamer.sv` |
| `StInterface` | register file, configuration crossing, initial-reload handshake, control synchronizers, around `Streamer` | `st_interface.sv` |
| `RlEncoder` | encoder, its dual-clock FIFO, overflow latch, pulse counter, software reset | `rl_encoder.sv`, `rl_encoder_if.sv`, `readback.hh` (reset) |
| `StMux` | channel selection, counters, the host's switch and `read_stable_u64`; sources and width adapter external | `st_mux_if.sv`, `st_mux.hh`, `misc.hh` |
| `DataInduction` | induction over data as first-order facts, sequences, folds | library |
| `InputFifoProofs`, `InputPathProofs`, `StreamerProofs` (with `StInterface`), `HostLinkProofs` (`CdcBusUpdate`, `StMux`, `RlEncoder`) | theorems | |

### Host

| Module | Models | Source |
| ------ | ------ | ------ |
| `SequenceOps` | conversions of sequences: effective values, merging, inferred final output, comparison | `sequence.hh`, `elements.hh`, `ppworkflow.hh` |
| `SequenceFiles` | text records, binary format, VCD export and import, time scales | `sequence.hh`, `sequence_file_format.hh`, `vcd_parser.hh` |
| `Waveforms` | generators, function generator, SPI encoder and the devices behind it | `sequences.hh`, `ppfg.hh`, `tools/spi_payload` |
| `Peripherals` | DAC, PID, temperature sensor, SPI and I2C | `DAC.hh`, `PID.hh`, `MCP9808.hh`, `PMODDA3.hh`, ... |
| `SelfTests` | the self tests: sequence, reference, verdict | `pptest.hh`, `ppdmatest.hh` |
| `FreqMeter` | gate, edge counter, crossings, driver | `freq_meter.sv`, `freq_meter.hh` |
| `HostTools` | one process of any of these tools, over the modules above | `pptool_streaming.cc`, `pptool_measurement.cc`, ... |
| `StreamerControl` | control shadow, status, waits, and the streamer as the host sees it | `streamer_control.hh` |
| `Workflow` | `send_and_trig`: processes, transport, deadlines, read-back, checks | `ppworkflow.hh`, `readback.hh`, `streamer_fifo.hh` |
| `Dma` | descriptors, engine, repetitions, stall time-outs | `streamer_dma.hh`, `dma.hh`, `basic_multi_dma.hh` |
| `Timestamps` | capture FIFOs, readers, aggregator, `ppts`, `ppgpsdo` | `ts_core.sv`, `timestamp.hh`, `zip_aggregator.hh` |
| `SignalPaths` | combiners, routes, self test | `combiner.sv`, `combiner.hh`, `qout.hh`, `trigger*.hh` |
| `Bringup` | runtime, clock source, PLL search and update, fabric reset | `host_runtime.hh`, `fpga.hh`, `pll_*.hh`, `tidbit/pll.hh` |
| `Counters` | the bank of instruments, reset and latch pulses, `ppcounter` | `ip/counter`, `counter.hh` |
| `WebGui` | controller, handlers, snapshot, restoration | `ppwebgui_*.cc` |
| `ScpiServer` | sessions, command tree, errors, replies | `scpi_server.hh`, `ppscpi.cc` |
| `LineServer` | server thread and main thread of `pptool` | `ppserver.hh`, `pptool.cc` |
| `Programs` | the composition: one board, one program at a time | |
| `WorkflowProofs`, `ProgramsProofs`, `HostToolsProofs` | theorems about `Workflow`; about the other parts of `Programs` and their composition; about `HostTools` | |

`MCInputPath`, `MCStreamer`, `MCStInterface`, `MCHostTools` and `MCPrograms` define the programs, options and
settings of the instances for TLC; the other configurations (`MCCdcBusUpdate.cfg`, `MCStMux.cfg`, `MCRlEncoder.cfg`) run the
component's module itself.

### Correspondence: FPGA

*A step is a clock edge.* In `Streamer`, `ClkTick` is one posedge of `clk` and computes the next
value of every register of that domain; `RunAny` is one posedge of `streamer_clk`. The clocks
are unrelated, so the two interleave freely. Combinational wires are operators with the
names of the source (`load_fire`, `read_fire`, `trigger_activated`, ...). Inputs of an edge
(gate, trigger inputs, enable, force, trigger reset, stop, valid) are chosen with `\E` from sets
given as constants. `Next` also has `AssertReset`, `ReleaseReset` and `ReloadInitial`.

*A software reset* follows `reset_for_active_clock`: the register is set (the asynchronous clear of
the dual-clock FIFOs acts at once), held for at least two edges of `streamer_clk` (`HeldLongEnough`), and
cleared, possibly before it has acted behind the three-stage synchronizer. Software then waits four periods
(`WaitedAfterReset`, the bring-up of `basic_multi_dma.hh`; `readback::reset` waits five on the other paths)
before it uses the streamer: `settled` says that this wait is over. `reset_streamer()` holds for 10 us instead, which
is two periods for any streaming clock above 200 kHz.

*`StInterface`* wraps the same two edges. Its register writes are clk edges, its two `cdc_bus_update` crossings are
sequences of updates on their way: an edge of the receiving clock delivers any number of them and shows the
last, which is what `LatestValue` allows and `CdcBusUpdate` is proved to implement. Runtime controls go through their three
flops; trigger inputs and external controls are arbitrary anyway and enter as synchronized. Software keeps
the order of the host programs: `INIT_VAL` before the first element or during a reset (and slower than a
synchronizer, `IdleSeen`), enable and force when all is sent.

*An output word is the set of its high pins*, so the bit operations are set operations; the
shifts interpret the operand as a number. The control word is the set of its flags plus the two fields.

*The dual-clock FIFO* is a sequence plus two numbers: how many words have crossed to the read
side and how many freed places the write side has not noticed. Each edge lets the synchronizers
advance by any amount, which covers every delay of the vendor block (its pipelines have four
stages) and more.

*`CdcBusUpdate`* has edges of either clock and simultaneous edges. A payload is a version
number, because the logic never looks at the data. In a simultaneous edge the first flop of a
synchronizer takes the old or the new level, and a payload that is changing is sampled as `Torn`.

*`RlEncoder`* has edges of `input_clk` and of `clk`. Its registers are cleared asynchronously, in the step in which the last
flop of the synchronizer rises; overflow latch and pulse counter at the edge after. Encoder and counter have a synchronizer each, taken
as one: their skew of at most one edge shows only in a sample taken at the very release of a reset. While the FIFO
is held clear its full flag is arbitrary. History variables keep the samples since the reset, where valid dropped, and
the runs the reader took. Software releases the reset after five periods; the model only needs three edges.

*The meaning of a program* (`Unrolled`, `Samples`, `UpToTerminator` in `Elements`) is a
table over the list of elements, a recursive function of the index, without queues or clocks. The main properties compare the
history of words played, and on the host the reference of every check, with it.

### Correspondence: host

*A step is what the code does between two accesses to shared state* (a register the FPGA may change meanwhile,
a queue, a lock, a socket). Pure computations (merging, parsing, searching dividers) are operators, applied in the step that uses their result.

*A process may be killed at any step*: an action ends it and leaves registers, FIFOs, descriptors and the FPGA as they are.
`MaxProcesses` and its kin bound how many come one after another.

*Time* is not counted. A deadline is a number of polls (`MaxPolls`, at least one: zero switches a bound off in the source), and whether the awaited event comes before it is free.
The read-back loops look at the clock after every element they read as well, and a deadline may pass there too (`late`): a check whose total bound (`-hard-timeout`) passes
while the last run is read fails with a time-out although every run agreed and the streamer is done.
Sleeps stand for what the source's comment gives as their purpose: the reset pulse of `Workflow` outlasts the about 1024 cycles in which the
transport FIFO runs dry; in `Counters` the sleep after a pulse is its number of streamer periods plus any slack, and a snapshot crosses within
`CROSSING` = 4 samples (the bus clock is at least as fast as the streaming clock); the settle sleeps of the frequency
meter are `SETTLE_US * CYCLES_PER_US` = 15 cycles for 500 in the source, longer than its crossings in both.

*The streamer of the host modules* (`StreamerControl`) is the promise the FPGA modules establish: a queue of elements, a decoder that plays it in order,
a read-back that may overflow, done, underrun and the counters; the host reads only what the registers show. Its sequences are made of
plain elements (`PlainElement`: passed, not stored, replayed or random), because the preprocessor in front of it is `InputPath`'s.

*Simplifications.* The five instruments of the counter bank have crossings of their own that land together.
The frequency meter has one of its four channels, bus and reference clock at one rate, a steady
measured clock. The control loop of the GPSDO runs in whole numbers (kd = 0, the leak eps 0 or 1, dt = 1, the PID's infinite limits are 1000); floating-point rounding is not modelled.
Text is tokens: a record of a file, a class of SCPI command, a field of a web request. In the read-back words the widths of
fields and bus are chosen so that fields straddle words, which the code supports and the present build (32/32/32 on 32) never does.
`pptest 20` runs with its locks; `-nolocks` is a data race on a list and has no defined outcome. After a DMA transfer, `ppdmatest` waits as `Workflow` does.

`Programs` holds the state of all of them. A variable `user` says which kind of program uses the board in a behaviour, and
the modules' actions run under it; the parts that are not used rest in an initial state.

## 3. Runs

| Run | Question | Bounds |
| --- | -------- | ------ |
| `cdc` | can the destination see a torn, stale or lost value under any phase, update, accept and reset pattern? | 3 versions after reset: one in flight, one pending, one overtaken |
| `input_path` | is what leaves FIFO 2 the program with its replays unrolled, does all of it leave, and do FIFOs and counters account for it? | FIFOs of 4 with one free place, memory of 2, counters of 3 bits (they wrap), 12 elements observed |
| `streamer` | is what leaves the pins what the program means, also around resets and reloads? does done mean complete? is a segment started by its own trigger subsequence? is every program played to its end (`FairSpec`)? | three programs, FIFOs of 2, output FIFO of 4 (threshold 1), trigger FIFO of 3, 2 pins, 1 trigger input, counters of 2 bits, two initial values |
| `reload_handshake` | can a reload of the decoder throw away an element sent right after `INIT_VAL`, and is it about the value written last? | two `INIT_VAL` writes, two updates on their way, resets, FIFOs of 2, output FIFO of 3 |
| `playback_config` | can override, gating or stop settings slip into a stream, e.g. while it waits for its retrigger? | one program with a retrigger, one update on its way at a time |
| `reload_completes` | does the blocked input always come free? | as `reload_handshake`, without resets, `IfFairSpec` |
| `st_mux` | does a channel switch mix, drop or double beats, and can a running counter be read torn? | two beats in an element, counters of two halves of 2 bits, 5 beats: one carry |
| `rl_encoder` | do the runs decode to the samples exactly while the overflow flag is low, are they maximal, and do all of them reach the reader? | two words, counts of 2 bits (a run of three saturates), FIFO of 2, 5 samples between resets: enough to overflow it, to saturate a run and to wrap the counter |
| `programs` | see below | 3 streaming processes, 2 polls per deadline, transport, output and read-back FIFOs of 2; DMA descriptors of 6, up to 8 repetitions; stamp FIFOs of 3 words, 3 events; 2 processes of the other kinds; 2 web handlers and 2 requests of 16 kinds; 2 SCPI sessions, 2 lines of 9 kinds; 4 clients of the line server |
| `host_tools` | see below | sequences of up to 3 elements from a pool of every kind, counts up to 7, 4 pins; every file cut at every place; every period, duty, repetition, device setting, gate and phase of small sets |
| `trigger_reset_race`, `web_done_masks` | violations, see section 5 | as `streamer` with trigger resets, as `programs` with a change of clock |

`programs` checks for each kind of program what its user relies on:

* `OkMeansPlayed`, `NoFalseAlarm`, `QuietAfterTimeout`, `Returns`: a run that returns OK has played all of its sequence and nothing else, whatever
  was left in the board; the check never finds a run that differs, and never sets its bit, without a cause (an underrun, lost read-back data, a time-out before the streamer was done or while there was something to read, or a sequence the reference cannot describe, `Comparable`); after a time-out the outputs keep still; the call returns.
* `DmaDelivers`: as many repetitions as asked for arrive, and the wait for room in the descriptor queue is never a wait for the program itself.
* `PairsMatch`, `CodeTellsCause`, `FailureEndsProgram`: the control loop never pairs stamps of different events; the return code names the cause, which the control loop's own failure tells by its message (an overflowing difference of stamps, or the converter); no thread stays behind.
* `PathsRestored`: a route is what was asked for, a self test leaves the registers as it found them and agrees with the hardware.
* `UpMeansReady`: a program that is up has a running streaming clock whose frequency it knows, and a PLL programmed within its rules.
* `ReportIsTrue`: a report counts exactly the sequence that was played.
* `WebTruthful`: what the browser shows is what the registers hold, also after a request failed half way, and what was reported as played reached the pins.
* `SessionsKept`: every command has its own effect and its own reply, also when the connection ends or a handler ends in an exception; a stale staged sequence is never played.
* `ProgramEnds`: the process ends whatever its server thread is blocked in.

`host_tools` compares computations with the meaning of a program: the inferred final output (`FinalKnown`), references of checks (`ReferenceMatches`),
files and captures (`FilesFaithful`), traces (`TraceKept`), the function generator (`PulsesAsAsked`), and what devices hold and show (`DevicesHold`: SPI bits,
programmed synthesizers, sweeps, control loop, temperature, frequency).

The bounds make every queue full and empty, every counter wrap and every throttle engage; the
programs between them contain every kind of element, runs longer than the output FIFO, two
segments and a two-stage trigger. The threshold 1 of 4 keeps the slack of three words that
the proof shows to be enough, instead of the 16 of the source.
TLC explores all programs of a run in one state space. The passing runs of the FPGA check deadlock, for the clocks never stop; host programs end, so
their two runs do not.

In the `streamer` run the trigger is enabled only once all stages are loaded (`LoadBeforeEnable`):
this is the order of `ppworkflow.hh` (transmit, then activate the trigger). Without it a
chain may fire when its FIFO merely looks empty. `StopIn` is FALSE there because a stop acts exactly like a closed gate; it is written in `playback_config`.

### Fairness

Weak fairness of clock edges, because clocks run. The source sends what it has; the reader or
the gate is ready again and again; the trigger inputs again and again show the awaited pattern
while the synchronizers have caught up (`Willing`); a reset both domains have seen ends (software
clears it). `IfFairSpec` adds that both crossings deliver; in `RlEncoder` the reader takes what it is offered and
the source has pauses. On the host threads are scheduled: the process that streams and the decoder it watches, the stamp readers, the aggregator's worker,
the main threads and the server thread. No fairness is assumed of resets, stops, forces, updates, kills, events, clients or the board.

## 4. Proofs

All theorems are for every value of the constants under the named assumptions of the modules. A theorem listed in PROJECT.json with a property
states that property of the specification TLC runs.

### Induction over data

The library's induction principles take an operator and cannot be instantiated by the provers here. `DataInduction` states them about a set
(`NatInductive`: a set of numbers that contains 0 and successors contains all of `Nat`), which is first-order and follows from the well-foundedness of `<`.
From it come the facts the other modules cite: a table given by a recursive function exists and has its type, what `FlattenSeq`, `SelectInSeq`, `Front` and
the folds return, least and greatest members (`FirstExists`). The models' recursive definitions are functions of an index, never `RECURSIVE` operators.

### FPGA

* `HostLinkProofs`, bus crossing: the inductive invariant adds to the types how the toggles, their synchronizer stages, `src_inflight` and the acknowledgement
  stand to each other: at most one of the handshake's flops differs from the one before it, and while a request is under
  way the payload equals the one announced. From it: `NeverTorn`, `CdcNothingLost` (`QuiescentIsLatest`), and `CdcRefinement`, that
  the handshake implements `LatestValue` (refinement mapping: `offered` is `newest`, `delivered` is `dst_data`, `up` is "both domains
  were cleared since the reset").
* `InputFifoProofs`, `InputPathProofs`: a replay's index stays below its length (`ReplayInRange`), and a FIFO is never above its almost-full level
  (`BelowAlmostFull`), so `PathNeverOverflows`. `PathPopsAsUnrolled` follows the elements: what was popped, FIFO 2, the rest of a
  running replay and what the elements of FIFO 1 mean with the memory they will find are a prefix of the program unrolled (`Delivers`, of
  `QueueHolds`, `MemoryHolds` and `GivenMeans`). The memory survives a reset, so this needs that programs store before they replay (`StoredAssumption`),
  which is how the host generates them.
* `StreamerProofs`, the streamer: `OutSlackInv` counts what is in flight: with `almost_full` low at most
  threshold+1 words are in use, with a write pending at most threshold+2, so three words of
  slack suffice (`StreamerNeverDrops`). For `StreamerPlaysAsProgrammed`, `DoneIsComplete` and `QoutIsPlayed` the invariant `PlayFrom` extends `Delivers` through
  the decoder to the pins: the words played, in the output FIFO and on their way to it are the samples of the elements taken (`Flow`), and the registers of the read side
  tell where that stands (`EndTold`, `WordsTold`, `LatchTold`, `CountersTell`), except while a reset is still in the synchronizer, when nothing is on its way.
* `StreamerProofs`, its register interface: the crossing commits while `streamer_idle`, so `ConfigFixed` needs that an unfinished stream
  is active even while its chain is back in IDLE or LOAD. `ActiveSinceStart` says so: a read needs the trigger, and
  `stream_in_progress` remembers the trigger at the edge of the first read. `HandshakeIsTrue`: each update is acknowledged once (`AckOnce`), and with no
  reload outstanding both sides hold the same value (`HandshakeInv`). `ReloadsAgree` joins it to `PlayFrom` with that value as the base: while a request is
  outstanding nothing of the program has been sent (`ReloadInv`). `PinsFollowWords` is the action property that follows.
* `HostLinkProofs`, multiplexer: the reader of a counter knows that the high word it read first is at most the present one
  (`ReaderInv`); as the counter never goes back, equal high words before and after fix the high word at the
  moment of the low one (`StableReads`). This needs that the counter does not wrap completely (`NoWrapAssumption`, 64 bits).
  `BeatIsHeld` and `MuxCounts` say that a stalled beat stays with its data and tag, and that the counters count the beats handed over; `NothingIsMixed`, that
  an element is made of the beats of one source, because a switch waits for the end of an element.
* `HostLinkProofs`, read-back: while the encoder runs, the runs read, stored, being written and open decode to the samples, or the flag is high and some are missing
  (`NothingMissing`); a run without an open one behind it ended where valid dropped (`EndsInGap`), so runs are as long as they can be; and a reset leaves nothing of
  the old stream on either side (`ResetClears`). Together `OverflowTellsLoss`.

### Host

* `WorkflowProofs`: `ControlInv` tells in which phases the streamer can play at all. The control word in the FPGA is the shadow (`ControlTold`), nothing triggers
  before the host arms or forces, and the three ends of a wait stand to done as `WaitTold` says; so after a time-out the streamer is stopped, disarmed or has
  seen the terminator (`TimeoutStops`), and `TimeoutIsQuiet`. `RunInv` adds the promise: what was played, and what the elements in the output FIFO, in the transport and
  not yet sent mean from the present value on, is the sequence (`PlayTold`); with -check every run was compared, because the terminator is the last element of the
  reference after conversion, merging and dropping (`CheckTold`, lemma `ReferenceIs`). `OkIsPlayed` follows: RC_OK needs done, and done is the end of the promise.
* `WorkflowProofs`, no false alarm: a list of runs (`Pulse`) no two neighbours of which have one value (`Apart`) is decided by its samples: of two such lists, one of which
  plays the beginning of what the other plays, the first runs agree unless it is the shorter one's last (`FirstRun`). The reference of a comparable sequence is such a list, with the samples the
  sequence plays from the value the outputs start at (`ReferenceRuns`; it follows `convert_to_BitLoad`, `merge` and `drop_count0` element by element), and so is what the read-back holds
  (`SampledRuns`). `AlarmInv` says how they stand during the check: what is asked for and what was played begin with the same samples, those compared; the rest of the one is the reference that is left, the
  rest of the other what the read-back holds, its open run included (`Comparing`). The open run is not compared until the terminator flushes it, and then nothing is left to play: so the first run always matches
  (`CheckReadAlarm`). The final value the host expects is the one the elements ahead end at (`FinalTold`, `InferIs`), the counters agree once the output FIFO is empty
  (`HardwareTold`), a time-out has a reason (`TimeoutTold`), and a run differs for a cause only (`MismatchTold`), however the check ends. `AlarmIsTrue` follows, and `BoardNoFalseAlarm` for all programs together.
* `ProgramsProofs`, time stamps: a channel's stamps are in the core's FIFO, the reader, the queue and the task; the invariant (`InOrder`) says which stamp each place holds,
  counted from the pairs the task has finished (`PairsAlwaysMatch`). For the return code: a reader that was stopped owes it to a failure elsewhere (`Caused`), and a worker that
  left without one has drained the queues (`Drained`); a failure of the task comes back as the code its message stands for, and the readers' own codes join it.
* DMA: each descriptor is done, in the engine or in the queue; `Delivering` says how many are where and what the streamer has received, `Room` that the queue has room
  while the engine is stopped, so the program never waits for itself.
* Web interface: each method of the controller takes and gives a state of the controller; one lemma per method says what it does to the hardware and to the snapshot, also
  when it fails half way.
* SCPI: `Kept` relates the replies produced, queued and delivered of a connection in every state of its closing; a line is a table of states, one per command.
* Start-up: `is_better` is a linear order on the finite set of divider settings, so the search has a best candidate; unless an update was cut short a PLL runs on counters the search met
  (`CountersWhole`), and a program that is up measured its clock after the last change (`ClockKnown`).
* `HostToolsProofs`, final value: `infer_sequence_final_output` goes through the elements and remembers one value; the decoder plays words. What a program leaves on the outputs is the last sample of its last element
  that shows one, and by induction over the elements that is the value remembered (`InferIs`, shared with the alarms; `ShowsLast`). A script's elements are plain (`ScriptAssumption`); a capture's come from the read-back's bus
  words, so the lemma `CaptureConstructed` follows `read_fifo_field` word by word: the words of an element hold enough bits for its fields, and every field it builds is in range.
* `HostToolsProofs`, pptest 20: what the list shared by the two threads holds is what the reader has yet to see: the finished runs, the open run, and the elements still in the streamer, in this order
  (`CheckerSound`). Neighbouring elements differ, so the encoder never merges two of them, and a run is finished only when the next element plays or the last one has been seen: then the front of the list is the element read back.
  From it `CheckerIsTruthful`, which is one of the three parts of the property `ReferenceMatches`.
* `Board...`: each is transferred to `Programs!Spec`, where the part's actions run under `user` and every other program leaves its variables alone.

### Assumptions

About programs and sequences: `StoredAssumption` (above), `FiniteAssumption` (a replay without end has no finite meaning to compare with; `InputPath` has none of it),
`SequencesAssumption` (plain elements, above). About sizes: widths, FIFOs and counters are positive (`WidthAssumption`, `OutputFifoAssumption`, `EncoderAssumption`, `SizeAssumption`, ...), the DMA
queue has more than four places, a multiplexer counter does not wrap (`NoWrapAssumption`), the divider search reaches at least the multiplier 12 (`CalcAssumption`; the source tries up to 510).
About inputs: options, profiles, requests and lines have the form the parsers produce (`OptionsAssumption`, `BootAssumption`, `WebAssumption`, `ScpiAssumption`); a script's elements come from constructors, so
a terminator has length one (`ScriptAssumption`), and the widths of the read-back's fields and bus are numbers (`FieldsAssumption`, which also tells the provers that a power of two is positive). `NoneAssumption`: the mark for "no value" is
no word. TLC evaluates all of them on the instances.

### Left to TLC

* Liveness: `EveryOfferArrives`, `AllPopped`, `Completion`, `ReloadCompletes`, `EverySampleArrives`, `Returns`, `FailureEndsProgram`, `ProgramEnds`; fairness and ENABLED are outside the prover.
* `SegmentTriggered`: true for programs that load before they enable and neither force nor reset the trigger across segments, which are bounds of the run and not assumptions of the specification.
* `PathsRestored`: the self test's agreement with the hardware is arithmetic on sums of powers of two; `ReportIsTrue`: counts that the model defines by recursion over the past.
* `FilesFaithful`, `TraceKept`, `PulsesAsAsked`, `DevicesHold`, and the parts `ScriptReference` and `TestsSound` of `ReferenceMatches`: each compares a whole computation with a definition, over a
  pool of inputs; the modules hold no state that evolves.

The type invariants, `QuiescentIsLatest`, `HeldBeat` and `CountersCount` are stated by theorems and not repeated as invariants of a run.

## 5. Findings

Shown by a run:

* `trigger_reset_race`: a trigger reset in the cycle that reads a retrigger word swallows the
  retrigger (`streamer.sv:205` needs `trigger_o` one cycle later); the used stage starts the next segment.
* `web_done_masks`: the web interface sets the done masks once, at its start. `reset_hardware_locked` changes the clock through a fabric
  reset, which clears them, and does not set them again: streams complete, and the aggregate done output stays low.

Met while modelling; the models follow the code:

* Streamer. The simulation guard `output_fifo.sv:204` ("Write attempted while FIFO almost_full") fires in ordinary back-pressure, because the decoder's write is registered
  one cycle after `almost_full`; harmless, see `OutputNeverDrops`. A forced trigger inside a multi-stage subsequence (`chain_trigger.sv:149`) leaves the skipped
  stages queued, and the next segment waits on them.
* Sequences. `convert_to_BitLoad` (`sequence.hh:213`) carries the value of an element of length zero on, although its comment and `sequence_format.md:123` speak of the observed output,
  so `-check` gives a false alarm for bit operations after such an element. `merge()` keeps two elements of one value apart when a trigger condition stands between them or their control words
  differ, and the read-back shows one run: another false alarm (`Comparable` of `NoFalseAlarm` excepts both). `merge()` of relative operations changes their meaning. `infer_sequence_final_output` and the VCD export take
  stored elements for played ones. The text writer drops a retrigger's own value. Writers accept a non-terminal last element that readers refuse. A torn text file may load as a shorter sequence.
* Workflow. `wait_to_complete` reports a time-out when done came with the last poll. STOP stays set after an abort. Time-outs of the transmission and of the trigger clean nothing up. `-timeout` alone leaves the wait for the first
  read-back element unbounded. `ppfg -burst` drops return codes other than a time-out.
* Self tests. `pptest 20` with fewer than 11 elements never triggers and does not end, and its checker may stop early when it has caught up with a dry streamer; test 10 with `-repetitions 0` plays for ever against
  an empty reference, and with `-c 0 -sep` raises a false alarm; test 16 with fewer cycles than its maximal size never triggers; test 19 with `-check` always fails. The bounds check of the DMA sine test mixes elements and words (harmless, the writer checks itself).
* Clocks. The PLL presets are not held to the strict rules (`pll_rules.hh:29`). A PLL update cut short leaves counters that a later update applies. A process killed between hold and release leaves the fabric in reset until the next one.
  `-gate_time` accepts gates in which a fast clock overflows the 32-bit edge counter (42 s at 100 MHz), and `ppfreq` prints a wrong frequency.
* Time stamps. A failure of the control loop is noticed at the next stamp only. The limits of the GPSDO's PID are never set, so its anti-windup never acts and the integrator runs away while the DAC is clamped.
* Web interface. Restoring a source it does not manage cannot bring the previous clock back. The snapshot's trigger settings are untrue at start if an earlier program left lines set. `last_error` of one request may stand beside another's `last_action`.
* Servers. Nothing sets `exit_flag` (`pptool.cc:37`), so `-wait` ends by a signal only. DISCONNECT and TERMINATE drop queued replies. The SCPI error queue holds eleven entries. A Lua line that calls `trig()` in the server's thread
  races the main command: an unlocked read-modify-write of the internal trigger register.
* By design: trigger combiner inversion and masks and the dark mode outlast the program that set them. The last crossing of a latch pulse may land while a report reads; the sleep makes it land before.

## 6. Plan

Next: a proof of the restoring half of `PathsRestored`; of `ReportIsTrue` instrument by instrument; of `ReferenceMatches`, for which `ReferenceRuns` is the beginning. What could be added to the models: crosscorrelation; a `Workflow` composed with `StInterface` instead of the
streamer's promise, which is beyond TLC at useful bounds.

## 7. Not modelled

* Register reads of `st_interface.sv` and their snapshots: they change no state, and nothing decides by them beyond what the host modules read.
* In `run_post_execution_checks`, the comparison of the CRCs (`ppworkflow.hh:457`) and the input FIFO's overflow flag (`:443`): each only adds a bit of its own to the return code, so the
  RC_OK of the model is returned at least as often as the program's. And `-ignore_rb_error_if_crc_ok` (`:467`), which takes the check bit back when the CRCs agree: with it RC_OK no longer says that every run was compared, and `OkMeansPlayed` is about runs without it.
* `cdc_mailbox.sv` (instantiated by its test bench only), the activity monitor (status LEDs), `reset.sv`.
* Pin assignment and wiring (`pulsepins.sv`), vendor IP internals.
* Text: option parsing, formatting, HTTP and JSON syntax, the Lua interpreter, Python client, timeline and most bindings.
* Crosscorrelation and time counter, `ppmstest` as a whole, floating-point rounding.
* `doctest.h`, `ppwebgui_assets.cc` and `hps_0.h` are vendored or generated and hold no behaviour.
* The alternative `WEIRD_CLOCK` build of the read-back encoder is disabled in the source.
