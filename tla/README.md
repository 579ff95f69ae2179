# Verification of AdaptiveAudio

AdaptiveAudio is a Windows audio enhancer under construction: a capture worker
is to pull PCM frames from one endpoint, a render worker to play them on
another, with the logger, the configuration and the diagnostics kept off the
real-time threads. This directory holds TLA+ models of the parts whose
correctness depends on the order in which several threads run, or on failures
between two steps, the TLC runs that check them on small instances, and proofs
of their safety properties for every instance.

All paths below are relative to `src/src/` unless they start with `docs/`,
`tests/` or `tools/` (of `src/`).

## 1. Inventory of the system

| Component | Source | State | Operations | Interacts with |
| --- | --- | --- | --- | --- |
| PCM bridge `DynamicSpscRingBuffer` | `DspCore/include/.../dynamic_spsc_ring_buffer.h` | storage, two free-running 32-bit atomic indices, capacity, four metrics | `Initialize`, `Reset`, `TryWriteFrames`, `TryWriteSilentFrames`, `TryReadFrames`, `FilledFramesSnapshot` | capture worker (producer), render worker (consumer), orchestrator, monitors |
| Event queue `SpscRingBuffer` and `RealtimeEventSink` | `Foundation/include/.../spsc_ring_buffer.h`, `realtime_event.h` | 1024 slots, two masked atomic indices, two metrics | `TryPush`, `TryPop`, `TryPublish` | real-time worker (producer), logger's worker (consumer) |
| DSP control queue | `DspCore/include/.../spsc_ring_buffer.h`, `dsp_control.h` | the same, 4 slots | the same | coordinator and EQ processor, neither in the repository |
| `AsyncLogger` | `Foundation/src/async_logger.cpp` | flags and a bounded record queue under a mutex, a thread, a file, its size, six metrics | `Start`, `Stop`, `Log`, the worker loop | any thread that logs, the event queue, the file system |
| Capture worker `CaptureWorkerRun` | `AudioEngine/src/wasapi_capture_worker.cpp` | its place in the loop, the packet it holds, its MMCSS handle | wait, `GetNextPacketSize`, `GetBuffer`, push, report, `ReleaseBuffer`, exit | WASAPI, bridge, event sink, orchestrator |
| Render worker | `AudioEngine/include/.../wasapi_render_worker.h` | none: only declared | `RenderWorkerRun` (no body) | bridge |
| `AudioMeasurementAccumulator` | `tools/benchmarks/src/audio_measurements.cpp` | six atomic counters, observations under a mutex | `Record*` (callback), `Set*` (control), `Snapshot` (monitor) | callback, device thread, monitor |
| `PcmPassthroughProcessor` | `DspCore/src/passthrough_processor.cpp` | format, bound and a flag, none of them atomic; three metrics | `Configure`, `Process` | callback, control |
| Configuration | `Foundation/src/configuration.cpp` | none of its own; a file that others write | parse, validate, serialise, load | control, file system |
| Endpoint enumerator and its program | `AudioEngine/src/endpoint_enumerator.cpp`, `AudioEngine/src/main.cpp` | the list being built, what it has acquired from COM | `EnumerateActiveRenderEndpoints`, `wmain` | COM, console |
| Scaffolds | `AdaptiveAudio`, `AudioService`, `AIInference`, the other `main.cpp`s | one status field each | set, get | nothing yet |

What is hard, and what makes each part correct:

* **PCM bridge.** Two threads copy to and from plain memory without a lock.
  Each computes with its own index and a possibly stale copy of the other's,
  and both wrap at 2^32. Correct means: no slot is written while it is being
  read; accepted frames come out once and in order; a packet that does not fit
  is dropped whole and counted; the metrics add up.
* **Event queue.** The same with one sentinel slot. An event becomes visible
  before it is counted, so the two sides' counters can overtake each other.
* **Logger.** `Log` races with `Stop`; the worker decides to leave from a flag
  it read before it released the lock; two loops have no bound; writes may fail
  half way; `Start` may throw with the file open, or fail to create the thread
  after everything says it runs; the file limit must hold across restarts.
  Correct means: every accepted record is written or counted, none is left
  behind by a worker that ends, a file known to be full gets nothing more,
  `Stop` returns.
* **Capture worker.** Any WASAPI call may fail or find the device gone,
  between any two steps; the ring may refuse a packet that WASAPI expects back;
  shutdown may come at any time. Correct means: `GetBuffer` and
  `ReleaseBuffer` balance, MMCSS is reverted, overflows are reported, shutdown
  and loss end the thread, and the orchestrator learns of a loss.
* **Passthrough.** `Process` reads the flag and the bound, and the format only
  when it copies; `Configure` assigns all three as plain memory. Correct means:
  a call that no `Configure` overlaps copies whole frames of the last accepted
  configuration, within its bound, whatever was refused before.
* **Measurements.** A snapshot loads six counters one after the other, while
  the callback updates three of them one after the other. It cannot be of one
  instant; correct means that it is off by one callback at most, and that
  what is set under the mutex is never mixed.
* **Configuration.** The size of the file is checked before it is opened, it
  may change in between and while it is read, text mode ends it at a byte 0x1A,
  and a read that fails looks like the end of the file. Correct means: a document
  is taken whole or not at all, the last assignment to a key wins, the first wrong line is the one that
  is reported, and what was accepted can be saved and loaded again.
* **Endpoint enumerator.** Any of its COM calls may fail for any device, with
  up to six acquisitions outstanding, and so may the stream the list is printed
  to. Correct means: no incomplete list is taken for the result, no entry has data
  of two devices, everything is released before COM is.

`PROJECT.json` lists the hazards one by one, with the line where each bites and
the properties that cover it.

## 2. The modules

```
FrameFifo  <-refines-  DynamicSpscRingBuffer  <-extends-  RingSnapshots, RingMonitor
EventQueue <-refines-  RealtimeEventQueue
    ^ instance
AsyncLogger, CaptureWorker

PassthroughProcessor, AudioMeasurements  <-extends-  AudioCallback

Configuration          EndpointEnumerator
```

A module `XProofs` extends `X` and holds its theorems
(`DynamicSpscRingBufferProofs` those of `RingSnapshots` too);
`ModularArithmetic` has the lemmas about `%` that three of them share.
Each `MC...` module gives a specification its values for TLC.

### FrameFifo, DynamicSpscRingBuffer

`FrameFifo` says what the bridge promises: `Open`, `Accept` a packet whole,
`Refuse` it whole, `Deliver` the oldest frames, `Discard` everything. A packet may
be refused only if it does not fit into the space the capture side has noticed:
what was delivered is `hidden` from it until it looks (`Notice`, `Refuse`), and
what it has noticed once it does not forget.

`DynamicSpscRingBuffer` is the code. Each call is split at every access to
shared memory, so that the other side can run in between:

| Call | Steps |
| --- | --- |
| `TryWriteFrames`, `TryWriteSilentFrames` | `TryWriteFrames(n, silent)` (load of `read_index_`, the test, a refusal), `CopyToEnd`, `CopyWrapped`, `PublishWrite`, `CountWritten` |
| `TryReadFrames` | `TryReadFrames(n)` (load of `write_index_`, the test), `ReadToEnd`, `ReadWrapped`, `PublishRead`, `CountRead` |
| `Initialize`, `Reset` | one step each, while neither worker is in a call (the header's precondition) |

* Memory order. An acquire load of the other side's index may return any value
  that index has had since the one this thread last saw (`Visible`): stale,
  but never going backwards. A release store publishes the copies before it,
  which is why the copy steps read and write `storage` directly.
* A frame is the number of its capture, so every frame is different; a silent
  frame is 0. The model's unit is a frame, not a byte: all of the code's
  offsets are multiples of `bytes_per_frame_`.
* Indices have `IndexBits` bits, 32 in the code. The 64-bit metrics are plain
  numbers: `MaxFrames` bounds them in TLC, and the proofs put no bound on them.
* A call with no frames returns at once and is no step. `underflow_count` is
  incremented by the render worker, which is not in the repository.
* `discarded` and `captured` are history: frames dropped by `Reset`, frames offered.

### RingSnapshots, RingMonitor

Who calls `FilledFramesSnapshot` is not in the repository; it is a public const
method. Both of its loads are relaxed: each may give any value its index has had
since the caller last saw it, and no order between the two indices is promised.

`RingSnapshots` lets both workers call it between their own calls. Each of them
knows its own index, so that only the other one can be stale. `p_free` and `c_seen`
are history: what the worker was last told, until it writes or reads itself.

`RingMonitor` has a third thread instead, for which both indices may be stale,
independently of each other. That is one step: whatever happens between the two
loads, the values are in `Visible` when the call returns. It shows finding 1.

### EventQueue, RealtimeEventQueue

`EventQueue` is a bounded FIFO. `RealtimeEventQueue` is `SpscRingBuffer` under
`RealtimeEventSink::TryPublish` on the one side and the loop of
`DrainRealtimeEvents` on the other, split in the same way. It is checked with
4 slots, which is the real size of DspCore's control queue. That queue's code
is the same text in another namespace.

### AsyncLogger

One control thread (`Start`, and `Stop` in its three stages), any number of
`Log` callers (the severity check outside the lock, then the critical section),
and the worker: `Wake`, `TakeNext`, `WriteTaken`, `DrainEvent`, `WriteEvent`,
`EndDrain`. A critical section is one step; so is each access outside one.

* A record is only counted. The filter by severity is the choice of taking
  `PassSeverityCheck` or not. `MakeRecord` truncates a message: not modelled.
* `WriteRecord` has five outcomes: file closed, limit reached, a failure counted
  with nothing written (the line cannot be made, or the stream has failed before),
  this write fails after any part of the line, it succeeds. `ofstream`'s failure is
  sticky, `open` clears it, and fails the stream if it is open already.
* `Start` refuses a configuration with a limit of 0 (`IsConfigurationValid`). It may
  throw while it copies the configuration, which leaves the file open and nothing
  else done, and in the thread constructor, after all its assignments.
* `ExistingSize` is the size `Start` goes on from. `tellp` answers -1 of a failed
  stream, and may of a good one; both count as 0. `unmeasured` is history: the size
  such a file had. `MaxUnmeasured` bounds it for TLC.
* `StartFindsNoThread` is the protocol between `Start` and `Stop`: an admitted
  `Start` never assigns over a joinable thread, which would end the process. It
  needs what the model has and the class does not enforce: one thread calls both.
* The event queue is `EventQueue`, which `RealtimeEventQueue` implements.
  No event is lost in `AsyncLogger` other than by a full queue.
* That the file is never closed under the worker's hands is a consequence, not
  an assumption: the model has the branch, and `RecordsConserved` would fail
  if it were ever taken.

### CaptureWorker

One step per call into WASAPI, the ring or the sink; `worker` says which call is
next. The ring is its fill level and overflow counter, and it may refuse a packet that
fits, as the ring does when the producer's copy of the read index is stale. The
environment is the device (produces packets, discards them when its buffer is
full, is lost at any time), the renderer, the logger's worker, and an
orchestrator that sets the shutdown event. Every call may fail with any
HRESULT; a lost device invalidates every call. `held`, `overruns`,
`recovery_requested` and `call_failed` are history.

### PassthroughProcessor, AudioMeasurements, AudioCallback

`PassthroughProcessor`: `Configure` is its checks, `Assign` one of its three
assignments, in any order (they are plain memory, and a reader on another
thread is promised none). `Process` is the test of flag and bound, `Copy` the
multiplication by the format it finds then, `CountFrames` the metric. A refused
`Configure` changes nothing and is no step. `agreed` (the last configuration
whose assignments are complete) and `overlapped` are history. What an
overlapped call copies is undefined in the code, and nothing is claimed of it.
Sizes wrap at `SizeBits`; a 16-bit frame size times a 32-bit count fits into
64 bits (`SizeAssumption`), so that the wrap, and the refusal of a size above
half of `size_t`, never happen.

`AudioMeasurements`: `RecordCallbackDuration` is `CountCallback`, `AddDuration`
and `StoreWorstDuration`, one atomic access (or the load and store of a maximum
with one writer) each. A setter holds the mutex from `SetObservation` to
`EndSet`. `Snapshot` is `CopyObservations` under the mutex, then `LoadCounter`
for each counter in the order of the code (`Loads`), and `Return`. `after` is
history: what the counters should be after each number of callbacks. An
observation is a pair of numbers of the sample its two values came from. A relaxed
load returns the current value, as on x64, which the build is for.

`AudioCallback` composes them: one callback thread that makes one call at a
time into either, one control thread, a monitor that shares nothing with them
but the measurements.

### Configuration

`Parse` is `ParseConfiguration`: `Parsed` is a recursive function over the number
of lines read, `ParseLine` one turn of the code's loop, and its state is the
loop's: the configuration so far, whether the schema was seen, the first error. `Meaning` says the same without a loop and is what it
is checked against. `Accepts`, `ValueOf` and `Assign` are the branches for the keys.
A line is a record of key and value; `Trimmed` and `Numbers` say what trimming and
`from_chars` make of the values that occur. `LoadConfigurationFromFile` is
`CheckSize`, `Open`, one `ReadLine` per line, `EndRead`, `ParseText`, and `Fail`
in any of them; `Edit` is another program that appends a line, or removes, cuts or
completes the last one meanwhile. Size is counted in lines.

* Text mode: a line in `ControlZ` has the byte 0x1A in it. It reads as what is
  before that byte (`AsRead`), and is the last one read (`GoesOn`).
* A reading may end inside a line, because a read fails there or because the line is
  cut in the file: `Beginnings` are the lines it may then be taken for. When the file
  goes on after such a line, `ReadRest` reads the rest of it.
* `version` (the file when the reading ended) and `disturbed` (a read failed, or a
  line that was there was changed) are history.
* Not modelled: a single line put together from bytes of two versions of it.

### EndpointEnumerator

One action per COM call (the count is taken with the collection), in the order
of the code; `Fails` is a failure, or an exception, of whichever call or allocation
is next (`MayFail`). What is read of a device is the device itself, so that an entry
with fields of two devices would show. `held` is what the function owns: `Leave`
stands for the destructors at every return. The `PROPVARIANT` of `ReadFriendlyName`
has none: `"name"` stays in `held` when the copy between `GetValue` and
`PropVariantClear` throws. `wmain` is `CoInitializeEx`, `CoUninitialize`, one
`PrintEndpoint` per entry and `Return` around it; `wcout` may fail at any entry, for
this one and all that follow.

## 3. The runs

| Run | Question | Bounds | Result |
| --- | --- | --- | --- |
| `ring` | `TypeOK`, `WindowOrdered`, `NoDataRace`, `MetricsAccount`, `SnapshotsAreSafe`, refinement of `FrameFifo`, `WorkersCanRely` | capacities 1, 2, 3 asked for (2 is accepted), 2-bit indices, calls of 0 to 3 frames, 6 frames offered | holds, 0.2 million states |
| `snapshot_range` | `SnapshotWithinCapacity` | the same, 4 frames offered | **violated** (finding 1) |
| `event_queue` | `TypeOK`, `NoSlotRace`, `CountersAgree`, refinement of `EventQueue` | 4 slots, 2 events, 2-bit counters that wrap | holds |
| `logger` | `TypeOK`, `RecordsConserved`, `DrainedWhenDone`, `StartFindsNoThread`, `AppendsOnlyBelowLimit`, `StopReturns`, `PendingIsTaken` | 2 loggers, 3 configurations (one invalid), queue of 1 or 2 records, a limit of 2 with lines of 1 or 2, files of up to 1 that are not measured, 1 event, 1-bit counters | holds, 0.46 million states |
| `logger_drain` | `PeriodicDrain` | 1 logger | **violated** (finding 2) |
| `capture` | `TypeOK`, `ResourcesReturned`, `OverrunsReported`, `ShutdownWins`, `ShutdownExits`, `LossExits` | ring of 4, packets of 1 and 3, 2 packets in the device, 2 events, 1-bit counters | holds |
| `capture_failure` | `AnyFailureExits` | the same | **violated** (finding 3) |
| `capture_recovery` | `RecoveryRequested` | the same | **violated** (finding 4) |
| `callback` | `TypeOK`, `CopiesAgreedFrames`, `SnapshotCoversCount`, `SameInterval` | 2 supported formats and one that is not, bounds and calls of 0 to 2 frames, sizes of 5 bits, durations 1 and 2, 4 calls of callback and control | holds, 1.8 million states |
| `configuration` | `TypeOK`, `ParsesToMeaning`, `LoadsWholeFile`, `RoundTrip` | every document of up to 3 lines of 15 kinds, a limit of 2, 2 edits | holds, 0.75 million states |
| `configuration_partial` | `AllOrNothing` | the same, no edits, no byte 0x1A | **violated** (finding 5) |
| `endpoints` | `TypeOK`, `PrintsCollection`, `EntriesOfOneDevice`, `ReleasedInApartment` | up to 3 devices in any order, one with an extensible format | holds |

Why the bounds are enough. In the ring everything depends on differences of
indices and on where a packet lies relative to the end of the storage and to
the wrap of the indices: six frames go once round 2-bit indices and three
times round the storage of 2, so that the wrap is met in the middle of packets
and between them, with the ring empty, half full and full. A packet that wraps
with whole frames on both sides needs a ring of 4, and is left to the proofs,
which are for every size. A staler copy than one full ring is not possible (`WindowOrdered`). Four slots of the event queue have every
relation of the two indices and their copies: empty, full, apparently full. In
the logger and the capture worker the queues are there to be empty, partly full
and full, and counters to be compared with each other: 1 bit shows that two of
them differ by one, which is all that one step can do. In the callback, two
operations of either thread are what it takes to have an old value, a new one
and a step in between; four leave room for a configuration, a second one, and
calls on both sides of it. In the logger a limit of two with lines of one and two
has files below, at and beyond it, and a file of one that is not measured grows beyond
the limit as well. A parser keeps three facts from line to line; within three lines
each can be set, then set again or followed by an error. One line more than
the limit shows a file that grows past it. A third device shows an
entry with a predecessor and a successor.

Deadlock is checked everywhere but in the three capture runs, the two of the
configuration and `endpoints`: there the worker returns, the load is done or the program
ends, and the model may have nothing left to do. (`ring`, `event_queue`, the logger and
`callback` never end: a snapshot or the environment can always take a step.)

### Fairness

* `AsyncLogger!Fairness`: weak fairness of the worker (an OS thread that waits
  with a time-out, so that it is always enabled again) and of the stages of a `Stop`
  that has begun. Nobody is obliged to call `Start`, `Stop` or `Log` or to publish.
* `StopReturns` and `PendingIsTaken` hold under `EventsStop`: the real-time
  threads publish only finitely often. Without it the loop over the events
  need not end; the code has no bound there, and the condition says so.
* `CaptureWorker!FairSpec`: weak fairness of the worker's own steps, without
  the failing wait, on which nothing may rely. `ShutdownExits` holds under
  `DeviceRests`: the inner loop does not look at the shutdown event, so that
  a device that refills faster than it is drained could keep it there.
  `LossExits` needs no such condition.

### Findings

1. **A snapshot can be larger than the ring** (`dynamic_spsc_ring_buffer.h:226-229`).
   When the consumer has read past the write index that was loaded, the unsigned
   difference wraps to about 2^32: if it did so between the two loads, or if the
   first load, which is relaxed, gave an old value. `ring` shows that this cannot
   happen to the two workers themselves.
2. **A busy logger starves the real-time events** (`async_logger.cpp:168`).
   The loop over the records is re-tested after each one and has no bound,
   against the comment that the events are drained periodically.
3. **An unexpected failure is ignored** (`wasapi_capture_worker.cpp:116`).
   `GetNextPacketSize` failing is taken for "no more packets", while the enum
   has `kUnexpectedError` for it and the other two calls use it.
4. **A loss noticed by `ReleaseBuffer` is not published**
   (`wasapi_capture_worker.cpp:170`): the only exit for device loss without
   `DeviceRecoveryRequested`. The return value still names the reason.
5. **A configuration can be loaded in part** (`configuration.cpp:142-145`). A read
   that fails ends `buf << file.rdbuf()` without failing `file`, so that the test
   after it does not see it. If the schema line came before, the load succeeds,
   against "A configuration update is all-or-nothing" (`ENGINEERING.md:121`).
   `configuration` shows what holds as long as no read fails.

Seen while modelling and not the subject of a run:

* When `std::thread` throws (`async_logger.cpp:80`), `accepting_records_` stays true:
  the logger says that it runs, accepts records and refuses another `Start`
  ("already running", line 50) with no worker to write them, until a `Stop`. The next
  worker finds them (`RecordsConserved`); `DrainedWhenDone` says nothing of
  a logger that never had a worker.
* When the copy of the configuration throws (`async_logger.cpp:75`), the file stays
  open. `Stop` does nothing then, and the next `Start` opens an open stream, which
  fails it: every record until the `Stop` after that is a counted write failure.
* A `tellp` that fails on a good stream (`async_logger.cpp:69-73`) makes `Start` take the
  file for empty, against "so we respect the byte limit across restarts" (line 67).
  `AppendsOnlyBelowLimit` says by how much the limit can then be exceeded.
* The last line written may end beyond the file limit, by less than a line
  (`AppendsOnlyBelowLimit` states what does hold).
* `ValidateConfiguration` is called by no other function of `src/src/`: a file with an empty
  `log_directory` loads (`RoundTrip` states that this is all it would refuse).
* The configuration file is opened in text mode (`configuration.cpp:136`): a byte 0x1A
  ends it silently, and with the schema line before it the load succeeds.
  `LoadsWholeFile` is about the text up to that byte.
* When the copy of a device's name throws (`endpoint_enumerator.cpp:27`),
  `PropVariantClear` is skipped and the name leaks. The enumeration fails then.
* Nobody looks at `wcout` (`main.cpp:16-23`, `51-54`): after a name that it cannot
  convert, say, the rest of the list is missing and the exit code is 0.
* After a failure, `EnumerateActiveRenderEndpoints` leaves the entries so far in
  the caller's vector. Its only caller does not look at them.

## 4. The proofs

Seven modules prove, with TLAPS, every safety invariant, every safety action
property and both refinements that the passing runs check. The theorems are for
every value of the constants, in particular for 32-bit indices and rings and queues
of the real size. Each module has one inductive invariant, `IInv`, a theorem
`Invariance == Spec => []IInv`, and the properties as its consequences; each
`IInv` was also model-checked on the instance of the run, so that no theorem rests
on an invariant that no state satisfies. `TypeCorrect` (`Spec => []TypeOK`) is in
each of the seven and left out below.

| Module | Theorem | Statement |
| --- | --- | --- |
| `DynamicSpscRingBufferProofs` | `WindowAlwaysOrdered` | `Spec => []WindowOrdered` |
| | `RaceFree` | `Spec => []NoDataRace` |
| | `MetricsAlwaysAccount` | `Spec => []MetricsAccount` |
| | `ContentsInvariance` | `Spec => []ContentsInv` |
| | `Refines` | `Spec => ImplementsFifo` |
| | `SnapshotsAlwaysSafe` | `SpecSnapshots => []SnapshotsAreSafe` |
| | `WorkersCanAlwaysRely` | `SpecSnapshots => WorkersCanRely` |
| `RealtimeEventQueueProofs` | `RaceFree` | `Spec => []NoSlotRace` |
| | `CountersAlwaysAgree` | `Spec => []CountersAgree` |
| | `Refines` | `Spec => ImplementsQueue` |
| `AsyncLoggerProofs` | `AlwaysConserved` | `Spec => []RecordsConserved` |
| | `AlwaysDrained` | `Spec => []DrainedWhenDone` |
| | `StartAlwaysFindsNoThread` | `Spec => []StartFindsNoThread` |
| | `NeverAppendsBeyondLimit` | `Spec => AppendsOnlyBelowLimit` |
| `CaptureWorkerProofs` | `AlwaysReturnsResources` | `Spec => []ResourcesReturned` |
| | `AlwaysReportsOverruns` | `Spec => []OverrunsReported` |
| | `ShutdownAlwaysWins` | `Spec => ShutdownWins` |
| `AudioCallbackProofs` | `CopiesOnlyAgreedFrames` | `Spec => []CopiesAgreedFrames` |
| | `SnapshotAlwaysCovers` | `Spec => []SnapshotCoversCount` |
| | `AlwaysSameInterval` | `Spec => []SameInterval` |
| `ConfigurationProofs` | `ParseIsMeaning` | `Parse(lines) = Meaning(lines)` for every sequence of lines |
| | `SavedIsRead` | `Parse(SerializeConfiguration(c)) = Success(c)` |
| | `AlwaysParsesToMeaning` | `Spec => []ParsesToMeaning` |
| | `AlwaysLoadsWholeFile` | `Spec => []LoadsWholeFile` |
| | `AlwaysRoundTrips` | `Spec => []RoundTrip` |
| `EndpointEnumeratorProofs` | `AlwaysPrintsCollection` | `Spec => []PrintsCollection` |
| | `EntriesNeverMix` | `Spec => []EntriesOfOneDevice` |
| | `AlwaysReleasedInApartment` | `Spec => []ReleasedInApartment` |

### The ring

`NoDataRace` and `MetricsAccount` are not inductive: whether a claimed slot is free
depends on how old the producer's copy of the read index is. The invariant
that carries them is `IInv`: the types, `Initialized` (nothing moves before a
valid capacity is set) and `WindowOrdered`, which puts the four indices in one
order,

    p_read  <=  read_index (+ taken)  <=  c_write  <=  write_index (+ claimed)  <=  p_read + capacity

as distances from the oldest of them, `p_read`, modulo the index range. Each
load moves a copy within its own gap, each store moves an index into the
gap it has claimed, and a claim is admitted only if it fits: one step
of the proof per action. `RaceFree` follows by arithmetic: a slot claimed and
a slot taken are less than a capacity apart and not equal as indices, so they
are different slots (`WrappedSlotsDiffer`).

`Refines` needs what is in the storage as well. `ContentsInv` adds that the part
of its packet the producer has copied is in the slots ahead of the write index, and
that what the consumer has copied are the oldest unread frames. The slots that
the two sides touch differ (`ClaimedIsFree`), so that neither disturbs the other's
half; `CopyFills` is the lemma that two copies, before and after the end of the
storage, put a packet where its indices say. A step then maps to `Accept`
(`PublishAccepts`), `Deliver` (`PublishDelivers`), `Refuse`, `Open` or `Discard`,
and every other step leaves the queue of `FrameFifo` as it is.

`hidden` is mapped to `read_index - p_read`, the frames between the two copies of the
read index: a refusal then states how little space the producer saw.

The run checks the ring with the snapshots of its workers in between, under
`SpecSnapshots`; the theorems above are about `Spec`, the ring alone. `SnapshotInv`
contains `IInv` and ties what a worker was told to the window: `c_seen` frames lie
between the read index and the consumer's copy of the write index, `p_free` between
the write index and the end of the producer's window. The other side can only move
away from either, which is why `SnapshotsAreSafe` and `WorkersCanRely` last.

### The event queue

The same window, with masked indices and one slot always free: `WindowOrdered`
ends in `< SlotCount`. `InHand` says what each side holds of the slot it works
on, and `Written` that every slot in the window has an event, which is what makes the
consumer's hands part of `TypeOK`. The counters are a ledger modulo their width: `CountersAgree` is carried
through each increment by `AddToCongruent` and `ModOfSum`. The refinement makes
`EventQueue`, which the logger and the capture worker are modelled with, more than
a convenient assumption.

### The logger

`RecordsConserved` fails as an induction hypothesis at every restart unless `Start`
finds no worker that still holds a record, so that `IInv` contains
`StartFindsNoThread`, and this in turn needs `Lifecycle`: which combinations of
`accepting_records_`, `stop_requested_`, the local `stopping`, the thread and the
file occur. `NothingPending` is the heart of `DrainedWhenDone`: a worker that has seen
the stop and found the queue empty can rely on it for the rest of its life,
because `Log` is refused by then. `AppendsOnlyBelowLimit` needs `SizeKnown`: as
long as the stream has not failed, what the code has counted and what it could not
measure is what is in the file; the stream's sticky failure is what saves it
afterwards.

### The capture worker

`PacketBuffered` is what the ledgers lack: a packet is asked for and held only
while the device has it, so that `ReleaseBuffer` removes one that is there. The
rest is the balance over each exit, one step of the proof per call and outcome.

### The callback

`ProcessorInv` says which fields have the requested value (`AssignedSoFar`) and that an
admitted call which nothing overlaps is within a bound that is completely assigned
(`AdmittedFits`). `MeasurementsInv` ties the counters to `after`, the history of what
is due: by how far the callback has come, total and maximum are those of the last
callback or the one before (`CountersDue`), and the history only grows (`Grows`).
The snapshot loads the count first; whatever it loads later is of a later time,
hence covers that many callbacks but the last.

### The configuration

The parser is a recursive function, and what it computes is proved by induction over
the lines. The induction theorems of the library take a predicate as a parameter,
which the provers cannot instantiate. A set can be: `SetInduction` says that a set
that contains 0, and with each number the next one, contains all of them. It is proved
from the least number of its complement, which exists because `<` is well-founded on
`Nat`; `BoundedInduction` is the same up to a bound. That the function satisfies its
equation (`ParsedEquation`) is proved in the same way. `KnowsPrefix` is the loop
invariant: up to the first wrong line, each field has the value of its last assignment.
`ParseIsMeaning` is its last case. `SavedIsRead` follows the six lines the serialiser
writes, and needs that their texts are not changed by trimming.

`IInv` of the loader says that what was read of an undisturbed file are its first
lines, none of which ends the text, and after the reading the whole text of the
version that was read (`ReadSoFar`, `IsLoaded`), and that the answer belongs to the
text (`AnswersText`). Lines that are added keep both true, since they come behind what
was read. With the two theorems about the parser, the three properties follow.

### The enumerator

`EntriesInOrder` is the loop invariant (the entries so far are the first devices, in
order), `EntryInProgress` and `HeldByCall` say by how far the calls have come which
fields are read and what is owned, `Progress` ties them to `main` and `com`, and
`PrintedSoFar` is the loop of the program that prints.

### Assumptions

TLC evaluates all of them in the runs.

* `IndexBits`, `CounterBits` and `SizeBits` give moduli of at least 1 (the provers know
  nothing of powers), and a power-of-two capacity divides the index modulus and is at
  most half of it: facts of arithmetic.
* Call lengths, packet sizes, limits and bounds are naturals, a ring of the capture
  worker and a line of the logger are not empty, an event queue has 2 slots or more.
* `SizeAssumption`: a frame size times a frame count fits into `size_t`.
* `Beginnings` and `ControlZ` give lines for lines, and no line is a beginning of itself.
* `DevicesAssumption`: there are finitely many devices, and no device is `None`.
  `MeasurementsAssumption`: no observation is called `"none"`.
* `TrimAssumption`: trimming is idempotent (`TrimmedStays`), and leaves alone the
  words of the format and the texts of numbers, which have no white space around them.

`SavedIsRead` has one hypothesis more, that the schema version has a text at all; in
`AlwaysRoundTrips` it follows from the accepted document, which contained one.

### Model-checked only

* The liveness properties `StopReturns`, `PendingIsTaken`, `ShutdownExits` and
  `LossExits`: fairness and `ENABLED` are out of the prover's reach.
* The five violations, which are counterexamples of small instances.

## 5. Not modelled, and the plan

Not modelled:

* the render worker, of which there is only a declaration (the ring's reader is
  `TryReadFrames`, with any pattern of calls);
* the coordinator and the EQ processor at the ends of the DSP control queue,
  which are not in the repository (the queue itself is the event queue's code);
* `Controller`, `PerUserAudioHost`, `InferenceRuntime` and the remaining
  command-line programs, which have no behaviour over time;
* `Start` and `Stop` of one logger from several threads: the class does not
  support it, and joining or assigning one `std::thread` from two threads has no
  defined outcome to model;
* the unlocked read of the minimum severity in `Log` (`async_logger.cpp:104`): a record
  may be filtered by the old or the new severity, which is the model's choice
  to filter any record; no other state depends on it;
* a call of `Process` that a `Configure` overlaps, which is a data race on plain memory:
  it runs in the model, but nothing is claimed of what it copies;
* a configuration line read in pieces of which each is from another version of it;
* text formatting, timestamps and truncation; COM and WASAPI beyond what their
  calls may return.

Every safety property of the passing runs is proved. What could be added: the render
worker, the coordinator and the EQ processor once the repository has them (the
ring and the queue they will use are ready to be composed with), and the
scaffolds when they get behaviour.

## 6. Running

    tlc -config ring.cfg MCRingSnapshots
    tlc -config event_queue.cfg MCRealtimeEventQueue
    tlc -config logger.cfg MCAsyncLogger
    tlc -config capture.cfg CaptureWorker
    tlc -config callback.cfg MCAudioCallback
    tlc -config configuration.cfg MCConfiguration
    tlc -config endpoints.cfg MCEndpointEnumerator
    tlapm DynamicSpscRingBufferProofs.tla

and so on for the other `...Proofs.tla` and `ModularArithmetic.tla`.

Definitions that end in `_Something` next to a definition of the same name
(`FreeFrames_OffByOne`) are faulty variants: each replaces the definition it
follows to show that a property would notice.
