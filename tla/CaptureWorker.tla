---------------------------- MODULE CaptureWorker ----------------------------
(***************************************************************************)
(* CaptureWorkerRun: the real-time thread that waits for the shutdown      *)
(* event and the WASAPI capture event, pulls packets from the capture      *)
(* client and pushes them into the PCM ring, and reports through the       *)
(* real-time event sink.                                                   *)
(*                                                                         *)
(* One step per call into WASAPI, the ring or the sink.  The ring is its   *)
(* fill level (DynamicSpscRingBuffer models what is in it); the event      *)
(* queue is EventQueue.  The device, the render side, the logger and the   *)
(* orchestration thread are the environment.                               *)
(***************************************************************************)
EXTENDS Integers, Sequences

CONSTANTS
  RingCapacity,   \* capacity_frames of config.ring
  PacketSizes,    \* the frames GetBuffer may hand over
  DevicePackets,  \* how many packets the device buffers
  CounterBits,    \* width of the counters: 64 in the code
  EventCapacity   \* how many events the real-time queue holds

ASSUME RingAssumption == RingCapacity \in Nat \ {0}
ASSUME PacketAssumption ==
  PacketSizes \subseteq Nat /\ DevicePackets \in Nat \ {0}
ASSUME TelemetryAssumption ==
  /\ EventCapacity \in Nat
  /\ CounterBits \in Nat /\ 2 ^ CounterBits \in Nat \ {0}

Events == {"OutputOverrun", "DeviceRecoveryRequested"}
ExitReasons == {"kShutdownRequested", "kDeviceInvalidated", "kUnexpectedError"}

VARIABLES
  worker,        \* the call the worker makes next, "done" when it returned
  mmcss,         \* mmcss_handle is not null
  exit_reason,
  frames,        \* frames_to_read of the packet it holds
  silent,        \* is_silent of that packet
  held,          \* history: GetBuffer succeeded, ReleaseBuffer not called yet
  shutdown,      \* the shutdown event is set
  wasapi_event,  \* the (auto-reset) capture event is set
  packets,       \* packets the device has buffered
  device_lost,   \* every call returns AUDCLNT_E_DEVICE_INVALIDATED
  filled,        \* frames in the ring
  overflow_count,    \* ring_metrics->overflow_count
  has_sink,      \* config.event_sink is not null
  event_queue, received,   \* the real-time event queue
  overruns,      \* history: OutputOverrun events given to the sink
  recovery_requested,  \* history: DeviceRecoveryRequested was given to it
  call_failed    \* history: an HRESULT failed, but not as invalidated

Sink == INSTANCE EventQueue WITH queue <- event_queue, Capacity <- EventCapacity

local == <<mmcss, exit_reason>>
packet == <<frames, silent, held>>
signals == <<shutdown, wasapi_event>>
device == <<packets, device_lost>>
ring == <<filled, overflow_count>>
telemetry == <<event_queue, received, overruns, recovery_requested>>
vars == <<worker, local, packet, signals, device, ring, has_sink, telemetry,
          call_failed>>

Increment(counter) == (counter + 1) % 2 ^ CounterBits

\* AvSetMmThreadCharacteristicsW may fail; the worker goes on without.
Init ==
  /\ worker = "wait"
  /\ mmcss \in BOOLEAN /\ exit_reason = "kShutdownRequested"
  /\ frames = 0 /\ silent = FALSE /\ held = FALSE
  /\ shutdown = FALSE /\ wasapi_event = FALSE
  /\ packets = 0 /\ device_lost = FALSE
  /\ filled = 0 /\ overflow_count = 0
  /\ has_sink \in BOOLEAN /\ Sink!Init
  /\ overruns = 0 /\ recovery_requested = FALSE
  /\ call_failed = FALSE

-----------------------------------------------------------------------------
(* The outer loop. *)

Exit(reason) == worker' = "revert" /\ exit_reason' = reason

\* Faulty variant: the handles are in the other order.
Wait_EventFirst ==
  /\ worker = "wait"
  /\ \/ /\ wasapi_event
        /\ worker' = "next" /\ wasapi_event' = FALSE
        /\ UNCHANGED exit_reason
     \/ /\ shutdown /\ ~wasapi_event
        /\ Exit("kShutdownRequested")
        /\ UNCHANGED wasapi_event
  /\ UNCHANGED <<mmcss, packet, shutdown, device, ring, has_sink, telemetry,
                 call_failed>>

\* Faulty variant: the shutdown event is not among the handles.
Wait_NoShutdown ==
  /\ worker = "wait"
  /\ wasapi_event
  /\ worker' = "next" /\ wasapi_event' = FALSE
  /\ UNCHANGED <<local, packet, shutdown, device, ring, has_sink, telemetry,
                 call_failed>>

\* WaitForMultipleObjects names the first handle that is set.
Wait ==
  /\ worker = "wait"
  /\ \/ /\ shutdown
        /\ Exit("kShutdownRequested")
        /\ UNCHANGED wasapi_event
     \/ /\ ~shutdown /\ wasapi_event
        /\ worker' = "next" /\ wasapi_event' = FALSE
        /\ UNCHANGED exit_reason
  /\ UNCHANGED <<mmcss, packet, shutdown, device, ring, has_sink, telemetry,
                 call_failed>>

\* The wait itself may fail, set handles or not.
WaitFails ==
  /\ worker = "wait"
  /\ Exit("kUnexpectedError")
  /\ UNCHANGED <<mmcss, packet, signals, device, ring, has_sink, telemetry,
                 call_failed>>

-----------------------------------------------------------------------------
(* The inner loop, one packet after the other. *)

\* What a call returns: a lost device invalidates every call, any other
\* failure can come at any time.
Results == IF device_lost THEN {"invalidated"} ELSE {"ok", "failed"}

\* TryPublishEvent(e): nothing without a sink, and an event is dropped when
\* the queue is full or, to a stale producer, looks full.
TryPublish(e) ==
  /\ IF has_sink THEN Sink!Push(e) \/ UNCHANGED <<event_queue, received>>
                 ELSE UNCHANGED <<event_queue, received>>
  /\ overruns' = IF has_sink /\ e = "OutputOverrun"
                 THEN Increment(overruns) ELSE overruns
  /\ recovery_requested' =
       (recovery_requested \/ (has_sink /\ e = "DeviceRecoveryRequested"))

ExitInvalidated ==
  TryPublish("DeviceRecoveryRequested") /\ Exit("kDeviceInvalidated")

\* Faulty variant: an invalidated device is taken for an empty one.
NextPacket_NotRecognised(hr) ==
  /\ worker' = IF hr = "ok" /\ packets > 0 THEN "get" ELSE "wait"
  /\ UNCHANGED <<exit_reason, telemetry>>

\* No packet, and any failure but AUDCLNT_E_DEVICE_INVALIDATED: back to the
\* outer loop.
NextPacket(hr) ==
  \/ hr = "invalidated" /\ ExitInvalidated
  \/ /\ hr # "invalidated"
     /\ worker' = IF hr = "ok" /\ packets > 0 THEN "get" ELSE "wait"
     /\ UNCHANGED <<exit_reason, telemetry>>

GetNextPacketSize ==
  /\ worker = "next"
  /\ \E hr \in Results :
       NextPacket(hr) /\ call_failed' = (call_failed \/ hr = "failed")
  /\ UNCHANGED <<mmcss, packet, signals, device, ring, has_sink>>

\* A success may hand over no frames, when the device turns out to have none
\* (AUDCLNT_S_BUFFER_EMPTY).
GetBuffer ==
  /\ worker = "get"
  /\ \E hr \in Results :
       /\ call_failed' = (call_failed \/ hr = "failed")
       /\ \/ hr = "invalidated" /\ ExitInvalidated /\ UNCHANGED <<packet, packets>>
          \/ /\ hr = "failed" /\ Exit("kUnexpectedError")
             /\ UNCHANGED <<packet, packets, telemetry>>
          \/ /\ hr = "ok"
             /\ frames' \in PacketSizes \cup {0} /\ silent' \in BOOLEAN
             /\ packets' = IF frames' = 0 THEN 0 ELSE packets
             /\ held' = TRUE
             /\ worker' = "push"
             /\ UNCHANGED <<exit_reason, telemetry>>
  /\ UNCHANGED <<mmcss, signals, device_lost, ring, has_sink>>

\* Faulty variant: the ring takes a packet that does not fit.
Fits_Always == TRUE
Fits == filled + frames <= RingCapacity

\* Faulty variant: a silent packet that is dropped is not reported.
AfterDrop_Silent == IF silent THEN "release" ELSE "report"
AfterDrop == "report"

\* TryWriteFrames or TryWriteSilentFrames: no frames are always written; a
\* packet may be refused although it fits, by a producer that has not seen
\* the latest reads.
PushPacket ==
  /\ worker = "push"
  /\ \/ /\ Fits
        /\ filled' = filled + frames
        /\ worker' = "release"
        /\ UNCHANGED overflow_count
     \/ /\ frames # 0
        /\ overflow_count' = Increment(overflow_count)
        /\ worker' = AfterDrop
        /\ UNCHANGED filled
  /\ UNCHANGED <<local, packet, signals, device, has_sink, telemetry,
                 call_failed>>

\* Faulty variant: `continue` after the report.
ReportOverrun_SkipsRelease ==
  /\ worker = "report"
  /\ TryPublish("OutputOverrun")
  /\ worker' = "next"
  /\ UNCHANGED <<local, packet, signals, device, ring, has_sink, call_failed>>

ReportOverrun ==
  /\ worker = "report"
  /\ TryPublish("OutputOverrun")
  /\ worker' = "release"
  /\ UNCHANGED <<local, packet, signals, device, ring, has_sink, call_failed>>

\* The device drops the packet; a failure ends the worker, and this one
\* does not publish DeviceRecoveryRequested.
ReleaseBuffer ==
  /\ worker = "release"
  /\ held' = FALSE /\ frames' = 0 /\ silent' = FALSE
  /\ \E hr \in Results :
       /\ call_failed' = (call_failed \/ hr = "failed")
       /\ \/ hr = "invalidated" /\ Exit("kDeviceInvalidated")
             /\ UNCHANGED packets
          \/ hr = "failed" /\ Exit("kUnexpectedError") /\ UNCHANGED packets
          \/ /\ hr = "ok"
             /\ packets' = IF frames > 0 THEN packets - 1 ELSE packets
             /\ worker' = "next"
             /\ UNCHANGED exit_reason
  /\ UNCHANGED <<mmcss, signals, device_lost, ring, has_sink, telemetry>>

\* exit_loop.
Revert ==
  /\ worker = "revert"
  /\ mmcss' = FALSE
  /\ worker' = "done"
  /\ UNCHANGED <<exit_reason, packet, signals, device, ring, has_sink,
                 telemetry, call_failed>>

-----------------------------------------------------------------------------
(* The environment. *)

\* The device completes a packet and sets the capture event.  A device whose
\* buffer is full discards the packet itself.
DeviceProduces ==
  /\ ~device_lost
  /\ packets' = IF packets < DevicePackets THEN packets + 1 ELSE packets
  /\ wasapi_event' = TRUE
  /\ UNCHANGED <<worker, local, packet, shutdown, device_lost, ring, has_sink,
                 telemetry, call_failed>>

\* The endpoint goes away, with or without a last event.
DeviceLost ==
  /\ ~device_lost
  /\ device_lost' = TRUE
  /\ wasapi_event' \in {wasapi_event, TRUE}
  /\ UNCHANGED <<worker, local, packet, shutdown, packets, ring, has_sink,
                 telemetry, call_failed>>

RequestShutdown ==
  /\ ~shutdown
  /\ shutdown' = TRUE
  /\ UNCHANGED <<worker, local, packet, wasapi_event, device, ring, has_sink,
                 telemetry, call_failed>>

RenderReads ==
  /\ \E n \in 1..filled : filled' = filled - n
  /\ UNCHANGED <<worker, local, packet, signals, device, overflow_count,
                 has_sink, telemetry, call_failed>>

LoggerPops ==
  /\ Sink!Pop
  /\ UNCHANGED <<worker, local, packet, signals, device, ring, has_sink,
                 overruns, recovery_requested, call_failed>>

-----------------------------------------------------------------------------
CaptureWorkerRun ==
  \/ Wait \/ GetNextPacketSize \/ GetBuffer \/ PushPacket \/ ReportOverrun
  \/ ReleaseBuffer \/ Revert

Environment ==
  DeviceProduces \/ DeviceLost \/ RequestShutdown \/ RenderReads \/ LoggerPops

Next == CaptureWorkerRun \/ WaitFails \/ Environment

Spec == Init /\ [][Next]_vars

\* The worker thread runs when it can: MMCSS or not, it is scheduled.  Nothing
\* relies on a wait that fails.
FairSpec == Spec /\ WF_vars(CaptureWorkerRun)

-----------------------------------------------------------------------------
(* Properties. *)

Counters == 0..2 ^ CounterBits - 1

\* Every variable keeps its type, and the ring never holds more than fits.
TypeOK ==
  /\ worker \in {"wait", "next", "get", "push", "report", "release", "revert",
                 "done"}
  /\ mmcss \in BOOLEAN /\ exit_reason \in ExitReasons
  /\ frames \in PacketSizes \cup {0} /\ silent \in BOOLEAN /\ held \in BOOLEAN
  /\ shutdown \in BOOLEAN /\ wasapi_event \in BOOLEAN
  /\ packets \in 0..DevicePackets /\ device_lost \in BOOLEAN
  /\ filled \in 0..RingCapacity
  /\ has_sink \in BOOLEAN
  /\ event_queue \in Seq(Events) /\ Len(event_queue) <= EventCapacity
  /\ received \in Events \cup {Sink!NoEvent}
  /\ overflow_count \in Counters /\ overruns \in Counters
  /\ recovery_requested \in BOOLEAN /\ call_failed \in BOOLEAN

\* "The GetBuffer/ReleaseBuffer pair must be balanced": whichever path an
\* overflow or a failure takes, the worker asks for no packet while it holds
\* one, and leaves holding neither a packet nor its MMCSS registration.
ResourcesReturned ==
  /\ worker \notin {"push", "report", "release"} => ~held
  /\ worker = "done" => ~mmcss

\* Every packet the ring has counted as overflow is reported to the sink,
\* silent or not, up to the one being handled: the two counters that
\* diagnose a dropped packet agree.
OverrunsReported ==
  has_sink => overflow_count = IF worker = "report" THEN (overruns + 1) % 2 ^ CounterBits
                                                ELSE overruns

\* A worker that waits when shutdown is requested takes no further packet,
\* even if the capture event is set as well.
ShutdownWins ==
  [][worker = "wait" /\ shutdown => worker' \in {"wait", "revert"}]_vars

\* The device does not produce packets without end while it is drained: the
\* inner loop looks at nothing but the device.
DeviceRests == <>[][~DeviceProduces]_vars

\* A requested shutdown ends the worker, once the device lets the inner loop
\* end.
ShutdownExits == DeviceRests => (shutdown ~> worker = "done")

\* A lost device ends the worker that is draining it, without any help.
LossExits ==
  device_lost /\ worker \in {"next", "get", "push", "report", "release"}
    ~> worker = "done"

\* wasapi_worker_types.h: kUnexpectedError stands for "Any other HRESULT
\* failure", other than AUDCLNT_E_DEVICE_INVALIDATED: a failed call ends the
\* worker with that reason.
AnyFailureExits ==
  call_failed => worker \in {"revert", "done"} /\ exit_reason = "kUnexpectedError"

\* wasapi-bridge-design.md, Device Loss: the worker that leaves because the
\* device was invalidated signals the orchestration thread, for which it has
\* the DeviceRecoveryRequested event.
RecoveryRequested ==
  worker = "done" /\ exit_reason = "kDeviceInvalidated" /\ has_sink =>
    recovery_requested
==============================================================================
