------------------------- MODULE CaptureWorkerProofs -------------------------
(***************************************************************************)
(* For every size of the ring, of the packets and of the device's buffer:  *)
(* the capture worker returns what it takes, reports every packet it       *)
(* drops, and lets a shutdown come before the next packet.                 *)
(***************************************************************************)
EXTENDS CaptureWorker, SequenceTheorems, TLAPS

-----------------------------------------------------------------------------
(* The inductive invariant. *)

\* A packet is asked for, and held, only while the device has it buffered:
\* so ReleaseBuffer never takes a packet away that is not there.
PacketBuffered ==
  /\ worker = "get" => packets > 0
  /\ worker \in {"push", "report", "release"} /\ frames > 0 => packets > 0

\* What every step preserves.
IInv == TypeOK /\ PacketBuffered /\ ResourcesReturned /\ OverrunsReported

\* A counter stays within its width when it is incremented.
LEMMA IncrementType ==
  ASSUME NEW n \in Counters
  PROVE  Increment(n) \in Counters
  <1> DEFINE M == 2 ^ CounterBits
  <1>1. M \in Nat \ {0} /\ n \in 0..M-1
    BY TelemetryAssumption DEF Counters
  <1> HIDE DEF M
  <1>2. (n + 1) % M \in 0..M-1
    BY <1>1
  <1> QED BY <1>2 DEF M, Increment, Counters

\* The invariant holds before anything has happened.
LEMMA InitEstablishes == Init => IInv
  <1> SUFFICES ASSUME Init
               PROVE  IInv
    OBVIOUS
  <1>1. 0 \in Counters
    <2> DEFINE M == 2 ^ CounterBits
    <2>1. M \in Nat \ {0}
      BY TelemetryAssumption
    <2> HIDE DEF M
    <2>2. 0 \in 0..M-1
      BY <2>1
    <2> QED BY <2>2 DEF M, Counters
  <1>2. TypeOK
    <2>1. event_queue \in Seq(Events) /\ Len(event_queue) <= EventCapacity
      BY TelemetryAssumption DEF Init, Sink!Init
    <2>2. 0 \in 0..DevicePackets /\ 0 \in 0..RingCapacity
      BY RingAssumption, PacketAssumption
    <2> QED BY <1>1, <2>1, <2>2 DEF Init, Sink!Init, TypeOK, ExitReasons
  <1>3. PacketBuffered /\ ResourcesReturned /\ OverrunsReported
    BY DEF Init, PacketBuffered, ResourcesReturned, OverrunsReported
  <1> QED BY <1>2, <1>3 DEF IInv

\* Publishing through the sink keeps the types of the telemetry and, of the
\* two counters, touches only the one of the event it publishes.
LEMMA PublishKeepsType ==
  ASSUME TypeOK, NEW e \in Events, TryPublish(e)
  PROVE  /\ event_queue' \in Seq(Events) /\ Len(event_queue') <= EventCapacity
         /\ received' \in Events \cup {Sink!NoEvent}
         /\ overruns' \in Counters /\ recovery_requested' \in BOOLEAN
         /\ e # "OutputOverrun" => overruns' = overruns
  <1>1. /\ event_queue \in Seq(Events) /\ Len(event_queue) <= EventCapacity
        /\ received \in Events \cup {Sink!NoEvent}
        /\ overruns \in Counters /\ EventCapacity \in Nat
    BY TelemetryAssumption DEF TypeOK
  <1>2. CASE Sink!Push(e)
    <2>1. /\ Len(event_queue) < EventCapacity
          /\ event_queue' = Append(event_queue, e) /\ received' = received
      BY <1>2 DEF Sink!Push
    <2>2. /\ event_queue' \in Seq(Events)
          /\ Len(event_queue') = Len(event_queue) + 1
      BY <1>1, <2>1, AppendProperties
    <2>3. Len(event_queue') <= EventCapacity
      BY <1>1, <2>1, <2>2
    <2>4. overruns' \in Counters /\ (e # "OutputOverrun" => overruns' = overruns)
      BY <1>1, IncrementType DEF TryPublish
    <2>5. recovery_requested' \in BOOLEAN
      BY DEF TryPublish
    <2> QED BY <1>1, <2>1, <2>2, <2>3, <2>4, <2>5
  <1>3. CASE UNCHANGED <<event_queue, received>>
    BY <1>1, <1>3, IncrementType DEF TryPublish
  <1> QED BY <1>2, <1>3 DEF TryPublish
\* The outer loop, and the way out.
LEMMA OuterLoopPreserves ==
  ASSUME IInv, Wait \/ WaitFails \/ Revert
  PROVE  IInv'
  <1> USE DEF local, packet, signals, device, ring, telemetry
  <1>1. CASE Wait
    <2>0. worker' \in {"revert", "next"} /\ exit_reason' \in ExitReasons
          /\ wasapi_event' \in BOOLEAN
      BY <1>1 DEF IInv, TypeOK, Wait, Exit, ExitReasons
    <2>1. TypeOK'
      BY <1>1, <2>0 DEF IInv, TypeOK, Wait
    <2> QED BY <1>1, <2>0, <2>1 DEF IInv, Wait, PacketBuffered, ResourcesReturned,
                              OverrunsReported
  <1>2. CASE WaitFails
    <2>1. TypeOK'
      BY <1>2 DEF IInv, TypeOK, WaitFails, Exit, ExitReasons
    <2> QED BY <1>2, <2>1 DEF IInv, WaitFails, Exit, PacketBuffered,
                              ResourcesReturned, OverrunsReported
  <1>3. CASE Revert
    <2>1. TypeOK'
      BY <1>3 DEF IInv, TypeOK, Revert
    <2> QED BY <1>3, <2>1 DEF IInv, Revert, PacketBuffered, ResourcesReturned,
                              OverrunsReported
  <1> QED BY <1>1, <1>2, <1>3

\* Leaving because the device was invalidated publishes no overrun.
LEMMA InvalidatedPreserves ==
  ASSUME IInv, worker \in {"next", "get"}, ExitInvalidated, call_failed' \in BOOLEAN,
         UNCHANGED <<mmcss, packet, signals, device, ring, has_sink>>
  PROVE  IInv'
  <1> USE DEF packet, signals, device, ring
  <1>1. "DeviceRecoveryRequested" \in Events
    BY DEF Events
  <1>2. /\ event_queue' \in Seq(Events) /\ Len(event_queue') <= EventCapacity
        /\ received' \in Events \cup {Sink!NoEvent}
        /\ overruns' = overruns /\ recovery_requested' \in BOOLEAN
    BY <1>1, PublishKeepsType DEF IInv, ExitInvalidated
  <1>3. worker' = "revert" /\ exit_reason' \in ExitReasons
    BY DEF ExitInvalidated, Exit, ExitReasons
  <1>4. TypeOK'
    BY <1>2, <1>3 DEF IInv, TypeOK
  <1> QED BY <1>2, <1>3, <1>4
          DEF IInv, PacketBuffered, ResourcesReturned, OverrunsReported

\* Asking for a packet, which a lost device answers with the worker's exit.
LEMMA NextPacketPreserves ==
  ASSUME IInv, GetNextPacketSize
  PROVE  IInv'
  <1> USE DEF packet, signals, device, ring
  <1>1. PICK hr \in Results :
          NextPacket(hr) /\ call_failed' = (call_failed \/ hr = "failed")
    BY DEF GetNextPacketSize
  <1>2. /\ worker = "next" /\ call_failed' \in BOOLEAN
        /\ UNCHANGED <<mmcss, packet, signals, device, ring, has_sink>>
    BY <1>1 DEF GetNextPacketSize, IInv, TypeOK
  <1>3. CASE ExitInvalidated
    BY <1>2, <1>3, InvalidatedPreserves
  <1>4. CASE /\ worker' = IF hr = "ok" /\ packets > 0 THEN "get" ELSE "wait"
             /\ UNCHANGED <<exit_reason, telemetry>>
    <2>1. TypeOK'
      BY <1>2, <1>4 DEF IInv, TypeOK, telemetry
    <2>2. PacketBuffered'
      BY <1>2, <1>4 DEF PacketBuffered
    <2>3. ResourcesReturned' /\ OverrunsReported'
      BY <1>2, <1>4 DEF IInv, ResourcesReturned, OverrunsReported, telemetry
    <2> QED BY <2>1, <2>2, <2>3 DEF IInv
  <1> QED BY <1>1, <1>3, <1>4 DEF NextPacket

\* Taking a packet: only a success makes the worker hold one.
LEMMA GetBufferPreserves ==
  ASSUME IInv, GetBuffer
  PROVE  IInv'
  <1> USE DEF packet, signals, device, ring
  <1>1. PICK hr \in Results :
          /\ call_failed' = (call_failed \/ hr = "failed")
          /\ \/ hr = "invalidated" /\ ExitInvalidated /\ UNCHANGED <<packet, packets>>
             \/ /\ hr = "failed" /\ Exit("kUnexpectedError")
                /\ UNCHANGED <<packet, packets, telemetry>>
             \/ /\ hr = "ok"
                /\ frames' \in PacketSizes \cup {0} /\ silent' \in BOOLEAN
                /\ packets' = IF frames' = 0 THEN 0 ELSE packets
                /\ held' = TRUE
                /\ worker' = "push"
                /\ UNCHANGED <<exit_reason, telemetry>>
    BY DEF GetBuffer
  <1>2. /\ worker = "get" /\ call_failed' \in BOOLEAN
        /\ UNCHANGED <<mmcss, signals, device_lost, ring, has_sink>>
    BY <1>1 DEF GetBuffer, IInv, TypeOK
  <1>3. CASE ExitInvalidated /\ UNCHANGED <<packet, packets>>
    <2>1. UNCHANGED <<mmcss, packet, signals, device, ring, has_sink>>
      BY <1>2, <1>3
    <2> QED BY <1>2, <1>3, <2>1, InvalidatedPreserves
  <1>4. CASE Exit("kUnexpectedError") /\ UNCHANGED <<packet, packets, telemetry>>
    <2>1. TypeOK'
      BY <1>2, <1>4 DEF IInv, TypeOK, Exit, ExitReasons, telemetry
    <2> QED BY <1>2, <1>4, <2>1 DEF IInv, Exit, telemetry, PacketBuffered,
                                    ResourcesReturned, OverrunsReported
  <1>5. CASE /\ frames' \in PacketSizes \cup {0} /\ silent' \in BOOLEAN
             /\ packets' = IF frames' = 0 THEN 0 ELSE packets
             /\ held' = TRUE
             /\ worker' = "push"
             /\ UNCHANGED <<exit_reason, telemetry>>
    <2>1. packets \in 0..DevicePackets /\ packets > 0 /\ 0 \in 0..DevicePackets
      BY <1>2, PacketAssumption DEF IInv, TypeOK, PacketBuffered
    <2>2. TypeOK'
      BY <1>2, <1>5, <2>1 DEF IInv, TypeOK, telemetry
    <2>3. PacketBuffered'
      BY <1>5, <2>1, PacketAssumption DEF PacketBuffered
    <2>4. ResourcesReturned' /\ OverrunsReported'
      BY <1>2, <1>5 DEF IInv, ResourcesReturned, OverrunsReported, telemetry
    <2> QED BY <2>2, <2>3, <2>4 DEF IInv
  <1> QED BY <1>1, <1>3, <1>4, <1>5

\* Pushing the packet into the ring: a refusal is counted and then reported.
LEMMA PushPreserves ==
  ASSUME IInv, PushPacket
  PROVE  IInv'
  <1> USE DEF local, packet, signals, device, telemetry
  <1>1. /\ filled \in 0..RingCapacity /\ frames \in Nat /\ RingCapacity \in Nat
        /\ overflow_count \in Counters
    BY RingAssumption, PacketAssumption DEF IInv, TypeOK
  <1>2. CASE /\ Fits /\ filled' = filled + frames
             /\ worker' = "release" /\ UNCHANGED overflow_count
    <2>1. filled' \in 0..RingCapacity
      BY <1>1, <1>2 DEF Fits
    <2>2. TypeOK'
      BY <1>2, <2>1 DEF IInv, TypeOK, PushPacket
    <2> QED BY <1>2, <2>2 DEF IInv, PushPacket, PacketBuffered, ResourcesReturned,
                              OverrunsReported
  <1>3. CASE /\ overflow_count' = Increment(overflow_count)
             /\ worker' = AfterDrop /\ UNCHANGED filled
    <2>1. TypeOK'
      BY <1>1, <1>3, IncrementType DEF IInv, TypeOK, PushPacket, AfterDrop
    <2>2. OverrunsReported'
      BY <1>3 DEF IInv, PushPacket, OverrunsReported, AfterDrop, Increment
    <2> QED BY <1>3, <2>1, <2>2 DEF IInv, PushPacket, PacketBuffered,
                                    ResourcesReturned, AfterDrop
  <1> QED BY <1>2, <1>3 DEF PushPacket

\* Reporting the refusal makes the two counters equal again.
LEMMA ReportPreserves ==
  ASSUME IInv, ReportOverrun
  PROVE  IInv'
  <1> USE DEF local, packet, signals, device, ring
  <1>1. "OutputOverrun" \in Events
    BY DEF Events
  <1>2. /\ event_queue' \in Seq(Events) /\ Len(event_queue') <= EventCapacity
        /\ received' \in Events \cup {Sink!NoEvent}
        /\ overruns' \in Counters /\ recovery_requested' \in BOOLEAN
    BY <1>1, PublishKeepsType DEF IInv, ReportOverrun
  <1>3. TypeOK'
    BY <1>2 DEF IInv, TypeOK, ReportOverrun
  <1>4. OverrunsReported'
    BY DEF IInv, ReportOverrun, TryPublish, OverrunsReported, Increment
  <1> QED BY <1>3, <1>4 DEF IInv, ReportOverrun, PacketBuffered, ResourcesReturned

\* Giving the packet back, in whatever way it is answered.
LEMMA ReleasePreserves ==
  ASSUME IInv, ReleaseBuffer
  PROVE  IInv'
  <1> USE DEF signals, ring, telemetry
  <1>1. PICK hr \in Results :
          /\ call_failed' = (call_failed \/ hr = "failed")
          /\ \/ hr = "invalidated" /\ Exit("kDeviceInvalidated")
                /\ UNCHANGED packets
             \/ hr = "failed" /\ Exit("kUnexpectedError") /\ UNCHANGED packets
             \/ /\ hr = "ok"
                /\ packets' = IF frames > 0 THEN packets - 1 ELSE packets
                /\ worker' = "next"
                /\ UNCHANGED exit_reason
    BY DEF ReleaseBuffer
  <1>2. /\ worker' \in {"revert", "next"} /\ exit_reason' \in ExitReasons
        /\ call_failed' \in BOOLEAN
    BY <1>1 DEF IInv, TypeOK, Exit, ExitReasons
  <1>3. packets' \in 0..DevicePackets
    <2>1. /\ packets \in 0..DevicePackets /\ frames \in Nat /\ DevicePackets \in Nat
          /\ frames > 0 => packets > 0
      BY PacketAssumption DEF IInv, TypeOK, PacketBuffered, ReleaseBuffer
    <2> QED BY <1>1, <2>1
  <1>4. TypeOK'
    BY <1>2, <1>3 DEF IInv, TypeOK, ReleaseBuffer
  <1> QED BY <1>2, <1>4 DEF IInv, ReleaseBuffer, PacketBuffered, ResourcesReturned,
                            OverrunsReported

\* The device, the render side, the logger and the orchestration thread.
LEMMA EnvironmentPreserves ==
  ASSUME IInv, Environment
  PROVE  IInv'
  <1> USE DEF local, packet, signals, device, ring, telemetry
  <1>1. CASE DeviceProduces
    <2>1. /\ packets \in 0..DevicePackets /\ DevicePackets \in Nat
          /\ packets' = IF packets < DevicePackets THEN packets + 1 ELSE packets
      BY <1>1, PacketAssumption DEF IInv, TypeOK, DeviceProduces
    <2>2. packets' \in 0..DevicePackets /\ (packets > 0 => packets' > 0)
      BY <2>1
    <2>3. TypeOK'
      BY <1>1, <2>2 DEF IInv, TypeOK, DeviceProduces
    <2> QED BY <1>1, <2>2, <2>3 DEF IInv, DeviceProduces, PacketBuffered,
                                    ResourcesReturned, OverrunsReported
  <1>2. CASE DeviceLost \/ RequestShutdown
    <2>1. /\ shutdown' \in BOOLEAN /\ wasapi_event' \in BOOLEAN
          /\ device_lost' \in BOOLEAN
          /\ UNCHANGED <<worker, local, packet, packets, ring, has_sink,
                         telemetry, call_failed>>
      BY <1>2 DEF IInv, TypeOK, DeviceLost, RequestShutdown
    <2>2. TypeOK'
      BY <2>1 DEF IInv, TypeOK
    <2> QED BY <2>1, <2>2 DEF IInv, PacketBuffered, ResourcesReturned,
                              OverrunsReported
  <1>3. CASE RenderReads
    <2>1. filled' \in 0..RingCapacity
      BY <1>3, RingAssumption DEF IInv, TypeOK, RenderReads
    <2>2. TypeOK'
      BY <1>3, <2>1 DEF IInv, TypeOK, RenderReads
    <2> QED BY <1>3, <2>2 DEF IInv, RenderReads, PacketBuffered, ResourcesReturned,
                              OverrunsReported
  <1>4. CASE LoggerPops
    <2>1. /\ event_queue \in Seq(Events) /\ event_queue # <<>>
          /\ Len(event_queue) <= EventCapacity /\ EventCapacity \in Nat
          /\ event_queue' = Tail(event_queue) /\ received' = Head(event_queue)
      BY <1>4, TelemetryAssumption DEF IInv, TypeOK, LoggerPops, Sink!Pop
    <2>2. /\ event_queue' \in Seq(Events) /\ received' \in Events
          /\ Len(event_queue') = Len(event_queue) - 1
      BY <2>1, HeadTailProperties
    <2>3. Len(event_queue') <= EventCapacity
      BY <2>1, <2>2
    <2>4. TypeOK'
      BY <1>4, <2>2, <2>3 DEF IInv, TypeOK, LoggerPops
    <2> QED BY <1>4, <2>4 DEF IInv, LoggerPops, PacketBuffered, ResourcesReturned,
                              OverrunsReported
  <1> QED BY <1>1, <1>2, <1>3, <1>4 DEF Environment

\* Every reachable state satisfies the inductive invariant.
THEOREM Invariance == Spec => []IInv
  <1>1. Init => IInv
    BY InitEstablishes
  <1>2. IInv /\ [Next]_vars => IInv'
    <2> SUFFICES ASSUME IInv, [Next]_vars
                 PROVE  IInv'
      OBVIOUS
    <2>1. CASE UNCHANGED vars
      BY <2>1 DEF vars, local, packet, signals, device, ring, telemetry, IInv,
                  TypeOK, PacketBuffered, ResourcesReturned, OverrunsReported
    <2> QED BY <2>1, OuterLoopPreserves, NextPacketPreserves, GetBufferPreserves,
               PushPreserves, ReportPreserves, ReleasePreserves,
               EnvironmentPreserves
            DEF Next, CaptureWorkerRun
  <1> QED BY <1>1, <1>2, PTL DEF Spec

-----------------------------------------------------------------------------
(* What follows. *)

\* The ring never holds more than its capacity, the event queue no more than
\* its own, and the device's buffer is never taken to hold less than nothing.
THEOREM TypeCorrect == Spec => []TypeOK
  <1>1. IInv => TypeOK
    BY DEF IInv
  <1> QED BY <1>1, Invariance, PTL

\* GetBuffer and ReleaseBuffer are balanced on every path out of the inner
\* loop, and the MMCSS registration is reverted on every path out of the
\* worker.
THEOREM AlwaysReturnsResources == Spec => []ResourcesReturned
  <1>1. IInv => ResourcesReturned
    BY DEF IInv
  <1> QED BY <1>1, Invariance, PTL

\* Every packet the ring refused is reported to the sink, one report each.
THEOREM AlwaysReportsOverruns == Spec => []OverrunsReported
  <1>1. IInv => OverrunsReported
    BY DEF IInv
  <1> QED BY <1>1, Invariance, PTL

\* A worker that waits takes no further packet once shutdown is requested.
THEOREM ShutdownAlwaysWins == Spec => ShutdownWins
  <1>1. [Next]_vars =>
          [worker = "wait" /\ shutdown => worker' \in {"wait", "revert"}]_vars
    <2> SUFFICES ASSUME Next, worker = "wait", shutdown
                 PROVE  worker' \in {"wait", "revert"}
      OBVIOUS
    <2>1. CASE Wait \/ WaitFails
      BY <2>1 DEF Wait, WaitFails, Exit
    <2>2. CASE \/ GetNextPacketSize \/ GetBuffer \/ PushPacket \/ ReportOverrun
               \/ ReleaseBuffer \/ Revert
      BY <2>2 DEF GetNextPacketSize, GetBuffer, PushPacket, ReportOverrun,
                  ReleaseBuffer, Revert
    <2>3. CASE Environment
      BY <2>3 DEF Environment, DeviceProduces, DeviceLost, RequestShutdown,
                  RenderReads, LoggerPops
    <2> QED BY <2>1, <2>2, <2>3 DEF Next, CaptureWorkerRun
  <1> QED BY <1>1, PTL DEF Spec, ShutdownWins
=============================================================================
