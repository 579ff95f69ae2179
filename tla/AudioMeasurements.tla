------------------------- MODULE AudioMeasurements -------------------------
(***************************************************************************)
(* The benchmarks' AudioMeasurementAccumulator.  The callback adds to      *)
(* atomic counters one after the other, a device thread sets observations  *)
(* under a mutex, a monitor copies the observations under the mutex and    *)
(* then loads the counters one by one.  A relaxed load returns the current *)
(* value here, as on the x64 targets of the repository.                    *)
(*                                                                         *)
(* An observation is a pair of values taken from one sample, of which only *)
(* the number of the sample is kept.                                       *)
(***************************************************************************)
EXTENDS Integers, Sequences

CONSTANTS
  Durations,    \* durations (and jitters) the callback measures
  Observations, \* what is observed: stream format, CPU usage, latency
  MaxRecords,   \* bound: Record* calls in a behaviour
  MaxSamples    \* bound: Set* calls in a behaviour

ASSUME MeasurementsAssumption ==
  /\ Durations \subseteq Nat /\ MaxRecords \in Nat /\ MaxSamples \in Nat
  /\ "none" \notin Observations

VARIABLES
  counters,      \* the six atomics
  record,        \* RecordCallbackDuration: "idle", "total" or "worst"
  observed,      \* stream_format_, cpu_usage_, estimated_processing_latency_
  setter,        \* what is being set while the mutex is held, or "none"
  samples,       \* how many samples were taken
  next_load,     \* Snapshot: 0 when idle, else the counter to load next
  snapshot,      \* what it has copied so far
  after          \* history: the counters due after 0, 1, 2... callbacks

callbackVars == <<counters, record, after>>
observationVars == <<observed, setter, samples>>
snapshotVars == <<next_load, snapshot>>
measurementVars == <<callbackVars, observationVars, snapshotVars>>

Counters == {"callback_count", "callback_duration_total", "worst_duration",
             "underrun_count", "overrun_count", "worst_jitter"}

\* Faulty variant: the total is loaded before the count.
Loads_TotalFirst ==
  <<"callback_duration_total", "callback_count", "worst_duration",
    "underrun_count", "overrun_count", "worst_jitter">>
\* The order in which Snapshot loads them.
Loads ==
  <<"callback_count", "callback_duration_total", "worst_duration",
    "underrun_count", "overrun_count", "worst_jitter">>

Larger(a, b) == IF a > b THEN a ELSE b

NoCounters == [c \in Counters |-> 0]
NoSnapshot == [observed |-> [o \in Observations |-> <<0, 0>>],
               counters |-> NoCounters]

InitMeasurements ==
  /\ counters = NoCounters /\ record = "idle"
  /\ after = <<[total |-> 0, worst |-> 0]>>
  /\ observed = NoSnapshot.observed /\ setter = "none" /\ samples = 0
  /\ next_load = 0 /\ snapshot = NoSnapshot

-----------------------------------------------------------------------------
(* The callback, the only writer of the counters. *)

Records ==
  Len(after) - 1 + counters.underrun_count + counters.overrun_count

CountCallback(d) ==
  /\ record = "idle" /\ Records < MaxRecords
  /\ record' = "total"
  /\ counters' = [counters EXCEPT !.callback_count = @ + 1]
  /\ after' = LET last == after[Len(after)]
              IN Append(after, [total |-> last.total + d,
                                worst |-> Larger(last.worst, d)])

\* Faulty variant: the total so far is taken for the duration.
Duration_Total == after[Len(after)].total
\* The duration of the callback in progress.
Duration == after[Len(after)].total - after[Len(after) - 1].total

AddDuration ==
  /\ record = "total" /\ record' = "worst"
  /\ counters' = [counters EXCEPT !.callback_duration_total = @ + Duration]
  /\ UNCHANGED after

\* A load and a conditional store; nobody else stores in between.
StoreWorstDuration ==
  /\ record = "worst" /\ record' = "idle"
  /\ counters' = [counters EXCEPT !.worst_duration = Larger(@, Duration)]
  /\ UNCHANGED after

RecordCallbackDuration ==
  \/ \E d \in Durations : CountCallback(d)
  \/ AddDuration \/ StoreWorstDuration

RecordXrun(counter) ==
  /\ record = "idle" /\ Records < MaxRecords
  /\ counters' = [counters EXCEPT ![counter] = @ + 1]
  /\ UNCHANGED <<record, after>>

RecordSchedulingJitter(jitter) ==
  /\ record = "idle"
  /\ counters' = [counters EXCEPT !.worst_jitter = Larger(@, jitter)]
  /\ UNCHANGED <<record, after>>

MeasurementCallback ==
  /\ \/ RecordCallbackDuration
     \/ RecordXrun("underrun_count") \/ RecordXrun("overrun_count")
     \/ \E jitter \in Durations : RecordSchedulingJitter(jitter)
  /\ UNCHANGED <<observationVars, snapshotVars>>

-----------------------------------------------------------------------------
(* The device thread: one value, then the other, under the mutex. *)

SetObservation(o) ==
  /\ setter = "none" /\ samples < MaxSamples
  /\ setter' = o /\ samples' = samples + 1
  /\ observed' = [observed EXCEPT ![o][1] = samples + 1]
  /\ UNCHANGED <<callbackVars, snapshotVars>>

EndSet ==
  /\ setter # "none" /\ setter' = "none"
  /\ observed' = [observed EXCEPT ![setter][2] = samples]
  /\ UNCHANGED <<samples, callbackVars, snapshotVars>>

MeasurementControl == EndSet \/ \E o \in Observations : SetObservation(o)

-----------------------------------------------------------------------------
(* The monitor: Snapshot. *)

\* Faulty variant: the observations are copied without the mutex.
CopyObservations_Unlocked ==
  /\ next_load = 0 /\ next_load' = 1
  /\ snapshot' = [snapshot EXCEPT !.observed = observed]
  /\ UNCHANGED <<callbackVars, observationVars>>

CopyObservations ==
  /\ next_load = 0 /\ next_load' = 1
  /\ setter = "none"
  /\ snapshot' = [snapshot EXCEPT !.observed = observed]
  /\ UNCHANGED <<callbackVars, observationVars>>

LoadCounter ==
  /\ next_load \in 1..Len(Loads) /\ next_load' = next_load + 1
  /\ snapshot' = [snapshot EXCEPT
                    !.counters[Loads[next_load]] = counters[Loads[next_load]]]
  /\ UNCHANGED <<callbackVars, observationVars>>

Return ==
  /\ next_load > Len(Loads) /\ next_load' = 0
  /\ snapshot' = NoSnapshot
  /\ UNCHANGED <<callbackVars, observationVars>>

Snapshot == CopyObservations \/ LoadCounter \/ Return

SpecMeasurements ==
  /\ InitMeasurements
  /\ [][MeasurementCallback \/ MeasurementControl \/ Snapshot]_measurementVars

-----------------------------------------------------------------------------
\* Every variable keeps its type; the maxima are measured values.
MeasurementsTypeOK ==
  /\ counters \in [Counters -> Nat]
  /\ {counters.worst_duration, counters.worst_jitter} \subseteq Durations \cup {0}
  /\ record \in {"idle", "total", "worst"}
  /\ after \in Seq([total : Nat, worst : Nat])
  /\ observed \in [Observations -> (0..MaxSamples) \X (0..MaxSamples)]
  /\ setter \in Observations \cup {"none"} /\ samples \in 0..MaxSamples
  /\ next_load \in 0..Len(Loads)+1
  /\ snapshot \in [observed : [Observations -> (0..MaxSamples) \X (0..MaxSamples)],
                   counters : [Counters -> Nat]]

\* The counters of a snapshot may be of different callbacks, within limits:
\* the total and the maximum cover every callback that was counted, but for
\* the one that was in progress, and nothing that has not been measured.
\* So an average is never too low by more than one callback, and the
\* maximum is a true one.  The order of the loads gives this.
SnapshotCoversCount ==
  LET counted == snapshot.counters.callback_count
      settled == after[IF counted = 0 THEN 1 ELSE counted]
      latest  == after[Len(after)]
  IN /\ next_load > 2 =>
          snapshot.counters.callback_duration_total
            \in settled.total..latest.total
     /\ next_load > 3 =>
          snapshot.counters.worst_duration \in settled.worst..latest.worst

\* "CPU utilization requires a CPU-time delta and wall-time delta from the
\* same sampling interval": the two values of an observation in a snapshot
\* are always of one sample, and so are a format's and a latency's.
SameInterval ==
  \A o \in Observations : snapshot.observed[o][1] = snapshot.observed[o][2]
=============================================================================
