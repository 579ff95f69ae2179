------------------------ MODULE AudioCallbackProofs ------------------------
(***************************************************************************)
(* For all formats, bounds and durations, and any number of calls of the   *)
(* threads around the callback: what the processor copies are complete     *)
(* frames of the agreed configuration, and what a snapshot shows has been  *)
(* measured.                                                               *)
(***************************************************************************)
EXTENDS AudioCallback, TLAPS

-----------------------------------------------------------------------------
(* The inductive invariants. *)

\* A field that Configure need not assign any more has the value requested;
\* between two calls of Configure the request is the last one accepted.
AssignedSoFar ==
  /\ \A field \in DOMAIN Unconfigured \ assigning : fields[field] = request[field]
  /\ assigning = {} => agreed = request

\* A call of Process that no Configure has overlapped is within the bound of
\* the configuration, all of which has been assigned.
AdmittedFits ==
  process # "idle" /\ ~overlapped => assigning = {} /\ frames <= fields.maximum

\* What every step of the processor's threads preserves.
ProcessorInv ==
  ProcessorTypeOK /\ AssignedSoFar /\ AdmittedFits /\ CopiesAgreedFrames

\* The callbacks, and those whose duration has been added or compared.
Callbacks == Len(after)
Added == IF record = "total" THEN Callbacks - 1 ELSE Callbacks
Compared == IF record = "idle" THEN Callbacks ELSE Callbacks - 1

\* The counters are those due after the callbacks that have got that far.
CountersDue ==
  /\ Callbacks = counters.callback_count + 1
  /\ record # "idle" =>
       /\ Callbacks >= 2
       /\ Duration \in Durations
       /\ after[Callbacks].worst = Larger(after[Callbacks - 1].worst, Duration)
  /\ counters.callback_duration_total = after[Added].total
  /\ counters.worst_duration = after[Compared].worst

\* Totals and maxima only grow.
Grows ==
  \A i, j \in 1..Callbacks : i <= j =>
    after[i].total <= after[j].total /\ after[i].worst <= after[j].worst

\* A snapshot has counted callbacks that have been counted.
CountedBefore ==
  snapshot.counters.callback_count <= counters.callback_count

\* An observation is of one sample, but for the one that is being set.
ObservedOfOneSample ==
  /\ \A o \in Observations : o # setter => observed[o][1] = observed[o][2]
  /\ setter # "none" => observed[setter][1] = samples

\* What every step of the measuring threads preserves.
MeasurementsInv ==
  /\ MeasurementsTypeOK /\ CountersDue /\ Grows /\ CountedBefore
  /\ ObservedOfOneSample /\ SnapshotCoversCount /\ SameInterval

IInv == ProcessorInv /\ MeasurementsInv

-----------------------------------------------------------------------------
(* The processor. *)

\* The size of a copy that is within a bound does not wrap.
LEMMA CopySize ==
  ASSUME NEW n \in Nat, NEW b \in Nat, n * b < 2^SizeBits
  PROVE  (n * b) % 2^SizeBits = n * b
  <1> DEFINE M == 2^SizeBits
             x == n * b
  <1>1. M \in Nat \ {0} /\ x \in Nat /\ x < M
    BY SizeAssumption
  <1> HIDE DEF M, x
  <1>2. x % M = x
    BY <1>1
  <1> QED BY <1>2 DEF M, x

\* A copy is counted in a size_t.
LEMMA SizeType ==
  ASSUME NEW n \in Nat, NEW b \in Nat
  PROVE  (n * b) % 2^SizeBits \in 0..2^SizeBits-1
  <1> DEFINE M == 2^SizeBits
             x == n * b
  <1>1. M \in Nat \ {0} /\ x \in Nat
    BY SizeAssumption
  <1> HIDE DEF M, x
  <1>2. x % M \in 0..M-1
    BY <1>1
  <1> QED BY <1>2 DEF M, x

\* So is a copy of nothing.
LEMMA NoBytes == 0 \in 0..2^SizeBits-1
  <1> DEFINE M == 2^SizeBits
  <1>1. M \in Nat \ {0}
    BY SizeAssumption
  <1> HIDE DEF M
  <1>2. 0 \in 0..M-1
    BY <1>1
  <1> QED BY <1>2 DEF M

\* What is known of a configuration, accepted or none.
LEMMA ConfigurationFacts ==
  ASSUME NEW c \in Configurations
  PROVE  /\ c.maximum \in {0} \cup FrameCounts /\ c.maximum \in Nat
         /\ c.configured \in BOOLEAN
         /\ c.format.bytes_per_frame \in Nat
         /\ \A n \in FrameCounts \cup {0} : n * c.format.bytes_per_frame < 2^SizeBits
         /\ c = [format |-> c.format, maximum |-> c.maximum, configured |-> c.configured]
  <1> DEFINE M == 2^SizeBits
  <1>1. M \in Nat \ {0} /\ \A f \in Formats, n \in FrameCounts : f.bytes_per_frame * n < M
    BY SizeAssumption
  <1>2. FrameCounts \subseteq Nat /\ \A f \in Formats : f.bytes_per_frame \in Nat
    BY PassthroughAssumption
  <1> HIDE DEF M
  <1>3. CASE c = Unconfigured
    <2>1. \A n \in FrameCounts \cup {0} : n * 0 < M
      BY <1>1, <1>2
    <2> QED BY <1>3, <2>1 DEF Unconfigured, NoFormat, M
  <1>4. CASE c # Unconfigured
    <2>1. /\ c.format \in Formats /\ c.maximum \in FrameCounts /\ c.configured = TRUE
          /\ c = [format |-> c.format, maximum |-> c.maximum, configured |-> c.configured]
      BY <1>4 DEF Configurations
    <2>2. c.format.bytes_per_frame \in Nat /\ c.maximum \in Nat
      BY <1>2, <2>1
    <2>3. ASSUME NEW n \in FrameCounts \cup {0}
          PROVE  n * c.format.bytes_per_frame < M
      <3> DEFINE b == c.format.bytes_per_frame
      <3>1. b \in Nat /\ n \in Nat
        BY <1>2, <2>2
      <3>2. n \in FrameCounts => b * n < M
        BY <1>1, <2>1
      <3> HIDE DEF b
      <3>3. n * b = b * n /\ 0 * b = 0
        BY <3>1
      <3>4. n * b < M
        BY <1>1, <3>2, <3>3
      <3> QED BY <3>4 DEF b
    <2> QED BY <2>1, <2>2, <2>3 DEF M
  <1> QED BY <1>3, <1>4

\* The fields have the values of some configurations.
LEMMA FieldsFacts ==
  ASSUME ProcessorTypeOK
  PROVE  /\ fields.maximum \in {0} \cup FrameCounts /\ fields.maximum \in Nat
         /\ fields.configured \in BOOLEAN
         /\ fields.format.bytes_per_frame \in Nat
         /\ \A n \in FrameCounts \cup {0} :
              n * fields.format.bytes_per_frame < 2^SizeBits
  <1>1. /\ fields.format \in {c.format : c \in Configurations}
        /\ fields.maximum \in {0} \cup FrameCounts /\ fields.configured \in BOOLEAN
    BY DEF ProcessorTypeOK
  <1>2. PICK c \in Configurations : fields.format = c.format
    BY <1>1
  <1>3. fields.maximum \in Nat
    BY <1>1, PassthroughAssumption
  <1> QED BY <1>1, <1>2, <1>3, ConfigurationFacts

\* Nothing is configured and nothing has been copied to begin with.
LEMMA InitProcessorEstablishes == InitProcessor => ProcessorInv
  <1> SUFFICES ASSUME InitProcessor
               PROVE  ProcessorInv
    OBVIOUS
  <1>1. Unconfigured \in Configurations
    BY DEF Configurations
  <1>2. 0 \in 0..2^SizeBits-1
    BY NoBytes
  <1>3. ProcessorTypeOK
    <2>1. fields \in [format : {c.format : c \in Configurations},
                      maximum : {0} \cup FrameCounts, configured : BOOLEAN]
      <3> DEFINE Fs == {c.format : c \in Configurations}
                 Ms == {0} \cup FrameCounts
      <3>1. NoFormat \in Fs /\ 0 \in Ms
        <4>1. Unconfigured.format \in Fs
          BY <1>1
        <4> QED BY <4>1 DEF Unconfigured
      <3> HIDE DEF Fs, Ms
      <3>2. Unconfigured \in [format : Fs, maximum : Ms, configured : BOOLEAN]
        BY <3>1 DEF Unconfigured
      <3> QED BY <3>2 DEF InitProcessor, Fs, Ms
    <2>2. 0 \in 0..MaxCalls /\ 0 \in 0..0
      BY PassthroughAssumption
    <2> QED BY <1>1, <1>2, <2>1, <2>2 DEF InitProcessor, ProcessorTypeOK
  <1> QED BY <1>3 DEF InitProcessor, ProcessorInv, AssignedSoFar, AdmittedFits,
                      CopiesAgreedFrames

\* The fields of a configuration.
LEMMA FieldNames ==
  ASSUME ProcessorTypeOK
  PROVE  /\ DOMAIN request = {"format", "maximum", "configured"}
         /\ DOMAIN Unconfigured = {"format", "maximum", "configured"}
         /\ request = [format |-> request.format, maximum |-> request.maximum,
                       configured |-> request.configured]
  <1>1. request \in Configurations
    BY DEF ProcessorTypeOK
  <1>2. request = [format |-> request.format, maximum |-> request.maximum,
                   configured |-> request.configured]
    BY <1>1, ConfigurationFacts
  <1> QED BY <1>2 DEF Unconfigured

\* Configure, and each of its assignments, keeps the invariant, whatever the
\* callback is doing meanwhile.
LEMMA ControlKeepsProcessorInv ==
  ASSUME ProcessorInv, ProcessorControl
  PROVE  ProcessorInv'
  <1> USE DEF configurationVars, processVars
  <1>0. /\ ProcessorTypeOK /\ AssignedSoFar /\ AdmittedFits /\ CopiesAgreedFrames
        /\ process \in {"idle", "admitted", "copied"}
        /\ request \in Configurations /\ agreed \in Configurations
        /\ assigning \subseteq DOMAIN Unconfigured
    BY DEF ProcessorInv, ProcessorTypeOK
  <1>1. ASSUME NEW f \in Formats, NEW n \in FrameCounts, Configure(f, n)
        PROVE  ProcessorInv'
    <2>1. request' \in Configurations
      BY <1>1 DEF Configure, Configurations
    <2>2. assigning' = DOMAIN Unconfigured /\ assigning' # {} /\ overlapped' \in BOOLEAN
      BY <1>0, <1>1, FieldNames DEF Configure
    <2>3. ProcessorTypeOK'
      BY <1>0, <1>1, <2>1, <2>2 DEF ProcessorTypeOK, Configure
    <2>4. AssignedSoFar'
      BY <2>2 DEF AssignedSoFar
    <2>5. process' # "idle" => overlapped'
      BY <1>1 DEF Configure
    <2> QED BY <2>3, <2>4, <2>5 DEF ProcessorInv, AdmittedFits, CopiesAgreedFrames
  <1>2. ASSUME NEW field \in assigning, Assign(field)
        PROVE  ProcessorInv'
    <2>1. field \in {"format", "maximum", "configured"} /\ assigning # {}
      BY <1>0, FieldNames
    <2>2. /\ fields' = [fields EXCEPT ![field] = request[field]]
          /\ assigning' = assigning \ {field} /\ request' = request
          /\ agreed' = IF assigning' = {} THEN request ELSE agreed
          /\ UNCHANGED <<process, frames, copied, process_calls, processed_frames,
                         rejected_calls, overlapped>>
      BY <1>2 DEF Assign
    <2>3. fields' \in [format : {c.format : c \in Configurations},
                       maximum : {0} \cup FrameCounts, configured : BOOLEAN]
      <3>1. fields \in [format : {c.format : c \in Configurations},
                        maximum : {0} \cup FrameCounts, configured : BOOLEAN]
        BY <1>0 DEF ProcessorTypeOK
      <3>2. /\ request.format \in {c.format : c \in Configurations}
            /\ request.maximum \in {0} \cup FrameCounts /\ request.configured \in BOOLEAN
        BY <1>0, ConfigurationFacts
      <3> HIDE DEF configurationVars, processVars
      <3> DEFINE Fs == {c.format : c \in Configurations}
                 Ms == {0} \cup FrameCounts
      <3>3. fields \in [format : Fs, maximum : Ms, configured : BOOLEAN]
        BY <3>1
      <3>4. request.format \in Fs /\ request.maximum \in Ms /\ request.configured \in BOOLEAN
        BY <3>2
      <3> HIDE DEF Fs, Ms
      <3>5. fields' \in [format : Fs, maximum : Ms, configured : BOOLEAN]
        BY <2>1, <2>2, <3>3, <3>4
      <3> QED BY <3>5 DEF Fs, Ms
    <2>4. ProcessorTypeOK'
      BY <1>0, <2>2, <2>3 DEF ProcessorTypeOK
    <2>5. AssignedSoFar'
      <3>1. DOMAIN fields = DOMAIN Unconfigured
        BY <1>0, FieldNames DEF ProcessorTypeOK
      <3> QED BY <1>0, <2>1, <2>2, <3>1 DEF AssignedSoFar
    <2>6. process' # "idle" => overlapped'
      BY <1>0, <2>1, <2>2 DEF AdmittedFits, ProcessorTypeOK
    <2> QED BY <2>4, <2>5, <2>6 DEF ProcessorInv, AdmittedFits, CopiesAgreedFrames
  <1> QED BY <1>1, <1>2 DEF ProcessorControl

\* Process, in its three steps, keeps the invariant, whatever is configured
\* meanwhile.
LEMMA CallbackKeepsProcessorInv ==
  ASSUME ProcessorInv, ProcessorCallback
  PROVE  ProcessorInv'
  <1> USE DEF configurationVars, processVars
  <1>0. /\ ProcessorTypeOK /\ AssignedSoFar /\ AdmittedFits /\ CopiesAgreedFrames
        /\ frames \in FrameCounts \cup {0} /\ frames \in Nat
        /\ overlapped \in BOOLEAN /\ processed_frames \in Nat
        /\ process_calls \in 0..MaxCalls /\ rejected_calls \in 0..process_calls
        /\ copied \in 0..2^SizeBits-1 /\ MaxCalls \in Nat
    BY PassthroughAssumption DEF ProcessorInv, ProcessorTypeOK
  <1>1. ASSUME NEW n \in FrameCounts, NEW null \in BOOLEAN, Process(n, null)
        PROVE  ProcessorInv'
    <2>1. /\ process_calls' \in 0..MaxCalls /\ rejected_calls' \in 0..process_calls'
          /\ copied' = copied /\ processed_frames' = processed_frames
          /\ UNCHANGED configurationVars
      BY <1>0, <1>1 DEF Process
    <2>2. /\ process' \in {"idle", "admitted"} /\ frames' \in FrameCounts \cup {0}
          /\ overlapped' \in BOOLEAN
      BY <1>0, <1>1 DEF Process
    <2>3. ProcessorTypeOK'
      BY <1>0, <2>1, <2>2 DEF ProcessorTypeOK
    <2>4. AssignedSoFar' /\ CopiesAgreedFrames'
      BY <1>0, <2>1, <2>2 DEF AssignedSoFar, CopiesAgreedFrames
    <2>5. AdmittedFits'
      <3>1. n \in Nat /\ fields.maximum \in Nat
        BY <1>0, PassthroughAssumption, FieldsFacts
      <3>2. CASE process' = "idle"
        BY <3>2 DEF AdmittedFits
      <3>3. CASE process' = "admitted"
        <4>1. ~(n > fields.maximum) /\ frames' = n /\ (overlapped' <=> assigning # {})
          BY <1>1, <3>3 DEF Process, Rejects
        <4>2. n <= fields.maximum /\ fields' = fields /\ assigning' = assigning
          BY <2>1, <3>1, <4>1
        <4> QED BY <4>1, <4>2 DEF AdmittedFits
      <3> QED BY <2>2, <3>2, <3>3
    <2> QED BY <2>3, <2>4, <2>5 DEF ProcessorInv
  <1>2. CASE Copy
    <2>1. /\ process = "admitted" /\ process' = "copied"
          /\ copied' = (frames * fields.format.bytes_per_frame) % 2^SizeBits
          /\ UNCHANGED <<configurationVars, frames, process_calls, processed_frames,
                         rejected_calls, overlapped>>
      BY <1>2 DEF Copy
    <2>2. fields.format.bytes_per_frame \in Nat
      BY <1>0, FieldsFacts
    <2>3. copied' \in 0..2^SizeBits-1
      BY <1>0, <2>1, <2>2, SizeType
    <2>4. ProcessorTypeOK'
      BY <1>0, <2>1, <2>3 DEF ProcessorTypeOK
    <2>5. AssignedSoFar' /\ AdmittedFits'
      BY <1>0, <2>1 DEF AssignedSoFar, AdmittedFits
    <2>6. CopiesAgreedFrames'
      <3> SUFFICES ASSUME ~overlapped
                   PROVE  /\ frames <= agreed.maximum
                          /\ copied' = frames * agreed.format.bytes_per_frame
        BY <2>1 DEF CopiesAgreedFrames
      <3>1. assigning = {} /\ frames <= fields.maximum
        BY <1>0, <2>1 DEF AdmittedFits
      <3>2. fields.format = agreed.format /\ fields.maximum = agreed.maximum
        BY <1>0, <3>1, FieldNames DEF AssignedSoFar
      <3>3. frames * fields.format.bytes_per_frame < 2^SizeBits
        BY <1>0, FieldsFacts
      <3>4. copied' = frames * fields.format.bytes_per_frame
        BY <1>0, <2>1, <2>2, <3>3, CopySize
      <3> QED BY <3>1, <3>2, <3>4
    <2> QED BY <2>4, <2>5, <2>6 DEF ProcessorInv
  <1>3. CASE CountFrames
    <2>1. /\ process' = "idle" /\ frames' = 0 /\ copied' = 0 /\ overlapped' = FALSE
          /\ processed_frames' = processed_frames + frames
          /\ UNCHANGED <<configurationVars, process_calls, rejected_calls>>
      BY <1>3 DEF CountFrames
    <2>2. 0 \in 0..2^SizeBits-1
      BY NoBytes
    <2>3. processed_frames' \in Nat
      BY <1>0, <2>1
    <2>4. ProcessorTypeOK'
      BY <1>0, <2>1, <2>2, <2>3 DEF ProcessorTypeOK
    <2> QED BY <1>0, <2>1, <2>4 DEF ProcessorInv, AssignedSoFar, AdmittedFits,
                                    CopiesAgreedFrames
  <1> QED BY <1>1, <1>2, <1>3 DEF ProcessorCallback

-----------------------------------------------------------------------------
(* The measurements: types. *)

\* What is due after a callback, and the numbers of the samples of a pair.
Due == [total : Nat, worst : Nat]
Samples == 0..MaxSamples
Pairs == Samples \X Samples

\* The order of the loads.
LEMMA LoadsFacts ==
  /\ Len(Loads) = 6
  /\ \A i \in 1..6 : Loads[i] \in Counters
  /\ \A i \in 1..6 : Loads[i] = "callback_count" <=> i = 1
  /\ \A i \in 1..6 : Loads[i] = "callback_duration_total" <=> i = 2
  /\ \A i \in 1..6 : Loads[i] = "worst_duration" <=> i = 3
  <1>1. Len(Loads) = 6
    BY DEF Loads
  <1>2. /\ Loads[1] = "callback_count" /\ Loads[2] = "callback_duration_total"
        /\ Loads[3] = "worst_duration" /\ Loads[4] = "underrun_count"
        /\ Loads[5] = "overrun_count" /\ Loads[6] = "worst_jitter"
    BY DEF Loads
  <1>3. \A i \in 1..6 : i = 1 \/ i = 2 \/ i = 3 \/ i = 4 \/ i = 5 \/ i = 6
    OBVIOUS
  <1> QED BY <1>1, <1>2, <1>3 DEF Counters

\* Setting one value of a pair.
LEMMA PairUpdate ==
  ASSUME NEW t \in Pairs, NEW v \in Samples
  PROVE  /\ [t EXCEPT ![1] = v] \in Pairs /\ [t EXCEPT ![2] = v] \in Pairs
         /\ [t EXCEPT ![1] = v][1] = v /\ [t EXCEPT ![2] = v][2] = v
         /\ [t EXCEPT ![2] = v][1] = t[1]
  <1>1. PICK a \in Samples, b \in Samples : t = <<a, b>>
    BY DEF Pairs
  <1>2. [t EXCEPT ![1] = v] = <<v, b>> /\ [t EXCEPT ![2] = v] = <<a, v>>
    BY <1>1
  <1> QED BY <1>1, <1>2 DEF Pairs

\* What the invariant says of the variables, by name.
LEMMA MeasurementTypes ==
  ASSUME MeasurementsInv
  PROVE  /\ counters \in [Counters -> Nat]
         /\ counters.worst_duration \in Durations \cup {0}
         /\ counters.worst_jitter \in Durations \cup {0}
         /\ record \in {"idle", "total", "worst"}
         /\ after \in Seq(Due) /\ Callbacks \in Nat /\ Callbacks >= 1
         /\ \A i \in 1..Callbacks :
              after[i] \in Due /\ after[i].total \in Nat /\ after[i].worst \in Nat
         /\ snapshot.counters \in [Counters -> Nat]
         /\ snapshot.counters.callback_count \in 0..Callbacks-1
         /\ \A o \in Observations : observed[o] \in Pairs
         /\ observed \in [Observations -> Pairs]
         /\ snapshot.observed \in [Observations -> Pairs]
         /\ snapshot = [observed |-> snapshot.observed, counters |-> snapshot.counters]
         /\ next_load \in 0..7 /\ samples \in Samples
         /\ setter \in Observations \cup {"none"}
  <1>1. MeasurementsTypeOK
    BY DEF MeasurementsInv
  <1>2. /\ counters \in [Counters -> Nat]
        /\ counters.worst_duration \in Durations \cup {0}
        /\ counters.worst_jitter \in Durations \cup {0}
        /\ record \in {"idle", "total", "worst"}
        /\ samples \in Samples /\ setter \in Observations \cup {"none"}
        /\ next_load \in 0..7
    BY <1>1, LoadsFacts DEF MeasurementsTypeOK, Samples
  <1>3. after \in Seq(Due)
    BY <1>1 DEF MeasurementsTypeOK, Due
  <1>4. observed \in [Observations -> Pairs]
    BY <1>1 DEF MeasurementsTypeOK, Pairs, Samples
  <1>5. snapshot \in [observed : [Observations -> Pairs], counters : [Counters -> Nat]]
    BY <1>1 DEF MeasurementsTypeOK, Pairs, Samples
  <1>6. /\ snapshot.observed \in [Observations -> Pairs]
        /\ snapshot.counters \in [Counters -> Nat]
        /\ snapshot = [observed |-> snapshot.observed, counters |-> snapshot.counters]
    BY <1>5
  <1>7. Callbacks \in Nat /\ \A i \in 1..Callbacks : after[i] \in Due
    BY <1>3 DEF Callbacks
  <1>8. \A d \in Due : d.total \in Nat /\ d.worst \in Nat
    BY DEF Due
  <1>9. counters.callback_count \in Nat /\ snapshot.counters.callback_count \in Nat
    BY <1>2, <1>6 DEF Counters
  <1>10. /\ Callbacks = counters.callback_count + 1
         /\ snapshot.counters.callback_count <= counters.callback_count
    BY DEF MeasurementsInv, CountersDue, CountedBefore
  <1>11. Callbacks >= 1 /\ snapshot.counters.callback_count \in 0..Callbacks-1
    BY <1>7, <1>9, <1>10
  <1> QED BY <1>2, <1>3, <1>4, <1>6, <1>7, <1>8, <1>11

\* The types, put together again, of one state or of the next.
LEMMA MeasurementTypesBack ==
  ASSUME NEW c \in [Counters -> Nat], NEW a \in Seq(Due),
         NEW ob \in [Observations -> Pairs], NEW i \in 0..7, NEW sn,
         c.worst_duration \in Durations \cup {0},
         c.worst_jitter \in Durations \cup {0},
         sn = [observed |-> sn.observed, counters |-> sn.counters],
         sn.observed \in [Observations -> Pairs],
         sn.counters \in [Counters -> Nat]
  PROVE  /\ {c.worst_duration, c.worst_jitter} \subseteq Durations \cup {0}
         /\ a \in Seq([total : Nat, worst : Nat])
         /\ ob \in [Observations -> (0..MaxSamples) \X (0..MaxSamples)]
         /\ i \in 0..Len(Loads)+1
         /\ sn \in [observed : [Observations -> (0..MaxSamples) \X (0..MaxSamples)],
                    counters : [Counters -> Nat]]
  <1>1. sn \in [observed : [Observations -> Pairs], counters : [Counters -> Nat]]
    OBVIOUS
  <1>2. Len(Loads) + 1 = 7
    BY LoadsFacts
  <1>3. {c.worst_duration, c.worst_jitter} \subseteq Durations \cup {0}
    OBVIOUS
  <1> QED BY <1>1, <1>2, <1>3 DEF Due, Pairs, Samples

-----------------------------------------------------------------------------
(* The measurements: the callback. *)

\* Which of the callbacks' durations the counters have and which of them a
\* snapshot must at least show.
LEMMA Positions ==
  ASSUME MeasurementsInv
  PROVE  LET counted == snapshot.counters.callback_count
             settled == IF counted = 0 THEN 1 ELSE counted
         IN /\ Added \in 1..Callbacks /\ Compared \in 1..Callbacks
            /\ settled \in 1..Callbacks /\ settled <= Added /\ settled <= Compared
  <1>1. Callbacks \in Nat /\ Callbacks >= 1
    BY MeasurementTypes
  <1>2. snapshot.counters.callback_count \in 0..Callbacks-1
    BY MeasurementTypes
  <1>3. record # "idle" => Callbacks >= 2
    BY DEF MeasurementsInv, CountersDue
  <1>4. Added \in {Callbacks - 1, Callbacks} /\ Compared \in {Callbacks - 1, Callbacks}
    BY DEF Added, Compared
  <1>5. Added # Callbacks => record # "idle"
    BY DEF Added
  <1>6. Compared # Callbacks => record # "idle"
    BY DEF Compared
  <1> QED BY <1>1, <1>2, <1>3, <1>4, <1>5, <1>6

\* Nothing has been measured, set or copied to begin with.
LEMMA InitMeasurementsEstablishes == InitMeasurements => MeasurementsInv
  <1> SUFFICES ASSUME InitMeasurements
               PROVE  MeasurementsInv
    OBVIOUS
  <1> DEFINE zero == [total |-> 0, worst |-> 0]
  <1>1. /\ counters = NoCounters /\ record = "idle" /\ after = <<zero>>
        /\ observed = [o \in Observations |-> <<0, 0>>] /\ setter = "none"
        /\ samples = 0 /\ next_load = 0 /\ snapshot = NoSnapshot
    BY DEF InitMeasurements, NoSnapshot
  <1>2. /\ NoCounters \in [Counters -> Nat]
        /\ NoCounters.callback_count = 0 /\ NoCounters.callback_duration_total = 0
        /\ NoCounters.worst_duration = 0 /\ NoCounters.worst_jitter = 0
    BY DEF NoCounters, Counters
  <1>3. /\ after \in Seq(Due) /\ Len(after) = 1 /\ after[1] = zero
        /\ zero.total = 0 /\ zero.worst = 0
    BY <1>1 DEF Due
  <1>4. 0 \in Samples /\ <<0, 0>> \in Pairs
    BY MeasurementsAssumption DEF Samples, Pairs
  <1>5. /\ snapshot.observed = [o \in Observations |-> <<0, 0>>]
        /\ snapshot.counters = NoCounters
        /\ snapshot = [observed |-> snapshot.observed, counters |-> snapshot.counters]
    BY <1>1 DEF NoSnapshot
  <1>6. observed \in [Observations -> Pairs]
    BY <1>1, <1>4
  <1>7. MeasurementsTypeOK
    BY <1>1, <1>2, <1>3, <1>4, <1>5, <1>6, MeasurementTypesBack
       DEF MeasurementsTypeOK, Samples
  <1>8. CountersDue
    BY <1>1, <1>2, <1>3 DEF CountersDue, Callbacks, Added, Compared
  <1>9. Grows
    BY <1>3 DEF Grows, Callbacks
  <1>10. CountedBefore
    BY <1>1, <1>2, <1>5 DEF CountedBefore
  <1>11. ObservedOfOneSample /\ SameInterval
    BY <1>1, <1>5 DEF ObservedOfOneSample, SameInterval
  <1>12. SnapshotCoversCount
    BY <1>1 DEF SnapshotCoversCount
  <1> QED BY <1>7, <1>8, <1>9, <1>10, <1>11, <1>12 DEF MeasurementsInv

\* What is due after another callback.
LEMMA NextDue ==
  ASSUME MeasurementsInv, NEW d \in Durations, CountCallback(d)
  PROVE  /\ after' \in Seq(Due) /\ Callbacks' = Callbacks + 1
         /\ \A i \in 1..Callbacks : after'[i] = after[i]
         /\ after'[Callbacks + 1].total = after[Callbacks].total + d
         /\ after'[Callbacks + 1].worst = Larger(after[Callbacks].worst, d)
         /\ after'[Callbacks + 1].total >= after[Callbacks].total
         /\ after'[Callbacks + 1].worst >= after[Callbacks].worst
  <1> DEFINE new == [total |-> after[Callbacks].total + d,
                     worst |-> Larger(after[Callbacks].worst, d)]
  <1>1. /\ after \in Seq(Due) /\ Callbacks \in Nat /\ Callbacks >= 1
        /\ after[Callbacks].total \in Nat /\ after[Callbacks].worst \in Nat
    BY MeasurementTypes
  <1>2. d \in Nat
    BY MeasurementsAssumption
  <1>3. /\ new.total = after[Callbacks].total + d
        /\ new.worst = Larger(after[Callbacks].worst, d)
        /\ new.total >= after[Callbacks].total /\ new.worst >= after[Callbacks].worst
        /\ new.total \in Nat /\ new.worst \in Nat
    BY <1>1, <1>2 DEF Larger
  <1>4. new \in Due
    BY <1>3 DEF Due
  <1>5. after' = Append(after, new)
    BY DEF CountCallback, Callbacks
  <1> HIDE DEF new
  <1>6. /\ after' \in Seq(Due) /\ Len(after') = Len(after) + 1
        /\ \A i \in 1..Len(after) : after'[i] = after[i]
        /\ after'[Len(after) + 1] = new
    BY <1>1, <1>4, <1>5
  <1> QED BY <1>3, <1>6 DEF Callbacks

\* Counting a callback keeps the invariant: its duration is due from then on.
LEMMA CountCallbackKeeps ==
  ASSUME MeasurementsInv, NEW d \in Durations, CountCallback(d),
         UNCHANGED <<observationVars, snapshotVars>>
  PROVE  MeasurementsInv'
  <1> DEFINE n == Callbacks
  <1>1. /\ record = "idle" /\ record' = "total"
        /\ counters' = [counters EXCEPT !.callback_count = @ + 1]
    BY DEF CountCallback
  <1>2. /\ UNCHANGED <<observed, setter, samples, next_load, snapshot>>
    BY DEF observationVars, snapshotVars
  <1>3. /\ counters \in [Counters -> Nat] /\ n \in Nat /\ n >= 1
        /\ \A i \in 1..n : after[i].total \in Nat /\ after[i].worst \in Nat
        /\ counters.worst_duration \in Durations \cup {0}
        /\ counters.worst_jitter \in Durations \cup {0}
        /\ snapshot.counters.callback_count \in 0..n-1
    BY MeasurementTypes
  <1>4. /\ after' \in Seq(Due) /\ Callbacks' = n + 1
        /\ \A i \in 1..n : after'[i] = after[i]
        /\ after'[n + 1].total = after[n].total + d
        /\ after'[n + 1].worst = Larger(after[n].worst, d)
        /\ after'[n + 1].total >= after[n].total
        /\ after'[n + 1].worst >= after[n].worst
    BY NextDue
  <1>5. /\ counters' \in [Counters -> Nat]
        /\ counters'.callback_count = counters.callback_count + 1
        /\ counters'.callback_duration_total = counters.callback_duration_total
        /\ counters'.worst_duration = counters.worst_duration
        /\ counters'.worst_jitter = counters.worst_jitter
    BY <1>1, <1>3 DEF Counters
  <1>6. d \in Nat
    BY MeasurementsAssumption
  <1>7. MeasurementsTypeOK'
    <2>1. /\ observed' \in [Observations -> Pairs] /\ next_load' \in 0..7
          /\ snapshot'.observed \in [Observations -> Pairs]
          /\ snapshot'.counters \in [Counters -> Nat]
          /\ snapshot' = [observed |-> snapshot'.observed, counters |-> snapshot'.counters]
          /\ samples' \in 0..MaxSamples /\ setter' \in Observations \cup {"none"}
      BY <1>2, MeasurementTypes DEF Samples
    <2>2. /\ counters'.worst_duration \in Durations \cup {0}
          /\ counters'.worst_jitter \in Durations \cup {0}
      BY <1>3, <1>5
    <2> QED BY <1>1, <1>4, <1>5, <2>1, <2>2, MeasurementTypesBack
            DEF MeasurementsTypeOK
  <1>8. /\ Callbacks = counters.callback_count + 1 /\ Added = n /\ Compared = n
        /\ counters.callback_duration_total = after[n].total
        /\ counters.worst_duration = after[n].worst
    BY <1>1 DEF MeasurementsInv, CountersDue, Added, Compared
  <1>9. Len(after') = n + 1
    BY <1>4 DEF Callbacks
  <1> HIDE DEF n
  <1>10. Duration' = d
    BY <1>3, <1>4, <1>6, <1>9 DEF Duration
  <1>11. Added' = n /\ Compared' = n
    BY <1>1, <1>3, <1>4 DEF Added, Compared
  <1>12. counters.callback_count \in Nat
    BY <1>3 DEF Counters
  <1>13. CountersDue'
    <2>1. Callbacks' = counters'.callback_count + 1
      BY <1>4, <1>5, <1>8, <1>12 DEF n
    <2>2. Callbacks' >= 2
      BY <1>3, <1>4
    <2>3. after'[Callbacks'].worst = Larger(after'[Callbacks' - 1].worst, Duration')
      BY <1>3, <1>4, <1>10
    <2>4. /\ counters'.callback_duration_total = after'[Added'].total
          /\ counters'.worst_duration = after'[Compared'].worst
      BY <1>3, <1>4, <1>5, <1>8, <1>11
    <2> QED BY <2>1, <2>2, <2>3, <2>4, <1>10 DEF CountersDue
  <1>14. \A i, j \in 1..n : i <= j =>
           after[i].total <= after[j].total /\ after[i].worst <= after[j].worst
    BY DEF MeasurementsInv, Grows, n
  <1>15. Grows'
    <2> SUFFICES ASSUME NEW i \in 1..n+1, NEW j \in 1..n+1, i <= j
                 PROVE  /\ after'[i].total <= after'[j].total
                        /\ after'[i].worst <= after'[j].worst
      BY <1>4 DEF Grows
    <2>1. CASE j \in 1..n
      <3>1. i \in 1..n
        BY <1>3, <2>1
      <3> QED BY <1>4, <1>14, <2>1, <3>1
    <2>2. CASE j = n + 1 /\ i \in 1..n
      <3>1. n \in 1..n /\ i <= n
        BY <1>3, <2>2
      <3>2. after[i].total <= after[n].total /\ after[i].worst <= after[n].worst
        BY <1>14, <2>2, <3>1
      <3> DEFINE t == after'[n + 1].total
                 w == after'[n + 1].worst
      <3>3. t \in Nat /\ w \in Nat /\ t >= after[n].total /\ w >= after[n].worst
        BY <1>3, <1>4, <1>6, <3>1 DEF Larger
      <3> HIDE DEF t, w
      <3>4. after[i].total <= t /\ after[i].worst <= w
        BY <1>3, <2>2, <3>1, <3>2, <3>3
      <3> QED BY <1>4, <2>2, <3>4 DEF t, w
    <2>3. CASE i = n + 1 /\ j = n + 1
      <3>1. after'[n + 1].total \in Nat /\ after'[n + 1].worst \in Nat
        BY <1>3, <1>4, <1>6 DEF Larger
      <3> QED BY <2>3, <3>1
    <2> QED BY <1>3, <2>1, <2>2, <2>3
  <1>16. CountedBefore'
    <2>1. snapshot'.counters.callback_count = snapshot.counters.callback_count
      BY <1>2
    <2> QED BY <1>3, <1>5, <1>8, <1>12, <2>1 DEF CountedBefore, n
  <1>17. SnapshotCoversCount'
    <2> DEFINE counted == snapshot.counters.callback_count
               settled == IF counted = 0 THEN 1 ELSE counted
               total == snapshot.counters.callback_duration_total
               worst == snapshot.counters.worst_duration
    <2>1. settled \in 1..n
      BY <1>3
    <2>2. /\ next_load > 2 => total \in after[settled].total..after[n].total
          /\ next_load > 3 => worst \in after[settled].worst..after[n].worst
      BY DEF MeasurementsInv, SnapshotCoversCount, Callbacks, n
    <2> HIDE DEF settled, total, worst
    <2>3. /\ after'[settled] = after[settled] /\ n \in 1..n
          /\ after[settled].total \in Nat /\ after[settled].worst \in Nat
      BY <1>3, <1>4, <2>1
    <2> DEFINE t == after'[n + 1].total
               w == after'[n + 1].worst
    <2>5. /\ after[n].total \in Nat /\ after[n].worst \in Nat
      BY <1>3, <2>3
    <2>6. t \in Nat /\ w \in Nat /\ t >= after[n].total /\ w >= after[n].worst
      BY <1>4, <1>6, <2>5 DEF Larger
    <2> HIDE DEF t, w
    <2>7. /\ next_load > 2 => total \in after[settled].total..t
          /\ next_load > 3 => worst \in after[settled].worst..w
      BY <2>2, <2>3, <2>5, <2>6
    <2>4. /\ next_load > 2 => total \in after'[settled].total..after'[n + 1].total
          /\ next_load > 3 => worst \in after'[settled].worst..after'[n + 1].worst
      BY <2>3, <2>7 DEF t, w
    <2> QED BY <1>2, <1>9, <2>4 DEF SnapshotCoversCount, settled, total, worst
  <1>18. ObservedOfOneSample' /\ SameInterval'
    BY <1>2 DEF MeasurementsInv, ObservedOfOneSample, SameInterval
  <1> QED BY <1>7, <1>13, <1>15, <1>16, <1>17, <1>18 DEF MeasurementsInv

\* A step that only stores into counters other than the count keeps the
\* invariant if the counters are still those due.
LEMMA StoreKeeps ==
  ASSUME MeasurementsInv, UNCHANGED after,
         UNCHANGED <<observationVars, snapshotVars>>,
         counters' \in [Counters -> Nat],
         counters'.callback_count = counters.callback_count,
         counters'.worst_duration \in Durations \cup {0},
         counters'.worst_jitter \in Durations \cup {0},
         record' \in {"idle", "total", "worst"}, CountersDue'
  PROVE  MeasurementsInv'
  <1>1. UNCHANGED <<observed, setter, samples, next_load, snapshot>>
    BY DEF observationVars, snapshotVars
  <1>2. MeasurementsTypeOK'
    <2>1. /\ observed' \in [Observations -> Pairs] /\ next_load' \in 0..7
          /\ snapshot'.observed \in [Observations -> Pairs]
          /\ snapshot'.counters \in [Counters -> Nat]
          /\ snapshot' = [observed |-> snapshot'.observed, counters |-> snapshot'.counters]
          /\ samples' \in 0..MaxSamples /\ setter' \in Observations \cup {"none"}
          /\ after' \in Seq(Due)
      BY <1>1, MeasurementTypes DEF Samples
    <2> QED BY <2>1, MeasurementTypesBack DEF MeasurementsTypeOK
  <1>3. Grows' /\ SnapshotCoversCount'
    BY <1>1 DEF MeasurementsInv, Grows, Callbacks, SnapshotCoversCount
  <1>4. CountedBefore'
    BY <1>1 DEF MeasurementsInv, CountedBefore
  <1>5. ObservedOfOneSample' /\ SameInterval'
    BY <1>1 DEF MeasurementsInv, ObservedOfOneSample, SameInterval
  <1> QED BY <1>2, <1>3, <1>4, <1>5 DEF MeasurementsInv

\* The duration that is added is the one that is due.
LEMMA AddDurationKeeps ==
  ASSUME MeasurementsInv, AddDuration, UNCHANGED <<observationVars, snapshotVars>>
  PROVE  MeasurementsInv'
  <1>1. /\ record = "total" /\ record' = "worst" /\ after' = after
        /\ counters' = [counters EXCEPT !.callback_duration_total = @ + Duration]
    BY DEF AddDuration
  <1>2. /\ counters \in [Counters -> Nat] /\ Callbacks \in Nat
        /\ \A i \in 1..Callbacks : after[i].total \in Nat
        /\ counters.worst_duration \in Durations \cup {0}
        /\ counters.worst_jitter \in Durations \cup {0}
    BY MeasurementTypes
  <1>3. /\ Callbacks = counters.callback_count + 1 /\ Callbacks >= 2
        /\ Duration \in Durations
        /\ after[Callbacks].worst = Larger(after[Callbacks - 1].worst, Duration)
        /\ counters.callback_duration_total = after[Callbacks - 1].total
        /\ counters.worst_duration = after[Callbacks - 1].worst
    BY <1>1 DEF MeasurementsInv, CountersDue, Added, Compared
  <1>4. Duration \in Nat /\ Duration = after[Callbacks].total - after[Callbacks - 1].total
    BY <1>3, MeasurementsAssumption DEF Duration, Callbacks
  <1>5. counters.callback_duration_total + Duration = after[Callbacks].total
    <2>1. Callbacks \in 1..Callbacks /\ Callbacks - 1 \in 1..Callbacks
      BY <1>2, <1>3
    <2>2. after[Callbacks].total \in Nat /\ after[Callbacks - 1].total \in Nat
      BY <1>2, <2>1
    <2> QED BY <1>3, <1>4, <2>2
  <1>6. /\ counters'.callback_duration_total = counters.callback_duration_total + Duration
        /\ counters'.callback_count = counters.callback_count
        /\ counters'.worst_duration = counters.worst_duration
        /\ counters'.worst_jitter = counters.worst_jitter
        /\ counters' \in [Counters -> Nat]
    <2> DEFINE total == counters.callback_duration_total + Duration
    <2>3. counters.callback_duration_total \in Nat
      BY <1>2 DEF Counters
    <2>4. total \in Nat
      BY <1>4, <2>3
    <2>1. total \in Nat /\ counters' = [counters EXCEPT !["callback_duration_total"] = total]
      BY <1>1, <2>4
    <2> HIDE DEF total
    <2>2. /\ counters'.callback_duration_total = total
          /\ counters'.callback_count = counters.callback_count
          /\ counters'.worst_duration = counters.worst_duration
          /\ counters'.worst_jitter = counters.worst_jitter
          /\ counters' \in [Counters -> Nat]
      BY <1>2, <2>1 DEF Counters
    <2> QED BY <2>2 DEF total
  <1>7. CountersDue'
    <2>1. Duration' = Duration /\ Callbacks' = Callbacks
      BY <1>1 DEF Duration, Callbacks
    <2>2. Added' = Callbacks /\ Compared' = Callbacks - 1
      BY <1>1, <2>1 DEF Added, Compared
    <2>3. /\ Callbacks' = counters'.callback_count + 1 /\ Callbacks' >= 2
          /\ Duration' \in Durations
          /\ after'[Callbacks'].worst = Larger(after'[Callbacks' - 1].worst, Duration')
      BY <1>1, <1>3, <1>6, <2>1
    <2>4. /\ counters'.callback_duration_total = after'[Added'].total
          /\ counters'.worst_duration = after'[Compared'].worst
      BY <1>1, <1>3, <1>5, <1>6, <2>2
    <2> QED BY <2>3, <2>4 DEF CountersDue
  <1> QED BY <1>1, <1>2, <1>6, <1>7, StoreKeeps

\* The maximum that is stored is the one that is due.
LEMMA StoreWorstDurationKeeps ==
  ASSUME MeasurementsInv, StoreWorstDuration,
         UNCHANGED <<observationVars, snapshotVars>>
  PROVE  MeasurementsInv'
  <1>1. /\ record = "worst" /\ record' = "idle" /\ after' = after
        /\ counters' = [counters EXCEPT !.worst_duration = Larger(@, Duration)]
    BY DEF StoreWorstDuration
  <1>2. /\ counters \in [Counters -> Nat] /\ Callbacks \in Nat
        /\ counters.worst_duration \in Durations \cup {0}
        /\ counters.worst_jitter \in Durations \cup {0}
    BY MeasurementTypes
  <1>3. /\ Callbacks = counters.callback_count + 1
        /\ Duration \in Durations
        /\ after[Callbacks].worst = Larger(after[Callbacks - 1].worst, Duration)
        /\ counters.callback_duration_total = after[Callbacks].total
        /\ counters.worst_duration = after[Callbacks - 1].worst
    BY <1>1 DEF MeasurementsInv, CountersDue, Added, Compared
  <1>4. /\ counters'.callback_duration_total = counters.callback_duration_total
        /\ counters'.callback_count = counters.callback_count
        /\ counters'.worst_duration = Larger(counters.worst_duration, Duration)
        /\ counters'.worst_jitter = counters.worst_jitter
        /\ counters'.worst_duration \in Durations \cup {0}
        /\ counters' \in [Counters -> Nat]
    <2> DEFINE worst == Larger(counters.worst_duration, Duration)
    <2>4. worst \in {counters.worst_duration, Duration}
      BY DEF Larger
    <2>5. Durations \cup {0} \subseteq Nat
      BY MeasurementsAssumption
    <2>1. worst \in Durations \cup {0} /\ worst \in Nat
      BY <1>2, <1>3, <2>4, <2>5
    <2>2. counters' = [counters EXCEPT !["worst_duration"] = worst]
      BY <1>1
    <2> HIDE DEF worst
    <2>3. /\ counters'.callback_duration_total = counters.callback_duration_total
          /\ counters'.callback_count = counters.callback_count
          /\ counters'.worst_duration = worst
          /\ counters'.worst_jitter = counters.worst_jitter
          /\ counters' \in [Counters -> Nat]
      BY <1>2, <2>1, <2>2 DEF Counters
    <2> QED BY <2>1, <2>3 DEF worst
  <1>5. CountersDue'
    <2>1. Callbacks' = Callbacks
      BY <1>1 DEF Callbacks
    <2>2. Added' = Callbacks /\ Compared' = Callbacks
      BY <1>1, <2>1 DEF Added, Compared
    <2> QED BY <1>1, <1>3, <1>4, <2>1, <2>2 DEF CountersDue
  <1> QED BY <1>1, <1>2, <1>4, <1>5, StoreKeeps

\* Counting an xrun or comparing a jitter leaves what is due alone.
LEMMA OtherCounterKeeps ==
  ASSUME MeasurementsInv, UNCHANGED <<record, after>>,
         UNCHANGED <<observationVars, snapshotVars>>,
         NEW counter \in {"underrun_count", "overrun_count", "worst_jitter"},
         NEW value \in Nat,
         counter = "worst_jitter" => value \in Durations \cup {0},
         counters' = [counters EXCEPT ![counter] = value]
  PROVE  MeasurementsInv'
  <1>1. /\ counters \in [Counters -> Nat]
        /\ counters.worst_duration \in Durations \cup {0}
        /\ counters.worst_jitter \in Durations \cup {0}
        /\ record \in {"idle", "total", "worst"}
    BY MeasurementTypes
  <1>2. /\ counters'.callback_duration_total = counters.callback_duration_total
        /\ counters'.callback_count = counters.callback_count
        /\ counters'.worst_duration = counters.worst_duration
        /\ counters'.worst_jitter \in Durations \cup {0}
        /\ counters' \in [Counters -> Nat]
    BY <1>1 DEF Counters
  <1>3. CountersDue'
    <2>1. Callbacks' = Callbacks /\ Duration' = Duration
      BY DEF Callbacks, Duration
    <2>2. Added' = Added /\ Compared' = Compared
      BY <2>1 DEF Added, Compared
    <2> QED BY <1>2, <2>1, <2>2 DEF MeasurementsInv, CountersDue
  <1> QED BY <1>1, <1>2, <1>3, StoreKeeps

\* Whatever the callback measures keeps the invariant.
LEMMA MeasurementCallbackKeeps ==
  ASSUME MeasurementsInv, MeasurementCallback
  PROVE  MeasurementsInv'
  <1>1. UNCHANGED <<observationVars, snapshotVars>>
    BY DEF MeasurementCallback
  <1>2. /\ counters \in [Counters -> Nat]
        /\ counters.worst_jitter \in Durations \cup {0}
    BY MeasurementTypes
  <1>3. ASSUME NEW d \in Durations, CountCallback(d)
        PROVE  MeasurementsInv'
    BY <1>1, <1>3, CountCallbackKeeps
  <1>4. CASE AddDuration
    BY <1>1, <1>4, AddDurationKeeps
  <1>5. CASE StoreWorstDuration
    BY <1>1, <1>5, StoreWorstDurationKeeps
  <1>6. ASSUME NEW counter \in {"underrun_count", "overrun_count"}, RecordXrun(counter)
        PROVE  MeasurementsInv'
    <2> DEFINE value == counters[counter] + 1
    <2>1. value \in Nat
      BY <1>2 DEF Counters
    <2>2. /\ UNCHANGED <<record, after>>
          /\ counters' = [counters EXCEPT ![counter] = value]
      BY <1>6 DEF RecordXrun
    <2> HIDE DEF value
    <2> QED BY <1>1, <2>1, <2>2, OtherCounterKeeps
  <1>7. ASSUME NEW jitter \in Durations, RecordSchedulingJitter(jitter)
        PROVE  MeasurementsInv'
    <2> DEFINE value == Larger(counters.worst_jitter, jitter)
    <2>1. value \in Durations \cup {0} /\ value \in Nat
      BY <1>2, MeasurementsAssumption DEF Larger
    <2>2. /\ UNCHANGED <<record, after>>
          /\ counters' = [counters EXCEPT !["worst_jitter"] = value]
      BY <1>7 DEF RecordSchedulingJitter
    <2> HIDE DEF value
    <2> QED BY <1>1, <2>1, <2>2, OtherCounterKeeps
  <1> QED BY <1>3, <1>4, <1>5, <1>6, <1>7 DEF MeasurementCallback, RecordCallbackDuration

-----------------------------------------------------------------------------
(* The measurements: the device thread and the monitor. *)

\* Setting an observation, in its two steps under the mutex, keeps the
\* invariant: only the observation being set is of two samples.
LEMMA MeasurementControlKeeps ==
  ASSUME MeasurementsInv, MeasurementControl
  PROVE  MeasurementsInv'
  <1>1. UNCHANGED <<counters, record, after, next_load, snapshot>>
    BY DEF MeasurementControl, EndSet, SetObservation, callbackVars, snapshotVars
  <1>2. /\ observed \in [Observations -> Pairs] /\ samples \in Samples
        /\ setter \in Observations \cup {"none"}
    BY MeasurementTypes
  <1>3. /\ \A o \in Observations : o # setter => observed[o][1] = observed[o][2]
        /\ setter # "none" => observed[setter][1] = samples
    BY DEF MeasurementsInv, ObservedOfOneSample
  <1>4. /\ observed' \in [Observations -> Pairs] /\ samples' \in Samples
        /\ setter' \in Observations \cup {"none"} /\ ObservedOfOneSample'
    <2>1. ASSUME NEW o \in Observations, SetObservation(o)
          PROVE  /\ observed' \in [Observations -> Pairs] /\ samples' \in Samples
                 /\ setter' \in Observations \cup {"none"} /\ ObservedOfOneSample'
      <3> DEFINE pair == [observed[o] EXCEPT ![1] = samples + 1]
      <3>1. /\ setter = "none" /\ setter' = o /\ samples' = samples + 1
            /\ observed' = [observed EXCEPT ![o] = pair] /\ samples < MaxSamples
        BY <2>1 DEF SetObservation
      <3>2. samples + 1 \in Samples
        BY <1>2, <3>1, MeasurementsAssumption DEF Samples
      <3>3. pair \in Pairs /\ pair[1] = samples + 1
        BY <1>2, <3>2, PairUpdate
      <3> HIDE DEF pair
      <3>4. /\ observed' \in [Observations -> Pairs] /\ observed'[o] = pair
            /\ \A p \in Observations : p # o => observed'[p] = observed[p]
        BY <1>2, <3>1, <3>3
      <3>5. \A p \in Observations : p # "none"
        BY MeasurementsAssumption
      <3> QED BY <1>3, <3>1, <3>2, <3>3, <3>4, <3>5 DEF ObservedOfOneSample
    <2>2. CASE EndSet
      <3> DEFINE pair == [observed[setter] EXCEPT ![2] = samples]
      <3>1. /\ setter \in Observations /\ setter' = "none" /\ samples' = samples
            /\ observed' = [observed EXCEPT ![setter] = pair]
        BY <1>2, <2>2 DEF EndSet
      <3>2. observed[setter] \in Pairs
        BY <1>2, <3>1
      <3>3. /\ pair \in Pairs /\ pair[2] = samples
            /\ pair[1] = observed[setter][1]
        BY <1>2, <3>2, PairUpdate
      <3>4. pair[1] = samples
        BY <1>3, <3>1, <3>3, MeasurementsAssumption
      <3> HIDE DEF pair
      <3>5. /\ observed' \in [Observations -> Pairs] /\ observed'[setter] = pair
            /\ \A p \in Observations : p # setter => observed'[p] = observed[p]
        BY <1>2, <3>1, <3>3
      <3> QED BY <1>2, <1>3, <3>1, <3>3, <3>4, <3>5 DEF ObservedOfOneSample
    <2> QED BY <2>1, <2>2 DEF MeasurementControl
  <1>5. MeasurementsTypeOK'
    <2>1. /\ counters \in [Counters -> Nat]
          /\ counters.worst_duration \in Durations \cup {0}
          /\ counters.worst_jitter \in Durations \cup {0}
          /\ record \in {"idle", "total", "worst"} /\ after \in Seq(Due)
          /\ next_load \in 0..7
          /\ snapshot.observed \in [Observations -> Pairs]
          /\ snapshot.counters \in [Counters -> Nat]
          /\ snapshot = [observed |-> snapshot.observed, counters |-> snapshot.counters]
      BY MeasurementTypes
    <2> QED BY <1>1, <1>4, <2>1, MeasurementTypesBack DEF MeasurementsTypeOK, Samples
  <1>6. CountersDue' /\ Grows'
    BY <1>1 DEF MeasurementsInv, CountersDue, Grows, Callbacks, Added, Compared, Duration
  <1>7. CountedBefore' /\ SnapshotCoversCount' /\ SameInterval'
    BY <1>1 DEF MeasurementsInv, CountedBefore, SnapshotCoversCount, SameInterval
  <1> QED BY <1>4, <1>5, <1>6, <1>7 DEF MeasurementsInv

\* A step of the monitor keeps the invariant if it keeps what is said of the
\* snapshot.
LEMMA MonitorKeeps ==
  ASSUME MeasurementsInv, UNCHANGED <<callbackVars, observationVars>>,
         next_load' \in 0..7,
         snapshot' = [observed |-> snapshot'.observed, counters |-> snapshot'.counters],
         snapshot'.observed \in [Observations -> Pairs],
         snapshot'.counters \in [Counters -> Nat],
         CountedBefore', SnapshotCoversCount', SameInterval'
  PROVE  MeasurementsInv'
  <1>1. UNCHANGED <<counters, record, after, observed, setter, samples>>
    BY DEF callbackVars, observationVars
  <1>2. MeasurementsTypeOK'
    <2>1. /\ counters \in [Counters -> Nat]
          /\ counters.worst_duration \in Durations \cup {0}
          /\ counters.worst_jitter \in Durations \cup {0}
          /\ record \in {"idle", "total", "worst"} /\ after \in Seq(Due)
          /\ observed \in [Observations -> Pairs] /\ samples \in Samples
          /\ setter \in Observations \cup {"none"}
      BY MeasurementTypes
    <2> QED BY <1>1, <2>1, MeasurementTypesBack DEF MeasurementsTypeOK, Samples
  <1>3. CountersDue' /\ Grows' /\ ObservedOfOneSample'
    BY <1>1 DEF MeasurementsInv, CountersDue, Grows, Callbacks, Added, Compared,
                Duration, ObservedOfOneSample
  <1> QED BY <1>2, <1>3 DEF MeasurementsInv

\* Copying the observations, under the mutex.
LEMMA CopyObservationsKeeps ==
  ASSUME MeasurementsInv, CopyObservations
  PROVE  MeasurementsInv'
  <1>1. /\ next_load' = 1 /\ setter = "none"
        /\ snapshot' = [snapshot EXCEPT !.observed = observed]
        /\ UNCHANGED <<callbackVars, observationVars>>
    BY DEF CopyObservations
  <1>2. /\ observed \in [Observations -> Pairs]
        /\ snapshot.counters \in [Counters -> Nat]
        /\ snapshot = [observed |-> snapshot.observed, counters |-> snapshot.counters]
    BY MeasurementTypes
  <1>3. snapshot' = [observed |-> observed, counters |-> snapshot.counters]
    BY <1>1, <1>2
  <1>4. /\ snapshot'.observed = observed /\ snapshot'.counters = snapshot.counters
        /\ snapshot' = [observed |-> snapshot'.observed, counters |-> snapshot'.counters]
    BY <1>3
  <1>5. CountedBefore'
    BY <1>1, <1>4 DEF MeasurementsInv, CountedBefore, callbackVars
  <1>6. SnapshotCoversCount'
    BY <1>1 DEF SnapshotCoversCount
  <1>7. SameInterval'
    BY <1>1, <1>4, MeasurementsAssumption
       DEF MeasurementsInv, ObservedOfOneSample, SameInterval
  <1>8. next_load' \in 0..7
    BY <1>1
  <1> QED BY <1>1, <1>2, <1>4, <1>5, <1>6, <1>7, <1>8, MonitorKeeps

\* Returning the snapshot: the next one starts from nothing.
LEMMA ReturnKeeps ==
  ASSUME MeasurementsInv, Return
  PROVE  MeasurementsInv'
  <1>1. /\ next_load' = 0 /\ snapshot' = NoSnapshot
        /\ UNCHANGED <<callbackVars, observationVars>>
    BY DEF Return
  <1>2. /\ snapshot'.observed = [o \in Observations |-> <<0, 0>>]
        /\ snapshot'.counters = NoCounters
        /\ snapshot' = [observed |-> snapshot'.observed, counters |-> snapshot'.counters]
    BY <1>1 DEF NoSnapshot
  <1>3. NoCounters \in [Counters -> Nat] /\ NoCounters.callback_count = 0
    BY DEF NoCounters, Counters
  <1>4. 0 \in Samples /\ <<0, 0>> \in Pairs
    BY MeasurementsAssumption DEF Samples, Pairs
  <1>5. snapshot'.observed \in [Observations -> Pairs] /\ SameInterval'
    BY <1>2, <1>4 DEF SameInterval
  <1>6. CountedBefore'
    <2>1. counters \in [Counters -> Nat] /\ counters' = counters
      BY <1>1, MeasurementTypes DEF callbackVars
    <2>2. counters.callback_count \in Nat
      BY <2>1 DEF Counters
    <2> QED BY <1>2, <1>3, <2>1, <2>2 DEF CountedBefore
  <1>7. SnapshotCoversCount' /\ next_load' \in 0..7
    BY <1>1 DEF SnapshotCoversCount
  <1> QED BY <1>1, <1>2, <1>3, <1>5, <1>6, <1>7, MonitorKeeps

\* Loading a counter: the total that is loaded after the count covers it,
\* and so does the maximum.
LEMMA LoadCounterKeeps ==
  ASSUME MeasurementsInv, LoadCounter
  PROVE  MeasurementsInv'
  <1> DEFINE c == Loads[next_load]
             counted == snapshot.counters.callback_count
             settled == IF counted = 0 THEN 1 ELSE counted
             last == Callbacks
             total == snapshot.counters.callback_duration_total
             worst == snapshot.counters.worst_duration
  <1>1. /\ next_load \in 1..6 /\ next_load' = next_load + 1
        /\ snapshot' = [snapshot EXCEPT !.counters[c] = counters[c]]
        /\ UNCHANGED <<callbackVars, observationVars>>
    BY LoadsFacts DEF LoadCounter
  <1>2. /\ counters \in [Counters -> Nat]
        /\ snapshot.counters \in [Counters -> Nat]
        /\ snapshot.observed \in [Observations -> Pairs]
        /\ snapshot = [observed |-> snapshot.observed, counters |-> snapshot.counters]
    BY MeasurementTypes
  <1>3. /\ c \in Counters
        /\ (c = "callback_count") <=> (next_load = 1)
        /\ (c = "callback_duration_total") <=> (next_load = 2)
        /\ (c = "worst_duration") <=> (next_load = 3)
    BY <1>1, LoadsFacts
  <1> HIDE DEF c
  <1>4. snapshot' = [observed |-> snapshot.observed,
                     counters |-> [snapshot.counters EXCEPT ![c] = counters[c]]]
    BY <1>1, <1>2
  <1>5. /\ snapshot'.observed = snapshot.observed
        /\ snapshot'.counters = [snapshot.counters EXCEPT ![c] = counters[c]]
        /\ snapshot' = [observed |-> snapshot'.observed, counters |-> snapshot'.counters]
    BY <1>4
  <1>6. /\ snapshot'.counters \in [Counters -> Nat]
        /\ \A k \in Counters :
             snapshot'.counters[k] = IF k = c THEN counters[k] ELSE snapshot.counters[k]
    BY <1>2, <1>3, <1>5
  <1>7. /\ snapshot'.counters.callback_count =
             (IF next_load = 1 THEN counters.callback_count ELSE counted)
        /\ snapshot'.counters.callback_duration_total =
             (IF next_load = 2 THEN counters.callback_duration_total ELSE total)
        /\ snapshot'.counters.worst_duration =
             (IF next_load = 3 THEN counters.worst_duration ELSE worst)
    BY <1>3, <1>6 DEF Counters
  <1>8. CountedBefore'
    <2>1. counters' = counters /\ counters.callback_count \in Nat
      BY <1>1, <1>2 DEF callbackVars, Counters
    <2> QED BY <1>7, <2>1 DEF MeasurementsInv, CountedBefore
  <1>9. SnapshotCoversCount'
    <2>1. /\ Added \in 1..last /\ Compared \in 1..last /\ last \in 1..last
          /\ settled \in 1..last /\ settled <= Added /\ settled <= Compared
          /\ Added <= last /\ Compared <= last
      <3>1. Callbacks \in Nat
        BY MeasurementTypes
      <3> QED BY <3>1, Positions
    <2>2. /\ next_load > 2 => total \in after[settled].total..after[last].total
          /\ next_load > 3 => worst \in after[settled].worst..after[last].worst
      BY DEF MeasurementsInv, SnapshotCoversCount, Callbacks
    <2>3. \A i \in 1..last : after[i].total \in Nat /\ after[i].worst \in Nat
      BY MeasurementTypes
    <2>4. \A i, j \in 1..last : i <= j =>
            after[i].total <= after[j].total /\ after[i].worst <= after[j].worst
      BY DEF MeasurementsInv, Grows
    <2>5. /\ counters.callback_duration_total = after[Added].total
          /\ counters.worst_duration = after[Compared].worst
      BY DEF MeasurementsInv, CountersDue
    <2>6. after' = after /\ Len(after) = last
      BY <1>1 DEF callbackVars, Callbacks
    <2> HIDE DEF settled, counted, last, total, worst
    <2>7. after[Added].total \in after[settled].total..after[last].total
      BY <2>1, <2>3, <2>4
    <2>8. after[Compared].worst \in after[settled].worst..after[last].worst
      BY <2>1, <2>3, <2>4
    <2>9. CASE next_load = 1
      <3>1. ~(next_load' > 2) /\ ~(next_load' > 3)
        BY <1>1, <2>9
      <3> QED BY <3>1 DEF SnapshotCoversCount
    <2>10. CASE next_load # 1
      <3>1. snapshot'.counters.callback_count = counted
        BY <1>7, <2>10
      <3>2. next_load' > 2 =>
              snapshot'.counters.callback_duration_total
                \in after[settled].total..after[last].total
        <4>1. next_load = 2 \/ next_load > 2
          BY <1>1, <2>10
        <4> QED BY <1>7, <2>2, <2>5, <2>7, <4>1
      <3>3. next_load' > 3 =>
              snapshot'.counters.worst_duration
                \in after[settled].worst..after[last].worst
        <4>1. next_load' > 3 => next_load = 3 \/ next_load > 3
          BY <1>1
        <4> QED BY <1>7, <2>2, <2>5, <2>8, <4>1
      <3> QED BY <2>6, <3>1, <3>2, <3>3 DEF SnapshotCoversCount, settled
    <2> QED BY <2>9, <2>10
  <1>10. SameInterval' /\ next_load' \in 0..7
    BY <1>1, <1>5 DEF MeasurementsInv, SameInterval
  <1> QED BY <1>1, <1>2, <1>5, <1>6, <1>8, <1>9, <1>10, MonitorKeeps

-----------------------------------------------------------------------------
(* The callback with what runs beside it. *)

\* A step of one of the two leaves what is said of the other as it is.
LEMMA ProcessorStutters ==
  ASSUME ProcessorInv, UNCHANGED processorVars
  PROVE  ProcessorInv'
  BY DEF ProcessorInv, ProcessorTypeOK, AssignedSoFar, AdmittedFits,
         CopiesAgreedFrames, processorVars, configurationVars, processVars

\* The same of the measurements.
LEMMA MeasurementsStutter ==
  ASSUME MeasurementsInv, UNCHANGED measurementVars
  PROVE  MeasurementsInv'
  <1>1. UNCHANGED <<counters, record, after, observed, setter, samples, next_load,
                    snapshot>>
    BY DEF measurementVars, callbackVars, observationVars, snapshotVars
  <1>2. MeasurementsTypeOK'
    BY <1>1 DEF MeasurementsInv, MeasurementsTypeOK
  <1>3. CountersDue' /\ Grows' /\ CountedBefore' /\ SnapshotCoversCount'
    BY <1>1 DEF MeasurementsInv, CountersDue, Grows, CountedBefore, SnapshotCoversCount,
                Callbacks, Added, Compared, Duration
  <1>4. ObservedOfOneSample' /\ SameInterval'
    BY <1>1 DEF MeasurementsInv, ObservedOfOneSample, SameInterval
  <1> QED BY <1>2, <1>3, <1>4 DEF MeasurementsInv

\* The two invariants hold in every state of the threads around the callback.
THEOREM Invariance == Spec => []IInv
  <1>1. Init => IInv
    BY InitProcessorEstablishes, InitMeasurementsEstablishes DEF Init, IInv
  <1>2. IInv /\ [Next]_vars => IInv'
    <2> SUFFICES ASSUME ProcessorInv, MeasurementsInv, [Next]_vars
                 PROVE  ProcessorInv' /\ MeasurementsInv'
      BY DEF IInv
    <2>1. CASE Callback
      BY <2>1, CallbackKeepsProcessorInv, MeasurementCallbackKeeps,
         ProcessorStutters, MeasurementsStutter DEF Callback
    <2>2. CASE Control
      BY <2>2, ControlKeepsProcessorInv, MeasurementControlKeeps,
         ProcessorStutters, MeasurementsStutter DEF Control
    <2>3. CASE Monitor
      BY <2>3, CopyObservationsKeeps, LoadCounterKeeps, ReturnKeeps,
         ProcessorStutters DEF Monitor, Snapshot
    <2>4. CASE UNCHANGED vars
      BY <2>4, ProcessorStutters, MeasurementsStutter DEF vars
    <2> QED BY <2>1, <2>2, <2>3, <2>4 DEF Next
  <1> QED BY <1>1, <1>2, PTL DEF Spec

\* Every variable keeps its type, however many calls the threads make.
THEOREM TypeCorrect == Spec => []TypeOK
  <1>1. IInv => TypeOK
    <2>1. ProcessorInv => ProcessorTypeOK
      BY DEF ProcessorInv
    <2>2. MeasurementsInv => MeasurementsTypeOK
      BY DEF MeasurementsInv
    <2> QED BY <2>1, <2>2 DEF IInv, TypeOK
  <1> QED BY <1>1, Invariance, PTL

\* A call of Process that no Configure overlaps copies complete frames of the
\* last accepted configuration and no more of them than its bound.
THEOREM CopiesOnlyAgreedFrames == Spec => []CopiesAgreedFrames
  <1>1. IInv => CopiesAgreedFrames
    BY DEF IInv, ProcessorInv
  <1> QED BY <1>1, Invariance, PTL

\* A snapshot taken while the callback is measured has a total and a maximum
\* that cover every callback it counts but the last, and nothing unmeasured.
THEOREM SnapshotAlwaysCovers == Spec => []SnapshotCoversCount
  <1>1. IInv => SnapshotCoversCount
    BY DEF IInv, MeasurementsInv
  <1> QED BY <1>1, Invariance, PTL

\* The two values of an observation in a snapshot are of one sample.
THEOREM AlwaysSameInterval == Spec => []SameInterval
  <1>1. IInv => SameInterval
    BY DEF IInv, MeasurementsInv
  <1> QED BY <1>1, Invariance, PTL
=============================================================================
