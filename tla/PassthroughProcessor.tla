------------------------ MODULE PassthroughProcessor ------------------------
(***************************************************************************)
(* DspCore's PcmPassthroughProcessor: a control thread configures it, the  *)
(* callback copies PCM through it.  Its three fields are plain memory, so  *)
(* that another thread may see what Configure assigns in any order;        *)
(* Process reads the flag and the bound first and the format later.        *)
(***************************************************************************)
EXTENDS Integers

CONSTANTS
  Formats,     \* the formats Configure is called with
  FrameCounts, \* frame counts: of Process, and Configure's bound
  SizeBits,    \* width of size_t: 64 in the code
  MaxCalls     \* bound: calls of Process in a behaviour

ASSUME PassthroughAssumption ==
  /\ \A f \in Formats : f.sample_rate_hz \in Nat /\ f.channel_count \in Nat
                        /\ f.bytes_per_frame \in Nat
  /\ FrameCounts \subseteq Nat /\ SizeBits \in Nat /\ MaxCalls \in Nat
\* A uint16_t times a uint32_t fits into a size_t.
ASSUME SizeAssumption ==
  /\ 2^SizeBits \in Nat \ {0}
  /\ \A f \in Formats, n \in FrameCounts : f.bytes_per_frame * n < 2^SizeBits

VARIABLES
  fields,     \* format_, maximum_frames_per_callback_, configured_
  request,    \* the arguments of a Configure that has passed its checks
  assigning,  \* the fields it has still to assign
  process,    \* Process: "idle", "admitted" or "copied"
  frames,     \* its frame_count
  copied,     \* the bytes of its memmove
  process_calls, processed_frames, rejected_calls,  \* PassthroughMetrics
  agreed,     \* history: the last configuration that was accepted
  overlapped  \* history: Configure ran during this call of Process

configurationVars == <<fields, request, assigning, agreed>>
processVars == <<process, frames, copied, process_calls, processed_frames,
                 rejected_calls>>
processorVars == <<configurationVars, processVars, overlapped>>

NoFormat == [sample_rate_hz |-> 0, channel_count |-> 0, bytes_per_frame |-> 0]
Unconfigured == [format |-> NoFormat, maximum |-> 0, configured |-> FALSE]

InitProcessor ==
  /\ fields = Unconfigured /\ request = Unconfigured /\ agreed = Unconfigured
  /\ assigning = {} /\ overlapped = FALSE
  /\ process = "idle" /\ frames = 0 /\ copied = 0
  /\ process_calls = 0 /\ processed_frames = 0 /\ rejected_calls = 0

IsSupported(f) ==
  /\ f.sample_rate_hz \in 32000..192000
  /\ f.channel_count \in 1..8
  /\ f.bytes_per_frame >= f.channel_count

\* maximum_bytes > numeric_limits<size_t>::max() / 2
TooLarge(f, n) ==
  (f.bytes_per_frame * n) % 2^SizeBits > (2^SizeBits - 1) \div 2

\* Faulty variant: the bound is assigned before the format is checked.
Configure_AssignsFirst(f, n) ==
  /\ assigning = {}
  /\ overlapped' = (process # "idle")
  /\ IF IsSupported(f) /\ n # 0
     THEN /\ request' = [format |-> f, maximum |-> n, configured |-> TRUE]
          /\ assigning' = DOMAIN request
          /\ UNCHANGED <<fields, agreed, processVars>>
     ELSE /\ fields' = [fields EXCEPT !.maximum = n]
          /\ UNCHANGED <<request, assigning, agreed, processVars>>

\* A call that is refused returns before any assignment: no step.
Configure(f, n) ==
  /\ assigning = {}
  /\ IsSupported(f) /\ n # 0 /\ ~TooLarge(f, n)
  /\ request' = [format |-> f, maximum |-> n, configured |-> TRUE]
  /\ assigning' = DOMAIN request
  /\ overlapped' = (process # "idle")
  /\ UNCHANGED <<fields, agreed, processVars>>

Assign(field) ==
  /\ field \in assigning
  /\ fields' = [fields EXCEPT ![field] = request[field]]
  /\ assigning' = assigning \ {field}
  /\ agreed' = IF assigning' = {} THEN request ELSE agreed
  /\ UNCHANGED <<request, processVars, overlapped>>

\* null: one of the two buffers is.
Rejects(n, null) ==
  ~fields.configured \/ n > fields.maximum \/ (n # 0 /\ null)

Process(n, null) ==
  /\ process = "idle" /\ process_calls < MaxCalls
  /\ process_calls' = process_calls + 1
  /\ \/ /\ Rejects(n, null)
        /\ rejected_calls' = rejected_calls + 1
        /\ UNCHANGED <<process, frames, overlapped>>
     \/ /\ ~Rejects(n, null)
        /\ process' = "admitted" /\ frames' = n
        /\ overlapped' = (assigning # {})
        /\ UNCHANGED rejected_calls
  /\ UNCHANGED <<configurationVars, copied, processed_frames>>

Copy ==
  /\ process = "admitted"
  /\ process' = "copied"
  /\ copied' = (frames * fields.format.bytes_per_frame) % 2^SizeBits
  /\ UNCHANGED <<configurationVars, frames, process_calls, processed_frames,
                 rejected_calls, overlapped>>

CountFrames ==
  /\ process = "copied"
  /\ process' = "idle" /\ frames' = 0 /\ copied' = 0 /\ overlapped' = FALSE
  /\ processed_frames' = processed_frames + frames
  /\ UNCHANGED <<configurationVars, process_calls, rejected_calls>>

ProcessorControl ==
  \/ \E f \in Formats, n \in FrameCounts : Configure(f, n)
  \/ \E field \in assigning : Assign(field)

ProcessorCallback ==
  \/ \E n \in FrameCounts, null \in BOOLEAN : Process(n, null)
  \/ Copy \/ CountFrames

SpecProcessor ==
  InitProcessor /\ [][ProcessorControl \/ ProcessorCallback]_processorVars

-----------------------------------------------------------------------------
Configurations ==
  {Unconfigured} \cup
  [format : {f \in Formats : IsSupported(f)}, maximum : FrameCounts \ {0},
   configured : {TRUE}]

\* Every variable keeps its type; a configuration that was completed has a
\* supported format and a bound of at least one frame.
ProcessorTypeOK ==
  /\ request \in Configurations /\ agreed \in Configurations
  /\ assigning \subseteq DOMAIN Unconfigured
  /\ fields \in [format : {c.format : c \in Configurations},
                 maximum : {0} \cup FrameCounts, configured : BOOLEAN]
  /\ process \in {"idle", "admitted", "copied"} /\ overlapped \in BOOLEAN
  /\ frames \in FrameCounts \cup {0} /\ copied \in 0..2^SizeBits-1
  /\ process_calls \in 0..MaxCalls /\ rejected_calls \in 0..process_calls
  /\ processed_frames \in Nat

\* "a bounded byte-for-byte copy of complete PCM frames ... Frame counts
\* above the configured bound fail without copying": as long as Configure
\* does not run during the call, what is copied are complete frames of the
\* last accepted configuration and no more of them than its bound, however
\* many calls of Configure were made or refused before.
CopiesAgreedFrames ==
  process = "copied" /\ ~overlapped =>
    /\ frames <= agreed.maximum
    /\ copied = frames * agreed.format.bytes_per_frame
=============================================================================
