----------------------------- MODULE AsyncLogger -----------------------------
(***************************************************************************)
(* Foundation's AsyncLogger: a control thread starts and stops it, any     *)
(* number of threads log records into a bounded queue under a mutex, one   *)
(* worker thread writes them to a file and drains the real-time event      *)
(* queue.                                                                  *)
(*                                                                         *)
(* A critical section of mutex_ is one step, as is every access outside    *)
(* it.  A record is only counted: its text and severity are left out, and  *)
(* a record that is filtered by its severity is a call that does nothing.  *)
(* Sizes of lines and files are in units of a shortest line.               *)
(***************************************************************************)
EXTENDS Integers, Sequences, FiniteSets

CONSTANTS
  Loggers,        \* threads that call Log
  Configurations, \* what Start is called with
  LineSizes,      \* the sizes of a formatted line
  CounterBits,    \* width of the metrics: 64 in the code
  Events,         \* the real-time events
  Capacity,       \* how many events the real-time queue holds
  MaxUnmeasured   \* bound: the longest file whose size Start may fail to learn

ASSUME ConfigurationAssumption ==
  \A c \in Configurations :
    /\ c.maximum_pending_records \in Nat
    /\ c.maximum_file_size \in Nat
    /\ c.has_events \in BOOLEAN
ASSUME LineAssumption == LineSizes \subseteq Nat \ {0}
ASSUME BoundAssumption == MaxUnmeasured \in Nat
ASSUME CounterAssumption == CounterBits \in Nat /\ 2 ^ CounterBits \in Nat \ {0}

VARIABLES
  control,         \* the control thread: "idle", "joining" or "closing" in Stop
  log_pc,          \* each logger: "idle", or "enqueue" past the severity check
  accepting,       \* accepting_records_
  stop_requested,  \* stop_requested_
  pending,         \* the length of pending_records_
  configuration,   \* configuration_, and whether realtime_events_ is set
  worker,          \* worker_: "none" when not joinable, else its next step
  stopping,        \* WorkerMain's local of that name
  open, failed,    \* output_: is_open(), and the sticky fail()
  bytes_written,   \* file_bytes_written_
  disk,            \* the size of the file
  unmeasured,      \* history: the bytes of the file that Start took for 0
  queue, received, \* the real-time event queue (EventQueue)
  accepted, dropped, written, consumed, suppressed, failures  \* metrics_

RealtimeQueue == INSTANCE EventQueue

callers == <<control, log_pc>>
locked == <<accepting, stop_requested, pending, configuration>>
output == <<open, failed, bytes_written, disk, unmeasured>>
events == <<queue, received>>
producerMetrics == <<accepted, dropped>>
writeMetrics == <<written, suppressed, failures>>
vars == <<callers, locked, worker, stopping, output, events, producerMetrics,
          writeMetrics, consumed>>

\* The initialisers of configuration_ and realtime_events_.
DefaultConfiguration ==
  [maximum_pending_records |-> 256, maximum_file_size |-> 4194304,
   has_events |-> FALSE]

CounterModulus == 2 ^ CounterBits
Increment(counter) == (counter + 1) % CounterModulus

Init ==
  /\ control = "idle" /\ log_pc = [l \in Loggers |-> "idle"]
  /\ accepting = FALSE /\ stop_requested = FALSE /\ pending = 0
  /\ configuration = DefaultConfiguration
  /\ worker = "none" /\ stopping = FALSE
  /\ open = FALSE /\ failed = FALSE /\ bytes_written = 0 /\ disk = 0
  /\ unmeasured = 0
  /\ RealtimeQueue!Init
  /\ accepted = 0 /\ dropped = 0 /\ written = 0 /\ consumed = 0
  /\ suppressed = 0 /\ failures = 0

-----------------------------------------------------------------------------
(* The control thread. *)

IsConfigurationValid(c) ==
  c.maximum_pending_records >= 1 /\ c.maximum_file_size >= 1

\* open, seekp and tellp.  To open a stream that is still open fails it, as a
\* failed seek does; a failed stream has size 0.  tellp may also answer -1 of
\* a stream that is good, which is size 0 as well.
ExistingSize ==
  \/ failed' = TRUE /\ bytes_written' = 0 /\ unmeasured' = 0
  \/ ~open /\ failed' = FALSE /\ bytes_written' = disk /\ unmeasured' = 0
  \/ /\ ~open /\ disk <= MaxUnmeasured
     /\ failed' = FALSE /\ bytes_written' = 0 /\ unmeasured' = disk

\* Refused while accepting, with limits of 0, or when the directories or the
\* file cannot be made: no step.  With the file open, the copy of the
\* configuration may throw (its path is the first thing copied).  The last
\* thing Start does is to make the thread; when that throws, everything before
\* it stays done.
Start(c) ==
  /\ control = "idle"
  /\ IsConfigurationValid(c)
  /\ ~accepting
  /\ open' = TRUE
  /\ ExistingSize
  /\ \/ UNCHANGED <<configuration, stop_requested, accepting, worker>>
     \/ /\ configuration' = c
        /\ stop_requested' = FALSE
        /\ accepting' = TRUE
        /\ worker' \in {"waiting", "none"}
  /\ UNCHANGED <<callers, pending, stopping, disk, events, producerMetrics,
                 writeMetrics, consumed>>

\* Faulty variant: the worker is not told.
StopRequest_Silent ==
  /\ control = "idle"
  /\ accepting
  /\ accepting' = FALSE
  /\ control' = "joining"
  /\ UNCHANGED <<log_pc, stop_requested, pending, configuration, worker,
                 stopping, output, events, producerMetrics, writeMetrics,
                 consumed>>

StopRequest ==
  /\ control = "idle"
  /\ accepting
  /\ accepting' = FALSE
  /\ stop_requested' = TRUE
  /\ control' = "joining"
  /\ UNCHANGED <<log_pc, pending, configuration, worker, stopping, output,
                 events, producerMetrics, writeMetrics, consumed>>

\* Faulty variant: the thread is detached instead of joined.
Joinable_Detached == {"none", "done", "waiting", "writing", "locking",
                      "draining", "writing_event"}
\* join() returns when WorkerMain has; without a thread there is no join.
Joinable == {"none", "done"}

StopJoin ==
  /\ control = "joining"
  /\ worker \in Joinable
  /\ worker' = IF worker = "done" THEN "none" ELSE worker
  /\ control' = "closing"
  /\ UNCHANGED <<log_pc, locked, stopping, output, events, producerMetrics,
                 writeMetrics, consumed>>

StopClose ==
  /\ control = "closing"
  /\ open' = FALSE
  /\ control' = "idle"
  /\ UNCHANGED <<log_pc, locked, worker, stopping, failed, bytes_written,
                 disk, unmeasured, events, producerMetrics, writeMetrics,
                 consumed>>

-----------------------------------------------------------------------------
(* Log: the severity check reads configuration_ before the lock is taken. *)

PassSeverityCheck(l) ==
  /\ log_pc[l] = "idle"
  /\ log_pc' = [log_pc EXCEPT ![l] = "enqueue"]
  /\ UNCHANGED <<control, locked, worker, stopping, output, events,
                 producerMetrics, writeMetrics, consumed>>

\* One critical section: refused when stopped; counted as dropped when the
\* queue is full or the record cannot be allocated.
Enqueue(l) ==
  /\ log_pc[l] = "enqueue"
  /\ log_pc' = [log_pc EXCEPT ![l] = "idle"]
  /\ \/ /\ ~accepting
        /\ UNCHANGED <<pending, accepted, dropped>>
     \/ /\ accepting
        /\ dropped' = Increment(dropped)
        /\ UNCHANGED <<pending, accepted>>
     \/ /\ accepting
        /\ pending < configuration.maximum_pending_records
        /\ pending' = pending + 1
        /\ accepted' = Increment(accepted)
        /\ UNCHANGED dropped
  /\ UNCHANGED <<control, accepting, stop_requested, configuration, worker,
                 stopping, output, events, writeMetrics, consumed>>

-----------------------------------------------------------------------------
(* The worker thread. *)

\* Faulty variant: the queue is not tested first.
TakeRecord_Unchecked == pending' = pending - 1 /\ worker' = "writing"
\* Under the lock: take the next record, or leave the loop over them.
TakeRecord ==
  IF pending > 0 THEN pending' = pending - 1 /\ worker' = "writing"
                 ELSE pending' = pending /\ worker' = "draining"

\* Faulty variant: the wait has no time-out and no look at the queue.
Wakes_OnStop == stop_requested
\* wait_for returns on a notification or after 50 ms, whatever it finds.
Wakes == TRUE

Wake ==
  /\ worker = "waiting"
  /\ Wakes
  /\ stopping' = stop_requested
  /\ TakeRecord
  /\ UNCHANGED <<callers, accepting, stop_requested, configuration, output,
                 events, producerMetrics, writeMetrics, consumed>>

TakeNext ==
  /\ worker = "locking"
  /\ TakeRecord
  /\ UNCHANGED <<callers, accepting, stop_requested, configuration, stopping,
                 output, events, producerMetrics, writeMetrics, consumed>>

\* Faulty variant: the failed stream is cleared, so that it is tried again.
StaysFailed_Cleared == FALSE
StaysFailed == failed

\* WriteRecord, in its five outcomes.  A failure is counted with nothing
\* written when the line cannot be made or the stream has already failed.  A
\* write that fails may have put any part of the line into the file; the stream
\* then fails every later write.
WriteRecord ==
  IF ~open THEN UNCHANGED <<output, writeMetrics>>
  ELSE \/ /\ bytes_written >= configuration.maximum_file_size
          /\ suppressed' = Increment(suppressed)
          /\ UNCHANGED <<output, written, failures>>
       \/ /\ bytes_written < configuration.maximum_file_size
          /\ failures' = Increment(failures)
          /\ UNCHANGED <<output, written, suppressed>>
       \/ /\ bytes_written < configuration.maximum_file_size
          /\ ~StaysFailed
          /\ \E size \in LineSizes : \E part \in 0..size : disk' = disk + part
          /\ failures' = Increment(failures)
          /\ failed' = TRUE
          /\ UNCHANGED <<open, bytes_written, unmeasured, written, suppressed>>
       \/ /\ bytes_written < configuration.maximum_file_size
          /\ ~StaysFailed
          /\ \E size \in LineSizes :
               disk' = disk + size /\ bytes_written' = bytes_written + size
          /\ written' = Increment(written)
          /\ UNCHANGED <<open, failed, unmeasured, failures, suppressed>>

WriteTaken ==
  /\ worker = "writing"
  /\ WriteRecord
  /\ worker' = "locking"
  /\ UNCHANGED <<callers, locked, stopping, events, producerMetrics, consumed>>

DrainEvent ==
  /\ worker = "draining"
  /\ configuration.has_events
  /\ RealtimeQueue!Pop
  /\ consumed' = Increment(consumed)
  /\ worker' = "writing_event"
  /\ UNCHANGED <<callers, locked, stopping, output, producerMetrics,
                 writeMetrics>>

WriteEvent ==
  /\ worker = "writing_event"
  /\ WriteRecord
  /\ worker' = "draining"
  /\ UNCHANGED <<callers, locked, stopping, events, producerMetrics, consumed>>

\* Faulty variant: the flag is read when it is needed, not at the wake-up.
Leaving_Late == stop_requested
Leaving == stopping

\* No event queue, or an empty one: leave, or wait again.
EndDrain ==
  /\ worker = "draining"
  /\ configuration.has_events => queue = <<>>
  /\ worker' = IF Leaving THEN "done" ELSE "waiting"
  /\ UNCHANGED <<callers, locked, stopping, output, events, producerMetrics,
                 writeMetrics, consumed>>

-----------------------------------------------------------------------------
\* A real-time thread publishes an event; one dropped changes nothing here.
PublishEvent ==
  /\ \E e \in Events : RealtimeQueue!Push(e)
  /\ UNCHANGED <<callers, locked, worker, stopping, output, producerMetrics,
                 writeMetrics, consumed>>

Stop == StopRequest \/ StopJoin \/ StopClose

Log == \E l \in Loggers : PassSeverityCheck(l) \/ Enqueue(l)

WorkerMain ==
  Wake \/ TakeNext \/ WriteTaken \/ DrainEvent \/ WriteEvent \/ EndDrain

Next ==
  \/ \E c \in Configurations : Start(c)
  \/ Stop \/ Log \/ WorkerMain \/ PublishEvent

Spec == Init /\ [][Next]_vars

\* The worker runs when it can, and a Stop that has been called goes on.
\* Nobody has to call Start, Stop or Log, or to publish events.
Fairness == WF_vars(WorkerMain) /\ WF_vars(StopJoin \/ StopClose)

FairSpec == Spec /\ Fairness

-----------------------------------------------------------------------------
(* Properties. *)

Counters == 0..CounterModulus-1

\* Every variable keeps its type.
TypeOK ==
  /\ control \in {"idle", "joining", "closing"}
  /\ log_pc \in [Loggers -> {"idle", "enqueue"}]
  /\ accepting \in BOOLEAN /\ stop_requested \in BOOLEAN /\ pending \in Nat
  /\ configuration \in Configurations \cup {DefaultConfiguration}
  /\ worker \in {"none", "waiting", "writing", "locking", "draining",
                 "writing_event", "done"}
  /\ stopping \in BOOLEAN
  /\ open \in BOOLEAN /\ failed \in BOOLEAN
  /\ bytes_written \in Nat /\ disk \in Nat /\ unmeasured \in Nat
  /\ queue \in Seq(Events) /\ received \in Events \cup {RealtimeQueue!NoEvent}
  /\ \A n \in {accepted, dropped, written, consumed, suppressed, failures} :
       n \in Counters

\* Every record and event the logger has taken is accounted for: written,
\* suppressed by the file limit, failed, still pending or in the worker's
\* hands.  In particular the worker never finds the file closed, across any
\* number of restarts.
RecordsConserved ==
  (accepted + consumed) % CounterModulus
    = (written + suppressed + failures + pending
       + (IF worker \in {"writing", "writing_event"} THEN 1 ELSE 0))
      % CounterModulus

\* When the worker leaves, nothing is left behind: a Log call that was
\* answered TRUE before Stop took the lock has been written (or counted),
\* and none can be accepted after it.  (A logger whose thread could not be made
\* has no worker to leave: its records wait for the next Start.)
DrainedWhenDone == worker = "done" => pending = 0 /\ ~accepting

\* A Start that is admitted finds no thread that can be joined (to assign over
\* one ends the process), whatever failed before: Start and Stop may follow
\* each other in any number, as long as one thread calls them.
StartFindsNoThread == control = "idle" /\ ~accepting => worker = "none"

\* Nothing is appended once the file has reached the limit, across restarts
\* and although a write that fails may leave part of a line that
\* file_bytes_written_ does not count: the failed stream is what prevents the
\* next write.  Only what Start could not measure may come on top.
AppendsOnlyBelowLimit ==
  [][disk' > disk => disk - unmeasured < configuration.maximum_file_size]_vars

\* The real-time threads stop publishing some day.
EventsStop == <>[][~PublishEvent]_vars

\* Stop returns, however long the queue is and whatever is still logged.
StopReturns == EventsStop => (control = "joining" ~> control = "idle")

\* A pending record is taken by the worker, if there is one: the events cannot
\* keep it from the records once they stop coming.
PendingIsTaken ==
  EventsStop => (pending > 0 /\ worker # "none" ~> worker = "writing")

\* "so we periodically drain the real-time event queue" (the comment in
\* WorkerMain): while the worker runs it gets to the events again and again.
PeriodicDrain == worker = "writing" ~> worker = "draining"
==============================================================================
