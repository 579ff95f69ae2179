-------------------------- MODULE AsyncLoggerProofs --------------------------
(***************************************************************************)
(* For every set of loggers and configurations: the logger loses no record *)
(* across any number of starts and stops, its worker leaves nothing        *)
(* behind, and nothing is appended to a file that has reached its limit.   *)
(***************************************************************************)
EXTENDS AsyncLogger, ModularArithmetic, SequenceTheorems

-----------------------------------------------------------------------------
(* The inductive invariant. *)

\* How the flags under the mutex, the thread and the file go together.  A
\* local `stopping` of an earlier worker may still be set while the next one
\* has not woken up.
Lifecycle ==
  /\ accepting => control = "idle" /\ open /\ ~stop_requested
  /\ control = "closing" => worker = "none"
  /\ worker # "none" => open
  /\ worker \notin {"none", "waiting"} /\ stopping => stop_requested
  /\ worker = "done" => stopping

\* Once a worker that has seen the request has left the loop over the
\* records, there are none and none can come.
NothingPending ==
  worker \in {"draining", "writing_event", "done"} /\ stopping => pending = 0

\* As long as the stream has not failed, the file has the size that is counted
\* and what Start could not measure.
SizeKnown == ~failed => bytes_written + unmeasured = disk

\* What every step preserves.
IInv ==
  /\ TypeOK /\ Lifecycle /\ NothingPending /\ SizeKnown
  /\ StartFindsNoThread /\ RecordsConserved
-----------------------------------------------------------------------------
(* The counters. *)

\* A counter stays within its width when it is incremented.
LEMMA IncrementType ==
  ASSUME NEW n \in Counters
  PROVE  Increment(n) \in Counters /\ n \in Int
  <1> DEFINE M == CounterModulus
  <1>1. M \in Nat \ {0} /\ n \in 0..M-1
    BY CounterAssumption DEF Counters, CounterModulus
  <1> HIDE DEF M
  <1>2. (n + 1) % M \in 0..M-1 /\ n \in Int
    BY <1>1
  <1> QED BY <1>2 DEF M, Increment, Counters

\* In a sum modulo the range of the counters, an incremented counter counts
\* as one more, whether it wraps or not.
LEMMA CountedOnce ==
  ASSUME NEW n \in Int, NEW k \in Int
  PROVE  (Increment(n) + k) % CounterModulus = (n + 1 + k) % CounterModulus
  <1> DEFINE M == CounterModulus
             x == n + 1
  <1>1. M \in Nat \ {0} /\ x \in Int
    BY CounterAssumption DEF CounterModulus
  <1> HIDE DEF M, x
  <1>2. ((x % M) + k) % M = (x + k) % M
    BY <1>1, ModOfSum
  <1> QED BY <1>2 DEF M, x, Increment

\* One more on both sides of the account.
LEMMA OneMoreOnBothSides ==
  ASSUME NEW x \in Int, NEW y \in Int, x % CounterModulus = y % CounterModulus
  PROVE  (x + 1) % CounterModulus = (y + 1) % CounterModulus
  <1> DEFINE M == CounterModulus
             k == 1
  <1>1. M \in Nat \ {0} /\ k \in Int /\ x % M = y % M
    BY CounterAssumption DEF CounterModulus
  <1> HIDE DEF M, k
  <1>2. (x + k) % M = (y + k) % M
    BY <1>1, AddToCongruent
  <1> QED BY <1>2 DEF M, k

-----------------------------------------------------------------------------
(* The steps. *)

\* The invariant holds before anything has happened.
LEMMA InitEstablishes == Init => IInv
  <1> SUFFICES ASSUME Init
               PROVE  IInv
    OBVIOUS
  <1>1. 0 \in Counters
    <2> DEFINE M == CounterModulus
    <2>1. M \in Nat \ {0}
      BY CounterAssumption DEF CounterModulus
    <2> HIDE DEF M
    <2>2. 0 \in 0..M-1
      BY <2>1
    <2> QED BY <2>2 DEF M, Counters
  <1>2. TypeOK
    <2>1. queue \in Seq(Events) /\ received = RealtimeQueue!NoEvent
      BY DEF Init, RealtimeQueue!Init
    <2>2. log_pc \in [Loggers -> {"idle", "enqueue"}]
      BY DEF Init
    <2> QED BY <1>1, <2>1, <2>2 DEF Init, TypeOK
  <1>3. Lifecycle /\ NothingPending /\ SizeKnown /\ StartFindsNoThread
    BY DEF Init, Lifecycle, NothingPending, SizeKnown, StartFindsNoThread
  <1>4. RecordsConserved
    BY DEF Init, RecordsConserved
  <1> QED BY <1>2, <1>3, <1>4 DEF IInv

\* WriteRecord keeps the types and the size that it knows.
LEMMA WriteRecordKeepsType ==
  ASSUME IInv, WriteRecord
  PROVE  /\ open' = open /\ failed' \in BOOLEAN
         /\ bytes_written' \in Nat /\ disk' \in Nat
         /\ unmeasured' = unmeasured
         /\ written' \in Counters /\ suppressed' \in Counters
         /\ failures' \in Counters
         /\ SizeKnown'
  <1> USE DEF output, writeMetrics
  <1>0. /\ open \in BOOLEAN /\ failed \in BOOLEAN /\ disk \in Nat
        /\ bytes_written \in Nat /\ unmeasured \in Nat
        /\ written \in Counters /\ suppressed \in Counters /\ failures \in Counters
        /\ Increment(written) \in Counters /\ Increment(suppressed) \in Counters
        /\ Increment(failures) \in Counters
        /\ failed = FALSE => bytes_written + unmeasured = disk
    BY IncrementType DEF IInv, TypeOK, SizeKnown
  <1>1. CASE UNCHANGED output
    BY <1>0, <1>1 DEF WriteRecord, SizeKnown
  <1>2. CASE /\ \E size \in LineSizes : \E part \in 0..size : disk' = disk + part
             /\ failures' = Increment(failures)
             /\ failed' = TRUE
             /\ UNCHANGED <<open, bytes_written, unmeasured, written, suppressed>>
    <2>1. disk' \in Nat
      BY <1>0, <1>2, LineAssumption
    <2> QED BY <1>0, <1>2, <2>1 DEF SizeKnown
  <1>3. CASE /\ \E size \in LineSizes :
                  disk' = disk + size /\ bytes_written' = bytes_written + size
             /\ written' = Increment(written)
             /\ UNCHANGED <<open, failed, unmeasured, failures, suppressed>>
    <2>1. PICK size \in LineSizes :
            disk' = disk + size /\ bytes_written' = bytes_written + size
      BY <1>3
    <2>2. size \in Nat
      BY LineAssumption
    <2> QED BY <1>0, <1>3, <2>1, <2>2 DEF SizeKnown
  <1> QED BY <1>1, <1>2, <1>3 DEF WriteRecord

\* TakeRecord either takes the next record or leaves the loop.
LEMMA TakeRecordKeepsType ==
  ASSUME TypeOK, TakeRecord
  PROVE  /\ pending' \in Nat /\ worker' \in {"writing", "draining"}
         /\ worker' = "draining" => pending' = 0
         /\ pending' + (IF worker' = "writing" THEN 1 ELSE 0) = pending
  <1>1. pending \in Nat
    BY DEF TypeOK
  <1> QED BY <1>1 DEF TakeRecord

\* Every thread keeps the types.
LEMMA NextKeepsType ==
  ASSUME IInv, [Next]_vars
  PROVE  TypeOK'
  <1> USE DEF callers, locked, output, events, producerMetrics, writeMetrics
  <1>0. TypeOK
    BY DEF IInv
  <1>1. ASSUME NEW c \in Configurations, Start(c)
        PROVE  TypeOK'
    <2>0. disk \in Nat
      BY <1>0 DEF TypeOK
    <2>1. /\ failed' \in BOOLEAN /\ bytes_written' \in Nat
          /\ unmeasured' \in Nat
      <3>1. ExistingSize
        BY <1>1, Zenon DEF Start
      <3>2. failed' \in BOOLEAN
        BY <3>1, Zenon DEF ExistingSize
      <3>3. bytes_written' \in Nat /\ unmeasured' \in Nat
        BY <2>0, <3>1, SMT DEF ExistingSize
      <3> QED BY <3>2, <3>3
    <2>2. CASE UNCHANGED <<configuration, stop_requested, accepting, worker>>
      BY <1>0, <1>1, <2>1, <2>2 DEF TypeOK, Start
    <2>3. CASE /\ configuration' = c /\ stop_requested' = FALSE
               /\ accepting' = TRUE /\ worker' \in {"waiting", "none"}
      BY <1>0, <1>1, <2>1, <2>3 DEF TypeOK, Start
    <2> QED BY <1>1, <2>2, <2>3 DEF Start
  <1>2. CASE StopRequest \/ StopJoin \/ StopClose
    <2>1. /\ control' \in {"idle", "joining", "closing"} /\ open' \in BOOLEAN
          /\ worker' \in {"none", worker}
      BY <1>0, <1>2 DEF TypeOK, StopRequest, StopJoin, StopClose
    <2> QED BY <1>0, <1>2, <2>1 DEF TypeOK, StopRequest, StopJoin, StopClose
  <1>3. ASSUME NEW l \in Loggers, PassSeverityCheck(l)
        PROVE  TypeOK'
    BY <1>0, <1>3 DEF TypeOK, PassSeverityCheck
  <1>4. ASSUME NEW l \in Loggers, Enqueue(l)
        PROVE  TypeOK'
    <2>0. /\ log_pc \in [Loggers -> {"idle", "enqueue"}] /\ pending \in Nat
          /\ accepted \in Counters /\ dropped \in Counters
      BY <1>0 DEF TypeOK
    <2>1. log_pc' \in [Loggers -> {"idle", "enqueue"}]
      BY <1>4, <2>0 DEF Enqueue
    <2>2. pending' \in Nat /\ accepted' \in Counters /\ dropped' \in Counters
      BY <1>4, <2>0, IncrementType DEF Enqueue
    <2> QED BY <1>0, <1>4, <2>1, <2>2 DEF TypeOK, Enqueue
  <1>5. CASE Wake \/ TakeNext
    <2>1. pending' \in Nat /\ worker' \in {"writing", "draining"}
      BY <1>0, <1>5, TakeRecordKeepsType DEF Wake, TakeNext
    <2> QED BY <1>0, <1>5, <2>1 DEF TypeOK, Wake, TakeNext
  <1>6. CASE WriteTaken \/ WriteEvent
    <2>1. /\ open' = open /\ failed' \in BOOLEAN
          /\ bytes_written' \in Nat /\ disk' \in Nat
          /\ unmeasured' = unmeasured
          /\ written' \in Counters /\ suppressed' \in Counters
          /\ failures' \in Counters
      BY <1>6, WriteRecordKeepsType DEF WriteTaken, WriteEvent
    <2> QED BY <1>0, <1>6, <2>1 DEF TypeOK, WriteTaken, WriteEvent
  <1>7. CASE DrainEvent
    <2>1. /\ queue' \in Seq(Events) /\ received' \in Events
          /\ consumed' \in Counters
      BY <1>0, <1>7, IncrementType, HeadTailProperties
         DEF TypeOK, DrainEvent, RealtimeQueue!Pop
    <2> QED BY <1>0, <1>7, <2>1 DEF TypeOK, DrainEvent
  <1>8. CASE EndDrain
    BY <1>0, <1>8 DEF TypeOK, EndDrain
  <1>9. CASE PublishEvent
    <2>0. PICK e \in Events : queue' = Append(queue, e) /\ received' = received
      BY <1>9 DEF PublishEvent, RealtimeQueue!Push
    <2>1. queue' \in Seq(Events) /\ received' = received
      BY <1>0, <2>0, AppendProperties DEF TypeOK
    <2> QED BY <1>0, <1>9, <2>1 DEF TypeOK, PublishEvent
  <1>10. CASE UNCHANGED vars
    BY <1>0, <1>10 DEF TypeOK, vars
  <1> QED BY <1>1, <1>2, <1>3, <1>4, <1>5, <1>6, <1>7, <1>8, <1>9, <1>10
          DEF Next, Stop, Log, WorkerMain
\* The flags, the thread and the file go together, whatever the control
\* thread, the loggers and the worker do.
LEMMA NextKeepsLifecycle ==
  ASSUME IInv, [Next]_vars
  PROVE  Lifecycle' /\ NothingPending' /\ StartFindsNoThread'
  <1> USE DEF callers, locked, output, events, producerMetrics, writeMetrics
  <1>0. /\ Lifecycle /\ NothingPending /\ StartFindsNoThread
        /\ accepting \in BOOLEAN /\ stop_requested \in BOOLEAN
        /\ stopping \in BOOLEAN /\ open \in BOOLEAN /\ pending \in Nat
        /\ control \in {"idle", "joining", "closing"}
    BY DEF IInv, TypeOK
  <1> DEFINE Goal == Lifecycle /\ NothingPending /\ StartFindsNoThread
  <1>1. ASSUME NEW c \in Configurations, Start(c)
        PROVE  Goal'
    <2>1. /\ control = "idle" /\ control' = "idle" /\ ~accepting /\ open'
          /\ worker = "none"
      BY <1>0, <1>1 DEF Start, StartFindsNoThread
    <2>2. CASE UNCHANGED <<configuration, stop_requested, accepting, worker>>
      BY <2>1, <2>2 DEF Lifecycle, NothingPending, StartFindsNoThread
    <2>3. CASE /\ configuration' = c /\ stop_requested' = FALSE
               /\ accepting' = TRUE /\ worker' \in {"waiting", "none"}
      BY <2>1, <2>3 DEF Lifecycle, NothingPending, StartFindsNoThread
    <2> QED BY <1>1, <2>2, <2>3 DEF Start
  <1>2. CASE StopRequest
    BY <1>0, <1>2 DEF StopRequest, Lifecycle, NothingPending, StartFindsNoThread
  <1>3. CASE StopJoin
    BY <1>0, <1>3 DEF StopJoin, Joinable, Lifecycle, NothingPending,
                      StartFindsNoThread
  <1>4. CASE StopClose
    BY <1>0, <1>4 DEF StopClose, Lifecycle, NothingPending, StartFindsNoThread
  <1>5. ASSUME NEW l \in Loggers, PassSeverityCheck(l)
        PROVE  Goal'
    BY <1>0, <1>5 DEF PassSeverityCheck, Lifecycle, NothingPending,
                      StartFindsNoThread
  <1>6. ASSUME NEW l \in Loggers, Enqueue(l)
        PROVE  Goal'
    <2>1. /\ ~accepting => pending' = pending
          /\ UNCHANGED <<control, accepting, stop_requested, worker, stopping, open>>
      BY <1>6 DEF Enqueue
    <2> QED BY <1>0, <2>1 DEF Lifecycle, NothingPending, StartFindsNoThread
  <1>7. CASE Wake
    <2>1. /\ worker = "waiting" /\ stopping' = stop_requested
          /\ worker' \in {"writing", "draining"}
          /\ worker' = "draining" => pending' = 0
          /\ UNCHANGED <<control, accepting, stop_requested, open>>
      BY <1>7, TakeRecordKeepsType DEF IInv, Wake
    <2> QED BY <1>0, <2>1 DEF Lifecycle, NothingPending, StartFindsNoThread
  <1>8. CASE TakeNext
    <2>1. /\ worker = "locking" /\ worker' \in {"writing", "draining"}
          /\ worker' = "draining" => pending' = 0
          /\ UNCHANGED <<control, accepting, stop_requested, stopping, open>>
      BY <1>8, TakeRecordKeepsType DEF IInv, TakeNext
    <2> QED BY <1>0, <2>1 DEF Lifecycle, NothingPending, StartFindsNoThread
  <1>9. CASE WriteTaken
    <2>1. open' = open
      BY <1>9, WriteRecordKeepsType DEF WriteTaken
    <2> QED BY <1>0, <1>9, <2>1 DEF WriteTaken, Lifecycle, NothingPending,
                                    StartFindsNoThread
  <1>10. CASE WriteEvent
    <2>1. open' = open
      BY <1>10, WriteRecordKeepsType DEF WriteEvent
    <2> QED BY <1>0, <1>10, <2>1 DEF WriteEvent, Lifecycle, NothingPending,
                                     StartFindsNoThread
  <1>11. CASE DrainEvent
    BY <1>0, <1>11 DEF DrainEvent, Lifecycle, NothingPending, StartFindsNoThread
  <1>12. CASE EndDrain
    BY <1>0, <1>12 DEF EndDrain, Leaving, Lifecycle, NothingPending,
                       StartFindsNoThread
  <1>13. CASE PublishEvent
    BY <1>0, <1>13 DEF PublishEvent, Lifecycle, NothingPending,
                       StartFindsNoThread
  <1>14. CASE UNCHANGED vars
    BY <1>0, <1>14 DEF vars, Lifecycle, NothingPending, StartFindsNoThread
  <1> QED BY <1>1, <1>2, <1>3, <1>4, <1>5, <1>6, <1>7, <1>8, <1>9, <1>10, <1>11,
             <1>12, <1>13, <1>14 DEF Next, Stop, Log, WorkerMain

\* Only Start and WriteRecord touch the file and what is known of its size.
LEMMA NextKeepsSize ==
  ASSUME IInv, [Next]_vars
  PROVE  SizeKnown'
  <1> USE DEF callers, locked, output, events, producerMetrics, writeMetrics
  <1>1. ASSUME NEW c \in Configurations, Start(c)
        PROVE  SizeKnown'
    <2>1. disk \in Nat /\ disk' = disk /\ ExistingSize
      BY <1>1 DEF Start, IInv, TypeOK
    <2> QED BY <2>1 DEF ExistingSize, SizeKnown
  <1>2. CASE WriteTaken \/ WriteEvent
    BY <1>2, WriteRecordKeepsType DEF WriteTaken, WriteEvent
  <1>3. ASSUME UNCHANGED <<failed, bytes_written, disk, unmeasured>>
        PROVE  SizeKnown'
    BY <1>3 DEF IInv, SizeKnown
  <1>4. CASE Stop \/ Log
    BY <1>3, <1>4 DEF Stop, Log, StopRequest, StopJoin, StopClose,
                      PassSeverityCheck, Enqueue
  <1>5. CASE Wake \/ TakeNext \/ DrainEvent \/ EndDrain \/ PublishEvent \/ UNCHANGED vars
    BY <1>3, <1>5 DEF Wake, TakeNext, DrainEvent, EndDrain, PublishEvent, vars
  <1> QED BY <1>1, <1>2, <1>4, <1>5 DEF Next, WorkerMain

-----------------------------------------------------------------------------
(* The account. *)

\* What has been taken, and what has become of it.
Taken == accepted + consumed
InHand == IF worker \in {"writing", "writing_event"} THEN 1 ELSE 0
Accounted == written + suppressed + failures + pending + InHand

\* A worker that holds a record finds the file open, so WriteRecord always
\* counts it, in exactly one of the three metrics.
LEMMA WriteRecordCounts ==
  ASSUME IInv, worker \in {"writing", "writing_event"}, WriteRecord
  PROVE  \/ written' = Increment(written) /\ UNCHANGED <<suppressed, failures>>
         \/ suppressed' = Increment(suppressed) /\ UNCHANGED <<written, failures>>
         \/ failures' = Increment(failures) /\ UNCHANGED <<written, suppressed>>
  <1>1. open
    BY DEF IInv, Lifecycle
  <1> QED BY <1>1 DEF WriteRecord, output

\* Every step takes as much as it accounts for.
LEMMA NextConserves ==
  ASSUME IInv, [Next]_vars
  PROVE  RecordsConserved'
  <1> USE DEF callers, locked, output, events, producerMetrics, writeMetrics
  <1> DEFINE M == CounterModulus
  <1>0. /\ Taken \in Int /\ Accounted \in Int
        /\ accepted \in Int /\ consumed \in Int /\ written \in Int
        /\ suppressed \in Int /\ failures \in Int /\ pending \in Int
        /\ InHand \in Int
    <2>1. /\ accepted \in Int /\ consumed \in Int /\ written \in Int
          /\ suppressed \in Int /\ failures \in Int /\ pending \in Int
      BY IncrementType DEF IInv, TypeOK
    <2>2. InHand \in Int
      BY DEF InHand
    <2> QED BY <2>1, <2>2 DEF Taken, Accounted
  <1>00. /\ Taken % M = Accounted % M
         /\ RecordsConserved' <=> Taken' % M = Accounted' % M
    BY DEF IInv, RecordsConserved, Taken, Accounted, InHand
  <1> HIDE DEF M
  <1>1. ASSUME NEW c \in Configurations, Start(c)
        PROVE  RecordsConserved'
    <2>1. /\ worker = "none" /\ worker' \in {"waiting", "none"}
          /\ UNCHANGED <<accepted, consumed, written, suppressed, failures, pending>>
      BY <1>1 DEF Start, IInv, StartFindsNoThread
    <2>2. Taken' = Taken /\ Accounted' = Accounted
      BY <2>1 DEF Taken, Accounted, InHand
    <2> QED BY <1>0, <1>00, <2>2
  <1>2. ASSUME UNCHANGED <<accepted, consumed, written, suppressed, failures, pending>>,
               InHand' = InHand
        PROVE  RecordsConserved'
    <2>1. Taken' = Taken /\ Accounted' = Accounted
      BY <1>2 DEF Taken, Accounted
    <2> QED BY <1>0, <1>00, <2>1
  <1>3. CASE Stop
    <2>1. UNCHANGED <<accepted, consumed, written, suppressed, failures, pending>>
      BY <1>3 DEF Stop, StopRequest, StopJoin, StopClose
    <2>3. \/ worker' = worker
          \/ worker = "done" /\ worker' = "none"
      <3>1. CASE StopRequest \/ StopClose
        BY <3>1 DEF StopRequest, StopClose
      <3>2. CASE StopJoin
        BY <3>2 DEF StopJoin
      <3> QED BY <1>3, <3>1, <3>2 DEF Stop
    <2>2. InHand' = InHand
      BY <2>3 DEF InHand
    <2> QED BY <1>2, <2>1, <2>2
  <1>4. ASSUME NEW l \in Loggers, PassSeverityCheck(l)
        PROVE  RecordsConserved'
    <2>1. /\ UNCHANGED <<accepted, consumed, written, suppressed, failures, pending>>
          /\ InHand' = InHand
      BY <1>4 DEF PassSeverityCheck, InHand
    <2> QED BY <1>2, <2>1
  <1>5. ASSUME NEW l \in Loggers, Enqueue(l)
        PROVE  RecordsConserved'
    <2>1. UNCHANGED <<consumed, written, suppressed, failures>> /\ InHand' = InHand
      BY <1>5 DEF Enqueue, InHand
    <2>2. CASE UNCHANGED <<pending, accepted>>
      BY <1>2, <2>1, <2>2
    <2>3. CASE pending' = pending + 1 /\ accepted' = Increment(accepted)
      <3>1. Taken' % M = (Taken + 1) % M
        <4>1. (Increment(accepted) + consumed) % M = (accepted + 1 + consumed) % M
          BY <1>0, CountedOnce DEF M
        <4>2. accepted + 1 + consumed = Taken + 1
          BY <1>0 DEF Taken
        <4>3. Taken' = Increment(accepted) + consumed
          BY <2>1, <2>3 DEF Taken
        <4> QED BY <4>1, <4>2, <4>3
      <3>2. Accounted' = Accounted + 1
        BY <1>0, <2>1, <2>3 DEF Accounted
      <3>3. (Taken + 1) % M = (Accounted + 1) % M
        BY <1>0, <1>00, OneMoreOnBothSides DEF M
      <3> QED BY <1>00, <3>1, <3>2, <3>3
    <2> QED BY <1>5, <2>2, <2>3 DEF Enqueue
  <1>6. CASE Wake \/ TakeNext
    <2>1. /\ UNCHANGED <<accepted, consumed, written, suppressed, failures>>
          /\ worker \in {"waiting", "locking"} /\ TakeRecord
      BY <1>6 DEF Wake, TakeNext
    <2>2. /\ worker' \in {"writing", "draining"} /\ pending' \in Nat
          /\ pending' + (IF worker' = "writing" THEN 1 ELSE 0) = pending
      BY <2>1, TakeRecordKeepsType DEF IInv
    <2>3. InHand = 0 /\ pending' + InHand' = pending /\ InHand' \in Int
      BY <2>1, <2>2 DEF InHand
    <2>4. Taken' = Taken /\ Accounted' = Accounted
      <3> DEFINE rest == written + suppressed + failures
      <3>1. rest' = rest /\ Taken' = Taken /\ rest \in Int
        BY <1>0, <2>1 DEF Taken
      <3>2. Accounted = rest + pending + InHand
        BY DEF Accounted
      <3> HIDE DEF rest
      <3>3. /\ pending' \in Int /\ InHand' \in Int
            /\ pending = pending' + InHand' /\ InHand = 0
        BY <2>2, <2>3
      <3>4. Accounted' = rest' + pending' + InHand'
        BY DEF Accounted, rest
      <3> QED BY <3>1, <3>2, <3>3, <3>4
    <2> QED BY <1>0, <1>00, <2>4
  <1>7. CASE WriteTaken \/ WriteEvent
    <2>1. /\ worker \in {"writing", "writing_event"} /\ WriteRecord
          /\ worker' \in {"locking", "draining"}
          /\ UNCHANGED <<accepted, consumed, pending>>
      BY <1>7 DEF WriteTaken, WriteEvent
    <2>2. InHand = 1 /\ InHand' = 0
      BY <2>1 DEF InHand
    <2>3. Taken' = Taken
      BY <2>1 DEF Taken
    <2>4. Accounted' % M = Accounted % M
      <3>1. CASE written' = Increment(written) /\ UNCHANGED <<suppressed, failures>>
        <4> DEFINE k == suppressed + failures + pending
        <4>1. k \in Int /\ Increment(written) \in Int
          BY <1>0, IncrementType DEF IInv, TypeOK
        <4>2. (Increment(written) + k) % M = (written + 1 + k) % M
          BY <1>0, <4>1, CountedOnce DEF M
        <4>3. Accounted' = Increment(written) + k /\ Accounted = written + 1 + k
          BY <1>0, <2>1, <2>2, <3>1, <4>1 DEF Accounted
        <4> QED BY <4>2, <4>3
      <3>2. CASE suppressed' = Increment(suppressed) /\ UNCHANGED <<written, failures>>
        <4> DEFINE k == written + failures + pending
        <4>1. k \in Int /\ Increment(suppressed) \in Int
          BY <1>0, IncrementType DEF IInv, TypeOK
        <4>2. (Increment(suppressed) + k) % M = (suppressed + 1 + k) % M
          BY <1>0, <4>1, CountedOnce DEF M
        <4>3. /\ Accounted' = Increment(suppressed) + k
              /\ Accounted = suppressed + 1 + k
          BY <1>0, <2>1, <2>2, <3>2, <4>1 DEF Accounted
        <4> QED BY <4>2, <4>3
      <3>3. CASE failures' = Increment(failures) /\ UNCHANGED <<written, suppressed>>
        <4> DEFINE k == written + suppressed + pending
        <4>1. k \in Int /\ Increment(failures) \in Int
          BY <1>0, IncrementType DEF IInv, TypeOK
        <4>2. (Increment(failures) + k) % M = (failures + 1 + k) % M
          BY <1>0, <4>1, CountedOnce DEF M
        <4>3. Accounted' = Increment(failures) + k /\ Accounted = failures + 1 + k
          BY <1>0, <2>1, <2>2, <3>3, <4>1 DEF Accounted
        <4> QED BY <4>2, <4>3
      <3> QED BY <2>1, <3>1, <3>2, <3>3, WriteRecordCounts
    <2> QED BY <1>0, <1>00, <2>3, <2>4
  <1>8. CASE DrainEvent
    <2>1. /\ UNCHANGED <<accepted, written, suppressed, failures, pending>>
          /\ consumed' = Increment(consumed)
          /\ worker = "draining" /\ worker' = "writing_event"
      BY <1>8 DEF DrainEvent
    <2>2. Taken' % M = (Taken + 1) % M
      <3>1. (Increment(consumed) + accepted) % M = (consumed + 1 + accepted) % M
        BY <1>0, CountedOnce DEF M
      <3>2. Increment(consumed) \in Int
        BY IncrementType DEF IInv, TypeOK
      <3>3. /\ Taken' = Increment(consumed) + accepted
            /\ consumed + 1 + accepted = Taken + 1
        BY <1>0, <2>1, <3>2 DEF Taken
      <3> QED BY <3>1, <3>3
    <2>3. Accounted' = Accounted + 1
      BY <1>0, <2>1 DEF Accounted, InHand
    <2>4. (Taken + 1) % M = (Accounted + 1) % M
      BY <1>0, <1>00, OneMoreOnBothSides DEF M
    <2> QED BY <1>00, <2>2, <2>3, <2>4
  <1>9. CASE EndDrain \/ PublishEvent \/ UNCHANGED vars
    <2>1. /\ UNCHANGED <<accepted, consumed, written, suppressed, failures, pending>>
          /\ \/ worker' = worker
             \/ worker = "draining" /\ worker' \in {"done", "waiting"}
      BY <1>9 DEF EndDrain, PublishEvent, vars
    <2>2. InHand' = InHand
      BY <2>1 DEF InHand
    <2> QED BY <1>2, <2>1, <2>2
  <1> QED BY <1>1, <1>3, <1>4, <1>5, <1>6, <1>7, <1>8, <1>9
          DEF Next, Log, WorkerMain

-----------------------------------------------------------------------------
(* The theorems. *)

\* The inductive invariant holds in every state of the logger.
THEOREM Invariance == Spec => []IInv
  <1>1. IInv /\ [Next]_vars => IInv'
    BY NextKeepsType, NextKeepsLifecycle, NextKeepsSize, NextConserves DEF IInv
  <1> QED BY InitEstablishes, <1>1, PTL DEF Spec

\* Every variable of the logger keeps its type.
THEOREM TypeCorrect == Spec => []TypeOK
  <1>1. IInv => TypeOK
    BY DEF IInv
  <1> QED BY Invariance, <1>1, PTL

\* Every record and event the logger has taken is written, suppressed,
\* failed, pending or in the worker's hands, for ever and across restarts.
THEOREM AlwaysConserved == Spec => []RecordsConserved
  <1>1. IInv => RecordsConserved
    BY DEF IInv
  <1> QED BY Invariance, <1>1, PTL

\* A worker that has left has left no record behind, and none can come.
THEOREM AlwaysDrained == Spec => []DrainedWhenDone
  <1>1. IInv => DrainedWhenDone
    BY DEF IInv, Lifecycle, NothingPending, DrainedWhenDone
  <1> QED BY Invariance, <1>1, PTL

\* A Start that is admitted finds no thread.
THEOREM StartAlwaysFindsNoThread == Spec => []StartFindsNoThread
  <1>1. IInv => StartFindsNoThread
    BY DEF IInv
  <1> QED BY Invariance, <1>1, PTL

\* Nothing is appended once the file, without what Start could not measure, has
\* reached its limit.
THEOREM NeverAppendsBeyondLimit == Spec => AppendsOnlyBelowLimit
  <1>1. ASSUME IInv, [Next]_vars
        PROVE  [disk' > disk => disk - unmeasured < configuration.maximum_file_size]_vars
    <2> USE DEF callers, locked, output, events, producerMetrics, writeMetrics
    <2>0. /\ disk \in Nat /\ bytes_written \in Nat /\ unmeasured \in Nat
          /\ ~failed => bytes_written + unmeasured = disk
      BY <1>1 DEF IInv, TypeOK, SizeKnown
    <2>1. CASE WriteRecord
      BY <2>0, <2>1 DEF WriteRecord, StaysFailed
    <2>2. CASE disk' = disk
      BY <2>0, <2>2
    <2>3. CASE Next
      BY <2>1, <2>2, <2>3
         DEF Next, Start, Stop, StopRequest, StopJoin, StopClose, Log,
             PassSeverityCheck, Enqueue, WorkerMain, Wake, TakeNext, WriteTaken,
             DrainEvent, WriteEvent, EndDrain, PublishEvent
    <2> QED BY <1>1, <2>3
  <1> QED BY Invariance, <1>1, PTL DEF Spec, AppendsOnlyBelowLimit
=============================================================================
