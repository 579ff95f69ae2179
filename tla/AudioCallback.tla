--------------------------- MODULE AudioCallback ---------------------------
(***************************************************************************)
(* The callback thread with what runs beside it: it makes one call at a    *)
(* time, into the passthrough processor or into its measurements, while a  *)
(* control thread configures the one or sets the other's observations, and *)
(* a monitor takes snapshots.                                              *)
(***************************************************************************)
EXTENDS PassthroughProcessor, AudioMeasurements

CONSTANT MaxOperations  \* bound: calls of the callback and control threads

ASSUME OperationsAssumption == MaxOperations \in Nat

VARIABLE operations     \* how many calls they have begun

vars == <<processorVars, measurementVars, operations>>

Init == InitProcessor /\ InitMeasurements /\ operations = 0

\* A step of a thread begins a call when the thread is idle.
Counted(idle) ==
  /\ idle => operations < MaxOperations
  /\ operations' = IF idle THEN operations + 1 ELSE operations

Callback ==
  /\ Counted(record = "idle" /\ process = "idle")
  /\ \/ record = "idle" /\ ProcessorCallback /\ UNCHANGED measurementVars
     \/ process = "idle" /\ MeasurementCallback /\ UNCHANGED processorVars

Control ==
  /\ Counted(setter = "none" /\ assigning = {})
  /\ \/ setter = "none" /\ ProcessorControl /\ UNCHANGED measurementVars
     \/ assigning = {} /\ MeasurementControl /\ UNCHANGED processorVars

Monitor == Snapshot /\ UNCHANGED <<processorVars, operations>>

Next == Callback \/ Control \/ Monitor

Spec == Init /\ [][Next]_vars

\* Every variable keeps its type.
TypeOK == ProcessorTypeOK /\ MeasurementsTypeOK
============================================================================
