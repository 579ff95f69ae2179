---------------------------- MODULE MCAsyncLogger ----------------------------
(***************************************************************************)
(* One or two threads that log, a queue of one or two records, a file      *)
(* limit of two units with lines of one or two, so that a line ends below, *)
(* at and beyond the limit; Start may fail to measure a file of one unit,  *)
(* which then grows beyond the limit; an event queue of one event.  A      *)
(* configuration that lets no record wait is refused.                      *)
(***************************************************************************)
EXTENDS AsyncLogger

CONSTANTS l1, l2, underrun  \* model values
MCLoggers == {l1, l2}
MCOneLogger == {l1}
MCEvents == {underrun}
MCLineSizes == {1, 2}

Limits(records, size, has_events) ==
  [maximum_pending_records |-> records, maximum_file_size |-> size,
   has_events |-> has_events]

MCConfigurations ==
  {Limits(2, 2, TRUE), Limits(1, 2, FALSE), Limits(0, 2, FALSE)}
==============================================================================
