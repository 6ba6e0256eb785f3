------------------------------ MODULE BoundedLog ------------------------------
(***************************************************************************)
(* The lists of src/monitoring: EventLogger._events and                    *)
(* MetricsCollector._history.  Both append, cut at the front, and answer   *)
(* recent(count) with a slice.  An entry is any value.                     *)
(***************************************************************************)
EXTENDS Integers, Sequences

Least(a, b) == IF a <= b THEN a ELSE b

\* Python's log[-k:].  A k of 0 keeps everything, because -0 is 0, and a negative k drops the
\* first -k entries.
LastOf(log, k) ==
    IF k > 0 THEN SubSeq(log, Len(log) - Least(k, Len(log)) + 1, Len(log))
             ELSE SubSeq(log, 1 - k, Len(log))

\* Fault: a full log refuses new entries.
PushRefusing(log, max, entry) == IF Len(log) < max THEN Append(log, entry) ELSE log

\* EventLogger.log and the end of MetricsCollector.collect
Push(log, max, entry) ==
    LET longer == Append(log, entry)
    IN  IF Len(longer) > max THEN LastOf(longer, max) ELSE longer

\* EventLogger.recent and MetricsCollector.recent
Recent(log, count) == LastOf(log, count)

=============================================================================
