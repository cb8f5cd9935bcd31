--------------------------- MODULE MCMetricJournal ---------------------------
(* Segments of at most two events, so that a drain seals several; a crash  *)
(* or a failed Attempt between any two steps.                              *)
EXTENDS MetricJournal

CONSTANTS i1, i2, r1

OneLife == <<i1>>
TwoLives == <<i1, i2>>
=============================================================================
