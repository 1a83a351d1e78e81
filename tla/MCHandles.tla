------------------------------- MODULE MCHandles -------------------------------
(* An instance of Handles for TLC. *)
EXTENDS Handles

CONSTANTS p1, p2, t1, t2

TwoProcs == {p1, p2}
TwoThreads == {t1, t2}
TwoPids == 1..2
AlwaysRuns == {TRUE}

================================================================================
