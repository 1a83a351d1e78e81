---------------------------- MODULE MCRuntimeCell ----------------------------
(* An instance of RuntimeCell for TLC. *)
EXTENDS RuntimeCell

CONSTANTS p1, p2, t1, t2, a1, a2, a3, a4

TwoProcs == {p1, p2}
TwoThreads == {t1, t2}
FourAddrs == {a1, a2, a3, a4}
TwoPids == 1..2
AlwaysRuns == {TRUE}

================================================================================
