---------------------------- MODULE MCForkBackend ----------------------------
(* Instances of ForkBackend for TLC. *)
EXTENDS ForkBackend

CONSTANTS p1, p2, p3, t1, cloud

TwoProcs == {p1, p2}
ThreeProcs == {p1, p2, p3}
OneThread == {t1}
OneExplicit == {cloud}
NoneFragile == {}
LadderAndCloud == {Ladder, cloud}
TwoPids == 1..2
AlwaysRuns == {TRUE}

\* What the next step depends on: last is history, and the properties that read it
\* in the runs with this view speak of steps, not of states.
NotLast == <<processVars, mem, threads, inflight, blocks, resolvable>>

================================================================================
