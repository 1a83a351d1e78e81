---------------------------- MODULE OncePerProcess ----------------------------
(***************************************************************************)
(* What runtime() (ext/microsandbox/src/runtime.rs) promises to the rest   *)
(* of the extension: one runtime per process, built there, on first use,   *)
(* for good.  A process that was forked starts with none, whatever its     *)
(* parent has.  RuntimeCell, with its races, retries, forks and reused     *)
(* addresses, implements it.                                               *)
(***************************************************************************)
CONSTANTS
    Procs,        \* the processes
    RuntimesOf,   \* of each process: the runtimes it may build
    None          \* no runtime

VARIABLES
    runtime,      \* of each process: its runtime, or None
    answers       \* of each process: what its calls have been answered with

vars == <<runtime, answers>>

Init ==
    /\ runtime = [p \in Procs |-> None]
    /\ answers = [p \in Procs |-> {}]

\* The first call builds the runtime and is answered with it.
Build(p) ==
    /\ runtime[p] = None
    /\ \E r \in RuntimesOf[p] :
          /\ runtime' = [runtime EXCEPT ![p] = r]
          /\ answers' = [answers EXCEPT ![p] = @ \cup {r}]

\* Every later one is answered with the same.
Answer(p) ==
    /\ runtime[p] # None
    /\ answers' = [answers EXCEPT ![p] = @ \cup {runtime[p]}]
    /\ UNCHANGED runtime

Next == \E p \in Procs : Build(p) \/ Answer(p)

Spec == Init /\ [][Next]_vars

================================================================================
