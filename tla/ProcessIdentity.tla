---------------------------- MODULE ProcessIdentity ----------------------------
(***************************************************************************)
(* Which process is this?  ext/microsandbox/src/runtime.rs tags everything *)
(* native it builds with the identity of the building process - the pid    *)
(* plus a count of the forks that led to it - and compares that tag with   *)
(* ProcessIdentity::current before it uses or destroys the thing.  This    *)
(* module is that identity and the life of the processes that bear it:     *)
(* the kernel hands out pids and may hand a dead process's pid out again;  *)
(* a child starts with a copy of its parent's memory, the fork counter     *)
(* included, and the atfork handler adds one to the copy.                  *)
(***************************************************************************)
EXTENDS Naturals

CONSTANTS
    Procs,           \* every process that may ever exist (a slot is used once)
    Root,            \* the process that loads the extension
    Pids,            \* the pids the kernel hands out
    MaxGeneration,   \* bound: how deep the forks nest (below 2^32 in the code)
    HandlerRuns,     \* does the atfork handler run in a new child?  {TRUE} for
                     \* Ruby's fork; FALSE for a raw clone, or when the
                     \* registration of the handler had failed
    PidReuse         \* may the pid of a dead process be handed out again?

ASSUME ProcessAssumption ==
    /\ Root \in Procs
    /\ Pids \subseteq Nat \ {0}
    /\ MaxGeneration \in Nat
    /\ HandlerRuns \in SUBSET BOOLEAN
    /\ PidReuse \in BOOLEAN

\* The condition under which an identity tells a process from its ancestors:
\* either every child runs the handler, or no pid ever comes back.  The code
\* compares both halves because each covers what the other cannot.
IdentityAssumption == HandlerRuns = {TRUE} \/ ~PidReuse

VARIABLES
    status,       \* [Procs -> {"unborn", "alive", "dead"}]
    pid,          \* std::process::id of each process
    generation,   \* its FORK_GENERATION
    lineage       \* the identities of its strict ancestors (history only)

processVars == <<status, pid, generation, lineage>>

Identity == [pid: Pids, generation: Nat]

\* MUTANT of Current: the tag is the pid alone.
PidOnly(p) == [pid |-> pid[p], generation |-> 0]

\* ProcessIdentity::current in process p.
Current(p) == [pid |-> pid[p], generation |-> generation[p]]

Born(p) == status[p] # "unborn"
Alive(p) == status[p] = "alive"

\* What the kernel guarantees of a new child's pid: no living process has it.
PidFree(n) ==
    \A q \in Procs : Born(q) /\ pid[q] = n => PidReuse /\ status[q] = "dead"

--------------------------------------------------------------------------------
ProcessTypeOK ==
    /\ status \in [Procs -> {"unborn", "alive", "dead"}]
    /\ pid \in [Procs -> Pids]
    /\ generation \in [Procs -> 0..MaxGeneration]
    /\ lineage \in [Procs -> SUBSET Identity]

ProcessInit ==
    /\ status = [p \in Procs |-> IF p = Root THEN "alive" ELSE "unborn"]
    /\ \E n \in Pids : pid = [p \in Procs |-> n]
    /\ generation = [p \in Procs |-> 0]
    /\ lineage = [p \in Procs |-> {}]

\* fork(2): the child copies the parent's counter, and the atfork child handler
\* (on_fork_child), if it runs, adds one before fork returns there.
ForkProcess(p, c) ==
    /\ Alive(p)
    /\ status[c] = "unborn"
    /\ \E n \in Pids, runs \in HandlerRuns :
         /\ PidFree(n)
         /\ runs => generation[p] < MaxGeneration
         /\ pid' = [pid EXCEPT ![c] = n]
         /\ generation' = [generation EXCEPT ![c] =
                              IF runs THEN generation[p] + 1 ELSE generation[p]]
    /\ status' = [status EXCEPT ![c] = "alive"]
    /\ lineage' = [lineage EXCEPT ![c] = lineage[p] \cup {Current(p)}]

\* The process ends and is reaped: its pid may be handed out again.
ExitProcess(p) ==
    /\ Alive(p)
    /\ status' = [status EXCEPT ![p] = "dead"]
    /\ UNCHANGED <<pid, generation, lineage>>

--------------------------------------------------------------------------------
\* No process has the identity of one of its ancestors, so state inherited from
\* an ancestor is never mistaken for the process's own - the claim that
\* ProcessIdentity's documentation argues, pid reuse and all.  (Two processes
\* that are not ancestor and descendant may well share an identity: siblings,
\* when the second is handed the pid of the first.  Neither inherits from the
\* other.)
IdentityTellsApart == \A p \in Procs : Current(p) \notin lineage[p]

================================================================================
