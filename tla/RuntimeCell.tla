----------------------------- MODULE RuntimeCell -----------------------------
(***************************************************************************)
(* The process-wide tokio runtime (runtime() in                            *)
(* ext/microsandbox/src/runtime.rs): one heap cell behind one atomic       *)
(* pointer, built on first use and rebuilt after a fork.                   *)
(*                                                                         *)
(* runtime() runs with the GVL released, on any number of threads at once: *)
(* each load, allocation and compare-exchange is a step, and another       *)
(* thread may fork between any two of them.  A process's heap is modelled  *)
(* by address, so that a freed address can be handed out again.            *)
(***************************************************************************)
EXTENDS ProcessIdentity, FiniteSets

CONSTANTS
    Threads,    \* the threads of a process that may call runtime()
    Addrs,      \* bound: the heap addresses a RuntimeCell may have
    MaxCells,   \* bound: cells ever built in one process
    Null,       \* the null pointer
    Free        \* what an address without a cell holds

\* A RuntimeCell: the identity it is tagged with and - history - which process
\* really built it, whose worker threads drive it, and its number there.
Cell == [owner: Identity, by: Procs, n: 1..MaxCells]
\* A thread in runtime(): where it is, and its locals observed and fresh.
Call == [at: {"absent", "out", "slow", "publish"},
         observed: Addrs \cup {Null}, fresh: Addrs \cup {Null}]

ASSUME CellAssumption ==
    /\ MaxCells \in Nat
    /\ Null \notin Addrs
    /\ Free \notin Cell

VARIABLES
    pointer,   \* RUNTIME in each process
    heap,      \* the cells at the addresses of each process
    call,      \* what each thread of each process is doing
    built,     \* how many cells each process has built: history
    got,       \* the cells that runtime() returned in each process: history
    dropped    \* the cells whose destructor ran in each process: history

cellVars == <<pointer, heap, call, built, got, dropped>>
vars == <<processVars, cellVars>>

Outside == [at |-> "out", observed |-> Null, fresh |-> Null]
Absent  == [at |-> "absent", observed |-> Null, fresh |-> Null]

--------------------------------------------------------------------------------
\* MUTANT of Mine: any published cell will do.
AnyCell(p, a) == a # Null
\* cell.owner == cur, for the cell that pointer a points to.
Mine(p, a) == a # Null /\ heap[p][a].owner = Current(p)

\* MUTANT of Return: hands out the address, not what it points to.
ReturnAddress(p, t, a) ==
    /\ got' = [got EXCEPT ![p] = @ \cup {a}]
    /\ call' = [call EXCEPT ![p][t] = Outside]

\* runtime() returns the cell at a to thread t.
Return(p, t, a) ==
    /\ got' = [got EXCEPT ![p] = @ \cup {heap[p][a]}]
    /\ call' = [call EXCEPT ![p][t] = Outside]

\* The load, and the fast path when the cell it finds is this process's.
Enter(p, t) ==
    /\ Alive(p)
    /\ call[p][t].at = "out"
    /\ \/ Mine(p, pointer[p]) /\ Return(p, t, pointer[p])
       \/ /\ ~Mine(p, pointer[p])
          /\ call' = [call EXCEPT ![p][t] =
                         [at |-> "slow", observed |-> pointer[p], fresh |-> Null]]
          /\ UNCHANGED got
    /\ UNCHANGED <<processVars, pointer, heap, built, dropped>>

\* build_runtime and Box::into_raw, at whatever address is free.
BuildCell(p, t) ==
    /\ Alive(p)
    /\ call[p][t].at = "slow"
    /\ built[p] < MaxCells
    /\ built' = [built EXCEPT ![p] = @ + 1]
    /\ \E a \in Addrs :
         /\ heap[p][a] = Free
         /\ heap' = [heap EXCEPT ![p][a] =
                        [owner |-> Current(p), by |-> p, n |-> built[p] + 1]]
         /\ call' = [call EXCEPT ![p][t] =
                        [at |-> "publish", observed |-> @.observed, fresh |-> a]]
    /\ UNCHANGED <<processVars, pointer, got, dropped>>

\* MUTANT of Exchanges: an exchange against null.
ExchangesNull(p, t) == pointer[p] = Null
\* MUTANT of Replaced: the replaced cell is freed.
FreesReplaced(p, t) ==
    [a \in Addrs |-> IF a = call[p][t].observed THEN Free ELSE heap[p][a]]

\* The compare-exchange succeeds; what it replaces is leaked.
Exchanges(p, t) == pointer[p] = call[p][t].observed
Replaced(p, t) == heap[p]

Publish(p, t) ==
    /\ Alive(p)
    /\ call[p][t].at = "publish"
    /\ Exchanges(p, t)
    /\ pointer' = [pointer EXCEPT ![p] = call[p][t].fresh]
    /\ heap' = [heap EXCEPT ![p] = Replaced(p, t)]
    /\ Return(p, t, call[p][t].fresh)
    /\ UNCHANGED <<processVars, built, dropped>>

\* It fails and hands out the winner.  If that is this process's, our own cell
\* is destroyed and the winner returned; else we try again to replace it.
Discard(p, t) == call[p][t].fresh

Lose(p, t) ==
    LET winner == pointer[p]
        a == Discard(p, t)
    IN  /\ Alive(p)
        /\ call[p][t].at = "publish"
        /\ ~Exchanges(p, t)
        /\ IF Mine(p, winner)
           THEN /\ heap' = [heap EXCEPT ![p][a] = Free]
                /\ dropped' = [dropped EXCEPT ![p] = @ \cup {heap[p][a]}]
                /\ Return(p, t, winner)
           ELSE /\ call' = [call EXCEPT ![p][t] =
                               [at |-> "publish", observed |-> winner, fresh |-> @.fresh]]
                /\ UNCHANGED <<heap, dropped, got>>
        /\ UNCHANGED <<processVars, pointer, built>>

\* Thread t forks - it is in no call, others may be - and the child has its
\* memory and no other thread.
Fork(p, t, c) ==
    /\ call[p][t].at = "out"
    /\ ForkProcess(p, c)
    /\ pointer' = [pointer EXCEPT ![c] = pointer[p]]
    /\ heap' = [heap EXCEPT ![c] = heap[p]]
    /\ call' = [call EXCEPT ![c] = [u \in Threads |-> IF u = t THEN Outside ELSE Absent]]
    /\ UNCHANGED <<built, got, dropped>>

\* A thread starts another, as the child's first one may.
Spawn(p, t, u) ==
    /\ Alive(p)
    /\ call[p][t].at = "out"
    /\ call[p][u].at = "absent"
    /\ call' = [call EXCEPT ![p][u] = Outside]
    /\ UNCHANGED <<processVars, pointer, heap, built, got, dropped>>

Exit(p) == ExitProcess(p) /\ UNCHANGED cellVars

Init ==
    /\ ProcessInit
    /\ pointer = [p \in Procs |-> Null]
    /\ heap = [p \in Procs |-> [a \in Addrs |-> Free]]
    /\ call = [p \in Procs |-> [t \in Threads |-> IF p = Root THEN Outside ELSE Absent]]
    /\ built = [p \in Procs |-> 0]
    /\ got = [p \in Procs |-> {}]
    /\ dropped = [p \in Procs |-> {}]

\* What a thread does once it is in runtime().
Proceed(p, t) == BuildCell(p, t) \/ Publish(p, t) \/ Lose(p, t)

Next ==
    \E p \in Procs :
        \/ \E t \in Threads :
             \/ Enter(p, t)
             \/ Proceed(p, t)
             \/ \E c \in Procs : Fork(p, t, c)
             \/ \E u \in Threads : Spawn(p, t, u)
        \/ Exit(p)

Spec == Init /\ [][Next]_vars

\* The kernel runs every thread of a living process: runtime() takes no lock, so
\* nothing else has to be assumed of the others.
FairSpec == Spec /\ \A p \in Procs, t \in Threads : WF_vars(Proceed(p, t))

--------------------------------------------------------------------------------
TypeOK ==
    /\ ProcessTypeOK
    /\ pointer \in [Procs -> Addrs \cup {Null}]
    /\ heap \in [Procs -> [Addrs -> Cell \cup {Free}]]
    /\ call \in [Procs -> [Threads -> Call]]
    /\ built \in [Procs -> 0..MaxCells]
    /\ got \in [Procs -> SUBSET Cell]
    /\ dropped \in [Procs -> SUBSET Cell]

\* runtime() never returns a runtime that another process built: its worker
\* threads do not exist here, and "connections stall/drop mid-use".
OwnRuntime == \A p \in Procs : \A c \in got[p] : c.by = p

\* A process has one runtime: all its threads, racing or not, are given the same.
OneRuntime == \A p \in Procs : Cardinality(got[p]) <= 1

\* No pointer dangles: neither RUNTIME, nor what a thread saw there and will
\* compare with or dereference, although cells are freed and addresses reused.
NoDangling ==
    \A p \in Procs :
        /\ pointer[p] # Null => heap[p][pointer[p]] # Free
        /\ \A t \in Threads :
             call[p][t].observed # Null => heap[p][call[p][t].observed] # Free

\* The only cells destroyed are ones this process built and never gave to anyone
\* ("Our cell was never published and its threads are alive here").
DropsOwnUnpublished ==
    \A p \in Procs : \A c \in dropped[p] : c.by = p /\ c \notin got[p]

\* Cells do not pile up: of those a process built, all but the published one are
\* the locals of threads inside runtime() ("One runtime is leaked per forked
\* process").
CellsOf(p) == {a \in Addrs : heap[p][a] # Free /\ heap[p][a].by = p}
LeakBounded ==
    \A p \in Procs :
        CellsOf(p) \subseteq {pointer[p]} \cup {call[p][t].fresh : t \in Threads}

\* A runtime, once published, stays in place: RUNTIME never moves off a cell of
\* the process's own, and the cell under it is never overwritten.
PublishedStays ==
    [][ \A p \in Procs :
          Mine(p, pointer[p]) =>
              pointer'[p] = pointer[p] /\ heap'[p][pointer[p]] = heap[p][pointer[p]] ]_vars

\* What the lock-free code implements: a process has its runtime from the moment
\* a cell tagged with its own identity is published; an inherited cell is none.
PublishedIn(p) ==
    IF pointer[p] # Null /\ heap[p][pointer[p]].owner = Current(p) THEN heap[p][pointer[p]] ELSE Free
BuildableIn(p) == [owner: [pid: Pids, generation: 0..MaxGeneration], by: {p}, n: 1..MaxCells]
Once == INSTANCE OncePerProcess WITH
    RuntimesOf <- [p \in Procs |-> BuildableIn(p)], None <- Free,
    runtime <- [p \in Procs |-> PublishedIn(p)], answers <- got

\* runtime() gives each process one runtime, its own, built on its first call and
\* never replaced, whichever threads race, whoever forks meanwhile and whatever
\* address or pid comes back: the code of runtime.rs implements OncePerProcess.
ImplementsOnce == Once!Spec

\* Every call of runtime() returns, whatever the other threads do: the exchange
\* fails at most because one of them succeeded.
Inside(p, t) == call[p][t].at \in {"slow", "publish"}
CallsReturn == \A p \in Procs, t \in Threads : Inside(p, t) ~> ~Inside(p, t) \/ ~Alive(p)

================================================================================
