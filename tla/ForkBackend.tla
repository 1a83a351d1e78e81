------------------------------ MODULE ForkBackend ------------------------------
(***************************************************************************)
(* The default backend of a process and what fork does to it               *)
(* (ext/microsandbox/src/backend.rs, the entry of block_on in runtime.rs,  *)
(* and with_backend in lib/microsandbox.rb).                               *)
(*                                                                         *)
(* The core holds one default backend per process.  The binding records    *)
(* how it was chosen (SELECTION) and for which process (BACKEND_OWNER), so *)
(* that a forked child, whose memory is a copy of its parent's, can        *)
(* rebuild one of its own and leak - never drop, never use - what it       *)
(* inherited.  Every section under a mutex runs with the GVL held and so   *)
(* is one step here; the future that block_on drives runs without it, in   *)
(* a step of its own, and anything may happen in between.                  *)
(***************************************************************************)
EXTENDS ProcessIdentity, Sequences, FiniteSets

CONSTANTS
    Threads,      \* the Ruby threads of a process
    Ladder,       \* the selection the core makes by itself (environment, config)
    Explicit,     \* the selections a program can ask for
    Fragile,      \* the selections that may stop resolving in some process
    MaxTokens,    \* bound: scopes ever opened in a process lineage
    MaxBuilt,     \* bound: backends ever built in a process lineage
    MaxBroken,    \* bound: selections, over all processes, that fail to resolve at once
    TrapForks,    \* may a signal handler fork inside a native call?
    Interrupts,   \* may Thread#raise hit the return of push_default_backend?
    NoBackend, NoScope, NoIdentity

Selections == Explicit \cup {Ladder}
Tokens == 1..MaxTokens

\* An Arc<dyn Backend>, named by the process that built it and its number there.
Backend == [by: Procs, n: Nat, sel: Selections]
\* An entry of BACKEND_SCOPES.
Scope == [owner: Identity, previous: Backend \cup {NoBackend}, selection: Selections]
\* The statics of backend.rs and the default the core holds.
Memory == [core: Backend \cup {NoBackend}, selection: Selections,
           owner: Identity \cup {NoIdentity}, scopes: [Tokens -> Scope \cup {NoScope}],
           next: Nat, built: Nat]
\* An open with_backend block: its token, and - history - what it replaced.
Block == [token: Tokens, core: Backend \cup {NoBackend}, selection: Selections]

ASSUME BackendAssumption ==
    /\ Ladder \notin Explicit
    /\ Fragile \subseteq Selections
    /\ MaxTokens \in Nat
    /\ MaxBuilt \in Nat
    /\ MaxBroken \in Nat
    /\ TrapForks \in BOOLEAN
    /\ Interrupts \in BOOLEAN
    /\ NoBackend \notin Backend
    /\ NoScope \notin Scope
    /\ NoIdentity \notin Identity

VARIABLES
    mem,          \* the Memory of each process
    threads,      \* the threads that exist in it
    inflight,     \* of those, the ones that block_on has let in
    blocks,       \* the open with_backend blocks of each thread, innermost last
    resolvable,   \* the selections that resolve in it (its environment, files)
    last          \* what the last step did: history, for the properties

backendVars == <<mem, threads, inflight, blocks, resolvable, last>>
vars == <<processVars, backendVars>>

--------------------------------------------------------------------------------
(* What is in memory, and what becomes of it.                              *)

\* The backends a process's memory refers to: the default and what open scopes saved.
Saved(m, k) == IF m.scopes[k] = NoScope THEN NoBackend ELSE m.scopes[k].previous
\* MUTANT of Held: "no default yet" is taken for a backend.
HeldOrNone(m) == {m.core} \cup {Saved(m, k) : k \in Tokens}
Held(m) == ({m.core} \cup {Saved(m, k) : k \in Tokens}) \ {NoBackend}

\* A backend built now, in p, for selection s.
Fresh(p, m, s) == [by |-> p, n |-> m.built, sel |-> s]
Build(p, m, s) == [m EXCEPT !.core = Fresh(p, m, s), !.built = @ + 1]

\* The core's lazy resolution of the ladder, on the first use of the default.
Resolve(p, m) == IF m.core = NoBackend THEN Build(p, m, Ladder) ELSE m

\* A handler of process p turned its memory into m, used the backends in uses
\* and forgot those in leaks.  Whatever else left the memory was dropped: that
\* is what Rust does with an Arc nobody moved or forgot.  (The bound stops the
\* model where a process would build one backend too many.)
Effect(op, p, t, s, ok, m, uses, leaks) ==
    /\ m.built <= MaxBuilt
    /\ mem' = [mem EXCEPT ![p] = m]
    /\ last' = [op |-> op, proc |-> p, thread |-> t, sel |-> s, ok |-> ok,
                uses |-> uses, leaks |-> leaks \ {NoBackend},
                drops |-> Held(mem[p]) \ (Held(m) \cup leaks)]

--------------------------------------------------------------------------------
(* adopt_backend.                                                          *)

Owns(p) == mem[p].owner = Current(p)
Untouched(p) == mem[p].owner = NoIdentity
Inherited(p) == ~Owns(p) /\ ~Untouched(p)

\* The process already owns its backend, or nobody in its lineage touched one.
Claim(p, m) == [m EXCEPT !.owner = Current(p)]

\* The takeover: a backend for s in place of the inherited one, which is
\* forgotten, as is what every open scope had saved.  The scopes stay.  The core
\* always hands out an old default for the new one, so where the parent had not
\* resolved it yet, the child does and forgets that too.
TakeOver(p, m, s) ==
    [Build(p, Resolve(p, m), s) EXCEPT
        !.scopes = [k \in Tokens |-> IF m.scopes[k] = NoScope THEN NoScope
                                     ELSE [m.scopes[k] EXCEPT !.previous = NoBackend]],
        !.selection = s,
        !.owner = Current(p)]
Forgotten(p) == Held(Resolve(p, mem[p]))

\* ensure_this_process_backend: the memory it leaves and what it leaks, when
\* the process owns its backend, has nothing to own, or can rebuild one.
CannotEnsure(p) == Inherited(p) /\ mem[p].selection \notin resolvable[p]
Ensured(p) == IF Inherited(p) THEN TakeOver(p, mem[p], mem[p].selection)
                              ELSE Claim(p, mem[p])
\* MUTANT of EnsureLeaks: mem::forget is missing.
ForgetsNothing(p) == {}
EnsureLeaks(p) == IF Inherited(p) THEN Forgotten(p) ELSE {}

--------------------------------------------------------------------------------
(* The operations, each by a thread t of process p.                        *)

\* Thread t runs Ruby code, in no native call.
Running(p, t) ==
    /\ Alive(p)
    /\ t \in threads[p] \ inflight[p]

Rest == <<processVars, threads, resolvable>>

\* block_on, up to the point where the GVL is released.
EnterCall(p, t) ==
    /\ Running(p, t)
    /\ \/ /\ ~CannotEnsure(p)
          /\ Effect("enter", p, t, mem[p].selection, TRUE, Ensured(p), {}, EnsureLeaks(p))
          /\ inflight' = [inflight EXCEPT ![p] = @ \cup {t}]
       \/ /\ CannotEnsure(p)
          /\ Effect("enter", p, t, mem[p].selection, FALSE, mem[p], {}, {})
          /\ UNCHANGED inflight
    /\ UNCHANGED <<Rest, blocks>>

\* The future runs and resolves the ambient default (local_backend and the core
\* operations do), or an interrupt is delivered first and it is never polled.
RunCall(p, t) ==
    /\ Alive(p)
    /\ t \in inflight[p]
    /\ \/ Effect("body", p, t, mem[p].selection, TRUE,
                 Resolve(p, mem[p]), {Resolve(p, mem[p]).core}, {})
       \/ Effect("body", p, t, mem[p].selection, FALSE, mem[p], {}, {})
    /\ inflight' = [inflight EXCEPT ![p] = @ \ {t}]
    /\ UNCHANGED <<Rest, blocks>>

\* default_backend_kind, default_backend_info: synchronous readers.
ReadDefault(p, t) ==
    /\ Running(p, t)
    /\ \/ /\ ~CannotEnsure(p)
          /\ LET m == Resolve(p, Ensured(p))
             IN  Effect("read", p, t, mem[p].selection, TRUE, m, {m.core}, EnsureLeaks(p))
       \/ /\ CannotEnsure(p)
          /\ Effect("read", p, t, mem[p].selection, FALSE, mem[p], {}, {})
    /\ UNCHANGED <<Rest, inflight, blocks>>

\* The memory after a backend for s has become the default of a process that
\* owns its own: the old default is dropped unless something else holds it.
\* MUTANT of Installed: SELECTION is not written.
InstalledUnrecorded(p, m, s) == Build(p, m, s)
Installed(p, m, s) == [Build(p, m, s) EXCEPT !.selection = s]

\* MUTANT of SetDefaultBackend: rebuilds what was inherited before replacing it.
SetAfterEnsure(p, t, s) ==
    /\ Running(p, t)
    /\ LET ok == s \in resolvable[p] /\ ~CannotEnsure(p)
       IN  IF ok THEN Effect("set", p, t, s, TRUE, Installed(p, Ensured(p), s), {}, EnsureLeaks(p))
                 ELSE Effect("set", p, t, s, FALSE, mem[p], {}, {})
    /\ UNCHANGED <<Rest, inflight, blocks>>

SetDefaultBackend(p, t, s) ==
    /\ Running(p, t)
    /\ \/ /\ s \notin resolvable[p]
          /\ Effect("set", p, t, s, FALSE,
                    IF Inherited(p) THEN mem[p] ELSE Claim(p, mem[p]), {}, {})
       \/ /\ s \in resolvable[p]
          /\ Inherited(p)
          /\ Effect("set", p, t, s, TRUE, TakeOver(p, mem[p], s), {}, Forgotten(p))
       \/ /\ s \in resolvable[p]
          /\ ~Inherited(p)
          /\ Effect("set", p, t, s, TRUE, Installed(p, Claim(p, mem[p]), s), {}, {})
    /\ UNCHANGED <<Rest, inflight, blocks>>

\* A scope that will restore previous, or a backend chosen as selection says.
Opened(p, m, previous, selection) ==
    [m EXCEPT !.scopes[m.next] = [owner |-> Current(p), previous |-> previous,
                                  selection |-> selection],
              !.next = @ + 1]

\* with_backend gets its token and enters the block - unless an exception is
\* raised in the thread as push_default_backend returns, before `begin`.
EnterBlock(p, t, previous) ==
    \/ blocks' = [blocks EXCEPT ![p][t] = Append(@,
            [token |-> mem[p].next, core |-> previous, selection |-> mem[p].selection])]
    \/ Interrupts /\ UNCHANGED blocks

PushDefaultBackend(p, t, s) ==
    /\ Running(p, t)
    /\ mem[p].next \in Tokens
    /\ \/ /\ s \notin resolvable[p]
          /\ Effect("push", p, t, s, FALSE,
                    IF Inherited(p) THEN mem[p] ELSE Claim(p, mem[p]), {}, {})
          /\ UNCHANGED blocks
       \/ /\ s \in resolvable[p]
          /\ Inherited(p)
          /\ Effect("push", p, t, s, TRUE,
                    Opened(p, TakeOver(p, mem[p], s), NoBackend, mem[p].selection),
                    {}, Forgotten(p))
          /\ EnterBlock(p, t, NoBackend)
       \/ /\ s \in resolvable[p]
          /\ ~Inherited(p)
          /\ LET m == Resolve(p, Claim(p, mem[p]))   \* the swap hands out the old one
             IN  /\ Effect("push", p, t, s, TRUE,
                           Opened(p, Installed(p, m, s), m.core, m.selection), {}, {})
                 /\ EnterBlock(p, t, m.core)
    /\ UNCHANGED <<Rest, inflight>>

\* The innermost block of t is left, by return or by exception: the token is
\* consumed whether or not the restore succeeds.
Innermost(p, t) == blocks[p][t][Len(blocks[p][t])]

\* MUTANT of Restored: the backend comes back without its record.
RestoredUnrecorded(m, scope) == [m EXCEPT !.core = scope.previous]

Closed(m, token) == [m EXCEPT !.scopes[token] = NoScope]
Restored(m, scope) == [m EXCEPT !.core = scope.previous, !.selection = scope.selection]

PopDefaultBackend(p, t) ==
    /\ Running(p, t)
    /\ blocks[p][t] # <<>>
    /\ LET token == Innermost(p, t).token
           scope == mem[p].scopes[token]
           m     == Closed(mem[p], token)
           Pop(ok, m2, leaks) == Effect("pop", p, t, scope.selection, ok, m2, {}, leaks)
           kept  == scope.previous # NoBackend /\ scope.owner = Current(p)
           found == scope.selection \in resolvable[p]
       IN  \/ Inherited(p) /\ found /\ Pop(TRUE, TakeOver(p, m, scope.selection), Forgotten(p))
           \/ Inherited(p) /\ ~found /\ Pop(FALSE, m, {scope.previous})
           \/ ~Inherited(p) /\ kept /\ Pop(TRUE, Restored(Claim(p, m), scope), {})
           \/ /\ ~Inherited(p) /\ ~kept /\ found
              /\ Pop(TRUE, Installed(p, Claim(p, m), scope.selection),
                     {scope.previous, mem[p].core})
           \/ ~Inherited(p) /\ ~kept /\ ~found /\ Pop(FALSE, Claim(p, m), {scope.previous})
    /\ blocks' = [blocks EXCEPT ![p][t] = SubSeq(@, 1, Len(@) - 1)]
    /\ UNCHANGED <<Rest, inflight>>

--------------------------------------------------------------------------------
(* Processes and their surroundings.                                       *)

Happens(op, p) ==
    last' = [op |-> op, proc |-> p, thread |-> last.thread, sel |-> Ladder, ok |-> TRUE,
             uses |-> {}, leaks |-> {}, drops |-> {}]

\* Thread t forks: the child's memory is a copy, and t is its only thread.  From
\* Ruby code, t is in no native call; from a signal handler that the interrupt
\* check inside a native call runs (TrapForks), it is.
Fork(p, t, c) ==
    /\ t \in threads[p]
    /\ t \in inflight[p] => TrapForks
    /\ ForkProcess(p, c)
    /\ mem' = [mem EXCEPT ![c] = mem[p]]
    /\ threads' = [threads EXCEPT ![c] = {t}]
    /\ inflight' = [inflight EXCEPT ![c] = inflight[p] \cap {t}]
    /\ blocks' = [blocks EXCEPT ![c] = [u \in Threads |-> IF u = t THEN blocks[p][t] ELSE <<>>]]
    /\ resolvable' = [resolvable EXCEPT ![c] = resolvable[p]]
    /\ Happens("fork", p)

\* A process that ends destroys none of its statics.
Exit(p) ==
    /\ ExitProcess(p)
    /\ Happens("exit", p)
    /\ UNCHANGED <<mem, threads, inflight, blocks, resolvable>>

\* ENV, the config file or a profile changes under a process.
ChangeEnvironment(p) ==
    /\ Alive(p)
    /\ \E s \in Fragile :
         resolvable' = [resolvable EXCEPT ![p] = IF s \in @ THEN @ \ {s} ELSE @ \cup {s}]
    /\ Cardinality({x \in Procs \X Selections : x[2] \notin resolvable'[x[1]]}) <= MaxBroken
    /\ Happens("env", p)
    /\ UNCHANGED <<processVars, mem, threads, inflight, blocks>>

InitialMemory ==
    [core |-> NoBackend, selection |-> Ladder, owner |-> NoIdentity,
     scopes |-> [k \in Tokens |-> NoScope], next |-> 1, built |-> 0]

Init ==
    /\ ProcessInit
    /\ mem = [p \in Procs |-> InitialMemory]
    /\ threads = [p \in Procs |-> IF p = Root THEN Threads ELSE {}]
    /\ inflight = [p \in Procs |-> {}]
    /\ blocks = [p \in Procs |-> [t \in Threads |-> <<>>]]
    /\ resolvable = [p \in Procs |-> Selections]
    /\ \E t \in Threads :
         last = [op |-> "load", proc |-> Root, thread |-> t, sel |-> Ladder, ok |-> TRUE,
                 uses |-> {}, leaks |-> {}, drops |-> {}]

Operation(p, t) ==
    \/ EnterCall(p, t)
    \/ RunCall(p, t)
    \/ ReadDefault(p, t)
    \/ \E s \in Explicit : SetDefaultBackend(p, t, s) \/ PushDefaultBackend(p, t, s)
    \/ PopDefaultBackend(p, t)
    \/ \E c \in Procs : Fork(p, t, c)

Next ==
    \E p \in Procs :
        \/ \E t \in Threads : Operation(p, t)
        \/ Exit(p)
        \/ ChangeEnvironment(p)

Spec == Init /\ [][Next]_vars

--------------------------------------------------------------------------------
(* What it promises.                                                       *)

TypeOK ==
    /\ ProcessTypeOK
    /\ mem \in [Procs -> Memory]
    /\ threads \in [Procs -> SUBSET Threads]
    /\ inflight \in [Procs -> SUBSET Threads]
    /\ blocks \in [Procs -> [Threads -> Seq(Block)]]
    /\ resolvable \in [Procs -> SUBSET Selections]
    /\ last \in [op : {"load", "enter", "body", "read", "set", "push", "pop",
                       "fork", "exit", "env"},
                 proc : Procs, thread : Threads, sel : Selections, ok : BOOLEAN,
                 uses : SUBSET (Backend \cup {NoBackend}),
                 leaks : SUBSET Backend, drops : SUBSET Backend]

\* A backend built by another process is never used and never destroyed: using
\* it hangs on threads that do not exist here, and its destructor wakes them
\* ("inherited native state is never used and never dropped in the child",
\* DESIGN.md).  Holds whatever the forks, pid reuse, nested scopes, failed
\* rebuilds and concurrent calls - as long as no signal handler forks inside a
\* native call, after block_on has checked the backend.
ForeignNeverTouched ==
    \A b \in last.uses \cup last.drops : b.by = last.proc

\* SELECTION always says how the default the core holds was chosen, in every
\* process and through every failure: a child that rebuilds from it gets the
\* backend its parent was using.
Recorded(m) == m.selection = IF m.core = NoBackend THEN Ladder ELSE m.core.sel
RecordMatchesDefault == \A p \in Procs : Recorded(mem[p])

\* No backend is held in two places: the default is never also saved by an open
\* scope, nor one backend by two scopes, so none can be restored or dropped twice.
HeldOnceIn(m) ==
    \A k \in Tokens :
        Saved(m, k) # NoBackend =>
            /\ Saved(m, k) # m.core
            /\ \A j \in Tokens \ {k} : Saved(m, j) # Saved(m, k)
HeldOnce == \A p \in Procs : HeldOnceIn(mem[p])

\* Leaving a block gives the process back what the block replaced: the very same
\* backend when this process was using it, else one of this process's own,
\* chosen the same way.  The fork may come between push and pop, any number of
\* failed or successful calls in the child before the pop.
ScopeRestored ==
    [][ last'.op = "pop" /\ last'.ok =>
          LET p == last'.proc
              e == Innermost(p, last'.thread)
          IN  /\ mem'[p].selection = e.selection
              /\ IF e.core # NoBackend /\ e.core.by = p
                 THEN mem'[p].core = e.core
                 ELSE mem'[p].core.by = p /\ mem'[p].core.sel = e.selection ]_vars

\* Choosing a backend, opening a scope and leaving one succeed whenever the
\* selection they install resolves: none of them depends on whether the backend
\* inherited from the parent - or the scope's temporary one - can be rebuilt.
NeverStuckOnInherited ==
    [][ last'.op \in {"set", "push", "pop"} /\ last'.sel \in resolvable[last'.proc]
            => last'.ok ]_vars

\* No scope outlives its block: in the process that loaded the extension (a child
\* also inherits scopes of threads it does not have) the open scopes are those of
\* the open blocks, so no temporary backend is installed for good ("restoring the previous one afterward
\* (even on error)", lib/microsandbox.rb).
OpenTokens(p) == {k \in Tokens : mem[p].scopes[k] # NoScope}
BlockTokens(p) ==
    UNION {{blocks[p][t][i].token : i \in 1..Len(blocks[p][t])} : t \in Threads}
ScopesClose == OpenTokens(Root) = BlockTokens(Root)

================================================================================
