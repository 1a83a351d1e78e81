--------------------------- MODULE ForkBackendProofs ---------------------------
(***************************************************************************)
(* ForkBackend for every value of its constants: however many processes,   *)
(* threads, scopes and selections there are, no process ever uses or drops *)
(* a backend another process built, and leaving a with_backend block gives *)
(* back what the block replaced.                                           *)
(***************************************************************************)
EXTENDS ForkBackend, ProcessIdentityProofs, SequenceTheorems

--------------------------------------------------------------------------------
(* The inductive invariant.                                                *)

\* What is true of the memory m of process p, whose identity is id and whose
\* ancestors' identities are line.  The owner on record is the process or one of
\* its ancestors; if it is the process itself, all that memory holds was built
\* here, which is where the soundness of identities comes in.
MemInv(p, m, id, line) ==
    /\ m.owner \in line \cup {id, NoIdentity}
    /\ m.owner = NoIdentity => Held(m) = {}
    /\ IdentityAssumption /\ m.owner = id => \A b \in Held(m) : b.by = p
    /\ \A b \in Held(m) : b.n < m.built
    /\ Recorded(m)
    /\ \A k \in Tokens : Saved(m, k) # NoBackend => Saved(m, k).sel = m.scopes[k].selection
    /\ HeldOnceIn(m)

\* An open block has an open scope, and no two have the same one.
TokenAt(p, t, i) == blocks[p][t][i].token
BlocksInv ==
    \A p \in Procs, t \in Threads : \A i \in 1..Len(blocks[p][t]) :
        /\ TokenAt(p, t, i) < mem[p].next
        /\ mem[p].scopes[TokenAt(p, t, i)] # NoScope
        /\ \A u \in Threads : \A j \in 1..Len(blocks[p][u]) :
             TokenAt(p, t, i) = TokenAt(p, u, j) => t = u /\ i = j

\* Who is inside a native call passed its check of the backend in this process.
CallInv ==
    \A p \in Procs :
        inflight[p] # {} => ~Untouched(p) /\ (TrapForks \/ Owns(p))

LastInv == IdentityAssumption /\ ~TrapForks => ForeignNeverTouched

MemsInv == \A p \in Procs : MemInv(p, mem[p], Current(p), lineage[p])

IInv == ProcessInv /\ TypeOK /\ MemsInv /\ BlocksInv /\ CallInv /\ LastInv

--------------------------------------------------------------------------------
(* Lemmas about memory.                                                    *)

\* A memory that belongs to process p and satisfies the invariant.
Own(p, m, id, line) ==
    m \in Memory /\ MemInv(p, m, id, line) /\ m.owner = id /\ id # NoIdentity

LEMMA HeldBackends ==
    ASSUME NEW m \in Memory
    PROVE  /\ Held(m) \subseteq Backend
           /\ \A k \in Tokens : Saved(m, k) \in Backend \cup {NoBackend}
           /\ \A b : b \in Held(m) <=> /\ b # NoBackend
                                       /\ b = m.core \/ \E k \in Tokens : b = Saved(m, k)
  <1>1. \A k \in Tokens : Saved(m, k) \in Backend \cup {NoBackend}
    BY DEF Saved, Memory, Scope
  <1>2. m.core \in Backend \cup {NoBackend}
    BY DEF Memory
  <1>3. QED
    BY <1>1, <1>2 DEF Held

LEMMA FreshFacts ==
    ASSUME NEW p \in Procs, NEW m \in Memory, NEW s \in Selections
    PROVE  /\ Fresh(p, m, s) \in Backend
           /\ Fresh(p, m, s) # NoBackend
           /\ Fresh(p, m, s).by = p
           /\ Fresh(p, m, s).n = m.built
           /\ Fresh(p, m, s).sel = s
  BY BackendAssumption DEF Fresh, Backend, Memory

LEMMA BuildFacts ==
    ASSUME NEW p \in Procs, NEW m \in Memory, NEW s \in Selections
    PROVE  /\ Build(p, m, s) \in Memory
           /\ Build(p, m, s).core = Fresh(p, m, s)
           /\ Build(p, m, s).built = m.built + 1
           /\ Build(p, m, s).scopes = m.scopes
           /\ Build(p, m, s).selection = m.selection
           /\ Build(p, m, s).owner = m.owner
           /\ Build(p, m, s).next = m.next
  <1>1. m.built \in Nat /\ m.built + 1 \in Nat
    BY DEF Memory
  <1>2. Fresh(p, m, s) \in Backend \cup {NoBackend}
    BY FreshFacts
  <1>3. QED
    BY <1>1, <1>2, Zenon DEF Build, Memory

LEMMA SelectionFacts ==
    ASSUME NEW m \in Memory, NEW s \in Selections
    PROVE  LET n == [m EXCEPT !.selection = s]
           IN  /\ n \in Memory /\ n.core = m.core /\ n.built = m.built /\ n.scopes = m.scopes
               /\ n.selection = s /\ n.owner = m.owner /\ n.next = m.next
  BY Zenon DEF Memory

LEMMA InstalledFacts ==
    ASSUME NEW p \in Procs, NEW m \in Memory, NEW s \in Selections
    PROVE  LET n == Installed(p, m, s)
           IN  /\ n \in Memory /\ n.core = Fresh(p, m, s) /\ n.built = m.built + 1
               /\ n.scopes = m.scopes /\ n.selection = s /\ n.owner = m.owner
               /\ n.next = m.next
  <1>1. Installed(p, m, s) = [Build(p, m, s) EXCEPT !.selection = s]
    BY DEF Installed
  <1>2. QED
    BY <1>1, BuildFacts, SelectionFacts

LEMMA ClaimFacts ==
    ASSUME NEW p \in Procs, NEW m \in Memory, Current(p) \in Identity
    PROVE  LET n == Claim(p, m)
           IN  /\ n \in Memory /\ n.core = m.core /\ n.built = m.built /\ n.scopes = m.scopes
               /\ n.selection = m.selection /\ n.owner = Current(p) /\ n.next = m.next
  <1>1. Current(p) \in Identity \cup {NoIdentity}
    OBVIOUS
  <1>2. QED
    BY <1>1, Zenon DEF Claim, Memory

\* The scopes of a memory after a takeover: all still there, none with a backend.
Emptied(m) == [k \in Tokens |-> IF m.scopes[k] = NoScope THEN NoScope
                                ELSE [m.scopes[k] EXCEPT !.previous = NoBackend]]

LEMMA EmptiedFacts ==
    ASSUME NEW m \in Memory
    PROVE  /\ Emptied(m) \in [Tokens -> Scope \cup {NoScope}]
           /\ \A k \in Tokens : Emptied(m)[k] = NoScope <=> m.scopes[k] = NoScope
           /\ \A k \in Tokens : Emptied(m)[k] # NoScope => Emptied(m)[k].previous = NoBackend
  <1> SUFFICES ASSUME NEW k \in Tokens, m.scopes[k] # NoScope
               PROVE  /\ [m.scopes[k] EXCEPT !.previous = NoBackend] \in Scope
                      /\ [m.scopes[k] EXCEPT !.previous = NoBackend].previous = NoBackend
    BY BackendAssumption DEF Emptied
  <1>1. m.scopes[k] \in Scope
    BY DEF Memory
  <1>2. QED
    BY <1>1, Zenon DEF Scope

LEMMA ResolveFacts ==
    ASSUME NEW p \in Procs, NEW m \in Memory
    PROVE  LET n == Resolve(p, m)
           IN  /\ n \in Memory /\ n.core \in Backend /\ n.core # NoBackend
               /\ n.scopes = m.scopes /\ n.selection = m.selection
               /\ n.owner = m.owner /\ n.next = m.next
               /\ m.core # NoBackend => n = m
               /\ m.core = NoBackend => n = Build(p, m, Ladder)
  <1>1. Ladder \in Selections
    BY DEF Selections
  <1>2. m.core \in Backend \cup {NoBackend}
    BY DEF Memory
  <1>3. QED
    BY <1>1, <1>2, BuildFacts, FreshFacts, BackendAssumption DEF Resolve

\* Resolving adds the resolved default to what is held and loses nothing.
LEMMA ResolveHeld ==
    ASSUME NEW p \in Procs, NEW m \in Memory
    PROVE  /\ Held(m) \subseteq Held(Resolve(p, m))
           /\ Held(Resolve(p, m)) \subseteq Backend
  <1>1. /\ Resolve(p, m) \in Memory /\ Resolve(p, m).scopes = m.scopes
        /\ m.core # NoBackend => Resolve(p, m) = m
    BY ResolveFacts
  <1>2. \A k \in Tokens : Saved(Resolve(p, m), k) = Saved(m, k)
    BY <1>1 DEF Saved
  <1>3. Held(m) \subseteq Held(Resolve(p, m))
    BY <1>1, <1>2 DEF Held
  <1>4. QED
    BY <1>1, <1>3, HeldBackends

LEMMA TakeOverFacts ==
    ASSUME NEW p \in Procs, NEW m \in Memory, NEW s \in Selections, Current(p) \in Identity
    PROVE  LET n == TakeOver(p, m, s)
               r == Resolve(p, m)
           IN  /\ n \in Memory /\ n.core = Fresh(p, r, s)
               /\ r \in Memory /\ n.built = r.built + 1
               /\ n.scopes = Emptied(m) /\ n.selection = s /\ n.owner = Current(p)
               /\ n.next = m.next
  <1> DEFINE r == Resolve(p, m)
             b == Build(p, r, s)
             n == [b EXCEPT !.scopes = Emptied(m), !.selection = s, !.owner = Current(p)]
  <1>1. r \in Memory /\ r.next = m.next
    BY ResolveFacts
  <1>5. TakeOver(p, m, s) = n
    BY DEF TakeOver, Emptied
  <1> HIDE DEF r
  <1>2. /\ b \in Memory /\ b.core = Fresh(p, r, s) /\ b.built = r.built + 1 /\ b.next = r.next
    BY <1>1, BuildFacts
  <1>3. Emptied(m) \in [Tokens -> Scope \cup {NoScope}]
    BY EmptiedFacts
  <1>4. Current(p) \in Identity \cup {NoIdentity}
    OBVIOUS
  <1> HIDE DEF b
  <1>6. /\ n \in Memory /\ n.core = b.core /\ n.built = b.built /\ n.next = b.next
        /\ n.scopes = Emptied(m) /\ n.selection = s /\ n.owner = Current(p)
    BY <1>2, <1>3, <1>4, Zenon DEF Memory
  <1>7. QED
    BY <1>1, <1>2, <1>5, <1>6 DEF r

LEMMA OpenedFacts ==
    ASSUME NEW p \in Procs, NEW m \in Memory, NEW b \in Backend \cup {NoBackend},
           NEW s \in Selections, Current(p) \in Identity, m.next \in Tokens
    PROVE  LET n == Opened(p, m, b, s)
               e == [owner |-> Current(p), previous |-> b, selection |-> s]
           IN  /\ n \in Memory /\ n.core = m.core /\ n.built = m.built
               /\ n.scopes = [m.scopes EXCEPT ![m.next] = e] /\ e \in Scope
               /\ n.selection = m.selection /\ n.owner = m.owner /\ n.next = m.next + 1
  <1> DEFINE e == [owner |-> Current(p), previous |-> b, selection |-> s]
             sc == [m.scopes EXCEPT ![m.next] = e]
             nx == m.next + 1
             n == [m EXCEPT !.scopes = sc, !.next = nx]
  <1>1. e \in Scope
    BY DEF Scope
  <1>2. sc \in [Tokens -> Scope \cup {NoScope}]
    BY <1>1 DEF Memory
  <1>3. nx \in Nat
    BY DEF Memory
  <1>4. Opened(p, m, b, s) = n
    BY Zenon DEF Opened
  <1> HIDE DEF sc, nx
  <1>5. /\ n \in Memory /\ n.core = m.core /\ n.built = m.built /\ n.scopes = sc
        /\ n.selection = m.selection /\ n.owner = m.owner /\ n.next = nx
    BY <1>2, <1>3, Zenon DEF Memory
  <1>6. QED
    BY <1>1, <1>4, <1>5 DEF sc, nx

LEMMA ClosedFacts ==
    ASSUME NEW m \in Memory, NEW k \in Tokens
    PROVE  LET n == Closed(m, k)
           IN  /\ n \in Memory /\ n.core = m.core /\ n.built = m.built
               /\ n.scopes = [m.scopes EXCEPT ![k] = NoScope]
               /\ n.selection = m.selection /\ n.owner = m.owner /\ n.next = m.next
  <1> DEFINE sc == [m.scopes EXCEPT ![k] = NoScope]
             n == [m EXCEPT !.scopes = sc]
  <1>1. sc \in [Tokens -> Scope \cup {NoScope}]
    BY DEF Memory
  <1>2. Closed(m, k) = n
    BY Zenon DEF Closed
  <1> HIDE DEF sc
  <1>3. /\ n \in Memory /\ n.core = m.core /\ n.built = m.built /\ n.scopes = sc
        /\ n.selection = m.selection /\ n.owner = m.owner /\ n.next = m.next
    BY <1>1, Zenon DEF Memory
  <1>4. QED
    BY <1>2, <1>3 DEF sc

LEMMA RestoredFacts ==
    ASSUME NEW m \in Memory, NEW e \in Scope
    PROVE  LET n == Restored(m, e)
           IN  /\ n \in Memory /\ n.core = e.previous /\ n.built = m.built
               /\ n.scopes = m.scopes /\ n.selection = e.selection
               /\ n.owner = m.owner /\ n.next = m.next
  <1>1. e.previous \in Backend \cup {NoBackend} /\ e.selection \in Selections
    BY DEF Scope
  <1>2. QED
    BY <1>1, Zenon DEF Restored, Memory

--------------------------------------------------------------------------------
(* Every operation on memory keeps it the process's own.                   *)

\* A new default, in memory whose scopes are unchanged.
LEMMA NewDefaultInv ==
    ASSUME NEW p \in Procs, NEW s \in Selections, NEW id, NEW line,
           NEW m \in Memory, NEW n \in Memory,
           MemInv(p, m, id, line), m.owner # NoIdentity,
           n.core = Fresh(p, m, s), n.built = m.built + 1,
           n.scopes = m.scopes, n.selection = s, n.owner = m.owner
    PROVE  MemInv(p, n, id, line)
  <1>1. \A k \in Tokens : Saved(n, k) = Saved(m, k)
    BY DEF Saved
  <1>2. m.built \in Nat
    BY DEF Memory
  <1>3. Held(n) \subseteq Held(m) \cup {Fresh(p, m, s)}
    BY <1>1 DEF Held
  <1>4. \A b \in Held(n) : b.n < n.built
    BY <1>2, <1>3, FreshFacts, HeldBackends DEF MemInv, Backend
  <1>5. IdentityAssumption /\ n.owner = id => \A b \in Held(n) : b.by = p
    BY <1>3, FreshFacts DEF MemInv
  <1>6. HeldOnceIn(n)
    <2>1. \A k \in Tokens : Saved(m, k) # NoBackend => Saved(m, k) \in Held(m)
      BY DEF Held
    <2>2. Fresh(p, m, s) \notin Held(m)
      BY <1>2, FreshFacts DEF MemInv
    <2>3. QED
      BY <1>1, <2>1, <2>2 DEF MemInv, HeldOnceIn
  <1>7. Recorded(n)
    BY FreshFacts DEF Recorded
  <1>8. QED
    BY <1>1, <1>4, <1>5, <1>6, <1>7 DEF MemInv

\* Installing a backend keeps the memory the process's own.
LEMMA InstalledOwn ==
    ASSUME NEW p \in Procs, NEW s \in Selections, NEW id, NEW line, NEW m,
           Own(p, m, id, line)
    PROVE  Own(p, Installed(p, m, s), id, line)
  <1> DEFINE n == Installed(p, m, s)
  <1>1. m \in Memory /\ MemInv(p, m, id, line) /\ m.owner = id /\ id # NoIdentity
    BY DEF Own
  <1>2. /\ n \in Memory /\ n.core = Fresh(p, m, s) /\ n.built = m.built + 1
        /\ n.scopes = m.scopes /\ n.selection = s /\ n.owner = m.owner
    BY <1>1, InstalledFacts
  <1> HIDE DEF n
  <1>3. MemInv(p, n, id, line)
    BY <1>1, <1>2, NewDefaultInv
  <1>4. QED
    BY <1>1, <1>2, <1>3 DEF Own, n

\* Claiming memory in which nothing is held, or that is already claimed.
LEMMA ClaimOwn ==
    ASSUME NEW p \in Procs, NEW m \in Memory, NEW line, Current(p) \in Identity,
           MemInv(p, m, Current(p), line), m.owner \in {Current(p), NoIdentity}
    PROVE  /\ Own(p, Claim(p, m), Current(p), line)
           /\ Held(Claim(p, m)) = Held(m)
  <1> DEFINE n == Claim(p, m)
  <1>1. /\ n \in Memory /\ n.core = m.core /\ n.built = m.built /\ n.scopes = m.scopes
        /\ n.selection = m.selection /\ n.owner = Current(p)
    BY ClaimFacts
  <1>2. Current(p) # NoIdentity
    BY BackendAssumption
  <1> HIDE DEF n
  <1>3. Held(n) = Held(m) /\ \A k \in Tokens : Saved(n, k) = Saved(m, k)
    BY <1>1 DEF Held, Saved
  <1>4. Recorded(n) /\ HeldOnceIn(n)
    BY <1>1, <1>3 DEF MemInv, Recorded, HeldOnceIn
  <1>5. IdentityAssumption => \A b \in Held(n) : b.by = p
    BY <1>3 DEF MemInv
  <1>6. MemInv(p, n, Current(p), line)
    BY <1>1, <1>2, <1>3, <1>4, <1>5 DEF MemInv
  <1>7. QED
    BY <1>1, <1>2, <1>3, <1>6 DEF Own, n

\* A takeover needs nothing of the memory it takes over.
LEMMA TakeOverOwn ==
    ASSUME NEW p \in Procs, NEW m \in Memory, NEW line, NEW s \in Selections,
           Current(p) \in Identity
    PROVE  Own(p, TakeOver(p, m, s), Current(p), line)
  <1> DEFINE n == TakeOver(p, m, s)
             r == Resolve(p, m)
  <1>1. /\ n \in Memory /\ n.core = Fresh(p, r, s) /\ r \in Memory /\ n.built = r.built + 1
        /\ n.scopes = Emptied(m) /\ n.selection = s /\ n.owner = Current(p)
    BY TakeOverFacts
  <1> HIDE DEF n, r
  <1>2. \A k \in Tokens : Saved(n, k) = NoBackend
    BY <1>1, EmptiedFacts DEF Saved
  <1>3. Held(n) \subseteq {Fresh(p, r, s)}
    BY <1>1, <1>2 DEF Held
  <1>4. r.built \in Nat /\ Current(p) # NoIdentity
    BY <1>1, BackendAssumption DEF Memory
  <1>5. \A b \in Held(n) : b.by = p /\ b.n < n.built
    BY <1>1, <1>3, <1>4, FreshFacts
  <1>6. Recorded(n) /\ HeldOnceIn(n)
    BY <1>1, <1>2, FreshFacts DEF Recorded, HeldOnceIn
  <1>7. MemInv(p, n, Current(p), line)
    BY <1>1, <1>2, <1>4, <1>5, <1>6 DEF MemInv
  <1>8. QED
    BY <1>1, <1>4, <1>7 DEF Own, n

\* Resolving the ladder: there is a default then, and memory is as good as before.
LEMMA ResolveInv ==
    ASSUME NEW p \in Procs, NEW m \in Memory, NEW id, NEW line,
           MemInv(p, m, id, line), m.owner # NoIdentity
    PROVE  /\ MemInv(p, Resolve(p, m), id, line)
           /\ Resolve(p, m).core \in Held(Resolve(p, m))
           /\ Held(m) \subseteq Held(Resolve(p, m))
  <1>1. Ladder \in Selections
    BY DEF Selections
  <1>2. Resolve(p, m).core \in Held(Resolve(p, m))
    BY ResolveFacts DEF Held
  <1>3. CASE m.core # NoBackend
    BY <1>2, <1>3, ResolveFacts
  <1>4. CASE m.core = NoBackend
    <2> DEFINE n == Build(p, m, Ladder)
    <2>1. Resolve(p, m) = n
      BY <1>4, ResolveFacts
    <2>2. /\ n \in Memory /\ n.core = Fresh(p, m, Ladder) /\ n.built = m.built + 1
          /\ n.scopes = m.scopes /\ n.selection = m.selection /\ n.owner = m.owner
      BY <1>1, BuildFacts
    <2>3. n.selection = Ladder
      BY <1>4, <2>2 DEF MemInv, Recorded
    <2> HIDE DEF n
    <2>4. MemInv(p, n, id, line)
      BY <1>1, <2>2, <2>3, NewDefaultInv
    <2>5. Held(m) \subseteq Held(n)
      BY <1>4, <2>2 DEF Held, Saved
    <2>6. QED
      BY <1>2, <2>1, <2>4, <2>5
  <1>5. QED
    BY <1>3, <1>4

\* Opening a scope that saves a backend of the process's own which nothing else
\* holds, or saves none.
LEMMA OpenedOwn ==
    ASSUME NEW p \in Procs, NEW m, NEW line, NEW b \in Backend \cup {NoBackend},
           NEW s \in Selections, Current(p) \in Identity, m.next \in Tokens,
           Own(p, m, Current(p), line),
           b # NoBackend => /\ b.sel = s /\ b.n < m.built
                            /\ IdentityAssumption => b.by = p
                            /\ b # m.core
                            /\ \A k \in Tokens : Saved(m, k) # b
    PROVE  Own(p, Opened(p, m, b, s), Current(p), line)
  <1> DEFINE n == Opened(p, m, b, s)
             e == [owner |-> Current(p), previous |-> b, selection |-> s]
  <1>1. m \in Memory /\ MemInv(p, m, Current(p), line) /\ m.owner = Current(p)
        /\ Current(p) # NoIdentity
    BY DEF Own
  <1>2. /\ n \in Memory /\ n.core = m.core /\ n.built = m.built
        /\ n.scopes = [m.scopes EXCEPT ![m.next] = e] /\ e \in Scope
        /\ n.selection = m.selection /\ n.owner = m.owner
    BY <1>1, OpenedFacts
  <1>3. e.previous = b /\ e.selection = s /\ e # NoScope
    BY <1>2, BackendAssumption
  <1> HIDE DEF n, e
  <1>4. \A k \in Tokens : n.scopes[k] = IF k = m.next THEN e ELSE m.scopes[k]
    BY <1>1, <1>2 DEF Memory
  <1>5. \A k \in Tokens : Saved(n, k) = IF k = m.next THEN b ELSE Saved(m, k)
    BY <1>3, <1>4 DEF Saved
  <1>6. Held(n) \subseteq Held(m) \cup {b}
    BY <1>2, <1>5 DEF Held
  <1>7. NoBackend \notin Held(n)
    BY DEF Held
  <1>8. HeldOnceIn(n)
    BY <1>1, <1>2, <1>5 DEF MemInv, HeldOnceIn
  <1>9. \A k \in Tokens : Saved(n, k) # NoBackend => Saved(n, k).sel = n.scopes[k].selection
    BY <1>1, <1>3, <1>4, <1>5 DEF MemInv
  <1>10. \A c \in Held(n) : c.n < n.built
    BY <1>1, <1>2, <1>6, <1>7 DEF MemInv
  <1>11. IdentityAssumption => \A c \in Held(n) : c.by = p
    BY <1>1, <1>6, <1>7 DEF MemInv
  <1>12. Recorded(n)
    BY <1>1, <1>2 DEF MemInv, Recorded
  <1>13. MemInv(p, n, Current(p), line)
    BY <1>1, <1>2, <1>8, <1>9, <1>10, <1>11, <1>12 DEF MemInv
  <1>14. QED
    BY <1>1, <1>2, <1>13 DEF Own, n

\* Closing a scope only lets go of what it saved.
LEMMA ClosedInv ==
    ASSUME NEW p \in Procs, NEW m \in Memory, NEW k \in Tokens, NEW id, NEW line,
           MemInv(p, m, id, line)
    PROVE  /\ MemInv(p, Closed(m, k), id, line)
           /\ Held(Closed(m, k)) \subseteq Held(m)
           /\ Held(m) \subseteq Held(Closed(m, k)) \cup {Saved(m, k)}
           /\ \A j \in Tokens : Saved(Closed(m, k), j) =
                                  IF j = k THEN NoBackend ELSE Saved(m, j)
  <1> DEFINE n == Closed(m, k)
  <1>1. /\ n \in Memory /\ n.core = m.core /\ n.built = m.built
        /\ n.scopes = [m.scopes EXCEPT ![k] = NoScope]
        /\ n.selection = m.selection /\ n.owner = m.owner
    BY ClosedFacts
  <1> HIDE DEF n
  <1>2. \A j \in Tokens : n.scopes[j] = IF j = k THEN NoScope ELSE m.scopes[j]
    BY <1>1 DEF Memory
  <1>3. \A j \in Tokens : Saved(n, j) = IF j = k THEN NoBackend ELSE Saved(m, j)
    BY <1>2 DEF Saved
  <1>4. Held(n) \subseteq Held(m) /\ Held(m) \subseteq Held(n) \cup {Saved(m, k)}
    BY <1>1, <1>3 DEF Held
  <1>5. HeldOnceIn(n) /\ Recorded(n)
    BY <1>1, <1>3 DEF MemInv, HeldOnceIn, Recorded
  <1>6. \A j \in Tokens : Saved(n, j) # NoBackend => Saved(n, j).sel = n.scopes[j].selection
    BY <1>2, <1>3 DEF MemInv
  <1>7. MemInv(p, n, id, line)
    BY <1>1, <1>4, <1>5, <1>6 DEF MemInv
  <1>8. QED
    BY <1>3, <1>4, <1>7 DEF n

\* Putting a saved backend back: it is held once more, as the default.
LEMMA RestoredOwn ==
    ASSUME NEW p \in Procs, NEW m, NEW e \in Scope, NEW id, NEW line,
           Own(p, m, id, line), e.previous # NoBackend,
           e.previous.sel = e.selection, e.previous.n < m.built,
           IdentityAssumption => e.previous.by = p,
           \A k \in Tokens : Saved(m, k) # e.previous
    PROVE  Own(p, Restored(m, e), id, line)
  <1> DEFINE n == Restored(m, e)
  <1>1. m \in Memory /\ MemInv(p, m, id, line) /\ m.owner = id /\ id # NoIdentity
    BY DEF Own
  <1>2. /\ n \in Memory /\ n.core = e.previous /\ n.built = m.built
        /\ n.scopes = m.scopes /\ n.selection = e.selection /\ n.owner = m.owner
    BY <1>1, RestoredFacts
  <1> HIDE DEF n
  <1>3. \A k \in Tokens : Saved(n, k) = Saved(m, k) /\ n.scopes[k] = m.scopes[k]
    BY <1>2 DEF Saved
  <1>4. Held(n) \subseteq Held(m) \cup {e.previous}
    BY <1>2, <1>3 DEF Held
  <1>5. HeldOnceIn(n) /\ Recorded(n)
    BY <1>1, <1>2, <1>3 DEF MemInv, HeldOnceIn, Recorded
  <1>6. /\ \A b \in Held(n) : b.n < n.built
        /\ IdentityAssumption => \A b \in Held(n) : b.by = p
    BY <1>1, <1>2, <1>4 DEF MemInv
  <1>7. MemInv(p, n, id, line)
    BY <1>1, <1>2, <1>3, <1>5, <1>6 DEF MemInv
  <1>8. QED
    BY <1>1, <1>2, <1>7 DEF Own, n

--------------------------------------------------------------------------------
(* One step of one process.                                                *)

\* What IInv says of a process, in the form the steps use it.
LEMMA ProcessFacts ==
    ASSUME IInv, NEW p \in Procs
    PROVE  /\ mem[p] \in Memory
           /\ MemInv(p, mem[p], Current(p), lineage[p])
           /\ Current(p) \in Identity
           /\ Current(p) # NoIdentity
           /\ Held(mem[p]) \subseteq Backend
           /\ mem[p].selection \in Selections
           /\ mem[p].core \in Backend \cup {NoBackend}
  <1>1. mem[p] \in Memory
    BY DEF IInv, TypeOK
  <1>2. Current(p) \in Identity
    BY ProcessAssumption, CurrentIsIdentity DEF IInv, ProcessInv
  <1>3. Held(mem[p]) \subseteq Backend
    BY <1>1, HeldBackends
  <1>4. mem[p].selection \in Selections /\ mem[p].core \in Backend \cup {NoBackend}
    BY <1>1 DEF Memory
  <1>5. QED
    BY <1>1, <1>2, <1>3, <1>4, BackendAssumption DEF IInv, MemsInv

\* No scope of m is gone from n, and no token is handed out twice.
Keeps(m, n) ==
    /\ m.next <= n.next
    /\ \A k \in Tokens : m.scopes[k] # NoScope => n.scopes[k] # NoScope

\* Taking over empties scopes and closes none.
LEMMA TakeOverKeeps ==
    ASSUME NEW p \in Procs, NEW m \in Memory, NEW s \in Selections,
           Current(p) \in Identity, m.next \in Nat
    PROVE  Keeps(m, TakeOver(p, m, s))
  <1> DEFINE n == TakeOver(p, m, s)
  <1>1. n.scopes = Emptied(m) /\ n.next = m.next
    BY TakeOverFacts
  <1> HIDE DEF n
  <1>2. \A k \in Tokens : Emptied(m)[k] = NoScope <=> m.scopes[k] = NoScope
    BY EmptiedFacts
  <1>3. Keeps(m, n)
    BY <1>1, <1>2 DEF Keeps
  <1>4. QED
    BY <1>3 DEF n

\* ensure_this_process_backend, when it succeeds, leaves the process with memory
\* of its own, having leaked what it could not keep.
LEMMA EnsuredOwn ==
    ASSUME IInv, NEW p \in Procs
    PROVE  /\ Own(p, Ensured(p), Current(p), lineage[p])
           /\ Held(mem[p]) \subseteq Held(Ensured(p)) \cup EnsureLeaks(p)
           /\ EnsureLeaks(p) \subseteq Backend
           /\ Keeps(mem[p], Ensured(p))
  <1>1. /\ mem[p] \in Memory /\ MemInv(p, mem[p], Current(p), lineage[p])
        /\ Current(p) \in Identity /\ Held(mem[p]) \subseteq Backend
        /\ mem[p].selection \in Selections /\ mem[p].next \in Nat
    BY ProcessFacts DEF Memory
  <1>2. CASE Inherited(p)
    <2>1. Ensured(p) = TakeOver(p, mem[p], mem[p].selection) /\ EnsureLeaks(p) = Forgotten(p)
      BY <1>2 DEF Ensured, EnsureLeaks
    <2>2. Keeps(mem[p], Ensured(p))
      BY <1>1, <2>1, TakeOverKeeps
    <2>3. QED
      BY <1>1, <2>1, <2>2, TakeOverOwn, ResolveHeld DEF Forgotten
  <1>3. CASE ~Inherited(p)
    <2>1. Ensured(p) = Claim(p, mem[p]) /\ EnsureLeaks(p) = {}
      BY <1>3 DEF Ensured, EnsureLeaks
    <2>2. mem[p].owner \in {Current(p), NoIdentity}
      BY <1>3 DEF Inherited, Owns, Untouched
    <2>3. Keeps(mem[p], Ensured(p))
      BY <1>1, <2>1, ClaimFacts DEF Keeps
    <2>4. QED
      BY <1>1, <2>1, <2>2, <2>3, ClaimOwn
  <1>4. QED
    BY <1>2, <1>3

Ops == {"load", "enter", "body", "read", "set", "push", "pop", "fork", "exit", "env"}

\* Turning the memory of p into m, using and forgetting these backends, is safe.
Safe(p, m, uses, leaks) ==
    /\ m \in Memory
    /\ MemInv(p, m, Current(p), lineage[p])
    /\ uses \subseteq Backend
    /\ leaks \subseteq Backend \cup {NoBackend}
    /\ IdentityAssumption /\ ~TrapForks =>
          /\ \A b \in uses : b.by = p
          /\ \A b \in Held(mem[p]) \ (Held(m) \cup leaks) : b.by = p

\* What a step of p that leaves it with memory m does to the other variables.
Frame(p, m) ==
    /\ UNCHANGED Rest
    /\ inflight' \in [Procs -> SUBSET Threads]
    /\ blocks' \in [Procs -> [Threads -> Seq(Block)]]
    /\ \A q \in Procs \ {p} : inflight'[q] = inflight[q]
    /\ \/ m.owner = Current(p)
       \/ m.owner = mem[p].owner /\ inflight'[p] \subseteq inflight[p]

\* All of the invariant but what it says of blocks.
ButBlocks == ProcessInv /\ TypeOK /\ MemsInv /\ CallInv /\ LastInv

\* A handler that leaves the process with good memory, and neither uses nor lets
\* drop what another process built, keeps everything but the blocks invariant.
LEMMA EffectInv ==
    ASSUME IInv, NEW p \in Procs, NEW t \in Threads, NEW s \in Selections,
           NEW ok \in BOOLEAN, NEW op \in Ops, NEW m, NEW uses, NEW leaks,
           Effect(op, p, t, s, ok, m, uses, leaks),
           Safe(p, m, uses, leaks), Frame(p, m)
    PROVE  ButBlocks' /\ mem' = [mem EXCEPT ![p] = m]
  <1> USE DEF Safe, Frame
  <1>1. /\ ProcessInv' /\ lineage' = lineage
        /\ \A q \in Procs : Current(q)' = Current(q)
    BY ProcessAssumption, ProcessStutterInv DEF IInv, Rest
  <1>2. /\ mem' = [mem EXCEPT ![p] = m] /\ mem \in [Procs -> Memory]
        /\ mem' \in [Procs -> Memory]
    BY DEF Effect, IInv, TypeOK
  <1>3. /\ last'.proc = p /\ last'.uses = uses
        /\ last'.drops = Held(mem[p]) \ (Held(m) \cup leaks)
    BY DEF Effect
  <1>4. TypeOK'
    <2>1. Held(mem[p]) \subseteq Backend
      BY ProcessFacts
    <2>2. last' \in [op : Ops, proc : Procs, thread : Threads, sel : Selections,
                     ok : BOOLEAN, uses : SUBSET (Backend \cup {NoBackend}),
                     leaks : SUBSET Backend, drops : SUBSET Backend]
      BY <2>1 DEF Effect
    <2>3. threads' \in [Procs -> SUBSET Threads] /\ resolvable' \in [Procs -> SUBSET Selections]
      BY DEF IInv, TypeOK, Rest
    <2>4. QED
      BY <1>1, <1>2, <2>2, <2>3 DEF TypeOK, ProcessInv, Ops
  <1>5. MemsInv'
    <2> SUFFICES ASSUME NEW q \in Procs
                 PROVE  MemInv(q, mem'[q], Current(q)', lineage'[q])
      BY DEF MemsInv
    <2>1. CASE q = p
      BY <1>1, <1>2, <2>1
    <2>2. CASE q # p
      <3>1. mem'[q] = mem[q]
        BY <1>2, <2>2
      <3>2. MemInv(q, mem[q], Current(q), lineage[q])
        BY ProcessFacts
      <3>3. QED
        BY <1>1, <3>1, <3>2
    <2>3. QED
      BY <2>1, <2>2
  <1>6. CallInv'
    <2> SUFFICES ASSUME NEW q \in Procs, inflight'[q] # {}
                 PROVE  /\ mem'[q].owner # NoIdentity
                        /\ TrapForks \/ mem'[q].owner = Current(q)'
      BY DEF CallInv, Owns, Untouched
    <2>1. inflight[q] # {} => /\ mem[q].owner # NoIdentity
                              /\ TrapForks \/ mem[q].owner = Current(q)
      BY DEF IInv, CallInv, Owns, Untouched
    <2>2. CASE q = p
      <3>1. mem'[p] = m /\ Current(p) # NoIdentity
        BY <1>2, ProcessFacts
      <3>2. QED
        BY <1>1, <2>1, <2>2, <3>1
    <2>3. CASE q # p
      <3>1. inflight[q] # {} /\ mem'[q] = mem[q]
        BY <1>2, <2>3
      <3>2. QED
        BY <1>1, <2>1, <3>1
    <2>4. QED
      BY <2>2, <2>3
  <1>7. LastInv'
    BY <1>3 DEF LastInv, ForeignNeverTouched
  <1>8. QED
    BY <1>1, <1>2, <1>4, <1>5, <1>6, <1>7 DEF ButBlocks

LEMMA BlockFacts ==
    ASSUME IInv, NEW q \in Procs, NEW t \in Threads, NEW i \in 1..Len(blocks[q][t])
    PROVE  /\ blocks[q][t] \in Seq(Block)
           /\ blocks[q][t][i] \in Block
           /\ TokenAt(q, t, i) \in Tokens
  <1>1. blocks \in [Procs -> [Threads -> Seq(Block)]]
    BY DEF IInv, TypeOK
  <1>2. blocks[q] \in [Threads -> Seq(Block)]
    BY <1>1
  <1>3. blocks[q][t] \in Seq(Block)
    BY <1>2
  <1>4. blocks[q][t][i] \in Block
    BY <1>3, ElementOfSeq
  <1>5. QED
    BY <1>3, <1>4 DEF TokenAt, Block

\* Blocks that stay as they are, over memory that keeps its scopes.
LEMMA BlocksKept ==
    ASSUME IInv, NEW p \in Procs, NEW m \in Memory, Keeps(mem[p], m),
           mem' = [mem EXCEPT ![p] = m], UNCHANGED blocks
    PROVE  BlocksInv'
  <1> SUFFICES ASSUME NEW q \in Procs, NEW t \in Threads, NEW i \in 1..Len(blocks[q][t])
               PROVE  /\ TokenAt(q, t, i) < mem'[q].next
                      /\ mem'[q].scopes[TokenAt(q, t, i)] # NoScope
                      /\ \A u \in Threads : \A j \in 1..Len(blocks[q][u]) :
                           TokenAt(q, t, i) = TokenAt(q, u, j) => t = u /\ i = j
    BY DEF BlocksInv, TokenAt
  <1>1. TokenAt(q, t, i) \in Tokens
    BY BlockFacts
  <1>2. /\ TokenAt(q, t, i) < mem[q].next
        /\ mem[q].scopes[TokenAt(q, t, i)] # NoScope
        /\ \A u \in Threads : \A j \in 1..Len(blocks[q][u]) :
             TokenAt(q, t, i) = TokenAt(q, u, j) => t = u /\ i = j
    BY DEF IInv, BlocksInv
  <1>3. mem[q].next \in Nat /\ mem'[q].next \in Nat
    BY DEF IInv, TypeOK, Memory
  <1>4. Keeps(mem[q], mem'[q])
    BY <1>3 DEF Keeps, IInv, TypeOK
  <1>5. TokenAt(q, t, i) \in Nat
    BY <1>1 DEF Tokens
  <1>6. QED
    BY <1>1, <1>2, <1>3, <1>4, <1>5 DEF Keeps

\* A handler that touches no block and keeps every scope keeps the invariant.
LEMMA PlainEffectInv ==
    ASSUME IInv, NEW p \in Procs, NEW t \in Threads, NEW s \in Selections,
           NEW ok \in BOOLEAN, NEW op \in Ops, NEW m, NEW uses, NEW leaks,
           Effect(op, p, t, s, ok, m, uses, leaks),
           Safe(p, m, uses, leaks), Frame(p, m), Keeps(mem[p], m), UNCHANGED blocks
    PROVE  IInv'
  <1>1. ButBlocks' /\ mem' = [mem EXCEPT ![p] = m]
    BY EffectInv
  <1>2. m \in Memory
    BY DEF Safe
  <1>3. BlocksInv'
    BY <1>1, <1>2, BlocksKept
  <1>4. QED
    BY <1>1, <1>3 DEF IInv, ButBlocks

\* Memory of the process's own is safe to move to when all that is let go was
\* its own, or is forgotten.
LEMMA OwnIsSafe ==
    ASSUME IInv, NEW p \in Procs, NEW m, NEW uses, NEW leaks,
           Own(p, m, Current(p), lineage[p]),
           Held(mem[p]) \subseteq Held(m) \cup leaks \/ Owns(p),
           uses \subseteq Held(m), leaks \subseteq Backend \cup {NoBackend}
    PROVE  Safe(p, m, uses, leaks) /\ m.owner = Current(p)
  <1>1. m \in Memory /\ MemInv(p, m, Current(p), lineage[p]) /\ m.owner = Current(p)
    BY DEF Own
  <1>2. Held(m) \subseteq Backend
    BY <1>1, HeldBackends
  <1>3. MemInv(p, mem[p], Current(p), lineage[p])
    BY ProcessFacts
  <1>4. IdentityAssumption => \A b \in Held(m) : b.by = p
    BY <1>1 DEF MemInv
  <1>5. IdentityAssumption /\ Owns(p) => \A b \in Held(mem[p]) : b.by = p
    BY <1>3 DEF MemInv, Owns
  <1>6. QED
    BY <1>1, <1>2, <1>4, <1>5 DEF Safe

\* A handler that gives up before it changed anything.
LEMMA UnchangedIsSafe ==
    ASSUME IInv, NEW p \in Procs
    PROVE  Safe(p, mem[p], {}, {}) /\ Keeps(mem[p], mem[p])
  <1>1. mem[p] \in Memory /\ MemInv(p, mem[p], Current(p), lineage[p])
    BY ProcessFacts
  <1>2. mem[p].next \in Nat
    BY <1>1 DEF Memory
  <1>3. QED
    BY <1>1, <1>2 DEF Safe, Keeps

\* The frame of a handler that changes no thread and no block.
LEMMA QuietFrame ==
    ASSUME IInv, NEW p \in Procs, NEW m, m.owner = Current(p) \/ m.owner = mem[p].owner,
           UNCHANGED <<Rest, inflight, blocks>>
    PROVE  Frame(p, m)
  <1>1. /\ inflight \in [Procs -> SUBSET Threads]
        /\ blocks \in [Procs -> [Threads -> Seq(Block)]]
    BY DEF IInv, TypeOK
  <1>2. QED
    BY <1>1 DEF Frame

--------------------------------------------------------------------------------
(* The operations, one lemma each.                                         *)

\* block_on's check.
LEMMA EnterCallInv ==
    ASSUME IInv, NEW p \in Procs, NEW t \in Threads, EnterCall(p, t)
    PROVE  IInv'
  <1> DEFINE s == mem[p].selection
  <1>1. s \in Selections /\ "enter" \in Ops
    BY ProcessFacts DEF Ops
  <1> HIDE DEF s
  <1>2. CASE /\ Effect("enter", p, t, s, TRUE, Ensured(p), {}, EnsureLeaks(p))
             /\ inflight' = [inflight EXCEPT ![p] = @ \cup {t}]
    <2>1. /\ Own(p, Ensured(p), Current(p), lineage[p])
          /\ Held(mem[p]) \subseteq Held(Ensured(p)) \cup EnsureLeaks(p)
          /\ EnsureLeaks(p) \subseteq Backend /\ Keeps(mem[p], Ensured(p))
      BY EnsuredOwn
    <2>2. Safe(p, Ensured(p), {}, EnsureLeaks(p)) /\ Ensured(p).owner = Current(p)
      BY <2>1, OwnIsSafe
    <2>3. Frame(p, Ensured(p))
      BY <1>2, <2>2 DEF Frame, EnterCall, IInv, TypeOK
    <2>4. UNCHANGED blocks
      BY DEF EnterCall
    <2>5. QED
      BY <1>1, <1>2, <2>1, <2>2, <2>3, <2>4, PlainEffectInv
  <1>3. CASE Effect("enter", p, t, s, FALSE, mem[p], {}, {}) /\ UNCHANGED inflight
    <2>1. UNCHANGED <<Rest, inflight, blocks>>
      BY <1>3 DEF EnterCall
    <2>2. QED
      BY <1>1, <1>3, <2>1, UnchangedIsSafe, QuietFrame, PlainEffectInv
  <1>4. QED
    BY <1>2, <1>3 DEF EnterCall, s

\* The future: it finds the process's own backend because the check was made
\* here, unless a signal handler forked since.
LEMMA RunCallInv ==
    ASSUME IInv, NEW p \in Procs, NEW t \in Threads, RunCall(p, t)
    PROVE  IInv'
  <1> DEFINE s == mem[p].selection
             m == Resolve(p, mem[p])
  <1>1. /\ s \in Selections /\ mem[p] \in Memory
        /\ MemInv(p, mem[p], Current(p), lineage[p])
        /\ Current(p) # NoIdentity /\ "body" \in Ops
    BY ProcessFacts DEF Ops
  <1>2. mem[p].owner # NoIdentity /\ (TrapForks \/ mem[p].owner = Current(p))
    BY DEF RunCall, IInv, CallInv, Owns, Untouched
  <1>3. m.owner = mem[p].owner => Frame(p, m)
    BY DEF Frame, RunCall, IInv, TypeOK
  <1>4. Frame(p, mem[p]) /\ UNCHANGED blocks
    BY DEF Frame, RunCall, IInv, TypeOK
  <1>5. CASE Effect("body", p, t, s, TRUE, m, {m.core}, {})
    <2>1. /\ m \in Memory /\ m.core \in Backend /\ m.owner = mem[p].owner
          /\ m.next = mem[p].next /\ m.scopes = mem[p].scopes
      BY <1>1, ResolveFacts
    <2>2. /\ MemInv(p, m, Current(p), lineage[p])
          /\ m.core \in Held(m) /\ Held(mem[p]) \subseteq Held(m)
      BY <1>1, <1>2, ResolveInv
    <2>3. IdentityAssumption /\ ~TrapForks => m.core.by = p
      BY <1>2, <2>1, <2>2 DEF MemInv
    <2>4. mem[p].next \in Nat
      BY <1>1 DEF Memory
    <2> HIDE DEF s, m
    <2>5. Safe(p, m, {m.core}, {})
      BY <2>1, <2>2, <2>3 DEF Safe
    <2>6. Keeps(mem[p], m)
      BY <2>1, <2>4 DEF Keeps
    <2>7. QED
      BY <1>1, <1>3, <1>4, <1>5, <2>1, <2>5, <2>6, PlainEffectInv
  <1>6. CASE Effect("body", p, t, s, FALSE, mem[p], {}, {})
    <2> HIDE DEF s
    <2>1. QED
      BY <1>1, <1>4, <1>6, UnchangedIsSafe, PlainEffectInv
  <1>7. QED
    BY <1>5, <1>6 DEF RunCall

\* What a process that inherited nothing holds is its own, or nothing.
LEMMA NotInherited ==
    ASSUME IInv, NEW p \in Procs, ~Inherited(p)
    PROVE  /\ Own(p, Claim(p, mem[p]), Current(p), lineage[p])
           /\ Keeps(mem[p], Claim(p, mem[p]))
           /\ Owns(p) \/ Held(mem[p]) = {}
           /\ mem[p].owner \in {Current(p), NoIdentity}
  <1>1. Ensured(p) = Claim(p, mem[p])
    BY DEF Ensured
  <1>2. mem[p].owner \in {Current(p), NoIdentity} /\ (Owns(p) \/ Held(mem[p]) = {})
    BY ProcessFacts DEF Inherited, Owns, Untouched, MemInv
  <1>3. QED
    BY <1>1, <1>2, EnsuredOwn

\* set_default_backend and push_default_backend, when the selection they are
\* given does not resolve: at most the owner has been recorded.
GaveUp(p) == IF Inherited(p) THEN mem[p] ELSE Claim(p, mem[p])

LEMMA GaveUpIsSafe ==
    ASSUME IInv, NEW p \in Procs
    PROVE  /\ Safe(p, GaveUp(p), {}, {}) /\ Keeps(mem[p], GaveUp(p))
           /\ GaveUp(p).owner = Current(p) \/ GaveUp(p).owner = mem[p].owner
  <1>1. CASE Inherited(p)
    BY <1>1, UnchangedIsSafe DEF GaveUp
  <1>2. CASE ~Inherited(p)
    <2>1. GaveUp(p) = Claim(p, mem[p])
      BY <1>2 DEF GaveUp
    <2>2. QED
      BY <1>2, <2>1, NotInherited, OwnIsSafe
  <1>3. QED
    BY <1>1, <1>2

\* default_backend_kind and default_backend_info.
LEMMA ReadDefaultInv ==
    ASSUME IInv, NEW p \in Procs, NEW t \in Threads, ReadDefault(p, t)
    PROVE  IInv'
  <1> DEFINE s == mem[p].selection
             m == Resolve(p, Ensured(p))
  <1>1. s \in Selections /\ "read" \in Ops
    BY ProcessFacts DEF Ops
  <1>2. UNCHANGED <<Rest, inflight, blocks>>
    BY DEF ReadDefault
  <1>3. CASE Effect("read", p, t, s, TRUE, m, {m.core}, EnsureLeaks(p))
    <2>1. /\ Own(p, Ensured(p), Current(p), lineage[p])
          /\ Held(mem[p]) \subseteq Held(Ensured(p)) \cup EnsureLeaks(p)
          /\ EnsureLeaks(p) \subseteq Backend /\ Keeps(mem[p], Ensured(p))
      BY EnsuredOwn
    <2>2. /\ Ensured(p) \in Memory /\ Ensured(p).owner = Current(p)
          /\ Current(p) # NoIdentity /\ MemInv(p, Ensured(p), Current(p), lineage[p])
      BY <2>1 DEF Own
    <2>3. /\ m \in Memory /\ m.owner = Current(p)
          /\ m.scopes = Ensured(p).scopes /\ m.next = Ensured(p).next
      BY <2>2, ResolveFacts
    <2>4. /\ MemInv(p, m, Current(p), lineage[p])
          /\ m.core \in Held(m) /\ Held(Ensured(p)) \subseteq Held(m)
      BY <2>2, ResolveInv
    <2> HIDE DEF s, m
    <2>5. Own(p, m, Current(p), lineage[p])
      BY <2>2, <2>3, <2>4 DEF Own
    <2>6. Keeps(mem[p], m)
      BY <2>1, <2>3 DEF Keeps
    <2>7. Safe(p, m, {m.core}, EnsureLeaks(p)) /\ m.owner = Current(p)
      BY <2>1, <2>4, <2>5, OwnIsSafe
    <2>8. QED
      BY <1>1, <1>2, <1>3, <2>6, <2>7, QuietFrame, PlainEffectInv
  <1>4. CASE Effect("read", p, t, s, FALSE, mem[p], {}, {})
    <2> HIDE DEF s
    <2>1. QED
      BY <1>1, <1>2, <1>4, UnchangedIsSafe, QuietFrame, PlainEffectInv
  <1>5. QED
    BY <1>3, <1>4 DEF ReadDefault

\* set_default_backend.
LEMMA SetDefaultBackendInv ==
    ASSUME IInv, NEW p \in Procs, NEW t \in Threads, NEW s \in Explicit,
           SetDefaultBackend(p, t, s)
    PROVE  IInv'
  <1>1. s \in Selections /\ "set" \in Ops
    BY DEF Selections, Ops
  <1>2. UNCHANGED <<Rest, inflight, blocks>>
    BY DEF SetDefaultBackend
  <1>3. CASE Effect("set", p, t, s, FALSE, GaveUp(p), {}, {})
    BY <1>1, <1>2, <1>3, GaveUpIsSafe, QuietFrame, PlainEffectInv
  <1>4. CASE /\ Inherited(p)
             /\ Effect("set", p, t, s, TRUE, TakeOver(p, mem[p], s), {}, Forgotten(p))
    <2>1. /\ mem[p] \in Memory /\ Current(p) \in Identity
          /\ Held(mem[p]) \subseteq Forgotten(p) /\ Forgotten(p) \subseteq Backend
          /\ mem[p].next \in Nat
      BY ProcessFacts, ResolveHeld DEF Memory, Forgotten
    <2>2. Own(p, TakeOver(p, mem[p], s), Current(p), lineage[p])
      BY <1>1, <2>1, TakeOverOwn
    <2>3. Keeps(mem[p], TakeOver(p, mem[p], s))
      BY <1>1, <2>1, TakeOverKeeps
    <2>4. /\ Safe(p, TakeOver(p, mem[p], s), {}, Forgotten(p))
          /\ TakeOver(p, mem[p], s).owner = Current(p)
      BY <2>1, <2>2, OwnIsSafe
    <2>5. QED
      BY <1>1, <1>2, <1>4, <2>3, <2>4, QuietFrame, PlainEffectInv
  <1>5. CASE /\ ~Inherited(p)
             /\ Effect("set", p, t, s, TRUE, Installed(p, Claim(p, mem[p]), s), {}, {})
    <2> DEFINE r == Claim(p, mem[p])
               m == Installed(p, r, s)
    <2>1. /\ Own(p, r, Current(p), lineage[p]) /\ Keeps(mem[p], r)
          /\ Owns(p) \/ Held(mem[p]) = {}
      BY <1>5, NotInherited
    <2>2. r \in Memory
      BY <2>1 DEF Own
    <2>3. m.scopes = r.scopes /\ m.next = r.next
      BY <1>1, <2>2, InstalledFacts
    <2>4. Own(p, m, Current(p), lineage[p])
      BY <1>1, <2>1, InstalledOwn
    <2> HIDE DEF r, m
    <2>5. Keeps(mem[p], m)
      BY <2>1, <2>3 DEF Keeps
    <2>6. Safe(p, m, {}, {}) /\ m.owner = Current(p)
      BY <2>1, <2>4, OwnIsSafe
    <2>7. QED
      BY <1>1, <1>2, <1>5, <2>5, <2>6, QuietFrame, PlainEffectInv DEF r, m
  <1>6. QED
    BY <1>3, <1>4, <1>5 DEF SetDefaultBackend, GaveUp

\* A block opened with the next token, over memory with a scope for it.
LEMMA BlocksPushed ==
    ASSUME IInv, NEW p \in Procs, NEW t \in Threads, NEW m \in Memory, NEW e \in Block,
           Keeps(mem[p], m), m.next = mem[p].next + 1, mem[p].next \in Tokens,
           m.scopes[mem[p].next] # NoScope, e.token = mem[p].next,
           mem' = [mem EXCEPT ![p] = m],
           blocks' = [blocks EXCEPT ![p][t] = Append(@, e)]
    PROVE  BlocksInv'
  <1>1. /\ mem'[p] = m /\ \A q \in Procs \ {p} : mem'[q] = mem[q]
        /\ blocks[p] \in [Threads -> Seq(Block)]
    BY DEF IInv, TypeOK
  <1>2. /\ blocks'[p][t] = Append(blocks[p][t], e)
        /\ \A u \in Threads \ {t} : blocks'[p][u] = blocks[p][u]
        /\ \A q \in Procs \ {p} : blocks'[q] = blocks[q]
    BY <1>1 DEF IInv, TypeOK
  <1>3. blocks[p][t] \in Seq(Block) /\ mem[p].next \in Nat
    BY <1>1 DEF Tokens
  <1>4. /\ Len(blocks'[p][t]) = Len(blocks[p][t]) + 1
        /\ \A i \in 1..Len(blocks[p][t]) : blocks'[p][t][i] = blocks[p][t][i]
        /\ blocks'[p][t][Len(blocks[p][t]) + 1] = e
    BY <1>2, <1>3
  <1> DEFINE Old(u, i) == i \in 1..Len(blocks[p][u])
             New(u, i) == u = t /\ i = Len(blocks[p][t]) + 1
  <1>5. \A u \in Threads : \A i \in 1..Len(blocks'[p][u]) :
           \/ Old(u, i) /\ TokenAt(p, u, i)' = TokenAt(p, u, i)
           \/ New(u, i) /\ TokenAt(p, u, i)' = mem[p].next
    BY <1>2, <1>3, <1>4 DEF TokenAt
  <1>6. \A u \in Threads : \A i \in 1..Len(blocks[p][u]) :
           /\ TokenAt(p, u, i) < mem[p].next /\ TokenAt(p, u, i) \in Tokens
           /\ mem[p].scopes[TokenAt(p, u, i)] # NoScope
           /\ \A v \in Threads : \A j \in 1..Len(blocks[p][v]) :
                TokenAt(p, u, i) = TokenAt(p, v, j) => u = v /\ i = j
    BY BlockFacts DEF IInv, BlocksInv
  <1>7. \A u \in Threads : \A i \in 1..Len(blocks'[p][u]) :
           /\ TokenAt(p, u, i)' < m.next
           /\ m.scopes[TokenAt(p, u, i)'] # NoScope
    <2> SUFFICES ASSUME NEW u \in Threads, NEW i \in 1..Len(blocks'[p][u])
                 PROVE  /\ TokenAt(p, u, i)' < m.next
                        /\ m.scopes[TokenAt(p, u, i)'] # NoScope
      OBVIOUS
    <2>1. CASE Old(u, i) /\ TokenAt(p, u, i)' = TokenAt(p, u, i)
      <3>1. /\ TokenAt(p, u, i) < mem[p].next /\ TokenAt(p, u, i) \in Tokens
            /\ mem[p].scopes[TokenAt(p, u, i)] # NoScope
        BY <1>6, <2>1
      <3>2. QED
        BY <1>3, <2>1, <3>1 DEF Keeps, Tokens
    <2>2. CASE New(u, i) /\ TokenAt(p, u, i)' = mem[p].next
      BY <1>3, <2>2
    <2>3. QED
      BY <1>5, <2>1, <2>2
  <1>8. \A u, v \in Threads :
           \A i \in 1..Len(blocks'[p][u]), j \in 1..Len(blocks'[p][v]) :
              TokenAt(p, u, i)' = TokenAt(p, v, j)' => u = v /\ i = j
    <2> SUFFICES ASSUME NEW u \in Threads, NEW v \in Threads,
                        NEW i \in 1..Len(blocks'[p][u]), NEW j \in 1..Len(blocks'[p][v]),
                        TokenAt(p, u, i)' = TokenAt(p, v, j)'
                 PROVE  u = v /\ i = j
      OBVIOUS
    <2>1. CASE Old(u, i) /\ TokenAt(p, u, i)' = TokenAt(p, u, i)
      <3>1. TokenAt(p, u, i) # mem[p].next
        BY <1>3, <1>6, <2>1 DEF Tokens
      <3>2. CASE Old(v, j) /\ TokenAt(p, v, j)' = TokenAt(p, v, j)
        <4>1. \A w \in Threads : \A k \in 1..Len(blocks[p][w]) :
                TokenAt(p, u, i) = TokenAt(p, w, k) => u = w /\ i = k
          BY <1>6, <2>1
        <4>2. QED
          BY <2>1, <3>2, <4>1
      <3>3. CASE New(v, j) /\ TokenAt(p, v, j)' = mem[p].next
        BY <2>1, <3>1, <3>3
      <3>4. QED
        BY <1>5, <3>2, <3>3
    <2>2. CASE New(u, i) /\ TokenAt(p, u, i)' = mem[p].next
      <3>1. Old(v, j) => TokenAt(p, v, j) # mem[p].next
        BY <1>3, <1>6 DEF Tokens
      <3>2. QED
        BY <1>5, <2>2, <3>1
    <2>3. QED
      BY <1>5, <2>1, <2>2
  <1>9. ASSUME NEW q \in Procs \ {p}, NEW u \in Threads, NEW i \in 1..Len(blocks'[q][u])
        PROVE  /\ TokenAt(q, u, i)' < mem'[q].next
               /\ mem'[q].scopes[TokenAt(q, u, i)'] # NoScope
               /\ \A v \in Threads : \A j \in 1..Len(blocks'[q][v]) :
                    TokenAt(q, u, i)' = TokenAt(q, v, j)' => u = v /\ i = j
    BY <1>1, <1>2 DEF TokenAt, IInv, BlocksInv
  <1>10. QED
    BY <1>1, <1>7, <1>8, <1>9 DEF BlocksInv, TokenAt

\* The memory push_default_backend opens a scope over.
PushOver(p, m) ==
    /\ Own(p, m, Current(p), lineage[p])
    /\ Keeps(mem[p], m)
    /\ m.next = mem[p].next
    /\ mem[p].next \in Tokens

\* What push_default_backend does last, in either of its two ways: over memory m
\* of the process's own, it opens a scope that saves b and enters the block.
SavedOnce(p, m, b, r) ==
    b # NoBackend => /\ b.sel = r /\ b.n < m.built /\ b # m.core
                     /\ IdentityAssumption => b.by = p
                     /\ \A k \in Tokens : Saved(m, k) # b

LEMMA OpenedKeeps ==
    ASSUME IInv, NEW p \in Procs, NEW m \in Memory, NEW b \in Backend \cup {NoBackend},
           NEW r \in Selections, m.next = mem[p].next, mem[p].next \in Tokens,
           Keeps(mem[p], m)
    PROVE  /\ Keeps(mem[p], Opened(p, m, b, r))
           /\ Opened(p, m, b, r).next = mem[p].next + 1
           /\ Opened(p, m, b, r).scopes[mem[p].next] # NoScope
  <1> DEFINE e == [owner |-> Current(p), previous |-> b, selection |-> r]
             n == Opened(p, m, b, r)
  <1>1. /\ n \in Memory /\ n.scopes = [m.scopes EXCEPT ![m.next] = e] /\ e \in Scope
        /\ n.next = m.next + 1
    BY ProcessFacts, OpenedFacts
  <1>2. m.scopes \in [Tokens -> Scope \cup {NoScope}] /\ m.next \in Nat
    BY DEF Memory
  <1>3. e # NoScope
    BY <1>1, BackendAssumption
  <1> HIDE DEF e, n
  <1>4. n.scopes[mem[p].next] = e /\ \A k \in Tokens \ {m.next} : n.scopes[k] = m.scopes[k]
    BY <1>1, <1>2
  <1>5. Keeps(mem[p], n)
    BY <1>1, <1>2, <1>3, <1>4 DEF Keeps
  <1>6. QED
    BY <1>1, <1>3, <1>4, <1>5 DEF n

LEMMA PushedInv ==
    ASSUME IInv, NEW p \in Procs, NEW t \in Threads, NEW s \in Selections, NEW m,
           NEW b \in Backend \cup {NoBackend}, NEW r \in Selections, NEW leaks,
           PushOver(p, m), SavedOnce(p, m, b, r),
           leaks \subseteq Backend,
           Held(mem[p]) \subseteq leaks \/ Owns(p),
           Effect("push", p, t, s, TRUE, Opened(p, m, b, r), {}, leaks),
           EnterBlock(p, t, b), UNCHANGED <<Rest, inflight>>
    PROVE  IInv'
  <1> DEFINE n == Opened(p, m, b, r)
  <1>1. /\ m \in Memory /\ Current(p) \in Identity /\ "push" \in Ops
        /\ mem[p].selection \in Selections /\ mem[p].next \in Tokens
        /\ blocks \in [Procs -> [Threads -> Seq(Block)]]
    BY ProcessFacts DEF PushOver, Own, Ops, IInv, TypeOK
  <1>2. Own(p, n, Current(p), lineage[p])
    BY <1>1, OpenedOwn DEF SavedOnce, PushOver
  <1>3. Keeps(mem[p], n) /\ n.next = mem[p].next + 1 /\ n.scopes[mem[p].next] # NoScope
    BY <1>1, OpenedKeeps DEF PushOver
  <1> HIDE DEF n
  <1>4. Safe(p, n, {}, leaks) /\ n.owner = Current(p)
    BY <1>2, OwnIsSafe
  <1>5. CASE UNCHANGED blocks
    <2>1. Frame(p, n)
      BY <1>4, <1>5, QuietFrame
    <2>2. QED
      BY <1>1, <1>3, <1>4, <1>5, <2>1, PlainEffectInv DEF n
  <1> DEFINE e == [token |-> mem[p].next, core |-> b, selection |-> mem[p].selection]
  <1>6. CASE blocks' = [blocks EXCEPT ![p][t] = Append(@, e)]
    <2>1. e \in Block /\ e.token = mem[p].next
      BY <1>1 DEF Block
    <2> HIDE DEF e
    <2>2. blocks' \in [Procs -> [Threads -> Seq(Block)]]
      <3>1. Append(blocks[p][t], e) \in Seq(Block)
        BY <1>1, <2>1
      <3>2. QED
        BY <1>1, <1>6, <3>1
    <2>3. Frame(p, n)
      BY <1>4, <2>2 DEF Frame, IInv, TypeOK
    <2>4. ButBlocks' /\ mem' = [mem EXCEPT ![p] = n]
      BY <1>1, <1>4, <2>3, EffectInv DEF n
    <2>5. n \in Memory
      BY <1>4 DEF Safe
    <2>6. BlocksInv'
      BY <1>1, <1>3, <1>6, <2>1, <2>4, <2>5, BlocksPushed
    <2>7. QED
      BY <2>4, <2>6 DEF IInv, ButBlocks
  <1>7. QED
    BY <1>5, <1>6 DEF EnterBlock

\* push_default_backend.
LEMMA PushDefaultBackendInv ==
    ASSUME IInv, NEW p \in Procs, NEW t \in Threads, NEW s \in Explicit,
           PushDefaultBackend(p, t, s)
    PROVE  IInv'
  <1>1. s \in Selections /\ "push" \in Ops
    BY DEF Selections, Ops
  <1>2. UNCHANGED <<Rest, inflight>> /\ mem[p].next \in Tokens
    BY DEF PushDefaultBackend
  <1>3. /\ mem[p] \in Memory /\ Current(p) \in Identity
        /\ Held(mem[p]) \subseteq Forgotten(p) /\ Forgotten(p) \subseteq Backend
        /\ mem[p].selection \in Selections /\ mem[p].next \in Nat
        /\ MemInv(p, mem[p], Current(p), lineage[p])
    BY ProcessFacts, ResolveHeld DEF Memory, Forgotten
  <1>4. CASE Effect("push", p, t, s, FALSE, GaveUp(p), {}, {}) /\ UNCHANGED blocks
    BY <1>1, <1>2, <1>4, GaveUpIsSafe, QuietFrame, PlainEffectInv
  <1>5. CASE /\ Inherited(p)
             /\ Effect("push", p, t, s, TRUE,
                       Opened(p, TakeOver(p, mem[p], s), NoBackend, mem[p].selection),
                       {}, Forgotten(p))
             /\ EnterBlock(p, t, NoBackend)
    <2> DEFINE m == TakeOver(p, mem[p], s)
    <2>1. Own(p, m, Current(p), lineage[p])
      BY <1>1, <1>3, TakeOverOwn
    <2>2. Keeps(mem[p], m) /\ m.next = mem[p].next
      BY <1>1, <1>3, TakeOverFacts, TakeOverKeeps
    <2> HIDE DEF m
    <2>3. SavedOnce(p, m, NoBackend, mem[p].selection) /\ PushOver(p, m)
      BY <1>2, <2>1, <2>2 DEF SavedOnce, PushOver
    <2>4. QED
      BY <1>1, <1>2, <1>3, <1>5, <2>3, PushedInv DEF m
  <1>6. CASE /\ ~Inherited(p)
             /\ LET m == Resolve(p, Claim(p, mem[p]))
                IN  /\ Effect("push", p, t, s, TRUE,
                              Opened(p, Installed(p, m, s), m.core, m.selection), {}, {})
                    /\ EnterBlock(p, t, m.core)
    <2> DEFINE c == Claim(p, mem[p])
               m == Resolve(p, c)
               i == Installed(p, m, s)
    <2>1. /\ Own(p, c, Current(p), lineage[p]) /\ Keeps(mem[p], c)
          /\ Owns(p) \/ Held(mem[p]) = {}
      BY <1>6, NotInherited
    <2>2. c.next = mem[p].next
      BY <1>3, ClaimFacts
    <2> HIDE DEF c
    <2>3. /\ c \in Memory /\ c.owner = Current(p) /\ Current(p) # NoIdentity
          /\ MemInv(p, c, Current(p), lineage[p])
      BY <2>1 DEF Own
    <2>4. /\ m \in Memory /\ m.core \in Backend /\ m.core # NoBackend
          /\ m.owner = c.owner /\ m.scopes = c.scopes /\ m.next = c.next
      BY <2>3, ResolveFacts
    <2>5. MemInv(p, m, Current(p), lineage[p]) /\ m.core \in Held(m)
      BY <2>3, ResolveInv
    <2> HIDE DEF m
    <2>6. Own(p, m, Current(p), lineage[p]) /\ m.selection \in Selections
      BY <2>3, <2>4, <2>5 DEF Own, Memory
    <2>7. Own(p, i, Current(p), lineage[p])
      BY <1>1, <2>6, InstalledOwn
    <2>8. /\ i.core = Fresh(p, m, s) /\ i.built = m.built + 1
          /\ i.scopes = m.scopes /\ i.next = m.next
      BY <1>1, <2>4, InstalledFacts
    <2>9. Fresh(p, m, s).n = m.built /\ m.built \in Nat
      BY <1>1, <2>4, FreshFacts DEF Memory
    <2> HIDE DEF i
    <2>10. Keeps(mem[p], i) /\ i.next = mem[p].next
      BY <2>1, <2>2, <2>4, <2>8 DEF Keeps
    <2>11. SavedOnce(p, i, m.core, m.selection)
      <3>1. m.core.sel = m.selection
        BY <2>4, <2>5 DEF MemInv, Recorded
      <3>2. m.core.n < m.built /\ m.core.n \in Nat
        BY <2>4, <2>5 DEF MemInv, Backend
      <3>3. m.core # i.core /\ m.core.n < i.built
        BY <2>8, <2>9, <3>2
      <3>4. ASSUME NEW k \in Tokens PROVE Saved(i, k) # m.core
        <4>1. Saved(i, k) = Saved(m, k)
          BY <2>8 DEF Saved
        <4>2. QED
          BY <2>4, <2>5, <4>1 DEF MemInv, HeldOnceIn
      <3>5. IdentityAssumption => m.core.by = p
        BY <2>3, <2>4, <2>5 DEF MemInv
      <3>6. QED
        BY <3>1, <3>3, <3>4, <3>5 DEF SavedOnce
    <2>12. /\ Effect("push", p, t, s, TRUE, Opened(p, i, m.core, m.selection), {}, {})
           /\ EnterBlock(p, t, m.core)
      BY <1>6 DEF i, m, c
    <2>13. PushOver(p, i)
      BY <1>2, <2>7, <2>10 DEF PushOver
    <2> DEFINE b == m.core
               r == m.selection
               none == {}
    <2>14. /\ Held(mem[p]) \subseteq none \/ Owns(p)
           /\ none \subseteq Backend /\ b \in Backend \cup {NoBackend} /\ r \in Selections
      BY <2>1, <2>4, <2>6
    <2>15. /\ Effect("push", p, t, s, TRUE, Opened(p, i, b, r), {}, none)
           /\ EnterBlock(p, t, b) /\ SavedOnce(p, i, b, r)
      BY <2>11, <2>12
    <2> HIDE DEF b, r, none
    <2>16. QED
      BY <1>1, <1>2, <2>13, <2>14, <2>15, PushedInv
  <1>7. QED
    BY <1>4, <1>5, <1>6 DEF PushDefaultBackend, GaveUp

\* As Keeps, except for the scope of token x.
KeepsBut(m, n, x) ==
    /\ m.next = n.next
    /\ \A k \in Tokens \ {x} : m.scopes[k] # NoScope => n.scopes[k] # NoScope

LEMMA PoppedFacts ==
    ASSUME IInv, NEW p \in Procs, NEW t \in Threads, blocks[p][t] # <<>>
    PROVE  LET tail == SubSeq(blocks[p][t], 1, Len(blocks[p][t]) - 1)
           IN  /\ tail \in Seq(Block)
               /\ Len(tail) = Len(blocks[p][t]) - 1
               /\ \A i \in 1..Len(tail) : tail[i] = blocks[p][t][i]
               /\ Len(blocks[p][t]) \in 1..Len(blocks[p][t])
               /\ Len(blocks[p][t]) \in Nat
  <1>1. blocks[p][t] \in Seq(Block)
    BY DEF IInv, TypeOK
  <1> DEFINE q == blocks[p][t]
             n == Len(blocks[p][t])
  <1>2. n \in Nat /\ n >= 1
    BY <1>1, EmptySeq
  <1>3. \A i \in 1..(n - 1) : q[i] \in Block
    BY <1>1, <1>2
  <1>4. /\ SubSeq(q, 1, n - 1) \in Seq(Block)
        /\ Len(SubSeq(q, 1, n - 1)) = IF 1 <= n - 1 THEN n - 1 - 1 + 1 ELSE 0
        /\ \A i \in 1..(n - 1 - 1 + 1) : SubSeq(q, 1, n - 1)[i] = q[1 + i - 1]
    <2>1. 1 \in Int /\ n - 1 \in Int
      BY <1>2
    <2> HIDE DEF q, n
    <2>2. QED
      BY <1>3, <2>1, SubSeqProperties
  <1> HIDE DEF q, n
  <1>5. Len(SubSeq(q, 1, n - 1)) = n - 1
    BY <1>2, <1>4
  <1>6. \A i \in 1..(n - 1) : SubSeq(q, 1, n - 1)[i] = q[i]
    BY <1>2, <1>4
  <1>7. QED
    BY <1>2, <1>4, <1>5, <1>6 DEF q, n

LEMMA BlocksPopped ==
    ASSUME IInv, NEW p \in Procs, NEW t \in Threads, NEW m \in Memory,
           blocks[p][t] # <<>>,
           KeepsBut(mem[p], m, Innermost(p, t).token),
           mem' = [mem EXCEPT ![p] = m],
           blocks' = [blocks EXCEPT ![p][t] = SubSeq(@, 1, Len(@) - 1)]
    PROVE  BlocksInv' /\ blocks' \in [Procs -> [Threads -> Seq(Block)]]
  <1> DEFINE n == Len(blocks[p][t])
             tail == SubSeq(blocks[p][t], 1, Len(blocks[p][t]) - 1)
  <1>1. /\ mem'[p] = m /\ \A q \in Procs \ {p} : mem'[q] = mem[q]
        /\ blocks \in [Procs -> [Threads -> Seq(Block)]]
    BY DEF IInv, TypeOK
  <1>2. /\ blocks'[p][t] = tail
        /\ \A u \in Threads \ {t} : blocks'[p][u] = blocks[p][u]
        /\ \A q \in Procs \ {p} : blocks'[q] = blocks[q]
    BY <1>1
  <1>3. /\ tail \in Seq(Block) /\ Len(tail) = n - 1 /\ n \in 1..n /\ n \in Nat
        /\ \A i \in 1..Len(tail) : tail[i] = blocks[p][t][i]
    BY PoppedFacts
  <1> HIDE DEF tail
  <1>4. blocks' \in [Procs -> [Threads -> Seq(Block)]]
    BY <1>1, <1>3 DEF tail
  <1>5. \A u \in Threads : \A i \in 1..Len(blocks'[p][u]) :
           /\ i \in 1..Len(blocks[p][u]) /\ TokenAt(p, u, i)' = TokenAt(p, u, i)
           /\ u = t => i # n
    BY <1>2, <1>3 DEF TokenAt
  <1>6. \A u \in Threads : \A i \in 1..Len(blocks[p][u]) :
           /\ TokenAt(p, u, i) < mem[p].next /\ TokenAt(p, u, i) \in Tokens
           /\ mem[p].scopes[TokenAt(p, u, i)] # NoScope
           /\ \A v \in Threads : \A j \in 1..Len(blocks[p][v]) :
                TokenAt(p, u, i) = TokenAt(p, v, j) => u = v /\ i = j
    BY BlockFacts DEF IInv, BlocksInv
  <1>7. Innermost(p, t).token = TokenAt(p, t, n)
    BY DEF Innermost, TokenAt
  <1> HIDE DEF n
  <1>8. ASSUME NEW u \in Threads, NEW i \in 1..Len(blocks'[p][u])
        PROVE  /\ TokenAt(p, u, i)' < m.next
               /\ m.scopes[TokenAt(p, u, i)'] # NoScope
               /\ \A v \in Threads : \A j \in 1..Len(blocks'[p][v]) :
                    TokenAt(p, u, i)' = TokenAt(p, v, j)' => u = v /\ i = j
    <2>1. /\ i \in 1..Len(blocks[p][u]) /\ TokenAt(p, u, i)' = TokenAt(p, u, i)
          /\ u = t => i # n
      BY <1>5
    <2>2. TokenAt(p, u, i) # TokenAt(p, t, n)
      BY <1>3, <1>6, <2>1 DEF n
    <2>3. /\ TokenAt(p, u, i) < mem[p].next /\ TokenAt(p, u, i) \in Tokens
          /\ mem[p].scopes[TokenAt(p, u, i)] # NoScope
      BY <1>6, <2>1
    <2>4. TokenAt(p, u, i)' < m.next /\ m.scopes[TokenAt(p, u, i)'] # NoScope
      BY <1>7, <2>1, <2>2, <2>3 DEF KeepsBut
    <2>5. ASSUME NEW v \in Threads, NEW j \in 1..Len(blocks'[p][v]),
                 TokenAt(p, u, i)' = TokenAt(p, v, j)'
          PROVE  u = v /\ i = j
      <3>1. j \in 1..Len(blocks[p][v]) /\ TokenAt(p, v, j)' = TokenAt(p, v, j)
        BY <1>5
      <3>2. QED
        BY <1>6, <2>1, <2>5, <3>1
    <2>6. QED
      BY <2>4, <2>5
  <1>9. ASSUME NEW q \in Procs \ {p}, NEW u \in Threads, NEW i \in 1..Len(blocks'[q][u])
        PROVE  /\ TokenAt(q, u, i)' < mem'[q].next
               /\ mem'[q].scopes[TokenAt(q, u, i)'] # NoScope
               /\ \A v \in Threads : \A j \in 1..Len(blocks'[q][v]) :
                    TokenAt(q, u, i)' = TokenAt(q, v, j)' => u = v /\ i = j
    BY <1>1, <1>2 DEF TokenAt, IInv, BlocksInv
  <1>10. QED
    BY <1>1, <1>4, <1>8, <1>9 DEF BlocksInv, TokenAt

\* A handler that closes the scope of the innermost block.
LEMMA PoppedInv ==
    ASSUME IInv, NEW p \in Procs, NEW t \in Threads, NEW s \in Selections,
           NEW ok \in BOOLEAN, NEW m, NEW leaks, blocks[p][t] # <<>>,
           Safe(p, m, {}, leaks), m.owner = Current(p) \/ m.owner = mem[p].owner,
           KeepsBut(mem[p], m, Innermost(p, t).token),
           Effect("pop", p, t, s, ok, m, {}, leaks),
           blocks' = [blocks EXCEPT ![p][t] = SubSeq(@, 1, Len(@) - 1)],
           UNCHANGED <<Rest, inflight>>
    PROVE  IInv'
  <1>1. m \in Memory /\ "pop" \in Ops
    BY DEF Safe, Ops
  <1>2. blocks' \in [Procs -> [Threads -> Seq(Block)]]
    BY <1>1, BlocksPopped, PoppedFacts DEF IInv, TypeOK
  <1>3. Frame(p, m)
    BY <1>2 DEF Frame, IInv, TypeOK
  <1>4. ButBlocks' /\ mem' = [mem EXCEPT ![p] = m]
    BY <1>1, <1>3, EffectInv
  <1>5. BlocksInv'
    BY <1>1, <1>4, BlocksPopped
  <1>6. QED
    BY <1>4, <1>5 DEF IInv, ButBlocks

\* The scope of the innermost block is there, and what it saved is nowhere else.
LEMMA InnermostFacts ==
    ASSUME IInv, NEW p \in Procs, NEW t \in Threads, blocks[p][t] # <<>>
    PROVE  LET x == Innermost(p, t).token
               e == mem[p].scopes[x]
           IN  /\ x \in Tokens /\ e \in Scope
               /\ Saved(mem[p], x) = e.previous
               /\ e.previous # NoBackend =>
                     /\ e.previous \in Held(mem[p]) /\ e.previous \in Backend
                     /\ e.previous.sel = e.selection /\ e.previous.n < mem[p].built
                     /\ \A k \in Tokens \ {x} : Saved(mem[p], k) # e.previous
  <1> DEFINE n == Len(blocks[p][t])
             x == Innermost(p, t).token
             e == mem[p].scopes[x]
  <1>1. n \in 1..Len(blocks[p][t]) /\ x = TokenAt(p, t, n)
    BY PoppedFacts DEF Innermost, TokenAt
  <1>2. x \in Tokens /\ e # NoScope
    BY <1>1, BlockFacts DEF IInv, BlocksInv
  <1>3. /\ mem[p] \in Memory /\ MemInv(p, mem[p], Current(p), lineage[p])
    BY ProcessFacts
  <1>4. e \in Scope
    BY <1>2, <1>3 DEF Memory
  <1> HIDE DEF x
  <1>5. Saved(mem[p], x) = e.previous
    BY <1>2 DEF Saved
  <1>6. ASSUME e.previous # NoBackend
        PROVE  /\ e.previous \in Held(mem[p]) /\ e.previous \in Backend
               /\ e.previous.sel = e.selection /\ e.previous.n < mem[p].built
               /\ \A k \in Tokens \ {x} : Saved(mem[p], k) # e.previous
    <2>1. e.previous \in Held(mem[p])
      BY <1>2, <1>3, <1>5, <1>6, HeldBackends
    <2>2. e.previous \in Backend /\ e.previous.n < mem[p].built
      BY <1>3, <2>1, HeldBackends DEF MemInv
    <2>3. e.previous.sel = e.selection
      BY <1>2, <1>3, <1>5, <1>6 DEF MemInv
    <2>4. \A k \in Tokens \ {x} : Saved(mem[p], k) # e.previous
      BY <1>2, <1>3, <1>5, <1>6 DEF MemInv, HeldOnceIn
    <2>5. QED
      BY <2>1, <2>2, <2>3, <2>4
  <1>7. QED
    BY <1>2, <1>4, <1>5, <1>6 DEF x

\* pop_default_backend.
LEMMA PopDefaultBackendInv ==
    ASSUME IInv, NEW p \in Procs, NEW t \in Threads, PopDefaultBackend(p, t)
    PROVE  IInv'
  <1> DEFINE x == Innermost(p, t).token
             e == mem[p].scopes[x]
             m == Closed(mem[p], x)
             c == Claim(p, m)
             prev == e.previous
             sel == e.selection
             core == mem[p].core
  <1>1. /\ blocks[p][t] # <<>>
        /\ blocks' = [blocks EXCEPT ![p][t] = SubSeq(@, 1, Len(@) - 1)]
        /\ UNCHANGED <<Rest, inflight>>
    BY DEF PopDefaultBackend
  <1>2. \/ Inherited(p) /\ Effect("pop", p, t, sel, TRUE, TakeOver(p, m, sel), {}, Forgotten(p))
        \/ Inherited(p) /\ Effect("pop", p, t, sel, FALSE, m, {}, {prev})
        \/ /\ ~Inherited(p) /\ prev # NoBackend
           /\ Effect("pop", p, t, sel, TRUE, Restored(c, e), {}, {})
        \/ /\ ~Inherited(p)
           /\ Effect("pop", p, t, sel, TRUE, Installed(p, c, sel), {}, {prev, core})
        \/ ~Inherited(p) /\ Effect("pop", p, t, sel, FALSE, c, {}, {prev})
    BY Zenon DEF PopDefaultBackend
  <1>3. /\ mem[p] \in Memory /\ MemInv(p, mem[p], Current(p), lineage[p])
        /\ Current(p) \in Identity /\ Held(mem[p]) \subseteq Backend
        /\ Held(mem[p]) \subseteq Forgotten(p) /\ Forgotten(p) \subseteq Backend
        /\ core \in Backend \cup {NoBackend} /\ Current(p) # NoIdentity
    BY ProcessFacts, ResolveHeld DEF Forgotten
  <1>4. /\ x \in Tokens /\ e \in Scope /\ Saved(mem[p], x) = prev
        /\ prev # NoBackend =>
              /\ prev \in Held(mem[p]) /\ prev \in Backend
              /\ prev.sel = sel /\ prev.n < mem[p].built
              /\ \A k \in Tokens \ {x} : Saved(mem[p], k) # prev
    BY <1>1, InnermostFacts
  <1>5. sel \in Selections /\ {prev} \subseteq Backend \cup {NoBackend}
        /\ {prev, core} \subseteq Backend \cup {NoBackend}
    BY <1>3, <1>4 DEF Scope
  <1> HIDE DEF x, core
  <1>6. /\ m \in Memory /\ m.scopes = [mem[p].scopes EXCEPT ![x] = NoScope]
        /\ m.owner = mem[p].owner /\ m.next = mem[p].next /\ m.built = mem[p].built
    BY <1>3, <1>4, ClosedFacts
  <1>7. /\ MemInv(p, m, Current(p), lineage[p])
        /\ Held(m) \subseteq Held(mem[p])
        /\ Held(mem[p]) \subseteq Held(m) \cup {prev}
        /\ \A j \in Tokens : Saved(m, j) = IF j = x THEN NoBackend ELSE Saved(mem[p], j)
    BY <1>3, <1>4, ClosedInv
  <1> HIDE DEF m, prev, sel
  <1>8. KeepsBut(mem[p], m, x) /\ mem[p].next \in Nat
    BY <1>3, <1>6 DEF KeepsBut, Memory
  <1>9. CASE Inherited(p) /\ Effect("pop", p, t, sel, TRUE, TakeOver(p, m, sel), {}, Forgotten(p))
    <2> DEFINE n == TakeOver(p, m, sel)
    <2>1. Own(p, n, Current(p), lineage[p])
      BY <1>3, <1>5, <1>6, TakeOverOwn
    <2>2. n.scopes = Emptied(m) /\ n.next = m.next
      BY <1>3, <1>5, <1>6, TakeOverFacts
    <2>3. Effect("pop", p, t, sel, TRUE, n, {}, Forgotten(p))
      BY <1>9
    <2> HIDE DEF n
    <2>4. KeepsBut(mem[p], n, x)
      <3>1. \A k \in Tokens : n.scopes[k] = NoScope <=> m.scopes[k] = NoScope
        BY <1>6, <2>2, EmptiedFacts
      <3>2. QED
        BY <1>8, <2>2, <3>1 DEF KeepsBut
    <2>5. Safe(p, n, {}, Forgotten(p)) /\ n.owner = Current(p)
      BY <1>3, <2>1, OwnIsSafe
    <2>6. QED
      BY <1>1, <1>5, <2>3, <2>4, <2>5, PoppedInv DEF x
  <1>10. CASE Inherited(p) /\ Effect("pop", p, t, sel, FALSE, m, {}, {prev})
    <2>1. Safe(p, m, {}, {prev})
      BY <1>5, <1>6, <1>7 DEF Safe
    <2>2. QED
      BY <1>1, <1>5, <1>6, <1>8, <1>10, <2>1, PoppedInv DEF x
  <1>11. ASSUME ~Inherited(p)
         PROVE  /\ Own(p, c, Current(p), lineage[p])
                /\ c.scopes = m.scopes /\ c.next = m.next /\ c.built = m.built
                /\ KeepsBut(mem[p], c, x)
                /\ Owns(p) \/ Held(mem[p]) = {}
    <2>1. mem[p].owner \in {Current(p), NoIdentity} /\ (Owns(p) \/ Held(mem[p]) = {})
      BY <1>11, NotInherited
    <2>2. Own(p, c, Current(p), lineage[p])
      BY <1>3, <1>6, <1>7, <2>1, ClaimOwn
    <2>3. c.scopes = m.scopes /\ c.next = m.next /\ c.built = m.built
      BY <1>3, <1>6, ClaimFacts
    <2> HIDE DEF c
    <2>4. KeepsBut(mem[p], c, x)
      BY <1>8, <2>3 DEF KeepsBut
    <2>5. QED
      BY <2>1, <2>2, <2>3, <2>4
  <1> HIDE DEF c
  <1>12. CASE /\ ~Inherited(p) /\ prev # NoBackend
              /\ Effect("pop", p, t, sel, TRUE, Restored(c, e), {}, {})
    <2> DEFINE n == Restored(c, e)
    <2>1. Owns(p)
      BY <1>4, <1>11, <1>12
    <2>2. IdentityAssumption => prev.by = p
      BY <1>3, <1>4, <1>12, <2>1 DEF MemInv, Owns
    <2>3. c \in Memory /\ \A k \in Tokens : Saved(c, k) # prev
      BY <1>4, <1>7, <1>11, <1>12 DEF Saved, Own
    <2>4. Own(p, n, Current(p), lineage[p])
      BY <1>4, <1>6, <1>11, <1>12, <2>2, <2>3, RestoredOwn DEF prev, sel
    <2>5. n.scopes = c.scopes /\ n.next = c.next
      BY <1>4, <2>3, RestoredFacts
    <2> HIDE DEF n
    <2>6. KeepsBut(mem[p], n, x)
      BY <1>11, <1>12, <2>5 DEF KeepsBut
    <2>7. Safe(p, n, {}, {}) /\ n.owner = Current(p)
      BY <2>1, <2>4, OwnIsSafe
    <2>8. QED
      BY <1>1, <1>5, <1>12, <2>6, <2>7, PoppedInv DEF n, x
  <1>13. CASE /\ ~Inherited(p)
              /\ Effect("pop", p, t, sel, TRUE, Installed(p, c, sel), {}, {prev, core})
    <2> DEFINE n == Installed(p, c, sel)
               leaks == {prev, core}
    <2>1. c \in Memory
      BY <1>11, <1>13 DEF Own
    <2>2. Own(p, n, Current(p), lineage[p])
      BY <1>5, <1>11, <1>13, InstalledOwn
    <2>3. n.scopes = c.scopes /\ n.next = c.next
      BY <1>5, <2>1, InstalledFacts
    <2>4. leaks \subseteq Backend \cup {NoBackend}
      BY <1>5
    <2> HIDE DEF n, leaks
    <2>5. KeepsBut(mem[p], n, x)
      BY <1>11, <1>13, <2>3 DEF KeepsBut
    <2>6. Safe(p, n, {}, leaks) /\ n.owner = Current(p)
      BY <1>11, <1>13, <2>2, <2>4, OwnIsSafe
    <2>7. QED
      BY <1>1, <1>5, <1>13, <2>5, <2>6, PoppedInv DEF n, x, leaks
  <1>14. CASE ~Inherited(p) /\ Effect("pop", p, t, sel, FALSE, c, {}, {prev})
    <2>1. Safe(p, c, {}, {prev}) /\ c.owner = Current(p)
      BY <1>5, <1>11, <1>14, OwnIsSafe
    <2>2. QED
      BY <1>1, <1>5, <1>11, <1>14, <2>1, PoppedInv DEF x
  <1>15. QED
    BY <1>2, <1>9, <1>10, <1>12, <1>13, <1>14 DEF sel, prev, core, c, m, x

--------------------------------------------------------------------------------
(* Processes and their surroundings.                                       *)

\* A step that happens outside any handler uses and drops nothing.
LEMMA HappensInv ==
    ASSUME IInv, NEW p \in Procs, NEW op \in Ops, Happens(op, p)
    PROVE  /\ LastInv'
           /\ last' \in [op : Ops, proc : Procs, thread : Threads, sel : Selections,
                         ok : BOOLEAN, uses : SUBSET (Backend \cup {NoBackend}),
                         leaks : SUBSET Backend, drops : SUBSET Backend]
  <1>1. last'.uses = {} /\ last'.drops = {}
    BY DEF Happens
  <1>2. LastInv'
    BY <1>1 DEF LastInv, ForeignNeverTouched
  <1>3. last.thread \in Threads /\ Ladder \in Selections
    BY DEF IInv, TypeOK, Selections
  <1>4. QED
    BY <1>2, <1>3 DEF Happens

\* The child's memory is its parent's, and the child owns none of it.
LEMMA ForkMemsInv ==
    ASSUME IInv, NEW p \in Procs, NEW c \in Procs, ForkProcess(p, c),
           mem' = [mem EXCEPT ![c] = mem[p]]
    PROVE  ProcessInv' /\ MemsInv' /\ p # c /\ mem' \in [Procs -> Memory]
           /\ \A q \in Procs \ {c} : Current(q)' = Current(q)
  <1>1. /\ ProcessInv' /\ p # c
        /\ lineage' = [lineage EXCEPT ![c] = lineage[p] \cup {Current(p)}]
        /\ \A q \in Procs \ {c} : Current(q)' = Current(q)
    BY ForkProcessInv, ProcessAssumption DEF IInv
  <1>2. /\ lineage \in [Procs -> SUBSET Identity] /\ mem \in [Procs -> Memory]
        /\ Current(p) \in Identity
    BY ProcessFacts DEF IInv, TypeOK, ProcessTypeOK
  <1>3. mem' \in [Procs -> Memory]
    BY <1>2
  <1>4. /\ lineage'[c] = lineage[p] \cup {Current(p)} /\ mem'[c] = mem[p]
        /\ \A q \in Procs \ {c} : lineage'[q] = lineage[q] /\ mem'[q] = mem[q]
    BY <1>1, <1>2
  <1>5. IdentityAssumption => Current(c)' \notin lineage'[c]
    <2>1. /\ Current(c)'.pid = pid'[c] /\ Current(c)'.generation = generation'[c]
          /\ generation'[c] \in Nat
      BY <1>1, ProcessAssumption DEF ProcessInv, ProcessTypeOK, Current
    <2>2. \A i \in lineage'[c] :
             /\ HandlerRuns = {TRUE} => i.generation < generation'[c]
             /\ ~PidReuse => i.pid # pid'[c]
      BY <1>1 DEF ProcessInv, LineageInv
    <2>3. ASSUME NEW i \in lineage'[c], i = Current(c)' PROVE ~IdentityAssumption
      <3>1. i.pid = pid'[c] /\ i.generation = generation'[c]
        BY <2>1, <2>3
      <3>2. CASE HandlerRuns = {TRUE}
        <4>1. i.generation < generation'[c]
          BY <2>2, <3>2
        <4>2. FALSE
          BY <2>1, <3>1, <4>1
        <4>3. QED
          BY <4>2
      <3>3. CASE ~PidReuse
        <4>1. i.pid # pid'[c]
          BY <2>2, <3>3
        <4>2. QED
          BY <3>1, <4>1
      <3>4. QED
        BY <3>2, <3>3 DEF IdentityAssumption
    <2>4. QED
      BY <2>3
  <1>6. Current(c)' # NoIdentity
    BY <1>1, ProcessAssumption, BackendAssumption
    DEF ProcessInv, ProcessTypeOK, Current, Identity
  <1>7. MemInv(p, mem[p], Current(p), lineage[p])
    BY ProcessFacts
  <1>8. MemInv(c, mem[p], Current(c)', lineage'[c])
    BY <1>4, <1>5, <1>6, <1>7 DEF MemInv
  <1>9. \A q \in Procs \ {c} : MemInv(q, mem'[q], Current(q)', lineage'[q])
    BY <1>1, <1>4 DEF IInv, MemsInv
  <1>10. \A q \in Procs : MemInv(q, mem'[q], Current(q)', lineage'[q])
    BY <1>4, <1>8, <1>9
  <1>11. MemsInv'
    BY <1>10 DEF MemsInv, MemInv, Held, Saved, Recorded, HeldOnceIn
  <1>12. QED
    BY <1>1, <1>3, <1>11

LEMMA ForkBlocksInv ==
    ASSUME IInv, NEW p \in Procs, NEW t \in Threads, NEW c \in Procs, p # c,
           mem' = [mem EXCEPT ![c] = mem[p]],
           blocks' = [blocks EXCEPT ![c] =
                         [u \in Threads |-> IF u = t THEN blocks[p][t] ELSE <<>>]]
    PROVE  BlocksInv' /\ blocks' \in [Procs -> [Threads -> Seq(Block)]]
  <1>1. /\ mem \in [Procs -> Memory] /\ blocks \in [Procs -> [Threads -> Seq(Block)]]
    BY DEF IInv, TypeOK
  <1>2. blocks' \in [Procs -> [Threads -> Seq(Block)]]
    BY <1>1
  <1>3. /\ mem'[c] = mem[p] /\ \A q \in Procs \ {c} : mem'[q] = mem[q] /\ blocks'[q] = blocks[q]
        /\ blocks'[c][t] = blocks[p][t]
        /\ \A u \in Threads \ {t} : blocks'[c][u] = <<>>
    BY <1>1
  <1>4. ASSUME NEW u \in Threads, NEW i \in 1..Len(blocks'[c][u])
        PROVE  u = t /\ TokenAt(c, u, i)' = TokenAt(p, t, i) /\ i \in 1..Len(blocks[p][t])
    BY <1>3 DEF TokenAt
  <1>5. ASSUME NEW u \in Threads, NEW i \in 1..Len(blocks'[c][u])
        PROVE  /\ TokenAt(c, u, i)' < mem'[c].next
               /\ mem'[c].scopes[TokenAt(c, u, i)'] # NoScope
               /\ \A v \in Threads : \A j \in 1..Len(blocks'[c][v]) :
                    TokenAt(c, u, i)' = TokenAt(c, v, j)' => u = v /\ i = j
    <2>1. u = t /\ TokenAt(c, u, i)' = TokenAt(p, t, i) /\ i \in 1..Len(blocks[p][t])
      BY <1>4
    <2>2. QED
      BY <1>3, <1>4, <2>1 DEF IInv, BlocksInv
  <1>6. ASSUME NEW q \in Procs \ {c}, NEW u \in Threads, NEW i \in 1..Len(blocks'[q][u])
        PROVE  /\ TokenAt(q, u, i)' < mem'[q].next
               /\ mem'[q].scopes[TokenAt(q, u, i)'] # NoScope
               /\ \A v \in Threads : \A j \in 1..Len(blocks'[q][v]) :
                    TokenAt(q, u, i)' = TokenAt(q, v, j)' => u = v /\ i = j
    BY <1>3 DEF TokenAt, IInv, BlocksInv
  <1>7. QED
    BY <1>2, <1>5, <1>6 DEF BlocksInv, TokenAt

LEMMA ForkInv ==
    ASSUME IInv, NEW p \in Procs, NEW t \in Threads, NEW c \in Procs, Fork(p, t, c)
    PROVE  IInv'
  <1>1. /\ ProcessInv' /\ MemsInv' /\ p # c /\ mem' \in [Procs -> Memory]
        /\ \A q \in Procs \ {c} : Current(q)' = Current(q)
    BY ForkMemsInv DEF Fork
  <1>2. BlocksInv' /\ blocks' \in [Procs -> [Threads -> Seq(Block)]]
    BY <1>1, ForkBlocksInv DEF Fork
  <1>3. "fork" \in Ops
    BY DEF Ops
  <1>4. /\ LastInv'
        /\ last' \in [op : Ops, proc : Procs, thread : Threads, sel : Selections,
                      ok : BOOLEAN, uses : SUBSET (Backend \cup {NoBackend}),
                      leaks : SUBSET Backend, drops : SUBSET Backend]
    BY <1>3, HappensInv DEF Fork
  <1>5. /\ threads' \in [Procs -> SUBSET Threads] /\ inflight' \in [Procs -> SUBSET Threads]
        /\ resolvable' \in [Procs -> SUBSET Selections]
    BY DEF Fork, IInv, TypeOK
  <1>6. CallInv'
    <2> SUFFICES ASSUME NEW q \in Procs, inflight'[q] # {}
                 PROVE  /\ mem'[q].owner # NoIdentity
                        /\ TrapForks \/ mem'[q].owner = Current(q)'
      BY DEF CallInv, Untouched, Owns
    <2>1. CASE q = c
      <3>1. inflight'[c] = inflight[p] \cap {t} /\ mem'[c] = mem[p]
        BY DEF Fork, IInv, TypeOK
      <3>2. t \in inflight[p] /\ TrapForks
        BY <2>1, <3>1 DEF Fork
      <3>3. QED
        BY <2>1, <3>1, <3>2 DEF IInv, CallInv, Untouched
    <2>2. CASE q # c
      <3>1. inflight'[q] = inflight[q] /\ mem'[q] = mem[q] /\ Current(q)' = Current(q)
        BY <1>1, <2>2 DEF Fork, IInv, TypeOK
      <3>2. QED
        BY <3>1 DEF IInv, CallInv, Untouched, Owns
    <2>3. QED
      BY <2>1, <2>2
  <1>7. QED
    BY <1>1, <1>2, <1>4, <1>5, <1>6 DEF IInv, TypeOK, ProcessInv, Ops

\* Exits and changes of the environment leave memory alone.
LEMMA QuietInv ==
    ASSUME IInv, NEW p \in Procs, NEW op \in Ops, Happens(op, p),
           ProcessInv', lineage' = lineage, \A q \in Procs : Current(q)' = Current(q),
           UNCHANGED <<mem, threads, inflight, blocks>>,
           resolvable' \in [Procs -> SUBSET Selections]
    PROVE  IInv'
  <1>1. /\ LastInv'
        /\ last' \in [op : Ops, proc : Procs, thread : Threads, sel : Selections,
                      ok : BOOLEAN, uses : SUBSET (Backend \cup {NoBackend}),
                      leaks : SUBSET Backend, drops : SUBSET Backend]
    BY HappensInv
  <1>2. TypeOK'
    BY <1>1 DEF IInv, TypeOK, ProcessInv, Ops
  <1>3. MemsInv'
    BY DEF IInv, MemsInv, MemInv, Held, Saved, Recorded, HeldOnceIn
  <1>4. BlocksInv' /\ CallInv'
    BY DEF IInv, BlocksInv, TokenAt, CallInv, Untouched, Owns
  <1>5. QED
    BY <1>1, <1>2, <1>3, <1>4 DEF IInv

LEMMA ExitInv ==
    ASSUME IInv, NEW p \in Procs, Exit(p)
    PROVE  IInv'
  <1>1. /\ ProcessInv' /\ lineage' = lineage
        /\ \A q \in Procs : Current(q)' = Current(q)
    BY ExitProcessInv, ProcessAssumption DEF IInv, Exit
  <1>2. /\ Happens("exit", p) /\ "exit" \in Ops
        /\ UNCHANGED <<mem, threads, inflight, blocks>>
        /\ resolvable' \in [Procs -> SUBSET Selections]
    BY DEF Exit, Ops, IInv, TypeOK
  <1>3. QED
    BY <1>1, <1>2, QuietInv

LEMMA ChangeEnvironmentInv ==
    ASSUME IInv, NEW p \in Procs, ChangeEnvironment(p)
    PROVE  IInv'
  <1>1. /\ ProcessInv' /\ lineage' = lineage
        /\ \A q \in Procs : Current(q)' = Current(q)
    BY ProcessStutterInv, ProcessAssumption DEF IInv, ChangeEnvironment
  <1>2. resolvable' \in [Procs -> SUBSET Selections]
    BY BackendAssumption DEF ChangeEnvironment, IInv, TypeOK
  <1>3. /\ Happens("env", p) /\ "env" \in Ops
        /\ UNCHANGED <<mem, threads, inflight, blocks>>
    BY DEF ChangeEnvironment, Ops
  <1>4. QED
    BY <1>1, <1>2, <1>3, QuietInv

--------------------------------------------------------------------------------
(* The invariant is inductive, and what follows from it.                   *)

LEMMA InitInv ==
    ASSUME Init
    PROVE  IInv
  <1>1. ProcessInv
    BY ProcessInitInv, ProcessAssumption DEF Init
  <1>2. InitialMemory \in Memory
    BY DEF InitialMemory, Memory, Selections
  <1>3. /\ InitialMemory.core = NoBackend /\ InitialMemory.owner = NoIdentity
        /\ InitialMemory.selection = Ladder /\ InitialMemory.built = 0
        /\ \A k \in Tokens : InitialMemory.scopes[k] = NoScope
    BY DEF InitialMemory
  <1> HIDE DEF InitialMemory
  <1>4. \A k \in Tokens : Saved(InitialMemory, k) = NoBackend
    BY <1>3 DEF Saved
  <1>5. Held(InitialMemory) = {}
    BY <1>3, <1>4 DEF Held
  <1>6. \A p \in Procs : \A id, line : MemInv(p, InitialMemory, id, line)
    BY <1>3, <1>4, <1>5 DEF MemInv, Recorded, HeldOnceIn
  <1>7. /\ mem = [p \in Procs |-> InitialMemory]
        /\ inflight = [p \in Procs |-> {}]
        /\ blocks = [p \in Procs |-> [t \in Threads |-> <<>>]]
    BY DEF Init
  <1>8. TypeOK
    <2>1. mem \in [Procs -> Memory] /\ inflight \in [Procs -> SUBSET Threads]
      BY <1>2, <1>7
    <2>2. blocks \in [Procs -> [Threads -> Seq(Block)]]
      BY <1>7
    <2>3. threads \in [Procs -> SUBSET Threads] /\ resolvable \in [Procs -> SUBSET Selections]
      BY DEF Init
    <2>4. last \in [op : Ops, proc : Procs, thread : Threads, sel : Selections,
                    ok : BOOLEAN, uses : SUBSET (Backend \cup {NoBackend}),
                    leaks : SUBSET Backend, drops : SUBSET Backend]
      BY ProcessAssumption DEF Init, Selections, Ops
    <2>5. QED
      BY <1>1, <2>1, <2>2, <2>3, <2>4 DEF TypeOK, ProcessInv, Ops
  <1>9. MemsInv
    BY <1>6, <1>7 DEF MemsInv
  <1>10. BlocksInv /\ CallInv
    BY <1>7 DEF BlocksInv, CallInv
  <1>11. LastInv
    BY DEF Init, LastInv, ForeignNeverTouched
  <1>12. QED
    BY <1>1, <1>8, <1>9, <1>10, <1>11 DEF IInv

LEMMA NextInv ==
    ASSUME IInv, [Next]_vars
    PROVE  IInv'
  <1>1. CASE UNCHANGED vars
    <2>1. /\ ProcessInv' /\ lineage' = lineage
          /\ \A q \in Procs : Current(q)' = Current(q)
      BY <1>1, ProcessStutterInv, ProcessAssumption DEF IInv, vars
    <2>2. UNCHANGED <<mem, threads, inflight, blocks, resolvable, last>>
      BY <1>1 DEF vars, backendVars
    <2>3. /\ TypeOK'
          /\ BlocksInv' /\ CallInv' /\ LastInv'
      <3>1. TypeOK'
        BY <2>1, <2>2 DEF IInv, TypeOK, ProcessInv
      <3>2. BlocksInv'
        BY <2>2 DEF IInv, BlocksInv, TokenAt
      <3>3. CallInv'
        BY <2>1, <2>2 DEF IInv, CallInv, Untouched, Owns
      <3>4. LastInv'
        BY <2>2 DEF IInv, LastInv, ForeignNeverTouched
      <3>5. QED
        BY <3>1, <3>2, <3>3, <3>4
    <2>4. MemsInv'
      BY <2>1, <2>2 DEF IInv, MemsInv, MemInv, Held, Saved, Recorded, HeldOnceIn
    <2>5. QED
      BY <2>1, <2>3, <2>4 DEF IInv
  <1>2. ASSUME NEW p \in Procs, NEW t \in Threads, Operation(p, t)
        PROVE  IInv'
    BY <1>2, EnterCallInv, RunCallInv, ReadDefaultInv, SetDefaultBackendInv,
       PushDefaultBackendInv, PopDefaultBackendInv, ForkInv DEF Operation
  <1>3. QED
    BY <1>1, <1>2, ExitInv, ChangeEnvironmentInv DEF Next

\* The invariant holds in every state the system reaches.
THEOREM Invariant == Spec => []IInv
  <1>1. Init => IInv
    BY InitInv
  <1>2. IInv /\ [Next]_vars => IInv'
    BY NextInv
  <1>3. QED
    BY <1>1, <1>2, PTL DEF Spec

\* Type correctness.
THEOREM TypeCorrect == Spec => []TypeOK
  <1>1. IInv => TypeOK
    BY DEF IInv
  <1>2. QED
    BY <1>1, Invariant, PTL

\* An identity tells a process from all its ancestors, if every child runs the
\* atfork handler or no pid is reused.
THEOREM IdentitySound ==
    ASSUME IdentityAssumption PROVE Spec => []IdentityTellsApart
  <1>1. IInv => IdentityTellsApart
    BY LineageTellsApart, ProcessAssumption DEF IInv
  <1>2. QED
    BY <1>1, Invariant, PTL

\* No process ever uses or drops a backend that another process built, when no
\* signal handler forks inside a native call.
THEOREM ForeignSafe ==
    ASSUME IdentityAssumption, ~TrapForks PROVE Spec => []ForeignNeverTouched
  <1>1. IInv => ForeignNeverTouched
    BY DEF IInv, LastInv
  <1>2. QED
    BY <1>1, Invariant, PTL

\* The recorded selection is always the one the default was built from, even
\* where identities are not sound and handlers fork.
THEOREM RecordSound == Spec => []RecordMatchesDefault
  <1>1. IInv => RecordMatchesDefault
    BY DEF IInv, MemsInv, MemInv, RecordMatchesDefault
  <1>2. QED
    BY <1>1, Invariant, PTL

\* Nor is a backend ever held in two places.
THEOREM HeldOnceSound == Spec => []HeldOnce
  <1>1. IInv => HeldOnce
    BY DEF IInv, MemsInv, MemInv, HeldOnce
  <1>2. QED
    BY <1>1, Invariant, PTL

--------------------------------------------------------------------------------
(* What a block gives back.                                                *)

\* What memory m of process p keeps for a block e: the scope it will close has the
\* selection it replaced and, if this process was using a backend of its own then,
\* that very backend.
Meant(p, m, e) ==
    /\ m.scopes[e.token].selection = e.selection
    /\ e.core # NoBackend => Born(e.core.by)
    /\ e.core # NoBackend /\ e.core.by = p =>
          /\ m.owner = Current(p)
          /\ m.scopes[e.token].owner = Current(p)
          /\ m.scopes[e.token].previous = e.core

\* Backends come from processes that have been born: a new child is the builder of
\* none that it inherits.
HeldBorn == \A p \in Procs : \A b \in Held(mem[p]) : Born(b.by)
BlocksMeant ==
    \A p \in Procs, t \in Threads : \A i \in 1..Len(blocks[p][t]) :
        Meant(p, mem[p], blocks[p][t][i])

RestoreInv == HeldBorn /\ BlocksMeant

\* Memory n of p, come from m: what is new in it was built by p, and scope k is for a
\* process that owns its backend what it was, and for any other tells the same selection.
Builds(p, m, n) == \A b \in Held(n) : b \in Held(m) \/ b.by = p
SameScope(p, m, n, k) ==
    /\ n.scopes[k].selection = m.scopes[k].selection
    /\ m.owner = Current(p) => n.owner = Current(p) /\ n.scopes[k] = m.scopes[k]

--------------------------------------------------------------------------------
(* What the operations on memory do to scopes and builders.                *)

LEMMA ClaimBuilds ==
    ASSUME NEW p \in Procs, NEW m \in Memory, Current(p) \in Identity
    PROVE  Builds(p, m, Claim(p, m))
  <1>1. Claim(p, m).core = m.core /\ Claim(p, m).scopes = m.scopes
    BY ClaimFacts
  <1>2. Held(Claim(p, m)) = Held(m)
    BY <1>1 DEF Held, Saved
  <1>3. QED
    BY <1>2 DEF Builds

LEMMA FreshBuilds ==
    ASSUME NEW p \in Procs, NEW m \in Memory, NEW n \in Memory, NEW r \in Memory,
           NEW s \in Selections, n.core = Fresh(p, r, s), n.scopes = m.scopes
    PROVE  Builds(p, m, n)
  <1>1. Held(n) \subseteq Held(m) \cup {Fresh(p, r, s)}
    BY DEF Held, Saved
  <1>2. QED
    BY <1>1, FreshFacts DEF Builds

LEMMA ResolveBuilds ==
    ASSUME NEW p \in Procs, NEW m \in Memory
    PROVE  Builds(p, m, Resolve(p, m))
  <1>1. Ladder \in Selections
    BY DEF Selections
  <1>2. CASE m.core = NoBackend
    <2>1. Resolve(p, m) = Build(p, m, Ladder)
      BY <1>2, ResolveFacts
    <2>2. QED
      BY <1>1, <2>1, BuildFacts, FreshBuilds
  <1>3. CASE m.core # NoBackend
    BY <1>3, ResolveFacts DEF Builds
  <1>4. QED
    BY <1>2, <1>3

LEMMA InstalledBuilds ==
    ASSUME NEW p \in Procs, NEW m \in Memory, NEW s \in Selections
    PROVE  Builds(p, m, Installed(p, m, s))
  BY InstalledFacts, FreshBuilds

LEMMA BuildsOn ==
    ASSUME NEW p, NEW l, NEW m, NEW n, Builds(p, l, m), Builds(p, m, n)
    PROVE  Builds(p, l, n)
  BY DEF Builds

\* A takeover leaves only what it builds, and every scope its selection.
LEMMA TakeOverBuilds ==
    ASSUME NEW p \in Procs, NEW m \in Memory, NEW s \in Selections, Current(p) \in Identity
    PROVE  /\ \A b \in Held(TakeOver(p, m, s)) : b.by = p
           /\ \A k \in Tokens : m.scopes[k] # NoScope =>
                 TakeOver(p, m, s).scopes[k].selection = m.scopes[k].selection
  <1> DEFINE n == TakeOver(p, m, s)
             r == Resolve(p, m)
  <1>1. /\ n.core = Fresh(p, r, s) /\ r \in Memory /\ n.scopes = Emptied(m)
    BY TakeOverFacts
  <1> HIDE DEF n, r
  <1>2. \A k \in Tokens : Saved(n, k) = NoBackend
    BY <1>1, EmptiedFacts DEF Saved
  <1>3. \A b \in Held(n) : b.by = p
    BY <1>1, <1>2, FreshFacts DEF Held
  <1>4. ASSUME NEW k \in Tokens, m.scopes[k] # NoScope
        PROVE  n.scopes[k].selection = m.scopes[k].selection
    <2>1. n.scopes[k] = [m.scopes[k] EXCEPT !.previous = NoBackend]
      BY <1>1, <1>4 DEF Emptied
    <2>2. m.scopes[k] \in Scope
      BY <1>4 DEF Memory
    <2>3. QED
      BY <2>1, <2>2, Zenon DEF Scope
  <1>5. QED
    BY <1>3, <1>4 DEF n

--------------------------------------------------------------------------------
(* One step of one process.                                                *)

\* A step of a living process keeps the invariant when what it adds to memory it has
\* built, and each block is one it keeps the scope of, or one it has just opened.
LEMMA RestoreStep ==
    ASSUME IInv, RestoreInv, NEW p \in Procs, Alive(p), NEW m \in Memory,
           mem' = [mem EXCEPT ![p] = m], UNCHANGED processVars,
           Builds(p, mem[p], m),
           \A q \in Procs \ {p} : blocks'[q] = blocks[q],
           \A t \in Threads : \A i \in 1..Len(blocks'[p][t]) :
              \/ Meant(p, m, blocks'[p][t][i])
              \/ /\ i \in 1..Len(blocks[p][t]) /\ blocks'[p][t][i] = blocks[p][t][i]
                 /\ SameScope(p, mem[p], m, TokenAt(p, t, i))
    PROVE  RestoreInv'
  <1>1. /\ \A q : Born(q)' = Born(q) /\ Current(q)' = Current(q)
        /\ mem'[p] = m /\ \A q \in Procs \ {p} : mem'[q] = mem[q]
    BY DEF IInv, TypeOK, Born, Current, processVars
  <1>2. Born(p)
    BY DEF Alive, Born
  <1>3. HeldBorn'
    <2> SUFFICES ASSUME NEW q \in Procs, NEW b \in Held(mem'[q]) PROVE Born(b.by)
      BY <1>1 DEF HeldBorn, Held, Saved
    <2>1. QED
      BY <1>1, <1>2 DEF RestoreInv, HeldBorn, Builds
  <1>4. ASSUME NEW t \in Threads, NEW i \in 1..Len(blocks'[p][t])
        PROVE  Meant(p, m, blocks'[p][t][i])
    <2>1. CASE /\ i \in 1..Len(blocks[p][t]) /\ blocks'[p][t][i] = blocks[p][t][i]
               /\ SameScope(p, mem[p], m, TokenAt(p, t, i))
      <3>1. Meant(p, mem[p], blocks[p][t][i])
        BY <2>1 DEF RestoreInv, BlocksMeant
      <3>2. QED
        BY <2>1, <3>1 DEF Meant, SameScope, TokenAt
    <2>2. QED
      BY <2>1
  <1>5. ASSUME NEW q \in Procs, NEW t \in Threads, NEW i \in 1..Len(blocks'[q][t])
        PROVE  Meant(q, mem'[q], blocks'[q][t][i])
    BY <1>1, <1>4 DEF RestoreInv, BlocksMeant
  <1>6. BlocksMeant'
    <2> SUFFICES ASSUME NEW q \in Procs, NEW t \in Threads, NEW i \in 1..Len(blocks'[q][t])
                 PROVE  Meant(q, mem[q], blocks[q][t][i])'
      BY DEF BlocksMeant
    <2>1. Meant(q, mem'[q], blocks'[q][t][i])
      BY <1>5
    <2>2. QED
      BY <2>1 DEF Meant, Born, Current, processVars
  <1>7. QED
    BY <1>3, <1>6 DEF RestoreInv

\* A step that neither opens nor closes a block.
LEMMA RestoreKept ==
    ASSUME IInv, RestoreInv, NEW p \in Procs, Alive(p), NEW m \in Memory,
           mem' = [mem EXCEPT ![p] = m], UNCHANGED <<processVars, blocks>>,
           Builds(p, mem[p], m),
           \A k \in Tokens : mem[p].scopes[k] # NoScope => SameScope(p, mem[p], m, k)
    PROVE  RestoreInv'
  <1>1. ASSUME NEW t \in Threads, NEW i \in 1..Len(blocks[p][t])
        PROVE  SameScope(p, mem[p], m, TokenAt(p, t, i))
    BY <1>1, BlockFacts DEF IInv, BlocksInv
  <1>2. QED
    BY <1>1, RestoreStep

\* ensure_this_process_backend, a takeover and a claim keep what blocks will need.
LEMMA TakeOverMeant ==
    ASSUME IInv, NEW p \in Procs, Inherited(p), NEW s \in Selections
    PROVE  /\ TakeOver(p, mem[p], s) \in Memory
           /\ Builds(p, mem[p], TakeOver(p, mem[p], s))
           /\ \A k \in Tokens : mem[p].scopes[k] # NoScope =>
                 SameScope(p, mem[p], TakeOver(p, mem[p], s), k)
  <1>1. mem[p] \in Memory /\ Current(p) \in Identity
    BY ProcessFacts
  <1>2. mem[p].owner # Current(p)
    BY DEF Inherited, Owns
  <1>3. QED
    BY <1>1, <1>2, TakeOverFacts, TakeOverBuilds DEF Builds, SameScope

LEMMA ClaimMeant ==
    ASSUME IInv, NEW p \in Procs
    PROVE  /\ Claim(p, mem[p]) \in Memory
           /\ Builds(p, mem[p], Claim(p, mem[p]))
           /\ Claim(p, mem[p]).scopes = mem[p].scopes
           /\ Claim(p, mem[p]).owner = Current(p)
  <1>1. mem[p] \in Memory /\ Current(p) \in Identity
    BY ProcessFacts
  <1>2. QED
    BY <1>1, ClaimFacts, ClaimBuilds

LEMMA EnsuredMeant ==
    ASSUME IInv, NEW p \in Procs
    PROVE  /\ Ensured(p) \in Memory /\ Builds(p, mem[p], Ensured(p))
           /\ Ensured(p).owner = Current(p)
           /\ \A k \in Tokens : mem[p].scopes[k] # NoScope =>
                 SameScope(p, mem[p], Ensured(p), k)
  <1>1. Ensured(p) \in Memory /\ Ensured(p).owner = Current(p)
    BY EnsuredOwn DEF Own
  <1>2. CASE Inherited(p)
    BY <1>1, <1>2, TakeOverMeant, ProcessFacts DEF Ensured
  <1>3. CASE ~Inherited(p)
    BY <1>1, <1>3, ClaimMeant DEF Ensured, SameScope
  <1>4. QED
    BY <1>1, <1>2, <1>3

LEMMA GaveUpMeant ==
    ASSUME IInv, NEW p \in Procs
    PROVE  /\ GaveUp(p) \in Memory /\ Builds(p, mem[p], GaveUp(p))
           /\ \A k \in Tokens : SameScope(p, mem[p], GaveUp(p), k)
  <1>1. mem[p] \in Memory
    BY ProcessFacts
  <1>2. CASE Inherited(p)
    BY <1>1, <1>2 DEF GaveUp, Builds, SameScope
  <1>3. CASE ~Inherited(p)
    BY <1>3, ClaimMeant DEF GaveUp, SameScope
  <1>4. QED
    BY <1>2, <1>3

LEMMA ResolveMeant ==
    ASSUME NEW p \in Procs, NEW l, NEW m \in Memory, Builds(p, l, m),
           \A k \in Tokens : l.scopes[k] # NoScope => SameScope(p, l, m, k)
    PROVE  /\ Resolve(p, m) \in Memory /\ Builds(p, l, Resolve(p, m))
           /\ \A k \in Tokens : l.scopes[k] # NoScope => SameScope(p, l, Resolve(p, m), k)
  <1>1. /\ Resolve(p, m) \in Memory /\ Resolve(p, m).scopes = m.scopes
        /\ Resolve(p, m).owner = m.owner
    BY ResolveFacts
  <1>2. Builds(p, l, Resolve(p, m))
    BY ResolveBuilds, BuildsOn
  <1>3. QED
    BY <1>1, <1>2 DEF SameScope

--------------------------------------------------------------------------------
(* The operations keep it.                                                 *)

LEMMA EnterCallRestore ==
    ASSUME IInv, RestoreInv, NEW p \in Procs, NEW t \in Threads, EnterCall(p, t)
    PROVE  RestoreInv'
  <1>1. Alive(p) /\ UNCHANGED <<processVars, blocks>>
    BY DEF EnterCall, Running, Rest
  <1>2. \/ mem' = [mem EXCEPT ![p] = Ensured(p)]
        \/ mem' = [mem EXCEPT ![p] = mem[p]]
    BY DEF EnterCall, Effect
  <1>3. mem[p] \in Memory
    BY ProcessFacts
  <1>4. CASE mem' = [mem EXCEPT ![p] = Ensured(p)]
    BY <1>1, <1>4, EnsuredMeant, RestoreKept
  <1>5. CASE mem' = [mem EXCEPT ![p] = mem[p]]
    BY <1>1, <1>3, <1>5, RestoreKept DEF Builds, SameScope
  <1>6. QED
    BY <1>2, <1>4, <1>5

LEMMA RunCallRestore ==
    ASSUME IInv, RestoreInv, NEW p \in Procs, NEW t \in Threads, RunCall(p, t)
    PROVE  RestoreInv'
  <1>1. Alive(p) /\ UNCHANGED <<processVars, blocks>>
    BY DEF RunCall, Rest
  <1>2. \/ mem' = [mem EXCEPT ![p] = Resolve(p, mem[p])]
        \/ mem' = [mem EXCEPT ![p] = mem[p]]
    BY DEF RunCall, Effect
  <1>3. mem[p] \in Memory /\ Builds(p, mem[p], mem[p])
        /\ \A k \in Tokens : SameScope(p, mem[p], mem[p], k)
    BY ProcessFacts DEF Builds, SameScope
  <1>4. CASE mem' = [mem EXCEPT ![p] = Resolve(p, mem[p])]
    BY <1>1, <1>3, <1>4, ResolveMeant, RestoreKept
  <1>5. CASE mem' = [mem EXCEPT ![p] = mem[p]]
    BY <1>1, <1>3, <1>5, RestoreKept
  <1>6. QED
    BY <1>2, <1>4, <1>5

LEMMA ReadDefaultRestore ==
    ASSUME IInv, RestoreInv, NEW p \in Procs, NEW t \in Threads, ReadDefault(p, t)
    PROVE  RestoreInv'
  <1>1. Alive(p) /\ UNCHANGED <<processVars, blocks>>
    BY DEF ReadDefault, Running, Rest
  <1>2. \/ mem' = [mem EXCEPT ![p] = Resolve(p, Ensured(p))]
        \/ mem' = [mem EXCEPT ![p] = mem[p]]
    BY DEF ReadDefault, Effect
  <1>3. mem[p] \in Memory
    BY ProcessFacts
  <1>4. CASE mem' = [mem EXCEPT ![p] = Resolve(p, Ensured(p))]
    <2> DEFINE n == Ensured(p)
    <2>1. /\ n \in Memory /\ Builds(p, mem[p], n)
          /\ \A k \in Tokens : mem[p].scopes[k] # NoScope => SameScope(p, mem[p], n, k)
      BY EnsuredMeant
    <2> HIDE DEF n
    <2>2. /\ Resolve(p, n) \in Memory /\ Builds(p, mem[p], Resolve(p, n))
          /\ \A k \in Tokens : mem[p].scopes[k] # NoScope =>
                SameScope(p, mem[p], Resolve(p, n), k)
      BY <2>1, ResolveMeant
    <2>3. mem' = [mem EXCEPT ![p] = Resolve(p, n)]
      BY <1>4 DEF n
    <2>4. QED
      BY <1>1, <2>2, <2>3, RestoreKept
  <1>5. CASE mem' = [mem EXCEPT ![p] = mem[p]]
    BY <1>1, <1>3, <1>5, RestoreKept DEF Builds, SameScope
  <1>6. QED
    BY <1>2, <1>4, <1>5

\* A new default over memory that keeps what the blocks need.
LEMMA InstalledMeant ==
    ASSUME NEW p \in Procs, NEW l, NEW m \in Memory, NEW s \in Selections,
           Builds(p, l, m),
           \A k \in Tokens : l.scopes[k] # NoScope => SameScope(p, l, m, k)
    PROVE  /\ Installed(p, m, s) \in Memory /\ Builds(p, l, Installed(p, m, s))
           /\ \A k \in Tokens : l.scopes[k] # NoScope => SameScope(p, l, Installed(p, m, s), k)
  <1>1. /\ Installed(p, m, s) \in Memory /\ Installed(p, m, s).scopes = m.scopes
        /\ Installed(p, m, s).owner = m.owner
    BY InstalledFacts
  <1>2. Builds(p, l, Installed(p, m, s))
    BY InstalledBuilds, BuildsOn
  <1>3. QED
    BY <1>1, <1>2 DEF SameScope

LEMMA SetDefaultBackendRestore ==
    ASSUME IInv, RestoreInv, NEW p \in Procs, NEW t \in Threads, NEW s \in Explicit,
           SetDefaultBackend(p, t, s)
    PROVE  RestoreInv'
  <1>1. /\ Alive(p) /\ UNCHANGED <<processVars, blocks>> /\ s \in Selections
    BY DEF SetDefaultBackend, Running, Rest, Selections
  <1>2. \/ mem' = [mem EXCEPT ![p] = GaveUp(p)]
        \/ Inherited(p) /\ mem' = [mem EXCEPT ![p] = TakeOver(p, mem[p], s)]
        \/ mem' = [mem EXCEPT ![p] = Installed(p, Claim(p, mem[p]), s)]
    BY DEF SetDefaultBackend, Effect, GaveUp
  <1>3. CASE mem' = [mem EXCEPT ![p] = GaveUp(p)]
    BY <1>1, <1>3, GaveUpMeant, RestoreKept
  <1>4. CASE Inherited(p) /\ mem' = [mem EXCEPT ![p] = TakeOver(p, mem[p], s)]
    BY <1>1, <1>4, TakeOverMeant, RestoreKept
  <1>5. CASE mem' = [mem EXCEPT ![p] = Installed(p, Claim(p, mem[p]), s)]
    <2> DEFINE n == Claim(p, mem[p])
    <2>1. /\ n \in Memory /\ Builds(p, mem[p], n)
          /\ \A k \in Tokens : mem[p].scopes[k] # NoScope => SameScope(p, mem[p], n, k)
      BY ClaimMeant DEF SameScope
    <2> HIDE DEF n
    <2>2. /\ Installed(p, n, s) \in Memory /\ Builds(p, mem[p], Installed(p, n, s))
          /\ \A k \in Tokens : mem[p].scopes[k] # NoScope =>
                SameScope(p, mem[p], Installed(p, n, s), k)
      BY <1>1, <2>1, InstalledMeant
    <2>3. mem' = [mem EXCEPT ![p] = Installed(p, n, s)]
      BY <1>5 DEF n
    <2>4. QED
      BY <1>1, <2>2, <2>3, RestoreKept
  <1>6. QED
    BY <1>2, <1>3, <1>4, <1>5

\* Opening a scope over memory that keeps what the blocks need, and the block with it.
LEMMA PushedRestore ==
    ASSUME IInv, RestoreInv, NEW p \in Procs, Alive(p), NEW t \in Threads,
           NEW m \in Memory, NEW b \in Backend \cup {NoBackend}, NEW r \in Selections,
           m.next = mem[p].next, mem[p].next \in Tokens, m.owner = Current(p),
           Builds(p, mem[p], m), r = mem[p].selection,
           b # NoBackend => b \in Held(mem[p]) \/ b.by = p,
           \A k \in Tokens : mem[p].scopes[k] # NoScope => SameScope(p, mem[p], m, k),
           mem' = [mem EXCEPT ![p] = Opened(p, m, b, r)],
           EnterBlock(p, t, b), UNCHANGED processVars
    PROVE  RestoreInv'
  <1> DEFINE x == mem[p].next
             s == [owner |-> Current(p), previous |-> b, selection |-> r]
             n == Opened(p, m, b, r)
             e == [token |-> x, core |-> b, selection |-> r]
  <1>1. /\ n \in Memory /\ n.core = m.core /\ n.owner = m.owner
        /\ n.scopes = [m.scopes EXCEPT ![x] = s]
    BY ProcessFacts, OpenedFacts
  <1>2. /\ m.scopes \in [Tokens -> Scope \cup {NoScope}]
        /\ blocks \in [Procs -> [Threads -> Seq(Block)]]
    BY DEF Memory, IInv, TypeOK
  <1>3. e \in Block
    BY DEF Block
  <1>4. mem' = [mem EXCEPT ![p] = n]
    OBVIOUS
  <1>5. \/ blocks' = [blocks EXCEPT ![p][t] = Append(@, e)]
        \/ UNCHANGED blocks
    BY DEF EnterBlock
  <1>6. x \in Nat
    BY DEF Tokens
  <1>7. /\ s.owner = Current(p) /\ s.previous = b /\ s.selection = r
        /\ e.token = x /\ e.core = b /\ e.selection = r
    OBVIOUS
  <1> HIDE DEF n, s, e, x
  <1>8. n.scopes[x] = s /\ \A k \in Tokens \ {x} : n.scopes[k] = m.scopes[k]
    BY <1>1, <1>2 DEF x
  <1>9. Builds(p, mem[p], n)
    <2>1. \A k \in Tokens \ {x} : Saved(n, k) = Saved(m, k)
      BY <1>8 DEF Saved
    <2>2. Saved(n, x) \in {NoBackend, b}
      BY <1>7, <1>8 DEF Saved
    <2>3. ASSUME NEW a \in Held(n) PROVE a \in Held(m) \/ (a = b /\ b # NoBackend)
      <3>1. a # NoBackend /\ (a = m.core \/ \E k \in Tokens : a = Saved(n, k))
        BY <1>1, HeldBackends
      <3>2. ASSUME NEW k \in Tokens, a = Saved(n, k) PROVE a = b \/ a = Saved(m, k)
        BY <2>1, <2>2, <3>1, <3>2
      <3>3. CASE a = b
        BY <3>1, <3>3
      <3>4. CASE a = m.core \/ \E k \in Tokens : a = Saved(m, k)
        BY <3>1, <3>4, HeldBackends
      <3>5. QED
        BY <3>1, <3>2, <3>3, <3>4
    <2>4. QED
      BY <2>3 DEF Builds
  <1>10. ASSUME NEW u \in Threads, NEW i \in 1..Len(blocks[p][u])
         PROVE  SameScope(p, mem[p], n, TokenAt(p, u, i))
    <2>1. /\ TokenAt(p, u, i) \in Tokens /\ TokenAt(p, u, i) < x
          /\ mem[p].scopes[TokenAt(p, u, i)] # NoScope
      BY BlockFacts DEF IInv, BlocksInv, x
    <2>2. TokenAt(p, u, i) # x
      BY <1>6, <2>1 DEF Tokens
    <2>3. n.scopes[TokenAt(p, u, i)] = m.scopes[TokenAt(p, u, i)]
      BY <1>8, <2>1, <2>2
    <2>4. QED
      BY <1>1, <2>1, <2>3 DEF SameScope
  <1>11. Meant(p, n, e)
    <2>1. b # NoBackend => Born(b.by)
      BY DEF RestoreInv, HeldBorn, Alive, Born
    <2>2. QED
      BY <1>1, <1>7, <1>8, <2>1 DEF Meant
  <1>12. CASE UNCHANGED blocks
    <2>1. ASSUME NEW u \in Threads, NEW i \in 1..Len(blocks'[p][u])
          PROVE  /\ i \in 1..Len(blocks[p][u]) /\ blocks'[p][u][i] = blocks[p][u][i]
                 /\ SameScope(p, mem[p], n, TokenAt(p, u, i))
      BY <1>10, <1>12
    <2>2. \A q \in Procs \ {p} : blocks'[q] = blocks[q]
      BY <1>12
    <2>3. QED
      BY <1>1, <1>4, <1>9, <2>1, <2>2, RestoreStep
  <1>13. CASE blocks' = [blocks EXCEPT ![p][t] = Append(@, e)]
    <2>1. /\ blocks'[p][t] = Append(blocks[p][t], e)
          /\ \A u \in Threads \ {t} : blocks'[p][u] = blocks[p][u]
          /\ \A q \in Procs \ {p} : blocks'[q] = blocks[q]
      BY <1>2, <1>13
    <2>2. blocks[p][t] \in Seq(Block)
      BY <1>2
    <2>3. /\ Len(blocks'[p][t]) = Len(blocks[p][t]) + 1
          /\ \A i \in 1..Len(blocks[p][t]) : blocks'[p][t][i] = blocks[p][t][i]
          /\ blocks'[p][t][Len(blocks[p][t]) + 1] = e
      BY <1>3, <2>1, <2>2
    <2>4. ASSUME NEW u \in Threads, NEW i \in 1..Len(blocks'[p][u])
          PROVE  \/ Meant(p, n, blocks'[p][u][i])
                 \/ /\ i \in 1..Len(blocks[p][u]) /\ blocks'[p][u][i] = blocks[p][u][i]
                    /\ SameScope(p, mem[p], n, TokenAt(p, u, i))
      <3>1. CASE u = t /\ i = Len(blocks[p][t]) + 1
        BY <1>11, <2>3, <3>1
      <3>2. CASE ~(u = t /\ i = Len(blocks[p][t]) + 1)
        <4>1. CASE u = t
          <5>1. Len(blocks[p][t]) \in Nat
            BY <2>2
          <5>2. i \in 1..Len(blocks[p][t])
            BY <2>3, <3>2, <4>1, <5>1
          <5>3. QED
            BY <1>10, <2>3, <4>1, <5>2
        <4>2. CASE u # t
          BY <1>10, <2>1, <4>2
        <4>3. QED
          BY <4>1, <4>2
      <3>3. QED
        BY <3>1, <3>2
    <2>5. QED
      BY <1>1, <1>4, <1>9, <2>1, <2>4, RestoreStep
  <1>14. QED
    BY <1>5, <1>12, <1>13

LEMMA PushDefaultBackendRestore ==
    ASSUME IInv, RestoreInv, NEW p \in Procs, NEW t \in Threads, NEW s \in Explicit,
           PushDefaultBackend(p, t, s)
    PROVE  RestoreInv'
  <1>1. /\ Alive(p) /\ UNCHANGED processVars /\ s \in Selections
        /\ mem[p].next \in Tokens
    BY DEF PushDefaultBackend, Running, Rest, Selections
  <1>2. /\ mem[p] \in Memory /\ mem[p].selection \in Selections
        /\ Current(p) \in Identity
    BY ProcessFacts
  <1>3. CASE mem' = [mem EXCEPT ![p] = GaveUp(p)] /\ UNCHANGED blocks
    BY <1>1, <1>3, GaveUpMeant, RestoreKept
  <1>4. CASE /\ Inherited(p)
             /\ mem' = [mem EXCEPT ![p] =
                          Opened(p, TakeOver(p, mem[p], s), NoBackend, mem[p].selection)]
             /\ EnterBlock(p, t, NoBackend)
    <2> DEFINE m == TakeOver(p, mem[p], s)
    <2>1. /\ m \in Memory /\ Builds(p, mem[p], m)
          /\ \A k \in Tokens : mem[p].scopes[k] # NoScope => SameScope(p, mem[p], m, k)
      BY <1>1, <1>4, TakeOverMeant
    <2>2. m.next = mem[p].next /\ m.owner = Current(p)
      BY <1>1, <1>2, TakeOverFacts
    <2> HIDE DEF m
    <2>3. /\ mem' = [mem EXCEPT ![p] = Opened(p, m, NoBackend, mem[p].selection)]
          /\ EnterBlock(p, t, NoBackend)
      BY <1>4 DEF m
    <2>4. QED
      BY <1>1, <1>2, <2>1, <2>2, <2>3, PushedRestore
  <1>5. CASE LET m == Resolve(p, Claim(p, mem[p]))
             IN  /\ mem' = [mem EXCEPT ![p] =
                              Opened(p, Installed(p, m, s), m.core, m.selection)]
                 /\ EnterBlock(p, t, m.core)
    <2> DEFINE c == Claim(p, mem[p])
               m == Resolve(p, c)
               n == Installed(p, m, s)
    <2>1. /\ c \in Memory /\ Builds(p, mem[p], c) /\ c.owner = Current(p)
          /\ \A k \in Tokens : mem[p].scopes[k] # NoScope => SameScope(p, mem[p], c, k)
          /\ c.next = mem[p].next /\ c.selection = mem[p].selection
      BY <1>2, ClaimMeant, ClaimFacts DEF SameScope
    <2> HIDE DEF c
    <2>2. /\ m \in Memory /\ Builds(p, mem[p], m)
          /\ \A k \in Tokens : mem[p].scopes[k] # NoScope => SameScope(p, mem[p], m, k)
      BY <2>1, ResolveMeant
    <2>3. /\ m.core \in Backend /\ m.core # NoBackend /\ m.selection = mem[p].selection
          /\ m.owner = Current(p) /\ m.next = mem[p].next
      BY <2>1, ResolveFacts
    <2> HIDE DEF m
    <2>4. m.core \in Held(mem[p]) \/ m.core.by = p
      BY <2>2, <2>3 DEF Builds, Held
    <2>5. /\ n \in Memory /\ Builds(p, mem[p], n)
          /\ \A k \in Tokens : mem[p].scopes[k] # NoScope => SameScope(p, mem[p], n, k)
      BY <1>1, <2>2, InstalledMeant
    <2>6. n.owner = Current(p) /\ n.next = mem[p].next
      BY <1>1, <2>2, <2>3, InstalledFacts
    <2> HIDE DEF n
    <2> DEFINE b == m.core
    <2>7. /\ mem' = [mem EXCEPT ![p] = Opened(p, n, b, mem[p].selection)]
          /\ EnterBlock(p, t, b)
      BY <1>5, <2>3 DEF n, m, c
    <2>8. b \in Backend \cup {NoBackend} /\ (b \in Held(mem[p]) \/ b.by = p)
      BY <2>3, <2>4
    <2> HIDE DEF b
    <2>9. QED
      BY <1>1, <1>2, <2>5, <2>6, <2>7, <2>8, PushedRestore
  <1>6. QED
    BY <1>3, <1>4, <1>5 DEF PushDefaultBackend, Effect, GaveUp

\* What pop_default_backend leaves of memory: one of these, over memory with the
\* scope of the innermost block closed.
Popped(p, m, scope, n) ==
    \/ Inherited(p) /\ n = TakeOver(p, m, scope.selection)
    \/ Inherited(p) /\ n = m
    \/ ~Inherited(p) /\ scope.previous # NoBackend /\ n = Restored(Claim(p, m), scope)
    \/ ~Inherited(p) /\ n = Installed(p, Claim(p, m), scope.selection)
    \/ ~Inherited(p) /\ n = Claim(p, m)

LEMMA PoppedMeant ==
    ASSUME IInv, RestoreInv, NEW p \in Procs, NEW x \in Tokens, NEW e \in Scope,
           e = mem[p].scopes[x], NEW n, Popped(p, Closed(mem[p], x), e, n)
    PROVE  /\ n \in Memory /\ Builds(p, mem[p], n)
           /\ \A k \in Tokens \ {x} :
                 mem[p].scopes[k] # NoScope => SameScope(p, mem[p], n, k)
  <1> DEFINE m == Closed(mem[p], x)
             c == Claim(p, m)
  <1>1. mem[p] \in Memory /\ Current(p) \in Identity
    BY ProcessFacts
  <1>2. /\ m \in Memory /\ m.core = mem[p].core /\ m.owner = mem[p].owner
        /\ m.scopes = [mem[p].scopes EXCEPT ![x] = NoScope]
    BY <1>1, ClosedFacts
  <1> HIDE DEF m
  <1>3. mem[p].scopes \in [Tokens -> Scope \cup {NoScope}]
    BY <1>1 DEF Memory
  <1>4. m.scopes[x] = NoScope /\ \A k \in Tokens \ {x} : m.scopes[k] = mem[p].scopes[k]
    BY <1>2, <1>3
  <1>5. Held(m) \subseteq Held(mem[p])
    BY <1>2, <1>4 DEF Held, Saved
  <1>6. Builds(p, mem[p], m) /\ \A k \in Tokens \ {x} : SameScope(p, mem[p], m, k)
    BY <1>2, <1>4, <1>5 DEF Builds, SameScope
  <1>7. e.selection \in Selections /\ e.previous \in Backend \cup {NoBackend}
    BY DEF Scope
  <1>8. /\ c \in Memory /\ c.scopes = m.scopes /\ c.owner = Current(p)
        /\ Builds(p, m, c)
    BY <1>1, <1>2, ClaimFacts, ClaimBuilds
  <1> HIDE DEF c
  <1>9. /\ Builds(p, mem[p], c)
        /\ \A k \in Tokens \ {x} : SameScope(p, mem[p], c, k)
    BY <1>6, <1>8, BuildsOn DEF SameScope
  <1>10. CASE Inherited(p) /\ n = TakeOver(p, m, e.selection)
    <2>1. n \in Memory
      BY <1>1, <1>2, <1>7, <1>10, TakeOverFacts
    <2> DEFINE s == e.selection
    <2>2. /\ \A b \in Held(TakeOver(p, m, s)) : b.by = p
          /\ \A k \in Tokens : m.scopes[k] # NoScope =>
                TakeOver(p, m, s).scopes[k].selection = m.scopes[k].selection
      <3>1. s \in Selections
        BY <1>7
      <3> HIDE DEF s
      <3>2. QED
        BY <1>1, <1>2, <3>1, TakeOverBuilds
    <2>3. mem[p].owner # Current(p)
      BY <1>10 DEF Inherited, Owns
    <2>4. n = TakeOver(p, m, s)
      BY <1>10
    <2> HIDE DEF s
    <2>5. QED
      BY <1>4, <2>1, <2>2, <2>3, <2>4 DEF Builds, SameScope
  <1>11. CASE Inherited(p) /\ n = m
    BY <1>2, <1>6, <1>11
  <1>12. CASE e.previous # NoBackend /\ n = Restored(c, e)
    <2>1. /\ n \in Memory /\ n.core = e.previous /\ n.scopes = c.scopes
          /\ n.owner = c.owner
      BY <1>8, <1>12, RestoredFacts
    <2>2. e.previous \in Held(mem[p])
      <3>1. Saved(mem[p], x) = e.previous
        BY BackendAssumption DEF Saved
      <3>2. QED
        BY <1>1, <1>12, <3>1, HeldBackends
    <2>3. \A k \in Tokens : Saved(n, k) = Saved(c, k)
      BY <2>1 DEF Saved
    <2>4. Held(n) \subseteq Held(c) \cup {e.previous}
      BY <2>1, <2>3 DEF Held
    <2>5. Builds(p, mem[p], n)
      BY <1>9, <2>2, <2>4 DEF Builds
    <2>6. QED
      BY <1>9, <2>1, <2>5 DEF SameScope
  <1>13. CASE n = Installed(p, c, e.selection)
    <2>1. /\ n \in Memory /\ n.scopes = c.scopes /\ n.owner = c.owner
      BY <1>7, <1>8, <1>13, InstalledFacts
    <2>2. Builds(p, mem[p], n)
      BY <1>7, <1>8, <1>9, <1>13, InstalledBuilds, BuildsOn
    <2>3. QED
      BY <1>9, <2>1, <2>2 DEF SameScope
  <1>14. CASE n = c
    BY <1>8, <1>9, <1>14
  <1>15. QED
    BY <1>10, <1>11, <1>12, <1>13, <1>14 DEF Popped, c, m

LEMMA PopIsPopped ==
    ASSUME NEW p \in Procs, NEW t \in Threads, PopDefaultBackend(p, t)
    PROVE  LET x == Innermost(p, t).token
           IN  \E n : /\ mem' = [mem EXCEPT ![p] = n]
                      /\ Popped(p, Closed(mem[p], x), mem[p].scopes[x], n)
  BY Zenon DEF PopDefaultBackend, Effect, Popped

LEMMA PopDefaultBackendRestore ==
    ASSUME IInv, RestoreInv, NEW p \in Procs, NEW t \in Threads, PopDefaultBackend(p, t)
    PROVE  RestoreInv'
  <1> DEFINE len == Len(blocks[p][t])
             tail == SubSeq(blocks[p][t], 1, len - 1)
             x == Innermost(p, t).token
             e == mem[p].scopes[x]
  <1>1. /\ Alive(p) /\ UNCHANGED processVars /\ blocks[p][t] # <<>>
        /\ blocks' = [blocks EXCEPT ![p][t] = tail]
    BY DEF PopDefaultBackend, Running, Rest
  <1>2. PICK n : /\ mem' = [mem EXCEPT ![p] = n]
                 /\ Popped(p, Closed(mem[p], x), e, n)
    BY PopIsPopped
  <1>3. x \in Tokens /\ e \in Scope
    BY <1>1, InnermostFacts
  <1>4. x = TokenAt(p, t, len)
    BY DEF Innermost, TokenAt
  <1>5. /\ len \in 1..Len(blocks[p][t]) /\ Len(tail) = len - 1 /\ len \in Nat
        /\ \A i \in 1..Len(tail) : tail[i] = blocks[p][t][i]
    BY <1>1, PoppedFacts
  <1>6. blocks \in [Procs -> [Threads -> Seq(Block)]]
    BY DEF IInv, TypeOK
  <1> HIDE DEF tail, x
  <1>7. /\ n \in Memory /\ Builds(p, mem[p], n)
        /\ \A k \in Tokens \ {x} : mem[p].scopes[k] # NoScope => SameScope(p, mem[p], n, k)
    BY <1>2, <1>3, PoppedMeant
  <1>8. /\ blocks'[p][t] = tail
        /\ \A u \in Threads \ {t} : blocks'[p][u] = blocks[p][u]
        /\ \A q \in Procs \ {p} : blocks'[q] = blocks[q]
    BY <1>1, <1>6
  <1>9. ASSUME NEW u \in Threads, NEW i \in 1..Len(blocks'[p][u])
        PROVE  /\ i \in 1..Len(blocks[p][u]) /\ blocks'[p][u][i] = blocks[p][u][i]
               /\ SameScope(p, mem[p], n, TokenAt(p, u, i))
    <2>1. /\ i \in 1..Len(blocks[p][u]) /\ blocks'[p][u][i] = blocks[p][u][i]
          /\ u = t => i # len
      BY <1>5, <1>8
    <2>2. TokenAt(p, u, i) # x
      BY <1>4, <1>5, <2>1 DEF IInv, BlocksInv
    <2>3. TokenAt(p, u, i) \in Tokens /\ mem[p].scopes[TokenAt(p, u, i)] # NoScope
      BY <2>1, BlockFacts DEF IInv, BlocksInv
    <2>4. QED
      BY <1>7, <2>1, <2>2, <2>3
  <1>10. QED
    BY <1>1, <1>2, <1>7, <1>8, <1>9, RestoreStep

\* A child inherits nothing it built: its blocks ask nothing of it but selections.
LEMMA ForkRestore ==
    ASSUME IInv, RestoreInv, NEW p \in Procs, NEW t \in Threads, NEW c \in Procs,
           Fork(p, t, c)
    PROVE  RestoreInv'
  <1>1. /\ p # c /\ \A q \in Procs \ {c} : Current(q)' = Current(q)
    BY ForkMemsInv DEF Fork
  <1>2. /\ mem' = [mem EXCEPT ![c] = mem[p]]
        /\ blocks' = [blocks EXCEPT ![c] =
                         [u \in Threads |-> IF u = t THEN blocks[p][t] ELSE <<>>]]
        /\ ForkProcess(p, c)
    BY DEF Fork
  <1>3. /\ mem \in [Procs -> Memory] /\ blocks \in [Procs -> [Threads -> Seq(Block)]]
        /\ status \in [Procs -> {"unborn", "alive", "dead"}]
    BY DEF IInv, TypeOK, ProcessTypeOK
  <1>4. /\ mem'[c] = mem[p] /\ \A q \in Procs \ {c} : mem'[q] = mem[q] /\ blocks'[q] = blocks[q]
        /\ blocks'[c][t] = blocks[p][t]
        /\ \A u \in Threads \ {t} : blocks'[c][u] = <<>>
    BY <1>2, <1>3
  <1>5. ~Born(c) /\ status' = [status EXCEPT ![c] = "alive"]
    BY <1>2 DEF ForkProcess, Born
  <1>6. \A q \in Procs : Born(q) => status'[q] # "unborn"
    BY <1>3, <1>5 DEF Born
  <1>7. HeldBorn'
    <2> SUFFICES ASSUME NEW q \in Procs, NEW b \in Held(mem'[q]) PROVE Born(b.by)'
      BY DEF HeldBorn, Held, Saved
    <2>1. PICK r \in Procs : mem'[q] = mem[r]
      BY <1>4
    <2>2. Held(mem[r]) \subseteq Backend
      BY ProcessFacts
    <2>3. Born(b.by) /\ b.by \in Procs
      BY <2>1, <2>2 DEF RestoreInv, HeldBorn, Backend
    <2>4. QED
      BY <1>6, <2>3 DEF Born
  <1>8. ASSUME NEW q \in Procs, NEW u \in Threads, NEW i \in 1..Len(blocks'[q][u])
        PROVE  Meant(q, mem[q], blocks[q][u][i])'
    <2> DEFINE e == blocks'[q][u][i]
    <2>1. CASE q # c
      <3>1. i \in 1..Len(blocks[q][u]) /\ e = blocks[q][u][i]
        BY <1>4, <2>1
      <3>2. Meant(q, mem[q], e) /\ e \in Block
        BY <3>1, BlockFacts DEF RestoreInv, BlocksMeant
      <3>3. e.core # NoBackend => status'[e.core.by] # "unborn"
        BY <1>6, <3>2 DEF Meant, Block, Backend
      <3>4. Current(q)' = Current(q) /\ mem'[q] = mem[q]
        BY <1>1, <1>4, <2>1
      <3>5. QED
        BY <3>2, <3>3, <3>4 DEF Meant, Born
    <2>2. CASE q = c
      <3>1. u = t /\ i \in 1..Len(blocks[p][t]) /\ e = blocks[p][t][i]
        BY <1>4, <2>2
      <3>2. Meant(p, mem[p], e) /\ e \in Block
        BY <3>1, BlockFacts DEF RestoreInv, BlocksMeant
      <3>3. e.core # NoBackend => status'[e.core.by] # "unborn" /\ e.core.by # c
        BY <1>5, <1>6, <3>2 DEF Meant, Block, Backend
      <3>4. QED
        BY <1>4, <2>2, <3>2, <3>3 DEF Meant, Born
    <2>3. QED
      BY <2>1, <2>2
  <1>9. BlocksMeant'
    BY <1>8 DEF BlocksMeant
  <1>10. QED
    BY <1>7, <1>9 DEF RestoreInv

LEMMA QuietRestore ==
    ASSUME IInv, RestoreInv, UNCHANGED <<mem, blocks, pid, generation>>,
           \A q \in Procs : Born(q) => Born(q)'
    PROVE  RestoreInv'
  <1>1. HeldBorn'
    <2>1. ASSUME NEW q \in Procs, NEW b \in Held(mem[q]) PROVE Born(b.by)'
      <3>1. b.by \in Procs
        BY ProcessFacts DEF Backend
      <3>2. QED
        BY <3>1 DEF RestoreInv, HeldBorn
    <2>2. QED
      BY <2>1 DEF HeldBorn, Held, Saved
  <1>2. ASSUME NEW q \in Procs, NEW u \in Threads, NEW i \in 1..Len(blocks[q][u])
        PROVE  Meant(q, mem[q], blocks[q][u][i])'
    <2> DEFINE e == blocks[q][u][i]
    <2>1. Meant(q, mem[q], e) /\ e \in Block
      BY BlockFacts DEF RestoreInv, BlocksMeant
    <2>2. e.core # NoBackend => Born(e.core.by)'
      BY <2>1 DEF Meant, Block, Backend
    <2>3. QED
      BY <2>1, <2>2 DEF Meant, Current
  <1>3. QED
    BY <1>1, <1>2 DEF RestoreInv, BlocksMeant

LEMMA RestoreInit ==
    ASSUME Init
    PROVE  RestoreInv
  <1>1. /\ mem = [p \in Procs |-> InitialMemory]
        /\ blocks = [p \in Procs |-> [t \in Threads |-> <<>>]]
    BY DEF Init
  <1>2. Held(InitialMemory) = {}
    BY DEF InitialMemory, Held, Saved
  <1>3. QED
    BY <1>1, <1>2 DEF RestoreInv, HeldBorn, BlocksMeant

LEMMA RestoreNext ==
    ASSUME IInv, RestoreInv, [Next]_vars
    PROVE  RestoreInv'
  <1>1. CASE UNCHANGED vars
    BY <1>1, QuietRestore DEF vars, processVars, backendVars, Born
  <1>2. ASSUME NEW p \in Procs, NEW t \in Threads, Operation(p, t)
        PROVE  RestoreInv'
    BY <1>2, EnterCallRestore, RunCallRestore, ReadDefaultRestore,
       SetDefaultBackendRestore, PushDefaultBackendRestore, PopDefaultBackendRestore,
       ForkRestore DEF Operation
  <1>3. ASSUME NEW p \in Procs, Exit(p)
        PROVE  RestoreInv'
    <2>1. status \in [Procs -> {"unborn", "alive", "dead"}]
      BY DEF IInv, TypeOK, ProcessTypeOK
    <2>2. \A q \in Procs : Born(q) => Born(q)'
      BY <1>3, <2>1 DEF Exit, ExitProcess, Born
    <2>3. QED
      BY <1>3, <2>2, QuietRestore DEF Exit, ExitProcess
  <1>4. ASSUME NEW p \in Procs, ChangeEnvironment(p)
        PROVE  RestoreInv'
    BY <1>4, QuietRestore DEF ChangeEnvironment, processVars, Born
  <1>5. QED
    BY <1>1, <1>2, <1>3, <1>4 DEF Next

\* The invariant behind what blocks give back holds in every state, whatever
\* identities are worth.
THEOREM RestoreInvariant == Spec => [](IInv /\ RestoreInv)
  <1>1. Init => IInv /\ RestoreInv
    BY InitInv, RestoreInit
  <1>2. (IInv /\ RestoreInv) /\ [Next]_vars => (IInv /\ RestoreInv)'
    BY NextInv, RestoreNext
  <1>3. QED
    BY <1>1, <1>2, PTL DEF Spec

\* What ScopeRestored says of leaving block e in p.
GivenBack(p, m, e) ==
    /\ m.selection = e.selection
    /\ IF e.core # NoBackend /\ e.core.by = p
       THEN m.core = e.core
       ELSE m.core.by = p /\ m.core.sel = e.selection

\* How pop_default_backend can end, and when it does not fail.
LEMMA PopCases ==
    ASSUME NEW p \in Procs, NEW t \in Threads, PopDefaultBackend(p, t)
    PROVE  LET x == Innermost(p, t).token
               scope == mem[p].scopes[x]
               sel == scope.selection
               m == Closed(mem[p], x)
               c == Claim(p, m)
               kept == scope.previous # NoBackend /\ scope.owner = Current(p)
           IN  /\ last'.proc = p /\ last'.thread = t /\ blocks[p][t] # <<>>
               /\ last'.sel = sel
               /\ sel \in resolvable[p] => last'.ok
               /\ last'.ok =>
                  \/ Inherited(p) /\ mem' = [mem EXCEPT ![p] = TakeOver(p, m, sel)]
                  \/ ~Inherited(p) /\ kept /\ mem' = [mem EXCEPT ![p] = Restored(c, scope)]
                  \/ ~Inherited(p) /\ ~kept /\ mem' = [mem EXCEPT ![p] = Installed(p, c, sel)]
  <1> DEFINE x == Innermost(p, t).token
             scope == mem[p].scopes[x]
             sel == scope.selection
             m == Closed(mem[p], x)
             c == Claim(p, m)
             prev == scope.previous
             kept == prev # NoBackend /\ scope.owner = Current(p)
             core == mem[p].core
  <1>1. blocks[p][t] # <<>>
    BY DEF PopDefaultBackend
  <1>2. \/ /\ Inherited(p)
           /\ Effect("pop", p, t, sel, TRUE, TakeOver(p, m, sel), {}, Forgotten(p))
        \/ /\ Inherited(p) /\ sel \notin resolvable[p]
           /\ Effect("pop", p, t, sel, FALSE, m, {}, {prev})
        \/ /\ ~Inherited(p) /\ kept
           /\ Effect("pop", p, t, sel, TRUE, Restored(c, scope), {}, {})
        \/ /\ ~Inherited(p) /\ ~kept
           /\ Effect("pop", p, t, sel, TRUE, Installed(p, c, sel), {}, {prev, core})
        \/ /\ ~Inherited(p) /\ sel \notin resolvable[p]
           /\ Effect("pop", p, t, sel, FALSE, c, {}, {prev})
    BY Zenon DEF PopDefaultBackend
  <1> DEFINE taken == TakeOver(p, m, sel)
             restored == Restored(c, scope)
             installed == Installed(p, c, sel)
             kp == kept
  <1>3. \/ /\ Inherited(p)
           /\ Effect("pop", p, t, sel, TRUE, taken, {}, Forgotten(p))
        \/ /\ Inherited(p) /\ sel \notin resolvable[p]
           /\ Effect("pop", p, t, sel, FALSE, m, {}, {prev})
        \/ /\ ~Inherited(p) /\ kp
           /\ Effect("pop", p, t, sel, TRUE, restored, {}, {})
        \/ /\ ~Inherited(p) /\ ~kp
           /\ Effect("pop", p, t, sel, TRUE, installed, {}, {prev, core})
        \/ /\ ~Inherited(p) /\ sel \notin resolvable[p]
           /\ Effect("pop", p, t, sel, FALSE, c, {}, {prev})
    BY <1>2
  <1> HIDE DEF taken, restored, installed, kp, sel, prev, core, c, m
  <1>4. /\ last'.proc = p /\ last'.thread = t /\ last'.sel = sel
        /\ sel \in resolvable[p] => last'.ok
        /\ last'.ok =>
           \/ Inherited(p) /\ mem' = [mem EXCEPT ![p] = taken]
           \/ ~Inherited(p) /\ kp /\ mem' = [mem EXCEPT ![p] = restored]
           \/ ~Inherited(p) /\ ~kp /\ mem' = [mem EXCEPT ![p] = installed]
    BY <1>3 DEF Effect
  <1>5. QED
    BY <1>1, <1>4, Zenon DEF taken, restored, installed, kp, sel, prev, c, m

\* A block that is left with success gives back what it replaced.
LEMMA PopGivesBack ==
    ASSUME IdentityAssumption, IInv, RestoreInv, NEW p \in Procs, NEW t \in Threads,
           PopDefaultBackend(p, t), last'.ok
    PROVE  /\ last'.proc = p /\ last'.thread = t
           /\ GivenBack(p, mem'[p], Innermost(p, t))
  <1> DEFINE x == Innermost(p, t).token
             e == Innermost(p, t)
             scope == mem[p].scopes[x]
             m == Closed(mem[p], x)
             c == Claim(p, m)
             kept == scope.previous # NoBackend /\ scope.owner = Current(p)
             sel == scope.selection
  <1>1. /\ last'.proc = p /\ last'.thread = t /\ blocks[p][t] # <<>>
        /\ \/ Inherited(p) /\ mem' = [mem EXCEPT ![p] = TakeOver(p, m, sel)]
           \/ ~Inherited(p) /\ kept /\ mem' = [mem EXCEPT ![p] = Restored(c, scope)]
           \/ ~Inherited(p) /\ ~kept /\ mem' = [mem EXCEPT ![p] = Installed(p, c, sel)]
    BY PopCases
  <1>2. /\ mem[p] \in Memory /\ Current(p) \in Identity
        /\ MemInv(p, mem[p], Current(p), lineage[p])
        /\ mem \in [Procs -> Memory]
    BY ProcessFacts DEF IInv, TypeOK
  <1>3. /\ x \in Tokens /\ scope \in Scope /\ Saved(mem[p], x) = scope.previous
        /\ scope.previous # NoBackend =>
              /\ scope.previous \in Held(mem[p]) /\ scope.previous.sel = sel
    BY <1>1, InnermostFacts
  <1>4. e = blocks[p][t][Len(blocks[p][t])] /\ Len(blocks[p][t]) \in 1..Len(blocks[p][t])
    BY <1>1, PoppedFacts DEF Innermost
  <1>5. Meant(p, mem[p], e)
    BY <1>4 DEF RestoreInv, BlocksMeant
  <1>6. sel = e.selection /\ sel \in Selections
    BY <1>3, <1>5 DEF Meant, Scope
  <1>7. e.core # NoBackend /\ e.core.by = p =>
           Owns(p) /\ scope.owner = Current(p) /\ scope.previous = e.core
    BY <1>5 DEF Meant, Owns
  <1>8. m \in Memory
    BY <1>2, <1>3, ClosedFacts
  <1> HIDE DEF m
  <1>9. c \in Memory
    BY <1>2, <1>8, ClaimFacts
  <1> HIDE DEF e, c, sel, x
  <1>10. ASSUME Inherited(p) /\ mem' = [mem EXCEPT ![p] = TakeOver(p, m, sel)]
         PROVE  GivenBack(p, mem'[p], e)
    <2> DEFINE n == TakeOver(p, m, sel)
               r == Resolve(p, m)
    <2>1. n.core = Fresh(p, r, sel) /\ r \in Memory /\ n.selection = sel
      BY <1>2, <1>6, <1>8, TakeOverFacts
    <2> HIDE DEF r
    <2>2. n.core.by = p /\ n.core.sel = sel
      BY <1>6, <2>1, FreshFacts
    <2>3. ~(e.core # NoBackend /\ e.core.by = p)
      BY <1>7, <1>10 DEF Inherited
    <2>4. mem'[p] = n
      BY <1>2, <1>10
    <2> HIDE DEF n
    <2>5. QED
      BY <1>6, <2>1, <2>2, <2>3, <2>4 DEF GivenBack
  <1>11. ASSUME ~Inherited(p) /\ kept /\ mem' = [mem EXCEPT ![p] = Restored(c, scope)]
         PROVE  GivenBack(p, mem'[p], e)
    <2> DEFINE n == Restored(c, scope)
    <2>1. n.core = scope.previous /\ n.selection = sel
      BY <1>3, <1>9, RestoredFacts DEF sel
    <2>2. scope.previous \in Held(mem[p]) /\ scope.previous.sel = sel
      BY <1>3, <1>11
    <2>3. mem[p].owner = Current(p)
      BY <1>2, <1>11, <2>2, NotInherited DEF MemInv, Owns
    <2>4. scope.previous.by = p
      BY <1>2, <2>2, <2>3 DEF MemInv
    <2>5. mem'[p] = n
      BY <1>2, <1>11
    <2> HIDE DEF n
    <2>6. QED
      BY <1>6, <1>7, <2>1, <2>2, <2>4, <2>5 DEF GivenBack
  <1>12. ASSUME ~Inherited(p) /\ ~kept /\ mem' = [mem EXCEPT ![p] = Installed(p, c, sel)]
         PROVE  GivenBack(p, mem'[p], e)
    <2> DEFINE n == Installed(p, c, sel)
    <2>1. n.core = Fresh(p, c, sel) /\ n.selection = sel
      BY <1>6, <1>9, InstalledFacts
    <2>2. n.core.by = p /\ n.core.sel = sel
      BY <1>6, <1>9, <2>1, FreshFacts
    <2>3. ~(e.core # NoBackend /\ e.core.by = p)
      BY <1>7, <1>12
    <2>4. mem'[p] = n
      BY <1>2, <1>12
    <2> HIDE DEF n
    <2>5. QED
      BY <1>6, <2>1, <2>2, <2>3, <2>4 DEF GivenBack
  <1>13. QED
    BY <1>1, <1>10, <1>11, <1>12 DEF e

\* Leaving a with_backend block gives the process back what the block replaced, the
\* very backend or one of its own chosen the same way, whatever forked in between
\* and whatever failed: as long as identities are sound.
THEOREM ScopeRestoredSound ==
    ASSUME IdentityAssumption PROVE Spec => ScopeRestored
  <1> DEFINE Gives ==
          last'.op = "pop" /\ last'.ok =>
          LET p == last'.proc
              e == Innermost(p, last'.thread)
          IN  /\ mem'[p].selection = e.selection
              /\ IF e.core # NoBackend /\ e.core.by = p
                 THEN mem'[p].core = e.core
                 ELSE mem'[p].core.by = p /\ mem'[p].core.sel = e.selection
  <1>1. ASSUME IInv, RestoreInv, [Next]_vars PROVE [Gives]_vars
    <2> SUFFICES ASSUME last'.op = "pop", last'.ok, vars' # vars PROVE Gives
      OBVIOUS
    <2>1. CASE \E p \in Procs, t \in Threads : PopDefaultBackend(p, t)
      <3>1. PICK p \in Procs, t \in Threads : PopDefaultBackend(p, t)
        BY <2>1
      <3>2. /\ last'.proc = p /\ last'.thread = t
            /\ GivenBack(p, mem'[p], Innermost(p, t))
        BY <1>1, <3>1, PopGivesBack
      <3>3. QED
        BY <3>2 DEF GivenBack
    <2>2. CASE \E p \in Procs, t \in Threads :
                  \/ EnterCall(p, t) \/ RunCall(p, t) \/ ReadDefault(p, t)
                  \/ \E s \in Explicit : SetDefaultBackend(p, t, s) \/ PushDefaultBackend(p, t, s)
      <3>1. last'.op \in {"enter", "body", "read", "set", "push"}
        BY <2>2 DEF EnterCall, RunCall, ReadDefault, SetDefaultBackend, PushDefaultBackend, Effect
      <3>2. QED
        BY <3>1
    <2>3. CASE \E p \in Procs :
                  \/ \E t \in Threads, c \in Procs : Fork(p, t, c)
                  \/ Exit(p) \/ ChangeEnvironment(p)
      BY <2>3 DEF Fork, Exit, ChangeEnvironment, Happens
    <2>4. QED
      BY <1>1, <2>1, <2>2, <2>3 DEF Next, Operation
  <1> HIDE DEF Gives
  <1>2. (IInv /\ RestoreInv) /\ [Next]_vars => [Gives]_vars
    BY <1>1
  <1>3. Spec => [][Gives]_vars
    BY RestoreInvariant, <1>2, PTL DEF Spec
  <1>4. QED
    BY <1>3 DEF ScopeRestored, Gives

\* Choosing a backend, opening a scope and leaving one never fail because of what
\* the process inherited: only because what they are to install does not resolve.
THEOREM NeverStuckSound == Spec => NeverStuckOnInherited
  <1> DEFINE Succeeds ==
          last'.op \in {"set", "push", "pop"} /\ last'.sel \in resolvable[last'.proc]
              => last'.ok
  <1>1. ASSUME [Next]_vars PROVE [Succeeds]_vars
    <2> SUFFICES ASSUME last'.op \in {"set", "push", "pop"},
                        last'.sel \in resolvable[last'.proc], vars' # vars
                 PROVE  last'.ok
      OBVIOUS
    <2>1. ASSUME NEW p \in Procs, NEW t \in Threads, NEW s \in Explicit,
                 SetDefaultBackend(p, t, s) \/ PushDefaultBackend(p, t, s)
          PROVE  last'.ok
      BY <2>1 DEF SetDefaultBackend, PushDefaultBackend, Effect
    <2>2. ASSUME NEW p \in Procs, NEW t \in Threads, PopDefaultBackend(p, t)
          PROVE  last'.ok
      <3>1. /\ last'.proc = p
            /\ last'.sel \in resolvable[p] => last'.ok
        BY <2>2, PopCases
      <3>2. QED
        BY <3>1
    <2>3. ASSUME NEW p \in Procs, NEW t \in Threads,
                 EnterCall(p, t) \/ RunCall(p, t) \/ ReadDefault(p, t)
          PROVE  FALSE
      <3>1. last'.op \in {"enter", "body", "read"}
        BY <2>3 DEF EnterCall, RunCall, ReadDefault, Effect
      <3>2. QED
        BY <3>1
    <2>4. ASSUME NEW p \in Procs,
                 \/ \E t \in Threads, c \in Procs : Fork(p, t, c)
                 \/ Exit(p) \/ ChangeEnvironment(p)
          PROVE  FALSE
      <3>1. last'.op \in {"fork", "exit", "env"}
        BY <2>4 DEF Fork, Exit, ChangeEnvironment, Happens
      <3>2. QED
        BY <3>1
    <2>5. QED
      BY <1>1, <2>1, <2>2, <2>3, <2>4 DEF Next, Operation
  <1> HIDE DEF Succeeds
  <1>2. Spec => [][Succeeds]_vars
    BY <1>1, PTL DEF Spec
  <1>3. QED
    BY <1>2 DEF NeverStuckOnInherited, Succeeds

================================================================================
