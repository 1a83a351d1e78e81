-------------------------- MODULE RuntimeCellProofs --------------------------
(***************************************************************************)
(* RuntimeCell for every number of processes, threads and addresses: the   *)
(* lock-free publication gives each process one runtime, its own, and      *)
(* destroys no cell that anybody can still reach.                          *)
(***************************************************************************)
EXTENDS RuntimeCell, ProcessIdentityProofs, FiniteSetTheorems

--------------------------------------------------------------------------------
(* The inductive invariant, of one process p whose identity is id, whose   *)
(* ancestors' identities are line, and which has the pointer ptr, the heap *)
(* h, calls cl and has built n cells, returned g and dropped d.            *)

\* Every cell is tagged with the identity of the process or of an ancestor, a
\* cell this process built with its own, and no cell is at two addresses.
CellsInv(p, id, line, h, n) ==
    \A a \in Addrs : h[a] # Free =>
        /\ h[a].owner \in line \cup {id}
        /\ h[a].by = p => h[a].owner = id /\ h[a].n <= n
        /\ IdentityAssumption /\ h[a].owner = id => h[a].by = p
        /\ \A b \in Addrs : h[a] = h[b] => a = b

\* Whatever was returned is what is published.
PublishedInv(p, id, ptr, h, n, g, d) ==
    /\ ptr # Null => h[ptr] # Free
    /\ \A c \in g : ptr # Null /\ h[ptr].owner = id /\ c = h[ptr]
    /\ \A a \in Addrs : h[a] \notin d
    /\ \A c \in d : c.by = p /\ c.n <= n

\* A thread inside saw a cell that is not the process's own, which is there still
\* unless the process's own is; and what it built nobody else has.
CallsInv(p, id, ptr, h, cl) ==
    \A t \in Threads :
        /\ cl[t].at \in {"absent", "out"} => cl[t].observed = Null
        /\ cl[t].at # "publish" => cl[t].fresh = Null
        /\ cl[t].observed # Null =>
              h[cl[t].observed] # Free /\ h[cl[t].observed].owner # id
        /\ cl[t].at \in {"slow", "publish"} =>
              cl[t].observed = ptr \/ (ptr # Null /\ h[ptr].owner = id)
        /\ cl[t].at = "publish" =>
              /\ cl[t].fresh \in Addrs /\ cl[t].fresh # ptr
              /\ h[cl[t].fresh] # Free /\ h[cl[t].fresh].by = p
              /\ h[cl[t].fresh].owner = id
              /\ \A u \in Threads \ {t} : cl[u].fresh # cl[t].fresh

LeakInv(p, ptr, h, cl) ==
    \A a \in Addrs : h[a] # Free /\ h[a].by = p =>
        a = ptr \/ \E t \in Threads : cl[t].fresh = a

PInv(p, id, line, ptr, h, cl, n, g, d) ==
    /\ CellsInv(p, id, line, h, n)
    /\ PublishedInv(p, id, ptr, h, n, g, d)
    /\ CallsInv(p, id, ptr, h, cl)
    /\ LeakInv(p, ptr, h, cl)

\* Cells come from processes that exist, and a process yet to be has done nothing.
BornInv ==
    \A p \in Procs :
        /\ \A a \in Addrs : heap[p][a] # Free => Born(heap[p][a].by)
        /\ ~Born(p) => pointer[p] = Null /\ got[p] = {} /\ dropped[p] = {}

IInv ==
    /\ ProcessInv
    /\ TypeOK
    /\ BornInv
    /\ \A p \in Procs : PInv(p, Current(p), lineage[p], pointer[p], heap[p], call[p],
                             built[p], got[p], dropped[p])

--------------------------------------------------------------------------------
(* A step of one process.                                                  *)

Typed(ptr, h, cl, n, g, d) ==
    /\ ptr \in Addrs \cup {Null}
    /\ h \in [Addrs -> Cell \cup {Free}]
    /\ cl \in [Threads -> Call]
    /\ n \in 0..MaxCells
    /\ g \subseteq Cell
    /\ d \subseteq Cell

\* Process p, which exists, moves to this state and no other process moves.
Local(p, ptr, h, cl, n, g, d) ==
    /\ Born(p)
    /\ \A a \in Addrs : h[a] # Free => Born(h[a].by)
    /\ UNCHANGED processVars
    /\ pointer' = [pointer EXCEPT ![p] = ptr]
    /\ heap' = [heap EXCEPT ![p] = h]
    /\ call' = [call EXCEPT ![p] = cl]
    /\ built' = [built EXCEPT ![p] = n]
    /\ got' = [got EXCEPT ![p] = g]
    /\ dropped' = [dropped EXCEPT ![p] = d]

LEMMA LocalInv ==
    ASSUME IInv, NEW p \in Procs, NEW ptr, NEW h, NEW cl, NEW n, NEW g, NEW d,
           Typed(ptr, h, cl, n, g, d), Local(p, ptr, h, cl, n, g, d),
           PInv(p, Current(p), lineage[p], ptr, h, cl, n, g, d)
    PROVE  IInv'
  <1>1. /\ ProcessInv' /\ lineage' = lineage
        /\ \A q \in Procs : Current(q)' = Current(q)
    BY ProcessStutterInv, ProcessAssumption DEF IInv, Local
  <1>2. /\ pointer' \in [Procs -> Addrs \cup {Null}]
        /\ heap' \in [Procs -> [Addrs -> Cell \cup {Free}]]
        /\ call' \in [Procs -> [Threads -> Call]]
        /\ built' \in [Procs -> 0..MaxCells]
        /\ got' \in [Procs -> SUBSET Cell] /\ dropped' \in [Procs -> SUBSET Cell]
    BY DEF Local, Typed, IInv, TypeOK
  <1>3. TypeOK'
    BY <1>1, <1>2 DEF TypeOK, ProcessInv
  <1>4. /\ pointer'[p] = ptr /\ heap'[p] = h /\ call'[p] = cl
        /\ built'[p] = n /\ got'[p] = g /\ dropped'[p] = d
    BY DEF Local, IInv, TypeOK
  <1>5. \A q \in Procs \ {p} :
           /\ pointer'[q] = pointer[q] /\ heap'[q] = heap[q] /\ call'[q] = call[q]
           /\ built'[q] = built[q] /\ got'[q] = got[q] /\ dropped'[q] = dropped[q]
    BY DEF Local, IInv, TypeOK
  <1>6. \A q : Born(q)' = Born(q)
    BY DEF Local, processVars, Born
  <1>7. BornInv'
    BY <1>4, <1>5, <1>6 DEF BornInv, IInv, Local, Born
  <1>8. \A q \in Procs : PInv(q, Current(q)', lineage'[q], pointer'[q], heap'[q], call'[q],
                              built'[q], got'[q], dropped'[q])
    BY <1>1, <1>4, <1>5 DEF IInv
  <1>9. (\A q \in Procs : PInv(q, Current(q), lineage[q], pointer[q], heap[q], call[q],
                              built[q], got[q], dropped[q]))'
    BY <1>8 DEF PInv, CellsInv, PublishedInv, CallsInv, LeakInv
  <1>10. QED
    BY <1>1, <1>3, <1>7, <1>9 DEF IInv

\* What the invariant says of a process.
LEMMA ProcessFacts ==
    ASSUME IInv, NEW p \in Procs
    PROVE  /\ Typed(pointer[p], heap[p], call[p], built[p], got[p], dropped[p])
           /\ PInv(p, Current(p), lineage[p], pointer[p], heap[p], call[p],
                   built[p], got[p], dropped[p])
           /\ \A a \in Addrs : heap[p][a] # Free => Born(heap[p][a].by)
           /\ Current(p) \in Identity
           /\ Alive(p) => Born(p)
           /\ pointer = [pointer EXCEPT ![p] = pointer[p]]
           /\ heap = [heap EXCEPT ![p] = heap[p]]
           /\ call = [call EXCEPT ![p] = call[p]]
           /\ built = [built EXCEPT ![p] = built[p]]
           /\ got = [got EXCEPT ![p] = got[p]]
           /\ dropped = [dropped EXCEPT ![p] = dropped[p]]
  <1>1. Typed(pointer[p], heap[p], call[p], built[p], got[p], dropped[p])
    BY DEF IInv, TypeOK, Typed
  <1>2. Current(p) \in Identity
    BY CurrentIsIdentity, ProcessAssumption DEF IInv, ProcessInv
  <1>3. QED
    BY <1>1, <1>2 DEF IInv, BornInv, Born, Alive, TypeOK

\* Threads outside, and those inside that have built nothing, hold nothing.
LEMMA OutsideFacts ==
    /\ Outside \in Call /\ Outside.at = "out"
    /\ Outside.observed = Null /\ Outside.fresh = Null
    /\ Absent \in Call /\ Absent.at = "absent"
    /\ Absent.observed = Null /\ Absent.fresh = Null
  BY DEF Outside, Absent, Call

\* A thread that held nothing may move as it likes without leaking.
LEMMA LeakKept ==
    ASSUME NEW p, NEW t \in Threads, NEW ptr, NEW h, NEW cl, NEW cl2,
           LeakInv(p, ptr, h, cl), cl[t].fresh = Null,
           \A u \in Threads \ {t} : cl2[u] = cl[u]
    PROVE  LeakInv(p, ptr, h, cl2)
  <1> SUFFICES ASSUME NEW a \in Addrs, h[a] # Free, h[a].by = p, a # ptr
               PROVE  \E u \in Threads : cl2[u].fresh = a
    BY DEF LeakInv
  <1>1. PICK u \in Threads : cl[u].fresh = a
    BY DEF LeakInv
  <1>2. u # t
    BY <1>1, CellAssumption
  <1>3. QED
    BY <1>1, <1>2

--------------------------------------------------------------------------------
(* The steps, one lemma each.                                              *)

LEMMA EnterInv ==
    ASSUME IInv, NEW p \in Procs, NEW t \in Threads, Enter(p, t)
    PROVE  IInv'
  <1> DEFINE ptr == pointer[p]
             h == heap[p]
             id == Current(p)
  <1>1. /\ Typed(ptr, h, call[p], built[p], got[p], dropped[p])
        /\ PInv(p, id, lineage[p], ptr, h, call[p], built[p], got[p], dropped[p])
        /\ Alive(p) /\ Born(p)
    BY ProcessFacts DEF Enter
  <1>2. CASE Mine(p, ptr) /\ Return(p, t, ptr)
    <2> DEFINE cl == [call[p] EXCEPT ![t] = Outside]
               g == got[p] \cup {h[ptr]}
    <2>1. ptr \in Addrs /\ h[ptr] # Free /\ h[ptr] \in Cell /\ h[ptr].owner = id
      BY <1>1, <1>2 DEF Typed, PInv, PublishedInv, Mine
    <2>2. Typed(ptr, h, cl, built[p], g, dropped[p])
      BY <1>1, <2>1, OutsideFacts DEF Typed
    <2>3. Local(p, ptr, h, cl, built[p], g, dropped[p])
      BY <1>1, <1>2, ProcessFacts DEF Local, Enter, Return, processVars
    <2>4. PublishedInv(p, id, ptr, h, built[p], g, dropped[p])
      BY <1>1, <2>1, CellAssumption DEF PInv, PublishedInv
    <2>5. /\ cl[t] = Outside /\ \A u \in Threads \ {t} : cl[u] = call[p][u]
          /\ call[p][t].fresh = Null
      BY <1>1 DEF Typed, Enter, PInv, CallsInv
    <2> HIDE DEF cl, g, ptr, h, id
    <2>6. CallsInv(p, id, ptr, h, cl)
      BY <1>1, <2>5, OutsideFacts, CellAssumption DEF PInv, CallsInv
    <2>7. LeakInv(p, ptr, h, cl)
      BY <1>1, <2>5, LeakKept DEF PInv
    <2>8. PInv(p, id, lineage[p], ptr, h, cl, built[p], g, dropped[p])
      BY <1>1, <2>4, <2>6, <2>7 DEF PInv
    <2>9. QED
      BY <2>2, <2>3, <2>8, LocalInv DEF id
  <1> DEFINE e == [at |-> "slow", observed |-> ptr, fresh |-> Null]
  <1>3. CASE /\ ~Mine(p, ptr)
             /\ call' = [call EXCEPT ![p][t] = e]
             /\ UNCHANGED got
    <2> DEFINE cl == [call[p] EXCEPT ![t] = e]
    <2>1. e \in Call /\ e.at = "slow" /\ e.observed = ptr /\ e.fresh = Null
      BY <1>1 DEF Typed, Call
    <2>2. ptr # Null => h[ptr] # Free /\ h[ptr].owner # id
      BY <1>1, <1>3 DEF PInv, PublishedInv, Mine
    <2> HIDE DEF e
    <2>3. Typed(ptr, h, cl, built[p], got[p], dropped[p])
      BY <1>1, <2>1 DEF Typed
    <2>4. Local(p, ptr, h, cl, built[p], got[p], dropped[p])
      BY <1>1, <1>3, ProcessFacts DEF Local, Enter, processVars
    <2>5. /\ cl[t] = e /\ \A u \in Threads \ {t} : cl[u] = call[p][u]
          /\ call[p][t].fresh = Null
      BY <1>1 DEF Typed, Enter, PInv, CallsInv
    <2> HIDE DEF cl, ptr, h, id
    <2>6. CallsInv(p, id, ptr, h, cl)
      BY <1>1, <2>1, <2>2, <2>5, CellAssumption DEF PInv, CallsInv
    <2>7. LeakInv(p, ptr, h, cl)
      BY <1>1, <2>5, LeakKept DEF PInv
    <2>8. PInv(p, id, lineage[p], ptr, h, cl, built[p], got[p], dropped[p])
      BY <1>1, <2>6, <2>7 DEF PInv
    <2>9. QED
      BY <2>3, <2>4, <2>8, LocalInv DEF id
  <1>4. QED
    BY <1>2, <1>3 DEF Enter

LEMMA BuildCellInv ==
    ASSUME IInv, NEW p \in Procs, NEW t \in Threads, BuildCell(p, t)
    PROVE  IInv'
  <1> DEFINE ptr == pointer[p]
             h == heap[p]
             id == Current(p)
             n == built[p]
             e == [owner |-> id, by |-> p, n |-> n + 1]
  <1>1. /\ Typed(ptr, h, call[p], n, got[p], dropped[p])
        /\ PInv(p, id, lineage[p], ptr, h, call[p], n, got[p], dropped[p])
        /\ Alive(p) /\ Born(p) /\ id \in Identity
        /\ \A a \in Addrs : h[a] # Free => Born(h[a].by)
    BY ProcessFacts DEF BuildCell
  <1>2. n < MaxCells /\ n \in 0..MaxCells /\ call[p][t].at = "slow"
    BY <1>1 DEF BuildCell, Typed
  <1>3. PICK a \in Addrs :
           /\ h[a] = Free
           /\ heap' = [heap EXCEPT ![p][a] = e]
           /\ call' = [call EXCEPT ![p][t] =
                          [at |-> "publish", observed |-> call[p][t].observed, fresh |-> a]]
    BY DEF BuildCell
  <1>4. e \in Cell /\ e.owner = id /\ e.by = p /\ e.n = n + 1 /\ e # Free
    BY <1>1, <1>2, CellAssumption DEF Cell
  <1> DEFINE f == [at |-> "publish", observed |-> call[p][t].observed, fresh |-> a]
             h2 == [h EXCEPT ![a] = e]
             cl2 == [call[p] EXCEPT ![t] = f]
  <1>5. f \in Call /\ f.at = "publish" /\ f.observed = call[p][t].observed /\ f.fresh = a
    BY <1>1 DEF Call, Typed
  <1> HIDE DEF e, f
  <1>6. /\ h2[a] = e /\ \A b \in Addrs \ {a} : h2[b] = h[b]
        /\ cl2[t] = f /\ \A u \in Threads \ {t} : cl2[u] = call[p][u]
        /\ call[p][t].fresh = Null
    BY <1>1, <1>2 DEF Typed, PInv, CallsInv
  <1>7. Typed(ptr, h2, cl2, n + 1, got[p], dropped[p])
    BY <1>1, <1>2, <1>4, <1>5, CellAssumption DEF Typed
  <1>8. \A b \in Addrs : h2[b] # Free => Born(h2[b].by)
    BY <1>1, <1>4, <1>6
  <1>9. Local(p, ptr, h2, cl2, n + 1, got[p], dropped[p])
    <2>1. /\ built' = [built EXCEPT ![p] = n + 1]
          /\ UNCHANGED <<processVars, pointer, got, dropped>>
      BY DEF BuildCell
    <2>2. heap' = [heap EXCEPT ![p] = h2] /\ call' = [call EXCEPT ![p] = cl2]
      BY <1>3 DEF f
    <2> HIDE DEF h2, cl2
    <2>3. QED
      BY <1>1, <1>8, <2>1, <2>2, ProcessFacts DEF Local, processVars
  <1> HIDE DEF h2, cl2, ptr, h, id, n
  <1>10. CellsInv(p, id, lineage[p], h2, n + 1)
    <2>1. \A b \in Addrs : h[b] # Free => h[b] # e
      BY <1>1, <1>2, <1>4 DEF PInv, CellsInv
    <2>2. \A b \in Addrs : h[b] # Free /\ h[b].by = p => h[b].n <= n + 1
      BY <1>1, <1>2 DEF PInv, CellsInv, Typed, Cell
    <2>3. QED
      BY <1>1, <1>2, <1>3, <1>4, <1>6, <2>1, <2>2 DEF PInv, CellsInv
  <1>11. PublishedInv(p, id, ptr, h2, n + 1, got[p], dropped[p])
    <2>1. ptr # Null => ptr # a /\ h2[ptr] = h[ptr]
      BY <1>1, <1>3, <1>6 DEF PInv, PublishedInv, Typed
    <2>2. \A c \in dropped[p] : c.n \in Nat /\ c.n <= n
      BY <1>1 DEF PInv, PublishedInv, Typed, Cell
    <2>3. e \notin dropped[p] /\ \A c \in dropped[p] : c.n <= n + 1
      BY <1>2, <1>4, <2>2
    <2>4. \A b \in Addrs : h2[b] \notin dropped[p]
      BY <1>1, <1>6, <2>3 DEF PInv, PublishedInv
    <2>5. QED
      BY <1>1, <2>1, <2>3, <2>4 DEF PInv, PublishedInv
  <1>12. CallsInv(p, id, ptr, h2, cl2)
    <2>1. \A u \in Threads : /\ call[p][u].observed # a
                             /\ call[p][u].fresh # a
                             /\ call[p][u].observed # Null => call[p][u].observed \in Addrs
      BY <1>1, <1>3, CellAssumption DEF PInv, CallsInv, Typed, Call
    <2>2. ptr # a /\ (ptr # Null => h2[ptr] = h[ptr])
      BY <1>1, <1>3, <1>6, CellAssumption DEF PInv, PublishedInv, Typed
    <2>3. CallsInv(p, id, ptr, h, call[p])
      BY <1>1 DEF PInv
    <2>4. ASSUME NEW u \in Threads \ {t}
          PROVE  /\ cl2[u].at \in {"absent", "out"} => cl2[u].observed = Null
                 /\ cl2[u].at # "publish" => cl2[u].fresh = Null
                 /\ cl2[u].observed # Null =>
                       h2[cl2[u].observed] # Free /\ h2[cl2[u].observed].owner # id
                 /\ cl2[u].at \in {"slow", "publish"} =>
                       cl2[u].observed = ptr \/ (ptr # Null /\ h2[ptr].owner = id)
                 /\ cl2[u].at = "publish" =>
                       /\ cl2[u].fresh \in Addrs /\ cl2[u].fresh # ptr
                       /\ h2[cl2[u].fresh] # Free /\ h2[cl2[u].fresh].by = p
                       /\ h2[cl2[u].fresh].owner = id
                       /\ \A v \in Threads \ {u} : cl2[v].fresh # cl2[u].fresh
      BY <1>5, <1>6, <2>1, <2>2, <2>3 DEF CallsInv
    <2>5. /\ cl2[t].observed # Null =>
                h2[cl2[t].observed] # Free /\ h2[cl2[t].observed].owner # id
          /\ cl2[t].observed = ptr \/ (ptr # Null /\ h2[ptr].owner = id)
          /\ cl2[t].at = "publish" /\ cl2[t].fresh \in Addrs /\ cl2[t].fresh # ptr
          /\ h2[cl2[t].fresh] # Free /\ h2[cl2[t].fresh].by = p
          /\ h2[cl2[t].fresh].owner = id
          /\ \A v \in Threads \ {t} : cl2[v].fresh # cl2[t].fresh
      BY <1>2, <1>4, <1>5, <1>6, <2>1, <2>2, <2>3 DEF CallsInv
    <2>6. QED
      BY <2>4, <2>5 DEF CallsInv
  <1>13. LeakInv(p, ptr, h2, cl2)
    <2> SUFFICES ASSUME NEW b \in Addrs, h2[b] # Free, h2[b].by = p, b # ptr
                 PROVE  \E u \in Threads : cl2[u].fresh = b
      BY DEF LeakInv
    <2>1. CASE b = a
      BY <1>5, <1>6, <2>1
    <2>2. CASE b # a
      <3>1. PICK u \in Threads : call[p][u].fresh = b
        BY <1>1, <1>6, <2>2 DEF PInv, LeakInv
      <3>2. u # t
        BY <1>6, <3>1, CellAssumption
      <3>3. QED
        BY <1>6, <3>1, <3>2
    <2>3. QED
      BY <2>1, <2>2
  <1>14. PInv(p, id, lineage[p], ptr, h2, cl2, n + 1, got[p], dropped[p])
    BY <1>10, <1>11, <1>12, <1>13 DEF PInv
  <1>15. QED
    BY <1>7, <1>9, <1>14, LocalInv DEF id

\* A cell that is published was its builder's alone until now.
LEMMA PublishInv ==
    ASSUME IInv, NEW p \in Procs, NEW t \in Threads, Publish(p, t)
    PROVE  IInv'
  <1> DEFINE ptr == pointer[p]
             h == heap[p]
             id == Current(p)
             n == built[p]
             a == call[p][t].fresh
             g == got[p] \cup {h[a]}
             cl2 == [call[p] EXCEPT ![t] = Outside]
  <1>1. /\ Typed(ptr, h, call[p], n, got[p], dropped[p])
        /\ PInv(p, id, lineage[p], ptr, h, call[p], n, got[p], dropped[p])
        /\ Alive(p) /\ Born(p)
        /\ \A b \in Addrs : h[b] # Free => Born(h[b].by)
    BY ProcessFacts DEF Publish
  <1>2. call[p][t].at = "publish" /\ ptr = call[p][t].observed
    BY DEF Publish, Exchanges
  <1>3. /\ a \in Addrs /\ a # ptr /\ h[a] # Free /\ h[a] \in Cell
        /\ h[a].by = p /\ h[a].owner = id
        /\ \A u \in Threads \ {t} : call[p][u].fresh # a
    BY <1>1, <1>2 DEF PInv, CallsInv, Typed
  <1>4. got[p] = {}
    BY <1>1, <1>2 DEF PInv, CallsInv, PublishedInv
  <1>5. /\ cl2[t] = Outside /\ \A u \in Threads \ {t} : cl2[u] = call[p][u]
    BY <1>1 DEF Typed
  <1>6. Typed(a, h, cl2, n, g, dropped[p])
    BY <1>1, <1>3, OutsideFacts DEF Typed
  <1>7. Local(p, a, h, cl2, n, g, dropped[p])
    BY <1>1, ProcessFacts DEF Local, Publish, Replaced, Return, processVars
  <1>8. PublishedInv(p, id, a, h, n, g, dropped[p])
    BY <1>1, <1>3, <1>4, CellAssumption DEF PInv, PublishedInv
  <1> HIDE DEF ptr, h, id, n, a, g, cl2
  <1>9. CallsInv(p, id, a, h, cl2)
    BY <1>1, <1>3, <1>5, OutsideFacts, CellAssumption DEF PInv, CallsInv
  <1>10. LeakInv(p, a, h, cl2)
    <2> SUFFICES ASSUME NEW b \in Addrs, h[b] # Free, h[b].by = p, b # a
                 PROVE  \E u \in Threads : cl2[u].fresh = b
      BY DEF LeakInv
    <2>1. b # ptr
      <3>1. h[b].owner = id
        BY <1>1 DEF PInv, CellsInv
      <3>2. QED
        BY <1>1, <1>2, <3>1, CellAssumption DEF PInv, CallsInv, ptr
    <2>2. PICK u \in Threads : call[p][u].fresh = b
      BY <1>1, <2>1 DEF PInv, LeakInv
    <2>3. u # t
      BY <2>2 DEF a
    <2>4. QED
      BY <1>5, <2>2, <2>3
  <1>11. PInv(p, id, lineage[p], a, h, cl2, n, g, dropped[p])
    BY <1>1, <1>8, <1>9, <1>10 DEF PInv
  <1>12. QED
    BY <1>6, <1>7, <1>11, LocalInv DEF id

\* A thread finds its exchange lost, frees its cell and takes the winner.
LEMMA LoseInv ==
    ASSUME IInv, NEW p \in Procs, NEW t \in Threads, Lose(p, t)
    PROVE  IInv'
  <1> DEFINE ptr == pointer[p]
             h == heap[p]
             id == Current(p)
             n == built[p]
             a == call[p][t].fresh
  <1>1. /\ Typed(ptr, h, call[p], n, got[p], dropped[p])
        /\ PInv(p, id, lineage[p], ptr, h, call[p], n, got[p], dropped[p])
        /\ Alive(p) /\ Born(p)
        /\ \A b \in Addrs : h[b] # Free => Born(h[b].by)
    BY ProcessFacts DEF Lose
  <1>2. call[p][t].at = "publish" /\ ptr # call[p][t].observed
    BY DEF Lose, Exchanges
  <1>3. /\ a \in Addrs /\ a # ptr /\ h[a] # Free /\ h[a] \in Cell
        /\ h[a].by = p /\ h[a].owner = id
        /\ \A u \in Threads \ {t} : call[p][u].fresh # a
    BY <1>1, <1>2 DEF PInv, CallsInv, Typed
  <1>4. Mine(p, ptr)
    BY <1>1, <1>2 DEF PInv, CallsInv, Mine
  <1> DEFINE g == got[p] \cup {h[ptr]}
             d == dropped[p] \cup {h[a]}
             h2 == [h EXCEPT ![a] = Free]
             cl2 == [call[p] EXCEPT ![t] = Outside]
  <1>5. /\ heap' = [heap EXCEPT ![p] = h2] /\ call' = [call EXCEPT ![p] = cl2]
        /\ got' = [got EXCEPT ![p] = g] /\ dropped' = [dropped EXCEPT ![p] = d]
        /\ UNCHANGED <<processVars, pointer, built>>
    BY <1>4 DEF Lose, Return, Discard
  <1>6. /\ h2[a] = Free /\ \A b \in Addrs \ {a} : h2[b] = h[b]
        /\ cl2[t] = Outside /\ \A u \in Threads \ {t} : cl2[u] = call[p][u]
    BY <1>1, <1>3 DEF Typed
  <1>7. ptr \in Addrs /\ h[ptr] # Free /\ h[ptr] \in Cell /\ h[ptr].owner = id
    BY <1>1, <1>4 DEF Typed, PInv, PublishedInv, Mine
  <1>8. Typed(ptr, h2, cl2, n, g, d)
    BY <1>1, <1>3, <1>7, OutsideFacts DEF Typed
  <1> HIDE DEF h2, cl2, g, d
  <1>9. \A b \in Addrs : h2[b] # Free => Born(h2[b].by)
    BY <1>1, <1>6
  <1>10. Local(p, ptr, h2, cl2, n, g, d)
    BY <1>1, <1>5, <1>9, ProcessFacts DEF Local, processVars
  <1> HIDE DEF ptr, h, id, n, a
  <1>11. CellsInv(p, id, lineage[p], h2, n)
    BY <1>1, <1>6 DEF PInv, CellsInv
  <1>12. PublishedInv(p, id, ptr, h2, n, g, d)
    <2>1. h2[ptr] = h[ptr] /\ ptr # Null
      BY <1>3, <1>6, <1>7, CellAssumption
    <2>2. \A c \in d : c.by = p /\ c.n <= n
      BY <1>1, <1>3 DEF PInv, PublishedInv, CellsInv, d
    <2>3. \A b \in Addrs \ {a} : h[b] # Free => h[b] # h[a]
      BY <1>1, <1>3 DEF PInv, CellsInv
    <2>4. \A b \in Addrs : h2[b] \notin d
      <3>1. Free \notin d
        BY <1>8, CellAssumption DEF Typed
      <3>2. ASSUME NEW b \in Addrs \ {a}, h[b] # Free PROVE h[b] \notin d
        BY <1>1, <2>3, <3>2 DEF PInv, PublishedInv, d
      <3>3. QED
        BY <1>6, <3>1, <3>2
    <2>5. \A c \in g : c = h2[ptr]
      BY <1>1, <2>1 DEF PInv, PublishedInv, g
    <2>6. QED
      BY <1>7, <2>1, <2>2, <2>4, <2>5 DEF PublishedInv
  <1>13. CallsInv(p, id, ptr, h2, cl2)
    <2>1. \A u \in Threads : /\ call[p][u].observed # a
                             /\ call[p][u].observed # Null => call[p][u].observed \in Addrs
      BY <1>1, <1>3, CellAssumption DEF PInv, CallsInv, Typed, Call
    <2>2. ptr # a
      BY <1>3
    <2>3. QED
      BY <1>1, <1>3, <1>6, <1>7, <2>1, <2>2, OutsideFacts, CellAssumption DEF PInv, CallsInv
  <1>14. LeakInv(p, ptr, h2, cl2)
    <2> SUFFICES ASSUME NEW b \in Addrs, h2[b] # Free, h2[b].by = p, b # ptr
                 PROVE  \E u \in Threads : cl2[u].fresh = b
      BY DEF LeakInv
    <2>1. b # a /\ h2[b] = h[b]
      BY <1>6
    <2>2. PICK u \in Threads : call[p][u].fresh = b
      BY <1>1, <2>1 DEF PInv, LeakInv
    <2>3. u # t
      BY <2>1, <2>2 DEF a
    <2>4. QED
      BY <1>6, <2>2, <2>3
  <1>15. PInv(p, id, lineage[p], ptr, h2, cl2, n, g, d)
    BY <1>11, <1>12, <1>13, <1>14 DEF PInv
  <1>16. QED
    BY <1>8, <1>10, <1>15, LocalInv DEF id

\* A thread that starts holds nothing.
LEMMA SpawnInv ==
    ASSUME IInv, NEW p \in Procs, NEW t \in Threads, NEW u \in Threads, Spawn(p, t, u)
    PROVE  IInv'
  <1> DEFINE ptr == pointer[p]
             h == heap[p]
             id == Current(p)
             cl2 == [call[p] EXCEPT ![u] = Outside]
  <1>1. /\ Typed(ptr, h, call[p], built[p], got[p], dropped[p])
        /\ PInv(p, id, lineage[p], ptr, h, call[p], built[p], got[p], dropped[p])
        /\ Alive(p) /\ Born(p)
    BY ProcessFacts DEF Spawn
  <1>2. /\ cl2[u] = Outside /\ \A v \in Threads \ {u} : cl2[v] = call[p][v]
        /\ call[p][u].fresh = Null
    BY <1>1 DEF Typed, Spawn, PInv, CallsInv
  <1>3. Typed(ptr, h, cl2, built[p], got[p], dropped[p])
    BY <1>1, OutsideFacts DEF Typed
  <1>4. Local(p, ptr, h, cl2, built[p], got[p], dropped[p])
    BY <1>1, ProcessFacts DEF Local, Spawn, processVars
  <1> HIDE DEF ptr, h, id, cl2
  <1>5. CallsInv(p, id, ptr, h, cl2)
    BY <1>1, <1>2, OutsideFacts, CellAssumption DEF PInv, CallsInv
  <1>6. LeakInv(p, ptr, h, cl2)
    BY <1>1, <1>2, LeakKept DEF PInv
  <1>7. PInv(p, id, lineage[p], ptr, h, cl2, built[p], got[p], dropped[p])
    BY <1>1, <1>5, <1>6 DEF PInv
  <1>8. QED
    BY <1>3, <1>4, <1>7, LocalInv DEF id

\* The child has a copy of its parent's cells, one thread, and nothing of its own.
LEMMA ForkInv ==
    ASSUME IInv, NEW p \in Procs, NEW t \in Threads, NEW c \in Procs, Fork(p, t, c)
    PROVE  IInv'
  <1> DEFINE cl == [u \in Threads |-> IF u = t THEN Outside ELSE Absent]
  <1>1. /\ ProcessInv' /\ p # c
        /\ lineage' = [lineage EXCEPT ![c] = lineage[p] \cup {Current(p)}]
        /\ \A q \in Procs \ {c} : Current(q)' = Current(q)
    BY ForkProcessInv, ProcessAssumption DEF IInv, Fork
  <1>2. /\ Born(p) /\ ~Born(c) /\ \A q \in Procs : Born(q)' <=> (Born(q) \/ q = c)
    BY <1>1 DEF Fork, ForkProcess, Alive, Born, IInv, ProcessInv, ProcessTypeOK
  <1>3. /\ Typed(pointer[p], heap[p], call[p], built[p], got[p], dropped[p])
        /\ PInv(p, Current(p), lineage[p], pointer[p], heap[p], call[p],
                built[p], got[p], dropped[p])
    BY ProcessFacts
  <1>4. cl \in [Threads -> Call] /\ \A u \in Threads : cl[u] \in {Outside, Absent}
    BY OutsideFacts
  <1>5. /\ pointer' = [pointer EXCEPT ![c] = pointer[p]]
        /\ heap' = [heap EXCEPT ![c] = heap[p]] /\ call' = [call EXCEPT ![c] = cl]
        /\ UNCHANGED <<built, got, dropped>>
    BY DEF Fork
  <1> HIDE DEF cl
  <1>6. TypeOK'
    BY <1>1, <1>3, <1>4, <1>5 DEF TypeOK, Typed, IInv, ProcessInv
  <1>7. /\ pointer'[c] = pointer[p] /\ heap'[c] = heap[p] /\ call'[c] = cl
        /\ built'[c] = built[c] /\ got'[c] = {} /\ dropped'[c] = {}
        /\ lineage'[c] = lineage[p] \cup {Current(p)}
    BY <1>1, <1>2, <1>5 DEF IInv, TypeOK, ProcessTypeOK, BornInv
  <1>8. \A q \in Procs \ {c} :
           /\ pointer'[q] = pointer[q] /\ heap'[q] = heap[q] /\ call'[q] = call[q]
           /\ built'[q] = built[q] /\ got'[q] = got[q] /\ dropped'[q] = dropped[q]
           /\ lineage'[q] = lineage[q]
    BY <1>1, <1>5 DEF IInv, TypeOK, ProcessTypeOK
  <1>9. \A a \in Addrs : heap[p][a] # Free =>
           Born(heap[p][a].by) /\ heap[p][a].by # c /\ heap[p][a] \in Cell
    BY <1>2, <1>3 DEF IInv, BornInv, Typed
  <1>10. BornInv'
    <2>1. \A q \in Procs, a \in Addrs : heap'[q][a] # Free => Born(heap'[q][a].by)
      BY <1>7, <1>8, <1>9 DEF IInv, BornInv
    <2>2. \A q \in Procs, a \in Addrs : heap'[q][a] # Free => heap'[q][a].by \in Procs
      BY <1>6 DEF TypeOK, Cell
    <2>3. \A q \in Procs, a \in Addrs : heap'[q][a] # Free => status'[heap'[q][a].by] # "unborn"
      BY <1>2, <2>1, <2>2 DEF Born
    <2>4. ASSUME NEW q \in Procs, ~Born(q)'
          PROVE  pointer'[q] = Null /\ got'[q] = {} /\ dropped'[q] = {}
      <3>1. ~Born(q) /\ q # c
        BY <1>2, <2>4
      <3>2. QED
        BY <1>8, <3>1 DEF IInv, BornInv
    <2>5. QED
      BY <2>3, <2>4 DEF BornInv, Born
  <1>11. PInv(c, Current(c)', lineage'[c], pointer[p], heap[p], cl, built[c], {}, {})
    <2>1. IdentityAssumption => Current(c)' \notin lineage'[c]
      <3>1. (ProcessInv => (IdentityAssumption => IdentityTellsApart))'
        BY TellsApartAlways, PTL
      <3>2. QED
        BY <1>1, <3>1 DEF IdentityTellsApart
    <2>2. CellsInv(c, Current(c)', lineage'[c], heap[p], built[c])
      BY <1>3, <1>7, <1>9, <2>1 DEF PInv, CellsInv
    <2>3. PublishedInv(c, Current(c)', pointer[p], heap[p], built[c], {}, {})
      BY <1>3 DEF PInv, PublishedInv
    <2>4. CallsInv(c, Current(c)', pointer[p], heap[p], cl)
      BY <1>4, OutsideFacts DEF CallsInv
    <2>5. LeakInv(c, pointer[p], heap[p], cl)
      BY <1>9 DEF LeakInv
    <2>6. QED
      BY <2>2, <2>3, <2>4, <2>5 DEF PInv
  <1>12. \A q \in Procs : PInv(q, Current(q)', lineage'[q], pointer'[q], heap'[q], call'[q],
                               built'[q], got'[q], dropped'[q])
    <2>1. ASSUME NEW q \in Procs, q # c
          PROVE  /\ Current(q)' = Current(q) /\ lineage'[q] = lineage[q]
                 /\ pointer'[q] = pointer[q] /\ heap'[q] = heap[q] /\ call'[q] = call[q]
                 /\ built'[q] = built[q] /\ got'[q] = got[q] /\ dropped'[q] = dropped[q]
      BY <1>1, <1>7, <1>8, <2>1
    <2>2. QED
      BY <1>7, <1>8, <1>11, <2>1 DEF IInv
  <1>13. (\A q \in Procs : PInv(q, Current(q), lineage[q], pointer[q], heap[q], call[q],
                               built[q], got[q], dropped[q]))'
    BY <1>12 DEF PInv, CellsInv, PublishedInv, CallsInv, LeakInv
  <1>14. QED
    BY <1>1, <1>6, <1>10, <1>13 DEF IInv

\* A step that leaves every cell and call alone.
LEMMA QuietInv ==
    ASSUME IInv, ProcessInv', UNCHANGED cellVars, lineage' = lineage,
           \A q \in Procs : Current(q)' = Current(q) /\ (Born(q)' <=> Born(q))
    PROVE  IInv'
  <1>1. UNCHANGED <<pointer, heap, call, built, got, dropped>>
    BY DEF cellVars
  <1>2. TypeOK'
    BY <1>1 DEF IInv, TypeOK, ProcessInv
  <1>3. \A q \in Procs, a \in Addrs : heap[q][a] # Free => heap[q][a].by \in Procs
    BY DEF IInv, TypeOK, Cell
  <1>4. BornInv'
    BY <1>1, <1>3 DEF IInv, BornInv, Born
  <1>5. \A q \in Procs : PInv(q, Current(q)', lineage'[q], pointer'[q], heap'[q], call'[q],
                              built'[q], got'[q], dropped'[q])
    BY <1>1 DEF IInv
  <1>6. (\A q \in Procs : PInv(q, Current(q), lineage[q], pointer[q], heap[q], call[q],
                               built[q], got[q], dropped[q]))'
    BY <1>5 DEF PInv, CellsInv, PublishedInv, CallsInv, LeakInv
  <1>7. QED
    BY <1>2, <1>4, <1>6 DEF IInv

LEMMA ExitInv ==
    ASSUME IInv, NEW p \in Procs, Exit(p)
    PROVE  IInv'
  <1>1. /\ ProcessInv' /\ lineage' = lineage
        /\ \A q \in Procs : Current(q)' = Current(q)
    BY ExitProcessInv, ProcessAssumption DEF IInv, Exit
  <1>2. \A q \in Procs : Born(q)' <=> Born(q)
    BY DEF Exit, ExitProcess, Alive, Born, IInv, ProcessInv, ProcessTypeOK
  <1>3. QED
    BY <1>1, <1>2, QuietInv DEF Exit

--------------------------------------------------------------------------------
(* The invariant is inductive, and what follows from it.                   *)

LEMMA InitInv ==
    ASSUME Init
    PROVE  IInv
  <1>1. ProcessInv
    BY ProcessInitInv, ProcessAssumption DEF Init
  <1>2. /\ pointer = [p \in Procs |-> Null] /\ heap = [p \in Procs |-> [a \in Addrs |-> Free]]
        /\ call = [p \in Procs |-> [t \in Threads |-> IF p = Root THEN Outside ELSE Absent]]
        /\ built = [p \in Procs |-> 0]
        /\ got = [p \in Procs |-> {}] /\ dropped = [p \in Procs |-> {}]
    BY DEF Init
  <1>3. TypeOK
    BY <1>1, <1>2, OutsideFacts, CellAssumption DEF TypeOK, ProcessInv
  <1>4. BornInv
    BY <1>2 DEF BornInv
  <1>5. ASSUME NEW p \in Procs
        PROVE  PInv(p, Current(p), lineage[p], pointer[p], heap[p], call[p],
                    built[p], got[p], dropped[p])
    BY <1>2, OutsideFacts DEF PInv, CellsInv, PublishedInv, CallsInv, LeakInv
  <1>6. QED
    BY <1>1, <1>3, <1>4, <1>5 DEF IInv

LEMMA NextInv ==
    ASSUME IInv, [Next]_vars
    PROVE  IInv'
  <1>1. CASE UNCHANGED vars
    <2>1. /\ ProcessInv' /\ lineage' = lineage
          /\ \A q \in Procs : Current(q)' = Current(q)
      BY <1>1, ProcessStutterInv, ProcessAssumption DEF IInv, vars
    <2>2. UNCHANGED cellVars /\ \A q \in Procs : Born(q)' <=> Born(q)
      BY <1>1 DEF vars, processVars, Born
    <2>3. QED
      BY <2>1, <2>2, QuietInv
  <1>2. ASSUME NEW p \in Procs, NEW t \in Threads,
               \/ Enter(p, t) \/ Proceed(p, t)
               \/ \E c \in Procs : Fork(p, t, c)
               \/ \E u \in Threads : Spawn(p, t, u)
        PROVE  IInv'
    BY <1>2, EnterInv, BuildCellInv, PublishInv, LoseInv, ForkInv, SpawnInv DEF Proceed
  <1>3. QED
    BY <1>1, <1>2, ExitInv DEF Next

\* The invariant holds in every state the system reaches.
THEOREM Invariant == Spec => []IInv
  <1>1. Init => IInv
    BY InitInv
  <1>2. IInv /\ [Next]_vars => IInv'
    BY NextInv
  <1>3. QED
    BY <1>1, <1>2, PTL DEF Spec

\* Type correctness.
THEOREM TypeCorrect == Spec => []TypeOK
  <1>1. IInv => TypeOK
    BY DEF IInv
  <1>2. QED
    BY <1>1, Invariant, PTL

\* runtime() returns only runtimes this process built.
THEOREM OwnRuntimeSound ==
    ASSUME IdentityAssumption PROVE Spec => []OwnRuntime
  <1>1. ASSUME IInv PROVE OwnRuntime
    <2> SUFFICES ASSUME NEW p \in Procs, NEW c \in got[p] PROVE c.by = p
      BY DEF OwnRuntime
    <2>1. PInv(p, Current(p), lineage[p], pointer[p], heap[p], call[p],
               built[p], got[p], dropped[p]) /\ pointer[p] \in Addrs \cup {Null}
      BY <1>1 DEF IInv, TypeOK
    <2>2. pointer[p] \in Addrs /\ heap[p][pointer[p]] # Free
          /\ c = heap[p][pointer[p]] /\ c.owner = Current(p)
      BY <2>1 DEF PInv, PublishedInv
    <2>3. QED
      BY <2>1, <2>2 DEF PInv, CellsInv
  <1>2. QED
    BY <1>1, Invariant, PTL

\* All threads of a process are given the same runtime.
THEOREM OneRuntimeSound == Spec => []OneRuntime
  <1>1. ASSUME IInv PROVE OneRuntime
    <2> SUFFICES ASSUME NEW p \in Procs PROVE Cardinality(got[p]) <= 1
      BY DEF OneRuntime
    <2>1. \A c \in got[p] : c = heap[p][pointer[p]]
      BY <1>1 DEF IInv, PInv, PublishedInv
    <2>2. CASE got[p] = {}
      BY <2>2, FS_EmptySet
    <2>3. CASE got[p] # {}
      <3>1. got[p] = {heap[p][pointer[p]]}
        BY <2>1, <2>3
      <3>2. QED
        <4>1. Cardinality({heap[p][pointer[p]]}) = 1
          BY FS_Singleton
        <4>2. QED
          BY <3>1, <4>1
    <2>4. QED
      BY <2>2, <2>3
  <1>2. QED
    BY <1>1, Invariant, PTL

\* Neither RUNTIME nor what a thread saw there ever dangles.
THEOREM NoDanglingSound == Spec => []NoDangling
  <1>1. ASSUME IInv PROVE NoDangling
    <2>1. ASSUME NEW p \in Procs
          PROVE  /\ PublishedInv(p, Current(p), pointer[p], heap[p], built[p], got[p], dropped[p])
                 /\ CallsInv(p, Current(p), pointer[p], heap[p], call[p])
      BY <1>1 DEF IInv, PInv
    <2>2. \A p \in Procs : pointer[p] # Null => heap[p][pointer[p]] # Free
      BY <2>1 DEF PublishedInv
    <2>3. \A p \in Procs : \A t \in Threads :
             call[p][t].observed # Null => heap[p][call[p][t].observed] # Free
      BY <2>1 DEF CallsInv
    <2>4. QED
      BY <2>2, <2>3 DEF NoDangling
  <1>2. QED
    BY <1>1, Invariant, PTL

\* Cells destroyed were built here and given to nobody.
THEOREM DropsSound == Spec => []DropsOwnUnpublished
  <1>1. ASSUME IInv PROVE DropsOwnUnpublished
    <2> SUFFICES ASSUME NEW p \in Procs, NEW c \in dropped[p] PROVE c.by = p /\ c \notin got[p]
      BY DEF DropsOwnUnpublished
    <2>1. PublishedInv(p, Current(p), pointer[p], heap[p], built[p], got[p], dropped[p])
          /\ pointer[p] \in Addrs \cup {Null}
      BY <1>1 DEF IInv, PInv, TypeOK
    <2>2. QED
      BY <2>1 DEF PublishedInv
  <1>2. QED
    BY <1>1, Invariant, PTL

\* A process keeps no cell but the published one and those being published.
THEOREM LeakSound == Spec => []LeakBounded
  <1>1. ASSUME IInv PROVE LeakBounded
    BY <1>1 DEF IInv, PInv, LeakInv, LeakBounded, CellsOf
  <1>2. QED
    BY <1>1, Invariant, PTL

\* The compare-exchange fails only because another thread of this process has
\* published, so that no thread goes round the loop twice.
ExchangeFailsOnce ==
    \A p \in Procs, t \in Threads :
        call[p][t].at = "publish" /\ ~Exchanges(p, t) => Mine(p, pointer[p])

THEOREM ExchangeSound == Spec => []ExchangeFailsOnce
  <1>1. ASSUME IInv PROVE ExchangeFailsOnce
    BY <1>1 DEF IInv, PInv, CallsInv, ExchangeFailsOnce, Exchanges, Mine
  <1>2. QED
    BY <1>1, Invariant, PTL

\* A published runtime stays where it is, whatever the other threads do.
THEOREM PublishedSound == Spec => PublishedStays
  <1> DEFINE Kept == \A p \in Procs :
                Mine(p, pointer[p]) =>
                   pointer'[p] = pointer[p] /\ heap'[p][pointer[p]] = heap[p][pointer[p]]
  <1>1. ASSUME IInv, [Next]_vars PROVE [Kept]_vars
    <2>1. CASE UNCHANGED vars
      BY <2>1
    <2>2. ASSUME NEW p \in Procs, NEW q \in Procs, NEW t \in Threads, Mine(p, pointer[p]),
                 \/ Enter(q, t) \/ Proceed(q, t)
                 \/ \E c \in Procs : Fork(q, t, c)
                 \/ \E u \in Threads : Spawn(q, t, u)
          PROVE  pointer'[p] = pointer[p] /\ heap'[p][pointer[p]] = heap[p][pointer[p]]
      <3>1. /\ Typed(pointer[p], heap[p], call[p], built[p], got[p], dropped[p])
            /\ PInv(p, Current(p), lineage[p], pointer[p], heap[p], call[p],
                    built[p], got[p], dropped[p])
            /\ pointer[p] # Null /\ heap[p][pointer[p]] # Free
            /\ heap[p][pointer[p]].owner = Current(p) /\ pointer[p] \in Addrs
        BY <1>1, <2>2, ProcessFacts DEF Mine, PInv, PublishedInv, Typed
      <3>2. CASE Enter(q, t) \/ \E u \in Threads : Spawn(q, t, u)
        BY <3>2 DEF Enter, Spawn
      <3>3. CASE BuildCell(q, t)
        BY <1>1, <3>1, <3>3 DEF BuildCell, IInv, TypeOK
      <3>4. CASE Publish(q, t)
        <4>1. q # p
          BY <3>1, <3>4 DEF Publish, Exchanges, PInv, CallsInv
        <4>2. QED
          BY <1>1, <3>4, <4>1 DEF Publish, Replaced, IInv, TypeOK
      <3>5. CASE Lose(q, t)
        <4>1. UNCHANGED pointer
          BY <3>5 DEF Lose
        <4>2. heap' = heap \/ heap' = [heap EXCEPT ![q][call[q][t].fresh] = Free]
          BY <3>5 DEF Lose, Discard
        <4>3. q = p => call[p][t].fresh # pointer[p] /\ call[p][t].fresh \in Addrs
          BY <3>1, <3>5 DEF Lose, PInv, CallsInv
        <4>4. QED
          BY <1>1, <3>1, <4>1, <4>2, <4>3 DEF IInv, TypeOK
      <3>6. CASE \E c \in Procs : Fork(q, t, c)
        <4>1. PICK c \in Procs : Fork(q, t, c)
          BY <3>6
        <4>2. c # p
          BY <1>1, <3>1, <4>1 DEF Fork, ForkProcess, Born, IInv, BornInv
        <4>3. QED
          BY <1>1, <3>1, <4>1, <4>2 DEF Fork, IInv, TypeOK
      <3>7. QED
        BY <2>2, <3>2, <3>3, <3>4, <3>5, <3>6 DEF Proceed
    <2>3. ASSUME NEW q \in Procs, Exit(q) PROVE Kept
      BY <2>3 DEF Exit, cellVars
    <2>4. QED
      BY <1>1, <2>1, <2>2, <2>3 DEF Next
  <1>2. QED
    BY <1>1, Invariant, PTL DEF Spec, PublishedStays

--------------------------------------------------------------------------------
(* RuntimeCell implements OncePerProcess.                                  *)

\* A process whose pointer, cell and identity stay has the runtime it had.
LEMMA PublishedInStays ==
    ASSUME IInv, NEW p \in Procs, pointer'[p] = pointer[p], Current(p)' = Current(p),
           pointer[p] # Null => heap'[p][pointer[p]] = heap[p][pointer[p]]
    PROVE  PublishedIn(p)' = PublishedIn(p)
  BY DEF PublishedIn

\* A step that publishes nothing and answers nobody is none of OncePerProcess, and
\* one that answers one process is one of its steps.
LEMMA AnswerMaps ==
    ASSUME IInv, NEW p \in Procs,
           \A q \in Procs : PublishedIn(q)' = PublishedIn(q),
           got' = got \/ (/\ PublishedIn(p) # Free
                          /\ got' = [got EXCEPT ![p] = @ \cup {PublishedIn(p)}])
    PROVE  [Once!Next]_(Once!vars)
  <1> DEFINE r == [q \in Procs |-> PublishedIn(q)]
  <1>1. r' = r
    OBVIOUS
  <1>2. CASE got' = got
    BY <1>1, <1>2 DEF Once!vars
  <1>3. CASE /\ PublishedIn(p) # Free
             /\ got' = [got EXCEPT ![p] = @ \cup {PublishedIn(p)}]
    <2>1. Once!Answer(p)
      BY <1>1, <1>3 DEF Once!Answer
    <2>2. QED
      BY <2>1 DEF Once!Next
  <1>4. QED
    BY <1>2, <1>3

LEMMA PublishMaps ==
    ASSUME IInv, NEW p \in Procs, NEW t \in Threads, Publish(p, t)
    PROVE  Once!Next
  <1> DEFINE r == [q \in Procs |-> PublishedIn(q)]
             a == call[p][t].fresh
  <1>1. /\ PInv(p, Current(p), lineage[p], pointer[p], heap[p], call[p],
                built[p], got[p], dropped[p])
        /\ Typed(pointer[p], heap[p], call[p], built[p], got[p], dropped[p])
    BY ProcessFacts
  <1>2. /\ a \in Addrs /\ heap[p][a] \in Cell
        /\ heap[p][a].by = p /\ heap[p][a].owner = Current(p)
    BY <1>1 DEF Publish, PInv, CallsInv, Typed
  <1>3. PublishedIn(p) = Free
    BY <1>1 DEF Publish, Exchanges, PInv, CallsInv, PublishedIn
  <1>4. \A q \in Procs : Current(q)' = Current(q)
    BY DEF Publish, processVars, Current
  <1>5. /\ pointer'[p] = a /\ heap'[p] = heap[p]
        /\ \A q \in Procs \ {p} : pointer'[q] = pointer[q] /\ heap'[q] = heap[q]
        /\ got' = [got EXCEPT ![p] = @ \cup {heap[p][a]}]
    BY DEF Publish, Replaced, Return, IInv, TypeOK
  <1>6. PublishedIn(p)' = heap[p][a]
    BY <1>2, <1>4, <1>5, CellAssumption DEF PublishedIn
  <1>7. \A q \in Procs \ {p} : PublishedIn(q)' = PublishedIn(q)
    BY <1>4, <1>5 DEF PublishedIn
  <1>8. heap[p][a] \in BuildableIn(p)
    <2>1. Current(p) \in [pid: Pids, generation: 0..MaxGeneration]
      BY DEF Current, IInv, TypeOK, ProcessTypeOK
    <2>2. QED
      BY <1>2, <2>1 DEF BuildableIn, Cell
  <1>9. r' = [r EXCEPT ![p] = heap[p][a]]
    BY <1>6, <1>7
  <1>10. Once!Build(p)
    BY <1>3, <1>5, <1>8, <1>9 DEF Once!Build
  <1>11. QED
    BY <1>10 DEF Once!Next

\* The child's copy of a published cell is not its runtime.
LEMMA ForkMaps ==
    ASSUME IdentityAssumption, IInv, IInv', NEW p \in Procs, NEW t \in Threads,
           NEW c \in Procs, Fork(p, t, c)
    PROVE  \A q \in Procs : PublishedIn(q)' = PublishedIn(q)
  <1>1. /\ ~Born(c) /\ Born(p)
        /\ \A q \in Procs \ {c} : Current(q)' = Current(q)
    BY DEF Fork, ForkProcess, Born, Alive, Current, IInv, TypeOK, ProcessTypeOK
  <1>2. /\ pointer'[c] = pointer[p] /\ heap'[c] = heap[p]
        /\ \A q \in Procs \ {c} : pointer'[q] = pointer[q] /\ heap'[q] = heap[q]
    BY DEF Fork, IInv, TypeOK
  <1>3. PublishedIn(c) = Free
    BY <1>1 DEF IInv, BornInv, PublishedIn
  <1>4. PublishedIn(c)' = Free
    <2> SUFFICES ASSUME pointer[p] # Null, heap[p][pointer[p]].owner = Current(c)'
                 PROVE  FALSE
      BY <1>2 DEF PublishedIn
    <2>1. /\ pointer[p] \in Addrs /\ heap[p][pointer[p]] # Free
          /\ heap[p][pointer[p]].by # c
      BY <1>1, ProcessFacts DEF Typed, PInv, PublishedInv
    <2>2. PInv(c, Current(c)', lineage'[c], pointer'[c], heap'[c], call'[c],
               built'[c], got'[c], dropped'[c])
      BY DEF IInv, PInv, CellsInv, PublishedInv, CallsInv, LeakInv
    <2>3. heap[p][pointer[p]].by = c
      BY <1>2, <2>1, <2>2 DEF PInv, CellsInv
    <2>4. QED
      BY <2>1, <2>3
  <1>5. \A q \in Procs \ {c} : PublishedIn(q)' = PublishedIn(q)
    BY <1>1, <1>2 DEF PublishedIn
  <1>6. QED
    BY <1>3, <1>4, <1>5

\* Every other step of a thread answers one process at most, with its runtime.
LEMMA ThreadMaps ==
    ASSUME IInv, NEW p \in Procs, NEW t \in Threads,
           Enter(p, t) \/ BuildCell(p, t) \/ Lose(p, t) \/ \E u \in Threads : Spawn(p, t, u)
    PROVE  [Once!Next]_(Once!vars)
  <1>1. /\ PInv(p, Current(p), lineage[p], pointer[p], heap[p], call[p],
                built[p], got[p], dropped[p])
        /\ Typed(pointer[p], heap[p], call[p], built[p], got[p], dropped[p])
    BY ProcessFacts
  <1>2. UNCHANGED <<pointer, processVars>> /\ \A q \in Procs : Current(q)' = Current(q)
    BY DEF Enter, BuildCell, Lose, Spawn, processVars, Current
  <1>3. \A q \in Procs : pointer[q] # Null => heap'[q][pointer[q]] = heap[q][pointer[q]]
    <2>1. CASE Enter(p, t) \/ \E u \in Threads : Spawn(p, t, u)
      BY <2>1 DEF Enter, Spawn
    <2>2. CASE BuildCell(p, t)
      <3>1. \A q \in Procs : pointer[q] # Null => heap[q][pointer[q]] # Free /\ pointer[q] \in Addrs
        BY DEF IInv, PInv, PublishedInv, TypeOK
      <3>2. QED
        BY <2>2, <3>1 DEF BuildCell, IInv, TypeOK
    <2>3. CASE Lose(p, t)
      <3>1. heap' = heap \/ heap' = [heap EXCEPT ![p][call[p][t].fresh] = Free]
        BY <2>3 DEF Lose, Discard
      <3>2. call[p][t].fresh # pointer[p]
        BY <1>1, <2>3 DEF Lose, PInv, CallsInv
      <3>3. heap \in [Procs -> [Addrs -> Cell \cup {Free}]] /\ pointer \in [Procs -> Addrs \cup {Null}]
        BY DEF IInv, TypeOK
      <3>4. QED
        BY <3>1, <3>2, <3>3
    <2>4. QED
      BY <2>1, <2>2, <2>3
  <1>4. \A q \in Procs : PublishedIn(q)' = PublishedIn(q)
    BY <1>2, <1>3, PublishedInStays
  <1>5. got' = got \/ (/\ PublishedIn(p) # Free
                       /\ got' = [got EXCEPT ![p] = @ \cup {PublishedIn(p)}])
    <2>1. ASSUME Mine(p, pointer[p]), got' = [got EXCEPT ![p] = @ \cup {heap[p][pointer[p]]}]
          PROVE  /\ PublishedIn(p) # Free
                 /\ got' = [got EXCEPT ![p] = @ \cup {PublishedIn(p)}]
      <3>1. PublishedIn(p) = heap[p][pointer[p]]
        BY <2>1 DEF Mine, PublishedIn
      <3>2. heap[p][pointer[p]] # Free
        BY <1>1, <2>1 DEF Mine, PInv, PublishedInv, Typed
      <3>3. QED
        BY <2>1, <3>1, <3>2
    <2>2. QED
      BY <2>1 DEF Enter, BuildCell, Lose, Spawn, Return
  <1>6. QED
    BY <1>4, <1>5, AnswerMaps

LEMMA StepMaps ==
    ASSUME IdentityAssumption, IInv, IInv', [Next]_vars
    PROVE  [Once!Next]_(Once!vars)
  <1>1. CASE UNCHANGED vars
    <2>1. \A q \in Procs : PublishedIn(q)' = PublishedIn(q)
      BY <1>1 DEF vars, cellVars, processVars, PublishedIn, Current
    <2>2. QED
      BY <1>1, <2>1 DEF vars, cellVars, Once!vars
  <1>2. ASSUME NEW p \in Procs, Exit(p)
        PROVE  [Once!Next]_(Once!vars)
    <2>1. \A q \in Procs : PublishedIn(q)' = PublishedIn(q)
      BY <1>2 DEF Exit, ExitProcess, cellVars, PublishedIn, Current
    <2>2. QED
      BY <1>2, <2>1 DEF Exit, cellVars, Once!vars
  <1>3. ASSUME NEW p \in Procs, NEW t \in Threads, NEW c \in Procs, Fork(p, t, c)
        PROVE  [Once!Next]_(Once!vars)
    <2>1. \A q \in Procs : PublishedIn(q)' = PublishedIn(q)
      BY <1>3, ForkMaps
    <2>2. got' = got
      BY <1>3 DEF Fork
    <2>3. QED
      BY <2>1, <2>2 DEF Once!vars
  <1>4. QED
    BY <1>1, <1>2, <1>3, PublishMaps, ThreadMaps DEF Next, Proceed

\* The lock-free runtime() implements one runtime per process.
THEOREM OnceImplemented ==
    ASSUME IdentityAssumption PROVE Spec => ImplementsOnce
  <1>1. Init => Once!Init
    <2> SUFFICES ASSUME Init PROVE Once!Init
      OBVIOUS
    <2>1. \A p \in Procs : PublishedIn(p) = Free
      BY DEF Init, PublishedIn
    <2>2. QED
      BY <2>1 DEF Init, Once!Init
  <1>2. IInv /\ IInv' /\ [Next]_vars => [Once!Next]_(Once!vars)
    BY StepMaps
  <1>3. QED
    BY <1>1, <1>2, Invariant, PTL DEF Spec, ImplementsOnce, Once!Spec

================================================================================
