---------------------- MODULE HeartbeatNestWorkProofs -----------------------
(***************************************************************************)
(* Proofs about the work of HeartbeatNest: who is to run an iteration and  *)
(* who is in the middle of one, from which it follows that a promotion     *)
(* loses nothing; and about its values: what the slices and the branches   *)
(* reduce to, which completes the inductive invariant, and that the nest   *)
(* implements the parallel nest.                                           *)
(***************************************************************************)
EXTENDS HeartbeatNestProofs, SequenceTheorems, WellFoundedInduction

\* The iterations of a row.
Indices(row) == Bounds[row].first .. Bounds[row].last - 1

LEMMA RowFacts ==
  ASSUME NEW row \in DOMAIN Bounds
  PROVE  /\ row \in Seq(Nat) /\ Len(row) \in Nat
         /\ Bounds[row].first \in Nat /\ Bounds[row].last \in Nat
         /\ row # <<>> => row \in Outer /\ row \in Iterations /\ Len(row) <= Leaf
  BY NestAssumption DEF Outer

LEMMA IterationFacts ==
  ASSUME NEW row \in DOMAIN Bounds, NEW i \in Indices(row)
  PROVE  /\ i \in Nat
         /\ Append(row, i) \in Iterations /\ Append(row, i) # <<>>
         /\ Len(Append(row, i)) = Len(row) + 1
         /\ Len(row) < Leaf => Append(row, i) \in Outer
<1>1. row \in Seq(Nat) /\ Len(row) \in Nat /\ Bounds[row].first \in Nat /\ Bounds[row].last \in Nat
  BY RowFacts
<1>2. i \in Nat
  BY <1>1 DEF Indices
<1>3. Len(Append(row, i)) = Len(row) + 1 /\ Append(row, i) # <<>>
  BY <1>1, <1>2
<1>4. Append(row, i) \in Iterations
  BY DEF Iterations, Calls, Indices
<1>5. Len(row) < Leaf => Len(Append(row, i)) <= Leaf
  BY <1>1, <1>3, LevelFacts
<1>6. Len(row) < Leaf => Append(row, i) \in Outer
  BY <1>3, <1>4, <1>5, NestAssumption DEF Outer
<1> QED BY <1>2, <1>3, <1>4, <1>6

\* An iteration belongs to one row.
LEMMA RowOfIteration ==
  ASSUME NEW c \in Iterations
  PROVE  \E row \in DOMAIN Bounds : \E i \in Indices(row) : c = Append(row, i)
  BY DEF Iterations, Calls, Indices

LEMMA SameIteration ==
  ASSUME NEW r \in Seq(Nat), NEW s \in Seq(Nat), NEW i \in Nat, NEW j \in Nat,
         Append(r, i) = Append(s, j)
  PROVE  r = s /\ i = j
BY AppendInjective

LEMMA AppendEntries ==
  ASSUME NEW r \in Seq(Nat), NEW x
  PROVE  /\ Len(Append(r, x)) = Len(r) + 1 /\ Len(r) \in Nat
         /\ \A k \in 1 .. Len(r) : Append(r, x)[k] = r[k]
<1>1. ASSUME NEW k \in 1 .. Len(r) PROVE Append(r, x)[k] = r[k]
  OBVIOUS
<1> QED BY <1>1

LEMMA SameRow ==
  ASSUME NEW r \in Seq(Nat), NEW s \in Seq(Nat), NEW i, NEW j, Append(r, i) = Append(s, j)
  PROVE  r = s
<1>1. PICK a : a = Append(r, i) /\ a = Append(s, j)
  OBVIOUS
<1>2. Len(a) = Len(r) + 1 /\ Len(r) \in Nat /\ \A k \in 1 .. Len(r) : a[k] = r[k]
  <2>1. /\ Len(Append(r, i)) = Len(r) + 1 /\ Len(r) \in Nat
        /\ \A k \in 1 .. Len(r) : Append(r, i)[k] = r[k]
    BY AppendEntries
  <2> QED BY <1>1, <2>1, Zenon
<1>3. Len(a) = Len(s) + 1 /\ Len(s) \in Nat /\ \A k \in 1 .. Len(s) : a[k] = s[k]
  <2>1. /\ Len(Append(s, j)) = Len(s) + 1 /\ Len(s) \in Nat
        /\ \A k \in 1 .. Len(s) : Append(s, j)[k] = s[k]
    BY AppendEntries
  <2> QED BY <1>1, <2>1, Zenon
<1>4. Len(r) = Len(s)
  BY <1>2, <1>3
<1>5. \A k \in 1 .. Len(r) : r[k] = s[k]
  BY <1>2, <1>3, <1>4
<1> QED BY <1>4, <1>5, SeqEqual

\* A level on which a task holds work can be read.
LEMMA WorkLevel ==
  ASSUME MemoryInv, NEW t \in DOMAIN pc, pc[t] # "done", ~Forked(t),
         NEW l \in until[t] .. top[t], l = top[t] => pc[t] # "exit"
  PROVE  /\ l \in Level /\ l \in Nat /\ ReadableAt(t, l) /\ Given(t) = Leaf + 1
         /\ l < top[t] \/ pc[t] = "back" => SuspendedAt(t, l)
         /\ pc[t] # "join"
<1>1. /\ TopOK(t) /\ LevelsOK(t) /\ CodeOK(t) /\ TaskOK(t)
      /\ Given(t) = Leaf + 1 /\ top[t] \in Nat /\ until[t] \in Nat /\ top[t] <= Leaf
  BY OwnFacts, GivenFacts
<1>2. l \in Nat /\ l <= top[t] /\ l \in Level /\ l < Given(t)
  BY <1>1, LevelFacts
<1>3. pc[t] # "join"
  BY <1>1 DEF CodeOK
<1>4. ASSUME l < top[t] \/ pc[t] = "back" PROVE SuspendedAt(t, l)
  <2>1. l \in Suspended(t)
    BY <1>1, <1>2, <1>4 DEF Suspended
  <2> QED BY <1>1, <2>1 DEF LevelsOK
<1>5. ReadableAt(t, l)
  <2>1. CASE l < top[t] \/ pc[t] = "back"
    BY <1>4, <2>1 DEF SuspendedAt
  <2>2. CASE ~(l < top[t] \/ pc[t] = "back")
    <3>1. l = top[t] /\ pc[t] \in {"start", "enter", "header", "poll"}
      BY <1>1, <1>2, <1>3, <2>2 DEF TaskOK, Labels
    <3> QED BY <1>1, <3>1 DEF TopOK
  <2> QED BY <2>1, <2>2
<1> QED BY <1>1, <1>2, <1>3, <1>4, <1>5

\* Task v holds the same iterations after the step.
HoldsKept(v) ==
  \A row \in DOMAIN Bounds : \A i \in Indices(row) : Holds(v, row, i)' <=> Holds(v, row, i)

\* Task v is in the middle of the same iterations after the step.
EnteredKept(v) ==
  /\ EnteredLevels(v)' = EnteredLevels(v)
  /\ \A l \in EnteredLevels(v) :
       /\ frame'[v][l].row = frame[v][l].row /\ frame'[v][l].iv = frame[v][l].iv
       /\ array'[<<v, l>>].live = array[<<v, l>>].live

LEMMA EnteredSame ==
  ASSUME NEW v, EnteredKept(v)
  PROVE  Entered(v)' = Entered(v)
<1>1. \A l \in EnteredLevels(v) : EnteredAt(v, l)' = EnteredAt(v, l)
  BY DEF EnteredKept, EnteredAt
<1>2. EnteredLevels(v)' = EnteredLevels(v)
  BY DEF EnteredKept
<1>3. Entered(v) = {EnteredAt(v, l) : l \in EnteredLevels(v)}
  BY DEF Entered
<1>4. Entered(v)' = {EnteredAt(v, l)' : l \in EnteredLevels(v)'}
  BY DEF Entered
<1> QED BY <1>1, <1>2, <1>3, <1>4

\* The work of a task is not touched by the steps of others.
LEMMA OthersHold ==
  ASSUME MemoryInv, NEW v \in DOMAIN pc,
         pc'[v] = pc[v], base'[v] = base[v], top'[v] = top[v], until'[v] = until[v],
         area'[v] = area[v], frame'[v] = frame[v], Forked(v)' = Forked(v),
         pc[v] # "done" => ArraysKept(v),
         pc[v] # "done" /\ ~Forked(v) => cxt'[area[v]] = cxt[area[v]]
  PROVE  HoldsKept(v)
<1> SUFFICES ASSUME NEW row \in DOMAIN Bounds, NEW i \in Indices(row)
             PROVE  Holds(v, row, i)' <=> Holds(v, row, i)
  BY DEF HoldsKept
<1> DEFINE l == Len(row)
<1>1. CASE pc[v] = "done" \/ Forked(v)
  BY <1>1 DEF Holds
<1>2. CASE ~(l \in until[v] .. top[v] /\ (l = top[v] => pc[v] # "exit"))
  BY <1>2 DEF Holds
<1>3. CASE /\ pc[v] # "done" /\ ~Forked(v)
           /\ l \in until[v] .. top[v] /\ (l = top[v] => pc[v] # "exit")
  <2>1. ReadableAt(v, l) /\ Cxt(v)' = Cxt(v)
    BY <1>3, WorkLevel DEF Cxt
  <2>2. array'[Cxt(v)[l].liveIn].live = array[Cxt(v)[l].liveIn].live
    BY <1>3, <2>1 DEF ReadableAt, Owned, ArraysKept
  <2>3. RowOf(v, l)' = RowOf(v, l)
    BY <2>1, <2>2 DEF RowOf
  <2>4. Ahead(v, l)' = Ahead(v, l)
    BY <2>1 DEF Ahead
  <2> QED BY <2>1, <2>3, <2>4 DEF Holds
<1> QED BY <1>1, <1>2, <1>3

LEMMA OthersEntered ==
  ASSUME NEW v, pc'[v] = pc[v], top'[v] = top[v], frame'[v] = frame[v],
         \A l \in EnteredLevels(v) : array'[<<v, l>>].live = array[<<v, l>>].live
  PROVE  EnteredKept(v)
  BY DEF EnteredKept, EnteredLevels

LEMMA EnteredFacts ==
  ASSUME MemoryInv, NEW v \in DOMAIN pc, NEW l \in EnteredLevels(v)
  PROVE  /\ pc[v] # "done" /\ l \in DOMAIN frame[v] /\ l \in Level /\ l \in Nat
         /\ base[v] <= l /\ l <= top[v] /\ l < Leaf /\ (l < top[v] \/ pc[v] = "back")
         /\ <<v, l>> \in DOMAIN array
<1>1. TaskOK(v) /\ v \in Paths
  BY MemoryParts, AreaOf
<1>2. l \in DOMAIN frame[v] /\ l < Leaf /\ (l < top[v] \/ pc[v] = "back")
  BY DEF EnteredLevels
<1>3. pc[v] # "done"
  BY <1>1, <1>2 DEF TaskOK
<1>4. base[v] \in Nat /\ top[v] \in Nat /\ top[v] <= Leaf
  BY GivenFacts
<1>5. l \in base[v] .. top[v]
  BY <1>1, <1>2, <1>3, <1>4 DEF TaskOK
<1>6. <<v, l>> \in DOMAIN array
  BY <1>2, MemoryParts DEF TypeOK
<1> QED BY <1>2, <1>3, <1>4, <1>5, <1>6, LevelFacts

\* The tasks above one that is not done.
LEMMA Lineage ==
  ASSUME MemoryInv, NEW v \in DOMAIN pc, pc[v] # "done", NEW p \in Ancestors(v) \cup {v}
  PROVE  p \in DOMAIN pc /\ (p # v => pc[p] = "join")
  BY MemoryParts DEF AncestorsWait

\* What is above a task that is not done stays above it.
LEMMA UnderKept ==
  ASSUME MemoryInv, NEW v \in DOMAIN pc, pc[v] # "done", NEW row, Under(v, row),
         \A p \in DOMAIN pc : row \in Entered(p) => row \in Entered(p)'
  PROVE  Under(v, row)'
<1>1. CASE row = <<>>
  BY <1>1 DEF Under
<1>2. CASE row # <<>>
  <2>1. PICK p \in Ancestors(v) \cup {v} : row \in Entered(p)
    BY <1>2 DEF Under
  <2>2. row \in Entered(p)'
    BY <2>1, Lineage
  <2> QED BY <2>2 DEF Under, Ancestors
<1> QED BY <1>1, <1>2

\* A step after which every task has the same work as before.
LEMMA WorkKept ==
  ASSUME MemoryInv, WorkOK, TailsOK, DOMAIN pc' = DOMAIN pc, started' = started, tail' = tail,
         \A v \in DOMAIN pc : HoldsKept(v) /\ EnteredKept(v) /\ (pc'[v] = "back" => top'[v] < Leaf)
  PROVE  WorkOK' /\ TailsOK'
<1>1. \A v \in DOMAIN pc : Entered(v)' = Entered(v)
  BY EnteredSame
<1>2. WorkOK'
  <2>1. DOMAIN tail' = Outer /\ \A c \in Iterations : started'[c] \in {0, 1}
    BY DEF WorkOK
  <2>2. ASSUME NEW row \in DOMAIN Bounds, NEW i \in Indices(row)
        PROVE  IF started'[Append(row, i)] = 0
               THEN \/ \E t \in DOMAIN pc' : Holds(t, row, i)'
                    \/ row # <<>> /\ started'[row] = 0
               ELSE row # <<>> => started'[row] = 1
    <3>1. IF started[Append(row, i)] = 0
          THEN (\E t \in DOMAIN pc : Holds(t, row, i)) \/ (row # <<>> /\ started[row] = 0)
          ELSE row # <<>> => started[row] = 1
      BY <2>2 DEF WorkOK, Indices
    <3>2. \A t \in DOMAIN pc : Holds(t, row, i) => Holds(t, row, i)'
      BY <2>2 DEF HoldsKept
    <3> QED BY <3>1, <3>2
  <2>3. ASSUME NEW t \in DOMAIN pc, NEW row \in DOMAIN Bounds, NEW i \in Indices(row),
               Holds(t, row, i)'
        PROVE  /\ started'[Append(row, i)] = 0
               /\ Under(t, row)'
               /\ \A u \in DOMAIN pc' : Holds(u, row, i)' => u = t
    <3>1. \A u \in DOMAIN pc : Holds(u, row, i)' => Holds(u, row, i)
      BY <2>3 DEF HoldsKept
    <3>2. /\ started[Append(row, i)] = 0
          /\ Under(t, row)
          /\ \A u \in DOMAIN pc : Holds(u, row, i) => u = t
      BY <2>3, <3>1 DEF WorkOK, Indices
    <3>3. pc[t] # "done"
      BY <2>3, <3>1 DEF Holds
    <3>4. Under(t, row)'
      BY <1>1, <3>2, <3>3, UnderKept
    <3> QED BY <3>1, <3>2, <3>4
  <2> QED BY <2>1, <2>2, <2>3 DEF WorkOK, Indices
<1>3. TailsOK'
  <2>1. ASSUME NEW t \in DOMAIN pc, NEW l \in EnteredLevels(t)' PROVE EnteredOK(t, l)'
    <3>1. l \in EnteredLevels(t) /\ EnteredOK(t, l)
      BY <2>1 DEF EnteredKept, TailsOK
    <3>2. PICK row, c : row = frame[t][l].row /\ c = EnteredAt(t, l)
      OBVIOUS
    <3>3. /\ row \in DOMAIN Bounds /\ Len(row) = l
          /\ c \in Outer /\ started[c] = 1 /\ tail[c] = <<>>
          /\ array[<<t, l>>].live = c
          /\ Under(t, row)
          /\ \A u \in DOMAIN pc : c \in Entered(u) => u = t
      BY <3>1, <3>2 DEF EnteredOK
    <3>4. /\ frame'[t][l].row = row /\ frame'[t][l].iv = frame[t][l].iv
          /\ array'[<<t, l>>].live = c
      BY <3>1, <3>2, <3>3 DEF EnteredKept
    <3>5. EnteredAt(t, l)' = c
      BY <3>2, <3>4 DEF EnteredAt
    <3>6. Under(t, row)'
      BY <1>1, <3>1, <3>3, EnteredFacts, UnderKept
    <3>7. \A u \in DOMAIN pc' : c \in Entered(u)' => u = t
      BY <1>1, <3>3
    <3> QED BY <3>3, <3>4, <3>5, <3>6, <3>7 DEF EnteredOK, Under, Ancestors
  <2>2. ASSUME NEW c \in Outer, started'[c] = 1, tail'[c] = <<>>
        PROVE  \E t \in DOMAIN pc' : c \in Entered(t)'
    BY <1>1, <2>2 DEF TailsOK
  <2>3. \A c \in Outer : tail'[c] # <<>> => started'[c] = 1
    BY DEF TailsOK
  <2> QED BY <2>1, <2>2, <2>3 DEF TailsOK
<1> QED BY <1>2, <1>3

\* A step of task t that neither forks nor joins, as the other tasks see it.
Alone(t) ==
  /\ DOMAIN pc' = DOMAIN pc /\ until' = until /\ area' = area
  /\ \A u \in DOMAIN pc \ {t} :
       /\ pc'[u] = pc[u] /\ rc'[u] = rc[u] /\ base'[u] = base[u] /\ top'[u] = top[u]
       /\ frame'[u] = frame[u]
  /\ \A a \in DOMAIN cxt \ {area[t]} : cxt'[a] = cxt[a]
  /\ \A q \in DOMAIN array : q = <<Root, -1>> \/ q[1] # t
       => q \in DOMAIN array' /\ array'[q].live = array[q].live

LEMMA AloneForked ==
  ASSUME NEW t, Alone(t), NEW v
  PROVE  Forked(v)' = Forked(v) /\ Given(v)' = Given(v)
  BY DEF Alone, Forked, Given

LEMMA AloneOthers ==
  ASSUME MemoryInv, NEW t \in DOMAIN pc, pc[t] \notin {"done", "join"}, Alone(t),
         NEW v \in DOMAIN pc, v # t
  PROVE  /\ HoldsKept(v) /\ EnteredKept(v)
         /\ pc[v] # "done" => ArraysKept(v)
         /\ pc[v] # "done" /\ ~Forked(v) => cxt'[area[v]] = cxt[area[v]]
<1>1. /\ pc'[v] = pc[v] /\ base'[v] = base[v] /\ top'[v] = top[v] /\ until'[v] = until[v]
      /\ area'[v] = area[v] /\ frame'[v] = frame[v] /\ Forked(v)' = Forked(v)
  BY AloneForked DEF Alone
<1>2. pc[v] # "done" => t \notin Ancestors(v)
  BY Lineage
<1>3. pc[v] # "done" => ArraysKept(v)
  BY <1>2 DEF ArraysKept, Alone
<1>4. ASSUME pc[v] # "done", ~Forked(v) PROVE cxt'[area[v]] = cxt[area[v]]
  <2>1. CodeOK(v) /\ area[v] \in DOMAIN cxt
    BY <1>4, OwnFacts
  <2>2. pc[v] # "join"
    BY <1>4, <2>1 DEF CodeOK
  <2>3. area[v] # area[t]
    BY <1>4, <2>2, AreaWaits
  <2> QED BY <2>1, <2>3 DEF Alone
<1>5. HoldsKept(v)
  BY <1>1, <1>3, <1>4, OthersHold
<1>6. \A l \in EnteredLevels(v) : array'[<<v, l>>].live = array[<<v, l>>].live
  BY EnteredFacts DEF Alone
<1>7. EnteredKept(v)
  BY <1>1, <1>6, OthersEntered
<1> QED BY <1>3, <1>4, <1>5, <1>7

\* It keeps who is to do what if it keeps that of task t.
LEMMA QuietWork ==
  ASSUME MemoryInv, WorkOK, TailsOK, NEW t \in DOMAIN pc, pc[t] \notin {"done", "join"}, Alone(t),
         started' = started, tail' = tail,
         HoldsKept(t), EnteredKept(t), pc'[t] = "back" => top'[t] < Leaf
  PROVE  WorkOK' /\ TailsOK'
<1>1. ASSUME NEW v \in DOMAIN pc
      PROVE  HoldsKept(v) /\ EnteredKept(v) /\ (pc'[v] = "back" => top'[v] < Leaf)
  <2>1. CASE v = t
    BY <2>1
  <2>2. CASE v # t
    BY <2>2, AloneOthers DEF TailsOK, Alone
  <2> QED BY <2>1, <2>2
<1>2. DOMAIN pc' = DOMAIN pc
  BY DEF Alone
<1> QED BY <1>1, <1>2, WorkKept

\* A frame of a level in work is one of the levels from base to top.
LEMMA LevelRange ==
  ASSUME MemoryInv, NEW t \in DOMAIN pc, pc[t] # "done"
  PROVE  /\ until[t] \in Nat /\ base[t] \in Nat /\ top[t] \in Nat /\ Leaf \in Nat
         /\ until[t] <= base[t] /\ base[t] <= top[t] /\ top[t] <= Leaf /\ Level = 0 .. Leaf
         /\ t \in DOMAIN frame /\ DOMAIN frame = DOMAIN pc /\ DOMAIN top = DOMAIN pc
         /\ DOMAIN base = DOMAIN pc /\ DOMAIN rc = DOMAIN pc
         /\ area[t] \in DOMAIN cxt /\ DOMAIN cxt[area[t]] = Level
         /\ \A l \in Level : DOMAIN cxt[area[t]][l] = {"start", "max", "liveIn", "liveOut"}
         /\ DOMAIN frame[t] = IF pc[t] \in {"start", "enter"}
                              THEN base[t] .. top[t] - 1 ELSE base[t] .. top[t]
<1>1. TaskOK(t)
  BY OwnFacts
<1> QED BY <1>1, OwnFacts, GivenFacts, LevelFacts DEF TaskOK
-----------------------------------------------------------------------------
(***************************************************************************)
(* The steps that leave the work where it is.                              *)
(***************************************************************************)
StartEffect(t) ==
  /\ pc[t] = "start" /\ pc'[t] = "enter" /\ ~Forked(t)
  /\ base' = base /\ top' = top /\ rc' = rc /\ frame' = frame /\ array' = array
  /\ started' = started /\ tail' = tail
  /\ \A l \in Level :
       LET c == cxt[area[t]][l]
           d == cxt'[area[t]][l]
       IN  /\ d.max = c.max /\ d.liveIn = c.liveIn /\ d.liveOut = c.liveOut
           /\ d.start = IF l = Leaf /\ base[t] > until[t] THEN c.start + 1 ELSE c.start
  /\ base[t] > until[t] => top[t] = Leaf

LEMMA StartEffects ==
  ASSUME MemoryInv, NEW t \in DOMAIN pc, Start(t)
  PROVE  Alone(t) /\ StartEffect(t)
<1> DEFINE a == area[t]
<1>1. /\ pc[t] = "start" /\ pc' = [pc EXCEPT ![t] = "enter"]
      /\ rc' = rc /\ base' = base /\ top' = top /\ until' = until /\ area' = area
      /\ frame' = frame /\ array' = array /\ started' = started /\ tail' = tail
  BY DEF Start, At
<1>2. cxt' = IF base[t] > until[t]
             THEN [cxt EXCEPT ![a][Leaf].start = cxt[a][Leaf].start + 1] ELSE cxt
  BY DEF Start, AfterSuspended
<1>3. ~Forked(t) /\ (base[t] > until[t] => top[t] = Leaf) /\ Leaf \in Level
  BY <1>1, OwnFacts, LevelFacts DEF TopOK
<1>4. \A b \in DOMAIN cxt \ {a} : cxt'[b] = cxt[b]
  BY <1>2
<1>5. \A l \in Level :
       LET c == cxt[a][l]
           d == cxt'[a][l]
       IN  /\ d.max = c.max /\ d.liveIn = c.liveIn /\ d.liveOut = c.liveOut
           /\ d.start = IF l = Leaf /\ base[t] > until[t] THEN c.start + 1 ELSE c.start
  BY <1>1, <1>2, <1>3, LevelRange
<1> QED BY <1>1, <1>3, <1>4, <1>5 DEF Alone, StartEffect

LEMMA StartWork ==
  ASSUME MemoryInv, WorkOK, TailsOK, NEW t \in DOMAIN pc, Start(t)
  PROVE  WorkOK' /\ TailsOK'
<1>1. Alone(t) /\ StartEffect(t)
  BY StartEffects
<1>2. /\ pc[t] = "start" /\ pc'[t] = "enter" /\ ~Forked(t) /\ ~Forked(t)'
      /\ base'[t] = base[t] /\ top'[t] = top[t] /\ until'[t] = until[t] /\ area'[t] = area[t]
  BY <1>1, AloneForked DEF StartEffect, Alone
<1>3. HoldsKept(t)
  <2> SUFFICES ASSUME NEW row \in DOMAIN Bounds, NEW i \in Indices(row)
               PROVE  Holds(t, row, i)' <=> Holds(t, row, i)
    BY DEF HoldsKept
  <2> DEFINE l == Len(row)
  <2>1. CASE l \notin until[t] .. top[t]
    BY <1>2, <2>1 DEF Holds
  <2>2. CASE l \in until[t] .. top[t]
    <3>1. l \in Level /\ l <= top[t] /\ l \in Nat
      BY <1>2, <2>2, LevelRange
    <3>2. /\ Cxt(t)[l]'.max = Cxt(t)[l].max /\ Cxt(t)[l]'.liveIn = Cxt(t)[l].liveIn
          /\ Cxt(t)[l]'.start = IF l = Leaf /\ base[t] > until[t]
                                THEN Cxt(t)[l].start + 1 ELSE Cxt(t)[l].start
      BY <1>1, <1>2, <3>1 DEF StartEffect, Cxt
    <3>3. RowOf(t, l)' = RowOf(t, l)
      BY <1>1, <3>2 DEF RowOf, StartEffect
    <3>4. Ahead(t, l)' = Ahead(t, l)
      <4>1. CASE l < top[t]
        BY <1>2, <3>1, <3>2, <4>1, LevelRange DEF Ahead
      <4>2. CASE l = top[t]
        <5>1. base[t] > until[t] => l = Leaf
          BY <1>1, <4>2 DEF StartEffect
        <5>2. top[t] \in Nat
          BY LevelRange, <1>2
        <5> QED BY <1>2, <3>2, <4>2, <5>1, <5>2 DEF Ahead, AfterSuspended
      <4> QED BY <1>2, <3>1, <4>1, <4>2, LevelRange
    <3> QED BY <1>2, <3>2, <3>3, <3>4 DEF Holds
  <2> QED BY <2>1, <2>2
<1>4. EnteredKept(t)
  BY <1>1, <1>2 DEF EnteredKept, EnteredLevels, StartEffect
<1> QED BY <1>1, <1>2, <1>3, <1>4, QuietWork DEF StartEffect

EnterEffect(t) ==
  LET n == top[t]
      c == cxt[area[t]][n]
  IN
  /\ pc[t] = "enter" /\ pc'[t] = "header"
  /\ base' = base /\ top' = top /\ rc' = rc /\ started' = started /\ tail' = tail
  /\ n \notin DOMAIN frame[t]
  /\ DOMAIN frame'[t] = DOMAIN frame[t] \cup {n}
  /\ \A l \in DOMAIN frame[t] : frame'[t][l] = frame[t][l]
  /\ frame'[t][n].iv = c.start /\ frame'[t][n].max = c.max /\ frame'[t][n].out = c.liveOut
  /\ frame'[t][n].row = array[c.liveIn].live /\ frame'[t][n].priv = EmptyBag
  /\ <<t, n>> \notin DOMAIN array
  /\ array'[<<t, n>>] = NewArray /\ \A q \in DOMAIN array : array'[q] = array[q]
  /\ DOMAIN array' = DOMAIN array \cup {<<t, n>>}
  /\ \A l \in Level : LET d == cxt'[area[t]][l] IN
       /\ d.max = cxt[area[t]][l].max /\ d.start = cxt[area[t]][l].start
       /\ l # n + 1 => d.liveIn = cxt[area[t]][l].liveIn
       /\ l # n + 1 /\ ~(l = n /\ n = Leaf) => d.liveOut = cxt[area[t]][l].liveOut
  /\ n # Leaf => /\ cxt'[area[t]][n + 1].liveIn = <<t, n>>
                 /\ cxt'[area[t]][n + 1].liveOut = <<t, n>>
  /\ n = Leaf => cxt'[area[t]][n].liveOut = <<t, n>>

LEMMA EnterEffects ==
  ASSUME MemoryInv, NEW t \in DOMAIN pc, Enter(t)
  PROVE  Alone(t) /\ EnterEffect(t)
<1> DEFINE a == area[t]
           n == top[t]
           c == cxt[a][n]
           r == [iv |-> c.start, max |-> c.max, row |-> array[c.liveIn].live,
                 out |-> c.liveOut, low |-> 0, chunk |-> 0, priv |-> EmptyBag]
<1>1. /\ pc[t] = "enter" /\ pc' = [pc EXCEPT ![t] = "header"]
      /\ rc' = rc /\ base' = base /\ top' = top /\ until' = until /\ area' = area
      /\ started' = started /\ tail' = tail
  BY DEF Enter, At
<1>2. /\ frame' = [frame EXCEPT ![t] = With(frame[t], n, r)]
      /\ array' = With(array, <<t, n>>, NewArray)
      /\ cxt' = [cxt EXCEPT ![a] = Announced(t)]
  BY DEF Enter, Cxt
<1>3. /\ n \in Level /\ n \in Nat /\ DOMAIN frame[t] = base[t] .. n - 1 /\ base[t] \in Nat
      /\ base[t] <= n /\ n <= Leaf /\ Leaf \in Nat /\ Level = 0 .. Leaf
      /\ a \in DOMAIN cxt /\ DOMAIN cxt[a] = Level /\ DOMAIN frame = DOMAIN pc
      /\ \A l \in Level : DOMAIN cxt[a][l] = {"start", "max", "liveIn", "liveOut"}
  BY <1>1, LevelRange
<1>4. n \notin DOMAIN frame[t] /\ <<t, n>> \notin DOMAIN array
  BY <1>3, ArrayOfFrame
<1>5. /\ DOMAIN array' = DOMAIN array \cup {<<t, n>>} /\ array'[<<t, n>>] = NewArray
      /\ \A q \in DOMAIN array : array'[q] = array[q]
  BY <1>2, <1>4 DEF With
<1>6. frame'[t] = With(frame[t], n, r) /\ \A u \in DOMAIN pc \ {t} : frame'[u] = frame[u]
  BY <1>2, <1>3
<1>7. r.iv = c.start /\ r.max = c.max /\ r.out = c.liveOut /\ r.row = array[c.liveIn].live
      /\ r.priv = EmptyBag
  OBVIOUS
<1> HIDE DEF r, c
<1>8. /\ DOMAIN frame'[t] = DOMAIN frame[t] \cup {n} /\ frame'[t][n] = r
      /\ \A l \in DOMAIN frame[t] : frame'[t][l] = frame[t][l]
  BY <1>4, <1>6 DEF With
<1>9. \A b \in DOMAIN cxt \ {a} : cxt'[b] = cxt[b]
  BY <1>2
<1>10. cxt'[a] = IF n = Leaf THEN [cxt[a] EXCEPT ![n].liveOut = <<t, n>>]
                 ELSE [cxt[a] EXCEPT ![n + 1].liveIn = <<t, n>>, ![n + 1].liveOut = <<t, n>>]
  BY <1>2, <1>3 DEF Announced, Cxt
<1>11. /\ \A l \in Level : LET d == cxt'[a][l] IN
            /\ d.max = cxt[a][l].max /\ d.start = cxt[a][l].start
            /\ l # n + 1 => d.liveIn = cxt[a][l].liveIn
            /\ l # n + 1 /\ ~(l = n /\ n = Leaf) => d.liveOut = cxt[a][l].liveOut
       /\ n # Leaf => cxt'[a][n + 1].liveIn = <<t, n>> /\ cxt'[a][n + 1].liveOut = <<t, n>>
       /\ n = Leaf => cxt'[a][n].liveOut = <<t, n>>
  <2>1. CASE n = Leaf
    <3>1. cxt'[a] = [cxt[a] EXCEPT ![n].liveOut = <<t, n>>]
      BY <1>10, <2>1
    <3> QED BY <1>3, <2>1, <3>1
  <2>2. CASE n # Leaf
    <3>1. cxt'[a] = [cxt[a] EXCEPT ![n + 1].liveIn = <<t, n>>, ![n + 1].liveOut = <<t, n>>]
      BY <1>10, <2>2
    <3>2. n + 1 \in Level /\ n \in Nat
      BY <1>3, <2>2
    <3>3. PICK f : f = cxt[a]
      OBVIOUS
    <3>4. PICK g : g = cxt'[a]
      OBVIOUS
    <3>5. PICK d : d = [f[n + 1] EXCEPT !.liveIn = <<t, n>>, !.liveOut = <<t, n>>]
      OBVIOUS
    <3>6. /\ DOMAIN f = Level
          /\ \A l \in Level : DOMAIN f[l] = {"start", "max", "liveIn", "liveOut"}
      BY <1>3, <3>3
    <3>7. g = [f EXCEPT ![n + 1] = d]
      BY <3>1, <3>3, <3>4, <3>5
    <3>8. g[n + 1] = d /\ \A l \in Level : l # n + 1 => g[l] = f[l]
      BY <3>2, <3>6, <3>7
    <3>9. /\ d.liveIn = <<t, n>> /\ d.liveOut = <<t, n>>
          /\ d.max = f[n + 1].max /\ d.start = f[n + 1].start
      BY <3>2, <3>5, <3>6
    <3>10. \A l \in Level :
             /\ g[l].max = f[l].max /\ g[l].start = f[l].start
             /\ l # n + 1 => g[l].liveIn = f[l].liveIn /\ g[l].liveOut = f[l].liveOut
      BY <3>8, <3>9
    <3> QED BY <2>2, <3>3, <3>4, <3>8, <3>9, <3>10
  <2> QED BY <2>1, <2>2
<1>12. Alone(t)
  BY <1>1, <1>5, <1>6, <1>9 DEF Alone
<1>13. EnterEffect(t)
  BY <1>1, <1>4, <1>5, <1>7, <1>8, <1>11 DEF EnterEffect, c
<1> QED BY <1>12, <1>13

LEMMA EnterWork ==
  ASSUME MemoryInv, WorkOK, TailsOK, NEW t \in DOMAIN pc, Enter(t)
  PROVE  WorkOK' /\ TailsOK'
<1>1. Alone(t) /\ EnterEffect(t)
  BY EnterEffects
<1>2. /\ pc[t] = "enter" /\ pc'[t] = "header" /\ Forked(t)' = Forked(t)
      /\ base'[t] = base[t] /\ top'[t] = top[t] /\ until'[t] = until[t] /\ area'[t] = area[t]
  BY <1>1, AloneForked DEF EnterEffect, Alone
<1>3. /\ until[t] \in Nat /\ base[t] \in Nat /\ top[t] \in Nat /\ Leaf \in Nat
      /\ until[t] <= base[t] /\ base[t] <= top[t] /\ top[t] <= Leaf /\ Level = 0 .. Leaf
  BY <1>2, LevelRange
<1>4. HoldsKept(t)
  <2> SUFFICES ASSUME NEW row \in DOMAIN Bounds, NEW i \in Indices(row)
               PROVE  Holds(t, row, i)' <=> Holds(t, row, i)
    BY DEF HoldsKept
  <2> DEFINE l == Len(row)
  <2>1. CASE l \notin until[t] .. top[t] \/ Forked(t)
    BY <1>2, <2>1 DEF Holds
  <2>2. CASE l \in until[t] .. top[t] /\ ~Forked(t)
    <3>1. l \in Level /\ l <= top[t] /\ l \in Nat /\ ReadableAt(t, l) /\ l # top[t] + 1
      BY <1>2, <1>3, <2>2, WorkLevel
    <3>2. /\ Cxt(t)[l]'.max = Cxt(t)[l].max /\ Cxt(t)[l]'.liveIn = Cxt(t)[l].liveIn
          /\ Cxt(t)[l]'.start = Cxt(t)[l].start
      BY <1>1, <1>2, <3>1 DEF EnterEffect, Cxt
    <3>3. RowOf(t, l)' = RowOf(t, l)
      <4>1. Cxt(t)[l].liveIn \in DOMAIN array
        BY <3>1 DEF ReadableAt, Owned
      <4> QED BY <1>1, <3>2, <4>1 DEF RowOf, EnterEffect
    <3>4. Ahead(t, l)' = Ahead(t, l)
      <4>1. CASE l < top[t]
        BY <1>2, <1>3, <3>1, <3>2, <4>1 DEF Ahead
      <4>2. CASE l = top[t]
        <5>1. frame'[t][l].iv = Cxt(t)[l].start
          BY <1>1, <4>2 DEF EnterEffect, Cxt
        <5> QED BY <1>2, <1>3, <3>2, <4>2, <5>1 DEF Ahead
      <4> QED BY <1>3, <3>1, <4>1, <4>2
    <3> QED BY <1>2, <3>2, <3>3, <3>4 DEF Holds
  <2> QED BY <2>1, <2>2
<1>5. EnteredKept(t)
  <2>1. EnteredLevels(t)' = EnteredLevels(t)
    <3>1. DOMAIN frame'[t] = DOMAIN frame[t] \cup {top[t]}
      BY <1>1 DEF EnterEffect
    <3>2. EnteredLevels(t)' = {l \in DOMAIN frame[t] : l < Leaf /\ l < top[t]}
      BY <1>2, <1>3, <3>1 DEF EnteredLevels
    <3> QED BY <1>2, <3>2 DEF EnteredLevels
  <2>2. ASSUME NEW l \in EnteredLevels(t)
        PROVE  frame'[t][l] = frame[t][l] /\ array'[<<t, l>>].live = array[<<t, l>>].live
    BY <1>1, EnteredFacts DEF EnterEffect
  <2> QED BY <2>1, <2>2 DEF EnteredKept
<1> QED BY <1>1, <1>2, <1>4, <1>5, QuietWork DEF EnterEffect

LEMMA LeaveLoopEffects ==
  ASSUME MemoryInv, NEW t \in DOMAIN pc, LeaveLoop(t)
  PROVE  /\ Alone(t) /\ pc[t] = "header" /\ pc'[t] = "exit" /\ rc'[t] = 0
         /\ UNCHANGED <<base, top, frame, array, cxt, started, tail>>
         /\ frame[t][top[t]].iv \in Nat /\ frame[t][top[t]].max \in Nat
         /\ frame[t][top[t]].max = Cxt(t)[top[t]].max
         /\ frame[t][top[t]].max <= frame[t][top[t]].iv
<1>1. /\ pc[t] = "header" /\ pc' = [pc EXCEPT ![t] = "exit"] /\ rc' = [rc EXCEPT ![t] = 0]
      /\ UNCHANGED <<base, top, until, area, frame, array, cxt, started, tail>>
      /\ frame[t][top[t]].iv >= frame[t][top[t]].max
  BY DEF LeaveLoop, At, Reg
<1>2. TopOK(t) /\ DOMAIN rc = DOMAIN pc
  BY <1>1, OwnFacts
<1>3. /\ frame[t][top[t]].iv \in Nat /\ frame[t][top[t]].max = Cxt(t)[top[t]].max
      /\ Cxt(t)[top[t]].max \in Nat
  BY <1>1, <1>2 DEF TopOK, FrameAt, Reg, ReadableAt
<1> QED BY <1>1, <1>2, <1>3 DEF Alone

LEMMA LeaveLoopWork ==
  ASSUME MemoryInv, WorkOK, TailsOK, NEW t \in DOMAIN pc, LeaveLoop(t)
  PROVE  WorkOK' /\ TailsOK'
<1>1. /\ Alone(t) /\ pc[t] = "header" /\ pc'[t] = "exit" /\ Forked(t)' = Forked(t)
      /\ UNCHANGED <<base, top, until, area, frame, array, cxt, started, tail>>
      /\ frame[t][top[t]].iv \in Nat /\ frame[t][top[t]].max \in Nat
      /\ frame[t][top[t]].max = Cxt(t)[top[t]].max
      /\ frame[t][top[t]].max <= frame[t][top[t]].iv
  BY LeaveLoopEffects, AloneForked DEF Alone
<1>2. until[t] \in Nat /\ top[t] \in Nat
  BY <1>1, LevelRange
<1>3. HoldsKept(t)
  <2> SUFFICES ASSUME NEW row \in DOMAIN Bounds, NEW i \in Indices(row)
               PROVE  Holds(t, row, i)' <=> Holds(t, row, i)
    BY DEF HoldsKept
  <2> DEFINE l == Len(row)
  <2>0. i \in Nat
    BY IterationFacts
  <2>1. CASE l \notin until[t] .. top[t]
    BY <1>1, <2>1 DEF Holds
  <2>2. CASE l \in until[t] .. top[t] - 1
    <3>1. l < top[t] /\ l # top[t] /\ l \in until[t] .. top[t]
      BY <1>2, <2>2
    <3>2. Ahead(t, l)' = Ahead(t, l) /\ RowOf(t, l)' = RowOf(t, l) /\ Cxt(t)' = Cxt(t)
      BY <1>1, <3>1 DEF Ahead, RowOf, Cxt
    <3> QED BY <1>1, <3>1, <3>2 DEF Holds
  <2>3. CASE l = top[t]
    <3>1. ~Holds(t, row, i)'
      BY <1>1, <2>3 DEF Holds
    <3>2. Ahead(t, l) = frame[t][top[t]].iv
      BY <1>1, <1>2, <2>3 DEF Ahead
    <3>3. ~Holds(t, row, i)
      BY <1>1, <2>0, <2>3, <3>2 DEF Holds
    <3> QED BY <3>1, <3>3
  <2> QED BY <1>2, <2>1, <2>2, <2>3
<1>4. EnteredKept(t)
  BY <1>1 DEF EnteredKept, EnteredLevels
<1> QED BY <1>1, <1>3, <1>4, QuietWork

LatchEffect(t) ==
  /\ pc[t] = "poll" /\ pc'[t] = "header" /\ top[t] = Leaf /\ ~Forked(t)
  /\ UNCHANGED <<rc, base, top, array, started, tail>>
  /\ DOMAIN frame'[t] = DOMAIN frame[t] /\ Leaf \in DOMAIN frame[t]
  /\ \A l \in DOMAIN frame[t] : l # Leaf => frame'[t][l] = frame[t][l]
  /\ LET r == frame[t][Leaf]
         q == frame'[t][Leaf]
     IN  q.iv = r.low /\ q.max = r.max /\ q.row = r.row /\ q.out = r.out /\ q.priv = r.priv
  /\ \A l \in Level : LET d == cxt'[area[t]][l] IN
       /\ d.max = cxt[area[t]][l].max /\ d.liveIn = cxt[area[t]][l].liveIn
       /\ d.liveOut = cxt[area[t]][l].liveOut
       /\ l # Leaf => d.start = cxt[area[t]][l].start

LEMMA LatchEffects ==
  ASSUME MemoryInv, NEW t \in DOMAIN pc, NoHeartbeat(t) \/ HeartbeatIgnored(t)
  PROVE  Alone(t) /\ LatchEffect(t)
<1> DEFINE a == area[t]
           r == frame[t][Leaf]
<1>1. /\ pc[t] = "poll" /\ pc' = [pc EXCEPT ![t] = "header"]
      /\ UNCHANGED <<rc, base, top, until, area, array, started, tail>>
      /\ frame' = [frame EXCEPT ![t][Leaf].iv = @ + Reg(t).chunk]
      /\ cxt' = cxt \/ cxt' = [cxt EXCEPT ![a] = Polled(t)]
  BY DEF NoHeartbeat, HeartbeatIgnored, Latch, At
<1>2. top[t] = Leaf /\ ~Forked(t) /\ TopOK(t)
  BY <1>1, OwnFacts DEF TopOK
<1>3. /\ Leaf \in DOMAIN frame[t] /\ Reg(t) = r
      /\ DOMAIN r = {"iv", "max", "row", "out", "low", "chunk", "priv"}
  BY <1>1, <1>2, LeafFacts
<1>4. r.low = r.iv + r.chunk
  BY <1>1, <1>3, <1>2 DEF TopOK
<1>5. /\ a \in DOMAIN cxt /\ DOMAIN cxt[a] = Level /\ DOMAIN frame = DOMAIN pc /\ Leaf \in Level
      /\ \A l \in Level : DOMAIN cxt[a][l] = {"start", "max", "liveIn", "liveOut"}
  BY <1>1, LevelRange
<1>6. /\ frame'[t] = [frame[t] EXCEPT ![Leaf].iv = r.iv + r.chunk]
      /\ \A u \in DOMAIN pc \ {t} : frame'[u] = frame[u]
  BY <1>1, <1>3, <1>5
<1>7. frame'[t][Leaf] = [r EXCEPT !.iv = r.iv + r.chunk] /\ DOMAIN frame'[t] = DOMAIN frame[t]
      /\ \A l \in DOMAIN frame[t] : l # Leaf => frame'[t][l] = frame[t][l]
  BY <1>3, <1>6
<1>8. LET q == frame'[t][Leaf] IN
      q.iv = r.low /\ q.max = r.max /\ q.row = r.row /\ q.out = r.out /\ q.priv = r.priv
  BY <1>3, <1>4, <1>7
<1>9. /\ \A b \in DOMAIN cxt \ {a} : cxt'[b] = cxt[b]
      /\ \A l \in Level : LET d == cxt'[a][l] IN
           /\ d.max = cxt[a][l].max /\ d.liveIn = cxt[a][l].liveIn
           /\ d.liveOut = cxt[a][l].liveOut
           /\ l # Leaf => d.start = cxt[a][l].start
  <2>1. CASE cxt' = cxt
    BY <2>1
  <2>2. CASE cxt' = [cxt EXCEPT ![a] = Polled(t)]
    <3>1. Polled(t) = [cxt[a] EXCEPT ![Leaf].start = r.low - 1]
      BY <1>3 DEF Polled, Cxt
    <3>2. cxt'[a] = [cxt[a] EXCEPT ![Leaf].start = r.low - 1]
      BY <1>5, <2>2, <3>1
    <3> HIDE DEF r
    <3> QED BY <1>5, <2>2, <3>2
  <2> QED BY <1>1, <2>1, <2>2
<1>10. Alone(t)
  BY <1>1, <1>6, <1>9 DEF Alone
<1> QED BY <1>1, <1>2, <1>3, <1>7, <1>8, <1>9, <1>10 DEF LatchEffect

LEMMA LatchWork ==
  ASSUME MemoryInv, WorkOK, TailsOK, NEW t \in DOMAIN pc, NoHeartbeat(t) \/ HeartbeatIgnored(t)
  PROVE  WorkOK' /\ TailsOK'
<1>1. Alone(t) /\ LatchEffect(t)
  BY LatchEffects
<1>2. /\ pc[t] = "poll" /\ pc'[t] = "header" /\ Forked(t)' = Forked(t) /\ top[t] = Leaf
      /\ base'[t] = base[t] /\ top'[t] = top[t] /\ until'[t] = until[t] /\ area'[t] = area[t]
      /\ array' = array
  BY <1>1, AloneForked DEF LatchEffect, Alone
<1>3. until[t] \in Nat /\ top[t] \in Nat /\ Leaf \in Nat /\ Level = 0 .. Leaf
  BY <1>2, LevelRange
<1>4. HoldsKept(t)
  <2> SUFFICES ASSUME NEW row \in DOMAIN Bounds, NEW i \in Indices(row)
               PROVE  Holds(t, row, i)' <=> Holds(t, row, i)
    BY DEF HoldsKept
  <2> DEFINE l == Len(row)
  <2>1. CASE l \notin until[t] .. top[t]
    BY <1>2, <2>1 DEF Holds
  <2>2. CASE l \in until[t] .. top[t]
    <3>1. l \in Level /\ l <= top[t] /\ l \in Nat
      BY <1>2, <1>3, <2>2
    <3>2. /\ Cxt(t)[l]'.max = Cxt(t)[l].max /\ Cxt(t)[l]'.liveIn = Cxt(t)[l].liveIn
          /\ l # Leaf => Cxt(t)[l]'.start = Cxt(t)[l].start
      BY <1>1, <1>2, <3>1 DEF LatchEffect, Cxt
    <3>3. RowOf(t, l)' = RowOf(t, l)
      BY <1>2, <3>2 DEF RowOf
    <3>4. Ahead(t, l)' = Ahead(t, l)
      <4>1. CASE l < top[t]
        BY <1>2, <1>3, <3>1, <3>2, <4>1 DEF Ahead
      <4>2. CASE l = top[t]
        <5>1. frame'[t][l].iv = frame[t][l].low
          BY <1>1, <1>2, <4>2 DEF LatchEffect
        <5> QED BY <1>2, <1>3, <4>2, <5>1 DEF Ahead
      <4> QED BY <1>3, <3>1, <4>1, <4>2
    <3> QED BY <1>2, <3>2, <3>3, <3>4 DEF Holds
  <2> QED BY <2>1, <2>2
<1>5. EnteredKept(t)
  <2>1. EnteredLevels(t)' = EnteredLevels(t)
    BY <1>1, <1>2 DEF EnteredLevels, LatchEffect
  <2>2. ASSUME NEW l \in EnteredLevels(t) PROVE frame'[t][l] = frame[t][l]
    <3>1. l \in DOMAIN frame[t] /\ l < Leaf /\ l \in Nat
      BY EnteredFacts
    <3>2. l # Leaf
      BY <1>3, <3>1
    <3> QED BY <1>1, <3>1, <3>2 DEF LatchEffect
  <2> QED BY <1>2, <2>1, <2>2 DEF EnteredKept
<1> QED BY <1>1, <1>2, <1>4, <1>5, QuietWork DEF LatchEffect

\* What the three ways to leave a slice have in common.
ExitEffect(t) ==
  LET n == top[t] IN
  /\ pc[t] = "exit" /\ started' = started
  /\ DOMAIN frame[t] = base[t] .. n /\ DOMAIN frame'[t] = base[t] .. n - 1
  /\ \A l \in base[t] .. n - 1 : frame'[t][l] = frame[t][l]
  /\ \A q \in DOMAIN array : q # <<t, n>> => q \in DOMAIN array' /\ array'[q].live = array[q].live

LEMMA ExitEffects ==
  ASSUME MemoryInv, NEW t \in DOMAIN pc, Exit(t),
         DOMAIN pc' = DOMAIN pc, \A u \in DOMAIN pc \ {t} :
           pc'[u] = pc[u] /\ rc'[u] = rc[u] /\ base'[u] = base[u] /\ top'[u] = top[u],
         \A a \in DOMAIN cxt \ {area[t]} : cxt'[a] = cxt[a]
  PROVE  Alone(t) /\ ExitEffect(t)
<1> DEFINE n == top[t]
<1>1. /\ pc[t] = "exit" /\ until' = until /\ area' = area
      /\ \A q \in DOMAIN array : q # <<t, n>> => q \in DOMAIN array' /\ array'[q].live = array[q].live
      /\ \A u \in DOMAIN pc \ {t} : frame'[u] = frame[u]
      /\ DOMAIN frame'[t] = base[t] .. n - 1
      /\ \A l \in base[t] .. n - 1 : l \in DOMAIN frame[t] /\ frame'[t][l] = frame[t][l]
  BY ExitMemory
<1>2. started' = started
  BY DEF Exit
<1>3. n \in Nat /\ base[t] <= n /\ DOMAIN frame[t] = base[t] .. n
  BY <1>1, LevelRange
<1>4. \A q \in DOMAIN array : q = <<Root, -1>> \/ q[1] # t => q # <<t, n>>
  <2>1. <<Root, -1>> # <<t, n>>
    BY <1>3
  <2> QED BY <2>1
<1>5. Alone(t)
  BY <1>1, <1>4 DEF Alone
<1> QED BY <1>1, <1>2, <1>3, <1>5 DEF ExitEffect

\* The live-ins of a level belong to a level above it.
LEMMA ElderArrays ==
  ASSUME MemoryInv, NEW t \in DOMAIN pc, NEW l \in Nat, NEW n \in Nat, l <= n,
         NEW q, Owned(t, {l - 1}, q)
  PROVE  q \in DOMAIN array /\ q # <<t, n>>
<1>1. t \in Paths /\ Len(t) \in Nat
  BY MemoryParts, AreaOf
<1>2. t \notin Ancestors(t)
  BY <1>1, AncestorFacts
<1>3. \/ q = <<Root, -1>>
      \/ q[1] \in Ancestors(t)
      \/ q[1] = t /\ q[2] = l - 1
  BY DEF Owned
<1>4. l - 1 # n /\ -1 # n
  OBVIOUS
<1>5. q # <<t, n>>
  BY <1>2, <1>3, <1>4
<1> QED BY <1>5 DEF Owned

LEMMA ReturnToCallerEffects ==
  ASSUME MemoryInv, NEW t \in DOMAIN pc, ReturnToCaller(t)
  PROVE  /\ Alone(t) /\ ExitEffect(t) /\ tail' = tail
         /\ pc'[t] = "back" /\ base'[t] = base[t] /\ top'[t] = top[t] - 1 /\ base[t] < top[t]
         /\ \A l \in Level : l < top[t] =>
              /\ cxt'[area[t]][l].max = cxt[area[t]][l].max
              /\ cxt'[area[t]][l].start = cxt[area[t]][l].start
              /\ cxt'[area[t]][l].liveIn = cxt[area[t]][l].liveIn
<1>1. /\ Exit(t) /\ top[t] > base[t] /\ base' = base /\ tail' = tail
      /\ cxt' = [cxt EXCEPT ![area[t]] = Restored(t)]
      /\ top' = [top EXCEPT ![t] = @ - 1] /\ rc' = [rc EXCEPT ![t] = @ - 1]
      /\ pc' = [pc EXCEPT ![t] = "back"]
  BY DEF ReturnToCaller, Exit
<1>2. pc[t] = "exit"
  BY <1>1 DEF Exit, At
<1>3. area[t] \in DOMAIN cxt /\ top[t] \in Nat /\ base[t] \in Nat /\ DOMAIN top = DOMAIN pc
  BY <1>2, LevelRange
<1>4. Alone(t) /\ ExitEffect(t)
  BY <1>1, ExitEffects
<1>5. \A l \in Level : l < top[t] =>
        /\ cxt'[area[t]][l].max = cxt[area[t]][l].max
        /\ cxt'[area[t]][l].start = cxt[area[t]][l].start
        /\ cxt'[area[t]][l].liveIn = cxt[area[t]][l].liveIn
  BY <1>1, <1>2, <1>3, RestoredFacts
<1> QED BY <1>1, <1>3, <1>4, <1>5

LEMMA ReturnToCallerWork ==
  ASSUME MemoryInv, WorkOK, TailsOK, NEW t \in DOMAIN pc, ReturnToCaller(t)
  PROVE  WorkOK' /\ TailsOK'
<1>1. /\ Alone(t) /\ ExitEffect(t) /\ tail' = tail /\ pc[t] = "exit" /\ started' = started
      /\ pc'[t] = "back" /\ base'[t] = base[t] /\ top'[t] = top[t] - 1 /\ base[t] < top[t]
      /\ until'[t] = until[t] /\ area'[t] = area[t] /\ Forked(t)' = Forked(t)
  <2>1. Alone(t) /\ ExitEffect(t)
    BY ReturnToCallerEffects
  <2>2. Forked(t)' = Forked(t)
    BY <2>1, AloneForked
  <2> QED BY <2>1, <2>2, ReturnToCallerEffects DEF ExitEffect, Alone
<1>2. /\ \A l \in Level : l < top[t] =>
           /\ Cxt(t)[l]'.max = Cxt(t)[l].max
           /\ Cxt(t)[l]'.start = Cxt(t)[l].start
           /\ Cxt(t)[l]'.liveIn = Cxt(t)[l].liveIn
  BY <1>1, ReturnToCallerEffects DEF Cxt
<1>3. /\ until[t] \in Nat /\ base[t] \in Nat /\ top[t] \in Nat /\ Leaf \in Nat
      /\ until[t] <= base[t] /\ top[t] <= Leaf /\ Level = 0 .. Leaf
  BY <1>1, LevelRange
<1>4. HoldsKept(t)
  <2> SUFFICES ASSUME NEW row \in DOMAIN Bounds, NEW i \in Indices(row)
               PROVE  Holds(t, row, i)' <=> Holds(t, row, i)
    BY DEF HoldsKept
  <2> DEFINE l == Len(row)
  <2>0. l \in Nat
    BY RowFacts
  <2>1. CASE l \notin until[t] .. top[t] - 1 \/ Forked(t)
    <3>1. ~Holds(t, row, i)'
      BY <1>1, <2>1 DEF Holds
    <3>2. ~Holds(t, row, i)
      BY <1>1, <1>3, <2>0, <2>1 DEF Holds
    <3> QED BY <3>1, <3>2
  <2>2. CASE l \in until[t] .. top[t] - 1 /\ ~Forked(t)
    <3>1. l \in Level /\ l < top[t] /\ l # top[t] /\ l \in until[t] .. top[t]
      BY <1>3, <2>2
    <3>2. ReadableAt(t, l)
      BY <1>1, <2>2, <3>1, WorkLevel
    <3>3. RowOf(t, l)' = RowOf(t, l)
      <4>1. Cxt(t)[l].liveIn \in DOMAIN array /\ Cxt(t)[l].liveIn # <<t, top[t]>>
        <5>1. Owned(t, {l - 1}, Cxt(t)[l].liveIn)
          BY <3>2 DEF ReadableAt
        <5>2. l <= top[t]
          BY <1>3, <3>1
        <5> QED BY <1>3, <2>0, <5>1, <5>2, ElderArrays
      <4>2. array'[Cxt(t)[l].liveIn].live = array[Cxt(t)[l].liveIn].live
        BY <1>1, <4>1 DEF ExitEffect
      <4> QED BY <1>2, <3>1, <4>2 DEF RowOf
    <3>4. Ahead(t, l)' = Ahead(t, l)
      BY <1>1, <1>2, <3>1 DEF Ahead
    <3> QED BY <1>1, <1>2, <2>2, <3>1, <3>3, <3>4 DEF Holds
  <2> QED BY <2>1, <2>2
<1>5. EnteredKept(t)
  <2>1. EnteredLevels(t)' = {l \in base[t] .. top[t] - 1 : l < Leaf}
    BY <1>1 DEF EnteredLevels, ExitEffect
  <2>2. EnteredLevels(t) = {l \in base[t] .. top[t] : l < Leaf /\ l < top[t]}
    BY <1>1 DEF EnteredLevels, ExitEffect
  <2>3. EnteredLevels(t)' = EnteredLevels(t)
    BY <1>3, <2>1, <2>2
  <2>4. ASSUME NEW l \in EnteredLevels(t)
        PROVE  frame'[t][l] = frame[t][l] /\ array'[<<t, l>>].live = array[<<t, l>>].live
    <3>1. l \in base[t] .. top[t] - 1 /\ <<t, l>> # <<t, top[t]>> /\ <<t, l>> \in DOMAIN array
      BY <1>3, <2>1, <2>3, EnteredFacts
    <3> QED BY <1>1, <3>1 DEF ExitEffect
  <2> QED BY <2>3, <2>4 DEF EnteredKept
<1>6. top'[t] < Leaf
  BY <1>1, <1>3
<1> QED BY <1>1, <1>4, <1>5, <1>6, QuietWork

LEMMA ReturnToLeftoverWork ==
  ASSUME MemoryInv, WorkOK, TailsOK, NEW t \in DOMAIN pc, ReturnToLeftover(t)
  PROVE  WorkOK' /\ TailsOK'
<1> DEFINE up == base[t] - 1
           a  == area[t]
<1>1. /\ Exit(t) /\ top[t] = base[t] /\ base[t] > until[t]
      /\ cxt' = [cxt EXCEPT ![a] = [Restored(t) EXCEPT ![up].start = AfterSuspended(@)]]
      /\ base' = [base EXCEPT ![t] = up] /\ top' = [top EXCEPT ![t] = up]
      /\ pc' = [pc EXCEPT ![t] = "enter"] /\ rc' = rc
  BY DEF ReturnToLeftover
<1>2. pc[t] = "exit" /\ tail' = tail /\ started' = started
  BY <1>1 DEF Exit, At
<1>3. /\ until[t] \in Nat /\ base[t] \in Nat /\ top[t] \in Nat /\ Leaf \in Nat
      /\ until[t] <= base[t] /\ top[t] <= Leaf /\ Level = 0 .. Leaf
      /\ a \in DOMAIN cxt /\ DOMAIN base = DOMAIN pc /\ DOMAIN top = DOMAIN pc
  BY <1>2, LevelRange
<1>4. Alone(t) /\ ExitEffect(t)
  BY <1>1, ExitEffects
<1>5. /\ pc'[t] = "enter" /\ base'[t] = up /\ top'[t] = up
      /\ until'[t] = until[t] /\ area'[t] = area[t] /\ Forked(t)' = Forked(t)
  BY <1>1, <1>3, <1>4, AloneForked DEF Alone
<1>6. ASSUME NEW l \in Level, l < top[t]
      PROVE  /\ Cxt(t)[l]'.max = Cxt(t)[l].max
             /\ Cxt(t)[l]'.liveIn = Cxt(t)[l].liveIn
             /\ Cxt(t)[l]'.start = IF l = up THEN Cxt(t)[l].start + 1 ELSE Cxt(t)[l].start
  <2>1. cxt'[a] = [Restored(t) EXCEPT ![up].start = Restored(t)[up].start + 1]
    BY <1>1, <1>3 DEF AfterSuspended
  <2>2. Cxt(t)' = cxt'[a] /\ Cxt(t) = cxt[a]
    BY <1>5 DEF Cxt
  <2>3. /\ DOMAIN Restored(t) = Level
        /\ DOMAIN Restored(t)[l] = {"start", "max", "liveIn", "liveOut"}
        /\ Restored(t)[l] = cxt[a][l]
    BY <1>2, <1>6, RestoredFacts
  <2> HIDE DEF a
  <2> QED BY <1>3, <1>6, <2>1, <2>2, <2>3
<1>7. HoldsKept(t)
  <2> SUFFICES ASSUME NEW row \in DOMAIN Bounds, NEW i \in Indices(row)
               PROVE  Holds(t, row, i)' <=> Holds(t, row, i)
    BY DEF HoldsKept
  <2> DEFINE l == Len(row)
  <2>0. l \in Nat
    BY RowFacts
  <2>1. CASE l \notin until[t] .. top[t] - 1 \/ Forked(t)
    <3>1. ~Holds(t, row, i)'
      BY <1>1, <1>5, <2>1 DEF Holds
    <3>2. ~Holds(t, row, i)
      BY <1>2, <1>3, <2>0, <2>1 DEF Holds
    <3> QED BY <3>1, <3>2
  <2>2. CASE l \in until[t] .. top[t] - 1 /\ ~Forked(t)
    <3>1. /\ l \in Level /\ l < top[t] /\ l # top[t] /\ l \in until[t] .. top[t] /\ l <= top[t]
          /\ l = up \/ l < up
      BY <1>1, <1>3, <2>2
    <3>2. ReadableAt(t, l)
      BY <1>2, <2>2, <3>1, WorkLevel
    <3>3. RowOf(t, l)' = RowOf(t, l)
      <4>1. Cxt(t)[l].liveIn \in DOMAIN array /\ Cxt(t)[l].liveIn # <<t, top[t]>>
        <5>1. Owned(t, {l - 1}, Cxt(t)[l].liveIn)
          BY <3>2 DEF ReadableAt
        <5> QED BY <1>3, <2>0, <3>1, <5>1, ElderArrays
      <4>2. array'[Cxt(t)[l].liveIn].live = array[Cxt(t)[l].liveIn].live
        BY <1>4, <4>1 DEF ExitEffect
      <4> QED BY <1>6, <3>1, <4>2 DEF RowOf
    <3>4. Ahead(t, l) = Cxt(t)[l].start + 1
      BY <3>1 DEF Ahead
    <3>5. Ahead(t, l)' = Cxt(t)[l].start + 1
      <4>1. CASE l < up
        <5>1. l # up
          BY <1>3, <4>1, <2>0
        <5> QED BY <1>5, <1>6, <3>1, <4>1, <5>1 DEF Ahead
      <4>2. CASE l = up
        <5>1. ~(l < up)
          BY <1>3, <4>2
        <5> QED BY <1>5, <1>6, <3>1, <4>2, <5>1 DEF Ahead
      <4> QED BY <3>1, <4>1, <4>2
    <3>6. Cxt(t)[l]'.max = Cxt(t)[l].max /\ l \in until'[t] .. top'[t]
      BY <1>1, <1>5, <1>6, <2>2, <3>1
    <3> QED BY <1>2, <1>5, <2>2, <3>1, <3>3, <3>4, <3>5, <3>6 DEF Holds
  <2> QED BY <2>1, <2>2
<1>8. EnteredKept(t)
  <2>1. EnteredLevels(t)' = {}
    BY <1>1, <1>3, <1>4 DEF EnteredLevels, ExitEffect
  <2>2. EnteredLevels(t) = {}
    BY <1>1, <1>2, <1>3, <1>4 DEF EnteredLevels, ExitEffect
  <2> QED BY <2>1, <2>2 DEF EnteredKept
<1> QED BY <1>2, <1>4, <1>5, <1>7, <1>8, QuietWork

LEMMA ReturnFromTaskWork ==
  ASSUME MemoryInv, WorkOK, TailsOK, NEW t \in DOMAIN pc, ReturnFromTask(t)
  PROVE  WorkOK' /\ TailsOK'
<1>1. /\ Exit(t) /\ top[t] = base[t] /\ (base[t] > until[t] => EndsLeftover(rc[t] - 1))
      /\ cxt' = [cxt EXCEPT ![area[t]] = Restored(t)]
      /\ base' = base /\ top' = top /\ rc' = rc /\ pc' = [pc EXCEPT ![t] = "done"]
  BY DEF ReturnFromTask
<1>2. pc[t] = "exit" /\ tail' = tail /\ started' = started
  BY <1>1 DEF Exit, At
<1>3. /\ until[t] \in Nat /\ base[t] \in Nat /\ top[t] \in Nat /\ Leaf \in Nat
      /\ until[t] <= base[t] /\ top[t] <= Leaf
  BY <1>2, LevelRange
<1>4. Alone(t) /\ ExitEffect(t)
  BY <1>1, ExitEffects
<1>5. pc'[t] = "done"
  BY <1>1
<1>6. ~Forked(t) => base[t] = until[t]
  <2>1. CodeOK(t) /\ (~Forked(t) => Given(t) = Leaf + 1)
    BY <1>2, OwnFacts, GivenFacts
  <2>2. ~Forked(t) => rc[t] = 0
    BY <1>2, <1>3, <2>1 DEF CodeOK
  <2> QED BY <1>1, <1>3, <2>2 DEF EndsLeftover
<1>7. HoldsKept(t)
  <2> SUFFICES ASSUME NEW row \in DOMAIN Bounds, NEW i \in Indices(row)
               PROVE  ~Holds(t, row, i)' /\ ~Holds(t, row, i)
    BY DEF HoldsKept
  <2>1. ~Holds(t, row, i)'
    BY <1>5 DEF Holds
  <2>2. Forked(t) \/ Len(row) \notin until[t] .. top[t] \/ Len(row) = top[t]
    BY <1>1, <1>3, <1>6
  <2> QED BY <1>2, <2>1, <2>2 DEF Holds
<1>8. EnteredKept(t)
  <2>1. EnteredLevels(t)' = {}
    BY <1>1, <1>3, <1>4 DEF EnteredLevels, ExitEffect
  <2>2. EnteredLevels(t) = {}
    BY <1>1, <1>2, <1>3, <1>4 DEF EnteredLevels, ExitEffect
  <2> QED BY <2>1, <2>2 DEF EnteredKept
<1> QED BY <1>2, <1>4, <1>5, <1>7, <1>8, QuietWork

\* A task whose branches are done leaves its leaf loop.
JoinEffect(t) ==
  /\ pc[t] = "join" /\ pc' = [pc EXCEPT ![t] = "exit"] /\ Forked(t) /\ top[t] = Leaf
  /\ UNCHANGED <<rc, base, top, until, area, frame, array, started, tail>>
  /\ pc[Append(t, 0)] = "done" /\ pc[Append(t, 1)] = "done"
  /\ \A a \in DOMAIN cxt : a # Append(t, 1) => cxt'[a] = cxt[a]

LEMMA JoinEffects ==
  ASSUME MemoryInv, NEW t \in DOMAIN pc, Join(t)
  PROVE  JoinEffect(t)
<1>1. pc[t] = "join"
  BY DEF Join, At
<1>2. CodeOK(t) /\ Forked(t) /\ Given(t) <= Leaf /\ Given(t) \in Int /\ Leaf \in Nat
  <2>1. CodeOK(t)
    BY <1>1, OwnFacts
  <2>2. Forked(t)
    BY <1>1, <2>1 DEF CodeOK
  <2> QED BY <2>1, <2>2, GivenFacts, LevelFacts
<1>3. top[t] = Leaf /\ rc[t] > 0
  BY <1>1, <1>2 DEF CodeOK
<1>4. /\ pc' = [pc EXCEPT ![t] = "exit"]
      /\ UNCHANGED <<rc, base, top, until, area, frame, array, started, tail>>
      /\ pc[Append(t, 0)] = "done" /\ pc[Append(t, 1)] = "done"
  BY <1>3 DEF Join, LeavesLeaf
<1>5. \A a \in DOMAIN cxt : a # Append(t, 1) => cxt'[a] = cxt[a]
  BY DEF Join
<1> QED BY <1>1, <1>2, <1>3, <1>4, <1>5 DEF JoinEffect

LEMMA JoinWork ==
  ASSUME MemoryInv, WorkOK, TailsOK, NEW t \in DOMAIN pc, Join(t)
  PROVE  WorkOK' /\ TailsOK'
<1>1. JoinEffect(t)
  BY JoinEffects
<1>2. /\ DOMAIN pc' = DOMAIN pc /\ pc[t] = "join" /\ pc'[t] = "exit" /\ Forked(t)
      /\ UNCHANGED <<rc, base, top, until, area, frame, array, started, tail>>
      /\ \A v \in DOMAIN pc : v # t => pc'[v] = pc[v]
  BY <1>1 DEF JoinEffect
<1>3. \A v : Forked(v)' = Forked(v)
  BY <1>2 DEF Forked
<1>4. \A v \in DOMAIN pc : v # t => HoldsKept(v) /\ EnteredKept(v)
  <2> SUFFICES ASSUME NEW v \in DOMAIN pc, v # t PROVE HoldsKept(v) /\ EnteredKept(v)
    OBVIOUS
  <2>1. pc[v] # "done" => cxt'[area[v]] = cxt[area[v]]
    <3>1. ControlInv /\ t \in Paths
      BY MemoryParts, AreaOf
    <3>2. pc[Append(t, 1)] = "done" /\ \A a \in DOMAIN cxt : a # Append(t, 1) => cxt'[a] = cxt[a]
      BY <1>1 DEF JoinEffect
    <3>3. pc[v] # "done" => area[v] # Append(t, 1)
      BY <3>1, <3>2, SecondAreaIdle
    <3> QED BY <3>2, <3>3, OwnFacts
  <2>2. pc[v] # "done" => ArraysKept(v)
    BY <1>2 DEF ArraysKept
  <2>3. HoldsKept(v)
    BY <1>2, <1>3, <2>1, <2>2, OthersHold
  <2> QED BY <1>2, <2>3, OthersEntered
<1>5. HoldsKept(t)
  BY <1>2, <1>3 DEF HoldsKept, Holds
<1>6. EnteredKept(t)
  BY <1>2 DEF EnteredKept, EnteredLevels
<1>7. ASSUME NEW v \in DOMAIN pc
      PROVE  HoldsKept(v) /\ EnteredKept(v) /\ (pc'[v] = "back" => top'[v] < Leaf)
  <2>1. CASE v = t
    BY <1>2, <1>5, <1>6, <2>1
  <2>2. CASE v # t
    BY <1>2, <1>4, <2>2 DEF TailsOK
  <2> QED BY <2>1, <2>2
<1> QED BY <1>2, <1>7, WorkKept
-----------------------------------------------------------------------------
(***************************************************************************)
(* The steps that start iterations.                                        *)
(***************************************************************************)
LEMMA UnderStarted ==
  ASSUME MemoryInv, TailsOK, NEW v \in DOMAIN pc, pc[v] # "done", NEW row, Under(v, row), row # <<>>
  PROVE  row \in Outer /\ started[row] = 1 /\ tail[row] = <<>>
<1>1. PICK p \in Ancestors(v) \cup {v} : row \in Entered(p)
  BY DEF Under
<1>2. p \in DOMAIN pc
  BY Lineage
<1>3. PICK l \in EnteredLevels(p) : row = EnteredAt(p, l)
  BY <1>1 DEF Entered
<1>4. EnteredOK(p, l)
  BY <1>2, <1>3 DEF TailsOK
<1> QED BY <1>3, <1>4 DEF EnteredOK

\* What a task holds has not started, and belongs to something that has.
LEMMA HeldFacts ==
  ASSUME MemoryInv, WorkOK, TailsOK, NEW v \in DOMAIN pc, NEW row \in DOMAIN Bounds,
         NEW i \in Indices(row), Holds(v, row, i)
  PROVE  /\ started[Append(row, i)] = 0 /\ Under(v, row)
         /\ row # <<>> => started[row] = 1 /\ tail[row] = <<>>
         /\ \A u \in DOMAIN pc : Holds(u, row, i) => u = v
<1>1. /\ started[Append(row, i)] = 0 /\ Under(v, row)
      /\ \A u \in DOMAIN pc : Holds(u, row, i) => u = v
  BY DEF WorkOK, Indices
<1>2. pc[v] # "done"
  BY DEF Holds
<1> QED BY <1>1, <1>2, UnderStarted

\* Task t starts the iterations S, which it holds, and goes into those opened.
Starts(t, S, opened) ==
  /\ started' = [c \in Iterations |-> started[c] + (IF c \in S THEN 1 ELSE 0)]
  /\ \A row \in DOMAIN Bounds : \A i \in Indices(row) :
       /\ Append(row, i) \in S => Holds(t, row, i)
       /\ Holds(t, row, i)' <=> row \in opened \/ (Holds(t, row, i) /\ Append(row, i) \notin S)
  /\ Entered(t)' = Entered(t) \cup opened
  /\ \A l \in EnteredLevels(t)' :
       /\ array'[<<t, l>>].live = EnteredAt(t, l)'
       /\ IF l \in EnteredLevels(t)
          THEN EnteredAt(t, l)' = EnteredAt(t, l) /\ frame'[t][l].row = frame[t][l].row
          ELSE /\ EnteredAt(t, l)' \in opened
               /\ frame'[t][l].row \in DOMAIN Bounds /\ Len(frame'[t][l].row) = l
               /\ Under(t, frame'[t][l].row)

LEMMA StartedWork ==
  ASSUME MemoryInv, WorkOK, TailsOK, NEW t \in DOMAIN pc, pc[t] \notin {"done", "join", "back"},
         pc'[t] \notin {"done", "back"},
         Alone(t), tail' = tail,
         NEW S \in SUBSET Iterations, NEW opened \in SUBSET Outer, opened = S \cap Outer,
         Starts(t, S, opened)
  PROVE  WorkOK' /\ TailsOK'
<1> USE DEF Starts
<1>1. DOMAIN pc' = DOMAIN pc /\ \A v \in DOMAIN pc : v # t => pc'[v] = pc[v] /\ top'[v] = top[v]
  BY DEF Alone
<1>2. \A v \in DOMAIN pc : v # t => HoldsKept(v) /\ EnteredKept(v)
  BY AloneOthers
<1>3. \A v \in DOMAIN pc : v # t => Entered(v)' = Entered(v)
  BY <1>2, EnteredSame
<1>4. ASSUME NEW row \in DOMAIN Bounds, row # <<>>
      PROVE  row \in Outer /\ row \in Iterations /\ (row \in S <=> row \in opened)
  BY <1>4, RowFacts
<1>5. ASSUME NEW row \in DOMAIN Bounds, NEW i \in Indices(row)
      PROVE  /\ Append(row, i) \in Iterations
             /\ started[Append(row, i)] \in {0, 1}
             /\ started'[Append(row, i)] = started[Append(row, i)]
                                           + (IF Append(row, i) \in S THEN 1 ELSE 0)
             /\ Append(row, i) \in S => started[Append(row, i)] = 0 /\ Holds(t, row, i)
  <2>1. Append(row, i) \in Iterations
    BY IterationFacts
  <2>2. started[Append(row, i)] \in {0, 1}
    BY <2>1 DEF WorkOK
  <2>3. Append(row, i) \in S => Holds(t, row, i)
    OBVIOUS
  <2> QED BY <2>1, <2>2, <2>3, HeldFacts
<1>6. ASSUME NEW c \in Iterations
      PROVE  /\ started[c] \in {0, 1} /\ started'[c] \in {0, 1}
             /\ started[c] = 1 => started'[c] = 1
             /\ c \in S => started[c] = 0 /\ started'[c] = 1
             /\ c \notin S => started'[c] = started[c]
  <2>1. PICK row \in DOMAIN Bounds : \E i \in Indices(row) : c = Append(row, i)
    BY RowOfIteration
  <2>2. PICK i \in Indices(row) : c = Append(row, i)
    BY <2>1
  <2> QED BY <1>5, <2>2
<1>7. ASSUME NEW v \in DOMAIN pc, pc[v] # "done", NEW row, Under(v, row) PROVE Under(v, row)'
  <2>1. \A p \in DOMAIN pc : row \in Entered(p) => row \in Entered(p)'
    BY <1>3
  <2> QED BY <1>7, <2>1, UnderKept
\* An iteration of what t goes into has not started and no one holds it.
<1>8. ASSUME NEW row \in opened, row \in DOMAIN Bounds, NEW i \in Indices(row)
      PROVE  /\ started'[Append(row, i)] = 0
             /\ \A u \in DOMAIN pc : ~Holds(u, row, i)
             /\ row # <<>> /\ started[row] = 0
  <2>1. row # <<>> /\ row \in S /\ row \in Iterations
    BY DEF Outer
  <2>2. started[row] = 0
    BY <1>6, <2>1
  <2>3. \A u \in DOMAIN pc : ~Holds(u, row, i)
    BY <1>8, <2>1, <2>2, HeldFacts
  <2>4. Append(row, i) \notin S
    BY <1>8, <2>3
  <2>5. started[Append(row, i)] = 0
    BY <1>5, <1>8, <2>1, <2>2 DEF WorkOK, Indices
  <2> QED BY <1>5, <1>8, <2>1, <2>2, <2>3, <2>4, <2>5
<1>9. WorkOK'
  <2>1. DOMAIN tail' = Outer /\ \A c \in Iterations : started'[c] \in {0, 1}
    BY <1>6 DEF WorkOK
  <2>2. ASSUME NEW row \in DOMAIN Bounds, NEW i \in Indices(row)
        PROVE  IF started'[Append(row, i)] = 0
               THEN \/ \E v \in DOMAIN pc' : Holds(v, row, i)'
                    \/ row # <<>> /\ started'[row] = 0
               ELSE row # <<>> => started'[row] = 1
    <3>1. IF started[Append(row, i)] = 0
          THEN (\E v \in DOMAIN pc : Holds(v, row, i)) \/ (row # <<>> /\ started[row] = 0)
          ELSE row # <<>> => started[row] = 1
      BY <2>2 DEF WorkOK, Indices
    <3>2. CASE started'[Append(row, i)] = 0
      <4>1. started[Append(row, i)] = 0 /\ Append(row, i) \notin S
        BY <1>5, <3>2
      <4>2. CASE \E v \in DOMAIN pc : Holds(v, row, i)
        <5>1. PICK v \in DOMAIN pc : Holds(v, row, i)
          BY <4>2
        <5>2. Holds(v, row, i)'
          BY <1>2, <4>1, <5>1 DEF HoldsKept
        <5> QED BY <1>1, <3>2, <5>2
      <4>3. CASE row # <<>> /\ started[row] = 0
        <5>1. row \in opened => Holds(t, row, i)'
          OBVIOUS
        <5>2. row \notin opened => started'[row] = 0
          BY <1>4, <1>6, <4>3
        <5> QED BY <1>1, <3>2, <4>3, <5>1, <5>2
      <4> QED BY <3>1, <4>1, <4>2, <4>3
    <3>3. CASE started'[Append(row, i)] # 0
      <4>1. row # <<>> => started[row] = 1
        <5>1. CASE Append(row, i) \in S
          BY <5>1, HeldFacts
        <5>2. CASE Append(row, i) \notin S
          BY <1>5, <3>1, <3>3, <5>2
        <5> QED BY <5>1, <5>2
      <4> QED BY <1>4, <1>6, <3>3, <4>1
    <3> QED BY <3>2, <3>3
  <2>3. ASSUME NEW v \in DOMAIN pc, NEW row \in DOMAIN Bounds, NEW i \in Indices(row),
               Holds(v, row, i)'
        PROVE  /\ started'[Append(row, i)] = 0
               /\ Under(v, row)'
               /\ \A u \in DOMAIN pc' : Holds(u, row, i)' => u = v
    <3>1. CASE row \in opened
      <4>1. \A u \in DOMAIN pc : u # t => ~Holds(u, row, i)'
        BY <1>2, <1>8, <3>1 DEF HoldsKept
      <4>2. v = t /\ \A u \in DOMAIN pc' : Holds(u, row, i)' => u = v
        BY <1>1, <2>3, <4>1
      <4>3. row \in Entered(t)'
        BY <3>1
      <4> QED BY <1>8, <3>1, <4>2, <4>3 DEF Under
    <3>2. CASE row \notin opened
      <4>1. \A u \in DOMAIN pc : Holds(u, row, i)' => Holds(u, row, i)
        BY <1>2, <3>2 DEF HoldsKept
      <4>2. /\ started[Append(row, i)] = 0 /\ Under(v, row) /\ pc[v] # "done"
            /\ \A u \in DOMAIN pc : Holds(u, row, i) => u = v
        BY <2>3, <4>1, HeldFacts DEF Holds
      <4>3. Append(row, i) \notin S
        <5>1. v = t => Append(row, i) \notin S
          BY <2>3, <3>2
        <5>2. Append(row, i) \in S => v = t
          BY <4>2
        <5> QED BY <5>1, <5>2
      <4>4. Under(v, row)'
        BY <1>7, <4>2
      <4> QED BY <1>1, <1>5, <4>1, <4>2, <4>3, <4>4
    <3> QED BY <3>1, <3>2
  <2> QED BY <1>1, <2>1, <2>2, <2>3 DEF WorkOK, Indices
<1>10. TailsOK'
  <2>1. \A v \in DOMAIN pc : pc'[v] = "back" => top'[v] < Leaf
    BY <1>1 DEF TailsOK
  <2>2. ASSUME NEW v \in DOMAIN pc, NEW l \in EnteredLevels(v), EnteredOK(v, l),
               NEW row, row = frame[v][l].row, frame'[v][l].row = row,
               NEW c, c = EnteredAt(v, l), EnteredAt(v, l)' = c, array'[<<v, l>>].live = c
        PROVE  EnteredOK(v, l)'
    <3>1. /\ row \in DOMAIN Bounds /\ Len(row) = l
          /\ c \in Outer /\ started[c] = 1 /\ tail[c] = <<>>
          /\ Under(v, row)
          /\ \A u \in DOMAIN pc : c \in Entered(u) => u = v
      BY <2>2 DEF EnteredOK
    <3>2. pc[v] # "done"
      BY EnteredFacts
    <3>3. Under(v, row)'
      BY <1>7, <3>1, <3>2
    <3>4. c \in Iterations
      BY <3>1, RowFacts DEF Outer
    <3>5. started'[c] = 1 /\ c \notin S
      BY <1>6, <3>1, <3>4
    <3>6. \A u \in DOMAIN pc : c \in Entered(u)' => u = v
      BY <1>3, <3>1, <3>5
    <3> QED BY <1>1, <2>2, <3>1, <3>3, <3>5, <3>6 DEF EnteredOK, Under, Ancestors
  <2>3. ASSUME NEW l \in EnteredLevels(t)', l \notin EnteredLevels(t),
               NEW row, row = frame'[t][l].row, NEW c, c = EnteredAt(t, l)'
        PROVE  EnteredOK(t, l)'
    <3>1. c \in Outer /\ c \in S /\ c \in Iterations /\ c \in opened
      BY <2>3
    <3>2. started[c] = 0 /\ started'[c] = 1
      BY <1>6, <3>1
    <3>3. ASSUME NEW u \in DOMAIN pc, c \in Entered(u) PROVE FALSE
      <4>1. PICK n \in EnteredLevels(u) : c = EnteredAt(u, n)
        BY <3>3 DEF Entered
      <4>2. EnteredOK(u, n)
        BY <4>1 DEF TailsOK
      <4>3. started[c] = 1
        BY <4>1, <4>2 DEF EnteredOK
      <4> QED BY <3>2, <4>3
    <3>4. \A u \in DOMAIN pc : c \in Entered(u)' => u = t
      BY <1>3, <3>3
    <3>5. tail[c] = <<>>
      BY <3>1, <3>2 DEF TailsOK
    <3>6. row \in DOMAIN Bounds /\ Len(row) = l /\ array'[<<t, l>>].live = c
      BY <2>3
    <3>7. Under(t, row)'
      BY <1>7, <2>3
    <3> QED BY <1>1, <2>3, <3>1, <3>2, <3>4, <3>5, <3>6, <3>7 DEF EnteredOK, Under, Ancestors
  <2>4. ASSUME NEW v \in DOMAIN pc, NEW l \in EnteredLevels(v)' PROVE EnteredOK(v, l)'
    <3>1. CASE v # t
      <4>1. l \in EnteredLevels(v) /\ EnteredOK(v, l)
        BY <1>2, <2>4, <3>1 DEF EnteredKept, TailsOK
      <4>2. PICK row, c : row = frame[v][l].row /\ c = EnteredAt(v, l)
        OBVIOUS
      <4>3. array[<<v, l>>].live = c
        BY <4>1, <4>2 DEF EnteredOK
      <4>4. /\ frame'[v][l].row = row /\ frame'[v][l].iv = frame[v][l].iv
            /\ array'[<<v, l>>].live = c
        BY <1>2, <3>1, <4>1, <4>2, <4>3 DEF EnteredKept
      <4>5. EnteredAt(v, l)' = c
        BY <4>2, <4>4 DEF EnteredAt
      <4> QED BY <2>2, <4>1, <4>2, <4>4, <4>5
    <3>2. CASE v = t /\ l \in EnteredLevels(t)
      <4>1. EnteredOK(t, l)
        BY <3>2 DEF TailsOK
      <4>2. PICK row, c : row = frame[t][l].row /\ c = EnteredAt(t, l)
        OBVIOUS
      <4>3. EnteredAt(t, l)' = c /\ array'[<<t, l>>].live = c
        BY <2>4, <3>2, <4>2
      <4>4. frame'[t][l].row = row
        BY <2>4, <3>2, <4>2
      <4> QED BY <2>2, <3>2, <4>1, <4>2, <4>3, <4>4
    <3>3. CASE v = t /\ l \notin EnteredLevels(t)
      <4>1. EnteredAt(t, l)' \in opened
        BY <2>4, <3>3
      <4> QED BY <2>3, <2>4, <3>3, <4>1
    <3> QED BY <3>1, <3>2, <3>3
  <2>5. ASSUME NEW c \in Outer, started'[c] = 1, tail'[c] = <<>>
        PROVE  \E v \in DOMAIN pc' : c \in Entered(v)'
    <3>1. c \in Iterations
      BY RowFacts DEF Outer
    <3>2. c \in opened => c \in Entered(t)'
      OBVIOUS
    <3>3. c \notin opened => started[c] = 1
      BY <1>6, <2>5, <3>1
    <3>4. c \notin opened => \E v \in DOMAIN pc : c \in Entered(v)
      BY <2>5, <3>3 DEF TailsOK
    <3>5. \A v \in DOMAIN pc : c \in Entered(v) => c \in Entered(v)'
      BY <1>3
    <3> QED BY <1>1, <3>2, <3>4, <3>5
  <2>6. \A c \in Outer : tail'[c] # <<>> => started'[c] = 1
    <3> SUFFICES ASSUME NEW c \in Outer, tail[c] # <<>> PROVE started'[c] = 1
      OBVIOUS
    <3>1. c \in Iterations
      BY RowFacts DEF Outer
    <3> QED BY <1>6, <3>1 DEF TailsOK
  <2> QED BY <1>1, <2>1, <2>4, <2>5, <2>6 DEF TailsOK
<1> QED BY <1>9, <1>10

\* The iterations of a row from one to another.
Part(row, from, to) == {Append(row, i) : i \in from .. to - 1}

\* A chunk of the leaf's row, up to high.
ChunkEffect(t, high) ==
  LET r == frame[t][Leaf]
      q == frame'[t][Leaf]
  IN
  /\ pc[t] = "header" /\ top[t] = Leaf /\ ~Forked(t)
  /\ (pc'[t] = "poll" \/ (pc'[t] = "exit" /\ high = r.max)) /\ rc'[t] = 0
  /\ UNCHANGED <<base, top, array, cxt, tail>>
  /\ DOMAIN frame'[t] = DOMAIN frame[t] /\ Leaf \in DOMAIN frame[t]
  /\ \A l \in DOMAIN frame[t] : l # Leaf => frame'[t][l] = frame[t][l]
  /\ q.iv = r.iv /\ q.max = r.max /\ q.row = r.row /\ q.out = r.out /\ q.low = high
  /\ q.priv = r.priv (+) SetToBag(Part(r.row, r.iv, high))
  /\ r.iv \in Nat /\ high \in Nat /\ r.max \in Nat /\ r.iv < high /\ high <= r.max
  /\ r.row \in DOMAIN Bounds /\ Len(r.row) = Leaf
  /\ Bounds[r.row].first <= r.iv /\ r.max <= Bounds[r.row].last
  /\ RowOf(t, Leaf) = r.row /\ Cxt(t)[Leaf].max = r.max
  /\ started' = [c \in Iterations |->
                   started[c] + (IF c \in Part(r.row, r.iv, high) THEN 1 ELSE 0)]

LEMMA RunChunkEffects ==
  ASSUME MemoryInv, NEW t \in DOMAIN pc, RunChunk(t)
  PROVE  Alone(t) /\ \E high : ChunkEffect(t, high)
<1> DEFINE r == frame[t][Leaf]
           m == tmem[area[t]]
<1>1. pc[t] = "header" /\ top[t] = Leaf /\ r.iv < r.max /\ Reg(t) = r
  BY DEF RunChunk, At, Reg
<1>2. /\ Leaf \in DOMAIN frame[t] /\ t \in DOMAIN frame /\ ~Forked(t)
      /\ DOMAIN r = {"iv", "max", "row", "out", "low", "chunk", "priv"}
      /\ ReadableAt(t, Leaf) /\ FrameAt(t, Leaf)
      /\ r.iv \in Nat /\ r.max \in Nat /\ Bounds[r.row].first <= r.iv
  BY <1>1, LeafFacts
<1>3. m.remaining \in Nat /\ m.remaining > 0
  <2>1. MemoryOK(t)
    BY <1>1, OwnFacts
  <2>2. m.chunksize \in Nat /\ m.remaining \in 1 .. m.chunksize
    BY <1>1, <1>2, <2>1 DEF MemoryOK
  <2> QED BY <2>2
<1>4. DOMAIN rc = DOMAIN pc /\ DOMAIN frame = DOMAIN pc
  BY <1>1, LevelRange
<1> DEFINE high == IF r.iv + m.remaining < r.max THEN r.iv + m.remaining ELSE r.max
           done == Part(r.row, r.iv, high)
<1>5. high \in Nat /\ r.iv < high /\ high <= r.max /\ (high - r.iv # m.remaining => high = r.max)
  BY <1>1, <1>2, <1>3
<1>6. /\ started' = [c \in Iterations |-> started[c] + (IF c \in done THEN 1 ELSE 0)]
      /\ frame' = [frame EXCEPT ![t][Leaf] =
            [@ EXCEPT !.low = high, !.chunk = m.remaining, !.priv = r.priv (+) SetToBag(done)]]
      /\ pc' = [pc EXCEPT ![t] = IF high - r.iv = m.remaining THEN "poll" ELSE "exit"]
      /\ rc' = [rc EXCEPT ![t] = 0]
      /\ UNCHANGED <<base, top, until, area, array, cxt, tail>>
  BY <1>1 DEF RunChunk, Part
<1> HIDE DEF high, done
<1>7. /\ frame'[t] = [frame[t] EXCEPT ![Leaf] =
            [r EXCEPT !.low = high, !.chunk = m.remaining, !.priv = r.priv (+) SetToBag(done)]]
      /\ \A u \in DOMAIN pc \ {t} : frame'[u] = frame[u]
  BY <1>2, <1>4, <1>6
<1>8. /\ frame'[t][Leaf] =
            [r EXCEPT !.low = high, !.chunk = m.remaining, !.priv = r.priv (+) SetToBag(done)]
      /\ DOMAIN frame'[t] = DOMAIN frame[t]
      /\ \A l \in DOMAIN frame[t] : l # Leaf => frame'[t][l] = frame[t][l]
  BY <1>2, <1>7
<1>9. LET q == frame'[t][Leaf] IN
      /\ q.iv = r.iv /\ q.max = r.max /\ q.row = r.row /\ q.out = r.out /\ q.low = high
      /\ q.priv = r.priv (+) SetToBag(done)
  <2> HIDE DEF r
  <2> QED BY <1>2, <1>8
<1>10. /\ r.row = RowOf(t, Leaf) /\ r.max = Cxt(t)[Leaf].max
       /\ r.row \in DOMAIN Bounds /\ Len(r.row) = Leaf /\ r.max <= Bounds[r.row].last
  BY <1>2 DEF ReadableAt, FrameAt, RowOf
<1>11. Alone(t)
  BY <1>4, <1>6, <1>7 DEF Alone
<1>12. (pc'[t] = "poll" \/ (pc'[t] = "exit" /\ high = r.max)) /\ rc'[t] = 0
  BY <1>4, <1>5, <1>6
<1>13. ChunkEffect(t, high)
  BY <1>1, <1>2, <1>5, <1>6, <1>8, <1>9, <1>10, <1>12 DEF ChunkEffect, done
<1> QED BY <1>11, <1>13

LEMMA RunChunkWork ==
  ASSUME MemoryInv, WorkOK, TailsOK, NEW t \in DOMAIN pc, RunChunk(t)
  PROVE  WorkOK' /\ TailsOK'
<1>1. PICK high : Alone(t) /\ ChunkEffect(t, high)
  BY RunChunkEffects
<1>0. PICK R, from, to : R = frame[t][Leaf].row /\ from = frame[t][Leaf].iv /\ to = frame[t][Leaf].max
  OBVIOUS
<1> DEFINE S == Part(R, from, high)
<1>2. /\ pc[t] = "header" /\ pc'[t] \in {"poll", "exit"} /\ top[t] = Leaf /\ ~Forked(t)
      /\ ~Forked(t)' /\ (pc'[t] = "exit" => high = to)
      /\ base'[t] = base[t] /\ top'[t] = top[t] /\ until'[t] = until[t] /\ area'[t] = area[t]
      /\ cxt' = cxt /\ array' = array /\ tail' = tail
      /\ from \in Nat /\ high \in Nat /\ to \in Nat /\ from < high /\ high <= to
      /\ R \in DOMAIN Bounds /\ Len(R) = Leaf
      /\ Bounds[R].first <= from /\ to <= Bounds[R].last
      /\ RowOf(t, Leaf) = R /\ Cxt(t)[Leaf].max = to
      /\ frame'[t][Leaf].low = high
  <2>1. Forked(t)' = Forked(t)
    BY <1>1, AloneForked
  <2> QED BY <1>0, <1>1, <2>1 DEF ChunkEffect, Alone
<1>3. started' = [c \in Iterations |-> started[c] + (IF c \in S THEN 1 ELSE 0)]
  BY <1>0, <1>1 DEF ChunkEffect
<1>4. until[t] \in Nat /\ until[t] <= Leaf /\ Leaf \in Nat
  BY <1>2, LevelRange
<1>5. /\ R \in Seq(Nat) /\ Bounds[R].first \in Nat /\ Bounds[R].last \in Nat
      /\ from .. high - 1 \subseteq Indices(R)
  BY <1>2, RowFacts DEF Indices
<1>6. ASSUME NEW row \in DOMAIN Bounds, NEW i \in Indices(row)
      PROVE  Append(row, i) \in S <=> row = R /\ i \in from .. high - 1
  <2>1. ASSUME Append(row, i) \in S PROVE row = R /\ i \in from .. high - 1
    <3>1. PICK j \in from .. high - 1 : Append(row, i) = Append(R, j)
      BY <2>1 DEF Part
    <3>2. row \in Seq(Nat) /\ i \in Nat /\ j \in Nat
      BY <1>2, RowFacts, IterationFacts
    <3>3. row = R /\ i = j
      BY <1>5, <3>1, <3>2, SameIteration
    <3> QED BY <3>1, <3>3
  <2>2. ASSUME row = R, i \in from .. high - 1 PROVE Append(row, i) \in S
    BY <2>2 DEF Part
  <2> QED BY <2>1, <2>2
<1>7. S \subseteq Iterations /\ S \cap Outer = {}
  <2> SUFFICES ASSUME NEW c \in S PROVE c \in Iterations /\ c \notin Outer
    OBVIOUS
  <2>1. PICK i \in from .. high - 1 : c = Append(R, i)
    BY DEF Part
  <2>2. c \in Iterations /\ Len(c) = Leaf + 1
    BY <1>2, <1>5, <2>1, IterationFacts
  <2>3. c \notin Outer
    BY <1>4, <2>2, RowFacts DEF Outer
  <2> QED BY <2>2, <2>3
<1>8. ASSUME NEW row \in DOMAIN Bounds, NEW i \in Indices(row)
      PROVE  /\ Append(row, i) \in S => Holds(t, row, i)
             /\ Holds(t, row, i)' <=> Holds(t, row, i) /\ Append(row, i) \notin S
  <2>1. i \in Nat /\ Len(row) \in Nat
    BY RowFacts, IterationFacts
  <2>2. CASE Len(row) = Leaf
    <3>1. Holds(t, row, i) <=> row = R /\ from <= i /\ i < to
      <4>1. Ahead(t, Leaf) = from
        BY <1>0, <1>2, <1>4 DEF Ahead
      <4> QED BY <1>2, <1>4, <2>2, <4>1 DEF Holds
    <3>2. Holds(t, row, i)' <=> row = R /\ high <= i /\ i < to
      <4>1. CASE pc'[t] = "poll"
        <5>1. Ahead(t, Leaf)' = high
          BY <1>2, <1>4, <4>1 DEF Ahead
        <5>2. RowOf(t, Leaf)' = R /\ Cxt(t)[Leaf]'.max = to
          BY <1>2 DEF RowOf, Cxt
        <5>3. Leaf \in until[t] .. Leaf
          BY <1>4
        <5> QED BY <1>2, <1>4, <2>2, <4>1, <5>1, <5>2, <5>3 DEF Holds
      <4>2. CASE pc'[t] = "exit"
        <5>1. ~Holds(t, row, i)'
          BY <1>2, <2>2, <4>2 DEF Holds
        <5> QED BY <1>2, <2>1, <4>2, <5>1
      <4> QED BY <1>2, <4>1, <4>2
    <3>3. Append(row, i) \in S <=> row = R /\ from <= i /\ i < high
      BY <1>2, <1>6, <2>1
    <3> HIDE DEF S
    <3> QED BY <1>2, <2>1, <3>1, <3>2, <3>3
  <2>3. CASE Len(row) # Leaf
    <3>1. Append(row, i) \notin S
      BY <1>2, <1>6, <2>3
    <3>2. Len(row) < Leaf => Ahead(t, Len(row))' = Ahead(t, Len(row))
      BY <1>2 DEF Ahead, Cxt
    <3>3. RowOf(t, Len(row))' = RowOf(t, Len(row)) /\ Cxt(t)' = Cxt(t)
      BY <1>2 DEF RowOf, Cxt
    <3>4. Len(row) \in until[t] .. Leaf => Len(row) < Leaf
      BY <1>4, <2>1, <2>3
    <3> QED BY <1>2, <2>3, <3>1, <3>2, <3>3, <3>4 DEF Holds
  <2> QED BY <2>2, <2>3
<1>9. EnteredLevels(t)' = EnteredLevels(t) /\ \A l \in EnteredLevels(t) : frame'[t][l] = frame[t][l]
  <2>1. DOMAIN frame'[t] = DOMAIN frame[t]
        /\ \A l \in DOMAIN frame[t] : l # Leaf => frame'[t][l] = frame[t][l]
    BY <1>1 DEF ChunkEffect
  <2>2. EnteredLevels(t)' = EnteredLevels(t)
    BY <1>2, <1>4, <2>1 DEF EnteredLevels
  <2>3. \A l \in EnteredLevels(t) : l \in DOMAIN frame[t] /\ l # Leaf
    <3>1. \A l \in EnteredLevels(t) : l \in DOMAIN frame[t] /\ l \in Nat /\ l < Leaf
      BY EnteredFacts
    <3> QED BY <1>4, <3>1
  <2> QED BY <2>1, <2>2, <2>3
<1>10. Entered(t)' = Entered(t)
  <2>1. EnteredKept(t)
    BY <1>2, <1>9 DEF EnteredKept
  <2> QED BY <2>1, EnteredSame
<1>11. ASSUME NEW l \in EnteredLevels(t)'
       PROVE  /\ array'[<<t, l>>].live = EnteredAt(t, l)'
              /\ l \in EnteredLevels(t)
              /\ EnteredAt(t, l)' = EnteredAt(t, l) /\ frame'[t][l].row = frame[t][l].row
  <2>1. l \in EnteredLevels(t) /\ frame'[t][l] = frame[t][l] /\ EnteredOK(t, l)
    BY <1>9 DEF TailsOK
  <2>2. EnteredAt(t, l)' = EnteredAt(t, l)
    BY <2>1 DEF EnteredAt
  <2>3. array[<<t, l>>].live = EnteredAt(t, l)
    BY <2>1 DEF EnteredOK
  <2> QED BY <1>2, <2>1, <2>2, <2>3
<1> HIDE DEF S
<1>12. \A row \in DOMAIN Bounds : \A i \in Indices(row) :
         /\ Append(row, i) \in S => Holds(t, row, i)
         /\ Holds(t, row, i)' <=> row \in {} \/ (Holds(t, row, i) /\ Append(row, i) \notin S)
  BY <1>8
<1>13. Entered(t)' = Entered(t) \cup {}
  BY <1>10
<1>14. Starts(t, S, {})
  <2>1. \A l \in EnteredLevels(t)' :
          /\ array'[<<t, l>>].live = EnteredAt(t, l)'
          /\ IF l \in EnteredLevels(t)
             THEN EnteredAt(t, l)' = EnteredAt(t, l) /\ frame'[t][l].row = frame[t][l].row
             ELSE /\ EnteredAt(t, l)' \in {}
                  /\ frame'[t][l].row \in DOMAIN Bounds /\ Len(frame'[t][l].row) = l
                  /\ Under(t, frame'[t][l].row)
    BY <1>11
  <2> QED BY <1>3, <1>12, <1>13, <2>1 DEF Starts
<1> QED BY <1>1, <1>2, <1>3, <1>7, <1>11, <1>14, StartedWork

\* Task t calls the loop of iteration from of a row.
CallEffect(t, row, from, h) ==
  LET n == top[t]
      a == area[t]
  IN
  /\ pc[t] = "header" /\ pc'[t] = "enter" /\ ~Forked(t) /\ n < Leaf /\ top'[t] = n + 1
  /\ UNCHANGED <<rc, base, frame, tail>>
  /\ n \in DOMAIN frame[t] /\ row = frame[t][n].row /\ from = frame[t][n].iv /\ h = Append(row, from)
  /\ from \in Nat /\ Cxt(t)[n].max \in Nat /\ from < Cxt(t)[n].max
  /\ row \in DOMAIN Bounds /\ Len(row) = n /\ from \in Indices(row)
  /\ RowOf(t, n) = row
  /\ h \in Outer /\ h \in DOMAIN Bounds /\ Len(h) = n + 1
  /\ started' = [started EXCEPT ![h] = started[h] + 1]
  /\ DOMAIN array' = DOMAIN array /\ <<t, n>> \in DOMAIN array /\ array'[<<t, n>>].live = h
  /\ \A q \in DOMAIN array : q # <<t, n>> => array'[q] = array[q]
  /\ \A q \in DOMAIN array : array'[q].slots = array[q].slots
  /\ \A l \in Level :
       /\ cxt'[a][l].liveIn = cxt[a][l].liveIn /\ cxt'[a][l].liveOut = cxt[a][l].liveOut
       /\ cxt'[a][l].max = IF l = n + 1 THEN Bounds[h].last ELSE cxt[a][l].max
       /\ cxt'[a][l].start = CASE l = n     -> from
                               [] l = n + 1 -> Bounds[h].first
                               [] OTHER     -> cxt[a][l].start
  /\ cxt[a][n + 1].liveIn = <<t, n>> /\ cxt[a][n + 1].liveOut = <<t, n>>

LEMMA CallNestedEffects ==
  ASSUME MemoryInv, NEW t \in DOMAIN pc, CallNested(t)
  PROVE  Alone(t) /\ \E row, from, h : CallEffect(t, row, from, h)
<1> DEFINE a == area[t]
           n == top[t]
<1>1. PICK row, from, to, h :
        /\ row = frame[t][n].row /\ from = frame[t][n].iv /\ to = frame[t][n].max
        /\ h = Append(row, from)
  OBVIOUS
<1>2. /\ pc[t] = "header" /\ n < Leaf /\ from < to
      /\ pc' = [pc EXCEPT ![t] = "enter"] /\ top' = [top EXCEPT ![t] = n + 1]
      /\ UNCHANGED <<rc, base, until, area, frame, tail>>
      /\ started' = [started EXCEPT ![h] = started[h] + 1]
      /\ array' = [array EXCEPT ![<<t, n>>].live = h]
      /\ cxt' = [cxt EXCEPT ![a][n].start = from, ![a][n + 1].start = Bounds[h].first,
                            ![a][n + 1].max = Bounds[h].last]
  BY <1>1 DEF CallNested, At, Reg, Here
<1>3. /\ a \in DOMAIN cxt /\ DOMAIN cxt[a] = Level /\ n \in Level /\ n \in Nat /\ Level = 0 .. Leaf
      /\ \A l \in Level : DOMAIN cxt[a][l] = {"start", "max", "liveIn", "liveOut"}
      /\ DOMAIN frame[t] = base[t] .. n /\ DOMAIN top = DOMAIN pc /\ base[t] \in Nat
      /\ base[t] <= n /\ n \in DOMAIN frame[t] /\ n + 1 \in Level /\ Leaf \in Nat
      /\ LevelsOK(t) /\ TopOK(t)
  <2>1. /\ DOMAIN frame[t] = base[t] .. n /\ base[t] \in Nat /\ n \in Nat /\ base[t] <= n
        /\ Level = 0 .. Leaf /\ Leaf \in Nat /\ n <= Leaf
    BY <1>2, LevelRange
  <2>2. n < Leaf
    BY <1>2
  <2>5. n \in DOMAIN frame[t] /\ n \in Level /\ n + 1 \in Level
    <3> HIDE DEF n
    <3> QED BY <2>1, <2>2
  <2>3. /\ a \in DOMAIN cxt /\ DOMAIN cxt[a] = Level /\ DOMAIN top = DOMAIN pc
        /\ \A l \in Level : DOMAIN cxt[a][l] = {"start", "max", "liveIn", "liveOut"}
    BY <1>2, LevelRange
  <2>4. LevelsOK(t) /\ TopOK(t)
    BY <1>2, OwnFacts
  <2> QED BY <2>1, <2>3, <2>4, <2>5
<1>4. /\ ReadableAt(t, n) /\ FrameAt(t, n) /\ from \in Nat /\ Bounds[row].first <= from
      /\ (Forked(t) => from >= to)
      /\ to = Cxt(t)[n].max /\ row = RowOf(t, n)
  BY <1>1, <1>2, <1>3 DEF TopOK, FrameAt, RowOf, Reg
<1>5. /\ to \in Nat
      /\ row \in DOMAIN Bounds /\ Len(row) = n /\ to <= Bounds[row].last
  BY <1>4 DEF ReadableAt, RowOf
<1>6. ~Forked(t)
  <2>1. from < to /\ from \in Nat /\ to \in Nat
    BY <1>2, <1>4, <1>5
  <2>2. ~(from >= to)
    BY <2>1
  <2> QED BY <1>4, <2>2
<1>7. from \in Indices(row)
  <2>1. Bounds[row].first \in Nat /\ Bounds[row].last \in Nat
    BY <1>5, RowFacts
  <2>2. /\ from < to /\ from \in Nat /\ to \in Nat /\ Bounds[row].first <= from
        /\ to <= Bounds[row].last
    BY <1>2, <1>4, <1>5
  <2> QED BY <2>1, <2>2 DEF Indices
<1>8. h \in Outer /\ h \in DOMAIN Bounds /\ Len(h) = n + 1
  <2>1. h \in Outer /\ Len(h) = n + 1
    BY <1>1, <1>2, <1>5, <1>7, IterationFacts
  <2> QED BY <2>1 DEF Outer
<1>9. LinkedAt(t, n) /\ ~(n + 1 = Leaf /\ Leaf \in DOMAIN frame[t])
  BY <1>2, <1>3, <1>6 DEF LevelsOK
<1>10. cxt[a][n + 1].liveIn = <<t, n>> /\ cxt[a][n + 1].liveOut = <<t, n>>
  BY <1>9 DEF LinkedAt, Cxt
<1>11. <<t, n>> \in DOMAIN array /\ \A q \in DOMAIN array : DOMAIN array[q] = {"live", "slots"}
  BY <1>3, ArrayOfFrame, MemoryParts DEF RecordsOK, NewArray
<1>12. /\ DOMAIN array' = DOMAIN array /\ array'[<<t, n>>].live = h
       /\ \A q \in DOMAIN array : q # <<t, n>> => array'[q] = array[q]
       /\ \A q \in DOMAIN array : array'[q].slots = array[q].slots
  BY <1>2, <1>11
<1>13. \A l \in Level :
       /\ cxt'[a][l].liveIn = cxt[a][l].liveIn /\ cxt'[a][l].liveOut = cxt[a][l].liveOut
       /\ cxt'[a][l].max = IF l = n + 1 THEN Bounds[h].last ELSE cxt[a][l].max
       /\ cxt'[a][l].start = CASE l = n     -> from
                               [] l = n + 1 -> Bounds[h].first
                               [] OTHER     -> cxt[a][l].start
  <2> HIDE DEF a, n
  <2>1. n # n + 1
    BY <1>3
  <2> QED BY <1>2, <1>3, <2>1
<1>14. Alone(t)
  <2>1. \A b \in DOMAIN cxt \ {a} : cxt'[b] = cxt[b]
    BY <1>2
  <2>2. <<Root, -1>> # <<t, n>>
    BY <1>3
  <2>3. \A q \in DOMAIN array : q = <<Root, -1>> \/ q[1] # t => array'[q] = array[q]
    BY <1>12, <2>2
  <2>4. /\ DOMAIN pc' = DOMAIN pc /\ until' = until /\ area' = area
        /\ \A u \in DOMAIN pc \ {t} :
             /\ pc'[u] = pc[u] /\ rc'[u] = rc[u] /\ base'[u] = base[u] /\ top'[u] = top[u]
             /\ frame'[u] = frame[u]
    BY <1>2, <1>3
  <2> HIDE DEF a, n
  <2>5. \A q \in DOMAIN array : q = <<Root, -1>> \/ q[1] # t
          => q \in DOMAIN array' /\ array'[q].live = array[q].live
    BY <1>12, <2>3
  <2> QED BY <2>1, <2>4, <2>5 DEF Alone, a
<1>15. from < Cxt(t)[n].max /\ Cxt(t)[n].max \in Nat
  BY <1>2, <1>4, <1>5
<1>16. pc'[t] = "enter" /\ top'[t] = n + 1
  BY <1>2, <1>3
<1>17. CallEffect(t, row, from, h)
  BY <1>1, <1>2, <1>3, <1>4, <1>5, <1>6, <1>7, <1>8, <1>10, <1>11, <1>12, <1>13, <1>15, <1>16
     DEF CallEffect
<1> QED BY <1>14, <1>17

LEMMA CallNestedWork ==
  ASSUME MemoryInv, WorkOK, TailsOK, NEW t \in DOMAIN pc, CallNested(t)
  PROVE  WorkOK' /\ TailsOK'
<1>1. PICK R, from, h : Alone(t) /\ CallEffect(t, R, from, h)
  BY CallNestedEffects
<1>2. PICK n : n = top[t]
  OBVIOUS
<1>3. /\ pc[t] = "header" /\ pc'[t] = "enter" /\ top[t] = n /\ top'[t] = n + 1 /\ n < Leaf
      /\ ~Forked(t) /\ ~Forked(t)' /\ tail' = tail /\ frame' = frame
      /\ base'[t] = base[t] /\ until'[t] = until[t] /\ area'[t] = area[t]
      /\ n \in DOMAIN frame[t] /\ R = frame[t][n].row /\ from = frame[t][n].iv /\ h = Append(R, from)
      /\ from \in Nat /\ Cxt(t)[n].max \in Nat /\ from < Cxt(t)[n].max
      /\ R \in DOMAIN Bounds /\ Len(R) = n /\ from \in Indices(R) /\ RowOf(t, n) = R
      /\ h \in Outer /\ h \in DOMAIN Bounds /\ Len(h) = n + 1
      /\ started' = [started EXCEPT ![h] = started[h] + 1]
  <2>1. Forked(t)' = Forked(t)
    BY <1>1, AloneForked
  <2> QED BY <1>1, <1>2, <2>1 DEF CallEffect, Alone
<1>4. /\ DOMAIN array' = DOMAIN array /\ <<t, n>> \in DOMAIN array /\ array'[<<t, n>>].live = h
      /\ \A q \in DOMAIN array : q # <<t, n>> => array'[q] = array[q]
      /\ \A l \in Level :
           /\ Cxt(t)[l]'.liveIn = Cxt(t)[l].liveIn
           /\ Cxt(t)[l]'.max = IF l = n + 1 THEN Bounds[h].last ELSE Cxt(t)[l].max
           /\ Cxt(t)[l]'.start = CASE l = n     -> from
                                   [] l = n + 1 -> Bounds[h].first
                                   [] OTHER     -> Cxt(t)[l].start
      /\ Cxt(t)[n + 1].liveIn = <<t, n>>
  <2>1. /\ DOMAIN array' = DOMAIN array /\ <<t, n>> \in DOMAIN array /\ array'[<<t, n>>].live = h
        /\ \A q \in DOMAIN array : q # <<t, n>> => array'[q] = array[q]
    BY <1>1, <1>2 DEF CallEffect
  <2>2. PICK a : a = area[t]
    OBVIOUS
  <2>3. Cxt(t) = cxt[a] /\ Cxt(t)' = cxt'[a]
    BY <1>3, <2>2 DEF Cxt
  <2>4. /\ \A l \in Level :
             /\ cxt'[a][l].liveIn = cxt[a][l].liveIn
             /\ cxt'[a][l].max = IF l = n + 1 THEN Bounds[h].last ELSE cxt[a][l].max
             /\ cxt'[a][l].start = CASE l = n     -> from
                                     [] l = n + 1 -> Bounds[h].first
                                     [] OTHER     -> cxt[a][l].start
        /\ cxt[a][n + 1].liveIn = <<t, n>>
    BY <1>1, <1>2, <2>2 DEF CallEffect
  <2>5. /\ \A l \in Level :
           /\ Cxt(t)[l]'.liveIn = Cxt(t)[l].liveIn
           /\ Cxt(t)[l]'.max = IF l = n + 1 THEN Bounds[h].last ELSE Cxt(t)[l].max
           /\ Cxt(t)[l]'.start = CASE l = n     -> from
                                   [] l = n + 1 -> Bounds[h].first
                                   [] OTHER     -> Cxt(t)[l].start
      /\ Cxt(t)[n + 1].liveIn = <<t, n>>
    BY <2>3, <2>4
  <2> QED BY <2>1, <2>5
<1>5. /\ until[t] \in Nat /\ base[t] \in Nat /\ n \in Nat /\ until[t] <= n /\ Leaf \in Nat
      /\ DOMAIN frame[t] = base[t] .. n /\ base[t] <= n /\ Level = 0 .. Leaf /\ n + 1 <= Leaf
  <2>1. /\ until[t] \in Nat /\ base[t] \in Nat /\ n \in Nat /\ until[t] <= base[t] /\ Leaf \in Nat
        /\ DOMAIN frame[t] = base[t] .. n /\ base[t] <= n /\ Level = 0 .. Leaf
    BY <1>3, LevelRange
  <2> QED BY <1>3, <2>1
<1>6. h \in Iterations /\ h # <<>>
  BY <1>3, IterationFacts
<1>7. started' = [c \in Iterations |-> started[c] + (IF c \in {h} THEN 1 ELSE 0)]
  <2>1. started \in [Iterations -> Nat]
    BY MemoryParts DEF TypeOK
  <2>2. started' = [started EXCEPT ![h] = started[h] + 1]
    BY <1>3
  <2>3. \A c \in Iterations : started[c] + 0 = started[c]
    BY <2>1
  <2> QED BY <1>6, <2>1, <2>2, <2>3
<1>8. Holds(t, R, from)
  <2>1. Ahead(t, n) = from
    BY <1>3, <1>5 DEF Ahead
  <2> QED BY <1>3, <1>5, <2>1 DEF Holds
<1>9. ASSUME NEW row \in DOMAIN Bounds, NEW i \in Indices(row)
      PROVE  /\ Append(row, i) = h <=> row = R /\ i = from
             /\ row = h => Append(row, i) # h
             /\ i \in Nat /\ Len(row) \in Nat
  <2>1. i \in Nat /\ row \in Seq(Nat) /\ Len(row) \in Nat /\ R \in Seq(Nat)
    BY <1>3, RowFacts, IterationFacts
  <2>2. Append(row, i) = h => row = R /\ i = from
    <3>1. h = Append(R, from) /\ from \in Nat
      BY <1>3
    <3> QED BY <2>1, <3>1, SameIteration
  <2>3. row = R /\ i = from => Append(row, i) = h
    BY <1>3
  <2>4. row = h => Append(row, i) # h
    <3>1. Len(Append(row, i)) = Len(row) + 1
      BY IterationFacts
    <3>2. PICK longer : longer = Append(row, i)
      OBVIOUS
    <3>3. longer # row
      BY <2>1, <3>1, <3>2
    <3> QED BY <3>2, <3>3
  <2> QED BY <2>1, <2>2, <2>3, <2>4
<1>10. ASSUME NEW row \in DOMAIN Bounds, NEW i \in Indices(row)
       PROVE  Holds(t, row, i)' <=> row = h \/ (Holds(t, row, i) /\ Append(row, i) # h)
  <2> DEFINE l == Len(row)
  <2>0. l \in Nat /\ i \in Nat
    BY <1>9
  <2>1. CASE l \notin until[t] .. n + 1
    <3>1. ~Holds(t, row, i)' /\ ~Holds(t, row, i)
      BY <1>3, <1>5, <2>1 DEF Holds
    <3>2. row # h
      BY <1>3, <1>5, <2>1
    <3> QED BY <3>1, <3>2
  <2>2. CASE l = n + 1
    <3>1. ~Holds(t, row, i) /\ l \in Level
      BY <1>3, <1>5, <2>2 DEF Holds
    <3>2. RowOf(t, l)' = h
      BY <1>4, <2>2, <3>1 DEF RowOf
    <3>3. Ahead(t, l)' = Bounds[h].first /\ Cxt(t)[l]'.max = Bounds[h].last
      <4>1. Cxt(t)[l]'.start = Bounds[h].first /\ Cxt(t)[l]'.max = Bounds[h].last
        BY <1>4, <1>5, <2>2, <3>1
      <4> QED BY <1>3, <1>5, <2>2, <4>1 DEF Ahead
    <3>4. row = h => Bounds[h].first <= i /\ i < Bounds[h].last
      <4>1. Bounds[h].first \in Nat /\ Bounds[h].last \in Nat
        BY <1>3, RowFacts
      <4> QED BY <4>1 DEF Indices
    <3>5. l \in until[t] .. n + 1
      BY <1>5, <2>2
    <3> QED BY <1>3, <2>2, <3>1, <3>2, <3>3, <3>4, <3>5 DEF Holds
  <2>3. CASE l \in until[t] .. n
    <3>1. l <= n /\ l \in Level /\ l # n + 1 /\ l \in until[t] .. n + 1 /\ row # h /\ l < n + 1
      BY <1>3, <1>5, <2>3
    <3>2. RowOf(t, l)' = RowOf(t, l)
      <4>1. ReadableAt(t, l)
        BY <1>3, <2>3, WorkLevel
      <4>2. Owned(t, {l - 1}, Cxt(t)[l].liveIn)
        BY <4>1 DEF ReadableAt
      <4>3. Cxt(t)[l].liveIn \in DOMAIN array /\ Cxt(t)[l].liveIn # <<t, n>>
        BY <1>5, <2>0, <3>1, <4>2, ElderArrays
      <4> QED BY <1>4, <3>1, <4>3 DEF RowOf
    <3>3. Cxt(t)[l]'.max = Cxt(t)[l].max
      BY <1>4, <3>1
    <3>4. CASE l < n
      <4>1. l # n /\ Cxt(t)[l]'.start = Cxt(t)[l].start
        BY <1>4, <1>5, <2>0, <3>1, <3>4
      <4>2. Ahead(t, l)' = Ahead(t, l)
        BY <1>3, <3>1, <3>4, <4>1 DEF Ahead
      <4>3. Append(row, i) # h
        BY <1>3, <1>9, <4>1
      <4> QED BY <1>3, <2>3, <3>1, <3>2, <3>3, <4>1, <4>2, <4>3 DEF Holds
    <3>5. CASE l = n
      <4>1. Ahead(t, l) = from
        BY <1>3, <1>5, <3>5 DEF Ahead
      <4>2. Ahead(t, l)' = from + 1
        BY <1>3, <1>4, <3>1, <3>5 DEF Ahead
      <4>3. Holds(t, row, i) <=> row = R /\ from <= i /\ i < Cxt(t)[n].max
        BY <1>3, <2>3, <3>5, <4>1 DEF Holds
      <4>4. Holds(t, row, i)' <=> row = R /\ from + 1 <= i /\ i < Cxt(t)[n].max
        BY <1>3, <2>3, <3>1, <3>2, <3>3, <3>5, <4>2 DEF Holds
      <4>5. from + 1 <= i <=> from <= i /\ i # from
        BY <1>3, <2>0
      <4>6. Append(row, i) = h <=> row = R /\ i = from
        BY <1>9
      <4>7. Holds(t, row, i)' <=> Holds(t, row, i) /\ ~(Append(row, i) = h)
        BY <4>3, <4>4, <4>5, <4>6, Zenon
      <4> QED BY <3>1, <4>7
    <3> QED BY <1>5, <2>0, <3>1, <3>4, <3>5
  <2> QED BY <1>5, <2>0, <2>1, <2>2, <2>3
<1>11. EnteredLevels(t)' = EnteredLevels(t) \cup {n} /\ n \notin EnteredLevels(t)
  BY <1>3, <1>5 DEF EnteredLevels
<1>12. EnteredAt(t, n)' = h /\ \A l \in EnteredLevels(t) : EnteredAt(t, l)' = EnteredAt(t, l)
  BY <1>3 DEF EnteredAt
<1>13. Entered(t)' = Entered(t) \cup {h}
  <2>1. Entered(t)' = {EnteredAt(t, l)' : l \in EnteredLevels(t)'}
    BY DEF Entered
  <2>2. Entered(t) = {EnteredAt(t, l) : l \in EnteredLevels(t)}
    BY DEF Entered
  <2> QED BY <1>11, <1>12, <2>1, <2>2
<1>14. ASSUME NEW l \in EnteredLevels(t)'
       PROVE  /\ array'[<<t, l>>].live = EnteredAt(t, l)'
              /\ IF l \in EnteredLevels(t)
                 THEN EnteredAt(t, l)' = EnteredAt(t, l) /\ frame'[t][l].row = frame[t][l].row
                 ELSE /\ EnteredAt(t, l)' \in {h}
                      /\ frame'[t][l].row \in DOMAIN Bounds /\ Len(frame'[t][l].row) = l
                      /\ Under(t, frame'[t][l].row)
  <2>1. CASE l \in EnteredLevels(t)
    <3>1. EnteredOK(t, l) /\ <<t, l>> \in DOMAIN array
      BY <2>1, EnteredFacts DEF TailsOK
    <3>2. array[<<t, l>>].live = EnteredAt(t, l)
      BY <3>1 DEF EnteredOK
    <3>3. <<t, l>> # <<t, n>>
      BY <1>11, <2>1
    <3>4. array'[<<t, l>>] = array[<<t, l>>]
      BY <1>4, <3>1, <3>3
    <3> QED BY <1>3, <1>12, <2>1, <3>2, <3>4
  <2>2. CASE l \notin EnteredLevels(t)
    <3>1. l = n
      BY <1>11, <2>2
    <3>2. Under(t, R)
      BY <1>3, <1>8, HeldFacts
    <3> QED BY <1>3, <1>4, <1>12, <2>2, <3>1, <3>2
  <2> QED BY <2>1, <2>2
<1>15. {h} \cap Outer = {h} /\ {h} \in SUBSET Iterations /\ {h} \in SUBSET Outer
  BY <1>3, <1>6
<1>16. \A row \in DOMAIN Bounds : \A i \in Indices(row) :
         /\ Append(row, i) \in {h} => Holds(t, row, i)
         /\ Holds(t, row, i)' <=> row \in {h} \/ (Holds(t, row, i) /\ Append(row, i) \notin {h})
  BY <1>8, <1>9, <1>10
<1>17. Starts(t, {h}, {h})
  BY <1>7, <1>13, <1>14, <1>16 DEF Starts
<1> QED BY <1>1, <1>3, <1>15, <1>17, StartedWork
-----------------------------------------------------------------------------
(***************************************************************************)
(* The tail of an iteration.                                               *)
(***************************************************************************)
\* The iteration a task comes back to, and what it does there.
BackEffect(t, n, h) ==
  /\ pc[t] = "back" /\ n = top[t] /\ n < Leaf /\ n \in DOMAIN frame[t] /\ h = EnteredAt(t, n)
  /\ UNCHANGED <<rc, base, top, array, cxt, started>>
  /\ tail' = [tail EXCEPT ![h] =
                Append(tail[h], IF n + 1 = Leaf THEN array[<<t, n>>].slots[0] ELSE EmptyBag)]
  /\ DOMAIN frame'[t] = DOMAIN frame[t]
  /\ \A l \in DOMAIN frame[t] : l # n => frame'[t][l] = frame[t][l]
  /\ frame'[t][n].row = frame[t][n].row /\ frame'[t][n].max = frame[t][n].max
  /\ \/ pc'[t] = "exit" /\ rc[t] > 0 /\ frame' = frame
     \/ pc'[t] = "header" /\ ~(rc[t] > 0) /\ frame'[t][n].iv = frame[t][n].iv + 1

LEMMA BackEffects ==
  ASSUME MemoryInv, TailsOK, NEW t \in DOMAIN pc, Back(t)
  PROVE  Alone(t) /\ \E n, h : BackEffect(t, n, h)
<1>1. PICK n, h : n = top[t] /\ h = EnteredAt(t, n)
  OBVIOUS
<1>2. pc[t] = "back" /\ n < Leaf /\ Here(t) = h /\ Reg(t) = frame[t][n]
  BY <1>1 DEF Back, At, Here, Reg, EnteredAt, TailsOK
<1>3. /\ n \in DOMAIN frame[t] /\ DOMAIN frame = DOMAIN pc /\ n \in Level
      /\ DOMAIN frame[t][n] = {"iv", "max", "row", "out", "low", "chunk", "priv"}
  <2>1. /\ DOMAIN frame[t] = base[t] .. top[t] /\ base[t] \in Nat /\ top[t] \in Nat
        /\ base[t] <= top[t] /\ DOMAIN frame = DOMAIN pc /\ top[t] <= Leaf /\ Level = 0 .. Leaf
        /\ Leaf \in Nat
    BY <1>2, LevelRange
  <2>2. n \in DOMAIN frame[t] /\ n \in Level
    BY <1>1, <2>1
  <2> QED BY <2>1, <2>2, MemoryParts DEF RecordsOK
<1>4. /\ UNCHANGED <<rc, base, top, until, area, array, cxt, started>>
      /\ tail' = [tail EXCEPT ![h] =
                Append(tail[h], IF n + 1 = Leaf THEN array[<<t, n>>].slots[0] ELSE EmptyBag)]
      /\ \/ pc' = [pc EXCEPT ![t] = "exit"] /\ rc[t] > 0 /\ frame' = frame
         \/ /\ pc' = [pc EXCEPT ![t] = "header"] /\ ~(rc[t] > 0)
            /\ frame' = [frame EXCEPT ![t][n].iv = frame[t][n].iv + 1]
  BY <1>1, <1>2 DEF Back
<1>5. /\ DOMAIN frame'[t] = DOMAIN frame[t]
      /\ \A l \in DOMAIN frame[t] : l # n => frame'[t][l] = frame[t][l]
      /\ frame'[t][n].row = frame[t][n].row /\ frame'[t][n].max = frame[t][n].max
      /\ \A u \in DOMAIN pc \ {t} : frame'[u] = frame[u]
      /\ \/ pc'[t] = "exit" /\ rc[t] > 0 /\ frame' = frame
         \/ pc'[t] = "header" /\ ~(rc[t] > 0) /\ frame'[t][n].iv = frame[t][n].iv + 1
  <2>1. CASE pc' = [pc EXCEPT ![t] = "exit"] /\ rc[t] > 0 /\ frame' = frame
    <3>1. pc'[t] = "exit"
      BY <2>1
    <3> QED BY <2>1, <3>1
  <2>2. CASE /\ frame' = [frame EXCEPT ![t][n].iv = frame[t][n].iv + 1]
             /\ pc' = [pc EXCEPT ![t] = "header"] /\ ~(rc[t] > 0)
    <3>1. /\ frame'[t] = [frame[t] EXCEPT ![n] = [frame[t][n] EXCEPT !.iv = frame[t][n].iv + 1]]
          /\ \A u \in DOMAIN pc \ {t} : frame'[u] = frame[u]
      BY <1>3, <2>2
    <3>2. pc'[t] = "header"
      BY <2>2
    <3> QED BY <1>3, <2>2, <3>1, <3>2
  <2> QED BY <1>4, <2>1, <2>2
<1>6. Alone(t)
  BY <1>4, <1>5 DEF Alone
<1>7. BackEffect(t, n, h)
  BY <1>1, <1>2, <1>3, <1>4, <1>5 DEF BackEffect
<1> QED BY <1>6, <1>7

\* When a task is back in an iteration, everything that belongs to it has ended: no
\* one else is below it, and the task itself is not.
LEMMA NothingBelow ==
  ASSUME MemoryInv, WorkOK, TailsOK, NEW t \in DOMAIN pc, pc[t] = "back",
         NEW h, h = EnteredAt(t, top[t])
  PROVE  /\ top[t] \in EnteredLevels(t) /\ EnteredOK(t, top[t])
         /\ h \in Outer /\ h \in DOMAIN Bounds /\ Len(h) = top[t] + 1
         /\ h \in Iterations /\ started[h] = 1 /\ tail[h] = <<>>
         /\ \A v \in DOMAIN pc : pc[v] # "done" /\ Under(v, h) => v = t
         /\ \A i \in Indices(h) :
              /\ \A v \in DOMAIN pc : ~Holds(v, h, i)
              /\ started[Append(h, i)] = 1
              /\ Append(h, i) \in Outer => tail[Append(h, i)] # <<>>
<1>1. PICK n : n = top[t]
  OBVIOUS
<1>2. /\ n \in Nat /\ base[t] \in Nat /\ base[t] <= n /\ DOMAIN frame[t] = base[t] .. n /\ n < Leaf
  BY <1>1, LevelRange DEF TailsOK
<1>3. n \in EnteredLevels(t) /\ EnteredOK(t, n)
  BY <1>2 DEF EnteredLevels, TailsOK
<1>4. /\ frame[t][n].row \in DOMAIN Bounds /\ Len(frame[t][n].row) = n
      /\ h \in Outer /\ started[h] = 1 /\ tail[h] = <<>>
      /\ \A u \in DOMAIN pc : h \in Entered(u) => u = t
  BY <1>1, <1>3 DEF EnteredOK
<1>5. h \in DOMAIN Bounds /\ h # <<>> /\ h \in Iterations
  BY <1>4, RowFacts DEF Outer
<1>6. Len(h) = n + 1
  <2>1. PICK row \in DOMAIN Bounds : \E i \in Indices(row) : h = Append(row, i)
    BY <1>5, RowOfIteration
  <2>2. PICK i \in Indices(row) : h = Append(row, i)
    BY <2>1
  <2>3. frame[t][n].row \in Seq(Nat) /\ h = Append(frame[t][n].row, frame[t][n].iv)
    BY <1>1, <1>4, RowFacts DEF EnteredAt
  <2> HIDE DEF Outer
  <2>4. Len(Append(frame[t][n].row, frame[t][n].iv)) = Len(frame[t][n].row) + 1
    <3>1. PICK s : s = frame[t][n].row
      OBVIOUS
    <3>2. s \in Seq(Nat)
      BY <2>3, <3>1
    <3>3. ASSUME NEW x PROVE Len(Append(s, x)) = Len(s) + 1
      BY <3>2
    <3> QED BY <3>1, <3>3
  <2> QED BY <1>4, <2>3, <2>4
<1>7. ASSUME NEW v \in DOMAIN pc, pc[v] # "done", Under(v, h) PROVE v = t
  <2>1. PICK p \in Ancestors(v) \cup {v} : h \in Entered(p)
    BY <1>5, <1>7 DEF Under
  <2>2. p \in DOMAIN pc /\ (p # v => pc[p] = "join")
    BY <1>7, Lineage
  <2>3. p = t
    BY <1>4, <2>1, <2>2
  <2> QED BY <2>2, <2>3
<1>8. ASSUME NEW i \in Indices(h)
      PROVE  /\ \A v \in DOMAIN pc : ~Holds(v, h, i)
             /\ started[Append(h, i)] = 1
             /\ Append(h, i) \in Outer => tail[Append(h, i)] # <<>>
  <2>1. ASSUME NEW v \in DOMAIN pc, Holds(v, h, i) PROVE FALSE
    <3>1. Under(v, h) /\ pc[v] # "done"
      BY <1>5, <2>1, HeldFacts DEF Holds
    <3>2. v = t
      BY <1>7, <3>1
    <3>3. n + 1 \in until[t] .. n
      BY <1>1, <1>6, <2>1, <3>2 DEF Holds
    <3> QED BY <1>2, <3>3
  <2>2. Append(h, i) \in Iterations /\ Len(Append(h, i)) = n + 2
    BY <1>2, <1>5, <1>6, IterationFacts
  <2>3. started[Append(h, i)] = 1
    <3>1. started[Append(h, i)] \in {0, 1} /\ h # <<>>
      BY <1>5, <2>2 DEF WorkOK
    <3>2. started[Append(h, i)] # 0
      BY <1>4, <1>5, <2>1 DEF WorkOK, Indices
    <3> QED BY <3>1, <3>2
  <2>4. ASSUME Append(h, i) \in Outer, tail[Append(h, i)] = <<>> PROVE FALSE
    <3>1. PICK u \in DOMAIN pc : Append(h, i) \in Entered(u)
      BY <2>3, <2>4 DEF TailsOK
    <3>2. PICK m \in EnteredLevels(u) : Append(h, i) = EnteredAt(u, m)
      BY <3>1 DEF Entered
    <3>3. EnteredOK(u, m) /\ pc[u] # "done" /\ m <= top[u]
      BY <3>2, EnteredFacts DEF TailsOK
    <3>4. PICK row, j : row = frame[u][m].row /\ j = frame[u][m].iv
      OBVIOUS
    <3>5. row \in DOMAIN Bounds /\ Len(row) = m /\ Under(u, row)
      BY <3>3, <3>4 DEF EnteredOK
    <3>6. Append(h, i) = Append(row, j)
      BY <3>2, <3>4 DEF EnteredAt
    <3>7. row = h
      BY <1>5, <3>5, <3>6, RowFacts, SameRow
    <3>8. u = t
      BY <1>7, <3>3, <3>5, <3>7
    <3> QED BY <1>1, <1>2, <1>6, <3>3, <3>5, <3>7, <3>8
  <2> QED BY <2>1, <2>3, <2>4
<1> QED BY <1>1, <1>3, <1>4, <1>5, <1>6, <1>7, <1>8

LEMMA BackWork ==
  ASSUME MemoryInv, WorkOK, TailsOK, NEW t \in DOMAIN pc, Back(t)
  PROVE  WorkOK' /\ TailsOK'
<1>1. PICK n, h : Alone(t) /\ BackEffect(t, n, h)
  BY BackEffects
<1>2. /\ pc[t] = "back" /\ pc'[t] \in {"exit", "header"} /\ top[t] = n /\ top'[t] = n
      /\ Forked(t)' = Forked(t) /\ n < Leaf /\ n \in DOMAIN frame[t]
      /\ base'[t] = base[t] /\ until'[t] = until[t] /\ area'[t] = area[t]
      /\ array' = array /\ cxt' = cxt /\ started' = started /\ DOMAIN pc' = DOMAIN pc
      /\ h = EnteredAt(t, n)
      /\ DOMAIN frame'[t] = DOMAIN frame[t]
      /\ \A l \in DOMAIN frame[t] : l # n => frame'[t][l] = frame[t][l]
      /\ \/ pc'[t] = "exit" /\ rc[t] > 0
         \/ pc'[t] = "header" /\ ~(rc[t] > 0) /\ frame'[t][n].iv = frame[t][n].iv + 1
  <2>1. Forked(t)' = Forked(t)
    BY <1>1, AloneForked
  <2> QED BY <1>1, <2>1 DEF BackEffect, Alone
<1>3. /\ until[t] \in Nat /\ base[t] \in Nat /\ n \in Nat /\ until[t] <= n /\ Leaf \in Nat
      /\ DOMAIN frame[t] = base[t] .. n /\ base[t] <= n
  BY <1>2, LevelRange
<1>4. /\ n \in EnteredLevels(t) /\ h \in Outer /\ Len(h) = n + 1 /\ started[h] = 1 /\ tail[h] = <<>>
      /\ \A v \in DOMAIN pc : pc[v] # "done" /\ Under(v, h) => v = t
      /\ \A u \in DOMAIN pc : h \in Entered(u) => u = t
  <2>1. /\ n \in EnteredLevels(t) /\ h \in Outer /\ Len(h) = n + 1 /\ started[h] = 1 /\ tail[h] = <<>>
        /\ \A v \in DOMAIN pc : pc[v] # "done" /\ Under(v, h) => v = t
        /\ EnteredOK(t, n)
    BY <1>2, NothingBelow
  <2> QED BY <1>2, <2>1 DEF EnteredOK
<1>5. DOMAIN tail = Outer /\ \A c \in Outer : tail'[c] # <<>> <=> c = h \/ tail[c] # <<>>
  <2>1. DOMAIN tail = Outer
    BY DEF WorkOK
  <2>2. \E x : tail' = [tail EXCEPT ![h] = Append(<<>>, x)]
    BY <1>1, <1>4 DEF BackEffect
  <2>3. \A x : Append(<<>>, x) # <<>>
    OBVIOUS
  <2> QED BY <1>4, <2>1, <2>2, <2>3
<1>6. \A v \in DOMAIN pc : v # t => HoldsKept(v) /\ EnteredKept(v)
  BY <1>1, <1>2, AloneOthers
<1>7. HoldsKept(t)
  <2> SUFFICES ASSUME NEW row \in DOMAIN Bounds, NEW i \in Indices(row)
               PROVE  Holds(t, row, i)' <=> Holds(t, row, i)
    BY DEF HoldsKept
  <2> DEFINE l == Len(row)
  <2>0. l \in Nat
    BY RowFacts
  <2>1. CASE Forked(t) \/ l \notin until[t] .. n
    BY <1>2, <2>1 DEF Holds
  <2>2. CASE ~Forked(t) /\ l \in until[t] .. n
    <3>1. pc'[t] = "header" /\ frame'[t][n].iv = frame[t][n].iv + 1
      <4>1. CodeOK(t) /\ Given(t) = Leaf + 1 /\ rc[t] \in Int
        BY <1>2, <2>2, OwnFacts, GivenFacts
      <4>2. ~(rc[t] > 0)
        BY <1>2, <1>3, <4>1 DEF CodeOK
      <4> QED BY <1>2, <4>2
    <3>2. Cxt(t)' = Cxt(t) /\ RowOf(t, l)' = RowOf(t, l)
      BY <1>2 DEF Cxt, RowOf
    <3>3. Ahead(t, l) = Cxt(t)[l].start + 1
      BY <1>2 DEF Ahead
    <3>4. Ahead(t, l)' = Cxt(t)[l].start + 1
      <4>1. CASE l < n
        BY <1>2, <3>1, <3>2, <4>1 DEF Ahead
      <4>2. CASE l = n
        <5>1. ~(l < n)
          BY <1>3, <4>2
        <5>2. Ahead(t, l)' = frame[t][n].iv + 1
          BY <1>2, <3>1, <4>2, <5>1 DEF Ahead
        <5>3. SuspendedAt(t, n)
          BY <1>2, <2>2, <4>2, WorkLevel
        <5>4. frame[t][n].iv = Cxt(t)[n].start
          BY <1>3, <5>3 DEF SuspendedAt
        <5> QED BY <4>2, <5>2, <5>4
      <4> QED BY <1>3, <2>0, <2>2, <4>1, <4>2
    <3> QED BY <1>2, <2>2, <3>1, <3>2, <3>3, <3>4 DEF Holds
  <2> QED BY <2>1, <2>2
<1>8. \A v \in DOMAIN pc : HoldsKept(v)
  BY <1>6, <1>7
<1>9. EnteredLevels(t)' = EnteredLevels(t) \ {n}
  BY <1>2, <1>3 DEF EnteredLevels
<1>10. \A l \in EnteredLevels(t)' : frame'[t][l] = frame[t][l] /\ EnteredAt(t, l)' = EnteredAt(t, l)
  BY <1>2, <1>9 DEF EnteredAt, EnteredLevels
<1>11. ASSUME NEW v \in DOMAIN pc, NEW c, c # h PROVE c \in Entered(v)' <=> c \in Entered(v)
  <2>1. CASE v # t
    <3>1. Entered(v)' = Entered(v)
      BY <1>6, <2>1, EnteredSame
    <3> QED BY <3>1
  <2>2. CASE v = t
    <3>1. Entered(t)' = {EnteredAt(t, l)' : l \in EnteredLevels(t)'}
      BY DEF Entered
    <3>2. Entered(t) = {EnteredAt(t, l) : l \in EnteredLevels(t)}
      BY DEF Entered
    <3> QED BY <1>2, <1>9, <1>10, <1>11, <2>2, <3>1, <3>2
  <2> QED BY <2>1, <2>2
<1>12. ASSUME NEW v \in DOMAIN pc, pc[v] # "done", NEW row, row # h, Under(v, row)
       PROVE  Under(v, row)'
  BY <1>11, <1>12, UnderKept
<1>13. WorkOK'
  <2>1. DOMAIN tail' = Outer /\ \A c \in Iterations : started'[c] \in {0, 1}
    BY <1>1, <1>2 DEF WorkOK, BackEffect
  <2>2. ASSUME NEW row \in DOMAIN Bounds, NEW i \in Indices(row)
        PROVE  IF started'[Append(row, i)] = 0
               THEN \/ \E v \in DOMAIN pc' : Holds(v, row, i)'
                    \/ row # <<>> /\ started'[row] = 0
               ELSE row # <<>> => started'[row] = 1
    <3>1. IF started[Append(row, i)] = 0
          THEN (\E v \in DOMAIN pc : Holds(v, row, i)) \/ (row # <<>> /\ started[row] = 0)
          ELSE row # <<>> => started[row] = 1
      BY <2>2 DEF WorkOK, Indices
    <3>2. \A v \in DOMAIN pc : Holds(v, row, i) => Holds(v, row, i)'
      BY <1>8, <2>2 DEF HoldsKept
    <3> QED BY <1>2, <3>1, <3>2
  <2>3. ASSUME NEW v \in DOMAIN pc, NEW row \in DOMAIN Bounds, NEW i \in Indices(row),
               Holds(v, row, i)'
        PROVE  /\ started'[Append(row, i)] = 0
               /\ Under(v, row)'
               /\ \A u \in DOMAIN pc' : Holds(u, row, i)' => u = v
    <3>1. \A u \in DOMAIN pc : Holds(u, row, i)' => Holds(u, row, i)
      BY <1>8, <2>3 DEF HoldsKept
    <3>2. /\ started[Append(row, i)] = 0 /\ Under(v, row) /\ pc[v] # "done"
          /\ \A u \in DOMAIN pc : Holds(u, row, i) => u = v
      BY <2>3, <3>1, HeldFacts DEF Holds
    <3>3. row # h
      <4>1. Len(row) <= top[v] /\ (row = h => v = t)
        <5>1. Holds(v, row, i) /\ (row = h => v = t)
          BY <1>4, <2>3, <3>1, <3>2
        <5>2. Len(row) \in until[v] .. top[v]
          BY <5>1 DEF Holds
        <5>3. until[v] \in Nat /\ top[v] \in Nat
          BY <3>2, LevelRange
        <5> QED BY <5>1, <5>2, <5>3
      <4> QED BY <1>2, <1>3, <1>4, <4>1
    <3>4. Under(v, row)'
      BY <1>12, <3>2, <3>3
    <3> QED BY <1>2, <3>1, <3>2, <3>4
  <2> QED BY <1>2, <2>1, <2>2, <2>3 DEF WorkOK, Indices
<1>14. TailsOK'
  <2>1. \A v \in DOMAIN pc : pc'[v] = "back" => top'[v] < Leaf
    BY <1>1, <1>2 DEF TailsOK, Alone
  <2>2. ASSUME NEW v \in DOMAIN pc, NEW l \in EnteredLevels(v)' PROVE EnteredOK(v, l)'
    <3>0. l \in EnteredLevels(v)
      BY <1>6, <1>9, <2>2 DEF EnteredKept
    <3>1. EnteredOK(v, l) /\ pc[v] # "done" /\ l <= top[v] /\ l \in Nat
      BY <3>0, EnteredFacts DEF TailsOK
    <3>2. PICK row, c : row = frame[v][l].row /\ c = EnteredAt(v, l)
      OBVIOUS
    <3>3. /\ row \in DOMAIN Bounds /\ Len(row) = l
          /\ c \in Outer /\ started[c] = 1 /\ tail[c] = <<>>
          /\ array[<<v, l>>].live = c
          /\ Under(v, row)
          /\ \A u \in DOMAIN pc : c \in Entered(u) => u = v
      BY <3>1, <3>2 DEF EnteredOK
    <3>4. frame'[v][l].row = row /\ frame'[v][l].iv = frame[v][l].iv
      BY <1>6, <1>10, <2>2, <3>0, <3>2 DEF EnteredKept
    <3>5. EnteredAt(v, l)' = c
      BY <3>2, <3>4 DEF EnteredAt
    <3>6. row # h
      <4>1. row = h => v = t
        BY <1>4, <3>1, <3>3
      <4> QED BY <1>2, <1>3, <1>4, <3>1, <3>3, <4>1
    <3>7. c # h
      <4>1. c \in Entered(v)
        BY <3>0, <3>2 DEF Entered
      <4>2. c = h => v = t
        BY <1>4, <4>1
      <4>3. v = t => l # n
        BY <1>9, <2>2
      <4>4. row \in Seq(Nat) /\ c = Append(row, frame[v][l].iv)
        BY <3>2, <3>3, RowFacts DEF EnteredAt
      <4>5. Len(c) = l + 1
        <5>1. ASSUME NEW x PROVE Len(Append(row, x)) = Len(row) + 1
          BY <4>4
        <5> QED BY <3>3, <4>4, <5>1
      <4> QED BY <1>3, <1>4, <3>1, <4>2, <4>3, <4>5
    <3>8. Under(v, row)'
      BY <1>12, <3>1, <3>3, <3>6
    <3>9. \A u \in DOMAIN pc' : c \in Entered(u)' => u = v
      BY <1>2, <1>11, <3>3, <3>7
    <3>10. tail'[c] = <<>>
      BY <1>5, <3>3, <3>7
    <3> QED BY <1>2, <3>3, <3>4, <3>5, <3>8, <3>9, <3>10 DEF EnteredOK, Under, Ancestors
  <2>3. ASSUME NEW c \in Outer, started'[c] = 1, tail'[c] = <<>>
        PROVE  \E v \in DOMAIN pc' : c \in Entered(v)'
    <3>1. c # h /\ tail[c] = <<>>
      BY <1>5, <2>3
    <3>2. PICK v \in DOMAIN pc : c \in Entered(v)
      BY <1>2, <2>3, <3>1 DEF TailsOK
    <3> QED BY <1>2, <1>11, <3>1, <3>2
  <2>4. \A c \in Outer : tail'[c] # <<>> => started'[c] = 1
    BY <1>2, <1>4, <1>5 DEF TailsOK
  <2> QED BY <1>2, <2>1, <2>2, <2>3, <2>4 DEF TailsOK
<1> QED BY <1>13, <1>14
-----------------------------------------------------------------------------
(***************************************************************************)
(* The promotion: what the task held is divided among the branches.        *)
(***************************************************************************)
LEMMA SplitHolds ==
  ASSUME MemoryInv, NEW t \in DOMAIN pc, pc[t] = "poll",
         NEW first, first = Append(t, 0), NEW second, second = Append(t, 1),
         NEW s, Spawned(t, s, first, second), NEW low, NEW mid,
         SplitAt(t, s, low, mid, first, second),
         NEW row \in DOMAIN Bounds, NEW i \in Indices(row)
  PROVE  /\ Holds(t, row, i) <=> Holds(first, row, i)' \/ Holds(second, row, i)'
         /\ ~(Holds(first, row, i)' /\ Holds(second, row, i)')
         /\ ~Holds(t, row, i)'
<1> DEFINE l == Len(row)
<1>1. /\ top[t] = Leaf /\ ~Forked(t) /\ until[t] \in Nat /\ until[t] <= Leaf
      /\ frame[t][Leaf].low \in Nat
      /\ \A n \in until[t] .. Leaf :
           n \in Level /\ Cxt(t)[n].start \in Nat /\ Cxt(t)[n].max \in Nat
  BY PolledFacts
<1>2. l \in Nat /\ i \in Nat /\ Leaf \in Nat /\ Level = 0 .. Leaf
  BY RowFacts, IterationFacts, LevelFacts
<1>3. /\ first \notin DOMAIN pc /\ second \notin DOMAIN pc /\ first # second
      /\ first # t /\ second # t /\ area[t] # second
      /\ s \in Level /\ s \in Nat /\ until[t] <= s /\ s <= Leaf
      /\ low = frame[t][Leaf].low /\ low \in Nat /\ mid \in Nat /\ mid < Cxt(t)[s].max
      /\ (IF s = Leaf THEN low <= mid ELSE Cxt(t)[s].start + 1 <= mid)
      /\ \A n \in until[t] .. s - 1 : Cxt(t)[n].start + 1 = Cxt(t)[n].max
  BY DEF SplitAt
<1>4. Forked(t)' /\ ~Forked(first)' /\ ~Forked(second)'
  BY <1>1, <1>3, SplitFamilies
<1>5. /\ pc'[first] = "start" /\ base'[first] = Leaf /\ top'[first] = Leaf /\ until'[first] = s
      /\ pc'[second] = "start" /\ base'[second] = s /\ top'[second] = s /\ until'[second] = s
      /\ area'[first] = area[t] /\ area'[second] = second /\ array' = array
  BY DEF Spawned
<1>6. \A n \in Level :
        /\ Cxt(first)[n]'.liveIn = Cxt(t)[n].liveIn
        /\ Cxt(first)[n]'.max = IF n = s THEN mid ELSE Cxt(t)[n].max
        /\ Cxt(first)[n]'.start =
             IF n # Leaf THEN Cxt(t)[n].start ELSE IF s = Leaf THEN low ELSE low - 1
  <2>1. Cxt(first)' = cxt'[area[t]]
    BY <1>5 DEF Cxt
  <2> QED BY <2>1 DEF SplitAt
<1>7. /\ Cxt(second)[s]'.liveIn = Cxt(t)[s].liveIn
      /\ Cxt(second)[s]'.max = Cxt(t)[s].max /\ Cxt(second)[s]'.start = mid
  <2>1. Cxt(second)' = cxt'[second]
    BY <1>5 DEF Cxt
  <2> QED BY <2>1 DEF SplitAt
<1>8. ~Holds(t, row, i)'
  BY <1>4 DEF Holds
<1>9. Holds(second, row, i)' <=>
        l = s /\ row = RowOf(t, s) /\ mid <= i /\ i < Cxt(t)[s].max
  <2>1. Holds(second, row, i)' => l = s
    BY <1>2, <1>3, <1>5 DEF Holds
  <2>2. ASSUME l = s
        PROVE  Holds(second, row, i)' <=> row = RowOf(t, s) /\ mid <= i /\ i < Cxt(t)[s].max
    <3>1. RowOf(second, s)' = RowOf(t, s)
      BY <1>5, <1>7 DEF RowOf
    <3>2. Ahead(second, s)' = mid
      BY <1>3, <1>5, <1>7 DEF Ahead
    <3>3. s \in until'[second] .. top'[second]
      BY <1>3, <1>5
    <3> QED BY <1>4, <1>5, <1>7, <2>2, <3>1, <3>2, <3>3 DEF Holds
  <2> QED BY <2>1, <2>2
<1>10. l \in until[t] .. Leaf =>
         (Holds(t, row, i) <=>
            /\ row = RowOf(t, l) /\ i < Cxt(t)[l].max
            /\ IF l = Leaf THEN low <= i ELSE Cxt(t)[l].start + 1 <= i)
  <2> SUFFICES ASSUME l \in until[t] .. Leaf
               PROVE  Holds(t, row, i) <=>
                        /\ row = RowOf(t, l) /\ i < Cxt(t)[l].max
                        /\ IF l = Leaf THEN low <= i ELSE Cxt(t)[l].start + 1 <= i
    OBVIOUS
  <2>1. Ahead(t, l) = IF l = Leaf THEN low ELSE Cxt(t)[l].start + 1
    <3>1. CASE l = Leaf
      <4>1. ~(l < top[t])
        BY <1>1, <1>2, <3>1
      <4> QED BY <1>1, <1>3, <3>1, <4>1 DEF Ahead
    <3>2. CASE l # Leaf
      <4>1. l < top[t]
        BY <1>1, <1>2, <3>2
      <4> QED BY <3>2, <4>1 DEF Ahead
    <3> QED BY <3>1, <3>2
  <2> QED BY <1>1, <2>1 DEF Holds
<1>11. l \in s .. Leaf =>
         (Holds(first, row, i)' <=>
            /\ row = RowOf(t, l) /\ i < (IF l = s THEN mid ELSE Cxt(t)[l].max)
            /\ IF l = Leaf THEN low <= i ELSE Cxt(t)[l].start + 1 <= i)
  <2> SUFFICES ASSUME l \in s .. Leaf
               PROVE  Holds(first, row, i)' <=>
                        /\ row = RowOf(t, l) /\ i < (IF l = s THEN mid ELSE Cxt(t)[l].max)
                        /\ IF l = Leaf THEN low <= i ELSE Cxt(t)[l].start + 1 <= i
    OBVIOUS
  <2>0. l \in Level
    BY <1>2, <1>3
  <2>1. Ahead(first, l)' = IF l = Leaf THEN low ELSE Cxt(t)[l].start + 1
    <3>1. CASE l = Leaf
      <4>1. ~(l < top'[first]) /\ l = top'[first]
        BY <1>2, <1>5, <3>1
      <4>2. Ahead(first, l)' = IF s = Leaf THEN Cxt(first)[l]'.start ELSE Cxt(first)[l]'.start + 1
        BY <1>2, <1>3, <1>5, <3>1, <4>1 DEF Ahead, AfterSuspended
      <4> QED BY <1>3, <1>6, <2>0, <3>1, <4>2
    <3>2. CASE l # Leaf
      <4>1. l < top'[first]
        BY <1>2, <1>5, <3>2
      <4> QED BY <1>6, <2>0, <3>2, <4>1 DEF Ahead
    <3> QED BY <3>1, <3>2
  <2>2. RowOf(first, l)' = RowOf(t, l)
    BY <1>5, <1>6, <2>0 DEF RowOf
  <2> QED BY <1>4, <1>5, <1>6, <2>0, <2>1, <2>2 DEF Holds
<1>12. CASE l \notin until[t] .. Leaf
  <2>1. ~Holds(t, row, i) /\ l # s
    BY <1>1, <1>2, <1>3, <1>12 DEF Holds
  <2>2. l \notin s .. Leaf
    BY <1>1, <1>2, <1>3, <1>12
  <2>3. ~Holds(first, row, i)'
    BY <1>5, <2>2 DEF Holds
  <2> QED BY <1>8, <1>9, <2>1, <2>3
<1>13. CASE l \in until[t] .. s - 1
  <2>1. l # s /\ l \notin s .. Leaf /\ l \in until[t] .. Leaf /\ l # Leaf
    BY <1>1, <1>2, <1>3, <1>13
  <2>2. ~Holds(first, row, i)'
    BY <1>5, <2>1 DEF Holds
  <2>3. Cxt(t)[l].start + 1 = Cxt(t)[l].max /\ Cxt(t)[l].max \in Nat
    BY <1>1, <1>3, <1>13, <2>1
  <2>4. ~(Cxt(t)[l].start + 1 <= i /\ i < Cxt(t)[l].max)
    BY <1>2, <2>3
  <2>5. ~Holds(t, row, i)
    BY <1>10, <2>1, <2>4
  <2> QED BY <1>8, <1>9, <2>1, <2>2, <2>5
<1>14. CASE l \in s .. Leaf
  <2>1. l \in until[t] .. Leaf
    BY <1>1, <1>2, <1>3, <1>14
  <2>2. PICK from, max : from = (IF l = Leaf THEN low ELSE Cxt(t)[l].start + 1) /\ max = Cxt(t)[l].max
    OBVIOUS
  <2>3. from \in Int /\ max \in Int /\ (l = s => from <= mid /\ mid < max)
    <3>1. l \in Level /\ Cxt(t)[l].start \in Nat /\ Cxt(t)[l].max \in Nat
      BY <1>1, <2>1
    <3>2. from \in Int /\ max \in Int
      BY <1>3, <2>2, <3>1
    <3>3. ASSUME l = s PROVE from <= mid /\ mid < max
      BY <1>3, <2>2, <3>3
    <3> QED BY <3>2, <3>3
  <2>4. Holds(t, row, i) <=> row = RowOf(t, l) /\ i < max /\ from <= i
    BY <1>10, <2>1, <2>2
  <2>5. Holds(first, row, i)' <=> row = RowOf(t, l) /\ i < (IF l = s THEN mid ELSE max) /\ from <= i
    BY <1>11, <1>14, <2>2
  <2>6. Holds(second, row, i)' <=> l = s /\ row = RowOf(t, l) /\ mid <= i /\ i < max
    BY <1>9, <2>2
  <2> QED BY <1>2, <1>3, <1>8, <2>3, <2>4, <2>5, <2>6
<1> QED BY <1>1, <1>2, <1>3, <1>12, <1>13, <1>14

LEMMA PromoteWork ==
  ASSUME MemoryInv, WorkOK, TailsOK, NEW t \in DOMAIN pc, Promote(t)
  PROVE  WorkOK' /\ TailsOK'
<1>1. PICK first, second : first = Append(t, 0) /\ second = Append(t, 1)
  OBVIOUS
<1>2. PICK s, low, mid : Spawned(t, s, first, second) /\ SplitAt(t, s, low, mid, first, second)
  BY <1>1, SplitFacts
<1>3. pc[t] = "poll" /\ started' = started /\ tail' = tail
  BY DEF Promote, Fork, At
<1>4. /\ first \notin DOMAIN pc /\ second \notin DOMAIN pc /\ first # second /\ area[t] # second
      /\ first # t /\ second # t
      /\ \A b \in DOMAIN cxt \ {area[t], second} : cxt'[b] = cxt[b]
  BY <1>2 DEF SplitAt
<1>5. top[t] = Leaf /\ ~Forked(t) /\ t \in Paths
  BY <1>3, PolledFacts, OwnFacts
<1>6. /\ DOMAIN pc' = DOMAIN pc \cup {first, second}
      /\ pc'[t] = "join" /\ pc'[first] = "start" /\ pc'[second] = "start"
      /\ \A u \in DOMAIN pc : u # t => pc'[u] = pc[u]
      /\ \A u \in DOMAIN pc : /\ area'[u] = area[u] /\ base'[u] = base[u] /\ top'[u] = top[u]
                              /\ until'[u] = until[u] /\ frame'[u] = frame[u]
      /\ frame'[first] = <<>> /\ frame'[second] = <<>> /\ array' = array
  BY <1>2, <1>4 DEF Spawned
<1>7. \A v \in DOMAIN pc : v # t => Forked(v)' = Forked(v)
  BY <1>1, <1>2, <1>4, <1>5, SplitFamilies
<1>8. ASSUME NEW v \in DOMAIN pc, v # t PROVE HoldsKept(v) /\ EnteredKept(v)
  <2>1. ASSUME pc[v] # "done", ~Forked(v) PROVE cxt'[area[v]] = cxt[area[v]]
    <3>1. CodeOK(v) /\ area[v] \in DOMAIN cxt
      BY <2>1, OwnFacts
    <3>2. pc[v] # "join"
      BY <2>1, <3>1 DEF CodeOK
    <3>3. area[v] # area[t]
      BY <1>3, <1>8, <2>1, <3>2, AreaWaits
    <3>4. area[v] \in DOMAIN pc
      BY MemoryParts, AreaOf
    <3> QED BY <1>4, <3>1, <3>3, <3>4
  <2>2. ArraysKept(v)
    BY <1>6 DEF ArraysKept
  <2>3. HoldsKept(v)
    BY <1>6, <1>7, <1>8, <2>1, <2>2, OthersHold
  <2> QED BY <1>6, <1>8, <2>3, OthersEntered
<1>9. EnteredKept(t)
  <2>1. EnteredLevels(t)' = EnteredLevels(t)
    BY <1>3, <1>5, <1>6 DEF EnteredLevels
  <2> QED BY <1>6, <2>1 DEF EnteredKept
<1>10. \A v \in DOMAIN pc : EnteredKept(v) /\ Entered(v)' = Entered(v)
  BY <1>8, <1>9, EnteredSame
<1>11. EnteredLevels(first)' = {} /\ EnteredLevels(second)' = {}
  BY <1>6 DEF EnteredLevels
<1>12. Entered(first)' = {} /\ Entered(second)' = {}
  BY <1>11 DEF Entered
<1>13. ASSUME NEW row \in DOMAIN Bounds, NEW i \in Indices(row)
       PROVE  /\ Holds(t, row, i) <=> Holds(first, row, i)' \/ Holds(second, row, i)'
              /\ ~(Holds(first, row, i)' /\ Holds(second, row, i)')
              /\ ~Holds(t, row, i)'
              /\ \A v \in DOMAIN pc : v # t => (Holds(v, row, i)' <=> Holds(v, row, i))
  <2>1. /\ Holds(t, row, i) <=> Holds(first, row, i)' \/ Holds(second, row, i)'
        /\ ~(Holds(first, row, i)' /\ Holds(second, row, i)')
        /\ ~Holds(t, row, i)'
    BY <1>1, <1>2, <1>3, SplitHolds
  <2> QED BY <1>8, <2>1 DEF HoldsKept
<1>14. ASSUME NEW v \in DOMAIN pc, pc[v] # "done", NEW row, Under(v, row) PROVE Under(v, row)'
  BY <1>10, <1>14, UnderKept
<1>15. ASSUME NEW row, Under(t, row) PROVE Under(first, row)' /\ Under(second, row)'
  <2>1. Under(t, row)'
    BY <1>3, <1>14, <1>15
  <2>2. Ancestors(first) = Ancestors(t) \cup {t} /\ Ancestors(second) = Ancestors(t) \cup {t}
    BY <1>1, <1>5, AncestorsOfBranch
  <2>3. row = <<>> \/ \E p \in Ancestors(t) \cup {t} : row \in Entered(p)'
    BY <2>1 DEF Under, Ancestors
  <2>4. \A p : (p \in Ancestors(first))' <=> p \in Ancestors(first)
    BY DEF Ancestors
  <2> QED BY <2>2, <2>3 DEF Under, Ancestors
<1>16. WorkOK'
  <2>1. DOMAIN tail' = Outer /\ \A c \in Iterations : started'[c] \in {0, 1}
    BY <1>3 DEF WorkOK
  <2>2. ASSUME NEW row \in DOMAIN Bounds, NEW i \in Indices(row)
        PROVE  IF started'[Append(row, i)] = 0
               THEN \/ \E v \in DOMAIN pc' : Holds(v, row, i)'
                    \/ row # <<>> /\ started'[row] = 0
               ELSE row # <<>> => started'[row] = 1
    <3>1. IF started[Append(row, i)] = 0
          THEN (\E v \in DOMAIN pc : Holds(v, row, i)) \/ (row # <<>> /\ started[row] = 0)
          ELSE row # <<>> => started[row] = 1
      BY <2>2 DEF WorkOK, Indices
    <3>2. \A v \in DOMAIN pc : Holds(v, row, i) => \E u \in DOMAIN pc' : Holds(u, row, i)'
      BY <1>6, <1>13, <2>2
    <3> QED BY <1>3, <3>1, <3>2
  <2>3. ASSUME NEW v \in DOMAIN pc', NEW row \in DOMAIN Bounds, NEW i \in Indices(row),
               Holds(v, row, i)'
        PROVE  /\ started'[Append(row, i)] = 0
               /\ Under(v, row)'
               /\ \A u \in DOMAIN pc' : Holds(u, row, i)' => u = v
    <3>1. CASE v \in {first, second}
      <4>1. Holds(t, row, i)
        BY <1>13, <2>3, <3>1
      <4>2. /\ started[Append(row, i)] = 0 /\ Under(t, row)
            /\ \A u \in DOMAIN pc : Holds(u, row, i) => u = t
        BY <2>3, <4>1, HeldFacts
      <4>3. \A u \in DOMAIN pc : ~Holds(u, row, i)'
        BY <1>13, <4>2, <2>3
      <4>4. \A u \in {first, second} : Holds(u, row, i)' => u = v
        BY <1>13, <2>3, <3>1
      <4>5. Under(v, row)'
        BY <1>15, <3>1, <4>2
      <4> QED BY <1>3, <1>6, <4>2, <4>3, <4>4, <4>5
    <3>2. CASE v \in DOMAIN pc
      <4>1. v # t
        BY <1>13, <2>3
      <4>2. Holds(v, row, i)
        BY <1>13, <2>3, <3>2, <4>1
      <4>3. /\ started[Append(row, i)] = 0 /\ Under(v, row) /\ pc[v] # "done"
            /\ \A u \in DOMAIN pc : Holds(u, row, i) => u = v
        BY <2>3, <3>2, <4>2, HeldFacts DEF Holds
      <4>4. ~Holds(t, row, i)
        BY <4>1, <4>3
      <4>5. \A u \in DOMAIN pc' : Holds(u, row, i)' => u = v
        BY <1>6, <1>13, <2>3, <4>3, <4>4
      <4>6. Under(v, row)'
        BY <1>14, <3>2, <4>3
      <4> QED BY <1>3, <4>3, <4>5, <4>6
    <3> QED BY <1>6, <3>1, <3>2
  <2> QED BY <2>1, <2>2, <2>3 DEF WorkOK, Indices
<1>17. TailsOK'
  <2>1. \A v \in DOMAIN pc' : pc'[v] = "back" => top'[v] < Leaf
    BY <1>6 DEF TailsOK
  <2>2. ASSUME NEW v \in DOMAIN pc', NEW l \in EnteredLevels(v)' PROVE EnteredOK(v, l)'
    <3>0. v \in DOMAIN pc /\ l \in EnteredLevels(v)
      BY <1>6, <1>10, <1>11, <2>2 DEF EnteredKept
    <3>1. EnteredOK(v, l) /\ pc[v] # "done"
      BY <3>0, EnteredFacts DEF TailsOK
    <3>2. PICK row, c : row = frame[v][l].row /\ c = EnteredAt(v, l)
      OBVIOUS
    <3>3. /\ row \in DOMAIN Bounds /\ Len(row) = l
          /\ c \in Outer /\ started[c] = 1 /\ tail[c] = <<>>
          /\ array[<<v, l>>].live = c
          /\ Under(v, row)
          /\ \A u \in DOMAIN pc : c \in Entered(u) => u = v
      BY <3>1, <3>2 DEF EnteredOK
    <3>4. frame'[v][l].row = row /\ EnteredAt(v, l)' = c
      BY <1>6, <3>0, <3>2 DEF EnteredAt
    <3>5. Under(v, row)'
      BY <1>14, <3>0, <3>1, <3>3
    <3>6. \A u \in DOMAIN pc' : c \in Entered(u)' => u = v
      BY <1>6, <1>10, <1>12, <3>3
    <3> QED BY <1>3, <1>6, <3>3, <3>4, <3>5, <3>6 DEF EnteredOK, Under, Ancestors
  <2>3. ASSUME NEW c \in Outer, started'[c] = 1, tail'[c] = <<>>
        PROVE  \E v \in DOMAIN pc' : c \in Entered(v)'
    <3>1. PICK v \in DOMAIN pc : c \in Entered(v)
      BY <1>3, <2>3 DEF TailsOK
    <3> QED BY <1>6, <1>10, <3>1
  <2>4. \A c \in Outer : tail'[c] # <<>> => started'[c] = 1
    BY <1>3 DEF TailsOK
  <2> QED BY <2>1, <2>2, <2>3, <2>4 DEF TailsOK
<1> QED BY <1>16, <1>17
-----------------------------------------------------------------------------
LEMMA InitWork == Init => WorkOK /\ TailsOK
<1> SUFFICES ASSUME Init PROVE WorkOK /\ TailsOK
  OBVIOUS
<1>1. /\ DOMAIN pc = {Root} /\ pc[Root] = "start" /\ base[Root] = 0 /\ top[Root] = 0
      /\ until[Root] = 0 /\ area[Root] = Root /\ frame[Root] = <<>>
      /\ cxt[Root][0].start = Bounds[<<>>].first /\ cxt[Root][0].max = Bounds[<<>>].last
      /\ cxt[Root][0].liveIn = <<Root, -1>> /\ array[<<Root, -1>>].live = <<>>
      /\ started = [c \in Iterations |-> 0] /\ tail = [c \in Outer |-> <<>>]
  <2>1. cxt[Root][0] = [start |-> Bounds[<<>>].first, max |-> Bounds[<<>>].last,
                        liveIn |-> <<Root, -1>>, liveOut |-> <<Root, -1>>]
    BY LevelFacts DEF Init, Only
  <2>2. array[<<Root, -1>>].live = <<>>
    BY DEF Init, Only, NewArray
  <2>3. /\ DOMAIN pc = {Root} /\ pc[Root] = "start" /\ base[Root] = 0 /\ top[Root] = 0
        /\ until[Root] = 0 /\ area[Root] = Root /\ frame[Root] = <<>>
        /\ started = [c \in Iterations |-> 0] /\ tail = [c \in Outer |-> <<>>]
    BY DEF Init, Only
  <2> QED BY <2>1, <2>2, <2>3
<1>2. Append(Root, 0) # Root /\ Append(Root, 0) \notin DOMAIN pc
  BY <1>1 DEF Root
<1>3. ~Forked(Root)
  BY <1>2 DEF Forked
<1>4. EnteredLevels(Root) = {} /\ Entered(Root) = {}
  BY <1>1 DEF EnteredLevels, Entered
<1>5. Outer \subseteq Iterations
  BY RowFacts DEF Outer
<1>6. ASSUME NEW row \in DOMAIN Bounds, NEW i \in Indices(row)
      PROVE  Holds(Root, row, i) <=> row = <<>>
  <2>1. row \in Seq(Nat) /\ Len(row) \in Nat /\ i \in Nat
    BY RowFacts, IterationFacts
  <2>2. RowOf(Root, 0) = <<>> /\ Ahead(Root, 0) = Bounds[<<>>].first /\ Cxt(Root)[0].max = Bounds[<<>>].last
    BY <1>1 DEF RowOf, Ahead, Cxt
  <2>3. row = <<>> => Len(row) = 0 /\ Bounds[<<>>].first <= i /\ i < Bounds[<<>>].last
    <3> SUFFICES ASSUME row = <<>> PROVE Len(row) = 0 /\ Bounds[<<>>].first <= i /\ i < Bounds[<<>>].last
      OBVIOUS
    <3>1. Bounds[<<>>].first \in Nat /\ Bounds[<<>>].last \in Nat
      BY RowFacts
    <3> QED BY <3>1 DEF Indices
  <2>4. Holds(Root, row, i) => Len(row) = 0
    BY <1>1, <2>1 DEF Holds
  <2> QED BY <1>1, <1>3, <2>1, <2>2, <2>3, <2>4 DEF Holds
<1>7. WorkOK
  <2>1. \A row \in DOMAIN Bounds : \A i \in Indices(row) : started[Append(row, i)] = 0
    BY <1>1, IterationFacts
  <2>2. \A row \in DOMAIN Bounds : row # <<>> => started[row] = 0
    BY <1>1, RowFacts
  <2>3. \A t \in DOMAIN pc : Under(t, <<>>)
    BY DEF Under
  <2> QED BY <1>1, <1>6, <2>1, <2>2, <2>3 DEF WorkOK, Indices
<1>8. TailsOK
  BY <1>1, <1>4, <1>5 DEF TailsOK
<1> QED BY <1>7, <1>8

LEMMA NextWork == MemoryInv /\ WorkOK /\ TailsOK /\ [Next]_vars => WorkOK' /\ TailsOK'
<1> SUFFICES ASSUME MemoryInv, WorkOK, TailsOK, [Next]_vars PROVE WorkOK' /\ TailsOK'
  OBVIOUS
<1>1. ASSUME NEW t \in DOMAIN pc, Step(t) PROVE WorkOK' /\ TailsOK'
  BY <1>1, StartWork, EnterWork, LeaveLoopWork, CallNestedWork, RunChunkWork, LatchWork,
     PromoteWork, JoinWork, ReturnToCallerWork, ReturnToLeftoverWork, ReturnFromTaskWork,
     BackWork DEF Step
<1>2. CASE UNCHANGED vars
  <2>1. /\ UNCHANGED <<pc, rc, base, top, until, area, frame, array, cxt, started, tail>>
    BY <1>2 DEF vars, taskVars
  <2>2. \A v : HoldsKept(v)
    BY <2>1 DEF HoldsKept, Holds, Forked, RowOf, Ahead, Cxt
  <2>3. \A v : EnteredKept(v)
    BY <2>1 DEF EnteredKept, EnteredLevels
  <2>4. \A v \in DOMAIN pc : pc'[v] = "back" => top'[v] < Leaf
    BY <2>1 DEF TailsOK
  <2> QED BY <2>1, <2>2, <2>3, <2>4, WorkKept
<1> QED BY <1>1, <1>2 DEF Next, Terminated

\* The original task waits for every other one.
LEMMA RootWaits ==
  ASSUME MemoryInv, NEW t \in DOMAIN pc, pc[t] # "done", t # Root
  PROVE  Root \in DOMAIN pc /\ pc[Root] = "join"
<1>1. t \in Paths /\ Len(t) \in Nat
  BY OwnFacts, MemoryParts, AreaOf
<1>2. Root \in Ancestors(t)
  <2>1. Len(t) # 0
    BY <1>1 DEF Root, Paths
  <2>2. 0 \in 0 .. Len(t) - 1
    BY <1>1, <2>1
  <2>3. SubSeq(t, 1, 0) = Root
    BY <1>1 DEF Root, Paths
  <2> QED BY <2>2, <2>3 DEF Ancestors
<1> QED BY <1>1, <1>2, Lineage

LEMMA RootEnds ==
  ASSUME MemoryInv, pc[Root] = "done", NEW t \in DOMAIN pc
  PROVE  pc[t] = "done"
  BY RootWaits

\* When the original task is done everything has started and ended: of the iterations
\* that have not, one with the fewest indices would have a task to run it.
LEMMA AllEnded ==
  ASSUME MemoryInv, WorkOK, TailsOK, pc[Root] = "done"
  PROVE  NothingLost
<1>1. \A t \in DOMAIN pc : pc[t] = "done"
  BY RootEnds
<1>2. ASSUME NEW c \in Iterations, started[c] # 1 PROVE FALSE
  <2> DEFINE Lost == {Len(d) : d \in {e \in Iterations : started[e] # 1}}
  <2>1. ASSUME NEW d \in Iterations
        PROVE  \E row \in DOMAIN Bounds : \E i \in Indices(row) :
                 d = Append(row, i) /\ Len(d) = Len(row) + 1 /\ Len(row) \in Nat
    BY RowOfIteration, IterationFacts, RowFacts
  <2>2. Lost \subseteq Nat /\ Len(c) \in Lost
    BY <1>2, <2>1
  <2>3. PICK n \in Lost : \A m \in Lost : <<m, n>> \notin OpToRel(<, Nat)
    BY <2>2, NatLessThanWellFounded, WFMin, Zenon
  <2>4. PICK d \in Iterations : started[d] # 1 /\ n = Len(d)
    OBVIOUS
  <2>5. PICK row \in DOMAIN Bounds : \E i \in Indices(row) :
          d = Append(row, i) /\ Len(d) = Len(row) + 1 /\ Len(row) \in Nat
    BY <2>1, <2>4
  <2>6. PICK i \in Indices(row) :
          d = Append(row, i) /\ Len(d) = Len(row) + 1 /\ Len(row) \in Nat
    BY <2>5
  <2>7. started[Append(row, i)] = 0
    BY <2>4, <2>6 DEF WorkOK
  <2>8. ~ \E t \in DOMAIN pc : Holds(t, row, i)
    BY <1>1 DEF Holds
  <2>9. row # <<>> /\ started[row] = 0
    BY <2>5, <2>7, <2>8 DEF WorkOK, Indices
  <2>10. row \in Iterations /\ Len(row) \in Lost
    BY <2>5, <2>9, RowFacts
  <2>11. Len(row) < n /\ n \in Nat
    BY <2>2, <2>4, <2>5
  <2> HIDE DEF Lost
  <2> QED BY <2>3, <2>5, <2>10, <2>11 DEF OpToRel
<1>3. ASSUME NEW c \in Outer, tail[c] = <<>> PROVE FALSE
  <2>1. c \in Iterations
    BY RowFacts DEF Outer
  <2>2. started[c] = 1
    BY <1>2, <2>1
  <2>3. PICK t \in DOMAIN pc : c \in Entered(t)
    BY <1>3, <2>2 DEF TailsOK
  <2>4. PICK l \in EnteredLevels(t) : c = EnteredAt(t, l)
    BY <2>3 DEF Entered
  <2>5. pc[t] # "done"
    BY <2>4, EnteredFacts
  <2> QED BY <1>1, <2>5
<1> QED BY <1>1, <1>2, <1>3 DEF NothingLost

\* The work is always with exactly one task, and so is what is in the middle.
THEOREM WorkInvariance == Spec => [](WorkOK /\ TailsOK)
<1>1. Init => MemoryInv /\ WorkOK /\ TailsOK
  BY InitMemory, InitWork
<1>2. (MemoryInv /\ WorkOK /\ TailsOK) /\ [Next]_vars => (MemoryInv /\ WorkOK /\ TailsOK)'
  BY NextMemory, NextWork
<1> QED BY <1>1, <1>2, PTL DEF Spec

\* When the original function goes on after the nest every iteration of every level
\* has run exactly once, every tail has run, and every branch has ended: whatever a
\* leftover task or a return code cut short had nothing else to run.
THEOREM NothingIsLost == Spec => []NothingLost
<1>1. MemoryInv /\ WorkOK /\ TailsOK => NothingLost
  BY AllEnded DEF NothingLost
<1>2. Spec => []MemoryInv
  BY MemoryInvariance
<1> QED BY <1>1, <1>2, WorkInvariance, PTL

-----------------------------------------------------------------------------
(***************************************************************************)
(* Values.                                                                 *)
(***************************************************************************)

\* Bags of the iterations of a row.
LEMMA EmptyValue ==
  ASSUME NEW row, NEW from \in Int, NEW to \in Int, to <= from
  PROVE  ValueOf(row, from, to) = EmptyBag
<1>1. from .. to - 1 = {}
  OBVIOUS
<1>2. {Append(row, i) : i \in from .. to - 1} = {}
  BY <1>1
<1> QED BY <1>2 DEF ValueOf, EmptyBag

LEMMA ValueSum ==
  ASSUME NEW row \in Seq(Nat), NEW a \in Nat, NEW b \in Nat, NEW c \in Nat, a <= b, b <= c
  PROVE  ValueOf(row, a, b) (+) ValueOf(row, b, c) = ValueOf(row, a, c)
<1> DEFINE A == {Append(row, i) : i \in a .. b - 1}
           B == {Append(row, i) : i \in b .. c - 1}
           C == {Append(row, i) : i \in a .. c - 1}
<1>1. a .. c - 1 = (a .. b - 1) \cup (b .. c - 1)
  OBVIOUS
<1>2. C = A \cup B
  BY <1>1
<1>3. ASSUME NEW x \in A, x \in B PROVE FALSE
  <2>1. PICK i \in a .. b - 1 : x = Append(row, i)
    OBVIOUS
  <2>2. PICK j \in b .. c - 1 : x = Append(row, j)
    BY <1>3
  <2>3. i \in Nat /\ j \in Nat /\ i # j
    OBVIOUS
  <2> QED BY <2>1, <2>2, <2>3, SameIteration
<1> HIDE DEF A, B, C
<1>4. /\ DOMAIN SetToBag(A) = A /\ \A x \in A : SetToBag(A)[x] = 1
      /\ DOMAIN SetToBag(B) = B /\ \A x \in B : SetToBag(B)[x] = 1
  BY DEF SetToBag
<1>5. SetToBag(A) (+) SetToBag(B) = [x \in A \cup B |-> 1]
  BY <1>3, <1>4 DEF (+)
<1>6. SetToBag(A) (+) SetToBag(B) = SetToBag(C)
  BY <1>2, <1>5 DEF SetToBag
<1> QED BY <1>6 DEF ValueOf, A, B, C

\* The value of the leaf loop an iteration calls.
LEMMA WholeValue ==
  ASSUME NEW c \in DOMAIN Bounds, Len(c) = Leaf
  PROVE  ValueOf(c, Bounds[c].first, Bounds[c].last) = WholeRow(c)
<1> DEFINE S == {Append(c, i) : i \in Indices(c)}
<1>1. c \in Seq(Nat) /\ Len(c) \in Nat
  BY RowFacts
<1>2. ASSUME NEW i \in Indices(c) PROVE Append(c, i) \in LeafRow(c)
  <2>1. Append(c, i) \in Iterations /\ Len(Append(c, i)) = Leaf + 1 /\ i \in Nat
    BY IterationFacts
  <2>2. SubSeq(Append(c, i), 1, Len(c)) = c
    BY <1>1, <2>1
  <2>3. IsPrefix(c, Append(c, i))
    <3>1. Len(c) <= Len(Append(c, i))
      BY <1>1, <2>1
    <3>2. SubSeq(c, 1, Len(c)) = c
      BY <1>1
    <3> QED BY <2>2, <3>1, <3>2 DEF IsPrefix
  <2> QED BY <2>1, <2>3 DEF LeafRow
<1>3. ASSUME NEW d \in LeafRow(c) PROVE d \in S
  <2>1. d \in Iterations /\ Len(d) = Leaf + 1 /\ IsPrefix(c, d)
    BY DEF LeafRow
  <2>2. PICK row \in DOMAIN Bounds : \E i \in Indices(row) : d = Append(row, i)
    BY <2>1, RowOfIteration
  <2>0. PICK i \in Indices(row) : d = Append(row, i)
    BY <2>2
  <2>3. row \in Seq(Nat) /\ i \in Nat /\ Len(d) = Len(row) + 1 /\ Len(row) \in Nat
    BY <2>0, RowFacts, IterationFacts
  <2>4. Len(row) = Len(c)
    BY <1>1, <2>1, <2>3, LevelFacts
  <2>5. SubSeq(d, 1, Len(c)) = row
    BY <2>0, <2>3, <2>4
  <2>6. SubSeq(c, 1, Len(c)) = c
    BY <1>1
  <2>7. c = row
    BY <1>1, <2>1, <2>5, <2>6 DEF IsPrefix
  <2> QED BY <2>0, <2>7
<1>4. S = LeafRow(c)
  BY <1>2, <1>3
<1> HIDE DEF S
<1>5. ValueOf(c, Bounds[c].first, Bounds[c].last) = SetToBag(S)
  BY DEF ValueOf, Indices, S
<1> QED BY <1>4, <1>5 DEF WholeRow

\* What a leaf slice will give, it will give after the step.
DeliversKept(v) ==
  \A to, row, first, last :
    Delivers(v, to, row, first, last) => Delivers(v, to, row, first, last)'

\* The array of the leaf slice of v keeps what branches have put there.
SlotsKept(v) ==
  \A k \in {0, 1} : array'[<<v, Leaf>>].slots[k] = array[<<v, Leaf>>].slots[k]

LEMMA OthersDeliver ==
  ASSUME MemoryInv, NEW t \in DOMAIN pc, pc[t] \notin {"done", "join"}, Alone(t),
         NEW v \in DOMAIN pc, v # t, pc[v] # "done", top[v] = Leaf,
         pc[v] \notin {"start", "enter", "header", "poll", "join"} => SlotsKept(v)
  PROVE  DeliversKept(v)
<1>1. /\ pc'[v] = pc[v] /\ base'[v] = base[v] /\ top'[v] = top[v] /\ until'[v] = until[v]
      /\ area'[v] = area[v] /\ frame'[v] = frame[v] /\ rc'[v] = rc[v]
  BY DEF Alone
<1> SUFFICES ASSUME NEW to, NEW row, NEW first, NEW last, Delivers(v, to, row, first, last)
             PROVE  Delivers(v, to, row, first, last)'
  BY DEF DeliversKept
<1>2. CASE pc[v] \in {"start", "enter"}
  <2>1. pc[v] # "join" /\ area[v] # area[t] /\ area[v] \in DOMAIN cxt /\ ReadableAt(v, Leaf)
    BY <1>2, AreaWaits, OwnFacts DEF TopOK
  <2>2. cxt'[area[v]] = cxt[area[v]] /\ Cxt(v)' = Cxt(v)
    BY <1>1, <2>1 DEF Alone, Cxt
  <2>3. ArraysKept(v)
    BY AloneOthers
  <2>4. RowOf(v, Leaf)' = RowOf(v, Leaf)
    <3>1. Owned(v, {Leaf - 1}, Cxt(v)[Leaf].liveIn)
      BY <2>1 DEF ReadableAt
    <3> QED BY <2>2, <2>3, <3>1 DEF RowOf, Owned, ArraysKept
  <2>5. Ahead(v, Leaf)' = Ahead(v, Leaf)
    BY <1>1, <1>2, <2>2 DEF Ahead
  <2> QED BY <1>1, <1>2, <2>2, <2>4, <2>5 DEF Delivers
<1>3. CASE pc[v] \in {"header", "poll", "join"}
  BY <1>1, <1>3 DEF Delivers
<1>4. CASE pc[v] \notin {"start", "enter", "header", "poll", "join"}
  <2>1. Reduced(v)' = Reduced(v)
    BY <1>1, <1>4 DEF Reduced, Reg, SlotsKept
  <2> QED BY <1>1, <1>4, <2>1 DEF Delivers
<1> QED BY <1>2, <1>3, <1>4

\* No one but t writes to arrays, and of others' only to its place in its parent's.
OthersArrays(t) ==
  \A v \in DOMAIN pc \ {t} : \A l \in Level : \A k \in {0, 1} :
    <<v, l>> \in DOMAIN array /\ (l # Leaf \/ Append(v, k) # t)
      => array'[<<v, l>>].slots[k] = array[<<v, l>>].slots[k]

BranchKept(p, k) ==
  \A row, first, last :
    BranchDelivers(p, k, row, first, last) => BranchDelivers(p, k, row, first, last)'

\* What a task gives to a parent that waits for it, it will give after the step.
ParentKept(t) ==
  \A p \in DOMAIN pc : \A k \in {0, 1} :
    pc[p] = "join" /\ Append(p, k) = t /\ (k = 0 \/ Given(p) = Leaf) => BranchKept(p, k)

\* The parent of a task that is not done waits for it.
LEMMA ParentWaits ==
  ASSUME MemoryInv, NEW t \in DOMAIN pc, pc[t] # "done",
         NEW p \in DOMAIN pc, NEW k \in {0, 1}, Append(p, k) = t
  PROVE  pc[p] = "join" /\ p # t
<1>1. p \in Paths /\ Len(p) \in Nat /\ t \in Paths
  BY MemoryParts, AreaOf
<1>2. Len(t) = Len(p) + 1 /\ p = SubSeq(t, 1, Len(p))
  BY <1>1 DEF Paths
<1>3. p \in Ancestors(t)
  <2>1. Len(p) \in 0 .. Len(t) - 1
    BY <1>1, <1>2
  <2> QED BY <1>2, <2>1 DEF Ancestors
<1> QED BY <1>1, <1>2, <1>3, Lineage

LEMMA OthersSlots ==
  ASSUME MemoryInv, NEW t \in DOMAIN pc, pc[t] # "done", OthersArrays(t),
         NEW v \in DOMAIN pc, v # t, pc[v] # "done", top[v] = Leaf,
         pc[v] \notin {"start", "enter", "header", "poll", "join"}
  PROVE  SlotsKept(v)
<1>1. DOMAIN frame[v] = base[v] .. Leaf /\ base[v] \in Nat /\ base[v] <= Leaf /\ Level = 0 .. Leaf
      /\ Leaf \in Nat
  BY LevelRange
<1>2. <<v, Leaf>> \in DOMAIN array /\ Leaf \in Level
  BY <1>1, ArrayOfFrame
<1>3. \A k \in {0, 1} : Append(v, k) # t
  BY ParentWaits
<1> QED BY <1>2, <1>3 DEF SlotsKept, OthersArrays

LEMMA OthersValues ==
  ASSUME MemoryInv, ValuesOK, NEW t \in DOMAIN pc, pc[t] \notin {"done", "join"}, Alone(t),
         OthersArrays(t), ParentKept(t), NEW v \in DOMAIN pc, v # t
  PROVE  CallOK(v)' /\ BranchesOK(v)'
<1>1. /\ pc'[v] = pc[v] /\ base'[v] = base[v] /\ top'[v] = top[v]
      /\ frame'[v] = frame[v] /\ Given(v)' = Given(v)
  BY AloneForked DEF Alone
<1>2. CallOK(v)'
  <2>1. SUFFICES ASSUME pc[v] # "done", base[v] < Leaf PROVE CallOK(v)'
    BY <1>1 DEF CallOK
  <2>2. EnteredAt(v, Leaf - 1)' = EnteredAt(v, Leaf - 1)
    BY <1>1 DEF EnteredAt
  <2>3. CASE top[v] = Leaf
    <3>1. DeliversKept(v)
      BY <2>1, <2>3, OthersSlots, OthersDeliver
    <3>2. PICK c : c = EnteredAt(v, Leaf - 1)
      OBVIOUS
    <3>3. Delivers(v, <<v, Leaf - 1>>, c, Bounds[c].first, Bounds[c].last)
      BY <2>1, <2>3, <3>2 DEF ValuesOK, CallOK
    <3>4. Delivers(v, <<v, Leaf - 1>>, c, Bounds[c].first, Bounds[c].last)'
      BY <3>1, <3>3 DEF DeliversKept
    <3>5. top'[v] # Leaf - 1 /\ EnteredAt(v, Leaf - 1)' = c
      BY <1>1, <2>2, <2>3, <3>2, LevelFacts
    <3> QED BY <3>4, <3>5 DEF CallOK
  <2>4. CASE top[v] # Leaf
    <3>1. SUFFICES ASSUME pc[v] = "back", top[v] = Leaf - 1
                   PROVE  array'[<<v, Leaf - 1>>].slots[0] = array[<<v, Leaf - 1>>].slots[0]
      BY <1>1, <2>1, <2>2, <2>4 DEF CallOK, ValuesOK
    <3>2. DOMAIN frame[v] = base[v] .. Leaf - 1 /\ base[v] \in Nat /\ Leaf \in Nat
          /\ base[v] <= Leaf - 1 /\ Level = 0 .. Leaf
      BY <3>1, LevelRange
    <3>3. Leaf - 1 \in Level /\ Leaf - 1 \in DOMAIN frame[v] /\ Leaf - 1 # Leaf
      BY <3>2
    <3>4. <<v, Leaf - 1>> \in DOMAIN array
      BY <3>3, ArrayOfFrame
    <3> QED BY <3>3, <3>4 DEF OthersArrays
  <2> QED BY <2>3, <2>4
<1>3. BranchesOK(v)'
  <2>1. SUFFICES ASSUME pc[v] = "join" PROVE BranchesOK(v)'
    BY <1>1 DEF BranchesOK
  <2>2. /\ Append(v, 0) \in DOMAIN pc /\ Append(v, 1) \in DOMAIN pc
        /\ <<v, Leaf>> \in DOMAIN array /\ Leaf \in Level
    <3>1. top[v] = Leaf
      BY <2>1, OwnFacts DEF CodeOK
    <3>2. DOMAIN frame[v] = base[v] .. Leaf /\ base[v] \in Nat /\ base[v] <= Leaf
          /\ Level = 0 .. Leaf /\ Leaf \in Nat
      BY <2>1, <3>1, LevelRange
    <3> QED BY <2>1, <3>2, ArrayOfFrame, MemoryParts DEF FamiliesOK, KidsOf
  <2>3. ASSUME NEW k \in {0, 1}, k = 0 \/ Given(v) = Leaf PROVE BranchKept(v, k)
    <3>1. CASE Append(v, k) = t
      BY <2>1, <2>3, <3>1 DEF ParentKept
    <3>2. CASE Append(v, k) # t
      <4>1. PICK b \in DOMAIN pc : b = Append(v, k) /\ b # t
        BY <2>2, <3>2
      <4>2. pc'[b] = pc[b] /\ base'[b] = base[b]
        BY <4>1 DEF Alone
      <4>3. array'[<<v, Leaf>>].slots[k] = array[<<v, Leaf>>].slots[k]
        BY <2>2, <3>2 DEF OthersArrays
      <4>4. pc[b] # "done" /\ ~(base[b] < Leaf) => DeliversKept(b)
        <5>1. SUFFICES ASSUME pc[b] # "done", ~(base[b] < Leaf) PROVE DeliversKept(b)
          OBVIOUS
        <5>2. top[b] = Leaf
          BY <5>1, LevelRange
        <5> QED BY <4>1, <5>1, <5>2, OthersSlots, OthersDeliver
      <4> QED BY <4>1, <4>2, <4>3, <4>4 DEF BranchKept, BranchDelivers, DeliversKept
    <3> QED BY <3>1, <3>2
  <2>4. BranchesOK(v)
    BY DEF ValuesOK
  <2>5. PICK r : r = frame[v][Leaf] /\ r = frame'[v][Leaf]
    BY <1>1
  <2>6. CASE Given(v) = Leaf
    <3>1. PICK mid \in r.low .. r.max :
             BranchDelivers(v, 0, r.row, r.low, mid) /\ BranchDelivers(v, 1, r.row, mid, r.max)
      BY <2>1, <2>4, <2>5, <2>6 DEF BranchesOK
    <3>2. /\ BranchDelivers(v, 0, r.row, r.low, mid)'
          /\ BranchDelivers(v, 1, r.row, mid, r.max)'
      BY <2>3, <2>6, <3>1 DEF BranchKept
    <3> QED BY <1>1, <2>1, <2>4, <2>5, <2>6, <3>2 DEF BranchesOK
  <2>7. CASE Given(v) # Leaf
    <3>1. BranchDelivers(v, 0, r.row, r.low, r.max)
      BY <2>1, <2>4, <2>5, <2>7 DEF BranchesOK
    <3>2. BranchDelivers(v, 0, r.row, r.low, r.max)'
      BY <2>3, <3>1 DEF BranchKept
    <3> QED BY <1>1, <2>1, <2>4, <2>5, <2>7, <3>2 DEF BranchesOK
  <2> QED BY <2>6, <2>7
<1> QED BY <1>2, <1>3

\* A task that was promoted has both branches.
LEMMA BothBranches ==
  ASSUME MemoryInv, NEW v \in DOMAIN pc, Forked(v)
  PROVE  Append(v, 1) \in DOMAIN pc
<1>1. v \in Paths /\ Append(v, 0) \in DOMAIN pc
  BY MemoryParts, AreaOf DEF Forked
<1>2. PICK p \in DOMAIN pc : Append(v, 0) \in KidsOf(p) /\ KidsOf(p) \subseteq DOMAIN pc
  <2>1. Append(v, 0) # Root
    BY <1>1, Branches, RootPath
  <2> QED BY <1>1, <2>1, MemoryParts DEF FamiliesOK
<1>3. p \in Paths
  BY MemoryParts, AreaOf
<1>4. p = v
  BY <1>1, <1>2, <1>3, BranchesApart DEF KidsOf
<1> QED BY <1>2, <1>4 DEF KidsOf

LEMMA StepValues ==
  ASSUME MemoryInv, ValuesOK, NEW t \in DOMAIN pc, pc[t] \notin {"done", "join"}, Alone(t),
         pc'[t] # "join", OthersArrays(t), ParentKept(t), CallOK(t)',
         pc'[t] \in {"header", "poll"} /\ top'[t] = Leaf => Cxt(t)[Leaf]'.liveOut = <<t, Leaf>>,
         base'[t] # base[t] => base[t] > until[t],
         \A q \in DOMAIN array' : DOMAIN array'[q].slots = 0 .. 1,
         \A c \in Outer : tail'[c] # <<>> => tail'[c] = <<WholeRow(c)>>
  PROVE  ValuesOK'
<1>1. ASSUME NEW v \in DOMAIN pc PROVE CallOK(v)' /\ BranchesOK(v)' /\ ForkOK(v)'
  <2>1. CallOK(v)' /\ BranchesOK(v)'
    <3>1. CASE v = t
      BY <3>1 DEF BranchesOK
    <3>2. CASE v # t
      BY <3>2, OthersValues
    <3> QED BY <3>1, <3>2
  <2>2. pc'[v] \in {"header", "poll"} /\ top'[v] = Leaf => Cxt(v)[Leaf]'.liveOut = <<v, Leaf>>
    <3>1. CASE v = t
      BY <3>1
    <3>2. CASE v # t
      <4>1. SUFFICES ASSUME pc[v] \in {"header", "poll"}, top[v] = Leaf
                     PROVE  Cxt(v)[Leaf]'.liveOut = <<v, Leaf>>
        BY <3>2 DEF Alone
      <4>2. area[v] # area[t] /\ area[v] \in DOMAIN cxt
        BY <3>2, <4>1, AreaWaits, OwnFacts
      <4>3. Cxt(v)' = Cxt(v)
        BY <4>2 DEF Alone, Cxt
      <4>4. Cxt(v)[Leaf].liveOut = <<v, Leaf>>
        BY <4>1 DEF ValuesOK, ForkOK
      <4> QED BY <4>3, <4>4
    <3> QED BY <3>1, <3>2
  <2>3. Forked(v)' => until'[Append(v, 1)] = Given(v)' /\ base'[Append(v, 1)] = Given(v)'
    <3>1. SUFFICES ASSUME Forked(v)
                   PROVE  until'[Append(v, 1)] = Given(v) /\ base'[Append(v, 1)] = Given(v)
      BY AloneForked
    <3>2. until[Append(v, 1)] = Given(v) /\ base[Append(v, 1)] = Given(v) /\ Given(v) \in Int
      BY <3>1, GivenFacts DEF ValuesOK, ForkOK
    <3>3. Append(v, 1) \in DOMAIN pc
      BY <3>1, BothBranches
    <3>4. CASE Append(v, 1) = t
      <4>0. until[t] = Given(v) /\ base[t] = Given(v)
        BY <3>2, <3>4
      <4>1. base'[t] = base[t]
        <5>1. ~(base[t] > until[t])
          BY <3>2, <4>0
        <5> QED BY <5>1
      <4> QED BY <3>4, <4>0, <4>1 DEF Alone
    <3>5. CASE Append(v, 1) # t
      BY <3>2, <3>3, <3>5 DEF Alone
    <3> QED BY <3>4, <3>5
  <2>4. v = Root => base'[v] = 0
    <3>1. CASE v = t
      BY <3>1, LevelRange DEF ValuesOK, ForkOK
    <3>2. CASE v # t
      BY <3>2 DEF ValuesOK, ForkOK, Alone
    <3> QED BY <3>1, <3>2
  <2> QED BY <2>1, <2>2, <2>3, <2>4 DEF ForkOK
<1>2. DOMAIN pc' = DOMAIN pc
  BY DEF Alone
<1> QED BY <1>1, <1>2 DEF ValuesOK

\* A task gives its parent the same if its slice does and no slots are written.
LEMMA SameParent ==
  ASSUME MemoryInv, ValuesOK, NEW t \in DOMAIN pc, pc[t] \notin {"done", "join"}, Alone(t),
         pc'[t] # "done", base'[t] = base[t], ~(base[t] < Leaf) => DeliversKept(t),
         \A v \in DOMAIN pc \ {t} : \A l \in Level : \A k \in {0, 1} : <<v, l>> \in DOMAIN array
           => array'[<<v, l>>].slots[k] = array[<<v, l>>].slots[k]
  PROVE  OthersArrays(t) /\ ParentKept(t)
<1>1. OthersArrays(t)
  BY DEF OthersArrays
<1>2. ParentKept(t)
  <2>1. SUFFICES ASSUME NEW p \in DOMAIN pc, NEW k \in {0, 1}, pc[p] = "join", Append(p, k) = t,
                        NEW row, NEW first, NEW last, BranchDelivers(p, k, row, first, last)
                 PROVE  BranchDelivers(p, k, row, first, last)'
    BY DEF ParentKept, BranchKept
  <2>2. <<p, Leaf>> \in DOMAIN array /\ p # t /\ Leaf \in Level
    <3>1. top[p] = Leaf
      BY <2>1, OwnFacts DEF CodeOK
    <3>2. DOMAIN frame[p] = base[p] .. Leaf /\ base[p] \in Nat /\ base[p] <= Leaf
          /\ Level = 0 .. Leaf /\ Leaf \in Nat
      BY <2>1, <3>1, LevelRange
    <3>3. p # t
      BY <2>1, ParentWaits
    <3> QED BY <3>2, <3>3, ArrayOfFrame
  <2>3. CASE base[t] < Leaf
    BY <2>1, <2>2, <2>3 DEF BranchDelivers
  <2>4. CASE ~(base[t] < Leaf)
    BY <2>1, <2>4 DEF BranchDelivers, DeliversKept
  <2> QED BY <2>3, <2>4
<1> QED BY <1>1, <1>2

\* Steps of a task that stay in its slice and leave the arrays alone.
LEMMA InsideValues ==
  ASSUME MemoryInv, ValuesOK, NEW t \in DOMAIN pc, pc[t] \notin {"done", "join"}, Alone(t),
         pc'[t] \notin {"done", "join", "back"}, base'[t] = base[t], top'[t] = top[t],
         \A q \in DOMAIN array : array'[q].slots = array[q].slots,
         \A q \in DOMAIN array' : DOMAIN array'[q].slots = 0 .. 1,
         top[t] = Leaf => /\ DeliversKept(t)
                          /\ base[t] < Leaf => EnteredAt(t, Leaf - 1)' = EnteredAt(t, Leaf - 1),
         pc'[t] \in {"header", "poll"} /\ top'[t] = Leaf => Cxt(t)[Leaf]'.liveOut = <<t, Leaf>>,
         \A c \in Outer : tail'[c] # <<>> => tail'[c] = <<WholeRow(c)>>
  PROVE  ValuesOK'
<1>1. OthersArrays(t) /\ ParentKept(t)
  <2>1. ~(base[t] < Leaf) => DeliversKept(t)
    BY LevelRange
  <2> QED BY <2>1, SameParent
<1>3. CallOK(t)'
  <2>1. SUFFICES ASSUME base[t] < Leaf, top[t] = Leaf PROVE CallOK(t)'
    BY DEF CallOK
  <2>2. PICK c : c = EnteredAt(t, Leaf - 1) /\ c = EnteredAt(t, Leaf - 1)'
    BY <2>1
  <2>3. Delivers(t, <<t, Leaf - 1>>, c, Bounds[c].first, Bounds[c].last)
    BY <2>1, <2>2 DEF ValuesOK, CallOK
  <2>4. Delivers(t, <<t, Leaf - 1>>, c, Bounds[c].first, Bounds[c].last)'
    BY <2>1, <2>3 DEF DeliversKept
  <2> QED BY <2>2, <2>4 DEF CallOK
<1> QED BY <1>1, <1>3, StepValues

\* What ValuesOK says of arrays and tails stays true when they stay the same.
LEMMA SameArrays ==
  ASSUME ValuesOK, array' = array, tail' = tail
  PROVE  /\ \A q \in DOMAIN array : array'[q].slots = array[q].slots
         /\ \A q \in DOMAIN array' : DOMAIN array'[q].slots = 0 .. 1
         /\ \A c \in Outer : tail'[c] # <<>> => tail'[c] = <<WholeRow(c)>>
  BY DEF ValuesOK

LEMMA StartValues ==
  ASSUME MemoryInv, ValuesOK, NEW t \in DOMAIN pc, Start(t)
  PROVE  ValuesOK'
<1>1. Alone(t) /\ StartEffect(t)
  BY StartEffects
<1>2. /\ pc[t] = "start" /\ pc'[t] = "enter" /\ frame' = frame /\ array' = array /\ tail' = tail
      /\ base'[t] = base[t] /\ top'[t] = top[t] /\ until'[t] = until[t] /\ area'[t] = area[t]
  BY <1>1 DEF StartEffect, Alone
<1>3. ASSUME top[t] = Leaf PROVE DeliversKept(t)
  <2>1. /\ Cxt(t)[Leaf]'.max = Cxt(t)[Leaf].max /\ Cxt(t)[Leaf]'.liveIn = Cxt(t)[Leaf].liveIn
        /\ Cxt(t)[Leaf]'.liveOut = Cxt(t)[Leaf].liveOut
        /\ Cxt(t)[Leaf]'.start =
             IF base[t] > until[t] THEN Cxt(t)[Leaf].start + 1 ELSE Cxt(t)[Leaf].start
    BY <1>1, <1>2, LevelFacts DEF StartEffect, Cxt
  <2>2. RowOf(t, Leaf)' = RowOf(t, Leaf)
    BY <1>2, <2>1 DEF RowOf
  <2>3. ~(Leaf < Leaf)
    BY LevelFacts
  <2>4. Ahead(t, Leaf)' = Ahead(t, Leaf)
    BY <1>2, <1>3, <2>1, <2>3 DEF Ahead, AfterSuspended
  <2> QED BY <1>2, <2>1, <2>2, <2>4 DEF DeliversKept, Delivers
<1>4. EnteredAt(t, Leaf - 1)' = EnteredAt(t, Leaf - 1)
  BY <1>2 DEF EnteredAt
<1> QED BY <1>1, <1>2, <1>3, <1>4, SameArrays, InsideValues

LEMMA LeaveLoopValues ==
  ASSUME MemoryInv, ValuesOK, NEW t \in DOMAIN pc, LeaveLoop(t)
  PROVE  ValuesOK'
<1>1. /\ Alone(t) /\ pc[t] = "header" /\ pc'[t] = "exit" /\ rc'[t] = 0
      /\ UNCHANGED <<base, top, frame, array, cxt, tail>>
      /\ frame[t][top[t]].iv \in Nat /\ frame[t][top[t]].max \in Nat
      /\ frame[t][top[t]].max <= frame[t][top[t]].iv
  BY LeaveLoopEffects
<1>2. ASSUME top[t] = Leaf PROVE DeliversKept(t)
  <2>1. PICK r : r = frame[t][Leaf] /\ r = frame'[t][Leaf]
    BY <1>1
  <2>2. Reduced(t)' = r.priv
    BY <1>1, <1>2, <2>1 DEF Reduced, Reg
  <2> SUFFICES ASSUME NEW to, NEW row, NEW first, NEW last, Delivers(t, to, row, first, last)
               PROVE  Delivers(t, to, row, first, last)'
    BY DEF DeliversKept
  <2>3. /\ r.out = to /\ r.row = row /\ r.max = last /\ r.priv = ValueOf(row, first, r.iv)
        /\ first \in 0 .. r.iv /\ (r.iv <= last \/ r.iv = first)
    BY <1>1, <2>1 DEF Delivers
  <2>4. r.iv \in Nat /\ last \in Nat /\ last <= r.iv
    BY <1>1, <1>2, <2>1, <2>3
  <2>5. r.priv = ValueOf(row, first, last)
    <3>1. CASE r.iv <= last
      <4>1. r.iv = last
        BY <2>4, <3>1
      <4> QED BY <2>3, <4>1
    <3>2. CASE r.iv = first
      <4>1. ValueOf(row, first, r.iv) = EmptyBag /\ ValueOf(row, first, last) = EmptyBag
        BY <2>4, <3>2, EmptyValue
      <4> QED BY <2>3, <4>1
    <3> QED BY <2>3, <3>1, <3>2
  <2> QED BY <1>1, <2>1, <2>2, <2>3, <2>5 DEF Delivers
<1>3. EnteredAt(t, Leaf - 1)' = EnteredAt(t, Leaf - 1)
  BY <1>1 DEF EnteredAt
<1> QED BY <1>1, <1>2, <1>3, SameArrays, InsideValues

LEMMA EnterValues ==
  ASSUME MemoryInv, ValuesOK, NEW t \in DOMAIN pc, Enter(t)
  PROVE  ValuesOK'
<1>1. Alone(t) /\ EnterEffect(t)
  BY EnterEffects
<1>2. /\ pc[t] = "enter" /\ pc'[t] = "header" /\ tail' = tail
      /\ base'[t] = base[t] /\ top'[t] = top[t] /\ area'[t] = area[t]
      /\ \A l \in DOMAIN frame[t] : frame'[t][l] = frame[t][l]
      /\ DOMAIN frame[t] = base[t] .. top[t] - 1
      /\ array'[<<t, top[t]>>] = NewArray /\ \A q \in DOMAIN array : array'[q] = array[q]
      /\ DOMAIN array' = DOMAIN array \cup {<<t, top[t]>>}
  BY <1>1, LevelRange DEF EnterEffect, Alone
<1>3. /\ top[t] \in Nat /\ base[t] \in Nat /\ Leaf \in Nat
  BY <1>2, LevelRange
<1>4. ASSUME top[t] = Leaf PROVE Cxt(t)[Leaf]'.liveOut = <<t, Leaf>>
  BY <1>1, <1>2, <1>4 DEF EnterEffect, Cxt
<1>5. ASSUME top[t] = Leaf PROVE DeliversKept(t)
  <2>1. PICK r : r = frame'[t][Leaf]
    OBVIOUS
  <2>2. /\ r.iv = Cxt(t)[Leaf].start /\ r.max = Cxt(t)[Leaf].max /\ r.out = Cxt(t)[Leaf].liveOut
        /\ r.row = RowOf(t, Leaf) /\ r.priv = EmptyBag
    BY <1>1, <1>5, <2>1 DEF EnterEffect, Cxt, RowOf
  <2>3. Cxt(t)[Leaf].start \in Nat
    BY <1>2, <1>5, OwnFacts DEF TopOK, ReadableAt
  <2>4. Ahead(t, Leaf) = Cxt(t)[Leaf].start
    BY <1>2, <1>3, <1>5 DEF Ahead
  <2> SUFFICES ASSUME NEW to, NEW row, NEW first, NEW last, Delivers(t, to, row, first, last)
               PROVE  Delivers(t, to, row, first, last)'
    BY DEF DeliversKept
  <2>5. r.out = to /\ r.row = row /\ r.max = last /\ r.iv = first
    BY <1>2, <2>2, <2>4 DEF Delivers
  <2>6. r.priv = ValueOf(row, first, r.iv) /\ first \in 0 .. r.iv
    BY <2>2, <2>3, <2>5, EmptyValue
  <2> QED BY <1>2, <2>1, <2>5, <2>6 DEF Delivers
<1>6. ASSUME top[t] = Leaf, base[t] < Leaf PROVE EnteredAt(t, Leaf - 1)' = EnteredAt(t, Leaf - 1)
  <2>1. Leaf - 1 \in DOMAIN frame[t]
    BY <1>2, <1>3, <1>6
  <2> QED BY <1>2, <2>1 DEF EnteredAt
<1>7. \A q \in DOMAIN array' : DOMAIN array'[q].slots = 0 .. 1
  BY <1>2 DEF ValuesOK, NewArray
<1>8. \A c \in Outer : tail'[c] # <<>> => tail'[c] = <<WholeRow(c)>>
  BY <1>2 DEF ValuesOK
<1> QED BY <1>1, <1>2, <1>4, <1>5, <1>6, <1>7, <1>8, InsideValues

LEMMA RunChunkValues ==
  ASSUME MemoryInv, ValuesOK, NEW t \in DOMAIN pc, RunChunk(t)
  PROVE  ValuesOK'
<1>1. PICK high : Alone(t) /\ ChunkEffect(t, high)
  BY RunChunkEffects
<1>2. PICK r, q : r = frame[t][Leaf] /\ q = frame'[t][Leaf]
  OBVIOUS
<1>3. /\ pc[t] = "header" /\ top[t] = Leaf /\ area'[t] = area[t]
      /\ (pc'[t] = "poll" \/ (pc'[t] = "exit" /\ high = r.max)) /\ rc'[t] = 0
      /\ UNCHANGED <<base, top, array, cxt, tail>>
      /\ \A l \in DOMAIN frame[t] : l # Leaf => frame'[t][l] = frame[t][l]
      /\ q.max = r.max /\ q.row = r.row /\ q.out = r.out /\ q.low = high
      /\ q.priv = r.priv (+) ValueOf(r.row, r.iv, high)
      /\ r.iv \in Nat /\ high \in Nat /\ r.max \in Nat /\ r.iv < high /\ high <= r.max
      /\ r.row \in DOMAIN Bounds
  BY <1>1, <1>2 DEF ChunkEffect, Alone, ValueOf, Part
<1>4. DeliversKept(t)
  <2>1. Reduced(t)' = q.priv
    BY <1>2, <1>3 DEF Reduced, Reg
  <2> SUFFICES ASSUME NEW to, NEW row, NEW first, NEW last, Delivers(t, to, row, first, last)
               PROVE  Delivers(t, to, row, first, last)'
    BY DEF DeliversKept
  <2>2. /\ r.out = to /\ r.row = row /\ r.max = last /\ r.priv = ValueOf(row, first, r.iv)
        /\ first \in 0 .. r.iv
    BY <1>2, <1>3 DEF Delivers
  <2>3. first \in Nat /\ first <= r.iv /\ r.iv <= high /\ row \in Seq(Nat)
    BY <1>3, <2>2, RowFacts
  <2>4. q.priv = ValueOf(row, first, high)
    BY <1>3, <2>2, <2>3, ValueSum
  <2>5. first \in 0 .. high /\ high <= last
    BY <1>3, <2>2, <2>3
  <2> QED BY <1>2, <1>3, <2>1, <2>2, <2>4, <2>5 DEF Delivers
<1>5. ASSUME base[t] < Leaf PROVE EnteredAt(t, Leaf - 1)' = EnteredAt(t, Leaf - 1)
  <2>1. DOMAIN frame[t] = base[t] .. Leaf /\ base[t] \in Nat /\ Leaf \in Nat
    BY <1>3, LevelRange
  <2>2. Leaf - 1 \in DOMAIN frame[t] /\ Leaf - 1 # Leaf
    BY <1>5, <2>1
  <2> QED BY <1>3, <2>2 DEF EnteredAt
<1>6. Cxt(t)[Leaf]'.liveOut = <<t, Leaf>>
  BY <1>3 DEF ValuesOK, ForkOK, Cxt
<1> QED BY <1>1, <1>3, <1>4, <1>5, <1>6, SameArrays, InsideValues

LEMMA LatchValues ==
  ASSUME MemoryInv, ValuesOK, NEW t \in DOMAIN pc, NoHeartbeat(t) \/ HeartbeatIgnored(t)
  PROVE  ValuesOK'
<1>1. Alone(t) /\ LatchEffect(t)
  BY LatchEffects
<1>2. PICK r, q : r = frame[t][Leaf] /\ q = frame'[t][Leaf]
  OBVIOUS
<1>3. /\ pc[t] = "poll" /\ pc'[t] = "header" /\ top[t] = Leaf /\ area'[t] = area[t]
      /\ UNCHANGED <<base, top, array, tail>>
      /\ \A l \in DOMAIN frame[t] : l # Leaf => frame'[t][l] = frame[t][l]
      /\ q.iv = r.low /\ q.max = r.max /\ q.row = r.row /\ q.out = r.out /\ q.priv = r.priv
      /\ Cxt(t)[Leaf]'.liveOut = Cxt(t)[Leaf].liveOut
  BY <1>1, <1>2, LevelFacts DEF LatchEffect, Alone, Cxt
<1>4. DeliversKept(t)
  BY <1>2, <1>3 DEF DeliversKept, Delivers
<1>5. ASSUME base[t] < Leaf PROVE EnteredAt(t, Leaf - 1)' = EnteredAt(t, Leaf - 1)
  <2>1. DOMAIN frame[t] = base[t] .. Leaf /\ base[t] \in Nat /\ Leaf \in Nat
    BY <1>3, LevelRange
  <2>2. Leaf - 1 \in DOMAIN frame[t] /\ Leaf - 1 # Leaf
    BY <1>5, <2>1
  <2> QED BY <1>3, <2>2 DEF EnteredAt
<1>6. Cxt(t)[Leaf]'.liveOut = <<t, Leaf>>
  BY <1>3 DEF ValuesOK, ForkOK
<1> QED BY <1>1, <1>3, <1>4, <1>5, <1>6, SameArrays, InsideValues

LEMMA CallNestedValues ==
  ASSUME MemoryInv, ValuesOK, NEW t \in DOMAIN pc, CallNested(t)
  PROVE  ValuesOK'
<1>1. PICK row, from, h : Alone(t) /\ CallEffect(t, row, from, h)
  BY CallNestedEffects
<1>2. PICK n : n = top[t]
  OBVIOUS
<1>3. /\ pc[t] = "header" /\ pc'[t] = "enter" /\ n < Leaf /\ top'[t] = n + 1
      /\ base'[t] = base[t] /\ frame' = frame /\ tail' = tail /\ area'[t] = area[t]
      /\ h = EnteredAt(t, n)
      /\ DOMAIN array' = DOMAIN array /\ array'[<<t, n>>].live = h
      /\ \A q \in DOMAIN array : array'[q].slots = array[q].slots
  BY <1>1, <1>2 DEF CallEffect, Alone, EnteredAt
<1>4. base[t] <= n /\ n \in Nat /\ base[t] \in Nat /\ Leaf \in Nat /\ Level = 0 .. Leaf
  BY <1>2, <1>3, LevelRange
<1>5. base[t] < Leaf
  BY <1>3, <1>4
<1>6. OthersArrays(t) /\ ParentKept(t)
  BY <1>1, <1>3, <1>5, SameParent
<1>7. CallOK(t)'
  <2>1. SUFFICES ASSUME n + 1 = Leaf PROVE CallOK(t)'
    BY <1>3 DEF CallOK
  <2>2. n = Leaf - 1 /\ Leaf \in Level /\ Leaf # n /\ ~(Leaf < Leaf)
    BY <1>4, <2>1
  <2>3. /\ Cxt(t)[Leaf]'.liveIn = <<t, n>> /\ Cxt(t)[Leaf]'.liveOut = <<t, n>>
        /\ Cxt(t)[Leaf]'.max = Bounds[h].last /\ Cxt(t)[Leaf]'.start = Bounds[h].first
    <3>1. PICK a : a = area[t]
      OBVIOUS
    <3>2. /\ \A l \in Level :
               /\ cxt'[a][l].liveIn = cxt[a][l].liveIn /\ cxt'[a][l].liveOut = cxt[a][l].liveOut
               /\ cxt'[a][l].max = IF l = n + 1 THEN Bounds[h].last ELSE cxt[a][l].max
               /\ cxt'[a][l].start = CASE l = n     -> from
                                      [] l = n + 1 -> Bounds[h].first
                                      [] OTHER     -> cxt[a][l].start
          /\ cxt[a][n + 1].liveIn = <<t, n>> /\ cxt[a][n + 1].liveOut = <<t, n>>
      BY <1>1, <1>2, <3>1 DEF CallEffect
    <3>3. /\ cxt'[a][Leaf].liveIn = <<t, n>> /\ cxt'[a][Leaf].liveOut = <<t, n>>
          /\ cxt'[a][Leaf].max = Bounds[h].last /\ cxt'[a][Leaf].start = Bounds[h].first
      BY <2>1, <2>2, <3>2
    <3>4. Cxt(t)' = cxt'[a]
      BY <1>3, <3>1 DEF Cxt
    <3> QED BY <3>3, <3>4
  <2>4. RowOf(t, Leaf)' = h
    BY <1>3, <2>3 DEF RowOf
  <2>5. Ahead(t, Leaf)' = Bounds[h].first
    BY <1>3, <2>1, <2>2, <2>3 DEF Ahead
  <2>6. Delivers(t, <<t, n>>, h, Bounds[h].first, Bounds[h].last)'
    BY <1>3, <2>3, <2>4, <2>5 DEF Delivers
  <2>7. EnteredAt(t, Leaf - 1)' = h
    BY <1>3, <2>2 DEF EnteredAt
  <2> QED BY <1>3, <2>2, <2>6, <2>7 DEF CallOK
<1>8. \A q \in DOMAIN array' : DOMAIN array'[q].slots = 0 .. 1
  BY <1>3 DEF ValuesOK
<1>9. \A c \in Outer : tail'[c] # <<>> => tail'[c] = <<WholeRow(c)>>
  BY <1>3 DEF ValuesOK
<1> QED BY <1>1, <1>3, <1>6, <1>7, <1>8, <1>9, StepValues

\* What a tail is given is the value of the whole loop its iteration has called.
LEMMA TailValue ==
  ASSUME MemoryInv, WorkOK, TailsOK, ValuesOK, NEW t \in DOMAIN pc, pc[t] = "back",
         NEW h, h = EnteredAt(t, top[t])
  PROVE  (IF top[t] + 1 = Leaf THEN array[<<t, top[t]>>].slots[0] ELSE EmptyBag) = WholeRow(h)
<1>1. h \in DOMAIN Bounds /\ Len(h) = top[t] + 1
  BY NothingBelow
<1>2. base[t] \in Nat /\ top[t] \in Nat /\ Leaf \in Nat /\ base[t] <= top[t]
  BY LevelRange
<1>3. CASE top[t] + 1 = Leaf
  <2>1. top[t] = Leaf - 1 /\ base[t] < Leaf
    BY <1>2, <1>3
  <2>2. array[<<t, top[t]>>].slots[0] = ValueOf(h, Bounds[h].first, Bounds[h].last)
    BY <2>1 DEF ValuesOK, CallOK
  <2> QED BY <1>1, <1>3, <2>2, WholeValue
<1>4. CASE top[t] + 1 # Leaf
  BY <1>1, <1>4 DEF WholeRow
<1> QED BY <1>3, <1>4

LEMMA BackValues ==
  ASSUME MemoryInv, WorkOK, TailsOK, ValuesOK, NEW t \in DOMAIN pc, Back(t)
  PROVE  ValuesOK'
<1>1. PICK n, h : Alone(t) /\ BackEffect(t, n, h)
  BY BackEffects
<1>2. /\ pc[t] = "back" /\ pc'[t] \in {"exit", "header"} /\ n = top[t] /\ n < Leaf
      /\ base' = base /\ top' = top /\ array' = array /\ h = EnteredAt(t, n)
      /\ tail' = [tail EXCEPT ![h] =
                Append(tail[h], IF n + 1 = Leaf THEN array[<<t, n>>].slots[0] ELSE EmptyBag)]
  BY <1>1 DEF BackEffect
<1>3. h \in Outer /\ tail[h] = <<>>
  BY <1>2, NothingBelow
<1>4. DOMAIN tail = Outer
  BY DEF WorkOK
<1>5. tail'[h] = <<WholeRow(h)>> /\ \A c \in Outer : c # h => tail'[c] = tail[c]
  <2>1. PICK w : w = WholeRow(h)
    OBVIOUS
  <2>2. tail'[h] = Append(<<>>, w)
    BY <1>2, <1>3, <1>4, <2>1, TailValue
  <2>3. tail'[h] = <<w>>
    BY <2>2
  <2> QED BY <1>2, <1>3, <1>4, <2>1, <2>3
<1>6. \A c \in Outer : tail'[c] # <<>> => tail'[c] = <<WholeRow(c)>>
  BY <1>5 DEF ValuesOK
<1>7. top[t] # Leaf
  BY <1>2, LevelRange
<1>8. /\ \A q \in DOMAIN array : array'[q].slots = array[q].slots
      /\ \A q \in DOMAIN array' : DOMAIN array'[q].slots = 0 .. 1
  BY <1>2 DEF ValuesOK
<1> QED BY <1>1, <1>2, <1>6, <1>7, <1>8, InsideValues

\* At the join the values of the branches complete that of the slice.
LEMMA JoinDelivers ==
  ASSUME MemoryInv, ValuesOK, NEW t \in DOMAIN pc, Join(t)
  PROVE  DeliversKept(t)
<1>1. JoinEffect(t)
  BY JoinEffects
<1>2. /\ pc[t] = "join" /\ pc'[t] = "exit" /\ top[t] = Leaf /\ top' = top /\ Forked(t)
      /\ UNCHANGED <<rc, base, frame, array>>
      /\ pc[Append(t, 0)] = "done" /\ pc[Append(t, 1)] = "done"
  BY <1>1 DEF JoinEffect
<1>3. rc[t] = top[t] - Given(t) + 1 /\ Given(t) \in Int /\ Given(t) <= Leaf /\ Leaf \in Nat
  BY <1>2, OwnFacts, GivenFacts, LevelFacts DEF CodeOK
<1>4. PICK r : r = frame[t][Leaf]
  OBVIOUS
<1>5. PICK k0, k1 : k0 = array[<<t, Leaf>>].slots[0] /\ k1 = array[<<t, Leaf>>].slots[1]
  OBVIOUS
<1>6. /\ r.row \in DOMAIN Bounds /\ r.row \in Seq(Nat)
      /\ r.low \in Nat /\ r.max \in Nat /\ r.low <= r.max
      /\ IF Given(t) = Leaf
         THEN \E mid \in r.low .. r.max :
                k0 = ValueOf(r.row, r.low, mid) /\ k1 = ValueOf(r.row, mid, r.max)
         ELSE k0 = ValueOf(r.row, r.low, r.max)
  BY <1>2, <1>4, <1>5, RowFacts DEF ValuesOK, BranchesOK, BranchDelivers
<1> SUFFICES ASSUME NEW to, NEW row, NEW first, NEW last, Delivers(t, to, row, first, last)
             PROVE  Delivers(t, to, row, first, last)'
  BY DEF DeliversKept
<1>7. /\ r.out = to /\ r.row = row /\ r.max = last /\ r.priv = ValueOf(row, first, r.low)
      /\ first \in 0 .. r.low
  BY <1>2, <1>4 DEF Delivers
<1>8. first \in Nat /\ first <= r.low
  BY <1>6, <1>7
<1>9. Reduced(t)' = ValueOf(row, first, last)
  <2>1. CASE Given(t) = Leaf
    <3>1. rc[t] = 1
      BY <1>2, <1>3, <2>1
    <3>2. PICK mid \in r.low .. r.max :
            k0 = ValueOf(r.row, r.low, mid) /\ k1 = ValueOf(r.row, mid, r.max)
      BY <1>6, <2>1
    <3>3. mid \in Nat /\ r.low <= mid /\ mid <= r.max /\ first <= mid
      BY <1>6, <1>8
    <3>4. r.priv (+) k0 = ValueOf(row, first, mid)
      BY <1>6, <1>7, <1>8, <3>2, <3>3, ValueSum
    <3>5. ValueOf(row, first, mid) (+) k1 = ValueOf(row, first, last)
      BY <1>6, <1>7, <1>8, <3>2, <3>3, ValueSum
    <3>6. Reduced(t)' = r.priv (+) k0 (+) k1
      BY <1>2, <1>4, <1>5, <3>1 DEF Reduced, Reg
    <3> QED BY <3>4, <3>5, <3>6
  <2>2. CASE Given(t) # Leaf
    <3>1. rc[t] > 1 /\ ~(rc[t] < 1)
      BY <1>2, <1>3, <2>2
    <3>2. r.priv (+) k0 = ValueOf(row, first, last)
      BY <1>6, <1>7, <1>8, <2>2, ValueSum
    <3>3. Reduced(t)' = r.priv (+) k0
      BY <1>2, <1>4, <1>5, <3>1 DEF Reduced, Reg
    <3> QED BY <3>2, <3>3
  <2> QED BY <2>1, <2>2
<1> QED BY <1>2, <1>4, <1>7, <1>9 DEF Delivers

\* Everything is delivered as before if every slice still delivers.
LEMMA AllDeliver ==
  ASSUME MemoryInv, ValuesOK, array' = array,
         \A v \in DOMAIN pc :
           /\ pc'[v] = "done" <=> pc[v] = "done"
           /\ pc'[v] = "back" => pc[v] = "back"
           /\ base'[v] = base[v] /\ top'[v] = top[v] /\ frame'[v] = frame[v]
           /\ pc[v] # "done" => DeliversKept(v),
         NEW v \in DOMAIN pc
  PROVE  /\ CallOK(v)'
         /\ pc[v] = "join" /\ Given(v)' = Given(v) => BranchesOK(v)'
<1>1. CallOK(v)'
  <2>1. SUFFICES ASSUME pc[v] # "done", base[v] < Leaf PROVE CallOK(v)'
    BY DEF CallOK
  <2>2. PICK c : c = EnteredAt(v, Leaf - 1) /\ c = EnteredAt(v, Leaf - 1)'
    BY DEF EnteredAt
  <2>3. CASE top[v] = Leaf
    <3>1. Delivers(v, <<v, Leaf - 1>>, c, Bounds[c].first, Bounds[c].last)
      BY <2>1, <2>2, <2>3 DEF ValuesOK, CallOK
    <3>2. Delivers(v, <<v, Leaf - 1>>, c, Bounds[c].first, Bounds[c].last)'
      BY <2>1, <3>1 DEF DeliversKept
    <3> QED BY <2>2, <2>3, <3>2, LevelFacts DEF CallOK
  <2>4. CASE top[v] # Leaf
    BY <2>1, <2>2, <2>4 DEF CallOK, ValuesOK
  <2> QED BY <2>3, <2>4
<1>2. ASSUME pc[v] = "join", Given(v)' = Given(v) PROVE BranchesOK(v)'
  <2>1. BranchesOK(v) /\ Append(v, 0) \in DOMAIN pc /\ Append(v, 1) \in DOMAIN pc
    BY <1>2, MemoryParts DEF ValuesOK, FamiliesOK, KidsOf
  <2>2. ASSUME NEW k \in {0, 1} PROVE BranchKept(v, k)
    <3>1. PICK b \in DOMAIN pc : b = Append(v, k)
      BY <2>1
    <3> QED BY <3>1 DEF BranchKept, BranchDelivers, DeliversKept
  <2>3. PICK r : r = frame[v][Leaf] /\ r = frame'[v][Leaf]
    OBVIOUS
  <2>4. /\ r.row \in DOMAIN Bounds /\ r.low \in Nat /\ r.max \in Nat /\ r.low <= r.max
        /\ IF Given(v) = Leaf
           THEN \E mid \in r.low .. r.max :
                  BranchDelivers(v, 0, r.row, r.low, mid) /\ BranchDelivers(v, 1, r.row, mid, r.max)
           ELSE BranchDelivers(v, 0, r.row, r.low, r.max)
    BY <1>2, <2>1, <2>3 DEF BranchesOK
  <2>5. IF Given(v) = Leaf
        THEN \E mid \in r.low .. r.max :
               BranchDelivers(v, 0, r.row, r.low, mid)' /\ BranchDelivers(v, 1, r.row, mid, r.max)'
        ELSE BranchDelivers(v, 0, r.row, r.low, r.max)'
    BY <2>2, <2>4 DEF BranchKept
  <2> QED BY <1>2, <2>3, <2>4, <2>5 DEF BranchesOK
<1> QED BY <1>1, <1>2

LEMMA JoinValues ==
  ASSUME MemoryInv, ValuesOK, NEW t \in DOMAIN pc, Join(t)
  PROVE  ValuesOK'
<1>1. JoinEffect(t)
  BY JoinEffects
<1>2. /\ DOMAIN pc' = DOMAIN pc /\ pc[t] = "join" /\ pc'[t] = "exit" /\ Forked(t)
      /\ UNCHANGED <<rc, base, top, until, area, frame, array, started, tail>>
      /\ \A v \in DOMAIN pc : v # t => pc'[v] = pc[v]
  BY <1>1 DEF JoinEffect
<1>3. \A v : /\ Forked(v)' = Forked(v) /\ Given(v)' = Given(v)
             /\ EnteredAt(v, Leaf - 1)' = EnteredAt(v, Leaf - 1)
  BY <1>2 DEF Forked, Given, EnteredAt
<1>4. ASSUME NEW v \in DOMAIN pc, v # t, pc[v] # "done" PROVE Cxt(v)' = Cxt(v)
  <2>1. ControlInv /\ t \in Paths
    BY MemoryParts, AreaOf
  <2>2. pc[Append(t, 1)] = "done" /\ \A a \in DOMAIN cxt : a # Append(t, 1) => cxt'[a] = cxt[a]
    BY <1>1 DEF JoinEffect
  <2>3. area[v] # Append(t, 1)
    BY <1>4, <2>1, <2>2, SecondAreaIdle
  <2> QED BY <1>2, <1>4, <2>2, <2>3, OwnFacts DEF Cxt
<1>5. ASSUME NEW v \in DOMAIN pc, pc[v] # "done" PROVE DeliversKept(v)
  <2>1. CASE v = t
    BY <2>1, JoinDelivers
  <2>2. CASE v # t
    <3>1. pc'[v] = pc[v] /\ Cxt(v)' = Cxt(v)
      BY <1>2, <1>4, <1>5, <2>2
    <3>2. RowOf(v, Leaf)' = RowOf(v, Leaf) /\ Ahead(v, Leaf)' = Ahead(v, Leaf)
      BY <1>2, <3>1 DEF RowOf, Ahead
    <3>3. Reduced(v)' = Reduced(v)
      BY <1>2 DEF Reduced, Reg
    <3> QED BY <1>2, <3>1, <3>2, <3>3 DEF DeliversKept, Delivers
  <2> QED BY <2>1, <2>2
<1>6. ASSUME NEW v \in DOMAIN pc
      PROVE  /\ CallOK(v)'
             /\ pc[v] = "join" /\ Given(v)' = Given(v) => BranchesOK(v)'
  <2>1. \A u \in DOMAIN pc : /\ pc'[u] = "done" <=> pc[u] = "done"
                             /\ pc'[u] = "back" => pc[u] = "back"
    BY <1>2
  <2> QED BY <1>2, <1>5, <2>1, AllDeliver
<1>7. ASSUME NEW v \in DOMAIN pc PROVE BranchesOK(v)'
  <2>1. pc'[v] = "join" => pc[v] = "join"
    BY <1>2
  <2> QED BY <1>3, <1>6, <2>1 DEF BranchesOK
<1>8. ASSUME NEW v \in DOMAIN pc PROVE ForkOK(v)'
  <2>1. pc'[v] \in {"header", "poll"} => v # t /\ pc[v] = pc'[v]
    BY <1>2
  <2>2. pc'[v] \in {"header", "poll"} => Cxt(v)' = Cxt(v)
    BY <1>4, <2>1
  <2> QED BY <1>2, <1>3, <2>1, <2>2 DEF ForkOK, ValuesOK
<1> QED BY <1>2, <1>6, <1>7, <1>8 DEF ValuesOK

-----------------------------------------------------------------------------
(***************************************************************************)
(* A leaf slice that ends writes its value to the array it was told.       *)
(***************************************************************************)
LEMMA ExitSlots ==
  ASSUME MemoryInv, ValuesOK, NEW t \in DOMAIN pc, Exit(t),
         NEW q \in DOMAIN array, q # <<t, top[t]>>
  PROVE  /\ q \in DOMAIN array' /\ DOMAIN array'[q].slots = 0 .. 1
         /\ top[t] # Leaf => array'[q].slots = array[q].slots
         /\ top[t] = Leaf => \A k \in {0, 1} :
              array'[q].slots[k] = IF q = frame[t][Leaf].out /\ k = MyIndex(t)
                                   THEN Reduced(t) ELSE array[q].slots[k]
<1> DEFINE put == IF top[t] = Leaf
                  THEN [array EXCEPT ![Reg(t).out].slots[MyIndex(t)] = Reduced(t)] ELSE array
<1>1. array' = [a \in DOMAIN array \ {<<t, top[t]>>} |-> put[a]]
  BY DEF Exit
<1> HIDE DEF put
<1>2. q \in DOMAIN array' /\ array'[q] = put[q]
  BY <1>1
<1>3. DOMAIN array[q] = {"live", "slots"} /\ DOMAIN array[q].slots = 0 .. 1
  BY MemoryParts DEF RecordsOK, NewArray, ValuesOK
<1>4. CASE top[t] # Leaf
  BY <1>2, <1>3, <1>4 DEF put
<1>5. CASE top[t] = Leaf
  <2>1. PICK out, m, w : out = frame[t][Leaf].out /\ m = MyIndex(t) /\ w = Reduced(t)
    OBVIOUS
  <2>2. put = [array EXCEPT ![out].slots[m] = w]
    BY <1>5, <2>1 DEF put, Reg
  <2>3. CASE q # out
    <3>1. array'[q] = array[q]
      BY <1>2, <2>2, <2>3
    <3> QED BY <1>2, <1>3, <1>5, <2>1, <2>3, <3>1
  <2>4. CASE q = out
    <3>1. array'[q] = [array[q] EXCEPT !.slots[m] = w]
      BY <1>2, <2>2, <2>4
    <3>2. array'[q].slots = [array[q].slots EXCEPT ![m] = w]
      BY <1>3, <3>1
    <3> QED BY <1>2, <1>3, <1>5, <2>1, <2>4, <3>2
  <2> QED BY <2>3, <2>4
<1> QED BY <1>4, <1>5

\* The way out of a slice, whatever it returns to.
LEMMA ExitParts ==
  ASSUME MemoryInv, ValuesOK, NEW t \in DOMAIN pc, Exit(t)
  PROVE  /\ \A q \in DOMAIN array' : DOMAIN array'[q].slots = 0 .. 1
         /\ \A c \in Outer : tail'[c] # <<>> => tail'[c] = <<WholeRow(c)>>
         /\ \A v \in DOMAIN pc \ {t} : \A l \in Level : \A k \in {0, 1} :
              <<v, l>> \in DOMAIN array /\ ~(top[t] = Leaf /\ <<v, l>> = frame[t][Leaf].out /\ k = MyIndex(t))
                => array'[<<v, l>>].slots[k] = array[<<v, l>>].slots[k]
<1>1. DOMAIN array' = DOMAIN array \ {<<t, top[t]>>} /\ tail' = tail
  BY DEF Exit
<1>2. \A q \in DOMAIN array' : DOMAIN array'[q].slots = 0 .. 1
  BY <1>1, ExitSlots
<1>3. \A c \in Outer : tail'[c] # <<>> => tail'[c] = <<WholeRow(c)>>
  BY <1>1 DEF ValuesOK
<1>4. ASSUME NEW v \in DOMAIN pc \ {t}, NEW l \in Level, NEW k \in {0, 1}, <<v, l>> \in DOMAIN array,
             ~(top[t] = Leaf /\ <<v, l>> = frame[t][Leaf].out /\ k = MyIndex(t))
      PROVE  array'[<<v, l>>].slots[k] = array[<<v, l>>].slots[k]
  <2>1. PICK q : q = <<v, l>> /\ q \in DOMAIN array /\ q # <<t, top[t]>>
    BY <1>4
  <2>2. array'[q].slots[k] = array[q].slots[k]
    BY <1>4, <2>1, ExitSlots
  <2> QED BY <2>1, <2>2
<1> QED BY <1>2, <1>3, <1>4

LEMMA ReturnToCallerValues ==
  ASSUME MemoryInv, ValuesOK, NEW t \in DOMAIN pc, ReturnToCaller(t)
  PROVE  ValuesOK'
<1>1. /\ Alone(t) /\ ExitEffect(t) /\ pc'[t] = "back" /\ base'[t] = base[t]
      /\ top'[t] = top[t] - 1 /\ base[t] < top[t]
  BY ReturnToCallerEffects
<1>2. Exit(t) /\ pc[t] = "exit"
  BY <1>1 DEF ReturnToCaller, ExitEffect
<1>3. /\ base[t] \in Nat /\ top[t] \in Nat /\ Leaf \in Nat /\ top[t] <= Leaf /\ Level = 0 .. Leaf
      /\ base[t] < Leaf /\ DOMAIN frame[t] = base[t] .. top[t]
  BY <1>1, <1>2, LevelRange
<1>4. ASSUME top[t] = Leaf
      PROVE  \E c : /\ c = EnteredAt(t, Leaf - 1)
                    /\ frame[t][Leaf].out = <<t, Leaf - 1>> /\ MyIndex(t) = 0
                    /\ Reduced(t) = ValueOf(c, Bounds[c].first, Bounds[c].last)
  <2>1. PICK c : c = EnteredAt(t, Leaf - 1)
    OBVIOUS
  <2>2. Delivers(t, <<t, Leaf - 1>>, c, Bounds[c].first, Bounds[c].last)
    BY <1>2, <1>3, <1>4, <2>1 DEF ValuesOK, CallOK
  <2>3. MyIndex(t) = 0
    BY <1>1, <1>3 DEF MyIndex
  <2> QED BY <1>2, <2>1, <2>2, <2>3 DEF Delivers
<1>5. \A v \in DOMAIN pc \ {t} : \A l \in Level : \A k \in {0, 1} : <<v, l>> \in DOMAIN array
        => array'[<<v, l>>].slots[k] = array[<<v, l>>].slots[k]
  BY <1>2, <1>4, ExitParts
<1>6. OthersArrays(t) /\ ParentKept(t)
  BY <1>1, <1>2, <1>3, <1>5, SameParent
<1>7. CallOK(t)'
  <2>1. SUFFICES ASSUME top[t] = Leaf PROVE CallOK(t)'
    <3>1. top'[t] # Leaf /\ (top'[t] = Leaf - 1 => top[t] = Leaf)
      BY <1>1, <1>3
    <3> QED BY <1>1, <3>1 DEF CallOK
  <2>2. PICK c : /\ c = EnteredAt(t, Leaf - 1)
                 /\ frame[t][Leaf].out = <<t, Leaf - 1>> /\ MyIndex(t) = 0
                 /\ Reduced(t) = ValueOf(c, Bounds[c].first, Bounds[c].last)
    BY <1>4, <2>1
  <2>3. Leaf - 1 \in base[t] .. top[t] - 1 /\ Leaf - 1 \in DOMAIN frame[t] /\ Leaf - 1 \in Level
        /\ <<t, Leaf - 1>> # <<t, top[t]>>
    BY <1>3, <2>1
  <2>4. <<t, Leaf - 1>> \in DOMAIN array
    BY <2>3, ArrayOfFrame
  <2>5. array'[<<t, Leaf - 1>>].slots[0] = ValueOf(c, Bounds[c].first, Bounds[c].last)
    <3>1. PICK q : q = <<t, Leaf - 1>> /\ q \in DOMAIN array /\ q # <<t, top[t]>>
      BY <2>3, <2>4
    <3>2. array'[q].slots[0] = Reduced(t)
      BY <1>2, <2>1, <2>2, <3>1, ExitSlots
    <3> QED BY <2>2, <3>1, <3>2
  <2>6. EnteredAt(t, Leaf - 1)' = c
    BY <1>1, <2>2, <2>3 DEF ExitEffect, EnteredAt
  <2>7. top'[t] # Leaf
    BY <1>1, <1>3
  <2> QED BY <2>5, <2>6, <2>7 DEF CallOK
<1> QED BY <1>1, <1>2, <1>6, <1>7, ExitParts, StepValues

\* The slice that ends a task, or that its leftover task goes on after.
LEMMA LastSlice ==
  ASSUME MemoryInv, ValuesOK, NEW t \in DOMAIN pc, Exit(t), Alone(t), top[t] = base[t],
         pc'[t] = "done" \/ (pc'[t] = "enter" /\ base'[t] = base[t] - 1 /\ base[t] > until[t]
                             /\ top'[t] = base'[t]),
         pc'[t] = "done" => base'[t] = base[t]
  PROVE  ValuesOK'
<1>1. pc[t] = "exit"
  BY DEF Exit, At
<1>2. /\ base[t] \in Nat /\ top[t] \in Nat /\ Leaf \in Nat /\ base[t] <= Leaf /\ Level = 0 .. Leaf
      /\ base'[t] \in Int /\ base'[t] <= base[t]
      /\ pc'[t] = "done" \/ base'[t] < Leaf
      /\ pc'[t] = "enter" => top'[t] < Leaf
  BY <1>1, LevelRange
<1>3. ASSUME NEW p \in DOMAIN pc, NEW k \in {0, 1}, Append(p, k) = t
      PROVE  /\ pc[p] = "join" /\ p # t /\ <<p, Leaf>> \in DOMAIN array /\ MyIndex(t) = k
  <2>1. pc[p] = "join" /\ p # t
    BY <1>1, <1>3, ParentWaits
  <2>2. <<p, Leaf>> \in DOMAIN array
    <3>1. top[p] = Leaf
      BY <2>1, OwnFacts DEF CodeOK
    <3>2. DOMAIN frame[p] = base[p] .. Leaf /\ base[p] \in Nat /\ base[p] <= Leaf
      BY <2>1, <3>1, LevelRange
    <3>3. Leaf \in Level /\ Leaf \in DOMAIN frame[p]
      BY <1>2, <3>2
    <3> QED BY <3>3, ArrayOfFrame
  <2>3. MyIndex(t) = k
    <3>1. p \in Paths /\ t # Root
      BY <1>3, MemoryParts, AreaOf, Branches, RootPath
    <3>2. Last(t) = k
      BY <1>3, <3>1 DEF Last, Paths
    <3> QED BY <3>1, <3>2 DEF MyIndex
  <2> QED BY <2>1, <2>2, <2>3
<1>4. ASSUME NEW p \in DOMAIN pc, NEW k \in {0, 1}, Append(p, k) = t, NEW row, NEW first, NEW last,
             BranchDelivers(p, k, row, first, last), base[t] = Leaf
      PROVE  frame[t][Leaf].out = <<p, Leaf>> /\ Reduced(t) = ValueOf(row, first, last)
  <2>1. ~(base[t] < Leaf)
    BY <1>2, <1>4
  <2> QED BY <1>1, <1>4, <2>1 DEF BranchDelivers, Delivers
<1>5. ASSUME base[t] = Leaf
      PROVE  \E p \in DOMAIN pc : \E k \in {0, 1} : Append(p, k) = t /\ frame[t][Leaf].out = <<p, Leaf>>
  <2>1. t # Root
    BY <1>5, LevelFacts DEF ValuesOK, ForkOK
  <2>2. PICK p \in DOMAIN pc : t \in KidsOf(p)
    BY <2>1, MemoryParts DEF FamiliesOK
  <2>3. PICK k \in {0, 1} : Append(p, k) = t
    BY <2>2 DEF KidsOf
  <2>4. pc[p] = "join" /\ Forked(p)
    BY <1>3, <2>3, OwnFacts DEF CodeOK
  <2>5. k = 0 \/ Given(p) = Leaf
    BY <1>5, <2>3, <2>4 DEF ValuesOK, ForkOK
  <2>6. BranchesOK(p)
    BY DEF ValuesOK
  <2>7. \E row, first, last : BranchDelivers(p, k, row, first, last)
    <3>1. CASE Given(p) = Leaf
      BY <2>4, <2>6, <3>1 DEF BranchesOK
    <3>2. CASE Given(p) # Leaf
      BY <2>4, <2>5, <2>6, <3>2 DEF BranchesOK
    <3> QED BY <3>1, <3>2
  <2> QED BY <1>4, <1>5, <2>3, <2>7
<1>6. OthersArrays(t)
  <2>1. SUFFICES ASSUME NEW v \in DOMAIN pc \ {t}, NEW l \in Level, NEW k \in {0, 1},
                        <<v, l>> \in DOMAIN array, l # Leaf \/ Append(v, k) # t
                 PROVE  array'[<<v, l>>].slots[k] = array[<<v, l>>].slots[k]
    BY DEF OthersArrays
  <2>2. ~(top[t] = Leaf /\ <<v, l>> = frame[t][Leaf].out /\ k = MyIndex(t))
    <3>1. SUFFICES ASSUME base[t] = Leaf, <<v, l>> = frame[t][Leaf].out PROVE k # MyIndex(t)
      OBVIOUS
    <3>2. PICK p \in DOMAIN pc : \E j \in {0, 1} : Append(p, j) = t /\ frame[t][Leaf].out = <<p, Leaf>>
      BY <1>5, <3>1
    <3>3. v = p /\ l = Leaf
      BY <3>1, <3>2
    <3> QED BY <1>3, <2>1, <3>2, <3>3
  <2> QED BY <2>1, <2>2, ExitParts
<1>7. ParentKept(t)
  <2>0. pc'[t] = "done" \/ base'[t] < Leaf
    BY <1>2
  <2>1. SUFFICES ASSUME NEW p \in DOMAIN pc, NEW k \in {0, 1}, Append(p, k) = t,
                        NEW row, NEW first, NEW last, BranchDelivers(p, k, row, first, last)
                 PROVE  array'[<<p, Leaf>>].slots[k] = ValueOf(row, first, last)
    <3>1. ASSUME NEW p \in DOMAIN pc, NEW k \in {0, 1}, Append(p, k) = t,
                 NEW row, NEW first, NEW last, BranchDelivers(p, k, row, first, last)
          PROVE  BranchDelivers(p, k, row, first, last)'
      <4>1. array'[<<p, Leaf>>].slots[k] = ValueOf(row, first, last)
        BY <2>1, <3>1
      <4> QED BY <2>0, <3>1, <4>1 DEF BranchDelivers
    <3> QED BY <3>1 DEF ParentKept, BranchKept
  <2>2. p # t /\ <<p, Leaf>> \in DOMAIN array /\ MyIndex(t) = k /\ Leaf \in Level
    BY <1>2, <1>3, <2>1
  <2>3. CASE base[t] = Leaf
    <3>1. frame[t][Leaf].out = <<p, Leaf>> /\ Reduced(t) = ValueOf(row, first, last)
      BY <1>4, <2>1, <2>3
    <3>2. PICK q : q = <<p, Leaf>> /\ q # <<t, top[t]>>
      BY <2>2
    <3> QED BY <2>2, <2>3, <3>1, <3>2, ExitSlots
  <2>4. CASE base[t] # Leaf
    <3>1. base[t] < Leaf
      BY <1>2, <2>4
    <3>2. array[<<p, Leaf>>].slots[k] = ValueOf(row, first, last)
      BY <2>1, <3>1 DEF BranchDelivers
    <3> QED BY <2>2, <2>4, <3>2, ExitParts
  <2> QED BY <2>3, <2>4
<1>8. CallOK(t)'
  BY <1>2 DEF CallOK
<1> QED BY <1>1, <1>6, <1>7, <1>8, ExitParts, StepValues

LEMMA ReturnToLeftoverValues ==
  ASSUME MemoryInv, ValuesOK, NEW t \in DOMAIN pc, ReturnToLeftover(t)
  PROVE  ValuesOK'
<1>1. /\ Exit(t) /\ top[t] = base[t] /\ base[t] > until[t] /\ rc' = rc
      /\ base' = [base EXCEPT ![t] = base[t] - 1] /\ top' = [top EXCEPT ![t] = base[t] - 1]
      /\ pc' = [pc EXCEPT ![t] = "enter"] /\ \A b \in DOMAIN cxt \ {area[t]} : cxt'[b] = cxt[b]
  BY DEF ReturnToLeftover
<1>2. pc[t] = "exit"
  BY <1>1 DEF Exit, At
<1>3. DOMAIN base = DOMAIN pc /\ DOMAIN top = DOMAIN pc
  BY <1>2, LevelRange
<1>4. Alone(t)
  BY <1>1, ExitEffects
<1> QED BY <1>1, <1>3, <1>4, LastSlice

LEMMA ReturnFromTaskValues ==
  ASSUME MemoryInv, ValuesOK, NEW t \in DOMAIN pc, ReturnFromTask(t)
  PROVE  ValuesOK'
<1>1. /\ Exit(t) /\ top[t] = base[t] /\ base' = base /\ top' = top /\ rc' = rc
      /\ pc' = [pc EXCEPT ![t] = "done"] /\ \A b \in DOMAIN cxt \ {area[t]} : cxt'[b] = cxt[b]
  BY DEF ReturnFromTask
<1>2. Alone(t)
  BY <1>1, ExitEffects
<1> QED BY <1>1, <1>2, LastSlice

-----------------------------------------------------------------------------
(***************************************************************************)
(* A promotion: the two branches will deliver what is left of the leaf.    *)
(***************************************************************************)
\* Everyone delivers as before, the task that is promoted too.
LEMMA SplitDelivers ==
  ASSUME MemoryInv, NEW t \in DOMAIN pc, pc[t] = "poll",
         NEW first, first = Append(t, 0), NEW second, second = Append(t, 1),
         NEW s, Spawned(t, s, first, second), NEW low, NEW mid,
         SplitAt(t, s, low, mid, first, second), NEW v \in DOMAIN pc, pc[v] # "done"
  PROVE  DeliversKept(v)
<1>1. /\ first \notin DOMAIN pc /\ second \notin DOMAIN pc /\ v \notin {first, second}
      /\ \A b \in DOMAIN cxt \ {area[t], second} : cxt'[b] = cxt[b]
  BY DEF SplitAt
<1>2. /\ frame'[v] = frame[v] /\ base'[v] = base[v] /\ top'[v] = top[v] /\ until'[v] = until[v]
      /\ area'[v] = area[v] /\ array' = array
  BY <1>1 DEF Spawned
<1> SUFFICES ASSUME NEW to, NEW row, NEW from, NEW last, Delivers(v, to, row, from, last)
             PROVE  Delivers(v, to, row, from, last)'
  BY DEF DeliversKept
<1>3. CASE v = t
  <2>1. pc'[t] = "join"
    BY DEF Spawned
  <2> QED BY <1>2, <1>3, <2>1 DEF Delivers
<1>4. CASE v # t
  <2>1. pc'[v] = pc[v] /\ rc'[v] = rc[v]
    BY <1>1, <1>4 DEF Spawned
  <2>2. CASE pc[v] \in {"start", "enter"}
    <3>1. area[v] # area[t] /\ area[v] \in DOMAIN cxt /\ area[v] \in DOMAIN pc
      BY <1>4, <2>2, AreaWaits, OwnFacts, MemoryParts, AreaOf
    <3>2. Cxt(v)' = Cxt(v)
      BY <1>1, <1>2, <3>1 DEF Cxt
    <3>3. RowOf(v, Leaf)' = RowOf(v, Leaf) /\ Ahead(v, Leaf)' = Ahead(v, Leaf)
      BY <1>2, <2>1, <3>2 DEF RowOf, Ahead
    <3> QED BY <2>1, <2>2, <3>2, <3>3 DEF Delivers
  <2>3. CASE pc[v] \in {"header", "poll", "join"}
    BY <1>2, <2>1, <2>3 DEF Delivers
  <2>4. CASE pc[v] \notin {"start", "enter", "header", "poll", "join"}
    <3>1. Reduced(v)' = Reduced(v)
      BY <1>2, <2>1 DEF Reduced, Reg
    <3> QED BY <1>2, <2>1, <2>4, <3>1 DEF Delivers
  <2> QED BY <2>2, <2>3, <2>4
<1> QED BY <1>3, <1>4

\* The branches deliver the rest of the leaf loop to the task that forked them.
LEMMA SplitBranches ==
  ASSUME MemoryInv, ValuesOK, NEW t \in DOMAIN pc, pc[t] = "poll",
         NEW first, first = Append(t, 0), NEW second, second = Append(t, 1),
         NEW s, Spawned(t, s, first, second), NEW low, NEW mid,
         SplitAt(t, s, low, mid, first, second)
  PROVE  BranchesOK(t)'
<1>1. /\ s \in Nat /\ s <= Leaf /\ s \in Level /\ Leaf \in Level
      /\ low = frame[t][Leaf].low /\ low \in Nat /\ low - 1 \in Nat /\ mid \in Nat
      /\ mid < Cxt(t)[s].max /\ (s = Leaf => low <= mid)
      /\ first # t /\ second # t /\ first # second
      /\ first \notin DOMAIN pc /\ second \notin DOMAIN pc /\ area[t] # second
  BY LevelFacts DEF SplitAt
<1>2. /\ cxt'[area[t]][Leaf].liveIn = Cxt(t)[Leaf].liveIn
      /\ cxt'[area[t]][Leaf].liveOut = Cxt(t)[Leaf].liveOut
      /\ cxt'[area[t]][Leaf].max = IF Leaf = s THEN mid ELSE Cxt(t)[Leaf].max
      /\ cxt'[area[t]][Leaf].start = IF s = Leaf THEN low ELSE low - 1
      /\ cxt'[second][s].start = mid /\ cxt'[second][s].max = Cxt(t)[s].max
      /\ cxt'[second][s].liveIn = Cxt(t)[s].liveIn
      /\ cxt'[second][s].liveOut = Cxt(t)[s].liveOut
  BY <1>1 DEF SplitAt
<1>3. /\ frame'[t] = frame[t] /\ array' = array
      /\ pc'[first] = "start" /\ base'[first] = Leaf /\ top'[first] = Leaf /\ until'[first] = s
      /\ area'[first] = area[t]
      /\ pc'[second] = "start" /\ base'[second] = s /\ top'[second] = s /\ until'[second] = s
      /\ area'[second] = second
  BY <1>1 DEF Spawned
<1>4. PICK r : r = frame[t][Leaf] /\ r = frame'[t][Leaf]
  BY <1>3
<1>5. /\ r.low = low /\ r.max = Cxt(t)[Leaf].max /\ r.row = array[Cxt(t)[Leaf].liveIn].live
      /\ r.row \in DOMAIN Bounds /\ r.max \in Nat /\ low <= r.max
      /\ Cxt(t)[Leaf].liveOut = <<t, Leaf>>
  <2>1. ReadableAt(t, Leaf) /\ FrameAt(t, Leaf) /\ r.max \in Nat /\ top[t] = Leaf
    BY <1>4, LeafFacts, PolledFacts
  <2>2. low <= Cxt(t)[Leaf].max
    BY <1>1, PolledFacts
  <2>3. Cxt(t)[Leaf].liveOut = <<t, Leaf>>
    BY <2>1 DEF ValuesOK, ForkOK
  <2> QED BY <1>1, <1>4, <2>1, <2>2, <2>3 DEF ReadableAt, FrameAt
<1>6. Given(t)' = s
  BY <1>1, PolledFacts, SplitFamilies
<1>7. RowOf(first, Leaf)' = r.row /\ Cxt(first)[Leaf]' = cxt'[area[t]][Leaf]
  BY <1>2, <1>3, <1>5 DEF RowOf, Cxt
<1>8. Ahead(first, Leaf)' = low
  <2>1. CASE s = Leaf
    <3>1. ~(base'[first] > until'[first]) /\ Cxt(first)[Leaf]'.start = low
      BY <1>2, <1>3, <1>7, <2>1, LevelFacts
    <3> QED BY <1>3, <3>1 DEF Ahead
  <2>2. CASE s # Leaf
    <3>1. base'[first] > until'[first]
      BY <1>1, <1>3, <2>2, LevelFacts
    <3>2. Cxt(first)[Leaf]'.start = low - 1
      BY <1>2, <1>7, <2>2
    <3> QED BY <1>1, <1>3, <3>1, <3>2 DEF Ahead, AfterSuspended
  <2> QED BY <2>1, <2>2
<1>9. Delivers(first, <<t, Leaf>>, r.row, low, IF s = Leaf THEN mid ELSE r.max)'
  BY <1>2, <1>3, <1>5, <1>7, <1>8 DEF Delivers
<1>10. BranchDelivers(t, 0, r.row, low, IF s = Leaf THEN mid ELSE r.max)'
  <2>1. ~(pc'[first] = "done" \/ base'[first] < Leaf)
    BY <1>3, LevelFacts
  <2>2. ~(pc'[Append(t, 0)] = "done" \/ base'[Append(t, 0)] < Leaf)
        /\ Delivers(Append(t, 0), <<t, Leaf>>, r.row, low, IF s = Leaf THEN mid ELSE r.max)'
    BY <1>9, <2>1
  <2> QED BY <2>2 DEF BranchDelivers
<1>11. ASSUME s = Leaf PROVE BranchDelivers(t, 1, r.row, mid, r.max)'
  <2>1. Cxt(second)[Leaf]' = cxt'[second][s] /\ RowOf(second, Leaf)' = r.row
    BY <1>2, <1>3, <1>5, <1>11 DEF RowOf, Cxt
  <2>2. Ahead(second, Leaf)' = mid
    BY <1>2, <1>3, <1>11, <2>1, LevelFacts DEF Ahead
  <2>3. Delivers(second, <<t, Leaf>>, r.row, mid, r.max)'
    BY <1>2, <1>3, <1>5, <1>11, <2>1, <2>2 DEF Delivers
  <2>4. ~(pc'[second] = "done" \/ base'[second] < Leaf)
    BY <1>3, <1>11, LevelFacts
  <2>5. ~(pc'[Append(t, 1)] = "done" \/ base'[Append(t, 1)] < Leaf)
        /\ Delivers(Append(t, 1), <<t, Leaf>>, r.row, mid, r.max)'
    BY <2>3, <2>4
  <2> QED BY <2>5 DEF BranchDelivers
<1>12. CASE s = Leaf
  <2>1. mid \in r.low .. r.max
    BY <1>1, <1>5, <1>12
  <2> QED BY <1>1, <1>4, <1>5, <1>6, <1>10, <1>11, <1>12, <2>1 DEF BranchesOK
<1>13. CASE s # Leaf
  BY <1>1, <1>4, <1>5, <1>6, <1>10, <1>13 DEF BranchesOK
<1> QED BY <1>12, <1>13

LEMMA PromoteValues ==
  ASSUME MemoryInv, ValuesOK, NEW t \in DOMAIN pc, Promote(t)
  PROVE  ValuesOK'
<1>1. PICK first, second : first = Append(t, 0) /\ second = Append(t, 1)
  OBVIOUS
<1>2. PICK s, low, mid : Spawned(t, s, first, second) /\ SplitAt(t, s, low, mid, first, second)
  BY <1>1, SplitFacts
<1>3. pc[t] = "poll" /\ tail' = tail /\ ~Forked(t) /\ top[t] = Leaf
  BY PolledFacts DEF Promote, Fork, At
<1>4. /\ first \notin DOMAIN pc /\ second \notin DOMAIN pc /\ first # second
      /\ first # t /\ second # t /\ second # Root /\ first # Root
      /\ \A b \in DOMAIN cxt \ {area[t], second} : cxt'[b] = cxt[b]
  <2>1. first # Root /\ second # Root
    BY <1>1, MemoryParts, AreaOf, Branches, RootPath
  <2> QED BY <1>2, <2>1 DEF SplitAt
<1>5. /\ DOMAIN pc' = DOMAIN pc \cup {first, second}
      /\ pc'[t] = "join" /\ pc'[first] = "start" /\ pc'[second] = "start"
      /\ \A u \in DOMAIN pc : u # t => pc'[u] = pc[u]
      /\ \A u \in DOMAIN pc : /\ area'[u] = area[u] /\ base'[u] = base[u] /\ top'[u] = top[u]
                              /\ until'[u] = until[u] /\ frame'[u] = frame[u]
      /\ base'[first] = Leaf /\ top'[first] = Leaf
      /\ base'[second] = s /\ top'[second] = s /\ until'[second] = s /\ array' = array
  BY <1>2, <1>4 DEF Spawned
<1>6. /\ Forked(t)' /\ Given(t)' = s /\ ~Forked(first)' /\ ~Forked(second)'
      /\ \A v \in DOMAIN pc : v # t => Forked(v)' = Forked(v) /\ Given(v)' = Given(v)
  BY <1>1, <1>2, <1>3, <1>4, SplitFamilies
<1>7. \A v \in DOMAIN pc : pc[v] # "done" => DeliversKept(v)
  BY <1>1, <1>2, <1>3, SplitDelivers
<1>8. ASSUME NEW v \in DOMAIN pc PROVE CallOK(v)' /\ BranchesOK(v)'
  <2>1. \A u \in DOMAIN pc : /\ pc'[u] = "done" <=> pc[u] = "done"
                             /\ pc'[u] = "back" => pc[u] = "back"
    BY <1>3, <1>5
  <2>2. CallOK(v)' /\ (pc[v] = "join" /\ Given(v)' = Given(v) => BranchesOK(v)')
    BY <1>5, <1>7, <2>1, AllDeliver
  <2>3. CASE v = t
    BY <1>1, <1>2, <1>3, <2>2, <2>3, SplitBranches
  <2>4. CASE v # t
    BY <1>5, <1>6, <2>2, <2>4 DEF BranchesOK
  <2> QED BY <2>2, <2>3, <2>4
<1>9. CallOK(first)' /\ CallOK(second)' /\ BranchesOK(first)' /\ BranchesOK(second)'
  <2>1. CallOK(first)'
    BY <1>5, LevelFacts DEF CallOK
  <2>2. CallOK(second)'
    BY <1>5, LevelFacts DEF CallOK
  <2> QED BY <1>5, <2>1, <2>2 DEF BranchesOK
<1>10. ForkOK(first)' /\ ForkOK(second)'
  BY <1>4, <1>5, <1>6 DEF ForkOK
<1>11. ASSUME NEW v \in DOMAIN pc PROVE ForkOK(v)'
  <2>1. ForkOK(v)
    BY DEF ValuesOK
  <2>2. CASE v = t
    <3>1. t = Root => base'[t] = 0
      BY <1>5, <2>1, <2>2 DEF ForkOK
    <3>2. until'[Append(t, 1)] = Given(t)' /\ base'[Append(t, 1)] = Given(t)'
      BY <1>1, <1>5, <1>6
    <3> QED BY <1>5, <2>2, <3>1, <3>2 DEF ForkOK
  <2>3. CASE v # t
    <3>1. pc[v] \in {"header", "poll"} => Cxt(v)' = Cxt(v)
      <4>1. SUFFICES ASSUME pc[v] \in {"header", "poll"} PROVE Cxt(v)' = Cxt(v)
        OBVIOUS
      <4>2. area[v] # area[t] /\ area[v] \in DOMAIN cxt /\ area[v] \in DOMAIN pc
        BY <1>3, <2>3, <4>1, AreaWaits, OwnFacts, MemoryParts, AreaOf
      <4> QED BY <1>4, <1>5, <4>2 DEF Cxt
    <3>2. Forked(v) => Append(v, 1) \in DOMAIN pc
      BY <1>11, BothBranches
    <3>3. Forked(v)' = Forked(v) /\ Given(v)' = Given(v) /\ pc'[v] = pc[v]
      BY <1>5, <1>6, <2>3
    <3> QED BY <1>5, <2>1, <3>1, <3>2, <3>3 DEF ForkOK
  <2> QED BY <2>2, <2>3
<1>12. \A v \in DOMAIN pc' : CallOK(v)' /\ BranchesOK(v)' /\ ForkOK(v)'
  BY <1>5, <1>8, <1>9, <1>10, <1>11
<1> QED BY <1>3, <1>5, <1>12 DEF ValuesOK

LEMMA InitValues == Init => ValuesOK
<1> SUFFICES ASSUME Init PROVE ValuesOK
  OBVIOUS
<1>1. /\ DOMAIN pc = {Root} /\ pc[Root] = "start" /\ base[Root] = 0 /\ top[Root] = 0
      /\ DOMAIN array = {<<Root, -1>>} /\ tail = [c \in Outer |-> <<>>]
      /\ DOMAIN array[<<Root, -1>>].slots = 0 .. 1
  <2>1. array[<<Root, -1>>].slots = [k \in 0 .. 1 |-> Undef]
    BY DEF Init, Only, NewArray
  <2> QED BY <2>1 DEF Init, Only
<1>2. ~Forked(Root)
  BY <1>1 DEF Root, Forked
<1>3. CallOK(Root) /\ BranchesOK(Root)
  BY <1>1, LevelFacts DEF CallOK, BranchesOK
<1>4. ForkOK(Root)
  BY <1>1, <1>2 DEF ForkOK
<1> QED BY <1>1, <1>3, <1>4 DEF ValuesOK

LEMMA NextValues == MemoryInv /\ WorkOK /\ TailsOK /\ ValuesOK /\ [Next]_vars => ValuesOK'
<1> SUFFICES ASSUME MemoryInv, WorkOK, TailsOK, ValuesOK, [Next]_vars PROVE ValuesOK'
  OBVIOUS
<1>1. ASSUME NEW t \in DOMAIN pc, Step(t) PROVE ValuesOK'
  BY <1>1, StartValues, EnterValues, LeaveLoopValues, CallNestedValues, RunChunkValues,
     LatchValues, PromoteValues, JoinValues, ReturnToCallerValues, ReturnToLeftoverValues,
     ReturnFromTaskValues, BackValues DEF Step
<1>2. CASE UNCHANGED vars
  <2>1. UNCHANGED <<pc, rc, base, top, until, area, frame, array, cxt, tail>>
    BY <1>2 DEF vars, taskVars
  <2>2. \A v \in DOMAIN pc : CallOK(v)' /\ (pc[v] = "join" => BranchesOK(v)')
    <3>1. \A v : Reduced(v)' = Reduced(v) /\ RowOf(v, Leaf)' = RowOf(v, Leaf)
                 /\ Ahead(v, Leaf)' = Ahead(v, Leaf) /\ Cxt(v)' = Cxt(v)
      BY <2>1 DEF Reduced, Reg, RowOf, Ahead, Cxt
    <3>2. \A v : DeliversKept(v)
      BY <2>1, <3>1 DEF DeliversKept, Delivers
    <3>3. \A v : Given(v)' = Given(v)
      BY <2>1 DEF Given, Forked
    <3> QED BY <2>1, <3>2, <3>3, AllDeliver
  <2>3. \A v \in DOMAIN pc : BranchesOK(v)'
    BY <2>1, <2>2 DEF BranchesOK
  <2>4. \A v \in DOMAIN pc : ForkOK(v)'
    BY <2>1 DEF ValuesOK, ForkOK, Cxt, Given, Forked
  <2> QED BY <2>1, <2>2, <2>3, <2>4 DEF ValuesOK
<1> QED BY <1>1, <1>2 DEF Next, Terminated

\* IInv is an inductive invariant: every conjunct the refinement below rests on holds in
\* every state.
THEOREM Invariance == Spec => []IInv
<1>1. Init => IInv
  BY InitMemory, InitWork, InitValues DEF IInv
<1>2. IInv /\ [Next]_vars => IInv'
  BY NextMemory, NextWork, NextValues DEF IInv
<1> QED BY <1>1, <1>2, PTL DEF Spec

-----------------------------------------------------------------------------
(***************************************************************************)
(* The nest implements the parallel nest: the steps that start iterations, *)
(* run a tail or return from the original task are steps of the parallel   *)
(* nest, and it sees none of the others.                                   *)
(***************************************************************************)
LEMMA ParentOfIteration ==
  ASSUME NEW row \in DOMAIN Bounds, NEW i \in Indices(row)
  PROVE  Abstract!Parent(Append(row, i)) = row
<1>1. row \in Seq(Nat) /\ Len(row) \in Nat /\ i \in Nat
  BY RowFacts, IterationFacts
<1>2. Len(Append(row, i)) - 1 = Len(row)
  BY <1>1
<1>3. SubSeq(Append(row, i), 1, Len(row)) = row
  BY <1>1
<1> QED BY <1>2, <1>3 DEF Abstract!Parent

\* Iterations that a task holds may start.
LEMMA StartsMap ==
  ASSUME MemoryInv, WorkOK, TailsOK, NEW t \in DOMAIN pc, NEW S \in SUBSET Iterations,
         started' = [c \in Iterations |-> started[c] + (IF c \in S THEN 1 ELSE 0)],
         tail' = tail, pc'[Root] = "done" <=> pc[Root] = "done",
         \A c \in S : \E row \in DOMAIN Bounds : \E i \in Indices(row) :
           c = Append(row, i) /\ Holds(t, row, i)
  PROVE  Abstract!Start
<1>1. ASSUME NEW c \in S
      PROVE  /\ started[c] = 0
             /\ Abstract!Parent(c) \in Outer =>
                  started[Abstract!Parent(c)] = 1 /\ tail[Abstract!Parent(c)] = <<>>
  <2>1. PICK row \in DOMAIN Bounds : \E i \in Indices(row) : c = Append(row, i) /\ Holds(t, row, i)
    OBVIOUS
  <2>2. PICK i \in Indices(row) : c = Append(row, i) /\ Holds(t, row, i)
    BY <2>1
  <2>3. started[c] = 0 /\ (row # <<>> => started[row] = 1 /\ tail[row] = <<>>)
    BY <2>2, HeldFacts
  <2>4. Abstract!Parent(c) = row
    BY <2>2, ParentOfIteration
  <2> QED BY <2>3, <2>4 DEF Outer
<1>2. started \in [Iterations -> Nat]
  BY MemoryParts DEF TypeOK
<1>3. \A c \in Iterations : started'[c] = IF c \in S THEN 1 ELSE started[c]
  BY <1>1, <1>2
<1>4. {c \in Iterations : started'[c] # started[c]} = S
  BY <1>1, <1>3
<1>5. started' = [c \in Iterations |-> IF c \in S THEN 1 ELSE started[c]]
  BY <1>3
<1>6. (pc[Root] = "done")' = (pc[Root] = "done")
  OBVIOUS
<1>7. \A c \in S : /\ started[c] = 0
                   /\ Abstract!Parent(c) \in Outer =>
                        started[Abstract!Parent(c)] = 1 /\ tail[Abstract!Parent(c)] = <<>>
  BY <1>1
<1> HIDE <1>1
<1> QED BY <1>4, <1>5, <1>6, <1>7 DEF Abstract!Start

\* What follows a step of a task that is still there afterwards.
LEMMA NotReturned ==
  ASSUME MemoryInv, NEW t \in DOMAIN pc, pc[t] # "done", pc'[t] # "done",
         \A u \in DOMAIN pc \ {t} : pc'[u] = pc[u]
  PROVE  pc'[Root] = "done" <=> pc[Root] = "done"
<1>1. Root \in DOMAIN pc
  BY RootWaits
<1> QED BY <1>1

LEMMA RunChunkMaps ==
  ASSUME MemoryInv, WorkOK, TailsOK, NEW t \in DOMAIN pc, RunChunk(t)
  PROVE  Abstract!Start
<1>1. PICK high : Alone(t) /\ ChunkEffect(t, high)
  BY RunChunkEffects
<1>2. PICK R, from, to : R = frame[t][Leaf].row /\ from = frame[t][Leaf].iv /\ to = frame[t][Leaf].max
  OBVIOUS
<1>3. PICK S : S = Part(R, from, high)
  OBVIOUS
<1>4. /\ pc[t] = "header" /\ pc'[t] \in {"poll", "exit"} /\ top[t] = Leaf /\ ~Forked(t)
      /\ tail' = tail /\ from \in Nat /\ high \in Nat /\ to \in Nat /\ high <= to
      /\ R \in DOMAIN Bounds /\ Len(R) = Leaf /\ Bounds[R].first <= from /\ to <= Bounds[R].last
      /\ RowOf(t, Leaf) = R /\ Cxt(t)[Leaf].max = to
      /\ started' = [c \in Iterations |-> started[c] + (IF c \in S THEN 1 ELSE 0)]
  BY <1>1, <1>2, <1>3 DEF ChunkEffect
<1>5. until[t] \in Nat /\ until[t] <= Leaf /\ Leaf \in Nat
  BY <1>4, LevelRange
<1>6. Bounds[R].first \in Nat /\ Bounds[R].last \in Nat
  BY <1>4, RowFacts
<1>7. ASSUME NEW i \in from .. high - 1 PROVE i \in Indices(R) /\ Holds(t, R, i)
  <2>1. i \in Indices(R) /\ from <= i /\ i < to
    BY <1>4, <1>6 DEF Indices
  <2>2. Ahead(t, Leaf) = from
    BY <1>2, <1>4, <1>5 DEF Ahead
  <2> QED BY <1>4, <1>5, <2>1, <2>2 DEF Holds
<1>8. ASSUME NEW c \in S
      PROVE  /\ c \in Iterations
             /\ \E row \in DOMAIN Bounds : \E i \in Indices(row) :
                  c = Append(row, i) /\ Holds(t, row, i)
  <2>1. PICK i \in from .. high - 1 : c = Append(R, i)
    BY <1>3 DEF Part
  <2>2. i \in Indices(R) /\ Holds(t, R, i)
    BY <1>7
  <2> QED BY <1>4, <2>1, <2>2, IterationFacts
<1>9. pc'[Root] = "done" <=> pc[Root] = "done"
  BY <1>1, <1>4, NotReturned DEF Alone
<1> QED BY <1>4, <1>8, <1>9, StartsMap

LEMMA CallNestedMaps ==
  ASSUME MemoryInv, WorkOK, TailsOK, NEW t \in DOMAIN pc, CallNested(t)
  PROVE  Abstract!Start
<1>1. PICK R, from, h : Alone(t) /\ CallEffect(t, R, from, h)
  BY CallNestedEffects
<1>2. PICK n : n = top[t]
  OBVIOUS
<1>3. /\ pc[t] = "header" /\ pc'[t] = "enter" /\ ~Forked(t) /\ tail' = tail
      /\ from = frame[t][n].iv /\ h = Append(R, from)
      /\ from \in Nat /\ Cxt(t)[n].max \in Nat /\ from < Cxt(t)[n].max
      /\ R \in DOMAIN Bounds /\ Len(R) = n /\ from \in Indices(R) /\ RowOf(t, n) = R
      /\ started' = [started EXCEPT ![h] = started[h] + 1]
  BY <1>1, <1>2 DEF CallEffect
<1>4. /\ until[t] \in Nat /\ n \in Nat /\ until[t] <= n /\ Leaf \in Nat /\ n <= Leaf
      /\ h \in Iterations
  BY <1>2, <1>3, LevelRange, IterationFacts
<1>5. Holds(t, R, from)
  <2>1. Ahead(t, n) = from
    BY <1>2, <1>3, <1>4 DEF Ahead
  <2> QED BY <1>2, <1>3, <1>4, <2>1 DEF Holds
<1>6. started' = [c \in Iterations |-> started[c] + (IF c \in {h} THEN 1 ELSE 0)]
  <2>1. started \in [Iterations -> Nat]
    BY MemoryParts DEF TypeOK
  <2>2. \A c \in Iterations : started[c] + 0 = started[c]
    BY <2>1
  <2> QED BY <1>3, <1>4, <2>1, <2>2
<1>7. pc'[Root] = "done" <=> pc[Root] = "done"
  BY <1>1, <1>3, NotReturned DEF Alone
<1>8. \A c \in {h} : \E row \in DOMAIN Bounds : \E i \in Indices(row) :
        c = Append(row, i) /\ Holds(t, row, i)
  BY <1>3, <1>5
<1>9. {h} \in SUBSET Iterations
  BY <1>4
<1> QED BY <1>3, <1>6, <1>7, <1>8, <1>9, StartsMap

\* A tail is run with the value of the whole loop its iteration has called.
LEMMA BackMaps ==
  ASSUME MemoryInv, WorkOK, TailsOK, ValuesOK, NEW t \in DOMAIN pc, Back(t)
  PROVE  \E c \in Outer : Abstract!Conclude(c)
<1>1. PICK n, h : Alone(t) /\ BackEffect(t, n, h)
  BY BackEffects
<1>2. /\ pc[t] = "back" /\ pc'[t] \in {"exit", "header"} /\ n = top[t] /\ h = EnteredAt(t, top[t])
      /\ started' = started
      /\ tail' = [tail EXCEPT ![h] =
                Append(tail[h], IF n + 1 = Leaf THEN array[<<t, n>>].slots[0] ELSE EmptyBag)]
  BY <1>1 DEF BackEffect
<1>3. /\ h \in Outer /\ h \in DOMAIN Bounds /\ started[h] = 1 /\ tail[h] = <<>>
      /\ \A i \in Indices(h) : /\ started[Append(h, i)] = 1
                               /\ Append(h, i) \in Outer => tail[Append(h, i)] # <<>>
  BY <1>2, NothingBelow
<1>4. tail' = [tail EXCEPT ![h] = <<WholeRow(h)>>]
  <2>1. PICK w : w = WholeRow(h)
    OBVIOUS
  <2>2. tail' = [tail EXCEPT ![h] = Append(<<>>, w)]
    BY <1>2, <1>3, <2>1, TailValue
  <2>3. Append(<<>>, w) = <<w>>
    OBVIOUS
  <2> QED BY <2>1, <2>2, <2>3
<1>5. ASSUME NEW d \in Iterations, Abstract!Parent(d) = h PROVE Abstract!Ended(d)
  <2>1. PICK row \in DOMAIN Bounds : \E i \in Indices(row) : d = Append(row, i)
    BY RowOfIteration
  <2>2. PICK i \in Indices(row) : d = Append(row, i)
    BY <2>1
  <2>3. row = h
    BY <1>5, <2>2, ParentOfIteration
  <2> QED BY <1>3, <2>2, <2>3 DEF Abstract!Ended
<1>6. (pc[Root] = "done")' = (pc[Root] = "done")
  BY <1>1, <1>2, NotReturned DEF Alone
<1>7. Abstract!AllUnder(h)
  BY <1>5 DEF Abstract!AllUnder
<1>8. Abstract!Conclude(h)
  BY <1>2, <1>3, <1>4, <1>6, <1>7 DEF Abstract!Conclude
<1> QED BY <1>3, <1>8

\* The original task returns when nothing is left.
LEMMA ReturnFromTaskMaps ==
  ASSUME MemoryInv, NEW t \in DOMAIN pc, ReturnFromTask(t), NothingLost'
  PROVE  Abstract!Return \/ UNCHANGED Abstract!vars
<1>1. /\ pc[t] = "exit" /\ pc' = [pc EXCEPT ![t] = "done"] /\ started' = started /\ tail' = tail
  BY DEF ReturnFromTask, Exit, At
<1>2. CASE t = Root
  <2>1. pc'[Root] = "done" /\ pc[Root] # "done"
    BY <1>1, <1>2
  <2>2. (\A c \in Iterations : started[c] = 1) /\ (\A c \in Outer : tail[c] # <<>>)
    BY <1>1, <2>1 DEF NothingLost
  <2> QED BY <1>1, <2>1, <2>2 DEF Abstract!Return, Abstract!Ended
<1>3. CASE t # Root
  <2>1. Root \in DOMAIN pc
    BY <1>1, <1>3, RootWaits
  <2>2. (pc[Root] = "done")' = (pc[Root] = "done")
    BY <1>1, <1>3, <2>1
  <2> QED BY <1>1, <2>2 DEF Abstract!vars
<1> QED BY <1>2, <1>3

\* The other steps are stutters.
LEMMA OthersStutter ==
  ASSUME MemoryInv, NEW t \in DOMAIN pc,
         \/ Start(t) \/ Enter(t) \/ LeaveLoop(t) \/ NoHeartbeat(t) \/ HeartbeatIgnored(t)
         \/ Promote(t) \/ Join(t) \/ ReturnToCaller(t) \/ ReturnToLeftover(t)
  PROVE  UNCHANGED Abstract!vars
<1>1. /\ started' = started /\ tail' = tail
      /\ pc[t] # "done" /\ pc'[t] # "done" /\ \A u \in DOMAIN pc \ {t} : pc'[u] = pc[u]
  <2>1. CASE Start(t) \/ Enter(t) \/ LeaveLoop(t) \/ ReturnToCaller(t) \/ ReturnToLeftover(t)
    BY <2>1 DEF Start, Enter, LeaveLoop, ReturnToCaller, ReturnToLeftover, Exit, At
  <2>2. CASE NoHeartbeat(t) \/ HeartbeatIgnored(t)
    BY <2>2 DEF NoHeartbeat, HeartbeatIgnored, Latch, At
  <2>3. CASE Join(t)
    <3>1. JoinEffect(t)
      BY <2>3, JoinEffects
    <3> QED BY <3>1 DEF JoinEffect
  <2>4. CASE Promote(t)
    <3>1. PICK first, second : first = Append(t, 0) /\ second = Append(t, 1)
      OBVIOUS
    <3>2. PICK s, low, mid : Spawned(t, s, first, second) /\ SplitAt(t, s, low, mid, first, second)
      BY <2>4, <3>1, SplitFacts
    <3>3. first \notin DOMAIN pc /\ second \notin DOMAIN pc
      BY <3>2 DEF SplitAt
    <3>4. pc'[t] = "join" /\ \A u \in DOMAIN pc \ {t} : pc'[u] = pc[u]
      BY <3>2, <3>3 DEF Spawned
    <3> QED BY <2>4, <3>4 DEF Promote, Fork, At
  <2> QED BY <2>1, <2>2, <2>3, <2>4
<1>2. (pc[Root] = "done")' = (pc[Root] = "done")
  BY <1>1, NotReturned
<1> QED BY <1>1, <1>2 DEF Abstract!vars

LEMMA NextMaps ==
  IInv /\ NothingLost' /\ [Next]_vars => [Abstract!Next]_(Abstract!vars)
<1> SUFFICES ASSUME IInv, NothingLost', [Next]_vars PROVE [Abstract!Next]_(Abstract!vars)
  OBVIOUS
<1>1. MemoryInv /\ WorkOK /\ TailsOK /\ ValuesOK
  BY DEF IInv
<1>2. ASSUME NEW t \in DOMAIN pc, Step(t) PROVE [Abstract!Next]_(Abstract!vars)
  <2>1. CASE RunChunk(t) \/ CallNested(t)
    BY <1>1, <2>1, RunChunkMaps, CallNestedMaps DEF Abstract!Next
  <2>2. CASE Back(t)
    BY <1>1, <2>2, BackMaps DEF Abstract!Next
  <2>3. CASE ReturnFromTask(t)
    BY <1>1, <2>3, ReturnFromTaskMaps DEF Abstract!Next
  <2>4. CASE \/ Start(t) \/ Enter(t) \/ LeaveLoop(t) \/ NoHeartbeat(t) \/ HeartbeatIgnored(t)
             \/ Promote(t) \/ Join(t) \/ ReturnToCaller(t) \/ ReturnToLeftover(t)
    BY <1>1, <2>4, OthersStutter
  <2> QED BY <1>2, <2>1, <2>2, <2>3, <2>4 DEF Step
<1>3. CASE UNCHANGED vars
  BY <1>3 DEF vars, taskVars, Abstract!vars
<1> QED BY <1>2, <1>3 DEF Next, Terminated

\* Whatever the heartbeats and the order of the tasks' steps, the nest does what the
\* parallel nest promises: each iteration starts once, inside of the one that calls its
\* loop; each tail runs once, after everything under it, and is given the value of the
\* whole loop; control returns when nothing is left.
THEOREM NestImplementsParallelNest == Spec => ImplementsParallelNest
<1>1. Init => Abstract!Init
  BY DEF Init, Only, Abstract!Init
<1> QED BY <1>1, NextMaps, Invariance, NothingIsLost, PTL DEF Spec, ImplementsParallelNest, Abstract!Spec
=============================================================================
