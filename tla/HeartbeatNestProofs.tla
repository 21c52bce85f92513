------------------------ MODULE HeartbeatNestProofs -------------------------
(***************************************************************************)
(* Proofs about HeartbeatNest, for nests of any depth and any bounds: the  *)
(* control state, that is tasks, frames, arrays and levels; and what the   *)
(* nest keeps in contexts, arrays and registers while tasks are promoted,  *)
(* from which it follows that it can be read, that the outermost loop with *)
(* work is split and that a task is promoted once.                         *)
(***************************************************************************)
EXTENDS HeartbeatNest, TLAPS

Paths == Seq({0, 1})

\* Branches are one longer than the task that forks them.
LEMMA Branches ==
  ASSUME NEW p \in Paths
  PROVE  /\ Append(p, 0) \in Paths /\ Append(p, 1) \in Paths
         /\ Len(p) \in Nat
         /\ Len(Append(p, 0)) = Len(p) + 1 /\ Len(Append(p, 1)) = Len(p) + 1
         /\ Append(p, 0) # p /\ Append(p, 1) # p
  BY DEF Paths

\* A branch has one parent, and is its first or its second branch.
LEMMA BranchesApart ==
  ASSUME NEW p \in Paths, NEW q \in Paths
  PROVE  /\ Append(p, 0) = Append(q, 0) => p = q
         /\ Append(p, 1) = Append(q, 1) => p = q
         /\ Append(p, 0) # Append(q, 1)
  BY DEF Paths

LEMMA RootPath == Root \in Paths /\ Len(Root) = 0
  BY DEF Root, Paths

LEMMA TaskPaths == ASSUME TypeOK PROVE \A t \in DOMAIN pc : t \in Paths
  BY DEF TypeOK, Paths

\* A step of one task that neither forks nor joins leaves families and areas alone.
LEMMA QuietAreas ==
  ASSUME ControlInv, NEW t \in DOMAIN pc, pc[t] \notin {"join", "done"},
         NEW x, x # "join", pc' = [pc EXCEPT ![t] = x], area' = area,
         DOMAIN cxt' = DOMAIN cxt, DOMAIN tmem' = DOMAIN tmem,
         DOMAIN unpolled' = DOMAIN unpolled
  PROVE  FamiliesOK' /\ AreasOK'
<1>1. DOMAIN pc' = DOMAIN pc /\ DOMAIN area = DOMAIN pc
  BY DEF ControlInv, TypeOK
<1>2. \A u \in DOMAIN pc : /\ u # t => pc'[u] = pc[u]
                           /\ pc'[u] = "join" <=> pc[u] = "join"
                           /\ pc[u] = "done" => pc'[u] = "done"
  OBVIOUS
<1>3. ASSUME NEW u \in DOMAIN pc
      PROVE  /\ u = Root \/ \E p \in DOMAIN pc : u \in KidsOf(p) /\ KidsOf(p) \subseteq DOMAIN pc
             /\ pc[u] = "join" => KidsOf(u) \subseteq DOMAIN pc
             /\ pc[u] # "join" => \A k \in KidsOf(u) \cap DOMAIN pc : pc[k] = "done"
  BY DEF ControlInv, FamiliesOK
<1>4. FamiliesOK'
  <2> SUFFICES ASSUME NEW u \in DOMAIN pc
      PROVE  /\ u = Root \/ \E p \in DOMAIN pc : u \in KidsOf(p) /\ KidsOf(p) \subseteq DOMAIN pc
             /\ pc'[u] = "join" => KidsOf(u) \subseteq DOMAIN pc
             /\ pc'[u] # "join" => \A k \in KidsOf(u) \cap DOMAIN pc : pc'[k] = "done"
    BY <1>1 DEF FamiliesOK, KidsOf
  <2> QED BY <1>2, <1>3
<1>5. AreasOK'
  <2>1. \A u, v \in DOMAIN pc : area[u] = area[v] =>
          /\ Len(u) = Len(v) => u = v
          /\ Len(u) < Len(v) => Forked(u) /\ (pc[u] # "join" => pc[v] = "done")
    BY DEF ControlInv, AreasOK
  <2>2. \A u, v \in DOMAIN pc : area[u] = area[v] =>
          /\ Len(u) = Len(v) => u = v
          /\ Len(u) < Len(v) => Forked(u)' /\ (pc'[u] # "join" => pc'[v] = "done")
    BY <1>1, <1>2, <2>1 DEF Forked
  <2>3. \A u \in DOMAIN pc :
         /\ area[u] \in DOMAIN pc /\ area[area[u]] = area[u] /\ Len(area[u]) <= Len(u)
         /\ u = Root => area[u] = u
         /\ Append(u, 0) \in DOMAIN pc => area[Append(u, 0)] = area[u]
         /\ Append(u, 1) \in DOMAIN pc => area[Append(u, 1)] = Append(u, 1)
         /\ pc[u] # "done" => area[u] \in DOMAIN cxt
    BY DEF ControlInv, AreasOK
  <2>4. DOMAIN tmem' = DOMAIN cxt' /\ DOMAIN unpolled' = DOMAIN cxt'
    BY DEF ControlInv, AreasOK
  <2>5. \A u \in DOMAIN pc : pc'[u] # "done" => area[u] \in DOMAIN cxt'
    BY <1>2, <2>3
  <2> QED BY <1>1, <2>2, <2>3, <2>4, <2>5 DEF AreasOK
<1> QED BY <1>4, <1>5

\* A task knows its area, and nobody else of its length runs on it.
LEMMA AreaFacts ==
  ASSUME ControlInv, NEW t \in DOMAIN pc
  PROVE  /\ t \in Paths /\ Len(t) \in Nat
         /\ area[t] \in DOMAIN pc /\ area[t] \in Paths /\ Len(area[t]) \in Nat
         /\ area[area[t]] = area[t] /\ Len(area[t]) <= Len(t)
         /\ t = Root => area[t] = t
         /\ Append(t, 0) \in DOMAIN pc => area[Append(t, 0)] = area[t]
         /\ Append(t, 1) \in DOMAIN pc => area[Append(t, 1)] = Append(t, 1)
         /\ \A u \in DOMAIN pc : area[t] = area[u] =>
              /\ Len(t) = Len(u) => t = u
              /\ Len(t) < Len(u) => Forked(t) /\ (pc[t] # "join" => pc[u] = "done")
  BY TaskPaths, Branches DEF ControlInv, AreasOK

\* The parts of this that say least.
LEMMA AreaOf ==
  ASSUME ControlInv, NEW t \in DOMAIN pc
  PROVE  /\ t \in Paths /\ Len(t) \in Nat /\ Len(area[t]) \in Nat
         /\ area[t] \in DOMAIN pc /\ area[area[t]] = area[t] /\ Len(area[t]) <= Len(t)
         /\ t = Root => area[t] = t
         /\ pc[t] # "done" => area[t] \in DOMAIN cxt
  BY AreaFacts DEF ControlInv, AreasOK

LEMMA SameArea ==
  ASSUME ControlInv, NEW t \in DOMAIN pc, NEW u \in DOMAIN pc, area[t] = area[u]
  PROVE  /\ Len(t) = Len(u) => t = u
         /\ Len(t) < Len(u) => Append(t, 0) \in DOMAIN pc /\ (pc[t] # "join" => pc[u] = "done")
  BY AreaFacts DEF Forked

\* What the families say of one task.
LEMMA FamilyFacts ==
  ASSUME ControlInv, NEW t \in DOMAIN pc
  PROVE  /\ t = Root \/ \E p \in DOMAIN pc : t \in KidsOf(p) /\ KidsOf(p) \subseteq DOMAIN pc
         /\ pc[t] = "join" => KidsOf(t) \subseteq DOMAIN pc
         /\ pc[t] # "join" => \A k \in KidsOf(t) \cap DOMAIN pc : pc[k] = "done"
  BY DEF ControlInv, FamiliesOK

\* A second branch runs on an area of its own, and when it is done so is everyone
\* who ran on that area.
LEMMA SecondAreaIdle ==
  ASSUME ControlInv, NEW t \in Paths,
         Append(t, 1) \in DOMAIN pc => pc[Append(t, 1)] = "done",
         NEW u \in DOMAIN pc, area[u] = Append(t, 1)
  PROVE  pc[u] = "done" /\ Append(t, 1) \in DOMAIN pc
<1> DEFINE s == Append(t, 1)
<1>1. s \in DOMAIN pc /\ area[s] = s /\ Len(s) <= Len(u) /\ Len(s) \in Nat /\ Len(u) \in Nat
  BY AreaFacts
<1>2. CASE Len(s) = Len(u)
  BY <1>1, <1>2, AreaFacts
<1>3. CASE Len(s) < Len(u)
  <2>1. pc[s] # "join" => pc[u] = "done"
    BY <1>1, <1>3, AreaFacts
  <2> QED BY <1>1, <2>1
<1> HIDE DEF s
<1> QED BY <1>1, <1>2, <1>3 DEF s

\* When the branches of a task are done, so is everyone who took over its area.
LEMMA TakenOverIdle ==
  ASSUME ControlInv, NEW t \in DOMAIN pc, Forked(t), pc[Append(t, 0)] = "done",
         NEW u \in DOMAIN pc, area[u] = area[t], Len(t) < Len(u)
  PROVE  pc[u] = "done"
<1> DEFINE f == Append(t, 0)
<1>1. f \in DOMAIN pc /\ area[f] = area[t] /\ t \in Paths /\ Len(u) \in Nat
  BY AreaFacts DEF Forked
<1>2. Len(f) = Len(t) + 1 /\ Len(t) \in Nat
  BY <1>1, Branches
<1> HIDE DEF f
<1>3. CASE Len(f) = Len(u)
  <2>1. f = u
    BY <1>1, <1>3, AreaFacts
  <2> QED BY <2>1 DEF f
<1>4. CASE Len(f) < Len(u)
  <2>1. pc[f] # "join" => pc[u] = "done"
    BY <1>1, <1>4, AreaFacts
  <2> QED BY <2>1 DEF f
<1> QED BY <1>1, <1>2, <1>3, <1>4

\* When both branches are done their parent goes on; the second area goes.
LEMMA JoinAreas ==
  ASSUME ControlInv, NEW t \in DOMAIN pc, pc[t] = "join",
         pc[Append(t, 0)] = "done", pc[Append(t, 1)] = "done",
         NEW x, x \notin {"join", "done"}, pc' = [pc EXCEPT ![t] = x], area' = area,
         DOMAIN cxt' = DOMAIN cxt \ {Append(t, 1)},
         DOMAIN tmem' = DOMAIN tmem \ {Append(t, 1)},
         DOMAIN unpolled' = DOMAIN unpolled \ {Append(t, 1)}
  PROVE  FamiliesOK' /\ AreasOK'
<1>1. DOMAIN pc' = DOMAIN pc /\ DOMAIN area = DOMAIN pc
  BY DEF ControlInv, TypeOK
<1>2. /\ \A u \in DOMAIN pc : u # t => pc'[u] = pc[u]
      /\ pc'[t] = x
  OBVIOUS
<1>3. t \in Paths /\ Len(t) \in Nat
  BY AreaFacts
<1>4. KidsOf(t) \subseteq DOMAIN pc /\ \A k \in KidsOf(t) : pc[k] = "done" /\ k # t
  BY <1>3, Branches, FamilyFacts DEF KidsOf
<1>5. FamiliesOK'
  <2> SUFFICES ASSUME NEW u \in DOMAIN pc
      PROVE  /\ u = Root \/ \E p \in DOMAIN pc : u \in KidsOf(p) /\ KidsOf(p) \subseteq DOMAIN pc
             /\ pc'[u] = "join" => KidsOf(u) \subseteq DOMAIN pc
             /\ pc'[u] # "join" => \A k \in KidsOf(u) \cap DOMAIN pc : pc'[k] = "done"
    BY <1>1 DEF FamiliesOK, KidsOf
  <2>1. CASE u = t
    BY <1>2, <1>4, <2>1, FamilyFacts
  <2>2. CASE u # t
    BY <1>2, <2>2, FamilyFacts
  <2> QED BY <2>1, <2>2
<1>6. AreasOK'
  <2>1. \A u, v \in DOMAIN pc : area[u] = area[v] =>
          /\ Len(u) = Len(v) => u = v
          /\ Len(u) < Len(v) => Forked(u)' /\ (pc'[u] # "join" => pc'[v] = "done")
    <3> SUFFICES ASSUME NEW u \in DOMAIN pc, NEW v \in DOMAIN pc, area[u] = area[v]
        PROVE  /\ Len(u) = Len(v) => u = v
               /\ Len(u) < Len(v) => Forked(u)' /\ (pc'[u] # "join" => pc'[v] = "done")
      OBVIOUS
    <3>1. Len(u) = Len(v) => u = v
      BY AreaFacts
    <3>2. ASSUME Len(u) < Len(v) PROVE Forked(u)'
      BY <1>1, <3>2, AreaFacts DEF Forked
    <3>3. ASSUME Len(u) < Len(v), pc'[u] # "join" PROVE pc'[v] = "done"
      <4>1. pc[v] = "done"
        <5>1. CASE u = t
          BY <1>4, <3>3, <5>1, TakenOverIdle DEF Forked, KidsOf
        <5>2. CASE u # t
          BY <1>2, <3>3, <5>2, AreaFacts
        <5> QED BY <5>1, <5>2
      <4> QED BY <1>2, <4>1
    <3> QED BY <3>1, <3>2, <3>3
  <2>2. \A u \in DOMAIN pc : pc'[u] # "done" => area[u] \in DOMAIN cxt'
    <3> SUFFICES ASSUME NEW u \in DOMAIN pc, pc'[u] # "done" PROVE area[u] \in DOMAIN cxt'
      OBVIOUS
    <3>1. pc[u] # "done"
      BY <1>2
    <3>2. area[u] # Append(t, 1)
      BY <1>3, <3>1, SecondAreaIdle
    <3> QED BY <3>1, <3>2 DEF ControlInv, AreasOK
  <2>3. DOMAIN tmem' = DOMAIN cxt' /\ DOMAIN unpolled' = DOMAIN cxt'
    BY DEF ControlInv, AreasOK
  <2> QED BY <1>1, <2>1, <2>2, <2>3, AreaFacts DEF AreasOK
<1> QED BY <1>5, <1>6

\* The families and areas once task t has forked: everything else stays.
AreasForked(t, first, second) ==
  /\ DOMAIN pc' = DOMAIN pc \cup {first, second} /\ DOMAIN area' = DOMAIN pc'
  /\ pc'[t] = "join" /\ pc'[first] = "start" /\ pc'[second] = "start"
  /\ \A u \in DOMAIN pc \ {t, first, second} : pc'[u] = pc[u]
  /\ area'[first] = area[t] /\ area'[second] = second
  /\ \A u \in DOMAIN pc \ {first, second} : area'[u] = area[u]
  /\ DOMAIN cxt' = DOMAIN cxt \cup {second}
  /\ DOMAIN tmem' = DOMAIN tmem \cup {second}
  /\ DOMAIN unpolled' = DOMAIN unpolled \cup {second}

\* A fork hands the area on to the first branch and makes one for the second.
LEMMA ForkAreas ==
  ASSUME ControlInv, NEW t \in DOMAIN pc, pc[t] = "poll",
         NEW first, first = Append(t, 0), NEW second, second = Append(t, 1),
         AreasForked(t, first, second)
  PROVE  FamiliesOK' /\ AreasOK'
<1> USE DEF AreasForked
<1> DEFINE Others == DOMAIN pc \ {first, second}
<1>1. /\ t \in Paths /\ first \in Paths /\ second \in Paths /\ Len(t) \in Nat
      /\ Len(first) = Len(t) + 1 /\ Len(second) = Len(t) + 1 /\ first # second
      /\ first # t /\ second # t
  BY AreaFacts, Branches, BranchesApart
<1>2. /\ t \in Others /\ DOMAIN pc' = Others \cup {first, second}
      /\ DOMAIN pc \subseteq DOMAIN pc'
  BY <1>1
<1>3. KidsOf(t) = {first, second}
  BY DEF KidsOf
<1>4. \A k \in KidsOf(t) \cap DOMAIN pc : pc[k] = "done"
  BY FamilyFacts
<1>5. \A u \in Others : u # t => pc'[u] = pc[u]
  OBVIOUS
<1>6. /\ \A k \in {first, second} : \A g \in KidsOf(k) \cap DOMAIN pc : pc[g] = "done" /\ g \in Others
      /\ \A u \in Others : t \notin KidsOf(u) \/ pc[u] = "join"
      /\ \A u \in Others : u # t => first \notin KidsOf(u) /\ second \notin KidsOf(u)
  <2>1. ASSUME NEW k \in {first, second}, NEW g \in KidsOf(k) \cap DOMAIN pc
        PROVE  pc[g] = "done" /\ g \in Others
    <3>1. k \in Paths /\ Len(g) = Len(k) + 1 /\ Len(k) = Len(t) + 1
      BY <1>1, Branches DEF KidsOf
    <3>2. g # first /\ g # second /\ g # Root
      BY <1>1, <3>1, RootPath
    <3>3. k \in DOMAIN pc
      <4>1. PICK p \in DOMAIN pc : g \in KidsOf(p) /\ KidsOf(p) \subseteq DOMAIN pc
        BY <3>2, FamilyFacts
      <4>2. p \in Paths
        BY AreaFacts
      <4>3. p = k
        BY <3>1, <4>1, <4>2, BranchesApart DEF KidsOf
      <4> QED BY <4>3
    <3>4. pc[k] = "done"
      BY <1>3, <1>4, <3>3
    <3> QED BY <3>2, <3>3, <3>4, FamilyFacts
  <2>2. ASSUME NEW u \in Others, t \in KidsOf(u) PROVE pc[u] = "join"
    BY <2>2, FamilyFacts
  <2>3. ASSUME NEW u \in Others, u # t PROVE first \notin KidsOf(u) /\ second \notin KidsOf(u)
    BY <1>1, <2>3, AreaFacts, BranchesApart DEF KidsOf
  <2> QED BY <2>1, <2>2, <2>3
<1>7. FamiliesOK'
  <2> SUFFICES ASSUME NEW u \in Others \cup {first, second}
      PROVE  /\ u = Root \/ \E p \in DOMAIN pc' : u \in KidsOf(p) /\ KidsOf(p) \subseteq DOMAIN pc'
             /\ pc'[u] = "join" => KidsOf(u) \subseteq DOMAIN pc'
             /\ pc'[u] # "join" => \A k \in KidsOf(u) \cap DOMAIN pc' : pc'[k] = "done"
    BY <1>2 DEF FamiliesOK, KidsOf
  <2>1. CASE u \in {first, second}
    <3>1. \E p \in DOMAIN pc' : u \in KidsOf(p) /\ KidsOf(p) \subseteq DOMAIN pc'
      BY <1>2, <1>3, <2>1
    <3>2. \A g \in KidsOf(u) : g # first /\ g # second
      BY <1>1, <2>1, Branches DEF KidsOf
    <3>3. \A g \in KidsOf(u) \cap DOMAIN pc' : g \in DOMAIN pc /\ pc'[g] = "done"
      <4> SUFFICES ASSUME NEW g \in KidsOf(u) \cap DOMAIN pc'
          PROVE  g \in DOMAIN pc /\ pc'[g] = "done"
        OBVIOUS
      <4>1. g \in KidsOf(u) \cap DOMAIN pc
        BY <1>2, <3>2
      <4>2. pc[g] = "done" /\ g \in Others
        BY <1>6, <2>1, <4>1
      <4> QED BY <1>5, <4>1, <4>2
    <3> QED BY <2>1, <3>1, <3>3
  <2>2. CASE u = t
    BY <1>2, <1>3, <2>2, FamilyFacts
  <2>3. CASE u \in Others /\ u # t
    <3>1. pc'[u] = pc[u] /\ first \notin KidsOf(u) /\ second \notin KidsOf(u)
      BY <1>5, <1>6, <2>3
    <3>2. u = Root \/ \E p \in DOMAIN pc' : u \in KidsOf(p) /\ KidsOf(p) \subseteq DOMAIN pc'
      BY <2>3, FamilyFacts
    <3>3. pc[u] = "join" => KidsOf(u) \subseteq DOMAIN pc'
      BY <2>3, FamilyFacts
    <3>4. ASSUME pc[u] # "join", NEW k \in KidsOf(u) \cap DOMAIN pc' PROVE pc'[k] = "done"
      <4>1. k \in Others
        BY <1>2, <3>1
      <4>2. pc[k] = "done"
        BY <2>3, <3>4, <4>1, FamilyFacts
      <4> QED BY <1>5, <4>1, <4>2
    <3> QED BY <3>1, <3>2, <3>3, <3>4
  <2> QED BY <2>1, <2>2, <2>3
<1>8. AreasOK'
  <2>1. \A u \in Others : area'[u] = area[u]
    OBVIOUS
  <2>2. \A u \in Others : area[u] = second => pc[u] = "done" /\ second \in DOMAIN pc
    BY <1>1, <1>3, <1>4, SecondAreaIdle
  <2>3. area[t] # second
    BY <1>1, AreaFacts
  <2>4. ASSUME NEW u \in Others \cup {first, second}
        PROVE  /\ area'[u] \in DOMAIN pc' /\ area'[area'[u]] = area'[u] /\ Len(area'[u]) <= Len(u)
               /\ u = Root => area'[u] = u
               /\ pc'[u] # "done" => area'[u] \in DOMAIN cxt'
    <3>1. ASSUME NEW v \in Others, area[v] # first
          PROVE  area'[area[v]] = area[v]
      <4>1. area[v] \in DOMAIN pc /\ area[area[v]] = area[v]
        BY AreaOf
      <4> QED BY <3>1, <4>1
    <3>2. \A v \in Others : area[v] # first
      <4> SUFFICES ASSUME NEW v \in Others, area[v] = first PROVE FALSE
        OBVIOUS
      <4>1. first \in DOMAIN pc /\ area[first] = first
        BY AreaOf
      <4>2. area[first] = area[t]
        BY <4>1, AreaFacts
      <4> QED BY <1>1, <4>1, <4>2, AreaFacts
    <3>3. CASE u \in Others
      <4>1. area[u] \in DOMAIN pc /\ Len(area[u]) <= Len(u) /\ (u = Root => area[u] = u)
        BY <3>3, AreaFacts
      <4>2. pc'[u] # "done" => area[u] \in DOMAIN cxt
        BY <1>5, <3>3 DEF ControlInv, AreasOK
      <4> QED BY <2>1, <3>1, <3>2, <3>3, <4>1, <4>2
    <3>4. CASE u = first
      <4>1. area[t] \in DOMAIN pc /\ Len(area[t]) <= Len(first) /\ first # Root
        <5>1. area[t] \in DOMAIN pc /\ Len(area[t]) <= Len(t) /\ Len(area[t]) \in Nat
          BY AreaOf
        <5> QED BY <1>1, <5>1, RootPath
      <4>2. area[t] \in DOMAIN cxt
        BY DEF ControlInv, AreasOK
      <4> QED BY <1>2, <3>1, <3>2, <3>4, <4>1, <4>2
    <3>5. CASE u = second
      <4>1. Len(second) <= Len(second) /\ second # Root
        BY <1>1, RootPath
      <4> QED BY <1>2, <3>5, <4>1
    <3> QED BY <3>3, <3>4, <3>5
  <2>5. ASSUME NEW u \in Others \cup {first, second}
        PROVE  /\ Append(u, 0) \in DOMAIN pc' => area'[Append(u, 0)] = area'[u]
               /\ Append(u, 1) \in DOMAIN pc' => area'[Append(u, 1)] = Append(u, 1)
    <3>1. u \in Paths
      BY <1>1, AreaFacts
    <3>2. Append(u, 0) # second /\ Append(u, 1) # first
      BY <1>1, <3>1, BranchesApart
    <3>3. CASE u = t
      BY <1>2, <3>3
    <3>4. CASE u # t
      <4>1. Append(u, 0) # first /\ Append(u, 1) # second
        BY <1>1, <3>1, <3>4, BranchesApart
      <4>2. ASSUME NEW k \in {Append(u, 0), Append(u, 1)}, k \in DOMAIN pc'
            PROVE  k \in Others /\ u \in DOMAIN pc /\ area'[k] = area[k]
        <5>1. k \in Others
          BY <1>2, <3>2, <4>1, <4>2
        <5>2. k # Root
          BY <3>1, Branches, RootPath, <4>2
        <5>3. PICK p \in DOMAIN pc : k \in KidsOf(p)
          BY <5>1, <5>2, FamilyFacts
        <5>4. p = u
          <6>1. p \in Paths
            BY <5>3, AreaFacts
          <6>2. k = Append(p, 0) \/ k = Append(p, 1)
            BY <5>3 DEF KidsOf
          <6> QED BY <3>1, <4>2, <6>1, <6>2, BranchesApart
        <5> QED BY <2>1, <5>1, <5>3, <5>4
      <4>3. ASSUME Append(u, 0) \in DOMAIN pc' PROVE area'[Append(u, 0)] = area'[u]
        <5>1. area[Append(u, 0)] = area[u]
          BY <4>2, <4>3, AreaFacts
        <5>2. area'[u] = area[u]
          <6>1. CASE u = first
            <7>1. area[first] = area[t]
              BY <4>2, <4>3, <6>1, AreaFacts
            <7> QED BY <6>1, <7>1
          <6>2. CASE u = second
            <7>1. area[second] = second
              BY <4>2, <4>3, <6>2, AreaFacts
            <7> QED BY <6>2, <7>1
          <6> QED BY <2>1, <6>1, <6>2
        <5> QED BY <4>2, <4>3, <5>1, <5>2
      <4>4. ASSUME Append(u, 1) \in DOMAIN pc' PROVE area'[Append(u, 1)] = Append(u, 1)
        BY <4>2, <4>4, AreaFacts
      <4> QED BY <4>3, <4>4
    <3> QED BY <3>3, <3>4
  <2>6. ASSUME NEW u \in Others \cup {first, second}, NEW v \in Others \cup {first, second},
               area'[u] = area'[v]
        PROVE  /\ Len(u) = Len(v) => u = v
               /\ Len(u) < Len(v) => Append(u, 0) \in DOMAIN pc' /\ (pc'[u] # "join" => pc'[v] = "done")
    <3>1. \A w \in Others : Len(w) \in Nat /\ (pc[w] = "done" => pc'[w] = "done")
      BY <1>5, AreaFacts
    <3>2. ASSUME NEW w \in Others, area[w] = area[t], Len(t) < Len(w)
          PROVE  /\ first \in DOMAIN pc /\ pc[w] = "done"
                 /\ Len(w) # Len(first) /\ (Len(first) < Len(w) => Append(first, 0) \in DOMAIN pc)
      <4>1. first \in DOMAIN pc /\ pc[w] = "done"
        BY <3>2, AreaFacts DEF Forked
      <4>2. area[first] = area[w]
        BY <3>2, <4>1, AreaFacts
      <4> QED BY <4>1, <4>2, AreaFacts DEF Forked
    <3>3. CASE u \in Others /\ v \in Others
      <4>1. /\ Len(u) = Len(v) => u = v
            /\ Len(u) < Len(v) => Append(u, 0) \in DOMAIN pc /\ (pc[u] # "join" => pc[v] = "done")
        <5>1. area[u] = area[v] /\ u \in DOMAIN pc /\ v \in DOMAIN pc
          BY <2>1, <2>6, <3>3
        <5> QED BY <5>1, SameArea
      <4>2. pc'[u] # "join" => pc[u] # "join"
        BY <1>5, <3>3
      <4> QED BY <1>2, <3>1, <3>3, <4>1, <4>2
    <3>4. CASE u = first /\ v \in Others
      <4>1. area[v] = area[t] /\ v # first
        BY <2>1, <2>6, <3>4
      <4>2. Len(v) # Len(first)
        BY <1>1, <3>1, <3>2, <3>4, <4>1
      <4>3. ASSUME Len(first) < Len(v)
            PROVE  Append(first, 0) \in DOMAIN pc' /\ pc'[v] = "done"
        <5>1. Len(t) < Len(v)
          BY <1>1, <3>1, <3>4, <4>3
        <5>2. Append(first, 0) \in DOMAIN pc /\ pc[v] = "done"
          BY <3>2, <3>4, <4>1, <4>3, <5>1
        <5> QED BY <1>2, <3>1, <3>4, <5>2
      <4> QED BY <3>4, <4>2, <4>3
    <3>5. CASE u \in Others /\ v = first
      <4>1. area[u] = area[t]
        BY <2>1, <2>6, <3>5
      <4>2. Len(u) # Len(first)
        BY <1>1, <3>1, <3>2, <3>5, <4>1
      <4>3. CASE Len(t) < Len(u)
        BY <1>1, <3>1, <3>5, <4>2, <4>3
      <4>4. CASE Len(t) = Len(u)
        <5>1. t = u
          BY <3>5, <4>1, <4>4, AreaFacts
        <5> QED BY <1>1, <3>5, <5>1
      <4>5. CASE Len(u) < Len(t)
        <5>1. Append(u, 0) \in DOMAIN pc /\ pc[u] = "join" /\ u # t
          BY <3>5, <4>1, <4>5, AreaFacts DEF Forked
        <5> QED BY <1>1, <1>2, <1>5, <3>5, <4>2, <5>1
      <4> QED BY <1>1, <3>1, <3>5, <4>3, <4>4, <4>5
    <3>6. CASE u = second /\ v \in Others
      <4>1. area[v] = second /\ second \in DOMAIN pc /\ pc[v] = "done"
        BY <2>1, <2>2, <2>6, <3>6
      <4>2. area[second] = second
        BY <4>1, AreaFacts
      <4>3. Len(second) = Len(v) => second = v
        BY <3>6, <4>1, <4>2, SameArea
      <4>4. Len(second) < Len(v) => Append(second, 0) \in DOMAIN pc
        BY <3>6, <4>1, <4>2, SameArea
      <4>5. pc'[v] = "done"
        BY <3>1, <3>6, <4>1
      <4> QED BY <1>2, <3>6, <4>3, <4>4, <4>5
    <3>7. CASE u \in Others /\ v = second
      <4>1. area[u] = second /\ second \in DOMAIN pc
        BY <2>1, <2>2, <2>6, <3>7
      <4>2. area[second] = second /\ Len(second) <= Len(u)
        BY <3>7, <4>1, AreaFacts
      <4>3. Len(u) = Len(second) => u = second
        <5>1. area[u] = area[second] /\ u \in DOMAIN pc
          BY <3>7, <4>1, <4>2
        <5> QED BY <4>1, <5>1, SameArea
      <4>4. ~(Len(u) < Len(second)) /\ u # second
        BY <1>1, <3>1, <3>7, <4>2
      <4> QED BY <3>7, <4>3, <4>4
    <3>8. CASE u \in {first, second} /\ v \in {first, second}
      <4>1. area'[u] # area'[v] \/ u = v
        <5>1. area'[first] # area'[second]
          BY <2>3
        <5> QED BY ONLY <3>8, <5>1
      <4> QED BY <1>1, <2>6, <3>8, <4>1
    <3> QED BY <3>3, <3>4, <3>5, <3>6, <3>7, <3>8
  <2>7. DOMAIN tmem' = DOMAIN cxt' /\ DOMAIN unpolled' = DOMAIN cxt'
    BY DEF ControlInv, AreasOK
  <2> HIDE DEF Others
  <2>8. \A u, v \in DOMAIN pc' : area'[u] = area'[v] =>
          /\ Len(u) = Len(v) => u = v
          /\ Len(u) < Len(v) => Append(u, 0) \in DOMAIN pc' /\ (pc'[u] # "join" => pc'[v] = "done")
    BY ONLY <1>2, <2>6
  <2>9. \A u \in DOMAIN pc' :
          /\ area'[u] \in DOMAIN pc' /\ area'[area'[u]] = area'[u] /\ Len(area'[u]) <= Len(u)
          /\ u = Root => area'[u] = u
          /\ Append(u, 0) \in DOMAIN pc' => area'[Append(u, 0)] = area'[u]
          /\ Append(u, 1) \in DOMAIN pc' => area'[Append(u, 1)] = Append(u, 1)
          /\ pc'[u] # "done" => area'[u] \in DOMAIN cxt'
    BY <1>2, <2>4, <2>5
  <2> QED BY ONLY <2>7, <2>8, <2>9 DEF AreasOK, Forked
<1> QED BY <1>7, <1>8

LEMMA LevelFacts == Leaf \in Nat /\ Leaf > 0 /\ Level = 0..Leaf /\ Level \subseteq Nat
  BY NestAssumption DEF Level

\* The domain of array follows that of the frames of the task that takes a step.
LEMMA ArrayDomain ==
  ASSUME TypeOK, NEW t \in DOMAIN pc, DOMAIN pc' = DOMAIN pc,
         \A u \in DOMAIN pc \ {t} : DOMAIN frame'[u] = DOMAIN frame[u],
         DOMAIN frame'[t] \subseteq Level,
         DOMAIN array' = (DOMAIN array \ {<<t, l>> : l \in DOMAIN frame[t]})
                           \cup {<<t, l>> : l \in DOMAIN frame'[t]}
  PROVE  DOMAIN array' = {<<Root, -1>>} \cup
                    UNION {{<<u, l>> : l \in DOMAIN frame'[u]} : u \in DOMAIN pc'}
<1> DEFINE Own(u) == {<<u, l>> : l \in DOMAIN frame[u]}
           New(u) == {<<u, l>> : l \in DOMAIN frame'[u]}
<1>1. DOMAIN array = {<<Root, -1>>} \cup UNION {Own(u) : u \in DOMAIN pc}
  BY DEF TypeOK
<1>2. \A u \in DOMAIN pc \ {t} : New(u) = Own(u) /\ Own(u) \cap Own(t) = {}
  OBVIOUS
<1>3. DOMAIN frame[t] \subseteq Level
  <2>1. TaskOK(t)
    BY DEF TypeOK
  <2> QED BY <2>1, LevelFacts DEF TaskOK
<1>4. <<Root, -1>> \notin Own(t)
  BY <1>3, LevelFacts
<1>5. DOMAIN array' = (DOMAIN array \ Own(t)) \cup New(t)
  OBVIOUS
<1> HIDE DEF Own, New
<1>6. DOMAIN array' = {<<Root, -1>>} \cup UNION {New(u) : u \in DOMAIN pc}
  <2>1. ASSUME NEW x \in DOMAIN array'
        PROVE  x = <<Root, -1>> \/ \E u \in DOMAIN pc : x \in New(u)
    BY <1>1, <1>2, <1>5
  <2>2. <<Root, -1>> \in DOMAIN array'
    BY <1>1, <1>4, <1>5
  <2>3. ASSUME NEW u \in DOMAIN pc, NEW x \in New(u) PROVE x \in DOMAIN array'
    <3>1. CASE u = t
      BY <1>5, <2>3, <3>1
    <3>2. CASE u # t
      <4>1. x \in Own(u) /\ x \notin Own(t)
        BY <1>2, <2>3, <3>2
      <4>2. x \in DOMAIN array
        BY <1>1, <4>1
      <4> QED BY <1>5, <4>1, <4>2
    <3> QED BY <3>1, <3>2
  <2> QED BY <2>1, <2>2, <2>3
<1> QED BY <1>6 DEF New

\* A step of one task keeps the types if it keeps those of that task.
LEMMA QuietTypes ==
  ASSUME ControlInv, AreasOK, NEW t \in DOMAIN pc, DOMAIN pc' = DOMAIN pc,
         DOMAIN rc' = DOMAIN rc, DOMAIN frame' = DOMAIN frame, DOMAIN base' = DOMAIN base,
         DOMAIN top' = DOMAIN top, until' = until, area' = area,
         \A u \in DOMAIN pc \ {t} :
           /\ pc'[u] = pc[u] /\ rc'[u] = rc[u] /\ base'[u] = base[u] /\ top'[u] = top[u]
           /\ frame'[u] = frame[u]
           /\ pc[u] # "done" => area[u] \in DOMAIN tmem',
         \A a \in DOMAIN tmem' :
           /\ a \in DOMAIN tmem /\ DOMAIN tmem'[a] = DOMAIN NoMemory
           /\ tmem[a].starting \in Level => tmem'[a].starting \in Level,
         TaskOK(t)',
         DOMAIN array' = (DOMAIN array \ {<<t, l>> : l \in DOMAIN frame[t]})
                           \cup {<<t, l>> : l \in DOMAIN frame'[t]},
         started' \in [Iterations -> Nat]
  PROVE  TypeOK'
<1>1. TypeOK
  BY DEF ControlInv
<1>2. ASSUME NEW u \in DOMAIN pc PROVE TaskOK(u)'
  <2>1. CASE u = t
    BY <2>1
  <2>2. CASE u # t
    <3>1. TaskOK(u)
      BY <1>1 DEF TypeOK
    <3> QED BY <2>2, <3>1 DEF TaskOK
  <2> QED BY <2>1, <2>2
<1>3. DOMAIN frame'[t] \subseteq Level
  BY LevelFacts DEF TaskOK
<1>4. DOMAIN array' = {<<Root, -1>>} \cup
                    UNION {{<<u, l>> : l \in DOMAIN frame'[u]} : u \in DOMAIN pc'}
  BY <1>1, <1>3, ArrayDomain
<1> QED BY <1>1, <1>2, <1>4 DEF TypeOK

\* What the invariant says of a task that can take a step.
LEMMA RunningFacts ==
  ASSUME ControlInv, NEW t \in DOMAIN pc, pc[t] # "done"
  PROVE  /\ TaskOK(t) /\ area[t] \in DOMAIN cxt
         /\ DOMAIN tmem = DOMAIN cxt /\ DOMAIN unpolled = DOMAIN cxt
         /\ DOMAIN rc = DOMAIN pc /\ DOMAIN area = DOMAIN pc /\ DOMAIN frame = DOMAIN pc
         /\ DOMAIN base = DOMAIN pc /\ DOMAIN top = DOMAIN pc /\ DOMAIN until = DOMAIN pc
         /\ \A a \in DOMAIN tmem : DOMAIN tmem[a] = {"starting", "chunksize", "remaining"}
         /\ started \in [Iterations -> Nat]
         /\ \A u \in DOMAIN pc : pc[u] # "done" => area[u] \in DOMAIN cxt
  BY DEF ControlInv, TypeOK, AreasOK, NoMemory

\* A step of one task that neither forks nor joins keeps the invariant if it keeps
\* what is said of that task.
LEMMA QuietStep ==
  ASSUME ControlInv, NEW t \in DOMAIN pc, pc[t] \notin {"join", "done"},
         NEW x, x # "join", pc' = [pc EXCEPT ![t] = x],
         area' = area, until' = until, DOMAIN cxt' = DOMAIN cxt,
         DOMAIN tmem' = DOMAIN tmem, DOMAIN unpolled' = DOMAIN unpolled,
         DOMAIN rc' = DOMAIN rc, DOMAIN frame' = DOMAIN frame, DOMAIN base' = DOMAIN base,
         DOMAIN top' = DOMAIN top,
         \A u \in DOMAIN pc \ {t} :
           /\ rc'[u] = rc[u] /\ base'[u] = base[u] /\ top'[u] = top[u]
           /\ frame'[u] = frame[u],
         \A a \in DOMAIN tmem :
           /\ DOMAIN tmem'[a] = DOMAIN tmem[a]
           /\ tmem[a].starting \in Level => tmem'[a].starting \in Level,
         TaskOK(t)',
         DOMAIN array' = (DOMAIN array \ {<<t, l>> : l \in DOMAIN frame[t]})
                           \cup {<<t, l>> : l \in DOMAIN frame'[t]},
         started' \in [Iterations -> Nat]
  PROVE  ControlInv'
<1>1. FamiliesOK' /\ AreasOK'
  BY QuietAreas
<1>2. \A a \in DOMAIN tmem' :
           /\ a \in DOMAIN tmem /\ DOMAIN tmem'[a] = DOMAIN NoMemory
           /\ tmem[a].starting \in Level => tmem'[a].starting \in Level
  BY DEF ControlInv, TypeOK
<1>3. \A u \in DOMAIN pc : pc[u] # "done" => area[u] \in DOMAIN tmem'
  BY RunningFacts
<1>4. AreasOK
  BY DEF ControlInv
<1>5. \A u \in DOMAIN pc \ {t} :
           /\ pc'[u] = pc[u] /\ rc'[u] = rc[u] /\ base'[u] = base[u] /\ top'[u] = top[u]
           /\ frame'[u] = frame[u]
           /\ pc[u] # "done" => area[u] \in DOMAIN tmem'
  BY <1>3
<1>6. DOMAIN pc' = DOMAIN pc
  OBVIOUS
<1>7. TypeOK'
  BY <1>2, <1>4, <1>5, <1>6, QuietTypes
<1> QED BY <1>1, <1>7 DEF ControlInv

\* Arrays stay if the frames of the task do.
LEMMA ArraysStay ==
  ASSUME ControlInv, NEW t \in DOMAIN pc, DOMAIN frame'[t] = DOMAIN frame[t]
  PROVE  DOMAIN array = (DOMAIN array \ {<<t, l>> : l \in DOMAIN frame[t]})
                           \cup {<<t, l>> : l \in DOMAIN frame'[t]}
  BY DEF ControlInv, TypeOK

LEMMA StartStep ==
  ASSUME ControlInv, NEW t \in DOMAIN pc, Start(t)
  PROVE  ControlInv'
<1>1. pc[t] = "start" /\ pc' = [pc EXCEPT ![t] = "enter"]
  BY DEF Start, At
<1>2. PICK size \in ChunkSizes : tmem' = [tmem EXCEPT ![area[t]] =
         [starting |-> StartingLevel(t), chunksize |-> size, remaining |-> size]]
  BY DEF Start
<1>3. /\ DOMAIN cxt' = DOMAIN cxt /\ DOMAIN tmem' = DOMAIN tmem
      /\ DOMAIN unpolled' = DOMAIN unpolled
  BY <1>2 DEF Start
<1>4. /\ rc' = rc /\ base' = base /\ top' = top /\ until' = until /\ area' = area
      /\ frame' = frame /\ array' = array /\ started' = started
  BY DEF Start
<1>5. tmem'[area[t]].starting = until[t] /\ until[t] \in Level
  BY <1>1, <1>2, RunningFacts DEF StartingLevel, TaskOK
<1>6. TaskOK(t)'
  BY <1>1, <1>4, <1>5, RunningFacts DEF TaskOK, Labels
<1>7. \A a \in DOMAIN tmem : /\ DOMAIN tmem'[a] = DOMAIN tmem[a]
                             /\ tmem[a].starting \in Level => tmem'[a].starting \in Level
  BY <1>1, <1>2, <1>5, RunningFacts
<1> QED BY <1>1, <1>3, <1>4, <1>6, <1>7, ArraysStay, RunningFacts, QuietStep

LEMMA EnterStep ==
  ASSUME ControlInv, NEW t \in DOMAIN pc, Enter(t)
  PROVE  ControlInv'
<1> DEFINE l == top[t]
<1>1. pc[t] = "enter" /\ pc' = [pc EXCEPT ![t] = "header"]
  BY DEF Enter, At
<1>2. /\ rc' = rc /\ base' = base /\ top' = top /\ until' = until /\ area' = area
      /\ tmem' = tmem /\ unpolled' = unpolled /\ started' = started
      /\ DOMAIN cxt' = DOMAIN cxt /\ DOMAIN frame' = DOMAIN frame
      /\ \A u \in DOMAIN pc \ {t} : frame'[u] = frame[u]
  BY RunningFacts DEF Enter
<1>3. DOMAIN frame'[t] = DOMAIN frame[t] \cup {l}
  BY <1>1, RunningFacts DEF Enter, With
<1>4. DOMAIN frame[t] = base[t] .. l - 1 /\ l \in Level /\ base[t] \in Level /\ base[t] <= l
  BY <1>1, RunningFacts, LevelFacts DEF TaskOK
<1>5. DOMAIN frame'[t] = base[t] .. l
  BY <1>3, <1>4, LevelFacts
<1>6. TaskOK(t)'
  BY <1>1, <1>2, <1>5, RunningFacts DEF TaskOK, Labels
<1>7. DOMAIN array' = DOMAIN array \cup {<<t, l>>}
  BY DEF Enter, With
<1>8. DOMAIN array' = (DOMAIN array \ {<<t, k>> : k \in DOMAIN frame[t]})
                           \cup {<<t, k>> : k \in DOMAIN frame'[t]}
  <2>1. \A k \in DOMAIN frame[t] : <<t, k>> \in DOMAIN array
    BY DEF ControlInv, TypeOK
  <2> QED BY <1>3, <1>7, <2>1
<1> QED BY <1>1, <1>2, <1>6, <1>8, RunningFacts, QuietStep

LEMMA LeaveLoopStep ==
  ASSUME ControlInv, NEW t \in DOMAIN pc, LeaveLoop(t)
  PROVE  ControlInv'
<1>1. pc[t] = "header" /\ pc' = [pc EXCEPT ![t] = "exit"] /\ rc' = [rc EXCEPT ![t] = 0]
  BY DEF LeaveLoop, At
<1>2. /\ base' = base /\ top' = top /\ until' = until /\ area' = area
      /\ tmem' = tmem /\ unpolled' = unpolled /\ started' = started
      /\ cxt' = cxt /\ frame' = frame /\ array' = array
  BY DEF LeaveLoop
<1>3. TaskOK(t)'
  BY <1>1, <1>2, RunningFacts, LevelFacts DEF TaskOK, Labels
<1> QED BY <1>1, <1>2, <1>3, ArraysStay, RunningFacts, QuietStep

LEMMA CallNestedStep ==
  ASSUME ControlInv, NEW t \in DOMAIN pc, CallNested(t)
  PROVE  ControlInv'
<1>1. pc[t] = "header" /\ pc' = [pc EXCEPT ![t] = "enter"] /\ top[t] < Leaf
      /\ top' = [top EXCEPT ![t] = top[t] + 1]
  BY DEF CallNested, At
<1>2. /\ rc' = rc /\ base' = base /\ until' = until /\ area' = area
      /\ tmem' = tmem /\ unpolled' = unpolled /\ frame' = frame
      /\ DOMAIN cxt' = DOMAIN cxt /\ DOMAIN array' = DOMAIN array
  BY DEF CallNested
<1>3. started' \in [Iterations -> Nat]
  <2>1. started \in [Iterations -> Nat]
    BY <1>1, RunningFacts
  <2>2. PICK h : started' = [started EXCEPT ![h] = @ + 1]
    BY DEF CallNested
  <2>3. ASSUME NEW c \in Iterations PROVE started'[c] \in Nat
    <3>1. started[c] \in Nat
      BY <2>1
    <3>2. started'[c] = IF c = h THEN started[c] + 1 ELSE started[c]
      BY <2>1, <2>2
    <3> QED BY <3>1, <3>2
  <2>4. started' = [c \in Iterations |-> started'[c]]
    BY <2>1, <2>2
  <2> QED BY <2>3, <2>4
<1>4. TaskOK(t)'
  <2>1. TaskOK(t) /\ base[t] \in Int /\ top[t] \in Int /\ base[t] <= top[t]
    BY <1>1, RunningFacts, LevelFacts DEF TaskOK
  <2>2. DOMAIN frame'[t] = base'[t] .. top'[t] - 1
    BY <1>1, <1>2, <2>1, RunningFacts DEF TaskOK
  <2>3. top'[t] \in base'[t] .. Leaf
    BY <1>1, <1>2, <2>1, RunningFacts, LevelFacts DEF TaskOK
  <2> QED BY <1>1, <1>2, <2>1, <2>2, <2>3, RunningFacts DEF TaskOK, Labels
<1> QED BY <1>1, <1>2, <1>3, <1>4, ArraysStay, RunningFacts, QuietStep

LEMMA RunChunkStep ==
  ASSUME ControlInv, NEW t \in DOMAIN pc, RunChunk(t)
  PROVE  ControlInv'
<1> DEFINE m    == tmem[area[t]]
           r    == Reg(t)
           high == IF r.iv + m.remaining < r.max THEN r.iv + m.remaining ELSE r.max
           x    == IF high - r.iv = m.remaining THEN "poll" ELSE "exit"
<1>1. pc[t] = "header" /\ pc' = [pc EXCEPT ![t] = x] /\ rc' = [rc EXCEPT ![t] = 0]
      /\ tmem' = [tmem EXCEPT ![area[t]].remaining = Allowance(m, high - r.iv)]
  BY DEF RunChunk, At
<1>2. x \in {"poll", "exit"}
  OBVIOUS
<1>3. /\ base' = base /\ top' = top /\ until' = until /\ area' = area
      /\ cxt' = cxt /\ array' = array /\ DOMAIN unpolled' = DOMAIN unpolled
      /\ DOMAIN frame' = DOMAIN frame /\ DOMAIN frame'[t] = DOMAIN frame[t]
      /\ \A u \in DOMAIN pc \ {t} : frame'[u] = frame[u]
  BY RunningFacts DEF RunChunk
<1>4. started' \in [Iterations -> Nat]
  <2>1. started \in [Iterations -> Nat]
    BY <1>1, RunningFacts
  <2> QED BY <2>1 DEF RunChunk
<1> HIDE DEF x, high, r, m
<1>5. \A a \in DOMAIN tmem : /\ DOMAIN tmem'[a] = DOMAIN tmem[a]
                             /\ tmem'[a].starting = tmem[a].starting
  BY <1>1, RunningFacts
<1>6. TaskOK(t)'
  BY <1>1, <1>2, <1>3, <1>5, RunningFacts, LevelFacts DEF TaskOK, Labels
<1> QED BY <1>1, <1>2, <1>3, <1>4, <1>5, <1>6, ArraysStay, RunningFacts, QuietStep

LEMMA NoHeartbeatStep ==
  ASSUME ControlInv, NEW t \in DOMAIN pc, NoHeartbeat(t)
  PROVE  ControlInv'
<1>1. pc[t] = "poll" /\ pc' = [pc EXCEPT ![t] = "header"]
  BY DEF NoHeartbeat, At, Latch
<1>2. /\ rc' = rc /\ base' = base /\ top' = top /\ until' = until /\ area' = area
      /\ cxt' = cxt /\ array' = array /\ DOMAIN unpolled' = DOMAIN unpolled
      /\ tmem' = tmem /\ started' = started
      /\ DOMAIN frame' = DOMAIN frame /\ DOMAIN frame'[t] = DOMAIN frame[t]
      /\ \A u \in DOMAIN pc \ {t} : frame'[u] = frame[u]
  BY <1>1, RunningFacts DEF NoHeartbeat, Latch
<1>3. TaskOK(t)'
  BY <1>1, <1>2, RunningFacts DEF TaskOK, Labels
<1> QED BY <1>1, <1>2, <1>3, ArraysStay, RunningFacts, QuietStep

LEMMA HeartbeatIgnoredStep ==
  ASSUME ControlInv, NEW t \in DOMAIN pc, HeartbeatIgnored(t)
  PROVE  ControlInv'
<1>1. pc[t] = "poll" /\ pc' = [pc EXCEPT ![t] = "header"]
  BY DEF HeartbeatIgnored, At, Latch
<1>2. /\ rc' = rc /\ base' = base /\ top' = top /\ until' = until /\ area' = area
      /\ DOMAIN cxt' = DOMAIN cxt /\ array' = array /\ DOMAIN unpolled' = DOMAIN unpolled
      /\ tmem' = tmem /\ started' = started
      /\ DOMAIN frame' = DOMAIN frame /\ DOMAIN frame'[t] = DOMAIN frame[t]
      /\ \A u \in DOMAIN pc \ {t} : frame'[u] = frame[u]
  BY <1>1, RunningFacts DEF HeartbeatIgnored, Latch
<1>3. TaskOK(t)'
  BY <1>1, <1>2, RunningFacts DEF TaskOK, Labels
<1> QED BY <1>1, <1>2, <1>3, ArraysStay, RunningFacts, QuietStep

LEMMA BackStep ==
  ASSUME ControlInv, NEW t \in DOMAIN pc, Back(t)
  PROVE  ControlInv'
<1>1. PICK x \in {"exit", "header"} : pc' = [pc EXCEPT ![t] = x] /\ (x = "exit" => rc[t] > 0)
  BY DEF Back
<1>2. pc[t] = "back"
  BY DEF Back, At
<1>3. /\ rc' = rc /\ base' = base /\ top' = top /\ until' = until /\ area' = area
      /\ cxt' = cxt /\ array' = array /\ unpolled' = unpolled
      /\ tmem' = tmem /\ started' = started
  BY DEF Back
<1>4. /\ DOMAIN frame' = DOMAIN frame /\ DOMAIN frame'[t] = DOMAIN frame[t]
      /\ \A u \in DOMAIN pc \ {t} : frame'[u] = frame[u]
  <2>1. CASE frame' = frame
    BY <2>1
  <2>2. CASE frame' = [frame EXCEPT ![t][top[t]].iv = @ + 1]
    BY <1>2, <2>2, RunningFacts
  <2> QED BY <2>1, <2>2 DEF Back
<1>5. TaskOK(t)'
  <2>1. rc'[t] \in -1 .. Leaf + 1 /\ (x = "exit" => rc'[t] >= 0)
    BY <1>1, <1>2, <1>3, RunningFacts, LevelFacts DEF TaskOK
  <2> QED BY <1>1, <1>2, <1>3, <1>4, <2>1, RunningFacts DEF TaskOK, Labels
<1> QED BY <1>1, <1>2, <1>3, <1>4, <1>5, ArraysStay, RunningFacts, QuietStep

\* The levels of a task, as integers.
LEMMA LevelsOf ==
  ASSUME ControlInv, NEW t \in DOMAIN pc, pc[t] # "done"
  PROVE  /\ until[t] \in Int /\ base[t] \in Int /\ top[t] \in Int /\ rc[t] \in Int
         /\ 0 <= until[t] /\ until[t] <= base[t] /\ base[t] <= top[t] /\ top[t] <= Leaf
         /\ -1 <= rc[t] /\ rc[t] <= Leaf + 1 /\ (pc[t] \in {"join", "exit"} => rc[t] >= 0)
  BY RunningFacts, LevelFacts DEF TaskOK

\* The frame and the array of a slice go together.
LEMMA ExitFrames ==
  ASSUME ControlInv, NEW t \in DOMAIN pc, Exit(t)
  PROVE  /\ pc[t] = "exit" /\ top[t] \in base[t] .. Leaf /\ base[t] \in Int
         /\ until' = until /\ area' = area /\ tmem' = tmem /\ unpolled' = unpolled
         /\ started' = started
         /\ DOMAIN frame' = DOMAIN frame
         /\ \A u \in DOMAIN pc \ {t} : frame'[u] = frame[u]
         /\ DOMAIN frame'[t] = base[t] .. top[t] - 1
         /\ DOMAIN array' = (DOMAIN array \ {<<t, l>> : l \in DOMAIN frame[t]})
                           \cup {<<t, l>> : l \in DOMAIN frame'[t]}
<1> DEFINE l == top[t]
<1>1. pc[t] = "exit"
  BY DEF Exit, At
<1>2. /\ until' = until /\ area' = area /\ tmem' = tmem /\ unpolled' = unpolled
      /\ started' = started
  BY DEF Exit
<1>3. top[t] \in base[t] .. Leaf /\ base[t] \in Int /\ DOMAIN frame[t] = base[t] .. top[t]
  BY <1>1, RunningFacts, LevelFacts DEF TaskOK
<1>4. /\ DOMAIN frame' = DOMAIN frame
      /\ \A u \in DOMAIN pc \ {t} : frame'[u] = frame[u]
      /\ DOMAIN frame'[t] = DOMAIN frame[t] \ {l}
  BY <1>1, RunningFacts DEF Exit
<1>5. DOMAIN frame'[t] = base[t] .. top[t] - 1
  BY <1>3, <1>4, LevelFacts
<1>6. DOMAIN array' = DOMAIN array \ {<<t, l>>}
  BY DEF Exit
<1>7. \A k \in DOMAIN frame[t] : <<t, k>> \in DOMAIN array
  BY DEF ControlInv, TypeOK
<1>8. DOMAIN array' = (DOMAIN array \ {<<t, k>> : k \in DOMAIN frame[t]})
                           \cup {<<t, k>> : k \in DOMAIN frame'[t]}
  BY <1>3, <1>4, <1>6, <1>7
<1> QED BY <1>1, <1>2, <1>3, <1>4, <1>5, <1>8

LEMMA ReturnToCallerStep ==
  ASSUME ControlInv, NEW t \in DOMAIN pc, ReturnToCaller(t)
  PROVE  ControlInv'
<1>1. Exit(t)
  BY DEF ReturnToCaller
<1>2. /\ pc' = [pc EXCEPT ![t] = "back"] /\ top' = [top EXCEPT ![t] = @ - 1]
      /\ rc' = [rc EXCEPT ![t] = @ - 1] /\ base' = base /\ top[t] > base[t]
      /\ DOMAIN cxt' = DOMAIN cxt
  BY DEF ReturnToCaller
<1>3. TaskOK(t)'
  <2>1. rc'[t] \in -1 .. Leaf + 1 /\ top'[t] \in base'[t] .. Leaf
    <3>1. pc[t] = "exit" /\ t \in DOMAIN rc /\ t \in DOMAIN top
      BY <1>1, ExitFrames, RunningFacts
    <3>2. rc'[t] = rc[t] - 1 /\ top'[t] = top[t] - 1 /\ base'[t] = base[t]
      BY <1>2, <3>1
    <3> QED BY <1>2, <3>1, <3>2, LevelsOf, LevelFacts
  <2>2. DOMAIN frame'[t] = base'[t] .. top'[t]
    BY <1>1, <1>2, ExitFrames, RunningFacts
  <2> QED BY <1>1, <1>2, <2>1, <2>2, ExitFrames, RunningFacts DEF TaskOK, Labels
<1> QED BY <1>1, <1>2, <1>3, ExitFrames, RunningFacts, QuietStep

LEMMA ReturnToLeftoverStep ==
  ASSUME ControlInv, NEW t \in DOMAIN pc, ReturnToLeftover(t)
  PROVE  ControlInv'
<1>1. Exit(t)
  BY DEF ReturnToLeftover
<1>2. /\ pc' = [pc EXCEPT ![t] = "enter"] /\ top' = [top EXCEPT ![t] = base[t] - 1]
      /\ base' = [base EXCEPT ![t] = base[t] - 1] /\ rc' = rc
      /\ top[t] = base[t] /\ base[t] > until[t]
      /\ DOMAIN cxt' = DOMAIN cxt
  BY DEF ReturnToLeftover
<1>3. TaskOK(t)'
  <2>1. /\ until[t] \in Level /\ base'[t] \in until[t] .. Leaf /\ top'[t] = base'[t]
        /\ base'[t] \in Int /\ base'[t] <= Leaf
    <3>1. pc[t] = "exit" /\ t \in DOMAIN base /\ t \in DOMAIN top
      BY <1>1, ExitFrames, RunningFacts
    <3>2. top'[t] = base[t] - 1 /\ base'[t] = base[t] - 1
      BY <1>2, <3>1
    <3> QED BY <1>2, <3>1, <3>2, LevelsOf, LevelFacts
  <2>2. DOMAIN frame'[t] = base'[t] .. top'[t] - 1
    <3>1. DOMAIN frame'[t] = base[t] .. base[t] - 1 /\ base[t] \in Int
      BY <1>1, <1>2, ExitFrames
    <3> QED BY <2>1, <3>1
  <2>3. top'[t] \in base'[t] .. Leaf
    BY <2>1, LevelFacts
  <2> QED BY <1>1, <1>2, <2>1, <2>2, <2>3, ExitFrames, RunningFacts DEF TaskOK, Labels
<1> QED BY <1>1, <1>2, <1>3, ExitFrames, RunningFacts, QuietStep

LEMMA ReturnFromTaskStep ==
  ASSUME ControlInv, NEW t \in DOMAIN pc, ReturnFromTask(t)
  PROVE  ControlInv'
<1>1. Exit(t)
  BY DEF ReturnFromTask
<1>2. /\ pc' = [pc EXCEPT ![t] = "done"] /\ top' = top /\ base' = base /\ rc' = rc
      /\ top[t] = base[t] /\ DOMAIN cxt' = DOMAIN cxt
  BY DEF ReturnFromTask
<1>3. TaskOK(t)'
  <2>1. DOMAIN frame'[t] = {}
    <3>1. DOMAIN frame'[t] = base[t] .. base[t] - 1 /\ base[t] \in Int
      BY <1>1, <1>2, ExitFrames
    <3> QED BY <3>1
  <2> QED BY <1>1, <1>2, <2>1, ExitFrames, RunningFacts DEF TaskOK, Labels
<1> QED BY <1>1, <1>2, <1>3, ExitFrames, RunningFacts, QuietStep

LEMMA JoinStep ==
  ASSUME ControlInv, NEW t \in DOMAIN pc, Join(t)
  PROVE  ControlInv'
<1>1. /\ pc[t] = "join" /\ pc[Append(t, 0)] = "done" /\ pc[Append(t, 1)] = "done"
      /\ rc' = rc /\ base' = base /\ top' = top /\ until' = until /\ area' = area
      /\ array' = array /\ started' = started
  BY DEF Join, At
<1>2. PICK x \in {"exit", "header"} : pc' = [pc EXCEPT ![t] = x]
  BY DEF Join
<1>3. /\ DOMAIN cxt' = DOMAIN cxt \ {Append(t, 1)}
      /\ DOMAIN tmem' = DOMAIN tmem \ {Append(t, 1)}
      /\ DOMAIN unpolled' = DOMAIN unpolled \ {Append(t, 1)}
      /\ \A a \in DOMAIN tmem' : tmem'[a] = tmem[a]
  BY DEF Join
<1>4. FamiliesOK' /\ AreasOK'
  BY <1>1, <1>2, <1>3, JoinAreas
<1>5. /\ DOMAIN frame' = DOMAIN frame /\ DOMAIN frame'[t] = DOMAIN frame[t]
      /\ \A u \in DOMAIN pc \ {t} : frame'[u] = frame[u]
  <2>1. CASE frame' = frame
    BY <2>1
  <2>2. CASE frame' = [frame EXCEPT ![t][Leaf].iv = @ + Reg(t).chunk]
    BY <1>1, <2>2, RunningFacts
  <2> QED BY <2>1, <2>2 DEF Join
<1>6. \A u \in DOMAIN pc : pc'[u] # "done" => area[u] \in DOMAIN tmem'
  BY <1>1, <1>2, <1>4 DEF AreasOK
<1>7. \A u \in DOMAIN pc \ {t} : pc'[u] = pc[u]
  BY <1>2
<1>8. pc'[t] = x
  BY <1>2
<1>9. TaskOK(t)'
  <2>1. tmem'[area[t]].starting \in Level
    <3>1. area[t] \in DOMAIN tmem' /\ TaskOK(t)
      BY <1>1, <1>6, <1>8, RunningFacts
    <3> QED BY <1>1, <1>3, <3>1 DEF TaskOK
  <2> QED BY <1>1, <1>5, <1>8, <2>1, RunningFacts DEF TaskOK, Labels
<1>10. TypeOK'
  <2>1. \A a \in DOMAIN tmem' :
           /\ a \in DOMAIN tmem /\ DOMAIN tmem'[a] = DOMAIN NoMemory
           /\ tmem[a].starting \in Level => tmem'[a].starting \in Level
    BY <1>3 DEF ControlInv, TypeOK
  <2>2. \A u \in DOMAIN pc \ {t} :
           /\ pc'[u] = pc[u] /\ rc'[u] = rc[u] /\ base'[u] = base[u] /\ top'[u] = top[u]
           /\ frame'[u] = frame[u]
           /\ pc[u] # "done" => area[u] \in DOMAIN tmem'
    BY <1>1, <1>5, <1>6, <1>7
  <2>3. AreasOK /\ started' \in [Iterations -> Nat] /\ DOMAIN pc' = DOMAIN pc
    BY <1>1, <1>2, RunningFacts DEF ControlInv
  <2>4. DOMAIN array' = (DOMAIN array \ {<<t, l>> : l \in DOMAIN frame[t]})
                           \cup {<<t, l>> : l \in DOMAIN frame'[t]}
    BY <1>1, <1>5, ArraysStay
  <2> QED BY <1>1, <1>5, <1>9, <2>1, <2>2, <2>3, <2>4, QuietTypes
<1> QED BY <1>4, <1>10 DEF ControlInv

\* What a fork does to every part of the state but the contexts.
Spawned(t, s, first, second) ==
  /\ DOMAIN pc' = DOMAIN pc \cup {first, second}
  /\ pc'[t] = "join" /\ pc'[first] = "start" /\ pc'[second] = "start"
  /\ \A u \in DOMAIN pc \ {first, second} : u # t => pc'[u] = pc[u]
  /\ DOMAIN rc' = DOMAIN pc \cup {first, second}
  /\ rc'[t] = ReturnCode(s) /\ rc'[first] = 0 /\ rc'[second] = 0
  /\ \A u \in DOMAIN pc \ {first, second} : u # t => rc'[u] = rc[u]
  /\ DOMAIN area' = DOMAIN pc \cup {first, second}
  /\ area'[first] = area[t] /\ area'[second] = second
  /\ \A u \in DOMAIN pc \ {first, second} : area'[u] = area[u]
  /\ DOMAIN base' = DOMAIN pc \cup {first, second}
  /\ base'[first] = Leaf /\ base'[second] = s
  /\ \A u \in DOMAIN pc \ {first, second} : base'[u] = base[u]
  /\ DOMAIN top' = DOMAIN pc \cup {first, second}
  /\ top'[first] = Leaf /\ top'[second] = s
  /\ \A u \in DOMAIN pc \ {first, second} : top'[u] = top[u]
  /\ DOMAIN until' = DOMAIN pc \cup {first, second}
  /\ until'[first] = s /\ until'[second] = s
  /\ \A u \in DOMAIN pc \ {first, second} : until'[u] = until[u]
  /\ DOMAIN frame' = DOMAIN pc \cup {first, second}
  /\ frame'[first] = <<>> /\ frame'[second] = <<>>
  /\ \A u \in DOMAIN pc \ {first, second} : frame'[u] = frame[u]
  /\ array' = array
  /\ DOMAIN cxt' = DOMAIN cxt \cup {second}
  /\ DOMAIN tmem' = DOMAIN tmem \cup {second}
  /\ DOMAIN unpolled' = DOMAIN unpolled \cup {second}
  /\ tmem'[second] = NoMemory
  /\ \A a \in DOMAIN tmem \ {second} : tmem'[a] = tmem[a]
  /\ \A a \in DOMAIN unpolled \ {second} : unpolled'[a] = unpolled[a]

LEMMA ForkEffects ==
  ASSUME ControlInv, NEW t \in DOMAIN pc, pc[t] = "poll", NEW s, Fork(t, s),
         NEW first, first = Append(t, 0), NEW second, second = Append(t, 1)
  PROVE  Spawned(t, s, first, second)
<1> DEFINE Others == DOMAIN pc \ {first, second}
<1>1. first # second /\ first # t /\ second # t
  BY AreaOf, Branches, BranchesApart
<1>d. /\ DOMAIN rc = DOMAIN pc /\ DOMAIN area = DOMAIN pc /\ DOMAIN frame = DOMAIN pc
      /\ DOMAIN base = DOMAIN pc /\ DOMAIN top = DOMAIN pc /\ DOMAIN until = DOMAIN pc
  BY RunningFacts
<1>f. /\ pc' = With(With([pc EXCEPT ![t] = "join"], second, "start"), first, "start")
      /\ rc' = With(With([rc EXCEPT ![t] = ReturnCode(s)], second, 0), first, 0)
      /\ area' = With(With(area, second, second), first, area[t])
      /\ base' = With(With(base, second, s), first, Leaf)
      /\ top' = With(With(top, second, s), first, Leaf)
      /\ until' = With(With(until, second, s), first, s)
      /\ frame' = With(With(frame, second, <<>>), first, <<>>)
  BY DEF Fork, SecondArea
<1>x. /\ DOMAIN cxt' = DOMAIN cxt \cup {second}
      /\ DOMAIN tmem' = DOMAIN tmem \cup {second}
      /\ DOMAIN unpolled' = DOMAIN unpolled \cup {second}
      /\ tmem'[second] = NoMemory
      /\ \A a \in DOMAIN tmem \ {second} : tmem'[a] = tmem[a]
      /\ \A a \in DOMAIN unpolled \ {second} : unpolled'[a] = unpolled[a]
      /\ array' = array
  BY DEF Fork, SecondArea, With
<1>3. /\ DOMAIN pc' = DOMAIN pc \cup {first, second}
      /\ pc'[t] = "join" /\ pc'[first] = "start" /\ pc'[second] = "start"
      /\ \A u \in Others : u # t => pc'[u] = pc[u]
  <2> DEFINE f == [pc EXCEPT ![t] = "join"]
  <2>1. DOMAIN f = DOMAIN pc /\ f[t] = "join" /\ \A u \in DOMAIN pc : u # t => f[u] = pc[u]
    OBVIOUS
  <2>2. pc' = With(With(f, second, "start"), first, "start")
    BY <1>f
  <2> HIDE DEF f
  <2> QED BY <1>1, <2>1, <2>2 DEF With
<1>4. /\ DOMAIN rc' = DOMAIN pc \cup {first, second}
      /\ rc'[t] = ReturnCode(s) /\ rc'[first] = 0 /\ rc'[second] = 0
      /\ \A u \in Others : u # t => rc'[u] = rc[u]
  <2> DEFINE f == [rc EXCEPT ![t] = ReturnCode(s)]
  <2>1. DOMAIN f = DOMAIN pc /\ f[t] = ReturnCode(s) /\ \A u \in DOMAIN pc : u # t => f[u] = rc[u]
    BY <1>d
  <2>2. rc' = With(With(f, second, 0), first, 0)
    BY <1>f
  <2> HIDE DEF f
  <2> QED BY <1>1, <2>1, <2>2 DEF With
<1>5. /\ DOMAIN area' = DOMAIN pc \cup {first, second}
      /\ area'[first] = area[t] /\ area'[second] = second
      /\ \A u \in Others : area'[u] = area[u]
  BY <1>1, <1>d, <1>f DEF With
<1>6. /\ DOMAIN base' = DOMAIN pc \cup {first, second}
      /\ base'[first] = Leaf /\ base'[second] = s
      /\ \A u \in Others : base'[u] = base[u]
  BY <1>1, <1>d, <1>f DEF With
<1>7. /\ DOMAIN top' = DOMAIN pc \cup {first, second}
      /\ top'[first] = Leaf /\ top'[second] = s
      /\ \A u \in Others : top'[u] = top[u]
  BY <1>1, <1>d, <1>f DEF With
<1>8. /\ DOMAIN until' = DOMAIN pc \cup {first, second}
      /\ until'[first] = s /\ until'[second] = s
      /\ \A u \in Others : until'[u] = until[u]
  BY <1>1, <1>d, <1>f DEF With
<1>9. /\ DOMAIN frame' = DOMAIN pc \cup {first, second}
      /\ frame'[first] = <<>> /\ frame'[second] = <<>>
      /\ \A u \in Others : frame'[u] = frame[u]
  BY <1>1, <1>d, <1>f DEF With
<1> HIDE DEF Others
<1> QED BY <1>3, <1>4, <1>5, <1>6, <1>7, <1>8, <1>9, <1>x DEF Others, Spawned

LEMMA ForkStep ==
  ASSUME ControlInv, NEW t \in DOMAIN pc, pc[t] = "poll",
         NEW s \in Splittable(Polled(t), tmem[area[t]].starting), Fork(t, s)
  PROVE  ControlInv'
<1> DEFINE first  == Append(t, 0)
           second == Append(t, 1)
           Others == DOMAIN pc \ {first, second}
<1>1. /\ t \in Paths /\ first \in Paths /\ second \in Paths /\ first # second
      /\ first # t /\ second # t
  BY AreaOf, Branches, BranchesApart
<1>2. s \in Level
  <2>1. tmem[area[t]].starting \in Level
    BY RunningFacts DEF TaskOK
  <2> QED BY <2>1, LevelFacts DEF Splittable
<1>k. (first \in DOMAIN pc => pc[first] = "done") /\ (second \in DOMAIN pc => pc[second] = "done")
  <2>1. \A k \in KidsOf(t) \cap DOMAIN pc : pc[k] = "done"
    BY FamilyFacts
  <2> QED BY <2>1 DEF KidsOf
<1>i. \A u \in DOMAIN pc : area[u] = second => pc[u] = "done"
  BY <1>1, <1>k, SecondAreaIdle
<1>a. first = Append(t, 0) /\ second = Append(t, 1)
  OBVIOUS
<1> HIDE DEF first, second
<1>e. Spawned(t, s, first, second)
  BY <1>a, ForkEffects
<1>x. /\ DOMAIN cxt' = DOMAIN cxt \cup {second}
      /\ DOMAIN tmem' = DOMAIN tmem \cup {second}
      /\ DOMAIN unpolled' = DOMAIN unpolled \cup {second}
      /\ tmem'[second] = NoMemory
      /\ \A a \in DOMAIN tmem \ {second} : tmem'[a] = tmem[a]
  BY <1>e DEF Spawned
<1>3. /\ DOMAIN pc' = DOMAIN pc \cup {first, second}
      /\ pc'[t] = "join" /\ pc'[first] = "start" /\ pc'[second] = "start"
      /\ \A u \in Others : u # t => pc'[u] = pc[u]
  BY <1>e DEF Spawned
<1>4. /\ DOMAIN rc' = DOMAIN pc \cup {first, second}
      /\ rc'[t] = ReturnCode(s) /\ rc'[first] = 0 /\ rc'[second] = 0
      /\ \A u \in Others : u # t => rc'[u] = rc[u]
  BY <1>e DEF Spawned
<1>5. /\ DOMAIN area' = DOMAIN pc \cup {first, second}
      /\ area'[first] = area[t] /\ area'[second] = second
      /\ \A u \in Others : area'[u] = area[u]
  BY <1>e DEF Spawned
<1>6. /\ DOMAIN base' = DOMAIN pc \cup {first, second}
      /\ base'[first] = Leaf /\ base'[second] = s
      /\ \A u \in Others : base'[u] = base[u]
  BY <1>e DEF Spawned
<1>7. /\ DOMAIN top' = DOMAIN pc \cup {first, second}
      /\ top'[first] = Leaf /\ top'[second] = s
      /\ \A u \in Others : top'[u] = top[u]
  BY <1>e DEF Spawned
<1>8. /\ DOMAIN until' = DOMAIN pc \cup {first, second}
      /\ until'[first] = s /\ until'[second] = s
      /\ \A u \in Others : until'[u] = until[u]
  BY <1>e DEF Spawned
<1>9. /\ DOMAIN frame' = DOMAIN pc \cup {first, second}
      /\ frame'[first] = <<>> /\ frame'[second] = <<>>
      /\ \A u \in Others : frame'[u] = frame[u]
  BY <1>e DEF Spawned
<1>10. FamiliesOK' /\ AreasOK'
  <2>1. /\ \A u \in DOMAIN pc \ {t, first, second} : pc'[u] = pc[u]
        /\ \A u \in DOMAIN pc \ {first, second} : area'[u] = area[u]
        /\ DOMAIN area' = DOMAIN pc'
    BY <1>3, <1>5
  <2>2. AreasForked(t, first, second)
    BY <1>3, <1>5, <1>x, <2>1 DEF AreasForked
  <2> HIDE DEF Others
  <2> QED BY <1>a, <2>2, ForkAreas
<1>12. \A u \in DOMAIN pc : pc[u] # "done" => u \in Others /\ area[u] # second
  BY <1>k, <1>i
<1>13. t \in Others
  BY <1>1
<1>14. ASSUME NEW u \in Others \ {t} PROVE TaskOK(u)'
  <2>1. TaskOK(u)
    BY DEF ControlInv, TypeOK
  <2>2. pc[u] \notin {"start", "done"} => tmem'[area[u]].starting \in Level
    <3> SUFFICES ASSUME pc[u] \notin {"start", "done"} PROVE tmem'[area[u]].starting \in Level
      OBVIOUS
    <3>1. area[u] \in DOMAIN tmem \ {second}
      BY <1>12, RunningFacts
    <3> QED BY <1>x, <2>1, <3>1 DEF TaskOK
  <2> QED BY <1>3, <1>4, <1>5, <1>6, <1>7, <1>8, <1>9, <2>1, <2>2 DEF TaskOK
<1>15. TaskOK(t)'
  <2>1. TaskOK(t) /\ area[t] \in DOMAIN tmem \ {second}
    BY <1>12, RunningFacts
  <2>2. rc'[t] \in -1 .. Leaf + 1 /\ rc'[t] >= 0
    BY <1>2, <1>4, LevelFacts DEF ReturnCode
  <2> QED BY <1>3, <1>5, <1>6, <1>7, <1>8, <1>9, <1>x, <1>13, <2>1, <2>2 DEF TaskOK, Labels
<1>16. TaskOK(first)'
  <2>1. DOMAIN frame'[first] = Leaf .. Leaf - 1
    BY <1>9, LevelFacts
  <2> QED BY <1>2, <1>3, <1>4, <1>6, <1>7, <1>8, <2>1, LevelFacts DEF TaskOK, Labels
<1>17. TaskOK(second)'
  <2>1. DOMAIN frame'[second] = s .. s - 1
    BY <1>2, <1>9, LevelFacts
  <2> QED BY <1>2, <1>3, <1>4, <1>6, <1>7, <1>8, <2>1, LevelFacts DEF TaskOK, Labels
<1>18. \A a \in DOMAIN tmem' : DOMAIN tmem'[a] = DOMAIN NoMemory
  BY <1>x DEF ControlInv, TypeOK
<1>19. DOMAIN array' = {<<Root, -1>>} \cup
                    UNION {{<<u, l>> : l \in DOMAIN frame'[u]} : u \in DOMAIN pc'}
  <2>1. array' = array
    BY DEF Fork
  <2>2. ASSUME NEW u \in DOMAIN pc PROVE DOMAIN frame'[u] = DOMAIN frame[u]
    <3>1. CASE pc[u] = "done"
      <4>1. TaskOK(u)
        BY DEF ControlInv, TypeOK
      <4>2. DOMAIN frame[u] = {}
        BY <3>1, <4>1 DEF TaskOK
      <4> QED BY <1>9, <4>2
    <3>2. CASE pc[u] # "done"
      BY <1>9, <1>12, <3>2
    <3> QED BY <3>1, <3>2
  <2>3. DOMAIN frame'[first] = {} /\ DOMAIN frame'[second] = {}
    BY <1>9
  <2>4. UNION {{<<u, l>> : l \in DOMAIN frame'[u]} : u \in DOMAIN pc'}
          = UNION {{<<u, l>> : l \in DOMAIN frame[u]} : u \in DOMAIN pc}
    BY <1>3, <2>2, <2>3
  <2> QED BY <2>1, <2>4 DEF ControlInv, TypeOK
<1>20. TypeOK'
  <2>1. DOMAIN pc' \subseteq Paths
    BY <1>1, <1>3, AreaOf
  <2>2. \A u \in DOMAIN pc' : TaskOK(u)'
    BY <1>3, <1>14, <1>15, <1>16, <1>17
  <2>3. started' \in [Iterations -> Nat]
    BY RunningFacts DEF Fork
  <2> QED BY <1>3, <1>4, <1>5, <1>6, <1>7, <1>8, <1>9, <1>18, <1>19, <2>1, <2>2, <2>3 DEF TypeOK, Paths
<1> QED BY <1>10, <1>20 DEF ControlInv

LEMMA InitControl == Init => ControlInv
<1> SUFFICES ASSUME Init PROVE ControlInv
  OBVIOUS
<1>1. /\ DOMAIN pc = {Root} /\ pc[Root] = "start" /\ DOMAIN rc = {Root} /\ rc[Root] = 0
      /\ DOMAIN area = {Root} /\ area[Root] = Root /\ DOMAIN frame = {Root}
      /\ DOMAIN frame[Root] = {}
  BY DEF Init, Only
<1>2. /\ DOMAIN base = {Root} /\ base[Root] = 0 /\ DOMAIN top = {Root} /\ top[Root] = 0
      /\ DOMAIN until = {Root} /\ until[Root] = 0
  BY DEF Init, Only
<1>3. /\ DOMAIN array = {<<Root, -1>>} /\ DOMAIN cxt = {Root} /\ DOMAIN unpolled = {Root}
      /\ DOMAIN tmem = {Root} /\ DOMAIN tmem[Root] = DOMAIN NoMemory
      /\ started \in [Iterations -> Nat]
  BY DEF Init, Only
<1>4. TaskOK(Root)
  <2>1. DOMAIN frame[Root] = base[Root] .. top[Root] - 1
    BY <1>1, <1>2
  <2> QED BY <1>1, <1>2, <2>1, LevelFacts DEF TaskOK, Labels
<1>5. TypeOK
  <2>1. UNION {{<<u, l>> : l \in DOMAIN frame[u]} : u \in DOMAIN pc} = {}
    BY <1>1
  <2> QED BY <1>1, <1>2, <1>3, <1>4, <2>1, RootPath DEF TypeOK, Paths
<1>6. \A t \in DOMAIN pc : Append(t, 0) \notin DOMAIN pc /\ Append(t, 1) \notin DOMAIN pc
  BY <1>1, RootPath, Branches
<1>7. FamiliesOK
  BY <1>1, <1>6 DEF FamiliesOK, KidsOf
<1>8. AreasOK
  BY <1>1, <1>3, <1>6, RootPath DEF AreasOK
<1> QED BY <1>5, <1>7, <1>8 DEF ControlInv

LEMMA StepControl ==
  ASSUME ControlInv, NEW t \in DOMAIN pc, Step(t)
  PROVE  ControlInv'
<1>1. CASE Promote(t)
  <2>1. pc[t] = "poll"
    BY <1>1 DEF Promote, At
  <2>2. PICK s \in Splittable(Polled(t), tmem[area[t]].starting) : Fork(t, s)
    BY <1>1 DEF Promote
  <2> QED BY <2>1, <2>2, ForkStep
<1>2. CASE ~Promote(t)
  BY <1>2, StartStep, EnterStep, LeaveLoopStep, CallNestedStep, RunChunkStep,
     NoHeartbeatStep, HeartbeatIgnoredStep, JoinStep, ReturnToCallerStep,
     ReturnToLeftoverStep, ReturnFromTaskStep, BackStep DEF Step
<1> QED BY <1>1, <1>2

LEMMA NextControl == ControlInv /\ [Next]_vars => ControlInv'
<1>1. ControlInv /\ Next => ControlInv' \/ UNCHANGED vars
  BY StepControl DEF Next, Terminated
<1>2. ControlInv /\ UNCHANGED vars => ControlInv'
  <2> SUFFICES ASSUME ControlInv, UNCHANGED vars PROVE ControlInv'
    OBVIOUS
  <2>1. TypeOK'
    BY DEF ControlInv, TypeOK, TaskOK, vars, taskVars
  <2>2. FamiliesOK'
    BY DEF ControlInv, FamiliesOK, KidsOf, vars, taskVars
  <2>3. AreasOK'
    BY DEF ControlInv, AreasOK, Forked, vars, taskVars
  <2> QED BY <2>1, <2>2, <2>3 DEF ControlInv
<1> QED BY <1>1, <1>2

\* In every nest tasks have the frames, arrays and levels they should have, branches
\* belong to a task that waits for them, and areas to whoever runs on them.
THEOREM ControlInvariance == Spec => []ControlInv
  BY InitControl, NextControl, PTL DEF Spec

\* Two tasks that go on never share a context and a task memory, although first
\* branches take over those of their parents.
THEOREM AreasExclusive == Spec => []AreaExclusive
<1>1. ControlInv => AreaExclusive
  <2> SUFFICES ASSUME ControlInv, NEW t \in DOMAIN pc, NEW u \in DOMAIN pc, t # u,
                      {pc[t], pc[u]} \cap {"join", "done"} = {}, area[t] = area[u]
      PROVE  FALSE
    BY DEF AreaExclusive
  <2>1. Len(t) \in Nat /\ Len(u) \in Nat
    BY AreaOf
  <2>2. CASE Len(t) = Len(u)
    BY <2>2, SameArea
  <2>3. CASE Len(t) < Len(u)
    BY <2>3, SameArea
  <2>4. CASE Len(u) < Len(t)
    BY <2>4, SameArea
  <2> QED BY <2>1, <2>2, <2>3, <2>4
<1> QED BY <1>1, ControlInvariance, PTL

-----------------------------------------------------------------------------
(***************************************************************************)
(* Contexts, arrays and registers.                                         *)
(***************************************************************************)

\* The ancestors of a branch are its parent and the ancestors of its parent.
LEMMA AncestorsOfBranch ==
  ASSUME NEW t \in Paths, NEW k \in {0, 1}
  PROVE  Ancestors(Append(t, k)) = Ancestors(t) \cup {t}
<1> DEFINE b == Append(t, k)
<1>1. Len(t) \in Nat /\ Len(b) = Len(t) + 1 /\ b \in Paths
  BY DEF Paths
<1>2. \A n \in 0 .. Len(t) - 1 : SubSeq(b, 1, n) = SubSeq(t, 1, n)
  BY DEF Paths
<1>3. SubSeq(b, 1, Len(t)) = t
  BY DEF Paths
<1>4. 0 .. Len(b) - 1 = (0 .. Len(t) - 1) \cup {Len(t)}
  BY <1>1
<1> HIDE DEF b
<1>5. Ancestors(b) = Ancestors(t) \cup {t}
  BY <1>2, <1>3, <1>4 DEF Ancestors
<1> QED BY <1>5 DEF b

LEMMA AncestorFacts ==
  ASSUME NEW t \in Paths, NEW p \in Ancestors(t)
  PROVE  /\ p \in Paths /\ Len(p) < Len(t)
         /\ \E k \in {0, 1} : Append(p, k) \in Ancestors(t) \cup {t}
<1>1. PICK n \in 0 .. Len(t) - 1 : p = SubSeq(t, 1, n)
  BY DEF Ancestors
<1>2. p \in Paths /\ Len(p) = n /\ Len(p) < Len(t)
  BY <1>1 DEF Paths
<1>3. t[n + 1] \in {0, 1}
  BY <1>1 DEF Paths
<1>4. Append(p, t[n + 1]) = SubSeq(t, 1, n + 1)
  BY <1>1, <1>2, <1>3 DEF Paths
<1>5. SubSeq(t, 1, n + 1) \in Ancestors(t) \cup {t}
  <2>1. CASE n + 1 = Len(t)
    BY <2>1 DEF Paths
  <2>2. CASE n + 1 # Len(t)
    BY <1>1, <2>2 DEF Ancestors, Paths
  <2> QED BY <2>1, <2>2
<1> QED BY <1>2, <1>3, <1>4, <1>5

LEMMA RootHasNoAncestors == Ancestors(Root) = {}
  BY RootPath DEF Ancestors

\* Arrays that a task may point to are still there, with the live-ins they held.
ArraysKept(t) ==
  \A q \in DOMAIN array : q = <<Root, -1>> \/ q[1] \in Ancestors(t) \/ q[1] = t
    => q \in DOMAIN array' /\ array'[q].live = array[q].live

\* What can be read at a level stays so.
LEMMA ReadableKept ==
  ASSUME NEW t, NEW l, ReadableAt(t, l), ArraysKept(t), Cxt(t)[l]' = Cxt(t)[l]
  PROVE  ReadableAt(t, l)'
<1> DEFINE c == Cxt(t)[l]
<1>1. c' = c
  OBVIOUS
<1>2. /\ c.start \in Nat /\ c.max \in Nat
      /\ Owned(t, {l - 1}, c.liveIn)
      /\ Owned(t, {l - 1} \cup ({l} \cap {Leaf}), c.liveOut)
      /\ array[c.liveIn].live \in DOMAIN Bounds /\ Len(array[c.liveIn].live) = l
      /\ Bounds[array[c.liveIn].live].first <= c.start
      /\ c.max <= Bounds[array[c.liveIn].live].last
  BY DEF ReadableAt
<1>3. ASSUME NEW q, NEW ls, Owned(t, ls, q)
      PROVE  q \in DOMAIN array' /\ array'[q].live = array[q].live /\ Owned(t, ls, q)'
  BY <1>3 DEF Owned, ArraysKept, Ancestors
<1>4. /\ array'[c.liveIn].live = array[c.liveIn].live
      /\ Owned(t, {l - 1}, c.liveIn)' /\ Owned(t, {l - 1} \cup ({l} \cap {Leaf}), c.liveOut)'
  <2>1. array'[c.liveIn].live = array[c.liveIn].live
    BY <1>2, <1>3
  <2>2. Owned(t, {l - 1}, c.liveIn)'
    <3>1. /\ c.liveIn \in DOMAIN array'
          /\ \/ c.liveIn = <<Root, -1>> \/ c.liveIn[1] \in Ancestors(t)
             \/ c.liveIn[1] = t /\ c.liveIn[2] \in {l - 1}
      <4>1. c.liveIn \in DOMAIN array'
        BY <1>2, <1>3
      <4> QED BY <1>2, <4>1 DEF Owned
    <3> QED BY <1>1, <3>1 DEF Owned, Ancestors
  <2>3. Owned(t, {l - 1} \cup ({l} \cap {Leaf}), c.liveOut)'
    <3>1. /\ c.liveOut \in DOMAIN array'
          /\ \/ c.liveOut = <<Root, -1>> \/ c.liveOut[1] \in Ancestors(t)
             \/ c.liveOut[1] = t /\ c.liveOut[2] \in {l - 1} \cup ({l} \cap {Leaf})
      <4>1. c.liveOut \in DOMAIN array'
        BY <1>2, <1>3
      <4> QED BY <1>2, <4>1 DEF Owned
    <3> QED BY <1>1, <3>1 DEF Owned, Ancestors
  <2> QED BY <2>1, <2>2, <2>3
<1>5. /\ c'.start \in Nat /\ c'.max \in Nat
      /\ array'[c'.liveIn].live \in DOMAIN Bounds /\ Len(array'[c'.liveIn].live) = l
      /\ Bounds[array'[c'.liveIn].live].first <= c'.start
      /\ c'.max <= Bounds[array'[c'.liveIn].live].last
  BY <1>1, <1>2, <1>4
<1> QED BY <1>4, <1>5 DEF ReadableAt

\* A level the task is in the middle of stays so.
LEMMA SuspendedKept ==
  ASSUME NEW t, NEW l, SuspendedAt(t, l), ArraysKept(t), Cxt(t)[l]' = Cxt(t)[l],
         base'[t] = base[t], l >= base[t] => frame'[t][l] = frame[t][l],
         Forked(t)' = Forked(t)
  PROVE  SuspendedAt(t, l)'
<1>1. ReadableAt(t, l)'
  BY ReadableKept DEF SuspendedAt
<1>2. array'[Cxt(t)[l].liveIn].live = array[Cxt(t)[l].liveIn].live
  BY DEF SuspendedAt, ReadableAt, Owned, ArraysKept
<1>3. l >= base[t] => FrameAt(t, l)' /\ frame'[t][l].iv = Cxt(t)[l]'.start
  BY <1>2 DEF SuspendedAt, FrameAt
<1> QED BY <1>1, <1>3 DEF SuspendedAt

\* The invariant, part by part.
LEMMA MemoryParts ==
  ASSUME MemoryInv
  PROVE  /\ ControlInv /\ RecordsOK /\ AncestorsWait /\ GivenOK
         /\ TypeOK /\ FamiliesOK /\ AreasOK
         /\ \A t \in DOMAIN pc : TaskOK(t)
         /\ \A t \in DOMAIN pc : pc[t] # "done" => TaskInv(t)
  BY DEF MemoryInv, ControlInv, TypeOK

\* The level a task has given its work from.
LEMMA GivenFacts ==
  ASSUME MemoryInv, NEW t \in DOMAIN pc
  PROVE  /\ Given(t) \in Int /\ until[t] <= Given(t) /\ Given(t) <= Leaf + 1
         /\ Forked(t) => Given(t) <= Leaf
         /\ ~Forked(t) => Given(t) = Leaf + 1
         /\ until[t] \in Nat /\ base[t] \in Nat /\ top[t] \in Nat /\ rc[t] \in Int
         /\ until[t] <= base[t] /\ base[t] <= top[t] /\ top[t] <= Leaf
<1>1. TaskOK(t) /\ until[t] <= Given(t)
  BY MemoryParts DEF GivenOK
<1>2. Forked(t) => TaskOK(Append(t, 0))
  BY MemoryParts DEF Forked
<1>3. /\ until[t] \in Nat /\ base[t] \in Nat /\ top[t] \in Nat /\ rc[t] \in Int
      /\ until[t] <= base[t] /\ base[t] <= top[t] /\ top[t] <= Leaf
  BY <1>1, LevelFacts DEF TaskOK
<1>4. Forked(t) => Given(t) \in 0 .. Leaf
  BY <1>2, LevelFacts DEF TaskOK, Given
<1>5. ~Forked(t) => Given(t) = Leaf + 1
  BY DEF Given
<1> QED BY <1>1, <1>3, <1>4, <1>5, LevelFacts

\* Who has the area of a task that takes a step waits for it, and has given it the
\* levels that it works on.
LEMMA AreaWaits ==
  ASSUME MemoryInv, NEW t \in DOMAIN pc, pc[t] \notin {"done", "join"},
         NEW v \in DOMAIN pc, v # t, pc[v] # "done", area[v] = area[t]
  PROVE  pc[v] = "join" /\ Given(v) <= until[t]
<1>1. Len(t) \in Nat /\ Len(v) \in Nat /\ ControlInv
  BY AreaOf, MemoryParts
<1>2. ~(Len(t) = Len(v))
  BY <1>1, SameArea
<1>3. ~(Len(t) < Len(v))
  BY <1>1, SameArea
<1>4. Len(v) < Len(t)
  BY <1>1, <1>2, <1>3
<1>5. pc[v] = "join"
  BY <1>1, <1>4, SameArea
<1>6. Given(v) <= until[t]
  BY <1>4, MemoryParts DEF GivenOK
<1> QED BY <1>5, <1>6

\* A step of task t leaves what is said of another task v.
LEMMA OthersKept ==
  ASSUME MemoryInv, NEW t \in DOMAIN pc, NEW v \in DOMAIN pc, v # t, pc[v] # "done",
         pc'[v] = pc[v], rc'[v] = rc[v], base'[v] = base[v], top'[v] = top[v],
         until'[v] = until[v], area'[v] = area[v], frame'[v] = frame[v],
         Forked(v)' = Forked(v), Given(v)' = Given(v), ArraysKept(v),
         area[v] = area[t] => pc[v] = "join" /\ Given(v) <= until[t],
         area[v] # area[t] => /\ cxt'[area[v]] = cxt[area[v]]
                              /\ tmem'[area[v]] = tmem[area[v]]
                              /\ unpolled'[area[v]] = unpolled[area[v]],
         \A l \in Level : l < until[t] => cxt'[area[t]][l] = cxt[area[t]][l]
  PROVE  TaskInv(v)'
<1>1. TaskInv(v) /\ TaskOK(v) /\ Given(v) \in Int /\ until[v] \in Nat /\ top[v] \in Nat
      /\ base[v] \in Nat /\ top[v] <= Leaf /\ until[t] \in Nat /\ until[v] <= Given(v)
      /\ until[v] <= top[v]
  BY MemoryParts, GivenFacts
<1>2. \A l \in Level : l < Given(v) => Cxt(v)[l]' = Cxt(v)[l]
  BY <1>1, LevelFacts DEF Cxt
<1>3. pc[v] # "join" => Cxt(v)' = Cxt(v)
  BY DEF Cxt
<1>4. LevelsOK(v)'
  <2>1. Suspended(v)' = Suspended(v)
    BY DEF Suspended
  <2>2. ASSUME NEW l \in Suspended(v) PROVE SuspendedAt(v, l)'
    <3>1. SuspendedAt(v, l) /\ l \in Level /\ l < Given(v)
      BY <1>1, LevelFacts DEF TaskInv, LevelsOK, Suspended
    <3> QED BY <1>2, <3>1, SuspendedKept
  <2>3. ASSUME ~Forked(v), NEW l \in DOMAIN frame[v], l < Leaf PROVE LinkedAt(v, l)'
    <3>1. LinkedAt(v, l)
      BY <1>1, <2>3 DEF TaskInv, LevelsOK
    <3>2. pc[v] # "join"
      BY <1>1, <2>3 DEF TaskInv, CodeOK
    <3> QED BY <1>3, <3>1, <3>2 DEF LinkedAt
  <2>4. ASSUME NEW l \in 0 .. until[v] - 1 PROVE Cxt(v)[l]' = Cxt(v)[l]
    BY <1>1, <1>2, LevelFacts
  <2>5. \A l \in 0 .. until[v] - 1 : Cxt(v)[l]'.start # Undef =>
          Cxt(v)[l]'.start \in Int /\ Cxt(v)[l]'.max \in Int /\ Cxt(v)[l]'.max - Cxt(v)[l]'.start <= 1
    BY <1>1, <2>4 DEF TaskInv, LevelsOK
  <2> QED BY <2>1, <2>2, <2>3, <2>5 DEF LevelsOK
<1>5. TopOK(v)'
  <2>1. CASE pc[v] \in {"start", "enter", "header", "poll"}
    <3>1. TopOK(v) /\ top[v] < Given(v) /\ ReadableAt(v, top[v]) /\ top[v] \in Level
      BY <1>1, <2>1, LevelFacts DEF TaskInv, TopOK
    <3>2. Cxt(v)[top[v]]' = Cxt(v)[top[v]]
      BY <1>3, <2>1
    <3>3. ReadableAt(v, top[v])'
      BY <3>1, <3>2, ReadableKept
    <3>4. array'[Cxt(v)[top[v]].liveIn].live = array[Cxt(v)[top[v]].liveIn].live
      BY <3>1 DEF ReadableAt, Owned, ArraysKept
    <3>5. Reg(v)' = Reg(v) /\ Cxt(v)' = Cxt(v)
      BY <1>3, <2>1 DEF Reg
    <3>6. pc[v] \in {"header", "poll"} => FrameAt(v, top[v])'
      BY <3>1, <3>4, <3>5 DEF FrameAt, TopOK
    <3> QED BY <3>1, <3>3, <3>5, <3>6 DEF TopOK
  <2>2. CASE pc[v] \notin {"start", "enter", "header", "poll"}
    BY <2>2 DEF TopOK
  <2> QED BY <2>1, <2>2
<1>6. CodeOK(v)'
  BY <1>1 DEF TaskInv, CodeOK
<1>7. MemoryOK(v)'
  <2>1. CASE area[v] = area[t]
    <3>1. pc[v] = "join" /\ Forked(v)
      BY <1>1, <2>1 DEF TaskInv, CodeOK
    <3> QED BY <3>1 DEF MemoryOK
  <2>2. CASE area[v] # area[t]
    BY <1>1, <2>2 DEF TaskInv, MemoryOK
  <2> QED BY <2>1, <2>2
<1> QED BY <1>4, <1>5, <1>6, <1>7 DEF TaskInv

\* A step of one task that neither forks nor joins keeps the invariant if it keeps
\* what is said of that task.
LEMMA QuietMemory ==
  ASSUME MemoryInv, ControlInv', RecordsOK', NEW t \in DOMAIN pc, pc[t] \notin {"done", "join"},
         DOMAIN pc' = DOMAIN pc, until' = until, area' = area,
         \A u \in DOMAIN pc \ {t} :
           /\ pc'[u] = pc[u] /\ rc'[u] = rc[u] /\ base'[u] = base[u] /\ top'[u] = top[u]
           /\ frame'[u] = frame[u],
         \A a \in DOMAIN cxt \ {area[t]} :
           cxt'[a] = cxt[a] /\ tmem'[a] = tmem[a] /\ unpolled'[a] = unpolled[a],
         \A l \in Level : l < until[t] => cxt'[area[t]][l] = cxt[area[t]][l],
         \A q \in DOMAIN array : q = <<Root, -1>> \/ q[1] # t
           => q \in DOMAIN array' /\ array'[q].live = array[q].live,
         pc'[t] # "join", pc'[t] # "done" => TaskInv(t)'
  PROVE  MemoryInv'
<1>1. ControlInv /\ AncestorsWait /\ GivenOK /\ (\A u \in DOMAIN pc : u \in Paths)
  BY MemoryParts, AreaOf
<1>2. \A u \in DOMAIN pc : Forked(u)' = Forked(u) /\ Given(u)' = Given(u)
  BY DEF Forked, Given
<1>3. \A u \in DOMAIN pc : pc[u] # "done" => t \notin Ancestors(u)
  BY <1>1 DEF AncestorsWait
<1>4. AncestorsWait'
  <2> SUFFICES ASSUME NEW u \in DOMAIN pc, pc'[u] # "done", NEW p \in Ancestors(u)
      PROVE  p \in DOMAIN pc /\ pc'[p] = "join"
    BY DEF AncestorsWait, Ancestors
  <2>1. pc[u] # "done"
    OBVIOUS
  <2>2. p \in DOMAIN pc /\ pc[p] = "join"
    BY <1>1, <2>1 DEF AncestorsWait
  <2> QED BY <2>2
<1>5. GivenOK'
  BY <1>1, <1>2 DEF GivenOK
<1>6. ASSUME NEW v \in DOMAIN pc, pc'[v] # "done" PROVE TaskInv(v)'
  <2>1. CASE v = t
    BY <1>6, <2>1
  <2>2. CASE v # t
    <3>1. pc[v] # "done"
      BY <1>6, <2>2
    <3>2. ArraysKept(v)
      BY <1>3, <2>2, <3>1 DEF ArraysKept
    <3>3. area[v] = area[t] => pc[v] = "join" /\ Given(v) <= until[t]
      BY <2>2, <3>1, AreaWaits
    <3>4. area[v] \in DOMAIN cxt
      BY <1>1, <3>1, AreaOf
    <3> QED BY <1>2, <2>2, <3>1, <3>2, <3>3, <3>4, OthersKept
  <2> QED BY <2>1, <2>2
<1> QED BY <1>4, <1>5, <1>6 DEF MemoryInv

\* What is left of a loop may become less.
LEMMA ReadableMoved ==
  ASSUME NEW t, NEW l, ReadableAt(t, l), ArraysKept(t),
         Cxt(t)[l]'.liveIn = Cxt(t)[l].liveIn,
         Owned(t, {l - 1} \cup ({l} \cap {Leaf}), Cxt(t)[l].liveOut)',
         Cxt(t)[l]'.start \in Nat,
         \/ Cxt(t)[l].start <= Cxt(t)[l]'.start
         \/ Bounds[array[Cxt(t)[l].liveIn].live].first <= Cxt(t)[l]'.start,
         Cxt(t)[l]'.max \in Nat, Cxt(t)[l]'.max <= Cxt(t)[l].max
  PROVE  ReadableAt(t, l)'
<1> DEFINE c == Cxt(t)[l]
           row == array[c.liveIn].live
<1>1. /\ c.start \in Nat /\ c.max \in Nat
      /\ Owned(t, {l - 1}, c.liveIn)
      /\ row \in DOMAIN Bounds /\ Len(row) = l
      /\ Bounds[row].first <= c.start /\ c.max <= Bounds[row].last
  BY DEF ReadableAt
<1>2. array'[c.liveIn].live = row /\ Owned(t, {l - 1}, c.liveIn)'
  BY <1>1 DEF Owned, ArraysKept, Ancestors
<1>3. Bounds[row].first \in Nat /\ Bounds[row].last \in Nat
  BY <1>1, NestAssumption
<1>4. Bounds[row].first <= c'.start /\ c'.max <= Bounds[row].last
  BY <1>1, <1>3
<1>5. c'.liveIn = c.liveIn
  OBVIOUS
<1>6. Owned(t, {l - 1}, Cxt(t)[l].liveIn)'
  BY <1>2, <1>5 DEF Owned, Ancestors
<1>7. /\ c'.start \in Nat /\ c'.max \in Nat
      /\ array'[c'.liveIn].live \in DOMAIN Bounds /\ Len(array'[c'.liveIn].live) = l
      /\ Bounds[array'[c'.liveIn].live].first <= c'.start
      /\ c'.max <= Bounds[array'[c'.liveIn].live].last
  BY <1>1, <1>2, <1>4, <1>5
<1> QED BY <1>6, <1>7 DEF ReadableAt

\* What there is of a task that can take a step.
LEMMA OwnFacts ==
  ASSUME MemoryInv, NEW t \in DOMAIN pc, pc[t] # "done"
  PROVE  /\ area[t] \in DOMAIN cxt /\ area[t] \in DOMAIN tmem /\ area[t] \in DOMAIN unpolled
         /\ DOMAIN cxt[area[t]] = Level
         /\ \A l \in Level : DOMAIN cxt[area[t]][l] = {"start", "max", "liveIn", "liveOut"}
         /\ DOMAIN tmem[area[t]] = {"starting", "chunksize", "remaining"}
         /\ DOMAIN area = DOMAIN pc /\ DOMAIN frame = DOMAIN pc /\ DOMAIN rc = DOMAIN pc
         /\ DOMAIN base = DOMAIN pc /\ DOMAIN top = DOMAIN pc /\ DOMAIN until = DOMAIN pc
         /\ LevelsOK(t) /\ TopOK(t) /\ CodeOK(t) /\ MemoryOK(t) /\ TaskOK(t)
         /\ t \in Paths /\ top[t] \in Level /\ base[t] \in Level /\ until[t] \in Level
<1>1. ControlInv /\ RecordsOK /\ TaskInv(t)
  BY MemoryParts
<1>2. /\ area[t] \in DOMAIN cxt /\ DOMAIN tmem = DOMAIN cxt /\ DOMAIN unpolled = DOMAIN cxt
      /\ TaskOK(t) /\ t \in Paths
  BY <1>1, RunningFacts, AreaOf
<1>3. top[t] \in Level /\ base[t] \in Level /\ until[t] \in Level
  BY <1>2, LevelFacts DEF TaskOK
<1> QED BY <1>1, <1>2, <1>3, RunningFacts DEF RecordsOK, TaskInv, Unwritten

\* Contexts and arrays keep their parts.
LEMMA RecordsKept ==
  ASSUME RecordsOK, DOMAIN pc' = DOMAIN pc,
         \A a \in DOMAIN cxt' : /\ a \in DOMAIN cxt
                                /\ DOMAIN cxt'[a] = DOMAIN cxt[a]
                                /\ \A l \in DOMAIN cxt[a] : DOMAIN cxt'[a][l] = DOMAIN cxt[a][l],
         \A a \in DOMAIN tmem' : /\ a \in DOMAIN tmem
                                 /\ \/ tmem'[a].chunksize = tmem[a].chunksize
                                    \/ tmem'[a].chunksize \in ChunkSizes,
         \A q \in DOMAIN array' : DOMAIN array'[q] = DOMAIN NewArray,
         array'[<<Root, -1>>].live = array[<<Root, -1>>].live,
         \A t \in DOMAIN pc : \A l \in DOMAIN frame'[t] :
            \/ l \in DOMAIN frame[t] /\ DOMAIN frame'[t][l] = DOMAIN frame[t][l]
            \/ DOMAIN frame'[t][l] = {"iv", "max", "row", "out", "low", "chunk", "priv"}
  PROVE  RecordsOK'
  BY DEF RecordsOK, Unwritten, NewArray

LEMMA StartMemory ==
  ASSUME MemoryInv, ControlInv', NEW t \in DOMAIN pc, Start(t)
  PROVE  MemoryInv'
<1> DEFINE a == area[t]
<1>1. pc[t] = "start" /\ pc' = [pc EXCEPT ![t] = "enter"]
  BY DEF Start, At
<1>2. PICK size \in ChunkSizes : tmem' = [tmem EXCEPT ![area[t]] =
         [starting |-> StartingLevel(t), chunksize |-> size, remaining |-> size]]
  BY DEF Start
<1>3. /\ rc' = rc /\ base' = base /\ top' = top /\ until' = until /\ area' = area
      /\ frame' = frame /\ array' = array
      /\ unpolled' = [unpolled EXCEPT ![a] = 0]
  BY DEF Start
<1>4. /\ \/ cxt' = cxt
         \/ /\ base[t] > until[t]
            /\ cxt' = [cxt EXCEPT ![a][Leaf].start = AfterSuspended(cxt[a][Leaf].start)]
  BY DEF Start
<1>5. Leaf \in Level
  BY LevelFacts
<1>6. /\ DOMAIN cxt' = DOMAIN cxt /\ \A b \in DOMAIN cxt \ {a} : cxt'[b] = cxt[b]
      /\ DOMAIN cxt'[a] = Level
      /\ \A l \in Level : /\ DOMAIN cxt'[a][l] = DOMAIN cxt[a][l]
                          /\ l # Leaf => cxt'[a][l] = cxt[a][l]
                          /\ cxt'[a][l].max = cxt[a][l].max
                          /\ cxt'[a][l].liveIn = cxt[a][l].liveIn
                          /\ cxt'[a][l].liveOut = cxt[a][l].liveOut
                          /\ \/ cxt'[a][l].start = cxt[a][l].start
                             \/ cxt'[a][l].start = cxt[a][l].start + 1
  BY <1>1, <1>4, <1>5, OwnFacts DEF AfterSuspended
<1>7. base[t] > until[t] \/ cxt' = cxt
  BY <1>4
<1>8. ~Forked(t) /\ top[t] < Given(t) /\ ReadableAt(t, top[t])
      /\ (base[t] > until[t] => top[t] = Leaf)
  BY <1>1, OwnFacts DEF TopOK
<1>9. Forked(t)' = Forked(t) /\ ~Forked(t)' /\ Given(t)' = Given(t)
  BY <1>1, <1>3, <1>8 DEF Forked, Given
<1>10. ArraysKept(t)
  BY <1>3 DEF ArraysKept
<1>11. RecordsOK'
  <2>1. RecordsOK
    BY MemoryParts
  <2>2. DOMAIN pc' = DOMAIN pc /\ DOMAIN tmem' = DOMAIN tmem
    BY <1>1, <1>2
  <2>3. \A b \in DOMAIN tmem : tmem'[b].chunksize = tmem[b].chunksize \/ tmem'[b].chunksize \in ChunkSizes
    BY <1>2
  <2>4. \A b \in DOMAIN cxt' : /\ b \in DOMAIN cxt
                                /\ DOMAIN cxt'[b] = DOMAIN cxt[b]
                                /\ \A l \in DOMAIN cxt[b] : DOMAIN cxt'[b][l] = DOMAIN cxt[b][l]
    BY <1>1, <1>6, OwnFacts
  <2> QED BY <1>3, <2>1, <2>2, <2>3, <2>4, RecordsKept DEF RecordsOK
<1>12. LevelsOK(t)'
  <2>1. Suspended(t)' = Suspended(t)
    BY <1>1, <1>3, <1>9 DEF Suspended
  <2>2. ASSUME NEW l \in Suspended(t) PROVE SuspendedAt(t, l)'
    <3>1. SuspendedAt(t, l) /\ l \in Level /\ l < top[t]
      BY <1>1, LevelFacts, OwnFacts DEF LevelsOK, Suspended
    <3>2. Cxt(t)[l]' = Cxt(t)[l]
      <4>1. cxt' = cxt \/ l # Leaf
        BY <1>7, <1>8, <3>1, LevelFacts
      <4> QED BY <1>3, <1>6, <3>1, <4>1 DEF Cxt
    <3> QED BY <1>3, <1>9, <1>10, <3>1, <3>2, SuspendedKept
  <2>3. ASSUME NEW l \in DOMAIN frame[t], l < Leaf PROVE LinkedAt(t, l)'
    <3>1. LinkedAt(t, l) /\ l + 1 \in Level
      BY <1>1, <1>8, <2>3, LevelFacts, OwnFacts DEF LevelsOK, TaskOK
    <3> QED BY <1>3, <1>6, <3>1 DEF LinkedAt, Cxt
  <2>4. ASSUME NEW l \in 0 .. until[t] - 1 PROVE Cxt(t)[l]' = Cxt(t)[l]
    <3>1. l \in Level /\ l < Leaf
      BY <1>1, LevelFacts, OwnFacts
    <3> QED BY <1>3, <1>6, <3>1 DEF Cxt
  <2>5. LevelsOK(t)
    BY <1>1, OwnFacts
  <2> QED BY <1>3, <2>1, <2>2, <2>3, <2>4, <2>5 DEF LevelsOK
<1>13. TopOK(t)'
  <2>1. ASSUME NEW l, l = top[t] PROVE ReadableAt(t, l)'
    <3>1. l \in Level /\ ReadableAt(t, l) /\ Cxt(t)[l].start \in Nat /\ Cxt(t)[l].max \in Nat
      BY <1>1, <1>8, <2>1, OwnFacts DEF ReadableAt
    <3>2. /\ Cxt(t)[l]'.max = Cxt(t)[l].max
          /\ Cxt(t)[l]'.liveIn = Cxt(t)[l].liveIn
          /\ Cxt(t)[l]'.liveOut = Cxt(t)[l].liveOut
          /\ \/ Cxt(t)[l]'.start = Cxt(t)[l].start
             \/ Cxt(t)[l]'.start = Cxt(t)[l].start + 1
      BY <1>3, <1>6, <3>1 DEF Cxt
    <3>3. Owned(t, {l - 1} \cup ({l} \cap {Leaf}), Cxt(t)[l].liveOut)'
      BY <1>3, <3>1, <3>2 DEF ReadableAt, Owned, Ancestors
    <3>4. /\ Cxt(t)[l]'.start \in Nat /\ Cxt(t)[l].start <= Cxt(t)[l]'.start
          /\ Cxt(t)[l]'.max \in Nat /\ Cxt(t)[l]'.max <= Cxt(t)[l].max
      BY <3>1, <3>2
    <3> QED BY <1>10, <3>1, <3>2, <3>3, <3>4, ReadableMoved
  <2> QED BY <1>1, <1>3, <1>8, <1>9, <2>1 DEF TopOK
<1>14. CodeOK(t)'
  BY <1>1 DEF CodeOK
<1>15. MemoryOK(t)'
  <2>1. size \in Nat \ {0}
    BY NestAssumption
  <2>2. tmem'[a] = [starting |-> until[t], chunksize |-> size, remaining |-> size] /\ unpolled'[a] = 0
    BY <1>1, <1>2, <1>3, OwnFacts DEF StartingLevel
  <2> QED BY <1>1, <1>3, <1>9, <2>1, <2>2 DEF MemoryOK
<1>16. TaskInv(t)'
  BY <1>12, <1>13, <1>14, <1>15 DEF TaskInv
<1>17. \A l \in Level : l < until[t] => cxt'[a][l] = cxt[a][l]
  BY <1>1, <1>6, LevelFacts, OwnFacts
<1>18. \A b \in DOMAIN cxt \ {a} :
           cxt'[b] = cxt[b] /\ tmem'[b] = tmem[b] /\ unpolled'[b] = unpolled[b]
  <2>1. DOMAIN tmem = DOMAIN cxt /\ DOMAIN unpolled = DOMAIN cxt
    BY MemoryParts DEF AreasOK
  <2> QED BY <1>2, <1>3, <1>6, <2>1
<1> QED BY <1>1, <1>3, <1>11, <1>16, <1>17, <1>18, QuietMemory

\* An array that is not there belongs to no frame.
LEMMA ArrayOfFrame ==
  ASSUME MemoryInv, NEW t \in DOMAIN pc, NEW l \in Level
  PROVE  <<t, l>> \in DOMAIN array <=> l \in DOMAIN frame[t]
<1>1. DOMAIN array = {<<Root, -1>>} \cup
                    UNION {{<<u, k>> : k \in DOMAIN frame[u]} : u \in DOMAIN pc}
  BY MemoryParts DEF TypeOK
<1>2. l # -1
  BY LevelFacts
<1> QED BY <1>1, <1>2

LEMMA EnterMemory ==
  ASSUME MemoryInv, ControlInv', NEW t \in DOMAIN pc, Enter(t)
  PROVE  MemoryInv'
<1> DEFINE a == area[t]
           n == top[t]
           c == cxt[a][n]
           r == [iv |-> c.start, max |-> c.max, row |-> array[c.liveIn].live,
                 out |-> c.liveOut, low |-> 0, chunk |-> 0, priv |-> EmptyBag]
<1>1. pc[t] = "enter" /\ pc' = [pc EXCEPT ![t] = "header"]
  BY DEF Enter, At
<1>2. /\ rc' = rc /\ base' = base /\ top' = top /\ until' = until /\ area' = area
      /\ tmem' = tmem /\ unpolled' = unpolled
  BY DEF Enter
<1>3. /\ a \in DOMAIN cxt /\ DOMAIN cxt[a] = Level /\ n \in Level
      /\ \A l \in Level : DOMAIN cxt[a][l] = {"start", "max", "liveIn", "liveOut"}
      /\ DOMAIN frame[t] = base[t] .. n - 1
      /\ base[t] \in Nat /\ n \in Nat /\ base[t] <= n /\ n <= Leaf /\ until[t] \in Nat /\ until[t] <= base[t]
  BY <1>1, OwnFacts, GivenFacts DEF TaskOK
<1>4. /\ frame' = [frame EXCEPT ![t] = With(frame[t], n, r)]
      /\ array' = With(array, <<t, n>>, NewArray)
      /\ cxt' = [cxt EXCEPT ![a] = Announced(t)]
  BY DEF Enter, Cxt
<1>5. Announced(t) = IF n = Leaf THEN [cxt[a] EXCEPT ![n].liveOut = <<t, n>>]
                     ELSE [cxt[a] EXCEPT ![n + 1].liveIn = <<t, n>>, ![n + 1].liveOut = <<t, n>>]
  BY DEF Announced, Cxt
<1>6. <<t, n>> \notin DOMAIN array
  BY <1>3, ArrayOfFrame
<1>7. /\ DOMAIN array' = DOMAIN array \cup {<<t, n>>} /\ array'[<<t, n>>] = NewArray
      /\ \A q \in DOMAIN array : array'[q] = array[q]
  BY <1>4, <1>6 DEF With
<1>8. /\ DOMAIN frame'[t] = base[t] .. n /\ frame'[t][n] = r
      /\ \A l \in DOMAIN frame[t] : frame'[t][l] = frame[t][l]
      /\ \A u \in DOMAIN pc \ {t} : frame'[u] = frame[u]
  <2>1. DOMAIN frame = DOMAIN pc
    BY <1>1, OwnFacts
  <2>2. frame'[t] = With(frame[t], n, r)
    BY <1>4, <2>1
  <2>3. base[t] .. n = (base[t] .. n - 1) \cup {n} /\ n \notin base[t] .. n - 1
    BY <1>3
  <2>4. \A u \in DOMAIN pc \ {t} : frame'[u] = frame[u]
    BY <1>4, <2>1
  <2> HIDE DEF r
  <2> QED BY <1>3, <2>2, <2>3, <2>4 DEF With
<1>9. /\ DOMAIN cxt' = DOMAIN cxt /\ \A b \in DOMAIN cxt \ {a} : cxt'[b] = cxt[b]
      /\ cxt'[a] = Announced(t)
  BY <1>3, <1>4
<1>10. /\ DOMAIN cxt'[a] = Level
       /\ \A l \in Level : /\ DOMAIN cxt'[a][l] = DOMAIN cxt[a][l]
                           /\ l < n => cxt'[a][l] = cxt[a][l]
                           /\ cxt'[a][l].start = cxt[a][l].start
                           /\ cxt'[a][l].max = cxt[a][l].max
                           /\ l # n + 1 => cxt'[a][l].liveIn = cxt[a][l].liveIn
       /\ n # Leaf => /\ cxt'[a][n] = cxt[a][n] /\ n + 1 \in Level
                      /\ cxt'[a][n + 1].liveIn = <<t, n>> /\ cxt'[a][n + 1].liveOut = <<t, n>>
       /\ n = Leaf => cxt'[a][n].liveOut = <<t, n>>
  <2>1. CASE n = Leaf
    <3>1. cxt'[a] = [cxt[a] EXCEPT ![n].liveOut = <<t, n>>]
      BY <1>5, <1>9, <2>1
    <3> QED BY <1>3, <2>1, <3>1, LevelFacts
  <2>2. CASE n # Leaf
    <3>1. cxt'[a] = [cxt[a] EXCEPT ![n + 1].liveIn = <<t, n>>, ![n + 1].liveOut = <<t, n>>]
      BY <1>5, <1>9, <2>2
    <3>2. n + 1 \in Level /\ n + 1 # n /\ \A l \in Level : l < n => l # n + 1
      BY <1>3, <2>2, LevelFacts
    <3>3. cxt'[a][n] = cxt[a][n] /\ DOMAIN cxt'[a] = Level
      BY <1>3, <3>1, <3>2
    <3>4. /\ cxt'[a][n + 1].liveIn = <<t, n>> /\ cxt'[a][n + 1].liveOut = <<t, n>>
          /\ cxt'[a][n + 1].start = cxt[a][n + 1].start
          /\ cxt'[a][n + 1].max = cxt[a][n + 1].max
          /\ DOMAIN cxt'[a][n + 1] = DOMAIN cxt[a][n + 1]
      BY <1>3, <3>1, <3>2
    <3>5. \A l \in Level : l # n + 1 => cxt'[a][l] = cxt[a][l]
      BY <1>3, <3>1
    <3> HIDE DEF r, c
    <3> QED BY <2>2, <3>2, <3>3, <3>4, <3>5
  <2> QED BY <2>1, <2>2
<1> HIDE DEF r, c
<1>11. Forked(t)' = Forked(t) /\ Given(t)' = Given(t)
  BY <1>1, <1>2 DEF Forked, Given
<1>12. ArraysKept(t)
  BY <1>7 DEF ArraysKept
<1>13. RecordsOK'
  <2>1. RecordsOK /\ <<Root, -1>> \in DOMAIN array
    BY MemoryParts DEF TypeOK
  <2>2. \A q \in DOMAIN array' : DOMAIN array'[q] = DOMAIN NewArray
    BY <1>7, <2>1 DEF RecordsOK
  <2>3. \A u \in DOMAIN pc : \A l \in DOMAIN frame'[u] :
            \/ l \in DOMAIN frame[u] /\ DOMAIN frame'[u][l] = DOMAIN frame[u][l]
            \/ DOMAIN frame'[u][l] = {"iv", "max", "row", "out", "low", "chunk", "priv"}
    <3>1. DOMAIN r = {"iv", "max", "row", "out", "low", "chunk", "priv"}
      BY DEF r
    <3>2. \A l \in base[t] .. n : l = n \/ l \in base[t] .. n - 1
      BY <1>3
    <3> QED BY <1>3, <1>8, <3>1, <3>2
  <2>4. \A b \in DOMAIN cxt' : /\ b \in DOMAIN cxt
                                /\ DOMAIN cxt'[b] = DOMAIN cxt[b]
                                /\ \A l \in DOMAIN cxt[b] : DOMAIN cxt'[b][l] = DOMAIN cxt[b][l]
    BY <1>3, <1>9, <1>10
  <2>5. DOMAIN pc' = DOMAIN pc
    BY <1>1
  <2> QED BY <1>2, <1>7, <2>1, <2>2, <2>3, <2>4, <2>5, RecordsKept
<1>14. LevelsOK(t) /\ TopOK(t)
  BY <1>1, OwnFacts
<1>15. LevelsOK(t)'
  <2>1. Suspended(t)' = Suspended(t)
    BY <1>1, <1>2, <1>11 DEF Suspended
  <2>2. ASSUME NEW l \in Suspended(t) PROVE SuspendedAt(t, l)'
    <3>1. SuspendedAt(t, l) /\ l \in Level /\ l < n
      BY <1>1, <1>3, <1>14, LevelFacts DEF LevelsOK, Suspended
    <3>2. Cxt(t)[l]' = Cxt(t)[l]
      BY <1>2, <1>10, <3>1 DEF Cxt
    <3>3. l >= base[t] => frame'[t][l] = frame[t][l]
      BY <1>3, <1>8, <3>1, LevelFacts
    <3> QED BY <1>2, <1>11, <1>12, <3>1, <3>2, <3>3, SuspendedKept
  <2>3. ASSUME ~Forked(t), NEW l \in DOMAIN frame'[t], l < Leaf PROVE LinkedAt(t, l)'
    <3>1. CASE l = n
      <4>1. Leaf \notin DOMAIN frame'[t]
        BY <1>3, <1>8, <2>3, <3>1, LevelFacts
      <4> QED BY <1>2, <1>10, <2>3, <3>1, <4>1 DEF LinkedAt, Cxt
    <3>2. CASE l # n
      <4>1. l \in DOMAIN frame[t] /\ l + 1 <= n /\ l + 1 \in Level /\ Leaf \notin DOMAIN frame[t]
        BY <1>3, <1>8, <3>2, LevelFacts
      <4>2. /\ cxt[a][l + 1].liveIn = <<t, l>> /\ cxt[a][l + 1].liveOut = <<t, l>>
        BY <1>14, <2>3, <4>1 DEF LevelsOK, LinkedAt, Cxt
      <4>3. cxt'[a][l + 1].liveIn = <<t, l>>
        BY <1>3, <1>10, <4>1, <4>2
      <4>4. CASE l + 1 = Leaf
        <5>1. n = Leaf /\ Leaf \in DOMAIN frame'[t]
          BY <1>3, <1>8, <4>1, <4>4, LevelFacts
        <5>2. frame'[t][Leaf].out = <<t, l>>
          BY <1>8, <4>2, <4>4, <5>1 DEF r, c
        <5> QED BY <1>2, <4>3, <4>4, <5>1, <5>2 DEF LinkedAt, Cxt
      <4>5. CASE l + 1 # Leaf
        <5>1. cxt'[a][l + 1] = cxt[a][l + 1]
          BY <1>3, <1>10, <4>1, <4>5
        <5> QED BY <1>2, <4>2, <4>5, <5>1 DEF LinkedAt, Cxt
      <4> QED BY <4>4, <4>5
    <3> QED BY <3>1, <3>2
  <2>4. ASSUME NEW l \in 0 .. until[t] - 1 PROVE Cxt(t)[l]' = Cxt(t)[l]
    <3>1. l \in Level /\ l < n
      BY <1>3, LevelFacts
    <3> QED BY <1>2, <1>10, <3>1 DEF Cxt
  <2> QED BY <1>2, <1>11, <1>14, <2>1, <2>2, <2>3, <2>4 DEF LevelsOK
<1>16. TopOK(t)'
  <2>1. n < Given(t) /\ ReadableAt(t, n) /\ (Forked(t) => c.start >= c.max)
    BY <1>1, <1>14 DEF TopOK, Cxt, c
  <2>2. ASSUME NEW l, l = n PROVE ReadableAt(t, l)'
    <3>1. l \in Level /\ ReadableAt(t, l) /\ Cxt(t)[l].start \in Nat /\ Cxt(t)[l].max \in Nat
      BY <1>3, <2>1, <2>2 DEF ReadableAt
    <3>2. /\ Cxt(t)[l]'.max = Cxt(t)[l].max
          /\ Cxt(t)[l]'.liveIn = Cxt(t)[l].liveIn
          /\ Cxt(t)[l]'.start = Cxt(t)[l].start
      BY <1>2, <1>3, <1>10, <2>2, <3>1 DEF Cxt
    <3>3. Owned(t, {l - 1} \cup ({l} \cap {Leaf}), Cxt(t)[l].liveOut)'
      <4>1. CASE n = Leaf
        <5>1. Cxt(t)[l]'.liveOut = <<t, n>> /\ <<t, n>> \in DOMAIN array'
          BY <1>2, <1>7, <1>10, <2>2, <4>1 DEF Cxt
        <5> QED BY <2>2, <4>1, <5>1 DEF Owned
      <4>2. CASE n # Leaf
        <5>1. Cxt(t)[l]' = Cxt(t)[l]
          BY <1>2, <1>10, <2>2, <4>2 DEF Cxt
        <5>2. Owned(t, {l - 1} \cup ({l} \cap {Leaf}), Cxt(t)[l].liveOut)
          BY <3>1 DEF ReadableAt
        <5> QED BY <1>7, <5>1, <5>2 DEF Owned, Ancestors
      <4> QED BY <4>1, <4>2
    <3>4. Cxt(t)[l]'.start \in Nat /\ Cxt(t)[l].start <= Cxt(t)[l]'.start
          /\ Cxt(t)[l]'.max \in Nat /\ Cxt(t)[l]'.max <= Cxt(t)[l].max
      BY <3>1, <3>2
    <3> QED BY <1>12, <3>1, <3>2, <3>3, <3>4, ReadableMoved
  <2>3. Reg(t)' = r
    BY <1>2, <1>8 DEF Reg
  <2>4. c.liveIn \in DOMAIN array /\ c.start \in Nat
        /\ Bounds[array[c.liveIn].live].first <= c.start
    BY <2>1 DEF ReadableAt, Owned, Cxt, c
  <2>5. cxt'[a][n].max = c.max /\ cxt'[a][n].liveIn = c.liveIn /\ array'[c.liveIn] = array[c.liveIn]
    <3>1. n # n + 1
      BY <1>3
    <3>2. cxt'[a][n].max = c.max /\ cxt'[a][n].liveIn = c.liveIn
      BY <1>3, <1>10, <3>1 DEF c
    <3>3. array'[c.liveIn] = array[c.liveIn]
      BY <1>7, <2>4
    <3> QED BY <3>2, <3>3
  <2>6. FrameAt(t, n)'
    BY <1>2, <1>8, <2>5 DEF FrameAt, Cxt, r
  <2>7. /\ r.iv = c.start /\ r.max = c.max /\ r.row = array[c.liveIn].live
    BY DEF r
  <2> QED BY <1>1, <1>2, <1>11, <2>1, <2>2, <2>3, <2>4, <2>6, <2>7 DEF TopOK
<1>17. CodeOK(t)'
  BY <1>1 DEF CodeOK
<1>18. MemoryOK(t)'
  BY <1>1, <1>2, <1>11, OwnFacts DEF MemoryOK
<1>19. TaskInv(t)'
  BY <1>15, <1>16, <1>17, <1>18 DEF TaskInv
<1>20. \A l \in Level : l < until[t] => cxt'[a][l] = cxt[a][l]
  BY <1>3, <1>10, LevelFacts
<1> QED BY <1>1, <1>2, <1>7, <1>8, <1>9, <1>13, <1>19, <1>20, QuietMemory

\* A step within the innermost frame leaves the levels around it.
LEMMA LevelsKept ==
  ASSUME MemoryInv, NEW t \in DOMAIN pc, pc[t] # "done", pc'[t] # "back",
         base'[t] = base[t], top'[t] = top[t], until'[t] = until[t], area'[t] = area[t],
         Forked(t)' = Forked(t), Given(t)' = Given(t), ArraysKept(t),
         DOMAIN frame'[t] = DOMAIN frame[t],
         \A l \in DOMAIN frame[t] : l # top[t] => frame'[t][l] = frame[t][l],
         Leaf \in DOMAIN frame[t] => frame'[t][Leaf].out = frame[t][Leaf].out,
         \A l \in Level :
           /\ l < top[t] => cxt'[area[t]][l] = cxt[area[t]][l]
           /\ cxt'[area[t]][l].liveIn = cxt[area[t]][l].liveIn
           /\ cxt'[area[t]][l].liveOut = cxt[area[t]][l].liveOut,
         pc[t] \in {"header", "poll", "back"}
  PROVE  LevelsOK(t)'
<1>1. /\ LevelsOK(t) /\ base[t] \in Nat /\ top[t] \in Nat /\ top[t] <= Leaf
      /\ until[t] \in Nat /\ base[t] <= top[t] /\ until[t] <= base[t]
      /\ DOMAIN frame[t] = base[t] .. top[t]
  BY OwnFacts, GivenFacts DEF TaskOK
<1>2. ASSUME NEW l \in Suspended(t)' PROVE SuspendedAt(t, l)'
  <2>1. l \in until[t] .. top[t] /\ l < Given(t) /\ l # top[t]
    BY DEF Suspended
  <2>2. l \in Suspended(t) /\ l \in Level /\ l < top[t]
    BY <1>1, <2>1, LevelFacts DEF Suspended
  <2>3. SuspendedAt(t, l)
    BY <1>1, <2>2 DEF LevelsOK
  <2>4. Cxt(t)[l]' = Cxt(t)[l]
    BY <2>2 DEF Cxt
  <2>5. l >= base[t] => frame'[t][l] = frame[t][l]
    BY <1>1, <2>2, LevelFacts
  <2> QED BY <2>3, <2>4, <2>5, SuspendedKept
<1>3. ASSUME ~Forked(t), NEW l \in DOMAIN frame[t], l < Leaf PROVE LinkedAt(t, l)'
  <2>1. LinkedAt(t, l) /\ l + 1 \in Level
    BY <1>1, <1>3, LevelFacts DEF LevelsOK
  <2> QED BY <2>1 DEF LinkedAt, Cxt
<1>4. ASSUME NEW l \in 0 .. until[t] - 1 PROVE Cxt(t)[l]' = Cxt(t)[l]
  <2>1. l \in Level /\ l < top[t]
    BY <1>1, LevelFacts
  <2> QED BY <2>1 DEF Cxt
<1> QED BY <1>1, <1>2, <1>3, <1>4 DEF LevelsOK

LEMMA LeaveLoopMemory ==
  ASSUME MemoryInv, ControlInv', NEW t \in DOMAIN pc, LeaveLoop(t)
  PROVE  MemoryInv'
<1>1. /\ pc[t] = "header" /\ pc' = [pc EXCEPT ![t] = "exit"] /\ rc' = [rc EXCEPT ![t] = 0]
      /\ base' = base /\ top' = top /\ until' = until /\ area' = area /\ frame' = frame
      /\ array' = array /\ cxt' = cxt /\ tmem' = tmem /\ unpolled' = unpolled
  BY DEF LeaveLoop, At
<1>2. Forked(t)' = Forked(t) /\ Given(t)' = Given(t)
  BY <1>1 DEF Forked, Given
<1>3. ArraysKept(t)
  BY <1>1 DEF ArraysKept
<1>4. RecordsOK'
  BY <1>1, MemoryParts DEF RecordsOK
<1>5. LevelsOK(t)'
  BY <1>1, <1>2, <1>3, LevelsKept
<1>6. TopOK(t)'
  BY <1>1 DEF TopOK
<1>7. CodeOK(t)'
  <2>1. top[t] < Given(t) /\ Given(t) \in Int /\ top[t] \in Nat /\ rc'[t] = 0
    BY <1>1, OwnFacts, GivenFacts DEF TopOK
  <2> QED BY <1>1, <1>2, <2>1 DEF CodeOK
<1>8. MemoryOK(t)'
  BY <1>1, <1>2, OwnFacts DEF MemoryOK
<1>9. TaskInv(t)'
  BY <1>5, <1>6, <1>7, <1>8 DEF TaskInv
<1> QED BY <1>1, <1>4, <1>9, QuietMemory

\* The innermost frame of a task that goes on in its leaf loop.
LEMMA LeafFacts ==
  ASSUME MemoryInv, NEW t \in DOMAIN pc, pc[t] \in {"header", "poll"}, top[t] = Leaf
  PROVE  /\ DOMAIN frame[t] = base[t] .. Leaf /\ Leaf \in DOMAIN frame[t] /\ t \in DOMAIN frame
         /\ Reg(t) = frame[t][Leaf]
         /\ DOMAIN frame[t][Leaf] = {"iv", "max", "row", "out", "low", "chunk", "priv"}
         /\ ReadableAt(t, Leaf) /\ FrameAt(t, Leaf) /\ Leaf < Given(t) /\ ~Forked(t)
         /\ frame[t][Leaf].iv \in Nat /\ frame[t][Leaf].max \in Nat
         /\ Bounds[frame[t][Leaf].row].first <= frame[t][Leaf].iv
<1>1. /\ DOMAIN frame[t] = base[t] .. Leaf /\ TopOK(t) /\ t \in DOMAIN frame /\ RecordsOK
      /\ base[t] \in Nat /\ base[t] <= Leaf
  BY OwnFacts, GivenFacts, MemoryParts DEF TaskOK
<1>2. Leaf \in DOMAIN frame[t] /\ Reg(t) = frame[t][Leaf]
  BY <1>1, LevelFacts DEF Reg
<1>3. DOMAIN frame[t][Leaf] = {"iv", "max", "row", "out", "low", "chunk", "priv"}
  BY <1>1, <1>2 DEF RecordsOK
<1>4. ReadableAt(t, Leaf) /\ FrameAt(t, Leaf) /\ Leaf < Given(t)
      /\ frame[t][Leaf].iv \in Nat /\ Bounds[frame[t][Leaf].row].first <= frame[t][Leaf].iv
  BY <1>1, <1>2 DEF TopOK
<1>5. frame[t][Leaf].max \in Nat
  BY <1>4 DEF FrameAt, ReadableAt
<1>6. ~Forked(t)
  BY <1>4, GivenFacts, LevelFacts
<1> QED BY <1>1, <1>2, <1>3, <1>4, <1>5, <1>6

LEMMA RunChunkMemory ==
  ASSUME MemoryInv, ControlInv', NEW t \in DOMAIN pc, RunChunk(t)
  PROVE  MemoryInv'
<1> DEFINE a == area[t]
           m == tmem[a]
           r == frame[t][Leaf]
           high == IF r.iv + m.remaining < r.max THEN r.iv + m.remaining ELSE r.max
           done == {Append(r.row, i) : i \in r.iv .. high - 1}
           x == IF high - r.iv = m.remaining THEN "poll" ELSE "exit"
           y == [r EXCEPT !.low = high, !.chunk = m.remaining, !.priv = @ (+) SetToBag(done)]
<1>1. pc[t] = "header" /\ top[t] = Leaf /\ Reg(t) = r /\ r.iv < r.max
  BY DEF RunChunk, At, Reg
<1>2. /\ pc' = [pc EXCEPT ![t] = x] /\ rc' = [rc EXCEPT ![t] = 0]
      /\ base' = base /\ top' = top /\ until' = until /\ area' = area
      /\ array' = array /\ cxt' = cxt
  BY <1>1 DEF RunChunk
<1>3. /\ tmem' = [tmem EXCEPT ![a].remaining = Allowance(m, high - r.iv)]
      /\ unpolled' = [unpolled EXCEPT ![a] = @ + high - r.iv]
  BY <1>1 DEF RunChunk
<1>4. frame' = [frame EXCEPT ![t][Leaf] = y]
  <2> DEFINE High(v) == IF v.iv + m.remaining < v.max THEN v.iv + m.remaining ELSE v.max
             Done(v) == {Append(v.row, i) : i \in v.iv .. High(v) - 1}
             New(v)  == [frame EXCEPT ![t][Leaf] =
                          [frame[t][Leaf] EXCEPT !.low = High(v), !.chunk = m.remaining,
                             !.priv = v.priv (+) SetToBag(Done(v))]]
  <2>1. frame' = New(Reg(t))
    BY DEF RunChunk
  <2> HIDE DEF New
  <2>2. frame' = New(r)
    BY <1>1, <2>1
  <2> QED BY <2>2 DEF New
<1>5. /\ DOMAIN frame[t] = base[t] .. Leaf /\ Leaf \in DOMAIN frame[t] /\ t \in DOMAIN frame
      /\ DOMAIN r = {"iv", "max", "row", "out", "low", "chunk", "priv"}
      /\ ReadableAt(t, Leaf) /\ FrameAt(t, Leaf) /\ Leaf < Given(t) /\ ~Forked(t)
      /\ r.iv \in Nat /\ r.max \in Nat /\ Bounds[r.row].first <= r.iv
  BY <1>1, LeafFacts
<1>6. /\ a \in DOMAIN tmem /\ a \in DOMAIN unpolled /\ MemoryOK(t)
      /\ DOMAIN m = {"starting", "chunksize", "remaining"}
  BY <1>1, OwnFacts
<1>7. /\ m.starting = until[t] /\ m.chunksize \in Nat /\ m.remaining \in 1 .. m.chunksize
      /\ unpolled[a] = m.chunksize - m.remaining
  BY <1>1, <1>5, <1>6 DEF MemoryOK
<1>8. /\ high \in Nat /\ r.iv < high /\ high <= r.max /\ high - r.iv <= m.remaining
      /\ high - r.iv = m.remaining => high = r.iv + m.remaining
      /\ m.remaining \in Nat \ {0}
  BY <1>1, <1>5, <1>7
<1>9. /\ tmem'[a].starting = m.starting /\ tmem'[a].chunksize = m.chunksize
      /\ tmem'[a].remaining = Allowance(m, high - r.iv)
      /\ unpolled'[a] = unpolled[a] + high - r.iv
      /\ \A b \in DOMAIN tmem \ {a} : tmem'[b] = tmem[b]
      /\ \A b \in DOMAIN unpolled \ {a} : unpolled'[b] = unpolled[b]
      /\ DOMAIN tmem' = DOMAIN tmem
  BY <1>3, <1>6
<1>10. /\ DOMAIN frame'[t] = DOMAIN frame[t] /\ frame'[t][Leaf] = y
       /\ \A l \in DOMAIN frame[t] \ {Leaf} : frame'[t][l] = frame[t][l]
       /\ \A u \in DOMAIN pc \ {t} : frame'[u] = frame[u]
  <2> HIDE DEF y
  <2>1. DOMAIN frame = DOMAIN pc
    BY <1>1, OwnFacts
  <2> QED BY <1>4, <1>5, <2>1
<1>11. /\ y.iv = r.iv /\ y.max = r.max /\ y.row = r.row /\ y.out = r.out /\ y.low = high
       /\ y.chunk = m.remaining /\ DOMAIN y = DOMAIN r
  BY <1>5
<1> HIDE DEF y
<1>12. Forked(t)' = Forked(t) /\ Given(t)' = Given(t)
  BY <1>2 DEF Forked, Given
<1>13. ArraysKept(t)
  BY <1>2 DEF ArraysKept
<1>14. x \in {"poll", "exit"} /\ pc'[t] = x
  BY <1>2
<1>15. RecordsOK'
  <2>1. RecordsOK
    BY MemoryParts
  <2>2. \A b \in DOMAIN tmem' : b \in DOMAIN tmem /\ tmem'[b].chunksize = tmem[b].chunksize
    BY <1>9
  <2>3. \A u \in DOMAIN pc : \A l \in DOMAIN frame'[u] :
            l \in DOMAIN frame[u] /\ DOMAIN frame'[u][l] = DOMAIN frame[u][l]
    BY <1>10, <1>11
  <2>4. \A q \in DOMAIN array' : DOMAIN array'[q] = DOMAIN NewArray
    BY <1>2, <2>1 DEF RecordsOK
  <2>5. DOMAIN pc' = DOMAIN pc
    BY <1>2
  <2> QED BY <1>2, <2>1, <2>2, <2>3, <2>4, <2>5, RecordsKept
<1>16. LevelsOK(t)'
  <2>1. Leaf \in DOMAIN frame[t] => frame'[t][Leaf].out = frame[t][Leaf].out
    BY <1>10, <1>11
  <2> HIDE DEF x, r
  <2> QED BY <1>1, <1>2, <1>5, <1>10, <1>12, <1>13, <1>14, <2>1, LevelsKept
<1>17. TopOK(t)'
  <2>1. CASE x = "exit"
    BY <1>14, <2>1 DEF TopOK
  <2>2. CASE x = "poll"
    <3>1. high = r.iv + m.remaining
      BY <1>8, <2>2
    <3>2. ASSUME NEW l, l = Leaf PROVE ReadableAt(t, l)'
      <4>1. Cxt(t)[l]' = Cxt(t)[l]
        BY <1>2 DEF Cxt
      <4> QED BY <1>5, <1>13, <3>2, <4>1, ReadableKept
    <3>3. FrameAt(t, Leaf)'
      BY <1>2, <1>5, <1>10, <1>11 DEF FrameAt, Cxt
    <3>4. Reg(t)' = y
      BY <1>1, <1>2, <1>10 DEF Reg
    <3> HIDE DEF x, r, high
    <3> QED BY <1>1, <1>2, <1>5, <1>8, <1>11, <1>12, <1>14, <2>2, <3>1, <3>2, <3>3, <3>4 DEF TopOK
  <2> QED BY <1>14, <2>1, <2>2
<1>18. CodeOK(t)'
  <2>1. rc'[t] = 0
    BY <1>1, <1>2, OwnFacts
  <2>2. Given(t) \in Int
    BY GivenFacts
  <2> QED BY <1>1, <1>2, <1>5, <1>12, <1>14, <2>1, <2>2, LevelFacts DEF CodeOK
<1>19. MemoryOK(t)'
  <2>1. /\ unpolled[a] = m.chunksize - m.remaining
        /\ unpolled'[a] = m.chunksize - m.remaining + (high - r.iv)
    BY <1>7, <1>8, <1>9, <1>5
  <2>2. CASE high - r.iv = m.remaining
    <3>1. x = "poll" /\ tmem'[a].remaining = m.chunksize
      BY <1>9, <2>2 DEF Allowance
    <3>2. unpolled'[a] = m.chunksize
      BY <1>7, <2>1, <2>2
    <3>3. m.chunksize \in 1 .. m.chunksize
      BY <1>7
    <3> HIDE DEF x, high
    <3> QED BY <1>2, <1>5, <1>7, <1>9, <1>12, <1>14, <3>1, <3>2, <3>3 DEF MemoryOK
  <2>3. CASE high - r.iv # m.remaining
    <3>1. x = "exit" /\ tmem'[a].remaining = m.remaining - (high - r.iv)
      BY <1>9, <2>3 DEF Allowance
    <3>2. /\ tmem'[a].remaining \in 1 .. m.chunksize
          /\ unpolled'[a] = m.chunksize - tmem'[a].remaining
      <4> DEFINE d == high - r.iv
      <4>1. d \in Nat /\ d > 0 /\ d <= m.remaining /\ d # m.remaining
        BY <1>5, <1>8, <2>3
      <4>2. tmem'[a].remaining = m.remaining - d /\ unpolled'[a] = m.chunksize - m.remaining + d
        BY <2>1, <3>1
      <4> HIDE DEF d
      <4>3. m.chunksize \in Nat /\ m.remaining \in Nat /\ m.remaining <= m.chunksize
        BY <1>7
      <4> HIDE DEF m, a
      <4> QED BY <4>1, <4>2, <4>3
    <3> HIDE DEF x, high
    <3> QED BY <1>2, <1>5, <1>7, <1>9, <1>12, <1>14, <3>1, <3>2 DEF MemoryOK
  <2> QED BY <2>2, <2>3
<1>20. TaskInv(t)'
  BY <1>16, <1>17, <1>18, <1>19 DEF TaskInv
<1>21. DOMAIN tmem = DOMAIN cxt /\ DOMAIN unpolled = DOMAIN cxt
  BY MemoryParts DEF AreasOK
<1> HIDE DEF x
<1> QED BY <1>1, <1>2, <1>9, <1>10, <1>14, <1>15, <1>20, <1>21, QuietMemory

\* The latch of the leaf: the handler may have written the context before.
LEMMA LatchMemory ==
  ASSUME MemoryInv, ControlInv', NEW t \in DOMAIN pc, pc[t] = "poll", Latch(t),
         UNCHANGED <<rc, base, top, until, area, array, tmem>>,
         cxt' = cxt \/ cxt' = [cxt EXCEPT ![area[t]] = Polled(t)]
  PROVE  MemoryInv'
<1> DEFINE a == area[t]
           r == frame[t][Leaf]
           y == [r EXCEPT !.iv = r.iv + r.chunk]
<1>1. /\ pc' = [pc EXCEPT ![t] = "header"] /\ unpolled' = [unpolled EXCEPT ![a] = 0]
      /\ rc' = rc /\ base' = base /\ top' = top /\ until' = until /\ area' = area
      /\ array' = array /\ tmem' = tmem
  BY DEF Latch
<1>2. top[t] = Leaf /\ TopOK(t) /\ MemoryOK(t)
  BY OwnFacts DEF TopOK
<1>3. /\ DOMAIN frame[t] = base[t] .. Leaf /\ Leaf \in DOMAIN frame[t] /\ t \in DOMAIN frame
      /\ DOMAIN r = {"iv", "max", "row", "out", "low", "chunk", "priv"} /\ Reg(t) = r
      /\ ReadableAt(t, Leaf) /\ FrameAt(t, Leaf) /\ Leaf < Given(t) /\ ~Forked(t)
      /\ r.iv \in Nat /\ r.max \in Nat /\ Bounds[r.row].first <= r.iv
  BY <1>2, LeafFacts
<1>4. r.chunk \in Nat \ {0} /\ r.low = r.iv + r.chunk /\ r.low <= r.max
  BY <1>2, <1>3 DEF TopOK
<1>5. frame' = [frame EXCEPT ![t][Leaf] = y]
  BY <1>3 DEF Latch
<1>6. /\ y.iv = r.low /\ y.max = r.max /\ y.row = r.row /\ y.out = r.out /\ DOMAIN y = DOMAIN r
  BY <1>3, <1>4
<1> HIDE DEF y
<1>7. /\ DOMAIN frame'[t] = DOMAIN frame[t] /\ frame'[t][Leaf] = y
      /\ \A l \in DOMAIN frame[t] \ {Leaf} : frame'[t][l] = frame[t][l]
      /\ \A u \in DOMAIN pc \ {t} : frame'[u] = frame[u]
  <2>1. DOMAIN frame = DOMAIN pc
    BY OwnFacts
  <2> QED BY <1>3, <1>5, <2>1
<1>8. /\ a \in DOMAIN cxt /\ DOMAIN cxt[a] = Level /\ Leaf \in Level
      /\ \A l \in Level : DOMAIN cxt[a][l] = {"start", "max", "liveIn", "liveOut"}
  BY LevelFacts, OwnFacts
<1>9. /\ DOMAIN cxt' = DOMAIN cxt /\ \A b \in DOMAIN cxt \ {a} : cxt'[b] = cxt[b]
      /\ DOMAIN cxt'[a] = Level
      /\ \A l \in Level : /\ DOMAIN cxt'[a][l] = DOMAIN cxt[a][l]
                          /\ l # Leaf => cxt'[a][l] = cxt[a][l]
                          /\ cxt'[a][l].max = cxt[a][l].max
                          /\ cxt'[a][l].liveIn = cxt[a][l].liveIn
                          /\ cxt'[a][l].liveOut = cxt[a][l].liveOut
                          /\ \/ cxt'[a][l].start = cxt[a][l].start
                             \/ l = Leaf /\ cxt'[a][l].start = r.low - 1
  <2>1. CASE cxt' = cxt
    BY <1>8, <2>1
  <2>2. CASE cxt' = [cxt EXCEPT ![area[t]] = Polled(t)]
    <3>1. Polled(t) = [cxt[a] EXCEPT ![Leaf].start = r.low - 1]
      BY <1>3 DEF Polled, Cxt
    <3>2. cxt'[a] = [cxt[a] EXCEPT ![Leaf].start = r.low - 1]
      BY <1>8, <2>2, <3>1
    <3> HIDE DEF r
    <3> QED BY <1>8, <2>2, <3>2
  <2> QED BY <2>1, <2>2
<1> HIDE DEF r
<1>10. Forked(t)' = Forked(t) /\ Given(t)' = Given(t)
  BY <1>1 DEF Forked, Given
<1>11. ArraysKept(t)
  BY <1>1 DEF ArraysKept
<1>12. pc'[t] = "header" /\ unpolled'[a] = 0
  BY <1>1, OwnFacts
<1>13. RecordsOK'
  <2>1. RecordsOK
    BY MemoryParts
  <2>2. \A u \in DOMAIN pc : \A l \in DOMAIN frame'[u] :
            l \in DOMAIN frame[u] /\ DOMAIN frame'[u][l] = DOMAIN frame[u][l]
    BY <1>6, <1>7 DEF r
  <2>3. \A q \in DOMAIN array' : DOMAIN array'[q] = DOMAIN NewArray
    BY <1>1, <2>1 DEF RecordsOK
  <2>4. DOMAIN pc' = DOMAIN pc
    BY <1>1
  <2>5. \A b \in DOMAIN cxt' : /\ b \in DOMAIN cxt
                                /\ DOMAIN cxt'[b] = DOMAIN cxt[b]
                                /\ \A l \in DOMAIN cxt[b] : DOMAIN cxt'[b][l] = DOMAIN cxt[b][l]
    BY <1>8, <1>9
  <2> QED BY <1>1, <2>1, <2>2, <2>3, <2>4, <2>5, RecordsKept
<1>14. LevelsOK(t)'
  <2>1. Leaf \in DOMAIN frame[t] => frame'[t][Leaf].out = frame[t][Leaf].out
    BY <1>6, <1>7 DEF r
  <2>2. \A l \in Level : l < Leaf => l # Leaf
    BY LevelFacts
  <2>3. \A l \in Level :
           /\ l < top[t] => cxt'[area[t]][l] = cxt[area[t]][l]
           /\ cxt'[area[t]][l].liveIn = cxt[area[t]][l].liveIn
           /\ cxt'[area[t]][l].liveOut = cxt[area[t]][l].liveOut
    BY <1>2, <1>9, <2>2
  <2>4. \A l \in DOMAIN frame[t] : l # top[t] => frame'[t][l] = frame[t][l]
    BY <1>2, <1>7
  <2> QED BY <1>1, <1>7, <1>10, <1>11, <1>12, <2>1, <2>3, <2>4, LevelsKept
<1>15. TopOK(t)'
  <2>1. ASSUME NEW l, l = Leaf PROVE ReadableAt(t, l)'
    <3>1. ReadableAt(t, l) /\ Cxt(t)[l].start \in Nat /\ Cxt(t)[l].max \in Nat
          /\ Owned(t, {l - 1} \cup ({l} \cap {Leaf}), Cxt(t)[l].liveOut)
      BY <1>3, <2>1 DEF ReadableAt
    <3>2. /\ Cxt(t)[l]'.max = Cxt(t)[l].max
          /\ Cxt(t)[l]'.liveIn = Cxt(t)[l].liveIn
          /\ Cxt(t)[l]'.liveOut = Cxt(t)[l].liveOut
          /\ \/ Cxt(t)[l]'.start = Cxt(t)[l].start
             \/ Cxt(t)[l]'.start = r.low - 1
      BY <1>1, <1>8, <1>9, <2>1 DEF Cxt
    <3>3. Owned(t, {l - 1} \cup ({l} \cap {Leaf}), Cxt(t)[l].liveOut)'
      BY <1>1, <3>1, <3>2 DEF Owned, Ancestors
    <3>4. r.low - 1 \in Nat /\ r.iv <= r.low - 1
      BY <1>3, <1>4 DEF r
    <3>5. /\ Bounds[array[Cxt(t)[l].liveIn].live].first <= r.low - 1
      <4>1. r.row = array[Cxt(t)[l].liveIn].live
        BY <1>3, <2>1 DEF FrameAt, r
      <4>2. r.row \in DOMAIN Bounds
        BY <3>1, <4>1 DEF ReadableAt
      <4>3. Bounds[r.row].first \in Nat
        BY <4>2, NestAssumption
      <4> QED BY <1>3, <3>4, <4>1, <4>3 DEF r
    <3>6. /\ Cxt(t)[l]'.start \in Nat /\ Cxt(t)[l]'.max <= Cxt(t)[l].max
          /\ \/ Cxt(t)[l].start <= Cxt(t)[l]'.start
             \/ Bounds[array[Cxt(t)[l].liveIn].live].first <= Cxt(t)[l]'.start
      BY <3>1, <3>2, <3>4, <3>5
    <3> QED BY <1>11, <3>1, <3>2, <3>3, <3>6, ReadableMoved
  <2>2. Reg(t)' = y
    BY <1>1, <1>2, <1>7 DEF Reg
  <2>3. FrameAt(t, Leaf)'
    <3>1. r.max = cxt[a][Leaf].max /\ r.row = array[cxt[a][Leaf].liveIn].live
      BY <1>3 DEF FrameAt, Cxt, r
    <3>2. cxt'[a][Leaf].max = cxt[a][Leaf].max /\ cxt'[a][Leaf].liveIn = cxt[a][Leaf].liveIn
      BY <1>8, <1>9
    <3>3. Cxt(t)' = cxt'[a] /\ array' = array
      BY <1>1 DEF Cxt
    <3>4. frame'[t][Leaf].max = r.max /\ frame'[t][Leaf].row = r.row
      BY <1>6, <1>7
    <3> HIDE DEF a
    <3> QED BY <3>1, <3>2, <3>3, <3>4 DEF FrameAt
  <2>4. r.low \in Nat /\ Bounds[r.row].first <= r.low
    <3>1. r.row \in DOMAIN Bounds
      BY <1>3 DEF FrameAt, ReadableAt, r
    <3>2. Bounds[r.row].first \in Nat
      BY <3>1, NestAssumption
    <3> QED BY <1>3, <1>4, <3>2 DEF r
  <2> QED BY <1>1, <1>2, <1>3, <1>6, <1>10, <1>12, <2>1, <2>2, <2>3, <2>4 DEF TopOK
<1>16. CodeOK(t)'
  BY <1>12 DEF CodeOK
<1>17. MemoryOK(t)'
  <2>1. tmem[a].remaining = tmem[a].chunksize /\ tmem[a].chunksize \in Nat
    BY <1>2, <1>3 DEF MemoryOK
  <2>2. tmem[a].chunksize - tmem[a].remaining = 0
    BY <2>1
  <2> QED BY <1>1, <1>2, <1>3, <1>10, <1>12, <2>1, <2>2 DEF MemoryOK
<1>18. TaskInv(t)'
  BY <1>14, <1>15, <1>16, <1>17 DEF TaskInv
<1>19. \A l \in Level : l < until[t] => cxt'[a][l] = cxt[a][l]
  <2>1. until[t] \in Nat /\ until[t] <= Leaf
    BY GivenFacts, LevelFacts
  <2> QED BY <1>9, <2>1, LevelFacts
<1>20. \A b \in DOMAIN cxt \ {a} : tmem'[b] = tmem[b] /\ unpolled'[b] = unpolled[b]
  <2>1. DOMAIN unpolled = DOMAIN cxt
    BY MemoryParts DEF AreasOK
  <2> QED BY <1>1, <2>1
<1> QED BY <1>1, <1>7, <1>9, <1>12, <1>13, <1>18, <1>19, <1>20, QuietMemory

LEMMA NoHeartbeatMemory ==
  ASSUME MemoryInv, ControlInv', NEW t \in DOMAIN pc, NoHeartbeat(t)
  PROVE  MemoryInv'
  BY LatchMemory DEF NoHeartbeat, At

LEMMA HeartbeatIgnoredMemory ==
  ASSUME MemoryInv, ControlInv', NEW t \in DOMAIN pc, HeartbeatIgnored(t)
  PROVE  MemoryInv'
  BY LatchMemory DEF HeartbeatIgnored, At

LEMMA BackMemory ==
  ASSUME MemoryInv, ControlInv', NEW t \in DOMAIN pc, Back(t)
  PROVE  MemoryInv'
<1> DEFINE a == area[t]
           n == top[t]
           r == frame[t][n]
<1>1. /\ pc[t] = "back"
      /\ rc' = rc /\ base' = base /\ top' = top /\ until' = until /\ area' = area
      /\ array' = array /\ tmem' = tmem /\ cxt' = cxt /\ unpolled' = unpolled
  BY DEF Back, At
<1>2. \/ rc[t] > 0 /\ pc' = [pc EXCEPT ![t] = "exit"] /\ frame' = frame
      \/ /\ ~(rc[t] > 0) /\ pc' = [pc EXCEPT ![t] = "header"]
         /\ frame' = [frame EXCEPT ![t][n].iv = r.iv + 1]
  BY DEF Back
<1>3. /\ DOMAIN frame[t] = base[t] .. n /\ n \in DOMAIN frame[t] /\ t \in DOMAIN frame
      /\ DOMAIN frame = DOMAIN pc /\ n \in Level
      /\ LevelsOK(t) /\ CodeOK(t) /\ MemoryOK(t) /\ rc[t] \in Int
      /\ Given(t) \in Int /\ n \in Nat /\ until[t] <= n
  <2>1. /\ DOMAIN frame[t] = base[t] .. n /\ t \in DOMAIN frame /\ DOMAIN frame = DOMAIN pc
        /\ n \in Level /\ LevelsOK(t) /\ CodeOK(t) /\ MemoryOK(t)
    BY <1>1, OwnFacts DEF TaskOK
  <2>2. /\ rc[t] \in Int /\ Given(t) \in Int /\ n \in Nat /\ until[t] \in Nat
        /\ base[t] \in Nat /\ base[t] <= n /\ until[t] <= base[t]
    BY GivenFacts
  <2>3. n \in DOMAIN frame[t] /\ until[t] <= n
    BY <2>1, <2>2
  <2> QED BY <2>1, <2>2, <2>3
<1>4. DOMAIN r = {"iv", "max", "row", "out", "low", "chunk", "priv"}
  BY <1>3, MemoryParts DEF RecordsOK
<1>5. /\ DOMAIN frame'[t] = DOMAIN frame[t]
      /\ \A l \in DOMAIN frame[t] \ {n} : frame'[t][l] = frame[t][l]
      /\ \A u \in DOMAIN pc \ {t} : frame'[u] = frame[u]
      /\ DOMAIN frame'[t][n] = DOMAIN r
      /\ frame'[t][n].max = r.max /\ frame'[t][n].row = r.row /\ frame'[t][n].out = r.out
      /\ ~(rc[t] > 0) => frame'[t][n].iv = r.iv + 1
  <2>1. CASE frame' = frame /\ rc[t] > 0
    BY <2>1
  <2>2. CASE frame' = [frame EXCEPT ![t][n].iv = r.iv + 1]
    <3> DEFINE y == [r EXCEPT !.iv = r.iv + 1]
    <3>1. /\ y.iv = r.iv + 1 /\ y.max = r.max /\ y.row = r.row /\ y.out = r.out
          /\ DOMAIN y = DOMAIN r
      BY <1>4
    <3>2. frame' = [frame EXCEPT ![t][n] = y]
      BY <2>2
    <3> HIDE DEF y
    <3>3. /\ DOMAIN frame'[t] = DOMAIN frame[t] /\ frame'[t][n] = y
          /\ \A l \in DOMAIN frame[t] \ {n} : frame'[t][l] = frame[t][l]
          /\ \A u \in DOMAIN pc \ {t} : frame'[u] = frame[u]
      BY <1>3, <3>2
    <3> QED BY <3>1, <3>3
  <2> QED BY <1>2, <2>1, <2>2
<1>6. Forked(t)' = Forked(t) /\ Given(t)' = Given(t)
  BY <1>1, <1>2 DEF Forked, Given
<1>7. ArraysKept(t)
  BY <1>1 DEF ArraysKept
<1>8. /\ DOMAIN pc' = DOMAIN pc /\ pc'[t] \in {"exit", "header"}
      /\ \A u \in DOMAIN pc \ {t} : pc'[u] = pc[u]
      /\ pc'[t] = "exit" <=> rc[t] > 0
  BY <1>2
<1>9. RecordsOK'
  <2>1. RecordsOK
    BY MemoryParts
  <2>2. \A u \in DOMAIN pc : \A l \in DOMAIN frame'[u] :
            l \in DOMAIN frame[u] /\ DOMAIN frame'[u][l] = DOMAIN frame[u][l]
    BY <1>5
  <2>3. \A q \in DOMAIN array' : DOMAIN array'[q] = DOMAIN NewArray
    BY <1>1, <2>1 DEF RecordsOK
  <2> QED BY <1>1, <1>8, <2>1, <2>2, <2>3, RecordsKept
<1>10. LevelsOK(t)'
  <2>1. \A l \in DOMAIN frame[t] : frame'[t][l].out = frame[t][l].out
    BY <1>5
  <2> QED BY <1>1, <1>5, <1>6, <1>7, <1>8, <2>1, LevelsKept
<1>11. TopOK(t)'
  <2>1. CASE pc'[t] = "exit"
    BY <2>1 DEF TopOK
  <2>2. CASE pc'[t] = "header"
    <3>1. ~(rc[t] > 0) /\ n < Given(t)
      BY <1>1, <1>3, <1>8, <2>2 DEF CodeOK
    <3>2. n \in Suspended(t)
      BY <1>1, <1>3, <3>1, GivenFacts DEF Suspended
    <3>3. SuspendedAt(t, n)
      BY <1>3, <3>2 DEF LevelsOK
    <3>4. /\ ReadableAt(t, n) /\ FrameAt(t, n) /\ r.iv = Cxt(t)[n].start
          /\ r.iv < r.max /\ (Forked(t) => r.iv + 1 = r.max)
          /\ r.iv \in Nat /\ r.max \in Nat /\ Bounds[r.row].first <= r.iv
          /\ r.row \in DOMAIN Bounds
      BY <1>1, <3>3, GivenFacts DEF SuspendedAt, ReadableAt, FrameAt
    <3>5. Bounds[r.row].first \in Nat
      BY <3>4, NestAssumption
    <3>6. ASSUME NEW l, l = n PROVE ReadableAt(t, l)'
      <4>1. Cxt(t)[l]' = Cxt(t)[l]
        BY <1>1 DEF Cxt
      <4> QED BY <1>7, <3>4, <3>6, <4>1, ReadableKept
    <3>7. FrameAt(t, n)'
      BY <1>1, <1>5, <3>4 DEF FrameAt, Cxt
    <3>8. Reg(t)' = frame'[t][n]
      BY <1>1 DEF Reg
    <3>9. /\ frame'[t][n].iv = r.iv + 1 /\ frame'[t][n].max = r.max /\ frame'[t][n].row = r.row
      BY <1>5, <3>1
    <3> HIDE DEF r
    <3>10. /\ r.iv + 1 \in Nat /\ Bounds[r.row].first <= r.iv + 1
           /\ (Forked(t) => r.iv + 1 >= r.max)
      BY <3>4, <3>5
    <3> QED BY <1>1, <1>6, <2>2, <3>1, <3>6, <3>7, <3>8, <3>9, <3>10 DEF TopOK
  <2> QED BY <1>8, <2>1, <2>2
<1>12. CodeOK(t)'
  <2>1. CASE rc[t] > 0
    <3>1. rc[t] = n - Given(t) + 1 /\ n - Given(t) + 1 > 0
      BY <1>1, <1>3, <2>1 DEF CodeOK
    <3> QED BY <1>1, <1>6, <1>8, <2>1, <3>1 DEF CodeOK
  <2>2. CASE ~(rc[t] > 0)
    BY <1>8, <2>2 DEF CodeOK
  <2> QED BY <2>1, <2>2
<1>13. MemoryOK(t)'
  BY <1>1, <1>3, <1>6, <1>8 DEF MemoryOK
<1>14. TaskInv(t)'
  BY <1>10, <1>11, <1>12, <1>13 DEF TaskInv
<1> QED BY <1>1, <1>5, <1>8, <1>9, <1>14, QuietMemory

\* The arrays of the levels below n, and of the ancestors, are kept.
ArraysBelow(t, n) ==
  \A q \in DOMAIN array : q = <<Root, -1>> \/ q[1] \in Ancestors(t) \/ (q[1] = t /\ q[2] < n)
    => q \in DOMAIN array' /\ array'[q].live = array[q].live

LEMMA ReadableBelow ==
  ASSUME NEW t, NEW l \in Int, ReadableAt(t, l), ArraysBelow(t, l),
         Cxt(t)[l]'.liveIn = Cxt(t)[l].liveIn,
         Owned(t, {l - 1} \cup ({l} \cap {Leaf}), Cxt(t)[l].liveOut)',
         Cxt(t)[l]'.start \in Nat,
         \/ Cxt(t)[l].start <= Cxt(t)[l]'.start
         \/ Bounds[array[Cxt(t)[l].liveIn].live].first <= Cxt(t)[l]'.start,
         Cxt(t)[l]'.max \in Nat, Cxt(t)[l]'.max <= Cxt(t)[l].max
  PROVE  ReadableAt(t, l)' /\ array'[Cxt(t)[l]'.liveIn].live = array[Cxt(t)[l].liveIn].live
<1> DEFINE c == Cxt(t)[l]
           row == array[c.liveIn].live
<1>1. /\ c.start \in Nat /\ c.max \in Nat
      /\ Owned(t, {l - 1}, c.liveIn)
      /\ row \in DOMAIN Bounds /\ Len(row) = l
      /\ Bounds[row].first <= c.start /\ c.max <= Bounds[row].last
  BY DEF ReadableAt
<1>2. array'[c.liveIn].live = row /\ c.liveIn \in DOMAIN array'
  <2>1. /\ c.liveIn \in DOMAIN array
        /\ \/ c.liveIn = <<Root, -1>> \/ c.liveIn[1] \in Ancestors(t)
           \/ c.liveIn[1] = t /\ c.liveIn[2] = l - 1
    BY <1>1 DEF Owned
  <2>2. \/ c.liveIn = <<Root, -1>> \/ c.liveIn[1] \in Ancestors(t)
        \/ c.liveIn[1] = t /\ c.liveIn[2] < l
    BY <2>1
  <2> QED BY <2>1, <2>2 DEF ArraysBelow
<1>3. Bounds[row].first \in Nat /\ Bounds[row].last \in Nat
  BY <1>1, NestAssumption
<1>4. Bounds[row].first <= c'.start /\ c'.max <= Bounds[row].last
  BY <1>1, <1>3
<1>5. c'.liveIn = c.liveIn
  OBVIOUS
<1>6. Owned(t, {l - 1}, Cxt(t)[l].liveIn)'
  BY <1>1, <1>2, <1>5 DEF Owned, Ancestors
<1>7. /\ c'.start \in Nat /\ c'.max \in Nat
      /\ array'[c'.liveIn].live \in DOMAIN Bounds /\ Len(array'[c'.liveIn].live) = l
      /\ Bounds[array'[c'.liveIn].live].first <= c'.start
      /\ c'.max <= Bounds[array'[c'.liveIn].live].last
  BY <1>1, <1>2, <1>4, <1>5
<1>8. array'[c'.liveIn].live = row
  BY <1>2, <1>5
<1>9. ReadableAt(t, l)'
  BY <1>6, <1>7 DEF ReadableAt
<1> QED BY <1>8, <1>9

LEMMA SuspendedBelow ==
  ASSUME NEW t, NEW l \in Int, l # Leaf, SuspendedAt(t, l), ArraysBelow(t, l),
         Cxt(t)[l]' = Cxt(t)[l], Forked(t)' = Forked(t),
         l >= base'[t] => l >= base[t] /\ frame'[t][l] = frame[t][l]
  PROVE  SuspendedAt(t, l)'
<1>1. ReadableAt(t, l) /\ Cxt(t)[l].start \in Nat /\ Cxt(t)[l].max \in Nat
  BY DEF SuspendedAt, ReadableAt
<1>2. \A q : Owned(t, {l - 1} \cup ({l} \cap {Leaf}), q) =>
        /\ q \in DOMAIN array'
        /\ q = <<Root, -1>> \/ q[1] \in Ancestors(t) \/ (q[1] = t /\ q[2] = l - 1)
  <2>1. l - 1 < l
    OBVIOUS
  <2>2. {l - 1} \cup ({l} \cap {Leaf}) = {l - 1}
    OBVIOUS
  <2> QED BY <2>1, <2>2 DEF Owned, ArraysBelow
<1>3. Owned(t, {l - 1} \cup ({l} \cap {Leaf}), Cxt(t)[l].liveOut)'
  <2>1. Owned(t, {l - 1} \cup ({l} \cap {Leaf}), Cxt(t)[l].liveOut)
    BY <1>1 DEF ReadableAt
  <2> QED BY <1>2, <2>1 DEF Owned, Ancestors
<1>4. ReadableAt(t, l)' /\ array'[Cxt(t)[l]'.liveIn].live = array[Cxt(t)[l].liveIn].live
  <2>1. /\ Cxt(t)[l]'.liveIn = Cxt(t)[l].liveIn
        /\ Cxt(t)[l]'.start \in Nat /\ Cxt(t)[l].start <= Cxt(t)[l]'.start
        /\ Cxt(t)[l]'.max \in Nat /\ Cxt(t)[l]'.max <= Cxt(t)[l].max
    BY <1>1
  <2> QED BY <1>1, <1>3, <2>1, ReadableBelow
<1>5. l >= base'[t] => FrameAt(t, l)' /\ frame'[t][l].iv = Cxt(t)[l]'.start
  BY <1>4 DEF SuspendedAt, FrameAt
<1> QED BY <1>4, <1>5 DEF SuspendedAt

LEMMA CallNestedMemory ==
  ASSUME MemoryInv, ControlInv', NEW t \in DOMAIN pc, CallNested(t)
  PROVE  MemoryInv'
<1> DEFINE a == area[t]
           n == top[t]
           r == frame[t][n]
           h == Append(r.row, r.iv)
<1>1. /\ pc[t] = "header" /\ n < Leaf /\ Reg(t) = r /\ Here(t) = h /\ r.iv < r.max
      /\ pc' = [pc EXCEPT ![t] = "enter"] /\ top' = [top EXCEPT ![t] = n + 1]
      /\ rc' = rc /\ base' = base /\ until' = until /\ area' = area /\ frame' = frame
      /\ tmem' = tmem /\ unpolled' = unpolled
  BY DEF CallNested, At, Reg, Here
<1>2. /\ array' = [array EXCEPT ![<<t, n>>].live = h]
      /\ cxt' = [cxt EXCEPT ![a][n].start = r.iv, ![a][n + 1].start = Bounds[h].first,
                            ![a][n + 1].max = Bounds[h].last]
  BY DEF CallNested, Reg, Here
<1>3. /\ a \in DOMAIN cxt /\ DOMAIN cxt[a] = Level /\ n \in Level
      /\ \A l \in Level : DOMAIN cxt[a][l] = {"start", "max", "liveIn", "liveOut"}
      /\ DOMAIN frame[t] = base[t] .. n /\ t \in DOMAIN top
      /\ LevelsOK(t) /\ TopOK(t) /\ MemoryOK(t)
  BY <1>1, OwnFacts DEF TaskOK
<1>4. /\ base[t] \in Nat /\ n \in Nat /\ base[t] <= n /\ until[t] \in Nat /\ until[t] <= base[t]
      /\ n \in DOMAIN frame[t] /\ n + 1 \in Level
  <2>1. base[t] \in Nat /\ n \in Nat /\ base[t] <= n /\ until[t] \in Nat /\ until[t] <= base[t]
    BY GivenFacts
  <2> QED BY <1>1, <1>3, <2>1, LevelFacts
<1>5. /\ ReadableAt(t, n) /\ FrameAt(t, n) /\ r.iv \in Nat /\ Bounds[r.row].first <= r.iv
      /\ (Forked(t) => r.iv >= r.max)
      /\ r.max = cxt[a][n].max /\ r.row = array[cxt[a][n].liveIn].live
  BY <1>1, <1>3 DEF TopOK, FrameAt, Cxt
<1>6. /\ cxt[a][n].start \in Nat /\ cxt[a][n].max \in Nat
      /\ r.row \in DOMAIN Bounds /\ Len(r.row) = n /\ r.max <= Bounds[r.row].last /\ r.max \in Nat
      /\ Owned(t, {n - 1}, cxt[a][n].liveIn)
      /\ Owned(t, {n - 1} \cup ({n} \cap {Leaf}), cxt[a][n].liveOut)
  BY <1>5 DEF ReadableAt, Cxt
<1> HIDE DEF r
<1>7. ~Forked(t) /\ Given(t) = Leaf + 1
  <2>1. r.iv < r.max /\ r.iv \in Nat /\ r.max \in Nat
    BY <1>1, <1>5, <1>6
  <2>2. ~(r.iv >= r.max)
    BY <2>1
  <2>3. ~Forked(t)
    BY <1>5, <2>2
  <2> QED BY <2>3, GivenFacts
<1>8. h \in DOMAIN Bounds /\ Len(h) = n + 1 /\ Bounds[h].first \in Nat /\ Bounds[h].last \in Nat
  <2> HIDE DEF h
  <2>1. Bounds[r.row].first \in Nat /\ Bounds[r.row].last \in Nat
    BY <1>6, NestAssumption
  <2>2. r.iv \in Bounds[r.row].first .. Bounds[r.row].last - 1
    <3>1. r.iv < r.max /\ r.iv \in Nat /\ r.max \in Nat
      BY <1>1, <1>5, <1>6
    <3>2. Bounds[r.row].first <= r.iv /\ r.max <= Bounds[r.row].last
      BY <1>5, <1>6
    <3> QED BY <2>1, <3>1, <3>2
  <2>3. h \in Iterations
    BY <1>6, <2>2 DEF Iterations, Calls, h
  <2>4. Len(h) = n + 1
    <3>1. r.row \in Seq(Nat) /\ r.iv \in Nat /\ Len(r.row) = n
      BY <1>5, <1>6, NestAssumption
    <3> QED BY <3>1 DEF h
  <2>5. Len(h) <= Leaf
    BY <1>1, <1>4, <2>4, LevelFacts
  <2>6. h \in DOMAIN Bounds
    BY <2>3, <2>5, NestAssumption
  <2> QED BY <2>4, <2>6, NestAssumption
<1> HIDE DEF h
<1>9. /\ DOMAIN cxt' = DOMAIN cxt /\ \A b \in DOMAIN cxt \ {a} : cxt'[b] = cxt[b]
      /\ DOMAIN cxt'[a] = Level
      /\ \A l \in Level : /\ DOMAIN cxt'[a][l] = DOMAIN cxt[a][l]
                          /\ l # n /\ l # n + 1 => cxt'[a][l] = cxt[a][l]
                          /\ l # n + 1 => cxt'[a][l].max = cxt[a][l].max
                          /\ cxt'[a][l].liveIn = cxt[a][l].liveIn
                          /\ cxt'[a][l].liveOut = cxt[a][l].liveOut
      /\ cxt'[a][n].start = r.iv
      /\ cxt'[a][n + 1].start = Bounds[h].first /\ cxt'[a][n + 1].max = Bounds[h].last
  <2>1. n # n + 1
    BY <1>4
  <2>2. cxt'[a] = [cxt[a] EXCEPT ![n] = [cxt[a][n] EXCEPT !.start = r.iv],
            ![n + 1] = [cxt[a][n + 1] EXCEPT !.start = Bounds[h].first, !.max = Bounds[h].last]]
    BY <1>2, <1>3, <1>4, <2>1
  <2>3. DOMAIN cxt' = DOMAIN cxt /\ \A b \in DOMAIN cxt \ {a} : cxt'[b] = cxt[b]
    BY <1>2
  <2> QED BY <1>3, <1>4, <2>1, <2>2, <2>3
<1>10. <<t, n>> \in DOMAIN array
  BY <1>3, <1>4, ArrayOfFrame
<1>11. /\ DOMAIN array' = DOMAIN array
       /\ \A q \in DOMAIN array \ {<<t, n>>} : array'[q] = array[q]
       /\ \A q \in DOMAIN array : DOMAIN array'[q] = DOMAIN NewArray
       /\ array'[<<t, n>>].live = h
  <2>1. \A q \in DOMAIN array : DOMAIN array[q] = {"live", "slots"}
    BY MemoryParts DEF RecordsOK, NewArray
  <2> QED BY <1>2, <1>10, <2>1 DEF NewArray
<1>12. /\ DOMAIN pc' = DOMAIN pc /\ pc'[t] = "enter" /\ top'[t] = n + 1
       /\ \A u \in DOMAIN pc \ {t} : pc'[u] = pc[u] /\ top'[u] = top[u]
  BY <1>1, <1>3
<1>13. Forked(t)' = Forked(t) /\ Given(t)' = Given(t)
  BY <1>1, <1>12 DEF Forked, Given
<1>14. t \in Paths /\ t \notin Ancestors(t)
  <2>1. t \in Paths
    BY <1>1, OwnFacts
  <2> QED BY <2>1, AncestorFacts
<1>15. ASSUME NEW l \in Int, l <= n PROVE ArraysBelow(t, l)
  <2>1. ASSUME NEW q \in DOMAIN array,
               q = <<Root, -1>> \/ q[1] \in Ancestors(t) \/ (q[1] = t /\ q[2] < l)
        PROVE  q # <<t, n>>
    BY <1>4, <1>14, <1>15, <2>1
  <2> QED BY <1>11, <2>1 DEF ArraysBelow
<1>16. RecordsOK'
  <2>1. RecordsOK /\ <<Root, -1>> # <<t, n>> /\ <<Root, -1>> \in DOMAIN array
    BY <1>4, MemoryParts DEF TypeOK
  <2>2. \A b \in DOMAIN cxt' : /\ b \in DOMAIN cxt
                                /\ DOMAIN cxt'[b] = DOMAIN cxt[b]
                                /\ \A l \in DOMAIN cxt[b] : DOMAIN cxt'[b][l] = DOMAIN cxt[b][l]
    BY <1>3, <1>9
  <2>3. array'[<<Root, -1>>].live = array[<<Root, -1>>].live
    BY <1>11, <2>1
  <2> QED BY <1>1, <1>11, <1>12, <2>1, <2>2, <2>3, RecordsKept
<1>17. LevelsOK(t)'
  <2>1. ASSUME NEW l \in Suspended(t)' PROVE SuspendedAt(t, l)'
    <3>1. l \in until[t] .. n + 1 /\ l < Given(t) /\ l # n + 1
      BY <1>1, <1>12, <1>13 DEF Suspended
    <3>2. l \in Int /\ l <= n /\ l \in Level
      BY <1>4, <3>1, LevelFacts
    <3>3. CASE l = n
      <4>1. /\ Cxt(t)[l]'.liveIn = Cxt(t)[l].liveIn /\ Cxt(t)[l]'.liveOut = Cxt(t)[l].liveOut
            /\ Cxt(t)[l]'.start = r.iv /\ Cxt(t)[l]'.max = Cxt(t)[l].max
        BY <1>1, <1>4, <1>9, <3>2, <3>3 DEF Cxt
      <4>2. Owned(t, {l - 1}, Cxt(t)[l].liveOut) /\ l # Leaf
        <5>1. l # Leaf
          BY <1>1, <1>4, <3>3, LevelFacts
        <5>2. {l - 1} \cup ({l} \cap {Leaf}) = {l - 1}
          BY <5>1
        <5>3. Owned(t, {l - 1} \cup ({l} \cap {Leaf}), Cxt(t)[l].liveOut)
          BY <1>6, <3>3 DEF Cxt
        <5> QED BY <5>1, <5>2, <5>3
      <4>3. Owned(t, {l - 1} \cup ({l} \cap {Leaf}), Cxt(t)[l].liveOut)'
        BY <1>11, <4>1, <4>2 DEF Owned, Ancestors
      <4>4. /\ Cxt(t)[l]'.start \in Nat /\ Cxt(t)[l]'.max \in Nat
            /\ Cxt(t)[l]'.max <= Cxt(t)[l].max
            /\ Bounds[array[Cxt(t)[l].liveIn].live].first <= Cxt(t)[l]'.start
        <5>1. r.iv \in Nat /\ cxt[a][l].max \in Nat /\ Cxt(t)[l] = cxt[a][l]
          BY <1>5, <1>6, <3>3 DEF Cxt
        <5>2. Bounds[array[Cxt(t)[l].liveIn].live].first <= r.iv
          BY <1>5, <3>3 DEF Cxt
        <5> QED BY <4>1, <5>1, <5>2
      <4>5. ReadableAt(t, l)' /\ array'[Cxt(t)[l]'.liveIn].live = array[Cxt(t)[l].liveIn].live
        BY <1>5, <1>15, <3>2, <3>3, <4>1, <4>3, <4>4, ReadableBelow
      <4>6. frame'[t][l] = r
        BY <1>1, <3>3 DEF r
      <4>7. FrameAt(t, l)' /\ frame'[t][l].iv = Cxt(t)[l]'.start
            /\ Cxt(t)[l]'.start < Cxt(t)[l]'.max
        BY <1>1, <1>5, <3>3, <4>1, <4>5, <4>6 DEF FrameAt, Cxt
      <4> QED BY <1>7, <1>13, <4>5, <4>7 DEF SuspendedAt
    <3>4. CASE l # n
      <4>1. l \in Suspended(t)
        BY <1>4, <3>1, <3>2, <3>4 DEF Suspended
      <4>2. SuspendedAt(t, l)
        BY <1>3, <4>1 DEF LevelsOK
      <4>3. Cxt(t)[l]' = Cxt(t)[l]
        BY <1>1, <1>9, <3>1, <3>2, <3>4 DEF Cxt
      <4>4. l # Leaf
        BY <1>1, <1>4, <3>2, LevelFacts
      <4> QED BY <1>1, <1>13, <1>15, <3>2, <4>2, <4>3, <4>4, SuspendedBelow
    <3> QED BY <3>3, <3>4
  <2>2. ASSUME NEW l \in DOMAIN frame[t], l < Leaf PROVE LinkedAt(t, l)'
    <3>1. LinkedAt(t, l) /\ l + 1 \in Level /\ Leaf \notin DOMAIN frame[t]
      BY <1>1, <1>3, <1>4, <1>7, <2>2, LevelFacts DEF LevelsOK
    <3> QED BY <1>1, <1>9, <3>1 DEF LinkedAt, Cxt
  <2>3. ASSUME NEW l \in 0 .. until[t] - 1 PROVE Cxt(t)[l]' = Cxt(t)[l]
    <3>1. l \in Level /\ l # n /\ l # n + 1
      BY <1>3, <1>4, LevelFacts
    <3> QED BY <1>1, <1>9, <3>1 DEF Cxt
  <2> QED BY <1>1, <1>3, <2>1, <2>2, <2>3 DEF LevelsOK
<1>18. TopOK(t)'
  <2>1. ASSUME NEW l, l = n + 1 PROVE ReadableAt(t, l)'
    <3>1. LinkedAt(t, n) /\ Leaf \notin DOMAIN frame[t]
      BY <1>1, <1>3, <1>4, <1>7, LevelFacts DEF LevelsOK
    <3>2. Cxt(t)[l].liveIn = <<t, n>> /\ Cxt(t)[l].liveOut = <<t, n>>
      BY <2>1, <3>1 DEF LinkedAt
    <3>3. /\ Cxt(t)[l]'.liveIn = <<t, n>> /\ Cxt(t)[l]'.liveOut = <<t, n>>
          /\ Cxt(t)[l]'.start = Bounds[h].first /\ Cxt(t)[l]'.max = Bounds[h].last
      BY <1>1, <1>4, <1>9, <2>1, <3>2 DEF Cxt
    <3>4. l - 1 = n /\ <<t, n>> \in DOMAIN array'
      BY <1>4, <1>10, <1>11, <2>1
    <3>6. Bounds[h].first <= Bounds[h].first /\ Bounds[h].last <= Bounds[h].last
      BY <1>8
    <3>7. array'[Cxt(t)[l]'.liveIn].live = h
      BY <1>11, <3>3
    <3>8. /\ Owned(t, {l - 1}, Cxt(t)[l].liveIn)'
          /\ Owned(t, {l - 1} \cup ({l} \cap {Leaf}), Cxt(t)[l].liveOut)'
      BY <3>3, <3>4 DEF Owned
    <3> QED BY <1>8, <2>1, <3>3, <3>6, <3>7, <3>8 DEF ReadableAt
  <2>2. n + 1 < Given(t)
    BY <1>1, <1>4, <1>7, LevelFacts
  <2> QED BY <1>7, <1>12, <1>13, <2>1, <2>2 DEF TopOK
<1>19. CodeOK(t)'
  BY <1>12 DEF CodeOK
<1>20. MemoryOK(t)'
  BY <1>1, <1>3, <1>7, <1>12, <1>13 DEF MemoryOK
<1>21. TaskInv(t)'
  BY <1>17, <1>18, <1>19, <1>20 DEF TaskInv
<1>22. \A l \in Level : l < until[t] => cxt'[a][l] = cxt[a][l]
  BY <1>4, <1>9, LevelFacts
<1>23. \A q \in DOMAIN array : q = <<Root, -1>> \/ q[1] # t
           => q \in DOMAIN array' /\ array'[q].live = array[q].live
  BY <1>4, <1>11
<1> QED BY <1>1, <1>9, <1>12, <1>16, <1>21, <1>22, <1>23, QuietMemory

\* What is left when a slice has returned.
LEMMA ExitMemory ==
  ASSUME MemoryInv, NEW t \in DOMAIN pc, Exit(t)
  PROVE  LET n == top[t] IN
         /\ pc[t] = "exit" /\ until' = until /\ area' = area /\ tmem' = tmem /\ unpolled' = unpolled
         /\ \A q \in DOMAIN array : q # <<t, n>> => q \in DOMAIN array' /\ array'[q].live = array[q].live
         /\ \A q \in DOMAIN array' : DOMAIN array'[q] = DOMAIN NewArray
         /\ array'[<<Root, -1>>].live = array[<<Root, -1>>].live
         /\ \A l \in Int : l <= n => ArraysBelow(t, l)
         /\ \A u \in DOMAIN pc \ {t} : frame'[u] = frame[u]
         /\ DOMAIN frame'[t] = base[t] .. n - 1
         /\ \A l \in base[t] .. n - 1 : l \in DOMAIN frame[t] /\ frame'[t][l] = frame[t][l]
<1> DEFINE n == top[t]
           put == IF n = Leaf
                  THEN [array EXCEPT ![Reg(t).out].slots[MyIndex(t)] = Reduced(t)] ELSE array
<1>1. /\ pc[t] = "exit" /\ until' = until /\ area' = area /\ tmem' = tmem /\ unpolled' = unpolled
      /\ array' = [q \in DOMAIN array \ {<<t, n>>} |-> put[q]]
      /\ frame' = [frame EXCEPT ![t] = [k \in DOMAIN frame[t] \ {n} |-> frame[t][k]]]
  BY DEF Exit, At
<1>2. /\ DOMAIN frame[t] = base[t] .. n /\ n \in Nat /\ base[t] \in Nat /\ base[t] <= n
      /\ DOMAIN frame = DOMAIN pc /\ t \in Paths
  BY <1>1, OwnFacts, GivenFacts DEF TaskOK
<1>3. \A q \in DOMAIN array : DOMAIN array[q] = {"live", "slots"}
  BY MemoryParts DEF RecordsOK, NewArray
<1>4. \A q \in DOMAIN array : put[q].live = array[q].live /\ DOMAIN put[q] = {"live", "slots"}
  <2>1. CASE n # Leaf
    BY <1>3, <2>1
  <2>2. CASE n = Leaf
    <3> DEFINE o == Reg(t).out
               s == [array[o].slots EXCEPT ![MyIndex(t)] = Reduced(t)]
               v == [array[o] EXCEPT !.slots = s]
    <3>1. put = [array EXCEPT ![o] = v]
      BY <2>2
    <3> HIDE DEF s, o
    <3>2. o \in DOMAIN array => v.live = array[o].live /\ DOMAIN v = {"live", "slots"}
      BY <1>3
    <3> HIDE DEF v, put
    <3> QED BY <1>3, <3>1, <3>2
  <2> QED BY <2>1, <2>2
<1> HIDE DEF put
<1>5. /\ DOMAIN array' = DOMAIN array \ {<<t, n>>}
      /\ \A q \in DOMAIN array : q # <<t, n>> => q \in DOMAIN array' /\ array'[q].live = array[q].live
      /\ \A q \in DOMAIN array' : DOMAIN array'[q] = DOMAIN NewArray
  BY <1>1, <1>4 DEF NewArray
<1>6. array'[<<Root, -1>>].live = array[<<Root, -1>>].live
  <2>1. <<Root, -1>> \in DOMAIN array /\ <<Root, -1>> # <<t, n>>
    BY <1>2, MemoryParts DEF TypeOK
  <2> QED BY <1>5, <2>1
<1>7. t \notin Ancestors(t)
  BY <1>2, AncestorFacts
<1>8. ASSUME NEW l \in Int, l <= n PROVE ArraysBelow(t, l)
  <2>1. ASSUME NEW q \in DOMAIN array,
               q = <<Root, -1>> \/ q[1] \in Ancestors(t) \/ (q[1] = t /\ q[2] < l)
        PROVE  q # <<t, n>>
    BY <1>2, <1>7, <1>8, <2>1
  <2> QED BY <1>5, <2>1 DEF ArraysBelow
<1>9. frame'[t] = [k \in DOMAIN frame[t] \ {n} |-> frame[t][k]]
      /\ \A u \in DOMAIN pc \ {t} : frame'[u] = frame[u]
  BY <1>1, <1>2
<1>10. (base[t] .. n) \ {n} = base[t] .. n - 1
  BY <1>2
<1>11. /\ DOMAIN frame'[t] = base[t] .. n - 1
       /\ \A l \in base[t] .. n - 1 : l \in DOMAIN frame[t] /\ frame'[t][l] = frame[t][l]
  BY <1>2, <1>9, <1>10
<1> QED BY <1>1, <1>5, <1>6, <1>8, <1>9, <1>11

\* The context when the slice has put the live-out array of the leaf back.
LEMMA RestoredFacts ==
  ASSUME MemoryInv, NEW t \in DOMAIN pc, pc[t] = "exit"
  PROVE  /\ area[t] \in DOMAIN cxt /\ DOMAIN cxt[area[t]] = Level /\ DOMAIN Restored(t) = Level
         /\ \A l \in Level :
              /\ DOMAIN Restored(t)[l] = {"start", "max", "liveIn", "liveOut"}
              /\ DOMAIN Restored(t)[l] = DOMAIN cxt[area[t]][l]
              /\ l < top[t] \/ l # Leaf => Restored(t)[l] = cxt[area[t]][l]
              /\ Restored(t)[l].start = cxt[area[t]][l].start
              /\ Restored(t)[l].max = cxt[area[t]][l].max
              /\ Restored(t)[l].liveIn = cxt[area[t]][l].liveIn
              /\ Restored(t)[l].liveOut =
                   IF l = Leaf /\ top[t] = Leaf THEN frame[t][Leaf].out ELSE cxt[area[t]][l].liveOut
<1>1. /\ area[t] \in DOMAIN cxt /\ DOMAIN cxt[area[t]] = Level
      /\ \A l \in Level : DOMAIN cxt[area[t]][l] = {"start", "max", "liveIn", "liveOut"}
      /\ top[t] \in Level
  BY OwnFacts
<1>2. Restored(t) = IF top[t] = Leaf THEN [cxt[area[t]] EXCEPT ![Leaf].liveOut = frame[t][Leaf].out]
                    ELSE cxt[area[t]]
  BY DEF Restored, Cxt, Reg
<1>3. Leaf \in Level /\ ~(Leaf < Leaf)
  BY LevelFacts
<1>4. CASE top[t] = Leaf
  BY <1>1, <1>2, <1>3, <1>4
<1>5. CASE top[t] # Leaf
  BY <1>1, <1>2, <1>3, <1>5
<1> QED BY <1>4, <1>5

LEMMA ReturnFromTaskMemory ==
  ASSUME MemoryInv, ControlInv', NEW t \in DOMAIN pc, ReturnFromTask(t)
  PROVE  MemoryInv'
<1> DEFINE a == area[t]
           n == top[t]
<1>1. /\ Exit(t) /\ cxt' = [cxt EXCEPT ![a] = Restored(t)] /\ pc' = [pc EXCEPT ![t] = "done"]
      /\ base' = base /\ top' = top /\ rc' = rc
  BY DEF ReturnFromTask
<1>2. /\ pc[t] = "exit" /\ until' = until /\ area' = area /\ tmem' = tmem /\ unpolled' = unpolled
      /\ \A q \in DOMAIN array : q # <<t, n>> => q \in DOMAIN array' /\ array'[q].live = array[q].live
      /\ \A q \in DOMAIN array' : DOMAIN array'[q] = DOMAIN NewArray
      /\ array'[<<Root, -1>>].live = array[<<Root, -1>>].live
      /\ \A u \in DOMAIN pc \ {t} : frame'[u] = frame[u]
      /\ DOMAIN frame'[t] = base[t] .. n - 1
      /\ \A l \in base[t] .. n - 1 : l \in DOMAIN frame[t] /\ frame'[t][l] = frame[t][l]
  BY <1>1, ExitMemory
<1>3. /\ until[t] \in Nat /\ n \in Nat /\ until[t] <= n /\ n <= Leaf /\ t \in Paths
  BY <1>2, GivenFacts, OwnFacts
<1>4. /\ DOMAIN cxt' = DOMAIN cxt /\ cxt'[a] = Restored(t)
      /\ \A b \in DOMAIN cxt \ {a} : cxt'[b] = cxt[b]
  BY <1>1, <1>2, RestoredFacts
<1>5. /\ DOMAIN pc' = DOMAIN pc /\ pc'[t] = "done"
      /\ \A u \in DOMAIN pc \ {t} : pc'[u] = pc[u]
  BY <1>1
<1>6. RecordsOK'
  <2>1. RecordsOK
    BY MemoryParts
  <2>2. \A b \in DOMAIN cxt' : /\ b \in DOMAIN cxt
                                /\ DOMAIN cxt'[b] = DOMAIN cxt[b]
                                /\ \A l \in DOMAIN cxt[b] : DOMAIN cxt'[b][l] = DOMAIN cxt[b][l]
    BY <1>2, <1>4, RestoredFacts
  <2>3. \A u \in DOMAIN pc : \A l \in DOMAIN frame'[u] :
            l \in DOMAIN frame[u] /\ DOMAIN frame'[u][l] = DOMAIN frame[u][l]
    BY <1>2
  <2> QED BY <1>2, <1>5, <2>1, <2>2, <2>3, RecordsKept
<1>7. \A l \in Level : l < until[t] => cxt'[a][l] = cxt[a][l]
  <2>1. \A l \in Level : l < until[t] => l < n
    BY <1>3, LevelFacts
  <2> QED BY <1>2, <1>4, <2>1, RestoredFacts
<1>8. \A q \in DOMAIN array : q = <<Root, -1>> \/ q[1] # t
           => q \in DOMAIN array' /\ array'[q].live = array[q].live
  BY <1>2, <1>3
<1> QED BY <1>1, <1>2, <1>4, <1>5, <1>6, <1>7, <1>8, QuietMemory

LEMMA ReturnToCallerMemory ==
  ASSUME MemoryInv, ControlInv', NEW t \in DOMAIN pc, ReturnToCaller(t)
  PROVE  MemoryInv'
<1> DEFINE a == area[t]
           n == top[t]
<1>1. /\ Exit(t) /\ cxt' = [cxt EXCEPT ![a] = Restored(t)] /\ pc' = [pc EXCEPT ![t] = "back"]
      /\ base' = base /\ top' = [top EXCEPT ![t] = n - 1] /\ rc' = [rc EXCEPT ![t] = rc[t] - 1]
      /\ n > base[t]
  BY DEF ReturnToCaller
<1>2. /\ pc[t] = "exit" /\ until' = until /\ area' = area /\ tmem' = tmem /\ unpolled' = unpolled
      /\ \A q \in DOMAIN array : q # <<t, n>> => q \in DOMAIN array' /\ array'[q].live = array[q].live
      /\ \A q \in DOMAIN array' : DOMAIN array'[q] = DOMAIN NewArray
      /\ array'[<<Root, -1>>].live = array[<<Root, -1>>].live
      /\ \A l \in Int : l <= n => ArraysBelow(t, l)
      /\ \A u \in DOMAIN pc \ {t} : frame'[u] = frame[u]
      /\ DOMAIN frame'[t] = base[t] .. n - 1
      /\ \A l \in base[t] .. n - 1 : l \in DOMAIN frame[t] /\ frame'[t][l] = frame[t][l]
  BY <1>1, ExitMemory
<1>3. /\ until[t] \in Nat /\ base[t] \in Nat /\ n \in Nat /\ until[t] <= base[t] /\ n <= Leaf
      /\ Given(t) \in Int /\ rc[t] \in Int /\ t \in Paths /\ LevelsOK(t) /\ CodeOK(t) /\ MemoryOK(t)
      /\ DOMAIN frame[t] = base[t] .. n
      /\ t \in DOMAIN rc /\ t \in DOMAIN top
  BY <1>2, GivenFacts, OwnFacts DEF TaskOK
<1>4. /\ DOMAIN cxt' = DOMAIN cxt /\ cxt'[a] = Restored(t)
      /\ \A b \in DOMAIN cxt \ {a} : cxt'[b] = cxt[b]
  BY <1>1, <1>2, RestoredFacts
<1>5. /\ DOMAIN pc' = DOMAIN pc /\ pc'[t] = "back" /\ top'[t] = n - 1 /\ rc'[t] = rc[t] - 1
      /\ \A u \in DOMAIN pc \ {t} : pc'[u] = pc[u] /\ top'[u] = top[u] /\ rc'[u] = rc[u]
  BY <1>1, <1>3
<1>6. Forked(t)' = Forked(t) /\ Given(t)' = Given(t)
  BY <1>2, <1>5 DEF Forked, Given
<1>7. RecordsOK'
  <2>1. RecordsOK
    BY MemoryParts
  <2>2. \A b \in DOMAIN cxt' : /\ b \in DOMAIN cxt
                                /\ DOMAIN cxt'[b] = DOMAIN cxt[b]
                                /\ \A l \in DOMAIN cxt[b] : DOMAIN cxt'[b][l] = DOMAIN cxt[b][l]
    BY <1>2, <1>4, RestoredFacts
  <2>3. \A u \in DOMAIN pc : \A l \in DOMAIN frame'[u] :
            l \in DOMAIN frame[u] /\ DOMAIN frame'[u][l] = DOMAIN frame[u][l]
    BY <1>2
  <2> QED BY <1>2, <1>5, <2>1, <2>2, <2>3, RecordsKept
<1>8. \A l \in Level : l < n => cxt'[a][l] = cxt[a][l]
  BY <1>2, <1>4, RestoredFacts
<1>9. LevelsOK(t)'
  <2>1. ASSUME NEW l \in Suspended(t)' PROVE SuspendedAt(t, l)'
    <3>1. l \in until[t] .. n - 1 /\ l < Given(t)
      BY <1>2, <1>5, <1>6 DEF Suspended
    <3>2. l \in Int /\ l < n /\ l <= n /\ l \in Level /\ l # Leaf /\ l # n
      BY <1>3, <3>1, LevelFacts
    <3>3. l \in until[t] .. n
      BY <1>3, <3>1
    <3>4. SuspendedAt(t, l)
      BY <1>3, <3>1, <3>2, <3>3 DEF LevelsOK, Suspended
    <3>5. Cxt(t)[l]' = Cxt(t)[l]
      BY <1>2, <1>8, <3>2 DEF Cxt
    <3>6. l >= base'[t] => l >= base[t] /\ frame'[t][l] = frame[t][l]
      BY <1>1, <1>2, <1>3, <3>1
    <3> QED BY <1>2, <1>6, <3>2, <3>4, <3>5, <3>6, SuspendedBelow
  <2>2. ASSUME ~Forked(t), NEW l \in DOMAIN frame'[t], l < Leaf PROVE LinkedAt(t, l)'
    <3>1. l \in base[t] .. n - 1 /\ l \in DOMAIN frame[t]
      BY <1>2
    <3>2. LinkedAt(t, l) /\ l + 1 \in Level /\ l \in Nat /\ l < n
      BY <1>3, <2>2, <3>1, LevelFacts DEF LevelsOK
    <3>3. Cxt(t)[l + 1]'.liveIn = <<t, l>>
      BY <1>2, <1>4, <3>2, RestoredFacts DEF LinkedAt, Cxt
    <3>4. Leaf \notin DOMAIN frame'[t]
      BY <1>2, <1>3, LevelFacts
    <3>5. CASE l + 1 = Leaf
      <4>1. n = Leaf /\ Leaf \in DOMAIN frame[t]
        BY <1>1, <1>3, <3>2, <3>5, LevelFacts
      <4>2. frame[t][Leaf].out = <<t, l>>
        BY <3>2, <3>5, <4>1 DEF LinkedAt
      <4>3. Cxt(t)[l + 1]'.liveOut = <<t, l>>
        BY <1>2, <1>4, <3>2, <3>5, <4>1, <4>2, RestoredFacts DEF Cxt
      <4> QED BY <3>3, <3>4, <4>3 DEF LinkedAt
    <3>6. CASE l + 1 # Leaf
      <4>1. Cxt(t)[l + 1].liveOut = <<t, l>>
        BY <3>2, <3>6 DEF LinkedAt
      <4>2. Cxt(t)[l + 1]'.liveOut = <<t, l>>
        BY <1>2, <1>4, <3>2, <3>6, <4>1, RestoredFacts DEF Cxt
      <4> QED BY <3>3, <3>6, <4>2 DEF LinkedAt
    <3> QED BY <3>5, <3>6
  <2>3. ASSUME NEW l \in 0 .. until[t] - 1 PROVE Cxt(t)[l]' = Cxt(t)[l]
    <3>1. l \in Level /\ l < n
      BY <1>1, <1>3, LevelFacts
    <3> QED BY <1>2, <1>8, <3>1 DEF Cxt
  <2> QED BY <1>2, <1>3, <1>6, <2>1, <2>2, <2>3 DEF LevelsOK
<1>10. TopOK(t)'
  BY <1>5 DEF TopOK
<1>11. CodeOK(t)'
  <2> DEFINE given == n - Given(t) + 1
  <2>1. given \in Int /\ n - 1 - Given(t) + 1 = given - 1
    BY <1>3
  <2>2. rc[t] = IF given > 0 THEN given ELSE 0
    BY <1>2, <1>3 DEF CodeOK
  <2>3. IF given - 1 > 0 THEN rc[t] - 1 = given - 1 ELSE rc[t] - 1 <= 0
    <3> HIDE DEF given
    <3> QED BY <2>1, <2>2
  <2> QED BY <1>5, <1>6, <2>1, <2>3 DEF CodeOK
<1>12. MemoryOK(t)'
  BY <1>2, <1>3, <1>5, <1>6 DEF MemoryOK
<1>13. TaskInv(t)'
  BY <1>9, <1>10, <1>11, <1>12 DEF TaskInv
<1>14. \A l \in Level : l < until[t] => cxt'[a][l] = cxt[a][l]
  <2>1. \A l \in Level : l < until[t] => l < n
    BY <1>1, <1>3, LevelFacts
  <2> QED BY <1>8, <2>1
<1>15. \A q \in DOMAIN array : q = <<Root, -1>> \/ q[1] # t
           => q \in DOMAIN array' /\ array'[q].live = array[q].live
  BY <1>2, <1>3
<1> QED BY <1>1, <1>2, <1>4, <1>5, <1>7, <1>13, <1>14, <1>15, QuietMemory

LEMMA ReturnToLeftoverMemory ==
  ASSUME MemoryInv, ControlInv', NEW t \in DOMAIN pc, ReturnToLeftover(t)
  PROVE  MemoryInv'
<1> DEFINE a == area[t]
           n == top[t]
           up == n - 1
<1>1. /\ Exit(t) /\ pc' = [pc EXCEPT ![t] = "enter"] /\ rc' = rc
      /\ base' = [base EXCEPT ![t] = up] /\ top' = [top EXCEPT ![t] = up]
      /\ n = base[t] /\ n > until[t] /\ ~(rc[t] - 1 > 0)
      /\ cxt' = [cxt EXCEPT ![a] = [Restored(t) EXCEPT ![up].start = AfterSuspended(Restored(t)[up].start)]]
  BY DEF ReturnToLeftover, EndsLeftover
<1>2. /\ pc[t] = "exit" /\ until' = until /\ area' = area /\ tmem' = tmem /\ unpolled' = unpolled
      /\ \A q \in DOMAIN array : q # <<t, n>> => q \in DOMAIN array' /\ array'[q].live = array[q].live
      /\ \A q \in DOMAIN array' : DOMAIN array'[q] = DOMAIN NewArray
      /\ array'[<<Root, -1>>].live = array[<<Root, -1>>].live
      /\ \A l \in Int : l <= n => ArraysBelow(t, l)
      /\ \A u \in DOMAIN pc \ {t} : frame'[u] = frame[u]
      /\ DOMAIN frame'[t] = base[t] .. n - 1
      /\ \A l \in base[t] .. n - 1 : l \in DOMAIN frame[t] /\ frame'[t][l] = frame[t][l]
  BY <1>1, ExitMemory
<1>3. /\ until[t] \in Nat /\ n \in Nat /\ n <= Leaf
      /\ Given(t) \in Int /\ rc[t] \in Int /\ t \in Paths /\ LevelsOK(t) /\ CodeOK(t) /\ MemoryOK(t)
      /\ t \in DOMAIN base /\ t \in DOMAIN top
  BY <1>2, GivenFacts, OwnFacts
<1>4. up \in Nat /\ up \in Level /\ up < n /\ up # Leaf /\ until[t] <= up /\ up # n
  BY <1>1, <1>3, LevelFacts
<1>5. /\ DOMAIN cxt' = DOMAIN cxt
      /\ \A b \in DOMAIN cxt \ {a} : cxt'[b] = cxt[b]
      /\ DOMAIN cxt'[a] = Level
      /\ \A l \in Level : /\ DOMAIN cxt'[a][l] = DOMAIN cxt[a][l]
                          /\ l < up => cxt'[a][l] = cxt[a][l]
      /\ cxt'[a][up].start = cxt[a][up].start + 1
      /\ cxt'[a][up].max = cxt[a][up].max
      /\ cxt'[a][up].liveIn = cxt[a][up].liveIn
      /\ cxt'[a][up].liveOut = cxt[a][up].liveOut
  <2> DEFINE y == [Restored(t)[up] EXCEPT !.start = cxt[a][up].start + 1]
  <2>1. /\ a \in DOMAIN cxt /\ DOMAIN Restored(t) = Level
        /\ \A l \in Level : /\ DOMAIN Restored(t)[l] = {"start", "max", "liveIn", "liveOut"}
                            /\ DOMAIN cxt[a][l] = {"start", "max", "liveIn", "liveOut"}
                            /\ l # Leaf => Restored(t)[l] = cxt[a][l]
    BY <1>2, RestoredFacts
  <2>2. Restored(t)[up] = cxt[a][up]
    BY <1>4, <2>1
  <2>3. cxt'[a] = [Restored(t) EXCEPT ![up] = y]
    BY <1>1, <2>1, <2>2 DEF AfterSuspended
  <2>4. /\ y.start = cxt[a][up].start + 1 /\ y.max = cxt[a][up].max
        /\ y.liveIn = cxt[a][up].liveIn /\ y.liveOut = cxt[a][up].liveOut
        /\ DOMAIN y = {"start", "max", "liveIn", "liveOut"}
    BY <1>4, <2>1, <2>2
  <2> HIDE DEF y
  <2>5. cxt'[a][up] = y /\ DOMAIN cxt'[a] = Level
        /\ \A l \in Level : l # up => cxt'[a][l] = Restored(t)[l]
    BY <1>4, <2>1, <2>3
  <2>6. \A l \in Level : DOMAIN cxt'[a][l] = DOMAIN cxt[a][l]
    BY <2>1, <2>4, <2>5
  <2>7. \A l \in Level : l < up => l # up /\ l # Leaf
    BY <1>3, <1>4, LevelFacts
  <2>8. \A l \in Level : l < up => cxt'[a][l] = cxt[a][l]
    BY <2>1, <2>5, <2>7
  <2>9. DOMAIN cxt' = DOMAIN cxt /\ \A b \in DOMAIN cxt \ {a} : cxt'[b] = cxt[b]
    BY <1>1
  <2> QED BY <2>4, <2>5, <2>6, <2>8, <2>9
<1>6. /\ DOMAIN pc' = DOMAIN pc /\ pc'[t] = "enter" /\ top'[t] = up /\ base'[t] = up
      /\ \A u \in DOMAIN pc \ {t} : pc'[u] = pc[u] /\ top'[u] = top[u] /\ base'[u] = base[u]
  BY <1>1, <1>3
<1>7. Forked(t)' = Forked(t) /\ Given(t)' = Given(t)
  BY <1>2, <1>6 DEF Forked, Given
<1>8. up < Given(t)
  <2> DEFINE given == n - Given(t) + 1
  <2>1. given \in Int
    BY <1>3
  <2>2. rc[t] = IF given > 0 THEN given ELSE 0
    BY <1>2, <1>3 DEF CodeOK
  <2>3. given <= 1
    <3> HIDE DEF given
    <3> QED BY <1>1, <1>3, <2>1, <2>2
  <2> QED BY <1>3, <2>3
<1>9. SuspendedAt(t, up)
  <2>1. up \in until[t] .. n
    BY <1>3, <1>4
  <2>2. up \in Suspended(t)
    BY <1>4, <1>8, <2>1 DEF Suspended
  <2> QED BY <1>3, <2>2 DEF LevelsOK
<1>10. RecordsOK'
  <2>1. RecordsOK
    BY MemoryParts
  <2>2. \A b \in DOMAIN cxt' : /\ b \in DOMAIN cxt
                                /\ DOMAIN cxt'[b] = DOMAIN cxt[b]
                                /\ \A l \in DOMAIN cxt[b] : DOMAIN cxt'[b][l] = DOMAIN cxt[b][l]
    <3>1. DOMAIN cxt[a] = Level
      BY <1>2, OwnFacts
    <3> HIDE DEF up
    <3> QED BY <1>5, <3>1
  <2>3. \A u \in DOMAIN pc : \A l \in DOMAIN frame'[u] :
            l \in DOMAIN frame[u] /\ DOMAIN frame'[u][l] = DOMAIN frame[u][l]
    BY <1>2
  <2> QED BY <1>2, <1>6, <2>1, <2>2, <2>3, RecordsKept
<1> HIDE DEF up
<1>11. LevelsOK(t)'
  <2>1. ASSUME NEW l \in Suspended(t)' PROVE SuspendedAt(t, l)'
    <3>1. l \in until[t] .. up /\ l < Given(t) /\ l # up
      BY <1>2, <1>6, <1>7 DEF Suspended
    <3>2. l \in Int /\ l < up /\ l <= n /\ l \in Level /\ l # Leaf /\ l # n
      BY <1>3, <1>4, <3>1, LevelFacts
    <3>3. l \in until[t] .. n
      BY <1>3, <3>1, <3>2
    <3>4. SuspendedAt(t, l)
      BY <1>3, <3>1, <3>2, <3>3 DEF LevelsOK, Suspended
    <3>5. Cxt(t)[l]' = Cxt(t)[l]
      BY <1>2, <1>5, <3>2 DEF Cxt
    <3>6. l >= base'[t] => l >= base[t] /\ frame'[t][l] = frame[t][l]
      BY <1>4, <1>6, <3>2
    <3> QED BY <1>2, <1>7, <3>2, <3>4, <3>5, <3>6, SuspendedBelow
  <2>2. DOMAIN frame'[t] = {}
    BY <1>1, <1>2, <1>3
  <2>3. ASSUME NEW l \in 0 .. until[t] - 1 PROVE Cxt(t)[l]' = Cxt(t)[l]
    <3>1. l \in Level /\ l < up
      BY <1>3, <1>4, LevelFacts
    <3> QED BY <1>2, <1>5, <3>1 DEF Cxt
  <2> QED BY <1>2, <1>3, <2>1, <2>2, <2>3 DEF LevelsOK
<1>12. TopOK(t)'
  <2>1. ASSUME NEW l, l = up
        PROVE  /\ ReadableAt(t, l)'
               /\ Forked(t) => Cxt(t)[l]'.start >= Cxt(t)[l]'.max
    <3>1. /\ ReadableAt(t, l) /\ Cxt(t)[l].start \in Nat /\ Cxt(t)[l].max \in Nat
          /\ Cxt(t)[l].start < Cxt(t)[l].max
          /\ Forked(t) => Cxt(t)[l].start + 1 = Cxt(t)[l].max
          /\ Owned(t, {l - 1} \cup ({l} \cap {Leaf}), Cxt(t)[l].liveOut)
      BY <1>9, <2>1 DEF SuspendedAt, ReadableAt
    <3>2. /\ Cxt(t)[l]'.max = Cxt(t)[l].max
          /\ Cxt(t)[l]'.liveIn = Cxt(t)[l].liveIn
          /\ Cxt(t)[l]'.liveOut = Cxt(t)[l].liveOut
          /\ Cxt(t)[l]'.start = Cxt(t)[l].start + 1
      BY <1>2, <1>5, <2>1 DEF Cxt
    <3>3. l \in Int /\ l <= n /\ l - 1 < n
      BY <1>3, <1>4, <2>1
    <3>4. Owned(t, {l - 1} \cup ({l} \cap {Leaf}), Cxt(t)[l].liveOut)'
      <4>1. {l - 1} \cup ({l} \cap {Leaf}) = {l - 1}
        BY <1>4, <2>1
      <4>2. ArraysBelow(t, n)
        BY <1>2, <1>3
      <4>3. \A q : Owned(t, {l - 1} \cup ({l} \cap {Leaf}), q) =>
              /\ q \in DOMAIN array'
              /\ q = <<Root, -1>> \/ q[1] \in Ancestors(t) \/ (q[1] = t /\ q[2] = l - 1)
        BY <3>3, <4>1, <4>2 DEF Owned, ArraysBelow
      <4> QED BY <3>1, <3>2, <4>3 DEF Owned, Ancestors
    <3>5. ArraysBelow(t, l)
      BY <1>2, <3>3
    <3>6. /\ Cxt(t)[l]'.start \in Nat /\ Cxt(t)[l].start <= Cxt(t)[l]'.start
          /\ Cxt(t)[l]'.max \in Nat /\ Cxt(t)[l]'.max <= Cxt(t)[l].max
          /\ Forked(t) => Cxt(t)[l]'.start >= Cxt(t)[l]'.max
      BY <3>1, <3>2
    <3> QED BY <3>1, <3>2, <3>3, <3>4, <3>5, <3>6, ReadableBelow
  <2> QED BY <1>6, <1>7, <1>8, <2>1 DEF TopOK
<1>13. CodeOK(t)'
  BY <1>6 DEF CodeOK
<1>14. MemoryOK(t)'
  BY <1>2, <1>3, <1>6, <1>7 DEF MemoryOK
<1>15. TaskInv(t)'
  BY <1>11, <1>12, <1>13, <1>14 DEF TaskInv
<1>16. \A l \in Level : l < until[t] => cxt'[a][l] = cxt[a][l]
  <2>1. \A l \in Level : l < until[t] => l < up
    BY <1>3, <1>4, LevelFacts
  <2> QED BY <1>5, <2>1
<1>17. \A q \in DOMAIN array : q = <<Root, -1>> \/ q[1] # t
           => q \in DOMAIN array' /\ array'[q].live = array[q].live
  BY <1>2, <1>3
<1>18. pc[t] \notin {"done", "join"} /\ pc'[t] # "join" /\ DOMAIN pc' = DOMAIN pc
  BY <1>2, <1>6
<1>19. \A u \in DOMAIN pc \ {t} :
         /\ pc'[u] = pc[u] /\ rc'[u] = rc[u] /\ base'[u] = base[u] /\ top'[u] = top[u]
         /\ frame'[u] = frame[u]
  BY <1>1, <1>2, <1>6
<1>20. \A b \in DOMAIN cxt \ {area[t]} :
         cxt'[b] = cxt[b] /\ tmem'[b] = tmem[b] /\ unpolled'[b] = unpolled[b]
  BY <1>2, <1>5
<1> QED BY <1>2, <1>10, <1>15, <1>16, <1>17, <1>18, <1>19, <1>20, QuietMemory

\* The branches are done: their parent has the number of levels they were given.
LEMMA JoinMemory ==
  ASSUME MemoryInv, ControlInv', NEW t \in DOMAIN pc, Join(t)
  PROVE  MemoryInv'
<1> DEFINE a == area[t]
           gone == Append(t, 1)
<1>1. /\ pc[t] = "join" /\ pc[Append(t, 0)] = "done" /\ pc[gone] = "done"
      /\ rc' = rc /\ base' = base /\ top' = top /\ until' = until /\ area' = area /\ array' = array
  BY DEF Join, At
<1>2. /\ cxt' = [b \in DOMAIN cxt \ {gone} |-> cxt[b]]
      /\ tmem' = [b \in DOMAIN tmem \ {gone} |-> tmem[b]]
      /\ unpolled' = [[b \in DOMAIN unpolled \ {gone} |-> unpolled[b]] EXCEPT ![a] = 0]
  BY DEF Join
<1>3. /\ ControlInv /\ t \in Paths /\ Len(t) \in Nat /\ LevelsOK(t) /\ CodeOK(t)
      /\ Given(t) \in Int /\ rc[t] \in Int /\ until[t] \in Nat /\ top[t] \in Nat /\ until[t] <= top[t]
      /\ DOMAIN area = DOMAIN pc
  <2>1. ControlInv /\ pc[t] # "done"
    BY <1>1, MemoryParts
  <2>2. /\ t \in Paths /\ LevelsOK(t) /\ CodeOK(t) /\ DOMAIN area = DOMAIN pc
    BY <2>1, OwnFacts
  <2>3. Len(t) \in Nat
    BY <2>1, AreaOf
  <2>4. /\ Given(t) \in Int /\ rc[t] \in Int /\ until[t] \in Nat /\ top[t] \in Nat
        /\ until[t] <= base[t] /\ base[t] <= top[t] /\ base[t] \in Nat
    BY GivenFacts
  <2>5. until[t] <= top[t]
    BY <2>4
  <2> QED BY <2>1, <2>2, <2>3, <2>4, <2>5
<1>4. top[t] = Leaf /\ Forked(t) /\ Given(t) <= Leaf /\ rc[t] = Leaf - Given(t) + 1
  BY <1>1, <1>3, GivenFacts DEF CodeOK
<1>5. rc[t] > 0
  BY <1>3, <1>4, LevelFacts
<1>6. pc' = [pc EXCEPT ![t] = "exit"] /\ frame' = frame
  BY <1>5 DEF Join, LeavesLeaf
<1>7. /\ DOMAIN pc' = DOMAIN pc /\ pc'[t] = "exit"
      /\ \A u \in DOMAIN pc \ {t} : pc'[u] = pc[u]
  BY <1>6
<1>8. \A u \in DOMAIN pc : pc'[u] # "done" => area[u] \in DOMAIN cxt'
  BY <1>1, <1>7 DEF ControlInv, AreasOK
<1>9. /\ DOMAIN cxt' = DOMAIN cxt \ {gone}
      /\ DOMAIN tmem = DOMAIN cxt /\ DOMAIN unpolled = DOMAIN cxt
      /\ \A b \in DOMAIN cxt' : cxt'[b] = cxt[b] /\ tmem'[b] = tmem[b]
      /\ \A b \in DOMAIN cxt' : b # a => unpolled'[b] = unpolled[b]
      /\ a \in DOMAIN cxt' /\ unpolled'[a] = 0
      /\ DOMAIN tmem' = DOMAIN tmem \ {gone}
  <2>1. DOMAIN tmem = DOMAIN cxt /\ DOMAIN unpolled = DOMAIN cxt
    BY MemoryParts DEF AreasOK
  <2>2. a \in DOMAIN cxt'
    BY <1>7, <1>8
  <2> HIDE DEF gone
  <2> QED BY <1>2, <2>1, <2>2
<1>10. \A u \in DOMAIN pc : Forked(u)' = Forked(u) /\ Given(u)' = Given(u)
  BY <1>1, <1>7 DEF Forked, Given
<1>11. RecordsOK'
  <2>1. RecordsOK
    BY MemoryParts
  <2> QED BY <1>1, <1>6, <1>7, <1>9, <2>1, RecordsKept DEF RecordsOK
<1>12. AncestorsWait'
  <2> SUFFICES ASSUME NEW u \in DOMAIN pc, pc'[u] # "done", NEW p \in Ancestors(u)
      PROVE  p \in DOMAIN pc /\ pc'[p] = "join"
    BY <1>7 DEF AncestorsWait, Ancestors
  <2>1. pc[u] # "done" /\ u \in Paths
    BY <1>1, <1>3, <1>7, AreaOf
  <2>2. \A q \in Ancestors(u) : q \in DOMAIN pc /\ pc[q] = "join"
    BY <2>1, MemoryParts DEF AncestorsWait
  <2>3. p # t
    <3> SUFFICES ASSUME p = t PROVE FALSE
      OBVIOUS
    <3>1. PICK k \in {0, 1} : Append(t, k) \in Ancestors(u) \cup {u}
      BY <2>1, AncestorFacts
    <3>2. pc[Append(t, k)] = "done"
      BY <1>1
    <3> QED BY <2>1, <2>2, <3>1, <3>2
  <2> QED BY <1>7, <2>2, <2>3
<1>13. GivenOK'
  BY <1>1, <1>7, <1>10, MemoryParts DEF GivenOK
<1>14. ASSUME NEW v \in DOMAIN pc, v # t, pc[v] # "done" PROVE TaskInv(v)'
  <2>1. ASSUME area[v] = area[t] PROVE pc[v] = "join" /\ Given(v) <= until[t]
    <3>1. Len(v) \in Nat /\ Len(t) # Len(v)
      BY <1>3, <1>14, <2>1, AreaOf, SameArea
    <3>2. ~(Len(t) < Len(v))
      BY <1>1, <1>3, <1>4, <1>14, <2>1, TakenOverIdle
    <3>3. Len(v) < Len(t)
      BY <1>3, <3>1, <3>2
    <3>4. pc[v] = "join"
      BY <1>1, <1>3, <2>1, <3>3, SameArea
    <3> QED BY <2>1, <3>3, <3>4, MemoryParts DEF GivenOK
  <2>2. area[v] \in DOMAIN cxt'
    BY <1>7, <1>8, <1>14
  <2>3. area[v] # area[t] => /\ cxt'[area[v]] = cxt[area[v]]
                             /\ tmem'[area[v]] = tmem[area[v]]
                             /\ unpolled'[area[v]] = unpolled[area[v]]
    BY <1>9, <2>2
  <2>4. \A l \in Level : l < until[t] => cxt'[area[t]][l] = cxt[area[t]][l]
    BY <1>9
  <2>5. ArraysKept(v)
    BY <1>1 DEF ArraysKept
  <2>6. pc'[v] = pc[v]
    BY <1>7, <1>14
  <2> QED BY <1>1, <1>6, <1>10, <1>14, <2>1, <2>3, <2>4, <2>5, <2>6, OthersKept
<1>15. TaskInv(t)'
  <2>1. Cxt(t)' = Cxt(t)
    BY <1>1, <1>9 DEF Cxt
  <2>2. ArraysKept(t)
    BY <1>1 DEF ArraysKept
  <2>3. LevelsOK(t)'
    <3>1. Suspended(t)' = Suspended(t)
      BY <1>1, <1>7, <1>10 DEF Suspended
    <3>2. ASSUME NEW l \in Suspended(t) PROVE SuspendedAt(t, l)'
      <4>1. SuspendedAt(t, l) /\ Cxt(t)[l]' = Cxt(t)[l]
        BY <1>3, <2>1, <3>2 DEF LevelsOK
      <4> QED BY <1>1, <1>6, <1>10, <2>2, <4>1, SuspendedKept
    <3>3. Forked(t)'
      BY <1>4, <1>10
    <3> QED BY <1>1, <1>3, <2>1, <3>1, <3>2, <3>3 DEF LevelsOK
  <2>4. TopOK(t)'
    BY <1>7 DEF TopOK
  <2>5. CodeOK(t)'
    BY <1>1, <1>3, <1>4, <1>5, <1>7, <1>10 DEF CodeOK
  <2>6. MemoryOK(t)'
    BY <1>1, <1>4, <1>7, <1>9, <1>10 DEF MemoryOK
  <2> QED BY <2>3, <2>4, <2>5, <2>6 DEF TaskInv
<1>16. \A v \in DOMAIN pc : pc'[v] # "done" => TaskInv(v)'
  BY <1>1, <1>7, <1>14, <1>15
<1> QED BY <1>7, <1>11, <1>12, <1>13, <1>16 DEF MemoryInv

\* Halving a part of at least two iterations leaves one to the lower half, beginning
\* with the current one, and one to the upper half.
LEMMA HalvesBounded ==
  ASSUME NEW x \in Nat, NEW y \in Nat, y - x >= 2
  PROVE  /\ (x + 1 + y) \div 2 \in Nat
         /\ x + 1 <= (x + 1 + y) \div 2 /\ (x + 1 + y) \div 2 < y
<1> DEFINE m == (x + 1 + y) \div 2
<1>1. m \in Int /\ 2 * m <= x + 1 + y /\ x + 1 + y < 2 * m + 2
  OBVIOUS
<1> HIDE DEF m
<1>2. x + 1 <= m /\ m < y /\ m \in Nat
  BY <1>1
<1> QED BY <1>2 DEF m

\* The branches of a task that has not been promoted are not there yet, nor are theirs.
LEMMA NoBranches ==
  ASSUME MemoryInv, NEW t \in DOMAIN pc, ~Forked(t)
  PROVE  /\ Append(t, 0) \notin DOMAIN pc /\ Append(t, 1) \notin DOMAIN pc
         /\ \A u \in DOMAIN pc : /\ Append(u, 0) = Append(t, 0) => u = t
                                 /\ Append(u, 0) # Append(t, 1)
         /\ \A k \in {0, 1} : /\ Append(Append(t, k), 0) \notin DOMAIN pc
                              /\ Append(Append(t, k), 0) \notin {Append(t, 0), Append(t, 1)}
         /\ \A v \in DOMAIN pc : area[v] = area[t] => ~(Len(t) < Len(v))
<1>1. ControlInv /\ t \in Paths /\ (\A u \in DOMAIN pc : u \in Paths)
  BY MemoryParts, AreaOf
<1>2. ASSUME NEW b \in Paths, NEW k \in {0, 1}, Append(b, k) \in DOMAIN pc
      PROVE  b \in DOMAIN pc /\ Append(b, 0) \in DOMAIN pc
  <2>1. Append(b, k) # Root
    BY <1>2 DEF Root, Paths
  <2>2. PICK p \in DOMAIN pc : Append(b, k) \in KidsOf(p) /\ KidsOf(p) \subseteq DOMAIN pc
    BY <1>1, <1>2, <2>1, FamilyFacts
  <2>3. p = b
    BY <1>1, <2>2, BranchesApart DEF KidsOf
  <2> QED BY <2>2, <2>3 DEF KidsOf
<1>3. Append(t, 0) \notin DOMAIN pc /\ Append(t, 1) \notin DOMAIN pc
  BY <1>1, <1>2 DEF Forked
<1>4. ASSUME NEW k \in {0, 1}
      PROVE  /\ Append(Append(t, k), 0) \notin DOMAIN pc
             /\ Append(Append(t, k), 0) \notin {Append(t, 0), Append(t, 1)}
  <2>1. Append(t, k) \in Paths /\ Append(t, k) \notin DOMAIN pc
    BY <1>1, <1>3, Branches
  <2>2. Append(t, k) # t
    BY <1>1, Branches
  <2> QED BY <1>1, <1>2, <2>1, <2>2, BranchesApart
<1>5. ASSUME NEW v \in DOMAIN pc, area[v] = area[t] PROVE ~(Len(t) < Len(v))
  BY <1>1, <1>3, <1>5, SameArea
<1> QED BY <1>1, <1>3, <1>4, <1>5, BranchesApart

\* What a promotion does to the contexts.
Divided(s, second, a, low, mid) ==
  /\ DOMAIN cxt'[a] = Level
  /\ \A l \in Level :
       /\ DOMAIN cxt'[a][l] = DOMAIN cxt[a][l]
       /\ cxt'[a][l].liveIn = cxt[a][l].liveIn
       /\ cxt'[a][l].liveOut = cxt[a][l].liveOut
       /\ cxt'[a][l].max = IF l = s THEN mid ELSE cxt[a][l].max
       /\ cxt'[a][l].start = IF l # Leaf THEN cxt[a][l].start
                             ELSE IF s = Leaf THEN low ELSE low - 1
       /\ l # s /\ l # Leaf => cxt'[a][l] = cxt[a][l]
  /\ DOMAIN cxt'[second] = Level
  /\ \A l \in Level : l # s => cxt'[second][l] = Unwritten
  /\ DOMAIN cxt'[second][s] = DOMAIN Unwritten
  /\ cxt'[second][s].start = mid /\ cxt'[second][s].max = cxt[a][s].max
  /\ cxt'[second][s].liveIn = cxt[a][s].liveIn
  /\ cxt'[second][s].liveOut = cxt[a][s].liveOut
  /\ \A b \in DOMAIN cxt \ {a, second} : cxt'[b] = cxt[b]

LEMMA ForkContexts ==
  ASSUME MemoryInv, NEW t \in DOMAIN pc, pc[t] = "poll", NEW s \in Level, Fork(t, s),
         NEW second, second = Append(t, 1), NEW a, a = area[t], a # second,
         NEW low, low = frame[t][Leaf].low, low \in Int,
         NEW mid, mid = (Polled(t)[s].start + 1 + Polled(t)[s].max) \div 2
  PROVE  Divided(s, second, a, low, mid)
<1> DEFINE c == Polled(t)
           upper == [l \in Level |-> IF l = s THEN [c[s] EXCEPT !.start = mid] ELSE Unwritten]
           lower == [c EXCEPT ![s].max = mid, ![Leaf].start = IF s = Leaf THEN @ + 1 ELSE @]
<1>1. /\ a \in DOMAIN cxt /\ DOMAIN cxt[a] = Level /\ Leaf \in Level /\ top[t] = Leaf
      /\ \A l \in Level : DOMAIN cxt[a][l] = {"start", "max", "liveIn", "liveOut"}
  BY OwnFacts, LevelFacts DEF TopOK
<1>2. cxt' = With([cxt EXCEPT ![a] = lower], second, upper)
  BY DEF Fork, SecondArea
<1>3. c = [cxt[a] EXCEPT ![Leaf].start = low - 1]
  BY <1>1 DEF Polled, Cxt, Reg
<1>4. /\ DOMAIN c = Level
      /\ \A l \in Level : /\ DOMAIN c[l] = {"start", "max", "liveIn", "liveOut"}
                          /\ c[l].max = cxt[a][l].max /\ c[l].liveIn = cxt[a][l].liveIn
                          /\ c[l].liveOut = cxt[a][l].liveOut
                          /\ l # Leaf => c[l] = cxt[a][l]
      /\ c[Leaf].start = low - 1
  BY <1>1, <1>3
<1> HIDE DEF c
<1>5. /\ DOMAIN lower = Level
      /\ \A l \in Level : /\ DOMAIN lower[l] = {"start", "max", "liveIn", "liveOut"}
                          /\ lower[l].max = IF l = s THEN mid ELSE c[l].max
                          /\ lower[l].liveIn = c[l].liveIn
                          /\ lower[l].liveOut = c[l].liveOut
                          /\ l # Leaf => lower[l].start = c[l].start
                          /\ l # s /\ l # Leaf => lower[l] = c[l]
      /\ lower[Leaf].start = IF s = Leaf THEN c[Leaf].start + 1 ELSE c[Leaf].start
  BY <1>1, <1>4
<1>6. /\ DOMAIN upper = Level /\ upper[s] = [c[s] EXCEPT !.start = mid]
      /\ \A l \in Level : l # s => upper[l] = Unwritten
  OBVIOUS
<1>7. /\ DOMAIN upper[s] = {"start", "max", "liveIn", "liveOut"}
      /\ upper[s].start = mid /\ upper[s].max = c[s].max
      /\ upper[s].liveIn = c[s].liveIn /\ upper[s].liveOut = c[s].liveOut
  BY <1>4, <1>6
<1> HIDE DEF lower, upper
<1>8. cxt'[a] = lower /\ cxt'[second] = upper /\ \A b \in DOMAIN cxt \ {a, second} : cxt'[b] = cxt[b]
  BY <1>1, <1>2 DEF With
<1>9. low - 1 + 1 = low
  OBVIOUS
<1>10. \A l \in Level : cxt'[a][l].start = IF l # Leaf THEN cxt[a][l].start
                                    ELSE IF s = Leaf THEN low ELSE low - 1
  BY <1>4, <1>5, <1>8, <1>9
<1>11. \A l \in Level : cxt'[a][l].max = IF l = s THEN mid ELSE cxt[a][l].max
  BY <1>4, <1>5, <1>8
<1>12. DOMAIN Unwritten = {"start", "max", "liveIn", "liveOut"}
  BY DEF Unwritten
<1>13. \A l \in Level : /\ DOMAIN cxt'[a][l] = DOMAIN cxt[a][l]
                        /\ cxt'[a][l].liveIn = cxt[a][l].liveIn
                        /\ cxt'[a][l].liveOut = cxt[a][l].liveOut
  <2> SUFFICES ASSUME NEW l \in Level
      PROVE  /\ DOMAIN cxt'[a][l] = DOMAIN cxt[a][l]
             /\ cxt'[a][l].liveIn = cxt[a][l].liveIn
             /\ cxt'[a][l].liveOut = cxt[a][l].liveOut
    OBVIOUS
  <2>1. cxt'[a][l] = lower[l]
    BY <1>8
  <2>2. DOMAIN lower[l] = DOMAIN cxt[a][l]
    BY <1>1, <1>5
  <2>3. lower[l].liveIn = cxt[a][l].liveIn
    BY <1>4, <1>5
  <2>4. lower[l].liveOut = cxt[a][l].liveOut
    BY <1>4, <1>5
  <2> QED BY <2>1, <2>2, <2>3, <2>4
<1>14. /\ DOMAIN cxt'[a] = Level /\ DOMAIN cxt'[second] = Level
       /\ \A l \in Level : l # s => cxt'[second][l] = Unwritten
       /\ DOMAIN cxt'[second][s] = DOMAIN Unwritten
  BY <1>5, <1>6, <1>7, <1>8, <1>12
<1>15. /\ cxt'[second][s].start = mid /\ cxt'[second][s].max = cxt[a][s].max
       /\ cxt'[second][s].liveIn = cxt[a][s].liveIn
       /\ cxt'[second][s].liveOut = cxt[a][s].liveOut
  BY <1>4, <1>7, <1>8
<1>16. \A l \in Level : l # s /\ l # Leaf => cxt'[a][l] = cxt[a][l]
  BY <1>4, <1>5, <1>8
<1> QED BY <1>8, <1>10, <1>11, <1>13, <1>14, <1>15, <1>16 DEF Divided

\* What a task can read its branches can read too.
LEMMA BranchReads ==
  ASSUME NEW t \in Paths, NEW k \in {0, 1}, NEW b, b = Append(t, k), NEW l, ReadableAt(t, l),
         array' = array,
         Cxt(b)[l]'.liveIn = Cxt(t)[l].liveIn, Cxt(b)[l]'.liveOut = Cxt(t)[l].liveOut,
         Cxt(b)[l]'.start \in Nat,
         \/ Cxt(t)[l].start <= Cxt(b)[l]'.start
         \/ Bounds[array[Cxt(t)[l].liveIn].live].first <= Cxt(b)[l]'.start,
         Cxt(b)[l]'.max \in Nat, Cxt(b)[l]'.max <= Cxt(t)[l].max
  PROVE  ReadableAt(b, l)'
<1> DEFINE c == Cxt(t)[l]
           row == array[c.liveIn].live
<1>1. Ancestors(b) = Ancestors(t) \cup {t}
  BY AncestorsOfBranch
<1>2. /\ c.start \in Nat /\ c.max \in Nat
      /\ Owned(t, {l - 1}, c.liveIn) /\ Owned(t, {l - 1} \cup ({l} \cap {Leaf}), c.liveOut)
      /\ row \in DOMAIN Bounds /\ Len(row) = l
      /\ Bounds[row].first <= c.start /\ c.max <= Bounds[row].last
  BY DEF ReadableAt
<1>3. \A q, ls : Owned(t, ls, q) =>
        q \in DOMAIN array' /\ (q = <<Root, -1>> \/ q[1] \in Ancestors(b))
  BY <1>1 DEF Owned
<1>4. Owned(b, {l - 1}, Cxt(b)[l].liveIn)'
  <2>1. c.liveIn \in DOMAIN array' /\ (c.liveIn = <<Root, -1>> \/ c.liveIn[1] \in Ancestors(b))
    BY <1>2, <1>3
  <2> QED BY <2>1 DEF Owned, Ancestors
<1>5. Owned(b, {l - 1} \cup ({l} \cap {Leaf}), Cxt(b)[l].liveOut)'
  <2>1. c.liveOut \in DOMAIN array' /\ (c.liveOut = <<Root, -1>> \/ c.liveOut[1] \in Ancestors(b))
    BY <1>2, <1>3
  <2> QED BY <2>1 DEF Owned, Ancestors
<1>6. Bounds[row].first \in Nat /\ Bounds[row].last \in Nat
  BY <1>2, NestAssumption
<1>7. Bounds[row].first <= Cxt(b)[l]'.start /\ Cxt(b)[l]'.max <= Bounds[row].last
  <2>1. c.start \in Nat /\ Bounds[row].first <= c.start
    BY <1>2
  <2>2. c.max \in Nat /\ c.max <= Bounds[row].last
    BY <1>2
  <2>3. Bounds[row].first <= Cxt(b)[l]'.start
    BY <1>6, <2>1
  <2>4. Cxt(b)[l]'.max <= Bounds[row].last
    BY <1>6, <2>2
  <2> QED BY <2>3, <2>4
<1>8. array'[Cxt(b)[l]'.liveIn].live = row
  OBVIOUS
<1> QED BY <1>2, <1>4, <1>5, <1>7, <1>8 DEF ReadableAt

\* A task that polls: what is left on each level.
LEMMA PolledFacts ==
  ASSUME MemoryInv, NEW t \in DOMAIN pc, pc[t] = "poll"
  PROVE  /\ top[t] = Leaf /\ ~Forked(t) /\ Given(t) = Leaf + 1
         /\ tmem[area[t]].starting = until[t] /\ until[t] \in Nat /\ until[t] <= Leaf
         /\ frame[t][Leaf].low - 1 \in Nat /\ frame[t][Leaf].low \in Nat
         /\ Bounds[array[Cxt(t)[Leaf].liveIn].live].first <= frame[t][Leaf].low - 1
         /\ frame[t][Leaf].low <= Cxt(t)[Leaf].max
         /\ \A l \in until[t] .. Leaf :
              /\ l \in Level /\ ReadableAt(t, l)
              /\ Cxt(t)[l].start \in Nat /\ Cxt(t)[l].max \in Nat
              /\ Polled(t)[l].start =
                   IF l = Leaf THEN frame[t][Leaf].low - 1 ELSE Cxt(t)[l].start
              /\ Polled(t)[l].max = Cxt(t)[l].max
              /\ Polled(t)[l].start \in Nat /\ Polled(t)[l].start < Polled(t)[l].max
              /\ l # Leaf => SuspendedAt(t, l)
<1> DEFINE r == frame[t][Leaf]
<1>1. /\ top[t] = Leaf /\ ~Forked(t) /\ TopOK(t) /\ LevelsOK(t) /\ MemoryOK(t)
      /\ area[t] \in DOMAIN cxt /\ DOMAIN cxt[area[t]] = Level
      /\ \A l \in Level : DOMAIN cxt[area[t]][l] = {"start", "max", "liveIn", "liveOut"}
  BY OwnFacts DEF TopOK
<1>2. /\ Reg(t) = r /\ ReadableAt(t, Leaf) /\ FrameAt(t, Leaf) /\ r.iv \in Nat /\ r.max \in Nat
      /\ Bounds[r.row].first <= r.iv
  BY <1>1, LeafFacts
<1>3. r.chunk \in Nat \ {0} /\ r.low = r.iv + r.chunk /\ r.low <= r.max
  BY <1>1, <1>2 DEF TopOK
<1>4. Given(t) = Leaf + 1 /\ until[t] \in Nat /\ until[t] <= Leaf
  BY <1>1, GivenFacts, LevelFacts
<1>5. tmem[area[t]].starting = until[t]
  BY <1>1 DEF MemoryOK
<1>6. r.max = Cxt(t)[Leaf].max /\ r.row = array[Cxt(t)[Leaf].liveIn].live
  BY <1>2 DEF FrameAt
<1>7. r.row \in DOMAIN Bounds /\ Bounds[r.row].first \in Nat
  BY <1>2, <1>6, NestAssumption DEF ReadableAt
<1> HIDE DEF r
<1>8. r.low - 1 \in Nat /\ r.low \in Nat /\ r.iv <= r.low - 1 /\ r.low - 1 < r.max
  BY <1>2, <1>3
<1>9. Bounds[r.row].first <= r.low - 1
  BY <1>2, <1>7, <1>8
<1>10. ASSUME NEW l \in until[t] .. Leaf
       PROVE  /\ l \in Level /\ ReadableAt(t, l)
              /\ Cxt(t)[l].start \in Nat /\ Cxt(t)[l].max \in Nat
              /\ l # Leaf => SuspendedAt(t, l) /\ Cxt(t)[l].start < Cxt(t)[l].max
  <2>1. l \in Level
    BY <1>4, LevelFacts
  <2>2. CASE l = Leaf
    BY <1>2, <2>1, <2>2 DEF ReadableAt
  <2>3. CASE l # Leaf
    <3>1. l \in Suspended(t)
      BY <1>1, <1>4, <2>1, <2>3, LevelFacts DEF Suspended
    <3>2. SuspendedAt(t, l)
      BY <1>1, <3>1 DEF LevelsOK
    <3> QED BY <2>1, <2>3, <3>2 DEF SuspendedAt, ReadableAt
  <2> QED BY <2>2, <2>3
<1>11. Polled(t) = [cxt[area[t]] EXCEPT ![Leaf].start = r.low - 1]
  BY <1>2 DEF Polled, Cxt
<1>12. ASSUME NEW l \in until[t] .. Leaf
       PROVE  /\ Polled(t)[l].start = IF l = Leaf THEN r.low - 1 ELSE Cxt(t)[l].start
              /\ Polled(t)[l].max = Cxt(t)[l].max
  <2>1. l \in Level
    BY <1>10
  <2> QED BY <1>1, <1>11, <2>1 DEF Cxt
<1>13. ASSUME NEW l \in until[t] .. Leaf
       PROVE  Polled(t)[l].start \in Nat /\ Polled(t)[l].start < Polled(t)[l].max
  BY <1>6, <1>8, <1>10, <1>12
<1>14. /\ Bounds[array[Cxt(t)[Leaf].liveIn].live].first <= r.low - 1
       /\ r.low <= Cxt(t)[Leaf].max
  BY <1>3, <1>6, <1>9
<1> QED BY <1>1, <1>4, <1>5, <1>8, <1>10, <1>12, <1>13, <1>14 DEF r

\* What a promotion does to the contexts when it splits level s of task t, the leaf
\* having come to iteration low, at iteration mid.
SplitAt(t, s, low, mid, first, second) ==
  /\ s \in Level /\ s \in Nat /\ until[t] <= s /\ s <= Leaf
  /\ low = frame[t][Leaf].low /\ low \in Nat /\ low - 1 \in Nat /\ mid \in Nat
  /\ mid < Cxt(t)[s].max
  /\ IF s = Leaf THEN low <= mid ELSE Cxt(t)[s].start + 1 <= mid
  /\ \A l \in until[t] .. s - 1 : Cxt(t)[l].start + 1 = Cxt(t)[l].max
  /\ first # t /\ second # t /\ first # second
  /\ first \notin DOMAIN pc /\ second \notin DOMAIN pc /\ area[t] # second
  /\ DOMAIN cxt'[area[t]] = Level
  /\ \A l \in Level :
       LET c == cxt'[area[t]][l] IN
       /\ DOMAIN c = DOMAIN Cxt(t)[l]
       /\ c.liveIn = Cxt(t)[l].liveIn /\ c.liveOut = Cxt(t)[l].liveOut
       /\ c.max = IF l = s THEN mid ELSE Cxt(t)[l].max
       /\ c.start = IF l # Leaf THEN Cxt(t)[l].start ELSE IF s = Leaf THEN low ELSE low - 1
       /\ l # s /\ l # Leaf => c = Cxt(t)[l]
  /\ DOMAIN cxt'[second] = Level
  /\ \A l \in Level : l # s => cxt'[second][l] = Unwritten
  /\ DOMAIN cxt'[second][s] = DOMAIN Unwritten
  /\ cxt'[second][s].start = mid /\ cxt'[second][s].max = Cxt(t)[s].max
  /\ cxt'[second][s].liveIn = Cxt(t)[s].liveIn
  /\ cxt'[second][s].liveOut = Cxt(t)[s].liveOut
  /\ \A b \in DOMAIN cxt \ {area[t], second} : cxt'[b] = cxt[b]

\* A promotion is such a split: of the outermost loop that has work, so that the
\* levels above are in their last iteration.
LEMMA SplitFacts ==
  ASSUME MemoryInv, NEW t \in DOMAIN pc, Promote(t),
         NEW first, first = Append(t, 0), NEW second, second = Append(t, 1)
  PROVE  \E s, low, mid : Spawned(t, s, first, second) /\ SplitAt(t, s, low, mid, first, second)
<1> DEFINE starting == tmem[area[t]].starting
<1>1. pc[t] = "poll"
  BY DEF Promote, At
<1>2. PICK s \in Splittable(Polled(t), starting) :
        /\ \A l \in Splittable(Polled(t), starting) : s <= l
        /\ Fork(t, s)
  BY DEF Promote
<1> DEFINE low == frame[t][Leaf].low
           mid == (Polled(t)[s].start + 1 + Polled(t)[s].max) \div 2
<1>3. starting = until[t] /\ until[t] \in Nat /\ ~Forked(t)
  BY <1>1, PolledFacts
<1>4. /\ s \in until[t] .. Leaf /\ Polled(t)[s].max - Polled(t)[s].start >= 2
      /\ \A l \in until[t] .. Leaf :
           Polled(t)[l].max - Polled(t)[l].start >= 2 => s <= l
  BY <1>2, <1>3 DEF Splittable
<1>5. s \in Level /\ s \in Nat /\ until[t] <= s /\ s <= Leaf
  BY <1>3, <1>4, LevelFacts
<1>6. low - 1 \in Nat /\ low \in Nat
  BY <1>1, PolledFacts
<1>7. \A l \in until[t] .. Leaf :
        /\ Cxt(t)[l].start \in Nat /\ Cxt(t)[l].max \in Nat
        /\ Polled(t)[l].start = IF l = Leaf THEN low - 1 ELSE Cxt(t)[l].start
        /\ Polled(t)[l].max = Cxt(t)[l].max
        /\ Polled(t)[l].start \in Nat /\ Polled(t)[l].start < Polled(t)[l].max
  BY <1>1, PolledFacts
<1>8. /\ mid \in Nat /\ Polled(t)[s].start + 1 <= mid /\ mid < Polled(t)[s].max
  <2>1. Polled(t)[s].start \in Nat /\ Polled(t)[s].max \in Nat
    BY <1>4, <1>7
  <2> QED BY <1>4, <2>1, HalvesBounded
<1>x. low = frame[t][Leaf].low
  OBVIOUS
<1> HIDE DEF low, mid
<1>9. mid < Cxt(t)[s].max /\ IF s = Leaf THEN low <= mid ELSE Cxt(t)[s].start + 1 <= mid
  <2>1. Polled(t)[s].max = Cxt(t)[s].max /\ Cxt(t)[s].start \in Nat
    BY <1>4, <1>7
  <2>2. CASE s = Leaf
    <3>1. Polled(t)[s].start = low - 1
      BY <1>4, <1>7, <2>2
    <3> QED BY <1>6, <1>8, <2>1, <2>2, <3>1
  <2>3. CASE s # Leaf
    <3>1. Polled(t)[s].start = Cxt(t)[s].start
      BY <1>4, <1>7, <2>3
    <3> QED BY <1>8, <2>1, <2>3, <3>1
  <2> QED BY <2>2, <2>3
<1>10. ASSUME NEW l \in until[t] .. s - 1 PROVE Cxt(t)[l].start + 1 = Cxt(t)[l].max
  <2>1. l \in until[t] .. Leaf /\ l # Leaf /\ ~(s <= l)
    BY <1>3, <1>5, LevelFacts
  <2>2. /\ ~(Polled(t)[l].max - Polled(t)[l].start >= 2)
        /\ Polled(t)[l].start < Polled(t)[l].max
        /\ Polled(t)[l].start = Cxt(t)[l].start /\ Polled(t)[l].max = Cxt(t)[l].max
        /\ Cxt(t)[l].start \in Nat /\ Cxt(t)[l].max \in Nat
    BY <1>4, <1>7, <2>1
  <2>3. ~(Cxt(t)[l].max - Cxt(t)[l].start >= 2) /\ Cxt(t)[l].start < Cxt(t)[l].max
    BY <2>2
  <2>4. Cxt(t)[l].start \in Nat /\ Cxt(t)[l].max \in Nat
    BY <2>2
  <2> QED BY <2>3, <2>4
<1>11. /\ first # t /\ second # t /\ first # second
       /\ first \notin DOMAIN pc /\ second \notin DOMAIN pc /\ area[t] # second
  BY <1>3, NoBranches, MemoryParts, AreaOf, Branches, BranchesApart
<1>12. Spawned(t, s, first, second)
  BY <1>1, <1>2, MemoryParts, ForkEffects
<1>13. Cxt(t) = cxt[area[t]] /\ low \in Int
  BY <1>6 DEF Cxt
<1>14. /\ DOMAIN cxt'[area[t]] = Level
       /\ \A l \in Level :
            /\ DOMAIN cxt'[area[t]][l] = DOMAIN Cxt(t)[l]
            /\ cxt'[area[t]][l].liveIn = Cxt(t)[l].liveIn
            /\ cxt'[area[t]][l].liveOut = Cxt(t)[l].liveOut
            /\ cxt'[area[t]][l].max = IF l = s THEN mid ELSE Cxt(t)[l].max
            /\ cxt'[area[t]][l].start = IF l # Leaf THEN Cxt(t)[l].start
                                  ELSE IF s = Leaf THEN low ELSE low - 1
            /\ l # s /\ l # Leaf => cxt'[area[t]][l] = Cxt(t)[l]
       /\ DOMAIN cxt'[second] = Level
       /\ \A l \in Level : l # s => cxt'[second][l] = Unwritten
       /\ DOMAIN cxt'[second][s] = DOMAIN Unwritten
       /\ cxt'[second][s].start = mid /\ cxt'[second][s].max = Cxt(t)[s].max
       /\ cxt'[second][s].liveIn = Cxt(t)[s].liveIn
       /\ cxt'[second][s].liveOut = Cxt(t)[s].liveOut
       /\ \A b \in DOMAIN cxt \ {area[t], second} : cxt'[b] = cxt[b]
  <2> DEFINE a == area[t]
  <2>1. a = area[t] /\ a # second
    BY <1>11
  <2>2. low = frame[t][Leaf].low /\ mid = (Polled(t)[s].start + 1 + Polled(t)[s].max) \div 2
    BY DEF low, mid
  <2> HIDE DEF a
  <2>3. Divided(s, second, a, low, mid)
    BY <1>1, <1>2, <1>5, <1>13, <2>1, <2>2, ForkContexts
  <2> QED BY <2>3 DEF Divided, Cxt, a
<1>15. SplitAt(t, s, low, mid, first, second)
  BY <1>x, <1>5, <1>6, <1>8, <1>9, <1>10, <1>11, <1>14 DEF SplitAt
<1> QED BY <1>12, <1>15

\* Who has branches once task t is promoted.
LEMMA SplitFamilies ==
  ASSUME MemoryInv, NEW t \in DOMAIN pc, ~Forked(t),
         NEW first, first = Append(t, 0), NEW second, second = Append(t, 1),
         NEW s, Spawned(t, s, first, second),
         first \notin DOMAIN pc, second \notin DOMAIN pc
  PROVE  /\ Forked(t)' /\ Given(t)' = s
         /\ ~Forked(first)' /\ Given(first)' = Leaf + 1
         /\ ~Forked(second)' /\ Given(second)' = Leaf + 1
         /\ \A v \in DOMAIN pc : v # t => Forked(v)' = Forked(v) /\ Given(v)' = Given(v)
<1>1. /\ DOMAIN pc' = DOMAIN pc \cup {first, second}
      /\ until'[first] = s
      /\ \A u \in DOMAIN pc \ {first, second} : until'[u] = until[u]
  BY DEF Spawned
<1>2. /\ \A u \in DOMAIN pc : /\ Append(u, 0) = first => u = t
                              /\ Append(u, 0) # second
      /\ Append(first, 0) \notin DOMAIN pc /\ Append(first, 0) \notin {first, second}
      /\ Append(second, 0) \notin DOMAIN pc /\ Append(second, 0) \notin {first, second}
  BY NoBranches
<1>3. Forked(t)' /\ Given(t)' = s
  BY <1>1 DEF Forked, Given
<1>4. ~Forked(first)' /\ ~Forked(second)'
  BY <1>1, <1>2 DEF Forked
<1>5. ASSUME NEW v \in DOMAIN pc, v # t
      PROVE  Forked(v)' = Forked(v) /\ Given(v)' = Given(v)
  <2>1. Append(v, 0) \in DOMAIN pc' <=> Append(v, 0) \in DOMAIN pc
    BY <1>1, <1>2, <1>5
  <2>2. Append(v, 0) \in DOMAIN pc => until'[Append(v, 0)] = until[Append(v, 0)]
    BY <1>1, <1>2, <1>5
  <2> QED BY <2>1, <2>2 DEF Forked, Given
<1> QED BY <1>3, <1>4, <1>5 DEF Given

\* The task that was promoted: the levels above the one split are in their last
\* iteration, the others are no longer its own.
LEMMA SplitParent ==
  ASSUME MemoryInv, NEW t \in DOMAIN pc, pc[t] = "poll",
         NEW first, first = Append(t, 0), NEW second, second = Append(t, 1),
         NEW s, Spawned(t, s, first, second), NEW low, NEW mid,
         SplitAt(t, s, low, mid, first, second)
  PROVE  TaskInv(t)'
<1>1. /\ t \notin {first, second} /\ s \in Level /\ s \in Nat /\ until[t] <= s /\ s <= Leaf
      /\ first \notin DOMAIN pc /\ second \notin DOMAIN pc
      /\ \A l \in until[t] .. s - 1 : Cxt(t)[l].start + 1 = Cxt(t)[l].max
      /\ \A l \in Level : l # s /\ l # Leaf => cxt'[area[t]][l] = Cxt(t)[l]
  BY DEF SplitAt
<1>2. /\ pc'[t] = "join" /\ rc'[t] = ReturnCode(s) /\ area'[t] = area[t]
      /\ base'[t] = base[t] /\ top'[t] = top[t] /\ until'[t] = until[t]
      /\ frame'[t] = frame[t] /\ array' = array
  BY <1>1 DEF Spawned
<1>3. /\ top[t] = Leaf /\ ~Forked(t) /\ until[t] \in Nat /\ until[t] <= Leaf
      /\ \A l \in until[t] .. Leaf : l # Leaf => SuspendedAt(t, l)
  BY PolledFacts
<1>4. Forked(t)' /\ Given(t)' = s
  BY <1>1, <1>3, SplitFamilies
<1>5. \A l \in Level : l < s => Cxt(t)[l]' = Cxt(t)[l]
  BY <1>1, <1>2, LevelFacts DEF Cxt
<1>6. ASSUME NEW l, l \in until[t] .. s - 1
      PROVE  SuspendedAt(t, l)'
  <2>1. l \in Level /\ l # Leaf /\ l \in until[t] .. Leaf /\ l < s
    BY <1>1, <1>3, <1>6, LevelFacts
  <2>2. SuspendedAt(t, l) /\ Cxt(t)[l]' = Cxt(t)[l] /\ Cxt(t)[l].start + 1 = Cxt(t)[l].max
    BY <1>1, <1>3, <1>5, <1>6, <2>1
  <2>3. ArraysKept(t)
    BY <1>2 DEF ArraysKept
  <2>4. ReadableAt(t, l)'
    BY <2>2, <2>3, ReadableKept DEF SuspendedAt
  <2>5. l >= base[t] => FrameAt(t, l)' /\ frame'[t][l].iv = Cxt(t)[l]'.start
    BY <1>2, <2>2 DEF SuspendedAt, FrameAt
  <2>6. Cxt(t)[l]'.start < Cxt(t)[l]'.max /\ Cxt(t)[l]'.start + 1 = Cxt(t)[l]'.max
    BY <2>2 DEF SuspendedAt
  <2> QED BY <1>2, <2>4, <2>5, <2>6 DEF SuspendedAt
<1>7. LevelsOK(t)'
  <2>1. \A l \in Suspended(t)' : l \in until[t] .. s - 1
    BY <1>1, <1>2, <1>3, <1>4 DEF Suspended
  <2>2. \A l \in 0 .. until[t] - 1 : Cxt(t)[l]' = Cxt(t)[l]
    BY <1>1, <1>3, <1>5, LevelFacts
  <2>3. \A l \in 0 .. until[t] - 1 : Cxt(t)[l].start # Undef =>
          /\ Cxt(t)[l].start \in Int /\ Cxt(t)[l].max \in Int
          /\ Cxt(t)[l].max - Cxt(t)[l].start <= 1
    BY OwnFacts DEF LevelsOK
  <2>4. \A l \in 0 .. until'[t] - 1 : Cxt(t)[l]'.start # Undef =>
          /\ Cxt(t)[l]'.start \in Int /\ Cxt(t)[l]'.max \in Int
          /\ Cxt(t)[l]'.max - Cxt(t)[l]'.start <= 1
    BY <1>2, <2>2, <2>3
  <2> QED BY <1>4, <1>6, <2>1, <2>4 DEF LevelsOK
<1>8. TopOK(t)'
  BY <1>2 DEF TopOK
<1>9. CodeOK(t)'
  BY <1>2, <1>3, <1>4 DEF CodeOK, ReturnCode
<1>10. MemoryOK(t)'
  BY <1>2, <1>4 DEF MemoryOK
<1> QED BY <1>7, <1>8, <1>9, <1>10 DEF TaskInv

\* Its first branch, a leftover task, takes over the levels below.
LEMMA SplitFirst ==
  ASSUME MemoryInv, NEW t \in DOMAIN pc, pc[t] = "poll",
         NEW first, first = Append(t, 0), NEW second, second = Append(t, 1),
         NEW s, Spawned(t, s, first, second), NEW low, NEW mid,
         SplitAt(t, s, low, mid, first, second)
  PROVE  TaskInv(first)'
<1>1. /\ s \in Level /\ s \in Nat /\ until[t] <= s /\ s <= Leaf
      /\ first \notin DOMAIN pc /\ second \notin DOMAIN pc
      /\ low \in Nat /\ low - 1 \in Nat /\ mid \in Nat
      /\ mid < Cxt(t)[s].max
      /\ IF s = Leaf THEN low <= mid ELSE Cxt(t)[s].start + 1 <= mid
      /\ \A l \in until[t] .. s - 1 : Cxt(t)[l].start + 1 = Cxt(t)[l].max
      /\ \A l \in Level : l # s /\ l # Leaf => cxt'[area[t]][l] = Cxt(t)[l]
  BY DEF SplitAt
<1>2. /\ pc'[first] = "start" /\ area'[first] = area[t] /\ base'[first] = Leaf
      /\ top'[first] = Leaf /\ until'[first] = s /\ frame'[first] = <<>> /\ array' = array
  BY DEF Spawned
<1>3. Cxt(first)' = cxt'[area[t]]
  BY <1>2 DEF Cxt
<1>4. \A l \in Level :
        /\ Cxt(first)[l]'.liveIn = Cxt(t)[l].liveIn
        /\ Cxt(first)[l]'.liveOut = Cxt(t)[l].liveOut
        /\ Cxt(first)[l]'.max = IF l = s THEN mid ELSE Cxt(t)[l].max
        /\ Cxt(first)[l]'.start = IF l # Leaf THEN Cxt(t)[l].start
                                  ELSE IF s = Leaf THEN low ELSE low - 1
  <2>1. \A l \in Level :
          /\ cxt'[area[t]][l].liveIn = Cxt(t)[l].liveIn
          /\ cxt'[area[t]][l].liveOut = Cxt(t)[l].liveOut
          /\ cxt'[area[t]][l].max = IF l = s THEN mid ELSE Cxt(t)[l].max
          /\ cxt'[area[t]][l].start = IF l # Leaf THEN Cxt(t)[l].start
                                      ELSE IF s = Leaf THEN low ELSE low - 1
    BY DEF SplitAt
  <2> QED BY <1>3, <2>1
<1>5. /\ top[t] = Leaf /\ ~Forked(t) /\ until[t] \in Nat /\ until[t] <= Leaf
      /\ Bounds[array[Cxt(t)[Leaf].liveIn].live].first <= low - 1
      /\ \A l \in until[t] .. Leaf :
           /\ ReadableAt(t, l) /\ Cxt(t)[l].start \in Nat /\ Cxt(t)[l].max \in Nat
           /\ l # Leaf => SuspendedAt(t, l)
      /\ t \in Paths
  <2>1. low = frame[t][Leaf].low
    BY DEF SplitAt
  <2> QED BY <2>1, PolledFacts, OwnFacts
<1>6. ~Forked(first)' /\ Given(first)' = Leaf + 1
  BY <1>1, <1>5, SplitFamilies
<1>7. ASSUME NEW l, l \in s .. Leaf PROVE ReadableAt(first, l)'
  <2>1. l \in Level /\ l \in until[t] .. Leaf
    BY <1>1, <1>5, <1>7, LevelFacts
  <2>2. ReadableAt(t, l) /\ Cxt(t)[l].start \in Nat /\ Cxt(t)[l].max \in Nat
    BY <1>5, <2>1
  <2>3. Cxt(first)[l]'.max \in Nat /\ Cxt(first)[l]'.max <= Cxt(t)[l].max
    BY <1>1, <1>4, <2>1, <2>2
  <2>4. Cxt(first)[l]'.start \in Nat
    BY <1>1, <1>4, <2>1, <2>2
  <2>5. \/ Cxt(t)[l].start <= Cxt(first)[l]'.start
        \/ Bounds[array[Cxt(t)[l].liveIn].live].first <= Cxt(first)[l]'.start
    <3>1. CASE l # Leaf
      BY <1>4, <2>1, <2>2, <3>1
    <3>2. CASE l = Leaf
      <4>1. array[Cxt(t)[l].liveIn].live \in DOMAIN Bounds
        BY <2>2 DEF ReadableAt
      <4>2. Bounds[array[Cxt(t)[l].liveIn].live].first \in Nat
        BY <4>1, NestAssumption
      <4>3. Bounds[array[Cxt(t)[l].liveIn].live].first <= low - 1
        BY <1>5, <3>2
      <4>4. Cxt(first)[l]'.start = low \/ Cxt(first)[l]'.start = low - 1
        BY <1>4, <2>1, <3>2
      <4> QED BY <1>1, <4>2, <4>3, <4>4
    <3> QED BY <3>1, <3>2
  <2>6. Cxt(first)[l]'.liveIn = Cxt(t)[l].liveIn /\ Cxt(first)[l]'.liveOut = Cxt(t)[l].liveOut
    BY <1>4, <2>1
  <2> QED BY <1>2, <1>5, <2>2, <2>3, <2>4, <2>5, <2>6, BranchReads
<1>8. ASSUME NEW l, l \in s .. Leaf - 1 PROVE SuspendedAt(first, l)'
  <2>1. l \in s .. Leaf /\ l \in Level /\ l \in until[t] .. Leaf /\ l # Leaf /\ ~(l >= Leaf)
    BY <1>1, <1>5, <1>8, LevelFacts
  <2>2. ReadableAt(first, l)'
    BY <1>7, <2>1
  <2>3. SuspendedAt(t, l)
    BY <1>5, <2>1
  <2>4. Cxt(t)[l].start < Cxt(t)[l].max
    BY <2>3 DEF SuspendedAt
  <2>5. Cxt(t)[l].start \in Nat
    BY <1>5, <2>1
  <2>6. Cxt(first)[l]'.start < Cxt(first)[l]'.max
    BY <1>1, <1>4, <2>1, <2>4, <2>5
  <2> QED BY <1>2, <1>6, <2>1, <2>2, <2>6 DEF SuspendedAt
<1>9. LevelsOK(first)'
  <2>1. \A l \in Suspended(first)' : l \in s .. Leaf - 1
    BY <1>1, <1>2, LevelFacts DEF Suspended
  <2>2. DOMAIN frame'[first] = {}
    BY <1>2
  <2>3. ASSUME NEW l \in 0 .. s - 1, Cxt(first)[l]'.start # Undef
        PROVE  /\ Cxt(first)[l]'.start \in Int /\ Cxt(first)[l]'.max \in Int
               /\ Cxt(first)[l]'.max - Cxt(first)[l]'.start <= 1
    <3>1. l \in Level /\ l # s /\ l # Leaf /\ l < s /\ l \in Nat
      BY <1>1, LevelFacts
    <3>2. Cxt(first)[l]' = Cxt(t)[l]
      BY <1>1, <1>3, <3>1
    <3>3. CASE l < until[t]
      <4>1. l \in 0 .. until[t] - 1
        BY <1>5, <3>1, <3>3
      <4>2. /\ Cxt(t)[l].start \in Int /\ Cxt(t)[l].max \in Int
            /\ Cxt(t)[l].max - Cxt(t)[l].start <= 1
        BY <2>3, <3>2, <4>1, OwnFacts DEF LevelsOK
      <4> QED BY <3>2, <4>2
    <3>4. CASE until[t] <= l
      <4>1. l \in until[t] .. s - 1 /\ l \in until[t] .. Leaf
        BY <1>1, <1>5, <2>3, <3>1, <3>4, LevelFacts
      <4>2. /\ Cxt(t)[l].start \in Nat /\ Cxt(t)[l].max \in Nat
            /\ Cxt(t)[l].start + 1 = Cxt(t)[l].max
        BY <1>1, <1>5, <4>1
      <4> QED BY <3>2, <4>2
    <3> QED BY <1>5, <3>1, <3>3, <3>4
  <2> QED BY <1>2, <1>8, <2>1, <2>2, <2>3 DEF LevelsOK
<1>10. TopOK(first)'
  <2>1. ReadableAt(first, Leaf)'
    BY <1>1, <1>7, LevelFacts
  <2>2. Leaf < Leaf + 1
    BY LevelFacts
  <2> QED BY <1>2, <1>6, <2>1, <2>2 DEF TopOK
<1>11. CodeOK(first)'
  BY <1>2 DEF CodeOK
<1>12. MemoryOK(first)'
  BY <1>2, <1>6 DEF MemoryOK
<1> QED BY <1>9, <1>10, <1>11, <1>12 DEF TaskInv

\* Its second branch has the upper half of the level split and nothing else.
LEMMA SplitSecond ==
  ASSUME MemoryInv, NEW t \in DOMAIN pc, pc[t] = "poll",
         NEW first, first = Append(t, 0), NEW second, second = Append(t, 1),
         NEW s, Spawned(t, s, first, second), NEW low, NEW mid,
         SplitAt(t, s, low, mid, first, second)
  PROVE  TaskInv(second)'
<1>1. /\ s \in Level /\ s \in Nat /\ until[t] <= s /\ s <= Leaf
      /\ first \notin DOMAIN pc /\ second \notin DOMAIN pc
      /\ low \in Nat /\ low - 1 \in Nat /\ mid \in Nat
      /\ IF s = Leaf THEN low <= mid ELSE Cxt(t)[s].start + 1 <= mid
  BY DEF SplitAt
<1>2. /\ pc'[second] = "start" /\ area'[second] = second /\ base'[second] = s
      /\ top'[second] = s /\ until'[second] = s /\ frame'[second] = <<>> /\ array' = array
  BY DEF Spawned
<1>3. /\ Cxt(second)' = cxt'[second]
      /\ \A l \in Level : l # s => cxt'[second][l] = Unwritten
      /\ cxt'[second][s].start = mid /\ cxt'[second][s].max = Cxt(t)[s].max
      /\ cxt'[second][s].liveIn = Cxt(t)[s].liveIn
      /\ cxt'[second][s].liveOut = Cxt(t)[s].liveOut
  BY <1>2 DEF Cxt, SplitAt
<1>4. /\ ~Forked(t) /\ t \in Paths /\ until[t] \in Nat
      /\ Bounds[array[Cxt(t)[Leaf].liveIn].live].first <= low - 1
      /\ \A l \in until[t] .. Leaf :
           ReadableAt(t, l) /\ Cxt(t)[l].start \in Nat /\ Cxt(t)[l].max \in Nat
  <2>1. low = frame[t][Leaf].low
    BY DEF SplitAt
  <2> QED BY <2>1, PolledFacts, OwnFacts
<1>5. ~Forked(second)' /\ Given(second)' = Leaf + 1
  BY <1>1, <1>4, SplitFamilies
<1>6. ReadableAt(t, s) /\ Cxt(t)[s].start \in Nat /\ Cxt(t)[s].max \in Nat
  BY <1>1, <1>4
<1>7. \/ Cxt(t)[s].start <= mid
      \/ Bounds[array[Cxt(t)[s].liveIn].live].first <= mid
  <2>1. CASE s # Leaf
    BY <1>1, <1>6, <2>1
  <2>2. CASE s = Leaf
    <3>1. array[Cxt(t)[s].liveIn].live \in DOMAIN Bounds
      BY <1>6 DEF ReadableAt
    <3>2. Bounds[array[Cxt(t)[s].liveIn].live].first \in Nat
      BY <3>1, NestAssumption
    <3>3. Bounds[array[Cxt(t)[s].liveIn].live].first <= low - 1 /\ low <= mid
      BY <1>1, <1>4, <2>2
    <3> QED BY <1>1, <3>2, <3>3
  <2> QED BY <2>1, <2>2
<1>8. ReadableAt(second, s)'
  <2>1. /\ Cxt(second)[s]'.liveIn = Cxt(t)[s].liveIn
        /\ Cxt(second)[s]'.liveOut = Cxt(t)[s].liveOut
        /\ Cxt(second)[s]'.start = mid /\ Cxt(second)[s]'.max = Cxt(t)[s].max
    BY <1>3
  <2>2. Cxt(second)[s]'.max \in Nat /\ Cxt(second)[s]'.max <= Cxt(t)[s].max
    BY <1>6, <2>1
  <2> QED BY <1>1, <1>2, <1>4, <1>6, <1>7, <2>1, <2>2, BranchReads
<1>9. LevelsOK(second)'
  <2>1. Suspended(second)' = {}
    BY <1>1, <1>2 DEF Suspended
  <2>2. DOMAIN frame'[second] = {}
    BY <1>2
  <2>3. ASSUME NEW l \in 0 .. s - 1 PROVE Cxt(second)[l]'.start = Undef
    <3>1. l \in Level /\ l # s
      BY <1>1, LevelFacts
    <3>2. Cxt(second)[l]' = Unwritten
      BY <1>3, <3>1
    <3> QED BY <3>2 DEF Unwritten
  <2> QED BY <1>2, <2>1, <2>2, <2>3 DEF LevelsOK
<1>10. TopOK(second)'
  <2>1. s < Leaf + 1 /\ ~(s > s)
    BY <1>1, LevelFacts
  <2> QED BY <1>2, <1>5, <1>8, <2>1 DEF TopOK
<1>11. CodeOK(second)'
  BY <1>2 DEF CodeOK
<1>12. MemoryOK(second)'
  BY <1>2, <1>5 DEF MemoryOK
<1> QED BY <1>9, <1>10, <1>11, <1>12 DEF TaskInv

\* The tasks that have nothing to do with a promotion.
LEMMA SplitOthers ==
  ASSUME MemoryInv, NEW t \in DOMAIN pc, pc[t] = "poll",
         NEW first, first = Append(t, 0), NEW second, second = Append(t, 1),
         NEW s, Spawned(t, s, first, second), NEW low, NEW mid,
         SplitAt(t, s, low, mid, first, second),
         NEW v \in DOMAIN pc, v # t, pc[v] # "done"
  PROVE  TaskInv(v)'
<1>1. /\ v \notin {first, second} /\ second \notin DOMAIN pc /\ first \notin DOMAIN pc
      /\ s \in Level /\ s \in Nat /\ until[t] <= s /\ s <= Leaf
      /\ \A l \in Level : l # s /\ l # Leaf => cxt'[area[t]][l] = Cxt(t)[l]
      /\ \A b \in DOMAIN cxt \ {area[t], second} : cxt'[b] = cxt[b]
  BY DEF SplitAt
<1>2. /\ pc'[v] = pc[v] /\ rc'[v] = rc[v] /\ base'[v] = base[v] /\ top'[v] = top[v]
      /\ until'[v] = until[v] /\ area'[v] = area[v] /\ frame'[v] = frame[v] /\ array' = array
      /\ \A a \in DOMAIN tmem \ {second} : tmem'[a] = tmem[a]
      /\ \A a \in DOMAIN unpolled \ {second} : unpolled'[a] = unpolled[a]
  BY <1>1 DEF Spawned
<1>3. Forked(v)' = Forked(v) /\ Given(v)' = Given(v)
  BY <1>1, PolledFacts, SplitFamilies
<1>4. area[v] = area[t] => pc[v] = "join" /\ Given(v) <= until[t]
  BY AreaWaits
<1>5. area[v] \in DOMAIN cxt /\ area[v] \in DOMAIN tmem /\ area[v] \in DOMAIN unpolled
  BY OwnFacts
<1>6. area[v] # second
  BY <1>1, MemoryParts, AreaOf
<1>7. area[v] # area[t] => /\ cxt'[area[v]] = cxt[area[v]]
                           /\ tmem'[area[v]] = tmem[area[v]]
                           /\ unpolled'[area[v]] = unpolled[area[v]]
  BY <1>1, <1>2, <1>5, <1>6
<1>8. \A l \in Level : l < until[t] => cxt'[area[t]][l] = cxt[area[t]][l]
  <2>1. until[t] \in Nat
    BY PolledFacts
  <2> SUFFICES ASSUME NEW l \in Level, l < until[t] PROVE cxt'[area[t]][l] = cxt[area[t]][l]
    OBVIOUS
  <2>2. l # s /\ l # Leaf
    BY <1>1, <2>1, LevelFacts
  <2>3. cxt'[area[t]][l] = Cxt(t)[l]
    BY <1>1, <2>2
  <2> QED BY <2>3 DEF Cxt
<1>9. ArraysKept(v)
  BY <1>2 DEF ArraysKept
<1> QED BY <1>2, <1>3, <1>4, <1>7, <1>8, <1>9, OthersKept

\* Who shares an area after a promotion.
LEMMA SplitGiven ==
  ASSUME MemoryInv, NEW t \in DOMAIN pc, pc[t] = "poll",
         NEW first, first = Append(t, 0), NEW second, second = Append(t, 1),
         NEW s, Spawned(t, s, first, second), NEW low, NEW mid,
         SplitAt(t, s, low, mid, first, second)
  PROVE  GivenOK'
<1>1. /\ first # t /\ second # t /\ first # second
      /\ first \notin DOMAIN pc /\ second \notin DOMAIN pc /\ area[t] # second
      /\ s \in Nat /\ until[t] <= s /\ s <= Leaf
  BY DEF SplitAt
<1>2. /\ DOMAIN pc' = DOMAIN pc \cup {first, second}
      /\ area'[first] = area[t] /\ area'[second] = second
      /\ \A u \in DOMAIN pc : area'[u] = area[u] /\ until'[u] = until[u]
      /\ until'[first] = s /\ until'[second] = s
  BY <1>1 DEF Spawned
<1>3. /\ Given(t)' = s /\ Given(first)' = Leaf + 1 /\ Given(second)' = Leaf + 1
      /\ \A v \in DOMAIN pc : v # t => Given(v)' = Given(v)
  BY <1>1, PolledFacts, SplitFamilies
<1>4. \A u \in DOMAIN pc' : until'[u] <= Given(u)'
  <2>1. \A u \in DOMAIN pc : until[u] <= Given(u)
    BY MemoryParts DEF GivenOK
  <2>2. s <= Leaf + 1
    BY <1>1, LevelFacts
  <2> QED BY <1>1, <1>2, <1>3, <2>1, <2>2
<1>5. ASSUME NEW u \in DOMAIN pc', NEW v \in DOMAIN pc', area'[u] = area'[v], Len(u) < Len(v)
      PROVE  Given(u)' <= until'[v]
  <2>1. /\ t \in Paths /\ Len(t) \in Nat /\ Len(first) = Len(t) + 1
        /\ \A w \in DOMAIN pc : Len(w) \in Nat /\ area[w] # second
    BY <1>1, MemoryParts, AreaOf, Branches
  <2>2. \A w \in DOMAIN pc : area[w] = area[t] => ~(Len(t) < Len(w))
    BY PolledFacts, NoBranches
  <2>8. u # v
    <3>1. Len(u) \in Nat
      BY <1>2, <2>1, Branches
    <3> QED BY <1>5, <3>1
  <2>9. \A w \in DOMAIN pc' : area'[w] = second => w = second
    BY <1>1, <1>2, <2>1
  <2>3. u # second /\ v # second
    BY <1>2, <1>5, <2>8, <2>9
  <2>4. u # first
    <3> SUFFICES ASSUME u = first PROVE FALSE
      OBVIOUS
    <3>1. v \in DOMAIN pc
      BY <1>2, <2>3, <2>8
    <3>2. area[v] = area[t] /\ Len(v) \in Nat /\ Len(t) + 1 < Len(v)
      BY <1>2, <1>5, <2>1, <3>1
    <3>3. Len(t) < Len(v)
      BY <2>1, <3>2
    <3> QED BY <2>2, <3>1, <3>2, <3>3
  <2>5. u \in DOMAIN pc
    BY <1>2, <2>3, <2>4
  <2>6. CASE v = first
    <3>1. CASE u = t
      BY <1>1, <1>2, <1>3, <2>6, <3>1
    <3>2. CASE u # t
      <4>1. area[u] = area[t] /\ ~(Len(u) = Len(t))
        BY <1>2, <1>5, <2>5, <2>6, <3>2, MemoryParts, SameArea
      <4>2. Len(u) < Len(t)
        BY <1>5, <2>1, <2>5, <2>6, <4>1
      <4>3. Given(u) <= until[t]
        BY <2>5, <4>1, <4>2, MemoryParts DEF GivenOK
      <4>4. Given(u) \in Int /\ until[t] \in Nat
        BY <2>5, GivenFacts
      <4> QED BY <1>1, <1>2, <1>3, <2>5, <2>6, <3>2, <4>3, <4>4
    <3> QED BY <3>1, <3>2
  <2>7. CASE v # first
    <3>1. v \in DOMAIN pc /\ area[u] = area[v]
      BY <1>2, <1>5, <2>3, <2>5, <2>7
    <3>2. u # t
      BY <1>5, <2>2, <3>1
    <3>3. Given(u) <= until[v]
      BY <1>5, <2>5, <3>1, MemoryParts DEF GivenOK
    <3> QED BY <1>2, <1>3, <2>5, <3>1, <3>2, <3>3
  <2> QED BY <2>6, <2>7
<1> QED BY <1>4, <1>5 DEF GivenOK

LEMMA PromoteMemory ==
  ASSUME MemoryInv, ControlInv', NEW t \in DOMAIN pc, Promote(t)
  PROVE  MemoryInv'
<1> DEFINE first  == Append(t, 0)
           second == Append(t, 1)
<1>a. first = Append(t, 0) /\ second = Append(t, 1)
  OBVIOUS
<1> HIDE DEF first, second
<1>1. pc[t] = "poll" /\ t \in Paths
  BY OwnFacts DEF Promote, At
<1>2. PICK s, low, mid : Spawned(t, s, first, second) /\ SplitAt(t, s, low, mid, first, second)
  BY <1>a, SplitFacts
<1>3. /\ first # t /\ second # t /\ first # second
      /\ first \notin DOMAIN pc /\ second \notin DOMAIN pc
  BY <1>2 DEF SplitAt
<1>4. /\ DOMAIN pc' = DOMAIN pc \cup {first, second}
      /\ pc'[t] = "join" /\ pc'[first] = "start" /\ pc'[second] = "start"
      /\ \A u \in DOMAIN pc : u # t => pc'[u] = pc[u]
  BY <1>2, <1>3 DEF Spawned
<1>5. RecordsOK'
  <2>1. RecordsOK
    BY MemoryParts
  <2>2. /\ DOMAIN cxt' = DOMAIN cxt \cup {second} /\ DOMAIN tmem' = DOMAIN tmem \cup {second}
        /\ tmem'[second] = NoMemory /\ array' = array
        /\ \A a \in DOMAIN tmem \ {second} : tmem'[a] = tmem[a]
        /\ frame'[first] = <<>> /\ frame'[second] = <<>>
        /\ \A u \in DOMAIN pc : frame'[u] = frame[u]
    BY <1>2, <1>3 DEF Spawned
  <2>3. \A a \in DOMAIN cxt' : /\ DOMAIN cxt'[a] = Level
                               /\ \A l \in Level : DOMAIN cxt'[a][l] = DOMAIN Unwritten
    <3>1. /\ DOMAIN cxt'[area[t]] = Level
          /\ \A l \in Level : DOMAIN cxt'[area[t]][l] = DOMAIN Cxt(t)[l]
          /\ DOMAIN cxt'[second] = Level
          /\ \A l \in Level : l # s => cxt'[second][l] = Unwritten
          /\ DOMAIN cxt'[second][s] = DOMAIN Unwritten
          /\ \A b \in DOMAIN cxt \ {area[t], second} : cxt'[b] = cxt[b]
      BY <1>2 DEF SplitAt
    <3>2. area[t] \in DOMAIN cxt /\ Cxt(t) = cxt[area[t]]
      BY <1>1, OwnFacts DEF Cxt
    <3>3. /\ \A l \in Level : DOMAIN cxt'[area[t]][l] = DOMAIN Unwritten
          /\ \A l \in Level : DOMAIN cxt'[second][l] = DOMAIN Unwritten
      BY <2>1, <3>1, <3>2 DEF RecordsOK
    <3>4. \A b \in DOMAIN cxt \ {area[t], second} :
            /\ DOMAIN cxt'[b] = Level
            /\ \A l \in Level : DOMAIN cxt'[b][l] = DOMAIN Unwritten
      BY <2>1, <3>1 DEF RecordsOK
    <3> QED BY <2>2, <3>1, <3>3, <3>4
  <2>4. \A a \in DOMAIN tmem' : tmem'[a].chunksize \in ChunkSizes \cup {Undef}
    BY <2>1, <2>2 DEF RecordsOK, NoMemory
  <2>5. \A q \in DOMAIN array' : DOMAIN array'[q] = DOMAIN NewArray
    BY <2>1, <2>2 DEF RecordsOK
  <2>6. \A u \in DOMAIN pc' : \A l \in DOMAIN frame'[u] :
          DOMAIN frame'[u][l] = {"iv", "max", "row", "out", "low", "chunk", "priv"}
    <3>1. DOMAIN frame'[first] = {} /\ DOMAIN frame'[second] = {}
      BY <2>2
    <3>2. \A u \in DOMAIN pc : \A l \in DOMAIN frame'[u] :
            DOMAIN frame'[u][l] = {"iv", "max", "row", "out", "low", "chunk", "priv"}
      BY <2>1, <2>2 DEF RecordsOK
    <3> QED BY <1>4, <3>1, <3>2
  <2>7. array'[<<Root, -1>>].live = <<>>
    BY <2>1, <2>2 DEF RecordsOK
  <2> QED BY <2>3, <2>4, <2>5, <2>6, <2>7 DEF RecordsOK, Unwritten, NewArray
<1>6. AncestorsWait'
  <2>1. \A u \in DOMAIN pc : pc[u] # "done" =>
          \A p \in Ancestors(u) : p \in DOMAIN pc' /\ pc'[p] = "join"
    <3> SUFFICES ASSUME NEW u \in DOMAIN pc, pc[u] # "done", NEW p \in Ancestors(u)
        PROVE  p \in DOMAIN pc' /\ pc'[p] = "join"
      OBVIOUS
    <3>1. p \in DOMAIN pc /\ pc[p] = "join"
      BY MemoryParts DEF AncestorsWait
    <3> QED BY <1>1, <1>4, <3>1
  <2>2. Ancestors(first) = Ancestors(t) \cup {t} /\ Ancestors(second) = Ancestors(t) \cup {t}
    BY <1>1, <1>a, AncestorsOfBranch
  <2>3. \A u \in {first, second} : \A p \in Ancestors(u) : p \in DOMAIN pc' /\ pc'[p] = "join"
    BY <1>1, <1>4, <2>1, <2>2
  <2>4. \A u \in DOMAIN pc' : pc'[u] # "done" =>
          \A p \in Ancestors(u) : p \in DOMAIN pc' /\ pc'[p] = "join"
    BY <1>1, <1>4, <2>1, <2>3
  <2> QED BY <2>4 DEF AncestorsWait, Ancestors
<1>7. GivenOK'
  BY <1>1, <1>2, <1>a, SplitGiven
<1>8. TaskInv(t)' /\ TaskInv(first)' /\ TaskInv(second)'
  BY <1>1, <1>2, <1>a, SplitParent, SplitFirst, SplitSecond
<1>9. ASSUME NEW v \in DOMAIN pc', pc'[v] # "done" PROVE TaskInv(v)'
  <2>1. CASE v \in {t, first, second}
    BY <1>8, <2>1
  <2>2. CASE v \notin {t, first, second}
    <3>1. v \in DOMAIN pc /\ v # t /\ pc[v] # "done"
      BY <1>4, <1>9, <2>2
    <3> QED BY <1>1, <1>2, <1>a, <3>1, SplitOthers
  <2> QED BY <2>1, <2>2
<1> QED BY <1>5, <1>6, <1>7, <1>9 DEF MemoryInv

\* When the original function enters the nest.
LEMMA InitMemory == Init => MemoryInv
<1> SUFFICES ASSUME Init PROVE MemoryInv
  OBVIOUS
<1>1. ControlInv
  BY InitControl
<1>2. /\ DOMAIN pc = {Root} /\ pc[Root] = "start" /\ DOMAIN area = {Root} /\ area[Root] = Root
      /\ frame[Root] = <<>> /\ DOMAIN frame = {Root}
      /\ base[Root] = 0 /\ top[Root] = 0 /\ until[Root] = 0
  BY DEF Init, Only
<1>3. /\ DOMAIN cxt = {Root} /\ DOMAIN cxt[Root] = Level
      /\ cxt[Root][0] = [start |-> Bounds[<<>>].first, max |-> Bounds[<<>>].last,
                         liveIn |-> <<Root, -1>>, liveOut |-> <<Root, -1>>]
      /\ \A l \in Level : l > 0 => cxt[Root][l] = Unwritten
  BY LevelFacts DEF Init, Only
<1>4. /\ DOMAIN array = {<<Root, -1>>} /\ DOMAIN tmem = {Root} /\ tmem[Root] = NoMemory
      /\ array[<<Root, -1>>] = [NewArray EXCEPT !.live = <<>>]
  BY DEF Init, Only
<1>5. array[<<Root, -1>>].live = <<>> /\ DOMAIN array[<<Root, -1>>] = DOMAIN NewArray
  BY <1>4 DEF NewArray
<1>6. ~Forked(Root) /\ Given(Root) = Leaf + 1
  BY <1>2, RootPath, Branches DEF Forked, Given
<1>7. RecordsOK
  <2>1. \A l \in Level : DOMAIN cxt[Root][l] = DOMAIN Unwritten
    BY <1>3, LevelFacts DEF Unwritten
  <2>2. DOMAIN frame[Root] = {}
    BY <1>2
  <2>3. tmem[Root].chunksize \in ChunkSizes \cup {Undef}
    BY <1>4 DEF NoMemory
  <2> QED BY <1>2, <1>3, <1>4, <1>5, <2>1, <2>2, <2>3 DEF RecordsOK
<1>8. AncestorsWait
  BY <1>2, RootHasNoAncestors DEF AncestorsWait
<1>9. GivenOK
  BY <1>2, <1>6, LevelFacts, RootPath DEF GivenOK
<1>10. ReadableAt(Root, 0)
  <2>1. /\ Cxt(Root)[0].start = Bounds[<<>>].first /\ Cxt(Root)[0].max = Bounds[<<>>].last
        /\ Cxt(Root)[0].liveIn = <<Root, -1>> /\ Cxt(Root)[0].liveOut = <<Root, -1>>
    BY <1>2, <1>3 DEF Cxt
  <2>2. <<>> \in DOMAIN Bounds /\ Bounds[<<>>].first \in Nat /\ Bounds[<<>>].last \in Nat
    BY NestAssumption
  <2>3. \A ls : Owned(Root, ls, <<Root, -1>>)
    BY <1>4 DEF Owned
  <2>4. Len(<<>>) = 0
    OBVIOUS
  <2> QED BY <1>5, <2>1, <2>2, <2>3, <2>4 DEF ReadableAt
<1>11. TaskInv(Root)
  <2>1. LevelsOK(Root)
    <3>1. Suspended(Root) = {}
      BY <1>2 DEF Suspended
    <3>2. DOMAIN frame[Root] = {}
      BY <1>2
    <3> QED BY <1>2, <3>1, <3>2 DEF LevelsOK
  <2>2. TopOK(Root)
    BY <1>2, <1>6, <1>10, LevelFacts DEF TopOK
  <2>3. CodeOK(Root)
    BY <1>2 DEF CodeOK
  <2>4. MemoryOK(Root)
    BY <1>2, <1>6 DEF MemoryOK
  <2> QED BY <2>1, <2>2, <2>3, <2>4 DEF TaskInv
<1> QED BY <1>1, <1>2, <1>7, <1>8, <1>9, <1>11 DEF MemoryInv

\* Every step keeps the invariant.
LEMMA NextMemory == MemoryInv /\ [Next]_vars => MemoryInv'
<1>1. ASSUME MemoryInv, NEW t \in DOMAIN pc, Step(t) PROVE MemoryInv'
  <2>1. ControlInv'
    BY <1>1, MemoryParts, NextControl DEF Next
  <2> QED BY <1>1, <2>1, StartMemory, EnterMemory, LeaveLoopMemory, CallNestedMemory,
       RunChunkMemory, NoHeartbeatMemory, HeartbeatIgnoredMemory, PromoteMemory, JoinMemory,
       ReturnToCallerMemory, ReturnToLeftoverMemory, ReturnFromTaskMemory, BackMemory
       DEF Step
<1>2. ASSUME MemoryInv, UNCHANGED vars PROVE MemoryInv'
  <2>1. ControlInv'
    BY <1>2, MemoryParts, NextControl
  <2>2. RecordsOK' /\ AncestorsWait' /\ GivenOK'
    BY <1>2, MemoryParts
    DEF vars, taskVars, RecordsOK, AncestorsWait, GivenOK, Ancestors, Given, Forked
  <2>3. ASSUME NEW t \in DOMAIN pc, pc[t] # "done" PROVE TaskInv(t)'
    <3>1. TaskInv(t)
      BY <1>2, <2>3, MemoryParts
    <3>2. \A l : /\ ReadableAt(t, l)' = ReadableAt(t, l)
                 /\ FrameAt(t, l)' = FrameAt(t, l)
                 /\ LinkedAt(t, l)' = LinkedAt(t, l)
      BY <1>2 DEF vars, taskVars, ReadableAt, Owned, Ancestors, FrameAt, LinkedAt, Cxt
    <3>3. Forked(t)' = Forked(t) /\ Given(t)' = Given(t) /\ Cxt(t)' = Cxt(t) /\ Reg(t)' = Reg(t)
      BY <1>2 DEF vars, taskVars, Forked, Given, Cxt, Reg
    <3>4. \A l : SuspendedAt(t, l)' = SuspendedAt(t, l)
      BY <1>2, <3>2, <3>3 DEF vars, taskVars, SuspendedAt
    <3>5. Suspended(t)' = Suspended(t)
      BY <1>2, <3>3 DEF vars, taskVars, Suspended
    <3>6. LevelsOK(t)'
      BY <1>2, <3>1, <3>2, <3>3, <3>4, <3>5 DEF vars, taskVars, TaskInv, LevelsOK
    <3>7. TopOK(t)'
      BY <1>2, <3>1, <3>2, <3>3 DEF vars, taskVars, TaskInv, TopOK
    <3>8. CodeOK(t)' /\ MemoryOK(t)'
      BY <1>2, <3>1, <3>3 DEF vars, taskVars, TaskInv, CodeOK, MemoryOK
    <3> QED BY <3>6, <3>7, <3>8 DEF TaskInv
  <2> QED BY <1>2, <2>1, <2>2, <2>3 DEF MemoryInv, vars, taskVars
<1> QED BY <1>1, <1>2 DEF Next, Terminated

\* What is in memory, for nests of every depth with every bounds and chunk size: what
\* tasks read at the levels they are in is written and alive, levels given away are in
\* their last iteration, the return code counts them, the allowance matches the
\* iterations run since the last poll.
THEOREM MemoryInvariance == Spec => []MemoryInv
  BY InitMemory, NextMemory, PTL DEF Spec

\* The handler has split the outermost loop with work: above the level it split,
\* nothing is left to the task but the iterations it is in.
THEOREM OutermostSplit == Spec => []OutermostFirst
<1>1. MemoryInv => OutermostFirst
  <2> SUFFICES ASSUME MemoryInv, NEW t \in DOMAIN pc, pc[t] = "join",
                      NEW l \in 0 .. Leaf - rc[t], Cxt(t)[l].start # Undef
      PROVE  Cxt(t)[l].max - Cxt(t)[l].start <= 1
    BY DEF OutermostFirst
  <2>1. Given(t) \in Int /\ until[t] \in Nat /\ top[t] = Leaf /\ Forked(t) /\ Given(t) <= Leaf
        /\ rc[t] = Leaf - Given(t) + 1
    BY GivenFacts, OwnFacts DEF CodeOK
  <2>2. l \in Nat /\ l < Given(t)
    BY <2>1, LevelFacts
  <2>3. CASE l < until[t]
    <3>1. l \in 0 .. until[t] - 1
      BY <2>1, <2>2, <2>3
    <3> QED BY <3>1, OwnFacts DEF LevelsOK
  <2>4. CASE until[t] <= l
    <3>1. l \in Suspended(t)
      BY <2>1, <2>2, <2>4, LevelFacts DEF Suspended
    <3>2. SuspendedAt(t, l)
      BY <3>1, OwnFacts DEF LevelsOK
    <3>3. /\ Cxt(t)[l].start \in Nat /\ Cxt(t)[l].max \in Nat
          /\ Cxt(t)[l].start + 1 = Cxt(t)[l].max
      BY <2>1, <3>2 DEF SuspendedAt, ReadableAt
    <3> QED BY <3>3
  <2> QED BY <2>1, <2>2, <2>3, <2>4
<1> QED BY <1>1, MemoryInvariance, PTL

\* Whatever a slice or the handler reads in a context has been written, and its arrays
\* belong to frames that are still there.
THEOREM ContextsReadable == Spec => []ContextReadable
<1>1. MemoryInv => ContextReadable
  <2> SUFFICES ASSUME MemoryInv, NEW t \in DOMAIN pc
      PROVE  /\ pc[t] = "enter" =>
                  /\ Cxt(t)[top[t]].start # Undef /\ Cxt(t)[top[t]].max # Undef
                  /\ Cxt(t)[top[t]].liveIn \in DOMAIN array
                  /\ array[Cxt(t)[top[t]].liveIn].live # Undef
                  /\ Cxt(t)[top[t]].liveOut \in DOMAIN array
             /\ pc[t] = "poll" =>
                  \A l \in tmem[area[t]].starting .. Leaf :
                    /\ Polled(t)[l].start # Undef /\ Polled(t)[l].max # Undef
                    /\ Polled(t)[l].start <= Polled(t)[l].max
    BY DEF ContextReadable
  <2>0. Undef \notin Nat /\ Undef \notin DOMAIN Bounds
    BY NestAssumption
  <2>1. CASE pc[t] = "enter"
    <3>1. ReadableAt(t, top[t])
      BY <2>1, OwnFacts DEF TopOK
    <3> QED BY <2>0, <2>1, <3>1 DEF ReadableAt, Owned
  <2>2. CASE pc[t] = "poll"
    <3> SUFFICES ASSUME NEW l \in tmem[area[t]].starting .. Leaf
        PROVE  /\ Polled(t)[l].start # Undef /\ Polled(t)[l].max # Undef
               /\ Polled(t)[l].start <= Polled(t)[l].max
      BY <2>2
    <3>1. l \in until[t] .. Leaf
      BY <2>2, PolledFacts
    <3>2. /\ Polled(t)[l].start \in Nat /\ Polled(t)[l].max = Cxt(t)[l].max
          /\ Cxt(t)[l].max \in Nat /\ Polled(t)[l].start < Polled(t)[l].max
      BY <2>2, <3>1, PolledFacts
    <3> QED BY <2>0, <3>2
  <2> QED BY <2>1, <2>2
<1> QED BY <1>1, MemoryInvariance, PTL

\* Between two polls a task runs as many leaf iterations as its chunk size says, over
\* however many rows.
THEOREM ChunksPolled == Spec => []PollsEveryChunk
<1>1. MemoryInv => PollsEveryChunk
  <2> SUFFICES ASSUME MemoryInv, NEW t \in DOMAIN pc
      PROVE  /\ pc[t] = "poll" => unpolled[area[t]] = tmem[area[t]].chunksize
             /\ pc[t] \in {"enter", "header", "exit", "back"} /\ tmem[area[t]].chunksize # Undef
                  => unpolled[area[t]] <= tmem[area[t]].chunksize
    BY DEF PollsEveryChunk
  <2>1. CASE pc[t] = "poll"
    <3>1. MemoryOK(t) /\ ~Forked(t)
      BY <2>1, OwnFacts, PolledFacts
    <3> QED BY <2>1, <3>1 DEF MemoryOK
  <2>2. CASE pc[t] \in {"enter", "header", "exit", "back"} /\ tmem[area[t]].chunksize # Undef
    <3>1. MemoryOK(t) /\ RecordsOK /\ area[t] \in DOMAIN tmem
      BY <2>2, OwnFacts, MemoryParts
    <3>2. tmem[area[t]].chunksize \in Nat
      BY <2>2, <3>1, NestAssumption DEF RecordsOK
    <3>3. CASE Forked(t)
      BY <2>2, <3>1, <3>2, <3>3 DEF MemoryOK
    <3>4. CASE ~Forked(t)
      <4>1. /\ tmem[area[t]].remaining \in 1 .. tmem[area[t]].chunksize
            /\ unpolled[area[t]] = tmem[area[t]].chunksize - tmem[area[t]].remaining
        BY <2>2, <3>1, <3>4 DEF MemoryOK
      <4> QED BY <2>2, <3>2, <4>1
    <3> QED BY <3>3, <3>4
  <2> QED BY <2>1, <2>2
<1> QED BY <1>1, MemoryInvariance, PTL

\* A task is promoted once: it finds no iteration after that, on whichever level.
THEOREM PromotedOnce == Spec => ForksOnce
<1>1. ASSUME MemoryInv, [Next]_vars
      PROVE  [\A t \in DOMAIN pc : pc[t] # "join" /\ pc'[t] = "join"
                => Append(t, 0) \notin DOMAIN pc]_vars
  <2> SUFFICES ASSUME ~(UNCHANGED vars), NEW t \in DOMAIN pc, pc[t] # "join", pc'[t] = "join"
      PROVE  Append(t, 0) \notin DOMAIN pc
    OBVIOUS
  <2>1. PICK u \in DOMAIN pc : Step(u)
    BY <1>1 DEF Next, Terminated
  <2>2. CASE Promote(u)
    <3>1. pc[u] = "poll" /\ ~Forked(u)
      BY <1>1, <2>2, PolledFacts DEF Promote, At
    <3>2. PICK s : Spawned(u, s, Append(u, 0), Append(u, 1))
      BY <1>1, <2>2, SplitFacts
    <3>3. Append(u, 0) \notin DOMAIN pc /\ Append(u, 1) \notin DOMAIN pc
      BY <1>1, <3>1, NoBranches
    <3>4. t # u => pc'[t] = pc[t]
      BY <3>2, <3>3 DEF Spawned
    <3> QED BY <3>1, <3>4 DEF Forked
  <2>3. CASE ~Promote(u)
    <3>1. pc'[t] # "join"
      BY <2>1, <2>3 DEF Step, Start, Enter, LeaveLoop, CallNested, RunChunk, NoHeartbeat,
         HeartbeatIgnored, Latch, Join, Exit, ReturnToCaller, ReturnToLeftover,
         ReturnFromTask, Back
    <3> QED BY <3>1
  <2> QED BY <2>2, <2>3
<1> QED BY <1>1, MemoryInvariance, PTL DEF Spec, ForksOnce
=============================================================================
