------------------------- MODULE HeartbeatLoopProofs ------------------------
(***************************************************************************)
(* Proofs about HeartbeatLoop, for every number of tasks, every loop and   *)
(* every chunk size.                                                       *)
(***************************************************************************)
EXTENDS HeartbeatLoop, WellFoundedInduction, TLAPS

-----------------------------------------------------------------------------
(***************************************************************************)
(* Tallies.                                                                *)
(***************************************************************************)

\* An interval counts every iteration zero times or once.
LEMMA IntervalType == \A a, b : Interval(a, b) \in Tally
BY DEF Interval, Tally

\* The sum of two tallies is a tally.
LEMMA PlusType == \A f, g \in Tally : Plus(f, g) \in Tally
BY DEF Plus, Tally

\* An interval without iterations is the identity of the reduction.
LEMMA IntervalEmpty == \A a, b \in Int : a >= b => Interval(a, b) = Zero
<1> SUFFICES ASSUME NEW a \in Int, NEW b \in Int, a >= b,
                    NEW i \in Iter
             PROVE (IF a <= i /\ i < b THEN 1 ELSE 0) = 0
  BY DEF Interval, Zero
<1> QED BY LoopAssumption DEF Iter

\* Adding neighbouring intervals, as the exit block of the slice task does with
\* its private copy and its kids' values, gives the interval they make up.
LEMMA IntervalSplit ==
  \A a, b, c \in Int : a <= b /\ b <= c =>
     Plus(Interval(a, b), Interval(b, c)) = Interval(a, c)
<1> SUFFICES ASSUME NEW a \in Int, NEW b \in Int, NEW c \in Int, a <= b, b <= c,
                    NEW i \in Iter
             PROVE (IF a <= i /\ i < b THEN 1 ELSE 0) + (IF b <= i /\ i < c THEN 1 ELSE 0)
                   = IF a <= i /\ i < c THEN 1 ELSE 0
  BY DEF Interval, Plus
<1> QED BY LoopAssumption DEF Iter

\* The splitting point lies in what is left, and the second half is not empty.
LEMMA MidBetween ==
  \A s, m \in Int : m - s >= 2 => Mid(s, m) \in Int /\ s + 1 <= Mid(s, m) /\ Mid(s, m) < m
BY DEF Mid

-----------------------------------------------------------------------------
(***************************************************************************)
(* Each step preserves the inductive invariant.                            *)
(***************************************************************************)

\* Entering a slice task.
LEMMA EnterStep == ASSUME IInv, NEW t \in Task, Enter(t) PROVE IInv'
<1> USE LoopAssumption
<1>1. TypeOK'
  BY IntervalType DEF IInv, TypeOK, Enter, mainVars, PC, Zero, Tally
<1>2. ASSUME NEW u \in Task PROVE RegisterInv(u)'
  <2>1. CASE u = t
    BY <2>1, IntervalEmpty DEF IInv, TypeOK, Enter, RegisterInv, mainVars, PC
  <2>2. CASE u # t
    BY <2>2 DEF IInv, TypeOK, Enter, RegisterInv, ContextInv, mainVars, PC
  <2> QED BY <2>1, <2>2
<1>3. ContextInv'
  BY DEF IInv, TypeOK, Enter, ContextInv, Running, mainVars, PC
<1>4. ASSUME NEW u \in Live' PROVE TreeInv(u)'
  BY DEF IInv, TypeOK, Enter, ContextInv, TreeInv, Owner, Live, Waiting, mainVars, PC
<1>5. ASSUME NEW u \in Waiting' PROVE KidsInv(u)'
  <2>1. u \in Waiting /\ u \in Task /\ u # t /\ KidsInv(u)
    BY DEF IInv, TypeOK, Enter, Waiting
  <2>2. \A k \in 0..1 : child[u][k] \in Task /\ First(child[u][k])' = First(child[u][k])
                         /\ Last(child[u][k])' = Last(child[u][k])
    BY <2>1 DEF IInv, TypeOK, Enter, First, Last
  <2>3. ASSUME NEW k \in 0..1, child[u][k] \in Live PROVE (Owner(child[u][k]) = u)'
    <3> DEFINE v == child[u][k]
    <3>1. v \in Task /\ Owner(v) = u /\ child' = child
      BY <2>1, <2>2, <2>3 DEF KidsInv, Enter
    <3>2. CASE v = t
      BY <3>1, <3>2 DEF IInv, TypeOK, Enter, Owner
    <3>3. CASE v # t
      <4>1. pc'[v] = pc[v] /\ out'[v] = out[v] /\ cxt' = cxt
        BY <3>1, <3>3 DEF IInv, TypeOK, Enter
      <4>2. pc[v] = "entry" => LIVE_OUT'[cxt[v]] = LIVE_OUT[cxt[v]]
        BY <3>1, <3>3 DEF IInv, TypeOK, ContextInv, Enter
      <4> HIDE DEF v
      <4> QED BY <3>1, <4>1, <4>2 DEF Owner, v
    <3> QED BY <3>2, <3>3
  <2>4. ASSUME pc[child[u][0]]' = "done" PROVE LIVE_OUT'[cxt[u]] = u
    <3>1. child[u][0] \in Task /\ pc[child[u][0]] = "done" /\ LIVE_OUT[cxt[u]] = u
      BY <2>1, <2>2, <2>4 DEF IInv, TypeOK, Enter, KidsInv
    <3>2. t \in Live /\ TreeInv(t) /\ myIndex[t] \in {0, 1} /\ Main \notin Task
      BY DEF IInv, TypeOK, Enter, Live
    <3>3. cxt[u] # cxt[t]
      <4> SUFFICES ASSUME cxt[u] = cxt[t] PROVE FALSE
        OBVIOUS
      <4>1. Owner(t) = u /\ child[u][myIndex[t]] = t
        BY <2>1, <3>1, <3>2 DEF Owner, TreeInv, Enter
      <4>2. myIndex[t] = 1
        BY <3>1, <3>2, <4>1 DEF Enter
      <4> QED BY <2>1, <4>1, <4>2 DEF KidsInv
    <3> QED BY <3>1, <3>3 DEF Enter, IInv, TypeOK
  <2>5. /\ UNCHANGED <<cxt, myIndex, child, kids>> /\ low'[u] = low[u]
        /\ startIteration'[u] = startIteration[u] /\ maxIteration'[u] = maxIteration[u]
    BY <2>1 DEF IInv, TypeOK, Enter
  <2>6. ASSUME NEW v \in Task
        PROVE  /\ pc'[v] = "idle" => pc[v] = "idle"
               /\ pc'[v] = "done" => pc[v] = "done"
               /\ v \in Live' => v \in Live
    BY DEF IInv, TypeOK, Enter, Live
  <2> HIDE DEF Enter
  <2> QED BY <2>1, <2>2, <2>3, <2>4, <2>5, <2>6 DEF KidsInv
<1>6. WorkInv'
  <2>1. \A u \in Task, i \in Iter : (Pending(u, i)' <=> Pending(u, i)) /\ (Ran(u, i)' => Ran(u, i))
    <3> SUFFICES ASSUME NEW u \in Task, NEW i \in Iter
                 PROVE  (Pending(u, i)' <=> Pending(u, i)) /\ (Ran(u, i)' => Ran(u, i))
      OBVIOUS
    <3>1. i \in Int
      BY DEF Iter
    <3>2. CASE u = t
      BY <3>1, <3>2 DEF IInv, TypeOK, Enter, Pending, Ran
    <3>3. CASE u # t
      BY <3>3 DEF IInv, TypeOK, Enter, Pending, Ran
    <3> QED BY <3>2, <3>3
  <2> QED BY <2>1 DEF IInv, Enter, WorkInv
<1>7. MainInv'
  BY DEF IInv, TypeOK, Enter, MainInv, TreeInv, Owner, Live, Waiting, First, Last, mainVars
<1>8. InBounds'
  BY DEF IInv, TypeOK, Enter, InBounds, First, Last
<1> QED BY <1>1, <1>2, <1>3, <1>4, <1>5, <1>6, <1>7, <1>8 DEF IInv

\* Running a chunk.
LEMMA RunChunkStep == ASSUME IInv, NEW t \in Task, RunChunk(t) PROVE IInv'
<1> USE LoopAssumption
<1> DEFINE c == cxt[t]
           iv == currentIteration[t]
           high == UMin(iv + remaining[c], maxIteration[t])
<1>1. /\ c \in Task /\ iv \in Nat /\ high \in Nat /\ maxIteration[t] \in Nat
      /\ startIteration[t] <= iv /\ iv < high /\ high <= maxIteration[t]
      /\ high - iv <= remaining[c] /\ remaining[c] > 0 /\ chunksize[c] > 0
      /\ high - iv # remaining[c] => high = maxIteration[t]
      /\ priv[t] = Interval(startIteration[t], iv)
  BY DEF IInv, TypeOK, RunChunk, Allowance, RegisterInv, UMin
<1>2. Plus(priv[t], Interval(iv, high)) = Interval(startIteration[t], high)
  BY <1>1, IntervalSplit DEF IInv, TypeOK
<1>3. TypeOK'
  <2>1. executed' \in Tally /\ priv' \in [Task -> Tally]
    BY IntervalType, PlusType DEF IInv, TypeOK, RunChunk, Allowance
  <2>2. remaining' \in [Task -> Nat] /\ pc' \in [Task -> PC]
    <3>1. remaining \in [Task -> Nat] /\ chunksize \in [Task -> Nat] /\ pc \in [Task -> PC]
      BY DEF IInv, TypeOK
    <3>2. remaining[c] - (high - iv) \in Nat /\ {"poll", "exit"} \subseteq PC
      BY <1>1, <3>1 DEF PC
    <3> HIDE DEF high, iv
    <3>3. CASE high - iv = remaining[c]
      BY <1>1, <3>1, <3>2, <3>3 DEF RunChunk, Allowance, high, iv
    <3>4. CASE high - iv # remaining[c]
      BY <1>1, <3>1, <3>2, <3>4 DEF RunChunk, Allowance, high, iv
    <3> QED BY <3>3, <3>4
  <2>3. chunk' \in [Task -> Nat] /\ low' \in [Task -> Nat]
    BY <1>1 DEF IInv, TypeOK, RunChunk, Allowance
  <2> QED BY <2>1, <2>2, <2>3 DEF IInv, TypeOK, RunChunk, Allowance, mainVars, cxtVars
<1>4. ASSUME NEW u \in Task PROVE RegisterInv(u)'
  <2>1. CASE u = t
    <3>1. /\ priv'[t] = Interval(startIteration[t], high) /\ low'[t] = high
          /\ chunk'[t] = remaining[c]
      BY <1>1, <1>2 DEF IInv, TypeOK, RunChunk, Allowance
    <3>2. CASE high - iv = remaining[c]
      BY <1>1, <2>1, <3>1, <3>2 DEF IInv, TypeOK, RunChunk, Allowance, RegisterInv, cxtVars
    <3>3. CASE high - iv # remaining[c]
      BY <1>1, <2>1, <3>1, <3>3 DEF IInv, TypeOK, RunChunk, Allowance, RegisterInv, cxtVars
    <3> QED BY <3>2, <3>3
  <2>2. CASE u # t
    BY <2>2 DEF IInv, TypeOK, RunChunk, Allowance, RegisterInv, ContextInv, cxtVars, PC
  <2> QED BY <2>1, <2>2
<1>5. ContextInv'
  <2>1. /\ pc[t] = "header" /\ pc'[t] \in {"poll", "exit"}
        /\ \A u \in Task : u # t => pc'[u] = pc[u]
    BY DEF IInv, TypeOK, RunChunk, Allowance
  <2>2. LIVE_OUT' = LIVE_OUT /\ cxt' = cxt
    BY DEF RunChunk, Allowance, cxtVars
  <2>3. ContextInv
    BY DEF IInv
  <2> QED BY <2>1, <2>2, <2>3 DEF ContextInv, Running
<1>6. ASSUME NEW u \in Live' PROVE TreeInv(u)'
  BY DEF IInv, TypeOK, RunChunk, Allowance, TreeInv, Owner, Live, Waiting, cxtVars, PC
<1>7. ASSUME NEW u \in Waiting' PROVE KidsInv(u)'
  <2>1. u \in Waiting /\ u \in Task /\ u # t /\ KidsInv(u)
    BY DEF IInv, TypeOK, RunChunk, Waiting
  <2>2. /\ UNCHANGED <<cxt, myIndex, child, startIteration, maxIteration, out, kids, cxtVars>>
        /\ low'[u] = low[u]
    BY <2>1 DEF IInv, TypeOK, RunChunk
  <2>3. ASSUME NEW v \in Task
        PROVE  /\ pc'[v] \in {"entry", "done", "idle"} \/ pc[v] \in {"entry", "done", "idle"}
                    => pc'[v] = pc[v]
               /\ v \in Live' <=> v \in Live
    BY DEF IInv, TypeOK, RunChunk, Live
  <2>4. ASSUME NEW v \in Task
        PROVE  First(v)' = First(v) /\ Last(v)' = Last(v) /\ Owner(v)' = Owner(v)
    BY <2>2, <2>3 DEF First, Last, Owner, cxtVars
  <2>5. child[u][0] \in Task /\ child[u][1] \in Task
    BY <2>1 DEF IInv, TypeOK
  <2> QED BY <2>1, <2>2, <2>3, <2>4, <2>5 DEF KidsInv, cxtVars
<1>8. WorkInv'
  <2>1. ASSUME NEW i \in Iter
        PROVE  executed'[i] = IF iv <= i /\ i < high THEN executed[i] + 1 ELSE executed[i]
    BY DEF RunChunk, Allowance, Plus, Interval, IInv, TypeOK, Tally
  <2>2. ASSUME NEW i \in Iter, NEW u \in Task, u # t
        PROVE  (Pending(u, i)' <=> Pending(u, i)) /\ (Ran(u, i)' <=> Ran(u, i))
    BY <2>2 DEF RunChunk, Allowance, Pending, Ran, IInv, TypeOK, cxtVars
  <2>3. ASSUME NEW i \in Iter
        PROVE  /\ Pending(t, i) <=> iv <= i /\ i < maxIteration[t]
               /\ Pending(t, i)' => high <= i /\ i < maxIteration[t]
               /\ Ran(t, i)' => startIteration[t] <= i /\ i < high
               /\ startIteration[t] <= i /\ i < iv => Ran(t, i)
    BY <1>1 DEF RunChunk, Allowance, Pending, Ran, IInv, TypeOK, cxtVars
  <2>4. executed \in [Iter -> Nat]
    BY DEF IInv, TypeOK, Tally
  <2>5. Iter \subseteq Int
    BY DEF Iter
  <2> HIDE DEF high, iv
  <2> SUFFICES ASSUME NEW i \in Iter
               PROVE  /\ executed'[i] <= 1
                      /\ \A u \in Task : Pending(u, i)' => executed'[i] = 0
                      /\ \A u \in Task : Ran(u, i)' => executed'[i] = 1
                      /\ \A u, v \in Task : u # v => ~(Pending(u, i)' /\ Pending(v, i)')
    BY DEF WorkInv
  <2>6. /\ executed[i] <= 1
        /\ \A u \in Task : Pending(u, i) => executed[i] = 0
        /\ \A u \in Task : Ran(u, i) => executed[i] = 1
        /\ \A u, v \in Task : u # v => ~(Pending(u, i) /\ Pending(v, i))
    BY DEF IInv, WorkInv
  <2>7. i \in Int /\ executed[i] \in Nat
    BY <2>4, <2>5
  <2>8. Pending(t, i)' => Pending(t, i) /\ executed'[i] = executed[i]
    BY <1>1, <2>1, <2>3, <2>7
  <2>9. iv <= i /\ i < high => Pending(t, i) /\ executed[i] = 0 /\ executed'[i] = 1
    BY <1>1, <2>1, <2>3, <2>6, <2>7
  <2>10. executed'[i] <= 1
    BY <2>1, <2>6, <2>9
  <2>11. ASSUME NEW u \in Task, Pending(u, i)' PROVE executed'[i] = 0
    <3>1. CASE u = t BY <2>6, <2>8, <2>11, <3>1
    <3>2. CASE u # t BY <2>1, <2>2, <2>6, <2>9, <2>11, <3>2
    <3> QED BY <3>1, <3>2
  <2>12. ASSUME NEW u \in Task, Ran(u, i)' PROVE executed'[i] = 1
    <3>1. CASE u = t BY <1>1, <2>1, <2>3, <2>6, <2>7, <2>9, <2>12, <3>1
    <3>2. CASE u # t BY <2>1, <2>2, <2>6, <2>9, <2>12, <3>2
    <3> QED BY <3>1, <3>2
  <2>13. ASSUME NEW u \in Task, NEW v \in Task, u # v PROVE ~(Pending(u, i)' /\ Pending(v, i)')
    BY <2>2, <2>6, <2>8, <2>13
  <2> QED BY <2>10, <2>11, <2>12, <2>13
<1>9. MainInv'
  BY DEF IInv, TypeOK, RunChunk, Allowance, MainInv, First, Last, cxtVars, mainVars
<1>10. InBounds'
  <2>1. \A u \in Task : pc'[u] = "entry" <=> pc[u] = "entry"
    BY DEF RunChunk, Allowance, IInv, TypeOK
  <2>2. \A u \in Task : pc'[u] = "idle" <=> pc[u] = "idle"
    BY DEF RunChunk, Allowance, IInv, TypeOK
  <2> QED BY <2>1, <2>2 DEF IInv, RunChunk, Allowance, cxtVars, InBounds, First, Last
<1> QED BY <1>3, <1>4, <1>5, <1>6, <1>7, <1>8, <1>9, <1>10 DEF IInv

\* The header finding nothing left.
LEMMA LeaveLoopStep == ASSUME IInv, NEW t \in Task, LeaveLoop(t) PROVE IInv'
<1> USE LoopAssumption DEF LeaveLoop, loopVars, redVars, cxtVars, tmemVars, mainVars
<1>1. TypeOK'
  BY DEF IInv, TypeOK, PC
<1>2. ASSUME NEW u \in Task PROVE RegisterInv(u)'
  <2>1. CASE u = t
    <3>1. /\ startIteration[t] \in Int /\ currentIteration[t] \in Int /\ maxIteration[t] \in Int
          /\ currentIteration[t] >= maxIteration[t]
          /\ currentIteration[t] = startIteration[t] \/ currentIteration[t] = maxIteration[t]
          /\ priv[t] = Interval(startIteration[t], currentIteration[t])
      <4>1. /\ startIteration[t] \in Nat /\ currentIteration[t] \in Nat /\ maxIteration[t] \in Nat
            /\ currentIteration[t] >= maxIteration[t] /\ pc[t] = "header"
        BY DEF IInv, TypeOK
      <4>2. /\ currentIteration[t] = startIteration[t] \/ currentIteration[t] <= maxIteration[t]
            /\ priv[t] = Interval(startIteration[t], currentIteration[t])
        BY <4>1 DEF IInv, RegisterInv
      <4> QED BY <4>1, <4>2
    <3>2. priv[t] = Interval(startIteration[t], maxIteration[t])
      BY <3>1, IntervalEmpty
    <3> QED BY <2>1, <3>2 DEF IInv, TypeOK, RegisterInv
  <2>2. CASE u # t
    BY <2>2 DEF IInv, TypeOK, RegisterInv
  <2> QED BY <2>1, <2>2
<1>3. ContextInv'
  BY DEF IInv, TypeOK, ContextInv, Running
<1>4. ASSUME NEW u \in Live' PROVE TreeInv(u)'
  BY DEF IInv, TypeOK, TreeInv, Owner, Live, Waiting
<1>5. ASSUME NEW u \in Waiting' PROVE KidsInv(u)'
  <2>1. u \in Waiting /\ u \in Task /\ KidsInv(u)
    BY DEF IInv, TypeOK, Waiting
  <2>2. ASSUME NEW v \in Task
        PROVE  /\ pc[v] \in {"entry", "done", "idle"} \/ pc'[v] \in {"entry", "done", "idle"}
                    => pc'[v] = pc[v]
               /\ v \in Live' <=> v \in Live
    BY DEF IInv, TypeOK, Live
  <2>3. ASSUME NEW v \in Task
        PROVE  First(v)' = First(v) /\ Last(v)' = Last(v) /\ Owner(v)' = Owner(v)
    BY <2>2 DEF First, Last, Owner
  <2>4. child[u][0] \in Task /\ child[u][1] \in Task
    BY <2>1 DEF IInv, TypeOK
  <2> QED BY <2>1, <2>2, <2>3, <2>4 DEF KidsInv
<1>6. WorkInv'
  <2>1. \A u \in Task, i \in Iter : (Pending(u, i)' => Pending(u, i)) /\ (Ran(u, i)' => Ran(u, i))
    BY DEF IInv, TypeOK, Pending, Ran, RegisterInv, Iter
  <2> QED BY <2>1 DEF IInv, WorkInv
<1>7. MainInv'
  BY DEF IInv, TypeOK, MainInv, First, Last
<1>8. InBounds'
  BY DEF IInv, TypeOK, InBounds, First, Last
<1> QED BY <1>1, <1>2, <1>3, <1>4, <1>5, <1>6, <1>7, <1>8 DEF IInv

\* A poll that goes back to the header, with or without a heartbeat.
LEMMA LatchStep ==
  ASSUME IInv, NEW t \in Task, NoHeartbeat(t) \/ HeartbeatIgnored(t) PROVE IInv'
<1> USE LoopAssumption DEF LastExecuted, NoHeartbeat, HeartbeatIgnored, Latch, redVars, cxtVars, tmemVars, mainVars
<1>0. currentIteration[t] + chunk[t] = low[t] /\ low[t] - 1 \in Nat /\ pc[t] = "poll" /\ cxt[t] \in Task
  BY DEF IInv, TypeOK, RegisterInv
<1>1. TypeOK'
  <2>1. START_ITER' \in [Task -> Nat]
    <3>1. START_ITER \in [Task -> Nat]
      BY DEF IInv, TypeOK
    <3>2. CASE NoHeartbeat(t)
      BY <3>1, <3>2
    <3>3. CASE HeartbeatIgnored(t)
      BY <1>0, <3>1, <3>3
    <3> QED BY <3>2, <3>3
  <2>2. pc' \in [Task -> PC]
    BY <1>0 DEF IInv, TypeOK, PC
  <2>3. currentIteration' \in [Task -> Nat]
    BY <1>0 DEF IInv, TypeOK
  <2> QED BY <2>1, <2>2, <2>3 DEF IInv, TypeOK
<1>2. ASSUME NEW u \in Task PROVE RegisterInv(u)'
  BY <1>0 DEF IInv, TypeOK, RegisterInv
<1>3. ContextInv'
  <2>1. pc'[t] = "header" /\ \A u \in Task : u # t => pc'[u] = pc[u]
    BY <1>0 DEF IInv, TypeOK
  <2>2. ContextInv /\ LIVE_OUT' = LIVE_OUT /\ cxt' = cxt
    BY DEF IInv
  <2> QED BY <1>0, <2>1, <2>2 DEF ContextInv, Running
<1>4. ASSUME NEW u \in Live' PROVE TreeInv(u)'
  <2>1. u \in Live /\ u \in Task /\ TreeInv(u) /\ (pc'[u] = "entry" <=> pc[u] = "entry")
    BY <1>0 DEF IInv, TypeOK, Live
  <2>2. \A v \in Task : v \in Waiting' <=> v \in Waiting
    BY <1>0 DEF IInv, TypeOK, Waiting
  <2>3. Waiting \subseteq Task
    BY DEF Waiting
  <2> QED BY <2>1, <2>2, <2>3 DEF TreeInv, Owner
<1>5. ASSUME NEW u \in Waiting' PROVE KidsInv(u)'
  <2>1. ASSUME NEW v \in Task
        PROVE  /\ First(v)' = First(v) /\ Last(v)' = Last(v) /\ Owner(v)' = Owner(v)
               /\ v \in Live' <=> v \in Live
               /\ pc'[v] = "done" <=> pc[v] = "done"
               /\ pc'[v] = "idle" <=> pc[v] = "idle"
    BY <1>0 DEF IInv, TypeOK, ContextInv, Owner, First, Last, Live
  <2>2. u \in Waiting /\ u \in Task /\ child[u][0] \in Task /\ child[u][1] \in Task
    BY DEF IInv, TypeOK, Waiting
  <2> QED BY <2>1, <2>2 DEF IInv, KidsInv
<1>6. WorkInv'
  <2>1. \A u \in Task, i \in Iter : (Pending(u, i)' <=> Pending(u, i)) /\ (Ran(u, i)' <=> Ran(u, i))
    BY <1>0 DEF IInv, TypeOK, Pending, Ran, ContextInv
  <2> QED BY <2>1 DEF IInv, WorkInv
<1>7. MainInv'
  BY <1>0 DEF IInv, TypeOK, ContextInv, MainInv, First, Last
<1>8. InBounds'
  <2>1. ASSUME NEW v \in Task
        PROVE  First(v)' = First(v) /\ Last(v)' = Last(v) /\ (pc'[v] = "idle" <=> pc[v] = "idle")
    BY <1>0 DEF IInv, TypeOK, ContextInv, First, Last
  <2> QED BY <2>1 DEF IInv, InBounds
<1> QED BY <1>1, <1>2, <1>3, <1>4, <1>5, <1>6, <1>7, <1>8 DEF IInv

\* A promotion.
LEMMA PromoteStep ==
  ASSUME IInv, NEW t \in Task, NEW c1 \in Task, NEW c2 \in Task, Promote(t, c1, c2)
  PROVE  IInv'
<1> USE LoopAssumption
<1> DEFINE c == cxt[t]
           mid == Mid(low[t] - 1, MAX_ITER[c])
<1>0. /\ c \in Task /\ c # c2 /\ t # c1 /\ t # c2 /\ c1 # c2 /\ c1 # Root /\ c2 # Root
      /\ pc[t] = "poll" /\ pc[c1] = "idle" /\ pc[c2] = "idle"
      /\ MAX_ITER[c] = maxIteration[t] /\ maxIteration[t] \in Nat
      /\ mid \in Nat /\ low[t] <= mid /\ mid < maxIteration[t]
      /\ startIteration[t] < low[t] /\ low[t] \in Nat
      /\ LIVE_OUT[c] = t /\ priv[t] = Interval(startIteration[t], low[t])
  BY MidBetween DEF Promote, LastExecuted, SecondContext, IInv, TypeOK, RegisterInv, ContextInv, MainInv, Splittable, Running
<1>a. /\ START_ITER' = [START_ITER EXCEPT ![c] = low[t], ![c2] = mid]
      /\ MAX_ITER' = [MAX_ITER EXCEPT ![c] = mid, ![c2] = maxIteration[t]]
      /\ LIVE_OUT' = [LIVE_OUT EXCEPT ![c2] = t]
      /\ cxt' = [cxt EXCEPT ![c1] = c, ![c2] = c2]
      /\ myIndex' = [myIndex EXCEPT ![c1] = 0, ![c2] = 1]
      /\ child' = [child EXCEPT ![t] = [k \in 0..1 |-> IF k = 0 THEN c1 ELSE c2]]
      /\ pc' = [pc EXCEPT ![t] = "join", ![c1] = "entry", ![c2] = "entry"]
  <2>1. low[t] - 1 + 1 = low[t]
    BY <1>0
  <2> HIDE DEF mid
  <2> QED BY <1>0, <2>1 DEF Promote, LastExecuted, SecondContext, mid
<1>b. UNCHANGED <<loopVars, redVars, tmemVars, executed, mainVars>>
  BY DEF Promote, LastExecuted, SecondContext
<1> HIDE DEF mid
<1> USE DEF loopVars, redVars, tmemVars, mainVars
<1>1. TypeOK'
  <2>1. START_ITER' \in [Task -> Nat] /\ MAX_ITER' \in [Task -> Nat]
    BY <1>0, <1>a DEF IInv, TypeOK
  <2>2. LIVE_OUT' \in [Task -> Task \cup {Main}] /\ cxt' \in [Task -> Task]
    BY <1>0, <1>a DEF IInv, TypeOK
  <2>3. myIndex' \in [Task -> 0..1] /\ child' \in [Task -> [0..1 -> Task]]
    <3>1. myIndex \in [Task -> 0..1] /\ child \in [Task -> [0..1 -> Task]]
      BY DEF IInv, TypeOK
    <3>2. [k \in 0..1 |-> IF k = 0 THEN c1 ELSE c2] \in [0..1 -> Task]
      OBVIOUS
    <3> HIDE DEF c
    <3>3. child' \in [Task -> [0..1 -> Task]]
      BY <1>a, <3>1, <3>2
    <3> QED BY <1>a, <3>1, <3>3
  <2>4. pc' \in [Task -> PC]
    BY <1>0, <1>a DEF IInv, TypeOK, PC
  <2> QED BY <1>b, <2>1, <2>2, <2>3, <2>4 DEF IInv, TypeOK
<1>2. ASSUME NEW u \in Task PROVE RegisterInv(u)'
  <2>1. CASE u \in {t, c1, c2}
    BY <1>0, <1>a, <1>b, <2>1 DEF IInv, TypeOK, RegisterInv
  <2>2. CASE u \notin {t, c1, c2}
    <3>1. pc[u] \in {"header", "poll"} => cxt[u] # c /\ cxt[u] # c2
      BY <1>0, <2>2 DEF IInv, ContextInv
    <3> QED BY <1>0, <1>a, <1>b, <2>2, <3>1 DEF IInv, TypeOK, RegisterInv
  <2> QED BY <2>1, <2>2
<1>3. ContextInv'
  <2>1. /\ pc'[t] = "join" /\ pc'[c1] = "entry" /\ pc'[c2] = "entry"
        /\ \A u \in Task : u \notin {t, c1, c2} => pc'[u] = pc[u]
        /\ cxt'[t] = c /\ cxt'[c1] = c /\ cxt'[c2] = c2
        /\ \A u \in Task : u \notin {t, c1, c2} => cxt'[u] = cxt[u]
        /\ \A a \in Task : a # c2 => LIVE_OUT'[a] = LIVE_OUT[a]
    BY <1>0, <1>a DEF IInv, TypeOK
  <2>2. ContextInv /\ cxt \in [Task -> Task]
    BY DEF IInv, TypeOK
  <2>3. \A u \in Running' : LIVE_OUT'[cxt'[u]] = u
    BY <1>0, <2>1, <2>2 DEF ContextInv, Running
  <2>4. \A u, v \in Task : pc'[u] = "idle" /\ pc'[v] # "idle" => cxt'[v] # u
    BY <1>0, <2>1, <2>2 DEF ContextInv
  <2>5. ASSUME NEW u \in Task, NEW v \in Task, u # v,
               pc'[u] \in {"entry", "header", "poll"}, pc'[v] \in {"entry", "header", "poll", "exit"}
        PROVE  cxt'[v] # cxt'[u]
    BY <1>0, <2>1, <2>2, <2>5 DEF ContextInv
  <2> QED BY <2>3, <2>4, <2>5 DEF ContextInv
<1>c. ASSUME NEW v \in Task, pc[v] # "idle"
      PROVE  /\ First(v)' = First(v) /\ Last(v)' = Last(v) /\ Owner(v)' = Owner(v)
             /\ v \in Live' <=> v \in Live
             /\ pc'[v] = "done" <=> pc[v] = "done"
             /\ pc'[v] # "idle" /\ cxt'[v] = cxt[v] /\ myIndex'[v] = myIndex[v]
  <2>1. pc[v] = "entry" => cxt[v] # c
    BY <1>0 DEF IInv, ContextInv
  <2>2. cxt[v] # c2 /\ cxt[v] \in Task
    BY <1>0, <1>c DEF IInv, ContextInv, TypeOK
  <2> QED BY <1>0, <1>a, <1>b, <1>c, <2>1, <2>2 DEF IInv, TypeOK, Owner, First, Last, Live
<1>d. /\ First(c1)' = low[t] /\ Last(c1)' = mid /\ Owner(c1)' = t
      /\ First(c2)' = mid /\ Last(c2)' = maxIteration[t] /\ Owner(c2)' = t
      /\ pc'[c1] = "entry" /\ pc'[c2] = "entry" /\ pc'[t] = "join"
      /\ cxt'[c1] = c /\ cxt'[c2] = c2 /\ cxt'[t] = c
      /\ myIndex'[c1] = 0 /\ myIndex'[c2] = 1
      /\ child'[t][0] = c1 /\ child'[t][1] = c2
      /\ \A u \in Task : u # t => child'[u] = child[u]
  BY <1>0, <1>a DEF IInv, TypeOK, Owner, First, Last
<1>4. ASSUME NEW u \in Live' PROVE TreeInv(u)'
  <2>1. CASE u \in {c1, c2}
    BY <1>0, <1>d, <2>1 DEF TreeInv, Waiting
  <2>2. CASE u \notin {c1, c2}
    <3>1. u \in Live /\ u \in Task /\ pc[u] # "idle" /\ TreeInv(u)
      BY <1>0, <1>a, <2>2 DEF Live, IInv, TypeOK
    <3>2. Owner(u) \in Waiting => Owner(u) # t /\ Owner(u) \in Task /\ Owner(u) \in Waiting'
      BY <1>0, <1>a DEF Waiting, IInv, TypeOK
    <3> QED BY <1>c, <1>d, <3>1, <3>2 DEF TreeInv
  <2> QED BY <2>1, <2>2
<1>5. ASSUME NEW u \in Waiting' PROVE KidsInv(u)'
  <2>1. CASE u = t
    BY <1>0, <1>b, <1>d, <2>1 DEF KidsInv, Live
  <2>2. CASE u # t
    <3>1. u \in Waiting /\ u \in Task /\ KidsInv(u) /\ cxt[u] \in Task /\ cxt[u] # c2
      BY <1>0, <1>a, <2>2 DEF Waiting, IInv, TypeOK, ContextInv
    <3>2. \A k \in 0..1 : child[u][k] \in Task /\ pc[child[u][k]] # "idle"
      BY <3>1 DEF IInv, TypeOK, KidsInv
    <3>3. cxt'[u] = cxt[u] /\ LIVE_OUT'[cxt[u]] = LIVE_OUT[cxt[u]] /\ child'[u] = child[u]
      BY <1>0, <1>a, <2>2, <3>1 DEF Waiting, IInv, TypeOK
    <3> QED BY <1>b, <1>c, <3>1, <3>2, <3>3 DEF KidsInv
  <2> QED BY <2>1, <2>2
<1>6. WorkInv'
  <2>1. ASSUME NEW i \in Iter, NEW u \in Task, u \notin {t, c1, c2}
        PROVE  (Pending(u, i)' <=> Pending(u, i)) /\ (Ran(u, i)' <=> Ran(u, i))
    BY <1>0, <1>a, <1>b, <2>1 DEF IInv, TypeOK, Pending, Ran, ContextInv
  <2>2. ASSUME NEW i \in Iter
        PROVE  /\ Pending(t, i) <=> low[t] <= i /\ i < maxIteration[t]
               /\ ~Pending(t, i)'
               /\ Pending(c1, i)' <=> low[t] <= i /\ i < mid
               /\ Pending(c2, i)' <=> mid <= i /\ i < maxIteration[t]
               /\ Ran(t, i)' => Ran(t, i)
               /\ ~Ran(c1, i)' /\ ~Ran(c2, i)'
    BY <1>0, <1>a, <1>b DEF IInv, TypeOK, Pending, Ran
  <2>3. Iter \subseteq Int
    BY DEF Iter
  <2>4. ASSUME NEW i \in Iter
        PROVE  \A u \in Task : (Pending(u, i)' => executed[i] = 0) /\ (Ran(u, i)' => executed[i] = 1)
    BY <1>0, <2>1, <2>2, <2>3 DEF IInv, WorkInv
  <2>5. ASSUME NEW i \in Iter, NEW u \in Task, NEW v \in Task, u # v
        PROVE  ~(Pending(u, i)' /\ Pending(v, i)')
    <3> DEFINE Part(x) == IF x \in {c1, c2} THEN t ELSE x
    <3>1. \A x \in Task : Pending(x, i)' => Pending(Part(x), i)
      BY <1>0, <2>1, <2>2, <2>3
    <3>2. CASE u \in {c1, c2} /\ v \in {c1, c2}
      BY <1>0, <2>2, <2>3, <2>5, <3>2
    <3>3. CASE ~(u \in {c1, c2} /\ v \in {c1, c2})
      BY <1>0, <2>2, <2>5, <3>1, <3>3 DEF IInv, WorkInv
    <3> QED BY <3>2, <3>3
  <2> QED BY <1>b, <2>4, <2>5 DEF IInv, WorkInv
<1>7. MainInv'
  <2>1. Root \in Task /\ pc[Root] # "idle" /\ c2 # Root
    BY <1>0 DEF IInv, MainInv
  <2> QED BY <1>0, <1>a, <1>b, <1>c, <2>1 DEF IInv, TypeOK, MainInv
<1>8. InBounds'
  <2>1. ASSUME NEW v \in Task, pc'[v] # "idle", v \notin {c1, c2}
        PROVE  Lo <= First(v)' /\ Last(v)' <= Hi
    <3>1. pc[v] # "idle"
      BY <1>0, <1>a, <2>1 DEF IInv, TypeOK
    <3> QED BY <1>c, <3>1 DEF IInv, InBounds
  <2>2. Lo <= startIteration[t] /\ maxIteration[t] <= Hi /\ startIteration[t] \in Nat
    BY <1>0 DEF IInv, TypeOK, InBounds, First, Last
  <2>3. Lo <= low[t] /\ Lo <= mid /\ mid <= Hi
    BY <1>0, <2>2
  <2> QED BY <1>d, <2>1, <2>2, <2>3 DEF InBounds
<1> QED BY <1>1, <1>2, <1>3, <1>4, <1>5, <1>6, <1>7, <1>8 DEF IInv

\* Storing the value of a finished task: what both return paths have in common.
LEMMA ReturnStep ==
  ASSUME IInv, NEW t \in Task, NEW value, Return(t, value),
         value = Interval(startIteration[t], maxIteration[t]),
         \/ pc[t] = "exit"
         \/ pc[t] = "join" /\ \A k \in 0..1 : pc[child[t][k]] = "done",
         \A i \in Iter : startIteration[t] <= i /\ i < maxIteration[t] => executed[i] = 1
  PROVE  IInv'
<1> USE LoopAssumption DEF loopVars, tmemVars, mainVars
<1> DEFINE c == cxt[t]
           p == out[t]
           n == myIndex[t]
<1>0. /\ t \in Live /\ TreeInv(t) /\ Owner(t) = p /\ c \in Task /\ n \in 0..1 /\ n \in {0, 1}
      /\ p \in Task \cup {Main} /\ Main \notin Task /\ value \in Tally
      /\ t = Root => p = Main /\ n = 0
      /\ t # Root => p \in Task /\ p \in Waiting /\ child[p][n] = t
  BY IntervalType DEF IInv, TypeOK, Live, TreeInv, Owner, Waiting
<1>1. LIVE_OUT[c] = t
  <2>1. CASE pc[t] = "exit"
    BY <2>1 DEF IInv, ContextInv, Running
  <2>2. CASE pc[t] = "join" /\ \A k \in 0..1 : pc[child[t][k]] = "done"
    BY <2>2 DEF IInv, KidsInv, Waiting
  <2> QED BY <2>1, <2>2
<1>2. ASSUME NEW u \in Task, u # t, pc[u] \in {"entry", "header", "poll", "exit"}
      PROVE  cxt[u] # c
  <2>1. CASE pc[u] \in {"header", "poll", "exit"}
    BY <1>1, <1>2, <2>1 DEF IInv, ContextInv, Running
  <2>2. CASE pc[u] = "entry"
    <3> SUFFICES ASSUME cxt[u] = c PROVE FALSE
      OBVIOUS
    <3>1. Owner(u) = t /\ u \in Live /\ TreeInv(u) /\ myIndex[u] \in 0..1
      BY <1>1, <2>2 DEF Owner, Live, IInv, TypeOK
    <3>2. pc[t] = "join" /\ child[t][myIndex[u]] = u
      BY <1>0, <3>1 DEF TreeInv, Waiting
    <3> QED BY <2>2, <3>1, <3>2
  <2> QED BY <1>2, <2>1, <2>2
<1>3. /\ pc'[t] = "done" /\ \A u \in Task : u # t => pc'[u] = pc[u]
      /\ LIVE_OUT'[c] = p /\ \A a \in Task : a # c => LIVE_OUT'[a] = LIVE_OUT[a]
      /\ kids'[p][n] = value
      /\ \A q \in Task \cup {Main}, k \in 0..1 : q # p \/ k # n => kids'[q][k] = kids[q][k]
  BY <1>0 DEF Return, IInv, TypeOK
<1>4. UNCHANGED <<cxt, myIndex, child, loopVars, priv, out, START_ITER, MAX_ITER, tmemVars, executed, mainVars>>
  BY DEF Return
<1>5. TypeOK'
  <2>1. pc' \in [Task -> PC]
    BY DEF Return, IInv, TypeOK, PC
  <2>2. LIVE_OUT' \in [Task -> Task \cup {Main}]
    BY <1>0 DEF Return, IInv, TypeOK
  <2>3. kids' \in [Task \cup {Main} -> [0..1 -> Tally]]
    BY <1>0 DEF Return, IInv, TypeOK
  <2> QED BY <1>4, <2>1, <2>2, <2>3 DEF IInv, TypeOK
<1>6. ASSUME NEW u \in Task PROVE RegisterInv(u)'
  BY <1>3, <1>4 DEF IInv, RegisterInv
<1>7. ContextInv'
  <2>1. ContextInv /\ cxt \in [Task -> Task]
    BY DEF IInv, TypeOK
  <2>2. \A u \in Running' : u \in Running /\ u # t
    BY <1>3 DEF Running
  <2>3. \A u \in Running' : LIVE_OUT'[cxt[u]] = u
    BY <1>2, <1>3, <2>1, <2>2 DEF ContextInv, Running
  <2>4. \A u, v \in Task : pc'[u] = "idle" /\ pc'[v] # "idle" => cxt[v] # u
    BY <1>0, <1>3, <2>1 DEF ContextInv, Live
  <2> QED BY <1>3, <1>4, <2>1, <2>3, <2>4 DEF ContextInv
<1>8. ASSUME NEW v \in Task, v # t
      PROVE  /\ First(v)' = First(v) /\ Last(v)' = Last(v) /\ Owner(v)' = Owner(v)
             /\ v \in Live' <=> v \in Live
  BY <1>2, <1>3, <1>4, <1>8 DEF First, Last, Owner, Live, IInv, TypeOK
<1>9. /\ First(t)' = startIteration[t] /\ Last(t)' = maxIteration[t]
      /\ First(t) = startIteration[t] /\ Last(t) = maxIteration[t] /\ t \notin Live'
  BY <1>3, <1>4 DEF First, Last, Live
<1>10. ASSUME NEW u \in Live' PROVE TreeInv(u)'
  <2>1. u \in Live /\ u \in Task /\ u # t /\ TreeInv(u)
    BY <1>3, <1>9 DEF Live, IInv
  <2>2. u # Root => Owner(u) # t
    <3> SUFFICES ASSUME u # Root, Owner(u) = t PROVE FALSE
      OBVIOUS
    <3>1. pc[t] = "join" /\ child[t][myIndex[u]] = u /\ myIndex[u] \in 0..1
      BY <2>1 DEF TreeInv, Waiting, IInv, TypeOK
    <3> QED BY <2>1, <3>1 DEF Live
  <2> QED BY <1>3, <1>4, <1>8, <2>1, <2>2 DEF TreeInv, Waiting
<1>11. ASSUME NEW u \in Waiting' PROVE KidsInv(u)'
  <2>1. u \in Waiting /\ u \in Task /\ u # t /\ KidsInv(u) /\ u # Main
    BY <1>0, <1>3 DEF Waiting, IInv
  <2>2. \A k \in 0..1 : child[u][k] \in Task /\ pc[child[u][k]] # "idle"
    BY <2>1 DEF IInv, TypeOK, KidsInv
  <2>3. \A k \in 0..1 : /\ First(child[u][k])' = First(child[u][k])
                         /\ Last(child[u][k])' = Last(child[u][k])
    BY <1>4, <1>8, <1>9, <2>2
  <2>4. ASSUME NEW k \in 0..1, child[u][k] = t
        PROVE  p = u /\ n = k
    BY <1>0, <2>1, <2>4 DEF KidsInv
  <2>5. ASSUME NEW k \in 0..1, pc'[child[u][k]] = "done"
        PROVE  kids'[u][k] = Interval(First(child[u][k]), Last(child[u][k]))
    <3>1. CASE child[u][k] = t
      BY <1>3, <1>9, <2>4, <3>1
    <3>2. CASE child[u][k] # t
      <4>1. pc[child[u][k]] = "done" /\ kids[u][k] = Interval(First(child[u][k]), Last(child[u][k]))
        BY <1>3, <2>1, <2>2, <2>5, <3>2 DEF KidsInv
      <4>2. ~(p = u /\ n = k)
        BY <1>0, <2>1, <3>2, <4>1 
      <4> QED BY <1>3, <2>1, <4>1, <4>2
    <3> QED BY <3>1, <3>2
  <2>6. ASSUME pc'[child[u][0]] = "done" PROVE LIVE_OUT'[cxt[u]] = u
    <3>1. CASE child[u][0] = t
      BY <1>3, <2>1, <2>4, <3>1 DEF KidsInv
    <3>2. CASE child[u][0] # t
      <4>1. LIVE_OUT[cxt[u]] = u /\ cxt[u] \in Task
        BY <1>3, <2>1, <2>2, <2>6, <3>2 DEF KidsInv, IInv, TypeOK
      <4> QED BY <1>1, <1>3, <2>1, <4>1
    <3> QED BY <3>1, <3>2
  <2>7. ASSUME NEW k \in 0..1, child[u][k] \in Live'
        PROVE  Owner(child[u][k])' = u /\ myIndex[child[u][k]] = k
    BY <1>4, <1>8, <1>9, <2>1, <2>2, <2>7 DEF KidsInv
  <2>8. \A k \in 0..1 : pc'[child[u][k]] # "idle"
    BY <1>3, <2>2
  <2>9. /\ child[u][0] # child[u][1] /\ child[u][0] # Root /\ child[u][1] # Root
        /\ cxt[child[u][0]] = cxt[u] /\ cxt[child[u][1]] # cxt[u] /\ startIteration[u] < low[u]
        /\ First(child[u][0])' = low[u] /\ (Last(child[u][0]) = First(child[u][1]))'
        /\ Last(child[u][1])' = maxIteration[u]
        /\ (First(child[u][0]) <= Last(child[u][0]))' /\ (First(child[u][1]) < Last(child[u][1]))'
    BY <2>1, <2>3, <1>4 DEF KidsInv
  <2> QED BY <1>4, <2>3, <2>5, <2>6, <2>7, <2>8, <2>9 DEF KidsInv
<1>12. WorkInv'
  <2>1. ASSUME NEW u \in Task, u # t, NEW i \in Iter
        PROVE  (Pending(u, i)' <=> Pending(u, i)) /\ (Ran(u, i)' <=> Ran(u, i))
    BY <1>3, <1>4, <2>1 DEF Pending, Ran
  <2>2. \A i \in Iter : ~Pending(t, i)' /\ (Ran(t, i)' => executed[i] = 1)
    BY <1>3, <1>4 DEF Pending, Ran
  <2> QED BY <1>4, <2>1, <2>2 DEF IInv, WorkInv
<1>13. MainInv'
  <2>1. First(Root)' = Lo /\ Last(Root)' = Hi /\ cxt[Root] = Root /\ MainInv /\ Root \in Task
    BY <1>8, <1>9 DEF IInv, MainInv
  <2>2. CASE t = Root
    BY <1>0, <1>3, <1>4, <1>9, <2>1, <2>2 DEF MainInv
  <2>3. CASE t # Root
    <3>1. p # Main
      BY <1>0, <2>3
    <3>2. pc[Root] = "done" => LIVE_OUT'[Root] = Main
      BY <1>1, <1>3, <1>0, <2>1 DEF MainInv
    <3> QED BY <1>3, <1>4, <2>1, <2>3, <3>1, <3>2 DEF MainInv
  <2> QED BY <2>2, <2>3
<1>14. InBounds'
  BY <1>0, <1>3, <1>8, <1>9 DEF IInv, InBounds, Live
<1> QED BY <1>5, <1>6, <1>7, <1>10, <1>11, <1>12, <1>13, <1>14 DEF IInv

\* A task that was not promoted returns its private copy.
LEMMA ReturnPrivateStep == ASSUME IInv, NEW t \in Task, ReturnPrivate(t) PROVE IInv'
<1>1. pc[t] = "exit" /\ Return(t, priv[t])
  BY DEF ReturnPrivate
<1>2. priv[t] = Interval(startIteration[t], maxIteration[t])
  BY <1>1 DEF IInv, RegisterInv
<1>3. \A i \in Iter : startIteration[t] <= i /\ i < maxIteration[t] => executed[i] = 1
  BY <1>1 DEF IInv, WorkInv, Ran
<1> QED BY <1>1, <1>2, <1>3, ReturnStep

\* A task that was promoted returns its private copy and what its kids returned.
LEMMA ReturnReducedStep == ASSUME IInv, NEW t \in Task, ReturnReduced(t) PROVE IInv'
<1> DEFINE c1 == child[t][0]
           c2 == child[t][1]
           value == Plus(Plus(priv[t], kids[t][0]), kids[t][1])
<1>1. /\ pc[t] = "join" /\ \A k \in 0..1 : pc[child[t][k]] = "done"
      /\ pc[c1] = "done" /\ pc[c2] = "done" /\ c1 \in Task /\ c2 \in Task
      /\ Return(t, value)
  BY DEF ReturnReduced, KidsDone, Reduced, IInv, TypeOK
<1>2. KidsInv(t) /\ RegisterInv(t)
  BY <1>1 DEF IInv, Waiting
<1>3. /\ First(c1) = startIteration[c1] /\ Last(c1) = maxIteration[c1]
      /\ First(c2) = startIteration[c2] /\ Last(c2) = maxIteration[c2]
  BY <1>1 DEF First, Last
<1>4. /\ startIteration[t] \in Int /\ low[t] \in Int /\ maxIteration[t] \in Int
      /\ maxIteration[c1] \in Int /\ startIteration[c1] = low[t] /\ startIteration[c2] = maxIteration[c1]
      /\ maxIteration[c2] = maxIteration[t]
      /\ startIteration[t] <= low[t] /\ low[t] <= maxIteration[c1] /\ maxIteration[c1] <= maxIteration[t]
  <2>1. /\ startIteration \in [Task -> Nat] /\ maxIteration \in [Task -> Nat] /\ low \in [Task -> Nat]
    BY DEF IInv, TypeOK
  <2>2. /\ startIteration[t] < low[t] /\ startIteration[c1] = low[t]
        /\ startIteration[c2] = maxIteration[c1] /\ maxIteration[c2] = maxIteration[t]
        /\ startIteration[c1] <= maxIteration[c1] /\ startIteration[c2] < maxIteration[c2]
    BY <1>2, <1>3 DEF KidsInv
  <2> QED BY <1>1, <2>1, <2>2
<1>5. /\ priv[t] = Interval(startIteration[t], low[t])
      /\ kids[t][0] = Interval(low[t], maxIteration[c1])
      /\ kids[t][1] = Interval(maxIteration[c1], maxIteration[t])
  BY <1>1, <1>2, <1>3, <1>4 DEF KidsInv, RegisterInv
<1>6. value = Interval(startIteration[t], maxIteration[t])
  BY <1>4, <1>5, IntervalSplit
<1>7. ASSUME NEW i \in Iter, startIteration[t] <= i, i < maxIteration[t]
      PROVE  executed[i] = 1
  <2>1. i \in Int
    BY LoopAssumption DEF Iter
  <2>2. \/ Ran(t, i) \/ Ran(c1, i) \/ Ran(c2, i)
    BY <1>1, <1>4, <1>7, <2>1 DEF Ran
  <2> QED BY <1>1, <2>2 DEF IInv, WorkInv
<1> HIDE DEF value
<1> QED BY <1>1, <1>6, <1>7, ReturnStep

\* The original function goes on.
LEMMA FinishStep == ASSUME IInv, Finish PROVE IInv'
<1> USE LoopAssumption DEF Finish, taskVars, loopVars, redVars, cxtVars, tmemVars
<1>1. InitialValue \in Tally /\ kids[Main][0] \in Tally /\ kids[Main][0] = Interval(Lo, Hi)
  BY DEF IInv, TypeOK, MainInv
<1>2. result' \in Tally /\ result' = Plus(InitialValue, Interval(Lo, Hi))
  BY <1>1, PlusType
<1>3. TypeOK'
  BY <1>2 DEF IInv, TypeOK
<1>4. MainInv'
  BY <1>2 DEF IInv, MainInv, First, Last
<1>5. /\ \A u \in Task : RegisterInv(u)' /\ ContextInv'
      /\ \A u \in Live' : TreeInv(u)'
  BY DEF IInv, RegisterInv, ContextInv, Running, TreeInv, Live, Owner, Waiting
<1>6. \A u \in Waiting' : KidsInv(u)'
  <2>1. \A u \in Task : First(u)' = First(u) /\ Last(u)' = Last(u) /\ Owner(u)' = Owner(u)
    BY DEF First, Last, Owner
  <2>2. Live' = Live /\ Waiting' = Waiting
    BY DEF Live, Waiting
  <2> SUFFICES ASSUME NEW u \in Waiting PROVE KidsInv(u)'
    BY <2>2
  <2>3. child[u][0] \in Task /\ child[u][1] \in Task /\ KidsInv(u)
    BY DEF IInv, TypeOK, Waiting
  <2> QED BY <2>1, <2>2, <2>3 DEF KidsInv
<1>7. WorkInv'
  BY DEF IInv, WorkInv, Pending, Ran
<1>8. InBounds'
  BY DEF IInv, InBounds, First, Last
<1> QED BY <1>3, <1>4, <1>5, <1>6, <1>7, <1>8 DEF IInv

-----------------------------------------------------------------------------
(***************************************************************************)
(* The theorems.                                                           *)
(***************************************************************************)

\* The inductive invariant holds when the original function calls the slice task.
LEMMA InitInv == Init => IInv
<1> SUFFICES ASSUME Init PROVE IInv
  OBVIOUS
<1> USE LoopAssumption DEF Init
<1>1. Zero \in Tally /\ [k \in 0..1 |-> Garbage] \in [0..1 -> Tally]
  BY DEF Zero, Tally
<1>2. TypeOK
  <2>1. /\ pc \in [Task -> PC] /\ kids \in [Task \cup {Main} -> [0..1 -> Tally]]
    BY <1>1 DEF PC
  <2>2. /\ cxt \in [Task -> Task] /\ myIndex \in [Task -> 0..1]
        /\ child \in [Task -> [0..1 -> Task]]
        /\ out \in [Task -> Task \cup {Main}] /\ LIVE_OUT \in [Task -> Task \cup {Main}]
    OBVIOUS
  <2>3. /\ priv \in [Task -> Tally] /\ executed \in Tally /\ result \in Tally
        /\ returned \in BOOLEAN
    BY <1>1
  <2>4. /\ startIteration \in [Task -> Nat] /\ maxIteration \in [Task -> Nat]
        /\ currentIteration \in [Task -> Nat] /\ chunk \in [Task -> Nat] /\ low \in [Task -> Nat]
        /\ START_ITER \in [Task -> Nat] /\ MAX_ITER \in [Task -> Nat]
        /\ chunksize \in [Task -> Nat] /\ remaining \in [Task -> Nat]
    OBVIOUS
  <2> QED BY <2>1, <2>2, <2>3, <2>4 DEF TypeOK
<1>3. \A u \in Task : RegisterInv(u)
  BY DEF RegisterInv
<1>4. ContextInv
  BY DEF ContextInv, Running
<1>5. \A u \in Live : TreeInv(u)
  BY DEF Live, TreeInv, Owner
<1>6. \A u \in Waiting : KidsInv(u)
  BY DEF Waiting
<1>7. WorkInv
  BY DEF WorkInv, Pending, Ran, Zero, Iter
<1>8. MainInv
  BY DEF MainInv, First, Last
<1>9. InBounds
  BY DEF InBounds, First, Last
<1> QED BY <1>2, <1>3, <1>4, <1>5, <1>6, <1>7, <1>8, <1>9 DEF IInv

\* Every step preserves the inductive invariant.
LEMMA NextInv == IInv /\ [Next]_vars => IInv'
<1> SUFFICES ASSUME IInv, [Next]_vars PROVE IInv'
  OBVIOUS
<1>1. ASSUME NEW t \in Task, Step(t) PROVE IInv'
  BY <1>1, EnterStep, RunChunkStep, LeaveLoopStep, LatchStep, PromoteStep,
     ReturnPrivateStep, ReturnReducedStep DEF Step
<1>2. CASE Finish
  BY <1>2, FinishStep
<1>3. CASE UNCHANGED vars
  <2> USE <1>3 DEF vars, taskVars, loopVars, redVars, cxtVars, tmemVars, mainVars
  <2>1. TypeOK' /\ (\A u \in Task : RegisterInv(u)')
    BY DEF IInv, TypeOK, RegisterInv
  <2>2. ContextInv' /\ (\A u \in Live' : TreeInv(u)')
    BY DEF IInv, ContextInv, Running, Live, TreeInv, Owner, Waiting
  <2>3. \A u \in Waiting' : KidsInv(u)'
    BY DEF IInv, Live, Owner, Waiting, KidsInv, First, Last
  <2>4. WorkInv'
    BY DEF IInv, WorkInv, Pending, Ran
  <2>5. MainInv' /\ InBounds'
    BY DEF IInv, MainInv, InBounds, First, Last
  <2> QED BY <2>1, <2>2, <2>3, <2>4, <2>5 DEF IInv
<1> QED BY <1>1, <1>2, <1>3 DEF Next, Terminated

\* The inductive invariant holds throughout every execution of the slice tasks
\* and the promotion handler, for any heartbeats.
THEOREM Invariance == Spec => []IInv
BY InitInv, NextInv, PTL DEF Spec

\* Every register, context field and array slot keeps its type; in particular
\* low - 1, which the handler block stores, is never below zero.
THEOREM TypeCorrect == Spec => []TypeOK
<1>1. IInv => TypeOK
  BY DEF IInv
<1> QED BY <1>1, Invariance, PTL

\* No iteration runs twice, for any chunk sizes and any promotions.
THEOREM IterationsAtMostOnce == Spec => []AtMostOnce
<1>1. IInv => AtMostOnce
  BY DEF IInv, WorkInv, AtMostOnce
<1> QED BY <1>1, Invariance, PTL

\* No task is given an iteration outside the loop.
THEOREM IterationsInBounds == Spec => []InBounds
<1>1. IInv => InBounds
  BY DEF IInv
<1> QED BY <1>1, Invariance, PTL

\* The three parts of a promoted task's work always fit together.
THEOREM SplitsCover == Spec => []SplitCovers
<1>1. IInv => SplitCovers
  BY DEF IInv, KidsInv, SplitCovers, Waiting
<1> QED BY <1>1, Invariance, PTL

\* Two tasks that are both running never share a context or a task memory.
THEOREM ContextsExclusive == Spec => []ContextExclusive
<1>1. IInv => ContextExclusive
  <2> SUFFICES ASSUME IInv, NEW t \in Task, NEW u \in Task, t # u,
                      {pc[t], pc[u]} \cap {"idle", "join", "done"} = {}
               PROVE  cxt[t] # cxt[u]
    BY DEF ContextExclusive
  <2>1. pc[t] \in {"entry", "header", "poll", "exit"} /\ pc[u] \in {"entry", "header", "poll", "exit"}
    BY DEF IInv, TypeOK, PC
  <2> QED BY <2>1 DEF IInv, ContextInv, Running
<1> QED BY <1>1, Invariance, PTL

\* When the root task is done every iteration of the loop has run.
LEMMA AllRun == IInv /\ pc[Root] = "done" => \A i \in Iter : executed[i] = 1
<1> SUFFICES ASSUME IInv, pc[Root] = "done", NEW i \in Iter PROVE executed[i] = 1
  OBVIOUS
<1>1. startIteration[Root] = Lo /\ maxIteration[Root] = Hi /\ Root \in Task
  BY LoopAssumption DEF IInv, MainInv, First, Last
<1>2. Lo <= i /\ i < Hi
  BY LoopAssumption DEF Iter
<1>3. Ran(Root, i)
  BY <1>1, <1>2 DEF Ran
<1> QED BY <1>1, <1>3 DEF IInv, WorkInv

\* The program gets the result of the serial loop: every iteration has run once
\* and the reduction variable has the value it would have had.
THEOREM ResultIsSerial == Spec => []SerialResult
<1>1. IInv => SerialResult
  BY AllRun DEF IInv, MainInv, SerialResult
<1> QED BY <1>1, Invariance, PTL

\* No set of waiting tasks has its owners in it: what an owner was given is more
\* than what its kid was, so that the task given most has its owner elsewhere.
LEMMA NoWaitingCycle ==
  ASSUME IInv, NEW W \in SUBSET Waiting, W # {}
  PROVE  \E t \in W : t = Root \/ Owner(t) \notin W
<1> SUFFICES ASSUME \A t \in W : t # Root /\ Owner(t) \in W PROVE FALSE
  OBVIOUS
<1> DEFINE given(t) == maxIteration[t] - startIteration[t]
           spare(t) == (Hi - Lo) - given(t)
           spares   == {spare(t) : t \in W}
           less     == {p \in Nat \X Nat : p[1] < p[2]}
<1> USE LoopAssumption
<1>1. ASSUME NEW t \in W
      PROVE  /\ t \in Task /\ startIteration[t] \in Nat /\ maxIteration[t] \in Nat
             /\ Lo <= startIteration[t] /\ maxIteration[t] <= Hi
             /\ startIteration[t] < maxIteration[t]
  <2>1. t \in Task /\ pc[t] = "join"
    BY DEF Waiting
  <2>2. startIteration[t] \in Nat /\ maxIteration[t] \in Nat /\ low[t] \in Nat
    BY <2>1 DEF IInv, TypeOK
  <2>3. Lo <= startIteration[t] /\ maxIteration[t] <= Hi
    BY <2>1 DEF IInv, InBounds, First, Last
  <2>4. KidsInv(t)
    BY DEF IInv
  <2>5. /\ First(child[t][0]) \in Nat /\ Last(child[t][0]) \in Nat /\ Last(child[t][1]) \in Nat
        /\ First(child[t][1]) \in Nat
    BY <2>1 DEF IInv, TypeOK, First, Last
  <2> QED BY <2>1, <2>2, <2>3, <2>4, <2>5 DEF KidsInv
<1>2. spares \subseteq Nat /\ spares # {}
  BY <1>1
<1>3. IsWellFoundedOn(less, Nat)
  BY NatLessThanWellFounded DEF OpToRel
<1>4. PICK least \in spares : \A s \in spares : <<s, least>> \notin less
  BY <1>2, <1>3, WFMin
<1>5. PICK t \in W : least = spare(t)
  OBVIOUS
<1> DEFINE o == Owner(t)
<1>6. o \in W /\ t \in Task /\ pc[t] = "join" /\ t # Root
  BY <1>1 DEF Waiting
<1>7. KidsInv(o) /\ (t = child[o][0] \/ t = child[o][1])
  <2>1. TreeInv(t)
    BY <1>6 DEF IInv, Live
  <2>2. child[o][myIndex[t]] = t /\ myIndex[t] \in 0..1
    BY <1>6, <2>1 DEF TreeInv, IInv, TypeOK
  <2> QED BY <1>6, <2>2 DEF IInv
<1>8. First(t) = startIteration[t] /\ Last(t) = maxIteration[t]
  BY <1>6 DEF First, Last
<1>9. startIteration[o] < startIteration[t] /\ maxIteration[t] <= maxIteration[o]
  <2>1. /\ First(child[o][0]) \in Nat /\ Last(child[o][0]) \in Nat
        /\ First(child[o][1]) \in Nat /\ Last(child[o][1]) \in Nat /\ low[o] \in Nat
    BY <1>1, <1>6 DEF IInv, TypeOK, First, Last
  <2> QED BY <1>1, <1>6, <1>7, <1>8, <2>1 DEF KidsInv
<1>10. given(o) > given(t)
  BY <1>1, <1>6, <1>9
<1>11. spare(o) < spare(t) /\ spare(o) \in Nat /\ spare(t) \in Nat
  BY <1>1, <1>2, <1>6, <1>10
<1>12. spare(o) \in spares
  BY <1>6
<1> QED BY <1>4, <1>5, <1>11, <1>12

\* When the original function goes on, every task has ended: one that had not
\* would be waited for by a chain of tasks that leads to the root.
THEOREM TasksJoined == Spec => []AllJoined
<1>1. IInv => AllJoined
  <2> SUFFICES ASSUME IInv, returned
               PROVE  (\A t \in Task : pc[t] \in {"idle", "done"}) /\ LIVE_OUT[Root] = Main
    BY DEF AllJoined
  <2>1. pc[Root] = "done" /\ LIVE_OUT[Root] = Main
    BY DEF IInv, MainInv
  <2>2. Root \notin Waiting /\ Root \notin Live
    BY <2>1 DEF Waiting, Live
  <2>3. \A t \in Live : Owner(t) \in Waiting
    BY <2>2 DEF IInv, TreeInv
  <2>4. Waiting \subseteq Live
    BY DEF Waiting, Live
  <2>5. Waiting = {}
    BY <2>2, <2>3, <2>4, NoWaitingCycle
  <2>6. Live = {}
    BY <2>3, <2>5
  <2> QED BY <2>1, <2>6 DEF Live, IInv, TypeOK, PC
<1> QED BY <1>1, Invariance, PTL

\* The slice tasks and the promotion handler implement the parallel loop: each
\* step runs a group of iterations none of which had run, returns control when
\* all have, or changes nothing the caller sees.
THEOREM Refinement == Spec => ImplementsParallelLoop
<1>1. Init => Abstract!Init
  BY DEF Init, Abstract!Init, Zero
<1>2. IInv /\ [Next]_vars => [Abstract!Next]_Abstract!vars
  <2> SUFFICES ASSUME IInv, [Next]_vars PROVE [Abstract!Next]_Abstract!vars
    OBVIOUS
  <2> USE DEF Abstract!Next, Abstract!vars
  <2>1. ASSUME NEW t \in Task, RunChunk(t) PROVE Abstract!Run
    <3> DEFINE iv == currentIteration[t]
               high == UMin(iv + remaining[cxt[t]], maxIteration[t])
               group == {i \in Iter : iv <= i /\ i < high}
    <3>1. /\ pc[t] = "header" /\ iv \in Int /\ high \in Int /\ maxIteration[t] \in Int /\ iv < maxIteration[t]
          /\ high <= maxIteration[t] /\ startIteration[t] <= iv /\ startIteration[t] \in Int
      BY <2>1 DEF IInv, TypeOK, RunChunk, RegisterInv, UMin
    <3>2. ASSUME NEW i \in group PROVE executed[i] = 0
      <4>1. i \in Int
        BY LoopAssumption DEF Iter
      <4>2. Pending(t, i)
        BY <3>1, <4>1 DEF Pending
      <4> QED BY <4>2 DEF IInv, WorkInv
    <3>3. ~returned
      <4> SUFFICES ASSUME returned PROVE FALSE
        OBVIOUS
      <4>1. Lo <= startIteration[t] /\ maxIteration[t] <= Hi
        BY <3>1 DEF IInv, InBounds, First, Last
      <4>2. iv \in Iter
        BY <3>1, <4>1, LoopAssumption DEF Iter
      <4>3. Pending(t, iv)
        BY <3>1 DEF Pending
      <4>4. executed[iv] = 0
        BY <4>2, <4>3 DEF IInv, WorkInv
      <4>5. executed[iv] = 1
        BY <4>2, AllRun DEF IInv, MainInv
      <4> QED BY <4>4, <4>5
    <3>4. executed' = [i \in Iter |-> executed[i] + (IF iv <= i /\ i < high THEN 1 ELSE 0)]
      BY <2>1 DEF RunChunk, Plus, Interval
    <3>5. \A i \in Iter : executed[i] \in Nat /\ (i \in group <=> iv <= i /\ i < high)
      BY DEF IInv, TypeOK, Tally
    <3>6. group \subseteq {i \in Iter : executed[i] = 0}
      BY <3>2
    <3> HIDE DEF group
    <3>7. executed' = [i \in Iter |-> IF i \in group THEN 1 ELSE executed[i]]
      <4>1. ASSUME NEW i \in Iter
            PROVE  executed[i] + (IF iv <= i /\ i < high THEN 1 ELSE 0) = IF i \in group THEN 1 ELSE executed[i]
        BY <3>2, <3>5
      <4> QED BY <3>4, <4>1
    <3>8. UNCHANGED <<result, returned>>
      BY <2>1 DEF RunChunk, mainVars
    <3> QED BY <3>3, <3>6, <3>7, <3>8 DEF Abstract!Run
  <2>2. ASSUME NEW t \in Task, Step(t), ~RunChunk(t) PROVE UNCHANGED <<executed, result, returned>>
    BY <2>2 DEF Step, Enter, LeaveLoop, NoHeartbeat, HeartbeatIgnored, Promote,
       ReturnPrivate, ReturnReduced, Return, mainVars
  <2>3. CASE Finish
    <3>1. \A i \in Iter : executed[i] = 1
      BY <2>3, AllRun DEF Finish
    <3>2. kids[Main][0] = Interval(Lo, Hi)
      BY <2>3 DEF Finish, IInv, MainInv
    <3> QED BY <2>3, <3>1, <3>2 DEF Finish, Abstract!Return
  <2>4. CASE UNCHANGED vars
    BY <2>4 DEF vars, mainVars
  <2> QED BY <2>1, <2>2, <2>3, <2>4 DEF Next, Terminated
<1> QED BY <1>1, <1>2, Invariance, PTL DEF Spec, ImplementsParallelLoop, Abstract!Spec
=============================================================================
