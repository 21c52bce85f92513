------------------------- MODULE AdaptiveChunkProofs ------------------------
(***************************************************************************)
(* Proofs about AdaptiveChunk, for any number of workers and tasks, any    *)
(* interval and window, ratios that are powers of two up to 64, and both   *)
(* policies.                                                               *)
(***************************************************************************)
EXTENDS AdaptiveChunk, SequenceTheorems, WellFoundedInduction, TLAPS

-----------------------------------------------------------------------------
(***************************************************************************)
(* The operators of runtime_memory_update.                                 *)
(***************************************************************************)

\* The new chunk size is never zero.
LEMMA ScaledType ==
  ASSUME NEW count \in Nat, NEW size \in Nat \ {0}, NEW ratio \in {DefaultRatio, Ratio}
  PROVE  Scaled(count, size, ratio) \in Nat \ {0}
<1>1. ratio \in Nat \ {0}
  BY ChunkAssumption DEF PowersOfTwo
<1>2. (count * size) \div ratio \in Int
  BY <1>1
<1> QED BY <1>2 DEF Scaled

\* Chunks become longer only if the polls were more than wanted, and shorter
\* only if they were fewer.
LEMMA ScaledDirection ==
  ASSUME NEW count \in Nat, NEW size \in Nat \ {0}, NEW ratio \in {DefaultRatio, Ratio}
  PROVE  /\ Scaled(count, size, ratio) > size => count > ratio
         /\ Scaled(count, size, ratio) < size => count < ratio
<1> DEFINE new == (count * size) \div ratio
<1>0. ratio \in Nat \ {0}
  BY ChunkAssumption DEF PowersOfTwo
<1>1. new \in Int
  BY <1>0
<1>2. ASSUME count <= ratio PROVE new <= size
  <2>1. count * size <= ratio * size
    BY <1>0, <1>2
  <2> QED BY <1>0, <2>1
<1>3. ASSUME count >= ratio PROVE new >= size
  <2>1. count * size >= ratio * size
    BY <1>0, <1>3
  <2> QED BY <1>0, <2>1
<1> QED BY <1>0, <1>1, <1>2, <1>3 DEF Scaled

\* The extreme of two counts is one of them, and no other is beyond it.
LEMMA ExtremeIsExtreme ==
  ASSUME NEW a \in Nat, NEW b \in Nat
  PROVE  /\ Extreme(a, b) \in {a, b}
         /\ IF Minimal THEN Extreme(a, b) <= a /\ Extreme(a, b) <= b
                       ELSE Extreme(a, b) >= a /\ Extreme(a, b) >= b
BY ChunkAssumption DEF Extreme

-----------------------------------------------------------------------------
\* What most steps need to know of the constants.
LEMMA Constants == Root \in Task /\ HeartbeatInterval \in Nat /\ HeartbeatInterval > 0
BY ChunkAssumption

(***************************************************************************)
(* When the original function may start another loop, nothing of the last  *)
(* one is left.                                                            *)
(***************************************************************************)

\* While a task has not ended, the root task waits or runs.
LEMMA QuietWhenRootEnded ==
  ASSUME IInv, pc[Root] \in {"unused", "done"}
  PROVE  \A u \in Task : ~Alive(u)
<1>1. SUFFICES ASSUME NEW u \in Task, Alive(u) PROVE FALSE
  OBVIOUS
<1> DEFINE Births == {bornAt[v] : v \in {x \in Task : Alive(x)}}
<1>2. Births \subseteq Nat /\ Births # {}
  <2>1. bornAt[u] \in Births
    BY <1>1
  <2>2. \A v \in Task : bornAt[v] \in Nat
    BY DEF IInv, TypeOK
  <2> QED BY <2>1, <2>2
<1>3. PICK n \in Births : \A m \in Births : <<m, n>> \notin OpToRel(<, Nat)
  BY <1>2, NatLessThanWellFounded, WFMin, Zenon
<1>4. PICK v \in Task : Alive(v) /\ n = bornAt[v]
  OBVIOUS
<1>5. v # Root
  BY <1>4 DEF Alive, UsesMemory, Active
<1>6. PICK p \in Task : pc[p] = "waiting" /\ bornAt[p] < bornAt[v]
  BY <1>4, <1>5 DEF IInv, HasParent
<1>7. bornAt[p] \in Births
  BY <1>6 DEF Alive
<1> QED BY <1>2, <1>3, <1>4, <1>6, <1>7 DEF OpToRel

-----------------------------------------------------------------------------
(***************************************************************************)
(* Each step preserves the inductive invariant.                            *)
(***************************************************************************)

\* Time passes: what was due stays due.
LEMMA TickStep == ASSUME IInv, Tick PROVE IInv'
<1> USE DEF Tick, threadVars, configVars, tmemVars, taskVars, historyVars
<1>1. TypeOK' /\ OwnTimer' /\ OwnCount' /\ MeasuredAtChunk'
  BY DEF IInv, TypeOK, OwnTimer, OwnCount, MeasuredAtChunk, Active
<1>2. WorkersExclusive' /\ MemoryExclusive' /\ HasParent'
  BY DEF IInv, WorkersExclusive, MemoryExclusive, HasParent, Active, UsesMemory, Alive
<1>3. ASSUME NEW u \in Task
      PROVE  /\ pc'[u] = "beat" => Due(on[u])'
             /\ polls'[u] <= MaxPolls
             /\ bornAt'[u] <= clock'
  <2>1. clock \in Nat /\ timestamp[on[u]] \in Nat /\ bornAt[u] \in Nat
    BY DEF IInv, TypeOK
  <2>2. UNCHANGED <<pc, on, timestamp, polls, bornAt>> /\ clock' = clock + 1
    OBVIOUS
  <2> QED BY <2>1, <2>2, Constants DEF IInv, BeatIsDue, Due
<1> QED BY <1>1, <1>2, <1>3 DEF IInv, BeatIsDue

\* The root task begins: everything of an earlier loop has ended.
LEMMA HeartbeatStartStep == ASSUME IInv, NEW w \in Worker, HeartbeatStart(w) PROVE IInv'
<1> USE DEF HeartbeatStart, TaskMemoryReset, configVars
<1>0. TypeOK /\ MeasuredAtChunk /\ MemoryExclusive /\ BeatIsDue
  BY DEF IInv
<1>1. \A u \in Task : ~Alive(u)
  BY QuietWhenRootEnded
<1>2. TypeOK'
  <2>1. timestamp' \in [Worker -> Nat] /\ chunksize[w] \in Nat \ {0}
    BY <1>0 DEF TypeOK
  <2>2. pc' \in [Task -> {"unused", "ready", "running", "beat", "waiting", "done"}]
    BY <1>0 DEF TypeOK
  <2>3. tmemPolls' \in [Task -> Nat] /\ tmemChunk' \in [Task -> Nat \ {0}]
    BY <1>0, <2>1 DEF TypeOK
  <2>4. /\ sliding_window_size' \in [Worker -> {DefaultWindow, Window}]
        /\ target_polling_ratio' \in [Worker -> {DefaultRatio, Ratio}]
    BY <1>0 DEF TypeOK
  <2>5. on' \in [Task -> Worker] /\ starts' \in Nat
    <3>1. on' \in [Task -> Worker]
      BY <1>0 DEF TypeOK
    <3>2. starts \in Nat /\ starts' = starts + 1
      BY <1>0 DEF TypeOK
    <3> QED BY <3>1, <3>2
  <2>6. bornAt' \in [Task -> Nat] /\ beganAt' \in [Task -> Nat]
    BY <1>0 DEF TypeOK
  <2>7. polls' \in [Task -> Nat]
    BY <1>0 DEF TypeOK
  <2> QED BY <1>0, <2>1, <2>2, <2>3, <2>4, <2>5, <2>6, <2>7 DEF TypeOK
<1>3. \A u \in Task : u # Root => ~Alive(u)' /\ pc'[u] = pc[u]
  BY <1>0, <1>1 DEF TypeOK, Alive, UsesMemory, Active
<1>4. \A u \in Task : u # Root => ~Active(u)' /\ ~UsesMemory(u)'
  BY <1>3 DEF Alive, UsesMemory
<1>5. pc'[Root] = "running" /\ on'[Root] = w
  BY <1>0, Constants DEF TypeOK
<1>6. OwnTimer' /\ OwnCount' /\ WorkersExclusive'
  <2>1. timestamp'[w] = beganAt'[Root] /\ beganAt'[Root] >= bornAt'[Root]
    BY <1>0, Constants DEF TypeOK
  <2>2. tmemPolls'[memory'[Root]] = polls'[Root]
    BY <1>0, Constants DEF TypeOK
  <2> QED BY <1>4, <1>5, <2>1, <2>2 DEF OwnTimer, OwnCount, WorkersExclusive
<1>7. MeasuredAtChunk'
  <2>1. tmemChunk'[memory'[Root]] = chunksize'[on'[Root]]
    BY <1>0, <1>5, Constants DEF TypeOK
  <2> QED BY <1>0, <1>4, <2>1 DEF MeasuredAtChunk
<1>8. MemoryExclusive'
  <2>1. memory[Root] \in Task /\ \A u \in Task : memory[u] \in Task
    BY <1>0, Constants DEF TypeOK
  <2>2. \A u \in Task : pc'[u] = "unused" => pc[u] = "unused"
    BY <1>3, <1>5
  <2>3. \A u \in Task : pc'[u] # "unused" => pc'[memory[u]] # "unused"
    <3>1. CASE pc[Root] = "unused"
      BY <3>1, <1>0, <1>3, <1>5, <2>1 DEF MemoryExclusive
    <3>2. CASE pc[Root] # "unused"
      BY <3>2, <1>0, <1>3, <1>5, <2>1 DEF MemoryExclusive
    <3> QED BY <3>1, <3>2
  <2> QED BY <1>0, <1>4, <2>2, <2>3 DEF MemoryExclusive
<1>9. BeatIsDue'
  <2>1. ASSUME NEW u \in Task
        PROVE pc'[u] # "beat" /\ polls'[u] <= MaxPolls /\ bornAt'[u] <= clock'
    BY <1>0, <1>3, <1>5, ChunkAssumption DEF TypeOK, BeatIsDue, Alive, UsesMemory, Active
  <2> QED BY <2>1 DEF BeatIsDue
<1>10. HasParent'
  BY <1>3 DEF HasParent
<1> QED BY <1>2, <1>6, <1>7, <1>8, <1>9, <1>10 DEF IInv

\* A branch begins on a worker nobody is active on, with a memory nobody else uses.
LEMMA BeginStep == ASSUME IInv, NEW t \in Task, NEW w \in Worker, Begin(t, w) PROVE IInv'
<1> USE DEF Begin, TaskMemoryReset, configVars
<1>0. /\ TypeOK /\ OwnTimer /\ OwnCount /\ MeasuredAtChunk
      /\ WorkersExclusive /\ MemoryExclusive /\ BeatIsDue /\ HasParent
  BY DEF IInv
<1>1. TypeOK'
  BY <1>0 DEF TypeOK
<1>2. \A u \in Task : u # t => /\ Active(u)' <=> Active(u)
                               /\ pc'[u] = pc[u] /\ on'[u] = on[u]
  BY <1>0 DEF TypeOK, Active
<1>3. \A u \in Task : u # t /\ Active(u) => on[u] # w /\ memory[u] # memory[t]
  BY <1>0 DEF MemoryExclusive, Free, UsesMemory
<1>4. Active(t)' /\ pc'[t] = "running" /\ on'[t] = w
  BY <1>0 DEF TypeOK, Active
<1>5. OwnTimer'
  BY <1>0, <1>2, <1>3, <1>4 DEF TypeOK, OwnTimer, BeatIsDue
<1>6. OwnCount'
  <2>1. ASSUME NEW u \in Task, Active(u)' PROVE tmemPolls'[memory'[u]] = polls'[u]
    <3>1. CASE u = t
      BY <1>0, <1>4, <2>1, <3>1 DEF TypeOK, OwnCount
    <3>2. CASE u # t
      BY <1>0, <1>2, <1>3, <2>1, <3>2 DEF TypeOK, OwnCount
    <3> QED BY <3>1, <3>2
  <2> QED BY <2>1 DEF OwnCount
<1>7. MeasuredAtChunk'
  <2>1. ASSUME NEW u \in Task, Active(u)'
        PROVE tmemChunk'[memory'[u]] = chunksize'[on'[u]]
    <3>1. CASE u = t
      BY <1>0, <1>4, <2>1, <3>1 DEF TypeOK, MeasuredAtChunk
    <3>2. CASE u # t
      BY <1>0, <1>2, <1>3, <2>1, <3>2 DEF TypeOK, MeasuredAtChunk
    <3> QED BY <3>1, <3>2
  <2> QED BY <1>0, <2>1 DEF MeasuredAtChunk
<1>8. WorkersExclusive'
  BY <1>0, <1>2, <1>3, <1>4 DEF TypeOK, WorkersExclusive
<1>9. MemoryExclusive'
  <2>1. \A u \in Task : (UsesMemory(u)' <=> UsesMemory(u))
                          /\ (pc'[u] = "unused" <=> pc[u] = "unused")
    BY <1>2, <1>4 DEF UsesMemory
  <2>2. \A u \in Task : memory[u] \in Task
    BY <1>0 DEF TypeOK
  <2> QED BY <1>0, <2>1, <2>2 DEF MemoryExclusive
<1>10. BeatIsDue'
  <2>1. ASSUME NEW u \in Task
        PROVE polls'[u] <= MaxPolls /\ bornAt'[u] <= clock'
    BY <1>0, ChunkAssumption DEF TypeOK, BeatIsDue
  <2>2. ASSUME NEW u \in Task, pc'[u] = "beat"
        PROVE Due(on[u])' /\ on'[u] = on[u]
    <3>1. u # t /\ Active(u) /\ pc[u] = "beat"
      BY <1>2, <1>4, <2>2 DEF Active
    <3>2. timestamp'[on[u]] = timestamp[on[u]] /\ on'[u] = on[u]
      BY <1>0, <1>2, <1>3, <3>1 DEF TypeOK
    <3> QED BY <1>0, <3>1, <3>2 DEF BeatIsDue, Due
  <2> QED BY <2>1, <2>2 DEF BeatIsDue, Due
<1>11. HasParent'
  <2>1. \A u \in Task : Alive(u)' <=> Alive(u)
    BY <1>0, <1>2, <1>4 DEF Alive, UsesMemory
  <2>2. \A p \in Task : pc[p] = "waiting" => pc'[p] = "waiting"
    BY <1>2
  <2> QED BY <1>0, <2>1, <2>2 DEF HasParent
<1> QED BY <1>1, <1>5, <1>6, <1>7, <1>8, <1>9, <1>10, <1>11 DEF IInv

\* A poll counts in the memory of the task that polls.
LEMMA PollStep == ASSUME IInv, NEW t \in Task, Poll(t) PROVE IInv'
<1> USE DEF Poll, threadVars, configVars
<1>0. /\ TypeOK /\ OwnTimer /\ OwnCount /\ MeasuredAtChunk
      /\ WorkersExclusive /\ MemoryExclusive /\ BeatIsDue /\ HasParent
  BY DEF IInv
<1>1. TypeOK'
  <2>1. pc' \in [Task -> {"unused", "ready", "running", "beat", "waiting", "done"}]
    BY <1>0 DEF TypeOK
  <2>2. /\ memory[t] \in Task
        /\ tmemPolls \in [Task -> Nat] /\ polls \in [Task -> Nat]
    BY <1>0 DEF TypeOK
  <2>3. tmemPolls' \in [Task -> Nat]
    BY <2>2
  <2>4. polls' \in [Task -> Nat]
    BY <2>2
  <2> QED BY <1>0, <2>1, <2>3, <2>4 DEF TypeOK
<1>2. pc'[t] \in {"running", "beat"} /\ \A u \in Task : u # t => pc'[u] = pc[u]
  BY <1>0 DEF TypeOK
<1>3. \A u \in Task : (Active(u)' <=> Active(u)) /\ (UsesMemory(u)' <=> UsesMemory(u))
                        /\ (Alive(u)' <=> Alive(u))
  BY <1>2 DEF Alive, UsesMemory, Active
<1>4. \A u \in Task : u # t /\ Active(u) => memory[u] # memory[t]
  BY <1>0 DEF MemoryExclusive, UsesMemory, Active
<1>5. OwnTimer' /\ MeasuredAtChunk' /\ WorkersExclusive'
  BY <1>0, <1>3 DEF OwnTimer, MeasuredAtChunk, WorkersExclusive
<1>6. OwnCount'
  BY <1>0, <1>3, <1>4 DEF TypeOK, OwnCount, Active
<1>7. MemoryExclusive'
  BY <1>0, <1>2, <1>3 DEF TypeOK, MemoryExclusive
<1>8. HasParent'
  BY <1>0, <1>2, <1>3 DEF HasParent
<1>9. BeatIsDue'
  <2>1. ASSUME NEW u \in Task
        PROVE polls'[u] <= MaxPolls /\ bornAt'[u] <= clock'
    BY <1>0, ChunkAssumption DEF TypeOK, BeatIsDue
  <2>2. ASSUME NEW u \in Task, pc'[u] = "beat" PROVE Due(on[u])
    <3>1. CASE u = t
      BY <1>0, <2>2, <3>1 DEF TypeOK
    <3>2. CASE u # t
      BY <1>0, <1>2, <2>2, <3>2 DEF BeatIsDue
    <3> QED BY <3>1, <3>2
  <2> QED BY <2>1, <2>2 DEF BeatIsDue, Due
<1> QED BY <1>1, <1>5, <1>6, <1>7, <1>8, <1>9 DEF IInv

\* A heartbeat ignored leaves everything but the control of the task alone.
LEMMA NothingToSplitStep == ASSUME IInv, NEW t \in Task, NothingToSplit(t) PROVE IInv'
<1> USE DEF NothingToSplit, threadVars, configVars, tmemVars, historyVars
<1>0. /\ TypeOK /\ OwnTimer /\ OwnCount /\ MeasuredAtChunk
      /\ WorkersExclusive /\ MemoryExclusive /\ BeatIsDue /\ HasParent
  BY DEF IInv
<1>1. TypeOK'
  BY <1>0 DEF TypeOK
<1>2. pc'[t] = "running" /\ \A u \in Task : u # t => pc'[u] = pc[u]
  BY <1>0 DEF TypeOK
<1>3. \A u \in Task : (Active(u)' <=> Active(u)) /\ (UsesMemory(u)' <=> UsesMemory(u))
                        /\ (Alive(u)' <=> Alive(u))
  BY <1>2 DEF Alive, UsesMemory, Active
<1>4. OwnTimer' /\ OwnCount' /\ MeasuredAtChunk' /\ WorkersExclusive'
  BY <1>0, <1>3 DEF OwnTimer, OwnCount, MeasuredAtChunk, WorkersExclusive
<1>5. MemoryExclusive'
  BY <1>0, <1>2, <1>3 DEF TypeOK, MemoryExclusive
<1>6. HasParent'
  BY <1>0, <1>2, <1>3 DEF HasParent
<1>7. BeatIsDue'
  <2>1. \A u \in Task : pc'[u] = "beat" => pc[u] = "beat"
    BY <1>2
  <2> QED BY <1>0, <2>1 DEF BeatIsDue, Due
<1> QED BY <1>1, <1>4, <1>5, <1>6, <1>7 DEF IInv

\* A task that ends had no child that has not.
LEMMA EndStep == ASSUME IInv, NEW t \in Task, Join(t) \/ Finish(t) PROVE IInv'
<1> USE DEF threadVars, configVars, tmemVars, historyVars
<1>0. /\ TypeOK /\ OwnTimer /\ OwnCount /\ MeasuredAtChunk
      /\ WorkersExclusive /\ MemoryExclusive /\ BeatIsDue /\ HasParent
  BY DEF IInv
<1>a. /\ UNCHANGED <<clock, threadVars, configVars, tmemVars, on, memory, child, starts,
                      historyVars>>
      /\ pc' = [pc EXCEPT ![t] = "done"]
      /\ pc[t] \in {"running", "waiting"}
  BY DEF Join, Finish
<1>b. \A u \in Task : pc[t] = "waiting" /\ u \in child[t] => pc[u] = "done"
  BY DEF Join, Finish
<1>1. TypeOK'
  BY <1>0, <1>a DEF TypeOK
<1>2. pc'[t] = "done" /\ \A u \in Task : u # t => pc'[u] = pc[u]
  BY <1>0, <1>a DEF TypeOK
<1>3. \A u \in Task : (Active(u)' => Active(u)) /\ (UsesMemory(u)' => UsesMemory(u))
                        /\ (Alive(u)' => Alive(u) /\ u # t)
  BY <1>2 DEF Alive, UsesMemory, Active
<1>4. OwnTimer' /\ OwnCount' /\ MeasuredAtChunk' /\ WorkersExclusive'
  BY <1>0, <1>a, <1>3 DEF OwnTimer, OwnCount, MeasuredAtChunk, WorkersExclusive
<1>5. MemoryExclusive'
  BY <1>0, <1>a, <1>2, <1>3 DEF TypeOK, MemoryExclusive
<1>6. HasParent'
  <2>1. ASSUME NEW u \in Task \ {Root}, Alive(u)'
        PROVE  \E p \in Task : pc'[p] = "waiting" /\ u \in child[p] /\ bornAt[p] < bornAt[u]
    <3>1. PICK p \in Task : pc[p] = "waiting" /\ u \in child[p] /\ bornAt[p] < bornAt[u]
      BY <1>0, <1>3, <2>1 DEF HasParent
    <3>2. p # t
      BY <1>b, <1>2, <1>3, <2>1, <3>1 DEF Alive, UsesMemory, Active
    <3> QED BY <1>2, <3>1, <3>2
  <2> QED BY <2>1, <1>a DEF HasParent
<1>7. BeatIsDue'
  <2>1. \A u \in Task : pc'[u] = "beat" => pc[u] = "beat"
    BY <1>2
  <2> QED BY <1>0, <1>a, <2>1 DEF BeatIsDue, Due
<1> QED BY <1>1, <1>4, <1>5, <1>6, <1>7 DEF IInv

\* A promotion: the task leaves its worker as the worker's chunk size may
\* change, and hands its memory to the first branch.
LEMMA SplitStep == ASSUME IInv, NEW t \in Task, Split(t) PROVE IInv'
<1> USE DEF RuntimeMemoryUpdate, configVars, tmemVars
<1>0. /\ TypeOK /\ OwnTimer /\ OwnCount /\ MeasuredAtChunk
      /\ WorkersExclusive /\ MemoryExclusive /\ BeatIsDue /\ HasParent
  BY DEF IInv
<1> DEFINE w == on[t]  m == memory[t]
<1>a. PICK f, s \in Task \ {Root} :
        /\ pc[f] = "unused" /\ pc[s] = "unused" /\ f # s
        /\ pc' = [pc EXCEPT ![t] = "waiting", ![f] = "ready", ![s] = "ready"]
        /\ memory' = [memory EXCEPT ![f] = memory[t], ![s] = s]
        /\ child' = [child EXCEPT ![t] = {f, s}]
        /\ bornAt' = [bornAt EXCEPT ![f] = clock, ![s] = clock]
  BY DEF Split
<1>b. /\ UNCHANGED <<clock, timestamp, configVars, tmemVars, on, starts, beganAt, polls>>
      /\ pc[t] = "beat" /\ RuntimeMemoryUpdate(w, m)
      /\ samples' = [samples EXCEPT ![w] = IF EndsWindow(w) THEN <<>> ELSE Append(@, Sample(m))]
  BY DEF Split
<1>c. t # f /\ t # s /\ w \in Worker /\ m \in Task
  BY <1>0, <1>a, <1>b DEF TypeOK
<1>1. /\ pc'[t] = "waiting" /\ pc'[f] = "ready" /\ pc'[s] = "ready"
      /\ \A u \in Task : u \notin {t, f, s} => pc'[u] = pc[u]
  BY <1>0, <1>a, <1>c DEF TypeOK
<1>2. /\ memory'[f] = memory[t] /\ memory'[s] = s
      /\ \A u \in Task : u \notin {f, s} => memory'[u] = memory[u]
  BY <1>0, <1>a, <1>c DEF TypeOK
<1>3. /\ bornAt'[f] = clock /\ bornAt'[s] = clock
      /\ \A u \in Task : u \notin {f, s} => bornAt'[u] = bornAt[u]
  BY <1>0, <1>a, <1>c DEF TypeOK
<1>4. \A u \in Task : Active(u)' => Active(u) /\ u \notin {t, f, s}
  BY <1>1 DEF Active
<1>5. Active(t) /\ \A u \in Task : Active(u)' => on[u] # w
  BY <1>0, <1>b, <1>4 DEF WorkersExclusive, Active
<1>6. TypeOK'
  <2>1. Sample(m) \in [count : Nat, chunk : Nat \ {0}]
    BY <1>0, <1>c DEF TypeOK, Sample
  <2>2. samples' \in [Worker -> Seq([count : Nat, chunk : Nat \ {0}])]
    <3>1. samples[w] \in Seq([count : Nat, chunk : Nat \ {0}])
      BY <1>0, <1>c DEF TypeOK
    <3>2. Append(samples[w], Sample(m)) \in Seq([count : Nat, chunk : Nat \ {0}])
      BY <2>1, <3>1
    <3>3. samples \in [Worker -> Seq([count : Nat, chunk : Nat \ {0}])]
      BY <1>0 DEF TypeOK
    <3>4. <<>> \in Seq([count : Nat, chunk : Nat \ {0}])
      OBVIOUS
    <3> QED BY <1>b, <3>2, <3>3, <3>4
  <2>3. Extreme(polling_count[w], tmemPolls[m]) \in Nat
    <3>1. polling_count[w] \in Nat /\ tmemPolls[m] \in Nat
      BY <1>0, <1>c DEF TypeOK
    <3> QED BY <3>1, ExtremeIsExtreme
  <2>4. polling_count' \in [Worker -> Nat]
    BY <1>0, <1>b, <2>3, ChunkAssumption DEF TypeOK, NoCount
  <2>5. chunksize' \in [Worker -> Nat \ {0}]
    <3>1. Scaled(Extreme(polling_count[w], tmemPolls[m]), chunksize[w], target_polling_ratio[w])
            \in Nat \ {0}
      BY <1>0, <1>c, <2>3, ScaledType DEF TypeOK
    <3> QED BY <1>0, <1>b, <3>1 DEF TypeOK
  <2>6. heartbeat_count' \in [Worker -> Nat]
    <3>1. heartbeat_count \in [Worker -> Nat]
      BY <1>0 DEF TypeOK
    <3>2. heartbeat_count' = [heartbeat_count EXCEPT ![w] = heartbeat_count[w] + 1]
      BY <1>b
    <3>3. heartbeat_count[w] + 1 \in Nat
      BY <1>c, <3>1
    <3> QED BY <3>1, <3>2, <3>3
  <2>7. pc' \in [Task -> {"unused", "ready", "running", "beat", "waiting", "done"}]
    BY <1>0, <1>a DEF TypeOK
  <2>8. memory' \in [Task -> Task] /\ child' \in [Task -> SUBSET Task]
    BY <1>0, <1>a, <1>c DEF TypeOK
  <2>9. bornAt' \in [Task -> Nat]
    BY <1>0, <1>a DEF TypeOK
  <2> QED BY <1>0, <1>b, <2>2, <2>4, <2>5, <2>6, <2>7, <2>8, <2>9 DEF TypeOK
<1>7. OwnTimer'
  BY <1>0, <1>b, <1>3, <1>4 DEF OwnTimer
<1>8. OwnCount'
  BY <1>0, <1>b, <1>2, <1>4 DEF OwnCount
<1>9. MeasuredAtChunk'
  <2>1. \A v \in Worker : v # w => chunksize'[v] = chunksize[v] /\ samples'[v] = samples[v]
    BY <1>0, <1>b DEF TypeOK
  <2>2. \A u \in Task : Active(u)' => tmemChunk'[memory'[u]] = chunksize'[on'[u]]
    <3> SUFFICES ASSUME NEW u \in Task, Active(u)' PROVE tmemChunk'[memory'[u]] = chunksize'[on'[u]]
      OBVIOUS
    <3>1. Active(u) /\ on[u] # w /\ memory'[u] = memory[u]
      BY <1>2, <1>4, <1>5
    <3>2. on[u] \in Worker /\ tmemChunk[memory[u]] = chunksize[on[u]]
      BY <1>0, <3>1 DEF TypeOK, MeasuredAtChunk
    <3>3. tmemChunk' = tmemChunk /\ on' = on
      BY <1>b DEF tmemVars
    <3> QED BY <2>1, <3>1, <3>2, <3>3
  <2>3. \A i \in 1..Len(samples'[w]) : samples'[w][i].chunk = chunksize'[w]
    <3>1. CASE EndsWindow(w)
      BY <1>0, <1>b, <1>c, <3>1 DEF TypeOK
    <3>2. CASE ~EndsWindow(w)
      <4>1. samples'[w] = Append(samples[w], Sample(m)) /\ chunksize'[w] = chunksize[w]
        BY <1>0, <1>b, <1>c, <3>2 DEF TypeOK
      <4>2. Sample(m).chunk = chunksize[w]
        BY <1>0, <1>5, <1>c DEF MeasuredAtChunk, Sample
      <4>3. \A i \in 1..Len(samples[w]) : samples[w][i].chunk = chunksize[w]
        BY <1>0, <1>c DEF MeasuredAtChunk
      <4>4. samples[w] \in Seq([count : Nat, chunk : Nat \ {0}])
        BY <1>0, <1>c DEF TypeOK
      <4> QED BY <4>1, <4>2, <4>3, <4>4
    <3> QED BY <3>1, <3>2
  <2> QED BY <1>0, <2>1, <2>2, <2>3 DEF MeasuredAtChunk
<1>10. WorkersExclusive'
  BY <1>0, <1>b, <1>4 DEF WorkersExclusive
<1>11. MemoryExclusive'
  <2>0. /\ \A u \in Task : memory[u] \in Task
        /\ \A u, v \in Task : UsesMemory(u) /\ UsesMemory(v) /\ memory[u] = memory[v] => u = v
        /\ \A u \in Task : pc[u] # "unused" => pc[memory[u]] # "unused"
        /\ \A u \in Task : pc[u] = "unused" => memory[u] = u
    BY <1>0 DEF TypeOK, MemoryExclusive
  <2>1. \A u \in Task : UsesMemory(u)' => u \in {f, s} \/ (UsesMemory(u) /\ u \notin {t, f, s})
    BY <1>1 DEF UsesMemory, Active
  <2>2. UsesMemory(t)
    BY <1>b DEF UsesMemory, Active
  <2>3. \A u \in Task : UsesMemory(u) => memory[u] # s
    BY <1>a, <2>0 DEF UsesMemory, Active
  <2>4. \A u, v \in Task : UsesMemory(u)' /\ UsesMemory(v)' /\ memory'[u] = memory'[v] => u = v
    BY <1>2, <2>0, <2>1, <2>2, <2>3
  <2>5. \A u \in Task : pc[u] # "unused" => pc'[u] # "unused"
    BY <1>1
  <2>6. \A u \in Task : pc'[u] # "unused" => pc'[memory'[u]] # "unused"
    BY <1>1, <1>2, <1>b, <1>c, <2>0, <2>5
  <2>7. \A u \in Task : pc'[u] = "unused" => memory'[u] = u
    BY <1>1, <1>2, <2>0
  <2> QED BY <2>4, <2>6, <2>7 DEF MemoryExclusive
<1>12. BeatIsDue'
  <2>1. ASSUME NEW u \in Task
        PROVE polls'[u] <= MaxPolls /\ bornAt'[u] <= clock'
    <3>1. polls[u] <= MaxPolls /\ bornAt[u] <= clock /\ clock \in Nat
      BY <1>0 DEF TypeOK, BeatIsDue
    <3>2. polls' = polls /\ clock' = clock /\ (bornAt'[u] = clock \/ bornAt'[u] = bornAt[u])
      BY <1>3, <1>b
    <3> QED BY <3>1, <3>2
  <2>2. ASSUME NEW u \in Task, pc'[u] = "beat" PROVE Due(on[u])
    BY <1>0, <1>1, <2>2 DEF BeatIsDue
  <2> QED BY <1>b, <2>1, <2>2 DEF BeatIsDue, Due
<1>13. HasParent'
  <2>1. bornAt[t] < clock
    <3>1. /\ timestamp[w] = beganAt[t] /\ beganAt[t] >= bornAt[t]
          /\ timestamp[w] + HeartbeatInterval <= clock
      BY <1>0, <1>5, <1>b DEF OwnTimer, BeatIsDue, Due
    <3>2. bornAt[t] \in Nat /\ beganAt[t] \in Nat /\ clock \in Nat
      BY <1>0 DEF TypeOK
    <3> QED BY <3>1, <3>2, Constants
  <2>2. child'[t] = {f, s} /\ \A u \in Task : u # t => child'[u] = child[u]
    BY <1>0, <1>a DEF TypeOK
  <2>3. ASSUME NEW u \in Task \ {Root}, Alive(u)'
        PROVE  \E p \in Task : pc'[p] = "waiting" /\ u \in child'[p] /\ bornAt'[p] < bornAt'[u]
    <3>1. CASE u \in {f, s}
      BY <1>1, <1>3, <1>c, <2>1, <2>2, <3>1
    <3>2. CASE u \notin {f, s}
      <4>1. Alive(u)
        BY <1>1, <1>b, <2>3, <3>2 DEF Alive, UsesMemory, Active
      <4>2. PICK p \in Task : pc[p] = "waiting" /\ u \in child[p] /\ bornAt[p] < bornAt[u]
        BY <1>0, <4>1 DEF HasParent
      <4>3. p \notin {t, f, s}
        BY <1>a, <1>b, <4>2
      <4> QED BY <1>1, <1>3, <2>2, <3>2, <4>2, <4>3
    <3> QED BY <3>1, <3>2
  <2> QED BY <2>3 DEF HasParent
<1> QED BY <1>6, <1>7, <1>8, <1>9, <1>10, <1>11, <1>12, <1>13 DEF IInv

-----------------------------------------------------------------------------
(***************************************************************************)
(* The results.                                                            *)
(***************************************************************************)

LEMMA InitInv == Init => IInv
<1> SUFFICES ASSUME Init PROVE IInv
  OBVIOUS
<1> USE DEF Init
<1>1. TypeOK
  BY ChunkAssumption DEF TypeOK, NoCount
<1>2. \A t \in Task : pc[t] = "unused" /\ ~Active(t) /\ ~UsesMemory(t) /\ ~Alive(t)
  BY DEF Active, UsesMemory, Alive
<1>3. OwnTimer /\ OwnCount /\ WorkersExclusive /\ HasParent
  BY <1>2 DEF OwnTimer, OwnCount, WorkersExclusive, HasParent
<1>4. MeasuredAtChunk
  BY <1>2 DEF MeasuredAtChunk
<1>5. MemoryExclusive
  BY <1>2 DEF MemoryExclusive
<1>6. BeatIsDue
  BY <1>2, ChunkAssumption DEF BeatIsDue
<1> QED BY <1>1, <1>3, <1>4, <1>5, <1>6 DEF IInv

LEMMA NextInv == IInv /\ [Next]_vars => IInv'
<1> SUFFICES ASSUME IInv, [Next]_vars PROVE IInv'
  OBVIOUS
<1>1. CASE Tick
  BY <1>1, TickStep
<1>2. ASSUME NEW w \in Worker, HeartbeatStart(w) PROVE IInv'
  BY <1>2, HeartbeatStartStep
<1>3. ASSUME NEW t \in Task, TaskStep(t) PROVE IInv'
  BY <1>3, BeginStep, PollStep, NothingToSplitStep, SplitStep, EndStep DEF TaskStep
<1>4. CASE UNCHANGED vars
  BY <1>4 DEF IInv, TypeOK, OwnTimer, OwnCount, MeasuredAtChunk, WorkersExclusive,
       MemoryExclusive, BeatIsDue, HasParent, Active, UsesMemory, Alive, Due, vars,
       threadVars, configVars, tmemVars, taskVars, historyVars
<1> QED BY <1>1, <1>2, <1>3, <1>4 DEF Next, Ended

\* The inductive invariant holds whatever the schedule, the interval, the
\* window, the policy and, among powers of two up to 64, the ratio.
THEOREM ChunkInvariance == Spec => []IInv
<1> QED BY InitInv, NextInv, PTL DEF Spec

\* Chunk sizes are positive and counts are counts.
THEOREM ChunkTypes == Spec => []TypeOK
<1>1. IInv => TypeOK
  BY DEF IInv
<1> QED BY <1>1, ChunkInvariance, PTL

\* heartbeat_polling measures from the moment the polling task began.
THEOREM TimersAreOwn == Spec => []OwnTimer
<1>1. IInv => OwnTimer
  BY DEF IInv
<1> QED BY <1>1, ChunkInvariance, PTL

\* The polling count of a task memory is that of the task that uses it.
THEOREM CountsAreOwn == Spec => []OwnCount
<1>1. IInv => OwnCount
  BY DEF IInv
<1> QED BY <1>1, ChunkInvariance, PTL

\* Adaptive chunk size control scales a count by the chunk size it was counted with.
THEOREM CountsMatchChunks == Spec => []MeasuredAtChunk
<1>1. IInv => MeasuredAtChunk
  BY DEF IInv
<1> QED BY <1>1, ChunkInvariance, PTL

\* A task comes to wait by a promotion of its own.
LEMMA OnlySplitWaits ==
  ASSUME IInv, [Next]_vars, NEW t \in Task, pc[t] # "waiting", pc'[t] = "waiting"
  PROVE  Split(t)
<1>0. TypeOK
  BY DEF IInv
<1>1. ASSUME NEW u \in Task, TaskStep(u) PROVE Split(t)
  <2>1. ASSUME NEW w \in Worker, Begin(u, w) PROVE FALSE
    BY <1>0, <2>1 DEF Begin, TypeOK
  <2>2. ~Poll(u) /\ ~NothingToSplit(u) /\ ~Join(u) /\ ~Finish(u)
    BY <1>0 DEF Poll, NothingToSplit, Join, Finish, TypeOK
  <2>3. ASSUME Split(u), u # t PROVE FALSE
    BY <1>0, <2>3 DEF Split, TypeOK
  <2> QED BY <1>1, <2>1, <2>2, <2>3 DEF TaskStep
<1>2. ASSUME NEW w \in Worker, HeartbeatStart(w) PROVE FALSE
  BY <1>0, <1>2 DEF HeartbeatStart, TypeOK
<1>3. ~Tick /\ ~(UNCHANGED vars)
  BY DEF Tick, vars, taskVars
<1> QED BY <1>1, <1>2, <1>3 DEF Next, Ended

\* A heartbeat interval lies between the promotion that makes a task and the
\* one that splits it.
THEOREM PromotionsApart == Spec => HeartbeatRate
<1>1. ASSUME IInv, [Next]_vars,
             NEW t \in Task, pc[t] # "waiting", pc'[t] = "waiting"
      PROVE  clock >= bornAt[t] + HeartbeatInterval
  <2>1. TypeOK
    BY <1>1 DEF IInv
  <2>2. Split(t)
    BY <1>1, OnlySplitWaits
  <2>3. pc[t] = "beat" /\ Active(t)
    BY <2>2 DEF Split, Active
  <2>4. timestamp[on[t]] >= bornAt[t] /\ timestamp[on[t]] + HeartbeatInterval <= clock
    BY <1>1, <2>3 DEF IInv, OwnTimer, BeatIsDue, Due
  <2>5. bornAt[t] \in Nat /\ timestamp[on[t]] \in Nat /\ clock \in Nat
    BY <2>1 DEF TypeOK
  <2> QED BY <2>4, <2>5, Constants
<1>2. IInv /\ [Next]_vars =>
        [\A t \in Task : pc[t] # "waiting" /\ pc'[t] = "waiting"
            => clock >= bornAt[t] + HeartbeatInterval]_vars
  BY <1>1
<1> QED BY <1>2, ChunkInvariance, PTL DEF Spec, HeartbeatRate

-----------------------------------------------------------------------------
(***************************************************************************)
(* What the count of a window stands for.                                  *)
(***************************************************************************)

\* The counts a worker has seen in its window, and the one a task brings to it.
Counts(w)  == {samples[w][i].count : i \in 1..Len(samples[w])}
Seen(t)    == Counts(on[t]) \cup {tmemPolls[memory[t]]}
Kept(t)    == Extreme(polling_count[on[t]], tmemPolls[memory[t]])

\* Taking the extreme of the kept count and a new one keeps the extreme of all
\* of them; the count a window begins with is never kept.
LEMMA KeptIsExtreme ==
  ASSUME IInv, WindowExtreme, NEW t \in Task, Active(t)
  PROVE  /\ Kept(t) \in Nat /\ Kept(t) \in Seen(t)
         /\ Seen(t) \subseteq Nat
         /\ \A c \in Seen(t) : IF Minimal THEN Kept(t) <= c ELSE Kept(t) >= c
<1> DEFINE w == on[t]  old == polling_count[w]  new == tmemPolls[memory[t]]
<1>1. w \in Worker /\ old \in Nat /\ new \in Nat
  BY DEF IInv, TypeOK
<1>2. new < Int64Max
  <2>1. new <= MaxPolls
    BY DEF IInv, OwnCount, BeatIsDue
  <2> QED BY <1>1, <2>1, ChunkAssumption
<1>3. Counts(w) \subseteq Nat
  <2>1. samples[w] \in Seq([count : Nat, chunk : Nat \ {0}])
    BY <1>1 DEF IInv, TypeOK
  <2>2. \A i \in 1..Len(samples[w]) : samples[w][i] \in [count : Nat, chunk : Nat \ {0}]
    BY <2>1, ElementOfSeq
  <2> QED BY <2>2 DEF Counts
<1>4. /\ Kept(t) \in {old, new}
      /\ IF Minimal THEN Kept(t) <= old /\ Kept(t) <= new ELSE Kept(t) >= old /\ Kept(t) >= new
  BY <1>1, ExtremeIsExtreme DEF Kept
<1>5. CASE Counts(w) = {}
  <2>1. old = NoCount
    BY <1>1, <1>5 DEF WindowExtreme, Counts
  <2>2. Kept(t) = new
    BY <1>1, <1>2, <2>1, ChunkAssumption DEF Kept, Extreme, NoCount
  <2> QED BY <1>1, <1>5, <2>2 DEF Seen
<1>6. CASE Counts(w) # {}
  <2>1. /\ old \in Counts(w)
        /\ \A c \in Counts(w) : IF Minimal THEN old <= c ELSE old >= c
    BY <1>1, <1>6 DEF WindowExtreme, Counts
  <2> QED BY <1>1, <1>3, <1>4, <2>1 DEF Seen
<1> QED BY <1>5, <1>6

\* What a promotion does to the window of its worker, and to no other worker.
LEMMA SplitEffect ==
  ASSUME IInv, NEW t \in Task, Split(t)
  PROVE  LET w == on[t] IN
         /\ w \in Worker
         /\ \A v \in Worker \ {w} : /\ samples'[v] = samples[v]
                                    /\ polling_count'[v] = polling_count[v]
                                    /\ chunksize'[v] = chunksize[v]
         /\ EndsWindow(w) => /\ samples'[w] = <<>> /\ polling_count'[w] = NoCount
                             /\ chunksize'[w] = Scaled(Kept(t), chunksize[w], target_polling_ratio[w])
         /\ ~EndsWindow(w) => /\ samples'[w] = Append(samples[w], Sample(memory[t]))
                              /\ polling_count'[w] = Kept(t)
                              /\ chunksize'[w] = chunksize[w]
<1>1. TypeOK
  BY DEF IInv
<1>2. /\ on[t] \in Worker /\ DOMAIN samples = Worker
      /\ DOMAIN polling_count = Worker /\ DOMAIN chunksize = Worker
  BY <1>1 DEF TypeOK
<1>3. /\ samples' = [samples EXCEPT ![on[t]] =
            IF EndsWindow(on[t]) THEN <<>> ELSE Append(samples[on[t]], Sample(memory[t]))]
      /\ polling_count' = [polling_count EXCEPT ![on[t]] =
            IF EndsWindow(on[t]) THEN NoCount ELSE Kept(t)]
      /\ chunksize' = [chunksize EXCEPT ![on[t]] =
            IF EndsWindow(on[t]) THEN Scaled(Kept(t), chunksize[on[t]], target_polling_ratio[on[t]])
                                 ELSE chunksize[on[t]]]
  BY DEF Split, RuntimeMemoryUpdate, Kept
<1> QED BY <1>1, <1>2, <1>3 DEF TypeOK

\* Only a promotion touches windows.
LEMMA OnlySplitAdapts ==
  ASSUME [Next]_vars, \A t \in Task : ~Split(t)
  PROVE  UNCHANGED <<samples, polling_count, chunksize>>
<1>1. ASSUME NEW t \in Task, TaskStep(t)
      PROVE  UNCHANGED <<samples, polling_count, chunksize>>
  BY <1>1 DEF TaskStep, Begin, Poll, NothingToSplit, Join, Finish, threadVars, historyVars
<1>2. ASSUME NEW w \in Worker, HeartbeatStart(w)
      PROVE  UNCHANGED <<samples, polling_count, chunksize>>
  BY <1>2 DEF HeartbeatStart
<1>3. Tick \/ UNCHANGED vars => UNCHANGED <<samples, polling_count, chunksize>>
  BY DEF Tick, vars, threadVars, historyVars
<1> QED BY <1>1, <1>2, <1>3 DEF Next, Ended

LEMMA WindowStep == IInv /\ WindowExtreme /\ [Next]_vars => WindowExtreme'
<1> SUFFICES ASSUME IInv, WindowExtreme, [Next]_vars PROVE WindowExtreme'
  OBVIOUS
<1>1. CASE \A t \in Task : ~Split(t)
  BY <1>1, OnlySplitAdapts DEF WindowExtreme, NoCount
<1>2. ASSUME NEW t \in Task, Split(t) PROVE WindowExtreme'
  <2>0. PICK w \in Worker : w = on[t]
    BY <1>2, SplitEffect
  <2>1. Active(t) /\ w = on[t]
    BY <1>2, <2>0 DEF Split, Active
  <2>2. \A v \in Worker \ {w} : Counts(v)' = Counts(v) /\ polling_count'[v] = polling_count[v]
    BY <1>2, <2>0, SplitEffect DEF Counts
  <2>3. CASE EndsWindow(w)
    <3>1. Counts(w)' = {} /\ polling_count'[w] = NoCount
      BY <1>2, <2>0, <2>3, SplitEffect DEF Counts
    <3>2. \A v \in Worker : Counts(v)' = {} => polling_count'[v] = NoCount
      BY <2>2, <3>1 DEF WindowExtreme, Counts
    <3>3. ASSUME NEW v \in Worker, Counts(v)' # {}
          PROVE  /\ polling_count'[v] \in Counts(v)'
                 /\ \A c \in Counts(v)' : IF Minimal THEN polling_count'[v] <= c
                                                     ELSE polling_count'[v] >= c
      <4>1. Counts(v)' = Counts(v) /\ polling_count'[v] = polling_count[v]
        BY <2>2, <3>1, <3>3
      <4>2. /\ polling_count[v] \in Counts(v)
            /\ \A c \in Counts(v) : IF Minimal THEN polling_count[v] <= c
                                               ELSE polling_count[v] >= c
        BY <3>3, <4>1 DEF WindowExtreme, Counts
      <4> QED BY <4>1, <4>2
    <3> QED BY <3>2, <3>3 DEF WindowExtreme, Counts, NoCount
  <2>4. CASE ~EndsWindow(w)
    <3>1. samples'[w] = Append(samples[w], Sample(memory[t])) /\ polling_count'[w] = Kept(t)
      BY <1>2, <2>0, <2>4, SplitEffect
    <3>2. samples[w] \in Seq([count : Nat, chunk : Nat \ {0}])
      BY <2>1 DEF IInv, TypeOK
    <3>3. Counts(w)' = Seen(t)
      <4>1. Len(samples'[w]) = Len(samples[w]) + 1 /\ Len(samples[w]) \in Nat
        BY <3>1, <3>2
      <4>2. \A i \in 1..Len(samples[w]) : samples'[w][i] = samples[w][i]
        BY <3>1, <3>2
      <4>3. samples'[w][Len(samples[w]) + 1].count = tmemPolls[memory[t]]
        BY <3>1, <3>2 DEF Sample
      <4> DEFINE n == Len(samples[w])  new == tmemPolls[memory[t]]
      <4>4. Counts(w)' = {samples'[w][i].count : i \in 1..n + 1}
        BY <4>1 DEF Counts
      <4>5. {samples'[w][i].count : i \in 1..n + 1} = {samples'[w][i].count : i \in 1..n} \cup {new}
        BY <4>1, <4>3
      <4>6. {samples'[w][i].count : i \in 1..n} = Counts(w)
        BY <4>2 DEF Counts
      <4> QED BY <2>1, <4>4, <4>5, <4>6 DEF Seen
    <3>4. /\ Kept(t) \in Seen(t)
          /\ \A c \in Seen(t) : IF Minimal THEN Kept(t) <= c ELSE Kept(t) >= c
      BY <2>1, KeptIsExtreme
    <3>5. /\ Counts(w)' # {}
          /\ polling_count'[w] \in Counts(w)'
          /\ \A c \in Counts(w)' : IF Minimal THEN polling_count'[w] <= c
                                              ELSE polling_count'[w] >= c
      BY <3>1, <3>3, <3>4
    <3>6. \A v \in Worker \ {w} :
            /\ Counts(v)' = {} => polling_count'[v] = NoCount
            /\ Counts(v)' # {} => /\ polling_count'[v] \in Counts(v)'
                                  /\ \A c \in Counts(v)' : IF Minimal THEN polling_count'[v] <= c
                                                                      ELSE polling_count'[v] >= c
      BY <2>2 DEF WindowExtreme, Counts
    <3> QED BY <3>5, <3>6 DEF WindowExtreme, Counts, NoCount
  <2> QED BY <2>3, <2>4
<1> QED BY <1>1, <1>2

\* The count a worker keeps is the least, or the greatest, of its window.
THEOREM WindowsKeepExtreme == Spec => []WindowExtreme
<1>1. Init => WindowExtreme
  <2> SUFFICES ASSUME Init, NEW w \in Worker
               PROVE  /\ {samples[w][i].count : i \in 1..Len(samples[w])} = {}
                      /\ polling_count[w] = NoCount
    BY DEF WindowExtreme
  <2>1. samples[w] = <<>> /\ 1..Len(samples[w]) = {}
    BY DEF Init
  <2> QED BY <2>1 DEF Init
<1> QED BY <1>1, WindowStep, ChunkInvariance, PTL DEF Spec

\* Chunk sizes move in the direction every (or some) promotion of the window asks for.
THEOREM ChunksAdapt == Spec => AdaptsByWindow
<1> DEFINE Adapts ==
      \A t \in Task : pc[t] # "waiting" /\ pc'[t] = "waiting" =>
        LET w     == on[t]
            seen  == {samples[w][i].count : i \in 1..Len(samples[w])} \cup {tmemPolls[memory[t]]}
            over  == {c \in seen : c > target_polling_ratio[w]}
            under == {c \in seen : c < target_polling_ratio[w]}
        IN /\ chunksize'[w] > chunksize[w] => over # {} /\ (Minimal => over = seen)
           /\ chunksize'[w] < chunksize[w] => under # {} /\ (~Minimal => under = seen)
           /\ \A v \in Worker \ {w} : chunksize'[v] = chunksize[v]
<1>1. ASSUME IInv, WindowExtreme, [Next]_vars PROVE Adapts
  <2> SUFFICES ASSUME NEW t \in Task, pc[t] # "waiting", pc'[t] = "waiting"
      PROVE LET w     == on[t]
                over  == {c \in Seen(t) : c > target_polling_ratio[w]}
                under == {c \in Seen(t) : c < target_polling_ratio[w]}
            IN /\ chunksize'[w] > chunksize[w] => over # {} /\ (Minimal => over = Seen(t))
               /\ chunksize'[w] < chunksize[w] => under # {} /\ (~Minimal => under = Seen(t))
               /\ \A v \in Worker \ {w} : chunksize'[v] = chunksize[v]
    BY DEF Seen, Counts
  <2> DEFINE w == on[t]  size == chunksize[w]  ratio == target_polling_ratio[w]
  <2>1. Split(t) /\ Active(t)
    BY <1>1, OnlySplitWaits DEF Split, Active
  <2>2. w \in Worker /\ size \in Nat \ {0} /\ ratio \in {DefaultRatio, Ratio} /\ ratio \in Nat
    <3>1. w \in Worker /\ size \in Nat \ {0} /\ ratio \in {DefaultRatio, Ratio}
      BY <1>1 DEF IInv, TypeOK
    <3> QED BY <3>1, ChunkAssumption DEF PowersOfTwo
  <2>3. /\ Kept(t) \in Nat /\ Kept(t) \in Seen(t) /\ Seen(t) \subseteq Nat
        /\ \A c \in Seen(t) : IF Minimal THEN Kept(t) <= c ELSE Kept(t) >= c
    BY <1>1, <2>1, KeptIsExtreme
  <2>4. chunksize'[w] = size \/ chunksize'[w] = Scaled(Kept(t), size, ratio)
    BY <1>1, <2>1, SplitEffect
  <2>5. \A v \in Worker \ {w} : chunksize'[v] = chunksize[v]
    BY <1>1, <2>1, SplitEffect
  <2>6. /\ chunksize'[w] > size => Kept(t) > ratio
        /\ chunksize'[w] < size => Kept(t) < ratio
    BY <2>2, <2>3, <2>4, ScaledDirection
  <2> QED BY <2>2, <2>3, <2>5, <2>6
<1>2. IInv /\ WindowExtreme /\ [Next]_vars => [Adapts]_vars
  BY <1>1
<1> QED BY <1>2, ChunkInvariance, WindowsKeepExtreme, PTL DEF Spec, AdaptsByWindow
=============================================================================
