---------------------------- MODULE HeartbeatLoop ---------------------------
(***************************************************************************)
(* A heartbeat loop nest of one loop: the slice task that the pass         *)
(* generates for a leaf loop that is also the root (chunked execution,     *)
(* polling, reduction) together with the promotion handler that splits it. *)
(*                                                                         *)
(* A task is one invocation of the slice task.  Several tasks share one    *)
(* context and one task memory: the first half of a split runs on the      *)
(* context of the task that was split, which waits for it; the second half *)
(* gets a context and a task memory of its own, named here after the task. *)
(*                                                                         *)
(* The value a reduction accumulates is a tally: how many times each       *)
(* iteration has been added.                                               *)
(***************************************************************************)
EXTENDS Integers

CONSTANTS
  Task,          \* names of tasks; how many there are bounds the promotions
  Root,          \* the task started by the original function
  Main,          \* the original function, owner of the outermost live-out array
  Lo, Hi,        \* the loop is for (i = Lo; i < Hi; i++)
  ChunkSizes,    \* what task_memory_reset may take for the chunk size
  InitialValue,  \* value of the reduction variable before the loop
  Garbage        \* what uninitialised stack memory holds

Iter  == Lo .. Hi - 1
Tally == [Iter -> Nat]

ASSUME LoopAssumption ==
  /\ Root \in Task
  /\ Main \notin Task
  /\ Lo \in Nat /\ Hi \in Nat
  /\ ChunkSizes \subseteq Nat \ {0}
  /\ InitialValue \in Tally
  /\ Garbage \in Tally

VARIABLES
  pc, cxt, myIndex,                              \* per task: control and arguments
  child,                                         \* per task: the pair it forked
  startIteration, maxIteration, currentIteration, \* per task: loop registers
  chunk, low,                                    \* per task: registers of the chunk loop
  priv, out, kids,                               \* per task: private copy, incoming array, own array
  START_ITER, MAX_ITER, LIVE_OUT,                \* per context
  chunksize, remaining,                          \* per task memory
  executed, result, returned                     \* effects seen by the program

taskVars == <<pc, cxt, myIndex, child>>
loopVars == <<startIteration, maxIteration, currentIteration, chunk, low>>
redVars  == <<priv, out, kids>>
cxtVars  == <<START_ITER, MAX_ITER, LIVE_OUT>>
tmemVars == <<chunksize, remaining>>
mainVars == <<result, returned>>
vars == <<taskVars, loopVars, redVars, cxtVars, tmemVars, executed, mainVars>>
-----------------------------------------------------------------------------
Zero           == [i \in Iter |-> 0]
Interval(a, b) == [i \in Iter |-> IF a <= i /\ i < b THEN 1 ELSE 0]
Plus(f, g)     == [i \in Iter |-> f[i] + g[i]]
UMin(a, b)     == IF a < b THEN a ELSE b

Init ==
  /\ pc = [t \in Task |-> IF t = Root THEN "entry" ELSE "idle"]
  /\ cxt = [t \in Task |-> t]
  /\ myIndex = [t \in Task |-> 0]
  /\ child = [t \in Task |-> [k \in 0..1 |-> t]]
  /\ startIteration = [t \in Task |-> 0]
  /\ maxIteration = [t \in Task |-> 0]
  /\ currentIteration = [t \in Task |-> 0]
  /\ chunk = [t \in Task |-> 0]
  /\ low = [t \in Task |-> 0]
  /\ priv = [t \in Task |-> Zero]
  /\ out = [t \in Task |-> Main]
  /\ kids = [t \in Task \cup {Main} |-> [k \in 0..1 |-> Garbage]]
  /\ START_ITER = [t \in Task |-> Lo]
  /\ MAX_ITER = [t \in Task |-> Hi]
  /\ LIVE_OUT = [t \in Task |-> Main]
  /\ chunksize = [t \in Task |-> 0]
  /\ remaining = [t \in Task |-> 0]
  /\ executed = Zero
  /\ result = InitialValue
  /\ returned = FALSE
-----------------------------------------------------------------------------
\* task_memory_reset, then the entry block of the slice task: the bounds are
\* read from the context into registers, the live-out array of the context is
\* remembered and replaced by the (uninitialised) array for this task's kids.
Enter(t) ==
  LET c == cxt[t] IN
  /\ pc[t] = "entry"
  /\ \E size \in ChunkSizes :
       /\ chunksize' = [chunksize EXCEPT ![c] = size]
       /\ remaining' = [remaining EXCEPT ![c] = size]
  /\ startIteration' = [startIteration EXCEPT ![t] = START_ITER[c]]
  /\ maxIteration' = [maxIteration EXCEPT ![t] = MAX_ITER[c]]
  /\ currentIteration' = [currentIteration EXCEPT ![t] = START_ITER[c]]
  /\ priv' = [priv EXCEPT ![t] = Zero]
  /\ out' = [out EXCEPT ![t] = LIVE_OUT[c]]
  /\ LIVE_OUT' = [LIVE_OUT EXCEPT ![c] = t]
  /\ pc' = [pc EXCEPT ![t] = "header"]
  /\ UNCHANGED <<cxt, myIndex, child, chunk, low, kids, START_ITER, MAX_ITER,
                 executed, mainVars>>

\* (as it would be without the reset)
AllowanceNotReset(c, iterations, size) == remaining[c] - iterations

\* What update_and_has_remaining_chunksize leaves in the task memory: a full
\* allowance after a full chunk, else what the chunk has not used.
Allowance(c, iterations, size) ==
  IF iterations = size THEN chunksize[c] ELSE remaining[c] - iterations

\* One turn of the outer chunked loop: run the iterations up to the chunk size
\* left, then either the loop is over or it is time to poll.
RunChunk(t) ==
  LET c    == cxt[t]
      iv   == currentIteration[t]
      high == UMin(iv + remaining[c], maxIteration[t])
  IN
  /\ pc[t] = "header"
  /\ iv < maxIteration[t]
  /\ executed' = Plus(executed, Interval(iv, high))
  /\ priv' = [priv EXCEPT ![t] = Plus(@, Interval(iv, high))]
  /\ chunk' = [chunk EXCEPT ![t] = remaining[c]]
  /\ low' = [low EXCEPT ![t] = high]
  /\ remaining' = [remaining EXCEPT ![c] = Allowance(c, high - iv, remaining[c])]
  /\ pc' = [pc EXCEPT ![t] = IF high - iv = remaining[c] THEN "poll" ELSE "exit"]
  /\ UNCHANGED <<cxt, myIndex, child, startIteration, maxIteration,
                 currentIteration, out, kids, cxtVars, chunksize, mainVars>>

\* The header finds no iteration left.
LeaveLoop(t) ==
  /\ pc[t] = "header"
  /\ currentIteration[t] >= maxIteration[t]
  /\ pc' = [pc EXCEPT ![t] = "exit"]
  /\ UNCHANGED <<cxt, myIndex, child, loopVars, redVars, cxtVars, tmemVars,
                 executed, mainVars>>

\* The latch of the outer chunked loop.
Latch(t) ==
  /\ currentIteration' = [currentIteration EXCEPT ![t] = @ + chunk[t]]
  /\ pc' = [pc EXCEPT ![t] = "header"]

\* heartbeat_polling returns false.
NoHeartbeat(t) ==
  /\ pc[t] = "poll"
  /\ Latch(t)
  /\ UNCHANGED <<cxt, myIndex, child, startIteration, maxIteration, chunk, low,
                 redVars, cxtVars, tmemVars, executed, mainVars>>

\* (the value stored before loop chunking replaces it / one iteration too far)
LastExecutedIsIV(t)   == currentIteration[t]
LastExecutedIsNext(t) == low[t]

\* The iteration the handler block stores: the last one executed.
LastExecuted(t) == low[t] - 1

\* What the handler finds in the context once the last iteration executed has
\* been stored: are there two iterations between it and the maximum?
Splittable(t) == MAX_ITER[cxt[t]] - LastExecuted(t) >= 2

\* A heartbeat with nothing left to split: the handler returns 0.
HeartbeatIgnored(t) ==
  /\ pc[t] = "poll"
  /\ ~Splittable(t)
  /\ START_ITER' = [START_ITER EXCEPT ![cxt[t]] = LastExecuted(t)]
  /\ Latch(t)
  /\ UNCHANGED <<cxt, myIndex, child, startIteration, maxIteration, chunk, low,
                 redVars, MAX_ITER, LIVE_OUT, tmemVars, executed, mainVars>>

\* (the halving forgotten)
MidNotHalved(start, max) == start + 1 + max

\* The splitting point of [first, max) where the iteration before first is
\* the one that has just been executed.
Mid(start, max) == (start + 1 + max) \div 2

\* (one context for both halves)
ContextShared(t, second) == cxt[t]

\* The second half's context, allocated by the handler.
SecondContext(t, second) == second

\* A heartbeat that promotes: the rest of the loop is split in two, c1 runs
\* the first half on this context, c2 the second half on one of its own, and
\* the task waits in fork2join.
Promote(t, c1, c2) ==
  LET c     == cxt[t]
      d     == SecondContext(t, c2)
      start == LastExecuted(t)
      mid   == Mid(start, MAX_ITER[c])
  IN
  /\ pc[t] = "poll"
  /\ Splittable(t)
  /\ pc[c1] = "idle" /\ pc[c2] = "idle" /\ c1 # c2
  /\ START_ITER' = [START_ITER EXCEPT ![c] = start + 1, ![d] = mid]
  /\ MAX_ITER' = [MAX_ITER EXCEPT ![c] = mid, ![d] = MAX_ITER[c]]
  /\ LIVE_OUT' = [LIVE_OUT EXCEPT ![d] = LIVE_OUT[c]]
  /\ cxt' = [cxt EXCEPT ![c1] = c, ![c2] = d]
  /\ myIndex' = [myIndex EXCEPT ![c1] = 0, ![c2] = 1]
  /\ child' = [child EXCEPT ![t] = [k \in 0..1 |-> IF k = 0 THEN c1 ELSE c2]]
  /\ pc' = [pc EXCEPT ![t] = "join", ![c1] = "entry", ![c2] = "entry"]
  /\ UNCHANGED <<loopVars, redVars, tmemVars, executed, mainVars>>

\* The exit block: store the value in the slot the caller gave this task and
\* put the caller's live-out array back into the context.
Return(t, value) ==
  /\ kids' = [kids EXCEPT ![out[t]][myIndex[t]] = value]
  /\ LIVE_OUT' = [LIVE_OUT EXCEPT ![cxt[t]] = out[t]]
  /\ pc' = [pc EXCEPT ![t] = "done"]
  /\ UNCHANGED <<cxt, myIndex, child, loopVars, priv, out, START_ITER, MAX_ITER,
                 tmemVars, executed, mainVars>>

\* Return code 0: no promotion happened in this task.
ReturnPrivate(t) == pc[t] = "exit" /\ Return(t, priv[t])

\* (only the first half awaited / only its value added)
FirstKidDone(t) == pc[child[t][0]] = "done"
FirstKidAdded(t) == Plus(priv[t], kids[t][0])

\* fork2join waits for both halves; both values are added to the private copy.
KidsDone(t) == \A k \in 0..1 : pc[child[t][k]] = "done"
Reduced(t)  == Plus(Plus(priv[t], kids[t][0]), kids[t][1])

\* fork2join is over, the handler returns 1 and the kids' values are reduced.
ReturnReduced(t) ==
  /\ pc[t] = "join"
  /\ KidsDone(t)
  /\ Return(t, Reduced(t))

\* The original function adds the value the variable had before the loop.
Finish ==
  /\ pc[Root] = "done"
  /\ ~returned
  /\ result' = Plus(InitialValue, kids[Main][0])
  /\ returned' = TRUE
  /\ UNCHANGED <<taskVars, loopVars, redVars, cxtVars, tmemVars, executed>>
-----------------------------------------------------------------------------
Step(t) ==
  \/ Enter(t) \/ RunChunk(t) \/ LeaveLoop(t)
  \/ NoHeartbeat(t) \/ HeartbeatIgnored(t)
  \/ \E c1, c2 \in Task : Promote(t, c1, c2)
  \/ ReturnPrivate(t) \/ ReturnReduced(t)

\* The program goes on after the loop.
Terminated == returned /\ UNCHANGED vars

Next == (\E t \in Task : Step(t)) \/ Finish \/ Terminated

Spec == Init /\ [][Next]_vars
-----------------------------------------------------------------------------
PC == {"idle", "entry", "header", "poll", "join", "exit", "done"}

\* Every register, context field and array slot holds a value of its type.
TypeOK ==
  /\ pc \in [Task -> PC]
  /\ cxt \in [Task -> Task]
  /\ myIndex \in [Task -> 0..1]
  /\ child \in [Task -> [0..1 -> Task]]
  /\ startIteration \in [Task -> Nat]
  /\ maxIteration \in [Task -> Nat]
  /\ currentIteration \in [Task -> Nat]
  /\ chunk \in [Task -> Nat]
  /\ low \in [Task -> Nat]
  /\ priv \in [Task -> Tally]
  /\ out \in [Task -> Task \cup {Main}]
  /\ kids \in [Task \cup {Main} -> [0..1 -> Tally]]
  /\ START_ITER \in [Task -> Nat]
  /\ MAX_ITER \in [Task -> Nat]
  /\ LIVE_OUT \in [Task -> Task \cup {Main}]
  /\ chunksize \in [Task -> Nat]
  /\ remaining \in [Task -> Nat]
  /\ executed \in Tally
  /\ result \in Tally
  /\ returned \in BOOLEAN
-----------------------------------------------------------------------------
\* No iteration runs twice, whichever tasks share the loop and wherever it was
\* split (promotion_handler: cxtsSecond starts at mid, the first half stops there).
AtMostOnce == \A i \in Iter : executed[i] <= 1

\* When the original function goes on, every iteration has run and the reduction
\* variable holds what the serial loop would have left in it: no task read a slot
\* of its kids' array that had not been written, none was added twice.
SerialResult ==
  returned => /\ \A i \in Iter : executed[i] = 1
              /\ result = Plus(InitialValue, Interval(Lo, Hi))

\* The original function goes on only after every task it caused to be forked has
\* ended (fork2join inside the handler), and finds its context as it left it.
AllJoined ==
  returned => /\ \A t \in Task : pc[t] \in {"idle", "done"}
              /\ LIVE_OUT[Root] = Main

\* A context and its task memory are used by one running task at a time: the two
\* halves of a split never share one, and the task that was split waits.
ContextExclusive ==
  \A t, u \in Task :
     t # u /\ {pc[t], pc[u]} \cap {"idle", "join", "done"} = {} => cxt[t] # cxt[u]

\* The iterations a task was given: still in its context until it has entered.
First(t) == IF pc[t] = "entry" THEN START_ITER[cxt[t]] ELSE startIteration[t]
Last(t)  == IF pc[t] = "entry" THEN MAX_ITER[cxt[t]] ELSE maxIteration[t]

\* What a waiting task has run and what its two kids were given make up the
\* iterations it was given, in order and without a gap; the second half is never
\* empty (the first half is when a single iteration is left).
SplitCovers ==
  \A t \in Task : pc[t] = "join" =>
    LET c1 == child[t][0]
        c2 == child[t][1]
    IN  /\ startIteration[t] < low[t]
        /\ First(c1) = low[t] /\ Last(c1) = First(c2) /\ Last(c2) = maxIteration[t]
        /\ First(c1) <= Last(c1) /\ First(c2) < Last(c2)

\* No task is ever given an iteration the loop does not have (mid and the
\* maxima that the handler writes stay within the bounds of the original loop).
InBounds ==
  \A t \in Task : pc[t] # "idle" => Lo <= First(t) /\ Last(t) <= Hi

\* The loop implements the parallel loop: iterations run in groups none of which
\* has run before, and control returns with the serial result when all have.
Abstract == INSTANCE ParallelLoop WITH
  Iterations <- Iter, Before <- InitialValue,
  After <- Plus(InitialValue, Interval(Lo, Hi)), runs <- executed

ImplementsParallelLoop == Abstract!Spec

-----------------------------------------------------------------------------
(***************************************************************************)
(* The inductive invariant.                                                *)
(***************************************************************************)
Live    == {t \in Task : pc[t] \in {"entry", "header", "poll", "join", "exit"}}
Running == {t \in Task : pc[t] \in {"header", "poll", "exit"}}
Waiting == {t \in Task : pc[t] = "join"}

\* The owner of the live-out array the task will write to.
Owner(t) == IF pc[t] = "entry" THEN LIVE_OUT[cxt[t]] ELSE out[t]

\* i is still to be run by t itself.
Pending(t, i) ==
  \/ pc[t] = "entry"  /\ START_ITER[cxt[t]] <= i /\ i < MAX_ITER[cxt[t]]
  \/ pc[t] = "header" /\ currentIteration[t] <= i /\ i < maxIteration[t]
  \/ pc[t] = "poll"   /\ low[t] <= i /\ i < maxIteration[t]

\* i has been run by t, or for t by the tasks it waited for.
Ran(t, i) ==
  /\ startIteration[t] <= i
  /\ \/ pc[t] = "header" /\ i < currentIteration[t]
     \/ pc[t] \in {"poll", "join"} /\ i < low[t]
     \/ pc[t] \in {"exit", "done"} /\ i < maxIteration[t]

\* Registers of the chunked loop and the private copy agree.
RegisterInv(t) ==
  /\ pc[t] = "header" =>
       /\ startIteration[t] <= currentIteration[t]
       /\ \/ currentIteration[t] = startIteration[t]
          \/ currentIteration[t] <= maxIteration[t]
       /\ priv[t] = Interval(startIteration[t], currentIteration[t])
  /\ pc[t] = "poll" =>
       /\ startIteration[t] <= currentIteration[t]
       /\ currentIteration[t] < low[t] /\ low[t] <= maxIteration[t]
       /\ currentIteration[t] + chunk[t] = low[t]
       /\ priv[t] = Interval(startIteration[t], low[t])
  /\ pc[t] = "exit" => priv[t] = Interval(startIteration[t], maxIteration[t])
  /\ pc[t] = "join" => priv[t] = Interval(startIteration[t], low[t])
  /\ pc[t] \in {"header", "poll"} =>
       /\ MAX_ITER[cxt[t]] = maxIteration[t]
       /\ remaining[cxt[t]] > 0 /\ chunksize[cxt[t]] > 0

\* The live-out pointer of a context tells which task is running on it.
ContextInv ==
  /\ \A t \in Running : LIVE_OUT[cxt[t]] = t
  /\ \A t, u \in Task : pc[t] = "idle" /\ pc[u] # "idle" => cxt[u] # t
  /\ \A t \in Task : pc[t] \in {"entry", "header", "poll"} =>
       \A u \in Task : u # t /\ pc[u] \in {"entry", "header", "poll", "exit"} => cxt[u] # cxt[t]

\* A live task is the kid its owner waits for.
TreeInv(t) ==
  IF t = Root THEN Owner(t) = Main /\ myIndex[t] = 0
  ELSE /\ Owner(t) \in Waiting
       /\ child[Owner(t)][myIndex[t]] = t

\* A waiting task has two kids which were given what it had left.
KidsInv(t) ==
  LET c1 == child[t][0]
      c2 == child[t][1]
  IN
  /\ c1 # c2 /\ c1 # Root /\ c2 # Root
  /\ cxt[c1] = cxt[t] /\ cxt[c2] # cxt[t]
  /\ startIteration[t] < low[t]
  /\ First(c1) = low[t] /\ Last(c1) = First(c2) /\ Last(c2) = maxIteration[t]
  /\ First(c1) <= Last(c1) /\ First(c2) < Last(c2)
  /\ pc[c1] = "done" => LIVE_OUT[cxt[t]] = t
  /\ \A k \in 0..1 :
       /\ pc[child[t][k]] # "idle"
       /\ child[t][k] \in Live => Owner(child[t][k]) = t /\ myIndex[child[t][k]] = k
       /\ pc[child[t][k]] = "done" =>
            kids[t][k] = Interval(First(child[t][k]), Last(child[t][k]))

\* Every iteration is run at most once, and is left to at most one task.
WorkInv ==
  \A i \in Iter :
    /\ executed[i] <= 1
    /\ \A t \in Task : Pending(t, i) => executed[i] = 0
    /\ \A t \in Task : Ran(t, i) => executed[i] = 1
    /\ \A t, u \in Task : t # u => ~(Pending(t, i) /\ Pending(u, i))

\* The root task was given the whole loop, and hands back its value.
MainInv ==
  /\ pc[Root] # "idle"
  /\ cxt[Root] = Root
  /\ First(Root) = Lo /\ Last(Root) = Hi
  /\ pc[Root] = "done" => kids[Main][0] = Interval(Lo, Hi) /\ LIVE_OUT[Root] = Main
  /\ returned => pc[Root] = "done" /\ result = Plus(InitialValue, Interval(Lo, Hi))

\* The invariant every step preserves (promotion_handler and the slice task).
IInv ==
  /\ TypeOK
  /\ \A t \in Task : RegisterInv(t)
  /\ ContextInv
  /\ \A t \in Live : TreeInv(t)
  /\ \A t \in Waiting : KidsInv(t)
  /\ WorkInv
  /\ MainInv
  /\ InBounds
=============================================================================
