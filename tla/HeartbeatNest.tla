---------------------------- MODULE HeartbeatNest ---------------------------
(***************************************************************************)
(* A nest of heartbeat loops, one loop per level 0..Leaf: the slice tasks  *)
(* that call each other from level to level, the promotion handler that a  *)
(* leaf slice calls and that splits the outermost loop with enough work    *)
(* left, and the leftover tasks that finish the loops below the one that   *)
(* was split.                                                              *)
(*                                                                         *)
(* A task is one branch of a fork2join (or the original call): it owns a   *)
(* stack of slice frames, one per level from its base to its top, and runs *)
(* on an area: a context (one entry per level) and a task memory.  A first *)
(* branch runs on its parent's area, a second one on an area of its own,   *)
(* which lives in the stack frame of the handler that forked it.           *)
(*                                                                         *)
(* The leaf loop reduces: its value is the bag of the iterations added.    *)
(***************************************************************************)
EXTENDS Integers, Sequences, FiniteSets, Bags, SequencesExt

CONSTANTS
  Leaf,          \* level of the innermost loop
  Bounds,        \* first and last + 1 iteration of the loop an iteration calls
  ChunkSizes,    \* what task_memory_reset may take for the chunk size
  MaxForks,      \* bound on the number of promotions
  Undef          \* what memory holds before it is written

\* The iterations of all levels, each named by its indices; an outer iteration
\* names the loop it calls, and <<>> names the outermost loop.
Outer      == DOMAIN Bounds \ {<<>>}
Calls(row) == {Append(row, i) : i \in Bounds[row].first .. Bounds[row].last - 1}
Iterations == UNION {Calls(row) : row \in DOMAIN Bounds}

ASSUME NestAssumption ==
  /\ Leaf \in Nat \ {0}
  /\ DOMAIN Bounds = {<<>>} \cup {c \in Iterations : Len(c) <= Leaf}
  /\ DOMAIN Bounds \subseteq Seq(Nat)
  /\ \A row \in DOMAIN Bounds :
       Bounds[row].first \in Nat /\ Bounds[row].last \in Nat
  /\ ChunkSizes \subseteq Nat \ {0}
  /\ MaxForks \in Nat
  /\ Undef \notin Int /\ Undef \notin DOMAIN Bounds

Level == 0..Leaf
Root  == <<>>

VARIABLES
  pc, rc,                   \* per task: control, return code at hand
  base, top, until,         \* per task: its outermost and innermost frame, and
                            \* the level a leftover task ends with
  area,                     \* per task: the area it runs on
  frame,                    \* per task and level: registers of the slice
  array,                    \* per slice frame: the array it allocated
  cxt,                      \* per area and level: the context
  tmem,                     \* per area: the task memory
  unpolled,                 \* per area: leaf iterations since the last poll
  started, tail             \* effects seen by the program

taskVars == <<pc, rc, base, top, until, area>>
vars == <<taskVars, frame, array, cxt, tmem, unpolled, started, tail>>
-----------------------------------------------------------------------------
Unwritten == [start |-> Undef, max |-> Undef, liveIn |-> Undef, liveOut |-> Undef]

\* An array a slice allocates: the live-ins it prepares for the loop it calls
\* and the slots its kids (or that loop) write their values to.
NewArray == [live |-> Undef, slots |-> [k \in 0..1 |-> Undef]]

\* A task memory before task_memory_reset.
NoMemory == [starting |-> Undef, chunksize |-> Undef, remaining |-> Undef]

\* f with y at x, which f may not have had.
With(f, x, y) == [z \in DOMAIN f \cup {x} |-> IF z = x THEN y ELSE f[z]]
Only(x, y)    == [z \in {x} |-> y]

\* The slice frames and arrays of the original function have level -1.
Init ==
  /\ pc = Only(Root, "start") /\ rc = Only(Root, 0)
  /\ base = Only(Root, 0) /\ top = Only(Root, 0) /\ until = Only(Root, 0)
  /\ area = Only(Root, Root)
  /\ frame = Only(Root, <<>>)
  /\ array = Only(<<Root, -1>>, [NewArray EXCEPT !.live = <<>>])
  /\ cxt = Only(Root, [l \in Level |-> IF l > 0 THEN Unwritten ELSE
              [start |-> Bounds[<<>>].first, max |-> Bounds[<<>>].last,
               liveIn |-> <<Root, -1>>, liveOut |-> <<Root, -1>>]])
  /\ tmem = Only(Root, NoMemory)
  /\ unpolled = Only(Root, 0)
  /\ started = [c \in Iterations |-> 0]
  /\ tail = [c \in Outer |-> <<>>]
-----------------------------------------------------------------------------
(***************************************************************************)
(* What the code computes at the points where a task may go wrong.         *)
(***************************************************************************)
Cxt(t) == cxt[area[t]]
Reg(t) == frame[t][top[t]]

\* The iteration the innermost frame is in.
Here(t) == Append(Reg(t).row, Reg(t).iv)

\* (the iteration that was suspended taken up again)
AfterSuspendedAgain(start) == start

\* A leftover task goes on after the iteration that was suspended.
AfterSuspended(start) == start + 1

\* (no carry over: a full allowance for every row)
AllowanceFull(m, iterations)     == m.chunksize
\* (a full chunk does not refill the allowance)
AllowanceNotReset(m, iterations) == m.remaining - iterations

\* What update_and_has_remaining_chunksize leaves of the allowance.
Allowance(m, iterations) ==
  IF iterations = m.remaining THEN m.chunksize ELSE m.remaining - iterations

\* (the levels above are thought to be this task's too)
StartingLevelIsRoot(t) == 0

\* The first level task_memory_reset tells the handler to look at.
StartingLevel(t) == until[t]

\* (promotion of the loop at hand, never of an outer one)
ReceivingLevelOnly(c, from) == {l \in {Leaf} : c[l].max - c[l].start >= 2}

\* The levels that have at least two iterations from the current one on.
Splittable(c, from) == {l \in from..Leaf : c[l].max - c[l].start >= 2}

\* (the levels counted from the wrong end)
ReturnCodeSum(level) == Leaf + level + 1

\* How many levels have to be left.
ReturnCode(level) == Leaf - level + 1

\* (the second half on the first one's context)
SecondAreaShared(t) == area[t]

\* The area the handler allocates for the second branch.
SecondArea(t) == Append(t, 1)

\* (the leftover's value dropped)
ReducedWithoutLeftover(t) ==
  LET kid == array[<<t, Leaf>>].slots IN
  IF rc[t] = 1 THEN Reg(t).priv (+) kid[0] (+) kid[1] ELSE Reg(t).priv

\* The value a leaf slice hands back: its private copy, and what the tasks
\* forked by its handler call have written to its array.
Reduced(t) ==
  LET kid == array[<<t, Leaf>>].slots IN
  CASE rc[t] < 1 -> Reg(t).priv
    [] rc[t] > 1 -> Reg(t).priv (+) kid[0]
    [] OTHER     -> Reg(t).priv (+) kid[0] (+) kid[1]

\* (no promotion, which slices report as -1, ends the leftover task as well)
EndsLeftoverNonZero(code) == code # 0

\* A return code tells a leftover task that the levels above were taken over.
EndsLeftover(code) == code > 0

\* The handler's return code tells the leaf to leave its loop.
LeavesLeaf(code) == code > 0

\* The slot of the array of the caller or parent this slice writes to.
MyIndex(t) == IF top[t] = base[t] /\ t # Root THEN Last(t) ELSE 0
-----------------------------------------------------------------------------
(***************************************************************************)
(* The steps of task t.                                                    *)
(***************************************************************************)
At(t, label) == t \in DOMAIN pc /\ pc[t] = label

\* heartbeat_start, or the branch of fork2join: task_memory_reset, and for a
\* leftover task the first of the slices it calls.
Start(t) ==
  LET leftover == base[t] > until[t] IN
  /\ At(t, "start")
  /\ \E size \in ChunkSizes :
       tmem' = [tmem EXCEPT ![area[t]] =
         [starting |-> StartingLevel(t), chunksize |-> size, remaining |-> size]]
  /\ unpolled' = [unpolled EXCEPT ![area[t]] = 0]
  /\ cxt' = IF leftover
            THEN [cxt EXCEPT ![area[t]][Leaf].start = AfterSuspended(@)] ELSE cxt
  /\ pc' = [pc EXCEPT ![t] = "enter"]
  /\ UNCHANGED <<rc, base, top, until, area, frame, array, started, tail>>

\* The context after the entry block: a leaf puts the array for its kids in the
\* place of the one its value goes to, another slice puts its array in the context
\* as the environment of the loop it calls.
Announced(t) ==
  LET l   == top[t]
      own == <<t, l>>
  IN  IF l = Leaf THEN [Cxt(t) EXCEPT ![l].liveOut = own]
      ELSE [Cxt(t) EXCEPT ![l + 1].liveIn = own, ![l + 1].liveOut = own]

\* Entry block of a slice: bounds and live-ins are loaded from the context.
Enter(t) ==
  LET l == top[t] IN
  /\ At(t, "enter")
  /\ frame' = [frame EXCEPT ![t] = With(@, l,
       [iv |-> Cxt(t)[l].start, max |-> Cxt(t)[l].max,
        row |-> array[Cxt(t)[l].liveIn].live, out |-> Cxt(t)[l].liveOut,
        low |-> 0, chunk |-> 0, priv |-> EmptyBag])]
  /\ array' = With(array, <<t, l>>, NewArray)
  /\ cxt' = [cxt EXCEPT ![area[t]] = Announced(t)]
  /\ pc' = [pc EXCEPT ![t] = "header"]
  /\ UNCHANGED <<rc, base, top, until, area, tmem, unpolled, started, tail>>

\* The loop is over: return code 0.
LeaveLoop(t) ==
  /\ At(t, "header")
  /\ Reg(t).iv >= Reg(t).max
  /\ pc' = [pc EXCEPT ![t] = "exit"]
  /\ rc' = [rc EXCEPT ![t] = 0]
  /\ UNCHANGED <<base, top, until, area, frame, array, cxt, tmem, unpolled, started, tail>>

\* An iteration of a slice that is not a leaf: what comes before the nested loop,
\* then the live-ins, its own position, the bounds of the nested loop, the call.
CallNested(t) ==
  LET l == top[t] IN
  /\ At(t, "header")
  /\ l < Leaf
  /\ Reg(t).iv < Reg(t).max
  /\ started' = [started EXCEPT ![Here(t)] = @ + 1]
  /\ array' = [array EXCEPT ![<<t, l>>].live = Here(t)]
  /\ cxt' = [cxt EXCEPT ![area[t]][l].start = Reg(t).iv,
                        ![area[t]][l + 1].start = Bounds[Here(t)].first,
                        ![area[t]][l + 1].max = Bounds[Here(t)].last]
  /\ top' = [top EXCEPT ![t] = l + 1]
  /\ pc' = [pc EXCEPT ![t] = "enter"]
  /\ UNCHANGED <<rc, base, until, area, frame, tmem, unpolled, tail>>

\* A chunk of the leaf: the row may end before the chunk size left is used up.
RunChunk(t) ==
  LET m    == tmem[area[t]]
      r    == Reg(t)
      high == IF r.iv + m.remaining < r.max THEN r.iv + m.remaining ELSE r.max
      done == {Append(r.row, i) : i \in r.iv .. high - 1}
  IN
  /\ At(t, "header")
  /\ top[t] = Leaf
  /\ r.iv < r.max
  /\ started' = [c \in Iterations |-> started[c] + (IF c \in done THEN 1 ELSE 0)]
  /\ frame' = [frame EXCEPT ![t][Leaf] =
       [@ EXCEPT !.low = high, !.chunk = m.remaining, !.priv = r.priv (+) SetToBag(done)]]
  /\ tmem' = [tmem EXCEPT ![area[t]].remaining = Allowance(m, high - r.iv)]
  /\ unpolled' = [unpolled EXCEPT ![area[t]] = @ + high - r.iv]
  /\ pc' = [pc EXCEPT ![t] = IF high - r.iv = m.remaining THEN "poll" ELSE "exit"]
  /\ rc' = [rc EXCEPT ![t] = 0]
  /\ UNCHANGED <<base, top, until, area, array, cxt, tail>>

\* The latch of the outer chunked loop.
Latch(t) ==
  /\ frame' = [frame EXCEPT ![t][Leaf].iv = @ + Reg(t).chunk]
  /\ unpolled' = [unpolled EXCEPT ![area[t]] = 0]
  /\ pc' = [pc EXCEPT ![t] = "header"]

\* heartbeat_polling returns false.
NoHeartbeat(t) ==
  /\ At(t, "poll")
  /\ Latch(t)
  /\ UNCHANGED <<rc, base, top, until, area, array, cxt, tmem, started, tail>>

\* The context as the handler finds it: the leaf has stored the last iteration it
\* has run, every outer slice the one it is in.
Polled(t) == [Cxt(t) EXCEPT ![Leaf].start = Reg(t).low - 1]

\* A heartbeat with nothing left to split at any level.
HeartbeatIgnored(t) ==
  /\ At(t, "poll")
  /\ Splittable(Polled(t), tmem[area[t]].starting) = {}
  /\ cxt' = [cxt EXCEPT ![area[t]] = Polled(t)]
  /\ Latch(t)
  /\ UNCHANGED <<rc, base, top, until, area, array, tmem, started, tail>>

\* A heartbeat that splits the loop at level s.  The second branch takes the upper
\* half of what is left of it, in an area where only level s is written; the first
\* takes everything else the task had left: the rest of the leaf and, when s is
\* not the leaf, of the loops above it up to s, as a leftover task.
Fork(t, s) ==
  LET c      == Polled(t)
      mid    == (c[s].start + 1 + c[s].max) \div 2
      first  == Append(t, 0)
      second == Append(t, 1)
      extra  == SecondArea(t)
      Spawn(f, a, b) == With(With(f, second, b), first, a)
      upper  == [l \in Level |-> IF l = s THEN [c[s] EXCEPT !.start = mid] ELSE Unwritten]
      lower  == [c EXCEPT ![s].max = mid, ![Leaf].start = IF s = Leaf THEN @ + 1 ELSE @]
  IN
  /\ cxt' = With([cxt EXCEPT ![area[t]] = lower], extra, upper)
  /\ tmem' = With(tmem, extra, NoMemory)
  /\ unpolled' = With(unpolled, extra, 0)
  /\ area'  = Spawn(area, area[t], extra)
  /\ base'  = Spawn(base, Leaf, s)
  /\ top'   = Spawn(top, Leaf, s)
  /\ until' = Spawn(until, s, s)
  /\ frame' = Spawn(frame, <<>>, <<>>)
  /\ rc'    = Spawn([rc EXCEPT ![t] = ReturnCode(s)], 0, 0)
  /\ pc'    = Spawn([pc EXCEPT ![t] = "join"], "start", "start")
  /\ UNCHANGED <<array, started, tail>>

Promote(t) ==
  /\ At(t, "poll")
  /\ Cardinality(DOMAIN pc) < 2 * MaxForks
  /\ \E s \in Splittable(Polled(t), tmem[area[t]].starting) :
       /\ \A l \in Splittable(Polled(t), tmem[area[t]].starting) : s <= l
       /\ Fork(t, s)

\* Both branches are done: the handler returns, and with it go the context and the
\* task memory of the second branch; a positive return code leaves the leaf loop.
Join(t) ==
  LET Drop(f) == [a \in DOMAIN f \ {Append(t, 1)} |-> f[a]] IN
  /\ At(t, "join")
  /\ pc[Append(t, 0)] = "done" /\ pc[Append(t, 1)] = "done"
  /\ cxt' = Drop(cxt) /\ tmem' = Drop(tmem)
  /\ unpolled' = [Drop(unpolled) EXCEPT ![area[t]] = 0]
  /\ IF LeavesLeaf(rc[t])
     THEN pc' = [pc EXCEPT ![t] = "exit"] /\ UNCHANGED frame
     ELSE /\ pc' = [pc EXCEPT ![t] = "header"]
          /\ frame' = [frame EXCEPT ![t][Leaf].iv = @ + Reg(t).chunk]
  /\ UNCHANGED <<rc, base, top, until, area, array, started, tail>>

\* The exit block of a slice.  A leaf stores its value and restores the live-out
\* array of the context; the frame and its array are gone.
Exit(t) ==
  LET l   == top[t]
      own == <<t, l>>
      put == IF l = Leaf
             THEN [array EXCEPT ![Reg(t).out].slots[MyIndex(t)] = Reduced(t)] ELSE array
  IN
  /\ At(t, "exit")
  /\ array' = [a \in DOMAIN array \ {own} |-> put[a]]
  /\ frame' = [frame EXCEPT ![t] = [k \in DOMAIN @ \ {l} |-> @[k]]]
  /\ UNCHANGED <<until, area, tmem, unpolled, started, tail>>

\* The context after the exit block.
Restored(t) ==
  IF top[t] = Leaf THEN [Cxt(t) EXCEPT ![Leaf].liveOut = Reg(t).out] ELSE Cxt(t)

\* The caller of the slice is the slice of the level above.
ReturnToCaller(t) ==
  /\ Exit(t)
  /\ top[t] > base[t]
  /\ cxt' = [cxt EXCEPT ![area[t]] = Restored(t)]
  /\ top' = [top EXCEPT ![t] = @ - 1]
  /\ rc' = [rc EXCEPT ![t] = @ - 1]
  /\ pc' = [pc EXCEPT ![t] = "back"]
  /\ UNCHANGED base

\* The caller is a leftover task, which goes on with the level above.
ReturnToLeftover(t) ==
  LET up == base[t] - 1 IN
  /\ Exit(t)
  /\ top[t] = base[t] /\ base[t] > until[t]
  /\ ~EndsLeftover(rc[t] - 1)
  /\ cxt' = [cxt EXCEPT ![area[t]] =
               [Restored(t) EXCEPT ![up].start = AfterSuspended(@)]]
  /\ base' = [base EXCEPT ![t] = up]
  /\ top' = [top EXCEPT ![t] = up]
  /\ pc' = [pc EXCEPT ![t] = "enter"]
  /\ UNCHANGED rc

\* The last slice of the task: it was the level split, or the return code says
\* that the levels above have been taken over by the tasks that ended meanwhile.
ReturnFromTask(t) ==
  /\ Exit(t)
  /\ top[t] = base[t]
  /\ base[t] > until[t] => EndsLeftover(rc[t] - 1)
  /\ cxt' = [cxt EXCEPT ![area[t]] = Restored(t)]
  /\ pc' = [pc EXCEPT ![t] = "done"]
  /\ UNCHANGED <<base, top, rc>>

\* Back in the slice that called the nested loop: its tail, given the value of the
\* leaf loop, then on to the next iteration unless the return code is positive.
Back(t) ==
  LET l     == top[t]
      value == IF l + 1 = Leaf THEN array[<<t, l>>].slots[0] ELSE EmptyBag
  IN
  /\ At(t, "back")
  /\ tail' = [tail EXCEPT ![Here(t)] = Append(@, value)]
  /\ IF rc[t] > 0
     THEN pc' = [pc EXCEPT ![t] = "exit"] /\ UNCHANGED frame
     ELSE /\ pc' = [pc EXCEPT ![t] = "header"]
          /\ frame' = [frame EXCEPT ![t][l].iv = @ + 1]
  /\ UNCHANGED <<rc, base, top, until, area, array, cxt, tmem, unpolled, started>>
-----------------------------------------------------------------------------
Step(t) ==
  \/ Start(t) \/ Enter(t) \/ LeaveLoop(t) \/ CallNested(t) \/ RunChunk(t)
  \/ NoHeartbeat(t) \/ HeartbeatIgnored(t) \/ Promote(t) \/ Join(t)
  \/ ReturnToCaller(t) \/ ReturnToLeftover(t) \/ ReturnFromTask(t) \/ Back(t)

\* The original function goes on after the nest.
Terminated == pc[Root] = "done" /\ UNCHANGED vars

Next == (\E t \in DOMAIN pc : Step(t)) \/ Terminated

\* While a task can take a step, some worker goes on with some task.
Fairness == WF_vars(\E t \in DOMAIN pc : Step(t))

Spec == Init /\ [][Next]_vars

FairSpec == Spec /\ Fairness
-----------------------------------------------------------------------------
LeafRow(row) == {c \in Iterations : Len(c) = Leaf + 1 /\ IsPrefix(row, c)}

Labels == {"start", "enter", "header", "poll", "join", "exit", "back", "done"}

\* A task has frames from its base to its top, within the levels that there are;
\* its return code counts levels, and its memory says where it started.
TaskOK(t) ==
  /\ pc[t] \in Labels
  /\ rc[t] \in -1 .. Leaf + 1
  /\ pc[t] \in {"join", "exit"} => rc[t] >= 0
  /\ until[t] \in Level /\ base[t] \in until[t] .. Leaf /\ top[t] \in base[t] .. Leaf
  /\ pc[t] \notin {"start", "done"} => tmem[area[t]].starting \in Level
  /\ DOMAIN frame[t] =
       CASE pc[t] = "done"               -> {}
         [] pc[t] \in {"start", "enter"} -> base[t] .. top[t] - 1
         [] OTHER                        -> base[t] .. top[t]

\* Tasks are paths of branches, and arrays belong to live frames.
TypeOK ==
  /\ DOMAIN pc \subseteq Seq({0, 1})
  /\ DOMAIN rc = DOMAIN pc /\ DOMAIN area = DOMAIN pc /\ DOMAIN frame = DOMAIN pc
  /\ DOMAIN base = DOMAIN pc /\ DOMAIN top = DOMAIN pc /\ DOMAIN until = DOMAIN pc
  /\ \A a \in DOMAIN tmem : DOMAIN tmem[a] = DOMAIN NoMemory
  /\ \A t \in DOMAIN pc : TaskOK(t)
  /\ DOMAIN array = {<<Root, -1>>} \cup
                    UNION {{<<t, l>> : l \in DOMAIN frame[t]} : t \in DOMAIN pc}
  /\ started \in [Iterations -> Nat]

\* Branches belong to a task that waits for them or has seen them end.
KidsOf(t) == {Append(t, 0), Append(t, 1)}

Forked(t) == Append(t, 0) \in DOMAIN pc

FamiliesOK ==
  /\ \A t \in DOMAIN pc :
       t = Root \/ \E p \in DOMAIN pc : t \in KidsOf(p) /\ KidsOf(p) \subseteq DOMAIN pc
  /\ \A t \in DOMAIN pc :
       /\ pc[t] = "join" => KidsOf(t) \subseteq DOMAIN pc
       /\ pc[t] # "join" => \A k \in KidsOf(t) \cap DOMAIN pc : pc[k] = "done"

\* An area is named for the task it was made for, the shortest that runs on it.
\* It is handed from a task to its first branch, and back when that is done; it
\* is there as long as some task that runs on it is not done.
AreasOK ==
  /\ DOMAIN tmem = DOMAIN cxt /\ DOMAIN unpolled = DOMAIN cxt
  /\ \A t \in DOMAIN pc :
       /\ area[t] \in DOMAIN pc /\ area[area[t]] = area[t] /\ Len(area[t]) <= Len(t)
       /\ t = Root => area[t] = t
       /\ Append(t, 0) \in DOMAIN pc => area[Append(t, 0)] = area[t]
       /\ Append(t, 1) \in DOMAIN pc => area[Append(t, 1)] = Append(t, 1)
       /\ pc[t] # "done" => area[t] \in DOMAIN cxt
  /\ \A t, u \in DOMAIN pc : area[t] = area[u] =>
       /\ Len(t) = Len(u) => t = u
       /\ Len(t) < Len(u) => Forked(t) /\ (pc[t] # "join" => pc[u] = "done")

ControlInv == TypeOK /\ FamiliesOK /\ AreasOK

\* The parts of what is in memory.
RecordsOK ==
  /\ \A a \in DOMAIN cxt : /\ DOMAIN cxt[a] = Level
                           /\ \A l \in Level : DOMAIN cxt[a][l] = DOMAIN Unwritten
  /\ \A a \in DOMAIN tmem : tmem[a].chunksize \in ChunkSizes \cup {Undef}
  /\ \A q \in DOMAIN array : DOMAIN array[q] = DOMAIN NewArray
  /\ array[<<Root, -1>>].live = <<>>
  /\ \A t \in DOMAIN pc : \A l \in DOMAIN frame[t] :
       DOMAIN frame[t][l] = {"iv", "max", "row", "out", "low", "chunk", "priv"}

\* The tasks a branch comes from wait for it.
Ancestors(t) == {SubSeq(t, 1, n) : n \in 0 .. Len(t) - 1}

AncestorsWait ==
  \A t \in DOMAIN pc : pc[t] # "done" =>
    \A p \in Ancestors(t) : p \in DOMAIN pc /\ pc[p] = "join"

\* The level from which on a task has given its work to branches.
Given(t) == IF Forked(t) THEN until[Append(t, 0)] ELSE Leaf + 1

\* Who takes over an area stays within the levels that were given to it.
GivenOK ==
  /\ \A t \in DOMAIN pc : until[t] <= Given(t)
  /\ \A t, u \in DOMAIN pc :
       area[t] = area[u] /\ Len(t) < Len(u) => Given(t) <= until[u]

\* An array of an ancestor, or of one of the levels ls of the task itself.
Owned(t, ls, q) ==
  /\ q \in DOMAIN array
  /\ q = <<Root, -1>> \/ q[1] \in Ancestors(t) \/ (q[1] = t /\ q[2] \in ls)

\* What the context says of level l is what the program has come to: a part of the
\* loop that belongs to the iteration its live-ins name.
ReadableAt(t, l) ==
  LET c   == Cxt(t)[l]
      row == array[c.liveIn].live
  IN  /\ c.start \in Nat /\ c.max \in Nat
      /\ Owned(t, {l - 1}, c.liveIn)
      /\ Owned(t, {l - 1} \cup ({l} \cap {Leaf}), c.liveOut)
      /\ row \in DOMAIN Bounds /\ Len(row) = l
      /\ Bounds[row].first <= c.start /\ c.max <= Bounds[row].last

\* A slice frame has the maximum and the live-ins of the context.
FrameAt(t, l) ==
  /\ frame[t][l].max = Cxt(t)[l].max
  /\ frame[t][l].row = array[Cxt(t)[l].liveIn].live

\* A level the task is in the middle of: it has called the nested loop, or took over
\* from one who has.  After a promotion it is in the last iteration.
SuspendedAt(t, l) ==
  LET c == Cxt(t)[l] IN
  /\ ReadableAt(t, l)
  /\ c.start < c.max
  /\ Forked(t) => c.start + 1 = c.max
  /\ l >= base[t] => FrameAt(t, l) /\ frame[t][l].iv = c.start

\* The arrays of a slice are the live-ins and live-outs of the loop it calls.
LinkedAt(t, l) ==
  /\ Cxt(t)[l + 1].liveIn = <<t, l>>
  /\ IF l + 1 = Leaf /\ Leaf \in DOMAIN frame[t]
     THEN frame[t][Leaf].out = <<t, l>> ELSE Cxt(t)[l + 1].liveOut = <<t, l>>

\* The levels a task is in the middle of, as far as they are not given to branches.
Suspended(t) == {l \in until[t] .. top[t] : l < Given(t) /\ (l = top[t] => pc[t] = "back")}

LevelsOK(t) ==
  /\ \A l \in Suspended(t) : SuspendedAt(t, l)
  /\ ~Forked(t) => \A l \in DOMAIN frame[t] : l < Leaf => LinkedAt(t, l)
  /\ \A l \in 0 .. until[t] - 1 :
       LET c == Cxt(t)[l] IN c.start # Undef => c.start \in Int /\ c.max \in Int /\ c.max - c.start <= 1

\* The level a task is in.  Once promoted a task finds no iteration any more.
TopOK(t) ==
  LET l == top[t]
      r == Reg(t)
  IN
  /\ pc[t] \in {"start", "enter", "header", "poll"} => l < Given(t) /\ ReadableAt(t, l)
  /\ pc[t] \in {"start", "poll"} => ~Forked(t)
  /\ pc[t] = "start" /\ base[t] > until[t] => l = Leaf
  /\ pc[t] = "enter" /\ Forked(t) => Cxt(t)[l].start >= Cxt(t)[l].max
  /\ pc[t] \in {"header", "poll"} =>
       /\ FrameAt(t, l) /\ r.iv \in Nat /\ Bounds[r.row].first <= r.iv
       /\ Forked(t) => r.iv >= r.max
  /\ pc[t] = "poll" =>
       l = Leaf /\ r.chunk \in Nat \ {0} /\ r.low = r.iv + r.chunk /\ r.low <= r.max

\* The return code is the number of levels that were given away.
CodeOK(t) ==
  LET given == top[t] - Given(t) + 1 IN
  /\ pc[t] = "join" => top[t] = Leaf /\ Forked(t) /\ rc[t] = given
  /\ pc[t] = "exit" => rc[t] = IF given > 0 THEN given ELSE 0
  /\ pc[t] = "back" => IF given > 0 THEN rc[t] = given ELSE rc[t] <= 0

\* Starting level and chunk allowance, until the memory is handed to a branch.
MemoryOK(t) ==
  LET m == tmem[area[t]] IN
  IF Forked(t)
  THEN pc[t] # "join" => unpolled[area[t]] = 0
  ELSE pc[t] # "start" =>
         /\ m.starting = until[t]
         /\ m.chunksize \in Nat /\ m.remaining \in 1 .. m.chunksize
         /\ IF pc[t] = "poll"
            THEN m.remaining = m.chunksize /\ unpolled[area[t]] = m.chunksize
            ELSE unpolled[area[t]] = m.chunksize - m.remaining

TaskInv(t) == LevelsOK(t) /\ TopOK(t) /\ CodeOK(t) /\ MemoryOK(t)

MemoryInv ==
  /\ ControlInv
  /\ RecordsOK /\ AncestorsWait /\ GivenOK
  /\ \A t \in DOMAIN pc : pc[t] # "done" => TaskInv(t)

WholeRow(c) == IF Len(c) = Leaf THEN SetToBag(LeafRow(c)) ELSE EmptyBag

\* The row whose iterations level l of a task's context is about.
RowOf(t, l) == array[Cxt(t)[l].liveIn].live

\* The iteration of that row a task goes on with.
Ahead(t, l) ==
  CASE l < top[t] \/ pc[t] = "back"              -> Cxt(t)[l].start + 1
    [] l = top[t] /\ pc[t] = "start"             ->
         IF base[t] > until[t] THEN AfterSuspended(Cxt(t)[l].start) ELSE Cxt(t)[l].start
    [] l = top[t] /\ pc[t] = "header"            -> frame[t][l].iv
    [] l = top[t] /\ pc[t] = "poll"              -> frame[t][l].low
    [] OTHER                                     -> Cxt(t)[l].start

\* Task t is the one who is to run iteration i of a row.
Holds(t, row, i) ==
  LET l == Len(row) IN
  /\ pc[t] # "done" /\ ~Forked(t)
  /\ l \in until[t] .. top[t] /\ (l = top[t] => pc[t] # "exit")
  /\ row = RowOf(t, l)
  /\ Ahead(t, l) <= i /\ i < Cxt(t)[l].max

\* The iterations a task is in: they have started, their tail is still to come.
EnteredAt(t, l) == Append(frame[t][l].row, frame[t][l].iv)

EnteredLevels(t) ==
  {l \in DOMAIN frame[t] : l < Leaf /\ (l < top[t] \/ pc[t] = "back")}

Entered(t) == {EnteredAt(t, l) : l \in EnteredLevels(t)}

Under(t, row) == row = <<>> \/ \E p \in Ancestors(t) \cup {t} : row \in Entered(p)

\* What has not started has one task to run it, or is inside of something that has
\* not started; what has started and not ended is what tasks are in the middle of.
WorkOK ==
  /\ DOMAIN tail = Outer
  /\ \A c \in Iterations : started[c] \in {0, 1}
  /\ \A row \in DOMAIN Bounds : \A i \in Bounds[row].first .. Bounds[row].last - 1 :
       IF started[Append(row, i)] = 0
       THEN \/ \E t \in DOMAIN pc : Holds(t, row, i)
            \/ row # <<>> /\ started[row] = 0
       ELSE row # <<>> => started[row] = 1
  /\ \A t \in DOMAIN pc : \A row \in DOMAIN Bounds :
       \A i \in Bounds[row].first .. Bounds[row].last - 1 : Holds(t, row, i) =>
         /\ started[Append(row, i)] = 0
         /\ Under(t, row)
         /\ \A u \in DOMAIN pc : Holds(u, row, i) => u = t

\* An iteration a task is in belongs to the loop it was called from, and to no one
\* else; its live-ins are prepared for the loop it calls.
EnteredOK(t, l) ==
  LET row == frame[t][l].row
      c   == EnteredAt(t, l)
  IN  /\ row \in DOMAIN Bounds /\ Len(row) = l
      /\ c \in Outer /\ started[c] = 1 /\ tail[c] = <<>>
      /\ array[<<t, l>>].live = c
      /\ Under(t, row)
      /\ \A u \in DOMAIN pc : c \in Entered(u) => u = t

TailsOK ==
  /\ \A t \in DOMAIN pc : pc[t] = "back" => top[t] < Leaf
  /\ \A t \in DOMAIN pc : \A l \in EnteredLevels(t) : EnteredOK(t, l)
  /\ \A c \in Outer : started[c] = 1 /\ tail[c] = <<>> =>
       \E t \in DOMAIN pc : c \in Entered(t)
  /\ \A c \in Outer : tail[c] # <<>> => started[c] = 1

\* The value of the iterations from..to - 1 of a row.
ValueOf(row, from, to) == SetToBag({Append(row, i) : i \in from .. to - 1})

\* The slice a task has at the leaf will give the array it was told to the value of
\* the iterations from .. to - 1.
Delivers(t, to, row, first, last) ==
  LET c == Cxt(t)[Leaf]
      r == frame[t][Leaf]
  IN
  CASE pc[t] \in {"start", "enter"} ->
         c.liveOut = to /\ RowOf(t, Leaf) = row /\ Ahead(t, Leaf) = first /\ c.max = last
    [] pc[t] \in {"header", "poll", "join"} ->
         LET next == IF pc[t] = "header" THEN r.iv ELSE r.low IN
         /\ r.out = to /\ r.row = row /\ r.max = last
         /\ r.priv = ValueOf(row, first, next)
         /\ first \in 0 .. next /\ (next <= last \/ next = first)
    [] OTHER -> r.out = to /\ Reduced(t) = ValueOf(row, first, last)

\* A branch delivers to the leaf slice of its parent, before it goes on to the levels
\* above if it is a leftover task.
BranchDelivers(t, k, row, first, last) ==
  LET b == Append(t, k) IN
  IF pc[b] = "done" \/ base[b] < Leaf
  THEN array[<<t, Leaf>>].slots[k] = ValueOf(row, first, last)
  ELSE Delivers(b, <<t, Leaf>>, row, first, last)

\* The leaf slice that a slice of the task has called.
CallOK(t) ==
  LET c == EnteredAt(t, Leaf - 1) IN
  pc[t] # "done" /\ base[t] < Leaf =>
    /\ top[t] = Leaf => Delivers(t, <<t, Leaf - 1>>, c, Bounds[c].first, Bounds[c].last)
    /\ pc[t] = "back" /\ top[t] = Leaf - 1 =>
         array[<<t, Leaf - 1>>].slots[0] = ValueOf(c, Bounds[c].first, Bounds[c].last)

\* The branches a leaf slice waits for.
BranchesOK(t) ==
  LET r == frame[t][Leaf] IN
  pc[t] = "join" =>
    /\ r.row \in DOMAIN Bounds
    /\ r.low \in Nat /\ r.max \in Nat /\ r.low <= r.max
    /\ IF Given(t) = Leaf
       THEN \E mid \in r.low .. r.max :
              BranchDelivers(t, 0, r.row, r.low, mid) /\ BranchDelivers(t, 1, r.row, mid, r.max)
       ELSE BranchDelivers(t, 0, r.row, r.low, r.max)

\* What the handler finds in the context is the array for the branches; the original
\* call has all levels, a second branch the level that was split and no other.
ForkOK(t) ==
  /\ pc[t] \in {"header", "poll"} /\ top[t] = Leaf => Cxt(t)[Leaf].liveOut = <<t, Leaf>>
  /\ t = Root => base[t] = 0
  /\ Forked(t) => until[Append(t, 1)] = Given(t) /\ base[Append(t, 1)] = Given(t)

ValuesOK ==
  /\ \A q \in DOMAIN array : DOMAIN array[q].slots = 0..1
  /\ \A t \in DOMAIN pc : CallOK(t) /\ BranchesOK(t) /\ ForkOK(t)
  /\ \A c \in Outer : tail[c] # <<>> => tail[c] = <<WholeRow(c)>>

IInv == MemoryInv /\ WorkOK /\ TailsOK /\ ValuesOK

\* When the original function goes on nothing is lost: a leftover task that ended
\* early, a slice that was left with a return code, had nothing else to run.
NothingLost ==
  pc[Root] = "done" =>
    /\ \A c \in Iterations : started[c] = 1
    /\ \A c \in Outer : tail[c] # <<>>
    /\ \A t \in DOMAIN pc : pc[t] = "done"

\* Whatever the handler or a slice reads in its context has been written, and the
\* arrays it points to are alive: a second branch never looks at the levels above
\* the one it was given, no environment pointer outlives its frame.  No difference
\* of the handler wraps around.
ContextReadable ==
  \A t \in DOMAIN pc :
    /\ pc[t] = "enter" =>
         LET c == Cxt(t)[top[t]] IN
         /\ c.start # Undef /\ c.max # Undef
         /\ c.liveIn \in DOMAIN array
         /\ array[c.liveIn].live # Undef
         /\ c.liveOut \in DOMAIN array
    /\ pc[t] = "poll" =>
         \A l \in tmem[area[t]].starting .. Leaf :
           /\ Polled(t)[l].start # Undef /\ Polled(t)[l].max # Undef
           /\ Polled(t)[l].start <= Polled(t)[l].max

\* The handler splits the outermost loop of the task that has work: when it has
\* split level s, no iteration of the loops above is left to this task, neither
\* in a suspended slice nor in a level its leftover task has still to come to.
OutermostFirst ==
  \A t \in DOMAIN pc : pc[t] = "join" =>
    \A l \in 0 .. Leaf - rc[t] :
      Cxt(t)[l].start # Undef => Cxt(t)[l].max - Cxt(t)[l].start <= 1

\* A task polls after every chunkful of leaf iterations, however many rows it takes
\* to fill one: the allowance carries over from row to row.
PollsEveryChunk ==
  \A t \in DOMAIN pc :
    /\ pc[t] = "poll" => unpolled[area[t]] = tmem[area[t]].chunksize
    /\ pc[t] \in {"enter", "header", "exit", "back"} /\ tmem[area[t]].chunksize # Undef
         => unpolled[area[t]] <= tmem[area[t]].chunksize

\* An area is used by one task at a time.
AreaExclusive ==
  \A t, u \in DOMAIN pc :
    t # u /\ {pc[t], pc[u]} \cap {"join", "done"} = {} => area[t] # area[u]

\* A task that was promoted has nothing left but its tails: it never forks again,
\* on whichever level its slices go on.
ForksOnce ==
  [][\A t \in DOMAIN pc : pc[t] # "join" /\ pc'[t] = "join"
       => Append(t, 0) \notin DOMAIN pc]_vars

\* The nest implements the parallel nest.
Abstract == INSTANCE ParallelNest WITH
  Whole <- WholeRow, returned <- (pc[Root] = "done")

ImplementsParallelNest == Abstract!Spec

\* Whatever the heartbeats, the original function gets control back.
Termination == <>(pc[Root] = "done")
=============================================================================
