---------------------------- MODULE AdaptiveChunk --------------------------
(***************************************************************************)
(* Software polling with adaptive chunk size control.                      *)
(*                                                                         *)
(* Three kinds of memory meet here.  The timestamp, the sliding window and *)
(* the chunk size belong to a worker thread; the polling count and the     *)
(* chunk size in use belong to a task memory; and tasks move between       *)
(* workers at every promotion.  What ties them together is that a task     *)
(* resets its task memory on the worker it begins on, and neither polls    *)
(* nor handles a heartbeat again once it has forked.                       *)
(*                                                                         *)
(* What is split and how is the subject of HeartbeatNest; here the handler *)
(* finds something to split or not.  Task memories are named after the     *)
(* task that declares them; a first branch uses that of the task that      *)
(* forked it.                                                              *)
(***************************************************************************)
EXTENDS Integers, Sequences

CONSTANTS
  Worker,             \* worker threads of the runtime
  Task, Root,         \* names of tasks; their number bounds the promotions
  HeartbeatInterval,  \* heartbeat_interval, in units of the clock
  Minimal,            \* TRUE when built with ACC_MINIMAL, FALSE with ACC_MAXIMAL
  DefaultWindow, DefaultRatio,  \* sliding_window_size, target_polling_ratio as compiled
  Window, Ratio,      \* the same as set by the environment variables
  InitialChunk,       \* CHUNKSIZE
  Int64Max,           \* INT64_MAX, more than any polling count
  MaxClock,           \* bound: how long the clock runs
  MaxPolls,           \* bound: polls of a task
  MaxStarts           \* bound: heartbeat loops the program runs

\* Dividing a double by these is exact, so that truncation gives the floor.
PowersOfTwo == {1, 2, 4, 8, 16, 32, 64}

ASSUME ChunkAssumption ==
  /\ Root \in Task
  /\ HeartbeatInterval \in Nat \ {0}
  /\ Minimal \in BOOLEAN
  /\ DefaultWindow \in Nat \ {0} /\ Window \in Nat \ {0}
  /\ DefaultRatio \in PowersOfTwo /\ Ratio \in PowersOfTwo
  /\ InitialChunk \in Nat \ {0}
  /\ MaxClock \in Nat /\ MaxPolls \in Nat /\ MaxStarts \in Nat
  /\ Int64Max \in Nat /\ MaxPolls < Int64Max

VARIABLES
  clock,                                   \* the time stamp counter
  timestamp, heartbeat_count, polling_count, chunksize,
  sliding_window_size, target_polling_ratio,            \* per worker
  tmemPolls, tmemChunk,                    \* per task memory
  pc, on, memory, child,                   \* per task
  starts,                                  \* loops the program has begun
  bornAt, beganAt, polls, samples          \* history, for the properties only

threadVars  == <<timestamp, heartbeat_count, polling_count, chunksize>>
configVars  == <<sliding_window_size, target_polling_ratio>>
tmemVars    == <<tmemPolls, tmemChunk>>
taskVars    == <<pc, on, memory, child>>
historyVars == <<bornAt, beganAt, polls, samples>>
vars == <<clock, threadVars, configVars, tmemVars, taskVars, starts, historyVars>>
-----------------------------------------------------------------------------
\* The count a window begins with; any count a heartbeat brings replaces it.
NoCount == IF Minimal THEN Int64Max ELSE 0

Init ==
  /\ clock = HeartbeatInterval
  /\ timestamp = [w \in Worker |-> 0]
  /\ heartbeat_count = [w \in Worker |-> 0]
  /\ polling_count = [w \in Worker |-> NoCount]
  /\ chunksize = [w \in Worker |-> InitialChunk]
  /\ sliding_window_size = [w \in Worker |-> DefaultWindow]
  /\ target_polling_ratio = [w \in Worker |-> DefaultRatio]
  /\ tmemPolls = [t \in Task |-> 0]
  /\ tmemChunk = [t \in Task |-> InitialChunk]
  /\ pc = [t \in Task |-> "unused"]
  /\ on \in [Task -> Worker] /\ \A t, u \in Task : on[t] = on[u]
  /\ memory = [t \in Task |-> t]
  /\ child = [t \in Task |-> {}]
  /\ starts = 0
  /\ bornAt = [t \in Task |-> 0]
  /\ beganAt = [t \in Task |-> 0]
  /\ polls = [t \in Task |-> 0]
  /\ samples = [w \in Worker |-> <<>>]

\* A task between its reset and its fork or end: it polls, and holds its worker.
Active(t) == pc[t] \in {"running", "beat"}
Free(w)   == \A t \in Task : Active(t) => on[t] # w
Due(w)    == timestamp[w] + HeartbeatInterval <= clock

(* (the maximum of the window with ACC_MINIMAL as well) *)
ExtremeMaximal(a, b) == IF a < b THEN b ELSE a
Extreme(a, b) == IF (Minimal /\ b < a) \/ (~Minimal /\ b > a) THEN b ELSE a

(* (dividing in whole numbers, and without the lower limit of one iteration) *)
ScaledToZero(count, size, ratio) == (count \div ratio) * size
(* (inverted ratio: fewer polls than wanted give larger chunks) *)
ScaledInverted(count, size, ratio) ==
  IF (ratio * size) \div (count + 1) > 0 THEN (ratio * size) \div (count + 1) ELSE 1
Scaled(count, size, ratio) ==
  LET new == (count * size) \div ratio IN IF new > 0 THEN new ELSE 1

\* task_memory_reset, called by task t on worker w, which it begins to run on.
(* (without restarting the heartbeat timer of the worker) *)
ResetWithoutTimer(t, m, w) ==
  /\ tmemPolls' = [tmemPolls EXCEPT ![m] = 0]
  /\ tmemChunk' = [tmemChunk EXCEPT ![m] = chunksize[w]]
  /\ UNCHANGED timestamp
  /\ polls' = [polls EXCEPT ![t] = 0]
  /\ beganAt' = [beganAt EXCEPT ![t] = clock]
(* (without resetting the polling count) *)
ResetWithoutCount(t, m, w) ==
  /\ tmemChunk' = [tmemChunk EXCEPT ![m] = chunksize[w]]
  /\ timestamp' = [timestamp EXCEPT ![w] = clock]
  /\ polls' = [polls EXCEPT ![t] = 0]
  /\ beganAt' = [beganAt EXCEPT ![t] = clock]
  /\ UNCHANGED tmemPolls
(* (keeping the chunk size the task memory had) *)
ResetWithoutChunk(t, m, w) ==
  /\ tmemPolls' = [tmemPolls EXCEPT ![m] = 0]
  /\ timestamp' = [timestamp EXCEPT ![w] = clock]
  /\ polls' = [polls EXCEPT ![t] = 0]
  /\ beganAt' = [beganAt EXCEPT ![t] = clock]
  /\ UNCHANGED tmemChunk
TaskMemoryReset(t, m, w) ==
  /\ tmemPolls' = [tmemPolls EXCEPT ![m] = 0]
  /\ tmemChunk' = [tmemChunk EXCEPT ![m] = chunksize[w]]
  /\ timestamp' = [timestamp EXCEPT ![w] = clock]
  /\ polls' = [polls EXCEPT ![t] = 0]
  /\ beganAt' = [beganAt EXCEPT ![t] = clock]
-----------------------------------------------------------------------------
Tick ==
  /\ clock < MaxClock
  /\ clock' = clock + 1
  /\ UNCHANGED <<threadVars, configVars, tmemVars, taskVars, starts, historyVars>>

\* The original function calls heartbeat_start, on whichever worker it is then:
\* the environment variables are read into the variables of that thread alone.
HeartbeatStart(w) ==
  /\ pc[Root] \in {"unused", "done"}
  /\ starts < MaxStarts
  /\ starts' = starts + 1
  /\ pc' = [pc EXCEPT ![Root] = "running"]
  /\ on' = [on EXCEPT ![Root] = w]
  /\ sliding_window_size' = [sliding_window_size EXCEPT ![w] = Window]
  /\ target_polling_ratio' = [target_polling_ratio EXCEPT ![w] = Ratio]
  /\ TaskMemoryReset(Root, memory[Root], w)
  /\ bornAt' = [bornAt EXCEPT ![Root] = clock]
  /\ UNCHANGED <<clock, heartbeat_count, polling_count, chunksize, memory, child, samples>>

\* A branch of a fork begins on a free worker, by resetting its task memory.
Begin(t, w) ==
  /\ pc[t] = "ready"
  /\ Free(w)
  /\ pc' = [pc EXCEPT ![t] = "running"]
  /\ on' = [on EXCEPT ![t] = w]
  /\ TaskMemoryReset(t, memory[t], w)
  /\ UNCHANGED <<clock, heartbeat_count, polling_count, chunksize, configVars, memory, child,
                 starts, bornAt, samples>>

\* heartbeat_polling after a chunk.  A heartbeat reported does not restart the timer.
Poll(t) ==
  /\ pc[t] = "running"
  /\ polls[t] < MaxPolls
  /\ tmemPolls' = [tmemPolls EXCEPT ![memory[t]] = @ + 1]
  /\ polls' = [polls EXCEPT ![t] = @ + 1]
  /\ pc' = [pc EXCEPT ![t] = IF Due(on[t]) THEN "beat" ELSE "running"]
  /\ UNCHANGED <<clock, threadVars, configVars, tmemChunk, on, memory, child, starts,
                 bornAt, beganAt, samples>>

\* promotion_handler returns 0 before it updates anything.
NothingToSplit(t) ==
  /\ pc[t] = "beat"
  /\ pc' = [pc EXCEPT ![t] = "running"]
  /\ UNCHANGED <<clock, threadVars, configVars, tmemVars, on, memory, child, starts, historyVars>>

\* The last heartbeat of a window, once heartbeat_count has been increased.
EndsWindow(w) == (heartbeat_count[w] + 1) % sliding_window_size[w] = 0

\* runtime_memory_update on worker w with the polling count of memory m.
(* (the window's count not reset when the window ends) *)
UpdateWithoutReset(w, m) ==
  LET count == Extreme(polling_count[w], tmemPolls[m]) IN
  /\ heartbeat_count' = [heartbeat_count EXCEPT ![w] = @ + 1]
  /\ polling_count' = [polling_count EXCEPT ![w] = count]
  /\ chunksize' = [chunksize EXCEPT ![w] =
       IF EndsWindow(w) THEN Scaled(count, @, target_polling_ratio[w]) ELSE @]
RuntimeMemoryUpdate(w, m) ==
  LET count == Extreme(polling_count[w], tmemPolls[m]) IN
  /\ heartbeat_count' = [heartbeat_count EXCEPT ![w] = @ + 1]
  /\ polling_count' = [polling_count EXCEPT ![w] = IF EndsWindow(w) THEN NoCount ELSE count]
  /\ chunksize' = [chunksize EXCEPT ![w] =
       IF EndsWindow(w) THEN Scaled(count, @, target_polling_ratio[w]) ELSE @]

Sample(m) == [count |-> tmemPolls[m], chunk |-> tmemChunk[m]]

\* promotion_handler splits: the first branch gets the task memory of the task
\* that forks it, the second one declares its own.
Split(t) ==
  /\ pc[t] = "beat"
  /\ RuntimeMemoryUpdate(on[t], memory[t])
  /\ \E f, s \in {u \in Task \ {Root} : pc[u] = "unused"} :
       /\ f # s
       /\ pc' = [pc EXCEPT ![t] = "waiting", ![f] = "ready", ![s] = "ready"]
       /\ memory' = [memory EXCEPT ![f] = memory[t], ![s] = s]
       /\ child' = [child EXCEPT ![t] = {f, s}]
       /\ bornAt' = [bornAt EXCEPT ![f] = clock, ![s] = clock]
  /\ samples' = [samples EXCEPT ![on[t]] =
       IF EndsWindow(on[t]) THEN <<>> ELSE Append(@, Sample(memory[t]))]
  /\ UNCHANGED <<clock, timestamp, configVars, tmemVars, on, starts, beganAt, polls>>

\* fork2join returns, on any worker.  The slices then leave their loops by the
\* return code and reduce; none of that reads the worker or the task memory.
Join(t) ==
  /\ pc[t] = "waiting"
  /\ \A u \in child[t] : pc[u] = "done"
  /\ pc' = [pc EXCEPT ![t] = "done"]
  /\ UNCHANGED <<clock, threadVars, configVars, tmemVars, on, memory, child, starts, historyVars>>

\* The task has run all it was given.
Finish(t) ==
  /\ pc[t] = "running"
  /\ pc' = [pc EXCEPT ![t] = "done"]
  /\ UNCHANGED <<clock, threadVars, configVars, tmemVars, on, memory, child, starts, historyVars>>

Ended == pc[Root] = "done" /\ UNCHANGED vars

TaskStep(t) ==
  \/ \E w \in Worker : Begin(t, w)
  \/ Poll(t) \/ NothingToSplit(t) \/ Split(t) \/ Join(t) \/ Finish(t)

Next ==
  \/ Tick
  \/ \E w \in Worker : HeartbeatStart(w)
  \/ \E t \in Task : TaskStep(t)
  \/ Ended

Spec == Init /\ [][Next]_vars
-----------------------------------------------------------------------------
TypeOK ==
  /\ clock \in Nat
  /\ timestamp \in [Worker -> Nat]
  /\ heartbeat_count \in [Worker -> Nat]
  /\ polling_count \in [Worker -> Nat]
  /\ chunksize \in [Worker -> Nat \ {0}]
  /\ sliding_window_size \in [Worker -> {DefaultWindow, Window}]
  /\ target_polling_ratio \in [Worker -> {DefaultRatio, Ratio}]
  /\ tmemPolls \in [Task -> Nat]
  /\ tmemChunk \in [Task -> Nat \ {0}]
  /\ pc \in [Task -> {"unused", "ready", "running", "beat", "waiting", "done"}]
  /\ on \in [Task -> Worker]
  /\ memory \in [Task -> Task]
  /\ child \in [Task -> SUBSET Task]
  /\ starts \in Nat
  /\ bornAt \in [Task -> Nat] /\ beganAt \in [Task -> Nat]
  /\ polls \in [Task -> Nat]
  /\ samples \in [Worker -> Seq([count : Nat, chunk : Nat \ {0}])]

\* The timer a task polls is its own: the timestamp of its worker is the moment
\* the task itself began, whatever ran on that worker before it or waits there.
OwnTimer ==
  \A t \in Task : Active(t) =>
    /\ timestamp[on[t]] = beganAt[t]
    /\ beganAt[t] >= bornAt[t]

\* The count a heartbeat brings is that of the task that polled: neither the
\* task that forked it, whose memory a first branch uses, nor its sibling adds to it.
OwnCount == \A t \in Task : Active(t) => tmemPolls[memory[t]] = polls[t]

\* runtime_memory_update multiplies a polling count by the chunk size of the
\* worker: that is the chunk size the polls were counted with, although the
\* chunk size in use is kept in the task memory, and so it is for all the
\* counts of a window.
MeasuredAtChunk ==
  /\ \A t \in Task : Active(t) => tmemChunk[memory[t]] = chunksize[on[t]]
  /\ \A w \in Worker : \A i \in 1..Len(samples[w]) : samples[w][i].chunk = chunksize[w]

\* The count kept for a window is the least (with ACC_MAXIMAL the greatest) of
\* the counts of the promotions this worker handled since the last adaptation.
WindowExtreme ==
  \A w \in Worker :
    LET counts == {samples[w][i].count : i \in 1..Len(samples[w])} IN
    /\ counts = {} => polling_count[w] = NoCount
    /\ counts # {} => /\ polling_count[w] \in counts
                      /\ \A c \in counts : IF Minimal THEN polling_count[w] <= c
                                                      ELSE polling_count[w] >= c

\* A task is promoted no sooner than a heartbeat interval after the promotion
\* that made it: the cost of a fork is paid for by an interval of work.
HeartbeatRate ==
  [][\A t \in Task : pc[t] # "waiting" /\ pc'[t] = "waiting"
       => clock >= bornAt[t] + HeartbeatInterval]_vars

\* Chunks of a worker become longer only when the polls of a window were too
\* many, and shorter only when they were too few: with ACC_MINIMAL every
\* promotion of the window came after more polls than wanted, or some
\* promotion after fewer.
AdaptsByWindow ==
  [][\A t \in Task : pc[t] # "waiting" /\ pc'[t] = "waiting" =>
       LET w     == on[t]
           seen  == {samples[w][i].count : i \in 1..Len(samples[w])} \cup {tmemPolls[memory[t]]}
           over  == {c \in seen : c > target_polling_ratio[w]}
           under == {c \in seen : c < target_polling_ratio[w]}
       IN /\ chunksize'[w] > chunksize[w] => over # {} /\ (Minimal => over = seen)
          /\ chunksize'[w] < chunksize[w] => under # {} /\ (~Minimal => under = seen)
          /\ \A v \in Worker \ {w} : chunksize'[v] = chunksize[v]]_vars
-----------------------------------------------------------------------------
UsesMemory(t) == Active(t) \/ pc[t] = "ready"
Alive(t)      == UsesMemory(t) \/ pc[t] = "waiting"

\* What the proofs need besides: workers and task memories in use are not
\* shared, a heartbeat once due stays due, and a task that has not ended is the
\* child of a task born an interval before it, which waits for it.
WorkersExclusive == \A t, u \in Task : Active(t) /\ Active(u) /\ on[t] = on[u] => t = u
MemoryExclusive  ==
  /\ \A t, u \in Task : UsesMemory(t) /\ UsesMemory(u) /\ memory[t] = memory[u] => t = u
  /\ \A t \in Task : pc[t] # "unused" => pc[memory[t]] # "unused"
  /\ \A t \in Task : pc[t] = "unused" => memory[t] = t
BeatIsDue ==
  \A t \in Task : /\ pc[t] = "beat" => Due(on[t])
                  /\ polls[t] <= MaxPolls
                  /\ bornAt[t] <= clock
HasParent ==
  \A u \in Task \ {Root} : Alive(u) =>
    \E p \in Task : pc[p] = "waiting" /\ u \in child[p] /\ bornAt[p] < bornAt[u]

IInv ==
  TypeOK /\ OwnTimer /\ OwnCount /\ MeasuredAtChunk
    /\ WorkersExclusive /\ MemoryExclusive /\ BeatIsDue /\ HasParent
=============================================================================
