# A formal model of the Heartbeat Compiler

The Heartbeat Compiler is an LLVM pass (`src/src`) and a small run-time library
(`src/commons`, `src/patches`).  The pass turns functions named `HEARTBEAT_...`,
each with one DOALL loop, into *slice tasks*; at run time a slice executes its
loop serially and polls for a heartbeat; on a heartbeat the *promotion handler*
splits what is left of the outermost loop that has work and forks the halves with
`taskparts::fork2join`.  With *rollforwarding* there is no polling: a signal moves
a worker into a second copy of the code, which calls the handler.  This directory
models the pass, the generated code and the run-time library in TLA+, checks the
models with TLC and proves the core with TLAPS.

## Inventory

| Component | State | Operations | Interacts with |
|---|---|---|---|
| Slice task (`HeartbeatTransformation.cpp`) | loop registers, private copy of the reduction, array for its kids' values | entry (load bounds and environments from the context), loop, call of the slice one level down, handler block, reduction, return code | context, task memory, caller slice, promotion handler |
| Loop chunking (`LoopChunking.cpp`) | chunk, low and high of the leaf loop | run a chunk, early exit at the end of a row, poll after a full chunk | task memory (allowance) |
| Promotion handler (`promotion_handler.cpp:375`) | context of the task (one cache line per level), second context on its stack | choose the splitting level, split, fork, report how many levels to leave | context, `fork2join`, slices, leftover tasks |
| Leftover task (`LeftoverTaskGenerator.cpp`) | none of its own: walks up the levels of a context | run the rest of each level from the leaf up to the split one, stop early on a positive code | slices, context |
| Task memory (`promotion_handler.cpp:295-354`) | starting level, chunk size, remaining chunk size, polling count | reset, chunk allowance, start | every slice and handler call on the same area |
| Polling (`promotion_handler.cpp:93-154`) | thread-local timestamp and interval | poll | task memory reset (restarts the timer) |
| Adaptive chunk size control (`promotion_handler.cpp:160-276`) | thread-local window, extreme count, chunk size, configuration | update on a heartbeat | task memory |
| Environments (`HeartbeatLoopEnvironment*.cpp`) | layout of live-in arrays and reduction arrays | allocate, store, load, restore | slices (at run time: pointers in the context) |
| Nest and level analysis (`LoopSelection.cpp`, `LoopNestAnalysis.cpp`, `LoopLevelAnalysis.cpp`) | maps between loops, levels, callers, roots and nests | select, find nests, find the levels of one nest, reset | driver |
| Constant live-in analysis (`ConstantLiveInAnalysis.cpp`) | skipped and constant live-ins per loop | follow an argument of the root down the nest | transformation of root and nested loops |
| Pass driver and linking (`Pass.cpp`, `Parallelizer.cpp`, `SliceTaskWrapperGenertor.cpp`, `LeftoverTaskGenerator.cpp`) | generated tasks, tables, selector, options | phases per nest, link handler calls | analyses, transformation |
| Rollforwarding (`patches/rollforward`, `rf_test.cpp`, `Pass.cpp:227`) | two copies of the text and the tables between them | redirect on a signal, test, roll back after the handler | slices, handler |
| IR plumbing, harness, utilities, makefiles | - | declarations, measurement, build | - |

What is hard here: any interleaving of tasks on a shared context; promotions
inside promotions; return codes that unwind several levels while registers of
suspended slices are stale; contexts of which only one level is written;
pointers to stack arrays of slices that come and go; reductions that read slots
only some tasks have written; chunks that carry over from row to row; machine
words that wrap; thread-local state read by tasks that move between threads;
members of the pass that outlive a nest; traversals in the order of addresses;
signals at any instruction.  `PROJECT.json` lists these hazards line by line with
the properties that would catch them.

What makes each part correct: a *slice* runs the iterations it was given, once,
and hands back their reduction; the *handler* gives every remaining iteration to
exactly one half, splits the outermost level, and reads only what was written;
a *leftover task* loses nothing when it stops early; the *chunked loop* polls
every chunk size iterations and always advances; a *nest* gives each tail the
whole result of its row, after the row; the *program* gets control back, with
the serial result, when every task has ended; *chunks* adapt in the right
direction, from counts that belong to the task that polled; the *analyses* find
the nests, levels and constants that are in the program, and leave nothing for the
next nest; the *generated* tables and calls belong to the right nest; with
*rollforwarding* the two copies are one program that polls.

## Modules

Run time:

- `ParallelLoop` - abstract: the iterations of a loop run in groups, each once;
  control returns with the serial value when all have run.
- `HeartbeatLoop` - one loop, both root and leaf: slice tasks, chunking, handler
  and reduction.  Variables carry the names of the generated code
  (`startIteration`, `maxIteration`, `currentIteration`, `low`, the context's
  `START_ITER`, `MAX_ITER`, `LIVE_OUT`, the task memory's `chunksize` and
  `remaining`).  A context and its task memory always travel together and are
  named by the task the handler created them for.  `Enter` is the entry block
  with the reset before it, `RunChunk` a turn of the chunked loop,
  `NoHeartbeat`/`HeartbeatIgnored`/`Promote` the three outcomes of polling,
  `ReturnPrivate`/`ReturnReduced` the exit blocks, `Finish` the original function.
- `ParallelNest` - abstract: iterations of nested loops start once, after the one
  they belong to; a tail runs once, after everything under its iteration, and is
  given the result of the whole row.
- `HeartbeatNest` - one loop per level.  A task is a branch of `fork2join`, named
  by the path from the root; it has slice frames from level `base` to `top`.  A
  first branch is a leftover task that calls the slices from the leaf up to level
  `until`; when the leaf itself was split it is a single slice.  An *area* is a
  context with its task memory; `array` holds what a slice frame allocates (the
  environment of the loop it calls or, in a leaf, its kids' slots), removed when
  the frame returns, so that a dangling pointer is a pointer outside its domain;
  memory nobody has written is `Undef`.  Only the leaf loop has live-outs, as the
  pass requires.
- `LoopArithmetic` - the chunked loop and the split on words that wrap.
- `AdaptiveChunk` - the three kinds of memory that meet when polling: thread-local
  (`timestamp`, `heartbeat_count`, `polling_count`, `chunksize`,
  `sliding_window_size`, `target_polling_ratio`), task memory (`tmemPolls`,
  `tmemChunk`), and tasks that begin and continue on any worker.  `HeartbeatStart`
  reads the environment variables into the thread that calls it, `Begin` is the
  reset by a slice or leftover task, `Poll` is `heartbeat_polling`, `Split` the
  handler with `runtime_memory_update`, `Join` the return from `fork2join` on any
  worker.  What is split is left to `HeartbeatNest`.
- `Assembly`, `PolledSlices`, `Rollforward` - the assembly file of slices; what
  rollforwarding promises (one copy, in which an activation a signal has come to
  finds it at its next test, calls the handler once and goes on); and the file as
  `transform-prison.pl` emits it: copies `src` and `dst`, labels renamed where they
  are a word of their own, both tables, `Signal` in the signal handler,
  `HandlerReturns` as `__rf_handle_wrapper` with `rollbackward`.

Compile time:

- `LoopNests` - selection, nest analysis and level analysis, with the call stack of
  the recursive functions as a variable, sets visited in any order, the assertions
  of the code (`failed`) and the reset between nests.
- `HeartbeatPass` - extends `LoopNests` by what the driver generates for each nest:
  slices with their handler calls, calls between slices, the blocks a loop exit is
  left from and the values its phis have for them (`Calling` adds the last body block
  of a caller, `Chunked` the `chunk_loop_exit` of a leaf and the live-outs of its inner
  loop, `LoopChunking.cpp:141-216`), slice table, leftover tasks and pairs, linking, replacement for rollforwarding;
  `LeftoverSelector` is the generated selector.
- `LiveIns` - the constant live-in analysis over a nest in which every level uses
  and passes on its arguments in any way, and what the transformation then stores
  and loads.  `Meaning` is the reference: the value an argument has in the program.

`...Proofs` modules hold the theorems about the module they are named after,
`MC...` modules the instances for TLC.  MC modules extend the specifications;
nothing is overridden in a `.cfg`.  Two files hold more than one part:
`HeartbeatPassProofs` the theorems about `LoopNests` as well, and those about
`HeartbeatNest` are in `HeartbeatNestProofs` (control and memory) and
`HeartbeatNestWorkProofs` (work, values and the refinement).  In each module the operators in front of a
definition whose comment is in parentheses are plausible mistakes in it, used to
show that the properties notice them.

Conventions of abstraction: the value of a reduction is a tally of the iterations
added (a function in `HeartbeatLoop`, a bag in `HeartbeatNest`), so that any lost,
repeated or uninitialised contribution shows; polls are nondeterministic in the
loop models, which covers every timer and every heartbeat rate, and a reset may
choose any of a set of chunk sizes, which covers static and adaptive control
(`AdaptiveChunk` looks at timer and control themselves); a chunk is one step, since
nothing else touches the task's registers while it runs; generated code is kept
as what refers to something else.

## Runs

| Run | Shows | Bounds, and why they are enough |
|---|---|---|
| `HeartbeatLoop_safety` | the loop implements `ParallelLoop`; serial result, joins, exclusive contexts, splits cover, the inductive invariant (which contains types, iterations at most once, and bounds) | 7 iterations (from 1), chunk sizes 1-3, 5 tasks: two promotions, of the root and of either half, or inside one another; fresh tasks are interchangeable (symmetry). The theorems cover every instance |
| `HeartbeatNest_planes` | the nest implements `ParallelNest` (iterations start once, rows are whole, tails come after them); nothing lost, polls every chunk, exclusive areas, readable contexts, outermost first, one fork per task, control returns | 3 levels, two planes: rows of two iterations (from 1) and of none, and a row of three; chunk sizes 1 and 3: promotions at each level, leftover tasks over two levels that stop early and are promoted again, promotions inside promotions, chunks that span rows. `MaxForks` is 3 and does not bind: with 4 the states are the same |
| `LoopArithmetic_words` | words do what the program means; loops end | `Half` is 8: words of 4 bits, every pair of bounds and every chunk size that is non-negative (positive) as a signed word; the theorem covers every width |
| `LoopArithmetic_signed` | *violated*: bounds may be negative | words of 4 bits |
| `AdaptiveChunk_minimal` | own timers and counts, counts of a window measured at one chunk size, the extreme of a window, promotions an interval apart, chunks adapt in the right direction | 2 workers (interchangeable) configured differently (windows of 1 and 2, ratios of 2 and 1), 5 tasks, two loops one after the other, 2 polls a task, clock up to 3 intervals. `ACC_MAXIMAL` differs in `Minimal` only, over which the theorems range |
| `LoopNests_five` | levels, callers and roots are those of the program in every nest; nests partition the loops; the inductive invariant (which contains that no assertion fails) | every program of 5 loops with at most one called from another: any number and depth of nests, any addresses, one of the loops possibly not selected |
| `HeartbeatPass_nests` | no assertion of the pass fails; tables, selector, handler calls, calls between slices and which are chunked, values of the exit phis for each block the exit is left from; the inductive invariant | every program of 4 loops as above, with or without live-outs in the leaves, all 16 option sets |
| `HeartbeatPass_liveouts` | *violated*: a calling loop has a live-out | 2 loops |
| `HeartbeatPass_modified` | *violated*: the pass says when it has changed the module | 2 loops |
| `LiveIns_three` | bodies and bounds get the program's values; what comes from the root is in the array; the inductive invariant | 3 levels, 2 arguments (one floating-point), every use and every way to pass on, three forms of bounds (constant, maximum of an argument and a constant, range between arguments); the analysis looks at one level and the next, so three levels have a first, a middle and a last |
| `Rollforward_slices` | the copies implement `PolledSlices`; the handler finds its way back; moved slices answer; the inductive invariant | slices of two levels and a function, branches, loops, padding, a jump through a table; handlers nested twice, six signals, at any instruction |
| `Rollforward_function` | *violated*: a signal breaks out of a function | the same file |

Deadlock is checked everywhere; the only states that stutter are those in which
the program, or the compiler, has ended.

### Disagreements the runs record

- `LoopArithmetic_signed`: `LoopChunking.cpp:99` says the comparison of the outer
  chunked loop is made `icmp slt`, line 104 makes it `ult`.  For a maximum below
  zero the generated loop runs iterations the source loop does not have.  Loops
  with non-negative bounds are not affected (`LoopArithmetic_words`).
- `HeartbeatPass_liveouts`: the assertion at `HeartbeatTransformation.cpp:1859`
  expects a promotion handler block in every slice; since only leaves have one, a
  calling loop with a live-out of its own stops the compiler.
- `HeartbeatPass_modified`: `Pass.cpp:90` drops what `parallelizeRootLoop` returns:
  nests of one level are transformed and reported unmodified.
- `Rollforward_function`: `promotion_handler.cpp:144-146` says rollforwarding breaks
  out in the middle of a call; a signal moves the interrupted activation only, so
  one that comes in a called function is forgotten at its return.

Met while modelling and not modelled: `transform-prison.pl:15` accepts a global
label followed by an instruction on its line, `209` then leaves the whole line out
of the second copy; compilers do not emit such lines, and `Assembly` says that a
global label has a line of its own.

### Fairness

- `HeartbeatNest`: `WF_vars(\E t : Step(t))`, while a task can go on some task does.
  A worker never blocks except in `fork2join`, where it runs other tasks.  Nothing
  is assumed about which task goes on, nor that heartbeats arrive.
- `LoopArithmetic`: the thread that runs the loop goes on.
- `Rollforward`: the processor goes on with the program (`Step`, `CallHandler`);
  nothing is assumed of signals, nor that a handler returns.

## Proofs

`HeartbeatLoopProofs` proves for every set of tasks, bounds, set of chunk sizes
and initial value (`LoopAssumption`): type correctness, the safety properties of
`HeartbeatLoop_safety`, and that `HeartbeatLoop` implements `ParallelLoop`.  The
argument is one inductive invariant, `IInv`:

- `RegisterInv`: what the registers of a task say about its private copy;
- `ContextInv`: the live-out pointer of a context names the task running on it,
  and no two running tasks have the same context;
- `TreeInv`, `KidsInv`: a live task is the kid its owner waits for; the kids of a
  waiting task were given, in order and without a gap, what it had left, and a kid
  that is done has left the tally of exactly its iterations in the owner's array;
- `WorkInv`: an iteration that has been run is pending nowhere, and no iteration
  is pending in two tasks;
- `MainInv`: the root task was given the whole loop.

The safety properties alone are not inductive: that a result is serial needs to
know what each slot of a kids' array holds before it is read, which needs to know
which iterations the kid was given.  `EnterStep` ... `FinishStep` prove the steps
one action at a time; facts about tallies (`IntervalSplit`, `PlusType`) and about
the splitting point (`MidBetween`) are lemmas.  `TasksJoined` (`AllJoined`) needs
one thing more: when the root has ended nobody waits.  Every waiting task is owned
by another waiting one that was given strictly more iterations, so among waiting
tasks there would be one with the most, whose owner had more (`NoWaitingCycle`, by
the well-foundedness of the naturals).

The proofs about `HeartbeatNest` hold for nests of any depth, bounds, chunk sizes and
number of promotions (`NestAssumption`).  Their inductive invariant, `IInv`, is
`MemoryInv /\ WorkOK /\ TailsOK /\ ValuesOK`; each part is proved from those before it.

`HeartbeatNestProofs` first proves the part of `MemoryInv` about control, `ControlInv`, and that no two
tasks that go on share an area.  `TypeOK`: a task has frames from its base to its top,
arrays belong to live frames, return codes count levels.  `FamiliesOK`: a branch
belongs to a task that waits, or has seen both branches end.  `AreasOK`: an area is
named for the task it was made for, which is the shortest that runs on it, handed down
to first branches only; of two tasks on an area the shorter one waits or the longer one
is done.  So the area that goes with the handler's stack frame (`Join`) has no user left
(`SecondAreaIdle`), and a parent that goes on finds its own unused (`TakenOverIdle`).
`QuietStep` is the step of a task that neither forks nor joins.

Its second half (`MemoryInvariance`) is about what contexts, arrays, registers and task
memories hold, and with it `ContextReadable`, `OutermostFirst`, `ForksOnce` and
`PollsEveryChunk`.  The notion it turns on is `Given(t)`, the level from which on a
task has given its work to branches (below the leaf if it has none):

- `GivenOK`: whoever takes over an area stays at or below that level, so it leaves what
  the waiting task has suspended above it alone (`OthersKept`, `AreaWaits`);
- `SuspendedAt`: at a level a task is in the middle of, the context holds the position
  of the slice, and after a promotion that iteration is the last one - `Promote` takes
  the outermost level with work, so the levels above it have none (`SplitFacts`);
- `TopOK`: a slice that is entered after a promotion finds an empty loop, hence a task
  comes to `poll` only before its promotion (`ForksOnce`);
- `CodeOK`: the return code is the number of levels from the given one to the top, and
  each slice on the way up takes one off; it is this, not the stale register of a
  suspended slice, that ends loops given away;
- `ReadableAt`, `Owned`, `AncestorsWait`: a context's environments belong to frames of
  the task or of an ancestor, and ancestors wait, so no pointer dangles;
- `LinkedAt`: a caller is the environment of the loop it called, which is what a leaf
  restores when it returns;
- `MemoryOK`: allowance and iterations since the last poll add up to the chunk size.

Each step has a lemma of its own (`StartMemory` ... `BackMemory`); for the promotion
one lemma says what it does to contexts (`ForkContexts`, `SplitFacts`) and one each
what holds of the parent, the two branches and the others afterwards.

`HeartbeatNestWorkProofs` proves that nothing is lost and nothing runs twice
(`WorkInvariance`, `NothingIsLost`).  A task *holds* an iteration (`Holds`) if it is
the one to run it: not given to branches, at a level it is still to go on with, at or
after the position of that level.  A task has *entered* an iteration (`Entered`) if its
tail is still to come.

- `WorkOK`: an iteration that has not started is held by exactly one task, or belongs to
  an iteration that has not started itself;
- `TailsOK`: an iteration that has started and whose tail has not run is what exactly
  one task is in the middle of.

For a promotion, what the parent held is what the two branches hold (`SplitHolds`); a
slice that is left with a positive code holds nothing at its level.  When the root is
done every task is (`AllEnded`), so nobody holds or has entered anything; an iteration
that was missed at the outermost level where one is would have to be held
(`NothingIsLost`, by a minimal counterexample).

The second half is about values and proves `Invariance`, which is all of `IInv`, and
the refinement of `ParallelNest`:

- `Delivers(t, to, row, first, last)`: the leaf slice of a task will leave exactly the
  tally of these iterations in this array, whatever it has come to;
- `CallOK`, `BranchesOK`: a slice that was called delivers the whole row to its caller,
  and the branches of a promotion what the parent had left of the row, to two slots when
  the leaf was split and to one when a leftover task has it (the pairing of return code
  and slots);
- `ForkOK`: what the handler puts in the contexts of branches to make that so.

Hence a tail is given the value of the whole row.  `NestImplementsParallelNest` maps each
action to one of `ParallelNest` or to no step: a chunk starts iterations of a row that
has started, `Back` runs a tail whose inner iterations have all started, and the root
returns when nothing is left.

`AdaptiveChunkProofs` proves the safety and action properties of
`AdaptiveChunk_minimal` for any workers, tasks, interval and windows, ratios that are
powers of two up to 64 and both policies (`ChunkAssumption`, in which windows and ratios
are positive, as the code needs and does not check).  What the properties need besides (`IInv`): a worker
has one active task, a task memory one user, a heartbeat once due stays due, and
every live task but the root has a waiting parent born before it
(`HasParent`) - without it the next loop could start beside tasks of the last one.

`LoopArithmeticProofs` proves `RunsAsSigned` for words of any width.  Its hypothesis,
`SignedInputs`, is that bounds and chunk sizes are not negative when read as signed
words; `LoopArithmetic_signed` shows what happens without it.  The invariant
(`ArithmeticInv`): every iteration has been run, waits in exactly one slice, or is left
to the slice that is being run; that slice has its whole allowance, so `iv + chunk` stays
below twice `Half`, and so does `low + max` of the handler.

`HeartbeatPassProofs` first proves that no assertion fails, levels and nests for any number
of loops in any nests (`ProgramAssumption`, the assumptions of `Pass.hpp`).  `IInv`
says what a walk up the call graph preserves: calls that have not returned go
strictly up and none is recorded (`StackOK`), what is recorded is closed under
callers and true of the program (`RecordsOK`, `LevelsOK`, `NestsOK`), and a nest is
visited as a whole (`ScopeOK`), so that `reset()` and the next analysis start clean.

It then proves, for any number of loops and all options, the properties of
`HeartbeatPass_nests`.  `PassInv` adds to `IInv` that what holds of a nest the pass is
through with (`NestGenerated`) never changes again, and that what is made of the present
nest is right so far: the loops transformed are those of the levels from the root on
without a gap (`StepOK`); a slice calls the next one if there is one, it is left from
the blocks that its kind, its call and its chunking give it, and its phis have for each
of them, and for no other, the return code and the live-out that belong there
(`SliceMade`, `PhisMade`; the assertion in `ParallelizeNestedLoop` is what keeps live-outs
out of slices that call another, `CallerWithoutLiveOuts`); a handler call is linked once its loop has left `toLink`
(`HandlerMade`); there is a leftover task for every pair of levels except those still in
`gaps`, at the position the selector finds (`TablesMade`).  `PassAssertions` needs that
only leaves of the program have live-outs; `HeartbeatPass_liveouts` shows an assertion
fail without it.

`LiveInsProofs` proves, for nests of any depth, functions of any arity and any bounds
(`LiveInAssumption`), the properties of `LiveIns_three`.  `LiveInsInv` says of the
analysis that a call still to come is about the argument being followed (`CallsOK`), that
what was found comes from an argument of the root, and what it is passed on as has been
found or is to come (`FoundOK`); so that at the end everything that comes from the root
has been found (`FoundAll`: the outermost level that had missed something would have been
passed it).  The transformation then needs, of each slice, what its body uses and what it
passes on as a bound or as something computed: `UsedIsLoaded` shows that the caller's slice
has loaded it, with the rule that skips single uses, and `FromCallerIsMeaning` that it is
what the program passes.  `Meaning` is a recursive function; that its recursion has a
solution is proved by a minimal counterexample on the number of levels
(`MeaningExists`).

`RollforwardProofs` proves, for every assembly file and any number of signals, that
the handler finds its way back and that the two copies with their tables implement
`PolledSlices`.  `RollforwardAssumption` says what is compiled: control stays in the
text, a promotion handler block (`Promotion`) is entered by the jump that follows a
test alone, and an instruction outside it comes after the call of the handler - as
`HeartbeatTransformation.cpp:382-394` and the compiler make it.  `IInv` says that a
promotion handler block runs in the second copy alone, because only its tests answer
that there is a signal; so an activation below the runtime waits in the second copy
(`CalledHandler`), where the address it waits at is in the rollback table.  Without
it a handler called from the first copy would end the program.  The refinement maps
each activation to its line and to whether it is in the second copy (`Frames`);
`SignalSeen` ... `HandlerReturnsSeen` show each action to be one of the program that
polls.

Invariants were checked with TLC before they were proved; `IInv`, `PassInv` and
`LiveInsInv` are invariants of the runs.

Only model-checked: the two `Termination` properties and `SignalAnswered`, liveness and
`ENABLED` being out of the prover's reach.  What a recursion computes is proved only
through facts about its first or least level, as for `Meaning`.

## Not modelled, and why

- Reduction operations other than a sum: a tally cannot tell them apart; which one
  is generated is a line of IR generation.
- Live-outs above the leaf at run time: the pass stops on them
  (`HeartbeatPass_liveouts`), so there is no such run-time code.
- The builder's bookkeeping of environment indices and users, and the files that
  declare types and prototypes (`CreateExternalFunctions.cpp`,
  `CreateStructTypes.cpp`, `HandleLiveOut.cpp`, `HeartbeatTask.cpp`): IR without
  decisions of its own.
- Counters for statistics, `ACC_EVAL`, the measuring of `heartbeat_interval` and its
  relation to `TASKPARTS_KAPPA_USEC`: they change when heartbeats come, which the
  models leave open.
- The search in the tables (`rollforward.c` of the runtime is not in this
  repository), NOELLE, LLVM, taskparts: external, modelled by their use.
- Three limits of what is modelled.  The stack on which promotions nest has no bound
  (`ForksOnce` says that a task forks once, not how deep branches go).
  `AdaptsByWindow` compares a worker with its own configuration and so cannot see that
  only one worker was given one.  `llvm.smax` has no model: that its argument is stored
  as a maximum is only met as a maximum below the start.
- Harness, utilities and makefiles: measurement, I/O and the choice of options.

## What is left

Every safety property, action property and refinement of the runs is stated by a theorem
for all values of the constants.  Left are the liveness properties, which stay with TLC,
and a model of the builder's bookkeeping of environment indices, with which `LiveIns`
and `HeartbeatNest` would meet.
