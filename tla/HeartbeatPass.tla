---------------------------- MODULE HeartbeatPass ---------------------------
(***************************************************************************)
(* Compile time, second part: what the pass generates for each nest.       *)
(*                                                                         *)
(* Of the code generated the model keeps what refers to something else:    *)
(* who calls whose slice, from which blocks a loop exit is reached and     *)
(* which values its phis have for them, the tables of slice and leftover   *)
(* tasks, the leftover selector, and the arguments of the handler call.    *)
(* Names in the generated module contain the nest, so tables are kept per  *)
(* nest.                                                                   *)
(***************************************************************************)
EXTENDS LoopNests

CONSTANT OptionSets   \* command line options the pass is run with

ASSUME OptionAssumption ==
  OptionSets \subseteq [disable : BOOLEAN, rollforward : BOOLEAN, chunk : BOOLEAN, run : BOOLEAN]

VARIABLES
  options,
  step,         \* what the transformation of a nest has come to
  loopToHeartbeatTransformation,   \* the loops transformed in this nest
  modified,     \* what runOnModule returns
  slice,        \* of each loop, the slice task generated, or NoSlice
  rootCall,     \* loops whose original function runs the slice task
  sliceTasks, leftoverTasks, leftoverTasksPairs,
  gaps,         \* pairs of loops a leftover task is still to be created for
  toLink,       \* transformations not linked yet
  globals       \* of each nest, the tables in the generated module

passVars == <<options, step, loopToHeartbeatTransformation, modified, slice, rootCall,
              sliceTasks, leftoverTasks, leftoverTasksPairs, gaps, toLink, globals>>
vars == <<analysisVars, passVars>>

Null     == "null"
NoSlice  == [level |-> Unset]
NoTables == [slices |-> <<>>, leftovers |-> <<>>, pairs |-> <<>>]
-----------------------------------------------------------------------------
PassInit ==
  /\ Init
  /\ options \in OptionSets
  /\ step = "none"
  /\ loopToHeartbeatTransformation = {} /\ modified = FALSE
  /\ slice = [l \in Loop |-> NoSlice] /\ rootCall = {}
  /\ sliceTasks = <<>> /\ leftoverTasks = <<>> /\ leftoverTasksPairs = <<>>
  /\ gaps = {} /\ toLink = {}
  /\ globals = [n \in Nests |-> NoTables]

(* (the outermost loop) *)
IsOutermost(l) == loopToLevel[l] = 0
IsLeaf(l) == loopToLevel[l] = numLevels - 1

\* reset() of what the transformation fills.
(* (the leftover tasks kept) *)
ResetKeepsLeftovers ==
  /\ loopToHeartbeatTransformation' = {}
  /\ sliceTasks' = <<>>
  /\ UNCHANGED leftoverTasks
ResetTasks ==
  /\ loopToHeartbeatTransformation' = {}
  /\ sliceTasks' = <<>> /\ leftoverTasks' = <<>>

AnalyseStep ==
  /\ Analyse
  /\ IF phase = "next" THEN ResetTasks
     ELSE UNCHANGED <<loopToHeartbeatTransformation, sliceTasks, leftoverTasks>>
  /\ step' = IF phase = "levels" /\ phase' = "transform" THEN "parallelize" ELSE step
  /\ UNCHANGED <<options, modified, slice, rootCall, leftoverTasksPairs, gaps, toLink, globals>>

\* The blocks the loop exit of a slice is reached from, once it is generated:
\* the header, and in a leaf the block of the promotion handler.
FirstExits(l) == IF IsLeaf(l) THEN {"header", "handler"} ELSE {"header"}

\* The blocks a loop exit can be reached from, and a phi there: the value for
\* each block, Null if it has none.
Blocks    == {"header", "handler", "body", "chunk_loop_exit"}
NoEntries == [b \in Blocks |-> Null]
Entries(phi) == {b \in Blocks : phi[b] # Null}

\* addIncoming for a block without a value, setIncomingValueForBlock for others.
AddIncoming(phi, b, value) == [phi EXCEPT ![b] = value]

\* The phi of the return code: 0 from the header, and in a leaf the handler's.
FirstReturnCode(l) ==
  LET phi == AddIncoming(NoEntries, "header", "zero")
  IN IF IsLeaf(l) THEN AddIncoming(phi, "handler", "promotion") ELSE phi

\* The phi of a live-out: from the header the loop's own phi, and in a leaf,
\* from the handler, what the body has made of it.
FirstLiveOut(l) ==
  LET phi == AddIncoming(NoEntries, "header", "phi")
  IN IF l \notin program.liveOut THEN NoEntries
     ELSE IF IsLeaf(l) THEN AddIncoming(phi, "handler", "update") ELSE phi

\* The call of the handler in a leaf, tables to be filled in later.
FirstHandler(l) ==
  IF IsLeaf(l)
  THEN [function |-> "promotion_handler", level |-> loopToLevel[l], levels |-> numLevels,
        slices |-> Unset, leftovers |-> Unset, selector |-> Unset]
  ELSE [function |-> Null]

\* HeartbeatTransformation::apply before it connects the slice to its caller.
NewSlice(l) ==
  [level      |-> loopToLevel[l],
   calls      |-> None,
   exits      |-> FirstExits(l),
   returnCode |-> FirstReturnCode(l),
   liveOut    |-> FirstLiveOut(l),
   polled     |-> IsLeaf(l),
   test       |-> IF IsLeaf(l) THEN "heartbeat_polling" ELSE Null,
   handler    |-> FirstHandler(l),
   chunked    |-> FALSE]

\* invokeHeartbeatFunctionAsideCallerLoop: the caller's slice s calls the slice
\* of l and leaves its loop from the last body block, with the return code of
\* the call and the live-out value it has for the handler block.
(* (the return code phi not extended) *)
CallingWithoutCode(s, l) ==
  [s EXCEPT !.calls = l, !.exits = @ \cup {"body"},
            !.liveOut = AddIncoming(@, "body", @["handler"])]
Calling(s, l) ==
  [s EXCEPT !.calls = l, !.exits = @ \cup {"body"},
            !.returnCode = AddIncoming(@, "body", "callee"),
            !.liveOut = AddIncoming(@, "body", @["handler"])]

\* executeLoopInChunk of a leaf: its loop is left from chunk_loop_exit too, with
\* return code 0 and the live-out phi of the chunk's own header, which the
\* handler block takes as well: the body is in the inner loop now.
ChunkedLiveOut(phi) ==
  AddIncoming(AddIncoming(phi, "handler", "chunk"), "chunk_loop_exit", "chunk")
(* (the return code phi not extended) *)
ChunkedWithoutCode(s, hasLiveOut) ==
  [s EXCEPT !.chunked = TRUE, !.exits = @ \cup {"chunk_loop_exit"},
            !.liveOut = IF hasLiveOut THEN ChunkedLiveOut(@) ELSE @]
(* (the value for the handler block not replaced) *)
ChunkedKeepsUpdate(s, hasLiveOut) ==
  [s EXCEPT !.chunked = TRUE, !.exits = @ \cup {"chunk_loop_exit"},
            !.returnCode = AddIncoming(@, "chunk_loop_exit", "zero"),
            !.liveOut = IF hasLiveOut THEN AddIncoming(@, "chunk_loop_exit", "chunk") ELSE @]
Chunked(s, hasLiveOut) ==
  [s EXCEPT !.chunked = TRUE, !.exits = @ \cup {"chunk_loop_exit"},
            !.returnCode = AddIncoming(@, "chunk_loop_exit", "zero"),
            !.liveOut = IF hasLiveOut THEN ChunkedLiveOut(@) ELSE @]

Chunking == options.chunk /\ ~options.disable

InTransform(s) == phase = "transform" /\ step = s /\ ~failed

\* The root, then level after level.  parallelizeRootLoop's result is dropped.
NextLoop == levelToLoop[Cardinality(loopToHeartbeatTransformation)]
AllParallel == Cardinality(loopToHeartbeatTransformation) = numLevels

\* linkTransformedLoopToOriginalFunction: with one exit block, the original
\* function branches to the slice task if told so at compile time.
LinkedRoots == IF options.run THEN rootCall \cup {rootLoop} ELSE rootCall

ParallelizeRootLoop ==
  /\ InTransform("parallelize")
  /\ loopToHeartbeatTransformation = {}
  /\ loopToHeartbeatTransformation' = {rootLoop}
  /\ slice' = [slice EXCEPT ![rootLoop] = NewSlice(rootLoop)]
  /\ rootCall' = LinkedRoots
  /\ UNCHANGED <<analysisVars, options, step, modified, sliceTasks, leftoverTasks,
                 leftoverTasksPairs, gaps, toLink, globals>>

\* A nested loop: the caller must have been transformed, and each of its
\* live-out phis must have two values.
ParallelizeNestedLoop ==
  LET l == NextLoop
      c == loopToCallerLoop[l]
  IN
  /\ InTransform("parallelize")
  /\ loopToHeartbeatTransformation # {} /\ ~AllParallel
  /\ loopToHeartbeatTransformation' = loopToHeartbeatTransformation \cup {l}
  /\ failed' = ~(/\ c \in loopToHeartbeatTransformation
                 /\ c \in program.liveOut => Cardinality(Entries(slice[c].liveOut)) = 2)
  /\ slice' = [slice EXCEPT ![l] = NewSlice(l), ![c] = Calling(@, l)]
  /\ modified' = TRUE
  /\ UNCHANGED <<program, phase, heartbeatLoops, scope, todo, stack, recordVars, nestVars,
                 pending, nest, resultVars, options, step, rootCall, sliceTasks,
                 leftoverTasks, leftoverTasksPairs, gaps, toLink, globals>>

\* executeLoopInChunk for every loop; only a leaf is changed.  Then the tables,
\* for a nest of more than one level, unless the transformation is disabled.
ChunkLoops ==
  /\ InTransform("parallelize") /\ AllParallel
  /\ slice' = IF ~Chunking THEN slice
              ELSE [l \in Loop |-> IF l \in loopToHeartbeatTransformation /\ IsLeaf(l)
                                   THEN Chunked(slice[l], l \in program.liveOut) ELSE slice[l]]
  /\ step' = IF options.disable THEN "link" ELSE "slices"
  /\ toLink' = loopToHeartbeatTransformation
  /\ UNCHANGED <<analysisVars, options, loopToHeartbeatTransformation, modified, rootCall,
                 sliceTasks, leftoverTasks, leftoverTasksPairs, gaps, globals>>

LowerPairs ==
  {g \in scope \X scope : loopToLevel[g[2]] < loopToLevel[g[1]]}

(* (levels counted from 1) *)
SliceTableShifted == [i \in 1..numLevels |-> levelToLoop[i]]
SliceTable == [i \in 1..numLevels |-> levelToLoop[i - 1]]

CreateSliceTasks ==
  /\ InTransform("slices")
  /\ sliceTasks' = sliceTasks \o SliceTable
  /\ globals' = [globals EXCEPT ![nest].slices = sliceTasks']
  /\ gaps' = IF numLevels > 1 THEN LowerPairs ELSE {}
  /\ leftoverTasksPairs' = <<>>
  /\ step' = IF numLevels > 1 THEN "leftovers" ELSE "link"
  /\ UNCHANGED <<analysisVars, options, loopToHeartbeatTransformation, modified, slice,
                 rootCall, leftoverTasks, toLink>>

\* The slices a leftover task calls, from the receiving to the splitting level.
Walk(receiving, splitting) ==
  [i \in 1..(receiving - splitting + 1) |-> levelToLoop[receiving - (i - 1)]]

\* One round of the two loops over the set of loops, both in order of address.
CreateLeftoverTask(r, s) ==
  /\ InTransform("leftovers")
  /\ <<r, s>> \in gaps
  /\ \A g \in gaps : r < g[1] \/ (r = g[1] /\ s <= g[2])
  /\ gaps' = gaps \ {<<r, s>>}
  /\ leftoverTasks' = Append(leftoverTasks, Walk(loopToLevel[r], loopToLevel[s]))
  /\ leftoverTasksPairs' = Append(leftoverTasksPairs, <<loopToLevel[r], loopToLevel[s]>>)
  /\ UNCHANGED <<analysisVars, options, step, loopToHeartbeatTransformation, modified, slice,
                 rootCall, sliceTasks, toLink, globals>>

PublishLeftovers ==
  /\ InTransform("leftovers") /\ gaps = {}
  /\ globals' = [globals EXCEPT ![nest].leftovers = leftoverTasks,
                                ![nest].pairs = leftoverTasksPairs]
  /\ step' = "link"
  /\ UNCHANGED <<analysisVars, options, loopToHeartbeatTransformation, modified, slice,
                 rootCall, sliceTasks, leftoverTasks, leftoverTasksPairs, gaps, toLink>>

\* The handler call of a leaf gets the tables of the nest.  Disabled, the body
\* of a leaf goes on to the latch instead of polling.
(* (the first nest's tables for every nest) *)
LinkedToFirst(s, n) ==
  IF options.disable THEN [s EXCEPT !.polled = FALSE]
  ELSE IF numLevels = 1 THEN [s EXCEPT !.handler.slices = 0]
  ELSE [s EXCEPT !.handler.slices = 0, !.handler.leftovers = 0, !.handler.selector = 0]
Linked(s, n) ==
  IF options.disable THEN [s EXCEPT !.polled = FALSE]
  ELSE IF numLevels = 1 THEN [s EXCEPT !.handler.slices = n]
  ELSE [s EXCEPT !.handler.slices = n, !.handler.leftovers = n, !.handler.selector = n]

\* One transformation after the other, in the order of an unordered_map.
Link(l) ==
  /\ InTransform("link")
  /\ l \in toLink
  /\ toLink' = toLink \ {l}
  /\ slice' = IF IsLeaf(l) THEN [slice EXCEPT ![l] = Linked(@, nest)] ELSE slice
  /\ UNCHANGED <<analysisVars, options, step, loopToHeartbeatTransformation, modified,
                 rootCall, sliceTasks, leftoverTasks, leftoverTasksPairs, gaps, globals>>

\* replaceWithRollforwardHandler copies the arguments of the handler call.
RolledForward(s) ==
  [s EXCEPT !.test = "__rf_test", !.handler.function = "__rf_handle_wrapper"]

FinishNest ==
  /\ InTransform("link") /\ toLink = {}
  /\ Transform
  /\ slice' = IF ~options.rollforward THEN slice
              ELSE [l \in Loop |-> IF l \in loopToHeartbeatTransformation /\ IsLeaf(l)
                                   THEN RolledForward(slice[l]) ELSE slice[l]]
  /\ step' = "none"
  /\ UNCHANGED <<options, loopToHeartbeatTransformation, modified, rootCall, sliceTasks,
                 leftoverTasks, leftoverTasksPairs, gaps, toLink, globals>>

PassExit    == Exit /\ UNCHANGED passVars
PassStopped == Stopped /\ UNCHANGED passVars

PassStep ==
  \/ AnalyseStep
  \/ ParallelizeRootLoop \/ ParallelizeNestedLoop
  \/ ChunkLoops \/ CreateSliceTasks
  \/ \E r, s \in Loop : CreateLeftoverTask(r, s)
  \/ PublishLeftovers
  \/ \E l \in toLink : Link(l)
  \/ FinishNest
  \/ PassExit

PassNext == PassStep \/ PassStopped

PassSpec == PassInit /\ [][PassNext]_vars
-----------------------------------------------------------------------------
\* The generated leftover selector: the first of all pairs but the last that
\* matches, and else the last one.  Indices count from 1 here.
(* (matching the splitting level alone) *)
SelectBySplitting(pairs, receiving, splitting) ==
  LET hits == {i \in 1..(Len(pairs) - 1) : pairs[i][2] = splitting}
  IN IF hits = {} THEN Len(pairs) ELSE CHOOSE i \in hits : \A j \in hits : i <= j
LeftoverSelector(pairs, receiving, splitting) ==
  LET hits == {i \in 1..(Len(pairs) - 1) : pairs[i] = <<receiving, splitting>>}
  IN IF hits = {} THEN Len(pairs) ELSE CHOOSE i \in hits : \A j \in hits : i <= j

\* The arguments of a handler call, and what a slice task is made of.
Handlers ==
  [function : {"promotion_handler", "__rf_handle_wrapper"}, level : Levels, levels : Levels,
   slices : {Unset} \cup Nests, leftovers : {Unset} \cup Nests, selector : {Unset} \cup Nests]
CodePhis  == [Blocks -> {Null, "zero", "promotion", "callee"}]
ValuePhis == [Blocks -> {Null, "phi", "update", "chunk"}]
SliceTasks ==
  [level : Levels, calls : Loop \cup {None},
   exits : SUBSET Blocks,
   returnCode : CodePhis, liveOut : ValuePhis,
   polled : BOOLEAN, test : {Null, "heartbeat_polling", "__rf_test"},
   handler : {[function |-> Null]} \cup Handlers,
   chunked : BOOLEAN]
Tables == [slices : Seq(Loop), leftovers : Seq(Seq(Loop)), pairs : Seq(Levels \X Levels)]

TypeOK ==
  /\ AnalysisOK
  /\ options \in OptionSets
  /\ step \in {"none", "parallelize", "slices", "leftovers", "link"}
  /\ loopToHeartbeatTransformation \subseteq Loop /\ modified \in BOOLEAN
  /\ slice \in [Loop -> {NoSlice} \cup SliceTasks] /\ rootCall \subseteq Loop
  /\ sliceTasks \in Seq(Loop) /\ leftoverTasks \in Seq(Seq(Loop))
  /\ leftoverTasksPairs \in Seq(Levels \X Levels)
  /\ gaps \subseteq Loop \X Loop /\ toLink \subseteq Loop
  /\ globals \in [Nests -> Tables]

Compiled  == phase = "done"
Leaves(n) == {l \in nestIDToLoops[n] : \A m \in nestIDToLoops[n] : program.caller[m] # l}

\* What the tables of nest n have to hold.
TablesOf(n) ==
  LET loops == nestIDToLoops[n] IN
  /\ Len(globals[n].slices) = Cardinality(loops)
  /\ \A l \in loops : globals[n].slices[program.depth[l] + 1] = l
  /\ \A r, s \in loops : program.depth[s] < program.depth[r] =>
       LET walk == globals[n].leftovers[
                     LeftoverSelector(globals[n].pairs, program.depth[r], program.depth[s])]
       IN /\ Len(walk) = program.depth[r] - program.depth[s] + 1
          /\ walk[1] = r /\ walk[Len(walk)] = s
          /\ \A i \in 1..(Len(walk) - 1) : program.caller[walk[i]] = walk[i + 1]

\* In the generated module, the table of slice tasks of a nest has at each
\* level the slice of the loop of that depth, and what the selector picks for a
\* receiving and a splitting level is the leftover task that calls the slices
\* from the one up to the other, each nest its own.
TablesDescribeNest ==
  Compiled /\ ~options.disable => \A n \in 0..(nestID - 1) : TablesOf(n)

\* What the handler call of loop l of nest n has to pass.
HandlerOf(n, l) ==
  /\ slice[l].polled <=> (l \in Leaves(n) /\ ~options.disable)
  /\ slice[l].polled =>
       LET h == slice[l].handler IN
       /\ h.level = program.depth[l] /\ h.levels = Cardinality(nestIDToLoops[n])
       /\ h.slices = n
       /\ h.levels > 1 => h.leftovers = n /\ h.selector = n
       /\ (h.function = "__rf_handle_wrapper") <=> options.rollforward
       /\ (slice[l].test = "__rf_test") <=> options.rollforward

\* A call of the promotion handler that can be reached passes the level of its
\* loop, the number of levels of its nest and the tables of its nest; only
\* leaves have one, with rollforwarding all in the form that is rolled forward.
HandlersLinked ==
  Compiled => \A n \in 0..(nestID - 1) : \A l \in nestIDToLoops[n] : HandlerOf(n, l)

CallsOf(l) ==
  /\ program.caller[l] # None => slice[program.caller[l]].calls = l
  /\ slice[l].calls # None => program.caller[slice[l].calls] = l
  /\ l \in rootCall <=> (program.caller[l] = None /\ options.run)
  /\ slice[l].chunked <=> (Chunking /\ \A m \in heartbeatLoops : program.caller[m] # l)

\* The slices call each other as the loops of the program did, whatever the
\* order the loops were generated in, the original function runs the root, and
\* the leaves are the ones that are chunked, if the pass is told to.
CallsFollowNest == Compiled => \A l \in heartbeatLoops : CallsOf(l)

\* What the phis at the exit of the loop of slice s need for block b: from the
\* handler and the body the return code of the call that ends there, and from
\* blocks other than the header the value the iterations run so far have left.
CodeAt(b) ==
  IF b = "handler" THEN "promotion" ELSE IF b = "body" THEN "callee" ELSE "zero"
ValueAt(s, b) ==
  IF b = "header" THEN "phi" ELSE IF s.chunked THEN "chunk" ELSE "update"

PhisMade(s, hasLiveOut) ==
  \A b \in Blocks :
    /\ s.returnCode[b] = IF b \in s.exits THEN CodeAt(b) ELSE Null
    /\ s.liveOut[b] = IF b \in s.exits /\ hasLiveOut THEN ValueAt(s, b) ELSE Null

PhisOf(l) ==
  /\ slice[l].chunked <=> "chunk_loop_exit" \in slice[l].exits
  /\ PhisMade(slice[l], l \in program.liveOut)

\* The phis at a loop exit have a value for each block the exit is reached from
\* and for no other, and the one that belongs to leaving the loop there: what
\* chunking makes of a leaf keeps neither an exit without a return code nor the
\* live-out of a body that is in the inner loop now.
PhisMatchPredecessors == Compiled => \A l \in heartbeatLoops : PhisOf(l)

\* runOnModule says that it has modified the module when it has.
ModifiedReported == Compiled /\ (\E l \in Loop : slice[l] # NoSlice) => modified
-----------------------------------------------------------------------------
(***************************************************************************)
(* The inductive invariant.                                                *)
(***************************************************************************)

\* The nests the pass is through with.
Generated ==
  IF phase \in {"select", "nests"} THEN {}
  ELSE (0..(nestID - 1)) \ (pending \cup {n \in {nest} : phase \in {"levels", "transform"}})

NestGenerated(n) ==
  /\ ~options.disable => TablesOf(n)
  /\ \A l \in nestIDToLoops[n] :
       slice[l] \in SliceTasks /\ HandlerOf(n, l) /\ CallsOf(l) /\ PhisOf(l)

\* The loops of a nest are transformed from the root on, without a gap, and each
\* step of the transformation finds what it needs.
StepOK ==
  /\ phase = "transform" <=> step # "none"
  /\ phase = "done" => pending = {}
  /\ phase \in {"levels", "transform"} => nest \notin pending
  /\ phase = "levels" => loopToHeartbeatTransformation = {}
  /\ phase = "levels" \/ step \in {"parallelize", "slices"} =>
       sliceTasks = <<>> /\ leftoverTasks = <<>>
  /\ step = "parallelize" => \E k \in 0..numLevels :
       loopToHeartbeatTransformation = {levelToLoop[v] : v \in 0..(k - 1)}
  /\ step \in {"slices", "leftovers", "link"} => loopToHeartbeatTransformation = scope
  /\ step \in {"slices", "leftovers"} => toLink = scope /\ ~options.disable
  /\ step = "link" => toLink \subseteq scope
  /\ \A l \in rootCall : options.run /\ l \in heartbeatLoops /\ Outermost(l)

IsLinked(l) == step = "link" /\ l \notin toLink

\* The handler call of a loop in the making: of a leaf, with the tables of this
\* nest once it is linked.
HandlerMade(l) ==
  /\ slice[l].polled <=> (IsLeaf(l) /\ ~(IsLinked(l) /\ options.disable))
  /\ IsLeaf(l) => slice[l].handler \in Handlers
  /\ slice[l].polled =>
       LET h == slice[l].handler IN
       /\ h.function = "promotion_handler"
       /\ slice[l].test = "heartbeat_polling"
       /\ h.level = loopToLevel[l] /\ h.levels = numLevels
       /\ IsLinked(l) => h.slices = nest
       /\ IsLinked(l) /\ numLevels > 1 => h.leftovers = nest /\ h.selector = nest

\* A slice in the making calls that of the next loop if there is one yet, and
\* its phis have the values for the blocks there are so far.
SliceMade(l) ==
  LET s == slice[l] IN
  /\ s \in SliceTasks
  /\ \A m \in loopToHeartbeatTransformation : program.caller[m] = l => s.calls = m
  /\ s.calls # None => s.calls \in loopToHeartbeatTransformation /\ program.caller[s.calls] = l
  /\ s.exits = FirstExits(l) \cup {b \in {"body"} : s.calls # None}
                             \cup {b \in {"chunk_loop_exit"} : s.chunked}
  /\ PhisMade(s, l \in program.liveOut)
  /\ s.chunked <=> (IsLeaf(l) /\ Chunking /\ step # "parallelize")
  /\ Outermost(l) /\ options.run => l \in rootCall

\* There is a leftover task for every pair of levels but those still to come.
PairsMade(tasks, pairs, toCome) ==
  /\ Len(tasks) = Len(pairs)
  /\ \A i \in 1..Len(pairs) : /\ pairs[i][2] < pairs[i][1] /\ pairs[i][1] < numLevels
                              /\ tasks[i] = Walk(pairs[i][1], pairs[i][2])
  /\ \A g \in LowerPairs \ toCome : \E i \in 1..Len(pairs) :
       pairs[i] = <<loopToLevel[g[1]], loopToLevel[g[2]]>>

TablesMade ==
  /\ step = "leftovers" => /\ gaps \subseteq LowerPairs
                           /\ globals[nest].slices = SliceTable
                           /\ PairsMade(leftoverTasks, leftoverTasksPairs, gaps)
  /\ step = "link" /\ ~options.disable =>
       /\ globals[nest].slices = SliceTable
       /\ numLevels > 1 => PairsMade(globals[nest].leftovers, globals[nest].pairs, {})

\* What holds of a nest the pass is through with never changes again, and what
\* is made of the present one is what it has to be so far.  An assertion can
\* only fail in the transformation; then the compiler has stopped.
PassInv ==
  /\ TypeOK
  /\ failed => phase = "transform"
  /\ ~failed => /\ IInv /\ StepOK /\ TablesMade
                /\ \A n \in Generated : NestGenerated(n)
                /\ phase = "transform" => \A l \in loopToHeartbeatTransformation :
                                            HandlerMade(l) /\ SliceMade(l)
=============================================================================
