------------------------------ MODULE LoopNests -----------------------------
(***************************************************************************)
(* Compile time, first part: which loops the pass selects, how it groups   *)
(* them into nests, and how it finds the levels of one nest.               *)
(*                                                                         *)
(* Nest analysis looks at all selected loops; then, for one nest after the *)
(* other, the tables are reset and level analysis fills them again for the *)
(* loops of that nest.  Both walk up the call graph by the same recursive  *)
(* function, whose stack of callers is a variable here.  Loops are numbered *)
(* by their address, the order in which a std::set of loops is visited; an *)
(* unordered_map of nests is visited in any order.                         *)
(***************************************************************************)
EXTENDS Integers, Sequences, FiniteSets

CONSTANTS
  N,          \* number of loops in the program
  Programs    \* the programs compiled

Loop  == 1..N
None  == 0    \* no loop: a null pointer or a key that is not in the map
Unset == -1   \* no level: a key that is not in the map

\* A program: the kind of each loop, the loop in whose slice the function of a
\* loop is called, its live-outs, and, for reference, depth and root in the nest.
\* The pass assumes one loop per level (Pass.hpp).
WellFormed(p) ==
  LET out == {l \in Loop : p.kind[l] = "outlined"} IN
  /\ p.kind \in [Loop -> {"outlined", "inner", "plain"}]
  /\ p.caller \in [Loop -> Loop \cup {None}]
  /\ p.depth \in [Loop -> 0..(N - 1)] /\ p.root \in [Loop -> Loop]
  /\ p.liveOut \subseteq Loop
  /\ \A l \in out :
       IF p.caller[l] = None THEN p.depth[l] = 0 /\ p.root[l] = l
       ELSE /\ p.caller[l] \in out
            /\ p.depth[l] = p.depth[p.caller[l]] + 1
            /\ p.root[l] = p.root[p.caller[l]]
  /\ \A l, m \in out : p.root[l] = p.root[m] /\ p.depth[l] = p.depth[m] => l = m

ASSUME ProgramAssumption == N \in Nat /\ \A p \in Programs : WellFormed(p)

VARIABLES
  program,          \* the program compiled
  phase,            \* "select", "nests", "next", "levels", "transform", "done"
  heartbeatLoops,   \* the loops selected
  scope, todo,      \* loops an analysis is given, and those it has not visited
  stack,            \* loops whose call of the recursive function has not returned
  loopToLevel, levelToLoop, loopToRoot, loopToCallerLoop,
  nestID, nestIDToRoot, rootToNestID, nestIDToLoops,
  pending, nest,    \* nests the pass has not come to, and the one it works on
  numLevels, rootLoop,
  failed            \* an assertion has failed: the compiler stops

recordVars == <<loopToLevel, levelToLoop, loopToRoot, loopToCallerLoop>>
nestVars   == <<nestID, nestIDToRoot, rootToNestID, nestIDToLoops>>
resultVars == <<numLevels, rootLoop>>
analysisVars == <<program, phase, heartbeatLoops, scope, todo, stack, recordVars, nestVars,
                  pending, nest, resultVars, failed>>
-----------------------------------------------------------------------------
NoLevels == [l \in Loop |-> Unset]
NoLoops  == [l \in Loop |-> None]
Levels   == 0..N
Nests    == 0..N

Init ==
  /\ program \in Programs
  /\ phase = "select"
  /\ heartbeatLoops = {} /\ scope = {} /\ todo = {} /\ stack = <<>>
  /\ loopToLevel = NoLevels
  /\ levelToLoop = [v \in Levels |-> None]
  /\ loopToRoot = NoLoops /\ loopToCallerLoop = NoLoops
  /\ nestID = 0
  /\ nestIDToRoot = [n \in Nests |-> None]
  /\ rootToNestID = [l \in Loop |-> Unset]
  /\ nestIDToLoops = [n \in Nests |-> {}]
  /\ pending = {} /\ nest = Unset
  /\ numLevels = 0 /\ rootLoop = None
  /\ failed = FALSE

Recorded    == {l \in Loop : loopToLevel[l] # Unset}
RootsKnown  == {l \in Loop : loopToRoot[l] # None}
InAnalysis  == phase \in {"nests", "levels"} /\ ~failed

\* selectHeartbeatLoops: the loops at the top of an outlined function.
Select ==
  /\ phase = "select"
  /\ LET selected == {l \in Loop : program.kind[l] = "outlined"} IN
       heartbeatLoops' = selected /\ scope' = selected /\ todo' = selected
  /\ phase' = "nests"
  /\ UNCHANGED <<program, stack, recordVars, nestVars, pending, nest, resultVars, failed>>

\* setLoopNestAndRoot or setLoopLevelAndRoot is called for l: up to where it
\* calls itself for the caller, and the assertions on the way.
CallFor(l) ==
  LET c == program.caller[l] IN
  /\ failed' = ~ IF c = None THEN loopToLevel[l] = Unset /\ loopToRoot[l] = None
                 ELSE /\ c \in scope
                      /\ loopToCallerLoop[l] = None
                      /\ loopToLevel[c] = Unset => loopToRoot[c] = None
  /\ loopToCallerLoop' = [loopToCallerLoop EXCEPT ![l] = c]
  /\ stack' = Append(stack, l)

\* The loop over the set of loops, for those no recursive call came to.
Visit(l) ==
  /\ InAnalysis /\ stack = <<>>
  /\ l \in todo /\ \A m \in todo : l <= m
  /\ todo' = todo \ {l}
  /\ IF l \in Recorded
     THEN failed' = (l \notin RootsKnown) /\ UNCHANGED <<stack, loopToCallerLoop>>
     ELSE CallFor(l)
  /\ UNCHANGED <<program, phase, heartbeatLoops, scope, loopToLevel, levelToLoop, loopToRoot,
                 nestVars, pending, nest, resultVars>>

\* The recursive call for the caller of the loop on top, not recorded yet.
Ascend ==
  /\ InAnalysis /\ stack # <<>>
  /\ LET c == program.caller[stack[Len(stack)]] IN
       c # None /\ c \notin Recorded /\ CallFor(c)
  /\ UNCHANGED <<program, phase, heartbeatLoops, scope, todo, loopToLevel, levelToLoop,
                 loopToRoot, nestVars, pending, nest, resultVars>>

(* (levels counted from 1) *)
LevelFromOne(l) == IF program.caller[l] = None THEN 1 ELSE loopToLevel[program.caller[l]] + 1
LevelOf(l) == IF program.caller[l] = None THEN 0 ELSE loopToLevel[program.caller[l]] + 1
RootOf(l)  == IF program.caller[l] = None THEN l ELSE loopToRoot[program.caller[l]]

(* (the nest begun last) *)
LatestNest(l) == nestID - 1
NestOf(l) == rootToNestID[RootOf(l)]

\* A root begins a nest; any other loop joins that of its root.
RecordNest(l) ==
  IF program.caller[l] = None
  THEN /\ rootToNestID' = [rootToNestID EXCEPT ![l] = nestID]
       /\ nestIDToRoot' = [nestIDToRoot EXCEPT ![nestID] = l]
       /\ nestIDToLoops' = [nestIDToLoops EXCEPT ![nestID] = @ \cup {l}]
       /\ nestID' = nestID + 1
  ELSE /\ nestIDToLoops' = [nestIDToLoops EXCEPT ![NestOf(l)] = @ \cup {l}]
       /\ UNCHANGED <<rootToNestID, nestIDToRoot, nestID>>

\* Level and root of the loop on top are recorded and its call returns.
Settle ==
  /\ InAnalysis /\ stack # <<>>
  /\ LET l == stack[Len(stack)] IN
       /\ program.caller[l] \in Recorded \cup {None}
       /\ loopToLevel' = [loopToLevel EXCEPT ![l] = LevelOf(l)]
       /\ levelToLoop' = [levelToLoop EXCEPT ![LevelOf(l)] = l]
       /\ loopToRoot' = [loopToRoot EXCEPT ![l] = RootOf(l)]
       /\ IF phase = "nests" THEN RecordNest(l) ELSE UNCHANGED nestVars
  /\ stack' = SubSeq(stack, 1, Len(stack) - 1)
  /\ UNCHANGED <<program, phase, heartbeatLoops, scope, todo, loopToCallerLoop, pending, nest,
                 resultVars, failed>>

\* Every loop visited: the analysis asserts that it has recorded all of them.
AllVisited == InAnalysis /\ stack = <<>> /\ todo = {}
CountsMatch ==
  /\ Cardinality(scope) = Cardinality(Recorded)
  /\ Cardinality(scope) = Cardinality(RootsKnown)

EndNests ==
  /\ phase = "nests" /\ AllVisited
  /\ failed' = ~CountsMatch
  /\ pending' = 0..(nestID - 1)
  /\ phase' = "next"
  /\ UNCHANGED <<program, heartbeatLoops, scope, todo, stack, recordVars, nestVars, nest,
                 resultVars>>

EndLevels ==
  /\ phase = "levels" /\ AllVisited
  /\ failed' = ~CountsMatch
  /\ \E l \in Recorded :
       /\ \A m \in Recorded : loopToLevel[m] <= loopToLevel[l]
       /\ numLevels' = loopToLevel[l] + 1
  /\ \E l \in RootsKnown : rootLoop' = loopToRoot[l]
  /\ phase' = "transform"
  /\ UNCHANGED <<program, heartbeatLoops, scope, todo, stack, recordVars, nestVars, pending, nest>>

(* (the caller loops kept) *)
ResetKeepsCallers ==
  /\ loopToLevel' = NoLevels
  /\ levelToLoop' = [v \in Levels |-> None]
  /\ loopToRoot' = NoLoops
  /\ numLevels' = 0 /\ rootLoop' = None
  /\ UNCHANGED loopToCallerLoop
(* (the loops of levels kept) *)
ResetKeepsLoops ==
  /\ loopToLevel' = NoLevels
  /\ loopToRoot' = NoLoops /\ loopToCallerLoop' = NoLoops
  /\ numLevels' = 0 /\ rootLoop' = None
  /\ UNCHANGED levelToLoop
ResetRecords ==
  /\ loopToLevel' = NoLevels
  /\ levelToLoop' = [v \in Levels |-> None]
  /\ loopToRoot' = NoLoops /\ loopToCallerLoop' = NoLoops
  /\ numLevels' = 0 /\ rootLoop' = None

\* The next nest, in the order of an unordered_map: any.
ChooseNest(n) ==
  /\ phase = "next" /\ ~failed
  /\ n \in pending
  /\ pending' = pending \ {n}
  /\ nest' = n
  /\ ResetRecords
  /\ scope' = nestIDToLoops[n] /\ todo' = nestIDToLoops[n]
  /\ phase' = "levels"
  /\ UNCHANGED <<program, heartbeatLoops, stack, nestVars, failed>>

\* The transformation of the nest, the subject of HeartbeatPass.
Transform ==
  /\ phase = "transform" /\ ~failed
  /\ phase' = "next"
  /\ UNCHANGED <<program, heartbeatLoops, scope, todo, stack, recordVars, nestVars, pending,
                 nest, resultVars, failed>>

Exit ==
  /\ phase = "next" /\ ~failed /\ pending = {}
  /\ phase' = "done"
  /\ UNCHANGED <<program, heartbeatLoops, scope, todo, stack, recordVars, nestVars, pending,
                 nest, resultVars, failed>>

Stopped == (phase = "done" \/ failed) /\ UNCHANGED analysisVars

Analyse ==
  \/ Select
  \/ \E l \in todo : Visit(l)
  \/ Ascend \/ Settle \/ EndNests \/ EndLevels
  \/ \E n \in pending : ChooseNest(n)

Next == Analyse \/ Transform \/ Exit \/ Stopped

Spec == Init /\ [][Next]_analysisVars
-----------------------------------------------------------------------------
MapsOK ==
  /\ loopToLevel \in [Loop -> {Unset} \cup Nat]
  /\ levelToLoop \in [Levels -> Loop \cup {None}]
  /\ loopToRoot \in [Loop -> Loop \cup {None}]
  /\ loopToCallerLoop \in [Loop -> Loop \cup {None}]
  /\ nestIDToRoot \in [Nests -> Loop \cup {None}]
  /\ rootToNestID \in [Loop -> {Unset} \cup Nests]
  /\ nestIDToLoops \in [Nests -> SUBSET Loop]

AnalysisOK ==
  /\ WellFormed(program)
  /\ phase \in {"select", "nests", "next", "levels", "transform", "done"}
  /\ heartbeatLoops \subseteq Loop /\ scope \subseteq Loop /\ todo \subseteq Loop
  /\ stack \in Seq(Loop)
  /\ MapsOK
  /\ nestID \in Nat /\ pending \subseteq Nat /\ nest \in {Unset} \cup Nat
  /\ numLevels \in Nat /\ rootLoop \in Loop \cup {None}
  /\ failed \in BOOLEAN

\* No assertion of the pass fails for a program of the assumed form, in
\* whatever order loops and nests are visited.
NoAssertFails == ~failed

\* When a nest is transformed its tables say what the program is: each of its
\* loops has its depth as level, each level its loop, and nothing is left in
\* the tables of another nest.
LevelsAreDepth ==
  phase = "transform" =>
    /\ scope # {}
    /\ \A l \in Loop :
         /\ l \in scope => /\ loopToLevel[l] = program.depth[l]
                           /\ levelToLoop[program.depth[l]] = l
                           /\ loopToRoot[l] = rootLoop
                           /\ loopToCallerLoop[l] = program.caller[l]
                           /\ program.depth[l] < numLevels
         /\ l \notin scope => loopToLevel[l] = Unset /\ loopToCallerLoop[l] = None
    /\ \A v \in Levels : IF v < numLevels THEN levelToLoop[v] \in scope
                         ELSE levelToLoop[v] = None

\* Nest analysis puts every selected loop into exactly one nest, that of its
\* root, and every nest holds the loops called from its root and no others.
NestsPartition ==
  phase \notin {"select", "nests"} =>
    /\ \A l \in heartbeatLoops : \E n \in 0..(nestID - 1) : l \in nestIDToLoops[n]
    /\ \A n \in 0..(nestID - 1) :
         /\ nestIDToRoot[n] \in heartbeatLoops
         /\ nestIDToLoops[n] = {l \in heartbeatLoops : program.root[l] = nestIDToRoot[n]}
    /\ \A m, n \in 0..(nestID - 1) : nestIDToRoot[m] = nestIDToRoot[n] => m = n
-----------------------------------------------------------------------------
(***************************************************************************)
(* The inductive invariant.                                                *)
(***************************************************************************)

Outermost(l) == program.caller[l] = None
OnStack == {l \in Loop : \E i \in 1..Len(stack) : stack[i] = l}

\* Calls that have not returned are those of the loops on the way up from the
\* one visited, none of them recorded.
StackOK ==
  /\ \A i \in 1..Len(stack) : stack[i] \in scope \ Recorded
  /\ \A i \in 1..(Len(stack) - 1) : program.caller[stack[i]] = stack[i + 1]
  /\ \A i, j \in 1..Len(stack) : i < j => program.depth[stack[j]] < program.depth[stack[i]]
  /\ phase \notin {"nests", "levels"} => stack = <<>>

\* An analysis is given all of a nest, and has still to visit what it has
\* neither recorded nor a call for.
ScopeOK ==
  /\ heartbeatLoops = {l \in Loop : program.kind[l] = "outlined" /\ phase # "select"}
  /\ scope \subseteq heartbeatLoops /\ Recorded \subseteq scope /\ todo \subseteq scope
  /\ \A l \in scope : Outermost(l) \/ program.caller[l] \in scope
  /\ scope \subseteq todo \cup Recorded \cup OnStack
  /\ phase = "nests" => scope = heartbeatLoops
  /\ phase \in {"levels", "transform"} => nest \in 0..(nestID - 1) /\ scope = nestIDToLoops[nest]

\* What is recorded of a loop is so of its callers, and is what the program says.
RecordsOK ==
  /\ \A l \in Recorded : /\ loopToLevel[l] = program.depth[l]
                          /\ loopToRoot[l] = program.root[l]
                          /\ (Outermost(l) \/ program.caller[l] \in Recorded)
  /\ \A l \in Loop \ Recorded : loopToRoot[l] = None
  /\ \A l \in Recorded \cup OnStack : loopToCallerLoop[l] = program.caller[l]
  /\ \A l \in Loop \ (Recorded \cup OnStack) : loopToCallerLoop[l] = None

\* The loop of a level has that level, and no level below a recorded one is
\* without a loop.
LevelsOK ==
  /\ \A v \in Levels : levelToLoop[v] # None =>
       levelToLoop[v] \in Recorded /\ program.depth[levelToLoop[v]] = v
  /\ \A l \in Recorded : \A v \in 0..program.depth[l] : levelToLoop[v] # None

\* The loops that nest analysis has put into a nest.
Placed == IF phase \in {"select", "nests"} THEN Recorded ELSE heartbeatLoops

\* A nest and its root belong to each other, and it holds the loops of the root.
NestsOK ==
  /\ \A n \in 0..(nestID - 1) : /\ n \in Nests /\ nestIDToRoot[n] \in Placed
                                /\ Outermost(nestIDToRoot[n])
                                /\ rootToNestID[nestIDToRoot[n]] = n
                                /\ nestIDToLoops[n] = {l \in Placed : program.root[l] = nestIDToRoot[n]}
  /\ \A n \in Nests : n >= nestID => nestIDToLoops[n] = {}
  /\ \A l \in Placed : /\ program.root[l] \in Placed /\ Outermost(program.root[l])
                        /\ rootToNestID[program.root[l]] \in 0..(nestID - 1)
                        /\ nestIDToRoot[rootToNestID[program.root[l]]] = program.root[l]
  /\ phase \notin {"select", "nests"} => pending \subseteq 0..(nestID - 1)

\* Together: what both analyses preserve at every step of the walks, for nest
\* and level analysis alike, and enough for the three properties above.
IInv ==
  /\ AnalysisOK /\ NoAssertFails
  /\ StackOK /\ ScopeOK /\ RecordsOK /\ LevelsOK /\ NestsOK /\ LevelsAreDepth
=============================================================================
