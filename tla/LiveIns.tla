------------------------------- MODULE LiveIns ------------------------------
(***************************************************************************)
(* Compile time: how the values a nested loop needs reach its slice task.  *)
(*                                                                         *)
(* The outlined functions of a nest call each other, level 1 being the     *)
(* root here.  A value an argument stands for may be used in the loop, be  *)
(* its start or its exit value, or be passed on.  Values that come all the *)
(* way from an argument of the root are constant live-ins, which every     *)
(* slice reads from one array; others are stored by the caller's slice     *)
(* into an environment; bounds are stored into the context.  The analysis  *)
(* decides which; the transformation of one loop after the other relies    *)
(* on what it decided for the caller.                                      *)
(***************************************************************************)
EXTENDS Integers, Sequences, FiniteSets

CONSTANTS
  Depth,      \* levels of the nest
  Arity,      \* arguments of every outlined function
  Bounds,     \* the bounds a loop may have: [start, exit, smax]
  Doubles     \* arguments of the root that are of a floating-point type

Level == 1..Depth
Arg   == 1..Arity
Const == 0    \* a constant bound, or no argument
Instr == -1   \* an instruction of the caller's loop body as operand of a call

\* A bound is an argument or constant; with smax the loop stops at the maximum
\* of the argument and a constant, computed before the loop.
ASSUME LiveInAssumption ==
  /\ Depth \in Nat \ {0} /\ Arity \in Nat
  /\ Bounds \subseteq [start : {Const} \cup Arg, exit : {Const} \cup Arg, smax : BOOLEAN]
  /\ Doubles \subseteq Arg

VARIABLES
  bound,      \* of each level, the bounds of its loop
  body,       \* of each level, the arguments used in its loop otherwise
  operand,    \* of each level but the last, what it passes at each position
  phase, rootArg, stack,                 \* the analysis: argument of the root, calls to return
  loopToSkippedLiveIns, loopToConstantLiveIns, constantLiveInsArgIndex,
  constantLiveInsArgIndexToIndex,
  level,      \* the level transformed next
  array,      \* contents of the constant live-ins array
  environment,                           \* of each level, the arguments in its environment
  loaded,     \* of each level, what its slice loads for an argument
  stored      \* of each level, the bounds its caller stores

programVars  == <<bound, body, operand>>
analysisVars == <<rootArg, stack, loopToSkippedLiveIns, loopToConstantLiveIns,
                  constantLiveInsArgIndex>>
codeVars     == <<level, array, environment, loaded, stored>>
vars == <<programVars, phase, analysisVars, constantLiveInsArgIndexToIndex, codeVars>>

\* Values: an argument of the root, the address of a copy of it, an instruction
\* of the caller's body, a constant; Dangling refers to another function.
RootArg(k)     == <<"argument", k>>
AddressOf(k)   == <<"address", k>>
Computed(v, x) == <<"instruction", v, x>>
Dangling       == <<"dangling">>
Unread         == <<"not loaded">>
ConstValue     == <<"constant">>
-----------------------------------------------------------------------------
Init ==
  /\ bound \in [Level -> Bounds]
  /\ body \in [Level -> SUBSET Arg]
  /\ operand \in [1..(Depth - 1) -> [Arg -> Arg \cup {Instr}]]
  /\ phase = "analyse" /\ rootArg = 0 /\ stack = <<>>
  /\ loopToSkippedLiveIns = [v \in Level |-> {}]
  /\ loopToConstantLiveIns = [v \in Level |-> [x \in Arg |-> Const]]
  /\ constantLiveInsArgIndex = {}
  /\ constantLiveInsArgIndexToIndex = [k \in Arg |-> 0]
  /\ level = 1
  /\ array = [i \in 1..Arity |-> Unread]
  /\ environment = [v \in Level |-> {}]
  /\ loaded = [v \in Level |-> [x \in Arg |-> Unread]]
  /\ stored = [v \in Level |-> [start |-> ConstValue, exit |-> ConstValue]]

\* Positions at which level v passes argument x on.
Passed(v, x)   == IF v = Depth THEN {} ELSE {j \in Arg : operand[v][j] = x}
\* Uses as a bound that belong to the induction variable of the loop.
BoundUse(v, x) == bound[v].start = x \/ (bound[v].exit = x /\ ~bound[v].smax)
\* Uses by the call of smax in front of the loop.
SmaxUse(v, x)  == bound[v].exit = x /\ bound[v].smax

(* (only a direct start or exit value) *)
IsDirectBound(x, v) == BoundUse(v, x)
IsArgStartOrExitValue(x, v) == BoundUse(v, x) \/ SmaxUse(v, x)

\* The next argument of the root.
AnalyseRootArgument ==
  /\ phase = "analyse" /\ stack = <<>> /\ rootArg < Arity
  /\ rootArg' = rootArg + 1
  /\ stack' = <<[level |-> 1, arg |-> rootArg']>>
  /\ UNCHANGED <<programVars, phase, loopToSkippedLiveIns, loopToConstantLiveIns,
                 constantLiveInsArgIndex, constantLiveInsArgIndexToIndex, codeVars>>

\* An argument is a constant live-in of the loop if it is used in it other than
\* as its bound, by smax included, or is a bound of the loop it is passed to.
(* (bounds of the nested loop not considered) *)
IsConstantByUse(v, x) == x \in body[v] \/ SmaxUse(v, x)
IsConstant(v, x) ==
  \/ x \in body[v] \/ SmaxUse(v, x)
  \/ \E j \in Passed(v, x) : IsArgStartOrExitValue(j, v + 1)

\* constantLiveInToLoop for one loop; it calls itself for every argument of the
\* nested function that stands for the same value.  All it does is to insert,
\* so that the calls may as well run after it.
ConstantLiveInToLoop ==
  /\ phase = "analyse" /\ stack # <<>>
  /\ LET v == Head(stack).level
         x == Head(stack).arg
         nested == {[level |-> v + 1, arg |-> j] : j \in Passed(v, x)}
     IN /\ loopToSkippedLiveIns' = [loopToSkippedLiveIns EXCEPT ![v] = @ \cup {x}]
        /\ IF IsConstant(v, x)
           THEN /\ loopToConstantLiveIns' = [loopToConstantLiveIns EXCEPT ![v][x] = rootArg]
                /\ constantLiveInsArgIndex' = constantLiveInsArgIndex \cup {rootArg}
           ELSE UNCHANGED <<loopToConstantLiveIns, constantLiveInsArgIndex>>
        /\ \E order \in [1..Cardinality(nested) -> nested] :
             /\ \A i, j \in DOMAIN order : i < j => order[i].arg < order[j].arg
             /\ stack' = order \o Tail(stack)
  /\ UNCHANGED <<programVars, phase, rootArg, constantLiveInsArgIndexToIndex, codeVars>>

\* Constant live-ins are numbered in the order of an unordered_set: any.
NumberConstants ==
  /\ phase = "analyse" /\ stack = <<>> /\ rootArg = Arity
  /\ \E number \in [constantLiveInsArgIndex -> 1..Cardinality(constantLiveInsArgIndex)] :
       /\ \A k, m \in constantLiveInsArgIndex : number[k] = number[m] => k = m
       /\ constantLiveInsArgIndexToIndex' =
            [k \in Arg |-> IF k \in constantLiveInsArgIndex THEN number[k] ELSE 0]
  /\ phase' = "transform"
  /\ UNCHANGED <<programVars, analysisVars, codeVars>>
-----------------------------------------------------------------------------
\* Live-ins of the loop as NOELLE finds them: arguments used inside.
LiveIn(v) == {x \in Arg : BoundUse(v, x) \/ x \in body[v] \/ Passed(v, x) # {}}

Uses(v, x) == Cardinality(Passed(v, x)) + (IF x \in body[v] THEN 1 ELSE 0)
              + (IF bound[v].start = x THEN 1 ELSE 0) + (IF bound[v].exit = x THEN 1 ELSE 0)

ConstantVars(v) == {x \in LiveIn(v) : loopToConstantLiveIns[v][x] # Const}

\* shouldThisVariableBeSkipped: found skipped by the analysis, or nothing but a
\* bound of the loop, which the caller stores into the context.
\* (whatever the analysis found)
SkippedOnlyBound(v, x) == Uses(v, x) = 1 /\ BoundUse(v, x)
Skipped(v, x) == x \in loopToSkippedLiveIns[v] \/ (Uses(v, x) = 1 /\ BoundUse(v, x))

\* The environment holds the live-ins that are neither constant nor skipped.
SingleVars(v) == {x \in LiveIn(v) \ ConstantVars(v) : ~Skipped(v, x)}

\* A constant as it is stored, a double by the address of a copy, and as it is
\* loaded, by the type of the argument.
AsStored(k) == IF k \in Doubles THEN AddressOf(k) ELSE RootArg(k)
AsLoaded(k, word) == IF k \notin Doubles THEN word
                     ELSE IF word = AddressOf(k) THEN RootArg(k) ELSE Dangling

\* The original function of the root fills the array of constant live-ins.
StoredArray ==
  [i \in 1..Arity |->
     LET from == {k \in constantLiveInsArgIndex : constantLiveInsArgIndexToIndex[k] = i} IN
     IF from = {} THEN Unread ELSE AsStored(CHOOSE k \in from : TRUE)]

\* An argument in the slice of level v: what it loads, or the argument of
\* the original function when it loads nothing.
InSlice(v, x) == IF loaded[v][x] = Unread THEN Dangling ELSE loaded[v][x]

\* What the slice of level v - 1 has for argument x of level v.
FromCaller(v, x) ==
  IF operand[v - 1][x] = Instr THEN Computed(v - 1, x) ELSE InSlice(v - 1, operand[v - 1][x])

\* The element of the array a slice loads for a constant live-in.
(* (the index of the root's argument instead of its number) *)
ElementOfArgument(k) == k
ElementOf(k) == constantLiveInsArgIndexToIndex[k]

Loads(v, contents) ==
  [x \in Arg |->
     LET k == loopToConstantLiveIns[v][x] IN
     IF x \in ConstantVars(v) THEN AsLoaded(k, contents[ElementOf(k)])
     ELSE IF x \in SingleVars(v) /\ v > 1 THEN FromCaller(v, x)
     ELSE Unread]

\* The bounds the slice of the caller stores into the context of the next
\* level.  The argument of smax is stored as it is.
StoredBounds(v) ==
  [start |-> IF bound[v].start = Const THEN ConstValue ELSE FromCaller(v, bound[v].start),
   exit  |-> IF bound[v].exit  = Const THEN ConstValue ELSE FromCaller(v, bound[v].exit)]

\* HeartbeatTransformation::apply of the root.  No values are stored into its
\* environment.
TransformRoot ==
  /\ phase = "transform" /\ level = 1
  /\ array' = StoredArray
  /\ environment' = [environment EXCEPT ![1] = SingleVars(1)]
  /\ loaded' = [loaded EXCEPT ![1] = Loads(1, StoredArray)]
  /\ level' = 2
  /\ UNCHANGED <<programVars, phase, analysisVars, constantLiveInsArgIndexToIndex, stored>>

\* HeartbeatTransformation::apply of a nested loop, called in its caller's slice.
TransformNested ==
  /\ phase = "transform" /\ level \in 2..Depth
  /\ environment' = [environment EXCEPT ![level] = SingleVars(level)]
  /\ loaded' = [loaded EXCEPT ![level] = Loads(level, array)]
  /\ stored' = [stored EXCEPT ![level] = StoredBounds(level)]
  /\ level' = level + 1
  /\ UNCHANGED <<programVars, phase, analysisVars, constantLiveInsArgIndexToIndex, array>>

Finished ==
  /\ phase = "transform" /\ level = Depth + 1
  /\ phase' = "done"
  /\ UNCHANGED <<programVars, analysisVars, constantLiveInsArgIndexToIndex, codeVars>>

Ended == phase = "done" /\ UNCHANGED vars

Next ==
  \/ AnalyseRootArgument \/ ConstantLiveInToLoop \/ NumberConstants
  \/ TransformRoot \/ TransformNested \/ Finished \/ Ended

Spec == Init /\ [][Next]_vars
-----------------------------------------------------------------------------
\* What argument x of level v stands for in the program.
Meaning[v \in Level] ==
  [x \in Arg |-> IF v = 1 THEN RootArg(x)
                 ELSE IF operand[v - 1][x] = Instr THEN Computed(v - 1, x)
                 ELSE Meaning[v - 1][operand[v - 1][x]]]

Values == {RootArg(k) : k \in Arg} \cup {AddressOf(k) : k \in Arg} \cup
          {Computed(v, x) : v \in Level, x \in Arg} \cup {Unread, ConstValue}

TypeOK ==
  /\ bound \in [Level -> Bounds] /\ body \in [Level -> SUBSET Arg]
  /\ operand \in [1..(Depth - 1) -> [Arg -> Arg \cup {Instr}]]
  /\ phase \in {"analyse", "transform", "done"} /\ rootArg \in 0..Arity
  /\ stack \in Seq([level : Level, arg : Arg])
  /\ loopToSkippedLiveIns \in [Level -> SUBSET Arg]
  /\ loopToConstantLiveIns \in [Level -> [Arg -> {Const} \cup Arg]]
  /\ constantLiveInsArgIndex \subseteq Arg
  /\ constantLiveInsArgIndexToIndex \in [Arg -> 0..Arity]
  /\ level \in 1..(Depth + 1)
  /\ array \in [1..Arity -> Values] /\ environment \in [Level -> SUBSET Arg]
  /\ loaded \in [Level -> [Arg -> Values]]
  /\ stored \in [Level -> [start : Values, exit : Values]]

\* Every value a loop body uses is loaded by its slice, and is the value the
\* program passes down to it, through however many levels.
BodySeesProgram ==
  phase = "done" =>
    \A v \in Level : \A x \in body[v] : loaded[v][x] = Meaning[v][x]

\* The bounds a slice stores for the next level are those the program gives it,
\* of a maximum its argument.
BoundsAreProgram ==
  phase = "done" =>
    \A v \in 2..Depth :
      /\ bound[v].start # Const => stored[v].start = Meaning[v][bound[v].start]
      /\ bound[v].exit  # Const => stored[v].exit  = Meaning[v][bound[v].exit]

\* What comes from an argument of the root is never passed through an
\* environment: slices at all levels read it from the one array.  In particular
\* the root, for which the original function stores nothing else, needs none.
ConstantsInArray ==
  phase = "done" =>
    \A v \in Level : \A x \in environment[v] : Meaning[v][x] \notin {RootArg(k) : k \in Arg}
-----------------------------------------------------------------------------
\* The inductive invariant.  A call of constantLiveInToLoop that is still to
\* come is about a value that comes from the argument being analysed.
CallsOK ==
  \A i \in DOMAIN stack :
    rootArg \in Arg /\ Meaning[stack[i].level][stack[i].arg] = RootArg(rootArg)

ToCome(v, x) == \E i \in DOMAIN stack : stack[i] = [level |-> v, arg |-> x]

\* What was found to come from an argument of the root does so, and what it is
\* passed on as has been found or is to come.
FoundOK ==
  /\ \A v \in Level : \A x \in loopToSkippedLiveIns[v] :
       /\ \E k \in 1..rootArg : Meaning[v][x] = RootArg(k)
       /\ \A j \in Passed(v, x) : j \in loopToSkippedLiveIns[v + 1] \/ ToCome(v + 1, j)
  /\ \A k \in 1..rootArg : k \in loopToSkippedLiveIns[1] \/ ToCome(1, k)

\* The constant live-ins are those found that are used, under their origin.
ConstantsOK ==
  \A v \in Level, x \in Arg :
    LET k == loopToConstantLiveIns[v][x] IN
    IF x \in loopToSkippedLiveIns[v] /\ IsConstant(v, x)
    THEN k \in constantLiveInsArgIndex /\ Meaning[v][x] = RootArg(k)
    ELSE k = Const

\* After the analysis nothing is to come and the numbers are different.
NumbersOK ==
  IF phase = "analyse" THEN level = 1
  ELSE /\ stack = <<>> /\ rootArg = Arity
       /\ \A k \in constantLiveInsArgIndex : constantLiveInsArgIndexToIndex[k] # 0
       /\ \A k, m \in constantLiveInsArgIndex :
            constantLiveInsArgIndexToIndex[k] = constantLiveInsArgIndexToIndex[m] => k = m

\* Slices that have been made load the values of the program, or nothing.
SlicesOK ==
  /\ level > 1 => \A k \in constantLiveInsArgIndex : array[ElementOf(k)] = AsStored(k)
  /\ \A v \in 1..(level - 1) :
       /\ environment[v] = SingleVars(v)
       /\ \A x \in Arg : loaded[v][x] = IF x \in ConstantVars(v) \cup SingleVars(v)
                                       THEN Meaning[v][x] ELSE Unread
  /\ \A v \in 2..(level - 1) :
       /\ bound[v].start # Const => stored[v].start = Meaning[v][bound[v].start]
       /\ bound[v].exit  # Const => stored[v].exit  = Meaning[v][bound[v].exit]
  /\ phase = "done" => level = Depth + 1

LiveInsInv == TypeOK /\ CallsOK /\ FoundOK /\ ConstantsOK /\ NumbersOK /\ SlicesOK
=============================================================================
