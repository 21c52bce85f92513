---------------------------- MODULE LiveInsProofs ---------------------------
(***************************************************************************)
(* Proofs about LiveIns: for nests of any depth, functions of any arity    *)
(* and any bounds, slices get what the program passes down.  The analysis  *)
(* finds exactly what comes from an argument of the root, and whatever the *)
(* transformation of a loop needs of its caller the slice of the caller    *)
(* has loaded.                                                             *)
(***************************************************************************)
EXTENDS LiveIns, FiniteSetTheorems, FunctionTheorems, SequenceTheorems, NaturalsInduction,
        WellFoundedInduction, TLAPS

LEMMA Numbers ==
  /\ Depth \in Nat /\ Depth >= 1 /\ Arity \in Nat
  /\ \A v : v \in Level <=> v \in Nat /\ 1 <= v /\ v <= Depth
  /\ \A x : x \in Arg <=> x \in Nat /\ 1 <= x /\ x <= Arity
  /\ 1 \in Level /\ Const \notin Arg /\ Instr \notin Arg
BY LiveInAssumption DEF Level, Arg, Const, Instr
-----------------------------------------------------------------------------
(***************************************************************************)
(* What an argument means.                                                 *)
(***************************************************************************)

\* One level of Meaning, by what the level above means.
MeaningAt(meaning, v) ==
  [x \in Arg |-> IF v = 1 THEN RootArg(x)
                 ELSE IF operand[v - 1][x] = Instr THEN Computed(v - 1, x)
                 ELSE meaning[v - 1][operand[v - 1][x]]]

\* The recursion of Meaning has a solution for every number of levels: the first
\* number without one would have one.
LEMMA MeaningExists ==
  \E f : f = [v \in Level |-> MeaningAt(f, v)]
<1> DEFINE Solved(n) == \E f : f = [v \in 1..n |-> MeaningAt(f, v)]
           bad == {n \in Nat : ~Solved(n)}
<1>1. bad = {}
  <2> SUFFICES ASSUME bad # {} PROVE FALSE
    OBVIOUS
  <2>1. bad \subseteq Nat
    OBVIOUS
  <2>2. PICK n \in bad : \A m \in bad : <<m, n>> \notin OpToRel(<, Nat)
    <3> HIDE DEF bad
    <3> QED BY <2>1, NatLessThanWellFounded, WFMin, Zenon
  <2>3. n \in Nat /\ \A m \in Nat : m < n => Solved(m)
    BY <2>2 DEF OpToRel
  <2>4. CASE n = 0
    <3>1. 1..n = {}
      BY <2>4
    <3> DEFINE f == [v \in {} |-> 0]
    <3>2. f = [v \in 1..n |-> MeaningAt(f, v)]
      BY <3>1
    <3> QED BY <3>2, <2>2
  <2>5. CASE n # 0
    <3>1. n - 1 \in Nat /\ n - 1 < n
      BY <2>3, <2>5
    <3>2. PICK h : h = [v \in 1..(n - 1) |-> MeaningAt(h, v)]
      BY <2>3, <3>1
    <3> DEFINE f == [v \in 1..n |-> MeaningAt(h, v)]
    <3>3. ASSUME NEW v \in 1..n PROVE MeaningAt(h, v) = MeaningAt(f, v)
      <4>1. CASE v = 1
        BY <4>1 DEF MeaningAt
      <4>2. CASE v # 1
        <5>1. v - 1 \in 1..(n - 1) /\ v - 1 \in 1..n
          BY <4>2, <2>3
        <5>2. h[v - 1] = f[v - 1]
          BY <5>1, <3>2
        <5> QED BY <5>2 DEF MeaningAt
      <4> QED BY <4>1, <4>2
    <3>4. f = [v \in 1..n |-> MeaningAt(f, v)]
      BY <3>3
    <3> QED BY <3>4, <2>2
  <2> QED BY <2>4, <2>5
<1>2. Solved(Depth)
  BY <1>1, Numbers
<1> QED BY <1>2 DEF Level

LEMMA MeaningUnfolds ==
  Meaning = [v \in Level |-> MeaningAt(Meaning, v)]
<1>1. PICK f : f = [v \in Level |-> MeaningAt(f, v)]
  BY MeaningExists
<1> QED BY <1>1, Zenon DEF Meaning, MeaningAt

\* The root has its own arguments.
LEMMA MeaningOfRoot ==
  ASSUME NEW x \in Arg
  PROVE  Meaning[1][x] = RootArg(x)
BY MeaningUnfolds, Numbers DEF MeaningAt

\* A nested function has what its caller passes.
LEMMA MeaningOfNested ==
  ASSUME NEW v \in Level, v # 1, NEW x \in Arg
  PROVE  Meaning[v][x] = IF operand[v - 1][x] = Instr THEN Computed(v - 1, x)
                         ELSE Meaning[v - 1][operand[v - 1][x]]
<1> DEFINE m == Meaning
<1>1. m = [w \in Level |-> MeaningAt(m, w)]
  BY MeaningUnfolds
<1> HIDE DEF m
<1>2. m[v] = MeaningAt(m, v)
  BY <1>1
<1>3. m[v][x] = IF operand[v - 1][x] = Instr THEN Computed(v - 1, x)
                ELSE m[v - 1][operand[v - 1][x]]
  BY <1>2 DEF MeaningAt
<1> QED BY <1>3 DEF m

LEMMA MeaningKept ==
  ASSUME UNCHANGED programVars
  PROVE  Meaning' = Meaning
BY DEF Meaning, programVars

LEMMA Origins ==
  /\ \A k, m : RootArg(k) = RootArg(m) => k = m
  /\ \A k, v, x : RootArg(k) # Computed(v, x)
  /\ \A k : RootArg(k) # Unread
  /\ \A v, x : Computed(v, x) # Unread
BY DEF RootArg, Computed, Unread

\* Every argument means an argument of the root or an instruction of a caller.
LEMMA MeaningIsValue ==
  ASSUME TypeOK, NEW v \in Level, NEW x \in Arg
  PROVE  /\ Meaning[v][x] \in Values
         /\ Meaning[v][x] # Unread
<1> DEFINE m == Meaning
           IsValue(w) == \A y \in Arg : \/ \E k \in Arg : m[w][y] = RootArg(k)
                                        \/ \E u \in Level, z \in Arg : m[w][y] = Computed(u, z)
           bad == {w \in Level : ~IsValue(w)}
<1>1. bad = {}
  <2> SUFFICES ASSUME bad # {} PROVE FALSE
    OBVIOUS
  <2>1. bad \subseteq Nat
    BY Numbers
  <2>2. PICK w \in bad : \A n \in bad : <<n, w>> \notin OpToRel(<, Nat)
    <3> HIDE DEF bad
    <3> QED BY <2>1, NatLessThanWellFounded, WFMin, Zenon
  <2>3. w \in Level /\ w \in Nat
    BY <2>1, <2>2
  <2>4. CASE w = 1
    BY <2>2, <2>4, MeaningOfRoot
  <2>5. CASE w # 1
    <3>1. w - 1 \in Level /\ w - 1 < w /\ w - 1 \in 1..(Depth - 1)
      BY <2>3, <2>5, Numbers
    <3>2. IsValue(w - 1)
      BY <2>1, <2>2, <3>1 DEF OpToRel
    <3>3. \A y \in Arg : m[w][y] = IF operand[w - 1][y] = Instr THEN Computed(w - 1, y)
                                   ELSE m[w - 1][operand[w - 1][y]]
      BY <2>3, <2>5, MeaningOfNested
    <3>4. \A y \in Arg : operand[w - 1][y] \in Arg \cup {Instr}
      BY <3>1 DEF TypeOK
    <3> HIDE DEF m
    <3>5. IsValue(w)
      BY <3>1, <3>2, <3>3, <3>4
    <3> QED BY <3>5, <2>2
  <2> QED BY <2>4, <2>5
<1>2. IsValue(v)
  BY <1>1
<1> HIDE DEF m
<1>3. \/ \E k \in Arg : m[v][x] = RootArg(k)
      \/ \E u \in Level, z \in Arg : m[v][x] = Computed(u, z)
  BY <1>2
<1>4. m[v][x] \in Values
  BY <1>3 DEF Values
<1>5. m[v][x] # Unread
  BY <1>3, Origins, Zenon
<1> QED BY <1>4, <1>5 DEF m

\* What is passed on means the same one level further in.
LEMMA PassedOn ==
  ASSUME TypeOK, NEW v \in Level, NEW x \in Arg, NEW j \in Passed(v, x)
  PROVE  /\ v + 1 \in Level /\ v + 1 # 1 /\ j \in Arg
         /\ operand[v][j] = x
         /\ Meaning[v + 1][j] = Meaning[v][x]
<1>1. v # Depth /\ j \in Arg /\ operand[v][j] = x
  BY DEF Passed
<1>2. v + 1 \in Level /\ v + 1 # 1 /\ (v + 1) - 1 = v
  BY <1>1, Numbers
<1>3. Meaning[v + 1][j] = IF operand[(v + 1) - 1][j] = Instr THEN Computed((v + 1) - 1, j)
                          ELSE Meaning[(v + 1) - 1][operand[(v + 1) - 1][j]]
  BY <1>1, <1>2, MeaningOfNested
<1>4. x # Instr
  BY Numbers
<1> QED BY <1>1, <1>2, <1>3, <1>4
-----------------------------------------------------------------------------
(***************************************************************************)
(* The analysis.                                                           *)
(***************************************************************************)

\* At its end the analysis has found what comes from an argument of the root,
\* and nothing else: the outermost level where it had missed some would have
\* been passed it by one where it had not.
LEMMA FoundAll ==
  ASSUME TypeOK, FoundOK, stack = <<>>, rootArg = Arity, NEW v \in Level, NEW x \in Arg
  PROVE  x \in loopToSkippedLiveIns[v] <=> \E k \in Arg : Meaning[v][x] = RootArg(k)
<1> DEFINE m == Meaning
           FromRoot(w, y) == \E k \in Arg : m[w][y] = RootArg(k)
           bad == {w \in Level : \E y \in Arg : FromRoot(w, y) /\ y \notin loopToSkippedLiveIns[w]}
<1>1. \A w, y : ~ToCome(w, y)
  BY DEF ToCome
<1>2. bad = {}
  <2> SUFFICES ASSUME bad # {} PROVE FALSE
    OBVIOUS
  <2>1. bad \subseteq Nat
    BY Numbers
  <2>2. PICK w \in bad : \A n \in bad : <<n, w>> \notin OpToRel(<, Nat)
    <3> HIDE DEF bad
    <3> QED BY <2>1, NatLessThanWellFounded, WFMin, Zenon
  <2>3. w \in Level /\ w \in Nat
    BY <2>1, <2>2
  <2>4. PICK y \in Arg : FromRoot(w, y) /\ y \notin loopToSkippedLiveIns[w]
    BY <2>2
  <2>5. CASE w = 1
    <3>1. y \in 1..rootArg
      BY Numbers
    <3> QED BY <2>4, <2>5, <3>1, <1>1 DEF FoundOK
  <2>6. CASE w # 1
    <3>1. w - 1 \in Level /\ w - 1 < w /\ w - 1 \in 1..(Depth - 1) /\ (w - 1) + 1 = w /\ w - 1 # Depth
      BY <2>3, <2>6, Numbers
    <3>2. m[w][y] = IF operand[w - 1][y] = Instr THEN Computed(w - 1, y)
                    ELSE m[w - 1][operand[w - 1][y]]
      BY <2>3, <2>6, MeaningOfNested
    <3>3. operand[w - 1][y] \in Arg \cup {Instr}
      BY <3>1 DEF TypeOK
    <3> HIDE DEF m
    <3>4. operand[w - 1][y] \in Arg /\ FromRoot(w - 1, operand[w - 1][y])
      BY <2>4, <3>2, <3>3, Origins
    <3>5. operand[w - 1][y] \in loopToSkippedLiveIns[w - 1]
      BY <2>1, <2>2, <3>1, <3>4 DEF OpToRel
    <3>6. y \in Passed(w - 1, operand[w - 1][y])
      BY <3>1 DEF Passed
    <3>7. y \in loopToSkippedLiveIns[(w - 1) + 1]
      BY <3>1, <3>5, <3>6, <1>1 DEF FoundOK
    <3> QED BY <2>4, <3>1, <3>7
  <2> QED BY <2>5, <2>6
<1>3. ASSUME FromRoot(v, x) PROVE x \in loopToSkippedLiveIns[v]
  BY <1>2, <1>3
<1>4. ASSUME x \in loopToSkippedLiveIns[v] PROVE FromRoot(v, x)
  <2>1. \E k \in 1..rootArg : m[v][x] = RootArg(k)
    BY <1>4 DEF FoundOK
  <2> QED BY <2>1 DEF Arg
<1> QED BY <1>3, <1>4

\* The program stays as it is, and what is derived from it.
LEMMA ProgramKept ==
  ASSUME UNCHANGED programVars
  PROVE  /\ Meaning' = Meaning
         /\ \A v, x : Passed(v, x)' = Passed(v, x)
         /\ \A v, x : IsConstant(v, x)' <=> IsConstant(v, x)
<1>1. bound' = bound /\ body' = body /\ operand' = operand
  BY DEF programVars
<1>2. \A v, x : Passed(v, x)' = Passed(v, x)
  BY <1>1 DEF Passed
<1>3. \A v, x : /\ BoundUse(v, x)' <=> BoundUse(v, x)
                /\ SmaxUse(v, x)' <=> SmaxUse(v, x)
  BY <1>1 DEF BoundUse, SmaxUse
<1>4. \A v, x : IsConstant(v, x)' <=> IsConstant(v, x)
  BY <1>1, <1>2, <1>3, Zenon DEF IsConstant, IsArgStartOrExitValue
<1> QED BY <1>2, <1>4, MeaningKept

LEMMA InitHolds == Init => LiveInsInv
<1> SUFFICES ASSUME Init PROVE LiveInsInv
  OBVIOUS
<1>1. stack = <<>> /\ rootArg = 0 /\ level = 1 /\ phase = "analyse"
  BY DEF Init
<1>2. TypeOK
  <2>1. stack \in Seq([level : Level, arg : Arg])
    BY <1>1
  <2>2. rootArg \in 0..Arity /\ level \in 1..(Depth + 1)
    BY <1>1, Numbers
  <2>3. array \in [1..Arity -> Values] /\ loaded \in [Level -> [Arg -> Values]]
    BY DEF Init, Values
  <2>4. stored \in [Level -> [start : Values, exit : Values]]
    BY DEF Init, Values
  <2>5. constantLiveInsArgIndexToIndex \in [Arg -> 0..Arity]
    BY Numbers DEF Init
  <2> QED BY <2>1, <2>2, <2>3, <2>4, <2>5 DEF Init, TypeOK
<1>3. CallsOK
  BY <1>1 DEF CallsOK
<1>4. FoundOK
  BY <1>1 DEF FoundOK, Init
<1>5. ConstantsOK
  BY DEF ConstantsOK, Init
<1>6. NumbersOK
  BY <1>1 DEF NumbersOK
<1>7. SlicesOK
  BY <1>1 DEF SlicesOK
<1> QED BY <1>2, <1>3, <1>4, <1>5, <1>6, <1>7 DEF LiveInsInv

\* What no step of the analysis touches.
LEMMA SlicesWait ==
  ASSUME LiveInsInv, phase = "analyse", phase' = "analyse", UNCHANGED codeVars
  PROVE  NumbersOK' /\ SlicesOK'
<1>1. level = 1 /\ level' = 1
  BY DEF LiveInsInv, NumbersOK, codeVars
<1> QED BY <1>1 DEF NumbersOK, SlicesOK

LEMMA AnalyseRootArgumentKeeps ==
  ASSUME LiveInsInv, AnalyseRootArgument
  PROVE  LiveInsInv'
<1>1. /\ phase = "analyse" /\ phase' = phase /\ stack = <<>> /\ rootArg < Arity
      /\ rootArg' = rootArg + 1 /\ stack' = <<[level |-> 1, arg |-> rootArg']>>
      /\ UNCHANGED <<programVars, loopToSkippedLiveIns, loopToConstantLiveIns,
                     constantLiveInsArgIndex, constantLiveInsArgIndexToIndex, codeVars>>
  BY DEF AnalyseRootArgument
<1>2. TypeOK
  BY DEF LiveInsInv
<1>3. /\ rootArg \in Nat /\ rootArg' \in Arg /\ rootArg' \in 0..Arity
      /\ \A k : k \in 1..rootArg' <=> k \in 1..rootArg \/ k = rootArg'
  <2>1. rootArg \in Nat /\ rootArg' = rootArg + 1 /\ rootArg + 1 <= Arity /\ Arity \in Nat
    BY <1>1, <1>2, Numbers DEF TypeOK
  <2>2. rootArg' \in Arg /\ rootArg' \in 0..Arity
    BY <2>1, Numbers
  <2> QED BY <2>1, <2>2
<1>4. Meaning' = Meaning /\ \A v, x : Passed(v, x)' = Passed(v, x)
  BY <1>1, ProgramKept
<1>5. \A v, x : IsConstant(v, x)' <=> IsConstant(v, x)
  BY <1>1, ProgramKept
<1>6. TypeOK'
  <2>1. stack' \in Seq([level : Level, arg : Arg])
    BY <1>1, <1>3, Numbers
  <2> QED BY <1>1, <1>2, <1>3, <2>1 DEF TypeOK, programVars, codeVars
<1>7. CallsOK'
  <2>1. DOMAIN stack' = {1} /\ stack'[1] = [level |-> 1, arg |-> rootArg']
    BY <1>1
  <2>2. Meaning[1][rootArg'] = RootArg(rootArg')
    BY <1>3, MeaningOfRoot
  <2> QED BY <2>1, <2>2, <1>3, <1>4 DEF CallsOK
<1>8. FoundOK'
  <2>1. ASSUME NEW k, k = rootArg' PROVE ToCome(1, k)'
    <3>1. 1 \in DOMAIN stack' /\ stack'[1] = [level |-> 1, arg |-> k]
      BY <1>1, <2>1
    <3> QED BY <3>1 DEF ToCome
  <2>2. \A v, x : ~ToCome(v, x)
    BY <1>1 DEF ToCome
  <2>3. FoundOK
    BY DEF LiveInsInv
  <2>4. ASSUME NEW v \in Level, NEW x \in loopToSkippedLiveIns'[v]
        PROVE  /\ \E k \in 1..rootArg' : Meaning'[v][x] = RootArg(k)
               /\ \A j \in Passed(v, x)' : j \in loopToSkippedLiveIns'[v + 1] \/ ToCome(v + 1, j)'
    <3>1. x \in loopToSkippedLiveIns[v]
      BY <1>1
    <3>2. \E k \in 1..rootArg : Meaning[v][x] = RootArg(k)
      BY <2>3, <3>1 DEF FoundOK
    <3>3. \A j \in Passed(v, x) : j \in loopToSkippedLiveIns[v + 1]
      BY <2>2, <2>3, <3>1 DEF FoundOK
    <3>4. \E k \in 1..rootArg' : Meaning'[v][x] = RootArg(k)
      BY <3>2, <1>3, <1>4
    <3> QED BY <3>3, <3>4, <1>1, <1>4
  <2>5. ASSUME NEW k \in 1..rootArg'
        PROVE  k \in loopToSkippedLiveIns'[1] \/ ToCome(1, k)'
    <3>1. CASE k \in 1..rootArg
      BY <3>1, <2>2, <2>3, <1>1 DEF FoundOK
    <3>2. CASE k = rootArg'
      BY <3>2, <2>1
    <3> QED BY <3>1, <3>2, <1>3
  <2> QED BY <2>4, <2>5 DEF FoundOK
<1>9. ConstantsOK'
  <2>1. ConstantsOK
    BY DEF LiveInsInv
  <2> QED BY <2>1, <1>1, <1>4, <1>5 DEF ConstantsOK
<1>10. NumbersOK' /\ SlicesOK'
  BY <1>1, SlicesWait
<1> QED BY <1>6, <1>7, <1>8, <1>9, <1>10 DEF LiveInsInv

\* Calls in the order of the arguments are a sequence of all of them.
LEMMA CallsOrdered ==
  ASSUME NEW S, IsFiniteSet(S), \A e \in S : e.arg \in Int,
         NEW order \in [1..Cardinality(S) -> S],
         \A i, j \in DOMAIN order : i < j => order[i].arg < order[j].arg
  PROVE  /\ order \in Seq(S) /\ Len(order) = Cardinality(S)
         /\ \A e \in S : \E i \in 1..Len(order) : order[i] = e
<1>1. Cardinality(S) \in Nat
  BY FS_CardinalityType
<1>2. order \in Seq(S) /\ Len(order) = Cardinality(S)
  BY <1>1
<1>3. ASSUME NEW i \in 1..Cardinality(S), NEW j \in 1..Cardinality(S), order[i] = order[j]
      PROVE  i = j
  <2>1. order[i].arg \in Int /\ order[j].arg \in Int /\ order[i].arg = order[j].arg
    BY <1>3
  <2>2. ~(i < j) /\ ~(j < i)
    BY <2>1
  <2> QED BY <2>2, <1>1
<1>4. order \in Injection(1..Cardinality(S), S)
  BY <1>3 DEF Injection, IsInjective
<1>5. IsFiniteSet(1..Cardinality(S)) /\ Cardinality(1..Cardinality(S)) = Cardinality(S)
  BY <1>1, FS_Interval
<1>6. order \in Surjection(1..Cardinality(S), S)
  BY <1>4, <1>5, FS_Injection
<1>7. \A e \in S : \E i \in 1..Cardinality(S) : order[i] = e
  BY <1>6 DEF Surjection
<1> QED BY <1>2, <1>7

CallsIn(calls) == {calls[i] : i \in DOMAIN calls}

\* A call for an argument of the nested function that stands for the same value.
IsCallFor(call, v, x) == \E j \in Passed(v, x) : call = [level |-> v + 1, arg |-> j]

\* The calls that are to come after one call: those it makes and the others.
LEMMA CallsToCome ==
  ASSUME TypeOK, ConstantLiveInToLoop, NEW v, NEW x, v = Head(stack).level, x = Head(stack).arg
  PROVE  /\ v \in Level /\ x \in Arg /\ stack[1] = [level |-> v, arg |-> x] /\ 1 \in DOMAIN stack
         /\ stack' \in Seq([level : Level, arg : Arg])
         /\ \A call \in CallsIn(stack') : IsCallFor(call, v, x) \/ call \in CallsIn(stack)
         /\ \A j \in Passed(v, x) : ToCome(v + 1, j)'
         /\ \A w, y : ToCome(w, y) => ToCome(w, y)' \/ (w = v /\ y = x)
<1> DEFINE nested == {[level |-> v + 1, arg |-> j] : j \in Passed(v, x)}
           Call == [level : Level, arg : Arg]
<1>1. stack \in Seq(Call) /\ stack # <<>>
  BY DEF TypeOK, ConstantLiveInToLoop
<1>2. /\ Head(stack) \in Call /\ Tail(stack) \in Seq(Call) /\ Len(Tail(stack)) = Len(stack) - 1
      /\ \A i \in 1..Len(Tail(stack)) : Tail(stack)[i] = stack[i + 1]
  BY <1>1, HeadTailProperties
<1>3. v \in Level /\ x \in Arg /\ Head(stack) = [level |-> v, arg |-> x]
  BY <1>2
<1>4. /\ Len(stack) \in Nat /\ Len(stack) >= 1 /\ DOMAIN stack = 1..Len(stack)
      /\ stack[1] = Head(stack)
  BY <1>1
<1>5. nested \subseteq Call
  BY <1>3, PassedOn
<1>6. IsFiniteSet(nested)
  <2>1. IsFiniteSet(Arg)
    BY Numbers, FS_Interval DEF Arg
  <2>2. IsFiniteSet(Passed(v, x))
    BY <2>1, FS_Subset DEF Passed
  <2> DEFINE f == [j \in Passed(v, x) |-> [level |-> v + 1, arg |-> j]]
  <2>3. f \in Surjection(Passed(v, x), nested)
    BY DEF Surjection
  <2> QED BY <2>2, <2>3, FS_Surjection
<1>7. PICK order \in [1..Cardinality(nested) -> nested] :
        /\ \A i, j \in DOMAIN order : i < j => order[i].arg < order[j].arg
        /\ stack' = order \o Tail(stack)
  BY DEF ConstantLiveInToLoop
<1>8. \A e \in nested : e.arg \in Int
  BY <1>5, Numbers
<1>9. /\ order \in Seq(nested)
      /\ \A e \in nested : \E i \in 1..Len(order) : order[i] = e
  <2> HIDE DEF nested
  <2> QED BY <1>6, <1>7, <1>8, CallsOrdered
<1>10. order \in Seq(Call) /\ \A i \in 1..Len(order) : order[i] \in nested
  <2> HIDE DEF nested, Call
  <2>1. order \in [1..Len(order) -> nested] /\ Len(order) \in Nat
    BY <1>9
  <2>2. order \in [1..Len(order) -> Call]
    BY <2>1, <1>5
  <2>3. order \in Seq(Call)
    BY <2>1, <2>2
  <2>4. \A i \in 1..Len(order) : order[i] \in nested
    BY <2>1
  <2> QED BY <2>3, <2>4
<1>11. /\ order \o Tail(stack) \in Seq(Call)
       /\ Len(order \o Tail(stack)) = Len(order) + Len(Tail(stack))
       /\ \A i \in 1 .. Len(order) + Len(Tail(stack)) : (order \o Tail(stack))[i] =
                     IF i <= Len(order) THEN order[i] ELSE Tail(stack)[i - Len(order)]
  <2> HIDE DEF Call
  <2> QED BY <1>2, <1>10, ConcatProperties
<1>12. Len(order) \in Nat /\ DOMAIN stack' = 1..(Len(order) + Len(stack) - 1)
  BY <1>2, <1>4, <1>7, <1>9, <1>11
<1>13. ASSUME NEW i \in DOMAIN stack'
       PROVE  \/ IsCallFor(stack'[i], v, x)
              \/ \E k \in DOMAIN stack : stack'[i] = stack[k]
  <2>1. CASE i <= Len(order)
    <3>1. stack'[i] \in nested
      BY <2>1, <1>2, <1>4, <1>7, <1>10, <1>11, <1>12
    <3> QED BY <3>1 DEF IsCallFor
  <2>2. CASE ~(i <= Len(order))
    <3>1. i - Len(order) \in 1..Len(Tail(stack)) /\ (i - Len(order)) + 1 \in DOMAIN stack
      BY <2>2, <1>2, <1>4, <1>12
    <3>2. stack'[i] = stack[(i - Len(order)) + 1]
      BY <2>2, <3>1, <1>2, <1>4, <1>7, <1>11, <1>12
    <3> QED BY <3>1, <3>2
  <2> QED BY <2>1, <2>2
<1>14. ASSUME NEW j \in Passed(v, x) PROVE ToCome(v + 1, j)'
  <2>1. PICK i \in 1..Len(order) : order[i] = [level |-> v + 1, arg |-> j]
    BY <1>9
  <2>2. i \in DOMAIN stack' /\ stack'[i] = order[i]
    BY <1>2, <1>4, <1>7, <1>11, <1>12
  <2> QED BY <2>1, <2>2 DEF ToCome
<1>15. ASSUME NEW w, NEW y, ToCome(w, y), ~(w = v /\ y = x) PROVE ToCome(w, y)'
  <2>1. PICK i \in DOMAIN stack : stack[i] = [level |-> w, arg |-> y]
    BY <1>15 DEF ToCome
  <2>2. i # 1
    BY <1>3, <1>4, <1>15, <2>1
  <2>3. i - 1 \in 1..Len(Tail(stack)) /\ (i - 1) + 1 = i
    BY <2>2, <1>2, <1>4
  <2>4. Len(order) + (i - 1) \in DOMAIN stack' /\ stack'[Len(order) + (i - 1)] = stack[i]
    BY <2>3, <1>2, <1>4, <1>7, <1>11, <1>12
  <2> QED BY <2>1, <2>4 DEF ToCome
<1>16. v \in Level /\ x \in Arg /\ stack[1] = [level |-> v, arg |-> x] /\ 1 \in DOMAIN stack
  BY <1>3, <1>4
<1>17. stack' \in Seq([level : Level, arg : Arg])
  BY <1>7, <1>11
<1>18. \A call \in CallsIn(stack') : IsCallFor(call, v, x) \/ call \in CallsIn(stack)
  BY <1>13 DEF CallsIn
<1> QED BY <1>14, <1>15, <1>16, <1>17, <1>18

LEMMA ConstantLiveInToLoopKeeps ==
  ASSUME LiveInsInv, ConstantLiveInToLoop
  PROVE  LiveInsInv'
<1>1. PICK v, x : v = Head(stack).level /\ x = Head(stack).arg
  OBVIOUS
<1>2. TypeOK /\ CallsOK /\ FoundOK /\ ConstantsOK
  BY DEF LiveInsInv
<1>3. /\ v \in Level /\ x \in Arg /\ stack[1] = [level |-> v, arg |-> x] /\ 1 \in DOMAIN stack
      /\ stack' \in Seq([level : Level, arg : Arg])
  BY <1>1, <1>2, CallsToCome
<1>4. /\ phase = "analyse" /\ phase' = phase /\ rootArg' = rootArg
      /\ loopToSkippedLiveIns' = [loopToSkippedLiveIns EXCEPT ![v] = @ \cup {x}]
      /\ UNCHANGED <<programVars, constantLiveInsArgIndexToIndex, codeVars>>
  BY <1>1 DEF ConstantLiveInToLoop
<1>5. IF IsConstant(v, x)
      THEN /\ loopToConstantLiveIns' = [loopToConstantLiveIns EXCEPT ![v][x] = rootArg]
           /\ constantLiveInsArgIndex' = constantLiveInsArgIndex \cup {rootArg}
      ELSE UNCHANGED <<loopToConstantLiveIns, constantLiveInsArgIndex>>
  BY <1>1, Zenon DEF ConstantLiveInToLoop
<1>6. /\ Meaning' = Meaning /\ \A w, y : Passed(w, y)' = Passed(w, y)
      /\ \A w, y : IsConstant(w, y)' <=> IsConstant(w, y)
  BY <1>4, ProgramKept
<1>7. rootArg \in Arg /\ Meaning[v][x] = RootArg(rootArg)
  BY <1>2, <1>3 DEF CallsOK
<1>8. \A w \in Level : loopToSkippedLiveIns'[w] =
        IF w = v THEN loopToSkippedLiveIns[w] \cup {x} ELSE loopToSkippedLiveIns[w]
  BY <1>2, <1>3, <1>4 DEF TypeOK
<1>9. \A w, y \in Nat : ToCome(w, y) =>
        \/ ToCome(w, y)'
        \/ w = v /\ y = x
  BY <1>1, <1>2, CallsToCome
<1>9a. \A call \in CallsIn(stack') : IsCallFor(call, v, x) \/ call \in CallsIn(stack)
  BY <1>1, <1>2, CallsToCome
<1>10. TypeOK'
  <2>1. loopToSkippedLiveIns' \in [Level -> SUBSET Arg]
    BY <1>2, <1>3, <1>4 DEF TypeOK
  <2>2. /\ loopToConstantLiveIns' \in [Level -> [Arg -> {Const} \cup Arg]]
        /\ constantLiveInsArgIndex' \subseteq Arg
    <3>1. /\ loopToConstantLiveIns \in [Level -> [Arg -> {Const} \cup Arg]]
          /\ constantLiveInsArgIndex \subseteq Arg
      BY <1>2 DEF TypeOK
    <3>2. CASE IsConstant(v, x)
      BY <3>1, <3>2, <1>3, <1>5, <1>7
    <3>3. CASE ~IsConstant(v, x)
      BY <3>1, <3>3, <1>5
    <3> QED BY <3>2, <3>3
  <2> QED BY <1>2, <1>3, <1>4, <2>1, <2>2 DEF TypeOK, programVars, codeVars
<1>11. CallsOK'
  <2> SUFFICES ASSUME NEW i \in DOMAIN stack'
               PROVE  Meaning[stack'[i].level][stack'[i].arg] = RootArg(rootArg)
    BY <1>4, <1>6, <1>7 DEF CallsOK
  <2>1. CASE IsCallFor(stack'[i], v, x)
    <3>1. PICK j \in Passed(v, x) : stack'[i] = [level |-> v + 1, arg |-> j]
      BY <2>1 DEF IsCallFor
    <3>2. Meaning[v + 1][j] = Meaning[v][x]
      BY <1>2, <1>3, PassedOn
    <3> QED BY <3>1, <3>2, <1>7
  <2>2. CASE stack'[i] \in CallsIn(stack)
    BY <2>2, <1>2 DEF CallsOK, CallsIn
  <2>3. stack'[i] \in CallsIn(stack')
    BY DEF CallsIn
  <2> QED BY <2>1, <2>2, <2>3, <1>9a
<1>12. FoundOK'
  <2>1. ASSUME NEW w \in Level, NEW y \in loopToSkippedLiveIns'[w]
        PROVE  \E k \in 1..rootArg : Meaning[w][y] = RootArg(k)
    <3>1. CASE y \in loopToSkippedLiveIns[w]
      BY <3>1, <1>2 DEF FoundOK
    <3>2. CASE w = v /\ y = x
      <4>1. rootArg \in 1..rootArg
        BY <1>7, Numbers
      <4> QED BY <4>1, <3>2, <1>7
    <3> QED BY <3>1, <3>2, <1>8
  <2>2. ASSUME NEW w \in Level, NEW y \in loopToSkippedLiveIns'[w], NEW j \in Passed(w, y)
        PROVE  j \in loopToSkippedLiveIns'[w + 1] \/ ToCome(w + 1, j)'
    <3>1. CASE w = v /\ y = x
      BY <3>1, <1>1, <1>2, CallsToCome
    <3>2. CASE y \in loopToSkippedLiveIns[w]
      <4>1. y \in Arg
        BY <3>2, <1>2 DEF TypeOK
      <4>2. w + 1 \in Level /\ w + 1 \in Nat /\ j \in Nat
        BY <4>1, <1>2, PassedOn, Numbers
      <4>3. j \in loopToSkippedLiveIns[w + 1] \/ ToCome(w + 1, j)
        BY <3>2, <1>2 DEF FoundOK
      <4>4. CASE j \in loopToSkippedLiveIns[w + 1]
        BY <4>2, <4>4, <1>8
      <4>5. CASE w + 1 = v /\ j = x
        BY <4>2, <4>5, <1>8
      <4> QED BY <4>2, <4>3, <4>4, <4>5, <1>9
    <3> QED BY <3>1, <3>2, <1>8
  <2>3. ASSUME NEW k \in 1..rootArg
        PROVE  k \in loopToSkippedLiveIns'[1] \/ ToCome(1, k)'
    <3>1. k \in loopToSkippedLiveIns[1] \/ ToCome(1, k)
      BY <1>2 DEF FoundOK
    <3>2. k \in Nat
      OBVIOUS
    <3>3. CASE 1 = v /\ k = x
      BY <3>3, <1>3, <1>8
    <3> QED BY <3>1, <3>2, <3>3, <1>8, <1>9, Numbers
  <2> QED BY <2>1, <2>2, <2>3, <1>4, <1>6 DEF FoundOK
<1>13. ConstantsOK'
  <2> SUFFICES ASSUME NEW w \in Level, NEW y \in Arg
               PROVE  IF y \in loopToSkippedLiveIns'[w] /\ IsConstant(w, y)
                      THEN /\ loopToConstantLiveIns'[w][y] \in constantLiveInsArgIndex'
                           /\ Meaning[w][y] = RootArg(loopToConstantLiveIns'[w][y])
                      ELSE loopToConstantLiveIns'[w][y] = Const
    BY <1>6 DEF ConstantsOK
  <2>1. IF y \in loopToSkippedLiveIns[w] /\ IsConstant(w, y)
        THEN /\ loopToConstantLiveIns[w][y] \in constantLiveInsArgIndex
             /\ Meaning[w][y] = RootArg(loopToConstantLiveIns[w][y])
        ELSE loopToConstantLiveIns[w][y] = Const
    BY <1>2 DEF ConstantsOK
  <2>2. loopToConstantLiveIns \in [Level -> [Arg -> {Const} \cup Arg]]
    BY <1>2 DEF TypeOK
  <2>3. CASE w = v /\ y = x /\ IsConstant(v, x)
    <3>1. loopToConstantLiveIns'[w][y] = rootArg /\ rootArg \in constantLiveInsArgIndex'
      BY <2>2, <2>3, <1>5
    <3> QED BY <3>1, <2>3, <1>7, <1>8
  <2>4. CASE w = v /\ y = x /\ ~IsConstant(v, x)
    BY <2>1, <2>4, <1>5
  <2>5. CASE ~(w = v /\ y = x)
    <3>1. /\ loopToConstantLiveIns'[w][y] = loopToConstantLiveIns[w][y]
          /\ constantLiveInsArgIndex \subseteq constantLiveInsArgIndex'
      BY <2>2, <2>5, <1>3, <1>5
    <3>2. y \in loopToSkippedLiveIns'[w] <=> y \in loopToSkippedLiveIns[w]
      BY <2>5, <1>8
    <3> QED BY <2>1, <3>1, <3>2
  <2> QED BY <2>3, <2>4, <2>5
<1>14. NumbersOK' /\ SlicesOK'
  BY <1>4, SlicesWait
<1> QED BY <1>10, <1>11, <1>12, <1>13, <1>14 DEF LiveInsInv

LEMMA NumberConstantsKeeps ==
  ASSUME LiveInsInv, NumberConstants
  PROVE  LiveInsInv'
<1>1. /\ phase = "analyse" /\ phase' = "transform" /\ stack = <<>> /\ rootArg = Arity
      /\ UNCHANGED <<programVars, analysisVars, codeVars>>
  BY DEF NumberConstants
<1>2. PICK number \in [constantLiveInsArgIndex -> 1..Cardinality(constantLiveInsArgIndex)] :
        /\ \A k, m \in constantLiveInsArgIndex : number[k] = number[m] => k = m
        /\ constantLiveInsArgIndexToIndex' =
             [k \in Arg |-> IF k \in constantLiveInsArgIndex THEN number[k] ELSE 0]
  BY DEF NumberConstants
<1>3. TypeOK /\ level = 1
  BY <1>1 DEF LiveInsInv, NumbersOK
<1>4. /\ stack' = stack /\ rootArg' = rootArg /\ loopToSkippedLiveIns' = loopToSkippedLiveIns
      /\ loopToConstantLiveIns' = loopToConstantLiveIns
      /\ constantLiveInsArgIndex' = constantLiveInsArgIndex /\ level' = level
  BY <1>1 DEF analysisVars, codeVars
<1>5. /\ Meaning' = Meaning /\ \A w, y : Passed(w, y)' = Passed(w, y)
      /\ \A w, y : IsConstant(w, y)' <=> IsConstant(w, y)
  BY <1>1, ProgramKept
<1>6. constantLiveInsArgIndex \subseteq Arg
  BY <1>3 DEF TypeOK
<1>7. Cardinality(constantLiveInsArgIndex) \in Nat /\ Cardinality(constantLiveInsArgIndex) <= Arity
  <2>1. IsFiniteSet(Arg) /\ Cardinality(Arg) = Arity
    <3>1. Arity \in Nat /\ 1 \in Int /\ Arity \in Int
      BY Numbers
    <3>2. IsFiniteSet(1..Arity) /\ Cardinality(1..Arity) = IF 1 > Arity THEN 0 ELSE Arity - 1 + 1
      BY <3>1, FS_Interval
    <3> QED BY <3>1, <3>2 DEF Arg
  <2>2. IsFiniteSet(constantLiveInsArgIndex) /\ Cardinality(constantLiveInsArgIndex) <= Arity
    BY <2>1, <1>6, FS_Subset
  <2> QED BY <2>2, FS_CardinalityType
<1>8. \A k \in constantLiveInsArgIndex : number[k] \in 1..Arity
  BY <1>7, Numbers
<1>9. TypeOK'
  <2>1. constantLiveInsArgIndexToIndex' \in [Arg -> 0..Arity]
    BY <1>2, <1>8, Numbers
  <2> QED BY <1>1, <1>3, <2>1 DEF TypeOK, programVars, analysisVars, codeVars
<1>10. CallsOK'
  BY <1>1, <1>4 DEF CallsOK
<1>11. FoundOK'
  <2>1. \A w, y : ToCome(w, y)' <=> ToCome(w, y)
    BY <1>4 DEF ToCome
  <2> QED BY <2>1, <1>4, <1>5 DEF FoundOK, LiveInsInv
<1>12. ConstantsOK'
  BY <1>4, <1>5 DEF ConstantsOK, LiveInsInv
<1>13. NumbersOK'
  <2>1. \A k \in constantLiveInsArgIndex :
          constantLiveInsArgIndexToIndex'[k] = number[k] /\ number[k] # 0
    BY <1>2, <1>6, <1>8
  <2> QED BY <2>1, <1>1, <1>2, <1>4 DEF NumbersOK
<1>14. SlicesOK'
  BY <1>1, <1>3, <1>4 DEF SlicesOK
<1> QED BY <1>9, <1>10, <1>11, <1>12, <1>13, <1>14 DEF LiveInsInv

-----------------------------------------------------------------------------
(***************************************************************************)
(* The transformation.                                                     *)
(***************************************************************************)

LEMMA AfterAnalysis ==
  ASSUME LiveInsInv, phase # "analyse", NEW v \in Level, NEW x \in Arg
  PROVE  x \in loopToSkippedLiveIns[v] <=> \E k \in Arg : Meaning[v][x] = RootArg(k)
<1>1. TypeOK /\ FoundOK /\ stack = <<>> /\ rootArg = Arity
  BY DEF LiveInsInv, NumbersOK
<1> QED BY <1>1, FoundAll

LEMMA UsesCount ==
  ASSUME NEW v \in Level, NEW x \in Arg
  PROVE  /\ x \in body[v] /\ BoundUse(v, x) => Uses(v, x) # 1
         /\ Passed(v, x) # {} /\ BoundUse(v, x) => Uses(v, x) # 1
<1> DEFINE passed == Passed(v, x)
<1>1. IsFiniteSet(passed)
  <2>1. IsFiniteSet(Arg)
    BY Numbers, FS_Interval DEF Arg
  <2> QED BY <2>1, FS_Subset DEF Passed
<1>2. Cardinality(passed) \in Nat /\ (Cardinality(passed) = 0 <=> passed = {})
  <2> HIDE DEF passed
  <2> QED BY <1>1, FS_CardinalityType, FS_EmptySet
<1>3. Uses(v, x) = Cardinality(passed) + (IF x \in body[v] THEN 1 ELSE 0)
              + (IF bound[v].start = x THEN 1 ELSE 0) + (IF bound[v].exit = x THEN 1 ELSE 0)
  BY DEF Uses
<1> HIDE DEF passed
<1>4. passed = Passed(v, x)
  BY DEF passed
<1> QED BY <1>2, <1>3, <1>4 DEF BoundUse

\* The arguments a slice loads.
Loaded(v) == ConstantVars(v) \cup SingleVars(v)

\* A constant live-in comes from the argument of the root it is stored under.
LEMMA ConstantsComeFromRoot ==
  ASSUME LiveInsInv, NEW v \in Level, NEW x \in ConstantVars(v)
  PROVE  /\ x \in Arg
         /\ loopToConstantLiveIns[v][x] \in constantLiveInsArgIndex
         /\ Meaning[v][x] = RootArg(loopToConstantLiveIns[v][x])
<1>1. x \in Arg /\ loopToConstantLiveIns[v][x] # Const
  BY DEF ConstantVars, LiveIn
<1> QED BY <1>1 DEF LiveInsInv, ConstantsOK

\* What is in an environment does not come from the root.
LEMMA SinglesAreComputed ==
  ASSUME LiveInsInv, phase # "analyse", NEW v \in Level, NEW x \in SingleVars(v)
  PROVE  /\ x \in Arg /\ v # 1
         /\ x \notin loopToSkippedLiveIns[v]
         /\ \A k \in Arg : Meaning[v][x] # RootArg(k)
<1>1. x \in Arg /\ x \notin loopToSkippedLiveIns[v]
  BY DEF SingleVars, LiveIn, Skipped
<1>2. \A k \in Arg : Meaning[v][x] # RootArg(k)
  BY <1>1, AfterAnalysis
<1> QED BY <1>1, <1>2, MeaningOfRoot

\* The slice of a loop loads what its body uses, what it passes on as a bound,
\* and what it passes on that does not come from the root.
LEMMA UsedIsLoaded ==
  ASSUME LiveInsInv, NEW v \in Level, NEW x \in Arg,
         \/ x \in body[v]
         \/ \E j \in Passed(v, x) : \/ x \notin loopToSkippedLiveIns[v]
                                    \/ IsArgStartOrExitValue(j, v + 1)
  PROVE  x \in Loaded(v)
<1>1. x \in LiveIn(v)
  BY DEF LiveIn
<1>2. CASE x \in loopToSkippedLiveIns[v]
  <2>1. IsConstant(v, x)
    BY <1>2 DEF IsConstant
  <2>2. loopToConstantLiveIns[v][x] \in constantLiveInsArgIndex
    BY <1>2, <2>1 DEF LiveInsInv, ConstantsOK
  <2>3. loopToConstantLiveIns[v][x] # Const
    BY <2>2, Numbers DEF LiveInsInv, TypeOK
  <2> QED BY <1>1, <2>3 DEF Loaded, ConstantVars
<1>3. CASE x \notin loopToSkippedLiveIns[v]
  <2>1. x \in body[v] \/ Passed(v, x) # {}
    OBVIOUS
  <2>2. ~Skipped(v, x)
    BY <1>3, <2>1, UsesCount DEF Skipped
  <2> QED BY <1>1, <2>2 DEF Loaded, SingleVars
<1> QED BY <1>2, <1>3

\* What the slice of the caller has for an argument is what the program passes.
LEMMA FromCallerIsMeaning ==
  ASSUME LiveInsInv, phase # "analyse", NEW v \in Level, v # 1, v <= level, NEW x \in Arg,
         x \notin loopToSkippedLiveIns[v] \/ IsArgStartOrExitValue(x, v)
  PROVE  FromCaller(v, x) = Meaning[v][x]
<1>1. TypeOK
  BY DEF LiveInsInv
<1>2. /\ v - 1 \in Level /\ v - 1 \in 1..(Depth - 1) /\ v - 1 \in 1..(level - 1)
      /\ (v - 1) + 1 = v /\ v - 1 # Depth
  <2>1. v \in Nat /\ v >= 1 /\ v <= Depth /\ Depth \in Nat
    BY Numbers
  <2>2. level \in Nat
    BY <1>1, <2>1 DEF TypeOK
  <2>3. v - 1 \in Nat /\ 1 <= v - 1 /\ v - 1 <= Depth - 1 /\ v - 1 <= level - 1
    BY <2>1, <2>2
  <2> QED BY <2>1, <2>2, <2>3, Numbers
<1>3. Meaning[v][x] = IF operand[v - 1][x] = Instr THEN Computed(v - 1, x)
                      ELSE Meaning[v - 1][operand[v - 1][x]]
  BY MeaningOfNested
<1>4. CASE operand[v - 1][x] = Instr
  BY <1>3, <1>4 DEF FromCaller
<1>5. CASE operand[v - 1][x] # Instr
  <2>1. PICK o : o = operand[v - 1][x]
    OBVIOUS
  <2>2. o \in Arg /\ Meaning[v][x] = Meaning[v - 1][o]
    BY <1>1, <1>2, <1>3, <1>5, <2>1 DEF TypeOK
  <2>3. x \in Passed(v - 1, o)
    BY <1>2, <2>1 DEF Passed
  <2>4. o \notin loopToSkippedLiveIns[v - 1] \/ IsArgStartOrExitValue(x, v)
    BY <1>2, <2>2, AfterAnalysis
  <2>5. o \in Loaded(v - 1)
    BY <1>2, <2>2, <2>3, <2>4, UsedIsLoaded
  <2>6. loaded[v - 1][o] = Meaning[v - 1][o]
    BY <1>2, <2>2, <2>5 DEF LiveInsInv, SlicesOK, Loaded
  <2>7. Meaning[v - 1][o] # Unread
    BY <1>1, <1>2, <2>2, MeaningIsValue
  <2>8. InSlice(v - 1, o) = Meaning[v - 1][o]
    BY <2>6, <2>7 DEF InSlice
  <2> QED BY <1>5, <2>1, <2>2, <2>8 DEF FromCaller
<1> QED BY <1>4, <1>5

\* A slice loads what the program means, through the array or its caller.
LEMMA LoadsAreMeaning ==
  ASSUME LiveInsInv, phase # "analyse", NEW v \in Level, v <= level, NEW contents,
         \A k \in constantLiveInsArgIndex : contents[ElementOf(k)] = AsStored(k),
         NEW x \in Arg
  PROVE  Loads(v, contents)[x] = IF x \in Loaded(v) THEN Meaning[v][x] ELSE Unread
<1>1. CASE x \in ConstantVars(v)
  <2>1. PICK k : k = loopToConstantLiveIns[v][x]
    OBVIOUS
  <2>2. k \in constantLiveInsArgIndex /\ Meaning[v][x] = RootArg(k)
    BY <1>1, <2>1, ConstantsComeFromRoot
  <2>3. AsLoaded(k, contents[ElementOf(k)]) = RootArg(k)
    BY <2>2, Zenon DEF AsLoaded, AsStored
  <2>4. Loads(v, contents)[x] = AsLoaded(k, contents[ElementOf(k)])
    BY <1>1, <2>1 DEF Loads
  <2> QED BY <1>1, <2>2, <2>3, <2>4 DEF Loaded
<1>2. CASE x \notin ConstantVars(v) /\ x \in SingleVars(v)
  <2>1. v # 1 /\ x \notin loopToSkippedLiveIns[v] /\ v > 1
    BY <1>2, SinglesAreComputed, Numbers
  <2>2. FromCaller(v, x) = Meaning[v][x]
    BY <2>1, FromCallerIsMeaning
  <2> QED BY <1>2, <2>1, <2>2 DEF Loads, Loaded
<1>3. CASE x \notin ConstantVars(v) /\ x \notin SingleVars(v)
  BY <1>3 DEF Loads, Loaded
<1> QED BY <1>1, <1>2, <1>3

\* The original function puts every constant where the slices look for it.
LEMMA ArrayHolds ==
  ASSUME LiveInsInv, phase # "analyse"
  PROVE  /\ StoredArray \in [1..Arity -> Values]
         /\ \A k \in constantLiveInsArgIndex : StoredArray[ElementOf(k)] = AsStored(k)
<1>1. constantLiveInsArgIndex \subseteq Arg /\ constantLiveInsArgIndexToIndex \in [Arg -> 0..Arity]
  BY DEF LiveInsInv, TypeOK
<1> DEFINE stands(i) == {k \in constantLiveInsArgIndex : constantLiveInsArgIndexToIndex[k] = i}
           chosen(i) == CHOOSE k \in stands(i) : TRUE
<1>2. \A i \in 1..Arity : StoredArray[i] = IF stands(i) = {} THEN Unread ELSE AsStored(chosen(i))
  BY DEF StoredArray
<1>3. DOMAIN StoredArray = 1..Arity /\ StoredArray = [i \in 1..Arity |-> StoredArray[i]]
  BY DEF StoredArray
<1>4. \A k \in Arg : AsStored(k) \in Values
  BY DEF AsStored, Values
<1>5. \A i \in 1..Arity : StoredArray[i] \in Values
  <2> SUFFICES ASSUME NEW i \in 1..Arity PROVE StoredArray[i] \in Values
    OBVIOUS
  <2>1. CASE stands(i) = {}
    BY <1>2, <2>1 DEF Values
  <2>2. CASE stands(i) # {}
    <3>1. chosen(i) \in stands(i)
      BY <2>2
    <3>2. chosen(i) \in Arg
      BY <1>1, <3>1
    <3> QED BY <1>2, <1>4, <2>2, <3>2
  <2> QED BY <2>1, <2>2
<1>6. ASSUME NEW k \in constantLiveInsArgIndex
      PROVE  StoredArray[ElementOf(k)] = AsStored(k)
  <2>1. /\ ElementOf(k) \in 1..Arity
        /\ \A m \in stands(ElementOf(k)) : m = k
        /\ k \in stands(ElementOf(k))
    BY <1>1, Numbers DEF LiveInsInv, NumbersOK, ElementOf
  <2>2. chosen(ElementOf(k)) = k /\ stands(ElementOf(k)) # {}
    BY <2>1
  <2> HIDE DEF stands, chosen
  <2> QED BY <1>2, <2>1, <2>2
<1> QED BY <1>3, <1>5, <1>6

\* What the transformation of one loop after the other leaves alone.
AnalysisKept ==
  /\ UNCHANGED <<programVars, analysisVars, constantLiveInsArgIndexToIndex>>
  /\ phase # "analyse" /\ phase' # "analyse"

LEMMA ResultKept ==
  ASSUME LiveInsInv, AnalysisKept
  PROVE  /\ CallsOK' /\ FoundOK' /\ ConstantsOK' /\ NumbersOK'
         /\ Meaning' = Meaning
         /\ \A v : ConstantVars(v)' = ConstantVars(v) /\ SingleVars(v)' = SingleVars(v)
<1>1. /\ bound' = bound /\ body' = body /\ operand' = operand
      /\ stack' = stack /\ rootArg' = rootArg /\ loopToSkippedLiveIns' = loopToSkippedLiveIns
      /\ loopToConstantLiveIns' = loopToConstantLiveIns
      /\ constantLiveInsArgIndex' = constantLiveInsArgIndex
      /\ constantLiveInsArgIndexToIndex' = constantLiveInsArgIndexToIndex
  BY DEF AnalysisKept, programVars, analysisVars
<1>2. /\ Meaning' = Meaning /\ \A w, y : Passed(w, y)' = Passed(w, y)
      /\ \A w, y : IsConstant(w, y)' <=> IsConstant(w, y)
  BY ProgramKept DEF AnalysisKept
<1>3. CallsOK'
  BY <1>1, <1>2 DEF CallsOK, LiveInsInv
<1>4. FoundOK'
  <2>1. \A w, y : ToCome(w, y)' <=> ToCome(w, y)
    BY <1>1 DEF ToCome
  <2> QED BY <2>1, <1>1, <1>2 DEF FoundOK, LiveInsInv
<1>5. ConstantsOK'
  BY <1>1, <1>2 DEF ConstantsOK, LiveInsInv
<1>6. NumbersOK'
  BY <1>1 DEF NumbersOK, LiveInsInv, AnalysisKept
<1>7. \A w, y : BoundUse(w, y)' <=> BoundUse(w, y)
  BY <1>1 DEF BoundUse
<1>8. \A w, y : Uses(w, y)' = Uses(w, y)
  BY <1>1, <1>2 DEF Uses
<1>9. \A w, y : Skipped(w, y)' <=> Skipped(w, y)
  BY <1>1, <1>7, <1>8 DEF Skipped
<1>10. \A w : LiveIn(w)' = LiveIn(w)
  BY <1>1, <1>2, <1>7 DEF LiveIn
<1>11. \A w : ConstantVars(w)' = ConstantVars(w)
  BY <1>1, <1>10 DEF ConstantVars
<1>12. \A w : SingleVars(w)' = SingleVars(w)
  BY <1>9, <1>10, <1>11 DEF SingleVars
<1> QED BY <1>2, <1>3, <1>4, <1>5, <1>6, <1>11, <1>12

LEMMA LoadsAreValues ==
  ASSUME LiveInsInv, phase # "analyse", NEW v \in Level, v <= level, NEW contents,
         \A k \in constantLiveInsArgIndex : contents[ElementOf(k)] = AsStored(k)
  PROVE  Loads(v, contents) \in [Arg -> Values]
<1>1. Loads(v, contents) = [x \in Arg |-> Loads(v, contents)[x]]
  BY DEF Loads
<1>2. \A x \in Arg : Meaning[v][x] \in Values
  BY MeaningIsValue DEF LiveInsInv
<1>3. Unread \in Values
  BY DEF Values
<1>4. \A x \in Arg : Loads(v, contents)[x] \in Values
  BY <1>2, <1>3, LoadsAreMeaning
<1> QED BY <1>1, <1>4

LEMMA TransformRootKeeps ==
  ASSUME LiveInsInv, TransformRoot
  PROVE  LiveInsInv'
<1>1. /\ phase = "transform" /\ phase' = phase /\ level = 1 /\ level' = 2
      /\ array' = StoredArray
      /\ environment' = [environment EXCEPT ![1] = SingleVars(1)]
      /\ loaded' = [loaded EXCEPT ![1] = Loads(1, StoredArray)]
      /\ UNCHANGED <<programVars, analysisVars, constantLiveInsArgIndexToIndex, stored>>
  BY DEF TransformRoot
<1>2. TypeOK
  BY DEF LiveInsInv
<1>3. AnalysisKept
  BY <1>1 DEF AnalysisKept
<1>4. /\ CallsOK' /\ FoundOK' /\ ConstantsOK' /\ NumbersOK' /\ Meaning' = Meaning
      /\ \A v : ConstantVars(v)' = ConstantVars(v) /\ SingleVars(v)' = SingleVars(v)
  BY <1>3, ResultKept
<1>5. /\ StoredArray \in [1..Arity -> Values]
      /\ \A k \in constantLiveInsArgIndex : StoredArray[ElementOf(k)] = AsStored(k)
  BY <1>1, ArrayHolds
<1>6. Loads(1, StoredArray) \in [Arg -> Values]
  BY <1>1, <1>5, Numbers, LoadsAreValues
<1>7. \A x \in Arg : Loads(1, StoredArray)[x] = IF x \in Loaded(1) THEN Meaning[1][x] ELSE Unread
  BY <1>1, <1>5, Numbers, LoadsAreMeaning
<1>8. TypeOK'
  <2>1. level' \in 1..(Depth + 1)
    BY <1>1, Numbers
  <2>2. environment' \in [Level -> SUBSET Arg]
    BY <1>1, <1>2 DEF TypeOK, SingleVars, LiveIn
  <2>3. loaded' \in [Level -> [Arg -> Values]]
    BY <1>1, <1>2, <1>6 DEF TypeOK
  <2> QED BY <1>1, <1>2, <1>5, <2>1, <2>2, <2>3 DEF TypeOK, programVars, analysisVars
<1>9. SlicesOK'
  <2>1. environment'[1] = SingleVars(1) /\ loaded'[1] = Loads(1, StoredArray)
    BY <1>1, <1>2, Numbers DEF TypeOK
  <2>2. \A k \in constantLiveInsArgIndex' : array'[ElementOf(k)'] = AsStored(k)
    BY <1>1, <1>5 DEF ElementOf, analysisVars
  <2>3. 1..(level' - 1) = {1} /\ 2..(level' - 1) = {}
    BY <1>1
  <2>4. \A x \in Arg : loaded'[1][x] = IF x \in (ConstantVars(1) \cup SingleVars(1))'
                                       THEN Meaning'[1][x] ELSE Unread
    BY <1>4, <1>7, <2>1 DEF Loaded
  <2> QED BY <1>1, <1>4, <2>1, <2>2, <2>3, <2>4 DEF SlicesOK
<1> QED BY <1>4, <1>8, <1>9 DEF LiveInsInv

LEMMA TransformNestedKeeps ==
  ASSUME LiveInsInv, TransformNested
  PROVE  LiveInsInv'
<1>1. PICK v : v = level
  OBVIOUS
<1>2. /\ phase = "transform" /\ phase' = phase /\ v \in 2..Depth /\ level' = v + 1
      /\ environment' = [environment EXCEPT ![v] = SingleVars(v)]
      /\ loaded' = [loaded EXCEPT ![v] = Loads(v, array)]
      /\ stored' = [stored EXCEPT ![v] = StoredBounds(v)]
      /\ UNCHANGED <<programVars, analysisVars, constantLiveInsArgIndexToIndex, array>>
  BY <1>1 DEF TransformNested
<1>3. TypeOK
  BY DEF LiveInsInv
<1>4. v \in Nat /\ v \in Level /\ v # 1 /\ v <= level /\ level > 1 /\ v <= Depth
  BY <1>1, <1>2, Numbers
<1>5. AnalysisKept
  BY <1>2 DEF AnalysisKept
<1>6. /\ CallsOK' /\ FoundOK' /\ ConstantsOK' /\ NumbersOK' /\ Meaning' = Meaning
      /\ \A w : ConstantVars(w)' = ConstantVars(w) /\ SingleVars(w)' = SingleVars(w)
  BY <1>5, ResultKept
<1>7. \A k \in constantLiveInsArgIndex : array[ElementOf(k)] = AsStored(k)
  BY <1>4 DEF LiveInsInv, SlicesOK
<1>8. Loads(v, array) \in [Arg -> Values]
  BY <1>2, <1>4, <1>7, LoadsAreValues
<1>9. \A x \in Arg : Loads(v, array)[x] = IF x \in Loaded(v) THEN Meaning[v][x] ELSE Unread
  BY <1>2, <1>4, <1>7, LoadsAreMeaning
<1>10. /\ bound[v].start \in {Const} \cup Arg /\ bound[v].exit \in {Const} \cup Arg
       /\ bound[v].smax \in BOOLEAN
  BY <1>3, <1>4, LiveInAssumption DEF TypeOK
<1>11. /\ bound[v].start # Const => FromCaller(v, bound[v].start) = Meaning[v][bound[v].start]
       /\ bound[v].exit  # Const => FromCaller(v, bound[v].exit) = Meaning[v][bound[v].exit]
  <2>1. ASSUME NEW x \in Arg, x = bound[v].start \/ x = bound[v].exit
        PROVE  FromCaller(v, x) = Meaning[v][x]
    <3>1. IsArgStartOrExitValue(x, v)
      BY <1>10, <2>1 DEF IsArgStartOrExitValue, BoundUse, SmaxUse
    <3> QED BY <1>2, <1>4, <3>1, FromCallerIsMeaning
  <2> QED BY <1>10, <2>1
<1>12. /\ bound[v].start # Const => StoredBounds(v).start = Meaning[v][bound[v].start]
       /\ bound[v].exit  # Const => StoredBounds(v).exit  = Meaning[v][bound[v].exit]
  BY <1>11 DEF StoredBounds
<1>13. StoredBounds(v) \in [start : Values, exit : Values]
  <2>1. \A x \in Arg : Meaning[v][x] \in Values
    BY <1>3, <1>4, MeaningIsValue
  <2>2. ConstValue \in Values
    BY DEF Values
  <2> QED BY <1>10, <1>11, <2>1, <2>2 DEF StoredBounds
<1>14. TypeOK'
  <2>1. level' \in 1..(Depth + 1)
    BY <1>2, <1>4, Numbers
  <2>2. environment' \in [Level -> SUBSET Arg]
    BY <1>2, <1>3 DEF TypeOK, SingleVars, LiveIn
  <2>3. loaded' \in [Level -> [Arg -> Values]]
    BY <1>2, <1>3, <1>8 DEF TypeOK
  <2>4. stored' \in [Level -> [start : Values, exit : Values]]
    BY <1>2, <1>3, <1>13 DEF TypeOK
  <2> QED BY <1>2, <1>3, <2>1, <2>2, <2>3, <2>4 DEF TypeOK, programVars, analysisVars
<1>15. SlicesOK'
  <2>1. /\ \A w \in Level : environment'[w] = IF w = v THEN SingleVars(v) ELSE environment[w]
        /\ \A w \in Level : loaded'[w] = IF w = v THEN Loads(v, array) ELSE loaded[w]
        /\ \A w \in Level : stored'[w] = IF w = v THEN StoredBounds(v) ELSE stored[w]
    BY <1>2, <1>3, <1>4 DEF TypeOK
  <2>2. \A k \in constantLiveInsArgIndex' : array'[ElementOf(k)'] = AsStored(k)
    BY <1>2, <1>7 DEF ElementOf, analysisVars
  <2>3. \A w : w \in 1..(level' - 1) => w \in Level /\ (w = v \/ w \in 1..(level - 1))
    BY <1>1, <1>2, <1>4, Numbers
  <2>4. \A w : w \in 2..(level' - 1) => w \in Level /\ (w = v \/ w \in 2..(level - 1))
    BY <1>1, <1>2, <1>4, Numbers
  <2>5. SlicesOK
    BY DEF LiveInsInv
  <2>6. ASSUME NEW w \in 1..(level' - 1)
        PROVE  /\ environment'[w] = SingleVars(w)'
               /\ \A x \in Arg : loaded'[w][x] = IF x \in (ConstantVars(w) \cup SingleVars(w))'
                                                 THEN Meaning'[w][x] ELSE Unread
    <3>1. CASE w = v
      BY <3>1, <1>4, <1>6, <1>9, <2>1 DEF Loaded
    <3>2. CASE w # v
      BY <3>2, <1>6, <2>1, <2>3, <2>5 DEF SlicesOK
    <3> QED BY <3>1, <3>2
  <2>7. ASSUME NEW w \in 2..(level' - 1)
        PROVE  /\ bound'[w].start # Const => stored'[w].start = Meaning'[w][bound'[w].start]
               /\ bound'[w].exit  # Const => stored'[w].exit  = Meaning'[w][bound'[w].exit]
    <3>1. bound' = bound
      BY <1>2 DEF programVars
    <3>2. CASE w = v
      BY <3>1, <3>2, <1>4, <1>6, <1>12, <2>1
    <3>3. CASE w # v
      BY <3>1, <3>3, <1>6, <2>1, <2>4, <2>5 DEF SlicesOK
    <3> QED BY <3>2, <3>3
  <2> QED BY <1>2, <2>2, <2>6, <2>7 DEF SlicesOK
<1> QED BY <1>6, <1>14, <1>15 DEF LiveInsInv

LEMMA FinishedKeeps ==
  ASSUME LiveInsInv, Finished
  PROVE  LiveInsInv'
<1>1. /\ phase = "transform" /\ phase' = "done" /\ level = Depth + 1
      /\ UNCHANGED <<programVars, analysisVars, constantLiveInsArgIndexToIndex, codeVars>>
  BY DEF Finished
<1>2. AnalysisKept
  BY <1>1 DEF AnalysisKept
<1>3. /\ CallsOK' /\ FoundOK' /\ ConstantsOK' /\ NumbersOK' /\ Meaning' = Meaning
      /\ \A v : ConstantVars(v)' = ConstantVars(v) /\ SingleVars(v)' = SingleVars(v)
  BY <1>2, ResultKept
<1>4. TypeOK'
  BY <1>1 DEF LiveInsInv, TypeOK, programVars, analysisVars, codeVars
<1>5. SlicesOK'
  BY <1>1, <1>3 DEF LiveInsInv, SlicesOK, ElementOf, programVars, analysisVars, codeVars
<1> QED BY <1>3, <1>4, <1>5 DEF LiveInsInv

-----------------------------------------------------------------------------
(***************************************************************************)
(* The theorems.                                                           *)
(***************************************************************************)

\* The invariant of the analysis (constantLiveInToLoop and its callers) and of
\* the transformation that relies on it.
THEOREM LiveInsInvariance == Spec => []LiveInsInv
<1>1. LiveInsInv /\ [Next]_vars => LiveInsInv'
  <2> SUFFICES ASSUME LiveInsInv, [Next]_vars
               PROVE  LiveInsInv'
    OBVIOUS
  <2>1. CASE AnalyseRootArgument
    BY <2>1, AnalyseRootArgumentKeeps
  <2>2. CASE ConstantLiveInToLoop
    BY <2>2, ConstantLiveInToLoopKeeps
  <2>3. CASE NumberConstants
    BY <2>3, NumberConstantsKeeps
  <2>4. CASE TransformRoot
    BY <2>4, TransformRootKeeps
  <2>5. CASE TransformNested
    BY <2>5, TransformNestedKeeps
  <2>6. CASE Finished
    BY <2>6, FinishedKeeps
  <2>7. CASE UNCHANGED vars
    <3>1. /\ UNCHANGED <<programVars, analysisVars, constantLiveInsArgIndexToIndex, codeVars>>
          /\ phase' = phase
      BY <2>7 DEF vars
    <3>2. CASE phase = "analyse"
      <4>1. /\ Meaning' = Meaning /\ \A w, y : Passed(w, y)' = Passed(w, y)
            /\ \A w, y : IsConstant(w, y)' <=> IsConstant(w, y)
        BY <3>1, ProgramKept
      <4>2. \A w, y : ToCome(w, y)' <=> ToCome(w, y)
        BY <3>1 DEF ToCome, analysisVars
      <4>3. TypeOK'
        BY <3>1 DEF LiveInsInv, TypeOK, programVars, analysisVars, codeVars
      <4>4. CallsOK'
        BY <3>1, <4>1 DEF LiveInsInv, CallsOK, analysisVars
      <4>5. FoundOK'
        BY <3>1, <4>1, <4>2 DEF LiveInsInv, FoundOK, analysisVars
      <4>6. ConstantsOK'
        BY <3>1, <4>1 DEF LiveInsInv, ConstantsOK, analysisVars
      <4>7. NumbersOK' /\ SlicesOK'
        BY <3>1, <3>2, SlicesWait
      <4> QED BY <4>3, <4>4, <4>5, <4>6, <4>7 DEF LiveInsInv
    <3>3. CASE phase # "analyse"
      <4>1. AnalysisKept
        BY <3>1, <3>3 DEF AnalysisKept
      <4>2. /\ CallsOK' /\ FoundOK' /\ ConstantsOK' /\ NumbersOK' /\ Meaning' = Meaning
            /\ \A v : ConstantVars(v)' = ConstantVars(v) /\ SingleVars(v)' = SingleVars(v)
        BY <4>1, ResultKept
      <4>3. TypeOK'
        BY <3>1 DEF LiveInsInv, TypeOK, programVars, analysisVars, codeVars
      <4>4. SlicesOK'
        BY <3>1, <4>2 DEF LiveInsInv, SlicesOK, ElementOf, programVars, analysisVars, codeVars
      <4> QED BY <4>2, <4>3, <4>4 DEF LiveInsInv
    <3> QED BY <3>2, <3>3
  <2> QED BY <2>1, <2>2, <2>3, <2>4, <2>5, <2>6, <2>7 DEF Next, Ended
<1> QED BY <1>1, InitHolds, PTL DEF Spec

\* BodySeesProgram, of nests of any depth and functions of any arity: the loads
\* of a slice (from the array or the environment) give its body the values that
\* the program passes down, doubles and renumbered elements included.
THEOREM BodiesSeeProgram == Spec => []BodySeesProgram
<1>1. LiveInsInv => BodySeesProgram
  <2> SUFFICES ASSUME LiveInsInv, phase = "done", NEW v \in Level, NEW x \in body[v]
               PROVE  loaded[v][x] = Meaning[v][x]
    BY DEF BodySeesProgram
  <2>1. x \in Arg /\ level = Depth + 1 /\ v \in 1..(level - 1)
    BY Numbers DEF LiveInsInv, TypeOK, SlicesOK
  <2>2. x \in Loaded(v)
    BY <2>1, UsedIsLoaded
  <2> QED BY <2>1, <2>2 DEF LiveInsInv, SlicesOK, Loaded
<1> QED BY <1>1, LiveInsInvariance, PTL

\* BoundsAreProgram: what a slice stores as the bounds of the next loop is what
\* the program would give it, although the analysis does not count uses as a
\* bound (constantLiveInToLoop) and single uses are left out of environments
\* (shouldThisVariableBeSkipped).
THEOREM BoundsAreThoseOfProgram == Spec => []BoundsAreProgram
<1>1. LiveInsInv => BoundsAreProgram
  <2> SUFFICES ASSUME LiveInsInv, phase = "done", NEW v \in 2..Depth
               PROVE  /\ bound[v].start # Const => stored[v].start = Meaning[v][bound[v].start]
                      /\ bound[v].exit  # Const => stored[v].exit  = Meaning[v][bound[v].exit]
    BY DEF BoundsAreProgram
  <2>1. level = Depth + 1
    BY DEF LiveInsInv, SlicesOK
  <2>2. v \in 2..(level - 1)
    BY <2>1, Numbers
  <2> QED BY <2>2 DEF LiveInsInv, SlicesOK
<1> QED BY <1>1, LiveInsInvariance, PTL

\* ConstantsInArray: no environment holds what comes from an argument of the
\* root, so that the environment of the root itself is empty.
THEOREM RootArgumentsInArray == Spec => []ConstantsInArray
<1>1. LiveInsInv => ConstantsInArray
  <2> SUFFICES ASSUME LiveInsInv, phase = "done", NEW v \in Level, NEW x \in environment[v]
               PROVE  Meaning[v][x] \notin {RootArg(k) : k \in Arg}
    BY DEF ConstantsInArray
  <2>1. level = Depth + 1 /\ v \in 1..(level - 1)
    BY Numbers DEF LiveInsInv, SlicesOK
  <2>2. x \in SingleVars(v)
    BY <2>1 DEF LiveInsInv, SlicesOK
  <2>3. \A k \in Arg : Meaning[v][x] # RootArg(k)
    BY <2>2, SinglesAreComputed
  <2> QED BY <2>3
<1> QED BY <1>1, LiveInsInvariance, PTL
=============================================================================
