------------------------ MODULE HeartbeatPassProofs -------------------------
(***************************************************************************)
(* Proofs about the compile time.  For any number of loops in any nests,   *)
(* the analyses record every loop once and none of their assertions fails; *)
(* nests and levels are those of the program, whatever the addresses.  For *)
(* any program and any options, what the pass generates for each nest      *)
(* describes the loops of that nest and of no other.                       *)
(***************************************************************************)
EXTENDS HeartbeatPass, SequenceTheorems, FiniteSetTheorems, WellFoundedInduction, TLAPS

\* A program, read for one loop of an outlined function.
LEMMA OfProgram ==
  ASSUME NEW p, WellFormed(p), NEW l \in Loop, p.kind[l] = "outlined"
  PROVE  /\ p.depth[l] \in 0..(N - 1) /\ p.depth[l] \in Levels
         /\ p.root[l] \in Loop
         /\ p.caller[l] = None => p.depth[l] = 0 /\ p.root[l] = l
         /\ p.caller[l] # None => /\ p.caller[l] \in Loop
                                  /\ p.kind[p.caller[l]] = "outlined"
                                  /\ p.depth[l] = p.depth[p.caller[l]] + 1
                                  /\ p.root[l] = p.root[p.caller[l]]
<1>1. N \in Nat /\ None \notin Loop
  BY ProgramAssumption DEF Loop, None
<1>2. p.depth[l] \in 0..(N - 1) /\ p.root[l] \in Loop /\ p.caller[l] \in Loop \cup {None}
  BY DEF WellFormed
<1>3. p.depth[l] \in Levels
  BY <1>1, <1>2 DEF Levels
<1>4. l \in {k \in Loop : p.kind[k] = "outlined"}
  OBVIOUS
<1>5. IF p.caller[l] = None THEN p.depth[l] = 0 /\ p.root[l] = l
      ELSE /\ p.caller[l] \in {k \in Loop : p.kind[k] = "outlined"}
           /\ p.depth[l] = p.depth[p.caller[l]] + 1
           /\ p.root[l] = p.root[p.caller[l]]
  BY <1>4 DEF WellFormed
<1> QED BY <1>2, <1>3, <1>5

\* No two loops of a nest are at one level.
LEMMA OnePerLevel ==
  ASSUME NEW p, WellFormed(p), NEW l \in Loop, NEW m \in Loop,
         p.kind[l] = "outlined", p.kind[m] = "outlined",
         p.root[l] = p.root[m], p.depth[l] = p.depth[m]
  PROVE  l = m
<1>1. \A a, b \in {k \in Loop : p.kind[k] = "outlined"} :
         p.root[a] = p.root[b] /\ p.depth[a] = p.depth[b] => a = b
  BY DEF WellFormed
<1> QED BY <1>1

LEMMA NonEmpty == ASSUME NEW s \in Seq(Loop), s # <<>> PROVE Len(s) \in Nat /\ Len(s) >= 1
OBVIOUS

LEMMA PrefixLength ==
  ASSUME NEW s, NEW n \in Nat, \A i \in 1..n : s[i] \in Loop
  PROVE  Len(SubSeq(s, 1, n)) = n
<1>1. Len(SubSeq(s, 1, n)) = IF 1 <= n THEN n - 1 + 1 ELSE 0
  BY SubSeqProperties, 1 \in Int
<1> QED BY <1>1

\* The stack without the loop on top.
LEMMA Popped ==
  ASSUME NEW s \in Seq(Loop), s # <<>>
  PROVE  /\ SubSeq(s, 1, Len(s) - 1) \in Seq(Loop)
         /\ Len(SubSeq(s, 1, Len(s) - 1)) = Len(s) - 1
         /\ \A i \in 1..(Len(s) - 1) : SubSeq(s, 1, Len(s) - 1)[i] = s[i]
<1>1. Len(s) - 1 \in Nat /\ \A i \in 1..(Len(s) - 1) : s[i] \in Loop
  BY NonEmpty
<1>2. SubSeq(s, 1, Len(s) - 1) \in Seq(Loop)
  BY NonEmpty
<1>3. \A i \in 1..(Len(s) - 1) : SubSeq(s, 1, Len(s) - 1)[i] = s[i]
  BY NonEmpty
<1>4. Len(SubSeq(s, 1, Len(s) - 1)) = Len(s) - 1
  BY <1>1, PrefixLength
<1> QED BY <1>2, <1>3, <1>4

LEMMA Pushed ==
  ASSUME NEW s \in Seq(Loop), NEW l \in Loop, NEW t, t = Append(s, l)
  PROVE  /\ t \in Seq(Loop) /\ Len(s) \in Nat /\ Len(t) = Len(s) + 1 /\ t # <<>>
         /\ t[Len(t)] = l
         /\ \A i \in 1..Len(s) : t[i] = s[i]
OBVIOUS

LEMMA LoopFacts == N \in Nat /\ None \notin Loop /\ Unset \notin Nat /\ Unset \notin Nests
BY ProgramAssumption DEF Loop, None, Unset, Nests
-----------------------------------------------------------------------------
LEMMA InitInv == Init => IInv
<1> SUFFICES ASSUME Init PROVE IInv
  OBVIOUS
<1> USE LoopFacts DEF Init
<1>1. Recorded = {} /\ OnStack = {} /\ Placed = {}
  BY DEF Recorded, OnStack, Placed, NoLevels
<1>2. AnalysisOK
  <2>1. WellFormed(program)
    BY ProgramAssumption
  <2>2. MapsOK
    BY DEF MapsOK, NoLevels, NoLoops, Levels, Nests
  <2>3. stack \in Seq(Loop) /\ failed \in BOOLEAN
    <3>1. <<>> \in Seq(Loop)
      OBVIOUS
    <3>2. failed \in BOOLEAN
      BY Zenon
    <3> QED BY <3>1, <3>2
  <2>4. phase \in {"select", "nests", "next", "levels", "transform", "done"}
    OBVIOUS
  <2>5. nestID \in Nat /\ pending \subseteq Nat /\ nest \in {Unset} \cup Nat
    OBVIOUS
  <2>6. numLevels \in Nat /\ rootLoop \in Loop \cup {None}
    OBVIOUS
  <2> QED BY <2>1, <2>2, <2>3, <2>4, <2>5, <2>6 DEF AnalysisOK
<1>3. StackOK /\ NoAssertFails /\ LevelsAreDepth
  BY DEF StackOK, NoAssertFails, LevelsAreDepth
<1>4. ScopeOK
  BY <1>1 DEF ScopeOK
<1>5. RecordsOK /\ LevelsOK
  BY <1>1 DEF RecordsOK, LevelsOK, NoLoops, Levels
<1>6. NestsOK
  BY <1>1 DEF NestsOK
<1> QED BY <1>2, <1>3, <1>4, <1>5, <1>6 DEF IInv

LEMMA SelectStep == ASSUME IInv, Select PROVE IInv'
<1> USE LoopFacts DEF Select, recordVars, nestVars, resultVars
<1>1. heartbeatLoops = {} /\ Recorded = {} /\ stack = <<>> /\ OnStack = {}
  <2>1. heartbeatLoops = {} /\ Recorded = {}
    BY DEF IInv, ScopeOK
  <2>2. stack = <<>>
    BY DEF IInv, StackOK
  <2> QED BY <2>1, <2>2 DEF OnStack
<1>2. Recorded' = {} /\ OnStack' = {} /\ Placed' = {} /\ Placed = {} /\ heartbeatLoops' \subseteq Loop
  BY <1>1 DEF Recorded, OnStack, Placed
<1>3. AnalysisOK'
  <2>1. AnalysisOK
    BY DEF IInv
  <2> QED BY <1>2, <2>1 DEF AnalysisOK, MapsOK
<1>4. StackOK' /\ NoAssertFails' /\ LevelsAreDepth'
  BY <1>1 DEF IInv, StackOK, NoAssertFails, LevelsAreDepth
<1>5. ScopeOK'
  <2>1. WellFormed(program) /\ program' = program
    BY DEF IInv, AnalysisOK
  <2>2. \A l \in heartbeatLoops' : program.caller[l] = None \/ program.caller[l] \in heartbeatLoops'
    BY <2>1, OfProgram
  <2> QED BY <1>2, <2>1, <2>2 DEF ScopeOK, Outermost
<1>6. RecordsOK' /\ LevelsOK'
  BY <1>1, <1>2 DEF IInv, RecordsOK, LevelsOK, Levels
<1>7. NestsOK'
  BY <1>2 DEF IInv, NestsOK
<1> QED BY <1>3, <1>4, <1>5, <1>6, <1>7 DEF IInv

\* A call of the recursive function, for a loop of the set or for the caller of
\* the loop on top.
LEMMA CallStep ==
  ASSUME IInv, InAnalysis, NEW l \in scope, l \notin Recorded,
         \/ stack = <<>> /\ todo' = todo \ {l}
         \/ stack # <<>> /\ program.caller[stack[Len(stack)]] = l /\ todo' = todo,
         CallFor(l),
         UNCHANGED <<program, phase, heartbeatLoops, scope, loopToLevel, levelToLoop, loopToRoot,
                     nestVars, pending, nest, resultVars>>
  PROVE  IInv'
<1> USE LoopFacts DEF nestVars, resultVars
<1>1. AnalysisOK /\ StackOK /\ ScopeOK /\ RecordsOK /\ phase \in {"nests", "levels"}
  BY DEF IInv, InAnalysis
<1>2. /\ WellFormed(program) /\ stack \in Seq(Loop) /\ l \in Loop
      /\ program.kind[l] = "outlined" /\ heartbeatLoops \subseteq Loop
      /\ todo \subseteq Loop /\ scope \subseteq Loop
  BY <1>1 DEF AnalysisOK, ScopeOK
<1> DEFINE c == program.caller[l]
<1>3. c \in Loop \cup {None} /\ (c # None => c \in scope)
  BY <1>1, <1>2, OfProgram DEF ScopeOK, Outermost
<1>4. /\ stack' \in Seq(Loop) /\ Len(stack) \in Nat /\ Len(stack') = Len(stack) + 1
      /\ stack'[Len(stack) + 1] = l /\ \A i \in 1..Len(stack) : stack'[i] = stack[i]
  BY <1>2, Pushed DEF CallFor
<1>5. \A i \in 1..Len(stack) : program.depth[l] < program.depth[stack[i]]
  <2>1. CASE stack = <<>>
    BY <2>1
  <2>2. CASE stack # <<>> /\ program.caller[stack[Len(stack)]] = l
    <3>1. Len(stack) \in 1..Len(stack)
      BY <1>2, <2>2, NonEmpty
    <3>2. /\ \A i \in 1..Len(stack) : stack[i] \in scope
          /\ \A i \in 1..Len(stack) : i < Len(stack) =>
                program.depth[stack[Len(stack)]] < program.depth[stack[i]]
      BY <1>1, <3>1 DEF StackOK
    <3>3. \A i \in 1..Len(stack) : program.depth[stack[i]] \in Nat
      BY <1>1, <1>2, <3>2, OfProgram DEF ScopeOK
    <3>4. program.depth[stack[Len(stack)]] = program.depth[l] + 1 /\ program.depth[l] \in Nat
      BY <1>1, <1>2, <2>2, <3>1, <3>2, OfProgram DEF ScopeOK
    <3> QED BY <3>1, <3>2, <3>3, <3>4
  <2> QED BY <2>1, <2>2
<1>6. program.depth[l] \in Nat /\ l \notin OnStack
  <2>1. program.depth[l] \in Nat
    BY <1>2, OfProgram
  <2> QED BY <1>5, <2>1 DEF OnStack
<1>7. OnStack' = OnStack \cup {l} /\ Recorded' = Recorded /\ Placed' = Placed
  <2>1. OnStack' = OnStack \cup {l}
    BY <1>2, <1>4 DEF OnStack
  <2> QED BY <2>1 DEF Recorded, Placed
<1>8. ~failed'
  <2>1. loopToLevel[l] = Unset /\ loopToRoot[l] = None /\ loopToCallerLoop[l] = None
    BY <1>1, <1>2, <1>6 DEF RecordsOK, Recorded
  <2>2. c # None => (loopToLevel[c] = Unset => loopToRoot[c] = None)
    BY <1>1, <1>3 DEF RecordsOK, Recorded
  <2>3. IF c = None THEN loopToLevel[l] = Unset /\ loopToRoot[l] = None
        ELSE /\ c \in scope
             /\ loopToCallerLoop[l] = None
             /\ loopToLevel[c] = Unset => loopToRoot[c] = None
    BY <1>3, <2>1, <2>2
  <2> QED BY <2>3 DEF CallFor
<1>9. loopToCallerLoop' = [loopToCallerLoop EXCEPT ![l] = c]
      /\ loopToCallerLoop \in [Loop -> Loop \cup {None}]
  BY <1>1 DEF CallFor, AnalysisOK, MapsOK
<1>10. AnalysisOK'
  <2>1. MapsOK'
    BY <1>1, <1>3, <1>9 DEF AnalysisOK, MapsOK
  <2>2. failed' \in BOOLEAN
    BY DEF CallFor
  <2>3. todo' \subseteq Loop
    BY <1>2
  <2> QED BY <1>1, <1>2, <1>4, <2>1, <2>2, <2>3 DEF AnalysisOK
<1>11. StackOK'
  <2>1. \A i \in 1..Len(stack') : i \in 1..Len(stack) \/ i = Len(stack) + 1
    BY <1>4
  <2>2. \A i \in 1..Len(stack') : stack'[i] \in scope' \ Recorded'
    BY <1>1, <1>4, <1>7, <2>1 DEF StackOK
  <2>3. ASSUME NEW i \in 1..(Len(stack') - 1)
        PROVE  program'.caller[stack'[i]] = stack'[i + 1]
    <3>1. i \in 1..Len(stack) /\ (i \in 1..(Len(stack) - 1) \/ i = Len(stack))
      BY <1>4, <2>3
    <3>2. CASE i \in 1..(Len(stack) - 1)
      BY <1>1, <1>4, <3>2 DEF StackOK
    <3>3. CASE i = Len(stack)
      <4>1. stack # <<>>
        BY <3>1, <3>3
      <4> QED BY <1>4, <3>1, <3>3, <4>1
    <3> QED BY <3>1, <3>2, <3>3
  <2>4. ASSUME NEW i \in 1..Len(stack'), NEW j \in 1..Len(stack'), i < j
        PROVE  program'.depth[stack'[j]] < program'.depth[stack'[i]]
    <3>1. i \in 1..Len(stack)
      BY <1>4, <2>4
    <3>2. CASE j \in 1..Len(stack)
      BY <1>1, <1>4, <2>4, <3>1, <3>2 DEF StackOK
    <3>3. CASE j = Len(stack) + 1
      BY <1>4, <1>5, <3>1, <3>3
    <3> QED BY <2>1, <3>2, <3>3
  <2> QED BY <1>1, <2>2, <2>3, <2>4 DEF StackOK
<1>12. ScopeOK'
  BY <1>1, <1>7 DEF ScopeOK, Outermost
<1>13. RecordsOK'
  <2>1. \A m \in Recorded \cup OnStack : loopToCallerLoop'[m] = program.caller[m]
    BY <1>1, <1>2, <1>6, <1>9 DEF RecordsOK, OnStack, Recorded
  <2>2. loopToCallerLoop'[l] = program.caller[l]
    BY <1>2, <1>9
  <2>3. \A m \in Loop \ (Recorded \cup OnStack \cup {l}) : loopToCallerLoop'[m] = None
    BY <1>1, <1>9 DEF RecordsOK
  <2> QED BY <1>1, <1>7, <2>1, <2>2, <2>3 DEF RecordsOK, Outermost
<1>14. LevelsOK'
  BY <1>7 DEF IInv, LevelsOK
<1>15. NestsOK'
  BY <1>7 DEF IInv, NestsOK, Outermost
<1>16. LevelsAreDepth'
  BY <1>1 DEF LevelsAreDepth
<1> QED BY <1>8, <1>10, <1>11, <1>12, <1>13, <1>14, <1>15, <1>16 DEF IInv, NoAssertFails

LEMMA VisitStep == ASSUME IInv, NEW l \in todo, Visit(l) PROVE IInv'
<1> USE LoopFacts DEF Visit, nestVars, resultVars
<1>1. l \in scope /\ l \in Loop /\ InAnalysis /\ stack = <<>> /\ todo' = todo \ {l}
  BY DEF IInv, ScopeOK, AnalysisOK
<1>2. CASE l \notin Recorded
  BY <1>1, <1>2, CallStep
<1>3. CASE l \in Recorded
  <2>1. AnalysisOK /\ StackOK /\ ScopeOK /\ RecordsOK
    BY DEF IInv
  <2>2. l \in RootsKnown
    <3>1. program.root[l] \in Loop /\ loopToRoot[l] = program.root[l]
      BY <1>1, <1>3, <2>1 DEF AnalysisOK, WellFormed, RecordsOK
    <3> QED BY <1>1, <3>1 DEF RootsKnown
  <2>3. ~failed' /\ failed' \in BOOLEAN
    BY <1>3, <2>2
  <2>4. UNCHANGED <<program, phase, heartbeatLoops, scope, recordVars, nestVars, pending, nest,
                    resultVars, stack>>
    BY <1>3 DEF recordVars
  <2>5. Recorded' = Recorded /\ OnStack' = OnStack /\ Placed' = Placed
    BY <2>4 DEF Recorded, OnStack, Placed, recordVars
  <2>6. AnalysisOK'
    BY <1>1, <2>1, <2>3, <2>4 DEF AnalysisOK, MapsOK, recordVars
  <2>7. StackOK' /\ ScopeOK' /\ RecordsOK'
    BY <1>1, <1>3, <2>1, <2>4, <2>5 DEF StackOK, ScopeOK, RecordsOK, Outermost, recordVars
  <2>8. LevelsOK' /\ NestsOK' /\ LevelsAreDepth'
    BY <2>4, <2>5 DEF IInv, LevelsOK, NestsOK, LevelsAreDepth, Outermost, recordVars
  <2> QED BY <2>3, <2>6, <2>7, <2>8 DEF IInv, NoAssertFails
<1> QED BY <1>2, <1>3

LEMMA AscendStep == ASSUME IInv, Ascend PROVE IInv'
<1> USE LoopFacts DEF Ascend, nestVars, resultVars
<1> DEFINE c == program.caller[stack[Len(stack)]]
<1>1. AnalysisOK /\ StackOK /\ ScopeOK
  BY DEF IInv
<1>2. stack \in Seq(Loop) /\ stack # <<>> /\ c # None /\ c \notin Recorded
  BY <1>1 DEF AnalysisOK
<1>3. stack[Len(stack)] \in scope
  <2>1. Len(stack) \in 1..Len(stack)
    BY <1>2, NonEmpty
  <2> QED BY <1>1, <2>1 DEF StackOK
<1>4. c \in scope
  BY <1>1, <1>2, <1>3 DEF ScopeOK, Outermost
<1> QED BY <1>2, <1>4, CallStep

\* There is a number for one more nest while a loop has not been recorded.
LEMMA NestRoom ==
  ASSUME IInv, phase = "nests", NEW l \in Loop, l \notin Recorded
  PROVE  nestID \in 0..(N - 1)
<1> DEFINE S == 0..(nestID - 1)
           T == Loop \ {l}
           f == [n \in S |-> nestIDToRoot[n]]
<1>1. nestID \in Nat /\ N \in Nat /\ \A n \in S : n \in Nests /\ nestIDToRoot[n] \in T
                                            /\ rootToNestID[nestIDToRoot[n]] = n
  BY LoopFacts DEF IInv, AnalysisOK, NestsOK, Placed, Recorded
<1>2. f \in Injection(S, T)
  <2>1. \A m, n \in S : f[m] = f[n] => m = n
    BY <1>1
  <2> QED BY <1>1, <2>1 DEF Injection, IsInjective
<1>3. IsFiniteSet(Loop) /\ Cardinality(Loop) = N
  BY <1>1, FS_Interval DEF Loop
<1>4. IsFiniteSet(T) /\ Cardinality(T) = N - 1
  BY <1>3, FS_RemoveElement
<1>5. Cardinality(S) <= N - 1
  BY <1>2, <1>4, FS_Injection
<1>6. Cardinality(S) = nestID
  BY <1>1, FS_Interval
<1> QED BY <1>1, <1>5, <1>6

\* The nests, when a loop has been recorded whose caller was.
LEMMA RecordNestStep ==
  ASSUME IInv, phase = "nests", NEW l \in Loop, l \notin Recorded,
         program.kind[l] = "outlined",
         program.caller[l] \in Recorded \cup {None},
         RootOf(l) = program.root[l], RecordNest(l),
         program' = program, phase' = phase, Recorded' = Recorded \cup {l}
  PROVE  NestsOK' /\ nestID' \in Nat /\ nestIDToRoot' \in [Nests -> Loop \cup {None}]
         /\ rootToNestID' \in [Loop -> {Unset} \cup Nests] /\ nestIDToLoops' \in [Nests -> SUBSET Loop]
<1> USE LoopFacts
<1> DEFINE r == program.root[l]
           old == 0..(nestID - 1)
<1>1. /\ WellFormed(program) /\ NestsOK /\ Placed = Recorded /\ Placed' = Recorded \cup {l}
      /\ nestID \in Nat /\ Recorded \subseteq Loop /\ nestID \in 0..(N - 1)
  BY NestRoom DEF IInv, AnalysisOK, Placed, Recorded
<1>2. /\ nestIDToRoot \in [Nests -> Loop \cup {None}]
      /\ rootToNestID \in [Loop -> {Unset} \cup Nests] /\ nestIDToLoops \in [Nests -> SUBSET Loop]
  BY DEF IInv, AnalysisOK, MapsOK
<1>3. /\ \A n \in old : /\ n \in Nests /\ nestIDToRoot[n] \in Recorded
                       /\ program.caller[nestIDToRoot[n]] = None
                       /\ rootToNestID[nestIDToRoot[n]] = n
                       /\ nestIDToLoops[n] = {k \in Recorded : program.root[k] = nestIDToRoot[n]}
      /\ \A n \in Nests : n >= nestID => nestIDToLoops[n] = {}
      /\ \A k \in Recorded : /\ program.root[k] \in Recorded /\ program.caller[program.root[k]] = None
                            /\ rootToNestID[program.root[k]] \in old
                            /\ nestIDToRoot[rootToNestID[program.root[k]]] = program.root[k]
  BY <1>1 DEF NestsOK, Outermost
<1>4. CASE program.caller[l] = None
  <2>1. r = l
    BY <1>1, <1>4, OfProgram
  <2>2. /\ nestID' = nestID + 1 /\ nestID \in Nests
        /\ rootToNestID' = [rootToNestID EXCEPT ![l] = nestID]
        /\ nestIDToRoot' = [nestIDToRoot EXCEPT ![nestID] = l]
        /\ nestIDToLoops' = [nestIDToLoops EXCEPT ![nestID] = @ \cup {l}]
    BY <1>1, <1>4 DEF RecordNest, Nests
  <2>3. nestIDToLoops[nestID] = {}
    BY <1>1, <1>3, <2>2
  <2>4. \A n \in 0..(nestID' - 1) : n \in old \/ n = nestID
    BY <1>1, <2>2
  <2>5. ASSUME NEW n \in old
        PROVE  /\ nestIDToRoot'[n] = nestIDToRoot[n] /\ nestIDToLoops'[n] = nestIDToLoops[n]
               /\ rootToNestID'[nestIDToRoot[n]] = n
               /\ nestIDToLoops'[n] = {k \in Recorded \cup {l} : program.root[k] = nestIDToRoot[n]}
    <3>1. n # nestID /\ nestIDToRoot[n] # l /\ n \in Nests /\ nestIDToRoot[n] \in Loop
      BY <1>1, <1>3
    <3>2. nestIDToRoot'[n] = nestIDToRoot[n] /\ nestIDToLoops'[n] = nestIDToLoops[n]
      BY <1>2, <2>2, <3>1
    <3>3. rootToNestID'[nestIDToRoot[n]] = n
      BY <1>2, <1>3, <2>2, <3>1
    <3> QED BY <1>3, <2>1, <3>1, <3>2, <3>3
  <2>6. /\ nestIDToRoot'[nestID] = l /\ rootToNestID'[l] = nestID
        /\ nestIDToLoops'[nestID] = {k \in Recorded \cup {l} : program.root[k] = l}
    <3>1. nestIDToRoot'[nestID] = l /\ rootToNestID'[l] = nestID /\ nestIDToLoops'[nestID] = {l}
      BY <1>2, <2>2, <2>3
    <3>2. \A k \in Recorded : program.root[k] # l
      BY <1>3
    <3> QED BY <2>1, <3>1, <3>2
  <2>7. \A n \in 0..(nestID' - 1) :
           /\ n \in Nests /\ nestIDToRoot'[n] \in Recorded \cup {l}
           /\ program.caller[nestIDToRoot'[n]] = None
           /\ rootToNestID'[nestIDToRoot'[n]] = n
           /\ nestIDToLoops'[n] = {k \in Recorded \cup {l} : program.root[k] = nestIDToRoot'[n]}
    BY <1>3, <1>4, <2>2, <2>4, <2>5, <2>6
  <2>8. ASSUME NEW n \in Nests, n >= nestID' PROVE nestIDToLoops'[n] = {}
    <3>1. n # nestID /\ n >= nestID
      BY <1>1, <2>2, <2>8 DEF Nests
    <3>2. nestIDToLoops'[n] = nestIDToLoops[n]
      BY <1>2, <2>2, <3>1
    <3> QED BY <1>3, <3>1, <3>2
  <2>9. ASSUME NEW k \in Recorded \cup {l}
        PROVE  /\ program.root[k] \in Recorded \cup {l} /\ program.caller[program.root[k]] = None
               /\ rootToNestID'[program.root[k]] \in 0..(nestID' - 1)
               /\ nestIDToRoot'[rootToNestID'[program.root[k]]] = program.root[k]
    <3>1. CASE k = l
      BY <1>1, <1>4, <2>1, <2>2, <2>6, <3>1
    <3>2. CASE k \in Recorded
      <4>1. program.root[k] # l /\ program.root[k] \in Loop
        BY <1>1, <1>3, <3>2
      <4>2. rootToNestID'[program.root[k]] = rootToNestID[program.root[k]]
        BY <1>2, <2>2, <4>1
      <4> QED BY <1>1, <1>3, <2>2, <2>5, <3>2, <4>2
    <3> QED BY <3>1, <3>2
  <2>10. /\ nestIDToRoot' \in [Nests -> Loop \cup {None}] /\ rootToNestID' \in [Loop -> {Unset} \cup Nests]
         /\ nestIDToLoops' \in [Nests -> SUBSET Loop] /\ nestID' \in Nat
    BY <1>1, <1>2, <2>2
  <2> QED BY <1>1, <2>7, <2>8, <2>9, <2>10 DEF NestsOK, Outermost
<1>5. CASE program.caller[l] # None
  <2> DEFINE n0 == rootToNestID[r]
  <2>1. /\ program.caller[l] \in Recorded /\ r = program.root[program.caller[l]]
    BY <1>1, <1>5, OfProgram
  <2>2. /\ r \in Recorded /\ program.caller[r] = None /\ n0 \in old /\ nestIDToRoot[n0] = r
        /\ n0 \in Nests /\ r # l
    <3>1. \A k \in Recorded : /\ program.root[k] \in Recorded /\ program.caller[program.root[k]] = None
                              /\ rootToNestID[program.root[k]] \in old
                              /\ nestIDToRoot[rootToNestID[program.root[k]]] = program.root[k]
      BY <1>3
    <3>2. r \in Recorded /\ program.caller[r] = None /\ n0 \in old /\ nestIDToRoot[n0] = r
      <4> HIDE DEF old, r
      <4> QED BY <2>1, <3>1
    <3> QED BY <1>3, <3>2
  <2>3. /\ nestIDToLoops' = [nestIDToLoops EXCEPT ![n0] = @ \cup {l}]
        /\ UNCHANGED <<rootToNestID, nestIDToRoot, nestID>>
    BY <1>5 DEF RecordNest, NestOf
  <2>4. ASSUME NEW n \in old
        PROVE  nestIDToLoops'[n] = {k \in Recorded \cup {l} : program.root[k] = nestIDToRoot[n]}
    <3>1. CASE n = n0
      BY <1>2, <1>3, <2>2, <2>3, <3>1
    <3>2. CASE n # n0
      <4>1. nestIDToRoot[n] # r
        BY <1>3, <2>2, <3>2
      <4> QED BY <1>2, <1>3, <2>3, <3>2, <4>1
    <3> QED BY <3>1, <3>2
  <2>5. \A n \in Nests : n >= nestID => nestIDToLoops'[n] = {}
    BY <1>1, <1>2, <1>3, <2>2, <2>3
  <2>6. nestIDToLoops' \in [Nests -> SUBSET Loop]
    BY <1>2, <2>3
  <2>7. ASSUME NEW n \in 0..(nestID' - 1)
        PROVE  /\ n \in Nests /\ nestIDToRoot'[n] \in Placed' /\ Outermost(nestIDToRoot[n])'
               /\ rootToNestID'[nestIDToRoot'[n]] = n
               /\ nestIDToLoops'[n] = {k \in Placed' : program'.root[k] = nestIDToRoot'[n]}
    <3>1. n \in old
      BY <2>3
    <3> HIDE DEF old
    <3> QED BY <1>1, <1>3, <2>3, <2>4, <3>1 DEF Outermost
  <2>8. ASSUME NEW k \in Placed'
        PROVE  /\ program.root[k] \in Placed' /\ Outermost(program.root[k])'
               /\ rootToNestID[program.root[k]] \in old
               /\ nestIDToRoot[rootToNestID[program.root[k]]] = program.root[k]
    <3>1. CASE k = l
      BY <1>1, <2>2, <3>1 DEF Outermost
    <3>2. CASE k # l
      BY <1>1, <1>3, <2>8, <3>2 DEF Outermost
    <3> QED BY <3>1, <3>2
  <2>9. NestsOK'
    BY <2>3, <2>5, <2>7, <2>8 DEF NestsOK
  <2> QED BY <1>1, <1>2, <2>3, <2>6, <2>9
<1> QED BY <1>4, <1>5

LEMMA SettleStep == ASSUME IInv, Settle PROVE IInv'
<1> USE LoopFacts DEF Settle, resultVars
<1> DEFINE l == stack[Len(stack)]
           c == program.caller[l]
<1>1. /\ AnalysisOK /\ MapsOK /\ StackOK /\ ScopeOK /\ RecordsOK /\ LevelsOK
      /\ phase \in {"nests", "levels"} /\ ~failed
  BY DEF IInv, AnalysisOK, InAnalysis
<1>2. /\ WellFormed(program) /\ stack \in Seq(Loop) /\ stack # <<>>
      /\ Len(stack) \in Nat /\ Len(stack) \in 1..Len(stack)
  BY <1>1, NonEmpty DEF AnalysisOK
<1>3. l \in Loop /\ l \in scope /\ l \notin Recorded /\ l \in OnStack /\ program.kind[l] = "outlined"
  BY <1>1, <1>2 DEF StackOK, ScopeOK, AnalysisOK, OnStack
<1>4. /\ stack' \in Seq(Loop) /\ Len(stack') = Len(stack) - 1
      /\ \A i \in 1..(Len(stack) - 1) : stack'[i] = stack[i]
  BY <1>2, Popped
<1>5. program.depth[l] \in 0..(N - 1) /\ program.depth[l] \in Levels /\ program.root[l] \in Loop
  BY <1>2, <1>3, OfProgram
<1>6. LevelOf(l) = program.depth[l] /\ RootOf(l) = program.root[l] /\ (c # None => c \in Recorded)
  <2>1. c # None => c \in Recorded
    OBVIOUS
  <2>2. CASE c = None
    BY <1>2, <1>3, <2>2, OfProgram DEF LevelOf, RootOf
  <2>3. CASE c # None
    <3>1. loopToLevel[c] = program.depth[c] /\ loopToRoot[c] = program.root[c]
      BY <1>1, <2>1, <2>3 DEF RecordsOK
    <3>2. program.depth[l] = program.depth[c] + 1 /\ program.root[l] = program.root[c]
      BY <1>2, <1>3, <2>3, OfProgram
    <3> QED BY <2>1, <2>3, <3>1, <3>2 DEF LevelOf, RootOf
  <2> QED BY <2>1, <2>2, <2>3
<1>7. /\ loopToLevel' = [loopToLevel EXCEPT ![l] = program.depth[l]]
      /\ levelToLoop' = [levelToLoop EXCEPT ![program.depth[l]] = l]
      /\ loopToRoot' = [loopToRoot EXCEPT ![l] = program.root[l]]
  BY <1>6
<1>8. Recorded' = Recorded \cup {l}
  BY <1>1, <1>3, <1>5, <1>7 DEF Recorded, MapsOK
<1>9. \A i \in 1..(Len(stack) - 1) : stack[i] # l
  <2>1. ASSUME NEW i \in 1..(Len(stack) - 1) PROVE program.depth[l] < program.depth[stack[i]]
    BY <1>1, <1>2 DEF StackOK
  <2> QED BY <1>5, <2>1
<1>10. OnStack' = OnStack \ {l} /\ OnStack' \cup Recorded' = OnStack \cup Recorded
  <2>1. \A i \in 1..Len(stack) : i \in 1..(Len(stack) - 1) \/ i = Len(stack)
    BY <1>2
  <2>2. OnStack' = OnStack \ {l}
    BY <1>2, <1>4, <1>9, <2>1 DEF OnStack
  <2> QED BY <1>3, <1>8, <2>2
<1>11. StackOK'
  <2>1. \A i \in 1..Len(stack') : i \in 1..(Len(stack) - 1) /\ i \in 1..Len(stack) /\ stack'[i] = stack[i]
    BY <1>2, <1>4
  <2>2. \A i \in 1..Len(stack') : stack'[i] \in scope' \ Recorded'
    BY <1>1, <1>8, <1>9, <2>1 DEF StackOK
  <2>3. \A i \in 1..(Len(stack') - 1) : program'.caller[stack'[i]] = stack'[i + 1]
    <3>1. \A i \in 1..(Len(stack') - 1) : i \in 1..(Len(stack) - 1) /\ i + 1 \in 1..(Len(stack) - 1)
      BY <1>2, <1>4
    <3> QED BY <1>1, <1>4, <3>1 DEF StackOK
  <2>4. \A i, j \in 1..Len(stack') : i < j => program'.depth[stack'[j]] < program'.depth[stack'[i]]
    BY <1>1, <2>1 DEF StackOK
  <2> QED BY <1>1, <2>2, <2>3, <2>4 DEF StackOK
<1>12. RecordsOK'
  <2>1. \A m \in Recorded : m # l /\ loopToLevel'[m] = loopToLevel[m] /\ loopToRoot'[m] = loopToRoot[m]
    BY <1>1, <1>3, <1>7 DEF MapsOK, Recorded
  <2>2. loopToLevel'[l] = program.depth[l] /\ loopToRoot'[l] = program.root[l]
    BY <1>1, <1>3, <1>7 DEF MapsOK
  <2>3. \A m \in Loop \ Recorded' : loopToRoot'[m] = None
    BY <1>1, <1>7, <1>8 DEF MapsOK, RecordsOK
  <2> QED BY <1>1, <1>6, <1>8, <1>10, <2>1, <2>2, <2>3 DEF RecordsOK, Outermost
<1>13. LevelsOK'
  <2>1. levelToLoop'[program.depth[l]] = l /\ l # None
    BY <1>1, <1>3, <1>5, <1>7 DEF MapsOK
  <2>2. \A v \in Levels : v # program.depth[l] => levelToLoop'[v] = levelToLoop[v]
    BY <1>1, <1>7 DEF MapsOK
  <2>3. \A v \in Levels : levelToLoop'[v] # None =>
           levelToLoop'[v] \in Recorded' /\ program.depth[levelToLoop'[v]] = v
    BY <1>1, <1>8, <2>1, <2>2 DEF LevelsOK
  <2>4. ASSUME NEW m \in Recorded, NEW v \in 0..program.depth[m] PROVE levelToLoop'[v] # None
    <3>1. v \in Levels
      <4>1. m \in Loop /\ program.depth[m] \in 0..(N - 1)
        BY <1>2 DEF Recorded, WellFormed
      <4> QED BY <4>1 DEF Levels
    <3> QED BY <1>1, <2>1, <2>2, <3>1 DEF LevelsOK
  <2>5. ASSUME NEW v \in 0..program.depth[l] PROVE levelToLoop'[v] # None
    <3>1. CASE v = program.depth[l]
      BY <2>1, <3>1
    <3>2. CASE v # program.depth[l]
      <4>1. c # None /\ program.depth[l] = program.depth[c] + 1 /\ c \in Loop
        BY <1>2, <1>3, <1>5, <3>2, OfProgram
      <4>2. program.depth[c] \in 0..(N - 1)
        BY <1>2, <4>1 DEF WellFormed
      <4>3. v \in 0..program.depth[c]
        BY <1>5, <3>2, <4>1, <4>2
      <4> QED BY <1>6, <2>4, <4>1, <4>3
    <3> QED BY <3>1, <3>2
  <2> QED BY <1>8, <2>3, <2>4, <2>5 DEF LevelsOK
<1>14. /\ NestsOK' /\ nestID' \in Nat /\ nestIDToRoot' \in [Nests -> Loop \cup {None}]
       /\ rootToNestID' \in [Loop -> {Unset} \cup Nests] /\ nestIDToLoops' \in [Nests -> SUBSET Loop]
  <2>1. CASE phase = "nests"
    BY <1>3, <1>6, <1>8, <2>1, RecordNestStep
  <2>2. CASE phase = "levels"
    <3>1. UNCHANGED <<program, phase, heartbeatLoops, nestVars, pending>>
      BY <2>2
    <3>2. Placed' = Placed
      BY <2>2, <3>1 DEF Placed
    <3> QED BY <1>1, <3>1, <3>2 DEF IInv, AnalysisOK, NestsOK, MapsOK, Outermost, nestVars
  <2> QED BY <1>1, <2>1, <2>2
<1>15. AnalysisOK'
  <2>1. /\ loopToLevel' \in [Loop -> {Unset} \cup Nat] /\ levelToLoop' \in [Levels -> Loop \cup {None}]
        /\ loopToRoot' \in [Loop -> Loop \cup {None}]
    BY <1>1, <1>3, <1>5, <1>7 DEF MapsOK
  <2>2. MapsOK'
    BY <1>1, <1>14, <2>1 DEF MapsOK
  <2> QED BY <1>1, <1>4, <1>14, <2>2 DEF AnalysisOK
<1>16. ScopeOK'
  <2>1. phase = "levels" => UNCHANGED nestVars
    BY <1>1
  <2>2. scope \subseteq todo \cup Recorded' \cup OnStack'
    BY <1>1, <1>10 DEF ScopeOK
  <2> QED BY <1>1, <1>3, <1>8, <2>1, <2>2 DEF ScopeOK, Outermost, nestVars
<1>17. LevelsAreDepth' /\ ~failed'
  BY <1>1 DEF LevelsAreDepth
<1> QED BY <1>11, <1>12, <1>13, <1>14, <1>15, <1>16, <1>17 DEF IInv, NoAssertFails

\* When all are visited, all of them are recorded.
LEMMA AllRecorded ==
  ASSUME IInv, AllVisited
  PROVE  Recorded = scope /\ RootsKnown = scope /\ OnStack = {} /\ CountsMatch /\ ~failed
<1>1. AnalysisOK /\ ScopeOK /\ RecordsOK /\ stack = <<>> /\ todo = {} /\ ~failed
  BY DEF IInv, AllVisited, InAnalysis
<1>2. OnStack = {}
  BY <1>1 DEF OnStack
<1>3. Recorded = scope
  BY <1>1, <1>2 DEF ScopeOK
<1>4. RootsKnown = Recorded
  <2>1. \A l \in Recorded : l \in Loop /\ loopToRoot[l] \in Loop
    BY <1>1 DEF RecordsOK, Recorded, AnalysisOK, WellFormed
  <2> QED BY <1>1, <2>1, LoopFacts DEF RootsKnown, RecordsOK
<1> QED BY <1>1, <1>2, <1>3, <1>4 DEF CountsMatch

LEMMA EndNestsStep == ASSUME IInv, EndNests PROVE IInv'
<1> USE LoopFacts DEF EndNests, recordVars, nestVars, resultVars
<1>1. Recorded = scope /\ OnStack = {} /\ ~failed' /\ failed' \in BOOLEAN /\ stack = <<>>
  BY AllRecorded DEF AllVisited
<1>2. AnalysisOK /\ ScopeOK /\ scope = heartbeatLoops
  BY DEF IInv, ScopeOK
<1>3. Recorded' = Recorded /\ OnStack' = OnStack /\ Placed' = Placed
  BY <1>1, <1>2 DEF Recorded, OnStack, Placed
<1>4. AnalysisOK'
  <2>1. pending' \subseteq Nat
    BY <1>2 DEF AnalysisOK
  <2> QED BY <1>1, <1>2, <2>1 DEF AnalysisOK, MapsOK
<1>5. StackOK'
  BY <1>1 DEF IInv, StackOK
<1>6. ScopeOK'
  BY <1>2, <1>3 DEF ScopeOK, Outermost
<1>7. RecordsOK' /\ LevelsOK'
  BY <1>3 DEF IInv, RecordsOK, LevelsOK, Outermost
<1>8. NestsOK'
  BY <1>3 DEF IInv, NestsOK, Outermost
<1>9. LevelsAreDepth'
  BY DEF LevelsAreDepth
<1> QED BY <1>1, <1>4, <1>5, <1>6, <1>7, <1>8, <1>9 DEF IInv, NoAssertFails

LEMMA EndLevelsStep == ASSUME IInv, EndLevels PROVE IInv'
<1> USE LoopFacts DEF EndLevels, recordVars, nestVars
<1>1. /\ Recorded = scope /\ RootsKnown = scope /\ OnStack = {} /\ stack = <<>>
      /\ ~failed' /\ failed' \in BOOLEAN
  BY AllRecorded DEF AllVisited
<1>2. /\ AnalysisOK /\ ScopeOK /\ RecordsOK /\ LevelsOK /\ NestsOK /\ WellFormed(program)
      /\ scope \subseteq Loop /\ MapsOK /\ phase = "levels"
  BY DEF IInv, AnalysisOK
<1>3. PICK deepest \in scope : /\ \A m \in scope : loopToLevel[m] <= loopToLevel[deepest]
                              /\ numLevels' = loopToLevel[deepest] + 1
  BY <1>1
<1>4. PICK some \in scope : rootLoop' = loopToRoot[some]
  BY <1>1
<1>5. Recorded' = Recorded /\ OnStack' = OnStack /\ Placed' = Placed
  BY <1>1, <1>2 DEF Recorded, OnStack, Placed
<1>6. \A l \in scope : /\ l \in Loop /\ loopToLevel[l] = program.depth[l]
                       /\ loopToRoot[l] = program.root[l] /\ loopToCallerLoop[l] = program.caller[l]
                       /\ program.depth[l] \in Nat /\ program.depth[l] \in Levels
                       /\ program.root[l] \in Loop /\ program.kind[l] = "outlined"
  <2>1. \A l \in scope : l \in Loop /\ program.kind[l] = "outlined"
    BY <1>2 DEF ScopeOK
  <2>2. \A l \in scope : program.depth[l] \in Nat /\ program.depth[l] \in Levels /\ program.root[l] \in Loop
    BY <1>2, <2>1, OfProgram
  <2> QED BY <1>1, <1>2, <2>1, <2>2 DEF RecordsOK
<1>7. numLevels' \in Nat /\ rootLoop' \in Loop
  BY <1>3, <1>4, <1>6
<1>8. AnalysisOK'
  BY <1>1, <1>2, <1>7 DEF AnalysisOK, MapsOK
<1>9. StackOK' /\ ScopeOK' /\ RecordsOK' /\ LevelsOK' /\ NestsOK'
  <2>1. StackOK'
    BY <1>1, <1>5 DEF IInv, StackOK
  <2>2. ScopeOK'
    BY <1>2, <1>5 DEF ScopeOK, Outermost
  <2>3. RecordsOK' /\ LevelsOK'
    BY <1>2, <1>5 DEF RecordsOK, LevelsOK, Outermost
  <2>4. NestsOK'
    BY <1>2, <1>5 DEF NestsOK, Outermost
  <2> QED BY <2>1, <2>2, <2>3, <2>4
<1>10. \A l, m \in scope : program.root[l] = program.root[m]
  BY <1>2 DEF ScopeOK, NestsOK
<1>11. \A l \in scope : levelToLoop[program.depth[l]] = l
  <2>1. SUFFICES ASSUME NEW l \in scope PROVE levelToLoop[program.depth[l]] = l
    OBVIOUS
  <2> DEFINE m == levelToLoop[program.depth[l]]
  <2>2. m \in scope /\ program.depth[m] = program.depth[l]
    <3>1. program.depth[l] \in 0..program.depth[l]
      BY <1>6
    <3>2. m # None
      BY <1>1, <1>2, <3>1 DEF LevelsOK
    <3> QED BY <1>1, <1>2, <1>6, <3>2 DEF LevelsOK
  <2> QED BY <1>2, <1>6, <1>10, <2>2, OnePerLevel
<1>12. ASSUME NEW v \in Levels
       PROVE  IF v < numLevels' THEN levelToLoop[v] \in scope ELSE levelToLoop[v] = None
  <2>1. numLevels' = program.depth[deepest] + 1
    BY <1>3, <1>6
  <2>2. CASE v < numLevels'
    <3>1. v \in 0..program.depth[deepest]
      BY <1>6, <2>1, <2>2 DEF Levels
    <3> QED BY <1>1, <1>2, <2>2, <3>1 DEF LevelsOK
  <2>3. CASE ~(v < numLevels')
    <3>1. SUFFICES ASSUME levelToLoop[v] # None PROVE FALSE
      BY <2>3
    <3>2. levelToLoop[v] \in scope /\ program.depth[levelToLoop[v]] = v
      BY <1>1, <1>2, <3>1 DEF LevelsOK
    <3>3. v <= program.depth[deepest]
      BY <1>3, <1>6, <3>2
    <3>4. v \in Int /\ program.depth[deepest] \in Int
      BY <1>6 DEF Levels
    <3> QED BY <2>1, <2>3, <3>3, <3>4
  <2> QED BY <2>2, <2>3
<1>13. LevelsAreDepth'
  <2>1. scope # {}
    BY <1>3
  <2>2. \A l \in scope : /\ loopToLevel[l] = program.depth[l] /\ levelToLoop[program.depth[l]] = l
                         /\ loopToRoot[l] = rootLoop' /\ loopToCallerLoop[l] = program.caller[l]
                         /\ program.depth[l] < numLevels'
    <3>1. \A l \in scope : program.depth[l] < numLevels'
      BY <1>3, <1>6
    <3> QED BY <1>4, <1>6, <1>10, <1>11, <3>1
  <2>3. \A l \in Loop \ scope : loopToLevel[l] = Unset /\ loopToCallerLoop[l] = None
    BY <1>1, <1>2 DEF RecordsOK, Recorded
  <2> QED BY <1>12, <2>1, <2>2, <2>3 DEF LevelsAreDepth
<1> QED BY <1>1, <1>8, <1>9, <1>13 DEF IInv, NoAssertFails

LEMMA ChooseStep == ASSUME IInv, NEW n \in pending, ChooseNest(n) PROVE IInv'
<1> USE LoopFacts DEF ChooseNest, ResetRecords, nestVars
<1>1. /\ AnalysisOK /\ ScopeOK /\ NestsOK /\ WellFormed(program) /\ MapsOK
      /\ stack = <<>> /\ phase = "next"
  BY DEF IInv, AnalysisOK, StackOK
<1>2. /\ Placed = heartbeatLoops /\ heartbeatLoops \subseteq Loop
      /\ heartbeatLoops = {l \in Loop : program.kind[l] = "outlined"}
  BY <1>1 DEF Placed, ScopeOK, AnalysisOK
<1>3. Recorded' = {} /\ OnStack' = {} /\ Placed' = Placed
  BY <1>1 DEF Recorded, OnStack, Placed, NoLevels
<1>4. /\ n \in 0..(nestID - 1) /\ n \in Nat
      /\ scope' = {l \in heartbeatLoops : program.root[l] = nestIDToRoot[n]} /\ todo' = scope'
  BY <1>1, <1>2 DEF NestsOK, AnalysisOK
<1>5. AnalysisOK'
  <2>1. MapsOK'
    BY <1>1 DEF MapsOK, NoLevels, NoLoops
  <2>2. scope' \subseteq Loop /\ todo' \subseteq Loop
    BY <1>2, <1>4
  <2>3. pending' \subseteq Nat
    BY <1>1 DEF AnalysisOK
  <2> QED BY <1>1, <1>4, <2>1, <2>2, <2>3 DEF AnalysisOK
<1>6. StackOK' /\ LevelsAreDepth'
  BY <1>1 DEF StackOK, LevelsAreDepth
<1>7. ScopeOK'
  <2>1. ASSUME NEW l \in scope' PROVE program.caller[l] = None \/ program.caller[l] \in scope'
    BY <1>1, <1>2, <1>4, OfProgram
  <2> QED BY <1>1, <1>2, <1>3, <1>4, <2>1 DEF ScopeOK, Outermost
<1>8. RecordsOK' /\ LevelsOK'
  BY <1>3 DEF RecordsOK, LevelsOK, NoLoops
<1>9. NestsOK'
  BY <1>1, <1>3 DEF NestsOK, Outermost
<1> QED BY <1>5, <1>6, <1>7, <1>8, <1>9 DEF IInv, NoAssertFails

\* The steps that leave all tables alone: Transform, Exit, and none.
LEMMA TablesKept ==
  ASSUME IInv,
         UNCHANGED <<program, heartbeatLoops, scope, todo, stack, recordVars, nestVars, pending,
                     nest, resultVars, failed>>,
         \/ phase \in {"transform", "next"} /\ phase' \in {"next", "done"}
         \/ phase' = phase
  PROVE  IInv'
<1> USE LoopFacts DEF recordVars, nestVars, resultVars
<1>1. /\ phase = phase' \/ (/\ phase \notin {"select", "nests", "levels"}
                            /\ phase' \notin {"select", "nests", "levels", "transform"})
      /\ AnalysisOK /\ phase' \in {"select", "nests", "next", "levels", "transform", "done"}
  BY DEF IInv, AnalysisOK
<1>2. Recorded' = Recorded /\ OnStack' = OnStack /\ Placed' = Placed
  BY <1>1 DEF Recorded, OnStack, Placed
<1>3. AnalysisOK'
  BY <1>1 DEF AnalysisOK, MapsOK
<1>4. StackOK'
  BY <1>1, <1>2 DEF IInv, StackOK
<1>5. ScopeOK'
  BY <1>1, <1>2 DEF IInv, ScopeOK, Outermost
<1>6. RecordsOK' /\ LevelsOK'
  BY <1>2 DEF IInv, RecordsOK, LevelsOK, Outermost
<1>7. NestsOK'
  BY <1>1, <1>2 DEF IInv, NestsOK, Outermost
<1>8. LevelsAreDepth' /\ NoAssertFails'
  BY <1>1 DEF IInv, LevelsAreDepth, NoAssertFails
<1> QED BY <1>3, <1>4, <1>5, <1>6, <1>7, <1>8 DEF IInv

LEMMA NextInv == IInv /\ [Next]_analysisVars => IInv'
<1> SUFFICES ASSUME IInv, [Next]_analysisVars PROVE IInv'
  OBVIOUS
<1>1. CASE Select
  BY <1>1, SelectStep
<1>2. CASE \E l \in todo : Visit(l)
  BY <1>2, VisitStep
<1>3. CASE Ascend
  BY <1>3, AscendStep
<1>4. CASE Settle
  BY <1>4, SettleStep
<1>5. CASE EndNests
  BY <1>5, EndNestsStep
<1>6. CASE EndLevels
  BY <1>6, EndLevelsStep
<1>7. CASE \E n \in pending : ChooseNest(n)
  BY <1>7, ChooseStep
<1>8. CASE Transform
  BY <1>8, TablesKept DEF Transform
<1>9. CASE Exit
  BY <1>9, TablesKept DEF Exit
<1>10. CASE UNCHANGED analysisVars
  BY <1>10, TablesKept DEF analysisVars
<1> QED
  BY <1>1, <1>2, <1>3, <1>4, <1>5, <1>6, <1>7, <1>8, <1>9, <1>10 DEF Next, Analyse, Stopped
-----------------------------------------------------------------------------
\* The invariant is inductive: the walks up the call graph record every loop
\* after its caller, once, whatever the order the loops are visited in.
THEOREM NestInvariance == Spec => []IInv
<1> QED BY InitInv, NextInv, PTL DEF Spec

\* No assertion of nest or level analysis fails, for any well-formed program.
THEOREM NestAssertions == Spec => []NoAssertFails
<1>1. IInv => NoAssertFails
  BY DEF IInv
<1> QED BY <1>1, NestInvariance, PTL

\* When a nest is transformed, levels, roots and callers of its loops are those
\* of the program, and no table holds a loop of another nest.
THEOREM LevelsCorrect == Spec => []LevelsAreDepth
<1>1. IInv => LevelsAreDepth
  BY DEF IInv
<1> QED BY <1>1, NestInvariance, PTL

LEMMA NestsOfRoots == IInv => NestsPartition
<1> SUFFICES ASSUME IInv, phase \notin {"select", "nests"} PROVE NestsPartition
  BY DEF NestsPartition
<1>1. NestsOK /\ Placed = heartbeatLoops
  BY DEF IInv, Placed
<1>2. ASSUME NEW l \in heartbeatLoops PROVE \E n \in 0..(nestID - 1) : l \in nestIDToLoops[n]
  <2> DEFINE n0 == rootToNestID[program.root[l]]
  <2>1. n0 \in 0..(nestID - 1) /\ nestIDToRoot[n0] = program.root[l]
    BY <1>1 DEF NestsOK
  <2>2. nestIDToLoops[n0] = {k \in heartbeatLoops : program.root[k] = nestIDToRoot[n0]}
    BY <1>1, <2>1 DEF NestsOK
  <2> QED BY <2>1, <2>2
<1>3. \A n \in 0..(nestID - 1) :
         /\ nestIDToRoot[n] \in heartbeatLoops
         /\ nestIDToLoops[n] = {l \in heartbeatLoops : program.root[l] = nestIDToRoot[n]}
  BY <1>1 DEF NestsOK
<1>4. \A m, n \in 0..(nestID - 1) : nestIDToRoot[m] = nestIDToRoot[n] => m = n
  BY <1>1 DEF NestsOK
<1> QED BY <1>2, <1>3, <1>4 DEF NestsPartition

\* After nest analysis every selected loop is in exactly the nest of its root.
THEOREM NestsCorrect == Spec => []NestsPartition
<1> QED BY NestsOfRoots, NestInvariance, PTL

-----------------------------------------------------------------------------
(***************************************************************************)
(* What the pass generates.                                                *)
(***************************************************************************)

\* What level analysis found, as the transformation uses it: levels and loops
\* of the nest determine each other, and the caller is one level up.
LEMMA NestFacts ==
  ASSUME IInv, phase = "transform"
  PROVE  /\ numLevels \in Nat /\ numLevels > 0 /\ numLevels <= N
         /\ nest \in 0..(nestID - 1) /\ nest \in Nests /\ scope = nestIDToLoops[nest]
         /\ \A l \in scope : /\ l \in Loop /\ l \in heartbeatLoops
                             /\ loopToLevel[l] = program.depth[l]
                             /\ loopToLevel[l] \in 0..(numLevels - 1)
                             /\ levelToLoop[loopToLevel[l]] = l
                             /\ Outermost(l) <=> loopToLevel[l] = 0
                             /\ ~Outermost(l) => /\ program.caller[l] \in scope
                                                 /\ loopToCallerLoop[l] = program.caller[l]
                                                 /\ loopToLevel[l] = loopToLevel[program.caller[l]] + 1
         /\ \A v \in 0..(numLevels - 1) : levelToLoop[v] \in scope /\ loopToLevel[levelToLoop[v]] = v
         /\ rootLoop \in scope /\ Outermost(rootLoop) /\ rootLoop = levelToLoop[0]
<1> USE LoopFacts
<1>1. AnalysisOK /\ ScopeOK /\ RecordsOK /\ LevelsOK /\ NestsOK /\ LevelsAreDepth /\ WellFormed(program)
  BY DEF IInv, AnalysisOK
<1>2. nest \in 0..(nestID - 1) /\ nest \in Nests /\ scope = nestIDToLoops[nest] /\ Placed = heartbeatLoops
  BY <1>1 DEF ScopeOK, NestsOK, Placed
<1>3. ASSUME NEW l \in scope
      PROVE  /\ l \in Loop /\ l \in heartbeatLoops /\ program.kind[l] = "outlined"
             /\ program.depth[l] \in 0..(N - 1) /\ program.root[l] \in Loop
             /\ loopToLevel[l] = program.depth[l] /\ levelToLoop[program.depth[l]] = l
             /\ loopToRoot[l] = rootLoop /\ loopToCallerLoop[l] = program.caller[l]
             /\ program.depth[l] < numLevels
  <2>1. l \in Loop /\ l \in heartbeatLoops /\ program.kind[l] = "outlined"
    BY <1>1 DEF ScopeOK, AnalysisOK
  <2>2. program.depth[l] \in 0..(N - 1) /\ program.root[l] \in Loop
    BY <1>1, <2>1, OfProgram
  <2> QED BY <1>1, <2>1, <2>2 DEF LevelsAreDepth
<1>4. numLevels \in Nat /\ numLevels > 0
  <2>1. PICK l \in scope : TRUE
    BY <1>1 DEF LevelsAreDepth
  <2> QED BY <1>1, <1>3, <2>1 DEF AnalysisOK
<1>5. numLevels <= N
  <2>1. CASE numLevels > N
    <3>1. N \in Levels /\ N < numLevels
      BY <1>4, <2>1 DEF Levels
    <3>2. levelToLoop[N] \in scope /\ levelToLoop[N] # None
      BY <1>1, <1>3, <3>1 DEF LevelsAreDepth
    <3>3. program.depth[levelToLoop[N]] = N /\ program.depth[levelToLoop[N]] \in 0..(N - 1)
      BY <1>1, <1>3, <3>1, <3>2 DEF LevelsOK
    <3> QED BY <3>3
  <2> QED BY <1>4, <2>1
<1>6. ASSUME NEW l \in scope
      PROVE  /\ Outermost(l) <=> loopToLevel[l] = 0
             /\ ~Outermost(l) => /\ program.caller[l] \in scope
                                 /\ loopToLevel[l] = loopToLevel[program.caller[l]] + 1
  <2>1. CASE Outermost(l)
    BY <1>1, <1>3, <2>1, OfProgram DEF Outermost
  <2>2. CASE ~Outermost(l)
    <3>1. program.caller[l] \in scope
      BY <1>1, <2>2 DEF ScopeOK
    <3>2. program.depth[l] = program.depth[program.caller[l]] + 1
      BY <1>1, <1>3, <2>2, OfProgram DEF Outermost
    <3> QED BY <1>3, <2>2, <3>1, <3>2
  <2> QED BY <2>1, <2>2
<1>7. ASSUME NEW v \in 0..(numLevels - 1)
      PROVE  levelToLoop[v] \in scope /\ loopToLevel[levelToLoop[v]] = v
  <2>1. v \in Levels /\ v < numLevels
    BY <1>4, <1>5 DEF Levels
  <2>2. levelToLoop[v] \in scope
    BY <1>1, <2>1 DEF LevelsAreDepth
  <2>3. levelToLoop[v] # None
    BY <1>3, <2>2
  <2> QED BY <1>1, <1>3, <2>1, <2>2, <2>3 DEF LevelsOK
<1>8. rootLoop \in scope /\ Outermost(rootLoop) /\ rootLoop = levelToLoop[0]
  <2>1. PICK l \in scope : TRUE
    BY <1>1 DEF LevelsAreDepth
  <2>2. loopToRoot[l] = program.root[l]
    BY <1>1, <1>3 DEF RecordsOK, Recorded, ScopeOK, LevelsAreDepth
  <2>3. rootLoop = program.root[l] /\ program.root[l] = nestIDToRoot[nest]
    BY <1>1, <1>2, <1>3, <2>2 DEF NestsOK
  <2>4. rootLoop \in heartbeatLoops /\ Outermost(rootLoop)
    BY <1>1, <1>2, <1>3, <2>3 DEF NestsOK
  <2>5. program.root[rootLoop] = rootLoop
    BY <1>1, <2>4, OfProgram DEF ScopeOK, Outermost
  <2>6. rootLoop \in scope
    BY <1>1, <1>2, <2>3, <2>4, <2>5 DEF NestsOK
  <2> QED BY <1>3, <1>6, <2>4, <2>6
<1> QED BY <1>2, <1>3, <1>4, <1>5, <1>6, <1>7, <1>8

LEMMA InScope == ASSUME TypeOK, IInv PROVE scope \subseteq heartbeatLoops /\ heartbeatLoops \subseteq Loop
BY DEF IInv, ScopeOK, AnalysisOK

FirstLoops(k) == {levelToLoop[v] : v \in 0..(k - 1)}

\* The loops of the first k levels are k.
LEMMA LevelCount ==
  ASSUME IInv, phase = "transform", NEW k \in 0..numLevels,
         NEW T, T = FirstLoops(k)
  PROVE  /\ T \subseteq scope /\ Cardinality(T) = k /\ IsFiniteSet(T)
         /\ \A l \in scope : l \in T <=> loopToLevel[l] < k
<1> DEFINE V == 0..(k - 1)
           f == [v \in V |-> levelToLoop[v]]
<1> USE DEF FirstLoops
<1>1. /\ numLevels \in Nat /\ k \in Nat /\ k <= numLevels
      /\ \A l \in scope : loopToLevel[l] \in 0..(numLevels - 1) /\ levelToLoop[loopToLevel[l]] = l
      /\ \A v \in 0..(numLevels - 1) : levelToLoop[v] \in scope /\ loopToLevel[levelToLoop[v]] = v
  BY NestFacts
<1>2. T \subseteq scope /\ \A l \in scope : l \in T <=> loopToLevel[l] < k
  <2>1. \A v \in V : levelToLoop[v] \in scope /\ loopToLevel[levelToLoop[v]] = v
    BY <1>1
  <2>2. ASSUME NEW l \in scope, loopToLevel[l] < k PROVE l \in T
    <3>1. loopToLevel[l] \in V
      BY <1>1, <2>2
    <3> QED BY <1>1, <3>1
  <2>3. ASSUME NEW l \in T PROVE loopToLevel[l] < k
    <3>1. PICK v \in V : l = levelToLoop[v]
      OBVIOUS
    <3> QED BY <1>1, <2>1, <3>1
  <2> QED BY <2>1, <2>2, <2>3
<1>3. IsFiniteSet(V) /\ Cardinality(V) = k
  BY <1>1, FS_Interval
<1>4. f \in Injection(V, T) /\ f \in Surjection(V, T)
  <2>1. \A u, v \in V : f[u] = f[v] => u = v
    BY <1>1
  <2>2. \A l \in T : \E v \in V : f[v] = l
    OBVIOUS
  <2>3. f \in [V -> T]
    OBVIOUS
  <2>4. f \in Injection(V, T)
    BY <2>1, <2>3 DEF Injection, IsInjective
  <2>5. f \in Surjection(V, T)
    BY <2>2, <2>3 DEF Surjection
  <2> QED BY <2>4, <2>5
<1>5. IsFiniteSet(T) /\ Cardinality(T) = k
  <2> HIDE DEF V, f
  <2> QED BY <1>3, <1>4, FS_Surjection
<1> QED BY <1>2, <1>5

\* The leaf is the loop from whose slice no other is called.
LEMMA LeafFacts ==
  ASSUME TypeOK, IInv, phase = "transform", NEW l \in scope
  PROVE  /\ IsLeaf(l) <=> \A m \in scope : program.caller[m] # l
         /\ IsLeaf(l) => \A m \in heartbeatLoops : program.caller[m] # l
         /\ IsLeaf(l) <=> l \in Leaves(nest)
<1>1. IsLeaf(l) <=> \A m \in scope : program.caller[m] # l
  <2>1. CASE IsLeaf(l)
    <3>1. ASSUME NEW m \in scope, program.caller[m] = l PROVE FALSE
      <4>1. l \in Loop /\ None \notin Loop
        BY NestFacts, LoopFacts
      <4>2. ~Outermost(m)
        BY <3>1, <4>1 DEF Outermost
      <4>3. loopToLevel[m] = loopToLevel[l] + 1 /\ loopToLevel[m] \in 0..(numLevels - 1)
        BY <3>1, <4>2, NestFacts
      <4>4. loopToLevel[l] = numLevels - 1 /\ numLevels \in Nat
        BY <2>1, NestFacts DEF IsLeaf
      <4> QED BY <4>3, <4>4
    <3> QED BY <2>1, <3>1
  <2>2. CASE ~IsLeaf(l)
    <3> DEFINE m == levelToLoop[loopToLevel[l] + 1]
    <3>1. loopToLevel[l] \in 0..(numLevels - 1) /\ loopToLevel[l] # numLevels - 1 /\ numLevels \in Nat
      BY <2>2, NestFacts DEF IsLeaf
    <3>2. loopToLevel[l] + 1 \in 0..(numLevels - 1)
      BY <3>1
    <3>3. m \in scope /\ loopToLevel[m] = loopToLevel[l] + 1
      BY <3>2, NestFacts
    <3>4. loopToLevel[m] # 0
      BY <3>1, <3>3
    <3>5. program.caller[m] \in scope /\ loopToLevel[m] = loopToLevel[program.caller[m]] + 1
      BY <3>3, <3>4, NestFacts
    <3>6. loopToLevel[program.caller[m]] \in Nat
      BY <3>5, NestFacts
    <3>7. loopToLevel[program.caller[m]] = loopToLevel[l]
      BY <3>1, <3>3, <3>5, <3>6
    <3>8. program.caller[m] = l
      BY <3>5, <3>7, NestFacts
    <3> QED BY <2>2, <3>3, <3>8
  <2> QED BY <2>1, <2>2
<1>2. ASSUME NEW m \in heartbeatLoops, program.caller[m] = l PROVE m \in scope
  <2>1. AnalysisOK /\ ScopeOK /\ NestsOK /\ WellFormed(program) /\ Placed = heartbeatLoops
    BY DEF IInv, AnalysisOK, Placed
  <2>2. m \in Loop /\ program.kind[m] = "outlined" /\ l \in Loop /\ None \notin Loop
    BY <2>1, NestFacts, LoopFacts DEF ScopeOK
  <2>3. program.root[m] = program.root[l]
    BY <1>2, <2>1, <2>2, OfProgram
  <2>4. nest \in 0..(nestID - 1) /\ scope = nestIDToLoops[nest]
    BY NestFacts
  <2> QED BY <2>1, <2>3, <2>4 DEF NestsOK
<1>3. scope = nestIDToLoops[nest]
  BY NestFacts
<1> QED BY <1>1, <1>2, <1>3 DEF Leaves

\* A nest the pass is through with shares no loop with the present one.
LEMMA OtherNest ==
  ASSUME TypeOK, IInv, NEW n \in Generated
  PROVE  /\ n \in 0..(nestID - 1) /\ n \in Nests
         /\ \A l \in nestIDToLoops[n] :
              /\ l \in Loop /\ l \in heartbeatLoops
              /\ program.caller[l] # None => program.caller[l] \in nestIDToLoops[n]
         /\ phase = "transform" => /\ n # nest
                                   /\ \A l \in nestIDToLoops[n] : l \notin scope
<1>1. AnalysisOK /\ ScopeOK /\ NestsOK /\ WellFormed(program) /\ Placed = heartbeatLoops
  BY DEF IInv, AnalysisOK, Placed, Generated
<1>2. n \in 0..(nestID - 1) /\ (phase = "transform" => n # nest)
  BY DEF Generated
<1>3. n \in Nests /\ nestIDToLoops[n] = {l \in heartbeatLoops : program.root[l] = nestIDToRoot[n]}
  BY <1>1, <1>2 DEF NestsOK
<1>4. ASSUME NEW l \in nestIDToLoops[n], program.caller[l] # None
      PROVE  program.caller[l] \in nestIDToLoops[n]
  <2>1. l \in Loop /\ l \in heartbeatLoops /\ program.kind[l] = "outlined"
    BY <1>1, <1>3 DEF ScopeOK, AnalysisOK
  <2>2. /\ program.caller[l] \in Loop /\ program.kind[program.caller[l]] = "outlined"
        /\ program.root[program.caller[l]] = program.root[l]
    BY <1>1, <1>4, <2>1, OfProgram
  <2>3. phase # "select"
    BY DEF Generated
  <2>4. program.caller[l] \in heartbeatLoops
    BY <1>1, <2>2, <2>3 DEF ScopeOK
  <2> QED BY <1>3, <2>1, <2>2, <2>4
<1>5. ASSUME phase = "transform", NEW l \in nestIDToLoops[n] PROVE l \notin scope
  <2>1. nest \in 0..(nestID - 1) /\ scope = nestIDToLoops[nest] /\ n # nest
    BY <1>2, <1>5, NestFacts
  <2>2. rootToNestID[nestIDToRoot[n]] = n /\ rootToNestID[nestIDToRoot[nest]] = nest
    BY <1>1, <1>2, <2>1 DEF NestsOK
  <2>3. nestIDToRoot[n] # nestIDToRoot[nest]
    BY <2>1, <2>2
  <2>4. scope = {k \in heartbeatLoops : program.root[k] = nestIDToRoot[nest]}
    BY <1>1, <2>1 DEF NestsOK
  <2> QED BY <1>3, <1>5, <2>3, <2>4
<1>6. heartbeatLoops \subseteq Loop
  BY InScope
<1> QED BY <1>2, <1>3, <1>4, <1>5, <1>6

\* The tables of a nest only depend on the program and on the nest's own record.
LEMMA TablesOfKept ==
  ASSUME NEW n, nestIDToLoops'[n] = nestIDToLoops[n], globals'[n] = globals[n], program' = program
  PROVE  TablesOf(n)' <=> TablesOf(n)
<1>1. PICK loops : loops = nestIDToLoops[n]
  OBVIOUS
<1>2. PICK g : g = globals[n]
  OBVIOUS
<1>3. PICK p : p = program
  OBVIOUS
<1>4. /\ loops = nestIDToLoops[n] /\ g = globals[n] /\ p = program
      /\ loops = nestIDToLoops'[n] /\ g = globals'[n] /\ p = program'
  BY <1>1, <1>2, <1>3
<1> DEFINE walk(r, s) == g.leftovers[LeftoverSelector(g.pairs, p.depth[r], p.depth[s])]
           Tables3 == /\ Len(g.slices) = Cardinality(loops)
                      /\ \A l \in loops : g.slices[p.depth[l] + 1] = l
                      /\ \A r, s \in loops : p.depth[s] < p.depth[r] =>
                           /\ Len(walk(r, s)) = p.depth[r] - p.depth[s] + 1
                           /\ walk(r, s)[1] = r /\ walk(r, s)[Len(walk(r, s))] = s
                           /\ \A i \in 1..(Len(walk(r, s)) - 1) :
                                p.caller[walk(r, s)[i]] = walk(r, s)[i + 1]
<1>5. TablesOf(n) <=> Tables3
  BY <1>4 DEF TablesOf
<1>6. TablesOf(n)' <=> Tables3
  BY <1>4 DEF TablesOf
<1> HIDE DEF Tables3
<1> QED BY <1>5, <1>6

\* What holds of such a nest stays, as long as nothing of it is touched.
LEMMA GeneratedKept ==
  ASSUME TypeOK, IInv, NEW n \in Generated, NestGenerated(n),
         UNCHANGED <<program, heartbeatLoops, nestIDToLoops, options>>,
         globals'[n] = globals[n],
         \A l \in nestIDToLoops[n] : slice'[l] = slice[l] /\ (l \in rootCall' <=> l \in rootCall)
  PROVE  NestGenerated(n)'
<1>1. \A l \in nestIDToLoops[n] : program.caller[l] # None => program.caller[l] \in nestIDToLoops[n]
  BY OtherNest
<1>2. ASSUME ~options.disable PROVE TablesOf(n)'
  <2>1. TablesOf(n)
    BY <1>2 DEF NestGenerated
  <2> QED BY <2>1, TablesOfKept
<1>3. ASSUME NEW l \in nestIDToLoops[n]
      PROVE  (slice[l] \in SliceTasks /\ HandlerOf(n, l) /\ CallsOf(l) /\ PhisOf(l))'
  <2>1. slice[l] \in SliceTasks /\ HandlerOf(n, l) /\ CallsOf(l) /\ PhisOf(l)
    BY DEF NestGenerated
  <2>2. slice'[l] = slice[l] /\ (l \in rootCall' <=> l \in rootCall)
    OBVIOUS
  <2>3. SliceTasks' = SliceTasks /\ Leaves(n)' = Leaves(n)
    BY DEF SliceTasks, Leaves
  <2>4. HandlerOf(n, l)'
    BY <2>1, <2>2, <2>3 DEF HandlerOf
  <2>5. CallsOf(l)'
    BY <1>1, <2>1, <2>2 DEF CallsOf, Chunking
  <2>6. PhisOf(l)'
    BY <2>1, <2>2 DEF PhisOf
  <2> QED BY <2>1, <2>2, <2>3, <2>4, <2>5, <2>6
<1> QED BY <1>2, <1>3 DEF NestGenerated

-----------------------------------------------------------------------------
\* Steps of the two analyses: code is neither generated nor forgotten.
LEMMA AnalyseFacts ==
  ASSUME PassInv, AnalyseStep
  PROVE  /\ TypeOK /\ ~failed /\ IInv /\ StepOK /\ IInv' /\ ~failed' /\ step = "none"
         /\ Generated' \subseteq Generated
         /\ Generated' # {} => UNCHANGED <<heartbeatLoops, nestIDToLoops>>
         /\ program' = program /\ heartbeatLoops \subseteq heartbeatLoops'
         /\ \/ phase \in {"select", "nests"} /\ phase' \in {"nests", "next"}
            \/ phase = "levels" /\ phase' \in {"levels", "transform"} /\ nest' = nest /\ pending' = pending
            \/ phase = "next" /\ phase' = "levels" /\ nest' \notin pending'
<1>1. TypeOK /\ (failed => phase = "transform") /\ phase # "transform"
  BY DEF PassInv, AnalyseStep, Analyse, Select, Visit, Ascend, Settle, EndNests, EndLevels,
         ChooseNest, InAnalysis, AllVisited
<1>2. ~failed /\ IInv /\ StepOK /\ step = "none"
  BY <1>1 DEF PassInv, StepOK
<1>3. IInv'
  BY <1>2, NextInv DEF AnalyseStep, Next
<1>4. ~failed'
  BY <1>3 DEF IInv, NoAssertFails
<1>5. nestID \in Nat /\ (phase = "select" => heartbeatLoops = {})
  BY <1>2 DEF IInv, AnalysisOK, ScopeOK
<1> USE DEF nestVars, Generated
<1>6. CASE Select
  BY <1>1, <1>2, <1>3, <1>4, <1>5, <1>6 DEF Select
<1>7. CASE EndNests
  BY <1>1, <1>2, <1>3, <1>4, <1>7 DEF EndNests
<1>8. CASE EndLevels
  BY <1>1, <1>2, <1>3, <1>4, <1>8 DEF EndLevels
<1>9. CASE \E n \in pending : ChooseNest(n)
  BY <1>1, <1>2, <1>3, <1>4, <1>9 DEF ChooseNest
<1>10. CASE (\E l \in todo : Visit(l)) \/ Ascend
  BY <1>1, <1>2, <1>3, <1>4, <1>10 DEF Visit, Ascend, InAnalysis
<1>11. CASE Settle
  BY <1>1, <1>2, <1>3, <1>4, <1>11 DEF Settle, InAnalysis
<1> QED BY <1>6, <1>7, <1>8, <1>9, <1>10, <1>11 DEF AnalyseStep, Analyse

LEMMA AnalyseInv == ASSUME PassInv, AnalyseStep PROVE PassInv'
<1>1. /\ TypeOK /\ ~failed /\ IInv /\ StepOK /\ IInv' /\ ~failed' /\ step = "none"
      /\ Generated' \subseteq Generated
      /\ Generated' # {} => UNCHANGED <<heartbeatLoops, nestIDToLoops>>
      /\ program' = program /\ heartbeatLoops \subseteq heartbeatLoops'
  BY AnalyseFacts
<1>2. /\ UNCHANGED <<options, modified, slice, rootCall, leftoverTasksPairs, gaps, toLink, globals>>
      /\ step' = IF phase = "levels" /\ phase' = "transform" THEN "parallelize" ELSE "none"
      /\ IF phase = "next" THEN ResetTasks
         ELSE UNCHANGED <<loopToHeartbeatTransformation, sliceTasks, leftoverTasks>>
  BY <1>1 DEF AnalyseStep
<1>3. TypeOK'
  <2>1. AnalysisOK'
    BY <1>1 DEF IInv
  <2>2. <<>> \in Seq(Loop) /\ <<>> \in Seq(Seq(Loop))
    OBVIOUS
  <2>3. loopToHeartbeatTransformation' \subseteq Loop /\ sliceTasks' \in Seq(Loop) /\ leftoverTasks' \in Seq(Seq(Loop))
    BY <1>1, <1>2, <2>2 DEF TypeOK, ResetTasks
  <2>4. Tables' = Tables /\ SliceTasks' = SliceTasks
    BY DEF Tables, SliceTasks
  <2> QED BY <1>1, <1>2, <2>1, <2>3, <2>4 DEF TypeOK
<1>4. StepOK'
  <2>1. \A l \in rootCall' : options'.run /\ l \in heartbeatLoops' /\ Outermost(l)'
    BY <1>1, <1>2 DEF StepOK, Outermost
  <2>2. CASE phase \in {"select", "nests"} /\ phase' \in {"nests", "next"}
    BY <1>2, <2>1, <2>2 DEF StepOK
  <2>3. CASE phase = "levels" /\ phase' = "levels" /\ nest' = nest /\ pending' = pending
    BY <1>1, <1>2, <2>1, <2>3 DEF StepOK
  <2>4. CASE phase = "levels" /\ phase' = "transform" /\ nest' = nest /\ pending' = pending
    <3>1. loopToHeartbeatTransformation' = {} /\ step' = "parallelize" /\ nest' \notin pending'
      BY <1>1, <1>2, <2>4 DEF StepOK
    <3>2. \E k \in 0..numLevels' : loopToHeartbeatTransformation' = {levelToLoop'[v] : v \in 0..(k - 1)}
      <4>1. 0 \in 0..numLevels' /\ {levelToLoop'[v] : v \in 0..(0 - 1)} = {}
        BY <1>1 DEF IInv, AnalysisOK
      <4> QED BY <3>1, <4>1
    <3>3. sliceTasks' = <<>> /\ leftoverTasks' = <<>>
      BY <1>1, <1>2, <2>4 DEF StepOK
    <3> QED BY <2>1, <2>4, <3>1, <3>2, <3>3 DEF StepOK
  <2>5. CASE phase = "next" /\ phase' = "levels" /\ nest' \notin pending'
    BY <1>2, <2>1, <2>5 DEF StepOK, ResetTasks
  <2> QED BY <2>2, <2>3, <2>4, <2>5, AnalyseFacts
<1>5. TablesMade'
  BY <1>2 DEF TablesMade
<1>6. ASSUME NEW n \in Generated' PROVE NestGenerated(n)'
  <2>1. n \in Generated /\ NestGenerated(n)
    BY <1>1, <1>6 DEF PassInv
  <2>2. UNCHANGED <<program, heartbeatLoops, nestIDToLoops, options>>
    BY <1>1, <1>2, <1>6
  <2> QED BY <1>1, <1>2, <2>1, <2>2, GeneratedKept
<1>7. phase' = "transform" => loopToHeartbeatTransformation' = {}
  BY <1>1, <1>2, AnalyseFacts DEF StepOK
<1> QED BY <1>1, <1>3, <1>4, <1>5, <1>6, <1>7 DEF PassInv

-----------------------------------------------------------------------------
\* The transformation of a nest.
LEMMA TransformFacts ==
  ASSUME PassInv, NEW s, InTransform(s)
  PROVE  /\ TypeOK /\ ~failed /\ IInv /\ StepOK /\ TablesMade /\ phase = "transform" /\ step = s
         /\ failed = FALSE
         /\ \A l \in loopToHeartbeatTransformation : HandlerMade(l) /\ SliceMade(l)
<1>1. TypeOK /\ ~failed /\ phase = "transform" /\ step = s
  BY DEF PassInv, InTransform
<1>2. failed \in BOOLEAN
  BY <1>1 DEF TypeOK, AnalysisOK
<1> QED BY <1>1, <1>2 DEF PassInv

\* Its steps leave the other nests alone.
LEMMA OthersStay ==
  ASSUME PassInv, ~failed, phase = "transform",
         UNCHANGED <<program, phase, heartbeatLoops, nestVars, pending, nest, options>>,
         \A l \in Loop : l \notin scope => slice'[l] = slice[l] /\ (l \in rootCall' <=> l \in rootCall),
         \A n \in Nests : n # nest => globals'[n] = globals[n]
  PROVE  \A n \in Generated' : NestGenerated(n)'
<1> SUFFICES ASSUME NEW n \in Generated' PROVE NestGenerated(n)'
  OBVIOUS
<1>1. TypeOK /\ IInv /\ n \in Generated /\ NestGenerated(n)
  BY DEF PassInv, Generated, nestVars
<1>2. /\ n \in Nests /\ n # nest
      /\ \A l \in nestIDToLoops[n] : l \in Loop /\ l \notin scope
  BY <1>1, OtherNest
<1>3. globals'[n] = globals[n]
  BY <1>2
<1>4. \A l \in nestIDToLoops[n] : slice'[l] = slice[l] /\ (l \in rootCall' <=> l \in rootCall)
  BY <1>2
<1> QED BY <1>1, <1>3, <1>4, GeneratedKept DEF nestVars

LEMMA NewSliceFields ==
  ASSUME TypeOK, IInv, phase = "transform", NEW l \in scope, NEW s, s = NewSlice(l)
  PROVE  /\ s \in SliceTasks
         /\ s.calls = None /\ s.exits = FirstExits(l) /\ PhisMade(s, l \in program.liveOut)
         /\ ~s.chunked /\ s.polled = IsLeaf(l)
         /\ IsLeaf(l) => /\ s.test = "heartbeat_polling"
                         /\ s.handler \in Handlers /\ s.handler.function = "promotion_handler"
                         /\ s.handler.level = loopToLevel[l] /\ s.handler.levels = numLevels
<1>1. loopToLevel[l] \in Levels /\ numLevels \in Levels
  BY NestFacts, LoopFacts DEF Levels
<1>2. IsLeaf(l) => /\ FirstHandler(l) \in Handlers /\ FirstHandler(l).function = "promotion_handler"
                   /\ FirstHandler(l).level = loopToLevel[l] /\ FirstHandler(l).levels = numLevels
  BY <1>1 DEF FirstHandler, Handlers
<1>3. ~IsLeaf(l) => FirstHandler(l) = [function |-> Null]
  BY DEF FirstHandler
<1>4. IsLeaf(l) \in BOOLEAN
  BY DEF IsLeaf
<1>5. FirstExits(l) \subseteq Blocks
  BY DEF FirstExits, Blocks
<1> DEFINE test == IF IsLeaf(l) THEN "heartbeat_polling" ELSE Null
<1>6. s = [level |-> loopToLevel[l], calls |-> None, exits |-> FirstExits(l),
           returnCode |-> FirstReturnCode(l), liveOut |-> FirstLiveOut(l), polled |-> IsLeaf(l),
           test |-> test, handler |-> FirstHandler(l), chunked |-> FALSE]
  BY DEF NewSlice
<1>7. /\ FirstReturnCode(l) \in CodePhis
      /\ FirstLiveOut(l) \in ValuePhis
  BY DEF FirstReturnCode, FirstLiveOut, AddIncoming, NoEntries, Blocks, Null, CodePhis, ValuePhis
<1>8. test \in {Null, "heartbeat_polling", "__rf_test"} /\ (IsLeaf(l) => test = "heartbeat_polling")
  OBVIOUS
<1>9. FirstHandler(l) \in {[function |-> Null]} \cup Handlers
  BY <1>2, <1>3
<1> HIDE DEF test
<1>10. /\ s.calls = None /\ s.exits = FirstExits(l) /\ s.returnCode = FirstReturnCode(l)
       /\ s.liveOut = FirstLiveOut(l)
       /\ s.chunked = FALSE /\ s.polled = IsLeaf(l) /\ s.test = test /\ s.handler = FirstHandler(l)
  BY <1>6
<1>11. s \in SliceTasks
  BY <1>1, <1>4, <1>5, <1>6, <1>7, <1>8, <1>9 DEF SliceTasks
<1>12. PhisMade(s, l \in program.liveOut)
  <2> SUFFICES ASSUME NEW b \in Blocks
               PROVE  /\ s.returnCode[b] = IF b \in s.exits THEN CodeAt(b) ELSE Null
                      /\ s.liveOut[b] = IF b \in s.exits /\ l \in program.liveOut
                                        THEN ValueAt(s, b) ELSE Null
    BY DEF PhisMade
  <2>1. FirstReturnCode(l)[b] = IF b \in FirstExits(l) THEN CodeAt(b) ELSE Null
    BY DEF FirstReturnCode, FirstExits, AddIncoming, NoEntries, CodeAt, Blocks
  <2>2. FirstLiveOut(l)[b] = IF b \in FirstExits(l) /\ l \in program.liveOut
                             THEN IF b = "header" THEN "phi" ELSE "update" ELSE Null
    BY DEF FirstLiveOut, FirstExits, AddIncoming, NoEntries, Blocks
  <2> QED BY <1>10, <2>1, <2>2 DEF ValueAt
<1> QED BY <1>2, <1>8, <1>10, <1>11, <1>12

\* What a slice without live-outs is once it calls that of l.
Called(t, s, l) ==
  /\ t \in SliceTasks /\ t.calls = l /\ t.exits = s.exits \cup {"body"}
  /\ PhisMade(s, FALSE) => PhisMade(t, FALSE)
  /\ t.polled = s.polled /\ t.test = s.test /\ t.handler = s.handler /\ t.chunked = s.chunked

LEMMA CallingFields ==
  ASSUME NEW s \in SliceTasks, NEW l \in Loop, NEW t, t = Calling(s, l)
  PROVE  Called(t, s, l)
<1>1. PICK code : code = AddIncoming(s.returnCode, "body", "callee")
  OBVIOUS
<1>2. PICK out : out = AddIncoming(s.liveOut, "body", s.liveOut["handler"])
  OBVIOUS
<1>3. /\ s.returnCode \in CodePhis
      /\ s.liveOut \in ValuePhis
      /\ "body" \in Blocks /\ "handler" \in Blocks
  BY DEF SliceTasks, Blocks
<1>4. /\ code \in CodePhis
      /\ \A b \in Blocks : code[b] = IF b = "body" THEN "callee" ELSE s.returnCode[b]
  BY <1>1, <1>3 DEF AddIncoming, CodePhis
<1>5. /\ out \in ValuePhis
      /\ \A b \in Blocks : out[b] = IF b = "body" THEN s.liveOut["handler"] ELSE s.liveOut[b]
  BY <1>2, <1>3 DEF AddIncoming, ValuePhis
<1>6. t = [s EXCEPT !.calls = l, !.exits = s.exits \cup {"body"}, !.returnCode = code, !.liveOut = out]
  BY <1>1, <1>2 DEF Calling, SliceTasks
<1>7. /\ t \in SliceTasks /\ t.calls = l /\ t.exits = s.exits \cup {"body"}
      /\ t.returnCode = code /\ t.liveOut = out
      /\ t.polled = s.polled /\ t.test = s.test /\ t.handler = s.handler /\ t.chunked = s.chunked
  <2>1. PICK e : e = s.exits \cup {"body"}
    OBVIOUS
  <2>2. e \in SUBSET Blocks
    BY <1>3, <2>1 DEF SliceTasks
  <2>3. t = [s EXCEPT !.calls = l, !.exits = e, !.returnCode = code, !.liveOut = out]
    BY <1>6, <2>1
  <2>4. /\ t.calls = l /\ t.exits = e /\ t.returnCode = code /\ t.liveOut = out
        /\ t.polled = s.polled /\ t.test = s.test /\ t.handler = s.handler /\ t.chunked = s.chunked
    BY <2>3 DEF SliceTasks
  <2>5. t \in SliceTasks
    BY <1>4, <1>5, <2>2, <2>3 DEF SliceTasks
  <2> QED BY <2>1, <2>4, <2>5
<1>8. ASSUME PhisMade(s, FALSE) PROVE PhisMade(t, FALSE)
  BY <1>3, <1>4, <1>5, <1>7, <1>8 DEF PhisMade, CodeAt
<1> QED BY <1>7, <1>8 DEF Called

\* A slice is generated for the loop l of level k, the loops above having theirs,
\* and called from the slice of its caller.
LEMMA SliceAdded ==
  ASSUME TypeOK, IInv, phase = "transform", step = "parallelize", step' = step,
         UNCHANGED <<program, scope, recordVars, resultVars, nest, options, toLink>>,
         NEW k \in 0..(numLevels - 1), NEW l, l = levelToLoop[k],
         loopToHeartbeatTransformation = {levelToLoop[v] : v \in 0..(k - 1)},
         loopToHeartbeatTransformation' = loopToHeartbeatTransformation \cup {l},
         \A m \in loopToHeartbeatTransformation : HandlerMade(m) /\ SliceMade(m),
         slice'[l] = NewSlice(l),
         \A m \in loopToHeartbeatTransformation :
           slice'[m] = IF m = program.caller[l] THEN Calling(slice[m], l) ELSE slice[m],
         program.caller[l] \notin program.liveOut,
         rootCall \subseteq rootCall', Outermost(l) /\ options.run => l \in rootCall'
  PROVE  /\ \A m \in loopToHeartbeatTransformation' : HandlerMade(m)' /\ SliceMade(m)'
         /\ loopToHeartbeatTransformation' = {levelToLoop'[v] : v \in 0..((k + 1) - 1)}
<1> DEFINE T == loopToHeartbeatTransformation
<1> USE LoopFacts
<1>1. /\ numLevels \in Nat /\ k \in Nat /\ l \in scope /\ loopToLevel[l] = k
      /\ \A m \in scope : m \in Loop /\ loopToLevel[m] \in 0..(numLevels - 1)
  BY NestFacts
<1>2. k \in 0..numLevels
  BY <1>1
<1>3. T \subseteq scope /\ \A m \in scope : m \in T <=> loopToLevel[m] < k
  <2>1. PICK t : t = T
    OBVIOUS
  <2>2. t = FirstLoops(k)
    BY <2>1 DEF FirstLoops
  <2> HIDE DEF T
  <2>3. t \subseteq scope /\ \A m \in scope : m \in t <=> loopToLevel[m] < k
    BY <1>2, <2>2, LevelCount
  <2> QED BY <2>1, <2>3
<1>4. \A m \in scope : program.caller[m] \in scope =>
         program.caller[m] # None /\ loopToLevel[m] = loopToLevel[program.caller[m]] + 1
  <2>1. ASSUME NEW m \in scope, program.caller[m] \in scope PROVE program.caller[m] # None
    BY <1>1, <2>1
  <2> QED BY <2>1, NestFacts DEF Outermost
<1>5. \A m \in T' : ~(program.caller[m] = l)
  BY <1>1, <1>3, <1>4
<1>6. \A m \in T : program.caller[m] = program.caller[l] => program.caller[m] \notin scope
  BY <1>1, <1>3, <1>4
<1>7. UNCHANGED <<numLevels, loopToLevel, levelToLoop>> /\ \A m : IsLinked(m)' = IsLinked(m) /\ ~IsLinked(m)
  BY DEF recordVars, resultVars, IsLinked
<1>8. \A m : (IsLeaf(m)' <=> IsLeaf(m)) /\ FirstExits(m)' = FirstExits(m)
  BY <1>7 DEF IsLeaf, FirstExits
<1>9. SliceTasks' = SliceTasks /\ Handlers' = Handlers
  BY DEF SliceTasks, Handlers
<1>10. HandlerMade(l)' /\ SliceMade(l)'
  <2> DEFINE s == slice'[l]
  <2>1. /\ s \in SliceTasks
        /\ s.calls = None /\ s.exits = FirstExits(l) /\ PhisMade(s, l \in program.liveOut)
        /\ ~s.chunked /\ s.polled = IsLeaf(l)
        /\ IsLeaf(l) => /\ s.test = "heartbeat_polling"
                        /\ s.handler \in Handlers /\ s.handler.function = "promotion_handler"
                        /\ s.handler.level = loopToLevel[l] /\ s.handler.levels = numLevels
    BY <1>1, NewSliceFields
  <2>2. IsLeaf(l) \in BOOLEAN
    BY DEF IsLeaf
  <2>3. HandlerMade(l)'
    BY <1>7, <1>8, <1>9, <2>1, <2>2 DEF HandlerMade
  <2>4. (Outermost(l) /\ options.run => l \in rootCall)'
    BY DEF Outermost
  <2>5. SliceMade(l)'
    BY <1>5, <1>8, <1>9, <2>1, <2>4 DEF SliceMade
  <2> QED BY <2>3, <2>5
<1>11. ASSUME NEW m \in T PROVE HandlerMade(m)' /\ SliceMade(m)'
  <2>1. HandlerMade(m) /\ SliceMade(m) /\ m \in scope /\ m \in Loop /\ m # l
    BY <1>1, <1>3
  <2>2. (Outermost(m) /\ options.run => m \in rootCall)'
    BY <2>1 DEF Outermost, SliceMade
  <2>3. CASE m # program.caller[l]
    <3>1. slice'[m] = slice[m]
      BY <2>3
    <3>2. HandlerMade(m)'
      BY <1>7, <1>8, <1>9, <2>1, <3>1 DEF HandlerMade
    <3>3. \A j \in T' : program.caller[j] = m => slice[m].calls = j
      BY <2>1, <2>3 DEF SliceMade
    <3>4. SliceMade(m)'
      BY <1>8, <1>9, <2>1, <2>2, <3>1, <3>3 DEF SliceMade
    <3> QED BY <3>2, <3>4
  <2>4. CASE m = program.caller[l]
    <3> DEFINE s == slice[m]
               t == slice'[m]
    <3>1. /\ s \in SliceTasks
          /\ s.calls # None => s.calls \in T /\ program.caller[s.calls] = m
          /\ s.exits = FirstExits(m) \cup {b \in {"body"} : s.calls # None}
                                    \cup {b \in {"chunk_loop_exit"} : s.chunked}
          /\ PhisMade(s, m \in program.liveOut)
          /\ ~s.chunked
      BY <2>1 DEF SliceMade
    <3>2. t = Calling(s, l) /\ l \in Loop
      BY <1>1, <2>4
    <3>3. Called(t, s, l)
      <4>1. PICK old : old = slice[m]
        OBVIOUS
      <4>2. PICK new : new = slice'[m]
        OBVIOUS
      <4>3. old \in SliceTasks /\ l \in Loop /\ new = Calling(old, l)
        BY <3>1, <3>2, <4>1, <4>2
      <4> HIDE DEF s, t
      <4>4. Called(new, old, l)
        BY <4>3, CallingFields
      <4> QED BY <4>1, <4>2, <4>4 DEF s, t
    <3>4. /\ t \in SliceTasks /\ t.calls = l /\ t.exits = s.exits \cup {"body"}
          /\ t.polled = s.polled /\ t.test = s.test /\ t.handler = s.handler
          /\ t.chunked = s.chunked
      BY <3>3 DEF Called
    <3>5. \A j \in T' : program.caller[j] = m => t.calls = j
      BY <1>6, <2>1, <2>4, <3>4
    <3>6. t.calls # None => t.calls \in T' /\ program.caller[t.calls] = m
      BY <2>4, <3>4
    <3>7. s.calls = None
      BY <1>6, <2>1, <2>4, <3>1
    <3>8. t.exits = FirstExits(m) \cup {b \in {"body"} : t.calls # None}
                                  \cup {b \in {"chunk_loop_exit"} : t.chunked}
      BY <1>1, <3>1, <3>4, <3>7
    <3>9. PhisMade(t, m \in program.liveOut)
      <4>1. (m \in program.liveOut) = FALSE
        BY <2>4
      <4>2. PhisMade(s, FALSE)
        BY <3>1, <4>1
      <4>3. PhisMade(t, FALSE)
        BY <3>3, <4>2 DEF Called
      <4> QED BY <4>1, <4>3
    <3>10. HandlerMade(m)'
      BY <1>7, <1>8, <1>9, <2>1, <3>4 DEF HandlerMade
    <3>11. SliceMade(m)'
      BY <1>8, <1>9, <2>2, <3>1, <3>4, <3>5, <3>6, <3>8, <3>9 DEF SliceMade
    <3> QED BY <3>10, <3>11
  <2> QED BY <2>3, <2>4
<1>12. T' = {levelToLoop'[v] : v \in 0..((k + 1) - 1)}
  <2>1. 0..((k + 1) - 1) = 0..(k - 1) \cup {k}
    BY <1>1
  <2> QED BY <1>7, <2>1
<1> QED BY <1>10, <1>11, <1>12

LEMMA RootLoopInv == ASSUME PassInv, ParallelizeRootLoop PROVE PassInv'
<1> USE LoopFacts
<1>1. /\ TypeOK /\ ~failed /\ IInv /\ StepOK /\ phase = "transform" /\ step = "parallelize"
      /\ loopToHeartbeatTransformation = {} /\ loopToHeartbeatTransformation' = {rootLoop}
      /\ slice' = [slice EXCEPT ![rootLoop] = NewSlice(rootLoop)]
      /\ rootCall' = LinkedRoots
      /\ UNCHANGED <<analysisVars, options, step, modified, sliceTasks, leftoverTasks,
                     leftoverTasksPairs, gaps, toLink, globals>>
  BY TransformFacts DEF ParallelizeRootLoop
<1>2. /\ numLevels \in Nat /\ numLevels > 0 /\ rootLoop \in scope /\ Outermost(rootLoop)
      /\ rootLoop = levelToLoop[0] /\ rootLoop \in Loop /\ rootLoop \in heartbeatLoops
  BY <1>1, NestFacts
<1>3. IInv'
  BY <1>1, TablesKept DEF analysisVars
<1>4. slice \in [Loop -> {NoSlice} \cup SliceTasks] /\ NewSlice(rootLoop) \in SliceTasks
  BY <1>1, <1>2, NewSliceFields DEF TypeOK
<1>5. TypeOK'
  <2>1. AnalysisOK'
    BY <1>3 DEF IInv
  <2>2. slice' \in [Loop -> {NoSlice} \cup SliceTasks]
    BY <1>1, <1>2, <1>4
  <2>3. rootCall' \subseteq Loop
    BY <1>1, <1>2 DEF LinkedRoots, TypeOK
  <2>4. Tables' = Tables /\ SliceTasks' = SliceTasks
    BY DEF Tables, SliceTasks
  <2> QED BY <1>1, <1>2, <2>1, <2>2, <2>3, <2>4 DEF TypeOK
<1>6. /\ \A m \in loopToHeartbeatTransformation' : HandlerMade(m)' /\ SliceMade(m)'
      /\ loopToHeartbeatTransformation' = {levelToLoop'[v] : v \in 0..((0 + 1) - 1)}
  <2>1. 0 \in 0..(numLevels - 1) /\ loopToHeartbeatTransformation = {levelToLoop[v] : v \in 0..(0 - 1)}
    BY <1>1, <1>2
  <2>2. slice'[rootLoop] = NewSlice(rootLoop)
    BY <1>1, <1>2, <1>4
  <2>3. rootCall \subseteq rootCall' /\ (Outermost(rootLoop) /\ options.run => rootLoop \in rootCall')
    BY <1>1 DEF LinkedRoots
  <2>4. program.caller[rootLoop] \notin program.liveOut
    <3>1. program.liveOut \subseteq Loop
      BY <1>1 DEF TypeOK, AnalysisOK, WellFormed
    <3> QED BY <1>2, <3>1 DEF Outermost
  <2> QED BY <1>1, <1>2, <2>1, <2>2, <2>3, <2>4, SliceAdded DEF analysisVars
<1>7. StepOK'
  <2>1. \A l \in rootCall' : options'.run /\ l \in heartbeatLoops' /\ Outermost(l)'
    BY <1>1, <1>2 DEF StepOK, LinkedRoots, Outermost, analysisVars
  <2>2. \E k \in 0..numLevels' : loopToHeartbeatTransformation' = {levelToLoop'[v] : v \in 0..(k - 1)}
    <3>1. 0 + 1 \in 0..numLevels'
      BY <1>1, <1>2 DEF analysisVars, resultVars
    <3> QED BY <1>6, <3>1
  <2>3. phase' = phase /\ nest' = nest /\ pending' = pending
    BY <1>1 DEF analysisVars
  <2> QED BY <1>1, <2>1, <2>2, <2>3 DEF StepOK
<1>8. \A n \in Generated' : NestGenerated(n)'
  <2>1. \A l \in Loop : l \notin scope => slice'[l] = slice[l] /\ (l \in rootCall' <=> l \in rootCall)
    BY <1>1, <1>2, <1>4 DEF LinkedRoots
  <2> QED BY <1>1, <2>1, OthersStay DEF analysisVars
<1>9. TablesMade' /\ ~failed'
  BY <1>1 DEF TablesMade, analysisVars
<1> QED BY <1>3, <1>5, <1>6, <1>7, <1>8, <1>9 DEF PassInv

\* The loops transformed are those of the levels above that of the next one.
LEMMA NextLoopFacts ==
  ASSUME PassInv, ParallelizeNestedLoop
  PROVE  \E k \in 1..(numLevels - 1) :
           /\ loopToHeartbeatTransformation = {levelToLoop[v] : v \in 0..(k - 1)}
           /\ NextLoop = levelToLoop[k] /\ NextLoop \in scope /\ NextLoop \in Loop
           /\ ~Outermost(NextLoop)
           /\ program.caller[NextLoop] \in loopToHeartbeatTransformation
           /\ loopToCallerLoop[NextLoop] = program.caller[NextLoop]
           /\ program.caller[NextLoop] # NextLoop
           /\ \A m \in loopToHeartbeatTransformation : program.caller[m] # program.caller[NextLoop]
<1>1. /\ TypeOK /\ IInv /\ StepOK /\ phase = "transform" /\ step = "parallelize"
      /\ loopToHeartbeatTransformation # {} /\ ~AllParallel
  BY TransformFacts DEF ParallelizeNestedLoop
<1>2. PICK k \in 0..numLevels : loopToHeartbeatTransformation = {levelToLoop[v] : v \in 0..(k - 1)}
  BY <1>1 DEF StepOK
<1>3. numLevels \in Nat /\ k \in Nat
  BY <1>1, NestFacts
<1>4. /\ loopToHeartbeatTransformation \subseteq scope /\ Cardinality(loopToHeartbeatTransformation) = k
      /\ \A l \in scope : l \in loopToHeartbeatTransformation <=> loopToLevel[l] < k
  <2>1. PICK t : t = loopToHeartbeatTransformation
    OBVIOUS
  <2>2. t = FirstLoops(k)
    BY <1>2, <2>1 DEF FirstLoops
  <2>3. t \subseteq scope /\ Cardinality(t) = k /\ \A l \in scope : l \in t <=> loopToLevel[l] < k
    BY <1>1, <2>2, LevelCount
  <2> QED BY <2>1, <2>3
<1>5. k # 0 /\ k # numLevels
  <2>1. k # 0
    <3>1. 0..(0 - 1) = {}
      OBVIOUS
    <3> QED BY <1>1, <1>2, <3>1
  <2> QED BY <1>1, <1>4, <2>1 DEF AllParallel
<1>6. k \in 1..(numLevels - 1) /\ k \in 0..(numLevels - 1)
  BY <1>3, <1>5
<1>7. NextLoop = levelToLoop[k]
  BY <1>4 DEF NextLoop
<1>8. NextLoop \in scope /\ loopToLevel[NextLoop] = k
  BY <1>1, <1>6, <1>7, NestFacts
<1>9. NextLoop \in Loop /\ ~Outermost(NextLoop)
  BY <1>1, <1>5, <1>8, NestFacts
<1>10. /\ program.caller[NextLoop] \in scope /\ loopToCallerLoop[NextLoop] = program.caller[NextLoop]
       /\ loopToLevel[NextLoop] = loopToLevel[program.caller[NextLoop]] + 1
       /\ loopToLevel[program.caller[NextLoop]] \in 0..(numLevels - 1)
  BY <1>1, <1>8, <1>9, NestFacts
<1>11. loopToLevel[program.caller[NextLoop]] < k
  BY <1>3, <1>8, <1>10
<1>12. program.caller[NextLoop] \in loopToHeartbeatTransformation
  BY <1>4, <1>10, <1>11
<1>13. program.caller[NextLoop] # NextLoop
  BY <1>3, <1>8, <1>11
<1>14. ASSUME NEW m \in loopToHeartbeatTransformation, program.caller[m] = program.caller[NextLoop]
       PROVE  FALSE
  <2>1. m \in scope /\ loopToLevel[m] < k
    BY <1>4
  <2>2. m \in Loop /\ program.caller[m] # None
    BY <1>1, <1>10, <1>14, <2>1, NestFacts, LoopFacts
  <2>3. loopToLevel[m] = loopToLevel[program.caller[m]] + 1
    BY <1>1, <2>1, <2>2, NestFacts DEF Outermost
  <2> QED BY <1>8, <1>10, <1>14, <2>1, <2>3
<1> HIDE DEF NextLoop
<1> QED BY <1>2, <1>6, <1>7, <1>8, <1>9, <1>10, <1>12, <1>13, <1>14

\* If the assertion about the caller's phi holds, the caller has no live-outs:
\* without a handler block its phi has but the value for the header.
LEMMA CallerWithoutLiveOuts ==
  ASSUME PassInv, ParallelizeNestedLoop, ~failed'
  PROVE  program.caller[NextLoop] \notin program.liveOut
<1>1. PICK c : c = program.caller[NextLoop]
  OBVIOUS
<1>2. /\ NextLoop \in scope /\ c \in loopToHeartbeatTransformation
      /\ loopToCallerLoop[NextLoop] = c
  BY <1>1, NextLoopFacts
<1>3. /\ TypeOK /\ IInv /\ StepOK /\ phase = "transform" /\ step = "parallelize"
      /\ SliceMade(c) /\ NextLoop \in Loop /\ NextLoop \in heartbeatLoops
  BY <1>2, TransformFacts, NestFacts DEF ParallelizeNestedLoop
<1>4. c \in scope
  BY <1>1, <1>2, <1>3, NextLoopFacts, NestFacts
<1>5. ~IsLeaf(c)
  BY <1>1, <1>2, <1>3, <1>4, LeafFacts
<1> SUFFICES ASSUME c \in program.liveOut PROVE FALSE
  BY <1>1
<1>6. PICK s : s = slice[c]
  OBVIOUS
<1>7. /\ PhisMade(s, TRUE) /\ "handler" \notin s.exits /\ "chunk_loop_exit" \notin s.exits
      /\ "header" \in s.exits /\ (s.calls = None => "body" \notin s.exits)
      /\ s.calls # None => s.calls \in loopToHeartbeatTransformation /\ program.caller[s.calls] = c
  BY <1>3, <1>5, <1>6 DEF SliceMade, FirstExits
<1>8. s.calls = None
  BY <1>1, <1>7, NextLoopFacts
<1>9. Entries(s.liveOut) = {"header"}
  BY <1>7, <1>8 DEF PhisMade, ValueAt, Entries, Blocks, Null
<1>10. Cardinality({"header"}) = 1
  BY FS_Singleton
<1>11. Cardinality(Entries(slice[c].liveOut)) = 2
  <2>1. failed' = ~(/\ loopToCallerLoop[NextLoop] \in loopToHeartbeatTransformation
                    /\ loopToCallerLoop[NextLoop] \in program.liveOut =>
                         Cardinality(Entries(slice[loopToCallerLoop[NextLoop]].liveOut)) = 2)
    BY DEF ParallelizeNestedLoop
  <2> QED BY <1>2, <2>1
<1> QED BY <1>6, <1>9, <1>10, <1>11

LEMMA NestedLoopInv == ASSUME PassInv, ParallelizeNestedLoop PROVE PassInv'
<1> USE LoopFacts
<1> DEFINE l == NextLoop
           c == program.caller[l]
<1>1. /\ TypeOK /\ ~failed /\ IInv /\ StepOK /\ phase = "transform" /\ step = "parallelize"
      /\ failed = FALSE
      /\ \A m \in loopToHeartbeatTransformation : HandlerMade(m) /\ SliceMade(m)
  BY TransformFacts DEF ParallelizeNestedLoop
<1>2. PICK k \in 1..(numLevels - 1) :
        /\ loopToHeartbeatTransformation = {levelToLoop[v] : v \in 0..(k - 1)}
        /\ l = levelToLoop[k] /\ l \in scope /\ l \in Loop /\ ~Outermost(l)
        /\ c \in loopToHeartbeatTransformation /\ loopToCallerLoop[l] = c /\ c # l
  BY NextLoopFacts
<1>3. /\ loopToHeartbeatTransformation' = loopToHeartbeatTransformation \cup {l}
      /\ failed' \in BOOLEAN
      /\ slice' = [slice EXCEPT ![l] = NewSlice(l), ![c] = Calling(@, l)]
      /\ modified' = TRUE
      /\ UNCHANGED <<program, phase, heartbeatLoops, scope, todo, stack, recordVars, nestVars,
                     pending, nest, resultVars, options, step, rootCall, sliceTasks,
                     leftoverTasks, leftoverTasksPairs, gaps, toLink, globals>>
  BY <1>2 DEF ParallelizeNestedLoop
<1>4. numLevels \in Nat /\ k \in Nat /\ k \in 0..(numLevels - 1) /\ k \in 0..numLevels
  BY <1>1, NestFacts
<1>5. /\ slice \in [Loop -> {NoSlice} \cup SliceTasks] /\ NewSlice(l) \in SliceTasks
      /\ c \in scope /\ c \in Loop /\ slice[c] \in SliceTasks
  <2>1. NewSlice(l) \in SliceTasks
    BY <1>1, <1>2, NewSliceFields
  <2>2. loopToHeartbeatTransformation \subseteq scope
    <3>1. PICK t : t = loopToHeartbeatTransformation
      OBVIOUS
    <3>2. t = FirstLoops(k)
      BY <1>2, <3>1 DEF FirstLoops
    <3>3. t \subseteq scope
      BY <1>1, <1>4, <3>2, LevelCount
    <3> QED BY <3>1, <3>3
  <2>3. slice[c] \in SliceTasks
    BY <1>1, <1>2 DEF SliceMade
  <2> QED BY <1>1, <1>2, <2>1, <2>2, <2>3, NestFacts DEF TypeOK
<1>6. /\ slice' \in [Loop -> {NoSlice} \cup SliceTasks] /\ slice'[l] = NewSlice(l)
      /\ \A m \in Loop : m # l => slice'[m] = IF m = c THEN Calling(slice[m], l) ELSE slice[m]
  <2>1. Calling(slice[c], l) \in SliceTasks
    BY <1>2, <1>5, CallingFields DEF Called
  <2> HIDE DEF l, c
  <2> QED BY <1>2, <1>3, <1>5, <2>1
<1>7. TypeOK'
  <2>1. AnalysisOK'
    BY <1>1, <1>3 DEF TypeOK, AnalysisOK, MapsOK, recordVars, nestVars, resultVars
  <2>2. Tables' = Tables /\ SliceTasks' = SliceTasks
    BY DEF Tables, SliceTasks
  <2> QED BY <1>1, <1>2, <1>3, <1>6, <2>1, <2>2 DEF TypeOK
<1>8. CASE failed'
  BY <1>1, <1>3, <1>7, <1>8 DEF PassInv
<1>9. CASE ~failed'
  <2>1. failed' = failed
    BY <1>1, <1>3, <1>9
  <2>2. IInv'
    BY <1>1, <1>3, <2>1, TablesKept
  <2>3. \A m \in loopToHeartbeatTransformation : m \in Loop /\ m # l
    <3>1. /\ loopToHeartbeatTransformation \subseteq scope
          /\ \A m \in scope : m \in loopToHeartbeatTransformation <=> loopToLevel[m] < k
      <4>1. loopToHeartbeatTransformation = {levelToLoop[v] : v \in 0..(k - 1)}
        BY <1>2
      <4>2. IInv /\ phase = "transform" /\ k \in 0..numLevels
        BY <1>1, <1>4
      <4>3. PICK T : T = loopToHeartbeatTransformation
        OBVIOUS
      <4>4. PICK u \in 0..numLevels : u = k
        BY <4>2
      <4>5. T = FirstLoops(u)
        BY <4>1, <4>3, <4>4 DEF FirstLoops
      <4>6. /\ T \subseteq scope
            /\ \A m \in scope : m \in T <=> loopToLevel[m] < u
        BY <4>2, <4>5, LevelCount
      <4> QED BY <4>3, <4>4, <4>6
    <3>2. loopToLevel[l] = k
      BY <1>1, <1>2, <1>4, NestFacts
    <3> QED BY <1>1, <1>4, <3>1, <3>2, NestFacts
  <2>4. /\ \A m \in loopToHeartbeatTransformation' : HandlerMade(m)' /\ SliceMade(m)'
        /\ loopToHeartbeatTransformation' = {levelToLoop'[v] : v \in 0..((k + 1) - 1)}
    <3>1. /\ l = levelToLoop[k] /\ slice'[l] = NewSlice(l)
          /\ loopToHeartbeatTransformation = {levelToLoop[v] : v \in 0..(k - 1)}
          /\ loopToHeartbeatTransformation' = loopToHeartbeatTransformation \cup {l}
      BY <1>2, <1>3, <1>6
    <3>2. \A m \in loopToHeartbeatTransformation :
             slice'[m] = IF m = program.caller[l] THEN Calling(slice[m], l) ELSE slice[m]
      BY <1>6, <2>3
    <3>3. rootCall \subseteq rootCall' /\ (Outermost(l) /\ options.run => l \in rootCall')
      BY <1>2, <1>3
    <3>4. /\ TypeOK /\ IInv /\ phase = "transform" /\ step = "parallelize" /\ step' = step
          /\ UNCHANGED <<program, scope, recordVars, resultVars, nest, options, toLink>>
          /\ \A m \in loopToHeartbeatTransformation : HandlerMade(m) /\ SliceMade(m)
          /\ k \in 0..(numLevels - 1)
      BY <1>1, <1>3, <1>4
    <3>5. program.caller[l] \notin program.liveOut
      BY <1>9, CallerWithoutLiveOuts
    <3> HIDE DEF l
    <3> QED BY <3>1, <3>2, <3>3, <3>4, <3>5, SliceAdded
  <2>5. StepOK'
    <3>1. \A m \in rootCall' : options'.run /\ m \in heartbeatLoops' /\ Outermost(m)'
      BY <1>1, <1>3 DEF StepOK, Outermost
    <3>2. \E j \in 0..numLevels' : loopToHeartbeatTransformation' = {levelToLoop'[v] : v \in 0..(j - 1)}
      <4>1. k + 1 \in 0..numLevels'
        BY <1>3, <1>4 DEF resultVars
      <4> QED BY <2>4, <4>1
    <3> QED BY <1>1, <1>3, <3>1, <3>2 DEF StepOK
  <2>6. \A n \in Generated' : NestGenerated(n)'
    <3>1. \A m \in Loop : m \notin scope => slice'[m] = slice[m]
      BY <1>2, <1>5, <1>6
    <3> QED BY <1>1, <1>3, <3>1, OthersStay
  <2>7. TablesMade'
    BY <1>1, <1>3 DEF TablesMade
  <2> QED BY <1>7, <1>9, <2>2, <2>4, <2>5, <2>6, <2>7 DEF PassInv
<1> QED BY <1>8, <1>9

\* With live-outs in leaves alone the assertion about the caller's phi holds:
\* the caller of another loop has none.
LEMMA NestedLoopAsserts ==
  ASSUME PassInv, ParallelizeNestedLoop,
         \A l \in program.liveOut : \A m \in heartbeatLoops : program.caller[m] # l
  PROVE  ~failed'
<1>1. /\ program.caller[NextLoop] \in loopToHeartbeatTransformation /\ NextLoop \in scope
      /\ loopToCallerLoop[NextLoop] = program.caller[NextLoop]
  BY NextLoopFacts
<1>2. NextLoop \in heartbeatLoops
  BY <1>1, TransformFacts, NestFacts DEF ParallelizeNestedLoop
<1> QED BY <1>1, <1>2 DEF ParallelizeNestedLoop

\* The slices of a nest stay made when neither they nor what is linked changes.
LEMMA MadeStays ==
  ASSUME NEW l, HandlerMade(l), SliceMade(l), slice'[l] = slice[l], IsLinked(l)' = IsLinked(l),
         UNCHANGED <<program, recordVars, resultVars, nest, options, rootCall,
                     loopToHeartbeatTransformation>>,
         (IsLeaf(l) /\ Chunking => step' # "parallelize") <=> (IsLeaf(l) /\ Chunking => step # "parallelize")
  PROVE  HandlerMade(l)' /\ SliceMade(l)'
<1>1. UNCHANGED <<numLevels, loopToLevel>>
  BY DEF recordVars, resultVars
<1>2. (IsLeaf(l)' <=> IsLeaf(l)) /\ FirstExits(l)' = FirstExits(l)
  BY <1>1 DEF IsLeaf, FirstExits
<1>3. SliceTasks' = SliceTasks /\ Handlers' = Handlers /\ Chunking' = Chunking
  BY DEF SliceTasks, Handlers, Chunking
<1>4. HandlerMade(l)'
  BY <1>1, <1>2, <1>3 DEF HandlerMade
<1>5. SliceMade(l)'
  BY <1>2, <1>3 DEF SliceMade, Outermost
<1> QED BY <1>4, <1>5

\* What chunking makes of the slice of a leaf, which calls no other slice.
LEMMA ChunkedFields ==
  ASSUME NEW s \in SliceTasks, NEW out \in BOOLEAN, NEW t, t = Chunked(s, out),
         s.exits = {"header", "handler"}, PhisMade(s, out)
  PROVE  /\ t \in SliceTasks /\ t.calls = s.calls /\ t.exits = s.exits \cup {"chunk_loop_exit"}
         /\ t.chunked /\ PhisMade(t, out)
         /\ t.polled = s.polled /\ t.test = s.test /\ t.handler = s.handler
<1>1. PICK code : code = AddIncoming(s.returnCode, "chunk_loop_exit", "zero")
  OBVIOUS
<1>2. PICK values : values = IF out THEN ChunkedLiveOut(s.liveOut) ELSE s.liveOut
  OBVIOUS
<1>3. /\ s.returnCode \in CodePhis
      /\ s.liveOut \in ValuePhis
      /\ "chunk_loop_exit" \in Blocks /\ "handler" \in Blocks
  BY DEF SliceTasks, Blocks
<1>4. /\ code \in CodePhis
      /\ \A b \in Blocks : code[b] = IF b = "chunk_loop_exit" THEN "zero" ELSE s.returnCode[b]
  BY <1>1, <1>3 DEF AddIncoming, CodePhis
<1>5. /\ values \in ValuePhis
      /\ \A b \in Blocks : values[b] = IF out /\ b \in {"handler", "chunk_loop_exit"} THEN "chunk"
                                        ELSE s.liveOut[b]
  BY <1>2, <1>3 DEF AddIncoming, ValuePhis, ChunkedLiveOut
<1>6. t = [s EXCEPT !.chunked = TRUE, !.exits = s.exits \cup {"chunk_loop_exit"},
                    !.returnCode = code, !.liveOut = values]
  BY <1>1, <1>2 DEF Chunked, SliceTasks
<1>7. /\ t \in SliceTasks /\ t.calls = s.calls /\ t.exits = s.exits \cup {"chunk_loop_exit"}
      /\ t.returnCode = code /\ t.liveOut = values /\ t.chunked = TRUE
      /\ t.polled = s.polled /\ t.test = s.test /\ t.handler = s.handler
  <2>1. PICK e : e = s.exits \cup {"chunk_loop_exit"}
    OBVIOUS
  <2>2. e \in SUBSET Blocks
    BY <1>3, <2>1 DEF SliceTasks
  <2>3. t = [s EXCEPT !.chunked = TRUE, !.exits = e, !.returnCode = code, !.liveOut = values]
    BY <1>6, <2>1
  <2>4. /\ t.calls = s.calls /\ t.exits = e /\ t.returnCode = code /\ t.liveOut = values
        /\ t.polled = s.polled /\ t.test = s.test /\ t.handler = s.handler /\ t.chunked = TRUE
    BY <2>3 DEF SliceTasks
  <2>5. t \in SliceTasks
    BY <1>4, <1>5, <2>2, <2>3 DEF SliceTasks
  <2> QED BY <2>1, <2>4, <2>5
<1>8. PhisMade(t, out)
  <2> SUFFICES ASSUME NEW b \in Blocks
               PROVE  /\ t.returnCode[b] = IF b \in t.exits THEN CodeAt(b) ELSE Null
                      /\ t.liveOut[b] = IF b \in t.exits /\ out THEN ValueAt(t, b) ELSE Null
    BY DEF PhisMade
  <2>1. /\ s.returnCode[b] = IF b \in s.exits THEN CodeAt(b) ELSE Null
        /\ s.liveOut[b] = IF b \in s.exits /\ out THEN ValueAt(s, b) ELSE Null
    BY DEF PhisMade
  <2> QED BY <1>4, <1>5, <1>7, <2>1 DEF CodeAt, ValueAt
<1> QED BY <1>7, <1>8

LEMMA ChunkInv == ASSUME PassInv, ChunkLoops PROVE PassInv'
<1> DEFINE T == loopToHeartbeatTransformation
<1>1. /\ TypeOK /\ ~failed /\ IInv /\ StepOK /\ phase = "transform" /\ step = "parallelize"
      /\ \A m \in T : HandlerMade(m) /\ SliceMade(m)
  BY TransformFacts DEF ChunkLoops
<1>2. /\ step' = IF options.disable THEN "link" ELSE "slices"
      /\ toLink' = T
      /\ UNCHANGED <<analysisVars, options, T, modified, rootCall, sliceTasks, leftoverTasks,
                     leftoverTasksPairs, gaps, globals>>
  BY DEF ChunkLoops
<1>3. \A l \in Loop : \/ slice'[l] = slice[l]
                      \/ l \in T /\ IsLeaf(l) /\ slice'[l] = Chunked(slice[l], l \in program.liveOut)
  BY DEF ChunkLoops
<1>4. IInv'
  BY <1>1, <1>2, TablesKept DEF analysisVars
<1>5. T = scope
  <2>1. PICK k \in 0..numLevels : T = {levelToLoop[v] : v \in 0..(k - 1)}
    BY <1>1 DEF StepOK
  <2>2. T \subseteq scope /\ Cardinality(T) = k /\ \A l \in scope : l \in T <=> loopToLevel[l] < k
    <3>1. PICK t : t = T
      OBVIOUS
    <3>2. t = FirstLoops(k)
      BY <2>1, <3>1 DEF FirstLoops
    <3> HIDE DEF T
    <3>3. t \subseteq scope /\ Cardinality(t) = k /\ \A l \in scope : l \in t <=> loopToLevel[l] < k
      BY <1>1, <3>2, LevelCount
    <3> QED BY <3>1, <3>3
  <2>3. k = numLevels
    BY <2>2 DEF ChunkLoops, AllParallel
  <2>4. \A l \in scope : loopToLevel[l] < numLevels
    BY <1>1, NestFacts
  <2> QED BY <2>2, <2>3, <2>4
<1>6. T \subseteq Loop /\ slice \in [Loop -> {NoSlice} \cup SliceTasks] /\ DOMAIN slice' = Loop
  BY <1>1 DEF TypeOK, ChunkLoops
<1>7. ASSUME NEW l \in T
      PROVE  slice'[l] \in SliceTasks /\ HandlerMade(l)' /\ SliceMade(l)'
  <2>1. l \in Loop /\ HandlerMade(l) /\ SliceMade(l) /\ slice[l] \in SliceTasks
    BY <1>1, <1>6 DEF SliceMade
  <2>2. IsLinked(l)' = IsLinked(l) /\ ~IsLinked(l)
    BY <1>1, <1>2 DEF IsLinked
  <2>3. CASE ~(IsLeaf(l) /\ Chunking)
    <3>1. slice'[l] = slice[l]
      BY <2>1, <2>3 DEF ChunkLoops
    <3> QED BY <1>2, <2>1, <2>2, <2>3, <3>1, MadeStays DEF analysisVars
  <2>4. CASE IsLeaf(l) /\ Chunking
    <3>1. PICK s : s = slice[l]
      OBVIOUS
    <3>2. PICK t : t = slice'[l]
      OBVIOUS
    <3>3. PICK out \in BOOLEAN : out = (l \in program.liveOut)
      <4>1. (l \in program.liveOut) \in BOOLEAN
        OBVIOUS
      <4> QED BY <4>1, Zenon
    <3>4. /\ s \in SliceTasks
          /\ \A m \in T : program.caller[m] = l => s.calls = m
          /\ s.calls # None => s.calls \in T /\ program.caller[s.calls] = l
          /\ s.exits = FirstExits(l) \cup {b \in {"body"} : s.calls # None}
                                    \cup {b \in {"chunk_loop_exit"} : s.chunked}
          /\ PhisMade(s, out) /\ ~s.chunked
          /\ Outermost(l) /\ options.run => l \in rootCall
      BY <1>1, <2>1, <3>1, <3>3 DEF SliceMade
    <3>5. s.calls = None
      BY <1>1, <1>5, <2>4, <3>4, LeafFacts
    <3>6. s.exits = {"header", "handler"} /\ FirstExits(l) = {"header", "handler"}
      BY <2>4, <3>4, <3>5 DEF FirstExits
    <3>7. t = Chunked(s, out)
      BY <2>1, <2>4, <3>1, <3>2, <3>3 DEF ChunkLoops
    <3>8. /\ t \in SliceTasks /\ t.calls = s.calls /\ t.exits = s.exits \cup {"chunk_loop_exit"}
          /\ t.chunked /\ PhisMade(t, out)
          /\ t.polled = s.polled /\ t.test = s.test /\ t.handler = s.handler
      BY <3>4, <3>6, <3>7, ChunkedFields
    <3>9. /\ UNCHANGED <<numLevels, loopToLevel, program, options, rootCall, T>>
          /\ IsLeaf(l)' = IsLeaf(l) /\ FirstExits(l)' = FirstExits(l)
          /\ SliceTasks' = SliceTasks /\ Handlers' = Handlers /\ Chunking' = Chunking
          /\ step' # "parallelize"
      BY <1>2 DEF analysisVars, recordVars, resultVars, IsLeaf, FirstExits, SliceTasks, Handlers, Chunking
    <3>10. HandlerMade(l)'
      BY <2>1, <2>2, <3>1, <3>2, <3>8, <3>9 DEF HandlerMade
    <3>11. SliceMade(l)'
      <4>1. /\ t \in SliceTasks' /\ slice'[l] = t
            /\ \A m \in T' : program'.caller[m] = l => t.calls = m
            /\ t.calls # None => t.calls \in T' /\ program'.caller[t.calls] = l
            /\ (Outermost(l) /\ options.run => l \in rootCall)'
        BY <3>2, <3>4, <3>8, <3>9 DEF Outermost
      <4>2. /\ t.exits = FirstExits(l)' \cup {b \in {"body"} : t.calls # None}
                                       \cup {b \in {"chunk_loop_exit"} : t.chunked}
            /\ t.chunked <=> (IsLeaf(l)' /\ Chunking' /\ step' # "parallelize")
        BY <2>4, <3>5, <3>6, <3>8, <3>9
      <4>3. PhisMade(t, l \in program'.liveOut)
        BY <3>3, <3>8, <3>9
      <4> QED BY <4>1, <4>2, <4>3 DEF SliceMade
    <3> QED BY <3>2, <3>8, <3>10, <3>11
  <2> QED BY <2>3, <2>4
<1>8. TypeOK'
  <2>1. slice' \in [Loop -> {NoSlice} \cup SliceTasks]
    <3>1. \A l \in Loop : slice'[l] \in {NoSlice} \cup SliceTasks
      BY <1>3, <1>6, <1>7
    <3>2. slice' = [l \in Loop |-> slice'[l]]
      BY <1>6 DEF ChunkLoops
    <3> QED BY <3>1, <3>2
  <2>2. AnalysisOK'
    BY <1>4 DEF IInv
  <2>3. Tables' = Tables /\ SliceTasks' = SliceTasks
    BY DEF Tables, SliceTasks
  <2> QED BY <1>1, <1>2, <1>6, <2>1, <2>2, <2>3 DEF TypeOK
<1>9. StepOK'
  <2>1. \A m \in rootCall' : options'.run /\ m \in heartbeatLoops' /\ Outermost(m)'
    BY <1>1, <1>2 DEF StepOK, Outermost, analysisVars
  <2>2. UNCHANGED <<phase, nest, pending, scope>>
    BY <1>2 DEF analysisVars
  <2>3. CASE options.disable
    BY <1>1, <1>2, <1>5, <2>1, <2>2, <2>3 DEF StepOK
  <2>4. CASE ~options.disable
    BY <1>1, <1>2, <1>5, <2>1, <2>2, <2>4 DEF StepOK
  <2> QED BY <2>3, <2>4
<1>10. TablesMade' /\ ~failed'
  BY <1>1, <1>2 DEF TablesMade, analysisVars
<1>11. \A n \in Generated' : NestGenerated(n)'
  <2>1. \A l \in Loop : l \notin scope => slice'[l] = slice[l]
    BY <1>3, <1>5
  <2> QED BY <1>1, <1>2, <2>1, OthersStay DEF analysisVars
<1> QED BY <1>2, <1>4, <1>7, <1>8, <1>9, <1>10, <1>11 DEF PassInv

\* The steps that only fill in tables keep the slices and the other nests.
LEMMA TableStep ==
  ASSUME PassInv, ~failed, phase = "transform",
         UNCHANGED <<analysisVars, options, loopToHeartbeatTransformation, slice, rootCall, toLink>>,
         step # "parallelize", step' # "parallelize",
         \A l \in loopToHeartbeatTransformation : IsLinked(l)' = IsLinked(l),
         \A n \in Nests : n # nest => globals'[n] = globals[n]
  PROVE  /\ IInv' /\ ~failed'
         /\ \A n \in Generated' : NestGenerated(n)'
         /\ \A l \in loopToHeartbeatTransformation' : HandlerMade(l)' /\ SliceMade(l)'
<1>1. IInv' /\ ~failed'
  BY TablesKept DEF PassInv, analysisVars
<1>2. \A n \in Generated' : NestGenerated(n)'
  BY OthersStay DEF analysisVars
<1>3. ASSUME NEW l \in loopToHeartbeatTransformation PROVE HandlerMade(l)' /\ SliceMade(l)'
  BY MadeStays DEF PassInv, analysisVars
<1> QED BY <1>1, <1>2, <1>3

LEMMA SliceTableFacts ==
  ASSUME IInv, phase = "transform"
  PROVE  /\ SliceTable \in Seq(Loop) /\ Len(SliceTable) = numLevels
         /\ <<>> \o SliceTable = SliceTable
         /\ \A i \in 1..numLevels : SliceTable[i] = levelToLoop[i - 1]
<1>1. numLevels \in Nat /\ \A i \in 1..numLevels : levelToLoop[i - 1] \in Loop
  <2>1. numLevels \in Nat
    BY NestFacts
  <2>2. \A i \in 1..numLevels : i - 1 \in 0..(numLevels - 1)
    BY <2>1
  <2> QED BY <2>1, <2>2, NestFacts
<1>2. SliceTable \in Seq(Loop) /\ Len(SliceTable) = numLevels
  BY <1>1 DEF SliceTable
<1>3. <<>> \o SliceTable = SliceTable
  BY <1>2
<1> QED BY <1>2, <1>3 DEF SliceTable

LEMMA CreateSlicesInv == ASSUME PassInv, CreateSliceTasks PROVE PassInv'
<1>1. /\ TypeOK /\ ~failed /\ IInv /\ StepOK /\ phase = "transform" /\ step = "slices"
  BY TransformFacts DEF CreateSliceTasks
<1>2. /\ sliceTasks' = SliceTable /\ sliceTasks' \in Seq(Loop)
      /\ globals' = [globals EXCEPT ![nest].slices = sliceTasks']
      /\ gaps' = IF numLevels > 1 THEN LowerPairs ELSE {}
      /\ leftoverTasksPairs' = <<>> /\ leftoverTasks = <<>>
      /\ step' = IF numLevels > 1 THEN "leftovers" ELSE "link"
      /\ UNCHANGED <<analysisVars, options, loopToHeartbeatTransformation, modified, slice,
                     rootCall, leftoverTasks, toLink>>
  BY <1>1, SliceTableFacts DEF CreateSliceTasks, StepOK
<1>3. nest \in Nests /\ numLevels \in Nat
  BY <1>1, NestFacts
<1>4. /\ globals' \in [Nests -> Tables] /\ globals'[nest].slices = SliceTable
      /\ \A n \in Nests : n # nest => globals'[n] = globals[n]
  <2>1. globals \in [Nests -> Tables]
    BY <1>1 DEF TypeOK
  <2> QED BY <1>2, <1>3, <2>1 DEF Tables
<1>5. toLink = scope /\ loopToHeartbeatTransformation = scope /\ ~options.disable
  BY <1>1 DEF StepOK
<1>6. \A l \in loopToHeartbeatTransformation : IsLinked(l)' = IsLinked(l)
  BY <1>1, <1>2, <1>5 DEF IsLinked
<1>7. /\ IInv' /\ ~failed'
      /\ \A n \in Generated' : NestGenerated(n)'
      /\ \A l \in loopToHeartbeatTransformation' : HandlerMade(l)' /\ SliceMade(l)'
  BY <1>1, <1>2, <1>4, <1>6, TableStep
<1>8. TypeOK'
  <2>1. AnalysisOK'
    BY <1>7 DEF IInv
  <2>2. gaps' \subseteq Loop \X Loop
    <3>1. scope \subseteq Loop
      BY <1>1, NestFacts
    <3> QED BY <1>2, <3>1 DEF LowerPairs
  <2>3. <<>> \in Seq(Levels \X Levels)
    OBVIOUS
  <2>4. Tables' = Tables /\ SliceTasks' = SliceTasks
    BY DEF Tables, SliceTasks
  <2> QED BY <1>1, <1>2, <1>4, <2>1, <2>2, <2>3, <2>4 DEF TypeOK
<1>9. StepOK'
  <2>1. \A m \in rootCall' : options'.run /\ m \in heartbeatLoops' /\ Outermost(m)'
    BY <1>1, <1>2 DEF StepOK, Outermost, analysisVars
  <2>2. UNCHANGED <<phase, nest, pending, scope>>
    BY <1>2 DEF analysisVars
  <2>3. CASE numLevels > 1
    BY <1>1, <1>2, <1>5, <2>1, <2>2, <2>3 DEF StepOK
  <2>4. CASE ~(numLevels > 1)
    BY <1>1, <1>2, <1>5, <2>1, <2>2, <2>4 DEF StepOK
  <2> QED BY <2>3, <2>4
<1>10. TablesMade'
  <2>1. UNCHANGED <<nest, scope, loopToLevel, levelToLoop, numLevels>>
    BY <1>2 DEF analysisVars, recordVars, resultVars
  <2>2. SliceTable' = SliceTable /\ LowerPairs' = LowerPairs
    BY <2>1 DEF SliceTable, LowerPairs
  <2>3. CASE numLevels > 1
    <3>1. step' = "leftovers" /\ gaps' = LowerPairs
      BY <1>2, <2>3
    <3>2. PairsMade(leftoverTasks, leftoverTasksPairs, gaps)'
      BY <1>2, <2>2, <3>1 DEF PairsMade
    <3> QED BY <1>4, <2>1, <2>2, <3>1, <3>2 DEF TablesMade
  <2>4. CASE ~(numLevels > 1)
    <3>1. step' = "link"
      BY <1>2, <2>4
    <3> QED BY <1>4, <2>1, <2>2, <2>4, <3>1 DEF TablesMade
  <2> QED BY <2>3, <2>4
<1> QED BY <1>2, <1>7, <1>8, <1>9, <1>10 DEF PassInv

LEMMA WalkFacts ==
  ASSUME IInv, phase = "transform", NEW u \in 0..(numLevels - 1), NEW v \in 0..(numLevels - 1), v < u
  PROVE  /\ Walk(u, v) \in Seq(Loop) /\ Len(Walk(u, v)) = u - v + 1
         /\ \A i \in 1..(u - v + 1) : Walk(u, v)[i] = levelToLoop[u - (i - 1)]
                                      /\ u - (i - 1) \in 0..(numLevels - 1)
<1>1. numLevels \in Nat /\ u - v + 1 \in Nat
  BY NestFacts
<1>2. \A i \in 1..(u - v + 1) : u - (i - 1) \in 0..(numLevels - 1)
  BY <1>1
<1>3. \A i \in 1..(u - v + 1) : levelToLoop[u - (i - 1)] \in Loop
  BY <1>2, NestFacts
<1> QED BY <1>1, <1>2, <1>3 DEF Walk

LEMMA CreateLeftoverInv ==
  ASSUME PassInv, NEW r \in Loop, NEW s \in Loop, CreateLeftoverTask(r, s)
  PROVE  PassInv'
<1> DEFINE u == loopToLevel[r]
           v == loopToLevel[s]
<1>1. /\ TypeOK /\ ~failed /\ IInv /\ StepOK /\ TablesMade /\ phase = "transform" /\ step = "leftovers"
  BY TransformFacts DEF CreateLeftoverTask
<1>2. /\ <<r, s>> \in gaps /\ gaps' = gaps \ {<<r, s>>}
      /\ leftoverTasks' = Append(leftoverTasks, Walk(u, v))
      /\ leftoverTasksPairs' = Append(leftoverTasksPairs, <<u, v>>)
      /\ UNCHANGED <<analysisVars, options, step, loopToHeartbeatTransformation, modified, slice,
                     rootCall, sliceTasks, toLink, globals>>
  BY DEF CreateLeftoverTask
<1>3. /\ gaps \subseteq LowerPairs /\ globals[nest].slices = SliceTable
      /\ PairsMade(leftoverTasks, leftoverTasksPairs, gaps)
  BY <1>1 DEF TablesMade
<1>4. r \in scope /\ s \in scope /\ v < u
  BY <1>2, <1>3 DEF LowerPairs
<1>5. u \in 0..(numLevels - 1) /\ v \in 0..(numLevels - 1) /\ numLevels \in Nat /\ numLevels <= N
  BY <1>1, <1>4, NestFacts
<1>6. Walk(u, v) \in Seq(Loop)
  BY <1>1, <1>4, <1>5, WalkFacts
<1>7. \A l \in loopToHeartbeatTransformation : IsLinked(l)' = IsLinked(l)
  BY <1>2 DEF IsLinked
<1>8. /\ IInv' /\ ~failed'
      /\ \A n \in Generated' : NestGenerated(n)'
      /\ \A l \in loopToHeartbeatTransformation' : HandlerMade(l)' /\ SliceMade(l)'
  BY <1>1, <1>2, <1>7, TableStep
<1>9. TypeOK'
  <2>1. AnalysisOK'
    BY <1>8 DEF IInv
  <2>2. u \in Levels /\ v \in Levels
    BY <1>5, LoopFacts DEF Levels
  <2>3. leftoverTasks' \in Seq(Seq(Loop)) /\ leftoverTasksPairs' \in Seq(Levels \X Levels)
    BY <1>1, <1>2, <1>6, <2>2 DEF TypeOK
  <2>4. Tables' = Tables /\ SliceTasks' = SliceTasks
    BY DEF Tables, SliceTasks
  <2> QED BY <1>1, <1>2, <2>1, <2>3, <2>4 DEF TypeOK
<1>10. StepOK'
  BY <1>1, <1>2 DEF StepOK, Outermost, analysisVars, recordVars, resultVars
<1>11. TablesMade'
  <2>1. UNCHANGED <<nest, scope, loopToLevel, levelToLoop, numLevels>>
    BY <1>2 DEF analysisVars, recordVars, resultVars
  <2>2. SliceTable' = SliceTable /\ LowerPairs' = LowerPairs /\ \A i, j : Walk(i, j)' = Walk(i, j)
    BY <2>1 DEF SliceTable, LowerPairs, Walk
  <2> DEFINE n == Len(leftoverTasksPairs)
  <2>3. /\ n \in Nat /\ Len(leftoverTasks) = n
        /\ Len(leftoverTasks') = n + 1 /\ Len(leftoverTasksPairs') = n + 1
        /\ leftoverTasks'[n + 1] = Walk(u, v) /\ leftoverTasksPairs'[n + 1] = <<u, v>>
        /\ \A i \in 1..n : leftoverTasks'[i] = leftoverTasks[i] /\ leftoverTasksPairs'[i] = leftoverTasksPairs[i]
    BY <1>1, <1>2, <1>3 DEF TypeOK, PairsMade
  <2>4. ASSUME NEW i \in 1..(n + 1)
        PROVE  LET p == leftoverTasksPairs'[i] IN
               p[2] < p[1] /\ p[1] < numLevels /\ leftoverTasks'[i] = Walk(p[1], p[2])
    <3>1. CASE i \in 1..n
      BY <1>3, <2>3, <3>1 DEF PairsMade
    <3>2. CASE i = n + 1
      BY <1>4, <1>5, <2>3, <3>2
    <3> QED BY <2>3, <3>1, <3>2
  <2>5. ASSUME NEW g \in LowerPairs \ gaps'
        PROVE  \E i \in 1..(n + 1) : leftoverTasksPairs'[i] = <<loopToLevel[g[1]], loopToLevel[g[2]]>>
    <3>1. CASE g \in gaps
      <4>1. g = <<r, s>>
        BY <1>2, <2>5, <3>1
      <4>2. n + 1 \in 1..(n + 1)
        BY <2>3
      <4> QED BY <2>3, <4>1, <4>2
    <3>2. CASE g \notin gaps
      <4>1. PICK i \in 1..n : leftoverTasksPairs[i] = <<loopToLevel[g[1]], loopToLevel[g[2]]>>
        BY <1>3, <2>5, <3>2 DEF PairsMade
      <4>2. i \in 1..(n + 1)
        BY <2>3
      <4> QED BY <2>3, <4>1, <4>2
    <3> QED BY <3>1, <3>2
  <2>6. PairsMade(leftoverTasks, leftoverTasksPairs, gaps)'
    <3> HIDE DEF n
    <3> QED BY <2>1, <2>2, <2>3, <2>4, <2>5 DEF PairsMade
  <2>7. gaps' \subseteq LowerPairs /\ step' = "leftovers"
    BY <1>1, <1>2, <1>3
  <2> QED BY <1>2, <1>3, <2>1, <2>2, <2>6, <2>7 DEF TablesMade
<1> QED BY <1>8, <1>9, <1>10, <1>11 DEF PassInv

LEMMA PublishInv == ASSUME PassInv, PublishLeftovers PROVE PassInv'
<1>1. /\ TypeOK /\ ~failed /\ IInv /\ StepOK /\ TablesMade /\ phase = "transform" /\ step = "leftovers"
  BY TransformFacts DEF PublishLeftovers
<1>2. /\ gaps = {} /\ step' = "link"
      /\ globals' = [globals EXCEPT ![nest].leftovers = leftoverTasks,
                                    ![nest].pairs = leftoverTasksPairs]
      /\ UNCHANGED <<analysisVars, options, loopToHeartbeatTransformation, modified, slice,
                     rootCall, sliceTasks, leftoverTasks, leftoverTasksPairs, gaps, toLink>>
  BY DEF PublishLeftovers
<1>3. /\ globals[nest].slices = SliceTable /\ PairsMade(leftoverTasks, leftoverTasksPairs, gaps)
  BY <1>1 DEF TablesMade
<1>4. nest \in Nests
  BY <1>1, NestFacts
<1>5. /\ globals' \in [Nests -> Tables] /\ globals'[nest].slices = SliceTable
      /\ globals'[nest].leftovers = leftoverTasks /\ globals'[nest].pairs = leftoverTasksPairs
      /\ \A n \in Nests : n # nest => globals'[n] = globals[n]
  <2>1. /\ globals \in [Nests -> Tables]
        /\ leftoverTasks \in Seq(Seq(Loop)) /\ leftoverTasksPairs \in Seq(Levels \X Levels)
    BY <1>1 DEF TypeOK
  <2> QED BY <1>2, <1>3, <1>4, <2>1 DEF Tables
<1>6. toLink = scope /\ loopToHeartbeatTransformation = scope /\ ~options.disable
  BY <1>1 DEF StepOK
<1>7. \A l \in loopToHeartbeatTransformation : IsLinked(l)' = IsLinked(l)
  BY <1>1, <1>2, <1>6 DEF IsLinked
<1>8. /\ IInv' /\ ~failed'
      /\ \A n \in Generated' : NestGenerated(n)'
      /\ \A l \in loopToHeartbeatTransformation' : HandlerMade(l)' /\ SliceMade(l)'
  BY <1>1, <1>2, <1>5, <1>7, TableStep
<1>9. TypeOK'
  <2>1. AnalysisOK'
    BY <1>8 DEF IInv
  <2>2. Tables' = Tables /\ SliceTasks' = SliceTasks
    BY DEF Tables, SliceTasks
  <2> QED BY <1>1, <1>2, <1>5, <2>1, <2>2 DEF TypeOK
<1>10. StepOK'
  BY <1>1, <1>2, <1>6 DEF StepOK, Outermost, analysisVars
<1>11. TablesMade'
  <2>1. UNCHANGED <<nest, scope, loopToLevel, levelToLoop, numLevels>>
    BY <1>2 DEF analysisVars, recordVars, resultVars
  <2>2. SliceTable' = SliceTable /\ LowerPairs' = LowerPairs /\ \A i, j : Walk(i, j)' = Walk(i, j)
    BY <2>1 DEF SliceTable, LowerPairs, Walk
  <2>3. PairsMade(globals[nest].leftovers, globals[nest].pairs, {})'
    <3>1. PICK tasks : tasks = leftoverTasks
      OBVIOUS
    <3>2. PICK pairs : pairs = leftoverTasksPairs
      OBVIOUS
    <3>3. PairsMade(tasks, pairs, {})
      BY <1>2, <1>3, <3>1, <3>2
    <3>4. PairsMade(tasks, pairs, {})'
      BY <2>1, <2>2, <3>3 DEF PairsMade
    <3>5. tasks = globals'[nest'].leftovers /\ pairs = globals'[nest'].pairs
      BY <1>5, <2>1, <3>1, <3>2
    <3> QED BY <3>4, <3>5
  <2> QED BY <1>2, <1>5, <2>1, <2>2, <2>3 DEF TablesMade
<1> QED BY <1>8, <1>9, <1>10, <1>11 DEF PassInv

LEMMA LinkedFields ==
  ASSUME NEW s \in SliceTasks, s.handler \in Handlers, NEW n \in Nests, NEW t, t = Linked(s, n)
  PROVE  /\ t \in SliceTasks /\ t.handler \in Handlers
         /\ t.calls = s.calls /\ t.exits = s.exits /\ t.returnCode = s.returnCode
         /\ t.liveOut = s.liveOut /\ t.test = s.test /\ t.chunked = s.chunked
         /\ t.polled <=> (s.polled /\ ~options.disable)
         /\ t.handler.function = s.handler.function /\ t.handler.level = s.handler.level
         /\ t.handler.levels = s.handler.levels
         /\ ~options.disable => t.handler.slices = n
         /\ ~options.disable /\ numLevels # 1 => t.handler.leftovers = n /\ t.handler.selector = n
<1>1. CASE options.disable
  <2>1. t = [s EXCEPT !.polled = FALSE]
    BY <1>1 DEF Linked
  <2> QED BY <1>1, <2>1 DEF SliceTasks
<1>2. CASE ~options.disable
  <2>1. PICK h : h = s.handler
    OBVIOUS
  <2>2. CASE numLevels = 1
    <3> DEFINE g == [h EXCEPT !.slices = n]
    <3>1. /\ g \in Handlers /\ g.function = h.function /\ g.level = h.level /\ g.levels = h.levels
          /\ g.slices = n
      BY <2>1 DEF Handlers
    <3>2. t = [s EXCEPT !.handler = g]
      BY <1>2, <2>1, <2>2 DEF Linked, SliceTasks
    <3> HIDE DEF g
    <3>3. t.handler = g /\ t \in SliceTasks /\ t.polled = s.polled
          /\ t.calls = s.calls /\ t.exits = s.exits /\ t.returnCode = s.returnCode
          /\ t.liveOut = s.liveOut /\ t.test = s.test /\ t.chunked = s.chunked
      BY <3>1, <3>2 DEF SliceTasks
    <3> QED BY <1>2, <2>1, <2>2, <3>1, <3>3
  <2>3. CASE numLevels # 1
    <3> DEFINE g == [h EXCEPT !.slices = n, !.leftovers = n, !.selector = n]
    <3>1. /\ g \in Handlers /\ g.function = h.function /\ g.level = h.level /\ g.levels = h.levels
          /\ g.slices = n /\ g.leftovers = n /\ g.selector = n
      BY <2>1 DEF Handlers
    <3>2. t = [s EXCEPT !.handler = g]
      BY <1>2, <2>1, <2>3 DEF Linked, SliceTasks
    <3> HIDE DEF g
    <3>3. t.handler = g /\ t \in SliceTasks /\ t.polled = s.polled
          /\ t.calls = s.calls /\ t.exits = s.exits /\ t.returnCode = s.returnCode
          /\ t.liveOut = s.liveOut /\ t.test = s.test /\ t.chunked = s.chunked
      BY <3>1, <3>2 DEF SliceTasks
    <3> QED BY <1>2, <2>1, <2>3, <3>1, <3>3
  <2> QED BY <2>2, <2>3
<1> QED BY <1>1, <1>2

LEMMA RolledFields ==
  ASSUME NEW s \in SliceTasks, s.handler \in Handlers, NEW t, t = RolledForward(s)
  PROVE  /\ t \in SliceTasks
         /\ t.calls = s.calls /\ t.exits = s.exits /\ t.returnCode = s.returnCode
         /\ t.liveOut = s.liveOut /\ t.chunked = s.chunked /\ t.polled = s.polled
         /\ t.test = "__rf_test" /\ t.handler.function = "__rf_handle_wrapper"
         /\ t.handler.level = s.handler.level /\ t.handler.levels = s.handler.levels
         /\ t.handler.slices = s.handler.slices /\ t.handler.leftovers = s.handler.leftovers
         /\ t.handler.selector = s.handler.selector
<1>1. PICK h : h = s.handler
  OBVIOUS
<1> DEFINE g == [h EXCEPT !.function = "__rf_handle_wrapper"]
<1>2. /\ g \in Handlers /\ g.function = "__rf_handle_wrapper" /\ g.level = h.level
      /\ g.levels = h.levels /\ g.slices = h.slices /\ g.leftovers = h.leftovers
      /\ g.selector = h.selector
  BY <1>1 DEF Handlers
<1>3. t = [s EXCEPT !.test = "__rf_test", !.handler = g]
  BY <1>1 DEF RolledForward, SliceTasks
<1> HIDE DEF g
<1>4. /\ t.handler = g /\ t.test = "__rf_test" /\ t \in SliceTasks
      /\ t.calls = s.calls /\ t.exits = s.exits /\ t.returnCode = s.returnCode
      /\ t.liveOut = s.liveOut /\ t.chunked = s.chunked /\ t.polled = s.polled
  BY <1>2, <1>3 DEF SliceTasks
<1> QED BY <1>1, <1>2, <1>4

LEMMA LinkInv == ASSUME PassInv, NEW l \in toLink, Link(l) PROVE PassInv'
<1> DEFINE T == loopToHeartbeatTransformation
<1>1. /\ TypeOK /\ ~failed /\ IInv /\ StepOK /\ TablesMade /\ phase = "transform" /\ step = "link"
      /\ \A m \in T : HandlerMade(m) /\ SliceMade(m)
  BY TransformFacts DEF Link
<1>2. /\ toLink' = toLink \ {l}
      /\ slice' = IF IsLeaf(l) THEN [slice EXCEPT ![l] = Linked(@, nest)] ELSE slice
      /\ UNCHANGED <<analysisVars, options, step, T, modified, rootCall, sliceTasks, leftoverTasks,
                     leftoverTasksPairs, gaps, globals>>
  BY DEF Link
<1>3. T = scope /\ l \in scope /\ l \in Loop /\ l \in T /\ nest \in Nests /\ scope \subseteq Loop
  BY <1>1, NestFacts DEF StepOK
<1>4. slice \in [Loop -> {NoSlice} \cup SliceTasks] /\ slice[l] \in SliceTasks
  BY <1>1, <1>3 DEF TypeOK, SliceMade
<1>5. IInv' /\ ~failed'
  BY <1>1, <1>2, TablesKept DEF analysisVars
<1>6. UNCHANGED <<numLevels, loopToLevel, program, options, rootCall, T, nest, scope, levelToLoop, phase>>
  BY <1>2 DEF analysisVars, recordVars, resultVars
<1>7. IsLinked(l)' /\ ~IsLinked(l) /\ \A m \in T : m # l => IsLinked(m)' = IsLinked(m)
  BY <1>1, <1>2, <1>3 DEF IsLinked
<1>8. \A m \in Loop : m # l => slice'[m] = slice[m]
  BY <1>2, <1>4
<1>9. slice'[l] \in SliceTasks /\ HandlerMade(l)' /\ SliceMade(l)' /\ slice' \in [Loop -> {NoSlice} \cup SliceTasks]
  <2>1. (IsLeaf(l)' <=> IsLeaf(l)) /\ FirstExits(l)' = FirstExits(l)
    BY <1>6 DEF IsLeaf, FirstExits
  <2>2. SliceTasks' = SliceTasks /\ Handlers' = Handlers
    BY DEF SliceTasks, Handlers
  <2>3. HandlerMade(l) /\ SliceMade(l)
    BY <1>1, <1>3
  <2>4. CASE ~IsLeaf(l)
    <3>1. slice' = slice
      BY <1>2, <2>4
    <3>2. HandlerMade(l)'
      BY <2>1, <2>3, <2>4, <3>1 DEF HandlerMade
    <3>3. SliceMade(l)'
      BY <1>2, <1>6, <2>1, <2>2, <2>3, <3>1 DEF SliceMade, Outermost, Chunking
    <3> QED BY <1>4, <3>1, <3>2, <3>3
  <2>5. CASE IsLeaf(l)
    <3>1. PICK s : s = slice[l]
      OBVIOUS
    <3>2. PICK t : t = Linked(s, nest)
      OBVIOUS
    <3>3. s \in SliceTasks /\ s.handler \in Handlers
      BY <1>4, <2>3, <2>5, <3>1 DEF HandlerMade
    <3>4. /\ t \in SliceTasks /\ t.handler \in Handlers
          /\ t.calls = s.calls /\ t.exits = s.exits /\ t.returnCode = s.returnCode
          /\ t.liveOut = s.liveOut /\ t.test = s.test /\ t.chunked = s.chunked
          /\ t.polled <=> (s.polled /\ ~options.disable)
          /\ t.handler.function = s.handler.function /\ t.handler.level = s.handler.level
          /\ t.handler.levels = s.handler.levels
          /\ ~options.disable => t.handler.slices = nest
          /\ ~options.disable /\ numLevels # 1 => t.handler.leftovers = nest /\ t.handler.selector = nest
      BY <1>3, <3>2, <3>3, LinkedFields
    <3>5. slice'[l] = t /\ slice' \in [Loop -> {NoSlice} \cup SliceTasks]
      BY <1>2, <1>3, <1>4, <2>5, <3>1, <3>2, <3>4
    <3>6. numLevels \in Nat
      BY <1>1, NestFacts
    <3>7. HandlerMade(l)'
      BY <1>6, <1>7, <2>1, <2>2, <2>3, <2>5, <3>1, <3>4, <3>5, <3>6 DEF HandlerMade
    <3>8. SliceMade(l)'
      <4>1. /\ \A m \in T : program.caller[m] = l => s.calls = m
            /\ s.calls # None => s.calls \in T /\ program.caller[s.calls] = l
            /\ s.exits = FirstExits(l) \cup {b \in {"body"} : s.calls # None}
                                      \cup {b \in {"chunk_loop_exit"} : s.chunked}
            /\ PhisMade(s, l \in program.liveOut)
            /\ s.chunked <=> (IsLeaf(l) /\ Chunking /\ step # "parallelize")
            /\ Outermost(l) /\ options.run => l \in rootCall
        BY <2>3, <3>1 DEF SliceMade
      <4>2. /\ \A m \in T' : program'.caller[m] = l => t.calls = m
            /\ t.calls # None => t.calls \in T' /\ program'.caller[t.calls] = l
            /\ (Outermost(l) /\ options.run => l \in rootCall)'
        BY <1>6, <3>4, <4>1 DEF Outermost
      <4>3. /\ t.exits = FirstExits(l)' \cup {b \in {"body"} : t.calls # None}
                                       \cup {b \in {"chunk_loop_exit"} : t.chunked}
            /\ t.chunked <=> (IsLeaf(l)' /\ Chunking' /\ step' # "parallelize")
        BY <1>2, <1>6, <2>1, <3>4, <4>1 DEF Chunking
      <4>5. PhisMade(t, l \in program'.liveOut)
        BY <1>6, <3>4, <4>1 DEF PhisMade, ValueAt
      <4>4. t \in SliceTasks' /\ IsLeaf(l)' /\ slice'[l] = t
        BY <2>1, <2>2, <2>5, <3>4, <3>5
      <4> QED BY <4>2, <4>3, <4>4, <4>5 DEF SliceMade
    <3> QED BY <3>4, <3>5, <3>7, <3>8
  <2> QED BY <2>4, <2>5
<1>10. ASSUME NEW m \in T' PROVE HandlerMade(m)' /\ SliceMade(m)'
  <2>1. CASE m = l
    BY <1>9, <2>1
  <2>2. CASE m # l
    <3>1. m \in T /\ m \in Loop /\ slice'[m] = slice[m] /\ IsLinked(m)' = IsLinked(m)
      BY <1>2, <1>3, <1>7, <1>8, <2>2
    <3> QED BY <1>1, <1>2, <3>1, MadeStays DEF analysisVars
  <2> QED BY <2>1, <2>2
<1>11. TypeOK'
  <2>1. AnalysisOK'
    BY <1>5 DEF IInv
  <2>2. Tables' = Tables /\ SliceTasks' = SliceTasks
    BY DEF Tables, SliceTasks
  <2> QED BY <1>1, <1>2, <1>9, <2>1, <2>2 DEF TypeOK
<1>12. StepOK'
  BY <1>1, <1>2 DEF StepOK, Outermost, analysisVars
<1>13. TablesMade'
  <2>1. SliceTable' = SliceTable /\ LowerPairs' = LowerPairs /\ \A i, j : Walk(i, j)' = Walk(i, j)
    BY <1>6 DEF SliceTable, LowerPairs, Walk
  <2> QED BY <1>1, <1>2, <1>6, <2>1 DEF TablesMade, PairsMade
<1>14. \A n \in Generated' : NestGenerated(n)'
  <2>1. \A m \in Loop : m \notin scope => slice'[m] = slice[m]
    BY <1>3, <1>8
  <2> QED BY <1>1, <1>2, <2>1, OthersStay DEF analysisVars
<1> QED BY <1>5, <1>10, <1>11, <1>12, <1>13, <1>14 DEF PassInv

\* What the selector picks is the first of the pairs asked for, if there is one.
LEMMA SelectorFacts ==
  ASSUME NEW pairs \in Seq(Levels \X Levels), NEW u, NEW v,
         \E i \in 1..Len(pairs) : pairs[i] = <<u, v>>,
         NEW j, j = LeftoverSelector(pairs, u, v)
  PROVE  j \in 1..Len(pairs) /\ pairs[j] = <<u, v>>
<1> DEFINE hits == {i \in 1..(Len(pairs) - 1) : pairs[i] = <<u, v>>}
<1>1. j = IF hits = {} THEN Len(pairs) ELSE CHOOSE i \in hits : \A m \in hits : i <= m
  BY DEF LeftoverSelector
<1>2. PICK i \in 1..Len(pairs) : pairs[i] = <<u, v>>
  OBVIOUS
<1>3. Len(pairs) \in Nat
  OBVIOUS
<1>4. CASE hits = {}
  <2>1. i = Len(pairs)
    <3>1. SUFFICES ASSUME i # Len(pairs) PROVE FALSE
      OBVIOUS
    <3>2. i \in 1..(Len(pairs) - 1)
      BY <1>3, <3>1
    <3> QED BY <1>2, <1>4, <3>2
  <2> QED BY <1>1, <1>2, <1>4, <2>1
<1>5. CASE hits # {}
  <2>1. hits \subseteq Nat
    BY <1>3
  <2>2. PICK n \in hits : \A m \in hits : <<m, n>> \notin OpToRel(<, Nat)
    <3> HIDE DEF hits
    <3> QED BY <1>5, <2>1, NatLessThanWellFounded, WFMin, Zenon
  <2>3. \A m \in hits : n <= m
    <3>1. ASSUME NEW m \in hits PROVE ~(m < n)
      BY <2>1, <2>2 DEF OpToRel
    <3> QED BY <2>1, <3>1
  <2>4. (CHOOSE k \in hits : \A m \in hits : k <= m) \in hits
    <3> HIDE DEF hits
    <3> QED BY <2>3, Zenon
  <2>5. j \in hits
    <3> HIDE DEF hits
    <3> QED BY <1>1, <1>5, <2>4
  <2> QED BY <1>3, <2>5
<1> QED BY <1>4, <1>5

LEMMA NestSize == ASSUME IInv, phase = "transform" PROVE Cardinality(scope) = numLevels
<1> DEFINE T == FirstLoops(numLevels)
<1>1. numLevels \in 0..numLevels /\ \A l \in scope : loopToLevel[l] < numLevels
  BY NestFacts
<1>2. PICK t : t = T
  OBVIOUS
<1>3. t \subseteq scope /\ Cardinality(t) = numLevels /\ \A l \in scope : l \in t <=> loopToLevel[l] < numLevels
  BY <1>1, <1>2, LevelCount
<1> QED BY <1>1, <1>3

\* The tables of a nest that is through.
LEMMA TablesFinished ==
  ASSUME PassInv, ~failed, phase = "transform", step = "link", ~options.disable
  PROVE  TablesOf(nest)
<1>1. TypeOK /\ IInv /\ TablesMade
  BY DEF PassInv
<1>2. /\ numLevels \in Nat /\ numLevels > 0 /\ nest \in Nests /\ scope = nestIDToLoops[nest]
      /\ \A l \in scope : /\ l \in Loop /\ loopToLevel[l] = program.depth[l]
                          /\ loopToLevel[l] \in 0..(numLevels - 1)
                          /\ levelToLoop[loopToLevel[l]] = l
  BY <1>1, NestFacts
<1>3. globals[nest].slices = SliceTable /\ globals[nest] \in Tables
  BY <1>1, <1>2 DEF TablesMade, TypeOK
<1>4. /\ Len(SliceTable) = numLevels
      /\ \A i \in 1..numLevels : SliceTable[i] = levelToLoop[i - 1]
  BY <1>1, SliceTableFacts
<1>5. Cardinality(scope) = numLevels
  BY <1>1, NestSize
<1>6. ASSUME NEW l \in scope PROVE globals[nest].slices[program.depth[l] + 1] = l
  <2>1. loopToLevel[l] + 1 \in 1..numLevels /\ (loopToLevel[l] + 1) - 1 = loopToLevel[l]
    BY <1>2
  <2> QED BY <1>2, <1>3, <1>4, <2>1
<1> DEFINE IsWalk(walk, r, s) ==
             /\ Len(walk) = program.depth[r] - program.depth[s] + 1
             /\ walk[1] = r /\ walk[Len(walk)] = s
             /\ \A i \in 1..(Len(walk) - 1) : program.caller[walk[i]] = walk[i + 1]
           Chosen(r, s) == globals[nest].leftovers[
                             LeftoverSelector(globals[nest].pairs, program.depth[r], program.depth[s])]
<1>7. ASSUME NEW r \in scope, NEW s \in scope, program.depth[s] < program.depth[r],
             NEW j, j = LeftoverSelector(globals[nest].pairs, program.depth[r], program.depth[s]),
             NEW walk, walk = globals[nest].leftovers[j]
      PROVE  IsWalk(walk, r, s)
  <2>1. PICK u : u = loopToLevel[r]
    OBVIOUS
  <2>2. PICK v : v = loopToLevel[s]
    OBVIOUS
  <2>3. /\ u \in 0..(numLevels - 1) /\ v \in 0..(numLevels - 1) /\ v < u
        /\ u = program.depth[r] /\ v = program.depth[s]
    BY <1>2, <1>7, <2>1, <2>2
  <2>4. numLevels > 1
    BY <1>2, <2>3
  <2>5. PairsMade(globals[nest].leftovers, globals[nest].pairs, {})
    BY <1>1, <2>4 DEF TablesMade
  <2>6. <<r, s>> \in LowerPairs
    BY <2>1, <2>2, <2>3 DEF LowerPairs
  <2>7. \E i \in 1..Len(globals[nest].pairs) : globals[nest].pairs[i] = <<u, v>>
    <3>1. \A g \in LowerPairs : \E i \in 1..Len(globals[nest].pairs) :
             globals[nest].pairs[i] = <<loopToLevel[g[1]], loopToLevel[g[2]]>>
      BY <2>5 DEF PairsMade
    <3>2. PICK g : g = <<r, s>>
      OBVIOUS
    <3>3. g \in LowerPairs /\ loopToLevel[g[1]] = u /\ loopToLevel[g[2]] = v
      BY <2>1, <2>2, <2>6, <3>2
    <3>4. \E i \in 1..Len(globals[nest].pairs) :
             globals[nest].pairs[i] = <<loopToLevel[g[1]], loopToLevel[g[2]]>>
      BY <3>1, <3>3
    <3> QED BY <3>3, <3>4
  <2>8. globals[nest].pairs \in Seq(Levels \X Levels)
    BY <1>3 DEF Tables
  <2>9. j \in 1..Len(globals[nest].pairs) /\ globals[nest].pairs[j] = <<u, v>>
    <3>1. PICK pairs : pairs = globals[nest].pairs
      OBVIOUS
    <3>2. /\ pairs \in Seq(Levels \X Levels) /\ \E i \in 1..Len(pairs) : pairs[i] = <<u, v>>
          /\ j = LeftoverSelector(pairs, u, v)
      BY <1>7, <2>3, <2>7, <2>8, <3>1
    <3>3. j \in 1..Len(pairs) /\ pairs[j] = <<u, v>>
      BY <3>2, SelectorFacts
    <3> QED BY <3>1, <3>3
  <2>10. walk = Walk(u, v)
    BY <1>7, <2>5, <2>9 DEF PairsMade
  <2>11. /\ Len(walk) = u - v + 1
         /\ \A i \in 1..(u - v + 1) : walk[i] = levelToLoop[u - (i - 1)] /\ u - (i - 1) \in 0..(numLevels - 1)
    BY <1>1, <2>3, <2>10, WalkFacts
  <2>12. walk[1] = r
    <3>1. 1 \in 1..(u - v + 1) /\ u - (1 - 1) = u
      BY <1>2, <2>3
    <3>2. walk[1] = levelToLoop[u - (1 - 1)]
      BY <2>11, <3>1
    <3> QED BY <1>2, <2>1, <3>1, <3>2
  <2>13. walk[Len(walk)] = s
    <3>1. u - v + 1 \in 1..(u - v + 1) /\ u - ((u - v + 1) - 1) = v
      BY <1>2, <2>3
    <3>2. walk[u - v + 1] = levelToLoop[u - ((u - v + 1) - 1)]
      BY <2>11, <3>1
    <3> QED BY <1>2, <2>2, <2>11, <3>1, <3>2
  <2>14. ASSUME NEW i \in 1..(Len(walk) - 1) PROVE program.caller[walk[i]] = walk[i + 1]
    <3>1. i \in 1..(u - v + 1) /\ i + 1 \in 1..(u - v + 1) /\ i <= u - v /\ i \in Nat
      <4>1. u \in Nat /\ v \in Nat /\ Len(walk) = u - v + 1
        BY <1>2, <2>3, <2>11
      <4>2. i \in 1..(u - v)
        BY <4>1
      <4> QED BY <4>1, <4>2
    <3>2. PICK w : w = u - (i - 1)
      OBVIOUS
    <3>3. w \in 0..(numLevels - 1) /\ walk[i] = levelToLoop[w]
      BY <2>11, <3>1, <3>2
    <3>4. u - ((i + 1) - 1) = w - 1 /\ w - 1 \in 0..(numLevels - 1) /\ w # 0
      <4>1. u \in Nat /\ v \in Nat /\ u <= numLevels - 1 /\ numLevels \in Nat
        BY <1>2, <2>3
      <4> QED BY <3>1, <3>2, <4>1
    <3>5. walk[i + 1] = levelToLoop[w - 1]
      BY <2>11, <3>1, <3>4
    <3>6. levelToLoop[w] \in scope /\ loopToLevel[levelToLoop[w]] = w
      BY <1>1, <3>3, NestFacts
    <3>7. PICK m : m = levelToLoop[w]
      OBVIOUS
    <3>8. /\ program.caller[m] \in scope
          /\ loopToLevel[m] = loopToLevel[program.caller[m]] + 1
      BY <1>1, <3>4, <3>6, <3>7, NestFacts
    <3>9. loopToLevel[program.caller[m]] \in Int
      BY <1>2, <3>8
    <3>10. loopToLevel[program.caller[m]] = w - 1
      <4>1. w \in Int /\ w = loopToLevel[program.caller[m]] + 1
        <5>1. w \in Int
          BY <1>2, <3>3
        <5>2. loopToLevel[m] = w
          BY <3>6, <3>7
        <5> QED BY <3>8, <5>1, <5>2
      <4> QED BY <3>9, <4>1
    <3>11. program.caller[m] = levelToLoop[w - 1]
      BY <1>2, <3>8, <3>10
    <3> QED BY <3>3, <3>5, <3>7, <3>11
  <2> QED BY <2>3, <2>11, <2>12, <2>13, <2>14
<1>8. ASSUME NEW r \in scope, NEW s \in scope, program.depth[s] < program.depth[r]
      PROVE  IsWalk(Chosen(r, s), r, s)
  <2>1. PICK j : j = LeftoverSelector(globals[nest].pairs, program.depth[r], program.depth[s])
    OBVIOUS
  <2>2. PICK walk : walk = globals[nest].leftovers[j]
    OBVIOUS
  <2>3. walk = Chosen(r, s)
    BY <2>1, <2>2
  <2> HIDE DEF IsWalk, Chosen
  <2>4. IsWalk(walk, r, s)
    BY <1>7, <1>8, <2>1, <2>2
  <2> QED BY <2>3, <2>4
<1>9. TablesOf(nest) <=>
        /\ Len(globals[nest].slices) = Cardinality(nestIDToLoops[nest])
        /\ \A l \in nestIDToLoops[nest] : globals[nest].slices[program.depth[l] + 1] = l
        /\ \A r, s \in nestIDToLoops[nest] :
             program.depth[s] < program.depth[r] => IsWalk(Chosen(r, s), r, s)
  BY DEF TablesOf
<1> HIDE DEF IsWalk, Chosen
<1>10. Len(globals[nest].slices) = Cardinality(scope)
  BY <1>3, <1>4, <1>5
<1> QED BY <1>2, <1>6, <1>8, <1>9, <1>10

\* The last step of a nest: what was made of it is what it has to be.
LEMMA FinishInv == ASSUME PassInv, FinishNest PROVE PassInv'
<1> DEFINE T == loopToHeartbeatTransformation
<1>1. /\ TypeOK /\ ~failed /\ IInv /\ StepOK /\ TablesMade /\ phase = "transform" /\ step = "link"
      /\ \A m \in T : HandlerMade(m) /\ SliceMade(m)
  BY TransformFacts DEF FinishNest
<1>2. /\ toLink = {} /\ step' = "none" /\ phase' = "next"
      /\ slice' = IF ~options.rollforward THEN slice
                  ELSE [l \in Loop |-> IF l \in T /\ IsLeaf(l) THEN RolledForward(slice[l]) ELSE slice[l]]
      /\ UNCHANGED <<program, heartbeatLoops, scope, todo, stack, recordVars, nestVars, pending,
                     nest, resultVars, failed>>
      /\ UNCHANGED <<options, T, modified, rootCall, sliceTasks, leftoverTasks,
                     leftoverTasksPairs, gaps, toLink, globals>>
  BY DEF FinishNest, Transform
<1>3. IInv' /\ ~failed'
  BY <1>1, <1>2, TablesKept
<1>4. T = scope /\ scope \subseteq Loop /\ scope = nestIDToLoops[nest] /\ nest \in Nests
  BY <1>1, NestFacts DEF StepOK
<1>5. slice \in [Loop -> {NoSlice} \cup SliceTasks]
  BY <1>1 DEF TypeOK
<1>6. \A l \in Loop : l \notin scope => slice'[l] = slice[l]
  BY <1>2, <1>4
<1>7. ASSUME NEW l \in scope
      PROVE  /\ slice'[l] \in SliceTasks /\ slice[l] \in SliceTasks
             /\ slice'[l].calls = slice[l].calls /\ slice'[l].exits = slice[l].exits
             /\ slice'[l].returnCode = slice[l].returnCode /\ slice'[l].liveOut = slice[l].liveOut
             /\ slice'[l].chunked = slice[l].chunked /\ slice'[l].polled = slice[l].polled
             /\ slice[l].polled =>
                  LET h == slice[l].handler
                      g == slice'[l].handler
                  IN /\ g.level = h.level /\ g.levels = h.levels /\ g.slices = h.slices
                     /\ g.leftovers = h.leftovers /\ g.selector = h.selector
                     /\ (g.function = "__rf_handle_wrapper") <=> options.rollforward
                     /\ (slice'[l].test = "__rf_test") <=> options.rollforward
  <2>1. HandlerMade(l) /\ SliceMade(l) /\ slice[l] \in SliceTasks /\ l \in Loop /\ l \in T
    BY <1>1, <1>4 DEF SliceMade
  <2>2. options.rollforward \in BOOLEAN
    BY <1>1, OptionAssumption DEF TypeOK
  <2>3. slice[l].polled => /\ IsLeaf(l) /\ slice[l].handler.function = "promotion_handler"
                           /\ slice[l].test = "heartbeat_polling"
    BY <2>1 DEF HandlerMade
  <2>4. CASE options.rollforward /\ IsLeaf(l)
    <3>1. PICK s : s = slice[l]
      OBVIOUS
    <3>2. PICK t : t = RolledForward(s)
      OBVIOUS
    <3>3. s \in SliceTasks /\ s.handler \in Handlers
      BY <2>1, <2>4, <3>1 DEF HandlerMade
    <3>4. /\ t \in SliceTasks
          /\ t.calls = s.calls /\ t.exits = s.exits /\ t.returnCode = s.returnCode
          /\ t.liveOut = s.liveOut /\ t.chunked = s.chunked /\ t.polled = s.polled
          /\ t.test = "__rf_test" /\ t.handler.function = "__rf_handle_wrapper"
          /\ t.handler.level = s.handler.level /\ t.handler.levels = s.handler.levels
          /\ t.handler.slices = s.handler.slices /\ t.handler.leftovers = s.handler.leftovers
          /\ t.handler.selector = s.handler.selector
      BY <3>2, <3>3, RolledFields
    <3>5. slice'[l] = t
      BY <1>2, <2>1, <2>4, <3>1, <3>2
    <3> QED BY <2>1, <2>4, <3>1, <3>4, <3>5
  <2>5. CASE options.rollforward /\ ~IsLeaf(l)
    <3>1. slice'[l] = slice[l]
      BY <1>2, <2>1, <2>5
    <3> QED BY <2>1, <2>3, <2>5, <3>1
  <2>6. CASE ~options.rollforward
    <3>1. slice' = slice
      BY <1>2, <2>6
    <3> QED BY <2>1, <2>3, <2>6, <3>1
  <2> QED BY <2>4, <2>5, <2>6
<1>8. TypeOK'
  <2>1. AnalysisOK'
    BY <1>3 DEF IInv
  <2>2. slice' \in [Loop -> {NoSlice} \cup SliceTasks]
    <3>1. \A l \in Loop : slice'[l] \in {NoSlice} \cup SliceTasks
      BY <1>5, <1>6, <1>7
    <3>2. slice' = [l \in Loop |-> slice'[l]]
      BY <1>2, <1>5
    <3> QED BY <3>1, <3>2
  <2>3. Tables' = Tables /\ SliceTasks' = SliceTasks
    BY DEF Tables, SliceTasks
  <2> QED BY <1>1, <1>2, <2>1, <2>2, <2>3 DEF TypeOK
<1>9. StepOK'
  BY <1>1, <1>2 DEF StepOK, Outermost
<1>10. TablesMade'
  BY <1>2 DEF TablesMade
<1>11. NestGenerated(nest)'
  <2>1. ~options.disable => TablesOf(nest)'
    <3>1. ~options.disable => TablesOf(nest)
      BY <1>1, TablesFinished
    <3>2. PICK n : n = nest
      OBVIOUS
    <3>3. UNCHANGED <<program, nestIDToLoops, globals, nest>>
      BY <1>2 DEF nestVars
    <3>4. TablesOf(n) => TablesOf(n)'
      BY <3>3, TablesOfKept
    <3> QED BY <3>1, <3>2, <3>3, <3>4
  <2>2. ASSUME NEW l \in scope
        PROVE  slice'[l] \in SliceTasks /\ HandlerOf(nest, l)' /\ CallsOf(l)' /\ PhisOf(l)'
    <3>1. /\ HandlerMade(l) /\ SliceMade(l) /\ IsLinked(l) /\ l \in Loop /\ slice'[l] \in SliceTasks
          /\ slice'[l].polled \in BOOLEAN
      BY <1>1, <1>2, <1>4, <1>7, <2>2 DEF IsLinked, SliceTasks
    <3>2. Leaves(nest)' = Leaves(nest) /\ (IsLeaf(l) <=> l \in Leaves(nest))
      BY <1>1, <1>2, LeafFacts DEF Leaves, nestVars
    <3>3. Cardinality(scope) = numLevels /\ loopToLevel[l] = program.depth[l] /\ numLevels \in Nat
      BY <1>1, NestFacts, NestSize
    <3>4. HandlerOf(nest, l)'
      <4>1. slice'[l].polled <=> (l \in Leaves(nest) /\ ~options.disable)
        BY <1>7, <3>1, <3>2 DEF HandlerMade
      <4>2. ASSUME slice'[l].polled
            PROVE  LET h == slice'[l].handler IN
                   /\ h.level = program.depth[l] /\ h.levels = numLevels /\ h.slices = nest
                   /\ h.levels > 1 => h.leftovers = nest /\ h.selector = nest
                   /\ (h.function = "__rf_handle_wrapper") <=> options.rollforward
                   /\ (slice'[l].test = "__rf_test") <=> options.rollforward
        BY <1>7, <3>1, <3>3, <4>2 DEF HandlerMade
      <4> QED BY <1>2, <1>4, <3>2, <3>3, <4>1, <4>2 DEF HandlerOf, nestVars
    <3>5. CallsOf(l)'
      <4>1. ASSUME program.caller[l] # None PROVE slice'[program.caller[l]].calls = l
        <5>1. program.caller[l] \in scope
          BY <1>1, <4>1, NestFacts DEF Outermost
        <5>2. SliceMade(program.caller[l])
          BY <1>1, <1>4, <5>1
        <5>3. slice[program.caller[l]].calls = l
          BY <1>4, <5>2 DEF SliceMade
        <5> QED BY <1>7, <5>1, <5>3
      <4>2. slice'[l].calls # None => program.caller[slice'[l].calls] = l
        BY <1>7, <3>1 DEF SliceMade
      <4>3. l \in rootCall <=> (program.caller[l] = None /\ options.run)
        BY <1>1, <3>1 DEF SliceMade, StepOK, Outermost
      <4>4. slice'[l].chunked <=> (Chunking /\ \A m \in heartbeatLoops : program.caller[m] # l)
        <5>1. IsLeaf(l) <=> \A m \in heartbeatLoops : program.caller[m] # l
          BY <1>1, LeafFacts, NestFacts
        <5>2. slice'[l].chunked <=> (IsLeaf(l) /\ Chunking)
          BY <1>1, <1>7, <3>1 DEF SliceMade
        <5> QED BY <5>1, <5>2
      <4> QED BY <1>2, <4>1, <4>2, <4>3, <4>4 DEF CallsOf, Chunking
    <3>6. PhisOf(l)'
      <4>1. /\ slice[l].chunked <=> "chunk_loop_exit" \in slice[l].exits
            /\ PhisMade(slice[l], l \in program.liveOut)
        BY <3>1 DEF SliceMade, FirstExits
      <4>2. PhisMade(slice'[l], l \in program.liveOut)
        BY <1>7, <4>1 DEF PhisMade, ValueAt
      <4> QED BY <1>2, <1>7, <4>1, <4>2 DEF PhisOf
    <3> QED BY <3>1, <3>4, <3>5, <3>6
  <2>3. SliceTasks' = SliceTasks
    BY DEF SliceTasks
  <2> QED BY <1>2, <1>4, <2>1, <2>2, <2>3 DEF NestGenerated, nestVars
<1>12. \A n \in Generated' : NestGenerated(n)'
  <2> SUFFICES ASSUME NEW n \in Generated' PROVE NestGenerated(n)'
    OBVIOUS
  <2>1. CASE n = nest
    BY <1>2, <1>11, <2>1
  <2>2. CASE n # nest
    <3>1. n \in Generated
      BY <1>1, <1>2, <2>2 DEF Generated, nestVars
    <3>2. NestGenerated(n)
      BY <1>1, <3>1 DEF PassInv
    <3>3. \A l \in nestIDToLoops[n] : slice'[l] = slice[l] /\ (l \in rootCall' <=> l \in rootCall)
      BY <1>1, <1>2, <1>6, <3>1, OtherNest
    <3> QED BY <1>1, <1>2, <3>1, <3>2, <3>3, GeneratedKept DEF nestVars
  <2> QED BY <2>1, <2>2
<1> QED BY <1>2, <1>3, <1>8, <1>9, <1>10, <1>12 DEF PassInv

\* The steps that change nothing of the pass: its end, and none at all.
LEMMA RestInv ==
  ASSUME PassInv, UNCHANGED passVars,
         UNCHANGED <<program, heartbeatLoops, scope, todo, stack, recordVars, nestVars, pending,
                     nest, resultVars, failed>>,
         \/ phase = "next" /\ phase' = "done" /\ pending = {}
         \/ phase' = phase
  PROVE  PassInv'
<1> USE DEF passVars, recordVars, nestVars, resultVars
<1>1. TypeOK'
  <2>1. TypeOK /\ phase' \in {"select", "nests", "next", "levels", "transform", "done"}
    BY DEF PassInv, TypeOK, AnalysisOK
  <2>2. AnalysisOK'
    BY <2>1 DEF TypeOK, AnalysisOK, MapsOK
  <2>3. Tables' = Tables /\ SliceTasks' = SliceTasks
    BY DEF Tables, SliceTasks
  <2> QED BY <2>1, <2>2, <2>3 DEF TypeOK
<1>2. CASE failed
  BY <1>1, <1>2 DEF PassInv
<1>3. CASE ~failed
  <2>1. TypeOK /\ IInv /\ StepOK /\ TablesMade
    BY <1>3 DEF PassInv
  <2>2. IInv' /\ ~failed'
    BY <1>3, <2>1, TablesKept
  <2>3. StepOK'
    BY <2>1 DEF StepOK, Outermost
  <2>4. TablesMade'
    <3>1. UNCHANGED <<nest, scope, loopToLevel, levelToLoop, numLevels, globals, gaps, step, options>>
      OBVIOUS
    <3>2. SliceTable' = SliceTable /\ LowerPairs' = LowerPairs /\ \A i, j : Walk(i, j)' = Walk(i, j)
      BY <3>1 DEF SliceTable, LowerPairs, Walk
    <3> QED BY <2>1, <3>1, <3>2 DEF TablesMade, PairsMade
  <2>5. ASSUME NEW n \in Generated' PROVE NestGenerated(n)'
    <3>1. n \in Generated /\ NestGenerated(n)
      BY <1>3, <2>5 DEF PassInv, Generated
    <3> QED BY <2>1, <3>1, GeneratedKept
  <2>6. phase' = "transform" => \A l \in loopToHeartbeatTransformation' : HandlerMade(l)' /\ SliceMade(l)'
    <3>1. \A l : IsLinked(l)' = IsLinked(l)
      BY DEF IsLinked
    <3> QED BY <1>3, <3>1, MadeStays DEF PassInv
  <2> QED BY <1>1, <2>2, <2>3, <2>4, <2>5, <2>6 DEF PassInv
<1> QED BY <1>2, <1>3

LEMMA PassInitInv == PassInit => PassInv
<1> SUFFICES ASSUME PassInit PROVE PassInv
  OBVIOUS
<1>1. IInv /\ phase = "select" /\ ~failed
  BY InitInv DEF PassInit, Init
<1>2. TypeOK
  <2>1. AnalysisOK
    BY <1>1 DEF IInv
  <2>2. NoTables \in Tables
    BY DEF NoTables, Tables
  <2>3. /\ slice \in [Loop -> {NoSlice} \cup SliceTasks] /\ globals \in [Nests -> Tables]
        /\ options \in OptionSets /\ step = "none" /\ modified \in BOOLEAN
    BY <2>2 DEF PassInit
  <2>4. /\ sliceTasks \in Seq(Loop) /\ leftoverTasks \in Seq(Seq(Loop))
        /\ leftoverTasksPairs \in Seq(Levels \X Levels)
    BY DEF PassInit
  <2>5. /\ gaps \subseteq Loop \X Loop /\ toLink \subseteq Loop /\ rootCall \subseteq Loop
        /\ loopToHeartbeatTransformation \subseteq Loop
    BY DEF PassInit
  <2> QED BY <2>1, <2>3, <2>4, <2>5 DEF TypeOK
<1>3. StepOK /\ TablesMade
  BY <1>1 DEF PassInit, StepOK, TablesMade
<1>4. Generated = {}
  BY <1>1 DEF Generated
<1> QED BY <1>1, <1>2, <1>3, <1>4 DEF PassInv

LEMMA PassNextInv == PassInv /\ [PassNext]_vars => PassInv'
<1> SUFFICES ASSUME PassInv, [PassNext]_vars PROVE PassInv'
  OBVIOUS
<1>1. CASE AnalyseStep
  BY <1>1, AnalyseInv
<1>2. CASE ParallelizeRootLoop
  BY <1>2, RootLoopInv
<1>3. CASE ParallelizeNestedLoop
  BY <1>3, NestedLoopInv
<1>4. CASE ChunkLoops
  BY <1>4, ChunkInv
<1>5. CASE CreateSliceTasks
  BY <1>5, CreateSlicesInv
<1>6. CASE \E r, s \in Loop : CreateLeftoverTask(r, s)
  BY <1>6, CreateLeftoverInv
<1>7. CASE PublishLeftovers
  BY <1>7, PublishInv
<1>8. CASE \E l \in toLink : Link(l)
  BY <1>8, LinkInv
<1>9. CASE FinishNest
  BY <1>9, FinishInv
<1>10. CASE PassExit
  BY <1>10, RestInv DEF PassExit, Exit
<1>11. CASE PassStopped
  BY <1>11, RestInv DEF PassStopped, Stopped, analysisVars
<1>12. CASE UNCHANGED vars
  BY <1>12, RestInv DEF vars, analysisVars
<1> QED
  BY <1>1, <1>2, <1>3, <1>4, <1>5, <1>6, <1>7, <1>8, <1>9, <1>10, <1>11, <1>12 DEF PassNext, PassStep
-----------------------------------------------------------------------------
\* At every step of the pass, for any program, any options and any order of the
\* nests and of the transformations, what is generated of each nest is what it
\* has to be so far, exits and phis of chunked leaves included.
THEOREM PassInvariance == PassSpec => []PassInv
<1> QED BY PassInitInv, PassNextInv, PTL DEF PassSpec

\* When the pass is done it is through with every nest.
LEMMA AllGenerated ==
  ASSUME PassInv, Compiled
  PROVE  /\ ~failed /\ IInv /\ Generated = 0..(nestID - 1)
         /\ \A n \in 0..(nestID - 1) : NestGenerated(n)
         /\ \A l \in heartbeatLoops : \E n \in 0..(nestID - 1) : l \in nestIDToLoops[n]
<1>1. ~failed /\ IInv /\ phase = "done" /\ pending = {}
  BY DEF PassInv, Compiled, StepOK
<1>2. Generated = 0..(nestID - 1)
  BY <1>1 DEF Generated
<1>3. \A n \in 0..(nestID - 1) : NestGenerated(n)
  BY <1>1, <1>2 DEF PassInv
<1>4. NestsPartition
  BY <1>1, NestsOfRoots
<1>5. \A l \in heartbeatLoops : \E n \in 0..(nestID - 1) : l \in nestIDToLoops[n]
  BY <1>1, <1>4 DEF NestsPartition
<1> QED BY <1>1, <1>2, <1>3, <1>5

\* The tables in the generated module describe each nest, for nests of any
\* depth: the selector finds, for every receiving and splitting level, the
\* leftover task that calls the slices in between.
THEOREM TablesCorrect == PassSpec => []TablesDescribeNest
<1>1. PassInv => TablesDescribeNest
  BY AllGenerated DEF TablesDescribeNest, NestGenerated
<1> QED BY <1>1, PassInvariance, PTL

\* Every handler call that can be reached passes the level and the tables of its
\* own nest.
THEOREM HandlersCorrect == PassSpec => []HandlersLinked
<1>1. PassInv => HandlersLinked
  BY AllGenerated DEF HandlersLinked, NestGenerated
<1> QED BY <1>1, PassInvariance, PTL

\* The slices call each other as the loops of the program did, and exactly the
\* leaves are chunked if the pass is told to.
THEOREM CallsCorrect == PassSpec => []CallsFollowNest
<1>1. PassInv => CallsFollowNest
  BY AllGenerated DEF CallsFollowNest, NestGenerated
<1> QED BY <1>1, PassInvariance, PTL

\* Every phi of a loop exit has the value that belongs there for each block the
\* exit is reached from, chunk_loop_exit of a chunked leaf included.
THEOREM PhisCorrect == PassSpec => []PhisMatchPredecessors
<1>1. PassInv => PhisMatchPredecessors
  BY AllGenerated DEF PhisMatchPredecessors, NestGenerated
<1> QED BY <1>1, PassInvariance, PTL

\* Only loops from which no other is called have live-outs.
LiveOutsInLeaves(p) ==
  \A l \in p.liveOut : \A m \in Loop : p.kind[m] = "outlined" => p.caller[m] # l

\* No assertion of the analyses or of the transformation fails, as long as only
\* the leaves of a program have live-outs; for other programs one can.
THEOREM PassAssertions ==
  ASSUME \A p \in Programs : LiveOutsInLeaves(p)
  PROVE  PassSpec => []NoAssertFails
<1> DEFINE Holds == PassInv /\ program \in Programs /\ ~failed
<1>1. PassInit => Holds
  BY PassInitInv DEF PassInit, Init
<1>2. Holds /\ [PassNext]_vars => Holds'
  <2> SUFFICES ASSUME PassInv, program \in Programs, ~failed, [PassNext]_vars
               PROVE  Holds'
    OBVIOUS
  <2>1. PassInv'
    BY PassNextInv
  <2>2. program' = program /\ ~failed'
    <3>1. CASE AnalyseStep
      BY <3>1, AnalyseFacts
    <3>2. CASE ParallelizeNestedLoop
      <4>1. heartbeatLoops \subseteq {l \in Loop : program.kind[l] = "outlined"}
        BY DEF PassInv, IInv, ScopeOK
      <4>2. \A l \in program.liveOut : \A m \in heartbeatLoops : program.caller[m] # l
        BY <4>1 DEF LiveOutsInLeaves
      <4> QED BY <3>2, <4>2, NestedLoopAsserts DEF ParallelizeNestedLoop
    <3>3. CASE FinishNest \/ PassExit
      BY <3>3 DEF FinishNest, Transform, PassExit, Exit
    <3>4. CASE UNCHANGED analysisVars
      BY <3>4 DEF analysisVars
    <3>5. \/ AnalyseStep \/ ParallelizeNestedLoop \/ FinishNest \/ PassExit
          \/ UNCHANGED analysisVars
      BY DEF PassNext, PassStep, ParallelizeRootLoop, ChunkLoops, CreateSliceTasks,
             CreateLeftoverTask, PublishLeftovers, Link, PassStopped, Stopped, vars
    <3> QED BY <3>1, <3>2, <3>3, <3>4, <3>5
  <2> QED BY <2>1, <2>2
<1>3. Holds => NoAssertFails
  BY DEF NoAssertFails
<1> HIDE DEF Holds
<1> QED BY <1>1, <1>2, <1>3, PTL DEF PassSpec
=============================================================================
