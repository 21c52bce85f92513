-------------------------- MODULE RollforwardProofs -------------------------
(***************************************************************************)
(* Proofs about Rollforward, for every assembly file of the form assumed.  *)
(***************************************************************************)
EXTENDS Rollforward, SequenceTheorems, TLAPS

\* Lines are positive, and the runtime has none.
LEMMA Lines == Space \subseteq Nat \ {0} /\ Len(File) \in Nat /\ Line \subseteq Nat /\ Space \subseteq Line
  BY FileAssumption DEF Space, Line

\* An activation is in the runtime or on a line, and not both.
LEMMA RuntimeApart ==
  ASSUME NEW a \in Activation
  PROVE  /\ a = Runtime <=> a.copy = "runtime"
         /\ a = Runtime <=> a.line = 0
         /\ a # Runtime => a.copy \in {"src", "dst"} /\ a.line \in Space /\ a.answer \in BOOLEAN
         /\ a.answer \in BOOLEAN
<1> DEFINE Moving == [copy : {"src", "dst"}, line : Space, answer : BOOLEAN]
<1>1. Runtime.copy = "runtime" /\ Runtime.line = 0 /\ Runtime.answer = FALSE
  BY DEF Runtime
<1>2. ASSUME a \in Moving
      PROVE  a.copy \in {"src", "dst"} /\ a.line \in Space /\ a.answer \in BOOLEAN
  BY <1>2
<1>3. a \in Moving => a.copy # "runtime" /\ a.line # 0
  BY <1>2, Lines
<1>4. a = Runtime \/ a \in Moving
  BY DEF Activation
<1> HIDE DEF Moving
<1> QED BY <1>1, <1>2, <1>3, <1>4

\* An activation on a line, field by field.
LEMMA Fields ==
  ASSUME NEW a \in Activation, a # Runtime
  PROVE  a = [copy |-> a.copy, line |-> a.line, answer |-> a.answer]
  BY DEF Activation

\* A field moved.
LEMMA MovedFields ==
  ASSUME NEW a \in Activation, a # Runtime, NEW c, NEW i
  PROVE  Moved(a, <<c, i>>) = [copy |-> c, line |-> i, answer |-> a.answer]
<1> DEFINE b == [a EXCEPT !.copy = c]
<1>1. a = [copy |-> a.copy, line |-> a.line, answer |-> a.answer]
  BY Fields
<1>2. b = [copy |-> c, line |-> a.line, answer |-> a.answer]
  BY <1>1
<1>3. Moved(a, <<c, i>>) = [b EXCEPT !.line = i]
  BY DEF Moved
<1> HIDE DEF b
<1> QED BY <1>2, <1>3

\* The stack below its top.
LEMMA BelowTop ==
  ASSUME NEW A, NEW s \in Seq(A), s # <<>>
  PROVE  /\ Len(s) \in Nat \ {0} /\ s[Len(s)] \in A
         /\ SubSeq(s, 1, Len(s) - 1) \in Seq(A)
         /\ Len(SubSeq(s, 1, Len(s) - 1)) = Len(s) - 1
         /\ \A d \in 1..(Len(s) - 1) : SubSeq(s, 1, Len(s) - 1)[d] = s[d]
<1> DEFINE n == Len(s) - 1
<1>1. Len(s) \in Nat /\ Len(s) # 0 /\ n \in Nat /\ s[Len(s)] \in A
  OBVIOUS
<1>2. \A d \in 1..n : s[d] \in A
  BY <1>1
<1>3. /\ SubSeq(s, 1, n) \in Seq(A)
      /\ Len(SubSeq(s, 1, n)) = IF 1 <= n THEN n - 1 + 1 ELSE 0
      /\ \A d \in 1..(n - 1 + 1) : SubSeq(s, 1, n)[d] = s[1 + d - 1]
  BY <1>1, <1>2, SubSeqProperties
<1>4. n - 1 + 1 = n /\ (1 <= n \/ n = 0) /\ \A d \in 1..n : 1 + d - 1 = d
  <2> HIDE DEF n
  <2> QED BY <1>1
<1>5. Len(SubSeq(s, 1, n)) = n
  BY <1>3, <1>4
<1>6. \A d \in 1..n : SubSeq(s, 1, n)[d] = s[d]
  BY <1>3, <1>4
<1>7. Len(s) \in Nat \ {0}
  BY <1>1
<1> QED BY <1>1, <1>3, <1>5, <1>6, <1>7

LEMMA BelowSeq == IInv /\ Running => Below \in Seq(Activation)
  BY BelowTop DEF IInv, TypeOK, Running, Below

\* A stack is what is below its top, and the top.
LEMMA BelowAndTop ==
  ASSUME stack \in Seq(Activation), stack # <<>>
  PROVE  stack = Append(Below, Top)
<1> DEFINE s == Append(Below, Top)
<1>1. /\ Below \in Seq(Activation) /\ Len(Below) = Len(stack) - 1 /\ Len(stack) \in Nat \ {0}
      /\ \A d \in 1..(Len(stack) - 1) : Below[d] = stack[d]
      /\ Top \in Activation /\ Top = stack[Len(stack)]
  BY BelowTop DEF Below, Top
<1>2. /\ s \in Seq(Activation) /\ Len(s) = Len(stack)
      /\ \A d \in 1..Len(stack) : s[d] = stack[d]
  BY <1>1
<1> HIDE DEF s
<1>3. s = stack
  BY <1>1, <1>2, SeqEqual
<1> QED BY <1>3 DEF s

LEMMA TwoAppended ==
  ASSUME NEW A, NEW s \in Seq(A), NEW a, NEW b
  PROVE  s \o <<a, b>> = Append(Append(s, a), b)
<1> DEFINE B == A \cup {a, b}
           l == s \o <<a, b>>
           m == Append(s, a)
           r == Append(m, b)
<1>1. s \in Seq(B) /\ Len(s) \in Nat
  OBVIOUS
<1>2. l \in Seq(B) /\ Len(l) = Len(s) + 2 /\ (\A d \in 1..Len(s) : l[d] = s[d])
      /\ l[Len(s) + 1] = a /\ l[Len(s) + 2] = b
  BY <1>1
<1>3. m \in Seq(B) /\ Len(m) = Len(s) + 1 /\ (\A d \in 1..Len(s) : m[d] = s[d]) /\ m[Len(s) + 1] = a
  BY <1>1
<1>4. r \in Seq(B) /\ Len(r) = Len(s) + 2 /\ (\A d \in 1..(Len(s) + 1) : r[d] = m[d])
      /\ r[Len(s) + 2] = b
  <2> HIDE DEF m
  <2> QED BY <1>1, <1>3
<1> HIDE DEF l, m, r, B
<1>5. \A d \in 1..(Len(s) + 2) : l[d] = r[d]
  <2> TAKE d \in 1..(Len(s) + 2)
  <2>1. d \in 1..Len(s) \/ d = Len(s) + 1 \/ d = Len(s) + 2
    BY <1>1
  <2> QED BY <2>1, <1>1, <1>2, <1>3, <1>4
<1>6. l = r
  BY <1>1, <1>2, <1>4, <1>5, SeqEqual
<1> QED BY <1>6 DEF l, m, r

-----------------------------------------------------------------------------
\* What a step that replaces the top of the stack has to show.
LEMMA ReplaceTop ==
  ASSUME IInv, Running, NEW a \in Activation, a # Runtime, InSecondCopy(a),
         stack' = Append(Below, a), Top # Runtime, UNCHANGED exited, signals' \in 0..MaxSignals
  PROVE  IInv'
<1>1. stack \in Seq(Activation) /\ stack # <<>>
  BY DEF IInv, TypeOK, Running
<1>2. /\ Below \in Seq(Activation) /\ Len(Below) = Len(stack) - 1 /\ Len(stack) \in Nat \ {0}
      /\ \A d \in 1..(Len(stack) - 1) : Below[d] = stack[d]
  BY <1>1, BelowTop DEF Below
<1>3. /\ stack' \in Seq(Activation) /\ Len(stack') = Len(stack)
      /\ \A d \in 1..(Len(stack) - 1) : stack'[d] = stack[d]
      /\ stack'[Len(stack)] = a
  BY <1>2
<1>4. TypeOK' /\ NeverExits'
  BY <1>3 DEF IInv, TypeOK, NeverExits
<1>5. \A d \in DOMAIN stack' : InSecondCopy(stack'[d])
  <2> SUFFICES ASSUME NEW d \in 1..Len(stack) PROVE InSecondCopy(stack'[d])
    BY <1>3
  <2>1. CASE d = Len(stack) BY <2>1, <1>3
  <2>2. CASE d # Len(stack) BY <2>2, <1>2, <1>3, <1>1 DEF IInv
  <2> QED BY <2>1, <2>2
<1>6. \A d \in DOMAIN stack' : stack'[d] = Runtime => d > 1 /\ CalledHandler(stack'[d - 1])
  <2> SUFFICES ASSUME NEW d \in 1..Len(stack), stack'[d] = Runtime
               PROVE  d > 1 /\ CalledHandler(stack'[d - 1])
    BY <1>3
  <2>1. d \in 1..(Len(stack) - 1) BY <1>2, <1>3
  <2>2. d \in DOMAIN stack /\ stack[d] = Runtime BY <2>1, <1>1, <1>3
  <2>3. d > 1 /\ CalledHandler(stack[d - 1]) BY <2>2 DEF IInv
  <2> QED BY <2>1, <2>3, <1>2, <1>3
<1> QED BY <1>4, <1>5, <1>6 DEF IInv, InSecondCopy, CalledHandler

\* What a step that enters a function, or the runtime, has to show of the
\* activation b it leaves and the one it adds.
LEMMA PushTop ==
  ASSUME IInv, Running, NEW a \in Activation, InSecondCopy(a),
         NEW b \in Activation, InSecondCopy(b), b = Runtime => b = Top,
         a = Runtime => CalledHandler(b),
         stack' = Append(Append(Below, b), a), UNCHANGED exited, signals' \in 0..MaxSignals
  PROVE  IInv'
<1>1. stack \in Seq(Activation) /\ stack # <<>>
  BY DEF IInv, TypeOK, Running
<1>2. /\ Below \in Seq(Activation) /\ Len(Below) = Len(stack) - 1 /\ Len(stack) \in Nat \ {0}
      /\ \A d \in 1..(Len(stack) - 1) : Below[d] = stack[d]
  BY <1>1, BelowTop DEF Below
<1>3. /\ stack' \in Seq(Activation) /\ Len(stack') = Len(stack) + 1
      /\ \A d \in 1..(Len(stack) - 1) : stack'[d] = stack[d]
      /\ stack'[Len(stack)] = b /\ stack'[Len(stack) + 1] = a
  <2> DEFINE s == Append(Below, b)
  <2>1. /\ s \in Seq(Activation) /\ Len(s) = Len(stack) /\ s[Len(stack)] = b
        /\ \A d \in 1..(Len(stack) - 1) : s[d] = stack[d]
    BY <1>2
  <2> HIDE DEF s
  <2> QED BY <2>1, <1>2 DEF s
<1>4. TypeOK' /\ NeverExits'
  BY <1>3 DEF IInv, TypeOK, NeverExits
<1>5. \A d \in DOMAIN stack' : InSecondCopy(stack'[d])
  <2> SUFFICES ASSUME NEW d \in 1..(Len(stack) + 1) PROVE InSecondCopy(stack'[d])
    BY <1>3
  <2>1. CASE d = Len(stack) BY <2>1, <1>3
  <2>2. CASE d = Len(stack) + 1 BY <2>2, <1>3
  <2>3. CASE d < Len(stack)
    <3>1. d \in 1..(Len(stack) - 1) /\ d \in DOMAIN stack BY <2>3, <1>1, <1>2
    <3> QED BY <3>1, <1>3 DEF IInv
  <2> QED BY <2>1, <2>2, <2>3, <1>2
<1>6. \A d \in DOMAIN stack' : stack'[d] = Runtime => d > 1 /\ CalledHandler(stack'[d - 1])
  <2> SUFFICES ASSUME NEW d \in 1..(Len(stack) + 1), stack'[d] = Runtime
               PROVE  d > 1 /\ CalledHandler(stack'[d - 1])
    BY <1>3
  <2>1. CASE d = Len(stack) + 1 BY <2>1, <1>2, <1>3
  <2>2. CASE d # Len(stack) + 1
    <3>1. d \in DOMAIN stack /\ stack[d] = Runtime
      BY <2>2, <1>1, <1>2, <1>3 DEF Top
    <3>2. d > 1 /\ CalledHandler(stack[d - 1]) BY <3>1 DEF IInv
    <3> QED BY <3>2, <2>2, <1>2, <1>3
  <2> QED BY <2>1, <2>2
<1> QED BY <1>4, <1>5, <1>6 DEF IInv, InSecondCopy, CalledHandler

\* What a running activation is.
LEMMA TopRuns ==
  ASSUME IInv, NEW ops, At(ops)
  PROVE  /\ Running /\ Top \in Activation /\ Top # Runtime /\ InSecondCopy(Top)
         /\ Top.copy \in {"src", "dst"} /\ Top.line \in Space /\ Top.answer \in BOOLEAN
         /\ File[Top.line].op \in ops
<1>1. stack \in Seq(Activation) /\ stack # <<>> /\ Running
  BY DEF IInv, TypeOK, At, Running
<1>2. Top \in Activation /\ Len(stack) \in DOMAIN stack
  BY <1>1, BelowTop DEF Top
<1>3. InSecondCopy(Top)
  BY <1>2 DEF IInv, Top
<1> QED BY <1>1, <1>2, <1>3, RuntimeApart DEF At

-----------------------------------------------------------------------------
LEMMA SignalStep == ASSUME IInv, Signal PROVE IInv'
<1> DEFINE pc == <<Top.copy, Top.line>>
<1>1. Running /\ UNCHANGED exited /\ signals' \in 0..MaxSignals
  BY RollforwardAssumption DEF Signal, IInv, TypeOK
<1>2. CASE pc \in DOMAIN RollforwardTable
  <2>1. Top.copy = "src" /\ Top.line \in Tables
    BY <1>2 DEF RollforwardTable
  <2>2. Top.line \in Line /\ File[Top.line].op \in Instructions
    BY <2>1 DEF Tables, ShouldEmitRfLabel
  <2>3. At(Instructions)
    BY <1>1, <2>1, <2>2 DEF At
  <2>4. Top \in Activation /\ Top # Runtime /\ Top.line \in Space
    BY <2>3, TopRuns
  <2>5. RollforwardTable[pc] = <<"dst", Top.line>>
    BY <2>1 DEF RollforwardTable
  <2> DEFINE a == Moved(Top, RollforwardTable[pc])
  <2>6. a = [copy |-> "dst", line |-> Top.line, answer |-> Top.answer]
    BY <2>4, <2>5, MovedFields
  <2>9. a \in Activation /\ a.copy = "dst" /\ a # Runtime
    BY <2>4, <2>6, RuntimeApart DEF Activation, Runtime
  <2>7. stack' = Append(Below, a)
    BY <1>2 DEF Signal, Go
  <2>8. InSecondCopy(a)
    BY <2>9 DEF InSecondCopy
  <2> HIDE DEF a
  <2> QED BY <1>1, <2>4, <2>9, <2>7, <2>8, ReplaceTop
<1>3. CASE pc \notin DOMAIN RollforwardTable
  <2>1. UNCHANGED <<stack, exited>> BY <1>3 DEF Signal
  <2> QED BY <1>1, <2>1 DEF IInv, TypeOK, NeverExits, InSecondCopy, CalledHandler
<1> QED BY <1>2, <1>3

\* A step within an activation.
LEMMA WithinStep ==
  ASSUME IInv, Plain \/ Jump \/ Test \/ JumpIfSignal, UNCHANGED <<signals, exited>>
  PROVE  IInv'
<1>1. signals' \in 0..MaxSignals BY DEF IInv, TypeOK
<1>2. ASSUME NEW ops, At(ops), NEW c \in {"src", "dst"}, NEW i \in Space, NEW answer \in BOOLEAN,
             stack' = Append(Below, [copy |-> c, line |-> i, answer |-> answer]),
             i \in Promotion => c = "dst",
             File[i].op = "jumpIfSignal" /\ answer => c = "dst"
      PROVE  IInv'
  <2> DEFINE a == [copy |-> c, line |-> i, answer |-> answer]
  <2>1. a \in Activation /\ a # Runtime /\ InSecondCopy(a)
    BY <1>2 DEF Activation, Runtime, InSecondCopy
  <2>2. stack' = Append(Below, a) BY <1>2
  <2> HIDE DEF a
  <2> QED BY <1>1, <1>2, <2>1, <2>2, TopRuns, ReplaceTop
<1>3. \A x \in Activation : \A c, i : x # Runtime =>
         Moved(x, <<c, i>>) = [copy |-> c, line |-> i, answer |-> x.answer]
  BY MovedFields
<1>4. CASE Plain
  <2>1. At({"instruction", "align", "branch"}) /\ stack' = Append(Below, Moved(Top, AfterTop))
    BY <1>4 DEF Plain, Go
  <2>2. /\ Top \in Activation /\ Top # Runtime /\ InSecondCopy(Top) /\ Top.copy \in {"src", "dst"}
        /\ Top.line \in Space /\ Top.answer \in BOOLEAN
        /\ File[Top.line].op \in {"instruction", "align", "branch"}
    BY <2>1, TopRuns
  <2>3. stack' = Append(Below, [copy |-> Top.copy, line |-> After(Top.line), answer |-> Top.answer])
    BY <2>1, <2>2, <1>3 DEF AfterTop
  <2>4. /\ After(Top.line) \in Space /\ File[After(Top.line)].op # "jumpIfSignal"
        /\ After(Top.line) \in Promotion => Top.copy = "dst"
    BY <2>2, RollforwardAssumption DEF FallsThrough, Instructions, InSecondCopy
  <2> QED BY <2>1, <2>2, <2>3, <2>4, <1>2
<1>5. CASE Jump
  <2>1. At({"jump", "branch", "tableJump"}) /\ stack' = Append(Below, Moved(Top, Target))
    BY <1>5 DEF Jump, Go
  <2>2. /\ Top \in Activation /\ Top # Runtime /\ InSecondCopy(Top) /\ Top.copy \in {"src", "dst"}
        /\ Top.line \in Space /\ Top.answer \in BOOLEAN
        /\ File[Top.line].op \in {"jump", "branch", "tableJump"}
    BY <2>1, TopRuns
  <2> DEFINE c == IF Renamed(Top.copy, Top.line) THEN "dst" ELSE "src"
  <2>3. Target = <<c, Destination(Top.line)>>
    BY DEF Target, LocalAddress, Destination
  <2>4. stack' = Append(Below, [copy |-> c, line |-> Destination(Top.line), answer |-> Top.answer])
    BY <2>1, <2>2, <2>3, <1>3
  <2>5. /\ Destination(Top.line) \in Space /\ File[Destination(Top.line)].op # "jumpIfSignal"
        /\ Destination(Top.line) \in Promotion => Top.copy = "dst" /\ File[Top.line].op # "tableJump"
    BY <2>2, RollforwardAssumption DEF JumpsTo, InSecondCopy
  <2>6. Destination(Top.line) \in Promotion => c = "dst"
    BY <2>5 DEF Renamed
  <2>7. c \in {"src", "dst"} OBVIOUS
  <2> HIDE DEF c
  <2> QED BY <2>1, <2>2, <2>4, <2>5, <2>6, <2>7, <1>2
<1>6. CASE Test
  <2>1. At({"test"}) /\ stack' = Append(Below, [Moved(Top, AfterTop) EXCEPT !.answer = TestAnswer(Top.copy)])
    BY <1>6 DEF Test
  <2>2. /\ Top \in Activation /\ Top # Runtime /\ InSecondCopy(Top) /\ Top.copy \in {"src", "dst"}
        /\ Top.line \in Space /\ File[Top.line].op = "test"
    BY <2>1, TopRuns
  <2>3. stack' = Append(Below, [copy |-> Top.copy, line |-> After(Top.line), answer |-> (Top.copy = "dst")])
    <3>1. Moved(Top, AfterTop) = [copy |-> Top.copy, line |-> After(Top.line), answer |-> Top.answer]
      BY <2>2, <1>3 DEF AfterTop
    <3> QED BY <2>1, <3>1 DEF TestAnswer
  <2>4. /\ After(Top.line) \in Space
        /\ After(Top.line) \in Promotion => Top.copy = "dst"
    BY <2>2, RollforwardAssumption DEF FallsThrough, Instructions, InSecondCopy
  <2>5. (Top.copy = "dst") \in BOOLEAN OBVIOUS
  <2> QED BY <2>1, <2>2, <2>3, <2>4, <2>5, <1>2
<1>7. CASE JumpIfSignal
  <2>1. At({"jumpIfSignal"}) /\ stack' = Append(Below, Moved(Top, IF Top.answer THEN Target ELSE AfterTop))
    BY <1>7 DEF JumpIfSignal, Go
  <2>2. /\ Top \in Activation /\ Top # Runtime /\ InSecondCopy(Top) /\ Top.copy \in {"src", "dst"}
        /\ Top.line \in Space /\ Top.answer \in BOOLEAN /\ File[Top.line].op = "jumpIfSignal"
    BY <2>1, TopRuns
  <2>3. Target = <<Top.copy, Destination(Top.line)>>
    BY <2>2 DEF Target, LocalAddress, Destination, Renamed
  <2>4. /\ Destination(Top.line) \in Space /\ File[Destination(Top.line)].op # "jumpIfSignal"
        /\ After(Top.line) \in Space /\ File[After(Top.line)].op # "jumpIfSignal"
        /\ After(Top.line) \in Promotion => Top.copy = "dst"
        /\ Top.answer => Top.copy = "dst"
    BY <2>2, RollforwardAssumption DEF JumpsTo, FallsThrough, Instructions, InSecondCopy
  <2>5. CASE Top.answer
    <3>1. stack' = Append(Below, [copy |-> Top.copy, line |-> Destination(Top.line), answer |-> Top.answer])
      BY <2>1, <2>2, <2>3, <2>5, <1>3
    <3> QED BY <2>1, <2>2, <2>4, <2>5, <3>1, <1>2
  <2>6. CASE ~Top.answer
    <3>1. stack' = Append(Below, [copy |-> Top.copy, line |-> After(Top.line), answer |-> Top.answer])
      BY <2>1, <2>2, <2>6, <1>3 DEF AfterTop
    <3> QED BY <2>1, <2>2, <2>4, <2>6, <3>1, <1>2
  <2> QED BY <2>2, <2>5, <2>6
<1> QED BY <1>4, <1>5, <1>6, <1>7

LEMMA CallStep == ASSUME IInv, Call, UNCHANGED <<signals, exited>> PROVE IInv'
<1>1. /\ Top \in Activation /\ Top # Runtime /\ InSecondCopy(Top) /\ Top.copy \in {"src", "dst"}
      /\ Top.line \in Space /\ Top.answer \in BOOLEAN /\ File[Top.line].op = "call"
      /\ At({"call"}) /\ Running
  BY TopRuns DEF Call
<1> DEFINE a == Frame(GlobalAddress(File[Top.line].name))
           b == [copy |-> Top.copy, line |-> After(Top.line), answer |-> Top.answer]
<1>2. Moved(Top, AfterTop) = b
  BY <1>1, MovedFields DEF AfterTop
<1>3. stack' = Append(Append(Below, b), a)
  <2>1. stack' = Below \o <<b, a>>
    BY <1>2 DEF Call
  <2> HIDE DEF a, b
  <2> QED BY <2>1, BelowSeq, TwoAppended
<1>4. Entry(File[Top.line].name) \in Space \ Promotion /\ File[Entry(File[Top.line].name)].op # "jumpIfSignal"
  <2>1. Top.line \in Line
    BY <1>1, Lines
  <2>2. File[Top.line].name \in {File[i].name : i \in {j \in Line : File[j].op = "call"}}
    BY <1>1, <2>1
  <2> QED BY <2>2, RollforwardAssumption
<1>5. a = [copy |-> "src", line |-> Entry(File[Top.line].name), answer |-> FALSE]
  BY DEF Frame, GlobalAddress
<1>6. a \in Activation /\ a # Runtime /\ InSecondCopy(a)
  BY <1>4, <1>5 DEF Activation, Runtime, InSecondCopy
<1>7. /\ After(Top.line) \in Space /\ File[After(Top.line)].op # "jumpIfSignal"
      /\ After(Top.line) \in Promotion => Top.copy = "dst"
  BY <1>1, RollforwardAssumption DEF FallsThrough, Instructions, InSecondCopy
<1>8. b \in Activation /\ b # Runtime /\ InSecondCopy(b)
  BY <1>1, <1>7 DEF Activation, Runtime, InSecondCopy
<1> HIDE DEF a, b
<1>9. signals' \in 0..MaxSignals /\ UNCHANGED exited
  BY DEF IInv, TypeOK
<1> QED BY <1>1, <1>3, <1>6, <1>8, <1>9, PushTop

LEMMA CallHandlerStep == ASSUME IInv, CallHandler PROVE IInv'
<1>1. /\ Top \in Activation /\ Top # Runtime /\ InSecondCopy(Top) /\ Top.copy \in {"src", "dst"}
      /\ Top.line \in Space /\ Top.answer \in BOOLEAN /\ File[Top.line].op = "callHandler"
      /\ Running
  BY TopRuns DEF CallHandler
<1> DEFINE b == [copy |-> Top.copy, line |-> After(Top.line), answer |-> Top.answer]
<1>2. Moved(Top, AfterTop) = b
  BY <1>1, MovedFields DEF AfterTop
<1>3. stack' = Append(Append(Below, b), Runtime)
  <2>1. stack' = Below \o <<b, Runtime>>
    BY <1>2 DEF CallHandler
  <2> HIDE DEF b
  <2> QED BY <2>1, BelowSeq, TwoAppended
<1>4. /\ After(Top.line) \in Space \ Promotion /\ File[After(Top.line)].op # "jumpIfSignal"
      /\ File[After(Top.line)].op \in Instructions /\ Top.copy = "dst"
  BY <1>1, RollforwardAssumption DEF FallsThrough, Instructions, InSecondCopy
<1>5. b \in Activation /\ b # Runtime /\ InSecondCopy(b) /\ CalledHandler(b)
  BY <1>1, <1>4 DEF Activation, Runtime, InSecondCopy, CalledHandler
<1>6. Runtime \in Activation /\ InSecondCopy(Runtime)
  BY DEF Activation, InSecondCopy
<1> HIDE DEF b
<1>7. signals' \in 0..MaxSignals /\ UNCHANGED exited
  BY DEF IInv, TypeOK, CallHandler
<1> QED BY <1>1, <1>3, <1>5, <1>6, <1>7, PushTop


LEMMA HandlerCallsStep == ASSUME IInv, HandlerCalls PROVE IInv'
<1>1. Running /\ stack \in Seq(Activation) /\ stack # <<>> /\ Top.copy = "runtime"
  BY DEF HandlerCalls, InRuntime, Running, IInv, TypeOK
<1>2. Top \in Activation /\ Top = Runtime
  BY <1>1, BelowTop, RuntimeApart DEF Top
<1>3. PICK f \in Slices : stack' = Append(stack, Frame(GlobalAddress(f)))
  BY DEF HandlerCalls
<1> DEFINE a == Frame(GlobalAddress(f))
<1>4. Entry(f) \in Space \ Promotion /\ File[Entry(f)].op # "jumpIfSignal"
  BY RollforwardAssumption
<1>5. a = [copy |-> "src", line |-> Entry(f), answer |-> FALSE]
  BY DEF Frame, GlobalAddress
<1>6. a \in Activation /\ a # Runtime /\ InSecondCopy(a)
  BY <1>4, <1>5 DEF Activation, Runtime, InSecondCopy
<1>7. stack = Append(Below, Top)
  BY <1>1, BelowAndTop
<1>8. stack' = Append(Append(Below, Top), a)
  BY <1>3, <1>7
<1>9. InSecondCopy(Top)
  BY <1>2 DEF InSecondCopy
<1>10. signals' \in 0..MaxSignals /\ UNCHANGED exited
  BY DEF IInv, TypeOK, HandlerCalls
<1> HIDE DEF a
<1> QED BY <1>1, <1>2, <1>6, <1>8, <1>9, <1>10, PushTop

LEMMA ReturnStep == ASSUME IInv, Return, UNCHANGED <<signals, exited>> PROVE IInv'
<1>1. stack \in Seq(Activation) /\ stack # <<>> /\ stack' = Below
  BY DEF Return, At, Running, IInv, TypeOK
<1>2. /\ stack' \in Seq(Activation) /\ Len(stack') = Len(stack) - 1 /\ Len(stack) \in Nat \ {0}
      /\ \A d \in 1..(Len(stack) - 1) : stack'[d] = stack[d]
  BY <1>1, BelowTop DEF Below
<1>3. DOMAIN stack' = 1..(Len(stack) - 1) /\ DOMAIN stack = 1..Len(stack)
  BY <1>1, <1>2
<1>4. TypeOK' /\ NeverExits'
  BY <1>2 DEF IInv, TypeOK, NeverExits
<1>5. \A d \in DOMAIN stack' : InSecondCopy(stack'[d])
  BY <1>2, <1>3 DEF IInv
<1>6. \A d \in DOMAIN stack' : stack'[d] = Runtime => d > 1 /\ CalledHandler(stack'[d - 1])
  <2> SUFFICES ASSUME NEW d \in 1..(Len(stack) - 1), stack'[d] = Runtime
               PROVE  d > 1 /\ CalledHandler(stack'[d - 1])
    BY <1>3
  <2>1. d > 1 /\ CalledHandler(stack[d - 1])
    BY <1>2, <1>3 DEF IInv
  <2>2. stack'[d - 1] = stack[d - 1]
    BY <2>1, <1>2
  <2> QED BY <2>1, <2>2
<1> QED BY <1>4, <1>5, <1>6 DEF IInv, InSecondCopy, CalledHandler

\* The activation that called the handler, and where the handler returns to.
LEMMA Caller ==
  ASSUME IInv, InRuntime
  PROVE  /\ Len(stack) \in Nat /\ Len(stack) > 1 /\ Top = Runtime
         /\ Below \in Seq(Activation) /\ Len(Below) = Len(stack) - 1
         /\ \A d \in 1..(Len(stack) - 1) : Below[d] = stack[d]
         /\ Below[Len(Below)] \in Activation /\ CalledHandler(Below[Len(Below)])
         /\ <<Below[Len(Below)].copy, Below[Len(Below)].line>> \in DOMAIN RollbackTable
         /\ RollbackTable[<<Below[Len(Below)].copy, Below[Len(Below)].line>>]
              = <<"src", Below[Len(Below)].line>>
<1>1. stack \in Seq(Activation) /\ stack # <<>> /\ Top.copy = "runtime"
  BY DEF InRuntime, Running, IInv, TypeOK
<1>2. /\ Below \in Seq(Activation) /\ Len(Below) = Len(stack) - 1 /\ Len(stack) \in Nat \ {0}
      /\ \A d \in 1..(Len(stack) - 1) : Below[d] = stack[d]
  BY <1>1, BelowTop DEF Below
<1>3. Top \in Activation /\ Top = Runtime
  BY <1>1, BelowTop, RuntimeApart DEF Top
<1>4. Len(stack) > 1 /\ CalledHandler(stack[Len(stack) - 1])
  BY <1>1, <1>2, <1>3 DEF IInv, Top
<1>5. Below[Len(Below)] = stack[Len(stack) - 1]
  BY <1>2, <1>4
<1>6. Below[Len(Below)] \in Activation /\ CalledHandler(Below[Len(Below)])
  BY <1>2, <1>4, <1>5
<1> DEFINE a == Below[Len(Below)]
<1>7. a.copy = "dst" /\ a.line \in Line /\ File[a.line].op \in Instructions
  BY <1>6, RuntimeApart, Lines DEF CalledHandler
<1>8. a.line \in Tables
  BY <1>7 DEF Tables, ShouldEmitRfLabel
<1> HIDE DEF a
<1>9. <<a.copy, a.line>> \in DOMAIN RollbackTable /\ RollbackTable[<<a.copy, a.line>>] = <<"src", a.line>>
  BY <1>7, <1>8 DEF RollbackTable
<1> QED BY <1>2, <1>3, <1>4, <1>6, <1>9 DEF a

LEMMA HandlerReturnsStep == ASSUME IInv, HandlerReturns PROVE IInv'
<1> DEFINE caller == Below[Len(Below)]
           a == [copy |-> "src", line |-> caller.line, answer |-> caller.answer]
<1>1. /\ Len(stack) \in Nat /\ Len(stack) > 1
      /\ Below \in Seq(Activation) /\ Len(Below) = Len(stack) - 1
      /\ \A d \in 1..(Len(stack) - 1) : Below[d] = stack[d]
      /\ caller \in Activation /\ CalledHandler(caller)
      /\ <<caller.copy, caller.line>> \in DOMAIN RollbackTable
      /\ RollbackTable[<<caller.copy, caller.line>>] = <<"src", caller.line>>
  <2>1. InRuntime BY DEF HandlerReturns
  <2> QED BY <2>1, Caller
<1>2. Moved(caller, RolledBack(<<caller.copy, caller.line>>)) = a
  <2>1. caller # Runtime BY <1>1 DEF CalledHandler
  <2>2. Moved(caller, <<"src", caller.line>>) = a BY <1>1, <2>1, MovedFields
  <2> QED BY <1>1, <2>2 DEF RolledBack
<1>3. stack' = [Below EXCEPT ![Len(Below)] = a] /\ UNCHANGED <<exited, signals>>
  BY <1>1, <1>2 DEF HandlerReturns
<1>4. a \in Activation /\ a # Runtime /\ InSecondCopy(a)
  <2>1. caller.line \in Space \ Promotion /\ caller.answer \in BOOLEAN /\ File[caller.line].op # "jumpIfSignal"
    BY <1>1, RuntimeApart DEF CalledHandler
  <2> HIDE DEF caller
  <2> QED BY <2>1 DEF Activation, Runtime, InSecondCopy
<1> HIDE DEF a, caller
<1>5. /\ stack' \in Seq(Activation) /\ Len(stack') = Len(stack) - 1
      /\ stack'[Len(stack) - 1] = a
      /\ \A d \in 1..(Len(stack) - 2) : stack'[d] = stack[d]
  BY <1>1, <1>3, <1>4
<1>6. DOMAIN stack' = 1..(Len(stack) - 1) /\ DOMAIN stack = 1..Len(stack)
  <2>1. stack \in Seq(Activation) BY DEF IInv, TypeOK
  <2> QED BY <1>1, <1>5, <2>1
<1>7. TypeOK' /\ NeverExits'
  BY <1>3, <1>5 DEF IInv, TypeOK, NeverExits
<1>8. \A d \in DOMAIN stack' : InSecondCopy(stack'[d])
  <2> SUFFICES ASSUME NEW d \in 1..(Len(stack) - 1) PROVE InSecondCopy(stack'[d])
    BY <1>6
  <2>1. CASE d = Len(stack) - 1 BY <2>1, <1>4, <1>5
  <2>2. CASE d # Len(stack) - 1
    <3>1. d \in 1..(Len(stack) - 2) /\ d \in DOMAIN stack BY <2>2, <1>1, <1>6
    <3>2. stack'[d] = stack[d] /\ InSecondCopy(stack[d]) BY <3>1, <1>5 DEF IInv
    <3> QED BY <3>2
  <2> QED BY <2>1, <2>2
<1>9. \A d \in DOMAIN stack' : stack'[d] = Runtime => d > 1 /\ CalledHandler(stack'[d - 1])
  <2> SUFFICES ASSUME NEW d \in 1..(Len(stack) - 1), stack'[d] = Runtime
               PROVE  d > 1 /\ CalledHandler(stack'[d - 1])
    BY <1>6
  <2>1. d \in 1..(Len(stack) - 2) BY <1>1, <1>4, <1>5
  <2>2. d \in DOMAIN stack /\ stack[d] = Runtime BY <2>1, <1>1, <1>5, <1>6
  <2>3. d > 1 /\ CalledHandler(stack[d - 1]) BY <2>2 DEF IInv
  <2>4. stack'[d - 1] = stack[d - 1] BY <2>1, <2>3, <1>1, <1>5
  <2> QED BY <2>3, <2>4
<1> QED BY <1>7, <1>8, <1>9 DEF IInv, InSecondCopy, CalledHandler

-----------------------------------------------------------------------------
LEMMA InitInv == Init => IInv
<1> SUFFICES ASSUME Init PROVE IInv
  OBVIOUS
<1>1. PICK f \in Slices : stack = <<Frame(GlobalAddress(f))>>
  BY DEF Init
<1> DEFINE a == [copy |-> "src", line |-> Entry(f), answer |-> FALSE]
<1>2. Entry(f) \in Space \ Promotion /\ File[Entry(f)].op # "jumpIfSignal"
  BY RollforwardAssumption
<1>3. stack = <<a>>
  BY <1>1 DEF Frame, GlobalAddress
<1>4. a \in Activation /\ a # Runtime /\ InSecondCopy(a)
  BY <1>2 DEF Activation, Runtime, InSecondCopy
<1> HIDE DEF a
<1>5. stack \in Seq(Activation) /\ DOMAIN stack = {1} /\ stack[1] = a
  BY <1>3, <1>4
<1>6. signals \in 0..MaxSignals /\ exited = FALSE
  BY RollforwardAssumption DEF Init
<1> QED BY <1>4, <1>5, <1>6 DEF IInv, TypeOK, NeverExits

LEMMA NextInv == IInv /\ [Next]_vars => IInv'
<1> SUFFICES ASSUME IInv, [Next]_vars PROVE IInv'
  OBVIOUS
<1>1. CASE Signal BY <1>1, SignalStep
<1>2. CASE Step BY <1>2, WithinStep, CallStep, ReturnStep DEF Step
<1>3. CASE CallHandler BY <1>3, CallHandlerStep
<1>4. CASE HandlerCalls BY <1>4, HandlerCallsStep
<1>5. CASE HandlerReturns BY <1>5, HandlerReturnsStep
<1>6. CASE UNCHANGED vars
  BY <1>6 DEF vars, IInv, TypeOK, NeverExits, InSecondCopy, CalledHandler
<1> QED BY <1>1, <1>2, <1>3, <1>4, <1>5, <1>6 DEF Next, Ended

\* The inductive invariant holds for every file, number of signals and handlers
\* (transform-prison.pl, rollforward.h).
THEOREM CopiesInvariance == Spec => []IInv
  BY InitInv, NextInv, PTL DEF Spec

\* rollbackward always finds the return address in its table: the program is not
\* ended by a signal.
THEOREM HandlerFindsWayBack == Spec => []NeverExits
<1>1. IInv => NeverExits
  BY DEF IInv
<1> QED BY <1>1, CopiesInvariance, PTL
-----------------------------------------------------------------------------
\* The program that polls is of the same file.
LEMMA SameText ==
  /\ Polled!Space = Space
  /\ \A i : Polled!After(i) = After(i) /\ Polled!Destination(i) = Destination(i)
  /\ \A f : Polled!Entry(f) = Entry(f)
  /\ \A S : Polled!Cardinality(S) = Cardinality(S)
BY DEF Polled!Space, Space, Polled!First, First, Polled!After, After, Polled!Destination, Destination,
       Polled!Entry, Entry, Polled!Local, Local, Polled!Global, Global, Polled!Line, Line, Polled!Labels, Labels,
       Polled!Cardinality, Cardinality

\* What the program that polls sees of a stack.
SeenStack(s) == [d \in DOMAIN s |-> Seen(s[d])]
SeenAll == {Seen(a) : a \in Activation}

LEMMA SeenSeq ==
  ASSUME NEW s \in Seq(Activation)
  PROVE  /\ SeenStack(s) \in Seq(SeenAll) /\ Len(SeenStack(s)) = Len(s)
         /\ \A d \in 1..Len(s) : SeenStack(s)[d] = Seen(s[d])
<1>1. Len(s) \in Nat /\ DOMAIN s = 1..Len(s) /\ \A d \in 1..Len(s) : s[d] \in Activation
  OBVIOUS
<1>2. SeenStack(s) = [d \in 1..Len(s) |-> Seen(s[d])]
  BY <1>1 DEF SeenStack
<1>3. \A d \in 1..Len(s) : Seen(s[d]) \in SeenAll
  BY <1>1 DEF SeenAll
<1> QED BY <1>1, <1>2, <1>3

LEMMA SeenAppended ==
  ASSUME NEW s \in Seq(Activation), NEW a \in Activation
  PROVE  SeenStack(Append(s, a)) = Append(SeenStack(s), Seen(a))
<1> DEFINE l == SeenStack(Append(s, a))
           v == SeenStack(s)
           r == Append(v, Seen(a))
<1>1. Append(s, a) \in Seq(Activation) /\ Len(Append(s, a)) = Len(s) + 1 /\ Len(s) \in Nat
      /\ (\A d \in 1..Len(s) : Append(s, a)[d] = s[d]) /\ Append(s, a)[Len(s) + 1] = a
  OBVIOUS
<1>2. l \in Seq(SeenAll) /\ Len(l) = Len(s) + 1 /\ \A d \in 1..(Len(s) + 1) : l[d] = Seen(Append(s, a)[d])
  BY <1>1, SeenSeq
<1>3. v \in Seq(SeenAll) /\ Len(v) = Len(s) /\ \A d \in 1..Len(s) : v[d] = Seen(s[d])
  BY SeenSeq
<1>4. Seen(a) \in SeenAll
  BY DEF SeenAll
<1> HIDE DEF l, v
<1>5. r \in Seq(SeenAll) /\ Len(r) = Len(s) + 1 /\ (\A d \in 1..Len(s) : r[d] = v[d]) /\ r[Len(s) + 1] = Seen(a)
  BY <1>1, <1>3, <1>4
<1> HIDE DEF r
<1>6. ASSUME NEW d \in 1..(Len(s) + 1) PROVE l[d] = r[d]
  <2>1. CASE d = Len(s) + 1 BY <2>1, <1>1, <1>2, <1>5
  <2>2. CASE d \in 1..Len(s) BY <2>2, <1>1, <1>2, <1>3, <1>5
  <2> QED BY <2>1, <2>2, <1>1
<1>7. l = r
  BY <1>1, <1>2, <1>5, <1>6, SeqEqual
<1> QED BY <1>7 DEF l, v, r

\* The map, of the top and of what is below.
LEMMA SeenTop ==
  ASSUME IInv, Running
  PROVE  /\ Frames # <<>> /\ Polled!Top = Seen(Top) /\ Polled!Below = SeenStack(Below)
         /\ Below \in Seq(Activation) /\ Top \in Activation
<1>1. stack \in Seq(Activation) /\ stack # <<>>
  BY DEF IInv, TypeOK, Running
<1>2. /\ Below \in Seq(Activation) /\ Len(Below) = Len(stack) - 1 /\ Len(stack) \in Nat \ {0}
      /\ \A d \in 1..(Len(stack) - 1) : Below[d] = stack[d]
      /\ Top \in Activation
  BY <1>1, BelowTop DEF Below, Top
<1>3. Frames = SeenStack(stack)
  BY DEF Frames, SeenStack
<1>4. /\ Frames \in Seq(SeenAll) /\ Len(Frames) = Len(stack)
      /\ \A d \in 1..Len(stack) : Frames[d] = Seen(stack[d])
  BY <1>1, <1>3, SeenSeq
<1>5. Frames # <<>>
  BY <1>2, <1>4
<1>6. Polled!Top = Seen(Top)
  BY <1>2, <1>4 DEF Polled!Top, Top
<1> DEFINE p == Polled!Below
           q == SeenStack(Below)
<1>7. /\ p \in Seq(SeenAll) /\ Len(p) = Len(stack) - 1
      /\ \A d \in 1..(Len(stack) - 1) : p[d] = Frames[d]
  BY <1>4, <1>5, BelowTop DEF Polled!Below
<1>8. /\ q \in Seq(SeenAll) /\ Len(q) = Len(stack) - 1
      /\ \A d \in 1..(Len(stack) - 1) : q[d] = Seen(Below[d])
  BY <1>2, SeenSeq
<1> HIDE DEF p, q
<1>9. ASSUME NEW d \in 1..(Len(stack) - 1) PROVE p[d] = q[d]
  BY <1>2, <1>4, <1>7, <1>8
<1>10. p = q
  BY <1>2, <1>7, <1>8, <1>9, SeqEqual
<1> QED BY <1>2, <1>5, <1>6, <1>10 DEF p, q

LEMMA SeenReplaced ==
  ASSUME IInv, Running, NEW a \in Activation, stack' = Append(Below, a)
  PROVE  Frames' = Append(Polled!Below, Seen(a))
<1>1. Frames' = SeenStack(stack')
  BY DEF Frames, SeenStack
<1> QED BY <1>1, SeenTop, SeenAppended

LEMMA SeenPushed ==
  ASSUME IInv, Running, NEW a \in Activation, NEW b \in Activation, stack' = Append(Append(Below, b), a)
  PROVE  Frames' = Append(Append(Polled!Below, Seen(b)), Seen(a))
<1>1. Frames' = SeenStack(stack')
  BY DEF Frames, SeenStack
<1>2. Append(Below, b) \in Seq(Activation)
  BY SeenTop
<1> QED BY <1>1, <1>2, SeenTop, SeenAppended
\* Frames with fields changed.
LEMMA FrameSignalled ==
  ASSUME NEW f, f = [line |-> f.line, answer |-> f.answer, signalled |-> f.signalled], NEW y
  PROVE  [f EXCEPT !.signalled = y] = [line |-> f.line, answer |-> f.answer, signalled |-> y]
OBVIOUS

LEMMA FrameMoved ==
  ASSUME NEW f, f = [line |-> f.line, answer |-> f.answer, signalled |-> f.signalled], NEW j, NEW y
  PROVE  [f EXCEPT !.line = j, !.signalled = y] = [line |-> j, answer |-> f.answer, signalled |-> y]
<1> DEFINE g == [f EXCEPT !.line = j]
<1>1. g = [line |-> j, answer |-> f.answer, signalled |-> f.signalled]
  OBVIOUS
<1>2. [f EXCEPT !.line = j, !.signalled = y] = [g EXCEPT !.signalled = y]
  OBVIOUS
<1> HIDE DEF g
<1> QED BY <1>1, <1>2

LEMMA FrameAnswered ==
  ASSUME NEW f, f = [line |-> f.line, answer |-> f.answer, signalled |-> f.signalled], NEW j, NEW y
  PROVE  [f EXCEPT !.line = j, !.answer = y] = [line |-> j, answer |-> y, signalled |-> f.signalled]
<1> DEFINE g == [f EXCEPT !.line = j]
<1>1. g = [line |-> j, answer |-> f.answer, signalled |-> f.signalled]
  OBVIOUS
<1>2. [f EXCEPT !.line = j, !.answer = y] = [g EXCEPT !.answer = y]
  OBVIOUS
<1> HIDE DEF g
<1> QED BY <1>1, <1>2

LEMMA SeenFields ==
  ASSUME NEW c, NEW i, NEW answer, NEW a, a = [copy |-> c, line |-> i, answer |-> answer]
  PROVE  Seen(a) = [line |-> i, answer |-> answer, signalled |-> (c = "dst")]
BY DEF Seen

LEMMA SeenAt ==
  ASSUME IInv, NEW ops, At(ops)
  PROVE  /\ Polled!At(ops) /\ Frames # <<>> /\ Polled!Top.line = Top.line
         /\ Polled!Top = [line |-> Top.line, answer |-> Top.answer, signalled |-> (Top.copy = "dst")]
         /\ Running /\ Top \in Activation /\ Top # Runtime
         /\ Top.copy \in {"src", "dst"} /\ Top.line \in Space /\ Top.answer \in BOOLEAN
         /\ File[Top.line].op \in ops
<1>1. /\ Running /\ Top \in Activation /\ Top # Runtime
      /\ Top.copy \in {"src", "dst"} /\ Top.line \in Space /\ Top.answer \in BOOLEAN
      /\ File[Top.line].op \in ops
  BY TopRuns
<1>2. Frames # <<>> /\ Polled!Top = Seen(Top)
  BY <1>1, SeenTop
<1>3. Top.line # 0
  BY <1>1, Lines
<1> QED BY <1>1, <1>2, <1>3 DEF Polled!At, Seen

\* A step that replaces the top of the stack, and the frame it becomes.
LEMMA SeenMoved ==
  ASSUME IInv, NEW ops, At(ops), NEW c \in {"src", "dst"}, NEW i \in Space, NEW answer \in BOOLEAN,
         stack' = Append(Below, [copy |-> c, line |-> i, answer |-> answer])
  PROVE  Frames' = Append(Polled!Below, [line |-> i, answer |-> answer, signalled |-> (c = "dst")])
<1> DEFINE a == [copy |-> c, line |-> i, answer |-> answer]
<1>1. a \in Activation
  BY DEF Activation
<1>2. Seen(a) = [line |-> i, answer |-> answer, signalled |-> (c = "dst")]
  BY SeenFields
<1> HIDE DEF a
<1> QED BY <1>1, <1>2, SeenAt, SeenReplaced DEF a

-----------------------------------------------------------------------------
\* Each step, and the step of the program that polls which it is.
LEMMA SignalSeen == ASSUME IInv, Signal PROVE Polled!Signal \/ UNCHANGED Frames
<1> DEFINE pc == <<Top.copy, Top.line>>
<1>1. CASE pc \in DOMAIN RollforwardTable
  <2>1. Top.copy = "src" /\ Top.line \in Tables
    BY <1>1 DEF RollforwardTable
  <2>2. Top.line \in Line /\ File[Top.line].op \in Instructions
    BY <2>1 DEF Tables, ShouldEmitRfLabel
  <2>3. At(Instructions)
    BY <2>1, <2>2 DEF At, Signal
  <2>4. /\ Frames # <<>> /\ Top \in Activation /\ Top # Runtime /\ Top.line \in Space /\ Top.answer \in BOOLEAN
        /\ Polled!Top = [line |-> Top.line, answer |-> Top.answer, signalled |-> FALSE]
    BY <2>1, <2>3, SeenAt
  <2>5. RollforwardTable[pc] = <<"dst", Top.line>>
    BY <2>1 DEF RollforwardTable
  <2>6. Moved(Top, RollforwardTable[pc]) = [copy |-> "dst", line |-> Top.line, answer |-> Top.answer]
    BY <2>4, <2>5, MovedFields
  <2>7. stack' = Append(Below, [copy |-> "dst", line |-> Top.line, answer |-> Top.answer])
    BY <1>1, <2>6 DEF Signal, Go
  <2>8. Frames' = Append(Polled!Below, [line |-> Top.line, answer |-> Top.answer, signalled |-> TRUE])
    BY <2>3, <2>4, <2>7, SeenMoved
  <2>9. At({File[i].op : i \in Space})
    BY <2>3, <2>4 DEF At
  <2>10. Polled!At({File[i].op : i \in Polled!Space})
    BY <2>9, SeenAt, SameText
  <2>11. /\ ~Polled!Top.signalled
         /\ [Polled!Top EXCEPT !.signalled = TRUE] = [line |-> Top.line, answer |-> Top.answer, signalled |-> TRUE]
    <3> DEFINE f == Polled!Top
    <3>1. f.line = Top.line /\ f.answer = Top.answer /\ ~f.signalled
          /\ f = [line |-> f.line, answer |-> f.answer, signalled |-> f.signalled]
      BY <2>4
    <3>2. [f EXCEPT !.signalled = TRUE] = [line |-> f.line, answer |-> f.answer, signalled |-> TRUE]
      BY <3>1, FrameSignalled
    <3> QED BY <3>1, <3>2
  <2> QED BY <2>8, <2>10, <2>11 DEF Polled!Signal
<1>2. CASE pc \notin DOMAIN RollforwardTable
  <2>1. UNCHANGED stack BY <1>2 DEF Signal
  <2> QED BY <2>1 DEF Frames
<1> QED BY <1>1, <1>2

LEMMA WithinSeen ==
  ASSUME IInv, Plain \/ Jump \/ Test \/ JumpIfSignal
  PROVE  Polled!Plain \/ Polled!Jump \/ Polled!TableJump \/ Polled!Test \/ Polled!JumpIfSignal
<1>1. \A x \in Activation : \A c, i : x # Runtime =>
         Moved(x, <<c, i>>) = [copy |-> c, line |-> i, answer |-> x.answer]
  BY MovedFields
<1>2. CASE Plain
  <2>1. At({"instruction", "align", "branch"}) /\ stack' = Append(Below, Moved(Top, AfterTop))
    BY <1>2 DEF Plain, Go
  <2>2. /\ Top \in Activation /\ Top # Runtime /\ Top.copy \in {"src", "dst"}
        /\ Top.line \in Space /\ Top.answer \in BOOLEAN
        /\ File[Top.line].op \in {"instruction", "align", "branch"}
        /\ Polled!At({"instruction", "align", "branch"})
        /\ Polled!Top = [line |-> Top.line, answer |-> Top.answer, signalled |-> (Top.copy = "dst")]
    BY <2>1, SeenAt
  <2>3. stack' = Append(Below, [copy |-> Top.copy, line |-> After(Top.line), answer |-> Top.answer])
    BY <2>1, <2>2, <1>1 DEF AfterTop
  <2>4. After(Top.line) \in Space
    BY <2>2, RollforwardAssumption DEF FallsThrough, Instructions
  <2>5. Frames' = Append(Polled!Below, [line |-> After(Top.line), answer |-> Top.answer, signalled |-> (Top.copy = "dst")])
    BY <2>1, <2>2, <2>3, <2>4, SeenMoved
  <2>6. Polled!Plain
    BY <2>2, <2>5, SameText DEF Polled!Plain, Polled!Go
  <2> QED BY <2>6
<1>3. CASE Jump
  <2>1. At({"jump", "branch", "tableJump"}) /\ stack' = Append(Below, Moved(Top, Target))
    BY <1>3 DEF Jump, Go
  <2>2. /\ Top \in Activation /\ Top # Runtime /\ Top.copy \in {"src", "dst"}
        /\ Top.line \in Space /\ Top.answer \in BOOLEAN /\ Running
        /\ File[Top.line].op \in {"jump", "branch", "tableJump"}
        /\ Polled!Top = [line |-> Top.line, answer |-> Top.answer, signalled |-> (Top.copy = "dst")]
    BY <2>1, SeenAt
  <2> DEFINE c == IF Renamed(Top.copy, Top.line) THEN "dst" ELSE "src"
  <2>3. Target = <<c, Destination(Top.line)>>
    BY DEF Target, LocalAddress, Destination
  <2>4. stack' = Append(Below, [copy |-> c, line |-> Destination(Top.line), answer |-> Top.answer])
    BY <2>1, <2>2, <2>3, <1>1
  <2>5. Destination(Top.line) \in Space /\ Polled!Destination(Top.line) = Destination(Top.line)
    BY <2>2, RollforwardAssumption, SameText DEF JumpsTo
  <2>6. c \in {"src", "dst"} /\ (c = "dst" <=> Top.copy = "dst" /\ File[Top.line].op # "tableJump")
    BY DEF Renamed
  <2> HIDE DEF c
  <2>7. Frames' = Append(Polled!Below, [line |-> Destination(Top.line), answer |-> Top.answer, signalled |-> (c = "dst")])
    BY <2>1, <2>2, <2>4, <2>5, <2>6, SeenMoved
  <2>8. CASE File[Top.line].op = "tableJump"
    <3>1. At({"tableJump"})
      BY <2>1, <2>8 DEF At
    <3>2. Polled!At({"tableJump"})
      BY <3>1, SeenAt
    <3>3. Frames' = Append(Polled!Below, [line |-> Destination(Top.line), answer |-> Top.answer, signalled |-> FALSE])
      BY <2>6, <2>7, <2>8
    <3> DEFINE f == Polled!Top
               i == Destination(Top.line)
    <3>4. f.line = Top.line /\ f.answer = Top.answer
          /\ f = [line |-> f.line, answer |-> f.answer, signalled |-> f.signalled]
      BY <2>2
    <3>5. [f EXCEPT !.line = i, !.signalled = FALSE] = [line |-> i, answer |-> f.answer, signalled |-> FALSE]
      BY <3>4, FrameMoved
    <3>6. Polled!TableJump
      BY <2>5, <3>2, <3>3, <3>4, <3>5 DEF Polled!TableJump
    <3> QED BY <3>6
  <2>9. CASE File[Top.line].op # "tableJump"
    <3>1. At({"jump", "branch"})
      BY <2>1, <2>2, <2>9 DEF At
    <3>2. Polled!At({"jump", "branch"})
      BY <3>1, SeenAt
    <3>3. Frames' = Append(Polled!Below, [line |-> Destination(Top.line), answer |-> Top.answer, signalled |-> (Top.copy = "dst")])
      <4>1. (c = "dst") = (Top.copy = "dst")
        BY <2>6, <2>9
      <4> QED BY <2>7, <4>1
    <3>4. Polled!Jump
      BY <2>2, <2>5, <3>2, <3>3 DEF Polled!Jump, Polled!Go
    <3> QED BY <3>4
  <2> QED BY <2>8, <2>9
<1>4. CASE Test
  <2>1. At({"test"}) /\ stack' = Append(Below, [Moved(Top, AfterTop) EXCEPT !.answer = TestAnswer(Top.copy)])
    BY <1>4 DEF Test
  <2>2. /\ Top \in Activation /\ Top # Runtime /\ Top.copy \in {"src", "dst"}
        /\ Top.line \in Space /\ File[Top.line].op = "test" /\ Polled!At({"test"})
        /\ Polled!Top = [line |-> Top.line, answer |-> Top.answer, signalled |-> (Top.copy = "dst")]
    BY <2>1, SeenAt
  <2>3. stack' = Append(Below, [copy |-> Top.copy, line |-> After(Top.line), answer |-> (Top.copy = "dst")])
    <3>1. Moved(Top, AfterTop) = [copy |-> Top.copy, line |-> After(Top.line), answer |-> Top.answer]
      BY <2>2, <1>1 DEF AfterTop
    <3> QED BY <2>1, <3>1 DEF TestAnswer
  <2>4. After(Top.line) \in Space
    BY <2>2, RollforwardAssumption DEF FallsThrough, Instructions
  <2>5. (Top.copy = "dst") \in BOOLEAN OBVIOUS
  <2>6. Frames' = Append(Polled!Below, [line |-> After(Top.line), answer |-> (Top.copy = "dst"), signalled |-> (Top.copy = "dst")])
    BY <2>1, <2>2, <2>3, <2>4, <2>5, SeenMoved
  <2> DEFINE s == Top.copy = "dst"
  <2>7. [Polled!Top EXCEPT !.line = After(Top.line), !.answer = Polled!Top.signalled]
          = [line |-> After(Top.line), answer |-> s, signalled |-> s]
    <3> DEFINE f == Polled!Top
               i == After(Top.line)
    <3>0. f = [line |-> f.line, answer |-> f.answer, signalled |-> f.signalled]
      BY <2>2
    <3>1. f.signalled = s
      BY <2>2
    <3>2. [f EXCEPT !.line = i, !.answer = f.signalled] = [line |-> i, answer |-> f.signalled, signalled |-> f.signalled]
      <4> HIDE DEF f, i
      <4> QED BY <3>0, FrameAnswered
    <3> QED BY <3>1, <3>2
  <2>8. Polled!Top.line = Top.line /\ Polled!After(Top.line) = After(Top.line)
    BY <2>2, SameText
  <2>9. Polled!Test
    BY <2>2, <2>6, <2>7, <2>8 DEF Polled!Test
  <2> QED BY <2>9
<1>5. CASE JumpIfSignal
  <2>1. At({"jumpIfSignal"}) /\ stack' = Append(Below, Moved(Top, IF Top.answer THEN Target ELSE AfterTop))
    BY <1>5 DEF JumpIfSignal, Go
  <2>2. /\ Top \in Activation /\ Top # Runtime /\ Top.copy \in {"src", "dst"}
        /\ Top.line \in Space /\ Top.answer \in BOOLEAN /\ File[Top.line].op = "jumpIfSignal"
        /\ Polled!At({"jumpIfSignal"})
        /\ Polled!Top = [line |-> Top.line, answer |-> Top.answer, signalled |-> (Top.copy = "dst")]
    BY <2>1, SeenAt
  <2> DEFINE i == IF Top.answer THEN Destination(Top.line) ELSE After(Top.line)
  <2>3. (IF Top.answer THEN Target ELSE AfterTop) = <<Top.copy, i>>
    BY <2>2 DEF Target, LocalAddress, Destination, Renamed, AfterTop
  <2>4. i \in Space
    BY <2>2, RollforwardAssumption DEF JumpsTo, FallsThrough, Instructions
  <2>5. stack' = Append(Below, [copy |-> Top.copy, line |-> i, answer |-> Top.answer])
    BY <2>1, <2>2, <2>3, <1>1
  <2>6. i = IF Polled!Top.answer THEN Polled!Destination(Polled!Top.line) ELSE Polled!After(Polled!Top.line)
    BY <2>2, SameText
  <2> HIDE DEF i
  <2>7. Frames' = Append(Polled!Below, [line |-> i, answer |-> Top.answer, signalled |-> (Top.copy = "dst")])
    BY <2>1, <2>2, <2>4, <2>5, SeenMoved
  <2>8. Frames' = Append(Polled!Below, [Polled!Top EXCEPT !.line = i])
    BY <2>2, <2>7
  <2>9. Polled!JumpIfSignal
    BY <2>2, <2>6, <2>8 DEF Polled!JumpIfSignal, Polled!Go
  <2> QED BY <2>9
<1> QED BY <1>2, <1>3, <1>4, <1>5

LEMMA EnteredFrame == ASSUME NEW f PROVE Seen(Frame(GlobalAddress(f))) = Polled!Enter(f)
<1> DEFINE a == Frame(GlobalAddress(f))
<1>1. a = [copy |-> "src", line |-> Entry(f), answer |-> FALSE]
  BY DEF Frame, GlobalAddress
<1>2. Seen(a) = [line |-> Entry(f), answer |-> FALSE, signalled |-> FALSE]
  <2>1. a.line = Entry(f) /\ a.answer = FALSE /\ (a.copy = "dst") = FALSE
    BY <1>1
  <2> HIDE DEF a
  <2> QED BY <2>1 DEF Seen
<1> HIDE DEF a
<1> QED BY <1>2, SameText DEF a, Polled!Enter

LEMMA CallSeen == ASSUME IInv, Call \/ CallHandler PROVE Polled!Call
<1> DEFINE Called == IF At({"call"}) THEN Frame(GlobalAddress(File[Top.line].name)) ELSE Runtime
           b == [copy |-> Top.copy, line |-> After(Top.line), answer |-> Top.answer]
<1>1. /\ Top \in Activation /\ Top # Runtime /\ Top.copy \in {"src", "dst"} /\ Running
      /\ Top.line \in Space /\ Top.answer \in BOOLEAN /\ File[Top.line].op \in {"call", "callHandler"}
      /\ Polled!Top = [line |-> Top.line, answer |-> Top.answer, signalled |-> (Top.copy = "dst")]
      /\ Frames # <<>> /\ Polled!Top.line # 0 /\ Polled!Top.line = Top.line
  <2>1. At({"call"}) \/ At({"callHandler"}) BY DEF Call, CallHandler
  <2>2. At({"call", "callHandler"}) BY <2>1 DEF At
  <2> QED BY <2>2, SeenAt DEF Polled!At
<1>2. Moved(Top, AfterTop) = b
  BY <1>1, MovedFields DEF AfterTop
<1>3. (Call => At({"call"})) /\ (CallHandler => ~At({"call"}))
  BY DEF Call, CallHandler, At
<1>4. stack' = Below \o <<b, Called>>
  BY <1>2, <1>3 DEF Call, CallHandler
<1>5. Called \in Activation
      /\ Seen(Called) = IF At({"call"}) THEN Polled!Enter(File[Top.line].name) ELSE Polled!Runtime
  <2>1. CASE At({"call"})
    <3> DEFINE f == File[Top.line].name
    <3>1. Entry(f) \in Space
      <4>1. Top.line \in Line /\ File[Top.line].op = "call"
        BY <1>1, <2>1, Lines DEF At
      <4>2. f \in {File[i].name : i \in {j \in Line : File[j].op = "call"}}
        BY <4>1
      <4> QED BY <4>2, RollforwardAssumption
    <3>2. Frame(GlobalAddress(f)) = [copy |-> "src", line |-> Entry(f), answer |-> FALSE]
      BY DEF Frame, GlobalAddress
    <3>3. Frame(GlobalAddress(f)) \in Activation
      BY <3>1, <3>2 DEF Activation
    <3>4. Seen(Frame(GlobalAddress(f))) = Polled!Enter(f)
      BY <3>2, EnteredFrame
    <3> QED BY <2>1, <3>3, <3>4
  <2>2. CASE ~At({"call"})
    BY <2>2 DEF Activation, Seen, Runtime, Polled!Runtime
  <2> QED BY <2>1, <2>2
<1> HIDE DEF Called
<1>6. After(Top.line) \in Space
  BY <1>1, RollforwardAssumption DEF FallsThrough, Instructions
<1>7. b \in Activation
  BY <1>1, <1>6 DEF Activation
<1>8. Seen(b) = [Polled!Top EXCEPT !.line = Polled!After(Polled!Top.line)]
  <2>1. Seen(b) = [line |-> After(Top.line), answer |-> Top.answer, signalled |-> (Top.copy = "dst")]
    BY DEF Seen
  <2>2. Polled!After(Top.line) = After(Top.line)
    BY SameText
  <2> HIDE DEF b
  <2> QED BY <1>1, <2>1, <2>2
<1> HIDE DEF b
<1>9. stack' = Append(Append(Below, b), Called)
  BY <1>1, <1>4, SeenTop, TwoAppended
<1>10. Frames' = Append(Append(Polled!Below, Seen(b)), Seen(Called))
  BY <1>1, <1>5, <1>7, <1>9, SeenPushed
<1>11. Polled!Below \in Seq(SeenAll)
  BY <1>1, SeenTop, SeenSeq
<1>12. Frames' = Polled!Below \o <<Seen(b), Seen(Called)>>
  <2>1. PICK below : below = Polled!Below
    OBVIOUS
  <2>2. PICK x : x = Seen(b)
    OBVIOUS
  <2>3. PICK y : y = Seen(Called)
    OBVIOUS
  <2>4. below \o <<x, y>> = Append(Append(below, x), y)
    BY <1>11, <2>1, TwoAppended
  <2> QED BY <1>10, <2>1, <2>2, <2>3, <2>4, Zenon
<1>13. Polled!At({"call", "callHandler"}) /\ (Polled!At({"call"}) <=> At({"call"}))
  BY <1>1, RuntimeApart DEF Polled!At, At
<1> QED BY <1>1, <1>5, <1>8, <1>12, <1>13 DEF Polled!Call

LEMMA ReturnSeen == ASSUME IInv, Return PROVE Polled!Return
<1>1. At({"return"}) /\ stack' = Below
  BY DEF Return
<1>2. Polled!At({"return"}) /\ Running
  BY <1>1, SeenAt
<1>3. Frames' = SeenStack(stack')
  BY DEF Frames, SeenStack
<1> QED BY <1>1, <1>2, <1>3, SeenTop DEF Polled!Return

LEMMA HandlerCallsSeen == ASSUME IInv, HandlerCalls PROVE Polled!RuntimeCalls
<1>1. InRuntime /\ Running /\ Top.copy = "runtime" /\ stack \in Seq(Activation)
  BY DEF HandlerCalls, InRuntime, IInv, TypeOK
<1>2. Frames # <<>> /\ Polled!Top = Seen(Top) /\ Top \in Activation
  BY <1>1, SeenTop
<1>3. Polled!InRuntime
  BY <1>1, <1>2, RuntimeApart DEF Seen, Polled!InRuntime
<1>4. DOMAIN Frames = DOMAIN stack /\ \A d \in DOMAIN stack : Frames[d] = Seen(stack[d]) /\ stack[d] \in Activation
  BY <1>1 DEF Frames
<1>5. \A d \in DOMAIN stack : Frames[d].line = 0 <=> stack[d].copy = "runtime"
  BY <1>4, RuntimeApart DEF Seen
<1>6. {d \in DOMAIN Frames : Frames[d].line = 0} = {d \in DOMAIN stack : stack[d].copy = "runtime"}
  BY <1>4, <1>5
<1>7. Polled!Room
  <2>1. Cardinality({d \in DOMAIN stack : stack[d].copy = "runtime"}) <= MaxHandlers
    BY DEF HandlerCalls
  <2>2. Cardinality({d \in DOMAIN Frames : Frames[d].line = 0}) <= MaxHandlers
    BY <1>6, <2>1
  <2> QED BY <2>2, SameText DEF Polled!Room
<1>8. PICK f \in Slices : stack' = Append(stack, Frame(GlobalAddress(f)))
  BY DEF HandlerCalls
<1> DEFINE a == Frame(GlobalAddress(f))
<1>9. a = [copy |-> "src", line |-> Entry(f), answer |-> FALSE]
  BY DEF Frame, GlobalAddress
<1>10. a \in Activation
  BY <1>9, RollforwardAssumption DEF Activation
<1>11. Seen(a) = Polled!Enter(f)
  BY EnteredFrame
<1> HIDE DEF a
<1>12. SeenStack(stack') = Append(SeenStack(stack), Seen(a))
  BY <1>1, <1>8, <1>10, SeenAppended DEF a
<1>13. Frames' = Append(Frames, Polled!Enter(f))
  BY <1>11, <1>12 DEF Frames, SeenStack
<1> QED BY <1>3, <1>7, <1>13 DEF Polled!RuntimeCalls

LEMMA HandlerReturnsSeen == ASSUME IInv, HandlerReturns PROVE Polled!RuntimeReturns
<1> DEFINE n == Len(stack) - 1
           caller == Below[Len(Below)]
           a == [copy |-> "src", line |-> caller.line, answer |-> caller.answer]
<1>1. /\ Len(stack) \in Nat /\ Len(stack) > 1 /\ n \in Nat \ {0} /\ Top = Runtime
      /\ Below \in Seq(Activation) /\ Len(Below) = n
      /\ caller \in Activation /\ CalledHandler(caller)
      /\ <<caller.copy, caller.line>> \in DOMAIN RollbackTable
      /\ RollbackTable[<<caller.copy, caller.line>>] = <<"src", caller.line>>
  <2>1. InRuntime BY DEF HandlerReturns
  <2> QED BY <2>1, Caller
<1>2. Moved(caller, RolledBack(<<caller.copy, caller.line>>)) = a
  <2>1. caller # Runtime BY <1>1 DEF CalledHandler
  <2>2. Moved(caller, <<"src", caller.line>>) = a BY <1>1, <2>1, MovedFields
  <2> QED BY <1>1, <2>2 DEF RolledBack
<1>3. stack' = [Below EXCEPT ![n] = a]
  BY <1>1, <1>2 DEF HandlerReturns
<1>4. /\ Frames # <<>> /\ Polled!Top = Seen(Runtime) /\ Polled!Below = SeenStack(Below)
  BY <1>1, SeenTop DEF HandlerReturns, InRuntime
<1>5. Polled!InRuntime
  BY <1>4 DEF Seen, Runtime, Polled!InRuntime
<1>6. Seen(a) = [Seen(caller) EXCEPT !.signalled = FALSE]
  <2>1. Seen(caller) = [line |-> caller.line, answer |-> caller.answer, signalled |-> (caller.copy = "dst")]
    BY DEF Seen
  <2>2. Seen(a) = [line |-> caller.line, answer |-> caller.answer, signalled |-> FALSE]
    <3>1. a.line = caller.line /\ a.answer = caller.answer /\ (a.copy = "dst") = FALSE
      OBVIOUS
    <3> HIDE DEF a
    <3> QED BY <3>1 DEF Seen
  <2> DEFINE f == Seen(caller)
  <2>3. f.line = caller.line /\ f.answer = caller.answer
        /\ f = [line |-> f.line, answer |-> f.answer, signalled |-> f.signalled]
    BY <2>1
  <2> HIDE DEF f
  <2>4. [f EXCEPT !.signalled = FALSE] = [line |-> f.line, answer |-> f.answer, signalled |-> FALSE]
    BY <2>3, FrameSignalled
  <2> QED BY <2>2, <2>3, <2>4 DEF f
<1>7. DOMAIN Below = 1..n
  BY <1>1
<1> HIDE DEF a, caller, n
<1>8. DOMAIN stack' = 1..n /\ \A d \in 1..n : stack'[d] = IF d = n THEN a ELSE Below[d]
  BY <1>1, <1>3, <1>7
<1>9. Frames' = [d \in 1..n |-> IF d = n THEN Seen(a) ELSE Seen(Below[d])]
  BY <1>8 DEF Frames
<1>10. SeenStack(Below) = [d \in 1..n |-> Seen(Below[d])] /\ Len(SeenStack(Below)) = n
  BY <1>1, <1>7, SeenSeq DEF SeenStack
<1>11. Below[n] = caller
  BY <1>1 DEF caller
<1>12. Frames' = [SeenStack(Below) EXCEPT ![n].signalled = FALSE]
  BY <1>1, <1>6, <1>9, <1>10, <1>11
<1> QED BY <1>4, <1>5, <1>10, <1>12 DEF Polled!RuntimeReturns

LEMMA InitSeen == Init => Polled!Init
<1> SUFFICES ASSUME Init PROVE Polled!Init
  OBVIOUS
<1>1. PICK f \in Slices : stack = <<Frame(GlobalAddress(f))>>
  BY DEF Init
<1> DEFINE a == Frame(GlobalAddress(f))
<1>2. Seen(a) = Polled!Enter(f)
  BY EnteredFrame
<1> HIDE DEF a
<1>3. stack = <<a>>
  BY <1>1 DEF a
<1>4. Frames = <<Seen(a)>>
  BY <1>3 DEF Frames
<1> QED BY <1>2, <1>4 DEF Polled!Init

\* Every step is one of the program that polls, or none.
LEMMA NextSeen == IInv /\ [Next]_vars => [Polled!Next]_Frames
<1> SUFFICES ASSUME IInv, [Next]_vars PROVE [Polled!Next]_Frames
  OBVIOUS
<1>1. CASE Signal BY <1>1, SignalSeen DEF Polled!Next
<1>2. CASE Step
  <2>1. CASE Plain \/ Jump \/ Test \/ JumpIfSignal
    BY <2>1, WithinSeen DEF Polled!Next
  <2>2. CASE Call BY <2>2, CallSeen DEF Polled!Next
  <2>3. CASE Return BY <2>3, ReturnSeen DEF Polled!Next
  <2> QED BY <1>2, <2>1, <2>2, <2>3 DEF Step
<1>3. CASE CallHandler BY <1>3, CallSeen DEF Polled!Next
<1>4. CASE HandlerCalls BY <1>4, HandlerCallsSeen DEF Polled!Next
<1>5. CASE HandlerReturns BY <1>5, HandlerReturnsSeen DEF Polled!Next
<1>6. CASE UNCHANGED vars BY <1>6 DEF vars, Frames
<1> QED BY <1>1, <1>2, <1>3, <1>4, <1>5, <1>6 DEF Next, Ended

\* The two copies of the text and the two tables are one program that polls a flag
\* of each activation, for every file: an activation that a signal has come to
\* calls the handler once (transform-prison.pl, rollforward.h).
THEOREM CopiesArePolled == Spec => ImplementsPolled
BY CopiesInvariance, InitSeen, NextSeen, PTL DEF Spec, ImplementsPolled, Polled!Spec
=============================================================================
