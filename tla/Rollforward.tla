----------------------------- MODULE Rollforward ----------------------------
(***************************************************************************)
(* Rollforwarding: heartbeats without polling.                             *)
(*                                                                         *)
(* The transformation of the assembly file emits its text twice, with a    *)
(* test that fails in the first copy and succeeds in the second, and two   *)
(* tables that relate the instructions of the copies.  A signal moves the  *)
(* program counter of a worker from the first to the second copy; at its   *)
(* next test the worker calls the handler, which returns to the first.     *)
(* Workers share none of this: the model is one of them.                   *)
(***************************************************************************)
EXTENDS Assembly, FiniteSets

CONSTANTS
  Slices,       \* functions the handler calls, by their global symbols
  Promotion,    \* lines of promotion handler blocks, up to the call of the handler
  MaxHandlers,  \* bound: handlers on the stack that run slices
  MaxSignals    \* bound: signals to the worker

\* What is compiled: control stays in the text; a promotion handler block is
\* entered by the jump of a test alone, which follows its test, and is over when
\* the handler has returned, at an instruction.
ASSUME RollforwardAssumption ==
  /\ MaxHandlers \in Nat /\ MaxSignals \in Nat
  /\ \A f \in Slices \cup {File[i].name : i \in {j \in Line : File[j].op = "call"}} :
       Entry(f) \in Space \ Promotion /\ File[Entry(f)].op # "jumpIfSignal"
  /\ \A i \in Space :
       /\ File[i].op \in FallsThrough =>
            /\ After(i) \in Space
            /\ After(i) \in Promotion => i \in Promotion
            /\ File[After(i)].op = "jumpIfSignal" => File[i].op = "test"
       /\ File[i].op \in JumpsTo =>
            /\ Destination(i) \in Space
            /\ Destination(i) \in Promotion =>
                 File[i].op = "jumpIfSignal" \/ (i \in Promotion /\ File[i].op # "tableJump")
            /\ File[Destination(i)].op # "jumpIfSignal"
       /\ File[i].op = "callHandler" =>
            i \in Promotion /\ After(i) \notin Promotion /\ File[After(i)].op \in Instructions

VARIABLES
  stack,    \* activations: [copy, line, answer], the return address of each but the last
  signals,  \* signals so far
  exited    \* the program has ended in exit(1)

vars == <<stack, signals, exited>>
-----------------------------------------------------------------------------
\* should_emit_rf_label: neither a directive or local label nor a global label.
\* (not the line after a call)
LabelsNoReturns(i) ==
  File[i].op \in Instructions /\ ~(i > 1 /\ File[i - 1].op = "callHandler")
ShouldEmitRfLabel(i) == File[i].op \in Instructions

Tables == {i \in Line : ShouldEmitRfLabel(i)}
RollforwardTable == [from \in {<<"src", i>> : i \in Tables} |-> <<"dst", from[2]>>]
RollbackTable    == [from \in {<<"dst", i>> : i \in Tables} |-> <<"src", from[2]>>]

\* Local labels have a namesake in the second copy, which operands of its lines
\* are changed to where the label is a word of its own, as it is not in the
\* operand of a jump through a table.
\* (no operand changed)
NoneRenamed(copy, i) == FALSE
Renamed(copy, i) == copy = "dst" /\ File[i].op # "tableJump"
LocalAddress(l, rf) == <<IF rf THEN "dst" ELSE "src", First(Local(l))>>
\* A global symbol is that of the first copy.
GlobalAddress(f) == <<"src", Entry(f)>>

\* The operand of the test is 0 in the first copy and 1 in the second.
\* (the operands the other way round)
TestSwapped(copy) == copy = "src"
TestAnswer(copy) == copy = "dst"
-----------------------------------------------------------------------------
Frame(address) == [copy |-> address[1], line |-> address[2], answer |-> FALSE]
Runtime == [copy |-> "runtime", line |-> 0, answer |-> FALSE]

Init ==
  /\ \E f \in Slices : stack = <<Frame(GlobalAddress(f))>>
  /\ signals = 0 /\ exited = FALSE

Top   == stack[Len(stack)]
Below == SubSeq(stack, 1, Len(stack) - 1)
Running == stack # <<>> /\ ~exited
At(ops) == Running /\ Top.copy # "runtime" /\ File[Top.line].op \in ops
InRuntime == Running /\ Top.copy = "runtime"

Moved(frame, address) == [frame EXCEPT !.copy = address[1], !.line = address[2]]
AfterTop == <<Top.copy, After(Top.line)>>
Target   == LocalAddress(File[Top.line].name, Renamed(Top.copy, Top.line))
Go(address) == stack' = Append(Below, Moved(Top, address))

\* try_to_initiate_rollforward, in the signal handler: an address that is not
\* in the table, of the second copy or of the runtime, is left as it is.
Signal ==
  /\ Running /\ signals < MaxSignals
  /\ signals' = signals + 1
  /\ LET pc == <<Top.copy, Top.line>> IN
     IF pc \in DOMAIN RollforwardTable
     THEN Go(RollforwardTable[pc]) ELSE UNCHANGED stack
  /\ UNCHANGED exited

Plain == At({"instruction", "align", "branch"}) /\ Go(AfterTop)
Jump  == At({"jump", "branch", "tableJump"}) /\ Go(Target)

\* __rf_test: the operand, moved into a register.
Test ==
  /\ At({"test"})
  /\ stack' = Append(Below, [Moved(Top, AfterTop) EXCEPT !.answer = TestAnswer(Top.copy)])

JumpIfSignal == At({"jumpIfSignal"}) /\ Go(IF Top.answer THEN Target ELSE AfterTop)

\* A call leaves its return address, in the copy that it is in.
Call ==
  /\ At({"call"})
  /\ stack' = Below \o <<Moved(Top, AfterTop), Frame(GlobalAddress(File[Top.line].name))>>

Return == At({"return"}) /\ stack' = Below

Step == (Plain \/ Jump \/ Test \/ JumpIfSignal \/ Call \/ Return)
        /\ UNCHANGED <<signals, exited>>

\* The call of __rf_handle_wrapper.
CallHandler ==
  /\ At({"callHandler"})
  /\ stack' = Below \o <<Moved(Top, AfterTop), Runtime>>
  /\ UNCHANGED <<signals, exited>>

\* promotion_handler runs a slice on the same worker.
HandlerCalls ==
  /\ InRuntime
  /\ Cardinality({d \in DOMAIN stack : stack[d].copy = "runtime"}) <= MaxHandlers
  /\ \E f \in Slices : stack' = Append(stack, Frame(GlobalAddress(f)))
  /\ UNCHANGED <<signals, exited>>

\* rollbackward: the return address is replaced by that of the first copy, and
\* the program ends if it is not in the table.
\* (returns where it was called)
ReturnUnchanged(pc) == pc
RolledBack(pc) == RollbackTable[pc]
HandlerReturns ==
  /\ InRuntime
  /\ LET caller == Below[Len(Below)]
         pc     == <<caller.copy, caller.line>>
     IN IF pc \in DOMAIN RollbackTable
        THEN /\ stack' = [Below EXCEPT ![Len(Below)] = Moved(caller, RolledBack(pc))]
             /\ UNCHANGED exited
        ELSE exited' = TRUE /\ UNCHANGED stack
  /\ UNCHANGED signals

Ended == ~Running /\ UNCHANGED vars

Next == Signal \/ Step \/ CallHandler \/ HandlerCalls \/ HandlerReturns \/ Ended

Spec     == Init /\ [][Next]_vars
\* The processor goes on with the program whatever signals there are.
FairSpec == Spec /\ WF_vars(Step \/ CallHandler)
-----------------------------------------------------------------------------
Activation == {Runtime} \cup [copy : {"src", "dst"}, line : Space, answer : BOOLEAN]

TypeOK ==
  /\ stack \in Seq(Activation)
  /\ signals \in 0..MaxSignals /\ exited \in BOOLEAN

\* The handler always finds the address to return to: it is called from the
\* second copy alone, and its calls return to an instruction that has labels.
NeverExits == ~exited

\* The two copies and the tables are one program that polls a flag of each
\* activation: in particular a signal has at most one handler called.
Seen(a) == [line |-> a.line, answer |-> a.answer, signalled |-> (a.copy = "dst")]
Frames == [d \in DOMAIN stack |-> Seen(stack[d])]
Polled == INSTANCE PolledSlices WITH frames <- Frames
ImplementsPolled == Polled!Spec

SameFunction(i, j) == \A k \in Line : File[k].op = "global" => (k <= i <=> k <= j)
MovedSlice(d) == /\ Len(stack) >= d /\ stack[d].copy = "dst"
                 /\ \E i \in Line : File[i].op = "test" /\ SameFunction(i, stack[d].line)

\* A moved activation of a function that tests, at depth d of the stack, calls
\* the handler or ends its loop.
SignalAnswered ==
  \A d \in 1..(3 * MaxHandlers + 3) :
    MovedSlice(d) ~> (Len(stack) < d \/ (Len(stack) > d /\ stack[d + 1] = Runtime))

\* A signal is not forgotten before the handler is called, were it in the
\* middle of a function that a slice calls.
BreaksOut ==
  [][Running /\ Top.copy = "dst" /\ stack' # <<>> /\ Len(stack') < Len(stack)
       => stack'[Len(stack')].copy = "dst"]_vars
-----------------------------------------------------------------------------
\* A promotion handler block runs in the second copy alone: only a test in that
\* copy answers that there is a signal.
InSecondCopy(a) ==
  a # Runtime =>
    /\ a.line \in Promotion => a.copy = "dst"
    /\ File[a.line].op = "jumpIfSignal" /\ a.answer => a.copy = "dst"

\* An activation that waits for the handler, which will move it to the first copy.
CalledHandler(a) ==
  /\ a # Runtime /\ a.copy = "dst" /\ a.line \notin Promotion
  /\ File[a.line].op \in Instructions \ {"jumpIfSignal"}

\* The invariant every step preserves.
IInv ==
  /\ TypeOK /\ NeverExits
  /\ \A d \in DOMAIN stack : InSecondCopy(stack[d])
  /\ \A d \in DOMAIN stack : stack[d] = Runtime => d > 1 /\ CalledHandler(stack[d - 1])
=============================================================================
