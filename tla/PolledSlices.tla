---------------------------- MODULE PolledSlices ----------------------------
(***************************************************************************)
(* What rollforwarding promises: the program runs as if there were one     *)
(* copy of it, in which an activation of a slice that a signal has come to *)
(* finds it out at its next test, calls the handler once, and goes on.     *)
(* A signal in another activation, or in the runtime, is lost.             *)
(***************************************************************************)
EXTENDS Assembly, FiniteSets

CONSTANTS Slices, MaxHandlers

VARIABLE frames   \* activations: [line, signalled, answer], line 0 in the runtime

Enter(f) == [line |-> Entry(f), signalled |-> FALSE, answer |-> FALSE]
Runtime  == [line |-> 0, signalled |-> FALSE, answer |-> FALSE]

Top   == frames[Len(frames)]
Below == SubSeq(frames, 1, Len(frames) - 1)
At(ops) == frames # <<>> /\ Top.line # 0 /\ File[Top.line].op \in ops
InRuntime == frames # <<>> /\ Top.line = 0

Go(i)    == frames' = Append(Below, [Top EXCEPT !.line = i])
\* The runtime is entered at most MaxHandlers times on one stack.
Room == Cardinality({d \in DOMAIN frames : frames[d].line = 0}) <= MaxHandlers

Init == \E f \in Slices : frames = <<Enter(f)>>

Signal == At({File[i].op : i \in Space}) /\ ~Top.signalled
          /\ frames' = Append(Below, [Top EXCEPT !.signalled = TRUE])
Plain  == At({"instruction", "align", "branch"}) /\ Go(After(Top.line))
Jump   == At({"jump", "branch"}) /\ Go(Destination(Top.line))
\* A jump through a table forgets the signal.
TableJump == At({"tableJump"})
             /\ frames' = Append(Below, [Top EXCEPT !.line = Destination(Top.line), !.signalled = FALSE])
Test   == At({"test"})
          /\ frames' = Append(Below, [Top EXCEPT !.line = After(Top.line), !.answer = Top.signalled])
JumpIfSignal == At({"jumpIfSignal"}) /\ Go(IF Top.answer THEN Destination(Top.line) ELSE After(Top.line))
Call   == /\ At({"call", "callHandler"})
          /\ frames' = Below \o
               << [Top EXCEPT !.line = After(Top.line)],
                  IF At({"call"}) THEN Enter(File[Top.line].name) ELSE Runtime >>
Return == At({"return"}) /\ frames' = Below

\* The handler runs slices, and answers the signal of the slice that called it.
RuntimeCalls   == InRuntime /\ Room /\ \E f \in Slices : frames' = Append(frames, Enter(f))
RuntimeReturns == InRuntime /\ frames' = [Below EXCEPT ![Len(Below)].signalled = FALSE]

Next == \/ Signal \/ Plain \/ Jump \/ TableJump \/ Test \/ JumpIfSignal
        \/ Call \/ Return \/ RuntimeCalls \/ RuntimeReturns

Spec == Init /\ [][Next]_frames
=============================================================================
