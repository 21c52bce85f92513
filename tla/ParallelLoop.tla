---------------------------- MODULE ParallelLoop ----------------------------
(***************************************************************************)
(* What a heartbeat loop promises its caller: the iterations of a DOALL    *)
(* loop run in some order, in groups nobody chose in advance, every one of *)
(* them exactly once, and control returns, with the value the serial loop  *)
(* would have computed, only when all of them have run.                    *)
(***************************************************************************)
EXTENDS Integers

CONSTANTS Iterations,    \* the iterations of the loop
          Before,        \* the reduction variable before the loop
          After          \* what the serial loop leaves in it

VARIABLES runs,          \* how many times each iteration has run
          result,        \* the reduction variable
          returned       \* the loop has given control back

vars == <<runs, result, returned>>

Init == /\ runs = [i \in Iterations |-> 0]
        /\ result = Before
        /\ returned = FALSE

\* A group of iterations runs; none of them has run before.
Run == \E group \in SUBSET {i \in Iterations : runs[i] = 0} :
          /\ ~returned
          /\ runs' = [i \in Iterations |-> IF i \in group THEN 1 ELSE runs[i]]
          /\ UNCHANGED <<result, returned>>

\* Control returns once nothing is left.
Return == /\ \A i \in Iterations : runs[i] = 1
          /\ ~returned
          /\ returned' = TRUE
          /\ result' = After
          /\ UNCHANGED runs

Next == Run \/ Return

Spec == Init /\ [][Next]_vars
=============================================================================
