---------------------------- MODULE ParallelNest ----------------------------
(***************************************************************************)
(* What a nest of heartbeat loops promises its caller.  An iteration is    *)
(* named by the sequence of its indices, outermost first; the iterations   *)
(* of a nested loop belong to the iteration that calls it.  An iteration   *)
(* starts once, after the one it belongs to; what follows the nested loop  *)
(* in an iteration (its tail) runs once, after everything that belongs to  *)
(* it, and is given the result of the whole nested loop.                   *)
(***************************************************************************)
EXTENDS Naturals, Sequences

CONSTANTS Iterations,    \* of every level
          Outer,         \* the iterations that call a nested loop
          Whole(_)       \* the result of the loop called by an outer iteration

VARIABLES started,       \* how many times each iteration has started
          tail,          \* the results each outer iteration's tail has been given
          returned       \* the nest has given control back

vars == <<started, tail, returned>>

Parent(c)   == SubSeq(c, 1, Len(c) - 1)
Ended(c)    == started[c] = 1 /\ (c \in Outer => tail[c] # <<>>)
AllUnder(c) == \A d \in Iterations : Parent(d) = c => Ended(d)

Init == /\ started = [c \in Iterations |-> 0]
        /\ tail = [c \in Outer |-> <<>>]
        /\ returned = FALSE

\* A group of iterations starts; those they belong to have started, not ended.
Start ==
  LET group == {c \in Iterations : started'[c] # started[c]} IN
    /\ \A c \in group :
         /\ started[c] = 0
         /\ Parent(c) \in Outer => started[Parent(c)] = 1 /\ tail[Parent(c)] = <<>>
    /\ started' = [c \in Iterations |-> IF c \in group THEN 1 ELSE started[c]]
    /\ UNCHANGED <<tail, returned>>

\* The tail of an iteration, once everything under it has ended.
Conclude(c) ==
  /\ started[c] = 1 /\ tail[c] = <<>>
  /\ AllUnder(c)
  /\ tail' = [tail EXCEPT ![c] = <<Whole(c)>>]
  /\ UNCHANGED <<started, returned>>

\* Control returns once nothing is left.
Return ==
  /\ ~returned
  /\ \A c \in Iterations : Ended(c)
  /\ returned' = TRUE
  /\ UNCHANGED <<started, tail>>

Next ==
  \/ Start
  \/ \E c \in Outer : Conclude(c)
  \/ Return

Spec == Init /\ [][Next]_vars
=============================================================================
