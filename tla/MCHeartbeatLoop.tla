--------------------------- MODULE MCHeartbeatLoop --------------------------
(***************************************************************************)
(* Instances of HeartbeatLoop for TLC.                                     *)
(***************************************************************************)
EXTENDS HeartbeatLoop, TLC

CONSTANTS t0, t1, t2, t3, t4

FiveTasks == {t0, t1, t2, t3, t4}

\* The reduction variable starts at a value that is not the identity.
MCInitialValue == [i \in Iter |-> 3]

\* A value no sum of the model reaches, so that reading it is always noticed.
MCGarbage == [i \in Iter |-> 9]

\* Fresh tasks are interchangeable.
FreshTasks == Permutations(Task \ {Root})
=============================================================================
