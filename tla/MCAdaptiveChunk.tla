--------------------------- MODULE MCAdaptiveChunk --------------------------
(***************************************************************************)
(* Instances of AdaptiveChunk for TLC.                                     *)
(***************************************************************************)
EXTENDS AdaptiveChunk, TLC

CONSTANTS t0, t1, t2, t3, t4, w0, w1

FiveTasks  == {t0, t1, t2, t3, t4}
TwoWorkers == {w0, w1}

\* Fresh tasks are interchangeable, and so are workers.
FreshTasks == Permutations(Task \ {Root})
Workers    == Permutations(Worker)
Symmetry   == FreshTasks \cup Workers
=============================================================================
