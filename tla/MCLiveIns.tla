------------------------------ MODULE MCLiveIns -----------------------------
(***************************************************************************)
(* Bounds of loops for the model checker.                                  *)
(***************************************************************************)
EXTENDS LiveIns

Counted(e, s) == [start |-> Const, exit |-> e, smax |-> s]

\* Counted loops up to a constant or to the maximum of an argument and a
\* constant, and a loop over a range, such as a row of a sparse matrix.
ThreeBounds == {Counted(Const, FALSE), Counted(1, TRUE),
                [start |-> 1, exit |-> 2, smax |-> FALSE]}
SecondArgument == {2}
=============================================================================
