-------------------------- MODULE MCLoopArithmetic --------------------------
(***************************************************************************)
(* Instances of LoopArithmetic for TLC.                                    *)
(***************************************************************************)
EXTENDS LoopArithmetic

\* The words that stand for themselves whether they are signed or not.
NonNegative == 0 .. Half - 1
Positive    == 1 .. Half - 1
=============================================================================
