--------------------------- MODULE MCHeartbeatPass --------------------------
(***************************************************************************)
(* Programs and options for the model checker.                             *)
(***************************************************************************)
EXTENDS HeartbeatPass, MCLoopNests

AllOptions ==
  [disable : BOOLEAN, rollforward : BOOLEAN, chunk : BOOLEAN, run : BOOLEAN]
PlainBuild == {[disable |-> FALSE, rollforward |-> FALSE, chunk |-> TRUE, run |-> TRUE]}

\* Programs in which a leaf may have a live-out.
LeafLiveOuts ==
  UNION {{ProgramOf(Loop, "plain", c, out) : out \in {{}, Innermost(Loop, c)}} :
         c \in Chains(Loop)}

\* Programs in which any loop may have a live-out, such as a sum over rows.
AnyLiveOuts ==
  {ProgramOf(Loop, "plain", c, out) : c \in Chains(Loop), out \in SUBSET Loop}
=============================================================================
