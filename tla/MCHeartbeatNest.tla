--------------------------- MODULE MCHeartbeatNest --------------------------
(***************************************************************************)
(* Instances of HeartbeatNest for TLC: the nests are irregular, with empty *)
(* rows, rows that do not start at 0 and rows of different lengths.        *)
(***************************************************************************)
EXTENDS HeartbeatNest, TLC

Loop(first, last) == [first |-> first, last |-> last]

\* Two planes: rows of two iterations (from 1) and of none, a row of three.
Planes ==
  (<<>> :> Loop(0, 2)) @@
  (<<0>> :> Loop(0, 2)) @@ (<<1>> :> Loop(1, 2)) @@
  (<<0, 0>> :> Loop(1, 3)) @@ (<<0, 1>> :> Loop(0, 0)) @@ (<<1, 1>> :> Loop(0, 3))
=============================================================================
