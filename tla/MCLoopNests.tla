----------------------------- MODULE MCLoopNests ----------------------------
(***************************************************************************)
(* All programs of N loops in which every outlined loop calls at most one  *)
(* other: any number of nests of any depth, in any order of addresses.     *)
(***************************************************************************)
EXTENDS LoopNests

\* The loops met on the way up from l, with None from above the root on.
Above(caller, l) ==
  LET f[k \in 0..N] == IF k = 0 THEN l
                       ELSE LET up == f[k - 1] IN IF up = None THEN None ELSE caller[up]
  IN f

Chains(L) ==
  {c \in [Loop -> L \cup {None}] :
     /\ \A l \in Loop \ L : c[l] = None
     /\ \A l, m \in L : c[l] = c[m] /\ c[l] # None => l = m
     /\ \A l \in L : Above(c, l)[N] = None}

Depth(c, l) == Cardinality({k \in 1..N : Above(c, l)[k] # None})

ProgramOf(L, other, c, out) ==
  [kind    |-> [l \in Loop |-> IF l \in L THEN "outlined" ELSE other],
   caller  |-> c,
   depth   |-> [l \in Loop |-> Depth(c, l)],
   root    |-> [l \in Loop |-> Above(c, l)[Depth(c, l)]],
   liveOut |-> out]

\* The innermost loops of their nests.
Innermost(L, c) == {l \in L : \A m \in L : c[m] # l}

Outlined == {Loop} \cup {Loop \ {l} : l \in {1, N}}

AnyNests == UNION {{ProgramOf(L, other, c, {}) : c \in Chains(L), other \in {"inner", "plain"}} :
                   L \in Outlined}
=============================================================================
