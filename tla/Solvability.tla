---------------------------- MODULE Solvability ----------------------------
(***************************************************************************)
(* The reference the search's proofs of dead ends are compared with: does  *)
(* a plan complete a node when every unconstrained task and every binding  *)
(* is tried? Evaluated by TLC only.                                        *)
(***************************************************************************)
EXTENDS HtnDomain

\* Some plan completes node c within `depth` further steps. A plan repeats no
\* node usefully, so a depth beyond the number of nodes is no restriction.
RECURSIVE Solvable(_, _)
Solvable(c, depth) ==
  \/ Ids(c.net) = {}
  \/ /\ depth > 0
     /\ \E i \in Free(c.net) : \E d \in Children(c, i, FALSE) : Solvable(d, depth - 1)
=============================================================================
