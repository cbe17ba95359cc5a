----------------------------- MODULE MCTimeline -----------------------------
(***************************************************************************)
(* Timeline over the domain of MCDomain, and the restrictions of the       *)
(* search space at every node of its branches.                             *)
(***************************************************************************)
EXTENDS Timeline, Solvability, MCDomain

\* No branch of the domain is longer than this.
Longest == 20

\* Whichever candidates a rollout or expansion narrows a solvable node to, and
\* with look-ahead or without, one of them still leads to a plan. So a subtree
\* exhausted under a restriction proves that there is no plan, which is what
\* lets seek_planMCTS mark the node dead (planner_doc.md 2.3.2, 5, 8.26).
RestrictionLosesNoPlan ==
  LET here == [state |-> state, net |-> net]
      kept(u) == \A lookahead \in BOOLEAN :
                   \E i \in u : \E d \in Children(here, i, lookahead) : Solvable(d, Longest)
  IN  Ids(net) # {} /\ Solvable(here, Longest) =>
        /\ \A restrict \in 0 .. 3 : \A u \in Candidates(net, restrict) : kept(u)
        /\ \A algorithm \in {2, 3} : kept(ExpansionCandidates(net, algorithm))
=============================================================================
