------------------------------ MODULE MCSearch ------------------------------
(***************************************************************************)
(* The commit loop over the nodes of a small domain. A node is named by a  *)
(* number; Node gives its facts and network. What expansion and a rollout  *)
(* make of it comes from HtnDomain: expansion under Algorithm 2 with       *)
(* look-ahead, and the first leaf a randomised dive of MaxDepth may meet.  *)
(***************************************************************************)
EXTENDS Search, Solvability, MCDomain, SequencesExt

CONSTANT MaxDepth

\* A plan goes through good, whose two tasks are unordered. trap fails at its
\* last action, too deep for a dive of 3 steps from its first nodes to find out.
\* bad fails at once.
SFacts == {"x"}

SActionDefs ==
  [ a |-> Action(True, <<>>), fail |-> Action(Pos({"x"}), <<>>) ]

SMethodDefs ==
  [ top  |-> {Method("good", <<"a", "G">>, {}, 0),
              Method("trap", <<"T">>, {}, 0),
              Method("bad", <<"fail">>, {}, 0)},
    G    |-> {Method("pair", <<"H">>, {}, 0), Method("none", <<>>, {}, 0)},
    H    |-> {Method("stop", <<"fail">>, {}, 0), Method("step", <<"a">>, {}, 0)},
    T    |-> {Method("late", <<"a", "a", "a", "fail">>,
                     {<<1, 2>>, <<1, 3>>, <<1, 4>>, <<2, 3>>, <<2, 4>>, <<3, 4>>}, 0)} ]

First == [state |-> InitialFacts, net |-> InitialNetwork(Root)]

OfChild(d) == [state |-> d.state, net |-> d.net]

ExpandNode(c) == UNION {Children(c, i, TRUE) : i \in ExpansionCandidates(c.net, 2)}

\* Every node the search can commit to; no derivation is longer than 8 steps.
ReachedNodes ==
  LET reached[k \in 0 .. 8] ==
        IF k = 0 THEN {First}
        ELSE LET r == reached[k - 1]
             IN  r \cup UNION {{OfChild(d) : d \in ExpandNode(c)} : c \in r}
  IN  reached[8]

Node == FoldSet(LAMBDA c, s : Append(s, c), <<>>, ReachedNodes)

NumberOf(c) == CHOOSE k \in DOMAIN Node : Node[k] = c

MCStart == NumberOf(First)

MCNodes == DOMAIN Node

MCTasks(k) == Ids(Node[k].net)

MCNextTID(k) == Node[k].net.nextID

\* Tables, so that each is computed once.
Expansions ==
  {[ of |-> k,
     children |-> {[ node |-> NumberOf(OfChild(d)), prevTID |-> d.prevTID,
                     addedTIDs |-> d.addedTIDs, method |-> d.method ] : d \in ExpandNode(Node[k])} ]
     : k \in DOMAIN Node}

MCExpand(k) == (CHOOSE e \in Expansions : e.of = k).children

\* Some dive is still short of a plan after depth steps.
RECURSIVE Outlasts(_, _)
Outlasts(c, depth) ==
  /\ Ids(c.net) # {}
  /\ \/ depth = 0
     \/ \E i \in Free(c.net) : \E d \in Children(c, i, FALSE) : Outlasts(OfChild(d), depth - 1)

SolvableNodes == {NumberOf(c) : c \in {n \in ReachedNodes : Solvable(n, 8)}}

MCHasPlan(k) == k \in SolvableNodes

MaySolve  == {NumberOf(c) : c \in {n \in ReachedNodes : Solvable(n, MaxDepth)}}
MayCutOff == {NumberOf(c) : c \in {n \in ReachedNodes : Outlasts(n, MaxDepth)}}

MCOutcomes(k) ==
  {o \in {"Solved", "Cutoff", "Refuted"} :
     CASE o = "Solved" -> k \in MaySolve
       [] o = "Cutoff" -> k \in MayCutOff
       [] o = "Refuted" -> k \notin MaySolve \cup MayCutOff}
=============================================================================
