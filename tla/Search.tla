------------------------------- MODULE Search -------------------------------
(***************************************************************************)
(* The planner's commit loop: seek_planMCTS (lib/cpphop/cppMCTShop.h).     *)
(*                                                                         *)
(* For each decision a fresh Monte Carlo tree is grown from the current    *)
(* node until its budget ends, and the search commits to a live child of   *)
(* its root. With no live child it undoes the last commit. t holds the     *)
(* committed nodes, tasktree the decomposition they make.                  *)
(*                                                                         *)
(* What a node is (its facts and its task network) is left to the          *)
(* constants: Tasks gives the ids of its tasks, NextTID the id its network *)
(* gives to the next one, Expand its children, Outcomes what a rollout     *)
(* from it may return and HasPlan whether a plan completes it. Scores are  *)
(* abstracted: UCT and the max-child rule take any live child.             *)
(***************************************************************************)
EXTENDS Integers, Sequences, FiniteSets

CONSTANTS
  Nodes,          \* the nodes that can be reached
  Start,          \* the node of the problem
  RootTID,        \* the id of its one task
  Tasks(_),       \* the ids of the tasks of the node's network
  NextTID(_),     \* nextID of the node's network: above every id handed out so far
  Expand(_),      \* the children expansion makes of a node: a set of records
                  \* [node, prevTID, addedTIDs, method]
  Outcomes(_),    \* the statuses a rollout from the node may return
  HasPlan(_),     \* whether some plan completes the node
  MaxIterations,  \* the iterations a decision's budget allows at most
  Timed,          \* the budget is a time limit: it may end at any iteration
  MaxDecisions,   \* max_decisions
  StuckLimit,     \* consecutive backtracks that end the search (10)
  EarlyCommit     \* early_commit

VARIABLES
  pc,             \* where the loop is; "done" and "failed" end it
  t, v,           \* the committed nodes by id, and the current one
  next_node_id,
  tasktree,       \* task id -> [method, children]
  undo_stack,     \* one [parent_TID, added_TIDs] for each commit
  stuck_counter, decisions,
  tree,           \* this decision's tree. The code numbers its nodes in the
                  \* order they are made and none is ever removed; here a node
                  \* is named by the children taken to it from the root, <<>>
  here,           \* the node of tree the iteration is at
  iterations,
  verdict         \* why the search failed

vars == <<pc, t, v, next_node_id, tasktree, undo_stack, stuck_counter, decisions,
          tree, here, iterations, verdict>>

committed == <<t, v, next_node_id, tasktree, undo_stack, stuck_counter, decisions>>

NoTID == -1
NoPred == -1

\* What expansion makes of a node: a decomposition replaces a task of the node by
\* subtasks with ids that have not been handed out, an action only removes a task.
ASSUME ExpandAssumption ==
  /\ Start \in Nodes /\ Tasks(Start) = {RootTID} /\ RootTID \in 0 .. NextTID(Start) - 1
  /\ \A c \in Nodes :
       /\ NextTID(c) \in Nat
       /\ \A d \in Expand(c) :
            /\ d.node \in Nodes /\ NextTID(c) <= NextTID(d.node)
            /\ d.prevTID \in Tasks(c) \cup {NoTID}
            /\ d.addedTIDs \subseteq NextTID(c) .. NextTID(d.node) - 1
            /\ Tasks(d.node) \subseteq (Tasks(c) \ {d.prevTID}) \cup d.addedTIDs

\* A task no committed step has decomposed.
Leaf == [method |-> "", children |-> {}]

Complete(c) == Tasks(c) = {}

\* What the search relies on: the candidates of expansion lose no plan, and a
\* rollout refutes a node only with a proof.
ASSUME PlanAssumption ==
  \A c \in Nodes :
    /\ HasPlan(c) => Complete(c) \/ \E d \in Expand(c) : HasPlan(d.node)
    /\ "Refuted" \in Outcomes(c) => ~ HasPlan(c)

\* A node of tree: what is searched from it, and what the search knows. successors
\* are its children that have been visited, unexplored the others; visited is
\* sims > 0.
TreeNode(c) ==
  [ node |-> c, deadend |-> FALSE, visited |-> FALSE, successors |-> {}, unexplored |-> {} ]

TreeRoot == <<>>

TreeOf(c) == [n \in {TreeRoot} |-> TreeNode(c)]

LastOf(n) == n[Len(n)]

Live(n) == {w \in tree[n].successors : ~ tree[w].deadend}

---------------------------------------------------------------------------
Init ==
  /\ pc = "decide"
  /\ t = [n \in {0} |-> [node |-> Start, pred |-> NoPred, successors |-> {}]]
  /\ v = 0 /\ next_node_id = 1
  /\ tasktree = [i \in {RootTID} |-> Leaf]
  /\ undo_stack = <<>>
  /\ stuck_counter = StuckLimit /\ decisions = 0
  /\ tree = TreeOf(Start) /\ here = TreeRoot /\ iterations = 0
  /\ verdict = "none"

\* The loop condition of seek_planMCTS: a complete network ends the search.
PlanFound ==
  /\ pc = "decide" /\ Complete(t[v].node)
  /\ pc' = "done"
  /\ UNCHANGED <<committed, tree, here, iterations, verdict>>

\* A new decision: a tree with the current node as its root.
Decide ==
  /\ pc = "decide" /\ ~ Complete(t[v].node)
  /\ pc' = "budget"
  /\ tree' = TreeOf(t[v].node) /\ here' = TreeRoot /\ iterations' = 0
  /\ UNCHANGED <<committed, verdict>>

\* The budget allows another iteration, which starts at the root.
Iterate ==
  /\ pc = "budget" /\ iterations < MaxIterations
  /\ pc' = "select"
  /\ iterations' = iterations + 1 /\ here' = TreeRoot
  /\ UNCHANGED <<committed, tree, verdict>>

\* A time limit is first looked at when no time has passed: one iteration runs.
BudgetEnds ==
  /\ pc = "budget" /\ iterations > 0 /\ (Timed \/ iterations = MaxIterations)
  /\ pc' = "choose"
  /\ UNCHANGED <<committed, tree, here, iterations, verdict>>

---------------------------------------------------------------------------
\* selection, one node of the descent at a time. unexplored is shuffled, so
\* the child taken from its back is any of them.
Promote(w) ==
  /\ pc = "select" /\ w \in tree[here].unexplored
  /\ tree' = [tree EXCEPT ![here].unexplored = @ \ {w}, ![here].successors = @ \cup {w}]
  /\ here' = w /\ pc' = "visit"
  /\ UNCHANGED <<committed, iterations, verdict>>

Descend(w) ==
  /\ pc = "select" /\ tree[here].unexplored = {} /\ ~ tree[here].deadend
  /\ w \in Live(here)
  /\ here' = w
  /\ UNCHANGED <<pc, committed, tree, iterations, verdict>>

\* Mutant of MarkDead: the descent starts again without marking the node.
MarkNothing ==
  /\ pc = "select" /\ tree[here].unexplored = {} /\ ~ tree[here].deadend
  /\ tree[here].successors # {} /\ Live(here) = {}
  /\ here' = TreeRoot
  /\ UNCHANGED <<pc, committed, tree, iterations, verdict>>

\* Every child is dead: so is the node, and the descent starts again.
MarkDead ==
  /\ pc = "select" /\ tree[here].unexplored = {} /\ ~ tree[here].deadend
  /\ tree[here].successors # {} /\ Live(here) = {}
  /\ tree' = [tree EXCEPT ![here].deadend = TRUE]
  /\ here' = TreeRoot
  /\ UNCHANGED <<pc, committed, iterations, verdict>>

\* A leaf is selected, or the root when it is dead.
Select ==
  /\ pc = "select" /\ tree[here].unexplored = {}
  /\ tree[here].successors = {} \/ tree[here].deadend
  /\ pc' = "visit"
  /\ UNCHANGED <<committed, tree, here, iterations, verdict>>

---------------------------------------------------------------------------
\* selection hands back a dead node only when the root is dead: stop.
RootDead ==
  /\ pc = "visit" /\ tree[here].deadend
  /\ pc' = "choose"
  /\ UNCHANGED <<committed, tree, here, iterations, verdict>>

\* A complete plan is scored without a rollout.
VisitPlan ==
  /\ pc = "visit" /\ ~ tree[here].deadend /\ Complete(tree[here].node)
  /\ pc' = "settle"
  /\ tree' = [tree EXCEPT ![here].visited = TRUE]
  /\ UNCHANGED <<committed, here, iterations, verdict>>

\* The first visit to a node only rolls out from it.
VisitNew ==
  /\ pc = "visit" /\ ~ tree[here].deadend /\ ~ Complete(tree[here].node) /\ ~ tree[here].visited
  /\ pc' = "rollout"
  /\ UNCHANGED <<committed, tree, here, iterations, verdict>>

\* Mutant of VisitExpand: only the child that is visited is kept.
VisitExpandOne ==
  LET new == {Append(here, d) : d \in Expand(tree[here].node)} IN
  /\ pc = "visit" /\ ~ tree[here].deadend /\ ~ Complete(tree[here].node) /\ tree[here].visited
  /\ pc' = "rollout"
  /\ \/ new = {} /\ tree' = [tree EXCEPT ![here].deadend = TRUE] /\ here' = here
     \/ \E r \in new :
          /\ tree' = [n \in DOMAIN tree \cup {r} |->
                    IF n = r THEN TreeNode(LastOf(n).node)
                    ELSE IF n = here THEN [tree[here] EXCEPT !.successors = {r}]
                    ELSE tree[n]]
          /\ here' = r
  /\ UNCHANGED <<committed, iterations, verdict>>

\* expansion: all children are made at once and one of them, r, is visited; a
\* node without any is dead, and is itself rolled out from again.
VisitExpand ==
  LET new == {Append(here, d) : d \in Expand(tree[here].node)} IN
  /\ pc = "visit" /\ ~ tree[here].deadend /\ ~ Complete(tree[here].node) /\ tree[here].visited
  /\ pc' = "rollout"
  /\ \/ new = {} /\ tree' = [tree EXCEPT ![here].deadend = TRUE] /\ here' = here
     \/ \E r \in new :
          /\ tree' = [n \in DOMAIN tree \cup new |->
                    IF n \in new THEN TreeNode(LastOf(n).node)
                    ELSE IF n = here THEN [tree[here] EXCEPT !.successors = {r}, !.unexplored = new \ {r}]
                    ELSE tree[n]]
          /\ here' = r
  /\ UNCHANGED <<committed, iterations, verdict>>

\* Mutant of Rollout: a cutoff marks the node dead too.
RolloutRefutes ==
  \E outcome \in Outcomes(tree[here].node) :
    /\ pc = "rollout"
    /\ pc' = "settle"
    /\ tree' = [tree EXCEPT ![here].visited = TRUE,
                            ![here].deadend = @ \/ outcome # "Solved"]
    /\ UNCHANGED <<committed, here, iterations, verdict>>

\* The rollouts of a visit, of which the first that is not Solved decides: a
\* refutation marks the node dead, a cutoff only counts against its value.
Rollout ==
  \E outcome \in Outcomes(tree[here].node) :
    /\ pc = "rollout"
    /\ pc' = "settle"
    /\ tree' = [tree EXCEPT ![here].visited = TRUE,
                      ![here].deadend = @ \/ outcome = "Refuted"]
    /\ UNCHANGED <<committed, here, iterations, verdict>>

\* All of the root's children have been generated and one is not refuted.
Forced ==
  /\ tree[TreeRoot].unexplored = {}
  /\ \E w \in Live(TreeRoot) : Live(TreeRoot) = {w}

Settle ==
  /\ pc = "settle"
  /\ pc' = IF EarlyCommit /\ Forced THEN "choose" ELSE "budget"
  /\ UNCHANGED <<committed, tree, here, iterations, verdict>>

---------------------------------------------------------------------------
\* What a commit to child d of a node adds to the task tree and to the undo
\* stack.
Grow(tt, d) ==
  [i \in DOMAIN tt \cup d.addedTIDs |->
     IF i \in d.addedTIDs THEN Leaf
     ELSE IF i = d.prevTID
          THEN [method |-> d.method, children |-> tt[i].children \cup d.addedTIDs]
          ELSE tt[i]]

Commit(s) ==
  LET d == LastOf(s)
      y == next_node_id
  IN  /\ pc = "choose" /\ s \in Live(TreeRoot) /\ decisions < MaxDecisions
      /\ t' = [n \in DOMAIN t \cup {y} |->
                 IF n = y THEN [node |-> d.node, pred |-> v, successors |-> {}]
                 ELSE IF n = v THEN [t[v] EXCEPT !.successors = @ \cup {y}] ELSE t[n]]
      /\ tasktree' = Grow(tasktree, d)
      /\ undo_stack' = Append(undo_stack, [parent_TID |-> d.prevTID, added_TIDs |-> d.addedTIDs])
      /\ v' = y /\ next_node_id' = y + 1
      /\ stuck_counter' = StuckLimit /\ decisions' = decisions + 1
      /\ pc' = "decide"
      /\ UNCHANGED <<tree, here, iterations, verdict>>

\* One commit too many: the loop is very unlikely to be making progress.
DecisionLimit ==
  /\ pc = "choose" /\ Live(TreeRoot) # {} /\ decisions >= MaxDecisions
  /\ pc' = "failed" /\ verdict' = "decisions"
  /\ stuck_counter' = StuckLimit /\ decisions' = decisions + 1
  /\ UNCHANGED <<t, v, next_node_id, tasktree, undo_stack, tree, here, iterations>>

\* Mutant of Retract: the subtasks stay in the tree.
RetractKeepTasks(tt, undo) ==
  [i \in DOMAIN tt |->
     IF i = undo.parent_TID
     THEN [method |-> "", children |-> tt[i].children \ undo.added_TIDs] ELSE tt[i]]

\* The task tree without what the commit of `undo` added.
Retract(tt, undo) ==
  [i \in DOMAIN tt \ undo.added_TIDs |->
     IF i = undo.parent_TID
     THEN [method |-> "", children |-> tt[i].children \ undo.added_TIDs] ELSE tt[i]]

\* No live child, and a commit to undo: v is erased and its parent is decided
\* again, unless this was one backtrack too many in a row.
Backtrack ==
  LET u == t[v].pred
      undo == undo_stack[Len(undo_stack)]
  IN  /\ pc = "choose" /\ Live(TreeRoot) = {} /\ u # NoPred
      /\ t' = [n \in DOMAIN t \ {v} |->
                 IF n = u THEN [t[u] EXCEPT !.successors = @ \ {v}] ELSE t[n]]
      /\ v' = u
      /\ IF undo_stack = <<>> THEN UNCHANGED <<tasktree, undo_stack>>
         ELSE /\ tasktree' = Retract(tasktree, undo)
              /\ undo_stack' = SubSeq(undo_stack, 1, Len(undo_stack) - 1)
      /\ stuck_counter' = stuck_counter - 1
      /\ IF stuck_counter - 1 <= 0 THEN pc' = "failed" /\ verdict' = "stuck"
                                   ELSE pc' = "decide" /\ UNCHANGED verdict
      /\ UNCHANGED <<next_node_id, decisions, tree, here, iterations>>

\* No live child at the root: the two messages the planner distinguishes.
RootFails ==
  /\ pc = "choose" /\ Live(TreeRoot) = {} /\ t[v].pred = NoPred
  /\ pc' = "failed"
  /\ verdict' = IF tree[TreeRoot].successors = {} /\ ~ tree[TreeRoot].deadend THEN "budget" ELSE "no_plan"
  /\ UNCHANGED <<committed, tree, here, iterations>>

---------------------------------------------------------------------------
Next ==
  \/ PlanFound \/ Decide \/ Iterate \/ BudgetEnds
  \/ \E w \in tree[here].unexplored : Promote(w)
  \/ \E w \in tree[here].successors : Descend(w)
  \/ MarkDead \/ Select \/ RootDead \/ VisitPlan \/ VisitNew \/ VisitExpand \/ Rollout \/ Settle
  \/ \E s \in tree[TreeRoot].successors : Commit(s)
  \/ DecisionLimit \/ Backtrack \/ RootFails

Spec == Init /\ [][Next]_vars

\* One thread runs the loop.
FairSpec == Spec /\ WF_vars(Next)

---------------------------------------------------------------------------
(***************************************************************************)
(* Properties.                                                             *)
(***************************************************************************)

\* The committed node k commits below the root, and its id.
PathId(k) == CHOOSE n \in DOMAIN t : Cardinality({l \in DOMAIN t : l < n}) = k

\* However often the search backtracks, the path is a derivation from the start
\* node, and the task tree holds exactly the decompositions of that derivation:
\* each task it decomposed has its method and its subtasks, each other task is
\* an undecomposed leaf, and no task of a commit that was undone remains.
TaskTreeIsDerivation ==
  /\ \A k \in DOMAIN undo_stack :
       LET undo == undo_stack[k] IN
       \E d \in Expand(t[PathId(k - 1)].node) :
         /\ d.node = t[PathId(k)].node
         /\ d.prevTID = undo.parent_TID /\ d.addedTIDs = undo.added_TIDs
         /\ d.prevTID # NoTID =>
              tasktree[d.prevTID] = [method |-> d.method, children |-> d.addedTIDs]
  /\ DOMAIN tasktree = {RootTID} \cup UNION {undo_stack[k].added_TIDs : k \in DOMAIN undo_stack}
  /\ \A i \in DOMAIN tasktree \ {undo_stack[k].parent_TID : k \in DOMAIN undo_stack} :
       tasktree[i] = Leaf

\* A node the search has marked dead has no plan: it was refuted by a rollout, or
\* expansion made it no child, or each child is dead. A rollout cut off at the
\* depth bound marks nothing (RolloutStatus, planner_doc.md 2.4).
DeadendIsProof == \A n \in DOMAIN tree : tree[n].deadend => ~ HasPlan(tree[n].node)

\* The budget may end before every child of the root was visited, and the search
\* then goes on as if all had been refuted. When it gives up a node that has a
\* plan, undoing a commit or failing, the plan is through a child it never
\* visited, or the node was never expanded, and then it does not say that there
\* is no plan.
GivesUpUnvisited ==
  [][(Backtrack \/ RootFails) /\ HasPlan(t[v].node) =>
       \/ \E w \in tree[TreeRoot].unexplored : HasPlan(tree[w].node)
       \/ tree[TreeRoot].successors = {} /\ ~ tree[TreeRoot].deadend /\ verdict' # "no_plan"]_vars

\* The loop ends: with a plan, or by one of the ways it gives up.
SearchEnds == <>(pc \in {"done", "failed"})
=============================================================================
