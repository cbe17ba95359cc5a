----------------------------- MODULE HtnDomain -----------------------------
(***************************************************************************)
(* A ground HTN domain as the planner sees it after loading, and the       *)
(* successors of a search node: which unconstrained tasks a searcher       *)
(* considers, when an action applies, and what applying or decomposing a   *)
(* task leaves. simulation and expansion (lib/cpphop/cppMCTShop.h) both    *)
(* generate their successors from these.                                   *)
(*                                                                         *)
(* A node is the facts that hold, the task network and, kept by the        *)
(* modules that need it, the plan so far.                                  *)
(***************************************************************************)
EXTENDS TaskNetwork, Integers, FiniteSets, FiniteSetsExt

CONSTANTS
  Facts,         \* ground facts
  ActionDefs,    \* head -> [pre, effects, artificial]
  MethodDefs,    \* compound head -> its methods, one record per binding
  Root,          \* the head of the problem's initial task
  InitialFacts,  \* the facts of :init
  Mode           \* how a method precondition is read: PreconditionMode

\* prevTID of a node no decomposition made: no task has this id.
NoTask == -1

Actions  == DOMAIN ActionDefs
Compound == DOMAIN MethodDefs

\* What the loader and the validator guarantee of a method: its subtasks are
\* known, its orderings are between its subtasks and have no cycle, and its
\* precondition task, an artificial action, precedes every other subtask.
WellFormedMethod(m) ==
  /\ m.subtasks \in Seq(Actions \cup Compound)
  /\ m.orderings \subseteq Positions(m) \X Positions(m)
  /\ \A S \in SUBSET Positions(m) :
       S # {} => \E p \in S : \A q \in S : <<q, p>> \notin m.orderings
  /\ m.mprec \in {0} \cup Positions(m)
  /\ m.mprec # 0 => /\ m.subtasks[m.mprec] \in Actions /\ ActionDefs[m.subtasks[m.mprec]].artificial
                    /\ \A q \in Positions(m) \ {m.mprec} : <<m.mprec, q>> \in m.orderings

ASSUME DomainAssumption ==
  /\ InitialFacts \subseteq Facts
  /\ Mode \in Modes
  /\ Root \in Compound
  /\ \A t \in Compound : \A m \in MethodDefs[t] : WellFormedMethod(m)

---------------------------------------------------------------------------
\* A condition is a set of facts required to hold and a set required not to.
Holds(c, s) == c.pos \subseteq s /\ c.neg \cap s = {}

\* ActionDef::apply_binding: the effects are applied one after another, and
\* the condition of an effect is evaluated in the state the earlier ones left.
NewState(s, a) ==
  LET effects == ActionDefs[a].effects
      kb[k \in 0 .. Len(effects)] ==
        IF k = 0 THEN s
        ELSE LET e == effects[k] IN
             IF ~ Holds(e.when, kb[k - 1]) THEN kb[k - 1]
             ELSE IF e.remove THEN kb[k - 1] \ {e.fact} ELSE kb[k - 1] \cup {e.fact}
  IN  kb[Len(effects)]

IsAction(n, i)   == n.gts[i].head \in Actions
IsCompound(n, i) == n.gts[i].head \in Compound \ Actions
IsReal(n, i)     == ~ ActionDefs[n.gts[i].head].artificial

CheckHolds(chk, s) == Holds(ActionDefs[chk.action].pre, s)

\* Mutant of first_action_ok: a check that has passed is never made again.
first_action_ok_once(n, i, s) ==
  \A k \in checks_of(n, i) :
    n.checks[k].consumed \/ n.checks[k].established \/ CheckHolds(n.checks[k], s)

\* mprec::first_action_ok: i would be the first real action of every method
\* whose check it carries and that is not consumed; each must hold now. A
\* check that passed since the last real action is not evaluated again.
first_action_ok(n, i, s) ==
  \A k \in checks_of(n, i) :
    \/ n.checks[k].consumed
    \/ n.checks[k].established /\ n.checks[k].established_at = n.step
    \/ CheckHolds(n.checks[k], s)

\* Mutant of links_intact: a link is open only while its check task waits.
links_intact_check_only(n, own, s) ==
  \A k \in {n.tags[j].establishes : j \in DOMAIN n.tags} \ (own \cup {0}) :
    n.checks[k].established /\ ~ n.checks[k].consumed => CheckHolds(n.checks[k], s)

\* mprec::links_intact: in the network n and the state s that a real action
\* carrying the checks own has left, every open link of another method holds.
links_intact(n, own, s) ==
  \A k \in (UNION {n.tags[j].checks : j \in DOMAIN n.tags}) \ own :
    n.checks[k].established /\ ~ n.checks[k].consumed => CheckHolds(n.checks[k], s)

\* Mutant of AfterAction: the checks are kept in at_start mode only.
AfterActionAtStart(n, i) ==
  IF Mode # "at_start" THEN RemoveNode(n, i)
  ELSE Record(RemoveNode(n, i), IsReal(n, i), checks_of(n, i), establishes_of(n, i))

\* The network after action i has been applied and removed.
AfterAction(n, i) ==
  IF Mode = "compiled" THEN RemoveNode(n, i)
  ELSE Record(RemoveNode(n, i), IsReal(n, i), checks_of(n, i), establishes_of(n, i))

\* Mutant of ActionApplies: where checks are made at the first action, the check
\* task always passes.
ActionAppliesLate(s, n, i) ==
  IF Mode # "compiled" /\ ~ IsReal(n, i) THEN TRUE
  ELSE first_action_ok(n, i, s) /\ Holds(ActionDefs[n.gts[i].head].pre, s)

\* Whether the search makes a successor for action i.
ActionApplies(s, n, i) ==
  LET a == n.gts[i].head IN
  /\ Mode # "compiled" /\ IsReal(n, i) => first_action_ok(n, i, s)
  /\ Holds(ActionDefs[a].pre, s)
  /\ Mode = "protected" /\ IsReal(n, i)
       => links_intact(AfterAction(n, i), checks_of(n, i), NewState(s, a))

---------------------------------------------------------------------------
(***************************************************************************)
(* Which steps a searcher considers. restrict is simulation's              *)
(* restrict_compound; expansion uses 1, or 3 under Algorithm 3 with the    *)
(* lowest compound task. Several sets are possible where the pick of the   *)
(* compound task is random.                                                *)
(***************************************************************************)
Candidates(n, restrict) ==
  LET free     == Free(n)
      actions  == {i \in free : IsAction(n, i)}
      compound == {i \in free : IsCompound(n, i)}
  IN  IF restrict = 0 \/ compound = {} THEN {free}
      ELSE IF restrict = 1 THEN {actions \cup {Min(compound)}}
      ELSE IF restrict = 2 THEN {actions \cup {i} : i \in compound}
      ELSE {{i} : i \in compound}

\* The candidates of expansion under Algorithm 2 or 3.
ExpansionCandidates(n, algorithm) ==
  LET free     == Free(n)
      compound == {i \in free : IsCompound(n, i)}
  IN  IF compound = {} THEN free
      ELSE IF algorithm = 3 THEN {Min(compound)}
      ELSE (free \ compound) \cup {Min(compound)}

\* lookahead::holds: the precondition of the method holds in s.
LookaheadHolds(m, s) == m.mprec = 0 \/ Holds(ActionDefs[m.subtasks[m.mprec]].pre, s)

\* Mutant of may_prune: a binding that fails now is always dropped.
may_prune_always(free) == free > 0

\* lookahead::may_prune, of the number of unconstrained tasks.
may_prune(free) == free = 1

\* The methods a searcher grounds for compound task i: without look-ahead all
\* of them, with it all but those that provably cannot hold.
Groundable(s, n, i, lookahead) ==
  {m \in MethodDefs[n.gts[i].head] :
     lookahead /\ may_prune(Cardinality(Free(n))) => LookaheadHolds(m, s)}

\* The pNode expansion makes for each way of progressing task i of the node c:
\* what it adds to the plan, and for a decomposition the task, the ids of the
\* subtasks and the method, for the task tree.
ActionChildren(c, i) ==
  IF ~ ActionApplies(c.state, c.net, i) THEN {}
  ELSE LET a == c.net.gts[i].head IN
       {[ state     |-> IF IsReal(c.net, i) THEN NewState(c.state, a) ELSE c.state,
          net       |-> AfterAction(c.net, i),
          step      |-> IF IsReal(c.net, i) THEN << <<a, i>> >> ELSE <<>>,
          prevTID   |-> NoTask,
          addedTIDs |-> {},
          method    |-> "" ]}

MethodChild(c, i, m) ==
  [ state     |-> c.state,
    net       |-> Ground(m, c.net, i, Mode),
    step      |-> <<>>,
    prevTID   |-> i,
    addedTIDs |-> AddedTIDs(m, c.net),
    method    |-> m.name ]

Children(c, i, lookahead) ==
  IF IsAction(c.net, i) THEN ActionChildren(c, i)
  ELSE {MethodChild(c, i, m) : m \in Groundable(c.state, c.net, i, lookahead)}
=============================================================================
