---------------------------- MODULE Progression ----------------------------
(***************************************************************************)
(* Progression search: one branch of the planner's search, from the        *)
(* initial network to a complete plan or a dead end. A step takes any      *)
(* unconstrained task and, if it is an action, applies it; if it is        *)
(* compound, replaces it by the subtasks of one of its methods under one   *)
(* binding. Every branch of a rollout or of the search tree is such a      *)
(* branch: a searcher only narrows the choice.                             *)
(***************************************************************************)
EXTENDS HtnDomain

VARIABLES
  state,         \* the facts that hold
  net,           \* the task network
  plan           \* the real actions applied so far, as <<head, task id>>

vars == <<state, net, plan>>

---------------------------------------------------------------------------
Init ==
  /\ state = InitialFacts
  /\ net   = InitialNetwork(Root)
  /\ plan  = <<>>

\* A synthesised precondition task: a search step, not a plan step.
RunCheck(i) ==
  /\ IsAction(net, i) /\ ~ IsReal(net, i)
  /\ ActionApplies(state, net, i)
  /\ net' = AfterAction(net, i)
  /\ UNCHANGED <<state, plan>>

RunAction(i) ==
  /\ IsAction(net, i) /\ IsReal(net, i)
  /\ ActionApplies(state, net, i)
  /\ state' = NewState(state, net.gts[i].head)
  /\ net'   = AfterAction(net, i)
  /\ plan'  = Append(plan, <<net.gts[i].head, i>>)

Decompose(i, m) ==
  /\ net' = Ground(m, net, i, Mode)
  /\ UNCHANGED <<state, plan>>

Next ==
  \E i \in Free(net) :
    \/ RunCheck(i)
    \/ RunAction(i)
    \/ IsCompound(net, i) /\ \E m \in MethodDefs[net.gts[i].head] : Decompose(i, m)

Spec == Init /\ [][Next]_vars

---------------------------------------------------------------------------
\* The network is one, and the plan lists actions with ids the network has used.
TypeOK ==
  /\ IsNetwork(net, Actions \cup Compound)
  /\ plan \in Seq(Actions \X (0 .. net.nextID - 1))

\* Every edge of the network is listed at both of its ends, although decomposing
\* rewires the edges of tasks the method does not know. (TaskGraph::mut throws
\* on an edge to a task that is gone.)
EdgesMirrored == Mirrored(net)

\* No set of tasks waits on itself. So while tasks remain one is unconstrained,
\* and simulation's refutation of a network with no unconstrained task is never
\* taken for a domain whose orderings the validator accepted.
OrderingsAcyclic == Acyclic(net)
=============================================================================
