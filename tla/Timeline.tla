------------------------------ MODULE Timeline ------------------------------
(***************************************************************************)
(* What a method precondition means on a branch of the search, stated over *)
(* the branch's history instead of over the planner's check bookkeeping,   *)
(* and compared with what the bookkeeping lets through.                    *)
(*                                                                         *)
(* Two history variables are added to Progression: every step that applied *)
(* a task, with the state before it, and every method decomposed so far,   *)
(* with the ids of all the tasks that arise from it.                       *)
(***************************************************************************)
EXTENDS Progression

VARIABLES
  trace,      \* [id, real, before] of each task applied, in order
  instances   \* [check, checkid, family] of each method decomposed, in order

tvars == <<state, net, plan, trace, instances>>

NoCheck == "none"

ASSUME NoCheckAssumption == NoCheck \notin Actions

TInit == Init /\ trace = <<>> /\ instances = <<>>

\* Applying task i, as the history records it.
Applied(i) ==
  /\ trace' = Append(trace, [id |-> i, real |-> IsReal(net, i), before |-> state])
  /\ UNCHANGED instances

TRunCheck(i) == RunCheck(i) /\ Applied(i)

TRunAction(i) == RunAction(i) /\ Applied(i)

\* A decomposition adds the new tasks to the family of every method the
\* decomposed task arose from, and starts a family of its own.
TDecompose(i, m) ==
  LET added    == AddedTIDs(m, net)
      grown    == [k \in DOMAIN instances |->
                     IF i \in instances[k].family
                     THEN [instances[k] EXCEPT !.family = @ \cup added] ELSE instances[k]]
      instance == [ check   |-> IF m.mprec = 0 THEN NoCheck ELSE m.subtasks[m.mprec],
                    checkid |-> net.nextID + m.mprec - 1,
                    family  |-> added ]
  IN  /\ Decompose(i, m)
      /\ instances' = Append(grown, instance)
      /\ UNCHANGED trace

TNext ==
  \E i \in Free(net) :
    \/ TRunCheck(i)
    \/ TRunAction(i)
    \/ IsCompound(net, i) /\ \E m \in MethodDefs[net.gts[i].head] : TDecompose(i, m)

TSpec == TInit /\ [][TNext]_tvars

---------------------------------------------------------------------------
Guarded == {k \in DOMAIN instances : instances[k].check # NoCheck}

Condition(k) == ActionDefs[instances[k].check].pre

\* The state the branch was in before step j of the trace, and now.
Before(j) == IF j \in DOMAIN trace THEN trace[j].before ELSE state

\* The positions in the trace of the check of instance k and of the real
\* actions arising from it; the first of these is where the method starts.
CheckedAt(k) == {j \in DOMAIN trace : trace[j].id = instances[k].checkid}
ActedAt(k)   == {j \in DOMAIN trace : trace[j].real /\ trace[j].id \in instances[k].family}
StartsAt(k)  == {j \in ActedAt(k) : \A l \in ActedAt(k) : j <= l}

\* Some task of instance k is still in the network.
Pending(k) == instances[k].family \cap Ids(net) # {}

\* HDDL's compiled reading: before a method's first real action its
\* precondition has been checked, and held when it was (planner_doc.md 2.3).
CheckedBeforeStart ==
  \A k \in Guarded : \A j \in StartsAt(k) :
    \E c \in CheckedAt(k) : c < j /\ Holds(Condition(k), Before(c))

\* at_start: the precondition of a method holds in the state its first real
\* action runs in, although the planner skips the evaluation when no real
\* action has run since the check (PreconditionMode, typedefs.h).
HoldsAtStart ==
  \A k \in Guarded : \A j \in StartsAt(k) : Holds(Condition(k), Before(j))

\* protected: the precondition holds in every state from its check to the
\* method's first real action, or to now if that has not run yet.
HoldsThroughout ==
  \A k \in Guarded : \A c \in CheckedAt(k) :
    LET end == IF ActedAt(k) # {} THEN StartsAt(k)
               ELSE IF Pending(k) THEN {Len(trace) + 1} ELSE {}
    IN  \A e \in end : \A j \in c .. e : Holds(Condition(k), Before(j))

\* consumed and established say what happened: a check is established when
\* its task has run, and consumed when a real action of its method has.
ChecksTellHistory ==
  LET ord(k) == Cardinality({l \in Guarded : l <= k}) IN
  \A k \in Guarded :
    /\ net.checks[ord(k)].established <=> CheckedAt(k) # {}
    /\ net.checks[ord(k)].consumed <=> ActedAt(k) # {}

\* A reading that is strictly stronger admits no branch the weaker refuses.
\* planner_doc.md 8.16: protected is stronger than at_start.
AtStart == INSTANCE Progression WITH Mode <- "at_start"
ImplementsAtStart == AtStart!Spec

\* and at_start is stronger than compiled, once the bookkeeping that compiled
\* mode does not keep is forgotten.
Erase(n) ==
  [gts |-> n.gts, nextID |-> n.nextID, checks |-> <<>>, tags |-> [i \in {} |-> {}], step |-> 0]
Compiled == INSTANCE Progression WITH Mode <- "compiled", net <- Erase(net)
ImplementsCompiled == Compiled!Spec
=============================================================================
