------------------------------ MODULE FactBase ------------------------------
(***************************************************************************)
(* What the planner takes the states of its search for: independent sets   *)
(* of facts. One is open while it is loaded, or while the effects of an    *)
(* action are applied to it; all the others keep their facts for as long   *)
(* as they live, whatever is done to the states they were copied from or   *)
(* to.                                                                     *)
(***************************************************************************)
CONSTANTS
  States,     \* the knowledge bases there may be at one time
  Root,       \* the one of the initial state
  Facts,      \* every ground fact
  TypeFacts   \* those that say what type an object has

VARIABLES
  facts,      \* the facts of each living state
  open        \* the states being written to, at most one

vars == <<facts, open>>

Init ==
  /\ facts = [k \in {Root} |-> TypeFacts]
  /\ open = {Root}

Write ==
  \E k \in open : \E f \in Facts :
    /\ \/ facts' = [facts EXCEPT ![k] = @ \cup {f}]
       \/ facts' = [facts EXCEPT ![k] = @ \ {f}]
    /\ UNCHANGED open

Close == open' = {} /\ UNCHANGED facts

\* Copying a state, to keep or to apply effects to.
Copy ==
  /\ open = {}
  /\ \E k \in DOMAIN facts, n \in States \ DOMAIN facts :
       /\ facts' = [j \in DOMAIN facts \cup {n} |-> facts[IF j = n THEN k ELSE j]]
       /\ open' \in {{}, {n}}

Discard ==
  /\ open = {}
  /\ \E k \in DOMAIN facts : facts' = [j \in DOMAIN facts \ {k} |-> facts[j]]
  /\ UNCHANGED open

Next == Write \/ Close \/ Copy \/ Discard

Spec == Init /\ [][Next]_vars
=============================================================================
