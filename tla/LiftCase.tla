------------------------------ MODULE LiftCase ------------------------------
(***************************************************************************)
(* One method from the checked lists of one case (eval/lift.py, lift_case):*)
(* the lists have the same steps with other names for their arguments. An  *)
(* argument becomes a variable, and facts of the problems, one after the   *)
(* other, tie each variable to the module, until none is left or no fact   *)
(* will do.                                                                *)
(*                                                                         *)
(* A column is what an argument is in each of the lists, and a variable is *)
(* the column it stands for. A step is <<name, arguments>>.                *)
(***************************************************************************)
EXTENDS Tying

CONSTANTS
  Groups        \* what the examples of a case may be

VARIABLES
  examples,     \* of each list: its steps, and its problem's module, facts and types of names
  variables,
  bound,        \* the variables tied to the module so far
  conditions,   \* the facts that tie them
  bindings,     \* for each problem, what the planner can take the bound variables for
  outcome       \* "idle", "tying", "lifted" or "cannot lift"

case_vars == <<examples, variables, bound, conditions, bindings, outcome>>

Places(steps) == UNION {{<<i, j>> : j \in DOMAIN steps[i][2]} : i \in DOMAIN steps}

\* The lists of a case have the same steps, argument for argument.
SameSteps(g) ==
  \A k \in DOMAIN g :
    g[k].steps = [i \in DOMAIN g[1].steps |->
                    <<g[1].steps[i][1], [j \in DOMAIN g[1].steps[i][2] |-> g[k].steps[i][2][j]]>>]

ASSUME GroupsAssumption == \A g \in Groups : 1 \in DOMAIN g /\ SameSteps(g)

K == DOMAIN examples

ModuleOf(g)    == [k \in DOMAIN g |-> g[k].module]
ColumnOf(g, p) == [k \in DOMAIN g |-> g[k].steps[p[1]][2][p[2]]]
ColumnsOf(g)   == {ModuleOf(g)} \cup {ColumnOf(g, p) : p \in Places(g[1].steps)}

module == ModuleOf(examples)

\* Constants that never vary are variables only if a fact ties them down.
tentative == {c \in variables \ {module} : \E x \in CONSTANTS_ : c = [k \in K |-> x]}

values(k) == [c \in variables |-> c[k]]

best_of == Candidates([k \in K |-> examples[k].facts], [k \in K |-> values(k)], bound)

\* Fewest variables at once, then facts about the module itself, then fewest
\* variables in all, then by the predicate's letters; what is left, by choice.
key(c) == <<Cardinality(Vars(c) \ bound), IF module \in Vars(c) THEN 0 ELSE 1, Cardinality(FreeIn(c)), Alphabet[c.pred]>>

\* The list that the method comes to where its variables are b.
ListOf(g, kept, b) ==
  [i \in DOMAIN g[1].steps |->
     <<g[1].steps[i][1],
       [j \in DOMAIN g[1].steps[i][2] |->
          IF ColumnOf(g, <<i, j>>) \in kept THEN b[ColumnOf(g, <<i, j>>)] ELSE g[1].steps[i][2][j]]>>]

---------------------------------------------------------------------------
Idle ==
  /\ examples = <<>> /\ variables = {} /\ bound = {} /\ conditions = <<>>
  /\ bindings = <<>> /\ outcome = "idle"

\* An argument has one type in all the examples.
WellTyped(g) == \A c \in ColumnsOf(g) : \A k \in DOMAIN g : g[k].types[c[k]] = g[1].types[c[1]]

BeginCase(g) ==
  /\ examples' = g /\ variables' = ColumnsOf(g) /\ bound' = {ModuleOf(g)} /\ conditions' = <<>>
  /\ bindings' = [k \in DOMAIN g |-> {[v \in {ModuleOf(g)} |-> v[k]]}]
  /\ outcome' = IF WellTyped(g) THEN "tying" ELSE "cannot lift"

Tie ==
  /\ outcome = "tying" /\ bound # variables
  /\ \E C \in {best_of} : \E c \in C :
       /\ \A d \in C : ~ Less(key(d), key(c))
       /\ conditions' = Append(conditions, c)
       /\ bindings' = [k \in K |-> Bound(examples[k].facts, bindings[k], c)]
       /\ bound' = bound \cup Vars(c)
  /\ UNCHANGED <<examples, variables, outcome>>

\* What no fact ties down are constants after all.
Lifted ==
  /\ outcome = "tying"
  /\ bound = variables \/ (variables \ bound \subseteq tentative /\ best_of = {})
  /\ variables' = bound /\ outcome' = "lifted"
  /\ UNCHANGED <<examples, bound, conditions, bindings>>

GivesUp ==
  /\ outcome = "tying" /\ ~ variables \ bound \subseteq tentative /\ best_of = {}
  /\ outcome' = "cannot lift"
  /\ UNCHANGED <<examples, variables, bound, conditions, bindings>>

LiftCaseStep == Tie \/ Lifted \/ GivesUp

LiftCaseNext == LiftCaseStep \/ \E g \in Groups : outcome # "tying" /\ BeginCase(g)

LiftCaseSpec == Idle /\ [][LiftCaseNext]_case_vars

---------------------------------------------------------------------------
\* Each of the problems the method was made from gets from it the list it was
\* made from, and no other: the conditions leave the planner one choice for every
\* variable, in every problem.
Reproduces ==
  outcome = "lifted" =>
    \A k \in K : /\ bindings[k] = {values(k)}
                 /\ ListOf(examples, variables, values(k)) = examples[k].steps
=============================================================================
