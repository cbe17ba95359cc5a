------------------------------- MODULE Lifting -------------------------------
(***************************************************************************)
(* From checked lists to methods, and their test. eval/lift.py lifts the   *)
(* lists that the runs of learn_ground.py left, one method a case, and     *)
(* tells the cases apart. eval/lift_loops.py lifts one list after the      *)
(* other, longest plan first, until the methods of one pass. Which of the  *)
(* two is used depends on the family.                                      *)
(*                                                                         *)
(* A method is its variables' module, the kinds of design it is for, its   *)
(* conditions, its subtasks and the facts it is not for, with the list or  *)
(* lists it was made from.                                                 *)
(***************************************************************************)
EXTENDS Learning, LiftCase, LiftLoops

CONSTANTS
  Train,          \* the training problems of the family that lift.py is used for, one a case
  StepsOf,        \* the steps that each answer to a case holds
  LoopTrain,      \* those of the family that lift_loops.py is used for
  LoopLists,      \* lists learn_steps.py may have checked: <<number of the problem, steps>>
  Probes          \* problems of the other families

VARIABLES
  family,       \* "cases" and "loops", by the lifter used; "case": lift_case alone
  phase,        \* "", "lifting", "lifted", "exit" or "done"
  groups,       \* lift.py: the cases yet to be lifted
  lists,        \* lift_loops.py: the lists yet to be made examples
  taken,        \* lift_loops.py: the examples
  tried,        \* those that were tried
  methods,
  found,        \* what the planner can make of each training problem with the methods
  passed        \* the stage their test came to

lifting_vars == <<family, phase, groups, lists, taken, tried, methods, found, passed>>
vars         == <<learning_vars, case_vars, lifting_vars>>

Problem(c, s) == Train[c] @@ [steps |-> s]

---------------------------------------------------------------------------
(* lift.py: the lists, one a problem, and a method for each case.          *)

\* The lists of a case that passed, wherever a round left one.
checked_lists(c) ==
  {StepsOf[c][listed[d]] : d \in {e \in Dirs : e[1] = c /\ \E v \in judged[e] : v.stage = "pass"}}

\* How many rounds of how many runs have a list.
Count(c, s) ==
  Cardinality({d \in Dirs : d[1] = c /\ (\E v \in judged[d] : v.stage = "pass") /\ StepsOf[c][listed[d]] = s})

\* Examples with the same step names, in the order of the problems.
StepNames(e) == [i \in DOMAIN e.steps |-> e.steps[i][1]]
RECURSIVE cases_of(_)
cases_of(es) ==
  IF es = <<>> THEN <<>>
  ELSE <<SelectSeq(es, LAMBDA e : StepNames(e) = StepNames(es[1]))>> \o cases_of(SelectSeq(es, LAMBDA e : StepNames(e) # StepNames(es[1])))

\* The lists most of a problem's rounds agree on, one a problem, from whatever
\* the runs have left on disk so far.
Lift ==
  /\ family = "cases" /\ at = "idle" /\ phase = ""
  /\ \E best \in [{c \in Cases : checked_lists(c) # {}} -> UNION {checked_lists(c) : c \in Cases}] :
       /\ DOMAIN best # {}
       /\ \A c \in DOMAIN best : best[c] \in checked_lists(c) /\ \A s \in checked_lists(c) : Count(c, s) <= Count(c, best[c])
       /\ groups' = cases_of(FlattenSeq([c \in 1 .. Len(Train) |-> IF c \in DOMAIN best THEN <<Problem(c, best[c])>> ELSE <<>>]))
  /\ phase' = "lifting"
  /\ UNCHANGED <<learning_vars, case_vars, family, lists, taken, tried, methods, found, passed>>

LiftNext ==
  /\ phase = "lifting" /\ outcome = "idle" /\ groups # <<>>
  /\ BeginCase(Head(groups))
  /\ UNCHANGED <<learning_vars, lifting_vars>>

TieStep ==
  /\ phase = "lifting" /\ LiftCaseStep
  /\ UNCHANGED <<learning_vars, lifting_vars>>

\* A subtask's argument: a variable that is tied, or the name it is in all the lists.
Argument(i, j) ==
  LET c == ColumnOf(examples, <<i, j>>) IN IF c \in variables THEN Var(c) ELSE Is(c[1])

Kinds(e) == {f[1] : f \in {g \in e.facts : g[2] = <<e.module>>}}

\* The method of a case, with the kinds that all of its problems are of.
LiftedMethod ==
  [module |-> module, kinds |-> {p \in Kinds(examples[1]) : \A k \in K : p \in Kinds(examples[k])}, conds |-> conditions,
   subtasks |-> [i \in DOMAIN examples[1].steps |->
                   [kind |-> "step", name |-> examples[1].steps[i][1],
                    args |-> [j \in DOMAIN examples[1].steps[i][2] |-> Argument(i, j)]]],
   absent |-> {}, examples |-> examples]

KeepCase ==
  /\ phase = "lifting" /\ outcome \in {"lifted", "cannot lift"}
  /\ IF outcome = "lifted"
     THEN methods' = Append(methods, LiftedMethod) /\ groups' = Tail(groups) /\ UNCHANGED phase
     ELSE phase' = "exit" /\ UNCHANGED <<methods, groups>>
  /\ examples' = <<>> /\ variables' = {} /\ bound' = {} /\ conditions' = <<>> /\ bindings' = <<>> /\ outcome' = "idle"
  /\ UNCHANGED <<learning_vars, family, lists, taken, tried, found, passed>>

\* The kinds of fact, with the module's place in them, that a problem has.
Held(e)  == UNION {{<<f[1], i>> : i \in {j \in DOMAIN f[2] : f[2][j] = e.module}} : f \in e.facts}
every(m) == {h \in Held(m.examples[1]) : \A k \in DOMAIN m.examples : h \in Held(m.examples[k])}
some(m)  == UNION {Held(m.examples[k]) : k \in DOMAIN m.examples}

\* Mutant: what all of the one have, in the other or not.
told_by_all(a, b) == every(a)

\* What all the problems of the one case have and none of the other.
told_by(a, b) == every(a) \ some(b)

First_mark(S) == CHOOSE h \in S : \A g \in S : ~ Less(<<Alphabet[g[1]], g[2]>>, <<Alphabet[h[1]], h[2]>>)

\* Each pair of cases: the second is not for a problem with a fact of the first.
tell_apart ==
  /\ phase = "lifting" /\ outcome = "idle" /\ groups = <<>>
  /\ LET others(i) == DOMAIN methods \ {i}
         absent(i) == {First_mark(told_by(methods[j], methods[i])) :
                         j \in {k \in others(i) : told_by(methods[k], methods[i]) # {}}}
     IN IF \E i \in DOMAIN methods : \E j \in others(i) :
             told_by(methods[i], methods[j]) = {} /\ told_by(methods[j], methods[i]) = {}
        THEN phase' = "exit" /\ UNCHANGED methods
        ELSE phase' = "lifted" /\ methods' = [i \in DOMAIN methods |-> [methods[i] EXCEPT !.absent = absent(i)]]
  /\ UNCHANGED <<learning_vars, case_vars, family, groups, lists, taken, tried, found, passed>>

---------------------------------------------------------------------------
(* lift_loops.py: every list made an example, the longest plan tried first.*)

\* A list as it is lifted, with what its steps come to.
Ready(p, steps) ==
  in_order(LoopTrain[p], normalize(LoopTrain[p], clean(LoopTrain[p], steps)))

TakeList ==
  /\ family = "loops" /\ phase = "" /\ lists # {}
  /\ \E l \in lists :
       /\ \E s \in {Ready(l[1], l[2])} : \E c \in {Course(LoopTrain[l[1]], s)} :
            taken' = taken \cup {[p |-> l[1], steps |-> s, did |-> c.did]}
       /\ lists' = lists \ {l}
  /\ UNCHANGED <<learning_vars, case_vars, family, phase, groups, tried, methods, found, passed>>

\* The facts a chain's ends are checked against: of all the examples.
Others == {LoopTrain[e.p].facts : e \in taken} \cup {q.facts : q \in Probes}

TryList ==
  /\ family = "loops" /\ phase = "" /\ lists = {}
  /\ \E e \in taken \ tried :
       /\ \A d \in taken \ tried : Len(FlattenSeq(d.did)) <= Len(FlattenSeq(e.did))
       /\ \E order \in SetToSeqs(chains(LoopTrain[e.p], Others)) :
            \E m \in {lift_family(LoopTrain[e.p], e.steps, e.did, order)} :
              IF m.ok THEN phase' = "lifted" /\ methods' = <<m @@ [examples |-> <<LoopTrain[e.p] @@ [steps |-> e.steps]>>]>>
              ELSE UNCHANGED <<phase, methods>>
       /\ tried' = tried \cup {e}
  /\ UNCHANGED <<learning_vars, case_vars, family, groups, lists, taken, found, passed>>

---------------------------------------------------------------------------
(* The test of the methods, learn_family.py's test_answer.                 *)

Absent(m, p) ==
  \A h \in m.absent : \A f \in p.facts : f[1] = h[1] => f[2][h[2]] # p.module

\* What the planner can make of a problem with one of the methods, and with all of them.
PlansOf(m, p) == IF Absent(m, p) THEN Plans(m, p) ELSE {}
AllPlans(p)   == UNION {PlansOf(methods[i], p) : i \in DOMAIN methods}

Training == IF family = "cases" THEN Train ELSE LoopTrain

STAGES == <<"plan", "ambiguous", "render", "simulate", "pass">>

\* Two runs of the planner: the stages a problem's plans can come to.
try_case(p, plans_) ==
  IF plans_ = {} THEN {"plan"}
  ELSE {IF x # y THEN "ambiguous" ELSE writes(p, x) : <<x, y>> \in plans_ \X plans_}

\* The worst stage of the training problems; then the other families' plans.
test_answer ==
  /\ phase = "lifted"
  /\ found' = [i \in DOMAIN Training |-> AllPlans(Training[i])]
  /\ \E could \in {Each([i \in DOMAIN Training |-> i], LAMBDA i : try_case(Training[i], found'[i]))} :
     \E stages_ \in [DOMAIN Training -> ToSet(STAGES)] :
       /\ \A i \in DOMAIN Training : stages_[i] \in could[i]
       /\ LET worst == CHOOSE n \in DOMAIN STAGES :
                         /\ \E i \in DOMAIN stages_ : stages_[i] = STAGES[n]
                         /\ \A i \in DOMAIN stages_ : \A j \in 1 .. n - 1 : stages_[i] # STAGES[j]
          IN passed' \in IF STAGES[worst] # "pass" THEN {STAGES[worst]}
                         ELSE {"pass"} \cup {"regression" : q \in {r \in Probes : AllPlans(r) # {}}}
  /\ phase' = IF passed' # "pass" /\ taken # tried THEN "" ELSE "done"
  /\ UNCHANGED <<learning_vars, case_vars, family, groups, lists, taken, tried, methods>>

---------------------------------------------------------------------------
Init ==
  /\ Init_learning /\ Idle
  /\ family \in {"cases", "case", "loops"} /\ phase = "" /\ groups = <<>>
  /\ lists \in IF family = "loops" THEN LoopLists ELSE {{}}
  /\ taken = {} /\ tried = {} /\ methods = <<>> /\ found = <<>> /\ passed = ""

Learn ==
  /\ family = "cases" /\ phase = "" /\ LearningStep
  /\ UNCHANGED <<case_vars, lifting_vars>>

\* lift_case by itself, on any group of lists with the same steps.
LiftAlone ==
  /\ family = "case" /\ LiftCaseNext
  /\ UNCHANGED <<learning_vars, lifting_vars>>

Next ==
  \/ LiftAlone \/ Learn \/ Lift \/ LiftNext \/ TieStep \/ KeepCase \/ tell_apart
  \/ TakeList \/ TryList \/ test_answer

Spec == Init /\ [][Next]_vars

---------------------------------------------------------------------------
\* The methods have been tested: found is what the planner makes of each problem with them.
Tested == found # <<>> /\ phase # "lifted"

Examples == UNION {ToSet(methods[i].examples) : i \in DOMAIN methods}

\* The methods of the cases together give each problem they were lifted from the
\* list it was lifted from, and no other: what the first lists of a case share
\* ties every variable, and what tells the cases apart keeps each method away
\* from the problems of the others and from none of its own.
OwnListStands ==
  Tested /\ family = "cases" => \A e \in Examples : found[e.tag] = {plan_of(Course(e, e.steps))}

\* The groups of each loop follow its chain.
RECURSIVE Follows(_)
Follows(items) ==
  \A i \in DOMAIN items : items[i].kind = "loop" =>
    /\ \A g \in DOMAIN items[i].groups : Follows(items[i].groups[g][2])
    /\ \E f \in [DOMAIN items[i].groups -> DOMAIN items[i].chain.order] :
         /\ \A g \in DOMAIN f : items[i].chain.order[f[g]] = items[i].groups[g][1]
         /\ \A g, h \in DOMAIN f : g < h => f[g] < f[h]

\* Whatever order a list does things in, and whichever chain its steps are folded
\* over, every plan the methods find for its problem comes to the lines of the
\* list; and if its loops go along their chains they find it, and nothing else.
LoopsReplay ==
  Tested /\ family = "loops" =>
    \A e \in Examples : \E own \in {plan_of(Course(e, e.steps))} :
      /\ \A q \in found[e.tag] : SameLines(Lines(own), Lines(q))
      /\ Follows(methods[1].items) => found[e.tag] = {own}

\* A pass is not luck: the test runs the planner twice on a problem and cannot see
\* every choice it has, but of the problems it passed, those the methods were not
\* learned on included, none has a second plan.
PassIsNoLuck == Tested /\ passed = "pass" => \A i \in DOMAIN found : Cardinality(found[i]) = 1
=============================================================================
