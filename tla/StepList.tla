------------------------------- MODULE StepList -------------------------------
(***************************************************************************)
(* A step list built by choosing from menus (eval/learn_steps.py): at each *)
(* turn the steps that can be taken next are worked out from the plan so   *)
(* far, and a chooser that may be anything, the model, a scorer or a draw, *)
(* picks one, moves on to the next phase of its outline, or answers what   *)
(* is no choice. The list ends with the step that writes endmodule, or     *)
(* when it cannot go on. How its finished module simulates is not modelled.*)
(*                                                                         *)
(* The plan of a list is the actions its steps come to. A design's facts   *)
(* leave the planner one way to carry a list out, so what follows a plan   *)
(* follows every list that comes to it.                                    *)
(***************************************************************************)
EXTENDS RtlActions, VerilogText, SequencesExt

CONSTANTS
  Problems,             \* the training problems: the objects of each type, and the facts
  Starts,               \* <<design, steps, phased>>: bound: a list's first steps, and is there an outline?
  MAX_FREE, MAX_TIED, MAX_TURNS, MAX_TURNS_PHASED,
  MaxPhases,            \* bound: phases of an outline
  MaxNested             \* bound: blocks a list has open, the module included

VARIABLES
  design, plan,
  menu,       \* the steps on offer
  text,       \* the module so far
  writable,   \* the decisions that some step on offer writes into the code
  opened,     \* has the step just taken left a block open?
  phases,     \* the phases of the outline: 0 if none is asked for, 1 if none is found
  phase,      \* the phase the list is on
  turn,
  verdict

Designs == DOMAIN Problems

vars == <<design, plan, text, menu, writable, opened, phases, phase, turn, verdict>>

---------------------------------------------------------------------------
(* The problem: what can be said of a plan.                                *)

Fillings(pools) ==
  LET f[i \in 0 .. Len(pools)] == IF i = 0 THEN {<<>>} ELSE {Append(x, y) : x \in f[i - 1], y \in pools[i]}
  IN f[Len(pools)]

\* Every way of filling in a step with the design's names.
Candidates ==
  [d \in Designs |->
     UNION {{<<n, a>> : a \in Fillings([i \in DOMAIN Types[n] |-> Problems[d].objects[Types[n][i]]])} : n \in DOMAIN Types}]

Actions == DOMAIN Types \ Tasks

\* The kinds of facts an action of the domain records, needs, and writes into code.
Recorded == {f[1] : f \in UNION {action(n, Types[n]).eff : n \in Actions}}
Usable   == {f[1] : f \in UNION {action(n, Types[n]).pre : n \in Actions}}
Wanted   == {f[1] : f \in UNION {action(n, Types[n]).pre : n \in Actions \ Decisions}}

\* Those that some fact of the design, or one that a step records, can make possible.
Possible ==
  [d \in Designs |-> {c \in Candidates[d] : c[1] \in Tasks \/
                        \A f \in action(c[1], c[2]).pre : f \in Problems[d].facts \/ f[1] \in Recorded}]

Declarations == [d \in Designs |-> {c \in Possible[d] : c[1] \in DECLARES}]

Of == [s \in UNION {{c \in Candidates[d] : c[1] \notin Tasks} : d \in Designs} |-> action(s[1], s[2])]

pre(s) == Of[s].pre
eff(s) == Of[s].eff

state(d, p) == Problems[d].facts \cup UNION {eff(p[i]) : i \in DOMAIN p}

\* Could this step be done? A task may come to nothing that can.
holds(facts, s) == s[1] \notin Tasks => pre(s) \subseteq facts /\ Of[s].neg \cap facts = {}

unused_facts(d, p) == {f \in Problems[d].facts : f[1] \in Usable} \ UNION {pre(p[i]) : i \in DOMAIN p}

unused_decisions(p) ==
  LET decides == {i \in DOMAIN p : p[i][1] \in Decisions} IN
  {f \in UNION {eff(p[i]) : i \in decides} : f[1] \in Wanted} \ UNION {pre(p[i]) : i \in DOMAIN p \ decides}

\* Could a declaration still use a fact no step has used, now or once the
\* other facts it needs are recorded?
declaration_pending(d, p, t, facts) ==
  LET unused == unused_facts(d, p) names == declared_names(t) IN
  \E c \in Declarations[d] :
    /\ \E f \in pre(c) \cap unused : \A g \in pre(c) \ {f} : g \in facts \/ g[1] \in Recorded
    /\ {c[2][i] : i \in DOMAIN c[2]} \cap names = {}

---------------------------------------------------------------------------
(* The menu. An entry is a step, the actions it comes to, the plan, the    *)
(* facts and the module it leads to, and the lines it adds.                *)

closes(e) == e.text.last = "endmodule"

Adds(e, P(_)) == \E i \in DOMAIN e.adds : P(e.adds[i])

\* Mutant: facts and decisions nothing has used do not hold up the end.
Whole_driven(d, e) == undriven(e.text) = {}

\* The module may end once every fact and decision is used and nothing is undriven.
Whole(d, e) == unused_facts(d, e.plan) = {} /\ unused_decisions(e.plan) = {} /\ undriven(e.text) = {}

\* The module and the lines added, an action after the other.
RECURSIVE Rendered(_, _, _)
Rendered(t, adds, acts) ==
  IF acts = <<>> THEN [text |-> t, adds |-> adds]
  ELSE LET s == Head(acts) IN Rendered(render(t, s), adds \o lines_of(s[1], s[2], t.branch), Tail(acts))

\* d: what the step comes to.
Entry(c, d, p, t) ==
  [step |-> c, acts |-> d.acts, plan |-> p \o d.acts, facts |-> d.facts] @@ Rendered(t, <<>>, d.acts)

\* Two steps that add the same lines and facts and say the same are one, a task
\* before an action: what actions say tells them and their arguments apart.
OneOf(E) == IF \E e \in E : e.step[1] \in Tasks THEN CHOOSE e \in E : e.step[1] \in Tasks ELSE CHOOSE e \in E : TRUE

Distinct(E) == {OneOf({e \in E : e.acts = q}) : q \in {e.acts : e \in E}}

Few(E) ==
  {e \in E : Cardinality({x \in E : x.step[1] = e.step[1]}) <= IF e.step[1] \in Free THEN MAX_FREE ELSE MAX_TIED}

\* What can be done and stands, and changes something.
Changes(p, t, facts, able) ==
  {e \in {Entry(x[1], x[2], p, t) : x \in {y \in {<<c, Come(facts, <<c>>)>> : c \in able} : y[2].facts # NoFacts}} :
     e.text.standing /\ (e.adds # <<>> \/ e.facts # facts)}

Able(d, facts) == {c \in Possible[d] : holds(facts, c)}

InOrder(E, pending) == {e \in E : Adds(e, LAMBDA l : l.item \in {"always", "assign"}) => ~ pending}

Offered(d, p, t, facts) ==
  InOrder(Few({e \in Distinct(Changes(p, t, facts, Able(d, facts))) : closes(e) => Whole(d, e)}),
          declaration_pending(d, p, t, facts))

opens(e) == Adds(e, LAMBDA l : l.opens # "")

\* Does the entry put code after the module so far, not only what closes a
\* block of it? Ports change the header, and a further term an assignment.
fills(e) ==
  /\ \A i \in DOMAIN e.acts : e.acts[i][1] \notin PORT_DECLS \cup {"write_moore_output_also"}
  /\ Adds(e, LAMBDA l : l.closes = "")

\* The decisions left of the plan before it that an entry writes into the code.
writes(left, e) == left \ unused_decisions(e.plan)

\* The menu after an entry, without look-ahead.
Following(d, e) == Offered(d, e.plan, e.text, e.facts)

Due(left, E) == IF left = {} THEN {} ELSE UNION {writes(left, e) : e \in E}

\* Mutant: every step is on offer, whatever decisions then go unwritten.
Kept_unasked(d, left, due, E) == E

\* Mutant: a line must write a decision at once or wait.
Kept_at_once(d, left, due, E) == {e \in E : due = {} \/ e.adds = <<>> \/ writes(left, e) # {}}

\* A step that adds lines may not put the decisions on offer out of reach: it
\* writes one, or a step after it does, all of them.
Kept(d, left, due, E) ==
  {e \in E : due = {} \/ e.adds = <<>> \/ writes(left, e) # {} \/ due \subseteq Due(unused_decisions(e.plan), Following(d, e))}

\* Mutant: a block may be opened with nothing to put in it.
Filled_unasked(d, E) == E

\* A block is opened only if the next step can put something in it.
Filled(d, E) == {e \in E : opens(e) => \E n \in Following(d, e) : fills(n)}

\* The menu: the steps on offer, and the decisions they would write.
MenuOf(d, left, due, E) == [steps |-> {e.step : e \in Kept(d, left, due, E)}, writable |-> due]

MenuFrom(d, left, E) == MenuOf(d, left, Due(left, E), E)

Menu(d, p, t, facts) == MenuFrom(d, unused_decisions(p), Filled(d, Offered(d, p, t, facts)))

On(d, p, t, steps) == LET facts == state(d, p) IN {Entry(c, Come(facts, <<c>>), p, t) : c \in steps}

---------------------------------------------------------------------------
(* Building a list.                                                        *)

\* How many phases an outline has; a reply with fewer, or more, holds none.
outline_of == 2 .. MaxPhases

Init ==
  /\ \E s \in Starts :
       LET c == Come(Problems[s[1]].facts, s[2]) t == code(c.acts) m == Menu(s[1], c.acts, t, c.facts) IN
       /\ design = s[1] /\ plan = c.acts /\ text = t /\ menu = m.steps /\ writable = m.writable
       /\ turn = Len(s[2]) + 1
       /\ phases \in IF s[3] THEN {1} \cup outline_of ELSE {0}
  /\ opened = FALSE /\ phase = 1
  /\ verdict = IF phases = 1 THEN "no outline" ELSE ""

Turns == IF phases > 0 THEN MAX_TURNS_PHASED ELSE MAX_TURNS

Building == verdict = "" /\ turn <= Turns

\* The steps of the list: a turn takes one, or moves to the next phase.
done == turn - phase

Stop(why) == verdict' = why /\ UNCHANGED <<design, plan, text, menu, writable, opened, phases, phase, turn>>

TooLong     == Building /\ done >= MAX_TURNS /\ Stop("not finished")
NothingLeft == Building /\ done < MAX_TURNS /\ menu = {} /\ Stop("nothing can be done")
NoChoice    == Building /\ done < MAX_TURNS /\ menu # {} /\ Stop("no valid choice")

NextPhase ==
  /\ Building /\ done < MAX_TURNS /\ menu # {} /\ phase < phases
  /\ phase' = phase + 1 /\ turn' = turn + 1
  /\ UNCHANGED <<design, plan, text, menu, writable, opened, phases, verdict>>

Take(e) ==
  /\ Building /\ done < MAX_TURNS /\ Len(e.text.open) <= MaxNested
  /\ plan' = e.plan /\ text' = e.text /\ opened' = (Len(e.text.open) > Len(text.open)) /\ turn' = turn + 1
  /\ IF closes(e) THEN verdict' = "finished" /\ menu' = {} /\ writable' = {}
     ELSE LET m == Menu(design, e.plan, e.text, e.facts) IN
          verdict' = "" /\ menu' = m.steps /\ writable' = m.writable
  /\ UNCHANGED <<design, phases, phase>>

\* Mutant: a list the turns ran out on gets no verdict.
Leftover_untold == FALSE /\ UNCHANGED vars

\* The turns are over: cmd_run gives what is left its verdict.
Leftover == verdict = "" /\ turn > Turns /\ Stop("not finished")

Turn == TooLong \/ NothingLeft \/ NoChoice \/ NextPhase \/ (\E e \in On(design, plan, text, menu) : Take(e)) \/ Leftover

Next == Turn

\* The loop does not stop while it has a turn left, nor what follows it. (Every
\* Turn is such a step, and one is possible then: this is WF_vars(Turn).)
GoesOn ==
  \/ /\ Building
     /\ \/ turn' = turn + 1 /\ verdict' \in {"", "finished"}
        \/ turn' = turn /\ verdict' \in {"not finished", "nothing can be done", "no valid choice"}
  \/ Leftover

Spec == Init /\ [][Next]_vars /\ WF_<<turn, verdict>>(GoesOn)

\* The plan of a list's first k steps.
Comes_to(d, steps, k) == Come(Problems[d].facts, SubSeq(steps, 1, k)).acts

\* A list that has come as far as a known one can go on as it does: its next step
\* is on offer, or an entry that comes to the same plan. Steps that do nothing
\* are passed over.
walk(d, plans) ==
  design = d /\ verdict = "" =>
    \A k \in 1 .. Len(plans) - 1 :
      plan = plans[k] /\ plans[k + 1] # plan => \E e \in On(design, plan, text, menu) : e.plan = plans[k + 1]

---------------------------------------------------------------------------
(* Properties.                                                             *)

\* The fills of a block are sought on a menu without look-ahead, before the
\* opener is offered; the menu met once it is taken has look-ahead, and may hold
\* them back. Still, a block just opened can be given something to hold.
OpenedIsFilled == opened /\ verdict = "" => \E e \in On(design, plan, text, menu) : fills(e)

\* So it is with a decision that code on the menu would write: whatever step is
\* taken instead, the next menu has code that writes it.
StaysWritable ==
  [][turn' = turn + 1 /\ verdict' = "" =>
       writable \cap unused_decisions(plan') \subseteq writable']_vars

\* A module is closed only when it is whole: the rule asks that facts and
\* decisions be used, and it follows that every port is declared, and that every
\* output and every register declared is driven.
ClosedIsWhole ==
  verdict = "finished" =>
    /\ Problems[design].objects.port \subseteq declared_names(text)
    /\ \A x \in declared_names(text) : text.kinds[x] \in {"output"} \cup Regs => x \in DOMAIN text.owner

\* Every list gets a verdict, whatever its chooser answers.
Ends == <>(verdict # "")
=============================================================================
