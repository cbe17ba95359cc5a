------------------------- MODULE MachineDerivation -------------------------
(***************************************************************************)
(* Phase 1 of rtl_designs/rtl_domain.hddl for its families 1, 2 and 4: the *)
(* planner derives the transitions of a sequence detector, or of a         *)
(* recogniser of several sequences, from a compiled problem. tasks is what *)
(* remains of the totally ordered task network, and there is an operator   *)
(* for each method: the decompositions it offers for the first task. A     *)
(* method whose only subtask is a primitive task takes that step with it.  *)
(*                                                                         *)
(* In a detector, b continues a state's prefix when the state expects it;  *)
(* in a recogniser, when the state has a child on b.                       *)
(***************************************************************************)
EXTENDS ProblemCompiler

CONSTANTS
  Problems,     \* the files the planner may be given
  MaxStream     \* bound: bits of a simulation

\* What the files say: a recogniser's sequences by their runs of bits, and a
\* detector's pattern, whose prefixes an accepted file chains.
ASSUME ProblemsAssumption ==
  \A p \in Problems :
    \/ /\ p.kind = "recogniser" /\ p.overlapping = TRUE
       /\ IsFiniteSet(p.recognises) /\ \A f \in p.recognises : f[2] \in Seq(Bits \X Nat)
       /\ \A k \in p.keeps : k = <<k[1], k[2]>>
    \/ /\ p.kind \in {"mealy", "moore"} /\ p.overlapping \in BOOLEAN
       /\ p.pattern \in Seq(Bits) /\ p.pattern # Nothing
       /\ ~ complete(p).invalid =>
            p.after = Chain(IF p.kind = "moore" THEN p.pattern ELSE Front(p.pattern))
ASSUME StreamAssumption == MaxStream \in Nat

VARIABLES
  phase,        \* "refused", "planned" (being so) or "running"
  problem,      \* the file
  design,       \* what the compiler made of it
  tasks,        \* the tasks still to be done, in order
  transition,   \* <<state, bit, next state>> derived so far
  fallback,     \* <<state, fallback>> derived so far
  fires,        \* <<state, bit>> on which a Mealy output is asserted
  at,           \* simulation: the machine's state
  shown,        \* simulation: the outputs asserted
  hist          \* simulation: the bits that count for the expected outputs

derived == <<transition, fallback, fires>>
run     == <<at, shown, hist>>
vars    == <<phase, problem, design, tasks, derived, run>>

From(x)       == <<[task |-> "from", s |-> x]>>
Derive(x, b)  == <<[task |-> "next", s |-> x, b |-> b]>>
FallbackOf(x) == <<[task |-> "fallback", s |-> x]>>
\* Tasks that read off a fact derived just before them, to conclude another.
Via(x, b)     == <<[task |-> "via", s |-> x, b |-> b]>>
Step(x)       == <<[task |-> "step", s |-> x]>>
FallBack(x, b, f) == <<[task |-> "fall back", s |-> x, b |-> b, f |-> f]>>
Extend(x, f)  == <<[task |-> "extend", s |-> x, f |-> f]>>

\* The compiler, then the network of implement_module down to the walk over
\* the states. A file the compiler rejects is not planned.
Init ==
  /\ problem \in Problems /\ design = complete(problem)
  /\ \/ design.invalid /\ phase = "refused" /\ tasks = <<>>
     \/ ~ design.invalid /\ phase = "planned" /\ tasks = From(design.listed[1])
  /\ transition = {} /\ fallback = {} /\ fires = {}
  /\ at = Nothing /\ shown = {} /\ hist = <<>>

---------------------------------------------------------------------------
(***************************************************************************)
(* The methods. Each gives a set of decompositions: the subtasks, and the  *)
(* facts its primitive step adds.                                          *)
(***************************************************************************)
Known(x, b)  == \E t \in transition : t[1] = x /\ t[2] = b
Initial(x)   == x = design.start
Accepting(x) == problem.kind = "moore" /\ x = problem.pattern
Completes(x, b) == problem.kind = "mealy" /\ Append(x, b) = problem.pattern
Expects(x, b)  == Append(x, b) \in design.states \/ Completes(x, b)
\* Before a bit no fact says otherwise about.
Open(x, b) == ~ Known(x, b) /\ <<x, b>> \notin design.holds

Subtasks(by, ts) == [by |-> by, tasks |-> ts, goes |-> {}, falls |-> {}, fires |-> {}]
Goes(by, x, b, y) == [Subtasks(by, <<>>) EXCEPT !.goes = {<<x, b, y>>}]
Falls(by, x, f)   == [Subtasks(by, <<>>) EXCEPT !.falls = {<<x, f>>}]
When(cond, m)     == IF cond THEN {m} ELSE {}

m_walk(t) ==
  LET i == CHOOSE k \in DOMAIN design.listed : design.listed[k] = t.s
  IN When(t.task = "from",
       Subtasks("walk", Derive(t.s, 0) \o Derive(t.s, 1) \o
         IF i < Len(design.listed) THEN From(design.listed[i + 1]) ELSE <<>>))

m_next_known(t) == When(t.task = "next" /\ Known(t.s, t.b), Subtasks("known", <<>>))

m_next_hold(t) ==
  When(t.task = "next" /\ ~ Known(t.s, t.b) /\ <<t.s, t.b>> \in design.holds, Goes("hold", t.s, t.b, t.s))

m_next_advance(t) ==
  When(t.task = "next" /\ Open(t.s, t.b) /\ Append(t.s, t.b) \in design.states,
       Goes("advance", t.s, t.b, Append(t.s, t.b)))

m_next_stay(t) ==
  When(t.task = "next" /\ Open(t.s, t.b) /\ ~ Expects(t.s, t.b) /\ Initial(t.s),
       Goes("stay", t.s, t.b, t.s))

\* Mutant: the accepting state also falls back without overlapping detection.
m_next_fallback_unguarded(t) ==
  When(t.task = "next" /\ Open(t.s, t.b) /\ ~ Expects(t.s, t.b) /\ ~ Initial(t.s),
       Subtasks("mismatch", FallbackOf(t.s) \o Via(t.s, t.b)))

\* Mutant: the fallback is expected to be known.
m_next_fallback_unprepared(t) ==
  When(/\ t.task = "next" /\ Open(t.s, t.b) /\ ~ Expects(t.s, t.b) /\ ~ Initial(t.s)
       /\ problem.overlapping \/ ~ Accepting(t.s),
       Subtasks("mismatch", Via(t.s, t.b)))

m_next_fallback(t) ==
  When(/\ t.task = "next" /\ Open(t.s, t.b) /\ ~ Expects(t.s, t.b) /\ ~ Initial(t.s)
       /\ problem.overlapping \/ ~ Accepting(t.s),
       Subtasks("mismatch", FallbackOf(t.s) \o Via(t.s, t.b)))

\* Mealy: the pattern's last bit, when its bits may begin the next occurrence.
m_next_match_overlapping(t) ==
  When(/\ t.task = "next" /\ Open(t.s, t.b) /\ Completes(t.s, t.b)
       /\ problem.overlapping /\ ~ Initial(t.s),
       Subtasks("match", FallbackOf(t.s) \o Via(t.s, t.b)))

m_next_match_from_scratch(t) ==
  When(/\ t.task = "next" /\ Open(t.s, t.b) /\ Completes(t.s, t.b)
       /\ ~ problem.overlapping \/ Initial(t.s),
       [Goes("from scratch", t.s, t.b, design.start) EXCEPT !.fires = {<<t.s, t.b>>}])

\* Moore without overlapping: the accepting state goes where the first one does.
m_next_accept_from_scratch(t) ==
  When(t.task = "next" /\ ~ Known(t.s, t.b) /\ Accepting(t.s) /\ ~ problem.overlapping,
       Subtasks("restart", Derive(design.start, t.b) \o FallBack(t.s, t.b, design.start)))

m_via_fallback(t) ==
  {Subtasks("via", Derive(f[2], t.b) \o FallBack(t.s, t.b, f[2])) :
     f \in {g \in fallback : t.task = "via" /\ g[1] = t.s}}

\* Where the fallback goes, the state goes; a pattern completed fires.
m_conclude_fall_back(t) ==
  {[Goes("fall back", t.s, t.b, u[3]) EXCEPT !.fires = When(Completes(t.s, t.b), <<t.s, t.b>>)] :
     u \in {v \in transition : t.task = "fall back" /\ ~ Known(t.s, t.b) /\ v[1] = t.f /\ v[2] = t.b}}

FallbackKnown(x) == \E f \in fallback : f[1] = x

m_fallback_known(t) == When(t.task = "fallback" /\ FallbackKnown(t.s), Subtasks("fallback known", <<>>))

m_fallback_first(t) ==
  When(t.task = "fallback" /\ ~ FallbackKnown(t.s) /\ Initial(Front(t.s)),
       Falls("first", t.s, design.start))

m_fallback_extend(t) ==
  When(t.task = "fallback" /\ ~ FallbackKnown(t.s) /\ ~ Initial(Front(t.s)),
       Subtasks("extend", FallbackOf(Front(t.s)) \o Step(t.s)))

m_fallback_step(t) ==
  {Subtasks("step", Derive(f[2], Last(t.s)) \o Extend(t.s, f[2])) :
     f \in {g \in fallback : t.task = "step" /\ g[1] = Front(t.s)}}

\* Mutant: the fallback of a state is taken to be that of the one before it.
m_conclude_fallback_short(t) ==
  When(t.task = "extend" /\ ~ FallbackKnown(t.s), Falls("conclude", t.s, t.f))

m_conclude_fallback_extend(t) ==
  {Falls("conclude", t.s, u[3]) :
     u \in {v \in transition : t.task = "extend" /\ ~ FallbackKnown(t.s) /\ v[1] = t.f /\ v[2] = Last(t.s)}}

Methods(t) ==
  m_walk(t) \cup m_next_known(t) \cup m_next_hold(t) \cup m_next_advance(t) \cup m_next_stay(t)
    \cup m_next_fallback(t) \cup m_next_match_overlapping(t) \cup m_next_match_from_scratch(t)
    \cup m_next_accept_from_scratch(t) \cup m_via_fallback(t) \cup m_conclude_fall_back(t)
    \cup m_fallback_known(t) \cup m_fallback_first(t) \cup m_fallback_extend(t)
    \cup m_fallback_step(t) \cup m_conclude_fallback_extend(t)

\* The planner commits to a decomposition of the first task.
Decompose ==
  /\ phase = "planned" /\ tasks # <<>>
  /\ \E m \in Methods(Head(tasks)) :
       /\ tasks' = m.tasks \o Tail(tasks)
       /\ transition' = transition \cup m.goes
       /\ fallback' = fallback \cup m.falls
       /\ fires' = fires \cup m.fires
  /\ UNCHANGED <<phase, problem, design, run>>

---------------------------------------------------------------------------
(***************************************************************************)
(* The machine rendered from the plan is simulated on any stream of bits,  *)
(* beside the model of it in check_sequence_detectors.py.                  *)
(***************************************************************************)
Planned == phase = "planned" /\ tasks = <<>>
Running == phase = "running"

Goes_to(x, b) == (CHOOSE t \in transition : t[1] = x /\ t[2] = b)[3]
MooreOutputs(x) == {a[1] : a \in {c \in design.asserted : c[2] = x}}

Reset ==
  /\ Planned \/ Running
  /\ phase' = "running"
  /\ at' = design.initial /\ hist' = design.initial /\ shown' = MooreOutputs(design.initial)
  /\ UNCHANGED <<problem, design, tasks, derived>>

\* Without overlapping, the bits before a match do not count for the next.
Hit == IsSuffix(problem.pattern, hist)
Clock(b) ==
  /\ Running /\ Len(hist) < MaxStream
  /\ hist' = Append(IF Hit /\ ~ problem.overlapping THEN <<>> ELSE hist, b)
  /\ at' = Goes_to(at, b)
  /\ shown' = MooreOutputs(at') \cup When(<<at, b>> \in fires, "detected")
  /\ UNCHANGED <<phase, problem, design, tasks, derived>>

Next == Decompose \/ Reset \/ \E b \in Bits : Clock(b)

Spec == Init /\ [][Next]_vars /\ WF_vars(Decompose)

---------------------------------------------------------------------------
(***************************************************************************)
(* What the description asks of the machine.                               *)
(***************************************************************************)
\* An output of a recogniser is due when the bits that have arrived, and the
\* one the reset stands for, end with a sequence of it and what continues it.
Due(out) ==
  \E f \in problem.recognises, k \in 0 .. Len(hist), b \in Bits :
     /\ f[1] = out
     /\ k > 0 => <<out, b>> \in problem.keeps
     /\ IsSuffix(sequence_bits(f[2]) \o [j \in 1 .. k |-> b], hist)

\* While a sequence is held, the machine remembers of the bits only the state
\* it is in. That is all there is to remember if every output reported there
\* goes on with them, no longer sequence begins with the held one, and the bits
\* that hold it neither begin nor break off another.
HeldApart ==
  \A h \in design.holds :
    /\ \A o \in MooreOutputs(h[1]) : <<o, h[2]>> \in problem.keeps
    /\ \A b \in Bits : Append(h[1], b) \notin design.states
    /\ \A q \in design.states \ {h[1]}, k \in 1 .. MaxStream :
         IsSuffix(q, h[1] \o [j \in 1 .. k |-> h[2]]) <=> IsSuffix(q, h[1])

Recognises ==
  IF problem.kind = "recogniser" THEN shown = {o \in {a[1] : a \in design.asserted} : Due(o)}
  ELSE Hit <=> "detected" \in shown

\* The machine derived for a file asserts each output after exactly the bits
\* the description asks for: the fallbacks worked out transition by transition
\* (rtl_domain.hddl) lose no occurrence that overlaps another and report none
\* that did not arrive.
MachineRecognises == Running /\ HeldApart => Recognises

\* The same of every file the compiler accepts, which promises that "What it
\* cannot express it refuses" (problem_compiler.py:36).
AcceptedIsRecognised == Running => Recognises

\* The compiler and the planner derive the same machine: the states it lists
\* and encodes before planning are the ones the derived transitions lead to,
\* each with both transitions, and their codes differ and fit the register.
ListedIsReached ==
  LET listed == ToSet(design.listed)
      code == design.encoding.code
      Reached[k \in 0 .. Cardinality(design.states)] ==
        IF k = 0 THEN {design.initial}
        ELSE LET before == Reached[k - 1]
             IN before \cup {t[3] : t \in {u \in transition : u[1] \in before}}
  IN Planned => /\ listed = Reached[Cardinality(design.states)]
                /\ \A x \in listed, b \in Bits : Known(x, b)
                /\ \A x \in listed : code[x] < 2 ^ design.encoding.width
                /\ \A x, y \in listed : code[x] = code[y] => x = y

\* "Every decision in this domain is forced" (check_sequence_detectors.py:26):
\* the first task has one decomposition, so derivation neither stops short nor
\* depends on a choice of the search.
Forced == tasks # <<>> => Cardinality(Methods(Head(tasks))) = 1

\* Derivation ends: every recursive task is on an earlier state.
Derived == <>(tasks = <<>>)
=============================================================================
