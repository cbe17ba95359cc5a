------------------------------ MODULE StepOrder ------------------------------
(***************************************************************************)
(* A checked list before it is lifted (eval/lift_loops.py): the empty      *)
(* blocks it opens and closes are taken out, and steps that commute are put*)
(* in the order of the chains the problem's facts put its objects in. A    *)
(* problem has its tag, module, facts and types of names; a step is        *)
(* <<name, arguments>>. How a module simulates is not modelled.            *)
(***************************************************************************)
EXTENDS RtlActions, VerilogText, Tying, SequencesExt

CONSTANTS
  Simulates(_, _)    \* does a problem's testbench pass the module of a plan?

---------------------------------------------------------------------------
(* What a list comes to.                                                   *)

\* What F makes of each member of a sequence.
Each(s, F(_)) == FlattenSeq([i \in DOMAIN s |-> <<F(s[i])>>])

task(s) == s[1] \in Tasks

\* A step has the arguments it takes, of the types it takes, by names of the problem.
Named(p, s) ==
  /\ DOMAIN s[2] = DOMAIN Types[s[1]]
  /\ \A j \in DOMAIN s[2] : s[2][j] \in DOMAIN p.types /\ p.types[s[2][j]] = Types[s[1]][j]

\* What a list does in a problem: the actions each step comes to, and the facts at the end.
doing(c, d) == [facts |-> d.facts, did |-> Append(c.did, d.acts)]

Course(p, steps) == FoldLeft(LAMBDA c, s : doing(c, Come(c.facts, <<s>>)), [facts |-> p.facts, did |-> <<>>], steps)

plans(c)   == c.facts # NoFacts
plan_of(c) == FlattenSeq(c.did)

Lines(plan) == FlattenSeq([i \in DOMAIN plan |-> lines_of(plan[i][1], plan[i][2], FALSE)])

Times(s, x) == Cardinality({i \in DOMAIN s : s[i] = x})

\* The same lines of code, in any order.
SameLines(l, k) == Len(l) = Len(k) /\ \A i \in DOMAIN l : Times(l, l[i]) = Times(k, l[i])

\* What is wrong with a plan that was found: render or simulate, if anything is.
writes(p, plan) == IF ~ code(plan).standing THEN "render" ELSE IF ~ Simulates(p, plan) THEN "simulate" ELSE "pass"

\* finish: it plans, and the module it comes to simulates correctly.
finish(p, c) == plans(c) /\ writes(p, plan_of(c)) = "pass"

\* The test of a list. The planner has one way to carry out what these tasks come to.
tested(p, c) == IF ~ plans(c) THEN "plan" ELSE writes(p, plan_of(c))

test_steps(p, steps) ==
  IF \E i \in DOMAIN steps : steps[i][1] \notin DOMAIN Types \/ ~ Named(p, steps[i]) THEN "names"
  ELSE tested(p, Course(p, steps))

---------------------------------------------------------------------------
(* Before lifting: empty blocks out, and what commutes in the chains' order*)

\* A step that writes nothing but a block's first line, one that writes
\* nothing but its last, and no code between. wrote: the lines of each step.
EmptyBlocks(wrote) ==
  {b \in (DOMAIN wrote) \X (DOMAIN wrote) :
     /\ b[1] < b[2] /\ Len(wrote[b[1]]) = 1 /\ Len(wrote[b[2]]) = 1
     /\ wrote[b[1]][1].opens = "begin" /\ wrote[b[2]][1] = End
     /\ \A i \in b[1] + 1 .. b[2] - 1 : wrote[i] = <<>>}

Without(steps, b) ==
  SubSeq(steps, 1, b[1] - 1) \o SubSeq(steps, b[1] + 1, b[2] - 1) \o SubSeq(steps, b[2] + 1, Len(steps))

\* out: the empty blocks the list passes without. The first goes, and so on.
RECURSIVE clean(_, _), Cleaned(_, _, _)
Cleaned(p, steps, out) ==
  IF out = {} THEN steps ELSE clean(p, Without(steps, CHOOSE b \in out : \A d \in out : b[1] <= d[1]))
clean(p, steps) ==
  Cleaned(p, steps, {b \in EmptyBlocks(Each(Course(p, steps).did, Lines)) : finish(p, Course(p, Without(steps, b)))})

\* The pairs a binary predicate relates, but for the module's.
Edges(p, pred) == {f[2] : f \in {g \in p.facts : g[1] = pred /\ Len(g[2]) = 2 /\ p.module \notin ToSet(g[2])}}

Heads(E) == {e[1] : e \in E} \ {e[2] : e \in E}
Tails(E) == {e[2] : e \in E} \ {e[1] : e \in E}

\* The edges of one path, in its order; none if they form no path.
Path(E) ==
  LET to(x) == {e[2] : e \in {d \in E : d[1] = x}}
      f[n \in 1 .. Cardinality(E) + 1] ==
        IF n = 1 THEN <<CHOOSE x \in Heads(E) : TRUE>>
        ELSE LET b == f[n - 1] IN IF to(Last(b)) = {} THEN b ELSE Append(b, CHOOSE y \in to(Last(b)) : TRUE)
  IN IF E # {} /\ Cardinality(Heads(E)) = 1 /\ Cardinality({e[1] : e \in E}) = Cardinality(E)
     THEN f[Cardinality(E) + 1] ELSE <<>>

Predicates(p) == {f[1] : f \in p.facts}

\* An object's place in the first chain, by the letters of its predicate, that has it.
Place(chains_, x) ==
  LET c == CHOOSE d \in chains_ : x \in ToSet(d[2]) /\ \A e \in chains_ : x \in ToSet(e[2]) => Alphabet[d[1]] <= Alphabet[e[1]]
  IN CHOOSE i \in DOMAIN c[2] : c[2][i] = x

Ranks(chains_) == [x \in UNION {ToSet(c[2]) : c \in chains_} |-> Place(chains_, x)]

chain_ranks(p) == Ranks({<<pred, Path(Edges(p, pred))>> : pred \in Predicates(p)})

\* The chain element a step is about: its first argument that has a place.
About(rank, s) ==
  LET with == {j \in DOMAIN s[2] : s[2][j] \in DOMAIN rank} IN
  IF with = {} THEN 0 ELSE rank[s[2][CHOOSE j \in with : \A i \in with : j <= i]]

Letters(s) == <<Alphabet[s[1]]>> \o [j \in 1 .. 5 |-> IF j \in DOMAIN s[2] THEN Alphabet[s[2][j]] ELSE 0]

decision(s)    == s[1] \in Decisions
declaration(s) == s[1] \in DECLARES
movable(s)     == decision(s) \/ declaration(s)

run_key(rank, s)   == <<About(rank, s)>> \o Letters(s)
order_key(rank, s) == <<About(rank, s), IF decision(s) THEN 0 ELSE 1>> \o Letters(s)

\* A task that comes only to declarations becomes those declarations.
Spell(s, acts) ==
  IF task(s) /\ acts # <<>> /\ \A k \in DOMAIN acts : declaration(acts[k]) THEN acts ELSE <<s>>

Spelt(steps, did) == FlattenSeq([i \in DOMAIN steps |-> Spell(steps[i], did[i])])

Swapped(steps, i) == [steps EXCEPT ![i - 1] = steps[i], ![i] = steps[i - 1]]

\* Should y go ahead of x? A declaration may go ahead of any other step.
Ahead(rank, x, y) ==
  \/ movable(x) /\ movable(y) /\ Less(order_key(rank, y), order_key(rank, x))
  \/ declaration(y) /\ ~ movable(x)

\* It plans, and to these lines in some order.
Holds(c, ref) == plans(c) /\ code(plan_of(c)).standing /\ SameLines(ref, Lines(plan_of(c)))

\* One pass over the list: each step that may, moves ahead of the one before it.
RECURSIVE Pass(_, _, _, _, _)
Pass(p, ref, rank, steps, i) ==
  IF i > Len(steps) THEN steps
  ELSE Pass(p, ref, rank,
            IF Ahead(rank, steps[i - 1], steps[i]) /\ Holds(Course(p, Swapped(steps, i)), ref) THEN Swapped(steps, i) ELSE steps,
            i + 1)

RECURSIVE Settled(_, _, _, _, _)
Settled(p, ref, rank, steps, next) ==
  IF next = steps THEN steps ELSE Settled(p, ref, rank, next, Pass(p, ref, rank, next, 2))

\* A run of decisions, each after those its key puts it after.
RECURSIVE Placed(_, _)
Placed(rank, run) ==
  IF run = <<>> THEN <<>>
  ELSE LET last == CHOOSE i \in DOMAIN run : \A j \in DOMAIN run : ~ Less(run_key(rank, run[i]), run_key(rank, run[j]))
       IN Append(Placed(rank, SubSeq(run, 1, last - 1) \o SubSeq(run, last + 1, Len(run))), run[last])

\* Each run of decisions in the chains' order.
Ordered(rank, steps) ==
  LET start(i) == decision(steps[i]) /\ (i = 1 \/ ~ decision(steps[i - 1]))
      end(i) == CHOOSE j \in i .. Len(steps) :
                  (\A k \in i .. j : decision(steps[k])) /\ (j = Len(steps) \/ ~ decision(steps[j + 1]))
  IN FlattenSeq([i \in DOMAIN steps |->
                   IF start(i) THEN Placed(rank, SubSeq(steps, i, end(i)))
                   ELSE IF decision(steps[i]) THEN <<>> ELSE <<steps[i]>>])

\* Two lists come to the same module and the same facts.
Equal(c, d) == plans(d) /\ Lines(plan_of(d)) = Lines(plan_of(c)) /\ d.facts = c.facts

InOrder(p, steps, out) == IF Equal(Course(p, steps), Course(p, out)) THEN out ELSE steps

in_order(p, steps) == InOrder(p, steps, Ordered(chain_ranks(p), steps))

\* The list in an order that settles, if it moved and still passes.
Finished(p, steps, spelt, out) == IF out # spelt /\ ~ finish(p, Course(p, out)) THEN steps ELSE out

Sorted(p, rank, ref, steps, spelt) ==
  Finished(p, steps, spelt, Settled(p, ref, rank, spelt, Pass(p, ref, rank, spelt, 2)))

Normalized(p, steps, c) ==
  Sorted(p, chain_ranks(p), Lines(plan_of(c)), steps, Spelt(steps, c.did))

normalize(p, steps) == Normalized(p, steps, Course(p, steps))
=============================================================================
