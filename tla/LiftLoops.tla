------------------------------ MODULE LiftLoops ------------------------------
(***************************************************************************)
(* Recursive methods from one checked list (eval/lift_loops.py): a run of  *)
(* steps that goes over the elements of a chain is a loop, and a loop      *)
(* becomes a task that walks the chain, with methods for each variant its  *)
(* groups have, told apart by facts about the element.                     *)
(*                                                                         *)
(* An item is a step, with what the actions it comes to in the list need   *)
(* and leave, or a loop.                                                   *)
(* A variable is <<tag, what>>: the module, the element, a parameter of the*)
(* walk, an argument's column, or where a walk starts.                     *)
(***************************************************************************)
EXTENDS StepOrder

---------------------------------------------------------------------------
(* Chains.                                                                 *)

\* Does mark name this end of the pred chain in these facts, if there is one?
marks(facts, pred, mark, end) ==
  LET E == {f[2] : f \in {g \in facts : g[1] = pred /\ Len(g[2]) = 2}} IN
  E # {} => {f[2][2] : f \in {g \in facts : g[1] = mark /\ Len(g[2]) = 2}} = IF end = "first" THEN Heads(E) ELSE Tails(E)

\* The facts of the module that name this element and no other, here and,
\* where the others have the chain, in them.
Marks(p, others, pred, x, end) ==
  {q \in Predicates(p) :
     /\ Fact(q, <<p.module, x>>) \in p.facts
     /\ \A g \in p.facts : g[1] = q /\ Len(g[2]) = 2 => g[2][2] = x
     /\ \A facts \in others : marks(facts, pred, q, end)}

ByLetters(S) == CHOOSE x \in S : \A y \in S : Alphabet[x] <= Alphabet[y]

TypedEdges(p, pred) ==
  {f[2] : f \in {g \in p.facts : g[1] = pred /\ Len(g[2]) = 2 /\ g[2][1] # p.module /\ p.types[g[2][1]] = p.types[g[2][2]]}}

\* Every element of the chain is on the path, and none twice.
whole(order, E) == order # <<>> /\ Len(order) = Cardinality(E) + 1 /\ Cardinality({e[2] : e \in E}) = Cardinality(E)

chain(p, others, pred, order) ==
  [first |-> Marks(p, others, pred, order[1], "first"), next |-> pred,
   last |-> Marks(p, others, pred, Last(order), "last"), order |-> order]

\* Every chain the facts define, with facts that name its ends.
chains(p, others) ==
  {[c EXCEPT !.first = ByLetters(@), !.last = ByLetters(@)] :
     c \in {d \in {chain(p, others, e[1], e[2]) :
                     e \in {<<pred, Path(TypedEdges(p, pred))>> :
                               pred \in {q \in Predicates(p) : whole(Path(TypedEdges(p, q)), TypedEdges(p, q))}}} :
             d.first # {} /\ d.last # {}}}

---------------------------------------------------------------------------
(* Loops. The chains are tried in an order the run's hashing decides.      *)

\* Which argument of the step names the element, 0 if none does.
chain_position(step, c, position) ==
  LET on == {j \in DOMAIN step[2] : step[2][j] \in ToSet(c.order)} IN
  IF step[1] \in DOMAIN position THEN (IF position[step[1]] \in on THEN position[step[1]] ELSE 0)
  ELSE IF on = {} THEN 0 ELSE CHOOSE j \in on : \A i \in on : j <= i

\* Does a step about x begin a group of its own?
Joins(groups, x) == x \notin {g[1] : g \in ToSet(groups)}

\* The run with a step whose argument j names the element.
with(run, k, s, j) ==
  LET again == run.groups # <<>> /\ Last(run.groups)[1] = s[2][j] IN
  IF j = 0 \/ ~ (again \/ Joins(run.groups, s[2][j])) THEN run
  ELSE [to |-> k, position |-> run.position @@ (s[1] :> j),
        groups |-> IF again THEN [run.groups EXCEPT ![Len(run.groups)][2] = Append(@, s)]
                   ELSE Append(run.groups, <<s[2][j], <<s>> >>)]

\* A run, and every step from k on that goes on with it.
RECURSIVE grown(_, _, _, _)
grown(steps, k, c, run) ==
  IF k > Len(steps) \/ run.to < k - 1 THEN run
  ELSE grown(steps, k + 1, c, with(run, k, steps[k], chain_position(steps[k], c, run.position)))

\* The longest run from step i that groups by elements of the chain.
grow(steps, i, c) == grown(steps, i, c, [to |-> i - 1, position |-> <<>>, groups |-> <<>>]) @@ [chain |-> c]

StepItem(s)         == [kind |-> "step", step |-> s]
LoopItem(c, groups) == [kind |-> "loop", chain |-> c, groups |-> groups]

LoopsIn(items) == {items[i].chain.next : i \in {j \in DOMAIN items : items[j].kind = "loop"}}

\* The longest of the runs that have groups enough, the first chain's if two are.
Able(runs, forced) == {k \in DOMAIN runs : Len(runs[k].groups) >= IF runs[k].chain.next \in forced THEN 1 ELSE 2}
Best(runs, able)   == {runs[k] : k \in {j \in able : \A i \in able : runs[i].to < runs[j].to \/ (runs[i].to = runs[j].to /\ j <= i)}}
best_run(runs, forced) == Best(runs, Able(runs, forced))

\* Steps as items. A loop over a chain of forced is taken even with one group.
RECURSIVE fold(_, _, _, _), Folded(_, _, _, _, _), Inner(_, _, _)
fold(steps, i, all_chains, forced) ==
  IF i > Len(steps) THEN <<>>
  ELSE Folded(steps, i, all_chains, forced, best_run(Each(all_chains, LAMBDA c : grow(steps, i, c)), forced))

\* A loop that one group's steps form, every group's steps form.
Inner(groups, rest, inside) == Each(groups, LAMBDA g : <<g[1], fold(g[2], 1, rest, inside)>>)

Folded(steps, i, all_chains, forced, best) ==
  IF best = {} THEN <<StepItem(steps[i])>> \o fold(steps, i + 1, all_chains, forced)
  ELSE LET run == The(best)
           rest == SelectSeq(all_chains, LAMBDA c : c # run.chain)
       IN <<LoopItem(run.chain, Inner(run.groups, rest, UNION {LoopsIn(g[2]) : g \in ToSet(Inner(run.groups, rest, {}))}))>>
          \o fold(steps, run.to + 1, all_chains, forced)

RECURSIVE flatten(_)
flatten(items) ==
  FlattenSeq([i \in DOMAIN items |->
          IF items[i].kind = "step" THEN <<items[i].step>>
          ELSE FlattenSeq([g \in DOMAIN items[i].groups |-> flatten(items[i].groups[g][2])])])

shape(items) ==
  [i \in DOMAIN items |-> IF items[i].kind = "step" THEN <<"step", items[i].step[1]>> ELSE <<"loop", items[i].chain.next>>]

---------------------------------------------------------------------------
(* Lifting a block: one body from instances of it that do the same thing,  *)
(* each its items, the state before it and what the variables of its       *)
(* context are there. A body is its conditions and its subtasks.           *)

Module  == <<"m", "">>
Element == <<"e", "">>

CannotLift == [ok |-> FALSE, conds |-> <<>>, bound |-> {}, subtasks |-> <<>>]

\* Fewest variables at once, then facts about the element, then the module.
tie_key(bound, c) ==
  <<Cardinality(Vars(c) \ bound), IF Element \in Vars(c) THEN 0 ELSE 1, IF Module \in Vars(c) THEN 0 ELSE 1,
    Cardinality({i \in FreeIn(c) : c.reading[i].id \notin {Element, Module}}), Alphabet[c.pred]>>

RECURSIVE tie(_, _, _, _, _), Tying_on(_, _, _, _, _, _)
tie(states, vals, bound, tentative, conds) ==
  Tying_on(states, vals, bound, tentative, conds,
           IF bound = DOMAIN vals[1] THEN {} ELSE Candidates(states, vals, bound))

\* cands: the conditions that would tie more. The best of them ties the next.
Tying_on(states, vals, bound, tentative, conds, cands) ==
  IF cands = {} THEN [CannotLift EXCEPT !.ok = DOMAIN vals[1] \ bound \subseteq tentative, !.conds = conds, !.bound = bound]
  ELSE LET c == CHOOSE x \in cands : \A y \in cands : ~ Less(tie_key(bound, y), tie_key(bound, x))
       IN tie(states, vals, bound \cup Vars(c), tentative, Append(conds, c))

Column(insts, n, j) == [k \in DOMAIN insts |-> insts[k].items[n].step[2][j]]

Constant(col) == \E x \in CONSTANTS_ : \A k \in DOMAIN col : col[k] = x

\* What an argument's column is called: the innermost variable of the context
\* that it equals, or a variable of its own if that is tied down, or its constant.
name_of(insts, context, bound, col) ==
  LET same == {i \in DOMAIN context : \A k \in DOMAIN col : insts[k].values[context[i]] = col[k]} IN
  IF same # {} THEN Var(context[CHOOSE i \in same : \A j \in same : j <= i])
  ELSE IF <<"v", col>> \in bound THEN Var(<<"v", col>>) ELSE Is(col[1])

\* In a loop a constant that is the same in every group is the loop's own.
Fresh(insts, context, keep_constants) ==
  {<<"v", col>> : col \in
     {c \in UNION {{Column(insts, n, j) : j \in DOMAIN insts[1].items[n].step[2]} :
                      n \in {i \in DOMAIN insts[1].items : insts[1].items[i].kind = "step"}} :
        /\ \A i \in DOMAIN context : \E k \in DOMAIN insts : insts[k].values[context[i]] # c[k]
        /\ ~ (keep_constants /\ Constant(c))}}

Tied(insts, context, fresh) ==
  tie([k \in DOMAIN insts |-> insts[k].state],
      Each([k \in DOMAIN insts |-> k], LAMBDA k : insts[k].values @@ [v \in fresh |-> v[2][k]]),
      ToSet(context), {v \in fresh : Constant(v[2])}, <<>>)

\* Where the loop of item n starts in the body's own conditions.
Start(n, c) == [pred |-> c.first, reading |-> <<Var(Module), Var(<<"s", n>>)>>]

---------------------------------------------------------------------------
(* Telling the variants of a loop apart.                                   *)

Some == Is("_")

\* Facts about the element or the context that hold before a row, each
\* argument read as a variable, a constant, or some object.
Back(row, vars, x) == {Var(v) : v \in {u \in vars : row.values[u] = x}} \cup {Is(y) : y \in {x} \cap CONSTANTS_} \cup {Some}

\* A reading says more than that some objects are so, or the module is.
Literals(pred, backs) ==
  {[pred |-> pred, args |-> q] :
     q \in {r \in [DOMAIN backs -> UNION ToSet(backs)] :
              (\A i \in DOMAIN r : r[i] \in backs[i]) /\ \E i \in DOMAIN r : r[i].free /\ r[i].id # Module}}

literals(row, context) ==
  LET others == {row.values[v] : v \in ToSet(context) \ {Module, Element}} IN
  UNION {Literals(f[1], Each(f[2], LAMBDA x : Back(row, ToSet(context), x))) :
           f \in {g \in row.state : row.values[Element] \in ToSet(g[2]) \/ ToSet(g[2]) \cap others # {}}}

Reads(facts, l, b) ==
  \E f \in facts : /\ f[1] = l.pred /\ DOMAIN f[2] = DOMAIN l.args
                   /\ \A i \in DOMAIN f[2] : l.args[i] = Some \/ f[2][i] = Value(b, l.args[i])

\* What the actions of each row need comes first, present or absent. A group
\* of no steps is told by the element's kind, then by what the others need.
\* Where an element stands in a chain comes last.
tell_key(lx, l, present, mine, ruled, empty) ==
  LET needed(rows, which) == \A r \in rows : Reads(IF which = "present" THEN r.needs ELSE r.shuns, l, r.values)
      rank == IF present
              THEN IF empty /\ l.args = <<Var(Element)>> THEN 0 ELSE IF needed(mine, "present") THEN 1 ELSE 3
              ELSE IF needed(mine, "absent") THEN 1 ELSE IF needed(ruled, "present") THEN 2 ELSE 3
      named == {i \in DOMAIN l.args : l.args[i].free}
  IN <<rank, IF present THEN 0 ELSE 1, IF l.pred \in lx.chain_preds THEN 1 ELSE 0,
       IF \E i \in named : l.args[i].id = Element THEN 0 ELSE 1,
       Cardinality({i \in named : l.args[i].id \notin {Module, Element}}),
       Cardinality({i \in DOMAIN l.args : l.args[i] = Some}), Len(l.args), Alphabet[l.pred]>>

\* Those whose key comes first, its numbers before the n-th being equal.
Having(S, n, x) == {c \in S : c.key[n] = x}
RECURSIVE Least(_, _)
Least(S, n) ==
  IF S = {} \/ n > Len(The(S).key) THEN S ELSE Least(Having(S, n, Min({c.key[n] : c \in S})), n + 1)

\* The first of the candidates that rule out some of what is left, and so on.
RECURSIVE Greedy(_, _), Greedy_on(_, _, _)
Telling(c, rest) == [rest EXCEPT !.lits = @ \cup {[lit |-> c.lit, present |-> c.present]}]
Greedy_on(cands, left, best) ==
  IF left = {} THEN [ok |-> TRUE, lits |-> {}]
  ELSE IF best = {} THEN [ok |-> FALSE, lits |-> {}]
  ELSE Telling(The(best), Greedy(cands \ {The(best)}, left \ The(best).out))
Greedy(cands, left) == Greedy_on(cands, left, Least({c \in cands : c.out \cap left # {}}, 1))

\* of: the literals that hold before each row; others: the rows mine are told from.
cand(lx, rows, mine, of, others, l, present) ==
  LET out == {r \in others : present # (l \in of[r])} IN
  [lit |-> l, present |-> present, out |-> out,
   key |-> tell_key(lx, l, present, {rows[r] : r \in mine}, {rows[r] : r \in out}, rows[The(mine)].items = <<>>)]

\* Mutant: in some of the rows of mine.
common_some(of, mine) == UNION {of[r] : r \in mine}

\* In all the rows of mine, or in none of them.
common(of, mine)         == {l \in of[The(mine)] : \A r \in mine : l \in of[r]}
theirs(of, mine, others) == UNION {of[r] : r \in others} \ UNION {of[r] : r \in mine}

\* Mutant: a variant is told from no other.
Told_nothing(lx, rows, mine, of, others) == [ok |-> TRUE, lits |-> {}]

\* Literals that hold before every row of mine and before none of the others.
Told(lx, rows, mine, of, others) ==
  Greedy({cand(lx, rows, mine, of, others, c[1], c[2]) :
            c \in {d \in (common(of, mine) \X {TRUE}) \cup (theirs(of, mine, others) \X {FALSE}) :
                      \E r \in others : d[2] # (d[1] \in of[r])}},
         others)

tell(lx, rows, mine, context) ==
  Told(lx, rows, mine, Each(rows, LAMBDA r : literals(r, context)), DOMAIN rows \ mine)

---------------------------------------------------------------------------
(* The walk over a chain, and the methods of a whole list.                 *)

\* A step as it is folded: with its actions' needs and effects, in order.
Item(s, acts) ==
  <<s[1], s[2], Each(acts, LAMBDA a : action(a[1], a[2]))>>

\* Steps that come to no actions are no part of a group.
prune(items) == SelectSeq(items, LAMBDA it : it.kind = "loop" \/ it.step[3] # <<>>)

does(items) == UNION {ToSet(s[3]) : s \in ToSet(flatten(items))}

\* A row for each element, in the chain's order: its group, and what holds
\* before it if the loop starts where the block that has it starts.
RECURSIVE Rows(_, _, _, _), Row_on(_, _, _, _, _, _)
Row_on(loop, i, state, values, items, acts) ==
  <<[items |-> items, state |-> state, values |-> values @@ (Element :> loop.chain.order[i]),
     needs |-> UNION {a.pre : a \in acts} \cap state, shuns |-> UNION {a.neg : a \in acts} \ state]>>
  \o Rows(loop, i + 1, state \cup UNION {a.eff : a \in acts}, values)
Rows(loop, i, state, values) ==
  LET of(x) == FlattenSeq(Each(SelectSeq(loop.groups, LAMBDA g : g[1] = x), LAMBDA g : prune(g[2]))) IN
  IF i > Len(loop.chain.order) THEN <<>>
  ELSE Row_on(loop, i, state, values, of(loop.chain.order[i]), does(of(loop.chain.order[i])))

\* What a loop's walk takes besides the module: what else its block knows
\* before it, and where the loops before it start.
loops_of(items) == {n \in DOMAIN items : items[n].kind = "loop"}

outer_vars(context, bound, items, n) ==
  SelectSeq(context, LAMBDA v : v # Module)
  \o FoldSet(LAMBDA v, s : Append(s, v), <<>>, (bound \ ToSet(context)) \cup {<<"s", i>> : i \in {j \in loops_of(items) : j < n}})

outers(insts, vars) ==
  [k \in DOMAIN insts |->
     [state |-> insts[k].state,
      values |-> [v \in {Module} \cup ToSet(vars) |->
                    IF v[1] = "s" THEN insts[k].items[v[2]].chain.order[1]
                    ELSE IF v[1] = "v" THEN v[2][k] ELSE insts[k].values[v]]]]

\* A walk's context: the module, its parameters by what they are outside, the element.
params_of(vars)  == [i \in DOMAIN vars |-> <<"c", vars[i]>>]
context_of(vars) == <<Module>> \o params_of(vars) \o <<Element>>

known(vars, outer) == [v \in {Module} \cup ToSet(params_of(vars)) |-> outer.values[IF v = Module THEN v ELSE v[2]]]

rows_of(loops, outs, vars) ==
  FlattenSeq(Each([k \in DOMAIN loops |-> k], LAMBDA k : Rows(loops[k], 1, outs[k].state, known(vars, outs[k]))))

Step(insts, context, bound, n) ==
  [kind |-> "step", name |-> insts[1].items[n].step[1],
   args |-> [j \in DOMAIN insts[1].items[n].step[2] |-> name_of(insts, context, bound, Column(insts, n, j))]]

\* A block with its subtasks: its conditions, and where its loops start.
Body(t, items, subtasks) ==
  IF ~ t.ok \/ \E n \in loops_of(items) : ~ subtasks[n].walk.ok THEN CannotLift
  ELSE [t EXCEPT !.subtasks = subtasks,
                 !.conds = @ \o FlattenSeq([n \in DOMAIN items |-> IF items[n].kind = "loop" THEN <<Start(n, items[n].chain)>> ELSE <<>>])]

\* A loop over a chain, of a variant for each shape of its groups.
Variants(c, vars, variants) ==
  [ok |-> \A v \in variants : v.tell.ok /\ v.body.ok, chain |-> c, params |-> ToSet(params_of(vars)),
   variants |-> {[lits |-> v.tell.lits, conds |-> v.body.conds, subtasks |-> v.body.subtasks] : v \in variants}]

RECURSIVE lift_block(_, _, _, _), Subtasks(_, _, _, _), lift_loop(_, _, _, _), Walk_of(_, _, _, _), Body_of(_, _, _, _)

lift_block(lx, insts, context, keep_constants) ==
  Subtasks(lx, insts, context, Tied(insts, context, Fresh(insts, context, keep_constants)))

Subtasks(lx, insts, context, t) ==
  LET items == insts[1].items
      walk(n, vars) == lift_loop(lx, [k \in DOMAIN insts |-> insts[k].items[n]], outers(insts, vars), vars)
      subtask(n) ==
        IF items[n].kind = "step" THEN Step(insts, context, t.bound, n)
        ELSE [kind |-> "loop", start |-> <<"s", n>>, walk |-> walk(n, outer_vars(context, t.bound, items, n))]
  IN Body(t, items, IF t.ok THEN Each([n \in DOMAIN items |-> n], subtask) ELSE <<>>)

lift_loop(lx, loops, outs, vars) == Walk_of(lx, loops[1].chain, rows_of(loops, outs, vars), vars)

Body_of(lx, rows, vars, s) ==
  IF s = <<>> THEN [CannotLift EXCEPT !.ok = TRUE]
  ELSE lift_block(lx, SelectSeq(rows, LAMBDA r : shape(r.items) = s), context_of(vars), TRUE)

Walk_of(lx, c, rows, vars) ==
  Variants(c, vars,
    {[tell |-> tell(lx, rows, {r \in DOMAIN rows : shape(rows[r].items) = s}, context_of(vars)), body |-> Body_of(lx, rows, vars, s)] :
       s \in {shape(r.items) : r \in ToSet(rows)}})

\* The method for a whole list: what it does, the kind of design it is for, and its items.
Method(p, items, body) ==
  [ok |-> body.ok, module |-> Module, conds |-> body.conds, subtasks |-> body.subtasks, absent |-> {},
   kinds |-> {f[1] : f \in {g \in p.facts : g[2] = <<p.module>>}}, items |-> items]

Lifter(p, items, order) ==
  Method(p, items,
         lift_block([chain_preds |-> UNION {{c.first, c.next, c.last} : c \in ToSet(order)}],
                    <<[items |-> items, state |-> p.facts, values |-> Module :> p.module]>>, <<Module>>, FALSE))

lift_family(p, steps, did, order) ==
  Lifter(p, fold(Each([i \in DOMAIN steps |-> i], LAMBDA i : Item(steps[i], did[i])), 1, order, {}), order)

---------------------------------------------------------------------------
(* The planner with these methods: every plan it may find.                 *)

RECURSIVE Run(_, _, _, _), Walk(_, _, _, _)

Does(d, st) == IF d.facts = NoFacts THEN {} ELSE {[plan |-> st.plan \o d.acts, facts |-> d.facts]}

Do(t, b, st) ==
  IF t.kind = "loop"
  THEN Walk(t.walk, [v \in {Module} \cup t.walk.params |-> b[IF v = Module THEN v ELSE v[2]]], b[t.start], st)
  ELSE Does(Come(st.facts, << <<t.name, [j \in DOMAIN t.args |-> Value(b, t.args[j])]>> >>), st)

Run(subtasks, b, i, sts) ==
  IF i > Len(subtasks) THEN sts ELSE Run(subtasks, b, i + 1, UNION {Do(subtasks[i], b, st) : st \in sts})

Here(w, b, st) ==
  UNION {UNION {Run(v.subtasks, bb, 1, {st}) : bb \in BoundBy(st.facts, {b}, v.conds)} :
           v \in {u \in w.variants : \A l \in u.lits : Reads(st.facts, l.lit, b) = l.present}}

Walk(w, b, x, st) ==
  UNION {(IF Fact(w.chain.last, <<b[Module], x>>) \in st.facts THEN {q} ELSE {})
         \cup UNION {Walk(w, b, y, q) : y \in NextIn(st.facts, w.chain.next, x)} : q \in Here(w, b @@ (Element :> x), st)}

\* The plans of a problem.
Plans(m, p) ==
  IF \E k \in m.kinds : Fact(k, <<p.module>>) \notin p.facts THEN {}
  ELSE {st.plan : st \in UNION {Run(m.subtasks, b, 1, {[plan |-> <<>>, facts |-> p.facts]}) :
                                 b \in BoundBy(p.facts, {m.module :> p.module}, m.conds)}}
=============================================================================
