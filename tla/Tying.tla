-------------------------------- MODULE Tying --------------------------------
(***************************************************************************)
(* Facts of a problem read as the conditions of a method: what the two     *)
(* lifters, eval/lift.py and eval/lift_loops.py, share. A fact is          *)
(* <<predicate, names>>. A condition has a term for each argument, and a   *)
(* term is a variable or one of the domain's constants as it stands. A     *)
(* binding is what the variables bound so far are taken for.               *)
(***************************************************************************)
EXTENDS Naturals, Sequences, FiniteSets

CONSTANTS
  CONSTANTS_,   \* the names the domain fixes: zero, one and the polarities
  Alphabet      \* the place of each name in the order of their letters

Var(v) == [free |-> TRUE, id |-> v]
Is(x)  == [free |-> FALSE, id |-> <<x>>]

Value(b, t) == IF t.free THEN b[t.id] ELSE t.id[1]
Known(b, t) == t.free => t.id \in DOMAIN b

FreeIn(c) == {i \in DOMAIN c.reading : c.reading[i].free}
Vars(c) == {c.reading[i].id : i \in FreeIn(c)}

\* Where a pattern has the same unbound variable twice, so must the fact.
SameTwice(f, c) == \A i, j \in DOMAIN c.reading : c.reading[i] = c.reading[j] => f[2][i] = f[2][j]

matches(facts, b, c) ==
  {f \in facts :
     /\ f[1] = c.pred /\ DOMAIN f[2] = DOMAIN c.reading /\ SameTwice(f, c)
     /\ \A i \in DOMAIN c.reading : Known(b, c.reading[i]) => f[2][i] = Value(b, c.reading[i])}

\* The fact an example has where the condition is read for it.
FactOf(val, c) == <<c.pred, [i \in DOMAIN c.reading |-> Value(val, c.reading[i])]>>

\* Mutant: the example's fact matches; another may match too.
picks_out_some(facts, val, bound, c) == FactOf(val, c) \in matches(facts, [v \in bound |-> val[v]], c)

\* Where an example's variables are val, do its facts, with those of bound
\* filled in, match the condition once, and as the example has it?
picks_out(facts, val, bound, c) == matches(facts, [v \in bound |-> val[v]], c) = {FactOf(val, c)}

\* Every way of reading a fact's arguments as variables or constants.
choices(val, a)  == {Var(v) : v \in {u \in DOMAIN val : val[u] = a}} \cup {Is(x) : x \in {a} \cap CONSTANTS_}
readings(val, f) ==
  {q \in [DOMAIN f[2] -> UNION {choices(val, f[2][i]) : i \in DOMAIN f[2]}] :
     \A i \in DOMAIN f[2] : Value(val, q[i]) = f[2][i]}

\* Of the first example's facts, those that can tie a variable more in all of them.
Candidates(examples, vals, bound) ==
  {c \in UNION {{[pred |-> f[1], reading |-> q] : q \in readings(vals[1], f)} : f \in examples[1]} :
     Vars(c) \ bound # {} /\ \A k \in DOMAIN examples : picks_out(examples[k], vals[k], bound, c)}

\* Is one list of numbers before another of its length?
Less(s, t) == \E i \in DOMAIN s : s[i] < t[i] /\ \A j \in 1 .. i - 1 : s[j] = t[j]

---------------------------------------------------------------------------
(* The planner's side: what a condition that holds makes of a binding.     *)

Extended(b, c, f) ==
  [v \in DOMAIN b \cup Vars(c) |->
     IF v \in DOMAIN b THEN b[v] ELSE f[2][CHOOSE i \in FreeIn(c) : c.reading[i].id = v]]

Bound(facts, bs, c) == UNION {{Extended(b, c, f) : f \in matches(facts, b, c)} : b \in bs}

BoundBy(facts, bs, conditions) ==
  LET f[i \in 0 .. Len(conditions)] == IF i = 0 THEN bs ELSE Bound(facts, f[i - 1], conditions[i])
  IN f[Len(conditions)]
=============================================================================
