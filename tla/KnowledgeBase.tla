---------------------------- MODULE KnowledgeBase ----------------------------
(***************************************************************************)
(* The knowledge bases of one search (lib/kb.h), one for each state that   *)
(* is alive, and the ways the planner makes, writes, asks and drops them.  *)
(*                                                                         *)
(* A state has a pointer per predicate to a buffer with the tuples that    *)
(* hold. Copies share buffers; a write detaches the buffer it writes to.   *)
(* A state also has a text of its facts for Z3, built when first asked,    *)
(* copied along, and cleared by update_state but not by each write.        *)
(*                                                                         *)
(* Names are interned: a fact is a predicate with a tuple. One thread      *)
(* works on the states of a search.                                        *)
(***************************************************************************)
EXTENDS Naturals, Sequences, FiniteSets, SequencesExt

CONSTANTS
  States,        \* the KnowledgeBase objects there may be at one time, numbered
  Root,          \* the one the search starts from
  Predicates,
  Tuples,        \* the argument tuples there are
  Facts,         \* the predicates with the tuples of their arity
  Extension,     \* the type facts: per predicate its tuples, in the order found
  Declined,      \* conditions of effects that the direct evaluator leaves to Z3
  Stale          \* a text that is not built

\* The addresses of buffers, as many as there can be pointers; an empty relation
\* may have none.
Buffers == States \X Predicates
Null    == << >>

ASSUME KbAssumption ==
  /\ States \subseteq Nat /\ IsFiniteSet(States) /\ IsFiniteSet(Predicates)
  /\ Root \in States /\ Facts \subseteq Predicates \X Tuples
  /\ Extension \in [Predicates -> Seq(Tuples)]
  /\ \A p \in Predicates : IsInjective(Extension[p])
  /\ Declined \subseteq Facts /\ \A F \in SUBSET Facts : Stale # F

VARIABLES
  relations,   \* for each living state, its buffer of every predicate
  buffer,      \* the content of each allocated buffer
  text,        \* the facts the text of a state was built from, or Stale
  step,        \* "load" or "apply" while a state is written to, else "idle"
  open,        \* the state being written to
  misled       \* history: Z3 gave an answer that is not of the state's facts

vars == <<relations, buffer, text, step, open, misled>>

live == DOMAIN relations

---------------------------------------------------------------------------
relation_of(k, p) == IF relations[k][p] = Null THEN << >> ELSE buffer[relations[k][p]]

\* The facts of a state, which the direct evaluator answers from.
FactsOf(k) == {f \in Facts : f[2] \in ToSet(relation_of(k, f[1]))}

\* The buffers somebody points to.
InUse == {relations[k][p] : k \in live, p \in Predicates} \ {Null}

use_count(b) == Cardinality({kp \in live \X Predicates : relations[kp[1]][kp[2]] = b})

\* make_shared: which free address does not matter, so it is the first.
make_shared(p) ==
  LET free == {s \in States : <<s, p>> \notin DOMAIN buffer} IN
  {<<s, p>> : s \in {t \in free : \A u \in free : t <= u}}

\* Mutant of relation_mut: the buffer is written to where it is.
relation_mutInPlace(k, p, content) ==
  \E c \in IF relations[k][p] # Null THEN {relations[k][p]} ELSE make_shared(p) :
    /\ relations' = [relations EXCEPT ![k] = [@ EXCEPT ![p] = c]]
    /\ buffer' = [b \in DOMAIN buffer \cup {c} |-> IF b = c THEN content ELSE buffer[b]]

\* relation_mut and the write its caller makes: to the buffer of the state if
\* nobody shares it, else to a new one that is the state's from then on.
relation_mut(k, p, content) ==
  \E c \in IF relations[k][p] # Null /\ use_count(relations[k][p]) = 1
             THEN {relations[k][p]} ELSE make_shared(p) :
    /\ relations' = [relations EXCEPT ![k] = [@ EXCEPT ![p] = c]]
    /\ buffer' = [b \in DOMAIN buffer \cup {c} |-> IF b = c THEN content ELSE buffer[b]]

\* find_tuple: the first place a tuple is at.
find_tuple(rel, t) == {i \in DOMAIN rel : rel[i] = t /\ \A j \in 1 .. i - 1 : rel[j] # t}

\* Mutant of set_tuple: a fact is added without a look.
set_tupleUnseen(k, f, remove) ==
  LET rel == relation_of(k, f[1]) IN
  \/ remove /\ \E i \in find_tuple(rel, f[2]) : relation_mut(k, f[1], RemoveAt(rel, i))
  \/ ~ remove /\ relation_mut(k, f[1], Append(rel, f[2]))

\* Mutant of set_tuple: the buffer is detached before the look.
set_tupleDetached(k, f, remove) ==
  LET rel == relation_of(k, f[1])
      at  == find_tuple(rel, f[2]) IN
  \/ remove /\ \E i \in at : relation_mut(k, f[1], RemoveAt(rel, i))
  \/ ~ remove /\ at = {} /\ relation_mut(k, f[1], Append(rel, f[2]))
  \/ remove = (at = {}) /\ relation_mut(k, f[1], rel)

\* set_tuple, with update_state off as every caller in the planner has it. A
\* write that changes nothing detaches nothing.
set_tuple(k, f, remove) ==
  LET rel == relation_of(k, f[1])
      at  == find_tuple(rel, f[2]) IN
  \/ remove /\ \E i \in at : relation_mut(k, f[1], RemoveAt(rel, i))
  \/ ~ remove /\ at = {} /\ relation_mut(k, f[1], Append(rel, f[2]))
  \/ remove = (at = {}) /\ UNCHANGED <<relations, buffer>>

\* ensure_smt: what Z3 answers from.
TextFor(k) == IF text[k] = Stale THEN FactsOf(k) ELSE text[k]

\* KnowledgeBase::ask of one fact, by way of Z3.
AskZ3(k, f) ==
  /\ text' = [text EXCEPT ![k] = TextFor(k)]
  /\ misled' = (misled \/ (f \in TextFor(k)) # (f \in FactsOf(k)))

---------------------------------------------------------------------------
\* The constructor: the root with the type facts.
Init ==
  /\ relations = [k \in {Root} |->
                   [p \in Predicates |-> IF Extension[p] = << >> THEN Null ELSE <<Root, p>>]]
  /\ buffer = [b \in {<<Root, p>> : p \in {q \in Predicates : Extension[q] # << >>}} |->
                Extension[b[2]]]
  /\ text = [k \in {Root} |-> Stale]
  /\ step = "load" /\ open = Root /\ misled = FALSE

\* A fact of the problem's initial state.
Tell(f) ==
  /\ step = "load" /\ set_tuple(open, f, FALSE)
  /\ UNCHANGED <<text, step, open, misled>>

\* An effect of the action, of one object if it is quantified.
Effect(f, remove) ==
  /\ step = "apply" /\ set_tuple(open, f, remove)
  /\ UNCHANGED <<text, step, open, misled>>

\* The same with a condition, asked of the state as it is by then.
ConditionalEffect(c, f, remove) ==
  /\ step = "apply"
  /\ IF c \in Declined THEN AskZ3(open, c) ELSE UNCHANGED <<text, misled>>
  /\ IF c \in (IF c \in Declined THEN TextFor(open) ELSE FactsOf(open))
       THEN set_tuple(open, f, remove)
       ELSE UNCHANGED <<relations, buffer>>
  /\ UNCHANGED <<step, open>>

\* Mutant of Close: the text is not cleared after the effects.
CloseUnrefreshed ==
  /\ step # "idle" /\ step' = "idle"
  /\ UNCHANGED <<relations, buffer, text, open, misled>>

\* The end of loading and of apply_binding: update_state.
Close ==
  /\ step # "idle" /\ step' = "idle"
  /\ text' = [text EXCEPT ![open] = Stale]
  /\ UNCHANGED <<relations, buffer, open, misled>>

\* A query about a state, of a precondition or by a score function, that the
\* direct evaluator leaves to Z3.
Ask(k, f) ==
  /\ step = "idle" /\ k \in live
  /\ AskZ3(k, f)
  /\ UNCHANGED <<relations, buffer, step, open>>

\* update_state, of a state the search keeps.
Refresh(k) ==
  /\ step = "idle" /\ k \in live
  /\ text' = [text EXCEPT ![k] = Stale]
  /\ UNCHANGED <<relations, buffer, step, open, misled>>

\* A copy shares every buffer and carries the text: of a node of the search, of
\* the state of an action without effects, or to apply effects to.
Copy(k, n) ==
  /\ step = "idle" /\ k \in live /\ n \in States \ live
  /\ relations' = [j \in live \cup {n} |-> relations[IF j = n THEN k ELSE j]]
  /\ text' = [j \in live \cup {n} |-> text[IF j = n THEN k ELSE j]]
  /\ UNCHANGED <<buffer, misled>>

CopyNode(k, n)   == Copy(k, n) /\ UNCHANGED <<step, open>>
StartApply(k, n) == Copy(k, n) /\ step' = "apply" /\ open' = n

\* Mutant of Discard: the buffers stay when the last state that used them goes.
DiscardLeaking(k) ==
  /\ step = "idle" /\ k \in live
  /\ relations' = [j \in live \ {k} |-> relations[j]]
  /\ text' = [j \in live \ {k} |-> text[j]]
  /\ UNCHANGED <<buffer, step, open, misled>>

\* A state goes, and with it the buffers that nobody shared.
Discard(k) ==
  /\ step = "idle" /\ k \in live
  /\ relations' = [j \in live \ {k} |-> relations[j]]
  /\ text' = [j \in live \ {k} |-> text[j]]
  /\ buffer' = [b \in {relations[j][p] : j \in live \ {k}, p \in Predicates} \ {Null} |-> buffer[b]]
  /\ UNCHANGED <<step, open, misled>>

Next ==
  \/ Close
  \/ \E f \in Facts : Tell(f)
  \/ \E f \in Facts, remove \in BOOLEAN :
       Effect(f, remove) \/ \E c \in Facts : ConditionalEffect(c, f, remove)
  \/ \E k \in States : Refresh(k) \/ Discard(k) \/ \E f \in Facts : Ask(k, f)
  \/ \E k, n \in States : CopyNode(k, n) \/ StartApply(k, n)

Spec == Init /\ [][Next]_vars

---------------------------------------------------------------------------
\* Every pointer is to an allocated buffer, every allocated buffer is used, and
\* no two predicates share one.
TypeOK ==
  /\ live \subseteq States
  /\ relations \in [live -> [Predicates -> Buffers \cup {Null}]]
  /\ buffer \in [InUse -> Seq(Tuples)]
  /\ \A k \in live, p \in Predicates : relations[k][p] \in (States \X {p}) \cup {Null}
  /\ text \in [live -> {Stale} \cup SUBSET Facts]
  /\ step \in {"load", "apply", "idle"} /\ open \in States /\ (step # "idle" => open \in live)
  /\ misled \in BOOLEAN

\* No write is ever seen by a state it was not made in, and a state the search
\* keeps never changes: sharing is invisible (lib/kb.h:223, "so a write can never
\* be seen by a state it was not made in").
Base == INSTANCE FactBase WITH
  facts <- [k \in live |-> FactsOf(k)],
  open  <- IF step = "idle" THEN {} ELSE {open},
  TypeFacts <- {f \in Facts : f[2] \in ToSet(Extension[f[1]])}

Independent == Base!Spec

\* However a query is answered the answer is the same: what Z3 is told of a state
\* when it is asked are the facts the direct evaluator reads.
EnginesAgree == ~ misled

\* A buffer holds no tuple twice, so that its length counts the facts of its
\* predicate (count_facts) and removing a tuple once removes the fact.
CountsFacts == \A b \in DOMAIN buffer : IsInjective(buffer[b])

\* A state goes on sharing every relation that no write has changed ("A
\* successor shares every relation its action did not touch"; a fact that
\* already holds costs no copy).
SharesUntouched ==
  [][\A k \in live \cap live' : \A p \in Predicates :
       relation_of(k, p)' = relation_of(k, p) => relations'[k][p] = relations[k][p]]_vars
=============================================================================
