-------------------------- MODULE ProblemCompiler --------------------------
(***************************************************************************)
(* What rtl_designs/problem_compiler.py works out about the state machine  *)
(* of a problem file before the planner reads it: the states of a sequence *)
(* recogniser, which of them the machine can be in, and their codes. Files *)
(* are rejected here as the code rejects them.                             *)
(*                                                                         *)
(* A bit sequence is a sequence over 0 and 1, and a state of a recogniser  *)
(* is the prefix it stands for. The states s0, s1, ... of a detector are   *)
(* the prefixes of its pattern. Problems are records:                      *)
(*   kind        "mealy", "moore" (detectors) or "recogniser"              *)
(*   pattern     a detector's pattern                                      *)
(*   overlapping whether an occurrence may begin in the one before         *)
(*   after       its next_prefix facts, a function on states               *)
(*   beyond      bits a file expects in the accepting state of a "moore"   *)
(*   recognises  the <<output, name>> of a recogniser's sequences, where a *)
(*               name is a sequence of runs <<bit, count>>                 *)
(*   keeps       the <<output, bit>> of its keeps_while facts              *)
(*   previous    the bits, at most one, of its reset_as_previous facts     *)
(***************************************************************************)
EXTENDS Naturals, FiniteSets, SequencesExt

Bits == {0, 1}
Nothing == <<>>

\* The bits of a name; a name of no bits names no sequence.
sequence_bits(name) ==
  LET bits[k \in 0 .. Len(name)] ==
        IF k = 0 THEN <<>> ELSE bits[k - 1] \o [j \in 1 .. name[k][2] |-> name[k][1]]
  IN bits[Len(name)]

Recognised(p) == {[out |-> f[1], bits |-> sequence_bits(f[2])] : f \in p.recognises}

PrefixesOf(seqs) == UNION {{SubSeq(x, 1, k) : k \in 0 .. Len(x)} : x \in seqs}

Shortlex(x, y) ==
  \/ Len(x) < Len(y)
  \/ /\ Len(x) = Len(y)
     /\ \E k \in DOMAIN x : x[k] < y[k] /\ SubSeq(x, 1, k - 1) = SubSeq(y, 1, k - 1)

\* The place of a prefix in the file's state list: shortest first.
Place(x, present) == Cardinality({y \in present : Shortlex(y, x)}) + 1

Sorted(present) == [k \in 1 .. Cardinality(present) |-> CHOOSE x \in present : Place(x, present) = k]

\* A prefix that completes sequences is named for their outputs, another for
\* its length and, among those of its length, its place.
state_name(x, present, rec) ==
  LET outs(y) == {r.out : r \in {q \in rec : q.bits = y}}
  IN IF outs(x) # {} THEN <<"S", outs(x)>>
     ELSE <<"M", Len(x), {y \in present : Len(y) = Len(x) /\ outs(y) = {} /\ Shortlex(y, x)}>>

\* The prefixes in which the machine stays while a bit keeps arriving.
Holding(p, rec) == {<<r.bits, b>> : r \in rec, b \in Bits} \cap
                   UNION {{<<r.bits, k[2]>> : r \in {q \in rec : q.out = k[1]}} : k \in p.keeps}

\* The problem check_sequence_detectors.py writes: a Mealy detector, its states
\* chained from none of the pattern up to all but its last bit.
Chain(x) == [y \in {SubSeq(x, 1, k) : k \in 0 .. Len(x) - 1} |-> SubSeq(x, 1, Len(y) + 1)]

problem_of(pattern, overlapping) ==
  [kind |-> "mealy", pattern |-> pattern, overlapping |-> overlapping, after |-> Chain(Front(pattern)),
   beyond |-> {}, recognises |-> {}, keeps |-> {}, previous |-> {}]

---------------------------------------------------------------------------
(***************************************************************************)
(* The states the machine can be in, found by following its transitions.   *)
(***************************************************************************)
\* Where a prefix goes on a bit, and where it falls back to.
Fall == 2
step(present, holding) ==
  LET To[z \in present \X (Bits \cup {Fall})] ==
        LET x == z[1]
            b == z[2]
        IN IF b = Fall THEN IF Len(x) <= 1 THEN Nothing ELSE To[<<To[<<Front(x), Fall>>], Last(x)>>]
           ELSE IF <<x, b>> \in holding THEN x
           ELSE IF Append(x, b) \in present THEN Append(x, b)
           ELSE IF x = Nothing THEN Nothing
           ELSE To[<<To[<<x, Fall>>], b>>]
  IN To

\* Mutant: every prefix counts as a state of the machine.
all_prefixes(present, holding, start) == present

reachable_prefixes(present, holding, start) ==
  LET To == step(present, holding)
      Reach[seen \in SUBSET present] ==
        LET more == seen \cup {To[z] : z \in seen \X Bits}
        IN IF more = seen THEN seen ELSE Reach[more]
  IN Reach[{start}]

---------------------------------------------------------------------------
\* The width of the state register: enough for the last code, at least 1.
Width(n) == CHOOSE w \in 1 .. n + 1 :
              2 ^ w >= n /\ \A v \in 1 .. w - 1 : 2 ^ v < n

encoding(states) ==
  [width |-> Width(Len(states)),
   code  |-> [s \in ToSet(states) |-> CHOOSE k \in 0 .. Len(states) - 1 : states[k + 1] = s]]

Invalid == [invalid |-> TRUE, compiled |-> TRUE]

Design(states, listed, initial, holding, asserted) ==
  [invalid |-> FALSE, states |-> states, listed |-> listed, start |-> Nothing, initial |-> initial,
   holds |-> holding, asserted |-> asserted, encoding |-> encoding(listed)]

\* The expansion of a recogniser's sequences.
expand_sequences(p) ==
  LET rec      == Recognised(p)
      present  == PrefixesOf({r.bits : r \in rec})
      holding  == Holding(p, rec)
      start    == IF p.previous = {} THEN Nothing ELSE <<CHOOSE b \in p.previous : TRUE>>
      reached  == reachable_prefixes(present, holding, start)
  IN IF \/ \E r \in rec : r.bits = Nothing
        \/ \E x, y \in present : x # y /\ state_name(x, present, rec) = state_name(y, present, rec)
        \/ \E r \in rec, x \in present : x # r.bits /\ IsSuffix(r.bits, x)
        \/ \E k \in p.keeps : \A r \in rec : r.out # k[1]
        \/ start \notin present
        \/ \E r \in rec : r.bits \notin reached
     THEN Invalid
     ELSE Design(present, <<start>> \o Sorted((present \cap reached) \ {start}), start, holding,
                 {<<r.out, r.bits>> : r \in rec})

\* The states a detector's file chains, from the first; none if they loop.
states_of(start, after) ==
  LET At[k \in 0 .. Cardinality(DOMAIN after)] == IF k = 0 THEN start ELSE after[At[k - 1]]
      Ends(n) == /\ \A m \in 0 .. n - 1 : At[m] \in DOMAIN after
                 /\ At[n] \notin DOMAIN after
  IN IF \E n \in 0 .. Cardinality(DOMAIN after) : Ends(n)
     THEN LET last == CHOOSE n \in 0 .. Cardinality(DOMAIN after) : Ends(n)
          IN [k \in 1 .. last + 1 |-> At[k - 1]]
     ELSE <<>>

complete(p) ==
  IF p.kind = "recogniser" THEN expand_sequences(p)
  ELSE LET states == states_of(Nothing, p.after)
       IN IF p.beyond # {} \/ states = <<>> THEN Invalid
          ELSE Design(ToSet(states), states, Nothing, {},
                      IF p.kind = "moore" THEN {<<"detected", p.pattern>>} ELSE {})
=============================================================================
