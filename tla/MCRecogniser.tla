---------------------------- MODULE MCRecogniser ----------------------------
(***************************************************************************)
(* Problem files for MachineDerivation: every detector of a short pattern  *)
(* and every recogniser of one or two short sequences.                     *)
(***************************************************************************)
EXTENDS MachineDerivation

CONSTANTS MaxPattern, MaxSequence    \* bounds: bits of a pattern, of a sequence

NonEmpty(n) == BoundedSeq(Bits, n) \ {<<>>}

\* Mealy detectors, and Moore detectors: with one state more, for the pattern.
Detectors ==
  UNION {{p, [p EXCEPT !.kind = "moore", !.after = Chain(p.pattern)]} :
           p \in {problem_of(x, o) : x \in NonEmpty(MaxPattern), o \in BOOLEAN}}

\* Files that expect a bit in the accepting state, or chain their states in a ring.
Contradictory ==
  [kind : {"moore"}, pattern : {<<0, 1>>}, overlapping : {TRUE},
   after : {Chain(<<0, 1>>), [x \in {<<>>, <<0>>} |-> IF x = <<>> THEN <<0>> ELSE <<>>]},
   beyond : {{}, {0}}, recognises : {{}}, keeps : {{}}, previous : {{}}]

\* Sequences written bit by bit, a count of none, and the run of an HDLC error.
Names == {[i \in DOMAIN x |-> <<x[i], 1>>] : x \in NonEmpty(MaxSequence)} \cup {<< <<0, 0>> >>}
Long  == << <<0, 1>>, <<1, 4>> >>
Flag  == << <<0, 1>>, <<1, 2>>, <<0, 1>> >>

Recognisers ==
  [kind : {"recogniser"}, pattern : {<<>>}, overlapping : {TRUE}, after : {<<>>}, beyond : {{}},
   recognises : {{<<"flag", n>>, <<"err", m>>} : n, m \in Names}
     \cup {{<<"flag", n>>, <<"flag", m>>} : n, m \in Names}
     \cup {{<<"flag", Flag>>, <<"err", Long>>}},
   keeps : SUBSET {<<"err", 1>>}, previous : {{}, {0}}]

MCProblems == Detectors \cup Contradictory \cup Recognisers

\* "0110: exactly two 1s" beside "011...: two or more 1s, signalled while they
\* continue".
HeldInside ==
  [kind : {"recogniser"}, pattern : {<<>>}, overlapping : {TRUE}, after : {<<>>}, beyond : {{}},
   recognises : {{<<"pair", Flag>>, <<"run", << <<0, 1>>, <<1, 2>> >> >>}},
   keeps : {{<<"run", 1>>}}, previous : {{0}}]
=============================================================================
