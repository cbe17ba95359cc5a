--------------------------- MODULE MCKnowledgeBase ---------------------------
(***************************************************************************)
(* Three states over two predicates: "room" is a type with one object in   *)
(* it from the start, "at" a predicate that holds of nothing yet.          *)
(***************************************************************************)
EXTENDS KnowledgeBase

MCFacts == {<<"at", "a">>, <<"at", "b">>, <<"room", "a">>}

MCExtension == [p \in Predicates |-> IF p = "room" THEN <<"a">> ELSE << >>]

\* Conditions that contain an implication, among others.
MCDeclined == {<<"at", "b">>}

\* Two assignments of addresses to buffers are the same to every action and
\* property: what matters is which buffers are there, what they hold and which
\* states share them.
MCView ==
  <<text, step, open, misled,
    [k \in live |-> [p \in Predicates |->
      <<relations[k][p] = Null, relation_of(k, p), {j \in live : relations[j][p] = relations[k][p]}>>]]>>
=============================================================================
