------------------------------ MODULE MCDomain ------------------------------
(***************************************************************************)
(* A small HTN domain for the model checker. Task A's methods guard their  *)
(* actions with a precondition and go through a nested guarded method; B   *)
(* breaks that precondition and restores it, and runs beside A; E runs     *)
(* after both. Every head is ground.                                       *)
(***************************************************************************)
EXTENDS Naturals, Sequences

True == [pos |-> {}, neg |-> {}]
Pos(F) == [pos |-> F, neg |-> {}]
Neg(F) == [pos |-> {}, neg |-> F]

Adds(f)       == [fact |-> f, remove |-> FALSE, when |-> True]
Removes(f)    == [fact |-> f, remove |-> TRUE, when |-> True]
AddsIf(f, c)  == [fact |-> f, remove |-> FALSE, when |-> c]

Action(pre, effects) == [pre |-> pre, effects |-> effects, artificial |-> FALSE]
Check(pre)           == [pre |-> pre, effects |-> <<>>, artificial |-> TRUE]

\* Method name, subtasks in iteration order, orderings, position of the check.
Method(name, subtasks, orderings, mprec) ==
  [name |-> name, subtasks |-> subtasks, orderings |-> orderings, mprec |-> mprec]

MCFacts == {"p", "q", "r"}

MCInitialFacts == {"p"}

MCActionDefs ==
  [ a1       |-> Action(True, <<Adds("q")>>),
    a2       |-> Action(Pos({"q"}), <<AddsIf("r", Pos({"p"})), Removes("q")>>),
    a3       |-> Action(True, <<Removes("p"), Adds("q")>>),
    b1       |-> Action(True, <<Removes("p")>>),
    b2       |-> Action(True, <<Adds("p"), Adds("r")>>),
    e1       |-> Action([pos |-> {"r"}, neg |-> {"q"}], <<>>),
    __mprec_top |-> Check(Pos({"p"})),
    __mprec_mA  |-> Check(Pos({"p"})),
    __mprec_mAr |-> Check(Pos({"r"})),
    __mprec_mS  |-> Check(Pos({"p"})),
    __mprec_mB  |-> Check(Neg({"q"})) ]

MCMethodDefs ==
  [ top |-> {Method("mTop", <<"__mprec_top", "A", "B", "E">>,
                    {<<1, 2>>, <<1, 3>>, <<1, 4>>, <<2, 4>>, <<3, 4>>}, 1)},
    A   |-> {Method("mA", <<"S", "__mprec_mA", "a2">>, {<<2, 1>>, <<2, 3>>, <<1, 3>>}, 2),
             Method("mA", <<"S", "__mprec_mAr", "a2">>, {<<2, 1>>, <<2, 3>>, <<1, 3>>}, 2)},
    S   |-> {Method("mS", <<"a1", "__mprec_mS">>, {<<2, 1>>}, 2),
             Method("mS2", <<"__mprec_mS", "a3">>, {<<1, 2>>}, 1)},
    B   |-> {Method("mB", <<"__mprec_mB", "b1", "b2">>, {<<1, 2>>, <<1, 3>>, <<2, 3>>}, 1),
             Method("mSkip", <<>>, {}, 0)},
    E   |-> {Method("mE", <<"e1">>, {}, 0)} ]
=============================================================================
