----------------------------- MODULE MCRollout -----------------------------
(***************************************************************************)
(* Rollouts over a domain in which some starts have a plan, some provably  *)
(* have none, in some (those with fact l) the decomposition of B can go    *)
(* round forever, and from one (with fact w) every plan is longer than the *)
(* depth budget. Going round only adds steps, and a plan that does not is  *)
(* of at most 8, so Longest = 8 finds a plan where there is one.           *)
(***************************************************************************)
EXTENDS Rollout, MCDomain

RFacts == {"x", "y", "z", "l", "w"}

RActionDefs ==
  [ a  |-> Action(Pos({"z"}), <<Removes("x")>>),
    b  |-> Action(Neg({"w", "y"}), <<Adds("y"), Removes("x")>>),
    c  |-> Action(Pos({"w"}), <<Removes("w")>>),
    __mprec_x |-> Check(Pos({"x"})),
    __mprec_y |-> Check(Pos({"y"})),
    __mprec_l |-> Check(Pos({"l"})) ]

RMethodDefs ==
  [ top |-> {Method("mTop", <<"A", "B">>, {}, 0)},
    A   |-> {Method("mA", <<"a", "__mprec_x">>, {<<2, 1>>}, 2),
             Method("mA", <<"a", "__mprec_y">>, {<<2, 1>>}, 2)},
    B   |-> {Method("mB", <<"b">>, {}, 0),
             Method("mLoop", <<"B", "__mprec_l">>, {<<2, 1>>}, 2),
             Method("mClear", <<"B", "c">>, {<<2, 1>>}, 0)} ]

RStarts == SUBSET {"x", "z"} \cup {{"z", "l"}, {"x", "z", "w"}}
=============================================================================
