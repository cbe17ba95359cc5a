----------------------------- MODULE VerilogText -----------------------------
(***************************************************************************)
(* The Verilog a plan comes to, and the rules a module so far is held to   *)
(* (rtl_designs/plan_to_verilog.py, eval/learn_steps.py). A line is a      *)
(* record of what the rules read off its text: the block it closes and the *)
(* one it opens, the item or case label it begins with, whether it has an  *)
(* if or an else, the names it declares, assigns and reads, and its        *)
(* literals. A step is <<action, arguments>>.                              *)
(***************************************************************************)
EXTENDS Naturals, Sequences, TLC

Blank == [closes |-> "", item |-> "", label |-> "", is_else |-> FALSE, is_if |-> FALSE,
          opens |-> "", declares |-> {}, targets |-> {}, reads |-> {}, values |-> <<>>]

Decl(item, names)       == [Blank EXCEPT !.item = item, !.declares = names]
Sets(x, reads, values)  == [Blank EXCEPT !.targets = {x}, !.reads = reads, !.values = values]
If(l)                   == [l EXCEPT !.is_if = TRUE]
Else(l)                 == [l EXCEPT !.is_else = TRUE]
Begin(l)                == [l EXCEPT !.opens = "begin"]
Labelled(x, l)          == [l EXCEPT !.label = x]
Always(reads)           == Begin([Blank EXCEPT !.item = "always", !.reads = reads])
Case(x)                 == [Blank EXCEPT !.opens = "case", !.reads = {x}]
Closes(kind)            == [Blank EXCEPT !.closes = kind]
End                     == Closes("begin")

CUR == "ST_cr"
NXT == "ST_nt"

PORT_DECLS == {"write_input_decl", "write_output_reg_decl", "write_output_decl",
               "write_output_reg_vector_decl"}
DECLARES   == PORT_DECLS \cup {"write_register_decl", "write_state_param", "write_state_regs"}

---------------------------------------------------------------------------
(***************************************************************************)
(* The templates: the lines a step adds. branch says whether an output's   *)
(* if is begun. The other actions only decide.                             *)
(***************************************************************************)
Edge(n, a) == Always({a[2]} \cup (IF n \in {"write_state_register_async", "write_clocked_block_open_async"}
                                  THEN {a[3]} ELSE {}))

lines_of(n, a, branch) ==
  CASE n = "write_module_header" -> <<[Blank EXCEPT !.item = "module"]>>
    [] n = "write_input_decl" -> <<Decl("input", {a[2]})>>
    [] n = "write_output_decl" -> <<Decl("output", {a[2]})>>
    [] n \in {"write_output_reg_decl", "write_output_reg_vector_decl"} -> <<Decl("output reg", {a[2]})>>
    [] n = "write_register_decl" -> <<Decl("reg", {a[2]})>>
    [] n = "write_state_param" -> <<Decl("parameter", {a[2]})>>
    [] n = "write_state_regs" -> <<Decl("reg", {CUR, NXT})>>
    [] n \in {"write_state_register_async", "write_state_register_sync"} ->
         <<Edge(n, a), If(Sets(CUR, {a[3], a[5]}, <<a[4]>>)), Else(Sets(CUR, {NXT}, <<>>)), End>>
    [] n = "write_next_state_open" -> <<Always({}), Case(CUR)>>
    [] n = "write_state_case" -> <<Labelled(a[2], If(Sets(NXT, {a[3], a[4], a[5]}, <<a[4], a[5]>>)))>>
    [] n = "write_next_state_default" -> <<Labelled("default", Sets(NXT, {a[2]}, <<>>))>>
    [] n = "write_next_state_close" -> <<Closes("case"), End>>
    [] n = "write_output_open" -> <<Always({})>>
    [] n = "write_output_reset_clause" -> <<If(Sets(a[2], {a[3]}, <<a[4]>>))>>
    [] n = "write_output_assert" ->
         <<[If(Sets(a[2], {CUR, a[3], a[4]}, <<a[5]>>)) EXCEPT !.is_else = branch]>>
    [] n = "write_output_default" -> <<Else(Sets(a[2], {}, <<>>))>>
    [] n \in {"write_moore_output_assign", "write_moore_output_also"} ->
         <<[Sets(a[2], {CUR, a[3]}, <<>>) EXCEPT !.item = "assign"]>>
    [] n \in {"write_clocked_block_open_async", "write_clocked_block_open_sync"} -> <<Edge(n, a)>>
    [] n \in {"write_output_close", "write_clocked_block_close", "write_counter_enable_close",
              "write_counter_free_close"} -> <<End>>
    [] n = "write_counter_reset" -> <<If(Sets(a[2], {a[3]}, <<a[4], a[5]>>))>>
    [] n = "write_counter_enable_open" -> <<Else(If(Begin([Blank EXCEPT !.reads = {a[2]}])))>>
    [] n = "write_counter_free_open" -> <<Else(Begin(Blank))>>
    [] n = "write_counter_wrap" -> <<If(Sets(a[2], {a[2]}, <<a[3], a[4]>>)), Else(Sets(a[2], {a[2]}, <<"+">>))>>
    [] n = "write_counter_hold" -> <<Else(Sets(a[2], {a[2]}, <<>>))>>
    [] n = "write_generator_reset" ->
         <<If(Begin([Blank EXCEPT !.reads = {a[2]}])), Sets(a[4], {}, <<a[5]>>), Sets(a[6], {}, <<a[7]>>),
           Else(Begin(End))>>
    [] n = "write_direction_case_open" -> <<Case(a[2])>>
    [] n \in {"write_rising_phase", "write_falling_phase"} ->
         <<Labelled("literal", If(Sets(a[2], {a[4]}, <<a[3], a[5], a[6]>>))), Else(Sets(a[4], {a[4]}, <<n>>))>>
    [] n = "write_direction_case_close" -> <<Closes("case"), End>>
    [] n = "write_module_end" -> <<[Blank EXCEPT !.item = "endmodule"]>>
    [] OTHER -> <<>>


\* A literal has the width its target is declared with.
Sized(n, a) ==
  CASE n \in {"write_counter_reset", "write_counter_wrap"} -> {a[2]}
    [] n = "write_generator_reset" -> {a[4], a[6]}
    [] n \in {"write_rising_phase", "write_falling_phase"} -> {a[2], a[4]}
    [] OTHER -> {}

---------------------------------------------------------------------------
(***************************************************************************)
(* The rules. Each is one pass over the lines, and text is where they have *)
(* come to: the open blocks, outermost first and the module itself         *)
(* included, and what each holds; the kind of each name declared, which of *)
(* them have a width, the block that drives each, those read; the names    *)
(* declared before each assign. standing is FALSE once a rule is broken.   *)
(***************************************************************************)
Level(kind, is_if) ==
  [kind |-> kind, is_if |-> is_if, may_else |-> FALSE, said |-> {}, labels |-> {}]

Empty == [x \in {} |-> ""]

NoText == [standing |-> TRUE, last |-> "", branch |-> FALSE, open |-> <<Level("module", FALSE)>>,
           kinds |-> Empty, wide |-> {}, block |-> 0, owner |-> Empty, reads |-> {}, before |-> Empty]

Nets == {"input", "output", "wire"}
Regs == {"reg", "output reg"}

Top(open) == open[Len(open)]

\* The blocks open once the line has closed one; none if it cannot.
Shut(open, kind) ==
  IF kind = "" THEN open
  ELSE IF Top(open).kind # kind THEN <<>>
  ELSE [SubSeq(open, 1, Len(open) - 1) EXCEPT ![Len(open) - 1].may_else = Top(open).is_if]

\* Is there anything on the line but what closes a block?
Says(l) == [l EXCEPT !.closes = ""] # Blank

Statement(l) == l.closes = "" /\ l.opens = "" /\ l.item = ""

well_formed(open, l) ==
  Says(l) =>
    /\ IF l.item # "" THEN Len(open) = 1 ELSE Len(open) > 1
    /\ l.label # "" => Top(open).kind = "case"
    /\ Top(open).kind = "case" /\ l.label = "" => l.is_else
    /\ l.is_else => Top(open).may_else

block(t, l) == IF l.item \in {"always", "assign"} THEN t.block + 1 ELSE t.block

one_driver(t, l) ==
  /\ \A x \in l.targets : /\ x \in DOMAIN t.owner => t.owner[x] = block(t, l)
                          /\ l.item # "assign" => t.kinds[x] \notin Nets
  /\ l.closes = "case" => Top(t.open).labels # {}
  /\ l.label = "default" => "default" \notin Top(t.open).labels

no_repeat(open, l) == Len(open) > 1 /\ Statement(l) => l \notin Top(open).said

declared_names(t) == DOMAIN t.kinds

Names(l) == (l.reads \cup l.targets \cup {l.label}) \ {"", "default", "literal"}

declared_before_use(t, l) ==
  /\ Names(l) \subseteq declared_names(t)
  /\ \A x \in l.declares \cap declared_names(t) : l.item = "reg" /\ t.kinds[x] \in {"output", "output reg"}

\* Registers read and never assigned: no rule refuses them.
undriven(t) == {x \in t.reads \ DOMAIN t.owner : t.kinds[x] \in Regs}

\* The blocks after the line, those before it shut.
Opened(open, l) ==
  LET top == [Top(open) EXCEPT !.said = IF Statement(l) THEN @ \cup {l} ELSE @,
                               !.labels = IF l.label # "" THEN @ \cup {l.label} ELSE @,
                               !.may_else = l.opens = "" /\ l.is_if]
      now == [open EXCEPT ![Len(open)] = top]
  IN IF ~ Says(l) THEN open ELSE IF l.opens = "" THEN now ELSE Append(now, Level(l.opens, l.is_if))

Read(t, l) ==
  LET open == Shut(t.open, l.closes) IN
  IF /\ t.standing /\ open # <<>>
     /\ l.item = "module" <=> t.last = ""
     /\ well_formed(open, l) /\ declared_before_use(t, l) /\ one_driver(t, l) /\ no_repeat(open, l)
  THEN [t EXCEPT !.open = Opened(open, l),
                 !.last = IF l.item = "" THEN "statement" ELSE l.item,
                 !.kinds = [x \in l.declares |-> l.item] @@ @,
                 !.block = block(t, l),
                 !.owner = [x \in l.targets |-> block(t, l)] @@ @,
                 !.before = IF l.item = "assign" THEN [x \in l.targets |-> DOMAIN t.kinds] @@ @ ELSE @,
                 !.reads = IF l.item = "always" THEN @ ELSE @ \cup l.reads]
  ELSE [t EXCEPT !.standing = FALSE]

\* The module with a step's lines. A further term goes into the assignment its
\* output has, and so before what was declared since.
render(t, s) ==
  LET n == s[1] a == s[2]
      ls == lines_of(n, a, t.branch)
      f[i \in 0 .. Len(ls)] == IF i = 0 THEN t ELSE Read(f[i - 1], ls[i])
      r == f[Len(ls)]
  IN IF n = "write_moore_output_also"
     THEN IF a[2] \in DOMAIN t.before /\ {CUR, a[3]} \subseteq t.before[a[2]]
          THEN [t EXCEPT !.reads = @ \cup {CUR, a[3]}] ELSE [t EXCEPT !.standing = FALSE]
     ELSE [r EXCEPT !.standing = @ /\ Sized(n, a) \subseteq t.wide,
                    !.wide = IF n \in {"write_output_reg_vector_decl", "write_register_decl"} THEN @ \cup {a[2]} ELSE @,
                    !.branch = \/ n \in {"write_output_reset_clause", "write_output_assert"}
                               \/ @ /\ n # "write_output_close"]

\* The module a plan comes to, of which every part must stand.
code(plan) ==
  LET f[i \in 0 .. Len(plan)] == IF i = 0 THEN NoText ELSE render(f[i - 1], plan[i])
  IN f[Len(plan)]
=============================================================================
