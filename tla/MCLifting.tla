------------------------------ MODULE MCLifting ------------------------------
(* Wrap-around counters, with and without an enable, for lift.py, and Moore *)
(* machines given by a table for lift_loops.py.                            *)
EXTENDS Lifting

ChainOf(first, next, last, s) ==
  {Fact(first, <<"m", s[1]>>), Fact(last, <<"m", s[Len(s)]>>)} \cup {Fact(next, <<s[i], s[i + 1]>>) : i \in 1 .. Len(s) - 1}

Ports(ports, outs) ==
  {Fact(IF x \in outs THEN "output_port" ELSE "input_port", <<x>>) : x \in ToSet(ports)}
  \cup ChainOf("first_port", "next_port", "last_port", ports)

\* style: asynchronous or not, and the polarity.
Reset(style) ==
  {Fact("clock_of", <<"m", "clk">>), Fact("reset_of", <<"m", "rst">>), Fact("reset_polarity", <<"rst", style[2]>>)}
  \cup (IF style[1] THEN {Fact("reset_async", <<"rst">>)} ELSE {})

Of(names, t) == [x \in names |-> t]

Polarities == {"active_high", "active_low"}

---------------------------------------------------------------------------
(* Counters.                                                               *)

CounterFacts(ports, enable, min, max, style) ==
  Ports(ports, {"q"}) \cup Reset(style)
  \cup {Fact("wrap_counter", <<"m">>), Fact("count_output", <<"m", "q">>), Fact("port_width", <<"q", "bits4">>),
        Fact("count_min", <<"m", min>>), Fact("count_max", <<"m", max>>)}
  \cup (IF enable THEN {Fact("enable_of", <<"m", "en">>)} ELSE {})

Counter(tag, enable, min, max, style) ==
  LET ports == IF enable THEN <<"clk", "rst", "en", "q">> ELSE <<"clk", "rst", "q">> IN
  [tag |-> tag, module |-> "m", facts |-> CounterFacts(ports, enable, min, max, style),
   types |-> Of({"m"}, "module") @@ Of(ToSet(ports), "port") @@ Of({min, max}, "value") @@ Of({"bits4"}, "width")
             @@ Of(Polarities, "polarity") @@ Of({"zero", "one"}, "bit")]

\* The hand-written methods' list, with the two decisions in either order.
CounterSteps(enable, min, max, polarity, decisions) ==
  LET decide == << <<"analyze_choose_counter_register", <<"m">> >>, <<"analyze_wrap_point", <<"m", max, min>> >> >>
  IN (IF decisions = "choose first" THEN decide ELSE Reverse(decide))
     \o << <<"write_interface", <<"m">> >>, <<"open_clocked_block", <<"m", "clk", "rst", polarity>> >>,
           <<"write_counter_reset", <<"m", "q", "rst", polarity, min>> >>,
           IF enable THEN <<"write_counter_enable_open", <<"m", "en">> >> ELSE <<"write_counter_free_open", <<"m">> >>,
           <<"write_counter_wrap", <<"m", "q", max, min>> >> >>
     \o (IF enable THEN << <<"write_counter_enable_close", <<"m">> >>, <<"write_counter_hold", <<"m", "q">> >> >>
         ELSE << <<"write_counter_free_close", <<"m">> >> >>)
     \o << <<"write_clocked_block_close", <<"m">> >>, <<"write_module_end", <<"m">> >> >>

MCTrain == <<Counter(1, TRUE, "n0", "n9", <<TRUE, "active_high">>), Counter(2, FALSE, "n1", "n10", <<FALSE, "active_high">>),
             Counter(3, FALSE, "n0", "n15", <<TRUE, "active_low">>), Counter(4, TRUE, "n3", "n6", <<FALSE, "active_low">>)>>

Right(c, decisions) ==
  CASE c = 1 -> CounterSteps(TRUE, "n0", "n9", "active_high", decisions)
    [] c = 2 -> CounterSteps(FALSE, "n1", "n10", "active_high", decisions)
    [] c = 3 -> CounterSteps(FALSE, "n0", "n15", "active_low", decisions)
    [] c = 4 -> CounterSteps(TRUE, "n3", "n6", "active_low", decisions)

\* "short" leaves the wrap out.
MCStepsOf ==
  [c \in 1 .. 4 |-> [right |-> Right(c, "choose first"), other |-> Right(c, "wrap point first"),
                     short |-> SelectSeq(Right(c, "choose first"), LAMBDA s : s[1] # "write_counter_wrap")]]

MCAnswers == <<{"right"}, {"right", "short", "other", "unreadable"}, {"right"}, {"right"}>>

MCStages == [c \in 1 .. 4 |-> [a \in DOMAIN MCStepsOf[c] |-> test_steps(MCTrain[c], MCStepsOf[c][a])]]
MCStage(c, a) == IF a = "unreadable" THEN "format" ELSE MCStages[c][a]

---------------------------------------------------------------------------
(* Moore machines given by a table: rows <<state, next on 0, next on 1>>.  *)

Codes == <<"n0", "n1", "n2">>

Table(tag, outs, rows, asserted, polarity) ==
  LET ports == <<"clk", "rst", "a">> \o outs
      states == [i \in DOMAIN rows |-> rows[i][1]]
  IN [tag |-> tag, module |-> "m", ports |-> ports, rows |-> rows, polarity |-> polarity,
      types |-> Of({"m"}, "module") @@ Of(ToSet(ports), "port") @@ Of(ToSet(states), "state") @@ Of(ToSet(Codes), "value")
                @@ Of({"bits2"}, "width") @@ Of(Polarities, "polarity") @@ Of({"zero", "one"}, "bit"),
      facts |-> Ports(ports, ToSet(outs)) \cup Reset(<<TRUE, polarity>>) \cup ChainOf("first_listed", "listed_after", "last_listed", states)
                \cup {Fact("data_input_of", <<"m", "a">>), Fact("table_fsm", <<"m">>), Fact("moore", <<"m">>),
                      Fact("initial_state", <<"m", states[1]>>), Fact("state_width", <<"m", "bits2">>)}
                \cup {Fact("state_code", <<states[i], Codes[i]>>) : i \in DOMAIN states}
                \cup UNION {{Fact("table_next", <<r[1], "zero", r[2]>>), Fact("table_next", <<r[1], "one", r[3]>>)} : r \in ToSet(rows)}
                \cup {Fact("asserted_in", x) : x \in asserted}]

MCLoopTrain ==
  <<Table(1, <<"f", "g">>, << <<"A", "A", "B">>, <<"B", "C", "B">>, <<"C", "A", "C">> >>,
          {<<"f", "B">>, <<"f", "C">>, <<"g", "A">>, <<"g", "C">>}, "active_high"),
    Table(2, <<"f">>, << <<"A", "B", "B">>, <<"B", "A", "B">> >>, {<<"f", "B">>}, "active_low")>>

Ask(n, a) == << <<n, <<"m">> \o a>> >>

\* Lists that do what the hand-written methods do, but for how the table is read,
\* the interface and the states are declared, and where the outputs are written.
TableSteps(p, reads, interface, states, early, terms) ==
  LET A == p.rows[1][1] IN
  Ask("analyze_choose_moore_fsm", <<>>) \o reads \o interface \o states
  \o Ask("write_state_regs", <<"bits2">>) \o Ask("write_state_register_async", <<"clk", "rst", p.polarity, A>>)
  \o early \o Ask("write_next_state_open", <<>>)
  \o [i \in DOMAIN p.rows |-> <<"write_state_case", <<"m", p.rows[i][1], "a", p.rows[i][2], p.rows[i][3]>> >>]
  \o Ask("write_next_state_default", <<A>>) \o Ask("write_next_state_close", <<>>) \o terms
  \o Ask("write_module_end", <<>>)

Reading(p, i, bit) == <<"analyze_read_transition", <<"m", p.rows[i][1], bit, p.rows[i][IF bit = "zero" THEN 2 ELSE 3]>> >>
By_state(p)  == FlattenSeq([i \in DOMAIN p.rows |-> <<Reading(p, i, "zero"), Reading(p, i, "one")>>])
By_bit(p)    == [i \in DOMAIN p.rows |-> Reading(p, i, "one")] \o [i \in DOMAIN p.rows |-> Reading(p, i, "zero")]
Interface    == Ask("write_interface", <<>>)
One_by_one(p) == Ask("write_module_header", <<>>) \o [i \in DOMAIN p.ports |-> <<"declare_port", <<"m", p.ports[i]>> >>]
States(p, n) == [i \in 1 .. n |-> <<"write_state_param", <<"m", p.rows[i][1], Codes[i], "bits2">> >>]
\* A term of an output: the first begins its assignment, and a state it is 0 in has none.
Terms(p, o, states) ==
  LET on(i) == Fact("asserted_in", <<o, states[i]>>) \in p.facts IN
  [i \in DOMAIN states |->
     <<IF on(i) /\ \E j \in 1 .. i - 1 : on(j) THEN "write_moore_output_also" ELSE "write_moore_output_term",
       <<"m", o, states[i]>> >>]

P1 == MCLoopTrain[1]
P2 == MCLoopTrain[2]
ABC == <<"A", "B", "C">>

Hand1 == TableSteps(P1, By_state(P1), Interface, States(P1, 3), <<>>, Terms(P1, "f", ABC) \o Terms(P1, "g", ABC))
Hand2 == TableSteps(P2, By_state(P2), Interface, States(P2, 2), <<>>, Terms(P2, "f", <<"A", "B">>))

\* A testbench passes a module that has the lines it was made for.
HandLines == <<ToSet(Lines(plan_of(Course(P1, Hand1)))), ToSet(Lines(plan_of(Course(P2, Hand2))))>>
MCSimulates(p, plan) ==
  IF "wrap_counter" \in Kinds(p) THEN \E s \in DOMAIN plan : plan[s][1] = "write_counter_wrap"
  ELSE HandLines[p.tag] \subseteq ToSet(Lines(plan))

\* The table read one input after the other; an empty block; the states from B
\* on declared by a task, before A.
Block == Ask("open_clocked_block", <<"clk", "rst", "active_high">>) \o Ask("write_clocked_block_close", <<>>)
Moved == TableSteps(P1, By_bit(P1), Interface \o Block, Ask("declare_states_from", <<"B">>) \o States(P1, 1), <<>>,
                    Terms(P1, "f", ABC) \o Terms(P1, "g", ABC))
\* The second output's terms written from the last state to the first.
Backwards == TableSteps(P1, By_state(P1), Interface, States(P1, 3), <<>>, Terms(P1, "f", <<"B", "C">>) \o Terms(P1, "g", <<"C", "A">>))
\* One output's terms apart from the other's.
Apart == TableSteps(P1, By_state(P1), Interface, States(P1, 3), Terms(P1, "f", ABC), Terms(P1, "g", ABC))
\* Every port declared by a step of its own.
Spelt_out == TableSteps(P1, By_state(P1), One_by_one(P1), States(P1, 3), <<>>, Terms(P1, "f", ABC) \o Terms(P1, "g", ABC))

MCLoopLists == {{<<2, Hand2>>, <<1, Moved>>}, {<<1, Backwards>>, <<2, Hand2>>}, {<<1, Apart>>}, {<<1, Spelt_out>>}}

ASSUME \A l \in UNION MCLoopLists : test_steps(MCLoopTrain[l[1]], l[2]) = "pass"

\* For lift_case alone: a table, and two with the same steps.
P3 == Table(3, <<"f">>, << <<"A", "A", "B">>, <<"B", "B", "A">> >>, {<<"f", "A">>}, "active_high")
Hand3 == TableSteps(P3, By_state(P3), Interface, States(P3, 2), <<>>, Terms(P3, "f", <<"A", "B">>))
MCGroups == {<<P1 @@ [steps |-> Hand1]>>, <<P2 @@ [steps |-> Hand2], P3 @@ [steps |-> Hand3]>>}

\* A problem of another family, whose first port is not its clock.
MCProbes == {[module |-> "m", facts |-> Ports(<<"rst", "clk", "q">>, {"q"}) \cup Reset(<<TRUE, "active_high">>) \cup {Fact("shifts", <<"m">>)}]}

Names_ ==
  <<"_", "A", "B", "C", "a", "active_high", "active_low", "analyze_choose_counter_register", "analyze_choose_moore_fsm",
    "analyze_read_transition", "analyze_wrap_point", "architecture_chosen", "asserted_in", "bits1", "bits2", "bits4", "clk",
    "clock_of", "count_max", "count_min", "count_output", "data_input_of", "declare_port", "en", "enable_of", "f",
    "first_listed", "first_port", "g", "initial_state", "input_port", "last_listed", "last_port", "listed_after", "m",
    "moore", "n0", "n1", "n2", "next_port", "one", "open_clocked_block", "output_assigned", "output_port",
    "output_term_written", "port_declared", "port_width", "q", "reset_async", "reset_of", "reset_polarity", "rst",
    "section_written", "state_case_written", "state_code", "state_declared", "state_width", "table_fsm", "table_next",
    "transition", "transition_known", "wrap_counter", "wraps_at", "write_input_decl", "write_interface", "write_module_end",
    "write_module_header", "write_moore_output_also", "write_moore_output_term", "write_next_state_close", "write_next_state_default",
    "write_next_state_open", "write_output_decl", "write_state_case", "write_state_param", "write_state_register_async",
    "write_state_regs", "zero">>
MCAlphabet == [x \in ToSet(Names_) |-> CHOOSE i \in DOMAIN Names_ : Names_[i] = x]
=============================================================================
