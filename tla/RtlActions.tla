------------------------------ MODULE RtlActions ------------------------------
(***************************************************************************)
(* What a step does (rtl_designs/rtl_domain.hddl), for wrap-around         *)
(* counters, Moore machines given by a table and Mealy detectors of one    *)
(* bit: their actions, those of other designs that can stand on a menu of  *)
(* theirs, and the tasks a reduced domain leaves them. A step is <<name,   *)
(* arguments>>. An action needs the facts of pre, none of those of neg,    *)
(* and adds those of eff; no action of the domain deletes one. A fact is   *)
(* <<predicate, names>>.                                                   *)
(***************************************************************************)
EXTENDS Sequences

Act(pre, neg, eff) == [pre |-> pre, neg |-> neg, eff |-> eff]

Chosen(m)  == <<"architecture_chosen", <<m>> >>
Written(m) == <<"section_written", <<m>> >>
Fact(p, x) == <<p, x>>

\* The types of an action's or a task's parameters, in order.
Types ==
  [analyze_choose_counter_register |-> <<"module">>,
   analyze_wrap_point |-> <<"module", "value", "value">>,
   analyze_choose_three_block_fsm |-> <<"module">>,
   analyze_choose_moore_fsm |-> <<"module">>,
   analyze_stay_initial |-> <<"module", "state", "bit">>,
   analyze_match_from_scratch |-> <<"module", "state", "bit", "state">>,
   analyze_read_transition |-> <<"module", "state", "bit", "state">>,
   analyze_choose_state_encoding |-> <<"module", "state", "width">>,
   analyze_turn_point |-> <<"module", "value", "value", "value">>,
   write_module_header |-> <<"module">>,
   write_input_decl |-> <<"module", "port">>,
   write_output_reg_decl |-> <<"module", "port">>,
   write_output_decl |-> <<"module", "port">>,
   write_output_reg_vector_decl |-> <<"module", "port", "width">>,
   write_state_param |-> <<"module", "state", "value", "width">>,
   write_state_regs |-> <<"module", "width">>,
   write_state_register_async |-> <<"module", "port", "port", "polarity", "state">>,
   write_state_register_sync |-> <<"module", "port", "port", "polarity", "state">>,
   write_next_state_open |-> <<"module">>,
   write_state_case |-> <<"module", "state", "port", "state", "state">>,
   write_next_state_default |-> <<"module", "state">>,
   write_next_state_close |-> <<"module">>,
   write_output_open |-> <<"module", "port">>,
   write_output_reset_clause |-> <<"module", "port", "port", "polarity">>,
   write_output_assert |-> <<"module", "port", "state", "port", "bit">>,
   write_output_default |-> <<"module", "port">>,
   write_output_close |-> <<"module">>,
   write_moore_output_assign |-> <<"module", "port", "state">>,
   write_moore_output_also |-> <<"module", "port", "state">>,
   write_clocked_block_open_async |-> <<"module", "port", "port", "polarity">>,
   write_clocked_block_open_sync |-> <<"module", "port", "port", "polarity">>,
   write_clocked_block_close |-> <<"module">>,
   write_counter_reset |-> <<"module", "port", "port", "polarity", "value">>,
   write_counter_enable_open |-> <<"module", "port">>,
   write_counter_wrap |-> <<"module", "port", "value", "value">>,
   write_counter_free_open |-> <<"module">>,
   write_counter_hold |-> <<"module", "port">>,
   write_counter_enable_close |-> <<"module">>,
   write_counter_free_close |-> <<"module">>,
   write_rising_phase |-> <<"module", "register", "value", "port", "value", "value">>,
   write_falling_phase |-> <<"module", "register", "value", "port", "value", "value">>,
   write_direction_case_close |-> <<"module">>,
   write_module_end |-> <<"module">>,
   design_state_machine |-> <<"module">>,
   derive_transitions_from |-> <<"module", "state">>,
   derive_next |-> <<"module", "state", "bit">>,
   write_interface |-> <<"module">>,
   declare_ports_from |-> <<"module", "port">>,
   declare_port |-> <<"module", "port">>,
   write_state_declarations |-> <<"module">>,
   declare_states_from |-> <<"module", "state">>,
   write_state_register |-> <<"module">>,
   write_next_state_logic |-> <<"module">>,
   write_state_cases_from |-> <<"module", "state">>,
   write_output_logic |-> <<"module">>,
   write_moore_outputs_from |-> <<"module", "port">>,
   write_moore_output |-> <<"module", "port">>,
   write_moore_output_terms_from |-> <<"module", "port", "state">>,
   write_moore_output_term |-> <<"module", "port", "state">>,
   check_moore_output_assigned |-> <<"port">>,
   open_clocked_block |-> <<"module", "port", "port", "polarity">>]

Tasks == {"design_state_machine", "derive_transitions_from", "derive_next", "write_interface", "declare_ports_from",
          "declare_port", "write_state_declarations", "declare_states_from", "write_state_register",
          "write_next_state_logic", "write_state_cases_from", "write_output_logic", "write_moore_outputs_from",
          "write_moore_output", "write_moore_output_terms_from", "write_moore_output_term",
          "check_moore_output_assigned", "open_clocked_block"}

Decisions == {"analyze_choose_counter_register", "analyze_wrap_point", "analyze_choose_three_block_fsm",
              "analyze_choose_moore_fsm", "analyze_stay_initial", "analyze_match_from_scratch",
              "analyze_read_transition", "analyze_choose_state_encoding", "analyze_turn_point"}

\* Those with a parameter that no plain fact of the precondition mentions.
Free == {"analyze_choose_state_encoding", "analyze_stay_initial", "analyze_turn_point",
         "write_rising_phase", "write_falling_phase"}

action(n, a) ==
  LET m == a[1] IN
  CASE n = "analyze_choose_counter_register" -> Act({Fact("wrap_counter", <<m>>)}, {}, {Chosen(m)})
    [] n = "analyze_wrap_point" ->
         Act({Fact("count_max", <<m, a[2]>>), Fact("count_min", <<m, a[3]>>)}, {}, {Fact("wraps_at", a)})
    [] n = "analyze_choose_three_block_fsm" ->
         Act({Fact("sequence_detector", <<m>>), Fact("mealy", <<m>>)}, {}, {Chosen(m)})
    [] n = "analyze_choose_moore_fsm" -> Act({Fact("moore", <<m>>)}, {}, {Chosen(m)})
    [] n = "analyze_stay_initial" ->
         Act({Fact("initial_state", <<m, a[2]>>)},
             {Fact("expects", <<a[2], a[3]>>), Fact("transition_known", <<a[2], a[3]>>)},
             {Fact("transition", <<a[2], a[3], a[2]>>), Fact("transition_known", <<a[2], a[3]>>)})
    [] n = "analyze_match_from_scratch" ->
         Act({Fact("last_state", <<m, a[2]>>), Fact("expects", <<a[2], a[3]>>),
              Fact("initial_state", <<m, a[4]>>)},
             {Fact("transition_known", <<a[2], a[3]>>)},
             {Fact("transition", <<a[2], a[3], a[4]>>), Fact("transition_known", <<a[2], a[3]>>),
              Fact("asserts_output", <<a[2], a[3]>>)})
    [] n = "analyze_read_transition" ->
         Act({Chosen(m), Fact("table_next", <<a[2], a[3], a[4]>>)}, {Fact("transition_known", <<a[2], a[3]>>)},
             {Fact("transition", <<a[2], a[3], a[4]>>), Fact("transition_known", <<a[2], a[3]>>)})
    [] n = "analyze_choose_state_encoding" -> Act({Chosen(m), Fact("state_width", <<m, a[3]>>)}, {}, {})
    [] n = "analyze_turn_point" -> Act({Chosen(m)}, {}, {Fact("turns_at", a)})
    [] n = "write_module_header" -> Act({Chosen(m)}, {}, {Written(m)})
    [] n = "write_input_decl" ->
         Act({Written(m), Fact("input_port", <<a[2]>>)}, {Fact("port_declared", <<a[2]>>)},
             {Fact("port_declared", <<a[2]>>)})
    [] n = "write_output_decl" ->
         Act({Written(m), Fact("output_port", <<a[2]>>)}, {Fact("port_declared", <<a[2]>>)},
             {Fact("port_declared", <<a[2]>>)})
    [] n = "write_output_reg_decl" ->
         Act({Written(m), Fact("detect_output_of", <<m, a[2]>>), Fact("output_port", <<a[2]>>)},
             {Fact("port_declared", <<a[2]>>)}, {Fact("port_declared", <<a[2]>>)})
    [] n = "write_output_reg_vector_decl" ->
         Act({Written(m), Fact("output_port", <<a[2]>>), Fact("port_width", <<a[2], a[3]>>)},
             {Fact("port_declared", <<a[2]>>)}, {Fact("port_declared", <<a[2]>>)})
    [] n = "write_state_param" ->
         Act({Chosen(m), Fact("state_code", <<a[2], a[3]>>), Fact("state_width", <<m, a[4]>>),
              Fact("transition_known", <<a[2], "zero">>), Fact("transition_known", <<a[2], "one">>)},
             {Fact("state_declared", <<a[2]>>)}, {Fact("state_declared", <<a[2]>>)})
    [] n = "write_state_regs" -> Act({Chosen(m), Fact("state_width", <<m, a[2]>>)}, {}, {})
    [] n = "write_state_register_async" ->
         Act({Fact("clock_of", <<m, a[2]>>), Fact("reset_of", <<m, a[3]>>), Fact("initial_state", <<m, a[5]>>),
              Fact("reset_async", <<a[3]>>), Fact("reset_polarity", <<a[3], a[4]>>)}, {}, {})
    [] n = "write_state_register_sync" ->
         Act({Fact("clock_of", <<m, a[2]>>), Fact("reset_of", <<m, a[3]>>), Fact("initial_state", <<m, a[5]>>),
              Fact("reset_polarity", <<a[3], a[4]>>)}, {Fact("reset_async", <<a[3]>>)}, {})
    [] n = "write_state_case" ->
         Act({Fact("data_input_of", <<m, a[3]>>), Fact("state_declared", <<a[2]>>),
              Fact("transition", <<a[2], "zero", a[4]>>), Fact("transition", <<a[2], "one", a[5]>>)},
             {Fact("state_case_written", <<a[2]>>)}, {Fact("state_case_written", <<a[2]>>)})
    [] n = "write_next_state_default" -> Act({Fact("initial_state", <<m, a[2]>>)}, {}, {})
    [] n \in {"write_output_open", "write_output_default"} -> Act({Fact("detect_output_of", <<m, a[2]>>)}, {}, {})
    [] n = "write_output_reset_clause" ->
         Act({Fact("reset_of", <<m, a[3]>>), Fact("cleared_by_reset", <<a[2], a[3]>>),
              Fact("reset_polarity", <<a[3], a[4]>>)}, {}, {})
    [] n = "write_output_assert" ->
         Act({Fact("detect_output_of", <<m, a[2]>>), Fact("data_input_of", <<m, a[4]>>),
              Fact("asserts_output", <<a[3], a[5]>>), Fact("state_declared", <<a[3]>>)}, {}, {})
    [] n = "write_moore_output_assign" ->
         Act({Fact("moore", <<m>>), Fact("asserted_in", <<a[2], a[3]>>), Fact("state_declared", <<a[3]>>)},
             {Fact("output_assigned", <<a[2]>>)},
             {Fact("output_assigned", <<a[2]>>), Fact("output_term_written", <<a[2], a[3]>>)})
    [] n = "write_moore_output_also" ->
         Act({Fact("moore", <<m>>), Fact("asserted_in", <<a[2], a[3]>>), Fact("state_declared", <<a[3]>>),
              Fact("output_assigned", <<a[2]>>)},
             {Fact("output_term_written", <<a[2], a[3]>>)}, {Fact("output_term_written", <<a[2], a[3]>>)})
    [] n = "write_clocked_block_open_async" ->
         Act({Fact("clock_of", <<m, a[2]>>), Fact("reset_of", <<m, a[3]>>), Fact("reset_async", <<a[3]>>),
              Fact("reset_polarity", <<a[3], a[4]>>)}, {}, {})
    [] n = "write_clocked_block_open_sync" ->
         Act({Fact("clock_of", <<m, a[2]>>), Fact("reset_of", <<m, a[3]>>), Fact("reset_polarity", <<a[3], a[4]>>)},
             {Fact("reset_async", <<a[3]>>)}, {})
    [] n = "write_counter_reset" ->
         Act({Fact("count_output", <<m, a[2]>>), Fact("reset_of", <<m, a[3]>>),
              Fact("reset_polarity", <<a[3], a[4]>>), Fact("count_min", <<m, a[5]>>)}, {}, {})
    [] n = "write_counter_enable_open" -> Act({Fact("enable_of", <<m, a[2]>>)}, {}, {})
    [] n = "write_counter_wrap" ->
         Act({Fact("count_output", <<m, a[2]>>), Fact("wraps_at", <<m, a[3], a[4]>>)}, {}, {})
    [] n = "write_counter_free_open" -> Act({Fact("wrap_counter", <<m>>)}, {}, {})
    [] n = "write_counter_hold" -> Act({Fact("count_output", <<m, a[2]>>)}, {}, {})
    [] n \in {"write_rising_phase", "write_falling_phase"} ->
         Act({Fact("wave_output", <<m, a[4]>>), Fact("turns_at", <<m, a[3], a[5], a[6]>>)}, {}, {})
    [] n = "write_module_end" -> Act({Chosen(m), Written(m)}, {}, {})
    [] OTHER -> Act({Chosen(m)}, {}, {})    \* a next-state block's opening, and what closes a block

\* The facts no argument can stand in for: the planner settles these.
also_needs(n, facts) ==
  n = "write_counter_free_open" => \A f \in facts : f[1] # "enable_of"

---------------------------------------------------------------------------
(***************************************************************************)
(* The tasks. What a family's designs are built with and no other family's *)
(* needs is removed from its domain: the top method, a counter's logic,    *)
(* the reading of a table, a further term of an output's assignment, what  *)
(* a detector does on a match and its output's logic. The methods over     *)
(* prefixes matched in part are left out: one bit has none.                *)
(***************************************************************************)
The(S) == CHOOSE x \in S : TRUE

\* What the facts relate to these names.
NextIn(facts, pred, x) == {f[2][2] : f \in {g \in facts : g[1] = pred /\ g[2][1] = x}}
To(facts, s, b)        == {f[2][3] : f \in {g \in facts : g[1] = "transition" /\ g[2][1] = s /\ g[2][2] = b}}

One(n, a)      == << <<n, a>> >>
When(c, steps) == IF c THEN {steps} ELSE {}

\* A method does something for x, and goes on with what comes after, if x is not the last.
Each_from(facts, n, a, steps, next, last) ==
  LET x == a[Len(a)] IN
  {steps \o One(n, [a EXCEPT ![Len(a)] = y]) : y \in NextIn(facts, next, x)}
  \cup When(Fact(last, <<a[1], x>>) \in facts, steps)

\* States are taken in the order of a detector's prefixes, or as they are listed.
Each_state(facts, n, a, steps) ==
  Each_from(facts, n, a, steps, "next_prefix", "last_state") \cup Each_from(facts, n, a, steps, "listed_after", "last_listed")

FirstStates(facts, m) ==
  NextIn(facts, "first_listed", m) \cup {s \in NextIn(facts, "initial_state", m) : Fact("sequence_detector", <<m>>) \in facts}

\* The subtasks of each method of a task that applies in these facts.
methods_of(n, a, facts) ==
  LET m == a[1]
      true(p, x) == Fact(p, x) \in facts
      of(p, x) == NextIn(facts, p, x)
  IN
  CASE n = "design_state_machine" ->
         {One("derive_transitions_from", <<m, s>>) :
            s \in {x \in of("initial_state", m) : true("sequence_detector", <<m>>) /\ Chosen(m) \in facts}}
    [] n = "derive_transitions_from" ->
         Each_from(facts, n, a, One("derive_next", Append(a, "zero")) \o One("derive_next", Append(a, "one")),
                   "next_prefix", "last_state")
    [] n = "derive_next" ->
         When(true("transition_known", <<a[2], a[3]>>), <<>>)
         \cup When(/\ ~ true("transition_known", <<a[2], a[3]>>) /\ ~ true("expects", <<a[2], a[3]>>)
                   /\ true("initial_state", <<m, a[2]>>), One("analyze_stay_initial", a))
    [] n = "write_interface" ->
         {One("write_module_header", a) \o One("declare_ports_from", <<m, p>>) : p \in of("first_port", m)}
    [] n = "declare_ports_from" -> Each_from(facts, n, a, One("declare_port", a), "next_port", "last_port")
    [] n = "declare_port" ->
         When(true("input_port", <<a[2]>>), One("write_input_decl", a))
         \cup When(true("output_port", <<a[2]>>) /\ true("moore", <<m>>), One("write_output_decl", a))
         \cup {One("write_output_reg_vector_decl", Append(a, w)) :
                 w \in {x \in of("port_width", a[2]) : true("output_port", <<a[2]>>) /\ true("count_output", a)}}
    [] n = "write_state_declarations" ->
         {One("analyze_choose_state_encoding", <<m, s, w>>) \o One("declare_states_from", <<m, s>>)
            \o One("write_state_regs", <<m, w>>) : s \in FirstStates(facts, m), w \in of("state_width", m)}
    [] n = "declare_states_from" ->
         UNION {Each_state(facts, n, a, One("write_state_param", <<m, a[2], c, w>>)) :
                  c \in of("state_code", a[2]), w \in of("state_width", m)}
    [] n = "write_state_register" ->
         UNION {{One(IF true("reset_async", <<r>>) THEN "write_state_register_async" ELSE "write_state_register_sync",
                     <<m, c, r, p, s>>) :
                   c \in of("clock_of", m), p \in of("reset_polarity", r), s \in of("initial_state", m)} : r \in of("reset_of", m)}
    [] n = "write_next_state_logic" ->
         {One("write_next_state_open", a) \o One("write_state_cases_from", <<m, s>>) \o One("write_next_state_default", <<m, i>>)
            \o One("write_next_state_close", a) : s \in FirstStates(facts, m), i \in of("initial_state", m)}
    [] n = "write_state_cases_from" ->
         UNION {Each_state(facts, n, a, One("write_state_case", <<m, a[2], x, t, u>>)) :
                  x \in of("data_input_of", m), t \in To(facts, a[2], "zero"), u \in To(facts, a[2], "one")}
    [] n = "write_output_logic" ->
         {One("write_moore_outputs_from", <<m, p>>) : p \in {x \in of("first_port", m) : true("moore", <<m>>)}}
    [] n = "write_moore_outputs_from" -> Each_from(facts, n, a, One("write_moore_output", a), "next_port", "last_port")
    [] n = "write_moore_output" ->
         When(true("input_port", <<a[2]>>), <<>>)
         \cup {One("write_moore_output_terms_from", Append(a, s)) \o One("check_moore_output_assigned", <<a[2]>>) :
                 s \in {x \in of("first_listed", m) : true("output_port", <<a[2]>>)}}
    [] n = "write_moore_output_terms_from" ->
         Each_from(facts, n, a, One("write_moore_output_term", a), "listed_after", "last_listed")
    [] n = "write_moore_output_term" ->
         When(true("asserted_in", <<a[2], a[3]>>) /\ ~ true("output_assigned", <<a[2]>>), One("write_moore_output_assign", a))
         \cup When(~ true("asserted_in", <<a[2], a[3]>>), <<>>)
    [] n = "check_moore_output_assigned" -> When(true("output_assigned", a), <<>>)
    [] n = "open_clocked_block" ->
         {One(IF true("reset_async", <<a[3]>>) THEN "write_clocked_block_open_async" ELSE "write_clocked_block_open_sync", a)}
    [] OTHER -> {}

---------------------------------------------------------------------------
(* What steps come to, done in order from these facts: the actions, and the *)
(* facts at the end, NoFacts when an action or a task cannot be done. No two *)
(* methods of a task apply to a design at once.                             *)

NoFacts == {"none"}

after(facts, name, a) ==
  IF facts # NoFacts /\ a.pre \subseteq facts /\ a.neg \cap facts = {} /\ also_needs(name, facts)
  THEN facts \cup a.eff ELSE NoFacts

RECURSIVE Doing(_, _, _)
Doing(facts, acts, steps) ==
  IF steps = <<>> \/ facts = NoFacts THEN [facts |-> facts, acts |-> acts]
  ELSE LET s == Head(steps) IN
       IF s[1] \notin Tasks
       THEN Doing(after(facts, s[1], action(s[1], s[2])), Append(acts, s), Tail(steps))
       ELSE LET ways == methods_of(s[1], s[2], facts) IN
            IF ways = {} THEN [facts |-> NoFacts, acts |-> acts] ELSE Doing(facts, acts, The(ways) \o Tail(steps))

Come(facts, steps) == Doing(facts, <<>>, steps)
=============================================================================
