------------------------------ MODULE MCStepList ------------------------------
(* Three of the training problems of eval/learn_family.py for StepList.    *)
EXTENDS StepList

ChainOf(first, next, last, x, s) ==
  {Fact(first, <<x, s[1]>>), Fact(last, <<x, s[Len(s)]>>)} \cup {Fact(next, <<s[i], s[i + 1]>>) : i \in 1 .. Len(s) - 1}

\* The ports in their order, the last an output, unless it is another; an
\* asynchronous reset, active low.
Ports(m, ports, out, clk, rst) ==
  {Fact(IF x = out THEN "output_port" ELSE "input_port", <<x>>) : x \in ToSet(ports)}
  \cup ChainOf("first_port", "next_port", "last_port", m, ports)
  \cup {Fact("clock_of", <<m, clk>>), Fact("reset_of", <<m, rst>>), Fact("reset_async", <<rst>>),
        Fact("reset_polarity", <<rst, "active_low">>)}

Objects(m, ports, states, width, values) ==
  [module |-> {m}, port |-> ports, state |-> states, bit |-> {"zero", "one"}, width |-> {width},
   value |-> values, polarity |-> {"active_high", "active_low"}, register |-> {}]

\* counter_0_15_free_async_active_low: it wraps from 15 to 0, without an enable.
Counter ==
  [objects |-> Objects("dut", {"clk", "rst", "q"}, {}, "bits4", {"n0", "n15"}),
   facts |-> Ports("dut", <<"clk", "rst", "q">>, "q", "clk", "rst") \cup
             {Fact("wrap_counter", <<"dut">>), Fact("count_output", <<"dut", "q">>),
              Fact("port_width", <<"q", "bits4">>), Fact("count_min", <<"dut", "n0">>),
              Fact("count_max", <<"dut", "n15">>)}]

\* mealy_1_ov_async_active_low: a detector of the pattern 1, of one state.
Detector ==
  [objects |-> Objects("fsm", {"IN", "CLK", "RST", "MATCH"}, {"s0"}, "bits1", {"n0"}),
   facts |-> Ports("fsm", <<"IN", "CLK", "RST", "MATCH">>, "MATCH", "CLK", "RST") \cup
             {Fact("sequence_detector", <<"fsm">>), Fact("mealy", <<"fsm">>), Fact("overlapping", <<"fsm">>),
              Fact("data_input_of", <<"fsm", "IN">>), Fact("detect_output_of", <<"fsm", "MATCH">>),
              Fact("cleared_by_reset", <<"MATCH", "RST">>), Fact("initial_state", <<"fsm", "s0">>),
              Fact("last_state", <<"fsm", "s0">>), Fact("expects", <<"s0", "one">>),
              Fact("state_code", <<"s0", "n0">>), Fact("state_width", <<"fsm", "bits1">>)}]

\* table_01_2states_async_active_low: its output is 1 in both states.
Table ==
  [objects |-> Objects("dut", {"clk", "rst", "x", "z"}, {"A", "B"}, "bits1", {"n0", "n1"}),
   facts |-> Ports("dut", <<"clk", "rst", "x", "z">>, "z", "clk", "rst") \cup
             ChainOf("first_listed", "listed_after", "last_listed", "dut", <<"A", "B">>) \cup
             {Fact("table_fsm", <<"dut">>), Fact("moore", <<"dut">>), Fact("data_input_of", <<"dut", "x">>),
              Fact("initial_state", <<"dut", "A">>),
              Fact("table_next", <<"A", "zero", "A">>), Fact("table_next", <<"A", "one", "B">>),
              Fact("table_next", <<"B", "zero", "A">>), Fact("table_next", <<"B", "one", "B">>),
              Fact("asserted_in", <<"z", "A">>), Fact("asserted_in", <<"z", "B">>),
              Fact("state_code", <<"A", "n0">>), Fact("state_code", <<"B", "n1">>),
              Fact("state_width", <<"dut", "bits1">>)}]

MCProblems == [counter |-> Counter, detector |-> Detector, table |-> Table]

\* The hand-written methods' own lists, cut where a reduced domain takes over.
CounterList ==
  << <<"analyze_choose_counter_register", <<"dut">> >>, <<"analyze_wrap_point", <<"dut", "n15", "n0">> >>,
     <<"write_interface", <<"dut">> >>, <<"open_clocked_block", <<"dut", "clk", "rst", "active_low">> >>,
     <<"write_counter_reset", <<"dut", "q", "rst", "active_low", "n0">> >>, <<"write_counter_free_open", <<"dut">> >>,
     <<"write_counter_wrap", <<"dut", "q", "n15", "n0">> >>, <<"write_counter_free_close", <<"dut">> >>,
     <<"write_clocked_block_close", <<"dut">> >>, <<"write_module_end", <<"dut">> >> >>

DetectorList ==
  << <<"analyze_choose_three_block_fsm", <<"fsm">> >>, <<"derive_next", <<"fsm", "s0", "zero">> >>,
     <<"analyze_match_from_scratch", <<"fsm", "s0", "one", "s0">> >>, <<"write_module_header", <<"fsm">> >>,
     <<"declare_port", <<"fsm", "IN">> >>, <<"declare_port", <<"fsm", "CLK">> >>, <<"declare_port", <<"fsm", "RST">> >>,
     <<"write_output_reg_decl", <<"fsm", "MATCH">> >>, <<"write_state_declarations", <<"fsm">> >>,
     <<"write_state_register", <<"fsm">> >>, <<"write_next_state_logic", <<"fsm">> >>,
     <<"write_output_open", <<"fsm", "MATCH">> >>,
     <<"write_output_reset_clause", <<"fsm", "MATCH", "RST", "active_low">> >>,
     <<"write_output_assert", <<"fsm", "MATCH", "s0", "IN", "one">> >>,
     <<"write_output_default", <<"fsm", "MATCH">> >>, <<"write_output_close", <<"fsm">> >>,
     <<"write_module_end", <<"fsm">> >> >>

TableList ==
  << <<"analyze_choose_moore_fsm", <<"dut">> >>,
     <<"analyze_read_transition", <<"dut", "A", "zero", "A">> >>, <<"analyze_read_transition", <<"dut", "A", "one", "B">> >>,
     <<"analyze_read_transition", <<"dut", "B", "zero", "A">> >>, <<"analyze_read_transition", <<"dut", "B", "one", "B">> >>,
     <<"write_interface", <<"dut">> >>, <<"write_state_declarations", <<"dut">> >>, <<"write_state_register", <<"dut">> >>,
     <<"write_next_state_logic", <<"dut">> >>, <<"write_moore_output", <<"dut", "clk">> >>,
     <<"write_moore_output", <<"dut", "rst">> >>, <<"write_moore_output", <<"dut", "x">> >>,
     <<"write_moore_output_term", <<"dut", "z", "A">> >>, <<"write_moore_output_also", <<"dut", "z", "B">> >>,
     <<"check_moore_output_assigned", <<"z">> >>, <<"write_module_end", <<"dut">> >> >>

RightLists == {<<"counter", CounterList>>, <<"detector", DetectorList>>, <<"table", TableList>>}

\* The plan after each of their steps.
RightPlans == {<<r[1], [k \in DOMAIN r[2] |-> Comes_to(r[1], r[2], k)]>> : r \in RightLists}

\* The hand-written methods' own list must be reachable through the menus:
\* whatever else a menu withholds, it can be chosen to its end.
RightListOffered == \A r \in RightPlans : walk(r[1], r[2])

MCStarts ==
  {<<"counter", SubSeq(CounterList, 1, 3), FALSE>>, <<"counter", SubSeq(CounterList, 1, 3), TRUE>>,
   <<"detector", SubSeq(DetectorList, 1, 10), FALSE>>, <<"detector", SubSeq(DetectorList, 1, 11), TRUE>>,
   <<"table", SubSeq(TableList, 1, 7), FALSE>>}
=============================================================================
