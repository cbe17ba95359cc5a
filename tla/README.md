# A verification of the HTN planner (tomcat-planrec)

This directory models, checks and proves things about the hierarchical planner
of this repository: the task networks it searches through, the meaning of method
preconditions, the rollouts, and the commit loop that turns Monte Carlo tree
search into a plan; about the shared fact bases of its states; about the run
directories of its evaluation harness; about the state machines its RTL domain
derives from a specification; and about how step lists are recorded, learned
from a model in rounds, and lifted to methods.
Everything is in TLA+; TLC checks the models on small
instances, TLAPS proves the results listed under *Proofs* for all instances.

## The system

| component | where | state it keeps | operations |
|---|---|---|---|
| task network | `lib/typedefs.h` `TaskGraph` | tasks with edges, next id, pending checks, tags, step count | add a task or an edge, remove a task, tag a task |
| methods | `lib/typedefs.h` `MethodDef` | none (read-only after loading) | `bindings`, `ground`/`apply_binding`: replace a task by subtasks |
| actions | `lib/typedefs.h` `ActionDef` | none | `apply`: precondition, then effects in sequence; `holds` |
| method preconditions | `lib/cpphop/cppMCTShop.h` `mprec` | the checks and tags in each network | `first_action_ok`, `links_intact`, `record` |
| look-ahead | same, `lookahead` | none | evaluate a binding's precondition early, drop it where that is a proof |
| rollouts | same, `simulation` | the call stack, one shared plan vector | a randomised depth-first dive: Solved, Refuted or Cutoff |
| tree policy | same, `selection`, `backprop`, `expansion` | the tree of one decision | descend, mark dead, make children |
| commit loop | same, `seek_planMCTS`, `cppMCTShop` | committed nodes, task tree, undo stack, counters | decide, commit, backtrack, give up |
| knowledge base | `lib/kb.h` | shared fact relations, lazily built SMT text, type tree | tell, ask, copy |
| evaluator | `lib/evaluator.h`, `lib/expr.h` | none | enumerate the bindings of a condition, fall back to Z3 |
| parser, validator, loader | `lib/parsing`, `lib/cpphop/validate.h`, `loader.h`, `case.h` | none | HDDL text to a domain and a problem, or a list of errors |
| grapher | `lib/cpphop/grapher.h` | none | draw a plan's task hierarchy |
| executor | `executor/` | the model's KV cache and the record of its tokens | sample, converse, score with a local LLM |
| evaluation harness | `eval/rtl_eval.py`, `pipeline.py`, ... | files of a run directory | build requests, run the executor, score, reuse, vote |
| RTL domain and tools | `rtl_designs/` | the machine derived so far; the module so far | list a recogniser's states, derive its transitions, write Verilog from a plan |
| step lists | `eval/learn_steps.py` | the plan of a list, its module, its phase and turns | work out the menu, take a step, look ahead, give a verdict |
| learning | `eval/learn_ground.py`, `learn_family.py` | requests, answers, what was tested and its verdict, on disk | ask, test, send back with the diagnostic, resume |
| lifting | `eval/lift.py`, `lift_loops.py` | examples, conditions, methods | generalise lists to methods, tell them apart, test them |

How they interact. The loader turns HDDL into a `DomainDef`; a method's
precondition becomes an artificial action `__mprec_...` ordered before the
method's other subtasks. `cppMCTShop` builds the initial node and calls
`seek_planMCTS`. For each decision that loop grows a tree from the current node:
`selection` finds a leaf, `expansion` makes its children, `simulation` values it,
`backprop` carries the value up. `simulation` and `expansion` both make
successors by applying an unconstrained action (`ActionDef::apply`,
`TaskGraph::remove_node`, `mprec::record`) or by grounding a method
(`MethodDef::ground`). The loop commits to a child of the root, or undoes the
last commit. The task tree the grapher draws is kept by commits and backtracks.

The evaluation harness asks a model for Verilog or for problem files and keeps
everything in run directories. A problem file goes through `problem_compiler.py`,
which lists the states of the machine it asks for; the planner derives the
transitions with the methods of `rtl_domain.hddl`; `plan_to_verilog.py` writes the
module. For a family of designs whose methods are missing, a model picks steps
from menus (`learn_steps.py`) or writes lists outright (`learn_ground.py`), lists
that pass their testbench are lifted to methods (`lift.py`, `lift_loops.py`), and
the methods are tested by planning with them (`learn_family.py`).

What is hard here. The planner is sequential, so nothing runs concurrently; its
difficulty is in long sequences of small updates to networks no one writes down:
orderings rewired at every decomposition, precondition records carried through
nested methods while unordered tasks interleave, and claims of *proof* (a dead
end, a dropped binding, a refuted rollout) that many shortcuts rest on. A false
proof loses a plan silently; a test sees only that some plan came back. The
budget may end anywhere, and commits must be undone in order. The executor and
the harness add failures halfway and restarts. The RTL tools and the learners
work out one thing twice in different places: the compiler lists states that the
domain's methods derive again, a menu is filtered by what later menus will offer,
and a method must give back, by the planner's choices, the list it was made from.

What makes each part correct:

* network: bookkeeping refers only to what is there; edges are known at both
  ends; orderings never form a cycle.
* preconditions: each mode delivers what its comment promises over every
  interleaving; a stricter mode admits no more than a weaker one.
* restrictions and look-ahead: what they leave out never contains the last plan.
* rollouts: they end; Refuted is a proof; the scored plan is executable.
* commit loop: dead means no plan; after any sequence of commits and backtracks
  the task tree is the derivation of the path; the loop ends.
* run directories: a file that marks work done vouches for the files beside it
  after any crash, and re-running finishes.
* knowledge base: each state has its own facts, whatever buffers are shared; both
  engines that answer queries answer from them; a copy costs what was written.
* recognisers: the machine reports each sequence exactly when it has arrived; it
  has the states the compiler encoded; there is one way to derive it.
* step lists: no block is opened that nothing can fill, no decision is left that
  nothing can use, a finished module is whole, a right list can be recorded.
* learning: a pass is of the list beside it, whatever was interrupted or edited.
* lifting: the methods give each problem its own list under every choice the
  planner has, so that passing the test is not luck.

## The modules

| module | models | role |
|---|---|---|
| `TaskNetwork` | `TaskGraph`, `apply_binding`, `ground`, `mprec::record` | a network as a value, with its operations |
| `HtnDomain` | `ActionDef`, `mprec`, `lookahead`, the candidates and children of `simulation` and `expansion` | what a step from a node can be; assumptions on a loaded domain |
| `Progression` | one branch of the search | the core state machine; theorems are about it |
| `Timeline` | the same with two history variables | what preconditions mean, stated over history; refinements between modes |
| `Solvability` | nothing in the code | the reference of `MCTimeline` and `MCSearch`: is there a plan when everything is tried |
| `Rollout` | `simulation` | its recursion as a stack of calls |
| `Search` | `selection`, `seek_planMCTS`, the task tree | the commit loop over abstract nodes |
| `RunDirectory` | `cmd_generate` of `rtl_eval.py`; `cmd_translate`, `cmd_build`, `cmd_generate`, `reuse`, `done` of `pipeline.py`; `run_request` of the executor | the files of one problem, written one at a time |
| `FactBase` | nothing in the code | what the planner takes its states for: independent sets of facts |
| `KnowledgeBase` | `KnowledgeBase` of `kb.h`, `ActionDef::apply_binding`, the refreshes of the search | the states alive at one time, with shared buffers and cached SMT text |
| `ProblemCompiler` | `expand_sequences`, the encoding and the refusals of `problem_compiler.py`; the problems of `check_sequence_detectors.py` | the machine a file asks for, worked out before planning |
| `MachineDerivation` | phase 1 of `rtl_domain.hddl` for detectors and recognisers | the planner derives the machine, which then runs beside its sequences |
| `RtlActions` | the actions of `rtl_domain.hddl` that can stand on a menu of these designs, the tasks their reduced domains keep, and those tasks' methods | what each needs and adds; what steps come to |
| `VerilogText` | `plan_to_verilog.py`, the checks of `learn_steps.py` on a module's text | a module as its lines |
| `StepList` | the menus, filters, look-ahead and recorder of `learn_steps.py` | a list being recorded, one turn at a time |
| `Learning` | the rounds of `learn_ground.py` and `learn_family.py` | requests, answers and verdicts on disk |
| `Tying` | what the lifters share: facts as conditions | variables tied to a module |
| `LiftCase` | `lift_case` of `lift.py` | one method from the lists of a case |
| `StepOrder` | `lift_loops.py`: what a list comes to, which steps commute, normalisation | a list in a chain's order |
| `LiftLoops` | `lift_loops.py`: chains, folding, variants, walks | recursive methods from one list |
| `Lifting` | `lift.py` `main`, `tell_apart`; `lift_loops.py` `main`; the family test of `learn_family.py` | composes `Learning`, `LiftCase` and `LiftLoops` |
| `NetworkProofs` | | lemmas on the operators of `TaskNetwork` and `HtnDomain` |
| `TimelineProofs` | | proofs about `Progression` and `Timeline`: the network, what preconditions mean, the refinements between modes |
| `RolloutProofs` | | proofs about `Rollout` |
| `SearchProofs` | | proofs about `Search` |
| `LearningProofs` | | proofs about `Learning` and about `LiftCase` |
| `RunDirectoryProofs` | | proofs about `RunDirectory` |
| `KnowledgeBaseProofs` | | proofs about `KnowledgeBase`, among them that it implements `FactBase` |
| `DerivationProofs` | | proofs about `ProblemCompiler` and `MachineDerivation` |
| `MCDomain`, `MCTimeline`, `MCRollout`, `MCSearch`, `MCKnowledgeBase`, `MCRecogniser`, `MCStepList`, `MCLifting` | | the instances TLC checks |

`Progression` is the abstract specification of the search: a rollout and the
tree both walk its branches and only narrow the choice. `Rollout` and `Search`
take their steps from the same operators of `HtnDomain`, so what a step does is
written once.

Correspondence to the code. A network is a record with the fields of `TaskGraph`;
edge vectors are sets (no reader depends on their order or multiplicity), and
copy-on-write pointers are values. Ids are the code's ids except that the check
index starts at 1 and "none" is 0 (`establishes`, `mprec`) or -1 (`prevTID`).
Arguments are part of the head: a binding of a method is one record of
`MethodDefs`, so the several bindings of one method are several records with the
same name. A state is the set of facts that hold; a condition is a set required
and a set forbidden; a conditional effect is evaluated in the state its
predecessors left, as `apply_binding` does. An action with ground arguments has
at most one successor state.

In `Rollout` a frame holds what one call of `simulation` has on its C++ stack:
candidates still to try, the method loop, the pass, the deferred bindings, and
the step its caller appended. A shuffle is a free choice of the next element.
`Leave` is the return of a call together with the caller's pop and its test of
the status; `Unwind` is the same for callers further out.

In `Search` an action is one stretch of the loop between two choices. A node of
the decision's tree is named by the children taken to it instead of by a number;
the visits of `-r` rollouts are one outcome, the first that is not Solved
(`-r` of at least 1). UCT and the max-child rule may pick any live child, so the
results hold for every score function and exploration constant. What a node is
is left to constants: `Nodes` that can be reached, the ids of a node's tasks
(`Tasks`) and the next id of its network (`NextTID`), its children (`Expand`),
what a rollout may return (`Outcomes`) and whether a plan completes it (`HasPlan`,
which no action reads). `MCSearch` gives them the nodes of a domain.

In `KnowledgeBase` a state is a number, a buffer an address, and a relation's
entry a tuple (the code stores `arity` integers in a row; a predicate without
arguments has one tuple, its sentinel). A `shared_ptr` count is the number of
pointers to the address, and a buffer goes with its last pointer. `Copy` is the
copy constructor, as a node of the search or as the start of `apply_binding`;
each effect is then a step of its own, and `Close` is the `update_state` at the
end. Between these steps no other state is touched, as one thread runs. A query
is about one fact: whether the text Z3 gets is that of the state's facts shows
there already. `Declined` are the conditions of effects that the direct evaluator
leaves to Z3. `misled` is a history variable. Any other query may reach Z3 or
not, so `Ask` is always possible and never required.

In `RunDirectory` a file holds the request it states (`request.json`) or was made
from (a sample, `gen.json`): seeds are fixed, so a request and a number determine
a sample. There are three directories, of the direct baseline, of a pipeline run
and of its translations, and one command runs at a time. One action is one file
written or removed, so a crash falls between any two of them, and `Crash` may
also leave the file being written cut short, because every writer opens its file
in place. `run.json` keeps the number of samples and the mode of a run fixed, so
both are constants. A command that finds nothing to do, refuses, or fails on a
file it cannot read changes nothing and is no step. `Edit` is a change of the
prompt builder or its data; `MoveAside` is what `build` tells its user to do when
it refuses. `route` is as it is in the code: before `build` votes it asks whether
the translations' files exist, not which request they are of. `cut` is a history
variable: the directories whose last copy of samples was interrupted.

In `MachineDerivation` the state is the planner's task list with the facts its
actions have added. There is an operator for each method, which gives the
decompositions it offers for the first task; `Decompose` takes one of them. A
bit sequence is a sequence over 0 and 1, and a state is the prefix it stands
for. When no task is left the machine runs: `Clock` reads a bit from outside, and
`hist` the bits received since the start (or since the last occurrence, where they must not
overlap), which is what the properties compare its outputs with. A file that
the compiler refuses has the phase `refused` and does nothing.

In `StepList` a turn is one action. The menu is computed from the plan as
`Problem.menu` does, filter after filter: reachable steps, steps that repeat, blocks that
nothing could fill, decisions that no code would use, the closing of a module
that is not whole. A reduced domain keeps the tasks whose methods other families use
as well, and they stand on the menus beside the actions: `methods_of` of `RtlActions`
has their methods, and `Come` what a list of steps comes to. A chooser (the model, a scorer, a draw) may pick anything on
the menu, end its phase, or answer nonsense. The steps of a list are kept as the
actions they come to, and two entries are the same if they add the same actions: the
code compares added lines, added facts and sentences, and no two actions of the domain
have the same sentence. A module's text is a sequence of lines, and a line
a record of what the rules read off it. `Starts` begins a list with steps already
taken, so that deep lists are reached. The three problems of `MCStepList` are training problems of
`learn_family.py` (`counter_0_15_free_async_active_low`, `mealy_1_ov_async_active_low`,
`table_01_2states_async_active_low`), fact by fact, and `CounterList`, `DetectorList`
and `TableList` are the hand-written methods' own lists for them, as `frontier` of
`learn_ground.py` cuts them and `learn_steps.py check` (`walk`, `cmd_check`) takes them
through the menus. The menus of the model are those of the code: on 291 lists drawn at
random over the three problems the two offered the same entries.

In `Learning` one action is one file, or one batch of samples, written. A
directory is `<<case, run, round>>` and holds a request, the samples with the
request `gen.json` names, the list last tested, and the verdict; the tested list
and its verdict are two files, and `Crash` may fall between them. Memory starts
anew with each run, the disk does not. `learn_family.py` has the same loop with
methods for answers. What a test says of an answer is a CONSTANT.

In `LiftCase` a variable is the column of names an argument has in the lists of
a case, and `Tie` takes one fact, in the order of the code's ranking. `bindings` is what the
planner can take the bound variables for in each problem; it starts as the module
alone and is extended by each condition. In `StepOrder` and `LiftLoops` the
functions of `lift_loops.py` are operators, which `Lifting` calls in the order of
`main`. Python's iteration over sets of chains follows string hashes, so where
the code takes the first chain that folds the model takes any. `Walk` and `Plans`
are the planner on the lifted methods: every plan it can find. Whether a module
passes its testbench is the oracle `Simulates`.

## The runs

| run | question | bounds |
|---|---|---|
| `timeline_at_start` | Is every branch of the default mode sound: the network, the precondition at the method's start, no restriction losing the last plan; and a branch of compiled mode? | `MCDomain`: six compound tasks, nested guarded methods, two bindings of one method, an empty method, a task that breaks and restores the condition; no bound on the branches, which end by themselves (at most 20 steps) |
| `timeline_protected` | Does the condition hold throughout, do the check records agree with history, and is it a branch of at_start? | the same domain |
| `rollout` | Does every rollout end, refute only what has no plan, score what it executed, and restore the plan? | 6 starts, some without a plan, some whose decomposition cycles, one with only plans beyond the budget; depth budget 6, so solved, refuted and cut-off rollouts all occur; restrictions 0 to 3, look-ahead on and off; the reference for refutations takes up to `Longest` = 8 steps, which is enough for a plan from each start that has one |
| `search` | Do commits, backtracks and dead ends stay consistent, and does the loop end? | rollouts of depth 3 over a domain with a good, a bad and a trap branch; at most 5 iterations a decision with a time limit that may end at any of them, 6 decisions, 3 backtracks in a row (the code: 10) |
| `run_directory` | Does `gen.json` vouch for the samples beside it after any interruption, is what counts as done of the current request, and does re-running finish? | two requests, two samples, one edit of a prompt, two interruptions |
| `run_directory_skipped` | expected violation: `generate` skips only what is current | as `run_directory` |
| `knowledge_base` | Do sharing and caching stay invisible, whatever is copied, written, asked and dropped? | three states alive at a time, two predicates (one a type with an object), three facts; any number of steps |
| `knowledge_base_declined` | expected violation: Z3 answers from the facts as they are | as `knowledge_base`; one condition is left to Z3 |
| `recogniser` | Does the derived machine report each sequence exactly when it has arrived, with the states the compiler listed, and is each derivation forced and finite? | all Mealy and Moore detectors of up to 4 bits, overlapping or not; recognisers of one and two sequences of up to 3 bits with every kind of fact, and one as HDLC has; inputs of up to 6 bits |
| `recogniser_held` | expected violation: what the compiler accepts is recognised | as `recogniser` |
| `step_lists` | Whatever is chosen, turn after turn: is each opened block fillable, each decision usable, each closed module whole, the hand-written methods' list on offer, and does every list end? | three training problems, their lists begun with the first 3 steps of a counter's 10, 10 or 11 of a detector's 17 and 7 of a table's 16 as the hand-written methods take them; no phases, or two; menus cut after 2 free choices (the code's `MAX_FREE`) and 40 tied ones, 18 turns (code: 60) or 20 with phases (code: 80), 3 blocks open at once |
| `lifting` | After interrupted and re-run rounds and edited prompts, is each pass of the list beside it; and do lifted methods give back exactly their lists? | four cases of counters, one of them with right, reordered, wrong and unreadable answers, two rounds, one edit, one interruption, `lift.py` run whenever no round is going on; for `lift_loops.py` two Moore tables and four sets of lists: in another order, folded backwards, with an output apart, spelt out |

The bounds are enough for what the properties need. In `MCDomain` both bindings
of a method interleave with a foreign task that breaks and restores their
condition at every point, through two levels of nesting; every mode accepts some
branches there and refuses others. In `MCRollout` budgets end inside the
cycling decomposition, and a binding that fails at first succeeds when deferred.
In `MCSearch` the trap's first nodes can only be cut off, so the search commits
into it and must undo two commits in a row; every verdict (plan, stuck, too many
decisions, budget, no plan) is reached. In `RunDirectory` two samples are the
fewest that can disagree; one edit makes a directory stale, and the second
interruption falls into the recovery from the first. `RunDirectoryProofs` lifts
its safety properties to any number of each. In `KnowledgeBase` three states are
the fewest in which a buffer is still shared after one of its sharers has
detached; an empty relation has no buffer and a type's has one from the start.
Its view hides which address a buffer has, which no action or property depends
on; states are dropped and their numbers reused, so histories are unbounded. The
run assumes that the evaluator takes the conditions of effects (`Declined = {}`);
`knowledge_base_declined` drops that. In `MCRecogniser` patterns
of four bits have borders of one, two and three bits (`0110`, `0101`, `0000`), and
six input bits hold two occurrences of `0101` that overlap. Two sequences
are the fewest that can be prefixes of, or hidden in, one another. In `MCStepList` lists may
go wrong at every turn and every verdict is reached; the turns are enough for the
longest of the hand-written lists, and the starts leave the logic to be chosen: a
counter from its interface on, a detector from its next-state logic on or from its
output on, a table from its next state on. What comes before them the walks along the
hand-written lists do not see; `Starts` is what keeps the run in reach. The counter has an opener
that only some steps fill, the table decisions that only later lines use, and on the
detector's menu a task writes what two steps of the list would. In
`MCLifting` the four counters differ in their resets and limits and, by an enable, in
their steps, so that methods are told apart by a fact present and a fact absent;
a chain is folded along its order and against it, nested in another and beside it.

Domain of the checks. Reduced constants are `MaxDepth` (code: 1000), `StuckLimit`
(10), `MaxDecisions`, `MaxIterations`; they are CONSTANTS of the modules and no
property depends on their values.

Fairness. The planner is one thread that runs until it returns, so weak fairness
of the next-state relation is all that is assumed (`RFairSpec`, `FairSpec`): some
enabled step is taken. No fairness is assumed of choices. In particular
`SearchEnds` holds although the random picks may be the worst ones.
In `RunDirectory` a running command goes on (weak fairness of `Step`), and whoever
runs the harness keeps running each command again while it has something to do
(strong fairness of each `Start`, because other commands take turns with it);
edits and interruptions are bounded, as nothing finishes while they never stop.
In `MachineDerivation` the planner goes on until no task is left (weak fairness of
`Decompose`); inputs need not come. In `StepList` the recorder goes on turn by turn
(weak fairness of `GoesOn`) and the chooser's answers are any.
`CHECK_DEADLOCK FALSE` in all runs: a branch, a rollout, a derivation, a list and a
search do stop, with a plan or at a dead end, and so do the commands once every
directory is finished.

### What the violations show

* `run_directory_skipped`: `rtl_eval.py generate` compares `request.json` with the
  request it builds, not with the one `gen.json` names. It overwrites the first
  when the prompt changed, and the second is removed only once the executor has
  loaded its model. Interrupted in between, the problem counts as done with the
  samples of the old prompt. `pipeline.py` compares hashes and is not affected
  (`ReusedIsOwn`).
* `knowledge_base_declined`: `apply_binding` writes the effects one after another
  and refreshes the SMT text once, at the end. A condition of an effect that the
  direct evaluator declines (an implication) is answered by Z3 from the parent's
  text, if the parent was ever asked, or from the text of an earlier condition of
  the same action; a condition it takes is answered from the facts by then.
  Precondition and score queries are not affected (`EnginesAgree` in
  `knowledge_base`).
* `recogniser_held`: a `keeps_while` fact makes the accepting state of its output
  hold on a bit, whatever follows, and the machine forgets which prefix of another
  sequence the held bits form. With one output for `0 1 1 0` and another for `0 1 1`
  held on 1, the second holds on the third 1 of `0 1 1 1 0` and the 0 then leads to where `0 1 1 0`
  leads: the first output reports a sequence that has not arrived. The compiler
  accepts the file. `MachineRecognises` shows that this is all: under `HeldApart`
  (what is held is all there is to remember) every accepted machine is right.

The models show more, for which there is no run of its own. A `gen.json` or samples cut short while `reuse`
copies them, in the order of `os.listdir`, count as done without the rest, which
is why `GenVouches` leaves out `cut` and `ReusedIsOwn` speaks of what is copied, not of what counts as
done; a `gen.json` cut short cannot be parsed and
every later `generate` fails on it, which is why `Resumes` has `Stuck`; and after
an interrupted `translate`, `build` votes over old and new translations together. A
decision taken early can differ from the one the rest of the budget would have
given, as the one child left alive may only have been cut off; it costs time and
not correctness (`DeadendIsProof`, `TaskTreeIsDerivation`).

## Proofs

Every theorem holds for all values of the constants its assumptions allow.

`TimelineProofs` proves about `Progression`, for every set of facts, actions
and methods, every initial state and all three modes (with the lemmas of
`NetworkProofs`):

* `TypeCorrect`: `Spec => []TypeOK`
* `AlwaysMirrored`: `Spec => []EdgesMirrored`
* `AlwaysAcyclic`: `Spec => []OrderingsAcyclic`
* `NeverBlockedByOrderings`: while tasks remain some task is unconstrained

and about `Timeline`, what the modes promise of preconditions:

* `CheckComesFirst`: `TSpec => []CheckedBeforeStart`, in every mode
* `StartsWhereItHolds`: `TSpec => []HoldsAtStart`, except in compiled mode
* `ChecksTell`: `TSpec => []ChecksTellHistory`, except in compiled mode, which
  keeps no checks
* `LinksAreProtected`: `TSpec => []HoldsThroughout`, in protected mode
* `ProtectedImplementsAtStart`: in protected mode `TSpec => ImplementsAtStart`, so
  each branch protected mode searches is a branch at_start mode admits
* `AnyModeImplementsCompiled`: `TSpec => ImplementsCompiled`, so no mode finds a plan
  that compiled mode would not admit

`RolloutProofs` proves about `Rollout`, for every domain, start, depth budget,
restriction and order of choices:

* `ScoredReplays`: `RSpec => []ScoredPlanReplays`
* `AlwaysRestored`: `RSpec => []PlanRestored`
* `RefutedRulesOut`: a refuted start is in no progressive set of nodes (defined below)
* `RefutationsAreProofs`: `RSpec => [](options.restrict = 0 => RefutedIsProof)`, a
  rollout that considers every unconstrained task refutes no start that has a plan

`SearchProofs` proves about `Search`, for any search space, outcomes of rollouts,
budgets and limits:

* `TaskTreeFollows`: `Spec => []TaskTreeIsDerivation`
* `DeadendsAreProofs`: `Spec => []DeadendIsProof`
* `GivesUpOnlyUnvisited`: `Spec => GivesUpUnvisited`, a node with a plan is given up only
  if the budget ended before the child the plan goes through was visited, or the node
  expanded, and then without the verdict that there is no plan

`RunDirectoryProofs` proves about `RunDirectory`, for any requests, number of
samples, edits and interruptions:

* `AlwaysVouches`: `Spec => []GenVouches`
* `AlwaysReusesOwn`: `Spec => ReusedIsOwn`, what reuse copies was made from the pipeline's
  own request, copies cut off before or not

`KnowledgeBaseProofs` proves about `KnowledgeBase`, for any finite number of states and
predicates, and any facts:

* `AlwaysTyped`: `Spec => []TypeOK`; `AlwaysCounts`: `Spec => []CountsFacts`
* `StatesIndependent`: `Spec => Independent`, the refinement of `FactBase`
* `AnswersAgree`: `Spec => []EnginesAgree`, if `Declined = {}`
* `SharingKept`: `Spec => SharesUntouched`

`LearningProofs` proves about `Learning`, for any cases, runs, rounds, answers,
edits and interruptions:

* `RerunsMend`: `LearningSpec => []Mended`, a run that comes to its end has set right each
  directory it came to, and what is torn beyond them a run of an earlier prompt left

`LearningSpec` is the part of `Lifting`'s specification that writes to the disk:
`Lifting` takes the same steps and leaves them alone otherwise.

The same module proves about `LiftCase`, for lists of any number of steps, of any
problems, and any facts:

* `LiftCaseReproduces`: `LiftCaseSpec => []Reproduces`, a method that is lifted gives
  each of its problems its own list under every binding of its conditions

`DerivationProofs` proves about `MachineDerivation`, for any files, patterns, sequences
and streams of bits:

* `DerivationIsForced`: `Spec => []Forced`, the planner never gets stuck and has nothing
  to choose
* `ListingIsReached`: `Spec => []ListedIsReached`, what the compiler lists and encodes
  before planning is what the derived transitions lead to
* `MachinesRecognise`: `Spec => []MachineRecognises`, the machine shows exactly what the
  description asks for

### Assumptions and arguments

**Networks.** The assumption is `DomainAssumption` of `HtnDomain`: the root is a
compound task, the mode is one of the three, and every method is well formed: its
subtasks are known, its orderings are among them and have no cycle, and its
check, if it has one, is an artificial action that comes first. `validate.h` and
`loader.h` establish that, and TLC evaluates it on every run. The inductive
invariant `IInv` is `Sound(net)` with the plan's typing, and `Sound` is typed,
mirrored and acyclic *together*. None is inductive alone: removing a task keeps
edges inside the network only because its neighbours list it (mirrored), and a
freshly ordered network is mirrored only because new ids lie above all old ones
(typed). `RemoveNodeSound`, `RecordSound`, `ApplyBindingSound` prove the three
operations one by one, `GroundSound` and `AfterActionSound` compose them, and
`NetworkInvariant` has a step per action. Acyclicity is stated without paths (every
non-empty set of tasks has a member with no predecessor in the set), which makes it
provable without induction: a set that contains new tasks has a first one by the
method's own acyclicity, as new tasks wait only for new tasks; a set of old tasks
is as before.

**Preconditions.** `NoCheckAssumption` says that the mark of a method without a
precondition names no action. The planner does not see the history, only tags and checks, so the
properties, which are about the history, are not inductive. `History` and `Ordered`
say where a method stands: until its check has run, whatever has
arisen from the method waits for the check's task (`Waits`); afterwards the check
passed, before any real action of the method (`Passed`). That is `CheckedBeforeStart`.
That the tasks a nested method adds wait as well is where orderings are inherited
at a decomposition, and why `Sound` is needed. For the other modes `Kept` adds that
check number `Ord(k)` is the one of instance `k` and is tagged on exactly what has
arisen from it (`Carried`), that its record says what happened (`Told`), and that
a check passed since the last real action still holds (`Fresh`), which makes
skipping its evaluation right. In protected mode an action is refused if it
breaks an open check, so the interval from check to start grows one state at a time
(`AppliedThroughout`). In the refinement of at_start mode by protected mode the
mapping is the identity on the variables; the instance differs in `Mode`.
Lemmas show that the operators that do not depend on the mode are the same in
both instances; `WeakerApplies` is the heart. To compiled mode a network is mapped
by `Erase`, which forgets its checks, tags and steps and keeps tasks, edges and ids:
each operation of a network commutes with `Erase` (`ErasedRemoveNode`,
`ErasedAfterAction`, `ErasedGround`), and what compiled mode reads is left.

**Rollouts.** `LongestAssumption` says that the number of steps the reference takes is
a number; the planner has nothing like it, and the theorem holds for each. One vector holds the plan of all calls on
the stack, and each pops what it appended. `OnBranch` gives each call a mark, the
length of the plan when it was entered: marks grow along the stack, the plan up to a
call's mark executes from the start and ends in the call's state, and the vector
has nothing beyond the innermost call's step. `Replay` is a recursive function, and what it returns is
proved by its equation: two functions that satisfy it and differ would
differ at a least place (`OneTrace`), so no induction over operators is needed.

`RefutedIsProof` is not inductive: it speaks of the start and says nothing of the calls
below it. A set of nodes is `Progressive` if, whichever candidates a call takes for
one of its nodes, some candidate has a child in the set, or no task is left. The nodes
of a plan are such a set where all tasks are candidates (`PlansAreProgressive`). The
invariant `RefInv` says for all of these sets at once that each call on the stack
whose node is in one still has a child in it: among the candidates to come, the
methods to come, the bindings of this pass or the deferred ones (`Remains`), or it is
the call above (`Open`). So a call that has tried everything is in none of them. Nothing may be lost
on the way, and `DroppedIsDead` is where that is not plain: a binding that look-ahead
drops fails now, for a check that is the only task its network offers (`CheckAlone`),
so nothing can change the state before the check fails too. That takes a
network with one unconstrained task, which is the test of `may_prune`, and a method whose
last subtasks hold back all that waited for the task (`SomeTail`, `GroundTails`).
For restrictions 1 to 3 the theorem is `RefutedRulesOut`; that a plan's nodes hold such
a set there is that the restriction loses no plan, which TLC checks
(`RestrictionLosesNoPlan`).

**The commit loop.** `ExpandAssumption` says that a decomposition removes its task and
gives its subtasks ids from the node's next one on, and that an action adds none.
`SuccessorsAreFresh` of `NetworkProofs` proves it for the children `HtnDomain` makes of a sound network, for every
domain. `PlanAssumption` says that some child of a node with a plan has one and that a
rollout refutes only a node without. Of the planner's own rollouts the second half is
`RefutationsAreProofs`, where they are not restricted; the rest is what the runs
`timeline_at_start` (`RestrictionLosesNoPlan`) and `rollout` (`RefutedIsProof`) check, and
TLC evaluates the assumption on the nodes of `MCSearch`. What the theorems
add is that the loop keeps it: no order of visits, marks, promotions, commits
and backtracks turns a cutoff into a dead end. `IInv` has `Path`, `Derived` and
`Accounted` for the committed part: each commit has an entry of
the undo stack, ids grow along the path, and each task in the tree was made by one
commit and decomposed by at most one. The task tree can be put back only because ids are never handed out
twice: what a backtrack erases belongs to that commit alone. `Shaped` and `Grown`
are about the decision's tree: a node with children has all that its expansion makes,
so that *all children dead* says something about the node. `GivesUpUnvisited` then needs
`MissedUnvisited`: a node with a plan that was expanded has a child with one; a node is given up
only when none of its visited children is alive, and that child, which is not dead, was not one of them.

**Run directories.** The assumptions are that there is a request and a sample
(`RunAssumption`) and that a missing or a cut file is not a request
(`ContentsAssumption`). `GenVouches` is not inductive: that `gen.json` may be
written needs to know that the samples already are. `FilesInv` adds what holds
in the middle of a command. `Generating`: `gen.json` was removed, it is still to
be written, and each sample no longer to be written is of the request.
`Copying`: the other run is finished, and each file no longer to be copied is
equal to its own. There is one lemma per action, all of them over `PutFile` (one
file changes, nothing else) and `OutputsKept` (a directory whose outputs are left
alone goes on vouching). `ReusedIsOwn` adds `CopiesOwn`: a command copies only
where the other run is done for the request the pipeline has just written, each file
copied so far is equal to the finished run's, and of that run all files are of its request; it needs
nothing of what the directory held before.

**Knowledge bases.** The assumption is `KbAssumption`: finitely many states and
predicates, facts of known predicates, and type facts that name each object once,
which the search in `initialize` sees to. `IInv` is `TypeOK`, `CountsFacts` and
`TextCurrent`: each text is `Stale` or the facts of its state, but while the state
is written to. Independence needs the first two. A write goes to a buffer that
is the state's alone (a count of one, `UsedOnce`) or to a free address, of which
there are as many per predicate as there can be pointers (`WriteIsPrivate`); so
other states keep their facts. A removal takes one occurrence, which removes the
fact because there is no other (`RemoveOnly`). `TextCurrent` rests on independence
in turn: a text stays current while other states are written to. `AnswersAgree`
adds that nobody asks Z3 about the state being written to.

**Learning.** The assumptions are `LearningAssumption` (at least one run and one
round) and `AnswersAssumption` (no answer is the mark of a missing one). A run that is
interrupted can leave a directory with a pass beside another list (`Torn`), and
the next run starts from an empty memory, so nothing in memory says that it will
be mended. What does is that samples are reused: those on disk determine
the way a run takes (`Trails`), and `Mendable` says that each torn directory lies on
that way, ahead of the run if one goes on. `TrailGoesOn` extends a way by a round,
and `RecordKeeps` and `NextRoundKeeps` are where a run comes to a torn directory. After
an edit the samples of another prompt may be on disk and the way is another one; what
holds then is `SetRight`: in each directory a run has been to, the verdict is of the list
beside it. `Counted` says which those are, as many as the stages it remembers.

**Lifting.** The assumption is `GroupsAssumption`: the lists of a group have the
same steps, argument for argument, which is how `lift.py` makes its groups.
`Reproduces` is about finished methods and not inductive. `Tied` says of a method
in the making that the bindings of the bound variables are, in each problem, one:
its own names (`Tied_so_far`), and that what is not bound is still to be tied
(`Untied`). `BoundOnce` is the heart: a condition that picks an object out extends
one binding to one. `TieKeepsTied` applies it to all problems at once, as a reading has
to pick out in each of them.

**Machines.** `ProblemsAssumption` says what a file is: the sequences of a recogniser
are runs of bits, finitely many, and its occurrences may overlap; a detector has a
pattern of at least one bit, and the states of an accepted file are chained along
the prefixes of it, as `check_sequence_detectors.py` writes them. Everything is
stated of prefixes, by one notion: the longest of the states that some bits end with
(`Longest`), and the longest that a state itself ends with apart from itself
(`Falls_to`, its fallback). `Goal` says where the machine of a design should go from
a state on a bit, and no more than one state is a goal (`OneGoal`).

Three things are then proved. First, the compiler (`DesignSound`). Its walk over the
states, `step`, is a recursive function of a state and a bit; by the length of
states it leads to the goal (`StepIsRight`), as a fallback is shorter than its state
and the fallback of `x b` is where the fallback of `x` goes on `b` (`FallsFurther`).
The set that `reachable_prefixes` collects is the least one closed under it
(`ReachIsLeast`), `Sorted` lists each of them once, and `Width` bits hold their codes,
because a set of n elements has at least n subsets (`PowersReach`).

Second, the planner. `Forced` alone is not inductive: that a concluding task finds its
one fact needs to know that the task before it will provide it, and that nothing else
concludes the same first. `Derivation` says it of the whole task list. `Facts`: each
transition and fallback derived is right, and the output is asserted with exactly
the transitions that complete the pattern. `Stack`: a task that concludes has what it
reads off, or the task just before provides it, and all tasks before it are
smaller (`Size`: twice the length of the state, and one more for a transition), so none of
them is about the same. `Promised`: each state listed has both
transitions, or tasks for them, or the walk is still to come to it. `ReplaceHead` puts the
subtasks of a method in the place of the first task; there is one lemma per
method, and `MethodKeeps` collects them. `DerivingIsForced` goes through the guards of
the methods: they exclude each other, and the facts a concluding one reads are unique.

Third, the simulation. A detector is in the longest state that the bits still to be matched
end with (`Detecting`), so a Mealy machine completes the pattern when the bits do
(`MealyHit`) and a Moore machine is in the pattern's state (`MooreHit`). A recogniser
forgets bits while a sequence is held; under `HeldApart` it knows all the same of
every other state whether the bits end with it (`Remembering`), and that is kept by each
clock (`RecogniserClocked`). `recogniser_held` shows that it is not without `HeldApart`. These
invariants were checked by TLC on the runs' instances before they were proved.
`ProblemCompiler` has no RECURSIVE operator: what recurses is written as functions, whose
equations are proved from their definitions by a least place where they would
fail (`Least`).

### Model-checked only

* `RestrictionLosesNoPlan`, and with it `RefutedIsProof` for rollouts restricted to some
  of the compound tasks: that decompositions can be put in another order is a claim about
  whole plans, stated with a reference search that is recursive.
* Step lists (`OpenedIsFilled`, `StaysWritable`, `ClosedIsWhole`, `RightListOffered`), loops and the telling
  apart of cases (`OwnListStands`, `LoopsReplay`, `PassIsNoLuck`): their definitions are
  recursive, or fold over lists of any length, and what they compute for every input
  needs induction over data.
* Liveness: `Terminates`, `SearchEnds`, `Resumes`, `Derived`, `Ends`.

## What is not modelled

* Scores and UCT values, and with them `backprop`'s arithmetic: choices are free.
* `check_bound_names`, the parser, the passes of the validator and the loader, the
  grapher, the applications, the score functions: one stateless pass each.
* The type tree, and the evaluator's enumeration of bindings. Outside
  `KnowledgeBase` states are values and heads are ground; `StatesIndependent` is
  what justifies the values.
* Names a fact base does not know, which `set_fact` rejects: facts are interned.
* Of the executor, its conversation with the model (`converse`).
* Of the harness, evaluation, reports, scoring and the benchmarks, which write files that
  are made anew from the samples each time; `build`'s vote is one step.
* Of the compiler, state tables and counters, and `complete`'s default facts; the
  reading and writing of problem text.
* Of the domain, the actions and methods of the families that no list or machine
  here uses.
* How a module simulates: an oracle in `StepList` and `Lifting`.
* Of the learners, the wording of prompts and diagnostics, and with it what the prompts select
  for display, the scorer's numbers and the cache of answers; `translate.py` and
  `pseries.py`.

## Plan

Done: networks and preconditions (`TaskNetwork`, `HtnDomain`, `Progression`,
`Timeline`), rollouts (`Rollout`), the commit loop (`Search`), the run directories
(`RunDirectory`), the fact bases (`KnowledgeBase`), recognisers (`ProblemCompiler`,
`MachineDerivation`), step lists (`StepList`), learning and lifting (`Learning`,
`Lifting` and what it composes); the proofs above.

Next:

1. Proofs: that restricting the compound tasks loses no plan (decompositions
   commute), with which `PlanAssumption` of `Search` would be a theorem about the
   planner's own nodes; step lists, whose decisions and blocks go from one turn to the
   next and whose folds would have to become recursive functions first, as
   `ProblemCompiler`'s did.
2. The executor's conversation (`executor.h` `converse`): cache and record over
   several turns, decode failures, overflow; abstract specification: the next
   prompt continues exactly the cached prefix.
3. The compiler's state tables and counters; the type tree; the evaluator against
   its reference; `validate.h` as the proof of `WellFormedMethod`.
