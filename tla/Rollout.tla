------------------------------ MODULE Rollout ------------------------------
(***************************************************************************)
(* A rollout: simulation (lib/cpphop/cppMCTShop.h), the randomised         *)
(* depth-first dive that values a node of the search tree. The recursion   *)
(* is an explicit stack, one frame per active call; a shuffle is a choice  *)
(* of the next element, so every random order is covered.                  *)
(*                                                                         *)
(* The caller acts on the status: Refuted marks the node dead, Cutoff does *)
(* not, Solved scores it.                                                  *)
(***************************************************************************)
EXTENDS HtnDomain

CONSTANTS
  MaxDepth,     \* depth_budget of the first call
  Starts,       \* the fact sets a rollout may start from, each with task Root
  Longest       \* how many steps the reference for refutations takes

ASSUME LongestAssumption == Longest \in Nat

VARIABLES
  options,      \* [restrict, lookahead, start]: the call's arguments
  stack,        \* the active calls, the innermost last
  dive,         \* the plan vector every call appends to and pops from
  ret,          \* the status being returned to the callers, or "none"
  scored        \* what domain.score was given, in a singleton, once Solved

rvars == <<options, stack, dive, ret, scored>>

Statuses == {"Solved", "Refuted", "Cutoff"}

Node(c) == [state |-> c.state, net |-> c.net]

\* The loop over one compound task: the methods still to come and, of the
\* current one, the bindings of this pass and those deferred to the next.
Loop(task, methods, pick, deferred, pass, guided) ==
  [ task |-> task, methods |-> methods, pick |-> pick, deferred |-> deferred,
    pass |-> pass, guided |-> guided ]

NoLoop == Loop(NoTask, {}, {}, {}, 0, FALSE)

\* A call on node c. step is what the caller appended to the plan for it.
Call(c, budget, step) ==
  [ node |-> Node(c), budget |-> budget, step |-> step,
    entered |-> FALSE, todo |-> {}, loop |-> NoLoop ]

Top      == stack[Len(stack)]
Below    == SubSeq(stack, 1, Len(stack) - 1)
Running  == stack # <<>> /\ ret = "none"
Working  == Running /\ Top.entered
TopNet   == Top.node.net
TopState == Top.node.state

Update(frame) == [stack EXCEPT ![Len(stack)] = frame]

\* Recurse into child d, leaving the calling frame as `frame`.
Recurse(frame, d) ==
  /\ stack' = Append(Update(frame), Call(d, Top.budget - 1, d.step))
  /\ dive'  = dive \o d.step
  /\ UNCHANGED <<options, ret, scored>>

Continue(frame) ==
  /\ stack' = Update(frame)
  /\ UNCHANGED <<options, dive, ret, scored>>

\* Mutants of Leave: the step is popped only when the search goes on; only when
\* it does not.
LeaveUnwinding(status) ==
  /\ stack' = Below
  /\ dive'  = IF status = "Refuted" THEN SubSeq(dive, 1, Len(dive) - Len(Top.step)) ELSE dive
  /\ ret'   = IF status = "Refuted" /\ Below # <<>> THEN "none" ELSE status
  /\ UNCHANGED options

LeaveBacktracking(status) ==
  /\ stack' = Below
  /\ dive'  = IF status = "Refuted" THEN dive ELSE SubSeq(dive, 1, Len(dive) - Len(Top.step))
  /\ ret'   = IF status = "Refuted" /\ Below # <<>> THEN "none" ELSE status
  /\ UNCHANGED options

\* Leave the innermost call: the caller pops the step it appended, and goes
\* on with its next candidate only if the call was refuted.
Leave(status) ==
  /\ stack' = Below
  /\ dive'  = SubSeq(dive, 1, Len(dive) - Len(Top.step))
  /\ ret'   = IF status = "Refuted" /\ Below # <<>> THEN "none" ELSE status
  /\ UNCHANGED options

---------------------------------------------------------------------------
RInit ==
  /\ \E restrict \in 0 .. 3, lookahead \in BOOLEAN, start \in Starts :
       LET c == [state |-> start, net |-> InitialNetwork(Root)] IN
       /\ options = [restrict |-> restrict, lookahead |-> lookahead, start |-> c]
       /\ stack = <<Call(c, MaxDepth, <<>>)>>
  /\ dive = <<>>
  /\ ret = "none"
  /\ scored = {}

\* No task is left: the plan is complete and is scored.
Complete ==
  /\ Running /\ ~ Top.entered
  /\ Ids(TopNet) = {}
  /\ scored' = {[state |-> TopState, plan |-> dive]}
  /\ Leave("Solved")

\* Mutant of CutOff: running out of budget is taken for a refutation.
CutOffRefutes ==
  /\ Running /\ ~ Top.entered
  /\ Ids(TopNet) # {} /\ Top.budget <= 0
  /\ Leave("Refuted")
  /\ UNCHANGED scored

\* The budget is spent with tasks left.
CutOff ==
  /\ Running /\ ~ Top.entered
  /\ Ids(TopNet) # {} /\ Top.budget <= 0
  /\ Leave("Cutoff")
  /\ UNCHANGED scored

\* Collect the candidates of this call.
Enter ==
  /\ Running /\ ~ Top.entered
  /\ Ids(TopNet) # {} /\ Top.budget > 0
  /\ \E u \in Candidates(TopNet, options.restrict) :
       Continue([Top EXCEPT !.entered = TRUE, !.todo = u])

\* The next candidate is an action; one with no successor is passed over.
TryAction(i) ==
  LET next == [Top EXCEPT !.todo = @ \ {i}] IN
  /\ Working /\ Top.loop.task = NoTask
  /\ i \in Top.todo /\ IsAction(TopNet, i)
  /\ \/ \E d \in ActionChildren(Top.node, i) : Recurse(next, d)
     \/ ActionChildren(Top.node, i) = {} /\ Continue(next)

\* The next candidate is compound: loop over its methods.
TryTask(i) ==
  /\ Working /\ Top.loop.task = NoTask
  /\ i \in Top.todo /\ IsCompound(TopNet, i)
  /\ Continue([Top EXCEPT
       !.todo = @ \ {i},
       !.loop = Loop(i, {m.name : m \in MethodDefs[TopNet.gts[i].head]}, {}, {}, 0, FALSE)])

\* The bindings of one method of the current task.
Bindings(name) == {m \in MethodDefs[TopNet.gts[Top.loop.task].head] : m.name = name}

\* Look-ahead guides them when there is an order to choose or one may be dropped.
Guided(bindings) ==
  /\ options.lookahead
  /\ \E m \in bindings : m.mprec # 0
  /\ Cardinality(bindings) > 1 \/ may_prune(Cardinality(Free(TopNet)))

\* Take the next method.
TryMethod(name) ==
  /\ Working /\ Top.loop.task # NoTask
  /\ Top.loop.pick = {} /\ Top.loop.deferred = {}
  /\ name \in Top.loop.methods
  /\ Continue([Top EXCEPT
       !.loop = Loop(@.task, @.methods \ {name}, Bindings(name), {}, 0, Guided(Bindings(name)))])

\* Take the next binding of the pass: ground it, or put it off or drop it.
TryBinding(m) ==
  LET next == [Top EXCEPT !.loop.pick = @ \ {m}]
      put_off == Top.loop.pass = 0 /\ Top.loop.guided /\ ~ LookaheadHolds(m, TopState)
      drop == may_prune(Cardinality(Free(TopNet)))
  IN  /\ Working /\ m \in Top.loop.pick
      /\ \/ ~ put_off /\ Recurse(next, MethodChild(Top.node, Top.loop.task, m))
         \/ put_off /\ ~ drop /\ Continue([next EXCEPT !.loop.deferred = @ \cup {m}])
         \/ put_off /\ drop /\ Continue(next)

\* Mutant of SecondPass: it is taken for another first pass.
SecondPassAgain ==
  /\ Working /\ Top.loop.pick = {} /\ Top.loop.deferred # {}
  /\ Continue([Top EXCEPT !.loop = Loop(@.task, @.methods, @.deferred, {}, 0, @.guided)])

\* The second pass, over the deferred bindings.
SecondPass ==
  /\ Working /\ Top.loop.pick = {} /\ Top.loop.deferred # {}
  /\ Continue([Top EXCEPT !.loop = Loop(@.task, @.methods, @.deferred, {}, 1, @.guided)])

\* Every method of the task has been tried.
TaskTried ==
  /\ Working /\ Top.loop.task # NoTask
  /\ Top.loop.pick = {} /\ Top.loop.deferred = {} /\ Top.loop.methods = {}
  /\ Continue([Top EXCEPT !.loop = NoLoop])

\* Every candidate has been tried and none was cut short.
Exhausted ==
  /\ Working /\ Top.loop.task = NoTask /\ Top.todo = {}
  /\ Leave("Refuted")
  /\ UNCHANGED scored

\* A caller whose call was Solved or cut off returns the same at once.
Unwind ==
  /\ stack # <<>> /\ ret # "none"
  /\ Leave(ret)
  /\ UNCHANGED scored

RNext ==
  /\ stack # <<>>
  /\ \/ Complete \/ CutOff \/ Enter \/ SecondPass \/ TaskTried \/ Exhausted \/ Unwind
     \/ \E i \in Top.todo : TryAction(i) \/ TryTask(i)
     \/ \E name \in Top.loop.methods : TryMethod(name)
     \/ \E m \in Top.loop.pick : TryBinding(m)

RSpec == RInit /\ [][RNext]_rvars

\* The rollout is one thread that runs until its first call returns.
RFairSpec == RSpec /\ WF_rvars(RNext)

---------------------------------------------------------------------------
Done == stack = <<>>

\* Execute a plan from a fact set; the result, or "stuck" if some action's
\* precondition fails on the way.
Replay(s, steps) ==
  LET after[k \in 0 .. Len(steps)] ==
        IF k = 0 THEN [ok |-> TRUE, state |-> s]
        ELSE LET a == steps[k][1] IN
             [ ok    |-> after[k - 1].ok /\ Holds(ActionDefs[a].pre, after[k - 1].state),
               state |-> NewState(after[k - 1].state, a) ]
  IN  after[Len(steps)]

\* The plan handed to the scorer is the real actions of the branch that was
\* solved, neither more (a step of an abandoned branch not popped) nor less: it
\* can be executed from the start and ends in the state that is scored.
ScoredPlanReplays ==
  \A p \in scored : LET r == Replay(options.start.state, p.plan) IN r.ok /\ r.state = p.state

\* The plan vector is appended to in place and popped on every path out, so a
\* rollout leaves its caller's plan as it found it.
PlanRestored == Done => dive = <<>>

\* The nodes that one step leads to from nodes X, and k steps from node c, when every
\* unconstrained task and every binding is tried: the reference for a refutation.
Onward(X) == {Node(d) : d \in UNION {UNION {Children(x, i, FALSE) : i \in Free(x.net)} : x \in X}}

Reached(c) ==
  LET nodes[k \in 0 .. Longest] == IF k = 0 THEN {Node(c)} ELSE Onward(nodes[k - 1])
  IN  nodes

\* Refuted is a proof: no plan completes the start, whatever is tried.
RefutedIsProof ==
  Done /\ ret = "Refuted" =>
    LET nodes == Reached(options.start) IN \A k \in 0 .. Longest : \A x \in nodes[k] : Ids(x.net) # {}

\* Every rollout returns, in a domain whose decompositions cycle too.
Terminates == <>Done
=============================================================================
