---------------------------- MODULE TaskNetwork ----------------------------
(***************************************************************************)
(* The partially ordered task network of the planner (TaskGraph in         *)
(* lib/typedefs.h) as a value with operations: removing a task, and        *)
(* grounding a method, which replaces a task by the method's subtasks.     *)
(*                                                                         *)
(* A network is a record                                                   *)
(*   gts     task id -> [head, incoming, outgoing]                         *)
(*   nextID  the next id add_node hands out; ids are never reused          *)
(*   checks  the method preconditions recorded on this branch, in the      *)
(*           order their methods were decomposed (empty in compiled mode)  *)
(*   tags    task id -> the checks the task arises from, and the check a   *)
(*           synthesised precondition task establishes (0 for none)        *)
(*   step    the number of real actions applied on this branch             *)
(*                                                                         *)
(* A task's arguments are folded into its head: every head is ground.      *)
(***************************************************************************)
EXTENDS Naturals, Sequences

Modes == {"compiled", "at_start", "protected"}

\* A check as it is recorded when its method is decomposed. established_at
\* is only read once established is TRUE, so the code's -1 is 0 here.
NewCheck(action) ==
  [action |-> action, established |-> FALSE, consumed |-> FALSE, established_at |-> 0]

\* The network cppMCTShop starts from: one task, no checks.
InitialNetwork(head) ==
  [ gts    |-> [i \in {0} |-> [head |-> head, incoming |-> {}, outgoing |-> {}]],
    nextID |-> 1,
    checks |-> <<>>,
    tags   |-> [i \in {} |-> {}],
    step   |-> 0 ]

Ids(n) == DOMAIN n.gts

checks_of(n, i) == IF i \in DOMAIN n.tags THEN n.tags[i].checks ELSE {}

establishes_of(n, i) == IF i \in DOMAIN n.tags THEN n.tags[i].establishes ELSE 0

\* The unconstrained tasks.
Free(n) == {i \in Ids(n) : n.gts[i].incoming = {}}

\* A network with other tasks and tags, and the same otherwise.
WithTasks(n, gts, tags) ==
  [gts |-> gts, nextID |-> n.nextID, checks |-> n.checks, tags |-> tags, step |-> n.step]

\* Task j once task i, one of its neighbours or not, is gone.
Forget(n, i, j) ==
  [ head     |-> n.gts[j].head,
    incoming |-> IF j \in n.gts[i].outgoing THEN n.gts[j].incoming \ {i} ELSE n.gts[j].incoming,
    outgoing |-> IF j \in n.gts[i].incoming THEN n.gts[j].outgoing \ {i} ELSE n.gts[j].outgoing ]

\* Mutant of RemoveNode: its tags stay.
RemoveNodeKeepTags(n, i) ==
  WithTasks(n, [j \in Ids(n) \ {i} |-> Forget(n, i, j)], n.tags)

\* remove_node: the task and its tags go, and its neighbours forget it.
RemoveNode(n, i) ==
  WithTasks(n, [j \in Ids(n) \ {i} |-> Forget(n, i, j)],
               [j \in DOMAIN n.tags \ {i} |-> n.tags[j]])

---------------------------------------------------------------------------
(***************************************************************************)
(* Grounding. A method is a record                                         *)
(*   subtasks   the heads of its subtasks, in the order its subtask map is *)
(*              iterated (an implementation detail: any order may occur)   *)
(*   orderings  the pairs <<p, q>> of positions with p before q            *)
(*   mprec      the position of the synthesised precondition task, or 0    *)
(***************************************************************************)

Positions(m) == 1 .. Len(m.subtasks)

\* The subtasks with no successor inside the method: they take over the
\* outgoing edges of the decomposed task.
Tails(m) == {p \in Positions(m) : \A q \in Positions(m) : <<p, q>> \notin m.orderings}

\* The id subtask p gets when m is grounded in n, and the ids a grounding of m
\* in n hands out.
SubtaskID(n, p) == n.nextID + p - 1

AddedTIDs(m, n) == {SubtaskID(n, p) : p \in Positions(m)}

\* The ids of the subtasks ordered before and after subtask p by the method.
Predecessors(m, n, p) == {SubtaskID(n, q) : q \in {r \in Positions(m) : <<r, p>> \in m.orderings}}

Successors(m, n, p) == {SubtaskID(n, q) : q \in {r \in Positions(m) : <<p, r>> \in m.orderings}}

\* Mutants of NewTask: it also waits for the tasks it comes before; it waits for
\* no other subtask.
NewTaskBothWays(m, n, out, p) ==
  [ head     |-> m.subtasks[p],
    incoming |-> out \cup Predecessors(m, n, p),
    outgoing |-> out \cup Successors(m, n, p) ]

NewTaskUnordered(m, n, out, p) ==
  [head |-> m.subtasks[p], incoming |-> {}, outgoing |-> IF p \in Tails(m) THEN out ELSE {}]

\* The new task for subtask p. out is what the decomposed task came before.
NewTask(m, n, out, p) ==
  [ head     |-> m.subtasks[p],
    incoming |-> Predecessors(m, n, p),
    outgoing |-> Successors(m, n, p) \cup (IF p \in Tails(m) THEN out ELSE {}) ]

\* Mutant of OldTask: the tasks behind the decomposed one are not told.
OldTaskUntold(m, n, out, j) == n.gts[j]

\* A task that was in the network before: one the decomposed task came before
\* now waits for the last subtasks.
OldTask(m, n, out, j) ==
  IF j \in out THEN [n.gts[j] EXCEPT !.incoming = @ \cup {SubtaskID(n, p) : p \in Tails(m)}]
               ELSE n.gts[j]

\* Grounding m records a check in every mode but compiled.
Records(m, mode) == mode # "compiled" /\ m.mprec # 0

\* apply_binding, on a network the decomposed task has already left. out and
\* inherited are the outgoing edges and the checks that task had.
ApplyBinding(m, n, out, inherited, mode) ==
  LET new     == AddedTIDs(m, n)
      pos(j)  == j - n.nextID + 1
      own     == IF Records(m, mode) THEN Len(n.checks) + 1 ELSE 0
      carried == inherited \cup ({own} \ {0})
      tagged  == IF mode # "compiled" /\ carried # {} THEN new ELSE {}
      tag(p)  == [checks |-> carried, establishes |-> IF p = m.mprec THEN own ELSE 0]
  IN  [ gts    |-> [j \in Ids(n) \cup new |->
                      IF j \in new THEN NewTask(m, n, out, pos(j)) ELSE OldTask(m, n, out, j)],
        nextID |-> n.nextID + Len(m.subtasks),
        checks |-> IF Records(m, mode) THEN Append(n.checks, NewCheck(m.subtasks[m.mprec]))
                                       ELSE n.checks,
        tags   |-> [j \in DOMAIN n.tags \cup tagged |->
                      IF j \in tagged THEN tag(pos(j)) ELSE n.tags[j]],
        step   |-> n.step ]

\* MethodDef::ground: decompose task i of n by method m.
Ground(m, n, i, mode) ==
  ApplyBinding(m, RemoveNode(n, i), n.gts[i].outgoing, checks_of(n, i), mode)

---------------------------------------------------------------------------
(***************************************************************************)
(* mprec::record: what applying and removing a task does to the checks.    *)
(* own and establishes are the tags the task carried.                      *)
(***************************************************************************)
\* Check k of n after a task that consumes the checks `used` and establishes the
\* check `passed`.
Marked(n, k, used, passed) ==
  [ action         |-> n.checks[k].action,
    established    |-> n.checks[k].established \/ k = passed,
    consumed       |-> n.checks[k].consumed \/ k \in used,
    established_at |-> IF k = passed THEN n.step ELSE n.checks[k].established_at ]

\* Mutant of Record: a check task consumes the checks it carries too.
RecordAnyTask(n, real, own, establishes) ==
  [ gts |-> n.gts, nextID |-> n.nextID, tags |-> n.tags,
    checks |-> [k \in DOMAIN n.checks |-> Marked(n, k, own, establishes)],
    step   |-> IF real THEN n.step + 1 ELSE n.step ]

Record(n, real, own, establishes) ==
  LET used   == IF real THEN own ELSE {}
      passed == IF real THEN 0 ELSE establishes
  IN  [ gts |-> n.gts, nextID |-> n.nextID, tags |-> n.tags,
        checks |-> [k \in DOMAIN n.checks |-> Marked(n, k, used, passed)],
        step   |-> IF real THEN n.step + 1 ELSE n.step ]

---------------------------------------------------------------------------
(***************************************************************************)
(* What a network should be at every point of a search.                    *)
(***************************************************************************)

\* Ids are below nextID; edges, tags and checks refer to what is there; a check
\* was established at a step that has been taken.
IsNetwork(n, heads) ==
  /\ n \in [ gts    : [Ids(n) -> [ head : heads, incoming : SUBSET Ids(n), outgoing : SUBSET Ids(n) ]],
             nextID : Nat,
             checks : Seq([ action : heads, established : BOOLEAN, consumed : BOOLEAN,
                            established_at : 0 .. n.step ]),
             tags   : [DOMAIN n.tags -> [ checks : SUBSET DOMAIN n.checks,
                                          establishes : {0} \cup DOMAIN n.checks ]],
             step   : Nat ]
  /\ Ids(n) \subseteq 0 .. n.nextID - 1
  /\ DOMAIN n.tags \subseteq Ids(n)

\* Every edge is known at both of its ends.
Mirrored(n) ==
  \A i, j \in Ids(n) : j \in n.gts[i].outgoing <=> i \in n.gts[j].incoming

\* No set of tasks waits on itself: in every non-empty one, some task has no
\* predecessor in the set.
Acyclic(n) ==
  \A S \in SUBSET Ids(n) : S # {} => \E i \in S : n.gts[i].incoming \cap S = {}
=============================================================================
