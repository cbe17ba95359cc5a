--------------------------- MODULE TimelineProofs ---------------------------
(***************************************************************************)
(* Proofs about a branch of the search: that its task network stays one;   *)
(* and, of the readings of a method precondition, that a stricter one only *)
(* narrows the search, each branch it admits being a branch of the weaker  *)
(* one, and that each keeps its promise, because the planner's checks and  *)
(* tags tell the history they stand for.                                   *)
(***************************************************************************)
EXTENDS Timeline, NetworkProofs

---------------------------------------------------------------------------
(***************************************************************************)
(* Branches of the search: the task network stays one.                     *)
(***************************************************************************)

PlanOK == plan \in Seq(Actions \X (0 .. net.nextID - 1))

\* The inductive invariant.
IInv == Sound(net) /\ PlanOK

\* What follows from a sound network about its parts.
LEMMA SoundParts ==
  ASSUME Sound(net)
  PROVE  /\ net.nextID \in Nat
         /\ Ids(net) \subseteq 0 .. net.nextID - 1
         /\ \A i \in Free(net) : i \in Ids(net) /\ net.gts[i].head \in Heads
  BY DEF Sound, IsNetwork, Free

\* A plan of ids below one bound is a plan of ids below a higher one.
LEMMA PlanGrows ==
  ASSUME NEW a \in Nat, NEW b \in Nat, a <= b, NEW p \in Seq(Actions \X (0 .. a - 1))
  PROVE  p \in Seq(Actions \X (0 .. b - 1))
<1>1. Actions \X (0 .. a - 1) \subseteq Actions \X (0 .. b - 1)
  OBVIOUS
<1> DEFINE A == Actions \X (0 .. a - 1)
           B == Actions \X (0 .. b - 1)
<1> HIDE DEF A, B
<1>2. A \subseteq B => (p \in Seq(A) => p \in Seq(B))
  <2> SUFFICES ASSUME A \subseteq B, p \in Seq(A) PROVE p \in Seq(B)
    OBVIOUS
  <2>1. /\ p \in [1 .. Len(p) -> A] /\ Len(p) \in Nat
    BY LenProperties
  <2>2. p \in [1 .. Len(p) -> B]
    BY <2>1
  <2> QED
    BY <2>1, <2>2, FunctionIsSeq
<1> QED
  BY <1>1, <1>2 DEF A, B

\* Every step of every branch keeps the network sound, whatever the domain.
THEOREM NetworkInvariant == Spec => []IInv
<1>1. Init => IInv
  <2> SUFFICES ASSUME Init PROVE IInv
    OBVIOUS
  <2>1. Root \in Heads
    BY DomainAssumption DEF Heads
  <2>2. Sound(net)
    BY <2>1, InitialSound DEF Init
  <2>3. plan = <<>>
    BY DEF Init
  <2>4. PlanOK
    BY <2>3 DEF PlanOK
  <2> QED
    BY <2>2, <2>4 DEF IInv
<1>2. IInv /\ [Next]_vars => IInv'
  <2> SUFFICES ASSUME IInv, [Next]_vars PROVE IInv'
    OBVIOUS
  <2>1. Sound(net) /\ PlanOK
    BY DEF IInv
  <2>2. \A i \in Free(net) : /\ i \in Ids(net) /\ net.gts[i].head \in Heads
                             /\ i \in 0 .. net.nextID - 1
    BY <2>1, SoundParts
  <2>3. ASSUME NEW i \in Free(net), RunCheck(i)
        PROVE  IInv'
    <3>1. net' = AfterAction(net, i) /\ plan' = plan
      BY <2>3 DEF RunCheck
    <3>2. IsReal(net, i) \in BOOLEAN
      BY DEF IsReal
    <3>3. Sound(net') /\ net'.nextID = net.nextID
      BY <2>1, <3>1, <3>2, AfterActionSound
    <3>4. PlanOK'
      BY <2>1, <3>1, <3>3 DEF PlanOK
    <3> QED
      BY <3>3, <3>4 DEF IInv
  <2>4. ASSUME NEW i \in Free(net), RunAction(i)
        PROVE  IInv'
    <3>1. /\ net' = AfterAction(net, i)
          /\ plan' = Append(plan, <<net.gts[i].head, i>>)
          /\ net.gts[i].head \in Actions
      BY <2>4 DEF RunAction, IsAction
    <3>2. IsReal(net, i) \in BOOLEAN
      BY DEF IsReal
    <3>3. Sound(net') /\ net'.nextID = net.nextID
      BY <2>1, <3>1, <3>2, AfterActionSound
    <3>4. <<net.gts[i].head, i>> \in Actions \X (0 .. net.nextID - 1)
      BY <2>2, <3>1
    <3>5. PlanOK'
      <4> DEFINE P == Actions \X (0 .. net.nextID - 1)
                 step == <<net.gts[i].head, i>>
      <4>1. plan \in Seq(P) /\ step \in P
        BY <2>1, <3>4 DEF PlanOK
      <4>2. PlanOK' <=> plan' \in Seq(P)
        BY <3>3 DEF PlanOK
      <4>3. plan' = Append(plan, step)
        BY <3>1
      <4> HIDE DEF P, step
      <4> QED
        BY <4>1, <4>2, <4>3, AppendProperties
    <3> QED
      BY <3>3, <3>5 DEF IInv
  <2>5. ASSUME NEW i \in Free(net), IsCompound(net, i),
               NEW m \in MethodDefs[net.gts[i].head], Decompose(i, m)
        PROVE  IInv'
    <3>1. net' = Ground(m, net, i, Mode) /\ plan' = plan
      BY <2>5 DEF Decompose
    <3>2. WellFormedMethod(m)
      BY <2>5, DomainAssumption DEF IsCompound
    <3>3. Sound(net') /\ net'.nextID \in Nat /\ net.nextID <= net'.nextID
      BY <2>1, <3>1, <3>2, GroundSound
    <3>4. net.nextID \in Nat
      BY <2>1, SoundParts
    <3>5. PlanOK'
      BY <2>1, <3>1, <3>3, <3>4, PlanGrows DEF PlanOK
    <3> QED
      BY <3>3, <3>5 DEF IInv
  <2>6. CASE UNCHANGED vars
    BY <2>1, <2>6 DEF vars, IInv, PlanOK
  <2> QED
    BY <2>3, <2>4, <2>5, <2>6 DEF Next
<1> QED
  BY <1>1, <1>2, PTL DEF Spec

\* Type correctness: tasks, edges, tags and checks refer only to what is there,
\* and the plan's task ids are ids the network has handed out.
THEOREM TypeCorrect == Spec => []TypeOK
<1>1. IInv => TypeOK
  BY DEF IInv, TypeOK, Sound, PlanOK, Heads
<1> QED
  BY <1>1, NetworkInvariant, PTL

\* Every edge is at both ends, whatever methods decompose whatever tasks.
THEOREM AlwaysMirrored == Spec => []EdgesMirrored
<1>1. IInv => EdgesMirrored
  BY DEF IInv, EdgesMirrored, Sound
<1> QED
  BY <1>1, NetworkInvariant, PTL

\* No branch ever reaches a network whose tasks wait on one another in a cycle.
THEOREM AlwaysAcyclic == Spec => []OrderingsAcyclic
<1>1. IInv => OrderingsAcyclic
  BY DEF IInv, OrderingsAcyclic, Sound
<1> QED
  BY <1>1, NetworkInvariant, PTL

\* So a branch is stuck only on conditions, never on orderings: while tasks
\* remain, some task is unconstrained. simulation and expansion both return
\* "refuted" when they find none.
THEOREM NeverBlockedByOrderings == Spec => [](Ids(net) # {} => Free(net) # {})
<1>1. IInv => (Ids(net) # {} => Free(net) # {})
  <2> SUFFICES ASSUME IInv, Ids(net) # {} PROVE Free(net) # {}
    OBVIOUS
  <2>1. Acyclic(net) /\ \A i \in Ids(net) : net.gts[i].incoming \subseteq Ids(net)
    BY DEF IInv, Sound, IsNetwork
  <2>2. PICK i \in Ids(net) : net.gts[i].incoming \cap Ids(net) = {}
    BY <2>1 DEF Acyclic
  <2> QED
    BY <2>1, <2>2 DEF Free
<1> QED
  BY <1>1, NetworkInvariant, PTL

---------------------------------------------------------------------------
(***************************************************************************)
(* Modes: at_start is implemented by protected.                            *)
(***************************************************************************)

\* Looking at a network does not depend on the mode.
LEMMA SameReaders ==
  /\ AtStart!Actions = Actions /\ AtStart!Compound = Compound
  /\ \A n : AtStart!Ids(n) = Ids(n) /\ AtStart!Free(n) = Free(n)
  /\ \A n, i : /\ AtStart!IsAction(n, i) = IsAction(n, i)
               /\ AtStart!IsCompound(n, i) = IsCompound(n, i)
               /\ AtStart!IsReal(n, i) = IsReal(n, i)
               /\ AtStart!checks_of(n, i) = checks_of(n, i)
               /\ AtStart!establishes_of(n, i) = establishes_of(n, i)
  /\ \A c, s : AtStart!Holds(c, s) = Holds(c, s)
  /\ \A chk, s : AtStart!CheckHolds(chk, s) = CheckHolds(chk, s)
  BY DEF AtStart!Actions, Actions, AtStart!Compound, Compound, AtStart!Ids, Ids,
         AtStart!Free, Free, AtStart!IsAction, IsAction, AtStart!IsCompound, IsCompound,
         AtStart!IsReal, IsReal, AtStart!checks_of, checks_of,
         AtStart!establishes_of, establishes_of, AtStart!Holds, Holds,
         AtStart!CheckHolds, CheckHolds

\* Nor does removing a task, recording what it did or applying its effects.
LEMMA SameRemoveNode == \A n, i : AtStart!RemoveNode(n, i) = RemoveNode(n, i)
  BY DEF AtStart!RemoveNode, RemoveNode, AtStart!WithTasks, WithTasks, AtStart!Forget, Forget,
         AtStart!Ids, Ids

LEMMA SameRecord ==
  \A n, real, own, establishes :
    AtStart!Record(n, real, own, establishes) = Record(n, real, own, establishes)
  BY DEF AtStart!Record, Record, AtStart!Marked, Marked

LEMMA SameNewState == \A s, a : AtStart!NewState(s, a) = NewState(s, a)
  BY DEF AtStart!NewState, NewState, AtStart!Holds, Holds

LEMMA SameFirstActionOk ==
  \A n, i, s : AtStart!first_action_ok(n, i, s) = first_action_ok(n, i, s)
  BY DEF AtStart!first_action_ok, first_action_ok, AtStart!checks_of, checks_of,
         AtStart!CheckHolds, CheckHolds, AtStart!Holds, Holds

LEMMA SameGround ==
  \A m, n, i, mode : AtStart!Ground(m, n, i, mode) = Ground(m, n, i, mode)
  BY DEF AtStart!Ground, Ground, AtStart!ApplyBinding, ApplyBinding, AtStart!RemoveNode, RemoveNode,
         AtStart!WithTasks, WithTasks, AtStart!Forget, Forget, AtStart!Ids, Ids,
         AtStart!AddedTIDs, AddedTIDs, AtStart!SubtaskID, SubtaskID, AtStart!Positions, Positions,
         AtStart!Records, Records, AtStart!NewTask, NewTask, AtStart!OldTask, OldTask,
         AtStart!Predecessors, Predecessors, AtStart!Successors, Successors,
         AtStart!Tails, Tails, AtStart!NewCheck, NewCheck, AtStart!checks_of, checks_of

\* What the modes do share: the network left by an action and by a method.
LEMMA SameAfterAction ==
  ASSUME Mode = "protected" PROVE \A n, i : AtStart!AfterAction(n, i) = AfterAction(n, i)
  <1> TAKE n, i
  <1>1. AtStart!AfterAction(n, i)
          = Record(RemoveNode(n, i), IsReal(n, i), checks_of(n, i), establishes_of(n, i))
    BY SameRemoveNode, SameRecord, SameReaders DEF AtStart!AfterAction
  <1>2. AfterAction(n, i)
          = Record(RemoveNode(n, i), IsReal(n, i), checks_of(n, i), establishes_of(n, i))
    BY DEF AfterAction
  <1> QED BY <1>1, <1>2

LEMMA SameChecksRecorded ==
  ASSUME Mode = "protected" PROVE \A m, n, i : Ground(m, n, i, "at_start") = Ground(m, n, i, Mode)
  BY DEF Ground, ApplyBinding, Records

\* An action that may be applied when links are protected may be applied at_start.
LEMMA WeakerApplies ==
  ASSUME Mode = "protected", NEW s, NEW n, NEW i, ActionApplies(s, n, i)
  PROVE  AtStart!ActionApplies(s, n, i)
  <1>1. Holds(ActionDefs[n.gts[i].head].pre, s) /\ (IsReal(n, i) => first_action_ok(n, i, s))
    BY DEF ActionApplies
  <1>2. /\ AtStart!Holds(ActionDefs[n.gts[i].head].pre, s)
        /\ AtStart!IsReal(n, i) => AtStart!first_action_ok(n, i, s)
    BY <1>1, SameReaders, SameFirstActionOk
  <1> QED BY <1>2 DEF AtStart!ActionApplies

\* In protected mode every branch of the search is one at_start allows too.
THEOREM ProtectedImplementsAtStart ==
  ASSUME Mode = "protected" PROVE TSpec => ImplementsAtStart
  <1>1. TInit => AtStart!Init
    BY DEF TInit, Init, AtStart!Init, InitialNetwork, AtStart!InitialNetwork
  <1>2. [TNext]_tvars => [AtStart!Next]_(AtStart!vars)
    <2> SUFFICES ASSUME [TNext]_tvars PROVE [AtStart!Next]_(AtStart!vars)
      OBVIOUS
    <2>1. CASE UNCHANGED tvars
      BY <2>1 DEF tvars, AtStart!vars
    <2>2. ASSUME NEW i \in Free(net), TRunCheck(i) PROVE AtStart!RunCheck(i)
      <3>1. /\ IsAction(net, i) /\ ~ IsReal(net, i) /\ ActionApplies(state, net, i)
            /\ net' = AfterAction(net, i) /\ UNCHANGED <<state, plan>>
        BY <2>2 DEF TRunCheck, RunCheck
      <3>2. AtStart!IsAction(net, i) /\ ~ AtStart!IsReal(net, i)
        BY <3>1, SameReaders
      <3>3. AtStart!ActionApplies(state, net, i)
        BY <3>1, WeakerApplies
      <3>4. net' = AtStart!AfterAction(net, i)
        BY <3>1, SameAfterAction
      <3> QED BY <3>1, <3>2, <3>3, <3>4 DEF AtStart!RunCheck
    <2>3. ASSUME NEW i \in Free(net), TRunAction(i) PROVE AtStart!RunAction(i)
      <3>1. /\ IsAction(net, i) /\ IsReal(net, i) /\ ActionApplies(state, net, i)
            /\ state' = NewState(state, net.gts[i].head)
            /\ net' = AfterAction(net, i)
            /\ plan' = Append(plan, <<net.gts[i].head, i>>)
        BY <2>3 DEF TRunAction, RunAction
      <3>2. AtStart!IsAction(net, i) /\ AtStart!IsReal(net, i)
        BY <3>1, SameReaders
      <3>3. AtStart!ActionApplies(state, net, i)
        BY <3>1, WeakerApplies
      <3>4. net' = AtStart!AfterAction(net, i)
        BY <3>1, SameAfterAction
      <3>5. state' = AtStart!NewState(state, net.gts[i].head)
        BY <3>1, SameNewState
      <3> QED BY <3>1, <3>2, <3>3, <3>4, <3>5 DEF AtStart!RunAction
    <2>4. ASSUME NEW i \in Free(net), NEW m, TDecompose(i, m) PROVE AtStart!Decompose(i, m)
      <3>1. net' = Ground(m, net, i, Mode) /\ UNCHANGED <<state, plan>>
        BY <2>4 DEF TDecompose, Decompose
      <3>2. net' = AtStart!Ground(m, net, i, "at_start")
        BY <3>1, SameGround, SameChecksRecorded
      <3> QED BY <3>1, <3>2 DEF AtStart!Decompose
    <2>5. CASE TNext
      <3>1. PICK i \in Free(net) :
              \/ TRunCheck(i)
              \/ TRunAction(i)
              \/ IsCompound(net, i) /\ \E m \in MethodDefs[net.gts[i].head] : TDecompose(i, m)
        BY <2>5 DEF TNext
      <3>2. i \in AtStart!Free(net) /\ AtStart!IsCompound(net, i) = IsCompound(net, i)
        BY SameReaders
      <3>3. AtStart!Next
        BY <2>2, <2>3, <2>4, <3>1, <3>2 DEF AtStart!Next
      <3> QED BY <3>3
    <2> QED BY <2>1, <2>5
  <1> QED BY <1>1, <1>2, PTL DEF TSpec, ImplementsAtStart, AtStart!Spec

---------------------------------------------------------------------------
(***************************************************************************)
(* Modes: compiled mode is implemented by every mode.                      *)
(***************************************************************************)

\* Compiled mode looks at the tasks of a network alone.
LEMMA CompiledReaders ==
  /\ Compiled!Actions = Actions /\ Compiled!Compound = Compound
  /\ \A n : Compiled!Ids(n) = Ids(n) /\ Compiled!Free(n) = Free(n)
  /\ \A n, i : /\ Compiled!IsAction(n, i) = IsAction(n, i)
               /\ Compiled!IsCompound(n, i) = IsCompound(n, i)
               /\ Compiled!IsReal(n, i) = IsReal(n, i)
  /\ \A c, s : Compiled!Holds(c, s) = Holds(c, s)
  /\ \A s, a : Compiled!NewState(s, a) = NewState(s, a)
  BY DEF Compiled!Actions, Actions, Compiled!Compound, Compound, Compiled!Ids, Ids,
         Compiled!Free, Free, Compiled!IsAction, IsAction, Compiled!IsCompound, IsCompound,
         Compiled!IsReal, IsReal, Compiled!Holds, Holds, Compiled!NewState, NewState

\* Removing a task does the same to the tasks, whatever is recorded of them.
LEMMA ErasedRemoveNode ==
  \A n, i : Compiled!RemoveNode(Erase(n), i) = Erase(RemoveNode(n, i))
  <1> TAKE n, i
  <1> PICK e : e = Erase(n)
    OBVIOUS
  <1>1. /\ e.gts = n.gts /\ e.nextID = n.nextID
        /\ e.checks = <<>> /\ e.tags = [j \in {} |-> {}] /\ e.step = 0
    BY DEF Erase
  <1>2. [j \in Ids(e) \ {i} |-> Compiled!Forget(e, i, j)] = [j \in Ids(n) \ {i} |-> Forget(n, i, j)]
    BY <1>1 DEF Ids, Compiled!Forget, Forget
  <1>3. [j \in DOMAIN e.tags \ {i} |-> e.tags[j]] = [j \in {} |-> {}]
    BY <1>1
  <1>4. Compiled!RemoveNode(e, i)
          = Compiled!WithTasks(e, [j \in Ids(e) \ {i} |-> Compiled!Forget(e, i, j)],
                                  [j \in DOMAIN e.tags \ {i} |-> e.tags[j]])
    BY CompiledReaders DEF Compiled!RemoveNode
  <1> QED
    BY <1>1, <1>2, <1>3, <1>4 DEF Compiled!WithTasks, Erase, RemoveNode, WithTasks

\* So does applying an action,
LEMMA ErasedAfterAction ==
  \A n, i : Compiled!AfterAction(Erase(n), i) = Erase(AfterAction(n, i))
  <1> TAKE n, i
  <1>1. Compiled!AfterAction(Erase(n), i) = Erase(RemoveNode(n, i))
    BY ErasedRemoveNode DEF Compiled!AfterAction
  <1>2. \A r, real, own, establishes : Erase(Record(r, real, own, establishes)) = Erase(r)
    BY DEF Record, Erase
  <1> QED
    BY <1>1, <1>2 DEF AfterAction

\* and grounding a method.
LEMMA ErasedGround ==
  \A n, i, m : Compiled!Ground(m, Erase(n), i, "compiled") = Erase(Ground(m, n, i, Mode))
  <1> TAKE n, i, m
  <1> PICK r : r = RemoveNode(n, i)
    OBVIOUS
  <1> PICK e : e = Erase(r)
    OBVIOUS
  <1> PICK out : out = n.gts[i].outgoing
    OBVIOUS
  <1> DEFINE gts == [j \in Ids(r) \cup AddedTIDs(m, r) |->
                       IF j \in AddedTIDs(m, r) THEN NewTask(m, r, out, j - r.nextID + 1)
                                                ELSE OldTask(m, r, out, j)]
  <1>1. /\ e.gts = r.gts /\ e.nextID = r.nextID
        /\ e.checks = <<>> /\ e.tags = [j \in {} |-> {}] /\ e.step = 0
    BY DEF Erase
  <1>2. PICK own : Compiled!Ground(m, Erase(n), i, "compiled")
                     = Compiled!ApplyBinding(m, e, out, own, "compiled")
    BY ErasedRemoveNode DEF Compiled!Ground, Erase
  <1>3. Erase(Ground(m, n, i, Mode))
          = [ gts |-> gts, nextID |-> r.nextID + Len(m.subtasks), checks |-> <<>>,
              tags |-> [j \in {} |-> {}], step |-> 0 ]
    BY DEF Ground, ApplyBinding, Erase
  <1>4. /\ Compiled!AddedTIDs(m, e) = AddedTIDs(m, r) /\ Compiled!Ids(e) = Ids(r)
        /\ \A p : Compiled!NewTask(m, e, out, p) = NewTask(m, r, out, p)
        /\ \A j : Compiled!OldTask(m, e, out, j) = OldTask(m, r, out, j)
    BY <1>1 DEF Compiled!AddedTIDs, AddedTIDs, Compiled!SubtaskID, SubtaskID, Compiled!Positions, Positions,
         Compiled!NewTask, NewTask, Compiled!OldTask, OldTask, Compiled!Ids, Ids,
         Compiled!Predecessors, Predecessors, Compiled!Successors, Successors, Compiled!Tails, Tails
  <1>5. PICK tag : Compiled!ApplyBinding(m, e, out, own, "compiled")
          = [ gts    |-> [j \in Compiled!Ids(e) \cup Compiled!AddedTIDs(m, e) |->
                            IF j \in Compiled!AddedTIDs(m, e) THEN Compiled!NewTask(m, e, out, j - e.nextID + 1)
                                                              ELSE Compiled!OldTask(m, e, out, j)],
              nextID |-> e.nextID + Len(m.subtasks),
              checks |-> e.checks,
              tags   |-> [j \in DOMAIN e.tags \cup {} |-> tag[j]],
              step   |-> e.step ]
    <2>1. ~ Compiled!Records(m, "compiled")
      BY DEF Compiled!Records
    <2> QED
      BY <2>1, <1>1 DEF Compiled!ApplyBinding
  <1>6. [j \in DOMAIN e.tags \cup {} |-> tag[j]] = [j \in {} |-> {}]
    BY <1>1
  <1>7. [j \in Compiled!Ids(e) \cup Compiled!AddedTIDs(m, e) |->
           IF j \in Compiled!AddedTIDs(m, e) THEN Compiled!NewTask(m, e, out, j - e.nextID + 1)
                                             ELSE Compiled!OldTask(m, e, out, j)] = gts
    BY <1>1, <1>4
  <1> QED
    BY <1>1, <1>2, <1>3, <1>5, <1>6, <1>7

\* In every mode, each branch of the search is one that compiled mode allows: the
\* bookkeeping only narrows the search.
THEOREM AnyModeImplementsCompiled == TSpec => ImplementsCompiled
  <1>1. TInit => Compiled!Init
    <2> SUFFICES ASSUME TInit PROVE Compiled!Init
      OBVIOUS
    <2>1. Erase(net) = Compiled!InitialNetwork(Root)
      BY DEF TInit, Init, InitialNetwork, Compiled!InitialNetwork, Erase
    <2> QED
      BY <2>1 DEF TInit, Init, Compiled!Init
  <1>2. [TNext]_tvars => [Compiled!Next]_(Compiled!vars)
    <2> SUFFICES ASSUME [TNext]_tvars PROVE [Compiled!Next]_(Compiled!vars)
      OBVIOUS
    <2> PICK e : e = Erase(net)
      OBVIOUS
    <2>1. Compiled!Free(e) = Free(net) /\ e.gts = net.gts
      BY CompiledReaders DEF Erase, Free, Ids
    <2>2. \A i : /\ Compiled!IsAction(e, i) = IsAction(net, i)
                 /\ Compiled!IsCompound(e, i) = IsCompound(net, i)
                 /\ Compiled!IsReal(e, i) = IsReal(net, i)
      BY <2>1, CompiledReaders DEF IsAction, IsCompound, IsReal
    <2>3. \A i : ActionApplies(state, net, i) => Compiled!ActionApplies(state, e, i)
      BY <2>1, CompiledReaders DEF ActionApplies, Compiled!ActionApplies
    <2>4. \A i : Compiled!AfterAction(e, i) = Erase(AfterAction(net, i))
      BY ErasedAfterAction
    <2>5. CASE UNCHANGED tvars
      BY <2>5 DEF tvars, Compiled!vars
    <2>6. ASSUME NEW i, TRunCheck(i) PROVE Compiled!RunCheck(i)
      <3>1. /\ IsAction(net, i) /\ ~ IsReal(net, i) /\ ActionApplies(state, net, i)
            /\ net' = AfterAction(net, i) /\ UNCHANGED <<state, plan>>
        BY <2>6 DEF TRunCheck, RunCheck
      <3>2. Erase(net') = Compiled!AfterAction(Erase(net), i)
        BY <3>1, <2>4
      <3> QED
        BY <3>1, <3>2, <2>2, <2>3 DEF Compiled!RunCheck
    <2>7. ASSUME NEW i, TRunAction(i) PROVE Compiled!RunAction(i)
      <3>1. /\ IsAction(net, i) /\ IsReal(net, i) /\ ActionApplies(state, net, i)
            /\ state' = NewState(state, net.gts[i].head)
            /\ net' = AfterAction(net, i)
            /\ plan' = Append(plan, <<net.gts[i].head, i>>)
        BY <2>7 DEF TRunAction, RunAction
      <3>2. Erase(net') = Compiled!AfterAction(Erase(net), i)
        BY <3>1, <2>4
      <3>3. Compiled!NewState(state, Erase(net).gts[i].head) = NewState(state, net.gts[i].head)
        BY <2>1, CompiledReaders
      <3> QED
        BY <3>1, <3>2, <3>3, <2>1, <2>2, <2>3 DEF Compiled!RunAction
    <2>8. ASSUME NEW i, NEW m, TDecompose(i, m) PROVE Compiled!Decompose(i, m)
      <3>1. net' = Ground(m, net, i, Mode) /\ UNCHANGED <<state, plan>>
        BY <2>8 DEF TDecompose, Decompose
      <3>2. Erase(net') = Compiled!Ground(m, Erase(net), i, "compiled")
        BY <3>1, ErasedGround
      <3> QED
        BY <3>1, <3>2 DEF Compiled!Decompose
    <2>9. CASE TNext
      <3>1. PICK i \in Free(net) :
              \/ TRunCheck(i)
              \/ TRunAction(i)
              \/ IsCompound(net, i) /\ \E m \in MethodDefs[net.gts[i].head] : TDecompose(i, m)
        BY <2>9 DEF TNext
      <3>2. i \in Compiled!Free(Erase(net)) /\ Compiled!IsCompound(Erase(net), i) = IsCompound(net, i)
            /\ Erase(net).gts = net.gts
        BY <2>1, <2>2
      <3> QED
        BY <2>6, <2>7, <2>8, <3>1, <3>2 DEF Compiled!Next
    <2> QED
      BY <2>5, <2>9
  <1> QED
    BY <1>1, <1>2, PTL DEF TSpec, ImplementsCompiled, Compiled!Spec
---------------------------------------------------------------------------
(***************************************************************************)
(* What a step leaves of the tasks, tags and checks of a network.          *)
(***************************************************************************)

\* And, where checks are kept, a real action consumes the checks it carries and
\* counts as a step; a check task establishes its check now.
LEMMA AfterChecks ==
  ASSUME Mode # "compiled",
         NEW n, Sound(n), NEW i \in Free(n), IsReal(n, i) \in BOOLEAN, NEW r, r = AfterAction(n, i)
  PROVE  /\ r.step = IF IsReal(n, i) THEN n.step + 1 ELSE n.step
         /\ DOMAIN r.checks = DOMAIN n.checks
         /\ \A k \in DOMAIN n.checks :
              /\ r.checks[k].action = n.checks[k].action
              /\ r.checks[k].established
                   <=> n.checks[k].established \/ (~ IsReal(n, i) /\ k = establishes_of(n, i))
              /\ r.checks[k].consumed
                   <=> n.checks[k].consumed \/ (IsReal(n, i) /\ k \in checks_of(n, i))
              /\ IsReal(n, i) => r.checks[k].established_at = n.checks[k].established_at
              /\ k # establishes_of(n, i) => r.checks[k].established_at = n.checks[k].established_at
  <1> DEFINE q == RemoveNode(n, i)
             used == IF IsReal(n, i) THEN checks_of(n, i) ELSE {}
             passed == IF IsReal(n, i) THEN 0 ELSE establishes_of(n, i)
  <1>1. q.checks = n.checks /\ q.step = n.step
    BY DEF RemoveNode, WithTasks
  <1>2. /\ r.step = IF IsReal(n, i) THEN q.step + 1 ELSE q.step
        /\ r.checks = [k \in DOMAIN q.checks |-> Marked(q, k, used, passed)]
    BY DEF AfterAction, Record
  <1>3. n.checks \in Seq([ action : Heads, established : BOOLEAN, consumed : BOOLEAN,
                            established_at : 0 .. n.step ])
    BY DEF Sound, IsNetwork
  <1>4. \A k \in DOMAIN n.checks : k # 0
    BY <1>3, LenProperties
  <1> HIDE DEF q
  <1>5. ASSUME NEW k \in DOMAIN n.checks
        PROVE  /\ r.checks[k].action = n.checks[k].action
               /\ r.checks[k].established = (n.checks[k].established \/ k = passed)
               /\ r.checks[k].consumed = (n.checks[k].consumed \/ k \in used)
               /\ k # passed => r.checks[k].established_at = n.checks[k].established_at
    BY <1>1, <1>2 DEF Marked
  <1> QED
    BY <1>1, <1>2, <1>4, <1>5

\* Where checks are kept, the subtasks carry the checks of the decomposed task and,
\* if the method has a check task, a new check that the check task establishes.
LEMMA GroundChecks ==
  ASSUME Mode # "compiled",
         NEW n, Sound(n), NEW i \in Free(n), NEW m, WellFormedMethod(m),
         NEW r, r = Ground(m, n, i, Mode)
  PROVE  /\ r.checks = IF m.mprec # 0 THEN Append(n.checks, NewCheck(m.subtasks[m.mprec])) ELSE n.checks
         /\ \A j \in Ids(n) \ {i} : /\ checks_of(r, j) = checks_of(n, j)
                                    /\ establishes_of(r, j) = establishes_of(n, j)
         /\ \A p \in Positions(m) :
              /\ checks_of(r, SubtaskID(n, p))
                   = checks_of(n, i) \cup (IF m.mprec # 0 THEN {Len(n.checks) + 1} ELSE {})
              /\ establishes_of(r, SubtaskID(n, p))
                   = IF m.mprec # 0 /\ p = m.mprec THEN Len(n.checks) + 1 ELSE 0
  <1> DEFINE b       == RemoveNode(n, i)
             new     == AddedTIDs(m, n)
             pos(j)  == j - n.nextID + 1
             own     == IF m.mprec # 0 THEN Len(n.checks) + 1 ELSE 0
             carried == checks_of(n, i) \cup ({own} \ {0})
             tagged  == IF carried # {} THEN new ELSE {}
             tag(p)  == [checks |-> carried, establishes |-> IF p = m.mprec THEN own ELSE 0]
  <1>1. IsNetwork(n, Heads)
    BY DEF Sound
  <1>2. n.nextID \in Nat /\ Ids(n) \subseteq 0 .. n.nextID - 1 /\ m.subtasks \in Seq(Heads)
        /\ DOMAIN n.tags \subseteq Ids(n) /\ Len(n.checks) \in Nat
    BY <1>1 DEF IsNetwork, WellFormedMethod, Heads
  <1>3. Len(m.subtasks) \in Nat
    BY <1>2, LenProperties
  <1>4. /\ b.tags = [j \in DOMAIN n.tags \ {i} |-> n.tags[j]]
        /\ b.nextID = n.nextID /\ b.checks = n.checks
    BY DEF RemoveNode, WithTasks
  <1>5. AddedTIDs(m, b) = new
    BY <1>4 DEF AddedTIDs, SubtaskID
  <1> HIDE DEF b
  <1>6. Records(m, Mode) <=> m.mprec # 0
    BY DEF Records
  <1>7. /\ r.checks = IF m.mprec # 0 THEN Append(n.checks, NewCheck(m.subtasks[m.mprec])) ELSE n.checks
        /\ r.tags = [j \in DOMAIN b.tags \cup tagged |-> IF j \in tagged THEN tag(pos(j)) ELSE b.tags[j]]
    BY <1>4, <1>5, <1>6 DEF Ground, ApplyBinding, b
  <1>8. \A p \in Positions(m) : /\ SubtaskID(n, p) \in new /\ pos(SubtaskID(n, p)) = p
                                /\ SubtaskID(n, p) \notin Ids(n)
    BY <1>2, <1>3 DEF AddedTIDs, SubtaskID, Positions
  <1>9. new \cap Ids(n) = {}
    BY <1>8 DEF AddedTIDs
  <1>10. ASSUME NEW j \in Ids(n) \ {i}
         PROVE  checks_of(r, j) = checks_of(n, j) /\ establishes_of(r, j) = establishes_of(n, j)
    <2>1. j \notin tagged
      BY <1>9
    <2> HIDE DEF tagged, tag
    <2>2. j \in DOMAIN r.tags <=> j \in DOMAIN n.tags
      BY <1>4, <1>7, <2>1
    <2>3. j \in DOMAIN n.tags => r.tags[j] = n.tags[j]
      BY <1>4, <1>7, <2>1
    <2> QED
      BY <2>2, <2>3 DEF checks_of, establishes_of
  <1>11. ASSUME NEW p \in Positions(m)
         PROVE  checks_of(r, SubtaskID(n, p)) = carried
                /\ establishes_of(r, SubtaskID(n, p)) = IF p = m.mprec THEN own ELSE 0
    <2>1. CASE carried # {}
      <3>1. SubtaskID(n, p) \in tagged
        BY <1>8, <2>1
      <3> HIDE DEF tagged, tag
      <3>2. SubtaskID(n, p) \in DOMAIN r.tags /\ r.tags[SubtaskID(n, p)] = tag(p)
        BY <1>7, <1>8, <3>1
      <3> QED
        BY <3>2 DEF checks_of, establishes_of, tag
    <2>2. CASE carried = {}
      <3>1. SubtaskID(n, p) \notin DOMAIN r.tags
        BY <1>2, <1>4, <1>7, <1>8, <2>2
      <3>2. own = 0
        BY <2>2
      <3> QED
        BY <2>2, <3>1, <3>2 DEF checks_of, establishes_of
    <2> QED
      BY <2>1, <2>2
  <1>12. own # 0 <=> m.mprec # 0
    BY <1>2
  <1> QED
    BY <1>7, <1>10, <1>11, <1>12

---------------------------------------------------------------------------
(***************************************************************************)
(* The inductive invariant: what the history of a branch says of the       *)
(* network it has reached. The planner never sees the history; its tags    *)
(* and checks are what it keeps of it.                                     *)
(***************************************************************************)

\* The number of instance k among those with a check.
Ord(k) == Cardinality({l \in Guarded : l <= k})

\* What the two histories say of the network as it is.
History ==
  /\ \E S : trace \in Seq(S)
  /\ \E S : instances \in Seq(S)
  /\ \A k \in DOMAIN instances :
       /\ instances[k] = [ check |-> instances[k].check, checkid |-> instances[k].checkid,
                           family |-> instances[k].family ]
       /\ instances[k].family \subseteq 0 .. net.nextID - 1
  /\ \A j \in DOMAIN trace : trace[j].id \in 0 .. net.nextID - 1 /\ trace[j].id \notin Ids(net)
  /\ \A k \in Guarded :
       /\ instances[k].checkid \in instances[k].family
       /\ instances[k].check \in Actions /\ ActionDefs[instances[k].check].artificial
       /\ instances[k].checkid \in Ids(net) => net.gts[instances[k].checkid].head = instances[k].check

\* Until the check of a method has run, all that arises from the method waits for it.
Waits(k) ==
  /\ ActedAt(k) = {}
  /\ \A j \in instances[k].family \cap Ids(net) :
       j # instances[k].checkid => instances[k].checkid \in net.gts[j].incoming

\* Once it has, it held, and before any real action of the method.
Passed(k) == \E c \in CheckedAt(k) : Holds(Condition(k), Before(c)) /\ \A j \in ActedAt(k) : c < j

Ordered ==
  \A k \in Guarded : IF instances[k].checkid \in Ids(net) THEN Waits(k) ELSE Passed(k)

\* Where checks are kept: check Ord(k) is that of instance k. It is carried by what
\* arises from the method, and established by the method's check task.
Carried ==
  /\ DOMAIN net.checks = 1 .. Cardinality(Guarded)
  /\ \A k \in Guarded :
       /\ net.checks[Ord(k)].action = instances[k].check
       /\ \A j \in Ids(net) : Ord(k) \in checks_of(net, j) <=> j \in instances[k].family
       /\ \A j \in Ids(net) : establishes_of(net, j) = Ord(k) <=> j = instances[k].checkid

Told ==
  \A k \in Guarded :
    /\ net.checks[Ord(k)].established <=> CheckedAt(k) # {}
    /\ net.checks[Ord(k)].consumed <=> ActedAt(k) # {}

\* A check that passed since the last real action still holds.
Fresh ==
  \A k \in Guarded :
    net.checks[Ord(k)].established /\ net.checks[Ord(k)].established_at = net.step => Holds(Condition(k), state)

Kept == Carried /\ Told /\ Fresh

---------------------------------------------------------------------------
\* Instances are numbered from 1 on.
LEMMA OrdRange ==
  ASSUME NEW S, instances \in Seq(S)
  PROVE  /\ IsFiniteSet(Guarded) /\ Cardinality(Guarded) \in Nat
         /\ \A k \in Guarded : Ord(k) \in 1 .. Cardinality(Guarded)
  <1>1. DOMAIN instances = 1 .. Len(instances) /\ Len(instances) \in Nat
    BY LenProperties
  <1>2. IsFiniteSet(1 .. Len(instances))
    BY <1>1, FS_Interval
  <1>3. Guarded \in SUBSET (1 .. Len(instances))
    BY <1>1 DEF Guarded
  <1>4. IsFiniteSet(Guarded)
    BY <1>2, <1>3, FS_Subset
  <1>5. Cardinality(Guarded) \in Nat
    BY <1>4, FS_CardinalityType
  <1>6. ASSUME NEW k \in Guarded
        PROVE  Ord(k) \in 1 .. Cardinality(Guarded)
    <2> DEFINE L == {l \in Guarded : l <= k}
    <2>1. k \in L
      BY <1>1, <1>3
    <2>2. L \in SUBSET Guarded
      OBVIOUS
    <2> HIDE DEF L
    <2>3. IsFiniteSet(L) /\ Cardinality(L) <= Cardinality(Guarded)
      BY <1>4, <2>2, FS_Subset
    <2>4. Cardinality(L) \in Nat
      BY <2>3, FS_CardinalityType
    <2>5. Cardinality(L) # 0
      BY <2>1, <2>3, FS_EmptySet
    <2> QED
      BY <1>5, <2>3, <2>4, <2>5 DEF Ord, L
  <1> QED
    BY <1>4, <1>5, <1>6

\* A method decomposed later leaves the numbers of the earlier ones, and is given
\* the next one.
LEMMA OrdAppended ==
  ASSUME NEW S, instances \in Seq(S), NEW n, n = Len(instances), DOMAIN instances' = 1 .. n + 1,
         \A k \in 1 .. n : instances'[k].check = instances[k].check
  PROVE  /\ \A k \in Guarded : k \in 1 .. n /\ k \in Guarded' /\ Ord(k)' = Ord(k)
         /\ \A k \in Guarded' : k \in Guarded \/ k = n + 1
         /\ n + 1 \notin Guarded
         /\ instances'[n + 1].check = NoCheck => Guarded' = Guarded
         /\ instances'[n + 1].check # NoCheck =>
              /\ n + 1 \in Guarded'
              /\ Cardinality(Guarded)' = Cardinality(Guarded) + 1
              /\ Ord(n + 1)' = Cardinality(Guarded) + 1
  <1>1. DOMAIN instances = 1 .. n /\ n \in Nat
    BY LenProperties
  <1>2. Guarded \subseteq 1 .. n
    BY <1>1 DEF Guarded
  <1>3. Guarded' = Guarded \cup {k \in {n + 1} : instances'[k].check # NoCheck}
    BY <1>1 DEF Guarded
  <1>4. ASSUME NEW k \in Guarded
        PROVE  Ord(k)' = Ord(k)
    <2>1. {l \in Guarded' : l <= k} = {l \in Guarded : l <= k}
      BY <1>1, <1>2, <1>3
    <2> QED
      BY <2>1 DEF Ord
  <1>5. ASSUME instances'[n + 1].check # NoCheck
        PROVE  /\ Cardinality(Guarded)' = Cardinality(Guarded) + 1
               /\ Ord(n + 1)' = Cardinality(Guarded) + 1
    <2>1. Guarded' = Guarded \cup {n + 1} /\ n + 1 \notin Guarded
      BY <1>1, <1>2, <1>3, <1>5
    <2>2. Cardinality(Guarded') = Cardinality(Guarded) + 1
      BY <2>1, OrdRange, FS_AddElement
    <2>3. \A l \in Guarded \cup {n + 1} : l <= n + 1
      <3>1. n \in Nat
        BY <1>1
      <3> QED
        BY <1>2, <3>1
    <2>4. {l \in Guarded' : l <= n + 1} = Guarded'
      BY <2>1, <2>3
    <2> QED
      BY <2>2, <2>4 DEF Ord
  <1> QED
    BY <1>1, <1>2, <1>3, <1>4, <1>5

\* An applied task adds itself to the history, and what was before stays.
LEMMA AppliedFacts ==
  ASSUME History, NEW i, Applied(i), NEW n, n = Len(trace)
  PROVE  /\ n \in Nat /\ DOMAIN trace = 1 .. n /\ DOMAIN trace' = 1 .. n + 1 /\ Len(trace') = n + 1
         /\ \E S : trace' \in Seq(S)
         /\ trace'[n + 1].id = i
         /\ \A j \in 1 .. n : trace'[j] = trace[j]
         /\ instances' = instances
         /\ Before(n + 1) = state /\ Before(n + 2)' = state'
         /\ \A j \in 1 .. n + 1 : Before(j)' = Before(j)
         /\ \A k : /\ CheckedAt(k) \subseteq 1 .. n /\ ActedAt(k) \subseteq 1 .. n
                   /\ CheckedAt(k)' = CheckedAt(k) \cup (IF i = instances[k].checkid THEN {n + 1} ELSE {})
                   /\ ActedAt(k)' = ActedAt(k) \cup (IF IsReal(net, i) /\ i \in instances[k].family THEN {n + 1} ELSE {})
  <1> DEFINE e == [id |-> i, real |-> IsReal(net, i), before |-> state]
  <1>1. PICK S : trace \in Seq(S)
    BY DEF History
  <1>2. trace' = Append(trace, e) /\ instances' = instances
    BY DEF Applied
  <1>3. trace \in Seq(S \cup {e}) /\ e \in S \cup {e}
    <2>1. trace \in [1 .. Len(trace) -> S \cup {e}] /\ Len(trace) \in Nat
      BY <1>1, LenProperties
    <2> QED
      BY <2>1, FunctionIsSeq
  <1> HIDE DEF e
  <1>4. /\ trace' \in Seq(S \cup {e}) /\ Len(trace') = n + 1
        /\ trace'[n + 1] = e
        /\ \A j \in 1 .. n : trace'[j] = trace[j]
    BY <1>2, <1>3, AppendProperties
  <1>5. n \in Nat /\ DOMAIN trace = 1 .. n /\ DOMAIN trace' = 1 .. n + 1
    BY <1>3, <1>4, LenProperties
  <1>6. DOMAIN trace' = DOMAIN trace \cup {n + 1} /\ n + 1 \notin DOMAIN trace /\ n + 2 \notin DOMAIN trace'
    BY <1>5
  <1>7. Before(n + 1) = state /\ Before(n + 2)' = state'
    BY <1>6 DEF Before
  <1>8. \A j \in 1 .. n + 1 : Before(j)' = Before(j)
    BY <1>4, <1>5, <1>6 DEF Before, e
  <1>9. ASSUME NEW k
        PROVE  /\ CheckedAt(k) \subseteq 1 .. n /\ ActedAt(k) \subseteq 1 .. n
               /\ CheckedAt(k)' = CheckedAt(k) \cup (IF i = instances[k].checkid THEN {n + 1} ELSE {})
               /\ ActedAt(k)' = ActedAt(k) \cup (IF IsReal(net, i) /\ i \in instances[k].family THEN {n + 1} ELSE {})
    <2>1. CheckedAt(k)' = CheckedAt(k) \cup (IF i = instances[k].checkid THEN {n + 1} ELSE {})
      BY <1>2, <1>4, <1>5, <1>6 DEF CheckedAt, e
    <2>2. ActedAt(k)' = ActedAt(k) \cup (IF IsReal(net, i) /\ i \in instances[k].family THEN {n + 1} ELSE {})
      BY <1>2, <1>4, <1>5, <1>6 DEF ActedAt, e
    <2> QED
      BY <1>5, <2>1, <2>2 DEF CheckedAt, ActedAt
  <1> QED
    BY <1>2, <1>4, <1>5, <1>7, <1>8, <1>9 DEF e

\* A decomposition adds an instance nothing has happened to, and the ids it hands
\* out have never been applied.
LEMMA DecomposedFacts ==
  ASSUME History, NEW i, NEW m, TDecompose(i, m), NEW n, n = Len(instances),
         AddedTIDs(m, net) \cap (0 .. net.nextID - 1) = {}
  PROVE  /\ n \in Nat /\ DOMAIN instances = 1 .. n /\ DOMAIN instances' = 1 .. n + 1
         /\ \E S : instances' \in Seq(S)
         /\ \A k \in 1 .. n : instances'[k] =
              [ check |-> instances[k].check, checkid |-> instances[k].checkid,
                family |-> instances[k].family \cup (IF i \in instances[k].family THEN AddedTIDs(m, net) ELSE {}) ]
         /\ instances'[n + 1] =
              [ check |-> IF m.mprec = 0 THEN NoCheck ELSE m.subtasks[m.mprec],
                checkid |-> SubtaskID(net, m.mprec), family |-> AddedTIDs(m, net) ]
         /\ trace' = trace /\ state' = state
         /\ \A j : Before(j)' = Before(j)
         /\ \A k \in 1 .. n : CheckedAt(k)' = CheckedAt(k) /\ ActedAt(k)' = ActedAt(k)
         /\ ActedAt(n + 1)' = {}
         /\ m.mprec \in Positions(m) => CheckedAt(n + 1)' = {}
  <1> DEFINE added == AddedTIDs(m, net)
             grown == [k \in DOMAIN instances |->
                         IF i \in instances[k].family
                         THEN [instances[k] EXCEPT !.family = @ \cup added] ELSE instances[k]]
             new   == [ check   |-> IF m.mprec = 0 THEN NoCheck ELSE m.subtasks[m.mprec],
                        checkid |-> SubtaskID(net, m.mprec),
                        family  |-> added ]
  <1>1. /\ instances' = Append(grown, new) /\ trace' = trace /\ state' = state
    BY DEF TDecompose, Decompose, SubtaskID
  <1>2. PICK S : instances \in Seq(S)
    BY DEF History
  <1>3. n \in Nat /\ DOMAIN instances = 1 .. n
    BY <1>2, LenProperties
  <1>4. grown \in [1 .. n -> {grown[k] : k \in 1 .. n} \cup {new}]
    BY <1>3
  <1>5. \A k \in 1 .. n : grown[k] =
          [ check |-> instances[k].check, checkid |-> instances[k].checkid,
            family |-> instances[k].family \cup (IF i \in instances[k].family THEN added ELSE {}) ]
    <2> SUFFICES ASSUME NEW k \in 1 .. n
                 PROVE  grown[k] =
                          [ check |-> instances[k].check, checkid |-> instances[k].checkid,
                            family |-> instances[k].family \cup (IF i \in instances[k].family THEN added ELSE {}) ]
      OBVIOUS
    <2>1. instances[k] = [ check |-> instances[k].check, checkid |-> instances[k].checkid,
                           family |-> instances[k].family ]
      BY <1>3 DEF History
    <2>2. grown[k] = IF i \in instances[k].family
                     THEN [instances[k] EXCEPT !.family = @ \cup added] ELSE instances[k]
      BY <1>3
    <2> HIDE DEF grown, added
    <2> QED
      BY <2>1, <2>2
  <1> DEFINE G == {grown[k] : k \in 1 .. n} \cup {new}
  <1>6. grown \in Seq(G) /\ Len(grown) = n /\ new \in G
    <2>1. DOMAIN grown = 1 .. n
      BY <1>3
    <2> HIDE DEF grown, new
    <2>2. grown \in [1 .. n -> G] /\ new \in G
      BY <1>4
    <2> HIDE DEF G
    <2>3. grown \in Seq(G)
      BY <1>3, <2>2, FunctionIsSeq
    <2> QED
      BY <1>3, <2>1, <2>2, <2>3, LenProperties
  <1> HIDE DEF grown, new, G, added
  <1>7. /\ instances' \in Seq(G) /\ Len(instances') = n + 1
        /\ instances'[n + 1] = new
        /\ \A k \in 1 .. n : instances'[k] = grown[k]
    BY <1>1, <1>6, AppendProperties
  <1>8. DOMAIN instances' = 1 .. n + 1
    BY <1>7, LenProperties
  <1>9. \A j : Before(j)' = Before(j)
    BY <1>1 DEF Before
  <1>10. \A j \in DOMAIN trace : trace[j].id \notin added
    BY DEF History, added
  <1>11. ASSUME NEW k \in 1 .. n
         PROVE  CheckedAt(k)' = CheckedAt(k) /\ ActedAt(k)' = ActedAt(k)
    <2>1. instances'[k] =
            [ check |-> instances[k].check, checkid |-> instances[k].checkid,
              family |-> instances[k].family \cup (IF i \in instances[k].family THEN added ELSE {}) ]
      BY <1>5, <1>7
    <2>2. /\ instances'[k].checkid = instances[k].checkid
          /\ \A j : j \notin added => (j \in instances'[k].family <=> j \in instances[k].family)
      BY <2>1
    <2> QED
      BY <1>1, <1>10, <2>2 DEF CheckedAt, ActedAt
  <1>12. ActedAt(n + 1)' = {}
    BY <1>1, <1>7, <1>10 DEF ActedAt, new
  <1>13. m.mprec \in Positions(m) => CheckedAt(n + 1)' = {}
    BY <1>1, <1>7, <1>10 DEF CheckedAt, new, added, AddedTIDs
  <1> QED
    BY <1>1, <1>3, <1>5, <1>7, <1>8, <1>9, <1>11, <1>12, <1>13 DEF new, added

---------------------------------------------------------------------------
\* The check task of a method is neither real nor compound, and while it waits
\* nothing else of the method is unconstrained.
LEMMA CheckFirst ==
  ASSUME History, Ordered, NEW i \in Free(net), NEW k \in Guarded
  PROVE  /\ i = instances[k].checkid =>
              /\ net.gts[i].head = instances[k].check /\ ActionDefs[net.gts[i].head].artificial
              /\ IsAction(net, i)
         /\ i # instances[k].checkid /\ instances[k].checkid \in Ids(net) => i \notin instances[k].family
         /\ i # instances[k].checkid /\ i \in instances[k].family => instances[k].checkid \notin Ids(net)
  <1>1. i \in Ids(net) /\ net.gts[i].incoming = {}
    BY DEF Free
  <1>2. i = instances[k].checkid => net.gts[i].head = instances[k].check
    BY <1>1 DEF History
  <1>3. instances[k].check \in Actions /\ ActionDefs[instances[k].check].artificial
    BY DEF History
  <1>4. i # instances[k].checkid /\ instances[k].checkid \in Ids(net) => i \notin instances[k].family
    BY <1>1 DEF Ordered, Waits
  <1> QED
    BY <1>2, <1>3, <1>4 DEF IsAction

\* Applying a task keeps the histories true and methods behind their checks.
LEMMA AppliedOrdered ==
  ASSUME Sound(net), History, Ordered, NEW i \in Free(net), IsReal(net, i) \in BOOLEAN,
         ActionApplies(state, net, i), net' = AfterAction(net, i), Applied(i)
  PROVE  History' /\ Ordered'
  <1> PICK n : n = Len(trace)
    OBVIOUS
  <1>1. /\ n \in Nat /\ DOMAIN trace = 1 .. n /\ DOMAIN trace' = 1 .. n + 1 /\ Len(trace') = n + 1
        /\ \E S : trace' \in Seq(S)
        /\ trace'[n + 1].id = i
        /\ \A j \in 1 .. n : trace'[j] = trace[j]
        /\ instances' = instances
        /\ Before(n + 1) = state /\ Before(n + 2)' = state'
        /\ \A j \in 1 .. n + 1 : Before(j)' = Before(j)
        /\ \A k : /\ CheckedAt(k) \subseteq 1 .. n /\ ActedAt(k) \subseteq 1 .. n
                  /\ CheckedAt(k)' = CheckedAt(k) \cup (IF i = instances[k].checkid THEN {n + 1} ELSE {})
                  /\ ActedAt(k)' = ActedAt(k) \cup (IF IsReal(net, i) /\ i \in instances[k].family THEN {n + 1} ELSE {})
    BY AppliedFacts
  <1>2. /\ Ids(net') = Ids(net) \ {i} /\ net'.nextID = net.nextID
        /\ \A j \in Ids(net') : /\ net'.gts[j].head = net.gts[j].head
                                /\ net.gts[j].incoming \ {i} \subseteq net'.gts[j].incoming
    BY AfterParts
  <1>3. i \in Ids(net) /\ i \in 0 .. net.nextID - 1
    BY SoundParts DEF Free
  <1>4. Guarded' = Guarded /\ \A k \in Guarded : k \in DOMAIN instances /\ Condition(k)' = Condition(k)
    BY <1>1 DEF Guarded, Condition
  <1>5. \A j \in DOMAIN trace' : trace'[j].id \in 0 .. net'.nextID - 1 /\ trace'[j].id \notin Ids(net')
    <2> SUFFICES ASSUME NEW j \in DOMAIN trace'
                 PROVE  trace'[j].id \in 0 .. net'.nextID - 1 /\ trace'[j].id \notin Ids(net')
      OBVIOUS
    <2>1. CASE j = n + 1
      BY <1>1, <1>2, <1>3, <2>1
    <2>2. CASE j \in 1 .. n
      BY <1>1, <1>2, <2>2 DEF History
    <2> QED
      BY <1>1, <2>1, <2>2
  <1>6. History'
    <2>1. /\ \E S : instances' \in Seq(S)
          /\ \A k \in DOMAIN instances' :
               /\ instances'[k] = [ check |-> instances'[k].check, checkid |-> instances'[k].checkid,
                                    family |-> instances'[k].family ]
               /\ instances'[k].family \subseteq 0 .. net'.nextID - 1
      BY <1>1, <1>2 DEF History
    <2>2. \A k \in Guarded' :
            /\ instances'[k].checkid \in instances'[k].family
            /\ instances'[k].check \in Actions /\ ActionDefs[instances'[k].check].artificial
            /\ instances'[k].checkid \in Ids(net') => net'.gts[instances'[k].checkid].head = instances'[k].check
      BY <1>1, <1>2, <1>4 DEF History
    <2>3. \E S : trace' \in Seq(S)
      BY <1>1
    <2> QED
      BY <1>5, <2>1, <2>2, <2>3 DEF History
  <1>7. ASSUME NEW k \in Guarded, instances[k].checkid \in Ids(net')
        PROVE  Waits(k)'
    <2>1. i # instances[k].checkid /\ instances[k].checkid \in Ids(net) /\ i \notin instances[k].family
      BY <1>2, <1>7, CheckFirst
    <2>2. Waits(k)
      BY <2>1 DEF Ordered
    <2>3. ActedAt(k)' = {}
      BY <1>1, <2>1, <2>2 DEF Waits
    <2> QED
      BY <1>1, <1>2, <2>1, <2>2, <2>3 DEF Waits
  <1>8. ASSUME NEW k \in Guarded, instances[k].checkid \notin Ids(net')
        PROVE  Passed(k)'
    <2>1. CASE i = instances[k].checkid
      <3>1. Holds(Condition(k), state) /\ ~ IsReal(net, i)
        BY <2>1, CheckFirst DEF ActionApplies, Condition, IsReal
      <3>2. ActedAt(k) = {}
        BY <1>3, <2>1 DEF Ordered, Waits
      <3>3. ActedAt(k)' = {} /\ n + 1 \in CheckedAt(k)'
        BY <1>1, <2>1, <3>1, <3>2
      <3>4. Before(n + 1)' = state /\ Condition(k)' = Condition(k)
        BY <1>1, <1>4
      <3> QED
        BY <3>1, <3>3, <3>4 DEF Passed
    <2>2. CASE i # instances[k].checkid
      <3>1. Passed(k)
        BY <1>2, <1>8, <2>2 DEF Ordered
      <3>2. PICK c \in CheckedAt(k) : Holds(Condition(k), Before(c)) /\ \A j \in ActedAt(k) : c < j
        BY <3>1 DEF Passed
      <3>3. c \in 1 .. n /\ c \in CheckedAt(k)'
        BY <1>1
      <3>4. Before(c)' = Before(c) /\ Condition(k)' = Condition(k)
        BY <1>1, <1>4, <3>3
      <3>5. \A j \in ActedAt(k)' : c < j
        BY <1>1, <3>2, <3>3
      <3> QED
        BY <3>2, <3>3, <3>4, <3>5 DEF Passed
    <2> QED
      BY <2>1, <2>2
  <1> QED
    BY <1>1, <1>4, <1>6, <1>7, <1>8 DEF Ordered

\* What a decomposition does to an instance and to the ids it hands out.
LEMMA DecomposedNet ==
  ASSUME Sound(net), NEW i \in Free(net), IsCompound(net, i),
         NEW m \in MethodDefs[net.gts[i].head], TDecompose(i, m)
  PROVE  /\ WellFormedMethod(m) /\ net' = Ground(m, net, i, Mode)
         /\ i \in Ids(net) /\ Ids(net) \subseteq 0 .. net.nextID - 1
         /\ net.gts[i].head \notin Actions
         /\ Ids(net') = (Ids(net) \ {i}) \cup AddedTIDs(m, net)
         /\ AddedTIDs(m, net) \cap (0 .. net.nextID - 1) = {}
         /\ AddedTIDs(m, net) \subseteq 0 .. net'.nextID - 1
         /\ 0 .. net.nextID - 1 \subseteq 0 .. net'.nextID - 1
         /\ \A p \in Positions(m) : SubtaskID(net, p) \in AddedTIDs(m, net)
  <1>1. WellFormedMethod(m) /\ net.gts[i].head \notin Actions
    BY DomainAssumption DEF IsCompound
  <1>2. net' = Ground(m, net, i, Mode)
    BY DEF TDecompose, Decompose
  <1>3. i \in Ids(net) /\ Ids(net) \subseteq 0 .. net.nextID - 1
    BY SoundParts DEF Free
  <1>4. \A p \in Positions(m) : SubtaskID(net, p) \in AddedTIDs(m, net)
    BY DEF AddedTIDs
  <1> QED
    BY <1>1, <1>2, <1>3, <1>4, GroundParts

\* So does decomposing a task.
LEMMA DecomposedOrdered ==
  ASSUME Sound(net), History, Ordered, NEW i \in Free(net), IsCompound(net, i),
         NEW m \in MethodDefs[net.gts[i].head], TDecompose(i, m)
  PROVE  History' /\ Ordered'
  <1> PICK n, added : n = Len(instances) /\ added = AddedTIDs(m, net)
    OBVIOUS
  <1>1. /\ WellFormedMethod(m) /\ net' = Ground(m, net, i, Mode)
        /\ i \in Ids(net) /\ Ids(net) \subseteq 0 .. net.nextID - 1
        /\ net.gts[i].head \notin Actions
        /\ Ids(net') = (Ids(net) \ {i}) \cup added
        /\ added \cap (0 .. net.nextID - 1) = {}
        /\ added \subseteq 0 .. net'.nextID - 1
        /\ 0 .. net.nextID - 1 \subseteq 0 .. net'.nextID - 1
        /\ \A p \in Positions(m) : SubtaskID(net, p) \in added
    BY DecomposedNet
  <1>2. /\ \A j \in Ids(net) \ {i} : /\ net'.gts[j].head = net.gts[j].head
                                     /\ net.gts[j].incoming \ {i} \subseteq net'.gts[j].incoming
        /\ \A p \in Positions(m) : /\ net'.gts[SubtaskID(net, p)].head = m.subtasks[p]
                                   /\ net'.gts[SubtaskID(net, p)].incoming = Predecessors(m, net, p)
    BY <1>1, GroundParts
  <1>3. /\ n \in Nat /\ DOMAIN instances = 1 .. n /\ DOMAIN instances' = 1 .. n + 1
        /\ \E S : instances' \in Seq(S)
        /\ \A k \in 1 .. n : instances'[k] =
             [ check |-> instances[k].check, checkid |-> instances[k].checkid,
               family |-> instances[k].family \cup (IF i \in instances[k].family THEN added ELSE {}) ]
        /\ instances'[n + 1] =
             [ check |-> IF m.mprec = 0 THEN NoCheck ELSE m.subtasks[m.mprec],
               checkid |-> SubtaskID(net, m.mprec), family |-> added ]
        /\ trace' = trace /\ state' = state
        /\ \A j : Before(j)' = Before(j)
        /\ \A k \in 1 .. n : CheckedAt(k)' = CheckedAt(k) /\ ActedAt(k)' = ActedAt(k)
        /\ ActedAt(n + 1)' = {}
    BY <1>1, DecomposedFacts
  <1>4. ASSUME NEW k \in 1 .. n
        PROVE  /\ instances'[k].check = instances[k].check
               /\ instances'[k].checkid = instances[k].checkid
               /\ instances'[k].family
                    = instances[k].family \cup (IF i \in instances[k].family THEN added ELSE {})
    <2>1. instances'[k] =
            [ check |-> instances[k].check, checkid |-> instances[k].checkid,
              family |-> instances[k].family \cup (IF i \in instances[k].family THEN added ELSE {}) ]
      BY <1>3
    <2> QED
      BY <2>1
  <1>5. /\ instances'[n + 1].check = IF m.mprec = 0 THEN NoCheck ELSE m.subtasks[m.mprec]
        /\ instances'[n + 1].checkid = SubtaskID(net, m.mprec)
        /\ instances'[n + 1].family = added
    BY <1>3
  <1>6. Guarded \subseteq 1 .. n /\ \A k \in Guarded' : k \in Guarded \/ k = n + 1
    BY <1>3, <1>4 DEF Guarded
  <1>7. n + 1 \in Guarded' =>
          /\ m.mprec \in Positions(m) /\ m.subtasks[m.mprec] \in Actions
          /\ ActionDefs[m.subtasks[m.mprec]].artificial
          /\ \A q \in Positions(m) \ {m.mprec} : <<m.mprec, q>> \in m.orderings
    BY <1>1, <1>5 DEF Guarded, WellFormedMethod
  <1>8. \A k \in Guarded : /\ i # instances[k].checkid
                           /\ instances[k].checkid \notin added
                           /\ instances[k].checkid \in Ids(net') <=> instances[k].checkid \in Ids(net)
    <2> SUFFICES ASSUME NEW k \in Guarded
                 PROVE  /\ i # instances[k].checkid
                        /\ instances[k].checkid \notin added
                        /\ instances[k].checkid \in Ids(net') <=> instances[k].checkid \in Ids(net)
      OBVIOUS
    <2>1. i # instances[k].checkid
      BY <1>1, CheckFirst DEF IsAction
    <2>2. instances[k].checkid \in 0 .. net.nextID - 1
      BY <1>3, <1>6 DEF History
    <2> QED
      BY <1>1, <2>1, <2>2
  <1>9. History'
    <2>1. ASSUME NEW k \in DOMAIN instances'
          PROVE  /\ instances'[k] = [ check |-> instances'[k].check, checkid |-> instances'[k].checkid,
                                      family |-> instances'[k].family ]
                 /\ instances'[k].family \subseteq 0 .. net'.nextID - 1
      <3>1. CASE k = n + 1
        BY <1>1, <1>3, <3>1
      <3>2. CASE k \in 1 .. n
        <4>1. instances[k].family \subseteq 0 .. net.nextID - 1
          BY <1>3, <3>2 DEF History
        <4>2. instances'[k].family \subseteq 0 .. net'.nextID - 1
          BY <1>1, <1>4, <3>2, <4>1
        <4>3. instances'[k] =
                [ check |-> instances[k].check, checkid |-> instances[k].checkid,
                  family |-> instances[k].family \cup (IF i \in instances[k].family THEN added ELSE {}) ]
          BY <1>3, <3>2
        <4> QED
          BY <4>2, <4>3
      <3> QED
        BY <1>3, <3>1, <3>2
    <2>2. \A j \in DOMAIN trace' : trace'[j].id \in 0 .. net'.nextID - 1 /\ trace'[j].id \notin Ids(net')
      BY <1>1, <1>3 DEF History
    <2>3. ASSUME NEW k \in Guarded'
          PROVE  /\ instances'[k].checkid \in instances'[k].family
                 /\ instances'[k].check \in Actions /\ ActionDefs[instances'[k].check].artificial
                 /\ instances'[k].checkid \in Ids(net') => net'.gts[instances'[k].checkid].head = instances'[k].check
      <3>1. CASE k = n + 1
        <4>1. m.mprec \in Positions(m) /\ m.mprec # 0
          BY <1>7, <3>1 DEF Positions
        <4> QED
          BY <1>1, <1>2, <1>5, <1>7, <3>1, <4>1
      <3>2. CASE k \in Guarded
        <4>1. k \in 1 .. n
          BY <1>6, <3>2
        <4>2. /\ instances[k].checkid \in instances[k].family
              /\ instances[k].check \in Actions /\ ActionDefs[instances[k].check].artificial
              /\ instances[k].checkid \in Ids(net) => net.gts[instances[k].checkid].head = instances[k].check
          BY <3>2 DEF History
        <4>3. instances[k].checkid \in Ids(net) =>
                net'.gts[instances[k].checkid].head = net.gts[instances[k].checkid].head
          BY <1>2, <1>8, <3>2
        <4>4. instances'[k].checkid \in instances'[k].family
          BY <1>4, <4>1, <4>2
        <4> QED
          BY <1>4, <1>8, <3>2, <4>1, <4>2, <4>3, <4>4
      <3> QED
        BY <1>6, <3>1, <3>2
    <2>4. (\E S : trace' \in Seq(S)) /\ (\E S : instances' \in Seq(S))
      BY <1>3 DEF History
    <2> QED
      BY <2>1, <2>2, <2>3, <2>4 DEF History
  <1>10. ASSUME NEW k \in Guarded
         PROVE  IF instances'[k].checkid \in Ids(net') THEN Waits(k)' ELSE Passed(k)'
    <2>1. k \in 1 .. n /\ Condition(k)' = Condition(k)
      BY <1>4, <1>6 DEF Condition
    <2>2. CASE instances[k].checkid \in Ids(net)
      <3>1. i \notin instances[k].family
        BY <1>8, <2>2, CheckFirst
      <3>2. Waits(k)
        BY <2>2 DEF Ordered
      <3>3. instances'[k].family = instances[k].family /\ instances'[k].checkid = instances[k].checkid
        BY <1>4, <2>1, <3>1
      <3>4. ActedAt(k)' = {}
        BY <1>3, <2>1, <3>2 DEF Waits
      <3>5. ASSUME NEW j \in instances[k].family \cap Ids(net'), j # instances[k].checkid
            PROVE  instances[k].checkid \in net'.gts[j].incoming
        <4>1. j \in Ids(net) \ {i}
          <5>1. j \in 0 .. net.nextID - 1
            BY <1>3, <2>1 DEF History
          <5> QED
            BY <1>1, <5>1
        <4> QED
          BY <1>2, <1>8, <3>2, <3>5, <4>1 DEF Waits
      <3>6. Waits(k)'
        BY <3>3, <3>4, <3>5 DEF Waits
      <3> QED
        BY <1>8, <2>2, <3>3, <3>6
    <2>3. CASE instances[k].checkid \notin Ids(net)
      <3>1. Passed(k)
        BY <2>3 DEF Ordered
      <3>2. Passed(k)'
        BY <1>3, <2>1, <3>1 DEF Passed
      <3>3. instances'[k].checkid \notin Ids(net')
        BY <1>4, <1>8, <2>1, <2>3
      <3> QED
        BY <3>2, <3>3
    <2> QED
      BY <2>2, <2>3
  <1>11. ASSUME n + 1 \in Guarded'
         PROVE  instances'[n + 1].checkid \in Ids(net') /\ Waits(n + 1)'
    <2>1. SubtaskID(net, m.mprec) \in added
      BY <1>1, <1>7, <1>11
    <2>2. ASSUME NEW j \in added, j # SubtaskID(net, m.mprec)
          PROVE  SubtaskID(net, m.mprec) \in net'.gts[j].incoming
      <3>1. PICK q \in Positions(m) : j = SubtaskID(net, q)
        BY DEF AddedTIDs
      <3>2. <<m.mprec, q>> \in m.orderings
        BY <1>7, <1>11, <2>2, <3>1
      <3>3. SubtaskID(net, m.mprec) \in Predecessors(m, net, q)
        BY <1>7, <1>11, <3>2 DEF Predecessors
      <3> QED
        BY <1>2, <3>1, <3>3
    <2>3. Waits(n + 1)'
      BY <1>3, <1>5, <2>2 DEF Waits
    <2> QED
      BY <1>1, <1>5, <2>1, <2>3
  <1>12. Ordered'
    BY <1>6, <1>10, <1>11 DEF Ordered
  <1> QED
    BY <1>9, <1>12

---------------------------------------------------------------------------
(***************************************************************************)
(* Where checks are kept, they say what happened.                          *)
(***************************************************************************)

\* A real action consumes the checks of the methods it arises from, a check task
\* establishes its own, and nothing else changes what a check says.
LEMMA AppliedKept ==
  ASSUME Mode # "compiled", Sound(net), History, Ordered, Kept,
         NEW i \in Free(net), IsReal(net, i) \in BOOLEAN, ActionApplies(state, net, i),
         ~ IsReal(net, i) => state' = state, net' = AfterAction(net, i), Applied(i)
  PROVE  Kept'
  <1> PICK n : n = Len(trace)
    OBVIOUS
  <1>1. /\ n \in Nat
        /\ instances' = instances
        /\ \A k : /\ CheckedAt(k) \subseteq 1 .. n /\ ActedAt(k) \subseteq 1 .. n
                  /\ CheckedAt(k)' = CheckedAt(k) \cup (IF i = instances[k].checkid THEN {n + 1} ELSE {})
                  /\ ActedAt(k)' = ActedAt(k) \cup (IF IsReal(net, i) /\ i \in instances[k].family THEN {n + 1} ELSE {})
    BY AppliedFacts
  <1>2. /\ Ids(net') = Ids(net) \ {i}
        /\ \A j \in Ids(net') : /\ checks_of(net', j) = checks_of(net, j)
                                /\ establishes_of(net', j) = establishes_of(net, j)
    BY AfterParts
  <1>3. /\ net'.step = IF IsReal(net, i) THEN net.step + 1 ELSE net.step
        /\ DOMAIN net'.checks = DOMAIN net.checks
        /\ \A k \in DOMAIN net.checks :
             /\ net'.checks[k].action = net.checks[k].action
             /\ net'.checks[k].established
                  <=> net.checks[k].established \/ (~ IsReal(net, i) /\ k = establishes_of(net, i))
             /\ net'.checks[k].consumed
                  <=> net.checks[k].consumed \/ (IsReal(net, i) /\ k \in checks_of(net, i))
             /\ IsReal(net, i) => net'.checks[k].established_at = net.checks[k].established_at
             /\ k # establishes_of(net, i) => net'.checks[k].established_at = net.checks[k].established_at
    BY AfterChecks
  <1>4. i \in Ids(net)
    BY DEF Free
  <1>5. Guarded' = Guarded /\ \A k : Ord(k)' = Ord(k) /\ Condition(k)' = Condition(k)
    BY <1>1 DEF Guarded, Ord, Condition
  <1>6. \A k \in Guarded : Ord(k) \in 1 .. Cardinality(Guarded) /\ Ord(k) \in DOMAIN net.checks
    BY OrdRange DEF History, Kept, Carried
  <1>7. Carried'
    <2>1. DOMAIN net'.checks = 1 .. Cardinality(Guarded')
      BY <1>3, <1>5 DEF Kept, Carried
    <2>2. ASSUME NEW k \in Guarded
          PROVE  /\ net'.checks[Ord(k)].action = instances[k].check
                 /\ \A j \in Ids(net') : Ord(k) \in checks_of(net', j) <=> j \in instances[k].family
                 /\ \A j \in Ids(net') : establishes_of(net', j) = Ord(k) <=> j = instances[k].checkid
      BY <1>2, <1>3, <1>6 DEF Kept, Carried
    <2> QED
      BY <1>1, <1>5, <2>1, <2>2 DEF Carried
  <1>8. ASSUME NEW k \in Guarded
        PROVE  /\ net'.checks[Ord(k)].established <=> CheckedAt(k)' # {}
               /\ net'.checks[Ord(k)].consumed <=> ActedAt(k)' # {}
    <2>1. /\ net.checks[Ord(k)].established <=> CheckedAt(k) # {}
          /\ net.checks[Ord(k)].consumed <=> ActedAt(k) # {}
      BY DEF Kept, Told
    <2>2. /\ Ord(k) \in checks_of(net, i) <=> i \in instances[k].family
          /\ establishes_of(net, i) = Ord(k) <=> i = instances[k].checkid
      BY <1>4 DEF Kept, Carried
    <2>3. IsReal(net, i) => i # instances[k].checkid
      BY CheckFirst DEF IsReal
    <2>4. net'.checks[Ord(k)].established <=> CheckedAt(k)' # {}
      BY <1>1, <1>3, <1>6, <2>1, <2>2, <2>3
    <2>5. net'.checks[Ord(k)].consumed <=> ActedAt(k)' # {}
      BY <1>1, <1>3, <1>6, <2>1, <2>2
    <2> QED
      BY <2>4, <2>5
  <1>9. ASSUME NEW k \in Guarded, net'.checks[Ord(k)].established,
               net'.checks[Ord(k)].established_at = net'.step
        PROVE  Holds(Condition(k), state')
    <2>1. net.step \in Nat /\ net.checks[Ord(k)].established_at \in 0 .. net.step
      <3> DEFINE Check == [ action : Heads, established : BOOLEAN, consumed : BOOLEAN,
                            established_at : 0 .. net.step ]
      <3>1. net.checks \in Seq(Check) /\ net.step \in Nat
        BY DEF Sound, IsNetwork
      <3>2. Ord(k) \in 1 .. Len(net.checks)
        BY <1>6, <3>1, LenProperties
      <3>3. net.checks[Ord(k)] \in Check
        <4> HIDE DEF Check
        <4> QED BY <3>1, <3>2, ElementOfSeq
      <3> QED
        BY <3>1, <3>3
    <2>2. ~ IsReal(net, i)
      <3> SUFFICES ASSUME IsReal(net, i) PROVE FALSE
        OBVIOUS
      <3>1. net'.checks[Ord(k)].established_at = net.checks[Ord(k)].established_at
        BY <1>3, <1>6
      <3>2. net'.step = net.step + 1
        BY <1>3
      <3>3. net.checks[Ord(k)].established_at = net.step + 1
        BY <1>9, <3>1, <3>2
      <3> QED
        BY <2>1, <3>3
    <2>3. CASE i = instances[k].checkid
      BY <2>2, <2>3, CheckFirst DEF ActionApplies, Condition
    <2>4. CASE i # instances[k].checkid
      <3>1. establishes_of(net, i) # Ord(k)
        BY <1>4, <2>4 DEF Kept, Carried
      <3>2. net.checks[Ord(k)].established /\ net.checks[Ord(k)].established_at = net.step
        BY <1>3, <1>6, <1>9, <2>2, <3>1
      <3> QED
        BY <2>2, <3>2 DEF Kept, Fresh
    <2> QED
      BY <2>3, <2>4
  <1>10. Told'
    BY <1>5, <1>8 DEF Told
  <1>11. Fresh'
    BY <1>5, <1>9 DEF Fresh
  <1> QED
    BY <1>7, <1>10, <1>11 DEF Kept

\* A decomposition hands the checks of a task down to its subtasks, and numbers
\* its own check next.
LEMMA DecomposedKept ==
  ASSUME Mode # "compiled", Sound(net), History, Ordered, Kept, NEW i \in Free(net), IsCompound(net, i),
         NEW m \in MethodDefs[net.gts[i].head], TDecompose(i, m)
  PROVE  Kept'
  <1> PICK n, added : n = Len(instances) /\ added = AddedTIDs(m, net)
    OBVIOUS
  <1>1. /\ WellFormedMethod(m) /\ net' = Ground(m, net, i, Mode)
        /\ i \in Ids(net) /\ Ids(net) \subseteq 0 .. net.nextID - 1
        /\ Ids(net') = (Ids(net) \ {i}) \cup added
        /\ added \cap (0 .. net.nextID - 1) = {}
        /\ \A p \in Positions(m) : SubtaskID(net, p) \in added
    BY DecomposedNet
  <1>2. /\ net'.step = net.step
        /\ \A p, q \in Positions(m) : SubtaskID(net, p) = SubtaskID(net, q) => p = q
    BY <1>1, GroundParts
  <1>3. /\ net'.checks = IF m.mprec # 0 THEN Append(net.checks, NewCheck(m.subtasks[m.mprec])) ELSE net.checks
        /\ \A j \in Ids(net) \ {i} : /\ checks_of(net', j) = checks_of(net, j)
                                     /\ establishes_of(net', j) = establishes_of(net, j)
        /\ \A p \in Positions(m) :
             /\ checks_of(net', SubtaskID(net, p))
                  = checks_of(net, i) \cup (IF m.mprec # 0 THEN {Len(net.checks) + 1} ELSE {})
             /\ establishes_of(net', SubtaskID(net, p))
                  = IF m.mprec # 0 /\ p = m.mprec THEN Len(net.checks) + 1 ELSE 0
    BY <1>1, GroundChecks
  <1>4. /\ n \in Nat /\ DOMAIN instances = 1 .. n /\ DOMAIN instances' = 1 .. n + 1
        /\ \A k \in 1 .. n : instances'[k] =
             [ check |-> instances[k].check, checkid |-> instances[k].checkid,
               family |-> instances[k].family \cup (IF i \in instances[k].family THEN added ELSE {}) ]
        /\ instances'[n + 1] =
             [ check |-> IF m.mprec = 0 THEN NoCheck ELSE m.subtasks[m.mprec],
               checkid |-> SubtaskID(net, m.mprec), family |-> added ]
        /\ state' = state
        /\ \A k \in 1 .. n : CheckedAt(k)' = CheckedAt(k) /\ ActedAt(k)' = ActedAt(k)
        /\ ActedAt(n + 1)' = {}
        /\ m.mprec \in Positions(m) => CheckedAt(n + 1)' = {}
    BY <1>1, DecomposedFacts
  <1>5. ASSUME NEW k \in 1 .. n
        PROVE  /\ instances'[k].check = instances[k].check
               /\ instances'[k].checkid = instances[k].checkid
               /\ instances'[k].family
                    = instances[k].family \cup (IF i \in instances[k].family THEN added ELSE {})
    <2>1. instances'[k] =
            [ check |-> instances[k].check, checkid |-> instances[k].checkid,
              family |-> instances[k].family \cup (IF i \in instances[k].family THEN added ELSE {}) ]
      BY <1>4
    <2> QED
      BY <2>1
  <1>6. /\ instances'[n + 1].check = IF m.mprec = 0 THEN NoCheck ELSE m.subtasks[m.mprec]
        /\ instances'[n + 1].checkid = SubtaskID(net, m.mprec)
        /\ instances'[n + 1].family = added
    BY <1>4
  <1>7. m.mprec # 0 <=> instances'[n + 1].check # NoCheck
    <2>1. m.mprec # 0 => m.subtasks[m.mprec] \in Actions
      BY <1>1 DEF WellFormedMethod
    <2> QED
      BY <1>6, <2>1, NoCheckAssumption
  <1> PICK C : C = Cardinality(Guarded)
    OBVIOUS
  <1>8. /\ \A k \in Guarded : k \in 1 .. n /\ k \in Guarded' /\ Ord(k)' = Ord(k)
        /\ \A k \in Guarded' : k \in Guarded \/ k = n + 1
        /\ m.mprec = 0 => Guarded' = Guarded
        /\ m.mprec # 0 => /\ n + 1 \in Guarded' /\ Cardinality(Guarded)' = C + 1
                          /\ Ord(n + 1)' = C + 1
    <2>1. PICK S : instances \in Seq(S)
      BY DEF History
    <2> QED
      BY <1>4, <1>5, <1>7, <2>1, OrdAppended
  <1>9. C \in Nat /\ \A k \in Guarded : Ord(k) \in 1 .. C
    BY OrdRange DEF History
  <1>10. n + 1 \in Guarded' => m.mprec \in Positions(m) /\ m.mprec # 0
    <2>1. n + 1 \in Guarded' => m.mprec # 0
      BY <1>7 DEF Guarded
    <2> QED
      BY <1>1, <2>1 DEF WellFormedMethod
  <1> DEFINE Check == [ action : Heads, established : BOOLEAN, consumed : BOOLEAN,
                        established_at : 0 .. net.step ]
  <1>11. net.checks \in Seq(Check) /\ net.step \in Nat /\ Len(net.checks) \in Nat
         /\ DOMAIN net.checks = 1 .. Len(net.checks)
    BY LenProperties DEF Sound, IsNetwork
  <1>12. Len(net.checks) = C /\ DOMAIN net.checks = 1 .. C
    <2> HIDE DEF Check
    <2>1. DOMAIN net.checks = 1 .. C
      BY DEF Kept, Carried
    <2> QED
      BY <1>9, <1>11, <2>1
  <1>13. m.mprec # 0 =>
           /\ DOMAIN net'.checks = 1 .. C + 1
           /\ net'.checks[C + 1] = NewCheck(m.subtasks[m.mprec])
           /\ \A k \in 1 .. C : net'.checks[k] = net.checks[k]
    <2> SUFFICES ASSUME m.mprec # 0
                 PROVE  /\ DOMAIN net'.checks = 1 .. C + 1
                        /\ net'.checks[C + 1] = NewCheck(m.subtasks[m.mprec])
                        /\ \A k \in 1 .. C : net'.checks[k] = net.checks[k]
      OBVIOUS
    <2>1. net'.checks = Append(net.checks, NewCheck(m.subtasks[m.mprec]))
      BY <1>3
    <2>2. NewCheck(m.subtasks[m.mprec]) \in Check
      BY <1>1, <1>11 DEF WellFormedMethod, NewCheck, Heads
    <2> HIDE DEF Check
    <2>3. /\ net'.checks \in Seq(Check) /\ Len(net'.checks) = C + 1
          /\ net'.checks[C + 1] = NewCheck(m.subtasks[m.mprec])
          /\ \A k \in 1 .. C : net'.checks[k] = net.checks[k]
      BY <1>11, <1>12, <2>1, <2>2, AppendProperties
    <2> QED
      BY <2>3, LenProperties
  <1> HIDE DEF Check
  <1>14. ASSUME NEW k \in Guarded
         PROVE  /\ k \in 1 .. n /\ Condition(k)' = Condition(k)
                /\ net'.checks[Ord(k)] = net.checks[Ord(k)]
    <2>1. k \in 1 .. n
      BY <1>8
    <2>2. CASE m.mprec # 0
      BY <1>5, <1>9, <1>13, <2>1, <2>2 DEF Condition
    <2>3. CASE m.mprec = 0
      BY <1>3, <1>5, <2>1, <2>3 DEF Condition
    <2> QED
      BY <2>1, <2>2, <2>3
  <1>15. \A j \in Ids(net) : checks_of(net, j) \subseteq 1 .. C /\ establishes_of(net, j) \in 0 .. C
    <2>1. net.tags \in [DOMAIN net.tags -> [ checks : SUBSET DOMAIN net.checks,
                                             establishes : {0} \cup DOMAIN net.checks ]]
      BY DEF Sound, IsNetwork
    <2> QED
      BY <1>9, <1>12, <2>1 DEF checks_of, establishes_of
  <1>16. \A k \in Guarded : /\ instances[k].family \subseteq 0 .. net.nextID - 1
                            /\ instances[k].checkid \in 0 .. net.nextID - 1
                            /\ instances[k].checkid \in instances[k].family
    BY <1>4, <1>8 DEF History
  <1>17. ASSUME NEW k \in Guarded, NEW j \in Ids(net')
         PROVE  /\ Ord(k) \in checks_of(net', j) <=> j \in instances'[k].family
                /\ establishes_of(net', j) = Ord(k) <=> j = instances'[k].checkid
    <2>1. Ord(k) \in 1 .. C
      BY <1>9
    <2>2. /\ instances'[k].checkid = instances[k].checkid
          /\ instances'[k].family
               = instances[k].family \cup (IF i \in instances[k].family THEN added ELSE {})
      BY <1>5, <1>14
    <2>3. \A l \in Ids(net) : /\ Ord(k) \in checks_of(net, l) <=> l \in instances[k].family
                              /\ establishes_of(net, l) = Ord(k) <=> l = instances[k].checkid
      BY DEF Kept, Carried
    <2>4. CASE j \in Ids(net) \ {i}
      <3>1. j \notin added
        BY <1>1, <2>4
      <3>2. j \in instances'[k].family <=> j \in instances[k].family
        BY <2>2, <3>1
      <3> QED
        BY <1>3, <2>2, <2>3, <2>4, <3>2
    <2>5. CASE j \in added
      <3>1. PICK p \in Positions(m) : j = SubtaskID(net, p)
        BY <2>5 DEF AddedTIDs
      <3>2. j \notin instances[k].family /\ j # instances[k].checkid
        BY <1>1, <1>16, <2>5
      <3>3. j \in instances'[k].family <=> i \in instances[k].family
        BY <2>2, <2>5, <3>2
      <3>4. Ord(k) \in checks_of(net', j) <=> Ord(k) \in checks_of(net, i)
        <4>1. Ord(k) # Len(net.checks) + 1
          BY <1>9, <1>12, <2>1
        <4> QED
          BY <1>3, <3>1, <4>1
      <3>5. establishes_of(net', j) # Ord(k)
        <4>1. Ord(k) # Len(net.checks) + 1 /\ Ord(k) # 0
          BY <1>9, <1>12, <2>1
        <4> QED
          BY <1>3, <3>1, <4>1
      <3> QED
        BY <1>1, <2>2, <2>3, <3>2, <3>3, <3>4, <3>5
    <2> QED
      BY <1>1, <2>4, <2>5
  <1>18. ASSUME n + 1 \in Guarded', NEW j \in Ids(net')
         PROVE  /\ C + 1 \in checks_of(net', j) <=> j \in instances'[n + 1].family
                /\ establishes_of(net', j) = C + 1 <=> j = instances'[n + 1].checkid
    <2>1. m.mprec # 0 /\ m.mprec \in Positions(m)
      BY <1>10, <1>18
    <2>2. CASE j \in Ids(net) \ {i}
      <3>1. j \notin added /\ j # SubtaskID(net, m.mprec)
        BY <1>1, <2>1, <2>2
      <3>2. C + 1 \notin checks_of(net, j) /\ establishes_of(net, j) # C + 1
        BY <1>9, <1>15, <2>2
      <3> QED
        BY <1>3, <1>6, <2>2, <3>1, <3>2
    <2>3. CASE j \in added
      <3>1. PICK p \in Positions(m) : j = SubtaskID(net, p)
        BY <2>3 DEF AddedTIDs
      <3>2. C + 1 \in checks_of(net', j) /\ C + 1 # 0
        BY <1>3, <1>9, <1>12, <2>1, <3>1
      <3>3. establishes_of(net', j) = C + 1 <=> p = m.mprec
        BY <1>3, <1>9, <1>12, <2>1, <3>1, <3>2
      <3>4. j = SubtaskID(net, m.mprec) <=> p = m.mprec
        BY <1>2, <2>1, <3>1
      <3> QED
        BY <1>6, <2>3, <3>2, <3>3, <3>4
    <2> QED
      BY <1>1, <2>2, <2>3
  <1>19. ASSUME n + 1 \in Guarded'
         PROVE  /\ net'.checks[C + 1].action = instances'[n + 1].check
                /\ ~ net'.checks[C + 1].established /\ ~ net'.checks[C + 1].consumed
                /\ CheckedAt(n + 1)' = {} /\ ActedAt(n + 1)' = {}
                /\ Ord(n + 1)' = C + 1
    BY <1>4, <1>6, <1>8, <1>10, <1>13, <1>19 DEF NewCheck
  <1>20. Carried'
    <2>1. DOMAIN net'.checks = 1 .. Cardinality(Guarded')
      BY <1>3, <1>8, <1>12, <1>13
    <2>2. ASSUME NEW k \in Guarded'
          PROVE  /\ net'.checks[Ord(k)'].action = instances'[k].check
                 /\ \A j \in Ids(net') : Ord(k)' \in checks_of(net', j) <=> j \in instances'[k].family
                 /\ \A j \in Ids(net') : establishes_of(net', j) = Ord(k)' <=> j = instances'[k].checkid
      <3>1. CASE k = n + 1
        BY <1>18, <1>19, <3>1
      <3>2. CASE k \in Guarded
        <4>1. net'.checks[Ord(k)].action = instances'[k].check
          BY <1>5, <1>14, <3>2 DEF Kept, Carried
        <4> QED
          BY <1>8, <1>17, <3>2, <4>1
      <3> QED
        BY <1>8, <3>1, <3>2
    <2> QED
      BY <2>1, <2>2 DEF Carried
  <1>21. Told'
    <2> SUFFICES ASSUME NEW k \in Guarded'
                 PROVE  /\ net'.checks[Ord(k)'].established <=> CheckedAt(k)' # {}
                        /\ net'.checks[Ord(k)'].consumed <=> ActedAt(k)' # {}
      BY DEF Told
    <2>1. CASE k = n + 1
      BY <1>19, <2>1
    <2>2. CASE k \in Guarded
      BY <1>4, <1>8, <1>14, <2>2 DEF Kept, Told
    <2> QED
      BY <1>8, <2>1, <2>2
  <1>22. Fresh'
    <2> SUFFICES ASSUME NEW k \in Guarded', net'.checks[Ord(k)'].established,
                        net'.checks[Ord(k)'].established_at = net'.step
                 PROVE  Holds(Condition(k)', state')
      BY DEF Fresh
    <2>1. CASE k = n + 1
      BY <1>19, <2>1
    <2>2. CASE k \in Guarded
      BY <1>2, <1>4, <1>8, <1>14, <2>2 DEF Kept, Fresh
    <2> QED
      BY <1>8, <2>1, <2>2
  <1> QED
    BY <1>20, <1>21, <1>22 DEF Kept

---------------------------------------------------------------------------
(***************************************************************************)
(* What the readings of a method precondition promise, from what the       *)
(* checks say.                                                             *)
(***************************************************************************)

\* The first real action of a method finds its precondition true: the action
\* carries the check, which is not consumed, so it is evaluated or still fresh.
LEMMA AppliedAtStart ==
  ASSUME Mode # "compiled", Sound(net), History, Ordered, Kept, HoldsAtStart,
         NEW i \in Free(net), IsReal(net, i) \in BOOLEAN, ActionApplies(state, net, i), Applied(i)
  PROVE  HoldsAtStart'
  <1> PICK n : n = Len(trace)
    OBVIOUS
  <1>1. /\ n \in Nat
        /\ instances' = instances
        /\ Before(n + 1) = state
        /\ \A j \in 1 .. n + 1 : Before(j)' = Before(j)
        /\ \A k : /\ CheckedAt(k) \subseteq 1 .. n /\ ActedAt(k) \subseteq 1 .. n
                  /\ CheckedAt(k)' = CheckedAt(k) \cup (IF i = instances[k].checkid THEN {n + 1} ELSE {})
                  /\ ActedAt(k)' = ActedAt(k) \cup (IF IsReal(net, i) /\ i \in instances[k].family THEN {n + 1} ELSE {})
    BY AppliedFacts
  <1>2. Guarded' = Guarded /\ \A k : Condition(k)' = Condition(k)
    BY <1>1 DEF Guarded, Condition
  <1>3. ASSUME NEW k \in Guarded, NEW j \in StartsAt(k)'
        PROVE  Holds(Condition(k), Before(j)')
    <2>1. j \in ActedAt(k)' /\ \A l \in ActedAt(k)' : j <= l
      BY DEF StartsAt
    <2>2. CASE j \in ActedAt(k)
      <3>1. j \in StartsAt(k)
        BY <1>1, <2>1, <2>2 DEF StartsAt
      <3>2. Before(j)' = Before(j)
        BY <1>1, <2>2
      <3> QED
        BY <3>1, <3>2 DEF HoldsAtStart
    <2>3. CASE j \notin ActedAt(k)
      <3>1. IsReal(net, i) /\ i \in instances[k].family /\ j = n + 1
        BY <1>1, <2>1, <2>3
      <3>2. ActedAt(k) = {}
        BY <1>1, <2>1, <3>1
      <3>3. Ord(k) \in checks_of(net, i) /\ net.checks[Ord(k)].action = instances[k].check
        BY <3>1 DEF Kept, Carried, Free
      <3>4. ~ net.checks[Ord(k)].consumed
        BY <3>2 DEF Kept, Told
      <3>5. first_action_ok(net, i, state)
        BY <3>1 DEF ActionApplies
      <3>6. CASE net.checks[Ord(k)].established /\ net.checks[Ord(k)].established_at = net.step
        BY <1>1, <3>1, <3>6 DEF Kept, Fresh
      <3>7. CASE CheckHolds(net.checks[Ord(k)], state)
        BY <1>1, <3>1, <3>3, <3>7 DEF CheckHolds, Condition
      <3> QED
        BY <3>3, <3>4, <3>5, <3>6, <3>7 DEF first_action_ok
    <2> QED
      BY <2>2, <2>3
  <1> QED
    BY <1>2, <1>3 DEF HoldsAtStart

\* A decomposition moves no action.
LEMMA DecomposedAtStart ==
  ASSUME Sound(net), History, HoldsAtStart, NEW i \in Free(net), IsCompound(net, i),
         NEW m \in MethodDefs[net.gts[i].head], TDecompose(i, m)
  PROVE  HoldsAtStart'
  <1> PICK n : n = Len(instances)
    OBVIOUS
  <1>1. AddedTIDs(m, net) \cap (0 .. net.nextID - 1) = {}
    BY DecomposedNet
  <1>2. /\ n \in Nat /\ DOMAIN instances = 1 .. n /\ DOMAIN instances' = 1 .. n + 1
        /\ \A k \in 1 .. n : instances'[k] =
             [ check |-> instances[k].check, checkid |-> instances[k].checkid,
               family |-> instances[k].family \cup (IF i \in instances[k].family THEN AddedTIDs(m, net) ELSE {}) ]
        /\ instances'[n + 1] =
             [ check |-> IF m.mprec = 0 THEN NoCheck ELSE m.subtasks[m.mprec],
               checkid |-> SubtaskID(net, m.mprec), family |-> AddedTIDs(m, net) ]
        /\ trace' = trace
        /\ \A j : Before(j)' = Before(j)
        /\ \A k \in 1 .. n : CheckedAt(k)' = CheckedAt(k) /\ ActedAt(k)' = ActedAt(k)
        /\ ActedAt(n + 1)' = {}
    BY <1>1, DecomposedFacts
  <1>3. ASSUME NEW k \in 1 .. n
        PROVE  instances'[k].check = instances[k].check
    <2>1. instances'[k] =
            [ check |-> instances[k].check, checkid |-> instances[k].checkid,
              family |-> instances[k].family \cup (IF i \in instances[k].family THEN AddedTIDs(m, net) ELSE {}) ]
      BY <1>2
    <2> QED
      BY <2>1
  <1>4. ASSUME NEW k \in Guarded', NEW j \in StartsAt(k)'
        PROVE  Holds(Condition(k)', Before(j)')
    <2>1. k \in 1 .. n
      BY <1>2 DEF Guarded, StartsAt
    <2>2. k \in Guarded /\ Condition(k)' = Condition(k) /\ StartsAt(k)' = StartsAt(k)
      BY <1>2, <1>3, <2>1 DEF Guarded, Condition, StartsAt
    <2> QED
      BY <1>2, <2>2 DEF HoldsAtStart
  <1> QED
    BY <1>4 DEF HoldsAtStart

\* Where links are protected, a real action of another method leaves an open link
\* true, and one of the method itself closes it.
LEMMA AppliedThroughout ==
  ASSUME Mode = "protected", Sound(net), History, Ordered, Kept, Kept', HoldsThroughout,
         NEW i \in Free(net), IsReal(net, i) \in BOOLEAN, ActionApplies(state, net, i),
         state' = IF IsReal(net, i) THEN NewState(state, net.gts[i].head) ELSE state,
         net' = AfterAction(net, i), Applied(i)
  PROVE  HoldsThroughout'
  <1> PICK n : n = Len(trace)
    OBVIOUS
  <1>1. /\ n \in Nat /\ Len(trace') = n + 1
        /\ instances' = instances
        /\ Before(n + 1) = state /\ Before(n + 2)' = state'
        /\ \A j \in 1 .. n + 1 : Before(j)' = Before(j)
        /\ \A k : /\ CheckedAt(k) \subseteq 1 .. n /\ ActedAt(k) \subseteq 1 .. n
                  /\ CheckedAt(k)' = CheckedAt(k) \cup (IF i = instances[k].checkid THEN {n + 1} ELSE {})
                  /\ ActedAt(k)' = ActedAt(k) \cup (IF IsReal(net, i) /\ i \in instances[k].family THEN {n + 1} ELSE {})
    BY AppliedFacts
  <1>2. Guarded' = Guarded /\ \A k : Condition(k)' = Condition(k) /\ Ord(k)' = Ord(k)
    BY <1>1 DEF Guarded, Condition, Ord
  <1>3. Ids(net') = Ids(net) \ {i} /\ i \in Ids(net)
    BY AfterParts DEF Free
  <1>4. \A k \in Guarded : i = instances[k].checkid => ~ IsReal(net, i) /\ Holds(Condition(k), state)
    BY CheckFirst DEF IsReal, ActionApplies, Condition
  <1>5. ASSUME NEW k \in Guarded, NEW c \in CheckedAt(k)', NEW e, NEW j \in c .. e,
               e \in IF ActedAt(k)' # {} THEN StartsAt(k)' ELSE IF Pending(k)' THEN {n + 2} ELSE {}
        PROVE  Holds(Condition(k), Before(j)')
    <2>1. CASE ActedAt(k) # {}
      <3>1. instances[k].checkid \notin Ids(net)
        BY <2>1 DEF Ordered, Waits
      <3>2. c \in CheckedAt(k)
        BY <1>1, <1>3, <3>1
      <3>3. e \in StartsAt(k) /\ e \in 1 .. n
        BY <1>1, <1>5, <2>1 DEF StartsAt
      <3>4. j \in 1 .. n + 1
        BY <1>1, <3>2, <3>3
      <3> QED
        BY <1>1, <2>1, <3>2, <3>3, <3>4 DEF HoldsThroughout
    <2>2. CASE ActedAt(k) = {} /\ ActedAt(k)' # {}
      <3>1. IsReal(net, i) /\ i \in instances[k].family
        BY <1>1, <2>2
      <3>2. e = n + 1 /\ Pending(k)
        BY <1>1, <1>3, <1>5, <2>2, <3>1 DEF StartsAt, Pending
      <3>3. c \in CheckedAt(k)
        BY <1>1, <1>4, <3>1
      <3>4. j \in 1 .. n + 1
        BY <1>1, <3>2, <3>3
      <3> QED
        BY <1>1, <2>2, <3>2, <3>3, <3>4 DEF HoldsThroughout
    <2>3. CASE ActedAt(k)' = {}
      <3>1. Pending(k)' /\ e = n + 2 /\ ActedAt(k) = {}
        BY <1>1, <1>5, <2>3
      <3>2. Pending(k)
        BY <1>1, <1>3, <3>1 DEF Pending
      <3>3. c \in 1 .. n + 1 /\ j \in Int /\ c <= j /\ j <= n + 2
        BY <1>1, <3>1
      <3>4. CASE j \in 1 .. n + 1 /\ c \in CheckedAt(k)
        BY <1>1, <3>1, <3>2, <3>4 DEF HoldsThroughout
      <3>5. CASE j \in 1 .. n + 1 /\ c \notin CheckedAt(k)
        <4>1. i = instances[k].checkid /\ c = n + 1
          BY <1>1, <3>5
        <4>2. j = n + 1
          BY <1>1, <3>3, <3>5, <4>1
        <4> QED
          BY <1>1, <1>4, <4>1, <4>2
      <3>6. CASE j = n + 2 /\ ~ IsReal(net, i)
        <4>1. Before(j)' = state
          BY <1>1, <3>6
        <4>2. CASE c \in CheckedAt(k)
          <5>1. n + 1 \in c .. n + 1
            BY <1>1, <4>2
          <5> QED
            BY <1>1, <3>1, <3>2, <4>1, <4>2, <5>1 DEF HoldsThroughout
        <4>3. CASE c \notin CheckedAt(k)
          BY <1>1, <1>4, <4>1, <4>3
        <4> QED
          BY <4>2, <4>3
      <3>7. CASE j = n + 2 /\ IsReal(net, i)
        <4>1. i \notin instances[k].family
          BY <1>1, <2>3, <3>7
        <4>2. Ord(k) \notin checks_of(net, i)
          BY <1>3, <4>1 DEF Kept, Carried
        <4>3. PICK l \in Ids(net') : l \in instances[k].family
          BY <1>1, <3>1 DEF Pending
        <4>4. Ord(k) \in checks_of(net', l)
          BY <1>1, <1>2, <4>3 DEF Kept, Carried
        <4>5. Ord(k) \in UNION {net'.tags[t].checks : t \in DOMAIN net'.tags}
          BY <4>4 DEF checks_of
        <4>6. net'.checks[Ord(k)].established /\ ~ net'.checks[Ord(k)].consumed
          BY <1>2, <2>3 DEF Kept, Told
        <4>7. links_intact(net', checks_of(net, i), state')
          BY <3>7 DEF ActionApplies
        <4>8. CheckHolds(net'.checks[Ord(k)], state')
          BY <4>2, <4>5, <4>6, <4>7 DEF links_intact
        <4>9. net'.checks[Ord(k)].action = instances[k].check
          BY <1>1, <1>2 DEF Kept, Carried
        <4> QED
          BY <1>1, <3>7, <4>8, <4>9 DEF CheckHolds, Condition
      <3> QED
        BY <1>1, <3>3, <3>4, <3>5, <3>6, <3>7
    <2> QED
      BY <2>1, <2>2, <2>3
  <1>6. Len(trace') + 1 = n + 2
    BY <1>1
  <1> QED
    BY <1>2, <1>5, <1>6 DEF HoldsThroughout

\* A decomposition leaves open the links that were.
LEMMA DecomposedThroughout ==
  ASSUME Sound(net), History, HoldsThroughout, NEW i \in Free(net), IsCompound(net, i),
         NEW m \in MethodDefs[net.gts[i].head], TDecompose(i, m)
  PROVE  HoldsThroughout'
  <1> PICK n, added : n = Len(instances) /\ added = AddedTIDs(m, net)
    OBVIOUS
  <1>1. /\ WellFormedMethod(m)
        /\ i \in Ids(net) /\ Ids(net) \subseteq 0 .. net.nextID - 1
        /\ Ids(net') = (Ids(net) \ {i}) \cup added
        /\ added \cap (0 .. net.nextID - 1) = {}
    BY DecomposedNet
  <1>2. /\ n \in Nat /\ DOMAIN instances = 1 .. n /\ DOMAIN instances' = 1 .. n + 1
        /\ \A k \in 1 .. n : instances'[k] =
             [ check |-> instances[k].check, checkid |-> instances[k].checkid,
               family |-> instances[k].family \cup (IF i \in instances[k].family THEN added ELSE {}) ]
        /\ instances'[n + 1] =
             [ check |-> IF m.mprec = 0 THEN NoCheck ELSE m.subtasks[m.mprec],
               checkid |-> SubtaskID(net, m.mprec), family |-> added ]
        /\ trace' = trace
        /\ \A j : Before(j)' = Before(j)
        /\ \A k \in 1 .. n : CheckedAt(k)' = CheckedAt(k) /\ ActedAt(k)' = ActedAt(k)
        /\ m.mprec \in Positions(m) => CheckedAt(n + 1)' = {}
    BY <1>1, DecomposedFacts
  <1>3. ASSUME NEW k \in 1 .. n
        PROVE  /\ instances'[k].check = instances[k].check
               /\ instances'[k].family =
                    instances[k].family \cup (IF i \in instances[k].family THEN added ELSE {})
    <2>1. instances'[k] =
            [ check |-> instances[k].check, checkid |-> instances[k].checkid,
              family |-> instances[k].family \cup (IF i \in instances[k].family THEN added ELSE {}) ]
      BY <1>2
    <2> QED
      BY <2>1
  <1>4. n + 1 \in Guarded' => m.mprec \in Positions(m)
    BY <1>1, <1>2 DEF Guarded, WellFormedMethod
  <1>5. ASSUME NEW k \in Guarded', NEW c \in CheckedAt(k)'
        PROVE  /\ k \in Guarded /\ c \in CheckedAt(k) /\ Condition(k)' = Condition(k)
               /\ ActedAt(k)' = ActedAt(k) /\ StartsAt(k)' = StartsAt(k)
               /\ Pending(k)' => Pending(k)
    <2>1. k \in 1 .. n
      BY <1>2, <1>4 DEF Guarded
    <2>2. k \in Guarded /\ Condition(k)' = Condition(k)
      BY <1>2, <1>3, <2>1 DEF Guarded, Condition
    <2>3. ActedAt(k)' = ActedAt(k) /\ StartsAt(k)' = StartsAt(k)
      BY <1>2, <2>1 DEF StartsAt
    <2>4. Pending(k)' => Pending(k)
      <3> SUFFICES ASSUME Pending(k)' PROVE Pending(k)
        OBVIOUS
      <3>1. PICK j \in Ids(net') : j \in instances'[k].family
        BY DEF Pending
      <3>2. instances[k].family \subseteq 0 .. net.nextID - 1
        BY <1>2, <2>1 DEF History
      <3>3. CASE j \in added
        <4>1. i \in instances[k].family
          BY <1>1, <1>3, <2>1, <3>1, <3>2, <3>3
        <4> QED
          BY <1>1, <4>1 DEF Pending
      <3>4. CASE j \notin added
        BY <1>1, <1>3, <2>1, <3>1, <3>4 DEF Pending
      <3> QED
        BY <3>3, <3>4
    <2> QED
      BY <1>2, <2>1, <2>2, <2>3, <2>4
  <1>6. ASSUME NEW k \in Guarded', NEW c \in CheckedAt(k)', NEW e, NEW j \in c .. e,
               e \in IF ActedAt(k)' # {} THEN StartsAt(k)'
                     ELSE IF Pending(k)' THEN {Len(trace') + 1} ELSE {}
        PROVE  Holds(Condition(k)', Before(j)')
    <2>1. e \in IF ActedAt(k) # {} THEN StartsAt(k)
                ELSE IF Pending(k) THEN {Len(trace) + 1} ELSE {}
      BY <1>2, <1>5, <1>6
    <2> QED
      BY <1>2, <1>5, <2>1 DEF HoldsThroughout
  <1> QED
    BY <1>6 DEF HoldsThroughout

---------------------------------------------------------------------------
\* A step that applies task i, whether a check task or a real action.
Applies(i) ==
  /\ ActionApplies(state, net, i) /\ Applied(i)
  /\ state' = IF IsReal(net, i) THEN NewState(state, net.gts[i].head) ELSE state
  /\ net' = AfterAction(net, i)

\* Every step applies a task or decomposes one.
LEMMA StepCases ==
  ASSUME TNext
  PROVE  \E i \in Free(net) :
           \/ Applies(i)
           \/ IsCompound(net, i) /\ \E m \in MethodDefs[net.gts[i].head] : TDecompose(i, m)
  <1>1. \A i : TRunCheck(i) => Applies(i)
    BY DEF TRunCheck, RunCheck, Applies
  <1>2. \A i : TRunAction(i) => Applies(i)
    BY DEF TRunAction, RunAction, Applies
  <1> QED
    BY <1>1, <1>2 DEF TNext

\* The branches with a history are branches of the search.
LEMMA BranchesAreSearch == TSpec => [](Sound(net))
  <1>1. TInit => Init
    BY DEF TInit
  <1>2. [TNext]_tvars => [Next]_vars
    BY DEF TNext, Next, TRunCheck, TRunAction, TDecompose, tvars, vars
  <1>3. IInv => Sound(net)
    BY DEF IInv
  <1> QED
    BY <1>1, <1>2, <1>3, NetworkInvariant, PTL DEF TSpec, Spec

\* The empty history is true of the initial network.
LEMMA HistoryStarts ==
  ASSUME TInit
  PROVE  History /\ Ordered /\ Kept /\ HoldsAtStart /\ HoldsThroughout
  <1>1. trace = <<>> /\ instances = <<>> /\ net.checks = <<>>
    BY DEF TInit, Init, InitialNetwork
  <1>2. Guarded = {} /\ DOMAIN instances = {} /\ DOMAIN trace = {}
    BY <1>1 DEF Guarded
  <1>3. <<>> \in Seq({})
    BY EmptySeq
  <1>4. History
    BY <1>1, <1>2, <1>3 DEF History
  <1>5. DOMAIN net.checks = 1 .. Cardinality(Guarded)
    BY <1>1, <1>2, FS_EmptySet
  <1> QED
    BY <1>2, <1>4, <1>5 DEF Ordered, Kept, Carried, Told, Fresh, HoldsAtStart, HoldsThroughout

\* On every branch, in every mode, the history tells which tasks wait: until the
\* check task of a method has run, all that arises from the method waits for it.
THEOREM HistoryInvariant == TSpec => [](History /\ Ordered)
  <1>1. TInit => History /\ Ordered
    BY HistoryStarts
  <1>2. Sound(net) /\ History /\ Ordered /\ [TNext]_tvars => (History /\ Ordered)'
    <2> SUFFICES ASSUME Sound(net), History, Ordered, [TNext]_tvars PROVE History' /\ Ordered'
      OBVIOUS
    <2>1. \A i : IsReal(net, i) \in BOOLEAN
      BY DEF IsReal
    <2>2. ASSUME NEW i \in Free(net), Applies(i) PROVE History' /\ Ordered'
      BY <2>1, <2>2, AppliedOrdered DEF Applies
    <2>3. ASSUME NEW i \in Free(net), IsCompound(net, i),
                 NEW m \in MethodDefs[net.gts[i].head], TDecompose(i, m)
          PROVE  History' /\ Ordered'
      BY <2>3, DecomposedOrdered
    <2>4. CASE UNCHANGED tvars
      <3>1. /\ state' = state /\ net' = net /\ trace' = trace /\ instances' = instances
        BY <2>4 DEF tvars
      <3>2. Guarded' = Guarded
        BY <3>1 DEF Guarded
      <3>3. \A k : Condition(k)' = Condition(k) /\ CheckedAt(k)' = CheckedAt(k) /\ ActedAt(k)' = ActedAt(k)
                  /\ Before(k)' = Before(k)
        BY <3>1 DEF Condition, CheckedAt, ActedAt, Before
      <3>4. \A k : Waits(k)' = Waits(k) /\ Passed(k)' = Passed(k)
        BY <3>1, <3>3 DEF Waits, Passed
      <3> QED
        BY <3>1, <3>2, <3>4 DEF History, Ordered
    <2> QED
      BY <2>2, <2>3, <2>4, StepCases
  <1> QED
    BY <1>1, <1>2, BranchesAreSearch, PTL DEF TSpec

\* In every mode, a method's first real action comes after its precondition was
\* checked and held (CheckedBeforeStart): no step can overtake the check task.
THEOREM CheckComesFirst == TSpec => []CheckedBeforeStart
  <1>1. History /\ Ordered => CheckedBeforeStart
    <2> SUFFICES ASSUME History, Ordered, NEW k \in Guarded, NEW j \in StartsAt(k)
                 PROVE  \E c \in CheckedAt(k) : c < j /\ Holds(Condition(k), Before(c))
      BY DEF CheckedBeforeStart
    <2>1. j \in ActedAt(k)
      BY DEF StartsAt
    <2>2. Passed(k)
      BY <2>1 DEF Ordered, Waits
    <2> QED
      BY <2>1, <2>2 DEF Passed
  <1> QED
    BY <1>1, HistoryInvariant, PTL

\* The planner's checks, unless it reads preconditions as compiled, are what it
\* keeps of the history: one for each method decomposed, carried by what arises
\* from the method, established and consumed as it happened.
THEOREM ChecksInvariant ==
  ASSUME Mode # "compiled" PROVE TSpec => [](Kept /\ HoldsAtStart)
  <1>1. TInit => Kept /\ HoldsAtStart
    BY HistoryStarts
  <1>2. Sound(net) /\ History /\ Ordered /\ Kept /\ HoldsAtStart /\ [TNext]_tvars
          => (Kept /\ HoldsAtStart)'
    <2> SUFFICES ASSUME Sound(net), History, Ordered, Kept, HoldsAtStart, [TNext]_tvars
                 PROVE  Kept' /\ HoldsAtStart'
      OBVIOUS
    <2>1. \A i : IsReal(net, i) \in BOOLEAN
      BY DEF IsReal
    <2>2. ASSUME NEW i \in Free(net), Applies(i) PROVE Kept' /\ HoldsAtStart'
      BY <2>1, <2>2, AppliedKept, AppliedAtStart DEF Applies
    <2>3. ASSUME NEW i \in Free(net), IsCompound(net, i),
                 NEW m \in MethodDefs[net.gts[i].head], TDecompose(i, m)
          PROVE  Kept' /\ HoldsAtStart'
      BY <2>3, DecomposedKept, DecomposedAtStart
    <2>4. CASE UNCHANGED tvars
      <3>1. /\ state' = state /\ net' = net /\ trace' = trace /\ instances' = instances
        BY <2>4 DEF tvars
      <3>2. Guarded' = Guarded
        BY <3>1 DEF Guarded
      <3>3. \A k : Condition(k)' = Condition(k) /\ CheckedAt(k)' = CheckedAt(k) /\ ActedAt(k)' = ActedAt(k)
                  /\ Before(k)' = Before(k)
        BY <3>1 DEF Condition, CheckedAt, ActedAt, Before
      <3>4. \A k : Ord(k)' = Ord(k) /\ StartsAt(k)' = StartsAt(k)
        BY <3>2, <3>3 DEF Ord, StartsAt
      <3> QED
        BY <3>1, <3>2, <3>3, <3>4 DEF Kept, Carried, Told, Fresh, HoldsAtStart
    <2> QED
      BY <2>2, <2>3, <2>4, StepCases
  <1> QED
    BY <1>1, <1>2, BranchesAreSearch, HistoryInvariant, PTL DEF TSpec

\* at_start, and protected with it: the precondition of a method is true in the
\* state its first real action runs in, however checks were skipped as fresh.
THEOREM StartsWhereItHolds ==
  ASSUME Mode # "compiled" PROVE TSpec => []HoldsAtStart
  BY ChecksInvariant, PTL

\* established and consumed are never out of step with what the branch has done.
THEOREM ChecksTell ==
  ASSUME Mode # "compiled" PROVE TSpec => []ChecksTellHistory
  <1>1. Kept => ChecksTellHistory
    BY DEF Kept, Told, Ord, ChecksTellHistory
  <1> QED
    BY <1>1, ChecksInvariant, PTL

\* protected: from its check to the method's first real action, or to now, no real
\* action of any method makes a precondition false.
THEOREM LinksAreProtected ==
  ASSUME Mode = "protected" PROVE TSpec => []HoldsThroughout
  <1>1. TInit => HoldsThroughout
    BY HistoryStarts
  <1>2. Sound(net) /\ History /\ Ordered /\ Kept /\ Kept' /\ HoldsThroughout /\ [TNext]_tvars
          => HoldsThroughout'
    <2> SUFFICES ASSUME Sound(net), History, Ordered, Kept, Kept', HoldsThroughout, [TNext]_tvars
                 PROVE  HoldsThroughout'
      OBVIOUS
    <2>1. \A i : IsReal(net, i) \in BOOLEAN
      BY DEF IsReal
    <2>2. ASSUME NEW i \in Free(net), Applies(i) PROVE HoldsThroughout'
      BY <2>1, <2>2, AppliedThroughout DEF Applies
    <2>3. ASSUME NEW i \in Free(net), IsCompound(net, i),
                 NEW m \in MethodDefs[net.gts[i].head], TDecompose(i, m)
          PROVE  HoldsThroughout'
      BY <2>3, DecomposedThroughout
    <2>4. CASE UNCHANGED tvars
      <3>1. /\ state' = state /\ net' = net /\ trace' = trace /\ instances' = instances
        BY <2>4 DEF tvars
      <3>2. Guarded' = Guarded
        BY <3>1 DEF Guarded
      <3>3. \A k : Condition(k)' = Condition(k) /\ CheckedAt(k)' = CheckedAt(k) /\ ActedAt(k)' = ActedAt(k)
                  /\ Before(k)' = Before(k) /\ Pending(k)' = Pending(k)
        BY <3>1 DEF Condition, CheckedAt, ActedAt, Before, Pending
      <3>4. \A k : StartsAt(k)' = StartsAt(k)
        BY <3>3 DEF StartsAt
      <3> QED
        BY <3>1, <3>2, <3>3, <3>4 DEF HoldsThroughout
    <2> QED
      BY <2>2, <2>3, <2>4, StepCases
  <1>3. TSpec => []Kept
    <2>1. Mode # "compiled"
      OBVIOUS
    <2>2. TSpec => [](Kept /\ HoldsAtStart)
      BY <2>1, ChecksInvariant
    <2> QED
      BY <2>2, PTL
  <1> QED
    BY <1>1, <1>2, <1>3, BranchesAreSearch, HistoryInvariant, PTL DEF TSpec

=============================================================================
