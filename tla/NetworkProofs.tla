--------------------------- MODULE NetworkProofs ---------------------------
(***************************************************************************)
(* Lemmas on what removing a task and grounding a method do to a task      *)
(* network, whatever the domain: its bookkeeping stays consistent, its     *)
(* edges stay mirrored and its orderings get no cycle.                     *)
(***************************************************************************)
EXTENDS HtnDomain, SequenceTheorems, FiniteSetTheorems, WellFoundedInduction, TLAPS

Heads == Actions \cup Compound

\* A network as it is on every branch. Each part needs the others: removing a task keeps
\* edges inside the network only because they are mirrored.
Sound(n) == IsNetwork(n, Heads) /\ Mirrored(n) /\ Acyclic(n)

---------------------------------------------------------------------------
\* A function on 1 .. k is a sequence.
LEMMA FunctionIsSeq ==
  ASSUME NEW S, NEW k \in Nat, NEW s \in [1 .. k -> S]
  PROVE  s \in Seq(S)
  BY SeqDef

\* The initial network is sound.
LEMMA InitialSound ==
  ASSUME NEW head \in Heads
  PROVE  Sound(InitialNetwork(head))
  BY DEF Sound, IsNetwork, Mirrored, Acyclic, InitialNetwork, Ids

\* Removing an unconstrained task keeps a network sound, and leaves none of the
\* task's successors' edges or its own behind.
LEMMA RemoveNodeSound ==
  ASSUME NEW n, Sound(n), NEW i \in Free(n)
  PROVE  /\ Sound(RemoveNode(n, i))
         /\ Ids(RemoveNode(n, i)) = Ids(n) \ {i}
         /\ RemoveNode(n, i).nextID = n.nextID
         /\ RemoveNode(n, i).checks = n.checks
         /\ RemoveNode(n, i).step = n.step
         /\ n.gts[i].outgoing \subseteq Ids(n) \ {i}
<1> DEFINE r == RemoveNode(n, i)
<1>1. IsNetwork(n, Heads) /\ Mirrored(n) /\ Acyclic(n)
  BY DEF Sound
<1>2. i \in Ids(n) /\ n.gts[i].incoming = {}
  BY DEF Free
<1>3. /\ r.gts = [j \in Ids(n) \ {i} |-> Forget(n, i, j)]
      /\ r.tags = [j \in DOMAIN n.tags \ {i} |-> n.tags[j]]
      /\ r.nextID = n.nextID /\ r.checks = n.checks /\ r.step = n.step
      /\ r = [gts |-> r.gts, nextID |-> r.nextID, checks |-> r.checks, tags |-> r.tags, step |-> r.step]
  BY DEF RemoveNode, WithTasks
<1>4. Ids(r) = Ids(n) \ {i}
  BY <1>3 DEF Ids
<1>5. n.gts[i].outgoing \subseteq Ids(n) \ {i}
  BY <1>1, <1>2 DEF IsNetwork, Mirrored
<1>6. \A j \in Ids(n) \ {i} :
        /\ Forget(n, i, j).incoming = n.gts[j].incoming \ {i}
        /\ Forget(n, i, j).outgoing = n.gts[j].outgoing
  BY <1>1, <1>2 DEF Mirrored, Forget
<1>7. IsNetwork(r, Heads)
  <2>1. \A j \in Ids(n) \ {i} :
          Forget(n, i, j) \in [head : Heads, incoming : SUBSET (Ids(n) \ {i}), outgoing : SUBSET (Ids(n) \ {i})]
    BY <1>1, <1>2, <1>6 DEF IsNetwork, Mirrored, Forget
  <2>2. r.gts \in [Ids(r) -> [head : Heads, incoming : SUBSET Ids(r), outgoing : SUBSET Ids(r)]]
    BY <1>3, <1>4, <2>1
  <2>3. r.tags \in [DOMAIN r.tags -> [checks : SUBSET DOMAIN r.checks, establishes : {0} \cup DOMAIN r.checks]]
    BY <1>1, <1>3 DEF IsNetwork
  <2> QED
    BY <1>1, <1>3, <1>4, <2>2, <2>3 DEF IsNetwork
<1>8. Mirrored(r)
  BY <1>1, <1>3, <1>4, <1>6 DEF Mirrored
<1>9. Acyclic(r)
  <2> SUFFICES ASSUME NEW S \in SUBSET Ids(r), S # {}
               PROVE  \E j \in S : r.gts[j].incoming \cap S = {}
    BY DEF Acyclic
  <2>1. PICK j \in S : n.gts[j].incoming \cap S = {}
    BY <1>1, <1>4 DEF Acyclic
  <2> QED
    BY <2>1, <1>3, <1>4, <1>6
<1> QED
  BY <1>3, <1>4, <1>5, <1>7, <1>8, <1>9 DEF Sound

\* Recording what a task did to the checks keeps a network sound.
LEMMA RecordSound ==
  ASSUME NEW n, Sound(n), NEW real \in BOOLEAN, NEW own,
         NEW establishes \in {0} \cup DOMAIN n.checks
  PROVE  /\ Sound(Record(n, real, own, establishes))
         /\ Record(n, real, own, establishes).nextID = n.nextID
<1> DEFINE r == Record(n, real, own, establishes)
           Check(s) == [action : Heads, established : BOOLEAN, consumed : BOOLEAN,
                        established_at : 0 .. s]
           used == IF real THEN own ELSE {}
           passed == IF real THEN 0 ELSE establishes
<1>1. IsNetwork(n, Heads) /\ Mirrored(n) /\ Acyclic(n)
  BY DEF Sound
<1>2. n.checks \in Seq(Check(n.step)) /\ n.step \in Nat
  BY <1>1 DEF IsNetwork
<1>3. /\ r.gts = n.gts /\ r.tags = n.tags /\ r.nextID = n.nextID
      /\ r.step = IF real THEN n.step + 1 ELSE n.step
      /\ r.checks = [k \in DOMAIN n.checks |-> Marked(n, k, used, passed)]
      /\ r = [gts |-> r.gts, nextID |-> r.nextID, checks |-> r.checks, tags |-> r.tags, step |-> r.step]
  BY DEF Record
<1>4. r.step \in Nat /\ 0 .. n.step \subseteq 0 .. r.step /\ n.step \in 0 .. r.step
  BY <1>2, <1>3
<1>5. r.checks \in Seq(Check(r.step)) /\ DOMAIN r.checks = DOMAIN n.checks
  <2> DEFINE N == 1 .. Len(n.checks)
  <2>1. DOMAIN n.checks = N /\ Len(n.checks) \in Nat
    BY <1>2
  <2>2. ASSUME NEW k \in N
        PROVE  Marked(n, k, used, passed) \in Check(r.step)
    <3>1. n.checks[k] \in Check(n.step)
      <4> HIDE DEF Check
      <4> QED BY <1>2, ElementOfSeq
    <3>2. Marked(n, k, used, passed).action \in Heads
      BY <3>1 DEF Marked
    <3>3. Marked(n, k, used, passed).established_at \in 0 .. r.step
      BY <3>1, <1>4 DEF Marked
    <3>4. /\ (n.checks[k].established \/ k = passed) \in BOOLEAN
          /\ (n.checks[k].consumed \/ k \in used) \in BOOLEAN
      OBVIOUS
    <3> QED
      BY <3>2, <3>3, <3>4 DEF Marked
  <2>3. r.checks \in [N -> Check(r.step)]
    BY <1>3, <2>1, <2>2
  <2>4. DOMAIN r.checks = N
    BY <2>3
  <2> HIDE DEF Check, r, N
  <2>5. r.checks \in Seq(Check(r.step))
    BY <2>1, <2>3, FunctionIsSeq DEF N
  <2> QED
    BY <2>1, <2>4, <2>5
<1>6. IsNetwork(r, Heads)
  BY <1>1, <1>3, <1>4, <1>5 DEF IsNetwork, Ids
<1>7. Mirrored(r) /\ Acyclic(r)
  BY <1>1, <1>3 DEF Mirrored, Acyclic, Ids
<1> QED
  BY <1>3, <1>6, <1>7 DEF Sound
---------------------------------------------------------------------------
(***************************************************************************)
(* Grounding. The new ids lie above every id in use, so an edge is between *)
(* two new tasks, from a new task to an old one, or as it was.             *)
(***************************************************************************)

LEMMA NewIDs ==
  ASSUME NEW n, n.nextID \in Nat, Ids(n) \subseteq 0 .. n.nextID - 1,
         NEW m, m.subtasks \in Seq(Heads)
  PROVE  /\ AddedTIDs(m, n) \cap Ids(n) = {}
         /\ AddedTIDs(m, n) \subseteq 0 .. n.nextID + Len(m.subtasks) - 1
         /\ Ids(n) \subseteq 0 .. n.nextID + Len(m.subtasks) - 1
         /\ n.nextID + Len(m.subtasks) \in Nat
         /\ \A p \in Positions(m) : SubtaskID(n, p) - n.nextID + 1 = p
         /\ \A j \in AddedTIDs(m, n) : /\ j - n.nextID + 1 \in Positions(m)
                                       /\ SubtaskID(n, j - n.nextID + 1) = j
<1>1. Len(m.subtasks) \in Nat
  BY LenProperties
<1>2. \A p \in Positions(m) : p \in Nat /\ 1 <= p /\ p <= Len(m.subtasks)
  BY <1>1 DEF Positions
<1>3. \A j \in AddedTIDs(m, n) :
        /\ j \in Nat /\ n.nextID <= j /\ j < n.nextID + Len(m.subtasks)
        /\ j - n.nextID + 1 \in Positions(m)
        /\ SubtaskID(n, j - n.nextID + 1) = j
  BY <1>1, <1>2 DEF AddedTIDs, SubtaskID
<1>4. \A i \in Ids(n) : i \in Nat /\ i < n.nextID
  OBVIOUS
<1>5. \A p \in Positions(m) : SubtaskID(n, p) - n.nextID + 1 = p
  BY <1>2 DEF SubtaskID
<1> QED
  BY <1>1, <1>3, <1>4, <1>5

LEMMA ApplyBindingSound ==
  ASSUME NEW n, Sound(n), NEW m, WellFormedMethod(m), NEW out \in SUBSET Ids(n),
         NEW inherited \in SUBSET DOMAIN n.checks, NEW mode
  PROVE  /\ Sound(ApplyBinding(m, n, out, inherited, mode))
         /\ ApplyBinding(m, n, out, inherited, mode).nextID = n.nextID + Len(m.subtasks)
<1> DEFINE r       == ApplyBinding(m, n, out, inherited, mode)
           new     == AddedTIDs(m, n)
           pos(j)  == j - n.nextID + 1
           own     == IF Records(m, mode) THEN Len(n.checks) + 1 ELSE 0
           carried == inherited \cup ({own} \ {0})
           tagged  == IF mode # "compiled" /\ carried # {} THEN new ELSE {}
           tag(p)  == [checks |-> carried, establishes |-> IF p = m.mprec THEN own ELSE 0]
           tasks   == [j \in Ids(n) \cup new |->
                         IF j \in new THEN NewTask(m, n, out, pos(j)) ELSE OldTask(m, n, out, j)]
<1>1. IsNetwork(n, Heads) /\ Mirrored(n) /\ Acyclic(n)
  BY DEF Sound
<1>2. /\ m.subtasks \in Seq(Heads)
      /\ m.orderings \subseteq Positions(m) \X Positions(m)
      /\ \A S \in SUBSET Positions(m) : S # {} => \E p \in S : \A q \in S : <<q, p>> \notin m.orderings
      /\ m.mprec # 0 => m.subtasks[m.mprec] \in Heads
  BY DEF WellFormedMethod, Heads
<1>3. n.nextID \in Nat /\ Ids(n) \subseteq 0 .. n.nextID - 1
  BY <1>1 DEF IsNetwork
<1>4. /\ new \cap Ids(n) = {}
      /\ n.nextID + Len(m.subtasks) \in Nat
      /\ Ids(n) \cup new \subseteq 0 .. n.nextID + Len(m.subtasks) - 1
      /\ \A p \in Positions(m) : pos(SubtaskID(n, p)) = p
      /\ \A j \in new : pos(j) \in Positions(m) /\ SubtaskID(n, pos(j)) = j
  BY <1>2, <1>3, NewIDs
<1>5. \A p \in Positions(m) : SubtaskID(n, p) \in new
  BY DEF AddedTIDs
<1>6. Tails(m) \subseteq Positions(m)
  BY DEF Tails
<1>7. /\ r.gts = tasks
      /\ r.nextID = n.nextID + Len(m.subtasks)
      /\ r.checks = IF Records(m, mode) THEN Append(n.checks, NewCheck(m.subtasks[m.mprec]))
                                        ELSE n.checks
      /\ r.tags = [j \in DOMAIN n.tags \cup tagged |->
                     IF j \in tagged THEN tag(pos(j)) ELSE n.tags[j]]
      /\ r.step = n.step
      /\ r = [gts |-> r.gts, nextID |-> r.nextID, checks |-> r.checks, tags |-> r.tags, step |-> r.step]
  BY DEF ApplyBinding
<1>8. Ids(r) = Ids(n) \cup new
  BY <1>7 DEF Ids
<1>9. \A i \in Ids(n) : /\ r.gts[i].head = n.gts[i].head
                        /\ r.gts[i].outgoing = n.gts[i].outgoing
                        /\ r.gts[i].incoming =
                             n.gts[i].incoming \cup
                               (IF i \in out THEN {SubtaskID(n, p) : p \in Tails(m)} ELSE {})
  <2>1. \A i \in Ids(n) : r.gts[i] = OldTask(m, n, out, i)
    BY <1>4, <1>7
  <2>2. \A i \in Ids(n) : n.gts[i] \in [head : Heads, incoming : SUBSET Ids(n), outgoing : SUBSET Ids(n)]
    BY <1>1 DEF IsNetwork
  <2> QED
    BY <2>1, <2>2 DEF OldTask
<1>10. \A p \in Positions(m) :
         r.gts[SubtaskID(n, p)] = NewTask(m, n, out, p)
  BY <1>4, <1>5, <1>7
<1>11. ASSUME NEW p \in Positions(m)
       PROVE  /\ r.gts[SubtaskID(n, p)].incoming = Predecessors(m, n, p)
              /\ r.gts[SubtaskID(n, p)].outgoing =
                   Successors(m, n, p) \cup (IF p \in Tails(m) THEN out ELSE {})
  <2>1. r.gts[SubtaskID(n, p)] = NewTask(m, n, out, p)
    BY <1>10
  <2>2. /\ NewTask(m, n, out, p).incoming = Predecessors(m, n, p)
        /\ NewTask(m, n, out, p).outgoing =
             Successors(m, n, p) \cup (IF p \in Tails(m) THEN out ELSE {})
    BY DEF NewTask
  <2> HIDE DEF r
  <2> QED
    BY <2>1, <2>2
<1>12. ASSUME NEW p \in Positions(m), NEW q \in Positions(m)
       PROVE  /\ SubtaskID(n, q) \in Predecessors(m, n, p) <=> <<q, p>> \in m.orderings
              /\ SubtaskID(n, q) \in Successors(m, n, p) <=> <<p, q>> \in m.orderings
  <2>1. \A s \in Positions(m) : SubtaskID(n, s) = SubtaskID(n, q) => s = q
    BY <1>4
  <2> QED
    BY <2>1 DEF Predecessors, Successors
<1>13. ASSUME NEW p \in Positions(m)
       PROVE  Predecessors(m, n, p) \subseteq new /\ Successors(m, n, p) \subseteq new
  BY <1>5 DEF Predecessors, Successors
<1>14. r.gts \in [Ids(r) -> [head : Heads, incoming : SUBSET Ids(r), outgoing : SUBSET Ids(r)]]
  <2>1. ASSUME NEW i \in Ids(n)
        PROVE  r.gts[i] \in [head : Heads, incoming : SUBSET Ids(r), outgoing : SUBSET Ids(r)]
    <3>1. n.gts[i] \in [head : Heads, incoming : SUBSET Ids(n), outgoing : SUBSET Ids(n)]
      BY <1>1 DEF IsNetwork
    <3>2. {SubtaskID(n, p) : p \in Tails(m)} \subseteq new
      BY <1>5, <1>6
    <3>3. OldTask(m, n, out, i) \in [head : Heads, incoming : SUBSET Ids(r), outgoing : SUBSET Ids(r)]
      BY <3>1, <3>2, <1>8 DEF OldTask
    <3> QED
      BY <1>4, <1>7, <3>3
  <2>2. ASSUME NEW j \in new
        PROVE  r.gts[j] \in [head : Heads, incoming : SUBSET Ids(r), outgoing : SUBSET Ids(r)]
    <3>1. PICK p \in Positions(m) : j = SubtaskID(n, p)
      BY DEF AddedTIDs
    <3>2. m.subtasks[p] \in Heads
      BY <1>2, ElementOfSeq DEF Positions
    <3>3. NewTask(m, n, out, p) \in [head : Heads, incoming : SUBSET Ids(r), outgoing : SUBSET Ids(r)]
      BY <3>1, <3>2, <1>8, <1>13 DEF NewTask
    <3> QED
      BY <3>1, <3>3, <1>10
  <2> QED
    BY <1>7, <1>8, <2>1, <2>2
<1>15. /\ r.checks \in Seq([action : Heads, established : BOOLEAN, consumed : BOOLEAN,
                            established_at : 0 .. r.step])
       /\ DOMAIN n.checks \subseteq DOMAIN r.checks
       /\ own \in {0} \cup DOMAIN r.checks
  <2> DEFINE Check == [action : Heads, established : BOOLEAN, consumed : BOOLEAN,
                       established_at : 0 .. n.step]
  <2>1. n.checks \in Seq(Check) /\ n.step \in Nat
    BY <1>1 DEF IsNetwork
  <2>2. Records(m, mode) => NewCheck(m.subtasks[m.mprec]) \in Check
    BY <1>2, <2>1 DEF Records, NewCheck
  <2> HIDE DEF Check
  <2>3. CASE Records(m, mode)
    <3>1. r.checks = Append(n.checks, NewCheck(m.subtasks[m.mprec]))
      BY <1>7, <2>3
    <3>2. /\ r.checks \in Seq(Check) /\ Len(r.checks) = Len(n.checks) + 1
      BY <2>1, <2>2, <2>3, <3>1, AppendProperties
    <3>3. DOMAIN n.checks = 1 .. Len(n.checks) /\ DOMAIN r.checks = 1 .. Len(n.checks) + 1
          /\ Len(n.checks) \in Nat
      BY <2>1, <3>2, LenProperties
    <3> QED
      BY <1>7, <2>3, <3>2, <3>3 DEF Check
  <2>4. CASE ~ Records(m, mode)
    BY <1>7, <2>1, <2>4 DEF Check
  <2> QED
    BY <2>3, <2>4
<1>16. /\ DOMAIN r.tags \subseteq Ids(r)
       /\ r.tags \in [DOMAIN r.tags -> [ checks : SUBSET DOMAIN r.checks,
                                         establishes : {0} \cup DOMAIN r.checks ]]
  <2>1. carried \subseteq DOMAIN r.checks
    BY <1>15
  <2>2. tagged \subseteq new
    OBVIOUS
  <2>3. \A j \in tagged : tag(pos(j)) \in [ checks : SUBSET DOMAIN r.checks,
                                            establishes : {0} \cup DOMAIN r.checks ]
    BY <1>15, <2>1
  <2>4. \A j \in DOMAIN n.tags : n.tags[j] \in [ checks : SUBSET DOMAIN r.checks,
                                                  establishes : {0} \cup DOMAIN r.checks ]
    BY <1>1, <1>15 DEF IsNetwork
  <2>5. DOMAIN n.tags \subseteq Ids(n)
    BY <1>1 DEF IsNetwork
  <2> HIDE DEF tag, tagged, carried, own, pos
  <2> QED
    BY <1>7, <1>8, <2>2, <2>3, <2>4, <2>5
<1>17. IsNetwork(r, Heads)
  <2>1. Ids(r) \subseteq 0 .. r.nextID - 1 /\ r.nextID \in Nat /\ r.step \in Nat
    BY <1>1, <1>4, <1>7, <1>8 DEF IsNetwork
  <2> HIDE DEF r
  <2> QED
    BY <1>7, <1>14, <1>15, <1>16, <2>1 DEF IsNetwork
<1> HIDE DEF r, tasks, pos, own, carried, tagged, tag
<1>18. Mirrored(r)
  <2> SUFFICES ASSUME NEW i \in Ids(r), NEW j \in Ids(r)
               PROVE  j \in r.gts[i].outgoing <=> i \in r.gts[j].incoming
    BY DEF Mirrored
  <2>1. \A k \in Ids(n) : n.gts[k].incoming \subseteq Ids(n) /\ n.gts[k].outgoing \subseteq Ids(n)
    BY <1>1 DEF IsNetwork
  <2>2. CASE i \in Ids(n) /\ j \in Ids(n)
    <3>1. i \notin {SubtaskID(n, p) : p \in Tails(m)}
      BY <1>4, <1>5, <1>6, <2>2
    <3> QED
      BY <1>1, <1>9, <2>2, <3>1 DEF Mirrored
  <2>3. CASE i \in Ids(n) /\ j \in new
    <3>1. PICK q \in Positions(m) : j = SubtaskID(n, q)
      BY <2>3 DEF AddedTIDs
    <3>2. j \notin r.gts[i].outgoing
      BY <1>4, <1>9, <2>1, <2>3
    <3>3. r.gts[j].incoming \subseteq new
      BY <1>11, <1>13, <3>1
    <3> QED
      BY <1>4, <2>3, <3>2, <3>3
  <2>4. CASE i \in new /\ j \in Ids(n)
    <3>1. PICK p \in Positions(m) : i = SubtaskID(n, p)
      BY <2>4 DEF AddedTIDs
    <3>2. j \in r.gts[i].outgoing <=> p \in Tails(m) /\ j \in out
      BY <1>4, <1>11, <1>13, <2>4, <3>1
    <3>3. i \in r.gts[j].incoming <=> j \in out /\ i \in {SubtaskID(n, q) : q \in Tails(m)}
      BY <1>4, <1>9, <2>1, <2>4
    <3>4. i \in {SubtaskID(n, q) : q \in Tails(m)} <=> p \in Tails(m)
      BY <1>4, <1>6, <3>1
    <3> QED
      BY <3>2, <3>3, <3>4
  <2>5. CASE i \in new /\ j \in new
    <3>1. PICK p \in Positions(m) : i = SubtaskID(n, p)
      BY <2>5 DEF AddedTIDs
    <3>2. PICK q \in Positions(m) : j = SubtaskID(n, q)
      BY <2>5 DEF AddedTIDs
    <3>3. j \in r.gts[i].outgoing <=> <<p, q>> \in m.orderings
      <4>1. j \notin out
        BY <1>4, <2>5
      <4> QED
        BY <1>11, <1>12, <3>1, <3>2, <4>1
    <3>4. i \in r.gts[j].incoming <=> <<p, q>> \in m.orderings
      BY <1>11, <1>12, <3>1, <3>2
    <3> QED
      BY <3>3, <3>4
  <2> QED
    BY <1>8, <2>2, <2>3, <2>4, <2>5
<1>19. Acyclic(r)
  <2> SUFFICES ASSUME NEW S \in SUBSET Ids(r), S # {}
               PROVE  \E i \in S : r.gts[i].incoming \cap S = {}
    BY DEF Acyclic
  <2>1. CASE S \cap new # {}
    <3> DEFINE P == {p \in Positions(m) : SubtaskID(n, p) \in S}
    <3>1. P # {} /\ P \in SUBSET Positions(m)
      BY <2>1 DEF AddedTIDs
    <3>2. PICK p \in P : \A q \in P : <<q, p>> \notin m.orderings
      BY <1>2, <3>1
    <3>3. Predecessors(m, n, p) \cap S = {}
      BY <3>2 DEF Predecessors
    <3>4. r.gts[SubtaskID(n, p)].incoming \cap S = {}
      BY <1>11, <3>2, <3>3
    <3> QED
      BY <3>2, <3>4
  <2>2. CASE S \cap new = {}
    <3>1. S \in SUBSET Ids(n)
      BY <1>8, <2>2
    <3>2. PICK i \in S : n.gts[i].incoming \cap S = {}
      BY <1>1, <3>1 DEF Acyclic
    <3>3. {SubtaskID(n, p) : p \in Tails(m)} \cap S = {}
      BY <1>5, <1>6, <2>2
    <3> QED
      BY <1>9, <3>1, <3>2, <3>3
  <2> QED
    BY <2>1, <2>2
<1> QED
  BY <1>7, <1>17, <1>18, <1>19 DEF Sound, r

---------------------------------------------------------------------------
\* Decomposing an unconstrained task by a method the loader accepts keeps a
\* network sound, and only raises the next id.
LEMMA GroundSound ==
  ASSUME NEW n, Sound(n), NEW i \in Free(n), NEW m, WellFormedMethod(m), NEW mode
  PROVE  /\ Sound(Ground(m, n, i, mode))
         /\ Ground(m, n, i, mode).nextID \in Nat
         /\ n.nextID <= Ground(m, n, i, mode).nextID
<1> DEFINE r == RemoveNode(n, i)
<1>1. /\ Sound(r)
      /\ Ids(r) = Ids(n) \ {i}
      /\ r.nextID = n.nextID
      /\ r.checks = n.checks
      /\ n.gts[i].outgoing \subseteq Ids(n) \ {i}
  BY RemoveNodeSound
<1>2. n.gts[i].outgoing \in SUBSET Ids(r)
  BY <1>1
<1>3. checks_of(n, i) \in SUBSET DOMAIN r.checks
  <2>1. n.tags \in [DOMAIN n.tags -> [ checks : SUBSET DOMAIN n.checks,
                                       establishes : {0} \cup DOMAIN n.checks ]]
    BY DEF Sound, IsNetwork
  <2> QED
    BY <1>1, <2>1 DEF checks_of
<1>4. Len(m.subtasks) \in Nat /\ n.nextID \in Nat
  BY LenProperties DEF WellFormedMethod, Sound, IsNetwork
<1> HIDE DEF r
<1>5. /\ Sound(ApplyBinding(m, r, n.gts[i].outgoing, checks_of(n, i), mode))
      /\ ApplyBinding(m, r, n.gts[i].outgoing, checks_of(n, i), mode).nextID
           = r.nextID + Len(m.subtasks)
  BY <1>1, <1>2, <1>3, ApplyBindingSound
<1>6. Ground(m, n, i, mode) = ApplyBinding(m, r, n.gts[i].outgoing, checks_of(n, i), mode)
  BY DEF Ground, r
<1> QED
  BY <1>1, <1>4, <1>5, <1>6

\* So does applying and removing an action, and the next id stays.
LEMMA AfterActionSound ==
  ASSUME NEW n, Sound(n), NEW i \in Free(n), IsReal(n, i) \in BOOLEAN
  PROVE  Sound(AfterAction(n, i)) /\ AfterAction(n, i).nextID = n.nextID
<1> DEFINE r == RemoveNode(n, i)
<1>1. Sound(r) /\ r.nextID = n.nextID /\ r.checks = n.checks
  BY RemoveNodeSound
<1>2. establishes_of(n, i) \in {0} \cup DOMAIN r.checks
  <2>1. n.tags \in [DOMAIN n.tags -> [ checks : SUBSET DOMAIN n.checks,
                                       establishes : {0} \cup DOMAIN n.checks ]]
    BY DEF Sound, IsNetwork
  <2> QED
    BY <1>1, <2>1 DEF establishes_of
<1> DEFINE q == Record(r, IsReal(n, i), checks_of(n, i), establishes_of(n, i))
<1>3. AfterAction(n, i) = IF Mode = "compiled" THEN r ELSE q
  BY DEF AfterAction
<1> HIDE DEF r
<1>4. Sound(q) /\ q.nextID = r.nextID
  BY <1>1, <1>2, RecordSound
<1> HIDE DEF q
<1> QED
  BY <1>1, <1>3, <1>4

---------------------------------------------------------------------------
\* Applying a task: the others keep their heads, their tags and, but for an edge
\* from that task, what they wait for.
LEMMA AfterParts ==
  ASSUME NEW n, Sound(n), NEW i \in Free(n), IsReal(n, i) \in BOOLEAN, NEW r, r = AfterAction(n, i)
  PROVE  /\ Ids(r) = Ids(n) \ {i} /\ r.nextID = n.nextID
         /\ \A j \in Ids(r) : /\ r.gts[j].head = n.gts[j].head
                              /\ n.gts[j].incoming \ {i} \subseteq r.gts[j].incoming
                              /\ checks_of(r, j) = checks_of(n, j)
                              /\ establishes_of(r, j) = establishes_of(n, j)
  <1> DEFINE q == RemoveNode(n, i)
  <1>1. /\ q.gts = [j \in Ids(n) \ {i} |-> Forget(n, i, j)]
        /\ q.tags = [j \in DOMAIN n.tags \ {i} |-> n.tags[j]]
        /\ q.nextID = n.nextID
    BY DEF RemoveNode, WithTasks
  <1>2. r.gts = q.gts /\ r.tags = q.tags /\ r.nextID = q.nextID
    BY DEF AfterAction, Record
  <1>3. Ids(r) = Ids(n) \ {i}
    BY <1>1, <1>2 DEF Ids
  <1> HIDE DEF q
  <1>4. ASSUME NEW j \in Ids(r)
        PROVE  /\ r.gts[j].head = n.gts[j].head
               /\ n.gts[j].incoming \ {i} \subseteq r.gts[j].incoming
    BY <1>1, <1>2, <1>3 DEF Forget
  <1>5. ASSUME NEW j \in Ids(r)
        PROVE  checks_of(r, j) = checks_of(n, j) /\ establishes_of(r, j) = establishes_of(n, j)
    BY <1>1, <1>2, <1>3 DEF checks_of, establishes_of
  <1> QED
    BY <1>1, <1>2, <1>3, <1>4, <1>5

\* Decomposing a task: its subtasks wait as the method orders them; the others
\* keep their heads and, but for an edge from the decomposed task, what they wait for.
LEMMA GroundParts ==
  ASSUME NEW n, Sound(n), NEW i \in Free(n), NEW m, WellFormedMethod(m), NEW mode,
         NEW r, r = Ground(m, n, i, mode)
  PROVE  /\ Ids(r) = (Ids(n) \ {i}) \cup AddedTIDs(m, n)
         /\ r.nextID = n.nextID + Len(m.subtasks) /\ r.step = n.step
         /\ AddedTIDs(m, n) \cap (0 .. n.nextID - 1) = {}
         /\ AddedTIDs(m, n) \subseteq 0 .. r.nextID - 1
         /\ 0 .. n.nextID - 1 \subseteq 0 .. r.nextID - 1
         /\ \A j \in Ids(n) \ {i} : /\ r.gts[j].head = n.gts[j].head
                                    /\ n.gts[j].incoming \ {i} \subseteq r.gts[j].incoming
         /\ \A p \in Positions(m) : /\ r.gts[SubtaskID(n, p)].head = m.subtasks[p]
                                    /\ r.gts[SubtaskID(n, p)].incoming = Predecessors(m, n, p)
                                    /\ \A q \in Positions(m) : SubtaskID(n, p) = SubtaskID(n, q) => p = q
  <1> DEFINE b      == RemoveNode(n, i)
             new    == AddedTIDs(m, n)
             out    == n.gts[i].outgoing
             pos(j) == j - n.nextID + 1
  <1>1. IsNetwork(n, Heads) /\ Mirrored(n)
    BY DEF Sound
  <1>2. n.nextID \in Nat /\ Ids(n) \subseteq 0 .. n.nextID - 1 /\ m.subtasks \in Seq(Heads)
    BY <1>1 DEF IsNetwork, WellFormedMethod, Heads
  <1>3. Len(m.subtasks) \in Nat
    BY <1>2, LenProperties
  <1>4. /\ b.gts = [j \in Ids(n) \ {i} |-> Forget(n, i, j)] /\ b.nextID = n.nextID /\ b.step = n.step
    BY DEF RemoveNode, WithTasks
  <1>5. Ids(b) = Ids(n) \ {i}
    BY <1>4 DEF Ids
  <1>6. /\ AddedTIDs(m, b) = new
        /\ \A p \in Positions(m) : SubtaskID(b, p) = SubtaskID(n, p) /\ Predecessors(m, b, p) = Predecessors(m, n, p)
    BY <1>4 DEF AddedTIDs, SubtaskID, Predecessors
  <1> HIDE DEF b
  <1>7. /\ r.gts = [j \in Ids(b) \cup new |->
                      IF j \in new THEN NewTask(m, b, out, pos(j)) ELSE OldTask(m, b, out, j)]
        /\ r.nextID = n.nextID + Len(m.subtasks)
        /\ r.step = n.step
    BY <1>4, <1>6 DEF Ground, ApplyBinding, b
  <1>8. \A p \in Positions(m) : SubtaskID(n, p) \in new /\ pos(SubtaskID(n, p)) = p
    BY <1>2, <1>3 DEF AddedTIDs, SubtaskID, Positions
  <1>13. /\ new \cap (0 .. n.nextID - 1) = {}
         /\ new \subseteq 0 .. n.nextID + Len(m.subtasks) - 1
         /\ 0 .. n.nextID - 1 \subseteq 0 .. n.nextID + Len(m.subtasks) - 1
    BY <1>2, <1>3 DEF AddedTIDs, SubtaskID, Positions
  <1>9. Ids(r) = (Ids(n) \ {i}) \cup new
    BY <1>5, <1>7 DEF Ids
  <1>10. ASSUME NEW j \in Ids(n) \ {i}
         PROVE  /\ r.gts[j].head = n.gts[j].head
                /\ n.gts[j].incoming \ {i} \subseteq r.gts[j].incoming
    <2>1. r.gts[j] = OldTask(m, b, out, j)
      BY <1>2, <1>5, <1>7, <1>13
    <2>2. b.gts[j].head = n.gts[j].head /\ n.gts[j].incoming \ {i} \subseteq b.gts[j].incoming
      BY <1>4 DEF Forget
    <2>3. b.gts[j] = Forget(n, i, j)
      BY <1>4
    <2>4. /\ OldTask(m, b, out, j).head = b.gts[j].head
          /\ b.gts[j].incoming \subseteq OldTask(m, b, out, j).incoming
      BY <2>3 DEF OldTask, Forget
    <2> QED
      BY <2>1, <2>2, <2>4
  <1>11. ASSUME NEW p \in Positions(m)
         PROVE  /\ r.gts[SubtaskID(n, p)].head = m.subtasks[p]
                /\ r.gts[SubtaskID(n, p)].incoming = Predecessors(m, n, p)
    <2>1. r.gts[SubtaskID(n, p)] = NewTask(m, b, out, p)
      BY <1>7, <1>8
    <2> QED
      BY <1>6, <2>1 DEF NewTask
  <1>12. \A p \in Positions(m) : \A q \in Positions(m) : SubtaskID(n, p) = SubtaskID(n, q) => p = q
    BY <1>8
  <1> HIDE DEF new, pos
  <1>14. r.nextID = n.nextID + Len(m.subtasks) /\ r.step = n.step
    BY <1>7
  <1>15. /\ new \subseteq 0 .. r.nextID - 1
         /\ 0 .. n.nextID - 1 \subseteq 0 .. r.nextID - 1
    BY <1>2, <1>3, <1>13, <1>14
  <1> QED
    BY <1>9, <1>10, <1>11, <1>12, <1>13, <1>14, <1>15 DEF new

---------------------------------------------------------------------------
\* What expansion makes of a sound network is what the commit loop takes it to be
\* (ExpandAssumption of Search, of one task): the network of the child is sound, it
\* hands out ids from nextID on, and the tasks of the child are those of the node
\* without the decomposed one, and the subtasks.
THEOREM SuccessorsAreFresh ==
  ASSUME NEW c, Sound(c.net), NEW i \in Free(c.net), NEW lookahead \in BOOLEAN,
         NEW d \in Children(c, i, lookahead)
  PROVE  /\ Sound(d.net)
         /\ c.net.nextID \in Nat /\ d.net.nextID \in Nat /\ c.net.nextID <= d.net.nextID
         /\ d.prevTID \in Ids(c.net) \cup {NoTask}
         /\ d.addedTIDs \subseteq c.net.nextID .. d.net.nextID - 1
         /\ Ids(d.net) \subseteq (Ids(c.net) \ {d.prevTID}) \cup d.addedTIDs
  <1> PICK n : n = c.net
    OBVIOUS
  <1>1. /\ n.nextID \in Nat /\ Ids(n) \subseteq 0 .. n.nextID - 1 /\ i \in Ids(n)
        /\ n.gts[i].head \in Actions \cup Compound
    BY DEF Sound, IsNetwork, Free, Heads
  <1>2. CASE IsAction(n, i)
    <2>1. d \in ActionChildren(c, i) /\ ActionApplies(c.state, n, i)
      BY <1>2 DEF Children, ActionChildren
    <2>2. d.net = AfterAction(n, i) /\ d.prevTID = NoTask /\ d.addedTIDs = {}
      <3>1. PICK s, p : d = [ state |-> s, net |-> AfterAction(n, i), step |-> p,
                              prevTID |-> NoTask, addedTIDs |-> {}, method |-> "" ]
        BY <2>1 DEF ActionChildren
      <3> QED
        BY <3>1
    <2>3. IsReal(n, i) \in BOOLEAN
      BY DEF IsReal
    <2>4. Sound(d.net) /\ d.net.nextID = n.nextID /\ Ids(d.net) = Ids(n) \ {i}
      BY <2>2, <2>3, AfterActionSound, AfterParts
    <2>5. NoTask \notin Ids(n)
      BY <1>1 DEF NoTask
    <2> QED
      BY <1>1, <2>2, <2>4, <2>5
  <1>3. CASE ~ IsAction(n, i)
    <2>1. PICK m \in MethodDefs[n.gts[i].head] : d = MethodChild(c, i, m)
      BY <1>3 DEF Children, Groundable
    <2>2. WellFormedMethod(m)
      BY <1>1, <1>3, <2>1, DomainAssumption DEF IsAction
    <2>3. d.net = Ground(m, n, i, Mode) /\ d.prevTID = i /\ d.addedTIDs = AddedTIDs(m, n)
      BY <2>1 DEF MethodChild
    <2>4. Sound(d.net) /\ d.net.nextID \in Nat /\ n.nextID <= d.net.nextID
      BY <2>2, <2>3, GroundSound
    <2>5. /\ Ids(d.net) = (Ids(n) \ {i}) \cup AddedTIDs(m, n)
          /\ d.net.nextID = n.nextID + Len(m.subtasks)
      BY <2>2, <2>3, GroundParts
    <2>6. AddedTIDs(m, n) \subseteq n.nextID .. d.net.nextID - 1
      <3>1. Len(m.subtasks) \in Nat
        BY <2>2, LenProperties DEF WellFormedMethod
      <3> QED
        BY <1>1, <2>5, <3>1 DEF AddedTIDs, SubtaskID, Positions
    <2> QED
      BY <1>1, <2>3, <2>4, <2>5, <2>6
  <1> QED
    BY <1>2, <1>3

---------------------------------------------------------------------------
(***************************************************************************)
(* What is unconstrained after a decomposition, and which of it a searcher *)
(* considers.                                                              *)
(***************************************************************************)

\* A set of numbers that is not empty has a least.
LEMMA Least ==
  ASSUME NEW T, T \subseteq Nat, T # {}
  PROVE  \E x \in T : \A y \in T : x <= y
<1> DEFINE R == OpToRel(<, Nat)
<1>1. IsWellFoundedOn(R, Nat)  BY NatLessThanWellFounded
<1>2. ASSUME NEW m \in Nat, NEW n \in Nat, <<n, m>> \notin R PROVE m <= n  BY <1>2 DEF OpToRel
<1> HIDE DEF R
<1>3. PICK x \in T : \A y \in T : <<y, x>> \notin R  BY <1>1, WFMin
<1>4. \A y \in T : x <= y  BY <1>2, <1>3
<1> QED  BY <1>4

\* A method that has subtasks has a last one: were each before another, so would
\* those of a smaller set be, without the first of them.
LEMMA SomeTail ==
  ASSUME NEW m, WellFormedMethod(m), Positions(m) # {}
  PROVE  Tails(m) # {}
  <1> DEFINE Onward(S) == S \subseteq Positions(m) /\ S # {}
                          /\ \A p \in S : \E q \in S : <<p, q>> \in m.orderings
             Sizes     == {k \in Nat : \E S : Onward(S) /\ Cardinality(S) = k}
  <1>1. SUFFICES ASSUME Tails(m) = {} PROVE FALSE
    OBVIOUS
  <1>2. Len(m.subtasks) \in Nat
    BY LenProperties DEF WellFormedMethod
  <1>3. IsFiniteSet(Positions(m))
    BY <1>2, FS_Interval DEF Positions
  <1>4. \A S : Onward(S) => IsFiniteSet(S) /\ Cardinality(S) \in Nat
    BY <1>3, FS_Subset, FS_CardinalityType
  <1>5. Onward(Positions(m))
    BY <1>1 DEF Tails
  <1>6. Sizes \subseteq Nat /\ Sizes # {}
    BY <1>4, <1>5
  <1> HIDE DEF Sizes
  <1>7. PICK k \in Sizes : \A l \in Sizes : k <= l
    BY <1>6, Least
  <1>8. PICK S : Onward(S) /\ Cardinality(S) = k
    BY <1>7 DEF Sizes
  <1>9. PICK p \in S : \A q \in S : <<q, p>> \notin m.orderings
    BY <1>8 DEF WellFormedMethod
  <1>10. Onward(S \ {p})
    <2>1. S \subseteq Positions(m) /\ \A q \in S : \E l \in S : <<q, l>> \in m.orderings
      BY <1>8
    <2>2. \A q \in S : \E l \in S \ {p} : <<q, l>> \in m.orderings
      BY <1>9, <2>1
    <2>3. S \ {p} # {}
      BY <2>2
    <2> QED
      BY <2>1, <2>2, <2>3
  <1> HIDE DEF Onward
  <1>11. Cardinality(S \ {p}) = k - 1 /\ Cardinality(S \ {p}) \in Nat /\ k \in Nat
    BY <1>4, <1>6, <1>8, <1>10, FS_RemoveElement
  <1>12. k - 1 \in Sizes
    BY <1>10, <1>11 DEF Sizes
  <1> QED
    BY <1>7, <1>11, <1>12

\* What the decomposed task came before waits for the last subtasks.
LEMMA GroundTails ==
  ASSUME NEW n, Sound(n), NEW i \in Free(n), NEW m, WellFormedMethod(m), NEW mode,
         NEW r, r = Ground(m, n, i, mode), NEW j \in Ids(n) \ {i}, j \in n.gts[i].outgoing,
         NEW p \in Tails(m)
  PROVE  SubtaskID(n, p) \in r.gts[j].incoming
  <1> DEFINE b   == RemoveNode(n, i)
             out == n.gts[i].outgoing
  <1>1. /\ b.gts = [l \in Ids(n) \ {i} |-> Forget(n, i, l)] /\ b.nextID = n.nextID
    BY DEF RemoveNode, WithTasks
  <1>2. j \in Ids(b) /\ SubtaskID(b, p) = SubtaskID(n, p)
    BY <1>1 DEF Ids, SubtaskID
  <1>3. j \notin AddedTIDs(m, b)
    <2>1. AddedTIDs(m, b) = AddedTIDs(m, n)
      BY <1>1 DEF AddedTIDs, SubtaskID
    <2>2. Ids(n) \subseteq 0 .. n.nextID - 1
      BY DEF Sound, IsNetwork
    <2>3. AddedTIDs(m, n) \cap (0 .. n.nextID - 1) = {}
      BY GroundParts
    <2> QED
      BY <2>1, <2>2, <2>3
  <1>4. b.gts[j] = Forget(n, i, j)
    BY <1>1
  <1> HIDE DEF b
  <1>5. r.gts = [l \in Ids(b) \cup AddedTIDs(m, b) |->
                   IF l \in AddedTIDs(m, b) THEN NewTask(m, b, out, l - b.nextID + 1) ELSE OldTask(m, b, out, l)]
    BY DEF Ground, ApplyBinding, b
  <1>6. r.gts[j] = OldTask(m, b, out, j)
    BY <1>2, <1>3, <1>5
  <1>7. OldTask(m, b, out, j).incoming = b.gts[j].incoming \cup {SubtaskID(b, q) : q \in Tails(m)}
    BY <1>4 DEF OldTask, Forget
  <1> QED
    BY <1>2, <1>6, <1>7

\* Where the decomposed task was the only unconstrained one, the check of its
\* method is: the method's other subtasks wait for it, and the old tasks for them.
LEMMA CheckAlone ==
  ASSUME NEW n, Sound(n), NEW i, Free(n) = {i}, NEW m, WellFormedMethod(m), m.mprec # 0, NEW mode,
         NEW r, r = Ground(m, n, i, mode)
  PROVE  /\ Free(r) \subseteq {SubtaskID(n, m.mprec)} /\ Ids(r) # {}
         /\ r.gts[SubtaskID(n, m.mprec)].head = m.subtasks[m.mprec]
  <1>1. m.mprec \in Positions(m)
    BY DEF WellFormedMethod
  <1>2. i \in Free(n) /\ i \in Ids(n) /\ n.gts[i].incoming = {}
    BY DEF Free
  <1>3. /\ Ids(r) = (Ids(n) \ {i}) \cup AddedTIDs(m, n)
        /\ \A j \in Ids(n) \ {i} : n.gts[j].incoming \ {i} \subseteq r.gts[j].incoming
        /\ \A p \in Positions(m) : /\ r.gts[SubtaskID(n, p)].head = m.subtasks[p]
                                   /\ r.gts[SubtaskID(n, p)].incoming = Predecessors(m, n, p)
    BY <1>2, GroundParts
  <1>4. ASSUME NEW j \in Ids(n) \ {i} PROVE r.gts[j].incoming # {}
    <2>1. n.gts[j].incoming # {}
      BY DEF Free
    <2>2. CASE i \in n.gts[j].incoming
      <3>1. j \in n.gts[i].outgoing
        BY <1>2, <2>2 DEF Sound, Mirrored
      <3>2. PICK p \in Tails(m) : TRUE
        BY <1>1, SomeTail
      <3> QED
        BY <1>2, <3>1, <3>2, GroundTails
    <2>3. CASE i \notin n.gts[j].incoming
      BY <1>3, <2>1, <2>3
    <2> QED
      BY <2>2, <2>3
  <1>5. ASSUME NEW p \in Positions(m), p # m.mprec PROVE r.gts[SubtaskID(n, p)].incoming # {}
    <2>1. <<m.mprec, p>> \in m.orderings
      BY <1>5 DEF WellFormedMethod
    <2>2. SubtaskID(n, m.mprec) \in Predecessors(m, n, p)
      BY <1>1, <2>1 DEF Predecessors
    <2> QED
      BY <1>3, <1>5, <2>2
  <1>6. Free(r) \subseteq {SubtaskID(n, m.mprec)}
    BY <1>3, <1>4, <1>5 DEF Free, AddedTIDs
  <1> QED
    BY <1>1, <1>3, <1>6 DEF AddedTIDs

\* The candidates are unconstrained tasks, and all of them where none is compound.
LEMMA CandidatesFree ==
  ASSUME NEW n, Sound(n), NEW restrict
  PROVE  /\ \A u \in Candidates(n, restrict) : u \subseteq Free(n)
         /\ (\A i \in Free(n) : ~ IsCompound(n, i)) => Free(n) \in Candidates(n, restrict)
  <1> DEFINE compound == {i \in Free(n) : IsCompound(n, i)}
  <1>1. ASSUME compound # {} PROVE Min(compound) \in compound
    <2>1. compound \subseteq Nat
      BY DEF Sound, IsNetwork, Free
    <2>2. \E x \in compound : \A y \in compound : x <= y
      <3> HIDE DEF compound
      <3> QED
        BY <1>1, <2>1, Least
    <2> HIDE DEF compound
    <2> QED
      BY <2>2 DEF Min
  <1>2. (\A i \in Free(n) : ~ IsCompound(n, i)) => Free(n) \in Candidates(n, restrict)
    BY DEF Candidates
  <1>3. ASSUME NEW u \in Candidates(n, restrict) PROVE u \subseteq Free(n)
    <2>1. \/ u = Free(n)
          \/ compound # {} /\ u = {i \in Free(n) : IsAction(n, i)} \cup {Min(compound)}
          \/ \E i \in compound : u = {j \in Free(n) : IsAction(n, j)} \cup {i}
          \/ \E i \in compound : u = {i}
      BY <1>3 DEF Candidates
    <2>2. \A i \in compound : i \in Free(n)
      OBVIOUS
    <2> HIDE DEF compound
    <2> QED
      BY <1>1, <2>1, <2>2
  <1> QED
    BY <1>2, <1>3
=============================================================================
