---------------------------- MODULE SearchProofs ----------------------------
(***************************************************************************)
(* Proofs that the task tree of the commit loop is the derivation of its   *)
(* committed path, however often the search backtracks, and that a node it *)
(* takes for dead has no plan.                                             *)
(*                                                                         *)
(* Each commit is paired with an entry of the undo stack, and each node of *)
(* the path with the tasks its commits made and decomposed. Ids are never  *)
(* handed out twice, so what a commit adds is new to the tree and taking   *)
(* it out again disturbs nothing else.                                     *)
(***************************************************************************)
EXTENDS Search, FiniteSetTheorems, SequenceTheorems, TLAPS

---------------------------------------------------------------------------
(***************************************************************************)
(* The inductive invariant.                                                *)
(***************************************************************************)

\* How many committed nodes have a smaller id: the place of n on the path.
Rank(n) == Cardinality({l \in DOMAIN t : l < n})

\* The tasks the first r commits of the undo stack have made and decomposed.
Used(r)  == {RootTID} \cup UNION {undo_stack[k].added_TIDs : k \in 1 .. r}
Split(r) == {undo_stack[k].parent_TID : k \in 1 .. r}

\* The committed nodes are a path: ids grow along it, each node is the child of
\* the one before, the current node is the last, and each commit can be undone.
Path ==
  /\ IsFiniteSet(DOMAIN t) /\ next_node_id \in Nat /\ DOMAIN t \subseteq 0 .. next_node_id - 1
  /\ v \in DOMAIN t /\ \A n \in DOMAIN t : n <= v
  /\ \E S : undo_stack \in Seq(S)
  /\ Cardinality(DOMAIN t) = Len(undo_stack) + 1
  /\ \A n \in DOMAIN t :
       /\ t[n] = [node |-> t[n].node, pred |-> t[n].pred, successors |-> t[n].successors]
       /\ t[n].node \in Nodes
       /\ n = 0 => t[n].pred = NoPred
       /\ n # 0 => t[n].pred \in DOMAIN t /\ Rank(n) = Rank(t[n].pred) + 1
  /\ \A k \in 0 .. Len(undo_stack) : \E n \in DOMAIN t : Rank(n) = k

\* Each commit is an expansion of the node before, and still in the task tree.
Derived ==
  \A n \in DOMAIN t \ {0} :
    \E d \in Expand(t[t[n].pred].node) :
      /\ d.node = t[n].node
      /\ d.prevTID = undo_stack[Rank(n)].parent_TID
      /\ d.addedTIDs = undo_stack[Rank(n)].added_TIDs
      /\ d.prevTID # NoTID => tasktree[d.prevTID] = [method |-> d.method, children |-> d.addedTIDs]

\* The task tree holds the tasks of the commits. The tasks of each node on the
\* path are some of those made and not decomposed up to it.
Accounted ==
  /\ DOMAIN tasktree = Used(Len(undo_stack))
  /\ \A i \in DOMAIN tasktree \ Split(Len(undo_stack)) : tasktree[i] = Leaf
  /\ \A n \in DOMAIN t :
       /\ Used(Rank(n)) \subseteq 0 .. NextTID(t[n].node) - 1
       /\ Split(Rank(n)) \subseteq Used(Rank(n)) \cup {NoTID}
       /\ Tasks(t[n].node) \subseteq Used(Rank(n)) \ Split(Rank(n))

\* The tree is one: nodes are named by paths, children are nodes, and a node with
\* children has all of those its expansion makes.
Shaped ==
  /\ TreeRoot \in DOMAIN tree
  /\ \A n \in DOMAIN tree :
       /\ \E S : n \in Seq(S)
       /\ tree[n] = [ node |-> tree[n].node, deadend |-> tree[n].deadend, visited |-> tree[n].visited,
                      successors |-> tree[n].successors, unexplored |-> tree[n].unexplored ]
       /\ tree[n].node \in Nodes
       /\ tree[n].successors \cup tree[n].unexplored \subseteq DOMAIN tree
       /\ tree[n].successors \cup tree[n].unexplored # {} =>
            /\ ~ Complete(tree[n].node)
            /\ \A d \in Expand(tree[n].node) :
                 /\ Append(n, d) \in tree[n].successors \cup tree[n].unexplored
                 /\ tree[Append(n, d)].node = d.node

\* While a decision is made its tree is rooted at the current node, and the
\* children of the root are children of that node.
Grown ==
  pc \notin {"decide", "done", "failed"} =>
    /\ here \in DOMAIN tree
    /\ tree[TreeRoot].node = t[v].node
    /\ \A w \in tree[TreeRoot].successors \cup tree[TreeRoot].unexplored :
         LastOf(w) \in Expand(tree[TreeRoot].node)

\* A verdict ends the search.
Failed == verdict # "none" => pc = "failed"

IInv == Path /\ Derived /\ Accounted /\ Shaped /\ Grown /\ DeadendIsProof /\ Failed

---------------------------------------------------------------------------
\* Ids grow along the path, so no two nodes share a place on it.
LEMMA RankOrder ==
  ASSUME Path
  PROVE  /\ \A n \in DOMAIN t : Rank(n) \in 0 .. Len(undo_stack)
         /\ \A n, l \in DOMAIN t : n < l => Rank(n) < Rank(l)
         /\ \A n, l \in DOMAIN t : Rank(n) = Rank(l) => n = l
         /\ Rank(v) = Len(undo_stack)
         /\ Len(undo_stack) \in Nat
         /\ DOMAIN undo_stack = 1 .. Len(undo_stack)
<1> DEFINE B(n) == {l \in DOMAIN t : l < n}
<1>1. IsFiniteSet(DOMAIN t) /\ DOMAIN t \subseteq Nat /\ v \in DOMAIN t /\ \A n \in DOMAIN t : n <= v
  BY DEF Path
<1>2. Len(undo_stack) \in Nat /\ DOMAIN undo_stack = 1 .. Len(undo_stack)
  BY LenProperties DEF Path
<1>3. \A n : IsFiniteSet(B(n)) /\ Cardinality(B(n)) \in Nat /\ B(n) \in SUBSET DOMAIN t
  BY <1>1, FS_Subset, FS_CardinalityType
<1>4. \A n : Rank(n) = Cardinality(B(n))
  BY DEF Rank
<1>5. ASSUME NEW n \in DOMAIN t, NEW l \in DOMAIN t, n < l
      PROVE  Rank(n) < Rank(l)
  <2>1. B(n) \in SUBSET B(l) /\ n \in B(l) /\ n \notin B(n)
    BY <1>1, <1>5
  <2> HIDE DEF B
  <2>2. Cardinality(B(n)) <= Cardinality(B(l)) /\ Cardinality(B(n)) # Cardinality(B(l))
    BY <1>3, <2>1, FS_Subset
  <2> QED
    BY <1>3, <1>4, <2>2
<1>6. ASSUME NEW n \in DOMAIN t, NEW l \in DOMAIN t, Rank(n) = Rank(l)
      PROVE  n = l
  <2>1. Rank(n) \in Nat /\ n \in Nat /\ l \in Nat
    BY <1>1, <1>3, <1>4
  <2> QED
    BY <1>5, <1>6, <2>1
<1>7. Rank(v) = Len(undo_stack)
  <2>1. B(v) = DOMAIN t \ {v}
    BY <1>1
  <2>2. Cardinality(DOMAIN t \ {v}) = Cardinality(DOMAIN t) - 1
    BY <1>1, FS_RemoveElement
  <2>3. Cardinality(DOMAIN t) = Len(undo_stack) + 1
    BY DEF Path
  <2>4. Rank(v) = Cardinality(DOMAIN t \ {v})
    BY <2>1 DEF Rank
  <2> QED
    BY <1>2, <2>2, <2>3, <2>4
<1>8. ASSUME NEW n \in DOMAIN t
      PROVE  Rank(n) \in 0 .. Len(undo_stack)
  <2>1. Rank(n) \in Nat
    BY <1>3, <1>4
  <2>2. n < v \/ n = v
    BY <1>1
  <2> QED
    BY <1>1, <1>2, <1>5, <1>7, <2>1, <2>2
<1> QED
  BY <1>2, <1>5, <1>6, <1>7, <1>8

\* PathId finds the node at a place on the path.
LEMMA PathIdIs ==
  ASSUME Path, NEW n \in DOMAIN t
  PROVE  PathId(Rank(n)) = n
  BY RankOrder DEF PathId, Rank

\* The invariant says what TaskTreeIsDerivation does.
LEMMA InvariantImplies == Path /\ Derived /\ Accounted => TaskTreeIsDerivation
<1> SUFFICES ASSUME Path, Derived, Accounted PROVE TaskTreeIsDerivation
  OBVIOUS
<1>1. Len(undo_stack) \in Nat /\ DOMAIN undo_stack = 1 .. Len(undo_stack)
  BY RankOrder
<1>2. ASSUME NEW k \in DOMAIN undo_stack
      PROVE  \E d \in Expand(t[PathId(k - 1)].node) :
               /\ d.node = t[PathId(k)].node
               /\ d.prevTID = undo_stack[k].parent_TID /\ d.addedTIDs = undo_stack[k].added_TIDs
               /\ d.prevTID # NoTID =>
                    tasktree[d.prevTID] = [method |-> d.method, children |-> d.addedTIDs]
  <2>1. k \in 0 .. Len(undo_stack) /\ k # 0
    BY <1>1
  <2>2. PICK n \in DOMAIN t : Rank(n) = k
    BY <2>1 DEF Path
  <2>3. PICK z \in DOMAIN t : Rank(z) = 0
    BY <1>1 DEF Path
  <2>4. n # 0
    <3> SUFFICES ASSUME n = 0 PROVE FALSE
      OBVIOUS
    <3>1. z = n \/ n < z
      BY DEF Path
    <3>2. Rank(n) <= Rank(z)
      BY <2>1, <2>2, <2>3, <3>1, RankOrder
    <3> QED
      BY <2>1, <2>2, <2>3, <3>2
  <2>5. t[n].pred \in DOMAIN t /\ Rank(n) = Rank(t[n].pred) + 1
    BY <2>4 DEF Path
  <2>6. Rank(t[n].pred) = k - 1
    <3>1. Rank(t[n].pred) \in Nat
      BY <2>5, RankOrder
    <3> QED
      BY <2>2, <2>5, <3>1
  <2>7. PathId(k) = n /\ PathId(k - 1) = t[n].pred
    BY <2>2, <2>5, <2>6, PathIdIs
  <2> QED
    BY <2>2, <2>4, <2>7 DEF Derived
<1>3. /\ DOMAIN tasktree = {RootTID} \cup UNION {undo_stack[k].added_TIDs : k \in DOMAIN undo_stack}
      /\ \A i \in DOMAIN tasktree \ {undo_stack[k].parent_TID : k \in DOMAIN undo_stack} :
           tasktree[i] = Leaf
  BY <1>1 DEF Accounted, Used, Split
<1> QED
  BY <1>2, <1>3 DEF TaskTreeIsDerivation

---------------------------------------------------------------------------
\* A commit adds one entry to the undo stack, and leaves what the others did.
LEMMA UsedPushed ==
  ASSUME NEW S, undo_stack \in Seq(S), NEW e, undo_stack' = Append(undo_stack, e),
         NEW L, L = Len(undo_stack)
  PROVE  /\ \E T : undo_stack' \in Seq(T)
         /\ L \in Nat /\ Len(undo_stack') = L + 1 /\ undo_stack'[L + 1] = e
         /\ \A k \in 1 .. L : undo_stack'[k] = undo_stack[k]
         /\ \A r \in 0 .. L : Used(r)' = Used(r) /\ Split(r)' = Split(r)
         /\ Used(L + 1)' = Used(L) \cup e.added_TIDs
         /\ Split(L + 1)' = Split(L) \cup {e.parent_TID}
<1>1. undo_stack \in Seq(S \cup {e}) /\ e \in S \cup {e}
  <2>1. undo_stack \in [1 .. Len(undo_stack) -> S \cup {e}] /\ Len(undo_stack) \in Nat
    BY LenProperties
  <2> QED
    BY <2>1, SeqDef
<1>2. /\ undo_stack' \in Seq(S \cup {e}) /\ Len(undo_stack') = L + 1 /\ undo_stack'[L + 1] = e
      /\ \A k \in 1 .. L : undo_stack'[k] = undo_stack[k]
  BY <1>1, AppendProperties
<1>3. L \in Nat
  BY LenProperties
<1>4. ASSUME NEW r \in 0 .. L
      PROVE  Used(r)' = Used(r) /\ Split(r)' = Split(r)
  <2>1. \A k \in 1 .. r : undo_stack'[k] = undo_stack[k]
    BY <1>2, <1>3
  <2> QED
    BY <2>1 DEF Used, Split
<1>5. 1 .. L + 1 = (1 .. L) \cup {L + 1}
  BY <1>3
<1>6. Used(L + 1)' = Used(L) \cup e.added_TIDs
  BY <1>2, <1>5 DEF Used
<1>7. Split(L + 1)' = Split(L) \cup {e.parent_TID}
  BY <1>2, <1>5 DEF Split
<1> QED
  BY <1>2, <1>3, <1>4, <1>6, <1>7

\* A backtrack takes the last one off.
LEMMA UsedPopped ==
  ASSUME NEW S, undo_stack \in Seq(S), NEW L, L = Len(undo_stack), L # 0,
         undo_stack' = SubSeq(undo_stack, 1, L - 1)
  PROVE  /\ \E T : undo_stack' \in Seq(T)
         /\ L \in Nat /\ Len(undo_stack') = L - 1
         /\ \A k \in 1 .. L - 1 : undo_stack'[k] = undo_stack[k]
         /\ \A r \in 0 .. L - 1 : Used(r)' = Used(r) /\ Split(r)' = Split(r)
         /\ Used(L) = Used(L - 1) \cup undo_stack[L].added_TIDs
         /\ Split(L) = Split(L - 1) \cup {undo_stack[L].parent_TID}
<1>1. L \in Nat /\ L - 1 \in Nat
  BY LenProperties
<1>2. /\ undo_stack' \in Seq(S) /\ Len(undo_stack') = L - 1
      /\ \A k \in 1 .. L - 1 : undo_stack'[k] = undo_stack[k]
  <2>1. \A k \in 1 .. L - 1 : undo_stack[k] \in S
    BY <1>1, ElementOfSeq
  <2>2. /\ SubSeq(undo_stack, 1, L - 1) \in Seq(S)
        /\ Len(SubSeq(undo_stack, 1, L - 1)) = IF 1 <= L - 1 THEN L - 1 - 1 + 1 ELSE 0
        /\ \A k \in 1 .. L - 1 - 1 + 1 : SubSeq(undo_stack, 1, L - 1)[k] = undo_stack[1 + k - 1]
    BY <1>1, <2>1, SubSeqProperties
  <2>3. L - 1 - 1 + 1 = L - 1 /\ \A k \in 1 .. L - 1 : 1 + k - 1 = k
    BY <1>1
  <2> QED
    BY <1>1, <2>2, <2>3
<1>3. ASSUME NEW r \in 0 .. L - 1
      PROVE  Used(r)' = Used(r) /\ Split(r)' = Split(r)
  <2>1. \A k \in 1 .. r : undo_stack'[k] = undo_stack[k]
    BY <1>1, <1>2
  <2> QED
    BY <2>1 DEF Used, Split
<1>4. 1 .. L = (1 .. L - 1) \cup {L}
  BY <1>1
<1>5. Used(L) = Used(L - 1) \cup undo_stack[L].added_TIDs
  BY <1>4 DEF Used
<1>6. Split(L) = Split(L - 1) \cup {undo_stack[L].parent_TID}
  BY <1>4 DEF Split
<1> QED
  BY <1>1, <1>2, <1>3, <1>5, <1>6

---------------------------------------------------------------------------
\* Committing to a child of the current node extends the path and the task tree.
LEMMA CommitKeeps ==
  ASSUME Path, Derived, Accounted, Grown, NEW s \in tree[TreeRoot].successors, Commit(s)
  PROVE  Path' /\ Derived' /\ Accounted'
<1> PICK y, L, d, c : y = next_node_id /\ L = Len(undo_stack) /\ d = LastOf(s) /\ c = v
  OBVIOUS
<1>1. /\ t' = [n \in DOMAIN t \cup {y} |->
                 IF n = y THEN [node |-> d.node, pred |-> c, successors |-> {}]
                 ELSE IF n = c THEN [t[c] EXCEPT !.successors = @ \cup {y}] ELSE t[n]]
      /\ tasktree' = Grow(tasktree, d)
      /\ undo_stack' = Append(undo_stack, [parent_TID |-> d.prevTID, added_TIDs |-> d.addedTIDs])
      /\ v' = y /\ next_node_id' = y + 1 /\ pc = "choose"
  BY DEF Commit
<1>2. y \in Nat /\ DOMAIN t \subseteq 0 .. y - 1 /\ IsFiniteSet(DOMAIN t) /\ c \in DOMAIN t
      /\ Cardinality(DOMAIN t) = L + 1
  BY DEF Path
<1>3. /\ d \in Expand(t[c].node) /\ t[c].node \in Nodes
  BY <1>1 DEF Grown, Path
<1>4. /\ NextTID(t[c].node) \in Nat /\ d.node \in Nodes /\ NextTID(d.node) \in Nat
      /\ NextTID(t[c].node) <= NextTID(d.node)
      /\ d.prevTID \in Tasks(t[c].node) \cup {NoTID}
      /\ d.addedTIDs \subseteq NextTID(t[c].node) .. NextTID(d.node) - 1
      /\ Tasks(d.node) \subseteq (Tasks(t[c].node) \ {d.prevTID}) \cup d.addedTIDs
  BY <1>3, ExpandAssumption
<1>5. /\ \A n \in DOMAIN t : Rank(n) \in 0 .. L
      /\ Rank(c) = L /\ L \in Nat
  BY RankOrder
<1>6. /\ DOMAIN t' = DOMAIN t \cup {y} /\ y \notin DOMAIN t /\ \A n \in DOMAIN t : n < y /\ n # y
      /\ t'[y] = [node |-> d.node, pred |-> c, successors |-> {}]
  BY <1>1, <1>2
<1>7. ASSUME NEW n \in DOMAIN t
      PROVE  /\ t'[n] = [node |-> t[n].node, pred |-> t[n].pred, successors |-> t'[n].successors]
             /\ t'[n].node = t[n].node /\ t'[n].pred = t[n].pred
  <2>1. t[n] = [node |-> t[n].node, pred |-> t[n].pred, successors |-> t[n].successors]
    BY DEF Path
  <2>2. t'[n] = IF n = c THEN [t[c] EXCEPT !.successors = @ \cup {y}] ELSE t[n]
    BY <1>1, <1>6
  <2>3. n = c => t'[n] = [node |-> t[n].node, pred |-> t[n].pred, successors |-> t[n].successors \cup {y}]
    <3> SUFFICES ASSUME n = c
                 PROVE  t'[n] = [ node |-> t[n].node, pred |-> t[n].pred,
                                  successors |-> t[n].successors \cup {y} ]
      OBVIOUS
    <3>1. t'[n] = [t[n] EXCEPT !.successors = t[n].successors \cup {y}]
      BY <2>2
    <3> QED
      BY <2>1, <3>1
  <2>4. n # c => t'[n] = [node |-> t[n].node, pred |-> t[n].pred, successors |-> t[n].successors]
    BY <2>1, <2>2
  <2> QED
    BY <2>3, <2>4
<1>8. \A n \in DOMAIN t : Rank(n)' = Rank(n)
  <2> SUFFICES ASSUME NEW n \in DOMAIN t PROVE Rank(n)' = Rank(n)
    OBVIOUS
  <2>1. n < y /\ n \in Nat
    BY <1>2, <1>6
  <2>2. {l \in DOMAIN t' : l < n} = {l \in DOMAIN t : l < n}
    BY <1>2, <1>6, <2>1
  <2> QED
    BY <2>2 DEF Rank
<1>9. Rank(y)' = L + 1
  <2>1. {l \in DOMAIN t' : l < y} = DOMAIN t
    <3>1. ~ (y < y)
      BY <1>2
    <3>2. \A l \in DOMAIN t' : l < y <=> l \in DOMAIN t
      BY <1>6, <3>1
    <3>3. DOMAIN t \subseteq DOMAIN t'
      BY <1>6
    <3> QED
      BY <3>2, <3>3
  <2> QED
    BY <1>2, <2>1 DEF Rank
<1>10. /\ \E T : undo_stack' \in Seq(T)
       /\ Len(undo_stack') = L + 1
       /\ undo_stack'[L + 1] = [parent_TID |-> d.prevTID, added_TIDs |-> d.addedTIDs]
       /\ \A k \in 1 .. L : undo_stack'[k] = undo_stack[k]
       /\ \A r \in 0 .. L : Used(r)' = Used(r) /\ Split(r)' = Split(r)
       /\ Used(L + 1)' = Used(L) \cup d.addedTIDs
       /\ Split(L + 1)' = Split(L) \cup {d.prevTID}
  <2>1. PICK S : undo_stack \in Seq(S)
    BY DEF Path
  <2> QED
    BY <1>1, <2>1, UsedPushed
<1>11. /\ DOMAIN tasktree = Used(L)
       /\ \A i \in Used(L) \ Split(L) : tasktree[i] = Leaf
       /\ Used(L) \subseteq 0 .. NextTID(t[c].node) - 1
       /\ Split(L) \subseteq Used(L) \cup {NoTID}
       /\ Tasks(t[c].node) \subseteq Used(L) \ Split(L)
  BY <1>2, <1>5 DEF Accounted
<1>12. /\ Used(L) \cap d.addedTIDs = {} /\ NoTID \notin Used(L) \cup d.addedTIDs
       /\ d.prevTID \notin d.addedTIDs
  BY <1>4, <1>11 DEF NoTID
<1>13. /\ DOMAIN tasktree' = Used(L) \cup d.addedTIDs
       /\ \A i \in d.addedTIDs : tasktree'[i] = Leaf
       /\ \A i \in Used(L) \ {d.prevTID} : tasktree'[i] = tasktree[i]
       /\ d.prevTID # NoTID => tasktree'[d.prevTID] = [method |-> d.method, children |-> d.addedTIDs]
  <2>1. tasktree' = [i \in Used(L) \cup d.addedTIDs |->
                       IF i \in d.addedTIDs THEN Leaf
                       ELSE IF i = d.prevTID
                            THEN [method |-> d.method, children |-> tasktree[i].children \cup d.addedTIDs]
                            ELSE tasktree[i]]
    BY <1>1, <1>11 DEF Grow
  <2>2. d.prevTID # NoTID => d.prevTID \in Used(L) /\ tasktree[d.prevTID].children = {}
    <3> SUFFICES ASSUME d.prevTID # NoTID
                 PROVE  d.prevTID \in Used(L) /\ tasktree[d.prevTID].children = {}
      OBVIOUS
    <3>1. d.prevTID \in Used(L) \ Split(L)
      BY <1>4, <1>11
    <3>2. tasktree[d.prevTID] = Leaf
      BY <1>11, <3>1
    <3>3. Leaf.children = {}
      BY DEF Leaf
    <3> QED
      BY <3>1, <3>2, <3>3
  <2>3. DOMAIN tasktree' = Used(L) \cup d.addedTIDs
    BY <2>1
  <2>4. \A i \in d.addedTIDs : tasktree'[i] = Leaf
    BY <2>1
  <2>5. \A i \in Used(L) \ {d.prevTID} : tasktree'[i] = tasktree[i]
    BY <1>12, <2>1
  <2>6. d.prevTID # NoTID => tasktree'[d.prevTID] = [method |-> d.method, children |-> d.addedTIDs]
    <3> SUFFICES ASSUME d.prevTID # NoTID
                 PROVE  tasktree'[d.prevTID] = [method |-> d.method, children |-> d.addedTIDs]
      OBVIOUS
    <3>1. tasktree'[d.prevTID]
            = [method |-> d.method, children |-> tasktree[d.prevTID].children \cup d.addedTIDs]
      BY <1>12, <2>1, <2>2
    <3> QED
      BY <2>2, <3>1
  <2> QED
    BY <2>3, <2>4, <2>5, <2>6
<1>14. Path'
  <2>1. IsFiniteSet(DOMAIN t') /\ Cardinality(DOMAIN t') = Len(undo_stack') + 1
    <3>1. /\ IsFiniteSet(DOMAIN t \cup {y})
          /\ Cardinality(DOMAIN t \cup {y}) = Cardinality(DOMAIN t) + 1
      BY <1>2, <1>6, FS_AddElement
    <3> QED
      BY <1>2, <1>6, <1>10, <3>1
  <2>2. next_node_id' \in Nat /\ DOMAIN t' \subseteq 0 .. next_node_id' - 1
        /\ v' \in DOMAIN t' /\ \A n \in DOMAIN t' : n <= v'
    BY <1>1, <1>2, <1>6
  <2>3. ASSUME NEW n \in DOMAIN t'
        PROVE  /\ t'[n] = [node |-> t'[n].node, pred |-> t'[n].pred, successors |-> t'[n].successors]
               /\ t'[n].node \in Nodes
               /\ n = 0 => t'[n].pred = NoPred
               /\ n # 0 => t'[n].pred \in DOMAIN t' /\ Rank(n)' = Rank(t[n].pred)' + 1
    <3>1. CASE n = y
      <4>1. y # 0
        BY <1>2
      <4>2. t'[n].pred = c /\ Rank(c)' = L
        BY <1>2, <1>5, <1>6, <1>8, <3>1
      <4>3. Rank(t[n].pred)' = L
        BY <4>2 DEF Rank
      <4> QED
        BY <1>2, <1>4, <1>6, <1>9, <3>1, <4>1, <4>2, <4>3
    <3>2. CASE n \in DOMAIN t
      <4>1. n # 0 => t[n].pred \in DOMAIN t /\ Rank(n) = Rank(t[n].pred) + 1
        BY <3>2 DEF Path
      <4>2. n # 0 => Rank(t[n].pred)' = Rank(t[n].pred)
        <5> SUFFICES ASSUME n # 0 PROVE Rank(t[n].pred)' = Rank(t[n].pred)
          OBVIOUS
        <5>1. PICK p \in DOMAIN t : p = t[n].pred
          BY <4>1
        <5>2. Rank(p)' = Rank(p) /\ p = t'[n].pred
          BY <1>7, <1>8, <3>2, <5>1
        <5> QED
          BY <5>1, <5>2 DEF Rank
      <4>3. t[n].node \in Nodes /\ (n = 0 => t[n].pred = NoPred)
        BY <3>2 DEF Path
      <4> QED
        BY <1>6, <1>7, <1>8, <3>2, <4>1, <4>2, <4>3
    <3> QED
      BY <1>6, <3>1, <3>2
  <2>4. ASSUME NEW k \in 0 .. L + 1
        PROVE  \E n \in DOMAIN t' : Rank(n)' = k
    <3>1. CASE k = L + 1
      BY <1>6, <1>9, <3>1
    <3>2. CASE k \in 0 .. L
      <4>1. PICK n \in DOMAIN t : Rank(n) = k
        BY <3>2 DEF Path
      <4> QED
        BY <1>6, <1>8, <4>1
    <3> QED
      BY <1>5, <3>1, <3>2
  <2>5. \E T : undo_stack' \in Seq(T)
    BY <1>10
  <2>6. \A k \in 0 .. Len(undo_stack') : \E n \in DOMAIN t' : Rank(n)' = k
    BY <1>10, <2>4
  <2> QED
    BY <2>1, <2>2, <2>3, <2>5, <2>6 DEF Path
<1>15. Derived'
  <2> SUFFICES ASSUME NEW n \in DOMAIN t' \ {0}
               PROVE  \E e \in Expand(t'[t'[n].pred].node) :
                        /\ e.node = t'[n].node
                        /\ e.prevTID = undo_stack'[Rank(n)'].parent_TID
                        /\ e.addedTIDs = undo_stack'[Rank(n)'].added_TIDs
                        /\ e.prevTID # NoTID =>
                             tasktree'[e.prevTID] = [method |-> e.method, children |-> e.addedTIDs]
    BY DEF Derived
  <2>1. CASE n = y
    <3>1. t'[n].pred = c /\ t'[c].node = t[c].node /\ t'[n].node = d.node
      BY <1>2, <1>6, <1>7, <2>1
    <3>2. undo_stack'[Rank(n)'] = [parent_TID |-> d.prevTID, added_TIDs |-> d.addedTIDs]
      BY <1>9, <1>10, <2>1
    <3> QED
      BY <1>3, <1>13, <3>1, <3>2
  <2>2. CASE n \in DOMAIN t
    <3>1. t[n].pred \in DOMAIN t /\ Rank(n) = Rank(t[n].pred) + 1
      BY <2>2 DEF Path
    <3>2. Rank(n) \in 1 .. L
      BY <1>5, <2>2, <3>1
    <3>3. PICK e \in Expand(t[t[n].pred].node) :
            /\ e.node = t[n].node
            /\ e.prevTID = undo_stack[Rank(n)].parent_TID
            /\ e.addedTIDs = undo_stack[Rank(n)].added_TIDs
            /\ e.prevTID # NoTID => tasktree[e.prevTID] = [method |-> e.method, children |-> e.addedTIDs]
      BY <2>2 DEF Derived
    <3>4. e.prevTID \in Split(L)
      BY <3>2, <3>3 DEF Split
    <3>5. e.prevTID # NoTID => tasktree'[e.prevTID] = tasktree[e.prevTID]
      BY <1>4, <1>11, <1>13, <3>4
    <3>6. undo_stack'[Rank(n)'] = undo_stack[Rank(n)]
      BY <1>8, <1>10, <2>2, <3>2
    <3>7. t'[t'[n].pred].node = t[t[n].pred].node /\ t'[n].node = t[n].node
      BY <1>7, <2>2, <3>1
    <3> QED
      BY <3>3, <3>5, <3>6, <3>7
  <2> QED
    BY <1>6, <2>1, <2>2
<1>16. Accounted'
  <2>1. DOMAIN tasktree' = Used(L + 1)'
    BY <1>10, <1>13
  <2>2. \A i \in DOMAIN tasktree' \ Split(L + 1)' : tasktree'[i] = Leaf
    BY <1>10, <1>11, <1>13
  <2>3. ASSUME NEW n \in DOMAIN t
        PROVE  /\ Used(Rank(n))' \subseteq 0 .. NextTID(t'[n].node) - 1
               /\ Split(Rank(n))' \subseteq Used(Rank(n))' \cup {NoTID}
               /\ Tasks(t'[n].node) \subseteq Used(Rank(n))' \ Split(Rank(n))'
    <3> PICK r : r = Rank(n)
      OBVIOUS
    <3>1. r \in 0 .. L /\ Rank(n)' = r
      BY <1>5, <1>8
    <3>2. Used(Rank(n))' = Used(r) /\ Split(Rank(n))' = Split(r)
      <4>1. Used(r)' = Used(r) /\ Split(r)' = Split(r)
        BY <1>10, <3>1
      <4> QED
        BY <3>1, <4>1 DEF Used, Split
    <3> QED
      BY <1>7, <3>2 DEF Accounted
  <2>4. /\ Used(Rank(y))' = Used(L) \cup d.addedTIDs
        /\ Split(Rank(y))' = Split(L) \cup {d.prevTID}
    BY <1>9, <1>10 DEF Used, Split
  <2>5. /\ Used(L) \cup d.addedTIDs \subseteq 0 .. NextTID(d.node) - 1
        /\ Split(L) \cup {d.prevTID} \subseteq (Used(L) \cup d.addedTIDs) \cup {NoTID}
        /\ Tasks(d.node) \subseteq (Used(L) \cup d.addedTIDs) \ (Split(L) \cup {d.prevTID})
    <3>1. Used(L) \cup d.addedTIDs \subseteq 0 .. NextTID(d.node) - 1
      BY <1>4, <1>11
    <3>2. Split(L) \cup {d.prevTID} \subseteq (Used(L) \cup d.addedTIDs) \cup {NoTID}
      BY <1>4, <1>11
    <3>3. Tasks(d.node) \subseteq (Used(L) \cup d.addedTIDs) \ (Split(L) \cup {d.prevTID})
      BY <1>4, <1>11, <1>12
    <3> QED
      BY <3>1, <3>2, <3>3
  <2>6. /\ Used(Rank(y))' \subseteq 0 .. NextTID(t'[y].node) - 1
        /\ Split(Rank(y))' \subseteq Used(Rank(y))' \cup {NoTID}
        /\ Tasks(t'[y].node) \subseteq Used(Rank(y))' \ Split(Rank(y))'
    BY <1>6, <2>4, <2>5
  <2>7. Used(Len(undo_stack))' = Used(L + 1)' /\ Split(Len(undo_stack))' = Split(L + 1)'
    BY <1>10 DEF Used, Split
  <2> QED
    BY <1>6, <2>1, <2>2, <2>3, <2>6, <2>7 DEF Accounted
<1> QED
  BY <1>14, <1>15, <1>16

\* A backtrack takes the last node off the path, and what its commit did out of
\* the task tree: what it made is gone, what it decomposed is a leaf again.
LEMMA BacktrackKeeps ==
  ASSUME Path, Derived, Accounted, Backtrack
  PROVE  Path' /\ Derived' /\ Accounted'
<1> PICK w, u, L, e : w = v /\ u = t[v].pred /\ L = Len(undo_stack) /\ e = undo_stack[Len(undo_stack)]
  OBVIOUS
<1>1. /\ w \in DOMAIN t /\ \A n \in DOMAIN t : n <= w
      /\ IsFiniteSet(DOMAIN t) /\ Cardinality(DOMAIN t) = L + 1
      /\ next_node_id \in Nat /\ DOMAIN t \subseteq 0 .. next_node_id - 1
  BY DEF Path
<1>2. w # 0 /\ u \in DOMAIN t /\ Rank(w) = Rank(u) + 1
  <2>1. u # NoPred
    BY DEF Backtrack
  <2> QED
    BY <1>1, <2>1 DEF Path
<1>3. /\ \A n \in DOMAIN t : Rank(n) \in 0 .. L
      /\ \A n, l \in DOMAIN t : n < l => Rank(n) < Rank(l)
      /\ \A n, l \in DOMAIN t : Rank(n) = Rank(l) => n = l
      /\ Rank(w) = L /\ L \in Nat
  BY RankOrder
<1>4. Rank(u) = L - 1 /\ L # 0 /\ L \in 1 .. L
  BY <1>2, <1>3
<1>5. undo_stack # <<>>
  BY <1>4
<1>6. /\ t' = [n \in DOMAIN t \ {w} |-> IF n = u THEN [t[u] EXCEPT !.successors = @ \ {w}] ELSE t[n]]
      /\ v' = u /\ tasktree' = Retract(tasktree, e)
      /\ undo_stack' = SubSeq(undo_stack, 1, L - 1)
      /\ next_node_id' = next_node_id
  BY <1>5 DEF Backtrack
<1>7. PICK d \in Expand(t[u].node) :
        /\ d.node = t[w].node
        /\ d.prevTID = e.parent_TID /\ d.addedTIDs = e.added_TIDs
        /\ d.prevTID # NoTID => tasktree[d.prevTID] = [method |-> d.method, children |-> d.addedTIDs]
  BY <1>1, <1>2, <1>3 DEF Derived
<1>8. /\ t[u].node \in Nodes /\ NextTID(t[u].node) \in Nat
      /\ d.prevTID \in Tasks(t[u].node) \cup {NoTID}
      /\ d.addedTIDs \cap (0 .. NextTID(t[u].node) - 1) = {}
      /\ NoTID \notin d.addedTIDs
  <2>1. t[u].node \in Nodes
    BY <1>2 DEF Path
  <2>2. /\ NextTID(t[u].node) \in Nat
        /\ d.addedTIDs \subseteq NextTID(t[u].node) .. NextTID(d.node) - 1
        /\ d.prevTID \in Tasks(t[u].node) \cup {NoTID}
        /\ NextTID(d.node) \in Nat
    BY <2>1, ExpandAssumption
  <2> QED
    BY <2>1, <2>2 DEF NoTID
<1>9. /\ DOMAIN t' = DOMAIN t \ {w} /\ u \in DOMAIN t' /\ u # w
      /\ \A n \in DOMAIN t' : n <= u /\ n < w
  <2>1. DOMAIN t' = DOMAIN t \ {w}
    BY <1>6
  <2>2. u # w
    BY <1>2, <1>3
  <2>3. ASSUME NEW n \in DOMAIN t'
        PROVE  n <= u /\ n < w
    <3>1. n \in DOMAIN t /\ n # w /\ n \in Nat /\ u \in Nat /\ w \in Nat
      BY <1>1, <1>2, <2>1
    <3>2. n < w
      BY <1>1, <3>1
    <3>3. Rank(n) < L /\ Rank(n) \in Nat
      BY <1>1, <1>3, <3>1, <3>2
    <3>4. ~ (u < n)
      <4> SUFFICES ASSUME u < n PROVE FALSE
        OBVIOUS
      <4>1. Rank(u) < Rank(n)
        BY <1>2, <1>3, <3>1
      <4> QED
        BY <1>3, <1>4, <3>3, <4>1
    <3> QED
      BY <3>1, <3>2, <3>4
  <2> QED
    BY <1>2, <2>1, <2>2, <2>3
<1>10. ASSUME NEW n \in DOMAIN t'
       PROVE  /\ t'[n] = [node |-> t[n].node, pred |-> t[n].pred, successors |-> t'[n].successors]
              /\ t'[n].node = t[n].node /\ t'[n].pred = t[n].pred
  <2>1. t[n] = [node |-> t[n].node, pred |-> t[n].pred, successors |-> t[n].successors]
    BY <1>9 DEF Path
  <2>2. t'[n] = IF n = u THEN [t[u] EXCEPT !.successors = @ \ {w}] ELSE t[n]
    BY <1>6, <1>9
  <2>3. n = u => t'[n] = [node |-> t[n].node, pred |-> t[n].pred, successors |-> t[n].successors \ {w}]
    <3> SUFFICES ASSUME n = u
                 PROVE  t'[n] = [ node |-> t[n].node, pred |-> t[n].pred,
                                  successors |-> t[n].successors \ {w} ]
      OBVIOUS
    <3>1. t'[n] = [t[n] EXCEPT !.successors = t[n].successors \ {w}]
      BY <2>2
    <3> QED
      BY <2>1, <3>1
  <2>4. n # u => t'[n] = [node |-> t[n].node, pred |-> t[n].pred, successors |-> t[n].successors]
    BY <2>1, <2>2
  <2> QED
    BY <2>3, <2>4
<1>11. ASSUME NEW n \in DOMAIN t'
       PROVE  Rank(n)' = Rank(n) /\ Rank(n) \in 0 .. L - 1
  <2>1. {l \in DOMAIN t' : l < n} = {l \in DOMAIN t : l < n}
    <3>1. ~ (w < n)
      BY <1>1, <1>9
    <3> QED
      BY <1>9, <3>1
  <2>2. Rank(n)' = Rank(n)
    BY <2>1 DEF Rank
  <2>3. Rank(n) < Rank(w) /\ Rank(n) \in 0 .. L
    BY <1>1, <1>3, <1>9
  <2> QED
    BY <1>3, <2>2, <2>3
<1>12. /\ \E T : undo_stack' \in Seq(T)
       /\ Len(undo_stack') = L - 1
       /\ \A k \in 1 .. L - 1 : undo_stack'[k] = undo_stack[k]
       /\ \A r \in 0 .. L - 1 : Used(r)' = Used(r) /\ Split(r)' = Split(r)
       /\ Used(L) = Used(L - 1) \cup d.addedTIDs
       /\ Split(L) = Split(L - 1) \cup {d.prevTID}
  <2>1. PICK S : undo_stack \in Seq(S)
    BY DEF Path
  <2> QED
    BY <1>4, <1>6, <1>7, <2>1, UsedPopped
<1>13. /\ DOMAIN tasktree = Used(L)
       /\ \A i \in Used(L) \ Split(L) : tasktree[i] = Leaf
       /\ Used(L - 1) \subseteq 0 .. NextTID(t[u].node) - 1
       /\ Split(L - 1) \subseteq Used(L - 1) \cup {NoTID}
       /\ Tasks(t[u].node) \subseteq Used(L - 1) \ Split(L - 1)
  BY <1>2, <1>4 DEF Accounted
<1>14. Used(L - 1) \cap d.addedTIDs = {} /\ NoTID \notin Used(L - 1)
  BY <1>8, <1>13 DEF NoTID
<1>15. /\ DOMAIN tasktree' = Used(L - 1)
       /\ \A i \in Used(L - 1) \ {d.prevTID} : tasktree'[i] = tasktree[i]
       /\ d.prevTID # NoTID => tasktree'[d.prevTID] = Leaf
  <2>1. tasktree' = [i \in Used(L - 1) |->
                       IF i = d.prevTID THEN [method |-> "", children |-> tasktree[i].children \ d.addedTIDs]
                       ELSE tasktree[i]]
    <3>1. DOMAIN tasktree \ e.added_TIDs = Used(L - 1)
      BY <1>7, <1>12, <1>13, <1>14
    <3> QED
      BY <1>6, <1>7, <3>1 DEF Retract
  <2>2. d.prevTID # NoTID => tasktree'[d.prevTID] = Leaf
    <3> SUFFICES ASSUME d.prevTID # NoTID PROVE tasktree'[d.prevTID] = Leaf
      OBVIOUS
    <3>1. d.prevTID \in Used(L - 1)
      BY <1>8, <1>13
    <3>2. tasktree[d.prevTID].children = d.addedTIDs
      BY <1>7
    <3>3. tasktree'[d.prevTID] = [method |-> "", children |-> d.addedTIDs \ d.addedTIDs]
      BY <2>1, <3>1, <3>2
    <3>4. d.addedTIDs \ d.addedTIDs = {}
      OBVIOUS
    <3> QED
      BY <3>3, <3>4 DEF Leaf
  <2> QED
    BY <2>1, <2>2
<1>16. Path'
  <2>1. IsFiniteSet(DOMAIN t') /\ Cardinality(DOMAIN t') = Len(undo_stack') + 1
    <3>1. IsFiniteSet(DOMAIN t \ {w}) /\ Cardinality(DOMAIN t \ {w}) = Cardinality(DOMAIN t) - 1
      BY <1>1, FS_RemoveElement
    <3> QED
      BY <1>1, <1>3, <1>9, <1>12, <3>1
  <2>2. next_node_id' \in Nat /\ DOMAIN t' \subseteq 0 .. next_node_id' - 1
        /\ v' \in DOMAIN t' /\ \A n \in DOMAIN t' : n <= v'
    BY <1>1, <1>6, <1>9
  <2>3. ASSUME NEW n \in DOMAIN t'
        PROVE  /\ t'[n] = [node |-> t'[n].node, pred |-> t'[n].pred, successors |-> t'[n].successors]
               /\ t'[n].node \in Nodes
               /\ n = 0 => t'[n].pred = NoPred
               /\ n # 0 => t'[n].pred \in DOMAIN t' /\ Rank(n)' = Rank(t[n].pred)' + 1
    <3>1. /\ n # 0 => t[n].pred \in DOMAIN t /\ Rank(n) = Rank(t[n].pred) + 1
          /\ t[n].node \in Nodes /\ (n = 0 => t[n].pred = NoPred)
      BY <1>9 DEF Path
    <3>2. n # 0 => t[n].pred \in DOMAIN t' /\ Rank(t[n].pred)' = Rank(t[n].pred)
      <4> SUFFICES ASSUME n # 0 PROVE t[n].pred \in DOMAIN t' /\ Rank(t[n].pred)' = Rank(t[n].pred)
        OBVIOUS
      <4>1. PICK p \in DOMAIN t : p = t[n].pred
        BY <3>1
      <4>2. p # w
        BY <1>3, <1>11, <3>1, <4>1
      <4>3. p \in DOMAIN t' /\ Rank(p)' = Rank(p) /\ p = t'[n].pred
        BY <1>9, <1>10, <1>11, <4>1, <4>2
      <4> QED
        BY <4>1, <4>3 DEF Rank
    <3> QED
      BY <1>10, <1>11, <3>1, <3>2
  <2>4. ASSUME NEW k \in 0 .. L - 1
        PROVE  \E n \in DOMAIN t' : Rank(n)' = k
    <3>1. k \in 0 .. Len(undo_stack)
      BY <1>3
    <3>2. \A j \in 0 .. Len(undo_stack) : \E n \in DOMAIN t : Rank(n) = j
      BY DEF Path
    <3>3. PICK n \in DOMAIN t : Rank(n) = k
      BY <3>1, <3>2
    <3>4. n # w
      BY <1>3, <3>3
    <3> QED
      BY <1>9, <1>11, <3>3, <3>4
  <2>5. \E T : undo_stack' \in Seq(T)
    BY <1>12
  <2>6. \A k \in 0 .. Len(undo_stack') : \E n \in DOMAIN t' : Rank(n)' = k
    BY <1>12, <2>4
  <2> QED
    BY <2>1, <2>2, <2>3, <2>5, <2>6 DEF Path
<1>17. Derived'
  <2> SUFFICES ASSUME NEW n \in DOMAIN t' \ {0}
               PROVE  \E f \in Expand(t'[t'[n].pred].node) :
                        /\ f.node = t'[n].node
                        /\ f.prevTID = undo_stack'[Rank(n)'].parent_TID
                        /\ f.addedTIDs = undo_stack'[Rank(n)'].added_TIDs
                        /\ f.prevTID # NoTID =>
                             tasktree'[f.prevTID] = [method |-> f.method, children |-> f.addedTIDs]
    BY DEF Derived
  <2>1. n \in DOMAIN t /\ t[n].pred \in DOMAIN t /\ Rank(n) = Rank(t[n].pred) + 1
    BY <1>9 DEF Path
  <2>2. Rank(n) \in 1 .. L - 1 /\ Rank(n)' = Rank(n)
    <3>1. Rank(n) \in 0 .. L - 1 /\ Rank(t[n].pred) \in 0 .. L
      BY <1>3, <1>11, <2>1
    <3> QED
      BY <1>3, <1>11, <2>1, <3>1
  <2>3. t[n].pred \in DOMAIN t'
    <3>1. t[n].pred # w
      BY <1>3, <2>1, <2>2
    <3> QED
      BY <1>9, <2>1, <3>1
  <2>4. PICK f \in Expand(t[t[n].pred].node) :
          /\ f.node = t[n].node
          /\ f.prevTID = undo_stack[Rank(n)].parent_TID
          /\ f.addedTIDs = undo_stack[Rank(n)].added_TIDs
          /\ f.prevTID # NoTID => tasktree[f.prevTID] = [method |-> f.method, children |-> f.addedTIDs]
    BY <2>1 DEF Derived
  <2>5. f.prevTID \in Split(L - 1)
    BY <2>2, <2>4 DEF Split
  <2>6. f.prevTID # NoTID => tasktree'[f.prevTID] = tasktree[f.prevTID]
    <3> SUFFICES ASSUME f.prevTID # NoTID PROVE tasktree'[f.prevTID] = tasktree[f.prevTID]
      OBVIOUS
    <3>1. f.prevTID \in Used(L - 1) /\ f.prevTID \notin Tasks(t[u].node)
      BY <1>13, <2>5
    <3>2. f.prevTID # d.prevTID
      BY <1>8, <3>1
    <3> QED
      BY <1>15, <3>1, <3>2
  <2>7. undo_stack'[Rank(n)'] = undo_stack[Rank(n)]
    BY <1>12, <2>2
  <2>8. t'[t'[n].pred].node = t[t[n].pred].node /\ t'[n].node = t[n].node
    BY <1>10, <2>3
  <2> QED
    BY <2>4, <2>6, <2>7, <2>8
<1>18. Accounted'
  <2>1. Used(L - 1)' = Used(L - 1) /\ Split(L - 1)' = Split(L - 1)
    BY <1>3, <1>4, <1>12
  <2>2. \A i \in Used(L - 1) \ Split(L - 1) : tasktree'[i] = Leaf
    <3> SUFFICES ASSUME NEW i \in Used(L - 1) \ Split(L - 1) PROVE tasktree'[i] = Leaf
      OBVIOUS
    <3>1. CASE i = d.prevTID
      BY <1>14, <1>15, <3>1
    <3>2. CASE i # d.prevTID
      BY <1>12, <1>13, <1>15, <3>2
    <3> QED
      BY <3>1, <3>2
  <2>3. ASSUME NEW n \in DOMAIN t'
        PROVE  /\ Used(Rank(n))' \subseteq 0 .. NextTID(t'[n].node) - 1
               /\ Split(Rank(n))' \subseteq Used(Rank(n))' \cup {NoTID}
               /\ Tasks(t'[n].node) \subseteq Used(Rank(n))' \ Split(Rank(n))'
    <3> PICK r : r = Rank(n)
      OBVIOUS
    <3>1. r \in 0 .. L - 1 /\ Rank(n)' = r /\ n \in DOMAIN t
      BY <1>9, <1>11
    <3>2. Used(Rank(n))' = Used(r) /\ Split(Rank(n))' = Split(r)
      <4>1. Used(r)' = Used(r) /\ Split(r)' = Split(r)
        BY <1>12, <3>1
      <4> QED
        BY <3>1, <4>1 DEF Used, Split
    <3> QED
      BY <1>10, <3>1, <3>2 DEF Accounted
  <2>4. Used(Len(undo_stack))' = Used(L - 1)' /\ Split(Len(undo_stack))' = Split(L - 1)'
    BY <1>12 DEF Used, Split
  <2> QED
    BY <1>15, <2>1, <2>2, <2>3, <2>4 DEF Accounted
<1> QED
  BY <1>16, <1>17, <1>18

---------------------------------------------------------------------------
\* A tree that is one node.
LEMMA OneNode ==
  ASSUME NEW c \in Nodes, tree = TreeOf(c)
  PROVE  Shaped /\ DeadendIsProof
<1>1. DOMAIN tree = {<<>>} /\ tree[<<>>] = TreeNode(c)
  BY DEF TreeOf, TreeRoot
<1>2. /\ tree[<<>>].node = c /\ tree[<<>>].successors = {} /\ tree[<<>>].unexplored = {}
      /\ tree[<<>>] = [ node |-> tree[<<>>].node, deadend |-> tree[<<>>].deadend,
                        visited |-> tree[<<>>].visited, successors |-> tree[<<>>].successors,
                        unexplored |-> tree[<<>>].unexplored ]
      /\ tree[<<>>].deadend = FALSE
  BY <1>1 DEF TreeNode
<1>3. <<>> \in Seq({})
  OBVIOUS
<1>4. Shaped
  BY <1>1, <1>2, <1>3 DEF Shaped, TreeRoot
<1>5. DeadendIsProof
  BY <1>1, <1>2 DEF DeadendIsProof
<1> QED
  BY <1>4, <1>5

\* The first state: the start node alone, with its one task undecomposed.
LEMMA InitKeeps == Init => IInv
<1> SUFFICES ASSUME Init PROVE IInv
  OBVIOUS
<1>1. /\ DOMAIN t = {0} /\ t[0] = [node |-> Start, pred |-> NoPred, successors |-> {}]
      /\ v = 0 /\ next_node_id = 1 /\ undo_stack = <<>> /\ pc = "decide"
      /\ DOMAIN tasktree = {RootTID} /\ tasktree[RootTID] = Leaf
  BY DEF Init
<1>2. Len(undo_stack) = 0 /\ undo_stack \in Seq({})
  BY <1>1
<1>3. Rank(0) = 0
  <2>1. {l \in {0} : l < 0} = {}
    OBVIOUS
  <2> QED
    BY <1>1, <2>1, FS_EmptySet DEF Rank
<1>4. Used(0) = {RootTID} /\ Split(0) = {}
  <2>1. 1 .. 0 = {}
    OBVIOUS
  <2> QED
    BY <2>1 DEF Used, Split
<1>5. Path
  <2>1. IsFiniteSet(DOMAIN t) /\ Cardinality(DOMAIN t) = 1
    BY <1>1, FS_Singleton
  <2>2. Start \in Nodes
    BY ExpandAssumption
  <2>3. \A n \in DOMAIN t :
          /\ t[n] = [node |-> t[n].node, pred |-> t[n].pred, successors |-> t[n].successors]
          /\ t[n].node \in Nodes
          /\ n = 0 => t[n].pred = NoPred
          /\ n # 0 => t[n].pred \in DOMAIN t /\ Rank(n) = Rank(t[n].pred) + 1
    BY <1>1, <2>2
  <2>4. \A k \in 0 .. Len(undo_stack) : \E n \in DOMAIN t : Rank(n) = k
    BY <1>1, <1>2, <1>3
  <2>5. DOMAIN t \subseteq 0 .. next_node_id - 1 /\ next_node_id \in Nat
        /\ v \in DOMAIN t /\ \A n \in DOMAIN t : n <= v
    BY <1>1
  <2> QED
    BY <1>2, <2>1, <2>3, <2>4, <2>5 DEF Path
<1>6. Derived
  BY <1>1 DEF Derived
<1>7. Accounted
  <2>1. /\ Used(Rank(0)) = {RootTID} /\ Split(Rank(0)) = {}
        /\ Used(Len(undo_stack)) = {RootTID} /\ Split(Len(undo_stack)) = {}
    BY <1>2, <1>3, <1>4
  <2>2. Tasks(Start) = {RootTID} /\ RootTID \in 0 .. NextTID(Start) - 1
    BY ExpandAssumption
  <2> QED
    BY <1>1, <2>1, <2>2 DEF Accounted
<1>8. Grown /\ Failed
  BY <1>1 DEF Grown, Failed, Init
<1>9. tree = TreeOf(Start) /\ Start \in Nodes
  BY ExpandAssumption DEF Init
<1>10. Shaped /\ DeadendIsProof
  BY <1>9, OneNode
<1> QED
  BY <1>5, <1>6, <1>7, <1>8, <1>10 DEF IInv

\* What has been committed changes only by a commit and a backtrack.
LEMMA CommittedKeeps ==
  ASSUME Path, Derived, Accounted, UNCHANGED <<t, v, next_node_id, tasktree, undo_stack>>
  PROVE  Path' /\ Derived' /\ Accounted'
<1>1. t' = t /\ v' = v /\ next_node_id' = next_node_id /\ tasktree' = tasktree
      /\ undo_stack' = undo_stack
  OBVIOUS
<1>2. \A n : Rank(n)' = Rank(n)
  BY <1>1 DEF Rank
<1>3. Path'
  <2>1. ASSUME NEW n \in DOMAIN t', n # 0
        PROVE  t'[n].pred \in DOMAIN t' /\ Rank(n)' = Rank(t[n].pred)' + 1
    <3>1. t[n].pred \in DOMAIN t /\ Rank(n) = Rank(t[n].pred) + 1
      BY <1>1, <2>1 DEF Path
    <3>2. PICK p : p = t[n].pred
      OBVIOUS
    <3>3. p = t'[n].pred /\ Rank(p)' = Rank(p) /\ Rank(n)' = Rank(p) + 1
      BY <1>1, <1>2, <3>1, <3>2
    <3> QED
      BY <1>1, <3>1, <3>2, <3>3 DEF Rank
  <2>2. \A n \in DOMAIN t' :
          /\ t'[n] = [node |-> t'[n].node, pred |-> t'[n].pred, successors |-> t'[n].successors]
          /\ t'[n].node \in Nodes
          /\ n = 0 => t'[n].pred = NoPred
    BY <1>1 DEF Path
  <2>3. \A k \in 0 .. Len(undo_stack') : \E n \in DOMAIN t' : Rank(n)' = k
    BY <1>1, <1>2 DEF Path
  <2>4. /\ IsFiniteSet(DOMAIN t') /\ next_node_id' \in Nat /\ DOMAIN t' \subseteq 0 .. next_node_id' - 1
        /\ v' \in DOMAIN t' /\ \A n \in DOMAIN t' : n <= v'
        /\ \E S : undo_stack' \in Seq(S)
        /\ Cardinality(DOMAIN t') = Len(undo_stack') + 1
    BY <1>1 DEF Path
  <2> QED
    BY <2>1, <2>2, <2>3, <2>4 DEF Path
<1>4. Derived'
  <2>1. ASSUME NEW n \in DOMAIN t' \ {0}
        PROVE  \E d \in Expand(t'[t'[n].pred].node) :
                 /\ d.node = t'[n].node
                 /\ d.prevTID = undo_stack'[Rank(n)'].parent_TID
                 /\ d.addedTIDs = undo_stack'[Rank(n)'].added_TIDs
                 /\ d.prevTID # NoTID =>
                      tasktree'[d.prevTID] = [method |-> d.method, children |-> d.addedTIDs]
    BY <1>1, <1>2 DEF Derived
  <2> QED
    BY <2>1 DEF Derived
<1>5. Accounted'
  <2>1. /\ \A r : Used(r)' = Used(r) /\ Split(r)' = Split(r)
        /\ Used(Len(undo_stack))' = Used(Len(undo_stack))
        /\ Split(Len(undo_stack))' = Split(Len(undo_stack))
    BY <1>1 DEF Used, Split
  <2>2. ASSUME NEW n \in DOMAIN t'
        PROVE  /\ Used(Rank(n))' \subseteq 0 .. NextTID(t'[n].node) - 1
               /\ Split(Rank(n))' \subseteq Used(Rank(n))' \cup {NoTID}
               /\ Tasks(t'[n].node) \subseteq Used(Rank(n))' \ Split(Rank(n))'
    <3> PICK r : r = Rank(n)
      OBVIOUS
    <3>1. Used(Rank(n))' = Used(r) /\ Split(Rank(n))' = Split(r)
      <4>1. Rank(n)' = r /\ Used(r)' = Used(r) /\ Split(r)' = Split(r)
        BY <1>2, <2>1
      <4> QED
        BY <4>1 DEF Used, Split
    <3> QED
      BY <1>1, <3>1 DEF Accounted
  <2>3. /\ DOMAIN tasktree' = Used(Len(undo_stack))'
        /\ \A i \in DOMAIN tasktree' \ Split(Len(undo_stack))' : tasktree'[i] = Leaf
    BY <1>1, <2>1 DEF Accounted
  <2> QED
    BY <2>2, <2>3 DEF Accounted
<1> QED
  BY <1>3, <1>4, <1>5

\* A step that gives the nodes of the tree no new children keeps its shape.
LEMMA ShapeKeeps ==
  ASSUME Shaped, Grown, pc \notin {"decide", "done", "failed"}, UNCHANGED <<t, v>>,
         DOMAIN tree' = DOMAIN tree, here' \in DOMAIN tree,
         \A n \in DOMAIN tree :
           /\ tree'[n] = [ node |-> tree[n].node, deadend |-> tree'[n].deadend,
                           visited |-> tree'[n].visited, successors |-> tree'[n].successors,
                           unexplored |-> tree'[n].unexplored ]
           /\ tree'[n].successors \cup tree'[n].unexplored = tree[n].successors \cup tree[n].unexplored
  PROVE  Shaped' /\ Grown'
<1>1. \A n \in DOMAIN tree : tree'[n].node = tree[n].node
  OBVIOUS
<1>2. TreeRoot \in DOMAIN tree
  BY DEF Shaped
<1>3. ASSUME NEW n \in DOMAIN tree'
      PROVE  /\ \E S : n \in Seq(S)
             /\ tree'[n] = [ node |-> tree'[n].node, deadend |-> tree'[n].deadend,
                             visited |-> tree'[n].visited, successors |-> tree'[n].successors,
                             unexplored |-> tree'[n].unexplored ]
             /\ tree'[n].node \in Nodes
             /\ tree'[n].successors \cup tree'[n].unexplored \subseteq DOMAIN tree'
             /\ tree'[n].successors \cup tree'[n].unexplored # {} =>
                  /\ ~ Complete(tree'[n].node)
                  /\ \A d \in Expand(tree'[n].node) :
                       /\ Append(n, d) \in tree'[n].successors \cup tree'[n].unexplored
                       /\ tree'[Append(n, d)].node = d.node
  <2>1. n \in DOMAIN tree
    OBVIOUS
  <2>2. /\ \E S : n \in Seq(S)
        /\ tree[n].node \in Nodes
        /\ tree[n].successors \cup tree[n].unexplored \subseteq DOMAIN tree
    BY <2>1 DEF Shaped
  <2>3. tree'[n].node = tree[n].node
        /\ tree'[n] = [ node |-> tree'[n].node, deadend |-> tree'[n].deadend,
                        visited |-> tree'[n].visited, successors |-> tree'[n].successors,
                        unexplored |-> tree'[n].unexplored ]
    BY <1>1, <2>1
  <2>4. ASSUME tree'[n].successors \cup tree'[n].unexplored # {}
        PROVE  /\ ~ Complete(tree'[n].node)
               /\ \A d \in Expand(tree'[n].node) :
                    /\ Append(n, d) \in tree'[n].successors \cup tree'[n].unexplored
                    /\ tree'[Append(n, d)].node = d.node
    <3>1. tree'[n].successors \cup tree'[n].unexplored = tree[n].successors \cup tree[n].unexplored
      BY <2>1
    <3>2. /\ ~ Complete(tree[n].node)
          /\ \A d \in Expand(tree[n].node) :
               /\ Append(n, d) \in tree[n].successors \cup tree[n].unexplored
               /\ tree[Append(n, d)].node = d.node
      BY <2>1, <2>4, <3>1 DEF Shaped
    <3> QED
      BY <1>1, <2>2, <2>3, <3>1, <3>2
  <2> QED
    BY <2>1, <2>2, <2>3, <2>4
<1>4. Shaped'
  BY <1>2, <1>3 DEF Shaped, TreeRoot, Complete
<1>5. /\ tree[TreeRoot].node = t[v].node
      /\ \A w \in tree[TreeRoot].successors \cup tree[TreeRoot].unexplored :
           LastOf(w) \in Expand(tree[TreeRoot].node)
  BY DEF Grown
<1>6. /\ tree'[TreeRoot].node = t'[v'].node
      /\ \A w \in tree'[TreeRoot].successors \cup tree'[TreeRoot].unexplored :
           LastOf(w) \in Expand(tree'[TreeRoot].node)
  BY <1>1, <1>2, <1>5
<1>7. Grown'
  BY <1>6 DEF Grown, LastOf, TreeRoot
<1> QED
  BY <1>4, <1>7

\* A step that leaves the tree alone.
LEMMA TreeKeeps ==
  ASSUME Shaped, Grown, DeadendIsProof, pc \notin {"decide", "done", "failed"},
         UNCHANGED <<t, v, tree>>, here' \in DOMAIN tree
  PROVE  Shaped' /\ Grown' /\ DeadendIsProof'
<1>1. \A n \in DOMAIN tree :
        tree'[n] = [ node |-> tree[n].node, deadend |-> tree'[n].deadend,
                     visited |-> tree'[n].visited, successors |-> tree'[n].successors,
                     unexplored |-> tree'[n].unexplored ]
  BY DEF Shaped
<1>2. DeadendIsProof'
  BY DEF DeadendIsProof
<1> QED
  BY <1>1, <1>2, ShapeKeeps

\* A step between decisions leaves the tree of the last one as it is.
LEMMA RestKeeps ==
  ASSUME Shaped, DeadendIsProof, tree' = tree,
         \/ pc' \in {"decide", "done", "failed"}
         \/ Grown /\ UNCHANGED <<pc, t, v, here>>
  PROVE  Shaped' /\ Grown' /\ DeadendIsProof'
<1>1. Shaped'
  BY DEF Shaped
<1>2. Grown'
  BY DEF Grown, LastOf, TreeRoot
<1>3. DeadendIsProof'
  BY DEF DeadendIsProof
<1> QED
  BY <1>1, <1>2, <1>3

\* A step that marks the node of the iteration as dead, with a proof, or visited.
LEMMA MarkKeeps ==
  ASSUME Shaped, Grown, DeadendIsProof, pc \notin {"decide", "done", "failed"}, UNCHANGED <<t, v>>,
         NEW dead, NEW seen, here' \in DOMAIN tree,
         dead => ~ HasPlan(tree[here].node),
         tree' = [tree EXCEPT ![here].deadend = dead, ![here].visited = seen]
  PROVE  Shaped' /\ Grown' /\ DeadendIsProof'
<1>1. here \in DOMAIN tree
  BY DEF Grown
<1>2. ASSUME NEW n \in DOMAIN tree
      PROVE  /\ tree'[n] = [ node |-> tree[n].node, deadend |-> tree'[n].deadend,
                             visited |-> tree'[n].visited, successors |-> tree'[n].successors,
                             unexplored |-> tree'[n].unexplored ]
             /\ tree'[n].successors \cup tree'[n].unexplored = tree[n].successors \cup tree[n].unexplored
             /\ tree'[n].deadend => ~ HasPlan(tree'[n].node)
  <2>1. tree[n] = [ node |-> tree[n].node, deadend |-> tree[n].deadend, visited |-> tree[n].visited,
                    successors |-> tree[n].successors, unexplored |-> tree[n].unexplored ]
    BY DEF Shaped
  <2>2. CASE n # here
    <3>1. tree'[n] = tree[n]
      BY <2>2
    <3>2. tree[n].deadend => ~ HasPlan(tree[n].node)
      BY DEF DeadendIsProof
    <3> QED
      BY <2>1, <3>1, <3>2
  <2>3. CASE n = here
    <3>1. tree'[n] = [tree[n] EXCEPT !.deadend = dead, !.visited = seen]
      BY <2>3
    <3>2. tree'[n] = [ node |-> tree[n].node, deadend |-> dead, visited |-> seen,
                       successors |-> tree[n].successors, unexplored |-> tree[n].unexplored ]
      BY <2>1, <3>1
    <3>3. tree'[n].deadend = dead /\ tree'[n].node = tree[here].node
      BY <2>3, <3>2
    <3> QED
      BY <3>2, <3>3
  <2> QED
    BY <2>2, <2>3
<1>3. DOMAIN tree' = DOMAIN tree
  OBVIOUS
<1>4. Shaped' /\ Grown'
  BY <1>2, <1>3, ShapeKeeps
<1>5. DeadendIsProof'
  BY <1>2, <1>3 DEF DeadendIsProof
<1> QED
  BY <1>4, <1>5

\* A step that marks it as dead.
LEMMA DeadKeeps ==
  ASSUME Shaped, Grown, DeadendIsProof, pc \notin {"decide", "done", "failed"}, UNCHANGED <<t, v>>,
         here' \in DOMAIN tree, ~ HasPlan(tree[here].node),
         tree' = [tree EXCEPT ![here].deadend = TRUE]
  PROVE  Shaped' /\ Grown' /\ DeadendIsProof'
<1>1. PICK dead, seen : dead = TRUE /\ seen = tree[here].visited
  OBVIOUS
<1>2. /\ here \in DOMAIN tree
      /\ tree[here] = [ node |-> tree[here].node, deadend |-> tree[here].deadend,
                        visited |-> tree[here].visited, successors |-> tree[here].successors,
                        unexplored |-> tree[here].unexplored ]
  BY DEF Grown, Shaped
<1>3. [tree[here] EXCEPT !.deadend = TRUE] = [tree[here] EXCEPT !.deadend = dead, !.visited = seen]
  BY <1>1, <1>2
<1>4. tree' = [tree EXCEPT ![here].deadend = dead, ![here].visited = seen]
  BY <1>2, <1>3
<1> QED
  BY <1>4, MarkKeeps

\* A step that marks it as visited.
LEMMA SeenKeeps ==
  ASSUME Shaped, Grown, DeadendIsProof, pc \notin {"decide", "done", "failed"}, UNCHANGED <<t, v>>,
         here' \in DOMAIN tree, tree' = [tree EXCEPT ![here].visited = TRUE]
  PROVE  Shaped' /\ Grown' /\ DeadendIsProof'
<1>1. PICK dead, seen : dead = tree[here].deadend /\ seen = TRUE
  OBVIOUS
<1>2. /\ here \in DOMAIN tree
      /\ tree[here] = [ node |-> tree[here].node, deadend |-> tree[here].deadend,
                        visited |-> tree[here].visited, successors |-> tree[here].successors,
                        unexplored |-> tree[here].unexplored ]
      /\ tree[here].deadend => ~ HasPlan(tree[here].node)
  BY DEF Grown, Shaped, DeadendIsProof
<1>3. [tree[here] EXCEPT !.visited = TRUE] = [tree[here] EXCEPT !.deadend = dead, !.visited = seen]
  BY <1>1, <1>2
<1>4. tree' = [tree EXCEPT ![here].deadend = dead, ![here].visited = seen]
  BY <1>2, <1>3
<1>5. dead => ~ HasPlan(tree[here].node)
  BY <1>1, <1>2
<1> QED
  BY <1>4, <1>5, MarkKeeps

\* A node all of whose children are dead has no plan: its children are all that
\* expansion makes of it.
LEMMA DeadFamily ==
  ASSUME Shaped, DeadendIsProof, NEW n \in DOMAIN tree,
         tree[n].successors # {}, tree[n].unexplored = {}, Live(n) = {}
  PROVE  ~ HasPlan(tree[n].node)
<1>1. tree[n].successors \cup tree[n].unexplored = tree[n].successors
      /\ tree[n].successors \cup tree[n].unexplored # {}
  OBVIOUS
<1>2. /\ tree[n].node \in Nodes /\ ~ Complete(tree[n].node)
      /\ tree[n].successors \subseteq DOMAIN tree
      /\ \A d \in Expand(tree[n].node) :
           Append(n, d) \in tree[n].successors /\ tree[Append(n, d)].node = d.node
  BY <1>1 DEF Shaped
<1>3. \A w \in tree[n].successors : ~ HasPlan(tree[w].node)
  BY <1>2 DEF Live, DeadendIsProof
<1>4. \A d \in Expand(tree[n].node) : ~ HasPlan(d.node)
  BY <1>2, <1>3
<1> QED
  BY <1>2, <1>4, PlanAssumption

\* A decision starts with a tree that is the current node alone.
LEMMA DecideGrows == ASSUME Path, Decide PROVE Shaped' /\ Grown' /\ DeadendIsProof'
<1> PICK c : c = t[v].node
  OBVIOUS
<1>1. tree' = [n \in {<<>>} |-> TreeNode(c)] /\ here' = <<>> /\ t' = t /\ v' = v
  BY DEF Decide, TreeOf, TreeRoot, committed
<1>2. c \in Nodes
  BY DEF Path
<1>3. DOMAIN tree' = {<<>>} /\ tree'[<<>>] = TreeNode(c)
  BY <1>1
<1>4. /\ tree'[<<>>].node = c /\ tree'[<<>>].successors = {} /\ tree'[<<>>].unexplored = {}
      /\ tree'[<<>>] = [ node |-> tree'[<<>>].node, deadend |-> tree'[<<>>].deadend,
                         visited |-> tree'[<<>>].visited, successors |-> tree'[<<>>].successors,
                         unexplored |-> tree'[<<>>].unexplored ]
      /\ tree'[<<>>].deadend = FALSE
  BY <1>3 DEF TreeNode
<1>5. <<>> \in Seq({})
  OBVIOUS
<1>6. Shaped'
  BY <1>2, <1>3, <1>4, <1>5 DEF Shaped, TreeRoot
<1>7. Grown'
  BY <1>1, <1>3, <1>4 DEF Grown, TreeRoot
<1>8. DeadendIsProof'
  BY <1>3, <1>4 DEF DeadendIsProof
<1> QED
  BY <1>6, <1>7, <1>8

\* Promotion moves a child, and keeps that it is one.
LEMMA PromoteGrows ==
  ASSUME Shaped, Grown, DeadendIsProof, NEW w \in tree[here].unexplored, Promote(w)
  PROVE  Shaped' /\ Grown' /\ DeadendIsProof'
<1>1. /\ pc = "select" /\ t' = t /\ v' = v /\ here' = w
      /\ tree' = [tree EXCEPT ![here].unexplored = @ \ {w}, ![here].successors = @ \cup {w}]
  BY DEF Promote, committed
<1>2. here \in DOMAIN tree
  BY <1>1 DEF Grown
<1>3. w \in DOMAIN tree
  BY <1>2 DEF Shaped
<1>4. ASSUME NEW n \in DOMAIN tree
      PROVE  /\ tree'[n] = [ node |-> tree[n].node, deadend |-> tree'[n].deadend,
                             visited |-> tree'[n].visited, successors |-> tree'[n].successors,
                             unexplored |-> tree'[n].unexplored ]
             /\ tree'[n].successors \cup tree'[n].unexplored = tree[n].successors \cup tree[n].unexplored
             /\ tree'[n].deadend = tree[n].deadend /\ tree'[n].node = tree[n].node
  <2>1. tree[n] = [ node |-> tree[n].node, deadend |-> tree[n].deadend, visited |-> tree[n].visited,
                    successors |-> tree[n].successors, unexplored |-> tree[n].unexplored ]
    BY DEF Shaped
  <2>2. CASE n # here
    <3>1. tree'[n] = tree[n]
      BY <1>1, <2>2
    <3> QED
      BY <2>1, <3>1
  <2>3. CASE n = here
    <3>1. tree'[n] = [ tree[n] EXCEPT !.unexplored = tree[n].unexplored \ {w},
                                      !.successors = tree[n].successors \cup {w} ]
      BY <1>1, <2>3
    <3>2. tree'[n] = [ node |-> tree[n].node, deadend |-> tree[n].deadend, visited |-> tree[n].visited,
                       successors |-> tree[n].successors \cup {w},
                       unexplored |-> tree[n].unexplored \ {w} ]
      BY <2>1, <3>1
    <3>3. /\ tree'[n].successors = tree[n].successors \cup {w}
          /\ tree'[n].unexplored = tree[n].unexplored \ {w}
          /\ tree'[n].deadend = tree[n].deadend /\ tree'[n].node = tree[n].node
      BY <3>2
    <3>4. tree'[n].successors \cup tree'[n].unexplored = tree[n].successors \cup tree[n].unexplored
      BY <2>3, <3>3
    <3> QED
      BY <3>2, <3>3, <3>4
  <2> QED
    BY <2>2, <2>3
<1>5. DOMAIN tree' = DOMAIN tree
  BY <1>1
<1>6. DeadendIsProof'
  BY <1>4, <1>5 DEF DeadendIsProof
<1> QED
  BY <1>1, <1>3, <1>4, <1>5, <1>6, ShapeKeeps

\* Expansion gives a node the children its expansion makes, each named by the
\* path to it, so that the children of the root are those of the current node.
LEMMA ExpandGrows ==
  ASSUME Shaped, Grown, DeadendIsProof, VisitExpand
  PROVE  Shaped' /\ Grown' /\ DeadendIsProof'
<1> PICK c, new : c = tree[here].node /\ new = {Append(here, d) : d \in Expand(c)}
  OBVIOUS
<1>1. /\ pc = "visit" /\ t' = t /\ v' = v /\ ~ Complete(c)
      /\ \/ new = {} /\ tree' = [tree EXCEPT ![here].deadend = TRUE] /\ here' = here
         \/ \E r \in new :
              /\ tree' = [n \in DOMAIN tree \cup new |->
                        IF n \in new THEN TreeNode(LastOf(n).node)
                        ELSE IF n = here THEN [tree[here] EXCEPT !.successors = {r}, !.unexplored = new \ {r}]
                        ELSE tree[n]]
              /\ here' = r
  BY DEF VisitExpand, committed
<1>2. /\ TreeRoot \in DOMAIN tree /\ here \in DOMAIN tree /\ tree[TreeRoot].node = t[v].node
      /\ c \in Nodes
      /\ \A w \in tree[TreeRoot].successors \cup tree[TreeRoot].unexplored :
           LastOf(w) \in Expand(tree[TreeRoot].node)
  BY <1>1 DEF Grown, Shaped
<1>3. ASSUME NEW n \in DOMAIN tree, NEW d
      PROVE  /\ \E T : Append(n, d) \in Seq(T)
             /\ Append(n, d) # <<>> /\ Append(n, d) # n
             /\ LastOf(Append(n, d)) = d
  <2> PICK S : n \in Seq(S)
    BY DEF Shaped
  <2>1. n \in Seq(S \cup {d}) /\ d \in S \cup {d} /\ Len(n) \in Nat
    <3>1. n \in [1 .. Len(n) -> S \cup {d}] /\ Len(n) \in Nat
      BY LenProperties
    <3> QED
      BY <3>1, SeqDef
  <2>2. /\ Append(n, d) \in Seq(S \cup {d}) /\ Append(n, d) # <<>>
        /\ Len(Append(n, d)) = Len(n) + 1 /\ Append(n, d)[Len(n) + 1] = d
    BY <2>1, AppendProperties
  <2>3. Append(n, d) # n
    BY <2>1, <2>2
  <2> QED
    BY <2>2, <2>3 DEF LastOf
<1>4. CASE new = {} /\ tree' = [tree EXCEPT ![here].deadend = TRUE] /\ here' = here
  <2>1. here' \in DOMAIN tree /\ pc \notin {"decide", "done", "failed"}
    BY <1>1, <1>2, <1>4
  <2>2. Expand(c) = {}
    BY <1>4
  <2>3. ~ HasPlan(tree[here].node)
    BY <1>1, <1>2, <2>2, PlanAssumption
  <2> QED
    BY <1>1, <1>4, <2>1, <2>3, DeadKeeps
<1>5. ASSUME NEW r \in new, here' = r,
             tree' = [n \in DOMAIN tree \cup new |->
                        IF n \in new THEN TreeNode(LastOf(n).node)
                        ELSE IF n = here THEN [tree[here] EXCEPT !.successors = {r}, !.unexplored = new \ {r}]
                        ELSE tree[n]]
      PROVE  Shaped' /\ Grown' /\ DeadendIsProof'
  <2>1. DOMAIN tree' = DOMAIN tree \cup new /\ here' \in DOMAIN tree'
    BY <1>5
  <2>2. TreeRoot \notin new /\ here \notin new
    BY <1>2, <1>3 DEF TreeRoot
  <2>3. ASSUME NEW n \in new
        PROVE  tree'[n] = [ node |-> LastOf(n).node, deadend |-> FALSE, visited |-> FALSE,
                            successors |-> {}, unexplored |-> {} ]
    BY <1>5 DEF TreeNode
  <2>4. tree'[here] = [ node |-> c, deadend |-> tree[here].deadend, visited |-> tree[here].visited,
                        successors |-> {r}, unexplored |-> new \ {r} ]
    <3>1. tree'[here] = [tree[here] EXCEPT !.successors = {r}, !.unexplored = new \ {r}]
      BY <1>2, <1>5, <2>2
    <3>2. tree[here] = [ node |-> tree[here].node, deadend |-> tree[here].deadend,
                         visited |-> tree[here].visited, successors |-> tree[here].successors,
                         unexplored |-> tree[here].unexplored ]
      BY <1>2 DEF Shaped
    <3> QED
      BY <3>1, <3>2
  <2>5. ASSUME NEW n \in DOMAIN tree, n \notin new, n # here
        PROVE  tree'[n] = tree[n]
    BY <1>5, <2>5
  <2>6. ASSUME NEW d \in Expand(c)
        PROVE  Append(here, d) \in new /\ tree'[Append(here, d)].node = d.node
    <3> PICK w : w = Append(here, d)
      OBVIOUS
    <3>1. w \in new /\ LastOf(w) = d
      BY <1>2, <1>3
    <3>2. PICK e : e = LastOf(w).node /\ tree'[w] = [ node |-> e, deadend |-> FALSE, visited |-> FALSE,
                                                       successors |-> {}, unexplored |-> {} ]
      BY <2>3, <3>1
    <3> QED
      BY <3>1, <3>2
  <2>7. ASSUME NEW n \in DOMAIN tree'
        PROVE  /\ \E T : n \in Seq(T)
               /\ tree'[n] = [ node |-> tree'[n].node, deadend |-> tree'[n].deadend,
                               visited |-> tree'[n].visited, successors |-> tree'[n].successors,
                               unexplored |-> tree'[n].unexplored ]
               /\ tree'[n].node \in Nodes
               /\ tree'[n].successors \cup tree'[n].unexplored \subseteq DOMAIN tree'
               /\ tree'[n].successors \cup tree'[n].unexplored # {} =>
                    /\ ~ Complete(tree'[n].node)
                    /\ \A d \in Expand(tree'[n].node) :
                         /\ Append(n, d) \in tree'[n].successors \cup tree'[n].unexplored
                         /\ tree'[Append(n, d)].node = d.node
               /\ tree'[n].deadend => ~ HasPlan(tree'[n].node)
    <3>1. CASE n \in new
      <4>1. PICK d \in Expand(c) : n = Append(here, d)
        BY <3>1
      <4>2. \E T : n \in Seq(T)
        BY <1>2, <1>3, <4>1
      <4>3. PICK e : e = LastOf(n).node /\ tree'[n] = [ node |-> e, deadend |-> FALSE, visited |-> FALSE,
                                                         successors |-> {}, unexplored |-> {} ]
        BY <2>3, <3>1
      <4>4. e \in Nodes
        BY <1>2, <1>3, <4>1, <4>3, ExpandAssumption
      <4>5. /\ tree'[n].successors \cup tree'[n].unexplored = {}
            /\ tree'[n].node = e /\ tree'[n].deadend = FALSE
        BY <4>3
      <4> QED
        BY <4>2, <4>3, <4>4, <4>5
    <3>2. CASE n \notin new /\ n = here
      <4>1. /\ tree'[n] = [ node |-> c, deadend |-> tree[here].deadend, visited |-> tree[here].visited,
                            successors |-> {r}, unexplored |-> new \ {r} ]
        BY <2>4, <3>2
      <4>2. /\ tree'[n].node = c /\ tree'[n].deadend = tree[here].deadend
            /\ tree'[n].successors = {r} /\ tree'[n].unexplored = new \ {r}
        BY <4>1
      <4>3. tree'[n].successors \cup tree'[n].unexplored = new
        BY <4>2
      <4>4. tree[here].deadend => ~ HasPlan(c)
        BY <1>2 DEF DeadendIsProof
      <4>5. \E T : n \in Seq(T)
        BY <1>2, <3>2 DEF Shaped
      <4> QED
        BY <1>1, <1>2, <2>1, <2>6, <3>2, <4>1, <4>2, <4>3, <4>4, <4>5
    <3>3. CASE n \notin new /\ n # here
      <4>1. n \in DOMAIN tree /\ tree'[n] = tree[n]
        BY <2>1, <2>5, <3>3
      <4>2. /\ \E T : n \in Seq(T)
            /\ tree[n] = [ node |-> tree[n].node, deadend |-> tree[n].deadend, visited |-> tree[n].visited,
                           successors |-> tree[n].successors, unexplored |-> tree[n].unexplored ]
            /\ tree[n].node \in Nodes
            /\ tree[n].successors \cup tree[n].unexplored \subseteq DOMAIN tree
            /\ tree[n].deadend => ~ HasPlan(tree[n].node)
        BY <4>1 DEF Shaped, DeadendIsProof
      <4>3. ASSUME tree[n].successors \cup tree[n].unexplored # {}, NEW d \in Expand(tree[n].node)
            PROVE  /\ ~ Complete(tree[n].node)
                   /\ Append(n, d) \in tree[n].successors \cup tree[n].unexplored
                   /\ tree'[Append(n, d)].node = d.node
        <5>1. /\ ~ Complete(tree[n].node)
              /\ Append(n, d) \in tree[n].successors \cup tree[n].unexplored
              /\ tree[Append(n, d)].node = d.node
              /\ Append(n, d) \in DOMAIN tree
          BY <4>1, <4>2, <4>3 DEF Shaped
        <5> PICK w : w = Append(n, d)
          OBVIOUS
        <5>2. CASE w \in new
          <6>1. PICK e : e = LastOf(w).node /\ tree'[w] = [ node |-> e, deadend |-> FALSE,
                           visited |-> FALSE, successors |-> {}, unexplored |-> {} ]
            BY <2>3, <5>2
          <6>2. LastOf(w) = d
            BY <1>3, <4>1
          <6> QED
            BY <5>1, <6>1, <6>2
        <5>3. CASE w \notin new /\ w = here
          <6>1. tree'[w].node = c
            BY <2>4, <5>3
          <6> QED
            BY <5>1, <5>3, <6>1
        <5>4. CASE w \notin new /\ w # here
          BY <2>5, <5>1, <5>4
        <5> QED
          BY <5>1, <5>2, <5>3, <5>4
      <4>4. tree[n].successors \cup tree[n].unexplored # {} => ~ Complete(tree[n].node)
        BY <4>1 DEF Shaped
      <4>5. tree'[n].successors \cup tree'[n].unexplored \subseteq DOMAIN tree'
        BY <2>1, <4>1, <4>2
      <4> QED
        BY <4>1, <4>2, <4>3, <4>4, <4>5
    <3> QED
      BY <3>1, <3>2, <3>3
  <2>8. TreeRoot \in DOMAIN tree'
    BY <1>2, <2>1
  <2>9. Shaped'
    BY <2>7, <2>8 DEF Shaped, TreeRoot, Complete
  <2>10. DeadendIsProof'
    BY <2>7 DEF DeadendIsProof
  <2>11. /\ tree'[TreeRoot].node = t'[v'].node
         /\ \A w \in tree'[TreeRoot].successors \cup tree'[TreeRoot].unexplored :
              LastOf(w) \in Expand(tree'[TreeRoot].node)
    <3>1. CASE here = TreeRoot
      <4>1. /\ tree'[TreeRoot].node = c /\ tree'[TreeRoot].successors = {r}
            /\ tree'[TreeRoot].unexplored = new \ {r}
        BY <2>4, <3>1
      <4>2. ASSUME NEW w \in new PROVE LastOf(w) \in Expand(c)
        <5>1. PICK d \in Expand(c) : w = Append(here, d)
          OBVIOUS
        <5>2. LastOf(w) = d
          BY <1>2, <1>3, <5>1
        <5> QED
          BY <5>2
      <4>3. \A w \in tree'[TreeRoot].successors \cup tree'[TreeRoot].unexplored : w \in new
        BY <4>1
      <4>4. c = t'[v'].node
        BY <1>1, <1>2, <3>1
      <4> QED
        BY <4>1, <4>2, <4>3, <4>4
    <3>2. CASE here # TreeRoot
      <4>1. tree'[TreeRoot] = tree[TreeRoot] /\ t'[v'].node = t[v].node
        BY <1>1, <1>2, <2>2, <2>5, <3>2
      <4> QED
        BY <1>2, <4>1
    <3> QED
      BY <3>1, <3>2
  <2>12. Grown'
    BY <2>1, <2>11 DEF Grown, LastOf, TreeRoot
  <2> QED
    BY <2>9, <2>10, <2>12
<1> QED
  BY <1>1, <1>4, <1>5

---------------------------------------------------------------------------
\* Every step keeps what is committed a derivation.
LEMMA StepKeepsPath ==
  ASSUME Path, Derived, Accounted, Grown, [Next]_vars
  PROVE  Path' /\ Derived' /\ Accounted'
<1>1. ASSUME NEW s \in tree[TreeRoot].successors, Commit(s)
      PROVE  Path' /\ Derived' /\ Accounted'
  BY <1>1, CommitKeeps
<1>2. CASE Backtrack
  BY <1>2, BacktrackKeeps
<1>3. CASE PlanFound \/ Decide \/ Iterate \/ BudgetEnds \/ MarkDead \/ Select \/ RootDead \/ VisitPlan
           \/ VisitNew \/ Settle \/ DecisionLimit \/ RootFails
  BY <1>3, CommittedKeeps
     DEF PlanFound, Decide, Iterate, BudgetEnds, MarkDead, Select, RootDead, VisitPlan, VisitNew, Settle,
         DecisionLimit, RootFails, committed
<1>4. ASSUME NEW w, Promote(w) \/ Descend(w)
      PROVE  Path' /\ Derived' /\ Accounted'
  BY <1>4, CommittedKeeps DEF Promote, Descend, committed
<1>5. CASE VisitExpand
  <2>1. UNCHANGED <<t, v, next_node_id, tasktree, undo_stack>>
    BY <1>5 DEF VisitExpand, committed
  <2> QED
    BY <2>1, CommittedKeeps
<1>6. CASE Rollout
  <2>1. UNCHANGED <<t, v, next_node_id, tasktree, undo_stack>>
    BY <1>6 DEF Rollout, committed
  <2> QED
    BY <2>1, CommittedKeeps
<1>7. CASE UNCHANGED vars
  BY <1>7, CommittedKeeps DEF vars
<1> QED
  BY <1>1, <1>2, <1>3, <1>4, <1>5, <1>6, <1>7 DEF Next

\* Every step keeps the tree one of the current node, and its marks proofs.
LEMMA StepGrows ==
  ASSUME Path, Shaped, Grown, DeadendIsProof, [Next]_vars
  PROVE  Shaped' /\ Grown' /\ DeadendIsProof'
<1>1. ASSUME pc \notin {"decide", "done", "failed"}
      PROVE  here \in DOMAIN tree
  BY <1>1 DEF Grown
<1>2. TreeRoot \in DOMAIN tree
  BY DEF Shaped
<1>3. CASE Decide
  BY <1>3, DecideGrows
<1>4. CASE Iterate \/ BudgetEnds \/ Select \/ RootDead \/ VisitNew \/ Settle
  <2>1. /\ pc \notin {"decide", "done", "failed"} /\ UNCHANGED <<t, v, tree>>
        /\ here' = here \/ here' = TreeRoot
    BY <1>4 DEF Iterate, BudgetEnds, Select, RootDead, VisitNew, Settle, committed
  <2> QED
    BY <1>1, <1>2, <2>1, TreeKeeps
<1>5. ASSUME NEW w \in tree[here].unexplored, Promote(w)
      PROVE  Shaped' /\ Grown' /\ DeadendIsProof'
  BY <1>5, PromoteGrows
<1>6. ASSUME NEW w \in tree[here].successors, Descend(w)
      PROVE  Shaped' /\ Grown' /\ DeadendIsProof'
  <2>1. pc = "select" /\ UNCHANGED <<t, v, tree>> /\ here' = w
    BY <1>6 DEF Descend, committed
  <2>2. w \in DOMAIN tree
    BY <1>1, <2>1 DEF Shaped
  <2> QED
    BY <2>1, <2>2, TreeKeeps
<1>7. CASE MarkDead
  <2>1. /\ pc = "select" /\ UNCHANGED <<t, v>> /\ here' = TreeRoot
        /\ tree' = [tree EXCEPT ![here].deadend = TRUE]
        /\ tree[here].successors # {} /\ tree[here].unexplored = {} /\ Live(here) = {}
    BY <1>7 DEF MarkDead, committed
  <2>2. ~ HasPlan(tree[here].node)
    BY <1>1, <2>1, DeadFamily
  <2> QED
    BY <1>2, <2>1, <2>2, DeadKeeps
<1>8. CASE VisitPlan
  <2>1. /\ pc = "visit" /\ UNCHANGED <<t, v>> /\ here' = here
        /\ tree' = [tree EXCEPT ![here].visited = TRUE]
    BY <1>8 DEF VisitPlan, committed
  <2> QED
    BY <1>1, <2>1, SeenKeeps
<1>9. CASE VisitExpand
  BY <1>9, ExpandGrows
<1>10. CASE Rollout
  <2>1. PICK outcome \in Outcomes(tree[here].node) :
          /\ pc = "rollout" /\ UNCHANGED <<t, v>> /\ here' = here
          /\ tree' = [tree EXCEPT ![here].visited = TRUE,
                                  ![here].deadend = @ \/ outcome = "Refuted"]
    BY <1>10 DEF Rollout, committed
  <2>2. PICK dead : dead = (tree[here].deadend \/ outcome = "Refuted")
    OBVIOUS
  <2>3. tree' = [tree EXCEPT ![here].deadend = dead, ![here].visited = TRUE]
    BY <2>1, <2>2
  <2>4. dead => ~ HasPlan(tree[here].node)
    <3>1. tree[here].node \in Nodes /\ (tree[here].deadend => ~ HasPlan(tree[here].node))
      BY <1>1, <2>1 DEF Shaped, DeadendIsProof
    <3> QED
      BY <2>2, <3>1, PlanAssumption
  <2> QED
    BY <1>1, <2>1, <2>3, <2>4, MarkKeeps
<1>11. CASE UNCHANGED vars
  <2>1. t' = t /\ v' = v /\ pc' = pc /\ tree' = tree /\ here' = here
    BY <1>11 DEF vars
  <2> QED
    BY <2>1, RestKeeps
<1>12. ASSUME PlanFound \/ DecisionLimit \/ Backtrack \/ RootFails
                \/ \E s \in tree[TreeRoot].successors : Commit(s)
       PROVE  Shaped' /\ Grown' /\ DeadendIsProof'
  <2>1. pc' \in {"decide", "done", "failed"} /\ tree' = tree
    BY <1>12 DEF PlanFound, DecisionLimit, Backtrack, RootFails, Commit
  <2> QED
    BY <2>1, RestKeeps
<1> QED
  BY <1>3, <1>4, <1>5, <1>6, <1>7, <1>8, <1>9, <1>10, <1>11, <1>12 DEF Next

\* The loop fails once.
LEMMA StepFails ==
  ASSUME Failed, [Next]_vars
  PROVE  Failed'
  BY DEF Failed, Next, vars, PlanFound, Decide, Iterate, BudgetEnds, Promote, Descend, MarkDead, Select, RootDead,
         VisitPlan, VisitNew, VisitExpand, Rollout, Settle, Commit, DecisionLimit, Backtrack, RootFails

\* Where no child of the root is live, each that was visited has no plan.
LEMMA MissedUnvisited ==
  ASSUME Shaped, Grown, DeadendIsProof, pc = "choose", Live(TreeRoot) = {}, HasPlan(t[v].node),
         tree[TreeRoot].successors # {}
  PROVE  \E w \in tree[TreeRoot].unexplored : HasPlan(tree[w].node)
<1> PICK r : r = TreeRoot
  OBVIOUS
<1>1. /\ r \in DOMAIN tree /\ tree[r].node \in Nodes /\ HasPlan(tree[r].node)
      /\ ~ Complete(tree[r].node)
      /\ tree[r].successors \cup tree[r].unexplored \subseteq DOMAIN tree
      /\ \A d \in Expand(tree[r].node) :
           /\ Append(r, d) \in tree[r].successors \cup tree[r].unexplored
           /\ tree[Append(r, d)].node = d.node
  BY DEF Shaped, Grown
<1>2. PICK d \in Expand(tree[r].node) : HasPlan(d.node)
  BY <1>1, PlanAssumption
<1>3. PICK w : w = Append(r, d)
  OBVIOUS
<1>4. /\ w \in tree[r].successors \cup tree[r].unexplored /\ w \in DOMAIN tree
      /\ tree[w].node = d.node
  BY <1>1, <1>3
<1>5. ~ tree[w].deadend
  BY <1>2, <1>4 DEF DeadendIsProof
<1>6. w \notin tree[r].successors
  BY <1>5 DEF Live
<1> QED
  BY <1>2, <1>4, <1>6

\* The commit loop keeps its path, its undo stack and its task tree in step,
\* whatever the size of the tree, the outcomes of the rollouts and the budgets.
THEOREM SearchInvariant == Spec => []IInv
<1>1. Init => IInv
  BY InitKeeps
<1>2. IInv /\ [Next]_vars => IInv'
  BY StepKeepsPath, StepGrows, StepFails DEF IInv
<1> QED
  BY <1>1, <1>2, PTL DEF Spec

\* However often seek_planMCTS backtracks, the committed path is a derivation and
\* the task tree it hands to the caller holds exactly that derivation.
THEOREM TaskTreeFollows == Spec => []TaskTreeIsDerivation
<1>1. IInv => TaskTreeIsDerivation
  BY InvariantImplies DEF IInv
<1> QED
  BY <1>1, SearchInvariant, PTL

\* The search never marks a node dead that has a plan: a mark is a refutation by a
\* rollout, an expansion without children, or the death of every child.
THEOREM DeadendsAreProofs == Spec => []DeadendIsProof
<1>1. IInv => DeadendIsProof
  BY DEF IInv
<1> QED
  BY <1>1, SearchInvariant, PTL

\* A search that gives up a node with a plan, at a backtrack or at its root, never
\* visited the child the plan goes through, or never expanded the node; then it
\* does not say that there is no plan.
THEOREM GivesUpOnlyUnvisited == Spec => GivesUpUnvisited
<1>1. ASSUME IInv, Backtrack \/ RootFails, HasPlan(t[v].node)
      PROVE  \/ \E w \in tree[TreeRoot].unexplored : HasPlan(tree[w].node)
             \/ tree[TreeRoot].successors = {} /\ ~ tree[TreeRoot].deadend /\ verdict' # "no_plan"
  <2>1. pc = "choose" /\ Live(TreeRoot) = {}
    BY <1>1 DEF Backtrack, RootFails
  <2>2. CASE tree[TreeRoot].successors # {}
    BY <1>1, <2>1, <2>2, MissedUnvisited DEF IInv
  <2>3. CASE tree[TreeRoot].successors = {}
    <3>1. ~ tree[TreeRoot].deadend
      BY <1>1, <2>1 DEF IInv, Grown, Shaped, DeadendIsProof
    <3>2. verdict = "none"
      BY <1>1, <2>1 DEF IInv, Failed
    <3>3. verdict' # "no_plan"
      BY <1>1, <2>3, <3>1, <3>2 DEF Backtrack, RootFails
    <3> QED
      BY <2>3, <3>1, <3>3
  <2> QED
    BY <2>2, <2>3
<1>2. IInv => ((Backtrack \/ RootFails) /\ HasPlan(t[v].node) =>
                 \/ \E w \in tree[TreeRoot].unexplored : HasPlan(tree[w].node)
                 \/ tree[TreeRoot].successors = {} /\ ~ tree[TreeRoot].deadend /\ verdict' # "no_plan")
  BY <1>1
<1> QED
  BY <1>2, SearchInvariant, PTL DEF GivesUpUnvisited
=============================================================================
