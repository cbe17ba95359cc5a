------------------------ MODULE KnowledgeBaseProofs ------------------------
(***************************************************************************)
(* Proofs that the sharing of buffers between states is invisible and that *)
(* the text of a state the search keeps is of its facts, for any number of *)
(* states, predicates and facts.                                           *)
(***************************************************************************)
EXTENDS KnowledgeBase, FiniteSetTheorems, SequenceTheorems, TLAPS

\* Where the pointers are, and what they point to.
Pointers ==
  /\ live \subseteq States
  /\ relations \in [live -> [Predicates -> Buffers \cup {Null}]]
  /\ buffer \in [InUse -> Seq(Tuples)]
  /\ \A k \in live, p \in Predicates : relations[k][p] \in (States \X {p}) \cup {Null}

\* A text is of the facts of its state, but while the state is written to.
TextCurrent ==
  \A k \in live : (step = "idle" \/ k # open) => text[k] \in {Stale, FactsOf(k)}

IInv == TypeOK /\ CountsFacts /\ TextCurrent

---------------------------------------------------------------------------
\* Adding an element at the end, and removing the one at a place, of a sequence
\* without repetitions.
LEMMA AppendNew ==
  ASSUME NEW s \in Seq(Tuples), IsInjective(s), NEW t \in Tuples, \A i \in DOMAIN s : s[i] # t
  PROVE  /\ Append(s, t) \in Seq(Tuples) /\ IsInjective(Append(s, t))
         /\ ToSet(Append(s, t)) = ToSet(s) \cup {t}
  <1>1. /\ Append(s, t) \in Seq(Tuples) /\ Len(Append(s, t)) = Len(s) + 1
        /\ DOMAIN s = 1 .. Len(s) /\ DOMAIN Append(s, t) = 1 .. Len(s) + 1
        /\ \A i \in 1 .. Len(s) : Append(s, t)[i] = s[i]
        /\ Append(s, t)[Len(s) + 1] = t /\ Len(s) \in Nat
    OBVIOUS
  <1>2. IsInjective(Append(s, t))
    BY <1>1 DEF IsInjective
  <1>3. ToSet(Append(s, t)) = ToSet(s) \cup {t}
    BY <1>1 DEF ToSet
  <1> QED BY <1>1, <1>2, <1>3

LEMMA RemoveOnly ==
  ASSUME NEW s \in Seq(Tuples), IsInjective(s), NEW i \in DOMAIN s
  PROVE  /\ RemoveAt(s, i) \in Seq(Tuples) /\ IsInjective(RemoveAt(s, i))
         /\ ToSet(RemoveAt(s, i)) = ToSet(s) \ {s[i]}
  <1> DEFINE a == SubSeq(s, 1, i - 1)
             b == SubSeq(s, i + 1, Len(s))
             r == RemoveAt(s, i)
             n == Len(s)
  <1>1. n \in Nat /\ DOMAIN s = 1 .. n /\ i \in 1 .. n /\ \A j \in 1 .. n : s[j] \in Tuples
    OBVIOUS
  <1>2. a \in Seq(Tuples) /\ Len(a) = i - 1 /\ \A j \in 1 .. i - 1 : a[j] = s[j]
    BY <1>1, SubSeqProperties
  <1>3. b \in Seq(Tuples) /\ Len(b) = n - i /\ \A j \in 1 .. n - i : b[j] = s[i + j]
    BY <1>1, SubSeqProperties
  <1>4. r = a \o b
    BY DEF RemoveAt
  <1> HIDE DEF a, b, r, n
  <1>5. /\ r \in Seq(Tuples) /\ DOMAIN r = 1 .. n - 1
        /\ \A j \in 1 .. n - 1 : r[j] = IF j < i THEN s[j] ELSE s[j + 1]
    <2>1. /\ a \o b \in Seq(Tuples) /\ Len(a \o b) = Len(a) + Len(b)
          /\ \A j \in 1 .. Len(a) + Len(b) : (a \o b)[j] =
               IF j <= Len(a) THEN a[j] ELSE b[j - Len(a)]
      BY <1>2, <1>3, ConcatProperties
    <2>2. Len(a) + Len(b) = n - 1
      BY <1>1, <1>2, <1>3
    <2>3. r \in Seq(Tuples) /\ Len(r) = n - 1
      BY <1>4, <2>1, <2>2
    <2>4. ASSUME NEW j \in 1 .. n - 1 PROVE r[j] = IF j < i THEN s[j] ELSE s[j + 1]
      <3>1. r[j] = IF j <= i - 1 THEN a[j] ELSE b[j - (i - 1)]
        BY <1>2, <1>4, <2>1, <2>2
      <3>2. CASE j < i
        BY <1>1, <1>2, <3>1, <3>2
      <3>3. CASE j >= i
        <4>1. j - (i - 1) \in 1 .. n - i /\ i + (j - (i - 1)) = j + 1 /\ ~ (j <= i - 1) /\ ~ (j < i)
          BY <1>1, <3>3
        <4> QED BY <1>3, <3>1, <4>1
      <3> QED BY <1>1, <3>2, <3>3
    <2> QED BY <1>1, <2>3, <2>4
  <1>6. IsInjective(r)
    <2> SUFFICES ASSUME NEW j \in 1 .. n - 1, NEW k \in 1 .. n - 1, r[j] = r[k] PROVE j = k
      BY <1>5 DEF IsInjective
    <2> DEFINE at(x) == IF x < i THEN x ELSE x + 1
    <2>1. at(j) \in 1 .. n /\ at(k) \in 1 .. n /\ s[at(j)] = s[at(k)]
      BY <1>1, <1>5
    <2>2. at(j) = at(k)
      BY <1>1, <2>1 DEF IsInjective
    <2> QED BY <1>1, <2>2
  <1>7. \A j \in 1 .. n : s[j] = s[i] => j = i
    BY <1>1 DEF IsInjective
  <1>8. \A j \in 1 .. n : j # i => \E k \in 1 .. n - 1 : r[k] = s[j]
    <2> TAKE j \in 1 .. n
    <2> HAVE j # i
    <2>1. CASE j < i
      BY <1>1, <1>5, <2>1
    <2>2. CASE j > i
      <3>1. j - 1 \in 1 .. n - 1 /\ ~ (j - 1 < i) /\ (j - 1) + 1 = j
        BY <1>1, <2>2
      <3> QED BY <1>5, <3>1
    <2> QED BY <1>1, <2>1, <2>2
  <1>9. \A k \in 1 .. n - 1 : \E j \in 1 .. n : j # i /\ r[k] = s[j]
    BY <1>1, <1>5
  <1>10. ToSet(r) = ToSet(s) \ {s[i]}
    <2>1. ToSet(r) = {r[k] : k \in 1 .. n - 1} /\ ToSet(s) = {s[j] : j \in 1 .. n}
      BY <1>1, <1>5 DEF ToSet
    <2>2. \A x : x \in ToSet(r) => x \in ToSet(s) \ {s[i]}
      BY <1>7, <1>9, <2>1
    <2>3. \A x : x \in ToSet(s) \ {s[i]} => x \in ToSet(r)
      BY <1>8, <2>1
    <2> QED BY <2>2, <2>3
  <1> QED BY <1>5, <1>6, <1>10 DEF r

---------------------------------------------------------------------------
LEMMA RelationIs ==
  ASSUME Pointers, NEW k \in live, NEW p \in Predicates
  PROVE  relation_of(k, p) \in Seq(Tuples)
  BY DEF Pointers, relation_of, InUse

\* A buffer that is used once is used by the one who asks.
LEMMA UsedOnce ==
  ASSUME Pointers, NEW k \in live, NEW p \in Predicates, use_count(relations[k][p]) = 1
  PROVE  \A j \in live, q \in Predicates : relations[j][q] = relations[k][p] => j = k /\ q = p
  <1> DEFINE U == {kp \in live \X Predicates : relations[kp[1]][kp[2]] = relations[k][p]}
  <1>1. IsFiniteSet(live \X Predicates)
    BY FS_Subset, FS_Product, KbAssumption DEF Pointers
  <1>2. IsFiniteSet(U)
    BY <1>1, FS_Subset
  <1>3. PICK x : U = {x}
    BY <1>2, FS_Singleton DEF use_count
  <1>4. <<k, p>> \in U
    OBVIOUS
  <1>5. \A j \in live, q \in Predicates : relations[j][q] = relations[k][p] => <<j, q>> \in U
    OBVIOUS
  <1> HIDE DEF U
  <1>6. \A j, q : <<j, q>> \in U => <<j, q>> = <<k, p>>
    BY <1>3, <1>4
  <1>7. \A j, q : <<j, q>> = <<k, p>> => j = k /\ q = p
    OBVIOUS
  <1> QED BY <1>5, <1>6, <1>7

\* And one that is used more often is used by someone else.
LEMMA UsedElsewhere ==
  ASSUME Pointers, NEW k \in live, NEW p \in Predicates, use_count(relations[k][p]) # 1
  PROVE  \E j \in live, q \in Predicates :
           relations[j][q] = relations[k][p] /\ (j # k \/ q # p)
  <1> DEFINE U == {kp \in live \X Predicates : relations[kp[1]][kp[2]] = relations[k][p]}
  <1>1. U # {<<k, p>>}
    BY FS_Singleton DEF use_count
  <1>2. <<k, p>> \in U
    OBVIOUS
  <1>3. PICK x \in U : x # <<k, p>>
    BY <1>1, <1>2
  <1> QED BY <1>3

\* A write changes the relation it is made to, and no other of any state.
LEMMA WriteIsPrivate ==
  ASSUME Pointers, NEW k \in live, NEW p \in Predicates, NEW content \in Seq(Tuples),
         relation_mut(k, p, content)
  PROVE  /\ live' = live /\ Pointers'
         /\ relation_of(k, p)' = content
         /\ \A j \in live, q \in Predicates : j # k \/ q # p =>
              relation_of(j, q)' = relation_of(j, q) /\ relations'[j][q] = relations[j][q]
         /\ CountsFacts /\ IsInjective(content) => CountsFacts'
  <1>1. PICK c \in (IF relations[k][p] # Null /\ use_count(relations[k][p]) = 1
                      THEN {relations[k][p]} ELSE make_shared(p)) :
          /\ relations' = [relations EXCEPT ![k] = [@ EXCEPT ![p] = c]]
          /\ buffer' = [b \in DOMAIN buffer \cup {c} |-> IF b = c THEN content ELSE buffer[b]]
    BY DEF relation_mut
  <1>2. c \in States \X {p} /\ c # Null /\ c \in Buffers
    <2>1. CASE relations[k][p] # Null /\ use_count(relations[k][p]) = 1
      BY <1>1, <2>1 DEF Pointers, Buffers
    <2>2. CASE ~ (relations[k][p] # Null /\ use_count(relations[k][p]) = 1)
      <3>1. PICK s \in States : c = <<s, p>>
        BY <1>1, <2>2 DEF make_shared
      <3>2. <<s, p>> # << >>
        OBVIOUS
      <3> QED BY <3>1, <3>2 DEF Null, Buffers
    <2> QED BY <2>1, <2>2
  <1>3. /\ live' = live
        /\ relations' \in [live -> [Predicates -> Buffers \cup {Null}]]
        /\ relations'[k][p] = c
        /\ \A j \in live, q \in Predicates : j # k \/ q # p => relations'[j][q] = relations[j][q]
    BY <1>1, <1>2 DEF Pointers, live
  <1>4. DOMAIN buffer = InUse
    BY DEF Pointers
  <1>5. \A j \in live, q \in Predicates : relations[j][q] = c => j = k /\ q = p
    <2>1. CASE relations[k][p] # Null /\ use_count(relations[k][p]) = 1
      BY <1>1, <2>1, UsedOnce
    <2>2. CASE ~ (relations[k][p] # Null /\ use_count(relations[k][p]) = 1)
      <3>1. c \notin DOMAIN buffer
        BY <1>1, <2>2 DEF make_shared
      <3> QED BY <1>2, <1>4, <3>1 DEF InUse
    <2> QED BY <2>1, <2>2
  <1>6. InUse' = InUse \cup {c}
    <2>1. \A b \in InUse : b \in InUse'
      <3> TAKE b \in InUse
      <3>1. PICK j \in live, q \in Predicates : relations[j][q] = b /\ b # Null
        BY DEF InUse
      <3>2. CASE j # k \/ q # p
        BY <1>3, <3>1, <3>2 DEF InUse
      <3>3. CASE j = k /\ q = p
        <4>1. CASE use_count(b) = 1
          BY <1>1, <1>3, <3>1, <3>3, <4>1 DEF InUse
        <4>2. CASE use_count(b) # 1
          <5>1. PICK i \in live, r \in Predicates : relations[i][r] = b /\ (i # k \/ r # p)
            BY <3>1, <3>3, <4>2, UsedElsewhere
          <5> QED BY <1>3, <3>1, <5>1 DEF InUse
        <4> QED BY <4>1, <4>2
      <3> QED BY <3>2, <3>3
    <2>2. c \in InUse'
      BY <1>2, <1>3 DEF InUse
    <2>3. \A b \in InUse' : b \in InUse \cup {c}
      BY <1>3 DEF InUse
    <2> QED BY <2>1, <2>2, <2>3
  <1>7. Pointers'
    <2>1. buffer' \in [InUse' -> Seq(Tuples)]
      BY <1>1, <1>4, <1>6 DEF Pointers
    <2>2. \A j \in live, q \in Predicates : relations'[j][q] \in (States \X {q}) \cup {Null}
      BY <1>2, <1>3 DEF Pointers
    <2> QED BY <1>3, <2>1, <2>2 DEF Pointers
  <1>8. relation_of(k, p)' = content
    BY <1>1, <1>2, <1>3 DEF relation_of
  <1>9. \A j \in live, q \in Predicates :
          j # k \/ q # p => relation_of(j, q)' = relation_of(j, q)
    <2> SUFFICES ASSUME NEW j \in live, NEW q \in Predicates, j # k \/ q # p
                 PROVE  relation_of(j, q)' = relation_of(j, q)
      OBVIOUS
    <2>1. relations'[j][q] = relations[j][q] /\ relations[j][q] # c
      BY <1>3, <1>5
    <2>2. relations[j][q] # Null => relations[j][q] \in DOMAIN buffer
      BY <1>4 DEF InUse
    <2> QED BY <1>1, <2>1, <2>2 DEF relation_of
  <1>10. CountsFacts /\ IsInjective(content) => CountsFacts'
    <2> SUFFICES ASSUME CountsFacts, IsInjective(content), NEW b \in DOMAIN buffer'
                 PROVE  IsInjective(buffer'[b])
      BY DEF CountsFacts
    <2> QED BY <1>1 DEF CountsFacts
  <1> QED BY <1>3, <1>7, <1>8, <1>9, <1>10

---------------------------------------------------------------------------
\* No relation of a state has a tuple twice.
LEMMA RelationCounts ==
  ASSUME Pointers, CountsFacts, NEW k \in live, NEW p \in Predicates
  PROVE  IsInjective(relation_of(k, p))
  <1>1. CASE relations[k][p] = Null
    BY <1>1 DEF relation_of, IsInjective
  <1>2. CASE relations[k][p] # Null
    <2>1. relations[k][p] \in DOMAIN buffer
      BY <1>2 DEF Pointers, InUse
    <2> QED BY <1>2, <2>1 DEF CountsFacts, relation_of
  <1> QED BY <1>1, <1>2

\* What set_tuple does to the facts of the states.
LEMMA SetTuple ==
  ASSUME Pointers, CountsFacts, NEW k \in live, NEW f \in Facts, NEW remove \in BOOLEAN,
         set_tuple(k, f, remove)
  PROVE  /\ live' = live /\ Pointers' /\ CountsFacts'
         /\ \A j \in live : j # k => FactsOf(j)' = FactsOf(j)
         /\ FactsOf(k)' = IF remove THEN FactsOf(k) \ {f} ELSE FactsOf(k) \cup {f}
         /\ \A j \in live, q \in Predicates :
              relation_of(j, q)' = relation_of(j, q) => relations'[j][q] = relations[j][q]
  <1> DEFINE p   == f[1]
             t   == f[2]
             rel == relation_of(k, p)
             at  == find_tuple(rel, t)
  <1>1. p \in Predicates /\ t \in Tuples /\ f = <<p, t>>
    BY KbAssumption
  <1>2. \A g \in Facts : g[1] \in Predicates /\ (g[1] = p /\ g[2] = t => g = f)
    BY KbAssumption
  <1>3. rel \in Seq(Tuples) /\ IsInjective(rel)
    BY <1>1, RelationIs, RelationCounts
  <1>4. \A i \in DOMAIN rel : rel[i] = t => i \in at
    BY <1>3 DEF IsInjective, find_tuple
  <1>5. \A i \in at : i \in DOMAIN rel /\ rel[i] = t
    BY DEF find_tuple
  <1>6. /\ FactsOf(k) = {g \in Facts : g[2] \in ToSet(relation_of(k, g[1]))}
        /\ FactsOf(k)' = {g \in Facts : g[2] \in ToSet(relation_of(k, g[1])')}
    BY DEF FactsOf
  <1> HIDE DEF p, t, rel, at
  <1>7. ASSUME NEW content \in Seq(Tuples), IsInjective(content), relation_mut(k, p, content)
        PROVE  /\ live' = live /\ Pointers' /\ CountsFacts'
               /\ relation_of(k, p)' = content
               /\ \A j \in live, q \in Predicates :
                    j # k \/ q # p => relations'[j][q] = relations[j][q]
               /\ \A j \in live : j # k => FactsOf(j)' = FactsOf(j)
               /\ \A g \in Facts : g \in FactsOf(k)' <=>
                    IF g[1] = p THEN g[2] \in ToSet(content) ELSE g \in FactsOf(k)
    <2>1. /\ live' = live /\ Pointers' /\ CountsFacts'
          /\ relation_of(k, p)' = content
          /\ \A j \in live, q \in Predicates : j # k \/ q # p =>
               relation_of(j, q)' = relation_of(j, q) /\ relations'[j][q] = relations[j][q]
      BY <1>1, <1>7, WriteIsPrivate
    <2>2. \A j \in live : j # k => FactsOf(j)' = FactsOf(j)
      BY <1>2, <2>1 DEF FactsOf
    <2>3. ASSUME NEW g \in Facts
          PROVE  g \in FactsOf(k)' <=>
                   IF g[1] = p THEN g[2] \in ToSet(content) ELSE g \in FactsOf(k)
      <3>1. CASE g[1] = p
        BY <1>6, <2>1, <3>1
      <3>2. CASE g[1] # p
        BY <1>2, <1>6, <2>1, <3>2
      <3> QED BY <3>1, <3>2
    <2> QED BY <2>1, <2>2, <2>3
  <1>8. \A g \in Facts : g[1] = p => (g \in FactsOf(k) <=> g[2] \in ToSet(rel))
    BY <1>6 DEF rel
  <1>10. FactsOf(k) \subseteq Facts /\ FactsOf(k)' \subseteq Facts
    BY <1>6
  <1>11. CASE remove /\ \E i \in at : relation_mut(k, p, RemoveAt(rel, i))
    <2>1. PICK i \in at : relation_mut(k, p, RemoveAt(rel, i))
      BY <1>11
    <2>2. /\ RemoveAt(rel, i) \in Seq(Tuples) /\ IsInjective(RemoveAt(rel, i))
          /\ ToSet(RemoveAt(rel, i)) = ToSet(rel) \ {t}
      BY <1>3, <1>5, RemoveOnly
    <2>3. FactsOf(k)' = FactsOf(k) \ {f}
      BY <1>1, <1>2, <1>7, <1>8, <1>10, <2>1, <2>2
    <2>4. t \in ToSet(rel)
      BY <1>5 DEF ToSet
    <2>5. relation_of(k, p)' # relation_of(k, p)
      BY <1>7, <2>1, <2>2, <2>4 DEF rel
    <2> QED BY <1>7, <1>11, <2>1, <2>2, <2>3, <2>5
  <1>12. CASE ~ remove /\ at = {} /\ relation_mut(k, p, Append(rel, t))
    <2>1. /\ Append(rel, t) \in Seq(Tuples) /\ IsInjective(Append(rel, t))
          /\ ToSet(Append(rel, t)) = ToSet(rel) \cup {t}
      BY <1>1, <1>3, <1>4, <1>12, AppendNew
    <2>2. FactsOf(k)' = FactsOf(k) \cup {f}
      BY <1>1, <1>2, <1>7, <1>8, <1>10, <1>12, <2>1
    <2>3. t \notin ToSet(rel)
      BY <1>4, <1>12 DEF ToSet
    <2>4. relation_of(k, p)' # relation_of(k, p)
      BY <1>7, <1>12, <2>1, <2>3 DEF rel
    <2> QED BY <1>7, <1>12, <2>1, <2>2, <2>4
  <1>13. CASE remove = (at = {}) /\ UNCHANGED <<relations, buffer>>
    <2>1. live' = live /\ \A j \in live : FactsOf(j)' = FactsOf(j)
      BY <1>13 DEF live, FactsOf, relation_of
    <2>2. Pointers' /\ CountsFacts'
      BY <1>13 DEF Pointers, live, InUse, CountsFacts
    <2>3. f \in FactsOf(k) <=> t \in ToSet(rel)
      BY <1>1, <1>6 DEF p, t, rel
    <2>4. t \in ToSet(rel) <=> at # {}
      BY <1>3, <1>4, <1>5 DEF ToSet
    <2>5. FactsOf(k)' = IF remove THEN FactsOf(k) \ {f} ELSE FactsOf(k) \cup {f}
      BY <1>13, <2>1, <2>3, <2>4
    <2> QED BY <1>13, <2>1, <2>2, <2>5
  <1>14. \/ remove /\ \E i \in at : relation_mut(k, p, RemoveAt(rel, i))
         \/ ~ remove /\ at = {} /\ relation_mut(k, p, Append(rel, t))
         \/ remove = (at = {}) /\ UNCHANGED <<relations, buffer>>
    BY DEF set_tuple, p, t, rel, at
  <1> QED BY <1>11, <1>12, <1>13, <1>14

---------------------------------------------------------------------------
\* The facts the abstract specification is about.
Told == [k \in live |-> FactsOf(k)]

LEMMA InitKeeps == Init => IInv /\ Base!Init
  <1> SUFFICES ASSUME Init PROVE IInv /\ Base!Init
    OBVIOUS
  <1> DEFINE P == {q \in Predicates : Extension[q] # << >>}
  <1>1. live = {Root} /\ Root \in States
    BY KbAssumption DEF Init, live
  <1>2. \A p \in Predicates : relations[Root][p] = IF Extension[p] = << >> THEN Null ELSE <<Root, p>>
    BY DEF Init
  <1>3. \A p : <<Root, p>> # Null
    BY DEF Null
  <1>4. DOMAIN buffer = {<<Root, p>> : p \in P} /\ \A p \in P : buffer[<<Root, p>>] = Extension[p]
    BY DEF Init
  <1>5. InUse = {<<Root, p>> : p \in P}
    <2>1. \A b \in InUse : \E p \in Predicates : b = relations[Root][p] /\ b # Null
      BY <1>1 DEF InUse
    <2>2. \A p \in P : <<Root, p>> = relations[Root][p] /\ <<Root, p>> # Null
      BY <1>2, <1>3
    <2>3. \A p \in P : <<Root, p>> \in InUse
      BY <1>1, <2>2 DEF InUse
    <2>4. \A b \in InUse : \E p \in P : b = <<Root, p>>
      BY <1>2, <2>1
    <2> QED BY <2>3, <2>4
  <1>6. relations \in [live -> [Predicates -> Buffers \cup {Null}]]
    BY <1>1 DEF Init, Buffers
  <1>7. buffer \in [InUse -> Seq(Tuples)]
    <2>1. buffer = [b \in DOMAIN buffer |-> buffer[b]]
      BY DEF Init
    <2>2. \A b \in DOMAIN buffer : buffer[b] \in Seq(Tuples)
      BY <1>4, KbAssumption
    <2> QED BY <1>4, <1>5, <2>1, <2>2
  <1>8. \A p \in Predicates : relation_of(Root, p) = Extension[p]
    BY <1>2, <1>3, <1>4 DEF relation_of
  <1>9. TypeOK
    BY <1>1, <1>2, <1>6, <1>7 DEF TypeOK, Init
  <1>10. CountsFacts
    BY <1>4, KbAssumption DEF CountsFacts
  <1>11. TextCurrent
    BY <1>1 DEF TextCurrent, Init
  <1>12. FactsOf(Root) = {f \in Facts : f[2] \in ToSet(Extension[f[1]])}
    BY <1>8, KbAssumption DEF FactsOf
  <1>13. Base!Init
    BY <1>1, <1>12 DEF Base!Init, Init
  <1> QED BY <1>9, <1>10, <1>11, <1>13 DEF IInv

\* A write to the open state, whatever happens to its text.
LEMMA WriteKeeps ==
  ASSUME IInv, step # "idle", NEW f \in Facts, NEW remove \in BOOLEAN, set_tuple(open, f, remove),
         text' \in [live -> {Stale} \cup SUBSET Facts],
         \A j \in live : j # open => text'[j] = text[j],
         misled' \in BOOLEAN, UNCHANGED <<step, open>>
  PROVE  IInv' /\ Base!Write
  <1>1. Pointers /\ CountsFacts /\ open \in live
    BY DEF IInv, TypeOK, Pointers
  <1>2. /\ live' = live /\ Pointers' /\ CountsFacts'
        /\ \A j \in live : j # open => FactsOf(j)' = FactsOf(j)
        /\ FactsOf(open)' = IF remove THEN FactsOf(open) \ {f} ELSE FactsOf(open) \cup {f}
    BY <1>1, SetTuple
  <1>3. TypeOK'
    BY <1>2 DEF IInv, TypeOK, Pointers
  <1>4. TextCurrent'
    BY <1>2 DEF IInv, TextCurrent
  <1>5. Told' = [Told EXCEPT ![open] = IF remove THEN @ \ {f} ELSE @ \cup {f}]
    BY <1>1, <1>2 DEF Told
  <1>6. Base!Write
    BY <1>5 DEF Base!Write, Told
  <1> QED BY <1>2, <1>3, <1>4, <1>6 DEF IInv

\* A step that leaves the facts alone and only changes texts, to what they
\* should be.
LEMMA TextKeeps ==
  ASSUME IInv, UNCHANGED <<relations, buffer>>, open' \in States,
         step' \in {"load", "apply", "idle"}, step' # "idle" => open' \in live,
         text' \in [live -> {Stale} \cup SUBSET Facts], misled' \in BOOLEAN,
         \A k \in live : (step' = "idle" \/ k # open') => text'[k] \in {Stale, FactsOf(k)}
  PROVE  IInv' /\ Told' = Told
  <1>1. live' = live /\ InUse' = InUse /\ \A k \in live : FactsOf(k)' = FactsOf(k)
    BY DEF live, InUse, FactsOf, relation_of
  <1>2. TypeOK'
    BY <1>1 DEF IInv, TypeOK
  <1>3. CountsFacts'
    BY DEF IInv, CountsFacts
  <1>4. TextCurrent'
    BY <1>1 DEF TextCurrent
  <1>5. Told' = Told
    BY <1>1 DEF Told
  <1> QED BY <1>2, <1>3, <1>4, <1>5 DEF IInv

\* What ensure_smt leaves is a text.
LEMMA TextIsFacts == ASSUME IInv, NEW k \in live PROVE TextFor(k) \in SUBSET Facts
  BY DEF IInv, TypeOK, TextFor, FactsOf

\* The state of a copy, and of the states beside it.
LEMMA CopyKeeps ==
  ASSUME IInv, NEW k \in States, NEW n \in States, Copy(k, n),
         \/ UNCHANGED <<step, open>>
         \/ step' = "apply" /\ open' = n
  PROVE  IInv' /\ Base!Copy
  <1> DEFINE of(j) == IF j = n THEN k ELSE j
  <1>1. /\ step = "idle" /\ k \in live /\ n \notin live
        /\ relations' = [j \in live \cup {n} |-> relations[of(j)]]
        /\ text' = [j \in live \cup {n} |-> text[of(j)]]
        /\ buffer' = buffer /\ misled' = misled
    BY DEF Copy
  <1>2. live' = live \cup {n} /\ live' \subseteq States /\ n \in live'
        /\ \A j \in live' : of(j) \in live /\ relations'[j] = relations[of(j)] /\ text'[j] = text[of(j)]
    BY <1>1 DEF live, IInv, TypeOK
  <1>3. \A j \in live : j \in live' /\ of(j) = j
    BY <1>1, <1>2
  <1> HIDE DEF of
  <1>4. InUse' = InUse
    <2>1. \A b \in InUse' : b \in InUse
      BY <1>2 DEF InUse
    <2>2. \A b \in InUse : b \in InUse'
      BY <1>2, <1>3 DEF InUse
    <2> QED BY <2>1, <2>2
  <1>5. \A j \in live' : FactsOf(j)' = FactsOf(of(j))
    BY <1>1, <1>2 DEF FactsOf, relation_of
  <1>6. TypeOK'
    <2>1. relations' \in [live' -> [Predicates -> Buffers \cup {Null}]]
      BY <1>1, <1>2 DEF IInv, TypeOK
    <2>2. text' \in [live' -> {Stale} \cup SUBSET Facts]
      BY <1>1, <1>2 DEF IInv, TypeOK
    <2>3. \A j \in live', p \in Predicates : relations'[j][p] \in (States \X {p}) \cup {Null}
      BY <1>2 DEF IInv, TypeOK
    <2>4. step' \in {"load", "apply", "idle"} /\ open' \in States /\ (step' # "idle" => open' \in live')
      BY <1>1, <1>2 DEF IInv, TypeOK
    <2> QED BY <1>1, <1>2, <1>4, <2>1, <2>2, <2>3, <2>4 DEF IInv, TypeOK
  <1>7. CountsFacts'
    BY <1>1 DEF IInv, CountsFacts
  <1>8. TextCurrent'
    BY <1>1, <1>2, <1>5 DEF IInv, TextCurrent
  <1>9. Told' = [j \in DOMAIN Told \cup {n} |-> Told[IF j = n THEN k ELSE j]]
    BY <1>2, <1>5 DEF Told, of
  <1>10. Base!Copy
    <2>1. (IF step = "idle" THEN {} ELSE {open}) = {}
      BY <1>1
    <2>2. (IF step' = "idle" THEN {} ELSE {open'}) \in {{}, {n}}
      BY <1>1
    <2>3. k \in DOMAIN Told /\ n \in States \ DOMAIN Told
      BY <1>1 DEF Told
    <2> QED BY <1>9, <2>1, <2>2, <2>3 DEF Base!Copy, Told
  <1> QED BY <1>6, <1>7, <1>8, <1>10 DEF IInv

\* The states that are left when one goes.
LEMMA DiscardKeeps == ASSUME IInv, NEW k \in States, Discard(k) PROVE IInv' /\ Base!Discard
  <1>1. /\ step = "idle" /\ k \in live
        /\ relations' = [j \in live \ {k} |-> relations[j]]
        /\ text' = [j \in live \ {k} |-> text[j]]
        /\ buffer' = [b \in {relations[j][p] : j \in live \ {k}, p \in Predicates} \ {Null} |-> buffer[b]]
        /\ step' = step /\ open' = open /\ misled' = misled
    BY DEF Discard
  <1>2. live' = live \ {k} /\ \A j \in live' : relations'[j] = relations[j] /\ text'[j] = text[j]
    BY <1>1 DEF live
  <1>3. InUse' = {relations[j][p] : j \in live \ {k}, p \in Predicates} \ {Null}
    <2> DEFINE left == {relations[j][p] : j \in live \ {k}, p \in Predicates} \ {Null}
    <2>1. \A b \in InUse' : b \in left
      BY <1>2 DEF InUse
    <2>2. \A b \in left : b \in InUse'
      BY <1>2 DEF InUse
    <2> QED BY <2>1, <2>2
  <1>4. InUse' \subseteq InUse /\ DOMAIN buffer' = InUse' /\ \A b \in InUse' : buffer'[b] = buffer[b]
    <2>1. \A b \in InUse' : b \in InUse
      BY <1>3 DEF InUse
    <2> QED BY <1>1, <1>3, <2>1
  <1>5. \A j \in live', p \in Predicates : relation_of(j, p)' = relation_of(j, p)
    <2> TAKE j \in live', p \in Predicates
    <2>1. relations'[j][p] = relations[j][p]
      BY <1>2
    <2>2. relations[j][p] # Null => relations[j][p] \in InUse'
      BY <2>1 DEF InUse
    <2> QED BY <1>4, <2>1, <2>2 DEF relation_of
  <1>6. \A j \in live' : FactsOf(j)' = FactsOf(j)
    BY <1>5, KbAssumption DEF FactsOf
  <1>7. TypeOK'
    <2>1. relations' \in [live' -> [Predicates -> Buffers \cup {Null}]]
      BY <1>1, <1>2 DEF IInv, TypeOK
    <2>2. text' \in [live' -> {Stale} \cup SUBSET Facts]
      BY <1>1, <1>2 DEF IInv, TypeOK
    <2>3. \A j \in live', p \in Predicates : relations'[j][p] \in (States \X {p}) \cup {Null}
      BY <1>2 DEF IInv, TypeOK
    <2>4. buffer' \in [InUse' -> Seq(Tuples)]
      BY <1>1, <1>3, <1>4 DEF IInv, TypeOK
    <2> QED BY <1>1, <1>2, <2>1, <2>2, <2>3, <2>4 DEF IInv, TypeOK
  <1>8. CountsFacts'
    BY <1>4 DEF IInv, CountsFacts, TypeOK
  <1>9. TextCurrent'
    BY <1>1, <1>2, <1>6 DEF IInv, TextCurrent
  <1>10. Told' = [j \in DOMAIN Told \ {k} |-> Told[j]]
    BY <1>2, <1>6 DEF Told
  <1>11. Base!Discard
    BY <1>1, <1>10 DEF Base!Discard, Told
  <1> QED BY <1>7, <1>8, <1>9, <1>11 DEF IInv

---------------------------------------------------------------------------
\* Every step keeps the invariant, and is a step of the abstract specification
\* or one it does not see.
LEMMA NextKeeps == ASSUME IInv, [Next]_vars PROVE IInv' /\ [Base!Next]_(Base!vars)
  <1> USE DEF IInv, TypeOK, Told
  <1>1. CASE Close
    <2>1. /\ step # "idle" /\ step' = "idle" /\ text' = [text EXCEPT ![open] = Stale]
          /\ UNCHANGED <<relations, buffer>> /\ open' = open /\ misled' = misled
      BY <1>1 DEF Close
    <2>2. \A k \in live : text'[k] \in {Stale, FactsOf(k)}
      BY <2>1 DEF TextCurrent
    <2>3. IInv' /\ Told' = Told
      BY <2>1, <2>2, TextKeeps
    <2> QED BY <2>1, <2>3 DEF Base!Next, Base!Close
  <1>2. ASSUME NEW f \in Facts, Tell(f) PROVE IInv' /\ Base!Next
    <2>1. step # "idle" /\ set_tuple(open, f, FALSE) /\ UNCHANGED <<text, step, open, misled>>
      BY <1>2 DEF Tell
    <2> QED BY <2>1, WriteKeeps DEF Base!Next
  <1>3. ASSUME NEW f \in Facts, NEW remove \in BOOLEAN, Effect(f, remove) PROVE IInv' /\ Base!Next
    <2>1. step # "idle" /\ set_tuple(open, f, remove) /\ UNCHANGED <<text, step, open, misled>>
      BY <1>3 DEF Effect
    <2> QED BY <2>1, WriteKeeps DEF Base!Next
  <1>4. ASSUME NEW c \in Facts, NEW f \in Facts, NEW remove \in BOOLEAN,
               ConditionalEffect(c, f, remove)
        PROVE  IInv' /\ [Base!Next]_(Base!vars)
    <2>1. /\ step = "apply" /\ UNCHANGED <<step, open>> /\ open \in live
          /\ AskZ3(open, c) \/ UNCHANGED <<text, misled>>
          /\ set_tuple(open, f, remove) \/ UNCHANGED <<relations, buffer>>
      BY <1>4 DEF ConditionalEffect
    <2>2. /\ text' \in [live -> {Stale} \cup SUBSET Facts] /\ misled' \in BOOLEAN
          /\ \A j \in live : j # open => text'[j] = text[j]
      BY <2>1, TextIsFacts DEF AskZ3
    <2>3. CASE set_tuple(open, f, remove)
      BY <2>1, <2>2, <2>3, WriteKeeps DEF Base!Next
    <2>4. CASE UNCHANGED <<relations, buffer>>
      <3>1. \A k \in live : (step' = "idle" \/ k # open') => text'[k] \in {Stale, FactsOf(k)}
        BY <2>1, <2>2 DEF TextCurrent
      <3>2. IInv' /\ Told' = Told
        BY <2>1, <2>2, <2>4, <3>1, TextKeeps
      <3> QED BY <2>1, <3>2 DEF Base!vars
    <2> QED BY <2>1, <2>3, <2>4
  <1>5. ASSUME NEW k \in States, NEW f \in Facts, Ask(k, f) PROVE IInv' /\ UNCHANGED Base!vars
    <2>1. step = "idle" /\ k \in live /\ AskZ3(k, f) /\ UNCHANGED <<relations, buffer, step, open>>
      BY <1>5 DEF Ask
    <2>2. text' = [text EXCEPT ![k] = TextFor(k)] /\ misled' \in BOOLEAN
      BY <2>1 DEF AskZ3
    <2>3. TextFor(k) = FactsOf(k)
      BY <2>1 DEF TextFor, TextCurrent
    <2>4. text' \in [live -> {Stale} \cup SUBSET Facts]
      BY <2>1, <2>2, TextIsFacts
    <2>5. \A j \in live : text'[j] \in {Stale, FactsOf(j)}
      BY <2>1, <2>2, <2>3 DEF TextCurrent
    <2>6. IInv' /\ Told' = Told
      BY <2>1, <2>2, <2>4, <2>5, TextKeeps
    <2> QED BY <2>1, <2>6 DEF Base!vars
  <1>6. ASSUME NEW k \in States, Refresh(k) PROVE IInv' /\ UNCHANGED Base!vars
    <2>1. /\ step = "idle" /\ k \in live /\ text' = [text EXCEPT ![k] = Stale]
          /\ UNCHANGED <<relations, buffer, step, open, misled>>
      BY <1>6 DEF Refresh
    <2>2. \A j \in live : text'[j] \in {Stale, FactsOf(j)}
      BY <2>1 DEF TextCurrent
    <2>3. IInv' /\ Told' = Told
      BY <2>1, <2>2, TextKeeps
    <2> QED BY <2>1, <2>3 DEF Base!vars
  <1>7. ASSUME NEW k \in States, Discard(k) PROVE IInv' /\ Base!Next
    BY <1>7, DiscardKeeps DEF Base!Next
  <1>8. ASSUME NEW k \in States, NEW n \in States, CopyNode(k, n) \/ StartApply(k, n)
        PROVE  IInv' /\ Base!Next
    <2>1. Copy(k, n) /\ (UNCHANGED <<step, open>> \/ (step' = "apply" /\ open' = n))
      BY <1>8 DEF CopyNode, StartApply
    <2> QED BY <2>1, CopyKeeps DEF Base!Next
  <1>9. CASE UNCHANGED vars
    <2>1. IInv' /\ Told' = Told
      BY <1>9, TextKeeps DEF vars, TextCurrent
    <2> QED BY <1>9, <2>1 DEF vars, Base!vars
  <1> QED BY <1>1, <1>2, <1>3, <1>4, <1>5, <1>6, <1>7, <1>8, <1>9 DEF Next

---------------------------------------------------------------------------
THEOREM StatesInvariant == Spec => []IInv
  <1>1. Init => IInv
    BY InitKeeps
  <1>2. IInv /\ [Next]_vars => IInv'
    BY NextKeeps
  <1> QED BY <1>1, <1>2, PTL DEF Spec

\* Pointers lead to allocated buffers, whatever is copied, written and dropped.
THEOREM AlwaysTyped == Spec => []TypeOK
  <1>1. IInv => TypeOK
    BY DEF IInv
  <1> QED BY <1>1, StatesInvariant, PTL

\* The length of a buffer is the number of facts.
THEOREM AlwaysCounts == Spec => []CountsFacts
  <1>1. IInv => CountsFacts
    BY DEF IInv
  <1> QED BY <1>1, StatesInvariant, PTL

\* Sharing is invisible: the states of the search are independent sets of facts.
THEOREM StatesIndependent == Spec => Independent
  <1>1. Init => Base!Init
    BY InitKeeps
  <1>2. IInv /\ [Next]_vars => [Base!Next]_(Base!vars)
    BY NextKeeps
  <1> QED BY <1>1, <1>2, StatesInvariant, PTL DEF Spec, Independent, Base!Spec

\* Where the direct evaluator decides the conditions of effects, Z3 is never
\* asked about facts that do not hold any more.
THEOREM AnswersAgree == ASSUME Declined = {} PROVE Spec => []EnginesAgree
  <1>1. Init => EnginesAgree
    BY DEF Init, EnginesAgree
  <1>2. ASSUME IInv, EnginesAgree, [Next]_vars PROVE EnginesAgree'
    <2>1. CASE UNCHANGED misled
      BY <1>2, <2>1 DEF EnginesAgree
    <2>2. ASSUME NEW k \in States, NEW f \in Facts, Ask(k, f) PROVE EnginesAgree'
      <3>1. TextFor(k) = FactsOf(k)
        BY <1>2, <2>2 DEF Ask, TextFor, IInv, TextCurrent
      <3>2. misled' = (misled \/ (f \in FactsOf(k)) # (f \in FactsOf(k)))
        BY <2>2, <3>1, Zenon DEF Ask, AskZ3
      <3>3. misled' = (misled \/ FALSE)
        BY <3>2
      <3>4. misled = FALSE
        BY <1>2 DEF EnginesAgree, IInv, TypeOK
      <3>5. ~ misled'
        BY <3>3, <3>4
      <3> QED BY <3>5, Zenon DEF EnginesAgree
    <2>3. \A c \in Facts, f \in Facts, remove \in BOOLEAN :
            ConditionalEffect(c, f, remove) => UNCHANGED misled
      BY DEF ConditionalEffect
    <2>4. (\E k \in States, f \in Facts : Ask(k, f)) \/ UNCHANGED misled
      <3>1. CASE UNCHANGED vars
        BY <3>1 DEF vars
      <3>2. ASSUME NEW f \in Facts, NEW remove \in BOOLEAN, NEW c \in Facts,
                   Tell(f) \/ Effect(f, remove) \/ ConditionalEffect(c, f, remove)
            PROVE  UNCHANGED misled
        BY <2>3, <3>2 DEF Tell, Effect
      <3>3. ASSUME NEW k \in States, NEW n \in States,
                   Close \/ Refresh(k) \/ Discard(k) \/ CopyNode(k, n) \/ StartApply(k, n)
            PROVE  UNCHANGED misled
        BY <3>3 DEF Close, Refresh, Discard, CopyNode, StartApply, Copy
      <3> QED BY <1>2, <3>1, <3>2, <3>3, KbAssumption, Zenon DEF Next
    <2> QED BY <2>1, <2>2, <2>4
  <1> QED BY <1>1, <1>2, StatesInvariant, PTL DEF Spec

\* A state shares every relation that no write has changed.
THEOREM SharingKept == Spec => SharesUntouched
  <1> DEFINE Shares ==
        \A k \in live \cap live' : \A p \in Predicates :
          relation_of(k, p)' = relation_of(k, p) => relations'[k][p] = relations[k][p]
  <1>1. ASSUME IInv, Next PROVE Shares
    <2>1. CASE UNCHANGED relations
      BY <2>1
    <2>2. ASSUME NEW f \in Facts, NEW remove \in BOOLEAN, step # "idle", set_tuple(open, f, remove)
          PROVE  Shares
      <3>1. Pointers /\ CountsFacts /\ open \in live
        BY <1>1, <2>2 DEF IInv, TypeOK, Pointers
      <3> QED BY <2>2, <3>1, SetTuple
    <2>3. ASSUME NEW k \in States, NEW n \in States, Copy(k, n) PROVE Shares
      BY <2>3 DEF Copy, live
    <2>4. ASSUME NEW k \in States, Discard(k) PROVE Shares
      BY <2>4 DEF Discard, live
    <2>5. ASSUME NEW c \in Facts, NEW f \in Facts, NEW remove \in BOOLEAN,
                 ConditionalEffect(c, f, remove)
          PROVE  Shares
      BY <2>1, <2>2, <2>5 DEF ConditionalEffect
    <2>6. CASE \E f \in Facts : Tell(f)
      BY <2>2, <2>6 DEF Tell
    <2>7. CASE \E f \in Facts, remove \in BOOLEAN : Effect(f, remove)
      BY <2>2, <2>7 DEF Effect
    <2>8. CASE Close \/ \E k \in States : Refresh(k) \/ \E f \in Facts : Ask(k, f)
      BY <2>1, <2>8 DEF Close, Refresh, Ask
    <2>9. CASE \E k, n \in States : CopyNode(k, n) \/ StartApply(k, n)
      BY <2>3, <2>9 DEF CopyNode, StartApply
    <2> QED BY <1>1, <2>4, <2>5, <2>6, <2>7, <2>8, <2>9 DEF Next
  <1>2. IInv /\ [Next]_vars => [Shares]_vars
    BY <1>1
  <1> QED BY <1>2, StatesInvariant, PTL DEF Spec, SharesUntouched
=============================================================================
