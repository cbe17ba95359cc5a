-------------------------- MODULE DerivationProofs --------------------------
(***************************************************************************)
(* That the compiler and the planner derive the machine a problem file     *)
(* asks for, whatever files, patterns and sequences there are.             *)
(*                                                                         *)
(* Stated of prefixes, the machine is in the longest state that the bits   *)
(* end with. So the compiler's walk over the states and the transitions    *)
(* derived by the planner are each shown to lead there, by the lengths of  *)
(* states: a state falls back to a shorter one. The tasks on the planner's *)
(* stack get smaller from the last to the first, so none concludes what    *)
(* another one under it still has to.                                      *)
(***************************************************************************)
EXTENDS MachineDerivation, FiniteSetTheorems, SequenceTheorems, WellFoundedInduction, TLAPS

\* A sequence ends with another that its last bits are.
LEMMA SuffixIs ==
  ASSUME NEW s \in Seq(Bits), NEW t \in Seq(Bits)
  PROVE  IsSuffix(s, t) <=> /\ Len(s) <= Len(t)
                            /\ \A i \in 1 .. Len(s) : s[i] = t[Len(t) - Len(s) + i]
<1> DEFINE m == Len(s)
           n == Len(t)
           u == Reverse(s)
           v == Reverse(t)
<1>1. m \in Nat /\ n \in Nat /\ DOMAIN s = 1 .. m /\ DOMAIN t = 1 .. n  BY LenProperties
<1>2. u \in Seq(Bits) /\ Len(u) = m /\ \A i \in 1 .. m : u[i] = s[m - i + 1]
  BY DEF Reverse
<1>3. v \in Seq(Bits) /\ Len(v) = n /\ \A i \in 1 .. n : v[i] = t[n - i + 1]
  BY DEF Reverse
<1>4. IsSuffix(s, t) <=> m <= n /\ SubSeq(u, 1, m) = SubSeq(v, 1, m)
  BY <1>2, <1>3 DEF IsSuffix, IsPrefix
<1> HIDE DEF u, v, m, n
<1>5. ASSUME m <= n PROVE SubSeq(u, 1, m) = SubSeq(v, 1, m) <=> \A i \in 1 .. m : u[i] = v[i]
  <2>1. \A i \in 1 .. m : u[i] \in Bits /\ v[i] \in Bits
    BY <1>1, <1>2, <1>3, <1>5, ElementOfSeq
  <2>2. /\ SubSeq(u, 1, m) \in Seq(Bits) /\ Len(SubSeq(u, 1, m)) = m
        /\ \A i \in 1 .. m : SubSeq(u, 1, m)[i] = u[i]
    BY <1>1, <2>1
  <2>3. /\ SubSeq(v, 1, m) \in Seq(Bits) /\ Len(SubSeq(v, 1, m)) = m
        /\ \A i \in 1 .. m : SubSeq(v, 1, m)[i] = v[i]
    BY <1>1, <2>1
  <2> QED  BY <2>2, <2>3, SeqEqual
<1>6. ASSUME m <= n, \A i \in 1 .. m : u[i] = v[i], NEW i \in 1 .. m PROVE s[i] = t[n - m + i]
  <2>1. m - i + 1 \in 1 .. m /\ m - i + 1 \in 1 .. n  BY <1>1, <1>6
  <2>2. u[m - i + 1] = s[m - (m - i + 1) + 1] /\ v[m - i + 1] = t[n - (m - i + 1) + 1]  BY <1>2, <1>3, <2>1
  <2>3. m - (m - i + 1) + 1 = i /\ n - (m - i + 1) + 1 = n - m + i  BY <1>1, <1>6
  <2> QED  BY <1>6, <2>1, <2>2, <2>3
<1>7. ASSUME m <= n, \A i \in 1 .. m : s[i] = t[n - m + i], NEW i \in 1 .. m PROVE u[i] = v[i]
  <2>1. m - i + 1 \in 1 .. m /\ i \in 1 .. n /\ n - m + (m - i + 1) = n - i + 1  BY <1>1, <1>7
  <2>2. u[i] = s[m - i + 1] /\ v[i] = t[n - i + 1]  BY <1>2, <1>3, <2>1
  <2>3. s[m - i + 1] = t[n - m + (m - i + 1)]  BY <1>7, <2>1
  <2> QED  BY <2>1, <2>2, <2>3
<1>8. m = Len(s) /\ n = Len(t)  BY DEF m, n
<1> QED  BY <1>4, <1>5, <1>6, <1>7, <1>8

\* A sequence ends with itself, and with nothing.
LEMMA SuffixRefl == \A s \in Seq(Bits) : IsSuffix(s, s) /\ IsSuffix(<<>>, s)
<1> TAKE s \in Seq(Bits)
<1>1. Len(s) \in Nat /\ <<>> \in Seq(Bits) /\ Len(<<>>) = 0  BY LenProperties
<1>2. \A i \in 1 .. Len(s) : Len(s) - Len(s) + i = i  BY <1>1
<1>3. PICK e \in Seq(Bits) : e = <<>>  BY <1>1
<1>4. IsSuffix(s, s)  BY <1>1, <1>2, SuffixIs
<1>5. IsSuffix(e, s)
  <2>1. Len(e) <= Len(s)  BY <1>1, <1>3
  <2>2. \A i \in 1 .. Len(e) : e[i] = s[Len(s) - Len(e) + i]  BY <1>1, <1>3
  <2> QED  BY <2>1, <2>2, SuffixIs
<1> QED  BY <1>3, <1>4, <1>5

\* What ends with a sequence ends with what that one ends with.
LEMMA SuffixTrans ==
  ASSUME NEW s \in Seq(Bits), NEW t \in Seq(Bits), NEW u \in Seq(Bits), IsSuffix(s, t), IsSuffix(t, u)
  PROVE  IsSuffix(s, u)
<1>1. Len(s) \in Nat /\ Len(t) \in Nat /\ Len(u) \in Nat  BY LenProperties
<1>2. Len(s) <= Len(t) /\ \A i \in 1 .. Len(s) : s[i] = t[Len(t) - Len(s) + i]  BY SuffixIs
<1>3. Len(t) <= Len(u) /\ \A i \in 1 .. Len(t) : t[i] = u[Len(u) - Len(t) + i]  BY SuffixIs
<1>4. ASSUME NEW i \in 1 .. Len(s) PROVE s[i] = u[Len(u) - Len(s) + i]
  <2>1. Len(t) - Len(s) + i \in 1 .. Len(t)  BY <1>1, <1>2
  <2>2. Len(u) - Len(t) + (Len(t) - Len(s) + i) = Len(u) - Len(s) + i  BY <1>1
  <2> QED  BY <1>2, <1>3, <2>1, <2>2
<1> QED  BY <1>1, <1>2, <1>3, <1>4, SuffixIs

\* Of two ends of a sequence the shorter is an end of the longer.
LEMMA SuffixNested ==
  ASSUME NEW s \in Seq(Bits), NEW t \in Seq(Bits), NEW u \in Seq(Bits),
         IsSuffix(s, u), IsSuffix(t, u), Len(s) <= Len(t)
  PROVE  IsSuffix(s, t)
<1>1. Len(s) \in Nat /\ Len(t) \in Nat /\ Len(u) \in Nat  BY LenProperties
<1>2. Len(s) <= Len(u) /\ \A i \in 1 .. Len(s) : s[i] = u[Len(u) - Len(s) + i]  BY SuffixIs
<1>3. Len(t) <= Len(u) /\ \A i \in 1 .. Len(t) : t[i] = u[Len(u) - Len(t) + i]  BY SuffixIs
<1>4. ASSUME NEW i \in 1 .. Len(s) PROVE s[i] = t[Len(t) - Len(s) + i]
  <2>1. Len(t) - Len(s) + i \in 1 .. Len(t)  BY <1>1
  <2>2. Len(u) - Len(t) + (Len(t) - Len(s) + i) = Len(u) - Len(s) + i  BY <1>1
  <2> QED  BY <1>2, <1>3, <2>1, <2>2
<1> QED  BY <1>1, <1>4, SuffixIs

\* An end is no longer than the whole, and as long only if it is the whole.
LEMMA SuffixLen ==
  ASSUME NEW s \in Seq(Bits), NEW t \in Seq(Bits), IsSuffix(s, t)
  PROVE  Len(s) <= Len(t) /\ (Len(s) = Len(t) => s = t)
<1>1. Len(s) \in Nat /\ Len(t) \in Nat  BY LenProperties
<1>2. Len(s) <= Len(t) /\ \A i \in 1 .. Len(s) : s[i] = t[Len(t) - Len(s) + i]  BY SuffixIs
<1>3. ASSUME Len(s) = Len(t) PROVE s = t
  <2>1. \A i \in 1 .. Len(s) : s[i] = t[i]  BY <1>1, <1>2, <1>3
  <2> QED  BY <1>3, <2>1, SeqEqual
<1> QED  BY <1>2, <1>3

\* Sequences that end with each other are one.
LEMMA SuffixBoth ==
  ASSUME NEW s \in Seq(Bits), NEW t \in Seq(Bits), IsSuffix(s, t), IsSuffix(t, s)
  PROVE  s = t
<1>1. Len(s) \in Nat /\ Len(t) \in Nat  BY LenProperties
<1> QED  BY <1>1, SuffixLen

\* A bit at the end of both.
LEMMA SuffixAppend ==
  ASSUME NEW s \in Seq(Bits), NEW t \in Seq(Bits), NEW b \in Bits, NEW c \in Bits
  PROVE  IsSuffix(Append(s, b), Append(t, c)) <=> b = c /\ IsSuffix(s, t)
<1> DEFINE x == Append(s, b)
           y == Append(t, c)
<1>1. Len(s) \in Nat /\ Len(t) \in Nat  BY LenProperties
<1>2. x \in Seq(Bits) /\ Len(x) = Len(s) + 1 /\ x[Len(s) + 1] = b /\ \A i \in 1 .. Len(s) : x[i] = s[i]
  BY AppendProperties
<1>3. y \in Seq(Bits) /\ Len(y) = Len(t) + 1 /\ y[Len(t) + 1] = c /\ \A i \in 1 .. Len(t) : y[i] = t[i]
  BY AppendProperties
<1> HIDE DEF x, y
<1>4. ASSUME b = c, IsSuffix(s, t) PROVE IsSuffix(x, y)
  <2>1. Len(s) <= Len(t) /\ \A i \in 1 .. Len(s) : s[i] = t[Len(t) - Len(s) + i]  BY <1>4, SuffixIs
  <2>2. ASSUME NEW i \in 1 .. Len(x) PROVE x[i] = y[Len(y) - Len(x) + i]
    <3>1. CASE i = Len(s) + 1
      <4>1. Len(y) - Len(x) + i = Len(t) + 1  BY <1>1, <1>2, <1>3, <3>1
      <4> QED  BY <1>2, <1>3, <1>4, <3>1, <4>1
    <3>2. CASE i # Len(s) + 1
      <4>1. i \in 1 .. Len(s)  BY <1>1, <1>2, <2>2, <3>2
      <4>2. Len(y) - Len(x) + i = Len(t) - Len(s) + i /\ Len(t) - Len(s) + i \in 1 .. Len(t)
        BY <1>1, <1>2, <1>3, <2>1, <4>1
      <4> QED  BY <1>2, <1>3, <2>1, <4>1, <4>2
    <3> QED  BY <3>1, <3>2
  <2>3. Len(x) <= Len(y)  BY <1>1, <1>2, <1>3, <2>1
  <2> QED  BY <1>2, <1>3, <2>2, <2>3, SuffixIs
<1>5. ASSUME IsSuffix(x, y) PROVE b = c /\ IsSuffix(s, t)
  <2>1. Len(x) <= Len(y) /\ \A i \in 1 .. Len(x) : x[i] = y[Len(y) - Len(x) + i]  BY <1>2, <1>3, <1>5, SuffixIs
  <2>2. Len(s) <= Len(t)  BY <1>1, <1>2, <1>3, <2>1
  <2>3. b = c
    <3>1. Len(s) + 1 \in 1 .. Len(x) /\ Len(y) - Len(x) + (Len(s) + 1) = Len(t) + 1  BY <1>1, <1>2, <1>3
    <3> QED  BY <1>2, <1>3, <2>1, <3>1
  <2>4. ASSUME NEW i \in 1 .. Len(s) PROVE s[i] = t[Len(t) - Len(s) + i]
    <3>1. i \in 1 .. Len(x)  BY <1>1, <1>2
    <3>2. Len(y) - Len(x) + i = Len(t) - Len(s) + i /\ Len(t) - Len(s) + i \in 1 .. Len(t)
      BY <1>1, <1>2, <1>3, <2>2
    <3> QED  BY <1>2, <1>3, <2>1, <3>1, <3>2
  <2> QED  BY <2>2, <2>3, <2>4, SuffixIs
<1> QED  BY <1>4, <1>5 DEF x, y

\* A sequence of at least one bit, but for its last, and its last.
LEMMA FrontLast ==
  ASSUME NEW s \in Seq(Bits), s # <<>>
  PROVE  /\ Front(s) \in Seq(Bits) /\ Last(s) \in Bits /\ s = Append(Front(s), Last(s))
         /\ Len(s) \in Nat /\ Len(Front(s)) = Len(s) - 1 /\ Len(s) >= 1
<1>1. PICK t \in Seq(Bits), b \in Bits : s = Append(t, b)  BY SequenceEmptyOrAppend
<1>2. Len(t) \in Nat /\ Len(s) = Len(t) + 1 /\ s[Len(t) + 1] = b /\ \A i \in 1 .. Len(t) : s[i] = t[i]
  BY <1>1, LenProperties, AppendProperties
<1>3. Last(s) = b  BY <1>2 DEF Last
<1>4. Front(s) = t
  <2>1. Len(s) - 1 = Len(t) /\ Len(t) \in Int /\ 1 \in Int  BY <1>2
  <2>2. \A i \in 1 .. Len(t) : s[i] \in Bits  BY <1>2, ElementOfSeq
  <2>3. /\ SubSeq(s, 1, Len(t)) \in Seq(Bits)
        /\ Len(SubSeq(s, 1, Len(t))) = IF 1 <= Len(t) THEN Len(t) - 1 + 1 ELSE 0
        /\ \A i \in 1 .. Len(t) - 1 + 1 : SubSeq(s, 1, Len(t))[i] = s[1 + i - 1]
    BY <2>1, <2>2, SubSeqProperties
  <2>4. Len(SubSeq(s, 1, Len(t))) = Len(t) /\ \A i \in 1 .. Len(t) : SubSeq(s, 1, Len(t))[i] = t[i]
    BY <1>2, <2>3
  <2> QED  BY <2>1, <2>3, <2>4, SeqEqual DEF Front
<1> QED  BY <1>1, <1>2, <1>3, <1>4

\* What Front and Last undo.
LEMMA FrontOfAppend ==
  ASSUME NEW s \in Seq(Bits), NEW b \in Bits
  PROVE  /\ Append(s, b) \in Seq(Bits) /\ Append(s, b) # <<>> /\ Len(Append(s, b)) = Len(s) + 1
         /\ Front(Append(s, b)) = s /\ Last(Append(s, b)) = b
<1>1. Append(s, b) \in Seq(Bits) /\ Append(s, b) # <<>> /\ Len(Append(s, b)) = Len(s) + 1  BY AppendProperties
<1>2. Append(Front(Append(s, b)), Last(Append(s, b))) = Append(s, b)
      /\ Front(Append(s, b)) \in Seq(Bits) /\ Last(Append(s, b)) \in Bits  BY <1>1, FrontLast
<1> QED  BY <1>1, <1>2, AppendInjective

---------------------------------------------------------------------------
(*************************************************************************)
(* States as prefixes: the longest one that some bits end with, and the  *)
(* one a state falls back to.                                            *)
(*************************************************************************)
\* A set of states: prefixes, with every prefix the ones before it.
Closed(S) == S \subseteq Seq(Bits) /\ <<>> \in S /\ \A x \in S : x # <<>> => Front(x) \in S

\* x is the longest of the states that the bits w end with.
Longest(S, w, x) == x \in S /\ IsSuffix(x, w) /\ \A q \in S : IsSuffix(q, w) => IsSuffix(q, x)

\* f is the longest of the states that x ends with, x itself aside.
Falls_to(S, x, f) ==
  f \in S /\ f # x /\ IsSuffix(f, x) /\ \A q \in S : q # x /\ IsSuffix(q, x) => IsSuffix(q, f)

\* There is one longest state.
LEMMA OneLongest ==
  ASSUME NEW S, Closed(S), NEW w, NEW x, NEW y, Longest(S, w, x), Longest(S, w, y)
  PROVE  x = y
<1>1. IsSuffix(x, y) /\ IsSuffix(y, x) /\ x \in Seq(Bits) /\ y \in Seq(Bits)  BY DEF Longest, Closed
<1> QED  BY <1>1, SuffixBoth

\* Of a state it is the state itself.
LEMMA LongestItself ==
  ASSUME NEW S, Closed(S), NEW x \in S
  PROVE  Longest(S, x, x)
<1> QED  BY SuffixRefl DEF Longest, Closed

\* A state shorter by the end is itself a state.
LEMMA EndsLater ==
  ASSUME NEW S, Closed(S), NEW w \in Seq(Bits), NEW b \in Bits,
         NEW q \in S, IsSuffix(q, Append(w, b)), q # <<>>
  PROVE  Front(q) \in S /\ Front(q) \in Seq(Bits) /\ IsSuffix(Front(q), w) /\ q = Append(Front(q), b)
<1>1. q \in Seq(Bits) /\ Front(q) \in S  BY DEF Closed
<1>2. q = Append(Front(q), Last(q)) /\ Front(q) \in Seq(Bits) /\ Last(q) \in Bits  BY <1>1, FrontLast
<1>3. IsSuffix(Append(Front(q), Last(q)), Append(w, b))  BY <1>2
<1>4. Last(q) = b /\ IsSuffix(Front(q), w)  BY <1>2, <1>3, SuffixAppend
<1> QED  BY <1>1, <1>2, <1>4

\* Reading a bit in v and in w comes to the same if they end with the same states
\* among those the bit can be added to.
LEMMA SameEnds ==
  ASSUME NEW S, Closed(S), NEW v \in Seq(Bits), NEW w \in Seq(Bits), NEW b \in Bits,
         \A q \in S : Append(q, b) \in S => (IsSuffix(q, v) <=> IsSuffix(q, w))
  PROVE  \A q \in S : IsSuffix(q, Append(v, b)) <=> IsSuffix(q, Append(w, b))
<1> TAKE q \in S
<1>1. Append(v, b) \in Seq(Bits) /\ Append(w, b) \in Seq(Bits)  BY AppendProperties
<1>2. CASE q = <<>>  BY <1>1, <1>2, SuffixRefl
<1>3. CASE q # <<>>
  <2>1. ASSUME IsSuffix(q, Append(v, b)) PROVE IsSuffix(q, Append(w, b))
    <3>1. Front(q) \in S /\ Front(q) \in Seq(Bits) /\ IsSuffix(Front(q), v) /\ q = Append(Front(q), b)
      BY <1>3, <2>1, EndsLater
    <3>2. IsSuffix(Front(q), w)  BY <3>1
    <3>3. IsSuffix(Append(Front(q), b), Append(w, b))  BY <3>1, <3>2, SuffixAppend
    <3> QED  BY <3>1, <3>3
  <2>2. ASSUME IsSuffix(q, Append(w, b)) PROVE IsSuffix(q, Append(v, b))
    <3>1. Front(q) \in S /\ Front(q) \in Seq(Bits) /\ IsSuffix(Front(q), w) /\ q = Append(Front(q), b)
      BY <1>3, <2>2, EndsLater
    <3>2. IsSuffix(Front(q), v)  BY <3>1
    <3>3. IsSuffix(Append(Front(q), b), Append(v, b))  BY <3>1, <3>2, SuffixAppend
    <3> QED  BY <3>1, <3>3
  <2> QED  BY <2>1, <2>2
<1> QED  BY <1>2, <1>3

\* Bits that end with the same states end with the same longest one.
LEMMA SameLongest ==
  ASSUME NEW S, NEW v, NEW w, NEW x,
         \A q \in S : IsSuffix(q, v) <=> IsSuffix(q, w), Longest(S, v, x)
  PROVE  Longest(S, w, x)
<1> QED  BY DEF Longest

\* Where no state goes on with the bit, it is read where the state falls back to.
LEMMA GoesWhereItFalls ==
  ASSUME NEW S, Closed(S), NEW x \in S, NEW b \in Bits, Append(x, b) \notin S,
         NEW f, Falls_to(S, x, f), NEW y, Longest(S, Append(f, b), y)
  PROVE  Longest(S, Append(x, b), y)
<1>1. x \in Seq(Bits) /\ f \in Seq(Bits) /\ f \in S  BY DEF Closed, Falls_to
<1>2. ASSUME NEW q \in S, Append(q, b) \in S PROVE IsSuffix(q, f) <=> IsSuffix(q, x)
  <2>1. q # x /\ q \in Seq(Bits)  BY <1>2 DEF Closed
  <2>2. IsSuffix(q, f) => IsSuffix(q, x)  BY <1>1, <2>1, SuffixTrans DEF Falls_to
  <2> QED  BY <2>1, <2>2 DEF Falls_to
<1>3. \A q \in S : IsSuffix(q, Append(f, b)) <=> IsSuffix(q, Append(x, b))  BY <1>1, <1>2, SameEnds
<1> QED  BY <1>3, SameLongest

\* Where the first state goes on a bit that no state begins with.
LEMMA StaysAtStart ==
  ASSUME NEW S, Closed(S), NEW b \in Bits, Append(<<>>, b) \notin S
  PROVE  Longest(S, Append(<<>>, b), <<>>)
<1>0. <<>> \in Seq(Bits) /\ <<>> \in S  BY DEF Closed
<1>1. Append(<<>>, b) \in Seq(Bits) /\ <<>> \in S  BY <1>0, AppendProperties
<1>2. ASSUME NEW q \in S, IsSuffix(q, Append(<<>>, b)), q # <<>> PROVE FALSE
  <2>1. Front(q) \in S /\ Front(q) \in Seq(Bits) /\ IsSuffix(Front(q), <<>>) /\ q = Append(Front(q), b)
    BY <1>0, <1>2, EndsLater
  <2>2. Front(q) = <<>>  BY <1>0, <2>1, SuffixRefl, SuffixBoth
  <2> QED  BY <2>1, <2>2
<1>3. IsSuffix(<<>>, Append(<<>>, b)) /\ IsSuffix(<<>>, <<>>)  BY <1>0, <1>1, SuffixRefl
<1> QED  BY <1>1, <1>2, <1>3 DEF Longest

\* The fallback of a state of one bit, and of the next state from that of a state.
LEMMA FirstFalls ==
  ASSUME NEW S, Closed(S), NEW x \in S, x # <<>>, Front(x) = <<>>
  PROVE  Falls_to(S, x, <<>>)
<1>0. <<>> \in Seq(Bits) /\ <<>> \in S /\ x \in Seq(Bits)  BY DEF Closed
<1>1. x = Append(<<>>, Last(x)) /\ Last(x) \in Bits  BY <1>0, FrontLast
<1>2. ASSUME NEW q \in S, IsSuffix(q, x), q # x, q # <<>> PROVE FALSE
  <2>1. Front(q) \in Seq(Bits) /\ IsSuffix(Front(q), <<>>) /\ q = Append(Front(q), Last(x))
    <3>1. PICK c \in Bits : c = Last(x) /\ x = Append(<<>>, c)  BY <1>1
    <3>2. IsSuffix(q, Append(<<>>, c))  BY <1>2, <3>1
    <3>3. Front(q) \in Seq(Bits) /\ IsSuffix(Front(q), <<>>) /\ q = Append(Front(q), c)
      BY <1>0, <1>2, <3>2, EndsLater
    <3> QED  BY <3>1, <3>3
  <2>2. Front(q) = <<>>  BY <1>0, <2>1, SuffixRefl, SuffixBoth
  <2> QED  BY <1>1, <1>2, <2>1, <2>2
<1>3. IsSuffix(<<>>, x) /\ IsSuffix(<<>>, <<>>)  BY <1>0, SuffixRefl
<1> QED  BY <1>0, <1>2, <1>3 DEF Falls_to

\* A fallback is shorter.
LEMMA FallsShorter ==
  ASSUME NEW S, Closed(S), NEW x \in S, NEW f, Falls_to(S, x, f)
  PROVE  Len(f) < Len(x) /\ Len(f) \in Nat /\ Len(x) \in Nat /\ f \in Seq(Bits) /\ x \in Seq(Bits)
<1>1. f \in Seq(Bits) /\ x \in Seq(Bits) /\ IsSuffix(f, x) /\ f # x  BY DEF Closed, Falls_to
<1>2. Len(f) \in Nat /\ Len(x) \in Nat  BY <1>1, LenProperties
<1> QED  BY <1>1, <1>2, SuffixLen

\* The fallback of a state is where the fallback of the one before it goes on its last bit.
LEMMA FallsFurther ==
  ASSUME NEW S, Closed(S), NEW x \in S, x # <<>>, Front(x) # <<>>,
         NEW f, Falls_to(S, Front(x), f), NEW y, Longest(S, Append(f, Last(x)), y)
  PROVE  Falls_to(S, x, y)
<1> DEFINE z == Front(x)
           c == Last(x)
<1>1. x \in Seq(Bits) /\ z \in Seq(Bits) /\ c \in Bits /\ x = Append(z, c) /\ z \in S
      /\ Len(z) = Len(x) - 1 /\ Len(x) \in Nat
  BY FrontLast DEF Closed
<1> HIDE DEF z, c
<1>2. Falls_to(S, z, f) /\ Longest(S, Append(f, c), y)  BY DEF z, c
<1>3. f \in S /\ f # z /\ f \in Seq(Bits) /\ IsSuffix(f, z) /\ Len(f) < Len(z) /\ Len(f) \in Nat
  BY <1>1, <1>2, FallsShorter DEF Falls_to
<1>4. /\ Append(f, c) \in Seq(Bits) /\ Len(Append(f, c)) = Len(f) + 1 /\ IsSuffix(Append(f, c), x)
      /\ y \in S /\ y \in Seq(Bits) /\ IsSuffix(y, Append(f, c)) /\ Len(y) \in Nat
  BY <1>1, <1>2, <1>3, AppendProperties, SuffixAppend, LenProperties DEF Longest, Closed
<1>5. IsSuffix(y, x)  BY <1>1, <1>4, SuffixTrans
<1>6. y # x
  <2>1. Len(y) <= Len(Append(f, c))  BY <1>4, SuffixLen
  <2> QED  BY <1>1, <1>3, <1>4, <2>1
<1>7. ASSUME NEW q \in S, q # x, IsSuffix(q, x) PROVE IsSuffix(q, y)
  <2>1. CASE q = <<>>  BY <2>1, <1>4, SuffixRefl
  <2>2. CASE q # <<>>
    <3>1. Front(q) \in S /\ Front(q) \in Seq(Bits) /\ IsSuffix(Front(q), z) /\ q = Append(Front(q), c)
      BY <1>1, <1>7, <2>2, EndsLater
    <3>2. Front(q) # z  BY <1>1, <1>7, <3>1
    <3>3. IsSuffix(Front(q), f)  BY <1>2, <3>1, <3>2 DEF Falls_to
    <3>4. IsSuffix(Append(Front(q), c), Append(f, c))  BY <1>1, <1>3, <3>1, <3>3, SuffixAppend
    <3>5. IsSuffix(q, Append(f, c))  BY <3>1, <3>4
    <3> QED  BY <1>2, <3>5 DEF Longest
  <2> QED  BY <2>1, <2>2
<1> QED  BY <1>4, <1>5, <1>6, <1>7 DEF Falls_to

\* A set of numbers has a least one.
LEMMA Least ==
  ASSUME NEW T, T \subseteq Nat, T # {}
  PROVE  \E x \in T : \A y \in T : x <= y
<1> DEFINE R == OpToRel(<, Nat)
<1>1. IsWellFoundedOn(R, Nat)  BY NatLessThanWellFounded
<1>2. ASSUME NEW m \in Nat, NEW n \in Nat, <<n, m>> \notin R PROVE m <= n  BY <1>2 DEF OpToRel
<1> HIDE DEF R
<1>3. PICK x \in T : \A y \in T : <<y, x>> \notin R  BY <1>1, WFMin
<1>4. \A y \in T : x <= y  BY <1>2, <1>3
<1> QED  BY <1>4

---------------------------------------------------------------------------
(*************************************************************************)
(* What is asked of a design.                                            *)
(*************************************************************************)
\* Where the machine of a design goes from a state on a bit.
Goal(p, d, x, b, y) ==
  IF <<x, b>> \in d.holds THEN y = x
  ELSE IF p.kind = "mealy" /\ ~ p.overlapping /\ Append(x, b) = p.pattern THEN y = <<>>
  ELSE IF p.kind = "moore" /\ ~ p.overlapping /\ x = p.pattern THEN Longest(d.states, Append(<<>>, b), y)
  ELSE Longest(d.states, Append(x, b), y)

\* Where the machine goes from the states of C is in C.
Stays_in(p, d, C) == \A x \in C, b \in Bits : \A y : Goal(p, d, x, b, y) => y \in C

\* The states listed, each once, from the initial one, are the ones it leads to.
Lists(p, d) ==
  /\ d.listed \in Seq(d.states) /\ d.listed # <<>> /\ d.listed[1] = d.initial
  /\ \A i, j \in DOMAIN d.listed : d.listed[i] = d.listed[j] => i = j
  /\ Stays_in(p, d, ToSet(d.listed))
  /\ \A C : d.initial \in C /\ Stays_in(p, d, C) => ToSet(d.listed) \subseteq C

\* The design of a detector: the prefixes of its pattern.
Detects(p, d) ==
  /\ p.kind \in {"mealy", "moore"} /\ p.overlapping \in BOOLEAN
  /\ p.pattern \in Seq(Bits) /\ p.pattern # <<>>
  /\ d.holds = {} /\ d.initial = <<>>
  /\ d.asserted = IF p.kind = "moore" THEN {<<"detected", p.pattern>>} ELSE {}
  /\ IF p.kind = "moore" THEN p.pattern \in d.states /\ \A x \in d.states : Len(x) <= Len(p.pattern)
     ELSE Front(p.pattern) \in d.states /\ \A x \in d.states : Len(x) < Len(p.pattern)

\* A recogniser's sequences.
SequencesOf(p) == {sequence_bits(f[2]) : f \in p.recognises}

\* The design of a recogniser: no sequence ends another state, and the states
\* held and the outputs asserted are those of the sequences.
Recognises_as(p, d) ==
  /\ p.kind = "recogniser" /\ p.overlapping = TRUE /\ d.initial \in d.states
  /\ \A s \in SequencesOf(p) : s \in d.states /\ s # <<>> /\ \A x \in d.states : IsSuffix(s, x) => x = s
  /\ \A h \in d.holds : h \in SequencesOf(p) \X Bits
  /\ \A x, b : <<x, b>> \in d.holds <=>
       b \in Bits /\ \E f \in p.recognises : x = sequence_bits(f[2]) /\ <<f[1], b>> \in p.keeps
  /\ d.asserted = {<<f[1], sequence_bits(f[2])>> : f \in p.recognises}

\* What the compiler promises of an accepted file.
Sound(p, d) ==
  /\ IsFiniteSet(d.states) /\ Closed(d.states) /\ d.start = <<>>
  /\ Lists(p, d)
  /\ Detects(p, d) \/ Recognises_as(p, d)
  /\ d.encoding = encoding(d.listed)

\* The first bits of a sequence.
LEMMA Prefix ==
  ASSUME NEW w \in Seq(Bits), NEW k \in 0 .. Len(w)
  PROVE  /\ SubSeq(w, 1, k) \in Seq(Bits) /\ Len(SubSeq(w, 1, k)) = k
         /\ SubSeq(w, 1, 0) = <<>>
         /\ k > 0 => /\ Front(SubSeq(w, 1, k)) = SubSeq(w, 1, k - 1) /\ w[k] \in Bits
                     /\ SubSeq(w, 1, k) = Append(SubSeq(w, 1, k - 1), w[k])
<1>1. Len(w) \in Nat /\ k \in Nat /\ \A i \in 1 .. Len(w) : w[i] \in Bits  BY LenProperties, ElementOfSeq
<1>2. ASSUME NEW j \in 0 .. Len(w)
      PROVE  /\ SubSeq(w, 1, j) \in Seq(Bits) /\ Len(SubSeq(w, 1, j)) = j
             /\ \A i \in 1 .. j : SubSeq(w, 1, j)[i] = w[i]
  BY <1>1
<1>3. SubSeq(w, 1, 0) = <<>>  BY SubSeqEmpty
<1>4. ASSUME k > 0 PROVE SubSeq(w, 1, k) = Append(SubSeq(w, 1, k - 1), w[k]) /\ w[k] \in Bits
  <2>1. k - 1 \in 0 .. Len(w) /\ k \in 1 .. Len(w)  BY <1>1, <1>4
  <2> DEFINE s == SubSeq(w, 1, k - 1)
             t == SubSeq(w, 1, k)
  <2>2. s \in Seq(Bits) /\ Len(s) = k - 1 /\ \A i \in 1 .. k - 1 : s[i] = w[i]  BY <1>2, <2>1
  <2>3. t \in Seq(Bits) /\ Len(t) = k /\ \A i \in 1 .. k : t[i] = w[i]  BY <1>2
  <2>4. w[k] \in Bits  BY <1>1, <2>1
  <2> HIDE DEF s, t
  <2>5. /\ Append(s, w[k]) \in Seq(Bits) /\ Len(Append(s, w[k])) = k
        /\ Append(s, w[k])[k] = w[k] /\ \A i \in 1 .. k - 1 : Append(s, w[k])[i] = w[i]
    BY <1>1, <2>2, <2>4, AppendProperties
  <2>6. \A i \in 1 .. k : t[i] = Append(s, w[k])[i]  BY <1>1, <2>3, <2>5
  <2>7. t = Append(s, w[k])  BY <2>3, <2>5, <2>6, SeqEqual
  <2> QED  BY <2>4, <2>7 DEF s, t
<1>5. ASSUME k > 0 PROVE Front(SubSeq(w, 1, k)) = SubSeq(w, 1, k - 1)
  <2>1. k - 1 \in 0 .. Len(w)  BY <1>1, <1>5
  <2>2. SubSeq(w, 1, k - 1) \in Seq(Bits)  BY <1>2, <2>1
  <2> QED  BY <1>4, <1>5, <2>2, FrontOfAppend
<1> QED  BY <1>2, <1>3, <1>4, <1>5

\* A chain of prefixes is followed to its end.
LEMMA ChainFollowed ==
  ASSUME NEW w \in Seq(Bits)
  PROVE  states_of(<<>>, Chain(w)) = [k \in 1 .. Len(w) + 1 |-> SubSeq(w, 1, k - 1)]
<1> DEFINE n == Len(w)
           D == {SubSeq(w, 1, k) : k \in 0 .. n - 1}
           E == [k \in 0 .. n |-> SubSeq(w, 1, k)]
           after == Chain(w)
<1>1. n \in Nat  BY LenProperties
<1>2. DOMAIN after = D /\ \A y \in D : after[y] = SubSeq(w, 1, Len(y) + 1)  BY DEF Chain
<1>3. \A k \in 0 .. n : SubSeq(w, 1, k) \in Seq(Bits) /\ Len(SubSeq(w, 1, k)) = k  BY Prefix
<1>4. Cardinality(D) = n
  <2> DEFINE g == [k \in 0 .. n - 1 |-> SubSeq(w, 1, k)]
  <2>1. g \in Surjection(0 .. n - 1, D)  BY DEF Surjection
  <2>2. g \in Injection(0 .. n - 1, D)
    <3>1. \A k \in 0 .. n - 1 : Len(SubSeq(w, 1, k)) = k  BY <1>1, <1>3
    <3>2. \A j, k \in 0 .. n - 1 : g[j] = g[k] => j = k  BY <3>1
    <3>3. g \in [0 .. n - 1 -> D]  OBVIOUS
    <3> HIDE DEF g, D
    <3> QED  BY <3>2, <3>3 DEF Injection, IsInjective
  <2>3. 0 \in Int /\ n - 1 \in Int  BY <1>1
  <2>4. IsFiniteSet(0 .. n - 1) /\ Cardinality(0 .. n - 1) = IF 0 > n - 1 THEN 0 ELSE n - 1 - 0 + 1
    BY <2>3, FS_Interval
  <2>5. Cardinality(0 .. n - 1) = n  BY <1>1, <2>4
  <2> HIDE DEF g, D
  <2> QED  BY <2>1, <2>2, <2>4, <2>5, FS_Surjection
<1> DEFINE IsAt(f) == f = [k \in 0 .. n |-> IF k = 0 THEN <<>> ELSE after[f[k - 1]]]
           At == CHOOSE f : IsAt(f)
<1> HIDE DEF after, D
<1>5. IsAt(E)
  <2>1. ASSUME NEW k \in 0 .. n PROVE E[k] = IF k = 0 THEN <<>> ELSE after[E[k - 1]]
    <3>1. CASE k = 0  BY <1>1, <3>1, Prefix
    <3>2. CASE k # 0
      <4>1. k - 1 \in 0 .. n /\ k - 1 \in 0 .. n - 1  BY <1>1, <3>2
      <4>2. E[k - 1] = SubSeq(w, 1, k - 1) /\ Len(E[k - 1]) = k - 1 /\ E[k - 1] \in D  BY <1>3, <4>1 DEF D
      <4>3. after[E[k - 1]] = SubSeq(w, 1, (k - 1) + 1)  BY <1>2, <4>2
      <4> QED  BY <1>1, <3>2, <4>3
    <3> QED  BY <3>1, <3>2
  <2>2. E = [k \in 0 .. n |-> E[k]]  OBVIOUS
  <2> HIDE DEF E
  <2> QED  BY <2>1, <2>2
<1>6. \A f : IsAt(f) => f = E
  <2> SUFFICES ASSUME NEW f, IsAt(f) PROVE f = E
    OBVIOUS
  <2> DEFINE Differ == {k \in 0 .. n : f[k] # E[k]}
  <2>1. f = [k \in 0 .. n |-> f[k]] /\ E = [k \in 0 .. n |-> E[k]]  OBVIOUS
  <2>2. \A k \in 0 .. n : f[k] = IF k = 0 THEN <<>> ELSE after[f[k - 1]]  OBVIOUS
  <2>3. \A k \in 0 .. n : E[k] = IF k = 0 THEN <<>> ELSE after[E[k - 1]]
    <3> HIDE DEF E
    <3> QED  BY <1>5
  <2> HIDE DEF E, IsAt
  <2>4. Differ = {} => f = E  BY <2>1
  <2>5. ASSUME Differ # {} PROVE FALSE
    <3>1. PICK k \in Differ : \A l \in Differ : k <= l
      <4>1. Differ \subseteq Nat  OBVIOUS
      <4> HIDE DEF Differ
      <4> QED  BY <2>5, <4>1, Least
    <3>2. k \in 0 .. n /\ f[k] # E[k]  OBVIOUS
    <3>3. k # 0  BY <2>2, <2>3, <3>2
    <3>4. k - 1 \in 0 .. n /\ k - 1 \notin Differ  BY <1>1, <3>1, <3>2, <3>3
    <3>5. f[k - 1] = E[k - 1]  BY <3>4
    <3> QED  BY <2>2, <2>3, <3>2, <3>3, <3>5
  <2> QED  BY <2>4, <2>5
<1>7. At = E
  <2> HIDE DEF E, IsAt
  <2> QED  BY <1>5, <1>6
<1> DEFINE Ends(k) == /\ \A m \in 0 .. k - 1 : At[m] \in D
                      /\ At[k] \notin D
           last == CHOOSE k \in 0 .. n : Ends(k)
<1>8. states_of(<<>>, after) = IF \E k \in 0 .. n : Ends(k) THEN [k \in 1 .. last + 1 |-> At[k - 1]] ELSE <<>>
  BY <1>2, <1>4 DEF states_of
<1> HIDE DEF At
<1>9. \A k \in 0 .. n : At[k] = SubSeq(w, 1, k)  BY <1>7
<1>10. \A k \in 0 .. n : At[k] \in D <=> k # n
  <2> TAKE k \in 0 .. n
  <2>1. ASSUME At[k] \in D PROVE k # n  BY <1>1, <1>3, <1>9, <2>1 DEF D
  <2>2. ASSUME k # n PROVE At[k] \in D
    <3>1. k \in 0 .. n - 1  BY <1>1, <2>2
    <3> QED  BY <1>9, <3>1 DEF D
  <2> QED  BY <2>1, <2>2
<1>11. Ends(n) /\ n \in 0 .. n  BY <1>1, <1>10
<1>12. \A k \in 0 .. n : Ends(k) => k = n  BY <1>10
<1>13. last = n
  <2> HIDE DEF Ends
  <2> QED  BY <1>11, <1>12
<1> HIDE DEF last, Ends
<1>14. states_of(<<>>, after) = [k \in 1 .. n + 1 |-> At[k - 1]]  BY <1>8, <1>11, <1>13
<1>15. \A k \in 1 .. n + 1 : At[k - 1] = SubSeq(w, 1, k - 1)  BY <1>1, <1>9
<1> QED  BY <1>14, <1>15 DEF after

\* The design of a detector's file.
LEMMA DetectorSound ==
  ASSUME NEW p \in Problems, p.kind # "recogniser", ~ complete(p).invalid
  PROVE  Sound(p, complete(p))
<1> DEFINE w == IF p.kind = "moore" THEN p.pattern ELSE Front(p.pattern)
           n == Len(w)
           T == [k \in 1 .. n + 1 |-> SubSeq(w, 1, k - 1)]
           d == complete(p)
           S == {SubSeq(w, 1, k) : k \in 0 .. n}
           asserted == IF p.kind = "moore" THEN {<<"detected", p.pattern>>} ELSE {}
<1>1. /\ p.kind \in {"mealy", "moore"} /\ p.overlapping \in BOOLEAN
      /\ p.pattern \in Seq(Bits) /\ p.pattern # <<>> /\ p.after = Chain(w)
  BY ProblemsAssumption DEF Nothing
<1>2. w \in Seq(Bits) /\ n \in Nat  BY <1>1, FrontLast, LenProperties
<1>3. states_of(Nothing, p.after) = T  BY <1>1, <1>2, ChainFollowed DEF Nothing
<1>4. d = Design(ToSet(T), T, Nothing, {}, asserted)
  <2> HIDE DEF T, asserted
  <2>1. d = IF p.beyond # {} \/ T = <<>> THEN Invalid ELSE Design(ToSet(T), T, Nothing, {}, asserted)
    BY <1>1, <1>3 DEF complete, asserted
  <2> QED  BY <2>1 DEF Invalid
<1> HIDE DEF d
<1>5. DOMAIN T = 1 .. n + 1 /\ \A k \in 1 .. n + 1 : T[k] = SubSeq(w, 1, k - 1)  OBVIOUS
<1>6. ToSet(T) = S
  <2>1. \A k \in 1 .. n + 1 : k - 1 \in 0 .. n  BY <1>2
  <2>2. \A k \in 0 .. n : k + 1 \in 1 .. n + 1 /\ (k + 1) - 1 = k  BY <1>2
  <2>3. ToSet(T) \subseteq S
    <3> HIDE DEF T
    <3> QED  BY <1>5, <2>1 DEF ToSet
  <2>4. S \subseteq ToSet(T)
    <3>1. \A k \in 0 .. n : T[k + 1] = SubSeq(w, 1, k)  BY <1>5, <2>2
    <3> HIDE DEF T
    <3> QED  BY <1>5, <2>2, <3>1 DEF ToSet
  <2> QED  BY <2>3, <2>4
<1> HIDE DEF T
<1>7. /\ d.states = S /\ d.listed = T /\ d.start = <<>> /\ d.initial = <<>> /\ d.holds = {}
      /\ d.asserted = asserted /\ d.encoding = encoding(T)
  <2> HIDE DEF S, asserted
  <2> QED  BY <1>4, <1>6 DEF Design, Nothing
<1>8. \A k \in 0 .. n : /\ SubSeq(w, 1, k) \in Seq(Bits) /\ Len(SubSeq(w, 1, k)) = k
                        /\ k > 0 => /\ Front(SubSeq(w, 1, k)) = SubSeq(w, 1, k - 1) /\ w[k] \in Bits
                                    /\ SubSeq(w, 1, k) = Append(SubSeq(w, 1, k - 1), w[k])
  BY <1>2, Prefix
<1>9. SubSeq(w, 1, 0) = <<>> /\ SubSeq(w, 1, n) = w /\ 0 \in 0 .. n /\ n \in 0 .. n
  BY <1>2, SubSeqEmpty, SubSeqFull
<1>10. \A x \in S : x \in Seq(Bits) /\ Len(x) \in Nat /\ Len(x) <= n /\ x = SubSeq(w, 1, Len(x))
  <2> TAKE x \in S
  <2>1. PICK k \in 0 .. n : x = SubSeq(w, 1, k)  OBVIOUS
  <2>2. x \in Seq(Bits) /\ Len(x) = k  BY <1>8, <2>1
  <2> QED  BY <1>2, <2>1, <2>2
<1>11. Closed(S)
  <2>1. ASSUME NEW x \in S, x # <<>> PROVE Front(x) \in S
    <3>1. PICK k \in 0 .. n : x = SubSeq(w, 1, k)  OBVIOUS
    <3>2. k > 0 /\ k - 1 \in 0 .. n  BY <1>2, <1>9, <2>1, <3>1
    <3>3. Front(x) = SubSeq(w, 1, k - 1)  BY <1>8, <3>1, <3>2
    <3> QED  BY <3>2, <3>3
  <2>2. <<>> \in S /\ S \subseteq Seq(Bits)  BY <1>9, <1>10
  <2> HIDE DEF S
  <2> QED  BY <2>1, <2>2 DEF Closed
<1>12. IsFiniteSet(S)
  <2> DEFINE g == [k \in 0 .. n |-> SubSeq(w, 1, k)]
  <2>1. g \in Surjection(0 .. n, S)  BY DEF Surjection
  <2>2. IsFiniteSet(0 .. n)  BY <1>2, FS_Interval
  <2> HIDE DEF g, S
  <2> QED  BY <2>1, <2>2, FS_Surjection
<1>13. IF p.kind = "moore" THEN p.pattern \in S /\ \A x \in S : Len(x) <= Len(p.pattern)
       ELSE Front(p.pattern) \in S /\ \A x \in S : Len(x) < Len(p.pattern)
  <2>1. w \in S  BY <1>9
  <2>2. CASE p.kind = "moore"  BY <1>10, <2>1, <2>2
  <2>3. CASE p.kind # "moore"
    <3>1. w = Front(p.pattern) /\ n = Len(p.pattern) - 1 /\ Len(p.pattern) \in Nat  BY <1>1, <2>3, FrontLast
    <3> HIDE DEF S, w
    <3> QED  BY <1>2, <1>10, <2>1, <2>3, <3>1
  <2> QED  BY <2>2, <2>3
<1>14. Detects(p, d)
  <2> HIDE DEF S, w
  <2> QED  BY <1>1, <1>7, <1>13 DEF Detects, asserted
<1>15. \A x \in S, b \in Bits : \A y : Goal(p, d, x, b, y) => y \in S
  <2> HIDE DEF S
  <2> QED  BY <1>7, <1>11 DEF Goal, Longest, Closed
<1>16. ASSUME NEW k \in 0 .. n, k > 0
       PROVE  Goal(p, d, SubSeq(w, 1, k - 1), w[k], SubSeq(w, 1, k))
  <2>1. k - 1 \in 0 .. n  BY <1>2, <1>16
  <2>2. PICK x \in S : x = SubSeq(w, 1, k - 1) /\ Len(x) = k - 1  BY <1>8, <2>1
  <2>3. PICK y \in S : y = SubSeq(w, 1, k) /\ Len(y) = k /\ y = Append(x, w[k])  BY <1>8, <1>16, <2>2
  <2> HIDE DEF S, w
  <2>4. Longest(S, Append(x, w[k]), y)  BY <1>11, <2>3, LongestItself
  <2>5. ~ (p.kind = "mealy" /\ Append(x, w[k]) = p.pattern)
    <3>1. ASSUME p.kind = "mealy" PROVE Len(y) < Len(p.pattern)  BY <1>13, <3>1
    <3> QED  BY <1>2, <2>3, <3>1
  <2>6. ~ (p.kind = "moore" /\ x = p.pattern)
    <3>1. ASSUME p.kind = "moore", x = p.pattern PROVE FALSE
      <4>1. Len(y) <= Len(x)  BY <1>13, <3>1
      <4> QED  BY <1>2, <2>2, <2>3, <4>1
    <3> QED  BY <3>1
  <2>7. Goal(p, d, x, w[k], y)  BY <1>7, <2>4, <2>5, <2>6 DEF Goal
  <2> QED  BY <2>2, <2>3, <2>7
<1>17. ASSUME NEW C, <<>> \in C, Stays_in(p, d, C) PROVE S \subseteq C
  <2> DEFINE Out == {k \in 0 .. n : SubSeq(w, 1, k) \notin C}
  <2>1. ASSUME Out # {} PROVE FALSE
    <3>1. PICK k \in Out : \A l \in Out : k <= l
      <4>1. Out \subseteq Nat  OBVIOUS
      <4> HIDE DEF Out
      <4> QED  BY <2>1, <4>1, Least
    <3>2. k \in 0 .. n /\ SubSeq(w, 1, k) \notin C  OBVIOUS
    <3>3. k > 0 /\ k - 1 \in 0 .. n /\ ~ (k <= k - 1)
      <4>1. k # 0  BY <1>9, <1>17, <3>2
      <4> QED  BY <1>2, <3>2, <4>1
    <3>4. SubSeq(w, 1, k - 1) \in C  BY <3>1, <3>3
    <3>5. w[k] \in Bits  BY <1>8, <3>2, <3>3
    <3>6. Goal(p, d, SubSeq(w, 1, k - 1), w[k], SubSeq(w, 1, k))  BY <1>16, <3>2, <3>3
    <3> QED  BY <1>17, <3>2, <3>4, <3>5, <3>6 DEF Stays_in
  <2>2. \A k \in 0 .. n : SubSeq(w, 1, k) \in C  BY <2>1
  <2> QED  BY <2>2
<1>18. Lists(p, d)
  <2>1. T \in Seq(S) /\ Len(T) = n + 1
    <3>1. \A k \in 1 .. n + 1 : k - 1 \in 0 .. n  BY <1>2
    <3>2. \A k \in 1 .. n + 1 : SubSeq(w, 1, k - 1) \in S  BY <3>1
    <3>3. n + 1 \in Nat  BY <1>2
    <3> HIDE DEF S
    <3> QED  BY <3>2, <3>3 DEF T
  <2>2. T # <<>> /\ T[1] = <<>>  BY <1>2, <1>5, <1>9, <2>1
  <2>3. \A i, j \in DOMAIN T : T[i] = T[j] => i = j
    <3> TAKE i, j \in DOMAIN T
    <3>1. i - 1 \in 0 .. n /\ j - 1 \in 0 .. n /\ i \in Nat /\ j \in Nat  BY <1>2, <1>5
    <3>2. Len(T[i]) = i - 1 /\ Len(T[j]) = j - 1  BY <1>5, <1>8, <3>1
    <3> QED  BY <3>1, <3>2
  <2> HIDE DEF S
  <2>4. Stays_in(p, d, S)  BY <1>15 DEF Stays_in
  <2> QED  BY <1>6, <1>7, <1>17, <2>1, <2>2, <2>3, <2>4 DEF Lists
<1> HIDE DEF S
<1>19. Sound(p, d)  BY <1>7, <1>11, <1>12, <1>14, <1>18 DEF Sound
<1> QED  BY <1>19 DEF d

\* Any bits end with a longest state.
LEMMA LongestExists ==
  ASSUME NEW S, Closed(S), NEW w \in Seq(Bits)
  PROVE  \E x \in S : Longest(S, w, x)
<1> DEFINE G == {n \in Nat : \E q \in S : IsSuffix(q, w) /\ Len(q) + n = Len(w)}
<1>1. \A q \in S : q \in Seq(Bits) /\ Len(q) \in Nat  BY LenProperties DEF Closed
<1>2. Len(w) \in Nat /\ <<>> \in S /\ <<>> \in Seq(Bits) /\ Len(<<>>) = 0 /\ IsSuffix(<<>>, w)
  BY LenProperties, SuffixRefl DEF Closed
<1>3. Len(w) \in G  BY <1>2
<1>4. PICK n \in G : \A m \in G : n <= m
  <2>1. G \subseteq Nat /\ G # {}  BY <1>3
  <2> HIDE DEF G
  <2> QED  BY <2>1, Least
<1>5. PICK x \in S : IsSuffix(x, w) /\ Len(x) + n = Len(w)  BY <1>4
<1>6. ASSUME NEW q \in S, IsSuffix(q, w) PROVE IsSuffix(q, x)
  <2>1. Len(q) <= Len(w)  BY <1>1, <1>6, SuffixLen
  <2>2. Len(w) - Len(q) \in G  BY <1>1, <1>2, <1>6, <2>1
  <2>3. n <= Len(w) - Len(q) /\ n \in Nat  BY <1>4, <2>2
  <2>4. Len(q) <= Len(x)  BY <1>1, <1>2, <1>5, <2>3
  <2> QED  BY <1>1, <1>5, <1>6, <2>4, SuffixNested
<1> QED  BY <1>5, <1>6 DEF Longest

\* Every state but the first falls back to one, and to one only.
LEMMA FallsExists ==
  ASSUME NEW S, Closed(S), NEW x \in S, x # <<>>
  PROVE  \E f \in S : Falls_to(S, x, f)
<1> DEFINE z == Front(x)
           c == Last(x)
           R == {q \in S : Len(q) < Len(x)}
<1>1. x \in Seq(Bits) /\ \A q \in S : q \in Seq(Bits) /\ Len(q) \in Nat  BY LenProperties DEF Closed
<1>2. Len(x) >= 1 /\ Len(x) \in Nat  BY <1>1, FrontLast
<1>3. Closed(R)
  <2>1. <<>> \in R  BY <1>2, LenProperties DEF Closed
  <2>2. ASSUME NEW q \in R, q # <<>> PROVE Front(q) \in R
    <3>1. q \in Seq(Bits) /\ Front(q) \in S  BY <1>1, <2>2 DEF Closed
    <3>2. Len(Front(q)) = Len(q) - 1 /\ Len(q) \in Nat  BY <2>2, <3>1, FrontLast
    <3> QED  BY <1>2, <2>2, <3>1, <3>2
  <2> QED  BY <1>1, <2>1, <2>2 DEF Closed
<1>4. PICK f \in R : Longest(R, x, f)  BY <1>1, <1>3, LongestExists
<1>5. f \in S /\ f # x /\ IsSuffix(f, x)  BY <1>2, <1>4 DEF Longest
<1>6. ASSUME NEW q \in S, q # x, IsSuffix(q, x) PROVE IsSuffix(q, f)
  <2>1. Len(q) <= Len(x) /\ (Len(q) = Len(x) => q = x)  BY <1>1, <1>6, SuffixLen
  <2>2. q \in R  BY <1>1, <1>2, <1>6, <2>1
  <2> QED  BY <1>4, <1>6, <2>2 DEF Longest
<1> QED  BY <1>5, <1>6 DEF Falls_to

\* A state has one fallback.
LEMMA OneFall ==
  ASSUME NEW S, Closed(S), NEW x, NEW f, NEW g, Falls_to(S, x, f), Falls_to(S, x, g)
  PROVE  f = g
<1>1. IsSuffix(f, g) /\ IsSuffix(g, f) /\ f \in Seq(Bits) /\ g \in Seq(Bits)  BY DEF Falls_to, Closed
<1> QED  BY <1>1, SuffixBoth

---------------------------------------------------------------------------
\* What the transitions of the compiler's walk over the states come to.
Walk(S, H, f, x) ==
  /\ x = <<>> => f[<<x, Fall>>] = <<>>
  /\ x # <<>> => Falls_to(S, x, f[<<x, Fall>>])
  /\ \A b \in Bits : IF <<x, b>> \in H THEN f[<<x, b>>] = x
                     ELSE Longest(S, Append(x, b), f[<<x, b>>])

\* A step of the walk, by the walk over shorter states.
At_bit(f, S, H, z) ==
  LET x == z[1]
      b == z[2]
  IN IF b = Fall THEN IF Len(x) <= 1 THEN Nothing ELSE f[<<f[<<Front(x), Fall>>], Last(x)>>]
     ELSE IF <<x, b>> \in H THEN x
     ELSE IF Append(x, b) \in S THEN Append(x, b)
     ELSE IF x = Nothing THEN Nothing
     ELSE f[<<f[<<x, Fall>>], b>>]

\* Held states end no other, and the first is none.
Apart(S, H) ==
  \A x, b : <<x, b>> \in H => x \in Seq(Bits) /\ x # <<>> /\ \A y \in S : IsSuffix(x, y) => y = x

\* The fallback is right if all is right for shorter states.
LEMMA FallStep ==
  ASSUME NEW S, Closed(S), NEW H, Apart(S, H), NEW f, NEW x \in S,
         \A y \in S : Len(y) < Len(x) => Walk(S, H, f, y)
  PROVE  /\ x = <<>> => At_bit(f, S, H, <<x, Fall>>) = <<>>
         /\ x # <<>> => Falls_to(S, x, At_bit(f, S, H, <<x, Fall>>))
<1>1. x \in Seq(Bits) /\ Len(x) \in Nat /\ Len(<<>>) = 0  BY LenProperties DEF Closed
<1>2. CASE x = <<>>  BY <1>1, <1>2 DEF At_bit, Nothing
<1>3. CASE x # <<>> /\ Len(x) <= 1
  <2>1. Front(x) \in Seq(Bits) /\ Len(Front(x)) = Len(x) - 1 /\ Len(x) >= 1  BY <1>1, <1>3, FrontLast
  <2>2. Front(x) = <<>>
    <3>1. Len(Front(x)) = 0  BY <1>1, <1>3, <2>1
    <3> QED  BY <2>1, <3>1, EmptySeq
  <2>3. Falls_to(S, x, <<>>)  BY <1>3, <2>2, FirstFalls
  <2>4. At_bit(f, S, H, <<x, Fall>>) = <<>>  BY <1>3 DEF At_bit, Nothing
  <2> QED  BY <1>3, <2>3, <2>4
<1>4. CASE x # <<>> /\ ~ Len(x) <= 1
  <2> DEFINE z == Front(x)
             c == Last(x)
             g == f[<<z, Fall>>]
  <2>1. z \in S /\ z \in Seq(Bits) /\ c \in Bits /\ x = Append(z, c) /\ Len(z) = Len(x) - 1 /\ z # <<>>
    <3>1. z \in S /\ z \in Seq(Bits) /\ c \in Bits /\ x = Append(z, c) /\ Len(z) = Len(x) - 1
      BY <1>1, <1>4, FrontLast DEF Closed
    <3>2. Len(z) # 0  BY <1>1, <1>4, <3>1
    <3> QED  BY <1>1, <3>1, <3>2
  <2>2. Falls_to(S, z, g)
    <3>1. Len(z) < Len(x)  BY <1>1, <2>1
    <3>2. Walk(S, H, f, z)  BY <2>1, <3>1
    <3> QED  BY <2>1, <3>2 DEF Walk
  <2>3. g \in S /\ g \in Seq(Bits) /\ Len(g) < Len(z) /\ Len(g) \in Nat /\ Len(z) \in Nat
    <3> HIDE DEF z, g
    <3> QED  BY <2>1, <2>2, FallsShorter DEF Falls_to
  <2>4. Walk(S, H, f, g)  BY <1>1, <2>1, <2>3
  <2>5. <<g, c>> \notin H  BY <2>1, <2>2, <2>3 DEF Apart, Falls_to
  <2>6. Longest(S, Append(g, c), f[<<g, c>>])  BY <2>1, <2>4, <2>5 DEF Walk
  <2>7. Falls_to(S, x, f[<<g, c>>])  BY <1>4, <2>1, <2>2, <2>6, FallsFurther
  <2>8. At_bit(f, S, H, <<x, Fall>>) = f[<<g, c>>]  BY <1>4 DEF At_bit
  <2> QED  BY <1>4, <2>7, <2>8
<1> QED  BY <1>2, <1>3, <1>4

\* So is where a bit leads.
LEMMA BitStep ==
  ASSUME NEW S, Closed(S), NEW H, Apart(S, H), NEW f, NEW x \in S,
         \A y \in S : Len(y) < Len(x) => Walk(S, H, f, y),
         x # <<>> => Falls_to(S, x, f[<<x, Fall>>]), NEW b \in Bits
  PROVE  IF <<x, b>> \in H THEN At_bit(f, S, H, <<x, b>>) = x
         ELSE Longest(S, Append(x, b), At_bit(f, S, H, <<x, b>>))
<1>0. b # Fall  BY DEF Bits, Fall
<1>1. x \in Seq(Bits) /\ Len(x) \in Nat  BY LenProperties DEF Closed
<1>2. CASE <<x, b>> \in H  BY <1>0, <1>2 DEF At_bit
<1>3. CASE <<x, b>> \notin H /\ Append(x, b) \in S
  <2>1. At_bit(f, S, H, <<x, b>>) = Append(x, b)  BY <1>0, <1>3 DEF At_bit
  <2> QED  BY <1>3, <2>1, LongestItself
<1>4. CASE <<x, b>> \notin H /\ Append(x, b) \notin S /\ x = <<>>
  <2>1. At_bit(f, S, H, <<x, b>>) = <<>>  BY <1>0, <1>4 DEF At_bit, Nothing
  <2>2. Longest(S, Append(<<>>, b), <<>>)  BY <1>4, StaysAtStart
  <2> QED  BY <1>4, <2>1, <2>2
<1>5. CASE <<x, b>> \notin H /\ Append(x, b) \notin S /\ x # <<>>
  <2> DEFINE g == f[<<x, Fall>>]
  <2>1. Falls_to(S, x, g)  BY <1>5
  <2>2. g \in S /\ g \in Seq(Bits) /\ Len(g) < Len(x)
    <3> HIDE DEF g
    <3> QED  BY <2>1, FallsShorter DEF Falls_to
  <2>3. Walk(S, H, f, g)  BY <2>2
  <2>4. <<g, b>> \notin H  BY <1>1, <2>1, <2>2 DEF Apart, Falls_to
  <2>5. Longest(S, Append(g, b), f[<<g, b>>])  BY <2>3, <2>4 DEF Walk
  <2>6. Longest(S, Append(x, b), f[<<g, b>>])  BY <1>5, <2>1, <2>5, GoesWhereItFalls
  <2>7. At_bit(f, S, H, <<x, b>>) = f[<<g, b>>]  BY <1>0, <1>5 DEF At_bit, Nothing
  <2> QED  BY <1>5, <2>6, <2>7
<1> QED  BY <1>2, <1>3, <1>4, <1>5

\* The transitions of the walk are those of the machine.
LEMMA StepIsRight ==
  ASSUME NEW S, Closed(S), NEW H, Apart(S, H)
  PROVE  \A x \in S : Walk(S, H, step(S, H), x)
<1> DEFINE Dom == S \X (Bits \cup {Fall})
           Solves(f) == f = [z \in Dom |-> At_bit(f, S, H, z)]
           V(z) == IF z[2] = Fall THEN IF z[1] = <<>> THEN <<>> ELSE CHOOSE y : Falls_to(S, z[1], y)
                   ELSE IF z \in H THEN z[1] ELSE CHOOSE y : Longest(S, Append(z[1], z[2]), y)
           W == [z \in Dom |-> V(z)]
<1>1. step(S, H) = CHOOSE f : Solves(f)  BY DEF step, At_bit
<1>2. ASSUME NEW x \in S PROVE Walk(S, H, W, x)
  <2>1. <<x, Fall>> \in Dom /\ \A b \in Bits : <<x, b>> \in Dom /\ b # Fall  BY DEF Bits, Fall
  <2>0. \A z \in Dom : W[z] = V(z)
    <3> HIDE DEF V
    <3> QED  OBVIOUS
  <2>2. W[<<x, Fall>>] = IF x = <<>> THEN <<>> ELSE CHOOSE y : Falls_to(S, x, y)
    <3> HIDE DEF W
    <3>1. W[<<x, Fall>>] = V(<<x, Fall>>)  BY <2>0, <2>1
    <3>2. V(<<x, Fall>>) = IF x = <<>> THEN <<>> ELSE CHOOSE y : Falls_to(S, x, y)  OBVIOUS
    <3> QED  BY <3>1, <3>2
  <2>3. \A b \in Bits : W[<<x, b>>] = IF <<x, b>> \in H THEN x ELSE CHOOSE y : Longest(S, Append(x, b), y)
    <3> HIDE DEF W
    <3> TAKE b \in Bits
    <3>1. W[<<x, b>>] = V(<<x, b>>)  BY <2>0, <2>1
    <3>2. V(<<x, b>>) = IF <<x, b>> \in H THEN x ELSE CHOOSE y : Longest(S, Append(x, b), y)  BY <2>1
    <3> QED  BY <3>1, <3>2
  <2> HIDE DEF W
  <2>4. x # <<>> => Falls_to(S, x, CHOOSE y : Falls_to(S, x, y))  BY FallsExists
  <2>5. ASSUME NEW b \in Bits PROVE Longest(S, Append(x, b), CHOOSE y : Longest(S, Append(x, b), y))
    <3>1. Append(x, b) \in Seq(Bits)  BY AppendProperties DEF Closed
    <3> QED  BY <3>1, LongestExists
  <2> QED  BY <2>2, <2>3, <2>4, <2>5 DEF Walk
<1>3. Solves(W)
  <2>1. ASSUME NEW x \in S PROVE At_bit(W, S, H, <<x, Fall>>) = W[<<x, Fall>>]
    <3> HIDE DEF W
    <3>1. /\ x = <<>> => At_bit(W, S, H, <<x, Fall>>) = <<>>
          /\ x # <<>> => Falls_to(S, x, At_bit(W, S, H, <<x, Fall>>))
      BY <1>2, FallStep
    <3> QED  BY <1>2, <3>1, OneFall DEF Walk
  <2>2. ASSUME NEW x \in S, NEW b \in Bits PROVE At_bit(W, S, H, <<x, b>>) = W[<<x, b>>]
    <3> HIDE DEF W
    <3>1. IF <<x, b>> \in H THEN At_bit(W, S, H, <<x, b>>) = x
          ELSE Longest(S, Append(x, b), At_bit(W, S, H, <<x, b>>))
      BY <1>2, BitStep DEF Walk
    <3> QED  BY <1>2, <3>1, OneLongest DEF Walk
  <2>3. \A z \in Dom : W[z] = At_bit(W, S, H, z)
    <3> HIDE DEF W
    <3> QED  BY <2>1, <2>2
  <2>4. W = [z \in Dom |-> W[z]]  OBVIOUS
  <2> HIDE DEF W
  <2> QED  BY <2>3, <2>4
<1>4. ASSUME NEW f, Solves(f) PROVE \A x \in S : Walk(S, H, f, x)
  <2> DEFINE Wrong == {n \in Nat : \E x \in S : Len(x) = n /\ ~ Walk(S, H, f, x)}
  <2>1. \A z \in Dom : f[z] = At_bit(f, S, H, z)
    <3>1. f = [z \in Dom |-> At_bit(f, S, H, z)]  BY <1>4
    <3> QED  BY <3>1
  <2>2. \A x \in S : x \in Seq(Bits) /\ Len(x) \in Nat  BY LenProperties DEF Closed
  <2> HIDE DEF Solves
  <2>3. ASSUME Wrong # {} PROVE FALSE
    <3>1. PICK n \in Wrong : \A m \in Wrong : n <= m
      <4>1. Wrong \subseteq Nat  OBVIOUS
      <4> HIDE DEF Wrong
      <4> QED  BY <2>3, <4>1, Least
    <3>2. PICK x \in S : Len(x) = n /\ ~ Walk(S, H, f, x)  BY <3>1
    <3>3. ASSUME NEW y \in S, Len(y) < Len(x) PROVE Walk(S, H, f, y)
      <4>1. Len(y) \notin Wrong  BY <2>2, <3>1, <3>2, <3>3
      <4> QED  BY <2>2, <4>1
    <3>4. <<x, Fall>> \in Dom /\ \A b \in Bits : <<x, b>> \in Dom  OBVIOUS
    <3>5. f[<<x, Fall>>] = At_bit(f, S, H, <<x, Fall>>)  BY <2>1, <3>4
    <3>6. /\ x = <<>> => f[<<x, Fall>>] = <<>>
          /\ x # <<>> => Falls_to(S, x, f[<<x, Fall>>])
      BY <3>3, <3>5, FallStep
    <3>7. ASSUME NEW b \in Bits
          PROVE  IF <<x, b>> \in H THEN f[<<x, b>>] = x ELSE Longest(S, Append(x, b), f[<<x, b>>])
      <4>1. f[<<x, b>>] = At_bit(f, S, H, <<x, b>>)  BY <2>1, <3>4
      <4>2. IF <<x, b>> \in H THEN At_bit(f, S, H, <<x, b>>) = x
            ELSE Longest(S, Append(x, b), At_bit(f, S, H, <<x, b>>))
        BY <3>3, <3>6, BitStep
      <4> QED  BY <4>1, <4>2
    <3> QED  BY <3>2, <3>6, <3>7 DEF Walk
  <2> QED  BY <2>2, <2>3
<1>5. Solves(CHOOSE f : Solves(f))
  <2> HIDE DEF Solves, W
  <2> QED  BY <1>3
<1> HIDE DEF Solves
<1> QED  BY <1>1, <1>4, <1>5

\* C is closed under the walk.
Follows(To, C) == \A z \in C \X Bits : To[z] \in C

\* Following transitions finds the least set they do not leave.
LEMMA ReachIsLeast ==
  ASSUME NEW S, IsFiniteSet(S), NEW H, NEW start \in S, \A z \in S \X Bits : step(S, H)[z] \in S
  PROVE  LET R == reachable_prefixes(S, H, start)
         IN /\ R \subseteq S /\ start \in R /\ Follows(step(S, H), R)
            /\ \A C \in SUBSET S : start \in C /\ Follows(step(S, H), C) => R \subseteq C
<1> DEFINE To == step(S, H)
           More(A) == A \cup {To[z] : z \in A \X Bits}
           Solves(f) == f = [A \in SUBSET S |-> IF More(A) = A THEN A ELSE f[More(A)]]
           L(A) == {x \in S : \A C \in SUBSET S : A \subseteq C /\ Follows(To, C) => x \in C}
           W == [A \in SUBSET S |-> L(A)]
           reach == CHOOSE f : Solves(f)
<1>1. reachable_prefixes(S, H, start) = reach[{start}]  BY DEF reachable_prefixes
<1>2. \A z \in S \X Bits : To[z] \in S  OBVIOUS
<1> HIDE DEF To
<1>3. ASSUME NEW A \in SUBSET S PROVE More(A) \in SUBSET S /\ A \subseteq More(A)  BY <1>2
<1>4. ASSUME NEW A \in SUBSET S, More(A) = A PROVE Follows(To, A)
  <2>1. \A z \in A \X Bits : To[z] \in More(A)  OBVIOUS
  <2> HIDE DEF More
  <2> QED  BY <1>4, <2>1 DEF Follows
<1>5. ASSUME NEW A \in SUBSET S, Follows(To, A) PROVE L(A) = A
  BY <1>5
<1>6. ASSUME NEW A \in SUBSET S PROVE L(A) = L(More(A))
  <2>1. ASSUME NEW C \in SUBSET S, Follows(To, C) PROVE A \subseteq C <=> More(A) \subseteq C
    BY <2>1 DEF Follows
  <2> HIDE DEF More
  <2> QED  BY <2>1
<1> HIDE DEF More
<1>7. Solves(W)
  <2>1. \A A \in SUBSET S : W[A] = L(A)
    <3> HIDE DEF L
    <3> QED  OBVIOUS
  <2>2. W = [A \in SUBSET S |-> W[A]]  OBVIOUS
  <2>3. \A A \in SUBSET S : W[A] = IF More(A) = A THEN A ELSE W[More(A)]
    <3> HIDE DEF L, W
    <3> QED  BY <1>3, <1>4, <1>5, <1>6, <2>1
  <2> HIDE DEF W
  <2> QED  BY <2>2, <2>3
<1>8. ASSUME NEW f, Solves(f) PROVE \A A \in SUBSET S : f[A] = L(A)
  <2> DEFINE Wrong == {n \in Nat : \E A \in SUBSET S : Cardinality(S \ A) = n /\ f[A] # L(A)}
  <2>1. \A A \in SUBSET S : f[A] = IF More(A) = A THEN A ELSE f[More(A)]
    <3>1. f = [A \in SUBSET S |-> IF More(A) = A THEN A ELSE f[More(A)]]  BY <1>8
    <3> QED  BY <3>1
  <2> HIDE DEF Solves, L
  <2>2. \A A \in SUBSET S : IsFiniteSet(S \ A) /\ Cardinality(S \ A) \in Nat
    BY FS_Difference, FS_CardinalityType
  <2>3. ASSUME Wrong # {} PROVE FALSE
    <3>1. PICK n \in Wrong : \A m \in Wrong : n <= m
      <4>1. Wrong \subseteq Nat  OBVIOUS
      <4> HIDE DEF Wrong
      <4> QED  BY <2>3, <4>1, Least
    <3>2. PICK A \in SUBSET S : Cardinality(S \ A) = n /\ f[A] # L(A)  BY <3>1
    <3>3. More(A) # A  BY <1>4, <1>5, <2>1, <3>2
    <3>4. More(A) \in SUBSET S /\ A \subseteq More(A)  BY <1>3
    <3>5. f[More(A)] # L(More(A))  BY <1>6, <2>1, <3>2, <3>3
    <3>6. S \ More(A) \in SUBSET (S \ A) /\ S \ More(A) # S \ A  BY <3>3, <3>4
    <3>7. Cardinality(S \ More(A)) <= Cardinality(S \ A) /\ Cardinality(S \ A) # Cardinality(S \ More(A))
      BY <2>2, <3>6, FS_Subset
    <3>8. Cardinality(S \ More(A)) \in Wrong  BY <2>2, <3>4, <3>5
    <3>9. n <= Cardinality(S \ More(A)) /\ Cardinality(S \ More(A)) \in Nat  BY <2>2, <3>1, <3>4, <3>8
    <3> QED  BY <2>2, <3>2, <3>7, <3>9
  <2> QED  BY <2>2, <2>3
<1>9. Solves(reach)
  <2> HIDE DEF Solves, W
  <2> QED  BY <1>7
<1>10. reach[{start}] = L({start})
  <2> HIDE DEF Solves, L, reach
  <2> QED  BY <1>8, <1>9
<1>11. /\ L({start}) \subseteq S /\ start \in L({start})
       /\ \A C \in SUBSET S : start \in C /\ Follows(To, C) => L({start}) \subseteq C
  OBVIOUS
<1>12. Follows(To, L({start}))
  <2> SUFFICES ASSUME NEW z \in L({start}) \X Bits PROVE To[z] \in L({start})
    BY DEF Follows
  <2>1. To[z] \in S  BY <1>2
  <2>2. ASSUME NEW C \in SUBSET S, {start} \subseteq C, Follows(To, C) PROVE To[z] \in C
    <3>1. z[1] \in C /\ z = <<z[1], z[2]>> /\ z[2] \in Bits  BY <2>2
    <3>2. z \in C \X Bits  BY <3>1
    <3> QED  BY <2>2, <3>2 DEF Follows
  <2> QED  BY <2>1, <2>2
<1> HIDE DEF L, reach
<1> QED  BY <1>1, <1>10, <1>11, <1>12 DEF To

---------------------------------------------------------------------------
\* The order of the states: by length, then by the first bit that differs.
LEMMA ShortlexIs ==
  ASSUME NEW x \in Seq(Bits), NEW y \in Seq(Bits)
  PROVE  Shortlex(x, y) <=>
           \/ Len(x) < Len(y)
           \/ /\ Len(x) = Len(y)
              /\ \E k \in 1 .. Len(x) : x[k] < y[k] /\ \A j \in 1 .. k - 1 : x[j] = y[j]
<1>1. DOMAIN x = 1 .. Len(x) /\ Len(x) \in Nat /\ Len(y) \in Nat  BY LenProperties
<1>2. ASSUME Len(x) = Len(y), NEW k \in 1 .. Len(x)
      PROVE  SubSeq(x, 1, k - 1) = SubSeq(y, 1, k - 1) <=> \A j \in 1 .. k - 1 : x[j] = y[j]
  <2>1. \A j \in 1 .. k - 1 : x[j] \in Bits /\ y[j] \in Bits
    <3>1. \A j \in 1 .. k - 1 : j \in 1 .. Len(x) /\ j \in 1 .. Len(y)  BY <1>1, <1>2
    <3> QED  BY <3>1, ElementOfSeq
  <2>2. /\ SubSeq(x, 1, k - 1) \in Seq(Bits) /\ Len(SubSeq(x, 1, k - 1)) = k - 1
        /\ \A i \in 1 .. k - 1 : SubSeq(x, 1, k - 1)[i] = x[i]
    BY <1>1, <2>1
  <2>3. /\ SubSeq(y, 1, k - 1) \in Seq(Bits) /\ Len(SubSeq(y, 1, k - 1)) = k - 1
        /\ \A i \in 1 .. k - 1 : SubSeq(y, 1, k - 1)[i] = y[i]
    BY <1>1, <1>2, <2>1
  <2> QED  BY <2>2, <2>3, SeqEqual
<1> QED  BY <1>1, <1>2 DEF Shortlex

\* It is a total order.
LEMMA ShortlexOrders ==
  /\ \A x \in Seq(Bits) : ~ Shortlex(x, x)
  /\ \A x, y, z \in Seq(Bits) : Shortlex(x, y) /\ Shortlex(y, z) => Shortlex(x, z)
  /\ \A x, y \in Seq(Bits) : x = y \/ Shortlex(x, y) \/ Shortlex(y, x)
<1>0. \A x \in Seq(Bits) : Len(x) \in Nat /\ \A k \in 1 .. Len(x) : x[k] \in Nat /\ x[k] \in Bits
  BY LenProperties, ElementOfSeq DEF Bits
<1>1. ASSUME NEW x \in Seq(Bits), Shortlex(x, x) PROVE FALSE
  BY <1>0, <1>1, ShortlexIs
<1>2. ASSUME NEW x \in Seq(Bits), NEW y \in Seq(Bits), NEW z \in Seq(Bits), Shortlex(x, y), Shortlex(y, z)
      PROVE  Shortlex(x, z)
  <2>1. CASE Len(x) < Len(y)
    <3>1. Len(y) <= Len(z)  BY <1>0, <1>2, ShortlexIs
    <3>2. Len(x) < Len(z)  BY <1>0, <2>1, <3>1
    <3> QED  BY <3>2, ShortlexIs
  <2>2. CASE Len(x) = Len(y) /\ Len(y) < Len(z)
    <3>1. Len(x) < Len(z)  BY <2>2
    <3> QED  BY <3>1, ShortlexIs
  <2>3. CASE Len(x) = Len(y) /\ Len(y) = Len(z)
    <3>1. PICK k \in 1 .. Len(x) : x[k] < y[k] /\ \A j \in 1 .. k - 1 : x[j] = y[j]
      BY <1>0, <1>2, <2>3, ShortlexIs
    <3>2. PICK l \in 1 .. Len(x) : y[l] < z[l] /\ \A j \in 1 .. l - 1 : y[j] = z[j]
      <4>1. Len(y) \in Nat /\ Len(z) \in Nat /\ ~ Len(y) < Len(z)  BY <1>0, <2>3
      <4>2. \E l \in 1 .. Len(y) : y[l] < z[l] /\ \A j \in 1 .. l - 1 : y[j] = z[j]
        BY <1>2, <4>1, ShortlexIs
      <4> QED  BY <2>3, <4>2
    <3>3. x[k] \in Nat /\ y[k] \in Nat /\ z[k] \in Nat /\ x[l] \in Nat /\ y[l] \in Nat /\ z[l] \in Nat
      BY <1>0, <2>3
    <3>4. \E m \in 1 .. Len(x) : x[m] < z[m] /\ \A j \in 1 .. m - 1 : x[j] = z[j]
      <4>1. CASE k < l
        <5>1. k \in 1 .. l - 1 /\ \A j \in 1 .. k - 1 : j \in 1 .. l - 1  BY <1>0, <4>1
        <5>2. x[k] < z[k] /\ \A j \in 1 .. k - 1 : x[j] = z[j]  BY <3>1, <3>2, <5>1
        <5> QED  BY <5>2
      <4>2. CASE k = l
        <5>1. x[k] < z[k]  BY <3>1, <3>2, <3>3, <4>2
        <5>2. \A j \in 1 .. k - 1 : x[j] = z[j]  BY <3>1, <3>2, <4>2
        <5> QED  BY <5>1, <5>2
      <4>3. CASE l < k
        <5>1. l \in 1 .. k - 1 /\ \A j \in 1 .. l - 1 : j \in 1 .. k - 1  BY <1>0, <4>3
        <5>2. x[l] < z[l] /\ \A j \in 1 .. l - 1 : x[j] = z[j]  BY <3>1, <3>2, <5>1
        <5> QED  BY <5>2
      <4>4. k \in Nat /\ l \in Nat  BY <1>0
      <4> QED  BY <4>1, <4>2, <4>3, <4>4
    <3> QED  BY <2>3, <3>4, ShortlexIs
  <2>4. Len(x) <= Len(y) /\ Len(y) <= Len(z)  BY <1>0, <1>2, ShortlexIs
  <2> QED  BY <1>0, <2>1, <2>2, <2>3, <2>4
<1>3. ASSUME NEW x \in Seq(Bits), NEW y \in Seq(Bits), x # y, Len(x) = Len(y)
      PROVE  Shortlex(x, y) \/ Shortlex(y, x)
  <2> DEFINE D == {k \in 1 .. Len(x) : x[k] # y[k]}
  <2>1. D # {}  BY <1>3, SeqEqual
  <2>2. PICK k \in D : \A j \in D : k <= j
    <3>1. D \subseteq Nat  BY <1>0
    <3> HIDE DEF D
    <3> QED  BY <2>1, <3>1, Least
  <2>3. \A j \in 1 .. k - 1 : x[j] = y[j] /\ y[j] = x[j]
    <3> TAKE j \in 1 .. k - 1
    <3>1. j \in 1 .. Len(x) /\ ~ k <= j  BY <1>0
    <3> QED  BY <2>2, <3>1
  <2>4. k \in 1 .. Len(x) /\ k \in 1 .. Len(y) /\ (x[k] < y[k] \/ y[k] < x[k])
    <3>1. k \in 1 .. Len(x) /\ k \in 1 .. Len(y) /\ x[k] # y[k]  BY <1>3
    <3>2. x[k] \in Nat /\ y[k] \in Nat  BY <1>0, <3>1
    <3> QED  BY <3>1, <3>2
  <2> QED  BY <1>3, <2>3, <2>4, ShortlexIs
<1>4. ASSUME NEW x \in Seq(Bits), NEW y \in Seq(Bits) PROVE x = y \/ Shortlex(x, y) \/ Shortlex(y, x)
  <2>1. Len(x) < Len(y) \/ Len(y) < Len(x) \/ Len(x) = Len(y)  BY <1>0
  <2> QED  BY <1>3, <2>1, ShortlexIs
<1> QED  BY <1>1, <1>2, <1>4

\* The state list has every state once.
LEMMA SortedLists ==
  ASSUME NEW P, IsFiniteSet(P), P \subseteq Seq(Bits)
  PROVE  /\ Sorted(P) \in Seq(P) /\ DOMAIN Sorted(P) = 1 .. Cardinality(P) /\ Cardinality(P) \in Nat
         /\ \A i, j \in DOMAIN Sorted(P) : Sorted(P)[i] = Sorted(P)[j] => i = j
         /\ \A x \in P : \E i \in DOMAIN Sorted(P) : Sorted(P)[i] = x
<1> DEFINE n == Cardinality(P)
           Before(x) == {y \in P : Shortlex(y, x)}
           g == [x \in P |-> Place(x, P)]
<1>1. n \in Nat  BY FS_CardinalityType
<1>2. \A x \in P : /\ Before(x) \in SUBSET P /\ IsFiniteSet(Before(x)) /\ Cardinality(Before(x)) \in Nat
                   /\ Place(x, P) = Cardinality(Before(x)) + 1 /\ x \notin Before(x)
  <2> TAKE x \in P
  <2>1. Before(x) \in SUBSET P /\ x \notin Before(x)  BY ShortlexOrders
  <2>2. Place(x, P) = Cardinality(Before(x)) + 1  BY DEF Place
  <2> HIDE DEF Before
  <2> QED  BY <2>1, <2>2, FS_Subset, FS_CardinalityType
<1>3. ASSUME NEW x \in P, NEW y \in P, Shortlex(x, y) PROVE Place(x, P) < Place(y, P)
  <2>1. Before(x) \in SUBSET Before(y)  BY <1>3, ShortlexOrders
  <2>2. x \in Before(y) /\ x \notin Before(x)  BY <1>2, <1>3
  <2> HIDE DEF Before
  <2>3. Cardinality(Before(x)) <= Cardinality(Before(y)) /\ Cardinality(Before(y)) # Cardinality(Before(x))
    BY <1>2, <2>1, <2>2, FS_Subset
  <2>4. /\ Cardinality(Before(x)) \in Nat /\ Place(x, P) = Cardinality(Before(x)) + 1
        /\ Cardinality(Before(y)) \in Nat /\ Place(y, P) = Cardinality(Before(y)) + 1
    BY <1>2
  <2> QED  BY <2>3, <2>4
<1>4. \A x, y \in P : Place(x, P) = Place(y, P) => x = y
  <2>1. \A x \in P : Place(x, P) \in Nat
    <3> HIDE DEF Before
    <3> QED  BY <1>2
  <2> QED  BY <1>3, <2>1, ShortlexOrders
<1>5. \A x \in P : Place(x, P) \in 1 .. n
  <2> TAKE x \in P
  <2>1. Cardinality(Before(x)) <= n /\ n # Cardinality(Before(x))
    <3> HIDE DEF Before
    <3> QED  BY <1>2, FS_Subset
  <2>2. Cardinality(Before(x)) \in Nat /\ Place(x, P) = Cardinality(Before(x)) + 1
    <3> HIDE DEF Before
    <3> QED  BY <1>2
  <2> HIDE DEF Before
  <2> QED  BY <1>1, <2>1, <2>2
<1>6. g \in Injection(P, 1 .. n)
  <2>1. g \in [P -> 1 .. n] /\ \A x \in P : g[x] = Place(x, P)  BY <1>5
  <2> HIDE DEF g
  <2> QED  BY <1>4, <2>1 DEF Injection, IsInjective
<1>7. IsFiniteSet(1 .. n) /\ Cardinality(1 .. n) = n
  <2>1. 1 \in Int /\ n \in Int  BY <1>1
  <2>2. IsFiniteSet(1 .. n) /\ Cardinality(1 .. n) = IF 1 > n THEN 0 ELSE n - 1 + 1  BY <2>1, FS_Interval
  <2> QED  BY <1>1, <2>2
<1>8. g \in Surjection(P, 1 .. n)
  <2> HIDE DEF g
  <2> QED  BY <1>6, <1>7, FS_Injection
<1>9. \A k \in 1 .. n : \E x \in P : Place(x, P) = k
  BY <1>8 DEF Surjection
<1>10. DOMAIN Sorted(P) = 1 .. n /\ \A k \in 1 .. n : Sorted(P)[k] = CHOOSE x \in P : Place(x, P) = k
  BY DEF Sorted
<1>11. \A k \in 1 .. n : Sorted(P)[k] \in P /\ Place(Sorted(P)[k], P) = k
  BY <1>9, <1>10
<1>12. Sorted(P) \in Seq(P)
  <2>1. \A k \in 1 .. n : (CHOOSE x \in P : Place(x, P) = k) \in P  BY <1>10, <1>11
  <2> QED  BY <1>1, <2>1, IsASeq DEF Sorted
<1>13. \A i, j \in 1 .. n : Sorted(P)[i] = Sorted(P)[j] => i = j
  <2> TAKE i, j \in 1 .. n
  <2> HAVE Sorted(P)[i] = Sorted(P)[j]
  <2>1. Place(Sorted(P)[i], P) = i /\ Place(Sorted(P)[j], P) = j  BY <1>11
  <2> QED  BY <2>1
<1>14. ASSUME NEW x \in P PROVE \E i \in 1 .. n : Sorted(P)[i] = x
  <2>1. Place(x, P) \in 1 .. n  BY <1>5
  <2>2. Sorted(P)[Place(x, P)] \in P /\ Place(Sorted(P)[Place(x, P)], P) = Place(x, P)  BY <1>11, <2>1
  <2> QED  BY <1>4, <2>1, <2>2
<1> QED  BY <1>1, <1>10, <1>12, <1>13, <1>14

\* The bits of a name are bits.
LEMMA BitsOfName ==
  ASSUME NEW name \in Seq(Bits \X Nat)
  PROVE  sequence_bits(name) \in Seq(Bits)
<1> DEFINE n == Len(name)
           Part(k) == [j \in 1 .. name[k][2] |-> name[k][1]]
           Solves(f, m) == f = [k \in 0 .. m |-> IF k = 0 THEN <<>> ELSE f[k - 1] \o Part(k)]
           bits == CHOOSE f : Solves(f, n)
<1>1. sequence_bits(name) = bits[n]  BY DEF sequence_bits
<1>2. n \in Nat  BY LenProperties
<1>3. ASSUME NEW k \in 1 .. n PROVE Part(k) \in Seq(Bits)
  <2>1. name[k] \in Bits \X Nat  BY ElementOfSeq
  <2>2. PICK m \in Nat, b \in Bits : m = name[k][2] /\ b = name[k][1]  BY <2>1
  <2>3. [j \in 1 .. m |-> b] \in Seq(Bits)  OBVIOUS
  <2> QED  BY <2>2, <2>3
<1> HIDE DEF Part
<1>4. ASSUME NEW m \in Nat PROVE \E f : Solves(f, m)
  <2> DEFINE Missing == {l \in Nat : ~ \E f : Solves(f, l)}
  <2> SUFFICES ASSUME Missing # {} PROVE FALSE
    OBVIOUS
  <2>1. PICK l \in Missing : \A i \in Missing : l <= i
    <3>1. Missing \subseteq Nat  OBVIOUS
    <3> HIDE DEF Missing
    <3> QED  BY <3>1, Least
  <2>2. l # 0
    <3> DEFINE f == [k \in 0 .. 0 |-> <<>>]
    <3>1. f = [k \in 0 .. 0 |-> IF k = 0 THEN <<>> ELSE f[k - 1] \o Part(k)]  OBVIOUS
    <3>2. Solves(f, 0)  BY <3>1
    <3> QED  BY <3>2
  <2>3. l - 1 \in Nat /\ l \in Nat /\ ~ l <= l - 1  BY <2>2
  <2>4. PICK f : Solves(f, l - 1)  BY <2>1, <2>3
  <2>5. \A k \in 0 .. l - 1 : f[k] = IF k = 0 THEN <<>> ELSE f[k - 1] \o Part(k)
    <3>1. f = [k \in 0 .. l - 1 |-> IF k = 0 THEN <<>> ELSE f[k - 1] \o Part(k)]  BY <2>4
    <3> QED  BY <3>1
  <2> DEFINE V(k) == IF k < l THEN f[k] ELSE f[l - 1] \o Part(l)
             g == [k \in 0 .. l |-> V(k)]
  <2>6. \A k \in 0 .. l : g[k] = V(k)  OBVIOUS
  <2>7. \A k \in 0 .. l : g[k] = IF k = 0 THEN <<>> ELSE g[k - 1] \o Part(k)
    <3> TAKE k \in 0 .. l
    <3> HIDE DEF g
    <3>1. CASE k = 0  BY <2>3, <2>5, <2>6, <3>1
    <3>2. CASE k # 0 /\ k < l
      <4>1. k \in 0 .. l - 1 /\ k - 1 \in 0 .. l /\ k - 1 < l  BY <2>3, <3>2
      <4> QED  BY <2>5, <2>6, <3>2, <4>1
    <3>3. CASE k = l
      <4>1. k - 1 \in 0 .. l /\ k - 1 < l /\ k # 0  BY <2>3, <3>3
      <4>2. g[k - 1] = f[k - 1]  BY <2>6, <4>1
      <4>3. g[k] = V(k) /\ ~ k < l  BY <2>3, <2>6, <3>3
      <4>4. V(k) = f[k - 1] \o Part(k)
        <5>1. V(k) = f[l - 1] \o Part(l)  BY <4>3
        <5> QED  BY <3>3, <5>1
      <4> HIDE DEF V
      <4> QED  BY <4>1, <4>2, <4>3, <4>4
    <3> QED  BY <2>3, <3>1, <3>2, <3>3
  <2>8. g = [k \in 0 .. l |-> g[k]]  OBVIOUS
  <2> HIDE DEF g
  <2>9. Solves(g, l)  BY <2>7, <2>8
  <2> QED  BY <2>1, <2>9
<1>5. Solves(bits, n)
  <2> HIDE DEF Solves
  <2> QED  BY <1>2, <1>4
<1>6. \A k \in 0 .. n : bits[k] = IF k = 0 THEN <<>> ELSE bits[k - 1] \o Part(k)
  <2>1. bits = [k \in 0 .. n |-> IF k = 0 THEN <<>> ELSE bits[k - 1] \o Part(k)]  BY <1>5
  <2> HIDE DEF bits
  <2> QED  BY <2>1
<1> HIDE DEF bits
<1> DEFINE Wrong == {k \in 0 .. n : bits[k] \notin Seq(Bits)}
<1>7. ASSUME Wrong # {} PROVE FALSE
  <2>1. PICK k \in Wrong : \A l \in Wrong : k <= l
    <3>1. Wrong \subseteq Nat  OBVIOUS
    <3> HIDE DEF Wrong
    <3> QED  BY <1>7, <3>1, Least
  <2>2. k # 0  BY <1>6, <2>1, EmptySeq
  <2>3. k - 1 \in 0 .. n /\ k \in 1 .. n /\ ~ k <= k - 1  BY <1>2, <2>2
  <2>4. bits[k - 1] \in Seq(Bits) /\ Part(k) \in Seq(Bits)  BY <1>3, <2>1, <2>3
  <2>5. bits[k] = bits[k - 1] \o Part(k)  BY <1>6, <2>2
  <2> QED  BY <2>4, <2>5, ConcatProperties
<1> QED  BY <1>1, <1>2, <1>7

\* The prefixes of sequences, finite in number and each the next of another.
LEMMA PrefixesClosed ==
  ASSUME NEW Q, Q \subseteq Seq(Bits), IsFiniteSet(Q)
  PROVE  /\ PrefixesOf(Q) \subseteq Seq(Bits) /\ IsFiniteSet(PrefixesOf(Q)) /\ Q \subseteq PrefixesOf(Q)
         /\ PrefixesOf(Q) # {} => Closed(PrefixesOf(Q))
<1> DEFINE Of(x) == {SubSeq(x, 1, k) : k \in 0 .. Len(x)}
           Family == {Of(x) : x \in Q}
<1>1. PrefixesOf(Q) = UNION Family  BY DEF PrefixesOf
<1>2. \A x \in Q : Len(x) \in Nat /\ IsFiniteSet(Of(x)) /\ Of(x) \subseteq Seq(Bits) /\ x \in Of(x) /\ <<>> \in Of(x)
  <2> TAKE x \in Q
  <2>1. Len(x) \in Nat  BY LenProperties
  <2> DEFINE g == [k \in 0 .. Len(x) |-> SubSeq(x, 1, k)]
  <2>2. g \in Surjection(0 .. Len(x), Of(x))  BY DEF Surjection
  <2>3. 0 \in Int /\ Len(x) \in Int  BY <2>1
  <2>4. IsFiniteSet(0 .. Len(x))  BY <2>3, FS_Interval
  <2>5. IsFiniteSet(Of(x))
    <3> HIDE DEF g, Of
    <3> QED  BY <2>2, <2>4, FS_Surjection
  <2>6. \A k \in 0 .. Len(x) : SubSeq(x, 1, k) \in Seq(Bits)  BY Prefix
  <2>7. SubSeq(x, 1, Len(x)) = x /\ Len(x) \in 0 .. Len(x) /\ SubSeq(x, 1, 0) = <<>> /\ 0 \in 0 .. Len(x)
    BY <2>1, SubSeqFull, SubSeqEmpty
  <2>8. x \in Of(x) /\ <<>> \in Of(x)  BY <2>7
  <2> QED  BY <2>1, <2>5, <2>6, <2>8
<1>3. IsFiniteSet(Family)
  <2> DEFINE g == [x \in Q |-> Of(x)]
  <2>1. g \in Surjection(Q, Family)
    <3> HIDE DEF Of
    <3> QED  BY DEF Surjection
  <2> HIDE DEF g, Family
  <2> QED  BY <2>1, FS_Surjection
<1>4. IsFiniteSet(UNION Family)
  <2>1. \A T \in Family : IsFiniteSet(T)
    <3> HIDE DEF Of
    <3> QED  BY <1>2
  <2> HIDE DEF Family
  <2> QED  BY <1>3, <2>1, FS_UNION
<1>5. ASSUME NEW y \in PrefixesOf(Q), y # <<>> PROVE Front(y) \in PrefixesOf(Q)
  <2>1. PICK x \in Q : y \in Of(x)
    <3> HIDE DEF Of
    <3> QED  BY <1>1
  <2>2. PICK k \in 0 .. Len(x) : y = SubSeq(x, 1, k)  BY <2>1
  <2>3. Len(x) \in Nat /\ x \in Seq(Bits)  BY <1>2
  <2>4. k # 0  BY <1>5, <2>2, <2>3, Prefix
  <2>5. k > 0 /\ k - 1 \in 0 .. Len(x)  BY <2>3, <2>4
  <2>6. Front(y) = SubSeq(x, 1, k - 1)  BY <2>2, <2>3, <2>5, Prefix
  <2>7. Front(y) \in Of(x)  BY <2>5, <2>6
  <2> HIDE DEF Of
  <2> QED  BY <1>1, <2>7
<1>6. UNION Family \subseteq Seq(Bits) /\ Q \subseteq UNION Family /\ (UNION Family # {} => <<>> \in UNION Family)
  <2> HIDE DEF Of
  <2> QED  BY <1>2
<1> HIDE DEF Family, Of
<1> QED  BY <1>1, <1>4, <1>5, <1>6 DEF Closed

\* The design of a recogniser's file.
LEMMA RecogniserSound ==
  ASSUME NEW p \in Problems, p.kind = "recogniser", ~ complete(p).invalid
  PROVE  Sound(p, complete(p))
<1> DEFINE d == complete(p)
           rec == Recognised(p)
           Q == {r.bits : r \in rec}
           S == PrefixesOf(Q)
           H == Holding(p, rec)
           start == IF p.previous = {} THEN Nothing ELSE <<CHOOSE b \in p.previous : TRUE>>
           R == reachable_prefixes(S, H, start)
           L == <<start>> \o Sorted((S \cap R) \ {start})
           asserted == {<<r.out, r.bits>> : r \in rec}
           Rejected == \/ \E r \in rec : r.bits = Nothing
                       \/ \E x, y \in S : x # y /\ state_name(x, S, rec) = state_name(y, S, rec)
                       \/ \E r \in rec, x \in S : x # r.bits /\ IsSuffix(r.bits, x)
                       \/ \E k \in p.keeps : \A r \in rec : r.out # k[1]
                       \/ start \notin S
                       \/ \E r \in rec : r.bits \notin R
<1>1. /\ p.overlapping = TRUE /\ IsFiniteSet(p.recognises)
      /\ \A f \in p.recognises : f[2] \in Seq(Bits \X Nat)
      /\ \A k \in p.keeps : k = <<k[1], k[2]>>
  BY ProblemsAssumption
<1>2. d = IF Rejected THEN Invalid ELSE Design(S, L, start, H, asserted)
  BY DEF complete, expand_sequences
<1>3. ~ Rejected
  <2>1. Invalid.invalid = TRUE  BY DEF Invalid
  <2> HIDE DEF Rejected
  <2> QED  BY <1>2, <2>1
<1>4. d = Design(S, L, start, H, asserted)
  <2> HIDE DEF Rejected
  <2> QED  BY <1>2, <1>3
<1> HIDE DEF d
<1>5. /\ d.states = S /\ d.listed = L /\ d.start = <<>> /\ d.initial = start /\ d.holds = H
      /\ d.asserted = asserted /\ d.encoding = encoding(L)
  <2> HIDE DEF S, L, H, asserted, start
  <2> QED  BY <1>4 DEF Design, Nothing
<1>6. rec = {[out |-> f[1], bits |-> sequence_bits(f[2])] : f \in p.recognises}  BY DEF Recognised
<1> HIDE DEF rec
<1>7. /\ \A r \in rec : \E f \in p.recognises : r.out = f[1] /\ r.bits = sequence_bits(f[2])
      /\ \A f \in p.recognises : \E r \in rec : r.out = f[1] /\ r.bits = sequence_bits(f[2])
  <2> DEFINE Of(f) == [out |-> f[1], bits |-> sequence_bits(f[2])]
  <2>1. \A f : Of(f).out = f[1] /\ Of(f).bits = sequence_bits(f[2])  OBVIOUS
  <2>2. rec = {Of(f) : f \in p.recognises}  BY <1>6
  <2> HIDE DEF Of
  <2>3. \A r \in rec : \E f \in p.recognises : r = Of(f)  BY <2>2
  <2>4. \A f \in p.recognises : Of(f) \in rec  BY <2>2
  <2> QED  BY <2>1, <2>3, <2>4
<1>8. Q = SequencesOf(p)  BY <1>7 DEF SequencesOf
<1>9. Q \subseteq Seq(Bits)  BY <1>1, <1>7, BitsOfName
<1>10. IsFiniteSet(Q)
  <2> DEFINE g == [f \in p.recognises |-> sequence_bits(f[2])]
  <2>1. g \in Surjection(p.recognises, Q)
    <3>1. g \in [p.recognises -> Q] /\ \A f \in p.recognises : g[f] = sequence_bits(f[2])  BY <1>7
    <3> HIDE DEF g
    <3> QED  BY <1>7, <3>1 DEF Surjection
  <2> HIDE DEF g, Q
  <2> QED  BY <1>1, <2>1, FS_Surjection
<1>11. S \subseteq Seq(Bits) /\ IsFiniteSet(S) /\ Q \subseteq S /\ Closed(S) /\ start \in S
  <2> HIDE DEF Q, start
  <2> QED  BY <1>3, <1>9, <1>10, PrefixesClosed
<1>12. \A s \in Q : s \in S /\ s # <<>> /\ s \in R /\ \A x \in S : IsSuffix(s, x) => x = s
  <2> HIDE DEF S, R
  <2> QED  BY <1>3, <1>11 DEF Nothing
<1>13. \A x, b : <<x, b>> \in H <=>
         b \in Bits /\ \E f \in p.recognises : x = sequence_bits(f[2]) /\ <<f[1], b>> \in p.keeps
  <2> TAKE x, b
  <2>1. <<x, b>> \in H <=> /\ \E r \in rec : x = r.bits
                           /\ b \in Bits
                           /\ \E k \in p.keeps : \E r \in rec : r.out = k[1] /\ x = r.bits /\ b = k[2]
    BY DEF Holding
  <2>2. ASSUME <<x, b>> \in H
        PROVE  b \in Bits /\ \E f \in p.recognises : x = sequence_bits(f[2]) /\ <<f[1], b>> \in p.keeps
    <3>1. PICK k \in p.keeps, r \in rec : r.out = k[1] /\ x = r.bits /\ b = k[2]  BY <2>1, <2>2
    <3>2. k = <<k[1], k[2]>>  BY <1>1
    <3>3. <<r.out, b>> \in p.keeps  BY <3>1, <3>2
    <3> QED  BY <1>7, <2>1, <2>2, <3>1, <3>3
  <2>3. ASSUME b \in Bits, NEW f \in p.recognises, x = sequence_bits(f[2]), <<f[1], b>> \in p.keeps
        PROVE  <<x, b>> \in H
    <3>1. PICK r \in rec : r.out = f[1] /\ r.bits = sequence_bits(f[2])  BY <1>7
    <3> DEFINE k == <<f[1], b>>
    <3>2. k \in p.keeps /\ k[1] = f[1] /\ k[2] = b  BY <2>3
    <3> HIDE DEF k
    <3> QED  BY <2>1, <2>3, <3>1, <3>2
  <2> QED  BY <2>2, <2>3
<1>14. \A h \in H : h \in Q \X Bits
  <2>1. \A h \in H : \E r \in rec, b \in Bits : h = <<r.bits, b>>  BY DEF Holding
  <2> QED  BY <2>1
<1>15. asserted = {<<f[1], sequence_bits(f[2])>> : f \in p.recognises}
  BY <1>7
<1> HIDE DEF H, asserted, Rejected, S, start, Q
<1>16. Apart(S, H)
  <2> SUFFICES ASSUME NEW x, NEW b, <<x, b>> \in H
               PROVE  x \in Seq(Bits) /\ x # <<>> /\ \A y \in S : IsSuffix(x, y) => y = x
    BY DEF Apart
  <2>1. x \in Q  BY <1>14
  <2> QED  BY <1>9, <1>12, <2>1
<1>17. \A x \in S, b \in Bits : IF <<x, b>> \in H THEN step(S, H)[<<x, b>>] = x
                                ELSE Longest(S, Append(x, b), step(S, H)[<<x, b>>])
  BY <1>11, <1>16, StepIsRight DEF Walk
<1>18. \A z \in S \X Bits : step(S, H)[z] \in S
  <2> TAKE z \in S \X Bits
  <2>1. PICK x \in S, b \in Bits : z = <<x, b>>  OBVIOUS
  <2> QED  BY <1>17, <2>1 DEF Longest
<1>19. /\ R \subseteq S /\ start \in R /\ Follows(step(S, H), R)
       /\ \A C \in SUBSET S : start \in C /\ Follows(step(S, H), C) => R \subseteq C
  BY <1>11, <1>18, ReachIsLeast
<1> HIDE DEF R
<1> DEFINE P == (S \cap R) \ {start}
<1>20. IsFiniteSet(P) /\ P \subseteq Seq(Bits) /\ P \subseteq S
  <2>1. P \in SUBSET S  OBVIOUS
  <2> HIDE DEF P
  <2> QED  BY <1>11, <2>1, FS_Subset
<1>21. /\ Sorted(P) \in Seq(P) /\ DOMAIN Sorted(P) = 1 .. Cardinality(P) /\ Cardinality(P) \in Nat
       /\ \A i, j \in DOMAIN Sorted(P) : Sorted(P)[i] = Sorted(P)[j] => i = j
       /\ \A x \in P : \E i \in DOMAIN Sorted(P) : Sorted(P)[i] = x
  <2> HIDE DEF P
  <2> QED  BY <1>20, SortedLists
<1> DEFINE n == Cardinality(P)
           T == Sorted(P)
<1>22. /\ T \in Seq(P) /\ DOMAIN T = 1 .. n /\ n \in Nat /\ Len(T) = n /\ \A i \in 1 .. n : T[i] \in P
       /\ \A i, j \in 1 .. n : T[i] = T[j] => i = j
       /\ \A x \in P : \E i \in 1 .. n : T[i] = x
  <2>1. Len(T) = n
    <3> HIDE DEF P
    <3> QED  BY <1>21, LenProperties
  <2> HIDE DEF P
  <2> QED  BY <1>21, <2>1, ElementOfSeq
<1>23. /\ L \in Seq(S) /\ Len(L) = n + 1 /\ DOMAIN L = 1 .. n + 1 /\ L[1] = start
       /\ \A i \in 2 .. n + 1 : L[i] = T[i - 1]
  <2>1. L = <<start>> \o T  BY Zenon
  <2> HIDE DEF T, n
  <2>2. PICK u \in Seq(S) : u = <<start>> /\ Len(u) = 1 /\ u[1] = start
    <3>1. \A s \in S : <<s>> \in Seq(S) /\ Len(<<s>>) = 1 /\ <<s>>[1] = s  OBVIOUS
    <3>2. <<start>> \in Seq(S) /\ Len(<<start>>) = 1 /\ <<start>>[1] = start  BY <1>11, <3>1
    <3> QED  BY <3>2
  <2>3. T \in Seq(S)
    <3> HIDE DEF P
    <3> QED  BY <1>20, <1>22, SeqMonotonic
  <2>4. L = u \o T  BY <2>1, <2>2
  <2> HIDE DEF L
  <2>5. /\ L \in Seq(S) /\ Len(L) = Len(u) + Len(T)
        /\ \A i \in 1 .. Len(u) + Len(T) : L[i] = IF i <= Len(u) THEN u[i] ELSE T[i - Len(u)]
    BY <2>3, <2>4, ConcatProperties
  <2>6. DOMAIN L = 1 .. Len(L)  BY <2>5, LenProperties
  <2> QED  BY <1>22, <2>2, <2>5, <2>6
<1> HIDE DEF L, T, n
<1>24. ToSet(L) = R
  <2>1. \A i \in 1 .. n + 1 : L[i] \in R
    <3> TAKE i \in 1 .. n + 1
    <3>1. CASE i = 1  BY <1>19, <1>23, <3>1
    <3>2. CASE i # 1
      <4>1. i \in 2 .. n + 1 /\ i - 1 \in 1 .. n  BY <1>22, <3>2
      <4>2. T[i - 1] \in P  BY <1>22, <4>1
      <4> QED  BY <1>23, <4>1, <4>2
    <3> QED  BY <3>1, <3>2
  <2>2. ASSUME NEW x \in R PROVE \E i \in 1 .. n + 1 : L[i] = x
    <3>1. CASE x = start
      <4>1. 1 \in 1 .. n + 1  BY <1>22
      <4> QED  BY <1>23, <3>1, <4>1
    <3>2. CASE x # start
      <4>1. PICK i \in 1 .. n : T[i] = x  BY <1>19, <1>22, <3>2
      <4>2. i + 1 \in 2 .. n + 1 /\ i + 1 \in 1 .. n + 1 /\ (i + 1) - 1 = i  BY <1>22
      <4> QED  BY <1>23, <4>1, <4>2
    <3> QED  BY <3>1, <3>2
  <2> QED  BY <1>23, <2>1, <2>2 DEF ToSet
<1>25. \A i, j \in DOMAIN L : L[i] = L[j] => i = j
  <2> SUFFICES ASSUME NEW i \in 1 .. n + 1, NEW j \in 1 .. n + 1, L[i] = L[j] PROVE i = j
    BY <1>23
  <2>1. \A k \in 1 .. n + 1 : k # 1 => k \in 2 .. n + 1 /\ k - 1 \in 1 .. n /\ k \in Nat  BY <1>22
  <2>2. \A k \in 1 .. n + 1 : k # 1 => L[k] = T[k - 1] /\ L[k] # start
    <3> TAKE k \in 1 .. n + 1
    <3> HAVE k # 1
    <3>1. T[k - 1] \in P  BY <1>22, <2>1
    <3> QED  BY <1>23, <2>1, <3>1
  <2>3. i # 1 /\ j # 1 => i - 1 = j - 1
    <3> HIDE DEF P
    <3> QED  BY <1>22, <2>1, <2>2
  <2> QED  BY <1>23, <2>1, <2>2, <2>3
<1>26. \A x \in S, b \in Bits : \A y : Goal(p, d, x, b, y) <=> y = step(S, H)[<<x, b>>]
  <2> TAKE x \in S, b \in Bits
  <2> TAKE y
  <2>1. Goal(p, d, x, b, y) <=> IF <<x, b>> \in H THEN y = x ELSE Longest(S, Append(x, b), y)
    BY <1>5 DEF Goal
  <2> QED  BY <1>11, <1>17, <2>1, OneLongest
<1>27. Stays_in(p, d, R)
  <2> SUFFICES ASSUME NEW x \in R, NEW b \in Bits, NEW y, Goal(p, d, x, b, y) PROVE y \in R
    BY DEF Stays_in
  <2>1. y = step(S, H)[<<x, b>>]  BY <1>19, <1>26
  <2>2. <<x, b>> \in R \X Bits  OBVIOUS
  <2> QED  BY <1>19, <2>1, <2>2 DEF Follows
<1>28. ASSUME NEW C, start \in C, Stays_in(p, d, C) PROVE R \subseteq C
  <2>1. Follows(step(S, H), C \cap S)
    <3> SUFFICES ASSUME NEW z \in (C \cap S) \X Bits PROVE step(S, H)[z] \in C \cap S
      BY DEF Follows
    <3>1. PICK x \in C \cap S, b \in Bits : z = <<x, b>>  OBVIOUS
    <3>2. Goal(p, d, x, b, step(S, H)[<<x, b>>])  BY <1>26, <3>1
    <3>3. step(S, H)[<<x, b>>] \in C  BY <1>28, <3>1, <3>2 DEF Stays_in
    <3>4. <<x, b>> \in S \X Bits  OBVIOUS
    <3> QED  BY <1>18, <3>1, <3>3, <3>4
  <2>2. start \in C \cap S /\ C \cap S \in SUBSET S  BY <1>11, <1>28
  <2> QED  BY <1>19, <2>1, <2>2
<1>29. Lists(p, d)
  <2>1. L # <<>>
    <3>1. Len(L) # 0  BY <1>22, <1>23
    <3> QED  BY <1>23, <3>1, EmptySeq
  <2> QED  BY <1>5, <1>23, <1>24, <1>25, <1>27, <1>28, <2>1 DEF Lists
<1>30. Recognises_as(p, d)
  BY <1>1, <1>5, <1>8, <1>11, <1>12, <1>13, <1>14, <1>15 DEF Recognises_as
<1>31. Sound(p, d)  BY <1>5, <1>11, <1>29, <1>30 DEF Sound
<1> QED  BY <1>31 DEF d

\* The design of every accepted file lists the states its machine can be in.
LEMMA DesignSound ==
  \A p \in Problems : ~ complete(p).invalid => Sound(p, complete(p))
<1> QED  BY DetectorSound, RecogniserSound

---------------------------------------------------------------------------
(*************************************************************************)
(* Derivation in order: what the facts derived so far and the tasks still*)
(* to come have to be.                                                   *)
(*************************************************************************)
\* Facts, and what the tasks on the stack are about.
K(T, x, b) == \E t \in T : t[1] = x /\ t[2] = b
FK(F, x)   == \E f \in F : f[1] = x
Completes_in(p, x, b) == p.kind = "mealy" /\ Append(x, b) = p.pattern

\* The facts derived are right, and outputs are asserted with the transitions that complete the pattern.
Facts(p, d, T, F, E) ==
  /\ \A t \in T : \E x \in d.states, b \in Bits, y \in d.states : t = <<x, b, y>> /\ Goal(p, d, x, b, y)
  /\ \A g \in F : \E x \in d.states, f \in d.states : g = <<x, f>> /\ Falls_to(d.states, x, f)
  /\ E \subseteq d.states \X Bits
  /\ \A x \in d.states, b \in Bits : <<x, b>> \in E <=> K(T, x, b) /\ Completes_in(p, x, b)

\* The tasks the methods order.
Tasks(d) ==
  [task : {"from", "fallback", "step"}, s : d.states] \cup [task : {"next", "via"}, s : d.states, b : Bits]
    \cup [task : {"fall back"}, s : d.states, b : Bits, f : d.states]
    \cup [task : {"extend"}, s : d.states, f : d.states]

\* Tasks about a transition, tasks about a fallback, and those that conclude.
On_next(t, x, b) == t.task \in {"next", "via", "fall back"} /\ t.s = x /\ t.b = b
On_fall(t, x)    == t.task \in {"fallback", "step", "extend"} /\ t.s = x
Concludes(t)     == t.task \in {"via", "step", "fall back", "extend"}

\* The bit is read in the state's fallback.
ReadsBelow(p, d, x, b) ==
  /\ Append(x, b) \notin d.states /\ <<x, b>> \notin d.holds
  /\ ~ (p.kind = "mealy" /\ ~ p.overlapping /\ Append(x, b) = p.pattern)
  /\ ~ (p.kind = "moore" /\ ~ p.overlapping /\ x = p.pattern)

\* What a method found when it ordered the task.
Proper(p, d, t) ==
  /\ t.task = "from" => t.s \in ToSet(d.listed)
  /\ t.task = "fallback" => t.s # <<>>
  /\ t.task = "via" => t.s # <<>> /\ ReadsBelow(p, d, t.s, t.b)
  /\ t.task = "step" => t.s # <<>> /\ Front(t.s) # <<>>
  /\ t.task = "extend" => t.s # <<>> /\ Front(t.s) # <<>> /\ Falls_to(d.states, Front(t.s), t.f)
  /\ t.task = "fall back" =>
       \/ t.s # <<>> /\ ReadsBelow(p, d, t.s, t.b) /\ Falls_to(d.states, t.s, t.f)
       \/ p.kind = "moore" /\ ~ p.overlapping /\ t.s = p.pattern /\ t.f = <<>>

\* What a concluding task concludes is open, and what it reads off is there or
\* the task before it provides it.
Undone(T, F, t) ==
  /\ t.task \in {"via", "fall back"} => ~ K(T, t.s, t.b)
  /\ t.task \in {"step", "extend"} => ~ FK(F, t.s)
Has(T, F, t) ==
  /\ t.task = "via" => FK(F, t.s)
  /\ t.task = "step" => FK(F, Front(t.s))
  /\ t.task = "fall back" => K(T, t.f, t.b)
  /\ t.task = "extend" => K(T, t.f, Last(t.s))
Gives(u, t) ==
  /\ t.task = "via" => On_fall(u, t.s)
  /\ t.task = "step" => On_fall(u, Front(t.s))
  /\ t.task = "fall back" => On_next(u, t.f, t.b)
  /\ t.task = "extend" => On_next(u, t.f, Last(t.s))
\* Tasks get smaller downwards: a transition is more than a fallback of the same state.
Size(t) == IF t.task \in {"fallback", "step", "extend"} THEN 2 * Len(t.s) ELSE 2 * Len(t.s) + 1

\* The tasks in order: the walk last, and before a task that concludes the one
\* that provides, smaller, as all that come before are.
Stack(p, d, T, F, ts) ==
  /\ ts \in Seq(Tasks(d))
  /\ \A i \in 1 .. Len(ts) : Proper(p, d, ts[i])
  /\ \A i \in 1 .. Len(ts) : ts[i].task = "from" => i = Len(ts)
  /\ \A i \in 1 .. Len(ts) : Concludes(ts[i]) =>
       /\ Undone(T, F, ts[i])
       /\ Has(T, F, ts[i]) \/ (i > 1 /\ Gives(ts[i - 1], ts[i]))
       /\ \A j \in 1 .. i - 1 : Size(ts[j]) < Size(ts[i])

\* Every state listed has its transitions, or there is a task for them, or the
\* walk is still to come to it.
Promised(d, T, ts) ==
  \A i \in 1 .. Len(d.listed), b \in Bits :
    \/ K(T, d.listed[i], b)
    \/ \E j \in 1 .. Len(ts) : On_next(ts[j], d.listed[i], b)
    \/ \E j \in 1 .. Len(ts) : ts[j].task = "from" /\ \E k \in 1 .. i : d.listed[k] = ts[j].s

\* Derivation in order.
Derivation(p, d, T, F, E, ts) == Facts(p, d, T, F, E) /\ Stack(p, d, T, F, ts) /\ Promised(d, T, ts)

\* A decomposition of the first task, h, into new, with the facts it adds.
Fits(p, d, T, F, h, new, T2, F2) ==
  /\ Stack(p, d, T2, F2, new)
  /\ \A j \in 1 .. Len(new) : new[j].task # "from" /\ Size(new[j]) <= Size(h)
  /\ T \subseteq T2 /\ F \subseteq F2
  /\ \A x, b : K(T2, x, b) => K(T, x, b) \/ On_next(h, x, b)
  /\ \A x : FK(F2, x) => FK(F, x) \/ On_fall(h, x)
  /\ \A x, b : On_next(h, x, b) => K(T2, x, b) \/ (Len(new) > 0 /\ On_next(new[Len(new)], x, b))
  /\ \A x : On_fall(h, x) => FK(F2, x) \/ (Len(new) > 0 /\ On_fall(new[Len(new)], x))

\* The fields of a task.
LEMMA StateOfTask ==
  ASSUME NEW d, Closed(d.states), NEW t \in Tasks(d)
  PROVE  /\ t.s \in d.states /\ t.s \in Seq(Bits) /\ Len(t.s) \in Nat /\ Size(t) \in Nat
         /\ t.task \in {"from", "next", "via", "fallback", "step", "fall back", "extend"}
         /\ t.task \in {"next", "via", "fall back"} => t.b \in Bits
         /\ t.task \in {"fall back", "extend"} => t.f \in d.states
<1>1. t.s \in d.states  BY DEF Tasks
<1>2. t.s \in Seq(Bits) /\ Len(t.s) \in Nat  BY <1>1, LenProperties DEF Closed
<1>3. Size(t) \in Nat  BY <1>2 DEF Size
<1>4. t.task \in {"from", "next", "via", "fallback", "step", "fall back", "extend"}  BY DEF Tasks
<1>5. t.task \in {"next", "via", "fall back"} => t.b \in Bits  BY DEF Tasks
<1>6. t.task \in {"fall back", "extend"} => t.f \in d.states  BY DEF Tasks
<1> QED  BY <1>1, <1>2, <1>3, <1>4, <1>5, <1>6

\* Tasks about a transition that conclude are of its size.
LEMMA SameSize ==
  \A t, u : t.task \in {"via", "fall back"} /\ On_next(u, t.s, t.b) => Size(u) = Size(t)
<1> TAKE t, u
<1> HAVE t.task \in {"via", "fall back"} /\ On_next(u, t.s, t.b)
<1>1. u.task \in {"next", "via", "fall back"} /\ u.s = t.s  BY DEF On_next
<1>2. Size(u) = 2 * Len(u.s) + 1 /\ Size(t) = 2 * Len(t.s) + 1  BY <1>1 DEF Size
<1> QED  BY <1>1, <1>2

\* What new \o Tail(ts) holds.
LEMMA Spliced ==
  ASSUME NEW A, NEW ts \in Seq(A), ts # <<>>, NEW new \in Seq(A)
  PROVE  LET r == new \o Tail(ts)
             n == Len(new)
         IN /\ r \in Seq(A) /\ Len(r) = n + Len(ts) - 1 /\ n \in Nat /\ Len(ts) \in Nat /\ Len(ts) >= 1
            /\ Head(ts) = ts[1]
            /\ \A i \in 1 .. n : r[i] = new[i]
            /\ \A i \in n + 1 .. Len(r) : r[i] = ts[i - n + 1] /\ i - n + 1 \in 2 .. Len(ts)
<1> DEFINE r == new \o Tail(ts)
           n == Len(new)
<1>1. Tail(ts) \in Seq(A) /\ Len(Tail(ts)) = Len(ts) - 1 /\ \A i \in 1 .. Len(Tail(ts)) : Tail(ts)[i] = ts[i + 1]
  BY HeadTailProperties
<1>2. n \in Nat /\ Len(ts) \in Nat /\ Len(ts) # 0  BY LenProperties, EmptySeq
<1>3. r \in Seq(A) /\ Len(r) = n + Len(Tail(ts))
      /\ \A i \in 1 .. n + Len(Tail(ts)) : r[i] = IF i <= n THEN new[i] ELSE Tail(ts)[i - n]
  BY <1>1, ConcatProperties
<1>4. Head(ts) = ts[1]  OBVIOUS
<1> HIDE DEF r, n
<1>5. \A i \in 1 .. n : r[i] = new[i]  BY <1>1, <1>2, <1>3
<1>6. ASSUME NEW i \in n + 1 .. Len(r) PROVE r[i] = ts[i - n + 1] /\ i - n + 1 \in 2 .. Len(ts)
  <2>1. i - n \in 1 .. Len(Tail(ts)) /\ i \in 1 .. n + Len(Tail(ts)) /\ ~ i <= n  BY <1>1, <1>2, <1>3
  <2>2. r[i] = ts[(i - n) + 1]  BY <1>1, <1>3, <2>1
  <2> QED  BY <1>1, <1>2, <2>1, <2>2
<1> QED  BY <1>1, <1>2, <1>3, <1>4, <1>5, <1>6 DEF r, n

\* The stack is in order when the first task gives way to what it decomposes into.
LEMMA ReplaceHead ==
  ASSUME NEW p, NEW d, Closed(d.states), NEW T, NEW F, NEW ts, Stack(p, d, T, F, ts), ts # <<>>,
         NEW new, NEW T2, NEW F2, Head(ts).task # "from", Fits(p, d, T, F, Head(ts), new, T2, F2)
  PROVE  Stack(p, d, T2, F2, new \o Tail(ts)) /\ (Promised(d, T, ts) => Promised(d, T2, new \o Tail(ts)))
<1> DEFINE r == new \o Tail(ts)
           n == Len(new)
           m == Len(ts)
           h == Head(ts)
<1>1. ts \in Seq(Tasks(d)) /\ new \in Seq(Tasks(d))  BY DEF Stack, Fits
<1>2. /\ r \in Seq(Tasks(d)) /\ Len(r) = n + m - 1 /\ n \in Nat /\ m \in Nat /\ m >= 1 /\ h = ts[1]
      /\ \A i \in 1 .. n : r[i] = new[i]
      /\ \A i \in n + 1 .. Len(r) : r[i] = ts[i - n + 1] /\ i - n + 1 \in 2 .. m
  BY <1>1, Spliced
<1>3. \A i \in 1 .. m : ts[i] \in Tasks(d) /\ Proper(p, d, ts[i]) /\ (ts[i].task = "from" => i = m)
  BY <1>1, ElementOfSeq DEF Stack
<1>4. \A i \in 1 .. n : new[i] \in Tasks(d) /\ Proper(p, d, new[i]) /\ new[i].task # "from" /\ Size(new[i]) <= Size(h)
  BY <1>1, ElementOfSeq DEF Stack, Fits
<1> HIDE DEF r, n, m, h
<1>5. /\ T \subseteq T2 /\ F \subseteq F2
      /\ \A x, b : K(T2, x, b) => K(T, x, b) \/ On_next(h, x, b)
      /\ \A x : FK(F2, x) => FK(F, x) \/ On_fall(h, x)
      /\ \A x, b : On_next(h, x, b) => K(T2, x, b) \/ (n > 0 /\ On_next(new[n], x, b))
      /\ \A x : On_fall(h, x) => FK(F2, x) \/ (n > 0 /\ On_fall(new[n], x))
  BY DEF Fits, n, h
<1>6. \A x, b : K(T, x, b) => K(T2, x, b)  BY <1>5 DEF K
<1>7. \A x : FK(F, x) => FK(F2, x)  BY <1>5 DEF FK
<1>8. 1 \in 1 .. m /\ h \in Tasks(d)  BY <1>2, <1>3
<1>9. \A i \in 1 .. m : Size(ts[i]) \in Nat /\ ts[i].task \in {"from", "next", "via", "fallback", "step", "fall back", "extend"}
  BY <1>3, StateOfTask
<1>10. \A i \in 1 .. Len(r) : i \in 1 .. n \/ i \in n + 1 .. Len(r)  BY <1>2
<1>11. \A i \in 1 .. Len(r) : Proper(p, d, r[i])
  <2> TAKE i \in 1 .. Len(r)
  <2>1. CASE i \in 1 .. n  BY <1>2, <1>4, <2>1
  <2>2. CASE i \in n + 1 .. Len(r)
    <3>1. i - n + 1 \in 1 .. m  BY <1>2, <2>2
    <3> QED  BY <1>2, <1>3, <2>2, <3>1
  <2> QED  BY <1>10, <2>1, <2>2
<1>12. \A i \in 1 .. Len(r) : r[i].task = "from" => i = Len(r)
  <2> TAKE i \in 1 .. Len(r)
  <2>1. CASE i \in 1 .. n  BY <1>2, <1>4, <2>1
  <2>2. CASE i \in n + 1 .. Len(r)
    <3>1. i - n + 1 \in 1 .. m  BY <1>2, <2>2
    <3>2. r[i].task = "from" => i - n + 1 = m  BY <1>2, <1>3, <2>2, <3>1
    <3> QED  BY <1>2, <2>2, <3>2
  <2> QED  BY <1>10, <2>1, <2>2
<1>13. ASSUME NEW i \in 1 .. n, Concludes(r[i])
       PROVE  /\ Undone(T2, F2, r[i])
              /\ Has(T2, F2, r[i]) \/ (i > 1 /\ Gives(r[i - 1], r[i]))
              /\ \A j \in 1 .. i - 1 : Size(r[j]) < Size(r[i])
  <2>1. \A j \in 1 .. i : j \in 1 .. n /\ r[j] = new[j]  BY <1>2
  <2>2. r[i] = new[i] /\ (i > 1 => r[i - 1] = new[i - 1])  BY <1>2, <2>1
  <2>3. /\ Undone(T2, F2, new[i])
        /\ Has(T2, F2, new[i]) \/ (i > 1 /\ Gives(new[i - 1], new[i]))
        /\ \A j \in 1 .. i - 1 : Size(new[j]) < Size(new[i])
    BY <1>13, <2>2 DEF Fits, Stack, n
  <2>4. \A j \in 1 .. i - 1 : r[j] = new[j]  BY <1>2, <2>1
  <2> QED  BY <2>2, <2>3, <2>4
<1>14. ASSUME NEW i \in n + 1 .. Len(r), Concludes(r[i])
       PROVE  /\ Undone(T2, F2, r[i])
              /\ Has(T2, F2, r[i]) \/ (i > 1 /\ Gives(r[i - 1], r[i]))
              /\ \A j \in 1 .. i - 1 : Size(r[j]) < Size(r[i])
  <2> DEFINE k == i - n + 1
             t == ts[k]
  <2>1. k \in 2 .. m /\ k \in 1 .. m /\ r[i] = t /\ 1 \in 1 .. k - 1  BY <1>2
  <2>2. /\ Undone(T, F, t) /\ (Has(T, F, t) \/ (k > 1 /\ Gives(ts[k - 1], t)))
        /\ \A j \in 1 .. k - 1 : Size(ts[j]) < Size(t)
    BY <1>14, <2>1 DEF Stack, m
  <2>3. t.task \in {"via", "step", "fall back", "extend"}  BY <1>14, <2>1 DEF Concludes
  <2>4. Size(h) < Size(t) /\ Size(h) \in Nat /\ Size(t) \in Nat  BY <1>2, <1>8, <1>9, <2>1, <2>2
  <2>5. Undone(T2, F2, t)
    <3>1. ~ (t.task \in {"via", "fall back"} /\ On_next(h, t.s, t.b))
      <4>1. t.task \in {"via", "fall back"} /\ On_next(h, t.s, t.b) => Size(h) = Size(t)
        <5> HIDE DEF t
        <5> QED  BY SameSize
      <4>2. Size(h) # Size(t)
        <5> HIDE DEF t
        <5> QED  BY <2>4
      <4> HIDE DEF t
      <4> QED  BY <4>1, <4>2
    <3>2. ~ (t.task \in {"step", "extend"} /\ On_fall(h, t.s))
      <4> HIDE DEF t
      <4> QED  BY <2>4 DEF On_fall, Size
    <3> HIDE DEF t
    <3> QED  BY <1>5, <2>2, <3>1, <3>2 DEF Undone
  <2>6. Has(T, F, t) => Has(T2, F2, t)
    <3> HIDE DEF t
    <3> QED  BY <1>6, <1>7 DEF Has
  <2>7. ASSUME Gives(h, t) PROVE Has(T2, F2, t) \/ (n > 0 /\ Gives(new[n], t))
    <3> HIDE DEF t
    <3>1. CASE t.task = "via"  BY <1>5, <2>7, <3>1 DEF Gives, Has
    <3>2. CASE t.task = "step"  BY <1>5, <2>7, <3>2 DEF Gives, Has
    <3>3. CASE t.task = "fall back"  BY <1>5, <2>7, <3>3 DEF Gives, Has
    <3>4. CASE t.task = "extend"  BY <1>5, <2>7, <3>4 DEF Gives, Has
    <3> QED  BY <2>3, <3>1, <3>2, <3>3, <3>4
  <2>8. Has(T2, F2, t) \/ (i > 1 /\ Gives(r[i - 1], t))
    <3>1. CASE Has(T, F, t)  BY <2>6, <3>1
    <3>2. CASE Gives(ts[k - 1], t) /\ k = 2
      <4>1. k - 1 = 1 /\ i = n + 1  BY <1>2, <3>2
      <4>2. Gives(h, t)  BY <1>2, <3>2, <4>1
      <4>3. n > 0 => r[i - 1] = new[n] /\ i > 1
        <5>1. n > 0 => i - 1 = n /\ n \in 1 .. n /\ i > 1  BY <1>2, <4>1
        <5> QED  BY <1>2, <5>1
      <4> HIDE DEF t, k
      <4> QED  BY <2>7, <4>2, <4>3
    <3>3. CASE Gives(ts[k - 1], t) /\ k # 2
      <4>1. i - 1 \in n + 1 .. Len(r) /\ (i - 1) - n + 1 = k - 1 /\ i > 1  BY <1>2, <2>1, <3>3
      <4>2. r[i - 1] = ts[k - 1]  BY <1>2, <4>1
      <4> HIDE DEF t, k
      <4> QED  BY <3>3, <4>1, <4>2
    <3> HIDE DEF t, k
    <3> QED  BY <2>2, <3>1, <3>2, <3>3
  <2>9. ASSUME NEW j \in 1 .. i - 1 PROVE Size(r[j]) < Size(r[i])
    <3>1. CASE j \in 1 .. n
      <4>1. r[j] = new[j] /\ Size(new[j]) <= Size(h) /\ Size(new[j]) \in Nat
        BY <1>2, <1>4, <3>1, StateOfTask
      <4> QED  BY <2>1, <2>4, <4>1
    <3>2. CASE j \notin 1 .. n
      <4>1. j \in n + 1 .. Len(r) /\ j - n + 1 \in 1 .. k - 1  BY <1>2, <3>2
      <4>2. r[j] = ts[j - n + 1]  BY <1>2, <4>1
      <4> QED  BY <2>1, <2>2, <4>1, <4>2
    <3> QED  BY <3>1, <3>2
  <2> QED  BY <2>1, <2>5, <2>8, <2>9
<1>15. Stack(p, d, T2, F2, r)
  BY <1>2, <1>10, <1>11, <1>12, <1>13, <1>14 DEF Stack
<1>16. ASSUME Promised(d, T, ts) PROVE Promised(d, T2, r)
  <2> SUFFICES ASSUME NEW i \in 1 .. Len(d.listed), NEW b \in Bits
               PROVE  \/ K(T2, d.listed[i], b)
                      \/ \E j \in 1 .. Len(r) : On_next(r[j], d.listed[i], b)
                      \/ \E j \in 1 .. Len(r) : r[j].task = "from" /\ \E k \in 1 .. i : d.listed[k] = r[j].s
    BY DEF Promised
  <2>1. CASE K(T, d.listed[i], b)  BY <1>6, <2>1
  <2>0. \A j \in 2 .. m : j + n - 1 \in 1 .. Len(r) /\ r[j + n - 1] = ts[j]
    <3> TAKE j \in 2 .. m
    <3>1. j + n - 1 \in n + 1 .. Len(r) /\ j + n - 1 \in 1 .. Len(r) /\ (j + n - 1) - n + 1 = j  BY <1>2
    <3>2. r[j + n - 1] = ts[(j + n - 1) - n + 1]  BY <1>2, <3>1
    <3> QED  BY <3>1, <3>2
  <2>2. ASSUME NEW j \in 1 .. m, On_next(ts[j], d.listed[i], b)
        PROVE  K(T2, d.listed[i], b) \/ \E l \in 1 .. Len(r) : On_next(r[l], d.listed[i], b)
    <3>1. CASE j = 1
      <4>1. On_next(h, d.listed[i], b)  BY <1>2, <2>2, <3>1
      <4>2. n > 0 => n \in 1 .. Len(r) /\ r[n] = new[n]
        <5>1. n > 0 => n \in 1 .. n /\ n \in 1 .. Len(r)  BY <1>2
        <5> QED  BY <1>2, <5>1
      <4> QED  BY <1>5, <4>1, <4>2
    <3>2. CASE j # 1
      <4>1. j \in 2 .. m  BY <1>2, <3>2
      <4> QED  BY <2>0, <2>2, <4>1
    <3> QED  BY <3>1, <3>2
  <2>3. ASSUME NEW j \in 1 .. m, ts[j].task = "from", \E k \in 1 .. i : d.listed[k] = ts[j].s
        PROVE  \E l \in 1 .. Len(r) : r[l].task = "from" /\ \E k \in 1 .. i : d.listed[k] = r[l].s
    <3>1. j # 1  BY <1>2, <2>3 DEF h
    <3>2. j \in 2 .. m  BY <1>2, <3>1
    <3> QED  BY <2>0, <2>3, <3>2
  <2> QED  BY <1>16, <2>1, <2>2, <2>3 DEF Promised, m
<1> QED  BY <1>15, <1>16 DEF r

\* The first task has what it concludes from.
LEMMA HeadReady ==
  ASSUME NEW p, NEW d, NEW T, NEW F, NEW ts, Stack(p, d, T, F, ts), ts # <<>>
  PROVE  /\ Head(ts) \in Tasks(d) /\ Proper(p, d, Head(ts))
         /\ Concludes(Head(ts)) => Undone(T, F, Head(ts)) /\ Has(T, F, Head(ts))
<1>1. ts \in Seq(Tasks(d))  BY DEF Stack
<1>2. Len(ts) \in Nat \ {0}  BY <1>1, EmptySeq
<1>3. 1 \in 1 .. Len(ts)  BY <1>2
<1>4. Head(ts) = ts[1]  BY <1>1
<1>5. ts[1] \in Tasks(d)  BY <1>1, <1>3, ElementOfSeq
<1>6. Proper(p, d, ts[1])  BY <1>3 DEF Stack
<1>7. Concludes(ts[1]) => Undone(T, F, ts[1]) /\ Has(T, F, ts[1])  BY <1>3 DEF Stack
<1> QED  BY <1>4, <1>5, <1>6, <1>7

\* No task is out of order.
LEMMA EmptyStack ==
  \A p, d, T, F : Stack(p, d, T, F, <<>>)
<1> TAKE p, d, T, F
<1>1. PICK e \in Seq(Tasks(d)) : e = <<>> /\ Len(e) = 0  BY EmptySeq
<1>2. Stack(p, d, T, F, e)  BY <1>1 DEF Stack
<1> QED  BY <1>1, <1>2

\* A task with no subtasks left: what it is about is known.
LEMMA FitsDone ==
  ASSUME NEW p, NEW d, NEW T, NEW F, NEW h, NEW T2, NEW F2, T \subseteq T2, F \subseteq F2,
         \A x, b : K(T2, x, b) => K(T, x, b) \/ On_next(h, x, b),
         \A x : FK(F2, x) => FK(F, x) \/ On_fall(h, x),
         \A x, b : On_next(h, x, b) => K(T2, x, b),
         \A x : On_fall(h, x) => FK(F2, x)
  PROVE  Fits(p, d, T, F, h, <<>>, T2, F2)
<1>1. PICK e : e = <<>> /\ Len(e) = 0  BY EmptySeq
<1>2. Stack(p, d, T2, F2, e)  BY <1>1, EmptyStack
<1>3. Fits(p, d, T, F, h, e, T2, F2)  BY <1>1, <1>2 DEF Fits
<1> QED  BY <1>1, <1>3

\* A task decomposed into one that provides a fact and one that concludes from it.
LEMMA FitsPair ==
  ASSUME NEW p, NEW d, NEW T, NEW F, NEW h, NEW u \in Tasks(d), NEW w \in Tasks(d),
         Proper(p, d, u), Proper(p, d, w), u.task \in {"next", "fallback"}, Concludes(w),
         Undone(T, F, w), Gives(u, w), Size(u) \in Nat, Size(w) \in Nat, Size(u) < Size(w), Size(w) = Size(h),
         \A x, b : On_next(h, x, b) => On_next(w, x, b),
         \A x : On_fall(h, x) => On_fall(w, x)
  PROVE  Fits(p, d, T, F, h, <<u, w>>, T, F)
<1>1. \A a, b \in Tasks(d) : /\ <<a, b>> \in Seq(Tasks(d)) /\ Len(<<a, b>>) = 2
                             /\ <<a, b>>[1] = a /\ <<a, b>>[2] = b
  OBVIOUS
<1>2. PICK e \in Seq(Tasks(d)) : e = <<u, w>> /\ Len(e) = 2 /\ e[1] = u /\ e[2] = w
  <2>1. /\ <<u, w>> \in Seq(Tasks(d)) /\ Len(<<u, w>>) = 2
        /\ <<u, w>>[1] = u /\ <<u, w>>[2] = w
    BY <1>1
  <2> QED  BY <2>1
<1>3. \A i \in 1 .. Len(e) : i = 1 \/ i = 2  BY <1>2
<1>4. Stack(p, d, T, F, e)
  <2>1. \A i \in 1 .. Len(e) : Proper(p, d, e[i])  BY <1>2, <1>3
  <2>2. \A i \in 1 .. Len(e) : e[i].task = "from" => i = Len(e)  BY <1>2, <1>3 DEF Concludes
  <2>3. ASSUME NEW i \in 1 .. Len(e), Concludes(e[i])
        PROVE /\ Undone(T, F, e[i])
              /\ Has(T, F, e[i]) \/ (i > 1 /\ Gives(e[i - 1], e[i]))
              /\ \A j \in 1 .. i - 1 : Size(e[j]) < Size(e[i])
    <3>1. i # 1  BY <1>2, <2>3 DEF Concludes
    <3>2. i = 2 /\ i > 1 /\ i - 1 = 1 /\ \A j \in 1 .. i - 1 : j = 1  BY <1>3, <3>1
    <3> QED  BY <1>2, <3>2
  <2>4. e \in Seq(Tasks(d))  OBVIOUS
  <2> QED  BY <2>1, <2>2, <2>3, <2>4 DEF Stack
<1>5. \A j \in 1 .. Len(e) : e[j].task # "from" /\ Size(e[j]) <= Size(h)
  <2>1. u.task # "from"  OBVIOUS
  <2>2. w.task # "from"  BY DEF Concludes
  <2>3. Size(u) <= Size(h) /\ Size(w) <= Size(h)  OBVIOUS
  <2> QED  BY <1>2, <1>3, <2>1, <2>2, <2>3
<1>6. Len(e) > 0 /\ e[Len(e)] = w  BY <1>2
<1>7. Fits(p, d, T, F, h, e, T, F)  BY <1>4, <1>5, <1>6 DEF Fits
<1> QED  BY <1>2, <1>7

\* What is known with a fact more.
LEMMA MoreKnown ==
  /\ \A T, x, b, y : \A x2, b2 : K(T \cup {<<x, b, y>>}, x2, b2) <=> K(T, x2, b2) \/ (x2 = x /\ b2 = b)
  /\ \A F, x, f : \A x2 : FK(F \cup {<<x, f>>}, x2) <=> FK(F, x2) \/ x2 = x
<1>1. ASSUME NEW T, NEW x, NEW b, NEW y, NEW x2, NEW b2
      PROVE  K(T \cup {<<x, b, y>>}, x2, b2) <=> K(T, x2, b2) \/ (x2 = x /\ b2 = b)
  <2> DEFINE t == <<x, b, y>>
  <2>1. t[1] = x /\ t[2] = b  OBVIOUS
  <2> HIDE DEF t
  <2>2. K(T \cup {t}, x2, b2) <=> K(T, x2, b2) \/ (x2 = x /\ b2 = b)  BY <2>1 DEF K
  <2> QED  BY <2>2 DEF t
<1>2. ASSUME NEW F, NEW x, NEW f, NEW x2
      PROVE  FK(F \cup {<<x, f>>}, x2) <=> FK(F, x2) \/ x2 = x
  <2> DEFINE t == <<x, f>>
  <2>1. t[1] = x  OBVIOUS
  <2> HIDE DEF t
  <2>2. FK(F \cup {t}, x2) <=> FK(F, x2) \/ x2 = x  BY <2>1 DEF FK
  <2> QED  BY <2>2 DEF t
<1> QED  BY <1>1, <1>2

---------------------------------------------------------------------------
\* The invariant of derivation, kept by each kind of decomposition.
LEMMA KeepsPair ==
  ASSUME NEW p, NEW d, Closed(d.states), NEW T, NEW F, NEW E, NEW ts, Derivation(p, d, T, F, E, ts), ts # <<>>,
         NEW u \in Tasks(d), NEW w \in Tasks(d),
         Proper(p, d, u), Proper(p, d, w), u.task \in {"next", "fallback"}, Concludes(w),
         Undone(T, F, w), Gives(u, w), Size(u) < Size(w), Size(w) = Size(Head(ts)), Head(ts).task # "from",
         \A x, b : On_next(Head(ts), x, b) => On_next(w, x, b),
         \A x : On_fall(Head(ts), x) => On_fall(w, x)
  PROVE  Derivation(p, d, T, F, E, <<u, w>> \o Tail(ts))
<1>1. Size(u) \in Nat /\ Size(w) \in Nat  BY StateOfTask
<1>2. Stack(p, d, T, F, ts) /\ Promised(d, T, ts) /\ Facts(p, d, T, F, E)  BY DEF Derivation
<1>3. Fits(p, d, T, F, Head(ts), <<u, w>>, T, F)  BY <1>1, FitsPair
<1>4. Stack(p, d, T, F, <<u, w>> \o Tail(ts)) /\ Promised(d, T, <<u, w>> \o Tail(ts))
  BY <1>2, <1>3, ReplaceHead
<1> QED  BY <1>2, <1>4 DEF Derivation

\* A task whose fact is known is dropped.
LEMMA KeepsKnown ==
  ASSUME NEW p, NEW d, Closed(d.states), NEW T, NEW F, NEW E, NEW ts, Derivation(p, d, T, F, E, ts), ts # <<>>,
         Head(ts).task # "from",
         \A x, b : On_next(Head(ts), x, b) => K(T, x, b),
         \A x : On_fall(Head(ts), x) => FK(F, x)
  PROVE  Derivation(p, d, T, F, E, <<>> \o Tail(ts))
<1>1. Stack(p, d, T, F, ts) /\ Promised(d, T, ts) /\ Facts(p, d, T, F, E)  BY DEF Derivation
<1>2. Fits(p, d, T, F, Head(ts), <<>>, T, F)  BY FitsDone
<1>3. Stack(p, d, T, F, <<>> \o Tail(ts)) /\ Promised(d, T, <<>> \o Tail(ts))
  BY <1>1, <1>2, ReplaceHead
<1> QED  BY <1>1, <1>3 DEF Derivation

\* A task gives way to its transition.
LEMMA KeepsGoes ==
  ASSUME NEW p, NEW d, Closed(d.states), NEW T, NEW F, NEW E, NEW ts, Derivation(p, d, T, F, E, ts), ts # <<>>,
         Head(ts).task \in {"next", "fall back"}, ~ K(T, Head(ts).s, Head(ts).b),
         NEW y \in d.states, Goal(p, d, Head(ts).s, Head(ts).b, y),
         NEW e, e = IF Completes_in(p, Head(ts).s, Head(ts).b) THEN {<<Head(ts).s, Head(ts).b>>} ELSE {}
  PROVE  Derivation(p, d, T \cup {<<Head(ts).s, Head(ts).b, y>>}, F, E \cup e, <<>> \o Tail(ts))
<1> DEFINE h == Head(ts)
           x == h.s
           b == h.b
           T2 == T \cup {<<x, b, y>>}
<1>1. Stack(p, d, T, F, ts) /\ Promised(d, T, ts) /\ Facts(p, d, T, F, E)  BY DEF Derivation
<1>2. x \in d.states /\ b \in Bits
  <2>1. h \in Tasks(d) /\ h.task \in {"next", "fall back"}  BY <1>1, HeadReady
  <2> HIDE DEF h
  <2> QED  BY <2>1, StateOfTask
<1>3. \A x2, b2 : K(T2, x2, b2) <=> K(T, x2, b2) \/ (x2 = x /\ b2 = b)
  BY MoreKnown
<1>4. \A x2, b2 : On_next(h, x2, b2) <=> x2 = x /\ b2 = b  BY DEF On_next
<1>5. \A x2 : ~ On_fall(h, x2)  BY DEF On_fall
<1>6. Fits(p, d, T, F, h, <<>>, T2, F)
  <2>1. T \subseteq T2  OBVIOUS
  <2> HIDE DEF T2, h, x, b
  <2> QED  BY <1>3, <1>4, <1>5, <2>1, FitsDone
<1>7. Stack(p, d, T2, F, <<>> \o Tail(ts)) /\ Promised(d, T2, <<>> \o Tail(ts))
  <2>1. h.task # "from"  OBVIOUS
  <2> HIDE DEF T2
  <2> QED  BY <1>1, <1>6, <2>1, ReplaceHead
<1>8. Facts(p, d, T2, F, E \cup e)
  <2>0. Goal(p, d, x, b, y)  OBVIOUS
  <2>2. e = IF Completes_in(p, x, b) THEN {<<x, b>>} ELSE {}  OBVIOUS
  <2> HIDE DEF h, x, b
  <2>1. ASSUME NEW t \in T2 PROVE \E x2 \in d.states, b2 \in Bits, y2 \in d.states : t = <<x2, b2, y2>> /\ Goal(p, d, x2, b2, y2)
    <3>1. CASE t \in T  BY <1>1, <3>1 DEF Facts
    <3>2. CASE t = <<x, b, y>>  BY <1>2, <2>0, <3>2
    <3> QED  BY <3>1, <3>2
  <2>3. E \cup e \subseteq d.states \X Bits
    <3>1. E \subseteq d.states \X Bits  BY <1>1 DEF Facts
    <3>2. <<x, b>> \in d.states \X Bits  BY <1>2
    <3>3. e \subseteq {<<x, b>>}  BY <2>2
    <3> QED  BY <3>1, <3>2, <3>3
  <2>4. ASSUME NEW x2 \in d.states, NEW b2 \in Bits
        PROVE  <<x2, b2>> \in E \cup e <=> K(T2, x2, b2) /\ Completes_in(p, x2, b2)
    <3>1. <<x2, b2>> \in E <=> K(T, x2, b2) /\ Completes_in(p, x2, b2)  BY <1>1 DEF Facts
    <3>2. <<x2, b2>> \in e <=> Completes_in(p, x, b) /\ x2 = x /\ b2 = b  BY <2>2
    <3> HIDE DEF T2
    <3> QED  BY <1>3, <3>1, <3>2
  <2> HIDE DEF T2
  <2> QED  BY <1>1, <2>1, <2>3, <2>4 DEF Facts
<1> QED  BY <1>7, <1>8 DEF Derivation

\* A task gives way to its fallback.
LEMMA KeepsFalls ==
  ASSUME NEW p, NEW d, Closed(d.states), NEW T, NEW F, NEW E, NEW ts, Derivation(p, d, T, F, E, ts), ts # <<>>,
         Head(ts).task \in {"fallback", "extend"}, NEW f, Falls_to(d.states, Head(ts).s, f)
  PROVE  Derivation(p, d, T, F \cup {<<Head(ts).s, f>>}, E, <<>> \o Tail(ts))
<1> DEFINE h == Head(ts)
           x == h.s
           F2 == F \cup {<<x, f>>}
<1>1. Stack(p, d, T, F, ts) /\ Promised(d, T, ts) /\ Facts(p, d, T, F, E)  BY DEF Derivation
<1>2. x \in d.states /\ f \in d.states
  <2>1. h \in Tasks(d)  BY <1>1, HeadReady
  <2>2. f \in d.states  BY DEF Falls_to
  <2> HIDE DEF h
  <2> QED  BY <2>1, <2>2, StateOfTask
<1>3. \A x2 : FK(F2, x2) <=> FK(F, x2) \/ x2 = x
  BY MoreKnown
<1>4. \A x2, b2 : ~ On_next(h, x2, b2)  BY DEF On_next
<1>5. \A x2 : On_fall(h, x2) <=> x2 = x  BY DEF On_fall
<1>6. Fits(p, d, T, F, h, <<>>, T, F2)
  <2>1. F \subseteq F2  OBVIOUS
  <2> HIDE DEF F2, h, x
  <2> QED  BY <1>3, <1>4, <1>5, <2>1, FitsDone
<1>7. Stack(p, d, T, F2, <<>> \o Tail(ts)) /\ Promised(d, T, <<>> \o Tail(ts))
  <2>1. h.task # "from"  OBVIOUS
  <2> HIDE DEF F2
  <2> QED  BY <1>1, <1>6, <2>1, ReplaceHead
<1>8. Facts(p, d, T, F2, E)
  <2>0. Falls_to(d.states, x, f)  OBVIOUS
  <2> HIDE DEF h, x
  <2>1. ASSUME NEW g \in F2 PROVE \E x2 \in d.states, f2 \in d.states : g = <<x2, f2>> /\ Falls_to(d.states, x2, f2)
    <3>1. CASE g \in F  BY <1>1, <3>1 DEF Facts
    <3>2. CASE g = <<x, f>>  BY <1>2, <2>0, <3>2
    <3> QED  BY <3>1, <3>2
  <2> HIDE DEF F2
  <2> QED  BY <1>1, <2>1 DEF Facts
<1> QED  BY <1>7, <1>8 DEF Derivation

\* What sets the kinds of design apart.
LEMMA DesignFacts ==
  ASSUME NEW p, NEW d, Sound(p, d)
  PROVE  /\ Closed(d.states) /\ d.start = <<>> /\ <<>> \in d.states
         /\ \A x \in d.states, b \in Bits : Completes_in(p, x, b) =>
              p.kind = "mealy" /\ Append(x, b) \notin d.states /\ d.holds = {}
         /\ \A x \in d.states, b \in Bits : p.kind = "moore" /\ x = p.pattern =>
              Append(x, b) \notin d.states /\ x # <<>> /\ d.holds = {}
         /\ \A x \in d.states, b \in Bits : <<x, b>> \in d.holds => p.kind = "recogniser"
         /\ p.kind \in {"mealy", "moore", "recogniser"}
<1>1. Closed(d.states) /\ d.start = <<>> /\ <<>> \in d.states  BY DEF Sound, Closed
<1>2. CASE Recognises_as(p, d)
  <2>1. p.kind = "recogniser"  BY <1>2 DEF Recognises_as
  <2> QED  BY <1>1, <2>1 DEF Completes_in
<1>3. CASE Detects(p, d)
  <2>1. p.kind \in {"mealy", "moore"} /\ p.pattern # <<>> /\ d.holds = {}  BY <1>3 DEF Detects
  <2>2. ASSUME NEW x \in d.states, NEW b \in Bits, p.kind = "mealy", Append(x, b) = p.pattern
        PROVE  Append(x, b) \notin d.states
    <3>1. \A y \in d.states : Len(y) < Len(p.pattern)  BY <1>3, <2>2 DEF Detects
    <3>2. Append(x, b) \in d.states => Len(p.pattern) < Len(p.pattern)  BY <2>2, <3>1
    <3>3. p.pattern \in Seq(Bits)  BY <1>3 DEF Detects
    <3>4. Len(p.pattern) \in Nat  BY <3>3, LenProperties
    <3> QED  BY <3>2, <3>4
  <2>3. ASSUME NEW x \in d.states, NEW b \in Bits, p.kind = "moore", x = p.pattern
        PROVE  Append(x, b) \notin d.states
    <3>1. \A y \in d.states : Len(y) <= Len(p.pattern)  BY <1>3, <2>3 DEF Detects
    <3>2. x \in Seq(Bits)  BY <1>1 DEF Closed
    <3>3. Len(Append(x, b)) = Len(x) + 1 /\ Len(x) \in Nat  BY <3>2, AppendProperties, LenProperties
    <3>4. Append(x, b) \in d.states => Len(Append(x, b)) <= Len(x)  BY <2>3, <3>1
    <3> QED  BY <3>3, <3>4
  <2> QED  BY <1>1, <2>1, <2>2, <2>3 DEF Completes_in
<1> QED  BY <1>2, <1>3 DEF Sound

\* In a state that another one ends with, every bit is read as it comes.
LEMMA PlainBelow ==
  ASSUME NEW p, NEW d, Sound(p, d), NEW x \in d.states, NEW f \in d.states, IsSuffix(f, x), f # x,
         NEW b \in Bits, NEW y, Goal(p, d, f, b, y)
  PROVE  Longest(d.states, Append(f, b), y)
<1>1. Closed(d.states) /\ x \in Seq(Bits) /\ f \in Seq(Bits)  BY DEF Sound, Closed
<1>2. Len(f) <= Len(x) /\ Len(f) # Len(x) /\ Len(f) \in Nat /\ Len(x) \in Nat
  BY <1>1, SuffixLen, LenProperties
<1>3. Len(Append(f, b)) = Len(f) + 1  BY <1>1, AppendProperties
<1>4. CASE Recognises_as(p, d)
  <2>1. p.kind = "recogniser"  BY <1>4 DEF Recognises_as
  <2>2. <<f, b>> \notin d.holds
    <3>1. ASSUME <<f, b>> \in d.holds PROVE FALSE
      <4>1. <<f, b>> \in SequencesOf(p) \X Bits  BY <1>4, <3>1 DEF Recognises_as
      <4>2. f \in SequencesOf(p)  BY <4>1
      <4>3. x = f  BY <1>4, <4>2 DEF Recognises_as
      <4> QED  BY <4>3
    <3> QED  BY <3>1
  <2> QED  BY <2>1, <2>2 DEF Goal
<1>5. CASE Detects(p, d)
  <2>1. <<f, b>> \notin d.holds  BY <1>5 DEF Detects
  <2>2. ~ (p.kind = "mealy" /\ Append(f, b) = p.pattern)
    <3>1. p.kind = "mealy" => Len(x) < Len(p.pattern)
      <4>1. p.kind = "mealy" => p.kind # "moore"  OBVIOUS
      <4> QED  BY <1>5, <4>1 DEF Detects
    <3> QED  BY <1>2, <1>3, <3>1
  <2>3. ~ (p.kind = "moore" /\ f = p.pattern)
    <3>1. p.kind = "moore" => Len(x) <= Len(p.pattern)  BY <1>5 DEF Detects
    <3> QED  BY <1>2, <3>1
  <2> QED  BY <2>1, <2>2, <2>3 DEF Goal
<1> QED  BY <1>4, <1>5 DEF Sound

\* The machine goes to one state.
LEMMA OneGoal ==
  ASSUME NEW p, NEW d, Sound(p, d), NEW x, NEW b, NEW y, NEW z, Goal(p, d, x, b, y), Goal(p, d, x, b, z)
  PROVE  y = z
<1>1. Closed(d.states)  BY DEF Sound
<1> QED  BY <1>1, OneLongest DEF Goal

\* Where the fallback goes, the state goes.
LEMMA GoesAsBelow ==
  ASSUME NEW p, NEW d, Sound(p, d), NEW x \in d.states, NEW b \in Bits, ReadsBelow(p, d, x, b),
         NEW f, Falls_to(d.states, x, f), NEW y, Goal(p, d, f, b, y)
  PROVE  Goal(p, d, x, b, y)
<1>1. Closed(d.states)  BY DEF Sound
<1>2. f \in d.states /\ IsSuffix(f, x) /\ f # x  BY DEF Falls_to
<1>3. Longest(d.states, Append(f, b), y)  BY <1>2, PlainBelow
<1>4. Longest(d.states, Append(x, b), y)  BY <1>1, <1>3, GoesWhereItFalls DEF ReadsBelow
<1> QED  BY <1>4 DEF ReadsBelow, Goal

\* Where the fallback of the state before goes on the last bit, the state falls back to.
LEMMA FallsAsBelow ==
  ASSUME NEW p, NEW d, Sound(p, d), NEW x \in d.states, x # <<>>, Front(x) # <<>>,
         NEW f, Falls_to(d.states, Front(x), f), NEW y, Goal(p, d, f, Last(x), y)
  PROVE  Falls_to(d.states, x, y)
<1>1. Closed(d.states) /\ Front(x) \in d.states /\ x \in Seq(Bits)  BY DEF Sound, Closed
<1>2. Last(x) \in Bits  BY <1>1, FrontLast
<1>3. f \in d.states /\ IsSuffix(f, Front(x)) /\ f # Front(x)  BY DEF Falls_to
<1>4. Longest(d.states, Append(f, Last(x)), y)  BY <1>1, <1>2, <1>3, PlainBelow
<1> QED  BY <1>1, <1>4, FallsFurther

\* What each kind of decomposition adds.
LEMMA MethodFields ==
  /\ \A by, ts : LET m == Subtasks(by, ts)
                 IN m.tasks = ts /\ m.goes = {} /\ m.falls = {} /\ m.fires = {}
  /\ \A by, x, b, y : LET m == Goes(by, x, b, y)
                      IN m.tasks = <<>> /\ m.goes = {<<x, b, y>>} /\ m.falls = {} /\ m.fires = {}
  /\ \A by, x, b, y, e : LET m == [Goes(by, x, b, y) EXCEPT !.fires = e]
                         IN m.tasks = <<>> /\ m.goes = {<<x, b, y>>} /\ m.falls = {} /\ m.fires = e
  /\ \A by, x, f : LET m == Falls(by, x, f)
                   IN m.tasks = <<>> /\ m.goes = {} /\ m.falls = {<<x, f>>} /\ m.fires = {}
<1>1. \A by, ts : LET m == Subtasks(by, ts)
                  IN /\ m.tasks = ts /\ m.goes = {} /\ m.falls = {} /\ m.fires = {}
                     /\ m = [by |-> by, tasks |-> ts, goes |-> {}, falls |-> {}, fires |-> {}]
  BY DEF Subtasks
<1>2. \A by, x, b, y : LET m == Goes(by, x, b, y)
                       IN m.tasks = <<>> /\ m.goes = {<<x, b, y>>} /\ m.falls = {} /\ m.fires = {}
  BY DEF Goes, Subtasks
<1>3. \A by, x, b, y, e : LET m == [Goes(by, x, b, y) EXCEPT !.fires = e]
                          IN m.tasks = <<>> /\ m.goes = {<<x, b, y>>} /\ m.falls = {} /\ m.fires = e
  BY DEF Goes, Subtasks
<1>4. \A by, x, f : LET m == Falls(by, x, f)
                    IN m.tasks = <<>> /\ m.goes = {} /\ m.falls = {<<x, f>>} /\ m.fires = {}
  BY DEF Falls, Subtasks
<1> QED  BY <1>1, <1>2, <1>3, <1>4

\* The state of the derivation, in its variables.
Deriving == Sound(problem, design) /\ Derivation(problem, design, transition, fallback, fires, tasks)
Kept(m) == Derivation(problem, design, transition \cup m.goes, fallback \cup m.falls, fires \cup m.fires,
                      m.tasks \o Tail(tasks))

\* What the first task stands for.
LEMMA FirstTask ==
  ASSUME Deriving, tasks # <<>>
  PROVE  /\ Closed(design.states) /\ Head(tasks) \in Tasks(design)
         /\ Facts(problem, design, transition, fallback, fires)
         /\ Stack(problem, design, transition, fallback, tasks)
         /\ Head(tasks).s \in design.states /\ Head(tasks).s \in Seq(Bits) /\ Len(Head(tasks).s) \in Nat
         /\ Proper(problem, design, Head(tasks))
         /\ Concludes(Head(tasks)) => Undone(transition, fallback, Head(tasks)) /\ Has(transition, fallback, Head(tasks))
         /\ Head(tasks).task \in {"from", "next", "via", "fallback", "step", "fall back", "extend"}
         /\ Head(tasks).task \in {"next", "via", "fall back"} => Head(tasks).b \in Bits
         /\ Head(tasks).task \in {"fall back", "extend"} => Head(tasks).f \in design.states
         /\ \A x, b : Known(x, b) <=> K(transition, x, b)
         /\ \A x : FallbackKnown(x) <=> FK(fallback, x)
         /\ \A x, b : Completes(x, b) <=> Completes_in(problem, x, b)
<1>1. Closed(design.states)  BY DEF Deriving, Sound
<1>2. Facts(problem, design, transition, fallback, fires) /\ Stack(problem, design, transition, fallback, tasks)
  BY DEF Deriving, Derivation
<1>3. /\ Head(tasks) \in Tasks(design) /\ Proper(problem, design, Head(tasks))
      /\ Concludes(Head(tasks)) => Undone(transition, fallback, Head(tasks)) /\ Has(transition, fallback, Head(tasks))
  BY <1>2, HeadReady
<1>4. /\ Head(tasks).s \in design.states /\ Head(tasks).s \in Seq(Bits) /\ Len(Head(tasks).s) \in Nat
      /\ Head(tasks).task \in {"from", "next", "via", "fallback", "step", "fall back", "extend"}
      /\ Head(tasks).task \in {"next", "via", "fall back"} => Head(tasks).b \in Bits
      /\ Head(tasks).task \in {"fall back", "extend"} => Head(tasks).f \in design.states
  BY <1>1, <1>3, StateOfTask
<1>5. \A x, b : Known(x, b) <=> K(transition, x, b)  BY DEF Known, K
<1>6. \A x : FallbackKnown(x) <=> FK(fallback, x)  BY DEF FallbackKnown, FK
<1>7. \A x, b : Completes(x, b) <=> Completes_in(problem, x, b)  BY DEF Completes, Completes_in
<1> QED  BY <1>1, <1>2, <1>3, <1>4, <1>5, <1>6, <1>7

\* A decomposition that adds no fact.
LEMMA KeptBySubtasks ==
  ASSUME NEW by, NEW ts,
         Derivation(problem, design, transition, fallback, fires, ts \o Tail(tasks))
  PROVE  Kept(Subtasks(by, ts))
<1>1. transition \cup {} = transition /\ fallback \cup {} = fallback /\ fires \cup {} = fires  OBVIOUS
<1> DEFINE m == Subtasks(by, ts)
<1>2. m.tasks = ts /\ m.goes = {} /\ m.falls = {} /\ m.fires = {}  BY MethodFields
<1> HIDE DEF m
<1>3. transition \cup m.goes = transition /\ fallback \cup m.falls = fallback /\ fires \cup m.fires = fires  BY <1>2
<1>4. Kept(m)  BY <1>2, <1>3 DEF Kept
<1> QED  BY <1>4 DEF m

\* The methods that find their fact known.
LEMMA KnownKeeps ==
  ASSUME Deriving, tasks # <<>>, NEW m \in m_next_known(Head(tasks))
  PROVE  Kept(m)
<1> DEFINE t == Head(tasks)
<1>1. t.task = "next" /\ Known(t.s, t.b) /\ m = Subtasks("known", <<>>)  BY DEF m_next_known, When
<1>2. K(transition, t.s, t.b) /\ Closed(design.states)  BY <1>1, FirstTask
<1>3. t.task # "from" /\ (\A x, b : On_next(t, x, b) => K(transition, x, b)) /\ (\A x : ~ On_fall(t, x))
  BY <1>1, <1>2 DEF On_next, On_fall
<1> HIDE DEF t
<1>4. Derivation(problem, design, transition, fallback, fires, <<>> \o Tail(tasks))
  BY <1>2, <1>3, KeepsKnown DEF t, Deriving
<1> QED  BY <1>1, <1>4, KeptBySubtasks

LEMMA FallbackKnownKeeps ==
  ASSUME Deriving, tasks # <<>>, NEW m \in m_fallback_known(Head(tasks))
  PROVE  Kept(m)
<1> DEFINE t == Head(tasks)
<1>1. t.task = "fallback" /\ FallbackKnown(t.s) /\ m = Subtasks("fallback known", <<>>)
  BY DEF m_fallback_known, When
<1>2. FK(fallback, t.s) /\ Closed(design.states)  BY <1>1, FirstTask
<1>3. t.task # "from" /\ (\A x, b : ~ On_next(t, x, b)) /\ (\A x : On_fall(t, x) => FK(fallback, x))
  BY <1>1, <1>2 DEF On_next, On_fall
<1> HIDE DEF t
<1>4. Derivation(problem, design, transition, fallback, fires, <<>> \o Tail(tasks))
  BY <1>2, <1>3, KeepsKnown DEF t, Deriving
<1> QED  BY <1>1, <1>4, KeptBySubtasks

\* A decomposition that adds a transition, and the output asserted on it.
LEMMA KeptByGoes ==
  ASSUME Deriving, tasks # <<>>, Head(tasks).task \in {"next", "fall back"},
         ~ Known(Head(tasks).s, Head(tasks).b), NEW y,
         Goal(problem, design, Head(tasks).s, Head(tasks).b, y), y \in design.states,
         NEW e, e = IF Completes(Head(tasks).s, Head(tasks).b) THEN {<<Head(tasks).s, Head(tasks).b>>} ELSE {},
         NEW m, m.tasks = <<>>, m.goes = {<<Head(tasks).s, Head(tasks).b, y>>}, m.falls = {}, m.fires = e
  PROVE  Kept(m)
<1>1. /\ Closed(design.states) /\ ~ K(transition, Head(tasks).s, Head(tasks).b)
      /\ e = IF Completes_in(problem, Head(tasks).s, Head(tasks).b) THEN {<<Head(tasks).s, Head(tasks).b>>} ELSE {}
  BY FirstTask
<1>2. Derivation(problem, design, transition \cup {<<Head(tasks).s, Head(tasks).b, y>>}, fallback, fires \cup e,
                 <<>> \o Tail(tasks))
  BY <1>1, KeepsGoes DEF Deriving
<1>3. fallback \cup m.falls = fallback  OBVIOUS
<1> QED  BY <1>2, <1>3 DEF Kept

\* A held state stays.
LEMMA HoldKeeps ==
  ASSUME Deriving, tasks # <<>>, NEW m \in m_next_hold(Head(tasks))
  PROVE  Kept(m)
<1> DEFINE t == Head(tasks)
<1>1. t.task = "next" /\ ~ Known(t.s, t.b) /\ <<t.s, t.b>> \in design.holds /\ m = Goes("hold", t.s, t.b, t.s)
  BY DEF m_next_hold, When
<1>2. t.s \in design.states /\ t.b \in Bits  BY <1>1, FirstTask
<1>3. Goal(problem, design, t.s, t.b, t.s)  BY <1>1 DEF Goal
<1>4. ~ Completes(t.s, t.b)
  <2>1. problem.kind = "recogniser"  BY <1>1, <1>2, DesignFacts DEF Deriving
  <2> QED  BY <2>1 DEF Completes
<1>5. m.tasks = <<>> /\ m.goes = {<<t.s, t.b, t.s>>} /\ m.falls = {} /\ m.fires = {}  BY <1>1, MethodFields
<1> QED  BY <1>1, <1>2, <1>3, <1>4, <1>5, KeptByGoes

\* A state goes on to the one with the bit more.
LEMMA AdvanceKeeps ==
  ASSUME Deriving, tasks # <<>>, NEW m \in m_next_advance(Head(tasks))
  PROVE  Kept(m)
<1> DEFINE t == Head(tasks)
           y == Append(t.s, t.b)
<1>1. t.task = "next" /\ Open(t.s, t.b) /\ y \in design.states /\ m = Goes("advance", t.s, t.b, y)
  BY DEF m_next_advance, When
<1>2. t.s \in design.states /\ t.b \in Bits  BY <1>1, FirstTask
<1>3. ~ Completes(t.s, t.b) /\ ~ (problem.kind = "moore" /\ t.s = problem.pattern) /\ Closed(design.states)
  <2>1. ~ Completes_in(problem, t.s, t.b)  BY <1>1, <1>2, DesignFacts DEF Deriving
  <2>2. ~ (problem.kind = "moore" /\ t.s = problem.pattern) /\ Closed(design.states)
    BY <1>1, <1>2, DesignFacts DEF Deriving
  <2> QED  BY <2>1, <2>2 DEF Completes, Completes_in
<1>4. Longest(design.states, y, y)  BY <1>1, <1>3, LongestItself
<1>5. Goal(problem, design, t.s, t.b, y)  BY <1>1, <1>3, <1>4 DEF Goal, Open, Completes
<1>7. ~ Known(t.s, t.b)  BY <1>1 DEF Open
<1> HIDE DEF y
<1>6. m.tasks = <<>> /\ m.goes = {<<t.s, t.b, y>>} /\ m.falls = {} /\ m.fires = {}  BY <1>1, MethodFields
<1> QED  BY <1>1, <1>3, <1>5, <1>6, <1>7, KeptByGoes

\* The first state stays on a bit it does not expect.
LEMMA StayKeeps ==
  ASSUME Deriving, tasks # <<>>, NEW m \in m_next_stay(Head(tasks))
  PROVE  Kept(m)
<1> DEFINE t == Head(tasks)
<1>1. /\ t.task = "next" /\ Open(t.s, t.b) /\ ~ Expects(t.s, t.b) /\ Initial(t.s)
      /\ m = Goes("stay", t.s, t.b, t.s)
  BY DEF m_next_stay, When
<1>2. t.s \in design.states /\ t.b \in Bits /\ t.s = <<>> /\ Closed(design.states)
  BY <1>1, FirstTask, DesignFacts DEF Deriving, Initial
<1>3. ~ Known(t.s, t.b) /\ <<t.s, t.b>> \notin design.holds /\ ~ Completes(t.s, t.b)
      /\ Append(t.s, t.b) \notin design.states
  BY <1>1 DEF Open, Expects
<1>4. ~ (problem.kind = "moore" /\ t.s = problem.pattern)  BY <1>2, DesignFacts DEF Deriving
<1>5. Longest(design.states, Append(t.s, t.b), t.s)
  <2>1. Longest(design.states, Append(<<>>, t.b), <<>>)  BY <1>2, <1>3, StaysAtStart
  <2> QED  BY <1>2, <2>1
<1>6. Goal(problem, design, t.s, t.b, t.s)  BY <1>3, <1>4, <1>5 DEF Goal, Completes
<1>7. m.tasks = <<>> /\ m.goes = {<<t.s, t.b, t.s>>} /\ m.falls = {} /\ m.fires = {}  BY <1>1, MethodFields
<1> QED  BY <1>1, <1>2, <1>3, <1>6, <1>7, KeptByGoes

\* A completed pattern starts from scratch.
LEMMA FromScratchKeeps ==
  ASSUME Deriving, tasks # <<>>, NEW m \in m_next_match_from_scratch(Head(tasks))
  PROVE  Kept(m)
<1> DEFINE t == Head(tasks)
           e == {<<t.s, t.b>>}
<1>1. /\ t.task = "next" /\ Open(t.s, t.b) /\ Completes(t.s, t.b) /\ (~ problem.overlapping \/ Initial(t.s))
      /\ m = [Goes("from scratch", t.s, t.b, design.start) EXCEPT !.fires = e]
  BY DEF m_next_match_from_scratch, When
<1>2. t.s \in design.states /\ t.b \in Bits  BY <1>1, FirstTask
<1>3. /\ Closed(design.states) /\ design.start = <<>> /\ <<>> \in design.states
      /\ problem.kind = "mealy" /\ Append(t.s, t.b) \notin design.states /\ design.holds = {}
  <2>1. Completes_in(problem, t.s, t.b)  BY <1>1 DEF Completes, Completes_in
  <2> QED  BY <1>2, <2>1, DesignFacts DEF Deriving
<1>4. Goal(problem, design, t.s, t.b, <<>>)
  <2>1. CASE ~ problem.overlapping  BY <1>1, <1>3, <2>1 DEF Goal, Completes
  <2>2. CASE problem.overlapping /\ t.s = <<>>
    <3>1. Longest(design.states, Append(<<>>, t.b), <<>>)  BY <1>2, <1>3, <2>2, StaysAtStart
    <3>2. Longest(design.states, Append(t.s, t.b), <<>>)  BY <2>2, <3>1
    <3> QED  BY <1>3, <2>2, <3>2 DEF Goal
  <2> QED  BY <1>1, <1>3, <2>1, <2>2 DEF Initial
<1>6. ~ Known(t.s, t.b)  BY <1>1 DEF Open
<1>7. e = IF Completes(t.s, t.b) THEN {<<t.s, t.b>>} ELSE {}  BY <1>1
<1> HIDE DEF e
<1>5. m.tasks = <<>> /\ m.goes = {<<t.s, t.b, design.start>>} /\ m.falls = {} /\ m.fires = e
  <2> DEFINE g == [Goes("from scratch", t.s, t.b, design.start) EXCEPT !.fires = e]
  <2>1. g.tasks = <<>> /\ g.goes = {<<t.s, t.b, design.start>>} /\ g.falls = {} /\ g.fires = e  BY DEF Goes, Subtasks
  <2>2. m = g  BY <1>1
  <2> HIDE DEF g
  <2> QED  BY <2>1, <2>2
<1>8. Goal(problem, design, t.s, t.b, design.start) /\ design.start \in design.states  BY <1>3, <1>4
<1> QED  BY <1>1, <1>5, <1>6, <1>7, <1>8, KeptByGoes

\* A transition is concluded from that of the fallback.
LEMMA FallBackKeeps ==
  ASSUME Deriving, tasks # <<>>, NEW m \in m_conclude_fall_back(Head(tasks))
  PROVE  Kept(m)
<1> DEFINE t == Head(tasks)
           e == When(Completes(t.s, t.b), <<t.s, t.b>>)
<1>1. PICK u \in transition : /\ t.task = "fall back" /\ ~ Known(t.s, t.b) /\ u[1] = t.f /\ u[2] = t.b
                              /\ m = [Goes("fall back", t.s, t.b, u[3]) EXCEPT !.fires = e]
  BY DEF m_conclude_fall_back
<1>2. t.s \in design.states /\ t.b \in Bits /\ t.f \in design.states  BY <1>1, FirstTask
<1>3. u[3] \in design.states /\ Goal(problem, design, t.f, t.b, u[3])
  <2>1. PICK x \in design.states, b \in Bits, y \in design.states :
          u = <<x, b, y>> /\ Goal(problem, design, x, b, y)
    BY FirstTask DEF Facts
  <2>2. u[1] = x /\ u[2] = b /\ u[3] = y  BY <2>1
  <2> QED  BY <1>1, <2>1, <2>2
<1>4. Goal(problem, design, t.s, t.b, u[3])
  <2>0. Proper(problem, design, t)  BY FirstTask
  <2>1. CASE t.s # <<>> /\ ReadsBelow(problem, design, t.s, t.b) /\ Falls_to(design.states, t.s, t.f)
    BY <1>2, <1>3, <2>1, GoesAsBelow DEF Deriving
  <2>2. CASE problem.kind = "moore" /\ ~ problem.overlapping /\ t.s = problem.pattern /\ t.f = <<>>
    <3>1. design.holds = {} /\ t.s # <<>>  BY <1>2, <2>2, DesignFacts DEF Deriving
    <3>2. Longest(design.states, Append(<<>>, t.b), u[3])  BY <1>3, <2>2, <3>1 DEF Goal
    <3> QED  BY <2>2, <3>1, <3>2 DEF Goal
  <2> QED  BY <1>1, <2>0, <2>1, <2>2 DEF Proper
<1>6. e = IF Completes(t.s, t.b) THEN {<<t.s, t.b>>} ELSE {}  BY DEF When
<1> HIDE DEF e
<1>5. m.tasks = <<>> /\ m.goes = {<<t.s, t.b, u[3]>>} /\ m.falls = {} /\ m.fires = e
  <2> DEFINE g == [Goes("fall back", t.s, t.b, u[3]) EXCEPT !.fires = e]
  <2>1. g.tasks = <<>> /\ g.goes = {<<t.s, t.b, u[3]>>} /\ g.falls = {} /\ g.fires = e  BY DEF Goes, Subtasks
  <2>2. m = g  BY <1>1
  <2> HIDE DEF g
  <2> QED  BY <2>1, <2>2
<1> QED  BY <1>1, <1>3, <1>4, <1>5, <1>6, KeptByGoes

\* The tasks a method orders, by their fields.
LEMMA TasksOrdered ==
  ASSUME NEW d, NEW x \in d.states
  PROVE  /\ \E t \in Tasks(d) : FallbackOf(x) = <<t>> /\ t.task = "fallback" /\ t.s = x
         /\ \E t \in Tasks(d) : Step(x) = <<t>> /\ t.task = "step" /\ t.s = x
         /\ \E t \in Tasks(d) : From(x) = <<t>> /\ t.task = "from" /\ t.s = x
<1>1. \E t \in Tasks(d) : FallbackOf(x) = <<t>> /\ t.task = "fallback" /\ t.s = x
  <2> DEFINE t == [task |-> "fallback", s |-> x]
  <2>1. t \in Tasks(d) /\ t.task = "fallback" /\ t.s = x  BY DEF Tasks
  <2>2. FallbackOf(x) = <<t>>  BY DEF FallbackOf
  <2> HIDE DEF t
  <2> QED  BY <2>1, <2>2
<1>2. \E t \in Tasks(d) : Step(x) = <<t>> /\ t.task = "step" /\ t.s = x
  <2> DEFINE t == [task |-> "step", s |-> x]
  <2>1. t \in Tasks(d) /\ t.task = "step" /\ t.s = x  BY DEF Tasks
  <2>2. Step(x) = <<t>>  BY DEF Step
  <2> HIDE DEF t
  <2> QED  BY <2>1, <2>2
<1>3. \E t \in Tasks(d) : From(x) = <<t>> /\ t.task = "from" /\ t.s = x
  <2> DEFINE t == [task |-> "from", s |-> x]
  <2>1. t \in Tasks(d) /\ t.task = "from" /\ t.s = x  BY DEF Tasks
  <2>2. From(x) = <<t>>  BY DEF From
  <2> HIDE DEF t
  <2> QED  BY <2>1, <2>2
<1> QED  BY <1>1, <1>2, <1>3

\* The tasks about a transition.
LEMMA BitTasksOrdered ==
  ASSUME NEW d, NEW x \in d.states, NEW b \in Bits
  PROVE  /\ \E t \in Tasks(d) : Derive(x, b) = <<t>> /\ t.task = "next" /\ t.s = x /\ t.b = b
         /\ \E t \in Tasks(d) : Via(x, b) = <<t>> /\ t.task = "via" /\ t.s = x /\ t.b = b
<1>1. \E t \in Tasks(d) : Derive(x, b) = <<t>> /\ t.task = "next" /\ t.s = x /\ t.b = b
  <2> DEFINE t == [task |-> "next", s |-> x, b |-> b]
  <2>1. t \in Tasks(d) /\ t.task = "next" /\ t.s = x /\ t.b = b  BY DEF Tasks
  <2>2. Derive(x, b) = <<t>>  BY DEF Derive
  <2> HIDE DEF t
  <2> QED  BY <2>1, <2>2
<1>2. \E t \in Tasks(d) : Via(x, b) = <<t>> /\ t.task = "via" /\ t.s = x /\ t.b = b
  <2> DEFINE t == [task |-> "via", s |-> x, b |-> b]
  <2>1. t \in Tasks(d) /\ t.task = "via" /\ t.s = x /\ t.b = b  BY DEF Tasks
  <2>2. Via(x, b) = <<t>>  BY DEF Via
  <2> HIDE DEF t
  <2> QED  BY <2>1, <2>2
<1> QED  BY <1>1, <1>2

\* A task that concludes a transition from that of the fallback.
Reads_off(t) == t.task = "fall back"

\* The tasks that read off a fact.
LEMMA FallBackOrdered ==
  ASSUME NEW d, NEW x \in d.states, NEW b \in Bits, NEW f \in d.states
  PROVE  \E t \in Tasks(d) : FallBack(x, b, f) = <<t>> /\ Reads_off(t) /\ t.s = x /\ t.b = b /\ t.f = f
<1> DEFINE t == [task |-> "fall back", s |-> x, b |-> b, f |-> f]
<1>1. t \in Tasks(d) /\ t.task = "fall back" /\ t.s = x /\ t.b = b /\ t.f = f  BY DEF Tasks
<1>2. FallBack(x, b, f) = <<t>>  BY DEF FallBack
<1>3. Reads_off(t)  BY <1>1 DEF Reads_off
<1> HIDE DEF t
<1> QED  BY <1>1, <1>2, <1>3

LEMMA ExtendOrdered ==
  ASSUME NEW d, NEW x \in d.states, NEW f \in d.states
  PROVE  /\ \E t \in Tasks(d) : Extend(x, f) = <<t>> /\ t.task = "extend" /\ t.s = x /\ t.f = f
<1>1. \E t \in Tasks(d) : Extend(x, f) = <<t>> /\ t.task = "extend" /\ t.s = x /\ t.f = f
  <2> DEFINE t == [task |-> "extend", s |-> x, f |-> f]
  <2>1. t \in Tasks(d) /\ t.task = "extend" /\ t.s = x /\ t.f = f  BY DEF Tasks
  <2>2. Extend(x, f) = <<t>>  BY DEF Extend
  <2> HIDE DEF t
  <2> QED  BY <2>1, <2>2
<1> QED  BY <1>1

\* Two tasks in order.
LEMMA Pairs ==
  ASSUME NEW S, NEW a \in S, NEW b \in S
  PROVE  <<a>> \o <<b>> = <<a, b>>
<1>0. /\ \A u \in S : <<u>> \in Seq(S) /\ Len(<<u>>) = 1 /\ <<u>>[1] = u
      /\ \A u, v \in S : <<u, v>> \in Seq(S) /\ Len(<<u, v>>) = 2 /\ <<u, v>>[1] = u /\ <<u, v>>[2] = v
  OBVIOUS
<1>1. <<a>> \in Seq(S) /\ Len(<<a>>) = 1 /\ <<a>>[1] = a  BY <1>0
<1>2. <<b>> \in Seq(S) /\ Len(<<b>>) = 1 /\ <<b>>[1] = b  BY <1>0
<1>3. <<a, b>> \in Seq(S) /\ Len(<<a, b>>) = 2 /\ <<a, b>>[1] = a /\ <<a, b>>[2] = b  BY <1>0
<1> DEFINE p == <<a>>
           q == <<b>>
           r == <<a, b>>
<1> HIDE DEF p, q, r
<1>4. p \o q \in Seq(S) /\ Len(p \o q) = 2 /\ (p \o q)[1] = a /\ (p \o q)[2] = b
  BY <1>1, <1>2, ConcatProperties DEF p, q
<1> DEFINE t == p \o q
<1>5. t \in Seq(S) /\ r \in Seq(S) /\ Len(t) = Len(r) /\ \A i \in 1 .. Len(t) : t[i] = r[i]
  BY <1>3, <1>4 DEF r
<1> HIDE DEF t
<1>6. t = r  BY <1>5, SeqEqual
<1> QED  BY <1>6 DEF t, p, q, r

\* A decomposition that adds a fallback.
LEMMA KeptByFalls ==
  ASSUME Deriving, tasks # <<>>, Head(tasks).task \in {"fallback", "extend"},
         NEW f, Falls_to(design.states, Head(tasks).s, f),
         NEW m, m.tasks = <<>>, m.goes = {}, m.falls = {<<Head(tasks).s, f>>}, m.fires = {}
  PROVE  Kept(m)
<1>1. Closed(design.states)  BY FirstTask
<1>2. Derivation(problem, design, transition, fallback \cup {<<Head(tasks).s, f>>}, fires, <<>> \o Tail(tasks))
  BY <1>1, KeepsFalls DEF Deriving
<1>3. transition \cup m.goes = transition /\ fires \cup m.fires = fires  OBVIOUS
<1> QED  BY <1>2, <1>3 DEF Kept

\* A state of one bit falls back to the first state.
LEMMA FirstKeeps ==
  ASSUME Deriving, tasks # <<>>, NEW m \in m_fallback_first(Head(tasks))
  PROVE  Kept(m)
<1> DEFINE t == Head(tasks)
<1>1. t.task = "fallback" /\ Initial(Front(t.s)) /\ m = Falls("first", t.s, design.start)
  BY DEF m_fallback_first, When
<1>2. t.s # <<>> /\ t.s \in design.states /\ Closed(design.states)  BY <1>1, FirstTask DEF Proper
<1>3. Front(t.s) = <<>> /\ design.start = <<>>  BY <1>1, DesignFacts DEF Deriving, Initial
<1>4. Falls_to(design.states, t.s, design.start)
  <2>1. Falls_to(design.states, t.s, <<>>)  BY <1>2, <1>3, FirstFalls
  <2> QED  BY <1>3, <2>1
<1>5. m.tasks = <<>> /\ m.goes = {} /\ m.falls = {<<t.s, design.start>>} /\ m.fires = {}  BY <1>1, MethodFields
<1> QED  BY <1>1, <1>4, <1>5, KeptByFalls

\* A fallback is concluded from a transition.
LEMMA ExtendKeeps ==
  ASSUME Deriving, tasks # <<>>, NEW m \in m_conclude_fallback_extend(Head(tasks))
  PROVE  Kept(m)
<1> DEFINE t == Head(tasks)
<1>1. PICK u \in transition : /\ t.task = "extend" /\ u[1] = t.f /\ u[2] = Last(t.s)
                              /\ m = Falls("conclude", t.s, u[3])
  BY DEF m_conclude_fallback_extend
<1>2. /\ t.s # <<>> /\ Front(t.s) # <<>> /\ Falls_to(design.states, Front(t.s), t.f)
      /\ t.s \in design.states
  BY <1>1, FirstTask DEF Proper
<1>3. Goal(problem, design, t.f, Last(t.s), u[3])
  <2>1. PICK x \in design.states, b \in Bits, y \in design.states :
          u = <<x, b, y>> /\ Goal(problem, design, x, b, y)
    BY FirstTask DEF Facts
  <2>2. u[1] = x /\ u[2] = b /\ u[3] = y  BY <2>1
  <2> QED  BY <1>1, <2>1, <2>2
<1>4. Falls_to(design.states, t.s, u[3])  BY <1>2, <1>3, FallsAsBelow DEF Deriving
<1>5. m.tasks = <<>> /\ m.goes = {} /\ m.falls = {<<t.s, u[3]>>} /\ m.fires = {}  BY <1>1, MethodFields
<1> QED  BY <1>1, <1>4, <1>5, KeptByFalls

---------------------------------------------------------------------------
\* A decomposition into a task that provides a fact and one that concludes from it.
LEMMA KeptByPair ==
  ASSUME Deriving, tasks # <<>>, NEW u \in Tasks(design), NEW w \in Tasks(design),
         Proper(problem, design, u), Proper(problem, design, w), u.task \in {"next", "fallback"}, Concludes(w),
         Undone(transition, fallback, w), Gives(u, w), Size(u) < Size(w), Size(w) = Size(Head(tasks)),
         Head(tasks).task # "from",
         \A x, b : On_next(Head(tasks), x, b) => On_next(w, x, b),
         \A x : On_fall(Head(tasks), x) => On_fall(w, x),
         NEW by, NEW one, one = <<u>>, NEW two, two = <<w>>
  PROVE  Kept(Subtasks(by, one \o two))
<1>1. Closed(design.states)  BY FirstTask
<1>2. Derivation(problem, design, transition, fallback, fires, <<u, w>> \o Tail(tasks))
  BY <1>1, KeepsPair DEF Deriving
<1>3. one \o two = <<u, w>>  BY Pairs
<1>4. Derivation(problem, design, transition, fallback, fires, (one \o two) \o Tail(tasks))  BY <1>2, <1>3
<1> HIDE DEF Kept
<1> QED  BY <1>4, KeptBySubtasks

\* A bit is read in the fallback.
LEMMA ReadBelow ==
  ASSUME Deriving, tasks # <<>>, Head(tasks).task = "next", ~ Known(Head(tasks).s, Head(tasks).b),
         ReadsBelow(problem, design, Head(tasks).s, Head(tasks).b), Head(tasks).s # <<>>, NEW by
  PROVE  Kept(Subtasks(by, FallbackOf(Head(tasks).s) \o Via(Head(tasks).s, Head(tasks).b)))
<1> DEFINE t == Head(tasks)
<1>1. t.s \in design.states /\ t.b \in Bits /\ Len(t.s) \in Nat /\ ~ K(transition, t.s, t.b)  BY FirstTask
<1> HIDE DEF t
<1>20. PICK u \in Tasks(design) : FallbackOf(t.s) = <<u>> /\ u.task = "fallback" /\ u.s = t.s  BY <1>1, TasksOrdered
<1>21. PICK w \in Tasks(design) : Via(t.s, t.b) = <<w>> /\ w.task = "via" /\ w.s = t.s /\ w.b = t.b
  BY <1>1, BitTasksOrdered
<1>2. /\ FallbackOf(t.s) = <<u>> /\ u \in Tasks(design) /\ u.task = "fallback" /\ u.s = t.s
      /\ Via(t.s, t.b) = <<w>> /\ w \in Tasks(design) /\ w.task = "via" /\ w.s = t.s /\ w.b = t.b
  BY <1>20, <1>21
<1>3. t.task = "next" /\ t.s # <<>> /\ ReadsBelow(problem, design, t.s, t.b)  BY DEF t
<1>4. Proper(problem, design, u) /\ Proper(problem, design, w)  BY <1>2, <1>3 DEF Proper
<1>5. Concludes(w) /\ Undone(transition, fallback, w) /\ Gives(u, w)
  BY <1>1, <1>2 DEF Concludes, Undone, Gives, On_fall
<1>6. Size(u) = 2 * Len(t.s) /\ Size(w) = 2 * Len(t.s) + 1 /\ Size(t) = 2 * Len(t.s) + 1
  BY <1>2, <1>3 DEF Size
<1>7. Size(u) < Size(w) /\ Size(w) = Size(t)  BY <1>1, <1>6
<1>8. (\A x, b : On_next(t, x, b) => On_next(w, x, b)) /\ (\A x : On_fall(t, x) => On_fall(w, x))
  BY <1>2, <1>3 DEF On_next, On_fall
<1> QED  BY <1>2, <1>3, <1>4, <1>5, <1>7, <1>8, KeptByPair DEF t

\* A bit not expected is read in the fallback.
LEMMA MismatchKeeps ==
  ASSUME Deriving, tasks # <<>>, NEW m \in m_next_fallback(Head(tasks))
  PROVE  Kept(m)
<1> DEFINE t == Head(tasks)
<1>1. /\ t.task = "next" /\ Open(t.s, t.b) /\ ~ Expects(t.s, t.b) /\ ~ Initial(t.s)
      /\ problem.overlapping \/ ~ Accepting(t.s)
      /\ m = Subtasks("mismatch", FallbackOf(t.s) \o Via(t.s, t.b))
  BY DEF m_next_fallback, When
<1>2. ~ Known(t.s, t.b) /\ t.s # <<>>  BY <1>1, DesignFacts DEF Open, Initial, Deriving
<1>3. ReadsBelow(problem, design, t.s, t.b)  BY <1>1 DEF ReadsBelow, Open, Expects, Completes, Accepting
<1> QED  BY <1>1, <1>2, <1>3, ReadBelow

\* So is the last bit of a pattern that may overlap.
LEMMA MatchKeeps ==
  ASSUME Deriving, tasks # <<>>, NEW m \in m_next_match_overlapping(Head(tasks))
  PROVE  Kept(m)
<1> DEFINE t == Head(tasks)
<1>1. /\ t.task = "next" /\ Open(t.s, t.b) /\ Completes(t.s, t.b) /\ problem.overlapping /\ ~ Initial(t.s)
      /\ m = Subtasks("match", FallbackOf(t.s) \o Via(t.s, t.b))
  BY DEF m_next_match_overlapping, When
<1>2. ~ Known(t.s, t.b) /\ t.s # <<>>  BY <1>1, DesignFacts DEF Open, Initial, Deriving
<1>3. Append(t.s, t.b) \notin design.states
  <2>1. Completes_in(problem, t.s, t.b) /\ t.s \in design.states /\ t.b \in Bits  BY <1>1, FirstTask
  <2> QED  BY <2>1, DesignFacts DEF Deriving
<1>4. ReadsBelow(problem, design, t.s, t.b)  BY <1>1, <1>3 DEF ReadsBelow, Open
<1> QED  BY <1>1, <1>2, <1>4, ReadBelow

\* Without overlapping, the accepting state goes where the first one does.
LEMMA RestartKeeps ==
  ASSUME Deriving, tasks # <<>>, NEW m \in m_next_accept_from_scratch(Head(tasks))
  PROVE  Kept(m)
<1> DEFINE t == Head(tasks)
<1>1. /\ t.task = "next" /\ ~ Known(t.s, t.b) /\ Accepting(t.s) /\ ~ problem.overlapping
      /\ m = Subtasks("restart", Derive(design.start, t.b) \o FallBack(t.s, t.b, design.start))
  BY DEF m_next_accept_from_scratch, When
<1>2. t.s \in design.states /\ t.b \in Bits /\ Len(t.s) \in Nat /\ ~ K(transition, t.s, t.b) /\ t.s \in Seq(Bits)
  BY <1>1, FirstTask
<1>3. <<>> \in design.states /\ design.start = <<>> /\ t.s # <<>> /\ problem.kind = "moore" /\ t.s = problem.pattern
  BY <1>1, <1>2, DesignFacts DEF Deriving, Accepting
<1> HIDE DEF t
<1>40. PICK u \in Tasks(design) : Derive(<<>>, t.b) = <<u>> /\ u.task = "next" /\ u.s = <<>> /\ u.b = t.b
  BY <1>2, <1>3, BitTasksOrdered
<1>41. PICK w \in Tasks(design) :
         FallBack(t.s, t.b, <<>>) = <<w>> /\ Reads_off(w) /\ w.s = t.s /\ w.b = t.b /\ w.f = <<>>
  BY <1>2, <1>3, FallBackOrdered
<1>4. /\ Derive(<<>>, t.b) = <<u>> /\ u \in Tasks(design) /\ u.task = "next" /\ u.s = <<>> /\ u.b = t.b
      /\ FallBack(t.s, t.b, <<>>) = <<w>> /\ w \in Tasks(design) /\ w.task = "fall back"
      /\ w.s = t.s /\ w.b = t.b /\ w.f = <<>>
  BY <1>40, <1>41 DEF Reads_off
<1>5. Proper(problem, design, u) /\ Proper(problem, design, w)  BY <1>1, <1>3, <1>4 DEF Proper
<1>6. Concludes(w) /\ Undone(transition, fallback, w) /\ Gives(u, w)
  BY <1>2, <1>4 DEF Concludes, Undone, Gives, On_next
<1>7. Size(u) = 1 /\ Size(w) = 2 * Len(t.s) + 1 /\ Size(t) = 2 * Len(t.s) + 1
  <2>1. Size(u) = 2 * Len(<<>>) + 1 /\ Len(<<>>) = 0  BY <1>4, EmptySeq DEF Size
  <2>2. Size(w) = 2 * Len(t.s) + 1  BY <1>4 DEF Size
  <2>3. Size(t) = 2 * Len(t.s) + 1  BY <1>1 DEF Size
  <2> QED  BY <2>1, <2>2, <2>3
<1>8. Size(u) < Size(w) /\ Size(w) = Size(t)
  <2>1. Len(t.s) # 0  BY <1>2, <1>3, EmptySeq
  <2> QED  BY <1>2, <1>7, <2>1
<1>9. (\A x, b : On_next(t, x, b) => On_next(w, x, b)) /\ (\A x : On_fall(t, x) => On_fall(w, x))
  BY <1>1, <1>4 DEF On_next, On_fall
<1>10. m = Subtasks("restart", Derive(<<>>, t.b) \o FallBack(t.s, t.b, <<>>))  BY <1>1, <1>3
<1>11. t.task # "from" /\ u.task \in {"next", "fallback"}  BY <1>1, <1>4
<1> QED  BY <1>4, <1>5, <1>6, <1>8, <1>9, <1>10, <1>11, KeptByPair DEF t

\* The fallback known, its transition is derived.
LEMMA ViaKeeps ==
  ASSUME Deriving, tasks # <<>>, NEW m \in m_via_fallback(Head(tasks))
  PROVE  Kept(m)
<1> DEFINE t == Head(tasks)
<1>1. PICK g \in fallback : /\ t.task = "via" /\ g[1] = t.s
                            /\ m = Subtasks("via", Derive(g[2], t.b) \o FallBack(t.s, t.b, g[2]))
  BY DEF m_via_fallback
<1>2. PICK f \in design.states : g[2] = f /\ Falls_to(design.states, t.s, f)
  <2>1. PICK x \in design.states, f \in design.states : g = <<x, f>> /\ Falls_to(design.states, x, f)
    BY FirstTask DEF Facts
  <2>2. g[1] = x /\ g[2] = f  BY <2>1
  <2> QED  BY <1>1, <2>1, <2>2
<1>3. /\ t.s \in design.states /\ t.b \in Bits /\ Len(t.s) \in Nat /\ Closed(design.states)
      /\ t.s # <<>> /\ ReadsBelow(problem, design, t.s, t.b)
      /\ ~ K(transition, t.s, t.b)
  <2>1. Concludes(t)  BY <1>1 DEF Concludes
  <2> QED  BY <1>1, <2>1, FirstTask DEF Proper, Undone
<1> HIDE DEF t
<1>40. PICK u \in Tasks(design) : Derive(f, t.b) = <<u>> /\ u.task = "next" /\ u.s = f /\ u.b = t.b
  BY <1>3, BitTasksOrdered
<1>41. PICK w \in Tasks(design) :
         FallBack(t.s, t.b, f) = <<w>> /\ Reads_off(w) /\ w.s = t.s /\ w.b = t.b /\ w.f = f
  BY <1>3, FallBackOrdered
<1>4. /\ Derive(f, t.b) = <<u>> /\ u \in Tasks(design) /\ u.task = "next" /\ u.s = f /\ u.b = t.b
      /\ FallBack(t.s, t.b, f) = <<w>> /\ w \in Tasks(design) /\ w.task = "fall back"
      /\ w.s = t.s /\ w.b = t.b /\ w.f = f
  BY <1>40, <1>41 DEF Reads_off
<1>5. Proper(problem, design, u) /\ Proper(problem, design, w)  BY <1>2, <1>3, <1>4 DEF Proper
<1>6. Concludes(w) /\ Undone(transition, fallback, w) /\ Gives(u, w)
  BY <1>3, <1>4 DEF Concludes, Undone, Gives, On_next
<1>7. Size(u) = 2 * Len(f) + 1 /\ Size(w) = 2 * Len(t.s) + 1 /\ Size(t) = 2 * Len(t.s) + 1
  BY <1>1, <1>4 DEF Size
<1>8. Size(u) < Size(w) /\ Size(w) = Size(t)
  <2>1. Len(f) < Len(t.s) /\ Len(f) \in Nat  BY <1>2, <1>3, FallsShorter
  <2> QED  BY <1>3, <1>7, <2>1
<1>9. (\A x, b : On_next(t, x, b) => On_next(w, x, b)) /\ (\A x : On_fall(t, x) => On_fall(w, x))
  BY <1>1, <1>4 DEF On_next, On_fall
<1>10. m = Subtasks("via", Derive(f, t.b) \o FallBack(t.s, t.b, f))  BY <1>1, <1>2
<1>11. t.task # "from" /\ u.task \in {"next", "fallback"}  BY <1>1, <1>4
<1> QED  BY <1>4, <1>5, <1>6, <1>8, <1>9, <1>10, <1>11, KeptByPair DEF t

\* The fallback of the state before is derived first.
LEMMA ExtendingKeeps ==
  ASSUME Deriving, tasks # <<>>, NEW m \in m_fallback_extend(Head(tasks))
  PROVE  Kept(m)
<1> DEFINE t == Head(tasks)
           z == Front(t.s)
<1>1. /\ t.task = "fallback" /\ ~ FallbackKnown(t.s) /\ ~ Initial(z)
      /\ m = Subtasks("extend", FallbackOf(z) \o Step(t.s))
  BY DEF m_fallback_extend, When
<1>2. /\ t.s \in design.states /\ t.s \in Seq(Bits) /\ Len(t.s) \in Nat /\ Closed(design.states)
      /\ t.s # <<>> /\ ~ FK(fallback, t.s)
  BY <1>1, FirstTask DEF Proper
<1>3. z \in design.states /\ z # <<>> /\ Len(z) = Len(t.s) - 1
  <2>1. design.start = <<>>  BY DesignFacts DEF Deriving
  <2>2. Len(z) = Len(t.s) - 1  BY <1>2, FrontLast
  <2> QED  BY <1>1, <1>2, <2>1, <2>2 DEF Closed, Initial
<1>5. z = Front(t.s)  OBVIOUS
<1> HIDE DEF z, t
<1>40. PICK u \in Tasks(design) : FallbackOf(z) = <<u>> /\ u.task = "fallback" /\ u.s = z  BY <1>3, TasksOrdered
<1>41. PICK w \in Tasks(design) : Step(t.s) = <<w>> /\ w.task = "step" /\ w.s = t.s  BY <1>2, TasksOrdered
<1>4. /\ FallbackOf(z) = <<u>> /\ u \in Tasks(design) /\ u.task = "fallback" /\ u.s = z
      /\ Step(t.s) = <<w>> /\ w \in Tasks(design) /\ w.task = "step" /\ w.s = t.s
  BY <1>40, <1>41 DEF Reads_off
<1>6. Proper(problem, design, u) /\ Proper(problem, design, w)  BY <1>2, <1>3, <1>4, <1>5 DEF Proper
<1>7. Concludes(w) /\ Undone(transition, fallback, w) /\ Gives(u, w)
  BY <1>2, <1>4, <1>5 DEF Concludes, Undone, Gives, On_fall
<1>8. Size(u) = 2 * Len(z) /\ Size(w) = 2 * Len(t.s) /\ Size(t) = 2 * Len(t.s)
  BY <1>1, <1>4 DEF Size
<1>9. Size(u) < Size(w) /\ Size(w) = Size(t)  BY <1>2, <1>3, <1>8
<1>10. (\A x, b : On_next(t, x, b) => On_next(w, x, b)) /\ (\A x : On_fall(t, x) => On_fall(w, x))
  BY <1>1, <1>4 DEF On_next, On_fall
<1>11. t.task # "from" /\ u.task \in {"next", "fallback"}  BY <1>1, <1>4
<1> QED  BY <1>1, <1>4, <1>6, <1>7, <1>9, <1>10, <1>11, KeptByPair DEF t

\* That fallback known, its transition is derived.
LEMMA SteppingKeeps ==
  ASSUME Deriving, tasks # <<>>, NEW m \in m_fallback_step(Head(tasks))
  PROVE  Kept(m)
<1> DEFINE t == Head(tasks)
           c == Last(t.s)
<1>1. PICK g \in fallback : /\ t.task = "step" /\ g[1] = Front(t.s)
                            /\ m = Subtasks("step", Derive(g[2], c) \o Extend(t.s, g[2]))
  BY DEF m_fallback_step
<1>2. PICK f \in design.states : g[2] = f /\ Falls_to(design.states, Front(t.s), f)
  <2>1. PICK x \in design.states, f \in design.states : g = <<x, f>> /\ Falls_to(design.states, x, f)
    BY FirstTask DEF Facts
  <2>2. g[1] = x /\ g[2] = f  BY <2>1
  <2> QED  BY <1>1, <2>1, <2>2
<1>3. /\ t.s \in design.states /\ t.s \in Seq(Bits) /\ Len(t.s) \in Nat /\ Closed(design.states)
      /\ t.s # <<>> /\ Front(t.s) # <<>> /\ ~ FK(fallback, t.s)
  <2>1. Concludes(t)  BY <1>1 DEF Concludes
  <2> QED  BY <1>1, <2>1, FirstTask DEF Proper, Undone
<1>4. c \in Bits /\ Front(t.s) \in design.states /\ Len(Front(t.s)) = Len(t.s) - 1  BY <1>3, FrontLast DEF Closed
<1>6. c = Last(t.s)  OBVIOUS
<1> HIDE DEF c, t
<1>50. PICK u \in Tasks(design) : Derive(f, c) = <<u>> /\ u.task = "next" /\ u.s = f /\ u.b = c
  BY <1>4, BitTasksOrdered
<1>51. PICK w \in Tasks(design) : Extend(t.s, f) = <<w>> /\ w.task = "extend" /\ w.s = t.s /\ w.f = f
  BY <1>3, ExtendOrdered
<1>5. /\ Derive(f, c) = <<u>> /\ u \in Tasks(design) /\ u.task = "next" /\ u.s = f /\ u.b = c
      /\ Extend(t.s, f) = <<w>> /\ w \in Tasks(design) /\ w.task = "extend" /\ w.s = t.s /\ w.f = f
  BY <1>50, <1>51
<1>7. Proper(problem, design, u) /\ Proper(problem, design, w)  BY <1>2, <1>3, <1>5 DEF Proper
<1>8. Concludes(w) /\ Undone(transition, fallback, w) /\ Gives(u, w)
  BY <1>3, <1>5, <1>6 DEF Concludes, Undone, Gives, On_next
<1>9. Size(u) = 2 * Len(f) + 1 /\ Size(w) = 2 * Len(t.s) /\ Size(t) = 2 * Len(t.s)
  BY <1>1, <1>5 DEF Size
<1>10. Size(u) < Size(w) /\ Size(w) = Size(t)
  <2>1. Len(f) < Len(Front(t.s)) /\ Len(f) \in Nat  BY <1>2, <1>3, <1>4, FallsShorter
  <2> QED  BY <1>3, <1>4, <1>9, <2>1
<1>11. (\A x, b : On_next(t, x, b) => On_next(w, x, b)) /\ (\A x : On_fall(t, x) => On_fall(w, x))
  BY <1>1, <1>5 DEF On_next, On_fall
<1>12. m = Subtasks("step", Derive(f, c) \o Extend(t.s, f))  BY <1>1, <1>2
<1>13. t.task # "from" /\ u.task \in {"next", "fallback"}  BY <1>1, <1>5
<1> QED  BY <1>5, <1>7, <1>8, <1>10, <1>11, <1>12, <1>13, KeptByPair DEF t

\* The walk asks for the two transitions of a state and goes on to the next one.
LEMMA WalkOn ==
  ASSUME NEW p, NEW d, Lists(p, d), NEW T, NEW F, NEW E, NEW ts, Derivation(p, d, T, F, E, ts),
         NEW h, Len(ts) = 1, ts[1] = h, h.task = "from",
         NEW i \in 1 .. Len(d.listed), d.listed[i] = h.s,
         NEW e \in Seq(Tasks(d)), Len(e) = IF i < Len(d.listed) THEN 3 ELSE 2,
         \A b \in Bits : e[b + 1].task = "next" /\ e[b + 1].s = h.s /\ e[b + 1].b = b,
         i < Len(d.listed) => e[3].task = "from" /\ e[3].s = d.listed[i + 1]
  PROVE  Derivation(p, d, T, F, E, e)
<1>0. Facts(p, d, T, F, E) /\ Promised(d, T, ts)  BY DEF Derivation
<1>1. 0 \in Bits /\ 1 \in Bits /\ \A b \in Bits : b = 0 \/ b = 1  BY DEF Bits
<1>2. e[1].task = "next" /\ e[2].task = "next"
  <2>1. e[0 + 1].task = "next" /\ e[1 + 1].task = "next"  BY <1>1
  <2>2. 0 + 1 = 1 /\ 1 + 1 = 2  OBVIOUS
  <2> QED  BY <2>1, <2>2
<1>3. /\ d.listed \in Seq(d.states) /\ Len(d.listed) \in Nat /\ DOMAIN d.listed = 1 .. Len(d.listed)
      /\ \A j, k \in 1 .. Len(d.listed) : d.listed[j] = d.listed[k] => j = k
  <2>1. d.listed \in Seq(d.states) /\ \A j, k \in DOMAIN d.listed : d.listed[j] = d.listed[k] => j = k  BY DEF Lists
  <2>2. Len(d.listed) \in Nat /\ DOMAIN d.listed = 1 .. Len(d.listed)  BY <2>1, LenProperties
  <2> QED  BY <2>1, <2>2
<1>4. \A j \in 1 .. Len(e) : j = 1 \/ j = 2 \/ (j = 3 /\ i < Len(d.listed))  BY <1>3
<1>5. \A j \in 1 .. Len(e) : \/ e[j].task = "next"
                             \/ e[j].task = "from" /\ j = Len(e) /\ e[j].s \in ToSet(d.listed)
  <2> TAKE j \in 1 .. Len(e)
  <2>1. CASE j = 1 \/ j = 2  BY <1>2, <2>1
  <2>2. CASE j = 3 /\ i < Len(d.listed)
    <3>1. i + 1 \in 1 .. Len(d.listed)  BY <1>3, <2>2
    <3>2. d.listed[i + 1] \in ToSet(d.listed)  BY <1>3, <3>1 DEF ToSet
    <3> QED  BY <2>2, <3>2
  <2> QED  BY <1>4, <2>1, <2>2
<1>6. Stack(p, d, T, F, e)
  <2>1. \A j \in 1 .. Len(e) : ~ Concludes(e[j])  BY <1>5 DEF Concludes
  <2>2. \A j \in 1 .. Len(e) : Proper(p, d, e[j])
    <3> TAKE j \in 1 .. Len(e)
    <3> DEFINE t == e[j]
    <3>1. t.task = "next" \/ (t.task = "from" /\ t.s \in ToSet(d.listed))  BY <1>5
    <3> HIDE DEF t
    <3>2. Proper(p, d, t)  BY <3>1 DEF Proper
    <3> QED  BY <3>2 DEF t
  <2>3. \A j \in 1 .. Len(e) : e[j].task = "from" => j = Len(e)
    <3> TAKE j \in 1 .. Len(e)
    <3> DEFINE a == e[j].task
    <3>1. a = "next" \/ j = Len(e)  BY <1>5
    <3> HIDE DEF a
    <3>2. a = "from" => j = Len(e)  BY <3>1
    <3> QED  BY <3>2 DEF a
  <2> QED  BY <2>1, <2>2, <2>3 DEF Stack
<1>7. ASSUME NEW l \in 1 .. Len(d.listed), NEW b \in Bits
      PROVE  \/ K(T, d.listed[l], b)
             \/ \E j \in 1 .. Len(e) : On_next(e[j], d.listed[l], b)
             \/ \E j \in 1 .. Len(e) : e[j].task = "from" /\ \E k \in 1 .. l : d.listed[k] = e[j].s
  <2>1. \/ K(T, d.listed[l], b)
        \/ \E j \in 1 .. Len(ts) : On_next(ts[j], d.listed[l], b)
        \/ \E j \in 1 .. Len(ts) : ts[j].task = "from" /\ \E k \in 1 .. l : d.listed[k] = ts[j].s
    BY <1>0 DEF Promised
  <2>2. \A j \in 1 .. Len(ts) : j = 1  OBVIOUS
  <2>3. ~ On_next(h, d.listed[l], b)  BY DEF On_next
  <2>4. CASE K(T, d.listed[l], b)  BY <2>4
  <2>5. CASE \E k \in 1 .. l : d.listed[k] = h.s
    <3>1. PICK k \in 1 .. l : d.listed[k] = h.s  BY <2>5
    <3>2. k \in 1 .. Len(d.listed)  BY <1>3
    <3>3. k = i  BY <1>3, <3>1, <3>2
    <3>4. CASE l = i
      <4>1. b + 1 \in 1 .. Len(e)  BY <1>1
      <4>2. On_next(e[b + 1], d.listed[l], b)  BY <3>4 DEF On_next
      <4> QED  BY <4>1, <4>2
    <3>5. CASE l # i
      <4>1. i < Len(d.listed) /\ i + 1 \in 1 .. l  BY <1>3, <3>3, <3>5
      <4>2. 3 \in 1 .. Len(e)  BY <4>1
      <4> QED  BY <4>1, <4>2
    <3> QED  BY <3>4, <3>5
  <2> QED  BY <2>1, <2>2, <2>3, <2>4, <2>5
<1>8. Promised(d, T, e)  BY <1>7 DEF Promised
<1> QED  BY <1>0, <1>6, <1>8 DEF Derivation

\* The walk asks for the transitions of each state listed.
LEMMA WalkKeeps ==
  ASSUME Deriving, tasks # <<>>, NEW m \in m_walk(Head(tasks))
  PROVE  Kept(m)
<1> DEFINE t == Head(tasks)
           n == Len(design.listed)
           i == CHOOSE k \in DOMAIN design.listed : design.listed[k] = t.s
           X == IF i < n THEN From(design.listed[i + 1]) ELSE <<>>
           r == Derive(t.s, 0) \o Derive(t.s, 1) \o X
<1>1. t.task = "from" /\ m = Subtasks("walk", r)  BY DEF m_walk, When
<1>2. /\ Lists(problem, design) /\ Stack(problem, design, transition, fallback, tasks)
      /\ Derivation(problem, design, transition, fallback, fires, tasks)
      /\ t.s \in design.states /\ Proper(problem, design, t)
  BY FirstTask DEF Deriving, Sound
<1>3. t.s \in ToSet(design.listed)  BY <1>1, <1>2 DEF Proper
<1>4. design.listed \in Seq(design.states) /\ n \in Nat /\ DOMAIN design.listed = 1 .. n
  BY <1>2, LenProperties DEF Lists
<1>5. i \in 1 .. n /\ design.listed[i] = t.s  BY <1>3, <1>4 DEF ToSet
<1>6. Len(tasks) = 1 /\ tasks[1] = t /\ Tail(tasks) = <<>>
  <2>1. tasks \in Seq(Tasks(design))  BY <1>2 DEF Stack
  <2>2. Len(tasks) \in Nat \ {0} /\ 1 \in 1 .. Len(tasks) /\ tasks[1] = t  BY <2>1, EmptySeq
  <2>3. Len(tasks) = 1  BY <1>1, <1>2, <2>2 DEF Stack
  <2>4. Tail(tasks) \in Seq(Tasks(design)) /\ Len(Tail(tasks)) = 0  BY <2>1, <2>3, HeadTailProperties
  <2> QED  BY <2>2, <2>3, <2>4, EmptySeq
<1>7. 0 \in Bits /\ 1 \in Bits /\ \A b \in Bits : b = 0 \/ b = 1  BY DEF Bits
<1> HIDE DEF i, t, n
<1>8. PICK u \in Tasks(design) : Derive(t.s, 0) = <<u>> /\ u.task = "next" /\ u.s = t.s /\ u.b = 0
  BY <1>2, <1>7, BitTasksOrdered
<1>9. PICK w \in Tasks(design) : Derive(t.s, 1) = <<w>> /\ w.task = "next" /\ w.s = t.s /\ w.b = 1
  BY <1>2, <1>7, BitTasksOrdered
<1>10. PICK q \in Seq(Tasks(design)) : q = <<u, w>> /\ Len(q) = 2 /\ q[1] = u /\ q[2] = w
  <2>1. \A a, c \in Tasks(design) : <<a, c>> \in Seq(Tasks(design)) /\ Len(<<a, c>>) = 2
                                    /\ <<a, c>>[1] = a /\ <<a, c>>[2] = c
    OBVIOUS
  <2>2. <<u, w>> \in Seq(Tasks(design)) /\ Len(<<u, w>>) = 2 /\ <<u, w>>[1] = u /\ <<u, w>>[2] = w  BY <2>1
  <2> QED  BY <2>2
<1>11. Derive(t.s, 0) \o Derive(t.s, 1) = q  BY <1>8, <1>9, <1>10, Pairs
<1>12. r = q \o X  BY <1>11
<1>13. /\ X \in Seq(Tasks(design)) /\ Len(X) = IF i < n THEN 1 ELSE 0
       /\ i < n => X[1].task = "from" /\ X[1].s = design.listed[i + 1]
  <2>1. CASE i < n
    <3>1. i + 1 \in 1 .. n  BY <1>4, <1>5, <2>1
    <3>2. design.listed[i + 1] \in design.states  BY <1>4, <3>1, ElementOfSeq DEF n
    <3>3. PICK v \in Tasks(design) : From(design.listed[i + 1]) = <<v>> /\ v.task = "from" /\ v.s = design.listed[i + 1]
      BY <3>2, TasksOrdered
    <3>4. \A a \in Tasks(design) : <<a>> \in Seq(Tasks(design)) /\ Len(<<a>>) = 1 /\ <<a>>[1] = a  OBVIOUS
    <3>5. <<v>> \in Seq(Tasks(design)) /\ Len(<<v>>) = 1 /\ <<v>>[1] = v  BY <3>4
    <3>6. X = <<v>>  BY <2>1, <3>3
    <3> QED  BY <2>1, <3>3, <3>5, <3>6
  <2>2. CASE ~ i < n
    <3>1. X = <<>>  BY <2>2
    <3> QED  BY <2>2, <3>1, EmptySeq
  <2> QED  BY <2>1, <2>2
<1> HIDE DEF X, r
<1>14. /\ r \in Seq(Tasks(design)) /\ Len(r) = IF i < n THEN 3 ELSE 2
       /\ r[1] = u /\ r[2] = w /\ (i < n => r[3] = X[1])
  <2>1. q \o X \in Seq(Tasks(design)) /\ Len(q \o X) = 2 + Len(X)
    BY <1>10, <1>13, ConcatProperties
  <2>2. \A k \in 1 .. Len(q) + Len(X) : (q \o X)[k] = IF k <= Len(q) THEN q[k] ELSE X[k - Len(q)]
    BY <1>10, <1>13, ConcatProperties
  <2>3. 1 \in 1 .. Len(q) + Len(X) /\ 2 \in 1 .. Len(q) + Len(X) /\ (i < n => 3 \in 1 .. Len(q) + Len(X))
    BY <1>10, <1>13
  <2>4. (q \o X)[1] = q[1] /\ (q \o X)[2] = q[2]  BY <1>10, <2>2, <2>3
  <2>5. i < n => (q \o X)[3] = X[1]
    <3>1. i < n => (q \o X)[3] = X[3 - Len(q)]  BY <1>10, <2>2, <2>3
    <3>2. 3 - Len(q) = 1  BY <1>10
    <3> QED  BY <3>1, <3>2
  <2> QED  BY <1>10, <1>12, <1>13, <2>1, <2>4, <2>5
<1>15. \A b \in Bits : r[b + 1].task = "next" /\ r[b + 1].s = t.s /\ r[b + 1].b = b
  <2> TAKE b \in Bits
  <2>1. CASE b = 0
    <3>1. b + 1 = 1  BY <2>1
    <3> QED  BY <1>8, <1>14, <2>1, <3>1
  <2>2. CASE b = 1
    <3>1. b + 1 = 2  BY <2>2
    <3> QED  BY <1>9, <1>14, <2>2, <3>1
  <2> QED  BY <1>7, <2>1, <2>2
<1>16. Derivation(problem, design, transition, fallback, fires, r)
  BY <1>1, <1>2, <1>5, <1>6, <1>13, <1>14, <1>15, WalkOn DEF n
<1>17. r \o Tail(tasks) = r
  <2>1. r \o <<>> = r  BY <1>14
  <2> QED  BY <1>6, <2>1
<1>18. Derivation(problem, design, transition, fallback, fires, r \o Tail(tasks))  BY <1>16, <1>17
<1> QED  BY <1>1, <1>18, KeptBySubtasks

\* Every method keeps the derivation in order.
LEMMA MethodKeeps ==
  ASSUME Deriving, tasks # <<>>, NEW m \in Methods(Head(tasks))
  PROVE  Kept(m)
BY WalkKeeps, KnownKeeps, HoldKeeps, AdvanceKeeps, StayKeeps, MismatchKeeps, MatchKeeps, FromScratchKeeps,
   RestartKeeps, ViaKeeps, FallBackKeeps, FallbackKnownKeeps, FirstKeeps, ExtendingKeeps, SteppingKeeps,
   ExtendKeeps DEF Methods

\* The network the planner is given.
LEMMA FromTheFirst ==
  ASSUME NEW p, NEW d, Sound(p, d)
  PROVE  Derivation(p, d, {}, {}, {}, From(d.listed[1]))
<1>1. /\ d.listed \in Seq(d.states) /\ Len(d.listed) \in Nat \ {0} /\ 1 \in 1 .. Len(d.listed)
      /\ DOMAIN d.listed = 1 .. Len(d.listed)
  BY EmptySeq, LenProperties DEF Sound, Lists
<1>2. d.listed[1] \in d.states /\ d.listed[1] \in ToSet(d.listed)  BY <1>1, ElementOfSeq DEF ToSet
<1>3. PICK t \in Tasks(d) : From(d.listed[1]) = <<t>> /\ t.task = "from" /\ t.s = d.listed[1]
  BY <1>2, TasksOrdered
<1>4. \A a \in Tasks(d) : <<a>> \in Seq(Tasks(d)) /\ Len(<<a>>) = 1 /\ <<a>>[1] = a  OBVIOUS
<1>5. PICK e \in Seq(Tasks(d)) : e = <<t>> /\ Len(e) = 1 /\ e[1] = t
  <2>1. <<t>> \in Seq(Tasks(d)) /\ Len(<<t>>) = 1 /\ <<t>>[1] = t  BY <1>4
  <2> QED  BY <2>1
<1>6. \A i \in 1 .. Len(e) : i = 1  BY <1>5
<1>7. Stack(p, d, {}, {}, e)
  <2>1. Proper(p, d, t) /\ ~ Concludes(t)  BY <1>2, <1>3 DEF Proper, Concludes
  <2> QED  BY <1>5, <1>6, <2>1 DEF Stack
<1>8. Promised(d, {}, e)
  <2> SUFFICES ASSUME NEW i \in 1 .. Len(d.listed)
               PROVE  \E j \in 1 .. Len(e) : e[j].task = "from" /\ \E k \in 1 .. i : d.listed[k] = e[j].s
    BY DEF Promised
  <2>1. 1 \in 1 .. i /\ 1 \in 1 .. Len(e)  BY <1>1, <1>5
  <2> QED  BY <1>3, <1>5, <2>1
<1>9. Facts(p, d, {}, {}, {})  BY DEF Facts, K
<1> QED  BY <1>3, <1>5, <1>7, <1>8, <1>9 DEF Derivation

---------------------------------------------------------------------------
(*************************************************************************)
(* Every decision is forced.                                             *)
(*************************************************************************)
\* A set of one.
One(S) == \E m : S = {m}

\* A method takes tasks of one name.
LEMMA OnlyFor ==
  ASSUME NEW t
  PROVE  /\ t.task # "from" => m_walk(t) = {}
         /\ t.task # "next" =>
              /\ m_next_known(t) = {} /\ m_next_hold(t) = {} /\ m_next_advance(t) = {} /\ m_next_stay(t) = {}
              /\ m_next_fallback(t) = {} /\ m_next_match_overlapping(t) = {}
              /\ m_next_match_from_scratch(t) = {} /\ m_next_accept_from_scratch(t) = {}
         /\ t.task # "via" => m_via_fallback(t) = {}
         /\ t.task # "fall back" => m_conclude_fall_back(t) = {}
         /\ t.task # "fallback" => m_fallback_known(t) = {} /\ m_fallback_first(t) = {} /\ m_fallback_extend(t) = {}
         /\ t.task # "step" => m_fallback_step(t) = {}
         /\ t.task # "extend" => m_conclude_fallback_extend(t) = {}
<1>1. t.task # "from" => m_walk(t) = {}  BY DEF m_walk, When
<1>2. t.task # "next" =>
        /\ m_next_known(t) = {} /\ m_next_hold(t) = {} /\ m_next_advance(t) = {} /\ m_next_stay(t) = {}
        /\ m_next_fallback(t) = {} /\ m_next_match_overlapping(t) = {}
        /\ m_next_match_from_scratch(t) = {} /\ m_next_accept_from_scratch(t) = {}
  BY DEF m_next_known, m_next_hold, m_next_advance, m_next_stay, m_next_fallback, m_next_match_overlapping,
         m_next_match_from_scratch, m_next_accept_from_scratch, When
<1>3. t.task # "via" => m_via_fallback(t) = {}  BY DEF m_via_fallback
<1>4. t.task # "fall back" => m_conclude_fall_back(t) = {}  BY DEF m_conclude_fall_back
<1>5. t.task # "fallback" => m_fallback_known(t) = {} /\ m_fallback_first(t) = {} /\ m_fallback_extend(t) = {}
  BY DEF m_fallback_known, m_fallback_first, m_fallback_extend, When
<1>6. t.task # "step" => m_fallback_step(t) = {}  BY DEF m_fallback_step
<1>7. t.task # "extend" => m_conclude_fallback_extend(t) = {}  BY DEF m_conclude_fallback_extend
<1> QED  BY <1>1, <1>2, <1>3, <1>4, <1>5, <1>6, <1>7

\* The walk has one decomposition.
LEMMA OneToWalk ==
  ASSUME NEW t, t.task = "from"
  PROVE  One(Methods(t))
<1>1. One(m_walk(t))  BY DEF One, m_walk, When
<1>2. Methods(t) = m_walk(t)  BY OnlyFor DEF Methods
<1> QED  BY <1>1, <1>2

\* Exactly one of the methods for a transition applies.
LEMMA OneToDerive ==
  ASSUME Deriving, tasks # <<>>, Head(tasks).task = "next"
  PROVE  One(Methods(Head(tasks)))
<1> DEFINE t == Head(tasks)
           kn == Known(t.s, t.b)
           ho == <<t.s, t.b>> \in design.holds
           ad == Append(t.s, t.b) \in design.states
           co == Completes(t.s, t.b)
           ac == Accepting(t.s)
           ov == problem.overlapping
           ini == Initial(t.s)
           S == Methods(t)
<1>1. /\ co => ~ ad /\ ~ ho /\ ~ ac
      /\ ac => ~ ad /\ ~ ho /\ ~ ini
  <2>1. t.s \in design.states /\ t.b \in Bits  BY FirstTask
  <2>2. co => problem.kind = "mealy" /\ ~ ad /\ design.holds = {}
    BY <2>1, DesignFacts DEF Deriving, Completes, Completes_in
  <2>3. ac => problem.kind = "moore" /\ ~ ad /\ design.holds = {} /\ t.s # <<>> /\ design.start = <<>>
    BY <2>1, DesignFacts DEF Deriving, Accepting
  <2> QED  BY <2>2, <2>3 DEF Initial, Accepting
<1>2. S = m_next_known(t) \cup m_next_hold(t) \cup m_next_advance(t) \cup m_next_stay(t)
          \cup m_next_fallback(t) \cup m_next_match_overlapping(t) \cup m_next_match_from_scratch(t)
          \cup m_next_accept_from_scratch(t)
  BY OnlyFor DEF Methods
<1>3. t.task = "next"  OBVIOUS
<1> HIDE DEF t, S
<1> DEFINE Is(c, M) == (c => One(M)) /\ (~ c => M = {})
<1>4. Is(kn, m_next_known(t))  BY <1>3 DEF One, m_next_known, When
<1>5. Is(~ kn /\ ho, m_next_hold(t))  BY <1>3 DEF One, m_next_hold, When
<1>6. Is(~ kn /\ ~ ho /\ ad, m_next_advance(t))  BY <1>3 DEF One, m_next_advance, When, Open
<1>7. Is(~ kn /\ ~ ho /\ ~ ad /\ ~ co /\ ini, m_next_stay(t))  BY <1>3 DEF One, m_next_stay, When, Open, Expects
<1>8. Is(~ kn /\ ~ ho /\ ~ ad /\ ~ co /\ ~ ini /\ (ov \/ ~ ac), m_next_fallback(t))
  BY <1>3 DEF One, m_next_fallback, When, Open, Expects
<1>9. Is(~ kn /\ ~ ho /\ co /\ ov /\ ~ ini, m_next_match_overlapping(t))
  BY <1>3 DEF One, m_next_match_overlapping, When, Open
<1>10. Is(~ kn /\ ~ ho /\ co /\ (~ ov \/ ini), m_next_match_from_scratch(t))
  BY <1>3 DEF One, m_next_match_from_scratch, When, Open
<1>11. Is(~ kn /\ ac /\ ~ ov, m_next_accept_from_scratch(t))
  BY <1>3 DEF One, m_next_accept_from_scratch, When
<1> HIDE DEF kn, ho, ad, co, ac, ov, ini
<1>12. \/ S = m_next_known(t) /\ One(m_next_known(t))
       \/ S = m_next_hold(t) /\ One(m_next_hold(t))
       \/ S = m_next_advance(t) /\ One(m_next_advance(t))
       \/ S = m_next_stay(t) /\ One(m_next_stay(t))
       \/ S = m_next_fallback(t) /\ One(m_next_fallback(t))
       \/ S = m_next_match_overlapping(t) /\ One(m_next_match_overlapping(t))
       \/ S = m_next_match_from_scratch(t) /\ One(m_next_match_from_scratch(t))
       \/ S = m_next_accept_from_scratch(t) /\ One(m_next_accept_from_scratch(t))
  <2>1. CASE kn  BY <1>2, <1>4, <1>5, <1>6, <1>7, <1>8, <1>9, <1>10, <1>11, <2>1
  <2>2. CASE ~ kn /\ ho  BY <1>1, <1>2, <1>4, <1>5, <1>6, <1>7, <1>8, <1>9, <1>10, <1>11, <2>2
  <2>3. CASE ~ kn /\ ~ ho /\ ad  BY <1>1, <1>2, <1>4, <1>5, <1>6, <1>7, <1>8, <1>9, <1>10, <1>11, <2>3
  <2>4. CASE ~ kn /\ ~ ho /\ ~ ad /\ co  BY <1>1, <1>2, <1>4, <1>5, <1>6, <1>7, <1>8, <1>9, <1>10, <1>11, <2>4
  <2>5. CASE ~ kn /\ ~ ho /\ ~ ad /\ ~ co
    BY <1>1, <1>2, <1>4, <1>5, <1>6, <1>7, <1>8, <1>9, <1>10, <1>11, <2>5
  <2> QED  BY <2>1, <2>2, <2>3, <2>4, <2>5
<1> HIDE DEF Is
<1>13. One(S)
  BY <1>12
<1> QED  BY <1>13 DEF S, t

\* One fallback is known of a state.
LEMMA OneFallback ==
  ASSUME Deriving, NEW x, NEW g \in fallback, NEW h \in fallback, g[1] = x, h[1] = x
  PROVE  g[2] = h[2]
<1>1. Facts(problem, design, transition, fallback, fires) /\ Closed(design.states)
  BY DEF Deriving, Derivation, Sound
<1>2. \A k \in fallback : Falls_to(design.states, k[1], k[2])
  <2> TAKE k \in fallback
  <2>1. PICK y \in design.states, f \in design.states : k = <<y, f>> /\ Falls_to(design.states, y, f)
    BY <1>1 DEF Facts
  <2>2. k[1] = y /\ k[2] = f  BY <2>1
  <2> QED  BY <2>1, <2>2
<1>3. Falls_to(design.states, x, g[2]) /\ Falls_to(design.states, x, h[2])  BY <1>2
<1> QED  BY <1>1, <1>3, OneFall

\* One transition is known of a state and a bit.
LEMMA OneTransition ==
  ASSUME Deriving, NEW x, NEW b, NEW u \in transition, NEW v \in transition,
         u[1] = x, v[1] = x, u[2] = b, v[2] = b
  PROVE  u[3] = v[3]
<1>1. Facts(problem, design, transition, fallback, fires)  BY DEF Deriving, Derivation
<1>2. \A k \in transition : Goal(problem, design, k[1], k[2], k[3])
  <2> TAKE k \in transition
  <2>1. PICK y \in design.states, c \in Bits, z \in design.states :
          k = <<y, c, z>> /\ Goal(problem, design, y, c, z)
    BY <1>1 DEF Facts
  <2>2. k[1] = y /\ k[2] = c /\ k[3] = z  BY <2>1
  <2> QED  BY <2>1, <2>2
<1>3. Goal(problem, design, x, b, u[3]) /\ Goal(problem, design, x, b, v[3])  BY <1>2
<1> QED  BY <1>3, OneGoal DEF Deriving

\* A concluding task finds one fact to conclude from.
LEMMA OneToConclude ==
  ASSUME Deriving, tasks # <<>>, Concludes(Head(tasks))
  PROVE  One(Methods(Head(tasks)))
<1> DEFINE t == Head(tasks)
<1>1. /\ t.task \in {"via", "step", "fall back", "extend"}
      /\ Undone(transition, fallback, t) /\ Has(transition, fallback, t)
      /\ \A x, b : Known(x, b) <=> K(transition, x, b)
      /\ \A x : FallbackKnown(x) <=> FK(fallback, x)
  BY FirstTask DEF Concludes
<1> HIDE DEF t
<1>2. CASE t.task = "via"
  <2>1. PICK g \in fallback : g[1] = t.s  BY <1>1, <1>2 DEF Has, FK
  <2> DEFINE M(f) == Subtasks("via", Derive(f[2], t.b) \o FallBack(t.s, t.b, f[2]))
  <2>2. \A f \in {k \in fallback : t.task = "via" /\ k[1] = t.s} : M(f) = M(g)
    <3> TAKE f \in {k \in fallback : t.task = "via" /\ k[1] = t.s}
    <3>1. f[2] = g[2]  BY <2>1, OneFallback
    <3> QED  BY <3>1
  <2>3. m_via_fallback(t) = {M(f) : f \in {k \in fallback : t.task = "via" /\ k[1] = t.s}}  BY DEF m_via_fallback
  <2> HIDE DEF M
  <2>4. m_via_fallback(t) = {M(g)}  BY <1>2, <2>1, <2>2, <2>3
  <2>5. Methods(t) = m_via_fallback(t)  BY <1>2, OnlyFor DEF Methods
  <2> QED  BY <2>4, <2>5 DEF One, t
<1>3. CASE t.task = "step"
  <2>1. PICK g \in fallback : g[1] = Front(t.s)  BY <1>1, <1>3 DEF Has, FK
  <2> DEFINE M(f) == Subtasks("step", Derive(f[2], Last(t.s)) \o Extend(t.s, f[2]))
  <2>2. \A f \in {k \in fallback : t.task = "step" /\ k[1] = Front(t.s)} : M(f) = M(g)
    <3> TAKE f \in {k \in fallback : t.task = "step" /\ k[1] = Front(t.s)}
    <3>1. f[2] = g[2]  BY <2>1, OneFallback
    <3> QED  BY <3>1
  <2>3. m_fallback_step(t) = {M(f) : f \in {k \in fallback : t.task = "step" /\ k[1] = Front(t.s)}}
    BY DEF m_fallback_step
  <2> HIDE DEF M
  <2>4. m_fallback_step(t) = {M(g)}  BY <1>3, <2>1, <2>2, <2>3
  <2>5. Methods(t) = m_fallback_step(t)  BY <1>3, OnlyFor DEF Methods
  <2> QED  BY <2>4, <2>5 DEF One, t
<1>4. CASE t.task = "fall back"
  <2>1. PICK g \in transition : g[1] = t.f /\ g[2] = t.b  BY <1>1, <1>4 DEF Has, K
  <2>0. ~ Known(t.s, t.b)  BY <1>1, <1>4 DEF Undone
  <2> DEFINE C(v) == t.task = "fall back" /\ ~ Known(t.s, t.b) /\ v[1] = t.f /\ v[2] = t.b
             M(u) == [Goes("fall back", t.s, t.b, u[3]) EXCEPT !.fires = When(Completes(t.s, t.b), <<t.s, t.b>>)]
  <2>2. \A f \in {v \in transition : C(v)} : M(f) = M(g)
    <3> TAKE f \in {v \in transition : C(v)}
    <3>1. f[3] = g[3]  BY <2>1, OneTransition
    <3> QED  BY <3>1
  <2>3. m_conclude_fall_back(t) = {M(f) : f \in {v \in transition : C(v)}}  BY DEF m_conclude_fall_back
  <2>6. C(g)  BY <1>4, <2>0, <2>1
  <2> HIDE DEF M, C
  <2>4. m_conclude_fall_back(t) = {M(g)}  BY <2>2, <2>3, <2>6
  <2>5. Methods(t) = m_conclude_fall_back(t)  BY <1>4, OnlyFor DEF Methods
  <2> QED  BY <2>4, <2>5 DEF One, t
<1>5. CASE t.task = "extend"
  <2>1. PICK g \in transition : g[1] = t.f /\ g[2] = Last(t.s)  BY <1>1, <1>5 DEF Has, K
  <2>0. ~ FallbackKnown(t.s)  BY <1>1, <1>5 DEF Undone
  <2> DEFINE C(v) == t.task = "extend" /\ ~ FallbackKnown(t.s) /\ v[1] = t.f /\ v[2] = Last(t.s)
             M(u) == Falls("conclude", t.s, u[3])
  <2>2. \A f \in {v \in transition : C(v)} : M(f) = M(g)
    <3> TAKE f \in {v \in transition : C(v)}
    <3>1. f[3] = g[3]  BY <2>1, OneTransition
    <3> QED  BY <3>1
  <2>3. m_conclude_fallback_extend(t) = {M(f) : f \in {v \in transition : C(v)}}  BY DEF m_conclude_fallback_extend
  <2>6. C(g)  BY <1>5, <2>0, <2>1
  <2> HIDE DEF M, C
  <2>4. m_conclude_fallback_extend(t) = {M(g)}  BY <2>2, <2>3, <2>6
  <2>5. Methods(t) = m_conclude_fallback_extend(t)  BY <1>5, OnlyFor DEF Methods
  <2> QED  BY <2>4, <2>5 DEF One, t
<1> QED  BY <1>1, <1>2, <1>3, <1>4, <1>5

\* Exactly one of the methods for a fallback applies.
LEMMA OneToFall ==
  ASSUME NEW t, t.task = "fallback"
  PROVE  One(Methods(t))
<1> DEFINE kn == FallbackKnown(t.s)
           ini == Initial(Front(t.s))
           S == Methods(t)
<1>1. S = m_fallback_known(t) \cup m_fallback_first(t) \cup m_fallback_extend(t)  BY OnlyFor DEF Methods
<1> HIDE DEF S
<1> DEFINE Is(c, M) == (c => One(M)) /\ (~ c => M = {})
<1>2. Is(kn, m_fallback_known(t))  BY DEF One, m_fallback_known, When
<1>3. Is(~ kn /\ ini, m_fallback_first(t))  BY DEF One, m_fallback_first, When
<1>4. Is(~ kn /\ ~ ini, m_fallback_extend(t))  BY DEF One, m_fallback_extend, When
<1> HIDE DEF kn, ini
<1>5. \/ S = m_fallback_known(t) /\ One(m_fallback_known(t))
      \/ S = m_fallback_first(t) /\ One(m_fallback_first(t))
      \/ S = m_fallback_extend(t) /\ One(m_fallback_extend(t))
  BY <1>1, <1>2, <1>3, <1>4
<1>6. One(S)  BY <1>5
<1> QED  BY <1>6 DEF S

\* While derivation is in order, the first task has one decomposition.
LEMMA DerivingIsForced ==
  ASSUME Deriving
  PROVE  Forced
<1> SUFFICES ASSUME tasks # <<>> PROVE Cardinality(Methods(Head(tasks))) = 1  BY DEF Forced
<1>1. Head(tasks).task \in {"from", "next", "via", "fallback", "step", "fall back", "extend"}  BY FirstTask
<1>2. One(Methods(Head(tasks)))
  <2> DEFINE t == Head(tasks)
  <2>1. CASE t.task = "from"  BY <2>1, OneToWalk
  <2>2. CASE t.task = "next"  BY <2>2, OneToDerive
  <2>3. CASE t.task = "fallback"  BY <2>3, OneToFall
  <2>4. CASE t.task \in {"via", "step", "fall back", "extend"}  BY <2>4, OneToConclude DEF Concludes
  <2> QED  BY <1>1, <2>1, <2>2, <2>3, <2>4
<1>3. PICK m : Methods(Head(tasks)) = {m}  BY <1>2 DEF One
<1>4. Cardinality({m}) = 1  BY FS_Singleton
<1> QED  BY <1>3, <1>4

---------------------------------------------------------------------------
(*************************************************************************)
(* The machine, simulated beside the bits that have arrived.             *)
(*************************************************************************)
\* x, held by the bit c arriving k times more.
Held(x, c, k) == x \o [j \in 1 .. k |-> c]

\* The bits a detector has yet to match: none after a match that may not overlap.
Counting(p, w) == IF p.kind = "mealy" /\ ~ p.overlapping /\ IsSuffix(p.pattern, w) THEN <<>> ELSE w

\* A detector is in the longest state that what it has yet to match ends with,
\* and shows whether the bits end with the pattern.
Detecting(p, d, x, w, s) ==
  /\ Longest(d.states, Counting(p, w), x)
  /\ IsSuffix(p.pattern, w) <=> "detected" \in s

\* What the state knows of the bits, it knows of them with one bit more.
LEMMA LongestFollows ==
  ASSUME NEW S, Closed(S), NEW w \in Seq(Bits), NEW x, Longest(S, w, x), NEW b \in Bits,
         NEW y, Longest(S, Append(x, b), y)
  PROVE  Longest(S, Append(w, b), y)
<1>1. x \in S /\ x \in Seq(Bits) /\ \A q \in S : q \in Seq(Bits)  BY DEF Longest, Closed
<1>2. \A q \in S : IsSuffix(q, w) <=> IsSuffix(q, x)
  <2> TAKE q \in S
  <2>1. IsSuffix(q, w) => IsSuffix(q, x)  BY DEF Longest
  <2>2. ASSUME IsSuffix(q, x) PROVE IsSuffix(q, w)
    <3>1. IsSuffix(x, w)  BY DEF Longest
    <3> QED  BY <1>1, <2>2, <3>1, SuffixTrans
  <2> QED  BY <2>1, <2>2
<1>3. \A q \in S : IsSuffix(q, Append(x, b)) <=> IsSuffix(q, Append(w, b))  BY <1>1, <1>2, SameEnds
<1> QED  BY <1>3, SameLongest

\* A Mealy machine completes the pattern on the bit that completes it.
LEMMA MealyHit ==
  ASSUME NEW p, NEW d, Closed(d.states), Detects(p, d), p.kind = "mealy",
         NEW v \in Seq(Bits), NEW x, Longest(d.states, v, x), NEW b \in Bits
  PROVE  IsSuffix(p.pattern, Append(v, b)) <=> Append(x, b) = p.pattern
<1> DEFINE P == p.pattern
<1>1. /\ P \in Seq(Bits) /\ P # <<>> /\ Front(P) \in d.states /\ \A y \in d.states : Len(y) < Len(P)
      /\ x \in d.states /\ x \in Seq(Bits)
  BY DEF Detects, Longest, Closed
<1> HIDE DEF P
<1>2. /\ Front(P) \in Seq(Bits) /\ Last(P) \in Bits /\ P = Append(Front(P), Last(P))
      /\ Len(P) \in Nat /\ Len(Front(P)) = Len(P) - 1
  BY <1>1, FrontLast
<1>3. IsSuffix(P, Append(v, b)) <=> Last(P) = b /\ IsSuffix(Front(P), v)
  <2> DEFINE f == Front(P)
             l == Last(P)
  <2>1. f \in Seq(Bits) /\ l \in Bits /\ P = Append(f, l)  BY <1>2
  <2> HIDE DEF f, l
  <2>2. IsSuffix(Append(f, l), Append(v, b)) <=> l = b /\ IsSuffix(f, v)  BY <2>1, SuffixAppend
  <2>3. IsSuffix(P, Append(v, b)) <=> l = b /\ IsSuffix(f, v)  BY <2>1, <2>2
  <2> QED  BY <2>3 DEF f, l
<1>4. IsSuffix(Front(P), v) <=> x = Front(P)
  <2>1. x = Front(P) => IsSuffix(Front(P), v)  BY DEF Longest
  <2>2. ASSUME IsSuffix(Front(P), v) PROVE x = Front(P)
    <3>1. IsSuffix(Front(P), x)  BY <1>1, <2>2 DEF Longest
    <3>2. Len(Front(P)) <= Len(x)  BY <1>1, <1>2, <3>1, SuffixLen
    <3>3. Len(x) < Len(P) /\ Len(x) \in Nat  BY <1>1, LenProperties
    <3>4. Len(Front(P)) = Len(x)  BY <1>2, <3>2, <3>3
    <3> QED  BY <1>1, <1>2, <3>1, <3>4, SuffixLen
  <2> QED  BY <2>1, <2>2
<1>5. Append(x, b) = P <=> x = Front(P) /\ b = Last(P)
  <2>1. Front(Append(x, b)) = x /\ Last(Append(x, b)) = b  BY <1>1, FrontOfAppend
  <2> QED  BY <1>2, <2>1
<1>6. IsSuffix(P, Append(v, b)) <=> Append(x, b) = P  BY <1>3, <1>4, <1>5
<1> QED  BY <1>6 DEF P

\* A Moore machine is in the pattern's state when the bits end with the pattern.
LEMMA MooreHit ==
  ASSUME NEW p, NEW d, Closed(d.states), Detects(p, d), p.kind = "moore",
         NEW v \in Seq(Bits), NEW x, Longest(d.states, v, x)
  PROVE  IsSuffix(p.pattern, v) <=> x = p.pattern
<1>1. /\ p.pattern \in Seq(Bits) /\ p.pattern \in d.states /\ x \in d.states /\ x \in Seq(Bits)
      /\ Len(x) <= Len(p.pattern) /\ Len(x) \in Nat /\ Len(p.pattern) \in Nat
  BY LenProperties DEF Detects, Longest, Closed
<1>2. x = p.pattern => IsSuffix(p.pattern, v)  BY DEF Longest
<1>3. ASSUME IsSuffix(p.pattern, v) PROVE x = p.pattern
  <2>1. IsSuffix(p.pattern, x)  BY <1>1, <1>3 DEF Longest
  <2>2. Len(p.pattern) <= Len(x)  BY <1>1, <2>1, SuffixLen
  <2> QED  BY <1>1, <2>1, <2>2, SuffixLen
<1> QED  BY <1>2, <1>3

\* A detector clocked with one bit more.
LEMMA DetectorClocked ==
  ASSUME NEW p, NEW d, Closed(d.states), Detects(p, d),
         NEW w \in Seq(Bits), NEW x, Longest(d.states, Counting(p, w), x), NEW b \in Bits,
         NEW y, Goal(p, d, x, b, y),
         NEW s, IF p.kind = "mealy" THEN "detected" \in s <=> Append(x, b) = p.pattern
                                    ELSE "detected" \in s <=> y = p.pattern,
         NEW w2, w2 = Append(IF IsSuffix(p.pattern, w) /\ ~ p.overlapping THEN <<>> ELSE w, b)
  PROVE  Detecting(p, d, y, w2, s) /\ w2 \in Seq(Bits)
<1> DEFINE v == IF IsSuffix(p.pattern, w) /\ ~ p.overlapping THEN <<>> ELSE w
<1>1. /\ v \in Seq(Bits) /\ w2 = Append(v, b) /\ w2 \in Seq(Bits) /\ <<x, b>> \notin d.holds
      /\ <<>> \in d.states /\ p.kind \in {"mealy", "moore"} /\ x \in Seq(Bits)
      /\ p.kind = "moore" <=> p.kind # "mealy"
  <2>1. v \in Seq(Bits)  BY EmptySeq
  <2>2. w2 = Append(v, b)  OBVIOUS
  <2>3. w2 \in Seq(Bits)  BY <2>1, <2>2, AppendProperties
  <2>4. p.kind \in {"mealy", "moore"} /\ <<x, b>> \notin d.holds  BY DEF Detects
  <2>5. <<>> \in d.states /\ x \in Seq(Bits)  BY DEF Closed, Longest
  <2>6. "moore" # "mealy"  OBVIOUS
  <2> HIDE DEF v
  <2> QED  BY <2>1, <2>2, <2>3, <2>4, <2>5, <2>6
<1>2. CASE p.kind = "mealy"
  <2>1. Counting(p, w) = v  BY <1>2 DEF Counting
  <2> HIDE DEF v
  <2>2. Longest(d.states, v, x)  BY <2>1
  <2>3. IsSuffix(p.pattern, w2) <=> Append(x, b) = p.pattern
    <3>1. v \in Seq(Bits)  BY <1>1
    <3>2. IsSuffix(p.pattern, Append(v, b)) <=> Append(x, b) = p.pattern  BY <1>2, <2>2, <3>1, MealyHit
    <3> QED  BY <1>1, <3>2
  <2>4. Longest(d.states, Counting(p, w2), y)
    <3>1. CASE ~ p.overlapping /\ Append(x, b) = p.pattern
      <4>1. y = <<>>  BY <1>1, <1>2, <3>1 DEF Goal
      <4>2. Counting(p, w2) = <<>>  BY <1>2, <2>3, <3>1 DEF Counting
      <4>3. Longest(d.states, <<>>, <<>>)  BY <1>1, LongestItself
      <4> QED  BY <4>1, <4>2, <4>3
    <3>2. CASE ~ (~ p.overlapping /\ Append(x, b) = p.pattern)
      <4>1. Longest(d.states, Append(x, b), y)  BY <1>1, <1>2, <3>2 DEF Goal
      <4>2. Counting(p, w2) = w2  BY <2>3, <3>2 DEF Counting
      <4>3. Longest(d.states, Append(v, b), y)  BY <1>1, <2>2, <4>1, LongestFollows
      <4> QED  BY <1>1, <4>2, <4>3
    <3> QED  BY <3>1, <3>2
  <2> QED  BY <1>1, <1>2, <2>3, <2>4 DEF Detecting
<1>3. CASE p.kind = "moore"
  <2>0. p.kind # "mealy"  BY <1>1, <1>3
  <2>1. Counting(p, w) = w /\ Counting(p, w2) = w2  BY <2>0 DEF Counting
  <2>2. Longest(d.states, w, x)  BY <2>1
  <2>3. IsSuffix(p.pattern, w) <=> x = p.pattern  BY <1>3, <2>2, MooreHit
  <2>4. Longest(d.states, w2, y)
    <3>1. CASE ~ p.overlapping /\ x = p.pattern
      <4>1. v = <<>>  BY <2>3, <3>1
      <4>2. Longest(d.states, Append(<<>>, b), y)  BY <1>1, <1>3, <2>0, <3>1 DEF Goal
      <4> QED  BY <1>1, <4>1, <4>2
    <3>2. CASE ~ (~ p.overlapping /\ x = p.pattern)
      <4>1. v = w  BY <2>3, <3>2
      <4>2. Longest(d.states, Append(x, b), y)  BY <1>1, <2>0, <3>2 DEF Goal
      <4> HIDE DEF v
      <4>3. Longest(d.states, Append(w, b), y)  BY <2>2, <4>2, LongestFollows
      <4> QED  BY <1>1, <4>1, <4>3
    <3> QED  BY <3>1, <3>2
  <2> HIDE DEF v
  <2>5. IsSuffix(p.pattern, w2) <=> y = p.pattern  BY <1>1, <1>3, <2>4, MooreHit
  <2> QED  BY <1>1, <2>0, <2>1, <2>4, <2>5 DEF Detecting
<1> QED  BY <1>1, <1>2, <1>3

\* A detector before the first bit.
LEMMA DetectorReset ==
  ASSUME NEW p, NEW d, Closed(d.states), Detects(p, d), NEW s, "detected" \notin s
  PROVE  Detecting(p, d, <<>>, <<>>, s)
<1>1. p.pattern \in Seq(Bits) /\ p.pattern # <<>> /\ <<>> \in d.states /\ <<>> \in Seq(Bits)
  BY DEF Detects, Closed
<1>2. ~ IsSuffix(p.pattern, <<>>)
  <2>1. IsSuffix(<<>>, p.pattern)  BY <1>1, SuffixRefl
  <2> QED  BY <1>1, <2>1, SuffixBoth
<1>3. Counting(p, <<>>) = <<>>  BY DEF Counting
<1>4. Longest(d.states, <<>>, <<>>)  BY <1>1, LongestItself
<1> QED  BY <1>2, <1>3, <1>4 DEF Detecting

\* A recogniser knows of the bits what its state knows of itself; the bits end
\* with its state, or hold it; and what they hold is its state.
Remembering(d, x, w) ==
  /\ \A q \in d.states \ {x} : IsSuffix(q, w) <=> IsSuffix(q, x)
  /\ \/ IsSuffix(x, w)
     \/ \E c \in Bits, k \in Nat : k >= 1 /\ <<x, c>> \in d.holds /\ IsSuffix(Held(x, c, k), w)
  /\ \A h, c, k : k \in Nat /\ k >= 1 /\ <<h, c>> \in d.holds /\ IsSuffix(Held(h, c, k), w) => x = h

\* HeldApart, a bit at a time.
HeldQuiet(p, d) ==
  \A x, c : <<x, c>> \in d.holds =>
    /\ \A b \in Bits : Append(x, b) \notin d.states
    /\ \A o : <<o, x>> \in d.asserted => <<o, c>> \in p.keeps
HeldAlone(d) ==
  \A x, c : <<x, c>> \in d.holds =>
    \A q \in d.states \ {x} : IsSuffix(q, Append(x, c)) <=> IsSuffix(q, x)

\* A held state, a bit at a time.
LEMMA HeldGrows ==
  ASSUME NEW x \in Seq(Bits), NEW c \in Bits, NEW k \in Nat
  PROVE  /\ Held(x, c, k) \in Seq(Bits) /\ Len(Held(x, c, k)) = Len(x) + k
         /\ Held(x, c, k + 1) = Append(Held(x, c, k), c)
         /\ Held(x, c, 0) = x /\ Held(x, c, 1) = Append(x, c)
<1>1. ASSUME NEW n \in Nat
      PROVE  /\ Held(x, c, n) \in Seq(Bits) /\ Len(Held(x, c, n)) = Len(x) + n
             /\ \A i \in 1 .. Len(x) + n : Held(x, c, n)[i] = IF i <= Len(x) THEN x[i] ELSE c
  <2> DEFINE r == [j \in 1 .. n |-> c]
  <2>1. r \in Seq(Bits) /\ Len(r) = n /\ \A j \in 1 .. n : r[j] = c  OBVIOUS
  <2> HIDE DEF r
  <2>2. /\ x \o r \in Seq(Bits) /\ Len(x \o r) = Len(x) + n
        /\ \A i \in 1 .. Len(x) + n : (x \o r)[i] = IF i <= Len(x) THEN x[i] ELSE r[i - Len(x)]
    BY <2>1, ConcatProperties
  <2>3. \A i \in 1 .. Len(x) + n : ~ i <= Len(x) => i - Len(x) \in 1 .. n  BY LenProperties
  <2>4. \A i \in 1 .. Len(x) + n : (x \o r)[i] = IF i <= Len(x) THEN x[i] ELSE c  BY <2>1, <2>2, <2>3
  <2>5. Held(x, c, n) = x \o r  BY DEF Held, r
  <2> QED  BY <2>2, <2>4, <2>5
<1>0. Len(x) \in Nat  BY LenProperties
<1>2. ASSUME NEW n \in Nat PROVE Held(x, c, n + 1) = Append(Held(x, c, n), c)
  <2> DEFINE u == Held(x, c, n)
             v == Held(x, c, n + 1)
  <2>1. /\ u \in Seq(Bits) /\ Len(u) = Len(x) + n
        /\ \A i \in 1 .. Len(x) + n : u[i] = IF i <= Len(x) THEN x[i] ELSE c
    BY <1>1
  <2>0. n + 1 \in Nat  OBVIOUS
  <2>2. /\ v \in Seq(Bits) /\ Len(v) = Len(x) + (n + 1)
        /\ \A i \in 1 .. Len(x) + (n + 1) : v[i] = IF i <= Len(x) THEN x[i] ELSE c
    BY <1>1, <2>0
  <2> HIDE DEF u, v
  <2>3. /\ Append(u, c) \in Seq(Bits) /\ Len(Append(u, c)) = Len(u) + 1
        /\ \A i \in 1 .. Len(u) : Append(u, c)[i] = u[i]
        /\ Append(u, c)[Len(u) + 1] = c
    BY <2>1, AppendProperties
  <2>4. \A i \in 1 .. Len(v) : v[i] = Append(u, c)[i]
    <3> TAKE i \in 1 .. Len(v)
    <3>1. CASE i <= Len(u)
      <4>1. i \in 1 .. Len(u) /\ i \in 1 .. Len(x) + n  BY <1>0, <2>1, <2>2, <3>1
      <4> QED  BY <2>1, <2>2, <2>3, <4>1
    <3>2. CASE ~ i <= Len(u)
      <4>1. i = Len(u) + 1 /\ ~ i <= Len(x)  BY <1>0, <2>1, <2>2, <3>2
      <4> QED  BY <2>2, <2>3, <4>1
    <3> QED  BY <3>1, <3>2
  <2>5. Len(v) = Len(Append(u, c))  BY <1>0, <2>1, <2>2, <2>3
  <2> DEFINE a == Append(u, c)
  <2> HIDE DEF a
  <2>6. v = a
    <3>1. a \in Seq(Bits) /\ Len(v) = Len(a) /\ \A i \in 1 .. Len(v) : v[i] = a[i]  BY <2>3, <2>4, <2>5 DEF a
    <3> QED  BY <2>2, <3>1, SeqEqual
  <2> QED  BY <2>6 DEF a, u, v
<1>3. Held(x, c, 0) = x
  <2> DEFINE u == Held(x, c, 0)
  <2>1. /\ u \in Seq(Bits) /\ Len(u) = Len(x) + 0
        /\ \A i \in 1 .. Len(x) + 0 : u[i] = IF i <= Len(x) THEN x[i] ELSE c
    BY <1>1
  <2> HIDE DEF u
  <2>2. Len(u) = Len(x) /\ \A i \in 1 .. Len(u) : u[i] = x[i]  BY <1>0, <2>1
  <2>3. u = x  BY <2>1, <2>2, SeqEqual
  <2> QED  BY <2>3 DEF u
<1>4. Held(x, c, 1) = Append(x, c)
  <2>1. Held(x, c, 0 + 1) = Append(Held(x, c, 0), c)  BY <1>2
  <2>2. 0 + 1 = 1  OBVIOUS
  <2> QED  BY <1>3, <2>1, <2>2
<1> QED  BY <1>1, <1>2, <1>3, <1>4

\* Held states end no other.
LEMMA HeldStates ==
  ASSUME NEW p, NEW d, Closed(d.states), Recognises_as(p, d), NEW x, NEW c, <<x, c>> \in d.holds
  PROVE  /\ x \in d.states /\ x \in Seq(Bits) /\ c \in Bits /\ x # <<>>
         /\ \A z \in d.states : IsSuffix(x, z) => z = x
<1>1. x \in SequencesOf(p) /\ c \in Bits
  <2>1. <<x, c>> \in SequencesOf(p) \X Bits  BY DEF Recognises_as
  <2> QED  BY <2>1
<1> QED  BY <1>1 DEF Recognises_as, Closed

\* The bits that hold a state are no part of any.
LEMMA HeldNotInside ==
  ASSUME NEW p, NEW d, Closed(d.states), Recognises_as(p, d), HeldQuiet(p, d)
  PROVE  \A k \in Nat, x \in d.states : \A h, c : k >= 1 /\ <<h, c>> \in d.holds => ~ IsSuffix(Held(h, c, k), x)
<1> DEFINE Inside(k) == \E x \in d.states : \E h, c : <<h, c>> \in d.holds /\ IsSuffix(Held(h, c, k), x)
           T == {k \in Nat : k >= 1 /\ Inside(k)}
<1>1. T = {}
  <2> SUFFICES ASSUME T # {} PROVE FALSE  OBVIOUS
  <2>1. T \subseteq Nat  OBVIOUS
  <2>2. PICK k \in T : \A n \in T : k <= n
    <3> HIDE DEF T
    <3> QED  BY <2>1, Least
  <2>3. k \in Nat /\ k >= 1 /\ Inside(k)  OBVIOUS
  <2>13. PICK x \in d.states : \E g, e : <<g, e>> \in d.holds /\ IsSuffix(Held(g, e, k), x)  BY <2>3
  <2>4. PICK h, c : <<h, c>> \in d.holds /\ IsSuffix(Held(h, c, k), x)  BY <2>13
  <2>5. /\ h \in d.states /\ h \in Seq(Bits) /\ c \in Bits /\ \A z \in d.states : IsSuffix(h, z) => z = h
        /\ \A b \in Bits : Append(h, b) \notin d.states
    BY <2>4, HeldStates DEF HeldQuiet
  <2> DEFINE m == k - 1
             u == Held(h, c, m)
  <2>6. m \in Nat /\ m + 1 = k /\ m < k  BY <2>3
  <2> HIDE DEF m
  <2>7. u \in Seq(Bits) /\ Held(h, c, k) = Append(u, c) /\ Held(h, c, 0) = h
    <3>1. m \in Nat /\ h \in Seq(Bits) /\ c \in Bits  BY <2>5, <2>6
    <3> HIDE DEF u, T, Inside
    <3>2. Held(h, c, m) \in Seq(Bits) /\ Held(h, c, m + 1) = Append(Held(h, c, m), c) /\ Held(h, c, 0) = h
      BY <3>1, HeldGrows
    <3> QED  BY <2>6, <3>2 DEF u
  <2>0. ~ Inside(m) \/ m = 0
    <3>1. m \notin T
      <4> HIDE DEF T
      <4> QED  BY <2>2, <2>3, <2>6
    <3>2. m >= 1 => ~ Inside(m)  BY <2>6, <3>1
    <3> HIDE DEF Inside
    <3> QED  BY <2>6, <3>2
  <2> HIDE DEF u
  <2>8. x \in Seq(Bits) /\ x # <<>>
    <3>1. x \in Seq(Bits)  BY DEF Closed
    <3>2. IsSuffix(Append(u, c), x)  BY <2>4, <2>7
    <3>3. Len(Append(u, c)) <= Len(x) /\ Len(Append(u, c)) = Len(u) + 1 /\ Len(u) \in Nat
      BY <2>5, <2>7, <3>1, <3>2, SuffixLen, FrontOfAppend, LenProperties
    <3>4. Len(x) # 0  BY <3>1, <3>3, LenProperties
    <3> QED  BY <3>1, <3>4, EmptySeq
  <2>9. Front(x) \in d.states /\ Last(x) \in Bits /\ x = Append(Front(x), Last(x)) /\ Front(x) \in Seq(Bits)
    BY <2>8, FrontLast DEF Closed
  <2>10. IsSuffix(u, Front(x))
    <3> DEFINE f == Front(x)
               l == Last(x)
    <3>1. f \in Seq(Bits) /\ l \in Bits /\ IsSuffix(Append(u, c), Append(f, l))  BY <2>4, <2>7, <2>9
    <3> HIDE DEF f, l
    <3>2. IsSuffix(u, f)  BY <2>5, <2>7, <3>1, SuffixAppend
    <3> QED  BY <3>2 DEF f
  <2>11. CASE m = 0
    <3>1. u = h  BY <2>7, <2>11 DEF u
    <3>2. Front(x) = h  BY <2>5, <2>9, <2>10, <3>1
    <3> QED  BY <2>5, <2>9, <3>2
  <2>12. CASE ~ Inside(m)  BY <2>4, <2>9, <2>10, <2>12 DEF u
  <2> QED  BY <2>0, <2>11, <2>12
<1> QED  BY <1>1

\* There is a state of one bit.
LEMMA ShortestState ==
  ASSUME NEW S, Closed(S), NEW x \in S, x # <<>>
  PROVE  \E a \in Bits : Append(<<>>, a) \in S
<1> DEFINE T == {Len(z) : z \in {y \in S : y # <<>>}}
<1>1. T \subseteq Nat /\ T # {}
  <2>1. \A y \in S : Len(y) \in Nat  BY LenProperties DEF Closed
  <2> QED  BY <2>1
<1>2. PICK n \in T : \A k \in T : n <= k
  <2> HIDE DEF T
  <2> QED  BY <1>1, Least
<1>3. PICK z \in S : z # <<>> /\ Len(z) = n  OBVIOUS
<1>4. /\ Front(z) \in S /\ Last(z) \in Bits /\ z = Append(Front(z), Last(z)) /\ Len(Front(z)) = Len(z) - 1
      /\ Len(z) \in Nat
  BY <1>3, FrontLast DEF Closed
<1>5. Front(z) = <<>>
  <2>1. ASSUME Front(z) # <<>> PROVE FALSE
    <3>1. Len(Front(z)) \in T  BY <1>4, <2>1
    <3>2. n <= Len(Front(z))  BY <1>2, <3>1
    <3> QED  BY <1>3, <1>4, <3>2
  <2> QED  BY <2>1
<1> QED  BY <1>4, <1>5

\* A state held on either bit has but one.
LEMMA HeldOnBoth ==
  ASSUME NEW p, NEW d, Closed(d.states), Recognises_as(p, d), HeldAlone(d),
         NEW x, NEW b, NEW c, <<x, b>> \in d.holds, <<x, c>> \in d.holds, b # c
  PROVE  x = Append(<<>>, b) \/ x = Append(<<>>, c)
<1>1. x \in d.states /\ x \in Seq(Bits) /\ x # <<>> /\ b \in Bits /\ c \in Bits  BY HeldStates
<1>2. PICK a \in Bits : Append(<<>>, a) \in d.states  BY <1>1, ShortestState
<1>3. a = b \/ a = c  BY <1>1 DEF Bits
<1> DEFINE z == Append(<<>>, a)
<1>4. z \in d.states  BY <1>2
<1>5. \A e \in Bits : IsSuffix(z, Append(x, e)) <=> a = e
  <2> TAKE e \in Bits
  <2>1. PICK o \in Seq(Bits) : o = <<>> /\ IsSuffix(o, x)  BY <1>1, SuffixRefl, EmptySeq
  <2>2. IsSuffix(Append(o, a), Append(x, e)) <=> a = e /\ IsSuffix(o, x)
    <3> HIDE DEF z
    <3> QED  BY <1>1, SuffixAppend
  <2> QED  BY <2>1, <2>2
<1> HIDE DEF z
<1>6. z # x => (IsSuffix(z, Append(x, b)) <=> IsSuffix(z, Append(x, c)))  BY <1>4 DEF HeldAlone
<1>7. z = x  BY <1>1, <1>3, <1>5, <1>6
<1> QED  BY <1>3, <1>7 DEF z

\* A recogniser clocked with one bit more.
LEMMA RecogniserClocked ==
  ASSUME NEW p, NEW d, Closed(d.states), Recognises_as(p, d), HeldQuiet(p, d), HeldAlone(d),
         NEW w \in Seq(Bits), NEW x \in d.states, Remembering(d, x, w), NEW b \in Bits,
         NEW y \in d.states, Goal(p, d, x, b, y)
  PROVE  Remembering(d, y, Append(w, b))
<1> DEFINE v == Append(w, b)
<1>1. x \in Seq(Bits) /\ y \in Seq(Bits) /\ v \in Seq(Bits) /\ IsSuffix(x, x) /\ \A q \in d.states : q \in Seq(Bits)
  BY AppendProperties, SuffixRefl DEF Closed
<1>2. \A q \in d.states : Append(q, b) \in d.states => (IsSuffix(q, w) <=> IsSuffix(q, x))
  <2> TAKE q \in d.states
  <2> HAVE Append(q, b) \in d.states
  <2>1. CASE q # x  BY <2>1 DEF Remembering
  <2>2. CASE q = x
    <3>1. \A c : <<x, c>> \notin d.holds  BY <2>2 DEF HeldQuiet
    <3>2. IsSuffix(x, w)  BY <3>1 DEF Remembering
    <3> QED  BY <1>1, <2>2, <3>2
  <2> QED  BY <2>1, <2>2
<1>3. \A q \in d.states : IsSuffix(q, v) <=> IsSuffix(q, Append(x, b))
  BY <1>1, <1>2, SameEnds
<1>4. ASSUME NEW h, NEW c, NEW k \in Nat, k >= 1, <<h, c>> \in d.holds, IsSuffix(Held(h, c, k), v)
      PROVE  x = h /\ c = b
  <2>1. h \in d.states /\ h \in Seq(Bits) /\ c \in Bits /\ \A z \in d.states : IsSuffix(h, z) => z = h
    BY <1>4, HeldStates
  <2>2. PICK m \in Nat : m + 1 = k
    <3>1. k - 1 \in Nat /\ (k - 1) + 1 = k  BY <1>4
    <3> QED  BY <3>1
  <2> DEFINE u == Held(h, c, m)
  <2>3. u \in Seq(Bits) /\ Held(h, c, m + 1) = Append(u, c) /\ (m = 0 => u = h)
    <3>1. u \in Seq(Bits) /\ Held(h, c, m + 1) = Append(u, c) /\ Held(h, c, 0) = h  BY <2>1, HeldGrows
    <3> QED  BY <3>1
  <2>4. IsSuffix(Append(u, c), Append(w, b))  BY <1>4, <2>2, <2>3
  <2>5. c = b /\ IsSuffix(u, w)
    <3> HIDE DEF u
    <3> QED  BY <2>1, <2>3, <2>4, SuffixAppend
  <2>6. CASE m = 0
    <3>1. IsSuffix(h, w)  BY <2>3, <2>5, <2>6
    <3>2. h # x => IsSuffix(h, x)  BY <2>1, <3>1 DEF Remembering
    <3> QED  BY <2>1, <2>5, <3>2
  <2>7. CASE m # 0
    <3>1. m >= 1  BY <2>7
    <3> QED  BY <1>4, <2>5, <3>1 DEF Remembering
  <2> QED  BY <2>6, <2>7
<1> HIDE DEF v
<1>5. CASE <<x, b>> \in d.holds
  <2>1. y = x  BY <1>5 DEF Goal
  <2>2. \A q \in d.states \ {y} : IsSuffix(q, v) <=> IsSuffix(q, y)  BY <1>3, <1>5, <2>1 DEF HeldAlone
  <2>3. \A h, c, k : k \in Nat /\ k >= 1 /\ <<h, c>> \in d.holds /\ IsSuffix(Held(h, c, k), v) => y = h
    BY <1>4, <2>1
  <2>4. ASSUME IsSuffix(x, w)
        PROVE  \E c \in Bits, k \in Nat : k >= 1 /\ <<x, c>> \in d.holds /\ IsSuffix(Held(x, c, k), v)
    <3>1. IsSuffix(Append(x, b), v)  BY <1>1, <2>4, SuffixAppend DEF v
    <3>2. Held(x, b, 1) = Append(x, b)
      <4>1. 1 \in Nat  OBVIOUS
      <4> QED  BY <1>1, <4>1, HeldGrows
    <3>3. 1 \in Nat /\ 1 >= 1  OBVIOUS
    <3>4. IsSuffix(Held(x, b, 1), v)  BY <3>1, <3>2
    <3> QED  BY <1>5, <3>3, <3>4
  <2>5. ASSUME NEW c \in Bits, NEW k \in Nat, k >= 1, <<x, c>> \in d.holds, IsSuffix(Held(x, c, k), w)
        PROVE  \/ IsSuffix(x, v)
               \/ \E e \in Bits, n \in Nat : n >= 1 /\ <<x, e>> \in d.holds /\ IsSuffix(Held(x, e, n), v)
    <3>1. CASE c = b
      <4> DEFINE u == Held(x, b, k)
      <4>1. u \in Seq(Bits) /\ Held(x, b, k + 1) = Append(u, b)  BY <1>1, HeldGrows
      <4>2. IsSuffix(u, w)  BY <2>5, <3>1
      <4> HIDE DEF u
      <4>3. IsSuffix(Append(u, b), v)  BY <4>1, <4>2, SuffixAppend DEF v
      <4>4. k + 1 \in Nat /\ k + 1 >= 1  BY <2>5
      <4>5. IsSuffix(Held(x, b, k + 1), v)  BY <4>1, <4>3
      <4> QED  BY <1>5, <4>4, <4>5
    <3>2. CASE c # b
      <4>1. x = Append(<<>>, b) \/ x = Append(<<>>, c)  BY <1>5, <2>5, <3>2, HeldOnBoth
      <4>0. PICK o \in Seq(Bits) : o = <<>> /\ \A t \in Seq(Bits) : IsSuffix(o, t)  BY SuffixRefl, EmptySeq
      <4>2. CASE x = Append(<<>>, b)
        <5>1. IsSuffix(Append(o, b), Append(w, b))  BY <4>0, SuffixAppend
        <5> QED  BY <4>0, <4>2, <5>1 DEF v
      <4>3. CASE x = Append(<<>>, c)
        <5>1. PICK m \in Nat : m + 1 = k
          <6>1. k - 1 \in Nat /\ (k - 1) + 1 = k  BY <2>5
          <6> QED  BY <6>1
        <5> DEFINE u == Held(x, c, m)
        <5>2. u \in Seq(Bits) /\ Held(x, c, m + 1) = Append(u, c)  BY <1>1, HeldGrows
        <5>3. IsSuffix(Append(u, c), w)  BY <2>5, <5>1, <5>2
        <5> HIDE DEF u
        <5>4. IsSuffix(Append(o, c), Append(u, c)) /\ Append(u, c) \in Seq(Bits)
          BY <4>0, <5>2, SuffixAppend, AppendProperties
        <5>5. IsSuffix(x, Append(u, c))  BY <4>0, <4>3, <5>4
        <5>6. IsSuffix(x, w)  BY <1>1, <5>3, <5>4, <5>5, SuffixTrans
        <5> QED  BY <2>4, <5>6
      <4> QED  BY <4>1, <4>2, <4>3
    <3> QED  BY <3>1, <3>2
  <2>6. \/ IsSuffix(x, v)
        \/ \E e \in Bits, n \in Nat : n >= 1 /\ <<x, e>> \in d.holds /\ IsSuffix(Held(x, e, n), v)
    BY <2>4, <2>5 DEF Remembering
  <2>7. Remembering(d, y, v)  BY <2>1, <2>2, <2>3, <2>6 DEF Remembering
  <2> QED  BY <2>7 DEF v
<1>6. CASE <<x, b>> \notin d.holds
  <2>1. Longest(d.states, Append(x, b), y)
    <3>1. p.kind = "recogniser"  BY DEF Recognises_as
    <3>2. p.kind # "mealy" /\ p.kind # "moore"  BY <3>1
    <3> QED  BY <1>6, <3>2 DEF Goal
  <2>2. IsSuffix(y, v)  BY <1>3, <2>1 DEF Longest
  <2>3. \A q \in d.states \ {y} : IsSuffix(q, v) <=> IsSuffix(q, y)
    <3> TAKE q \in d.states \ {y}
    <3>1. IsSuffix(q, v) => IsSuffix(q, y)  BY <1>3, <2>1 DEF Longest
    <3>2. IsSuffix(q, y) => IsSuffix(q, v)  BY <1>1, <2>2, SuffixTrans
    <3> QED  BY <3>1, <3>2
  <2>4. \A h, c, k : k \in Nat /\ k >= 1 /\ <<h, c>> \in d.holds /\ IsSuffix(Held(h, c, k), v) => y = h
    BY <1>4, <1>6
  <2>5. Remembering(d, y, v)  BY <2>2, <2>3, <2>4 DEF Remembering
  <2> QED  BY <2>5 DEF v
<1> QED  BY <1>5, <1>6

\* A recogniser before the first bit.
LEMMA RecogniserReset ==
  ASSUME NEW p, NEW d, Closed(d.states), Recognises_as(p, d), HeldQuiet(p, d), NEW x \in d.states
  PROVE  Remembering(d, x, x)
<1>1. IsSuffix(x, x)  BY SuffixRefl DEF Closed
<1>2. \A h, c, k : k \in Nat /\ k >= 1 /\ <<h, c>> \in d.holds => ~ IsSuffix(Held(h, c, k), x)
  BY HeldNotInside
<1> QED  BY <1>1, <1>2 DEF Remembering

\* An output is due after the bits w.
Heard(p, w, o) ==
  \E f \in p.recognises, k \in 0 .. Len(w), b \in Bits :
    /\ f[1] = o
    /\ k > 0 => <<o, b>> \in p.keeps
    /\ IsSuffix(Held(sequence_bits(f[2]), b, k), w)

\* The outputs of the state are the ones that are due.
LEMMA DueInState ==
  ASSUME NEW p, NEW d, Closed(d.states), Recognises_as(p, d), HeldQuiet(p, d),
         NEW w \in Seq(Bits), NEW x \in d.states, Remembering(d, x, w), NEW o
  PROVE  <<o, x>> \in d.asserted <=> Heard(p, w, o)
<1>1. \A f \in p.recognises :
        LET s == sequence_bits(f[2])
        IN s \in d.states /\ s \in Seq(Bits) /\ \A z \in d.states : IsSuffix(s, z) => z = s
  BY DEF Recognises_as, SequencesOf, Closed
<1>0. Len(w) \in Nat /\ 0 \in Bits /\ x \in Seq(Bits)  BY LenProperties DEF Bits, Closed
<1>2. ASSUME <<o, x>> \in d.asserted
      PROVE  \E f \in p.recognises, k \in 0 .. Len(w), b \in Bits :
               /\ f[1] = o
               /\ k > 0 => <<o, b>> \in p.keeps
               /\ IsSuffix(Held(sequence_bits(f[2]), b, k), w)
  <2>1. PICK f \in p.recognises : f[1] = o /\ sequence_bits(f[2]) = x
    <3>1. PICK f \in p.recognises : <<o, x>> = <<f[1], sequence_bits(f[2])>>  BY <1>2 DEF Recognises_as
    <3> QED  BY <3>1
  <2>2. CASE IsSuffix(x, w)
    <3>1. Held(x, 0, 0) = x  BY <1>0, HeldGrows
    <3>2. 0 \in 0 .. Len(w) /\ ~ 0 > 0  BY <1>0
    <3>3. IsSuffix(Held(sequence_bits(f[2]), 0, 0), w)  BY <2>1, <2>2, <3>1
    <3> QED  BY <1>0, <2>1, <3>2, <3>3
  <2>3. ASSUME NEW c \in Bits, NEW k \in Nat, k >= 1, <<x, c>> \in d.holds, IsSuffix(Held(x, c, k), w)
        PROVE  \E g \in p.recognises, n \in 0 .. Len(w), b \in Bits :
                 /\ g[1] = o
                 /\ n > 0 => <<o, b>> \in p.keeps
                 /\ IsSuffix(Held(sequence_bits(g[2]), b, n), w)
    <3>1. <<o, c>> \in p.keeps  BY <1>2, <2>3 DEF HeldQuiet
    <3>2. k \in 0 .. Len(w)
      <4>1. Held(x, c, k) \in Seq(Bits) /\ Len(Held(x, c, k)) = Len(x) + k  BY <1>0, HeldGrows
      <4>2. Len(Held(x, c, k)) <= Len(w)  BY <2>3, <4>1, SuffixLen
      <4>3. Len(x) \in Nat  BY <1>0, LenProperties
      <4> QED  BY <1>0, <4>1, <4>2, <4>3
    <3>3. IsSuffix(Held(sequence_bits(f[2]), c, k), w)  BY <2>1, <2>3
    <3> QED  BY <2>1, <3>1, <3>2, <3>3
  <2> QED  BY <2>2, <2>3 DEF Remembering
<1>3. ASSUME NEW f \in p.recognises, NEW k \in 0 .. Len(w), NEW b \in Bits, f[1] = o,
             k > 0 => <<o, b>> \in p.keeps, IsSuffix(Held(sequence_bits(f[2]), b, k), w)
      PROVE  <<o, x>> \in d.asserted
  <2> DEFINE s == sequence_bits(f[2])
  <2>1. s \in d.states /\ s \in Seq(Bits) /\ \A z \in d.states : IsSuffix(s, z) => z = s  BY <1>1
  <2>2. <<o, s>> \in d.asserted  BY <1>3 DEF Recognises_as
  <2>3. x = s
    <3>1. CASE k = 0
      <4>1. Held(s, b, 0) = s  BY <2>1, HeldGrows
      <4>2. IsSuffix(s, w)  BY <1>3, <3>1, <4>1
      <4> HIDE DEF s
      <4>3. s # x => IsSuffix(s, x)  BY <2>1, <4>2 DEF Remembering
      <4> QED  BY <2>1, <4>3
    <3>2. CASE k # 0
      <4>1. k \in Nat /\ k >= 1 /\ k > 0  BY <1>0, <3>2
      <4>2. <<s, b>> \in d.holds  BY <1>3, <4>1 DEF Recognises_as
      <4> QED  BY <1>3, <4>1, <4>2 DEF Remembering
    <3> QED  BY <3>1, <3>2
  <2> HIDE DEF s
  <2> QED  BY <2>2, <2>3
<1> QED  BY <1>2, <1>3 DEF Heard

\* Once derivation is over, every state listed has its transitions, to states listed.
LEMMA AllKnown ==
  ASSUME Deriving, tasks = <<>>, NEW x \in ToSet(design.listed), NEW b \in Bits
  PROVE  Known(x, b) /\ x \in design.states
<1>1. Promised(design, transition, tasks) /\ design.listed \in Seq(design.states)
  BY DEF Deriving, Derivation, Sound, Lists
<1>2. PICK i \in 1 .. Len(design.listed) : design.listed[i] = x
  <2>1. DOMAIN design.listed = 1 .. Len(design.listed)  BY <1>1, LenProperties
  <2> QED  BY <2>1 DEF ToSet
<1>3. Len(tasks) = 0
  <2>1. PICK e : e = <<>> /\ Len(e) = 0  BY EmptySeq
  <2> QED  BY <2>1
<1>4. K(transition, x, b)
  <2>1. \A j \in 1 .. Len(tasks) : FALSE  BY <1>3
  <2> QED  BY <1>1, <1>2, <2>1 DEF Promised
<1>5. x \in design.states  BY <1>1, <1>2, ElementOfSeq
<1> QED  BY <1>4, <1>5 DEF Known, K

\* The simulated machine goes where the design says.
LEMMA GoesToGoal ==
  ASSUME Deriving, tasks = <<>>, NEW x \in ToSet(design.listed), NEW b \in Bits
  PROVE  /\ Goal(problem, design, x, b, Goes_to(x, b))
         /\ Goes_to(x, b) \in ToSet(design.listed) /\ Goes_to(x, b) \in design.states
<1> DEFINE t == CHOOSE u \in transition : u[1] = x /\ u[2] = b
<1>1. t \in transition /\ t[1] = x /\ t[2] = b  BY AllKnown DEF Known
<1>2. Facts(problem, design, transition, fallback, fires) /\ Stays_in(problem, design, ToSet(design.listed))
  BY DEF Deriving, Derivation, Sound, Lists
<1>3. Goes_to(x, b) = t[3]  BY DEF Goes_to
<1> HIDE DEF t
<1>4. PICK y \in design.states, c \in Bits, z \in design.states : t = <<y, c, z>> /\ Goal(problem, design, y, c, z)
  BY <1>1, <1>2 DEF Facts
<1>5. t[1] = y /\ t[2] = c /\ t[3] = z  BY <1>4
<1>6. Goes_to(x, b) = z /\ Goal(problem, design, x, b, z)  BY <1>1, <1>3, <1>4, <1>5
<1>7. z \in ToSet(design.listed)  BY <1>2, <1>6 DEF Stays_in
<1> QED  BY <1>4, <1>6, <1>7

\* The outputs of the next state, and the one on the way to it.
LEMMA OutputsClocked ==
  ASSUME Deriving, tasks = <<>>, NEW x \in ToSet(design.listed), NEW b \in Bits, NEW y,
         NEW s, s = MooreOutputs(y) \cup When(<<x, b>> \in fires, "detected")
  PROVE  /\ problem.kind = "recogniser" => s = MooreOutputs(y)
         /\ Detects(problem, design) =>
              IF problem.kind = "mealy" THEN "detected" \in s <=> Append(x, b) = problem.pattern
              ELSE "detected" \in s <=> y = problem.pattern
<1>1. <<x, b>> \in fires <=> Completes_in(problem, x, b)
  <2>1. Known(x, b) /\ x \in design.states  BY AllKnown
  <2>2. Facts(problem, design, transition, fallback, fires)  BY DEF Deriving, Derivation
  <2> QED  BY <2>1, <2>2 DEF Facts, Known, K
<1>2. ASSUME problem.kind # "mealy" PROVE s = MooreOutputs(y)
  <2>1. <<x, b>> \notin fires  BY <1>1, <1>2 DEF Completes_in
  <2> QED  BY <2>1 DEF When
<1>3. ASSUME Detects(problem, design), problem.kind = "mealy"
      PROVE  "detected" \in s <=> Append(x, b) = problem.pattern
  <2>1. problem.kind # "moore"  BY <1>3
  <2>2. MooreOutputs(y) = {}  BY <1>3, <2>1 DEF Detects, MooreOutputs
  <2>3. s = When(<<x, b>> \in fires, "detected")  BY <2>2
  <2>4. "detected" \in s <=> <<x, b>> \in fires  BY <2>3 DEF When
  <2> QED  BY <1>1, <1>3, <2>4 DEF Completes_in
<1>4. ASSUME Detects(problem, design), problem.kind # "mealy"
      PROVE  "detected" \in s <=> y = problem.pattern
  <2>1. problem.kind = "moore"  BY <1>4 DEF Detects
  <2>2. design.asserted = {<<"detected", problem.pattern>>}  BY <1>4, <2>1 DEF Detects
  <2>3. "detected" \in MooreOutputs(y) <=> y = problem.pattern
    <3> DEFINE a == <<"detected", problem.pattern>>
    <3>1. a[1] = "detected" /\ a[2] = problem.pattern  OBVIOUS
    <3>2. MooreOutputs(y) = {e[1] : e \in {c \in {a} : c[2] = y}}  BY <2>2 DEF MooreOutputs
    <3> HIDE DEF a
    <3> QED  BY <3>1, <3>2
  <2> QED  BY <1>2, <1>4, <2>3
<1>5. problem.kind = "recogniser" => problem.kind # "mealy"  OBVIOUS
<1> QED  BY <1>2, <1>3, <1>4, <1>5

\* A detector shows nothing before the first bit.
LEMMA OutputsReset ==
  ASSUME Sound(problem, design), Detects(problem, design)
  PROVE  "detected" \notin MooreOutputs(<<>>) /\ design.initial = <<>>
<1>1. design.initial = <<>> /\ problem.pattern # <<>>  BY DEF Detects
<1>2. design.asserted = {} \/ design.asserted = {<<"detected", problem.pattern>>}  BY DEF Detects
<1>3. \A e \in design.asserted : e[2] # <<>>  BY <1>1, <1>2
<1> QED  BY <1>1, <1>3 DEF MooreOutputs

\* What HeldApart says of a single bit more.
LEMMA HeldApartSays ==
  ASSUME Sound(problem, design), Recognises_as(problem, design), HeldApart
  PROVE  HeldQuiet(problem, design) /\ (MaxStream > 0 => HeldAlone(design))
<1>1. ASSUME NEW x, NEW c, <<x, c>> \in design.holds
      PROVE  /\ \A o \in MooreOutputs(x) : <<o, c>> \in problem.keeps
             /\ \A b \in Bits : Append(x, b) \notin design.states
             /\ \A q \in design.states \ {x}, k \in 1 .. MaxStream :
                  IsSuffix(q, Held(x, c, k)) <=> IsSuffix(q, x)
  <2> DEFINE h == <<x, c>>
  <2>1. h[1] = x /\ h[2] = c /\ h \in design.holds  BY <1>1
  <2> HIDE DEF h
  <2> QED  BY <2>1 DEF HeldApart, Held
<1>2. ASSUME NEW x, NEW c, <<x, c>> \in design.holds, NEW o, <<o, x>> \in design.asserted
      PROVE  <<o, c>> \in problem.keeps
  <2> DEFINE e == <<o, x>>
  <2>1. e \in design.asserted /\ e[1] = o /\ e[2] = x  BY <1>2
  <2> HIDE DEF e
  <2>2. o \in MooreOutputs(x)  BY <2>1 DEF MooreOutputs
  <2> QED  BY <1>1, <1>2, <2>2
<1>3. ASSUME MaxStream > 0, NEW x, NEW c, <<x, c>> \in design.holds, NEW q \in design.states \ {x}
      PROVE  IsSuffix(q, Append(x, c)) <=> IsSuffix(q, x)
  <2>1. 1 \in 1 .. MaxStream  BY <1>3, StreamAssumption
  <2>2. x \in Seq(Bits) /\ c \in Bits  BY <1>3, HeldStates DEF Sound
  <2>3. Held(x, c, 1) = Append(x, c)
    <3>1. 1 \in Nat  OBVIOUS
    <3> QED  BY <2>2, <3>1, HeldGrows
  <2>4. IsSuffix(q, Held(x, c, 1)) <=> IsSuffix(q, x)  BY <1>1, <1>3, <2>1
  <2> QED  BY <2>3, <2>4
<1> QED  BY <1>1, <1>2, <1>3 DEF HeldQuiet, HeldAlone

\* 2 ^ n is at least n: a set of n has a subset for each of its elements.
LEMMA PowersReach ==
  ASSUME NEW n \in Nat
  PROVE  2 ^ n \in Nat /\ 2 ^ n >= n
<1> DEFINE S == 1 .. n
           g == [i \in S |-> {i}]
<1>1. IsFiniteSet(S) /\ Cardinality(S) = n
  <2>1. 1 \in Int /\ n \in Int  OBVIOUS
  <2>2. IsFiniteSet(1 .. n) /\ Cardinality(1 .. n) = IF 1 > n THEN 0 ELSE n - 1 + 1  BY <2>1, FS_Interval
  <2> QED  BY <2>2
<1> HIDE DEF S
<1>2. IsFiniteSet(SUBSET S) /\ Cardinality(SUBSET S) = 2 ^ n  BY <1>1, FS_SUBSET
<1>3. Cardinality(SUBSET S) \in Nat  BY <1>2, FS_CardinalityType
<1>4. g \in Injection(S, SUBSET S)
  <2>1. g \in [S -> SUBSET S]  OBVIOUS
  <2>2. \A i, j \in S : g[i] = g[j] => i = j  OBVIOUS
  <2> HIDE DEF g
  <2> QED  BY <2>1, <2>2 DEF Injection, IsInjective
<1>5. Cardinality(S) <= Cardinality(SUBSET S)
  <2> HIDE DEF g
  <2> QED  BY <1>1, <1>2, <1>4, FS_Injection
<1> QED  BY <1>1, <1>2, <1>3, <1>5

\* The width is enough.
LEMMA WidthFits ==
  ASSUME NEW n \in Nat, n >= 1
  PROVE  2 ^ Width(n) >= n /\ 2 ^ Width(n) \in Nat
<1> DEFINE T == {w \in Nat : w >= 1 /\ 2 ^ w >= n}
           Fit(w) == 2 ^ w >= n /\ \A v \in 1 .. w - 1 : 2 ^ v < n
<1>1. \A w \in Nat : 2 ^ w \in Nat  BY PowersReach
<1>2. n \in T  BY PowersReach
<1>3. PICK w \in T : \A v \in T : w <= v
  <2>1. T \subseteq Nat  OBVIOUS
  <2> HIDE DEF T
  <2> QED  BY <1>2, <2>1, Least
<1>4. w <= n /\ w \in Nat /\ w >= 1 /\ 2 ^ w >= n
  <2>1. w <= n  BY <1>2, <1>3
  <2> QED  BY <2>1
<1>5. \A v \in 1 .. w - 1 : 2 ^ v < n
  <2> TAKE v \in 1 .. w - 1
  <2>1. v \in Nat /\ v >= 1 /\ ~ w <= v  BY <1>4
  <2>2. v \notin T  BY <1>3, <2>1
  <2>3. ~ 2 ^ v >= n /\ 2 ^ v \in Nat  BY <1>1, <2>1, <2>2
  <2> QED  BY <2>3
<1>6. w \in 1 .. n + 1 /\ Fit(w)  BY <1>4, <1>5
<1>7. Width(n) = CHOOSE u \in 1 .. n + 1 : Fit(u)  BY DEF Width
<1> HIDE DEF Fit
<1>8. Width(n) \in 1 .. n + 1 /\ Fit(Width(n))  BY <1>6, <1>7
<1>9. 2 ^ Width(n) >= n  BY <1>8 DEF Fit
<1> QED  BY <1>1, <1>8, <1>9

\* The codes of the states listed differ and fit the register.
LEMMA CodesFit ==
  ASSUME NEW p, NEW d, Sound(p, d)
  PROVE  LET code == d.encoding.code
         IN /\ \A x \in ToSet(d.listed) : code[x] < 2 ^ d.encoding.width
            /\ \A x, y \in ToSet(d.listed) : code[x] = code[y] => x = y
<1> DEFINE L == d.listed
           n == Len(L)
           code == d.encoding.code
<1>1. /\ L \in Seq(d.states) /\ n \in Nat /\ n >= 1 /\ DOMAIN L = 1 .. n /\ d.encoding = encoding(L)
  <2>1. L \in Seq(d.states) /\ L # <<>> /\ d.encoding = encoding(L)  BY DEF Sound, Lists
  <2>2. n \in Nat /\ n # 0 /\ DOMAIN L = 1 .. n  BY <2>1, EmptySeq, LenProperties
  <2> QED  BY <2>1, <2>2
<1>2. d.encoding.width = Width(n) /\ code = [s \in ToSet(L) |-> CHOOSE k \in 0 .. n - 1 : L[k + 1] = s]
  BY <1>1 DEF encoding
<1> HIDE DEF code, n, L
<1>3. \A x \in ToSet(L) : code[x] \in 0 .. n - 1 /\ L[code[x] + 1] = x
  <2> TAKE x \in ToSet(L)
  <2>1. PICK i \in 1 .. n : L[i] = x  BY <1>1 DEF ToSet
  <2>2. i - 1 \in 0 .. n - 1 /\ L[(i - 1) + 1] = x  BY <1>1, <2>1
  <2>3. code[x] = CHOOSE k \in 0 .. n - 1 : L[k + 1] = x  BY <1>2
  <2> QED  BY <2>2, <2>3
<1>4. 2 ^ d.encoding.width >= n /\ 2 ^ d.encoding.width \in Nat  BY <1>1, <1>2, WidthFits
<1>5. \A x \in ToSet(L) : code[x] < 2 ^ d.encoding.width  BY <1>1, <1>3, <1>4
<1>6. \A x, y \in ToSet(L) : code[x] = code[y] => x = y  BY <1>3
<1> QED  BY <1>5, <1>6 DEF code, L

\* Where the transitions T lead from start in as many steps as S has elements.
Led(S, T, start) ==
  LET Reached[k \in 0 .. Cardinality(S)] ==
        IF k = 0 THEN {start}
        ELSE LET before == Reached[k - 1]
             IN before \cup {t[3] : t \in {u \in T : u[1] \in before}}
  IN Reached[Cardinality(S)]

\* Following the transitions as often as there are states reaches the least set
\* they do not leave.
LEMMA ReachedInTime ==
  ASSUME NEW S, IsFiniteSet(S), NEW L \in SUBSET S, NEW T, NEW start \in L,
         \A t \in T : t[1] \in L => t[3] \in L,
         \A C \in SUBSET L : start \in C /\ (\A t \in T : t[1] \in C => t[3] \in C) => L \subseteq C
  PROVE  L = Led(S, T, start)
<1> DEFINE N == Cardinality(S)
           More(A) == A \cup {t[3] : t \in {u \in T : u[1] \in A}}
           Solves(f, m) == f = [k \in 0 .. m |-> IF k = 0 THEN {start} ELSE More(f[k - 1])]
           reached == CHOOSE f : Solves(f, N)
<1>1. N \in Nat  BY FS_CardinalityType
<1>2. \A A : A \subseteq More(A)  OBVIOUS
<1>3. \A A \in SUBSET L : More(A) \in SUBSET L  OBVIOUS
<1>4. \A A : More(A) = A => \A t \in T : t[1] \in A => t[3] \in A
  <2> TAKE A
  <2> HAVE More(A) = A
  <2>1. \A t \in T : t[1] \in A => t[3] \in More(A)  OBVIOUS
  <2> HIDE DEF More
  <2> QED  BY <2>1
<1> HIDE DEF More
<1>5. ASSUME NEW m \in Nat PROVE \E f : Solves(f, m)
  <2> DEFINE Missing == {l \in Nat : ~ \E f : Solves(f, l)}
  <2> SUFFICES ASSUME Missing # {} PROVE FALSE
    OBVIOUS
  <2>1. PICK l \in Missing : \A i \in Missing : l <= i
    <3>1. Missing \subseteq Nat  OBVIOUS
    <3> HIDE DEF Missing
    <3> QED  BY <3>1, Least
  <2>2. l # 0
    <3> DEFINE f == [k \in 0 .. 0 |-> {start}]
    <3>1. f = [k \in 0 .. 0 |-> IF k = 0 THEN {start} ELSE More(f[k - 1])]  OBVIOUS
    <3>2. Solves(f, 0)  BY <3>1
    <3> QED  BY <3>2
  <2>3. l - 1 \in Nat /\ l \in Nat /\ ~ l <= l - 1  BY <2>2
  <2>4. PICK f : Solves(f, l - 1)  BY <2>1, <2>3
  <2>5. \A k \in 0 .. l - 1 : f[k] = IF k = 0 THEN {start} ELSE More(f[k - 1])
    <3>1. f = [k \in 0 .. l - 1 |-> IF k = 0 THEN {start} ELSE More(f[k - 1])]  BY <2>4
    <3> QED  BY <3>1
  <2> DEFINE V(k) == IF k < l THEN f[k] ELSE More(f[l - 1])
             g == [k \in 0 .. l |-> V(k)]
  <2>6. \A k \in 0 .. l : g[k] = V(k)  OBVIOUS
  <2>7. \A k \in 0 .. l : g[k] = IF k = 0 THEN {start} ELSE More(g[k - 1])
    <3> TAKE k \in 0 .. l
    <3> HIDE DEF g
    <3>1. CASE k = 0  BY <2>3, <2>5, <2>6, <3>1
    <3>2. CASE k # 0 /\ k < l
      <4>1. k \in 0 .. l - 1 /\ k - 1 \in 0 .. l /\ k - 1 < l  BY <2>3, <3>2
      <4> QED  BY <2>5, <2>6, <3>2, <4>1
    <3>3. CASE k = l
      <4>1. k - 1 \in 0 .. l /\ k - 1 < l /\ k # 0  BY <2>3, <3>3
      <4>2. g[k - 1] = f[k - 1]  BY <2>6, <4>1
      <4>3. g[k] = V(k) /\ ~ k < l  BY <2>3, <2>6, <3>3
      <4>4. V(k) = More(f[k - 1])
        <5>1. V(k) = More(f[l - 1])  BY <4>3
        <5> QED  BY <3>3, <5>1
      <4> HIDE DEF V
      <4> QED  BY <4>1, <4>2, <4>3, <4>4
    <3> QED  BY <2>3, <3>1, <3>2, <3>3
  <2>8. g = [k \in 0 .. l |-> g[k]]  OBVIOUS
  <2> HIDE DEF g
  <2>9. Solves(g, l)  BY <2>7, <2>8
  <2> QED  BY <2>1, <2>9
<1>6. Solves(reached, N)
  <2> HIDE DEF Solves
  <2> QED  BY <1>1, <1>5
<1>7. \A k \in 0 .. N : reached[k] = IF k = 0 THEN {start} ELSE More(reached[k - 1])
  <2>1. reached = [k \in 0 .. N |-> IF k = 0 THEN {start} ELSE More(reached[k - 1])]  BY <1>6
  <2> HIDE DEF reached
  <2> QED  BY <2>1
<1> DEFINE Grown(k) == /\ reached[k] \in SUBSET L /\ start \in reached[k]
                       /\ Cardinality(reached[k]) >= k + 1 \/ More(reached[k]) = reached[k]
           Wrong == {k \in 0 .. N : ~ Grown(k)}
<1> HIDE DEF reached
<1>8. IsFiniteSet(L)  BY FS_Subset
<1>9. Wrong = {}
  <2> SUFFICES ASSUME Wrong # {} PROVE FALSE  OBVIOUS
  <2>1. PICK k \in Wrong : \A l \in Wrong : k <= l
    <3>1. Wrong \subseteq Nat  OBVIOUS
    <3> HIDE DEF Wrong
    <3> QED  BY <3>1, Least
  <2>2. k \in 0 .. N /\ ~ Grown(k)  OBVIOUS
  <2>3. CASE k = 0
    <3>1. reached[0] = {start}  BY <1>1, <1>7
    <3>2. Cardinality({start}) = 1  BY <1>8, FS_Singleton
    <3>3. Grown(0)  BY <3>1, <3>2
    <3> HIDE DEF Grown
    <3> QED  BY <2>2, <2>3, <3>3
  <2>4. CASE k # 0
    <3> DEFINE m == k - 1
               A == reached[m]
               B == reached[k]
    <3>1. m \in 0 .. N /\ k = m + 1 /\ ~ k <= m /\ m \in Nat  BY <1>1, <2>2, <2>4
    <3>2. Grown(m)
      <4>1. m \notin Wrong
        <5> HIDE DEF Wrong, m
        <5> QED  BY <2>1, <3>1
      <4> QED  BY <3>1, <4>1
    <3>3. B = More(A)  BY <1>7, <2>2, <2>4
    <3>4. A \in SUBSET L /\ start \in A /\ (Cardinality(A) >= m + 1 \/ More(A) = A)  BY <3>2
    <3> HIDE DEF m, A, B
    <3>5. B \in SUBSET L /\ start \in B /\ A \subseteq B  BY <1>2, <1>3, <3>3, <3>4
    <3>6. Cardinality(B) >= k + 1 \/ More(B) = B
      <4>1. CASE More(A) = A  BY <3>3, <4>1
      <4>2. CASE More(A) # A
        <5>1. IsFiniteSet(B) /\ IsFiniteSet(A)  BY <1>8, <3>4, <3>5, FS_Subset
        <5>2. Cardinality(B) \in Nat /\ Cardinality(A) \in Nat  BY <5>1, FS_CardinalityType
        <5>3. Cardinality(A) <= Cardinality(B) /\ Cardinality(A) # Cardinality(B)
          BY <3>3, <3>5, <4>2, <5>1, FS_Subset
        <5> QED  BY <3>1, <3>4, <4>2, <5>2, <5>3
      <4> QED  BY <4>1, <4>2
    <3>7. Grown(k)  BY <3>5, <3>6 DEF B
    <3> HIDE DEF Grown
    <3> QED  BY <2>2, <3>7
  <2> QED  BY <2>3, <2>4
<1>10. Grown(N)
  <2>1. N \in 0 .. N  BY <1>1
  <2> HIDE DEF Grown
  <2> QED  BY <1>9, <2>1
<1>11. More(reached[N]) = reached[N]
  <2>1. reached[N] \in SUBSET S  BY <1>10
  <2>2. Cardinality(reached[N]) <= N /\ Cardinality(reached[N]) \in Nat  BY <2>1, FS_Subset, FS_CardinalityType
  <2> QED  BY <1>1, <1>10, <2>2
<1>12. L = reached[N]
  <2>1. \A t \in T : t[1] \in reached[N] => t[3] \in reached[N]  BY <1>4, <1>11
  <2>2. reached[N] \in SUBSET L /\ start \in reached[N]  BY <1>10
  <2> QED  BY <2>1, <2>2
<1> HIDE DEF N
<1> QED  BY <1>12 DEF reached, N, More, Led

\* The states listed are the ones the transitions derived lead to.
LEMMA ListedReached ==
  ASSUME Deriving, tasks = <<>>
  PROVE  ListedIsReached
<1> DEFINE L == ToSet(design.listed)
           S == design.states
           T == transition
           start == design.initial
<1>1. /\ IsFiniteSet(S) /\ Sound(problem, design) /\ Facts(problem, design, T, fallback, fires)
      /\ design.listed \in Seq(S) /\ design.listed # <<>> /\ design.listed[1] = start
      /\ Stays_in(problem, design, L)
      /\ \A C : start \in C /\ Stays_in(problem, design, C) => L \subseteq C
  BY DEF Deriving, Derivation, Sound, Lists
<1>2. \A x \in L, b \in Bits : Known(x, b) /\ x \in S  BY AllKnown
<1>3. L \in SUBSET S  BY <1>2 DEF Bits
<1>4. start \in L
  <2>1. Len(design.listed) \in Nat \ {0} /\ DOMAIN design.listed = 1 .. Len(design.listed)
    BY <1>1, EmptySeq, LenProperties
  <2>2. 1 \in DOMAIN design.listed  BY <2>1
  <2> QED  BY <1>1, <2>2 DEF ToSet
<1>5. \A t \in T : t[2] \in Bits /\ Goal(problem, design, t[1], t[2], t[3])
  <2> TAKE t \in T
  <2>1. PICK x \in S, b \in Bits, y \in S : t = <<x, b, y>> /\ Goal(problem, design, x, b, y)
    BY <1>1 DEF Facts
  <2>2. t[1] = x /\ t[2] = b /\ t[3] = y  BY <2>1
  <2> QED  BY <2>1, <2>2
<1> HIDE DEF L, S, T, start
<1>6. \A t \in T : t[1] \in L => t[3] \in L
  BY <1>1, <1>5 DEF Stays_in
<1>7. ASSUME NEW C \in SUBSET L, start \in C, \A t \in T : t[1] \in C => t[3] \in C
      PROVE  L \subseteq C
  <2>1. ASSUME NEW x \in C, NEW b \in Bits, NEW y, Goal(problem, design, x, b, y) PROVE y \in C
    <3>1. PICK t \in T : t[1] = x /\ t[2] = b  BY <1>2, <1>7, <2>1 DEF Known, T
    <3>2. Goal(problem, design, x, b, t[3])  BY <1>5, <3>1
    <3>3. y = t[3]  BY <1>1, <2>1, <3>2, OneGoal
    <3> QED  BY <1>7, <2>1, <3>1, <3>3
  <2>2. Stays_in(problem, design, C)  BY <2>1 DEF Stays_in
  <2> QED  BY <1>1, <1>7, <2>2
<1>8. L = Led(S, T, start)
  <2>1. IsFiniteSet(S)  BY <1>1
  <2>2. \A C \in SUBSET L : start \in C /\ (\A t \in T : t[1] \in C => t[3] \in C) => L \subseteq C
    BY <1>7, Zenon
  <2>3. \A M \in SUBSET S : \A U : \A a \in M :
          /\ \A t \in U : t[1] \in M => t[3] \in M
          /\ \A C \in SUBSET M : a \in C /\ (\A t \in U : t[1] \in C => t[3] \in C) => M \subseteq C
          => M = Led(S, U, a)
    BY <2>1, ReachedInTime, Zenon
  <2> QED  BY <1>3, <1>4, <1>6, <2>2, <2>3, Zenon
<1>9. LET code == design.encoding.code
      IN /\ \A x \in L : code[x] < 2 ^ design.encoding.width
         /\ \A x, y \in L : code[x] = code[y] => x = y
  BY <1>1, CodesFit DEF L
<1> QED  BY <1>2, <1>8, <1>9 DEF ListedIsReached, Led, L, S, T, start

\* What the outputs of a state show, in a detector and in a recogniser.
Outs(d, x) == {a[1] : a \in {c \in d.asserted : c[2] = x}}
Simulating(p, d, apart, x, w, s) ==
  /\ x \in ToSet(d.listed) /\ w \in Seq(Bits)
  /\ IF p.kind = "recogniser" THEN s = Outs(d, x) /\ (apart => Remembering(d, x, w))
     ELSE Detecting(p, d, x, w, s)

\* After a reset the machine remembers what counts.
LEMMA SimulatesReset ==
  ASSUME Deriving, tasks = <<>>
  PROVE  Simulating(problem, design, HeldApart, design.initial, design.initial, MooreOutputs(design.initial))
<1> DEFINE x == design.initial
           s == MooreOutputs(x)
<1>1. /\ Sound(problem, design) /\ Closed(design.states)
      /\ design.listed \in Seq(design.states) /\ design.listed # <<>> /\ design.listed[1] = x
  BY DEF Deriving, Sound, Lists
<1>2. x \in ToSet(design.listed) /\ x \in design.states /\ x \in Seq(Bits)
  <2>1. Len(design.listed) \in Nat \ {0} /\ DOMAIN design.listed = 1 .. Len(design.listed)
    BY <1>1, EmptySeq, LenProperties
  <2>2. 1 \in 1 .. Len(design.listed)  BY <2>1
  <2>3. x \in design.states  BY <1>1, <2>2, ElementOfSeq
  <2> QED  BY <1>1, <2>1, <2>2, <2>3 DEF ToSet, Closed
<1>3. CASE Recognises_as(problem, design)
  <2>1. problem.kind = "recogniser"  BY <1>3 DEF Recognises_as
  <2>2. HeldApart => Remembering(design, x, x)
    <3> SUFFICES ASSUME HeldApart PROVE Remembering(design, x, x)  OBVIOUS
    <3>1. HeldQuiet(problem, design)  BY <1>1, <1>3, HeldApartSays
    <3> QED  BY <1>1, <1>2, <1>3, <3>1, RecogniserReset
  <2>3. s = Outs(design, x)  BY DEF MooreOutputs, Outs
  <2> QED  BY <1>2, <2>1, <2>2, <2>3 DEF Simulating
<1>4. CASE Detects(problem, design)
  <2>1. problem.kind # "recogniser"  BY <1>4 DEF Detects
  <2>2. "detected" \notin MooreOutputs(<<>>) /\ x = <<>>  BY <1>1, <1>4, OutputsReset
  <2>3. Detecting(problem, design, <<>>, <<>>, s)  BY <1>1, <1>4, <2>2, DetectorReset
  <2> QED  BY <1>2, <2>1, <2>2, <2>3 DEF Simulating
<1> QED  BY <1>1, <1>3, <1>4 DEF Sound

\* So it does after a clock.
LEMMA SimulatesClock ==
  ASSUME Deriving, tasks = <<>>, Simulating(problem, design, HeldApart, at, hist, shown),
         Len(hist) < MaxStream, NEW b \in Bits,
         NEW y, y = Goes_to(at, b),
         NEW s, s = MooreOutputs(y) \cup When(<<at, b>> \in fires, "detected"),
         NEW w, w = Append(IF Hit /\ ~ problem.overlapping THEN <<>> ELSE hist, b)
  PROVE  Simulating(problem, design, HeldApart, y, w, s)
<1>1. at \in ToSet(design.listed) /\ hist \in Seq(Bits)  BY DEF Simulating
<1>2. /\ Sound(problem, design) /\ Closed(design.states)
      /\ Goal(problem, design, at, b, y) /\ y \in ToSet(design.listed) /\ y \in design.states
      /\ at \in design.states
  BY <1>1, AllKnown, GoesToGoal DEF Deriving, Sound
<1>3. /\ problem.kind = "recogniser" => s = MooreOutputs(y)
      /\ Detects(problem, design) =>
           IF problem.kind = "mealy" THEN "detected" \in s <=> Append(at, b) = problem.pattern
           ELSE "detected" \in s <=> y = problem.pattern
  BY <1>1, OutputsClocked
<1>4. CASE Recognises_as(problem, design)
  <2>1. problem.kind = "recogniser" /\ problem.overlapping = TRUE  BY <1>4 DEF Recognises_as
  <2>2. w = Append(hist, b)  BY <2>1
  <2>3. w \in Seq(Bits)  BY <1>1, <2>2, AppendProperties
  <2>4. s = Outs(design, y)  BY <1>3, <2>1 DEF MooreOutputs, Outs
  <2>5. HeldApart => Remembering(design, y, w)
    <3> SUFFICES ASSUME HeldApart PROVE Remembering(design, y, w)  OBVIOUS
    <3>1. MaxStream > 0
      <4>1. Len(hist) \in Nat  BY <1>1, LenProperties
      <4> QED  BY <4>1, StreamAssumption
    <3>2. HeldQuiet(problem, design) /\ HeldAlone(design)  BY <1>2, <1>4, <3>1, HeldApartSays
    <3>3. Remembering(design, at, hist)  BY <2>1 DEF Simulating
    <3>4. Remembering(design, y, Append(hist, b))  BY <1>1, <1>2, <1>4, <3>2, <3>3, RecogniserClocked
    <3> QED  BY <2>2, <3>4
  <2> QED  BY <1>2, <2>1, <2>3, <2>4, <2>5 DEF Simulating
<1>5. CASE Detects(problem, design)
  <2>1. problem.kind # "recogniser"  BY <1>5 DEF Detects
  <2>2. Longest(design.states, Counting(problem, hist), at)  BY <2>1 DEF Simulating, Detecting
  <2>3. IF problem.kind = "mealy" THEN "detected" \in s <=> Append(at, b) = problem.pattern
        ELSE "detected" \in s <=> y = problem.pattern
    BY <1>3, <1>5
  <2>4. w = Append(IF IsSuffix(problem.pattern, hist) /\ ~ problem.overlapping THEN <<>> ELSE hist, b)
    BY DEF Hit
  <2>5. Detecting(problem, design, y, w, s) /\ w \in Seq(Bits)
    <3>1. \A u \in Seq(Bits) : \A x, z, v, e :
            /\ Longest(design.states, Counting(problem, u), x) /\ Goal(problem, design, x, b, z)
            /\ IF problem.kind = "mealy" THEN "detected" \in e <=> Append(x, b) = problem.pattern
               ELSE "detected" \in e <=> z = problem.pattern
            /\ v = Append(IF IsSuffix(problem.pattern, u) /\ ~ problem.overlapping THEN <<>> ELSE u, b)
            => Detecting(problem, design, z, v, e) /\ v \in Seq(Bits)
      BY <1>2, <1>5, DetectorClocked
    <3> QED  BY <1>1, <1>2, <2>2, <2>3, <2>4, <3>1
  <2> QED  BY <1>2, <2>1, <2>5 DEF Simulating
<1> QED  BY <1>2, <1>4, <1>5 DEF Sound

\* The outputs shown are the ones due.
LEMMA SimulatesRight ==
  ASSUME Deriving, Simulating(problem, design, HeldApart, at, hist, shown), HeldApart
  PROVE  Recognises
<1>1. Sound(problem, design) /\ Closed(design.states)  BY DEF Deriving, Sound
<1>2. at \in ToSet(design.listed) /\ hist \in Seq(Bits)  BY DEF Simulating
<1>3. CASE Detects(problem, design)
  <2>1. problem.kind # "recogniser"  BY <1>3 DEF Detects
  <2>2. IsSuffix(problem.pattern, hist) <=> "detected" \in shown  BY <2>1 DEF Simulating, Detecting
  <2> QED  BY <2>1, <2>2 DEF Recognises, Hit
<1>4. CASE Recognises_as(problem, design)
  <2>1. problem.kind = "recogniser"  BY <1>4 DEF Recognises_as
  <2>2. shown = Outs(design, at) /\ Remembering(design, at, hist)  BY <2>1 DEF Simulating
  <2>3. HeldQuiet(problem, design)  BY <1>1, <1>4, HeldApartSays
  <2>4. at \in design.states
    <3>1. design.listed \in Seq(design.states)  BY <1>1 DEF Sound, Lists
    <3>2. DOMAIN design.listed = 1 .. Len(design.listed)  BY <3>1, LenProperties
    <3> QED  BY <1>2, <3>1, <3>2, ElementOfSeq DEF ToSet
  <2>5. \A o : <<o, at>> \in design.asserted <=> Due(o)
    <3> TAKE o
    <3>1. <<o, at>> \in design.asserted <=> Heard(problem, hist, o)
      BY <1>1, <1>2, <1>4, <2>2, <2>3, <2>4, DueInState
    <3> QED  BY <3>1 DEF Due, Heard, Held
  <2>6. \A e \in design.asserted : e = <<e[1], e[2]>>
    <3>1. \A e \in design.asserted : \E f \in problem.recognises : e = <<f[1], sequence_bits(f[2])>>
      BY <1>4 DEF Recognises_as
    <3> QED  BY <3>1
  <2>7. \A o : o \in Outs(design, at) <=> o \in {a[1] : a \in design.asserted} /\ Due(o)
    <3> TAKE o
    <3>1. ASSUME o \in Outs(design, at) PROVE o \in {a[1] : a \in design.asserted} /\ Due(o)
      <4>1. PICK e \in design.asserted : e[2] = at /\ e[1] = o  BY <3>1 DEF Outs
      <4>2. <<o, at>> \in design.asserted  BY <2>6, <4>1
      <4> QED  BY <2>5, <4>1, <4>2
    <3>2. ASSUME Due(o) PROVE o \in Outs(design, at)
      <4> DEFINE e == <<o, at>>
      <4>1. e \in design.asserted /\ e[1] = o /\ e[2] = at  BY <2>5, <3>2
      <4> HIDE DEF e
      <4> QED  BY <4>1 DEF Outs
    <3> QED  BY <3>1, <3>2
  <2>8. shown = {o \in {a[1] : a \in design.asserted} : Due(o)}
    <3> HIDE DEF Due
    <3> QED  BY <2>2, <2>7
  <2> QED  BY <2>1, <2>8 DEF Recognises
<1> QED  BY <1>1, <1>3, <1>4 DEF Sound

---------------------------------------------------------------------------
(*************************************************************************)
(* The invariant, and the theorems.                                      *)
(*************************************************************************)
\* The inductive invariant: what is derived so far is right, the tasks to come
\* are in order and derive the rest; and the machine remembers what counts.
IInv ==
  /\ problem \in Problems /\ design = complete(problem)
  /\ phase \in {"refused", "planned", "running"}
  /\ phase = "refused" => tasks = <<>>
  /\ phase # "refused" => Deriving
  /\ phase = "running" => tasks = <<>> /\ Simulating(problem, design, HeldApart, at, hist, shown)

\* The compiler's design is sound, and the walk begins at the first state listed.
LEMMA InitIInv ==
  Init => IInv
<1> SUFFICES ASSUME Init PROVE IInv  OBVIOUS
<1>1. problem \in Problems /\ design = complete(problem) /\ transition = {} /\ fallback = {} /\ fires = {}
  BY DEF Init
<1>2. CASE phase = "refused" /\ tasks = <<>>  BY <1>1, <1>2 DEF IInv
<1>3. CASE ~ design.invalid /\ phase = "planned" /\ tasks = From(design.listed[1])
  <2>1. Sound(problem, design)  BY <1>1, <1>3, DesignSound
  <2>2. Derivation(problem, design, {}, {}, {}, From(design.listed[1]))  BY <2>1, FromTheFirst
  <2>3. Deriving  BY <1>1, <1>3, <2>1, <2>2 DEF Deriving
  <2> QED  BY <1>1, <1>3, <2>3 DEF IInv
<1> QED  BY <1>2, <1>3 DEF Init

\* A decomposition keeps it, and leaves nothing to simulate yet.
LEMMA DecomposeIInv ==
  IInv /\ Decompose => IInv'
<1> SUFFICES ASSUME IInv, Decompose PROVE IInv'  OBVIOUS
<1>1. /\ phase = "planned" /\ tasks # <<>> /\ phase' = phase
      /\ UNCHANGED <<problem, design>>
  BY DEF Decompose
<1>2. Deriving /\ Sound(problem, design)  BY <1>1 DEF IInv, Deriving
<1>3. PICK m \in Methods(Head(tasks)) :
        /\ tasks' = m.tasks \o Tail(tasks)
        /\ transition' = transition \cup m.goes
        /\ fallback' = fallback \cup m.falls
        /\ fires' = fires \cup m.fires
  BY DEF Decompose
<1>4. Kept(m)  BY <1>1, <1>2, MethodKeeps
<1>5. Derivation(problem, design, transition', fallback', fires', tasks')  BY <1>3, <1>4 DEF Kept
<1>6. Deriving'  BY <1>1, <1>2, <1>5 DEF Deriving
<1> QED  BY <1>1, <1>6 DEF IInv

\* A reset leads to a state of the simulation.
LEMMA ResetIInv ==
  IInv /\ Reset => IInv'
<1> SUFFICES ASSUME IInv, Reset PROVE IInv'  OBVIOUS
<1>1. /\ phase' = "running" /\ UNCHANGED <<problem, design, tasks, transition, fallback, fires>>
      /\ at' = design.initial /\ hist' = design.initial /\ shown' = MooreOutputs(design.initial)
      /\ phase \in {"planned", "running"} /\ (phase = "planned" => tasks = <<>>)
  BY DEF Reset, Planned, Running, derived
<1>2. Deriving /\ tasks = <<>>  BY <1>1 DEF IInv
<1>3. Simulating(problem, design, HeldApart, at', hist', shown')  BY <1>1, <1>2, SimulatesReset
<1>4. HeldApart' <=> HeldApart  BY <1>1 DEF HeldApart, MooreOutputs
<1>5. Simulating(problem, design, HeldApart, at, hist, shown)'  BY <1>1, <1>3, <1>4
<1>6. Deriving'  BY <1>1, <1>2 DEF Deriving
<1> QED  BY <1>1, <1>2, <1>5, <1>6 DEF IInv

\* So does every clock.
LEMMA ClockIInv ==
  ASSUME NEW b \in Bits
  PROVE  IInv /\ Clock(b) => IInv'
<1> SUFFICES ASSUME IInv, Clock(b) PROVE IInv'  OBVIOUS
<1>1. /\ phase = "running" /\ phase' = phase /\ Len(hist) < MaxStream
      /\ UNCHANGED <<problem, design, tasks, transition, fallback, fires>>
      /\ hist' = Append(IF Hit /\ ~ problem.overlapping THEN <<>> ELSE hist, b)
      /\ at' = Goes_to(at, b)
      /\ shown' = MooreOutputs(at') \cup When(<<at, b>> \in fires, "detected")
  BY DEF Clock, Running, derived
<1>2. Deriving /\ tasks = <<>> /\ Simulating(problem, design, HeldApart, at, hist, shown)
  BY <1>1 DEF IInv
<1>3. Simulating(problem, design, HeldApart, at', hist', shown')  BY <1>1, <1>2, SimulatesClock
<1>4. HeldApart' <=> HeldApart  BY <1>1 DEF HeldApart, MooreOutputs
<1>5. Simulating(problem, design, HeldApart, at, hist, shown)'  BY <1>1, <1>3, <1>4
<1>6. Deriving'  BY <1>1, <1>2 DEF Deriving
<1> QED  BY <1>1, <1>2, <1>5, <1>6 DEF IInv

\* Every step keeps the invariant.
LEMMA NextIInv ==
  IInv /\ [Next]_vars => IInv'
<1> SUFFICES ASSUME IInv, [Next]_vars PROVE IInv'  OBVIOUS
<1>1. CASE Decompose  BY <1>1, DecomposeIInv
<1>2. CASE Reset  BY <1>2, ResetIInv
<1>3. ASSUME NEW b \in Bits, Clock(b) PROVE IInv'  BY <1>3, ClockIInv
<1>4. CASE UNCHANGED vars
  <2>1. UNCHANGED <<phase, problem, design, tasks, transition, fallback, fires, at, shown, hist>>
    BY <1>4 DEF vars, derived, run
  <2>2. HeldApart' <=> HeldApart  BY <2>1 DEF HeldApart, MooreOutputs
  <2>3. Deriving' <=> Deriving  BY <2>1 DEF Deriving
  <2>4. Simulating(problem, design, HeldApart, at, hist, shown)'
        <=> Simulating(problem, design, HeldApart, at, hist, shown)
    BY <2>1, <2>2
  <2> QED  BY <2>1, <2>3, <2>4 DEF IInv
<1> QED  BY <1>1, <1>2, <1>3, <1>4 DEF Next

\* What is derived and simulated stays in order, whatever files there are.
THEOREM DerivationInvariant == Spec => []IInv
<1> QED  BY InitIInv, NextIInv, PTL DEF Spec

\* "Every decision in this domain is forced" (check_sequence_detectors.py:26): for
\* every file, the first task has exactly one decomposition, in every state of the
\* derivation. The planner cannot get stuck, and has nothing to choose.
THEOREM DerivationIsForced == Spec => []Forced
<1>1. IInv => Forced
  <2> SUFFICES ASSUME IInv PROVE Forced  OBVIOUS
  <2>1. CASE phase = "refused"  BY <2>1 DEF IInv, Forced
  <2>2. CASE phase # "refused"
    <3>1. Deriving  BY <2>2 DEF IInv
    <3> QED  BY <3>1, DerivingIsForced
  <2> QED  BY <2>1, <2>2
<1> QED  BY <1>1, DerivationInvariant, PTL

\* The states the compiler lists before planning, and encodes, are exactly the ones
\* the derived transitions lead to, each with both transitions; their codes differ
\* and fit the register.
THEOREM ListingIsReached == Spec => []ListedIsReached
<1>1. IInv => ListedIsReached
  <2> SUFFICES ASSUME IInv PROVE ListedIsReached  OBVIOUS
  <2>1. CASE Planned
    <3>1. Deriving /\ tasks = <<>>  BY <2>1 DEF IInv, Planned
    <3> QED  BY <3>1, ListedReached
  <2>2. CASE ~ Planned  BY <2>2, Zenon DEF ListedIsReached
  <2> QED  BY <2>1, <2>2
<1> QED  BY <1>1, DerivationInvariant, PTL

\* After every stream of bits the machine asserts exactly the outputs the
\* description asks for, whatever the pattern or the sequences: the fallbacks
\* derived lose no overlapping occurrence and report none that did not arrive.
THEOREM MachinesRecognise == Spec => []MachineRecognises
<1>1. IInv => MachineRecognises
  <2> SUFFICES ASSUME IInv, Running, HeldApart PROVE Recognises  BY DEF MachineRecognises
  <2>1. Deriving /\ Simulating(problem, design, HeldApart, at, hist, shown)  BY DEF IInv, Running
  <2> QED  BY <2>1, SimulatesRight
<1> QED  BY <1>1, DerivationInvariant, PTL
=============================================================================
