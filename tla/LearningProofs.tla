---------------------------- MODULE LearningProofs ----------------------------
(***************************************************************************)
(* Two promises of learning a family. A run that comes to its end has set  *)
(* right every directory it came to, for any cases, runs, rounds and       *)
(* answers; and if none of an earlier prompt was cut short it came to all  *)
(* that was torn. The idea: a verdict is added only beside the steps it is *)
(* of; and the samples on disk determine the way a run takes, so a rerun   *)
(* comes to every directory that the one before it left torn. And the      *)
(* method lift_case (eval/lift.py) makes of a group of lists, whatever the *)
(* group, gives each problem back its own list and no other.               *)
(***************************************************************************)
EXTENDS Learning, LiftCase, SequenceTheorems, TLAPS

\* The answers of key k in rounds 1 .. n that the samples on disk lead to, where
\* they lead that far under this edition's prompt.
Trails(k, n) ==
  {s \in [1 .. n -> Answers[k[1]]] :
     /\ \E g \in made[First(k[1])] : g.of = prompt /\ g.replies[k[2]] = s[1]
     /\ \A m \in 2 .. n :
          \E g \in made[Later(k, m)] : g.of = repair_prompt(s[m - 1]) /\ g.replies[1] = s[m]
     /\ \A m \in 1 .. n - 1 : Stage(k[1], s[m]) # "pass"}

\* The run has yet to judge the answer of key k in round n.
Ahead(k, n) == round < n \/ (round = n /\ (at = "asking" \/ k \in todo))

Samples(d) == IF d[2] = 0 THEN Runs ELSE 1

Judging == at \in {"judging", "recording"}

Stages(k) == {Stage(k[1], a) : a \in Answers[k[1]]}

TypedEdition == edition \in Nat /\ crashed \subseteq 0 .. edition

TypedFiles ==
  /\ asked = [d \in Dirs |-> asked[d]] /\ made = [d \in Dirs |-> made[d]]
  /\ listed = [d \in Dirs |-> listed[d]] /\ judged = [d \in Dirs |-> judged[d]]
  /\ \A d \in Dirs : \A g \in made[d] :
       made[d] = {g} /\ g.replies \in [1 .. Samples(d) -> Answers[d[1]]]
  /\ \A c \in Cases : judged[First(c)] = {}

TypedMemory ==
  /\ at \in {"idle", "asking", "judging", "recording"}
  /\ round \in 1 .. Rounds
  /\ answers = [k \in Keys |-> answers[k]]
  /\ stages = [k \in Keys |-> stages[k]] /\ \A k \in Keys : stages[k] \in Seq(Stages(k))
  /\ jobs \subseteq Dirs /\ todo \subseteq Keys
  /\ finished \in BOOLEAN /\ (finished => at = "idle")

Typed == TypedEdition /\ TypedFiles /\ TypedMemory

\* The first round asks every case for this edition's prompt.
AskingFirst ==
  at = "asking" /\ round = 1 =>
    /\ jobs \subseteq {First(c) : c \in Cases}
    /\ \A c \in Cases : asked[First(c)] = {prompt} /\ (First(c) \in jobs <=> ~ generated(First(c), prompt))
    /\ \A k \in Keys : stages[k] = <<>>

\* A later one asks for what has not passed. Where the samples lead further, they
\* lead on from the answer that is sent back.
AskingLater ==
  at = "asking" /\ round > 1 =>
    /\ jobs \subseteq {Later(k, round) : k \in Open}
    /\ \A k \in Open :
         /\ asked[Later(k, round)] = {repair_prompt(answers[k])}
         /\ Later(k, round) \in jobs <=> ~ generated(Later(k, round), repair_prompt(answers[k]))
         /\ Stage(k[1], answers[k]) # "pass"
         /\ \E s \in Trails(k, round - 1) : s[round - 1] = answers[k]
    /\ \A k \in Keys, n \in round .. Rounds : \A s \in Trails(k, n) : k \in Open /\ s[round - 1] = answers[k]

\* An answer being judged is the one the samples lead to.
OnTrail ==
  Judging =>
    /\ \A k \in todo \cup Open :
         /\ answers[k] \in Answers[k[1]]
         /\ \E s \in Trails(k, round) : s[round] = answers[k]
    /\ \A k \in Keys \ todo : k \in Open => Stage(k[1], answers[k]) # "pass"
    /\ todo \subseteq Open
    /\ \A k \in Keys, n \in round .. Rounds : \A s \in Trails(k, n) :
         /\ k \in Open => s[round] = answers[k]
         /\ k \notin Open => n = round
    /\ at = "recording" =>
         \E k \in todo : /\ Judged(k)
                         /\ Stage(k[1], answers[k]) # "format" => listed[Later(k, round)] = answers[k]

\* What is torn, the samples lead to, and a run has it ahead.
Mendable ==
  crashed \subseteq {edition} =>
    \A k \in Keys, n \in 1 .. Rounds : Torn(k, n) =>
      /\ Trails(k, n) # {}
      /\ at # "idle" => Ahead(k, n)
      /\ at = "idle" => ~ finished /\ crashed # {}

\* The inductive invariant.
IInv == Typed /\ AskingFirst /\ AskingLater /\ OnTrail /\ Mendable

---------------------------------------------------------------------------
\* The directories of first rounds and of keys' rounds, told apart by their name.
LEMMA DirFacts ==
  /\ \A c \in Cases : First(c) \in Dirs /\ First(c)[1] = c /\ First(c)[2] = 0 /\ c \in Nat
  /\ \A k \in Keys : k[1] \in Cases /\ k[2] \in 1 .. Runs /\ k = <<k[1], k[2]>> /\ k[1] \in Nat /\ k[2] \in Nat
  /\ \A k \in Keys, n \in 1 .. Rounds :
       /\ Later(k, n) \in Dirs
       /\ Later(k, n)[1] = k[1] /\ Later(k, n)[2] = k[2] /\ k[2] # 0
       /\ <<Later(k, n)[1], Later(k, n)[2]>> = k
  /\ \A c \in Cases, k \in Keys, n \in 1 .. Rounds : First(c) # Later(k, n)
  /\ \A c, d \in Cases : First(c) = First(d) => c = d
  /\ \A k, l \in Keys, n, m \in 1 .. Rounds : Later(k, n) = Later(l, m) => k = l /\ n = m
<1>1. Runs \in Nat \ {0} /\ Rounds \in Nat \ {0} /\ Cases \subseteq Nat  BY LearningAssumption
<1>2. \A c \in Cases : First(c) \in Dirs /\ First(c)[1] = c /\ First(c)[2] = 0 /\ c \in Nat
  BY <1>1 DEF First, Dirs
<1>3. \A k \in Keys : k[1] \in Cases /\ k[2] \in 1 .. Runs /\ k = <<k[1], k[2]>> /\ k[1] \in Nat /\ k[2] \in Nat
  <2>1. \A k \in Keys : k[1] \in Cases /\ k[2] \in 1 .. Runs /\ k = <<k[1], k[2]>>  BY DEF Keys
  <2> QED  BY <1>1, <2>1
<1>4. ASSUME NEW k \in Keys, NEW n \in 1 .. Rounds
      PROVE  /\ Later(k, n) \in Dirs
             /\ Later(k, n)[1] = k[1] /\ Later(k, n)[2] = k[2] /\ k[2] # 0
             /\ <<Later(k, n)[1], Later(k, n)[2]>> = k
  <2>1. Later(k, n) \in Dirs  BY DEF Dirs
  <2>2. Later(k, n)[1] = k[1] /\ Later(k, n)[2] = k[2]  BY DEF Later
  <2>3. k = <<k[1], k[2]>> /\ k[2] # 0  BY <1>3, <1>1
  <2> QED  BY <2>1, <2>2, <2>3
<1>5. \A c \in Cases, k \in Keys, n \in 1 .. Rounds : First(c) # Later(k, n)
  BY <1>2, <1>4
<1>6. \A c, d \in Cases : First(c) = First(d) => c = d  BY <1>2
<1>7. \A k, l \in Keys, n, m \in 1 .. Rounds : Later(k, n) = Later(l, m) => k = l /\ n = m
  <2> SUFFICES ASSUME NEW k \in Keys, NEW l \in Keys, NEW n \in 1 .. Rounds, NEW m \in 1 .. Rounds,
                      Later(k, n) = Later(l, m)
               PROVE  k = l /\ n = m
    OBVIOUS
  <2>1. k = l  BY <1>4
  <2>2. Later(k, n)[3] = n /\ Later(l, m)[3] = m  BY DEF Later
  <2> QED  BY <2>1, <2>2
<1> QED  BY <1>2, <1>3, <1>4, <1>5, <1>6, <1>7

\* The samples and the edition are all that a trail depends on.
LEMMA TrailsKept ==
  ASSUME made' = made, edition' = edition
  PROVE  /\ \A k, n : Trails(k, n)' = Trails(k, n)
         /\ \A d, q : generated(d, q)' = generated(d, q)
         /\ prompt' = prompt /\ \A a : repair_prompt(a)' = repair_prompt(a)
  BY DEF Trails, generated, prompt, repair_prompt

\* What a trail of n rounds says of a round of it.
LEMMA TrailFacts ==
  ASSUME NEW k \in Keys, NEW n \in 1 .. Rounds, NEW s \in Trails(k, n)
  PROVE  /\ s \in [1 .. n -> Answers[k[1]]] /\ n \in Nat
         /\ \E g \in made[First(k[1])] : g.of = prompt /\ g.replies[k[2]] = s[1]
         /\ \A m \in 2 .. n : \E g \in made[Later(k, m)] : g.of = repair_prompt(s[m - 1]) /\ g.replies[1] = s[m]
         /\ \A m \in 1 .. n - 1 : Stage(k[1], s[m]) # "pass"
         /\ generated(First(k[1]), prompt)
         /\ \A m \in 2 .. n : generated(Later(k, m), repair_prompt(s[m - 1]))
  BY LearningAssumption DEF Trails, generated

\* A trail of one round: the sample for the key among those of the case.
LEMMA TrailBegins ==
  ASSUME NEW k \in Keys, NEW g \in made[First(k[1])], g.of = prompt, g.replies[k[2]] \in Answers[k[1]]
  PROVE  \E s \in Trails(k, 1) : s[1] = g.replies[k[2]]
<1> DEFINE s == [m \in 1 .. 1 |-> g.replies[k[2]]]
<1>1. s \in [1 .. 1 -> Answers[k[1]]] /\ s[1] = g.replies[k[2]]  OBVIOUS
<1> HIDE DEF s
<1>2. (2 .. 1) = {} /\ (1 .. 1 - 1) = {}  OBVIOUS
<1>3. s \in Trails(k, 1)  BY <1>1, <1>2 DEF Trails
<1> QED  BY <1>1, <1>3

\* A trail whose last answer failed goes on by the sample that answers its repair.
LEMMA TrailGoesOn ==
  ASSUME NEW k \in Keys, NEW n \in Nat, n > 1, NEW t \in Trails(k, n - 1),
         Stage(k[1], t[n - 1]) # "pass",
         NEW g \in made[Later(k, n)], g.of = repair_prompt(t[n - 1]), g.replies[1] \in Answers[k[1]]
  PROVE  \E s \in Trails(k, n) : s[n] = g.replies[1]
<1> DEFINE s == [m \in 1 .. n |-> IF m < n THEN t[m] ELSE g.replies[1]]
<1>1. t \in [1 .. n - 1 -> Answers[k[1]]]  BY DEF Trails
<1>2. s \in [1 .. n -> Answers[k[1]]] /\ s[n] = g.replies[1] /\ \A m \in 1 .. n - 1 : s[m] = t[m]
  BY <1>1
<1> HIDE DEF s
<1>3. \E h \in made[First(k[1])] : h.of = prompt /\ h.replies[k[2]] = s[1]
  BY <1>2 DEF Trails
<1>4. ASSUME NEW m \in 2 .. n
      PROVE  \E h \in made[Later(k, m)] : h.of = repair_prompt(s[m - 1]) /\ h.replies[1] = s[m]
  <2>1. CASE m = n  BY <1>2, <2>1
  <2>2. CASE m < n
    <3>1. s[m - 1] = t[m - 1] /\ s[m] = t[m] /\ m \in 2 .. n - 1  BY <1>2, <2>2
    <3> QED  BY <3>1 DEF Trails
  <2> QED  BY <2>1, <2>2
<1>5. ASSUME NEW m \in 1 .. n - 1 PROVE Stage(k[1], s[m]) # "pass"
  <2>1. CASE m = n - 1  BY <1>2, <2>1
  <2>2. CASE m \in 1 .. (n - 1) - 1  BY <1>2, <2>2 DEF Trails
  <2> QED  BY <2>1, <2>2
<1>6. s \in Trails(k, n)  BY <1>2, <1>3, <1>4, <1>5 DEF Trails
<1> QED  BY <1>2, <1>6

\* Of two keys yet to be judged one comes first.
LEMMA JudgedIsOne ==
  ASSUME todo \subseteq Keys, NEW k \in todo, NEW j \in todo, Judged(k), Judged(j)
  PROVE  k = j
<1>1. Before(k, j) /\ Before(j, k)  BY DEF Judged
<1>2. k[1] = j[1] /\ k[2] = j[2]  BY <1>1, DirFacts DEF Before
<1> QED  BY <1>2, DirFacts

---------------------------------------------------------------------------
\* Before the first run nothing has been judged.
LEMMA LearningInit == Init_learning => IInv
<1> SUFFICES ASSUME Init_learning PROVE IInv
  OBVIOUS
<1>1. Typed
  <2>1. \A k \in Keys : <<>> \in Seq(Stages(k))  OBVIOUS
  <2>2. \A k \in Keys : stages[k] = <<>>  BY DEF Init_learning
  <2>3. \A d \in Dirs : made[d] = {} /\ judged[d] = {}  BY DEF Init_learning
  <2>4. \A c \in Cases : First(c) \in Dirs  BY DirFacts
  <2>5. TypedEdition  BY DEF Init_learning, TypedEdition
  <2>6. TypedFiles
    <3>1. \A d \in Dirs : \A g \in made[d] : FALSE  BY <2>3
    <3> QED  BY <2>3, <2>4, <3>1 DEF Init_learning, TypedFiles
  <2>7. TypedMemory
    <3>1. round \in 1 .. Rounds  BY LearningAssumption DEF Init_learning
    <3>2. \A k \in Keys : stages[k] \in Seq(Stages(k))  BY <2>1, <2>2
    <3>3. answers = [k \in Keys |-> answers[k]] /\ stages = [k \in Keys |-> stages[k]]  BY DEF Init_learning
    <3> QED  BY <3>1, <3>2, <3>3 DEF Init_learning, TypedMemory
  <2> QED  BY <2>5, <2>6, <2>7 DEF Typed
<1>2. ASSUME NEW k \in Keys, NEW n \in 1 .. Rounds PROVE ~ Torn(k, n)
  BY DirFacts DEF Init_learning, Torn
<1> QED  BY <1>1, <1>2 DEF Init_learning, IInv, AskingFirst, AskingLater, OnTrail, Judging, Mendable

\* A run begins: what an earlier one left torn, it has ahead.
LEMMA BeginRunKeeps == IInv /\ BeginRun => IInv'
<1> SUFFICES ASSUME IInv, BeginRun PROVE IInv'
  OBVIOUS
<1> USE DirFacts
<1>0. Typed /\ Mendable  BY DEF IInv
<1>1. Typed'
  <2>1. \A k \in Keys : stages'[k] \in Seq(Stages(k))  BY DEF BeginRun
  <2>2. asked' = [d \in Dirs |-> asked'[d]]  BY DEF BeginRun, write_request
  <2>3. TypedEdition'  BY <1>0 DEF BeginRun, Typed, TypedEdition
  <2>4. TypedFiles'  BY <1>0, <2>2 DEF BeginRun, Typed, TypedFiles
  <2>5. jobs' \subseteq Dirs  BY DEF BeginRun
  <2>6. answers' = [k \in Keys |-> answers'[k]] /\ stages' = [k \in Keys |-> stages'[k]]  BY DEF BeginRun
  <2>7. round' \in 1 .. Rounds  BY LearningAssumption DEF BeginRun
  <2>8. TypedMemory'  BY <2>1, <2>5, <2>6, <2>7 DEF BeginRun, TypedMemory, Stages
  <2> QED  BY <2>3, <2>4, <2>8 DEF Typed
<1>2. made' = made /\ edition' = edition /\ prompt' = prompt /\ \A d, q : generated(d, q)' = generated(d, q)
  BY TrailsKept DEF BeginRun
<1>3. AskingFirst'
  <2>1. \A c \in Cases : asked'[First(c)] = {prompt}
    BY DEF BeginRun, write_request
  <2>2. \A c \in Cases : First(c) \in jobs' <=> ~ generated(First(c), prompt)
    BY DEF BeginRun
  <2>3. jobs' \subseteq {First(c) : c \in Cases}  BY DEF BeginRun
  <2>4. \A k \in Keys : stages'[k] = <<>>  BY DEF BeginRun
  <2> QED  BY <1>2, <2>1, <2>2, <2>3, <2>4 DEF AskingFirst
<1>4. AskingLater' /\ OnTrail'
  BY DEF BeginRun, AskingLater, OnTrail, Judging
<1>5. Mendable'
  <2> SUFFICES ASSUME (crashed \subseteq {edition})', NEW k \in Keys, NEW n \in 1 .. Rounds, Torn(k, n)'
               PROVE  Trails(k, n)' # {} /\ Ahead(k, n)' /\ at' # "idle"
    BY DEF Mendable
  <2>1. Torn(k, n) /\ crashed \subseteq {edition}  BY DEF BeginRun, Torn
  <2>2. Trails(k, n) # {}  BY <1>0, <2>1 DEF Mendable
  <2>3. Trails(k, n)' = Trails(k, n)  BY <1>2, TrailsKept
  <2>4. Ahead(k, n)' /\ at' # "idle"  BY DEF BeginRun, Ahead
  <2> QED  BY <2>2, <2>3, <2>4
<1> QED  BY <1>1, <1>3, <1>4, <1>5 DEF IInv

\* A run that is cut short leaves torn what it had ahead, and a crash to tell of it.
LEMMA CrashKeeps == IInv /\ Crash => IInv'
<1> SUFFICES ASSUME IInv, Crash PROVE IInv'
  OBVIOUS
<1>0. Typed /\ Mendable  BY DEF IInv
<1>1. Typed'
  <2>1. TypedEdition'  BY <1>0 DEF Crash, Typed, TypedEdition
  <2>2. TypedFiles'  BY <1>0 DEF Crash, files, Typed, TypedFiles
  <2>3. TypedMemory'  BY <1>0 DEF Crash, Typed, TypedMemory, Stages
  <2> QED  BY <2>1, <2>2, <2>3 DEF Typed
<1>2. AskingFirst' /\ AskingLater' /\ OnTrail'
  BY DEF Crash, AskingFirst, AskingLater, OnTrail, Judging
<1>3. Mendable'
  <2> SUFFICES ASSUME (crashed \subseteq {edition})', NEW k \in Keys, NEW n \in 1 .. Rounds, Torn(k, n)'
               PROVE  Trails(k, n)' # {} /\ at' = "idle" /\ ~ finished' /\ crashed' # {}
    BY DEF Mendable
  <2>1. Torn(k, n) /\ crashed \subseteq {edition}  BY DEF Crash, files, Torn
  <2>2. Trails(k, n) # {}  BY <1>0, <2>1 DEF Mendable
  <2>3. Trails(k, n)' = Trails(k, n)  BY TrailsKept DEF Crash, files
  <2>4. at' = "idle" /\ ~ finished' /\ crashed' # {}  BY <1>0 DEF Crash, Typed, TypedMemory
  <2> QED  BY <2>2, <2>3, <2>4
<1> QED  BY <1>1, <1>2, <1>3 DEF IInv

\* After an edit only runs of the editions before can have been cut short.
LEMMA EditKeeps == IInv /\ Edit => IInv'
<1> SUFFICES ASSUME IInv, Edit PROVE IInv'
  OBVIOUS
<1>0. Typed /\ Mendable  BY DEF IInv
<1>1. Typed'
  <2>1. TypedEdition'  BY <1>0 DEF Edit, Typed, TypedEdition
  <2>2. TypedFiles'  BY <1>0 DEF Edit, files, Typed, TypedFiles
  <2>3. TypedMemory'  BY <1>0 DEF Edit, memory, Typed, TypedMemory, Stages
  <2> QED  BY <2>1, <2>2, <2>3 DEF Typed
<1>2. AskingFirst' /\ AskingLater' /\ OnTrail'
  BY DEF Edit, AskingFirst, AskingLater, OnTrail, Judging, memory
<1>3. Mendable'
  <2> SUFFICES ASSUME (crashed \subseteq {edition})', NEW k \in Keys, NEW n \in 1 .. Rounds, Torn(k, n)'
               PROVE  FALSE
    BY DEF Mendable
  <2>1. crashed = {}
    <3>1. \A e \in crashed : e = edition + 1 /\ e \in 0 .. edition  BY <1>0 DEF Edit, Typed, TypedEdition
    <3> QED  BY <1>0, <3>1 DEF Typed, TypedEdition
  <2>2. Torn(k, n)  BY DEF Edit, files, Torn
  <2> QED  BY <1>0, <2>1, <2>2 DEF Mendable, Edit
<1> QED  BY <1>1, <1>2, <1>3 DEF IInv

\* A run that comes to its end has nothing ahead.
LEMMA FinishKeeps == IInv /\ Finish => IInv'
<1> SUFFICES ASSUME IInv, Finish PROVE IInv'
  OBVIOUS
<1>0. Typed /\ Mendable /\ OnTrail  BY DEF IInv
<1>1. Typed'
  <2>1. TypedEdition'  BY <1>0 DEF Finish, Typed, TypedEdition
  <2>2. TypedFiles'  BY <1>0 DEF Finish, files, Typed, TypedFiles
  <2>3. TypedMemory'  BY <1>0 DEF Finish, Typed, TypedMemory, Stages
  <2> QED  BY <2>1, <2>2, <2>3 DEF Typed
<1>2. AskingFirst' /\ AskingLater' /\ OnTrail'
  BY DEF Finish, AskingFirst, AskingLater, OnTrail, Judging
<1>3. Mendable'
  <2> SUFFICES ASSUME (crashed \subseteq {edition})', NEW k \in Keys, NEW n \in 1 .. Rounds, Torn(k, n)'
               PROVE  FALSE
    BY DEF Mendable
  <2>1. Torn(k, n) /\ crashed \subseteq {edition}  BY DEF Finish, files, Torn
  <2>2. Trails(k, n) # {} /\ round < n  BY <1>0, <2>1 DEF Mendable, Finish, Ahead
  <2>3. round \in 1 .. Rounds /\ Rounds \in Nat  BY <1>0, LearningAssumption DEF Typed, TypedMemory
  <2>4. n \in round .. Rounds /\ n # round /\ round # Rounds  BY <2>2, <2>3
  <2>5. k \in Open  BY <1>0, <2>2, <2>4 DEF OnTrail, Judging, Finish
  <2> QED  BY <2>4, <2>5 DEF Finish
<1> QED  BY <1>1, <1>2, <1>3 DEF IInv

\* A batch answered: no trail of a torn directory leads through it, for what a trail
\* leads through is there and is not asked again.
LEMMA ExecutorKeeps == IInv /\ executor => IInv'
<1> SUFFICES ASSUME IInv, executor PROVE IInv'
  OBVIOUS
<1> USE DirFacts
<1>0. Typed /\ AskingFirst /\ AskingLater /\ Mendable  BY DEF IInv
<1>a. PICK d \in jobs : \E request \in asked[d], replies \in [1 .. Samples(d) -> Answers[d[1]]] :
        /\ made' = [made EXCEPT ![d] = {[of |-> request, replies |-> replies]}]
        /\ jobs' = jobs \ {d}
  BY DEF executor, Samples
<1>1. PICK request \in asked[d], replies \in [1 .. Samples(d) -> Answers[d[1]]] :
        /\ made' = [made EXCEPT ![d] = {[of |-> request, replies |-> replies]}]
        /\ jobs' = jobs \ {d}
  BY <1>a
<1> DEFINE sample == [of |-> request, replies |-> replies]
<1>2. d \in Dirs /\ made'[d] = {sample} /\ sample.of = request /\ \A e : e # d => made'[e] = made[e]
  <2>1. d \in Dirs  BY <1>0, <1>1 DEF Typed, TypedMemory
  <2>2. made = [e \in Dirs |-> made[e]]  BY <1>0 DEF Typed, TypedFiles
  <2>3. made'[d] = {sample} /\ sample.of = request  BY <1>1, <2>1, <2>2
  <2>4. ASSUME NEW e, e # d PROVE made'[e] = made[e]
    <3>1. DOMAIN made = DOMAIN made'  BY <1>1
    <3>2. CASE e \in Dirs  BY <1>1, <2>2, <3>2, <2>4
    <3>3. CASE e \notin Dirs  BY <1>1, <2>2, <3>1, <3>3, <2>4
    <3> QED  BY <3>2, <3>3
  <2> QED  BY <2>1, <2>3, <2>4
<1>3. edition' = edition /\ prompt' = prompt /\ \A a : repair_prompt(a)' = repair_prompt(a)
  BY DEF executor, prompt, repair_prompt
<1>4. Typed'
  <2>1. TypedEdition'  BY <1>0 DEF executor, Typed, TypedEdition
  <2>2. TypedFiles'
    <3>1. made' = [e \in Dirs |-> made'[e]]  BY <1>0, <1>1 DEF Typed, TypedFiles
    <3>2. ASSUME NEW e \in Dirs, NEW g \in made'[e]
          PROVE  made'[e] = {g} /\ g.replies \in [1 .. Samples(e) -> Answers[e[1]]]
      <4>1. CASE e = d  BY <1>1, <1>2, <4>1
      <4>2. CASE e # d  BY <1>0, <1>2, <4>2 DEF Typed, TypedFiles
      <4> QED  BY <4>1, <4>2
    <3>3. asked' = asked /\ listed' = listed /\ judged' = judged  BY DEF executor
    <3> QED  BY <1>0, <3>1, <3>2, <3>3 DEF Typed, TypedFiles, Samples
  <2>3. TypedMemory'  BY <1>0, <1>1 DEF executor, Typed, TypedMemory, Stages
  <2> QED  BY <2>1, <2>2, <2>3 DEF Typed
<1>5. \A e, q : e # d => (generated(e, q)' <=> generated(e, q))
  BY <1>2 DEF generated
<1>6. generated(d, request)'  BY <1>2 DEF generated
<1>7. ASSUME round = 1, at = "asking"
      PROVE  /\ \E c \in Cases : d = First(c)
             /\ ~ generated(d, prompt) /\ request = prompt
  BY <1>0, <1>1, <1>7 DEF AskingFirst
<1>8. at = "asking" /\ at' = at /\ round' = round /\ round \in 1 .. Rounds /\ Rounds \in Nat
  BY <1>0, LearningAssumption DEF executor, Typed, TypedMemory
<1>9. ASSUME round > 1
      PROVE  \E k \in Open : d = Later(k, round) /\ request = repair_prompt(answers[k]) /\ ~ generated(d, request)
  <2>1. PICK k \in Open : d = Later(k, round)  BY <1>0, <1>1, <1>8, <1>9 DEF AskingLater
  <2>2. asked[d] = {repair_prompt(answers[k])} /\ ~ generated(d, repair_prompt(answers[k]))
    BY <1>0, <1>1, <1>8, <1>9, <2>1 DEF AskingLater
  <2> QED  BY <1>1, <2>1, <2>2
<1>10. AskingFirst'
  <2> SUFFICES ASSUME round = 1 PROVE AskingFirst'
    BY <1>8 DEF AskingFirst
  <2>1. asked' = asked /\ stages' = stages  BY DEF executor
  <2>2. request = prompt  BY <1>7, <1>8
  <2>3. ASSUME NEW c \in Cases
        PROVE  First(c) \in jobs' <=> ~ generated(First(c), prompt)'
    <3>1. CASE First(c) = d  BY <1>1, <1>3, <1>6, <2>2, <3>1
    <3>2. CASE First(c) # d
      <4>1. First(c) \in jobs' <=> First(c) \in jobs  BY <1>1, <3>2
      <4>2. First(c) \in jobs <=> ~ generated(First(c), prompt)  BY <1>0, <1>8 DEF AskingFirst
      <4>3. generated(First(c), prompt)' <=> generated(First(c), prompt)  BY <1>3, <1>2, <3>2 DEF generated
      <4> QED  BY <4>1, <4>2, <4>3
    <3> QED  BY <3>1, <3>2
  <2> QED  BY <1>0, <1>1, <1>3, <1>8, <2>1, <2>3 DEF AskingFirst
\* The trails that do not lead through the batch.
<1>11. ASSUME NEW k \in Keys, NEW n \in 1 .. Rounds,
              d # First(k[1]), \A m \in 2 .. n : d # Later(k, m)
       PROVE  Trails(k, n)' = Trails(k, n)
  <2>1. made'[First(k[1])] = made[First(k[1])] /\ \A m \in 2 .. n : made'[Later(k, m)] = made[Later(k, m)]
    BY <1>2, <1>11
  <2>2. ASSUME NEW s \in [1 .. n -> Answers[k[1]]]
        PROVE  s \in Trails(k, n)' <=> s \in Trails(k, n)
    <3>1. \A m \in 2 .. n : repair_prompt(s[m - 1])' = repair_prompt(s[m - 1])  BY <1>3
    <3> QED  BY <1>3, <2>1, <3>1 DEF Trails
  <2>3. \A s : s \in Trails(k, n)' \/ s \in Trails(k, n) => s \in [1 .. n -> Answers[k[1]]]  BY DEF Trails
  <2> QED  BY <2>2, <2>3
<1>12. AskingLater'
  <2> SUFFICES ASSUME round > 1 PROVE AskingLater'
    BY <1>8 DEF AskingLater
  <2>1. PICK l \in Open : d = Later(l, round) /\ request = repair_prompt(answers[l])
    BY <1>9
  <2>2. Open' = Open /\ asked' = asked /\ answers' = answers  BY DEF executor, Open, Passed
  <2>3. jobs' \subseteq {Later(k, round) : k \in Open}  BY <1>0, <1>1, <1>8 DEF AskingLater
  <2>4. Open \subseteq Keys  BY DEF Open
  <2>5. ASSUME NEW k \in Open
        PROVE  Later(k, round) \in jobs' <=> ~ generated(Later(k, round), repair_prompt(answers[k]))'
    <3>1. CASE k = l  BY <1>1, <1>3, <1>6, <1>8, <2>1, <2>2, <3>1
    <3>2. CASE k # l
      <4>1. Later(k, round) # d  BY <1>8, <2>1, <2>4, <3>2
      <4>2. Later(k, round) \in jobs' <=> Later(k, round) \in jobs  BY <1>1, <4>1
      <4>3. Later(k, round) \in jobs <=> ~ generated(Later(k, round), repair_prompt(answers[k]))
        BY <1>0, <1>8 DEF AskingLater
      <4>4. generated(Later(k, round), repair_prompt(answers[k]))' <=> generated(Later(k, round), repair_prompt(answers[k]))
        BY <1>3, <1>2, <1>8, <2>2, <4>1 DEF generated
      <4> QED  BY <4>2, <4>3, <4>4
    <3> QED  BY <3>1, <3>2
  <2>6. ASSUME NEW k \in Open
        PROVE  \E s \in Trails(k, round - 1)' : s[round - 1] = answers[k]
    <3>1. k \in Keys /\ round - 1 \in 1 .. Rounds  BY <1>8, <2>4
    <3>2. d # First(k[1])  BY <1>8, <2>1, <2>4, <3>1
    <3>3. \A m \in 2 .. round - 1 : d # Later(k, m)  BY <1>8, <2>1, <2>4, <3>1
    <3>4. \A n \in 1 .. Rounds : n = round - 1 => Trails(k, n)' = Trails(k, n)  BY <1>11, <3>1, <3>2, <3>3
    <3>5. \E s \in Trails(k, round - 1) : s[round - 1] = answers[k]  BY <1>0, <1>8 DEF AskingLater
    <3> QED  BY <1>8, <3>1, <3>4, <3>5
  <2>7. ASSUME NEW k \in Keys, NEW n \in round .. Rounds, NEW s \in Trails(k, n)'
        PROVE  k \in Open /\ s[round - 1] = answers[k]
    <3>1. CASE k = l
      <4>1. round \in 2 .. n  BY <1>8
      <4>2. PICK g \in made'[Later(k, round)] : g.of = repair_prompt(s[round - 1])
        BY <1>3, <4>1 DEF Trails
      <4>3. repair_prompt(s[round - 1]) = repair_prompt(answers[k])  BY <1>2, <2>1, <3>1, <4>2
      <4> QED  BY <3>1, <4>3 DEF repair_prompt
    <3>2. CASE k # l
      <4>1. n \in 1 .. Rounds  BY <1>8
      <4>2. d # First(k[1]) /\ \A m \in 2 .. n : d # Later(k, m)  BY <1>8, <2>1, <2>4, <3>2
      <4>3. Trails(k, n)' = Trails(k, n)  BY <1>11, <4>1, <4>2
      <4> QED  BY <1>0, <1>8, <4>3 DEF AskingLater
    <3> QED  BY <3>1, <3>2
  <2>8. \A k \in Open : asked[Later(k, round)] = {repair_prompt(answers[k])} /\ Stage(k[1], answers[k]) # "pass"
    BY <1>0, <1>8 DEF AskingLater
  <2>9. round' = round  BY <1>8
  <2> HIDE DEF Samples
  <2> QED  BY <1>3, <2>2, <2>3, <2>5, <2>6, <2>7, <2>8, <2>9 DEF AskingLater
<1>13. OnTrail'  BY <1>8 DEF OnTrail, Judging
<1>14. Mendable'
  <2> SUFFICES ASSUME (crashed \subseteq {edition})', NEW k \in Keys, NEW n \in 1 .. Rounds, Torn(k, n)'
               PROVE  Trails(k, n)' # {} /\ Ahead(k, n)' /\ at' # "idle"
    BY DEF Mendable
  <2>1. Torn(k, n) /\ crashed \subseteq {edition}  BY DEF executor, Torn
  <2>2. Trails(k, n) # {} /\ Ahead(k, n)  BY <1>0, <1>8, <2>1 DEF Mendable
  <2>3. PICK s : s \in Trails(k, n)  BY <2>2
  <2>4. n \in round .. Rounds  BY <1>8, <2>2 DEF Ahead
  <2>5. d # First(k[1])
    <3>1. CASE round = 1
      <4>1. generated(First(k[1]), prompt)  BY <2>3, TrailFacts
      <4> QED  BY <1>7, <1>8, <3>1, <4>1
    <3>2. CASE round > 1
      <4>1. PICK l \in Open : d = Later(l, round)  BY <1>9, <3>2
      <4> QED  BY <1>8, <4>1 DEF Open
    <3> QED  BY <1>8, <3>1, <3>2
  <2>6. ASSUME NEW m \in 2 .. n, d = Later(k, m) PROVE FALSE
    <3>1. round > 1  BY <1>7, <1>8, <2>6
    <3>2. PICK l \in Open : d = Later(l, round) /\ request = repair_prompt(answers[l]) /\ ~ generated(d, request)
      BY <1>9, <3>1
    <3>3. k = l /\ m = round
      <4>1. l \in Keys /\ m \in 1 .. Rounds  BY <1>8, <3>2 DEF Open
      <4>2. Later(k, m) = Later(l, round)  BY <2>6, <3>2
      <4>3. round \in 1 .. Rounds  BY <1>8
      <4> QED  BY <4>1, <4>2, <4>3
    <3>4. s[round - 1] = answers[k]  BY <1>0, <1>8, <2>3, <2>4, <3>1 DEF AskingLater
    <3>5. generated(Later(k, round), repair_prompt(s[round - 1]))  BY <2>3, <3>3, TrailFacts
    <3> QED  BY <3>2, <3>3, <3>4, <3>5
  <2>7. Trails(k, n)' = Trails(k, n)  BY <1>11, <2>5, <2>6
  <2>8. Ahead(k, n)' /\ at' # "idle"  BY <1>8, <2>2 DEF executor, Ahead
  <2> QED  BY <2>2, <2>7, <2>8
<1> QED  BY <1>4, <1>10, <1>12, <1>13, <1>14 DEF IInv

\* A directory holds the samples of one request, and they are what is read.
LEMMA ReplyIsRead ==
  ASSUME TypedFiles, NEW d \in Dirs, NEW g \in made[d]
  PROVE  g.replies \in [1 .. Samples(d) -> Answers[d[1]]] /\ \A r : Reply(d, r) = g.replies[r]
<1>1. made[d] = {g} /\ g.replies \in [1 .. Samples(d) -> Answers[d[1]]]  BY DEF TypedFiles
<1> QED  BY <1>1 DEF Reply

\* The answers are read: the trail of a key goes on by the sample that is read.
LEMMA CollectKeeps == IInv /\ Collect => IInv'
<1> SUFFICES ASSUME IInv, Collect PROVE IInv'
  OBVIOUS
<1> USE DirFacts
<1>0. Typed /\ AskingFirst /\ AskingLater /\ Mendable  BY DEF IInv
<1>1. /\ at = "asking" /\ at' = "judging" /\ round' = round /\ stages' = stages /\ jobs = {} /\ todo' = Open
      /\ made' = made /\ edition' = edition /\ listed' = listed /\ judged' = judged /\ crashed' = crashed
  BY DEF Collect, files, Open
<1>2. round \in 1 .. Rounds /\ Rounds \in Nat  BY <1>0, LearningAssumption DEF Typed, TypedMemory
<1>3. Open' = Open /\ Open \subseteq Keys  BY <1>1 DEF Open, Passed
<1>4. Typed'
  <2>1. TypedEdition'  BY <1>0, <1>1 DEF Typed, TypedEdition
  <2>2. TypedFiles'  BY <1>0 DEF Collect, files, Typed, TypedFiles
  <2>3. answers' = [k \in Keys |-> answers'[k]]  BY DEF Collect
  <2>4. TypedMemory'  BY <1>0, <1>1, <1>3, <2>3 DEF Collect, Typed, TypedMemory, Stages
  <2> QED  BY <2>1, <2>2, <2>4 DEF Typed
<1>5. \A k, n : Trails(k, n)' = Trails(k, n)  BY <1>1, TrailsKept
<1>6. \A d \in Dirs : \A g \in made[d] :
        g.replies \in [1 .. Samples(d) -> Answers[d[1]]] /\ \A r : Reply(d, r) = g.replies[r]
  BY <1>0, ReplyIsRead DEF Typed
\* Each answer read ends a trail.
<1>7. ASSUME NEW k \in Open
      PROVE  answers'[k] \in Answers[k[1]] /\ \E s \in Trails(k, round) : s[round] = answers'[k]
  <2>1. k \in Keys /\ ~ Passed(k)  BY DEF Open
  <2>2. CASE round = 1
    <3>1. generated(First(k[1]), prompt)  BY <1>0, <1>1, <2>1, <2>2 DEF AskingFirst
    <3>2. PICK g \in made[First(k[1])] : g.of = prompt  BY <3>1 DEF generated
    <3>3. answers'[k] = Reply(First(k[1]), k[2])  BY <2>1, <2>2 DEF Collect
    <3>4. First(k[1]) \in Dirs /\ Samples(First(k[1])) = Runs /\ First(k[1])[1] = k[1]  BY <2>1 DEF Samples
    <3>5. g.replies \in [1 .. Runs -> Answers[k[1]]] /\ Reply(First(k[1]), k[2]) = g.replies[k[2]]
      BY <1>6, <3>2, <3>4
    <3>6. answers'[k] = g.replies[k[2]] /\ g.replies[k[2]] \in Answers[k[1]]  BY <2>1, <3>3, <3>5
    <3>7. \E s \in Trails(k, 1) : s[1] = g.replies[k[2]]  BY <2>1, <3>2, <3>6, TrailBegins
    <3> QED  BY <2>2, <3>6, <3>7
  <2>3. CASE round > 1
    <3>1. generated(Later(k, round), repair_prompt(answers[k]))  BY <1>0, <1>1, <2>3 DEF AskingLater
    <3>2. PICK g \in made[Later(k, round)] : g.of = repair_prompt(answers[k])  BY <3>1 DEF generated
    <3>3. answers'[k] = Reply(Later(k, round), 1)  BY <2>1, <2>3 DEF Collect
    <3>4. /\ Later(k, round) \in Dirs /\ Later(k, round)[1] = k[1] /\ Samples(Later(k, round)) = 1
      BY <1>2, <2>1 DEF Samples
    <3>5. g.replies \in [1 .. 1 -> Answers[k[1]]] /\ Reply(Later(k, round), 1) = g.replies[1]
      <4> DEFINE d == Later(k, round)
      <4>1. d \in Dirs /\ d[1] = k[1] /\ Samples(d) = 1 /\ g \in made[d]  BY <3>2, <3>4
      <4> HIDE DirFacts DEF d
      <4>2. Reply(d, 1) = g.replies[1] /\ g.replies \in [1 .. Samples(d) -> Answers[d[1]]]  BY <1>6, <4>1
      <4> QED  BY <4>1, <4>2 DEF d
    <3>6. answers'[k] = g.replies[1] /\ g.replies[1] \in Answers[k[1]]  BY <3>3, <3>5
    <3>7. PICK t \in Trails(k, round - 1) : t[round - 1] = answers[k]  BY <1>0, <1>1, <2>3 DEF AskingLater
    <3>8. Stage(k[1], t[round - 1]) # "pass" /\ g.of = repair_prompt(t[round - 1])
      BY <1>0, <1>1, <2>3, <3>2, <3>7 DEF AskingLater
    <3>9. round \in Nat  BY <1>2
    <3>10. \E s \in Trails(k, round) : s[round] = g.replies[1]
      <4> DEFINE r == round
      <4>1. r \in Nat /\ r > 1 /\ t \in Trails(k, r - 1) /\ Stage(k[1], t[r - 1]) # "pass"
            /\ g \in made[Later(k, r)] /\ g.of = repair_prompt(t[r - 1]) /\ g.replies[1] \in Answers[k[1]]
        BY <2>3, <3>2, <3>6, <3>7, <3>8, <3>9
      <4> HIDE DEF r
      <4>2. \E s \in Trails(k, r) : s[r] = g.replies[1]  BY <2>1, <4>1, TrailGoesOn
      <4> QED  BY <4>2 DEF r
    <3> QED  BY <3>6, <3>10
  <2> QED  BY <1>2, <2>2, <2>3
\* And every trail that leads as far comes by it.
<1>8. ASSUME NEW k \in Keys, NEW n \in round .. Rounds, NEW s \in Trails(k, n)
      PROVE  k \in Open /\ s[round] = answers'[k]
  <2>1. n \in 1 .. Rounds  BY <1>2
  <2>2. CASE round = 1
    <3>1. stages[k] = <<>>  BY <1>0, <1>1, <2>2 DEF AskingFirst
    <3>2. ~ Passed(k)  BY <3>1 DEF Passed
    <3>3. PICK g \in made[First(k[1])] : g.replies[k[2]] = s[1]  BY <2>1, TrailFacts
    <3>4. Reply(First(k[1]), k[2]) = s[1]  BY <1>6, <3>3
    <3>5. answers'[k] = Reply(First(k[1]), k[2])  BY <2>2, <3>2 DEF Collect
    <3> QED  BY <2>2, <3>2, <3>4, <3>5 DEF Open
  <2>3. CASE round > 1
    <3>1. k \in Open  BY <1>0, <1>1, <2>3 DEF AskingLater
    <3>2. round \in 2 .. n  BY <1>2, <2>3
    <3>3. PICK g \in made[Later(k, round)] : g.replies[1] = s[round]  BY <2>1, <3>2, TrailFacts
    <3>4. Later(k, round) \in Dirs  BY <1>2
    <3>5. Reply(Later(k, round), 1) = s[round]  BY <1>6, <3>3, <3>4
    <3>6. answers'[k] = Reply(Later(k, round), 1)  BY <2>3, <3>1 DEF Collect, Open
    <3> QED  BY <3>1, <3>5, <3>6
  <2> QED  BY <1>2, <2>2, <2>3
<1>9. OnTrail'  BY <1>1, <1>3, <1>5, <1>7, <1>8 DEF OnTrail, Judging
<1>10. AskingFirst' /\ AskingLater'  BY <1>1 DEF AskingFirst, AskingLater
<1>11. Mendable'
  <2> SUFFICES ASSUME (crashed \subseteq {edition})', NEW k \in Keys, NEW n \in 1 .. Rounds, Torn(k, n)'
               PROVE  Trails(k, n)' # {} /\ Ahead(k, n)' /\ at' # "idle"
    BY DEF Mendable
  <2>1. Torn(k, n) /\ crashed \subseteq {edition}  BY <1>1 DEF Torn
  <2>2. Trails(k, n) # {} /\ Ahead(k, n)  BY <1>0, <1>1, <2>1 DEF Mendable
  <2>3. n \in round .. Rounds  BY <1>2, <2>2 DEF Ahead
  <2>4. k \in todo'  BY <1>1, <1>8, <2>2, <2>3
  <2>5. round <= n  BY <2>3
  <2>6. Ahead(k, n)'  BY <1>1, <1>2, <2>4, <2>5 DEF Ahead
  <2> QED  BY <1>1, <1>5, <2>2, <2>6
<1> QED  BY <1>4, <1>9, <1>10, <1>11 DEF IInv

\* A test first writes what it tests: what it tears, it has yet to judge.
LEMMA TestKeeps == IInv /\ Test => IInv'
<1> SUFFICES ASSUME IInv, Test PROVE IInv'
  OBVIOUS
<1> USE DirFacts
<1>0. Typed /\ OnTrail /\ Mendable  BY DEF IInv
<1>1. PICK k \in todo : /\ Judged(k)
                        /\ listed' = IF Stage(k[1], answers[k]) = "format" THEN listed
                                    ELSE [listed EXCEPT ![Later(k, round)] = answers[k]]
  BY DEF Test
<1>2. /\ at = "judging" /\ at' = "recording" /\ todo' = todo /\ round' = round /\ answers' = answers
      /\ stages' = stages /\ made' = made /\ edition' = edition /\ judged' = judged /\ crashed' = crashed
      /\ Open' = Open /\ \A j : Judged(j)' = Judged(j)
  BY DEF Test, Open, Passed, Judged
<1>3. k \in Keys /\ round \in 1 .. Rounds /\ Later(k, round) \in Dirs  BY <1>0 DEF Typed, TypedMemory
<1>4. \A l, n : Trails(l, n)' = Trails(l, n)  BY <1>2, TrailsKept
<1>5. /\ Stage(k[1], answers[k]) # "format" => listed'[Later(k, round)] = answers[k]
      /\ \A d \in Dirs : d # Later(k, round) => listed'[d] = listed[d]
      /\ listed' = [d \in Dirs |-> listed'[d]]
  <2>1. listed = [d \in Dirs |-> listed[d]]  BY <1>0 DEF Typed, TypedFiles
  <2>2. CASE Stage(k[1], answers[k]) = "format"  BY <1>1, <2>1, <2>2
  <2>3. CASE Stage(k[1], answers[k]) # "format"
    <3>1. listed' = [listed EXCEPT ![Later(k, round)] = answers[k]]  BY <1>1, <2>3
    <3> QED  BY <1>3, <2>1, <3>1
  <2> QED  BY <2>2, <2>3
<1>6. Typed'
  <2>1. TypedEdition'  BY <1>0, <1>2 DEF Typed, TypedEdition
  <2>2. TypedFiles'  BY <1>0, <1>5 DEF Test, Typed, TypedFiles
  <2>3. TypedMemory'  BY <1>0 DEF Test, Typed, TypedMemory, Stages
  <2> QED  BY <2>1, <2>2, <2>3 DEF Typed
<1>7. OnTrail'
  <2>1. \E j \in todo : Judged(j) /\ (Stage(j[1], answers[j]) # "format" => listed'[Later(j, round)] = answers[j])
    BY <1>1, <1>5
  <2> QED  BY <1>0, <1>2, <1>4, <2>1 DEF OnTrail, Judging
<1>8. AskingFirst' /\ AskingLater'  BY <1>2 DEF AskingFirst, AskingLater
<1>9. Mendable'
  <2> SUFFICES ASSUME (crashed \subseteq {edition})', NEW l \in Keys, NEW n \in 1 .. Rounds, Torn(l, n)'
               PROVE  Trails(l, n)' # {} /\ Ahead(l, n)' /\ at' # "idle"
    BY DEF Mendable
  <2>1. CASE l = k /\ n = round
    <3>1. Trails(l, n) # {}  BY <1>0, <1>2, <2>1 DEF OnTrail, Judging
    <3>2. Ahead(l, n)'  BY <1>2, <2>1 DEF Ahead
    <3> QED  BY <1>2, <1>4, <3>1, <3>2
  <2>2. CASE ~ (l = k /\ n = round)
    <3>1. Later(l, n) # Later(k, round) /\ Later(l, n) \in Dirs  BY <1>3, <2>2
    <3>2. Torn(l, n) /\ crashed \subseteq {edition}  BY <1>2, <1>5, <3>1 DEF Torn
    <3>3. Trails(l, n) # {} /\ Ahead(l, n)  BY <1>0, <1>2, <3>2 DEF Mendable
    <3>4. Ahead(l, n)'  BY <1>2, <3>3 DEF Ahead
    <3> QED  BY <1>2, <1>4, <3>3, <3>4
  <2> QED  BY <2>1, <2>2
<1> QED  BY <1>6, <1>7, <1>8, <1>9 DEF IInv

\* The verdict recorded is of the steps that were written before it.
LEMMA RecordKeeps == IInv /\ Record => IInv'
<1> SUFFICES ASSUME IInv, Record PROVE IInv'
  OBVIOUS
<1> USE DirFacts
<1>0. Typed /\ OnTrail /\ Mendable  BY DEF IInv
<1>1. PICK k \in todo : /\ Judged(k)
                        /\ judged' = [judged EXCEPT ![Later(k, round)] = {verdict(k)}]
                        /\ stages' = [stages EXCEPT ![k] = Append(@, verdict(k).stage)]
                        /\ todo' = todo \ {k}
  BY DEF Record
<1>2. /\ at = "recording" /\ at' = "judging" /\ round' = round /\ answers' = answers /\ listed' = listed
      /\ made' = made /\ edition' = edition /\ crashed' = crashed
  BY DEF Record
<1>3. k \in Keys /\ round \in 1 .. Rounds /\ Later(k, round) \in Dirs /\ todo \subseteq Keys
  BY <1>0 DEF Typed, TypedMemory
<1>4. \A l, n : Trails(l, n)' = Trails(l, n)  BY <1>2, TrailsKept
<1> DEFINE stage == Stage(k[1], answers[k])
<1>5. /\ judged'[Later(k, round)] = {verdict(k)} /\ verdict(k).stage = stage /\ verdict(k).of = answers[k]
      /\ \A d \in Dirs : d # Later(k, round) => judged'[d] = judged[d]
      /\ judged' = [d \in Dirs |-> judged'[d]]
  <2>1. judged = [d \in Dirs |-> judged[d]]  BY <1>0 DEF Typed, TypedFiles
  <2>2. verdict(k).stage = stage /\ verdict(k).of = answers[k]  BY DEF verdict
  <2> HIDE DEF stage
  <2> QED  BY <1>1, <1>3, <2>1, <2>2
<1>6. answers[k] \in Answers[k[1]] /\ stage \in Stages(k)
  <2>1. answers[k] \in Answers[k[1]]  BY <1>0, <1>2 DEF OnTrail, Judging
  <2> QED  BY <2>1 DEF Stages
<1>7. /\ stages'[k] = Append(stages[k], stage) /\ \A l \in Keys : l # k => stages'[l] = stages[l]
      /\ stages' = [l \in Keys |-> stages'[l]] /\ stages[k] \in Seq(Stages(k))
  <2>1. stages = [l \in Keys |-> stages[l]] /\ stages[k] \in Seq(Stages(k))
    BY <1>0, <1>3 DEF Typed, TypedMemory
  <2> HIDE DEF stage
  <2> QED  BY <1>1, <1>3, <1>5, <2>1
<1>8. Passed(k)' <=> stage = "pass"
  <2> HIDE DEF stage
  <2>1. PICK t, s : t = stages[k] /\ s = stages'[k]  OBVIOUS
  <2>2. t \in Seq(Stages(k)) /\ s = Append(t, stage)  BY <1>7, <2>1
  <2>3. Len(t) \in Nat /\ Len(s) = Len(t) + 1 /\ s[Len(t) + 1] = stage
    BY <1>6, <2>2, AppendProperties, LenProperties
  <2>4. Len(s) # 0 /\ s[Len(s)] = stage  BY <2>3
  <2>5. s # <<>>  BY <2>4
  <2> QED  BY <2>1, <2>4, <2>5 DEF Passed
<1>9. \A l \in Keys : l # k => (l \in Open' <=> l \in Open)  BY <1>7 DEF Open, Passed
<1>10. k \in Open' <=> stage # "pass"  BY <1>3, <1>8 DEF Open
<1> HIDE DEF stage
<1>11. Typed'
  <2>1. TypedEdition'  BY <1>0, <1>2 DEF Typed, TypedEdition
  <2>2. TypedFiles'
    <3>1. \A c \in Cases : judged'[First(c)] = {}
      <4> SUFFICES ASSUME NEW c \in Cases PROVE judged'[First(c)] = {}
        OBVIOUS
      <4>1. First(c) \in Dirs /\ First(c) # Later(k, round)  BY <1>3
      <4>2. judged[First(c)] = {}  BY <1>0 DEF Typed, TypedFiles
      <4> QED  BY <1>5, <4>1, <4>2
    <3> QED  BY <1>0, <1>5, <3>1 DEF Record, Typed, TypedFiles
  <2>3. \A l \in Keys : stages'[l] \in Seq(Stages(l))
    <3>1. stages'[k] \in Seq(Stages(k))  BY <1>6, <1>7, AppendProperties
    <3> QED  BY <1>0, <1>7, <3>1 DEF Typed, TypedMemory
  <2>4. TypedMemory'  BY <1>0, <1>1, <1>7, <2>3 DEF Record, Typed, TypedMemory, Stages
  <2> QED  BY <2>1, <2>2, <2>4 DEF Typed
<1>12. OnTrail'
  <2>1. todo \subseteq Open /\ k \in Open  BY <1>0, <1>2 DEF OnTrail, Judging
  <2>2. \A l \in todo' \cup Open' : l \in todo \cup Open
    <3>1. Open' \subseteq Keys  BY DEF Open
    <3> QED  BY <1>1, <1>9, <2>1, <3>1
  <2>3. \A l \in Keys \ todo' : l \in Open' => Stage(l[1], answers[l]) # "pass"
    <3> SUFFICES ASSUME NEW l \in Keys \ todo', l \in Open' PROVE Stage(l[1], answers[l]) # "pass"
      OBVIOUS
    <3>1. CASE l = k  BY <1>10, <3>1 DEF stage
    <3>2. CASE l # k  BY <1>0, <1>1, <1>2, <1>9, <3>2 DEF OnTrail, Judging
    <3> QED  BY <3>1, <3>2
  <2>4. todo' \subseteq Open'  BY <1>1, <1>3, <1>9, <2>1
  <2>5. ASSUME NEW l \in Keys, NEW n \in round .. Rounds, NEW s \in Trails(l, n)
        PROVE  (l \in Open' => s[round] = answers[l]) /\ (l \notin Open' => n = round)
    <3>1. (l \in Open => s[round] = answers[l]) /\ (l \notin Open => n = round)
      BY <1>0, <1>2 DEF OnTrail, Judging
    <3>2. CASE l # k  BY <1>9, <3>1, <3>2
    <3>3. CASE l = k
      <4>1. s[round] = answers[k]  BY <2>1, <3>1, <3>3
      <4>2. CASE stage # "pass"  BY <1>10, <3>3, <4>1, <4>2
      <4>3. CASE stage = "pass"
        <5>1. ASSUME n # round PROVE FALSE
          <6>1. round \in 1 .. n - 1 /\ n \in 1 .. Rounds  BY <1>3, <5>1, LearningAssumption
          <6>2. Stage(l[1], s[round]) # "pass"  BY <6>1, TrailFacts
          <6> QED  BY <3>3, <4>1, <4>3, <6>2 DEF stage
        <5> QED  BY <1>10, <3>3, <4>3, <5>1
      <4> QED  BY <4>2, <4>3
    <3> QED  BY <3>2, <3>3
  <2>6. \A l \in todo \cup Open : answers[l] \in Answers[l[1]] /\ \E s \in Trails(l, round) : s[round] = answers[l]
    BY <1>0, <1>2 DEF OnTrail, Judging
  <2> QED  BY <1>2, <1>4, <2>2, <2>3, <2>4, <2>5, <2>6 DEF OnTrail, Judging
<1>13. AskingFirst' /\ AskingLater'  BY <1>2 DEF AskingFirst, AskingLater
\* The steps on disk are those of the one key that is judged.
<1>14. stage # "format" => listed[Later(k, round)] = answers[k]
  <2> HIDE DirFacts
  <2>1. PICK j \in todo : /\ Judged(j)
                          /\ Stage(j[1], answers[j]) # "format" => listed[Later(j, round)] = answers[j]
    BY <1>0, <1>2 DEF OnTrail, Judging
  <2>2. j = k
    <3>1. Judged(k) /\ Judged(j) /\ todo \subseteq Keys  BY <1>1, <1>3, <2>1
    <3> QED  BY <3>1, JudgedIsOne
  <2>3. Stage(k[1], answers[k]) # "format" => listed[Later(k, round)] = answers[k]  BY <2>1, <2>2
  <2> QED  BY <2>3 DEF stage
<1>15. Mendable'
  <2> SUFFICES ASSUME (crashed \subseteq {edition})', NEW l \in Keys, NEW n \in 1 .. Rounds, Torn(l, n)'
               PROVE  Trails(l, n)' # {} /\ Ahead(l, n)' /\ at' # "idle"
    BY DEF Mendable
  <2>1. ~ (l = k /\ n = round)
    <3> SUFFICES ASSUME l = k, n = round PROVE FALSE
      OBVIOUS
    <3>1. PICK v \in judged'[Later(k, round)] : v.stage = "pass" /\ listed'[Later(k, round)] # v.of
      BY <1>2 DEF Torn
    <3>2. v.stage = stage /\ v.of = answers[k]  BY <1>5, <3>1
    <3> QED  BY <1>2, <1>14, <3>1, <3>2
  <2>2. Later(l, n) # Later(k, round) /\ Later(l, n) \in Dirs  BY <1>3, <2>1
  <2>3. Torn(l, n) /\ crashed \subseteq {edition}  BY <1>2, <1>5, <2>2 DEF Torn
  <2>4. Trails(l, n) # {} /\ Ahead(l, n)  BY <1>0, <1>2, <2>3 DEF Mendable
  <2>5. Ahead(l, n)'  BY <1>1, <1>2, <2>1, <2>4 DEF Ahead
  <2> QED  BY <1>2, <1>4, <2>4, <2>5
<1> QED  BY <1>11, <1>12, <1>13, <1>15 DEF IInv

\* What has not passed goes back: the next round has all that is still torn ahead.
LEMMA NextRoundKeeps == IInv /\ NextRound => IInv'
<1> SUFFICES ASSUME IInv, NextRound PROVE IInv'
  OBVIOUS
<1> USE DirFacts
<1>0. Typed /\ OnTrail /\ Mendable  BY DEF IInv
<1> DEFINE next == {Later(k, round + 1) : k \in Open}
           request(d) == repair_prompt(answers[<<d[1], d[2]>>])
<1>1. /\ at = "judging" /\ at' = "asking" /\ round' = round + 1 /\ todo = {} /\ todo' = todo /\ answers' = answers
      /\ stages' = stages /\ made' = made /\ edition' = edition /\ judged' = judged /\ listed' = listed
      /\ crashed' = crashed /\ finished' = finished /\ round < Rounds
      /\ jobs' = {d \in next : ~ generated(d, request(d))}
      /\ asked' = [d \in Dirs |-> IF d \in next THEN {request(d)} ELSE asked[d]]
  BY DEF NextRound, write_request
<1>2. round \in 1 .. Rounds /\ Rounds \in Nat /\ round + 1 \in 1 .. Rounds
  <2>1. round \in 1 .. Rounds /\ Rounds \in Nat  BY <1>0, LearningAssumption DEF Typed, TypedMemory
  <2> QED  BY <1>1, <2>1
<1>3. Open' = Open /\ Open \subseteq Keys  BY <1>1 DEF Open, Passed
<1>4. /\ next \subseteq Dirs
      /\ \A k \in Open : Later(k, round + 1) \in next /\ request(Later(k, round + 1)) = repair_prompt(answers[k])
  BY <1>2, <1>3
<1>5. /\ \A k, n : Trails(k, n)' = Trails(k, n)
      /\ \A d, q : generated(d, q)' = generated(d, q)
      /\ \A a : repair_prompt(a)' = repair_prompt(a)
  BY <1>1, TrailsKept
<1>6. Typed'
  <2>1. TypedEdition'  BY <1>0, <1>1 DEF Typed, TypedEdition
  <2>2. asked' = [d \in Dirs |-> asked'[d]]  BY <1>1
  <2>3. TypedFiles'  BY <1>0, <2>2 DEF NextRound, Typed, TypedFiles
  <2>4. jobs' \subseteq Dirs  BY <1>1, <1>4
  <2>5. TypedMemory'
    <3> HIDE DEF next, request
    <3> QED  BY <1>0, <1>1, <1>2, <2>4 DEF Typed, TypedMemory, Stages
  <2> QED  BY <2>1, <2>3, <2>5 DEF Typed
<1>7. ASSUME NEW k \in Open
      PROVE  /\ asked'[Later(k, round + 1)] = {repair_prompt(answers[k])}
             /\ Later(k, round + 1) \in jobs' <=> ~ generated(Later(k, round + 1), repair_prompt(answers[k]))
             /\ Stage(k[1], answers[k]) # "pass"
             /\ \E s \in Trails(k, round) : s[round] = answers[k]
  <2> DEFINE d == Later(k, round + 1)
  <2>1. d \in next /\ d \in Dirs /\ request(d) = repair_prompt(answers[k])  BY <1>4
  <2> HIDE DEF d, next, request
  <2>2. asked'[d] = {repair_prompt(answers[k])}  BY <1>1, <2>1
  <2>3. d \in jobs' <=> ~ generated(d, repair_prompt(answers[k]))  BY <1>1, <2>1
  <2>4. Stage(k[1], answers[k]) # "pass"  BY <1>0, <1>1, <1>3 DEF OnTrail, Judging
  <2>5. \E s \in Trails(k, round) : s[round] = answers[k]  BY <1>0, <1>1 DEF OnTrail, Judging
  <2> QED  BY <2>2, <2>3, <2>4, <2>5 DEF d
<1>8. ASSUME NEW k \in Keys, NEW n \in round + 1 .. Rounds, NEW s \in Trails(k, n)
      PROVE  k \in Open /\ s[round] = answers[k]
  <2>1. n \in round .. Rounds /\ n # round  BY <1>2
  <2> QED  BY <1>0, <1>1, <2>1 DEF OnTrail, Judging
<1>9. jobs' \subseteq {Later(k, round + 1) : k \in Open}  BY <1>1
<1> HIDE DEF next, request
<1>10. AskingLater'
  <2> DEFINE r == round + 1
  <2>1. r = round' /\ r - 1 = round /\ r > 1  BY <1>1, <1>2
  <2>2. (jobs \subseteq {Later(k, round) : k \in Open})'  BY <1>1, <1>3, <1>9
  <2>3. (\A k \in Open :
           /\ asked[Later(k, round)] = {repair_prompt(answers[k])}
           /\ Later(k, round) \in jobs <=> ~ generated(Later(k, round), repair_prompt(answers[k]))
           /\ Stage(k[1], answers[k]) # "pass")'
    BY <1>1, <1>3, <1>5, <1>7
  <2>4. (\A k \in Open : \E s \in Trails(k, round - 1) : s[round - 1] = answers[k])'
    <3>1. \A k \in Open : \E s \in Trails(k, r - 1) : s[r - 1] = answers[k]  BY <1>7, <2>1
    <3> QED  BY <1>1, <1>3, <1>5, <2>1, <3>1
  <2>5. (\A k \in Keys, n \in round .. Rounds : \A s \in Trails(k, n) : k \in Open /\ s[round - 1] = answers[k])'
    <3>1. \A k \in Keys, n \in r .. Rounds : \A s \in Trails(k, n) : k \in Open /\ s[r - 1] = answers[k]
      BY <1>8, <2>1
    <3> QED  BY <1>1, <1>3, <1>5, <2>1, <3>1
  <2> QED  BY <2>2, <2>3, <2>4, <2>5 DEF AskingLater
<1>11. AskingFirst' /\ OnTrail'  BY <1>1, <1>2 DEF AskingFirst, OnTrail, Judging
<1>12. Mendable'
  <2> SUFFICES ASSUME (crashed \subseteq {edition})', NEW l \in Keys, NEW n \in 1 .. Rounds, Torn(l, n)'
               PROVE  Trails(l, n)' # {} /\ Ahead(l, n)' /\ at' # "idle"
    BY DEF Mendable
  <2>1. Torn(l, n) /\ crashed \subseteq {edition}  BY <1>1 DEF Torn
  <2>2. Trails(l, n) # {} /\ Ahead(l, n)  BY <1>0, <1>1, <2>1 DEF Mendable
  <2>3. round < n  BY <1>1, <2>2 DEF Ahead
  <2>4. Ahead(l, n)'  BY <1>1, <1>2, <2>3 DEF Ahead
  <2> QED  BY <1>1, <1>5, <2>2, <2>4
<1> QED  BY <1>6, <1>10, <1>11, <1>12 DEF IInv

\* Nothing the invariant is about changes in a step that changes nothing.
LEMMA LearningStutters == IInv /\ UNCHANGED learning_vars => IInv'
<1> SUFFICES ASSUME IInv, UNCHANGED learning_vars PROVE IInv'
  OBVIOUS
<1>1. /\ edition' = edition /\ asked' = asked /\ made' = made /\ listed' = listed /\ judged' = judged
      /\ at' = at /\ round' = round /\ jobs' = jobs /\ answers' = answers /\ stages' = stages /\ todo' = todo
      /\ finished' = finished /\ crashed' = crashed
  BY DEF learning_vars, files, memory
<1>2. /\ \A k, n : Trails(k, n)' = Trails(k, n)
      /\ \A d, q : generated(d, q)' = generated(d, q)
      /\ prompt' = prompt /\ \A a : repair_prompt(a)' = repair_prompt(a)
  BY <1>1, TrailsKept
<1>3. Open' = Open /\ (\A k : Judged(k)' = Judged(k)) /\ \A k, n : Torn(k, n)' = Torn(k, n) /\ Ahead(k, n)' = Ahead(k, n)
  BY <1>1 DEF Open, Passed, Judged, Torn, Ahead
<1>4. Typed'
  <2>1. TypedEdition' /\ TypedFiles'  BY <1>1 DEF IInv, Typed, TypedEdition, TypedFiles
  <2>2. TypedMemory'  BY <1>1 DEF IInv, Typed, TypedMemory, Stages
  <2> QED  BY <2>1, <2>2 DEF Typed
<1>5. AskingFirst'  BY <1>1, <1>2 DEF IInv, AskingFirst
<1>6. AskingLater'  BY <1>1, <1>2, <1>3 DEF IInv, AskingLater
<1>7. OnTrail'  BY <1>1, <1>2, <1>3 DEF IInv, OnTrail, Judging
<1>8. Mendable'  BY <1>1, <1>2, <1>3 DEF IInv, Mendable
<1> QED  BY <1>4, <1>5, <1>6, <1>7, <1>8 DEF IInv

\* What the samples on disk lead to is what a run judges, and what a run that was
\* cut short left torn lies on that way (learn_ground.py, cmd_run).
THEOREM LearningInvariant == LearningSpec => []IInv
<1>1. ASSUME IInv, LearningStep PROVE IInv'
  BY <1>1, BeginRunKeeps, ExecutorKeeps, CollectKeeps, TestKeeps, RecordKeeps, NextRoundKeeps,
     FinishKeeps, CrashKeeps, EditKeeps DEF LearningStep
<1> QED  BY <1>1, LearningInit, LearningStutters, PTL DEF LearningSpec

---------------------------------------------------------------------------
\* A key that has not passed has a verdict for each round it was judged in.
Counted ==
  /\ at = "asking" => \A k \in Open : Len(stages[k]) = round - 1
  /\ Judging => \A k \in Open : Len(stages[k]) = IF k \in todo THEN round - 1 ELSE round

\* What a run came to, whatever was edited and cut short before, it set right.
SetRight == \A k \in Keys, n \in 1 .. Rounds : n <= Len(stages[k]) => ~ Torn(k, n)

\* A run begins with no verdicts.
LEMMA BeginRunComes == IInv /\ BeginRun => (Counted /\ SetRight)'
<1> SUFFICES ASSUME IInv, BeginRun PROVE (Counted /\ SetRight)'
  OBVIOUS
<1>1. at' = "asking" /\ round' = 1 /\ \A k \in Keys : stages'[k] = <<>> /\ Len(stages'[k]) = 0
  BY DEF BeginRun
<1>2. Counted'  BY <1>1 DEF Counted, Judging, Open
<1>3. SetRight'
  <2>1. \A k \in Keys, n \in 1 .. Rounds : ~ (n <= Len(stages'[k]))  BY <1>1
  <2> QED  BY <2>1 DEF SetRight
<1> QED  BY <1>2, <1>3

\* What is tested is of the round that has no verdict yet.
LEMMA TestComes == IInv /\ Counted /\ SetRight /\ Test => (Counted /\ SetRight)'
<1> SUFFICES ASSUME IInv, Counted, SetRight, Test PROVE (Counted /\ SetRight)'
  OBVIOUS
<1>0. Typed /\ OnTrail  BY DEF IInv
<1>1. PICK k \in todo :
        listed' = IF Stage(k[1], answers[k]) = "format" THEN listed
                  ELSE [listed EXCEPT ![Later(k, round)] = answers[k]]
  BY DEF Test
<1>2. /\ at = "judging" /\ at' = "recording" /\ todo' = todo /\ round' = round
      /\ stages' = stages /\ judged' = judged /\ Open' = Open
  BY DEF Test, Open, Passed
<1>3. k \in Keys /\ k \in Open /\ round \in 1 .. Rounds /\ Rounds \in Nat
  BY <1>0, <1>2, LearningAssumption DEF Typed, TypedMemory, OnTrail, Judging
<1>4. Counted'  BY <1>2 DEF Counted, Judging
<1>5. ASSUME NEW l \in Keys, NEW n \in 1 .. Rounds, n <= Len(stages[l])
      PROVE  listed'[Later(l, n)] = listed[Later(l, n)]
  <2>1. Len(stages[k]) = round - 1  BY <1>2, <1>3 DEF Counted, Judging
  <2>2. ~ (l = k /\ n = round)  BY <1>3, <1>5, <2>1
  <2>3. Later(l, n) # Later(k, round) /\ Later(l, n) \in Dirs  BY <1>3, <2>2, DirFacts
  <2>4. listed = [d \in Dirs |-> listed[d]]  BY <1>0 DEF Typed, TypedFiles
  <2> QED  BY <1>1, <2>3, <2>4
<1>6. SetRight'  BY <1>2, <1>5 DEF SetRight, Torn
<1> QED  BY <1>4, <1>6

\* The verdict added is of the answer that was listed before it.
LEMMA RecordComes == IInv /\ Counted /\ SetRight /\ Record => (Counted /\ SetRight)'
<1> SUFFICES ASSUME IInv, Counted, SetRight, Record PROVE (Counted /\ SetRight)'
  OBVIOUS
<1>0. Typed /\ OnTrail  BY DEF IInv
<1>1. PICK k \in todo : /\ Judged(k)
                        /\ judged' = [judged EXCEPT ![Later(k, round)] = {verdict(k)}]
                        /\ stages' = [stages EXCEPT ![k] = Append(@, verdict(k).stage)]
                        /\ todo' = todo \ {k}
  BY DEF Record
<1>2. at = "recording" /\ at' = "judging" /\ round' = round /\ listed' = listed
  BY DEF Record
<1>3. /\ k \in Keys /\ k \in Open /\ todo \subseteq Keys
      /\ round \in 1 .. Rounds /\ Rounds \in Nat /\ Later(k, round) \in Dirs
  BY <1>0, <1>2, DirFacts, LearningAssumption DEF Typed, TypedMemory, OnTrail, Judging
<1> DEFINE stage == Stage(k[1], answers[k])
<1>4. /\ judged'[Later(k, round)] = {verdict(k)} /\ verdict(k).stage = stage /\ verdict(k).of = answers[k]
      /\ \A d \in Dirs : d # Later(k, round) => judged'[d] = judged[d]
  <2>1. judged = [d \in Dirs |-> judged[d]]  BY <1>0 DEF Typed, TypedFiles
  <2>2. verdict(k).stage = stage /\ verdict(k).of = answers[k]  BY DEF verdict
  <2> HIDE DEF stage
  <2> QED  BY <1>1, <1>3, <2>1, <2>2
<1>5. /\ stages'[k] = Append(stages[k], stage) /\ \A l \in Keys : l # k => stages'[l] = stages[l]
      /\ stages[k] \in Seq(Stages(k)) /\ stage \in Stages(k)
  <2>1. stages = [l \in Keys |-> stages[l]] /\ stages[k] \in Seq(Stages(k))
    BY <1>0, <1>3 DEF Typed, TypedMemory
  <2>2. stage \in Stages(k)  BY <1>0, <1>2 DEF OnTrail, Judging, Stages
  <2> HIDE DEF stage
  <2> QED  BY <1>1, <1>3, <1>4, <2>1, <2>2
<1> HIDE DEF stage
<1>6. Len(stages[k]) = round - 1 /\ Len(stages'[k]) = round
  <2>1. Len(stages[k]) = round - 1  BY <1>2, <1>3 DEF Counted, Judging
  <2>2. PICK t : t = stages[k]  OBVIOUS
  <2>3. Len(Append(t, stage)) = Len(t) + 1  BY <1>5, <2>2, AppendProperties
  <2> QED  BY <1>3, <1>5, <2>1, <2>2, <2>3
<1>7. Counted'
  <2>1. ASSUME NEW l \in Open' PROVE Len(stages'[l]) = IF l \in todo' THEN round - 1 ELSE round
    <3>1. CASE l = k  BY <1>1, <1>6, <3>1
    <3>2. CASE l # k
      <4>1. l \in Open /\ stages'[l] = stages[l]  BY <1>5, <3>2 DEF Open, Passed
      <4>2. l \in todo' <=> l \in todo  BY <1>1, <3>2
      <4>3. Len(stages[l]) = IF l \in todo THEN round - 1 ELSE round  BY <1>2, <4>1 DEF Counted, Judging
      <4> QED  BY <4>1, <4>2, <4>3
    <3> QED  BY <3>1, <3>2
  <2> QED  BY <1>2, <2>1 DEF Counted, Judging
<1>8. stage # "format" => listed[Later(k, round)] = answers[k]
  <2>1. PICK j \in todo : /\ Judged(j)
                          /\ Stage(j[1], answers[j]) # "format" => listed[Later(j, round)] = answers[j]
    BY <1>0, <1>2 DEF OnTrail, Judging
  <2>2. j = k  BY <1>1, <1>3, <2>1, JudgedIsOne
  <2> QED  BY <2>1, <2>2 DEF stage
<1>9. SetRight'
  <2> SUFFICES ASSUME NEW l \in Keys, NEW n \in 1 .. Rounds, n <= Len(stages'[l]), Torn(l, n)'
               PROVE  FALSE
    BY DEF SetRight
  <2>1. CASE l = k /\ n = round
    <3>1. PICK v \in judged'[Later(k, round)] : v.stage = "pass" /\ listed'[Later(k, round)] # v.of
      BY <1>2, <2>1 DEF Torn
    <3>2. v.stage = stage /\ v.of = answers[k]  BY <1>4, <3>1
    <3> QED  BY <1>2, <1>8, <3>1, <3>2
  <2>2. CASE ~ (l = k /\ n = round)
    <3>1. Later(l, n) # Later(k, round) /\ Later(l, n) \in Dirs  BY <1>3, <2>2, DirFacts
    <3>2. Torn(l, n)  BY <1>2, <1>4, <3>1 DEF Torn
    <3>3. n <= Len(stages[l])
      <4>1. CASE l = k  BY <1>3, <1>6, <2>2, <4>1
      <4>2. CASE l # k  BY <1>5, <4>2
      <4> QED  BY <4>1, <4>2
    <3> QED  BY <3>2, <3>3 DEF SetRight
  <2> QED  BY <2>1, <2>2
<1> QED  BY <1>7, <1>9

\* The other steps add no verdict and change nothing that one is of.
LEMMA OthersCome ==
  ASSUME IInv, Counted, SetRight,
         executor \/ Collect \/ NextRound \/ Finish \/ Crash \/ Edit \/ UNCHANGED learning_vars
  PROVE  (Counted /\ SetRight)'
<1>1. stages' = stages /\ judged' = judged /\ listed' = listed /\ Open' = Open
  BY DEF executor, Collect, NextRound, Finish, Crash, Edit, learning_vars, files, memory, Open, Passed
<1>2. SetRight'  BY <1>1 DEF SetRight, Torn
<1>3. round \in 1 .. Rounds /\ Rounds \in Nat  BY LearningAssumption DEF IInv, Typed, TypedMemory
<1>4. Counted'
  <2>1. CASE executor  BY <1>1, <2>1 DEF executor, Counted, Judging
  <2>2. CASE Collect
    <3>1. at = "asking" /\ at' = "judging" /\ round' = round /\ todo' = Open  BY <2>2 DEF Collect, Open
    <3> QED  BY <1>1, <3>1 DEF Counted, Judging
  <2>3. CASE NextRound
    <3>1. at = "judging" /\ at' = "asking" /\ round' = round + 1 /\ todo = {}  BY <2>3 DEF NextRound
    <3>2. \A k \in Open : Len(stages[k]) = round  BY <3>1 DEF Counted, Judging
    <3>3. round' - 1 = round  BY <1>3, <3>1
    <3> QED  BY <1>1, <3>1, <3>2, <3>3 DEF Counted, Judging
  <2>4. CASE Finish \/ Crash  BY <2>4 DEF Finish, Crash, Counted, Judging
  <2>5. CASE Edit  BY <2>5 DEF Edit, memory, Counted, Judging
  <2>6. CASE UNCHANGED learning_vars  BY <1>1, <2>6 DEF learning_vars, memory, Counted, Judging
  <2> QED  BY <2>1, <2>2, <2>3, <2>4, <2>5, <2>6
<1> QED  BY <1>2, <1>4

\* A run sets right what it comes to, whatever was edited and cut short before, and
\* with no run of an earlier prompt cut short it comes to all that is torn
\* (learn_ground.py, cmd_run; the pass and the steps are two files of a directory).
THEOREM RerunsMend == LearningSpec => []Mended
<1>1. Init_learning => Counted /\ SetRight
  <2> SUFFICES ASSUME Init_learning PROVE Counted /\ SetRight
    OBVIOUS
  <2>1. Counted  BY DEF Init_learning, Counted, Judging
  <2>2. SetRight  BY DirFacts DEF Init_learning, SetRight, Torn
  <2> QED  BY <2>1, <2>2
<1>2. IInv /\ Counted /\ SetRight /\ [LearningStep]_learning_vars => (Counted /\ SetRight)'
  BY BeginRunComes, TestComes, RecordComes, OthersCome DEF LearningStep
<1>3. IInv /\ SetRight => Mended
  <2> SUFFICES ASSUME IInv, SetRight, finished, NEW k \in Keys, NEW n \in 1 .. Rounds, Torn(k, n)
               PROVE  n > Len(stages[k]) /\ ~ (crashed \subseteq {edition})
    BY DEF Mended
  <2>1. Typed /\ Mendable  BY DEF IInv
  <2>2. stages[k] \in Seq(Stages(k)) /\ Len(stages[k]) \in Nat /\ n \in Nat
    BY <2>1, LearningAssumption, LenProperties DEF Typed, TypedMemory
  <2>3. n > Len(stages[k])  BY <2>2 DEF SetRight
  <2>4. ~ (crashed \subseteq {edition})  BY <2>1 DEF Mendable, Typed, TypedMemory
  <2> QED  BY <2>3, <2>4
<1> QED  BY <1>1, <1>2, <1>3, LearningInvariant, PTL DEF LearningSpec

-------------------------------------------------------------------------------
(***************************************************************************)
(* What lift_case promises of the method it makes.                         *)
(***************************************************************************)

\* What the variables of S are where those of an example are val.
Own(val, S) == [v \in S |-> val[v]]

\* picks_out (eval/lift.py) is what a condition has to be: where it holds of the
\* bound variables' names, the planner can take the others only for what they are.
LEMMA BoundOnce ==
  ASSUME NEW facts, NEW val, NEW S \in SUBSET DOMAIN val, NEW c,
         picks_out(facts, val, S, c)
  PROVE  Bound(facts, {Own(val, S)}, c) = {Own(val, S \cup Vars(c))}
<1> DEFINE b == [v \in S |-> val[v]]
           f == FactOf(val, c)
<1>1. matches(facts, b, c) = {f}
  BY DEF picks_out
<1>2. Bound(facts, {b}, c) = {Extended(b, c, f)}
  BY <1>1 DEF Bound
<1>3. Extended(b, c, f) = [v \in S \cup Vars(c) |-> val[v]]
  <2>1. DOMAIN b = S
    OBVIOUS
  <2>2. ASSUME NEW v \in S \cup Vars(c)
        PROVE  (IF v \in S THEN b[v] ELSE f[2][CHOOSE i \in FreeIn(c) : c.reading[i].id = v]) = val[v]
    <3>1. CASE v \in S
      BY <3>1
    <3>2. CASE v \notin S
      <4> DEFINE i == CHOOSE i \in FreeIn(c) : c.reading[i].id = v
      <4>1. i \in FreeIn(c) /\ c.reading[i].id = v
        BY <3>2 DEF Vars
      <4>2. i \in DOMAIN c.reading /\ c.reading[i].free
        BY <4>1 DEF FreeIn
      <4> HIDE DEF i
      <4>3. f[2] = [j \in DOMAIN c.reading |-> Value(val, c.reading[j])]
        BY DEF FactOf
      <4>4. f[2][i] = Value(val, c.reading[i])
        BY <4>2, <4>3
      <4>5. Value(val, c.reading[i]) = val[v]
        BY <4>1, <4>2 DEF Value
      <4> QED
        BY <3>2, <4>4, <4>5 DEF i
    <3> QED
      BY <3>1, <3>2
  <2> QED
    BY <2>1, <2>2 DEF Extended
<1> QED
  BY <1>2, <1>3 DEF Own

\* A column that is not kept is the same name in all the lists: with what the
\* others are in a list, the method comes to that list.
LEMMA ListOfValues ==
  ASSUME NEW g \in Groups, NEW kept, NEW k \in DOMAIN g,
         \A c \in ColumnsOf(g) \ kept : \E x : c = [l \in DOMAIN g |-> x]
  PROVE  ListOf(g, kept, [c \in kept |-> c[k]]) = g[k].steps
<1> DEFINE b == [c \in kept |-> c[k]]
           first == g[1].steps
<1>1. 1 \in DOMAIN g /\ g[k].steps = [i \in DOMAIN first |-> <<first[i][1], [j \in DOMAIN first[i][2] |-> g[k].steps[i][2][j]]>>]
  BY GroupsAssumption DEF SameSteps
<1>2. ASSUME NEW i \in DOMAIN first, NEW j \in DOMAIN first[i][2]
      PROVE  (IF ColumnOf(g, <<i, j>>) \in kept THEN b[ColumnOf(g, <<i, j>>)] ELSE first[i][2][j]) = g[k].steps[i][2][j]
  <2> DEFINE c == ColumnOf(g, <<i, j>>)
  <2>1. c = [l \in DOMAIN g |-> g[l].steps[i][2][j]]
    BY DEF ColumnOf
  <2>2. c \in ColumnsOf(g)
    BY DEF ColumnsOf, Places
  <2>3. c[k] = g[k].steps[i][2][j] /\ c[1] = first[i][2][j]
    BY <1>1, <2>1
  <2>4. CASE c \in kept
    BY <2>3, <2>4
  <2>5. CASE c \notin kept
    <3> HIDE DEF c
    <3>1. PICK x : c = [l \in DOMAIN g |-> x]
      BY <2>2, <2>5
    <3>2. c[k] = c[1]
      BY <1>1, <3>1
    <3> QED
      BY <2>3, <2>5, <3>2 DEF c
  <2> QED
    BY <2>4, <2>5
<1>3. ASSUME NEW i \in DOMAIN first
      PROVE  [j \in DOMAIN first[i][2] |-> IF ColumnOf(g, <<i, j>>) \in kept THEN b[ColumnOf(g, <<i, j>>)] ELSE first[i][2][j]]
               = [j \in DOMAIN first[i][2] |-> g[k].steps[i][2][j]]
  BY <1>2
<1>4. ListOf(g, kept, b) = [i \in DOMAIN first |-> <<first[i][1], [j \in DOMAIN first[i][2] |-> g[k].steps[i][2][j]]>>]
  BY <1>3 DEF ListOf
<1> QED
  BY <1>1, <1>4

---------------------------------------------------------------------------
\* What tying keeps: the conditions so far leave each problem one binding, its
\* own, and what is no variable any more was a constant.
Untied == \A c \in ColumnsOf(examples) \ variables : \E x : c = [k \in K |-> x]

Tied_so_far ==
  /\ examples \in Groups
  /\ bound \subseteq variables
  /\ variables \subseteq ColumnsOf(examples)
  /\ Untied
  /\ \A k \in K : bindings[k] = {[v \in bound |-> v[k]]}
  /\ outcome = "lifted" => variables = bound

Tied == outcome = "idle" \/ Tied_so_far

LEMMA IdleTied == Idle => Tied
  BY DEF Idle, Tied

\* A candidate is made of the variables there are.
LEMMA CandidateVars ==
  ASSUME NEW es, NEW vals, NEW S, NEW c \in Candidates(es, vals, S)
  PROVE  /\ Vars(c) \subseteq DOMAIN vals[1]
         /\ \A k \in DOMAIN es : picks_out(es[k], vals[k], S, c)
<1>1. /\ c \in UNION {{[pred |-> f[1], reading |-> q] : q \in readings(vals[1], f)} : f \in es[1]}
      /\ \A k \in DOMAIN es : picks_out(es[k], vals[k], S, c)
  BY DEF Candidates
<1>2. PICK f \in es[1] : \E q \in readings(vals[1], f) : c = [pred |-> f[1], reading |-> q]
  BY <1>1
<1>3. PICK q \in readings(vals[1], f) : c = [pred |-> f[1], reading |-> q]
  BY <1>2
<1>4. q \in [DOMAIN f[2] -> UNION {choices(vals[1], f[2][i]) : i \in DOMAIN f[2]}]
  BY DEF readings
<1>5. ASSUME NEW i \in DOMAIN q, q[i].free
      PROVE  q[i].id \in DOMAIN vals[1]
  <2>1. PICK j \in DOMAIN f[2] : q[i] \in choices(vals[1], f[2][j])
    BY <1>4
  <2>2. CASE \E v \in {u \in DOMAIN vals[1] : vals[1][u] = f[2][j]} : q[i] = Var(v)
    BY <2>2 DEF Var
  <2>3. CASE \E x \in {f[2][j]} \cap CONSTANTS_ : q[i] = Is(x)
    BY <2>3, <1>5 DEF Is
  <2> QED
    BY <2>1, <2>2, <2>3 DEF choices
<1>6. Vars(c) \subseteq DOMAIN vals[1]
  BY <1>3, <1>5 DEF Vars, FreeIn
<1> QED
  BY <1>1, <1>6

LEMMA TieKeepsTied == Tied_so_far /\ Tie => Tied_so_far'
<1> SUFFICES ASSUME Tied_so_far, Tie PROVE Tied_so_far'
  OBVIOUS
<1>1. examples' = examples /\ variables' = variables /\ outcome' = outcome /\ outcome = "tying" /\ K' = K
  BY DEF Tie, K
<1>2. PICK c \in best_of : /\ bindings' = [k \in K |-> Bound(examples[k].facts, bindings[k], c)]
                           /\ bound' = bound \cup Vars(c)
  BY DEF Tie
<1>3. 1 \in K
  BY GroupsAssumption DEF Tied_so_far, K
<1> DEFINE es   == [k \in K |-> examples[k].facts]
           vals == [k \in K |-> values(k)]
<1>4. Vars(c) \subseteq DOMAIN vals[1] /\ \A k \in DOMAIN es : picks_out(es[k], vals[k], bound, c)
  BY <1>2, CandidateVars DEF best_of
<1>5. Vars(c) \subseteq variables
  BY <1>3, <1>4 DEF values
<1>6. ASSUME NEW k \in K
      PROVE  bindings'[k] = {[v \in bound' |-> v[k]]}
  <2>1. picks_out(examples[k].facts, values(k), bound, c)
    BY <1>4
  <2>2. DOMAIN values(k) = variables /\ \A v \in variables : values(k)[v] = v[k]
    BY DEF values
  <2>3. bound \in SUBSET DOMAIN values(k)
    BY <2>2 DEF Tied_so_far
  <2>4. bindings[k] = {Own(values(k), bound)}
    BY <2>2 DEF Tied_so_far, Own
  <2>5. Bound(examples[k].facts, bindings[k], c) = {Own(values(k), bound \cup Vars(c))}
    BY <2>1, <2>3, <2>4, BoundOnce
  <2>6. Own(values(k), bound \cup Vars(c)) = [v \in bound \cup Vars(c) |-> v[k]]
    BY <1>5, <2>2 DEF Tied_so_far, Own
  <2> QED
    BY <1>2, <2>5, <2>6
<1> QED
  BY <1>1, <1>2, <1>5, <1>6 DEF Tied_so_far, Untied

LEMMA StepKeepsTied == Tied /\ [LiftCaseNext]_case_vars => Tied'
<1> SUFFICES ASSUME Tied, [LiftCaseNext]_case_vars PROVE Tied'
  OBVIOUS
<1>1. CASE Tie
  BY <1>1, TieKeepsTied DEF Tied, Tie
<1>2. CASE Lifted
  <2>1. Tied_so_far /\ outcome' = "lifted" /\ variables' = bound /\ bound' = bound
          /\ examples' = examples /\ bindings' = bindings /\ K' = K
    BY <1>2 DEF Lifted, Tied, K
  <2>2. ASSUME NEW c \in ColumnsOf(examples) \ bound
        PROVE  \E x : c = [k \in K |-> x]
    <3>1. CASE c \notin variables
      BY <2>1, <3>1 DEF Tied_so_far, Untied
    <3>2. CASE c \in variables
      <4>1. c \in tentative
        BY <1>2, <3>2 DEF Lifted
      <4> QED
        BY <4>1 DEF tentative
    <3> QED
      BY <3>1, <3>2
  <2> QED
    BY <2>1, <2>2 DEF Tied, Tied_so_far, Untied
<1>3. CASE GivesUp
  <2>1. Tied_so_far /\ outcome' = "cannot lift" /\ UNCHANGED <<examples, variables, bound, bindings>>
    BY <1>3 DEF GivesUp, Tied
  <2>2. K' = K /\ outcome' # "lifted"
    BY <2>1 DEF K
  <2>3. Untied'
    BY <2>1, <2>2 DEF Tied_so_far, Untied
  <2> QED
    BY <2>1, <2>2, <2>3 DEF Tied, Tied_so_far
<1>4. ASSUME NEW g \in Groups, BeginCase(g)
      PROVE  Tied'
  <2>1. /\ examples' = g /\ variables' = ColumnsOf(g) /\ bound' = {ModuleOf(g)} /\ K' = DOMAIN g
        /\ bindings' = [k \in DOMAIN g |-> {[v \in {ModuleOf(g)} |-> v[k]]}]
        /\ outcome' # "lifted"
    BY <1>4 DEF BeginCase, K
  <2>2. bound' \subseteq variables'
    BY <2>1 DEF ColumnsOf
  <2> QED
    BY <2>1, <2>2 DEF Tied, Tied_so_far, Untied
<1>5. CASE UNCHANGED case_vars
  BY <1>5 DEF case_vars, Tied, Tied_so_far, Untied, K
<1> QED
  BY <1>1, <1>2, <1>3, <1>4, <1>5 DEF LiftCaseNext, LiftCaseStep

LEMMA TiedReproduces == Tied => Reproduces
<1> SUFFICES ASSUME Tied_so_far, outcome = "lifted", NEW k \in K
             PROVE  /\ bindings[k] = {values(k)}
                    /\ ListOf(examples, variables, values(k)) = examples[k].steps
  BY DEF Tied, Reproduces
<1>1. bindings[k] = {values(k)}
  BY DEF Tied_so_far, values
<1>2. ListOf(examples, variables, values(k)) = examples[k].steps
  <2>1. values(k) = [c \in variables |-> c[k]]
    BY DEF values
  <2>2. \A c \in ColumnsOf(examples) \ variables : \E x : c = [l \in DOMAIN examples |-> x]
    BY DEF Tied_so_far, Untied, K
  <2>3. examples \in Groups /\ k \in DOMAIN examples
    BY DEF Tied_so_far, K
  <2> QED
    BY <2>1, <2>2, <2>3, ListOfValues
<1> QED
  BY <1>1, <1>2

\* Whatever lists lift_case is given, the method it makes from them gives each of
\* their problems its own list, and the planner no choice (eval/lift.py, lift_case
\* and picks_out).
THEOREM LiftCaseReproduces == LiftCaseSpec => []Reproduces
<1>1. LiftCaseSpec => []Tied
  BY IdleTied, StepKeepsTied, PTL DEF LiftCaseSpec
<1> QED
  BY <1>1, TiedReproduces, PTL
===============================================================================
