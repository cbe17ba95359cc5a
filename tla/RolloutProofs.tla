--------------------------- MODULE RolloutProofs ---------------------------
(***************************************************************************)
(* Proofs that the plan vector of a rollout, which every call appends to   *)
(* and pops in place, is at each call the plan of its branch: what is      *)
(* scored can be executed, and the caller's plan is left as it was.        *)
(*                                                                         *)
(* Replay is a recursive function, so what it returns is proved by         *)
(* induction: two of its traces that differ differ at a least place.       *)
(***************************************************************************)
EXTENDS Rollout, NetworkProofs

\* f lists the states that executing steps from s goes through: the equation
\* of the function in Replay.
IsTrace(f, s, steps) ==
  f = [k \in 0 .. Len(steps) |->
         IF k = 0 THEN [ok |-> TRUE, state |-> s]
         ELSE LET a == steps[k][1] IN
              [ ok    |-> f[k - 1].ok /\ Holds(ActionDefs[a].pre, f[k - 1].state),
                state |-> NewState(f[k - 1].state, a) ]]

\* Executing steps from s gets through, to t.
Executes(s, steps, t) ==
  \E f : IsTrace(f, s, steps) /\ f[Len(steps)] = [ok |-> TRUE, state |-> t]

IsFrame(f) ==
  /\ f = [ node |-> f.node, budget |-> f.budget, step |-> f.step,
           entered |-> f.entered, todo |-> f.todo, loop |-> f.loop ]
  /\ \E S : f.step \in Seq(S)

Typed ==
  /\ \E S : stack \in Seq(S)
  /\ \A j \in 1 .. Len(stack) : IsFrame(stack[j])
  /\ \E S : dive \in Seq(S)

\* mark[j] is how much of the plan is there when call j begins: what the calls up
\* to it appended. That much of the plan leads to the state of its node.
Marks(mark) ==
  /\ mark \in [1 .. Len(stack) -> 0 .. Len(dive)]
  /\ mark[1] = 0 /\ mark[Len(stack)] = Len(dive)
  /\ \A j \in 2 .. Len(stack) : mark[j] = mark[j - 1] + Len(stack[j].step)
  /\ \A j \in 1 .. Len(stack) : Executes(options.start.state, SubSeq(dive, 1, mark[j]), stack[j].node.state)

OnBranch ==
  IF stack = <<>> THEN dive = <<>>
  ELSE stack[1].step = <<>> /\ \E mark : Marks(mark)

ScoredExecutes ==
  \A p \in scored : Len(p.plan) \in Nat /\ Executes(options.start.state, p.plan, p.state)

\* The inductive invariant.
IInv == Typed /\ OnBranch /\ ScoredExecutes

---------------------------------------------------------------------------
\* The equation determines the trace.
LEMMA OneTrace ==
  ASSUME NEW s, NEW steps, Len(steps) \in Nat,
         NEW f, IsTrace(f, s, steps), NEW g, IsTrace(g, s, steps)
  PROVE  f = g
<1> DEFINE Differ == {k \in 0 .. Len(steps) : f[k] # g[k]}
<1>1. SUFFICES ASSUME Differ # {} PROVE FALSE
  <2>1. f = [k \in 0 .. Len(steps) |-> f[k]] /\ g = [k \in 0 .. Len(steps) |-> g[k]]  BY DEF IsTrace
  <2>2. Differ = {} => \A k \in 0 .. Len(steps) : f[k] = g[k]  OBVIOUS
  <2> HIDE DEF Differ
  <2> QED  BY <2>1, <2>2
<1>2. Differ \subseteq Nat  OBVIOUS
<1>3. PICK k \in Differ : \A l \in Differ : k <= l
  <2> HIDE DEF Differ
  <2> QED  BY <1>1, <1>2, Least
<1>4. k \in 0 .. Len(steps) /\ f[k] # g[k]  OBVIOUS
<1>5. k # 0  BY <1>4 DEF IsTrace
<1>6. k - 1 \in 0 .. Len(steps) /\ k - 1 \notin Differ  BY <1>3, <1>4, <1>5
<1>7. f[k - 1] = g[k - 1]  BY <1>6
<1>8. f[k] = g[k]  BY <1>4, <1>5, <1>7 DEF IsTrace
<1> QED  BY <1>4, <1>8

\* So Replay returns what executing the steps comes to.
LEMMA ReplayExecutes ==
  ASSUME NEW s, NEW steps, Len(steps) \in Nat, NEW t, Executes(s, steps, t)
  PROVE  Replay(s, steps) = [ok |-> TRUE, state |-> t]
<1>1. PICK f : IsTrace(f, s, steps) /\ f[Len(steps)] = [ok |-> TRUE, state |-> t]  BY DEF Executes
<1> DEFINE g == CHOOSE h : IsTrace(h, s, steps)
<1>2. IsTrace(g, s, steps)  BY <1>1
<1>3. Replay(s, steps) = g[Len(steps)]  BY DEF Replay, IsTrace
<1> HIDE DEF g
<1>4. f = g  BY <1>1, <1>2, OneTrace
<1> QED  BY <1>1, <1>3, <1>4

\* Executing no step, and one step more.
LEMMA ExecutesNone == \A s : Executes(s, <<>>, s)
<1> TAKE s
<1> DEFINE f == [k \in 0 .. 0 |-> [ok |-> TRUE, state |-> s]]
<1>1. Len(<<>>) = 0 /\ \A k \in 0 .. 0 : k = 0  OBVIOUS
<1>2. IsTrace(f, s, <<>>)  BY <1>1 DEF IsTrace
<1>3. f[Len(<<>>)] = [ok |-> TRUE, state |-> s]  BY <1>1
<1> QED  BY <1>2, <1>3 DEF Executes

LEMMA ExecutesOneMore ==
  ASSUME NEW S, NEW steps \in Seq(S), NEW s, NEW t, Executes(s, steps, t),
         NEW a, NEW i, Holds(ActionDefs[a].pre, t)
  PROVE  Executes(s, steps \o << <<a, i>> >>, NewState(t, a))
<1> DEFINE n    == Len(steps)
           more == steps \o << <<a, i>> >>
<1>1. PICK f : IsTrace(f, s, steps) /\ f[n] = [ok |-> TRUE, state |-> t]  BY DEF Executes
<1>2. n \in Nat /\ Len(more) = n + 1 /\ more[n + 1] = <<a, i>> /\ \A k \in 1 .. n : more[k] = steps[k]
  <2> DEFINE T == S \cup {<<a, i>>}
  <2>1. steps \in Seq(T) /\ << <<a, i>> >> \in Seq(T) /\ Len(<< <<a, i>> >>) = 1 /\ << <<a, i>> >>[1] = <<a, i>>
    BY SeqMonotonic
  <2> HIDE DEF T
  <2> QED  BY <2>1, ConcatProperties, LenProperties
<1> DEFINE g == [k \in 0 .. n + 1 |->
                   IF k <= n THEN f[k] ELSE [ok |-> TRUE, state |-> NewState(t, a)]]
<1>3. g[n + 1] = [ok |-> TRUE, state |-> NewState(t, a)] /\ \A k \in 0 .. n : g[k] = f[k]  BY <1>2
<1>4. ASSUME NEW k \in 0 .. n + 1
      PROVE  g[k] = IF k = 0 THEN [ok |-> TRUE, state |-> s]
                    ELSE [ ok    |-> g[k - 1].ok /\ Holds(ActionDefs[more[k][1]].pre, g[k - 1].state),
                           state |-> NewState(g[k - 1].state, more[k][1]) ]
  <2> HIDE DEF g, more
  <2>1. CASE k = n + 1
    <3>1. g[k - 1] = [ok |-> TRUE, state |-> t]  BY <1>1, <1>2, <1>3, <2>1
    <3>2. more[k][1] = a  BY <1>2, <2>1
    <3>3. g[k - 1].ok = TRUE /\ g[k - 1].state = t /\ k # 0  BY <1>2, <2>1, <3>1
    <3> QED  BY <1>3, <2>1, <3>2, <3>3
  <2>2. CASE k = 0
    <3>1. f[0] = [ok |-> TRUE, state |-> s]  BY <1>1, <1>2 DEF IsTrace
    <3> QED  BY <1>2, <1>3, <2>2, <3>1
  <2>3. CASE k \in 1 .. n
    <3>1. g[k] = f[k] /\ g[k - 1] = f[k - 1] /\ more[k] = steps[k]  BY <1>2, <1>3, <2>3
    <3>2. f[k] = [ ok    |-> f[k - 1].ok /\ Holds(ActionDefs[steps[k][1]].pre, f[k - 1].state),
                   state |-> NewState(f[k - 1].state, steps[k][1]) ]
      BY <1>1, <1>2, <2>3 DEF IsTrace
    <3> QED  BY <2>3, <3>1, <3>2
  <2> QED  BY <1>2, <2>1, <2>2, <2>3
<1>5. g = [k \in 0 .. n + 1 |-> g[k]]  OBVIOUS
<1> HIDE DEF g
<1>6. IsTrace(g, s, more)
  <2> HIDE DEF more
  <2> QED  BY <1>2, <1>4, <1>5 DEF IsTrace
<1> QED  BY <1>2, <1>3, <1>6 DEF Executes

\* A prefix of an extended plan, up to where it was extended.
LEMMA PrefixKept ==
  ASSUME NEW S, NEW p \in Seq(S), NEW T, NEW q \in Seq(T)
  PROVE  /\ p \o q \in Seq(S \cup T) /\ Len(p \o q) = Len(p) + Len(q)
         /\ Len(p) \in Nat /\ Len(q) \in Nat
         /\ \A m \in 0 .. Len(p) : SubSeq(p \o q, 1, m) = SubSeq(p, 1, m)
<1>1. p \in Seq(S \cup T) /\ q \in Seq(S \cup T)  BY SeqMonotonic
<1>2. p \o q \in Seq(S \cup T) /\ Len(p \o q) = Len(p) + Len(q) /\ Len(p) \in Nat /\ Len(q) \in Nat
  BY <1>1, ConcatProperties, LenProperties
<1>3. ASSUME NEW m \in 0 .. Len(p) PROVE SubSeq(p \o q, 1, m) = SubSeq(p, 1, m)
  <2>1. CASE m = 0  BY <2>1, SubSeqEmpty
  <2>2. CASE m # 0
    <3>1. m \in 1 .. Len(p) /\ 1 \in 1 .. Len(p)  BY <1>2, <2>2
    <3> QED  BY <1>1, <3>1, SubSeqOfConcat1
  <2> QED  BY <2>1, <2>2
<1> QED  BY <1>2, <1>3

\* The whole of a plan and what is left of a prefix.
LEMMA PrefixOfPrefix ==
  ASSUME NEW S, NEW p \in Seq(S), NEW n \in 0 .. Len(p)
  PROVE  /\ SubSeq(p, 1, n) \in Seq(S) /\ Len(SubSeq(p, 1, n)) = n
         /\ SubSeq(p, 1, Len(p)) = p
         /\ \A m \in 0 .. n : SubSeq(SubSeq(p, 1, n), 1, m) = SubSeq(p, 1, m)
<1>1. Len(p) \in Nat /\ n \in Nat /\ \A i \in 1 .. n : p[i] \in S  BY LenProperties, ElementOfSeq
<1>2. SubSeq(p, 1, n) \in Seq(S) /\ Len(SubSeq(p, 1, n)) = n /\ SubSeq(p, 1, Len(p)) = p
  BY <1>1, SubSeqProperties, SubSeqFull
<1>3. ASSUME NEW m \in 0 .. n PROVE SubSeq(SubSeq(p, 1, n), 1, m) = SubSeq(p, 1, m)
  <2>1. CASE m = 0  BY <2>1, SubSeqEmpty
  <2>2. CASE m # 0
    <3>1. 1 \in 1 .. Len(p) /\ n \in 1 .. Len(p) /\ 1 \in 1 .. n - 1 + 1 /\ m \in 1 .. n - 1 + 1  BY <1>1, <2>2
    <3>2. SubSeq(SubSeq(p, 1, n), 1, m) = SubSeq(p, 1 + 1 - 1, 1 + m - 1)  BY <3>1, SubSeqOfSubSeq
    <3> QED  BY <1>1, <3>2
  <2> QED  BY <2>1, <2>2
<1> QED  BY <1>2, <1>3

---------------------------------------------------------------------------
\* While a call is active, the plan vector leads to its node.
LEMMA TopFacts ==
  ASSUME IInv, stack # <<>>
  PROVE  /\ Len(stack) \in Nat \ {0} /\ IsFrame(Top)
         /\ Executes(options.start.state, dive, TopState)
<1>1. PICK S : stack \in Seq(S)  BY DEF IInv, Typed
<1>2. Len(stack) \in Nat \ {0}  BY <1>1, EmptySeq
<1>3. IsFrame(Top)  BY <1>2 DEF IInv, Typed, Top
<1>4. PICK mark : Marks(mark)  BY DEF IInv, OnBranch
<1>5. Executes(options.start.state, SubSeq(dive, 1, Len(dive)), TopState)
  BY <1>2, <1>4 DEF Marks, TopState, Top
<1>6. SubSeq(dive, 1, Len(dive)) = dive
  <2>1. PICK T : dive \in Seq(T)  BY DEF IInv, Typed
  <2> QED  BY <2>1, SubSeqFull
<1> QED  BY <1>2, <1>3, <1>5, <1>6

\* The active call's frame replaced by one with the same node and step.
LEMMA UpdateFacts ==
  ASSUME IInv, stack # <<>>, NEW frame, IsFrame(frame), frame.node = Top.node, frame.step = Top.step
  PROVE  LET u == Update(frame) IN
         /\ \E S : u \in Seq(S)
         /\ Len(u) = Len(stack) /\ u # <<>>
         /\ \A j \in 1 .. Len(stack) :
              IsFrame(u[j]) /\ u[j].node = stack[j].node /\ u[j].step = stack[j].step
<1> DEFINE u == Update(frame)
<1>1. PICK S : stack \in Seq(S)  BY DEF IInv, Typed
<1>2. Len(stack) \in Nat \ {0}  BY TopFacts
<1>3. stack \in Seq(S \cup {frame})  BY <1>1, SeqMonotonic
<1>4. /\ u \in Seq(S \cup {frame}) /\ Len(u) = Len(stack)
      /\ \A j \in 1 .. Len(stack) : u[j] = IF j = Len(stack) THEN frame ELSE stack[j]
  <2>1. Len(stack) \in 1 .. Len(stack)  BY <1>2
  <2> QED  BY <1>3, <2>1, ExceptSeq DEF Update
<1> HIDE DEF u
<1>5. u # <<>>  BY <1>2, <1>4, EmptySeq
<1>6. ASSUME NEW j \in 1 .. Len(stack)
      PROVE  IsFrame(u[j]) /\ u[j].node = stack[j].node /\ u[j].step = stack[j].step
  <2>1. CASE j = Len(stack)  BY <1>4, <2>1 DEF Top
  <2>2. CASE j # Len(stack)  BY <1>4, <2>2 DEF IInv, Typed
  <2> QED  BY <2>1, <2>2
<1>7. (\E Q : u \in Seq(Q)) /\ Len(u) = Len(stack)  BY <1>4
<1> QED  BY <1>5, <1>6, <1>7 DEF u

\* What the loops change of a frame is neither its node nor its step.
SameCall(f, g) == IsFrame(g) /\ g.node = f.node /\ g.step = f.step

\* A frame with other candidates and another loop, and the updates that make it.
Frame(f, e, t, l) ==
  [ node |-> f.node, budget |-> f.budget, step |-> f.step, entered |-> e, todo |-> t, loop |-> l ]

LEMMA FrameParts ==
  ASSUME NEW f, IsFrame(f)
  PROVE  \E n, b, s, e0, t0, l0 :
           f = [node |-> n, budget |-> b, step |-> s, entered |-> e0, todo |-> t0, loop |-> l0]
BY DEF IsFrame

LEMMA FrameTodo ==
  ASSUME NEW f, IsFrame(f), NEW t
  PROVE  [f EXCEPT !.todo = t] = Frame(f, f.entered, t, f.loop)
BY FrameParts DEF Frame

LEMMA FrameLoop ==
  ASSUME NEW f, IsFrame(f), NEW l
  PROVE  [f EXCEPT !.loop = l] = Frame(f, f.entered, f.todo, l)
BY FrameParts DEF Frame

LEMMA FrameSame ==
  ASSUME NEW f, IsFrame(f), NEW e, NEW t, NEW l
  PROVE  SameCall(f, Frame(f, e, t, l)) /\ IsFrame(Frame(f, e, t, l))
<1>1. PICK S : f.step \in Seq(S)  BY DEF IsFrame
<1> DEFINE h == Frame(f, e, t, l)
<1>2. h = [ node |-> h.node, budget |-> h.budget, step |-> h.step,
            entered |-> h.entered, todo |-> h.todo, loop |-> h.loop ]
      /\ h.step = f.step /\ h.node = f.node
  BY DEF Frame
<1> HIDE DEF h
<1>3. IsFrame(h)  BY <1>1, <1>2 DEF IsFrame
<1> QED  BY <1>2, <1>3 DEF SameCall, h

LEMMA FrameTodoLoop ==
  ASSUME NEW f, IsFrame(f), NEW t, NEW l
  PROVE  [f EXCEPT !.todo = t, !.loop = l] = Frame(f, f.entered, t, l)
<1> DEFINE h == [f EXCEPT !.todo = t]
<1>1. [f EXCEPT !.todo = t, !.loop = l] = [h EXCEPT !.loop = l]  OBVIOUS
<1>2. h = Frame(f, f.entered, t, f.loop)  BY FrameTodo
<1> HIDE DEF h
<1>3. [h EXCEPT !.loop = l] = Frame(h, h.entered, h.todo, l)  BY <1>2, FrameSame, FrameLoop
<1>4. Frame(h, h.entered, h.todo, l) = Frame(f, f.entered, t, l)  BY <1>2 DEF Frame
<1> QED  BY <1>1, <1>3, <1>4

LEMMA FrameEnter ==
  ASSUME NEW f, IsFrame(f), NEW e, NEW t
  PROVE  [f EXCEPT !.entered = e, !.todo = t] = Frame(f, e, t, f.loop)
<1> DEFINE h == [f EXCEPT !.entered = e]
<1>1. [f EXCEPT !.entered = e, !.todo = t] = [h EXCEPT !.todo = t]  OBVIOUS
<1>2. h = Frame(f, e, f.todo, f.loop)  BY FrameParts DEF Frame
<1> HIDE DEF h
<1>3. [h EXCEPT !.todo = t] = Frame(h, h.entered, t, h.loop)  BY <1>2, FrameSame, FrameTodo
<1>4. Frame(h, h.entered, t, h.loop) = Frame(f, e, t, f.loop)  BY <1>2 DEF Frame
<1> QED  BY <1>1, <1>3, <1>4

LEMMA FrameUpdates ==
  ASSUME NEW f, IsFrame(f), NEW e, NEW t, NEW l
  PROVE  /\ SameCall(f, [f EXCEPT !.todo = t])
         /\ SameCall(f, [f EXCEPT !.loop = l])
         /\ SameCall(f, [f EXCEPT !.todo = t, !.loop = l])
         /\ SameCall(f, [f EXCEPT !.entered = e, !.todo = t])
<1>1. SameCall(f, [f EXCEPT !.todo = t])  BY FrameTodo, FrameSame
<1>2. SameCall(f, [f EXCEPT !.loop = l])  BY FrameLoop, FrameSame
<1>3. SameCall(f, [f EXCEPT !.todo = t, !.loop = l])
  <2>1. [f EXCEPT !.todo = t, !.loop = l] = Frame(f, f.entered, t, l)  BY FrameTodoLoop, Zenon
  <2>2. SameCall(f, Frame(f, f.entered, t, l))  BY FrameSame
  <2> QED  BY <2>1, <2>2
<1>4. SameCall(f, [f EXCEPT !.entered = e, !.todo = t])
  <2>1. [f EXCEPT !.entered = e, !.todo = t] = Frame(f, e, t, f.loop)  BY FrameEnter, Zenon
  <2>2. SameCall(f, Frame(f, e, t, f.loop))  BY FrameSame
  <2> QED  BY <2>1, <2>2
<1> QED  BY <1>1, <1>2, <1>3, <1>4

\* A step that leaves the plan, and of the active call the node and the step.
LEMMA ContinueKeeps ==
  ASSUME IInv, stack # <<>>, NEW frame, IsFrame(frame), frame.node = Top.node, frame.step = Top.step,
         Continue(frame)
  PROVE  IInv'
<1>1. stack' = Update(frame) /\ dive' = dive /\ options' = options /\ scored' = scored  BY DEF Continue
<1>2. /\ \E S : stack' \in Seq(S)
      /\ Len(stack') = Len(stack) /\ stack' # <<>>
      /\ \A j \in 1 .. Len(stack) :
           IsFrame(stack'[j]) /\ stack'[j].node = stack[j].node /\ stack'[j].step = stack[j].step
  BY <1>1, UpdateFacts
<1>3. Typed'  BY <1>1, <1>2 DEF IInv, Typed, IsFrame
<1>4. OnBranch'
  <2>1. PICK mark : Marks(mark)  BY DEF IInv, OnBranch
  <2>2. Len(stack) \in Nat \ {0}  BY TopFacts
  <2>3. stack'[1].step = <<>>  BY <1>2, <2>2 DEF IInv, OnBranch
  <2>4. Marks(mark)'
    <3>1. \A j \in 2 .. Len(stack) : mark[j] = mark[j - 1] + Len(stack'[j].step)
      BY <1>2, <2>1, <2>2 DEF Marks
    <3>2. \A j \in 1 .. Len(stack) : Executes(options.start.state, SubSeq(dive, 1, mark[j]), stack'[j].node.state)
      BY <1>2, <2>1 DEF Marks
    <3> QED  BY <1>1, <1>2, <2>1, <3>1, <3>2 DEF Marks
  <2> QED  BY <1>2, <2>3, <2>4 DEF OnBranch
<1>5. ScoredExecutes'  BY <1>1 DEF IInv, ScoredExecutes
<1> QED  BY <1>3, <1>4, <1>5 DEF IInv

\* A call on a child whose step leads from the caller's node to its own.
LEMMA RecurseKeeps ==
  ASSUME IInv, stack # <<>>, NEW frame, IsFrame(frame), frame.node = Top.node, frame.step = Top.step,
         NEW d, NEW D, d.step \in Seq(D), Recurse(frame, d),
         Executes(options.start.state, dive \o d.step, d.state)
  PROVE  IInv'
<1> DEFINE u == Update(frame)
           c == Call(d, Top.budget - 1, d.step)
           n == Len(stack)
<1>1. stack' = Append(u, c) /\ dive' = dive \o d.step /\ options' = options /\ scored' = scored  BY DEF Recurse
<1>2. /\ \E S : u \in Seq(S)
      /\ Len(u) = n /\ u # <<>>
      /\ \A j \in 1 .. n : IsFrame(u[j]) /\ u[j].node = stack[j].node /\ u[j].step = stack[j].step
  BY UpdateFacts
<1>3. n \in Nat \ {0}  BY TopFacts
<1>4. IsFrame(c) /\ c.step = d.step /\ c.node.state = d.state  BY DEF Call, IsFrame, Node
<1> HIDE DEF u, c
<1>5. PICK S : u \in Seq(S)  BY <1>2
<1>6. /\ stack' \in Seq(S \cup {c}) /\ Len(stack') = n + 1 /\ stack' # <<>> /\ stack'[n + 1] = c
      /\ \A j \in 1 .. n : stack'[j] = u[j]
  <2>1. u \in Seq(S \cup {c})  BY <1>5, SeqMonotonic
  <2> QED  BY <1>1, <1>2, <2>1, AppendProperties
<1>7. PICK T : dive \in Seq(T)  BY DEF IInv, Typed
<1>8. /\ dive' \in Seq(T \cup D) /\ Len(dive') = Len(dive) + Len(d.step)
      /\ Len(dive) \in Nat /\ Len(d.step) \in Nat
      /\ \A m \in 0 .. Len(dive) : SubSeq(dive', 1, m) = SubSeq(dive, 1, m)
  BY <1>1, <1>7, PrefixKept
<1>9. Typed'
  <2>1. \A j \in 1 .. Len(stack') : IsFrame(stack'[j])
    <3> SUFFICES ASSUME NEW j \in 1 .. n + 1 PROVE IsFrame(stack'[j])
      BY <1>6
    <3>1. CASE j = n + 1  BY <1>4, <1>6, <3>1
    <3>2. CASE j \in 1 .. n  BY <1>2, <1>6, <3>2
    <3> QED  BY <1>3, <3>1, <3>2
  <2> QED  BY <1>6, <1>8, <2>1 DEF Typed, IsFrame
<1>10. OnBranch'
  <2>1. PICK mark : Marks(mark)  BY DEF IInv, OnBranch
  <2> DEFINE more == [j \in 1 .. n + 1 |-> IF j = n + 1 THEN Len(dive') ELSE mark[j]]
  <2>2. \A j \in 1 .. n : mark[j] \in 0 .. Len(dive)  BY <2>1 DEF Marks
  <2>3. more[n + 1] = Len(dive') /\ \A j \in 1 .. n : more[j] = mark[j]  BY <1>3
  <2>4. more \in [1 .. n + 1 -> 0 .. Len(dive')]
    <3>1. \A j \in 1 .. n + 1 : more[j] \in 0 .. Len(dive')  BY <1>3, <1>8, <2>2, <2>3
    <3> QED  BY <3>1
  <2> HIDE DEF more
  <2>5. mark[1] = 0 /\ mark[n] = Len(dive)  BY <2>1 DEF Marks
  <2>6. ASSUME NEW j \in 2 .. n + 1 PROVE more[j] = more[j - 1] + Len(stack'[j].step)
    <3>1. CASE j = n + 1
      <4>1. more[j] = Len(dive) + Len(d.step) /\ stack'[j].step = d.step  BY <1>4, <1>6, <1>8, <2>3, <3>1
      <4>2. j - 1 = n /\ n \in 1 .. n  BY <1>3, <3>1
      <4>3. more[j - 1] = Len(dive)  BY <2>3, <2>5, <4>2
      <4> QED  BY <4>1, <4>3
    <3>2. CASE j \in 2 .. n
      <4>1. mark[j] = mark[j - 1] + Len(stack[j].step)  BY <2>1, <3>2 DEF Marks
      <4>2. stack'[j].step = stack[j].step  BY <1>2, <1>3, <1>6, <3>2
      <4> QED  BY <1>3, <2>3, <3>2, <4>1, <4>2
    <3> QED  BY <1>3, <3>1, <3>2
  <2>7. ASSUME NEW j \in 1 .. n + 1
        PROVE  Executes(options.start.state, SubSeq(dive', 1, more[j]), stack'[j].node.state)
    <3>1. CASE j = n + 1
      <4>1. SubSeq(dive', 1, Len(dive')) = dive'  BY <1>8, SubSeqFull
      <4> QED  BY <1>1, <1>4, <1>6, <2>3, <3>1, <4>1
    <3>2. CASE j \in 1 .. n
      <4>1. Executes(options.start.state, SubSeq(dive, 1, mark[j]), stack[j].node.state)  BY <2>1, <3>2 DEF Marks
      <4>2. SubSeq(dive', 1, more[j]) = SubSeq(dive, 1, mark[j])  BY <1>8, <2>2, <2>3, <3>2
      <4> QED  BY <1>2, <1>6, <3>2, <4>1, <4>2
    <3> QED  BY <1>3, <3>1, <3>2
  <2>8. \E w : Marks(w)'
    <3> PICK w : w = more  OBVIOUS
    <3>1. w[1] = 0 /\ w[Len(stack')] = Len(dive')  BY <1>3, <1>6, <2>3, <2>5
    <3>2. w \in [1 .. Len(stack') -> 0 .. Len(dive')]  BY <1>6, <2>4
    <3>3. \A j \in 2 .. Len(stack') : w[j] = w[j - 1] + Len(stack'[j].step)  BY <1>6, <2>6
    <3>4. \A j \in 1 .. Len(stack') :
            Executes(options'.start.state, SubSeq(dive', 1, w[j]), stack'[j].node.state)
      BY <1>1, <1>6, <2>7
    <3> QED  BY <3>1, <3>2, <3>3, <3>4 DEF Marks
  <2>9. stack'[1].step = <<>>  BY <1>2, <1>3, <1>6 DEF IInv, OnBranch
  <2> QED  BY <1>6, <2>8, <2>9 DEF OnBranch
<1>11. ScoredExecutes'  BY <1>1 DEF IInv, ScoredExecutes
<1> QED  BY <1>9, <1>10, <1>11 DEF IInv

\* A call returns, and its caller pops the step: what is left is the plan the
\* caller had when it began.
LEMMA LeaveKeeps ==
  ASSUME IInv, stack # <<>>, NEW status, Leave(status)
  PROVE  Typed' /\ OnBranch'
<1> DEFINE n == Len(stack)
<1>1. stack' = SubSeq(stack, 1, n - 1) /\ dive' = SubSeq(dive, 1, Len(dive) - Len(Top.step)) /\ options' = options
  BY DEF Leave, Below
<1>2. n \in Nat \ {0}  BY TopFacts
<1>3. PICK S : stack \in Seq(S)  BY DEF IInv, Typed
<1>4. PICK T : dive \in Seq(T)  BY DEF IInv, Typed
<1>5. PICK mark : Marks(mark)  BY DEF IInv, OnBranch
<1>6. Len(dive) \in Nat  BY <1>4, LenProperties
<1>a. \A j \in 1 .. n : mark[j] \in Nat
  <2>1. mark \in [1 .. n -> 0 .. Len(dive)]  BY <1>5 DEF Marks
  <2> HIDE DEF n
  <2> QED  BY <1>6, <2>1
<1>7. stack' \in Seq(S) /\ Len(stack') = n - 1 /\ \A j \in 1 .. n - 1 : stack'[j] = stack[j]
  <2>1. \A i \in 1 .. n - 1 : stack[i] \in S  BY <1>2, <1>3, ElementOfSeq
  <2>2. /\ SubSeq(stack, 1, n - 1) \in Seq(S)
        /\ Len(SubSeq(stack, 1, n - 1)) = IF 1 <= n - 1 THEN (n - 1) - 1 + 1 ELSE 0
        /\ \A i \in 1 .. (n - 1) - 1 + 1 : SubSeq(stack, 1, n - 1)[i] = stack[1 + i - 1]
    <3>1. n - 1 \in Int  BY <1>2
    <3> QED  BY <2>1, <3>1, SubSeqProperties
  <2> HIDE DEF n
  <2> QED  BY <1>1, <1>2, <2>2
<1>8. CASE n = 1
  <2>1. stack' = <<>>  BY <1>1, <1>8, SubSeqEmpty
  <2>2. Len(dive) = 0 /\ Top.step = <<>>  BY <1>5, <1>8 DEF Marks, IInv, OnBranch, Top
  <2>3. Len(dive) - Len(Top.step) = 0
    <3>1. SubSeq(dive, 1, 0) = <<>> /\ Len(SubSeq(dive, 1, 0)) = 0  BY SubSeqEmpty
    <3>2. Len(Top.step) = 0  BY <2>2, <3>1
    <3>3. Len(dive) = 0  BY <2>2
    <3> QED  BY <3>2, <3>3
  <2>4. dive' = <<>>  BY <1>1, <2>3, SubSeqEmpty
  <2>5. Len(stack') = 0 /\ dive' \in Seq(T)  BY <2>1, <2>4
  <2>6. Typed'
    <3>1. \A j \in 1 .. Len(stack') : FALSE  BY <2>5
    <3> QED  BY <1>7, <2>5, <3>1 DEF Typed
  <2> QED  BY <2>1, <2>4, <2>6 DEF OnBranch
<1>9. CASE n # 1
  <2> DEFINE m == mark[n - 1]
  <2>1. n \in 2 .. n /\ n - 1 \in 1 .. n
    <3> HIDE DEF n
    <3> QED  BY <1>2, <1>9
  <2>2. mark[n] = m + Len(Top.step) /\ mark[n] = Len(dive) /\ m \in 0 .. Len(dive)
    BY <2>1, <1>5 DEF Marks, Top
  <2>3. Len(Top.step) \in Nat
    <3>1. PICK Q : Top.step \in Seq(Q)  BY TopFacts DEF IsFrame
    <3> QED  BY <3>1, LenProperties
  <2>4. dive' = SubSeq(dive, 1, m)
    <3>1. Len(dive) - Len(Top.step) = m  BY <1>6, <2>2, <2>3
    <3> QED  BY <1>1, <3>1
  <2>5. /\ dive' \in Seq(T) /\ Len(dive') = m
        /\ \A k \in 0 .. m : SubSeq(dive', 1, k) = SubSeq(dive, 1, k)
    BY <1>4, <2>2, <2>4, PrefixOfPrefix
  <2>6. stack' # <<>>  BY <1>2, <1>7, <1>9, EmptySeq
  <2>7. Typed'
    <3>1. \A j \in 1 .. Len(stack') : IsFrame(stack'[j])  BY <1>2, <1>7 DEF IInv, Typed
    <3> QED  BY <1>7, <2>5, <3>1 DEF Typed, IsFrame
  <2> DEFINE less == [j \in 1 .. n - 1 |-> mark[j]]
  <2>8. ASSUME NEW j \in 1 .. n - 1 PROVE less[j] \in 0 .. m /\ less[j] = mark[j]
    <3>1. \A i, k \in 1 .. n : i <= k => mark[i] <= mark[k]
      <4> SUFFICES ASSUME NEW i \in 1 .. n, NEW k \in 1 .. n, i <= k, ~ mark[i] <= mark[k] PROVE FALSE
        OBVIOUS
      <4> DEFINE Drop == {x \in i .. n : mark[x] < mark[i]}
      <4>1. Drop \subseteq Nat /\ k \in Drop  BY <1>2, <1>a
      <4>2. PICK x \in Drop : \A y \in Drop : x <= y
        <5> HIDE DEF Drop
        <5> QED  BY <4>1, Least
      <4>3. x \in 1 .. n /\ x # i /\ i < x /\ mark[x] < mark[i]
        <5> HIDE DEF n
        <5> QED  BY <1>2, <1>a
      <4>4. mark[x] = mark[x - 1] + Len(stack[x].step)  BY <1>2, <1>5, <4>3 DEF Marks
      <4>5. Len(stack[x].step) \in Nat
        <5>1. IsFrame(stack[x])  BY <4>3 DEF IInv, Typed
        <5>2. PICK Q : stack[x].step \in Seq(Q)  BY <5>1 DEF IsFrame
        <5> QED  BY <5>2, LenProperties
      <4>6. x - 1 \in 1 .. n /\ x - 1 >= i  BY <1>2, <4>3
      <4>7. mark[x - 1] \in Nat /\ mark[i] \in Nat  BY <1>a, <4>6
      <4>8. x - 1 \in Drop  BY <1>2, <4>3, <4>4, <4>5, <4>6, <4>7
      <4> QED  BY <1>2, <4>2, <4>3, <4>8
    <3>2. mark[j] \in Nat  BY <1>2, <1>a
    <3>3. mark[j] <= m  BY <1>2, <2>1, <3>1
    <3> QED  BY <1>6, <2>2, <3>2, <3>3
  <2>9. \E w : Marks(w)'
    <3> PICK w : w = less  OBVIOUS
    <3>1. w \in [1 .. Len(stack') -> 0 .. Len(dive')]  BY <1>7, <2>5, <2>8
    <3> HIDE DEF m
    <3>2. w[1] = 0 /\ w[Len(stack')] = Len(dive')
      <4>1. mark[1] = 0  BY <1>5 DEF Marks
      <4>2. 1 \in 1 .. n - 1 /\ n - 1 \in 1 .. n - 1
        <5> HIDE DEF n
        <5> QED  BY <1>2, <1>9
      <4> HIDE DEF less
      <4> QED  BY <1>7, <2>5, <2>8, <4>1, <4>2 DEF m
    <3>3. ASSUME NEW j \in 2 .. n - 1 PROVE less[j] = less[j - 1] + Len(stack'[j].step)
      <4>1. mark[j] = mark[j - 1] + Len(stack[j].step)  BY <1>2, <1>5 DEF Marks
      <4>2. j \in 1 .. n - 1 /\ j - 1 \in 1 .. n - 1  BY <1>2
      <4> HIDE DEF less
      <4> QED  BY <1>7, <2>8, <4>1, <4>2
    <3>4. ASSUME NEW j \in 1 .. n - 1
          PROVE  Executes(options.start.state, SubSeq(dive', 1, less[j]), stack'[j].node.state)
      <4>1. Executes(options.start.state, SubSeq(dive, 1, mark[j]), stack[j].node.state)
        BY <1>2, <1>5 DEF Marks
      <4>2. SubSeq(dive', 1, less[j]) = SubSeq(dive, 1, mark[j])  BY <2>5, <2>8
      <4> HIDE DEF less
      <4> QED  BY <1>7, <4>1, <4>2
    <3> HIDE DEF less
    <3>5. \A j \in 2 .. Len(stack') : w[j] = w[j - 1] + Len(stack'[j].step)  BY <1>7, <3>3
    <3>6. \A j \in 1 .. Len(stack') :
            Executes(options'.start.state, SubSeq(dive', 1, w[j]), stack'[j].node.state)
      BY <1>1, <1>7, <3>4
    <3> QED  BY <3>1, <3>2, <3>5, <3>6 DEF Marks
  <2>10. stack'[1].step = <<>>
    <3>1. 1 \in 1 .. n - 1  BY <1>2, <1>9
    <3> QED  BY <1>7, <3>1 DEF IInv, OnBranch
  <2> QED  BY <2>6, <2>7, <2>9, <2>10 DEF OnBranch
<1> QED  BY <1>8, <1>9

---------------------------------------------------------------------------
\* At the first call nothing is in the plan.
LEMMA RolloutInit == RInit => IInv
<1> SUFFICES ASSUME RInit PROVE IInv
  OBVIOUS
<1>a. PICK restrict \in 0 .. 3, lookahead \in BOOLEAN, start \in Starts :
        LET c == [state |-> start, net |-> InitialNetwork(Root)] IN
        /\ options = [restrict |-> restrict, lookahead |-> lookahead, start |-> c]
        /\ stack = <<Call(c, MaxDepth, <<>>)>>
  BY DEF RInit
<1>1. LET c == [state |-> start, net |-> InitialNetwork(Root)] IN
      options.start = c /\ stack = <<Call(c, MaxDepth, <<>>)>>
  BY <1>a
<1> DEFINE c == [state |-> start, net |-> InitialNetwork(Root)]
           f == Call(c, MaxDepth, <<>>)
<1>2. options.start.state = start /\ stack = <<f>>  BY <1>1
<1>3. IsFrame(f) /\ f.step = <<>> /\ f.node.state = start
  <2>1. <<>> \in Seq({})  OBVIOUS
  <2> QED  BY <2>1 DEF IsFrame, Call, Node
<1> HIDE DEF f
<1>4. stack \in Seq({f}) /\ Len(stack) = 1 /\ stack[1] = f /\ stack # <<>>  BY <1>2
<1>5. dive = <<>> /\ scored = {} /\ dive \in Seq({}) /\ Len(dive) = 0  BY DEF RInit
<1>6. Typed
  <2>1. \A j \in 1 .. Len(stack) : stack[j] = f  BY <1>4
  <2> QED  BY <1>3, <1>4, <1>5, <2>1 DEF Typed
<1>7. OnBranch
  <2> DEFINE mark == [j \in 1 .. 1 |-> 0]
  <2>1. mark \in [1 .. 1 -> 0 .. 0] /\ mark[1] = 0 /\ \A j \in 1 .. 1 : j = 1  OBVIOUS
  <2>2. SubSeq(dive, 1, 0) = <<>>  BY SubSeqEmpty
  <2>3. Executes(options.start.state, SubSeq(dive, 1, 0), stack[1].node.state)
    BY <1>2, <1>3, <1>4, <2>2, ExecutesNone
  <2> HIDE DEF mark
  <2>4. \A j \in 2 .. Len(stack) : FALSE  BY <1>4
  <2>5. mark \in [1 .. Len(stack) -> 0 .. Len(dive)] /\ mark[Len(stack)] = Len(dive)  BY <1>4, <1>5, <2>1
  <2>6. \A j \in 1 .. Len(stack) : Executes(options.start.state, SubSeq(dive, 1, mark[j]), stack[j].node.state)
    BY <1>4, <2>1, <2>3
  <2>7. Marks(mark)  BY <2>1, <2>4, <2>5, <2>6 DEF Marks
  <2> QED  BY <1>3, <1>4, <2>7 DEF OnBranch
<1> QED  BY <1>5, <1>6, <1>7 DEF IInv, ScoredExecutes

\* An action appends its step where it is a plan step, and its precondition held.
LEMMA TryActionKeeps ==
  ASSUME IInv, stack # <<>>, NEW i, TryAction(i)
  PROVE  IInv'
<1> DEFINE next == [Top EXCEPT !.todo = @ \ {i}]
<1>1. IsFrame(Top) /\ Executes(options.start.state, dive, TopState)  BY TopFacts
<1>2. IsFrame(next) /\ next.node = Top.node /\ next.step = Top.step  BY <1>1, FrameUpdates DEF SameCall
<1>3. CASE Continue(next)
  <2> HIDE DEF next
  <2> QED  BY <1>2, <1>3, ContinueKeeps
<1>4. ASSUME NEW d \in ActionChildren(Top.node, i), Recurse(next, d)
      PROVE  IInv'
  <2> DEFINE a == Top.node.net.gts[i].head
  <2>1. /\ ActionApplies(Top.node.state, Top.node.net, i)
        /\ d.state = IF IsReal(Top.node.net, i) THEN NewState(Top.node.state, a) ELSE Top.node.state
        /\ d.step = IF IsReal(Top.node.net, i) THEN << <<a, i>> >> ELSE <<>>
    <3>1. ActionApplies(Top.node.state, Top.node.net, i)  BY DEF ActionChildren
    <3>2. d = [ state     |-> IF IsReal(Top.node.net, i) THEN NewState(Top.node.state, a) ELSE Top.node.state,
                net       |-> AfterAction(Top.node.net, i),
                step      |-> IF IsReal(Top.node.net, i) THEN << <<a, i>> >> ELSE <<>>,
                prevTID   |-> NoTask,
                addedTIDs |-> {},
                method    |-> "" ]
      BY <3>1 DEF ActionChildren
    <3> HIDE DEF a
    <3> QED  BY <3>1, <3>2
  <2>2. Holds(ActionDefs[a].pre, Top.node.state)  BY <2>1 DEF ActionApplies
  <2>3. PICK S : dive \in Seq(S)  BY DEF IInv, Typed
  <2>4. d.step \in Seq({<<a, i>>})  BY <2>1
  <2>5. Executes(options.start.state, dive \o d.step, d.state)
    <3> HIDE DEF a
    <3>1. CASE IsReal(Top.node.net, i)
      <4>1. Executes(options.start.state, dive \o << <<a, i>> >>, NewState(Top.node.state, a))
        BY <1>1, <2>2, <2>3, ExecutesOneMore DEF TopState
      <4> QED  BY <2>1, <3>1, <4>1
    <3>2. CASE ~ IsReal(Top.node.net, i)
      <4>1. dive \o <<>> = dive  BY <2>3, ConcatEmptySeq
      <4> QED  BY <1>1, <2>1, <3>2, <4>1 DEF TopState
    <3> QED  BY <3>1, <3>2
  <2> HIDE DEF next, a
  <2> QED  BY <1>2, <1>4, <2>4, <2>5, RecurseKeeps
<1> QED  BY <1>3, <1>4 DEF TryAction

\* A decomposition appends nothing.
LEMMA TryBindingKeeps ==
  ASSUME IInv, stack # <<>>, NEW m, TryBinding(m)
  PROVE  IInv'
<1> DEFINE next == [Top EXCEPT !.loop.pick = @ \ {m}]
           deferring == [next EXCEPT !.loop.deferred = @ \cup {m}]
           d == MethodChild(Top.node, Top.loop.task, m)
<1>1. IsFrame(Top) /\ Executes(options.start.state, dive, TopState)  BY TopFacts
<1>2. IsFrame(next) /\ next.node = Top.node /\ next.step = Top.step  BY <1>1, FrameUpdates DEF SameCall
<1>3. IsFrame(deferring) /\ deferring.node = Top.node /\ deferring.step = Top.step
  <2> HIDE DEF next
  <2> QED  BY <1>2, FrameUpdates DEF SameCall
<1>4. d.step = <<>> /\ d.state = TopState /\ d.step \in Seq({})  BY DEF MethodChild, TopState
<1>5. PICK S : dive \in Seq(S)  BY DEF IInv, Typed
<1>6. Executes(options.start.state, dive \o d.step, d.state)
  <2>1. dive \o <<>> = dive  BY <1>5, ConcatEmptySeq
  <2> HIDE DEF d
  <2> QED  BY <1>1, <1>4, <2>1
<1>7. Recurse(next, d) \/ Continue(deferring) \/ Continue(next)  BY DEF TryBinding
<1> HIDE DEF next, deferring, d
<1>8. CASE Recurse(next, d)
  <2>1. d.step \in Seq({})  BY <1>4
  <2> QED  BY <1>2, <1>6, <1>8, <2>1, RecurseKeeps
<1>9. CASE Continue(deferring)  BY <1>3, <1>9, ContinueKeeps
<1>10. CASE Continue(next)  BY <1>2, <1>10, ContinueKeeps
<1> QED  BY <1>7, <1>8, <1>9, <1>10

\* The steps that only go on with the active call's loops.
LEMMA LoopsKeep ==
  ASSUME IInv, stack # <<>>,
         \/ Enter \/ SecondPass \/ TaskTried
         \/ \E i : TryTask(i)
         \/ \E name : TryMethod(name)
  PROVE  IInv'
<1>1. IsFrame(Top)  BY TopFacts
<1>2. \A u : SameCall(Top, [Top EXCEPT !.entered = TRUE, !.todo = u])  BY <1>1, FrameUpdates
<1>3. \A l : SameCall(Top, [Top EXCEPT !.loop = l])  BY <1>1, FrameUpdates
<1>4. \A i, l : SameCall(Top, [Top EXCEPT !.todo = Top.todo \ {i}, !.loop = l])  BY <1>1, FrameUpdates
<1>a. \A frame : SameCall(Top, frame) /\ Continue(frame) => IInv'  BY ContinueKeeps DEF SameCall
<1>5. CASE Enter
  <2>1. PICK u : Continue([Top EXCEPT !.entered = TRUE, !.todo = u])  BY <1>5 DEF Enter
  <2> QED  BY <1>2, <1>a, <2>1
<1>6. CASE SecondPass
  <2>1. \E l : Continue([Top EXCEPT !.loop = l])  BY <1>6 DEF SecondPass
  <2> QED  BY <1>3, <1>a, <2>1
<1>7. CASE TaskTried
  <2>1. Continue([Top EXCEPT !.loop = NoLoop])  BY <1>7 DEF TaskTried
  <2> QED  BY <1>3, <1>a, <2>1
<1>8. ASSUME NEW i, TryTask(i) PROVE IInv'
  <2>1. \E l : Continue([Top EXCEPT !.todo = @ \ {i}, !.loop = l])  BY <1>8 DEF TryTask
  <2> QED  BY <1>4, <1>a, <2>1
<1>9. ASSUME NEW name, TryMethod(name) PROVE IInv'
  <2>1. \E l : Continue([Top EXCEPT !.loop = l])  BY <1>9 DEF TryMethod
  <2> QED  BY <1>3, <1>a, <2>1
<1> QED  BY <1>5, <1>6, <1>7, <1>8, <1>9

\* The calls that return: the one that completed the plan gives it to the scorer.
LEMMA ReturnsKeep ==
  ASSUME IInv, stack # <<>>, Complete \/ CutOff \/ Exhausted \/ Unwind
  PROVE  IInv'
<1>1. PICK status : Leave(status)  BY DEF Complete, CutOff, Exhausted, Unwind
<1>2. Typed' /\ OnBranch'  BY <1>1, LeaveKeeps
<1>3. ScoredExecutes'
  <2>1. options' = options  BY <1>1 DEF Leave
  <2>2. CASE scored' = scored  BY <2>1, <2>2 DEF IInv, ScoredExecutes
  <2>3. CASE scored' = {[state |-> TopState, plan |-> dive]}
    <3>1. Executes(options.start.state, dive, TopState)  BY TopFacts
    <3>2. PICK S : dive \in Seq(S)  BY DEF IInv, Typed
    <3>3. Len(dive) \in Nat  BY <3>2, LenProperties
    <3> QED  BY <2>1, <2>3, <3>1, <3>3 DEF ScoredExecutes
  <2> QED  BY <2>2, <2>3 DEF Complete, CutOff, Exhausted, Unwind
<1> QED  BY <1>2, <1>3 DEF IInv

\* At every call of a rollout the plan vector is the plan of its branch (simulation,
\* cppMCTShop.h), whichever calls were refuted, cut off or solved before it.
THEOREM RolloutInvariant == RSpec => []IInv
<1>1. ASSUME IInv, RNext PROVE IInv'
  <2>1. stack # <<>>  BY <1>1 DEF RNext
  <2>2. \/ Complete \/ CutOff \/ Exhausted \/ Unwind
        \/ Enter \/ SecondPass \/ TaskTried
        \/ \E i : TryTask(i)
        \/ \E name : TryMethod(name)
        \/ \E i : TryAction(i)
        \/ \E m : TryBinding(m)
    BY <1>1 DEF RNext
  <2> QED  BY <1>1, <2>1, <2>2, ReturnsKeep, LoopsKeep, TryActionKeeps, TryBindingKeeps
<1>2. ASSUME IInv, UNCHANGED rvars PROVE IInv'
  <2>1. options' = options /\ stack' = stack /\ dive' = dive /\ scored' = scored  BY <1>2 DEF rvars
  <2> QED  BY <1>2, <2>1 DEF IInv, Typed, OnBranch, Marks, ScoredExecutes
<1> QED  BY <1>1, <1>2, RolloutInit, PTL DEF RSpec

\* What domain.score is given can be executed from the rollout's start, action by
\* action, and ends in the state that is scored with it.
THEOREM ScoredReplays == RSpec => []ScoredPlanReplays
<1>1. IInv => ScoredPlanReplays
  <2> SUFFICES ASSUME IInv, NEW p \in scored
               PROVE  Replay(options.start.state, p.plan).ok /\ Replay(options.start.state, p.plan).state = p.state
    BY DEF ScoredPlanReplays
  <2>1. Len(p.plan) \in Nat /\ Executes(options.start.state, p.plan, p.state)  BY DEF IInv, ScoredExecutes
  <2>2. Replay(options.start.state, p.plan) = [ok |-> TRUE, state |-> p.state]  BY <2>1, ReplayExecutes
  <2> QED  BY <2>2
<1> QED  BY <1>1, RolloutInvariant, PTL

\* A rollout leaves its caller's plan as it found it, on every path out.
THEOREM AlwaysRestored == RSpec => []PlanRestored
<1>1. IInv => PlanRestored  BY DEF IInv, OnBranch, PlanRestored, Done
<1> QED  BY <1>1, RolloutInvariant, PTL

---------------------------------------------------------------------------
(***************************************************************************)
(* Refutations. A set of nodes is progressive if, whichever candidates a   *)
(* call takes for one of its nodes, one of them leads on within the set or *)
(* the node is complete. The nodes of a plan are such a set where all      *)
(* unconstrained tasks are candidates. A rollout refutes no node of one.   *)
(***************************************************************************)
Progressive(P, restrict) ==
  \A c \in P : \/ Ids(c.net) = {}
               \/ \A u \in Candidates(c.net, restrict) :
                    \E i \in u : \E d \in Children(c, i, FALSE) : Node(d) \in P

IsLoop(l) == l = Loop(l.task, l.methods, l.pick, l.deferred, l.pass, l.guided)

\* What a call keeps: a sound network, unconstrained tasks still to try, and of the
\* loop over one of them some of its methods.
Methods(f) == MethodDefs[f.node.net.gts[f.loop.task].head]

GoodLoop(n, l) ==
  IF l.task = NoTask THEN l.methods = {} /\ l.pick = {} /\ l.deferred = {}
  ELSE /\ l.task \in Free(n) /\ IsCompound(n, l.task)
       /\ l.pick \cup l.deferred \subseteq MethodDefs[n.gts[l.task].head]

GoodCall(f) ==
  /\ f.node = Node(f.node) /\ Sound(f.node.net)
  /\ f.todo \subseteq Free(f.node.net)
  /\ IsLoop(f.loop) /\ GoodLoop(f.node.net, f.loop)

\* Some candidate call f has still to try leads on in P.
Remains(f, P) ==
  \/ \E i \in f.todo : \E d \in Children(f.node, i, FALSE) : Node(d) \in P
  \/ /\ f.loop.task # NoTask
     /\ \E m \in Methods(f) :
          /\ m \in f.loop.pick \cup f.loop.deferred \/ m.name \in f.loop.methods
          /\ Node(MethodChild(f.node, f.loop.task, m)) \in P

\* Call j has not given up P: nor has the call it waits for.
Open(j, P) ==
  stack[j].node \in P =>
    \/ ~ stack[j].entered
    \/ Remains(stack[j], P)
    \/ j < Len(stack) /\ stack[j + 1].node \in P

Calls ==
  /\ ret \in {"none"} \cup Statuses
  /\ IF stack = <<>> THEN ret # "none" ELSE ret # "Refuted" /\ stack[1].node = Node(options.start)
  /\ \A j \in 1 .. Len(stack) : GoodCall(stack[j])

Unrefuted ==
  \A P : Progressive(P, options.restrict) =>
    /\ ret = "none" => \A j \in 1 .. Len(stack) : Open(j, P)
    /\ ret = "Refuted" => Node(options.start) \notin P

RefInv == Calls /\ Unrefuted

---------------------------------------------------------------------------
\* The active call goes on with a frame that has not given up P either.
LEMMA ContinueOpen ==
  ASSUME IInv, RefInv, stack # <<>>, ret = "none", NEW frame, SameCall(Top, frame), GoodCall(frame),
         \A P : Progressive(P, options.restrict) /\ Top.node \in P => Remains(frame, P),
         Continue(frame)
  PROVE  RefInv'
<1>1. stack' = Update(frame) /\ options' = options /\ ret' = ret  BY DEF Continue
<1>2. PICK S : stack \in Seq(S)  BY DEF IInv, Typed
<1>3. Len(stack) \in Nat \ {0}  BY TopFacts
<1>4. /\ Len(stack') = Len(stack) /\ stack' # <<>>
      /\ \A j \in 1 .. Len(stack) : stack'[j] = IF j = Len(stack) THEN frame ELSE stack[j]
  <2>1. stack \in Seq(S \cup {frame})  BY <1>2, SeqMonotonic
  <2>2. Len(stack) \in 1 .. Len(stack)  BY <1>3
  <2>3. /\ stack' \in Seq(S \cup {frame}) /\ Len(stack') = Len(stack)
        /\ \A j \in 1 .. Len(stack) : stack'[j] = IF j = Len(stack) THEN frame ELSE stack[j]
    BY <1>1, <2>1, <2>2, ExceptSeq DEF Update
  <2> QED  BY <1>3, <2>3, EmptySeq
<1>5. \A j \in 1 .. Len(stack) : stack'[j].node = stack[j].node  BY <1>4 DEF SameCall, Top
<1>6. Calls'
  <2>1. \A j \in 1 .. Len(stack) : GoodCall(stack'[j])  BY <1>4 DEF RefInv, Calls
  <2>2. stack'[1].node = Node(options.start)  BY <1>3, <1>5 DEF RefInv, Calls
  <2> QED  BY <1>1, <1>4, <2>1, <2>2 DEF RefInv, Calls, GoodCall, GoodLoop, IsLoop
<1>7. ASSUME NEW P, Progressive(P, options.restrict), NEW j \in 1 .. Len(stack), stack'[j].node \in P
      PROVE  \/ ~ stack'[j].entered
             \/ Remains(stack'[j], P)
             \/ j < Len(stack) /\ stack'[j + 1].node \in P
  <2>1. CASE j = Len(stack)
    <3>1. Top.node \in P /\ stack'[j] = frame  BY <1>4, <1>5, <1>7, <2>1 DEF Top
    <3> QED  BY <1>7, <3>1
  <2>2. CASE j # Len(stack)
    <3>1. stack'[j] = stack[j] /\ j + 1 \in 1 .. Len(stack)  BY <1>3, <1>4, <2>2
    <3>2. Open(j, P)  BY <1>7 DEF RefInv, Unrefuted
    <3>3. stack'[j + 1].node = stack[j + 1].node  BY <1>5, <3>1
    <3> QED  BY <1>7, <3>1, <3>2, <3>3 DEF Open
  <2> QED  BY <2>1, <2>2
<1>8. Unrefuted'
  <2>1. \A P, j : Open(j, P)' <=> (stack'[j].node \in P =>
                                     \/ ~ stack'[j].entered
                                     \/ Remains(stack'[j], P)
                                     \/ j < Len(stack') /\ stack'[j + 1].node \in P)
    BY DEF Open, Remains, Methods
  <2> QED  BY <1>1, <1>4, <1>7, <2>1 DEF Unrefuted, Progressive
<1> QED  BY <1>6, <1>8 DEF RefInv

\* The active call tries a candidate, and what it leaves of P is with its child.
LEMMA RecurseOpen ==
  ASSUME IInv, RefInv, stack # <<>>, ret = "none", NEW frame, SameCall(Top, frame), GoodCall(frame),
         NEW d, Sound(d.net), Recurse(frame, d),
         \A P : Progressive(P, options.restrict) /\ Top.node \in P => Remains(frame, P) \/ Node(d) \in P
  PROVE  RefInv'
<1> DEFINE u == Update(frame)
           c == Call(d, Top.budget - 1, d.step)
           n == Len(stack)
<1>1. stack' = Append(u, c) /\ options' = options /\ ret' = ret  BY DEF Recurse
<1>2. PICK S : stack \in Seq(S)  BY DEF IInv, Typed
<1>3. n \in Nat \ {0}  BY TopFacts
<1>4. /\ u \in Seq(S \cup {frame}) /\ Len(u) = n
      /\ \A j \in 1 .. n : u[j] = IF j = n THEN frame ELSE stack[j]
  <2>1. stack \in Seq(S \cup {frame})  BY <1>2, SeqMonotonic
  <2>2. n \in 1 .. n
    <3> HIDE DEF n
    <3> QED  BY <1>3
  <2> QED  BY <2>1, <2>2, ExceptSeq DEF Update
<1>5. c.node = Node(d) /\ ~ c.entered /\ GoodCall(c)
  <2>1. c.node = Node(d) /\ c.entered = FALSE /\ c.todo = {} /\ c.loop = NoLoop  BY DEF Call
  <2>2. Node(Node(d)) = Node(d) /\ Node(d).net = d.net  BY DEF Node
  <2> HIDE DEF c
  <2> QED  BY <2>1, <2>2 DEF GoodCall, GoodLoop, IsLoop, Loop, NoLoop
<1> HIDE DEF u, c
<1>6. /\ Len(stack') = n + 1 /\ stack' # <<>> /\ stack'[n + 1] = c
      /\ \A j \in 1 .. n : stack'[j] = IF j = n THEN frame ELSE stack[j]
  <2>1. u \in Seq(S \cup {frame, c})  BY <1>4, SeqMonotonic
  <2>2. /\ stack' \in Seq(S \cup {frame, c}) /\ Len(stack') = n + 1 /\ stack'[n + 1] = c
        /\ \A j \in 1 .. n : stack'[j] = u[j]
    BY <1>1, <1>4, <2>1, AppendProperties
  <2>3. stack' # <<>>  BY <1>3, <2>2, EmptySeq
  <2> QED  BY <1>4, <2>2, <2>3
<1>7. \A j \in 1 .. n : stack'[j].node = stack[j].node  BY <1>6 DEF SameCall, Top
<1>8. Calls'
  <2>1. ASSUME NEW j \in 1 .. n + 1 PROVE GoodCall(stack'[j])
    <3>1. CASE j = n + 1  BY <1>5, <1>6, <3>1
    <3>2. CASE j \in 1 .. n  BY <1>6, <3>2 DEF RefInv, Calls
    <3> QED  BY <1>3, <3>1, <3>2
  <2>2. stack'[1].node = Node(options.start)  BY <1>3, <1>7 DEF RefInv, Calls
  <2> QED  BY <1>1, <1>6, <2>1, <2>2 DEF RefInv, Calls, GoodCall, GoodLoop, IsLoop
<1>9. ASSUME NEW P, Progressive(P, options.restrict), NEW j \in 1 .. n + 1, stack'[j].node \in P
      PROVE  \/ ~ stack'[j].entered
             \/ Remains(stack'[j], P)
             \/ j < n + 1 /\ stack'[j + 1].node \in P
  <2>1. CASE j = n + 1  BY <1>5, <1>6, <2>1
  <2>2. CASE j = n
    <3>1. Top.node \in P /\ stack'[j] = frame /\ j \in 1 .. n  BY <1>3, <1>6, <1>7, <1>9, <2>2 DEF Top
    <3>2. Remains(frame, P) \/ Node(d) \in P  BY <1>9, <3>1
    <3>3. j < n + 1 /\ stack'[j + 1].node = Node(d)  BY <1>3, <1>5, <1>6, <2>2
    <3> QED  BY <3>1, <3>2, <3>3
  <2>3. CASE j \in 1 .. n - 1
    <3>1. stack'[j] = stack[j] /\ j \in 1 .. n /\ j + 1 \in 1 .. n  BY <1>3, <1>6, <2>3
    <3>2. Open(j, P)  BY <1>9, <3>1 DEF RefInv, Unrefuted
    <3>3. stack'[j + 1].node = stack[j + 1].node  BY <1>7, <3>1
    <3>4. j < n + 1  BY <1>3, <2>3
    <3> QED  BY <1>9, <3>1, <3>2, <3>3, <3>4 DEF Open
  <2> HIDE DEF n
  <2> QED  BY <1>3, <2>1, <2>2, <2>3
<1>10. Unrefuted'
  <2>1. \A P, j : Open(j, P)' <=> (stack'[j].node \in P =>
                                     \/ ~ stack'[j].entered
                                     \/ Remains(stack'[j], P)
                                     \/ j < Len(stack') /\ stack'[j + 1].node \in P)
    BY DEF Open, Remains, Methods
  <2>2. ASSUME NEW P, Progressive(P, options.restrict), NEW j \in 1 .. Len(stack') PROVE Open(j, P)'
    <3>1. j \in 1 .. n + 1  BY <1>6
    <3> HIDE DEF n
    <3> QED  BY <1>6, <1>9, <2>1, <2>2, <3>1
  <2>3. ret' = "none"  BY <1>1
  <2> QED  BY <1>1, <2>2, <2>3 DEF Unrefuted, Progressive
<1> QED  BY <1>8, <1>10 DEF RefInv

\* A binding that look-ahead drops leads to no node of such a set: the only
\* candidate of its child is a check that fails.
LEMMA DroppedIsDead ==
  ASSUME NEW c, Sound(c.net), NEW i \in Free(c.net), IsCompound(c.net, i),
         may_prune(Cardinality(Free(c.net))),
         NEW m \in MethodDefs[c.net.gts[i].head], ~ LookaheadHolds(m, c.state),
         NEW restrict, NEW P, Progressive(P, restrict)
  PROVE  Node(MethodChild(c, i, m)) \notin P
  <1> DEFINE n == c.net
             r == Ground(m, n, i, Mode)
             k == SubtaskID(n, m.mprec)
             x == Node(MethodChild(c, i, m))
  <1>1. Free(n) = {i}
    <2>1. n.nextID \in Nat /\ Free(n) \in SUBSET (0 .. n.nextID - 1)
      <3>1. PICK q : q = n
        OBVIOUS
      <3>2. q.nextID \in Nat /\ Ids(q) \subseteq 0 .. q.nextID - 1
        BY <3>1 DEF Sound, IsNetwork
      <3>3. Free(q) \subseteq 0 .. q.nextID - 1
        BY <3>2 DEF Free
      <3> HIDE DEF n
      <3> QED
        BY <3>1, <3>2, <3>3
    <2>2. IsFiniteSet(0 .. n.nextID - 1)
      <3>1. 0 \in Int /\ n.nextID - 1 \in Int
        BY <2>1
      <3> QED
        BY <3>1, FS_Interval
    <2>3. IsFiniteSet(Free(n))
      BY <2>1, <2>2, FS_Subset
    <2>4. PICK j : Free(n) = {j}
      BY <2>3, FS_Singleton DEF may_prune
    <2> QED
      BY <2>4
  <1>2. WellFormedMethod(m)
    BY DomainAssumption DEF IsCompound
  <1>3. /\ m.mprec # 0 /\ ~ Holds(ActionDefs[m.subtasks[m.mprec]].pre, c.state)
    BY DEF LookaheadHolds
  <1>4. m.subtasks[m.mprec] \in Actions
    BY <1>2, <1>3 DEF WellFormedMethod
  <1>5. Free(r) \subseteq {k} /\ Ids(r) # {} /\ r.gts[k].head = m.subtasks[m.mprec]
    BY <1>1, <1>2, <1>3, CheckAlone
  <1>6. Sound(r)
    BY <1>2, GroundSound
  <1>7. x.net = r /\ x.state = c.state
    BY DEF Node, MethodChild
  <1> HIDE DEF n, r, k, x
  <1>8. IsAction(r, k) /\ ~ IsCompound(r, k)
    BY <1>4, <1>5 DEF IsAction, IsCompound
  <1>9. Free(r) \in Candidates(r, restrict)
    BY <1>5, <1>6, <1>8, CandidatesFree
  <1>10. Children(x, k, FALSE) = {}
    BY <1>3, <1>5, <1>7, <1>8 DEF Children, ActionChildren, ActionApplies
  <1>11. x \notin P
    BY <1>5, <1>7, <1>9, <1>10 DEF Progressive
  <1> QED
    BY <1>11 DEF x

---------------------------------------------------------------------------
\* A call returns. If it was refuted it had no candidate left, so neither has P
\* been with it.
LEMMA LeaveOpen ==
  ASSUME IInv, RefInv, stack # <<>>, NEW status \in Statuses, Leave(status),
         status = "Refuted" => ret = "none" /\ \A P : Progressive(P, options.restrict) => Top.node \notin P
  PROVE  RefInv'
<1> DEFINE n == Len(stack)
<1>1. /\ stack' = SubSeq(stack, 1, n - 1) /\ options' = options
      /\ ret' = IF status = "Refuted" /\ SubSeq(stack, 1, n - 1) # <<>> THEN "none" ELSE status
  BY DEF Leave, Below
<1>2. n \in Nat \ {0}  BY TopFacts
<1>3. PICK S : stack \in Seq(S)  BY DEF IInv, Typed
<1>4. stack' \in Seq(S) /\ Len(stack') = n - 1 /\ \A j \in 1 .. n - 1 : stack'[j] = stack[j]
  <2>1. \A i \in 1 .. n - 1 : stack[i] \in S  BY <1>2, <1>3, ElementOfSeq
  <2>2. /\ SubSeq(stack, 1, n - 1) \in Seq(S)
        /\ Len(SubSeq(stack, 1, n - 1)) = IF 1 <= n - 1 THEN (n - 1) - 1 + 1 ELSE 0
        /\ \A i \in 1 .. (n - 1) - 1 + 1 : SubSeq(stack, 1, n - 1)[i] = stack[1 + i - 1]
    <3>1. n - 1 \in Int  BY <1>2
    <3> QED  BY <2>1, <3>1, SubSeqProperties
  <2> HIDE DEF n
  <2> QED  BY <1>1, <1>2, <2>2
<1> HIDE DEF n
<1>5. stack' = <<>> <=> n = 1
  <2>1. Len(stack') = 0 <=> stack' = <<>>  BY <1>4, EmptySeq
  <2> QED  BY <1>2, <1>4, <2>1
<1>6. Calls'
  <2>1. \A j \in 1 .. n - 1 : GoodCall(stack'[j])  BY <1>2, <1>4 DEF RefInv, Calls, n
  <2>2. stack' # <<>> => stack'[1].node = Node(options.start)
    <3>1. stack' # <<>> => 1 \in 1 .. n - 1  BY <1>2, <1>5
    <3> QED  BY <1>4, <3>1 DEF RefInv, Calls
  <2>3. ret' \in {"none"} \cup Statuses /\ (stack' = <<>> => ret' # "none") /\ (stack' # <<>> => ret' # "Refuted")
    BY <1>1 DEF Statuses
  <2> QED  BY <1>1, <1>4, <2>1, <2>2, <2>3 DEF Calls, GoodCall, GoodLoop, IsLoop
<1>7. ASSUME NEW P, Progressive(P, options.restrict), ret' = "Refuted" PROVE Node(options.start) \notin P
  <2>1. status = "Refuted" /\ n = 1  BY <1>1, <1>5, <1>7
  <2>2. Top.node = Node(options.start)  BY <2>1 DEF RefInv, Calls, Top, n
  <2> QED  BY <1>7, <2>1, <2>2
<1>8. ASSUME NEW P, Progressive(P, options.restrict), ret' = "none", NEW j \in 1 .. n - 1, stack'[j].node \in P
      PROVE  \/ ~ stack'[j].entered
             \/ Remains(stack'[j], P)
             \/ j < n - 1 /\ stack'[j + 1].node \in P
  <2>1. status = "Refuted" /\ ret = "none"  BY <1>1, <1>8 DEF Statuses
  <2>2. j \in 1 .. n /\ j + 1 \in 1 .. n /\ j < n  BY <1>2
  <2>3. Open(j, P)  BY <1>8, <2>1, <2>2 DEF RefInv, Unrefuted, n
  <2>4. stack'[j] = stack[j]  BY <1>4
  <2>5. CASE j = n - 1
    <3>1. stack[j + 1] = Top  BY <1>2, <2>5 DEF Top, n
    <3> QED  BY <1>8, <2>1, <2>3, <2>4, <3>1 DEF Open
  <2>6. CASE j # n - 1
    <3>1. j < n - 1 /\ stack'[j + 1] = stack[j + 1]  BY <1>2, <1>4, <2>6
    <3> QED  BY <1>8, <2>3, <2>4, <3>1 DEF Open
  <2> QED  BY <2>5, <2>6
<1>9. Unrefuted'
  <2>1. \A P, j : Open(j, P)' <=> (stack'[j].node \in P =>
                                     \/ ~ stack'[j].entered
                                     \/ Remains(stack'[j], P)
                                     \/ j < Len(stack') /\ stack'[j + 1].node \in P)
    BY DEF Open, Remains, Methods
  <2>2. ASSUME NEW P, Progressive(P, options.restrict), ret' = "none", NEW j \in 1 .. Len(stack') PROVE Open(j, P)'
    BY <1>4, <1>8, <2>1, <2>2
  <2> QED  BY <1>1, <1>7, <2>2 DEF Unrefuted, Progressive
<1> QED  BY <1>6, <1>9 DEF RefInv

LEMMA ReturnsRefute ==
  ASSUME IInv, RefInv, stack # <<>>, Complete \/ CutOff \/ Exhausted \/ Unwind
  PROVE  RefInv'
<1>1. CASE Complete
  <2>1. Leave("Solved")  BY <1>1 DEF Complete
  <2> QED  BY <2>1, LeaveOpen DEF Statuses
<1>2. CASE CutOff
  <2>1. Leave("Cutoff")  BY <1>2 DEF CutOff
  <2> QED  BY <2>1, LeaveOpen DEF Statuses
<1>3. CASE Exhausted
  <2>1. Leave("Refuted") /\ ret = "none" /\ Top.entered /\ Top.loop.task = NoTask /\ Top.todo = {}
    BY <1>3 DEF Exhausted, Working, Running
  <2>2. Len(stack) \in Nat \ {0}  BY TopFacts
  <2>3. ASSUME NEW P, Progressive(P, options.restrict) PROVE Top.node \notin P
    <3>1. Open(Len(stack), P)  BY <2>1, <2>2, <2>3 DEF RefInv, Unrefuted
    <3>2. ~ Remains(Top, P)  BY <2>1 DEF Remains
    <3> QED  BY <2>1, <2>2, <3>1, <3>2 DEF Open, Top
  <2> QED  BY <2>1, <2>3, LeaveOpen DEF Statuses
<1>4. CASE Unwind
  <2>1. Leave(ret) /\ ret # "none" /\ ret # "Refuted" /\ ret \in Statuses  BY <1>4 DEF Unwind, RefInv, Calls
  <2> QED  BY <2>1, LeaveOpen
<1> QED  BY <1>1, <1>2, <1>3, <1>4

\* The updates that make a loop.
LEMMA LoopFields ==
  ASSUME NEW t, NEW ms, NEW p, NEW d, NEW n, NEW g, NEW l, l = Loop(t, ms, p, d, n, g)
  PROVE  /\ IsLoop(l)
         /\ l.task = t /\ l.methods = ms /\ l.pick = p /\ l.deferred = d /\ l.pass = n /\ l.guided = g
BY DEF IsLoop, Loop

LEMMA LoopPick ==
  ASSUME NEW l, IsLoop(l), NEW x
  PROVE  [l EXCEPT !.pick = x] = Loop(l.task, l.methods, x, l.deferred, l.pass, l.guided)
BY DEF IsLoop, Loop

LEMMA LoopDeferred ==
  ASSUME NEW l, IsLoop(l), NEW x
  PROVE  [l EXCEPT !.deferred = x] = Loop(l.task, l.methods, l.pick, x, l.pass, l.guided)
BY DEF IsLoop, Loop

\* What is known of the active call.
LEMMA TopGood ==
  ASSUME IInv, RefInv, stack # <<>>
  PROVE  /\ IsFrame(Top) /\ GoodCall(Top)
         /\ IsLoop(Top.loop)
         /\ ret = "none" /\ Top.entered =>
              \A P : Progressive(P, options.restrict) /\ Top.node \in P => Remains(Top, P)
<1>1. Len(stack) \in 1 .. Len(stack) /\ Len(stack) \in Nat  BY TopFacts
<1>2. IsFrame(Top)  BY TopFacts
<1>3. GoodCall(Top)  BY <1>1 DEF RefInv, Calls, Top
<1>4. IsLoop(Top.loop)  BY <1>3 DEF GoodCall
<1>5. ASSUME ret = "none", Top.entered, NEW P, Progressive(P, options.restrict), Top.node \in P
      PROVE  Remains(Top, P)
  <2>1. Open(Len(stack), P)  BY <1>1, <1>5 DEF RefInv, Unrefuted
  <2>2. ~ (Len(stack) < Len(stack))  BY <1>1
  <2> QED  BY <1>5, <2>1, <2>2 DEF Open, Top
<1> QED  BY <1>2, <1>3, <1>4, <1>5

\* The calls that enter, take a task, take a method, go to the second pass or leave
\* a task.
LEMMA EnterRefutes ==
  ASSUME IInv, RefInv, stack # <<>>, Enter
  PROVE  RefInv'
<1>1. PICK u \in Candidates(TopNet, options.restrict) : Continue([Top EXCEPT !.entered = TRUE, !.todo = u])
  BY DEF Enter
<1> DEFINE frame == Frame(Top, TRUE, u, Top.loop)
<1>2. IsFrame(Top) /\ GoodCall(Top) /\ ret = "none" /\ Ids(TopNet) # {}  BY TopGood DEF Enter, Running
<1>3. [Top EXCEPT !.entered = TRUE, !.todo = u] = frame /\ SameCall(Top, frame)
  BY <1>2, FrameEnter, FrameSame
<1>4. frame.node = Top.node /\ frame.todo = u /\ frame.loop = Top.loop  BY DEF Frame
<1>5. u \subseteq Free(TopNet)  BY <1>2, CandidatesFree DEF GoodCall, TopNet
<1>6. Continue(frame)  BY <1>1, <1>3
<1> HIDE DEF frame
<1>7. GoodCall(frame)  BY <1>2, <1>4, <1>5 DEF GoodCall, TopNet
<1>8. ASSUME NEW P, Progressive(P, options.restrict), Top.node \in P PROVE Remains(frame, P)
  <2>1. \E i \in u : \E d \in Children(Top.node, i, FALSE) : Node(d) \in P
    BY <1>2, <1>8 DEF Progressive, TopNet
  <2> QED  BY <1>4, <2>1 DEF Remains
<1> QED  BY <1>2, <1>3, <1>6, <1>7, <1>8, ContinueOpen

LEMMA TryActionRefutes ==
  ASSUME IInv, RefInv, stack # <<>>, NEW i, TryAction(i)
  PROVE  RefInv'
<1> DEFINE frame == Frame(Top, Top.entered, Top.todo \ {i}, Top.loop)
<1>1. /\ IsFrame(Top) /\ GoodCall(Top) /\ ret = "none" /\ Top.entered /\ Top.loop.task = NoTask
      /\ i \in Top.todo /\ IsAction(TopNet, i)
  BY TopGood DEF TryAction, Working, Running
<1>2. [Top EXCEPT !.todo = Top.todo \ {i}] = frame /\ SameCall(Top, frame)
  BY <1>1, FrameTodo, FrameSame
<1>3. frame.node = Top.node /\ frame.todo = Top.todo \ {i} /\ frame.loop = Top.loop  BY DEF Frame
<1>4. \/ \E d \in ActionChildren(Top.node, i) : Recurse(frame, d)
      \/ ActionChildren(Top.node, i) = {} /\ Continue(frame)
  BY <1>2 DEF TryAction
<1> HIDE DEF frame
<1>5. GoodCall(frame)  BY <1>1, <1>3 DEF GoodCall
<1>6. \A d \in ActionChildren(Top.node, i) : ActionChildren(Top.node, i) = {d}  BY DEF ActionChildren
<1>7. Children(Top.node, i, FALSE) = ActionChildren(Top.node, i)  BY <1>1 DEF Children, TopNet
<1>8. ASSUME NEW P, Progressive(P, options.restrict), Top.node \in P
      PROVE  Remains(frame, P) \/ \E d \in ActionChildren(Top.node, i) : Node(d) \in P
  <2>1. Remains(Top, P)  BY <1>1, <1>8, TopGood
  <2>2. PICK j \in Top.todo : \E d \in Children(Top.node, j, FALSE) : Node(d) \in P
    BY <1>1, <2>1 DEF Remains
  <2> QED  BY <1>3, <1>7, <2>2 DEF Remains
<1>9. CASE ActionChildren(Top.node, i) = {} /\ Continue(frame)
  <2>1. \A P : Progressive(P, options.restrict) /\ Top.node \in P => Remains(frame, P)
    BY <1>8, <1>9
  <2> QED  BY <1>1, <1>2, <1>5, <1>9, <2>1, ContinueOpen
<1>10. ASSUME NEW d \in ActionChildren(Top.node, i), Recurse(frame, d) PROVE RefInv'
  <2>1. Sound(d.net)
    <3>1. i \in Free(Top.node.net) /\ Sound(Top.node.net) /\ d \in Children(Top.node, i, FALSE)
      BY <1>1, <1>7, <1>10 DEF GoodCall
    <3> QED  BY <3>1, SuccessorsAreFresh
  <2>2. \A P : Progressive(P, options.restrict) /\ Top.node \in P => Remains(frame, P) \/ Node(d) \in P
    BY <1>6, <1>8
  <2> QED  BY <1>1, <1>2, <1>5, <1>10, <2>1, <2>2, RecurseOpen
<1> QED  BY <1>4, <1>9, <1>10

LEMMA FreeIsTask ==
  ASSUME NEW n, Sound(n), NEW i \in Free(n)
  PROVE  i # NoTask
<1> PICK q : q = n  OBVIOUS
<1>1. i \in 0 .. q.nextID - 1 /\ q.nextID \in Nat  BY DEF Free, Sound, IsNetwork
<1> QED  BY <1>1 DEF NoTask

LEMMA TryTaskRefutes ==
  ASSUME IInv, RefInv, stack # <<>>, NEW i, TryTask(i)
  PROVE  RefInv'
<1> DEFINE names == {m.name : m \in MethodDefs[TopNet.gts[i].head]}
           loop  == Loop(i, names, {}, {}, 0, FALSE)
           frame == Frame(Top, Top.entered, Top.todo \ {i}, loop)
<1>1. /\ IsFrame(Top) /\ GoodCall(Top) /\ ret = "none" /\ Top.entered /\ Top.loop.task = NoTask
      /\ i \in Top.todo /\ IsCompound(TopNet, i)
  BY TopGood DEF TryTask, Working, Running
<1>3. Continue([Top EXCEPT !.todo = Top.todo \ {i}, !.loop = loop])
  BY DEF TryTask
<1>4. /\ loop.task = i /\ loop.methods = names /\ loop.pick = {} /\ loop.deferred = {}
      /\ IsLoop(loop)
  BY DEF Loop, IsLoop
<1> HIDE DEF loop
<1>5. [Top EXCEPT !.todo = Top.todo \ {i}, !.loop = loop] = frame /\ SameCall(Top, frame)
  BY <1>1, FrameTodoLoop, FrameSame
<1>6. frame.node = Top.node /\ frame.todo = Top.todo \ {i} /\ frame.loop = loop  BY DEF Frame
<1>7. Continue(frame)  BY <1>3, <1>5
<1> HIDE DEF frame
<1>8. i \in Free(TopNet) /\ i # NoTask
  <2>1. i \in Free(TopNet)  BY <1>1 DEF GoodCall, TopNet
  <2> QED  BY <1>1, <2>1, FreeIsTask DEF GoodCall, TopNet
<1>9. GoodCall(frame)
  BY <1>1, <1>4, <1>6, <1>8 DEF GoodCall, GoodLoop, TopNet
<1>10. ASSUME NEW P, Progressive(P, options.restrict), Top.node \in P PROVE Remains(frame, P)
  <2>1. Remains(Top, P)  BY <1>1, <1>10, TopGood
  <2>2. PICK j \in Top.todo : \E d \in Children(Top.node, j, FALSE) : Node(d) \in P
    BY <1>1, <2>1 DEF Remains
  <2>3. CASE j # i  BY <1>6, <2>2, <2>3 DEF Remains
  <2>4. CASE j = i
    <3>1. PICK m \in MethodDefs[TopNet.gts[i].head] : Node(MethodChild(Top.node, i, m)) \in P
      BY <1>1, <2>2, <2>4 DEF Children, Groundable, IsAction, IsCompound, TopNet
    <3>2. m.name \in frame.loop.methods /\ m \in Methods(frame)  BY <1>4, <1>6 DEF Methods, TopNet
    <3> QED  BY <1>4, <1>6, <1>8, <3>1, <3>2 DEF Remains
  <2> QED  BY <2>3, <2>4
<1> QED  BY <1>1, <1>5, <1>7, <1>9, <1>10, ContinueOpen

\* The active call goes on with another loop, in which what is left of its own
\* is still there or leads to no progressive set.
LEMMA LoopRefutes ==
  ASSUME IInv, RefInv, stack # <<>>, ret = "none", Top.entered,
         NEW l, IsLoop(l), GoodLoop(TopNet, l), Continue([Top EXCEPT !.loop = l]),
         Top.loop.task # NoTask =>
           \A m \in Methods(Top) :
              (m \in Top.loop.pick \cup Top.loop.deferred \/ m.name \in Top.loop.methods) =>
                \/ l.task = Top.loop.task /\ (m \in l.pick \cup l.deferred \/ m.name \in l.methods)
                \/ \A P : Progressive(P, options.restrict) =>
                     Node(MethodChild(Top.node, Top.loop.task, m)) \notin P
  PROVE  RefInv'
<1> DEFINE h == Frame(Top, Top.entered, Top.todo, l)
<1>1. IsFrame(Top) /\ GoodCall(Top)  BY TopGood
<1>2. Continue(h) /\ SameCall(Top, h)  BY <1>1, FrameLoop, FrameSame
<1>3. h.node = Top.node /\ h.todo = Top.todo /\ h.loop = l  BY DEF Frame
<1> HIDE DEF h
<1>4. GoodCall(h)  BY <1>1, <1>3 DEF GoodCall, TopNet
<1>5. ASSUME NEW P, Progressive(P, options.restrict), Top.node \in P PROVE Remains(h, P)
  <2>1. Remains(Top, P)  BY <1>5, TopGood
  <2>2. CASE \E i \in Top.todo : \E c \in Children(Top.node, i, FALSE) : Node(c) \in P
    BY <1>3, <2>2 DEF Remains
  <2>3. CASE ~ \E i \in Top.todo : \E c \in Children(Top.node, i, FALSE) : Node(c) \in P
    <3>1. PICK m \in Methods(Top) :
            /\ m \in Top.loop.pick \cup Top.loop.deferred \/ m.name \in Top.loop.methods
            /\ Node(MethodChild(Top.node, Top.loop.task, m)) \in P
      BY <2>1, <2>3 DEF Remains
    <3>2. Top.loop.task # NoTask  BY <2>1, <2>3 DEF Remains
    <3>3. l.task = Top.loop.task /\ (m \in l.pick \cup l.deferred \/ m.name \in l.methods)
      BY <1>5, <3>1, <3>2
    <3>4. m \in Methods(h)  BY <1>3, <3>1, <3>3 DEF Methods
    <3> QED  BY <1>3, <3>1, <3>2, <3>3, <3>4 DEF Remains
  <2> QED  BY <2>2, <2>3
<1> QED  BY <1>2, <1>4, <1>5, ContinueOpen

LEMMA TryMethodRefutes ==
  ASSUME IInv, RefInv, stack # <<>>, NEW name, TryMethod(name)
  PROVE  RefInv'
<1>1. /\ GoodCall(Top) /\ IsLoop(Top.loop) /\ ret = "none" /\ Top.entered /\ Top.loop.task # NoTask
      /\ Top.loop.pick = {} /\ Top.loop.deferred = {} /\ name \in Top.loop.methods
  BY TopGood DEF TryMethod, Working, Running
<1>2. PICK more : more = Top.loop.methods \ {name}  OBVIOUS
<1>3. PICK l : /\ Continue([Top EXCEPT !.loop = l])
               /\ l = Loop(Top.loop.task, more, Bindings(name), {}, 0, Guided(Bindings(name)))
  BY <1>2 DEF TryMethod
<1>5. /\ IsLoop(l) /\ l.task = Top.loop.task /\ l.methods = more /\ l.pick = Bindings(name)
      /\ l.deferred = {}
  BY <1>3, LoopFields
<1>6. /\ Top.loop.task \in Free(TopNet) /\ IsCompound(TopNet, Top.loop.task)
      /\ Bindings(name) \subseteq MethodDefs[TopNet.gts[Top.loop.task].head]
      /\ \A m \in Methods(Top) : m.name \in Top.loop.methods => m \in Bindings(name) \/ m.name \in more
  BY <1>1, <1>2 DEF GoodCall, GoodLoop, TopNet, Methods, Bindings
<1>7. GoodLoop(TopNet, l)  BY <1>1, <1>5, <1>6 DEF GoodLoop
<1> QED  BY <1>1, <1>3, <1>5, <1>6, <1>7, LoopRefutes

LEMMA SecondPassRefutes ==
  ASSUME IInv, RefInv, stack # <<>>, SecondPass
  PROVE  RefInv'
<1>1. /\ GoodCall(Top) /\ IsLoop(Top.loop) /\ ret = "none" /\ Top.entered
      /\ Top.loop.pick = {} /\ Top.loop.deferred # {}
  BY TopGood DEF SecondPass, Working, Running
<1>2. PICK l : /\ Continue([Top EXCEPT !.loop = l])
               /\ l = Loop(Top.loop.task, Top.loop.methods, Top.loop.deferred, {}, 1, Top.loop.guided)
  BY DEF SecondPass
<1>4. /\ IsLoop(l) /\ l.task = Top.loop.task /\ l.methods = Top.loop.methods
      /\ l.pick = Top.loop.deferred /\ l.deferred = {}
  BY <1>2, LoopFields
<1>5. l.task # NoTask /\ GoodLoop(TopNet, l)  BY <1>1, <1>4 DEF GoodCall, GoodLoop, TopNet
<1> QED  BY <1>1, <1>2, <1>4, <1>5, LoopRefutes

LEMMA TaskTriedRefutes ==
  ASSUME IInv, RefInv, stack # <<>>, TaskTried
  PROVE  RefInv'
<1>1. /\ GoodCall(Top) /\ ret = "none" /\ Top.entered
      /\ Top.loop.pick = {} /\ Top.loop.deferred = {} /\ Top.loop.methods = {}
  BY TopGood DEF TaskTried, Working, Running
<1>2. PICK l : Continue([Top EXCEPT !.loop = l]) /\ l = NoLoop  BY DEF TaskTried
<1>3. IsLoop(l) /\ GoodLoop(TopNet, l)  BY <1>2 DEF NoLoop, IsLoop, Loop, GoodLoop
<1> QED  BY <1>1, <1>2, <1>3, LoopRefutes

LEMMA TryBindingRefutes ==
  ASSUME IInv, RefInv, stack # <<>>, NEW m, TryBinding(m)
  PROVE  RefInv'
<1> DEFINE child   == MethodChild(Top.node, Top.loop.task, m)
           put_off == Top.loop.pass = 0 /\ Top.loop.guided /\ ~ LookaheadHolds(m, TopState)
           drop    == may_prune(Cardinality(Free(TopNet)))
           next    == [Top EXCEPT !.loop = [Top.loop EXCEPT !.pick = Top.loop.pick \ {m}]]
           loop    == Loop(Top.loop.task, Top.loop.methods, Top.loop.pick \ {m}, Top.loop.deferred,
                           Top.loop.pass, Top.loop.guided)
           later   == Loop(Top.loop.task, Top.loop.methods, Top.loop.pick \ {m}, Top.loop.deferred \cup {m},
                           Top.loop.pass, Top.loop.guided)
<1>1. /\ IsFrame(Top) /\ GoodCall(Top) /\ IsLoop(Top.loop) /\ ret = "none" /\ Top.entered /\ m \in Top.loop.pick
  BY TopGood DEF TryBinding, Working, Running
<1>2. /\ Top.loop.task # NoTask /\ Top.loop.task \in Free(TopNet) /\ IsCompound(TopNet, Top.loop.task)
      /\ m \in Methods(Top) /\ m \in MethodDefs[TopNet.gts[Top.loop.task].head]
      /\ Top.loop.pick \cup Top.loop.deferred \subseteq MethodDefs[TopNet.gts[Top.loop.task].head]
      /\ Sound(TopNet)
  BY <1>1 DEF GoodCall, GoodLoop, TopNet, Methods
<1>3. next = [Top EXCEPT !.loop = loop] /\ next = Frame(Top, Top.entered, Top.todo, loop) /\ SameCall(Top, next)
  <2>a. [Top.loop EXCEPT !.pick = Top.loop.pick \ {m}] = loop  BY <1>1, LoopPick
  <2>b. \A l : [Top EXCEPT !.loop = l] = Frame(Top, Top.entered, Top.todo, l)
    BY <1>1, FrameLoop
  <2> HIDE DEF loop
  <2>1. next = Frame(Top, Top.entered, Top.todo, loop)  BY <2>a, <2>b
  <2>2. [Top EXCEPT !.loop = loop] = Frame(Top, Top.entered, Top.todo, loop)  BY <2>b
  <2> HIDE DEF next
  <2> QED  BY <1>1, <2>1, <2>2, FrameSame
<1>4. \/ ~ put_off /\ Recurse(next, child)
      \/ put_off /\ ~ drop /\ Continue([next EXCEPT !.loop = [next.loop EXCEPT !.deferred = next.loop.deferred \cup {m}]])
      \/ put_off /\ drop /\ Continue(next)
  BY DEF TryBinding
<1>5. /\ IsLoop(loop) /\ loop.task = Top.loop.task /\ loop.methods = Top.loop.methods
      /\ loop.pick = Top.loop.pick \ {m} /\ loop.deferred = Top.loop.deferred
      /\ loop.pass = Top.loop.pass /\ loop.guided = Top.loop.guided
  BY LoopFields
<1>6. /\ IsLoop(later) /\ later.task = Top.loop.task /\ later.methods = Top.loop.methods
      /\ later.pick = Top.loop.pick \ {m} /\ later.deferred = Top.loop.deferred \cup {m}
  BY LoopFields
<1>7. GoodLoop(TopNet, loop) /\ GoodLoop(TopNet, later)  BY <1>2, <1>5, <1>6 DEF GoodLoop
<1>8. CASE put_off /\ drop /\ Continue(next)
  <2>1. \A P : Progressive(P, options.restrict) => Node(child) \notin P
    BY <1>2, <1>8, DroppedIsDead DEF TopNet, TopState
  <2> HIDE DEF next, loop, child
  <2> QED  BY <1>1, <1>2, <1>3, <1>5, <1>7, <1>8, <2>1, LoopRefutes DEF child
<1>9. CASE put_off /\ ~ drop /\ Continue([next EXCEPT !.loop = [next.loop EXCEPT !.deferred = next.loop.deferred \cup {m}]])
  <2>1. next.loop = loop  BY <1>3 DEF Frame
  <2>2. [next.loop EXCEPT !.deferred = next.loop.deferred \cup {m}] = later
    <3> HIDE DEF loop, next
    <3>1. [loop EXCEPT !.deferred = loop.deferred \cup {m}] = later  BY <1>5, LoopDeferred
    <3> QED  BY <2>1, <3>1
  <2>3. [next EXCEPT !.loop = later] = [Top EXCEPT !.loop = later]
    <3> HIDE DEF later
    <3> QED  BY <1>1, <1>3, FrameLoop, FrameSame DEF Frame
  <2> HIDE DEF later, loop, next
  <2>4. Continue([Top EXCEPT !.loop = later])  BY <1>9, <2>2, <2>3
  <2> QED  BY <1>1, <1>2, <1>6, <1>7, <2>4, LoopRefutes
<1>10. CASE ~ put_off /\ Recurse(next, child)
  <2>1. Sound(child.net)
    BY <1>2, GroundSound, DomainAssumption DEF MethodChild, TopNet, IsCompound
  <2>2. next.node = Top.node /\ next.todo = Top.todo /\ next.loop = loop  BY <1>3 DEF Frame
  <2> HIDE DEF next, loop, child, put_off
  <2>3. GoodCall(next)  BY <1>1, <1>5, <1>7, <2>2 DEF GoodCall, TopNet
  <2>4. ASSUME NEW P, Progressive(P, options.restrict), Top.node \in P
        PROVE  Remains(next, P) \/ Node(child) \in P
    <3>1. Remains(Top, P)  BY <1>1, <2>4, TopGood
    <3>2. CASE \E i \in Top.todo : \E c \in Children(Top.node, i, FALSE) : Node(c) \in P
      BY <2>2, <3>2 DEF Remains
    <3>3. CASE ~ \E i \in Top.todo : \E c \in Children(Top.node, i, FALSE) : Node(c) \in P
      <4>1. PICK q \in Methods(Top) :
              /\ q \in Top.loop.pick \cup Top.loop.deferred \/ q.name \in Top.loop.methods
              /\ Node(MethodChild(Top.node, Top.loop.task, q)) \in P
        BY <3>1, <3>3 DEF Remains
      <4>2. CASE q = m  BY <4>1, <4>2 DEF child
      <4>3. CASE q # m
        <5>1. q \in Methods(next)  BY <1>5, <2>2, <4>1 DEF Methods
        <5> QED  BY <1>2, <1>5, <2>2, <4>1, <4>3, <5>1 DEF Remains
      <4> QED  BY <4>2, <4>3
    <3> QED  BY <3>2, <3>3
  <2> QED  BY <1>1, <1>3, <1>10, <2>1, <2>3, <2>4, RecurseOpen
<1> QED  BY <1>4, <1>8, <1>9, <1>10

LEMMA RefutationInit == RInit => RefInv
<1> SUFFICES ASSUME RInit PROVE RefInv
  OBVIOUS
<1>1. PICK restrict \in 0 .. 3, lookahead \in BOOLEAN, start \in Starts :
        LET c == [state |-> start, net |-> InitialNetwork(Root)] IN
        /\ options = [restrict |-> restrict, lookahead |-> lookahead, start |-> c]
        /\ stack = <<Call(c, MaxDepth, <<>>)>>
  BY DEF RInit
<1>2. PICK c : c = [state |-> start, net |-> InitialNetwork(Root)]  OBVIOUS
<1>3. options.start = c /\ stack = <<Call(c, MaxDepth, <<>>)>> /\ ret = "none"
  BY <1>1, <1>2 DEF RInit
<1>4. PICK f : f = Call(c, MaxDepth, <<>>)  OBVIOUS
<1>5. /\ f.node = Node(c) /\ f.entered = FALSE /\ f.todo = {} /\ f.loop = NoLoop
      /\ Node(Node(c)) = Node(c) /\ Node(c).net = c.net
  BY <1>4 DEF Call, Node
<1>6. Sound(c.net)
  BY <1>2, InitialSound, DomainAssumption DEF Heads
<1>7. IsLoop(f.loop) /\ GoodLoop(f.node.net, f.loop)
  BY <1>5 DEF NoLoop, IsLoop, Loop, GoodLoop
<1>8. GoodCall(f)  BY <1>5, <1>6, <1>7 DEF GoodCall
<1>9. Len(stack) = 1 /\ stack[1] = f /\ stack # <<>> /\ \A j \in 1 .. 1 : j = 1
  BY <1>3, <1>4
<1>10. Calls  BY <1>3, <1>5, <1>8, <1>9 DEF Calls
<1>11. Unrefuted  BY <1>3, <1>5, <1>9 DEF Unrefuted, Open
<1> QED  BY <1>10, <1>11 DEF RefInv

\* The invariant for refutations: no call that waits or works has given up a node
\* of a progressive set.
THEOREM RefutationInvariant == RSpec => []RefInv
<1>1. ASSUME IInv, RefInv, RNext PROVE RefInv'
  <2>1. stack # <<>>  BY <1>1 DEF RNext
  <2>2. CASE Complete \/ CutOff \/ Exhausted \/ Unwind  BY <1>1, <2>1, <2>2, ReturnsRefute
  <2>3. CASE Enter  BY <1>1, <2>1, <2>3, EnterRefutes
  <2>4. CASE SecondPass  BY <1>1, <2>1, <2>4, SecondPassRefutes
  <2>5. CASE TaskTried  BY <1>1, <2>1, <2>5, TaskTriedRefutes
  <2>6. ASSUME NEW i, TryAction(i) PROVE RefInv'  BY <1>1, <2>1, <2>6, TryActionRefutes
  <2>7. ASSUME NEW i, TryTask(i) PROVE RefInv'  BY <1>1, <2>1, <2>7, TryTaskRefutes
  <2>8. ASSUME NEW name, TryMethod(name) PROVE RefInv'  BY <1>1, <2>1, <2>8, TryMethodRefutes
  <2>9. ASSUME NEW m, TryBinding(m) PROVE RefInv'  BY <1>1, <2>1, <2>9, TryBindingRefutes
  <2> QED  BY <1>1, <2>2, <2>3, <2>4, <2>5, <2>6, <2>7, <2>8, <2>9 DEF RNext
<1>2. ASSUME RefInv, UNCHANGED rvars PROVE RefInv'
  <2>1. stack' = stack /\ ret' = ret /\ options' = options  BY <1>2 DEF rvars
  <2>2. Calls'  BY <1>2, <2>1 DEF RefInv, Calls, GoodCall, GoodLoop, IsLoop
  <2>3. Unrefuted'
    BY <1>2, <2>1 DEF RefInv, Unrefuted, Open, Remains, Methods, Progressive
  <2> QED  BY <2>2, <2>3 DEF RefInv
<1> QED  BY <1>1, <1>2, RefutationInit, RolloutInvariant, PTL DEF RSpec

\* A refuted start is in no progressive set, whatever part of the candidates the
\* rollout was restricted to and wherever its look-ahead was used.
THEOREM RefutedRulesOut ==
  RSpec => [](Done /\ ret = "Refuted" =>
                \A P : Progressive(P, options.restrict) => Node(options.start) \notin P)
<1>1. RefInv => (Done /\ ret = "Refuted" =>
                   \A P : Progressive(P, options.restrict) => Node(options.start) \notin P)
  BY DEF RefInv, Unrefuted
<1> QED  BY <1>1, RefutationInvariant, PTL

---------------------------------------------------------------------------
\* The reference is defined: there are nodes that k steps lead to, for each k.
IsReach(f, c, n) == f = [k \in 0 .. n |-> IF k = 0 THEN {Node(c)} ELSE Onward(f[k - 1])]

LEMMA ReachExists ==
  ASSUME NEW c, NEW n \in Nat
  PROVE  \E f : IsReach(f, c, n)
<1> DEFINE Missing == {k \in Nat : ~ \E f : IsReach(f, c, k)}
<1>1. SUFFICES ASSUME Missing # {} PROVE FALSE
  OBVIOUS
<1>2. PICK m \in Missing : \A k \in Missing : m <= k
  <2>1. Missing \subseteq Nat  OBVIOUS
  <2> HIDE DEF Missing
  <2> QED  BY <1>1, <2>1, Least
<1>3. m # 0
  <2> DEFINE f == [k \in 0 .. 0 |-> {Node(c)}]
  <2>1. IsReach(f, c, 0)  BY DEF IsReach
  <2> QED  BY <2>1
<1>4. m \in Nat /\ m - 1 \in Nat /\ ~ (m <= m - 1)  BY <1>3
<1>5. PICK f : IsReach(f, c, m - 1)  BY <1>2, <1>4
<1> DEFINE g == [k \in 0 .. m |-> IF k = m THEN Onward(f[m - 1]) ELSE f[k]]
<1>6. ASSUME NEW k \in 0 .. m PROVE g[k] = IF k = 0 THEN {Node(c)} ELSE Onward(g[k - 1])
  <2>1. CASE k = m
    <3>1. m - 1 \in 0 .. m /\ m - 1 # m  BY <1>3, <1>4
    <3> QED  BY <1>3, <2>1, <3>1
  <2>2. CASE k # m
    <3>1. k \in 0 .. m - 1  BY <1>4, <2>2
    <3>2. f[k] = IF k = 0 THEN {Node(c)} ELSE Onward(f[k - 1])  BY <1>5, <3>1 DEF IsReach
    <3>3. k # 0 => k - 1 \in 0 .. m /\ k - 1 # m  BY <1>4, <3>1
    <3> QED  BY <2>2, <3>2, <3>3
  <2> QED  BY <2>1, <2>2
<1>7. g = [k \in 0 .. m |-> IF k = 0 THEN {Node(c)} ELSE Onward(g[k - 1])]
  <2>1. g = [k \in 0 .. m |-> g[k]]  OBVIOUS
  <2> HIDE DEF g
  <2> QED  BY <1>6, <2>1
<1> HIDE DEF g
<1>8. IsReach(g, c, m)  BY <1>7 DEF IsReach
<1> QED  BY <1>2, <1>8

LEMMA ReachedIs ==
  ASSUME NEW c
  PROVE  IsReach(Reached(c), c, Longest)
<1> DEFINE g == CHOOSE f : IsReach(f, c, Longest)
<1>1. IsReach(g, c, Longest)  BY ReachExists, LongestAssumption
<1>2. Reached(c) = g  BY DEF Reached, IsReach
<1> QED  BY <1>1, <1>2

\* What leads to a completed plan is in a progressive set where all tasks are tried.
LEMMA PlansAreProgressive ==
  ASSUME NEW c, NEW k \in 0 .. Longest, NEW x \in Reached(c)[k], Ids(x.net) = {}
  PROVE  \E P : Progressive(P, 0) /\ Node(c) \in P
<1> DEFINE nodes == Reached(c)
           OnPlan(j) == \E y \in nodes[k - j] : \E P : Progressive(P, 0) /\ y \in P
           Off == {j \in 0 .. k : ~ OnPlan(j)}
<1>1. k \in Nat /\ k <= Longest /\ Longest \in Nat  BY LongestAssumption
<1>2. \A j \in 0 .. Longest : nodes[j] = IF j = 0 THEN {Node(c)} ELSE Onward(nodes[j - 1])
  <2>1. IsReach(nodes, c, Longest)  BY ReachedIs
  <2> HIDE DEF nodes
  <2> QED  BY <2>1 DEF IsReach
<1> HIDE DEF nodes
<1>3. OnPlan(0)
  <2>1. Progressive({x}, 0)  BY DEF Progressive
  <2>2. x \in nodes[k - 0]  BY <1>1 DEF nodes
  <2> QED  BY <2>1, <2>2
<1>4. ASSUME NEW j \in 0 .. k, j # k, OnPlan(j) PROVE OnPlan(j + 1)
  <2>1. PICK y \in nodes[k - j] : \E P : Progressive(P, 0) /\ y \in P  BY <1>4
  <2>2. PICK P : Progressive(P, 0) /\ y \in P  BY <2>1
  <2>3. k - j \in 0 .. Longest /\ k - j # 0 /\ (k - j) - 1 = k - (j + 1)  BY <1>1, <1>4
  <2>4. y \in Onward(nodes[k - (j + 1)])  BY <1>2, <2>1, <2>3
  <2>5. PICK z \in nodes[k - (j + 1)] : \E i \in Free(z.net) : \E d \in Children(z, i, FALSE) : y = Node(d)
    <3> DEFINE X == nodes[k - (j + 1)]
    <3> HIDE DEF X
    <3>1. PICK d \in UNION {UNION {Children(z, i, FALSE) : i \in Free(z.net)} : z \in X} : y = Node(d)
      BY <2>4 DEF Onward, X
    <3>2. PICK z \in X : d \in UNION {Children(z, i, FALSE) : i \in Free(z.net)}  BY <3>1
    <3>3. PICK i \in Free(z.net) : d \in Children(z, i, FALSE)  BY <3>2
    <3> QED  BY <3>1, <3>2, <3>3 DEF X
  <2>6. Progressive(P \cup {z}, 0)
    <3>1. Candidates(z.net, 0) = {Free(z.net)}  BY DEF Candidates
    <3> QED  BY <2>2, <2>5, <3>1 DEF Progressive
  <2> QED  BY <2>5, <2>6
<1>5. OnPlan(k)
  <2>1. SUFFICES ASSUME Off # {} PROVE FALSE  BY <1>1
  <2>2. Off \subseteq Nat /\ Off \subseteq 0 .. k  OBVIOUS
  <2>3. \A j \in 0 .. k : j \in Off <=> ~ OnPlan(j)  OBVIOUS
  <2> HIDE DEF Off
  <2>4. PICK m \in Off : \A j \in Off : m <= j  BY <2>1, <2>2, Least
  <2> HIDE DEF OnPlan
  <2>5. m # 0 /\ m \in 0 .. k  BY <1>1, <1>3, <2>2, <2>3, <2>4
  <2>6. m - 1 \in 0 .. k /\ m - 1 # k /\ ~ (m <= m - 1) /\ (m - 1) + 1 = m  BY <1>1, <2>5
  <2>7. OnPlan(m - 1)  BY <2>3, <2>4, <2>6
  <2>8. OnPlan((m - 1) + 1)  BY <1>4, <2>6, <2>7
  <2> QED  BY <2>3, <2>4, <2>5, <2>6, <2>8
<1>6. PICK y \in nodes[k - k] : \E P : Progressive(P, 0) /\ y \in P  BY <1>5
<1>7. nodes[k - k] = {Node(c)}
  <2>1. k - k = 0 /\ 0 \in 0 .. Longest  BY <1>1
  <2> QED  BY <1>2, <2>1
<1> QED  BY <1>6, <1>7

\* A rollout that considers every unconstrained task refutes no start that a plan
\* completes.
THEOREM RefutationsAreProofs == RSpec => [](options.restrict = 0 => RefutedIsProof)
<1>1. ASSUME Done /\ ret = "Refuted" =>
               \A P : Progressive(P, options.restrict) => Node(options.start) \notin P
      PROVE  options.restrict = 0 => RefutedIsProof
  <2>1. SUFFICES ASSUME options.restrict = 0, Done, ret = "Refuted",
                        NEW k \in 0 .. Longest, NEW x \in Reached(options.start)[k], Ids(x.net) = {}
                 PROVE  FALSE
    BY DEF RefutedIsProof
  <2>2. PICK P : Progressive(P, 0) /\ Node(options.start) \in P  BY <2>1, PlansAreProgressive
  <2> QED  BY <1>1, <2>1, <2>2
<1> QED  BY <1>1, RefutedRulesOut, PTL
=============================================================================
