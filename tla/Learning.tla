------------------------------- MODULE Learning -------------------------------
(***************************************************************************)
(* Asking a model for what a family lacks, round by round: step lists of   *)
(* training problems (eval/learn_ground.py, cmd_run) or, the same loop     *)
(* with the family as the one case, methods (eval/learn_family.py,         *)
(* cmd_run). An answer that fails its test goes back with the diagnostic.  *)
(* A run may end anywhere and is then started again; the prompt and the    *)
(* domain may be edited between runs.                                      *)
(*                                                                         *)
(* A directory is <<case, run, round>>; the first round's request has a    *)
(* sample for every run and a directory of its own, of run 0. An answer is *)
(* tested the same way each time, so its diagnostic is not kept. Writing a *)
(* batch of samples is in module RunDirectory.                             *)
(***************************************************************************)
EXTENDS Naturals, Sequences, FiniteSets, TLC

CONSTANTS
  Cases,          \* the cases, in their order: 1 .. their number
  Runs,           \* answers a case gets in the first round
  Rounds,         \* answers a run may take
  Answers,        \* for each case, what the model may answer
  Stage(_, _),    \* the test an answer to a case comes to: "pass", or one it fails
  MaxEdits,       \* bound: edits of the prompt or the domain
  MaxCrashes      \* bound: runs that end early

ASSUME LearningAssumption == Runs \in Nat \ {0} /\ Rounds \in Nat \ {0} /\ Cases \subseteq Nat

None == "none"

ASSUME AnswersAssumption == \A c \in Cases : None \notin Answers[c]

VARIABLES
  edition,     \* of the prompt and the domain
  asked,       \* request.json of each directory
  made,        \* its samples, and the request that gen.json says they answer
  listed,      \* what was last tested in it (steps.txt, answer.hddl)
  judged,      \* verdict.json: the stage, and, for the properties, of which answer
  at,          \* "idle", "asking", "judging" or "recording"
  round,
  jobs,        \* the directories whose request is out
  answers,     \* the latest answer of each key
  stages,      \* the verdicts each key has had in this run
  todo,        \* the keys yet to be judged this round
  finished,    \* history: did the last run come to its end, with no edit since?
  crashed,     \* history: the editions a run was cut short in
  crashes

files  == <<asked, made, listed, judged>>
memory == <<at, round, jobs, answers, stages, todo>>
learning_vars == <<edition, files, memory, finished, crashed, crashes>>

Keys == Cases \X (1 .. Runs)

First(c)     == <<c, 0, 1>>
Later(k, n)  == <<k[1], k[2], n>>
Dirs         == {First(c) : c \in Cases} \cup {Later(k, n) : k \in Keys, n \in 1 .. Rounds}

\* The prompt of this edition, and the same with an answer that failed.
prompt              == [edition |-> edition, last |-> None]
repair_prompt(last) == [edition |-> edition, last |-> last]

\* The requests of some directories, written where they differ.
write_request(requests) ==
  asked' = [d \in Dirs |-> IF d \in DOMAIN requests THEN requests[d] ELSE asked[d]]

\* Are the samples there those of this request?
generated(d, request) == \E g \in made[d] : g.of = request

Passed(k) == stages[k] # <<>> /\ stages[k][Len(stages[k])] = "pass"

Init_learning ==
  /\ edition = 0
  /\ asked = [d \in Dirs |-> {}] /\ made = [d \in Dirs |-> {}]
  /\ listed = [d \in Dirs |-> None] /\ judged = [d \in Dirs |-> {}]
  /\ at = "idle" /\ round = 1 /\ jobs = {} /\ todo = {}
  /\ answers = [k \in Keys |-> None] /\ stages = [k \in Keys |-> <<>>]
  /\ finished = FALSE /\ crashed = {} /\ crashes = 0

---------------------------------------------------------------------------
\* Every case is asked, unless its answers to this prompt are there.
BeginRun ==
  /\ at = "idle"
  /\ write_request([d \in {First(c) : c \in Cases} |-> {prompt}])
  /\ jobs' = {d \in {First(c) : c \in Cases} : ~ generated(d, prompt)}
  /\ at' = "asking" /\ round' = 1 /\ todo' = {}
  /\ answers' = [k \in Keys |-> None] /\ stages' = [k \in Keys |-> <<>>]
  /\ finished' = FALSE
  /\ UNCHANGED <<edition, made, listed, judged, crashed, crashes>>

\* Keys, and the directories of a round, in their order.
Before(d, e) == d[1] < e[1] \/ (d[1] = e[1] /\ d[2] <= e[2])

\* executor: the samples of a batch's next request, one for each run in the first round.
executor ==
  /\ at = "asking"
  /\ \E d \in {e \in jobs : \A j \in jobs : Before(e, j)} : \E request \in asked[d], replies \in [1 .. (IF d[2] = 0 THEN Runs ELSE 1) -> Answers[d[1]]] :
       /\ made' = [made EXCEPT ![d] = {[of |-> request, replies |-> replies]}]
       /\ jobs' = jobs \ {d}
  /\ UNCHANGED <<edition, asked, listed, judged, at, round, answers, stages, todo, finished, crashed, crashes>>

Reply(d, r) == (CHOOSE g \in made[d] : TRUE).replies[r]

\* The answers of this round are read; who has passed is not judged again.
Collect ==
  /\ at = "asking" /\ jobs = {}
  /\ answers' = [k \in Keys |->
                   IF Passed(k) THEN answers[k] ELSE IF round = 1 THEN Reply(First(k[1]), k[2]) ELSE Reply(Later(k, round), 1)]
  /\ todo' = {k \in Keys : ~ Passed(k)}
  /\ at' = "judging"
  /\ UNCHANGED <<edition, files, round, jobs, stages, finished, crashed, crashes>>

\* The keys are judged in their order.
Judged(k) == k \in todo /\ \A j \in todo : Before(k, j)

\* A test first writes what it tests; a reply it cannot read, nothing.
Test ==
  /\ at = "judging"
  /\ \E k \in todo :
       /\ Judged(k)
       /\ listed' = IF Stage(k[1], answers[k]) = "format" THEN listed
                    ELSE [listed EXCEPT ![Later(k, round)] = answers[k]]
  /\ at' = "recording"
  /\ UNCHANGED <<edition, asked, made, judged, round, jobs, answers, stages, todo, finished, crashed, crashes>>

verdict(k) == [stage |-> Stage(k[1], answers[k]), of |-> answers[k]]

\* Mutant: a verdict that is there is taken as it is.
Record_once ==
  /\ at = "recording"
  /\ \E k \in todo :
       /\ Judged(k)
       /\ judged' = [judged EXCEPT ![Later(k, round)] = IF @ = {} THEN {verdict(k)} ELSE @]
       /\ stages' = [stages EXCEPT ![k] = Append(@, (CHOOSE v \in judged'[Later(k, round)] : TRUE).stage)]
       /\ todo' = todo \ {k}
  /\ at' = "judging"
  /\ UNCHANGED <<edition, asked, made, listed, round, jobs, answers, finished, crashed, crashes>>

\* Then the verdict.
Record ==
  /\ at = "recording"
  /\ \E k \in todo :
       /\ Judged(k)
       /\ judged' = [judged EXCEPT ![Later(k, round)] = {verdict(k)}]
       /\ stages' = [stages EXCEPT ![k] = Append(@, verdict(k).stage)]
       /\ todo' = todo \ {k}
  /\ at' = "judging"
  /\ UNCHANGED <<edition, asked, made, listed, round, jobs, answers, finished, crashed, crashes>>

Open == {k \in Keys : ~ Passed(k)}

\* What has not passed goes back with its last answer and the diagnostic.
NextRound ==
  /\ at = "judging" /\ todo = {} /\ Open # {} /\ round < Rounds
  /\ LET next == {Later(k, round + 1) : k \in Open}
         request(d) == repair_prompt(answers[<<d[1], d[2]>>])
     IN /\ write_request([d \in next |-> {request(d)}])
        /\ jobs' = {d \in next : ~ generated(d, request(d))}
  /\ at' = "asking" /\ round' = round + 1
  /\ UNCHANGED <<edition, made, listed, judged, answers, stages, todo, finished, crashed, crashes>>

\* Nothing is left to judge or no round is: verdicts.json is written.
Finish ==
  /\ at = "judging" /\ todo = {} /\ (Open = {} \/ round = Rounds)
  /\ at' = "idle" /\ finished' = TRUE
  /\ UNCHANGED <<edition, files, round, jobs, answers, stages, todo, crashed, crashes>>

\* Interrupted, or the executor failed: "Rerun to resume".
Crash ==
  /\ at # "idle" /\ crashes < MaxCrashes
  /\ at' = "idle" /\ crashes' = crashes + 1 /\ crashed' = crashed \cup {edition}
  /\ UNCHANGED <<edition, files, round, jobs, answers, stages, todo, finished>>

Edit ==
  /\ at = "idle" /\ edition < MaxEdits
  /\ edition' = edition + 1 /\ finished' = FALSE
  /\ UNCHANGED <<files, memory, crashed, crashes>>

LearningStep ==
  \/ BeginRun \/ executor \/ Collect \/ Test \/ Record \/ NextRound \/ Finish \/ Crash \/ Edit

LearningSpec == Init_learning /\ [][LearningStep]_learning_vars

---------------------------------------------------------------------------
\* A directory with a pass beside steps that the pass is not for. checked_lists
\* takes the two as they are.
Torn(k, n) == \E v \in judged[Later(k, n)] : v.stage = "pass" /\ listed[Later(k, n)] # v.of

\* A run that was cut short is mended by running it again. Once a run has come to
\* its end, no directory it came to is torn, after any edits and interruptions,
\* and none beyond them either, unless a run of an earlier prompt was cut short:
\* what such a one left torn there, a run of the new prompt need not come to.
Mended ==
  finished => \A k \in Keys, n \in 1 .. Rounds :
                Torn(k, n) => n > Len(stages[k]) /\ ~ (crashed \subseteq {edition})
=============================================================================
