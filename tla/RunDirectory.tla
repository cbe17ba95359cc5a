---------------------------- MODULE RunDirectory ----------------------------
(***************************************************************************)
(* The files of one problem in three run directories of the evaluation     *)
(* harness, and the commands that write them: a direct baseline            *)
(* (rtl_eval.py generate), a run of the pipeline (pipeline.py build and    *)
(* generate) and its translations (pipeline.py translate). Each command    *)
(* asks the executor for samples of the problem's request, unless it finds *)
(* that done; it may be interrupted anywhere, and is then run again.       *)
(*                                                                         *)
(* A directory holds request.json, the samples, and gen.json, which names  *)
(* the request they were made from and marks them as finished. The number  *)
(* of samples and the mode are fixed for a run (run.json refuses others).  *)
(* What a file holds is the request it states or was made from: seeds are  *)
(* fixed, so a sample is determined by its request and its number.         *)
(***************************************************************************)
EXTENDS Naturals

CONSTANTS
  Requests,     \* what the prompt builders may produce for the problem
  N,            \* samples per request
  MaxEdits,     \* bound: changes of the prompt, by an edit of code or data
  MaxCrashes    \* bound: interrupted commands and failures of the executor

ASSUME RunAssumption == Requests # {} /\ N \in Nat \ {0}

Dirs == {"direct", "pipeline", "translation"}

\* The files of a directory are numbered: the samples from 0, and two more.
Samples == 0 .. N - 1
Gen     == N
Request == N + 1
Files   == 0 .. N + 1

Absent == "no file"
Torn   == "cut short"

ASSUME ContentsAssumption == {Absent, Torn} \cap Requests = {}

VARIABLES
  want,      \* the request the code and the data would build now
  fs,        \* what each file of each directory holds
  at,        \* what the running command does next
  dir,       \* the directory it works on
  todo,      \* the files it has yet to write
  cut,       \* history: directories where copying samples was interrupted
  edits,     \* changes of the prompt so far
  crashes    \* interruptions so far

vars == <<want, fs, at, dir, todo, cut, edits, crashes>>

Exists(d, f) == fs[d][f] # Absent

\* Mutant of done: any gen.json will do.
doneByName(d) == fs[d][Gen] \in Requests

\* done of pipeline.py, where gen.json can be read: by the hash of the request.
done(d) == fs[d][Gen] \in Requests /\ fs[d][Gen] = fs[d][Request]

\* Reading a gen.json that was cut short is an error and ends the command.
Readable(d) == fs[d][Gen] # Torn

Init ==
  /\ want \in [Dirs -> Requests]
  /\ fs = [d \in Dirs |-> [f \in Files |-> Absent]]
  /\ at = "idle" /\ dir = "direct" /\ todo = {}
  /\ cut = {} /\ edits = 0 /\ crashes = 0

---------------------------------------------------------------------------
(***************************************************************************)
(* How a command begins. One that finds nothing to do, or refuses, or      *)
(* fails on a file it cannot read, changes nothing: it is not a step.      *)
(***************************************************************************)
Begin(d, step, files) ==
  /\ at = "idle"
  /\ at' = step /\ dir' = d /\ todo' = files
  /\ UNCHANGED <<want, fs, cut, edits, crashes>>

\* Mutant of StartDirect: an interrupted problem is not generated again.
StartDirectOnce == ~ Exists("direct", Request) /\ Begin("direct", "request", {})

\* rtl_eval.cmd_generate: generate anew unless there is a gen.json beside the
\* same request.
StartDirect ==
  /\ ~ (Exists("direct", Gen) /\ fs["direct"][Request] = want["direct"])
  /\ Begin("direct", "request", {})

\* The translations that are voted on are looked for by their names.
route == \A s \in Samples : Exists("translation", s)

\* pipeline.cmd_build: the vote decides the request. It refuses to change one
\* that was generated from.
Build ==
  /\ route
  /\ Exists("pipeline", Gen) /\ Exists("pipeline", Request)
       => fs["pipeline"][Request] = want["pipeline"]
  /\ Begin("pipeline", "request", {})

\* reuse: another run has the samples of the very same request.
Reusable == fs["direct"][Request] = fs["pipeline"][Request] /\ done("direct")

StartPipeline ==
  /\ Exists("pipeline", Request) /\ Readable("pipeline") /\ ~ done("pipeline")
  /\ fs["direct"][Request] = fs["pipeline"][Request] => Readable("direct")
  /\ IF Reusable THEN Begin("pipeline", "copy", {f \in Samples \cup {Gen} : Exists("direct", f)})
                 ELSE Begin("pipeline", "executor", {})

\* pipeline.cmd_translate: a request that differs is written, and generated
\* unless done.
StartTranslation ==
  \/ /\ fs["translation"][Request] # want["translation"]
     /\ Begin("translation", "request", {})
  \/ /\ fs["translation"][Request] = want["translation"]
     /\ Readable("translation") /\ ~ done("translation")
     /\ Begin("translation", "executor", {})

---------------------------------------------------------------------------
Put(d, f, content) == fs' = [fs EXCEPT ![d] = [@ EXCEPT ![f] = content]]

\* Where a command goes once its request is written.
AfterRequest ==
  CASE dir = "direct" -> "executor"
    [] dir = "pipeline" -> "idle"
    [] dir = "translation" ->
         IF Readable(dir) /\ fs[dir][Gen] # want[dir] THEN "executor" ELSE "idle"

WriteRequest ==
  /\ at = "request"
  /\ Put(dir, Request, want[dir])
  /\ at' = AfterRequest
  /\ UNCHANGED <<want, dir, todo, cut, edits, crashes>>

\* Mutant of RunExecutor: the last gen.json stays until it is rewritten.
RunExecutorKeepGen ==
  /\ at = "executor" /\ fs[dir][Request] \in Requests
  /\ at' = "generate" /\ todo' = Samples \cup {Gen}
  /\ cut' = cut \ {dir}
  /\ UNCHANGED <<want, fs, dir, edits, crashes>>

\* run_request: the directory is unfinished until gen.json is rewritten. The
\* samples are only written once all of them have been generated.
RunExecutor ==
  /\ at = "executor" /\ fs[dir][Request] \in Requests
  /\ Put(dir, Gen, Absent)
  /\ at' = "generate" /\ todo' = Samples \cup {Gen}
  /\ cut' = cut \ {dir}
  /\ UNCHANGED <<want, dir, edits, crashes>>

\* A request that cannot be parsed fails before anything is removed.
RejectRequest ==
  /\ at = "executor" /\ fs[dir][Request] \notin Requests
  /\ at' = "idle"
  /\ UNCHANGED <<want, fs, dir, todo, cut, edits, crashes>>

\* The files the next write may be of: the executor goes through the samples and
\* writes gen.json last; copying follows the order of os.listdir, which is any.
Pending ==
  CASE at = "request"  -> {Request}
    [] at = "generate" -> {f \in todo : \A g \in todo : f <= g}
    [] at = "copy"     -> todo
    [] OTHER           -> {}

Finish(f) ==
  /\ todo' = todo \ {f}
  /\ at' = IF todo = {f} THEN "idle" ELSE at
  /\ UNCHANGED <<want, dir, edits, crashes>>

WriteOutput(f) ==
  /\ at = "generate" /\ f \in Pending
  /\ Put(dir, f, fs[dir][Request])
  /\ Finish(f)
  /\ UNCHANGED cut

\* shutil.copy, of a file of the run that has the samples.
CopyOutput(f) ==
  /\ at = "copy" /\ f \in Pending
  /\ Put(dir, f, fs["direct"][f])
  /\ cut' = IF todo = {f} THEN cut \ {dir} ELSE cut
  /\ Finish(f)

Step == WriteRequest \/ RunExecutor \/ RejectRequest
        \/ \E f \in todo : WriteOutput(f) \/ CopyOutput(f)

---------------------------------------------------------------------------
\* The command is interrupted, or the executor fails. The file being written may
\* be left cut short: all of them are truncated first and then written.
Crash ==
  /\ at # "idle" /\ crashes < MaxCrashes
  /\ \/ UNCHANGED fs
     \/ \E f \in Pending : Put(dir, f, Torn)
  /\ at' = "idle" /\ todo' = {}
  /\ cut' = IF at = "copy" THEN cut \cup {dir} ELSE cut
  /\ crashes' = crashes + 1
  /\ UNCHANGED <<want, dir, edits>>

\* The code or the data changes what the request should be.
Edit ==
  /\ at = "idle" /\ edits < MaxEdits
  /\ \E d \in Dirs : \E r \in Requests : want' = [want EXCEPT ![d] = r]
  /\ edits' = edits + 1
  /\ UNCHANGED <<fs, at, dir, todo, cut, crashes>>

\* What build asks for when it refuses: the run is moved out of the way.
MoveAside ==
  /\ at = "idle"
  /\ Exists("pipeline", Gen) /\ fs["pipeline"][Request] # want["pipeline"]
  /\ fs' = [fs EXCEPT !["pipeline"] = [f \in Files |-> Absent]]
  /\ cut' = cut \ {"pipeline"}
  /\ UNCHANGED <<want, at, dir, todo, edits, crashes>>

Next ==
  \/ StartDirect \/ Build \/ StartPipeline \/ StartTranslation
  \/ Step \/ Crash \/ Edit \/ MoveAside

Spec == Init /\ [][Next]_vars

\* A command goes on until it ends, and whoever runs the harness keeps running
\* every command again while it has something to do.
FairSpec ==
  /\ Spec /\ WF_vars(Step)
  /\ SF_vars(StartDirect) /\ SF_vars(Build) /\ SF_vars(StartPipeline) /\ SF_vars(StartTranslation)

---------------------------------------------------------------------------
\* A gen.json that can be read vouches for every sample beside it: all are there,
\* and made from the request it names (executor/README.md: a directory without
\* gen.json is unfinished). Except while samples are copied, or where that was
\* interrupted.
GenVouches ==
  \A d \in Dirs \ cut :
    fs[d][Gen] \in Requests /\ ~ (at = "copy" /\ dir = d)
      => \A s \in Samples : fs[d][s] = fs[d][Gen]

\* What reuse has copied so far, and at the end all there is, was made from the
\* pipeline's own request ("the samples this run would produce",
\* pipeline.py:269): whatever was edited or interrupted before, in either
\* directory, and whatever older files the copies go over.
ReusedIsOwn ==
  [][at = "copy" /\ ~ Crash =>
       \A f \in (Samples \cup {Gen}) \ todo' : fs'[dir][f] = fs'[dir][Request]]_vars

\* Re-running ends: every directory gets finished, unless an interruption cut a
\* gen.json short, or request.json of the pipeline beside a gen.json.
Stuck(d) ==
  \/ ~ Readable(d)
  \/ d = "pipeline" /\ (~ Readable("direct") \/ (fs[d][Request] = Torn /\ Exists(d, Gen)))

Finished(d) == IF d = "direct" THEN Exists(d, Gen) /\ fs[d][Request] = want[d] ELSE done(d)

Resumes == \A d \in Dirs : <>[](Finished(d) \/ Stuck(d))

\* eval/README.md:65: "Interrupting is safe. generate resumes, skipping every
\* problem whose gen.json is complete for the same request." What rtl_eval.py
\* generate skips should be samples of the request it builds.
SkippedIsCurrent ==
  at = "idle" /\ fs["direct"][Gen] \in Requests /\ fs["direct"][Request] = want["direct"]
    => \A s \in Samples : fs["direct"][s] = want["direct"]
=============================================================================
