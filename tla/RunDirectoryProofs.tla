------------------------- MODULE RunDirectoryProofs -------------------------
(***************************************************************************)
(* Proofs that a gen.json vouches for the samples beside it, for any set   *)
(* of requests, any number of samples and any number of edits and          *)
(* interruptions.                                                          *)
(***************************************************************************)
EXTENDS RunDirectory, TLAPS

Outputs == Samples \cup {Gen}

\* What is known of the directory the executor is writing to.
Generating ==
  at = "generate" =>
    /\ fs[dir][Request] \in Requests /\ fs[dir][Gen] = Absent
    /\ Gen \in todo /\ dir \notin cut
    /\ \A s \in Samples \ todo : fs[dir][s] = fs[dir][Request]

\* What is known while samples are copied: what has been copied is there, and
\* the other run is finished, from the very same request.
Copying ==
  at = "copy" =>
    /\ dir = "pipeline" /\ todo # {}
    /\ fs["direct"][Gen] \in Requests
    /\ fs["direct"][Gen] = fs["direct"][Request] /\ fs["direct"][Request] = fs["pipeline"][Request]
    /\ \A f \in Outputs \ todo : fs["pipeline"][f] = fs["direct"][f]

Typed ==
  /\ want \in [Dirs -> Requests]
  /\ fs \in [Dirs -> [Files -> Requests \cup {Absent, Torn}]]
  /\ dir \in Dirs /\ todo \subseteq Outputs /\ cut \subseteq {"pipeline"}

\* The inductive invariant.
FilesInv == Typed /\ GenVouches /\ Generating /\ Copying

\* Changing one file changes nothing else.
LEMMA PutFile ==
  ASSUME Typed, NEW d \in Dirs, NEW f \in Files, NEW c \in Requests \cup {Absent, Torn}, Put(d, f, c)
  PROVE  /\ fs' \in [Dirs -> [Files -> Requests \cup {Absent, Torn}]]
         /\ fs'[d][f] = c
         /\ \A e \in Dirs, g \in Files : (e # d \/ g # f) => fs'[e][g] = fs[e][g]
  BY DEF Put, Typed

\* The files are distinct, and each is a file.
LEMMA FilesAre ==
  /\ Samples \subseteq Files /\ Gen \in Files /\ Request \in Files
  /\ Gen \notin Samples /\ Request \notin Samples /\ Request # Gen /\ Outputs \subseteq Files
  BY RunAssumption DEF Samples, Files, Gen, Request, Outputs

LEMMA InitFiles == Init => FilesInv
  <1> SUFFICES ASSUME Init PROVE FilesInv
    OBVIOUS
  <1>1. Typed
    BY DEF Init, Typed, Dirs
  <1>2. \A d \in Dirs : fs[d][Gen] = Absent
    BY FilesAre DEF Init
  <1>3. GenVouches
    BY <1>2, ContentsAssumption DEF GenVouches
  <1>4. Generating /\ Copying
    BY DEF Init, Generating, Copying
  <1> QED BY <1>1, <1>3, <1>4 DEF FilesInv

\* Beginning a command writes nothing.
LEMMA BeginKeeps ==
  ASSUME FilesInv, NEW d \in Dirs, NEW step \in {"request", "executor"}, Begin(d, step, {})
  PROVE  FilesInv'
  <1>1. at = "idle" /\ at' = step /\ dir' = d /\ todo' = {} /\ want' = want /\ fs' = fs /\ cut' = cut
    BY DEF Begin
  <1>2. Typed'
    BY <1>1 DEF FilesInv, Typed
  <1>3. GenVouches'
    BY <1>1 DEF FilesInv, GenVouches
  <1>4. Generating' /\ Copying'
    BY <1>1 DEF Generating, Copying
  <1> QED BY <1>2, <1>3, <1>4 DEF FilesInv

\* Copying begins only beside a finished run, whose files are then all there.
LEMMA CopyBegins ==
  ASSUME FilesInv, Reusable, Begin("pipeline", "copy", {f \in Outputs : Exists("direct", f)})
  PROVE  FilesInv'
  <1>1. /\ at = "idle" /\ at' = "copy" /\ dir' = "pipeline" /\ want' = want /\ fs' = fs /\ cut' = cut
        /\ todo' = {f \in Outputs : Exists("direct", f)}
    BY DEF Begin
  <1>2. /\ fs["direct"][Gen] \in Requests /\ "direct" \in Dirs \ cut
        /\ fs["direct"][Gen] = fs["direct"][Request] /\ fs["direct"][Request] = fs["pipeline"][Request]
    BY DEF Reusable, done, FilesInv, Typed, Dirs
  <1>3. \A s \in Samples : fs["direct"][s] = fs["direct"][Gen]
    BY <1>1, <1>2 DEF FilesInv, GenVouches
  <1>4. \A f \in Outputs : Exists("direct", f)
    BY <1>2, <1>3, ContentsAssumption DEF Exists, Outputs
  <1>5. todo' = Outputs /\ todo' # {}
    BY <1>1, <1>4 DEF Outputs
  <1>6. Typed'
    BY <1>1, <1>5 DEF FilesInv, Typed, Dirs
  <1>7. GenVouches'
    BY <1>1 DEF FilesInv, GenVouches
  <1>8. Generating' /\ Copying'
    BY <1>1, <1>2, <1>5 DEF Generating, Copying
  <1> QED BY <1>6, <1>7, <1>8 DEF FilesInv

\* A directory whose outputs a step leaves alone goes on vouching for them.
LEMMA OutputsKept ==
  ASSUME FilesInv, Typed', NEW d \in Dirs, d \notin cut', ~ (at = "copy" /\ dir = d), d \notin cut,
         \A f \in Outputs : fs'[d][f] = fs[d][f], fs'[d][Gen] \in Requests
  PROVE  \A s \in Samples : fs'[d][s] = fs'[d][Gen]
  <1>1. fs'[d][Gen] = fs[d][Gen] /\ \A s \in Samples : fs'[d][s] = fs[d][s]
    BY DEF Outputs
  <1> QED BY <1>1 DEF FilesInv, GenVouches

LEMMA WriteRequestKeeps == ASSUME FilesInv, WriteRequest PROVE FilesInv'
  <1>1. /\ at = "request" /\ Put(dir, Request, want[dir]) /\ at' \in {"idle", "executor"}
        /\ want' = want /\ dir' = dir /\ todo' = todo /\ cut' = cut
    BY DEF WriteRequest, AfterRequest, FilesInv, Typed, Dirs
  <1>2. dir \in Dirs /\ want[dir] \in Requests
    BY DEF FilesInv, Typed
  <1>3. /\ fs' \in [Dirs -> [Files -> Requests \cup {Absent, Torn}]]
        /\ \A d \in Dirs : \A f \in Outputs : fs'[d][f] = fs[d][f]
    BY <1>1, <1>2, PutFile, FilesAre DEF FilesInv, Outputs
  <1>4. Typed'
    BY <1>1, <1>3 DEF FilesInv, Typed
  <1>5. GenVouches'
    BY <1>1, <1>3, <1>4, OutputsKept DEF GenVouches
  <1>6. Generating' /\ Copying'
    BY <1>1 DEF Generating, Copying
  <1> QED BY <1>4, <1>5, <1>6 DEF FilesInv

LEMMA RunExecutorKeeps == ASSUME FilesInv, RunExecutor PROVE FilesInv'
  <1>1. /\ at = "executor" /\ fs[dir][Request] \in Requests /\ Put(dir, Gen, Absent)
        /\ at' = "generate" /\ todo' = Outputs /\ cut' = cut \ {dir} /\ want' = want /\ dir' = dir
    BY DEF RunExecutor, Outputs
  <1>2. dir \in Dirs
    BY DEF FilesInv, Typed
  <1>3. /\ fs' \in [Dirs -> [Files -> Requests \cup {Absent, Torn}]]
        /\ fs'[dir][Gen] = Absent /\ fs'[dir][Request] = fs[dir][Request]
        /\ \A d \in Dirs \ {dir} : \A f \in Outputs : fs'[d][f] = fs[d][f]
    BY <1>1, <1>2, PutFile, FilesAre DEF FilesInv
  <1>4. Typed'
    BY <1>1, <1>3 DEF FilesInv, Typed
  <1>5. \A d \in Dirs \ cut' : fs'[d][Gen] \in Requests => d \in Dirs \ cut /\ d # dir
    BY <1>1, <1>3, ContentsAssumption
  <1>6. GenVouches'
    BY <1>1, <1>3, <1>4, <1>5, OutputsKept DEF GenVouches
  <1>7. Generating' /\ Copying'
    BY <1>1, <1>3 DEF Generating, Copying, Outputs
  <1> QED BY <1>4, <1>6, <1>7 DEF FilesInv

\* gen.json is the last thing the executor writes: when it does, every sample is
\* already made from the request.
LEMMA WriteOutputKeeps == ASSUME FilesInv, NEW f \in todo, WriteOutput(f) PROVE FilesInv'
  <1>1. /\ at = "generate" /\ Put(dir, f, fs[dir][Request]) /\ todo' = todo \ {f}
        /\ at' = (IF todo = {f} THEN "idle" ELSE at) /\ want' = want /\ dir' = dir /\ cut' = cut
    BY DEF WriteOutput, Finish
  <1>2. \A g \in todo : f <= g
    BY DEF WriteOutput, Pending
  <1>3. /\ dir \in Dirs /\ dir \notin cut /\ fs[dir][Request] \in Requests /\ fs[dir][Gen] = Absent
        /\ Gen \in todo /\ todo \subseteq Outputs
        /\ \A s \in Samples \ todo : fs[dir][s] = fs[dir][Request]
    BY <1>1 DEF FilesInv, Typed, Generating
  <1>4. f = Gen <=> todo = {f}
    <2>1. \A g \in Outputs : Gen <= g => g = Gen
      BY RunAssumption DEF Outputs, Samples, Gen
    <2> QED BY <1>2, <1>3, <2>1
  <1>5. /\ fs' \in [Dirs -> [Files -> Requests \cup {Absent, Torn}]]
        /\ fs'[dir][f] = fs[dir][Request]
        /\ \A e \in Dirs, g \in Files : (e # dir \/ g # f) => fs'[e][g] = fs[e][g]
    BY <1>1, <1>3, PutFile, FilesAre DEF FilesInv
  <1>6. Typed'
    BY <1>1, <1>5 DEF FilesInv, Typed
  <1>7. \A s \in Samples \ todo' : fs'[dir][s] = fs'[dir][Request]
    BY <1>1, <1>3, <1>5, FilesAre DEF Outputs
  <1>8. ASSUME NEW d \in Dirs \ cut', fs'[d][Gen] \in Requests
        PROVE  \A s \in Samples : fs'[d][s] = fs'[d][Gen]
    <2>1. CASE d # dir
      <3>1. \A g \in Outputs : fs'[d][g] = fs[d][g]
        BY <1>5, <2>1, FilesAre
      <3> QED BY <1>1, <1>6, <1>8, <3>1, OutputsKept
    <2>2. CASE d = dir
      <3>1. f = Gen
        BY <1>3, <1>5, <1>8, <2>2, FilesAre, ContentsAssumption
      <3>2. todo' = {} /\ fs'[dir][Gen] = fs[dir][Request] /\ fs'[dir][Request] = fs[dir][Request]
        BY <1>1, <1>3, <1>4, <1>5, <3>1, FilesAre
      <3> QED BY <1>7, <2>2, <3>2
    <2> QED BY <2>1, <2>2
  <1>9. GenVouches'
    BY <1>8 DEF GenVouches
  <1>10. Generating'
    <2> SUFFICES ASSUME at' = "generate" PROVE Generating'
      BY DEF Generating
    <2>1. f # Gen
      BY <1>1, <1>4
    <2>2. fs'[dir][Request] = fs[dir][Request] /\ fs'[dir][Gen] = Absent /\ Gen \in todo'
      BY <1>1, <1>3, <1>5, <2>1, FilesAre
    <2> QED BY <1>1, <1>3, <1>7, <2>2 DEF Generating
  <1>11. Copying'
    BY <1>1 DEF Copying
  <1> QED BY <1>6, <1>9, <1>10, <1>11 DEF FilesInv

\* When the last file has been copied, the directory is the finished run's.
LEMMA CopyOutputKeeps == ASSUME FilesInv, NEW f \in todo, CopyOutput(f) PROVE FilesInv'
  <1>1. /\ at = "copy" /\ Put(dir, f, fs["direct"][f]) /\ todo' = todo \ {f}
        /\ at' = (IF todo = {f} THEN "idle" ELSE at) /\ want' = want /\ dir' = dir
        /\ cut' = (IF todo = {f} THEN cut \ {dir} ELSE cut)
    BY DEF CopyOutput, Finish
  <1>2. /\ dir = "pipeline" /\ {"direct", "pipeline"} \subseteq Dirs /\ "direct" \notin cut
        /\ f \in Outputs /\ fs["direct"][Gen] \in Requests
        /\ fs["direct"][Gen] = fs["direct"][Request] /\ fs["direct"][Request] = fs["pipeline"][Request]
        /\ \A g \in Outputs \ todo : fs["pipeline"][g] = fs["direct"][g]
    BY <1>1 DEF FilesInv, Typed, Copying, Dirs
  <1>3. fs["direct"][f] \in Requests \cup {Absent, Torn}
    BY <1>2, FilesAre DEF FilesInv, Typed
  <1>4. /\ fs' \in [Dirs -> [Files -> Requests \cup {Absent, Torn}]]
        /\ fs'["pipeline"][f] = fs["direct"][f]
        /\ \A e \in Dirs, g \in Files : (e # "pipeline" \/ g # f) => fs'[e][g] = fs[e][g]
        /\ \A e \in Dirs : fs'[e][Request] = fs[e][Request]
    BY <1>1, <1>2, <1>3, PutFile, FilesAre DEF FilesInv, Outputs
  <1>5. Typed'
    BY <1>1, <1>2, <1>4 DEF FilesInv, Typed
  <1>6. /\ \A g \in Outputs : fs'["direct"][g] = fs["direct"][g]
        /\ \A g \in Outputs \ todo' : fs'["pipeline"][g] = fs'["direct"][g]
    BY <1>1, <1>2, <1>4, FilesAre
  <1>7. ASSUME NEW d \in Dirs \ cut', fs'[d][Gen] \in Requests, ~ (at' = "copy" /\ dir' = d)
        PROVE  \A s \in Samples : fs'[d][s] = fs'[d][Gen]
    <2>1. CASE d # "pipeline"
      <3>1. \A g \in Outputs : fs'[d][g] = fs[d][g]
        BY <1>4, <2>1, FilesAre
      <3>2. d \notin cut
        BY <1>1, <1>2, <1>7, <2>1
      <3> QED BY <1>2, <1>5, <1>7, <2>1, <3>1, <3>2, OutputsKept
    <2>2. CASE d = "pipeline"
      <3>1. todo' = {}
        BY <1>1, <1>2, <1>7, <2>2
      <3>2. \A g \in Outputs : fs'["pipeline"][g] = fs["direct"][g]
        BY <1>6, <3>1
      <3>3. \A s \in Samples : fs["direct"][s] = fs["direct"][Gen]
        BY <1>2 DEF FilesInv, GenVouches
      <3> QED BY <2>2, <3>2, <3>3 DEF Outputs
    <2> QED BY <2>1, <2>2
  <1>8. GenVouches'
    BY <1>7 DEF GenVouches
  <1>9. Generating'
    BY <1>1 DEF Generating
  <1>10. Copying'
    BY <1>1, <1>2, <1>4, <1>6, FilesAre DEF Copying, Outputs
  <1> QED BY <1>5, <1>8, <1>9, <1>10 DEF FilesInv

\* An interruption leaves no gen.json that can be read where there was none,
\* but in a directory that was being copied to.
LEMMA CrashKeeps == ASSUME FilesInv, Crash PROVE FilesInv'
  <1>1. /\ at' = "idle" /\ todo' = {} /\ want' = want /\ dir' = dir
        /\ cut' = (IF at = "copy" THEN cut \cup {dir} ELSE cut)
        /\ fs' = fs \/ \E f \in Pending : Put(dir, f, Torn)
    BY DEF Crash
  <1>2. dir \in Dirs /\ (at = "copy" => dir = "pipeline")
    BY DEF FilesInv, Typed, Copying
  <1>3. Pending \subseteq Files /\ (at = "request" => Pending = {Request})
        /\ (at \notin {"request", "generate", "copy"} => Pending = {})
    BY FilesAre DEF Pending, FilesInv, Typed
  <1>4. fs' \in [Dirs -> [Files -> Requests \cup {Absent, Torn}]]
    BY <1>1, <1>2, <1>3, PutFile DEF FilesInv, Typed
  <1>5. \A d \in Dirs \ {dir} : \A f \in Outputs : fs'[d][f] = fs[d][f]
    BY <1>1, <1>2, <1>3, PutFile, FilesAre DEF FilesInv
  <1>6. Typed'
    BY <1>1, <1>2, <1>4 DEF FilesInv, Typed
  <1>7. ASSUME NEW d \in Dirs \ cut', fs'[d][Gen] \in Requests
        PROVE  \A s \in Samples : fs'[d][s] = fs'[d][Gen]
    <2>1. d \notin cut /\ ~ (at = "copy" /\ dir = d)
      BY <1>1, <1>7
    <2>2. CASE d # dir
      <3> QED BY <1>5, <1>6, <1>7, <2>1, <2>2, OutputsKept
    <2>3. CASE d = dir /\ at = "generate"
      <3>1. fs[dir][Gen] = Absent
        BY <2>3 DEF FilesInv, Generating
      <3>2. fs'[dir][Gen] \in {Absent, Torn}
        <4>1. CASE fs' = fs
          BY <3>1, <4>1
        <4>2. CASE \E f \in Pending : Put(dir, f, Torn)
          BY <1>2, <1>3, <3>1, <4>2, PutFile, FilesAre DEF FilesInv
        <4> QED BY <1>1, <4>1, <4>2
      <3> QED BY <1>7, <2>3, <3>2, ContentsAssumption
    <2>4. CASE d = dir /\ at # "generate"
      <3>1. \A f \in Outputs : fs'[d][f] = fs[d][f]
        <4>1. CASE fs' = fs
          BY <4>1
        <4>2. CASE \E f \in Pending : Put(dir, f, Torn)
          <5>1. Put(dir, Request, Torn)
            BY <1>3, <2>1, <2>4, <4>2
          <5> QED BY <1>2, <2>4, <5>1, PutFile, FilesAre DEF FilesInv, Outputs
        <4> QED BY <1>1, <4>1, <4>2
      <3> QED BY <1>6, <1>7, <2>1, <3>1, OutputsKept
    <2> QED BY <2>2, <2>3, <2>4
  <1>8. GenVouches'
    BY <1>7 DEF GenVouches
  <1>9. Generating' /\ Copying'
    BY <1>1 DEF Generating, Copying
  <1> QED BY <1>6, <1>8, <1>9 DEF FilesInv

LEMMA EditKeeps == ASSUME FilesInv, Edit PROVE FilesInv'
  <1>1. at = "idle" /\ fs' = fs /\ at' = at /\ dir' = dir /\ todo' = todo /\ cut' = cut
    BY DEF Edit
  <1>2. want' \in [Dirs -> Requests]
    BY DEF Edit, FilesInv, Typed
  <1>3. Typed'
    BY <1>1, <1>2 DEF FilesInv, Typed
  <1>4. GenVouches'
    BY <1>1 DEF FilesInv, GenVouches
  <1> QED BY <1>1, <1>3, <1>4 DEF FilesInv, Generating, Copying

LEMMA MoveAsideKeeps == ASSUME FilesInv, MoveAside PROVE FilesInv'
  <1>1. /\ at = "idle" /\ at' = at /\ dir' = dir /\ todo' = todo /\ want' = want
        /\ fs' = [fs EXCEPT !["pipeline"] = [f \in Files |-> Absent]]
        /\ cut' = cut \ {"pipeline"}
    BY DEF MoveAside
  <1>2. Typed'
    BY <1>1 DEF FilesInv, Typed
  <1>3. ASSUME NEW d \in Dirs \ cut', fs'[d][Gen] \in Requests
        PROVE  \A s \in Samples : fs'[d][s] = fs'[d][Gen]
    <2>1. d # "pipeline"
      <3>1. d = "pipeline" => fs'[d][Gen] = Absent
        BY <1>1, FilesAre DEF FilesInv, Typed
      <3> QED BY <1>3, <3>1, ContentsAssumption
    <2>2. \A f \in Outputs : fs'[d][f] = fs[d][f]
      BY <1>1, <2>1 DEF FilesInv, Typed
    <2> QED BY <1>1, <1>2, <1>3, <2>1, <2>2, OutputsKept
  <1>4. GenVouches'
    BY <1>3 DEF GenVouches
  <1> QED BY <1>1, <1>2, <1>4 DEF FilesInv, Generating, Copying

LEMMA NextKeeps == ASSUME FilesInv, [Next]_vars PROVE FilesInv'
  <1>1. CASE UNCHANGED vars
    BY <1>1 DEF vars, FilesInv, Typed, GenVouches, Generating, Copying
  <1>2. CASE StartDirect
    BY <1>2, BeginKeeps DEF StartDirect, Dirs
  <1>3. CASE Build
    BY <1>3, BeginKeeps DEF Build, Dirs
  <1>4. CASE StartPipeline
    <2>1. CASE Reusable
      BY <1>4, <2>1, CopyBegins DEF StartPipeline, Outputs
    <2>2. CASE ~ Reusable
      BY <1>4, <2>2, BeginKeeps DEF StartPipeline, Dirs
    <2> QED BY <2>1, <2>2
  <1>5. CASE StartTranslation
    BY <1>5, BeginKeeps DEF StartTranslation, Dirs
  <1>6. CASE RejectRequest
    BY <1>6 DEF RejectRequest, FilesInv, Typed, GenVouches, Generating, Copying
  <1> QED BY <1>1, <1>2, <1>3, <1>4, <1>5, <1>6, WriteRequestKeeps, RunExecutorKeeps,
             WriteOutputKeeps, CopyOutputKeeps, CrashKeeps, EditKeeps, MoveAsideKeeps DEF Next, Step

\* The files of a run tell the truth, whatever is edited and interrupted.
THEOREM FilesInvariant == Spec => []FilesInv
  BY InitFiles, NextKeeps, PTL DEF Spec

\* A gen.json that can be read vouches for every sample beside it, unless copying
\* was interrupted there.
THEOREM AlwaysVouches == Spec => []GenVouches
  <1>1. FilesInv => GenVouches
    BY DEF FilesInv
  <1> QED BY <1>1, FilesInvariant, PTL

\* A copied file holds what the other run's does, the other run's files were all
\* made from the request it names, and that is the pipeline's.
LEMMA CopiesOwn ==
  ASSUME FilesInv, at = "copy", NEW f \in todo, CopyOutput(f)
  PROVE  \A g \in Outputs \ todo' : fs'[dir][g] = fs'[dir][Request]
  <1>1. /\ Put("pipeline", f, fs["direct"][f]) /\ dir = "pipeline" /\ todo' = todo \ {f} /\ f \in Outputs
        /\ {"direct", "pipeline"} \subseteq Dirs /\ "direct" \notin cut
    BY DEF CopyOutput, Finish, FilesInv, Typed, Copying, Dirs
  <1>2. /\ fs["direct"][Gen] \in Requests /\ fs["direct"][Gen] = fs["pipeline"][Request]
        /\ \A g \in Outputs \ todo : fs["pipeline"][g] = fs["direct"][g]
    BY DEF FilesInv, Copying
  <1>3. \A g \in Outputs : fs["direct"][g] = fs["pipeline"][Request]
    BY <1>1, <1>2 DEF FilesInv, GenVouches, Outputs
  <1>4. fs["direct"][f] \in Requests \cup {Absent, Torn}
    BY <1>1, FilesAre DEF FilesInv, Typed
  <1>5. /\ fs'["pipeline"][f] = fs["direct"][f] /\ fs'["pipeline"][Request] = fs["pipeline"][Request]
        /\ \A g \in Outputs \ {f} : fs'["pipeline"][g] = fs["pipeline"][g]
    BY <1>1, <1>4, PutFile, FilesAre DEF FilesInv, Outputs
  <1> QED BY <1>1, <1>2, <1>3, <1>5

\* What reuse copies, up to the last file, was made from the pipeline's own
\* request, after any edits and interruptions.
THEOREM AlwaysReusesOwn == Spec => ReusedIsOwn
  <1>1. ASSUME FilesInv, [Next]_vars, at = "copy", ~ Crash
        PROVE  \A f \in Outputs \ todo' : fs'[dir][f] = fs'[dir][Request]
    <2>1. CASE UNCHANGED vars
      <3>1. /\ dir = "pipeline" /\ "direct" \in Dirs \ cut /\ fs["direct"][Gen] \in Requests
            /\ fs["direct"][Gen] = fs["pipeline"][Request]
            /\ \A f \in Outputs \ todo : fs["pipeline"][f] = fs["direct"][f]
        BY <1>1 DEF FilesInv, Typed, Copying, Dirs
      <3>2. \A f \in Outputs : fs["direct"][f] = fs["direct"][Gen]
        BY <1>1, <3>1 DEF FilesInv, GenVouches, Outputs
      <3> QED BY <2>1, <3>1, <3>2 DEF vars
    <2>2. CASE \E f \in todo : CopyOutput(f)
      BY <1>1, <2>2, CopiesOwn
    <2> QED BY <1>1, <2>1, <2>2
            DEF Next, Step, StartDirect, Build, StartPipeline, StartTranslation, Begin, WriteRequest, RunExecutor,
                RejectRequest, WriteOutput, Edit, MoveAside
  <1>2. FilesInv /\ [Next]_vars => (at = "copy" /\ ~ Crash =>
          \A f \in (Samples \cup {Gen}) \ todo' : fs'[dir][f] = fs'[dir][Request])
    BY <1>1 DEF Outputs
  <1> QED BY <1>2, FilesInvariant, PTL DEF Spec, ReusedIsOwn
=============================================================================
