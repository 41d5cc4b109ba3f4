-------------------------- MODULE MapSession_proofs --------------------------
(***************************************************************************)
(* Proofs about MapSession: for any number of items and workers, any limit *)
(* of concurrent transfers, any cleanup batch and every set of faults, what*)
(* holds of a call of Map in every state; then, as long as no error has an *)
(* empty text, that its answer is right and Map implements its contract.   *)
(***************************************************************************)
EXTENDS MapSession, Collection_proofs, TLAPS

(* The inductive invariant.                                                *)

\* The phases of Map follow each other: nothing is polled before everything
\* is launched, and the cleanup starts when the downloads are over.
PhaseInv ==
  /\ sret # "none" <=> spc = "returned"
  /\ cpc[Caller] # "idle" => sret = "launched"
  /\ cleanup # "none" =>
       cpc[Caller] = "assemble" \/ (cpc[Caller] = "returned" /\ cret[Caller] # "timeout")
  /\ cpc[Caller] = "assemble" \/ HasResults(Caller) => cleanup # "none"

\* The task files that are stored: those whose upload ended without an error,
\* then all of them.
UploadInv ==
  /\ spc \in {"image", "manifest"} => snext = 0 /\ uploading = {}
  /\ spc = "upload" =>
       \A u \in Tasks : u < snext /\ u \notin uploading => task[u] \/ serr
  /\ cleanup = "none" /\ (spc \in {"vpc", "mark", "register", "run"} \/ sret = "launched") =>
       \A u \in Tasks : task[u]

\* The containers that have been started: those below run, then all of them.
LaunchInv ==
  /\ spc \notin {"run", "returned"} => run = 0 /\ \A t \in Tasks : wpc[t] = "idle"
  /\ spc = "run" => \A t \in Tasks : t < run <=> wpc[t] # "idle"
  /\ sret = "launched" => \A t \in Tasks : wpc[t] # "idle"

\* The manifest that another caller would find.
ManifestInv ==
  /\ spc \notin {"image", "manifest", "returned"} => manifest \in {"initializing", "running"}
  /\ sret = "launched" /\ cleanup = "none" => manifest \in {"initializing", "running"}

\* Until the cleanup, a task that says how it ended has its result stored.
FilesInv == cleanup = "none" => \A t \in Tasks : ResultFirst(t)

\* From the cleanup on, nobody works and the caller holds every result.
CaptureInv ==
  cleanup # "none" => \A t \in Tasks : wpc[t] = "exited" /\ Captured(Caller, t)

SessionInv ==
  /\ PhaseInv /\ UploadInv /\ LaunchInv /\ ManifestInv /\ FilesInv /\ CaptureInv

\* With what Collection_proofs shows of the workers and of any collector.
MapInv == TypeOK /\ SessionInv /\ WorkersInv /\ CollectorInv(Caller)
-----------------------------------------------------------------------------
(* Types.                                                                  *)

\* The submission keeps its types, in every step of Map that belongs to it.
LEMMA SubmitTypes ==
  ASSUME WorkerTypeOK, SubmissionTypeOK, MapSubmit
  PROVE  WorkerTypeOK' /\ SubmissionTypeOK'
<1>0. NumTasks \in Nat /\ NumTasks > 0
  BY TaskFacts
<1> USE <1>0 DEF SubmissionTypeOK, SubmitGoto, SubmitReturn, workerVars, storeVars,
                 uploadVars, launchVars
<1>1. CASE CheckImage("image", "manifest")
  BY <1>1 DEF CheckImage, WorkerTypeOK
<1>2. CASE WriteManifest("manifest", "upload", "initializing")
  BY <1>2 DEF WriteManifest, WorkerTypeOK
<1>3. CASE UploadSpawn
  BY <1>3 DEF UploadSpawn, WorkerTypeOK, Tasks
<1>4. ASSUME NEW t \in Tasks, UploadOne(t) PROVE WorkerTypeOK' /\ SubmissionTypeOK'
  <2>1. task' \in [Tasks -> BOOLEAN] /\ serr' \in BOOLEAN
    BY <1>4 DEF UploadOne, Stored, SubmitPuts, PutOutcomes, WorkerTypeOK
  <2> QED
    BY <1>4, <2>1 DEF UploadOne, WorkerTypeOK
<1>5. CASE UploadJoin("vpc")
  BY <1>5 DEF UploadJoin, WorkerTypeOK
<1>6. CASE LookupNetwork("mark")
  BY <1>6 DEF LookupNetwork, WorkerTypeOK
<1>7. CASE MarkManifest("mark", "running") /\ SubmitGoto("register")
  BY <1>7 DEF MarkManifest, WorkerTypeOK
<1>8. CASE RegisterTaskDefinition
  BY <1>8 DEF RegisterTaskDefinition, WorkerTypeOK
<1>9. CASE RunTask
  <2>1. wpc' \in {wpc, [wpc EXCEPT ![run] = "launched"]} /\ run < NumTasks
    BY <1>9 DEF RunTask, Goto, WaveEnd
  <2>2. wpc' \in [Tasks -> {"idle", "launched", "fetch", "call", "putResult",
                            "putStatus", "reportError", "reportFailed", "exited"}]
    BY <2>1 DEF WorkerTypeOK
  <2> QED
    BY <1>9, <2>1, <2>2 DEF RunTask, WorkerTypeOK
<1> QED
  BY <1>1, <1>2, <1>3, <1>4, <1>5, <1>6, <1>7, <1>8, <1>9 DEF MapSubmit

\* The caller of Map is its only collector.
LEMMA CallerIn == Caller \in Collectors
  BY MapAssumption

\* A step that leaves a component's variables alone keeps its types.
LEMMA TypeFrames ==
  /\ WorkerTypeOK /\ UNCHANGED workerVars => WorkerTypeOK'
  /\ SubmissionTypeOK /\ UNCHANGED submitVars => SubmissionTypeOK'
  /\ CollectionTypeOK /\ UNCHANGED collectVars => CollectionTypeOK'
<1>1. WorkerTypeOK /\ UNCHANGED workerVars => WorkerTypeOK'
  BY DEF WorkerTypeOK, workerVars, storeVars
<1>2. SubmissionTypeOK /\ UNCHANGED submitVars => SubmissionTypeOK'
  BY DEF SubmissionTypeOK, submitVars
<1>3. CollectionTypeOK /\ UNCHANGED collectVars => CollectionTypeOK'
  BY DEF CollectionTypeOK, collectVars, pollVars, downloadVars
<1> QED
  BY <1>1, <1>2, <1>3

\* The types hold when Map is called.
LEMMA TypeInit == Init => TypeOK
<1> SUFFICES ASSUME Init PROVE TypeOK
  OBVIOUS
<1>1. WorkerTypeOK
  BY DEF Init, WorkerInit, WorkerTypeOK, NoFile
<1>2. SubmissionTypeOK
  <2>1. NumTasks \in Nat
    BY TaskFacts
  <2>2. SubmissionInit("image")
    BY DEF Init
  <2>3. /\ manifest = "none" /\ taskdef = "none" /\ spc = "image" /\ sret = "none"
        /\ sctx = FALSE /\ serr = FALSE /\ wall = FALSE /\ uploading = {}
        /\ snext = 0 /\ wave = 0 /\ run = 0 /\ wcursor = 0
    BY <2>2 DEF SubmissionInit
  <2>4. sctx \in BOOLEAN /\ serr \in BOOLEAN /\ wall \in BOOLEAN /\ uploading \subseteq Tasks
    BY <2>3, Zenon
  <2> QED
    BY <2>1, <2>3, <2>4 DEF SubmissionTypeOK
<1>3. CollectionTypeOK
  BY TaskFacts DEF Init, CollectionInit, CollectionTypeOK, NoFile
<1> QED
  BY <1>1, <1>2, <1>3 DEF Init, TypeOK

\* Every step keeps the types.
LEMMA TypeNext ==
  ASSUME TypeOK, [Next]_vars
  PROVE  TypeOK'
<1>0. /\ WorkerTypeOK /\ SubmissionTypeOK /\ CollectionTypeOK
      /\ cleanup \in {"none", "running", "over"} /\ cnext \in Nat
  BY DEF TypeOK
<1>1. CASE MapSubmit
  <2>1. UNCHANGED collectVars /\ UNCHANGED cleanupVars
    BY <1>1 DEF MapSubmit, Submitting
  <2> QED
    BY <1>0, <1>1, <2>1, SubmitTypes, TypeFrames DEF TypeOK, cleanupVars
<1>2. CASE BeginPoll
  <2>1. UNCHANGED workerVars
    BY <1>2 DEF BeginPoll, LaunchFinished
  <2>2. SubmissionTypeOK'
    BY <1>0, <1>2 DEF BeginPoll, LaunchFinished, SubmitReturn, SubmissionTypeOK,
                      launchVars, uploadVars
  <2>3. CollectionTypeOK'
    BY <1>0, <1>2, CallerIn DEF BeginPoll, CollectionTypeOK, pollVars, downloadVars
  <2> QED
    BY <1>0, <1>2, <2>1, <2>2, <2>3, TypeFrames DEF TypeOK, BeginPoll, cleanupVars
<1>3. CASE MapPoll \/ MapDownload
  <2>1. UNCHANGED submitVars /\ UNCHANGED cleanupVars
    BY <1>3 DEF MapPoll, MapDownload, Collecting
  <2> QED
    BY <1>0, <1>3, <2>1, CallerIn, CollectTypes, TypeFrames
    DEF TypeOK, cleanupVars, MapPoll, MapDownload, MapAssemble, CollectorStep, CollectRun
<1>4. CASE MarkComplete
  <2>1. WorkerTypeOK' /\ CollectionTypeOK'
    BY <1>0, <1>4, CallerIn, CollectTypes DEF MarkComplete, CollectorStep
  <2>2. manifest' \in {manifest, "complete"}
    BY <1>4 DEF MarkComplete
  <2>3. SubmissionTypeOK'
    BY <1>0, <1>4, <2>2 DEF MarkComplete, SubmissionTypeOK, launchVars, uploadVars
  <2> QED
    BY <1>4, <2>1, <2>3 DEF TypeOK, MarkComplete
<1>5. CASE MapAssemble
  <2>1. UNCHANGED submitVars /\ UNCHANGED cleanupVars
    BY <1>5 DEF MapAssemble, Collecting
  <2> QED
    BY <1>0, <1>5, <2>1, CallerIn, CollectTypes, TypeFrames
    DEF TypeOK, cleanupVars, MapPoll, MapDownload, MapAssemble, CollectorStep, CollectRun
<1>6. CASE CleanupStep
  <2>1. WorkerTypeOK'
    BY <1>0, <1>6 DEF CleanupStep, WorkerTypeOK, NoFile
  <2>2. cnext' \in Nat
    BY <1>0, <1>6, MapAssumption DEF CleanupStep
  <2> QED
    BY <1>0, <1>6, <2>1, <2>2, TypeFrames DEF CleanupStep, TypeOK
<1>7. CASE CleanupEnd
  BY <1>0, <1>7, TypeFrames DEF CleanupEnd, TypeOK
<1>8. CASE Deregister
  <2>1. SubmissionTypeOK'
    BY <1>0, <1>8 DEF Deregister, SubmissionTypeOK, launchVars, uploadVars
  <2> QED
    BY <1>0, <1>8, <2>1, TypeFrames DEF Deregister, TypeOK, cleanupVars
<1>9. ASSUME NEW t \in Tasks, MapWorker(t) PROVE TypeOK'
  <2>1. WorkerTypeOK'
    BY <1>0, <1>9, WorkerTypes DEF MapWorker
  <2> QED
    BY <1>0, <1>9, <2>1, TypeFrames DEF MapWorker, TypeOK, cleanupVars
<1>10. CASE Expire
  <2>1. SubmissionTypeOK'
    BY <1>0, <1>10 DEF Expire, SubmissionTypeOK, launchVars, uploadVars
  <2>2. CollectionTypeOK'
    BY <1>0, <1>10, CallerIn DEF Expire, CollectionTypeOK, pollVars, downloadVars
  <2>3. UNCHANGED workerVars /\ UNCHANGED cleanupVars
    BY <1>10 DEF Expire
  <2> QED
    BY <1>0, <2>1, <2>2, <2>3, TypeFrames DEF TypeOK, cleanupVars
<1>11. CASE UNCHANGED vars
  <2>1. UNCHANGED <<workerVars, submitVars, collectVars, cleanupVars>>
    BY <1>11 DEF vars
  <2> QED
    BY <1>0, <2>1, TypeFrames DEF TypeOK, cleanupVars
<1> QED
  BY <1>1, <1>2, <1>3, <1>4, <1>5, <1>6, <1>7, <1>8, <1>9, <1>10, <1>11 DEF Next

\* Every variable of a session keeps its type, under every fault.
THEOREM MapTypes == Spec => []TypeOK
  BY TypeInit, TypeNext, PTL DEF Spec
-----------------------------------------------------------------------------
(* The invariant, one group of steps at a time.                            *)

\* The invariant holds when Map is called.
LEMMA MapInvInit == Init => MapInv
<1> SUFFICES ASSUME Init PROVE MapInv
  OBVIOUS
<1> USE CallerIn DEF Init, SubmissionInit, CollectionInit, WorkerInit
<1>1. TypeOK
  BY TypeInit
<1>2. PhaseInv
  BY DEF PhaseInv, HasResults, WithResults
<1>3. UploadInv /\ LaunchInv /\ ManifestInv
  BY DEF UploadInv, LaunchInv, ManifestInv
<1>4. FilesInv /\ CaptureInv
  BY DEF FilesInv, ResultFirst, CaptureInv
<1>5. WorkersInv
  BY WorkersInitially
<1>6. CollectorInv(Caller)
  BY CollectorInitially
<1> QED
  BY <1>1, <1>2, <1>3, <1>4, <1>5, <1>6 DEF MapInv, SessionInv

\* A step that leaves the variables of a part of the invariant alone.
LEMMA InvFrames ==
  /\ PhaseInv /\ UNCHANGED <<spc, sret, cpc, cret, cleanup>> => PhaseInv'
  /\ UploadInv /\ UNCHANGED <<spc, sret, snext, uploading, serr, task, cleanup>> => UploadInv'
  /\ LaunchInv /\ UNCHANGED <<spc, sret, run, wpc>> => LaunchInv'
  /\ ManifestInv /\ UNCHANGED <<spc, sret, manifest, cleanup>> => ManifestInv'
  /\ FilesInv /\ UNCHANGED <<status, result, wpc, calls, cleanup>> => FilesInv'
  /\ CaptureInv /\ UNCHANGED <<payload, wpc, calls, cleanup>> => CaptureInv'
<1>1. PhaseInv /\ UNCHANGED <<spc, sret, cpc, cret, cleanup>> => PhaseInv'
  BY DEF PhaseInv, HasResults, WithResults
<1>2. UploadInv /\ UNCHANGED <<spc, sret, snext, uploading, serr, task, cleanup>> => UploadInv'
  BY DEF UploadInv
<1>3. LaunchInv /\ UNCHANGED <<spc, sret, run, wpc>> => LaunchInv'
  BY DEF LaunchInv
<1>4. ManifestInv /\ UNCHANGED <<spc, sret, manifest, cleanup>> => ManifestInv'
  BY DEF ManifestInv
<1>5. FilesInv /\ UNCHANGED <<status, result, wpc, calls, cleanup>> => FilesInv'
  BY DEF FilesInv, ResultFirst, AllSucceeded
<1>6. CaptureInv /\ UNCHANGED <<payload, wpc, calls, cleanup>> => CaptureInv'
  BY DEF CaptureInv, Captured, Ended, Payload
<1> QED
  BY <1>1, <1>2, <1>3, <1>4, <1>5, <1>6

\* The steps before the launch.
LEMMA BeforeLaunch ==
  ASSUME MapInv, MapSubmit, ~RunTask
  PROVE  SessionInv'
<1> USE
  DEF MapInv, SessionInv, SubmitGoto, SubmitReturn, workerVars, storeVars, launchVars, uploadVars
<1>1. /\ UNCHANGED <<status, result, wpc, calls, run>>
      /\ UNCHANGED <<cpc, cret, payload, cleanup>>
      /\ spc \in {"image", "manifest", "upload", "vpc", "mark", "register"}
  BY DEF MapSubmit, Submitting, CheckImage, WriteManifest, UploadSpawn, UploadOne,
         UploadJoin, LookupNetwork, MarkManifest, RegisterTaskDefinition,
         collectVars, downloadVars, cleanupVars
<1>2. sret = "none" /\ cpc[Caller] = "idle" /\ cleanup = "none"
      /\ run = 0 /\ \A t \in Tasks : wpc[t] = "idle"
  BY <1>1 DEF PhaseInv, LaunchInv
<1>3. FilesInv' /\ CaptureInv'
  BY <1>1, InvFrames
<1>4. CASE CheckImage("image", "manifest")
  BY <1>1, <1>2, <1>3, <1>4
    DEF CheckImage, PhaseInv, HasResults, WithResults, UploadInv, LaunchInv, ManifestInv
<1>5. CASE WriteManifest("manifest", "upload", "initializing")
  <2>1. /\ spc = "manifest" /\ UNCHANGED <<task, snext, uploading, serr>>
        /\ \/ spc' = "upload" /\ sret' = "none" /\ manifest' = "initializing"
           \/ spc' = "returned" /\ sret' = "error"
    BY <1>2, <1>5 DEF WriteManifest, SubmitPuts, PutOutcomes
  <2>2. snext = 0 /\ uploading = {}
    BY <2>1 DEF UploadInv
  <2> QED
    BY <1>1, <1>2, <1>3, <2>1, <2>2
      DEF PhaseInv, HasResults, WithResults, UploadInv, LaunchInv, ManifestInv, Tasks
<1>6. CASE UploadSpawn
  BY <1>1, <1>2, <1>3, <1>6
    DEF UploadSpawn, PhaseInv, HasResults, WithResults, UploadInv, LaunchInv, ManifestInv,
     Tasks, TypeOK, SubmissionTypeOK
<1>7. ASSUME NEW t \in Tasks, UploadOne(t)
      PROVE PhaseInv' /\ UploadInv' /\ LaunchInv' /\ ManifestInv'
  <2>1. /\ spc = "upload" /\ spc' = "upload" /\ UNCHANGED <<manifest, snext, sret>>
        /\ uploading' = uploading \ {t}
        /\ task' = task \/ task' = [task EXCEPT ![t] = TRUE]
        /\ task' = [task EXCEPT ![t] = TRUE] \/ serr'
        /\ serr => serr'
    BY <1>7 DEF UploadOne, Stored, SubmitPuts, PutOutcomes
  <2>2. \A u \in Tasks : u < snext' /\ u \notin uploading' => task'[u] \/ serr'
    BY <2>1 DEF UploadInv, TypeOK, WorkerTypeOK
  <2> QED
    BY <1>1, <1>2, <2>1, <2>2
      DEF PhaseInv, HasResults, WithResults, UploadInv, LaunchInv, ManifestInv
<1>8. CASE UploadJoin("vpc")
  <2>1. spc = "upload" /\ snext = NumTasks /\ uploading = {} /\ task' = task
    BY <1>8 DEF UploadJoin
  <2>2. ~serr => \A u \in Tasks : task[u]
    BY <2>1, TaskFacts DEF UploadInv, Tasks
  <2> QED
    BY <1>1, <1>2, <1>3, <1>8, <2>1, <2>2
    DEF UploadJoin, PhaseInv, HasResults, WithResults, UploadInv, LaunchInv, ManifestInv
<1>9. CASE LookupNetwork("mark")
  BY <1>1, <1>2, <1>3, <1>9
    DEF LookupNetwork, PhaseInv, HasResults, WithResults, UploadInv, LaunchInv, ManifestInv
<1>10. CASE MarkManifest("mark", "running") /\ SubmitGoto("register")
  BY <1>1, <1>2, <1>3, <1>10
    DEF MarkManifest, PhaseInv, HasResults, WithResults, UploadInv, LaunchInv, ManifestInv
<1>11. CASE RegisterTaskDefinition
  <2>1. /\ spc = "register" /\ UNCHANGED <<task, snext, uploading, serr, manifest>>
        /\ \/ spc' = "run" /\ sret' = "none"
           \/ spc' = "returned" /\ sret' = "error"
    BY <1>2, <1>11 DEF RegisterTaskDefinition
  <2> QED
    BY <1>1, <1>2, <1>3, <2>1, TaskFacts
      DEF PhaseInv, HasResults, WithResults, UploadInv, LaunchInv, ManifestInv, Tasks
<1> QED
  BY <1>3, <1>4, <1>5, <1>6, <1>7, <1>8, <1>9, <1>10, <1>11 DEF MapSubmit

\* One task is started, or not and the submission returns.
LEMMA LaunchOne ==
  ASSUME MapInv, MapSubmit, RunTask
  PROVE  SessionInv'
<1> USE DEF MapInv, SessionInv, SubmitGoto, SubmitReturn, storeVars, uploadVars
<1>1. /\ UNCHANGED <<task, status, result, calls, snext, uploading, serr, manifest>>
      /\ UNCHANGED <<cpc, cret, payload, cleanup>>
      /\ spc = "run" /\ run < NumTasks
      /\ \/ /\ spc' = "run" /\ sret' = sret /\ run' = run + 1
            /\ wpc' = [wpc EXCEPT ![run] = "launched"]
         \/ /\ spc' = "returned" /\ sret' = "error" /\ run' = run
            /\ wpc' \in {wpc, [wpc EXCEPT ![run] = "launched"]}
  BY TaskFacts
    DEF RunTask, Goto, WaveEnd, MapSubmit, Submitting, collectVars, downloadVars, cleanupVars,
     TypeOK, SubmissionTypeOK
<1>2. sret = "none" /\ cpc[Caller] = "idle" /\ cleanup = "none"
      /\ \A t \in Tasks : t < run <=> wpc[t] # "idle"
  BY <1>1 DEF PhaseInv, LaunchInv
<1>3. run \in Tasks /\ run \in Nat /\ wpc[run] = "idle"
  BY <1>1, <1>2, TaskFacts DEF TypeOK, SubmissionTypeOK, Tasks
<1>4. \A t \in Tasks : wpc'[t] = wpc[t] \/ (t = run /\ wpc'[t] = "launched")
  BY <1>1 DEF TypeOK, WorkerTypeOK
<1>5. PhaseInv' /\ UploadInv' /\ ManifestInv'
  BY <1>1, <1>2 DEF PhaseInv, HasResults, WithResults, UploadInv, ManifestInv
<1>6. LaunchInv'
  <2>1. CASE spc' = "run"
    <3>1. run' = run + 1 /\ wpc' = [wpc EXCEPT ![run] = "launched"] /\ sret' = "none"
      BY <1>1, <1>2, <2>1
    <3>2. \A t \in Tasks : t < run' <=> wpc'[t] # "idle"
      BY <1>2, <1>3, <3>1 DEF TypeOK, WorkerTypeOK, Tasks
    <3> QED
      BY <2>1, <3>1, <3>2 DEF LaunchInv
  <2>2. CASE spc' = "returned"
    BY <1>1, <2>2 DEF LaunchInv
  <2> QED
    BY <1>1, <2>1, <2>2
<1>7. FilesInv'
  <2>1. \A t \in Tasks : wpc'[t] = "putStatus" => wpc[t] = "putStatus"
    BY <1>4
  <2>2. \A t \in Tasks : AllSucceeded(t)' <=> AllSucceeded(t)
    BY <1>1 DEF AllSucceeded
  <2> QED
    BY <1>1, <2>1, <2>2 DEF FilesInv, ResultFirst
<1>8. CaptureInv'
  BY <1>1, <1>2 DEF CaptureInv
<1> QED
  BY <1>5, <1>6, <1>7, <1>8

\* launchWorkers has returned: everything is stored and started.
LEMMA PollBegins ==
  ASSUME MapInv, BeginPoll
  PROVE  SessionInv'
<1> USE DEF MapInv, SessionInv
<1>1. /\ UNCHANGED <<task, status, result, wpc, calls, snext, uploading, serr, manifest, run>>
      /\ UNCHANGED <<cret, payload, cleanup>>
      /\ spc = "run" /\ run = NumTasks /\ spc' = "returned" /\ sret' = "launched"
      /\ cpc' = [cpc EXCEPT ![Caller] = "poll"]
  BY DEF BeginPoll, LaunchFinished, SubmitReturn, workerVars, storeVars, uploadVars, launchVars,
         downloadVars, cleanupVars
<1>2. sret = "none" /\ cpc[Caller] = "idle" /\ cleanup = "none" /\ cret[Caller] = "none"
      /\ (\A t \in Tasks : t < run <=> wpc[t] # "idle") /\ \A t \in Tasks : task[t]
  BY <1>1 DEF PhaseInv, LaunchInv, UploadInv, CollectorInv, PollInv
<1>3. cpc'[Caller] = "poll"
  BY <1>1, CallerIn DEF TypeOK, CollectionTypeOK
<1>4. PhaseInv' /\ UploadInv' /\ ManifestInv'
  BY <1>1, <1>2, <1>3 DEF PhaseInv, HasResults, WithResults, UploadInv, ManifestInv
<1>5. LaunchInv'
  BY <1>1, <1>2, TaskFacts DEF LaunchInv, Tasks
<1>6. FilesInv' /\ CaptureInv'
  BY <1>1, InvFrames
<1> QED
  BY <1>4, <1>5, <1>6

\* The caller's own steps touch nothing but what it holds.
LEMMA CallerCollects ==
  ASSUME MapInv, MapPoll \/ MapDownload \/ MapAssemble
  PROVE  SessionInv'
<1> USE CallerIn DEF MapInv, SessionInv, At, To, Answer
<1>1. /\ UNCHANGED workerVars /\ UNCHANGED submitVars /\ UNCHANGED cleanupVars
      /\ cpc \in [Collectors -> {"idle", "poll", "scan", "expired", "download",
                                 "downloaded", "assemble", "returned"}]
      /\ cret \in [Collectors -> {"none"} \cup Answers]
  BY CollectorAlone
    DEF MapPoll, MapDownload, MapAssemble, Collecting, CollectorStep, CollectRun,
                        TypeOK, CollectionTypeOK
<1>2. UNCHANGED <<task, status, result, wpc, calls, spc, sret, snext, uploading, serr, manifest,
                  run, cleanup>>
  BY <1>1 DEF workerVars, storeVars, submitVars, cleanupVars
<1>3. UploadInv' /\ LaunchInv' /\ ManifestInv' /\ FilesInv'
  BY <1>2, InvFrames
<1>4. CASE MapPoll \/ MapDownload
  <2>1. /\ cpc[Caller] \in {"poll", "scan", "expired", "download"}
        /\ cpc'[Caller] \in {"poll", "scan", "expired", "download", "downloaded", "returned"}
        /\ cret' = cret \/ cret'[Caller] \in {"timeout", "error"}
    <3>1. CASE MapPoll
      BY <1>1, <3>1
        DEF MapPoll, PollTick, PollExpired, StartPass, CountStatus, PassEnd, TimeoutEnd
    <3>2. CASE MapDownload
      BY <1>1, <3>2 DEF MapDownload, DownloadSpawn, DownloadOne, DownloadJoin
    <3> QED
      BY <1>4, <3>1, <3>2
  <2>2. sret = "launched" /\ cleanup = "none" /\ cret[Caller] = "none"
    BY <2>1 DEF PhaseInv, CollectorInv, PollInv
  <2>3. PhaseInv'
    BY <1>2, <2>1, <2>2 DEF PhaseInv, HasResults, WithResults
  <2> QED
    BY <1>2, <1>3, <2>2, <2>3 DEF CaptureInv
<1>5. CASE MapAssemble
  <2>1. /\ cpc[Caller] = "assemble" /\ UNCHANGED payload
        /\ \/ cpc' = cpc /\ cret' = cret
           \/ /\ cpc'[Caller] = "returned"
              /\ cret'[Caller] \in {"results", "partial", "tolerant", "error"}
    BY <1>1, <1>5 DEF MapAssemble, AssembleOne, AssembleStrict, AssembleTolerant, downloadVars
  <2>2. sret = "launched" /\ cleanup # "none" /\ cret[Caller] = "none"
    BY <2>1 DEF PhaseInv, CollectorInv, PollInv
  <2>3. PhaseInv'
    BY <1>2, <2>1, <2>2 DEF PhaseInv, HasResults, WithResults
  <2> QED
    BY <1>2, <1>3, <2>1, <2>3, InvFrames
<1> QED
  BY <1>4, <1>5

\* The final manifest, and the start of the cleanup.
LEMMA Completing ==
  ASSUME MapInv, MarkComplete
  PROVE  SessionInv'
<1> USE CallerIn DEF MapInv, SessionInv, At, To
<1>1. /\ UNCHANGED <<task, status, result, errfile, wpc, calls, cret>>
      /\ UNCHANGED <<spc, sret, snext, uploading, serr, run, payload>>
      /\ cpc[Caller] = "downloaded" /\ cpc'[Caller] = "assemble" /\ cleanup' = "running"
  BY DEF MarkComplete, AssembleStart, workerVars, storeVars, uploadVars, launchVars,
         downloadVars, TypeOK, CollectionTypeOK
<1>2. /\ sret = "launched" /\ cret[Caller] = "none" /\ cleanup = "none"
      /\ \A t \in Tasks : wpc[t] = "exited" /\ Captured(Caller, t)
  BY <1>1 DEF PhaseInv, CollectorInv, PollInv, DownloadInv
<1>3. PhaseInv'
  BY <1>1, <1>2 DEF PhaseInv, HasResults, WithResults
<1>4. UploadInv' /\ ManifestInv'
  BY <1>1, <1>2 DEF UploadInv, ManifestInv, PhaseInv
<1>5. LaunchInv'
  BY <1>1, InvFrames
<1>6. FilesInv' /\ CaptureInv'
  BY <1>1, <1>2 DEF FilesInv, ResultFirst, CaptureInv, Captured, Ended, Payload
<1> QED
  BY <1>3, <1>4, <1>5, <1>6

\* The cleanup deletes files; it adds nothing and touches no caller.
LEMMA Cleaning ==
  ASSUME MapInv, CleanupStep \/ CleanupEnd
  PROVE  SessionInv'
<1> USE DEF MapInv, SessionInv
<1>1. /\ UNCHANGED <<wpc, calls, cpc, cret, payload>>
      /\ UNCHANGED <<spc, sret, snext, uploading, serr, manifest, run>>
      /\ cleanup # "none" /\ cleanup' # "none"
  BY
    DEF CleanupStep, CleanupEnd, workerVars, submitVars, collectVars, downloadVars, uploadVars,
        launchVars
<1>2. PhaseInv' /\ UploadInv' /\ ManifestInv'
  BY <1>1 DEF PhaseInv, HasResults, WithResults, UploadInv, ManifestInv
<1>3. LaunchInv'
  BY <1>1, InvFrames
<1>4. FilesInv' /\ CaptureInv'
  BY <1>1 DEF FilesInv, ResultFirst, CaptureInv, Captured, Ended, Payload
<1> QED
  BY <1>2, <1>3, <1>4

\* The workers run beside the caller.
LEMMA Working ==
  ASSUME MapInv, NEW t \in Tasks, MapWorker(t)
  PROVE  SessionInv'
<1> USE DEF MapInv, SessionInv
<1>1. /\ UNCHANGED <<cpc, cret, cleanup>>
      /\ UNCHANGED <<spc, sret, snext, uploading, serr, manifest, run>>
  BY DEF MapWorker, submitVars, collectVars, cleanupVars, uploadVars, launchVars
<1>2. /\ wpc[t] \notin {"idle", "exited"} /\ wpc'[t] # "idle" /\ task' = task
      /\ \A u \in Tasks : u # t =>
           /\ wpc'[u] = wpc[u] /\ calls'[u] = calls[u]
           /\ status'[u] = status[u] /\ result'[u] = result[u]
  BY WorkerFrame DEF MapWorker, TypeOK
<1>3. cleanup = "none"
  BY <1>2 DEF CaptureInv
<1>4. PhaseInv' /\ UploadInv' /\ ManifestInv'
  BY <1>1, <1>2, InvFrames
<1>5. LaunchInv'
  BY <1>1, <1>2 DEF LaunchInv
<1>6. FilesInv'
  <2>1. \A u \in Tasks : ResultFirst(u)
    BY <1>3 DEF FilesInv
  <2> QED
    BY <2>1, ResultsFirst DEF FilesInv, MapWorker, TypeOK
<1>7. CaptureInv'
  BY <1>1, <1>3 DEF CaptureInv
<1> QED
  BY <1>4, <1>5, <1>6, <1>7

\* The workers keep theirs, whoever moves.
LEMMA WorkersNext ==
  ASSUME MapInv, [Next]_vars
  PROVE  WorkersInv'
<1>1. WorkerTypeOK /\ WorkersInv /\ LaunchInv
  BY DEF MapInv, SessionInv, TypeOK
<1>2. CASE RunTask
  <2>1. /\ UNCHANGED <<status, result, calls>> /\ run \in Tasks /\ ~(run < run)
        /\ wpc' \in {wpc, [wpc EXCEPT ![run] = "launched"]}
    BY <1>2, TaskFacts
      DEF RunTask, Goto, storeVars, WaveEnd, Tasks, MapInv, TypeOK, SubmissionTypeOK
  <2>2. wpc[run] = "idle"
    BY <1>1, <1>2, <2>1 DEF LaunchInv, RunTask
  <2>3. CASE wpc' = wpc
    BY <1>1, <2>1, <2>3, WorkersDelete
  <2>4. CASE wpc' = [wpc EXCEPT ![run] = "launched"]
    BY <1>1, <2>1, <2>2, <2>4, WorkersLaunch
  <2> QED
    BY <2>1, <2>3, <2>4
<1>3. ASSUME NEW t \in Tasks, MapWorker(t) PROVE WorkersInv'
  BY <1>1, <1>3, WorkersWork DEF MapWorker
<1>4. CASE CleanupStep
  BY <1>1, <1>4, WorkersDelete DEF CleanupStep
<1>5. CASE ~RunTask /\ ~CleanupStep /\ ~\E t \in Tasks : MapWorker(t)
  <2>1. UNCHANGED <<status, result, wpc, calls>>
    BY <1>5 DEF Next, MapSubmit, CheckImage, WriteManifest, UploadSpawn, UploadOne, UploadJoin,
       LookupNetwork, MarkManifest, RegisterTaskDefinition, BeginPoll, LaunchFinished,
       MapPoll, PollTick, PollExpired, StartPass, CountStatus, PassEnd, TimeoutEnd,
       MapDownload, DownloadSpawn, DownloadOne, DownloadJoin, MarkComplete, AssembleStart,
       MapAssemble, AssembleOne, AssembleStrict, AssembleTolerant, CleanupEnd, Deregister,
       Expire, vars, workerVars, storeVars
  <2> QED
    BY <1>1, <2>1, WorkersDelete
<1> QED
  BY <1>2, <1>3, <1>4, <1>5

\* And so does the caller.
LEMMA CollectorNext ==
  ASSUME MapInv, [Next]_vars
  PROVE  CollectorInv(Caller)'
<1> USE CallerIn
<1>1. WorkerTypeOK /\ CollectionTypeOK /\ WorkersInv /\ CollectorInv(Caller)
  BY DEF MapInv, TypeOK
<1>2. CASE MapPoll \/ MapDownload
  BY <1>1, <1>2, Polling, Downloading DEF MapPoll, MapDownload
<1>3. CASE MarkComplete \/ MapAssemble
  BY <1>1, <1>3, AssemblyStarts, AssemblyGrows, AssemblyEnds DEF MarkComplete, MapAssemble
<1>4. CASE BeginPoll
  <2>1. /\ spc # "returned" /\ cpc'[Caller] = "poll" /\ cret' = cret /\ out' = out
        /\ UNCHANGED <<dnext, fetching>>
    BY <1>1, <1>4 DEF BeginPoll, LaunchFinished, downloadVars, CollectionTypeOK
  <2>2. cpc[Caller] = "idle"
    BY <2>1 DEF MapInv, SessionInv, PhaseInv
  <2> QED
    BY <1>1, <2>1, <2>2 DEF CollectorInv, PollInv, DownloadInv, OutInv, HasResults, WithResults
<1>5. ASSUME NEW t \in Tasks, MapWorker(t) PROVE CollectorInv(Caller)'
  <2>1. Untouched(Caller)
    BY <1>5 DEF MapWorker, Untouched, collectVars, pollVars, downloadVars
  <2> QED
    BY <1>1, <1>5, <2>1, CollectorWorking DEF MapWorker
<1>6. CASE MapSubmit \/ CleanupStep \/ CleanupEnd \/ Deregister \/ Expire \/ UNCHANGED vars
  <2>1. Untouched(Caller)
    BY <1>6 DEF MapSubmit, Submitting, CleanupStep, CleanupEnd, Deregister, Expire, vars,
       Untouched, collectVars, pollVars, downloadVars
  <2>2. UNCHANGED calls
    BY <1>6 DEF MapSubmit, CheckImage, WriteManifest, UploadSpawn, UploadOne, UploadJoin,
       LookupNetwork, MarkManifest, RegisterTaskDefinition, RunTask, CleanupStep, CleanupEnd,
       Deregister, Expire, vars, workerVars
  <2>3. \A t \in Tasks : wpc[t] = "exited" => wpc'[t] = "exited"
    <3>1. CASE MapSubmit /\ RunTask
      <4>1. /\ run \in Tasks /\ ~(run < run) /\ wpc' \in {wpc, [wpc EXCEPT ![run] = "launched"]}
        BY <3>1, TaskFacts DEF RunTask, Goto, WaveEnd, Tasks, MapInv, TypeOK, SubmissionTypeOK
      <4>2. wpc[run] = "idle"
        BY <3>1, <4>1 DEF MapInv, SessionInv, LaunchInv, RunTask
      <4> QED
        BY <1>1, <4>1, <4>2 DEF WorkerTypeOK
    <3>2. CASE ~RunTask
      BY <1>6, <3>2
        DEF MapSubmit, CheckImage, WriteManifest, UploadSpawn, UploadOne, UploadJoin,
         LookupNetwork, MarkManifest, RegisterTaskDefinition, CleanupStep, CleanupEnd,
         Deregister, Expire, vars, workerVars
    <3>3. CASE ~MapSubmit
      BY <1>6, <3>3 DEF CleanupStep, CleanupEnd, Deregister, Expire, vars, workerVars
    <3> QED
      BY <3>1, <3>2, <3>3
  <2> QED
    BY <1>1, <2>1, <2>2, <2>3, CollectorFrame
<1> QED
  BY <1>2, <1>3, <1>4, <1>5, <1>6 DEF Next

\* Every step keeps the invariant.
LEMMA MapInvNext ==
  ASSUME MapInv, [Next]_vars
  PROVE  MapInv'
<1>1. TypeOK'
  BY TypeNext DEF MapInv
<1>2. ASSUME Deregister \/ Expire \/ UNCHANGED vars PROVE SessionInv'
  <2>1. /\ UNCHANGED <<spc, sret, cpc, cret, cleanup, snext, uploading, serr, run, manifest>>
        /\ UNCHANGED <<task, status, result, wpc, calls, payload>>
    BY <1>2 DEF Deregister, Expire, vars, workerVars, storeVars, submitVars, collectVars,
       cleanupVars, uploadVars, launchVars, downloadVars
  <2> QED
    BY <2>1, InvFrames DEF MapInv, SessionInv
<1>3. SessionInv'
  BY <1>2, BeforeLaunch, LaunchOne, PollBegins, CallerCollects, Completing, Cleaning, Working
  DEF Next
<1> QED
  BY <1>1, <1>3, WorkersNext, CollectorNext DEF MapInv

\* The inductive invariant holds in every state of a call of Map.
THEOREM MapInvariant == Spec => []MapInv
  BY MapInvInit, MapInvNext, PTL DEF Spec
-----------------------------------------------------------------------------
\* A task whose status says it is over has its complete result stored until
\* the cleanup, and the status tells whether an item failed.
THEOREM StatusAlwaysImpliesResult == Spec => []StatusImpliesResult
<1>1. MapInv => StatusImpliesResult
  <2> SUFFICES ASSUME MapInv, cleanup = "none", NEW t \in Tasks,
                      status[t] \in {"done", "partial"}
               PROVE  /\ calls[t] # <<>>
                      /\ result[t] = Payload(t, calls[t])
                      /\ status[t] = "done" <=> AllSucceeded(t)
    BY DEF StatusImpliesResult
  <2>1. /\ Ended(t) /\ result[t] = Payload(t, calls[t])
        /\ status[t] = "done" <=> AllSucceeded(t)
    BY DEF MapInv, SessionInv, FilesInv, ResultFirst, WorkersInv
  <2>2. Width(t) \in Nat /\ Width(t) > 0
    BY TaskFacts
  <2>3. calls[t] # <<>>
    BY <2>1, <2>2 DEF Ended
  <2> QED
    BY <2>1, <2>3
<1> QED
  BY <1>1, MapInvariant, PTL

\* Nothing that a worker has written is ever replaced.
THEOREM MapWrittenOnce == Spec => WrittenOnce
<1>1. ASSUME MapInv, [Next]_vars, NEW u \in Tasks
      PROVE  /\ calls[u] # <<>> => calls'[u] = calls[u]
             /\ result[u] # NoFile => result'[u] \in {result[u], NoFile}
             /\ status[u] \in Terminal => status'[u] \in {status[u], "none"}
  <2>1. ASSUME NEW t \in Tasks, MapWorker(t)
        PROVE  /\ calls[u] # <<>> => calls'[u] = calls[u]
               /\ result[u] # NoFile => result'[u] \in {result[u], NoFile}
               /\ status[u] \in Terminal => status'[u] \in {status[u], "none"}
    BY <1>1, <2>1, WorkerWritesOnce DEF MapWorker, MapInv, TypeOK
  <2>2. CASE CleanupStep
    BY <2>2 DEF CleanupStep
  <2>3. CASE ~CleanupStep /\ ~\E t \in Tasks : MapWorker(t)
    BY <1>1, <2>3 DEF Next, MapSubmit, CheckImage, WriteManifest, UploadSpawn, UploadOne,
       UploadJoin, LookupNetwork, MarkManifest, RegisterTaskDefinition, RunTask, BeginPoll,
       LaunchFinished, MapPoll, PollTick, PollExpired, StartPass, CountStatus, PassEnd,
       TimeoutEnd, MapDownload, DownloadSpawn, DownloadOne, DownloadJoin, MarkComplete,
       AssembleStart, MapAssemble, AssembleOne, AssembleStrict, AssembleTolerant, CleanupEnd,
       Deregister, Expire, vars, workerVars, storeVars
  <2> QED
    BY <2>1, <2>2, <2>3
<1>2. MapInv /\ [Next]_vars =>
        [\A t \in Tasks :
           /\ calls[t] # <<>> => calls'[t] = calls[t]
           /\ result[t] # NoFile => result'[t] \in {result[t], NoFile}
           /\ status[t] \in Terminal => status'[t] \in {status[t], "none"}
        ]_<<calls, result, status>>
  BY <1>1
<1> QED
  BY <1>2, MapInvariant, PTL DEF Spec, WrittenOnce

\* No container is started before every task file is stored.
THEOREM StoredBeforeLaunch == Spec => []TasksStoredBeforeLaunch
<1>1. Init => TasksStoredBeforeLaunch
  BY DEF Init, WorkerInit, TasksStoredBeforeLaunch
<1>2. MapInv /\ TasksStoredBeforeLaunch /\ [Next]_vars => TasksStoredBeforeLaunch'
  <2> SUFFICES ASSUME MapInv, TasksStoredBeforeLaunch, [Next]_vars, cleanup' = "none",
                      NEW t \in Tasks, wpc'[t] # "idle", NEW u \in Tasks
               PROVE  task'[u]
    BY DEF TasksStoredBeforeLaunch
  <2>1. CASE MapSubmit /\ ~RunTask
    BY <2>1 DEF MapSubmit, Submitting, CheckImage, WriteManifest, UploadSpawn, UploadOne,
       UploadJoin, LookupNetwork, MarkManifest, RegisterTaskDefinition, cleanupVars,
       workerVars, storeVars, MapInv, SessionInv, LaunchInv
  <2>2. CASE MapSubmit /\ RunTask
    BY <2>2
      DEF MapSubmit, Submitting, RunTask, storeVars, cleanupVars, MapInv, SessionInv, UploadInv
  <2>3. CASE \E w \in Tasks : MapWorker(w)
    BY <2>3, WorkerFrame DEF MapInv, TypeOK, MapWorker, cleanupVars, TasksStoredBeforeLaunch
  <2>4. CASE MarkComplete \/ CleanupStep \/ CleanupEnd
    BY <2>4 DEF MarkComplete, CleanupStep, CleanupEnd
  <2>5. CASE BeginPoll \/ MapPoll \/ MapDownload \/ MapAssemble \/ Deregister \/ Expire
             \/ UNCHANGED vars
    <3>1. UNCHANGED <<task, wpc, cleanup>>
      BY <2>5 DEF BeginPoll, LaunchFinished, MapPoll, StartPass, PollTick, PollExpired,
         CountStatus, PassEnd, TimeoutEnd, MapDownload, DownloadSpawn, DownloadOne,
         DownloadJoin, MapAssemble, AssembleOne, AssembleStrict, AssembleTolerant,
         Collecting, Deregister, Expire, vars, workerVars, storeVars, cleanupVars
    <3> QED
      BY <3>1 DEF TasksStoredBeforeLaunch
  <2> QED
    BY <2>1, <2>2, <2>3, <2>4, <2>5 DEF Next
<1> QED
  BY <1>1, <1>2, MapInvariant, PTL DEF Spec

\* The cleanup deletes nothing that is still to be read or written.
THEOREM CleanupAlwaysAfterCapture == Spec => []CleanupAfterCapture
<1>1. MapInv => CleanupAfterCapture
  <2> SUFFICES ASSUME MapInv, cleanup # "none", NEW t \in Tasks
               PROVE  /\ wpc[t] = "exited"
                      /\ calls[t] # <<>> /\ payload[Caller][t] = Payload(t, calls[t])
    BY DEF CleanupAfterCapture
  <2>1. wpc[t] = "exited" /\ Captured(Caller, t)
    BY DEF MapInv, SessionInv, CaptureInv
  <2>2. Width(t) \in Nat /\ Width(t) > 0
    BY TaskFacts
  <2>3. calls[t] # <<>>
    BY <2>1, <2>2 DEF Captured, Ended
  <2> QED
    BY <2>1, <2>3 DEF Captured
<1> QED
  BY <1>1, MapInvariant, PTL

\* Nothing is left of the tasks that the cleanup has passed; it ends when it
\* has passed them all.
Gone(t) == ~task[t] /\ ~errfile[t] /\ status[t] = "none" /\ result[t] = NoFile
CleanedInv ==
  "s3" \notin Faults /\ cleanup # "none" =>
    /\ cnext \in Nat /\ \A t \in Tasks : t < cnext => Gone(t)
    /\ cleanup = "over" => cnext >= NumTasks

\* When S3 deletes what it is asked to, the cleanup leaves no file of a task.
THEOREM CleanupAlwaysLeavesNothing == Spec => []CleanupLeavesNothing
<1>1. Init => CleanedInv
  BY DEF Init, CleanedInv
<1>2. MapInv /\ CleanedInv /\ [Next]_vars => CleanedInv'
  <2> SUFFICES ASSUME MapInv, CleanedInv, [Next]_vars, "s3" \notin Faults, cleanup' # "none"
               PROVE  /\ cnext' \in Nat /\ \A t \in Tasks : t < cnext' => Gone(t)'
                      /\ cleanup' = "over" => cnext' >= NumTasks
    BY DEF CleanedInv
  <2>1. CASE MarkComplete
    <3>1. cnext' = 0 /\ cleanup' = "running"
      BY <2>1 DEF MarkComplete
    <3> QED
      BY <3>1 DEF Tasks
  <2>2. CASE CleanupStep
    <3>1. /\ cleanup = "running" /\ cleanup' = "running" /\ cnext \in Nat
          /\ cnext' = cnext + CleanupBatch /\ CleanupBatch \in Nat
          /\ \A t \in Tasks : t < cnext => Gone(t)
      BY <2>2, MapAssumption DEF CleanupStep, CleanedInv
    <3>2. ASSUME NEW t \in Tasks, t < cnext' PROVE Gone(t)'
      <4>1. t < cnext \/ (cnext <= t /\ t < cnext + CleanupBatch)
        BY <3>1, <3>2 DEF Tasks
      <4>2. Gone(t) => Gone(t)'
        BY <2>2 DEF CleanupStep, Gone
      <4>3. cnext <= t /\ t < cnext + CleanupBatch => Gone(t)'
        BY <2>2 DEF CleanupStep, Gone
      <4> QED
        BY <3>1, <4>1, <4>2, <4>3
    <3> QED
      BY <3>1, <3>2
  <2>3. CASE ~MarkComplete /\ ~CleanupStep
    <3>1. cleanup # "none" /\ cnext' = cnext
          /\ (cleanup' = cleanup \/ (cleanup' = "over" /\ cnext >= NumTasks))
      BY <2>3 DEF Next, MapSubmit, Submitting, BeginPoll, MapPoll, MapDownload, MapAssemble,
         Collecting, CleanupEnd, Deregister, MapWorker, Expire, vars, cleanupVars
    <3>2. spc = "returned" /\ \A t \in Tasks : wpc[t] = "exited"
      BY <3>1, CallerIn DEF MapInv, SessionInv, PhaseInv, HasResults, WithResults, CaptureInv
    <3>3. UNCHANGED storeVars
      BY <2>3, <3>2 DEF Next, MapSubmit, CheckImage, WriteManifest, UploadSpawn, UploadOne,
         UploadJoin, LookupNetwork, MarkManifest, RegisterTaskDefinition, RunTask, BeginPoll,
         LaunchFinished, MapPoll, PollTick, PollExpired, StartPass, CountStatus, PassEnd,
         TimeoutEnd, MapDownload, DownloadSpawn, DownloadOne, DownloadJoin, MapAssemble,
         AssembleOne, AssembleStrict, AssembleTolerant, CleanupEnd, Deregister, MapWorker,
         WorkerRun, WorkerCrash, WorkerStart, WorkerFetch, WorkerCall, WorkerPutResult,
         WorkerPutStatus, WorkerReportError, WorkerReportFailed, Expire, vars, workerVars
    <3> QED
      BY <3>1, <3>3 DEF CleanedInv, Gone, storeVars
  <2> QED
    BY <2>1, <2>2, <2>3
<1>3. CleanedInv => CleanupLeavesNothing
  <2> SUFFICES ASSUME CleanedInv, cleanup = "over", "s3" \notin Faults, NEW t \in Tasks
               PROVE  Gone(t)
    BY DEF CleanupLeavesNothing, Gone
  <2>1. NumTasks \in Nat /\ t \in Nat /\ t < NumTasks
    BY TaskFacts DEF Tasks
  <2> QED
    BY <2>1 DEF CleanedInv
<1> QED
  BY <1>1, <1>2, <1>3, MapInvariant, PTL DEF Spec

\* A timeout leaves a session that another caller can attach to.
THEOREM TimeoutAlwaysReattachable == Spec => []TimeoutReattachable
<1>1. MapInv => TimeoutReattachable
  BY CallerIn DEF MapInv, SessionInv, PhaseInv, CollectorInv, PollInv, UploadInv, LaunchInv,
                  ManifestInv, TimeoutReattachable
<1> QED
  BY <1>1, MapInvariant, PTL
-----------------------------------------------------------------------------
(* The answer.                                                             *)

\* When no error text is empty, an answer of Map that carries results carries
\* each item's own outcome in the items' order, whatever fails, ends or is
\* deleted meanwhile.
THEOREM AnswerAlwaysFaithful ==
  ASSUME "blank" \notin Faults
  PROVE  Spec => []AnswerFaithful
<1>1. MapInv => AnswerFaithful
  <2> SUFFICES ASSUME MapInv, HasResults(Caller) PROVE AnswerFaithful
    BY DEF AnswerFaithful, HasResults, WithResults
  <2>1. WorkersInv /\ CollectorInv(Caller) /\ Assembled(Caller)
    BY CallerIn, ResultsAssembled DEF MapInv
  <2>2. Len(out[Caller]) = NumItems
    BY <2>1 DEF Assembled
  <2>3. \A k \in Items :
          /\ Called(k)
          /\ out[Caller][k + 1] =
               [value |-> IF Succeeded(k) THEN k ELSE Null, error |-> ~Succeeded(k)]
    BY <2>1, CallerIn, AnswerItems
  <2>4. cret[Caller] = "results" => \A k \in Items : Succeeded(k)
    BY <2>1, CallerIn, AnswerFailures DEF CollectorInv, OutInv
  <2> QED
    BY <2>2, <2>3, <2>4 DEF AnswerFaithful
<1> QED
  BY <1>1, MapInvariant, PTL
-----------------------------------------------------------------------------
(* The contract.                                                           *)

LEMMA ContractInit == Init => Contract!Init
<1> SUFFICES ASSUME Init PROVE Contract!Init
  OBVIOUS
<1>1. Kind(MapAnswer) = "none" /\ Carried = [c \in Collectors |-> <<>>]
  BY CallerIn DEF Init, SubmissionInit, CollectionInit, MapAnswer, Kind, Carried, WithResults
<1>2. Fates = [k \in Items |-> "pending"]
  BY SomeTask DEF Init, WorkerInit, Called, Fates
<1> QED
  BY <1>1, <1>2 DEF Contract!Init, Contract!Items, Items

\* A step that changes neither the calls nor the answer is none of the contract.
LEMMA ContractStutters ==
  ASSUME UNCHANGED calls, MapAnswer' = MapAnswer, cret'[Caller] = cret[Caller],
         cret[Caller] \in WithResults => UNCHANGED out
  PROVE  UNCHANGED Contract!vars
<1>1. Fates' = Fates
  BY FatesFrame
<1>2. Carried' = Carried
  BY MapAssumption DEF Carried
<1>3. [c \in Collectors |-> Kind(MapAnswer)]' = [c \in Collectors |-> Kind(MapAnswer)]
  BY DEF Kind
<1> QED
  BY <1>1, <1>2, <1>3 DEF Contract!vars

\* A call that ends with anything but results fails its contract openly.
LEMMA ContractFails ==
  ASSUME UNCHANGED calls, MapAnswer = "none", cret[Caller] = "none",
         MapAnswer' \in {"timeout", "error", "setupError", "contextError"},
         cret'[Caller] \in {"none", "timeout", "error"}
  PROVE  Contract!Next
<1>1. Fates' = Fates
  BY FatesFrame
<1>2. Carried' = Carried
  BY MapAssumption DEF Carried, WithResults
<1>3. Kind(MapAnswer) = "none" /\ Kind(MapAnswer') = "failure"
  BY DEF Kind, WithResults
<1>4. [c \in Collectors |-> Kind(MapAnswer')] =
        [[c \in Collectors |-> Kind(MapAnswer)] EXCEPT ![Caller] = "failure"]
  BY <1>3, MapAssumption
<1>5. [c \in Collectors |-> Kind(MapAnswer)]' = [c \in Collectors |-> Kind(MapAnswer')]
  BY DEF Kind
<1>6. Contract!Fail(Caller)
  BY <1>1, <1>2, <1>3, <1>4, <1>5, CallerIn DEF Contract!Fail
<1> QED
  BY <1>6, CallerIn DEF Contract!Next

\* A complete answer is the fate of every item.
LEMMA ContractAnswers ==
  ASSUME MapInv, Assembled(Caller), "blank" \notin Faults, UNCHANGED <<calls, out>>,
         MapAnswer = "none", cret[Caller] = "none",
         MapAnswer' \in WithResults, cret'[Caller] = MapAnswer',
         MapAnswer' = "results" => ~AnyFailed(Caller),
         MapAnswer' = "partial" => AnyFailed(Caller)
  PROVE  Contract!Next
<1>1. Fates' = Fates
  BY FatesFrame
<1>2. /\ out[Caller] = [i \in 1..NumItems |->
                          [value |-> IF Fates[i - 1] = "ok" THEN i - 1 ELSE Null,
                           error |-> Fates[i - 1] = "failed"]]
      /\ \A k \in Items : Fates[k] \in {"ok", "failed"}
      /\ AnyFailed(Caller) <=> \E k \in Items : Fates[k] = "failed"
  BY CallerIn, CompleteAnswer DEF MapInv, TypeOK
<1>3. out[Caller] = Contract!InOrder
  BY <1>2 DEF Contract!InOrder, Contract!EntryOf, Null
<1>4. Carried' = [Carried EXCEPT ![Caller] = Contract!InOrder]
  BY <1>3, MapAssumption DEF Carried
<1>5. Kind(MapAnswer) = "none" /\ Kind(MapAnswer') = MapAnswer'
  BY DEF Kind
<1>6. [c \in Collectors |-> Kind(MapAnswer')] =
        [[c \in Collectors |-> Kind(MapAnswer)] EXCEPT ![Caller] = MapAnswer']
  BY <1>5, MapAssumption
<1>7. [c \in Collectors |-> Kind(MapAnswer)]' = [c \in Collectors |-> Kind(MapAnswer')]
  BY DEF Kind
<1>8. Contract!Respond(Caller, MapAnswer')
  BY <1>1, <1>4, <1>5, <1>6, <1>7, CallerIn DEF Contract!Respond
<1>9. Contract!Items = Items
  BY DEF Contract!Items, Items
<1>10. CASE MapAnswer' = "results"
  <2>1. \A k \in Items : Fates[k] = "ok"
    BY <1>2, <1>10
  <2>2. Contract!ReturnResults(Caller)
    BY <1>8, <1>9, <1>10, <2>1 DEF Contract!ReturnResults
  <2> QED
    BY <2>2, CallerIn DEF Contract!Next
<1>11. CASE MapAnswer' = "partial"
  <2>1. \E k \in Items : Fates[k] = "failed"
    BY <1>2, <1>11
  <2>2. Contract!ReturnPartial(Caller)
    BY <1>2, <1>8, <1>9, <1>11, <2>1 DEF Contract!ReturnPartial
  <2> QED
    BY <2>2, CallerIn DEF Contract!Next
<1>12. CASE MapAnswer' = "tolerant"
  <2>1. Contract!ReturnTolerant(Caller)
    BY <1>2, <1>8, <1>9, <1>12 DEF Contract!ReturnTolerant
  <2> QED
    BY <2>1, CallerIn DEF Contract!Next
<1> QED
  BY <1>10, <1>11, <1>12 DEF WithResults

\* A worker settles its items once, and answers nothing.
LEMMA ContractSettles ==
  ASSUME MapInv, NEW t \in Tasks, MapWorker(t)
  PROVE  Contract!Next
<1>1. UNCHANGED <<out, cret, sret>>
  BY DEF MapWorker, collectVars, submitVars
<1>2. Carried' = Carried
  BY <1>1 DEF Carried
<1>3. [c \in Collectors |-> Kind(MapAnswer)]' = [c \in Collectors |-> Kind(MapAnswer)]
  BY <1>1 DEF MapAnswer, Kind
<1>4. /\ Fates' \in [Items -> {"pending", "ok", "failed"}]
      /\ \A k \in Items : Fates[k] # "pending" => Fates'[k] = Fates[k]
  BY FatesSettle DEF MapInv, TypeOK, MapWorker
<1>5. Contract!Items = Items
  BY DEF Contract!Items, Items
<1>6. Contract!Settle
  BY <1>2, <1>3, <1>4, <1>5 DEF Contract!Settle
<1> QED
  BY <1>6 DEF Contract!Next

\* Every step of Map is one of its contract, or none.
LEMMA ContractNext ==
  ASSUME MapInv, [Next]_vars, "blank" \notin Faults
  PROVE  Contract!Next \/ UNCHANGED Contract!vars
<1> USE CallerIn
<1>0. /\ cret \in [Collectors -> {"none"} \cup Answers]
      /\ cpc \in [Collectors -> {"idle", "poll", "scan", "expired", "download",
                                 "downloaded", "assemble", "returned"}]
  BY DEF MapInv, TypeOK, CollectionTypeOK
<1>1. PhaseInv /\ PollInv(Caller)
  BY DEF MapInv, SessionInv, CollectorInv
<1>2. CASE MapSubmit
  <2>1. UNCHANGED <<calls, out, cret>> /\ sret = "none" /\ cret[Caller] = "none"
        /\ (sret' = sret \/ sret' \in {"error", "setupError", "contextError"})
    <3>1. UNCHANGED <<out, cret>>
      BY <1>2 DEF MapSubmit, Submitting, collectVars
    <3>2. /\ UNCHANGED calls /\ spc # "returned"
          /\ (sret' = sret \/ sret' \in {"error", "setupError", "contextError"})
      BY <1>2 DEF MapSubmit, CheckImage, WriteManifest, UploadSpawn, UploadOne, UploadJoin,
         LookupNetwork, MarkManifest, RegisterTaskDefinition, RunTask, workerVars,
         SubmitGoto, SubmitReturn
    <3> QED
      BY <1>1, <3>1, <3>2 DEF PhaseInv, PollInv
  <2> QED
    BY <2>1, ContractStutters, ContractFails DEF MapAnswer, WithResults
<1>3. CASE BeginPoll
  <2>1. UNCHANGED <<calls, out, cret>> /\ sret' = "launched" /\ spc # "returned"
    BY <1>3 DEF BeginPoll, LaunchFinished, SubmitReturn, workerVars
  <2> QED
    BY <1>1, <2>1, ContractStutters DEF MapAnswer, PhaseInv, PollInv, WithResults
<1>4. CASE MapPoll \/ MapDownload
  <2>1. /\ UNCHANGED <<calls, out, sret>> /\ cpc[Caller] \notin {"idle", "returned"}
        /\ cret' = cret \/ cret'[Caller] \in {"timeout", "error"}
    <3>1. CASE MapPoll
      BY <1>0, <3>1 DEF MapPoll, PollTick, PollExpired, StartPass, CountStatus, PassEnd,
         TimeoutEnd, At, To, Answer, workerVars, Collecting, submitVars
    <3>2. CASE MapDownload
      BY <1>0, <3>2 DEF MapDownload, DownloadSpawn, DownloadOne, DownloadJoin, At, To, Answer,
         workerVars, Collecting, submitVars
    <3> QED
      BY <1>4, <3>1, <3>2
  <2>2. sret = "launched" /\ cret[Caller] = "none"
    BY <1>1, <2>1 DEF PhaseInv, PollInv
  <2> QED
    BY <2>1, <2>2, ContractStutters, ContractFails DEF MapAnswer, WithResults
<1>5. CASE MarkComplete
  <2>1. UNCHANGED <<calls, out, cret, sret>>
    BY <1>5 DEF MarkComplete, AssembleStart, To, workerVars
  <2> QED
    BY <2>1, ContractStutters DEF MapAnswer
<1>6. CASE MapAssemble
  <2>1. /\ UNCHANGED <<calls, sret>> /\ cpc[Caller] = "assemble"
    BY <1>6 DEF MapAssemble, AssembleOne, AssembleStrict, AssembleTolerant, At, workerVars,
       Collecting, submitVars
  <2>2. sret = "launched" /\ cret[Caller] = "none" /\ MapAnswer = "none" /\ cleanup # "none"
    BY <1>1, <2>1 DEF PhaseInv, PollInv, MapAnswer
  <2>3. CASE AssembleOne(Caller)
    BY <2>1, <2>2, <2>3, ContractStutters DEF AssembleOne, MapAnswer, WithResults
  <2>4. CASE AssembleStrict(Caller) \/ AssembleTolerant(Caller)
    <3>1. /\ UNCHANGED out /\ cursor[Caller] = NumTasks
          /\ cret'[Caller] \in {"results", "partial", "tolerant", "error"}
          /\ cret'[Caller] = "results" => ~AnyFailed(Caller)
          /\ cret'[Caller] = "partial" => AnyFailed(Caller)
      BY <1>0, <2>4 DEF AssembleStrict, AssembleTolerant, Answer
    <3>2. Assembled(Caller)
      BY <2>1, <3>1, Positions DEF MapInv, CollectorInv, DownloadInv, OutInv, Assembled
    <3>3. MapAnswer' = cret'[Caller]
      BY <2>1, <2>2 DEF MapAnswer
    <3> QED
      BY <2>1, <2>2, <3>1, <3>2, <3>3, ContractFails, ContractAnswers DEF WithResults
  <2> QED
    BY <1>6, <2>3, <2>4 DEF MapAssemble
<1>7. ASSUME NEW t \in Tasks, MapWorker(t) PROVE Contract!Next
  BY <1>7, ContractSettles
<1>8. CASE CleanupStep \/ CleanupEnd \/ Deregister \/ Expire \/ UNCHANGED vars
  <2>1. UNCHANGED <<calls, out, cret, sret>>
    BY <1>8 DEF CleanupStep, CleanupEnd, Deregister, Expire, vars, workerVars, collectVars,
       submitVars
  <2> QED
    BY <2>1, ContractStutters DEF MapAnswer
<1> QED
  BY <1>2, <1>3, <1>4, <1>5, <1>6, <1>7, <1>8 DEF Next

\* Map implements its contract: each item settles once, the call answers once,
\* and with results only when they are the outcomes of all items, in order.
THEOREM MapImplementsContract ==
  ASSUME "blank" \notin Faults
  PROVE  Spec => ContractSpec
<1>1. MapInv /\ [Next]_vars => [Contract!Next]_(Contract!vars)
  BY ContractNext
<1> QED
  BY <1>1, ContractInit, MapInvariant, PTL DEF Spec, ContractSpec, Contract!Spec
-----------------------------------------------------------------------------
(* When nothing fails but calls of fn, Map has nothing else to report.     *)

HealthyInv ==
  /\ ~sctx /\ ~serr /\ sret \in {"none", "launched"}
  /\ Unhurt(Caller)
  /\ cleanup = "none" => \A t \in Tasks : Reported(t)

LEMMA HealthyInit == Init => HealthyInv
<1> SUFFICES ASSUME Init PROVE HealthyInv
  OBVIOUS
<1>1. ~sctx /\ ~serr /\ sret = "none"
  BY DEF Init, SubmissionInit
<1>2. Unhurt(Caller)
  BY CallerIn DEF Init, CollectionInit, Unhurt
<1>3. \A t \in Tasks : Reported(t)
  BY DEF Init, WorkerInit, Reported
<1> QED
  BY <1>1, <1>2, <1>3 DEF HealthyInv

\* The steps of the submission: nothing stops it.
LEMMA HealthySubmit ==
  ASSUME Healthy, MapInv, HealthyInv, MapSubmit
  PROVE  HealthyInv'
<1> USE DEF SubmitGoto, SubmitReturn, RequestFails, uploadVars, launchVars, workerVars, storeVars
<1>0. Faults \cap {"s3", "aws", "image", "code"} = {} /\ ~sctx /\ ~serr
      /\ sret \in {"none", "launched"}
  BY DEF Healthy, HealthyInv
<1>1. \A r \in SubmitPuts : r.ok
  BY <1>0 DEF SubmitPuts, PutOutcomes
<1>2. ~sctx' /\ ~serr' /\ sret' = sret
  <2>1. CASE CheckImage("image", "manifest")
    BY <1>0, <2>1 DEF CheckImage
  <2>2. CASE WriteManifest("manifest", "upload", "initializing")
    BY <1>0, <1>1, <2>2 DEF WriteManifest
  <2>3. CASE UploadSpawn
    BY <1>0, <2>3 DEF UploadSpawn
  <2>4. ASSUME NEW t \in Tasks, UploadOne(t) PROVE ~sctx' /\ ~serr' /\ sret' = sret
    BY <1>0, <1>1, <2>4 DEF UploadOne
  <2>5. CASE UploadJoin("vpc")
    BY <1>0, <2>5 DEF UploadJoin
  <2>6. CASE LookupNetwork("mark")
    BY <1>0, <2>6 DEF LookupNetwork
  <2>7. CASE MarkManifest("mark", "running") /\ SubmitGoto("register")
    BY <1>0, <2>7 DEF MarkManifest
  <2>8. CASE RegisterTaskDefinition
    BY <1>0, <2>8 DEF RegisterTaskDefinition
  <2>9. CASE RunTask
    BY <1>0, <2>9 DEF RunTask
  <2> QED
    BY <2>1, <2>2, <2>3, <2>4, <2>5, <2>6, <2>7, <2>8, <2>9 DEF MapSubmit
<1>3. UNCHANGED <<cctx, derr, cpc, cret, cleanup>>
  BY DEF MapSubmit, Submitting, collectVars, downloadVars, cleanupVars
<1>4. status' = status /\ \A t \in Tasks : wpc'[t] \in {wpc[t], "launched"}
  <2>1. CASE RunTask
    BY <2>1 DEF RunTask, Goto, MapInv, TypeOK, WorkerTypeOK
  <2>2. CASE ~RunTask
    BY <2>2 DEF MapSubmit, CheckImage, WriteManifest, UploadSpawn, UploadOne, UploadJoin,
       LookupNetwork, MarkManifest, RegisterTaskDefinition
  <2> QED
    BY <2>1, <2>2
<1>5. Unhurt(Caller)'
  BY <1>3 DEF HealthyInv, Unhurt
<1>6. cleanup' = "none" => \A t \in Tasks : Reported(t)'
  BY <1>3, <1>4 DEF HealthyInv, Reported
<1> QED
  BY <1>0, <1>2, <1>5, <1>6 DEF HealthyInv

\* The caller's own steps: every result it downloads is there.
LEMMA HealthyCaller ==
  ASSUME Healthy, MapInv, HealthyInv,
         BeginPoll \/ MapPoll \/ MapDownload \/ MarkComplete \/ MapAssemble
  PROVE  HealthyInv'
<1> USE CallerIn
<1>0. Unhurt(Caller) /\ CollectionTypeOK
  BY DEF HealthyInv, MapInv, TypeOK
<1>1. CASE BeginPoll
  <2>1. /\ UNCHANGED <<sctx, serr, status, wpc, cleanup>> /\ sret' = "launched"
        /\ UNCHANGED <<cctx, derr, cret>> /\ cpc'[Caller] = "poll"
    BY <1>0, <1>1 DEF BeginPoll, LaunchFinished, SubmitReturn, workerVars, storeVars, uploadVars,
       downloadVars, cleanupVars, CollectionTypeOK
  <2> QED
    BY <2>1 DEF HealthyInv, Unhurt, Reported
<1>2. CASE MapPoll \/ MapDownload \/ MarkComplete \/ MapAssemble
  <2>1. CollectorStep(Caller)
    BY <1>2 DEF MapPoll, MapDownload, MarkComplete, MapAssemble, CollectorStep, CollectRun
  <2>2. ASSUME cpc[Caller] = "download", NEW t \in Tasks PROVE result[t] # NoFile
    <3>1. wpc[t] = "exited"
      BY <2>2 DEF MapInv, CollectorInv, DownloadInv
    <3>2. cleanup = "none"
      BY <2>2 DEF MapInv, SessionInv, PhaseInv
    <3>3. status[t] \in {"done", "partial"} /\ ResultFirst(t)
      BY <3>1, <3>2 DEF HealthyInv, Reported, MapInv, SessionInv, FilesInv
    <3> QED
      BY <3>3 DEF ResultFirst
  <2>3. Unhurt(Caller)'
    BY <1>0, <2>1, <2>2, UnhurtStays
  <2>4. UNCHANGED <<sctx, serr, sret, status, wpc>>
    BY <1>0, <2>1, CollectorAlone, <1>2
      DEF MapPoll, MapDownload, MapAssemble, MarkComplete, Collecting, submitVars, uploadVars,
          workerVars, storeVars, TypeOK, MapInv
  <2>5. cleanup' = "none" => cleanup = "none"
    BY <1>2 DEF MapPoll, MapDownload, MapAssemble, MarkComplete, Collecting, cleanupVars
  <2> QED
    BY <2>3, <2>4, <2>5 DEF HealthyInv, Reported
<1> QED
  BY <1>1, <1>2

LEMMA HealthyNext ==
  ASSUME Healthy, MapInv, HealthyInv, [Next]_vars
  PROVE  HealthyInv'
<1>1. ASSUME NEW t \in Tasks, MapWorker(t) PROVE HealthyInv'
  <2>1. WorkerTypeOK /\ (WorkerRun(t) \/ WorkerCrash(t)) /\ wpc[t] \notin {"idle", "exited"}
    BY <1>1, WorkerFrame DEF MapWorker, MapInv, TypeOK
  <2>2. cleanup = "none" /\ (spc = "run" \/ sret = "launched")
    BY <2>1 DEF MapInv, SessionInv, CaptureInv, LaunchInv, PhaseInv, HealthyInv
  <2>3. task[t]
    BY <2>2 DEF MapInv, SessionInv, UploadInv
  <2>4. \A u \in Tasks : Reported(u)'
    BY <2>1, <2>2, <2>3, WorkerReports DEF HealthyInv
  <2>5. UNCHANGED <<sctx, serr, sret, cctx, derr, cpc, cret>>
    BY <1>1 DEF MapWorker, submitVars, uploadVars, collectVars, downloadVars
  <2> QED
    BY <2>4, <2>5 DEF HealthyInv, Unhurt
<1>2. CASE CleanupStep \/ CleanupEnd
  <2>1. cleanup' # "none" /\ UNCHANGED <<sctx, serr, sret, cctx, derr, cpc, cret>>
    BY <1>2 DEF CleanupStep, CleanupEnd, submitVars, uploadVars, collectVars, downloadVars
  <2> QED
    BY <2>1 DEF HealthyInv, Unhurt
<1>3. CASE Deregister \/ UNCHANGED vars
  <2>1. UNCHANGED <<sctx, serr, sret, cctx, derr, cpc, cret, status, wpc, cleanup>>
    BY <1>3 DEF Deregister, vars, workerVars, storeVars, submitVars, uploadVars, collectVars,
       downloadVars, cleanupVars
  <2> QED
    BY <2>1 DEF HealthyInv, Unhurt, Reported
<1>4. ~Expire
  BY DEF Healthy, Expire
<1> QED
  BY <1>1, <1>2, <1>3, <1>4, HealthySubmit, HealthyCaller DEF Next

\* When nothing fails but calls of fn, whatever the order of the steps, Map does
\* not answer with an error, a timeout or a missing result: with the run's
\* HealthyMapReturnsResults, the results are what it returns.
THEOREM HealthyMapAlwaysAnswers == Spec => []HealthyMapNeverFails
<1>1. CASE Healthy
  <2>1. HealthyInv => HealthyMapNeverFails
    BY DEF HealthyInv, Unhurt, HealthyMapNeverFails, MapAnswer, Kind, WithResults
  <2>2. Init => HealthyInv
    BY HealthyInit
  <2>3. MapInv /\ HealthyInv /\ [Next]_vars => HealthyInv'
    BY <1>1, HealthyNext
  <2> QED
    BY <2>1, <2>2, <2>3, MapInvariant, PTL DEF Spec
<1>2. CASE ~Healthy
  <2>1. HealthyMapNeverFails
    BY <1>2 DEF HealthyMapNeverFails
  <2> QED
    BY <2>1, PTL
<1> QED
  BY <1>1, <1>2
=============================================================================
