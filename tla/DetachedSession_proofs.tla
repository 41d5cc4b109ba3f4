----------------------- MODULE DetachedSession_proofs -----------------------
(***************************************************************************)
(* Proofs about DetachedSession: for any number of items, workers and      *)
(* collectors, any wave width, batch and set of cleanups, and every set of *)
(* faults, the waves of Submit keep to the quota and to their order; and   *)
(* as long as no error has an empty text, no collector ever answers with   *)
(* results that are not the items' own, in order.                          *)
(***************************************************************************)
EXTENDS DetachedSession, Collection_proofs, FiniteSetTheorems, TLAPS

(* The inductive invariant.                                                *)

\* A wave starts at a multiple of its width, when every worker below it has
\* exited; what runs is below its end, and below run until Submit returns.
WaveInv ==
  /\ \E q \in Nat : wave = q * WaveWidth
  /\ wave <= run /\ run <= WaveEnd
  /\ \A t \in Tasks : t < wave => wpc[t] = "exited"
  /\ \A t \in Tasks : wpc[t] # "idle" => t < WaveEnd /\ (spc # "returned" => t < run)

\* While it waits for a wave, a pass of waitForTasks that has found everything
\* terminal so far has found workers that have exited.
WaitInv ==
  /\ spc \in {"wait", "waitScan"} => run = WaveEnd /\ WaveEnd < NumTasks
  /\ spc = "waitScan" =>
       /\ wave <= wcursor /\ wcursor <= WaveEnd
       /\ wall => \A t \in Tasks : wave <= t /\ t < wcursor => wpc[t] = "exited"

DetachedInv ==
  /\ TypeOK /\ WaveInv /\ WaitInv /\ WorkersInv
  /\ \A c \in Collectors : CollectorInv(c)
-----------------------------------------------------------------------------
(* Types.                                                                  *)

\* WaveWidth and the number of tasks are positive numbers.
LEMMA WidthFacts ==
  /\ WaveWidth \in Nat /\ WaveWidth > 0 /\ NumTasks \in Nat /\ NumTasks > 0
  BY TaskFacts, SubmissionAssumption

LEMMA TypeInit == Init => TypeOK
<1> SUFFICES ASSUME Init PROVE TypeOK
  OBVIOUS
<1>1. WorkerTypeOK
  BY DEF Init, WorkerInit, WorkerTypeOK, NoFile
<1>2. SubmissionTypeOK
  <2>1. NumTasks \in Nat
    BY TaskFacts
  <2>2. SubmissionInit("manifest")
    BY DEF Init
  <2>3. /\ manifest = "none" /\ taskdef = "none" /\ spc = "manifest" /\ sret = "none"
        /\ sctx = FALSE /\ serr = FALSE /\ wall = FALSE /\ uploading = {}
        /\ snext = 0 /\ wave = 0 /\ run = 0 /\ wcursor = 0
    BY <2>2 DEF SubmissionInit
  <2>4. sctx \in BOOLEAN /\ serr \in BOOLEAN /\ wall \in BOOLEAN /\ uploading \subseteq Tasks
    BY <2>3, Zenon
  <2> QED
    BY <2>1, <2>3, <2>4 DEF SubmissionTypeOK
<1>3. CollectionTypeOK
  BY TaskFacts DEF Init, CollectionInit, CollectionTypeOK, NoFile
<1>4. dpc = "idle" /\ dkind = "none" /\ listed = {} /\ dret = "none"
  BY DEF Init
<1> QED
  BY <1>1, <1>2, <1>3, <1>4 DEF TypeOK

\* A step that leaves a component's variables alone keeps its types.
LEMMA TypeFrames ==
  /\ WorkerTypeOK /\ UNCHANGED workerVars => WorkerTypeOK'
  /\ SubmissionTypeOK /\ UNCHANGED submitVars => SubmissionTypeOK'
  /\ CollectionTypeOK /\ UNCHANGED collectVars => CollectionTypeOK'
<1>1. WorkerTypeOK /\ UNCHANGED workerVars => WorkerTypeOK'
  BY DEF WorkerTypeOK, workerVars, storeVars
<1>2. SubmissionTypeOK /\ UNCHANGED submitVars => SubmissionTypeOK'
  BY DEF SubmissionTypeOK, submitVars
<1>3. CollectionTypeOK /\ UNCHANGED collectVars => CollectionTypeOK'
  BY DEF CollectionTypeOK, collectVars, pollVars, downloadVars
<1> QED
  BY <1>1, <1>2, <1>3

\* The steps of Submit before the launch keep the types.
LEMMA PrepareTypes ==
  ASSUME WorkerTypeOK, SubmissionTypeOK,
         \/ WriteManifest("manifest", "image", "initializing")
         \/ CheckImage("image", "upload")
         \/ UploadSpawn
         \/ \E t \in Tasks : UploadOne(t)
         \/ UploadJoin("vpc")
         \/ LookupNetwork("register")
         \/ RegisterTaskDefinition
  PROVE  WorkerTypeOK' /\ SubmissionTypeOK'
<1> USE WidthFacts DEF SubmissionTypeOK, SubmitGoto, SubmitReturn, workerVars, storeVars,
                       uploadVars, launchVars
<1>1. CASE WriteManifest("manifest", "image", "initializing")
  BY <1>1 DEF WriteManifest, WorkerTypeOK
<1>2. CASE CheckImage("image", "upload")
  BY <1>2 DEF CheckImage, WorkerTypeOK
<1>3. CASE UploadSpawn
  BY <1>3 DEF UploadSpawn, WorkerTypeOK, Tasks
<1>4. ASSUME NEW t \in Tasks, UploadOne(t) PROVE WorkerTypeOK' /\ SubmissionTypeOK'
  <2>1. task' \in [Tasks -> BOOLEAN] /\ serr' \in BOOLEAN
    BY <1>4 DEF UploadOne, Stored, SubmitPuts, PutOutcomes, WorkerTypeOK
  <2> QED
    BY <1>4, <2>1 DEF UploadOne, WorkerTypeOK
<1>5. CASE UploadJoin("vpc")
  BY <1>5 DEF UploadJoin, WorkerTypeOK
<1>6. CASE LookupNetwork("register")
  BY <1>6 DEF LookupNetwork, WorkerTypeOK
<1>7. CASE RegisterTaskDefinition
  BY <1>7 DEF RegisterTaskDefinition, WorkerTypeOK
<1> QED
  BY <1>1, <1>2, <1>3, <1>4, <1>5, <1>6, <1>7

\* And so do the launch, the wait between the waves and the end.
LEMMA LaunchTypes ==
  ASSUME WorkerTypeOK, SubmissionTypeOK, wave <= run,
         \/ RunTask
         \/ WaveLaunched \/ WaveTick \/ WaveExpired \/ WaveScan \/ WaveScanEnd
         \/ LaunchFinished /\ SubmitGoto("mark")
         \/ MarkManifest("mark", "running") /\ SubmitReturn("launched")
  PROVE  WorkerTypeOK' /\ SubmissionTypeOK'
<1>1. WaveEnd \in 0..NumTasks /\ wave \in 0..NumTasks
  BY WidthFacts DEF SubmissionTypeOK, WaveEnd
<1> USE WidthFacts DEF SubmissionTypeOK, SubmitGoto, SubmitReturn, workerVars, storeVars,
                       uploadVars, launchVars
<1>2. CASE RunTask
  <2>1. wpc' \in {wpc, [wpc EXCEPT ![run] = "launched"]} /\ run < NumTasks
    BY <1>1, <1>2 DEF RunTask, Goto
  <2>2. wpc' \in [Tasks -> {"idle", "launched", "fetch", "call", "putResult",
                            "putStatus", "reportError", "reportFailed", "exited"}]
    BY <2>1 DEF WorkerTypeOK
  <2> QED
    BY <1>2, <2>1, <2>2 DEF RunTask, WorkerTypeOK
<1>3. CASE WaveLaunched
  BY <1>3 DEF WaveLaunched, WorkerTypeOK
<1>4. CASE WaveTick
  BY <1>1, <1>4 DEF WaveTick, WorkerTypeOK
<1>5. CASE WaveExpired
  BY <1>5 DEF WaveExpired, WorkerTypeOK
<1>6. CASE WaveScan
  <2>1. wall' \in BOOLEAN
    BY <1>6 DEF WaveScan
  <2>2. wcursor' \in 0..NumTasks
    BY <1>1, <1>6 DEF WaveScan
  <2> QED
    BY <1>6, <2>1, <2>2 DEF WaveScan, WorkerTypeOK
<1>7. CASE WaveScanEnd
  BY <1>1, <1>7 DEF WaveScanEnd, WorkerTypeOK
<1>8. CASE LaunchFinished /\ SubmitGoto("mark")
  BY <1>8 DEF LaunchFinished, WorkerTypeOK
<1>9. CASE MarkManifest("mark", "running") /\ SubmitReturn("launched")
  BY <1>9 DEF MarkManifest, WorkerTypeOK
<1> QED
  BY <1>2, <1>3, <1>4, <1>5, <1>6, <1>7, <1>8, <1>9

\* Every step of Submit.
LEMMA SubmitTypes ==
  ASSUME WorkerTypeOK, SubmissionTypeOK, wave <= run, Submit
  PROVE  WorkerTypeOK' /\ SubmissionTypeOK'
BY PrepareTypes, LaunchTypes DEF Submit

\* The cleanup keeps the types.
LEMMA CleanupTypes ==
  ASSUME TypeOK, Cleanup
  PROVE  TypeOK'
<1> USE DEF TypeOK
<1>1. CASE BeginCleanup
  BY <1>1, TypeFrames, DetachedAssumption DEF BeginCleanup
<1>2. CASE CheckStatus
  BY <1>2, TypeFrames DEF CheckStatus
<1>3. CASE ListFiles
  BY <1>3, TypeFrames DEF ListFiles
<1>4. CASE DeleteFiles
  <2>1. PICK kept \in SUBSET Batch :
          /\ Remove(Batch \ kept) /\ listed' = listed \ Batch
          /\ dpc' \in {"over", "delete"} /\ dret' \in {dret, "ok", "error"}
    BY <1>4 DEF DeleteFiles
  <2>2. /\ dkind' = dkind /\ UNCHANGED collectVars
        /\ UNCHANGED <<wpc, calls, taskdef, spc, sctx, uploadVars, launchVars, sret>>
    BY <1>4 DEF DeleteFiles
  <2>3. WorkerTypeOK'
    BY <2>1, <2>2 DEF Remove, WorkerTypeOK, NoFile
  <2>4. manifest' \in {manifest, "none"}
    BY <2>1 DEF Remove
  <2>5. SubmissionTypeOK'
    BY <2>2, <2>4 DEF SubmissionTypeOK, uploadVars, launchVars
  <2> QED
    BY <2>1, <2>2, <2>3, <2>5, TypeFrames
<1> QED
  BY <1>1, <1>2, <1>3, <1>4 DEF Cleanup

\* Every step keeps the types.
LEMMA TypeNext ==
  ASSUME TypeOK, wave <= run, [Next]_vars
  PROVE  TypeOK'
<1>0. /\ WorkerTypeOK /\ SubmissionTypeOK /\ CollectionTypeOK
      /\ UNCHANGED deleteVars /\ WorkerTypeOK' /\ SubmissionTypeOK' /\ CollectionTypeOK' =>
           TypeOK'
  BY DEF TypeOK, deleteVars
<1>1. CASE Submit
  <2>1. UNCHANGED collectVars /\ UNCHANGED deleteVars
    BY <1>1 DEF Submit, Submitting
  <2> QED
    BY <1>0, <1>1, <2>1, SubmitTypes, TypeFrames
<1>2. CASE ExpireSubmit
  <2>1. SubmissionTypeOK'
    BY <1>0, <1>2 DEF ExpireSubmit, SubmissionTypeOK, launchVars, uploadVars
  <2> QED
    BY <1>0, <1>2, <2>1, TypeFrames DEF ExpireSubmit
<1>3. ASSUME NEW c \in Collectors, Collect(c) PROVE TypeOK'
  <2>1. UNCHANGED submitVars /\ UNCHANGED deleteVars
    BY <1>3 DEF Collect, Collecting
  <2>2. CASE BeginCollect(c)
    <3>1. UNCHANGED workerVars /\ CollectionTypeOK'
      BY <1>0, <2>2 DEF BeginCollect, To, CollectionTypeOK, pollVars, downloadVars
    <3> QED
      BY <1>0, <2>1, <3>1, TypeFrames
  <2>3. CASE BeginAssemble(c) \/ CollectRun(c)
    BY <1>0, <2>1, <2>3, CollectTypes, TypeFrames DEF CollectorStep, BeginAssemble
  <2> QED
    BY <1>3, <2>2, <2>3 DEF Collect
<1>4. ASSUME NEW c \in Collectors, ExpireCollect(c) PROVE TypeOK'
  <2>1. CollectionTypeOK'
    BY <1>0, <1>4 DEF ExpireCollect, CollectionTypeOK, pollVars, downloadVars
  <2> QED
    BY <1>0, <1>4, <2>1, TypeFrames DEF ExpireCollect
<1>5. CASE Cleanup
  BY <1>5, CleanupTypes
<1>6. ASSUME NEW t \in Tasks, DetachedWorker(t) PROVE TypeOK'
  <2>1. WorkerTypeOK'
    BY <1>0, <1>6, WorkerTypes DEF DetachedWorker
  <2> QED
    BY <1>0, <1>6, <2>1, TypeFrames DEF DetachedWorker
<1>7. CASE UNCHANGED vars
  <2>1. /\ UNCHANGED workerVars /\ UNCHANGED submitVars
        /\ UNCHANGED collectVars /\ UNCHANGED deleteVars
    BY <1>7 DEF vars
  <2> QED
    BY <1>0, <2>1, TypeFrames
<1> QED
  BY <1>1, <1>2, <1>3, <1>4, <1>5, <1>6, <1>7 DEF Next
-----------------------------------------------------------------------------
(* The invariant, one group of steps at a time.                            *)

LEMMA DetachedInit == Init => DetachedInv
<1> SUFFICES ASSUME Init PROVE DetachedInv
  OBVIOUS
<1>1. TypeOK
  BY TypeInit
<1>2. /\ spc = "manifest" /\ wave = 0 /\ run = 0 /\ \A t \in Tasks : wpc[t] = "idle"
  BY DEF Init, SubmissionInit, WorkerInit
<1>3. WaveInv
  <2>1. wave = 0 * WaveWidth
    BY <1>2, WidthFacts
  <2>2. run <= WaveEnd
    BY <1>2, WidthFacts DEF WaveEnd
  <2>3. \A t \in Tasks : ~(t < wave)
    BY <1>2, WidthFacts DEF Tasks
  <2> QED
    BY <1>2, <2>1, <2>2, <2>3 DEF WaveInv
<1>4. WaitInv
  BY <1>2 DEF WaitInv
<1>5. WorkersInv
  BY WorkersInitially DEF Init
<1>6. \A c \in Collectors : CollectorInv(c)
  BY CollectorInitially DEF Init
<1> QED
  BY <1>1, <1>3, <1>4, <1>5, <1>6 DEF DetachedInv

\* A step that launches nothing, and leaves the launch where it is.
LEMMA WaveFrame ==
  ASSUME WaveInv, WaitInv, UNCHANGED <<spc, wave, run, wcursor, wall>>,
         \A t \in Tasks : /\ wpc[t] = "exited" => wpc'[t] = "exited"
                          /\ wpc'[t] # "idle" => wpc[t] # "idle"
  PROVE  WaveInv' /\ WaitInv'
<1>1. WaveEnd' = WaveEnd
  BY DEF WaveEnd
<1> QED
  BY <1>1 DEF WaveInv, WaitInv

\* The steps of Submit before the launch, and its end.
LEMMA WavePrepare ==
  ASSUME WaveInv, WaitInv,
         \/ WriteManifest("manifest", "image", "initializing")
         \/ CheckImage("image", "upload")
         \/ UploadSpawn
         \/ \E t \in Tasks : UploadOne(t)
         \/ UploadJoin("vpc")
         \/ LookupNetwork("register")
         \/ RegisterTaskDefinition
         \/ WaveLaunched
         \/ WaveTick
         \/ WaveExpired
         \/ LaunchFinished /\ SubmitGoto("mark")
         \/ MarkManifest("mark", "running") /\ SubmitReturn("launched"),
         TypeOK
  PROVE  WaveInv' /\ WaitInv'
<1> USE DEF SubmitGoto, SubmitReturn, workerVars, launchVars
<1>1. /\ UNCHANGED <<wpc, wave, run>> /\ spc # "returned"
      /\ \/ spc' \notin {"wait", "waitScan"}
         \/ spc' = "wait" /\ run = WaveEnd /\ WaveEnd < NumTasks
         \/ spc' = "waitScan" /\ spc = "wait" /\ wcursor' = wave
  BY DEF WriteManifest, CheckImage, UploadSpawn, UploadOne, UploadJoin, LookupNetwork,
         RegisterTaskDefinition, WaveLaunched, WaveTick, WaveExpired, LaunchFinished, MarkManifest
<1>2. WaveEnd' = WaveEnd
  BY <1>1 DEF WaveEnd
<1>3. WaveInv'
  BY <1>1, <1>2 DEF WaveInv
<1>4. wave <= WaveEnd /\ wave <= wave /\ \A t \in Tasks : ~(wave <= t /\ t < wave)
  <2>1. wave \in Nat /\ \A t \in Tasks : t \in Nat
    BY WidthFacts DEF TypeOK, SubmissionTypeOK, Tasks
  <2>2. wave <= run /\ run <= WaveEnd /\ run \in Nat /\ WaveEnd \in Nat
    BY <2>1, WidthFacts DEF WaveInv, TypeOK, SubmissionTypeOK, WaveEnd
  <2> QED
    BY <2>1, <2>2
<1>5. WaitInv'
  BY <1>1, <1>2, <1>4 DEF WaitInv
<1> QED
  BY <1>3, <1>5

\* RunTask starts the next task of the wave, or ends Submit.
LEMMA WaveRun ==
  ASSUME DetachedInv, RunTask
  PROVE  /\ WaveInv' /\ WaitInv' /\ WorkersInv'
         /\ \A t \in Tasks : wpc[t] = "exited" => wpc'[t] = "exited"
<1> USE DEF DetachedInv
<1>1. /\ spc = "run" /\ run < WaveEnd /\ wave \in Nat /\ run \in 0..NumTasks
      /\ WaveEnd \in 0..NumTasks /\ wave <= run
  BY WidthFacts DEF RunTask, TypeOK, SubmissionTypeOK, WaveEnd, WaveInv
<1>2. run \in Tasks /\ wpc[run] = "idle" /\ \A t \in Tasks : t \in Nat
  <2>1. run \in Tasks /\ ~(run < run)
    BY <1>1, WidthFacts DEF Tasks
  <2>2. wpc[run] = "idle"
    BY <1>1, <2>1 DEF WaveInv
  <2> QED
    BY <2>1, <2>2, WidthFacts DEF Tasks
<1>3. /\ UNCHANGED <<status, result, calls, wave, wcursor, wall>>
      /\ \/ wpc' = [wpc EXCEPT ![run] = "launched"] /\ run' = run + 1 /\ spc' = "run"
         \/ /\ wpc' \in {wpc, [wpc EXCEPT ![run] = "launched"]}
            /\ run' = run /\ spc' = "returned"
  BY <1>1 DEF RunTask, Goto, SubmitGoto, SubmitReturn, storeVars
<1>4. WorkersInv' /\ \A t \in Tasks : wpc[t] = "exited" => wpc'[t] = "exited"
  <2>1. CASE wpc' = wpc
    BY <1>3, <2>1, WorkersDelete
  <2>2. CASE wpc' = [wpc EXCEPT ![run] = "launched"]
    BY <1>2, <1>3, <2>2, WorkersLaunch DEF TypeOK
  <2> QED
    BY <1>3, <2>1, <2>2
<1>5. \A t \in Tasks : wpc'[t] # "idle" => wpc[t] # "idle" \/ t = run
  BY <1>3 DEF TypeOK, WorkerTypeOK
<1>6. WaveEnd' = WaveEnd
  BY <1>3 DEF WaveEnd
<1>7. WaveInv'
  <2>1. wave' <= run' /\ run' <= WaveEnd'
    BY <1>1, <1>3, <1>6
  <2>2. ASSUME NEW t \in Tasks, wpc'[t] # "idle"
        PROVE  t < WaveEnd' /\ (spc' # "returned" => t < run')
    <3>1. CASE t = run
      BY <1>1, <1>3, <1>6, <3>1
    <3>2. CASE t # run
      <4>1. t < WaveEnd /\ t < run
        BY <1>1, <1>5, <2>2, <3>2 DEF WaveInv
      <4> QED
        BY <1>1, <1>2, <1>3, <1>6, <4>1
    <3> QED
      BY <3>1, <3>2
  <2> QED
    BY <1>3, <1>4, <2>1, <2>2 DEF WaveInv
<1>8. WaitInv'
  BY <1>3 DEF WaitInv
<1> QED
  BY <1>4, <1>7, <1>8

\* The pass that reads the statuses of a wave, and what follows it.
LEMMA WaveWait ==
  ASSUME DetachedInv, WaveScan \/ WaveScanEnd
  PROVE  WaveInv' /\ WaitInv'
<1> USE DEF DetachedInv, SubmitGoto, workerVars
<1>1. /\ spc = "waitScan" /\ UNCHANGED <<wpc, run>> /\ wave \in Nat /\ wcursor \in 0..NumTasks
      /\ run = WaveEnd /\ WaveEnd < NumTasks /\ wave <= wcursor /\ wcursor <= WaveEnd
      /\ wall => \A t \in Tasks : wave <= t /\ t < wcursor => wpc[t] = "exited"
  BY DEF WaveScan, WaveScanEnd, TypeOK, SubmissionTypeOK, WaitInv
<1>2. WaveEnd = wave + WaveWidth /\ WaveEnd \in Nat /\ \A t \in Tasks : t \in Nat
  BY <1>1, WidthFacts DEF WaveEnd, Tasks
<1>3. CASE WaveScan
  <2>1. /\ spc' = "waitScan" /\ wave' = wave /\ wcursor < WaveEnd /\ wcursor' = wcursor + 1
        /\ wall' => wall /\ status[wcursor] \in Terminal
    BY <1>3 DEF WaveScan
  <2>2. WaveEnd' = WaveEnd
    BY <2>1 DEF WaveEnd
  <2>3. WaveInv'
    <3>1. \E q \in Nat : wave' = q * WaveWidth
      BY <2>1 DEF WaveInv
    <3>2. wave' <= run' /\ run' <= WaveEnd'
      BY <1>1, <2>1, <2>2 DEF WaveInv
    <3>3. \A t \in Tasks : /\ t < wave' => wpc'[t] = "exited"
                           /\ wpc'[t] # "idle" => t < WaveEnd' /\ t < run'
      BY <1>1, <2>1, <2>2 DEF WaveInv
    <3> QED
      BY <3>1, <3>2, <3>3 DEF WaveInv
  <2>4. wcursor \in Tasks
    BY <1>1, <1>2, <2>1, WidthFacts DEF Tasks
  <2>5. ASSUME wall', NEW t \in Tasks, wave <= t, t < wcursor'
        PROVE  wpc[t] = "exited"
    <3>1. t < wcursor \/ t = wcursor
      BY <1>1, <1>2, <2>1, <2>5
    <3>2. wpc[wcursor] = "exited"
      BY <2>1, <2>4, <2>5 DEF WorkersInv
    <3> QED
      BY <1>1, <2>1, <2>5, <3>1, <3>2
  <2>6. wave <= wcursor' /\ wcursor' <= WaveEnd
    BY <1>1, <1>2, <2>1
  <2> QED
    BY <1>1, <2>1, <2>2, <2>3, <2>5, <2>6 DEF WaitInv
<1>4. CASE WaveScanEnd /\ ~wall
  <2>1. spc' = "wait" /\ wave' = wave
    BY <1>4 DEF WaveScanEnd
  <2>2. WaveEnd' = WaveEnd
    BY <2>1 DEF WaveEnd
  <2> QED
    BY <1>1, <2>1, <2>2 DEF WaveInv, WaitInv
<1>5. CASE WaveScanEnd /\ wall
  <2>1. spc' = "run" /\ wave' = WaveEnd /\ wcursor = WaveEnd
    BY <1>5 DEF WaveScanEnd
  <2>2. PICK q \in Nat : wave = q * WaveWidth
    BY DEF WaveInv
  <2>3. wave' = (q + 1) * WaveWidth
    BY <1>2, <2>1, <2>2, WidthFacts, NextMultiple
  <2>4. wave' <= run' /\ run' <= WaveEnd' /\ run' = WaveEnd
    BY <1>1, <1>2, <2>1, WidthFacts DEF WaveEnd
  <2>5. ASSUME NEW t \in Tasks, t < WaveEnd PROVE wpc[t] = "exited"
    <3>1. t < wave \/ wave <= t
      BY <1>1, <1>2
    <3> QED
      BY <1>1, <1>5, <2>1, <2>5, <3>1 DEF WaveInv
  <2>6. ASSUME NEW t \in Tasks, wpc[t] # "idle" PROVE t < WaveEnd' /\ t < run'
    <3>1. t < WaveEnd
      BY <2>6 DEF WaveInv
    <3>2. WaveEnd' \in Nat
      BY <1>2, <2>1, WidthFacts DEF WaveEnd
    <3> QED
      BY <1>2, <2>4, <3>1, <3>2
  <2>7. WaveInv'
    BY <1>1, <2>1, <2>3, <2>4, <2>5, <2>6 DEF WaveInv
  <2>8. WaitInv'
    BY <2>1 DEF WaitInv
  <2> QED
    BY <2>7, <2>8
<1> QED
  BY <1>3, <1>4, <1>5

\* Submit leaves the collectors to themselves, and all but a launch leaves the
\* workers.
LEMMA Submitted ==
  ASSUME DetachedInv, Submit
  PROVE  DetachedInv'
<1>1. UNCHANGED collectVars
  BY DEF Submit, Submitting
<1>2. /\ WaveInv' /\ WaitInv' /\ WorkersInv' /\ UNCHANGED calls
      /\ \A t \in Tasks : wpc[t] = "exited" => wpc'[t] = "exited"
  <2>1. CASE RunTask
    BY <2>1, WaveRun DEF RunTask
  <2>2. CASE WaveScan \/ WaveScanEnd
    <3>1. UNCHANGED <<status, result, wpc, calls>>
      BY <2>2 DEF WaveScan, WaveScanEnd, workerVars, storeVars
    <3> QED
      BY <2>2, <3>1, WaveWait, WorkersDelete DEF DetachedInv
  <2>3. CASE ~RunTask /\ ~WaveScan /\ ~WaveScanEnd
    <3>1. UNCHANGED <<status, result, wpc, calls>>
      BY <2>3 DEF Submit, WriteManifest, CheckImage, UploadSpawn, UploadOne, UploadJoin,
         LookupNetwork, RegisterTaskDefinition, WaveLaunched, WaveTick, WaveExpired,
         LaunchFinished, MarkManifest, workerVars, storeVars
    <3>2. WorkersInv'
      BY <3>1, WorkersDelete DEF DetachedInv
    <3>3. WaveInv' /\ WaitInv'
      BY <2>3, WavePrepare DEF DetachedInv, Submit
    <3> QED
      BY <3>1, <3>2, <3>3
  <2> QED
    BY <2>1, <2>2, <2>3
<1>3. \A c \in Collectors : CollectorInv(c)'
  <2>1. \A c \in Collectors : Untouched(c)
    BY <1>1 DEF Untouched, collectVars, pollVars, downloadVars
  <2> QED
    BY <1>2, <2>1, CollectorFrame DEF DetachedInv
<1>4. TypeOK'
  <2>1. [Next]_vars
    BY DEF Next
  <2> QED
    BY <2>1, TypeNext DEF DetachedInv, WaveInv
<1> QED
  BY <1>2, <1>3, <1>4 DEF DetachedInv

\* A collector leaves Submit and the workers to themselves.
LEMMA Collected ==
  ASSUME DetachedInv, NEW c \in Collectors, Collect(c)
  PROVE  DetachedInv'
<1>1. UNCHANGED submitVars
  BY DEF Collect, Collecting
<1>2. UNCHANGED workerVars
  BY CollectorAlone DEF Collect, BeginCollect, BeginAssemble, CollectorStep, DetachedInv, TypeOK
<1>3. WaveInv' /\ WaitInv'
  BY <1>1, <1>2, WaveFrame DEF DetachedInv, submitVars, workerVars
<1>4. WorkersInv' /\ \A d \in Collectors : CollectorInv(d)'
  <2>1. CASE BeginAssemble(c) \/ CollectRun(c)
    BY <2>1, CollectorsCollect DEF CollectorStep, BeginAssemble, DetachedInv, TypeOK
  <2>2. CASE BeginCollect(c)
    <3>1. UNCHANGED <<status, result, wpc, calls>>
      BY <1>2 DEF workerVars, storeVars
    <3>2. WorkersInv'
      BY <3>1, WorkersDelete DEF DetachedInv
    <3>3. \A d \in Collectors : d # c => Untouched(d)
      BY <2>2 DEF BeginCollect, To, Untouched, pollVars, downloadVars, DetachedInv, TypeOK,
         CollectionTypeOK
    <3>4. CollectorInv(c)'
      <4>1. /\ cpc[c] = "idle" /\ cpc'[c] = "poll" /\ cret' = cret /\ out' = out
            /\ dnext' = dnext /\ fetching' = fetching
        BY <2>2 DEF BeginCollect, At, To, downloadVars, DetachedInv, TypeOK, CollectionTypeOK
      <4>2. CollectorInv(c)
        BY DEF DetachedInv
      <4> QED
        BY <4>1, <4>2 DEF CollectorInv, PollInv, DownloadInv, OutInv, HasResults, WithResults
    <3> QED
      BY <3>1, <3>2, <3>3, <3>4, CollectorFrame DEF DetachedInv
  <2> QED
    BY <2>1, <2>2 DEF Collect
<1>5. TypeOK'
  <2>1. [Next]_vars
    BY DEF Next
  <2> QED
    BY <2>1, TypeNext DEF DetachedInv, WaveInv
<1> QED
  BY <1>3, <1>4, <1>5 DEF DetachedInv

\* A worker runs beside Submit and the collectors.
LEMMA Worked ==
  ASSUME DetachedInv, NEW t \in Tasks, DetachedWorker(t)
  PROVE  DetachedInv'
<1>1. WorkerTypeOK /\ WorkersInv /\ (WorkerRun(t) \/ WorkerCrash(t))
  BY DEF DetachedInv, TypeOK, DetachedWorker
<1>2. UNCHANGED submitVars /\ UNCHANGED collectVars
  BY DEF DetachedWorker
<1>3. WorkersInv'
  BY <1>1, WorkersWork
<1>4. \A c \in Collectors : CollectorInv(c)'
  <2>1. \A c \in Collectors : Untouched(c)
    BY <1>2 DEF Untouched, collectVars, pollVars, downloadVars
  <2> QED
    BY <1>1, <2>1, CollectorWorking DEF DetachedInv
<1>5. WaveInv' /\ WaitInv'
  <2>1. \A u \in Tasks : /\ wpc[u] = "exited" => wpc'[u] = "exited"
                         /\ wpc'[u] # "idle" => wpc[u] # "idle"
    BY <1>1, WorkerFrame
  <2> QED
    BY <1>2, <2>1, WaveFrame DEF DetachedInv, submitVars
<1>6. TypeOK'
  <2>1. [Next]_vars
    BY DEF Next
  <2> QED
    BY <2>1, TypeNext DEF DetachedInv, WaveInv
<1> QED
  BY <1>3, <1>4, <1>5, <1>6 DEF DetachedInv

\* Files that are deleted and contexts that end change nothing of it.
LEMMA Disturbed ==
  ASSUME DetachedInv,
         \/ ExpireSubmit \/ (\E c \in Collectors : ExpireCollect(c)) \/ Cleanup \/ UNCHANGED vars
  PROVE  DetachedInv'
<1>1. /\ UNCHANGED <<wpc, calls, spc, wave, run, wcursor, wall>>
      /\ UNCHANGED <<cpc, pollVars, downloadVars, out, cret>>
  BY DEF ExpireSubmit, ExpireCollect, Cleanup, BeginCleanup, CheckStatus, ListFiles, DeleteFiles,
         vars, workerVars, submitVars, collectVars, launchVars
<1>2. /\ \A t \in Tasks : status'[t] \in {status[t], "none"}
      /\ \A t \in Tasks : result'[t] \in {result[t], NoFile}
  BY DEF ExpireSubmit, ExpireCollect, Cleanup, BeginCleanup, CheckStatus, ListFiles, DeleteFiles,
         Remove, vars, workerVars, storeVars
<1>3. WorkersInv'
  BY <1>1, <1>2, WorkersDelete DEF DetachedInv
<1>4. WaveInv' /\ WaitInv'
  BY <1>1, WaveFrame DEF DetachedInv
<1>5. \A c \in Collectors : CollectorInv(c)'
  <2>1. \A c \in Collectors : Untouched(c)
    BY <1>1 DEF Untouched, pollVars, downloadVars
  <2> QED
    BY <1>1, <2>1, CollectorFrame DEF DetachedInv
<1>6. TypeOK'
  <2>1. [Next]_vars
    BY DEF Next
  <2> QED
    BY <2>1, TypeNext DEF DetachedInv, WaveInv
<1> QED
  BY <1>3, <1>4, <1>5, <1>6 DEF DetachedInv

LEMMA DetachedNext ==
  ASSUME DetachedInv, [Next]_vars
  PROVE  DetachedInv'
BY Submitted, Collected, Worked, Disturbed DEF Next

\* A task below the end of the wave that starts at q * w is in that wave or an
\* earlier one; a task of a wave before it is below the start.
LEMMA EarlierWave ==
  ASSUME NEW w \in Nat, w > 0, NEW q \in Nat, NEW t \in Nat, NEW u \in Nat,
         t < q * w + w, u \div w < t \div w
  PROVE  u < q * w
<1> DEFINE a == u \div w
           b == t \div w
<1>1. a \in Nat /\ u < w * a + w
  BY Division
<1>2. b \in Nat /\ w * b <= t
  BY Division
<1> HIDE DEF a, b
<1>3. a < b
  BY DEF a, b
<1>4. b <= q
  <2>1. ASSUME q + 1 <= b PROVE FALSE
    <3>1. (q + 1) * w <= b * w /\ (q + 1) * w = q * w + w /\ b * w = w * b /\ q * w \in Nat
      BY <1>2, <2>1, ProductMonotone, NextMultiple
    <3> QED
      BY <1>2, <3>1
  <2> QED
    BY <1>2, <2>1
<1>5. (a + 1) * w <= q * w /\ (a + 1) * w = a * w + w /\ a * w = w * a
  <2>1. a + 1 <= q
    BY <1>1, <1>2, <1>3, <1>4
  <2> QED
    BY <1>1, <2>1, ProductMonotone, NextMultiple
<1>6. a * w \in Nat /\ q * w \in Nat
  BY <1>1
<1> QED
  BY <1>1, <1>5, <1>6

\* The inductive invariant holds in every state of a detached session.
THEOREM DetachedInvariant == Spec => []DetachedInv
  BY DetachedInit, DetachedNext, PTL DEF Spec
-----------------------------------------------------------------------------
\* Every variable of a detached session keeps its type, under every fault and
\* whatever is deleted.
THEOREM DetachedTypes == Spec => []TypeOK
<1>1. DetachedInv => TypeOK
  BY DEF DetachedInv
<1> QED
  BY <1>1, DetachedInvariant, PTL

\* Never more containers at once than the wave size, whatever fails: those
\* that run are in the wave that began last.
THEOREM AlwaysWithinQuota == Spec => []WithinQuota
<1>1. DetachedInv => WithinQuota
  <2> SUFFICES ASSUME DetachedInv PROVE WithinQuota
    OBVIOUS
  <2> DEFINE active == {t \in Tasks : wpc[t] \notin {"idle", "exited"}}
             current == wave..(wave + WaveWidth - 1)
  <2>1. wave \in Nat /\ WaveEnd \in Nat /\ WaveEnd <= wave + WaveWidth
    BY WidthFacts DEF DetachedInv, TypeOK, SubmissionTypeOK, WaveEnd
  <2>2. ASSUME NEW t \in active PROVE t \in current
    <3>1. t \in Nat /\ ~(t < wave) /\ t < WaveEnd
      BY WidthFacts DEF DetachedInv, WaveInv, Tasks
    <3> QED
      BY <2>1, <3>1, WidthFacts
  <2>3. IsFiniteSet(current) /\ Cardinality(current) = WaveWidth
    <3>1. wave \in Int /\ wave + WaveWidth - 1 \in Int
      BY <2>1, WidthFacts
    <3>2. /\ IsFiniteSet(current)
          /\ Cardinality(current) = IF wave > wave + WaveWidth - 1 THEN 0
                                    ELSE (wave + WaveWidth - 1) - wave + 1
      BY <3>1, FS_Interval
    <3> QED
      BY <2>1, <3>2, WidthFacts
  <2>4. Cardinality(active) <= Cardinality(current)
    BY <2>2, <2>3, FS_Subset
  <2> QED
    BY <2>3, <2>4 DEF WithinQuota
<1> QED
  BY <1>1, DetachedInvariant, PTL

\* A task is started only after all the tasks of the earlier waves have ended.
THEOREM WavesAlwaysInOrder == Spec => []WavesInOrder
<1>1. DetachedInv => WavesInOrder
  <2> SUFFICES ASSUME DetachedInv, NEW t \in Tasks, NEW u \in Tasks,
                      u \div WaveWidth < t \div WaveWidth, wpc[t] # "idle"
               PROVE  wpc[u] = "exited"
    BY DEF WavesInOrder
  <2>1. t \in Nat /\ u \in Nat /\ wave \in Nat /\ WaveEnd <= wave + WaveWidth
    BY WidthFacts DEF Tasks, DetachedInv, TypeOK, SubmissionTypeOK, WaveEnd
  <2>2. PICK q \in Nat : wave = q * WaveWidth
    BY DEF DetachedInv, WaveInv
  <2>3. t < wave + WaveWidth
    <3>1. t < WaveEnd /\ WaveEnd \in Nat
      BY <2>1, WidthFacts DEF DetachedInv, WaveInv, WaveEnd
    <3> QED
      BY <2>1, <3>1, WidthFacts
  <2>4. u < wave
    BY <2>1, <2>2, <2>3, WidthFacts, EarlierWave
  <2> QED
    BY <2>4 DEF DetachedInv, WaveInv
<1> QED
  BY <1>1, DetachedInvariant, PTL

\* When no error text is empty, a collector that answers with results answers
\* with each item's own outcome, in order.
THEOREM CollectAlwaysFaithful ==
  ASSUME "blank" \notin Faults
  PROVE  Spec => []CollectFaithful
<1>1. DetachedInv => CollectFaithful
  <2> SUFFICES ASSUME DetachedInv, NEW c \in Collectors, cret[c] \in {"results", "partial"}
               PROVE  /\ Len(out[c]) = NumItems
                      /\ \A k \in Items :
                           /\ Called(k)
                           /\ out[c][k + 1] =
                                [value |-> IF Succeeded(k) THEN k ELSE Null,
                                 error |-> ~Succeeded(k)]
                      /\ cret[c] = "results" <=> \A k \in Items : Succeeded(k)
    BY DEF CollectFaithful
  <2>1. WorkersInv /\ CollectorInv(c) /\ HasResults(c)
    BY DEF DetachedInv, HasResults, WithResults
  <2>2. Assembled(c)
    BY <2>1, ResultsAssembled
  <2>3. AnyFailed(c) <=> \E k \in Items : ~Succeeded(k)
    BY <2>1, <2>2, AnswerFailures
  <2>4. cret[c] = "results" <=> ~AnyFailed(c)
    BY <2>1 DEF CollectorInv, OutInv
  <2>5. \A k \in Items :
          /\ Called(k)
          /\ out[c][k + 1] =
               [value |-> IF Succeeded(k) THEN k ELSE Null, error |-> ~Succeeded(k)]
    BY <2>1, <2>2, AnswerItems
  <2>6. Len(out[c]) = NumItems
    BY <2>2 DEF Assembled
  <2> QED
    BY <2>3, <2>4, <2>5, <2>6
<1> QED
  BY <1>1, DetachedInvariant, PTL

\* All collectors that answer with results answer the same, whatever fails.
THEOREM CollectorsAlwaysAgree == Spec => []CollectorsAgree
<1>1. DetachedInv => CollectorsAgree
  <2> SUFFICES ASSUME DetachedInv, NEW c \in Collectors, NEW d \in Collectors,
                      {cret[c], cret[d]} \subseteq {"results", "partial"}
               PROVE  cret[c] = cret[d] /\ out[c] = out[d]
    BY DEF CollectorsAgree
  <2>1. CollectionTypeOK /\ CollectorInv(c) /\ CollectorInv(d) /\ HasResults(c) /\ HasResults(d)
    BY DEF DetachedInv, TypeOK, HasResults, WithResults
  <2>2. out[c] = out[d]
    BY <2>1, ResultsAssembled, SameAnswers
  <2>3. AnyFailed(c) <=> AnyFailed(d)
    BY <2>2 DEF AnyFailed
  <2>4. (cret[c] = "results" <=> ~AnyFailed(c)) /\ (cret[d] = "results" <=> ~AnyFailed(d))
    BY <2>1 DEF CollectorInv, OutInv
  <2> QED
    BY <2>2, <2>3, <2>4
<1> QED
  BY <1>1, DetachedInvariant, PTL

\* Nothing that a worker has written is ever replaced, whoever deletes it.
THEOREM DetachedWrittenOnce == Spec => WrittenOnce
<1>1. ASSUME DetachedInv, [Next]_vars, NEW u \in Tasks
      PROVE  /\ calls[u] # <<>> => calls'[u] = calls[u]
             /\ result[u] # NoFile => result'[u] \in {result[u], NoFile}
             /\ status[u] \in Terminal => status'[u] \in {status[u], "none"}
  <2>1. ASSUME NEW t \in Tasks, DetachedWorker(t)
        PROVE  /\ calls[u] # <<>> => calls'[u] = calls[u]
               /\ result[u] # NoFile => result'[u] \in {result[u], NoFile}
               /\ status[u] \in Terminal => status'[u] \in {status[u], "none"}
    BY <1>1, <2>1, WorkerWritesOnce DEF DetachedWorker, DetachedInv, TypeOK
  <2>2. CASE DeleteFiles
    BY <2>2 DEF DeleteFiles, Remove
  <2>3. CASE ~DeleteFiles /\ ~\E t \in Tasks : DetachedWorker(t)
    <3>1. ASSUME NEW c \in Collectors, Collect(c) PROVE UNCHANGED <<calls, result, status>>
      BY <1>1, <3>1, CollectorAlone DEF Collect, BeginCollect, BeginAssemble, CollectorStep,
         DetachedInv, TypeOK, workerVars, storeVars
    <3>2. CASE Submit
      BY <3>2 DEF Submit, WriteManifest, CheckImage, UploadSpawn, UploadOne, UploadJoin,
         LookupNetwork, RegisterTaskDefinition, RunTask, WaveLaunched, WaveTick, WaveExpired,
         WaveScan, WaveScanEnd, LaunchFinished, MarkManifest, workerVars, storeVars
    <3>3. CASE \/ ExpireSubmit \/ BeginCleanup \/ CheckStatus \/ ListFiles \/ UNCHANGED vars
               \/ \E c \in Collectors : ExpireCollect(c)
      BY <3>3 DEF ExpireSubmit, ExpireCollect, BeginCleanup, CheckStatus, ListFiles, vars,
         workerVars, storeVars
    <3> QED
      BY <1>1, <2>3, <3>1, <3>2, <3>3 DEF Next, Cleanup
  <2> QED
    BY <2>1, <2>2, <2>3
<1>2. DetachedInv /\ [Next]_vars =>
        [\A t \in Tasks :
           /\ calls[t] # <<>> => calls'[t] = calls[t]
           /\ result[t] # NoFile => result'[t] \in {result[t], NoFile}
           /\ status[t] \in Terminal => status'[t] \in {status[t], "none"}
        ]_<<calls, result, status>>
  BY <1>1
<1> QED
  BY <1>2, DetachedInvariant, PTL DEF Spec, WrittenOnce
-----------------------------------------------------------------------------
(* A session that was handed over can be collected.                        *)

\* The phases of Submit: what it has launched when, for any cleanup.
HandoverInv ==
  /\ dpc # "over" => dret = "none"
  /\ sret # "none" => spc = "returned"
  /\ spc \in {"manifest", "image"} => snext = 0 /\ uploading = {}
  /\ spc \in {"manifest", "image", "upload", "vpc", "register"} => run = 0
  /\ spc \in {"run", "wait", "waitScan"} => \A t \in Tasks : t < run => wpc[t] # "idle"
  /\ spc = "mark" \/ sret = "launched" => \A t \in Tasks : wpc[t] # "idle"

\* What Submit has stored when: its manifest, and the task files.
StoredInv ==
  /\ spc \notin {"manifest", "returned"} \/ sret = "launched" =>
       manifest \in {"initializing", "running"}
  /\ spc = "upload" =>
       \A u \in Tasks : u < snext /\ u \notin uploading => task[u] \/ serr
  /\ spc \in {"vpc", "register", "run", "wait", "waitScan", "mark"} \/ sret = "launched" =>
       \A u \in Tasks : task[u]

CollectableInv ==
  /\ HandoverInv
  /\ Undeleted => StoredInv /\ \A t \in Tasks : ResultFirst(t)

LEMMA CollectableInit == Init => CollectableInv
<1> SUFFICES ASSUME Init PROVE CollectableInv
  OBVIOUS
<1>1. HandoverInv
  BY DEF Init, SubmissionInit, HandoverInv
<1>2. StoredInv
  BY DEF Init, SubmissionInit, StoredInv
<1>3. \A t \in Tasks : ResultFirst(t)
  BY DEF Init, WorkerInit, ResultFirst
<1> QED
  BY <1>1, <1>2, <1>3 DEF CollectableInv

\* The steps of Submit before the launch.
LEMMA HandoverPrepares ==
  ASSUME TypeOK, HandoverInv, UNCHANGED deleteVars,
         \/ WriteManifest("manifest", "image", "initializing")
         \/ CheckImage("image", "upload")
         \/ UploadSpawn
         \/ \E t \in Tasks : UploadOne(t)
         \/ UploadJoin("vpc")
         \/ LookupNetwork("register")
         \/ RegisterTaskDefinition
  PROVE  HandoverInv' /\ (StoredInv => StoredInv')
<1> USE DEF SubmitGoto, SubmitReturn, workerVars, storeVars, launchVars, uploadVars, deleteVars
<1>0. \A u \in Tasks : u \in Nat /\ u < NumTasks /\ ~(u < 0)
  BY TaskFacts DEF Tasks
<1>1. ASSUME WriteManifest("manifest", "image", "initializing")
      PROVE  HandoverInv' /\ (StoredInv => StoredInv')
  <2>1. PICK r \in SubmitPuts :
          /\ spc = "manifest"
          /\ manifest' = IF r.stored THEN "initializing" ELSE manifest
          /\ IF r.ok THEN spc' = "image" /\ sret' = sret ELSE spc' = "returned" /\ sret' = "error"
    BY <1>1 DEF WriteManifest
  <2>2. r.ok => r.stored
    BY DEF SubmitPuts, PutOutcomes
  <2>3. HandoverInv'
    BY <1>1, <2>1 DEF WriteManifest, HandoverInv
  <2>4. StoredInv => StoredInv'
    BY <1>1, <2>1, <2>2 DEF WriteManifest, HandoverInv, StoredInv
  <2> QED
    BY <2>3, <2>4
<1>2. ASSUME CheckImage("image", "upload") PROVE HandoverInv' /\ (StoredInv => StoredInv')
  BY <1>0, <1>2 DEF CheckImage, HandoverInv, StoredInv
<1>3. ASSUME UploadSpawn PROVE HandoverInv' /\ (StoredInv => StoredInv')
  <2>1. HandoverInv'
    BY <1>3 DEF UploadSpawn, HandoverInv
  <2>2. StoredInv => StoredInv'
    <3> SUFFICES ASSUME StoredInv, NEW u \in Tasks, u < snext', u \notin uploading'
                 PROVE  task[u] \/ serr
      BY <1>3 DEF UploadSpawn, HandoverInv, StoredInv
    <3>1. snext \in Nat /\ snext' = snext + 1 /\ uploading' = uploading \cup {snext}
      BY <1>3 DEF UploadSpawn, TypeOK, SubmissionTypeOK
    <3>2. u < snext /\ u \notin uploading
      BY <1>0, <3>1
    <3> QED
      BY <1>3, <3>2 DEF UploadSpawn, StoredInv
  <2> QED
    BY <2>1, <2>2
<1>4. ASSUME NEW t \in Tasks, UploadOne(t) PROVE HandoverInv' /\ (StoredInv => StoredInv')
  <2>1. HandoverInv'
    BY <1>4 DEF UploadOne, HandoverInv
  <2>2. \/ \A u \in Tasks : task'[u] = (task[u] \/ u = t)
        \/ serr'
    <3>1. CASE \E r \in SubmitPuts : task' = Stored(task, t, TRUE, r) /\ serr' = (serr \/ ~r.ok)
      <4>1. PICK r \in SubmitPuts : task' = Stored(task, t, TRUE, r) /\ serr' = (serr \/ ~r.ok)
        BY <3>1
      <4>2. r.ok => r.stored
        BY DEF SubmitPuts, PutOutcomes
      <4>3. r.ok => \A u \in Tasks : task'[u] = (task[u] \/ u = t)
        BY <4>1, <4>2 DEF Stored, TypeOK, WorkerTypeOK
      <4> QED
        BY <4>1, <4>3
    <3>2. CASE serr' = TRUE
      BY <3>2
    <3> QED
      BY <1>4, <3>1, <3>2 DEF UploadOne
  <2>3. serr => serr'
    BY <1>4 DEF UploadOne
  <2>4. StoredInv => StoredInv'
    BY <1>4, <2>2, <2>3 DEF UploadOne, HandoverInv, StoredInv
  <2> QED
    BY <2>1, <2>4
<1>5. ASSUME UploadJoin("vpc") PROVE HandoverInv' /\ (StoredInv => StoredInv')
  BY <1>0, <1>5 DEF UploadJoin, HandoverInv, StoredInv
<1>6. ASSUME LookupNetwork("register") PROVE HandoverInv' /\ (StoredInv => StoredInv')
  BY <1>6 DEF LookupNetwork, HandoverInv, StoredInv
<1>7. ASSUME RegisterTaskDefinition PROVE HandoverInv' /\ (StoredInv => StoredInv')
  BY <1>0, <1>7 DEF RegisterTaskDefinition, HandoverInv, StoredInv
<1> QED
  BY <1>1, <1>2, <1>3, <1>4, <1>5, <1>6, <1>7

\* The launch, the wait between the waves and the end of Submit.
LEMMA HandoverLaunches ==
  ASSUME TypeOK, HandoverInv, UNCHANGED deleteVars,
         \/ RunTask
         \/ WaveLaunched \/ WaveTick \/ WaveExpired \/ WaveScan \/ WaveScanEnd
         \/ LaunchFinished /\ SubmitGoto("mark")
         \/ MarkManifest("mark", "running") /\ SubmitReturn("launched")
  PROVE  HandoverInv' /\ (StoredInv => StoredInv')
<1> USE DEF SubmitGoto, SubmitReturn, workerVars, storeVars, launchVars, uploadVars, deleteVars
<1>0. \A u \in Tasks : u \in Nat /\ u < NumTasks
  BY TaskFacts DEF Tasks
<1>1. ASSUME RunTask PROVE HandoverInv' /\ (StoredInv => StoredInv')
  <2>1. /\ spc = "run" /\ run \in Nat
        /\ \/ spc' = "run" /\ sret' = sret /\ run' = run + 1
              /\ wpc' = [wpc EXCEPT ![run] = "launched"]
           \/ spc' = "returned" /\ sret' = "error"
    BY <1>1 DEF RunTask, Goto, TypeOK, SubmissionTypeOK
  <2>2. \A t \in Tasks : spc' = "run" /\ t < run' => wpc'[t] # "idle"
    <3> SUFFICES ASSUME NEW t \in Tasks, spc' = "run", t < run' PROVE wpc'[t] # "idle"
      OBVIOUS
    <3>1. run' = run + 1 /\ wpc' = [wpc EXCEPT ![run] = "launched"]
      BY <2>1
    <3>2. t < run => wpc[t] # "idle"
      BY <2>1 DEF HandoverInv
    <3>3. t \in Nat /\ (t = run \/ t < run)
      BY <1>0, <2>1, <3>1
    <3>4. wpc'[t] = IF t = run THEN "launched" ELSE wpc[t]
      BY <3>1 DEF TypeOK, WorkerTypeOK
    <3> QED
      BY <3>2, <3>3, <3>4
  <2>3. HandoverInv'
    BY <1>1, <2>1, <2>2 DEF RunTask, HandoverInv
  <2>4. StoredInv => StoredInv'
    BY <1>1, <2>1 DEF RunTask, HandoverInv, StoredInv
  <2> QED
    BY <2>3, <2>4
<1>2. ASSUME WaveLaunched PROVE HandoverInv' /\ (StoredInv => StoredInv')
  BY <1>2 DEF WaveLaunched, HandoverInv, StoredInv
<1>3. ASSUME WaveTick PROVE HandoverInv' /\ (StoredInv => StoredInv')
  BY <1>3 DEF WaveTick, HandoverInv, StoredInv
<1>4. ASSUME WaveExpired PROVE HandoverInv' /\ (StoredInv => StoredInv')
  BY <1>4 DEF WaveExpired, HandoverInv, StoredInv
<1>5. ASSUME WaveScan PROVE HandoverInv' /\ (StoredInv => StoredInv')
  BY <1>5 DEF WaveScan, HandoverInv, StoredInv
<1>6. ASSUME WaveScanEnd PROVE HandoverInv' /\ (StoredInv => StoredInv')
  BY <1>6 DEF WaveScanEnd, HandoverInv, StoredInv
<1>7. ASSUME LaunchFinished /\ SubmitGoto("mark") PROVE HandoverInv' /\ (StoredInv => StoredInv')
  BY <1>0, <1>7 DEF LaunchFinished, HandoverInv, StoredInv
<1>8. ASSUME MarkManifest("mark", "running") /\ SubmitReturn("launched")
      PROVE  HandoverInv' /\ (StoredInv => StoredInv')
  BY <1>8 DEF MarkManifest, HandoverInv, StoredInv
<1> QED
  BY <1>1, <1>2, <1>3, <1>4, <1>5, <1>6, <1>7, <1>8

\* A step that is none of Submit's leaves what Submit has done, unless it
\* deletes.
LEMMA HandoverFrame ==
  ASSUME UNCHANGED submitVars, \A t \in Tasks : wpc[t] # "idle" => wpc'[t] # "idle",
         HandoverInv, dpc' # "over" => dret' = "none"
  PROVE  HandoverInv' /\ (StoredInv /\ task' = task => StoredInv')
BY DEF submitVars, uploadVars, launchVars, HandoverInv, StoredInv

LEMMA CollectableNext ==
  ASSUME DetachedInv, CollectableInv, [Next]_vars
  PROVE  CollectableInv'
<1> USE DEF CollectableInv, DetachedInv
<1>0. UNCHANGED <<status, result, wpc, calls>> => \A t \in Tasks : ResultFirst(t) => ResultFirst(t)'
  BY DEF ResultFirst, AllSucceeded
<1>1. CASE Submit
  <2>1. HandoverInv' /\ (StoredInv => StoredInv')
    BY <1>1, HandoverPrepares, HandoverLaunches DEF Submit, Submitting
  <2>2. Undeleted' <=> Undeleted
    BY <1>1 DEF Submit, Submitting, deleteVars, Undeleted
  <2>3. \A t \in Tasks : ResultFirst(t) => ResultFirst(t)'
    <3>1. CASE RunTask
      <4>1. /\ UNCHANGED <<status, result, calls>>
            /\ \A t \in Tasks : wpc'[t] \in {wpc[t], "launched"}
        BY <3>1 DEF RunTask, Goto, storeVars, TypeOK, WorkerTypeOK
      <4> QED
        BY <4>1 DEF ResultFirst, AllSucceeded
    <3>2. CASE ~RunTask
      <4>1. UNCHANGED <<status, result, wpc, calls>>
        BY <1>1, <3>2 DEF Submit, WriteManifest, CheckImage, UploadSpawn, UploadOne, UploadJoin,
           LookupNetwork, RegisterTaskDefinition, WaveLaunched, WaveTick, WaveExpired, WaveScan,
           WaveScanEnd, LaunchFinished, MarkManifest, workerVars, storeVars
      <4> QED
        BY <1>0, <4>1
    <3> QED
      BY <3>1, <3>2
  <2> QED
    BY <2>1, <2>2, <2>3
<1>2. ASSUME NEW t \in Tasks, DetachedWorker(t) PROVE CollectableInv'
  <2>1. WorkerTypeOK /\ (WorkerRun(t) \/ WorkerCrash(t)) /\ UNCHANGED submitVars
        /\ UNCHANGED deleteVars
    BY <1>2 DEF DetachedWorker, TypeOK
  <2>2. task' = task /\ \A u \in Tasks : wpc[u] # "idle" => wpc'[u] # "idle"
    BY <2>1, WorkerFrame
  <2>3. (Undeleted' <=> Undeleted) /\ (dpc' # "over" => dret' = "none")
    BY <2>1 DEF deleteVars, Undeleted, HandoverInv
  <2>4. HandoverInv' /\ (StoredInv => StoredInv')
    BY <2>1, <2>2, <2>3, HandoverFrame
  <2> QED
    BY <2>1, <2>3, <2>4, ResultsFirst
<1>3. CASE Cleanup
  <2>1. UNCHANGED <<wpc, calls, taskdef, spc, sctx, uploadVars, launchVars, sret>>
        /\ (dpc' # "over" => dret' = "none") /\ dpc # "over"
    <3>1. CASE BeginCleanup
      BY <3>1 DEF BeginCleanup, workerVars, submitVars, uploadVars, launchVars, HandoverInv
    <3>2. CASE CheckStatus
      BY <3>2 DEF CheckStatus, workerVars, submitVars, uploadVars, launchVars, HandoverInv
    <3>3. CASE ListFiles
      <4>1. UNCHANGED <<wpc, calls, taskdef, spc, sctx, uploadVars, launchVars, sret>>
        BY <3>3 DEF ListFiles, workerVars, submitVars, uploadVars, launchVars
      <4>2. dpc = "list" /\ dret = "none"
        BY <3>3 DEF ListFiles, HandoverInv
      <4>3. dpc' # "over" => dret' = dret
        BY <3>3 DEF ListFiles
      <4> QED
        BY <4>1, <4>2, <4>3
    <3>4. CASE DeleteFiles
      <4>1. UNCHANGED <<wpc, calls, taskdef, spc, sctx, uploadVars, launchVars, sret>>
        BY <3>4 DEF DeleteFiles
      <4>2. dpc = "delete" /\ dret = "none"
        BY <3>4 DEF DeleteFiles, HandoverInv
      <4>3. dpc' # "over" => dret' = dret
        BY <3>4 DEF DeleteFiles
      <4> QED
        BY <4>1, <4>2, <4>3
    <3> QED
      BY <1>3, <3>1, <3>2, <3>3, <3>4 DEF Cleanup
  <2>2. HandoverInv'
    BY <2>1 DEF HandoverInv, uploadVars, launchVars
  <2>3. Undeleted' => Undeleted /\ UNCHANGED <<manifest, task, status, result>>
    <3>1. CASE DeleteFiles
      BY <2>1, <3>1 DEF DeleteFiles, Undeleted, HandoverInv
    <3>2. CASE BeginCleanup \/ CheckStatus \/ ListFiles
      BY <3>2 DEF BeginCleanup, CheckStatus, ListFiles, Undeleted, workerVars, storeVars, submitVars
    <3> QED
      BY <1>3, <3>1, <3>2 DEF Cleanup
  <2>4. StoredInv /\ UNCHANGED <<manifest, task>> => StoredInv'
    BY <2>1 DEF StoredInv, uploadVars, launchVars
  <2> QED
    BY <1>0, <2>1, <2>2, <2>3, <2>4
<1>4. CASE ExpireSubmit \/ (\E c \in Collectors : Collect(c) \/ ExpireCollect(c)) \/ UNCHANGED vars
  <2>1. UNCHANGED <<workerVars, manifest, taskdef, spc, uploadVars, launchVars, sret, deleteVars>>
    <3>1. ASSUME NEW c \in Collectors, Collect(c)
          PROVE UNCHANGED <<workerVars, manifest, taskdef, spc, uploadVars, launchVars, sret,
                            deleteVars>>
      <4>1. UNCHANGED workerVars
        BY <3>1, CollectorAlone
           DEF Collect, BeginCollect, BeginAssemble, CollectorStep, TypeOK
      <4> QED
        BY <3>1, <4>1 DEF Collect, Collecting, submitVars, uploadVars, launchVars
    <3> QED
      BY <1>4, <3>1 DEF ExpireSubmit, ExpireCollect, vars, submitVars, uploadVars, launchVars
  <2>2. HandoverInv'
    BY <2>1 DEF HandoverInv, workerVars, uploadVars, launchVars, deleteVars
  <2>3. StoredInv => StoredInv'
    BY <2>1 DEF StoredInv, workerVars, storeVars, uploadVars, launchVars
  <2>4. (Undeleted' <=> Undeleted) /\ UNCHANGED <<status, result, wpc, calls>>
    BY <2>1 DEF Undeleted, deleteVars, workerVars, storeVars
  <2> QED
    BY <1>0, <2>2, <2>3, <2>4
<1> QED
  BY <1>1, <1>2, <1>3, <1>4 DEF Next

\* Until a cleanup deletes of it, what Submit has handed over is complete: the
\* manifest, every task file, every task started, and the results behind every
\* status that says so.
THEOREM SubmittedAlwaysCollectable == Spec => []SubmittedCollectable
<1>1. DetachedInv /\ CollectableInv => SubmittedCollectable
  <2> SUFFICES ASSUME DetachedInv, CollectableInv, Undeleted PROVE SubmittedCollectable
    BY DEF SubmittedCollectable
  <2>1. sret = "launched" =>
          manifest \in {"initializing", "running"} /\ \A t \in Tasks : task[t] /\ wpc[t] # "idle"
    BY DEF CollectableInv, HandoverInv, StoredInv
  <2>2. ASSUME NEW t \in Tasks, status[t] \in {"done", "partial"}
        PROVE  /\ calls[t] # <<>> /\ result[t] = Payload(t, calls[t])
               /\ status[t] = "done" <=> AllSucceeded(t)
    <3>1. Ended(t) /\ result[t] = Payload(t, calls[t]) /\ (status[t] = "done" <=> AllSucceeded(t))
      BY <2>2 DEF CollectableInv, ResultFirst, DetachedInv, WorkersInv
    <3>2. calls[t] # <<>>
      BY <3>1, TaskFacts DEF Ended
    <3> QED
      BY <3>1, <3>2
  <2> QED
    BY <2>1, <2>2 DEF SubmittedCollectable
<1> QED
  BY <1>1, CollectableInit, CollectableNext, DetachedInvariant, PTL DEF Spec
-----------------------------------------------------------------------------
(* The contract.                                                           *)

LEMMA ContractInit == Init => Contract!Init
<1> SUFFICES ASSUME Init PROVE Contract!Init
  OBVIOUS
<1>1. /\ [c \in Collectors |-> Kind(cret[c])] = [c \in Collectors |-> "none"]
      /\ Carried = [c \in Collectors |-> <<>>]
  BY DEF Init, CollectionInit, Kind, Carried, WithResults
<1>2. Fates = [k \in Items |-> "pending"]
  BY SomeTask DEF Init, WorkerInit, Called, Fates
<1> QED
  BY <1>1, <1>2 DEF Contract!Init, Contract!Items, Items

\* What the contract sees of a step that gives no answer.
LEMMA ContractFrame ==
  ASSUME UNCHANGED cret, \A c \in Collectors : cret[c] \in WithResults => out'[c] = out[c]
  PROVE  /\ Carried' = Carried
         /\ [c \in Collectors |-> Kind(cret[c])]' = [c \in Collectors |-> Kind(cret[c])]
<1>1. Carried' = Carried
  BY DEF Carried
<1> QED
  BY <1>1

\* A worker settles its items once, and answers nobody.
LEMMA ContractSettles ==
  ASSUME DetachedInv, NEW t \in Tasks, DetachedWorker(t)
  PROVE  Contract!Next
<1>1. UNCHANGED <<out, cret>>
  BY DEF DetachedWorker, collectVars
<1>2. /\ Carried' = Carried
      /\ [c \in Collectors |-> Kind(cret[c])]' = [c \in Collectors |-> Kind(cret[c])]
  BY <1>1, ContractFrame
<1>3. /\ Fates' \in [Items -> {"pending", "ok", "failed"}]
      /\ \A k \in Items : Fates[k] # "pending" => Fates'[k] = Fates[k]
  BY FatesSettle DEF DetachedInv, TypeOK, DetachedWorker
<1>4. Contract!Items = Items
  BY DEF Contract!Items, Items
<1>5. Contract!Settle
  BY <1>2, <1>3, <1>4 DEF Contract!Settle
<1> QED
  BY <1>5 DEF Contract!Next

\* The end of a collection answers that collector alone.
LEMMA ContractAnswered ==
  ASSUME CollectionTypeOK, NEW c \in Collectors, NEW kind \in Answers,
         cret[c] = "none", cret' = [cret EXCEPT ![c] = kind], UNCHANGED out
  PROVE  /\ [d \in Collectors |-> Kind(cret[d])][c] = "none"
         /\ [d \in Collectors |-> Kind(cret[d])]' =
              [[d \in Collectors |-> Kind(cret[d])] EXCEPT ![c] = Kind(kind)]
         /\ Carried' = [Carried EXCEPT ![c] = IF kind \in WithResults THEN out[c] ELSE <<>>]
<1>1. \A d \in Collectors : cret'[d] = IF d = c THEN kind ELSE cret[d]
  BY DEF CollectionTypeOK
<1>2. Kind(cret[c]) = "none"
  BY DEF Kind
<1>3. \A d \in Collectors : Kind(cret'[d]) = IF d = c THEN Kind(kind) ELSE Kind(cret[d])
  BY <1>1
<1>4. Carried' = [Carried EXCEPT ![c] = IF kind \in WithResults THEN out[c] ELSE <<>>]
  BY <1>1 DEF Carried
<1> QED
  BY <1>2, <1>3, <1>4

\* An answer without results is a failure of the contract.
LEMMA ContractFails ==
  ASSUME CollectionTypeOK, NEW c \in Collectors, NEW kind \in {"timeout", "error"},
         cret[c] = "none", cret' = [cret EXCEPT ![c] = kind], UNCHANGED <<out, calls>>
  PROVE  Contract!Next
<1>1. kind \in Answers /\ kind \notin WithResults /\ Kind(kind) = "failure"
  BY DEF Answers, WithResults, Kind
<1>2. /\ [d \in Collectors |-> Kind(cret[d])][c] = "none"
      /\ [d \in Collectors |-> Kind(cret[d])]' =
           [[d \in Collectors |-> Kind(cret[d])] EXCEPT ![c] = "failure"]
      /\ Carried' = [Carried EXCEPT ![c] = <<>>]
  BY <1>1, ContractAnswered
<1>3. Carried' = Carried
  BY <1>2 DEF Carried, WithResults
<1>4. Fates' = Fates
  BY FatesFrame
<1>5. Contract!Fail(c)
  BY <1>2, <1>3, <1>4 DEF Contract!Fail
<1> QED
  BY <1>5 DEF Contract!Next

\* A complete answer is the fate of every item.
LEMMA ContractAnswers ==
  ASSUME DetachedInv, NEW c \in Collectors, Assembled(c), "blank" \notin Faults,
         NEW kind \in {"results", "partial"},
         kind = "results" <=> ~AnyFailed(c),
         cret[c] = "none", cret' = [cret EXCEPT ![c] = kind], UNCHANGED <<out, calls>>
  PROVE  Contract!Next
<1>1. kind \in Answers /\ kind \in WithResults /\ Kind(kind) = kind
  BY DEF Answers, WithResults, Kind
<1>2. /\ [d \in Collectors |-> Kind(cret[d])][c] = "none"
      /\ [d \in Collectors |-> Kind(cret[d])]' =
           [[d \in Collectors |-> Kind(cret[d])] EXCEPT ![c] = kind]
      /\ Carried' = [Carried EXCEPT ![c] = out[c]]
  BY <1>1, ContractAnswered DEF DetachedInv, TypeOK
<1>3. /\ out[c] = [i \in 1..NumItems |->
                     [value |-> IF Fates[i - 1] = "ok" THEN i - 1 ELSE Null,
                      error |-> Fates[i - 1] = "failed"]]
      /\ \A k \in Items : Fates[k] \in {"ok", "failed"}
      /\ AnyFailed(c) <=> \E k \in Items : Fates[k] = "failed"
  BY CompleteAnswer DEF DetachedInv, TypeOK
<1>4. out[c] = Contract!InOrder
  BY <1>3 DEF Contract!InOrder, Contract!EntryOf, Null
<1>5. Fates' = Fates
  BY FatesFrame
<1>6. Contract!Respond(c, kind)
  BY <1>2, <1>4, <1>5 DEF Contract!Respond
<1>7. Contract!Items = Items
  BY DEF Contract!Items, Items
<1>8. CASE kind = "results"
  <2>1. Contract!ReturnResults(c)
    BY <1>3, <1>6, <1>7, <1>8 DEF Contract!ReturnResults
  <2> QED
    BY <2>1 DEF Contract!Next
<1>9. CASE kind = "partial"
  <2>1. Contract!ReturnPartial(c)
    BY <1>3, <1>6, <1>7, <1>9 DEF Contract!ReturnPartial
  <2> QED
    BY <2>1 DEF Contract!Next
<1> QED
  BY <1>8, <1>9

\* What a collector does between its first step and its answer.
LEMMA CollectingSteps ==
  ASSUME CollectionTypeOK, NEW c \in Collectors, CollectorInv(c), Collect(c)
  PROVE  /\ UNCHANGED calls /\ cret[c] = "none"
         /\ \/ cret' = cret /\ \A d \in Collectors : d # c => out'[d] = out[d]
            \/ /\ UNCHANGED out
               /\ \E kind \in {"timeout", "error"} : cret' = [cret EXCEPT ![c] = kind]
            \/ /\ UNCHANGED out /\ Assembled(c)
               /\ \E kind \in {"results", "partial"} :
                    /\ cret' = [cret EXCEPT ![c] = kind]
                    /\ kind = "results" <=> ~AnyFailed(c)
<1> USE DEF Collect, Collecting, workerVars
<1>0. cret[c] # "none" <=> cpc[c] = "returned"
  BY DEF CollectorInv, PollInv
<1>1. CASE BeginCollect(c) \/ BeginAssemble(c)
  BY <1>0, <1>1 DEF BeginCollect, BeginAssemble, AssembleStart, At, To
<1>2. CASE PollTick(c) \/ PollExpired(c) \/ CountStatus(c) \/ PassEnd(c)
  BY <1>0, <1>2 DEF PollTick, PollExpired, StartPass, CountStatus, PassEnd, At, To
<1>3. CASE TimeoutEnd(c)
  BY <1>0, <1>3 DEF TimeoutEnd, At, Answer
<1>4. CASE DownloadSpawn(c)
  BY <1>0, <1>4 DEF DownloadSpawn, At
<1>5. CASE \E t \in Tasks : DownloadOne(c, t)
  BY <1>0, <1>5 DEF DownloadOne, At
<1>6. CASE DownloadJoin(c)
  BY <1>0, <1>6 DEF DownloadJoin, At, To, Answer
<1>7. CASE AssembleOne(c)
  BY <1>0, <1>7 DEF AssembleOne, At, CollectionTypeOK
<1>8. CASE AssembleStrict(c)
  <2>1. Assembled(c)
    BY <1>8, Positions
      DEF AssembleStrict, At, CollectorInv, DownloadInv, OutInv, Assembled
  <2> QED
    BY <1>0, <1>8, <2>1 DEF AssembleStrict, At, Answer
<1> QED
  BY <1>1, <1>2, <1>3, <1>4, <1>5, <1>6, <1>7, <1>8 DEF CollectRun

\* Every step of the detached session is one of the contract, or none.
LEMMA ContractNext ==
  ASSUME DetachedInv, [Next]_vars, "blank" \notin Faults
  PROVE  Contract!Next \/ UNCHANGED Contract!vars
<1>1. ASSUME UNCHANGED <<calls, cret>>,
             \A c \in Collectors : cret[c] \in WithResults => out'[c] = out[c]
      PROVE  UNCHANGED Contract!vars
  BY <1>1, FatesFrame, ContractFrame DEF Contract!vars
<1>2. ASSUME NEW c \in Collectors, Collect(c)
      PROVE  Contract!Next \/ UNCHANGED Contract!vars
  <2>1. CollectionTypeOK /\ CollectorInv(c)
    BY DEF DetachedInv, TypeOK
  <2>2. UNCHANGED calls /\ cret[c] = "none"
    BY <1>2, <2>1, CollectingSteps
  <2>3. CASE cret' = cret /\ \A d \in Collectors : d # c => out'[d] = out[d]
    BY <1>1, <2>2, <2>3 DEF WithResults
  <2>4. CASE UNCHANGED out /\ \E kind \in {"timeout", "error"} : cret' = [cret EXCEPT ![c] = kind]
    BY <2>1, <2>2, <2>4, ContractFails
  <2>5. CASE /\ UNCHANGED out /\ Assembled(c)
             /\ \E kind \in {"results", "partial"} :
                  cret' = [cret EXCEPT ![c] = kind] /\ (kind = "results" <=> ~AnyFailed(c))
    BY <2>2, <2>5, ContractAnswers
  <2> QED
    BY <1>2, <2>1, <2>3, <2>4, <2>5, CollectingSteps
<1>3. ASSUME NEW t \in Tasks, DetachedWorker(t) PROVE Contract!Next
  BY <1>3, ContractSettles
<1>4. CASE Submit
  <2>1. UNCHANGED <<calls, cret, out>>
    BY <1>4 DEF Submit, Submitting, collectVars, workerVars, WriteManifest, CheckImage,
       UploadSpawn, UploadOne, UploadJoin, LookupNetwork, RegisterTaskDefinition, RunTask,
       WaveLaunched, WaveTick, WaveExpired, WaveScan, WaveScanEnd, LaunchFinished, MarkManifest
  <2> QED
    BY <1>1, <2>1
<1>5. CASE Cleanup
  <2>1. UNCHANGED <<calls, cret, out>>
    BY <1>5 DEF Cleanup, BeginCleanup, CheckStatus, ListFiles, DeleteFiles, collectVars, workerVars
  <2> QED
    BY <1>1, <2>1
<1>6. CASE ExpireSubmit \/ (\E c \in Collectors : ExpireCollect(c)) \/ UNCHANGED vars
  <2>1. UNCHANGED <<calls, cret, out>>
    BY <1>6 DEF ExpireSubmit, ExpireCollect, vars, collectVars, workerVars
  <2> QED
    BY <1>1, <2>1
<1> QED
  BY <1>2, <1>3, <1>4, <1>5, <1>6 DEF Next

\* A detached session implements the contract for all its collectors at once:
\* each item settles once, each collector is answered once, and with results
\* only when they are the outcomes of all items, in order; cleanups that delete
\* the files meanwhile can only make it fail.
THEOREM DetachedImplementsContract ==
  ASSUME "blank" \notin Faults
  PROVE  Spec => ContractSpec
<1>1. DetachedInv /\ [Next]_vars => [Contract!Next]_(Contract!vars)
  BY ContractNext
<1> QED
  BY <1>1, ContractInit, DetachedInvariant, PTL DEF Spec, ContractSpec, Contract!Spec
-----------------------------------------------------------------------------
(* The cleanup of a session at rest.                                       *)

\* Submit has answered only when it has returned, and a cleanup only when it
\* is over.
AnswersInv ==
  /\ sret # "none" => spc = "returned"
  /\ dpc # "over" => dret = "none"

\* Once a session at rest is to be listed: what exists is still listed, until
\* nothing is left or the cleanup has failed.
RestingInv ==
  /\ AtRest /\ "kept" \notin Faults
  /\ dpc \in {"list", "delete", "over"}
  /\ dpc = "delete" => \A f \in Files : Exists(f) => f \in listed
  /\ dpc = "over" /\ dret = "ok" => \A f \in Files : ~Exists(f)

LEMMA AnswersNext ==
  ASSUME AnswersInv, [Next]_vars
  PROVE  AnswersInv'
<1> USE DEF AnswersInv
<1>1. CASE Submit
  BY <1>1 DEF Submit, Submitting, deleteVars, WriteManifest, CheckImage, UploadSpawn, UploadOne,
     UploadJoin, LookupNetwork, RegisterTaskDefinition, RunTask, WaveLaunched, WaveTick,
     WaveExpired, WaveScan, WaveScanEnd, LaunchFinished, MarkManifest, SubmitGoto, SubmitReturn
<1>2. CASE Cleanup
  BY <1>2 DEF Cleanup, BeginCleanup, CheckStatus, ListFiles, DeleteFiles, submitVars
<1>3. CASE ~Submit /\ ~Cleanup
  BY <1>3 DEF Next, ExpireSubmit, Collect, Collecting, ExpireCollect, DetachedWorker, vars,
     submitVars, deleteVars
<1> QED
  BY <1>1, <1>2, <1>3

\* Nobody but the cleanup touches the files of a session at rest.
LEMMA RestingFrame ==
  ASSUME AnswersInv, AtRest, [Next]_vars, ~Cleanup
  PROVE  UNCHANGED <<storeVars, manifest, wpc, sret, deleteVars>>
<1>1. spc = "returned" /\ \A t \in Tasks : wpc[t] \in {"idle", "exited"}
  BY DEF AnswersInv, AtRest
<1>2. ~Submit
  BY <1>1 DEF Submit, WriteManifest, CheckImage, UploadSpawn, UploadOne, UploadJoin,
     LookupNetwork, RegisterTaskDefinition, RunTask, WaveLaunched, WaveTick, WaveExpired,
     WaveScan, WaveScanEnd, LaunchFinished, MarkManifest
<1>3. ASSUME NEW t \in Tasks PROVE ~DetachedWorker(t)
  BY <1>1 DEF DetachedWorker, WorkerRun, WorkerCrash, WorkerStart, WorkerFetch, WorkerCall,
     WorkerPutResult, WorkerPutStatus, WorkerReportError, WorkerReportFailed
<1>4. CASE ExpireSubmit \/ (\E c \in Collectors : ExpireCollect(c)) \/ UNCHANGED vars
  BY <1>4 DEF ExpireSubmit, ExpireCollect, vars, workerVars, submitVars
<1>5. ASSUME NEW c \in Collectors, Collect(c)
      PROVE  UNCHANGED <<storeVars, manifest, wpc, sret, deleteVars>>
  BY <1>5 DEF Collect, Collecting, BeginCollect, BeginAssemble, AssembleStart, CollectRun,
     StartPass, PollTick, PollExpired, CountStatus, PassEnd, TimeoutEnd, DownloadSpawn,
     DownloadOne, DownloadJoin, AssembleOne, AssembleStrict, AssembleTolerant, submitVars,
     workerVars
<1> QED
  BY <1>2, <1>3, <1>4, <1>5 DEF Next

\* What a DeleteObjects removes is gone, and nothing else appears.
LEMMA Removing ==
  ASSUME NEW files \in SUBSET Files, Remove(files), NEW f \in Files, Exists(f)'
  PROVE  Exists(f) /\ f \notin files
<1>1. f = ManifestFile \/ \E t \in Tasks, kind \in Kinds : f = <<t, kind>>
  BY DEF Files
<1>2. CASE f = ManifestFile
  BY <1>2 DEF Remove, Exists, ManifestFile, Tasks
<1>3. ASSUME NEW t \in Tasks, NEW kind \in Kinds, f = <<t, kind>> PROVE Exists(f) /\ f \notin files
  <2>1. f # ManifestFile /\ f[1] = t /\ f[2] = kind
    BY <1>3, TaskFacts DEF ManifestFile, Tasks
  <2> QED
    BY <1>3, <2>1 DEF Remove, Exists, NoFile
<1> QED
  BY <1>1, <1>2, <1>3

LEMMA RestingNext ==
  ASSUME TypeOK, AnswersInv, RestingInv, [Next]_vars
  PROVE  RestingInv'
<1>1. CASE ~Cleanup
  <2>1. UNCHANGED <<storeVars, manifest, wpc, sret, deleteVars>>
    BY <1>1, RestingFrame DEF RestingInv
  <2> QED
    BY <2>1 DEF RestingInv, AtRest, Exists, storeVars, deleteVars
<1>2. CASE ListFiles
  <2>1. AtRest'
    BY <1>2 DEF ListFiles, RestingInv, AtRest, workerVars, submitVars
  <2>2. \A f \in Files : Exists(f)' <=> Exists(f)
    BY <1>2 DEF ListFiles, Exists, workerVars, storeVars, submitVars
  <2>3. \/ /\ listed' = {f \in Files : Exists(f)}
           /\ dpc' = IF listed' = {} THEN "over" ELSE "delete"
        \/ dpc' = "over" /\ dret' = "error"
    BY <1>2 DEF ListFiles
  <2> QED
    BY <2>1, <2>2, <2>3 DEF RestingInv
<1>3. CASE DeleteFiles
  <2>1. AtRest' /\ dpc = "delete"
    BY <1>3 DEF DeleteFiles, RestingInv, AtRest
  <2>2. PICK kept \in SUBSET Batch :
          /\ Remove(Batch \ kept) /\ listed' = listed \ Batch
          /\ \/ /\ kept # {} => "kept" \in Faults
                /\ dpc' = IF listed' = {} THEN "over" ELSE "delete"
             \/ dpc' = "over" /\ dret' = "error"
    BY <1>3 DEF DeleteFiles
  <2>3. CASE dpc' = "over" /\ dret' = "error"
    BY <2>1, <2>3 DEF RestingInv
  <2>4. CASE kept = {} /\ dpc' = IF listed' = {} THEN "over" ELSE "delete"
    <3>1. ASSUME NEW f \in Files, Exists(f)' PROVE f \in listed'
      <4>1. (Batch \ kept) \in SUBSET Files
        BY DEF Batch, TypeOK
      <4>2. Exists(f) /\ f \notin Batch \ kept
        BY <2>2, <3>1, <4>1, Removing
      <4> QED
        BY <2>1, <2>2, <2>4, <4>2 DEF RestingInv
    <3> QED
      BY <2>1, <2>4, <3>1 DEF RestingInv
  <2> QED
    BY <2>2, <2>3, <2>4 DEF RestingInv
<1>4. CASE BeginCleanup \/ CheckStatus
  BY <1>4 DEF BeginCleanup, CheckStatus, RestingInv
<1> QED
  BY <1>1, <1>2, <1>3, <1>4 DEF Cleanup

\* A cleanup that lists a session at rest and reports success leaves no file
\* of it, and none appears afterwards, when S3 deletes what it is asked to.
THEOREM RestingCleanupAlwaysComplete == Spec => RestingCleanupComplete
<1> DEFINE Begins == dpc = "list" /\ AtRest /\ "kept" \notin Faults
           Ends == dret = "ok" => \A f \in Files : ~Exists(f)
<1>1. Init => AnswersInv
  BY DEF Init, SubmissionInit, AnswersInv
<1>2. AnswersInv /\ [Next]_vars => AnswersInv'
  BY AnswersNext
<1>3. AnswersInv /\ Begins => RestingInv
  BY DEF AnswersInv, RestingInv
<1>4. TypeOK /\ AnswersInv /\ RestingInv /\ [Next]_vars => RestingInv'
  BY RestingNext
<1>5. AnswersInv /\ RestingInv => Ends
  BY DEF AnswersInv, RestingInv
<1>6. RestingCleanupComplete <=> [](Begins => []Ends)
  BY PTL DEF RestingCleanupComplete
<1> HIDE DEF Begins, Ends
<1> QED
  BY <1>1, <1>2, <1>3, <1>4, <1>5, <1>6, DetachedTypes, PTL DEF Spec
-----------------------------------------------------------------------------
(* When nothing fails but calls of fn and nobody cleans up.                *)

HealthyInv ==
  /\ dpc = "idle" /\ ~sctx /\ ~serr /\ sret \in {"none", "launched"}
  /\ spc = "returned" => sret = "launched"
  /\ \A c \in Collectors : Unhurt(c)
  /\ \A t \in Tasks : Reported(t)

LEMMA HealthyInit == Init => HealthyInv
<1> SUFFICES ASSUME Init PROVE HealthyInv
  OBVIOUS
<1>1. dpc = "idle" /\ ~sctx /\ ~serr /\ sret = "none" /\ spc = "manifest"
  BY DEF Init, SubmissionInit
<1>2. \A c \in Collectors : Unhurt(c)
  BY DEF Init, CollectionInit, Unhurt
<1>3. \A t \in Tasks : Reported(t)
  BY DEF Init, WorkerInit, Reported
<1> QED
  BY <1>1, <1>2, <1>3 DEF HealthyInv

\* The steps of Submit: nothing stops it before it has launched all.
LEMMA HealthySubmit ==
  ASSUME Healthy, DetachedInv, HealthyInv, Submit
  PROVE  HealthyInv'
<1> USE DEF SubmitGoto, SubmitReturn, RequestFails, uploadVars, launchVars, workerVars, storeVars
<1>0. Faults \cap {"s3", "aws", "image", "code"} = {} /\ ~sctx /\ ~serr
      /\ sret \in {"none", "launched"}
  BY DEF Healthy, HealthyInv
<1>1. \A r \in SubmitPuts : r.ok
  BY <1>0 DEF SubmitPuts, PutOutcomes
<1>2. ~sctx' /\ ~serr' /\ sret' \in {"none", "launched"}
      /\ (spc' = "returned" => sret' = "launched")
  <2>1. CASE WriteManifest("manifest", "image", "initializing")
    BY <1>0, <1>1, <2>1 DEF WriteManifest
  <2>2. CASE CheckImage("image", "upload")
    BY <1>0, <2>2 DEF CheckImage
  <2>3. CASE UploadSpawn
    BY <1>0, <2>3 DEF UploadSpawn
  <2>4. ASSUME NEW t \in Tasks, UploadOne(t)
        PROVE  /\ ~sctx' /\ ~serr' /\ sret' \in {"none", "launched"}
               /\ spc' = "returned" => sret' = "launched"
    BY <1>0, <1>1, <2>4 DEF UploadOne
  <2>5. CASE UploadJoin("vpc")
    BY <1>0, <2>5 DEF UploadJoin
  <2>6. CASE LookupNetwork("register")
    BY <1>0, <2>6 DEF LookupNetwork
  <2>7. CASE RegisterTaskDefinition
    BY <1>0, <2>7 DEF RegisterTaskDefinition
  <2>8. CASE RunTask
    BY <1>0, <2>8 DEF RunTask
  <2>9. CASE WaveLaunched \/ WaveTick \/ WaveExpired
    BY <1>0, <2>9 DEF WaveLaunched, WaveTick, WaveExpired
  <2>10. CASE WaveScan \/ WaveScanEnd
    BY <1>0, <2>10 DEF WaveScan, WaveScanEnd
  <2>11. CASE LaunchFinished /\ SubmitGoto("mark")
    BY <1>0, <2>11 DEF LaunchFinished
  <2>12. CASE MarkManifest("mark", "running") /\ SubmitReturn("launched")
    BY <1>0, <2>12 DEF MarkManifest
  <2> QED
    BY <2>1, <2>2, <2>3, <2>4, <2>5, <2>6, <2>7, <2>8, <2>9, <2>10, <2>11, <2>12 DEF Submit
<1>3. UNCHANGED <<cctx, derr, cpc, cret, dpc>>
  BY DEF Submit, Submitting, collectVars, downloadVars, deleteVars
<1>4. status' = status /\ \A t \in Tasks : wpc'[t] \in {wpc[t], "launched"}
  <2>1. CASE RunTask
    BY <2>1 DEF RunTask, Goto, DetachedInv, TypeOK, WorkerTypeOK
  <2>2. CASE ~RunTask
    BY <2>2 DEF Submit, WriteManifest, CheckImage, UploadSpawn, UploadOne, UploadJoin,
       LookupNetwork, RegisterTaskDefinition, WaveLaunched, WaveTick, WaveExpired, WaveScan,
       WaveScanEnd, LaunchFinished, MarkManifest
  <2> QED
    BY <2>1, <2>2
<1>5. \A c \in Collectors : Unhurt(c)'
  BY <1>3 DEF HealthyInv, Unhurt
<1>6. \A t \in Tasks : Reported(t)'
  BY <1>4 DEF HealthyInv, Reported
<1>7. dpc' = "idle"
  BY <1>3 DEF HealthyInv
<1> QED
  BY <1>2, <1>5, <1>6, <1>7 DEF HealthyInv

\* A collector finds every result that it downloads.
LEMMA HealthyCollect ==
  ASSUME Healthy, DetachedInv, CollectableInv, HealthyInv, NEW c \in Collectors, Collect(c)
  PROVE  HealthyInv'
<1>0. TypeOK /\ WorkerTypeOK /\ CollectionTypeOK
  BY DEF DetachedInv, TypeOK
<1>1. Unhurt(c)'
  <2>1. CASE BeginCollect(c)
    <3>1. UNCHANGED <<cctx, derr, cret>> /\ cpc'[c] = "poll"
      BY <1>0, <2>1 DEF BeginCollect, To, downloadVars, CollectionTypeOK
    <3> QED
      BY <3>1 DEF HealthyInv, Unhurt
  <2>2. CASE BeginAssemble(c) \/ CollectRun(c)
    <3>1. ASSUME cpc[c] = "download", NEW t \in Tasks PROVE result[t] # NoFile
      <4>1. wpc[t] = "exited" /\ Undeleted
        BY <3>1 DEF DetachedInv, CollectorInv, DownloadInv, HealthyInv, Undeleted
      <4>2. status[t] \in {"done", "partial"} /\ ResultFirst(t)
        BY <4>1 DEF HealthyInv, Reported, CollectableInv
      <4> QED
        BY <4>2 DEF ResultFirst
    <3>2. CollectorStep(c) /\ Unhurt(c)
      BY <2>2 DEF BeginAssemble, CollectorStep, HealthyInv
    <3> QED
      BY <1>0, <3>1, <3>2, UnhurtStays
  <2> QED
    BY <2>1, <2>2 DEF Collect
<1>2. /\ UNCHANGED workerVars
      /\ \A d \in Collectors : d # c =>
           /\ cctx'[d] = cctx[d] /\ derr'[d] = derr[d]
           /\ cpc'[d] = cpc[d] /\ cret'[d] = cret[d]
  <2>1. CASE BeginCollect(c)
    BY <1>0, <2>1 DEF BeginCollect, To, downloadVars, CollectionTypeOK
  <2>2. CASE BeginAssemble(c) \/ CollectRun(c)
    <3>1. UNCHANGED workerVars /\ \A d \in Collectors : d # c => Untouched(d)
      BY <1>0, <2>2, CollectorAlone DEF BeginAssemble, CollectorStep
    <3>2. cctx' = cctx
      BY <2>2 DEF BeginAssemble, AssembleStart, CollectRun, PollTick, PollExpired, StartPass,
         CountStatus, PassEnd, TimeoutEnd, DownloadSpawn, DownloadOne, DownloadJoin,
         AssembleOne, AssembleStrict
    <3> QED
      BY <3>1, <3>2 DEF Untouched
  <2> QED
    BY <2>1, <2>2 DEF Collect
<1>3. UNCHANGED <<dpc, sctx, serr, sret, spc>>
  BY DEF Collect, Collecting, submitVars, uploadVars, deleteVars
<1>4. \A d \in Collectors : Unhurt(d)'
  BY <1>1, <1>2 DEF HealthyInv, Unhurt
<1>5. \A t \in Tasks : Reported(t)'
  BY <1>2 DEF workerVars, storeVars, HealthyInv, Reported
<1> QED
  BY <1>3, <1>4, <1>5 DEF HealthyInv

LEMMA HealthyNext ==
  ASSUME Healthy, Cleaners = {}, DetachedInv, CollectableInv, HealthyInv, [Next]_vars
  PROVE  HealthyInv'
<1>1. ASSUME NEW t \in Tasks, DetachedWorker(t) PROVE HealthyInv'
  <2>1. WorkerTypeOK /\ (WorkerRun(t) \/ WorkerCrash(t)) /\ wpc[t] \notin {"idle", "exited"}
    BY <1>1, WorkerFrame DEF DetachedWorker, DetachedInv, TypeOK
  <2>2. StoredInv
    BY DEF CollectableInv, HealthyInv, Undeleted
  <2>3. spc \in {"run", "wait", "waitScan", "mark"} \/ sret = "launched"
    <3>1. spc = "returned" => sret = "launched"
      BY DEF HealthyInv
    <3>2. spc # "returned" => t < run
      BY <2>1 DEF DetachedInv, WaveInv
    <3>3. spc \in {"manifest", "image", "upload", "vpc", "register"} => run = 0
      BY DEF CollectableInv, HandoverInv
    <3>4. ~(t < 0)
      BY TaskFacts DEF Tasks
    <3>5. spc \in {"image", "manifest", "upload", "vpc", "mark", "register", "run",
                   "wait", "waitScan", "returned"}
      BY DEF DetachedInv, TypeOK, SubmissionTypeOK
    <3> QED
      BY <3>1, <3>2, <3>3, <3>4, <3>5
  <2>4. task[t]
    BY <2>2, <2>3 DEF StoredInv
  <2>5. \A u \in Tasks : Reported(u)'
    BY <2>1, <2>4, WorkerReports DEF HealthyInv
  <2>6. UNCHANGED <<dpc, sctx, serr, sret, spc, cctx, derr, cpc, cret>>
    BY <1>1 DEF DetachedWorker, submitVars, uploadVars, collectVars, downloadVars, deleteVars
  <2> QED
    BY <2>5, <2>6 DEF HealthyInv, Unhurt
<1>2. CASE UNCHANGED vars
  <2>1. UNCHANGED <<dpc, sctx, serr, sret, spc, cctx, derr, cpc, cret, status, wpc>>
    BY <1>2 DEF vars, workerVars, storeVars, submitVars, uploadVars, collectVars, downloadVars,
       deleteVars
  <2> QED
    BY <2>1 DEF HealthyInv, Unhurt, Reported
<1>3. ~ExpireSubmit /\ ~\E c \in Collectors : ExpireCollect(c)
  BY DEF Healthy, ExpireSubmit, ExpireCollect
<1>4. ~Cleanup
  BY DEF Cleanup, BeginCleanup, CheckStatus, ListFiles, DeleteFiles, HealthyInv
<1> QED
  BY <1>1, <1>2, <1>3, <1>4, HealthySubmit, HealthyCollect DEF Next

\* When nothing fails but calls of fn and nobody cleans up, Submit hands the
\* session over and no collector is answered with an error, a timeout or a
\* missing result, however many collect it and however early they begin.
THEOREM HealthySessionAlwaysAnswers == Spec => []HealthySessionNeverFails
<1>1. CASE Healthy /\ Cleaners = {}
  <2>1. HealthyInv => HealthySessionNeverFails
    BY DEF HealthyInv, Unhurt, HealthySessionNeverFails, Kind, WithResults
  <2>2. Init => HealthyInv
    BY HealthyInit
  <2>3. DetachedInv /\ CollectableInv /\ HealthyInv /\ [Next]_vars => HealthyInv'
    BY <1>1, HealthyNext
  <2>4. DetachedInv /\ CollectableInv /\ [Next]_vars => CollectableInv'
    BY CollectableNext
  <2> QED
    BY <2>1, <2>2, <2>3, <2>4, CollectableInit, DetachedInvariant, PTL DEF Spec
<1>2. CASE ~(Healthy /\ Cleaners = {})
  <2>1. HealthySessionNeverFails
    BY <1>2 DEF HealthySessionNeverFails
  <2> QED
    BY <2>1, PTL
<1> QED
  BY <1>1, <1>2
=============================================================================
