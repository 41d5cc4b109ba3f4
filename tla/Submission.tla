----------------------------- MODULE Submission -----------------------------
(***************************************************************************)
(* The steps that Map and Submit share to put a session in the cloud: the  *)
(* image check, the manifest, the concurrent upload of the task files, the *)
(* network lookup, and launchWorkers with its waves.  Each of the two      *)
(* callers orders them its own way (modules MapSession, DetachedSession),  *)
(* so a step takes the program points it leads from and to.                *)
(***************************************************************************)
EXTENDS Worker

CONSTANTS
  MaxConcurrent,  \* uploads or downloads in flight (20 in the code)
  WaveWidth       \* tasks per wave, what WaveSize returns

ASSUME SubmissionAssumption ==
  MaxConcurrent \in Nat \ {0} /\ WaveWidth \in 1..NumTasks

VARIABLES
  manifest,   \* status in manifest.json, "none" without the object
  taskdef,    \* the session's ECS task definition: "none", "active", "inactive"
  spc,        \* where the submitting goroutine is
  sctx,       \* its context is done
  snext,      \* next task to hand to an upload goroutine
  uploading,  \* tasks whose upload goroutine holds the semaphore
  serr,       \* an upload error is in errCh
  wave,       \* first task of the current wave (launched)
  run,        \* next task to pass to RunTask
  wcursor,    \* next status waitForTasks reads
  wall,       \* allDone of waitForTasks
  sret        \* "none", or how the submission returned

submitVars ==
  <<manifest, taskdef, spc, sctx, snext, uploading, serr, wave, run, wcursor, wall, sret>>

WaveEnd == IF wave + WaveWidth > NumTasks THEN NumTasks ELSE wave + WaveWidth

SubmissionTypeOK ==
  /\ manifest \in {"none", "initializing", "running", "complete"}
  /\ taskdef \in {"none", "active", "inactive"}
  /\ spc \in {"image", "manifest", "upload", "vpc", "mark", "register", "run",
              "wait", "waitScan", "returned"}
  /\ sctx \in BOOLEAN /\ serr \in BOOLEAN /\ wall \in BOOLEAN
  /\ snext \in 0..NumTasks
  /\ uploading \subseteq Tasks
  /\ wave \in Nat /\ run \in 0..NumTasks /\ wcursor \in 0..NumTasks
  /\ sret \in {"none", "launched", "setupError", "contextError", "error"}

SubmissionInit(from) ==
  /\ manifest = "none" /\ taskdef = "none"
  /\ spc = from /\ sctx = FALSE
  /\ snext = 0 /\ uploading = {} /\ serr = FALSE
  /\ wave = 0 /\ run = 0 /\ wcursor = 0 /\ wall = FALSE
  /\ sret = "none"

\* Return from the submission with outcome kind.
SubmitReturn(kind) == spc' = "returned" /\ sret' = kind
SubmitGoto(to) == spc' = to /\ sret' = sret

\* A request other than S3's fails, its context being done or not.
RequestFails == sctx \/ "aws" \in Faults

\* The outcomes of a PutObject under this context.
SubmitPuts == IF sctx THEN [ok : {FALSE}, stored : BOOLEAN] ELSE PutOutcomes

launchVars == <<wave, run, wcursor, wall>>
uploadVars == <<snext, uploading, serr>>

\* ECRClient.ImageExists: there, missing (BurstSetupError), or a failed request.
CheckImage(from, to) ==
  /\ spc = from
  /\ \/ ~sctx /\ SubmitGoto(to)
     \/ ~sctx /\ "image" \in Faults /\ SubmitReturn("setupError")
     \/ RequestFails /\ SubmitReturn("error")
  /\ UNCHANGED <<workerVars, manifest, taskdef, sctx, uploadVars, launchVars>>

\* WriteManifest with its error returned.
WriteManifest(from, to, value) ==
  /\ spc = from
  /\ \E r \in SubmitPuts :
       /\ manifest' = IF r.stored THEN value ELSE manifest
       /\ IF r.ok THEN SubmitGoto(to) ELSE SubmitReturn("error")
  /\ UNCHANGED <<workerVars, taskdef, sctx, uploadVars, launchVars>>

\* WriteManifest with its error ignored.
MarkManifest(from, value) ==
  /\ spc = from
  /\ \E r \in SubmitPuts : manifest' = IF r.stored THEN value ELSE manifest
  /\ UNCHANGED <<workerVars, taskdef, sctx, uploadVars, launchVars>>
-----------------------------------------------------------------------------
(* uploadTasks: one goroutine per task, MaxConcurrent at a time.           *)

UploadSpawn ==
  /\ spc = "upload"
  /\ snext < NumTasks /\ Cardinality(uploading) < MaxConcurrent
  /\ uploading' = uploading \cup {snext}
  /\ snext' = snext + 1
  /\ UNCHANGED <<workerVars, manifest, taskdef, spc, sctx, serr, launchVars, sret>>

\* SerializeTask, then the put; validateSerializable has only tried item 0.
UploadOne(t) ==
  /\ spc = "upload" /\ t \in uploading
  /\ uploading' = uploading \ {t}
  /\ \/ \E r \in SubmitPuts :
          /\ task' = Stored(task, t, TRUE, r)
          /\ serr' = (serr \/ ~r.ok)
     \/ "code" \in Faults /\ serr' = TRUE /\ task' = task
  /\ UNCHANGED <<status, result, errfile, wpc, calls,
                 manifest, taskdef, spc, sctx, snext, launchVars, sret>>

\* Slip: the join does not look into errCh.
UploadJoinIgnoringErrors(to) ==
  /\ spc = "upload" /\ snext = NumTasks /\ uploading = {}
  /\ SubmitGoto(to)
  /\ UNCHANGED <<workerVars, manifest, taskdef, sctx, uploadVars, launchVars>>

\* wg.Wait, then the first error.
UploadJoin(to) ==
  /\ spc = "upload" /\ snext = NumTasks /\ uploading = {}
  /\ IF serr THEN SubmitReturn("error") ELSE SubmitGoto(to)
  /\ UNCHANGED <<workerVars, manifest, taskdef, sctx, uploadVars, launchVars>>
-----------------------------------------------------------------------------
\* Default VPC subnets and security group.
LookupNetwork(to) ==
  /\ spc = "vpc"
  /\ \/ ~sctx /\ SubmitGoto(to)
     \/ RequestFails /\ SubmitReturn("error")
  /\ UNCHANGED <<workerVars, manifest, taskdef, sctx, uploadVars, launchVars>>

(* launchWorkers                                                           *)

\* A registration that fails may have been carried out.
RegisterTaskDefinition ==
  /\ spc = "register"
  /\ \/ ~sctx /\ taskdef' = "active" /\ SubmitGoto("run")
     \/ RequestFails /\ taskdef' \in {taskdef, "active"} /\ SubmitReturn("error")
  /\ UNCHANGED <<workerVars, manifest, sctx, uploadVars, launchVars>>

\* Slip: a failed RunTask is logged and the loop goes on.
RunTaskIgnoringFailure ==
  /\ spc = "run" /\ run < WaveEnd
  /\ \/ ~sctx /\ Goto(run, "launched")
     \/ RequestFails /\ wpc' \in {wpc, [wpc EXCEPT ![run] = "launched"]}
  /\ run' = run + 1 /\ SubmitGoto("run")
  /\ UNCHANGED <<storeVars, calls, manifest, taskdef, sctx, uploadVars,
                 wave, wcursor, wall>>

\* Slip: the loop runs to i <= end.
RunTaskInclusive ==
  /\ spc = "run" /\ run <= WaveEnd
  /\ ~sctx /\ Goto(run, "launched") /\ run' = run + 1 /\ SubmitGoto("run")
  /\ UNCHANGED <<storeVars, calls, manifest, taskdef, sctx, uploadVars,
                 wave, wcursor, wall>>

\* A RunTask that fails may have launched the task.
RunTask ==
  /\ spc = "run" /\ run < WaveEnd
  /\ \/ ~sctx /\ Goto(run, "launched") /\ run' = run + 1 /\ SubmitGoto("run")
     \/ /\ RequestFails
        /\ wpc' \in {wpc, [wpc EXCEPT ![run] = "launched"]}
        /\ run' = run /\ SubmitReturn("error")
  /\ UNCHANGED <<storeVars, calls, manifest, taskdef, sctx, uploadVars,
                 wave, wcursor, wall>>

\* The end of a wave that is not the last: wait for it.
WaveLaunched ==
  /\ spc = "run" /\ run = WaveEnd /\ WaveEnd < NumTasks
  /\ SubmitGoto("wait")
  /\ UNCHANGED <<workerVars, manifest, taskdef, sctx, uploadVars, launchVars>>

\* The end of the last wave: launchWorkers returns.
LaunchFinished ==
  /\ spc = "run" /\ run = WaveEnd /\ WaveEnd = NumTasks
  /\ UNCHANGED <<workerVars, manifest, taskdef, sctx, uploadVars, launchVars>>

\* waitForTasks: a tick, or the context (its bare error is returned).
WaveTick ==
  /\ spc = "wait"
  /\ wcursor' = wave /\ wall' = TRUE
  /\ SubmitGoto("waitScan")
  /\ UNCHANGED <<workerVars, manifest, taskdef, sctx, uploadVars, wave, run>>

WaveExpired ==
  /\ spc = "wait" /\ sctx
  /\ SubmitReturn("contextError")
  /\ UNCHANGED <<workerVars, manifest, taskdef, sctx, uploadVars, launchVars>>

\* Slip: only "done" ends the wait for a task.
WaveScanDoneOnly ==
  /\ spc = "waitScan" /\ wcursor < WaveEnd
  /\ \/ ~sctx /\ wall' = (wall /\ status[wcursor] = "done")
     \/ (sctx \/ "s3" \in Faults) /\ wall' = FALSE
  /\ wcursor' = wcursor + 1
  /\ SubmitGoto("waitScan")
  /\ UNCHANGED <<workerVars, manifest, taskdef, sctx, uploadVars, wave, run>>

\* One status of the pass; what cannot be read is not terminal.
WaveScan ==
  /\ spc = "waitScan" /\ wcursor < WaveEnd
  /\ \/ ~sctx /\ wall' = (wall /\ status[wcursor] \in Terminal)
     \/ (sctx \/ "s3" \in Faults) /\ wall' = FALSE
  /\ wcursor' = wcursor + 1
  /\ SubmitGoto("waitScan")
  /\ UNCHANGED <<workerVars, manifest, taskdef, sctx, uploadVars, wave, run>>

\* Slip: the wait ends after one pass, whatever was read.
WaveScanEndOnce ==
  /\ spc = "waitScan" /\ wcursor = WaveEnd
  /\ SubmitGoto("run") /\ wave' = WaveEnd
  /\ UNCHANGED <<workerVars, manifest, taskdef, sctx, uploadVars, run, wcursor, wall>>

\* All of the wave seen terminal in one pass: the next wave; else tick again.
WaveScanEnd ==
  /\ spc = "waitScan" /\ wcursor = WaveEnd
  /\ IF wall THEN SubmitGoto("run") /\ wave' = WaveEnd
             ELSE SubmitGoto("wait") /\ wave' = wave
  /\ UNCHANGED <<workerVars, manifest, taskdef, sctx, uploadVars, run, wcursor, wall>>
=============================================================================
