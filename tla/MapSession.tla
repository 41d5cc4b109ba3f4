----------------------------- MODULE MapSession -----------------------------
(***************************************************************************)
(* One call of Map or MapTolerant, from the image check to the answer,     *)
(* with the workers it launches and the goroutine that deletes the task    *)
(* files behind its back.  The two functions differ only in how they       *)
(* assemble the answer.                                                    *)
(***************************************************************************)
EXTENDS Submission, Collection

CONSTANTS
  Caller,        \* the one collector: the caller of Map itself
  CleanupBatch   \* tasks whose files one DeleteObjects names (250 in the code)

ASSUME MapAssumption ==
  Collectors = {Caller} /\ CleanupBatch \in Nat \ {0} /\ WaveWidth = NumTasks

VARIABLES
  cleanup,   \* cleanupTaskFiles: "none", "running" or "over"
  cnext      \* first task of its next batch

cleanupVars == <<cleanup, cnext>>
vars == <<workerVars, submitVars, collectVars, cleanupVars>>

TypeOK ==
  /\ WorkerTypeOK /\ SubmissionTypeOK /\ CollectionTypeOK
  /\ cleanup \in {"none", "running", "over"} /\ cnext \in Nat

Init ==
  /\ WorkerInit /\ SubmissionInit("image") /\ CollectionInit
  /\ cleanup = "none" /\ cnext = 0

Submitting == UNCHANGED <<collectVars, cleanupVars>>
Collecting == UNCHANGED <<submitVars, cleanupVars>>

MapSubmit ==
  /\ \/ CheckImage("image", "manifest")
     \/ WriteManifest("manifest", "upload", "initializing")
     \/ UploadSpawn
     \/ \E t \in Tasks : UploadOne(t)
     \/ UploadJoin("vpc")
     \/ LookupNetwork("mark")
     \/ MarkManifest("mark", "running") /\ SubmitGoto("register")
     \/ RegisterTaskDefinition
     \/ RunTask
  /\ Submitting

\* launchWorkers has returned: pollResults starts.
BeginPoll ==
  /\ LaunchFinished
  /\ SubmitReturn("launched")
  /\ cpc' = [cpc EXCEPT ![Caller] = "poll"]
  /\ UNCHANGED <<cctx, pollVars, downloadVars, out, cret, cleanupVars>>

MapPoll ==
  /\ \/ PollTick(Caller) \/ PollExpired(Caller)
     \/ CountStatus(Caller) \/ PassEnd(Caller) \/ TimeoutEnd(Caller)
  /\ Collecting

MapDownload ==
  /\ \/ DownloadSpawn(Caller)
     \/ \E t \in Tasks : DownloadOne(Caller, t)
     \/ DownloadJoin(Caller)
  /\ Collecting

\* Slip: the cleanup starts as soon as every task is terminal.
MarkCompleteEarly ==
  /\ cpc[Caller] \in {"download", "downloaded"} /\ cleanup = "none"
  /\ \E r \in SubmitPuts : manifest' = IF r.stored THEN "complete" ELSE manifest
  /\ cleanup' = "running" /\ cnext' = 0
  /\ IF At(Caller, "downloaded")
       THEN cursor' = [cursor EXCEPT ![Caller] = 0] /\ To(Caller, "assemble")
       ELSE UNCHANGED <<cursor, cpc, cret>>
  /\ UNCHANGED <<workerVars, cctx, done, bad, downloadVars, out,
                 taskdef, spc, sctx, uploadVars, launchVars, sret>>

\* Every result is in memory: write the final manifest, its error ignored,
\* and start the goroutines that delete the files and the task definition.
MarkComplete ==
  /\ AssembleStart(Caller)
  /\ \E r \in SubmitPuts : manifest' = IF r.stored THEN "complete" ELSE manifest
  /\ cleanup' = "running" /\ cnext' = 0
  /\ UNCHANGED <<taskdef, spc, sctx, uploadVars, launchVars, sret>>

MapAssemble ==
  /\ AssembleOne(Caller) \/ AssembleStrict(Caller) \/ AssembleTolerant(Caller)
  /\ Collecting

Kinds == {"task", "status", "result", "error"}

\* Slip: the batch loop skips a task between two batches.
CleanupStepSkipping ==
  /\ cleanup = "running" /\ cnext < NumTasks
  /\ LET Kept(t) == t < cnext \/ t >= cnext + CleanupBatch
     IN /\ task' = [t \in Tasks |-> task[t] /\ Kept(t)]
        /\ status' = [t \in Tasks |-> IF Kept(t) THEN status[t] ELSE "none"]
        /\ result' = [t \in Tasks |-> IF Kept(t) THEN result[t] ELSE NoFile]
        /\ errfile' = [t \in Tasks |-> errfile[t] /\ Kept(t)]
  /\ cnext' = cnext + CleanupBatch + 1
  /\ UNCHANGED <<cleanup, wpc, calls, submitVars, collectVars>>

\* One DeleteObjects of cleanupTaskFiles.  Its error and the keys S3 reports
\* as not deleted (kept) are ignored.
CleanupStep ==
  /\ cleanup = "running" /\ cnext < NumTasks
  /\ LET batch == {t \in Tasks : cnext <= t /\ t < cnext + CleanupBatch}
         Deleted(kept, t, kind) == t \in batch /\ <<t, kind>> \notin kept
     IN \E kept \in SUBSET (batch \X Kinds) :
          /\ kept # {} => "s3" \in Faults
          /\ task' = [t \in Tasks |-> task[t] /\ ~Deleted(kept, t, "task")]
          /\ status' = [t \in Tasks |->
                          IF Deleted(kept, t, "status") THEN "none" ELSE status[t]]
          /\ result' = [t \in Tasks |->
                          IF Deleted(kept, t, "result") THEN NoFile ELSE result[t]]
          /\ errfile' = [t \in Tasks |-> errfile[t] /\ ~Deleted(kept, t, "error")]
  /\ cnext' = cnext + CleanupBatch
  /\ UNCHANGED <<cleanup, wpc, calls, submitVars, collectVars>>

CleanupEnd ==
  /\ cleanup = "running" /\ cnext >= NumTasks
  /\ cleanup' = "over"
  /\ UNCHANGED <<cnext, workerVars, submitVars, collectVars>>

\* DeregisterAllRevisions in its own goroutine; its error is ignored.
Deregister ==
  /\ cleanup # "none" /\ taskdef = "active"
  /\ taskdef' = "inactive"
  /\ UNCHANGED <<workerVars, manifest, spc, sctx, uploadVars, launchVars, sret,
                 collectVars, cleanupVars>>

MapWorker(t) ==
  /\ WorkerRun(t) \/ WorkerCrash(t)
  /\ UNCHANGED <<submitVars, collectVars, cleanupVars>>

\* How the call returned, "none" while it has not.
MapAnswer == IF sret \in {"none", "launched"} THEN cret[Caller] ELSE sret

\* The caller's context is cancelled or reaches its deadline.
Expire ==
  /\ "deadline" \in Faults /\ ~sctx /\ MapAnswer = "none"
  /\ sctx' = TRUE
  /\ cctx' = [cctx EXCEPT ![Caller] = TRUE]
  /\ UNCHANGED <<workerVars, manifest, taskdef, spc, uploadVars, launchVars, sret,
                 cpc, pollVars, downloadVars, out, cret, cleanupVars>>

Next ==
  \/ MapSubmit \/ BeginPoll \/ MapPoll \/ MapDownload \/ MarkComplete \/ MapAssemble
  \/ CleanupStep \/ CleanupEnd \/ Deregister
  \/ \E t \in Tasks : MapWorker(t)
  \/ Expire

Spec == Init /\ [][Next]_vars

\* The goroutine that runs Map is scheduled, and so is each worker.  Nothing
\* makes fn fail, a container crash or the process outlive Map's return.
MapStep == MapSubmit \/ BeginPoll \/ MapPoll \/ MapDownload \/ MarkComplete \/ MapAssemble
Fairness ==
  /\ WF_vars(MapStep)
  /\ \A t \in Tasks : WF_vars(MapWorker(t))
FairSpec == Spec /\ Fairness

\* A caller that passes a context with a deadline: the deadline comes, and a
\* select that finds the context done tick after tick takes that branch, since
\* Go chooses among the ready cases at random.
TakeExpiry == PollExpired(Caller) /\ Collecting
DeadlineSpec == FairSpec /\ WF_vars(Expire) /\ SF_vars(TakeExpiry)
-----------------------------------------------------------------------------
\* While the files have not been deleted, a task whose status says done or
\* partial has its complete result stored, and the status tells whether an
\* item failed: runWorker uploads the result first and stops when it cannot.
StatusImpliesResult ==
  cleanup = "none" =>
    \A t \in Tasks : status[t] \in {"done", "partial"} =>
      /\ calls[t] # <<>>
      /\ result[t] = Payload(t, calls[t])
      /\ status[t] = "done" <=> AllSucceeded(t)

\* No container is started before every task file of the session is stored:
\* uploadTasks waits for all its goroutines and Map stops at an error.
TasksStoredBeforeLaunch ==
  cleanup = "none" =>
    \A t \in Tasks : wpc[t] # "idle" => \A u \in Tasks : task[u]

\* An answer with results has one entry per item, in the order of the items,
\* each carrying that item's own outcome; Map's plain results have no failure.
AnswerFaithful ==
  cret[Caller] \in {"results", "tolerant", "partial"} =>
    /\ Len(out[Caller]) = NumItems
    /\ \A k \in Items :
         /\ Called(k)
         /\ out[Caller][k + 1] =
              [value |-> IF Succeeded(k) THEN k ELSE Null, error |-> ~Succeeded(k)]
    /\ cret[Caller] = "results" => \A k \in Items : Succeeded(k)

\* The files are deleted only once every result is in memory and no worker
\* is left that could write one again.
CleanupAfterCapture ==
  cleanup # "none" =>
    \A t \in Tasks : /\ wpc[t] = "exited"
                     /\ calls[t] # <<>> /\ payload[Caller][t] = Payload(t, calls[t])

\* When S3 deletes what it is asked to, nothing of the tasks is left after
\* the cleanup, and nothing appears later.
CleanupLeavesNothing ==
  cleanup = "over" /\ "s3" \notin Faults =>
    \A t \in Tasks : /\ ~task[t] /\ ~errfile[t]
                      /\ status[t] = "none" /\ result[t] = NoFile

\* A timeout leaves a session that another caller can attach to and collect:
\* its manifest and task files are stored and every task has been launched.
TimeoutReattachable ==
  cret[Caller] = "timeout" =>
    /\ manifest \in {"initializing", "running"} /\ cleanup = "none"
    /\ \A t \in Tasks : task[t] /\ wpc[t] # "idle"

\* What Map's comment promises of a task that fails: when every task has
\* reported how it ended, and one failed, the answer is BurstPartialError (for
\* MapTolerant, the results with that task's errors).
FailedTaskGivesPartialError ==
  MapAnswer # "none" /\ (\A t \in Tasks : status[t] \in Terminal)
    /\ (\E t \in Tasks : status[t] = "failed")
  => MapAnswer \in {"partial", "tolerant"}

\* Map returns.
MapReturns == <>(MapAnswer # "none")

\* When nothing fails but calls of fn, it never answers with a failure of its
\* own: no failed item is taken for a lost task, and no result that a status
\* promises is missing when it is downloaded.
HealthyMapNeverFails == Healthy => Kind(MapAnswer) # "failure"

\* And it does return, with results: no failed item keeps a task from being
\* counted.
HealthyMapReturnsResults == Healthy => <>(MapAnswer \in WithResults)

\* The promise of AnswerContract: the fates are what fn did, the answer is Map's.
Contract ==
  INSTANCE AnswerContract WITH
    Callers <- Collectors, fate <- Fates, values <- Carried,
    answer <- [c \in Collectors |-> Kind(MapAnswer)]

\* Map implements its contract, under every fault.
ContractSpec == Contract!Spec
=============================================================================
