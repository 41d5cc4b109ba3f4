--------------------------- MODULE DetachedSession ---------------------------
(***************************************************************************)
(* A detached session: Submit, which waits between waves when the quota is *)
(* smaller than the job, the callers that collect its results, from the    *)
(* handle that submitted it or through Attach, and the cleanup that        *)
(* anybody may run at any moment, from a handle or from the command line.  *)
(***************************************************************************)
EXTENDS Submission, Collection

CONSTANTS
  Owner,        \* the collector that uses the handle given to Submit
  Cleaners,     \* the cleanups that may be run, a subset of CleanerKinds
  DeleteBatch   \* tasks whose files one DeleteObjects names

CleanerKinds ==
  {"handle",   \* DetachedSession.Cleanup, which asks nothing
   "command",  \* burst-core session cleanup
   "force"}    \* burst-core session cleanup --force

ASSUME DetachedAssumption ==
  Cleaners \subseteq CleanerKinds /\ DeleteBatch \in Nat \ {0}

VARIABLES
  dpc,      \* where the cleanup is: "idle", "check", "list", "delete" or "over"
  dkind,    \* the kind of cleanup that runs
  listed,   \* the files ListObjects returned and that are still to be deleted
  dret      \* "none", or how the cleanup returned

deleteVars == <<dpc, dkind, listed, dret>>
vars == <<workerVars, submitVars, collectVars, deleteVars>>

\* The objects under sessions/{id}/: the manifest and each task's files.
Kinds == {"task", "status", "result", "error"}
ManifestFile == <<-1, "manifest">>
Files == {ManifestFile} \cup (Tasks \X Kinds)

Exists(f) ==
  \/ f = ManifestFile /\ manifest # "none"
  \/ f[2] = "task" /\ task[f[1]]
  \/ f[2] = "status" /\ status[f[1]] # "none"
  \/ f[2] = "result" /\ result[f[1]] # NoFile
  \/ f[2] = "error" /\ errfile[f[1]]

TypeOK ==
  /\ WorkerTypeOK /\ SubmissionTypeOK /\ CollectionTypeOK
  /\ dpc \in {"idle", "check", "list", "delete", "over"}
  /\ dkind \in {"none"} \cup CleanerKinds
  /\ listed \subseteq Files
  /\ dret \in {"none", "ok", "refused", "error"}

Init ==
  /\ WorkerInit /\ SubmissionInit("manifest") /\ CollectionInit
  /\ dpc = "idle" /\ dkind = "none" /\ listed = {} /\ dret = "none"

Submitting == UNCHANGED <<collectVars, deleteVars>>
Collecting == UNCHANGED <<submitVars, deleteVars>>
-----------------------------------------------------------------------------
(* Submit                                                                  *)

Submit ==
  /\ \/ WriteManifest("manifest", "image", "initializing")
     \/ CheckImage("image", "upload")
     \/ UploadSpawn
     \/ \E t \in Tasks : UploadOne(t)
     \/ UploadJoin("vpc")
     \/ LookupNetwork("register")
     \/ RegisterTaskDefinition
     \/ RunTask
     \/ WaveLaunched \/ WaveTick \/ WaveExpired \/ WaveScan \/ WaveScanEnd
     \/ LaunchFinished /\ SubmitGoto("mark")
     \/ MarkManifest("mark", "running") /\ SubmitReturn("launched")
  /\ Submitting

ExpireSubmit ==
  /\ "deadline" \in Faults /\ ~sctx /\ sret = "none"
  /\ sctx' = TRUE
  /\ UNCHANGED <<workerVars, manifest, taskdef, spc, uploadVars, launchVars, sret,
                 collectVars, deleteVars>>
-----------------------------------------------------------------------------
(* Attach and Collect                                                      *)

\* Collect on the submitting handle, or on one from Attach, which needs the
\* manifest.  A failed Attach leaves no trace and may be tried again.
BeginCollect(c) ==
  /\ At(c, "idle")
  /\ IF c = Owner THEN spc = "returned" ELSE manifest # "none"
  /\ To(c, "poll")
  /\ UNCHANGED <<workerVars, cctx, pollVars, downloadVars, out>>

\* Collect assembles as soon as downloadResults returns.
BeginAssemble(c) == AssembleStart(c)

Collect(c) ==
  /\ BeginCollect(c) \/ BeginAssemble(c) \/ CollectRun(c)
  /\ Collecting

ExpireCollect(c) ==
  /\ "deadline" \in Faults /\ ~cctx[c] /\ ~At(c, "returned")
  /\ cctx' = [cctx EXCEPT ![c] = TRUE]
  /\ UNCHANGED <<workerVars, submitVars, cpc, pollVars, downloadVars, out, cret, deleteVars>>
-----------------------------------------------------------------------------
(* Cleanup                                                                 *)

BeginCleanup ==
  /\ dpc = "idle"
  /\ \E k \in Cleaners :
       /\ dkind' = k
       /\ dpc' = IF k = "command" THEN "check" ELSE "list"
  /\ UNCHANGED <<workerVars, submitVars, collectVars, listed, dret>>

\* Without --force: refuse a manifest that says running.  One that cannot be
\* read refuses nothing.
CheckStatus ==
  /\ dpc = "check"
  /\ \/ manifest = "running" /\ dpc' = "over" /\ dret' = "refused"
     \/ (manifest # "running" \/ "s3" \in Faults) /\ dpc' = "list" /\ dret' = dret
  /\ UNCHANGED <<workerVars, submitVars, collectVars, dkind, listed>>

\* DeleteSession: list the prefix.
ListFiles ==
  /\ dpc = "list"
  /\ \/ /\ listed' = {f \in Files : Exists(f)}
        /\ dpc' = IF listed' = {} THEN "over" ELSE "delete"
        /\ dret' = IF listed' = {} THEN "ok" ELSE dret
     \/ "s3" \in Faults /\ dpc' = "over" /\ dret' = "error" /\ listed' = listed
  /\ UNCHANGED <<workerVars, submitVars, collectVars, dkind>>

\* The files of the next batch: keys are listed in order, the manifest first.
Batch ==
  LET first == CHOOSE t \in {f[1] : f \in listed} : \A f \in listed : t <= f[1]
  IN  {f \in listed : f[1] < first + DeleteBatch}

Remove(files) ==
  LET Gone(t, kind) == <<t, kind>> \in files
  IN  /\ manifest' = IF ManifestFile \in files THEN "none" ELSE manifest
      /\ task' = [t \in Tasks |-> task[t] /\ ~Gone(t, "task")]
      /\ status' = [t \in Tasks |-> IF Gone(t, "status") THEN "none" ELSE status[t]]
      /\ result' = [t \in Tasks |-> IF Gone(t, "result") THEN NoFile ELSE result[t]]
      /\ errfile' = [t \in Tasks |-> errfile[t] /\ ~Gone(t, "error")]

\* Slip: the batches overlap the wrong way and one task is passed over.
DeleteFilesSkipping ==
  /\ dpc = "delete"
  /\ Remove(Batch)
  /\ listed' = {f \in listed \ Batch : \E g \in Batch : f[1] > g[1] + DeleteBatch}
  /\ dpc' = IF listed' = {} THEN "over" ELSE "delete"
  /\ dret' = IF listed' = {} THEN "ok" ELSE dret
  /\ UNCHANGED <<dkind, wpc, calls, taskdef, spc, sctx, uploadVars, launchVars, sret,
                 collectVars>>

\* One DeleteObjects.  The keys that S3 reports as not deleted are ignored; a
\* request that fails ends the cleanup, some of its keys deleted or none.
DeleteFiles ==
  /\ dpc = "delete"
  /\ \E kept \in SUBSET Batch :
       /\ Remove(Batch \ kept)
       /\ listed' = listed \ Batch
       /\ \/ /\ kept # {} => "kept" \in Faults
             /\ dpc' = IF listed' = {} THEN "over" ELSE "delete"
             /\ dret' = IF listed' = {} THEN "ok" ELSE dret
          \/ "s3" \in Faults /\ dpc' = "over" /\ dret' = "error"
  /\ UNCHANGED <<dkind, wpc, calls, taskdef, spc, sctx, uploadVars, launchVars, sret,
                 collectVars>>

Cleanup == BeginCleanup \/ CheckStatus \/ ListFiles \/ DeleteFiles
-----------------------------------------------------------------------------
DetachedWorker(t) ==
  /\ WorkerRun(t) \/ WorkerCrash(t)
  /\ UNCHANGED <<submitVars, collectVars, deleteVars>>

Next ==
  \/ Submit \/ ExpireSubmit
  \/ \E c \in Collectors : Collect(c) \/ ExpireCollect(c)
  \/ Cleanup
  \/ \E t \in Tasks : DetachedWorker(t)

Spec == Init /\ [][Next]_vars

\* The goroutines of Submit and of every Collect are scheduled, and so are the
\* workers that are launched.  Nothing makes anybody collect or clean up, nor a
\* context end; a select that finds the context done tick after tick takes that
\* branch in the end, since Go chooses among the ready cases at random.
Running(c) == ~At(c, "idle") /\ Collect(c)
Fairness ==
  /\ WF_vars(Submit)
  /\ SF_vars(WaveExpired /\ Submitting)
  /\ \A c \in Collectors : WF_vars(Running(c)) /\ SF_vars(PollExpired(c) /\ Collecting)
  /\ \A t \in Tasks : WF_vars(DetachedWorker(t))
FairSpec == Spec /\ Fairness
-----------------------------------------------------------------------------
\* Never more containers at once than the wave size that the quota allows.  A
\* wave starts when every status of the last one was read as terminal, and a
\* worker that has written one does nothing more.
WithinQuota == Cardinality({t \in Tasks : wpc[t] \notin {"idle", "exited"}}) <= WaveWidth

\* The waves are in order: a task is started only after all the tasks of the
\* earlier waves have ended, even while the session is being deleted.
WavesInOrder ==
  \A t, u \in Tasks :
    u \div WaveWidth < t \div WaveWidth /\ wpc[t] # "idle" => wpc[u] = "exited"

\* Collect never answers with results that are not the items' own outcomes, in
\* order, whoever else collects and whoever deletes the files meanwhile.
CollectFaithful ==
  \A c \in Collectors : cret[c] \in {"results", "partial"} =>
    /\ Len(out[c]) = NumItems
    /\ \A k \in Items :
         /\ Called(k)
         /\ out[c][k + 1] =
              [value |-> IF Succeeded(k) THEN k ELSE Null, error |-> ~Succeeded(k)]
    /\ cret[c] = "results" <=> \A k \in Items : Succeeded(k)

\* All who collect the session and are answered with results are given the same
\* ones, even where an error without text is taken for a success.
CollectorsAgree ==
  \A c, d \in Collectors :
    {cret[c], cret[d]} \subseteq {"results", "partial"} => cret[c] = cret[d] /\ out[c] = out[d]

\* The promise of AnswerContract, to all that collect the session at once.
Contract ==
  INSTANCE AnswerContract WITH
    Callers <- Collectors, fate <- Fates, values <- Carried,
    answer <- [c \in Collectors |-> Kind(cret[c])]

\* Whoever collects, and whoever deletes the files meanwhile, fn is called at
\* most once per item and every collector is answered once, with every item's
\* own outcome or with no results at all.
ContractSpec == Contract!Spec

\* A session that Submit has handed over can be collected by anybody, until a
\* cleanup deletes of it: its manifest is there to attach to, its task files are
\* stored, every task has been started, and a task that says it has results
\* has all of them stored, and says whether an item failed.
Undeleted == dpc \in {"idle", "check", "list"} \/ dret = "refused"
SubmittedCollectable ==
  Undeleted =>
    /\ sret = "launched" =>
         /\ manifest \in {"initializing", "running"}
         /\ \A t \in Tasks : task[t] /\ wpc[t] # "idle"
    /\ \A t \in Tasks : status[t] \in {"done", "partial"} =>
         /\ calls[t] # <<>> /\ result[t] = Payload(t, calls[t])
         /\ status[t] = "done" <=> AllSucceeded(t)

\* When nothing fails but calls of fn and nobody cleans up, no call fails: Submit
\* hands the session over, and every Collect answers with results, whoever
\* collects at the same time and however early.
HealthySessionNeverFails ==
  Healthy /\ Cleaners = {} =>
    /\ sret \in {"none", "launched"}
    /\ \A c \in Collectors : Kind(cret[c]) # "failure"

\* Submit returns: the wait between two waves ends because every worker of a
\* wave reports how it ended.
SubmitReturns == <>(sret # "none")

\* A collector that has started gets its answer once Submit has launched all.
CollectReturns ==
  \A c \in Collectors : (~At(c, "idle") /\ sret = "launched") ~> At(c, "returned")

\* Cleanup is complete on a session that is at rest: listed when Submit has
\* returned and no worker runs, it leaves no file, and none appears later.
AtRest == sret # "none" /\ \A t \in Tasks : wpc[t] \in {"idle", "exited"}
RestingCleanupComplete ==
  [](dpc = "list" /\ AtRest /\ "kept" \notin Faults =>
       [](dret = "ok" => \A f \in Files : ~Exists(f)))
=============================================================================
