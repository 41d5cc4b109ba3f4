------------------------------- MODULE Worker -------------------------------
(***************************************************************************)
(* One session's objects in S3, and the workers of the session: each ECS   *)
(* task runs RunWorker once, talks to nobody but S3, and is never started  *)
(* again.  The modules that submit and collect a session extend this one.  *)
(***************************************************************************)
EXTENDS Sizing, Sequences, FiniteSets

CONSTANTS
  NumItems,    \* items of the job
  NumWorkers,  \* the worker count given to chunkItems
  Faults       \* the kinds of failure that may happen, a subset of FaultKinds

FaultKinds ==
  {"s3",        \* an S3 request fails, a failed put having been applied or not
   "kept",      \* DeleteObjects succeeds and reports keys that S3 did not delete
   "aws",       \* an ECS, ECR or EC2 request fails
   "image",     \* the worker image is not in ECR
   "deadline",  \* a caller's context expires or is cancelled
   "fn",        \* the user's function returns an error for an item
   "blank",     \* the user's function returns an error whose text is empty
   "code",      \* data or function that cannot be encoded, decoded or found
   "type",      \* a result does not decode into the type the caller asks for
   "crash"}     \* a worker's container stops: panic, lack of memory, Spot reclaim

ASSUME SizeAssumption ==
  NumItems \in Nat \ {0} /\ NumWorkers \in Nat \ {0} /\ Faults \subseteq FaultKinds

NumTasks == ChunkCount(NumItems, NumWorkers)
Tasks == 0..(NumTasks - 1)

\* Chunk t holds the Width(t) items First(t), First(t) + 1, ...
First(t) == ChunkLo(NumItems, NumTasks, t)
Width(t) == ChunkHi(NumItems, NumTasks, t) - First(t)

\* One position of a result file: the value computed for an item (written as
\* the item it was computed from) or null, and whether the error is non-empty.
Null == -1
Entry == [value : Nat \cup {Null}, error : BOOLEAN]
NoFile == <<>>

\* How one call of fn ends: a value, an error, or an error with no text.
Endings == {"ok", "error", "blank"}

\* What SerializeResult writes for chunk t when its i-th call ended as end[i].
Payload(t, end) ==
  [i \in 1..Width(t) |-> [value |-> IF end[i] = "ok" THEN First(t) + i - 1 ELSE Null,
                          error |-> end[i] = "error"]]

VARIABLES
  task,      \* task[t]: the .task object is stored
  status,    \* status[t]: content of the .status object, "none" without one
  result,    \* result[t]: content of the .result object, NoFile without one
  errfile,   \* errfile[t]: the .error object is stored
  wpc,       \* wpc[t]: where the worker of task t is
  calls      \* calls[t]: how fn ended on each item, <<>> before the calls

storeVars  == <<task, status, result, errfile>>
workerVars == <<storeVars, wpc, calls>>

\* anyFailed of runWorker stayed false.
AllSucceeded(t) == \A i \in 1..Width(t) : calls[t][i] = "ok"

Terminal == {"done", "failed", "partial"}

WorkerTypeOK ==
  /\ task \in [Tasks -> BOOLEAN]
  /\ status \in [Tasks -> {"none", "running"} \cup Terminal]
  /\ result \in [Tasks -> Seq(Entry)]
  /\ errfile \in [Tasks -> BOOLEAN]
  /\ wpc \in [Tasks -> {"idle", "launched", "fetch", "call", "putResult",
                        "putStatus", "reportError", "reportFailed", "exited"}]
  /\ calls \in [Tasks -> Seq(Endings)]

WorkerInit ==
  /\ task = [t \in Tasks |-> FALSE]
  /\ status = [t \in Tasks |-> "none"]
  /\ result = [t \in Tasks |-> NoFile]
  /\ errfile = [t \in Tasks |-> FALSE]
  /\ wpc = [t \in Tasks |-> "idle"]
  /\ calls = [t \in Tasks |-> <<>>]

\* The possible outcomes of one PutObject: the caller is told ok or an error,
\* and after an error the object may have been stored all the same.
PutOutcomes ==
  {r \in [ok : BOOLEAN, stored : BOOLEAN] :
     IF r.ok THEN r.stored ELSE "s3" \in Faults}

\* File f with v put at t, under outcome r.
Stored(f, t, v, r) == IF r.stored THEN [f EXCEPT ![t] = v] ELSE f

Goto(t, where) == wpc' = [wpc EXCEPT ![t] = where]
-----------------------------------------------------------------------------
(* runWorker.  The environment variables are always set by launchWorkers.  *)

\* Signal running; a failed put ends the worker.
WorkerStart(t) ==
  /\ wpc[t] = "launched"
  /\ \E r \in PutOutcomes :
       /\ status' = Stored(status, t, "running", r)
       /\ Goto(t, IF r.ok THEN "fetch" ELSE "exited")
  /\ UNCHANGED <<task, result, errfile, calls>>

\* Find the function, download and decode the task file.
WorkerFetch(t) ==
  /\ wpc[t] = "fetch"
  /\ \/ task[t] /\ Goto(t, "call")
     \/ ~task[t] /\ Goto(t, "reportError")
     \/ Faults \cap {"s3", "code"} # {} /\ Goto(t, "reportError")
  /\ UNCHANGED <<storeVars, calls>>

\* Call fn on every item, going on after an error, and encode the results.
WorkerCall(t) ==
  /\ wpc[t] = "call"
  /\ \E end \in [1..Width(t) -> Endings] :
       /\ \A i \in 1..Width(t) : /\ end[i] = "error" => "fn" \in Faults
                                 /\ end[i] = "blank" => "blank" \in Faults
       /\ calls' = [calls EXCEPT ![t] = end]
  /\ \/ Goto(t, "putResult")
     \/ "code" \in Faults /\ Goto(t, "reportError")
  /\ UNCHANGED storeVars

\* Slip: the error of the result upload is ignored, like those of the error
\* and "failed" uploads are.
WorkerPutResultIgnoringError(t) ==
  /\ wpc[t] = "putResult"
  /\ \E r \in PutOutcomes : result' = Stored(result, t, Payload(t, calls[t]), r)
  /\ Goto(t, "putStatus")
  /\ UNCHANGED <<task, status, errfile, calls>>

\* Slip: results keep their place but the errors are dropped from the file.
WorkerPutResultWithoutErrors(t) ==
  /\ wpc[t] = "putResult"
  /\ \E r \in PutOutcomes :
       /\ result' = Stored(result, t, Payload(t, [i \in 1..Width(t) |-> "ok"]), r)
       /\ Goto(t, IF r.ok THEN "putStatus" ELSE "exited")
  /\ UNCHANGED <<task, status, errfile, calls>>

\* Upload the result; a failed put ends the worker with no terminal status.
WorkerPutResult(t) ==
  /\ wpc[t] = "putResult"
  /\ \E r \in PutOutcomes :
       /\ result' = Stored(result, t, Payload(t, calls[t]), r)
       /\ Goto(t, IF r.ok THEN "putStatus" ELSE "exited")
  /\ UNCHANGED <<task, status, errfile, calls>>

\* Upload the terminal status and return, whatever the put's outcome.
WorkerPutStatus(t) ==
  /\ wpc[t] = "putStatus"
  /\ \E r \in PutOutcomes :
       status' = Stored(status, t, IF AllSucceeded(t) THEN "done" ELSE "partial", r)
  /\ Goto(t, "exited")
  /\ UNCHANGED <<task, result, errfile, calls>>

\* The error branches: the error text, then the "failed" status, both put
\* with their errors ignored.
WorkerReportError(t) ==
  /\ wpc[t] = "reportError"
  /\ \E r \in PutOutcomes : errfile' = Stored(errfile, t, TRUE, r)
  /\ Goto(t, "reportFailed")
  /\ UNCHANGED <<task, status, result, calls>>

WorkerReportFailed(t) ==
  /\ wpc[t] = "reportFailed"
  /\ \E r \in PutOutcomes : status' = Stored(status, t, "failed", r)
  /\ Goto(t, "exited")
  /\ UNCHANGED <<task, result, errfile, calls>>

\* The container stops anywhere before the worker returns: ECS does not run
\* the task again.
WorkerCrash(t) ==
  /\ "crash" \in Faults
  /\ wpc[t] \notin {"idle", "exited"}
  /\ Goto(t, "exited")
  /\ UNCHANGED <<storeVars, calls>>

WorkerRun(t) ==
  \/ WorkerStart(t) \/ WorkerFetch(t) \/ WorkerCall(t)
  \/ WorkerPutResult(t) \/ WorkerPutStatus(t)
  \/ WorkerReportError(t) \/ WorkerReportFailed(t)
-----------------------------------------------------------------------------
(* What the properties say of the items.                                   *)

Items == 0..(NumItems - 1)

\* Item k is in chunk TaskOf[k]; fn was called on it, and succeeded.
TaskOf == [k \in Items |-> CHOOSE t \in Tasks : First(t) <= k /\ k < First(t) + Width(t)]
Called(k) == calls[TaskOf[k]] # <<>>
Succeeded(k) == calls[TaskOf[k]][k - First(TaskOf[k]) + 1] = "ok"

\* What a worker has written for its task it never writes differently: fn is
\* not called again on a chunk, and a result, or a status that says how the task
\* ended, changes only when somebody deletes it.  So a pass that reads the files
\* one by one, at different moments, reads one and the same outcome.
WrittenOnce ==
  [][\A t \in Tasks :
       /\ calls[t] # <<>> => calls'[t] = calls[t]
       /\ result[t] # NoFile => result'[t] \in {result[t], NoFile}
       /\ status[t] \in Terminal => status'[t] \in {status[t], "none"}
    ]_<<calls, result, status>>

\* Nothing fails but calls of fn.
Healthy == Faults \subseteq {"fn", "blank"}
=============================================================================
