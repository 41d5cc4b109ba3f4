----------------------------- MODULE Collection -----------------------------
(***************************************************************************)
(* How a caller waits for a session and takes its results: pollResults,    *)
(* countTaskStatuses, downloadResults and assembleResults.  A collector is *)
(* a caller of Map, or of Collect on a detached session; every collector   *)
(* has its own context and works only from the status and result objects.  *)
(***************************************************************************)
EXTENDS Worker

CONSTANTS
  Collectors,      \* the callers that collect the session
  DownloadLimit    \* downloads in flight (20 in the code)

ASSUME CollectionAssumption == DownloadLimit \in Nat \ {0}

VARIABLES
  cpc,       \* cpc[c]: where collector c is
  cctx,      \* cctx[c]: its context is done
  cursor,    \* cursor[c]: next status to read, or next payload to flatten
  done,      \* done[c]: "done" statuses counted in this pass
  bad,       \* bad[c]: "failed" and "partial" statuses counted in this pass
  dnext,     \* dnext[c]: next task to hand to a download goroutine
  fetching,  \* fetching[c]: tasks whose download goroutine holds the semaphore
  derr,      \* derr[c]: a download error is in errCh
  payload,   \* payload[c][t]: the decoded result of task t, NoFile before
  out,       \* out[c]: the flattened results so far
  cret       \* cret[c]: "none", or how the collection returned

pollVars     == <<cursor, done, bad>>
downloadVars == <<dnext, fetching, derr, payload>>
collectVars  == <<cpc, cctx, pollVars, downloadVars, out, cret>>

Answers == {"results", "tolerant", "partial", "timeout", "error"}

CollectionTypeOK ==
  /\ cpc \in [Collectors -> {"idle", "poll", "scan", "expired", "download",
                             "downloaded", "assemble", "returned"}]
  /\ cctx \in [Collectors -> BOOLEAN]
  /\ cursor \in [Collectors -> 0..NumTasks]
  /\ done \in [Collectors -> Nat] /\ bad \in [Collectors -> Nat]
  /\ dnext \in [Collectors -> 0..NumTasks]
  /\ fetching \in [Collectors -> SUBSET Tasks]
  /\ derr \in [Collectors -> BOOLEAN]
  /\ payload \in [Collectors -> [Tasks -> Seq(Entry)]]
  /\ out \in [Collectors -> Seq(Entry)]
  /\ cret \in [Collectors -> {"none"} \cup Answers]

CollectionInit ==
  /\ cpc = [c \in Collectors |-> "idle"]
  /\ cctx = [c \in Collectors |-> FALSE]
  /\ cursor = [c \in Collectors |-> 0]
  /\ done = [c \in Collectors |-> 0] /\ bad = [c \in Collectors |-> 0]
  /\ dnext = [c \in Collectors |-> 0]
  /\ fetching = [c \in Collectors |-> {}]
  /\ derr = [c \in Collectors |-> FALSE]
  /\ payload = [c \in Collectors |-> [t \in Tasks |-> NoFile]]
  /\ out = [c \in Collectors |-> <<>>]
  /\ cret = [c \in Collectors |-> "none"]

At(c, where) == cpc[c] = where
To(c, where) == cpc' = [cpc EXCEPT ![c] = where] /\ cret' = cret
Answer(c, kind) ==
  cpc' = [cpc EXCEPT ![c] = "returned"] /\ cret' = [cret EXCEPT ![c] = kind]

\* A read by c fails: its context is done, or S3 fails the request.
ReadFails(c) == cctx[c] \/ "s3" \in Faults
-----------------------------------------------------------------------------
(* pollResults: each tick, or the end of the context, starts a pass of     *)
(* countTaskStatuses; when both are ready the select takes either.         *)

StartPass(c, pass) ==
  /\ At(c, "poll")
  /\ cursor' = [cursor EXCEPT ![c] = 0]
  /\ done' = [done EXCEPT ![c] = 0]
  /\ bad' = [bad EXCEPT ![c] = 0]
  /\ To(c, pass)
  /\ UNCHANGED <<workerVars, cctx, downloadVars, out>>

PollTick(c) == StartPass(c, "scan")

\* Slip: the end of the context only starts another pass.
PollExpiredKeepsPolling(c) == cctx[c] /\ StartPass(c, "scan")
PollExpired(c) == cctx[c] /\ StartPass(c, "expired")

\* Slip: "partial" is not terminal.
CountStatusDoneOrFailed(c) ==
  /\ cpc[c] \in {"scan", "expired"} /\ cursor[c] < NumTasks
  /\ LET s == status[cursor[c]]
     IN \/ /\ ~cctx[c]
           /\ done' = [done EXCEPT ![c] = IF s = "done" THEN @ + 1 ELSE @]
           /\ bad' = [bad EXCEPT ![c] = IF s = "failed" THEN @ + 1 ELSE @]
        \/ ReadFails(c) /\ UNCHANGED <<done, bad>>
  /\ cursor' = [cursor EXCEPT ![c] = @ + 1]
  /\ UNCHANGED <<workerVars, cpc, cctx, downloadVars, out, cret>>

\* One status of the pass; what cannot be read counts as pending.
CountStatus(c) ==
  /\ cpc[c] \in {"scan", "expired"} /\ cursor[c] < NumTasks
  /\ LET s == status[cursor[c]]
     IN \/ /\ ~cctx[c]
           /\ done' = [done EXCEPT ![c] = IF s = "done" THEN @ + 1 ELSE @]
           /\ bad' = [bad EXCEPT ![c] = IF s \in {"failed", "partial"} THEN @ + 1 ELSE @]
        \/ ReadFails(c) /\ UNCHANGED <<done, bad>>
  /\ cursor' = [cursor EXCEPT ![c] = @ + 1]
  /\ UNCHANGED <<workerVars, cpc, cctx, downloadVars, out, cret>>

\* End of a tick's pass: leave when all are terminal.
PassEnd(c) ==
  /\ At(c, "scan") /\ cursor[c] = NumTasks
  /\ To(c, IF done[c] + bad[c] = NumTasks THEN "download" ELSE "poll")
  /\ UNCHANGED <<workerVars, cctx, cursor, done, bad, downloadVars, out>>

\* End of the pass made for the timeout: BurstTimeoutError with its counts.
TimeoutEnd(c) ==
  /\ At(c, "expired") /\ cursor[c] = NumTasks
  /\ Answer(c, "timeout")
  /\ UNCHANGED <<workerVars, cctx, pollVars, downloadVars, out>>
-----------------------------------------------------------------------------
(* downloadResults: one goroutine per task, DownloadLimit at a time.       *)

DownloadSpawn(c) ==
  /\ At(c, "download")
  /\ dnext[c] < NumTasks /\ Cardinality(fetching[c]) < DownloadLimit
  /\ fetching' = [fetching EXCEPT ![c] = @ \cup {dnext[c]}]
  /\ dnext' = [dnext EXCEPT ![c] = @ + 1]
  /\ UNCHANGED <<workerVars, cpc, cctx, pollVars, derr, payload, out, cret>>

\* Slip: payloads are appended as they arrive.
DownloadOneAppending(c, t) ==
  /\ At(c, "download") /\ t \in fetching[c]
  /\ fetching' = [fetching EXCEPT ![c] = @ \ {t}]
  /\ LET slot == Cardinality({u \in Tasks : payload[c][u] # NoFile})
     IN \/ /\ ~cctx[c] /\ result[t] # NoFile
           /\ payload' = [payload EXCEPT ![c][slot] = result[t]]
           /\ derr' = derr
        \/ /\ ReadFails(c) \/ "type" \in Faults \/ result[t] = NoFile
           /\ derr' = [derr EXCEPT ![c] = TRUE]
           /\ payload' = payload
  /\ UNCHANGED <<workerVars, cpc, cctx, pollVars, dnext, out, cret>>

DownloadOne(c, t) ==
  /\ At(c, "download") /\ t \in fetching[c]
  /\ fetching' = [fetching EXCEPT ![c] = @ \ {t}]
  /\ \/ /\ ~cctx[c] /\ result[t] # NoFile
        /\ payload' = [payload EXCEPT ![c][t] = result[t]]
        /\ derr' = derr
     \/ /\ ReadFails(c) \/ "type" \in Faults \/ result[t] = NoFile
        /\ derr' = [derr EXCEPT ![c] = TRUE]
        /\ payload' = payload
  /\ UNCHANGED <<workerVars, cpc, cctx, pollVars, dnext, out, cret>>

\* Slip: the join does not look into errCh.
DownloadJoinIgnoringErrors(c) ==
  /\ At(c, "download") /\ dnext[c] = NumTasks /\ fetching[c] = {}
  /\ To(c, "downloaded")
  /\ UNCHANGED <<workerVars, cctx, pollVars, downloadVars, out>>

\* wg.Wait, then the first error.
DownloadJoin(c) ==
  /\ At(c, "download") /\ dnext[c] = NumTasks /\ fetching[c] = {}
  /\ IF derr[c] THEN Answer(c, "error") ELSE To(c, "downloaded")
  /\ UNCHANGED <<workerVars, cctx, pollVars, downloadVars, out>>
-----------------------------------------------------------------------------
(* assembleResults and assembleResultsTolerant.                            *)

AssembleStart(c) ==
  /\ At(c, "downloaded")
  /\ cursor' = [cursor EXCEPT ![c] = 0]
  /\ To(c, "assemble")
  /\ UNCHANGED <<workerVars, cctx, done, bad, downloadVars, out>>

\* Flatten the next payload.
AssembleOne(c) ==
  /\ At(c, "assemble") /\ cursor[c] < NumTasks
  /\ out' = [out EXCEPT ![c] = @ \o payload[c][cursor[c]]]
  /\ cursor' = [cursor EXCEPT ![c] = @ + 1]
  /\ UNCHANGED <<workerVars, cpc, cctx, done, bad, downloadVars, cret>>

AnyFailed(c) == \E i \in 1..Len(out[c]) : out[c][i].error

\* BurstPartialError when an item failed; else every result is decoded.
AssembleStrict(c) ==
  /\ At(c, "assemble") /\ cursor[c] = NumTasks
  /\ IF AnyFailed(c) THEN Answer(c, "partial")
     ELSE Answer(c, "results") \/ ("type" \in Faults /\ Answer(c, "error"))
  /\ UNCHANGED <<workerVars, cctx, pollVars, downloadVars, out>>

\* MapTolerant: the failed items' errors are part of the answer.
AssembleTolerant(c) ==
  /\ At(c, "assemble") /\ cursor[c] = NumTasks
  /\ \/ Answer(c, "tolerant")
     \/ "type" \in Faults /\ Answer(c, "error")
  /\ UNCHANGED <<workerVars, cctx, pollVars, downloadVars, out>>

CollectRun(c) ==
  \/ PollTick(c) \/ PollExpired(c) \/ CountStatus(c) \/ PassEnd(c) \/ TimeoutEnd(c)
  \/ DownloadSpawn(c) \/ (\E t \in Tasks : DownloadOne(c, t)) \/ DownloadJoin(c)
  \/ AssembleOne(c) \/ AssembleStrict(c)
-----------------------------------------------------------------------------
(* What AnswerContract sees of the items and of the answers.               *)

Fates ==
  [k \in Items |-> IF ~Called(k) THEN "pending" ELSE IF Succeeded(k) THEN "ok" ELSE "failed"]

WithResults == {"results", "tolerant", "partial"}
Carried == [c \in Collectors |-> IF cret[c] \in WithResults THEN out[c] ELSE <<>>]

\* Every other way to return is a failure to the caller.
Kind(return) == IF return \in {"none"} \cup WithResults THEN return ELSE "failure"
=============================================================================
