-------------------------- MODULE Collection_proofs --------------------------
(***************************************************************************)
(* Lemmas about the workers of a session, the places of the items and one  *)
(* collector, for any number of items, workers and collectors and every set*)
(* of faults.  The proofs about Map and about detached sessions, which run *)
(* the same workers and the same collection, rest on them.                 *)
(***************************************************************************)
EXTENDS Collection, TLAPS

(* Arithmetic of the division by the number of chunks.                     *)

\* Integer division, as the code uses it: the quotient times the divisor is
\* the dividend but for a remainder smaller than the divisor.
LEMMA Division ==
  ASSUME NEW a \in Nat, NEW d \in Nat, d > 0
  PROVE  /\ a \div d \in Nat
         /\ d * (a \div d) <= a
         /\ a < d * (a \div d) + d
  OBVIOUS

\* A product grows with each of its factors.
LEMMA ProductMonotone ==
  ASSUME NEW a \in Nat, NEW b \in Nat, NEW d \in Nat, a <= b
  PROVE  a * d <= b * d /\ a * d \in Nat /\ b * d \in Nat
  OBVIOUS

\* The next multiple.
LEMMA NextMultiple ==
  ASSUME NEW a \in Nat, NEW d \in Nat
  PROVE  (a + 1) * d = a * d + d /\ a * d \in Nat
  OBVIOUS

\* When there are at least as many items as chunks, no chunk is empty.
LEMMA QuotientPositive ==
  ASSUME NEW a \in Nat, NEW d \in Nat, d > 0, d <= a
  PROVE  a \div d >= 1
<1>1. a \div d \in Nat /\ a < d * (a \div d) + d
  BY Division
<1>2. ASSUME a \div d = 0 PROVE FALSE
  BY <1>1, <1>2
<1> QED
  BY <1>1, <1>2

\* A chunk of the closed form is a non-empty range of items: it starts at a
\* natural number, and the next one starts where it ends.
LEMMA ChunkBounds ==
  ASSUME NEW k \in Nat, NEW m \in Nat, m > 0, m <= k, NEW t \in 0..(m - 1)
  PROVE  /\ ChunkLo(k, m, t) \in Nat /\ ChunkHi(k, m, t) \in Nat
         /\ ChunkLo(k, m, t) < ChunkHi(k, m, t)
         /\ ChunkHi(k, m, t) <= k
         /\ ChunkHi(k, m, t) = IF t = m - 1 THEN k ELSE ChunkLo(k, m, t + 1)
<1> DEFINE q == k \div m
<1>1. q \in Nat /\ m * q <= k /\ q >= 1
  BY Division, QuotientPositive
<1> HIDE DEF q
<1>2. (t + 1) * q = t * q + q /\ t * q \in Nat
  BY <1>1, NextMultiple
<1>3. (t + 1) * q <= m * q
  BY <1>1, ProductMonotone
<1>4. m * q \in Nat
  BY <1>1
<1>5. ChunkLo(k, m, t) = t * q /\ ChunkLo(k, m, t + 1) = (t + 1) * q
      /\ ChunkHi(k, m, t) = IF t = m - 1 THEN k ELSE (t + 1) * q
  BY DEF ChunkLo, ChunkHi, q
<1> QED
  BY <1>1, <1>2, <1>3, <1>4, <1>5
-----------------------------------------------------------------------------
\* fn has ended on every item of chunk t.
Ended(t) == calls[t] \in [1..Width(t) -> Endings]

\* There is a task, and every chunk has an item.
LEMMA TaskFacts ==
  /\ NumTasks \in Nat /\ NumTasks > 0 /\ NumTasks <= NumItems
  /\ \A t \in Tasks : First(t) \in Nat /\ Width(t) \in Nat /\ Width(t) > 0
<1>1. NumTasks \in Nat /\ NumTasks > 0 /\ NumTasks <= NumItems
  BY SizeAssumption DEF NumTasks, ChunkCount
<1>2. ASSUME NEW t \in Tasks
      PROVE First(t) \in Nat /\ Width(t) \in Nat /\ Width(t) > 0
  <2>1. /\ ChunkLo(NumItems, NumTasks, t) \in Nat
        /\ ChunkHi(NumItems, NumTasks, t) \in Nat
        /\ ChunkLo(NumItems, NumTasks, t) < ChunkHi(NumItems, NumTasks, t)
    BY <1>1, SizeAssumption, ChunkBounds DEF Tasks
  <2> QED
    BY <2>1 DEF First, Width
<1> QED
  BY <1>1, <1>2

\* A result file is a non-empty sequence of entries, one per item.
LEMMA PayloadType ==
  ASSUME NEW t \in Tasks, NEW end
  PROVE  /\ Payload(t, end) \in Seq(Entry) /\ Payload(t, end) # NoFile
         /\ Len(Payload(t, end)) = Width(t)
<1>1. First(t) \in Nat /\ Width(t) \in Nat /\ Width(t) > 0
  BY TaskFacts
<1>2. Payload(t, end) \in [1..Width(t) -> Entry]
  BY <1>1 DEF Payload, Entry
<1> QED
  BY <1>1, <1>2 DEF NoFile

\* A function on 1..k is a sequence.
LEMMA FunctionIsSeq ==
  ASSUME NEW S, NEW k \in Nat, NEW f \in [1..k -> S]
  PROVE  f \in Seq(S)
  OBVIOUS

\* The worker keeps its types.
LEMMA WorkerTypes ==
  ASSUME WorkerTypeOK, NEW t \in Tasks, WorkerRun(t) \/ WorkerCrash(t)
  PROVE  WorkerTypeOK'
<1> USE DEF WorkerTypeOK, Goto, storeVars
<1>1. CASE WorkerStart(t)
  <2>1. PICK r \in PutOutcomes : /\ status' = Stored(status, t, "running", r)
                                 /\ Goto(t, IF r.ok THEN "fetch" ELSE "exited")
    BY <1>1 DEF WorkerStart
  <2>2. status' \in [Tasks -> {"none", "running"} \cup Terminal]
    BY <2>1 DEF Stored
  <2>3. wpc' \in [Tasks -> {"idle", "launched", "fetch", "call", "putResult",
                            "putStatus", "reportError", "reportFailed", "exited"}]
    BY <2>1
  <2> QED
    BY <1>1, <2>2, <2>3 DEF WorkerStart
<1>2. CASE WorkerFetch(t)
  BY <1>2 DEF WorkerFetch
<1>3. CASE WorkerCall(t)
  <2>1. PICK end \in [1..Width(t) -> Endings] : calls' = [calls EXCEPT ![t] = end]
    BY <1>3 DEF WorkerCall
  <2>2. end \in Seq(Endings)
    BY TaskFacts, FunctionIsSeq
  <2>3. calls' \in [Tasks -> Seq(Endings)]
    BY <2>1, <2>2
  <2> QED
    BY <1>3, <2>3 DEF WorkerCall
<1>4. CASE WorkerPutResult(t)
  <2>1. PICK r \in PutOutcomes :
          /\ result' = Stored(result, t, Payload(t, calls[t]), r)
          /\ Goto(t, IF r.ok THEN "putStatus" ELSE "exited")
    BY <1>4 DEF WorkerPutResult
  <2>2. Payload(t, calls[t]) \in Seq(Entry)
    BY PayloadType
  <2>3. result' \in [Tasks -> Seq(Entry)]
    BY <2>1, <2>2 DEF Stored
  <2>4. wpc' \in [Tasks -> {"idle", "launched", "fetch", "call", "putResult",
                            "putStatus", "reportError", "reportFailed", "exited"}]
    BY <2>1
  <2> QED
    BY <1>4, <2>3, <2>4 DEF WorkerPutResult
<1>5. CASE WorkerPutStatus(t)
  <2>1. PICK r \in PutOutcomes :
          status' = Stored(status, t, IF AllSucceeded(t) THEN "done" ELSE "partial", r)
    BY <1>5 DEF WorkerPutStatus
  <2>2. status' \in [Tasks -> {"none", "running"} \cup Terminal]
    BY <2>1 DEF Stored, Terminal
  <2> QED
    BY <1>5, <2>2 DEF WorkerPutStatus
<1>6. CASE WorkerReportError(t)
  <2>1. PICK r \in PutOutcomes : errfile' = Stored(errfile, t, TRUE, r)
    BY <1>6 DEF WorkerReportError
  <2> QED
    BY <1>6, <2>1 DEF WorkerReportError, Stored
<1>7. CASE WorkerReportFailed(t)
  <2>1. PICK r \in PutOutcomes : status' = Stored(status, t, "failed", r)
    BY <1>7 DEF WorkerReportFailed
  <2>2. status' \in [Tasks -> {"none", "running"} \cup Terminal]
    BY <2>1 DEF Stored, Terminal
  <2> QED
    BY <1>7, <2>2 DEF WorkerReportFailed
<1>8. CASE WorkerCrash(t)
  BY <1>8 DEF WorkerCrash
<1> QED
  BY <1>1, <1>2, <1>3, <1>4, <1>5, <1>6, <1>7, <1>8 DEF WorkerRun

\* A step of the worker of t leaves the other tasks alone, and what a worker
\* that has exited has done is final.
LEMMA WorkerFrame ==
  ASSUME WorkerTypeOK, NEW t \in Tasks, WorkerRun(t) \/ WorkerCrash(t)
  PROVE  /\ wpc[t] \notin {"idle", "exited"} /\ wpc'[t] # "idle"
         /\ \A u \in Tasks : u # t =>
              /\ wpc'[u] = wpc[u] /\ calls'[u] = calls[u]
              /\ status'[u] = status[u] /\ result'[u] = result[u]
         /\ task' = task
<1> USE DEF WorkerTypeOK, Goto, storeVars, Stored
<1>1. CASE WorkerStart(t)
  BY <1>1 DEF WorkerStart
<1>2. CASE WorkerFetch(t)
  BY <1>2 DEF WorkerFetch
<1>3. CASE WorkerCall(t)
  BY <1>3 DEF WorkerCall
<1>4. CASE WorkerPutResult(t)
  BY <1>4 DEF WorkerPutResult
<1>5. CASE WorkerPutStatus(t)
  BY <1>5 DEF WorkerPutStatus
<1>6. CASE WorkerReportError(t) \/ WorkerReportFailed(t)
  BY <1>6 DEF WorkerReportError, WorkerReportFailed
<1>7. CASE WorkerCrash(t)
  BY <1>7 DEF WorkerCrash
<1> QED
  BY <1>1, <1>2, <1>3, <1>4, <1>5, <1>6, <1>7 DEF WorkerRun
-----------------------------------------------------------------------------
(* Where an item is.                                                       *)

\* The first item of task u, or the end of the items.
Position(u) == IF u = NumTasks THEN NumItems ELSE First(u)

LEMMA Positions ==
  /\ Position(0) = 0 /\ Position(NumTasks) = NumItems
  /\ \A u \in Tasks : /\ Position(u) = First(u) /\ Position(u + 1) = First(u) + Width(u)
                      /\ Position(u + 1) \in Nat /\ Position(u + 1) <= NumItems
  /\ \A u, v \in Tasks : u < v => Position(u + 1) <= Position(v)
<1>1. NumTasks \in Nat /\ NumTasks > 0 /\ NumTasks <= NumItems
  BY TaskFacts
<1> DEFINE q == NumItems \div NumTasks
<1>2. q \in Nat
  BY <1>1, SizeAssumption, Division
<1>3. \A u \in Tasks : First(u) = u * q /\ u \in Nat /\ u < NumTasks
  BY <1>1 DEF First, ChunkLo, Tasks
<1>4. Position(0) = 0
  <2>1. 0 \in Tasks /\ 0 # NumTasks
    BY <1>1 DEF Tasks
  <2> HIDE DEF q
  <2>2. 0 * q = 0
    BY <1>2
  <2> QED
    BY <1>3, <2>1, <2>2 DEF Position
<1>5. ASSUME NEW u \in Tasks
      PROVE  /\ Position(u) = First(u) /\ Position(u + 1) = First(u) + Width(u)
             /\ Position(u + 1) \in Nat /\ Position(u + 1) <= NumItems
  <2>1. /\ ChunkLo(NumItems, NumTasks, u) \in Nat /\ ChunkHi(NumItems, NumTasks, u) \in Nat
        /\ ChunkHi(NumItems, NumTasks, u) <= NumItems
        /\ ChunkHi(NumItems, NumTasks, u) =
             IF u = NumTasks - 1 THEN NumItems ELSE ChunkLo(NumItems, NumTasks, u + 1)
    BY <1>1, SizeAssumption, ChunkBounds DEF Tasks
  <2>2. u + 1 = NumTasks <=> u = NumTasks - 1
    BY <1>1, <1>3
  <2>3. u # NumTasks
    BY <1>1, <1>3
  <2> QED
    BY <2>1, <2>2, <2>3 DEF Position, First, Width
<1>6. ASSUME NEW u \in Tasks, NEW v \in Tasks, u < v
      PROVE  Position(u + 1) <= Position(v)
  <2>1. u + 1 \in Tasks /\ u + 1 # NumTasks /\ v # NumTasks /\ u + 1 <= v
    BY <1>1, <1>3, <1>6 DEF Tasks
  <2>2. (u + 1) * q <= v * q
    <3> HIDE DEF q
    <3> QED BY <1>2, <1>3, <2>1, ProductMonotone
  <2> QED
    BY <1>3, <2>1, <2>2 DEF Position
<1>7. Position(NumTasks) = NumItems
  BY DEF Position
<1> QED
  BY <1>4, <1>5, <1>6, <1>7

\* The chunks do not overlap.
LEMMA OneTask ==
  ASSUME NEW t \in Tasks, NEW k \in Nat, First(t) <= k, k < First(t) + Width(t)
  PROVE  k \in Items /\ TaskOf[k] = t
<1>1. k < NumItems
  BY Positions, SizeAssumption, TaskFacts
<1>2. k \in Items
  BY <1>1, SizeAssumption DEF Items
<1>3. ASSUME NEW u \in Tasks, First(u) <= k, k < First(u) + Width(u)
      PROVE  u = t
  <2>1. t \in Nat /\ u \in Nat
    BY TaskFacts DEF Tasks
  <2>2. /\ First(t) \in Nat /\ First(u) \in Nat /\ Width(t) \in Nat /\ Width(u) \in Nat
        /\ u < t => First(u) + Width(u) <= First(t)
        /\ t < u => First(t) + Width(t) <= First(u)
    BY Positions, TaskFacts
  <2> QED
    BY <1>3, <2>1, <2>2
<1>4. TaskOf[k] = CHOOSE u \in Tasks : First(u) <= k /\ k < First(u) + Width(u)
  BY <1>2 DEF TaskOf
<1> QED
  BY <1>2, <1>3, <1>4

\* The chunks cover the items.
LEMMA SomeTask ==
  ASSUME NEW k \in Items
  PROVE  TaskOf[k] \in Tasks /\ First(TaskOf[k]) <= k /\ k < First(TaskOf[k]) + Width(TaskOf[k])
<1>1. NumTasks \in Nat /\ NumTasks > 0 /\ NumTasks <= NumItems /\ k \in Nat /\ k < NumItems
  BY TaskFacts, SizeAssumption DEF Items
<1> DEFINE q == NumItems \div NumTasks
           d == k \div q
<1>2. q \in Nat /\ q >= 1
  BY <1>1, SizeAssumption, Division, QuotientPositive
<1>3. d \in Nat /\ q * d <= k /\ k < q * d + q
  <2> HIDE DEF q
  <2> QED BY <1>1, <1>2, Division
<1>4. \E t \in Tasks : First(t) <= k /\ k < First(t) + Width(t)
  <2>1. CASE d < NumTasks - 1
    <3>1. d \in Tasks /\ d # NumTasks - 1
      BY <1>1, <1>3, <2>1 DEF Tasks
    <3>2. First(d) = d * q /\ First(d) + Width(d) = (d + 1) * q
      <4>1. /\ ChunkLo(NumItems, NumTasks, d) = d * q
            /\ ChunkHi(NumItems, NumTasks, d) = (d + 1) * q
        BY <3>1 DEF ChunkLo, ChunkHi
      <4>2. d * q \in Nat /\ (d + 1) * q = d * q + q
        <5> HIDE DEF q, d
        <5> QED BY <1>2, <1>3, NextMultiple
      <4> HIDE DEF q, d
      <4> QED
        BY <1>2, <4>1, <4>2 DEF First, Width
    <3> HIDE DEF q, d
    <3>3. d * q = q * d /\ (d + 1) * q = d * q + q
      BY <1>2, <1>3, NextMultiple
    <3> QED
      BY <1>3, <3>1, <3>2, <3>3
  <2>2. CASE ~(d < NumTasks - 1)
    <3> DEFINE t == NumTasks - 1
    <3>1. t \in Tasks /\ t \in Nat /\ t <= d
      <4> HIDE DEF d
      <4> QED BY <1>1, <1>3, <2>2 DEF Tasks
    <3>2. First(t) = t * q /\ First(t) + Width(t) = NumItems
      <4>1. ChunkLo(NumItems, NumTasks, t) = t * q /\ ChunkHi(NumItems, NumTasks, t) = NumItems
        BY DEF ChunkLo, ChunkHi
      <4>2. First(t) \in Nat /\ NumItems \in Nat
        BY <3>1, TaskFacts, SizeAssumption
      <4> HIDE DEF q, t
      <4> QED
        BY <4>1, <4>2 DEF First, Width
    <3> HIDE DEF q, d, t
    <3>3. t * q <= d * q /\ d * q = q * d /\ t * q \in Nat
      BY <1>2, <1>3, <3>1, ProductMonotone
    <3> QED
      BY <1>1, <1>2, <1>3, <3>1, <3>2, <3>3
  <2> QED
    BY <2>1, <2>2
<1>5. TaskOf[k] = CHOOSE u \in Tasks : First(u) <= k /\ k < First(u) + Width(u)
  BY DEF TaskOf
<1> QED
  BY <1>4, <1>5
-----------------------------------------------------------------------------
(* Types of a collector.                                                   *)

\* One status counted.
LEMMA CountTypes ==
  ASSUME CollectionTypeOK, NEW c \in Collectors, CountStatus(c)
  PROVE  done' \in [Collectors -> Nat] /\ bad' \in [Collectors -> Nat]
<1>1. done \in [Collectors -> Nat] /\ bad \in [Collectors -> Nat]
  BY DEF CollectionTypeOK
<1>2. done' = done \/ done' = [done EXCEPT ![c] = @ + 1]
  BY <1>1 DEF CountStatus
<1>3. bad' = bad \/ bad' = [bad EXCEPT ![c] = @ + 1]
  BY <1>1 DEF CountStatus
<1> QED
  BY <1>1, <1>2, <1>3

\* A step of a collector, of Map's or of a detached session.
CollectorStep(c) == CollectRun(c) \/ AssembleStart(c) \/ AssembleTolerant(c)

\* A collector keeps the types.
LEMMA CollectTypes ==
  ASSUME WorkerTypeOK, CollectionTypeOK, NEW c \in Collectors, CollectorStep(c)
  PROVE  WorkerTypeOK' /\ CollectionTypeOK'
<1>0. NumTasks \in Nat /\ NumTasks > 0
  BY TaskFacts
<1> USE <1>0 DEF CollectionTypeOK, To, At, Answer, Answers, pollVars,
        downloadVars, workerVars, storeVars
<1>1. CASE PollTick(c)
  BY <1>1 DEF PollTick, StartPass, WorkerTypeOK
<1>2. CASE PollExpired(c)
  BY <1>2 DEF PollExpired, StartPass, WorkerTypeOK
<1>3. CASE CountStatus(c)
  <2>1. done' \in [Collectors -> Nat] /\ bad' \in [Collectors -> Nat]
    BY <1>3, CountTypes
  <2>2. cursor' \in [Collectors -> 0..NumTasks]
    BY <1>3 DEF CountStatus
  <2> QED
    BY <1>3, <2>1, <2>2 DEF CountStatus, WorkerTypeOK
<1>4. CASE PassEnd(c)
  BY <1>4 DEF PassEnd, WorkerTypeOK
<1>5. CASE TimeoutEnd(c)
  BY <1>5 DEF TimeoutEnd, WorkerTypeOK
<1>6. CASE DownloadSpawn(c)
  <2>1. dnext' \in [Collectors -> 0..NumTasks]
    BY <1>6 DEF DownloadSpawn
  <2>2. dnext[c] \in Tasks
    BY <1>6 DEF DownloadSpawn, Tasks
  <2>3. fetching[c] \cup {dnext[c]} \in SUBSET Tasks
    BY <2>2
  <2>4. fetching' \in [Collectors -> SUBSET Tasks]
    BY <1>6, <2>3 DEF DownloadSpawn
  <2> QED
    BY <1>6, <2>1, <2>4 DEF DownloadSpawn, WorkerTypeOK
<1>7. ASSUME NEW t \in Tasks, DownloadOne(c, t)
      PROVE WorkerTypeOK' /\ CollectionTypeOK'
  <2>1. fetching' \in [Collectors -> SUBSET Tasks]
    BY <1>7 DEF DownloadOne
  <2>2. payload' \in [Collectors -> [Tasks -> Seq(Entry)]]
    <3>1. CASE payload' = payload
      BY <3>1
    <3>2. CASE payload' = [payload EXCEPT ![c][t] = result[t]]
      <4>1. [payload[c] EXCEPT ![t] = result[t]] \in [Tasks -> Seq(Entry)]
        BY DEF WorkerTypeOK
      <4> QED
        BY <3>2, <4>1
    <3> QED
      BY <1>7, <3>1, <3>2 DEF DownloadOne
  <2>3. derr' \in [Collectors -> BOOLEAN]
    BY <1>7 DEF DownloadOne
  <2> QED
    BY <1>7, <2>1, <2>2, <2>3 DEF DownloadOne, WorkerTypeOK
<1>8. CASE DownloadJoin(c)
  BY <1>8 DEF DownloadJoin, WorkerTypeOK
<1>9. CASE AssembleStart(c)
  BY <1>9 DEF AssembleStart, WorkerTypeOK
<1>10. CASE AssembleOne(c)
  <2>1. cursor[c] \in Tasks
    BY <1>10 DEF AssembleOne, Tasks
  <2>2. out[c] \o payload[c][cursor[c]] \in Seq(Entry)
    BY <2>1
  <2>3. out' \in [Collectors -> Seq(Entry)] /\ cursor' \in [Collectors -> 0..NumTasks]
    BY <1>10, <2>2 DEF AssembleOne
  <2> QED
    BY <1>10, <2>3 DEF AssembleOne, WorkerTypeOK
<1>11. CASE AssembleStrict(c)
  BY <1>11 DEF AssembleStrict, WorkerTypeOK
<1>12. CASE AssembleTolerant(c)
  BY <1>12 DEF AssembleTolerant, WorkerTypeOK
<1> QED
  BY <1>1, <1>2, <1>3, <1>4, <1>5, <1>6, <1>7, <1>8, <1>9, <1>10, <1>11, <1>12
  DEF CollectorStep, CollectRun
-----------------------------------------------------------------------------
(* What the workers have done.                                             *)

\* A task that says it is over has no worker left; a result file is complete
\* and is what the calls gave; fn has ended on no item of a chunk or on all.
WorkersInv ==
  \A t \in Tasks :
    /\ status[t] \in Terminal => wpc[t] = "exited"
    /\ wpc[t] \in {"idle", "launched", "fetch", "call"} =>
         result[t] = NoFile /\ calls[t] = <<>>
    /\ wpc[t] \in {"putResult", "putStatus"} => Ended(t)
    /\ result[t] # NoFile => Ended(t) /\ result[t] = Payload(t, calls[t])
    /\ calls[t] # <<>> =>
         Ended(t) /\ \A i \in 1..Width(t) : calls[t][i] = "blank" => "blank" \in Faults

\* A task that says it has results has them stored, and says whether one of
\* its items failed.
ResultFirst(t) ==
  /\ wpc[t] = "putStatus" => result[t] # NoFile
  /\ status[t] \in {"done", "partial"} =>
       result[t] # NoFile /\ (status[t] = "done" <=> AllSucceeded(t))

(* What collector c holds.                                                 *)

\* The caller holds the results of task u.
Captured(c, u) == Ended(u) /\ payload[c][u] = Payload(u, calls[u])

\* Item k of task t, as its result file has it, is at its place in the answer.
Placed(c, k) ==
  \E t \in Tasks : /\ First(t) <= k /\ k < First(t) + Width(t)
                   /\ out[c][k + 1] = Payload(t, calls[t])[k + 1 - First(t)]

HasResults(c) == cret[c] \in WithResults

\* A pass counts only terminal statuses, so a pass that counts them all means
\* that every worker has exited; then what is downloaded is final.
PollInv(c) ==
  /\ cret[c] # "none" <=> cpc[c] = "returned"
  /\ cpc[c] \in {"scan", "expired"} =>
       /\ done[c] + bad[c] <= cursor[c]
       /\ done[c] + bad[c] = cursor[c] =>
            \A u \in Tasks : u < cursor[c] => wpc[u] = "exited"
  /\ cpc[c] \in {"idle", "poll", "scan", "expired"} => dnext[c] = 0 /\ fetching[c] = {}

DownloadInv(c) ==
  /\ cpc[c] \in {"download", "downloaded", "assemble"} \/ HasResults(c) =>
       \A t \in Tasks : wpc[t] = "exited"
  /\ cpc[c] = "download" =>
       \A u \in Tasks : u < dnext[c] /\ u \notin fetching[c] => Captured(c, u) \/ derr[c]
  /\ cpc[c] \in {"downloaded", "assemble"} \/ HasResults(c) =>
       \A u \in Tasks : Captured(c, u)

\* The answer is the concatenation of the payloads below the cursor.
OutInv(c) ==
  /\ cpc[c] \notin {"assemble", "returned"} => out[c] = <<>>
  /\ cpc[c] = "assemble" => Len(out[c]) = Position(cursor[c])
  /\ HasResults(c) => Len(out[c]) = NumItems
  /\ cpc[c] = "assemble" \/ HasResults(c) => \A k \in 0..(Len(out[c]) - 1) : Placed(c, k)
  /\ cret[c] = "results" => ~AnyFailed(c)
  /\ cret[c] = "partial" => AnyFailed(c)

CollectorInv(c) == PollInv(c) /\ DownloadInv(c) /\ OutInv(c)
-----------------------------------------------------------------------------
(* The invariant of the workers.                                           *)

LEMMA WorkersInitially == WorkerInit => WorkersInv
  BY DEF WorkerInit, WorkersInv, Terminal, NoFile

\* What the worker of t establishes for its own task.
LEMMA WorkerOwn ==
  ASSUME WorkerTypeOK, WorkersInv, NEW t \in Tasks, WorkerRun(t) \/ WorkerCrash(t)
  PROVE  /\ status'[t] \in Terminal => wpc'[t] = "exited"
         /\ wpc'[t] \in {"idle", "launched", "fetch", "call"} =>
              result'[t] = NoFile /\ calls'[t] = <<>>
         /\ wpc'[t] \in {"putResult", "putStatus"} => Ended(t)'
         /\ result'[t] # NoFile => Ended(t)' /\ result'[t] = Payload(t, calls'[t])
         /\ calls'[t] # <<>> =>
              Ended(t)' /\ \A i \in 1..Width(t) : calls'[t][i] = "blank" => "blank" \in Faults
<1> USE DEF Goto, storeVars, Stored
<1>1. /\ status[t] \in Terminal => wpc[t] = "exited"
      /\ wpc[t] \in {"idle", "launched", "fetch", "call"} => result[t] = NoFile /\ calls[t] = <<>>
      /\ wpc[t] \in {"putResult", "putStatus"} => Ended(t)
      /\ result[t] # NoFile => Ended(t) /\ result[t] = Payload(t, calls[t])
      /\ calls[t] # <<>> =>
           Ended(t) /\ \A i \in 1..Width(t) : calls[t][i] = "blank" => "blank" \in Faults
      /\ wpc[t] # "exited"
  BY WorkerFrame DEF WorkersInv
<1>2. /\ wpc \in [Tasks -> {"idle", "launched", "fetch", "call", "putResult",
                            "putStatus", "reportError", "reportFailed", "exited"}]
      /\ status \in [Tasks -> {"none", "running"} \cup Terminal]
      /\ result \in [Tasks -> Seq(Entry)] /\ calls \in [Tasks -> Seq(Endings)]
  BY DEF WorkerTypeOK
<1>3. UNCHANGED calls => (Ended(t)' <=> Ended(t))
  BY DEF Ended
<1>4. CASE WorkerStart(t)
  <2>1. /\ wpc[t] = "launched" /\ wpc'[t] \in {"fetch", "exited"}
        /\ status'[t] \in {status[t], "running"} /\ UNCHANGED <<result, calls>>
    BY <1>2, <1>4 DEF WorkerStart
  <2> QED
    BY <1>1, <1>3, <2>1 DEF Terminal
<1>5. CASE WorkerFetch(t)
  <2>1. /\ wpc[t] = "fetch" /\ wpc'[t] \in {"call", "reportError"}
        /\ UNCHANGED <<status, result, calls>>
    BY <1>2, <1>5 DEF WorkerFetch
  <2> QED
    BY <1>1, <1>3, <2>1 DEF Terminal
<1>6. CASE WorkerCall(t)
  <2>1. /\ wpc[t] = "call" /\ wpc'[t] \in {"putResult", "reportError"}
        /\ UNCHANGED <<status, result>>
    BY <1>2, <1>6 DEF WorkerCall
  <2>2. PICK end \in [1..Width(t) -> Endings] :
          /\ calls' = [calls EXCEPT ![t] = end]
          /\ \A i \in 1..Width(t) : end[i] = "blank" => "blank" \in Faults
    BY <1>6 DEF WorkerCall
  <2>3. calls'[t] = end
    BY <1>2, <2>2
  <2>4. Ended(t)'
    BY <2>3 DEF Ended
  <2> QED
    BY <1>1, <2>1, <2>2, <2>3, <2>4 DEF Terminal
<1>7. CASE WorkerPutResult(t)
  <2>1. PICK r \in PutOutcomes :
          /\ result' = Stored(result, t, Payload(t, calls[t]), r)
          /\ wpc' = [wpc EXCEPT ![t] = IF r.ok THEN "putStatus" ELSE "exited"]
    BY <1>7 DEF WorkerPutResult
  <2>2. wpc[t] = "putResult" /\ UNCHANGED <<status, calls>>
    BY <1>7 DEF WorkerPutResult
  <2>3. /\ wpc'[t] \in {"putStatus", "exited"}
        /\ result'[t] \in {result[t], Payload(t, calls[t])}
    BY <1>2, <2>1
  <2>4. Payload(t, calls[t]) # NoFile
    BY PayloadType
  <2> QED
    BY <1>1, <1>3, <2>2, <2>3, <2>4 DEF Terminal
<1>8. CASE WorkerPutStatus(t)
  <2>1. wpc[t] = "putStatus" /\ wpc'[t] = "exited" /\ UNCHANGED <<result, calls>>
    BY <1>2, <1>8 DEF WorkerPutStatus
  <2> QED
    BY <1>1, <1>3, <2>1
<1>9. CASE WorkerReportError(t)
  <2>1. /\ wpc[t] = "reportError" /\ wpc'[t] = "reportFailed"
        /\ UNCHANGED <<status, result, calls>>
    BY <1>2, <1>9 DEF WorkerReportError
  <2> QED
    BY <1>1, <1>3, <2>1 DEF Terminal
<1>10. CASE WorkerReportFailed(t)
  <2>1. wpc[t] = "reportFailed" /\ wpc'[t] = "exited" /\ UNCHANGED <<result, calls>>
    BY <1>2, <1>10 DEF WorkerReportFailed
  <2> QED
    BY <1>1, <1>3, <2>1
<1>11. CASE WorkerCrash(t)
  <2>1. wpc'[t] = "exited" /\ UNCHANGED <<status, result, calls>>
    BY <1>2, <1>11 DEF WorkerCrash
  <2> QED
    BY <1>1, <1>3, <2>1 DEF Terminal
<1> QED
  BY <1>4, <1>5, <1>6, <1>7, <1>8, <1>9, <1>10, <1>11 DEF WorkerRun

\* The workers keep their invariant.
LEMMA WorkersWork ==
  ASSUME WorkerTypeOK, WorkersInv, NEW t \in Tasks, WorkerRun(t) \/ WorkerCrash(t)
  PROVE  WorkersInv'
<1> SUFFICES ASSUME NEW u \in Tasks
             PROVE  (/\ status[u] \in Terminal => wpc[u] = "exited"
                     /\ wpc[u] \in {"idle", "launched", "fetch", "call"} =>
                          result[u] = NoFile /\ calls[u] = <<>>
                     /\ wpc[u] \in {"putResult", "putStatus"} => Ended(u)
                     /\ result[u] # NoFile => Ended(u) /\ result[u] = Payload(u, calls[u])
                     /\ calls[u] # <<>> =>
                          Ended(u) /\ \A i \in 1..Width(u) :
                                        calls[u][i] = "blank" => "blank" \in Faults)'
  BY DEF WorkersInv
<1>1. CASE u = t
  BY <1>1, WorkerOwn
<1>2. CASE u # t
  BY <1>2, WorkerFrame DEF WorkersInv, Ended, Payload
<1> QED
  BY <1>1, <1>2

\* The worker of t stores its result before it says how it ended.
LEMMA WorkerStores ==
  ASSUME WorkerTypeOK, WorkersInv, NEW t \in Tasks, WorkerRun(t) \/ WorkerCrash(t),
         ResultFirst(t)
  PROVE  ResultFirst(t)'
<1> USE DEF Goto, Stored
<1>1. /\ status[t] \notin Terminal
      /\ wpc[t] = "putStatus" => result[t] # NoFile
  BY WorkerFrame DEF ResultFirst, WorkersInv
<1>2. /\ wpc \in [Tasks -> {"idle", "launched", "fetch", "call", "putResult",
                            "putStatus", "reportError", "reportFailed", "exited"}]
      /\ status \in [Tasks -> {"none", "running"} \cup Terminal]
      /\ result \in [Tasks -> Seq(Entry)]
  BY DEF WorkerTypeOK
<1>3. CASE WorkerPutResult(t)
  <2>1. PICK r \in PutOutcomes :
          /\ result' = Stored(result, t, Payload(t, calls[t]), r)
          /\ wpc' = [wpc EXCEPT ![t] = IF r.ok THEN "putStatus" ELSE "exited"]
    BY <1>3 DEF WorkerPutResult
  <2>2. r.ok => r.stored
    BY DEF PutOutcomes
  <2>3. wpc'[t] = "putStatus" => result'[t] = Payload(t, calls[t])
    BY <1>2, <2>1, <2>2
  <2>4. status' = status
    BY <1>3 DEF WorkerPutResult
  <2> QED
    BY <1>1, <2>3, <2>4, PayloadType DEF Terminal, ResultFirst
<1>4. CASE WorkerPutStatus(t)
  <2>1. /\ wpc[t] = "putStatus" /\ wpc'[t] = "exited" /\ UNCHANGED <<result, calls>>
        /\ status'[t] \in {status[t], IF AllSucceeded(t) THEN "done" ELSE "partial"}
    BY <1>2, <1>4 DEF WorkerPutStatus
  <2>2. AllSucceeded(t)' <=> AllSucceeded(t)
    BY <2>1 DEF AllSucceeded
  <2> QED
    BY <1>1, <2>1, <2>2 DEF Terminal, ResultFirst
<1>5. CASE \/ WorkerStart(t) \/ WorkerFetch(t) \/ WorkerCall(t)
           \/ WorkerReportError(t) \/ WorkerReportFailed(t) \/ WorkerCrash(t)
  <2>1. wpc'[t] # "putStatus" /\ status'[t] \in {status[t], "running", "failed"}
    BY <1>2, <1>5 DEF WorkerStart, WorkerFetch, WorkerCall, WorkerReportError,
       WorkerReportFailed, WorkerCrash, storeVars
  <2> QED
    BY <1>1, <2>1 DEF Terminal, ResultFirst
<1> QED
  BY <1>3, <1>4, <1>5 DEF WorkerRun

\* Whatever a worker does, every task that says how it ended has its result.
LEMMA ResultsFirst ==
  ASSUME WorkerTypeOK, WorkersInv, NEW t \in Tasks, WorkerRun(t) \/ WorkerCrash(t),
         \A u \in Tasks : ResultFirst(u)
  PROVE  \A u \in Tasks : ResultFirst(u)'
<1> SUFFICES ASSUME NEW u \in Tasks PROVE ResultFirst(u)'
  OBVIOUS
<1>1. CASE u = t
  BY <1>1, WorkerStores
<1>2. CASE u # t
  BY <1>2, WorkerFrame DEF ResultFirst, AllSucceeded
<1> QED
  BY <1>1, <1>2

\* What a worker has written stays as it is.
LEMMA WorkerWritesOnce ==
  ASSUME WorkerTypeOK, WorkersInv, NEW t \in Tasks, WorkerRun(t) \/ WorkerCrash(t),
         NEW u \in Tasks
  PROVE  /\ calls[u] # <<>> => calls'[u] = calls[u]
         /\ result[u] # NoFile => result'[u] = result[u]
         /\ status[u] \in Terminal => status'[u] = status[u]
<1>1. CASE u # t
  BY <1>1, WorkerFrame
<1>2. CASE u = t
  <2>1. status[t] \notin Terminal
    BY WorkerFrame DEF WorkersInv
  <2>2. calls[t] # <<>> => calls'[t] = calls[t]
    <3>1. CASE WorkerCall(t)
      BY <3>1 DEF WorkerCall, WorkersInv
    <3>2. CASE ~WorkerCall(t)
      BY <3>2 DEF WorkerRun, WorkerCrash, WorkerStart, WorkerFetch, WorkerPutResult,
         WorkerPutStatus, WorkerReportError, WorkerReportFailed
    <3> QED
      BY <3>1, <3>2
  <2>3. result[t] # NoFile => result'[t] = result[t]
    <3>1. CASE WorkerPutResult(t)
      <4>1. result' = result \/ result' = [result EXCEPT ![t] = Payload(t, calls[t])]
        BY <3>1 DEF WorkerPutResult, Stored
      <4>2. result[t] # NoFile => result[t] = Payload(t, calls[t])
        BY DEF WorkersInv
      <4> QED
        BY <4>1, <4>2 DEF WorkerTypeOK
    <3>2. CASE ~WorkerPutResult(t)
      BY <3>2 DEF WorkerRun, WorkerCrash, WorkerStart, WorkerFetch, WorkerCall,
         WorkerPutStatus, WorkerReportError, WorkerReportFailed, storeVars
    <3> QED
      BY <3>1, <3>2
  <2> QED
    BY <1>2, <2>1, <2>2, <2>3
<1> QED
  BY <1>1, <1>2

\* Files that are deleted break nothing.
LEMMA WorkersDelete ==
  ASSUME WorkersInv, UNCHANGED <<wpc, calls>>,
         \A t \in Tasks : status'[t] \in {status[t], "none"} /\ result'[t] \in {result[t], NoFile}
  PROVE  WorkersInv'
BY DEF WorkersInv, Ended, Payload, Terminal

\* A container is started once.
LEMMA WorkersLaunch ==
  ASSUME WorkerTypeOK, WorkersInv, UNCHANGED <<status, result, calls>>,
         NEW r \in Tasks, wpc[r] = "idle", wpc' = [wpc EXCEPT ![r] = "launched"]
  PROVE  WorkersInv' /\ \A t \in Tasks : wpc[t] = "exited" => wpc'[t] = "exited"
<1>1. \A t \in Tasks : wpc'[t] = IF t = r THEN "launched" ELSE wpc[t]
  BY DEF WorkerTypeOK
<1>2. status[r] \notin Terminal
  BY DEF WorkersInv
<1> QED
  BY <1>1, <1>2 DEF WorkersInv, Ended, Payload
-----------------------------------------------------------------------------
(* The invariant of a collector.                                           *)

LEMMA CollectorInitially ==
  ASSUME CollectionInit, NEW c \in Collectors
  PROVE  CollectorInv(c)
<1>1. /\ cpc[c] = "idle" /\ cret[c] = "none" /\ out[c] = <<>>
      /\ dnext[c] = 0 /\ fetching[c] = {}
  BY DEF CollectionInit
<1> QED
  BY <1>1 DEF CollectorInv, PollInv, DownloadInv, OutInv, HasResults, WithResults

\* Nothing of collector c changes but its context.
Untouched(c) ==
  /\ cpc'[c] = cpc[c] /\ cret'[c] = cret[c] /\ cursor'[c] = cursor[c]
  /\ done'[c] = done[c] /\ bad'[c] = bad[c] /\ dnext'[c] = dnext[c]
  /\ fetching'[c] = fetching[c] /\ derr'[c] = derr[c]
  /\ payload'[c] = payload[c] /\ out'[c] = out[c]

\* A step of anything but a worker and the collector c.
LEMMA CollectorFrame ==
  ASSUME NEW c \in Collectors, CollectorInv(c), Untouched(c), UNCHANGED calls,
         \A t \in Tasks : wpc[t] = "exited" => wpc'[t] = "exited"
  PROVE  CollectorInv(c)'
<1> USE DEF Untouched
<1>1. HasResults(c)' <=> HasResults(c)
  BY DEF HasResults, WithResults
<1>2. \A u \in Tasks : Captured(c, u)' <=> Captured(c, u)
  BY DEF Captured, Ended, Payload
<1>3. \A k : Placed(c, k)' <=> Placed(c, k)
  BY DEF Placed, Payload
<1>4. AnyFailed(c)' <=> AnyFailed(c)
  BY DEF AnyFailed
<1>5. PollInv(c)'
  BY DEF CollectorInv, PollInv
<1>6. DownloadInv(c)'
  BY <1>1, <1>2 DEF CollectorInv, DownloadInv
<1>7. OutInv(c)'
  BY <1>1, <1>3, <1>4 DEF CollectorInv, OutInv, Position
<1> QED
  BY <1>5, <1>6, <1>7 DEF CollectorInv

\* A worker that still runs has no part in what a collector holds.
LEMMA CollectorWorking ==
  ASSUME WorkerTypeOK, NEW t \in Tasks, WorkerRun(t) \/ WorkerCrash(t),
         NEW c \in Collectors, CollectorInv(c), Untouched(c)
  PROVE  CollectorInv(c)'
<1> USE DEF Untouched
<1>1. /\ wpc[t] # "exited"
      /\ \A u \in Tasks : wpc[u] = "exited" => wpc'[u] = "exited"
  BY WorkerFrame
<1>2. cpc[c] \notin {"download", "downloaded", "assemble"} /\ ~HasResults(c)
  BY <1>1 DEF CollectorInv, DownloadInv
<1>3. ~HasResults(c)'
  BY <1>2 DEF HasResults, WithResults
<1>4. PollInv(c)'
  BY <1>1 DEF CollectorInv, PollInv
<1>5. DownloadInv(c)'
  BY <1>2, <1>3 DEF DownloadInv
<1>6. OutInv(c)'
  BY <1>2, <1>3 DEF CollectorInv, OutInv, HasResults, WithResults
<1> QED
  BY <1>4, <1>5, <1>6 DEF CollectorInv

\* A step of one collector leaves the workers and the other collectors alone.
LEMMA CollectorAlone ==
  ASSUME NEW c \in Collectors, CollectorStep(c), CollectionTypeOK
  PROVE  UNCHANGED workerVars /\ \A d \in Collectors : d # c => Untouched(d)
<1> USE DEF CollectionTypeOK, To, Answer, Untouched, pollVars, downloadVars
<1>1. CASE PollTick(c) \/ PollExpired(c)
  BY <1>1 DEF PollTick, PollExpired, StartPass
<1>2. CASE CountStatus(c)
  BY <1>2 DEF CountStatus
<1>3. CASE PassEnd(c) \/ TimeoutEnd(c)
  BY <1>3 DEF PassEnd, TimeoutEnd
<1>4. CASE DownloadSpawn(c)
  BY <1>4 DEF DownloadSpawn
<1>5. ASSUME NEW t \in Tasks, DownloadOne(c, t)
      PROVE  UNCHANGED workerVars /\ \A d \in Collectors : d # c => Untouched(d)
  BY <1>5 DEF DownloadOne
<1>6. CASE DownloadJoin(c)
  BY <1>6 DEF DownloadJoin
<1>7. CASE AssembleStart(c)
  BY <1>7 DEF AssembleStart
<1>8. CASE AssembleOne(c)
  BY <1>8 DEF AssembleOne
<1>9. CASE AssembleStrict(c) \/ AssembleTolerant(c)
  BY <1>9 DEF AssembleStrict, AssembleTolerant
<1> QED
  BY <1>1, <1>2, <1>3, <1>4, <1>5, <1>6, <1>7, <1>8, <1>9 DEF CollectorStep, CollectRun

\* The steps of pollResults.
LEMMA Polling ==
  ASSUME WorkersInv, CollectionTypeOK, NEW c \in Collectors, CollectorInv(c),
         \/ PollTick(c) \/ PollExpired(c) \/ CountStatus(c) \/ PassEnd(c) \/ TimeoutEnd(c)
  PROVE  CollectorInv(c)'
<1> USE DEF CollectionTypeOK, At, To, Answer
<1>1. /\ UNCHANGED <<status, wpc, calls>> /\ UNCHANGED <<dnext, fetching, derr, payload, out>>
      /\ cpc[c] \in {"poll", "scan", "expired"}
  BY DEF PollTick, PollExpired, StartPass, CountStatus, PassEnd, TimeoutEnd, workerVars,
         storeVars, downloadVars
<1>2. cret[c] = "none" /\ dnext[c] = 0 /\ fetching[c] = {} /\ out[c] = <<>>
  BY <1>1 DEF CollectorInv, PollInv, OutInv
<1>3. CASE StartPass(c, "scan") \/ StartPass(c, "expired")
  <2>1. /\ cpc'[c] \in {"scan", "expired"} /\ cret' = cret
        /\ cursor'[c] = 0 /\ done'[c] = 0 /\ bad'[c] = 0
    BY <1>3 DEF StartPass
  <2>2. \A u \in Tasks : ~(u < 0)
    BY TaskFacts DEF Tasks
  <2> QED
    BY <1>1, <1>2, <2>1, <2>2
    DEF CollectorInv, PollInv, DownloadInv, OutInv, HasResults, WithResults
<1>4. CASE CountStatus(c)
  <2>1. /\ cpc[c] \in {"scan", "expired"} /\ UNCHANGED <<cpc, cret>>
        /\ cursor[c] \in Tasks /\ cursor[c] \in Nat /\ done[c] \in Nat /\ bad[c] \in Nat
        /\ cursor'[c] = cursor[c] + 1
    BY <1>4, TaskFacts DEF CountStatus, Tasks
  <2>2. \/ done'[c] = done[c] /\ bad'[c] = bad[c]
        \/ /\ status[cursor[c]] \in Terminal
           /\ \/ done'[c] = done[c] + 1 /\ bad'[c] = bad[c]
              \/ done'[c] = done[c] /\ bad'[c] = bad[c] + 1
    BY <1>4 DEF CountStatus, Terminal
  <2>3. status[cursor[c]] \in Terminal => wpc[cursor[c]] = "exited"
    BY <2>1 DEF WorkersInv
  <2>4. /\ done[c] + bad[c] <= cursor[c]
        /\ done[c] + bad[c] = cursor[c] => \A u \in Tasks : u < cursor[c] => wpc[u] = "exited"
    BY <2>1 DEF CollectorInv, PollInv
  <2>5. done'[c] + bad'[c] <= cursor'[c]
    BY <2>1, <2>2, <2>4
  <2>6. ASSUME done'[c] + bad'[c] = cursor'[c], NEW u \in Tasks, u < cursor'[c]
        PROVE wpc[u] = "exited"
    <3> HIDE DEF CollectionTypeOK, At, To, Answer
    <3>0. ~(done'[c] = done[c] /\ bad'[c] = bad[c])
      BY <2>1, <2>4, <2>6
    <3>1. \/ done'[c] = done[c] + 1 /\ bad'[c] = bad[c]
          \/ done'[c] = done[c] /\ bad'[c] = bad[c] + 1
      BY <2>2, <3>0
    <3>2. done[c] + bad[c] = cursor[c]
      BY <2>1, <2>6, <3>1
    <3>3. wpc[cursor[c]] = "exited"
      BY <2>2, <2>3, <3>0
    <3>4. u < cursor[c] \/ u = cursor[c]
      BY <2>1, <2>6 DEF Tasks
    <3> QED
      BY <2>4, <3>2, <3>3, <3>4
  <2>7. PollInv(c)'
    BY <1>1, <1>2, <2>1, <2>5, <2>6 DEF CollectorInv, PollInv
  <2> QED
    BY <1>1, <1>2, <2>1, <2>7 DEF CollectorInv, DownloadInv, OutInv, HasResults, WithResults
<1>5. CASE PassEnd(c)
  <2>1. /\ cret' = cret /\ cpc[c] = "scan" /\ cursor[c] = NumTasks
        /\ cpc'[c] = IF done[c] + bad[c] = NumTasks THEN "download" ELSE "poll"
    BY <1>5 DEF PassEnd
  <2>2. done[c] + bad[c] = NumTasks => \A u \in Tasks : wpc[u] = "exited"
    BY <2>1, TaskFacts DEF CollectorInv, PollInv, Tasks
  <2>3. \A u \in Tasks : ~(u < 0)
    BY TaskFacts DEF Tasks
  <2> QED
    BY <1>1, <1>2, <2>1, <2>2, <2>3
      DEF CollectorInv, PollInv, DownloadInv, OutInv, HasResults, WithResults
<1>6. CASE TimeoutEnd(c)
  <2>1. cpc'[c] = "returned" /\ cret'[c] = "timeout"
    BY <1>6 DEF TimeoutEnd
  <2> QED
    BY <2>1 DEF CollectorInv, PollInv, DownloadInv, OutInv, HasResults, WithResults
<1> QED
  BY <1>3, <1>4, <1>5, <1>6 DEF PollTick, PollExpired

\* The steps of downloadResults.
LEMMA Downloading ==
  ASSUME WorkersInv, CollectionTypeOK, NEW c \in Collectors, CollectorInv(c),
         DownloadSpawn(c) \/ (\E t \in Tasks : DownloadOne(c, t)) \/ DownloadJoin(c)
  PROVE  CollectorInv(c)'
<1> USE DEF CollectionTypeOK, At, To, Answer
<1>1. /\ UNCHANGED <<status, result, wpc, calls>> /\ UNCHANGED <<cursor, done, bad, out>>
      /\ cpc[c] = "download"
  BY DEF DownloadSpawn, DownloadOne, DownloadJoin, workerVars, storeVars, pollVars
<1>2. /\ cret[c] = "none" /\ out[c] = <<>> /\ \A t \in Tasks : wpc[t] = "exited"
      /\ \A u \in Tasks : u < dnext[c] /\ u \notin fetching[c] => Captured(c, u) \/ derr[c]
  BY <1>1 DEF CollectorInv, PollInv, DownloadInv, OutInv
<1>3. CASE DownloadSpawn(c)
  <2>1. /\ UNCHANGED <<cpc, cret, derr, payload>>
        /\ dnext'[c] = dnext[c] + 1 /\ dnext[c] \in Nat
        /\ fetching'[c] = fetching[c] \cup {dnext[c]}
    BY <1>3 DEF DownloadSpawn
  <2>2. \A u \in Tasks : Captured(c, u)' <=> Captured(c, u)
    BY <1>1, <2>1 DEF Captured, Ended, Payload
  <2>3. \A u \in Tasks : u < dnext'[c] /\ u \notin fetching'[c] =>
          u < dnext[c] /\ u \notin fetching[c]
    BY <2>1 DEF Tasks
  <2> QED
    BY <1>1, <1>2, <2>1, <2>2, <2>3
      DEF CollectorInv, PollInv, DownloadInv, OutInv, HasResults, WithResults
<1>4. ASSUME NEW t \in Tasks, DownloadOne(c, t)
      PROVE CollectorInv(c)'
  <2>1. /\ UNCHANGED <<cpc, cret, dnext>>
        /\ fetching'[c] = fetching[c] \ {t}
        /\ \/ result[t] # NoFile /\ derr' = derr
              /\ payload' = [payload EXCEPT ![c][t] = result[t]]
           \/ derr'[c] /\ payload' = payload
    BY <1>4 DEF DownloadOne
  <2>2. \A u \in Tasks : u # t => (Captured(c, u)' <=> Captured(c, u))
    <3>1. \A u \in Tasks : u # t => payload'[c][u] = payload[c][u]
      BY <2>1
    <3> QED
      BY <1>1, <3>1 DEF Captured, Ended, Payload
  <2>3. Captured(c, t)' \/ derr'[c]
    <3>1. CASE derr'[c]
      BY <3>1
    <3>2. CASE result[t] # NoFile /\ payload' = [payload EXCEPT ![c][t] = result[t]]
      <4>1. payload'[c][t] = result[t]
        BY <3>2
      <4>2. Ended(t) /\ result[t] = Payload(t, calls[t])
        BY <3>2 DEF WorkersInv
      <4> QED
        BY <1>1, <4>1, <4>2 DEF Captured, Ended, Payload
    <3> QED
      BY <2>1, <3>1, <3>2
  <2>4. derr[c] => derr'[c]
    BY <2>1
  <2>5. \A u \in Tasks : u < dnext'[c] /\ u \notin fetching'[c] => Captured(c, u)' \/ derr'[c]
    BY <1>2, <2>1, <2>2, <2>3, <2>4
  <2> QED
    BY <1>1, <1>2, <2>1, <2>5
      DEF CollectorInv, PollInv, DownloadInv, OutInv, HasResults, WithResults
<1>5. CASE DownloadJoin(c)
  <2>1. /\ UNCHANGED <<dnext, fetching, derr, payload>>
        /\ dnext[c] = NumTasks /\ fetching[c] = {}
        /\ \/ cpc'[c] = "downloaded" /\ cret' = cret /\ ~derr[c]
           \/ cpc'[c] = "returned" /\ cret'[c] = "error"
    BY <1>5 DEF DownloadJoin, downloadVars
  <2>2. \A u \in Tasks : Captured(c, u)' <=> Captured(c, u)
    BY <1>1, <2>1 DEF Captured, Ended, Payload
  <2>3. ~derr[c] => \A u \in Tasks : Captured(c, u)
    BY <1>2, <2>1, TaskFacts DEF Tasks
  <2> QED
    BY <1>1, <1>2, <2>1, <2>2, <2>3
      DEF CollectorInv, PollInv, DownloadInv, OutInv, HasResults, WithResults
<1> QED
  BY <1>3, <1>4, <1>5

\* The assembly starts with nothing at the first item.
LEMMA AssemblyStarts ==
  ASSUME CollectionTypeOK, NEW c \in Collectors, CollectorInv(c), AssembleStart(c)
  PROVE  CollectorInv(c)'
<1>1. /\ UNCHANGED <<wpc, calls, payload, dnext, fetching, derr>>
      /\ cpc[c] = "downloaded" /\ out' = out /\ cret' = cret
      /\ cpc'[c] = "assemble" /\ cursor'[c] = 0
  BY DEF CollectionTypeOK, AssembleStart, At, To, workerVars, downloadVars
<1>2. /\ cret[c] = "none" /\ out[c] = <<>> /\ \A t \in Tasks : wpc[t] = "exited"
      /\ \A u \in Tasks : Captured(c, u)
  BY <1>1 DEF CollectorInv, PollInv, DownloadInv, OutInv
<1>3. \A u \in Tasks : Captured(c, u)'
  BY <1>1, <1>2 DEF Captured, Ended, Payload
<1>4. PollInv(c)' /\ DownloadInv(c)'
  BY <1>1, <1>2, <1>3 DEF PollInv, DownloadInv, HasResults, WithResults
<1>5. OutInv(c)'
  BY <1>1, <1>2, Positions DEF OutInv, HasResults, WithResults, Position
<1> QED
  BY <1>4, <1>5 DEF CollectorInv

LEMMA Joined ==
  ASSUME NEW S, NEW a \in Seq(S), NEW b \in Seq(S)
  PROVE  /\ Len(a \o b) = Len(a) + Len(b)
         /\ \A i \in 1..(Len(a) + Len(b)) :
              (a \o b)[i] = IF i <= Len(a) THEN a[i] ELSE b[i - Len(a)]
  OBVIOUS

\* One payload is appended.
LEMMA AssemblyGrows ==
  ASSUME CollectionTypeOK, NEW c \in Collectors, CollectorInv(c), AssembleOne(c)
  PROVE  CollectorInv(c)'
<1> DEFINE u == cursor[c]
           p == Payload(u, calls[u])
<1>1. /\ cpc[c] = "assemble" /\ cret[c] = "none" /\ \A t \in Tasks : wpc[t] = "exited"
      /\ \A t \in Tasks : Captured(c, t)
  BY DEF CollectorInv, PollInv, DownloadInv, AssembleOne, At
<1>2. /\ u \in Tasks /\ payload[c][u] = p
      /\ Len(out[c]) = Position(u) /\ out[c] \in Seq(Entry)
      /\ \A k \in 0..(Len(out[c]) - 1) : Placed(c, k)
  <2>1. cursor[c] \in 0..NumTasks /\ cursor[c] < NumTasks /\ NumTasks \in Nat
    BY TaskFacts DEF CollectionTypeOK, AssembleOne
  <2>2. u \in Tasks
    BY <2>1 DEF Tasks
  <2> QED
    BY <1>1, <2>2 DEF CollectorInv, OutInv, Captured, CollectionTypeOK
<1>3. /\ out'[c] = out[c] \o p /\ cursor'[c] = u + 1
      /\ UNCHANGED <<wpc, calls, cpc, cret, dnext, fetching, derr, payload>>
  <2>1. /\ out' = [out EXCEPT ![c] = @ \o payload[c][u]]
        /\ cursor' = [cursor EXCEPT ![c] = @ + 1]
        /\ UNCHANGED <<wpc, calls, cpc, cret, dnext, fetching, derr, payload>>
    BY DEF AssembleOne, workerVars, downloadVars
  <2>2. out \in [Collectors -> Seq(Entry)] /\ cursor \in [Collectors -> 0..NumTasks]
    BY DEF CollectionTypeOK
  <2> QED
    BY <1>2, <2>1, <2>2
<1>4. /\ p \in Seq(Entry) /\ Len(p) = Width(u) /\ Width(u) \in Nat /\ First(u) \in Nat
      /\ Position(u) = First(u) /\ Position(u + 1) = First(u) + Width(u)
  BY <1>2, PayloadType, TaskFacts, Positions
<1> HIDE DEF p
<1>5. /\ Len(out'[c]) = First(u) + Width(u)
      /\ \A i \in 1..(First(u) + Width(u)) :
           out'[c][i] = IF i <= First(u) THEN out[c][i] ELSE p[i - First(u)]
  <2>1. Len(out[c]) = First(u)
    BY <1>2, <1>4
  <2>2. /\ Len(out[c] \o p) = Len(out[c]) + Len(p)
        /\ \A i \in 1..(Len(out[c]) + Len(p)) :
             (out[c] \o p)[i] = IF i <= Len(out[c]) THEN out[c][i] ELSE p[i - Len(out[c])]
    BY <1>2, <1>4, Joined
  <2> QED
    BY <1>3, <1>4, <2>1, <2>2
<1>6. ASSUME NEW k \in 0..(First(u) + Width(u) - 1)
      PROVE  Placed(c, k)'
  <2>1. k \in Nat /\ k + 1 \in 1..(First(u) + Width(u))
    BY <1>4
  <2>2. CASE k < First(u)
    <3>1. Placed(c, k) /\ out'[c][k + 1] = out[c][k + 1]
      BY <1>2, <1>4, <1>5, <2>1, <2>2
    <3> QED
      BY <1>3, <3>1 DEF Placed, Payload
  <2>3. CASE ~(k < First(u))
    <3>1. First(u) <= k /\ k < First(u) + Width(u) /\ out'[c][k + 1] = p[k + 1 - First(u)]
      BY <1>4, <1>5, <2>1, <2>3
    <3> QED
      BY <1>2, <1>3, <3>1 DEF Placed, p, Payload
  <2> QED
    BY <2>2, <2>3
<1> HIDE DEF u
<1>7. OutInv(c)'
  BY <1>1, <1>3, <1>4, <1>5, <1>6 DEF OutInv, HasResults, WithResults, Position
<1>8. \A t \in Tasks : Captured(c, t)'
  BY <1>1, <1>3 DEF Captured, Ended, Payload
<1>9. PollInv(c)' /\ DownloadInv(c)'
  BY <1>1, <1>3, <1>8 DEF PollInv, DownloadInv, HasResults, WithResults
<1> QED
  BY <1>7, <1>9 DEF CollectorInv

\* The answer is given when the last payload is there.
LEMMA AssemblyEnds ==
  ASSUME CollectionTypeOK, NEW c \in Collectors, CollectorInv(c),
         AssembleStrict(c) \/ AssembleTolerant(c)
  PROVE  CollectorInv(c)'
<1>1. /\ cpc[c] = "assemble" /\ cursor[c] = NumTasks
      /\ UNCHANGED <<out, wpc, calls, payload>> /\ cpc'[c] = "returned"
      /\ cret'[c] \in {"results", "partial", "tolerant", "error"}
      /\ cret'[c] = "results" => ~AnyFailed(c)
      /\ cret'[c] = "partial" => AnyFailed(c)
  BY
    DEF CollectionTypeOK, AssembleStrict, AssembleTolerant, At, Answer, workerVars, downloadVars
<1>2. /\ Len(out[c]) = NumItems /\ \A k \in 0..(Len(out[c]) - 1) : Placed(c, k)
      /\ \A t \in Tasks : wpc[t] = "exited" /\ Captured(c, t)
  BY <1>1, Positions DEF CollectorInv, OutInv, DownloadInv
<1>3. \A k : Placed(c, k)' <=> Placed(c, k)
  BY <1>1 DEF Placed, Payload
<1>4. AnyFailed(c)' <=> AnyFailed(c)
  BY <1>1 DEF AnyFailed
<1>5. \A t \in Tasks : Captured(c, t)'
  BY <1>1, <1>2 DEF Captured, Ended, Payload
<1>6. OutInv(c)'
  BY <1>1, <1>2, <1>3, <1>4 DEF OutInv
<1>7. PollInv(c)' /\ DownloadInv(c)'
  BY <1>1, <1>2, <1>5 DEF PollInv, DownloadInv
<1> QED
  BY <1>6, <1>7 DEF CollectorInv

\* Every step of a collector keeps its invariant and the others'.
LEMMA CollectorsCollect ==
  ASSUME WorkersInv, CollectionTypeOK, \A c \in Collectors : CollectorInv(c),
         NEW c \in Collectors, CollectorStep(c)
  PROVE  WorkersInv' /\ \A d \in Collectors : CollectorInv(d)'
<1>1. CollectorInv(c)'
  BY Polling, Downloading, AssemblyStarts, AssemblyGrows, AssemblyEnds
  DEF CollectorStep, CollectRun
<1>2. UNCHANGED workerVars /\ \A d \in Collectors : d # c => Untouched(d)
  BY CollectorAlone
<1>3. UNCHANGED <<status, result, wpc, calls>>
  BY <1>2 DEF workerVars, storeVars
<1>4. WorkersInv'
  BY <1>3, WorkersDelete
<1>5. ASSUME NEW d \in Collectors, d # c PROVE CollectorInv(d)'
  BY <1>2, <1>3, <1>5, CollectorFrame
<1> QED
  BY <1>1, <1>4, <1>5
-----------------------------------------------------------------------------
(* What an answer carries.                                                 *)

\* Every item is at its place.
Assembled(c) ==
  /\ \A t \in Tasks : Captured(c, t)
  /\ Len(out[c]) = NumItems
  /\ \A k \in 0..(Len(out[c]) - 1) : Placed(c, k)

LEMMA ResultsAssembled ==
  ASSUME NEW c \in Collectors, CollectorInv(c), HasResults(c)
  PROVE  Assembled(c)
BY DEF CollectorInv, DownloadInv, OutInv, Assembled

\* What a complete answer carries.
LEMMA AnswerItems ==
  ASSUME WorkersInv, NEW c \in Collectors, Assembled(c), "blank" \notin Faults, NEW k \in Items
  PROVE  /\ Called(k)
         /\ out[c][k + 1] =
              [value |-> IF Succeeded(k) THEN k ELSE Null, error |-> ~Succeeded(k)]
<1> DEFINE t == TaskOf[k]
           i == k + 1 - First(t)
<1>1. k \in Nat /\ k < NumItems /\ NumItems \in Nat
  BY SizeAssumption DEF Items
<1>2. Placed(c, k)
  BY <1>1 DEF Assembled
<1>3. /\ t \in Tasks /\ First(t) <= k /\ k < First(t) + Width(t)
      /\ out[c][k + 1] = Payload(t, calls[t])[i]
  BY <1>1, <1>2, OneTask DEF Placed
<1>4. First(t) \in Nat /\ Width(t) \in Nat /\ i \in 1..Width(t)
  <2>1. First(t) \in Nat /\ Width(t) \in Nat
    BY <1>3, TaskFacts
  <2> HIDE DEF t
  <2> QED BY <1>1, <1>3, <2>1
<1>5. calls[t] # <<>> /\ calls[t][i] \in {"ok", "error"}
  <2>1. Captured(c, t)
    BY <1>3 DEF Assembled
  <2>2. calls[t] # <<>>
    BY <1>3, <2>1, TaskFacts DEF Captured, Ended
  <2>3. calls[t][i] \in Endings /\ calls[t][i] # "blank"
    <3> HIDE DEF t, i
    <3> QED BY <1>3, <1>4, <2>1, <2>2 DEF Captured, Ended, WorkersInv
  <2> HIDE DEF t, i
  <2> QED
    BY <2>2, <2>3 DEF Endings
<1>6. Succeeded(k) <=> calls[t][i] = "ok"
  <2>1. k - First(t) + 1 = i
    <3> HIDE DEF t
    <3> QED BY <1>1, <1>4
  <2> QED
    BY <2>1 DEF Succeeded
<1>7. Payload(t, calls[t])[i] =
        [value |-> IF calls[t][i] = "ok" THEN k ELSE Null, error |-> calls[t][i] = "error"]
  <2>1. First(t) + i - 1 = k
    <3> HIDE DEF t
    <3> QED BY <1>1, <1>4
  <2> HIDE DEF t, i
  <2> QED
    BY <1>4, <2>1 DEF Payload
<1>8. (calls[t][i] = "error") = (~Succeeded(k))
  <2> HIDE DEF t, i
  <2> QED BY <1>5, <1>6
<1> QED
  BY <1>2, <1>3, <1>5, <1>6, <1>7, <1>8 DEF Called

\* It shows a failure where an item failed.
LEMMA AnswerFailures ==
  ASSUME WorkersInv, NEW c \in Collectors, Assembled(c), "blank" \notin Faults
  PROVE  AnyFailed(c) <=> \E k \in Items : ~Succeeded(k)
<1>1. ASSUME NEW k \in Items PROVE out[c][k + 1].error = ~Succeeded(k)
  <2>1. out[c][k + 1] =
          [value |-> IF Succeeded(k) THEN k ELSE Null, error |-> ~Succeeded(k)]
    BY AnswerItems
  <2> QED
    BY <2>1
<1>2. Len(out[c]) = NumItems /\ NumItems \in Nat
  BY SizeAssumption DEF Assembled
<1>3. ASSUME AnyFailed(c) PROVE \E k \in Items : ~Succeeded(k)
  <2>1. PICK i \in 1..NumItems : out[c][i].error
    BY <1>2, <1>3 DEF AnyFailed
  <2>2. i - 1 \in Items /\ (i - 1) + 1 = i
    BY <1>2 DEF Items
  <2>3. out[c][(i - 1) + 1].error = ~Succeeded(i - 1)
    BY <1>1, <2>2
  <2> QED
    BY <2>1, <2>2, <2>3 DEF Succeeded
<1>4. ASSUME NEW k \in Items, ~Succeeded(k) PROVE AnyFailed(c)
  <2>1. k + 1 \in 1..Len(out[c])
    BY <1>2 DEF Items
  <2>2. out[c][k + 1].error = TRUE
    BY <1>1, <1>4
  <2> QED
    BY <2>1, <2>2 DEF AnyFailed
<1> QED
  BY <1>3, <1>4

\* Two collectors that hold all results have put them together alike.
LEMMA SameAnswers ==
  ASSUME CollectionTypeOK, NEW c \in Collectors, NEW d \in Collectors,
         Assembled(c), Assembled(d)
  PROVE  out[c] = out[d]
<1>1. /\ out[c] \in Seq(Entry) /\ out[d] \in Seq(Entry)
      /\ Len(out[c]) = NumItems /\ Len(out[d]) = NumItems /\ NumItems \in Nat
  BY SizeAssumption DEF CollectionTypeOK, Assembled
<1>2. ASSUME NEW k \in 0..(NumItems - 1) PROVE out[c][k + 1] = out[d][k + 1]
  <2>1. Placed(c, k) /\ Placed(d, k) /\ k \in Nat
    BY <1>1 DEF Assembled
  <2>2. PICK t \in Tasks : /\ First(t) <= k /\ k < First(t) + Width(t)
                           /\ out[c][k + 1] = Payload(t, calls[t])[k + 1 - First(t)]
    BY <2>1 DEF Placed
  <2>3. PICK u \in Tasks : /\ First(u) <= k /\ k < First(u) + Width(u)
                           /\ out[d][k + 1] = Payload(u, calls[u])[k + 1 - First(u)]
    BY <2>1 DEF Placed
  <2>4. t = TaskOf[k]
    BY <2>1, <2>2, OneTask
  <2>5. u = TaskOf[k]
    BY <2>1, <2>3, OneTask
  <2> QED
    BY <2>2, <2>3, <2>4, <2>5
<1>3. ASSUME NEW i \in 1..NumItems PROVE out[c][i] = out[d][i]
  <2>1. i - 1 \in 0..(NumItems - 1) /\ (i - 1) + 1 = i
    BY <1>1
  <2>2. out[c][(i - 1) + 1] = out[d][(i - 1) + 1]
    BY <1>2, <2>1
  <2> QED
    BY <2>1, <2>2
<1> QED
  BY <1>1, <1>3
-----------------------------------------------------------------------------
(* Steps of AnswerContract.                                                *)

\* Without a call of fn no item changes its fate.
LEMMA FatesFrame ==
  ASSUME UNCHANGED calls
  PROVE  Fates' = Fates
<1>1. \A k : (Called(k)' <=> Called(k)) /\ (Succeeded(k)' <=> Succeeded(k))
  BY DEF Called, Succeeded
<1> QED
  BY <1>1 DEF Fates

\* A worker settles its items once.
LEMMA FatesSettle ==
  ASSUME WorkerTypeOK, WorkersInv, NEW t \in Tasks, WorkerRun(t) \/ WorkerCrash(t)
  PROVE  /\ Fates' \in [Items -> {"pending", "ok", "failed"}]
         /\ \A k \in Items : Fates[k] # "pending" => Fates'[k] = Fates[k]
<1>1. \A u \in Tasks : calls[u] # <<>> => calls'[u] = calls[u]
  <2>1. \A u \in Tasks : u # t => calls'[u] = calls[u]
    BY WorkerFrame
  <2>2. calls[t] # <<>> => calls' = calls
    BY DEF WorkerRun, WorkerStart, WorkerFetch, WorkerCall, WorkerPutResult,
       WorkerPutStatus, WorkerReportError, WorkerReportFailed, WorkerCrash, WorkersInv
  <2> QED
    BY <2>1, <2>2
<1>2. \A k \in Items : Called(k) => Called(k)' /\ (Succeeded(k)' <=> Succeeded(k))
  BY <1>1, SomeTask DEF Called, Succeeded
<1> QED
  BY <1>2 DEF Fates

\* A complete answer is what the contract carries: every item's fate, in order.
LEMMA CompleteAnswer ==
  ASSUME WorkersInv, CollectionTypeOK, NEW c \in Collectors, Assembled(c), "blank" \notin Faults
  PROVE  /\ out[c] = [i \in 1..NumItems |->
                        [value |-> IF Fates[i - 1] = "ok" THEN i - 1 ELSE Null,
                         error |-> Fates[i - 1] = "failed"]]
         /\ \A k \in Items : Fates[k] \in {"ok", "failed"}
         /\ AnyFailed(c) <=> \E k \in Items : Fates[k] = "failed"
<1>1. Len(out[c]) = NumItems /\ NumItems \in Nat
  BY SizeAssumption DEF Assembled
<1>2. ASSUME NEW k \in Items
      PROVE  /\ Fates[k] = IF Succeeded(k) THEN "ok" ELSE "failed"
             /\ out[c][k + 1] =
                  [value |-> IF Fates[k] = "ok" THEN k ELSE Null, error |-> Fates[k] = "failed"]
  <2>1. /\ Called(k)
        /\ out[c][k + 1] =
             [value |-> IF Succeeded(k) THEN k ELSE Null, error |-> ~Succeeded(k)]
    BY AnswerItems
  <2>2. Fates[k] = IF Succeeded(k) THEN "ok" ELSE "failed"
    BY <2>1 DEF Fates
  <2>3. (Fates[k] = "failed") = (~Succeeded(k)) /\ (Fates[k] = "ok" <=> Succeeded(k))
    BY <2>2
  <2> QED
    BY <2>1, <2>2, <2>3
<1>3. ASSUME NEW i \in 1..NumItems
      PROVE  out[c][i] = [value |-> IF Fates[i - 1] = "ok" THEN i - 1 ELSE Null,
                          error |-> Fates[i - 1] = "failed"]
  <2>1. i - 1 \in Items /\ (i - 1) + 1 = i
    BY <1>1 DEF Items
  <2> QED
    BY <1>2, <2>1
<1>4. out[c] = [i \in 1..NumItems |-> out[c][i]]
  <2>1. out[c] \in Seq(Entry)
    BY DEF CollectionTypeOK
  <2> QED
    BY <1>1, <2>1
<1>5. out[c] = [i \in 1..NumItems |->
                  [value |-> IF Fates[i - 1] = "ok" THEN i - 1 ELSE Null,
                   error |-> Fates[i - 1] = "failed"]]
  BY <1>3, <1>4
<1>6. AnyFailed(c) <=> \E k \in Items : ~Succeeded(k)
  BY AnswerFailures
<1> QED
  BY <1>2, <1>5, <1>6
-----------------------------------------------------------------------------
(* When nothing fails but calls of fn.                                     *)

\* A worker that has ended has said that it has results.
Reported(t) ==
  /\ wpc[t] \notin {"reportError", "reportFailed"} /\ status[t] # "failed"
  /\ wpc[t] = "exited" => status[t] \in {"done", "partial"}

\* Collector c has met no error.
Unhurt(c) ==
  /\ ~cctx[c] /\ ~derr[c] /\ cpc[c] # "expired"
  /\ cret[c] \in {"none"} \cup WithResults

\* A worker that finds its task file reports its results.
LEMMA WorkerReports ==
  ASSUME Healthy, WorkerTypeOK, NEW t \in Tasks, WorkerRun(t) \/ WorkerCrash(t), task[t],
         \A u \in Tasks : Reported(u)
  PROVE  \A u \in Tasks : Reported(u)'
<1> USE DEF Goto, Stored
<1>0. Faults \cap {"s3", "code", "crash"} = {}
  BY DEF Healthy
<1>1. /\ wpc \in [Tasks -> {"idle", "launched", "fetch", "call", "putResult",
                            "putStatus", "reportError", "reportFailed", "exited"}]
      /\ status \in [Tasks -> {"none", "running"} \cup Terminal]
  BY DEF WorkerTypeOK
<1>2. \A r \in PutOutcomes : r.ok /\ r.stored
  BY <1>0 DEF PutOutcomes
<1>3. wpc[t] \notin {"reportError", "reportFailed"} /\ status[t] # "failed"
  BY DEF Reported
<1>4. /\ wpc'[t] \notin {"reportError", "reportFailed"} /\ status'[t] # "failed"
      /\ wpc'[t] = "exited" => status'[t] \in {"done", "partial"}
  <2>1. CASE WorkerStart(t)
    BY <1>1, <1>2, <2>1 DEF WorkerStart
  <2>2. CASE WorkerFetch(t)
    BY <1>0, <1>1, <1>3, <2>2 DEF WorkerFetch, storeVars
  <2>3. CASE WorkerCall(t)
    BY <1>0, <1>1, <1>3, <2>3 DEF WorkerCall, storeVars
  <2>4. CASE WorkerPutResult(t)
    BY <1>1, <1>2, <1>3, <2>4 DEF WorkerPutResult
  <2>5. CASE WorkerPutStatus(t)
    BY <1>1, <1>2, <2>5 DEF WorkerPutStatus
  <2>6. CASE WorkerReportError(t) \/ WorkerReportFailed(t) \/ WorkerCrash(t)
    BY <1>0, <1>3, <2>6 DEF WorkerReportError, WorkerReportFailed, WorkerCrash
  <2> QED
    BY <2>1, <2>2, <2>3, <2>4, <2>5, <2>6 DEF WorkerRun
<1>5. \A u \in Tasks : u # t => wpc'[u] = wpc[u] /\ status'[u] = status[u]
  BY WorkerFrame
<1> QED
  BY <1>4, <1>5 DEF Reported

\* A collector whose context lasts, and that finds every result it downloads,
\* meets no error.
LEMMA UnhurtStays ==
  ASSUME Healthy, CollectionTypeOK, NEW c \in Collectors, CollectorStep(c), Unhurt(c),
         cpc[c] = "download" => \A t \in Tasks : result[t] # NoFile
  PROVE  Unhurt(c)'
<1> USE DEF CollectionTypeOK, At, To, Answer, Unhurt, WithResults
<1>0. Faults \cap {"s3", "type"} = {}
  BY DEF Healthy
<1>1. CASE PollTick(c) \/ PollExpired(c) \/ CountStatus(c) \/ PassEnd(c) \/ TimeoutEnd(c)
  BY <1>1 DEF PollTick, PollExpired, StartPass, CountStatus, PassEnd, TimeoutEnd, downloadVars
<1>2. CASE DownloadSpawn(c)
  BY <1>2 DEF DownloadSpawn
<1>3. ASSUME NEW t \in Tasks, DownloadOne(c, t) PROVE Unhurt(c)'
  BY <1>0, <1>3 DEF DownloadOne, ReadFails
<1>4. CASE DownloadJoin(c)
  BY <1>4 DEF DownloadJoin, downloadVars
<1>5. CASE AssembleStart(c) \/ AssembleOne(c)
  BY <1>5 DEF AssembleStart, AssembleOne, downloadVars
<1>6. CASE AssembleStrict(c) \/ AssembleTolerant(c)
  BY <1>0, <1>6 DEF AssembleStrict, AssembleTolerant, downloadVars
<1> QED
  BY <1>1, <1>2, <1>3, <1>4, <1>5, <1>6 DEF CollectorStep, CollectRun
=============================================================================
