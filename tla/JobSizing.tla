----------------------------- MODULE JobSizing ------------------------------
(***************************************************************************)
(* Sizing of one job, as Map and Submit compute it before anything is      *)
(* launched: the cost ceiling and the quota clamp of Map, the loop of      *)
(* chunkItems, Map's division by the number of chunks, and the wave loop   *)
(* of launchWorkers.  One behaviour is one job with arbitrary inputs.      *)
(***************************************************************************)
EXTENDS Sizing, Sequences

CONSTANTS
  MaxItems,     \* most items in a job
  MaxWorkers,   \* most workers a caller asks for
  MaxCPU,       \* most vCPUs per worker
  MaxQuota,     \* largest Fargate vCPU quota
  MaxBudget     \* largest cost ceiling, in vCPU-hours of the unit price

ASSUME BoundsAssumption ==
  /\ MaxItems \in Nat /\ MaxWorkers \in Nat \ {0} /\ MaxCPU \in Nat \ {0}
  /\ MaxQuota \in Nat /\ MaxBudget \in Nat

VARIABLES
  job,       \* the caller's inputs, never changed
  pc,        \* where the sizing code is
  actual,    \* actualWorkers
  n,         \* the n of chunkItems, after its clamp
  start,     \* start of the next chunk
  chunks,    \* chunk i covers items chunks[i+1][1] .. chunks[i+1][2]-1
  launched,  \* loop variable of launchWorkers
  waves      \* the waves launched so far, as task ranges

vars == <<job, pc, actual, n, start, chunks, launched, waves>>

\* quota is 0 when the lookup failed (Map) or was never configured (Submit);
\* budget is 0 when no MaxCost is set.
Jobs == [caller  : {"Map", "Submit"},
         items   : 0..MaxItems,
         workers : 1..MaxWorkers,
         cpu     : 1..MaxCPU,
         quota   : 0..MaxQuota,
         budget  : 0..MaxBudget]

\* EstimateCostPerHour is proportional to workers and vCPUs; the requested
\* worker count is used, before the quota clamp.
CostPerHour(j) == j.workers * j.cpu

Size == job.items \div n
WaveStep == WaveSize(Len(chunks), job.cpu, job.quota)

Init ==
  /\ job \in Jobs
  /\ pc = IF job.caller = "Map" THEN "cost" ELSE "chunk"
  /\ actual = job.workers
  /\ n = 0 /\ start = 0 /\ chunks = <<>>
  /\ launched = 0 /\ waves = <<>>

\* Slip: a cost above the ceiling only warns.
CostCheckIgnored ==
  /\ pc = "cost"
  /\ pc' = "quota"
  /\ UNCHANGED <<job, actual, n, start, chunks, launched, waves>>

CostCheck ==
  /\ pc = "cost"
  /\ pc' = IF job.budget > 0 /\ CostPerHour(job) > job.budget
             THEN "refused" ELSE "quota"
  /\ UNCHANGED <<job, actual, n, start, chunks, launched, waves>>

QuotaClamp ==
  /\ pc = "quota"
  /\ actual' = ActualWorkers(job.workers, job.cpu, job.quota)
  /\ pc' = "chunk"
  /\ UNCHANGED <<job, n, start, chunks, launched, waves>>

\* Slip: more chunks than items.
ChunkEnterUnclamped ==
  /\ pc = "chunk"
  /\ IF actual <= 0 \/ job.items = 0
       THEN pc' = "average" /\ n' = 0
       ELSE pc' = "fill" /\ n' = actual
  /\ UNCHANGED <<job, actual, start, chunks, launched, waves>>

ChunkEnter ==
  /\ pc = "chunk"
  /\ n' = ChunkCount(job.items, actual)
  /\ pc' = IF n' = 0 THEN "average" ELSE "fill"
  /\ UNCHANGED <<job, actual, start, chunks, launched, waves>>

\* Slip: the last chunk is no longer than the others.
ChunkStepNoRemainder ==
  /\ pc = "fill" /\ Len(chunks) < n
  /\ chunks' = Append(chunks, <<start, start + Size>>)
  /\ start' = start + Size
  /\ UNCHANGED <<job, pc, actual, n, launched, waves>>

ChunkStep ==
  /\ pc = "fill" /\ Len(chunks) < n
  /\ LET end == IF Len(chunks) = n - 1 THEN job.items ELSE start + Size
     IN  chunks' = Append(chunks, <<start, end>>) /\ start' = end
  /\ UNCHANGED <<job, pc, actual, n, launched, waves>>

ChunkExit ==
  /\ pc = "fill" /\ Len(chunks) = n
  /\ pc' = "average"
  /\ UNCHANGED <<job, actual, n, start, chunks, launched, waves>>

\* Map prints len(items)/len(chunks); Submit does not compute it.
AverageItems ==
  /\ pc = "average"
  /\ pc' = IF job.caller = "Map" /\ Len(chunks) = 0 THEN "panicked" ELSE "launch"
  /\ UNCHANGED <<job, actual, n, start, chunks, launched, waves>>

\* Slip: the last wave is not cut at the last task.
LaunchWaveUnclamped ==
  /\ pc = "launch" /\ launched < Len(chunks)
  /\ waves' = Append(waves, <<launched, launched + WaveStep>>)
  /\ launched' = launched + WaveStep
  /\ UNCHANGED <<job, pc, actual, n, start, chunks>>

LaunchWave ==
  /\ pc = "launch" /\ launched < Len(chunks)
  /\ LET next == launched + WaveStep
         end  == IF next > Len(chunks) THEN Len(chunks) ELSE next
     IN  waves' = Append(waves, <<launched, end>>) /\ launched' = next
  /\ UNCHANGED <<job, pc, actual, n, start, chunks>>

LaunchDone ==
  /\ pc = "launch" /\ launched >= Len(chunks)
  /\ pc' = "done"
  /\ UNCHANGED <<job, actual, n, start, chunks, launched, waves>>

Next == \/ CostCheck \/ QuotaClamp
        \/ ChunkEnter \/ ChunkStep \/ ChunkExit
        \/ AverageItems \/ LaunchWave \/ LaunchDone

Spec == Init /\ [][Next]_vars
-----------------------------------------------------------------------------
Chunked == pc \in {"average", "launch", "done", "panicked"}

\* r is a sequence of non-empty ranges that covers 0..top-1 in order.
Tiles(r, top) ==
  /\ \A i \in 1..Len(r) : r[i][1] < r[i][2]
  /\ \A i \in 1..(Len(r) - 1) : r[i][2] = r[i + 1][1]
  /\ r # <<>> => r[1][1] = 0 /\ r[Len(r)][2] = top

\* Every variable has its type.
TypeOK ==
  /\ job \in Jobs
  /\ pc \in {"cost", "quota", "refused", "chunk", "fill", "average", "launch",
             "done", "panicked"}
  /\ actual \in 0..MaxWorkers
  /\ n \in 0..MaxItems
  /\ start \in 0..MaxItems
  /\ chunks \in Seq((0..MaxItems) \X (0..MaxItems))
  /\ launched \in Nat
  /\ waves \in Seq((0..MaxWorkers) \X (0..MaxWorkers))

\* chunkItems loses no item, repeats none and keeps their order: the chunks
\* are consecutive non-empty slices from the first item to the last.
ChunksTileItems ==
  Chunked /\ chunks # <<>> => Tiles(chunks, job.items)

\* What the session modules take from the sizing is what its loops compute:
\* the chunks of Sizing's closed form, one for every worker or for every item;
\* waves of WaveStep tasks, cut at the last task; and for Map a single wave.
SizesHandedOver ==
  pc \in {"launch", "done"} =>
    LET tasks == Len(chunks)
    IN  /\ tasks = ChunkCount(job.items, actual)
        /\ \A i \in 1..tasks :
             chunks[i] = <<ChunkLo(job.items, tasks, i - 1), ChunkHi(job.items, tasks, i - 1)>>
        /\ tasks > 0 => WaveStep \in 1..tasks
        /\ job.caller = "Map" => WaveStep = tasks
        /\ \A i \in 1..Len(waves) :
             waves[i] = <<(i - 1) * WaveStep,
                          IF i * WaveStep > tasks THEN tasks ELSE i * WaveStep>>

\* The imbalance chunkItems allows: all chunks but the last have the same
\* width, and the last exceeds it by less than the number of chunks.
LastChunkBounded ==
  Chunked =>
    \A i \in 1..Len(chunks) :
      LET width == chunks[i][2] - chunks[i][1]
      IN  IF i < Len(chunks) THEN width = Size
          ELSE width >= Size /\ width < Size + n

\* The wave loop of launchWorkers starts every task exactly once, in order,
\* and no wave is empty (an empty wave would repeat for ever).
WavesTileTasks ==
  /\ \A i \in 1..Len(waves) : waves[i][1] < waves[i][2]
  /\ pc = "done" => Tiles(waves, Len(chunks))

\* A quota that fits at least one worker is never exceeded by the tasks of
\* one wave, whichever caller launches them.
WavesWithinQuota ==
  job.quota >= job.cpu =>
    \A i \in 1..Len(waves) : (waves[i][2] - waves[i][1]) * job.cpu <= job.quota

\* Map clamps its workers with the quota it then passes to launchWorkers, so
\* it never launches a second wave: waiting between waves is Submit's alone.
MapLaunchesOneWave == job.caller = "Map" => Len(waves) <= 1

\* Under a cost ceiling, the tasks that Map runs at once cost at most it.
MapWithinBudget ==
  job.caller = "Map" /\ job.budget > 0 =>
    \A i \in 1..Len(waves) : (waves[i][2] - waves[i][1]) * job.cpu <= job.budget

\* What is left to do: the phases that follow, then the turns left of the loop.
PhasesLeft ==
  [cost |-> 6, quota |-> 5, chunk |-> 4, fill |-> 3, average |-> 2, launch |-> 1,
   refused |-> 0, done |-> 0, panicked |-> 0]
TurnsLeft ==
  CASE pc = "fill" -> n - Len(chunks)
    [] pc = "launch" /\ launched < Len(chunks) -> Len(chunks) - launched
    [] OTHER -> 0
WorkLeft == PhasesLeft[pc] * (MaxItems + 1) + TurnsLeft

\* The sizing ends: each step, each turn of a loop included, leaves less to do.
\* A wave of no task would be launched again for ever.
SizingEnds == [][WorkLeft' < WorkLeft /\ WorkLeft \in Nat]_vars

\* What Map's comment promises of a quota too small for the request: the job
\* still runs, with fewer workers.
QuotaReducedJobRuns == job.items > 0 => pc # "panicked"
=============================================================================
