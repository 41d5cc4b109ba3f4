------------------------------- MODULE Sizing -------------------------------
(***************************************************************************)
(* The arithmetic that decides how many ECS tasks a job becomes, which     *)
(* items each task is given, and how many tasks may run at once.  Shared   *)
(* by the sizing state machine (JobSizing) and by the session modules.     *)
(***************************************************************************)
EXTENDS Integers

\* Map never asks for more workers than int(quotaVCPU)/CPU; an unknown quota
\* (0, the ignored error of the quota lookup) does not limit it.
ActualWorkers(workers, cpu, quota) ==
  IF quota > 0 /\ quota \div cpu < workers THEN quota \div cpu ELSE workers

\* The number of chunks chunkItems returns: none for no worker or no item,
\* and never more chunks than items.
ChunkCount(items, n) ==
  IF n <= 0 \/ items = 0 THEN 0 ELSE IF n > items THEN items ELSE n

\* Chunk i (from 0) of n is items[ChunkLo : ChunkHi], the last one absorbing
\* the remainder of the division.
ChunkLo(items, n, i) == i * (items \div n)
ChunkHi(items, n, i) == IF i = n - 1 THEN items ELSE (i + 1) * (items \div n)

\* Slip: a quota below one worker gives an empty wave.
WaveSizeUnguarded(tasks, cpu, quota) ==
  IF quota > 0 /\ quota \div cpu < tasks THEN quota \div cpu ELSE tasks

\* Slip: the quota is taken as a number of workers.
WaveSizeIgnoringCPU(tasks, cpu, quota) ==
  IF 0 < quota /\ quota < tasks THEN quota ELSE tasks

\* Tasks launched before waiting: all of them, unless a quota that fits at
\* least one worker fits fewer.
WaveSize(tasks, cpu, quota) ==
  LET ws == quota \div cpu
  IN  IF quota > 0 /\ cpu > 0 /\ ws > 0 /\ ws < tasks THEN ws ELSE tasks
=============================================================================
