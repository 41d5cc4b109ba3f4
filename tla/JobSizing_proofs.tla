-------------------------- MODULE JobSizing_proofs --------------------------
(***************************************************************************)
(* Proofs about JobSizing: for every job and every bound, what chunkItems  *)
(* and the wave loop of launchWorkers compute.  The inductive invariant is *)
(* the conjunction of the type invariant and the four named parts below.   *)
(***************************************************************************)
EXTENDS JobSizing, TLAPS

(* Arithmetic of the division by the number of chunks or by the vCPUs.     *)

\* Integer division, as the code uses it: the quotient times the divisor is
\* the dividend but for a remainder smaller than the divisor.
LEMMA Division ==
  ASSUME NEW a \in Nat, NEW d \in Nat, d > 0
  PROVE  /\ a \div d \in Nat
         /\ d * (a \div d) <= a
         /\ a < d * (a \div d) + d
  OBVIOUS

\* A product grows with each of its factors.
LEMMA ProductMonotone ==
  ASSUME NEW a \in Nat, NEW b \in Nat, NEW d \in Nat, a <= b
  PROVE  a * d <= b * d /\ a * d \in Nat /\ b * d \in Nat
  OBVIOUS

\* As many units of d as fit in a.
LEMMA QuotientFits ==
  ASSUME NEW w \in Nat, NEW a \in Nat, NEW d \in Nat, d > 0, w <= a \div d
  PROVE  w * d <= a
<1>1. a \div d \in Nat /\ d * (a \div d) <= a
  BY Division
<1>2. w * d <= (a \div d) * d
  BY <1>1, ProductMonotone
<1>3. (a \div d) * d = d * (a \div d) /\ w * d \in Nat /\ d * (a \div d) \in Nat
  BY <1>1
<1> QED
  BY <1>1, <1>2, <1>3

\* The next multiple.
LEMMA NextMultiple ==
  ASSUME NEW a \in Nat, NEW d \in Nat
  PROVE  (a + 1) * d = a * d + d /\ a * d \in Nat
  OBVIOUS

\* When there are at least as many items as chunks, no chunk is empty.
LEMMA QuotientPositive ==
  ASSUME NEW a \in Nat, NEW d \in Nat, d > 0, d <= a
  PROVE  a \div d >= 1
<1>1. a \div d \in Nat /\ a < d * (a \div d) + d
  BY Division
<1>2. ASSUME a \div d = 0 PROVE FALSE
  BY <1>1, <1>2
<1> QED
  BY <1>1, <1>2

\* The clamped number of workers is between none and what was asked for.
LEMMA ActualBounds ==
  ASSUME NEW w \in Nat, NEW c \in Nat \ {0}, NEW q \in Nat
  PROVE  /\ ActualWorkers(w, c, q) \in 0..w
         /\ q > 0 => ActualWorkers(w, c, q) <= q \div c
<1>1. q \div c \in Nat
  BY Division
<1> QED
  BY <1>1 DEF ActualWorkers

\* The wave size is at least 1 when there is a task, and at most the number
\* of tasks.
LEMMA WaveSizeBounds ==
  ASSUME NEW k \in Nat, NEW c \in Nat \ {0}, NEW q \in Nat
  PROVE  /\ WaveSize(k, c, q) \in 0..k
         /\ k > 0 => WaveSize(k, c, q) > 0
         /\ q >= c => WaveSize(k, c, q) <= q \div c
         /\ k <= q \div c \/ q = 0 => WaveSize(k, c, q) = k
<1>1. q \div c \in Nat
  BY Division
<1>2. q >= c => q \div c >= 1
  BY QuotientPositive
<1> QED
  BY <1>1, <1>2 DEF WaveSize

\* A wave no larger than the wave size fits in a quota of at least one worker.
LEMMA WaveFits ==
  ASSUME NEW k \in Nat, NEW c \in Nat \ {0}, NEW q \in Nat, q >= c,
         NEW w \in Nat, w <= WaveSize(k, c, q)
  PROVE  w * c <= q
<1>1. WaveSize(k, c, q) \in 0..k /\ WaveSize(k, c, q) <= q \div c
  BY WaveSizeBounds
<1>2. q \div c \in Nat
  BY Division
<1>3. w <= q \div c
  BY <1>1, <1>2
<1> QED
  BY <1>3, QuotientFits

\* The number of chunks is bounded by the workers and by the items.
LEMMA ChunkCountBounds ==
  ASSUME NEW k \in Nat, NEW w \in Nat
  PROVE  /\ ChunkCount(k, w) \in 0..k
         /\ ChunkCount(k, w) <= w
  BY DEF ChunkCount
-----------------------------------------------------------------------------
(* The inductive invariant.                                                *)

Early == {"cost", "quota", "refused", "chunk"}

\* Nothing is cut before chunkItems, nothing launched before launchWorkers.
NothingEarly ==
  /\ pc \in Early => n = 0 /\ start = 0 /\ chunks = <<>>
  /\ pc \notin {"launch", "done"} => launched = 0 /\ waves = <<>>

\* What Map's two checks establish for the rest of the call.
ClampInv ==
  /\ actual <= job.workers
  /\ job.caller = "Map" /\ pc \notin {"cost", "quota", "refused"} =>
       actual = ActualWorkers(job.workers, job.cpu, job.quota)
  /\ job.caller = "Map" /\ pc \notin {"cost", "refused"} /\ job.budget > 0 =>
       CostPerHour(job) <= job.budget

\* The loop invariant of chunkItems: the chunks cut so far, in closed form,
\* which is the form the session modules take from Sizing.
ChunkInv ==
  pc \notin Early =>
    /\ n = ChunkCount(job.items, actual)
    /\ Len(chunks) <= n
    /\ IF pc = "fill" THEN n > 0 ELSE Len(chunks) = n
    /\ Len(chunks) < n => start = Len(chunks) * Size
    /\ \A i \in 1..Len(chunks) :
         chunks[i] = <<ChunkLo(job.items, n, i - 1), ChunkHi(job.items, n, i - 1)>>

\* The loop invariant of launchWorkers: consecutive non-empty waves of at most
\* WaveStep tasks, up to the loop variable or the last task.
WaveInv ==
  /\ \A i \in 1..Len(waves) :
       waves[i][1] < waves[i][2] /\ waves[i][2] - waves[i][1] <= WaveStep
  /\ \A i \in 1..(Len(waves) - 1) : waves[i][2] = waves[i + 1][1]
  /\ waves = <<>> => launched = 0
  /\ waves # <<>> =>
       /\ waves[1][1] = 0
       /\ waves[Len(waves)][2] =
            IF launched > Len(chunks) THEN Len(chunks) ELSE launched
       /\ launched >= WaveStep
  /\ Len(waves) > 1 => WaveStep < Len(chunks)
  /\ pc = "done" => launched >= Len(chunks)

SizingInv == TypeOK /\ NothingEarly /\ ClampInv /\ ChunkInv /\ WaveInv
-----------------------------------------------------------------------------
\* The types of the job's inputs.
LEMMA JobTypes ==
  ASSUME NEW j \in Jobs
  PROVE  /\ j.caller \in {"Map", "Submit"}
         /\ j.items \in 0..MaxItems /\ j.items \in Nat
         /\ j.workers \in 1..MaxWorkers /\ j.workers \in Nat
         /\ j.cpu \in Nat \ {0} /\ j.quota \in Nat /\ j.budget \in Nat
  BY BoundsAssumption DEF Jobs

\* The invariant holds of a job that has just been handed in.
LEMMA SizingInit == Init => SizingInv
<1> SUFFICES ASSUME Init PROVE SizingInv
  OBVIOUS
<1>1. job \in Jobs /\ job.workers \in 1..MaxWorkers /\ job.workers \in Nat
      /\ job.caller \in {"Map", "Submit"}
  BY JobTypes DEF Init
<1>2. TypeOK
  BY <1>1, BoundsAssumption DEF Init, TypeOK
<1>3. NothingEarly
  BY DEF Init, NothingEarly, Early
<1>4. ClampInv
  BY <1>1 DEF Init, ClampInv
<1>5. ChunkInv
  BY DEF Init, ChunkInv, Early
<1>6. WaveInv
  BY DEF Init, WaveInv
<1> QED
  BY <1>2, <1>3, <1>4, <1>5, <1>6 DEF SizingInv

\* The cost check, the quota clamp, and the ends of the phases: no chunk and
\* no wave is added.
LEMMA ControlStep ==
  ASSUME SizingInv,
         CostCheck \/ QuotaClamp \/ ChunkEnter \/ ChunkExit \/ AverageItems \/ LaunchDone
  PROVE  SizingInv'
<1> USE DEF SizingInv
<1>1. /\ job \in Jobs /\ job.items \in 0..MaxItems /\ job.items \in Nat
      /\ job.workers \in 1..MaxWorkers /\ job.workers \in Nat
      /\ job.cpu \in Nat \ {0} /\ job.quota \in Nat /\ job.budget \in Nat
      /\ job.caller \in {"Map", "Submit"}
      /\ actual \in Nat
  BY JobTypes, BoundsAssumption DEF TypeOK
<1>2. ActualWorkers(job.workers, job.cpu, job.quota) \in 0..job.workers
  BY <1>1, ActualBounds
<1>3. /\ ChunkCount(job.items, actual) \in 0..job.items
      /\ ChunkCount(job.items, actual) <= actual
  BY <1>1, ChunkCountBounds
<1>a. CASE CostCheck
  <2>1. TypeOK'
    BY <1>a, <1>1 DEF CostCheck, TypeOK
  <2>2. NothingEarly' /\ ClampInv'
    BY <1>a, <1>1 DEF CostCheck, NothingEarly, ClampInv, Early, CostPerHour
  <2>3. ChunkInv' /\ WaveInv'
    BY <1>a, <1>1 DEF CostCheck, ChunkInv, WaveInv, NothingEarly, Early
  <2> QED
    BY <2>1, <2>2, <2>3
<1>b. CASE QuotaClamp
  <2>1. TypeOK'
    BY <1>b, <1>1, <1>2, BoundsAssumption DEF QuotaClamp, TypeOK
  <2>2. NothingEarly' /\ ClampInv'
    BY <1>b, <1>1, <1>2 DEF QuotaClamp, NothingEarly, ClampInv, Early, CostPerHour
  <2>3. ChunkInv' /\ WaveInv'
    BY <1>b, <1>1 DEF QuotaClamp, ChunkInv, WaveInv, NothingEarly, Early
  <2> QED
    BY <2>1, <2>2, <2>3
<1>c. CASE ChunkEnter
  <2>1. TypeOK'
    BY <1>c, <1>1, <1>3, BoundsAssumption DEF ChunkEnter, TypeOK
  <2>2. NothingEarly' /\ ClampInv'
    BY <1>c, <1>1 DEF ChunkEnter, NothingEarly, ClampInv, Early, CostPerHour
  <2>3. ChunkInv'
    BY <1>c, <1>1, <1>3 DEF ChunkEnter, ChunkInv, NothingEarly, Early, Size
  <2>4. WaveInv'
    BY <1>c, <1>1 DEF ChunkEnter, WaveInv, NothingEarly, Early
  <2> QED
    BY <2>1, <2>2, <2>3, <2>4
<1>d. CASE ChunkExit
  <2>1. TypeOK' /\ NothingEarly' /\ ClampInv'
    BY <1>d, <1>1 DEF ChunkExit, TypeOK, NothingEarly, ClampInv, Early, CostPerHour
  <2>2. ChunkInv'
    BY <1>d, <1>1 DEF ChunkExit, ChunkInv, Early, Size, TypeOK
  <2>3. WaveInv'
    BY <1>d, <1>1 DEF ChunkExit, WaveInv, NothingEarly, Early
  <2> QED
    BY <2>1, <2>2, <2>3
<1>e. CASE AverageItems
  <2>1. TypeOK' /\ NothingEarly' /\ ClampInv'
    BY <1>e, <1>1 DEF AverageItems, TypeOK, NothingEarly, ClampInv, Early, CostPerHour
  <2>2. ChunkInv'
    BY <1>e, <1>1 DEF AverageItems, ChunkInv, Early, Size
  <2>3. WaveInv'
    BY <1>e, <1>1 DEF AverageItems, WaveInv, NothingEarly, Early
  <2> QED
    BY <2>1, <2>2, <2>3
<1>f. CASE LaunchDone
  <2>1. TypeOK' /\ NothingEarly' /\ ClampInv'
    BY <1>f, <1>1 DEF LaunchDone, TypeOK, NothingEarly, ClampInv, Early, CostPerHour
  <2>2. ChunkInv'
    BY <1>f, <1>1 DEF LaunchDone, ChunkInv, Early, Size
  <2>3. WaveInv'
    BY <1>f, <1>1 DEF LaunchDone, WaveInv, WaveStep
  <2> QED
    BY <2>1, <2>2, <2>3
<1> QED
  BY <1>a, <1>b, <1>c, <1>d, <1>e, <1>f

\* One turn of the loop of chunkItems cuts the next chunk of the closed form.
LEMMA ChunkStepPreserves ==
  ASSUME SizingInv, ChunkStep
  PROVE  SizingInv'
<1> USE DEF SizingInv
<1> DEFINE k == Len(chunks)
           end == IF k = n - 1 THEN job.items ELSE start + Size
<1>1. /\ job \in Jobs /\ job.items \in 0..MaxItems /\ job.items \in Nat
      /\ actual \in Nat /\ n \in Nat /\ k \in Nat /\ MaxItems \in Nat
  BY JobTypes, BoundsAssumption DEF TypeOK
<1>2. /\ pc = "fill" /\ pc \notin Early /\ k < n /\ n > 0
      /\ n = ChunkCount(job.items, actual) /\ start = k * Size
      /\ waves = <<>> /\ launched = 0
  BY DEF ChunkStep, ChunkInv, NothingEarly, Early
<1>3. n <= job.items
  <2>1. ChunkCount(job.items, actual) \in 0..job.items
    BY <1>1, ChunkCountBounds
  <2> QED
    BY <1>1, <1>2, <2>1
<1>4. Size \in Nat /\ n * Size <= job.items
  BY <1>1, <1>2, Division DEF Size
<1>5. (k + 1) * Size = k * Size + Size /\ k * Size \in Nat
  BY <1>1, <1>4, NextMultiple
<1>6. (k + 1) * Size <= n * Size
  BY <1>1, <1>2, <1>4, ProductMonotone
<1>7. end \in 0..MaxItems /\ start \in 0..MaxItems
  BY <1>1, <1>2, <1>4, <1>5, <1>6
<1>8. /\ chunks' = Append(chunks, <<start, end>>) /\ start' = end
      /\ UNCHANGED <<job, pc, actual, n, launched, waves>>
  BY DEF ChunkStep
<1>9. /\ Len(chunks') = k + 1
      /\ \A i \in 1..k : chunks'[i] = chunks[i]
      /\ chunks'[k + 1] = <<start, end>>
  BY <1>8 DEF TypeOK
<1>10. TypeOK'
  BY <1>7, <1>8 DEF TypeOK
<1>11. NothingEarly' /\ ClampInv'
  BY <1>2, <1>8 DEF NothingEarly, ClampInv, Early, CostPerHour
<1>12. ChunkInv'
  <2>1. <<start, end>> = <<ChunkLo(job.items, n, k), ChunkHi(job.items, n, k)>>
    BY <1>1, <1>2, <1>4, <1>5 DEF ChunkLo, ChunkHi, Size
  <2>2. \A i \in 1..(k + 1) :
          chunks'[i] = <<ChunkLo(job.items, n, i - 1), ChunkHi(job.items, n, i - 1)>>
    <3> SUFFICES ASSUME NEW i \in 1..(k + 1)
                 PROVE chunks'[i] =
                   <<ChunkLo(job.items, n, i - 1), ChunkHi(job.items, n, i - 1)>>
      OBVIOUS
    <3>1. CASE i = k + 1
      BY <1>1, <1>9, <2>1, <3>1
    <3>2. CASE i # k + 1
      <4>1. i \in 1..k
        BY <1>1, <3>2
      <4>2. chunks[i] = <<ChunkLo(job.items, n, i - 1), ChunkHi(job.items, n, i - 1)>>
        BY <1>2, <4>1 DEF ChunkInv
      <4> QED
        BY <1>9, <4>1, <4>2
    <3> QED
      BY <3>1, <3>2
  <2>3. k + 1 < n => end = (k + 1) * Size
    BY <1>1, <1>2, <1>5
  <2>4. Size' = Size /\ Len(chunks') = k + 1 /\ pc' = "fill" /\ n' = n /\ job' = job
        /\ actual' = actual /\ start' = end
    BY <1>2, <1>8, <1>9 DEF Size
  <2>5. \A i \in 1..Len(chunks') :
          chunks'[i] = <<ChunkLo(job'.items, n', i - 1), ChunkHi(job'.items, n', i - 1)>>
    BY <2>2, <2>4
  <2>6. Len(chunks') <= n' /\ (Len(chunks') < n' => start' = Len(chunks') * Size')
    BY <1>1, <1>2, <2>3, <2>4
  <2> QED
    BY <1>2, <2>4, <2>5, <2>6 DEF ChunkInv
<1>13. WaveInv'
  BY <1>2, <1>8 DEF WaveInv
<1> QED
  BY <1>10, <1>11, <1>12, <1>13

\* One turn of the wave loop starts a non-empty wave where the last one ended.
LEMMA LaunchWavePreserves ==
  ASSUME SizingInv, LaunchWave
  PROVE  SizingInv'
<1> USE DEF SizingInv
<1> DEFINE k == Len(chunks)
           w == Len(waves)
           end == IF launched + WaveStep > k THEN k ELSE launched + WaveStep
<1>1. /\ job \in Jobs /\ job.cpu \in Nat \ {0} /\ job.quota \in Nat
      /\ job.workers \in 1..MaxWorkers /\ MaxWorkers \in Nat
      /\ actual \in Nat /\ n \in Nat /\ k \in Nat /\ w \in Nat /\ launched \in Nat
  BY JobTypes, BoundsAssumption DEF TypeOK
<1>2. /\ pc = "launch" /\ launched < k
      /\ n = ChunkCount(job.items, actual) /\ k = n /\ actual <= job.workers
  BY DEF LaunchWave, ChunkInv, ClampInv, Early
<1>3. k <= MaxWorkers
  <2>1. ChunkCount(job.items, actual) <= actual
    BY <1>1, JobTypes, ChunkCountBounds
  <2> QED
    BY <1>1, <1>2, <2>1
<1>4. WaveStep \in 1..k
  <2>1. /\ WaveSize(k, job.cpu, job.quota) \in 0..k
        /\ k > 0 => WaveSize(k, job.cpu, job.quota) > 0
    BY <1>1, WaveSizeBounds
  <2> QED
    BY <1>1, <1>2, <2>1 DEF WaveStep
<1>5. /\ waves' = Append(waves, <<launched, end>>)
      /\ launched' = launched + WaveStep
      /\ UNCHANGED <<job, pc, actual, n, start, chunks>>
      /\ WaveStep' = WaveStep
  BY DEF LaunchWave, WaveStep
<1>6. /\ Len(waves') = w + 1
      /\ \A i \in 1..w : waves'[i] = waves[i]
      /\ waves'[w + 1] = <<launched, end>>
  BY <1>5 DEF TypeOK
<1>7. launched < end /\ end - launched <= WaveStep /\ end \in 0..MaxWorkers
      /\ launched \in 0..MaxWorkers
  BY <1>1, <1>2, <1>3, <1>4
<1>8. TypeOK'
  <2>1. waves' \in Seq((0..MaxWorkers) \X (0..MaxWorkers))
    BY <1>5, <1>7 DEF TypeOK
  <2>2. launched' \in Nat
    BY <1>1, <1>4, <1>5
  <2> QED
    BY <1>5, <2>1, <2>2 DEF TypeOK
<1>9. NothingEarly' /\ ClampInv' /\ ChunkInv'
  BY <1>2, <1>5 DEF NothingEarly, ClampInv, ChunkInv, Early, CostPerHour, Size
<1>10. WaveInv'
  <2>1. \A i \in 1..(w + 1) : waves'[i][1] < waves'[i][2]
                              /\ waves'[i][2] - waves'[i][1] <= WaveStep
    <3> SUFFICES ASSUME NEW i \in 1..(w + 1)
                 PROVE waves'[i][1] < waves'[i][2]
                       /\ waves'[i][2] - waves'[i][1] <= WaveStep
      OBVIOUS
    <3>1. CASE i = w + 1
      BY <1>6, <1>7, <3>1
    <3>2. CASE i \in 1..w
      <4>1. waves[i][1] < waves[i][2] /\ waves[i][2] - waves[i][1] <= WaveStep
        BY <3>2 DEF WaveInv
      <4> QED
        BY <1>6, <3>2, <4>1
    <3> QED
      BY <1>1, <3>1, <3>2
  <2>2. w > 0 => waves[w][2] = launched
    BY <1>1, <1>2 DEF WaveInv
  <2>3. \A i \in 1..w : waves'[i][2] = waves'[i + 1][1]
    <3> SUFFICES ASSUME NEW i \in 1..w PROVE waves'[i][2] = waves'[i + 1][1]
      OBVIOUS
    <3>1. CASE i = w
      BY <1>6, <1>7, <2>2, <3>1
    <3>2. CASE i # w
      <4>1. i \in 1..w /\ i + 1 \in 1..w /\ i \in 1..(w - 1)
        BY <1>1, <3>2
      <4>2. waves[i][2] = waves[i + 1][1]
        BY <4>1 DEF WaveInv
      <4> QED
        BY <1>6, <4>1, <4>2
    <3> QED
      BY <3>1, <3>2
  <2>4. waves'[1][1] = 0
    <3>1. CASE w = 0
      BY <1>6, <3>1 DEF WaveInv, TypeOK
    <3>2. CASE w > 0
      <4>1. waves # <<>> /\ 1 \in 1..w
        BY <1>1, <3>2
      <4>2. waves[1][1] = 0
        BY <4>1 DEF WaveInv
      <4> QED
        BY <1>6, <4>1, <4>2
    <3> QED
      BY <1>1, <3>1, <3>2
  <2>5. waves'[w + 1][2] = IF launched' > k THEN k ELSE launched'
    BY <1>5, <1>6
  <2>6. launched' >= WaveStep /\ (w > 0 => WaveStep < k)
    BY <1>1, <1>2, <1>4, <1>5 DEF WaveInv, TypeOK
  <2>7. Len(chunks') = k /\ pc' = "launch"
    BY <1>2, <1>5
  <2>8. Len(waves') = w + 1 /\ (w + 1) - 1 = w /\ (w + 1 > 1 => w > 0)
    BY <1>1, <1>6
  <2> QED
    BY <1>5, <1>6, <2>1, <2>3, <2>4, <2>5, <2>6, <2>7, <2>8 DEF WaveInv
<1> QED
  BY <1>8, <1>9, <1>10

\* A step that changes nothing.
LEMMA SizingStutter ==
  ASSUME SizingInv, UNCHANGED vars
  PROVE  SizingInv'
<1> USE DEF SizingInv, vars
<1>1. TypeOK' /\ NothingEarly' /\ ClampInv'
  BY DEF TypeOK, NothingEarly, ClampInv, CostPerHour
<1>2. ChunkInv' /\ WaveInv'
  BY DEF ChunkInv, WaveInv, Size, WaveStep
<1> QED
  BY <1>1, <1>2

\* The sizing code keeps its invariant, for every job within any bounds.
THEOREM SizingCorrect == Spec => []SizingInv
<1>1. Init => SizingInv
  BY SizingInit
<1>2. SizingInv /\ [Next]_vars => SizingInv'
  BY ControlStep, ChunkStepPreserves, LaunchWavePreserves, SizingStutter DEF Next
<1> QED
  BY <1>1, <1>2, PTL DEF Spec

\* Every variable of the sizing keeps its type.
THEOREM SizingTypes == Spec => []TypeOK
<1>1. SizingInv => TypeOK
  BY DEF SizingInv
<1> QED
  BY <1>1, SizingCorrect, PTL

\* Facts that the theorems below take from the invariant.
LEMMA SizingFacts ==
  ASSUME SizingInv
  PROVE  /\ job.items \in Nat /\ job.workers \in Nat /\ job.cpu \in Nat \ {0}
         /\ job.quota \in Nat /\ job.budget \in Nat
         /\ actual \in Nat /\ n \in Nat /\ launched \in Nat
         /\ Len(chunks) \in Nat /\ Len(waves) \in Nat
         /\ \A i \in 1..Len(waves) : waves[i][1] \in Nat /\ waves[i][2] \in Nat
<1>1. job.items \in Nat /\ job.workers \in Nat /\ job.cpu \in Nat \ {0}
      /\ job.quota \in Nat /\ job.budget \in Nat
  BY JobTypes DEF SizingInv, TypeOK
<1>2. /\ actual \in Nat /\ n \in Nat /\ launched \in Nat
      /\ Len(chunks) \in Nat /\ Len(waves) \in Nat
  BY BoundsAssumption DEF SizingInv, TypeOK
<1>3. \A i \in 1..Len(waves) : waves[i] \in (0..MaxWorkers) \X (0..MaxWorkers)
  BY DEF SizingInv, TypeOK
<1> QED
  BY <1>1, <1>2, <1>3, BoundsAssumption

\* In a call of Map the wave size is the number of its tasks.
LEMMA MapStep ==
  ASSUME SizingInv, job.caller = "Map", pc \in {"launch", "done"}
  PROVE  WaveStep = Len(chunks)
<1>1. /\ job.items \in Nat /\ job.workers \in Nat
      /\ job.cpu \in Nat \ {0} /\ job.quota \in Nat
      /\ actual \in Nat /\ Len(chunks) \in Nat
  BY SizingFacts
<1>2. /\ actual = ActualWorkers(job.workers, job.cpu, job.quota)
      /\ Len(chunks) = ChunkCount(job.items, actual)
  BY DEF SizingInv, ClampInv, ChunkInv, Early
<1>3. job.quota > 0 => actual <= job.quota \div job.cpu
  BY <1>1, <1>2, ActualBounds
<1>4. Len(chunks) <= actual
  <2>1. ChunkCount(job.items, actual) <= actual
    BY <1>1, ChunkCountBounds
  <2> QED
    BY <1>2, <2>1
<1>5. job.quota \div job.cpu \in Nat
  BY <1>1, Division
<1>6. Len(chunks) <= job.quota \div job.cpu \/ job.quota = 0
  BY <1>1, <1>3, <1>4, <1>5
<1> QED
  BY <1>1, <1>6, WaveSizeBounds DEF WaveStep

\* Map launches at most one wave, whatever the job and the quota.
THEOREM MapNeverWaits == Spec => []MapLaunchesOneWave
<1>1. SizingInv => MapLaunchesOneWave
  <2> SUFFICES ASSUME SizingInv, job.caller = "Map", Len(waves) > 1 PROVE FALSE
    BY SizingFacts DEF MapLaunchesOneWave
  <2>1. pc \in {"launch", "done"} /\ WaveStep < Len(chunks)
    BY DEF SizingInv, NothingEarly, WaveInv
  <2> QED
    BY <2>1, MapStep, SizingFacts
<1> QED
  BY <1>1, SizingCorrect, PTL

\* When chunkItems has returned, its chunks are the closed form, and each has
\* at least Size items.
LEMMA ChunkedFacts ==
  ASSUME SizingInv, Chunked, Len(chunks) > 0
  PROVE  /\ Len(chunks) = n /\ n = ChunkCount(job.items, actual)
         /\ Size \in Nat /\ Size >= 1
         /\ (n - 1) * Size + Size <= job.items /\ (n - 1) * Size \in Nat
         /\ job.items < (n - 1) * Size + Size + n
         /\ \A i \in 1..n : chunks[i] =
              <<(i - 1) * Size, IF i = n THEN job.items ELSE i * Size>>
<1>1. /\ job.items \in Nat /\ actual \in Nat /\ n \in Nat /\ Len(chunks) \in Nat
  BY SizingFacts
<1>2. pc \notin Early /\ pc # "fill"
  BY DEF Chunked, Early
<1>3. Len(chunks) = n /\ n > 0 /\ n = ChunkCount(job.items, actual)
  BY <1>1, <1>2 DEF SizingInv, ChunkInv
<1>4. n <= job.items
  <2>1. ChunkCount(job.items, actual) \in 0..job.items
    BY <1>1, ChunkCountBounds
  <2> QED
    BY <1>1, <1>3, <2>1
<1>5. Size \in Nat /\ n * Size <= job.items /\ job.items < n * Size + n
  BY <1>1, <1>3, Division DEF Size
<1>6. Size >= 1
  BY <1>1, <1>3, <1>4, QuotientPositive DEF Size
<1>7. ((n - 1) + 1) * Size = (n - 1) * Size + Size /\ (n - 1) * Size \in Nat
  BY <1>1, <1>3, <1>5, NextMultiple
<1>8. (n - 1) + 1 = n
  BY <1>1
<1>9. \A i \in 1..n : chunks[i] =
        <<(i - 1) * Size, IF i = n THEN job.items ELSE i * Size>>
  <2> SUFFICES ASSUME NEW i \in 1..n
               PROVE chunks[i] = <<(i - 1) * Size, IF i = n THEN job.items ELSE i * Size>>
    OBVIOUS
  <2>1. chunks[i] = <<ChunkLo(job.items, n, i - 1), ChunkHi(job.items, n, i - 1)>>
    BY <1>2, <1>3 DEF SizingInv, ChunkInv
  <2>2. (i - 1) + 1 = i /\ (i - 1 = n - 1 <=> i = n)
    BY <1>1
  <2> QED
    BY <2>1, <2>2 DEF ChunkLo, ChunkHi, Size
<1> QED
  BY <1>1, <1>3, <1>5, <1>6, <1>7, <1>8, <1>9

\* chunkItems loses no item, repeats none and keeps their order, whatever the
\* numbers of items and of workers.
THEOREM ChunksAlwaysTile == Spec => []ChunksTileItems
<1>1. SizingInv => ChunksTileItems
  <2> SUFFICES ASSUME SizingInv, Chunked, chunks # <<>> PROVE Tiles(chunks, job.items)
    BY DEF ChunksTileItems
  <2>1. Len(chunks) > 0
    BY DEF SizingInv, TypeOK
  <2>2. /\ Len(chunks) = n /\ Size \in Nat /\ Size >= 1
        /\ (n - 1) * Size + Size <= job.items /\ (n - 1) * Size \in Nat
        /\ \A i \in 1..n : chunks[i] =
             <<(i - 1) * Size, IF i = n THEN job.items ELSE i * Size>>
    BY <2>1, ChunkedFacts
  <2>3. n \in Nat /\ n > 0 /\ job.items \in Nat
    BY <2>1, <2>2, SizingFacts
  <2>4. ASSUME NEW i \in 1..n PROVE chunks[i][1] < chunks[i][2]
    <3>1. CASE i = n
      BY <2>2, <2>3, <3>1
    <3>2. CASE i # n
      <4>1. ((i - 1) + 1) * Size = (i - 1) * Size + Size /\ (i - 1) * Size \in Nat
        BY <2>2, NextMultiple
      <4>2. (i - 1) + 1 = i
        OBVIOUS
      <4>3. (i - 1) * Size < i * Size
        BY <2>2, <4>1, <4>2
      <4> QED
        BY <2>2, <3>2, <4>3
    <3> QED
      BY <3>1, <3>2
  <2>5. ASSUME NEW i \in 1..(n - 1) PROVE chunks[i][2] = chunks[i + 1][1]
    <3>1. i \in 1..n /\ i + 1 \in 1..n /\ i # n /\ (i + 1) - 1 = i
      BY <2>3
    <3> QED
      BY <2>2, <3>1
  <2>6. chunks[1][1] = 0 /\ chunks[n][2] = job.items
    <3>1. 1 \in 1..n /\ n \in 1..n /\ (1 - 1) * Size = 0
      BY <2>2, <2>3
    <3> QED
      BY <2>2, <3>1
  <2> QED
    BY <2>2, <2>4, <2>5, <2>6 DEF Tiles
<1> QED
  BY <1>1, SizingCorrect, PTL

\* The waves launched so far in closed form, which is how Submission walks
\* through the tasks.
WaveForm ==
  /\ launched = Len(waves) * WaveStep
  /\ \A i \in 1..Len(waves) :
       waves[i] = <<(i - 1) * WaveStep,
                    IF i * WaveStep > Len(chunks) THEN Len(chunks) ELSE i * WaveStep>>

\* The wave size is a number, and a positive one when there is a task.
LEMMA StepFacts ==
  ASSUME SizingInv
  PROVE  WaveStep \in 0..Len(chunks) /\ (Len(chunks) > 0 => WaveStep \in 1..Len(chunks))
<1>1. Len(chunks) \in Nat /\ job.cpu \in Nat \ {0} /\ job.quota \in Nat
  BY SizingFacts
<1>2. /\ WaveSize(Len(chunks), job.cpu, job.quota) \in 0..Len(chunks)
      /\ Len(chunks) > 0 => WaveSize(Len(chunks), job.cpu, job.quota) > 0
  BY <1>1, WaveSizeBounds
<1> QED
  BY <1>1, <1>2 DEF WaveStep

LEMMA WaveFormNext ==
  ASSUME SizingInv, WaveForm, SizingInv', [Next]_vars
  PROVE  WaveForm'
<1>1. CASE LaunchWave
  <2> DEFINE k == Len(chunks)
             w == Len(waves)
             s == WaveStep
  <2>1. /\ k \in Nat /\ w \in Nat /\ k > 0 /\ launched = w * s
        /\ \A i \in 1..w : waves[i] = <<(i - 1) * s, IF i * s > k THEN k ELSE i * s>>
    BY <1>1, SizingFacts DEF LaunchWave, WaveForm
  <2>2. s \in 1..k
    BY <2>1, StepFacts
  <2>3. waves' = Append(waves, <<launched, IF launched + s > k THEN k ELSE launched + s>>)
        /\ launched' = launched + s /\ Len(chunks') = k /\ WaveStep' = s
    BY <1>1 DEF LaunchWave, WaveStep
  <2> HIDE DEF s, k
  <2>4. (w + 1) * s = w * s + s /\ w * s \in Nat /\ s \in Nat
    BY <2>1, <2>2, NextMultiple
  <2>5. /\ Len(waves') = w + 1
        /\ \A i \in 1..w : waves'[i] = waves[i]
        /\ waves'[w + 1] = <<launched, IF launched + s > k THEN k ELSE launched + s>>
    BY <2>3 DEF SizingInv, TypeOK
  <2>6. launched' = (w + 1) * s
    BY <2>1, <2>3, <2>4
  <2>7. (w + 1) - 1 = w
    BY <2>1
  <2>8. waves'[w + 1] = <<((w + 1) - 1) * s, IF (w + 1) * s > k THEN k ELSE (w + 1) * s>>
    BY <2>1, <2>4, <2>5, <2>7
  <2>9. ASSUME NEW i \in 1..(w + 1)
        PROVE  waves'[i] = <<(i - 1) * s, IF i * s > k THEN k ELSE i * s>>
    <3>1. i = w + 1 \/ i \in 1..w
      BY <2>1
    <3> QED
      BY <2>1, <2>5, <2>8, <3>1
  <2>10. /\ launched' = Len(waves') * WaveStep'
         /\ \A i \in 1..Len(waves') :
              waves'[i] = <<(i - 1) * WaveStep',
                            IF i * WaveStep' > Len(chunks') THEN Len(chunks') ELSE i * WaveStep'>>
    BY <2>3, <2>5, <2>6, <2>9
  <2> QED
    BY <2>10 DEF WaveForm
<1>2. CASE ChunkStep
  <2>1. waves = <<>> /\ launched = 0
    BY <1>2 DEF ChunkStep, SizingInv, NothingEarly
  <2>2. waves' = <<>> /\ launched' = 0 /\ job' = job
    BY <1>2, <2>1 DEF ChunkStep
  <2>3. WaveStep' \in Nat
    <3>1. Len(chunks') \in Nat
      BY DEF SizingInv, TypeOK
    <3>2. job.cpu \in Nat \ {0} /\ job.quota \in Nat
      BY SizingFacts
    <3>3. WaveSize(Len(chunks'), job.cpu, job.quota) \in 0..Len(chunks')
      BY <3>1, <3>2, WaveSizeBounds
    <3> QED
      BY <2>2, <3>1, <3>3 DEF WaveStep
  <2>4. Len(waves') = 0
    BY <2>2
  <2>5. 0 * WaveStep' = 0
    <3>1. \A k \in Nat : 0 * k = 0
      OBVIOUS
    <3> QED
      BY <2>3, <3>1
  <2> QED
    BY <2>2, <2>4, <2>5 DEF WaveForm
<1>3. CASE ~LaunchWave /\ ~ChunkStep
  <2>1. UNCHANGED <<job, chunks, launched, waves>>
    BY <1>3 DEF Next, CostCheck, QuotaClamp, ChunkEnter, ChunkExit, AverageItems, LaunchDone, vars
  <2>2. WaveStep' = WaveStep
    BY <2>1 DEF WaveStep
  <2> QED
    BY <2>1, <2>2 DEF WaveForm
<1> QED
  BY <1>1, <1>2, <1>3

\* What the loops compute is what the session modules take from Sizing: its
\* chunks, and waves of its width, for every job.
THEOREM SizesAlwaysHandedOver == Spec => []SizesHandedOver
<1>1. Init => WaveForm
  <2> SUFFICES ASSUME Init PROVE WaveForm
    OBVIOUS
  <2>1. WaveStep \in Nat
    BY SizingInit, StepFacts, SizingFacts
  <2>2. waves = <<>> /\ launched = 0 /\ Len(waves) = 0 /\ 0 * WaveStep = 0
    BY <2>1 DEF Init
  <2> QED
    BY <2>2 DEF WaveForm
<1>2. SizingInv /\ WaveForm /\ SizingInv' /\ [Next]_vars => WaveForm'
  BY WaveFormNext
<1>3. SizingInv /\ WaveForm => SizesHandedOver
  <2> SUFFICES ASSUME SizingInv, WaveForm, pc \in {"launch", "done"} PROVE SizesHandedOver
    BY DEF SizesHandedOver
  <2>1. /\ Len(chunks) = ChunkCount(job.items, actual)
        /\ \A i \in 1..Len(chunks) :
             chunks[i] = <<ChunkLo(job.items, Len(chunks), i - 1),
                           ChunkHi(job.items, Len(chunks), i - 1)>>
    BY DEF SizingInv, ChunkInv, Early
  <2>2. Len(chunks) > 0 => WaveStep \in 1..Len(chunks)
    BY StepFacts
  <2>3. job.caller = "Map" => WaveStep = Len(chunks)
    BY MapStep
  <2> QED
    BY <2>1, <2>2, <2>3 DEF WaveForm, SizesHandedOver
<1> QED
  BY <1>1, <1>2, <1>3, SizingCorrect, PTL DEF Spec

\* The imbalance is bounded: only the last chunk is wider, by less than n.
THEOREM ImbalanceBounded == Spec => []LastChunkBounded
<1>1. SizingInv => LastChunkBounded
  <2> SUFFICES ASSUME SizingInv, Chunked, NEW i \in 1..Len(chunks)
               PROVE LET width == chunks[i][2] - chunks[i][1]
                     IN  IF i < Len(chunks) THEN width = Size
                         ELSE width >= Size /\ width < Size + n
    BY DEF LastChunkBounded
  <2>1. Len(chunks) > 0 /\ Len(chunks) \in Nat
    BY SizingFacts
  <2>2. /\ Len(chunks) = n /\ Size \in Nat
        /\ (n - 1) * Size + Size <= job.items /\ (n - 1) * Size \in Nat
        /\ job.items < (n - 1) * Size + Size + n
        /\ chunks[i] = <<(i - 1) * Size, IF i = n THEN job.items ELSE i * Size>>
    BY <2>1, ChunkedFacts
  <2>3. job.items \in Nat /\ n \in Nat
    BY SizingFacts
  <2>4. CASE i = n
    BY <2>2, <2>3, <2>4
  <2>5. CASE i # n
    <3>0. i - 1 \in Nat /\ Size \in Nat
      BY <2>2
    <3>1. ((i - 1) + 1) * Size = (i - 1) * Size + Size /\ (i - 1) * Size \in Nat
      BY <3>0, NextMultiple
    <3>2. (i - 1) + 1 = i /\ i < n
      BY <2>2, <2>3, <2>5
    <3>3. i * Size = (i - 1) * Size + Size
      BY <3>1, <3>2
    <3>4. chunks[i][2] - chunks[i][1] = Size
      BY <2>2, <2>5, <3>1, <3>3
    <3> QED
      BY <2>2, <3>2, <3>4
  <2> QED
    BY <2>4, <2>5
<1> QED
  BY <1>1, SizingCorrect, PTL

\* The wave loop starts every task once, in order, and never an empty wave.
THEOREM WavesAlwaysTile == Spec => []WavesTileTasks
<1>1. SizingInv => WavesTileTasks
  <2> SUFFICES ASSUME SizingInv PROVE WavesTileTasks
    OBVIOUS
  <2>1. \A i \in 1..Len(waves) : waves[i][1] < waves[i][2]
    BY DEF SizingInv, WaveInv
  <2>2. ASSUME pc = "done" PROVE Tiles(waves, Len(chunks))
    <3>1. /\ \A i \in 1..(Len(waves) - 1) : waves[i][2] = waves[i + 1][1]
          /\ launched >= Len(chunks)
      BY <2>2 DEF SizingInv, WaveInv
    <3>2. waves # <<>> => waves[1][1] = 0 /\ waves[Len(waves)][2] = Len(chunks)
      BY <3>1, SizingFacts DEF SizingInv, WaveInv
    <3> QED
      BY <2>1, <3>1, <3>2 DEF Tiles
  <2> QED
    BY <2>1, <2>2 DEF WavesTileTasks
<1> QED
  BY <1>1, SizingCorrect, PTL

\* The tasks of one wave never need more vCPUs than a quota that fits at least
\* one worker.
THEOREM QuotaRespected == Spec => []WavesWithinQuota
<1>1. SizingInv => WavesWithinQuota
  <2> SUFFICES ASSUME SizingInv, job.quota >= job.cpu, NEW i \in 1..Len(waves)
               PROVE (waves[i][2] - waves[i][1]) * job.cpu <= job.quota
    BY DEF WavesWithinQuota
  <2> DEFINE width == waves[i][2] - waves[i][1]
  <2>1. /\ job.cpu \in Nat \ {0} /\ job.quota \in Nat /\ Len(chunks) \in Nat
        /\ waves[i][1] \in Nat /\ waves[i][2] \in Nat
    BY SizingFacts
  <2>2. waves[i][1] < waves[i][2] /\ width <= WaveStep
    BY DEF SizingInv, WaveInv
  <2>3. width \in Nat
    BY <2>1, <2>2
  <2> QED
    BY <2>1, <2>2, <2>3, WaveFits DEF WaveStep
<1> QED
  BY <1>1, SizingCorrect, PTL

\* What Map runs at once costs at most the ceiling the caller set.
THEOREM BudgetRespected == Spec => []MapWithinBudget
<1>1. SizingInv => MapWithinBudget
  <2> SUFFICES ASSUME SizingInv, job.caller = "Map", job.budget > 0,
                      NEW i \in 1..Len(waves)
               PROVE (waves[i][2] - waves[i][1]) * job.cpu <= job.budget
    BY DEF MapWithinBudget
  <2> DEFINE width == waves[i][2] - waves[i][1]
  <2>1. /\ job.items \in Nat /\ job.workers \in Nat /\ job.cpu \in Nat \ {0}
        /\ job.quota \in Nat /\ job.budget \in Nat
        /\ actual \in Nat /\ Len(chunks) \in Nat /\ Len(waves) \in Nat
        /\ waves[i][1] \in Nat /\ waves[i][2] \in Nat
    BY SizingFacts
  <2>2. waves[i][1] < waves[i][2] /\ width <= WaveStep
    BY DEF SizingInv, WaveInv
  <2>3. pc \in {"launch", "done"}
    BY DEF SizingInv, NothingEarly
  <2>4. /\ job.workers * job.cpu <= job.budget /\ actual <= job.workers
        /\ Len(chunks) = ChunkCount(job.items, actual)
    BY <2>3 DEF SizingInv, ClampInv, ChunkInv, Early, CostPerHour
  <2>5. ChunkCount(job.items, actual) <= actual
    BY <2>1, ChunkCountBounds
  <2>6. WaveSize(Len(chunks), job.cpu, job.quota) \in 0..Len(chunks)
    BY <2>1, WaveSizeBounds
  <2>7. width \in Nat /\ width <= job.workers
    BY <2>1, <2>2, <2>4, <2>5, <2>6 DEF WaveStep
  <2>8. width * job.cpu <= job.workers * job.cpu
        /\ width * job.cpu \in Nat /\ job.workers * job.cpu \in Nat
    BY <2>1, <2>7, ProductMonotone
  <2> QED
    BY <2>1, <2>4, <2>8
<1> QED
  BY <1>1, SizingCorrect, PTL
-----------------------------------------------------------------------------
(* The sizing ends.                                                        *)

LEMMA PhaseRanks ==
  /\ PhasesLeft["cost"] = 6 /\ PhasesLeft["quota"] = 5 /\ PhasesLeft["chunk"] = 4
  /\ PhasesLeft["fill"] = 3 /\ PhasesLeft["average"] = 2 /\ PhasesLeft["launch"] = 1
  /\ PhasesLeft["refused"] = 0 /\ PhasesLeft["done"] = 0 /\ PhasesLeft["panicked"] = 0
  BY DEF PhasesLeft

\* What is left is a phase and, within it, turns of its loop.
WorkLeftParts ==
  /\ TurnsLeft \in 0..MaxItems /\ PhasesLeft[pc] \in 0..6
  /\ WorkLeft = PhasesLeft[pc] * (MaxItems + 1) + TurnsLeft

\* There are at most as many turns in a loop as items.
LEMMA WorkLeftFacts == SizingInv => WorkLeftParts
<1> SUFFICES ASSUME SizingInv PROVE WorkLeftParts
  OBVIOUS
<1>1. /\ n \in Nat /\ n <= MaxItems /\ Len(chunks) \in Nat /\ launched \in Nat
      /\ MaxItems \in Nat
  BY SizingFacts, BoundsAssumption DEF SizingInv, TypeOK
<1>2. pc \in {"fill", "launch"} => Len(chunks) <= n
  BY DEF SizingInv, ChunkInv, Early
<1>3. TurnsLeft \in 0..MaxItems
  <2>1. CASE pc = "fill"
    BY <1>1, <1>2, <2>1 DEF TurnsLeft
  <2>2. CASE pc = "launch" /\ launched < Len(chunks)
    BY <1>1, <1>2, <2>2 DEF TurnsLeft
  <2>3. CASE pc # "fill" /\ ~(pc = "launch" /\ launched < Len(chunks))
    <3>1. TurnsLeft = 0
      BY <2>3 DEF TurnsLeft
    <3> QED
      BY <1>1, <3>1
  <2> QED
    BY <2>1, <2>2, <2>3
<1>4. PhasesLeft[pc] \in 0..6
  BY PhaseRanks DEF SizingInv, TypeOK
<1> QED
  BY <1>3, <1>4 DEF WorkLeft, WorkLeftParts

\* Entering a later phase leaves less to do, whatever its loop has to do.
LEMMA LaterPhase ==
  ASSUME NEW m \in Nat, NEW p \in Nat, NEW q \in Nat, NEW i \in 0..m, NEW j \in 0..m, q < p
  PROVE  q * (m + 1) + j < p * (m + 1) + i
<1>1. (q + 1) * (m + 1) <= p * (m + 1) /\ p * (m + 1) \in Nat
  BY ProductMonotone
<1>2. (q + 1) * (m + 1) = q * (m + 1) + (m + 1) /\ q * (m + 1) \in Nat
  BY NextMultiple
<1> QED
  BY <1>1, <1>2

\* Every step of the sizing leaves less to do: it ends for every job, and so
\* does each of its loops.
THEOREM SizingAlwaysEnds == Spec => SizingEnds
<1>1. ASSUME SizingInv, WorkLeftParts, WorkLeftParts', Next
      PROVE  WorkLeft' < WorkLeft /\ WorkLeft \in Nat
  <2>0. MaxItems \in Nat /\ MaxItems' = MaxItems
    BY BoundsAssumption
  <2>1. /\ TurnsLeft \in 0..MaxItems /\ PhasesLeft[pc] \in Nat
        /\ WorkLeft = PhasesLeft[pc] * (MaxItems + 1) + TurnsLeft
        /\ TurnsLeft' \in 0..MaxItems /\ PhasesLeft[pc'] \in Nat
        /\ WorkLeft' = PhasesLeft[pc'] * (MaxItems + 1) + TurnsLeft'
    BY <1>1, <2>0 DEF WorkLeftParts, PhasesLeft
  <2>2. PhasesLeft[pc] * (MaxItems + 1) \in Nat
    BY <2>0, <2>1, NextMultiple
  <2>3. WorkLeft \in Nat
    BY <2>0, <2>1, <2>2
  <2>4. ASSUME PhasesLeft[pc'] < PhasesLeft[pc] PROVE WorkLeft' < WorkLeft
    BY <2>0, <2>1, <2>4, LaterPhase
  <2>5. ASSUME pc' = pc, TurnsLeft' < TurnsLeft PROVE WorkLeft' < WorkLeft
    BY <2>0, <2>1, <2>2, <2>5
  <2>6. ASSUME CostCheck \/ QuotaClamp \/ ChunkEnter \/ ChunkExit \/ AverageItems \/ LaunchDone
        PROVE  PhasesLeft[pc'] < PhasesLeft[pc]
    BY <2>6, PhaseRanks
       DEF CostCheck, QuotaClamp, ChunkEnter, ChunkExit, AverageItems, LaunchDone
  <2>7. ASSUME ChunkStep PROVE pc' = pc /\ TurnsLeft' < TurnsLeft
    <3>1. n \in Nat /\ Len(chunks) \in Nat
      BY <1>1, SizingFacts
    <3>2. pc = "fill" /\ pc' = pc /\ n' = n
      BY <2>7 DEF ChunkStep
    <3>3. Len(chunks') = Len(chunks) + 1
      BY <1>1, <2>7 DEF ChunkStep, SizingInv, TypeOK
    <3>4. TurnsLeft = n - Len(chunks) /\ TurnsLeft' = n' - Len(chunks')
      BY <3>2 DEF TurnsLeft
    <3> QED
      BY <3>1, <3>2, <3>3, <3>4
  <2>8. ASSUME LaunchWave PROVE pc' = pc /\ TurnsLeft' < TurnsLeft
    <3>1. launched \in Nat /\ Len(chunks) \in Nat
      BY <1>1, SizingFacts
    <3>2. /\ pc = "launch" /\ pc' = pc /\ chunks' = chunks /\ launched < Len(chunks)
          /\ launched' = launched + WaveStep
      BY <2>8 DEF LaunchWave
    <3>3. WaveStep \in 1..Len(chunks)
      BY <1>1, <3>1, <3>2, StepFacts
    <3>4. TurnsLeft = Len(chunks) - launched
      BY <3>2 DEF TurnsLeft
    <3>5. TurnsLeft' = IF launched' < Len(chunks') THEN Len(chunks') - launched' ELSE 0
      BY <3>2 DEF TurnsLeft
    <3> QED
      BY <3>1, <3>2, <3>3, <3>4, <3>5
  <2>9. WorkLeft' < WorkLeft
    BY <1>1, <2>4, <2>5, <2>6, <2>7, <2>8 DEF Next
  <2> QED
    BY <2>3, <2>9
<1>2. SizingInv /\ WorkLeftParts /\ WorkLeftParts' /\ [Next]_vars =>
        [WorkLeft' < WorkLeft /\ WorkLeft \in Nat]_vars
  BY <1>1
<1> QED
  BY <1>2, WorkLeftFacts, SizingCorrect, PTL DEF Spec, SizingEnds
-----------------------------------------------------------------------------
(* When the division by the number of chunks panics.                       *)

\* No chunk: no item, or a known quota that is smaller than one worker.
NoChunk ==
  job.caller = "Map" /\ (job.items = 0 \/ (0 < job.quota /\ job.quota < job.cpu))

\* The division of Map panics for exactly those jobs.
PanicExplained == pc \in {"launch", "done", "panicked"} => (pc = "panicked" <=> NoChunk)

\* What AverageItems has decided, in terms of the chunks.
PanicInv ==
  pc \in {"launch", "done", "panicked"} =>
    (pc = "panicked" <=> job.caller = "Map" /\ Len(chunks) = 0)

\* Map has no chunk exactly when it has no item or its quota is too small.
LEMMA WhenNoChunk ==
  ASSUME SizingInv, pc \in {"launch", "done", "panicked"}, job.caller = "Map"
  PROVE  Len(chunks) = 0 <=> job.items = 0 \/ (0 < job.quota /\ job.quota < job.cpu)
<1>1. /\ job.items \in Nat /\ job.workers \in Nat /\ job.cpu \in Nat \ {0}
      /\ job.quota \in Nat /\ actual \in Nat
  BY SizingFacts
<1>2. job.workers > 0
  BY JobTypes DEF SizingInv, TypeOK
<1>3. /\ Len(chunks) = ChunkCount(job.items, actual)
      /\ actual = ActualWorkers(job.workers, job.cpu, job.quota)
  BY DEF SizingInv, ChunkInv, ClampInv, Early
<1>4. Len(chunks) = 0 <=> actual = 0 \/ job.items = 0
  BY <1>1, <1>3 DEF ChunkCount
<1>5. job.quota \div job.cpu \in Nat /\ (job.quota >= job.cpu => job.quota \div job.cpu >= 1)
  BY <1>1, Division, QuotientPositive
<1>6. job.quota < job.cpu => job.quota \div job.cpu = 0
  <2> SUFFICES ASSUME job.quota < job.cpu, job.quota \div job.cpu >= 1 PROVE FALSE
    BY <1>5
  <2>1. 1 * job.cpu <= job.quota
    BY <1>1, <1>5, QuotientFits
  <2> QED
    BY <1>1, <2>1
<1>7. actual = 0 <=> 0 < job.quota /\ job.quota < job.cpu
  BY <1>1, <1>2, <1>3, <1>5, <1>6 DEF ActualWorkers
<1> QED
  BY <1>4, <1>7

\* Map panics for exactly the jobs without an item and those whose quota is
\* known and fits no worker; Submit never does.
THEOREM PanicAlwaysExplained == Spec => []PanicExplained
<1>1. Init => PanicInv
  BY DEF Init, PanicInv
<1>2. SizingInv /\ PanicInv /\ [Next]_vars => PanicInv'
  <2> SUFFICES ASSUME SizingInv, PanicInv, [Next]_vars PROVE PanicInv'
    OBVIOUS
  <2>1. CASE AverageItems
    BY <2>1 DEF AverageItems, PanicInv
  <2>2. CASE CostCheck \/ QuotaClamp \/ ChunkEnter \/ ChunkStep \/ ChunkExit
    BY <2>2 DEF CostCheck, QuotaClamp, ChunkEnter, ChunkStep, ChunkExit, PanicInv
  <2>3. CASE LaunchWave \/ LaunchDone \/ UNCHANGED vars
    BY <2>3 DEF LaunchWave, LaunchDone, vars, PanicInv
  <2> QED
    BY <2>1, <2>2, <2>3 DEF Next
<1>3. SizingInv /\ PanicInv => PanicExplained
  BY WhenNoChunk DEF PanicInv, PanicExplained, NoChunk
<1> QED
  BY <1>1, <1>2, <1>3, SizingCorrect, PTL DEF Spec
=============================================================================
