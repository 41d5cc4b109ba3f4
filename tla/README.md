# burst-core in TLA+

burst-core runs a Go function over many items on AWS Fargate. A client splits
the items into tasks, stores them in S3, launches one container per task, polls
the status objects the containers write, and assembles the results. There is no
server: client and workers only share a bucket. This directory models that
protocol, the arithmetic that sizes it, the sessions and the sweeps that delete
them, the worker images, the function registry, and the commands that create and
delete the AWS account's resources. TLC checks the models on small instances;
TLAPS proves the results listed below for every value of the constants.

## 1. The system

| Part | State it keeps | Operations | Talks to |
|---|---|---|---|
| Job sizing (`aji/aji.go`, `aji/executor.go`, `internal/cost`) | none that lasts: workers, chunks, waves of one call | cost ceiling, quota clamp, `chunkItems`, wave loop of `launchWorkers` | quota lookup |
| Submission (`aji/executor.go`, `aji/aji.go`, `aji/session.go`) | manifest, `.task` files, task definition, launched containers | check the image, write the manifest, `uploadTasks`, network lookup, register, launch in waves, `waitForTasks` | S3, ECR, EC2, ECS |
| Worker (`aji/worker.go`, `aji/serialize.go`) | `.status`, `.result`, `.error` of its own task | `runWorker`: start, fetch, call the function on each item, put the result, put the status | S3 only |
| Collection (`aji/executor.go`) | the caller's memory: counts, payloads, answer | `pollResults`, `downloadResults`, `assembleResults`, `assembleResultsTolerant` | S3 only |
| Map and MapTolerant (`aji/aji.go`) | one call, then its cleanup goroutines | submission, collection, mark complete, delete the task files | the three above |
| Detached session (`aji/session.go`) | a handle | `Submit`, `Attach`, `Collect`, `Cleanup`, `Status` | the three above, other processes |
| Session store (`internal/session`, `cmd/burst-core/session.go`) | manifests and files under `sessions/` | write, list, delete; the commands list, status, cleanup | S3 |
| Setup and teardown (`cmd/burst-core/setup.go`, `teardown.go`, `internal/aws`) | bucket, two IAM roles, ECS cluster, `~/.burst/config.json` | create all in order, delete all in order | S3, IAM, ECS, ECR, quota |
| Worker images (`aji/compile.go`, `internal/docker`, `cmd/burst-core/image.go`) | ECR repository, tags, images; the binary's file and docker's own tags on the developer's machine | `Setup`, `image build`, the lookups of `Map` and `Submit`, `image prune`, the teardown's deletion | ECR, docker, the compiler |
| Function registry (`aji/registry.go`) | two maps of each process | register, look up by code pointer (client) or by name (worker) | Submission, Worker |
| Configuration, quota, status, cost, pool | the file; otherwise nothing | load and save; read-only reports; `PoolMap` calls `Map` | the others |

What makes it hard:

* **Interleaving.** Workers, upload and download goroutines, the cleanup
  goroutine of `Map`, other callers that attached, and `session cleanup` on
  another machine all touch the same objects. Nothing locks.
* **Partial failure.** A put that reports an error may have been applied. A
  container may stop between two puts and nothing restarts it. A launch fails
  after other containers have been started. `DeleteObjects` succeeds without
  deleting a key, and nobody reads the per-key errors.
* **Timeouts.** A context may end at any moment, between two waves or while the
  last status is being written.
* **Reruns.** Setup and teardown are a dozen requests each, may stop anywhere,
  and are run again.
* **Stale reads.** A sweep goes by the statuses it read when it began. `Setup`,
  `Map` and the containers read the same file or tag at different times, while the
  developer rebuilds and others push, prune and tear down.
* **Names for things that change.** A tag stands for a path, a time and a size; a
  function's name for a code pointer that other functions may share.
* **Arithmetic.** Chunks, waves and the quota clamp divide by numbers that may
  be zero or do not divide evenly.

What makes each part correct:

* Sizing: no item or task is lost, repeated or reordered; no empty chunk or
  wave; the quota and the cost ceiling hold.
* Worker: a terminal status is never seen without the complete result it is
  about.
* Submission: no container starts before all tasks are stored; waves do not
  overlap; `Submit` ends.
* Collection and Map: the answer is every item's own outcome in the items'
  order, or an error; results are deleted only when they are in memory; after a
  timeout the session can still be attached to; `Map` returns.
* Detached session: no cleanup by anybody turns an answer into a wrong one; the
  cleanup of a resting session is complete.
* Session store: a sweep spares the sessions in use, and deletes completely those
  it was asked to delete, although single requests fail.
* Worker images: a container runs its caller's code on the architecture it was
  asked for; what `Setup` reports is found; a lost image can be brought back.
* Function registry: a worker calls the function that was passed; a registered
  function is not refused.
* Setup and teardown: the configuration names only what exists; a rerun is not
  refused because of what was left; teardown's success means nothing is left.

## 2. The modules

```
Sizing ──> JobSizing
   └─> Worker ──> Submission ──┬─> MapSession ──────┬─ both implement AnswerContract
            └──> Collection ───┴─> DetachedSession ─┘
Infra        WorkerImages        Registry        SessionStore ──> MCSessionStore
```

`X_proofs` extends `X`. `Collection_proofs` has what holds of the workers and of
one collector whoever composes them; `MapSession_proofs` and
`DetachedSession_proofs` both extend it. `MCSessionStore` only adds a symmetry set.

**`Sizing`** has the arithmetic as operators: `ActualWorkers`, `ChunkCount`,
`ChunkLo`/`ChunkHi`, `WaveSize`. **`JobSizing`** is the same code as steps: the
cost check and quota clamp of `Map` and `MapTolerant`, the loop of `chunkItems`
one iteration per action, the division by the number of chunks (which may
panic), and the wave loop. Its initial states are all jobs within the bounds.
Prices are one unit per vCPU-hour: the code only compares a product with the
ceiling.

**`Worker`** holds a session's objects in S3 and `runWorker`: each return path
is a disjunct. A result file is a sequence of entries (a value or null, and
whether the error text is non-empty), which is all that the reader of the JSON
can tell apart; the value stands for the item it was computed from. A put is
applied or not, and reports success or not; a put that fails is applied at once
or never. `WorkerCrash` stops a container for good anywhere.

**`Submission`** is the submitting side. `spc` says where the goroutine that runs
`Map` or `Submit` is; `uploading` is the set of upload goroutines that hold the
semaphore; `WaveLaunched`, `WaveTick`, `WaveScan`, `WaveScanEnd` and `WaveExpired`
are the wait between waves. **`Collection`** is one collector `c` of a set:
ticks, status reads, the pass that a timeout makes with a context that has just
ended, download goroutines, assembly.

**`MapSession`** composes them into one call of `Map` or `MapTolerant` with its
two cleanup goroutines. The client's process may end at any time after the call
returned, which here means that the cleanup goroutines stop taking steps: they
have no fairness.

**`DetachedSession`** composes the same parts for `Submit`, any number of
collectors and one cleanup of any of three kinds (the handle's, the command's
with and without `--force`). `Status` reads and changes nothing, and has no
action. One listing is atomic; the deletes follow batch by batch.

**`AnswerContract`** is the promise, with no cloud in it, to any number of callers
at once: each item is settled at most once and for good; a caller is answered
once, and an answer with results carries every item's own outcome, in order, when
all items are settled. So callers that get results get the same ones, and what
others do or delete can only turn an answer into a failure. `MapSession!Contract`
and `DetachedSession!Contract` map to it: an item's fate is read from the call log
of the worker that has it (`Fates`), the values are what was assembled (`Carried`),
and `Kind` maps every return without results to `failure`.

**`Infra`** has the account as a set of existing parts per resource, a command
as a position in its order of steps (`step`) and the requests that are over in
that step (`sub`). Setup ends at the first error; teardown goes on and fails in
the end. Commands may be run again without limit, overlap (`MaxRunning`) and be
killed. `company` and `past` only record history for the properties. Requests
may be refused (what is there already, or is no longer there) or fail, having
been carried out or not. Jobs use the account meanwhile; their repositories and
task definition families are one resource, `work`, as teardown lists and deletes
both the same way. With `CustomBucket` setup is given `--bucket`, teardown is not
and finds the name only in the configuration file.

**`SessionStore`** has many sessions and the clock instead of one session's
tasks: each session is a position of its program (`owner`), whether its containers
write (`busy`), its manifest's status and whether it has other objects. A sweep
(`session cleanup --all`) lists, reads the manifests one by one, and then deletes,
newest first, by what it has read. `ParseDuration` computes in integers modulo
`Wrap`, as 64-bit nanoseconds do. A manifest that `Map` rewrites after it was
deleted reappears, as in the code.

**`WorkerImages`** has a developer who edits and rebuilds one program, builders
(`Setup` and `image build`), jobs, prune and teardown. A tag is the hash, which
stands for one build of the binary, with the architecture or without; an image is
the version of the code in it and its architecture. `TakeBinary` is
`compile.go`'s choice between the running binary and a fresh compilation, made
with what the files are at that moment. `DockerBuild` overwrites what every other
builder on the machine would push under the tag. A job keeps the architecture and
the code it was started with, and looks the tag up of the file as it is now.

**`Registry`** has a program as a sequence of registrations, those before the
worker check (`early`) in order and the others in any. `Register` stores by name
and then by code pointer, two steps. Closures of one literal share their code
(`code` is any function), and all that `RegisterSimple` wraps share the wrapper's.
A worker is another process that runs the early registrations only.

Definitions named in a `Slip` comment are variants of an operation with a
plausible mistake. No specification uses them; they show that a property notices
the mistake.

## 3. The runs

All bounds are the constants of the `.cfg` files.

| Run | Module, configuration | What it shows |
|---|---|---|
| sizing | `JobSizing.cfg` | chunks tile the items, waves tile the tasks, quota and ceiling; the loops give the closed form that the session modules take, and end: for every job within the bounds |
| map_healthy | `MapHealthy.cfg` | 4 items in 3 unequal chunks, AWS works, functions fail on items: `Map` returns with results, its cleanup leaves nothing |
| map_faults | `MapFaults.cfg` | 2 tasks, every fault anywhere, a deadline: the safety properties, the contract, and that `Map` returns |
| detached_waves | `DetachedWaves.cfg` | 3 tasks in waves of 2: waves in order and within the quota, `Submit` and `Collect` return |
| detached_cleanup | `DetachedCleanup.cfg` | every kind of cleanup while Submit, workers and an attached collector run and S3 fails: a session handed over is complete until one deletes of it, the contract (no wrong answer), and a resting session is deleted completely |
| infra | `Infra.cfg` | two setups and a teardown, rerun at will, two at a time, jobs beside them, any two failures |
| images | `WorkerImages.cfg` | two builders, a job, two versions and builds, any two edits, deletions or failures: the caller's code runs, what `Setup` reports is found, a lost image comes back |
| functions | `Registry.cfg` | every program of two registrations, with shared code, shared and empty names, before and after the worker check |
| sessions | `MCSessionStore`, `SessionStore.cfg` | two sessions of either kind and a sweep, forced or not, with a safe limit and one that overflows, while time passes and a request fails |

Three runs find a behaviour that a comment or an error message of the repository
rules out; each states that sentence as one property:

| Run | Sentence | What happens |
|---|---|---|
| quota_panic | `aji.go:34`, the job still runs with fewer workers | a quota below one worker's CPUs gives no chunk, and `Map` divides by zero at line 99 |
| failed_task | `aji.go:32`, BurstPartialError if some tasks fail | a task that reports `failed` has no result file, and the download fails instead |
| submit_no_image | `session.go:176`, run `Setup` before submitting work | `Setup` tags with the architecture, `Submit` looks for the tag without: it finds none after any `Setup` |

Four more behaviours of the code are in the models, where the passing runs leave
them out or state their properties around them:

* A container that stops before its terminal status makes `Map` poll for ever if
  its context has no deadline (`aji.go:244`, `executor.go:240`). `MapReturns` is
  checked with crashes under `DeadlineSpec`; without a deadline, `HealthyMapReturnsResults`
  says that it returns, with results, when only functions fail.
* An error with no text is answered as a success with a zero value
  (`serialize.go:63`, `executor.go:302`). This is the fault `blank`; the properties
  about answers are checked and proved without it.
* `session cleanup` without `--force` refuses only `running`; a session that is
  being submitted says `initializing` and is deleted, where `SPEC.md:208` speaks of
  complete or failed ones. In `SessionStore` it is why a safe limit must be longer
  than a submission.
* A resource that exists is not completed, so that after a killed setup the next
  one succeeds without the missing policies or bucket configuration, although
  `SPEC.md:64` calls setup idempotent. `UndisturbedSetupsComplete` is about setups
  of which none was stopped.

### Bounds and why they are enough

* Sizing: up to 7 items, 4 workers, 2 CPUs, quota 6, ceiling 5. That has zero
  items, more workers than items, remainders, a quota below one worker and one
  that is no multiple of the CPUs. The theorems remove the bounds.
* Sessions: 2 or 3 tasks with chunks of unequal width, so that order and
  boundaries show; two concurrent transfers (`MaxConcurrent`, `DownloadLimit`)
  where goroutines matter, so that they overtake each other; a cleanup batch of
  1 or 2 against 2 or 3 tasks, so that there is more than one batch. A second
  wave needs three tasks at width 2 (or two at width 1).
* Items: the session modules take at least one; no items is in `JobSizing`.
* Infra: two setups are needed for the race of `s3.go:92-95`, one of each for a
  teardown beside a setup. Two failures (`MaxFaults`) allow one during the recovery
  from another. Reruns are not bounded. The setups are interchangeable, and the
  configuration uses that symmetry; its properties are safety properties.
* Images: two builders race for the repository, for a tag and for docker's tag;
  two versions (`MaxEdits`) and two builds (`MaxBuilds`) suffice for a binary that
  is older than the source and for a file that is newer than the process.
  `MaxNoise` bounds edits, builds, deletions and failures together; `PruneBatch` is 1
  so that a prune takes several requests. Jobs and builds are not bounded.
* Functions: a clash needs two registrations (`MaxRegs`), two plain and two simple
  functions and two names beside the empty one.
* Sessions: one sweep and two sessions, so that one may be marked, used or fail
  while another is deleted; the theorems have any number of both. A day is one
  tick, durations are modulo 8: limit 3 is safe (longer than `MaxSubmit` and
  `MaxSweep` together) and 5 overflows, as 106752 days do in nanoseconds. `MaxTime`
  lets a session grow older than the safe limit.
* Deadlock checking is off where the system really stops: a job, a call and a
  command end, and a poll may wait for a status that no longer comes. It is on for
  images.

### Assumptions that are not in the code

* `SessionStore!Tick`: a submission, all its waves included, takes at most
  `MaxSubmit`, a sweep `MaxSweep`. Nothing in the code enforces either. They are what
  makes an age limit protect a session that is being submitted, and
  `SweepSparesInUse` speaks of limits longer than both.
* `WorkerImages`: one machine with one docker; docker builds for amd64 unless it is
  told otherwise; a build never repeats the modification time and size of another.
* Session identifiers, which are random, are distinct.

### Fairness

* `MapStep`, `Submit` and a running `Collect`: the Go scheduler runs a goroutine
  that can go on (weak fairness).
* Workers: ECS runs the task it accepted, which may be failing or crashing but
  does not stand still (weak fairness on the worker, crash included).
* `Expire` is fair only in `DeadlineSpec`, the specification of a caller that
  passes a context with a deadline. Nothing else makes a context end.
* `PollExpired` and `WaveExpired` are strongly fair: `select` chooses at random
  between the tick and `ctx.Done()`, so that the context's branch is not passed
  over for ever although ticks keep it from being continuously taken.
* `WorkerImages`: a step of a builder and of a prune that has begun does not stand
  still, and `Setup` is called again (weak fairness on `BuildStep`, `PruneDelete` and
  `SetupStart`), as programs call it at every start.
* The cleanup goroutines, cleanups, sweeps, collectors that have not started, and
  setup and teardown have no fairness.

## 4. What is proved

Every safety and action property of the passing runs, and both refinements of
`AnswerContract`, are theorems for every value of the constants: any number of items,
workers, collectors, commands, builders, jobs, sessions, sweeps and registrations,
and every set of faults. No property is inductive alone; each module's invariant
and why it is needed:

| Module | Invariant | Theorems about |
|---|---|---|
| `JobSizing_proofs` | `SizingInv`, then `PanicInv` | types, chunks, waves, quota, ceiling, the handover, the end, the panic |
| `Collection_proofs` | `WorkersInv`, `CollectorInv(c)` (lemmas only) | shared by the next two |
| `MapSession_proofs` | `MapInv`, then `CleanedInv`, `HealthyInv` | types, status and result, launch, cleanup, timeout, answer, contract, healthy calls |
| `DetachedSession_proofs` | `DetachedInv`, then `CollectableInv`, `AnswersInv`, `RestingInv`, `HealthyInv` | types, quota, waves, handover, collection, contract, resting cleanup, healthy sessions |
| `SessionStore_proofs` | `SpareInv`, `CompleteInv` | types, both properties of sweeps |
| `WorkerImages_proofs` | `ImagesInv` | types, code and architecture, lookups |
| `Registry_proofs` | `RegistryInv` | types, the three properties of calls |
| `Infra_proofs` | `InfraInv` | types, configuration, racing setups, teardown, reruns |

**Assumptions.** Those named in the modules (`...Assumption`): sizes and limits are
naturals, those that are divisors or widths at least 1, kinds of processes are
disjoint. Four theorems assume more, that functions return no error without a text
(`"blank" \notin Faults`): `AnswerAlwaysFaithful`, `CollectAlwaysFaithful`,
`MapImplementsContract` and `DetachedImplementsContract`. With `blank` they are
false, as section 3 says; all others hold with it.

**Sizing.** The conjuncts are what must not have happened yet at each `pc`
(`NothingEarly`), what the checks of `Map` have established (`ClampInv`), and the
two loop invariants: the chunks cut so far in closed form (`ChunkInv`), and that the
waves launched so far are consecutive (`WaveInv`). `SizesAlwaysHandedOver` joins the
loops to `Sizing`'s closed form, which the session modules use, and says that `Map`
launches one wave (`MapNeverWaits` that it never waits for another).
`SizingAlwaysEnds` is termination without a temporal argument: `WorkLeft`, a natural
number made of the phases that follow and the turns left of the current loop,
decreases with every step. `PanicAlwaysExplained` says when `Map` divides by zero:
exactly when it is given no item, or a known quota is less than one worker needs.

**Sessions.** `WorkersInv` says what a worker has stored at each of its places; this
is where the order of result and status matters. `CollectorInv(c)` says that a pass
that counted every status it has read has found workers that have exited, that a
download without an error has the payload of an exited worker, and that what has
been assembled is a prefix of the items' outcomes; both hold whatever is deleted
meanwhile. `MapInv` adds which part may be active (`PhaseInv`), uploads below the
cursor (`UploadInv`), launches (`LaunchInv`), the manifest, and that the cleanup's
start finds every result in memory (`CaptureInv`). The conjuncts support each
other: that the cleanup finds every worker exited needs that polling counted only
terminal statuses, that a worker writes such a status last, and that nothing
deletes statuses earlier. The contracts' proofs split a step by what it does to the
call logs and to the answers. `DetachedInv` adds the wave bounds (`WaveInv`) and that
a pass of `waitForTasks` which has found everything terminal so far has found workers
that have exited (`WaitInv`), so that a wave starts when those before it have ended.

`SubmittedAlwaysCollectable` is what makes `Attach` from another process work. It
needs, per phase of `Submit`, what has been launched, whatever is deleted
(`HandoverInv`), and what has been stored, as long as nothing is (`StoredInv`: an
upload below the cursor is stored, in flight, or has made the submission fail); and
that a status with results follows the complete result (`ResultFirst`). `WrittenOnce`,
of both compositions, says that no worker starts twice or rewrites what a collector
may have read. `CollectorsAlwaysAgree` needs no assumption: callers of one session
get the same results even where `blank` makes them wrong.

The `Healthy...` theorems are about runs in which only functions fail. `HealthyInv`
says that every task which has started is on its way to a status with results
(`Reported`) and that nothing has hurt the caller's side (`Unhurt`): no item that
fails is taken for a lost task, and `Map`, `Submit` and `Collect` have no failure to
report. With `MapInv` it is the safety half of `HealthyMapReturnsResults`; for the
session it needs that nobody cleans up (`Cleaners = {}`).

**Sweeps.** `SeenInv` is the core: what a sweep has read of a session in use is
its last status, or the session was still being submitted and is then younger than
the limit for as long as the sweep may run. `DueInv` follows a session that must be
deleted from the listing through the reading and choosing to its deletion or to the
set of failures.

**Images and functions.** `ImagesInv` says for each place of a build and of a job
what its image was made of, relative to the stamp in its tag. `RegistryInv` says
that each entry of either map was put there by a registration.

**Setup and teardown.** `MadeInv`: as long as nobody tears down, what a setup has
passed is made. `WholeInv`: as long as nothing went wrong, each missing part of a
resource that was made is still to be made by a setup that is at it; the one that
passes a resource because it is there leaves that to the other. `CompanyInv`:
commands that run together know of it, so that a command that does not is the only
one that moves; `LoneInv` then says what it has found and what it has left behind.

**Only model-checked.** Liveness, which the prover does not treat: `MapReturns`,
`HealthyMapReturnsResults`, `SubmitReturns`, `CollectReturns`, `ImageComesBack`. And
that the three violations are reachable.

**Only proved.** `AnswerFaithful`, `CollectFaithful` and `CollectorsAgree`, which the
checked contract implies; `WrittenOnce`, `HealthyMapNeverFails` and
`HealthySessionNeverFails`; `LastChunkBounded`, `MapLaunchesOneWave` and
`PanicExplained`. No run lists them.

**What the statements exclude.** The run of the detached contract has one collector,
the theorem any number. `TeardownRemovesAll` speaks of teardowns that know the
bucket: with `--bucket` at setup and no configuration left, teardown looks for the
default name, finds nothing and reports success. That is so after any teardown whose
bucket deletion failed, since it removes the configuration nevertheless
(`teardown.go:46`, `112-123`). `CollectReturns` is checked without a cleanup: a status
that was deleted counts as pending, and the collector polls until its context ends
(`executor.go:199`). `SweepSparesInUse` excludes sessions whose manifest was never
marked, because the put failed and `Submit` and `Map` do not look.

## 5. What is not modelled

* `session list`, `session status`, `DetachedSession.Status`, status, quota and cost
  commands: they read and change nothing.
* Formatting, logging, prices (one unit per vCPU-hour), JSON text, the docker file.
* Of `Pool` only that its architecture does not reach `Map` (`WorkerImages!JobBegin`):
  it calls `Map` with copied options, keeps no state, and `Shutdown` does nothing.
* The fields of the configuration file, which is there, absent or cut short, and
  `applyConfig`'s defaults, which are inputs of `JobSizing`.
* `WithTimeout` and other options that `Map` does not read.
* Sessions whose manifest is gone or was never written: `ListSessions` skips them, so
  that no sweep deletes their files. `SweepComplete` is about those with a manifest.
* Signals to the client: a client that is killed stops taking steps, which every
  safety property covers.

## 6. Plan

Done: `Sizing`/`JobSizing`, `Worker`, `Submission`, `Collection`, `MapSession` and
`DetachedSession` with `AnswerContract`, `Infra`, `WorkerImages`, `Registry`,
`SessionStore`, and the proofs of their safety properties.

What could follow:

1. `SessionStore` composed with `DetachedSession`, so that a sweep's deletions are
   batches of a session's files rather than one set.
2. Measures like `WorkLeft` for a sweep and for the commands of `Infra`.
3. Larger instances of the runs with several tasks per wave and two callers of one
   image repository on two machines.

## 7. Running it

```
tlc -workers 2 -config MapFaults.cfg MapSession
tlapm MapSession_proofs.tla
```

The longest runs are infra (about 2.5 minutes on two cores), images and sessions
(about two minutes each); the others take a minute or less. Each proof module takes
a few minutes from nothing. `PROJECT.json` lists components, runs, the source lines
of each definition, the findings, the hazards and the theorems.
