------------------------------- MODULE Infra --------------------------------
(***************************************************************************)
(* The resources that burst-core setup creates in an AWS account and that  *)
(* burst-core teardown deletes, each command a sequence of requests.  A    *)
(* command may fail at a request, be killed between two, be run again, and *)
(* overlap another one.  Jobs use the account meanwhile.                   *)
(***************************************************************************)
EXTENDS Naturals, Sequences, FiniteSets, TLC

CONSTANTS
  Setups,        \* the runs of burst-core setup
  Teardowns,     \* the runs of burst-core teardown
  MaxRunning,    \* commands that run at the same time
  MaxFaults,     \* how many failures happen, bounds the model
  CustomBucket,  \* setup is given a --bucket of its own, teardown is not
  Faults         \* the kinds of failure that may happen

FaultKinds ==
  {"request",  \* an AWS request fails, having been carried out or not
   "quota",    \* the quota cannot be looked up, or is unknown to AWS
   "disk",     \* the configuration file cannot be written or removed
   "crash",    \* a command is killed
   "kept"}     \* DeleteObjects succeeds without deleting every key

ASSUME InfraAssumption ==
  /\ Setups \cap Teardowns = {}
  /\ MaxRunning \in Nat \ {0} /\ MaxFaults \in Nat
  /\ CustomBucket \in BOOLEAN /\ Faults \subseteq FaultKinds

Commands == Setups \cup Teardowns

\* What setup makes, in its order, and the requests that make each.
Parts ==
  [bucket  |-> <<"made", "encryption", "publicAccess", "lifecycle">>,
   exec    |-> <<"made", "managed", "inline">>,
   task    |-> <<"made", "inline">>,
   cluster |-> <<"made">>]
Provisioned == DOMAIN Parts
AllParts(r) == {Parts[r][i] : i \in 1..Len(Parts[r])}

\* What jobs make, image repositories and task definition families, is one
\* resource here, which teardown lists and deletes in one step.
Resources == Provisioned \cup {"work"}

SetupOrder    == <<"bucket", "exec", "task", "cluster", "quota", "config">>
TeardownOrder == <<"work", "cluster", "exec", "task", "bucket", "config">>
Order(p) == IF p \in Setups THEN SetupOrder ELSE TeardownOrder

VARIABLES
  has,        \* has[r]: the parts of resource r that exist
  objects,    \* the bucket holds objects
  live,       \* a job is running in the cluster
  config,     \* ~/.burst/config.json: "none", "torn" (cut short) or "saved"
  running,    \* the commands that run
  step,       \* step[p]: the position of command p in its Order
  sub,        \* sub[p]: requests of this step that are over
  errs,       \* teardowns with errors so far
  knows,      \* knows[p]: teardown p goes for the bucket that setup made
  company,    \* company[p]: who else acted since p began, "command" or, beside
              \* a teardown, "job"
  past,       \* what has happened: a setup ended "ok" or was "cut" short,
              \* or, whatever came before, a "teardown" began
  report,     \* what the last step reported: "ok", the command has succeeded,
              \* "refused", AWS objects to what is or is not there, or "none"
  faults      \* failures so far

accountVars == <<has, objects, live, config>>
commandVars == <<running, step, sub, errs, knows, company>>
vars == <<accountVars, commandVars, past, report, faults>>

TypeOK ==
  /\ has \in [Resources -> SUBSET UNION {AllParts(r) : r \in Provisioned}]
  /\ \A r \in Resources :
       has[r] \subseteq IF r \in Provisioned THEN AllParts(r) ELSE {"made"}
  /\ objects \in BOOLEAN /\ live \in BOOLEAN
  /\ config \in {"none", "torn", "saved"}
  /\ running \subseteq Commands /\ Cardinality(running) <= MaxRunning
  /\ step \in [Commands -> Nat] /\ \A p \in Commands : step[p] \in 1..Len(Order(p))
  /\ sub \in [Commands -> 0..5]
  /\ errs \subseteq Teardowns
  /\ knows \in [Commands -> BOOLEAN]
  /\ company \in [Commands -> SUBSET {"command", "job"}]
  /\ past \in (SUBSET {"ok", "cut"}) \cup {{"teardown"}}
  /\ report \in {"ok", "refused", "none"} /\ faults \in 0..MaxFaults

Init ==
  /\ has = [r \in Resources |-> {}]
  /\ objects = FALSE /\ live = FALSE /\ config = "none"
  /\ running = {} /\ errs = {}
  /\ step = [p \in Commands |-> 1] /\ sub = [p \in Commands |-> 0]
  /\ knows = [p \in Commands |-> FALSE] /\ company = [p \in Commands |-> {}]
  /\ past = {} /\ report = "none" /\ faults = 0

Made(r) == "made" \in has[r]
RequestFails == "request" \in Faults
At(p, s) == p \in running /\ Order(p)[step[p]] = s
With(r, part) == [has EXCEPT ![r] = @ \cup {part}]
Without(r, part) == [has EXCEPT ![r] = @ \ {part}]

\* The command goes on with its next request, or its next step.
GoesOn == UNCHANGED <<running, knows, company, past>>
NextRequest(p) == sub' = [sub EXCEPT ![p] = @ + 1] /\ step' = step /\ GoesOn
NextStep(p) ==
  step' = [step EXCEPT ![p] = @ + 1] /\ sub' = [sub EXCEPT ![p] = 0] /\ GoesOn

Happens(what) ==
  IF what = "fault" THEN faults < MaxFaults /\ faults' = faults + 1 /\ report' = "none"
  ELSE faults' = faults /\ report' = what
Fine == errs' = errs /\ Happens("none")
Error(p, what) == errs' = errs \cup {p} /\ Happens(what)

\* The process ends and nothing of it remains.
Exit(p, how) ==
  /\ running' = running \ {p} /\ errs' = errs \ {p} /\ Happens(how)
  /\ step' = [step EXCEPT ![p] = 1] /\ sub' = [sub EXCEPT ![p] = 0]
  /\ knows' = [knows EXCEPT ![p] = FALSE] /\ company' = [company EXCEPT ![p] = {}]
  /\ past' = IF p \in Teardowns \/ "teardown" \in past THEN past
             ELSE past \cup {IF how = "ok" THEN "ok" ELSE "cut"}

\* The credentials are validated; teardown reads the configuration, and takes
\* the default bucket name when it cannot.
Begin(p) ==
  /\ p \notin running /\ Cardinality(running) < MaxRunning
  /\ running' = running \cup {p}
  /\ knows' = [knows EXCEPT ![p] = p \in Teardowns /\ (~CustomBucket \/ config = "saved")]
  /\ company' = [q \in Commands |->
                   IF q \in running' /\ running # {} THEN company[q] \cup {"command"}
                   ELSE company[q]]
  /\ past' = IF p \in Teardowns THEN {"teardown"} ELSE past
  /\ Fine /\ UNCHANGED <<accountVars, step, sub>>

\* A killed setup may have cut the configuration file short.
Crash(p) ==
  /\ "crash" \in Faults /\ p \in running /\ Exit(p, "fault")
  /\ config' = config \/ (p \in Setups /\ At(p, "config") /\ config' = "torn")
  /\ UNCHANGED <<has, objects, live>>
-----------------------------------------------------------------------------
(* setup: the first error ends it.                                         *)

SetupFrame == UNCHANGED <<objects, live, config>>

\* Is resource r there?  Then nothing of it is looked at any further.
Probe(p, r) ==
  /\ p \in Setups /\ At(p, r) /\ sub[p] = 0
  /\ \/ Made(r) /\ NextStep(p) /\ Fine
     \/ ~Made(r) /\ NextRequest(p) /\ Fine
     \/ RequestFails /\ Exit(p, "fault")
  /\ has' = has /\ SetupFrame

\* Slip: the last request for a resource is not made.
MakePartShort(p, r, shared) ==
  /\ p \in Setups /\ At(p, r) /\ sub[p] > 0
  /\ has' = With(r, Parts[r][sub[p]])
  /\ IF sub[p] + 1 >= Len(Parts[r]) THEN NextStep(p) ELSE NextRequest(p)
  /\ Fine /\ SetupFrame

\* The request for the next part of r.  What has been made meanwhile is
\* refused, unless r is among shared; what has been deleted cannot be completed.
MakePart(p, r, shared) ==
  /\ p \in Setups /\ At(p, r) /\ sub[p] > 0
  /\ LET part == Parts[r][sub[p]]
         accepted == IF part = "made" THEN ~Made(r) \/ r \in shared ELSE Made(r)
     IN \/ /\ accepted
           /\ has' = With(r, part)
           /\ IF sub[p] = Len(Parts[r]) THEN NextStep(p) ELSE NextRequest(p)
           /\ Fine
        \/ ~accepted /\ has' = has /\ Exit(p, "refused")
        \/ /\ RequestFails
           /\ has' = has \/ (accepted /\ has' = With(r, part))
           /\ Exit(p, "fault")
  /\ SetupFrame

\* Another process made the bucket between the check and the request, and is
\* left to configure it.  In us-east-1 S3 accepts the second request instead.
BucketTaken(p) ==
  /\ p \in Setups /\ At(p, "bucket") /\ sub[p] = 1 /\ Made("bucket")
  /\ NextStep(p) /\ Fine
  /\ has' = has /\ SetupFrame

CreateBucket(p) ==
  \/ Probe(p, "bucket")
  \/ MakePart(p, "bucket", {"bucket"})
  \/ BucketTaken(p)
CreateExecutionRole(p) == Probe(p, "exec") \/ MakePart(p, "exec", {})

\* Slip: the role is created without a look at whether it is there.
CreateTaskRoleUnchecked(p) ==
  \/ /\ p \in Setups /\ At(p, "task") /\ sub[p] = 0
     /\ NextRequest(p) /\ Fine
     /\ has' = has /\ SetupFrame
  \/ MakePart(p, "task", {})

\* Slip: the error of the role's creation is dropped.
CreateTaskRoleIgnoringError(p) ==
  \/ Probe(p, "task") \/ MakePart(p, "task", {})
  \/ /\ p \in Setups /\ At(p, "task") /\ RequestFails
     /\ NextStep(p) /\ Fine
     /\ has' = has /\ SetupFrame

CreateTaskRole(p) == Probe(p, "task") \/ MakePart(p, "task", {})
CreateCluster(p) == Probe(p, "cluster") \/ MakePart(p, "cluster", {"cluster"})

\* Slip: the quota is looked up again for as long as that fails.
CheckQuotaRetrying(p) ==
  /\ p \in Setups /\ At(p, "quota")
  /\ \/ NextStep(p) /\ Fine
     \/ "quota" \in Faults /\ NextRequest(p) /\ Fine
  /\ has' = has /\ SetupFrame

\* An unknown quota ends the setup like a failed lookup: the error is wrapped,
\* and setup compares it with !=.
CheckQuota(p) ==
  /\ p \in Setups /\ At(p, "quota")
  /\ \/ NextStep(p) /\ Fine
     \/ "quota" \in Faults /\ Exit(p, "fault")
  /\ has' = has /\ SetupFrame

\* WriteFile truncates the file first; Chmod comes after it.
SaveConfig(p) ==
  /\ p \in Setups /\ At(p, "config")
  /\ \/ config' = "saved" /\ Exit(p, "ok")
     \/ /\ "disk" \in Faults
        /\ config' \in {config, "torn", "saved"}
        /\ Exit(p, "fault")
  /\ UNCHANGED <<has, objects, live>>

Setup(p) ==
  \/ CreateBucket(p) \/ CreateExecutionRole(p) \/ CreateTaskRole(p)
  \/ CreateCluster(p) \/ CheckQuota(p) \/ SaveConfig(p)
-----------------------------------------------------------------------------
(* teardown: every step is taken, whatever became of those before.         *)

TeardownFrame == UNCHANGED <<live, config>>

\* A request that reports an error, having been carried out or not, ends its
\* step.
StepFails(p, effect) ==
  /\ RequestFails /\ has' \in {has, effect}
  /\ NextStep(p) /\ Error(p, "fault")

DeleteWork(p) ==
  /\ At(p, "work")
  /\ \/ has' = Without("work", "made") /\ NextStep(p) /\ Fine
     \/ StepFails(p, Without("work", "made"))
  /\ objects' = objects /\ TeardownFrame

\* Is resource r there?
Look(p, r) ==
  /\ p \in Teardowns /\ At(p, r) /\ sub[p] = 0
  /\ \/ has' = has /\ Fine /\ IF Made(r) THEN NextRequest(p) ELSE NextStep(p)
     \/ StepFails(p, has)
  /\ objects' = objects /\ TeardownFrame

DeleteCluster(p) ==
  \/ Look(p, "cluster")
  \/ /\ p \in Teardowns /\ At(p, "cluster") /\ sub[p] = 1
     /\ \/ ~live /\ has' = Without("cluster", "made") /\ NextStep(p) /\ Fine
        \/ live /\ Made("cluster")
           /\ has' = has /\ NextStep(p) /\ Error(p, "refused")
        \/ live /\ ~Made("cluster") /\ has' = has /\ NextStep(p) /\ Fine
        \/ StepFails(p, IF live THEN has ELSE Without("cluster", "made"))
     /\ objects' = objects /\ TeardownFrame

\* Odd requests list the policies of one kind, the even ones after them detach
\* or delete what was listed.  IAM refuses to delete a role that has any.
Policy(n) == IF n \in {1, 2} THEN "managed" ELSE "inline"
Listing(p, r) ==
  /\ sub[p] \in {1, 3} /\ Made(r)
  /\ has' = has /\ Fine
  /\ IF Policy(sub[p]) \in has[r]
     THEN NextRequest(p)
     ELSE sub' = [sub EXCEPT ![p] = @ + 2] /\ step' = step /\ GoesOn
Dropping(p, r) ==
  /\ sub[p] \in {2, 4} /\ Policy(sub[p]) \in has[r]
  /\ has' = Without(r, Policy(sub[p])) /\ Fine /\ NextRequest(p)
DeletingRole(p, r) ==
  /\ sub[p] = 5 /\ has[r] = {"made"}
  /\ has' = Without(r, "made") /\ Fine /\ NextStep(p)
RoleRefused(p, r) ==
  /\ \/ ~Made(r)
     \/ sub[p] \in {2, 4} /\ Policy(sub[p]) \notin has[r]
     \/ sub[p] = 5 /\ has[r] # {"made"}
  /\ has' = has /\ Error(p, "refused") /\ NextStep(p)
RoleEffect(p, r) ==
  IF sub[p] \in {2, 4} THEN Without(r, Policy(sub[p]))
  ELSE IF sub[p] = 5 /\ has[r] = {"made"} THEN Without(r, "made") ELSE has

DeleteRole(p, r) ==
  \/ Look(p, r)
  \/ /\ p \in Teardowns /\ At(p, r) /\ sub[p] > 0
     /\ \/ Listing(p, r) \/ Dropping(p, r) \/ DeletingRole(p, r) \/ RoleRefused(p, r)
        \/ StepFails(p, RoleEffect(p, r))
     /\ objects' = objects /\ TeardownFrame

\* Under the default name there is no bucket to find.
BucketUnknown(p) ==
  /\ p \in Teardowns /\ At(p, "bucket") /\ sub[p] = 0 /\ ~knows[p]
  /\ \/ has' = has /\ NextStep(p) /\ Fine
     \/ StepFails(p, has)
  /\ objects' = objects /\ TeardownFrame

\* The listing and the DeleteObjects of its pages, whose per-key errors nobody
\* reads.
EmptyBucket(p) ==
  /\ p \in Teardowns /\ At(p, "bucket") /\ sub[p] = 1
  /\ \/ /\ Made("bucket")
        /\ \/ objects' = FALSE /\ Happens("none")
           \/ "kept" \in Faults /\ objects' = objects /\ Happens("fault")
        /\ has' = has /\ NextRequest(p) /\ errs' = errs
     \/ /\ ~Made("bucket") /\ objects' = objects
        /\ has' = has /\ NextStep(p) /\ Error(p, "refused")
     \/ StepFails(p, has) /\ objects' \in {objects, FALSE}
  /\ TeardownFrame

RemoveBucket(p) ==
  /\ p \in Teardowns /\ At(p, "bucket") /\ sub[p] = 2
  /\ LET gone == IF objects THEN has ELSE [has EXCEPT !["bucket"] = {}]
     IN \/ Made("bucket") /\ ~objects /\ has' = gone /\ NextStep(p) /\ Fine
        \/ /\ ~Made("bucket") \/ objects
           /\ has' = has /\ NextStep(p) /\ Error(p, "refused")
        \/ StepFails(p, gone)
  /\ objects' = objects /\ TeardownFrame

EmptyAndDeleteBucket(p) ==
  \/ knows[p] /\ Look(p, "bucket")
  \/ BucketUnknown(p) \/ EmptyBucket(p) \/ RemoveBucket(p)

\* Slip: teardown reports success whatever its errors.
RemoveConfigSucceeding(p) ==
  /\ p \in Teardowns /\ At(p, "config")
  /\ config' = "none" /\ Exit(p, "ok")
  /\ UNCHANGED <<has, objects, live>>

\* The configuration goes even when the bucket stays; any error makes the
\* command fail in the end.
RemoveConfig(p) ==
  /\ p \in Teardowns /\ At(p, "config")
  /\ \/ /\ config' = "none"
        /\ Exit(p, IF p \in errs THEN "none" ELSE "ok")
     \/ /\ "disk" \in Faults /\ config' = config /\ Exit(p, "fault")
  /\ UNCHANGED <<has, objects, live>>

Teardown(p) ==
  \/ DeleteWork(p) \/ DeleteCluster(p)
  \/ DeleteRole(p, "exec") \/ DeleteRole(p, "task")
  \/ EmptyAndDeleteBucket(p) \/ RemoveConfig(p)
-----------------------------------------------------------------------------
(* Jobs, which need the configuration to start.                            *)

JobActs ==
  /\ company' = [p \in Commands |->
                   IF p \in running \cap Teardowns THEN company[p] \cup {"job"}
                   ELSE company[p]]
  /\ Fine /\ UNCHANGED <<config, running, step, sub, knows, past>>

\* A job puts its tasks in the bucket, registers its task definition, and runs
\* tasks in the cluster.
StartJob ==
  /\ config = "saved" /\ ~live
  /\ has' = With("work", "made")
  /\ objects' \in {objects, Made("bucket")} /\ live' = Made("cluster")
  /\ JobActs

PutObject ==
  /\ live /\ Made("bucket") /\ objects' = TRUE
  /\ UNCHANGED <<has, live>> /\ JobActs

FinishJob ==
  /\ live /\ live' = FALSE
  /\ UNCHANGED <<has, objects>> /\ JobActs

Job == StartJob \/ PutObject \/ FinishJob

Next ==
  \/ \E p \in Commands : Begin(p) \/ Crash(p)
  \/ \E p \in Setups : Setup(p)
  \/ \E p \in Teardowns : Teardown(p)
  \/ Job

Spec == Init /\ [][Next]_vars
Symmetry == Permutations(Setups)
-----------------------------------------------------------------------------
Complete == \A r \in Provisioned : has[r] = AllParts(r)
Succeeds(p) == p \in running /\ p \notin running' /\ report' = "ok"
Alone(p) == "command" \notin company[p]

\* A configuration file is only written when everything it names was made:
\* as long as nobody tears down, a job that finds it finds the resources, even
\* when setups failed, were killed or overlapped (setup.go:66-110).
ConfigMeansMade ==
  config = "saved" /\ "teardown" \notin past => \A r \in Provisioned : Made(r)

\* Setups that race each other, none of which fails or is killed, leave every
\* resource with its whole configuration, whoever came second (s3.go:92-95).
UndisturbedSetupsComplete == past = {"ok"} /\ running = {} => Complete

\* A teardown without other commands beside it that reports success has left
\* nothing of what setup made, nor, without jobs beside it, of what jobs made,
\* however incomplete that was (teardown.go:57-138).  It must know the bucket.
TeardownRemovesAll ==
  [][\A p \in Teardowns :
       Succeeds(p) /\ Alone(p) /\ knows[p]
         => /\ config' = "none"
            /\ \A r \in Provisioned : has'[r] = {}
            /\ "job" \notin company[p] => \A r \in Resources : has'[r] = {}]_vars

\* A command that is run by itself, after any earlier ones that failed, were
\* killed or ended, is refused nothing because of what these left behind; only
\* a running job keeps the cluster, and objects keep the bucket.
RerunIsAccepted ==
  [][\A p \in running : report' = "refused" /\ Alone(p)
       => p \in Teardowns /\ (At(p, "bucket") \/ At(p, "cluster"))]_vars
=============================================================================
