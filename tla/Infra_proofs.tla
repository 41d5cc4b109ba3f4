---------------------------- MODULE Infra_proofs ----------------------------
(***************************************************************************)
(* Proofs about Infra: for any number of setups and teardowns, any number  *)
(* of them at the same time, any number of failures of any kind, and jobs  *)
(* beside them.                                                            *)
(***************************************************************************)
EXTENDS Infra, FiniteSetTheorems, TLAPS

\* Where the resources stand in the order of each command, and how many
\* requests of a step can be over.
SetupIndex == [bucket |-> 1, exec |-> 2, task |-> 3, cluster |-> 4]
TeardownIndex == [work |-> 1, cluster |-> 2, exec |-> 3, task |-> 4, bucket |-> 5]
Requests(p, s) ==
  IF p \in Setups THEN <<4, 3, 2, 1, 0, 0>>[s] ELSE <<0, 1, 5, 5, 2, 0>>[s]

(* The inductive invariant.                                                *)

\* A resource has parts of its own, and none that was not made.
Kit(r) == IF r \in Provisioned THEN AllParts(r) ELSE {"made"}
AccountInv ==
  /\ has \in [Resources -> SUBSET UNION {AllParts(r) : r \in Provisioned}]
  /\ \A r \in Resources : has[r] \subseteq Kit(r) /\ (Made(r) \/ has[r] = {})

\* Where the commands are.
CommandInv ==
  /\ running \subseteq Commands /\ IsFiniteSet(running) /\ Cardinality(running) <= MaxRunning
  /\ step \in [Commands -> 1..6] /\ sub \in [Commands -> 0..5]
  /\ errs \subseteq Teardowns
  /\ knows \in [Commands -> BOOLEAN]
  /\ company \in [Commands -> SUBSET {"command", "job"}]
  /\ past \in (SUBSET {"ok", "cut"}) \cup {{"teardown"}}
  /\ \A p \in Commands : sub[p] <= Requests(p, step[p])
  /\ \A p \in Commands \ running : step[p] = 1 /\ sub[p] = 0

TypeInv ==
  /\ AccountInv /\ CommandInv
  /\ objects \in BOOLEAN /\ live \in BOOLEAN /\ config \in {"none", "torn", "saved"}
  /\ report \in {"ok", "refused", "none"} /\ faults \in 0..MaxFaults

\* As long as nobody has torn anything down, what a setup has passed is made,
\* and so is everything once one has ended or written the configuration.
MadeInv ==
  /\ running \cap Teardowns # {} => "teardown" \in past
  /\ "teardown" \notin past =>
       /\ \A p \in running \cap Setups, r \in Provisioned :
            step[p] > SetupIndex[r] \/ (step[p] = SetupIndex[r] /\ sub[p] > 1) => Made(r)
       /\ config = "saved" \/ "ok" \in past => \A r \in Provisioned : Made(r)

\* As long as nothing went wrong, each missing part of a resource that was
\* made is still to be made by a setup that is at it.
WholeInv ==
  past \subseteq {"ok"} =>
    \A r \in Provisioned : \A i \in 1..Len(Parts[r]) :
      \/ ~Made(r) \/ Parts[r][i] \in has[r]
      \/ \E p \in running \cap Setups :
           step[p] = SetupIndex[r] /\ 2 <= sub[p] /\ sub[p] <= i

\* Commands that run together know of it.
CompanyInv == \A p, q \in running : p = q \/ "command" \in company[p]

\* A command by itself finds what it found before, and, as a teardown without
\* an error, has left nothing of what it passed.
LoneSetup(p) ==
  \A r \in Provisioned : step[p] = SetupIndex[r] /\ sub[p] > 0 => (Made(r) <=> sub[p] > 1)
LoneTeardown(p) ==
  \A r \in {"exec", "task"} : step[p] = TeardownIndex[r] /\ sub[p] > 0 =>
    /\ Made(r)
    /\ sub[p] = 2 => "managed" \in has[r]
    /\ sub[p] > 2 => "managed" \notin has[r]
    /\ sub[p] = 4 => "inline" \in has[r]
    /\ sub[p] = 5 => "inline" \notin has[r]
CleanBehind(p) ==
  knows[p] /\ p \notin errs =>
    /\ \A r \in Provisioned : step[p] > TeardownIndex[r] => has[r] = {}
    /\ "job" \notin company[p] /\ step[p] > 1 => has["work"] = {}
LoneInv ==
  \A p \in running : Alone(p) =>
    /\ p \in Setups => LoneSetup(p)
    /\ p \in Teardowns => LoneTeardown(p) /\ CleanBehind(p)

InfraInv == TypeInv /\ MadeInv /\ WholeInv /\ CompanyInv /\ LoneInv
-----------------------------------------------------------------------------
(* The resources and the orders.                                           *)

LEMMA PartFacts ==
  /\ Provisioned = {"bucket", "exec", "task", "cluster"}
  /\ Resources = {"bucket", "exec", "task", "cluster", "work"}
  /\ Len(Parts["bucket"]) = 4 /\ Len(Parts["exec"]) = 3
  /\ Len(Parts["task"]) = 2 /\ Len(Parts["cluster"]) = 1
  /\ Parts["bucket"][1] = "made" /\ Parts["bucket"][2] = "encryption"
  /\ Parts["bucket"][3] = "publicAccess" /\ Parts["bucket"][4] = "lifecycle"
  /\ Parts["exec"][1] = "made" /\ Parts["exec"][2] = "managed" /\ Parts["exec"][3] = "inline"
  /\ Parts["task"][1] = "made" /\ Parts["task"][2] = "inline" /\ Parts["cluster"][1] = "made"
<1>1. Provisioned = {"bucket", "exec", "task", "cluster"}
  BY DEF Provisioned, Parts
<1> QED
  BY <1>1 DEF Resources, Parts

\* A resource is made before its other parts.
LEMMA MadeFirst ==
  ASSUME NEW r \in Provisioned, NEW i \in 1..Len(Parts[r])
  PROVE  Parts[r][i] = "made" <=> i = 1
<1>1. CASE r = "bucket"
  <2>1. i \in {1, 2, 3, 4}
    BY <1>1, PartFacts
  <2> QED
    BY <1>1, <2>1, PartFacts
<1>2. CASE r = "exec"
  <2>1. i \in {1, 2, 3}
    BY <1>2, PartFacts
  <2> QED
    BY <1>2, <2>1, PartFacts
<1>3. CASE r = "task"
  <2>1. i \in {1, 2}
    BY <1>3, PartFacts
  <2> QED
    BY <1>3, <2>1, PartFacts
<1>4. CASE r = "cluster"
  <2>1. i = 1
    BY <1>4, PartFacts
  <2> QED
    BY <1>4, <2>1, PartFacts
<1> QED
  BY <1>1, <1>2, <1>3, <1>4, PartFacts

LEMMA AllPartsFacts ==
  /\ AllParts("bucket") = {"made", "encryption", "publicAccess", "lifecycle"}
  /\ AllParts("exec") = {"made", "managed", "inline"}
  /\ AllParts("task") = {"made", "inline"} /\ AllParts("cluster") = {"made"}
<1>1. 1..4 = {1, 2, 3, 4} /\ 1..3 = {1, 2, 3} /\ 1..2 = {1, 2} /\ 1..1 = {1}
  OBVIOUS
<1>2. AllParts("bucket") = {Parts["bucket"][1], Parts["bucket"][2], Parts["bucket"][3],
                            Parts["bucket"][4]}
  BY <1>1, PartFacts DEF AllParts
<1>3. AllParts("exec") = {Parts["exec"][1], Parts["exec"][2], Parts["exec"][3]}
  BY <1>1, PartFacts DEF AllParts
<1>4. AllParts("task") = {Parts["task"][1], Parts["task"][2]}
  BY <1>1, PartFacts DEF AllParts
<1>5. AllParts("cluster") = {Parts["cluster"][1]}
  BY <1>1, PartFacts DEF AllParts
<1> QED
  BY <1>2, <1>3, <1>4, <1>5, PartFacts

LEMMA IndexFacts ==
  /\ SetupIndex["bucket"] = 1 /\ SetupIndex["exec"] = 2
  /\ SetupIndex["task"] = 3 /\ SetupIndex["cluster"] = 4
  /\ TeardownIndex["work"] = 1 /\ TeardownIndex["cluster"] = 2 /\ TeardownIndex["exec"] = 3
  /\ TeardownIndex["task"] = 4 /\ TeardownIndex["bucket"] = 5
  BY DEF SetupIndex, TeardownIndex

\* A setup is at a resource when its step is that of the resource.
LEMMA SetupAt ==
  ASSUME NEW p \in Setups, step[p] \in 1..6
  PROVE  /\ Order(p) = SetupOrder /\ Len(Order(p)) = 6
         /\ \A r \in Provisioned : At(p, r) <=> p \in running /\ step[p] = SetupIndex[r]
         /\ At(p, "quota") <=> p \in running /\ step[p] = 5
         /\ At(p, "config") <=> p \in running /\ step[p] = 6
         /\ ~At(p, "work")
<1>1. Order(p) = SetupOrder
  BY DEF Order
<1>2. Len(SetupOrder) = 6
  BY DEF SetupOrder
<1>3. /\ SetupOrder[1] = "bucket" /\ SetupOrder[2] = "exec" /\ SetupOrder[3] = "task"
      /\ SetupOrder[4] = "cluster" /\ SetupOrder[5] = "quota" /\ SetupOrder[6] = "config"
  BY DEF SetupOrder
<1>4. step[p] \in {1, 2, 3, 4, 5, 6}
  OBVIOUS
<1> QED
  BY <1>1, <1>2, <1>3, <1>4, PartFacts, IndexFacts DEF At

\* And a teardown.
LEMMA TeardownAt ==
  ASSUME NEW p \in Teardowns, step[p] \in 1..6
  PROVE  /\ Order(p) = TeardownOrder /\ Len(Order(p)) = 6
         /\ \A r \in Resources : At(p, r) <=> p \in running /\ step[p] = TeardownIndex[r]
         /\ At(p, "config") <=> p \in running /\ step[p] = 6
         /\ ~At(p, "quota")
<1>1. Order(p) = TeardownOrder
  BY InfraAssumption DEF Order
<1>2. Len(TeardownOrder) = 6
  BY DEF TeardownOrder
<1>3. /\ TeardownOrder[1] = "work" /\ TeardownOrder[2] = "cluster" /\ TeardownOrder[3] = "exec"
      /\ TeardownOrder[4] = "task" /\ TeardownOrder[5] = "bucket" /\ TeardownOrder[6] = "config"
  BY DEF TeardownOrder
<1>4. step[p] \in {1, 2, 3, 4, 5, 6}
  OBVIOUS
<1> QED
  BY <1>1, <1>2, <1>3, <1>4, PartFacts, IndexFacts DEF At

\* The requests of each step.
LEMMA RequestFacts ==
  ASSUME NEW p \in Commands, NEW s \in 1..6
  PROVE  /\ Requests(p, s) \in 0..5
         /\ p \in Setups => \A r \in Provisioned :
              s = SetupIndex[r] => Requests(p, s) = Len(Parts[r])
         /\ p \in Setups /\ s > 4 => Requests(p, s) = 0
         /\ p \notin Setups =>
              /\ s \in {1, 6} => Requests(p, s) = 0
              /\ s = 2 => Requests(p, s) = 1
              /\ s \in {3, 4} => Requests(p, s) = 5
              /\ s = 5 => Requests(p, s) = 2
<1>1. s \in {1, 2, 3, 4, 5, 6}
  OBVIOUS
<1>2. CASE p \in Setups
  <2>1. Requests(p, s) = <<4, 3, 2, 1, 0, 0>>[s]
    BY <1>2 DEF Requests
  <2>2. /\ s = 1 => Requests(p, s) = 4
        /\ s = 2 => Requests(p, s) = 3
        /\ s = 3 => Requests(p, s) = 2
        /\ s = 4 => Requests(p, s) = 1
        /\ s > 4 => Requests(p, s) = 0
    BY <1>1, <2>1
  <2>3. ASSUME NEW r \in Provisioned, s = SetupIndex[r]
        PROVE  Requests(p, s) = Len(Parts[r])
    BY <2>2, <2>3, PartFacts, IndexFacts
  <2> QED
    BY <1>1, <1>2, <2>2, <2>3
<1>3. CASE p \notin Setups
  <2>1. Requests(p, s) = <<0, 1, 5, 5, 2, 0>>[s]
    BY <1>3 DEF Requests
  <2> QED
    BY <1>1, <1>3, <2>1
<1> QED
  BY <1>2, <1>3
-----------------------------------------------------------------------------
(* Types.                                                                  *)

\* Every part is a part of some resource.
LEMMA KitFacts ==
  /\ \A r \in Resources : Kit(r) \subseteq UNION {AllParts(q) : q \in Provisioned}
  /\ \A r \in Resources : "made" \in Kit(r)
<1>1. Provisioned \subseteq Resources /\ "made" \in AllParts("bucket") /\ "bucket" \in Provisioned
  BY PartFacts, AllPartsFacts
<1> QED
  BY <1>1, PartFacts, AllPartsFacts DEF Kit

\* One resource changes at a time.
LEMMA AccountChange ==
  ASSUME AccountInv, NEW r \in Resources, NEW parts \in SUBSET Kit(r),
         "made" \in parts \/ parts = {}, has' = [has EXCEPT ![r] = parts]
  PROVE  AccountInv'
  BY KitFacts DEF AccountInv, Made

LEMMA AccountFrame == AccountInv /\ has' = has => AccountInv'
  BY DEF AccountInv, Made

\* A command goes on.
LEMMA GoingOn ==
  ASSUME CommandInv, NEW p \in running, GoesOn,
         NEW s \in 1..6, NEW n \in 0..Requests(p, s),
         step' = [step EXCEPT ![p] = s], sub' = [sub EXCEPT ![p] = n],
         errs' \subseteq Teardowns
  PROVE  CommandInv'
<1>1. p \in Commands /\ Requests(p, s) \in 0..5
  BY RequestFacts DEF CommandInv
<1>2. n \in 0..5 /\ n <= Requests(p, s)
  BY <1>1
<1>3. \A q \in Commands : sub'[q] <= Requests(q, step'[q])
  BY <1>1, <1>2 DEF CommandInv
<1>4. step' \in [Commands -> 1..6] /\ sub' \in [Commands -> 0..5]
  BY <1>1, <1>2 DEF CommandInv
<1> QED
  BY <1>3, <1>4 DEF CommandInv, GoesOn

LEMMA NextStepTypes ==
  ASSUME CommandInv, NEW p \in running, NextStep(p), step[p] < 6, errs' \subseteq Teardowns
  PROVE  CommandInv'
<1>1. p \in Commands /\ step[p] + 1 \in 1..6
  BY DEF CommandInv
<1>2. 0 \in 0..Requests(p, step[p] + 1)
  BY <1>1, RequestFacts
<1> QED
  BY <1>1, <1>2, GoingOn DEF NextStep

LEMMA NextRequestTypes ==
  ASSUME CommandInv, NEW p \in running, GoesOn, step' = step,
         NEW n \in Nat, n <= Requests(p, step[p]), sub' = [sub EXCEPT ![p] = n],
         errs' \subseteq Teardowns
  PROVE  CommandInv'
<1>1. p \in Commands /\ step[p] \in 1..6 /\ step' = [step EXCEPT ![p] = step[p]]
  BY DEF CommandInv
<1>2. n \in 0..Requests(p, step[p])
  BY <1>1, RequestFacts
<1> QED
  BY <1>1, <1>2, GoingOn

\* A command ends.
LEMMA ExitTypes ==
  ASSUME CommandInv, NEW p \in running, NEW how, Exit(p, how)
  PROVE  CommandInv'
<1>1. /\ running' = running \ {p} /\ IsFiniteSet(running')
      /\ Cardinality(running') <= MaxRunning
  <2>1. running' = running \ {p} /\ IsFiniteSet(running)
    BY DEF Exit, CommandInv
  <2>2. /\ IsFiniteSet(running') /\ Cardinality(running') = Cardinality(running) - 1
        /\ Cardinality(running) \in Nat
    BY <2>1, FS_RemoveElement, FS_CardinalityType
  <2> QED
    BY <2>1, <2>2, InfraAssumption DEF CommandInv
<1>2. p \in Commands /\ Requests(p, 1) \in 0..5
  BY RequestFacts DEF CommandInv
<1>3. \A q \in Commands : sub'[q] <= Requests(q, step'[q])
  BY <1>2 DEF CommandInv, Exit
<1>4. past' \in (SUBSET {"ok", "cut"}) \cup {{"teardown"}}
  BY DEF CommandInv, Exit
<1>5. errs' \subseteq Teardowns /\ step' \in [Commands -> 1..6] /\ sub' \in [Commands -> 0..5]
  BY DEF CommandInv, Exit
<1>6. knows' \in [Commands -> BOOLEAN] /\ company' \in [Commands -> SUBSET {"command", "job"}]
  BY DEF CommandInv, Exit
<1>7. \A q \in Commands \ running' : step'[q] = 1 /\ sub'[q] = 0
  BY <1>1 DEF CommandInv, Exit
<1> QED
  BY <1>1, <1>2, <1>3, <1>4, <1>5, <1>6, <1>7 DEF CommandInv

\* A command begins.
LEMMA BeginTypes ==
  ASSUME CommandInv, NEW p \in Commands, Begin(p)
  PROVE  CommandInv'
<1>1. /\ running' = running \cup {p} /\ p \notin running /\ IsFiniteSet(running)
      /\ Cardinality(running) < MaxRunning
  BY DEF Begin, CommandInv
<1>2. /\ IsFiniteSet(running') /\ Cardinality(running') = Cardinality(running) + 1
      /\ Cardinality(running) \in Nat
  BY <1>1, FS_AddElement, FS_CardinalityType
<1>3. Cardinality(running') <= MaxRunning
  BY <1>1, <1>2, InfraAssumption
<1>4. knows' \in [Commands -> BOOLEAN]
  BY DEF Begin, CommandInv
<1>5. company' \in [Commands -> SUBSET {"command", "job"}]
  BY DEF Begin, CommandInv
<1>6. UNCHANGED <<step, sub, errs>> /\ past' \in {past, {"teardown"}}
  BY DEF Begin, Fine
<1>7. past' \in (SUBSET {"ok", "cut"}) \cup {{"teardown"}}
  BY <1>6 DEF CommandInv
<1>8. running' \subseteq Commands
  BY <1>1 DEF CommandInv
<1>9. \A q \in Commands : sub'[q] <= Requests(q, step'[q])
  BY <1>6 DEF CommandInv
<1>10. \A q \in Commands \ running' : step'[q] = 1 /\ sub'[q] = 0
  BY <1>1, <1>6 DEF CommandInv
<1> QED
  BY <1>2, <1>3, <1>4, <1>5, <1>6, <1>7, <1>8, <1>9, <1>10 DEF CommandInv

\* What setup's steps have in common.
Making(p, r) ==
  \E shared \in SUBSET Provisioned :
    (r \in {"bucket", "cluster"} => r \in shared) /\ MakePart(p, r, shared)

LEMMA SetupForms ==
  ASSUME NEW p \in Setups, Setup(p)
  PROVE  \/ \E r \in Provisioned : Probe(p, r) \/ Making(p, r)
         \/ BucketTaken(p) \/ CheckQuota(p) \/ SaveConfig(p)
<1>1. CASE CreateBucket(p)
  BY <1>1, PartFacts DEF CreateBucket, Making
<1>2. CASE CreateExecutionRole(p)
  BY <1>2, PartFacts DEF CreateExecutionRole, Making
<1>3. CASE CreateTaskRole(p)
  BY <1>3, PartFacts DEF CreateTaskRole, Making
<1>4. CASE CreateCluster(p)
  BY <1>4, PartFacts DEF CreateCluster, Making
<1> QED
  BY <1>1, <1>2, <1>3, <1>4 DEF Setup

\* What a step of a setup that is at a part of a resource adds.
LEMMA PartAdded ==
  ASSUME TypeInv, NEW r \in Provisioned, NEW i \in 1..Len(Parts[r]),
         i = 1 \/ Made(r), has' \in {has, With(r, Parts[r][i])}
  PROVE  AccountInv'
<1>1. r \in Resources /\ Parts[r][i] \in AllParts(r) /\ (i = 1 => Parts[r][i] = "made")
  BY PartFacts DEF AllParts
<1>2. CASE has' = has
  BY <1>2, AccountFrame DEF TypeInv
<1>3. CASE has' = With(r, Parts[r][i])
  <2> DEFINE parts == has[r] \cup {Parts[r][i]}
  <2>1. has' = [has EXCEPT ![r] = parts]
    BY <1>3 DEF With
  <2>2. parts \in SUBSET Kit(r) /\ "made" \in parts
    BY <1>1 DEF TypeInv, AccountInv, Kit, Made
  <2> HIDE DEF parts
  <2> QED
    BY <1>1, <2>1, <2>2, AccountChange DEF TypeInv
<1> QED
  BY <1>2, <1>3

\* The steps of setup keep the types.
LEMMA SetupTypes ==
  ASSUME TypeInv, NEW p \in Setups, Setup(p)
  PROVE  TypeInv'
<1>0. CommandInv /\ AccountInv /\ p \in Commands /\ step[p] \in 1..6 /\ sub[p] \in 0..5
      /\ errs \subseteq Teardowns /\ sub[p] <= Requests(p, step[p])
  BY DEF TypeInv, CommandInv, Commands
<1>1. ASSUME NEW r \in Provisioned, Probe(p, r) PROVE TypeInv'
  <2>1. p \in running /\ step[p] = SetupIndex[r] /\ step[p] < 6 /\ Len(Parts[r]) >= 1
    BY <1>0, <1>1, SetupAt, PartFacts, IndexFacts DEF Probe
  <2>2. CommandInv'
    <3>1. CASE NextStep(p) /\ Fine
      BY <1>0, <2>1, <3>1, NextStepTypes DEF Fine
    <3>2. CASE NextRequest(p) /\ Fine
      <4>1. Requests(p, step[p]) >= 1
        BY <1>0, <2>1, RequestFacts
      <4>2. sub' = [sub EXCEPT ![p] = 1]
        BY <1>0, <1>1, <3>2 DEF Probe, NextRequest, CommandInv
      <4> QED
        BY <1>0, <2>1, <3>2, <4>1, <4>2, NextRequestTypes DEF Fine, NextRequest
    <3>3. CASE Exit(p, "fault")
      BY <1>0, <2>1, <3>3, ExitTypes
    <3> QED
      BY <1>1, <3>1, <3>2, <3>3 DEF Probe
  <2>3. AccountInv'
    BY <1>0, <1>1, AccountFrame DEF Probe
  <2>4. UNCHANGED <<objects, live, config>> /\ report' \in {"none", "refused"}
        /\ faults' \in 0..MaxFaults
    BY <1>1, InfraAssumption DEF Probe, SetupFrame, Fine, Exit, Happens, TypeInv
  <2> QED
    BY <2>2, <2>3, <2>4 DEF TypeInv
<1>2. ASSUME NEW r \in Provisioned, Making(p, r) PROVE TypeInv'
  <2>1. PICK shared \in SUBSET Provisioned : MakePart(p, r, shared)
    BY <1>2 DEF Making
  <2>2. p \in running /\ step[p] = SetupIndex[r] /\ step[p] < 6 /\ sub[p] > 0
        /\ sub[p] \in 1..Len(Parts[r])
    <3>1. p \in running /\ step[p] = SetupIndex[r] /\ sub[p] > 0
      BY <1>0, <2>1, SetupAt DEF MakePart
    <3>2. Requests(p, step[p]) = Len(Parts[r]) /\ step[p] < 6 /\ Len(Parts[r]) \in Nat
      BY <1>0, <3>1, RequestFacts, PartFacts, IndexFacts
    <3> QED
      BY <1>0, <3>1, <3>2
  <2>3. CommandInv'
    <3>1. CASE NextStep(p) /\ Fine
      BY <1>0, <2>2, <3>1, NextStepTypes DEF Fine
    <3>2. CASE NextRequest(p) /\ Fine /\ sub[p] # Len(Parts[r])
      <4>1. sub[p] + 1 <= Requests(p, step[p])
        <5>1. Requests(p, step[p]) = Len(Parts[r]) /\ Len(Parts[r]) \in Nat
          BY <1>0, <2>2, RequestFacts, PartFacts
        <5> QED
          BY <2>2, <3>2, <5>1
      <4>2. sub' = [sub EXCEPT ![p] = sub[p] + 1] /\ sub[p] + 1 \in Nat
        BY <1>0, <3>2 DEF NextRequest, CommandInv
      <4> QED
        BY <1>0, <2>2, <3>2, <4>1, <4>2, NextRequestTypes DEF Fine, NextRequest
    <3>3. ASSUME NEW how \in {"fault", "refused"}, Exit(p, how) PROVE CommandInv'
      BY <1>0, <2>2, <3>3, ExitTypes
    <3> QED
      BY <2>1, <3>1, <3>2, <3>3 DEF MakePart
  <2>4. AccountInv'
    <3>1. \/ (sub[p] = 1 \/ Made(r)) /\ has' = With(r, Parts[r][sub[p]])
          \/ has' = has
      BY <2>1, <2>2, MadeFirst DEF MakePart
    <3> QED
      BY <1>0, <2>2, <3>1, PartAdded, AccountFrame
  <2>5. UNCHANGED <<objects, live, config>> /\ report' \in {"none", "refused"}
        /\ faults' \in 0..MaxFaults
    BY <2>1, InfraAssumption DEF MakePart, SetupFrame, Fine, Exit, Happens, TypeInv
  <2> QED
    BY <2>3, <2>4, <2>5 DEF TypeInv
<1>3. CASE BucketTaken(p) \/ CheckQuota(p)
  <2>1. p \in running /\ step[p] < 6
    BY <1>0, <1>3, SetupAt, PartFacts, IndexFacts DEF BucketTaken, CheckQuota
  <2>2. CommandInv'
    BY <1>0, <1>3, <2>1, NextStepTypes, ExitTypes DEF BucketTaken, CheckQuota, Fine
  <2>3. AccountInv'
    BY <1>0, <1>3, AccountFrame DEF BucketTaken, CheckQuota
  <2>4. UNCHANGED <<objects, live, config>> /\ report' \in {"none", "refused"}
        /\ faults' \in 0..MaxFaults
    BY <1>3, InfraAssumption DEF BucketTaken, CheckQuota, SetupFrame, Fine, Exit, Happens, TypeInv
  <2> QED
    BY <2>2, <2>3, <2>4 DEF TypeInv
<1>4. CASE SaveConfig(p)
  <2>1. p \in running
    BY <1>4 DEF SaveConfig, At
  <2>2. CommandInv'
    BY <1>0, <1>4, <2>1, ExitTypes DEF SaveConfig
  <2>3. AccountInv'
    BY <1>0, <1>4, AccountFrame DEF SaveConfig
  <2>4. UNCHANGED <<objects, live>> /\ config' \in {config, "torn", "saved"}
        /\ report' \in {"none", "ok"} /\ faults' \in 0..MaxFaults
    BY <1>4, InfraAssumption DEF SaveConfig, Exit, Happens, TypeInv
  <2> QED
    BY <2>2, <2>3, <2>4 DEF TypeInv
<1> QED
  BY <1>1, <1>2, <1>3, <1>4, SetupForms

\* The requests of a teardown about the cluster and about a role.
ClusterRequest(p) ==
  /\ p \in Teardowns /\ At(p, "cluster") /\ sub[p] = 1
  /\ \/ ~live /\ has' = Without("cluster", "made") /\ NextStep(p) /\ Fine
     \/ live /\ Made("cluster") /\ has' = has /\ NextStep(p) /\ Error(p, "refused")
     \/ live /\ ~Made("cluster") /\ has' = has /\ NextStep(p) /\ Fine
     \/ StepFails(p, IF live THEN has ELSE Without("cluster", "made"))
  /\ objects' = objects /\ TeardownFrame
RoleRequest(p, r) ==
  /\ p \in Teardowns /\ At(p, r) /\ sub[p] > 0
  /\ \/ Listing(p, r) \/ Dropping(p, r) \/ DeletingRole(p, r) \/ RoleRefused(p, r)
     \/ StepFails(p, RoleEffect(p, r))
  /\ objects' = objects /\ TeardownFrame

\* Every step of a teardown is one of these.
LEMMA TeardownForms ==
  ASSUME NEW p \in Teardowns, Teardown(p)
  PROVE  \/ \E r \in Provisioned : Look(p, r)
         \/ DeleteWork(p) \/ ClusterRequest(p) \/ RoleRequest(p, "exec") \/ RoleRequest(p, "task")
         \/ BucketUnknown(p) \/ EmptyBucket(p) \/ RemoveBucket(p) \/ RemoveConfig(p)
<1>1. CASE DeleteCluster(p)
  BY <1>1, PartFacts DEF DeleteCluster, ClusterRequest
<1>2. CASE DeleteRole(p, "exec")
  BY <1>2, PartFacts DEF DeleteRole, RoleRequest
<1>3. CASE DeleteRole(p, "task")
  BY <1>3, PartFacts DEF DeleteRole, RoleRequest
<1>4. CASE EmptyAndDeleteBucket(p)
  BY <1>4, PartFacts DEF EmptyAndDeleteBucket
<1> QED
  BY <1>1, <1>2, <1>3, <1>4 DEF Teardown

\* Where a teardown is.
LEMMA TeardownPlace ==
  ASSUME CommandInv, NEW p \in Teardowns
  PROVE  /\ p \in Commands /\ step[p] \in 1..6 /\ sub[p] \in 0..5
         /\ sub[p] <= Requests(p, step[p])
         /\ \A r \in Resources : At(p, r) <=> p \in running /\ step[p] = TeardownIndex[r]
         /\ At(p, "config") <=> p \in running /\ step[p] = 6
         /\ step[p] \in {1, 6} => Requests(p, step[p]) = 0
         /\ step[p] = 2 => Requests(p, step[p]) = 1
         /\ step[p] \in {3, 4} => Requests(p, step[p]) = 5
         /\ step[p] = 5 => Requests(p, step[p]) = 2
<1>1. p \in Commands /\ p \notin Setups /\ step[p] \in 1..6 /\ sub[p] \in 0..5
  BY InfraAssumption DEF CommandInv, Commands
<1>2. sub[p] <= Requests(p, step[p])
  BY <1>1 DEF CommandInv
<1> QED
  BY <1>1, <1>2, TeardownAt, RequestFacts

\* What a teardown takes away.
LEMMA PartGone ==
  ASSUME AccountInv, NEW r \in Resources, NEW part,
         part # "made" \/ has[r] \subseteq {"made"}, has' \in {has, Without(r, part)}
  PROVE  AccountInv'
<1>1. CASE has' = has
  BY <1>1, AccountFrame
<1>2. CASE has' = Without(r, part)
  <2> DEFINE parts == has[r] \ {part}
  <2>1. has' = [has EXCEPT ![r] = parts] /\ parts \in SUBSET Kit(r)
    BY <1>2 DEF Without, AccountInv
  <2>2. "made" \in parts \/ parts = {}
    BY DEF AccountInv, Made
  <2> HIDE DEF parts
  <2> QED
    BY <2>1, <2>2, AccountChange
<1> QED
  BY <1>1, <1>2

\* The account after a step of a teardown.
LEMMA TeardownAccount ==
  ASSUME TypeInv, NEW p \in Teardowns, Teardown(p)
  PROVE  AccountInv'
<1>0. AccountInv /\ CommandInv /\ (RemoveConfig(p) => has' = has)
  BY DEF TypeInv, RemoveConfig
<1>1. CASE (\E r \in Provisioned : Look(p, r)) \/ BucketUnknown(p) \/ EmptyBucket(p)
  BY <1>0, <1>1, AccountFrame DEF Look, BucketUnknown, EmptyBucket, StepFails
<1>2. CASE DeleteWork(p)
  <2>1. has' \in {has, Without("work", "made")}
    BY <1>2 DEF DeleteWork, StepFails
  <2>2. has["work"] \subseteq {"made"} /\ "work" \in Resources
    BY <1>0, PartFacts DEF AccountInv, Kit
  <2> QED
    BY <1>0, <2>1, <2>2, PartGone
<1>3. CASE ClusterRequest(p)
  <2>1. has' \in {has, Without("cluster", "made")}
    BY <1>3 DEF ClusterRequest, StepFails
  <2>2. has["cluster"] \subseteq {"made"} /\ "cluster" \in Resources
    BY <1>0, PartFacts, AllPartsFacts DEF AccountInv, Kit
  <2> QED
    BY <1>0, <2>1, <2>2, PartGone
<1>4. ASSUME NEW r \in {"exec", "task"}, RoleRequest(p, r) PROVE AccountInv'
  <2>1. \/ has' = has
        \/ has' = Without(r, Policy(sub[p]))
        \/ has' = Without(r, "made") /\ has[r] = {"made"}
    BY <1>4 DEF RoleRequest, Listing, Dropping, DeletingRole, RoleRefused, StepFails, RoleEffect
  <2>2. Policy(sub[p]) # "made" /\ r \in Resources
    BY PartFacts DEF Policy
  <2> QED
    BY <1>0, <2>1, <2>2, PartGone
<1>5. CASE RemoveBucket(p)
  <2>1. has' \in {has, [has EXCEPT !["bucket"] = {}]}
    BY <1>5 DEF RemoveBucket, StepFails
  <2>2. "bucket" \in Resources /\ {} \in SUBSET Kit("bucket")
    BY PartFacts
  <2> QED
    BY <1>0, <2>1, <2>2, AccountChange, AccountFrame
<1> QED
  BY <1>0, <1>1, <1>2, <1>3, <1>4, <1>5, TeardownForms, AccountFrame

\* The place of a teardown after a step.
LEMMA TeardownCommand ==
  ASSUME TypeInv, NEW p \in Teardowns, Teardown(p)
  PROVE  CommandInv'
<1>0. CommandInv
  BY DEF TypeInv
<1>1. p \in running
  BY TeardownForms DEF Look, DeleteWork, ClusterRequest, RoleRequest, BucketUnknown, EmptyBucket,
     RemoveBucket, RemoveConfig, At
<1>2. \/ NextStep(p) /\ step[p] < 6 /\ errs' \subseteq Teardowns
      \/ /\ GoesOn /\ step' = step /\ errs' = errs
         /\ \E n \in 0..5 : n <= Requests(p, step[p]) /\ sub' = [sub EXCEPT ![p] = n]
      \/ \E how \in {"none", "ok", "fault"} : Exit(p, how)
  <2> USE <1>0, TeardownPlace, PartFacts, IndexFacts
  <2>0. errs \subseteq Teardowns /\ errs \cup {p} \subseteq Teardowns /\ sub \in [Commands -> 0..5]
    BY DEF CommandInv
  <2>1. ASSUME NEW r \in Provisioned, Look(p, r)
        PROVE  \/ NextStep(p) /\ step[p] < 6 /\ errs' \subseteq Teardowns
               \/ /\ GoesOn /\ step' = step /\ errs' = errs
                  /\ 1 <= Requests(p, step[p]) /\ sub' = [sub EXCEPT ![p] = 1]
    <3>1. sub[p] = 0 /\ step[p] \in 2..5 /\ 1 <= Requests(p, step[p])
      BY <2>1 DEF Look
    <3>2. CASE NextRequest(p) /\ Fine
      BY <2>0, <3>1, <3>2 DEF NextRequest, Fine
    <3>3. CASE NextStep(p) /\ errs' \subseteq Teardowns
      BY <3>1, <3>3
    <3> QED
      BY <2>0, <2>1, <3>2, <3>3 DEF Look, StepFails, Fine, Error
  <2>2. CASE DeleteWork(p) \/ ClusterRequest(p) \/ BucketUnknown(p) \/ RemoveBucket(p)
    BY <2>0, <2>2
    DEF DeleteWork, ClusterRequest, BucketUnknown, RemoveBucket, StepFails, Fine, Error
  <2>3. CASE EmptyBucket(p)
    <3>1. step[p] = 5 /\ sub[p] = 1 /\ Requests(p, step[p]) = 2
      BY <2>3 DEF EmptyBucket
    <3>2. CASE NextRequest(p) /\ errs' = errs
      <4>1. sub' = [sub EXCEPT ![p] = 2]
        BY <2>0, <3>1, <3>2 DEF NextRequest
      <4> QED
        BY <3>1, <3>2, <4>1 DEF NextRequest
    <3>3. CASE NextStep(p) /\ errs' = errs \cup {p}
      BY <2>0, <3>1, <3>3
    <3> QED
      BY <2>3, <3>2, <3>3 DEF EmptyBucket, StepFails, Error
  <2>4. ASSUME NEW r \in {"exec", "task"}, RoleRequest(p, r)
        PROVE  \/ NextStep(p) /\ step[p] < 6 /\ errs' \subseteq Teardowns
               \/ /\ GoesOn /\ step' = step /\ errs' = errs
                  /\ \E n \in 0..5 : sub' = [sub EXCEPT ![p] = n]
    <3>1. step[p] \in 3..4
      BY <2>4 DEF RoleRequest
    <3>2. CASE Listing(p, r) \/ Dropping(p, r)
      <4>1. sub[p] \in {1, 2, 3, 4} /\ (sub[p] = 4 => Dropping(p, r))
        BY <3>2 DEF Listing, Dropping
      <4>2. GoesOn /\ step' = step /\ errs' = errs
        BY <3>2 DEF Listing, Dropping, NextRequest, Fine
      <4>3. \/ sub' = [sub EXCEPT ![p] = sub[p] + 1] /\ sub[p] + 1 \in 0..5
            \/ sub' = [sub EXCEPT ![p] = sub[p] + 2] /\ sub[p] + 2 \in 0..5
        BY <2>0, <3>2, <4>1 DEF Listing, Dropping, NextRequest
      <4> QED
        BY <4>2, <4>3
    <3>3. CASE DeletingRole(p, r) \/ RoleRefused(p, r) \/ StepFails(p, RoleEffect(p, r))
      BY <2>0, <3>1, <3>3 DEF DeletingRole, RoleRefused, StepFails, Fine, Error
    <3> QED
      BY <2>4, <3>2, <3>3 DEF RoleRequest
  <2>5. ASSUME NEW r \in {"exec", "task"}, RoleRequest(p, r) PROVE Requests(p, step[p]) = 5
    BY <2>5 DEF RoleRequest
  <2>6. CASE RemoveConfig(p)
    BY <2>6 DEF RemoveConfig
  <2> QED
    BY <2>1, <2>2, <2>3, <2>4, <2>5, <2>6, TeardownForms
<1>3. CASE NextStep(p) /\ step[p] < 6 /\ errs' \subseteq Teardowns
  BY <1>0, <1>1, <1>3, NextStepTypes
<1>4. ASSUME GoesOn, step' = step, errs' = errs, NEW n \in 0..5, n <= Requests(p, step[p]),
             sub' = [sub EXCEPT ![p] = n]
      PROVE  CommandInv'
  <2>1. errs' \subseteq Teardowns /\ n \in Nat
    BY <1>0, <1>4 DEF CommandInv
  <2> QED
    BY <1>0, <1>1, <1>4, <2>1, NextRequestTypes
<1>5. ASSUME NEW how \in {"none", "ok", "fault"}, Exit(p, how) PROVE CommandInv'
  BY <1>0, <1>1, <1>5, ExitTypes
<1> QED
  BY <1>2, <1>3, <1>4, <1>5

LEMMA TeardownTypes ==
  ASSUME TypeInv, NEW p \in Teardowns, Teardown(p)
  PROVE  TypeInv'
<1>1. /\ objects' \in BOOLEAN /\ live' = live /\ config' \in {config, "none"}
      /\ report' \in {"ok", "refused", "none"} /\ faults' \in 0..MaxFaults
  <2> USE InfraAssumption DEF TypeInv, TeardownFrame, Fine, Error, Exit, Happens
  <2>1. ASSUME NEW r \in Provisioned, Look(p, r)
        PROVE  /\ objects' \in BOOLEAN /\ live' = live /\ config' \in {config, "none"}
               /\ report' \in {"ok", "refused", "none"} /\ faults' \in 0..MaxFaults
    BY <2>1 DEF Look, StepFails
  <2>2. CASE DeleteWork(p)
    BY <2>2 DEF DeleteWork, StepFails
  <2>3. CASE ClusterRequest(p)
    BY <2>3 DEF ClusterRequest, StepFails
  <2>4. CASE RoleRequest(p, "exec") \/ RoleRequest(p, "task")
    BY <2>4 DEF RoleRequest, Listing, Dropping, DeletingRole, RoleRefused, StepFails
  <2>5. CASE BucketUnknown(p)
    BY <2>5 DEF BucketUnknown, StepFails
  <2>6. CASE EmptyBucket(p)
    <3>1. objects' \in {objects, FALSE} /\ objects \in BOOLEAN
      BY <2>6 DEF EmptyBucket
    <3>2. Happens("none") \/ Happens("fault") \/ Happens("refused")
      BY <2>6 DEF EmptyBucket, StepFails
    <3>3. live' = live /\ config' = config
      BY <2>6 DEF EmptyBucket
    <3>4. objects' \in BOOLEAN
      BY <3>1, Zenon
    <3>5. report' \in {"ok", "refused", "none"} /\ faults' \in 0..MaxFaults
      BY <3>2
    <3> QED
      BY <3>3, <3>4, <3>5
  <2>7. CASE RemoveBucket(p)
    BY <2>7 DEF RemoveBucket, StepFails
  <2>8. CASE RemoveConfig(p)
    BY <2>8 DEF RemoveConfig
  <2> QED
    BY <2>1, <2>2, <2>3, <2>4, <2>5, <2>6, <2>7, <2>8, TeardownForms
<1> QED
  BY <1>1, TeardownAccount, TeardownCommand DEF TypeInv

\* A job touches the work, the objects and what teardowns know of jobs.
LEMMA JobTypes ==
  ASSUME TypeInv, Job
  PROVE  TypeInv'
<1>1. /\ objects' \in BOOLEAN /\ live' \in BOOLEAN /\ JobActs
      /\ has' \in {has, With("work", "made")}
  <2>1. \A r \in Resources : Made(r) \in BOOLEAN
    BY DEF Made
  <2>2. "bucket" \in Resources /\ "cluster" \in Resources
    BY PartFacts
  <2>3. objects \in BOOLEAN /\ live \in BOOLEAN
    BY DEF TypeInv
  <2>4. CASE StartJob
    <3>1. objects' \in {objects, Made("bucket")} /\ live' = Made("cluster")
      BY <2>4 DEF StartJob
    <3>2. objects' \in BOOLEAN /\ live' \in BOOLEAN
      BY <2>1, <2>2, <2>3, <3>1
    <3> QED
      BY <2>4, <3>2 DEF StartJob
  <2>5. CASE PutObject
    BY <2>3, <2>5 DEF PutObject
  <2>6. CASE FinishJob
    BY <2>3, <2>6 DEF FinishJob
  <2> QED
    BY <2>4, <2>5, <2>6 DEF Job
<1>2. AccountInv'
  <2>1. CASE has' = has
    BY <2>1, AccountFrame DEF TypeInv
  <2>2. CASE has' = With("work", "made")
    <3>1. Kit("work") = {"made"} /\ "work" \in Resources
      BY PartFacts DEF Kit
    <3> DEFINE parts == has["work"] \cup {"made"}
    <3>2. parts \in SUBSET Kit("work") /\ "made" \in parts /\ has' = [has EXCEPT !["work"] = parts]
      BY <2>2, <3>1 DEF With, TypeInv, AccountInv
    <3> HIDE DEF parts
    <3> QED
      BY <3>1, <3>2, AccountChange DEF TypeInv
  <2> QED
    BY <1>1, <2>1, <2>2
<1>3. company' \in [Commands -> SUBSET {"command", "job"}]
  BY <1>1 DEF JobActs, TypeInv, CommandInv
<1>4. UNCHANGED <<config, running, step, sub, knows, past, errs, faults>> /\ report' = "none"
  BY <1>1 DEF JobActs, Fine, Happens
<1>5. CommandInv'
  BY <1>3, <1>4 DEF TypeInv, CommandInv
<1> QED
  BY <1>1, <1>2, <1>4, <1>5 DEF TypeInv

LEMMA TypeInit == Init => TypeInv
<1> SUFFICES ASSUME Init PROVE TypeInv
  OBVIOUS
<1> USE DEF Init
<1>1. AccountInv
  BY DEF AccountInv
<1>2. \A p \in Commands : 0 <= Requests(p, 1)
  BY RequestFacts
<1>3. IsFiniteSet(running) /\ Cardinality(running) = 0
  BY FS_EmptySet
<1>4. CommandInv
  <2>1. Cardinality(running) <= MaxRunning
    BY <1>3, InfraAssumption
  <2>2. knows \in [Commands -> BOOLEAN]
    OBVIOUS
  <2>3. past \in (SUBSET {"ok", "cut"}) \cup {{"teardown"}}
    OBVIOUS
  <2> QED
    BY <1>2, <1>3, <2>1, <2>2, <2>3 DEF CommandInv
<1>5. objects \in BOOLEAN /\ live \in BOOLEAN
  BY Zenon
<1> QED
  BY <1>1, <1>4, <1>5, InfraAssumption DEF TypeInv

LEMMA TypeNext == TypeInv /\ [Next]_vars => TypeInv'
<1> SUFFICES ASSUME TypeInv, [Next]_vars PROVE TypeInv'
  OBVIOUS
<1>1. ASSUME NEW p \in Commands, Begin(p) PROVE TypeInv'
  <2>1. UNCHANGED <<has, objects, live, config, faults>> /\ report' = "none"
    BY <1>1 DEF Begin, Fine, Happens, accountVars
  <2> QED
    BY <1>1, <2>1, BeginTypes, AccountFrame DEF TypeInv
<1>2. ASSUME NEW p \in Commands, Crash(p) PROVE TypeInv'
  <2>1. p \in running /\ Exit(p, "fault") /\ UNCHANGED <<has, objects, live>>
        /\ config' \in {config, "torn"}
    BY <1>2 DEF Crash
  <2>2. report' = "none" /\ faults' \in 0..MaxFaults
    BY <2>1, InfraAssumption DEF Exit, Happens, TypeInv
  <2> QED
    BY <2>1, <2>2, ExitTypes, AccountFrame DEF TypeInv
<1>3. CASE UNCHANGED vars
  <2>1. CommandInv'
    BY <1>3 DEF vars, commandVars, TypeInv, CommandInv
  <2> QED
    BY <1>3, <2>1, AccountFrame DEF vars, accountVars, TypeInv
<1> QED
  BY <1>1, <1>2, <1>3, SetupTypes, TeardownTypes, JobTypes DEF Next

\* Every variable of the account and of the commands keeps its type.
THEOREM InfraTypes == Spec => []TypeOK
<1>1. TypeInv => TypeOK
  <2> SUFFICES ASSUME TypeInv PROVE TypeOK
    OBVIOUS
  <2>1. \A p \in Commands : Len(Order(p)) = 6 /\ step[p] \in 1..6 /\ step[p] \in Nat
    BY SetupAt, TeardownAt DEF TypeInv, CommandInv, Commands
  <2>2. step \in [Commands -> Nat] /\ \A p \in Commands : step[p] \in 1..Len(Order(p))
    BY <2>1 DEF TypeInv, CommandInv
  <2>3. \A r \in Resources : has[r] \subseteq IF r \in Provisioned THEN AllParts(r) ELSE {"made"}
    BY DEF TypeInv, AccountInv, Kit
  <2> QED
    BY <2>2, <2>3 DEF TypeInv, AccountInv, CommandInv, TypeOK
<1> QED
  BY <1>1, TypeInit, TypeNext, PTL DEF Spec
-----------------------------------------------------------------------------
(* One command moves at a time.                                            *)

\* A step of a command that runs: it ends, or goes on.
Acts(p) == Crash(p) \/ (p \in Setups /\ Setup(p)) \/ (p \in Teardowns /\ Teardown(p))
Ends(p) == \E how \in {"none", "ok", "fault", "refused"} : Exit(p, how)
Goes(p) ==
  /\ GoesOn /\ errs' \in {errs, errs \cup {p}}
  /\ \E s, n : step' = [step EXCEPT ![p] = s] /\ sub' = [sub EXCEPT ![p] = n]

LEMMA Going ==
  ASSUME CommandInv, NEW p \in Commands, errs' \in {errs, errs \cup {p}},
         NextStep(p) \/ NextRequest(p)
  PROVE  Goes(p)
<1>1. step \in [Commands -> 1..6]
  BY DEF CommandInv
<1>2. step' = [step EXCEPT ![p] = step'[p]] /\ sub' = [sub EXCEPT ![p] = sub'[p]]
  BY <1>1 DEF CommandInv, NextStep, NextRequest
<1> QED
  BY <1>2 DEF Goes, NextStep, NextRequest

LEMMA ActsForms ==
  ASSUME TypeInv, NEW p \in Commands, Acts(p)
  PROVE  p \in running /\ (Ends(p) \/ Goes(p))
<1>0. CommandInv
  BY DEF TypeInv
<1> USE DEF Fine, Error, Ends
<1>1. CASE Crash(p)
  BY <1>1 DEF Crash
<1>2. CASE p \in Setups /\ Setup(p)
  <2>1. ASSUME NEW r \in Provisioned, Probe(p, r) \/ Making(p, r) \/ BucketTaken(p) \/ CheckQuota(p)
        PROVE  p \in running /\ (Ends(p) \/ Goes(p))
    BY <1>0, <2>1, Going DEF Probe, Making, MakePart, BucketTaken, CheckQuota, At
  <2>2. CASE SaveConfig(p)
    BY <2>2 DEF SaveConfig, At
  <2> QED
    BY <1>2, <2>1, <2>2, SetupForms, PartFacts
<1>3. CASE p \in Teardowns /\ Teardown(p)
  <2>1. ASSUME NEW r \in Provisioned,
               \/ Look(p, r) \/ DeleteWork(p) \/ ClusterRequest(p) \/ BucketUnknown(p)
               \/ EmptyBucket(p) \/ RemoveBucket(p)
        PROVE  p \in running /\ Goes(p)
    BY <1>0, <2>1, Going DEF Look, DeleteWork, ClusterRequest, BucketUnknown, EmptyBucket,
       RemoveBucket, StepFails, At
  <2>2. ASSUME NEW r \in {"exec", "task"}, RoleRequest(p, r) PROVE p \in running /\ Goes(p)
    <3>1. CASE Listing(p, r)
      <4>1. step' = [step EXCEPT ![p] = step'[p]] /\ sub' = [sub EXCEPT ![p] = sub'[p]]
            /\ GoesOn
        BY <1>0, <3>1 DEF Listing, NextRequest, CommandInv
      <4> QED
        BY <2>2, <3>1, <4>1 DEF RoleRequest, At, Listing, Goes
    <3>2. CASE ~Listing(p, r)
      BY <1>0, <2>2, <3>2, Going DEF RoleRequest, Dropping, DeletingRole, RoleRefused, StepFails, At
    <3> QED
      BY <3>1, <3>2
  <2>3. CASE RemoveConfig(p)
    BY <2>3 DEF RemoveConfig, At
  <2> QED
    BY <1>3, <2>1, <2>2, <2>3, TeardownForms, PartFacts
<1> QED
  BY <1>1, <1>2, <1>3 DEF Acts

\* The others do not notice.
LEMMA Moves ==
  ASSUME TypeInv, NEW p \in Commands, Acts(p)
  PROVE  /\ p \in running /\ running' \subseteq running
         /\ \A q \in Commands \ {p} :
              /\ q \in running => q \in running'
              /\ step'[q] = step[q] /\ sub'[q] = sub[q]
              /\ knows'[q] = knows[q] /\ company'[q] = company[q]
              /\ q \in errs' <=> q \in errs
<1>1. p \in running /\ (Ends(p) \/ Goes(p))
  BY ActsForms
<1>2. CASE Ends(p)
  BY <1>1, <1>2 DEF Ends, Exit, TypeInv, CommandInv
<1>3. CASE Goes(p)
  BY <1>1, <1>3 DEF Goes, GoesOn, TypeInv, CommandInv
<1> QED
  BY <1>1, <1>2, <1>3

\* Commands that run together know of it.
LEMMA CompanyNext ==
  ASSUME TypeInv, CompanyInv, [Next]_vars
  PROVE  CompanyInv'
<1> SUFFICES ASSUME NEW q \in running', NEW u \in running', q # u
             PROVE  "command" \in company'[q]
  BY DEF CompanyInv
<1>0. company \in [Commands -> SUBSET {"command", "job"}] /\ running \subseteq Commands
  BY DEF TypeInv, CommandInv
<1>1. ASSUME NEW p \in Commands, Begin(p) PROVE "command" \in company'[q]
  <2>1. running' = running \cup {p} /\ q \in Commands /\ running # {}
    BY <1>0, <1>1 DEF Begin
  <2> QED
    BY <1>1, <2>1 DEF Begin
<1>2. ASSUME NEW p \in Commands, Acts(p) PROVE "command" \in company'[q]
  <2>1. q \in running /\ u \in running /\ "command" \in company[q]
    BY <1>2, Moves DEF CompanyInv
  <2>2. p \in running' => GoesOn
    BY <1>2, ActsForms DEF Ends, Goes, Exit
  <2> QED
    BY <1>0, <1>2, <2>1, <2>2, Moves DEF GoesOn
<1>3. CASE Job \/ UNCHANGED vars
  <2>1. /\ running' = running
        /\ \/ JobActs
           \/ company' = company
    BY <1>3 DEF Job, StartJob, PutObject, FinishJob, JobActs, vars, commandVars
  <2>2. "command" \in company[q]
    BY <2>1 DEF CompanyInv
  <2> QED
    BY <1>0, <2>1, <2>2 DEF JobActs
<1> QED
  BY <1>1, <1>2, <1>3 DEF Next, Acts, Commands
-----------------------------------------------------------------------------
(* What setups make.                                                       *)

LEMMA IndexRange ==
  /\ \A r \in Provisioned : SetupIndex[r] \in 1..4
  /\ \A r \in Provisioned, q \in Provisioned : SetupIndex[r] = SetupIndex[q] => r = q
  /\ \A r \in Provisioned : TeardownIndex[r] \in 2..5
  /\ \A r \in Provisioned : r \in Resources
  BY PartFacts, IndexFacts

\* A step of a setup that does not end it, at resource r: it passes r, which is
\* there, asks for r, which is not, or makes the next part of r.
LEMMA SetupGoes ==
  ASSUME TypeInv, NEW p \in Setups, Setup(p), p \in running'
  PROVE  /\ p \in running /\ UNCHANGED <<running, knows, company, past, config>>
         /\ \/ /\ step[p] = 5 /\ step'[p] = 6 /\ sub'[p] = 0 /\ has' = has
            \/ \E r \in Provisioned :
                 /\ step[p] = SetupIndex[r]
                 /\ \/ /\ sub[p] \in {0, 1} /\ Made(r) /\ has' = has
                       /\ step'[p] = step[p] + 1 /\ sub'[p] = 0
                    \/ /\ sub[p] = 0 /\ ~Made(r) /\ has' = has
                       /\ step'[p] = step[p] /\ sub'[p] = 1
                    \/ /\ sub[p] \in 1..Len(Parts[r])
                       /\ sub[p] = 1 \/ Made(r)
                       /\ has' = [has EXCEPT ![r] = @ \cup {Parts[r][sub[p]]}]
                       /\ \/ /\ sub[p] = Len(Parts[r])
                             /\ step'[p] = step[p] + 1 /\ sub'[p] = 0
                          \/ /\ sub[p] < Len(Parts[r])
                             /\ step'[p] = step[p] /\ sub'[p] = sub[p] + 1
<1>0. /\ p \in Commands /\ step \in [Commands -> 1..6] /\ sub \in [Commands -> 0..5]
      /\ step[p] \in 1..6 /\ sub[p] \in 0..5 /\ sub[p] <= Requests(p, step[p])
  BY DEF TypeInv, CommandInv, Commands
<1>1. ASSUME NEW how, Exit(p, how) PROVE FALSE
  BY <1>1 DEF Exit
<1>2. ASSUME NEW r \in Provisioned, Probe(p, r)
      PROVE  /\ p \in running /\ UNCHANGED <<running, knows, company, past, config>>
             /\ step[p] = SetupIndex[r] /\ sub[p] = 0 /\ has' = has
             /\ \/ Made(r) /\ step'[p] = step[p] + 1 /\ sub'[p] = 0
                \/ ~Made(r) /\ step'[p] = step[p] /\ sub'[p] = 1
  <2>1. p \in running /\ step[p] = SetupIndex[r] /\ sub[p] = 0 /\ has' = has
        /\ UNCHANGED <<config>>
    BY <1>0, <1>2, SetupAt DEF Probe, SetupFrame
  <2>2. \/ Made(r) /\ NextStep(p)
        \/ ~Made(r) /\ NextRequest(p)
    BY <1>1, <1>2 DEF Probe
  <2> QED
    BY <1>0, <2>1, <2>2 DEF NextStep, NextRequest, GoesOn
<1>3. ASSUME NEW r \in Provisioned, Making(p, r)
      PROVE  /\ p \in running /\ UNCHANGED <<running, knows, company, past, config>>
             /\ step[p] = SetupIndex[r] /\ sub[p] \in 1..Len(Parts[r])
             /\ sub[p] = 1 \/ Made(r)
             /\ has' = [has EXCEPT ![r] = @ \cup {Parts[r][sub[p]]}]
             /\ \/ /\ sub[p] = Len(Parts[r])
                   /\ step'[p] = step[p] + 1 /\ sub'[p] = 0
                \/ /\ sub[p] < Len(Parts[r])
                   /\ step'[p] = step[p] /\ sub'[p] = sub[p] + 1
  <2>1. PICK shared \in SUBSET Provisioned : MakePart(p, r, shared)
    BY <1>3 DEF Making
  <2>2. p \in running /\ step[p] = SetupIndex[r] /\ sub[p] > 0 /\ config' = config
    BY <1>0, <2>1, SetupAt DEF MakePart, SetupFrame
  <2>3. sub[p] \in 1..Len(Parts[r]) /\ Len(Parts[r]) \in Nat
    <3>1. Len(Parts[r]) \in Nat
      BY PartFacts
    <3>2. Requests(p, step[p]) = Len(Parts[r])
      BY <1>0, <2>2, RequestFacts
    <3> QED
      BY <1>0, <2>2, <3>1, <3>2
  <2>4. /\ sub[p] = 1 \/ Made(r)
        /\ has' = With(r, Parts[r][sub[p]])
        /\ IF sub[p] = Len(Parts[r]) THEN NextStep(p) ELSE NextRequest(p)
    BY <1>1, <2>1, <2>3, MadeFirst DEF MakePart
  <2> QED
    BY <1>0, <2>2, <2>3, <2>4 DEF With, NextStep, NextRequest, GoesOn
<1>4. CASE BucketTaken(p)
  <2>1. /\ p \in running /\ step[p] = SetupIndex["bucket"] /\ sub[p] = 1 /\ Made("bucket")
        /\ has' = has /\ config' = config /\ NextStep(p) /\ "bucket" \in Provisioned
    BY <1>0, <1>4, SetupAt, PartFacts DEF BucketTaken, SetupFrame
  <2> QED
    BY <1>0, <2>1 DEF NextStep, GoesOn
<1>5. CASE CheckQuota(p)
  <2>1. p \in running /\ step[p] = 5 /\ has' = has /\ config' = config /\ NextStep(p)
    BY <1>0, <1>1, <1>5, SetupAt DEF CheckQuota, SetupFrame
  <2> QED
    BY <1>0, <2>1 DEF NextStep, GoesOn
<1>6. ~SaveConfig(p)
  BY <1>1 DEF SaveConfig
<1> QED
  BY <1>2, <1>3, <1>4, <1>5, <1>6, SetupForms

\* A step that ends it: only the last one succeeds or writes the configuration.
LEMMA SetupEnds ==
  ASSUME TypeInv, NEW p \in Setups, Setup(p), p \notin running'
  PROVE  /\ p \in running
         /\ \A r \in Resources : has[r] \subseteq has'[r]
         /\ config' # config \/ report' = "ok" => step[p] = 6
         /\ \/ Exit(p, "ok") /\ has' = has /\ step[p] = 6
            \/ \E how \in {"fault", "refused"} : Exit(p, how)
<1>0. /\ p \in Commands /\ step[p] \in 1..6
      /\ has \in [Resources -> SUBSET UNION {AllParts(r) : r \in Provisioned}]
  BY DEF TypeInv, CommandInv, AccountInv, Commands
<1>1. p \in running /\ ~NextStep(p) /\ ~NextRequest(p)
  BY ActsForms, <1>0 DEF NextStep, NextRequest, GoesOn, Acts
<1>2. ASSUME NEW r \in Provisioned, Probe(p, r) \/ BucketTaken(p) \/ CheckQuota(p)
      PROVE  Exit(p, "fault") /\ has' = has /\ config' = config
  BY <1>1, <1>2 DEF Probe, BucketTaken, CheckQuota, SetupFrame
<1>3. ASSUME NEW r \in Provisioned, Making(p, r)
      PROVE  /\ \E how \in {"fault", "refused"} : Exit(p, how)
             /\ config' = config /\ \A u \in Resources : has[u] \subseteq has'[u]
  <2>1. PICK shared \in SUBSET Provisioned : MakePart(p, r, shared)
    BY <1>3 DEF Making
  <2>2. /\ \E how \in {"fault", "refused"} : Exit(p, how)
        /\ config' = config /\ has' \in {has, With(r, Parts[r][sub[p]])}
    BY <1>1, <2>1 DEF MakePart, SetupFrame
  <2> QED
    BY <1>0, <2>2 DEF With
<1>4. CASE SaveConfig(p)
  BY <1>0, <1>4, SetupAt DEF SaveConfig
<1>5. ASSUME NEW how \in {"fault", "refused"}, Exit(p, how) PROVE report' # "ok"
  BY <1>5 DEF Exit, Happens
<1> QED
  BY <1>1, <1>2, <1>3, <1>4, <1>5, SetupForms, PartFacts

\* Nothing is taken away as long as nobody tears down, and only a setup at its
\* last step writes the configuration or succeeds.
Grows == \A r \in Resources : has[r] \subseteq has'[r]
LEMMA Building ==
  ASSUME TypeInv, MadeInv, [Next]_vars, "teardown" \notin past'
  PROVE  /\ "teardown" \notin past /\ running \cap Teardowns = {} /\ Grows
         /\ running' \cap Teardowns = {}
         /\ \/ \E p \in Setups : Begin(p)
            \/ \E p \in Setups : Crash(p) \/ Setup(p)
            \/ Job \/ UNCHANGED vars
<1>1. "teardown" \notin past /\ ~\E p \in Teardowns : Begin(p)
  <2>1. ASSUME NEW p \in Commands, Begin(p)
        PROVE  "teardown" \notin past /\ p \notin Teardowns
    BY <2>1 DEF Begin
  <2>2. ASSUME NEW p \in Commands, Acts(p) PROVE "teardown" \notin past
    BY <2>2, ActsForms DEF Ends, Goes, GoesOn, Exit
  <2>3. Job \/ UNCHANGED vars => "teardown" \notin past
    BY DEF Job, StartJob, PutObject, FinishJob, JobActs, vars
  <2>4. ~\E p \in Teardowns : Begin(p)
    BY <2>1 DEF Commands
  <2> QED
    BY <2>1, <2>2, <2>3, <2>4 DEF Next, Acts, Commands
<1>2. running \cap Teardowns = {}
  BY <1>1 DEF MadeInv
<1>3. ASSUME NEW p \in Teardowns PROVE ~Crash(p) /\ ~Teardown(p)
  BY <1>2, ActsForms DEF Acts, Commands
<1>4. \/ \E p \in Setups : Begin(p)
      \/ \E p \in Setups : Crash(p) \/ Setup(p)
      \/ Job \/ UNCHANGED vars
  BY <1>1, <1>3 DEF Next, Commands
<1>5. has \in [Resources -> SUBSET UNION {AllParts(r) : r \in Provisioned}]
  BY DEF TypeInv, AccountInv
<1>6. ASSUME NEW p \in Setups, Begin(p) PROVE Grows /\ running' \cap Teardowns = {}
  <2>1. has' = has /\ running' = running \cup {p}
    BY <1>6 DEF Begin, accountVars
  <2> QED
    BY <1>2, <2>1, InfraAssumption DEF Grows
<1>7. ASSUME NEW p \in Setups, Crash(p) \/ Setup(p) PROVE Grows /\ running' \subseteq running
  <2>1. running' \subseteq running
    BY <1>7, Moves DEF Acts, Commands
  <2>2. ASSUME Crash(p) PROVE Grows
    <3>1. has' = has
      BY <2>2 DEF Crash
    <3> QED
      BY <3>1 DEF Grows
  <2>3. ASSUME Setup(p), p \in running' PROVE Grows
    <3>1. \/ has' = has
          \/ \E r \in Provisioned : has' = [has EXCEPT ![r] = @ \cup {Parts[r][sub[p]]}]
      BY <2>3, SetupGoes
    <3> QED
      BY <1>5, <3>1 DEF Grows
  <2>4. ASSUME Setup(p), p \notin running' PROVE Grows
    BY <2>4, SetupEnds DEF Grows
  <2> QED
    BY <1>7, <2>1, <2>2, <2>3, <2>4
<1>8. ASSUME Job \/ UNCHANGED vars PROVE Grows /\ running' \cap Teardowns = {}
  <2>1. has' \in {has, With("work", "made")} /\ running' = running
    BY <1>8 DEF Job, StartJob, PutObject, FinishJob, JobActs, vars, accountVars, commandVars
  <2>2. Grows
    BY <1>5, <2>1 DEF Grows, With
  <2> QED
    BY <1>2, <2>1, <2>2
<1> QED
  BY <1>1, <1>2, <1>4, <1>6, <1>7, <1>8

LEMMA Kept ==
  ASSUME Grows, NEW r \in Provisioned, Made(r)
  PROVE  Made(r)'
  BY IndexRange DEF Grows, Made

\* What a setup has passed was made, and stays.
Passed(p, r) ==
  step[p] > SetupIndex[r] \/ (step[p] = SetupIndex[r] /\ sub[p] > 1)
LEMMA PassedMade ==
  ASSUME TypeInv, MadeInv, [Next]_vars, "teardown" \notin past',
         NEW q \in running' \cap Setups, NEW r \in Provisioned, Passed(q, r)'
  PROVE  Made(r)'
<1>1. "teardown" \notin past /\ Grows
  BY Building
<1>2. \A p \in running \cap Setups, u \in Provisioned : Passed(p, u) => Made(u)
  BY <1>1 DEF MadeInv, Passed
<1>3. SetupIndex[r] \in 1..4 /\ q \in Commands
  BY IndexRange DEF Commands
<1>4. ASSUME q \in running, step'[q] = step[q], sub'[q] = sub[q] PROVE Made(r)'
  BY <1>1, <1>2, <1>4, Kept DEF Passed
<1>5. ASSUME NEW p \in Setups, Begin(p) PROVE Made(r)'
  <2>1. /\ running' = running \cup {p} /\ step' = step /\ sub' = sub
        /\ p \notin running
    BY <1>5 DEF Begin
  <2>2. CASE q = p
    BY <1>3, <2>1, <2>2 DEF TypeInv, CommandInv, Passed
  <2> QED
    BY <1>4, <2>1, <2>2
<1>6. ASSUME NEW p \in Setups, Crash(p) \/ Setup(p), p # q PROVE Made(r)'
  <2>1. q \in running /\ step'[q] = step[q] /\ sub'[q] = sub[q]
    BY <1>3, <1>6, Moves DEF Acts, Commands
  <2> QED
    BY <1>4, <2>1
<1>7. CASE Crash(q)
  BY <1>7 DEF Crash, Exit
<1>8. CASE Setup(q)
  <2>1. /\ q \in running /\ step[q] \in 1..6 /\ sub[q] \in 0..5
        /\ has \in [Resources -> SUBSET UNION {AllParts(u) : u \in Provisioned}]
    BY <1>8, SetupGoes DEF TypeInv, CommandInv, AccountInv
  <2>2. step[q] > SetupIndex[r] => Made(r)'
    BY <1>1, <1>2, <2>1, Kept DEF Passed
  <2>3. CASE step[q] = 5
    BY <1>3, <2>2, <2>3
  <2>4. ASSUME NEW u \in Provisioned, step[q] = SetupIndex[u], r # u PROVE Made(r)'
    <3>1. SetupIndex[r] # SetupIndex[u] /\ SetupIndex[u] \in 1..4
      BY <2>4, IndexRange
    <3>2. step'[q] \in {step[q], step[q] + 1}
      BY <1>8, <2>1, <2>4, <3>1, SetupGoes
    <3>3. step'[q] > SetupIndex[r] \/ (step'[q] = SetupIndex[r] /\ sub'[q] > 1)
      BY DEF Passed
    <3>4. step'[q] = SetupIndex[r] /\ sub'[q] > 1 => step[q] # step'[q] - 1
      BY <1>8, <2>1, <2>4, <3>1, SetupGoes
    <3>5. step[q] > SetupIndex[r]
      BY <1>3, <2>1, <2>4, <3>1, <3>2, <3>3, <3>4
    <3> QED
      BY <2>2, <3>5
  <2>5. CASE step[q] = SetupIndex[r]
    <3>1. \A u \in Provisioned : step[q] = SetupIndex[u] => u = r
      BY <2>5, IndexRange
    <3>2. CASE Made(r)
      BY <1>1, <3>2, Kept
    <3>3. CASE ~Made(r)
      <4>1. ~(sub[q] = 0 /\ step'[q] = step[q] /\ sub'[q] = 1)
        BY <1>3, <2>1, <2>5 DEF Passed
      <4>2. sub[q] = 1 /\ has' = [has EXCEPT ![r] = @ \cup {Parts[r][sub[q]]}]
        BY <1>3, <1>8, <2>1, <2>5, <3>1, <3>3, <4>1, SetupGoes
      <4>3. Parts[r][1] = "made"
        BY PartFacts
      <4> QED
        BY <2>1, <4>2, <4>3, IndexRange DEF Made
    <3> QED
      BY <3>2, <3>3
  <2> QED
    BY <1>8, <2>1, <2>3, <2>4, <2>5, SetupGoes
<1>9. CASE Job \/ UNCHANGED vars
  <2>1. running' = running /\ step' = step /\ sub' = sub
    BY <1>9 DEF Job, StartJob, PutObject, FinishJob, JobActs, vars, commandVars
  <2> QED
    BY <1>4, <2>1
<1> QED
  BY <1>5, <1>6, <1>7, <1>8, <1>9, Building

LEMMA MadeNext ==
  ASSUME TypeInv, MadeInv, [Next]_vars
  PROVE  MadeInv'
<1>1. running' \cap Teardowns # {} => "teardown" \in past'
  BY Building
<1>2. ASSUME "teardown" \notin past', config' = "saved" \/ "ok" \in past', NEW r \in Provisioned
      PROVE  Made(r)'
  <2>1. "teardown" \notin past /\ Grows
    BY <1>2, Building
  <2>2. config = "saved" \/ "ok" \in past => Made(r)'
    BY <2>1, Kept DEF MadeInv
  <2>3. ASSUME NEW p \in Setups, Begin(p) PROVE Made(r)'
    BY <1>2, <2>2, <2>3, InfraAssumption DEF Begin, accountVars
  <2>4. ASSUME NEW p \in Setups, Crash(p) PROVE Made(r)'
    BY <1>2, <2>2, <2>4 DEF Crash, Exit
  <2>5. ASSUME NEW p \in Setups, Setup(p) PROVE Made(r)'
    <3>1. CASE p \in running'
      BY <1>2, <2>2, <2>5, <3>1, SetupGoes
    <3>2. CASE p \notin running'
      <4>1. ASSUME step[p] = 6 PROVE Made(r)'
        <5>1. p \in running \cap Setups /\ step[p] > SetupIndex[r]
          BY <2>5, <3>2, <4>1, SetupEnds, IndexRange
        <5>2. Made(r)
          BY <2>1, <5>1 DEF MadeInv
        <5> QED
          BY <2>1, <5>2, Kept
      <4>2. CASE step[p] # 6
        BY <1>2, <2>2, <2>5, <3>2, <4>2, SetupEnds DEF Exit
      <4> QED
        BY <4>1, <4>2
    <3> QED
      BY <3>1, <3>2
  <2>6. CASE Job \/ UNCHANGED vars
    BY <1>2, <2>2, <2>6 DEF Job, StartJob, PutObject, FinishJob, JobActs, vars, accountVars
  <2> QED
    BY <1>2, <2>3, <2>4, <2>5, <2>6, Building
<1>3. ASSUME "teardown" \notin past', NEW q \in running' \cap Setups, NEW r \in Provisioned,
             Passed(q, r)'
      PROVE  Made(r)'
  BY <1>3, PassedMade
<1> QED
  BY <1>1, <1>2, <1>3 DEF MadeInv, Passed

LEMMA MadeInit == Init => MadeInv
  BY DEF Init, MadeInv

\* A configuration file that was written names only what was made.
THEOREM ConfigAlwaysMeansMade == Spec => []ConfigMeansMade
<1>1. TypeInv /\ MadeInv => ConfigMeansMade
  BY DEF MadeInv, ConfigMeansMade
<1> QED
  BY <1>1, TypeInit, TypeNext, MadeInit, MadeNext, PTL DEF Spec

\* As long as nothing goes wrong, who passes a resource completes it.
Left(p, r, i) == p \in running \cap Setups /\ step[p] = SetupIndex[r] /\ 2 <= sub[p] /\ sub[p] <= i

LEMMA Undisturbed ==
  ASSUME TypeInv, MadeInv, [Next]_vars, past' \subseteq {"ok"}
  PROVE  /\ past \subseteq {"ok"} /\ Grows
         /\ \/ \E p \in Setups : Begin(p)
            \/ \E p \in Setups :
                 Setup(p) /\ (p \in running' \/ (step[p] = 6 /\ has' = has))
            \/ Job \/ UNCHANGED vars
<1>1. "teardown" \notin past' /\ "cut" \notin past'
  OBVIOUS
<1>2. /\ "teardown" \notin past /\ Grows
      /\ \/ \E p \in Setups : Begin(p)
         \/ \E p \in Setups : Crash(p) \/ Setup(p)
         \/ Job \/ UNCHANGED vars
  BY <1>1, Building
<1>3. ASSUME NEW p \in Setups, NEW how, how # "ok", Exit(p, how) PROVE FALSE
  <2>1. p \notin Teardowns
    BY InfraAssumption
  <2>2. past' = past \cup {"cut"}
    BY <1>2, <1>3, <2>1 DEF Exit
  <2> QED
    BY <1>1, <2>2
<1>4. ASSUME NEW p \in Setups, Crash(p) PROVE FALSE
  BY <1>3, <1>4 DEF Crash
<1>5. ASSUME NEW p \in Setups, Setup(p)
      PROVE  p \in running' \/ (step[p] = 6 /\ has' = has)
  BY <1>3, <1>5, SetupEnds
<1>6. past \subseteq past'
  <2>1. ASSUME NEW p \in Setups, Begin(p) PROVE past' = past
    BY <2>1, InfraAssumption DEF Begin
  <2>2. ASSUME NEW p \in Setups, Setup(p) PROVE past \subseteq past'
    <3>1. p \in running' => past' = past
      BY <2>2, SetupGoes
    <3>2. p \notin running' => \E how \in {"ok", "fault", "refused"} : Exit(p, how)
      BY <2>2, SetupEnds
    <3> QED
      BY <3>1, <3>2 DEF Exit
  <2>3. Job \/ UNCHANGED vars => past' = past
    BY DEF Job, StartJob, PutObject, FinishJob, JobActs, vars
  <2> QED
    BY <1>2, <1>4, <2>1, <2>2, <2>3
<1> QED
  BY <1>2, <1>4, <1>5, <1>6

LEMMA WholeNext ==
  ASSUME TypeInv, MadeInv, WholeInv, [Next]_vars
  PROVE  WholeInv'
<1> SUFFICES ASSUME past' \subseteq {"ok"}, NEW r \in Provisioned, NEW i \in 1..Len(Parts[r]),
                    Made(r)', Parts[r][i] \notin has'[r]
             PROVE  \E p \in Setups : Left(p, r, i)'
  BY DEF WholeInv, Left
<1>0. /\ Grows /\ Parts[r][i] \notin has[r] /\ i \in Nat /\ Len(Parts[r]) \in Nat
      /\ r \in Resources /\ i <= Len(Parts[r])
  BY Undisturbed, IndexRange, PartFacts DEF Grows
<1>1. Made(r) => \E q \in Setups : Left(q, r, i)
  <2>1. past \subseteq {"ok"}
    BY Undisturbed
  <2> QED
    BY <1>0, <2>1 DEF WholeInv, Left
<1>2. ASSUME NEW q \in Setups, Left(q, r, i), q \in running', step'[q] = step[q], sub'[q] = sub[q]
      PROVE  Left(q, r, i)'
  BY <1>2 DEF Left
<1>3. ASSUME NEW p \in Setups, Begin(p) PROVE \E q \in Setups : Left(q, r, i)'
  <2>1. has' = has /\ running \subseteq running' /\ step' = step /\ sub' = sub
    BY <1>3 DEF Begin, accountVars
  <2>2. PICK q \in Setups : Left(q, r, i)
    BY <1>1, <2>1 DEF Made
  <2>3. q \in running'
    BY <2>1, <2>2 DEF Left
  <2> QED
    BY <1>2, <2>1, <2>2, <2>3
<1>4. CASE Job \/ UNCHANGED vars
  <2>1. /\ has' \in {has, With("work", "made")} /\ running' = running /\ step' = step /\ sub' = sub
    BY <1>4 DEF Job, StartJob, PutObject, FinishJob, JobActs, vars, accountVars, commandVars
  <2>2. has'[r] = has[r]
    BY <2>1, PartFacts DEF With, TypeInv, AccountInv
  <2>3. PICK q \in Setups : Left(q, r, i)
    BY <1>1, <2>2 DEF Made
  <2>4. q \in running'
    BY <2>1, <2>3 DEF Left
  <2> QED
    BY <1>2, <2>1, <2>3, <2>4
<1>5. ASSUME NEW p \in Setups, Setup(p), p \in running' \/ (step[p] = 6 /\ has' = has)
      PROVE  \E q \in Setups : Left(q, r, i)'
  <2>0. p \in Commands /\ Acts(p)
    BY <1>5 DEF Acts, Commands
  <2>1. ASSUME NEW q \in Setups, Left(q, r, i), q # p PROVE Left(q, r, i)'
    <3>1. q \in running' /\ step'[q] = step[q] /\ sub'[q] = sub[q]
      BY <2>0, <2>1, Moves DEF Left, Commands
    <3> QED
      BY <1>2, <2>1, <3>1
  <2>2. /\ step[p] \in 1..6 /\ sub[p] \in 0..5
        /\ has \in [Resources -> SUBSET UNION {AllParts(u) : u \in Provisioned}]
    BY <2>0 DEF TypeInv, CommandInv, AccountInv
  <2>3. ASSUME Left(p, r, i) PROVE Left(p, r, i)'
    <3>1. step[p] = SetupIndex[r] /\ 2 <= sub[p] /\ sub[p] <= i /\ step[p] \in 1..4
      BY <2>3, IndexRange DEF Left
    <3>2. p \in running'
      BY <1>5, <2>2, <3>1
    <3>3. \A u \in Provisioned : step[p] = SetupIndex[u] => u = r
      BY <3>1, IndexRange
    <3>4. /\ p \in running /\ UNCHANGED running
          /\ has' = [has EXCEPT ![r] = @ \cup {Parts[r][sub[p]]}]
          /\ \/ sub[p] = Len(Parts[r])
             \/ step'[p] = step[p] /\ sub'[p] = sub[p] + 1
      BY <1>5, <2>2, <3>1, <3>2, <3>3, SetupGoes
    <3>5. sub[p] # i
      BY <1>0, <2>2, <3>4
    <3> QED
      BY <1>0, <2>2, <3>1, <3>2, <3>4, <3>5 DEF Left
  <2>4. CASE Made(r)
    BY <1>1, <2>1, <2>3, <2>4
  <2>5. CASE ~Made(r)
    <3>1. has'[r] # has[r] /\ p \in running'
      BY <1>5, <2>5 DEF Made
    <3>2. PICK u \in Provisioned :
            /\ step[p] = SetupIndex[u]
            /\ sub[p] = 1 \/ Made(u)
            /\ has' = [has EXCEPT ![u] = @ \cup {Parts[u][sub[p]]}]
            /\ \/ sub[p] = Len(Parts[u])
               \/ step'[p] = step[p] /\ sub'[p] = sub[p] + 1
      BY <1>5, <2>2, <3>1, SetupGoes
    <3>3. /\ step[p] = SetupIndex[r] /\ sub[p] = 1
          /\ has' = [has EXCEPT ![r] = @ \cup {Parts[r][1]}]
          /\ \/ Len(Parts[r]) = 1
             \/ step'[p] = step[p] /\ sub'[p] = 2
      <4>1. u = r
        BY <1>0, <2>2, <3>1, <3>2
      <4>2. sub[p] = 1
        BY <2>5, <3>2, <4>1
      <4> QED
        BY <3>2, <4>1, <4>2
    <3>4. i # 1
      BY <1>0, <2>2, <3>3
    <3>5. step'[p] = step[p] /\ sub'[p] = 2 /\ 2 <= i
      BY <1>0, <3>3, <3>4
    <3> QED
      BY <3>1, <3>3, <3>5 DEF Left
  <2> QED
    BY <2>4, <2>5
<1> QED
  BY <1>3, <1>4, <1>5, Undisturbed

LEMMA WholeInit == Init => WholeInv
<1> SUFFICES ASSUME Init, NEW r \in Provisioned PROVE ~Made(r)
  BY DEF WholeInv
<1> QED
  BY IndexRange DEF Init, Made

\* Setups of which none failed leave every resource complete, however they
\* raced.
THEOREM UndisturbedSetupsAlwaysComplete == Spec => []UndisturbedSetupsComplete
<1>1. TypeInv /\ MadeInv /\ WholeInv => UndisturbedSetupsComplete
  <2> SUFFICES ASSUME TypeInv, MadeInv, WholeInv, past = {"ok"}, running = {},
                      NEW r \in Provisioned
               PROVE  has[r] = AllParts(r)
    BY DEF UndisturbedSetupsComplete, Complete
  <2>1. Made(r)
    BY DEF MadeInv
  <2>2. \A i \in 1..Len(Parts[r]) : Parts[r][i] \in has[r]
    BY <2>1 DEF WholeInv
  <2>3. AllParts(r) \subseteq has[r]
    BY <2>2 DEF AllParts
  <2>4. has[r] \subseteq AllParts(r)
    BY IndexRange DEF TypeInv, AccountInv, Kit
  <2> QED
    BY <2>3, <2>4
<1> QED
  BY <1>1, TypeInit, TypeNext, MadeInit, MadeNext, WholeInit, WholeNext, PTL DEF Spec
-----------------------------------------------------------------------------
(* A command by itself.                                                    *)

\* The parts of a teardown's step at a resource.
LEMMA TeardownGoes ==
  ASSUME TypeInv, NEW p \in Teardowns, Teardown(p), p \in running'
  PROVE  /\ p \in running /\ UNCHANGED <<running, knows, company>> /\ errs \subseteq errs'
         /\ \A r \in Resources : has'[r] \subseteq has[r]
         /\ \/ NextStep(p) /\ step'[p] = step[p] + 1 /\ sub'[p] = 0
            \/ step'[p] = step[p]
<1>0. /\ p \in Commands /\ step \in [Commands -> 1..6] /\ sub \in [Commands -> 0..5]
      /\ has \in [Resources -> SUBSET UNION {AllParts(u) : u \in Provisioned}]
  BY DEF TypeInv, CommandInv, AccountInv, Commands
<1>1. Goes(p) /\ p \in running
  BY <1>0, ActsForms DEF Acts, Ends, Exit
<1>2. ~RemoveConfig(p)
  BY DEF RemoveConfig, Exit
<1>3. \/ NextStep(p)
      \/ step' = step
  BY <1>2, TeardownForms DEF Look, DeleteWork, ClusterRequest, RoleRequest, BucketUnknown,
     EmptyBucket, RemoveBucket, Listing, Dropping, DeletingRole, RoleRefused, StepFails, NextRequest
<1>4. NextStep(p) => step'[p] = step[p] + 1 /\ sub'[p] = 0
  BY <1>0 DEF NextStep
<1>5. ASSUME NEW r, NEW part, has' \in {has, Without(r, part)}
      PROVE  \A u \in Resources : has'[u] \subseteq has[u]
  BY <1>0, <1>5 DEF Without
<1>6. \A r \in Resources : has'[r] \subseteq has[r]
  <2>1. ASSUME NEW r \in Provisioned, Look(p, r) PROVE has' = has
    BY <2>1 DEF Look, StepFails
  <2>2. BucketUnknown(p) \/ EmptyBucket(p) => has' = has
    BY DEF BucketUnknown, EmptyBucket, StepFails
  <2>3. DeleteWork(p) => has' \in {has, Without("work", "made")}
    BY DEF DeleteWork, StepFails
  <2>4. ClusterRequest(p) => has' \in {has, Without("cluster", "made")}
    BY DEF ClusterRequest, StepFails
  <2>5. ASSUME NEW r \in {"exec", "task"}, RoleRequest(p, r)
        PROVE  has' \in {has, Without(r, Policy(sub[p])), Without(r, "made")}
    BY <2>5 DEF RoleRequest, Listing, Dropping, DeletingRole, RoleRefused, StepFails, RoleEffect
  <2>6. RemoveBucket(p) => has' \in {has, [has EXCEPT !["bucket"] = {}]}
    BY DEF RemoveBucket, StepFails
  <2>7. has' = [has EXCEPT !["bucket"] = {}] => \A u \in Resources : has'[u] \subseteq has[u]
    BY <1>0
  <2>8. has' = has => \A u \in Resources : has'[u] \subseteq has[u]
    OBVIOUS
  <2> QED
    BY <1>2, <1>5, <2>1, <2>2, <2>3, <2>4, <2>5, <2>6, <2>7, <2>8, TeardownForms
<1> QED
  BY <1>1, <1>3, <1>4, <1>6 DEF Goes, GoesOn

\* Without an error, nothing of a resource is left when its step is over.
LEMMA NothingLeft ==
  ASSUME TypeInv, NEW p \in Teardowns, Teardown(p), NextStep(p), p \notin errs', knows[p],
         NEW r \in Resources, step[p] = TeardownIndex[r]
  PROVE  has'[r] = {}
<1>0. /\ p \in Commands /\ step[p] \in 1..6 /\ CommandInv
      /\ has \in [Resources -> SUBSET UNION {AllParts(u) : u \in Provisioned}]
      /\ Made(r) \/ has[r] = {}
  BY DEF TypeInv, CommandInv, AccountInv, Commands
<1>1. \A u \in Resources : At(p, u) => u = r
  BY <1>0, TeardownPlace, PartFacts, IndexFacts
<1>2. ASSUME NEW effect, StepFails(p, effect) PROVE FALSE
  BY <1>2 DEF StepFails, Error
<1>3. ASSUME NEW what, Error(p, what) PROVE FALSE
  BY <1>3 DEF Error
<1>4. ASSUME step' = step PROVE FALSE
  BY <1>0, <1>4 DEF NextStep, CommandInv
<1>5. ASSUME NextRequest(p) PROVE FALSE
  BY <1>4, <1>5 DEF NextRequest
<1>6. ASSUME NEW u \in Provisioned, Look(p, u) PROVE has'[r] = {}
  BY <1>0, <1>1, <1>2, <1>5, <1>6, IndexRange DEF Look
<1>7. CASE DeleteWork(p)
  <2>1. r = "work" /\ has' = Without("work", "made") /\ has["work"] \subseteq {"made"}
    BY <1>1, <1>2, <1>7, PartFacts DEF DeleteWork, TypeInv, AccountInv, Kit
  <2> QED
    BY <1>0, <2>1 DEF Without
<1>8. CASE ClusterRequest(p)
  <2>1. r = "cluster" /\ (has' = Without("cluster", "made") \/ (has' = has /\ ~Made(r)))
    BY <1>1, <1>2, <1>3, <1>8, PartFacts DEF ClusterRequest
  <2>2. has["cluster"] \subseteq {"made"}
    BY PartFacts, AllPartsFacts DEF TypeInv, AccountInv, Kit
  <2> QED
    BY <1>0, <2>1, <2>2 DEF Without
<1>9. ASSUME NEW u \in {"exec", "task"}, RoleRequest(p, u) PROVE has'[r] = {}
  <2>1. ~Listing(p, u) /\ ~Dropping(p, u) /\ ~RoleRefused(p, u)
    BY <1>3, <1>4, <1>5 DEF Listing, Dropping, RoleRefused
  <2>2. r = u /\ has[u] = {"made"} /\ has' = Without(u, "made")
    BY <1>1, <1>2, <1>9, <2>1, PartFacts DEF RoleRequest, DeletingRole
  <2> QED
    BY <1>0, <2>2 DEF Without
<1>10. ~BucketUnknown(p) /\ ~EmptyBucket(p)
  BY <1>2, <1>3, <1>5 DEF BucketUnknown, EmptyBucket
<1>11. CASE RemoveBucket(p)
  <2>1. r = "bucket" /\ has' = [has EXCEPT !["bucket"] = {}]
    BY <1>1, <1>2, <1>3, <1>11, PartFacts DEF RemoveBucket
  <2> QED
    BY <1>0, <2>1
<1>12. ~RemoveConfig(p)
  BY DEF NextStep, GoesOn, RemoveConfig, At, Exit
<1> QED
  BY <1>6, <1>7, <1>8, <1>9, <1>10, <1>11, <1>12, TeardownForms

\* Only the command itself moves while it is by itself.
LEMMA OnlyItself ==
  ASSUME TypeInv, CompanyInv, NEW p \in Commands, Acts(p), NEW q \in running,
         "command" \notin company'[q], q \in running' \/ Alone(q)
  PROVE  p = q /\ Alone(q)
<1>1. p \in running /\ q \in Commands
  BY Moves DEF TypeInv, CommandInv
<1>2. CASE p # q
  <2>1. "command" \in company[q] /\ company'[q] = company[q]
    BY <1>1, <1>2, Moves DEF CompanyInv
  <2> QED
    BY <2>1
<1>3. CASE p = q
  <2>1. q \in running' => company' = company
    BY <1>3, ActsForms DEF Ends, Exit, Goes, GoesOn
  <2> QED
    BY <1>3, <2>1 DEF Alone
<1> QED
  BY <1>2, <1>3

LEMMA LoneSetupNext ==
  ASSUME TypeInv, NEW q \in Setups, LoneSetup(q), Setup(q), q \in running'
  PROVE  LoneSetup(q)'
<1> SUFFICES ASSUME NEW r \in Provisioned, step'[q] = SetupIndex[r], sub'[q] > 0
             PROVE  Made(r)' <=> sub'[q] > 1
  BY DEF LoneSetup
<1>0. /\ has \in [Resources -> SUBSET UNION {AllParts(u) : u \in Provisioned}]
      /\ q \in Commands /\ sub[q] \in 0..5 /\ r \in Resources
  BY IndexRange DEF TypeInv, CommandInv, AccountInv, Commands
<1>1. \A u \in Provisioned : step[q] = SetupIndex[u] /\ step'[q] = step[q] => u = r
  BY IndexRange
<1>2. \/ sub[q] = 0 /\ ~Made(r) /\ has' = has /\ sub'[q] = 1
      \/ /\ sub[q] > 0 /\ sub'[q] = sub[q] + 1
         /\ sub[q] = 1 \/ Made(r)
         /\ has' = [has EXCEPT ![r] = @ \cup {Parts[r][sub[q]]}]
  BY <1>0, <1>1, SetupGoes
<1>3. Parts[r][1] = "made"
  BY PartFacts
<1>4. CASE sub[q] = 0
  BY <1>0, <1>2, <1>4 DEF Made
<1>5. CASE sub[q] > 0
  <2>1. sub'[q] > 1
    BY <1>0, <1>2, <1>5
  <2>2. "made" \in has'[r]
    BY <1>0, <1>2, <1>3, <1>5 DEF Made
  <2> QED
    BY <2>1, <2>2 DEF Made
<1> QED
  BY <1>0, <1>4, <1>5

LEMMA LoneTeardownNext ==
  ASSUME TypeInv, NEW q \in Teardowns, LoneTeardown(q), Teardown(q), q \in running'
  PROVE  LoneTeardown(q)'
<1> SUFFICES ASSUME NEW r \in {"exec", "task"}, step'[q] = TeardownIndex[r], sub'[q] > 0
             PROVE  /\ Made(r)'
                    /\ sub'[q] = 2 => "managed" \in has'[r]
                    /\ sub'[q] > 2 => "managed" \notin has'[r]
                    /\ sub'[q] = 4 => "inline" \in has'[r]
                    /\ sub'[q] = 5 => "inline" \notin has'[r]
  BY DEF LoneTeardown
<1>0. /\ has \in [Resources -> SUBSET UNION {AllParts(u) : u \in Provisioned}]
      /\ q \in Commands /\ sub[q] \in 0..5 /\ sub \in [Commands -> 0..5]
      /\ r \in Resources /\ step[q] \in 1..6 /\ CommandInv
  BY PartFacts DEF TypeInv, CommandInv, AccountInv, Commands
<1>1. ~NextStep(q) /\ step'[q] = step[q]
  BY <1>0, TeardownGoes DEF NextStep, CommandInv
<1>2. \A u \in Resources : At(q, u) => u = r
  <2>1. step[q] = TeardownIndex[r]
    BY <1>1
  <2>2. \A u \in Resources : At(q, u) => step[q] = TeardownIndex[u]
    BY <1>0, TeardownPlace
  <2> QED
    BY <2>1, <2>2, PartFacts, IndexFacts
<1>3. Look(q, r) \/ RoleRequest(q, r)
  <2>1. ~RemoveConfig(q)
    BY DEF RemoveConfig, Exit
  <2>2. ASSUME NEW u \in Provisioned, Look(q, u) PROVE u = r
    BY <1>2, <2>2, IndexRange DEF Look
  <2>3. /\ ~DeleteWork(q) /\ ~ClusterRequest(q)
        /\ ~BucketUnknown(q) /\ ~EmptyBucket(q) /\ ~RemoveBucket(q)
    BY <1>2, PartFacts DEF DeleteWork, ClusterRequest, BucketUnknown, EmptyBucket, RemoveBucket
  <2>4. ASSUME NEW u \in {"exec", "task"}, RoleRequest(q, u) PROVE u = r
    BY <1>2, <2>4, PartFacts DEF RoleRequest
  <2> QED
    BY <2>1, <2>2, <2>3, <2>4, TeardownForms
<1>4. CASE Look(q, r)
  <2>1. has' = has /\ Made(r) /\ sub[q] = 0 /\ NextRequest(q)
    BY <1>1, <1>4 DEF Look, StepFails
  <2>2. sub'[q] = 1
    BY <1>0, <2>1 DEF NextRequest
  <2> QED
    BY <2>1, <2>2 DEF Made
<1>5. CASE RoleRequest(q, r)
  <2>0. /\ step[q] = TeardownIndex[r] /\ sub[q] > 0 /\ (Listing(q, r) \/ Dropping(q, r))
        /\ Made(r)
        /\ sub[q] = 2 => "managed" \in has[r]
        /\ sub[q] > 2 => "managed" \notin has[r]
        /\ sub[q] = 4 => "inline" \in has[r]
        /\ sub[q] = 5 => "inline" \notin has[r]
    BY <1>1, <1>5 DEF RoleRequest, DeletingRole, RoleRefused, StepFails, LoneTeardown
  <2>1. CASE Listing(q, r)
    <3>1. /\ sub[q] \in {1, 3} /\ has' = has
          /\ IF Policy(sub[q]) \in has[r] THEN sub'[q] = sub[q] + 1 ELSE sub'[q] = sub[q] + 2
      BY <1>0, <2>1 DEF Listing, NextRequest
    <3>2. sub[q] = 1 => Policy(sub[q]) = "managed"
      BY DEF Policy
    <3>3. sub[q] = 3 => Policy(sub[q]) = "inline"
      BY DEF Policy
    <3> QED
      BY <2>0, <3>1, <3>2, <3>3 DEF Made
  <2>2. CASE Dropping(q, r)
    <3>1. /\ sub[q] \in {2, 4} /\ sub'[q] = sub[q] + 1
          /\ has'[r] = has[r] \ {Policy(sub[q])}
      BY <1>0, <2>2 DEF Dropping, NextRequest, Without
    <3>2. sub[q] = 2 => Policy(sub[q]) = "managed"
      BY DEF Policy
    <3>3. sub[q] = 4 => Policy(sub[q]) = "inline"
      BY DEF Policy
    <3> QED
      BY <2>0, <3>1, <3>2, <3>3 DEF Made
  <2> QED
    BY <2>0, <2>1, <2>2
<1> QED
  BY <1>3, <1>4, <1>5

LEMMA CleanBehindNext ==
  ASSUME TypeInv, NEW q \in Teardowns, CleanBehind(q), Teardown(q), q \in running'
  PROVE  CleanBehind(q)'
<1> SUFFICES ASSUME knows'[q], q \notin errs'
             PROVE  /\ \A r \in Provisioned : step'[q] > TeardownIndex[r] => has'[r] = {}
                    /\ "job" \notin company'[q] /\ step'[q] > 1 => has'["work"] = {}
  BY DEF CleanBehind
<1>0. /\ knows[q] /\ q \notin errs /\ company'[q] = company[q] /\ q \in Commands
      /\ step[q] \in 1..6 /\ \A r \in Resources : has'[r] \subseteq has[r]
      /\ \/ NextStep(q) /\ step'[q] = step[q] + 1
         \/ step'[q] = step[q]
  BY TeardownGoes DEF TypeInv, CommandInv, Commands
<1>1. ASSUME NEW r \in Resources, step[q] > TeardownIndex[r] => has[r] = {},
             step'[q] > TeardownIndex[r]
      PROVE  has'[r] = {}
  <2>0. TeardownIndex[r] \in Nat
    BY PartFacts, IndexFacts
  <2>1. CASE step[q] > TeardownIndex[r]
    BY <1>0, <1>1, <2>1
  <2>2. CASE ~(step[q] > TeardownIndex[r])
    <3>1. NextStep(q) /\ step[q] = TeardownIndex[r]
      BY <1>0, <1>1, <2>0, <2>2
    <3> QED
      BY <1>0, <3>1, NothingLeft
  <2> QED
    BY <2>1, <2>2
<1>2. ASSUME NEW r \in Provisioned, step'[q] > TeardownIndex[r] PROVE has'[r] = {}
  <2>1. step[q] > TeardownIndex[r] => has[r] = {}
    BY <1>0 DEF CleanBehind
  <2> QED
    BY <1>1, <1>2, <2>1, IndexRange
<1>3. ASSUME "job" \notin company'[q], step'[q] > 1 PROVE has'["work"] = {}
  <2>1. "work" \in Resources /\ TeardownIndex["work"] = 1
    BY PartFacts, IndexFacts
  <2>2. step[q] > 1 => has["work"] = {}
    BY <1>0, <1>3 DEF CleanBehind
  <2> QED
    BY <1>1, <1>3, <2>1, <2>2
<1> QED
  BY <1>2, <1>3

LEMMA LoneNext ==
  ASSUME TypeInv, CompanyInv, LoneInv, [Next]_vars
  PROVE  LoneInv'
<1> SUFFICES ASSUME NEW q \in running', "command" \notin company'[q]
             PROVE  /\ q \in Setups => LoneSetup(q)'
                    /\ q \in Teardowns => LoneTeardown(q)' /\ CleanBehind(q)'
  BY DEF LoneInv, Alone
<1>0. /\ running \subseteq Commands /\ company \in [Commands -> SUBSET {"command", "job"}]
      /\ has \in [Resources -> SUBSET UNION {AllParts(u) : u \in Provisioned}]
      /\ step \in [Commands -> 1..6] /\ sub \in [Commands -> 0..5]
      /\ \A p \in Commands \ running : step[p] = 1 /\ sub[p] = 0
  BY DEF TypeInv, CommandInv, AccountInv
<1>1. q \in running /\ Alone(q) => /\ q \in Setups => LoneSetup(q)
                                   /\ q \in Teardowns => LoneTeardown(q) /\ CleanBehind(q)
  BY DEF LoneInv
<1>2. ASSUME NEW p \in Commands, Begin(p)
      PROVE  /\ q \in Setups => LoneSetup(q)'
             /\ q \in Teardowns => LoneTeardown(q)' /\ CleanBehind(q)'
  <2>1. running' = running \cup {p} /\ p \notin running /\ step' = step /\ sub' = sub
    BY <1>2 DEF Begin
  <2>2. q = p
    <3>1. q \in Commands
      BY <1>0, <2>1
    <3>2. running = {}
      BY <1>2, <3>1 DEF Begin
    <3> QED
      BY <2>1, <3>2
  <2>3. step'[q] = 1 /\ sub'[q] = 0
    BY <1>0, <2>1, <2>2
  <2>4. \A r \in Provisioned : TeardownIndex[r] \in 2..5
    BY IndexRange
  <2> QED
    BY <2>3, <2>4 DEF LoneSetup, LoneTeardown, CleanBehind
<1>3. ASSUME NEW p \in Commands, Acts(p)
      PROVE  /\ q \in Setups => LoneSetup(q)'
             /\ q \in Teardowns => LoneTeardown(q)' /\ CleanBehind(q)'
  <2>1. q \in running
    BY <1>3, Moves
  <2>2. p = q /\ Alone(q)
    BY <1>3, <2>1, OnlyItself
  <2>3. ~Crash(q)
    BY DEF Crash, Exit
  <2>4. CASE q \in Setups /\ Setup(q)
    BY <1>1, <2>1, <2>2, <2>4, LoneSetupNext, InfraAssumption
  <2>5. CASE q \in Teardowns /\ Teardown(q)
    BY <1>1, <2>1, <2>2, <2>5, LoneTeardownNext, CleanBehindNext, InfraAssumption
  <2> QED
    BY <1>3, <2>2, <2>3, <2>4, <2>5 DEF Acts
<1>4. CASE Job \/ UNCHANGED vars
  <2>1. /\ UNCHANGED <<running, step, sub, knows, errs>>
        /\ has' \in {has, With("work", "made")}
    BY <1>4 DEF Job, StartJob, PutObject, FinishJob, JobActs, Fine, vars, accountVars, commandVars
  <2>2. /\ company' = company /\ has' = has
        \/ company' = [p \in Commands |->
                         IF p \in running \cap Teardowns THEN company[p] \cup {"job"}
                         ELSE company[p]]
    BY <1>4 DEF Job, StartJob, PutObject, FinishJob, JobActs, vars, accountVars, commandVars
  <2>3. q \in running /\ q \in Commands /\ Alone(q)
    BY <1>0, <2>1, <2>2 DEF Alone
  <2>4. \A r \in Provisioned : has'[r] = has[r]
    BY <1>0, <2>1, PartFacts DEF With
  <2>5. "exec" \in Provisioned /\ "task" \in Provisioned
    BY PartFacts
  <2>6. q \in Setups => LoneSetup(q)'
    BY <1>1, <2>1, <2>3, <2>4 DEF LoneSetup, Made
  <2>7. q \in Teardowns => LoneTeardown(q)'
    BY <1>1, <2>1, <2>3, <2>4, <2>5 DEF LoneTeardown, Made
  <2>8. "job" \notin company'[q] /\ q \in Teardowns => has' = has /\ "job" \notin company[q]
    BY <2>2, <2>3
  <2>9. q \in Teardowns => CleanBehind(q)'
    BY <1>1, <2>1, <2>3, <2>4, <2>8 DEF CleanBehind
  <2> QED
    BY <2>6, <2>7, <2>9
<1> QED
  BY <1>2, <1>3, <1>4 DEF Next, Acts, Commands

LEMMA LoneInit == Init => CompanyInv /\ LoneInv
  BY DEF Init, CompanyInv, LoneInv

\* A teardown by itself that reports success leaves nothing of what setup made.
LEMMA RemovesAll ==
  ASSUME TypeInv, LoneInv, [Next]_vars, NEW p \in Teardowns,
         Succeeds(p), Alone(p), knows[p]
  PROVE  /\ config' = "none"
         /\ \A r \in Provisioned : has'[r] = {}
         /\ "job" \notin company[p] => \A r \in Resources : has'[r] = {}
<1>0. p \in running /\ p \notin running' /\ report' = "ok" /\ p \in Commands
  BY DEF Succeeds, TypeInv, CommandInv
<1>1. Teardown(p)
  <2>1. ~\E q \in Commands : Begin(q)
    BY <1>0 DEF Begin
  <2>2. ~Job /\ ~UNCHANGED vars
    BY <1>0 DEF Job, StartJob, PutObject, FinishJob, JobActs, vars, commandVars
  <2>3. \A q \in Commands : Acts(q) => q = p
    BY <1>0, Moves
  <2>4. ~Crash(p)
    BY <1>0 DEF Crash, Exit, Happens
  <2> QED
    BY <2>1, <2>2, <2>3, <2>4, InfraAssumption DEF Next, Acts, Commands
<1>2. RemoveConfig(p)
  <2>1. ~NextStep(p) /\ ~NextRequest(p) /\ ~GoesOn
    BY <1>0 DEF NextStep, NextRequest, GoesOn
  <2> QED
    BY <1>1, <2>1, TeardownForms DEF Look, DeleteWork, ClusterRequest, RoleRequest, Listing,
       Dropping, DeletingRole, RoleRefused, StepFails, BucketUnknown, EmptyBucket, RemoveBucket
<1>3. step[p] = 6 /\ has' = has /\ config' = "none" /\ p \notin errs
  BY <1>0, <1>2, TeardownPlace DEF RemoveConfig, Exit, Happens, TypeInv
<1>4. CleanBehind(p)
  BY <1>0 DEF LoneInv
<1>5. /\ \A r \in Provisioned : has[r] = {}
      /\ "job" \notin company[p] => has["work"] = {}
  BY <1>3, <1>4, IndexRange DEF CleanBehind
<1> QED
  BY <1>3, <1>5, PartFacts

\* A command by itself is refused nothing that an earlier one left behind.
LEMMA Accepted ==
  ASSUME TypeInv, CompanyInv, LoneInv, [Next]_vars, NEW p \in running,
         report' = "refused", Alone(p), ~UNCHANGED vars
  PROVE  p \in Teardowns /\ (At(p, "bucket") \/ At(p, "cluster"))
<1>0. p \in Commands /\ CommandInv
  BY DEF TypeInv, CommandInv
<1>1. Acts(p) /\ ~Crash(p)
  <2>1. ~\E q \in Commands : Begin(q)
    BY DEF Begin, Fine, Happens
  <2>2. ~Job
    BY DEF Job, StartJob, PutObject, FinishJob, JobActs, Fine, Happens
  <2>3. \A q \in Commands : Acts(q) => q = p
    BY <1>0, Moves DEF CompanyInv, Alone
  <2>4. ~Crash(p)
    BY DEF Crash, Exit, Happens
  <2> QED
    BY <2>1, <2>2, <2>3, <2>4 DEF Next, Acts, Commands
<1>2. ~Fine /\ ~Exit(p, "fault") /\ ~Exit(p, "ok") /\ ~Exit(p, "none")
  BY DEF Fine, Happens, Exit
<1>3. ASSUME p \in Setups, Setup(p) PROVE FALSE
  <2>1. LoneSetup(p)
    BY <1>3 DEF LoneInv
  <2>2. PICK r \in Provisioned, shared \in SUBSET Provisioned : MakePart(p, r, shared)
    BY <1>2, <1>3, SetupForms DEF Probe, BucketTaken, CheckQuota, SaveConfig, Making
  <2>3. step[p] \in 1..6 /\ sub[p] \in 0..5 /\ sub[p] <= Requests(p, step[p])
    BY <1>0 DEF CommandInv
  <2>4. step[p] = SetupIndex[r] /\ sub[p] > 0
    BY <1>3, <2>2, <2>3, SetupAt DEF MakePart
  <2>5. sub[p] \in 1..Len(Parts[r])
    <3>1. Len(Parts[r]) \in Nat
      BY PartFacts
    <3>2. Requests(p, step[p]) = Len(Parts[r])
      BY <1>0, <1>3, <2>3, <2>4, RequestFacts
    <3> QED
      BY <2>3, <2>4, <3>1, <3>2
  <2>6. Made(r) <=> sub[p] > 1
    BY <2>1, <2>4 DEF LoneSetup
  <2>7. Parts[r][sub[p]] = "made" <=> sub[p] = 1
    BY <2>5, MadeFirst
  <2> QED
    BY <1>2, <2>2, <2>3, <2>4, <2>6, <2>7 DEF MakePart
<1>4. ASSUME p \in Teardowns, Teardown(p) PROVE At(p, "bucket") \/ At(p, "cluster")
  <2>1. LoneTeardown(p)
    BY <1>4 DEF LoneInv
  <2>2. ASSUME NEW effect, StepFails(p, effect) PROVE FALSE
    BY <2>2 DEF StepFails, Error, Happens
  <2>3. ASSUME NEW r \in {"exec", "task"}, RoleRequest(p, r) PROVE FALSE
    <3>1. RoleRefused(p, r)
      BY <1>2, <2>2, <2>3 DEF RoleRequest, Listing, Dropping, DeletingRole
    <3>2. step[p] = TeardownIndex[r] /\ sub[p] > 0 /\ sub[p] \in 0..5
      BY <1>0, <1>4, <2>3, TeardownPlace, PartFacts DEF RoleRequest
    <3>3. /\ Made(r)
          /\ sub[p] = 2 => "managed" \in has[r]
          /\ sub[p] > 2 => "managed" \notin has[r]
          /\ sub[p] = 4 => "inline" \in has[r]
          /\ sub[p] = 5 => "inline" \notin has[r]
      BY <2>1, <3>2 DEF LoneTeardown
    <3>4. has[r] \subseteq {"made", "managed", "inline"} /\ "made" \in has[r]
      BY <3>3, PartFacts, AllPartsFacts DEF TypeInv, AccountInv, Kit, Made
    <3>5. sub[p] = 2 => Policy(sub[p]) = "managed"
      BY DEF Policy
    <3>6. sub[p] = 4 => Policy(sub[p]) = "inline"
      BY DEF Policy
    <3>7. sub[p] = 5 => has[r] = {"made"}
      BY <3>2, <3>3, <3>4
    <3> QED
      BY <3>1, <3>2, <3>3, <3>5, <3>6, <3>7 DEF RoleRefused
  <2>4. ASSUME NEW r \in Provisioned, Look(p, r) PROVE FALSE
    BY <1>2, <2>2, <2>4 DEF Look
  <2>5. ~DeleteWork(p) /\ ~BucketUnknown(p)
    BY <1>2, <2>2 DEF DeleteWork, BucketUnknown
  <2>6. ~RemoveConfig(p)
    BY <1>2 DEF RemoveConfig
  <2> QED
    BY <1>4, <2>3, <2>4, <2>5, <2>6, TeardownForms DEF ClusterRequest, EmptyBucket, RemoveBucket
<1> QED
  BY <1>1, <1>3, <1>4 DEF Acts

\* The invariant holds in every state.
THEOREM InfraInvariant == Spec => []InfraInv
<1>1. Init => InfraInv
  BY TypeInit, MadeInit, WholeInit, LoneInit DEF InfraInv
<1>2. InfraInv /\ [Next]_vars => InfraInv'
  BY TypeNext, MadeNext, WholeNext, CompanyNext, LoneNext DEF InfraInv
<1> QED
  BY <1>1, <1>2, PTL DEF Spec

\* A teardown by itself that succeeds has left nothing, whatever came before.
THEOREM TeardownAlwaysRemovesAll == Spec => TeardownRemovesAll
<1>1. InfraInv /\ [Next]_vars =>
        [\A p \in Teardowns :
           Succeeds(p) /\ Alone(p) /\ knows[p]
             => /\ config' = "none"
                /\ \A r \in Provisioned : has'[r] = {}
                /\ "job" \notin company[p] => \A r \in Resources : has'[r] = {}]_vars
  BY RemovesAll DEF InfraInv
<1> QED
  BY <1>1, InfraInvariant, PTL DEF Spec, TeardownRemovesAll

\* A command by itself is only refused what a running job or objects keep.
THEOREM RerunAlwaysAccepted == Spec => RerunIsAccepted
<1>1. InfraInv /\ [Next]_vars =>
        [\A p \in running : report' = "refused" /\ Alone(p)
           => p \in Teardowns /\ (At(p, "bucket") \/ At(p, "cluster"))]_vars
  BY Accepted DEF InfraInv
<1> QED
  BY <1>1, InfraInvariant, PTL DEF Spec, RerunIsAccepted
=============================================================================
