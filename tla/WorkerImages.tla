---------------------------- MODULE WorkerImages ----------------------------
(***************************************************************************)
(* The worker image of a program, from the binary on a developer's machine *)
(* to the containers of a job: aji.Setup and burst-core image build push a *)
(* tag, Map and Submit look one up, containers pull it, image prune and    *)
(* teardown delete it, and the developer edits and rebuilds meanwhile.     *)
(***************************************************************************)
EXTENDS Naturals, FiniteSets

CONSTANTS
  Builders,    \* callers of Setup, and of image build, on one machine
  Jobs,        \* programs that call Map, a pool or Submit
  NativeArch,  \* what the program's binary is made for, maybe no worker's
  MaxBuilds,   \* builds of the program, bounds the model
  MaxEdits,    \* versions of the source, bounds the model
  MaxNoise,    \* edits, builds, deletions and failures, bounds the model
  PruneBatch,  \* images deleted by one request (100)
  Faults       \* the kinds of failure that may happen

Archs == {"amd64", "arm64"}
FaultKinds ==
  {"stop",     \* a request or a tool fails with no effect, or a process is killed
   "applied",  \* a request is carried out and reports an error
   "kept"}     \* BatchDeleteImage succeeds without deleting every image

ASSUME ImagesAssumption ==
  /\ NativeArch \in Archs \cup {"other"}
  /\ MaxBuilds \in Nat \ {0} /\ MaxEdits \in Nat \ {0}
  /\ MaxNoise \in Nat /\ PruneBatch \in Nat \ {0} /\ Faults \subseteq FaultKinds

\* A tag is the environment hash and a suffix, the architecture or nothing.
\* The hash stands for the path, time and size of one build of the binary.
Stamps == 1..MaxBuilds
Codes == 1..MaxEdits
Tags == Stamps \X (Archs \cup {"none"})

\* An image is known by its content (digest): the code in it and what it runs on.
Images == [code : Codes, arch : Archs]
NoImage == [code |-> 0, arch |-> "none"]

VARIABLES
  src,      \* the version of the source
  file,     \* the binary: its stamp and the version it was built from
  repo,     \* the repository burst-workers-go exists
  tags,     \* tags[t]: the image that the registry has under t
  aged,     \* images pushed longer ago than prune's limit
  build,    \* build[b]: the call of builder b, and the image it has made
  job,      \* job[j]: the call of program j
  victims,  \* images that prune has listed and not yet deleted
  served,   \* tags that a Setup reported, and that nobody deleted since
  noise     \* how many edits, builds, deletions and failures there were

devVars == <<src, file>>
ecrVars == <<repo, tags, aged>>
vars == <<devVars, ecrVars, build, job, victims, served, noise>>

BuildPCs == {"idle", "check", "describe", "create", "copy", "docker", "push"}
Build ==
  [pc : BuildPCs, by : {"setup", "image"}, tag : Tags, image : Images \cup {NoImage}]
Job ==
  [pc : {"idle", "begun", "launched", "refused", "failed"},
   api : {"map", "submit"}, arch : Archs, born : Stamps, code : Codes,
   tag : Tags]

TypeOK ==
  /\ src \in Codes /\ file \in [stamp : Stamps, code : Codes]
  /\ repo \in BOOLEAN /\ tags \in [Tags -> Images \cup {NoImage}]
  /\ aged \subseteq Images /\ victims \subseteq Images
  /\ build \in [Builders -> Build] /\ job \in [Jobs -> Job]
  /\ served \subseteq Tags /\ noise \in 0..MaxNoise

NoBuild == [pc |-> "idle", by |-> "setup", tag |-> <<1, "none">>, image |-> NoImage]
NoJob == [pc |-> "idle", api |-> "map", arch |-> "amd64", born |-> 1, code |-> 1,
          tag |-> <<1, "none">>]

Init ==
  /\ src = 1 /\ file = [stamp |-> 1, code |-> 1]
  /\ repo = FALSE /\ tags = [t \in Tags |-> NoImage] /\ aged = {}
  /\ build = [b \in Builders |-> NoBuild] /\ job = [j \in Jobs |-> NoJob]
  /\ victims = {} /\ served = {} /\ noise = 0

Exists(t) == tags[t] # NoImage

\* Slip: the hash leaves out the time and the size of the binary.
EnvHashSlip == 1

\* Slip: an architecture that was not given stays empty.
DefaultArchSlip(arch) == arch

\* Slip: Map leaves the architecture out of the tag.
MapTagSlip(stamp, arch) == <<stamp, "none">>

\* What the two sides take for the tag of a binary.
EnvHash == file.stamp
DefaultArch(arch) == IF arch = "" THEN "amd64" ELSE arch
SetupTag(stamp, arch) == <<stamp, arch>>
MapTag(stamp, arch) == <<stamp, arch>>
SubmitTag(stamp) == <<stamp, "none">>
TagOf(api, stamp, arch) ==
  IF api = "submit" THEN SubmitTag(stamp) ELSE MapTag(stamp, arch)

Quietly == noise' = noise
Disturbs == noise < MaxNoise /\ noise' = noise + 1
Fails(kind) == kind \in Faults /\ Disturbs
-----------------------------------------------------------------------------
(* The developer.                                                          *)

DevFrame == Disturbs /\ UNCHANGED <<ecrVars, build, job, victims, served>>

Edit == src < MaxEdits /\ src' = src + 1 /\ file' = file /\ DevFrame

\* A build gives the file a modification time that it has never had before.
Compile ==
  /\ file.stamp < MaxBuilds
  /\ file' = [stamp |-> file.stamp + 1, code |-> src] /\ src' = src /\ DevFrame
-----------------------------------------------------------------------------
(* Setup and image build, which do the same to the registry.               *)

BuildGoes(b, pc) == build' = [build EXCEPT ![b].pc = pc]
BuildEnds(b) == build' = [build EXCEPT ![b] = NoBuild]
BuildFrame == UNCHANGED <<devVars, job, victims>>
EcrFrame == UNCHANGED <<ecrVars, served>>
Serves(b) == served' = IF build[b].by = "setup" THEN served \cup {build[b].tag} ELSE served

\* Setup takes the hash of the program's binary and defaults the architecture;
\* image build is given a hash, of this or an earlier build.
SetupStart(b) ==
  /\ build[b].pc = "idle"
  /\ \E arch \in Archs \cup {""} :
       build' = [build EXCEPT ![b] =
                   [NoBuild EXCEPT !.pc = "check",
                                   !.tag = SetupTag(EnvHash, DefaultArch(arch))]]
  /\ Quietly /\ BuildFrame /\ EcrFrame

ImageBuildStart(b) ==
  /\ build[b].pc = "idle"
  /\ \E stamp \in 1..file.stamp :
       build' = [build EXCEPT ![b] = [NoBuild EXCEPT !.pc = "check", !.by = "image",
                                                     !.tag = SubmitTag(stamp)]]
  /\ Disturbs /\ BuildFrame /\ EcrFrame

BuildStops(b) ==
  /\ Fails("stop") /\ build[b].pc # "idle" /\ BuildEnds(b)
  /\ BuildFrame /\ EcrFrame

\* An image that is there already ends the call.
CheckImage(b) ==
  /\ build[b].pc = "check"
  /\ IF Exists(build[b].tag) THEN BuildEnds(b) /\ Serves(b)
     ELSE BuildGoes(b, "describe") /\ served' = served
  /\ Quietly /\ BuildFrame /\ UNCHANGED ecrVars

\* Slip: the repository is created without a look.
DescribeRepositorySlip(b) ==
  build[b].pc = "describe" /\ BuildGoes(b, "create") /\ Quietly /\ BuildFrame /\ EcrFrame

DescribeRepository(b) ==
  /\ build[b].pc = "describe" /\ BuildGoes(b, IF repo THEN "copy" ELSE "create")
  /\ Quietly /\ BuildFrame /\ EcrFrame

\* A repository that somebody made since it was looked for is an error.
CreateRepository(b) ==
  /\ build[b].pc = "create" /\ repo' = TRUE
  /\ \/ ~repo /\ BuildGoes(b, "copy") /\ Quietly
     \/ ~repo /\ BuildEnds(b) /\ Fails("applied")
     \/ repo /\ BuildEnds(b) /\ Quietly
  /\ BuildFrame /\ UNCHANGED <<tags, aged, served>>

\* Setup copies a binary made for the architecture as it is now, and otherwise
\* compiles the source as it is now; image build sends its directory to docker,
\* which builds for its own machine.
TakeBinary(b) ==
  /\ build[b].pc = "copy"
  /\ LET setup == build[b].by = "setup"
         arch == IF setup THEN build[b].tag[2] ELSE "amd64"
         image == [code |-> IF setup /\ arch = NativeArch THEN file.code ELSE src,
                   arch |-> arch]
     IN  build' = [build EXCEPT ![b] = [@ EXCEPT !.pc = "docker", !.image = image]]
  /\ Quietly /\ BuildFrame /\ EcrFrame

\* Docker has one image under a tag: from now on this is the one that every
\* builder on the machine pushes under it.
DockerBuild(b) ==
  /\ build[b].pc = "docker"
  /\ build' = [c \in Builders |->
                 IF c = b THEN [build[b] EXCEPT !.pc = "push"]
                 ELSE IF build[c].pc = "push" /\ build[c].tag = build[b].tag
                      THEN [build[c] EXCEPT !.image = build[b].image] ELSE build[c]]
  /\ Quietly /\ BuildFrame /\ EcrFrame

\* Login and push.  The registry may or may not take an image that it has
\* already for a new one.
DockerPush(b) ==
  LET t == build[b].tag  image == build[b].image IN
  /\ build[b].pc = "push" /\ BuildEnds(b)
  /\ \/ /\ repo /\ tags' = [tags EXCEPT ![t] = image] /\ aged' \in {aged, aged \ {image}}
        /\ \/ Serves(b) /\ Quietly
           \/ served' = served /\ Fails("applied")
     \/ ~repo /\ UNCHANGED <<tags, aged, served>> /\ Quietly
  /\ BuildFrame /\ UNCHANGED repo

BuildStep(b) ==
  \/ CheckImage(b) \/ DescribeRepository(b) \/ CreateRepository(b) \/ TakeBinary(b)
  \/ DockerBuild(b) \/ DockerPush(b)
-----------------------------------------------------------------------------
(* A program that runs a job.                                              *)

JobEnds(j, how) == job' = [job EXCEPT ![j] = [NoJob EXCEPT !.pc = how]]
JobFrame == UNCHANGED <<devVars, ecrVars, build, victims, served>>

\* The process is the binary as it is now.  Submit has no architecture, and
\* PoolMap, which is a Map, does not pass on that of its pool.
JobBegin(j, api) ==
  /\ job[j].pc = "idle"
  /\ \E arch \in IF api = "submit" THEN {""} ELSE Archs \cup {""} :
       job' = [job EXCEPT ![j] =
                 [NoJob EXCEPT !.pc = "begun", !.api = api, !.arch = DefaultArch(arch),
                               !.born = file.stamp, !.code = file.code]]
  /\ Quietly /\ JobFrame

\* Takes the hash of the file as it is now, and looks for the image.
JobCheckImage(j) ==
  LET t == TagOf(job[j].api, EnvHash, job[j].arch) IN
  /\ job[j].pc = "begun"
  /\ \/ /\ Exists(t) /\ Quietly
        /\ job' = [job EXCEPT ![j] = [@ EXCEPT !.pc = "launched", !.tag = t]]
     \/ ~Exists(t) /\ JobEnds(j, "refused") /\ Quietly
     \/ Fails("stop") /\ JobEnds(j, "failed")
  /\ JobFrame

\* What a container of the job runs that starts now, in whichever wave.
Pulls(j) == IF job[j].pc = "launched" THEN {tags[job[j].tag]} \ {NoImage} ELSE {}
-----------------------------------------------------------------------------
(* What deletes images.                                                    *)

Deletes(images) ==
  LET gone == {t \in Tags : tags[t] \in images} IN
  /\ tags' = [t \in Tags |-> IF t \in gone THEN NoImage ELSE tags[t]]
  /\ served' = served \ gone /\ aged' = aged \ images

Age ==
  /\ Disturbs /\ \E t \in Tags : Exists(t) /\ aged' = aged \cup {tags[t]}
  /\ UNCHANGED <<devVars, repo, tags, build, job, victims, served>>

\* image prune lists the images, and then deletes the old ones by digest.
PruneList ==
  /\ victims = {} /\ victims' = aged \cap {tags[t] : t \in Tags}
  /\ Quietly /\ UNCHANGED <<devVars, ecrVars, build, job, served>>

PruneDelete ==
  /\ victims # {}
  /\ \E batch \in SUBSET victims : \E gone \in SUBSET batch :
       /\ batch # {} /\ Cardinality(batch) <= PruneBatch
       /\ Deletes(gone) /\ victims' = victims \ batch
       /\ IF gone = batch THEN Quietly ELSE Fails("kept")
  /\ UNCHANGED <<devVars, repo, build, job>>

PruneStops ==
  /\ Fails("stop") /\ victims # {} /\ victims' = {}
  /\ UNCHANGED <<devVars, ecrVars, build, job, served>>

\* teardown deletes the repository with all that is in it.
Teardown ==
  /\ repo /\ repo' = FALSE /\ Deletes(Images) /\ Disturbs
  /\ UNCHANGED <<devVars, build, job, victims>>
-----------------------------------------------------------------------------
Next ==
  \/ Edit \/ Compile \/ Age \/ PruneList \/ PruneDelete \/ PruneStops \/ Teardown
  \/ \E b \in Builders : SetupStart(b) \/ ImageBuildStart(b) \/ BuildStops(b) \/ BuildStep(b)
  \/ \E j \in Jobs : \/ \E api \in {"map", "submit"} : JobBegin(j, api)
                     \/ JobCheckImage(j)

\* A prune ends; every start of a program calls Setup again, and no step of it
\* stands still.
Fairness ==
  /\ WF_vars(PruneDelete)
  /\ \A b \in Builders : WF_vars(BuildStep(b)) /\ WF_vars(SetupStart(b))
Spec == Init /\ [][Next]_vars /\ Fairness
-----------------------------------------------------------------------------
(* Properties.                                                             *)

Looks(j) == job[j].api # "submit"

\* As long as nobody rebuilds a program that is running, the containers of its
\* Map, whichever builds race and whatever is pruned, are of the architecture
\* they were asked for and run the caller's own code, or, where Setup had to
\* compile the source, no older code.
JobRunsCallersCode ==
  \A j \in Jobs : Looks(j) /\ file.stamp = job[j].born =>
    \A image \in Pulls(j) :
      /\ image.arch = job[j].arch /\ image.code >= job[j].code
      /\ image.arch = NativeArch => image.code = job[j].code

\* A Map is refused for a missing image only if no Setup has reported one for
\* that binary and architecture, or it has been deleted since.
SetupServesMap ==
  [][\A j \in Jobs :
       job[j].pc # "refused" /\ job'[j].pc = "refused" /\ Looks(j)
         => SetupTag(EnvHash, job[j].arch) \notin served]_vars

\* The same of Submit, whose error says "run aji.Setup() before submitting
\* work" (aji/session.go:176): after a Setup of the same binary, for whichever
\* architecture, its image is found.
SetupServesSubmit ==
  [][\A j \in Jobs :
       job[j].pc # "refused" /\ job'[j].pc = "refused" /\ ~Looks(j)
         => \A arch \in Archs : SetupTag(EnvHash, arch) \notin served]_vars

\* Once the failures, deletions and edits are over (they are finitely many),
\* Setup brings an image of the current binary back, whatever they left: no
\* race for the repository and no half-done build makes it fail for ever.
ImageComesBack == <>[](\E arch \in Archs : Exists(SetupTag(EnvHash, arch)))
=============================================================================
