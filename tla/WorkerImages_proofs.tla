------------------------- MODULE WorkerImages_proofs -------------------------
(***************************************************************************)
(* Proofs about WorkerImages: for any number of builders and jobs on the   *)
(* machine, any edits and deletions, what the containers of a Map run and  *)
(* that Setup has made what Map looks for.                                 *)
(***************************************************************************)
EXTENDS WorkerImages, TLAPS

\* An image that Map may take under tag t: of the tag's architecture and, as
\* long as the binary is the one of the tag, of its code or newer code.
Fits(t, image) ==
  /\ image.arch = t[2]
  /\ t[1] = file.stamp => /\ image.code >= file.code
                          /\ image.arch = NativeArch => image.code = file.code

\* The binary is never newer than the source.
DevInv == file.code <= src

\* No tag is older than its binary, and what it holds fits.
TagInv ==
  \A t \in Tags : Exists(t) =>
    /\ t[1] <= file.stamp
    /\ t[2] \in Archs => Fits(t, tags[t])

\* The same of what is being built, from the moment it is compiled or copied.
BuildOK(r) ==
  r.pc # "idle" =>
    /\ r.tag[1] <= file.stamp
    /\ r.by = "setup" <=> r.tag[2] \in Archs
    /\ r.pc \in {"docker", "push"} =>
         r.image \in Images /\ (r.tag[2] \in Archs => Fits(r.tag, r.image))

BuildInv == \A b \in Builders : BuildOK(build[b])

\* As long as the binary is the one that the process was started from, the tag
\* is the one of that binary and of the architecture that was asked for.
JobOK(r) ==
  r.pc \in {"begun", "launched"} =>
    /\ r.arch \in Archs /\ r.born <= file.stamp
    /\ r.born = file.stamp => r.code = file.code
    /\ r.pc = "launched" /\ r.api # "submit" =>
         r.tag[2] = r.arch /\ r.born <= r.tag[1] /\ r.tag[1] <= file.stamp

JobInv == \A j \in Jobs : JobOK(job[j])

ServedInv == \A t \in served : Exists(t)

ImagesInv == TypeOK /\ DevInv /\ TagInv /\ BuildInv /\ JobInv /\ ServedInv

LEMMA Facts ==
  /\ NoImage \notin Images /\ "none" \notin Archs /\ NoBuild \in Build /\ NoJob \in Job
  /\ NoBuild.pc = "idle" /\ NoJob.pc = "idle"
<1>1. 1 \in Stamps /\ 1 \in Codes /\ 0 \notin Codes
  BY ImagesAssumption DEF Stamps, Codes
<1>2. NoImage \notin Images /\ "none" \notin Archs
  BY <1>1 DEF NoImage, Images, Archs
<1>3. <<1, "none">> \in Tags
  BY <1>1 DEF Tags
<1>4. QED
  BY <1>1, <1>2, <1>3 DEF NoBuild, Build, BuildPCs, NoJob, Job, Archs

LEMMA TagParts == ASSUME NEW t \in Tags PROVE t[1] \in Stamps /\ t[2] \in Archs \cup {"none"}
BY DEF Tags

\* What leaves the variables of a conjunct alone leaves it true.
LEMMA Frames ==
  /\ DevInv /\ UNCHANGED <<src, file>> => DevInv'
  /\ TagInv /\ UNCHANGED <<file, tags>> => TagInv'
  /\ BuildInv /\ UNCHANGED <<file, build>> => BuildInv'
  /\ JobInv /\ UNCHANGED <<file, job>> => JobInv'
  /\ ServedInv /\ UNCHANGED <<tags, served>> => ServedInv'
<1>1. DevInv /\ UNCHANGED <<src, file>> => DevInv'
  BY DEF DevInv
<1>2. TagInv /\ UNCHANGED <<file, tags>> => TagInv'
  BY DEF TagInv, Exists, Fits
<1>3. BuildInv /\ UNCHANGED <<file, build>> => BuildInv'
  BY DEF BuildInv, BuildOK, Fits
<1>4. JobInv /\ UNCHANGED <<file, job>> => JobInv'
  BY DEF JobInv, JobOK
<1>5. ServedInv /\ UNCHANGED <<tags, served>> => ServedInv'
  BY DEF ServedInv, Exists
<1>6. QED
  BY <1>1, <1>2, <1>3, <1>4, <1>5

LEMMA InitImages == Init => ImagesInv
<1> SUFFICES ASSUME Init PROVE ImagesInv
  OBVIOUS
<1>1. 1 \in Stamps /\ 1 \in Codes /\ 0 \in 0..MaxNoise
  BY ImagesAssumption DEF Stamps, Codes
<1>2. TypeOK
  BY <1>1, Facts DEF Init, TypeOK
<1>3. DevInv /\ TagInv /\ BuildInv /\ JobInv /\ ServedInv
  BY Facts DEF Init, DevInv, TagInv, BuildInv, BuildOK, JobInv, JobOK, ServedInv, Exists
<1>4. QED
  BY <1>2, <1>3 DEF ImagesInv

LEMMA Noise ==
  ASSUME TypeOK
  PROVE  Quietly \/ Disturbs => noise' \in 0..MaxNoise
BY ImagesAssumption DEF TypeOK, Quietly, Disturbs

\* The developer.
LEMMA DevStep == ImagesInv /\ (Edit \/ Compile) => ImagesInv'
<1> SUFFICES ASSUME ImagesInv, Edit \/ Compile PROVE ImagesInv'
  OBVIOUS
<1>0. /\ TypeOK /\ src \in Codes /\ file \in [stamp : Stamps, code : Codes]
      /\ UNCHANGED <<repo, tags, aged, build, job, victims, served>> /\ noise' \in 0..MaxNoise
  BY Noise DEF ImagesInv, TypeOK, Edit, Compile, DevFrame, ecrVars
<1>1. /\ src' \in Codes /\ file' \in [stamp : Stamps, code : Codes] /\ DevInv'
      /\ file' = file \/ file'.stamp = file.stamp + 1
  BY <1>0, ImagesAssumption DEF Edit, Compile, Stamps, Codes, ImagesInv, DevInv
<1>2. TypeOK'
  BY <1>0, <1>1 DEF TypeOK
<1>3. CASE file' = file
  BY <1>0, <1>1, <1>2, <1>3, Frames DEF ImagesInv
<1>4. CASE file'.stamp = file.stamp + 1
  <2>1. file.stamp \in Nat /\ \A t \in Tags : t[1] \in Nat
    BY <1>0, TagParts, ImagesAssumption DEF Stamps
  <2>2. \A t \in Tags, image \in Images : t[1] <= file.stamp /\ Fits(t, image) => Fits(t, image)'
    BY <1>4, <2>1 DEF Fits
  <2>3. TagInv'
    <3>1. \A t \in Tags : Exists(t) => tags[t] \in Images
      BY <1>0 DEF Exists, TypeOK
    <3>2. QED
      BY <1>0, <1>4, <2>1, <2>2, <3>1 DEF ImagesInv, TagInv, Exists
  <2>4. BuildInv'
    <3>1. \A b \in Builders : build[b].tag \in Tags
      BY <1>0 DEF TypeOK, Build
    <3>2. QED
      BY <1>0, <1>4, <2>1, <2>2, <3>1 DEF ImagesInv, BuildInv, BuildOK
  <2>5. JobInv'
    <3>1. \A j \in Jobs : job[j].born \in Nat /\ job[j].tag[1] \in Nat
      BY <1>0, <2>1 DEF TypeOK, Job, Stamps
    <3>2. QED
      BY <1>0, <1>4, <2>1, <3>1 DEF ImagesInv, JobInv, JobOK
  <2>6. QED
    BY <1>0, <1>1, <1>2, <2>3, <2>4, <2>5, Frames DEF ImagesInv
<1>5. QED
  BY <1>1, <1>3, <1>4

\* A step of one builder.
LEMMA BuildSet ==
  ASSUME ImagesInv, NEW b \in Builders, NEW new \in Build, BuildOK(new),
         build' = [build EXCEPT ![b] = new], UNCHANGED file
  PROVE  build' \in [Builders -> Build] /\ BuildInv'
<1>1. build \in [Builders -> Build]
  BY DEF ImagesInv, TypeOK
<1>2. \A c \in Builders : BuildOK(build[c]) /\ build'[c] = IF c = b THEN new ELSE build[c]
  BY <1>1 DEF ImagesInv, BuildInv
<1>3. ASSUME NEW c \in Builders
      PROVE  BuildOK(build[c])'
  <2>1. BuildOK(build'[c])
    BY <1>2
  <2>2. QED
    BY <2>1 DEF BuildOK, Fits
<1>4. QED
  BY <1>1, <1>3 DEF BuildInv

\* A step of a builder that leaves the registry alone.
LEMMA BuildQuiet ==
  ASSUME ImagesInv, NEW b \in Builders, NEW new \in Build, BuildOK(new),
         build' = [build EXCEPT ![b] = new],
         UNCHANGED <<devVars, job, victims, tags, aged, served>>,
         repo' \in BOOLEAN, Quietly \/ Disturbs
  PROVE  ImagesInv'
<1>1. UNCHANGED <<src, file, job, victims, tags, aged, served>>
  BY DEF devVars
<1>2. build' \in [Builders -> Build] /\ BuildInv'
  BY <1>1, BuildSet
<1>3. TypeOK /\ noise' \in 0..MaxNoise
  BY Noise DEF ImagesInv
<1>4. TypeOK'
  BY <1>1, <1>2, <1>3 DEF TypeOK
<1>5. QED
  BY <1>1, <1>2, <1>4, Frames DEF ImagesInv

LEMMA BuildStart ==
  ASSUME ImagesInv, NEW b \in Builders, SetupStart(b) \/ ImageBuildStart(b) \/ BuildStops(b)
  PROVE  ImagesInv'
<1>0. /\ file.stamp \in Stamps /\ file.stamp \in Nat
      /\ UNCHANGED <<devVars, job, victims, repo, tags, aged, served>> /\ repo' \in BOOLEAN
      /\ Quietly \/ Disturbs
  <2>1. file.stamp \in Stamps /\ file.stamp \in Nat /\ repo \in BOOLEAN
    BY ImagesAssumption DEF ImagesInv, TypeOK, Stamps
  <2>2. BuildFrame /\ EcrFrame /\ (Quietly \/ Disturbs)
    BY DEF SetupStart, ImageBuildStart, BuildStops, Fails
  <2>3. QED
    BY <2>1, <2>2 DEF BuildFrame, EcrFrame, ecrVars
<1>1. CASE SetupStart(b)
  <2>1. PICK arch \in Archs :
          build' = [build EXCEPT ![b] = [NoBuild EXCEPT !.pc = "check",
                                                        !.tag = SetupTag(EnvHash, arch)]]
    BY <1>1 DEF SetupStart, DefaultArch, Archs
  <2> DEFINE tag == SetupTag(EnvHash, arch)
             new == [NoBuild EXCEPT !.pc = "check", !.tag = tag]
  <2>2. tag \in Tags /\ tag[1] <= file.stamp /\ tag[2] \in Archs
    BY <1>0 DEF SetupTag, EnvHash, Tags
  <2>3. new \in Build /\ new.pc = "check" /\ new.by = "setup" /\ new.tag = tag
    <3> HIDE DEF tag
    <3> QED BY <2>2, Facts DEF Build, BuildPCs, NoBuild
  <2>4. BuildOK(new)
    <3> HIDE DEF new, tag
    <3> QED BY <2>2, <2>3 DEF BuildOK
  <2>5. build' = [build EXCEPT ![b] = new]
    BY <2>1
  <2> HIDE DEF new
  <2>6. QED
    BY <1>0, <2>3, <2>4, <2>5, BuildQuiet
<1>2. CASE ImageBuildStart(b)
  <2>1. PICK stamp \in 1..file.stamp :
          build' = [build EXCEPT ![b] = [NoBuild EXCEPT !.pc = "check", !.by = "image",
                                                        !.tag = SubmitTag(stamp)]]
    BY <1>2 DEF ImageBuildStart
  <2> DEFINE tag == SubmitTag(stamp)
             new == [NoBuild EXCEPT !.pc = "check", !.by = "image", !.tag = tag]
  <2>2. tag \in Tags /\ tag[1] <= file.stamp /\ tag[2] \notin Archs
    <3>1. stamp \in Stamps /\ stamp <= file.stamp
      BY <1>0, <2>1, ImagesAssumption DEF Stamps
    <3>2. QED
      BY <3>1, Facts DEF SubmitTag, Tags
  <2>3. new \in Build /\ new.pc = "check" /\ new.by = "image" /\ new.tag = tag
    <3> HIDE DEF tag
    <3> QED BY <2>2, Facts DEF Build, BuildPCs, NoBuild
  <2>4. BuildOK(new)
    <3> HIDE DEF new, tag
    <3> QED BY <2>2, <2>3 DEF BuildOK
  <2>5. build' = [build EXCEPT ![b] = new]
    BY <2>1
  <2> HIDE DEF new
  <2>6. QED
    BY <1>0, <2>3, <2>4, <2>5, BuildQuiet
<1>3. CASE BuildStops(b)
  <2>1. build' = [build EXCEPT ![b] = NoBuild] /\ BuildOK(NoBuild)
    BY <1>3, Facts DEF BuildStops, BuildEnds, BuildOK
  <2>2. QED
    BY <1>0, <2>1, Facts, BuildQuiet
<1>4. QED
  BY <1>1, <1>2, <1>3

\* The steps of a build that leave the tags alone.
LEMMA BuildGoesOn ==
  ASSUME ImagesInv, NEW b \in Builders, NEW pc \in {"idle", "describe", "create", "copy"},
         build[b].pc # "idle", BuildGoes(b, pc)
  PROVE  \E new \in Build : BuildOK(new) /\ build' = [build EXCEPT ![b] = new]
<1> DEFINE new == [build[b] EXCEPT !.pc = pc]
<1>1. build[b] \in Build /\ BuildOK(build[b])
  BY DEF ImagesInv, TypeOK, BuildInv
<1>2. /\ new \in Build /\ new.pc = pc /\ new.by = build[b].by /\ new.tag = build[b].tag
  BY <1>1 DEF Build, BuildPCs
<1>3. BuildOK(new)
  <2> HIDE DEF new
  <2> QED BY <1>1, <1>2 DEF BuildOK
<1>4. build' = [build EXCEPT ![b] = new]
  BY DEF BuildGoes
<1>5. QED
  BY <1>2, <1>3, <1>4

LEMMA BuildRepository ==
  ASSUME ImagesInv, NEW b \in Builders, DescribeRepository(b) \/ CreateRepository(b)
  PROVE  ImagesInv'
<1>1. \E new \in Build : BuildOK(new) /\ build' = [build EXCEPT ![b] = new]
  <2>1. CASE BuildEnds(b)
    BY <2>1, Facts DEF BuildEnds, BuildOK
  <2>2. CASE BuildGoes(b, "create") /\ build[b].pc = "describe"
    BY <2>2, BuildGoesOn
  <2>3. CASE BuildGoes(b, "copy") /\ build[b].pc \in {"describe", "create"}
    BY <2>3, BuildGoesOn
  <2>4. QED
    BY <2>1, <2>2, <2>3 DEF DescribeRepository, CreateRepository
<1>2. /\ UNCHANGED <<devVars, job, victims, tags, aged, served>>
      /\ Quietly \/ Disturbs
      /\ repo' \in BOOLEAN
  <2>1. repo \in BOOLEAN
    BY DEF ImagesInv, TypeOK
  <2>2. CASE DescribeRepository(b)
    BY <2>1, <2>2 DEF DescribeRepository, BuildFrame, EcrFrame, ecrVars
  <2>3. CASE CreateRepository(b)
    BY <2>3 DEF CreateRepository, BuildFrame, Fails
  <2>4. QED
    BY <2>2, <2>3
<1>3. QED
  BY <1>1, <1>2, BuildQuiet

\* What is compiled or copied now fits the tag.
LEMMA BuildTake ==
  ASSUME ImagesInv, NEW b \in Builders, TakeBinary(b)
  PROVE  ImagesInv'
<1> DEFINE setup == build[b].by = "setup"
           arch == IF setup THEN build[b].tag[2] ELSE "amd64"
           image == [code |-> IF setup /\ arch = NativeArch THEN file.code ELSE src,
                     arch |-> arch]
           new == [build[b] EXCEPT !.pc = "docker", !.image = image]
<1>0. /\ build[b] \in Build /\ BuildOK(build[b]) /\ build[b].pc = "copy"
      /\ src \in Codes /\ file.code \in Codes /\ Codes \subseteq Nat /\ file.code <= src
  BY DEF ImagesInv, TypeOK, BuildInv, TakeBinary, DevInv, Codes
<1>1. arch \in Archs /\ (build[b].tag[2] \in Archs => setup /\ arch = build[b].tag[2])
  BY <1>0 DEF BuildOK, Archs
<1>2. image \in Images /\ image.arch = arch /\ image.code >= file.code
      /\ (setup /\ arch = NativeArch => image.code = file.code)
  <2> HIDE DEF arch, setup
  <2> QED BY <1>0, <1>1 DEF Images
<1>3. /\ new \in Build /\ new.pc = "docker" /\ new.by = build[b].by
      /\ new.tag = build[b].tag /\ new.image = image
  <2> HIDE DEF image
  <2> QED BY <1>0, <1>2 DEF Build, BuildPCs
<1>4. build[b].tag[2] \in Archs => Fits(build[b].tag, image)
  <2> HIDE DEF image, arch, setup
  <2> QED BY <1>1, <1>2 DEF Fits
<1>5. BuildOK(new)
  <2> HIDE DEF new, image
  <2> QED BY <1>0, <1>2, <1>3, <1>4 DEF BuildOK
<1>6. build' = [build EXCEPT ![b] = new]
  BY DEF TakeBinary
<1>7. /\ UNCHANGED <<devVars, job, victims, tags, aged, served>>
      /\ Quietly /\ repo' \in BOOLEAN
  BY DEF TakeBinary, BuildFrame, EcrFrame, ecrVars, ImagesInv, TypeOK
<1>8. QED
  <2> HIDE DEF new
  <2> QED BY <1>3, <1>5, <1>6, <1>7, BuildQuiet

\* Docker's image under a tag replaces what others have built under the same
\* tag: it fits as well.
LEMMA BuildDocker ==
  ASSUME ImagesInv, NEW b \in Builders, DockerBuild(b)
  PROVE  ImagesInv'
<1>0. /\ build \in [Builders -> Build] /\ BuildInv /\ build[b].pc = "docker"
      /\ build[b].image \in Images
  BY DEF ImagesInv, TypeOK, DockerBuild, BuildInv, BuildOK
<1>1. ASSUME NEW c \in Builders
      PROVE  build'[c] \in Build /\ BuildOK(build'[c])
  <2>1. build[c] \in Build /\ BuildOK(build[c]) /\ BuildOK(build[b])
    BY <1>0 DEF BuildInv
  <2>2. CASE c = b
    <3> DEFINE new == [build[b] EXCEPT !.pc = "push"]
    <3>1. build'[c] = new
      BY <2>2 DEF DockerBuild
    <3>2. /\ new \in Build /\ new.pc = "push" /\ new.by = build[b].by
          /\ new.tag = build[b].tag /\ new.image = build[b].image
      BY <1>0 DEF Build, BuildPCs
    <3>3. BuildOK(new)
      <4> HIDE DEF new
      <4> QED BY <1>0, <2>1, <3>2 DEF BuildOK
    <3>4. QED
      BY <3>1, <3>2, <3>3
  <2>3. CASE c # b /\ build[c].pc = "push" /\ build[c].tag = build[b].tag
    <3> DEFINE new == [build[c] EXCEPT !.image = build[b].image]
    <3>1. build'[c] = new
      BY <2>3 DEF DockerBuild
    <3>2. /\ new \in Build /\ new.pc = "push" /\ new.by = build[c].by
          /\ new.tag = build[b].tag /\ new.image = build[b].image
      BY <1>0, <2>1, <2>3 DEF Build
    <3>3. BuildOK(new)
      <4> HIDE DEF new
      <4> QED BY <1>0, <2>1, <2>3, <3>2 DEF BuildOK
    <3>4. QED
      BY <3>1, <3>2, <3>3
  <2>4. CASE c # b /\ ~(build[c].pc = "push" /\ build[c].tag = build[b].tag)
    BY <2>1, <2>4 DEF DockerBuild
  <2>5. QED
    BY <2>2, <2>3, <2>4
<1>2. UNCHANGED <<src, file, repo, tags, aged, job, victims, served>> /\ noise' \in 0..MaxNoise
  BY Noise DEF DockerBuild, BuildFrame, EcrFrame, ecrVars, devVars, ImagesInv
<1>3. build' \in [Builders -> Build]
  BY <1>1 DEF DockerBuild
<1>4. BuildInv'
  BY <1>1, <1>2 DEF BuildInv, BuildOK, Fits
<1>5. TypeOK'
  BY <1>2, <1>3 DEF ImagesInv, TypeOK
<1>6. QED
  BY <1>2, <1>4, <1>5, Frames DEF ImagesInv

\* A push puts the image of its builder under the tag.
LEMMA BuildPush ==
  ASSUME ImagesInv, NEW b \in Builders, CheckImage(b) \/ DockerPush(b)
  PROVE  ImagesInv'
<1> DEFINE t == build[b].tag
<1>0. /\ TypeOK /\ build[b] \in Build /\ t \in Tags /\ BuildOK(build[b])
      /\ tags \in [Tags -> Images \cup {NoImage}] /\ served \subseteq Tags
  BY DEF ImagesInv, TypeOK, Build, BuildInv
<1>1. UNCHANGED <<src, file, repo, job, victims>> /\ noise' \in 0..MaxNoise
  BY Noise DEF CheckImage, DockerPush, BuildFrame, ecrVars, devVars, ImagesInv, Fails
<1>2. build' \in [Builders -> Build] /\ BuildInv'
  <2>1. \E new \in Build : BuildOK(new) /\ build' = [build EXCEPT ![b] = new]
    <3>1. CASE BuildEnds(b)
      BY <3>1, Facts DEF BuildEnds, BuildOK
    <3>2. CASE build[b].pc = "check" /\ BuildGoes(b, "describe")
      BY <3>2, BuildGoesOn
    <3>3. QED
      BY <3>1, <3>2 DEF CheckImage, DockerPush
  <2>2. QED
    BY <1>1, <2>1, BuildSet
<1>3. CASE CheckImage(b)
  <2>1. UNCHANGED <<tags, aged>> /\ (served' = served \/ (served' = served \cup {t} /\ Exists(t)))
    BY <1>3 DEF CheckImage, Serves, ecrVars
  <2>2. TypeOK'
    BY <1>0, <1>1, <1>2, <2>1 DEF TypeOK
  <2>3. ServedInv'
    BY <2>1 DEF ImagesInv, ServedInv, Exists
  <2>4. QED
    BY <1>1, <1>2, <2>1, <2>2, <2>3, Frames DEF ImagesInv
<1>4. CASE DockerPush(b)
  <2>1. CASE UNCHANGED <<tags, aged, served>>
    <3>1. TypeOK'
      BY <1>0, <1>1, <1>2, <2>1 DEF TypeOK
    <3>2. QED
      BY <1>1, <1>2, <2>1, <3>1, Frames DEF ImagesInv
  <2>2. CASE /\ tags' = [tags EXCEPT ![t] = build[b].image]
             /\ aged' \in {aged, aged \ {build[b].image}}
             /\ served' = served \/ served' = served \cup {t}
    <3>1. /\ build[b].image \in Images /\ build[b].image # NoImage /\ t[1] <= file.stamp
          /\ t[2] \in Archs => Fits(t, build[b].image)
      BY <1>0, <1>4, Facts DEF DockerPush, BuildOK
    <3>2. \A u \in Tags : tags'[u] = IF u = t THEN build[b].image ELSE tags[u]
      BY <1>0, <2>2
    <3>3. TypeOK'
      <4>1. aged' \subseteq Images /\ served' \subseteq Tags
        BY <1>0, <2>2 DEF TypeOK
      <4>2. QED
        BY <1>0, <1>1, <1>2, <2>2, <3>1, <4>1 DEF TypeOK
    <3>4. TagInv'
      <4>1. ASSUME NEW u \in Tags, Exists(u)'
            PROVE  u[1] <= file.stamp /\ (u[2] \in Archs => Fits(u, tags'[u]))
        BY <3>1, <3>2, <4>1 DEF ImagesInv, TagInv, Exists
      <4>2. QED
        BY <1>1, <4>1 DEF TagInv, Fits
    <3>5. ServedInv'
      BY <1>0, <2>2, <3>1, <3>2 DEF ImagesInv, ServedInv, Exists
    <3>6. QED
      BY <1>1, <1>2, <3>3, <3>4, <3>5, Frames DEF ImagesInv
  <2>3. QED
    BY <1>4, <2>1, <2>2 DEF DockerPush, Serves
<1>5. QED
  BY <1>3, <1>4

\* A program that runs a job.
LEMMA JobStep ==
  ASSUME ImagesInv, NEW j \in Jobs,
         JobCheckImage(j) \/ \E api \in {"map", "submit"} : JobBegin(j, api)
  PROVE  ImagesInv'
<1>0. /\ job \in [Jobs -> Job] /\ job[j] \in Job /\ JobOK(job[j])
      /\ file \in [stamp : Stamps, code : Codes] /\ Stamps \subseteq Nat
      /\ file.stamp \in Stamps /\ file.code \in Codes
  BY DEF ImagesInv, TypeOK, JobInv, Stamps
<1>a. \A n \in Stamps : n <= n
  BY DEF Stamps
<1>1. UNCHANGED <<src, file, repo, tags, aged, build, victims, served>> /\ noise' \in 0..MaxNoise
  BY Noise DEF JobCheckImage, JobBegin, JobFrame, devVars, ecrVars, ImagesInv, Fails
<1>2. ASSUME NEW how \in {"refused", "failed"}, JobEnds(j, how)
      PROVE  \E new \in Job : JobOK(new) /\ job' = [job EXCEPT ![j] = new]
  <2> DEFINE new == [NoJob EXCEPT !.pc = how]
  <2>1. new \in Job /\ new.pc = how
    BY Facts DEF Job
  <2>2. job' = [job EXCEPT ![j] = new] /\ JobOK(new)
    BY <1>2, <2>1 DEF JobEnds, JobOK
  <2>3. QED
    BY <2>1, <2>2
<1>3. ASSUME NEW api \in {"map", "submit"}, JobBegin(j, api)
      PROVE  \E new \in Job : JobOK(new) /\ job' = [job EXCEPT ![j] = new]
  <2>1. PICK arch \in Archs :
          job' = [job EXCEPT ![j] =
                    [NoJob EXCEPT !.pc = "begun", !.api = api, !.arch = arch,
                                  !.born = file.stamp, !.code = file.code]]
    BY <1>3 DEF JobBegin, DefaultArch, Archs
  <2> DEFINE new == [NoJob EXCEPT !.pc = "begun", !.api = api, !.arch = arch,
                                  !.born = file.stamp, !.code = file.code]
  <2>2. /\ new \in Job /\ new.pc = "begun" /\ new.arch \in Archs
        /\ new.born = file.stamp /\ new.code = file.code
    BY <1>0, Facts DEF Job
  <2>3. file.stamp <= file.stamp
    BY <1>0, <1>a
  <2>4. JobOK(new)
    <3> HIDE DEF new
    <3> QED BY <2>2, <2>3 DEF JobOK
  <2>5. QED
    BY <2>1, <2>2, <2>4
<1>4. ASSUME JobCheckImage(j)
      PROVE  \E new \in Job : JobOK(new) /\ job' = [job EXCEPT ![j] = new]
  <2> DEFINE t == TagOf(job[j].api, EnvHash, job[j].arch)
             new == [job[j] EXCEPT !.pc = "launched", !.tag = t]
  <2>1. ASSUME job[j].pc = "begun", job' = [job EXCEPT ![j] = new]
        PROVE  new \in Job /\ JobOK(new)
    <3>1. /\ job[j].arch \in Archs /\ job[j].born <= file.stamp
          /\ job[j].born = file.stamp => job[j].code = file.code
      BY <1>0, <2>1 DEF JobOK
    <3>2. /\ t \in Tags /\ t[1] = file.stamp
          /\ job[j].api # "submit" => t[2] = job[j].arch
      BY <1>0, <3>1 DEF TagOf, SubmitTag, MapTag, EnvHash, Tags
    <3>3. /\ new \in Job /\ new.pc = "launched" /\ new.tag = t /\ new.api = job[j].api
          /\ new.arch = job[j].arch /\ new.born = job[j].born /\ new.code = job[j].code
      <4> HIDE DEF t
      <4> QED BY <1>0, <3>2 DEF Job
    <3>4. file.stamp <= file.stamp
      BY <1>0, <1>a
    <3>5. JobOK(new)
      <4> HIDE DEF new, t
      <4> QED BY <3>1, <3>2, <3>3, <3>4 DEF JobOK
    <3>6. QED
      BY <3>3, <3>5
  <2>2. \/ job[j].pc = "begun" /\ job' = [job EXCEPT ![j] = new]
        \/ JobEnds(j, "refused") \/ JobEnds(j, "failed")
    BY <1>4 DEF JobCheckImage
  <2> HIDE DEF new
  <2>3. CASE job[j].pc = "begun" /\ job' = [job EXCEPT ![j] = new]
    BY <2>1, <2>3
  <2>4. CASE JobEnds(j, "refused") \/ JobEnds(j, "failed")
    BY <1>2, <2>4
  <2>5. QED
    BY <2>2, <2>3, <2>4
<1>5. PICK new \in Job : JobOK(new) /\ job' = [job EXCEPT ![j] = new]
  BY <1>2, <1>3, <1>4
<1>6. job' \in [Jobs -> Job] /\ \A k \in Jobs : JobOK(job'[k])
  BY <1>0, <1>5 DEF ImagesInv, JobInv
<1>7. JobInv'
  BY <1>1, <1>6 DEF JobInv, JobOK
<1>8. TypeOK'
  BY <1>1, <1>6 DEF ImagesInv, TypeOK
<1>9. QED
  BY <1>1, <1>7, <1>8, Frames DEF ImagesInv

\* What deletes images only takes tags away, and no Setup answers for those.
LEMMA DeleteStep ==
  ASSUME ImagesInv, PruneDelete \/ Teardown
  PROVE  ImagesInv'
<1>0. /\ TypeOK /\ tags \in [Tags -> Images \cup {NoImage}] /\ served \subseteq Tags
      /\ aged \subseteq Images /\ victims \subseteq Images /\ NoImage \notin Images
  BY Facts DEF ImagesInv, TypeOK
<1>1. /\ UNCHANGED <<src, file, build, job>> /\ noise' \in 0..MaxNoise
      /\ repo' \in BOOLEAN /\ victims' \subseteq victims
      /\ \E images \in SUBSET Images : Deletes(images)
  <2>1. CASE PruneDelete
    BY <1>0, <2>1, Noise DEF PruneDelete, devVars, Fails, ImagesInv, TypeOK
  <2>2. CASE Teardown
    BY <1>0, <2>2, Noise DEF Teardown, devVars, ImagesInv
  <2>3. QED
    BY <2>1, <2>2
<1>2. PICK images \in SUBSET Images : Deletes(images)
  BY <1>1
<1>3. /\ aged' \subseteq aged /\ served' \subseteq served
      /\ tags' \in [Tags -> Images \cup {NoImage}]
      /\ \A t \in Tags : Exists(t)' => tags'[t] = tags[t] /\ Exists(t)
      /\ \A t \in served' : Exists(t) => Exists(t)'
  BY <1>0, <1>2 DEF Deletes, Exists
<1>4. TypeOK'
  BY <1>0, <1>1, <1>3 DEF TypeOK
<1>5. TagInv'
  BY <1>1, <1>3 DEF ImagesInv, TagInv, Fits
<1>6. ServedInv'
  BY <1>3 DEF ImagesInv, ServedInv
<1>7. QED
  BY <1>1, <1>4, <1>5, <1>6, Frames DEF ImagesInv

\* What only looks at the registry, and time, leave the tags alone.
LEMMA QuietStep ==
  ASSUME ImagesInv, Age \/ PruneList \/ PruneStops \/ UNCHANGED vars
  PROVE  ImagesInv'
<1>1. TypeOK /\ NoImage \notin Images
  BY Facts DEF ImagesInv
<1>2. /\ UNCHANGED <<src, file, repo, tags, build, job, served>> /\ noise' \in 0..MaxNoise
      /\ aged' \subseteq Images /\ victims' \subseteq Images
  <2>1. CASE Age
    BY <1>1, <2>1, Noise DEF Age, Exists, TypeOK, devVars
  <2>2. CASE PruneList
    BY <1>1, <2>2, Noise DEF PruneList, TypeOK, devVars, ecrVars
  <2>3. CASE PruneStops
    BY <1>1, <2>3, Noise DEF PruneStops, TypeOK, devVars, ecrVars, Fails
  <2>4. CASE UNCHANGED vars
    BY <1>1, <2>4 DEF TypeOK, vars, devVars, ecrVars
  <2>5. QED
    BY <2>1, <2>2, <2>3, <2>4
<1>3. TypeOK'
  BY <1>1, <1>2 DEF TypeOK
<1>4. QED
  BY <1>2, <1>3, Frames DEF ImagesInv

LEMMA StepImages == ImagesInv /\ [Next]_vars => ImagesInv'
<1> SUFFICES ASSUME ImagesInv, [Next]_vars PROVE ImagesInv'
  OBVIOUS
<1>1. CASE Edit \/ Compile
  BY <1>1, DevStep
<1>2. CASE PruneDelete \/ Teardown
  BY <1>2, DeleteStep
<1>3. CASE Age \/ PruneList \/ PruneStops \/ UNCHANGED vars
  BY <1>3, QuietStep
<1>4. ASSUME NEW b \in Builders,
             SetupStart(b) \/ ImageBuildStart(b) \/ BuildStops(b) \/ BuildStep(b)
      PROVE  ImagesInv'
  <2>1. CASE SetupStart(b) \/ ImageBuildStart(b) \/ BuildStops(b)
    BY <2>1, BuildStart
  <2>2. CASE DescribeRepository(b) \/ CreateRepository(b)
    BY <2>2, BuildRepository
  <2>3. CASE TakeBinary(b)
    BY <2>3, BuildTake
  <2>4. CASE DockerBuild(b)
    BY <2>4, BuildDocker
  <2>5. CASE CheckImage(b) \/ DockerPush(b)
    BY <2>5, BuildPush
  <2>6. QED
    BY <1>4, <2>1, <2>2, <2>3, <2>4, <2>5 DEF BuildStep
<1>5. ASSUME NEW j \in Jobs,
             JobCheckImage(j) \/ \E api \in {"map", "submit"} : JobBegin(j, api)
      PROVE  ImagesInv'
  BY <1>5, JobStep
<1>6. QED
  BY <1>1, <1>2, <1>3, <1>4, <1>5 DEF Next

LEMMA ImagesAlways == Spec => []ImagesInv
<1>1. QED
  BY InitImages, StepImages, PTL DEF Spec

\* The variables keep their types, whatever is edited, built and deleted.
THEOREM ImagesTypes == Spec => []TypeOK
<1>1. ImagesInv => TypeOK
  BY DEF ImagesInv
<1>2. QED
  BY <1>1, ImagesAlways, PTL

\* With any number of builders, jobs and deletions, the containers of a Map
\* whose binary is still there run its code on its architecture.
THEOREM JobRunsCallersCodeAlways == Spec => []JobRunsCallersCode
<1>1. ASSUME ImagesInv, NEW j \in Jobs, Looks(j), file.stamp = job[j].born,
             NEW image \in Pulls(j)
      PROVE  /\ image.arch = job[j].arch /\ image.code >= job[j].code
             /\ image.arch = NativeArch => image.code = job[j].code
  <2> DEFINE t == job[j].tag
  <2>1. job[j].pc = "launched" /\ t \in Tags /\ image = tags[t] /\ Exists(t)
    BY <1>1 DEF Pulls, Exists, ImagesInv, TypeOK, Job
  <2>2. /\ job[j].arch \in Archs /\ job[j].code = file.code /\ t[2] = job[j].arch
        /\ file.stamp <= t[1] /\ t[1] <= file.stamp
    BY <1>1, <2>1 DEF ImagesInv, JobInv, JobOK, Looks
  <2>3. t[1] = file.stamp
    <3>1. t[1] \in Nat /\ file.stamp \in Nat
      BY <1>1, <2>1, TagParts, ImagesAssumption DEF Stamps, ImagesInv, TypeOK
    <3>2. QED
      BY <2>2, <3>1
  <2>4. Fits(t, tags[t])
    BY <1>1, <2>1, <2>2 DEF ImagesInv, TagInv
  <2>5. QED
    BY <2>1, <2>2, <2>3, <2>4 DEF Fits
<1>2. ImagesInv => JobRunsCallersCode
  BY <1>1 DEF JobRunsCallersCode
<1>3. QED
  BY <1>2, ImagesAlways, PTL

\* A Map is refused only when no Setup answers for its image.
THEOREM SetupServesMapAlways == Spec => SetupServesMap
<1> DEFINE Refusal(j) ==
      job[j].pc # "refused" /\ job'[j].pc = "refused" /\ Looks(j)
        => SetupTag(EnvHash, job[j].arch) \notin served
<1>1. ASSUME ImagesInv, [Next]_vars, NEW j \in Jobs,
             job[j].pc # "refused", job'[j].pc = "refused", Looks(j)
      PROVE  SetupTag(EnvHash, job[j].arch) \notin served
  <2>0. job \in [Jobs -> Job]
    BY <1>1 DEF ImagesInv, TypeOK
  <2>1. PICK k \in Jobs : JobCheckImage(k) \/ \E api \in {"map", "submit"} : JobBegin(k, api)
    <3>1. job' # job
      BY <1>1
    <3>2. ASSUME NEW b \in Builders, BuildStep(b) PROVE job' = job
      BY <3>2 DEF BuildStep, CheckImage, DescribeRepository, CreateRepository, TakeBinary,
                  DockerBuild, DockerPush, BuildFrame
    <3>3. ASSUME NEW b \in Builders, SetupStart(b) \/ ImageBuildStart(b) \/ BuildStops(b)
          PROVE  job' = job
      BY <3>3 DEF SetupStart, ImageBuildStart, BuildStops, BuildFrame
    <3>4. Edit \/ Compile \/ Age \/ PruneList \/ PruneDelete \/ PruneStops \/ Teardown
            \/ UNCHANGED vars => job' = job
      BY DEF Edit, Compile, DevFrame, Age, PruneList, PruneDelete, PruneStops, Teardown, vars
    <3>5. QED
      BY <1>1, <3>1, <3>2, <3>3, <3>4 DEF Next
  <2>2. ASSUME NEW api \in {"map", "submit"}, JobBegin(k, api) PROVE FALSE
    <3>1. \E r : r.pc = "begun" /\ job' = [job EXCEPT ![k] = r]
      BY <2>2 DEF JobBegin, NoJob
    <3>2. QED
      BY <1>1, <2>0, <3>1
  <2>3. k = j /\ ~Exists(TagOf(job[j].api, EnvHash, job[j].arch))
    <3>1. \/ ~Exists(TagOf(job[k].api, EnvHash, job[k].arch)) /\ JobEnds(k, "refused")
          \/ JobEnds(k, "failed")
          \/ \E r : r.pc = "launched" /\ job' = [job EXCEPT ![k] = r]
      BY <2>0, <2>1, <2>2 DEF JobCheckImage, Job
    <3>2. CASE JobEnds(k, "failed")
      BY <1>1, <2>0, <3>2 DEF JobEnds, NoJob
    <3>3. CASE JobEnds(k, "refused")
      BY <1>1, <2>0, <3>1, <3>3 DEF JobEnds, NoJob
    <3>4. CASE \E r : r.pc = "launched" /\ job' = [job EXCEPT ![k] = r]
      BY <1>1, <2>0, <3>4
    <3>5. QED
      BY <3>1, <3>2, <3>3, <3>4
  <2>4. ~Exists(SetupTag(EnvHash, job[j].arch))
    BY <1>1, <2>3 DEF TagOf, MapTag, SetupTag, Looks
  <2>5. QED
    BY <1>1, <2>4 DEF ImagesInv, ServedInv
<1>2. ImagesInv /\ [Next]_vars => [\A j \in Jobs : Refusal(j)]_vars
  BY <1>1
<1>3. QED
  BY <1>2, ImagesAlways, PTL DEF Spec, SetupServesMap

=============================================================================
