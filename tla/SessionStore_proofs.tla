------------------------- MODULE SessionStore_proofs -------------------------
(***************************************************************************)
(* Proofs about SessionStore: for any number of sessions and of sweeps,    *)
(* any limits and any bound on the time that submissions and sweeps take,  *)
(* what a sweep spares and what it deletes.                                *)
(***************************************************************************)
EXTENDS SessionStore, TLAPS

(* Types.                                                                  *)

\* What a sweep deletes at is a session.
AtSome == \A w \in Sweepers : sweep[w].pc \in {"objects", "delete"} => sweep[w].at \in Sessions

TypeInv == TypeOK /\ AtSome

\* A step of a program leaves the sweeps, and the types, as they are.
LEMMA ProgramTypes ==
  ASSUME TypeOK, NEW s \in Sessions, Program(s)
  PROVE  TypeOK' /\ sweep' = sweep /\ now' = now
<1>1. CASE Begin(s)
  BY <1>1 DEF TypeOK, Begin, At, Goto, Frame, Well, storeVars
<1>2. CASE WriteInitial(s)
  BY <1>2 DEF TypeOK, WriteInitial, At, Goto, Frame, Well, Statuses
<1>3. CASE UploadTasks(s)
  BY <1>3 DEF TypeOK, UploadTasks, At, Goto, Frame, Well
<1>4. CASE MarkRunning(s)
  BY <1>4, StoreAssumption DEF TypeOK, MarkRunning, At, Goto, Frame, Well, Fails, Statuses
<1>5. CASE LaunchWorkers(s)
  BY <1>5 DEF TypeOK, LaunchWorkers, At, Goto, Frame, Well, storeVars
<1>6. CASE MarkComplete(s)
  BY <1>6, StoreAssumption DEF TypeOK, MarkComplete, At, Goto, Frame, Well, Fails, Statuses
<1>7. CASE CleanupTaskFiles(s)
  BY <1>7, StoreAssumption DEF TypeOK, CleanupTaskFiles, At, Goto, Frame, Well, Fails
<1>8. CASE Stops(s)
  BY <1>8 DEF TypeOK, Stops, At, Goto, Frame, Well, storeVars
<1>9. CASE WorkersWrite(s)
  BY <1>9 DEF TypeOK, WorkersWrite, Frame, Well
<1>10. CASE WorkersEnd(s)
  BY <1>10 DEF TypeOK, WorkersEnd, Frame, Well, storeVars
<1>11. QED
  BY <1>1, <1>2, <1>3, <1>4, <1>5, <1>6, <1>7, <1>8, <1>9, <1>10 DEF Program

\* A step of a sweep leaves the programs as they are, only deletes, and changes
\* no other sweep.
LEMMA SweepTypes ==
  ASSUME TypeInv, NEW w \in Sweepers, Sweeps(w)
  PROVE  /\ TypeInv' /\ UNCHANGED <<now, ownerVars>>
         /\ \A v \in Sweepers : v # w => sweep'[v] = sweep[v]
<1> DEFINE Good == /\ \E new \in Sweep :
                        /\ Becomes(w, new)
                        /\ new.pc \in {"objects", "delete"} => new.at \in Sessions
                   /\ faults' \in 0..MaxFaults
                   /\ manifest' \in [Sessions -> Statuses] /\ files' \subseteq Sessions
                   /\ UNCHANGED <<now, ownerVars>>
<1>0. /\ NoSweep \in Sweep /\ sweep[w] \in Sweep /\ faults \in 0..MaxFaults
      /\ manifest \in [Sessions -> Statuses] /\ files \subseteq Sessions
      /\ now \in 0..MaxTime /\ sweep \in [Sweepers -> Sweep]
      /\ sweep[w].pc \in {"objects", "delete"} => sweep[w].at \in Sessions
  BY StoreAssumption DEF NoSweep, Sweep, Statuses, TypeInv, TypeOK, AtSome
<1>1. Good
  <2> USE DEF Well, Fails, SweepFrame, storeVars
  <2>1. CASE BeginSweep(w)
    <3>1. PICK force \in BOOLEAN, days \in Limits :
            Becomes(w, [sweep[w] EXCEPT !.pc = "list", !.force = force, !.days = days,
                                        !.began = now])
      BY <2>1 DEF BeginSweep
    <3> DEFINE new == [sweep[w] EXCEPT !.pc = "list", !.force = force, !.days = days,
                                       !.began = now]
    <3>2. new \in Sweep /\ new.pc = "list"
      BY <1>0 DEF Sweep
    <3>3. QED
      BY <1>0, <2>1, <3>1, <3>2 DEF BeginSweep
  <2>2. CASE ListSessions(w)
    <3> DEFINE listed == {s \in Sessions : manifest[s] # "none"} \cup files
               new == [sweep[w] EXCEPT !.pc = "read", !.due = Due(w), !.unread = listed]
               broken == [NoSweep EXCEPT !.pc = "over", !.failed = Sessions]
    <3>1. listed \subseteq Sessions /\ Due(w) \subseteq Sessions
      BY <1>0 DEF Due
    <3>2. /\ new \in Sweep /\ new.pc = "read"
          /\ broken \in Sweep /\ broken.pc = "over"
      <4> HIDE DEF listed
      <4> QED BY <1>0, <3>1 DEF Sweep
    <3>3. Becomes(w, new) \/ Becomes(w, broken)
      BY <2>2 DEF ListSessions
    <3>4. QED
      <4> HIDE DEF new, broken
      <4> QED BY <1>0, <2>2, <3>2, <3>3, StoreAssumption DEF ListSessions
  <2>3. CASE ReadAll(w)
    <3> DEFINE new == [sweep[w] EXCEPT !.pc = "choose"]
    <3>1. new \in Sweep /\ new.pc = "choose"
      BY <1>0 DEF Sweep
    <3>2. QED
      BY <1>0, <2>3, <3>1 DEF ReadAll
  <2>4. CASE EndSweep(w)
    <3> DEFINE new == [NoSweep EXCEPT !.pc = "over", !.failed = sweep[w].failed,
                                      !.due = sweep[w].due]
    <3>1. new \in Sweep /\ new.pc = "over"
      BY <1>0 DEF Sweep
    <3>2. QED
      BY <1>0, <2>4, <3>1 DEF EndSweep
  <2>5. ASSUME NEW s \in Sessions, ReadManifest(w, s)
        PROVE  Good
    <3> DEFINE read == [sweep[w] EXCEPT !.unread = @ \ {s}]
               failed == [read EXCEPT !.failed = @ \cup {s}]
               new == [read EXCEPT !.seen[s] = manifest[s], !.left = @ \cup {s}]
    <3>1. /\ read \in Sweep /\ failed \in Sweep /\ new \in Sweep
          /\ sweep[w].pc = "read" => read.pc = "read" /\ failed.pc = "read" /\ new.pc = "read"
      BY <1>0 DEF Sweep
    <3>2. Becomes(w, new) \/ Becomes(w, read) \/ Becomes(w, failed)
      BY <2>5 DEF ReadManifest
    <3>3. QED
      <4> HIDE DEF new, read, failed
      <4> QED BY <1>0, <2>5, <3>1, <3>2, StoreAssumption DEF ReadManifest
  <2>6. ASSUME NEW s \in Sessions, Consider(w, s)
        PROVE  Good
    <3> DEFINE next == [sweep[w] EXCEPT !.left = @ \ {s}, !.seen[s] = "none"]
               new == [next EXCEPT !.pc = "objects", !.at = s]
    <3>1. /\ next \in Sweep /\ new \in Sweep /\ new.at = s
          /\ sweep[w].pc = "choose" => next.pc = "choose"
      BY <1>0 DEF Sweep, Statuses
    <3>2. Becomes(w, new) \/ Becomes(w, next)
      BY <2>6 DEF Consider
    <3>3. QED
      <4> HIDE DEF new, next
      <4> QED BY <1>0, <2>6, <3>1, <3>2 DEF Consider
  <2>7. ASSUME NEW failed \in SUBSET Sessions, GoOn(w, failed)
        PROVE  \E new \in Sweep : Becomes(w, new) /\ new.pc = "choose"
    <3> DEFINE new == [sweep[w] EXCEPT !.pc = "choose", !.at = NoSession, !.keys = {},
                                       !.failed = @ \cup failed]
    <3>1. new \in Sweep /\ new.pc = "choose"
      BY <1>0 DEF Sweep
    <3>2. QED
      BY <2>7, <3>1 DEF GoOn
  <2>8. CASE ListObjects(w)
    <3> DEFINE s == sweep[w].at
               keys == Present(s)
               new == [sweep[w] EXCEPT !.pc = "delete", !.keys = keys]
    <3>1. s \in Sessions
      BY <1>0, <2>8 DEF ListObjects
    <3>2. new \in Sweep /\ new.at = s
      BY <1>0 DEF Sweep, Present
    <3>3. Becomes(w, new) \/ GoOn(w, {}) \/ GoOn(w, {s})
      BY <2>8 DEF ListObjects
    <3>4. \E n \in Sweep : Becomes(w, n) /\ (n.pc \in {"objects", "delete"} => n.at \in Sessions)
      <4> HIDE DEF new, s
      <4>1. CASE Becomes(w, new)
        BY <4>1, <3>1, <3>2
      <4>2. CASE GoOn(w, {})
        BY <4>2, <2>7
      <4>3. CASE GoOn(w, {s})
        BY <4>3, <2>7, <3>1
      <4>4. QED
        BY <3>3, <4>1, <4>2, <4>3
    <3>5. faults' \in 0..MaxFaults /\ UNCHANGED <<storeVars, now, ownerVars>>
      BY <1>0, <2>8, StoreAssumption DEF ListObjects
    <3>6. QED
      BY <1>0, <3>4, <3>5
  <2>9. CASE DeleteObjects(w)
    <3> DEFINE s == sweep[w].at
    <3>1. s \in Sessions
      BY <1>0, <2>9 DEF DeleteObjects
    <3>2. GoOn(w, {}) \/ GoOn(w, {s})
      BY <2>9 DEF DeleteObjects
    <3>3. \E n \in Sweep : Becomes(w, n) /\ (n.pc \in {"objects", "delete"} => n.at \in Sessions)
      <4> HIDE DEF s
      <4>1. CASE GoOn(w, {})
        BY <4>1, <2>7
      <4>2. CASE GoOn(w, {s})
        BY <4>2, <2>7, <3>1
      <4>3. QED
        BY <3>2, <4>1, <4>2
    <3>4. /\ faults' \in 0..MaxFaults /\ manifest' \in [Sessions -> Statuses]
          /\ files' \subseteq Sessions /\ UNCHANGED <<now, ownerVars>>
      BY <1>0, <2>9, StoreAssumption DEF DeleteObjects, Statuses
    <3>5. QED
      BY <3>3, <3>4
  <2>10. QED
    BY <2>1, <2>2, <2>3, <2>4, <2>5, <2>6, <2>8, <2>9 DEF Sweeps
<1>2. PICK new \in Sweep : /\ Becomes(w, new)
                           /\ new.pc \in {"objects", "delete"} => new.at \in Sessions
  BY <1>1
<1>3. sweep' \in [Sweepers -> Sweep] /\ sweep'[w] = new
      /\ \A v \in Sweepers : v # w => sweep'[v] = sweep[v]
  BY <1>0, <1>2 DEF Becomes
<1>4. AtSome'
  BY <1>2, <1>3 DEF AtSome, TypeInv
<1>5. QED
  BY <1>1, <1>3, <1>4 DEF TypeInv, TypeOK, ownerVars

LEMMA InitTypes == Init => TypeInv
BY StoreAssumption DEF Init, TypeInv, TypeOK, AtSome, NoSweep, Sweep, Statuses

LEMMA TickTypes == TypeInv /\ Tick => TypeInv'
BY StoreAssumption DEF TypeInv, TypeOK, AtSome, Tick, ownerVars, storeVars

LEMMA StutterTypes == TypeInv /\ UNCHANGED vars => TypeInv'
BY DEF TypeInv, TypeOK, AtSome, vars, ownerVars, storeVars

LEMMA StepTypes == TypeInv /\ [Next]_vars => TypeInv'
<1>1. ASSUME TypeInv, NEW s \in Sessions, Program(s)
      PROVE  TypeInv'
  BY <1>1, ProgramTypes DEF TypeInv, AtSome
<1>2. QED
  BY <1>1, SweepTypes, TickTypes, StutterTypes DEF Next

\* Type correctness of the sessions of a bucket and of the sweeps over them.
THEOREM StoreTypes == Spec => []TypeOK
<1>1. TypeInv => TypeOK
  BY DEF TypeInv
<1>2. QED
  BY <1>1, InitTypes, StepTypes, PTL DEF Spec
-----------------------------------------------------------------------------
(* What a sweep spares.                                                    *)

\* What the manifest says while the program goes on, unless it was deleted.
OwnerInv ==
  \A s \in Sessions :
    /\ owner[s] \in {"idle", "begun"} => manifest[s] = "none"
    /\ owner[s] \in {"written", "uploaded", "launched"} => manifest[s] \in {"none", "initializing"}
    /\ owner[s] \in {"marked", "working", "detached"} /\ s \notin lost
         => manifest[s] \in {"none", "running"}

\* What is assumed of time.
TimeInv ==
  /\ \A s \in Sessions : Submitting(s) => created[s] <= now /\ now <= created[s] + MaxSubmit
  /\ \A w \in Sweepers : Sweeping(w) => sweep[w].began <= now /\ now <= sweep[w].began + MaxSweep

Started(s) == owner[s] \notin {"idle", "begun"}

\* What a sweep has read of a session that is in use is its last status, or it
\* is old, but not older than the sweep.
SeenInv ==
  \A w \in Sweepers : \A s \in sweep[w].left :
    /\ sweep[w].pc \in {"read", "choose", "objects", "delete"}
    /\ Started(s)
    /\ InUse(s) /\ s \notin lost =>
         \/ sweep[w].seen[s] = "running"
         \/ /\ sweep[w].seen[s] = "initializing"
            /\ sweep[w].began <= created[s] + MaxSubmit

\* What a sweep deletes is in use only if its manifest was never marked.
AtInv ==
  \A w \in Sweepers : LET s == sweep[w].at IN
    sweep[w].pc \in {"objects", "delete"} =>
      /\ s \in Sessions /\ Started(s)
      /\ ~sweep[w].force /\ SafeLimit(sweep[w].days) /\ InUse(s) => s \in lost

SpareInv == TypeInv /\ OwnerInv /\ TimeInv /\ SeenInv /\ AtInv

\* A duration that does not overflow is what was asked for.
LEMMA SafeDuration ==
  ASSUME NEW days \in Limits \cup {0}, SafeLimit(days)
  PROVE  ParseDuration(days) = days * Day
<1> DEFINE x == days * Day
           h == Wrap \div 2
<1>1. days \in Int /\ x \in Int /\ Wrap \in Nat /\ Wrap > 0 /\ MaxSubmit + MaxSweep \in Nat
  BY StoreAssumption
<1>2. h \in Nat /\ 2 * h <= Wrap
  BY <1>1
<1>3. x > 0 /\ 2 * x < Wrap
  <2>1. days \in Int /\ Day \in Int
    BY StoreAssumption
  <2>2. 2 * days * Day = 2 * (days * Day)
    BY <2>1
  <2>3. x > MaxSubmit + MaxSweep /\ 2 * x < Wrap
    BY <2>2 DEF SafeLimit
  <2> HIDE DEF x
  <2>4. QED
    BY <1>1, <2>3
<1> HIDE DEF x, h
<1>4. x + h \in Nat /\ x + h < Wrap
  BY <1>1, <1>2, <1>3
<1>5. (x + h) % Wrap = x + h
  BY <1>1, <1>4
<1>6. ((x + h) % Wrap) - h = x
  BY <1>1, <1>2, <1>5
<1>7. QED
  BY <1>6 DEF ParseDuration, x, h

\* A program goes forward: once it has started it does not come into use again,
\* and its time of creation stands.
LEMMA ProgramForward ==
  ASSUME TypeOK, NEW s \in Sessions, Program(s)
  PROVE  /\ lost \subseteq lost'
         /\ \A u \in Sessions : Started(u) =>
              /\ Started(u)' /\ created'[u] = created[u]
              /\ InUse(u)' => InUse(u)
<1> USE DEF TypeOK, At, Goto, Frame, Well, Started, InUse
<1>1. CASE Begin(s)
  BY <1>1 DEF Begin
<1>2. CASE WriteInitial(s)
  BY <1>2 DEF WriteInitial
<1>3. CASE UploadTasks(s)
  BY <1>3 DEF UploadTasks
<1>4. CASE MarkRunning(s)
  BY <1>4 DEF MarkRunning
<1>5. CASE LaunchWorkers(s)
  BY <1>5 DEF LaunchWorkers
<1>6. CASE MarkComplete(s)
  BY <1>6 DEF MarkComplete
<1>7. CASE CleanupTaskFiles(s)
  BY <1>7 DEF CleanupTaskFiles
<1>8. CASE Stops(s)
  BY <1>8 DEF Stops
<1>9. CASE WorkersWrite(s)
  BY <1>9 DEF WorkersWrite
<1>10. CASE WorkersEnd(s)
  BY <1>10 DEF WorkersEnd
<1>11. QED
  BY <1>1, <1>2, <1>3, <1>4, <1>5, <1>6, <1>7, <1>8, <1>9, <1>10 DEF Program

LEMMA ProgramOwner ==
  ASSUME TypeOK, OwnerInv, NEW s \in Sessions, Program(s)
  PROVE  OwnerInv'
<1> USE DEF TypeOK, At, Goto, Frame, Well, OwnerInv
<1>1. CASE Begin(s)
  BY <1>1 DEF Begin, storeVars
<1>2. CASE WriteInitial(s)
  BY <1>2 DEF WriteInitial
<1>3. CASE UploadTasks(s)
  BY <1>3 DEF UploadTasks
<1>4. CASE MarkRunning(s)
  BY <1>4 DEF MarkRunning
<1>5. CASE LaunchWorkers(s)
  BY <1>5 DEF LaunchWorkers, storeVars
<1>6. CASE MarkComplete(s)
  BY <1>6 DEF MarkComplete
<1>7. CASE CleanupTaskFiles(s)
  BY <1>7 DEF CleanupTaskFiles
<1>8. CASE Stops(s)
  BY <1>8 DEF Stops, storeVars
<1>9. CASE WorkersWrite(s)
  BY <1>9 DEF WorkersWrite
<1>10. CASE WorkersEnd(s)
  BY <1>10 DEF WorkersEnd, storeVars
<1>11. QED
  BY <1>1, <1>2, <1>3, <1>4, <1>5, <1>6, <1>7, <1>8, <1>9, <1>10 DEF Program

LEMMA ProgramTime ==
  ASSUME TypeOK, TimeInv, NEW s \in Sessions, Program(s)
  PROVE  TimeInv'
<1>1. sweep' = sweep /\ now' = now
  BY ProgramTypes
<1>2. \A w \in Sweepers : Sweeping(w)' => sweep[w].began <= now /\ now <= sweep[w].began + MaxSweep
  BY <1>1 DEF TimeInv, Sweeping
<1>3. ASSUME NEW u \in Sessions, Submitting(u)'
      PROVE  created'[u] <= now /\ now <= created'[u] + MaxSubmit
  <2>1. \/ Submitting(u) /\ created'[u] = created[u]
        \/ created'[u] = now
    <3> USE <1>3 DEF TypeOK, At, Goto, Frame, Well, Submitting
    <3>1. CASE Begin(s)
      BY <3>1 DEF Begin
    <3>2. CASE WriteInitial(s)
      BY <3>2 DEF WriteInitial
    <3>3. CASE UploadTasks(s)
      BY <3>3 DEF UploadTasks
    <3>4. CASE MarkRunning(s)
      BY <3>4 DEF MarkRunning
    <3>5. CASE LaunchWorkers(s)
      BY <3>5 DEF LaunchWorkers
    <3>6. CASE MarkComplete(s)
      BY <3>6 DEF MarkComplete
    <3>7. CASE CleanupTaskFiles(s)
      BY <3>7 DEF CleanupTaskFiles
    <3>8. CASE Stops(s)
      BY <3>8 DEF Stops
    <3>9. CASE WorkersWrite(s)
      BY <3>9 DEF WorkersWrite
    <3>10. CASE WorkersEnd(s)
      BY <3>10 DEF WorkersEnd
    <3>11. QED
      BY <3>1, <3>2, <3>3, <3>4, <3>5, <3>6, <3>7, <3>8, <3>9, <3>10 DEF Program
  <2>2. QED
    BY <1>3, <2>1, StoreAssumption DEF TimeInv, TypeOK
<1>4. QED
  BY <1>1, <1>2, <1>3 DEF TimeInv

LEMMA SpareProgram ==
  ASSUME SpareInv, NEW s \in Sessions, Program(s)
  PROVE  SpareInv'
<1>1. TypeInv' /\ sweep' = sweep /\ now' = now
  BY ProgramTypes DEF SpareInv, TypeInv, AtSome
<1>2. OwnerInv' /\ TimeInv'
  BY ProgramOwner, ProgramTime DEF SpareInv, TypeInv
<1>3. /\ lost \subseteq lost'
      /\ \A u \in Sessions : Started(u) =>
           /\ Started(u)' /\ created'[u] = created[u]
           /\ InUse(u)' => InUse(u)
  BY ProgramForward DEF SpareInv, TypeInv
<1>4. SeenInv'
  <2> SUFFICES ASSUME NEW w \in Sweepers, NEW u \in sweep[w].left
               PROVE  /\ sweep[w].pc \in {"read", "choose", "objects", "delete"}
                      /\ Started(u)'
                      /\ InUse(u)' /\ u \notin lost' =>
                           \/ sweep[w].seen[u] = "running"
                           \/ /\ sweep[w].seen[u] = "initializing"
                              /\ sweep[w].began <= created'[u] + MaxSubmit
    BY <1>1 DEF SeenInv
  <2>1. u \in Sessions
    BY DEF SpareInv, TypeInv, TypeOK, Sweep
  <2>2. QED
    BY <1>3, <2>1 DEF SpareInv, SeenInv
<1>5. AtInv'
  <2>1. ASSUME NEW w \in Sweepers, sweep[w].pc \in {"objects", "delete"},
               NEW u \in Sessions, u = sweep[w].at
        PROVE  /\ Started(u)'
               /\ ~sweep[w].force /\ SafeLimit(sweep[w].days) /\ InUse(u)' => u \in lost'
    <3>1. /\ Started(u)
          /\ ~sweep[w].force /\ SafeLimit(sweep[w].days) /\ InUse(u) => u \in lost
      BY <2>1 DEF SpareInv, AtInv
    <3>2. QED
      BY <1>3, <3>1
  <2>2. \A w \in Sweepers : sweep[w].pc \in {"objects", "delete"} => sweep[w].at \in Sessions
    BY DEF SpareInv, AtInv
  <2>3. QED
    BY <1>1, <2>1, <2>2 DEF AtInv, Started, InUse
<1>6. QED
  BY <1>1, <1>2, <1>4, <1>5 DEF SpareInv

\* A sweep only deletes.
LEMMA SweepDeletes ==
  ASSUME TypeInv, NEW w \in Sweepers, Sweeps(w)
  PROVE  \A s \in Sessions : manifest'[s] \in {manifest[s], "none"}
<1>1. CASE UNCHANGED storeVars
  BY <1>1 DEF storeVars
<1>2. CASE DeleteObjects(w)
  BY <1>2 DEF DeleteObjects, TypeInv, TypeOK
<1>3. UNCHANGED storeVars \/ DeleteObjects(w)
  BY DEF Sweeps, BeginSweep, ListSessions, ReadAll, EndSweep, ReadManifest, Consider, ListObjects
<1>4. QED
  BY <1>1, <1>2, <1>3

\* A sweep keeps its time of beginning, its options and, but for what it reads
\* and considers, what is left to it.
Kept(w) ==
  \/ /\ BeginSweep(w) /\ sweep'[w].pc = "list" /\ sweep'[w].began = now
     /\ sweep'[w].left = sweep[w].left
  \/ sweep'[w].pc = "over" /\ sweep'[w].left = {}
  \/ /\ Sweeping(w) /\ sweep'[w].pc \in {"read", "choose", "objects", "delete"}
     /\ sweep'[w].began = sweep[w].began /\ sweep'[w].force = sweep[w].force
     /\ sweep'[w].days = sweep[w].days
     /\ \/ sweep'[w].left = sweep[w].left /\ sweep'[w].seen = sweep[w].seen
        \/ \E s \in Sessions : ReadManifest(w, s) \/ Consider(w, s)
     /\ \/ sweep'[w].pc \notin {"objects", "delete"}
        \/ sweep[w].pc \in {"objects", "delete"} /\ sweep'[w].at = sweep[w].at
        \/ \E s \in Sessions : Consider(w, s)

LEMMA SweepKeeps ==
  ASSUME TypeInv, NEW w \in Sweepers, Sweeps(w)
  PROVE  Kept(w)
<1> USE DEF Becomes, Kept
<1>0. sweep \in [Sweepers -> Sweep] /\ sweep[w] \in Sweep /\ NoSweep \in Sweep
  BY StoreAssumption DEF TypeInv, TypeOK, Sweep, NoSweep, Statuses
<1>1. CASE BeginSweep(w)
  <2>1. PICK force \in BOOLEAN, days \in Limits :
          Becomes(w, [sweep[w] EXCEPT !.pc = "list", !.force = force, !.days = days,
                                      !.began = now])
    BY <1>1 DEF BeginSweep
  <2>2. sweep'[w] = [sweep[w] EXCEPT !.pc = "list", !.force = force, !.days = days,
                                     !.began = now]
    BY <1>0, <2>1
  <2>3. QED
    BY <1>0, <1>1, <2>2 DEF Sweep
<1>2. CASE ListSessions(w)
  <2> DEFINE listed == {s \in Sessions : manifest[s] # "none"} \cup files
             new == [sweep[w] EXCEPT !.pc = "read", !.due = Due(w), !.unread = listed]
             broken == [NoSweep EXCEPT !.pc = "over", !.failed = Sessions]
  <2>1. (sweep'[w] = new \/ sweep'[w] = broken) /\ Sweeping(w)
    BY <1>0, <1>2 DEF ListSessions, Sweeping
  <2>2. /\ new.pc = "read" /\ new.left = sweep[w].left /\ new.seen = sweep[w].seen
        /\ new.began = sweep[w].began /\ new.force = sweep[w].force
        /\ new.days = sweep[w].days
    <3> HIDE DEF listed
    <3> QED BY <1>0 DEF Sweep
  <2>3. broken.pc = "over" /\ broken.left = {}
    BY DEF NoSweep
  <2>4. QED
    <3> HIDE DEF new, broken
    <3> QED BY <2>1, <2>2, <2>3
<1>3. CASE ReadAll(w)
  BY <1>0, <1>3 DEF ReadAll, Sweep, Sweeping
<1>4. CASE EndSweep(w)
  BY <1>0, <1>4 DEF EndSweep, Sweep, NoSweep
<1>5. ASSUME NEW s \in Sessions, ReadManifest(w, s)
      PROVE  /\ Sweeping(w) /\ sweep'[w].pc = "read"
             /\ sweep'[w].began = sweep[w].began /\ sweep'[w].force = sweep[w].force
             /\ sweep'[w].days = sweep[w].days
  <2> DEFINE read == [sweep[w] EXCEPT !.unread = @ \ {s}]
             failed == [read EXCEPT !.failed = @ \cup {s}]
             new == [read EXCEPT !.seen[s] = manifest[s], !.left = @ \cup {s}]
  <2>1. sweep[w].pc = "read" /\ (sweep'[w] = new \/ sweep'[w] = read \/ sweep'[w] = failed)
    BY <1>0, <1>5 DEF ReadManifest
  <2>2. \A r \in {new, read, failed} : /\ r.pc = sweep[w].pc /\ r.began = sweep[w].began
                                      /\ r.force = sweep[w].force /\ r.days = sweep[w].days
    BY <1>0 DEF Sweep
  <2>3. QED
    <3> HIDE DEF new, read, failed
    <3> QED BY <2>1, <2>2 DEF Sweeping
<1>6. ASSUME NEW s \in Sessions, Consider(w, s)
      PROVE  /\ Sweeping(w) /\ sweep'[w].pc \in {"choose", "objects"}
             /\ sweep'[w].began = sweep[w].began /\ sweep'[w].force = sweep[w].force
             /\ sweep'[w].days = sweep[w].days
  BY <1>0, <1>6 DEF Consider, Sweep, Sweeping
<1>7. ASSUME NEW failed, GoOn(w, failed)
      PROVE  /\ sweep'[w].pc = "choose" /\ sweep'[w].left = sweep[w].left
             /\ sweep'[w].seen = sweep[w].seen /\ sweep'[w].began = sweep[w].began
             /\ sweep'[w].force = sweep[w].force /\ sweep'[w].days = sweep[w].days
  BY <1>0, <1>7 DEF GoOn, Sweep
<1>8. CASE ListObjects(w)
  <2> DEFINE s == sweep[w].at
             keys == Present(s)
             new == [sweep[w] EXCEPT !.pc = "delete", !.keys = keys]
  <2>1. /\ sweep[w].pc = "objects"
        /\ sweep'[w] = new \/ GoOn(w, {}) \/ GoOn(w, {s})
    BY <1>0, <1>8 DEF ListObjects
  <2>2. /\ new.pc = "delete" /\ new.left = sweep[w].left /\ new.seen = sweep[w].seen
        /\ new.began = sweep[w].began /\ new.force = sweep[w].force
        /\ new.days = sweep[w].days /\ new.at = sweep[w].at
    <3> HIDE DEF keys
    <3> QED BY <1>0 DEF Sweep
  <2> HIDE DEF new, keys
  <2>3. CASE sweep'[w] = new
    BY <2>1, <2>2, <2>3 DEF Sweeping
  <2>4. CASE GoOn(w, {})
    BY <1>7, <2>1, <2>4 DEF Sweeping
  <2>5. CASE GoOn(w, {s})
    BY <1>7, <2>1, <2>5 DEF Sweeping
  <2>6. QED
    BY <2>1, <2>3, <2>4, <2>5
<1>9. CASE DeleteObjects(w)
  <2>1. sweep[w].pc = "delete" /\ (GoOn(w, {}) \/ GoOn(w, {sweep[w].at}))
    BY <1>9 DEF DeleteObjects
  <2>2. CASE GoOn(w, {})
    BY <1>7, <2>1, <2>2 DEF Sweeping
  <2>3. CASE GoOn(w, {sweep[w].at})
    BY <1>7, <2>1, <2>3 DEF Sweeping
  <2>4. QED
    BY <2>1, <2>2, <2>3
<1>10. QED
  BY <1>1, <1>2, <1>3, <1>4, <1>5, <1>6, <1>8, <1>9 DEF Sweeps

\* What a sweep reads of a session in use is fresh.
LEMMA ReadSeen ==
  ASSUME SpareInv, NEW w \in Sweepers, NEW s \in Sessions, ReadManifest(w, s),
         NEW u \in sweep'[w].left
  PROVE  /\ Started(u)
         /\ InUse(u) /\ u \notin lost =>
              \/ sweep'[w].seen[u] = "running"
              \/ /\ sweep'[w].seen[u] = "initializing"
                 /\ sweep[w].began <= created[u] + MaxSubmit
<1>0. /\ sweep \in [Sweepers -> Sweep] /\ sweep[w] \in Sweep /\ sweep[w].left \subseteq Sessions
      /\ manifest \in [Sessions -> Statuses] /\ now \in Int /\ created[s] \in Int
      /\ sweep[w].began \in Int /\ MaxSubmit \in Int
  BY StoreAssumption DEF SpareInv, TypeInv, TypeOK, Sweep
<1>1. CASE /\ sweep'[w].left = sweep[w].left \cup {s} /\ manifest[s] # "none"
           /\ sweep'[w].seen = [sweep[w].seen EXCEPT ![s] = manifest[s]]
  <2>1. CASE u = s
    <3>1. Started(s)
      BY <1>1 DEF SpareInv, OwnerInv, Started
    <3>2. sweep[w].began <= now
      BY <1>0 DEF SpareInv, TimeInv, Sweeping, ReadManifest
    <3>3. Submitting(s) => now <= created[s] + MaxSubmit
      BY DEF SpareInv, TimeInv
    <3>4. sweep'[w].seen[s] = manifest[s]
      BY <1>0, <1>1 DEF Sweep
    <3>5. InUse(s) /\ s \notin lost =>
            \/ manifest[s] = "running"
            \/ manifest[s] = "initializing" /\ Submitting(s)
      <4>1. manifest[s] # "none"
        BY <1>1
      <4>2. OwnerInv
        BY DEF SpareInv
      <4>3. QED
        BY ONLY <4>1, <4>2, s \in Sessions DEF OwnerInv, InUse, Submitting
    <3>6. QED
      BY <1>0, <2>1, <3>1, <3>2, <3>3, <3>4, <3>5 DEF InUse, Started, Submitting
  <2>2. CASE u # s
    <3>1. u \in sweep[w].left /\ sweep'[w].seen[u] = sweep[w].seen[u]
      BY <1>0, <1>1, <2>2 DEF Sweep
    <3>2. QED
      BY <3>1 DEF SpareInv, SeenInv
  <2>3. QED
    BY <2>1, <2>2
<1>2. CASE sweep'[w].left = sweep[w].left /\ sweep'[w].seen = sweep[w].seen
  BY <1>2 DEF SpareInv, SeenInv
<1>3. QED
  <2> DEFINE read == [sweep[w] EXCEPT !.unread = @ \ {s}]
             failed == [read EXCEPT !.failed = @ \cup {s}]
             new == [read EXCEPT !.seen[s] = manifest[s], !.left = @ \cup {s}]
  <2>1. \/ sweep'[w] = new /\ manifest[s] # "none"
        \/ sweep'[w] = read \/ sweep'[w] = failed
    BY <1>0 DEF ReadManifest, Becomes
  <2>2. /\ new.left = sweep[w].left \cup {s}
        /\ new.seen = [sweep[w].seen EXCEPT ![s] = manifest[s]]
        /\ \A r \in {read, failed} : r.left = sweep[w].left /\ r.seen = sweep[w].seen
    BY <1>0 DEF Sweep
  <2>3. QED
    <3> HIDE DEF new, read, failed
    <3> QED BY <1>1, <1>2, <2>1, <2>2

\* What is selected in the end is not in use, since its age was looked at after
\* its status.
LEMMA ConsiderSpares ==
  ASSUME SpareInv, NEW w \in Sweepers, NEW s \in Sessions, Consider(w, s),
         sweep'[w].pc = "objects"
  PROVE  /\ sweep'[w].at = s /\ Started(s)
         /\ ~sweep[w].force /\ SafeLimit(sweep[w].days) /\ InUse(s) => s \in lost
<1>0. /\ sweep \in [Sweepers -> Sweep] /\ sweep[w] \in Sweep
      /\ now \in Int /\ created[s] \in Int /\ sweep[w].began \in Int
      /\ MaxSubmit \in Int /\ MaxSweep \in Int /\ sweep[w].days \in Limits \cup {0}
  BY StoreAssumption DEF SpareInv, TypeInv, TypeOK, Sweep
<1>1. Selected(w, s) /\ sweep'[w].at = s
  BY <1>0 DEF Consider, Becomes, Sweep
<1>2. s \in sweep[w].left /\ Started(s)
  BY DEF Consider, SpareInv, SeenInv
<1>3. ASSUME ~sweep[w].force, SafeLimit(sweep[w].days), InUse(s), s \notin lost
      PROVE  FALSE
  <2> DEFINE age == sweep[w].days * Day
  <2>1. ParseDuration(sweep[w].days) = age
    BY <1>0, <1>3, SafeDuration
  <2>2. age > MaxSubmit + MaxSweep
    BY <1>3 DEF SafeLimit
  <2>3. age \in Int
    <3>1. sweep[w].days \in Int /\ Day \in Int
      <4>1. Limits \cup {0} \subseteq Int /\ Day \in Int
        BY ONLY StoreAssumption
      <4>2. QED
        BY <1>0, <4>1
    <3>2. QED
      BY ONLY <3>1
  <2> HIDE DEF age
  <2>4. now - created[s] >= age
    <3>1. age <= 0 \/ now - created[s] >= age
      BY <1>1, <2>1 DEF Selected
    <3>2. QED
      BY <2>2, <2>3, <3>1, StoreAssumption
  <2>5. sweep[w].seen[s] # "running"
    BY <1>1, <1>3 DEF Selected
  <2>6. sweep[w].began <= created[s] + MaxSubmit
    BY <1>2, <1>3, <2>5 DEF SpareInv, SeenInv
  <2>7. now <= sweep[w].began + MaxSweep
    BY DEF SpareInv, TimeInv, Sweeping, Consider
  <2>8. QED
    BY <1>0, <2>2, <2>3, <2>4, <2>6, <2>7
<1>4. QED
  BY <1>1, <1>2, <1>3

LEMMA SpareSweep ==
  ASSUME SpareInv, NEW w \in Sweepers, Sweeps(w)
  PROVE  SpareInv'
<1>1. /\ TypeInv' /\ UNCHANGED <<now, ownerVars>>
      /\ \A v \in Sweepers : v # w => sweep'[v] = sweep[v]
  BY SweepTypes DEF SpareInv
<1>2. UNCHANGED <<owner, created, lost>>
  BY <1>1 DEF ownerVars
<1>3. OwnerInv'
  <2>1. \A s \in Sessions : manifest'[s] \in {manifest[s], "none"}
    BY SweepDeletes DEF SpareInv
  <2>2. QED
    BY <1>2, <2>1 DEF SpareInv, OwnerInv
<1>4. Kept(w)
  BY SweepKeeps DEF SpareInv
<1>5. TimeInv'
  <2>1. Sweeping(w)' => sweep'[w].began <= now /\ now <= sweep'[w].began + MaxSweep
    <3>1. now \in Int /\ MaxSweep \in Nat
      BY StoreAssumption DEF SpareInv, TypeInv, TypeOK
    <3>2. Sweeping(w) => sweep[w].began <= now /\ now <= sweep[w].began + MaxSweep
      BY DEF SpareInv, TimeInv
    <3>3. QED
      BY <1>4, <3>1, <3>2 DEF Kept, Sweeping
  <2>2. QED
    BY <1>1, <1>2, <2>1 DEF SpareInv, TimeInv, Sweeping, Submitting
<1>6. SeenInv'
  <2> DEFINE Fresh(u) ==
               /\ sweep'[w].pc \in {"read", "choose", "objects", "delete"}
               /\ Started(u)
               /\ InUse(u) /\ u \notin lost =>
                    \/ sweep'[w].seen[u] = "running"
                    \/ /\ sweep'[w].seen[u] = "initializing"
                       /\ sweep'[w].began <= created[u] + MaxSubmit
  <2>1. ASSUME NEW u \in sweep'[w].left
        PROVE  Fresh(u)
    <3>1. CASE BeginSweep(w) /\ sweep'[w].left = sweep[w].left
      BY <2>1, <3>1 DEF BeginSweep, SpareInv, SeenInv
    <3>2. CASE sweep'[w].pc = "over" /\ sweep'[w].left = {}
      BY <2>1, <3>2
    <3> DEFINE Going == /\ sweep'[w].pc \in {"read", "choose", "objects", "delete"}
                        /\ sweep'[w].began = sweep[w].began
    <3>3. CASE Going /\ sweep'[w].left = sweep[w].left /\ sweep'[w].seen = sweep[w].seen
      BY <2>1, <3>3 DEF SpareInv, SeenInv
    <3>4. ASSUME Going, NEW s \in Sessions, ReadManifest(w, s)
          PROVE  Fresh(u)
      BY <2>1, <3>4, ReadSeen
    <3>5. ASSUME Going, NEW s \in Sessions, Consider(w, s)
          PROVE  Fresh(u)
      <4>1. u \in sweep[w].left /\ u # s /\ sweep'[w].seen[u] = sweep[w].seen[u]
        <5>1. sweep \in [Sweepers -> Sweep] /\ sweep[w] \in Sweep
          BY DEF SpareInv, TypeInv, TypeOK
        <5> DEFINE next == [sweep[w] EXCEPT !.left = @ \ {s}, !.seen[s] = "none"]
                   new == [next EXCEPT !.pc = "objects", !.at = s]
        <5>2. sweep'[w] = next \/ sweep'[w] = new
          BY <3>5, <5>1 DEF Consider, Becomes
        <5>3. /\ next.left = sweep[w].left \ {s} /\ new.left = sweep[w].left \ {s}
              /\ next.seen = [sweep[w].seen EXCEPT ![s] = "none"] /\ new.seen = next.seen
          BY <5>1 DEF Sweep
        <5>4. sweep[w].left \subseteq Sessions /\ sweep[w].seen \in [Sessions -> Statuses]
          BY <5>1 DEF Sweep
        <5>5. QED
          <6> HIDE DEF next, new
          <6> QED BY <2>1, <5>2, <5>3, <5>4
      <4>2. QED
        BY <3>5, <4>1 DEF SpareInv, SeenInv
    <3>6. QED
      BY <1>4, <3>1, <3>2, <3>3, <3>4, <3>5 DEF Kept
  <2>2. QED
    BY <1>1, <1>2, <2>1 DEF SpareInv, SeenInv, InUse, Started
<1>7. AtInv'
  <2>1. ASSUME sweep'[w].pc \in {"objects", "delete"}, NEW u \in Sessions, u = sweep'[w].at
        PROVE  /\ Started(u)
               /\ ~sweep'[w].force /\ SafeLimit(sweep'[w].days) /\ InUse(u) => u \in lost
    <3>1. sweep'[w].force = sweep[w].force /\ sweep'[w].days = sweep[w].days
      BY <1>4, <2>1 DEF Kept
    <3>2. CASE sweep[w].pc \in {"objects", "delete"} /\ sweep'[w].at = sweep[w].at
      BY <2>1, <3>1, <3>2 DEF SpareInv, AtInv
    <3>3. ASSUME NEW s \in Sessions, Consider(w, s)
          PROVE  /\ Started(u)
                 /\ ~sweep'[w].force /\ SafeLimit(sweep'[w].days) /\ InUse(u) => u \in lost
      <4>1. sweep'[w].pc = "objects"
        <5>1. sweep \in [Sweepers -> Sweep] /\ sweep[w] \in Sweep
          BY DEF SpareInv, TypeInv, TypeOK
        <5> DEFINE next == [sweep[w] EXCEPT !.left = @ \ {s}, !.seen[s] = "none"]
                   new == [next EXCEPT !.pc = "objects", !.at = s]
        <5>2. sweep[w].pc = "choose" /\ (sweep'[w] = next \/ sweep'[w] = new)
          BY <3>3, <5>1 DEF Consider, Becomes
        <5>3. next.pc = sweep[w].pc /\ new.pc = "objects"
          BY <5>1 DEF Sweep
        <5>4. QED
          <6> HIDE DEF next, new
          <6> QED BY <2>1, <5>2, <5>3
      <4>2. /\ sweep'[w].at = s /\ Started(s)
            /\ ~sweep[w].force /\ SafeLimit(sweep[w].days) /\ InUse(s) => s \in lost
        BY <3>3, <4>1, ConsiderSpares
      <4>3. QED
        BY <2>1, <3>1, <4>2
    <3>4. QED
      BY <1>4, <2>1, <3>2, <3>3 DEF Kept
  <2>2. \A v \in Sweepers : sweep'[v].pc \in {"objects", "delete"} => sweep'[v].at \in Sessions
    BY <1>1 DEF TypeInv, AtSome
  <2>3. ASSUME NEW v \in Sweepers, v # w, sweep'[v].pc \in {"objects", "delete"},
               NEW u \in Sessions, u = sweep'[v].at
        PROVE  /\ Started(u)
               /\ ~sweep'[v].force /\ SafeLimit(sweep'[v].days) /\ InUse(u) => u \in lost
    BY <1>1, <2>3 DEF SpareInv, AtInv
  <2>4. QED
    BY <1>2, <2>1, <2>2, <2>3 DEF AtInv, InUse, Started
<1>8. QED
  BY <1>1, <1>3, <1>5, <1>6, <1>7 DEF SpareInv

LEMMA SpareTick ==
  ASSUME SpareInv, Tick
  PROVE  SpareInv'
<1>1. TypeInv' /\ UNCHANGED <<ownerVars, storeVars, sweep>>
  BY TickTypes DEF SpareInv, Tick
<1>2. UNCHANGED <<owner, created, lost, manifest, sweep>>
  BY <1>1 DEF ownerVars, storeVars
<1>3. TimeInv'
  <2>1. /\ now \in Int /\ \A s \in Sessions : created[s] \in Int
        /\ \A w \in Sweepers : sweep[w].began \in Int
        /\ MaxSubmit \in Nat /\ MaxSweep \in Nat
    BY StoreAssumption DEF SpareInv, TypeInv, TypeOK, Sweep
  <2>2. QED
    BY <1>2, <2>1 DEF SpareInv, TimeInv, Tick, Submitting, Sweeping
<1>4. OwnerInv' /\ SeenInv' /\ AtInv'
  BY <1>2 DEF SpareInv, OwnerInv, SeenInv, AtInv, InUse, Started
<1>5. QED
  BY <1>1, <1>3, <1>4 DEF SpareInv

LEMMA SpareStep == SpareInv /\ [Next]_vars => SpareInv'
<1>1. ASSUME SpareInv, UNCHANGED vars
      PROVE  SpareInv'
  <2>1. TypeInv' /\ UNCHANGED <<now, owner, created, lost, manifest, sweep>>
    BY <1>1, StutterTypes DEF SpareInv, vars, ownerVars, storeVars
  <2>2. QED
    BY <1>1, <2>1 DEF SpareInv, TimeInv, OwnerInv, SeenInv, AtInv, InUse, Started,
                      Submitting, Sweeping
<1>2. QED
  BY <1>1, SpareProgram, SpareSweep, SpareTick DEF Next

LEMMA SpareInit == Init => SpareInv
<1> SUFFICES ASSUME Init PROVE SpareInv
  OBVIOUS
<1>1. TypeInv
  BY InitTypes
<1>2. QED
  BY <1>1 DEF Init, SpareInv, OwnerInv, TimeInv, SeenInv, AtInv, Submitting, Sweeping, NoSweep

\* A sweep without --force and with a safe limit deletes no session that its
\* program, or who attaches to it, still needs, but for one whose manifest could
\* not be marked: however long ago the sweep has read the manifest.
THEOREM SweepSparesInUseAlways == Spec => []SweepSparesInUse
<1>1. SpareInv => SweepSparesInUse
  BY DEF SpareInv, AtInv, SweepSparesInUse
<1>2. QED
  BY <1>1, SpareInit, SpareStep, PTL DEF Spec
-----------------------------------------------------------------------------
(* What a sweep deletes.                                                   *)

Active(w) == sweep[w].pc \in {"read", "choose", "objects", "delete"}

Allowed(w, status) == sweep[w].force \/ status # "running"

\* A session that has to be deleted is gone, or was reported, or the sweep still
\* has it to read, to consider or to delete, and will not refuse it then.
Handled(w, s) ==
  \/ Present(s) = {}
  \/ \E v \in Sweepers : s \in sweep[v].failed
  \/ /\ sweep[w].pc = "read" /\ s \in sweep[w].unread
     /\ manifest[s] # "none" /\ Allowed(w, manifest[s])
  \/ /\ Active(w) /\ s \in sweep[w].left /\ Allowed(w, sweep[w].seen[s])
     /\ sweep[w].pc = "read" => s \notin sweep[w].unread
  \/ sweep[w].pc \in {"objects", "delete"} /\ sweep[w].at = s

\* Nothing is written to it any more, and it only gets older, so that whoever
\* deletes it has listed all that it has.
DueInv ==
  \A w \in Sweepers : \A s \in sweep[w].due :
    /\ Active(w) \/ sweep[w].pc = "over"
    /\ Resting(s) /\ Handled(w, s)
    /\ Active(w) => now - created[s] >= ParseDuration(sweep[w].days)
    /\ \A v \in Sweepers :
         sweep[v].pc = "delete" /\ sweep[v].at = s => Present(s) \subseteq sweep[v].keys

CompleteInv == TypeInv /\ DueInv

(* What each step of a sweep does to its state.                            *)

LEMMA SweepFields ==
  ASSUME TypeInv, NEW w \in Sweepers
  PROVE  /\ sweep \in [Sweepers -> Sweep] /\ sweep[w] \in Sweep /\ NoSweep \in Sweep
         /\ sweep[w].unread \subseteq Sessions /\ sweep[w].left \subseteq Sessions
         /\ sweep[w].failed \subseteq Sessions /\ sweep[w].due \subseteq Sessions
         /\ sweep[w].seen \in [Sessions -> Statuses]
BY StoreAssumption DEF TypeInv, TypeOK, Sweep, NoSweep, Statuses

LEMMA BeginFields ==
  ASSUME TypeInv, NEW w \in Sweepers, BeginSweep(w)
  PROVE  /\ sweep[w].pc = "idle" /\ sweep'[w].pc = "list" /\ UNCHANGED storeVars
         /\ sweep'[w].failed = sweep[w].failed /\ sweep'[w].due = sweep[w].due
<1>1. PICK force \in BOOLEAN, days \in Limits :
        Becomes(w, [sweep[w] EXCEPT !.pc = "list", !.force = force, !.days = days,
                                    !.began = now])
  BY DEF BeginSweep
<1>2. sweep'[w] = [sweep[w] EXCEPT !.pc = "list", !.force = force, !.days = days,
                                   !.began = now]
  BY <1>1, SweepFields DEF Becomes
<1>3. QED
  BY <1>2, SweepFields DEF BeginSweep, Sweep

LEMMA ListFields ==
  ASSUME TypeInv, NEW w \in Sweepers, ListSessions(w)
  PROVE  /\ sweep[w].pc = "list" /\ UNCHANGED storeVars
         /\ \/ /\ sweep'[w].pc = "read" /\ sweep'[w].due = Due(w)
               /\ sweep'[w].failed = sweep[w].failed
               /\ sweep'[w].force = sweep[w].force /\ sweep'[w].days = sweep[w].days
               /\ sweep'[w].unread = {s \in Sessions : manifest[s] # "none"} \cup files
            \/ /\ sweep'[w].pc = "over" /\ sweep'[w].due = {}
               /\ sweep'[w].failed = Sessions
<1> DEFINE listed == {s \in Sessions : manifest[s] # "none"} \cup files
           new == [sweep[w] EXCEPT !.pc = "read", !.due = Due(w), !.unread = listed]
           broken == [NoSweep EXCEPT !.pc = "over", !.failed = Sessions]
<1>1. sweep[w].pc = "list" /\ UNCHANGED storeVars /\ (sweep'[w] = new \/ sweep'[w] = broken)
  BY SweepFields DEF ListSessions, Becomes
<1>2. /\ new.pc = "read" /\ new.due = Due(w) /\ new.unread = listed
      /\ new.failed = sweep[w].failed /\ new.force = sweep[w].force
      /\ new.days = sweep[w].days
  <2> HIDE DEF listed
  <2> QED BY SweepFields DEF Sweep
<1>3. broken.pc = "over" /\ broken.due = {} /\ broken.failed = Sessions
  BY DEF NoSweep
<1>4. QED
  <2> HIDE DEF new, broken
  <2> QED BY <1>1, <1>2, <1>3

LEMMA ReadFields ==
  ASSUME TypeInv, NEW w \in Sweepers, NEW s \in Sessions, ReadManifest(w, s)
  PROVE  /\ sweep[w].pc = "read" /\ sweep'[w].pc = "read" /\ UNCHANGED storeVars
         /\ sweep'[w].due = sweep[w].due
         /\ sweep'[w].force = sweep[w].force /\ sweep'[w].days = sweep[w].days
         /\ sweep'[w].unread = sweep[w].unread \ {s}
         /\ \/ /\ sweep'[w].left = sweep[w].left \cup {s}
               /\ sweep'[w].seen = [sweep[w].seen EXCEPT ![s] = manifest[s]]
               /\ sweep'[w].failed = sweep[w].failed
            \/ /\ sweep'[w].left = sweep[w].left /\ sweep'[w].seen = sweep[w].seen
               /\ sweep'[w].failed = sweep[w].failed \cup {s}
            \/ /\ sweep'[w].left = sweep[w].left /\ sweep'[w].seen = sweep[w].seen
               /\ sweep'[w].failed = sweep[w].failed /\ manifest[s] = "none"
<1> DEFINE read == [sweep[w] EXCEPT !.unread = @ \ {s}]
           failed == [read EXCEPT !.failed = @ \cup {s}]
           new == [read EXCEPT !.seen[s] = manifest[s], !.left = @ \cup {s}]
<1>1. /\ sweep[w].pc = "read" /\ UNCHANGED storeVars
      /\ \/ sweep'[w] = new
         \/ sweep'[w] = read /\ manifest[s] = "none"
         \/ sweep'[w] = failed
  BY SweepFields DEF ReadManifest, Becomes
<1>2. \A r \in {new, read, failed} :
        /\ r.pc = sweep[w].pc /\ r.due = sweep[w].due /\ r.force = sweep[w].force
        /\ r.days = sweep[w].days /\ r.unread = sweep[w].unread \ {s}
  BY SweepFields DEF Sweep
<1>3. /\ new.left = sweep[w].left \cup {s} /\ new.failed = sweep[w].failed
      /\ new.seen = [sweep[w].seen EXCEPT ![s] = manifest[s]]
      /\ read.failed = sweep[w].failed /\ failed.failed = sweep[w].failed \cup {s}
      /\ \A r \in {read, failed} : r.left = sweep[w].left /\ r.seen = sweep[w].seen
  BY SweepFields DEF Sweep
<1>4. QED
  <2> HIDE DEF new, read, failed
  <2> QED BY <1>1, <1>2, <1>3

LEMMA ReadAllFields ==
  ASSUME TypeInv, NEW w \in Sweepers, ReadAll(w)
  PROVE  /\ sweep[w].pc = "read" /\ sweep'[w].pc = "choose" /\ sweep[w].unread = {}
         /\ UNCHANGED storeVars /\ sweep'[w].due = sweep[w].due
         /\ sweep'[w].force = sweep[w].force /\ sweep'[w].days = sweep[w].days
         /\ sweep'[w].left = sweep[w].left /\ sweep'[w].seen = sweep[w].seen
         /\ sweep'[w].failed = sweep[w].failed
BY SweepFields DEF ReadAll, Becomes, Sweep

LEMMA ConsiderFields ==
  ASSUME TypeInv, NEW w \in Sweepers, NEW s \in Sessions, Consider(w, s)
  PROVE  /\ sweep[w].pc = "choose" /\ UNCHANGED storeVars
         /\ sweep'[w].due = sweep[w].due /\ sweep'[w].failed = sweep[w].failed
         /\ sweep'[w].force = sweep[w].force /\ sweep'[w].days = sweep[w].days
         /\ sweep'[w].left = sweep[w].left \ {s}
         /\ \A u \in Sessions \ {s} : sweep'[w].seen[u] = sweep[w].seen[u]
         /\ \/ sweep'[w].pc = "choose" /\ ~Selected(w, s)
            \/ sweep'[w].pc = "objects" /\ sweep'[w].at = s
<1> DEFINE next == [sweep[w] EXCEPT !.left = @ \ {s}, !.seen[s] = "none"]
           new == [next EXCEPT !.pc = "objects", !.at = s]
<1>1. /\ sweep[w].pc = "choose" /\ UNCHANGED storeVars
      /\ \/ sweep'[w] = next /\ ~Selected(w, s)
         \/ sweep'[w] = new
  BY SweepFields DEF Consider, Becomes
<1>2. \A r \in {new, next} :
        /\ r.due = sweep[w].due /\ r.failed = sweep[w].failed /\ r.force = sweep[w].force
        /\ r.days = sweep[w].days /\ r.left = sweep[w].left \ {s}
        /\ r.seen = [sweep[w].seen EXCEPT ![s] = "none"]
  BY SweepFields DEF Sweep
<1>3. next.pc = sweep[w].pc /\ new.pc = "objects" /\ new.at = s
  BY SweepFields DEF Sweep
<1>4. QED
  <2> HIDE DEF new, next
  <2> QED BY <1>1, <1>2, <1>3, SweepFields

LEMMA EndFields ==
  ASSUME TypeInv, NEW w \in Sweepers, EndSweep(w)
  PROVE  /\ sweep[w].pc = "choose" /\ sweep[w].left = {} /\ sweep'[w].pc = "over"
         /\ UNCHANGED storeVars /\ sweep'[w].due = sweep[w].due
         /\ sweep'[w].failed = sweep[w].failed
<1> DEFINE new == [NoSweep EXCEPT !.pc = "over", !.failed = sweep[w].failed,
                                  !.due = sweep[w].due]
<1>1. /\ sweep[w].pc = "choose" /\ sweep[w].left = {} /\ UNCHANGED storeVars
      /\ sweep'[w] = new
  BY SweepFields DEF EndSweep, Becomes
<1>2. new.pc = "over" /\ new.due = sweep[w].due /\ new.failed = sweep[w].failed
  BY DEF NoSweep
<1>3. QED
  <2> HIDE DEF new
  <2> QED BY <1>1, <1>2

LEMMA GoOnFields ==
  ASSUME TypeInv, NEW w \in Sweepers, NEW failed, GoOn(w, failed)
  PROVE  /\ sweep'[w].pc = "choose" /\ sweep'[w].due = sweep[w].due
         /\ sweep'[w].force = sweep[w].force /\ sweep'[w].days = sweep[w].days
         /\ sweep'[w].left = sweep[w].left /\ sweep'[w].seen = sweep[w].seen
         /\ sweep'[w].failed = sweep[w].failed \cup failed
BY SweepFields DEF GoOn, Becomes, Sweep

LEMMA ObjectsFields ==
  ASSUME TypeInv, NEW w \in Sweepers, ListObjects(w)
  PROVE  /\ sweep[w].pc = "objects" /\ UNCHANGED storeVars
         /\ \/ /\ sweep'[w].pc = "delete" /\ sweep'[w].at = sweep[w].at
               /\ sweep'[w].keys = Present(sweep[w].at)
               /\ sweep'[w].due = sweep[w].due /\ sweep'[w].failed = sweep[w].failed
               /\ sweep'[w].force = sweep[w].force /\ sweep'[w].days = sweep[w].days
               /\ sweep'[w].left = sweep[w].left /\ sweep'[w].seen = sweep[w].seen
            \/ GoOn(w, {}) /\ Present(sweep[w].at) = {}
            \/ GoOn(w, {sweep[w].at})
<1> DEFINE keys == Present(sweep[w].at)
           new == [sweep[w] EXCEPT !.pc = "delete", !.keys = keys]
<1>1. /\ sweep[w].pc = "objects" /\ UNCHANGED storeVars
      /\ \/ sweep'[w] = new
         \/ GoOn(w, {}) /\ Present(sweep[w].at) = {}
         \/ GoOn(w, {sweep[w].at})
  BY SweepFields DEF ListObjects, Becomes
<1>2. /\ new.pc = "delete" /\ new.at = sweep[w].at /\ new.keys = keys
      /\ new.due = sweep[w].due /\ new.failed = sweep[w].failed
      /\ new.force = sweep[w].force /\ new.days = sweep[w].days
      /\ new.left = sweep[w].left /\ new.seen = sweep[w].seen
  <2> HIDE DEF keys
  <2> QED BY SweepFields DEF Sweep
<1>3. QED
  <2> HIDE DEF new
  <2> QED BY <1>1, <1>2

LEMMA DurationInt == ASSUME NEW days \in Limits \cup {0} PROVE ParseDuration(days) \in Int
<1> DEFINE x == days * Day
           h == Wrap \div 2
<1>1. days \in Int /\ Day \in Int /\ Wrap \in Nat \ {0}
  BY StoreAssumption
<1>2. x \in Int /\ h \in Int
  BY <1>1
<1> HIDE DEF x, h
<1>3. (x + h) % Wrap \in Int
  BY <1>1, <1>2
<1>4. QED
  BY <1>2, <1>3 DEF ParseDuration, x, h

\* Nothing is written to a session at rest.
LEMMA RestingStable ==
  ASSUME TypeOK, NEW s \in Sessions, Program(s), NEW u \in Sessions, Resting(u)
  PROVE  /\ Resting(u)' /\ manifest'[u] = manifest[u] /\ (u \in files' => u \in files)
         /\ created'[u] = created[u]
<1> USE DEF TypeOK, At, Goto, Frame, Well, Resting
<1>1. CASE Begin(s)
  BY <1>1 DEF Begin, storeVars
<1>2. CASE WriteInitial(s)
  BY <1>2 DEF WriteInitial
<1>3. CASE UploadTasks(s)
  BY <1>3 DEF UploadTasks
<1>4. CASE MarkRunning(s)
  BY <1>4 DEF MarkRunning
<1>5. CASE LaunchWorkers(s)
  BY <1>5 DEF LaunchWorkers, storeVars
<1>6. CASE MarkComplete(s)
  BY <1>6 DEF MarkComplete
<1>7. CASE CleanupTaskFiles(s)
  BY <1>7 DEF CleanupTaskFiles
<1>8. CASE Stops(s)
  BY <1>8 DEF Stops, storeVars
<1>9. CASE WorkersWrite(s)
  BY <1>9 DEF WorkersWrite
<1>10. CASE WorkersEnd(s)
  BY <1>10 DEF WorkersEnd, storeVars
<1>11. QED
  BY <1>1, <1>2, <1>3, <1>4, <1>5, <1>6, <1>7, <1>8, <1>9, <1>10 DEF Program

LEMMA CompleteProgram ==
  ASSUME CompleteInv, NEW s \in Sessions, Program(s)
  PROVE  CompleteInv'
<1>1. TypeInv' /\ sweep' = sweep /\ now' = now
  BY ProgramTypes DEF CompleteInv, TypeInv, AtSome
<1>2. ASSUME NEW w \in Sweepers, NEW u \in sweep[w].due
      PROVE  /\ Active(w) \/ sweep[w].pc = "over"
             /\ Resting(u)' /\ Handled(w, u)'
             /\ Active(w) => now - created'[u] >= ParseDuration(sweep[w].days)
             /\ \A v \in Sweepers :
                  sweep[v].pc = "delete" /\ sweep[v].at = u => Present(u)' \subseteq sweep[v].keys
  <2>1. u \in Sessions
    BY SweepFields DEF CompleteInv
  <2>2. /\ Active(w) \/ sweep[w].pc = "over"
        /\ Resting(u) /\ Handled(w, u)
        /\ Active(w) => now - created[u] >= ParseDuration(sweep[w].days)
        /\ \A v \in Sweepers :
             sweep[v].pc = "delete" /\ sweep[v].at = u => Present(u) \subseteq sweep[v].keys
    BY DEF CompleteInv, DueInv
  <2>3. /\ Resting(u)' /\ manifest'[u] = manifest[u] /\ (u \in files' => u \in files)
        /\ created'[u] = created[u]
    BY <2>1, <2>2, RestingStable DEF CompleteInv, TypeInv
  <2>4. Present(u)' \subseteq Present(u)
    BY <2>3 DEF Present, Objects
  <2>5. Handled(w, u)'
    BY <1>1, <2>2, <2>3, <2>4 DEF Handled, Allowed, Active
  <2>6. QED
    BY <2>2, <2>3, <2>4, <2>5
<1>3. DueInv'
  BY <1>1, <1>2 DEF DueInv, Active
<1>4. QED
  BY <1>1, <1>3 DEF CompleteInv

LEMMA CompleteTick ==
  ASSUME CompleteInv, Tick
  PROVE  CompleteInv'
<1>1. TypeInv' /\ UNCHANGED <<owner, created, busy, manifest, files, sweep>> /\ now' = now + 1
  BY TickTypes DEF CompleteInv, Tick, ownerVars, storeVars
<1>2. ASSUME NEW w \in Sweepers, NEW s \in sweep[w].due, Active(w)
      PROVE  now' - created[s] >= ParseDuration(sweep[w].days)
  <2>1. now - created[s] >= ParseDuration(sweep[w].days)
    BY <1>2 DEF CompleteInv, DueInv
  <2>2. now \in Int /\ created[s] \in Int /\ sweep[w].days \in Limits \cup {0}
    BY SweepFields, StoreAssumption DEF CompleteInv, TypeInv, TypeOK, Sweep
  <2>3. ParseDuration(sweep[w].days) \in Int
    BY <2>2, DurationInt
  <2>4. QED
    BY <1>1, <2>1, <2>2, <2>3
<1>3. DueInv'
  BY <1>1, <1>2 DEF CompleteInv, DueInv, Resting, Handled, Allowed, Active, Present
<1>4. QED
  BY <1>1, <1>3 DEF CompleteInv

Settled(s) == Present(s) = {} \/ \E v \in Sweepers : s \in sweep[v].failed

\* A sweep forgets no failure, and deletes only at its own position, where it has
\* listed all that there is.
LEMMA SweepSettles ==
  ASSUME CompleteInv, NEW w \in Sweepers, Sweeps(w)
  PROVE  /\ \A v \in Sweepers : sweep[v].failed \subseteq sweep'[v].failed
         /\ \A s \in Sessions : /\ Present(s)' \subseteq Present(s)
                                /\ Settled(s) => Settled(s)'
         /\ \A v \in Sweepers : \A s \in sweep[v].due :
              /\ manifest'[s] = manifest[s] \/ Settled(s)'
              /\ DeleteObjects(w) /\ sweep[w].at = s => Settled(s)'
<1>0. TypeInv /\ TypeInv'
  BY SweepTypes DEF CompleteInv
<1>1. sweep[w].failed \subseteq sweep'[w].failed
  <2>1. CASE BeginSweep(w)
    BY <1>0, <2>1, BeginFields
  <2>2. CASE ListSessions(w)
    BY <1>0, <2>2, ListFields, SweepFields
  <2>3. CASE ReadAll(w)
    BY <1>0, <2>3, ReadAllFields
  <2>4. CASE EndSweep(w)
    BY <1>0, <2>4, EndFields
  <2>5. ASSUME NEW s \in Sessions, ReadManifest(w, s)
        PROVE  sweep[w].failed \subseteq sweep'[w].failed
    BY <1>0, <2>5, ReadFields
  <2>6. ASSUME NEW s \in Sessions, Consider(w, s)
        PROVE  sweep[w].failed \subseteq sweep'[w].failed
    BY <1>0, <2>6, ConsiderFields
  <2>7. ASSUME NEW failed, GoOn(w, failed)
        PROVE  sweep[w].failed \subseteq sweep'[w].failed
    BY <1>0, <2>7, GoOnFields
  <2>8. CASE ListObjects(w)
    BY <1>0, <2>7, <2>8, ObjectsFields
  <2>9. CASE DeleteObjects(w)
    BY <2>7, <2>9 DEF DeleteObjects
  <2>10. QED
    BY <2>1, <2>2, <2>3, <2>4, <2>5, <2>6, <2>8, <2>9 DEF Sweeps
<1>2. \A v \in Sweepers : sweep[v].failed \subseteq sweep'[v].failed
  BY <1>0, <1>1, SweepTypes
<1>3. UNCHANGED storeVars \/ DeleteObjects(w)
  BY DEF Sweeps, BeginSweep, ListSessions, ReadAll, EndSweep, ReadManifest, Consider, ListObjects
<1>4. ASSUME NEW s \in Sessions
      PROVE  Present(s)' \subseteq Present(s)
  <2>1. manifest'[s] \in {manifest[s], "none"} /\ (s \in files' => s \in files)
    BY <1>0, <1>3, SweepDeletes DEF DeleteObjects, storeVars
  <2>2. QED
    BY <2>1 DEF Present
<1>5. ASSUME NEW s \in Sessions, Settled(s)
      PROVE  Settled(s)'
  BY <1>2, <1>4, <1>5 DEF Settled
<1>6. ASSUME NEW v \in Sweepers, NEW s \in sweep[v].due
      PROVE  /\ manifest'[s] = manifest[s] \/ Settled(s)'
             /\ DeleteObjects(w) /\ sweep[w].at = s => Settled(s)'
  <2>1. s \in Sessions
    BY <1>0, SweepFields
  <2>2. CASE UNCHANGED storeVars /\ ~DeleteObjects(w)
    BY <2>2 DEF storeVars
  <2>3. CASE DeleteObjects(w) /\ sweep[w].at # s
    BY <1>0, <2>1, <2>3 DEF DeleteObjects, TypeInv, TypeOK
  <2>4. CASE DeleteObjects(w) /\ sweep[w].at = s
    <3>1. Present(s) \subseteq sweep[w].keys
      BY <2>4 DEF DeleteObjects, CompleteInv, DueInv
    <3>2. PICK gone \in SUBSET sweep[w].keys :
            /\ manifest' = IF "manifest" \in gone THEN [manifest EXCEPT ![s] = "none"] ELSE manifest
            /\ files' = IF "files" \in gone THEN files \ {s} ELSE files
            /\ gone = sweep[w].keys \/ GoOn(w, {s})
      BY <2>4 DEF DeleteObjects
    <3>3. CASE gone = sweep[w].keys
      <4>1. "manifest" \in Present(s) => manifest'[s] = "none"
        BY <1>0, <2>1, <3>1, <3>2, <3>3 DEF TypeInv, TypeOK
      <4>2. "files" \in Present(s) => s \notin files'
        BY <3>1, <3>2, <3>3
      <4>3. Present(s)' = {}
        BY <1>4, <2>1, <4>1, <4>2 DEF Present, Objects
      <4>4. QED
        BY <4>3 DEF Settled
    <3>4. CASE GoOn(w, {s})
      <4>1. s \in sweep'[w].failed
        BY <1>0, <3>4, GoOnFields
      <4>2. QED
        BY <4>1 DEF Settled
    <3>5. QED
      BY <3>2, <3>3, <3>4
  <2>5. QED
    BY <1>3, <2>2, <2>3, <2>4
<1>7. QED
  BY <1>2, <1>4, <1>5, <1>6

\* A sweep begins to delete when it has listed all that there is.
LEMMA SweepLists ==
  ASSUME CompleteInv, NEW w \in Sweepers, Sweeps(w), sweep'[w].pc = "delete",
         NEW s, s = sweep'[w].at
  PROVE  sweep'[w].keys = Present(s)
<1>0. TypeInv
  BY DEF CompleteInv
<1>1. ListObjects(w)
  <2>1. ~BeginSweep(w) /\ ~ListSessions(w) /\ ~ReadAll(w) /\ ~EndSweep(w)
    BY <1>0, BeginFields, ListFields, ReadAllFields, EndFields
  <2>2. \A u \in Sessions : ~ReadManifest(w, u) /\ ~Consider(w, u)
    BY <1>0, ReadFields, ConsiderFields
  <2>3. ~DeleteObjects(w)
    BY <1>0, GoOnFields DEF DeleteObjects
  <2>4. QED
    BY <2>1, <2>2, <2>3 DEF Sweeps
<1>2. QED
  BY <1>0, <1>1, ObjectsFields, GoOnFields

LEMMA CompleteSweep ==
  ASSUME CompleteInv, NEW w \in Sweepers, Sweeps(w)
  PROVE  CompleteInv'
<1>1. /\ TypeInv /\ TypeInv' /\ UNCHANGED <<now, owner, created, busy>>
      /\ \A v \in Sweepers : v # w => sweep'[v] = sweep[v]
  BY SweepTypes DEF CompleteInv, ownerVars
<1>2. /\ \A s \in Sessions : /\ Present(s)' \subseteq Present(s)
                             /\ Settled(s) => Settled(s)'
      /\ \A v \in Sweepers : \A s \in sweep[v].due :
           /\ manifest'[s] = manifest[s] \/ Settled(s)'
           /\ DeleteObjects(w) /\ sweep[w].at = s => Settled(s)'
  BY SweepSettles
\* Whoever deletes a session that is due has listed all of it.
<1>3. ASSUME NEW v \in Sweepers, NEW s \in Sessions,
             sweep'[v].pc = "delete", sweep'[v].at = s,
             sweep[v].pc = "delete" /\ sweep[v].at = s => Present(s) \subseteq sweep[v].keys
      PROVE  Present(s)' \subseteq sweep'[v].keys
  <2>1. CASE v = w
    <3>1. sweep'[v].keys = Present(s)
      BY <1>3, <2>1, SweepLists
    <3>2. QED
      BY <1>2, <3>1
  <2>2. CASE v # w
    BY <1>1, <1>2, <1>3, <2>2
  <2>3. QED
    BY <2>1, <2>2
\* What was due stays so.
<1>4. ASSUME NEW v \in Sweepers, NEW s \in sweep[v].due
      PROVE  /\ s \in Sessions /\ Resting(s)' /\ Handled(v, s)
             /\ Active(v) => now - created[s] >= ParseDuration(sweep[v].days)
             /\ Active(v) => now' - created'[s] >= ParseDuration(sweep[v].days)
             /\ \A u \in Sweepers :
                  sweep'[u].pc = "delete" /\ sweep'[u].at = s =>
                    Present(s)' \subseteq sweep'[u].keys
  <2>1. s \in Sessions /\ s \in sweep[v].due
    BY <1>1, <1>4, SweepFields
  <2>2. /\ Resting(s) /\ Handled(v, s)
        /\ Active(v) => now - created[s] >= ParseDuration(sweep[v].days)
        /\ \A u \in Sweepers :
             sweep[u].pc = "delete" /\ sweep[u].at = s => Present(s) \subseteq sweep[u].keys
    BY <2>1 DEF CompleteInv, DueInv
  <2>3. Resting(s)'
    BY <1>1, <2>2 DEF Resting
  <2>4. \A u \in Sweepers :
          sweep'[u].pc = "delete" /\ sweep'[u].at = s => Present(s)' \subseteq sweep'[u].keys
    BY <1>3, <2>1, <2>2
  <2>5. QED
    BY <1>1, <2>1, <2>2, <2>3, <2>4
<1>5. ASSUME NEW v \in Sweepers, v # w, NEW s \in sweep[v].due
      PROVE  Handled(v, s)'
  <2>1. Handled(v, s) /\ s \in Sessions
    BY <1>4, <1>5 DEF CompleteInv, DueInv
  <2>2. sweep'[v] = sweep[v]
    BY <1>1, <1>5
  <2>3. Settled(s) => Handled(v, s)'
    BY <1>2, <2>1 DEF Settled, Handled
  <2>4. CASE manifest'[s] = manifest[s]
    BY <2>1, <2>2, <2>3, <2>4 DEF Handled, Settled, Active, Allowed
  <2>5. CASE Settled(s)'
    BY <2>5 DEF Handled, Settled
  <2>6. QED
    BY <1>2, <1>5, <2>4, <2>5
\* The other sweeps.
<1>6. ASSUME NEW v \in Sweepers, v # w, NEW s \in sweep'[v].due
       PROVE  /\ (Active(v) \/ sweep[v].pc = "over")'
              /\ Resting(s)' /\ Handled(v, s)'
              /\ Active(v)' => now' - created'[s] >= ParseDuration(sweep'[v].days)
              /\ \A u \in Sweepers :
                   sweep'[u].pc = "delete" /\ sweep'[u].at = s
                     => Present(s)' \subseteq sweep'[u].keys
  <2>1. sweep'[v] = sweep[v]
    BY <1>1, <1>6
  <2>2. Active(v) \/ sweep[v].pc = "over"
    BY <1>6, <2>1 DEF CompleteInv, DueInv
  <2>3. QED
    BY <1>4, <1>5, <1>6, <2>1, <2>2 DEF Active
\* The sweep that takes the step.
<1> DEFINE Goes == \A s \in sweep'[w].due :
                     /\ (Active(w) \/ sweep[w].pc = "over")'
                     /\ Resting(s)' /\ Handled(w, s)'
                     /\ Active(w)' => now' - created'[s] >= ParseDuration(sweep'[w].days)
                     /\ \A v \in Sweepers :
                          sweep'[v].pc = "delete" /\ sweep'[v].at = s
                            => Present(s)' \subseteq sweep'[v].keys
<1> SUFFICES Goes
  BY <1>1, <1>6 DEF CompleteInv, DueInv
<1>7. CASE BeginSweep(w)
  <2>1. sweep'[w].due = {}
    BY <1>1, <1>7, BeginFields DEF CompleteInv, DueInv, Active
  <2>2. QED
    BY <2>1
<1>8. CASE ListSessions(w)
  <2>1. CASE sweep'[w].due = {}
    BY <2>1
  <2>2. CASE /\ sweep'[w].pc = "read" /\ sweep'[w].due = Due(w)
             /\ sweep'[w].force = sweep[w].force /\ sweep'[w].days = sweep[w].days
             /\ sweep'[w].unread = {s \in Sessions : manifest[s] # "none"} \cup files
    <3> SUFFICES ASSUME NEW s \in Due(w)
                 PROVE  /\ Resting(s)' /\ Handled(w, s)'
                        /\ now' - created'[s] >= ParseDuration(sweep'[w].days)
                        /\ \A v \in Sweepers :
                             sweep'[v].pc = "delete" /\ sweep'[v].at = s
                               => Present(s)' \subseteq sweep'[v].keys
      BY <2>2 DEF Active
    <3>1. /\ s \in Sessions /\ Resting(s) /\ manifest[s] # "none"
          /\ now - created[s] >= ParseDuration(sweep[w].days)
          /\ Allowed(w, manifest[s]) /\ \A v \in Sweepers : sweep[v].at # s
      BY DEF Due, Allowed
    <3>2. Resting(s)' /\ UNCHANGED storeVars
      BY <1>1, <1>8, <3>1, ListFields DEF Resting
    <3>3. Handled(w, s)'
      BY <2>2, <3>1, <3>2 DEF Handled, Allowed, storeVars
    <3>4. QED
      BY <1>1, <1>3, <2>2, <3>1, <3>2, <3>3
  <2>3. QED
    BY <1>1, <1>8, <2>1, <2>2, ListFields
\* In all other steps what is due to the sweep is what was.
<1>9. ASSUME sweep'[w].due = sweep[w].due, sweep[w].pc # "over",
             sweep'[w].pc = "over" \/ (Active(w)' /\ sweep'[w].days = sweep[w].days),
             \A s \in sweep[w].due : Settled(s)' \/ Handled(w, s)'
      PROVE  Goes
  <2>1. \A s \in sweep[w].due : Handled(w, s)'
    BY <1>9 DEF Handled, Settled
  <2>2. \A s \in sweep[w].due : Active(w)
    BY <1>9 DEF CompleteInv, DueInv
  <2>3. Active(w)' => sweep'[w].days = sweep[w].days
    BY <1>9 DEF Active
  <2>4. QED
    BY <1>4, <1>9, <2>1, <2>2, <2>3
<1>10. CASE ReadAll(w)
  <2>1. /\ sweep[w].pc = "read" /\ sweep'[w].pc = "choose" /\ sweep[w].unread = {}
        /\ sweep'[w].due = sweep[w].due
        /\ sweep'[w].force = sweep[w].force /\ sweep'[w].days = sweep[w].days
        /\ sweep'[w].left = sweep[w].left /\ sweep'[w].seen = sweep[w].seen
    BY <1>1, <1>10, ReadAllFields
  <2>2. ASSUME NEW s \in sweep[w].due
        PROVE  Settled(s)' \/ Handled(w, s)'
    <3>1. Settled(s) \/ (s \in sweep[w].left /\ Allowed(w, sweep[w].seen[s]))
      BY <1>4, <2>1, <2>2 DEF Handled, Settled
    <3>2. QED
      BY <1>2, <1>4, <2>1, <2>2, <3>1 DEF Handled, Active, Allowed
  <2>3. QED
    BY <1>9, <2>1, <2>2 DEF Active
<1>11. CASE EndSweep(w)
  <2>1. /\ sweep[w].pc = "choose" /\ sweep[w].left = {} /\ sweep'[w].pc = "over"
        /\ sweep'[w].due = sweep[w].due
    BY <1>1, <1>11, EndFields
  <2>2. ASSUME NEW s \in sweep[w].due
        PROVE  Settled(s)'
    BY <1>2, <1>4, <2>1, <2>2 DEF Handled, Settled
  <2>3. QED
    BY <1>9, <2>1, <2>2
<1>12. ASSUME NEW u \in Sessions, ReadManifest(w, u)
       PROVE  Goes
  <2>1. /\ sweep[w].pc = "read" /\ sweep'[w].pc = "read" /\ UNCHANGED storeVars
        /\ sweep'[w].due = sweep[w].due
        /\ sweep'[w].force = sweep[w].force /\ sweep'[w].days = sweep[w].days
        /\ sweep'[w].unread = sweep[w].unread \ {u} /\ u \in sweep[w].unread
    BY <1>1, <1>12, ReadFields DEF ReadManifest
  <2>2. \/ /\ sweep'[w].left = sweep[w].left \cup {u}
           /\ sweep'[w].seen = [sweep[w].seen EXCEPT ![u] = manifest[u]]
        \/ /\ sweep'[w].left = sweep[w].left /\ sweep'[w].seen = sweep[w].seen
           /\ u \in sweep'[w].failed \/ manifest[u] = "none"
    BY <1>1, <1>12, ReadFields
  <2>3. ASSUME NEW s \in sweep[w].due
        PROVE  Settled(s)' \/ Handled(w, s)'
    <3>1. s \in Sessions /\ sweep[w].seen \in [Sessions -> Statuses]
      BY <1>1, <1>4, <2>3, SweepFields
    <3>2. CASE Settled(s)
      BY <1>2, <3>1, <3>2
    <3>3. CASE s # u /\ s \in sweep[w].unread /\ manifest[s] # "none" /\ Allowed(w, manifest[s])
      BY <2>1, <3>3 DEF Handled, Allowed, storeVars
    <3>4. CASE s = u /\ manifest[s] # "none" /\ Allowed(w, manifest[s])
      <4>1. CASE u \in sweep'[w].failed
        BY <3>4, <4>1 DEF Settled
      <4>2. CASE /\ sweep'[w].left = sweep[w].left \cup {u}
                 /\ sweep'[w].seen = [sweep[w].seen EXCEPT ![u] = manifest[u]]
        BY <2>1, <3>1, <3>4, <4>2 DEF Handled, Active, Allowed
      <4>3. QED
        BY <2>2, <3>4, <4>1, <4>2
    <3>5. CASE s # u /\ s \in sweep[w].left /\ Allowed(w, sweep[w].seen[s])
               /\ s \notin sweep[w].unread
      <4>1. s \in sweep'[w].left /\ sweep'[w].seen[s] = sweep[w].seen[s]
        BY <2>2, <3>1, <3>5
      <4>2. QED
        BY <2>1, <3>5, <4>1 DEF Handled, Active, Allowed
    <3>6. QED
      BY <1>4, <2>1, <2>3, <3>2, <3>3, <3>4, <3>5 DEF Handled, Settled
  <2>4. QED
    BY <1>9, <2>1, <2>3 DEF Active
<1>13. ASSUME NEW u \in Sessions, Consider(w, u)
       PROVE  Goes
  <2>1. /\ sweep[w].pc = "choose" /\ sweep'[w].pc \in {"choose", "objects"}
        /\ sweep'[w].due = sweep[w].due
        /\ sweep'[w].force = sweep[w].force /\ sweep'[w].days = sweep[w].days
        /\ sweep'[w].left = sweep[w].left \ {u}
        /\ \A s \in Sessions \ {u} : sweep'[w].seen[s] = sweep[w].seen[s]
        /\ ~Selected(w, u) \/ (sweep'[w].pc = "objects" /\ sweep'[w].at = u)
    BY <1>1, <1>13, ConsiderFields
  <2>2. ASSUME NEW s \in sweep[w].due
        PROVE  Settled(s)' \/ Handled(w, s)'
    <3>1. /\ s \in Sessions
          /\ Settled(s) \/ (s \in sweep[w].left /\ Allowed(w, sweep[w].seen[s]))
      BY <1>4, <2>1, <2>2 DEF Handled, Settled
    <3>2. CASE Settled(s)
      BY <1>2, <3>1, <3>2
    <3>3. CASE s # u /\ s \in sweep[w].left /\ Allowed(w, sweep[w].seen[s])
      BY <2>1, <3>1, <3>3 DEF Handled, Active, Allowed
    <3>4. CASE s = u /\ Allowed(w, sweep[w].seen[s])
      <4>1. now - created[s] >= ParseDuration(sweep[w].days)
        BY <1>4, <2>1, <2>2 DEF Active
      <4>2. Selected(w, u)
        BY <3>4, <4>1 DEF Selected, Allowed
      <4>3. QED
        BY <2>1, <3>4, <4>2 DEF Handled
    <3>5. QED
      BY <3>1, <3>2, <3>3, <3>4
  <2>3. QED
    BY <1>9, <2>1, <2>2 DEF Active
<1>14. ASSUME NEW failed, GoOn(w, failed), sweep[w].pc \in {"objects", "delete"},
              \A s \in sweep[w].due : sweep[w].at = s => Settled(s)'
       PROVE  Goes
  <2>1. /\ sweep'[w].pc = "choose" /\ sweep'[w].due = sweep[w].due
        /\ sweep'[w].force = sweep[w].force /\ sweep'[w].days = sweep[w].days
        /\ sweep'[w].left = sweep[w].left /\ sweep'[w].seen = sweep[w].seen
    BY <1>1, <1>14, GoOnFields
  <2>2. ASSUME NEW s \in sweep[w].due
        PROVE  Settled(s)' \/ Handled(w, s)'
    <3>1. \/ Settled(s) \/ sweep[w].at = s
          \/ s \in sweep[w].left /\ Allowed(w, sweep[w].seen[s])
      BY <1>4, <1>14, <2>2 DEF Handled, Settled
    <3>2. QED
      BY <1>2, <1>4, <1>14, <2>1, <2>2, <3>1 DEF Handled, Active, Allowed
  <2>3. QED
    BY <1>9, <1>14, <2>1, <2>2 DEF Active
<1>15. CASE ListObjects(w)
  <2>1. sweep[w].pc = "objects"
    BY <1>1, <1>15, ObjectsFields
  <2>2. CASE /\ sweep'[w].pc = "delete" /\ sweep'[w].at = sweep[w].at
             /\ sweep'[w].due = sweep[w].due
             /\ sweep'[w].force = sweep[w].force /\ sweep'[w].days = sweep[w].days
             /\ sweep'[w].left = sweep[w].left /\ sweep'[w].seen = sweep[w].seen
    <3>1. ASSUME NEW s \in sweep[w].due
          PROVE  Settled(s)' \/ Handled(w, s)'
      <4>1. \/ Settled(s) \/ sweep[w].at = s
            \/ s \in sweep[w].left /\ Allowed(w, sweep[w].seen[s])
        BY <1>4, <2>1, <3>1 DEF Handled, Settled
      <4>2. QED
        BY <1>2, <1>4, <2>2, <3>1, <4>1 DEF Handled, Active, Allowed
    <3>2. QED
      BY <1>9, <2>1, <2>2, <3>1 DEF Active
  <2>3. CASE GoOn(w, {}) /\ Present(sweep[w].at) = {}
    <3>1. \A s \in sweep[w].due : sweep[w].at = s => Settled(s)'
      BY <1>2, <1>4, <2>3 DEF Settled
    <3>2. QED
      BY <1>14, <2>1, <2>3, <3>1
  <2>4. CASE GoOn(w, {sweep[w].at})
    <3>1. \A s \in sweep[w].due : sweep[w].at = s => Settled(s)'
      BY <1>1, <2>4, GoOnFields DEF Settled
    <3>2. QED
      BY <1>14, <2>1, <2>4, <3>1
  <2>5. QED
    BY <1>1, <1>15, <2>2, <2>3, <2>4, ObjectsFields
<1>16. CASE DeleteObjects(w)
  <2>1. /\ sweep[w].pc = "delete"
        /\ \/ GoOn(w, {})
           \/ GoOn(w, {sweep[w].at})
    BY <1>16 DEF DeleteObjects
  <2>2. \A s \in sweep[w].due : sweep[w].at = s => Settled(s)'
    BY <1>2, <1>16
  <2>3. CASE GoOn(w, {})
    BY <1>14, <2>1, <2>2, <2>3
  <2>4. CASE GoOn(w, {sweep[w].at})
    BY <1>14, <2>1, <2>2, <2>4
  <2>5. QED
    BY <2>1, <2>3, <2>4
<1>17. QED
  BY <1>7, <1>8, <1>10, <1>11, <1>12, <1>13, <1>15, <1>16 DEF Sweeps

LEMMA CompleteStep == CompleteInv /\ [Next]_vars => CompleteInv'
<1>1. ASSUME CompleteInv, UNCHANGED vars
      PROVE  CompleteInv'
  <2>1. TypeInv' /\ UNCHANGED <<now, owner, created, busy, manifest, files, sweep>>
    BY <1>1, StutterTypes DEF CompleteInv, vars, ownerVars, storeVars
  <2>2. QED
    BY <1>1, <2>1 DEF CompleteInv, DueInv, Resting, Handled, Allowed, Active, Present
<1>2. QED
  BY <1>1, CompleteProgram, CompleteSweep, CompleteTick DEF Next

\* A sweep deletes completely what it was asked for and found at rest, or some
\* sweep reports that it failed to: for any number of sweeps at once.
THEOREM SweepCompleteAlways == Spec => []SweepComplete
<1>1. Init => CompleteInv
  BY InitTypes DEF Init, CompleteInv, DueInv, NoSweep
<1>2. CompleteInv => SweepComplete
  BY DEF CompleteInv, DueInv, SweepComplete, Handled, Active
<1>3. QED
  BY <1>1, <1>2, CompleteStep, PTL DEF Spec
=============================================================================
