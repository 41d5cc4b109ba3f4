---------------------------- MODULE SessionStore ----------------------------
(***************************************************************************)
(* The sessions of a bucket: the programs that write them, and the sweeps  *)
(* (burst-core session cleanup --all --older-than) that list them, read    *)
(* their manifests and delete some, while the programs and time go on.     *)
(***************************************************************************)
EXTENDS Integers

CONSTANTS
  Sessions, NoSession,
  Sweepers,    \* sweeps, each run once
  Limits,      \* the days given as --older-than; 0 stands for no such option
  Day,         \* ticks of the clock in a day
  Wrap,        \* durations are integers modulo this (2^64 nanoseconds)
  MaxSubmit,   \* ticks that a submission takes at most, all its waves included
  MaxSweep,    \* ticks that a sweep takes at most
  MaxTime,     \* last tick, bounds the model
  MaxFaults    \* requests that fail, bounds the model

ASSUME StoreAssumption ==
  /\ NoSession \notin Sessions /\ Limits \subseteq Int /\ Day \in Nat \ {0} /\ Wrap \in Nat \ {0}
  /\ MaxSubmit \in Nat /\ MaxSweep \in Nat /\ MaxTime \in Nat /\ MaxFaults \in Nat

VARIABLES
  now,
  owner,      \* owner[s]: how far the program of session s is
  api,        \* api[s]: "map" or "submit"
  created,    \* created[s]: CreatedAt of the manifest
  lost,       \* sessions whose manifest was never marked running: the put failed
  busy,       \* sessions that have containers, which write files
  manifest,   \* manifest[s]: its status in the bucket, or "none"
  files,      \* sessions that have other objects
  sweep,      \* sweep[w]: the state of sweep w
  faults      \* requests that have failed

ownerVars == <<owner, api, created, lost, busy>>
storeVars == <<manifest, files>>
vars == <<now, ownerVars, storeVars, sweep, faults>>

Statuses == {"none", "initializing", "running", "complete"}
Objects == {"manifest", "files"}
Sweep ==
  [pc : {"idle", "list", "read", "choose", "objects", "delete", "over"},
   force : BOOLEAN, days : Limits \cup {0}, began : 0..MaxTime,
   unread : SUBSET Sessions,        \* listed, the manifest not yet read
   seen : [Sessions -> Statuses],   \* the statuses that were read
   left : SUBSET Sessions,          \* still to be considered
   at : Sessions \cup {NoSession}, keys : SUBSET Objects,
   failed : SUBSET Sessions,        \* skipped, or deleted in part
   due : SUBSET Sessions]           \* history: what it has to delete

NoSweep ==
  [pc |-> "idle", force |-> FALSE, days |-> 0, began |-> 0, unread |-> {},
   seen |-> [s \in Sessions |-> "none"], left |-> {}, at |-> NoSession, keys |-> {},
   failed |-> {}, due |-> {}]

TypeOK ==
  /\ now \in 0..MaxTime
  /\ owner \in [Sessions -> {"idle", "begun", "written", "uploaded", "launched", "marked",
                             "working", "detached", "answered", "ended"}]
  /\ api \in [Sessions -> {"map", "submit"}] /\ created \in [Sessions -> 0..MaxTime]
  /\ lost \subseteq Sessions /\ busy \subseteq Sessions
  /\ manifest \in [Sessions -> Statuses] /\ files \subseteq Sessions
  /\ sweep \in [Sweepers -> Sweep] /\ faults \in 0..MaxFaults

Init ==
  /\ now = 0
  /\ owner = [s \in Sessions |-> "idle"] /\ api = [s \in Sessions |-> "map"]
  /\ created = [s \in Sessions |-> 0] /\ lost = {} /\ busy = {}
  /\ manifest = [s \in Sessions |-> "none"] /\ files = {}
  /\ sweep = [w \in Sweepers |-> NoSweep] /\ faults = 0

Well == faults' = faults
Fails == faults < MaxFaults /\ faults' = faults + 1
-----------------------------------------------------------------------------
(* The program of a session.                                               *)

At(s, pc) == owner[s] = pc
Goto(s, pc) == owner' = [owner EXCEPT ![s] = pc]
Frame == UNCHANGED <<now, api, sweep>>

\* CreatedAt is the time before the first request.
Begin(s) ==
  /\ At(s, "idle") /\ Goto(s, "begun") /\ created' = [created EXCEPT ![s] = now]
  /\ \E call \in {"map", "submit"} : api' = [api EXCEPT ![s] = call]
  /\ UNCHANGED <<now, sweep, lost, busy, storeVars>> /\ Well

WriteInitial(s) ==
  /\ At(s, "begun") /\ Goto(s, "written")
  /\ manifest' = [manifest EXCEPT ![s] = "initializing"]
  /\ UNCHANGED <<created, lost, busy, files>> /\ Frame /\ Well

UploadTasks(s) ==
  /\ At(s, "written") /\ Goto(s, "uploaded") /\ files' = files \cup {s}
  /\ UNCHANGED <<created, lost, busy, manifest>> /\ Frame /\ Well

\* Map marks the manifest and launches; Submit launches, wave by wave, and
\* marks when it has launched all.  That the put fails is not looked at.
MarkRunning(s) ==
  /\ \/ api[s] = "map" /\ At(s, "uploaded") /\ Goto(s, "marked")
     \/ api[s] = "submit" /\ At(s, "launched") /\ Goto(s, "detached")
  /\ \/ manifest' = [manifest EXCEPT ![s] = "running"] /\ lost' = lost /\ Well
     \/ Fails /\ manifest' = manifest /\ lost' = lost \cup {s}
  /\ UNCHANGED <<created, busy, files>> /\ Frame

LaunchWorkers(s) ==
  /\ \/ api[s] = "map" /\ At(s, "marked") /\ Goto(s, "working")
     \/ api[s] = "submit" /\ At(s, "uploaded") /\ Goto(s, "launched")
  /\ busy' = busy \cup {s}
  /\ UNCHANGED <<created, lost, storeVars>> /\ Frame /\ Well

\* Map has all results and rewrites the manifest, also one that was deleted.
MarkComplete(s) ==
  /\ At(s, "working") /\ s \notin busy /\ Goto(s, "answered")
  /\ \/ manifest' = [manifest EXCEPT ![s] = "complete"] /\ Well
     \/ Fails /\ manifest' = manifest
  /\ UNCHANGED <<created, lost, busy, files>> /\ Frame

CleanupTaskFiles(s) ==
  /\ At(s, "answered") /\ Goto(s, "ended")
  /\ \/ files' = files \ {s} /\ Well
     \/ Fails /\ files' = files
  /\ UNCHANGED <<created, lost, busy, manifest>> /\ Frame

\* Slip: a program that ends early says so in its manifest.
StopsSlip(s) ==
  /\ owner[s] \notin {"idle", "detached", "ended"} /\ Goto(s, "ended")
  /\ manifest' = [manifest EXCEPT ![s] = "failed"]
  /\ UNCHANGED <<created, lost, busy, files>> /\ Frame /\ Well

\* An error, a deadline, or the end of the process.
Stops(s) ==
  /\ owner[s] \notin {"idle", "detached", "ended"} /\ Goto(s, "ended")
  /\ UNCHANGED <<created, lost, busy, storeVars>> /\ Frame /\ Well

\* The containers write statuses and results, whatever was deleted, and end.
WorkersWrite(s) ==
  /\ s \in busy /\ files' = files \cup {s}
  /\ UNCHANGED <<owner, created, lost, busy, manifest>> /\ Frame /\ Well

WorkersEnd(s) ==
  /\ s \in busy /\ busy' = busy \ {s}
  /\ UNCHANGED <<owner, created, lost, storeVars>> /\ Frame /\ Well

Program(s) ==
  \/ Begin(s) \/ WriteInitial(s) \/ UploadTasks(s) \/ MarkRunning(s) \/ LaunchWorkers(s)
  \/ MarkComplete(s) \/ CleanupTaskFiles(s) \/ Stops(s) \/ WorkersWrite(s) \/ WorkersEnd(s)
-----------------------------------------------------------------------------
(* A sweep.                                                                *)

SweepFrame == UNCHANGED <<now, ownerVars>>
Becomes(w, new) == sweep' = [sweep EXCEPT ![w] = new]

\* time.Duration(n) * 24 * time.Hour, in signed integers.
ParseDuration(days) == ((days * Day + Wrap \div 2) % Wrap) - Wrap \div 2

BeginSweep(w) ==
  /\ sweep[w].pc = "idle"
  /\ \E force \in BOOLEAN, days \in Limits :
       Becomes(w, [sweep[w] EXCEPT !.pc = "list", !.force = force, !.days = days,
                                   !.began = now])
  /\ Well /\ UNCHANGED storeVars /\ SweepFrame

\* No program writes to the session any more.
Resting(s) == s \notin busy /\ owner[s] \in {"detached", "answered", "ended"}

\* The sessions that the sweep is asked for, that nothing writes any more and
\* that no other sweep has begun to delete.
Due(w) ==
  {s \in Sessions : /\ Resting(s) /\ manifest[s] # "none"
                    /\ now - created[s] >= ParseDuration(sweep[w].days)
                    /\ sweep[w].force \/ manifest[s] # "running"
                    /\ \A v \in Sweepers : sweep[v].at # s}

\* ListSessions: the sessions that have any object, ...
ListSessions(w) ==
  /\ sweep[w].pc = "list"
  /\ \/ /\ Becomes(w, [sweep[w] EXCEPT !.pc = "read", !.due = Due(w),
                         !.unread = {s \in Sessions : manifest[s] # "none"} \cup files])
        /\ Well
     \/ Fails /\ Becomes(w, [NoSweep EXCEPT !.pc = "over", !.failed = Sessions])
  /\ UNCHANGED storeVars /\ SweepFrame

\* ... and those among them whose manifest can be read.
ReadManifest(w, s) ==
  /\ sweep[w].pc = "read" /\ s \in sweep[w].unread
  /\ LET read == [sweep[w] EXCEPT !.unread = @ \ {s}] IN
     \/ /\ manifest[s] # "none"
        /\ Becomes(w, [read EXCEPT !.seen[s] = manifest[s], !.left = @ \cup {s}])
        /\ Well
     \/ manifest[s] = "none" /\ Becomes(w, read) /\ Well
     \/ Fails /\ Becomes(w, [read EXCEPT !.failed = @ \cup {s}])
  /\ UNCHANGED storeVars /\ SweepFrame

ReadAll(w) ==
  /\ sweep[w].pc = "read" /\ sweep[w].unread = {}
  /\ Becomes(w, [sweep[w] EXCEPT !.pc = "choose"])
  /\ Well /\ UNCHANGED storeVars /\ SweepFrame

\* Slip: the age is looked at only when the status was not enough.
SelectedSlip(w, s) == sweep[w].force \/ sweep[w].seen[s] # "running"

\* Neither too young now, nor running when the manifest was read.
Selected(w, s) ==
  /\ ParseDuration(sweep[w].days) <= 0 \/ now - created[s] >= ParseDuration(sweep[w].days)
  /\ sweep[w].force \/ sweep[w].seen[s] # "running"

\* The next session, the newest first.
Consider(w, s) ==
  /\ sweep[w].pc = "choose" /\ s \in sweep[w].left
  /\ \A u \in sweep[w].left : created[u] <= created[s]
  /\ LET next == [sweep[w] EXCEPT !.left = @ \ {s}, !.seen[s] = "none"] IN
     Becomes(w, IF Selected(w, s) THEN [next EXCEPT !.pc = "objects", !.at = s] ELSE next)
  /\ Well /\ UNCHANGED storeVars /\ SweepFrame

EndSweep(w) ==
  /\ sweep[w].pc = "choose" /\ sweep[w].left = {}
  /\ Becomes(w, [NoSweep EXCEPT !.pc = "over", !.failed = sweep[w].failed,
                                !.due = sweep[w].due])
  /\ Well /\ UNCHANGED storeVars /\ SweepFrame

\* Slip: a failure ends the sweep.
GoOnSlip(w, failed) ==
  Becomes(w, [sweep[w] EXCEPT !.pc = IF failed = {} THEN "choose" ELSE "over",
                              !.at = NoSession, !.keys = {}, !.failed = @ \cup failed])

GoOn(w, failed) ==
  Becomes(w, [sweep[w] EXCEPT !.pc = "choose", !.at = NoSession, !.keys = {},
                              !.failed = @ \cup failed])

Present(s) == {k \in Objects : IF k = "files" THEN s \in files ELSE manifest[s] # "none"}

\* DeleteSession: list the session's objects, ...
ListObjects(w) ==
  LET s == sweep[w].at IN
  /\ sweep[w].pc = "objects"
  /\ \/ /\ Present(s) # {} /\ Well
        /\ Becomes(w, [sweep[w] EXCEPT !.pc = "delete", !.keys = Present(s)])
     \/ Present(s) = {} /\ GoOn(w, {}) /\ Well
     \/ Fails /\ GoOn(w, {s})
  /\ UNCHANGED storeVars /\ SweepFrame

\* ... and delete them.  A failure is printed, that of single keys is not even
\* seen, and the next session considered.
DeleteObjects(w) ==
  LET s == sweep[w].at IN
  /\ sweep[w].pc = "delete"
  /\ \E gone \in SUBSET sweep[w].keys :
       /\ manifest' = IF "manifest" \in gone THEN [manifest EXCEPT ![s] = "none"] ELSE manifest
       /\ files' = IF "files" \in gone THEN files \ {s} ELSE files
       /\ \/ gone = sweep[w].keys /\ GoOn(w, {}) /\ Well
          \/ Fails /\ GoOn(w, {s})
  /\ SweepFrame

Sweeps(w) ==
  \/ BeginSweep(w) \/ ListSessions(w) \/ ReadAll(w) \/ EndSweep(w)
  \/ \E s \in Sessions : ReadManifest(w, s) \/ Consider(w, s)
  \/ ListObjects(w) \/ DeleteObjects(w)
-----------------------------------------------------------------------------
(* Time, and what is assumed of it: a submission that has not yet marked   *)
(* its manifest, and a sweep, end in time.                                 *)

Submitting(s) == owner[s] \in {"begun", "written", "uploaded", "launched"}
Sweeping(w) == sweep[w].pc \notin {"idle", "over"}

Tick ==
  /\ now < MaxTime /\ now' = now + 1
  /\ \A s \in Sessions : Submitting(s) => now < created[s] + MaxSubmit
  /\ \A w \in Sweepers : Sweeping(w) => now < sweep[w].began + MaxSweep
  /\ UNCHANGED <<ownerVars, storeVars, sweep, faults>>

Next ==
  \/ \E s \in Sessions : Program(s)
  \/ \E w \in Sweepers : Sweeps(w)
  \/ Tick

Spec == Init /\ [][Next]_vars
-----------------------------------------------------------------------------
(* Properties.                                                             *)

\* The program will still read what is in the bucket, or somebody who attaches
\* to the detached session.
InUse(s) ==
  owner[s] \in {"written", "uploaded", "launched", "marked", "working", "detached"}

\* The limit is longer than a submission and a sweep together, and its duration
\* does not overflow.
SafeLimit(days) == days * Day > MaxSubmit + MaxSweep /\ 2 * days * Day < Wrap

\* A sweep without --force, however old what it has read is and whatever other
\* sweeps delete, spares the sessions in use, if its limit is safe and the
\* manifest was marked.
SweepSparesInUse ==
  \A w \in Sweepers :
    LET s == sweep[w].at IN
    /\ sweep[w].pc \in {"objects", "delete"} /\ ~sweep[w].force
    /\ SafeLimit(sweep[w].days) /\ InUse(s)
    => s \in lost

\* A sweep deletes completely each session that it was asked for and that was at
\* rest with a manifest when it listed them: neither a failure on another
\* session nor a sweep that begins beside it makes it pass one over.
SweepComplete ==
  \A w \in Sweepers : sweep[w].pc = "over" =>
    \A s \in sweep[w].due : Present(s) = {} \/ \E v \in Sweepers : s \in sweep[v].failed
=============================================================================
