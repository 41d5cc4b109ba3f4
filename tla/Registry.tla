------------------------------ MODULE Registry ------------------------------
(***************************************************************************)
(* The function registry: a program registers functions under names, the   *)
(* client finds a function's name by its code pointer, and a worker, which *)
(* is another process of the same program, finds the function by the name. *)
(***************************************************************************)
EXTENDS Naturals, Sequences, FiniteSets

CONSTANTS
  Names,    \* names, maybe "", which no worker accepts
  Plain,    \* values of type func(T) (U, error)
  Simple,   \* values of type func(T) U, which RegisterSimple wraps
  Codes,    \* the code that plain functions may have
  Wrapper,  \* the code of the wrapper in RegisterSimple, shared by them all
  None,     \* no entry
  MaxRegs   \* registrations of the program, bounds the model

ASSUME RegistryAssumption ==
  /\ Plain \cap Simple = {} /\ Wrapper \notin Codes
  /\ None \notin Names \cup Plain \cup Simple /\ MaxRegs \in Nat

Fns == Plain \cup Simple
Regs == [name : Names, fn : Fns]
Programs == UNION {[1..n -> Regs] : n \in 0..MaxRegs}

VARIABLES
  prog,     \* the program's registrations
  early,    \* those that run before the program looks whether it is a worker
  code,     \* code[f]: closures of one literal, for example, share their code
  stored,   \* stored[i]: how much of registration i the client has done
  reverse,  \* the client's map from code to name
  call,     \* a call of Map or Submit
  started,  \* registrations that the worker has done
  entries   \* the worker's map from name to function

program == <<prog, early, code>>
vars == <<program, stored, reverse, call, started, entries>>

\* Slip: the pointer is taken of something that all functions share.
PointerSlip(f) == Wrapper

Pointer(f) == IF f \in Simple THEN Wrapper ELSE code[f]
Outcomes == {"ready", "unregistered", "sent", "ran", "unknown", "lost"}

TypeOK ==
  /\ prog \in Programs /\ early \in 0..Len(prog) /\ code \in [Plain -> Codes]
  /\ stored \in [1..Len(prog) -> {"todo", "entry", "both"}]
  /\ reverse \in [Codes \cup {Wrapper} -> Names \cup {None}]
  /\ call \in [state : Outcomes, fn : Fns \cup {None}, name : Names \cup {None},
               ran : Fns \cup {None}]
  /\ started \in 0..early /\ entries \in [Names -> Fns \cup {None}]

Init ==
  /\ prog \in Programs /\ early \in 0..Len(prog) /\ code \in [Plain -> Codes]
  /\ stored = [i \in 1..Len(prog) |-> "todo"]
  /\ reverse = [c \in Codes \cup {Wrapper} |-> None]
  /\ call = [state |-> "ready", fn |-> None, name |-> None, ran |-> None]
  /\ started = 0 /\ entries = [n \in Names |-> None]
-----------------------------------------------------------------------------
(* The client.                                                             *)

\* Package initialisation is sequential; main may register from any goroutine.
MayRegister(i) == \A k \in 1..Len(prog) : k <= early /\ k < i => stored[k] = "both"
MainRuns == \A k \in 1..early : stored[k] = "both"

\* Register stores the entry by name, which the client does not read, ...
StoreEntry(i) ==
  /\ stored[i] = "todo" /\ MayRegister(i) /\ stored' = [stored EXCEPT ![i] = "entry"]
  /\ UNCHANGED <<program, reverse, call, started, entries>>

\* Slip: a name that is registered again leaves its earlier function.
StoreNameSlip(i) ==
  /\ stored[i] = "entry" /\ stored' = [stored EXCEPT ![i] = "both"]
  /\ reverse' = [c \in DOMAIN reverse |->
                   IF c = Pointer(prog[i].fn) THEN prog[i].name
                   ELSE IF reverse[c] = prog[i].name THEN None ELSE reverse[c]]
  /\ UNCHANGED <<program, call, started, entries>>

\* ... and then the name by code pointer.
StoreName(i) ==
  /\ stored[i] = "entry" /\ stored' = [stored EXCEPT ![i] = "both"]
  /\ reverse' = [reverse EXCEPT ![Pointer(prog[i].fn)] = prog[i].name]
  /\ UNCHANGED <<program, call, started, entries>>

\* Map and Submit take only plain functions.
LookupName(f) ==
  /\ call.state = "ready" /\ MainRuns
  /\ LET name == reverse[Pointer(f)] IN
     call' = [call EXCEPT !.state = IF name = None THEN "unregistered" ELSE "sent",
                          !.fn = f, !.name = name]
  /\ UNCHANGED <<program, stored, reverse, started, entries>>
-----------------------------------------------------------------------------
(* A worker of the call.                                                   *)

\* Slip: the worker also registers what main registers after looking.
WorkerRegisterSlip ==
  /\ call.state = "sent" /\ started < Len(prog) /\ started' = started + 1
  /\ entries' = [entries EXCEPT ![prog[started'].name] = prog[started'].fn]
  /\ UNCHANGED <<program, stored, reverse, call>>

WorkerRegister ==
  /\ call.state = "sent" /\ started < early /\ started' = started + 1
  /\ entries' = [entries EXCEPT ![prog[started'].name] = prog[started'].fn]
  /\ UNCHANGED <<program, stored, reverse, call>>

\* Slip: the worker looks before its registrations are done.
LookupEntrySlip ==
  /\ call.state = "sent"
  /\ call' = IF call.name = "" THEN [call EXCEPT !.state = "lost"]
             ELSE IF entries[call.name] = None THEN [call EXCEPT !.state = "unknown"]
             ELSE [call EXCEPT !.state = "ran", !.ran = entries[call.name]]
  /\ UNCHANGED <<program, stored, reverse, started, entries>>

\* An empty name looks like a missing variable: the worker ends without a word.
\* An unknown one is reported as a failed task.
LookupEntry ==
  /\ call.state = "sent" /\ started = early
  /\ call' = IF call.name = "" THEN [call EXCEPT !.state = "lost"]
             ELSE IF entries[call.name] = None THEN [call EXCEPT !.state = "unknown"]
             ELSE [call EXCEPT !.state = "ran", !.ran = entries[call.name]]
  /\ UNCHANGED <<program, stored, reverse, started, entries>>

Next ==
  \/ \E i \in 1..Len(prog) : StoreEntry(i) \/ StoreName(i)
  \/ \E f \in Plain : LookupName(f)
  \/ WorkerRegister \/ LookupEntry

Spec == Init /\ [][Next]_vars
-----------------------------------------------------------------------------
(* Properties.                                                             *)

\* The worker calls the function that the caller passed, whichever registrations
\* race, unless the program registers another function with the same code, or
\* under a name that it also gave to the caller's.
CallsPassedFunction ==
  call.state = "ran" /\ call.ran # call.fn =>
    \E k \in 1..Len(prog) :
      /\ prog[k].fn # call.fn
      /\ \/ prog[k].fn \in Plain /\ code[prog[k].fn] = code[call.fn]
         \/ \E i \in 1..Len(prog) : prog[i].fn = call.fn /\ prog[i].name = prog[k].name

\* A worker that does not know the function, or ends without a word, is due to
\* a registration that comes after the program looked whether it is a worker,
\* or to an empty name.
WorkerKnowsName ==
  call.state \in {"unknown", "lost"} =>
    \/ call.name = ""
    \/ \A i \in 1..early : prog[i].name # call.name

\* A function that is refused as unregistered has no completed registration,
\* although its name or its code may have been registered again since.
RefusedOnlyUnregistered ==
  [][call.state = "ready" /\ call'.state = "unregistered" =>
       \A i \in 1..Len(prog) : stored[i] = "both" => prog[i].fn # call'.fn]_vars
=============================================================================
