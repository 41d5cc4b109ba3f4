--------------------------- MODULE Registry_proofs ---------------------------
(***************************************************************************)
(* Proofs about Registry: for any program, any order of its registrations  *)
(* and any sharing of code, which function a worker calls.                 *)
(***************************************************************************)
EXTENDS Registry, TLAPS

(* Types.                                                                  *)

LEMMA ProgramTypes ==
  ASSUME prog \in Programs
  PROVE  Len(prog) \in Nat /\ \A i \in 1..Len(prog) : prog[i] \in Regs
<1>1. PICK n \in 0..MaxRegs : prog \in [1..n -> Regs]
  BY DEF Programs
<1>2. n \in Nat
  BY <1>1, RegistryAssumption
<1>3. prog \in Seq(Regs)
  BY <1>1, <1>2
<1>4. QED
  BY <1>3

LEMMA RegTypes ==
  ASSUME NEW r \in Regs
  PROVE  r.name \in Names /\ r.fn \in Fns /\ r.name # None /\ r.fn # None
BY RegistryAssumption DEF Regs, Fns

LEMMA PointerTypes ==
  ASSUME code \in [Plain -> Codes], NEW f \in Fns
  PROVE  /\ Pointer(f) \in Codes \cup {Wrapper}
         /\ f \in Plain => Pointer(f) = code[f] /\ Pointer(f) # Wrapper
         /\ f \notin Plain => Pointer(f) = Wrapper
BY RegistryAssumption DEF Pointer, Fns

Sent == call.state \in {"sent", "ran", "unknown", "lost"}

\* A call that was sent has a name, and some registration has put it there.
SentInv ==
  Sent => /\ call.fn \in Plain /\ call.name \in Names
          /\ \E i \in 1..Len(prog) : /\ Pointer(prog[i].fn) = Pointer(call.fn)
                                     /\ prog[i].name = call.name

\* Each name in the client's map was put there by a registration that is
\* complete, and no registration is complete without a name for its code.
ReverseInv ==
  /\ \A c \in Codes \cup {Wrapper} : reverse[c] # None =>
       \E i \in 1..Len(prog) : Pointer(prog[i].fn) = c /\ prog[i].name = reverse[c]
  /\ \A i \in 1..Len(prog) : stored[i] = "both" => reverse[Pointer(prog[i].fn)] # None

\* The worker's map has the names that it has registered, and no others.
EntriesInv ==
  /\ \A n \in Names : entries[n] # None =>
       \E k \in 1..Len(prog) : prog[k].name = n /\ prog[k].fn = entries[n]
  /\ \A k \in 1..started : entries[prog[k].name] # None

\* What the worker has found.
FoundInv ==
  /\ call.state = "ran" =>
       \E k \in 1..Len(prog) : prog[k].name = call.name /\ prog[k].fn = call.ran
  /\ call.state = "unknown" => \A i \in 1..early : prog[i].name # call.name
  /\ call.state = "lost" => call.name = ""

RegistryInv == TypeOK /\ SentInv /\ ReverseInv /\ EntriesInv /\ FoundInv

\* What leaves the variables of a conjunct alone leaves it true.
LEMMA Frames ==
  /\ SentInv /\ UNCHANGED <<prog, code, call>> => SentInv'
  /\ ReverseInv /\ UNCHANGED <<prog, code, stored, reverse>> => ReverseInv'
  /\ EntriesInv /\ UNCHANGED <<prog, started, entries>> => EntriesInv'
  /\ FoundInv /\ UNCHANGED <<prog, early, call>> => FoundInv'
<1>1. SentInv /\ UNCHANGED <<prog, code, call>> => SentInv'
  BY DEF SentInv, Sent, Pointer
<1>2. ReverseInv /\ UNCHANGED <<prog, code, stored, reverse>> => ReverseInv'
  BY DEF ReverseInv, Pointer
<1>3. EntriesInv /\ UNCHANGED <<prog, started, entries>> => EntriesInv'
  BY DEF EntriesInv
<1>4. FoundInv /\ UNCHANGED <<prog, early, call>> => FoundInv'
  BY DEF FoundInv
<1>5. QED
  BY <1>1, <1>2, <1>3, <1>4

LEMMA InitInv == Init => RegistryInv
<1> SUFFICES ASSUME Init PROVE RegistryInv
  OBVIOUS
<1>1. Len(prog) \in Nat /\ \A i \in 1..Len(prog) : prog[i] \in Regs
  BY ProgramTypes DEF Init
<1>2. TypeOK
  BY <1>1 DEF Init, TypeOK, Outcomes
<1>3. QED
  BY <1>1, <1>2 DEF Init, RegistryInv, SentInv, ReverseInv, EntriesInv, FoundInv, Sent

LEMMA StepInv == RegistryInv /\ [Next]_vars => RegistryInv'
<1> SUFFICES ASSUME RegistryInv, [Next]_vars PROVE RegistryInv'
  OBVIOUS
<1>0. /\ TypeOK /\ Len(prog) \in Nat
      /\ \A i \in 1..Len(prog) : /\ prog[i] \in Regs
                                 /\ prog[i].name \in Names /\ prog[i].fn \in Fns
                                 /\ prog[i].name # None /\ prog[i].fn # None
                                 /\ Pointer(prog[i].fn) \in Codes \cup {Wrapper}
  BY ProgramTypes, RegTypes, PointerTypes DEF RegistryInv, TypeOK
<1>1. ASSUME NEW i \in 1..Len(prog), StoreEntry(i)
      PROVE  RegistryInv'
  <2>1. /\ stored' = [stored EXCEPT ![i] = "entry"] /\ stored[i] = "todo"
        /\ UNCHANGED <<prog, early, code, reverse, call, started, entries>>
    BY <1>1 DEF StoreEntry, program
  <2>2. TypeOK'
    BY <1>0, <2>1 DEF TypeOK
  <2>3. ReverseInv'
    <3>1. \A j \in 1..Len(prog) : stored'[j] = "both" => stored[j] = "both"
      BY <1>0, <2>1 DEF TypeOK
    <3>2. QED
      BY <2>1, <3>1 DEF RegistryInv, ReverseInv, Pointer
  <2>4. QED
    BY <2>1, <2>2, <2>3, Frames DEF RegistryInv
<1>2. ASSUME NEW i \in 1..Len(prog), StoreName(i)
      PROVE  RegistryInv'
  <2>1. /\ stored' = [stored EXCEPT ![i] = "both"]
        /\ reverse' = [reverse EXCEPT ![Pointer(prog[i].fn)] = prog[i].name]
        /\ UNCHANGED <<prog, early, code, call, started, entries>>
    BY <1>2 DEF StoreName, program
  <2>2. TypeOK'
    BY <1>0, <2>1 DEF TypeOK
  <2>3. ReverseInv'
    <3>1. \A j \in 1..Len(prog) : Pointer(prog[j].fn)' = Pointer(prog[j].fn)
      BY <2>1 DEF Pointer
    <3>2. \A c \in Codes \cup {Wrapper} :
            reverse'[c] = IF c = Pointer(prog[i].fn) THEN prog[i].name ELSE reverse[c]
      BY <1>0, <2>1 DEF TypeOK
    <3>3. \A j \in 1..Len(prog) : stored'[j] = IF j = i THEN "both" ELSE stored[j]
      BY <2>1 DEF RegistryInv, TypeOK
    <3>4. QED
      BY <1>0, <2>1, <3>1, <3>2, <3>3 DEF RegistryInv, ReverseInv
  <2>4. QED
    BY <2>1, <2>2, <2>3, Frames DEF RegistryInv
<1>3. ASSUME NEW f \in Plain, LookupName(f)
      PROVE  RegistryInv'
  <2> DEFINE name == reverse[Pointer(f)]
  <2>1. /\ name \in Names \cup {None} /\ Pointer(f) \in Codes \cup {Wrapper} /\ f \in Fns
    BY <1>0, PointerTypes DEF TypeOK, Fns
  <2>2. /\ call' = [call EXCEPT !.state = IF name = None THEN "unregistered" ELSE "sent",
                                !.fn = f, !.name = name]
        /\ UNCHANGED <<prog, early, code, stored, reverse, started, entries>>
    BY <1>3 DEF LookupName, program
  <2>3. TypeOK'
    BY <1>0, <2>1, <2>2 DEF TypeOK, Outcomes
  <2>4. /\ call'.state = IF name = None THEN "unregistered" ELSE "sent"
        /\ call'.fn = f /\ call'.name = name
    BY <1>0, <2>2 DEF TypeOK
  <2>5. name # None => \E i \in 1..Len(prog) : /\ Pointer(prog[i].fn) = Pointer(f)
                                               /\ prog[i].name = name
    BY <2>1 DEF RegistryInv, ReverseInv
  <2>6. SentInv'
    <3>1. CASE name = None
      BY <2>4, <3>1 DEF SentInv, Sent
    <3>2. CASE name # None
      <4>1. PICK i \in 1..Len(prog) : Pointer(prog[i].fn) = Pointer(f) /\ prog[i].name = name
        BY <2>5, <3>2
      <4>2. Pointer(prog[i].fn)' = Pointer(prog[i].fn) /\ Pointer(call.fn)' = Pointer(f)
        BY <2>2, <2>4 DEF Pointer
      <4>3. QED
        BY <2>1, <2>2, <2>4, <3>2, <4>1, <4>2 DEF SentInv
    <3>3. QED
      BY <3>1, <3>2
  <2>7. FoundInv'
    BY <2>4 DEF FoundInv
  <2>8. QED
    BY <2>2, <2>3, <2>6, <2>7, Frames DEF RegistryInv
<1>4. CASE WorkerRegister
  <2>1. PICK n \in 1..Len(prog) :
          /\ n = started + 1 /\ started' = n /\ n \in 0..early
          /\ entries' = [entries EXCEPT ![prog[n].name] = prog[n].fn]
          /\ UNCHANGED <<prog, early, code, stored, reverse, call>>
    <3>1. started + 1 \in 1..Len(prog) /\ started + 1 \in 0..early
      BY <1>0, <1>4 DEF TypeOK, WorkerRegister
    <3>2. QED
      BY <1>4, <3>1 DEF WorkerRegister, program
  <2>2. TypeOK'
    BY <1>0, <2>1 DEF TypeOK
  <2>3. EntriesInv'
    <3>1. \A m \in Names : entries'[m] = IF m = prog[n].name THEN prog[n].fn ELSE entries[m]
      BY <1>0, <2>1 DEF TypeOK
    <3>2. started' = started + 1 /\ started \in Nat /\ 1..started' \subseteq 1..Len(prog)
      BY <1>0, <2>1 DEF TypeOK
    <3>3. QED
      BY <1>0, <2>1, <3>1, <3>2 DEF RegistryInv, EntriesInv
  <2>4. QED
    BY <2>1, <2>2, <2>3, Frames DEF RegistryInv
<1>5. CASE LookupEntry
  <2>1. /\ call.state = "sent" /\ started = early /\ call.name \in Names /\ call.fn \in Plain
        /\ UNCHANGED <<prog, early, code, stored, reverse, started, entries>>
    BY <1>5 DEF RegistryInv, SentInv, Sent, LookupEntry, program
  <2>2. entries[call.name] \in Fns \cup {None}
    BY <1>0, <2>1 DEF TypeOK
  <2>3. /\ call' \in [state : Outcomes, fn : Fns \cup {None}, name : Names \cup {None},
                      ran : Fns \cup {None}]
        /\ call'.fn = call.fn /\ call'.name = call.name
        /\ \/ call'.state = "lost" /\ call.name = ""
           \/ call'.state = "unknown" /\ entries[call.name] = None
           \/ /\ call'.state = "ran" /\ entries[call.name] # None
              /\ call'.ran = entries[call.name]
    BY <1>0, <1>5, <2>2 DEF TypeOK, LookupEntry, Outcomes
  <2>4. TypeOK'
    BY <1>0, <2>1, <2>3 DEF TypeOK
  <2>5. SentInv'
    BY <2>1, <2>3 DEF RegistryInv, SentInv, Sent, Pointer
  <2>6. FoundInv'
    BY <2>1, <2>3 DEF RegistryInv, EntriesInv, FoundInv
  <2>7. QED
    BY <2>1, <2>4, <2>5, <2>6, Frames DEF RegistryInv
<1>6. CASE UNCHANGED vars
  <2>1. UNCHANGED <<prog, early, code, stored, reverse, call, started, entries>>
    BY <1>6 DEF vars, program
  <2>2. TypeOK'
    BY <1>0, <2>1 DEF TypeOK
  <2>3. QED
    BY <2>1, <2>2, Frames DEF RegistryInv
<1>7. QED
  BY <1>1, <1>2, <1>3, <1>4, <1>5, <1>6 DEF Next

\* Type correctness of the registry, of the client and of the worker.
THEOREM RegistryTypes == Spec => []TypeOK
<1>1. RegistryInv => TypeOK
  BY DEF RegistryInv
<1>2. QED
  BY <1>1, InitInv, StepInv, PTL DEF Spec

\* The worker calls the caller's function unless the program gave its code or
\* its name to another one as well.
THEOREM CallsPassedFunctionAlways == Spec => []CallsPassedFunction
<1>1. ASSUME RegistryInv, call.state = "ran", call.ran # call.fn
      PROVE  \E k \in 1..Len(prog) :
               /\ prog[k].fn # call.fn
               /\ \/ prog[k].fn \in Plain /\ code[prog[k].fn] = code[call.fn]
                  \/ \E i \in 1..Len(prog) : prog[i].fn = call.fn /\ prog[i].name = prog[k].name
  <2>1. PICK k \in 1..Len(prog) : prog[k].name = call.name /\ prog[k].fn = call.ran
    BY <1>1 DEF RegistryInv, FoundInv
  <2>2. PICK i \in 1..Len(prog) : /\ Pointer(prog[i].fn) = Pointer(call.fn)
                                  /\ prog[i].name = call.name
    BY <1>1 DEF RegistryInv, SentInv, Sent
  <2>3. call.fn \in Plain /\ call.fn \in Fns /\ prog[i].fn \in Fns
    BY <1>1, ProgramTypes, RegTypes DEF RegistryInv, TypeOK, SentInv, Sent, Fns
  <2>4. prog[i].fn \in Plain /\ code[prog[i].fn] = code[call.fn]
    BY <1>1, <2>2, <2>3, PointerTypes DEF RegistryInv, TypeOK
  <2>5. CASE prog[i].fn = call.fn
    BY <1>1, <2>1, <2>2, <2>5
  <2>6. CASE prog[i].fn # call.fn
    BY <2>4, <2>6
  <2>7. QED
    BY <2>5, <2>6
<1>2. RegistryInv => CallsPassedFunction
  BY <1>1 DEF CallsPassedFunction
<1>3. QED
  BY <1>2, InitInv, StepInv, PTL DEF Spec

\* A worker that does not know its function, or ends without a word, is due to a
\* late registration or to an empty name.
THEOREM WorkerKnowsNameAlways == Spec => []WorkerKnowsName
<1>1. RegistryInv => WorkerKnowsName
  BY DEF RegistryInv, FoundInv, WorkerKnowsName
<1>2. QED
  BY <1>1, InitInv, StepInv, PTL DEF Spec

\* Only a function that has no complete registration is refused.
THEOREM RefusedOnlyUnregisteredAlways == Spec => RefusedOnlyUnregistered
<1> DEFINE Refused == call.state = "ready" /\ call'.state = "unregistered"
<1>1. ASSUME RegistryInv, [Next]_vars, Refused, NEW i \in 1..Len(prog), stored[i] = "both"
      PROVE  prog[i].fn # call'.fn
  <2>1. PICK f \in Plain : LookupName(f)
    <3>1. ~LookupEntry /\ ~WorkerRegister /\ ~UNCHANGED vars
      BY <1>1 DEF LookupEntry, WorkerRegister, vars
    <3>2. \A j \in 1..Len(prog) : ~StoreEntry(j) /\ ~StoreName(j)
      BY <1>1 DEF StoreEntry, StoreName
    <3>3. QED
      BY <1>1, <3>1, <3>2 DEF Next
  <2>2. call'.fn = f /\ (call'.state = "unregistered" => reverse[Pointer(f)] = None)
    BY <1>1, <2>1 DEF LookupName, RegistryInv, TypeOK
  <2>3. reverse[Pointer(prog[i].fn)] # None
    BY <1>1 DEF RegistryInv, ReverseInv
  <2>4. QED
    BY <1>1, <2>2, <2>3
<1>2. RegistryInv /\ [Next]_vars =>
        [call.state = "ready" /\ call'.state = "unregistered" =>
           \A i \in 1..Len(prog) : stored[i] = "both" => prog[i].fn # call'.fn]_vars
  BY <1>1
<1>3. QED
  BY <1>2, InitInv, StepInv, PTL DEF Spec, RefusedOnlyUnregistered
=============================================================================
