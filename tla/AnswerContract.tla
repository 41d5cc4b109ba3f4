--------------------------- MODULE AnswerContract ---------------------------
(***************************************************************************)
(* What Map, MapTolerant and Collect promise, with no cloud behind: fn is  *)
(* called at most once per item and settles it for good; each caller is    *)
(* answered once, and an answer that carries results carries every item's  *)
(* own outcome, in the order of the items, and only when every item is     *)
(* settled.  So callers that get results all get the same ones.            *)
(***************************************************************************)
EXTENDS Integers, Sequences

CONSTANTS NumItems, Callers

Items == 0..(NumItems - 1)

VARIABLES
  fate,     \* fate[k]: "pending", or how fn ended on item k
  answer,   \* answer[c]: "none", or how caller c was answered
  values    \* values[c]: the entries that the answer carries

vars == <<fate, answer, values>>

\* An item in an answer: the value fn gave, or none with an error.
EntryOf(k) == [value |-> IF fate[k] = "ok" THEN k ELSE -1, error |-> fate[k] = "failed"]

InOrder == [i \in 1..NumItems |-> EntryOf(i - 1)]

Init ==
  /\ fate = [k \in Items |-> "pending"]
  /\ answer = [c \in Callers |-> "none"] /\ values = [c \in Callers |-> <<>>]

\* A worker settles the items of its chunk, also after the callers gave up.
Settle ==
  /\ fate' \in [Items -> {"pending", "ok", "failed"}]
  /\ \A k \in Items : fate[k] # "pending" => fate'[k] = fate[k]
  /\ UNCHANGED <<answer, values>>

Respond(c, kind) ==
  /\ answer[c] = "none" /\ answer' = [answer EXCEPT ![c] = kind]
  /\ values' = [values EXCEPT ![c] = InOrder]
  /\ UNCHANGED fate

\* Map or Collect on success: every item succeeded.
ReturnResults(c) ==
  /\ \A k \in Items : fate[k] = "ok"
  /\ Respond(c, "results")

\* BurstPartialError: every item is settled and some failed.
ReturnPartial(c) ==
  /\ \A k \in Items : fate[k] # "pending"
  /\ \E k \in Items : fate[k] = "failed"
  /\ Respond(c, "partial")

\* MapTolerant: every item is settled.
ReturnTolerant(c) ==
  /\ \A k \in Items : fate[k] # "pending"
  /\ Respond(c, "tolerant")

\* Any other error, a timeout included: no results.
Fail(c) ==
  /\ answer[c] = "none" /\ answer' = [answer EXCEPT ![c] = "failure"]
  /\ UNCHANGED <<fate, values>>

Next ==
  \/ Settle
  \/ \E c \in Callers : ReturnResults(c) \/ ReturnPartial(c) \/ ReturnTolerant(c) \/ Fail(c)

Spec == Init /\ [][Next]_vars
=============================================================================
