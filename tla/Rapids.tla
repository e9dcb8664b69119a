------------------------------- MODULE Rapids -------------------------------
(***************************************************************************)
(* OVK's flow queue (the "rapids") as this server uses it through the      *)
(* native client in server/src/flow.rs.                                    *)
(*                                                                         *)
(* The queue itself is not in this repository: it is an append-only log of *)
(* immutable entries, addressed by ordinals that start at 0, plus durable  *)
(* named cursors.  Only what flow.rs relies on is modelled.                *)
(*                                                                         *)
(* A body is never looked into here: the entry's ordinal stands for it.    *)
(* What the readers do look at is the content type, "content:query",       *)
(* "reply:<persona>", "prediction:<item>", "outcome:<item>" or another     *)
(* one, which is split into a kind and a tag.                              *)
(***************************************************************************)
EXTENDS Integers, Sequences

CONSTANTS
    Personas,   \* the persona ids that occur in reply:<id>
    BadTag      \* an item tag that does not parse as a number

ASSUME RapidsAssumption == BadTag \notin Int

VARIABLE log    \* the entries of the queue; ordinal n is log[n + 1]

Entry ==
    [kind : {"query", "other"}, tag : {BadTag}]
        \cup [kind : {"reply"}, tag : Personas]
        \cup [kind : {"prediction", "outcome"}, tag : Nat \cup {BadTag}]

QueryEntry         == [kind |-> "query", tag |-> BadTag]
OtherEntry         == [kind |-> "other", tag |-> BadTag]
ReplyEntry(p)      == [kind |-> "reply", tag |-> p]
PredictionEntry(i) == [kind |-> "prediction", tag |-> i]
OutcomeEntry(i)    == [kind |-> "outcome", tag |-> i]

\* The ordinals get() answers for, and what it answers (FlowClient::get).
Ordinals == 0 .. Len(log) - 1
At(n) == log[n + 1]

IsKind(n, kind) == n \in Ordinals /\ At(n).kind = kind

(***************************************************************************)
(* Cursors.  A position is the last fully processed ordinal.  A cursor     *)
(* that exists but was never moved has no position; so, as far as          *)
(* cursor_position can tell, has a cursor that does not exist.             *)
(***************************************************************************)
Absent == -2
Fresh  == -1
Cursor == {Absent, Fresh} \cup Nat

\* pos.map_or(0, |p| p + 1)
NextOf(c) == IF c < 0 THEN 0 ELSE c + 1

\* cursor_create is idempotent.
Created(c) == IF c = Absent THEN Fresh ELSE c

\* One request of the walk cursor_commit makes: a cursor without a position
\* goes to the origin, a positioned one to its next entry; the daemon refuses
\* to move a cursor that does not exist.
Moved(c) == IF c = Absent THEN Absent ELSE NextOf(c)

=============================================================================
