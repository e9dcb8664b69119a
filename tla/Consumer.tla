------------------------------ MODULE Consumer ------------------------------
(***************************************************************************)
(* The resident consumer (server/src/consumer.rs) and the HTTP handlers    *)
(* that write the same tables (server/src/routes.rs), over a queue that    *)
(* others append to.                                                       *)
(*                                                                         *)
(* Each request to the queue daemon and each critical section of the store *)
(* mutex is one step.  Requests fail: the daemon is not reached, or it     *)
(* acts and the answer is lost.  The process dies at any point and starts  *)
(* again; the queue, the cursor and the SQLite file survive it.            *)
(***************************************************************************)
EXTENDS StoreView, FiniteSets

CONSTANTS
    MaxLog,        \* the queue stops growing at this length
    MaxInflight,   \* outcome handlers between their append and their write
    Shelves,       \* the values operators set the column archived to
    StrayTags,     \* numeric item tags that others use without such a query
    Faults         \* the faults that may happen, from FaultKinds

FaultKinds == {"crash",   \* the process dies
               "commit",  \* a cursor_move of cursor_commit fails
               "create",  \* the cursor_create at start fails
               "delete",  \* the cursor_delete of the reset fails
               "append",  \* the answer to an append is lost
               "part",    \* a statement after a method's first one fails
               "wipe"}    \* the database is deleted while the server is down

ASSUME ConsumerAssumption ==
    /\ MaxLog \in Nat
    /\ MaxInflight \in Nat
    /\ Shelves \subseteq BOOLEAN
    /\ StrayTags \subseteq Nat
    /\ Faults \subseteq FaultKinds

VARIABLES
    uiCursor,    \* the durable cursor of the consumer
    pc,          \* where consumer::run stands
    inflight,    \* outcomes appended by record_outcome, not yet written
    base         \* auxiliary: the first ordinal the present store was fed

vars == <<log, runs, replies, personas, uiCursor, pc, inflight, base>>

Init ==
    /\ log = <<>>
    /\ StoreInit
    /\ uiCursor = Absent
    /\ pc = "reset"
    /\ inflight = {}
    /\ base = 0

Next0 == NextOf(uiCursor)       \* the entry step() fetches

-----------------------------------------------------------------------------
(* The rest of the world: OVK's responders and the submit handler. *)

\* An item tag is a query already on the queue, or what others mistake for one.
ItemTags == Queries(0, Len(log)) \cup StrayTags \cup {BadTag}

Appended(entry) ==
    /\ Len(log) < MaxLog
    /\ log' = Append(log, entry)

Produce ==
    /\ \/ Appended(QueryEntry)
       \/ Appended(OtherEntry)
       \/ \E p \in Personas : Appended(ReplyEntry(p))
       \/ \E i \in ItemTags : Appended(PredictionEntry(i))
    /\ UNCHANGED <<runs, replies, personas, uiCursor, pc, inflight, base>>

-----------------------------------------------------------------------------
(* consumer::run up to its loop. *)

StoreIsEmpty == DOMAIN runs = {}

\* Mutant: one more entry too late.
ResetFromTwo == StoreIsEmpty /\ uiCursor > 1

ResetNeeded == StoreIsEmpty /\ uiCursor > 0     \* Ok(Some(p)) if empty && p > 0

\* A failed cursor_delete is only logged: reset_done is set all the same.
Reset ==
    /\ pc = "reset"
    /\ \/ /\ ResetNeeded
          /\ uiCursor' = Absent
          /\ base' = 0
       \/ /\ ResetNeeded => "delete" \in Faults
          /\ UNCHANGED <<uiCursor, base>>
    /\ pc' = "create"
    /\ UNCHANGED <<log, runs, replies, personas, inflight>>

\* A failed cursor_create is only logged, and never tried again.
Create ==
    /\ pc = "create"
    /\ \/ uiCursor' = Created(uiCursor)
       \/ "create" \in Faults /\ uiCursor' = uiCursor
    /\ pc' = "step"
    /\ UNCHANGED <<log, runs, replies, personas, inflight, base>>

-----------------------------------------------------------------------------
(* consumer::step: fetch the entry after the cursor, ingest it, commit.    *)
(* An ingest that fails leaves pc at "step": the entry is fetched again.   *)

IngestQuery(n) == At(n).kind = "query" /\ UpsertRun(n)

\* Mutant: the prefix of the content type is taken for the persona.
IngestReplyByPrefix(n) == At(n).kind = "reply" /\ AttachReply(n, At(n).kind)

IngestReply(n) == At(n).kind = "reply" /\ AttachReply(n, At(n).tag)

IngestPrediction(n) ==
    /\ At(n).kind = "prediction"
    /\ At(n).tag # BadTag
    /\ SetPrediction(At(n).tag, n)

\* Mutant: outcomes are left to the direct write.
IngestNoOutcome(n) == At(n).kind = "outcome" /\ At(n).tag # BadTag /\ UNCHANGED storeVars

IngestOutcome(n) ==
    /\ At(n).kind = "outcome"
    /\ At(n).tag # BadTag
    /\ SetOutcome(At(n).tag, n)

\* Mutant: a content type that is not ours is an error.
SkipBadTags(n) ==
    At(n).kind \in {"prediction", "outcome"} /\ At(n).tag = BadTag /\ UNCHANGED storeVars

\* An item tag that is no number, or a content type that is not ours.
SkipEntry(n) ==
    /\ \/ At(n).kind = "other"
       \/ At(n).kind \in {"prediction", "outcome"} /\ At(n).tag = BadTag
    /\ UNCHANGED storeVars

Ingest ==
    /\ pc = "step"
    /\ Next0 \in Ordinals
    /\ \/ IngestQuery(Next0)
       \/ IngestReply(Next0)
       \/ IngestPrediction(Next0)
       \/ IngestOutcome(Next0)
       \/ SkipEntry(Next0)
    /\ pc' = "commit"
    /\ UNCHANGED <<log, uiCursor, inflight, base>>

\* The first statement of a method lands and the next one does not.
IngestPart ==
    /\ "part" \in Faults
    /\ pc = "step"
    /\ Next0 \in Ordinals
    /\ \/ At(Next0).kind = "reply" /\ AttachReplyPart1(Next0, At(Next0).tag)
       \/ /\ At(Next0).kind = "prediction"
          /\ At(Next0).tag # BadTag
          /\ SetPredictionPart1(At(Next0).tag, Next0)
    /\ UNCHANGED <<log, uiCursor, pc, inflight, base>>

\* cursor_commit(next) with next one past the cursor: a single move.
Commit ==
    /\ pc = "commit"
    /\ uiCursor' = Moved(uiCursor)
    /\ pc' = "step"
    /\ UNCHANGED <<log, runs, replies, personas, inflight, base>>

CommitFails ==
    /\ "commit" \in Faults
    /\ pc = "commit"
    /\ pc' = "step"
    /\ UNCHANGED <<log, runs, replies, personas, uiCursor, inflight, base>>

-----------------------------------------------------------------------------
(* The handlers that write the consumer's tables. *)

SaveNotes ==
    /\ \E i \in DOMAIN runs, text \in Notes : SetNotes(i, text)
    /\ UNCHANGED <<log, uiCursor, pc, inflight, base>>

ToggleArchive ==
    /\ \E i \in DOMAIN runs, to \in Shelves : SetArchived(i, to)
    /\ UNCHANGED <<log, uiCursor, pc, inflight, base>>

\* record_outcome, first half: the entry is on the queue, whether or not the
\* item of the URL has a run.  When the answer is lost the handler returns an
\* error and writes nothing.
AppendOutcome ==
    /\ Cardinality(inflight) < MaxInflight
    /\ \E i \in DOMAIN runs \cup StrayTags :
          /\ Appended(OutcomeEntry(i))
          /\ \/ inflight' = inflight \cup {[item |-> i, ordinal |-> Len(log)]}
             \/ "append" \in Faults /\ UNCHANGED inflight
    /\ UNCHANGED <<runs, replies, personas, uiCursor, pc, base>>

\* record_outcome, second half: the store is written directly.
WriteOutcome ==
    /\ \E w \in inflight :
          /\ SetOutcome(w.item, w.ordinal)
          /\ inflight' = inflight \ {w}
    /\ UNCHANGED <<log, uiCursor, pc, base>>

-----------------------------------------------------------------------------
(* The process dies and starts again. *)

Crash ==
    /\ "crash" \in Faults
    /\ pc' = "reset"
    /\ inflight' = {}
    /\ UNCHANGED <<log, runs, replies, personas, uiCursor, base>>

Wipe ==
    /\ "wipe" \in Faults
    /\ EraseStore
    /\ pc' = "reset"
    /\ inflight' = {}
    /\ base' = Next0
    /\ UNCHANGED <<log, uiCursor>>

Next ==
    \/ Produce
    \/ Reset
    \/ Create
    \/ Ingest
    \/ IngestPart
    \/ Commit
    \/ CommitFails
    \/ SaveNotes
    \/ ToggleArchive
    \/ AppendOutcome
    \/ WriteOutcome
    \/ Crash
    \/ Wipe

Spec == Init /\ [][Next]_vars

(***************************************************************************)
(* Fairness.  The consumer's loops never end: after an error the thread    *)
(* sleeps and goes on, so a step that stays possible is taken.  A commit   *)
(* is tried again each time the entry was ingested again; that it succeeds *)
(* at last is an assumption about the queue daemon.                        *)
(***************************************************************************)
Fairness ==
    /\ WF_vars(Reset)
    /\ WF_vars(Create)
    /\ WF_vars(Ingest)
    /\ SF_vars(Commit)

FairSpec == Spec /\ Fairness

-----------------------------------------------------------------------------
(* Properties. *)

\* Every variable has its type: keys are ordinals or persona ids, rows have the
\* columns of the schema.
TypeOK ==
    /\ log \in Seq(Entry)
    /\ uiCursor \in Cursor
    /\ pc \in {"reset", "create", "step", "commit"}
    /\ inflight \subseteq [item : Nat, ordinal : Nat]
    /\ base \in Nat
    /\ DOMAIN runs \subseteq Nat
    /\ runs \in [DOMAIN runs -> Run]
    /\ DOMAIN replies \subseteq Nat
    /\ replies \in [DOMAIN replies -> [item : Nat, persona : Personas]]
    /\ DOMAIN personas \subseteq Personas
    /\ personas \in [DOMAIN personas -> Persona]

\* The prefixes of the queue the store may stand for: up to the cursor, or one
\* entry more after an ingest whose commit is still to come or has failed.
Prefixes == IF pc = "commit" THEN {Next0 + 1} ELSE {Next0, Next0 + 1}

\* At every moment, through crashes, failed commits and half-executed methods,
\* each table is exactly what the queue up to the cursor says, or up to the
\* entry in hand: at-least-once delivery with an idempotent ingest (consumer.rs
\* 7-12), replies re-anchored by the prediction that tags them (store.rs
\* 191-196).
StoreIsView ==
    /\ \E k \in Prefixes : k <= Len(log) /\ RunsShow(base, k)
    /\ \E k \in Prefixes : k <= Len(log) /\ RepliesShow(base, k)

\* Every query the consumer has passed has its run on the screen, save one at
\* ordinal 0, even when the database was deleted meanwhile: "every screen is
\* derivable from the rapids, so drop the cursor and replay from origin"
\* (consumer.rs 14-16; the test at line 29 leaves a cursor at 0 alone).
LaterQueriesShown == pc = "step" => \A q \in Queries(1, Next0) : q \in DOMAIN runs

\* Re-ingesting an entry never undoes what an operator did: notes and shelf of
\* a run change by an operator's hand only (store.rs 134-141, 293).
EnrichmentKept ==
    [][~(SaveNotes \/ ToggleArchive \/ Wipe) =>
          \A i \in DOMAIN runs :
             /\ i \in DOMAIN runs'
             /\ runs'[i].notes = runs[i].notes
             /\ runs'[i].archived = runs[i].archived]_vars

OutcomesOf(i) == {o \in Ordinals : IsKind(o, "outcome") /\ At(o).tag = i}

\* Once the consumer has passed every outcome of a run, all of them recorded
\* after its query, the run shows the newest outcome of the queue, whoever wrote
\* last: the direct write of record_outcome and the ingest agree (store.rs 12-13
\* and 319-320, "the rapids stay the source of truth").  With two handlers at
\* once it does not hold.
OutcomeSettled ==
    pc = "step" =>
        \A i \in DOMAIN runs :
            (\A o \in OutcomesOf(i) : i < o /\ o < Next0)
            =>
                \/ OutcomesOf(i) = {} /\ runs[i].outcome = NoOrdinal
                \/ /\ runs[i].outcome \in OutcomesOf(i)
                   /\ \A o \in OutcomesOf(i) : o <= runs[i].outcome

\* What the consumer cannot get past: it has no cursor to commit on, or the entry
\* in hand is a prediction that the foreign key of replies refuses.
NoCursor == uiCursor = Absent
Refused(n) ==
    /\ n \in Ordinals
    /\ IsKind(n, "prediction")
    /\ At(n).tag # BadTag
    /\ ~PredictionAccepted(At(n).tag, n)

\* At-least-once: if the process stays up at last, each entry of the queue is
\* ingested and passed, unless the creation of the cursor failed at start
\* (consumer.rs 43-45) or a prediction of an item without a run comes after
\* replies (store.rs 203-206).  Nothing else stops the consumer for good: no
\* half-executed method, no tag, no failed commit.
CatchesUp ==
    <>[](pc # "reset") =>
        \/ \A n \in 0 .. MaxLog-1 : n < Len(log) ~> Next0 > n
        \/ <>[](NoCursor \/ Refused(Next0))

=============================================================================
