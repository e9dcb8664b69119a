--------------------------- MODULE ConsumerProofs ---------------------------
(***************************************************************************)
(* Proofs about Consumer, for every queue, every number of entries and     *)
(* every combination of faults.  After the types and the enrichment comes  *)
(* StoreIsView: the lemmas first say how the meaning of the queue changes  *)
(* by one entry, then what each ingest does to the tables, whether or not  *)
(* it was done before; the theorem puts the steps together.                *)
(***************************************************************************)
EXTENDS Consumer, TLAPS, FiniteSetTheorems

\* What the environment and record_outcome put on the queue is an entry.
LEMMA LogGrows ==
    ASSUME TypeOK, NEW e \in Entry, Appended(e)
    PROVE  /\ log' \in Seq(Entry)
           /\ Len(log') = Len(log) + 1
           /\ \A n \in Ordinals : n \in Ordinals' /\ At(n)' = At(n)
  BY DEF TypeOK, Appended, Ordinals, At

LEMMA EntryTypes ==
    ASSUME TypeOK
    PROVE  /\ QueryEntry \in Entry
           /\ OtherEntry \in Entry
           /\ \A p \in Personas : ReplyEntry(p) \in Entry
           /\ \A i \in ItemTags : PredictionEntry(i) \in Entry
           /\ \A i \in Nat : OutcomeEntry(i) \in Entry
  BY ConsumerAssumption DEF TypeOK, Entry, QueryEntry, OtherEntry, ReplyEntry, PredictionEntry,
     OutcomeEntry, ItemTags, Queries

LEMMA EntryRead ==
    ASSUME TypeOK, NEW n \in Ordinals
    PROVE  /\ n \in Nat
           /\ At(n) \in Entry
  BY DEF TypeOK, Ordinals, At

\* Which method a step of the consumer or a handler calls does not matter for
\* the types of the tables.
StoreTypeOK ==
    /\ DOMAIN runs \subseteq Nat
    /\ runs \in [DOMAIN runs -> Run]
    /\ DOMAIN replies \subseteq Nat
    /\ replies \in [DOMAIN replies -> [item : Nat, persona : Personas]]
    /\ DOMAIN personas \subseteq Personas
    /\ personas \in [DOMAIN personas -> Persona]

LEMMA RunsUpdated ==
    ASSUME StoreTypeOK, NEW i
    PROVE  /\ \A v \in Nat : WithPrediction(i, v) \in [DOMAIN runs -> Run]
           /\ \A v \in Nat : WithOutcome(i, v) \in [DOMAIN runs -> Run]
           /\ \A v \in Notes : WithNotes(i, v) \in [DOMAIN runs -> Run]
           /\ \A v \in BOOLEAN : WithArchived(i, v) \in [DOMAIN runs -> Run]
  BY DEF StoreTypeOK, WithPrediction, WithOutcome, WithNotes, WithArchived, Run

LEMMA IngestTypes ==
    ASSUME TypeOK, NEW n \in Ordinals,
           \/ IngestQuery(n)
           \/ IngestReply(n)
           \/ IngestPrediction(n)
           \/ IngestOutcome(n)
           \/ SkipEntry(n)
    PROVE  StoreTypeOK'
  <1> StoreTypeOK
    BY DEF TypeOK, StoreTypeOK
  <1> /\ n \in Nat
      /\ At(n) \in Entry
    BY EntryRead
  <1>1. CASE IngestQuery(n)
    BY <1>1 DEF IngestQuery, UpsertRun, Inserted, StoreTypeOK, NewRun, Run
  <1>2. CASE IngestReply(n)
    <2> At(n).tag \in Personas
      BY <1>2 DEF IngestReply, Entry
    <2>1. CASE UNCHANGED storeVars
      BY <2>1 DEF StoreTypeOK, storeVars
    <2>2. CASE ~UNCHANGED storeVars
      <3> PICK i \in DOMAIN runs :
            replies' = Inserted(replies, n, [item |-> i, persona |-> At(n).tag])
        BY <1>2, <2>2 DEF IngestReply, AttachReply
      <3> i \in Nat
        BY DEF StoreTypeOK
      <3>1. /\ DOMAIN replies' \subseteq Nat
            /\ replies' \in [DOMAIN replies' -> [item : Nat, persona : Personas]]
        BY DEF StoreTypeOK, Inserted
      <3>2. runs' = runs /\ personas' = Inserted(personas, At(n).tag, NewPersona)
        BY <1>2, <2>2 DEF IngestReply, AttachReply
      <3>3. /\ DOMAIN personas' \subseteq Personas
            /\ personas' \in [DOMAIN personas' -> Persona]
        BY <3>2 DEF StoreTypeOK, Inserted, NewPersona, Persona
      <3> QED
        BY <3>1, <3>2, <3>3 DEF StoreTypeOK
    <2> QED
      BY <2>1, <2>2
  <1>3. CASE IngestPrediction(n)
    <2> At(n).tag \in Nat
      BY <1>3 DEF IngestPrediction, Entry
    <2> runs' \in [DOMAIN runs -> Run]
      BY <1>3, RunsUpdated DEF IngestPrediction, SetPrediction
    <2> replies' \in [DOMAIN replies -> [item : Nat, persona : Personas]]
      BY <1>3 DEF IngestPrediction, SetPrediction, Reanchored, StoreTypeOK
    <2> QED
      BY <1>3 DEF IngestPrediction, SetPrediction, StoreTypeOK
  <1>4. CASE IngestOutcome(n)
    <2> runs' \in [DOMAIN runs -> Run]
      BY <1>4, RunsUpdated DEF IngestOutcome, SetOutcome
    <2> QED
      BY <1>4 DEF IngestOutcome, SetOutcome, StoreTypeOK
  <1>5. CASE SkipEntry(n)
    BY <1>5 DEF SkipEntry, StoreTypeOK, storeVars
  <1> QED
    BY <1>1, <1>2, <1>3, <1>4, <1>5

\* Every step keeps the types.
LEMMA TypeStep ==
    ASSUME TypeOK, [Next]_vars
    PROVE  TypeOK'
  <1> StoreTypeOK
    BY DEF TypeOK, StoreTypeOK
  <1>1. CASE Produce
    <2> PICK e \in Entry : Appended(e)
      BY <1>1, EntryTypes DEF Produce
    <2> QED
      BY <1>1, LogGrows DEF Produce, TypeOK
  <1>2. CASE Reset
    BY <1>2 DEF Reset, TypeOK, Cursor
  <1>3. CASE Create
    BY <1>3 DEF Create, Created, TypeOK, Cursor
  <1>4. CASE Ingest
    <2> StoreTypeOK'
      BY <1>4, IngestTypes DEF Ingest
    <2> QED
      BY <1>4 DEF Ingest, TypeOK, StoreTypeOK
  <1>5. CASE IngestPart
    <2> /\ Next0 \in Nat
        /\ At(Next0) \in Entry
      BY <1>5, EntryRead DEF IngestPart
    <2>1. CASE At(Next0).kind = "reply" /\ AttachReplyPart1(Next0, At(Next0).tag)
      <3> At(Next0).tag \in Personas
        BY <2>1 DEF Entry
      <3>1. /\ DOMAIN personas' \subseteq Personas
            /\ personas' \in [DOMAIN personas' -> Persona]
        BY <2>1 DEF AttachReplyPart1, Inserted, NewPersona, Persona, StoreTypeOK
      <3> QED
        BY <1>5, <2>1, <3>1 DEF IngestPart, AttachReplyPart1, TypeOK
    <2>2. CASE SetPredictionPart1(At(Next0).tag, Next0)
      <3>1. runs' \in [DOMAIN runs -> Run]
        BY <2>2, RunsUpdated DEF SetPredictionPart1
      <3> QED
        BY <1>5, <2>2, <3>1 DEF IngestPart, SetPredictionPart1, TypeOK
    <2> QED
      BY <1>5, <2>1, <2>2 DEF IngestPart
  <1>6. CASE Commit \/ CommitFails
    BY <1>6 DEF Commit, CommitFails, Moved, NextOf, TypeOK, Cursor, Absent, Fresh
  <1>7. CASE SaveNotes
    <2>1. runs' \in [DOMAIN runs -> Run]
      BY <1>7, RunsUpdated DEF SaveNotes, SetNotes
    <2> QED
      BY <1>7, <2>1 DEF SaveNotes, SetNotes, TypeOK
  <1>8. CASE ToggleArchive
    <2>1. runs' \in [DOMAIN runs -> Run]
      BY <1>8, RunsUpdated, ConsumerAssumption DEF ToggleArchive, SetArchived
    <2> QED
      BY <1>8, <2>1 DEF ToggleArchive, SetArchived, TypeOK
  <1>9. CASE AppendOutcome
    <2> PICK i \in DOMAIN runs \cup StrayTags :
          /\ Appended(OutcomeEntry(i))
          /\ \/ inflight' = inflight \cup {[item |-> i, ordinal |-> Len(log)]}
             \/ inflight' = inflight
      BY <1>9 DEF AppendOutcome
    <2> i \in Nat /\ OutcomeEntry(i) \in Entry
      BY EntryTypes, ConsumerAssumption DEF TypeOK
    <2> log' \in Seq(Entry)
      BY LogGrows
    <2> Len(log) \in Nat
      BY DEF TypeOK
    <2> inflight' \subseteq [item : Nat, ordinal : Nat]
      BY DEF TypeOK
    <2> QED
      BY <1>9 DEF AppendOutcome, TypeOK
  <1>10. CASE WriteOutcome
    <2> PICK w \in inflight : SetOutcome(w.item, w.ordinal) /\ inflight' = inflight \ {w}
      BY <1>10 DEF WriteOutcome
    <2> w.ordinal \in Nat
      BY DEF TypeOK
    <2>1. runs' \in [DOMAIN runs -> Run]
      BY RunsUpdated DEF SetOutcome
    <2> QED
      BY <1>10, <2>1 DEF WriteOutcome, SetOutcome, TypeOK
  <1>11. CASE Crash
    BY <1>11 DEF Crash, TypeOK
  <1>12. CASE Wipe
    BY <1>12 DEF Wipe, EraseStore, EmptyTable, Next0, NextOf, TypeOK, Cursor, Absent, Fresh
  <1>13. CASE UNCHANGED vars
    BY <1>13 DEF vars, TypeOK
  <1> QED
    BY <1>1, <1>2, <1>3, <1>4, <1>5, <1>6, <1>7, <1>8, <1>9, <1>10, <1>11, <1>12, <1>13 DEF Next

\* The consumer's variables keep their types.
THEOREM TypeCorrect == Spec => []TypeOK
<1>1. Init => TypeOK
  BY DEF Init, StoreInit, TypeOK, EmptyTable, Cursor, Absent, Fresh
<1>2. TypeOK /\ [Next]_vars => TypeOK'
  BY TypeStep
<1> QED
  BY <1>1, <1>2, PTL DEF Spec

-----------------------------------------------------------------------------
(* What the operators did to the runs. *)

RowsEnriched ==
    \A i \in DOMAIN runs :
        /\ i \in DOMAIN runs'
        /\ runs'[i].notes = runs[i].notes
        /\ runs'[i].archived = runs[i].archived

\* Of a run that is there, an upsert changes nothing, and the columns of the
\* queue are not those of the operators.
LEMMA EnrichmentUntouched ==
    ASSUME StoreTypeOK,
           \/ runs' = runs
           \/ \E n : UpsertRun(n)
           \/ \E i : \E v \in Nat : runs' = WithPrediction(i, v)
           \/ \E i : \E v \in Nat : runs' = WithOutcome(i, v)
    PROVE  RowsEnriched
  <1>1. CASE runs' = runs
    BY <1>1 DEF RowsEnriched
  <1>2. CASE \E n : UpsertRun(n)
    BY <1>2 DEF UpsertRun, Inserted, RowsEnriched
  <1>3. ASSUME NEW i, NEW v \in Nat, runs' = WithPrediction(i, v) PROVE RowsEnriched
    BY <1>3 DEF WithPrediction, RowsEnriched, StoreTypeOK, Run
  <1>4. ASSUME NEW i, NEW v \in Nat, runs' = WithOutcome(i, v) PROVE RowsEnriched
    BY <1>4 DEF WithOutcome, RowsEnriched, StoreTypeOK, Run
  <1> QED
    BY <1>1, <1>2, <1>3, <1>4

LEMMA EnrichmentStep ==
    ASSUME TypeOK, Next, ~(SaveNotes \/ ToggleArchive \/ Wipe)
    PROVE  RowsEnriched
  <1> StoreTypeOK
    BY DEF TypeOK, StoreTypeOK
  <1>1. CASE Produce \/ Reset \/ Create \/ Commit \/ CommitFails \/ AppendOutcome \/ Crash
    BY <1>1, EnrichmentUntouched
    DEF Produce, Reset, Create, Commit, CommitFails, AppendOutcome, Crash
  <1>2. CASE Ingest
    <2> Next0 \in Nat /\ At(Next0) \in Entry
      BY <1>2, EntryRead DEF Ingest
    <2>1. CASE IngestQuery(Next0)
      BY <2>1, EnrichmentUntouched DEF IngestQuery
    <2>2. CASE IngestReply(Next0) \/ SkipEntry(Next0)
      BY <2>2, EnrichmentUntouched DEF IngestReply, AttachReply, SkipEntry, storeVars
    <2>3. CASE IngestPrediction(Next0)
      BY <2>3, EnrichmentUntouched DEF IngestPrediction, SetPrediction
    <2>4. CASE IngestOutcome(Next0)
      BY <2>4, EnrichmentUntouched DEF IngestOutcome, SetOutcome
    <2> QED
      BY <1>2, <2>1, <2>2, <2>3, <2>4 DEF Ingest
  <1>3. CASE IngestPart
    <2> Next0 \in Nat
      BY <1>3, EntryRead DEF IngestPart
    <2> QED
      BY <1>3, EnrichmentUntouched DEF IngestPart, AttachReplyPart1, SetPredictionPart1
  <1>4. CASE WriteOutcome
    <2> PICK w \in inflight : SetOutcome(w.item, w.ordinal)
      BY <1>4 DEF WriteOutcome
    <2> w.ordinal \in Nat
      BY DEF TypeOK
    <2> QED
      BY EnrichmentUntouched DEF SetOutcome
  <1> QED
    BY <1>1, <1>2, <1>3, <1>4 DEF Next

\* No ingest, repeated or not, no outcome and no crash ever touches the notes
\* and the shelf of a run (store.rs 134-141, 293), for every queue and every
\* combination of faults.
THEOREM EnrichmentAlwaysKept == Spec => EnrichmentKept
<1>1. TypeOK /\ [Next]_vars =>
        [~(SaveNotes \/ ToggleArchive \/ Wipe) => RowsEnriched]_vars
  BY EnrichmentStep
<1> QED
  BY <1>1, TypeCorrect, PTL DEF Spec, EnrichmentKept, RowsEnriched

-----------------------------------------------------------------------------
(* The meaning of the queue, one entry more. *)

LEMMA QueriesNext ==
    ASSUME NEW b \in Nat, NEW n \in Nat, b <= n
    PROVE  /\ IsKind(n, "query") => Queries(b, n+1) = Queries(b, n) \cup {n}
           /\ ~IsKind(n, "query") => Queries(b, n+1) = Queries(b, n)
  BY DEF Queries

LEMMA PredictsFacts ==
    ASSUME NEW b \in Nat, NEW p \in Nat, NEW i, Predicts(p, i, b)
    PROVE  /\ IsKind(p, "prediction")
           /\ ~IsKind(p, "query")
           /\ ~IsKind(p, "reply")
           /\ i \in Nat
           /\ b <= i
           /\ i < p
           /\ IsPrediction(p, b)
           /\ \A j : Predicts(p, j, b) => j = i
  BY DEF Predicts, IsPrediction, Queries, IsKind

LEMMA NotPredicting ==
    ASSUME NEW b, NEW p, ~IsPrediction(p, b)
    PROVE  \A i : ~Predicts(p, i, b)
  BY DEF Predicts, IsPrediction

LEMMA ShowsNext ==
    ASSUME NEW b \in Nat, NEW n \in Nat, b <= n, ~IsPrediction(n, b),
           NEW i, NEW v, Shows(v, i, b, n)
    PROVE  Shows(v, i, b, n+1)
  <1>1. CASE IsLatestPrediction(v, i, b, n)
    BY <1>1, NotPredicting DEF IsLatestPrediction, Shows
  <1>2. CASE ~IsLatestPrediction(v, i, b, n)
    BY <1>2, NotPredicting DEF Shows
  <1> QED
    BY <1>1, <1>2

LEMMA RunsShowNext ==
    ASSUME NEW b \in Nat, NEW n \in Nat, b <= n, RunsShow(b, n),
           ~IsKind(n, "query"), ~IsPrediction(n, b)
    PROVE  RunsShow(b, n+1)
  BY QueriesNext, ShowsNext DEF RunsShow

\* An entry that is no prediction changes nothing for the replies before it.
LEMMA BelongsNext ==
    ASSUME NEW b \in Nat, NEW n \in Nat, NEW r \in Nat, NEW i, BelongsTo(r, i, b, n),
           ~IsPrediction(n, b)
    PROVE  BelongsTo(r, i, b, n+1)
  <1>1. CASE IsAnchoredTo(r, i, b, n)
    BY <1>1 DEF IsAnchoredTo, BelongsTo
  <1>2. CASE ~IsAnchoredTo(r, i, b, n)
    BY <1>2 DEF BelongsTo
  <1> QED
    BY <1>1, <1>2

ReplyOrdinals(b, k) == {r \in b .. k-1 : IsKind(r, "reply") /\ Queries(b, r) # {}}

LEMMA ReplyOrdinalsNext ==
    ASSUME NEW b \in Nat, NEW n \in Nat, b <= n
    PROVE  /\ ReplyOrdinals(b, n+1) =
                 IF IsKind(n, "reply") /\ Queries(b, n) # {}
                 THEN ReplyOrdinals(b, n) \cup {n} ELSE ReplyOrdinals(b, n)
           /\ n \notin ReplyOrdinals(b, n)
           /\ 0 \notin ReplyOrdinals(b, n+1)
           /\ ReplyOrdinals(b, n) \subseteq Nat
  BY DEF ReplyOrdinals, Queries

LEMMA RepliesShowNext ==
    ASSUME NEW b \in Nat, NEW n \in Nat, b <= n, RepliesShow(b, n),
           ~IsKind(n, "reply"), ~IsPrediction(n, b)
    PROVE  RepliesShow(b, n+1)
  <1>1. DOMAIN replies = ReplyOrdinals(b, n+1) /\ DOMAIN replies \subseteq Nat
    BY ReplyOrdinalsNext DEF RepliesShow, ReplyOrdinals
  <1> QED
    BY <1>1, BelongsNext DEF RepliesShow, ReplyOrdinals

-----------------------------------------------------------------------------
(* What an ingest makes of the tables.  The entry n may have been ingested *)
(* before, in part or in full: the tables may show n already.              *)

LEMMA ViewFixed ==
    ASSUME log' = log
    PROVE  /\ \A b, k : Queries(b, k)' = Queries(b, k)
           /\ \A b, k : ReplyOrdinals(b, k)' = ReplyOrdinals(b, k)
           /\ \A v, i, b, k : Shows(v, i, b, k)' = Shows(v, i, b, k)
           /\ \A r, i, b, k : BelongsTo(r, i, b, k)' = BelongsTo(r, i, b, k)
           /\ \A n : At(n)' = At(n)
  BY DEF Queries, ReplyOrdinals, Shows, IsLatestPrediction, BelongsTo, IsAnchoredTo,
     IsLastQueryBefore, IsPrediction, Predicts, IsKind, At, Ordinals

\* The tables of the next state against the unchanged queue.
LEMMA RepliesShowAfter ==
    ASSUME log' = log, NEW b, NEW k,
           DOMAIN replies' = ReplyOrdinals(b, k),
           \A r \in DOMAIN replies' :
              replies'[r].persona = At(r).tag /\ BelongsTo(r, replies'[r].item, b, k)
    PROVE  RepliesShow(b, k)'
  <1>1. DOMAIN replies' = ReplyOrdinals(b, k)'
    BY ViewFixed
  <1> QED
    BY <1>1, ViewFixed DEF RepliesShow, ReplyOrdinals

LEMMA UpsertShows ==
    ASSUME log' = log, NEW b \in Nat, NEW n \in Nat, b <= n, IsKind(n, "query"),
           RunsShow(b, n) \/ RunsShow(b, n+1), UpsertRun(n)
    PROVE  RunsShow(b, n+1)'
  <1>1. ~IsPrediction(n, b)
    BY DEF IsPrediction, Predicts, IsKind
  <1>2. Queries(b, n+1) = Queries(b, n) \cup {n}
    BY QueriesNext
  <1>3. DOMAIN runs' = Queries(b, n+1)
    BY <1>2 DEF RunsShow, UpsertRun, Inserted
  <1>4. ASSUME NEW i \in DOMAIN runs' PROVE Shows(runs'[i].prediction, i, b, n+1)
    <2>1. CASE i \in DOMAIN runs
      <3> runs'[i] = runs[i]
        BY <2>1 DEF UpsertRun, Inserted
      <3> QED
        BY <1>1, <2>1, ShowsNext DEF RunsShow
    <2>2. CASE i \notin DOMAIN runs
      <3>1. i = n /\ runs'[i].prediction = NoOrdinal
        BY <1>2, <1>3, <2>2 DEF UpsertRun, Inserted, NewRun, RunsShow
      <3>2. \A p \in b .. (n+1)-1 : ~Predicts(p, i, b)
        BY <3>1, PredictsFacts
      <3> QED
        BY <3>1, <3>2 DEF Shows
    <2> QED
      BY <2>1, <2>2
  <1> QED
    BY <1>3, <1>4, ViewFixed DEF RunsShow

LEMMA PredictionShows ==
    ASSUME log' = log, NEW b \in Nat, NEW n \in Nat, b <= n, IsKind(n, "prediction"),
           StoreTypeOK, RunsShow(b, n) \/ RunsShow(b, n+1),
           runs' = WithPrediction(At(n).tag, n)
    PROVE  RunsShow(b, n+1)'
  <1> DEFINE item == At(n).tag
  <1>1. Queries(b, n+1) = Queries(b, n)
    BY QueriesNext DEF IsKind
  <1>2. DOMAIN runs = Queries(b, n) /\ DOMAIN runs' = Queries(b, n+1)
    BY <1>1 DEF RunsShow, WithPrediction
  <1>3. ASSUME NEW i \in DOMAIN runs PROVE Shows(runs'[i].prediction, i, b, n+1)
    <2>1. CASE i = item
      <3>1. runs'[i].prediction = n
        BY <2>1 DEF WithPrediction, StoreTypeOK, Run
      <3>2. Predicts(n, i, b)
        BY <1>2, <2>1 DEF Predicts
      <3> QED
        BY <3>1, <3>2 DEF Shows, IsLatestPrediction
    <2>2. CASE i # item
      <3>1. runs'[i] = runs[i]
        BY <2>2 DEF WithPrediction
      <3>2. ~Predicts(n, i, b)
        BY <2>2 DEF Predicts
      <3>3. ASSUME Shows(runs[i].prediction, i, b, n)
            PROVE  Shows(runs[i].prediction, i, b, n+1)
        BY <3>2, <3>3 DEF Shows, IsLatestPrediction
      <3> QED
        BY <3>1, <3>3 DEF RunsShow
    <2> QED
      BY <2>1, <2>2
  <1> QED
    BY <1>1, <1>2, <1>3, ViewFixed DEF RunsShow

LEMMA NotPredictionNext ==
    ASSUME NEW b \in Nat, NEW n \in Nat, b <= n, ~IsKind(n, "query"), ~IsPrediction(n, b),
           RunsShow(b, n) \/ RunsShow(b, n+1)
    PROVE  RunsShow(b, n+1)
  BY RunsShowNext

LEMMA AttachShows ==
    ASSUME log' = log, NEW b \in Nat, NEW n \in Nat, b <= n, IsKind(n, "reply"),
           StoreTypeOK, RunsShow(b, n) \/ RunsShow(b, n+1),
           RepliesShow(b, n) \/ RepliesShow(b, n+1),
           AttachReply(n, At(n).tag)
    PROVE  RepliesShow(b, n+1)'
  <1>1. ~IsKind(n, "query") /\ ~IsPrediction(n, b)
    BY DEF IsPrediction, Predicts, IsKind
  <1>2. DOMAIN runs = Queries(b, n)
    BY <1>1, QueriesNext DEF RunsShow
  <1>3. HasRunBefore(n) <=> Queries(b, n) # {}
    BY <1>2 DEF HasRunBefore, Queries
  <1>4. CASE Queries(b, n) = {}
    <2>1. RepliesShow(b, n+1)
      <3>1. ReplyOrdinals(b, n+1) = ReplyOrdinals(b, n)
        BY <1>4, ReplyOrdinalsNext
      <3>2. ReplyOrdinals(b, n) \subseteq Nat
        BY ReplyOrdinalsNext
      <3> QED
        BY <1>1, <3>1, <3>2, BelongsNext DEF RepliesShow, ReplyOrdinals
    <2>2. replies' = replies
      BY <1>3, <1>4 DEF AttachReply, HasRunBefore, IsLastRunBefore, storeVars
    <2> QED
      BY <2>1, <2>2, ViewFixed DEF RepliesShow, ReplyOrdinals
  <1>5. CASE Queries(b, n) # {}
    <2>1. PICK last \in DOMAIN runs :
            /\ IsLastRunBefore(last, n)
            /\ replies' = Inserted(replies, n, [item |-> last, persona |-> At(n).tag])
      BY <1>3, <1>5 DEF AttachReply
    <2>2. ReplyOrdinals(b, n+1) = ReplyOrdinals(b, n) \cup {n}
      BY <1>5, ReplyOrdinalsNext
    <2>3. /\ n \notin ReplyOrdinals(b, n)
          /\ ReplyOrdinals(b, n) \subseteq Nat
      BY ReplyOrdinalsNext
    <2>4. DOMAIN replies' = ReplyOrdinals(b, n+1)
      BY <2>1, <2>2 DEF Inserted, RepliesShow, ReplyOrdinals
    <2>5. ASSUME NEW r \in DOMAIN replies'
          PROVE  /\ replies'[r].persona = At(r).tag
                 /\ BelongsTo(r, replies'[r].item, b, n+1)
      <3>1. CASE r \in DOMAIN replies
        <4>1. replies'[r] = replies[r]
          BY <2>1, <3>1 DEF Inserted
        <4> QED
          BY <1>1, <2>2, <2>3, <2>4, <3>1, <4>1, BelongsNext DEF RepliesShow, ReplyOrdinals
      <3>2. CASE r \notin DOMAIN replies
        <4>1. r = n /\ replies'[r] = [item |-> last, persona |-> At(n).tag]
          BY <2>1, <3>2 DEF Inserted
        <4>2. IsLastQueryBefore(last, n, b)
          BY <1>2, <2>1 DEF IsLastQueryBefore, IsLastRunBefore, Queries
        <4>3. BelongsTo(n, last, b, n+1)
          BY <4>2 DEF BelongsTo
        <4> QED
          BY <4>1, <4>3
      <3> QED
        BY <3>1, <3>2
    <2> QED
      BY <2>4, <2>5, RepliesShowAfter
  <1> QED
    BY <1>4, <1>5

\* The re-anchoring: a reply that moves has no other query's prediction between
\* itself and n; a reply that stays has one, and so was anchored before.
LEMMA ReanchorShows ==
    ASSUME log' = log, NEW b \in Nat, NEW n \in Nat, b <= n, n \in Ordinals,
           IsKind(n, "prediction"), StoreTypeOK,
           RunsShow(b, n) \/ RunsShow(b, n+1),
           RepliesShow(b, n) \/ RepliesShow(b, n+1),
           SetPrediction(At(n).tag, n)
    PROVE  RepliesShow(b, n+1)'
  <1> DEFINE item == At(n).tag
             moved == ReanchoredBy(item, n)
  <1>1. ~IsKind(n, "query") /\ ~IsKind(n, "reply")
    BY DEF IsKind
  <1>2. DOMAIN runs = Queries(b, n)
    BY <1>1, QueriesNext DEF RunsShow
  <1>3. DOMAIN replies = ReplyOrdinals(b, n+1) /\ ReplyOrdinals(b, n+1) = ReplyOrdinals(b, n)
    BY <1>1, ReplyOrdinalsNext DEF RepliesShow, ReplyOrdinals
  <1>4. \A r \in DOMAIN replies : r \in Nat /\ r # 0 /\ r < n /\ IsKind(r, "reply")
    BY <1>3, ReplyOrdinalsNext DEF ReplyOrdinals
  <1>5. replies' = Reanchored(item, n)
    BY DEF SetPrediction
  <1>6. ASSUME NEW r \in moved
        PROVE  BelongsTo(r, item, b, n+1)
    <2>1. item \in DOMAIN runs
      BY DEF SetPrediction, PredictionAccepted
    <2>2. Predicts(n, item, b)
      BY <1>2, <2>1 DEF Predicts
    <2>3. r \in DOMAIN replies
      BY DEF ReanchoredBy
    <2>4. ASSUME NEW p \in r+1 .. n-1, NEW j, Predicts(p, j, b)
          PROVE  j = item
      <3>1. SUFFICES ASSUME j # item PROVE FALSE
        OBVIOUS
      <3>2. r \in Nat /\ p \in Nat /\ p < n /\ r < p
        BY <1>4, <2>3
      <3>3. b <= j /\ j < p /\ j \in Nat
        BY <2>4, <3>2, PredictsFacts
      <3>4. j \in DOMAIN runs
        BY <1>2, <2>4, <3>2, <3>3 DEF Predicts, Queries
      <3>5. ~Predicts(n, j, b)
        BY <3>1 DEF Predicts
      <3>6. IsLatestPrediction(runs[j].prediction, j, b, n)
             \/ IsLatestPrediction(runs[j].prediction, j, b, n+1)
        <4>1. p \in b .. n-1 /\ p \in b .. (n+1)-1
          BY <3>2, <3>3
        <4> QED
          BY <2>4, <3>4, <4>1 DEF RunsShow, Shows
      <3>7. /\ runs[j].prediction \in b .. n-1
            /\ p <= runs[j].prediction
        BY <2>4, <3>2, <3>3, <3>5, <3>6 DEF IsLatestPrediction
      <3>8. runs[j].prediction # NoOrdinal /\ runs[j].prediction < n
        BY <3>7 DEF NoOrdinal
      <3>9. runs[j].prediction < r
        BY <3>1, <3>4, <3>8 DEF ReanchoredBy
      <3> QED
        BY <3>2, <3>7, <3>9
    <2>5. \A other \in r+1 .. n-1 : IsPrediction(other, b) => Predicts(other, item, b)
      BY <2>4 DEF IsPrediction
    <2>6. n \in r+1 .. (n+1)-1
      BY <1>4, <2>3
    <2> QED
      BY <2>2, <2>5, <2>6 DEF BelongsTo, IsAnchoredTo
  <1>7. ASSUME NEW r \in DOMAIN replies, r \notin moved
        PROVE  BelongsTo(r, replies[r].item, b, n+1)
    <2>1. PICK j \in DOMAIN runs \ {item} :
             /\ runs[j].prediction # NoOrdinal
             /\ runs[j].prediction < n
             /\ ~(runs[j].prediction < r)
      BY <1>4, <1>7 DEF ReanchoredBy
    <2> DEFINE p == runs[j].prediction
    <2>2. p \in Nat /\ Predicts(p, j, b)
      BY <2>1 DEF RunsShow, Shows, IsLatestPrediction
    <2>3. p # r
      BY <1>4, <1>7, <2>2 DEF Predicts, IsKind
    <2>4. p \in r+1 .. n-1 /\ IsPrediction(p, b)
      BY <1>4, <1>7, <2>1, <2>2, <2>3, PredictsFacts
    <2>5. IsAnchoredTo(r, replies[r].item, b, n) \/ IsAnchoredTo(r, replies[r].item, b, n+1)
      BY <1>4, <1>7, <2>4 DEF RepliesShow, BelongsTo
    <2>6. IsAnchoredTo(r, replies[r].item, b, n+1)
      BY <1>4, <1>7, <2>5 DEF IsAnchoredTo
    <2> QED
      BY <2>6 DEF BelongsTo
  <1>8. ASSUME NEW r \in DOMAIN replies
        PROVE  /\ replies'[r].persona = At(r).tag
               /\ BelongsTo(r, replies'[r].item, b, n+1)
    <2>1. replies[r].persona = At(r).tag
      BY DEF RepliesShow
    <2>2. CASE r \in moved
      <3>1. replies'[r].item = item /\ replies'[r].persona = replies[r].persona
        BY <1>5, <2>2 DEF Reanchored, StoreTypeOK
      <3> QED
        BY <1>6, <2>1, <2>2, <3>1
    <2>3. CASE r \notin moved
      <3>1. replies'[r] = replies[r]
        BY <1>5, <2>3 DEF Reanchored
      <3> QED
        BY <1>7, <2>1, <2>3, <3>1
    <2> QED
      BY <2>2, <2>3
  <1>9. DOMAIN replies' = ReplyOrdinals(b, n+1)
    BY <1>3, <1>5 DEF Reanchored
  <1>10. \A r \in DOMAIN replies' :
            replies'[r].persona = At(r).tag /\ BelongsTo(r, replies'[r].item, b, n+1)
    BY <1>3, <1>8, <1>9
  <1> HIDE DEF item, moved
  <1> QED
    BY <1>9, <1>10, RepliesShowAfter

-----------------------------------------------------------------------------
(* What leaves the meaning of the tables as it is. *)

\* Outcome, notes and shelf are not part of it.
LEMMA OtherColumns ==
    ASSUME log' = log, NEW b, NEW k, RunsShow(b, k), DOMAIN runs' = DOMAIN runs,
           \A i \in DOMAIN runs : runs'[i].prediction = runs[i].prediction
    PROVE  RunsShow(b, k)'
  BY ViewFixed DEF RunsShow

LEMMA ColumnsKept ==
    ASSUME StoreTypeOK, NEW i, NEW v
    PROVE  /\ DOMAIN WithOutcome(i, v) = DOMAIN runs
           /\ DOMAIN WithNotes(i, v) = DOMAIN runs
           /\ DOMAIN WithArchived(i, v) = DOMAIN runs
           /\ \A j \in DOMAIN runs : WithOutcome(i, v)[j].prediction = runs[j].prediction
           /\ \A j \in DOMAIN runs : WithNotes(i, v)[j].prediction = runs[j].prediction
           /\ \A j \in DOMAIN runs : WithArchived(i, v)[j].prediction = runs[j].prediction
  BY DEF StoreTypeOK, WithOutcome, WithNotes, WithArchived, Run

LEMMA SameTables ==
    ASSUME log' = log, NEW b, NEW k
    PROVE  /\ RunsShow(b, k) /\ runs' = runs => RunsShow(b, k)'
           /\ RepliesShow(b, k) /\ replies' = replies => RepliesShow(b, k)'
  BY ViewFixed DEF RunsShow, RepliesShow, ReplyOrdinals

\* Entries behind the prefix do not count.
LEMMA PrefixStable ==
    ASSUME TypeOK, log' \in Seq(Entry), \A n \in Ordinals : n \in Ordinals' /\ At(n)' = At(n),
           NEW b \in Nat, NEW k \in Nat, k <= Len(log)
    PROVE  /\ RunsShow(b, k) /\ runs' = runs => RunsShow(b, k)'
           /\ RepliesShow(b, k) /\ replies' = replies => RepliesShow(b, k)'
  <1>1. \A n \in Nat : n < k => n \in Ordinals
    BY DEF TypeOK, Ordinals
  <1>2. \A n \in Nat : \A c : n < k => IsKind(n, c)' = IsKind(n, c) /\ At(n)' = At(n)
    BY <1>1 DEF IsKind
  <1>3. \A j \in Nat : j <= k => Queries(b, j)' = Queries(b, j)
    BY <1>2 DEF Queries
  <1>4. \A p \in Nat : \A i : p < k => Predicts(p, i, b)' = Predicts(p, i, b)
    BY <1>2, <1>3 DEF Predicts
  <1>5. \A p \in Nat : p < k => IsPrediction(p, b)' = IsPrediction(p, b)
    BY <1>3, <1>4 DEF IsPrediction
  <1>6. \A v, i : Shows(v, i, b, k)' = Shows(v, i, b, k)
    BY <1>4 DEF Shows, IsLatestPrediction
  <1>7. \A r \in Nat : \A i : r < k => BelongsTo(r, i, b, k)' = BelongsTo(r, i, b, k)
    <2>1. \A r \in Nat : \A i : r < k => IsAnchoredTo(r, i, b, k)' = IsAnchoredTo(r, i, b, k)
      BY <1>4, <1>5 DEF IsAnchoredTo
    <2>2. \A r \in Nat : \A i : r < k => IsLastQueryBefore(i, r, b)' = IsLastQueryBefore(i, r, b)
      BY <1>3 DEF IsLastQueryBefore
    <2> QED
      BY <1>5, <2>1, <2>2 DEF BelongsTo
  <1>8. ReplyOrdinals(b, k)' = ReplyOrdinals(b, k)
    BY <1>2, <1>3 DEF ReplyOrdinals
  <1>9. RunsShow(b, k) /\ runs' = runs => RunsShow(b, k)'
    BY <1>3, <1>6 DEF RunsShow
  <1>10. RepliesShow(b, k) /\ replies' = replies => RepliesShow(b, k)'
    BY <1>2, <1>7, <1>8 DEF RepliesShow, ReplyOrdinals
  <1> QED
    BY <1>9, <1>10

-----------------------------------------------------------------------------
(* The theorem. *)

\* With this much more StoreIsView is inductive: a replay may not start ahead
\* of the cursor.
IInv ==
    /\ TypeOK
    /\ base <= Next0
    /\ StoreIsView

LEMMA Next0Nat == ASSUME TypeOK PROVE Next0 \in Nat
  BY DEF TypeOK, Next0, NextOf, Cursor, Absent, Fresh

\* One ingest, from any prefixes to the prefix that ends with its entry.
LEMMA IngestShows ==
    ASSUME TypeOK, NEW b \in Nat, NEW n \in Ordinals, b <= n, log' = log,
           RunsShow(b, n) \/ RunsShow(b, n+1),
           RepliesShow(b, n) \/ RepliesShow(b, n+1),
           \/ IngestQuery(n)
           \/ IngestReply(n)
           \/ IngestPrediction(n)
           \/ IngestOutcome(n)
           \/ SkipEntry(n)
    PROVE  RunsShow(b, n+1)' /\ RepliesShow(b, n+1)'
  <1> StoreTypeOK
    BY DEF TypeOK, StoreTypeOK
  <1> n \in Nat /\ At(n) \in Entry /\ (\A c : IsKind(n, c) <=> At(n).kind = c)
    BY EntryRead DEF IsKind
  <1>1. ASSUME ~IsKind(n, "query"), ~IsPrediction(n, b) PROVE RunsShow(b, n+1)
    BY <1>1, RunsShowNext
  <1>2. ASSUME ~IsKind(n, "reply"), ~IsPrediction(n, b) PROVE RepliesShow(b, n+1)
    BY <1>2, RepliesShowNext
  <1>3. ASSUME RunsShow(b, n+1), runs' = runs PROVE RunsShow(b, n+1)'
    BY <1>3, ViewFixed DEF RunsShow
  <1>4. ASSUME RepliesShow(b, n+1), replies' = replies PROVE RepliesShow(b, n+1)'
    BY <1>4, ViewFixed DEF RepliesShow, ReplyOrdinals
  <1>5. ~IsKind(n, "prediction") => ~IsPrediction(n, b)
    BY DEF IsPrediction, Predicts
  <1>6. CASE IngestQuery(n)
    BY <1>2, <1>4, <1>5, <1>6, UpsertShows DEF IngestQuery, UpsertRun
  <1>7. CASE IngestReply(n)
    <2>1. runs' = runs
      BY <1>7 DEF IngestReply, AttachReply, storeVars
    <2> QED
      BY <1>1, <1>3, <1>5, <1>7, <2>1, AttachShows DEF IngestReply
  <1>8. CASE IngestPrediction(n)
    BY <1>8, PredictionShows, ReanchorShows DEF IngestPrediction, SetPrediction
  <1>9. CASE IngestOutcome(n)
    <2>1. RunsShow(b, n+1)
      BY <1>1, <1>5, <1>9 DEF IngestOutcome
    <2>2. RunsShow(b, n+1)'
      BY <1>9, <2>1, OtherColumns, ColumnsKept DEF IngestOutcome, SetOutcome
    <2> QED
      BY <1>2, <1>4, <1>5, <1>9, <2>2 DEF IngestOutcome, SetOutcome
  <1>10. CASE SkipEntry(n)
    <2>1. ~IsPrediction(n, b)
      BY <1>10, RapidsAssumption DEF SkipEntry, IsPrediction, Predicts, Queries, IsKind
    <2> QED
      BY <1>1, <1>2, <1>3, <1>4, <1>10, <2>1 DEF SkipEntry, storeVars
  <1> QED
    BY <1>6, <1>7, <1>8, <1>9, <1>10

\* Without a run there is no reply, and so an empty store shows an empty prefix.
LEMMA EmptyShows ==
    ASSUME TypeOK, base <= Next0, StoreIsView, StoreIsEmpty
    PROVE  DOMAIN replies = {}
  <1> Next0 \in Nat /\ base \in Nat
    BY Next0Nat DEF TypeOK
  <1>1. PICK kr \in Prefixes : Queries(base, kr) = {}
    BY DEF StoreIsView, StoreIsEmpty, RunsShow
  <1>2. PICK kp \in Prefixes :
           DOMAIN replies = {r \in base .. kp-1 : IsKind(r, "reply") /\ Queries(base, r) # {}}
    BY DEF StoreIsView, RepliesShow
  <1>3. kr \in Nat /\ kp \in Nat /\ kp <= kr + 1
    BY DEF Prefixes
  <1>4. \A r \in base .. kp-1 : Queries(base, r) = {}
    BY <1>1, <1>3 DEF Queries
  <1> QED
    BY <1>2, <1>4

LEMMA EmptyIsView ==
    ASSUME NEW k \in Nat, DOMAIN runs' = {}, DOMAIN replies' = {}
    PROVE  RunsShow(k, k)' /\ RepliesShow(k, k)'
  BY DEF RunsShow, RepliesShow, Queries

LEMMA ViewStep ==
    ASSUME IInv, [Next]_vars
    PROVE  IInv'
  <1>1. TypeOK /\ TypeOK'
    BY TypeStep DEF IInv
  <1> StoreTypeOK
    BY <1>1 DEF TypeOK, StoreTypeOK
  <1>2. PICK b \in Nat : b = base
    BY <1>1 DEF TypeOK
  <1>3. PICK n \in Nat : n = Next0
    BY <1>1, Next0Nat
  <1>4. b <= n
    BY <1>2, <1>3 DEF IInv
  <1>5. PICK kr \in Prefixes : kr <= Len(log) /\ RunsShow(b, kr)
    BY <1>2 DEF IInv, StoreIsView
  <1>6. PICK kp \in Prefixes : kp <= Len(log) /\ RepliesShow(b, kp)
    BY <1>2 DEF IInv, StoreIsView
  <1>7. /\ kr \in Nat
        /\ kp \in Nat
        /\ kr \in {n, n+1}
        /\ kp \in {n, n+1}
        /\ pc = "commit" => kr = n+1 /\ kp = n+1
    BY <1>3, <1>5, <1>6 DEF Prefixes
  <1>8. Len(log) \in Nat /\ log \in Seq(Entry) /\ log' \in Seq(Entry)
    BY <1>1 DEF TypeOK
  \* It is enough to name the prefixes after the step.
  <1>9. ASSUME NEW c \in Nat, NEW k \in Nat, NEW l \in Nat,
               base' = c, c <= Next0', k \in Prefixes', l \in Prefixes',
               k <= Len(log'), l <= Len(log'), RunsShow(c, k)', RepliesShow(c, l)'
        PROVE  IInv'
    BY <1>1, <1>9 DEF IInv, StoreIsView
  \* Steps that change neither the store nor the queue.
  <1>10. ASSUME UNCHANGED <<log, runs, replies, base>>,
                kr \in Prefixes', kp \in Prefixes', b <= Next0'
         PROVE  IInv'
    <2>1. RunsShow(b, kr)' /\ RepliesShow(b, kp)'
      BY <1>5, <1>6, <1>10, SameTables
    <2> QED
      BY <1>2, <1>5, <1>6, <1>7, <1>9, <1>10, <2>1
  \* Steps that only make the queue longer.
  <1>11. ASSUME UNCHANGED <<runs, replies, base, uiCursor, pc>>, NEW e \in Entry, Appended(e)
         PROVE  IInv'
    <2>1. RunsShow(b, kr)' /\ RepliesShow(b, kp)'
      BY <1>1, <1>5, <1>6, <1>7, <1>8, <1>11, LogGrows, PrefixStable
    <2>2. Len(log') = Len(log) + 1
      BY <1>1, <1>11, LogGrows
    <2>3. Next0' = Next0 /\ Prefixes' = Prefixes
      BY <1>11 DEF Next0, Prefixes
    <2> QED
      BY <1>2, <1>3, <1>4, <1>5, <1>6, <1>7, <1>8, <1>9, <1>11, <2>1, <2>2, <2>3
  \* Steps of a handler.
  <1>12. ASSUME UNCHANGED <<log, replies, base, uiCursor, pc>>, DOMAIN runs' = DOMAIN runs,
                \A i \in DOMAIN runs : runs'[i].prediction = runs[i].prediction
         PROVE  IInv'
    <2>1. RunsShow(b, kr)'
      BY <1>5, <1>12, OtherColumns
    <2>2. RepliesShow(b, kp)'
      BY <1>6, <1>12, SameTables
    <2>3. Next0' = Next0 /\ Prefixes' = Prefixes
      BY <1>12 DEF Next0, Prefixes
    <2> QED
      BY <1>2, <1>3, <1>4, <1>5, <1>6, <1>7, <1>8, <1>9, <1>12, <2>1, <2>2, <2>3
  <1>13. CASE Produce
    <2> PICK e \in Entry : Appended(e)
      BY <1>1, <1>13, EntryTypes DEF Produce
    <2> QED
      BY <1>11, <1>13 DEF Produce
  <1>14. CASE Reset
    <2>1. CASE ResetNeeded /\ uiCursor' = Absent /\ base' = 0
      <3>1. DOMAIN runs' = {} /\ DOMAIN replies' = {}
        BY <1>14, <2>1, EmptyShows DEF Reset, ResetNeeded, StoreIsEmpty, IInv
      <3>2. RunsShow(0, 0)' /\ RepliesShow(0, 0)'
        BY <3>1, EmptyIsView
      <3>3. Next0' = 0 /\ 0 \in Prefixes'
        BY <1>14, <2>1 DEF Reset, Next0, NextOf, Prefixes, Absent
      <3> QED
        BY <1>8, <1>9, <1>14, <2>1, <3>2, <3>3 DEF Reset
    <2>2. CASE UNCHANGED <<uiCursor, base>>
      BY <1>3, <1>4, <1>7, <1>10, <1>14, <2>2 DEF Reset, Next0, Prefixes
    <2> QED
      BY <1>14, <2>1, <2>2 DEF Reset
  <1>15. CASE Create
    <2>1. Next0' = Next0
      BY <1>1, <1>15 DEF Create, Created, Next0, NextOf, TypeOK, Cursor, Absent, Fresh
    <2> QED
      BY <1>3, <1>4, <1>7, <1>10, <1>15, <2>1 DEF Create, Prefixes
  <1>16. CASE Ingest
    <2>1. n \in Ordinals /\ pc = "step" /\ pc' = "commit" /\ log' = log /\ base' = base
          /\ uiCursor' = uiCursor
      BY <1>3, <1>16 DEF Ingest
    <2>2. RunsShow(b, n+1)' /\ RepliesShow(b, n+1)'
      <3>1. RunsShow(b, n) \/ RunsShow(b, n+1)
        BY <1>5, <1>7
      <3>2. RepliesShow(b, n) \/ RepliesShow(b, n+1)
        BY <1>6, <1>7
      <3> QED
        BY <1>1, <1>3, <1>4, <1>16, <2>1, <3>1, <3>2, IngestShows DEF Ingest
    <2>3. Next0' = n /\ Prefixes' = {n+1}
      BY <1>3, <2>1 DEF Next0, Prefixes
    <2>4. n+1 <= Len(log')
      BY <1>8, <2>1 DEF Ordinals
    <2> QED
      BY <1>2, <1>4, <1>9, <2>1, <2>2, <2>3, <2>4
  <1>17. CASE IngestPart
    <2>1. n \in Ordinals /\ pc = "step" /\ log' = log /\ base' = base
          /\ UNCHANGED <<uiCursor, pc>>
      BY <1>3, <1>17 DEF IngestPart
    <2>2. CASE AttachReplyPart1(Next0, At(Next0).tag)
      BY <1>3, <1>4, <1>7, <1>10, <2>1, <2>2 DEF AttachReplyPart1, Next0, Prefixes
    <2>3. CASE At(Next0).kind = "prediction" /\ SetPredictionPart1(At(Next0).tag, Next0)
      <3>1. RunsShow(b, n+1)'
        BY <1>3, <1>4, <1>5, <1>7, <2>1, <2>3, PredictionShows DEF SetPredictionPart1, IsKind
      <3>2. RepliesShow(b, kp)'
        BY <1>6, <2>1, <2>3, SameTables DEF SetPredictionPart1
      <3>3. Next0' = n /\ Prefixes' = {n, n+1}
        BY <1>3, <2>1 DEF Next0, Prefixes
      <3>4. n+1 <= Len(log')
        BY <1>8, <2>1 DEF Ordinals
      <3> QED
        BY <1>2, <1>4, <1>6, <1>7, <1>9, <2>1, <3>1, <3>2, <3>3, <3>4
    <2> QED
      BY <1>17, <2>2, <2>3 DEF IngestPart
  <1>18. CASE Commit
    <2>1. Next0' \in {n, n+1}     \* a cursor that does not exist stays so
      BY <1>1, <1>3, <1>18
      DEF Commit, Moved, Next0, NextOf, TypeOK, Cursor, Absent, Fresh
    <2>2. Prefixes' = {Next0', Next0'+1}
      BY <1>18 DEF Commit, Prefixes
    <2>3. kr = n+1 /\ kp = n+1
      <3>1. pc = "commit"
        BY <1>18 DEF Commit
      <3> QED
        BY <1>7, <3>1
    <2>4. n+1 \in Prefixes' /\ b <= Next0'
      <3>1. CASE Next0' = n
        BY <1>4, <2>2, <3>1
      <3>2. CASE Next0' = n+1
        BY <1>4, <2>2, <3>2
      <3> QED
        BY <2>1, <3>1, <3>2
    <2> QED
      BY <1>10, <1>18, <2>3, <2>4 DEF Commit
  <1>19. CASE CommitFails
    BY <1>3, <1>4, <1>7, <1>10, <1>19 DEF CommitFails, Next0, Prefixes
  <1>20. CASE SaveNotes
    BY <1>12, <1>20, ColumnsKept DEF SaveNotes, SetNotes
  <1>21. CASE ToggleArchive
    BY <1>12, <1>21, ColumnsKept DEF ToggleArchive, SetArchived
  <1>22. CASE AppendOutcome
    <2> PICK i \in DOMAIN runs \cup StrayTags : Appended(OutcomeEntry(i))
      BY <1>22 DEF AppendOutcome
    <2> OutcomeEntry(i) \in Entry
      BY <1>1, EntryTypes, ConsumerAssumption DEF TypeOK
    <2> QED
      BY <1>11, <1>22 DEF AppendOutcome
  <1>23. CASE WriteOutcome
    BY <1>12, <1>23, ColumnsKept DEF WriteOutcome, SetOutcome
  <1>24. CASE Crash
    BY <1>3, <1>4, <1>7, <1>10, <1>24 DEF Crash, Next0, Prefixes
  <1>25. CASE Wipe
    <2>1. DOMAIN runs' = {} /\ DOMAIN replies' = {}
      BY <1>25 DEF Wipe, EraseStore, EmptyTable
    <2>2. RunsShow(n, n)' /\ RepliesShow(n, n)'
      BY <2>1, EmptyIsView
    <2>3. base' = n /\ Next0' = n /\ n \in Prefixes' /\ log' = log
      BY <1>3, <1>25 DEF Wipe, Next0, Prefixes
    <2>4. n <= Len(log')
      BY <1>5, <1>7, <1>8, <2>3
    <2> QED
      BY <1>9, <2>2, <2>3, <2>4
  <1>26. CASE UNCHANGED vars
    BY <1>3, <1>4, <1>7, <1>10, <1>26 DEF vars, Next0, Prefixes
  <1> QED
    BY <1>13, <1>14, <1>15, <1>16, <1>17, <1>18, <1>19, <1>20, <1>21, <1>22, <1>23, <1>24,
       <1>25, <1>26 DEF Next

LEMMA ViewInvariant == Spec => []IInv
<1>1. Init => IInv
  <2> SUFFICES ASSUME Init PROVE IInv
    OBVIOUS
  <2>1. TypeOK
    BY DEF Init, StoreInit, TypeOK, EmptyTable, Cursor, Absent, Fresh
  <2>2. Next0 = 0 /\ 0 \in Prefixes /\ base = 0 /\ Len(log) = 0
    BY DEF Init, Next0, NextOf, Prefixes, Absent
  <2>3. RunsShow(0, 0) /\ RepliesShow(0, 0)
    BY DEF Init, StoreInit, EmptyTable, RunsShow, RepliesShow, Queries
  <2> QED
    BY <2>1, <2>2, <2>3 DEF IInv, StoreIsView
<1>2. IInv /\ [Next]_vars => IInv'
  BY ViewStep
<1> QED
  BY <1>1, <1>2, PTL DEF Spec

\* At every moment the tables say what the queue says up to the entry in hand,
\* for every queue and every combination of crashes, failed commits,
\* half-executed methods, failed resets and wipes.
THEOREM StoreAlwaysView == Spec => []StoreIsView
<1>1. IInv => StoreIsView
  BY DEF IInv
<1> QED
  BY <1>1, ViewInvariant, PTL

-----------------------------------------------------------------------------

\* A query below the end of a prefix is a query of the prefix.
LEMMA QueriesGrow ==
    ASSUME NEW k \in Nat, NEW m \in {k, k+1}
    PROVE  Queries(0, k) \subseteq Queries(0, m)
BY DEF Queries

-----------------------------------------------------------------------------
(* The replay after a wipe. *)

\* A reset that is needed is made before anything is ingested; one that is not
\* starts the store at entry 0 or 1.
ReplayInv ==
    /\ pc # "reset" => base <= 1
    /\ base > 1 => StoreIsEmpty /\ base = Next0

LEMMA ReplayStep ==
    ASSUME "delete" \notin Faults, TypeOK, ReplayInv, [Next]_vars
    PROVE  ReplayInv'
  <1> /\ base \in Nat
      /\ Next0 \in Nat
      /\ uiCursor \in Cursor
    BY Next0Nat DEF TypeOK
  <1>1. CASE Reset
    <2>1. CASE base' = 0
      BY <2>1 DEF ReplayInv
    <2>2. CASE base' = base /\ uiCursor' = uiCursor /\ ~ResetNeeded
      <3>1. ~(base > 1)
        BY <2>2 DEF ResetNeeded, ReplayInv, Next0, NextOf, Cursor, Absent, Fresh
      <3> QED
        BY <2>2, <3>1 DEF ReplayInv
    <2> QED
      BY <1>1, <2>1, <2>2 DEF Reset
  <1>2. CASE Create \/ Ingest \/ IngestPart \/ Commit \/ CommitFails
    <2>1. base <= 1 /\ base' = base
      BY <1>2 DEF Create, Ingest, IngestPart, Commit, CommitFails, ReplayInv
    <2> QED
      BY <2>1 DEF ReplayInv
  <1>3. CASE SaveNotes \/ ToggleArchive \/ WriteOutcome
    <2>1. DOMAIN runs' = DOMAIN runs
      BY <1>3 DEF SaveNotes, ToggleArchive, WriteOutcome, SetNotes, SetArchived, SetOutcome,
                  WithNotes, WithArchived, WithOutcome
    <2> QED
      BY <1>3, <2>1 DEF SaveNotes, ToggleArchive, WriteOutcome, ReplayInv, StoreIsEmpty, Next0
  <1>4. CASE Produce \/ AppendOutcome \/ Crash \/ UNCHANGED vars
    BY <1>4 DEF Produce, AppendOutcome, Crash, vars, ReplayInv, StoreIsEmpty, Next0
  <1>5. CASE Wipe
    BY <1>5 DEF Wipe, EraseStore, EmptyTable, ReplayInv, StoreIsEmpty, Next0
  <1> QED
    BY <1>1, <1>2, <1>3, <1>4, <1>5 DEF Next

\* "Every screen is derivable from the rapids, so drop the cursor and replay
\* from origin" (consumer.rs 14-16): when the reset's cursor_delete does not
\* fail, a deleted database costs no query but one at ordinal 0, through every
\* sequence of wipes, crashes and failed commits.
THEOREM ReplayShowsLaterQueries ==
    ASSUME "delete" \notin Faults
    PROVE  Spec => []LaterQueriesShown
<1>1. Init => ReplayInv
  BY DEF Init, ReplayInv
<1>2. TypeOK /\ ReplayInv /\ [Next]_vars => ReplayInv'
  BY ReplayStep
<1>3. TypeOK /\ ReplayInv /\ StoreIsView => LaterQueriesShown
  <2> SUFFICES ASSUME TypeOK, ReplayInv, StoreIsView, pc = "step",
                      NEW q \in Queries(1, Next0)
               PROVE  q \in DOMAIN runs
    BY DEF LaterQueriesShown
  <2> PICK k \in Prefixes : RunsShow(base, k)
    BY DEF StoreIsView
  <2>1. Next0 \in Nat /\ base \in Nat /\ base <= 1 /\ k \in {Next0, Next0 + 1}
    BY Next0Nat DEF ReplayInv, Prefixes, TypeOK
  <2>2. q \in Queries(base, k)
    BY <2>1 DEF Queries
  <2> QED
    BY <2>2 DEF RunsShow
<1> QED
  BY <1>1, <1>2, <1>3, TypeCorrect, StoreAlwaysView, PTL DEF Spec

-----------------------------------------------------------------------------
(* Outcomes, which the handler writes as well as the consumer. *)

\* The entries whose ingest the tables show already.
Passed(o) == o < Next0 \/ (pc = "commit" /\ o = Next0)

\* An outcome column holds an outcome of its run, and none of those the
\* consumer has passed is newer; what a handler is about to write is newest.
ColumnSound(i) ==
    /\ runs[i].outcome \in OutcomesOf(i) \cup {NoOrdinal}
    /\ \A o \in OutcomesOf(i) : i < o /\ Passed(o) => o <= runs[i].outcome

WriteSound(w) ==
    /\ w.ordinal \in OutcomesOf(w.item)
    /\ \A o \in OutcomesOf(w.item) : o <= w.ordinal

OutcomeInv ==
    /\ IsFiniteSet(inflight)
    /\ \A w \in inflight : WriteSound(w)
    /\ \A i \in DOMAIN runs : ColumnSound(i)

LEMMA OutcomesFixed ==
    ASSUME log' = log
    PROVE  \A i : OutcomesOf(i)' = OutcomesOf(i)
  BY DEF OutcomesOf, IsKind, At, Ordinals

\* What one more entry adds to the outcomes.
LEMMA OutcomesGrow ==
    ASSUME TypeOK, NEW e \in Entry, Appended(e), NEW i
    PROVE  OutcomesOf(i)' =
              IF e.kind = "outcome" /\ e.tag = i THEN OutcomesOf(i) \cup {Len(log)}
              ELSE OutcomesOf(i)
  <1>1. /\ Len(log) \in Nat
        /\ Len(log') = Len(log) + 1
        /\ \A n \in Ordinals : n \in Ordinals' /\ At(n)' = At(n)
    BY LogGrows DEF TypeOK
  <1>2. \A n : n = Len(log) => At(n)' = e
    BY <1>1 DEF At, Appended, TypeOK
  <1>3. Ordinals' = Ordinals \cup {Len(log)} /\ Len(log) \notin Ordinals
    BY <1>1 DEF Ordinals
  <1>4. \A n : n \in OutcomesOf(i)' <=>
                n \in Ordinals' /\ At(n)'.kind = "outcome" /\ At(n)'.tag = i
    BY DEF OutcomesOf, IsKind
  <1>5. \A n : n \in OutcomesOf(i) <=>
                n \in Ordinals /\ At(n).kind = "outcome" /\ At(n).tag = i
    BY DEF OutcomesOf, IsKind
  <1> QED
    BY <1>1, <1>2, <1>3, <1>4, <1>5

\* Before an entry is in hand its place is behind everything that was passed.
LEMMA PassedBounds ==
    ASSUME IInv
    PROVE  /\ Next0 \in Nat
           /\ Len(log) \in Nat
           /\ \A o : Passed(o) /\ o \in Nat => o < Len(log)
  <1>1. Next0 \in Nat /\ Len(log) \in Nat
    BY Next0Nat DEF IInv, TypeOK
  <1>2. PICK k \in Prefixes : k <= Len(log)
    BY DEF IInv, StoreIsView
  <1> QED
    BY <1>1, <1>2 DEF Prefixes, Passed

\* Steps that leave outcomes and runs alone and pass nothing.
LEMMA ColumnsStay ==
    ASSUME OutcomeInv, log' = log, NEW i \in DOMAIN runs,
           runs'[i].outcome = runs[i].outcome,
           \A o : Passed(o)' => Passed(o)
    PROVE  ColumnSound(i)'
  BY OutcomesFixed DEF OutcomeInv, ColumnSound

LEMMA WritesStay ==
    ASSUME OutcomeInv, log' = log, inflight' \subseteq inflight
    PROVE  IsFiniteSet(inflight') /\ \A w \in inflight' : WriteSound(w)'
  BY OutcomesFixed, FS_Subset DEF OutcomeInv, WriteSound

\* A new entry that is no outcome.
LEMMA OtherEntryStays ==
    ASSUME IInv, OutcomeInv, NEW e \in Entry, Appended(e), e.kind # "outcome",
           UNCHANGED <<runs, inflight, uiCursor, pc>>
    PROVE  OutcomeInv'
  <1>1. \A i : OutcomesOf(i)' = OutcomesOf(i)
    BY OutcomesGrow DEF IInv
  <1>2. \A o : Passed(o)' <=> Passed(o)
    BY DEF Passed, Next0
  <1> QED
    BY <1>1, <1>2 DEF OutcomeInv, WriteSound, ColumnSound

\* A handler's append: no other handler is at work, so that its entry is the
\* newest of its item.
LEMMA AppendSound ==
    ASSUME MaxInflight <= 1, IInv, OutcomeInv, AppendOutcome
    PROVE  OutcomeInv'
  <1>1. TypeOK
    BY DEF IInv
  <1>2. PICK i \in DOMAIN runs \cup StrayTags :
           /\ Appended(OutcomeEntry(i))
           /\ \/ inflight' = inflight \cup {[item |-> i, ordinal |-> Len(log)]}
              \/ inflight' = inflight
    BY DEF AppendOutcome
  <1> DEFINE w == [item |-> i, ordinal |-> Len(log)]
  <1>3. i \in Nat /\ OutcomeEntry(i) \in Entry
    BY <1>1, EntryTypes, ConsumerAssumption DEF TypeOK
  <1>4. \A j : OutcomesOf(j)' =
                  IF j = i THEN OutcomesOf(j) \cup {Len(log)} ELSE OutcomesOf(j)
    BY <1>1, <1>2, <1>3, OutcomesGrow DEF OutcomeEntry
  <1>5. inflight = {}
    <2>1. Cardinality(inflight) < MaxInflight /\ IsFiniteSet(inflight)
      BY DEF AppendOutcome, OutcomeInv
    <2>2. Cardinality(inflight) \in Nat
      BY <2>1, FS_CardinalityType
    <2>3. Cardinality(inflight) = 0
      BY <2>1, <2>2, ConsumerAssumption
    <2> QED
      BY <2>1, <2>3, FS_EmptySet
  <1>6. Len(log) \in Nat /\ \A j : \A o \in OutcomesOf(j) : o \in Nat /\ o < Len(log)
    BY <1>1 DEF TypeOK, OutcomesOf, Ordinals
  <1>7. inflight' \subseteq {w}
    BY <1>2, <1>5
  <1>8. IsFiniteSet(inflight')
    <2>1. IsFiniteSet({w}) /\ inflight' \in SUBSET {w}
      BY <1>7, FS_Singleton
    <2> QED
      BY <2>1, FS_Subset
  <1>9. ASSUME NEW x \in inflight' PROVE WriteSound(x)'
    <2>1. x.ordinal = Len(log) /\ x.item = i
      BY <1>7
    <2> QED
      BY <1>4, <1>6, <2>1 DEF WriteSound
  <1>10. ASSUME NEW j \in DOMAIN runs' PROVE ColumnSound(j)'
    <2>1. runs' = runs /\ j \in DOMAIN runs /\ \A o : Passed(o)' <=> Passed(o)
      BY DEF AppendOutcome, Passed, Next0
    <2>2. ~Passed(Len(log))
      BY <1>6, PassedBounds
    <2> QED
      BY <1>4, <2>1, <2>2 DEF OutcomeInv, ColumnSound
  <1> QED
    BY <1>7, <1>8, <1>9, <1>10 DEF OutcomeInv


\* An ingest makes its entry the newest that was passed.
LEMMA IngestSound ==
    ASSUME IInv, OutcomeInv, Ingest
    PROVE  OutcomeInv'
  <1>1. TypeOK /\ StoreTypeOK
    BY DEF IInv, TypeOK, StoreTypeOK
  <1>2. PICK n \in Ordinals : n = Next0
    BY DEF Ingest
  <1>3. n \in Nat /\ At(n) \in Entry
    BY <1>1, EntryRead
  <1>4. /\ log' = log /\ inflight' = inflight
        /\ \A o \in Nat : Passed(o)' => Passed(o) \/ o = n
    BY <1>2, <1>3 DEF Ingest, Passed, Next0
  <1>5. IsFiniteSet(inflight') /\ \A w \in inflight' : WriteSound(w)'
    BY <1>4, WritesStay
  <1>6. \A i : \A o \in OutcomesOf(i) :
           o \in Nat /\ At(o).tag = i /\ At(o).kind = "outcome"
    BY <1>1 DEF TypeOK, OutcomesOf, IsKind, Ordinals
  \* A run that the entry is no outcome of.
  <1>7. ASSUME NEW i \in DOMAIN runs, n \notin OutcomesOf(i), i \in DOMAIN runs',
               runs'[i].outcome = runs[i].outcome
        PROVE  ColumnSound(i)'
    BY <1>4, <1>6, <1>7, OutcomesFixed DEF OutcomeInv, ColumnSound
  <1>8. CASE IngestQuery(n)
    <2>1. ASSUME NEW i \in DOMAIN runs PROVE ColumnSound(i)'
      <3>1. n \notin OutcomesOf(i)
        BY <1>6, <1>8 DEF IngestQuery
      <3>2. i \in DOMAIN runs' /\ runs'[i] = runs[i]
        BY <1>8 DEF IngestQuery, UpsertRun, Inserted
      <3> QED
        BY <1>7, <3>1, <3>2
    <2>2. ASSUME NEW i \in DOMAIN runs' \ DOMAIN runs PROVE ColumnSound(i)'
      <3>1. i = n /\ runs'[i].outcome = NoOrdinal
        BY <1>8 DEF IngestQuery, UpsertRun, Inserted, NewRun
      <3>2. \A o \in Nat : Passed(o)' => o <= n
        BY <1>2, <1>3, <1>4 DEF Passed
      <3> QED
        BY <1>3, <1>4, <1>6, <3>1, <3>2, OutcomesFixed DEF ColumnSound
    <2> QED
      BY <1>5, <2>1, <2>2 DEF OutcomeInv
  <1>9. CASE IngestReply(n) \/ SkipEntry(n)
    <2>1. runs' = runs
      BY <1>9 DEF IngestReply, AttachReply, SkipEntry, storeVars
    <2>2. ASSUME NEW i \in DOMAIN runs PROVE n \notin OutcomesOf(i)
      <3>1. i \in Nat
        BY <1>1 DEF TypeOK
      <3> QED
        BY <1>6, <1>9, <3>1, RapidsAssumption DEF IngestReply, SkipEntry
    <2> QED
      BY <1>5, <1>7, <2>1, <2>2 DEF OutcomeInv
  <1>10. CASE IngestPrediction(n)
    <2>1. DOMAIN runs' = DOMAIN runs
          /\ \A i \in DOMAIN runs : runs'[i].outcome = runs[i].outcome
      BY <1>1, <1>10 DEF IngestPrediction, SetPrediction, WithPrediction, StoreTypeOK, Run
    <2>2. \A i : n \notin OutcomesOf(i)
      BY <1>6, <1>10 DEF IngestPrediction
    <2> QED
      BY <1>5, <1>7, <2>1, <2>2 DEF OutcomeInv
  <1>11. CASE IngestOutcome(n)
    <2> DEFINE item == At(n).tag
    <2>1. DOMAIN runs' = DOMAIN runs
          /\ \A i \in DOMAIN runs : i # item => runs'[i] = runs[i]
      BY <1>1, <1>3, <1>11 DEF IngestOutcome, SetOutcome, WithOutcome, StoreTypeOK, Run
    <2>2. ASSUME NEW i \in DOMAIN runs, i # item PROVE ColumnSound(i)'
      BY <1>6, <1>7, <2>1, <2>2
    <2>3. ASSUME NEW i \in DOMAIN runs, i = item PROVE ColumnSound(i)'
      <3>1. n \in OutcomesOf(i)
        BY <1>11, <2>3 DEF IngestOutcome, OutcomesOf, IsKind
      <3>2. \A o \in Nat : Passed(o)' => o <= n
        BY <1>2, <1>3, <1>4 DEF Passed
      <3>3. runs'[i].outcome = n
        BY <1>1, <1>3, <1>11, <2>3 DEF IngestOutcome, SetOutcome, WithOutcome, StoreTypeOK, Run
      <3>4. OutcomesOf(i)' = OutcomesOf(i) /\ \A o \in OutcomesOf(i) : o \in Nat
        BY <1>4, <1>6, OutcomesFixed
      <3> QED
        BY <3>1, <3>2, <3>3, <3>4 DEF ColumnSound
    <2> QED
      BY <1>5, <2>1, <2>2, <2>3 DEF OutcomeInv
  <1> QED
    BY <1>2, <1>8, <1>9, <1>10, <1>11 DEF Ingest

\* The direct write of the newest outcome.
LEMMA WriteOutcomeSound ==
    ASSUME IInv, OutcomeInv, WriteOutcome
    PROVE  OutcomeInv'
  <1>1. TypeOK /\ StoreTypeOK
    BY DEF IInv, TypeOK, StoreTypeOK
  <1>2. PICK w \in inflight : SetOutcome(w.item, w.ordinal) /\ inflight' = inflight \ {w}
    BY DEF WriteOutcome
  <1>3. log' = log /\ (\A o : Passed(o)' => Passed(o)) /\ w.ordinal \in Nat
    BY <1>1 DEF WriteOutcome, Passed, Next0, TypeOK
  <1>4. DOMAIN runs' = DOMAIN runs
        /\ \A i \in DOMAIN runs : i # w.item => runs'[i] = runs[i]
    BY <1>1, <1>2, <1>3 DEF SetOutcome, WithOutcome, StoreTypeOK, Run
  <1>5. ASSUME NEW i \in DOMAIN runs, i # w.item PROVE ColumnSound(i)'
    BY <1>3, <1>4, <1>5, ColumnsStay
  <1>6. ASSUME NEW i \in DOMAIN runs, i = w.item PROVE ColumnSound(i)'
    <2>1. w.ordinal \in OutcomesOf(i) /\ \A o \in OutcomesOf(i) : o <= w.ordinal
      BY <1>6 DEF OutcomeInv, WriteSound
    <2>2. runs'[i].outcome = w.ordinal
      BY <1>1, <1>2, <1>3, <1>6 DEF SetOutcome, WithOutcome, StoreTypeOK, Run
    <2>3. OutcomesOf(i)' = OutcomesOf(i)
      BY <1>3, OutcomesFixed
    <2> QED
      BY <2>1, <2>2, <2>3 DEF ColumnSound
  <1>7. IsFiniteSet(inflight') /\ \A x \in inflight' : WriteSound(x)'
    BY <1>2, <1>3, WritesStay
  <1> QED
    BY <1>4, <1>5, <1>6, <1>7 DEF OutcomeInv

LEMMA OutcomeStep ==
    ASSUME MaxInflight <= 1, IInv, OutcomeInv, [Next]_vars
    PROVE  OutcomeInv'
  <1>1. TypeOK /\ StoreTypeOK
    BY DEF IInv, TypeOK, StoreTypeOK
  <1>2. Next0 \in Nat /\ uiCursor \in Cursor
    BY <1>1, Next0Nat DEF TypeOK
  \* Steps of the consumer and of handlers that pass nothing and write no outcome.
  <1>3. ASSUME log' = log, inflight' \subseteq inflight,
               DOMAIN runs' \subseteq DOMAIN runs,
               \A i \in DOMAIN runs' : runs'[i].outcome = runs[i].outcome,
               \A o \in Nat : Passed(o)' => Passed(o)
        PROVE  OutcomeInv'
    <2>1. \A i : \A o \in OutcomesOf(i) : o \in Nat
      BY <1>1 DEF TypeOK, OutcomesOf, Ordinals
    <2>2. ASSUME NEW i \in DOMAIN runs' PROVE ColumnSound(i)'
      BY <1>3, <2>1, OutcomesFixed DEF OutcomeInv, ColumnSound
    <2> QED
      BY <1>3, <2>2, WritesStay DEF OutcomeInv
  <1>4. CASE Produce
    <2> PICK e \in Entry : Appended(e) /\ e.kind # "outcome"
      BY <1>1, <1>4, EntryTypes
      DEF Produce, QueryEntry, OtherEntry, ReplyEntry, PredictionEntry
    <2> QED
      BY <1>4, OtherEntryStays DEF Produce
  <1>5. CASE Reset
    <2>1. Next0' = Next0 \/ Next0' = 0
      BY <1>5 DEF Reset, Next0, NextOf, Absent
    <2> QED
      BY <1>2, <1>3, <1>5, <2>1 DEF Reset, Passed
  <1>6. CASE Create
    <2>1. Next0' = Next0
      BY <1>2, <1>6 DEF Create, Created, Next0, NextOf, Cursor, Absent, Fresh
    <2> QED
      BY <1>3, <1>6, <2>1 DEF Create, Passed
  <1>7. CASE Ingest
    BY <1>7, IngestSound
  <1>8. CASE IngestPart
    <2>1. DOMAIN runs' = DOMAIN runs
          /\ \A i \in DOMAIN runs : runs'[i].outcome = runs[i].outcome
      BY <1>1, <1>8
      DEF IngestPart, AttachReplyPart1, SetPredictionPart1, WithPrediction, StoreTypeOK, Run
    <2> QED
      BY <1>3, <1>8, <2>1 DEF IngestPart, Passed, Next0
  <1>9. CASE Commit
    <2>1. Next0' = Next0 \/ Next0' = Next0 + 1
      BY <1>2, <1>9 DEF Commit, Moved, Next0, NextOf, Cursor, Absent, Fresh
    <2> QED
      BY <1>2, <1>3, <1>9, <2>1 DEF Commit, Passed
  <1>10. CASE CommitFails
    BY <1>3, <1>10 DEF CommitFails, Passed, Next0
  <1>11. CASE SaveNotes \/ ToggleArchive
    <2>1. DOMAIN runs' = DOMAIN runs
          /\ \A i \in DOMAIN runs : runs'[i].outcome = runs[i].outcome
      BY <1>1, <1>11
      DEF SaveNotes, ToggleArchive, SetNotes, SetArchived, WithNotes, WithArchived,
          StoreTypeOK, Run
    <2> QED
      BY <1>3, <1>11, <2>1 DEF SaveNotes, ToggleArchive, Passed, Next0
  <1>12. CASE AppendOutcome
    BY <1>12, AppendSound
  <1>13. CASE WriteOutcome
    BY <1>13, WriteOutcomeSound
  <1>14. CASE Crash
    BY <1>3, <1>14 DEF Crash, Passed, Next0
  <1>15. CASE Wipe
    BY <1>3, <1>15 DEF Wipe, EraseStore, EmptyTable, Passed, Next0
  <1>16. CASE UNCHANGED vars
    BY <1>3, <1>16 DEF vars, Passed, Next0
  <1> QED
    BY <1>4, <1>5, <1>6, <1>7, <1>8, <1>9, <1>10, <1>11, <1>12, <1>13, <1>14, <1>15, <1>16
    DEF Next

\* "The rapids stay the source of truth" (store.rs 319-320): with one outcome
\* handler at a time, whichever of the handler and the consumer writes last,
\* and however often either dies in between, a run whose outcomes were all
\* passed shows the newest one.
THEOREM OutcomesSettle ==
    ASSUME MaxInflight <= 1
    PROVE  Spec => []OutcomeSettled
<1>1. Init => OutcomeInv
  BY FS_EmptySet DEF Init, StoreInit, EmptyTable, OutcomeInv
<1>2. IInv /\ OutcomeInv /\ [Next]_vars => OutcomeInv'
  BY OutcomeStep
<1>3. IInv /\ OutcomeInv => OutcomeSettled
  <2> SUFFICES ASSUME IInv, OutcomeInv, pc = "step", NEW i \in DOMAIN runs,
                      \A o \in OutcomesOf(i) : i < o /\ o < Next0
               PROVE  \/ OutcomesOf(i) = {} /\ runs[i].outcome = NoOrdinal
                      \/ /\ runs[i].outcome \in OutcomesOf(i)
                         /\ \A o \in OutcomesOf(i) : o <= runs[i].outcome
    BY DEF OutcomeSettled
  <2>1. runs[i].outcome \in OutcomesOf(i) \cup {NoOrdinal}
        /\ \A o \in OutcomesOf(i) : o <= runs[i].outcome
    BY DEF OutcomeInv, ColumnSound, Passed
  <2>2. \A o \in OutcomesOf(i) : o \in Nat
    BY DEF IInv, TypeOK, OutcomesOf, Ordinals
  <2> QED
    BY <2>1, <2>2 DEF NoOrdinal
<1> QED
  BY <1>1, <1>2, <1>3, ViewInvariant, PTL DEF Spec

-----------------------------------------------------------------------------
(* One prefix for both tables, which a method that fails half-way would    *)
(* part.  Steps are taken one by one, for a module in which others append. *)

Together == \E k \in Prefixes : k <= Len(log) /\ RunsShow(base, k) /\ RepliesShow(base, k)

LEMMA TogetherIsView ==
    ASSUME TypeOK, base <= Next0, Together
    PROVE  IInv
BY DEF Together, StoreIsView, IInv

LEMMA TogetherGrows ==
    ASSUME TypeOK, ReplayInv, base <= Next0, Together,
           log' \in Seq(Entry), \A n \in Ordinals : n \in Ordinals' /\ At(n)' = At(n),
           UNCHANGED <<runs, replies, personas, uiCursor, pc, inflight, base>>
    PROVE  TypeOK' /\ ReplayInv' /\ base' <= Next0' /\ Together'
  <1>1. TypeOK'
    BY DEF TypeOK
  <1>2. Next0' = Next0 /\ Prefixes' = Prefixes
    BY DEF Next0, Prefixes
  <1>3. PICK k \in Prefixes : k <= Len(log) /\ RunsShow(base, k) /\ RepliesShow(base, k)
    BY DEF Together
  <1>4. k \in Nat /\ base \in Nat
    BY Next0Nat DEF Prefixes, TypeOK
  <1>5. k <= Len(log')
    <2>1. Len(log) \in Nat /\ Len(log') \in Nat
      BY <1>1 DEF TypeOK
    <2>2. Len(log) <= Len(log')
      <3>1. CASE Len(log) = 0
        BY <2>1, <3>1
      <3>2. CASE Len(log) # 0
        BY <2>1, <3>2 DEF Ordinals
      <3> QED
        BY <3>1, <3>2
    <2> QED
      BY <1>3, <1>4, <2>1, <2>2
  <1>6. PICK b \in Nat : b = base
    BY <1>4
  <1>7. RunsShow(b, k)' /\ RepliesShow(b, k)'
    BY <1>3, <1>4, <1>6, PrefixStable
  <1>8. Together'
    BY <1>2, <1>3, <1>5, <1>6, <1>7 DEF Together
  <1> QED
    BY <1>1, <1>2, <1>8 DEF ReplayInv, StoreIsEmpty

LEMMA TogetherStep ==
    ASSUME TypeOK, base <= Next0, Together,
           Reset \/ Create \/ Ingest \/ Commit \/ CommitFails \/ Crash \/ Wipe
    PROVE  TypeOK' /\ base' <= Next0' /\ Together'
  <1>1. TypeOK' /\ base' <= Next0'
    BY TogetherIsView, ViewStep DEF Next, IInv
  <1> SUFFICES Together'
    BY <1>1
  <1>2. PICK b \in Nat : b = base
    BY DEF TypeOK
  <1>3. PICK n \in Nat : n = Next0
    BY Next0Nat
  <1>4. PICK k \in Prefixes : k <= Len(log) /\ RunsShow(b, k) /\ RepliesShow(b, k)
    BY <1>2 DEF Together
  <1>5. k \in {n, n+1} /\ (pc = "commit" => k = n+1) /\ Len(log) \in Nat
    BY <1>3, <1>4 DEF Prefixes, TypeOK
  \* Steps that change neither the store nor the queue.
  <1>6. ASSUME UNCHANGED <<log, runs, replies, base>>, k \in Prefixes'
        PROVE  Together'
    <2>1. RunsShow(b, k)' /\ RepliesShow(b, k)'
      BY <1>4, <1>6, SameTables
    <2> QED
      BY <1>2, <1>4, <1>6, <2>1 DEF Together
  \* Steps after which the tables are empty.
  <1>7. ASSUME DOMAIN runs' = {}, DOMAIN replies' = {}, log' = log, NEW m \in Nat, m <= Len(log),
               base' = m, m \in Prefixes'
        PROVE  Together'
    <2>1. RunsShow(m, m)' /\ RepliesShow(m, m)'
      BY <1>7, EmptyIsView
    <2> QED
      BY <1>7, <2>1 DEF Together
  <1>8. CASE Reset
    <2>1. CASE ResetNeeded /\ uiCursor' = Absent /\ base' = 0
      <3>1. DOMAIN runs' = {} /\ DOMAIN replies' = {}
        BY <1>8, <2>1, EmptyShows, TogetherIsView DEF Reset, ResetNeeded, StoreIsEmpty, IInv
      <3>2. 0 \in Prefixes' /\ log' = log
        BY <1>8, <2>1 DEF Reset, Next0, NextOf, Prefixes, Absent
      <3> QED
        BY <1>5, <1>7, <2>1, <3>1, <3>2
    <2>2. CASE UNCHANGED <<uiCursor, base>>
      BY <1>3, <1>5, <1>6, <1>8, <2>2 DEF Reset, Next0, Prefixes
    <2> QED
      BY <1>8, <2>1, <2>2 DEF Reset
  <1>9. CASE Create
    <2>1. Next0' = Next0
      BY <1>9 DEF Create, Created, Next0, NextOf, TypeOK, Cursor, Absent, Fresh
    <2> QED
      BY <1>3, <1>5, <1>6, <1>9, <2>1 DEF Create, Prefixes
  <1>10. CASE Ingest
    <2>1. n \in Ordinals /\ pc' = "commit" /\ log' = log /\ base' = base /\ uiCursor' = uiCursor
      BY <1>3, <1>10 DEF Ingest
    <2>2. RunsShow(b, n+1)' /\ RepliesShow(b, n+1)'
      <3>1. b <= n /\ (RunsShow(b, n) \/ RunsShow(b, n+1)) /\ (RepliesShow(b, n) \/ RepliesShow(b, n+1))
        BY <1>2, <1>3, <1>4, <1>5
      <3> QED
        BY <1>3, <1>10, <2>1, <3>1, IngestShows DEF Ingest
    <2>3. n+1 \in Prefixes' /\ n+1 <= Len(log')
      BY <1>3, <1>5, <2>1 DEF Next0, Prefixes, Ordinals
    <2> QED
      BY <1>2, <2>1, <2>2, <2>3 DEF Together
  <1>11. CASE Commit
    <2>1. Next0' \in {n, n+1} /\ k = n+1
      BY <1>3, <1>5, <1>11 DEF Commit, Moved, Next0, NextOf, TypeOK, Cursor, Absent, Fresh
    <2> QED
      BY <1>6, <1>11, <2>1 DEF Commit, Prefixes
  <1>12. CASE CommitFails \/ Crash
    BY <1>3, <1>5, <1>6, <1>12 DEF CommitFails, Crash, Next0, Prefixes
  <1>13. CASE Wipe
    <2>1. DOMAIN runs' = {} /\ DOMAIN replies' = {} /\ log' = log /\ base' = n /\ n \in Prefixes'
      BY <1>3, <1>13 DEF Wipe, EraseStore, EmptyTable, Next0, Prefixes
    <2> QED
      BY <1>4, <1>5, <1>7, <2>1
  <1> QED
    BY <1>1, <1>8, <1>9, <1>10, <1>11, <1>12, <1>13

=============================================================================
