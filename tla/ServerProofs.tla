---------------------------- MODULE ServerProofs ----------------------------
(***************************************************************************)
(* Proofs about the whole process, for every panel, every queue found at   *)
(* the start and every number of queries: what the lemmas about Consumer   *)
(* and Listener say of their steps, put together.                          *)
(***************************************************************************)
EXTENDS Server, TLAPS

CP == INSTANCE ConsumerProofs WITH
        MaxInflight <- 0, Shelves <- {}, StrayTags <- {}, Faults <- ConsumerFaults
LP == INSTANCE ListenerProofs WITH
        DefaultEngine <- "model", Faults <- ListenerFaults

\* What the two modules assume of their constants holds of the process.
LEMMA PartsAssumed ==
    /\ CP!RapidsAssumption /\ CP!StoreAssumption /\ CP!ConsumerAssumption
    /\ LP!RapidsAssumption /\ LP!ListenerAssumption
<1>1. CP!RapidsAssumption /\ LP!RapidsAssumption
  BY RapidsAssumption DEF CP!RapidsAssumption, LP!RapidsAssumption
<1>2. CP!StoreAssumption
  BY StoreAssumption DEF CP!StoreAssumption, CP!NoNotes, NoNotes
<1>3. CP!ConsumerAssumption
  BY ServerAssumption DEF CP!ConsumerAssumption, CP!FaultKinds, C!FaultKinds
<1>4. LP!ListenerAssumption
  BY ServerAssumption DEF LP!ListenerAssumption, LP!FaultKinds, L!FaultKinds, LP!Requests
<1>5. QED
  BY <1>1, <1>2, <1>3, <1>4

-----------------------------------------------------------------------------
(* The listener's share of a step, in the words of ListenerProofs. *)

\* Each of its steps is one there.
LEMMA ListenerTurns ==
    ASSUME Ask \/ Listen \/ Crash
    PROVE  LP!Next
<1> USE DEF L!Next1, LP!Next1, L!NextOf, LP!NextOf, L!cursorVars, LP!cursorVars, L!locals,
            LP!locals, L!askVars, LP!askVars, L!answerAux, LP!answerAux, L!startAux, LP!startAux,
            L!auxVars, LP!auxVars, L!With, LP!With, L!Ask, LP!Ask, L!Requests, LP!Requests,
            L!Engines, LP!Engines, L!Degraded, LP!Degraded, L!NoEngine, LP!NoEngine, L!Row, LP!Row,
            L!Upserted, LP!Upserted, L!SetEngineRequested, LP!SetEngineRequested, L!SetEngineUsed,
            LP!SetEngineUsed, L!EngineRequested, LP!EngineRequested, L!Created, LP!Created,
            L!Moved, LP!Moved, L!Absent, LP!Absent, L!Fresh, LP!Fresh, L!FastForwardNeeded,
            LP!FastForwardNeeded, L!Returned, LP!Returned, L!PredictionExists, LP!PredictionExists,
            L!PredictionEntry, LP!PredictionEntry, L!QueryEntry, LP!QueryEntry, L!ReplyEntry,
            LP!ReplyEntry, L!Requested, LP!Requested, L!ReplyCounts, LP!ReplyCounts, L!InOrder,
            LP!InOrder, L!Replied, LP!Replied, L!BatchLands, LP!BatchLands, L!PredictionLands,
            LP!PredictionLands, L!DirOf, LP!DirOf, L!FilesIn, LP!FilesIn, L!DirRemoved,
            LP!DirRemoved, L!Stopped, LP!Stopped, L!Queries, LP!Queries, L!IsKind, LP!IsKind,
            L!Ordinals, LP!Ordinals, L!At, LP!At, L!Cardinality, LP!Cardinality
<1>1. L!Submit => LP!Submit
  BY DEF L!Submit, LP!Submit
<1>2. L!StoreRequest => LP!StoreRequest
  BY DEF L!StoreRequest, LP!StoreRequest
<1>3. L!AskElsewhere => LP!AskElsewhere
  BY DEF L!AskElsewhere, LP!AskElsewhere
<1>4. L!Boot => LP!Boot
  BY DEF L!Boot, LP!Boot
<1>5. L!ReadBaseline => LP!ReadBaseline
  BY DEF L!ReadBaseline, LP!ReadBaseline
<1>6. L!StartWalk => LP!StartWalk
  BY DEF L!StartWalk, LP!StartWalk
<1>7. L!Walk => LP!Walk
  BY DEF L!Walk, LP!Walk
<1>8. L!WalkFails => LP!WalkFails
  BY DEF L!WalkFails, LP!WalkFails
<1>9. L!Fetch => LP!Fetch
  BY DEF L!Fetch, LP!Fetch
<1>10. L!Commit => LP!Commit
  BY DEF L!Commit, LP!Commit
<1>11. L!CommitFails => LP!CommitFails
  BY DEF L!CommitFails, LP!CommitFails
<1>12. L!Check => LP!Check
  BY DEF L!Check, LP!Check
<1>13. L!ChooseEngine => LP!ChooseEngine
  BY DEF L!ChooseEngine, LP!ChooseEngine
<1>14. L!FanOut => LP!FanOut
  BY DEF L!FanOut, LP!FanOut
<1>15. L!AppendBatch => LP!AppendBatch
  BY DEF L!AppendBatch, LP!AppendBatch
<1>16. L!WriteFiles => LP!WriteFiles
  BY DEF L!WriteFiles, LP!WriteFiles
<1>17. L!Aggregate => LP!Aggregate
  BY DEF L!Aggregate, LP!Aggregate
<1>18. L!AppendPrediction => LP!AppendPrediction
  BY DEF L!AppendPrediction, LP!AppendPrediction
<1>19. L!Label => LP!Label
  BY DEF L!Label, LP!Label
<1>20. L!Crash => LP!Crash
  BY DEF L!Crash, LP!Crash
<1>21. QED
  BY <1>1, <1>2, <1>3, <1>4, <1>5, <1>6, <1>7, <1>8, <1>9, <1>10, <1>11, <1>12, <1>13, <1>14,
     <1>15, <1>16, <1>17, <1>18, <1>19, <1>20 DEF Ask, Listen, Crash, LP!Next

LEMMA ListenerRests ==
    ASSUME Consume \/ Visit \/ Poll \/ UNCHANGED vars
    PROVE  UNCHANGED LP!vars
<1>1. UNCHANGED <<log, listenerOnly>>
  BY DEF Consume, Visit, Poll, vars, C!Reset, C!Create, C!Ingest, C!Commit, C!CommitFails
<1>2. QED
  BY <1>1 DEF listenerOnly, listenerMemory, LP!vars, LP!cursorVars, LP!locals, LP!askVars, LP!auxVars,
     LP!answerAux, LP!startAux

\* The listener's own invariant; a wipe, which Listener does not know, keeps it.
ListenerInv == LP!TypeOK /\ LP!Placed /\ LP!Served

LEMMA WipeStops ==
    ASSUME ListenerInv, Wipe
    PROVE  ListenerInv' /\ (LP!TurnInv => LP!TurnInv') /\ UNCHANGED LP!S!svars
<1>1. LP!Stopped
  BY DEF Wipe, L!Stopped, LP!Stopped, L!Returned, LP!Returned, L!NoEngine, LP!NoEngine
<1>2. UNCHANGED <<log, LP!cursorVars, files, author, history>> /\ DOMAIN meta' = {}
  BY DEF Wipe, C!Wipe, listenerMemory, LP!cursorVars, EmptyMeta
<1>3. QED
  BY <1>1, <1>2, PartsAssumed, LP!StopKeeps DEF ListenerInv

LEMMA ListenerStep ==
    ASSUME ListenerFaults \subseteq LP!LoneFaults, ListenerInv, [Next]_vars
    PROVE  ListenerInv' /\ [LP!S!Next]_(LP!S!svars)
<1>1. CASE [LP!Next]_(LP!vars)
  <2>1. LP!TypeOK'
    BY <1>1, PartsAssumed, LP!TypeStep DEF ListenerInv
  <2>2. LP!Placed' /\ LP!Served'
    BY <1>1, <2>1, PartsAssumed, LP!PlacedStep, LP!ServedStep DEF ListenerInv
  <2>3. QED
    BY <1>1, <2>1, <2>2, PartsAssumed, LP!ServiceStep DEF ListenerInv
<1>2. CASE Wipe
  BY <1>2, WipeStops
<1>3. QED
  BY <1>1, <1>2, ListenerTurns, ListenerRests DEF Next

LEMMA ListenerStarts ==
    ASSUME Backlog # <<>>, Init
    PROVE  ListenerInv /\ LP!S!Init
<1>1. LP!InitWith(Backlog, LP!Absent)
  BY DEF Init, L!InitWith, LP!InitWith, L!NoEngine, LP!NoEngine, L!EmptyMeta, LP!EmptyMeta,
     L!Empty, LP!Empty, LP!Absent, Absent
<1>2. log = Backlog /\ Backlog \in Seq(LP!Entry)
  BY <1>1, ServerAssumption DEF LP!InitWith, LP!Entry, Entry
<1>3. LP!InitWith(log, LP!Absent)
  BY <1>1, <1>2
<1>4. QED
  BY <1>2, <1>3, PartsAssumed, LP!ServiceInit DEF ListenerInv

\* On a queue that is not empty at the first start, and that only this process
\* answers, the listener is the service Service promises, each query answered
\* once, in its turn and none passed over, though the process dies with the
\* consumer, the database is deleted and moves of the cursor fail.
THEOREM ServedThroughWipes ==
    ASSUME Backlog # <<>>, ListenerFaults \subseteq LP!LoneFaults
    PROVE  Spec => ServiceRefined
<1>1. Init => ListenerInv /\ LP!S!Init
  BY ListenerStarts
<1>2. ListenerInv /\ [Next]_vars => ListenerInv' /\ [LP!S!Next]_(LP!S!svars)
  BY ListenerStep
<1>3. /\ L!Asked = LP!Asked /\ L!Answered = LP!Answered /\ L!Passed = LP!Passed
      /\ L!Asked' = LP!Asked' /\ L!Answered' = LP!Answered' /\ L!Passed' = LP!Passed'
  BY DEF L!Asked, LP!Asked, L!Answered, LP!Answered, L!Passed, LP!Passed, L!TakenUp, LP!TakenUp,
     L!Next1, LP!Next1, L!NextOf, LP!NextOf, L!Queries, LP!Queries, L!IsKind, LP!IsKind,
     L!Ordinals, LP!Ordinals, L!At, LP!At, L!PredictionExists, LP!PredictionExists,
     L!PredictionEntry, LP!PredictionEntry
<1>4. /\ LP!S!Init => L!S!Init
      /\ [LP!S!Next]_(LP!S!svars) => [L!S!Next]_(L!S!svars)
  BY <1>3 DEF L!S!Init, LP!S!Init, L!S!Next, LP!S!Next, L!S!svars, LP!S!svars, L!S!Ask, LP!S!Ask,
     L!S!Answer, LP!S!Answer, L!S!Pass, LP!S!Pass, L!S!IsTurnOf, LP!S!IsTurnOf
<1>5. QED
  BY <1>1, <1>2, <1>4, PTL DEF Spec, ServiceRefined, L!ServiceRefined, L!S!Spec

-----------------------------------------------------------------------------
(* The consumer's share of a step, in the words of ConsumerProofs. *)

LEMMA ConsumerTurns ==
    ASSUME Consume \/ Crash \/ Wipe
    PROVE  CP!Reset \/ CP!Create \/ CP!Ingest \/ CP!Commit \/ CP!CommitFails \/ CP!Crash \/ CP!Wipe
<1> USE DEF C!Next0, CP!Next0, C!NextOf, CP!NextOf, C!Created, CP!Created, C!Moved, CP!Moved,
            C!Absent, CP!Absent, C!Fresh, CP!Fresh, C!ResetNeeded, CP!ResetNeeded, C!StoreIsEmpty,
            CP!StoreIsEmpty, C!Ordinals, CP!Ordinals, C!At, CP!At, C!IngestQuery, CP!IngestQuery,
            C!IngestReply, CP!IngestReply, C!IngestPrediction, CP!IngestPrediction,
            C!IngestOutcome, CP!IngestOutcome, C!SkipEntry, CP!SkipEntry, C!UpsertRun,
            CP!UpsertRun, C!AttachReply, CP!AttachReply, C!SetPrediction, CP!SetPrediction,
            C!SetOutcome, CP!SetOutcome, C!IsLastRunBefore, CP!IsLastRunBefore, C!HasRunBefore,
            CP!HasRunBefore, C!Inserted, CP!Inserted, C!NewRun, CP!NewRun, C!NewPersona,
            CP!NewPersona, C!NoOrdinal, CP!NoOrdinal, C!NoNotes, CP!NoNotes, C!WithPrediction,
            CP!WithPrediction, C!WithOutcome, CP!WithOutcome, C!ReanchoredBy, CP!ReanchoredBy,
            C!Reanchored, CP!Reanchored, C!PredictionAccepted, CP!PredictionAccepted, C!storeVars,
            CP!storeVars, C!EraseStore, CP!EraseStore, C!EmptyTable, CP!EmptyTable
<1>1. C!Reset => CP!Reset
  BY DEF C!Reset, CP!Reset
<1>2. C!Create => CP!Create
  BY DEF C!Create, CP!Create
<1>3. C!Ingest => CP!Ingest
  BY DEF C!Ingest, CP!Ingest
<1>4. C!Commit => CP!Commit
  BY DEF C!Commit, CP!Commit
<1>5. C!CommitFails => CP!CommitFails
  BY DEF C!CommitFails, CP!CommitFails
<1>6. C!Crash => CP!Crash
  BY DEF C!Crash, CP!Crash
<1>7. C!Wipe => CP!Wipe
  BY DEF C!Wipe, CP!Wipe
<1>8. QED
  BY <1>1, <1>2, <1>3, <1>4, <1>5, <1>6, <1>7 DEF Consume, Crash, Wipe

LEMMA ConsumerRests ==
    ASSUME Ask \/ Listen \/ Visit \/ Poll \/ UNCHANGED vars
    PROVE  UNCHANGED <<runs, replies, personas, uiCursor, pc, inflight, base>>
BY DEF Ask, Listen, Visit, Poll, vars, consumerOnly, storeVars

\* Of both threads, on a queue that begins with an entry that is no query.
FirstIsNoQuery == 0 \in Ordinals /\ At(0).kind # "query"

ConsumerInv == CP!TypeOK /\ CP!ReplayInv /\ base <= CP!Next0 /\ CP!Together

ServerInv == ListenerInv /\ LP!TurnInv /\ ConsumerInv /\ FirstIsNoQuery

LEMMA ConsumerStep ==
    ASSUME ListenerFaults \subseteq LP!LoneFaults, "delete" \notin ConsumerFaults,
           ListenerInv, ListenerInv', ConsumerInv, FirstIsNoQuery, [Next]_vars
    PROVE  ConsumerInv' /\ FirstIsNoQuery'
<1>1. CASE Consume \/ Crash \/ Wipe
  <2>1. CP!Reset \/ CP!Create \/ CP!Ingest \/ CP!Commit \/ CP!CommitFails \/ CP!Crash \/ CP!Wipe
    BY <1>1, ConsumerTurns
  <2>2. CP!TypeOK' /\ base' <= CP!Next0' /\ CP!Together'
    BY <2>1, PartsAssumed, CP!TogetherStep DEF ConsumerInv
  <2>3. CP!ReplayInv'
    BY <2>1, PartsAssumed, CP!ReplayStep DEF ConsumerInv, CP!Next
  <2>4. log' = log
    BY <2>1 DEF CP!Reset, CP!Create, CP!Ingest, CP!Commit, CP!CommitFails, CP!Crash, CP!Wipe
  <2>5. QED
    BY <2>2, <2>3, <2>4 DEF ConsumerInv, FirstIsNoQuery, Ordinals, At
<1>2. CASE Ask \/ Listen \/ Visit \/ Poll \/ UNCHANGED vars
  <2>1. UNCHANGED <<runs, replies, personas, uiCursor, pc, inflight, base>>
    BY <1>2, ConsumerRests
  <2>2. [LP!Next]_(LP!vars)
    BY <1>2, ListenerTurns, ListenerRests
  <2>3. LP!Ordinals \subseteq LP!Ordinals' /\ \A n \in LP!Ordinals : LP!At(n)' = LP!At(n)
    BY <2>2, PartsAssumed, LP!QueueExtends DEF ListenerInv
  <2>4. Ordinals \subseteq Ordinals' /\ \A n \in Ordinals : At(n)' = At(n)
    BY <2>3 DEF Ordinals, At, LP!Ordinals, LP!At
  <2>5. log' \in Seq(CP!Entry) /\ \A n \in CP!Ordinals : n \in CP!Ordinals' /\ CP!At(n)' = CP!At(n)
    BY <2>4 DEF ListenerInv, LP!TypeOK, LP!Entry, CP!Entry, Ordinals, At, CP!Ordinals, CP!At
  <2>6. ConsumerInv'
    BY <2>1, <2>5, PartsAssumed, CP!TogetherGrows DEF ConsumerInv
  <2>7. FirstIsNoQuery'
    BY <2>4 DEF FirstIsNoQuery
  <2>8. QED
    BY <2>6, <2>7
<1>3. QED
  BY <1>1, <1>2 DEF Next

LEMMA ServerStep ==
    ASSUME ListenerFaults \subseteq LP!LoneFaults, "delete" \notin ConsumerFaults,
           ServerInv, [Next]_vars
    PROVE  ServerInv'
<1>1. ListenerInv'
  BY ListenerStep DEF ServerInv
<1>2. LP!TurnInv'
  <2>1. CASE [LP!Next]_(LP!vars)
    BY <1>1, <2>1, PartsAssumed, LP!TurnStep DEF ServerInv, ListenerInv
  <2>2. CASE Wipe
    BY <2>2, WipeStops DEF ServerInv
  <2>3. QED
    BY <2>1, <2>2, ListenerTurns, ListenerRests DEF Next
<1>3. ConsumerInv' /\ FirstIsNoQuery'
  BY <1>1, ConsumerStep DEF ServerInv
<1>4. QED
  BY <1>1, <1>2, <1>3 DEF ServerInv

LEMMA ServerStarts ==
    ASSUME Backlog # <<>>, Backlog[1].kind # "query", LP!Unanswered(Backlog), Init
    PROVE  ServerInv
<1>1. ListenerInv
  BY ListenerStarts
<1>2. LP!InitWith(log, LP!Absent) /\ log = Backlog /\ log \in Seq(Entry)
  BY ServerAssumption
  DEF Init, L!InitWith, LP!InitWith, L!NoEngine, LP!NoEngine, L!EmptyMeta, LP!EmptyMeta,
      L!Empty, LP!Empty, LP!Absent, Absent
<1>3. LP!TurnInv
  <2>1. log \in Seq(LP!Entry)
    BY <1>2 DEF LP!Entry, Entry
  <2>2. QED
    BY <1>2, <2>1, PartsAssumed, LP!TurnInit
<1>4. /\ runs = EmptyTable /\ replies = EmptyTable /\ personas = EmptyTable
      /\ uiCursor = Absent /\ pc = "reset" /\ inflight = {} /\ base = 0
  BY DEF Init, StoreInit
<1>5. CP!TypeOK /\ CP!Next0 = 0 /\ 0 \in CP!Prefixes
  BY <1>2, <1>4
  DEF CP!TypeOK, EmptyTable, CP!Cursor, CP!Absent, CP!Fresh, Absent, CP!Entry, Entry, CP!Next0, CP!NextOf,
      CP!Prefixes
<1>6. CP!ReplayInv
  BY <1>4 DEF CP!ReplayInv
<1>7. CP!Together
  <2>1. CP!RunsShow(0, 0) /\ CP!RepliesShow(0, 0)
    BY <1>4 DEF EmptyTable, CP!RunsShow, CP!RepliesShow, CP!Queries
  <2>2. QED
    BY <1>2, <1>4, <1>5, <2>1 DEF CP!Together
<1>8. FirstIsNoQuery
  BY <1>2 DEF FirstIsNoQuery, Ordinals, At
<1>9. QED
  BY <1>1, <1>3, <1>4, <1>5, <1>6, <1>7, <1>8 DEF ServerInv, ConsumerInv

-----------------------------------------------------------------------------
(* A predicted run shows what was said to it.  Here the two threads meet:  *)
(* the listener writes the replies to a query between two predictions, and *)
(* the consumer takes those between two predictions for its replies.       *)

EntriesOf(kind) == {n \in Ordinals : At(n).kind = kind}

\* The invariant of what the listener says, as far as it is needed here.
Spoken ==
    /\ DOMAIN author = EntriesOf("reply")
    /\ \A r \in DOMAIN author : author[r] \in 0 .. r-1 /\ IsKind(author[r], "query")
    /\ \A r \in DOMAIN author, p \in EntriesOf("prediction") :
         /\ p < r => At(p).tag < author[r]
         /\ r < p => author[r] <= At(p).tag
         /\ author[r] < At(p).tag => \E q \in EntriesOf("prediction") : At(q).tag = author[r]
    /\ \A p \in EntriesOf("prediction") :
         /\ At(p).tag \in 0 .. p-1
         /\ \E r \in DOMAIN author : author[r] = At(p).tag /\ r < p
    /\ \A p, s \in EntriesOf("prediction") : p < s => At(p).tag < At(s).tag

LEMMA ListenerSpeaks ==
    ASSUME ServerInv
    PROVE  Spoken
<1>1. /\ LP!Ordinals = Ordinals
      /\ \A n : LP!At(n) = At(n)
      /\ \A kind : LP!Of(kind) = EntriesOf(kind)
      /\ \A n, kind : LP!IsKind(n, kind) <=> IsKind(n, kind)
  BY DEF LP!Ordinals, Ordinals, LP!At, At, LP!Of, EntriesOf, LP!IsKind, IsKind
<1>2. PICK n \in Nat : LP!Turned(n)
  BY PartsAssumed, LP!NextTypes DEF ServerInv, ListenerInv, LP!TypeOK, LP!TurnInv
<1>3. ASSUME NEW a \in Nat, LP!PredictionExists(a)
      PROVE  \E q \in EntriesOf("prediction") : At(q).tag = a
  <2>1. Len(log) \in Nat
    BY DEF ServerInv, ListenerInv, LP!TypeOK
  <2>2. PICK q \in a+1 .. Len(log)-1 : LP!At(q) = LP!PredictionEntry(a)
    BY <1>3 DEF LP!PredictionExists
  <2>3. q \in Ordinals /\ At(q).kind = "prediction" /\ At(q).tag = a
    BY <1>1, <2>1, <2>2 DEF Ordinals, LP!PredictionEntry
  <2>4. QED
    BY <2>3 DEF EntriesOf
<1>4. ASSUME NEW r \in DOMAIN author, NEW p \in EntriesOf("prediction"), author[r] < At(p).tag
      PROVE  \E q \in EntriesOf("prediction") : At(q).tag = author[r]
  <2>1. author[r] \in Nat /\ At(p).tag \in Nat /\ At(p).tag <= n
        /\ (author[r] < n => LP!PredictionExists(author[r]))
    BY <1>1, <1>2 DEF LP!Turned
  <2>2. author[r] < n
    BY <1>4, <2>1
  <2>3. QED
    BY <1>3, <2>1, <2>2
<1>5. QED
  BY <1>1, <1>2, <1>4 DEF LP!Turned, Spoken

\* The invariant of what the consumer shows.
LEMMA ConsumerShows ==
    ASSUME ServerInv
    PROVE  /\ base \in Nat /\ (DOMAIN runs # {} => base <= 1)
           /\ \E k \in Nat : k <= Len(log) /\ RunsShow(base, k) /\ RepliesShow(base, k)
<1>1. base \in Nat /\ CP!Next0 \in Nat
  BY PartsAssumed, CP!Next0Nat DEF ServerInv, ConsumerInv, CP!TypeOK
<1>2. DOMAIN runs # {} => base <= 1
  BY <1>1 DEF ServerInv, ConsumerInv, CP!ReplayInv, CP!StoreIsEmpty
<1>3. PICK k \in CP!Prefixes : k <= Len(log) /\ CP!RunsShow(base, k) /\ CP!RepliesShow(base, k)
  BY DEF ServerInv, ConsumerInv, CP!Together
<1>4. k \in Nat
  BY <1>1 DEF CP!Prefixes
<1>5. RunsShow(base, k) /\ RepliesShow(base, k)
  BY <1>3
  DEF RunsShow, CP!RunsShow, RepliesShow, CP!RepliesShow, Shows, CP!Shows, BelongsTo, CP!BelongsTo,
      IsAnchoredTo, CP!IsAnchoredTo, IsLastQueryBefore, CP!IsLastQueryBefore,
      IsLatestPrediction, CP!IsLatestPrediction, IsPrediction, CP!IsPrediction,
      Predicts, CP!Predicts, Queries, CP!Queries, IsKind, CP!IsKind, At, CP!At,
      Ordinals, CP!Ordinals, NoOrdinal, CP!NoOrdinal
<1>6. QED
  BY <1>1, <1>2, <1>3, <1>4, <1>5

\* With one prediction for each query, "the first prediction after the reply"
\* is that of the query it was written for.
LEMMA RepliesAreTheirs ==
    ASSUME log \in Seq(Entry), Spoken, FirstIsNoQuery,
           NEW b \in Nat, b <= 1, NEW k \in Nat, k <= Len(log),
           RunsShow(b, k), RepliesShow(b, k), NEW i \in DOMAIN runs, runs[i].prediction # NoOrdinal
    PROVE  ShownWith(i) = {r \in DOMAIN author : author[r] = i /\ r < runs[i].prediction}
<1> DEFINE p == runs[i].prediction
<1>1. p \in b .. k-1 /\ Predicts(p, i, b) /\ i \in Queries(b, p)
  BY DEF RunsShow, Shows, IsLatestPrediction, Predicts
<1>2. p \in EntriesOf("prediction") /\ At(p).tag = i /\ i \in Nat /\ b <= i /\ i < p /\ p \in Nat /\ p < k
  BY <1>1 DEF Predicts, IsKind, EntriesOf, Queries
<1> HIDE DEF p
\* A prediction of a query of the prefix; there is one of each.
<1>3. ASSUME NEW q \in Nat, NEW j, Predicts(q, j, b)
      PROVE  /\ q \in EntriesOf("prediction") /\ At(q).tag = j /\ j \in Nat /\ IsPrediction(q, b)
             /\ j = i => q = p
  <2>1. q \in EntriesOf("prediction") /\ At(q).tag = j /\ j \in Nat /\ IsPrediction(q, b)
    BY <1>3 DEF Predicts, IsPrediction, IsKind, EntriesOf, Queries
  <2>2. ASSUME j = i PROVE q = p
    <3>1. ~(q < p)
      BY <1>2, <2>1, <2>2 DEF Spoken
    <3>2. ~(p < q)
      BY <1>2, <2>1, <2>2 DEF Spoken
    <3>3. QED
      BY <1>2, <3>1, <3>2
  <2>3. QED
    BY <2>1, <2>2
\* What is known of a reply.
<1>4. ASSUME NEW r \in DOMAIN author
      PROVE  /\ r \in Nat /\ r # p /\ IsKind(r, "reply")
             /\ author[r] \in Nat /\ author[r] < r /\ b <= author[r]
             /\ author[r] \in Queries(b, r)
  <2>1. r \in Nat /\ IsKind(r, "reply") /\ At(r).kind = "reply"
    BY DEF Spoken, EntriesOf, IsKind, Ordinals
  <2>2. r # p
    BY <1>2, <2>1 DEF EntriesOf
  <2>3. author[r] \in Nat /\ author[r] < r /\ IsKind(author[r], "query")
    BY <2>1 DEF Spoken
  <2>4. author[r] # 0
    <3>1. SUFFICES ASSUME author[r] = 0 PROVE FALSE
      OBVIOUS
    <3>2. QED
      BY <2>3, <3>1 DEF FirstIsNoQuery, IsKind
  <2>5. b <= author[r]
    BY <2>3, <2>4
  <2>6. QED
    BY <2>1, <2>2, <2>3, <2>5 DEF Queries
\* What is shown with the run was written for it.
<1>5. ASSUME NEW r \in DOMAIN replies, replies[r].item = i
      PROVE  r \in DOMAIN author /\ author[r] = i /\ r < p
  <2>1. r \in DOMAIN author
    BY DEF RepliesShow, Spoken, EntriesOf, IsKind
  <2>2. BelongsTo(r, i, b, k)
    BY <1>5 DEF RepliesShow
  <2>3. r \in Nat /\ r # p /\ author[r] \in Nat /\ author[r] < r /\ author[r] \in Queries(b, r) /\ b <= author[r]
    BY <1>4, <2>1
  <2>4. CASE IsAnchoredTo(r, i, b, k)
    <3>1. PICK s \in r+1 .. k-1 :
            /\ Predicts(s, i, b)
            /\ \A other \in r+1 .. s-1 : IsPrediction(other, b) => Predicts(other, i, b)
      BY <2>4 DEF IsAnchoredTo
    <3>2. s = p
      BY <1>3, <2>3, <3>1
    <3>3. r < p /\ author[r] <= i
      BY <1>2, <2>1, <2>3, <3>1, <3>2 DEF Spoken
    <3>4. ~(author[r] < i)
      <4>1. SUFFICES ASSUME author[r] < i PROVE FALSE
        OBVIOUS
      <4>2. PICK q \in EntriesOf("prediction") : At(q).tag = author[r]
        BY <1>2, <2>1, <4>1 DEF Spoken
      <4>3. q \in Nat /\ author[r] < q
        BY <2>3, <4>2 DEF Spoken, EntriesOf, Ordinals
      <4>4. ~(q < r)
        <5>1. SUFFICES ASSUME q < r PROVE FALSE
          OBVIOUS
        <5>2. At(q).tag < author[r]
          BY <2>1, <4>2, <5>1 DEF Spoken
        <5>3. QED
          BY <2>3, <4>2, <5>2
      <4>5. q # r
        BY <2>1, <4>2 DEF Spoken, EntriesOf
      <4>6. q < p
        <5>1. q # p
          BY <1>2, <2>3, <4>1, <4>2
        <5>2. ~(p < q)
          <6>1. SUFFICES ASSUME p < q PROVE FALSE
            OBVIOUS
          <6>2. i < author[r]
            BY <1>2, <4>2, <6>1 DEF Spoken
          <6>3. QED
            BY <1>2, <2>3, <4>1, <6>2
        <5>3. QED
          BY <1>2, <4>3, <5>1, <5>2
      <4>7. q \in r+1 .. s-1
        BY <1>2, <2>3, <3>2, <4>3, <4>4, <4>5, <4>6
      <4>8. Predicts(q, author[r], b)
        <5>1. IsKind(q, "prediction") /\ IsKind(author[r], "query")
          BY <2>1, <4>2 DEF Spoken, EntriesOf, IsKind
        <5>2. author[r] \in Queries(b, q)
          BY <2>3, <4>3, <5>1 DEF Queries
        <5>3. QED
          BY <4>2, <5>1, <5>2 DEF Predicts
      <4>9. Predicts(q, i, b)
        BY <1>3, <3>1, <4>3, <4>7, <4>8
      <4>10. QED
        BY <1>2, <2>3, <4>1, <4>2, <4>9 DEF Predicts
    <3>5. QED
      BY <1>2, <2>1, <2>3, <3>3, <3>4
  <2>5. CASE /\ \A q \in r+1 .. k-1 : ~IsPrediction(q, b)
             /\ IsLastQueryBefore(i, r, b)
    <3>1. ~(r < p)
      BY <1>1, <1>2, <1>3, <2>3, <2>5
    <3>2. i < author[r]
      BY <1>2, <2>1, <2>3, <3>1 DEF Spoken
    <3>3. author[r] <= i
      BY <2>3, <2>5 DEF IsLastQueryBefore
    <3>4. QED
      BY <1>2, <2>3, <3>2, <3>3
  <2>6. QED
    BY <2>2, <2>4, <2>5 DEF BelongsTo
\* What was written for it is shown with it.
<1>6. ASSUME NEW r \in DOMAIN author, author[r] = i, r < p
      PROVE  r \in DOMAIN replies /\ replies[r].item = i
  <2>1. r \in Nat /\ IsKind(r, "reply") /\ i < r /\ i \in Queries(b, r)
    BY <1>4, <1>6
  <2>2. r \in b .. k-1 /\ p \in r+1 .. k-1
    BY <1>2, <1>6, <2>1
  <2>3. r \in DOMAIN replies
    BY <2>1, <2>2 DEF RepliesShow
  <2>4. PICK j : j = replies[r].item
    OBVIOUS
  <2>5. IsAnchoredTo(r, j, b, k)
    BY <1>1, <1>2, <1>3, <2>2, <2>3, <2>4 DEF RepliesShow, BelongsTo
  <2>6. PICK s \in r+1 .. k-1 :
          /\ Predicts(s, j, b)
          /\ \A other \in r+1 .. s-1 : IsPrediction(other, b) => Predicts(other, j, b)
    BY <2>5 DEF IsAnchoredTo
  <2>7. s \in Nat /\ s \in EntriesOf("prediction") /\ At(s).tag = j /\ j \in Nat /\ r < s
    BY <1>3, <2>1, <2>6
  <2>8. ~(s < p)
    <3>1. SUFFICES ASSUME s < p PROVE FALSE
      OBVIOUS
    <3>2. j < i
      BY <1>2, <2>7, <3>1 DEF Spoken
    <3>3. i <= j
      BY <1>6, <2>7 DEF Spoken
    <3>4. QED
      BY <1>2, <2>7, <3>2, <3>3
  <2>9. j = i
    <3>1. CASE s = p
      BY <1>2, <2>7, <3>1
    <3>2. CASE s # p
      <4>1. p \in r+1 .. s-1
        BY <1>2, <1>6, <2>1, <2>7, <2>8, <3>2
      <4>2. Predicts(p, j, b)
        BY <1>1, <1>2, <1>3, <2>6, <4>1
      <4>3. QED
        BY <1>2, <4>2 DEF Predicts
    <3>3. QED
      BY <3>1, <3>2
  <2>10. QED
    BY <2>3, <2>4, <2>9
<1>7. QED
  BY <1>5, <1>6 DEF ShownWith, p

LEMMA AnswersShown ==
    ASSUME ServerInv
    PROVE  ShownAsAnswered
<1>1. log \in Seq(Entry)
  BY DEF ServerInv, ListenerInv, LP!TypeOK, LP!Entry, Entry
<1>2. Spoken /\ FirstIsNoQuery
  BY ListenerSpeaks DEF ServerInv
<1>3. base \in Nat /\ (DOMAIN runs # {} => base <= 1)
  BY ConsumerShows
<1>4. PICK k \in Nat : k <= Len(log) /\ RunsShow(base, k) /\ RepliesShow(base, k)
  BY ConsumerShows
<1>5. ASSUME NEW i \in Predicted
      PROVE  ShownWith(i) = {r \in DOMAIN author : author[r] = i /\ r < runs[i].prediction}
  BY <1>1, <1>2, <1>3, <1>4, RepliesAreTheirs DEF Predicted
<1>6. QED
  BY <1>5 DEF ShownAsAnswered

LEMMA ServerInvariant ==
    ASSUME Backlog # <<>>, Backlog[1].kind # "query", LP!Unanswered(Backlog),
           ListenerFaults \subseteq LP!LoneFaults, "delete" \notin ConsumerFaults
    PROVE  Spec => []ServerInv
<1>1. Init => ServerInv
  BY ServerStarts
<1>2. ServerInv /\ [Next]_vars => ServerInv'
  BY ServerStep
<1>3. QED
  BY <1>1, <1>2, PTL DEF Spec

\* "Every reply between the previous prediction and this one belongs to this
\* item" (store.rs 191-196), for a server that alone answers a queue nobody
\* answered before and whose first entry is no query: a run that has its
\* prediction shows the replies the listener made that prediction from, all of
\* them and no other, in every interleaving of the two threads, through
\* crashes, entries that are ingested twice and deletions of the database.
THEOREM AnswersAlwaysShown ==
    ASSUME Backlog # <<>>, Backlog[1].kind # "query", LP!Unanswered(Backlog),
           ListenerFaults \subseteq LP!LoneFaults, "delete" \notin ConsumerFaults
    PROVE  Spec => []ShownAsAnswered
BY ServerInvariant, AnswersShown, PTL

-----------------------------------------------------------------------------
(* The pages are a board. *)

\* What was said to query i before entry p.
SaidTo(i, p) == {r \in DOMAIN author : author[r] = i /\ r < p}

\* A prediction appears once, behind replies to its query.
LEMMA PredictionsStay ==
    ASSUME ServerInv, NEW i \in Predicted
    PROVE  /\ runs[i].prediction \in EntriesOf("prediction")
           /\ At(runs[i].prediction).tag = i
<1>1. PICK k \in Nat : k <= Len(log) /\ RunsShow(base, k)
  BY ConsumerShows
<1>2. Predicts(runs[i].prediction, i, base)
  BY <1>1 DEF Predicted, RunsShow, Shows, IsLatestPrediction
<1>3. QED
  BY <1>2 DEF Predicts, IsKind, EntriesOf

LEMMA PredictionOnce ==
    ASSUME Spoken, NEW p \in EntriesOf("prediction"), NEW s \in EntriesOf("prediction"),
           At(p).tag = At(s).tag
    PROVE  p = s
<1>1. p \in Int /\ s \in Int /\ At(p).tag \in Int
  BY DEF Spoken, EntriesOf, Ordinals
<1>2. ~(p < s) /\ ~(s < p)
  BY <1>1 DEF Spoken
<1>3. QED
  BY <1>1, <1>2

LEMMA AnsweredIsSaid ==
    ASSUME ServerInv, NEW p \in EntriesOf("prediction")
    PROVE  /\ SaidTo(At(p).tag, p) # {}
           /\ \A r \in SaidTo(At(p).tag, p) : At(p).tag < r
<1>1. Spoken
  BY ListenerSpeaks
<1>2. SaidTo(At(p).tag, p) # {}
  BY <1>1 DEF Spoken, SaidTo
<1>3. \A r \in DOMAIN author : author[r] \in 0 .. r-1 /\ r \in Nat
  BY <1>1 DEF Spoken, EntriesOf, Ordinals
<1>4. QED
  BY <1>2, <1>3 DEF SaidTo


\* As both states show what was said, only the column prediction matters.
LEMMA ColumnSettles ==
    ASSUME ServerInv, ShownAsAnswered', author' = author,
           Predicted' = Predicted, \A i \in Predicted : runs'[i].prediction = runs[i].prediction
    PROVE  [i \in Predicted |-> ShownWith(i)]' = [i \in Predicted |-> ShownWith(i)]
<1>1. \A i \in Predicted : ShownWith(i) = SaidTo(i, runs[i].prediction)
  BY AnswersShown DEF ShownAsAnswered, SaidTo
<1>2. \A i \in Predicted : ShownWith(i)' = SaidTo(i, runs[i].prediction)
  BY DEF ShownAsAnswered, SaidTo
<1>3. QED
  BY <1>1, <1>2

LEMMA BoardStutters ==
    ASSUME ServerInv, ShownAsAnswered', author' = author, DOMAIN runs' = DOMAIN runs,
           \A i \in DOMAIN runs : runs'[i].prediction = runs[i].prediction
    PROVE  UNCHANGED B!bvars
<1>1. Predicted' = Predicted /\ \A i \in Predicted : i \in DOMAIN runs
  BY DEF Predicted
<1>2. [i \in Predicted |-> ShownWith(i)]' = [i \in Predicted |-> ShownWith(i)]
  BY <1>1, ColumnSettles
<1>3. QED
  BY <1>2 DEF B!bvars

\* A query comes.
LEMMA BoardPosts ==
    ASSUME ServerInv, ShownAsAnswered', author' = author, NEW n \in Nat,
           n \notin DOMAIN runs, \A i \in DOMAIN runs : i < n,
           runs' = Inserted(runs, n, NewRun)
    PROVE  B!Post
<1>1. /\ DOMAIN runs' = DOMAIN runs \cup {n}
      /\ \A i \in DOMAIN runs : runs'[i] = runs[i]
      /\ runs'[n].prediction = NoOrdinal
  BY DEF Inserted, NewRun
<1>2. Predicted' = Predicted /\ \A i \in Predicted : runs'[i].prediction = runs[i].prediction
  BY <1>1 DEF Predicted
<1>3. [i \in Predicted |-> ShownWith(i)]' = [i \in Predicted |-> ShownWith(i)]
  BY <1>2, ColumnSettles
<1>4. QED
  BY <1>1, <1>3 DEF B!Post

\* The prediction of a run comes.
LEMMA BoardSettles ==
    ASSUME ServerInv, ShownAsAnswered', author' = author, NEW n \in EntriesOf("prediction"),
           At(n).tag \in DOMAIN runs \ Predicted, DOMAIN runs' = DOMAIN runs,
           runs'[At(n).tag].prediction = n, n # NoOrdinal,
           \A i \in DOMAIN runs \ {At(n).tag} : runs'[i].prediction = runs[i].prediction
    PROVE  B!Settle
<1>1. PICK i \in DOMAIN runs : i = At(n).tag
  OBVIOUS
<1> DEFINE before == [j \in Predicted |-> ShownWith(j)]
           after == [j \in Predicted |-> ShownWith(j)]'
<1>2. Predicted' = Predicted \cup {i} /\ i \notin Predicted
  BY <1>1 DEF Predicted
<1>3. \A j \in Predicted : ShownWith(j) = SaidTo(j, runs[j].prediction)
  BY AnswersShown DEF ShownAsAnswered, SaidTo
<1>4. \A j \in Predicted' : ShownWith(j)' = SaidTo(j, runs'[j].prediction)
  BY DEF ShownAsAnswered, SaidTo
<1>5. \A j \in Predicted : j \in DOMAIN runs \ {At(n).tag}
  BY <1>1, <1>2 DEF Predicted
<1>6. \A j \in Predicted : ShownWith(j)' = SaidTo(j, runs[j].prediction)
  BY <1>2, <1>4, <1>5
<1>7. \A j : j = i => ShownWith(j)' = SaidTo(j, n)
  BY <1>1, <1>2, <1>4
<1>8. /\ DOMAIN after = DOMAIN before \cup {i} /\ DOMAIN before = Predicted
      /\ \A j \in DOMAIN before : after[j] = before[j]
      /\ after[i] = SaidTo(i, n)
  BY <1>2, <1>3, <1>6, <1>7
<1>9. SaidTo(i, n) # {} /\ \A r \in SaidTo(i, n) : i < r
  BY <1>1, AnsweredIsSaid
<1>10. \A j \in DOMAIN before : before[j] \cap SaidTo(i, n) = {}
  BY <1>2, <1>3, <1>8 DEF SaidTo
<1> HIDE DEF before, after
<1>11. /\ i \in DOMAIN runs \ DOMAIN before
       /\ DOMAIN after = DOMAIN before \cup {i}
       /\ \A j \in DOMAIN before : after[j] = before[j]
       /\ after[i] # {}
       /\ \A j \in DOMAIN before : before[j] \cap after[i] = {}
       /\ \A r \in after[i] : i < r
  BY <1>2, <1>8, <1>9, <1>10
<1>12. QED
  BY <1>11 DEF B!Settle, B!Disjoint, before, after

LEMMA BoardIngest ==
    ASSUME ServerInv, ShownAsAnswered', C!Ingest, author' = author
    PROVE  [B!Next]_(B!bvars)
<1>1. PICK n \in Ordinals : n = C!Next0
  BY DEF C!Ingest, C!Ordinals, Ordinals
<1>2. n \in Nat /\ C!At(n) = At(n) /\ log \in Seq(Entry) /\ CP!Next0 = n
  BY <1>1
  DEF Ordinals, At, C!At, ServerInv, ListenerInv, LP!TypeOK, LP!Entry, Entry, CP!Next0, C!Next0,
      CP!NextOf, C!NextOf
<1>3. \A i \in DOMAIN runs : runs[i].prediction \in Nat \cup {NoOrdinal}
                             /\ runs[i] \in [prediction : Nat \cup {NoOrdinal}, outcome : Nat \cup {NoOrdinal},
                                             notes : Notes \cup {NoNotes}, archived : BOOLEAN]
  BY DEF ServerInv, ConsumerInv, CP!TypeOK, CP!Run, CP!NoOrdinal, NoOrdinal, CP!NoNotes, NoNotes
<1>4. Spoken
  BY ListenerSpeaks
<1>5. CASE C!IngestQuery(n)
  <2>1. runs' = Inserted(runs, n, NewRun)
    BY <1>5
    DEF C!IngestQuery, C!UpsertRun, C!Inserted, Inserted, C!NewRun, NewRun, C!NoOrdinal, NoOrdinal,
        C!NoNotes, NoNotes
  <2>2. CASE n \in DOMAIN runs
    BY <2>1, <2>2, BoardStutters DEF Inserted
  <2>3. CASE n \notin DOMAIN runs
    <3>1. \A i \in DOMAIN runs : i < n
      <4>1. PICK k \in CP!Prefixes : CP!RunsShow(base, k)
        BY DEF ServerInv, ConsumerInv, CP!Together
      <4>2. k \in {n, n+1} /\ base \in Nat
        BY <1>2, <4>1, ConsumerShows DEF CP!Prefixes
      <4>3. \A i \in DOMAIN runs : i \in base .. k-1
        BY <4>1 DEF CP!RunsShow, CP!Queries
      <4>4. QED
        BY <1>2, <2>3, <4>2, <4>3
    <3>2. B!Post
      BY <1>2, <2>1, <2>3, <3>1, BoardPosts
    <3>3. QED
      BY <3>2 DEF B!Next
  <2>4. QED
    BY <2>2, <2>3
<1>6. CASE C!IngestReply(n) \/ C!SkipEntry(n)
  <2>1. runs' = runs
    BY <1>6 DEF C!IngestReply, C!AttachReply, C!SkipEntry, C!storeVars
  <2>2. QED
    BY <2>1, BoardStutters
<1>7. CASE C!IngestOutcome(n)
  <2>1. DOMAIN runs' = DOMAIN runs /\ \A i \in DOMAIN runs : runs'[i].prediction = runs[i].prediction
    BY <1>3, <1>7 DEF C!IngestOutcome, C!SetOutcome, C!WithOutcome
  <2>2. QED
    BY <2>1, BoardStutters
<1>8. CASE C!IngestPrediction(n)
  <2>1. /\ n \in EntriesOf("prediction")
        /\ DOMAIN runs' = DOMAIN runs
        /\ \A i \in DOMAIN runs \ {At(n).tag} : runs'[i].prediction = runs[i].prediction
        /\ At(n).tag \in DOMAIN runs => runs'[At(n).tag].prediction = n
    BY <1>1, <1>2, <1>3, <1>8
    DEF C!IngestPrediction, C!SetPrediction, C!WithPrediction, EntriesOf
  <2>2. CASE At(n).tag \in DOMAIN runs \ Predicted
    <3>1. n # NoOrdinal
      BY <1>2 DEF NoOrdinal
    <3>2. B!Settle
      BY <2>1, <2>2, <3>1, BoardSettles
    <3>3. QED
      BY <3>2 DEF B!Next
  <2>3. CASE At(n).tag \in Predicted
    <3>1. runs[At(n).tag].prediction = n
      BY <1>4, <2>1, <2>3, PredictionsStay, PredictionOnce
    <3>2. QED
      BY <2>1, <3>1, BoardStutters
  <2>4. CASE At(n).tag \notin DOMAIN runs
    BY <2>1, <2>4, BoardStutters
  <2>5. QED
    BY <2>2, <2>3, <2>4
<1>9. QED
  BY <1>1, <1>5, <1>6, <1>7, <1>8 DEF C!Ingest

LEMMA BoardStep ==
    ASSUME ServerInv, ShownAsAnswered', [Next]_vars
    PROVE  [B!Next]_(B!bvars)
<1>1. ASSUME UNCHANGED <<runs, replies>> PROVE UNCHANGED B!bvars
  BY <1>1 DEF B!bvars, Predicted, ShownWith
<1>2. CASE Consume
  <2>1. author' = author
    BY <1>2 DEF Consume, listenerOnly, listenerMemory
  <2>2. CASE C!Ingest
    BY <2>1, <2>2, BoardIngest
  <2>3. CASE C!Reset \/ C!Create \/ C!Commit \/ C!CommitFails
    BY <1>1, <2>3 DEF C!Reset, C!Create, C!Commit, C!CommitFails
  <2>4. QED
    BY <1>2, <2>2, <2>3 DEF Consume
<1>3. CASE Ask \/ Listen \/ Visit \/ Poll \/ UNCHANGED vars
  BY <1>1, <1>3, ConsumerRests
<1>4. CASE Crash
  BY <1>1, <1>4 DEF Crash, C!Crash
<1>5. CASE Wipe
  <2>1. DOMAIN runs' = {}
    BY <1>5 DEF Wipe, C!Wipe, C!EraseStore, C!EmptyTable
  <2>2. Predicted' = {}
    BY <2>1 DEF Predicted
  <2>3. B!Erase
    BY <2>1, <2>2 DEF B!Erase, B!Empty
  <2>4. QED
    BY <2>3 DEF B!Next
<1>6. QED
  BY <1>2, <1>3, <1>4, <1>5 DEF Next

\* What the pages show is a board: runs appear in the order in which they were
\* asked, each is settled once, by a prediction with replies said after its
\* query that no other run shows, and what is settled stays as it is until the
\* database is deleted, whatever the two threads and the failures do.
THEOREM PagesAreBoard ==
    ASSUME Backlog # <<>>, Backlog[1].kind # "query", LP!Unanswered(Backlog),
           ListenerFaults \subseteq LP!LoneFaults, "delete" \notin ConsumerFaults
    PROVE  Spec => BoardRefined
<1>1. Init => B!Init
  BY DEF Init, StoreInit, EmptyTable, B!Init, B!Empty, Predicted
<1>2. ServerInv /\ ShownAsAnswered' /\ [Next]_vars => [B!Next]_(B!bvars)
  BY BoardStep
<1>3. QED
  BY <1>1, <1>2, ServerInvariant, AnswersAlwaysShown, PTL DEF Spec, BoardRefined, B!Spec

=============================================================================
