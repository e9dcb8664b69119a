--------------------------- MODULE ListenerProofs ---------------------------
(***************************************************************************)
(* What the listener does with a query, for every panel, every number of   *)
(* queries and every combination of faults: it predicts it once, counts    *)
(* only replies it has queued, labels it with the engine it used, and      *)
(* leaves history alone.                                                   *)
(***************************************************************************)
EXTENDS Listener, TLAPS

-----------------------------------------------------------------------------
(* Types. *)

\* The entries that are appended are entries.
LEMMA EntryTypes ==
    /\ QueryEntry \in Entry
    /\ \A p \in Personas : ReplyEntry(p) \in Entry
    /\ \A i \in Nat : PredictionEntry(i) \in Entry
BY DEF Entry, QueryEntry, ReplyEntry, PredictionEntry

LEMMA CursorTypes ==
    ASSUME panelCursor \in Cursor
    PROVE  /\ Next1 \in Nat
           /\ Created(panelCursor) \in Cursor
           /\ Moved(panelCursor) \in Cursor
BY DEF Cursor, Next1, NextOf, Created, Moved, Absent, Fresh

LEMMA RowTypes ==
    ASSUME TypeOK, NEW i
    PROVE  /\ Row(i) \in Meta
           /\ \A e \in Requests : [Row(i) EXCEPT !.requested = e] \in Meta
           /\ \A e \in Engines \cup {NoEngine} : [Row(i) EXCEPT !.used = e] \in Meta
BY DEF TypeOK, Row, Meta, Requests, Engines, NoEngine

LEMMA MetaUpserted ==
    ASSUME TypeOK, NEW i \in Nat, NEW row \in Meta, meta' = Upserted(i, row)
    PROVE  DOMAIN meta' \subseteq Nat /\ \A k \in DOMAIN meta' : meta'[k] \in Meta
BY DEF TypeOK, Upserted

\* What is appended to the queue is a sequence of entries.
LEMMA LogTypes ==
    ASSUME TypeOK, [Next]_vars
    PROVE  log' \in Seq(Entry)
<1> USE DEF TypeOK
<1>1. CASE Ask
  BY <1>1, EntryTypes DEF Ask
<1>2. CASE Rival
  BY <1>2, EntryTypes DEF Rival, Queries
<1>3. CASE AppendBatch
  <2>1. CASE BatchLands
    <3>1. Len(batch) \in Nat /\ \A k \in 1 .. Len(batch) : ReplyEntry(batch[k]) \in Entry
      BY EntryTypes
    <3>2. [k \in 1 .. Len(batch) |-> ReplyEntry(batch[k])] \in Seq(Entry)
      BY <3>1
    <3>3. QED
      BY <2>1, <3>2 DEF BatchLands
  <2>2. QED
    BY <1>3, <2>1 DEF AppendBatch
<1>4. CASE AppendPrediction
  <2>1. PredictionEntry(Next1) \in Entry
    BY EntryTypes, CursorTypes
  <2>2. log' = log \/ log' = Append(log, PredictionEntry(Next1))
    BY <1>4 DEF AppendPrediction, PredictionLands
  <2>3. QED
    BY <2>1, <2>2
<1>5. CASE UNCHANGED log
  BY <1>5
<1>6. Submit \/ AskElsewhere => Ask
  BY DEF Submit, AskElsewhere
<1>7. StoreRequest \/ Boot \/ ReadBaseline \/ StartWalk \/ Walk \/ WalkFails \/ Fetch => UNCHANGED log
  BY DEF StoreRequest, Boot, ReadBaseline, StartWalk, Walk, WalkFails, Fetch
<1>8. Commit \/ CommitFails \/ Check \/ ChooseEngine \/ FanOut => UNCHANGED log
  BY DEF Commit, CommitFails, Check, ChooseEngine, FanOut
<1>9. WriteFiles \/ Aggregate \/ Label \/ Crash \/ UNCHANGED vars => UNCHANGED log
  BY DEF WriteFiles, Aggregate, Label, Crash, vars
<1>10. QED
  BY <1>1, <1>2, <1>3, <1>4, <1>5, <1>6, <1>7, <1>8, <1>9 DEF Next

LEMMA TypeStep ==
    ASSUME TypeOK, [Next]_vars
    PROVE  TypeOK'
<1>0. log' \in Seq(Entry)
  BY LogTypes
<1>1. CASE Submit
  BY <1>0, <1>1 DEF Submit, TypeOK, cursorVars, locals, auxVars
<1>2. CASE StoreRequest
  <2>1. PICK s \in submits : SetEngineRequested(s.item, s.engine) /\ submits' = submits \ {s}
    BY <1>2 DEF StoreRequest
  <2>2. s.item \in Nat /\ s.engine \in Requests
    BY DEF TypeOK
  <2>3. DOMAIN meta' \subseteq Nat /\ \A k \in DOMAIN meta' : meta'[k] \in Meta
    BY <2>1, <2>2, RowTypes, MetaUpserted DEF SetEngineRequested
  <2>4. QED
    BY <1>2, <2>1, <2>3 DEF StoreRequest, TypeOK, cursorVars, locals
<1>3. CASE AskElsewhere \/ Rival
  BY <1>0, <1>3 DEF AskElsewhere, Rival, TypeOK, cursorVars, locals, askVars
<1>4. CASE Boot \/ ReadBaseline
  BY <1>4, CursorTypes DEF Boot, ReadBaseline, TypeOK, LocalStates, locals, askVars
<1>5. CASE StartWalk \/ Walk \/ WalkFails \/ Fetch
  BY <1>5, CursorTypes DEF StartWalk, Walk, WalkFails, Fetch, TypeOK, LocalStates, cursorVars,
     locals, askVars
<1>6. CASE Commit \/ CommitFails
  <2>1. panelCursor' \in Cursor /\ baseline' = baseline
    BY <1>6, CursorTypes DEF Commit, CommitFails, TypeOK, cursorVars
  <2>2. batch' = <<>> /\ engine' = NoEngine /\ counted' = {} /\ lpc' = "step"
    BY <1>6 DEF Commit, CommitFails, Returned
  <2>3. UNCHANGED <<log, meta, files, submits>>
    BY <1>6 DEF Commit, CommitFails, askVars
  <2>4. QED
    BY <2>1, <2>2, <2>3 DEF TypeOK, LocalStates
<1>7. CASE Check \/ ChooseEngine
  BY <1>7 DEF Check, ChooseEngine, TypeOK, LocalStates, cursorVars, locals, askVars, Engines,
     Requests, Degraded
<1>8. CASE FanOut
  <2>1. batch' \in Seq(Personas)
    <3>1. CASE batch' = batch
      BY <3>1 DEF TypeOK
    <3>2. ASSUME NEW n \in ReplyCounts, NEW lines \in [1 .. n -> DOMAIN Panel],
                 batch' = [k \in 1 .. n |-> Panel[lines[k]]]
          PROVE  batch' \in Seq(Personas)
      <4>1. n \in Nat /\ \A j \in DOMAIN Panel : Panel[j] \in Personas
        BY ListenerAssumption DEF ReplyCounts
      <4>2. QED
        BY <3>2, <4>1
    <3>3. QED
      BY <1>8, <3>1, <3>2 DEF FanOut
  <2>2. QED
    BY <1>8, <2>1 DEF FanOut, TypeOK, LocalStates, cursorVars, askVars
<1>9. CASE AppendBatch
  BY <1>0, <1>9 DEF AppendBatch, TypeOK, LocalStates, cursorVars, locals, askVars
<1>10. CASE WriteFiles
  <2>1. Replied \subseteq Personas /\ FilesIn(DirOf(Next1)) \subseteq Personas
    BY DEF TypeOK, Replied, FilesIn
  <2>2. PICK some \in SUBSET Replied :
          files' = With(files, DirOf(Next1), FilesIn(DirOf(Next1)) \cup some)
    BY <1>10 DEF WriteFiles
  <2>3. \A d \in DOMAIN files' : files'[d] \subseteq Personas
    BY <2>1, <2>2 DEF With, TypeOK
  <2>4. QED
    BY <1>10, <2>3 DEF WriteFiles, TypeOK, LocalStates, cursorVars, locals, askVars
<1>11. CASE Aggregate
  <2>1. \A d \in DOMAIN files' : files'[d] \subseteq Personas
    BY <1>11 DEF Aggregate, DirRemoved, TypeOK
  <2>2. counted' \subseteq Personas
    BY <1>11 DEF Aggregate, FilesIn, TypeOK
  <2>3. QED
    BY <1>11, <2>1, <2>2 DEF Aggregate, TypeOK, LocalStates, cursorVars, askVars
<1>12. CASE AppendPrediction
  BY <1>0, <1>12 DEF AppendPrediction, TypeOK, LocalStates, cursorVars, locals, askVars
<1>13. CASE Label
  <2>1. DOMAIN meta' \subseteq Nat /\ \A k \in DOMAIN meta' : meta'[k] \in Meta
    BY <1>13, RowTypes, MetaUpserted, CursorTypes DEF Label, SetEngineUsed, TypeOK
  <2>2. QED
    BY <1>13, <2>1 DEF Label, TypeOK, LocalStates, cursorVars, locals, askVars
<1>14. CASE Crash
  BY <1>14 DEF Crash, Stopped, Returned, TypeOK, LocalStates, cursorVars
<1>15. CASE UNCHANGED vars
  BY <1>15 DEF vars, TypeOK, cursorVars, locals, askVars
<1>16. QED
  BY <1>1, <1>2, <1>3, <1>4, <1>5, <1>6, <1>7, <1>8, <1>9, <1>10, <1>11, <1>12, <1>13, <1>14, <1>15
     DEF Next

\* The listener's variables keep their types.
THEOREM ListenerTypes == Spec => []TypeOK
<1>1. Init => TypeOK
  BY DEF Init, InitWith, TypeOK, EmptyMeta, Empty, Cursor, LocalStates
<1>2. TypeOK /\ [Next]_vars => TypeOK'
  BY TypeStep
<1>3. QED
  BY <1>1, <1>2, PTL DEF Spec

-----------------------------------------------------------------------------
(* The queue grows; what is on it stays. *)

LEMMA EntryAppended ==
    ASSUME TypeOK, NEW e \in Entry, log' = Append(log, e)
    PROVE  /\ Len(log) \in Nat /\ Len(log)' = Len(log) + 1
           /\ Ordinals' = Ordinals \cup {Len(log)} /\ Len(log) \notin Ordinals
           /\ log'[Len(log) + 1] = e
           /\ \A n \in Ordinals : At(n)' = At(n)
           /\ \A i : PredictionsOf(i)' = IF e = PredictionEntry(i)
                                         THEN PredictionsOf(i) \cup {Len(log)} ELSE PredictionsOf(i)
<1>1. /\ Len(log) \in Nat /\ Len(log)' = Len(log) + 1
      /\ Ordinals' = Ordinals \cup {Len(log)} /\ Len(log) \notin Ordinals
  BY DEF TypeOK, Ordinals
<1>2. log'[Len(log) + 1] = e
  BY DEF TypeOK
<1>3. \A n \in Ordinals : At(n)' = At(n)
  BY DEF TypeOK, Ordinals, At
<1>4. ASSUME NEW i
      PROVE  PredictionsOf(i)' = IF e = PredictionEntry(i)
                                 THEN PredictionsOf(i) \cup {Len(log)} ELSE PredictionsOf(i)
  <2>1. PredictionsOf(i)' = {p \in Ordinals \cup {Len(log)} : log'[p + 1] = PredictionEntry(i)}
    BY <1>1 DEF PredictionsOf, At
  <2>2. \A p \in Ordinals : log'[p + 1] = At(p)
    BY <1>3 DEF At
  <2>3. QED
    BY <1>1, <1>2, <2>1, <2>2 DEF PredictionsOf
<1>5. QED
  BY <1>1, <1>2, <1>3, <1>4

LEMMA BatchAppended ==
    ASSUME TypeOK, BatchLands
    PROVE  /\ Len(batch) \in Nat /\ Len(log)' = Len(log) + Len(batch)
           /\ Ordinals' = Ordinals \cup (Len(log) .. Len(log) + Len(batch) - 1)
           /\ \A n \in Ordinals : At(n)' = At(n)
           /\ \A k \in 1 .. Len(batch) : log'[Len(log) + k] = ReplyEntry(batch[k])
           /\ \A i : PredictionsOf(i)' = PredictionsOf(i)
<1> DEFINE said == [k \in 1 .. Len(batch) |-> ReplyEntry(batch[k])]
<1>1. /\ log \in Seq(Entry) /\ Len(batch) \in Nat
      /\ \A k \in 1 .. Len(batch) : ReplyEntry(batch[k]) \in Entry
  BY EntryTypes DEF TypeOK
<1>2. said \in Seq(Entry) /\ Len(said) = Len(batch)
  BY <1>1
<1>3. log' = log \o said
  BY DEF BatchLands
<1>4. /\ Len(log)' = Len(log) + Len(batch)
      /\ Ordinals' = Ordinals \cup (Len(log) .. Len(log) + Len(batch) - 1)
  BY <1>1, <1>2, <1>3 DEF Ordinals
<1>5. \A n \in Ordinals : At(n)' = At(n)
  BY <1>1, <1>2, <1>3 DEF Ordinals, At
<1>6. \A k \in 1 .. Len(batch) : log'[Len(log) + k] = ReplyEntry(batch[k])
  BY <1>1, <1>2, <1>3
<1>7. \A n \in Ordinals' \ Ordinals : \A i : At(n)' # PredictionEntry(i)
  <2> SUFFICES ASSUME NEW n \in Ordinals' \ Ordinals, NEW i PROVE At(n)' # PredictionEntry(i)
    OBVIOUS
  <2>1. /\ Len(log) \in Nat /\ n \in Len(log) .. Len(log) + Len(batch) - 1
    BY <1>1, <1>4
  <2>2. n - Len(log) + 1 \in 1 .. Len(batch) /\ n + 1 = Len(log) + (n - Len(log) + 1)
    BY <1>1, <2>1
  <2>3. PICK k \in 1 .. Len(batch) : n + 1 = Len(log) + k
    BY <2>2
  <2>4. At(n)' = ReplyEntry(batch[k])
    BY <1>6, <2>3 DEF At
  <2>5. QED
    BY <2>4 DEF ReplyEntry, PredictionEntry
<1>8. \A i : PredictionsOf(i)' = PredictionsOf(i)
  BY <1>4, <1>5, <1>7 DEF PredictionsOf
<1>9. QED
  BY <1>1, <1>4, <1>5, <1>6, <1>8

-----------------------------------------------------------------------------
(* One prediction, with a true label. *)

\* The predictions of i that the listener made.
Own(i) == PredictionsOf(i) \ rivals

Unpredicted == lpc \in {"engine", "fanout", "batch", "aggregate", "script", "predict"}

\* Predictions tag entries before them.
Backward == \A p \in Ordinals : At(p).kind = "prediction" => At(p).tag \in 0 .. p-1

\* The query in hand is on the queue; once it was looked at, and no refusal hid
\* anything, only rivals have predicted it, and after that look; and what was
\* predicted is recorded.
InHand ==
    /\ lpc = "check" \/ Unpredicted => Next1 \in Ordinals
    /\ Unpredicted =>
         /\ Next1 \in DOMAIN looked
         /\ looked[Next1] \in 0 .. Len(log)
         /\ Next1 \notin overlooked =>
               \A p \in PredictionsOf(Next1) : p \in rivals /\ p >= looked[Next1]
    /\ lpc = "label" => Next1 \in DOMAIN made /\ made[Next1] = engine

\* The inductive invariant behind OnePrediction and LabelTrue.
AnswerInv ==
    /\ rivals \subseteq Ordinals
    /\ Backward
    /\ InHand
    /\ \A i \in DOMAIN made : i \in DOMAIN looked /\ Own(i) # {}
    /\ OnePrediction
    /\ LabelTrue

\* A step that appends, labels and looks at nothing.
LEMMA QuietStep ==
    ASSUME AnswerInv, UNCHANGED <<log, meta, made, looked, rivals, overlooked>>,
           Unpredicted' => Unpredicted /\ Next1' = Next1,
           lpc' = "check" => Next1' \in Ordinals,
           lpc' # "label"
    PROVE  AnswerInv'
<1>1. Ordinals' = Ordinals /\ Len(log)' = Len(log) /\ \A n : At(n)' = At(n)
  BY DEF Ordinals, At
<1>2. \A i : PredictionsOf(i)' = PredictionsOf(i)
  BY <1>1 DEF PredictionsOf
<1>3. Backward'
  BY <1>1 DEF AnswerInv, Backward
<1>4. InHand'
  BY <1>1, <1>2 DEF AnswerInv, InHand
<1>5. OnePrediction' /\ \A i \in DOMAIN made' : i \in DOMAIN looked' /\ Own(i)' # {}
  BY <1>2 DEF AnswerInv, OnePrediction, Own
<1>6. LabelTrue'
  BY DEF AnswerInv, LabelTrue, EngineUsed, Row
<1>7. QED
  BY <1>1, <1>3, <1>4, <1>5, <1>6 DEF AnswerInv

\* A query is appended.
LEMMA AskStep ==
    ASSUME TypeOK, AnswerInv, Ask, UNCHANGED <<meta, lpc, panelCursor, engine>>,
           UNCHANGED <<made, looked, rivals, overlooked>>
    PROVE  AnswerInv'
<1>1. log' = Append(log, QueryEntry) /\ QueryEntry \in Entry
  BY EntryTypes DEF Ask
<1>2. /\ Ordinals' = Ordinals \cup {Len(log)} /\ Len(log)' = Len(log) + 1 /\ Len(log) \in Nat
      /\ log'[Len(log) + 1] = QueryEntry /\ \A n \in Ordinals : At(n)' = At(n)
  BY <1>1, EntryAppended
<1>3. \A i : PredictionsOf(i)' = PredictionsOf(i)
  BY <1>1, EntryAppended DEF QueryEntry, PredictionEntry
<1>4. Backward'
  <2>1. \A n \in Ordinals' : At(n)' = IF n = Len(log) THEN QueryEntry ELSE At(n)
    BY <1>2 DEF At
  <2>2. QED
    BY <1>2, <2>1 DEF AnswerInv, Backward, QueryEntry
<1>5. Next1' = Next1
  BY DEF Next1
<1>6. InHand'
  BY <1>2, <1>3, <1>5 DEF AnswerInv, InHand, Unpredicted
<1>7. OnePrediction' /\ \A i \in DOMAIN made' : i \in DOMAIN looked' /\ Own(i)' # {}
  BY <1>3 DEF AnswerInv, OnePrediction, Own
<1>8. LabelTrue'
  BY DEF AnswerInv, LabelTrue, EngineUsed, Row
<1>9. QED
  BY <1>2, <1>4, <1>6, <1>7, <1>8 DEF AnswerInv

\* Another responder predicts i: its prediction is the newest one.
LEMMA RivalStep ==
    ASSUME TypeOK, AnswerInv, Rival
    PROVE  AnswerInv'
<1>1. PICK q \in Queries(0, Len(log)) : log' = Append(log, PredictionEntry(q))
  BY DEF Rival
<1>2. /\ rivals = {} /\ rivals' = {Len(log)}
      /\ UNCHANGED <<meta, lpc, panelCursor, engine, made, looked, overlooked>>
  BY DEF Rival, cursorVars, locals
<1>3. q \in 0 .. Len(log) - 1 /\ q \in Nat /\ PredictionEntry(q) \in Entry
  BY EntryTypes DEF Queries
<1>4. /\ Ordinals' = Ordinals \cup {Len(log)} /\ Len(log) \notin Ordinals
      /\ Len(log)' = Len(log) + 1 /\ Len(log) \in Nat
      /\ log'[Len(log) + 1] = PredictionEntry(q) /\ \A n \in Ordinals : At(n)' = At(n)
  BY <1>1, <1>3, EntryAppended
<1>5. \A i : PredictionsOf(i)' \subseteq PredictionsOf(i) \cup {Len(log)}
  BY <1>1, <1>3, EntryAppended
<1>6. \A i : PredictionsOf(i) \subseteq PredictionsOf(i)' /\ PredictionsOf(i) \subseteq Ordinals
  BY <1>1, <1>3, EntryAppended DEF PredictionsOf
<1>7. Backward'
  <2>1. \A n \in Ordinals' : At(n)' = IF n = Len(log) THEN PredictionEntry(q) ELSE At(n)
    BY <1>4 DEF At
  <2>2. QED
    BY <1>3, <1>4, <2>1 DEF AnswerInv, Backward, PredictionEntry
<1>8. Next1' = Next1
  BY <1>2 DEF Next1
<1>9. InHand'
  BY <1>2, <1>4, <1>5, <1>8 DEF AnswerInv, InHand, Unpredicted
<1>10. \A i \in DOMAIN made' : i \in DOMAIN looked' /\ Own(i)' # {}
  BY <1>2, <1>4, <1>6 DEF AnswerInv, Own
<1>11. OnePrediction'
  BY <1>2, <1>4, <1>5, <1>6 DEF AnswerInv, OnePrediction, Ordinals
<1>12. LabelTrue'
  BY <1>2 DEF AnswerInv, LabelTrue, EngineUsed, Row
<1>13. QED
  BY <1>2, <1>4, <1>7, <1>9, <1>10, <1>11, <1>12 DEF AnswerInv

\* A prediction of the query in hand that is not after it does not exist.
LEMMA LookIsComplete ==
    ASSUME TypeOK, AnswerInv, ~PredictionExists(Next1)
    PROVE  PredictionsOf(Next1) = {}
<1> SUFFICES ASSUME NEW p \in PredictionsOf(Next1) PROVE FALSE
  OBVIOUS
<1>1. p \in Ordinals /\ At(p) = PredictionEntry(Next1) /\ p \in Int /\ Len(log) \in Nat
  BY DEF PredictionsOf, Ordinals, TypeOK
<1>2. Next1 \in 0 .. p-1
  BY <1>1 DEF AnswerInv, Backward, PredictionEntry
<1>3. QED
  BY <1>1, <1>2 DEF PredictionExists, Ordinals

\* The look: either the query is left, or nothing has predicted it.
LEMMA CheckStep ==
    ASSUME TypeOK, AnswerInv, Check
    PROVE  AnswerInv'
<1>1. UNCHANGED <<log, meta, made, rivals, panelCursor, engine>> /\ lpc = "check"
  BY DEF Check, cursorVars, locals
<1>2. CASE lpc' = "commit" /\ UNCHANGED <<looked, overlooked>>
  BY <1>1, <1>2, QuietStep DEF Unpredicted
<1>3. CASE /\ ~PredictionExists(Next1) /\ lpc' = "engine" /\ UNCHANGED overlooked
           /\ looked' = With(looked, Next1, Len(log))
  <2>1. PredictionsOf(Next1) = {}
    BY <1>3, LookIsComplete
  <2>2. Next1 \notin DOMAIN made
    BY <2>1 DEF AnswerInv, Own
  <2>3. /\ Ordinals' = Ordinals /\ Len(log)' = Len(log) /\ Next1' = Next1 /\ Len(log) \in Nat
        /\ \A n : At(n)' = At(n)
    BY <1>1 DEF Ordinals, At, Next1, TypeOK
  <2>4. \A i : PredictionsOf(i)' = PredictionsOf(i)
    BY <2>3 DEF PredictionsOf
  <2>5. /\ Next1 \in DOMAIN looked' /\ looked'[Next1] = Len(log)
        /\ \A i \in DOMAIN made : i \in DOMAIN looked' /\ looked'[i] = looked[i]
    BY <1>3, <2>2 DEF With, AnswerInv
  <2>6. InHand'
    BY <1>1, <1>3, <2>1, <2>3, <2>4, <2>5 DEF AnswerInv, InHand, Unpredicted
  <2>7. Backward' /\ \A i \in DOMAIN made' : i \in DOMAIN looked' /\ Own(i)' # {}
    BY <1>1, <2>3, <2>4, <2>5 DEF AnswerInv, Backward, Own
  <2>8. OnePrediction'
    BY <1>1, <1>3, <2>4, <2>5 DEF AnswerInv, OnePrediction
  <2>9. LabelTrue'
    BY <1>1, <1>3 DEF AnswerInv, LabelTrue, EngineUsed, Row
  <2>10. QED
    BY <1>1, <2>3, <2>6, <2>7, <2>8, <2>9 DEF AnswerInv
<1>4. CASE /\ lpc' = "engine" /\ overlooked' = overlooked \cup {Next1}
           /\ looked' = With(looked, Next1, Len(log))
  <2>1. /\ Ordinals' = Ordinals /\ Len(log)' = Len(log) /\ Next1' = Next1 /\ Len(log) \in Nat
        /\ \A n : At(n)' = At(n)
    BY <1>1 DEF Ordinals, At, Next1, TypeOK
  <2>2. \A i : PredictionsOf(i)' = PredictionsOf(i)
    BY <2>1 DEF PredictionsOf
  <2>3. /\ Next1 \in DOMAIN looked' /\ looked'[Next1] = Len(log)
        /\ \A i \in DOMAIN made : i \in DOMAIN looked'
        /\ \A i \in DOMAIN made \ overlooked' : looked'[i] = looked[i]
    BY <1>4 DEF With, AnswerInv
  <2>4. InHand'
    BY <1>1, <1>4, <2>1, <2>3 DEF AnswerInv, InHand, Unpredicted
  <2>5. Backward' /\ \A i \in DOMAIN made' : i \in DOMAIN looked' /\ Own(i)' # {}
    BY <1>1, <2>1, <2>2, <2>3 DEF AnswerInv, Backward, Own
  <2>6. OnePrediction'
    BY <1>1, <1>4, <2>2, <2>3 DEF AnswerInv, OnePrediction
  <2>7. LabelTrue'
    BY <1>1, <1>4 DEF AnswerInv, LabelTrue, EngineUsed, Row
  <2>8. QED
    BY <1>1, <2>1, <2>4, <2>5, <2>6, <2>7 DEF AnswerInv
<1>5. QED
  BY <1>2, <1>3, <1>4 DEF Check

\* The replies land: nothing is predicted by them.
LEMMA BatchStep ==
    ASSUME TypeOK, AnswerInv, AppendBatch
    PROVE  AnswerInv'
<1>1. /\ UNCHANGED <<meta, made, looked, rivals, overlooked, panelCursor, engine>> /\ lpc = "batch"
      /\ lpc' \in {"aggregate", "commit"}
  BY DEF AppendBatch, cursorVars, locals
<1>2. Next1' = Next1
  BY <1>1 DEF Next1
<1>3. CASE log' = log
  BY <1>1, <1>2, <1>3, QuietStep DEF Unpredicted
<1>4. CASE BatchLands
  <2>1. /\ Len(batch) \in Nat /\ Len(log)' = Len(log) + Len(batch) /\ Len(log) \in Nat
        /\ Ordinals' = Ordinals \cup (Len(log) .. Len(log) + Len(batch) - 1)
        /\ \A n \in Ordinals : At(n)' = At(n)
        /\ \A k \in 1 .. Len(batch) : log'[Len(log) + k] = ReplyEntry(batch[k])
        /\ \A j : PredictionsOf(j)' = PredictionsOf(j)
    BY <1>4, BatchAppended DEF TypeOK
  <2>2. \A n \in Ordinals' \ Ordinals : At(n)'.kind = "reply"
    <3> SUFFICES ASSUME NEW n \in Ordinals' \ Ordinals PROVE At(n)'.kind = "reply"
      OBVIOUS
    <3>1. n - Len(log) + 1 \in 1 .. Len(batch) /\ n + 1 = Len(log) + (n - Len(log) + 1)
      BY <2>1
    <3>2. PICK k \in 1 .. Len(batch) : n + 1 = Len(log) + k
      BY <3>1
    <3>3. At(n)' = ReplyEntry(batch[k])
      BY <2>1, <3>2 DEF At
    <3>4. QED
      BY <3>3 DEF ReplyEntry
  <2>3. Backward'
    BY <2>1, <2>2 DEF AnswerInv, Backward
  <2>4. InHand'
    BY <1>1, <1>2, <2>1 DEF AnswerInv, InHand, Unpredicted
  <2>5. OnePrediction' /\ \A j \in DOMAIN made' : j \in DOMAIN looked' /\ Own(j)' # {}
    BY <1>1, <2>1 DEF AnswerInv, OnePrediction, Own
  <2>6. LabelTrue'
    BY <1>1 DEF AnswerInv, LabelTrue, EngineUsed, Row
  <2>7. QED
    BY <1>1, <2>1, <2>3, <2>4, <2>5, <2>6 DEF AnswerInv
<1>5. QED
  BY <1>3, <1>4 DEF AppendBatch

\* The prediction lands: those there are already came from rivals after the look.
LEMMA PredictionStep ==
    ASSUME TypeOK, AnswerInv, AppendPrediction
    PROVE  AnswerInv'
<1>1. /\ UNCHANGED <<meta, looked, rivals, overlooked, panelCursor, engine>> /\ lpc = "predict"
      /\ lpc' \in {"label", "commit"}
  BY DEF AppendPrediction, cursorVars, locals
<1>2. Next1' = Next1
  BY <1>1 DEF Next1
<1>3. CASE UNCHANGED <<log, made>> /\ lpc' = "commit"
  BY <1>1, <1>2, <1>3, QuietStep DEF Unpredicted
<1>4. CASE PredictionLands
  <2>1. /\ log' = Append(log, PredictionEntry(Next1)) /\ made' = With(made, Next1, engine)
        /\ PredictionEntry(Next1) \in Entry
    BY <1>4, EntryTypes, CursorTypes DEF PredictionLands, TypeOK
  <2>2. /\ Ordinals' = Ordinals \cup {Len(log)} /\ Len(log) \notin Ordinals
        /\ Len(log)' = Len(log) + 1 /\ Len(log) \in Nat
        /\ log'[Len(log) + 1] = PredictionEntry(Next1) /\ \A n \in Ordinals : At(n)' = At(n)
    BY <2>1, EntryAppended
  <2>3. \A j : PredictionsOf(j)' = IF j = Next1 THEN PredictionsOf(j) \cup {Len(log)}
                                               ELSE PredictionsOf(j)
    <3>1. \A j : PredictionEntry(Next1) = PredictionEntry(j) <=> j = Next1
      BY DEF PredictionEntry
    <3>2. QED
      BY <2>1, <3>1, EntryAppended
  <2>4. /\ Next1 \in Ordinals /\ Next1 \in DOMAIN looked
        /\ Next1 \notin overlooked =>
             \A p \in PredictionsOf(Next1) : p \in rivals /\ p >= looked[Next1] /\ p < Len(log)
    BY <1>1, <2>2 DEF AnswerInv, InHand, Unpredicted, PredictionsOf, Ordinals
  <2>5. Backward'
    <3>1. \A n \in Ordinals' : At(n)' = IF n = Len(log) THEN PredictionEntry(Next1) ELSE At(n)
      BY <2>2 DEF At
    <3>2. Next1 \in 0 .. Len(log) - 1
      BY <2>4 DEF Ordinals
    <3>3. QED
      BY <2>2, <3>1, <3>2 DEF AnswerInv, Backward, PredictionEntry
  <2>6. Next1 \notin overlooked => Next1 \notin DOMAIN made
    BY <2>4 DEF AnswerInv, Own
  <2>7. /\ DOMAIN made' = DOMAIN made \cup {Next1} /\ made'[Next1] = engine
        /\ \A j \in DOMAIN made \ overlooked : made'[j] = made[j]
    BY <2>1, <2>6 DEF With
  <2>8. InHand'
    BY <1>1, <1>2, <2>7 DEF InHand, Unpredicted
  <2>9. \A j \in DOMAIN made' : j \in DOMAIN looked' /\ Own(j)' # {}
    <3>1. Len(log) \notin rivals
      BY <2>2 DEF AnswerInv
    <3>2. QED
      BY <1>1, <2>3, <2>4, <2>7, <3>1 DEF AnswerInv, Own
  <2>10. OnePrediction'
    <3> SUFFICES ASSUME NEW j \in DOMAIN made' \ overlooked', NEW p \in PredictionsOf(j)',
                        NEW other \in PredictionsOf(j)', p < other, other \notin rivals'
                 PROVE  p \in rivals' /\ p >= looked'[j]
      BY DEF OnePrediction
    <3>1. CASE j = Next1
      BY <1>1, <2>2, <2>3, <2>4, <3>1
    <3>2. CASE j # Next1
      BY <1>1, <2>3, <2>7, <3>2 DEF AnswerInv, OnePrediction
    <3>3. QED
      BY <3>1, <3>2
  <2>11. LabelTrue'
    BY <1>1, <2>7 DEF AnswerInv, LabelTrue, EngineUsed, Row
  <2>12. QED
    BY <1>1, <2>2, <2>5, <2>8, <2>9, <2>10, <2>11 DEF AnswerInv
<1>5. QED
  BY <1>1, <1>3, <1>4 DEF AppendPrediction

\* The label of the prediction that was just made, or an engine that is asked for.
LEMMA MetaStep ==
    ASSUME TypeOK, AnswerInv, Label \/ StoreRequest
    PROVE  AnswerInv'
<1>1. UNCHANGED <<log, made, looked, rivals, overlooked>>
  BY DEF Label, StoreRequest, auxVars, answerAux
<1>2. LabelTrue'
  <2>1. CASE Label
    <3>1. lpc = "label" /\ meta' = Upserted(Next1, [Row(Next1) EXCEPT !.used = engine])
      BY <2>1 DEF Label, SetEngineUsed
    <3>2. Next1 \in DOMAIN made /\ made[Next1] = engine
      BY <3>1 DEF AnswerInv, InHand
    <3>3. Row(Next1) \in Meta
      BY RowTypes
    <3>4. /\ DOMAIN meta' = DOMAIN meta \cup {Next1}
          /\ meta'[Next1].used = engine
          /\ \A i \in DOMAIN meta : i # Next1 => meta'[i] = meta[i]
      BY <3>1, <3>3 DEF Upserted, Meta
    <3>5. QED
      BY <1>1, <3>2, <3>4 DEF AnswerInv, LabelTrue, EngineUsed, Row
  <2>2. CASE StoreRequest
    <3>1. PICK s \in submits :
            meta' = Upserted(s.item, [Row(s.item) EXCEPT !.requested = s.engine])
      BY <2>2 DEF StoreRequest, SetEngineRequested
    <3>2. Row(s.item) \in Meta
      BY RowTypes
    <3>3. /\ DOMAIN meta' = DOMAIN meta \cup {s.item}
          /\ meta'[s.item].used = Row(s.item).used
          /\ \A i \in DOMAIN meta : i # s.item => meta'[i] = meta[i]
      BY <3>1, <3>2 DEF Upserted, Meta
    <3>4. QED
      BY <1>1, <3>3 DEF AnswerInv, LabelTrue, EngineUsed, Row
  <2>3. QED
    BY <2>1, <2>2
<1>3. UNCHANGED <<panelCursor, engine>> /\ (lpc' = lpc \/ lpc' = "commit")
  BY DEF Label, StoreRequest, cursorVars, locals
<1>4. Ordinals' = Ordinals /\ Len(log)' = Len(log) /\ Next1' = Next1 /\ \A n : At(n)' = At(n)
  BY <1>1, <1>3 DEF Ordinals, At, Next1
<1>5. \A i : PredictionsOf(i)' = PredictionsOf(i)
  BY <1>4 DEF PredictionsOf
<1>6. InHand'
  BY <1>1, <1>3, <1>4, <1>5 DEF AnswerInv, InHand, Unpredicted
<1>7. QED
  BY <1>1, <1>2, <1>4, <1>5, <1>6 DEF AnswerInv, Backward, OnePrediction, Own

LEMMA AnswerStep ==
    ASSUME TypeOK, AnswerInv, [Next]_vars
    PROVE  AnswerInv'
<1>1. CASE Submit \/ AskElsewhere
  BY <1>1, AskStep DEF Submit, AskElsewhere, cursorVars, locals, auxVars, answerAux
<1>2. CASE Rival
  BY <1>2, RivalStep
<1>3. CASE Check
  BY <1>3, CheckStep
<1>4. CASE AppendBatch
  BY <1>4, BatchStep
<1>5. CASE AppendPrediction
  BY <1>5, PredictionStep
<1>6. CASE Label \/ StoreRequest
  BY <1>6, MetaStep
<1>7. CASE Boot \/ ReadBaseline \/ StartWalk \/ Walk \/ WalkFails \/ Commit \/ CommitFails \/ Crash
  <2>1. UNCHANGED <<log, meta, made, looked, rivals, overlooked>> /\ lpc' \in {"boot", "len", "step", "walk"}
    BY <1>7 DEF Boot, ReadBaseline, StartWalk, Walk, WalkFails, Commit, CommitFails, Crash,
       Stopped, auxVars, answerAux
  <2>2. QED
    BY <2>1, QuietStep DEF Unpredicted
<1>8. CASE Fetch
  <2>1. UNCHANGED <<log, meta, made, looked, rivals, overlooked>> /\ lpc' \in {"step", "check", "commit"}
    BY <1>8 DEF Fetch, auxVars, answerAux
  <2>2. Next1' = Next1
    BY <1>8 DEF Fetch, Next1, NextOf, Created, Absent, Fresh
  <2>3. lpc' = "check" => Next1 \in Ordinals
    BY <1>8 DEF Fetch, IsKind
  <2>4. Ordinals' = Ordinals
    BY <2>1 DEF Ordinals
  <2>5. QED
    BY <2>1, <2>2, <2>3, QuietStep DEF Unpredicted
<1>9. CASE ChooseEngine \/ FanOut \/ WriteFiles \/ Aggregate
  <2>1. /\ UNCHANGED <<log, meta, made, looked, rivals, overlooked, panelCursor>> /\ Unpredicted
        /\ lpc' \in {"fanout", "batch", "script", "predict", "commit"}
    BY <1>9 DEF ChooseEngine, FanOut, WriteFiles, Aggregate, auxVars, answerAux, cursorVars,
       Unpredicted
  <2>2. Next1' = Next1
    BY <2>1 DEF Next1
  <2>3. QED
    BY <2>1, <2>2, QuietStep
<1>10. CASE UNCHANGED vars
  <2>1. UNCHANGED <<log, meta, made, looked, rivals, overlooked, lpc, engine, panelCursor>>
    BY <1>10 DEF vars, auxVars, answerAux, cursorVars, locals
  <2>2. Ordinals' = Ordinals /\ Len(log)' = Len(log) /\ Next1' = Next1 /\ \A n : At(n)' = At(n)
    BY <2>1 DEF Ordinals, At, Next1
  <2>3. \A i : PredictionsOf(i)' = PredictionsOf(i)
    BY <2>2 DEF PredictionsOf
  <2>4. InHand'
    BY <2>1, <2>2, <2>3 DEF AnswerInv, InHand, Unpredicted
  <2>5. LabelTrue'
    BY <2>1 DEF AnswerInv, LabelTrue, EngineUsed, Row
  <2>6. QED
    BY <2>1, <2>2, <2>3, <2>4, <2>5 DEF AnswerInv, Backward, OnePrediction, Own
<1>11. QED
  BY <1>1, <1>2, <1>3, <1>4, <1>5, <1>6, <1>7, <1>8, <1>9, <1>10 DEF Next

LEMMA AnswerSpec == Spec => [](TypeOK /\ AnswerInv)
<1>1. Init => TypeOK /\ AnswerInv
  BY DEF Init, InitWith, TypeOK, EmptyMeta, Empty, Cursor, LocalStates, AnswerInv, Backward, InHand,
     Unpredicted, Ordinals, OnePrediction, LabelTrue
<1>2. TypeOK /\ AnswerInv /\ [Next]_vars => (TypeOK /\ AnswerInv)'
  BY TypeStep, AnswerStep
<1>3. QED
  BY <1>1, <1>2, PTL DEF Spec

\* prediction_exists stops every second answer, whatever else fails and however
\* often a query is fetched: two predictions of one query need another responder
\* that answers after the listener has looked, or a refused get in that look.
THEOREM PredictedOnce == Spec => []OnePrediction
<1>1. AnswerInv => OnePrediction
  BY DEF AnswerInv
<1>2. QED
  BY AnswerSpec, <1>1, PTL

\* A label in run_meta names the engine that made the prediction, of every query
\* no refused get made the listener predict twice.
THEOREM LabelsTrue == Spec => []LabelTrue
<1>1. AnswerInv => LabelTrue
  BY DEF AnswerInv
<1>2. QED
  BY AnswerSpec, <1>1, PTL

-----------------------------------------------------------------------------
(* What is counted was said. *)

\* A reply of who that was written for i is on the queue.
Said(i, who) == \E r \in DOMAIN author : author[r] = i /\ At(r) = ReplyEntry(who)

\* The inductive invariant behind CountedWereQueued: what is in a directory, in
\* hand or counted was said, and a prediction never counts nothing.
CountInv ==
    /\ DOMAIN author \subseteq Ordinals /\ rivals \subseteq Ordinals
    /\ \A d \in DOMAIN files : \A who \in files[d] : Said(d, who)
    /\ lpc \in {"batch", "aggregate"} => Replied # {}
    /\ lpc = "aggregate" => \A who \in Replied : Said(Next1, who)
    /\ lpc = "script" => FilesIn(Next1) # {}
    /\ lpc = "predict" => counted # {} /\ \A who \in counted : Said(Next1, who)
    /\ CountedWereQueued

\* Queue and authors grow, and only what is new is a rival's.
LEMMA QueueGrows ==
    ASSUME TypeOK, CountInv, [Next]_vars
    PROVE  /\ Ordinals \subseteq Ordinals' /\ \A n \in Ordinals : At(n)' = At(n)
           /\ DOMAIN author \subseteq DOMAIN author' /\ DOMAIN author' \subseteq Ordinals'
           /\ \A r \in DOMAIN author : author'[r] = author[r]
           /\ rivals' \subseteq Ordinals' /\ rivals' \cap Ordinals \subseteq rivals
<1>1. CASE UNCHANGED <<log, author, rivals>>
  BY <1>1 DEF CountInv, Ordinals, At
<1>2. CASE Ask /\ UNCHANGED <<author, rivals>>
  <2>1. log' = Append(log, QueryEntry) /\ QueryEntry \in Entry
    BY <1>2, EntryTypes DEF Ask
  <2>2. QED
    BY <1>2, <2>1, EntryAppended DEF CountInv
<1>3. CASE Rival
  <2>1. PICK q \in Nat : log' = Append(log, PredictionEntry(q))
    BY <1>3 DEF Rival, Queries
  <2>2. rivals' = {Len(log)} /\ author' = author
    BY <1>3 DEF Rival
  <2>3. QED
    BY <2>1, <2>2, EntryTypes, EntryAppended DEF CountInv
<1>4. CASE BatchLands /\ UNCHANGED rivals
  BY <1>4, BatchAppended DEF CountInv, BatchLands
<1>5. CASE PredictionLands /\ UNCHANGED <<author, rivals>>
  <2>1. log' = Append(log, PredictionEntry(Next1)) /\ PredictionEntry(Next1) \in Entry
    BY <1>5, EntryTypes, CursorTypes DEF PredictionLands, TypeOK
  <2>2. QED
    BY <1>5, <2>1, EntryAppended DEF CountInv
<1>6. Submit \/ AskElsewhere => Ask /\ UNCHANGED <<author, rivals>>
  BY DEF Submit, AskElsewhere, auxVars, answerAux
<1>7. StoreRequest \/ Boot \/ ReadBaseline \/ StartWalk \/ Walk \/ WalkFails \/ Fetch
        => UNCHANGED <<log, author, rivals>>
  BY DEF StoreRequest, Boot, ReadBaseline, StartWalk, Walk, WalkFails, Fetch, auxVars, answerAux
<1>8. Commit \/ CommitFails \/ Check \/ ChooseEngine \/ FanOut => UNCHANGED <<log, author, rivals>>
  BY DEF Commit, CommitFails, Check, ChooseEngine, FanOut, auxVars, answerAux
<1>9. WriteFiles \/ Aggregate \/ Label \/ Crash \/ UNCHANGED vars => UNCHANGED <<log, author, rivals>>
  BY DEF WriteFiles, Aggregate, Label, Crash, vars, auxVars, answerAux
<1>10. AppendBatch => (BatchLands \/ UNCHANGED <<log, author>>) /\ UNCHANGED rivals
  BY DEF AppendBatch
<1>11. AppendPrediction => (PredictionLands \/ UNCHANGED log) /\ UNCHANGED <<author, rivals>>
  BY DEF AppendPrediction
<1>12. QED
  BY <1>1, <1>2, <1>3, <1>4, <1>5, <1>6, <1>7, <1>8, <1>9, <1>10, <1>11 DEF Next

LEMMA SaidStays ==
    ASSUME TypeOK, CountInv, [Next]_vars, NEW i, NEW who, Said(i, who)
    PROVE  Said(i, who)'
BY QueueGrows DEF Said, CountInv

\* What was counted stays counted as long as nothing new is.
LEMMA TallyStays ==
    ASSUME TypeOK, CountInv, [Next]_vars, tally' = tally
    PROVE  CountedWereQueued'
<1> SUFFICES ASSUME NEW i \in DOMAIN tally
             PROVE  \E p \in PredictionsOf(i)' \ rivals' :
                      /\ tally[i] # {}
                      /\ \A who \in tally[i] : \E r \in DOMAIN author' :
                           r < p /\ author'[r] = i /\ At(r)' = ReplyEntry(who)
  BY DEF CountedWereQueued
<1>1. PICK p \in PredictionsOf(i) \ rivals :
        /\ tally[i] # {}
        /\ \A who \in tally[i] : \E r \in DOMAIN author :
             r < p /\ author[r] = i /\ At(r) = ReplyEntry(who)
  BY DEF CountInv, CountedWereQueued
<1>2. p \in PredictionsOf(i)' \ rivals'
  BY <1>1, QueueGrows DEF PredictionsOf
<1>3. \A who \in tally[i] : \E r \in DOMAIN author' :
        r < p /\ author'[r] = i /\ At(r)' = ReplyEntry(who)
  BY <1>1, QueueGrows DEF CountInv
<1>4. QED
  BY <1>1, <1>2, <1>3

\* A step that is not in the middle of an answer.
LEMMA IdleStep ==
    ASSUME TypeOK, CountInv, [Next]_vars, UNCHANGED <<files, tally>>,
           lpc' \notin {"batch", "aggregate", "script", "predict"}
    PROVE  CountInv'
BY QueueGrows, SaidStays, TallyStays DEF CountInv

\* A step of another actor.
LEMMA OtherStep ==
    ASSUME TypeOK, CountInv, [Next]_vars, UNCHANGED <<lpc, panelCursor, batch, counted, files, tally>>
    PROVE  CountInv'
<1>1. Next1' = Next1 /\ Replied' = Replied /\ FilesIn(Next1)' = FilesIn(Next1)
  BY DEF Next1, Replied, FilesIn
<1>2. QED
  BY <1>1, QueueGrows, SaidStays, TallyStays DEF CountInv

LEMMA CountStep ==
    ASSUME TypeOK, CountInv, [Next]_vars
    PROVE  CountInv'
<1>1. CASE Submit \/ StoreRequest \/ AskElsewhere \/ Rival \/ UNCHANGED vars
  <2>1. UNCHANGED <<lpc, panelCursor, batch, counted, files, tally>>
    BY <1>1 DEF Submit, StoreRequest, AskElsewhere, Rival, vars, cursorVars, locals, auxVars, answerAux
  <2>2. QED
    BY <2>1, OtherStep
<1>2. CASE Boot \/ ReadBaseline \/ StartWalk \/ Walk \/ WalkFails \/ Fetch
  <2>1. /\ UNCHANGED <<files, tally>>
        /\ lpc' \in {"len", "step", "walk", "check", "commit"}
    BY <1>2 DEF Boot, ReadBaseline, StartWalk, Walk, WalkFails, Fetch, auxVars, answerAux
  <2>2. QED
    BY <2>1, IdleStep
<1>3. CASE Commit \/ CommitFails \/ Check \/ ChooseEngine \/ Label \/ Crash
  <2>1. /\ UNCHANGED <<files, tally>>
        /\ lpc' \in {"step", "engine", "fanout", "commit", "boot"}
    BY <1>3 DEF Commit, CommitFails, Check, ChooseEngine, Label, Crash, Stopped, auxVars, answerAux
  <2>2. QED
    BY <2>1, IdleStep
<1>4. CASE FanOut
  <2>1. UNCHANGED <<files, tally, panelCursor>> /\ lpc' \in {"batch", "commit"}
    BY <1>4 DEF FanOut, auxVars, answerAux, cursorVars
  <2>2. CASE lpc' = "commit"
    BY <2>1, <2>2, IdleStep
  <2>3. CASE lpc' = "batch"
    <3>1. PICK n \in ReplyCounts : \E lines \in [1 .. n -> DOMAIN Panel] :
            batch' = [k \in 1 .. n |-> Panel[lines[k]]] /\ n # 0
      BY <1>4, <2>3 DEF FanOut
    <3>2. n \in Nat
      BY ListenerAssumption DEF ReplyCounts
    <3>3. 1 \in DOMAIN batch'
      BY <3>1, <3>2
    <3>4. Replied' # {}
      BY <3>3 DEF Replied
    <3>5. QED
      BY <2>1, <2>3, <3>4, QueueGrows, SaidStays, TallyStays DEF CountInv
  <2>4. QED
    BY <2>1, <2>2, <2>3
<1>5. CASE AppendBatch
  <2>1. /\ UNCHANGED <<files, tally, panelCursor, batch>> /\ lpc' \in {"aggregate", "commit"}
        /\ lpc = "batch" /\ (lpc' = "aggregate" => BatchLands)
    BY <1>5 DEF AppendBatch, cursorVars, locals
  <2>2. CASE lpc' = "commit"
    BY <2>1, <2>2, IdleStep
  <2>3. CASE BatchLands /\ lpc' = "aggregate"
    <3>1. Replied' = Replied /\ Replied # {} /\ Next1' = Next1
      BY <2>1 DEF Replied, Next1, CountInv
    <3>2. \A who \in Replied : Said(Next1, who)'
      <4> SUFFICES ASSUME NEW who \in Replied PROVE Said(Next1, who)'
        OBVIOUS
      <4>1. PICK k \in 1 .. Len(batch) : batch[k] = who
        BY DEF Replied, TypeOK
      <4>2. /\ Len(log) \in Nat /\ Len(batch) \in Nat
            /\ log'[Len(log) + k] = ReplyEntry(who)
            /\ DOMAIN author \subseteq 0 .. Len(log) - 1
        BY <2>3, <4>1, BatchAppended DEF TypeOK, CountInv, Ordinals
      <4>3. author' = [r \in DOMAIN author \cup (Len(log) .. Len(log) + Len(batch) - 1) |->
                         IF r \in DOMAIN author THEN author[r] ELSE Next1]
        BY <2>3 DEF BatchLands
      <4>4. PICK r \in Len(log) .. Len(log) + Len(batch) - 1 : r + 1 = Len(log) + k
        <5>1. /\ Len(log) + k - 1 \in Len(log) .. Len(log) + Len(batch) - 1
              /\ (Len(log) + k - 1) + 1 = Len(log) + k
          BY <4>2
        <5>2. QED
          BY <5>1
      <4>5. r \in DOMAIN author' /\ author'[r] = Next1'
        BY <3>1, <4>2, <4>3, <4>4
      <4>6. At(r)' = ReplyEntry(who)
        BY <4>2, <4>4 DEF At
      <4>7. QED
        BY <4>5, <4>6 DEF Said
    <3>3. QED
      BY <2>1, <2>3, <3>1, <3>2, QueueGrows, SaidStays, TallyStays DEF CountInv
  <2>4. QED
    BY <2>1, <2>2, <2>3
<1>6. CASE WriteFiles
  <2>1. /\ UNCHANGED <<tally, panelCursor, batch, counted>> /\ lpc' \in {"script", "commit"}
        /\ lpc = "aggregate"
    BY <1>6 DEF WriteFiles, cursorVars, locals, auxVars, answerAux
  <2>2. PICK some \in SUBSET Replied :
          /\ files' = With(files, Next1, FilesIn(Next1) \cup some)
          /\ lpc' = "script" => some = Replied
    BY <1>6 DEF WriteFiles, DirOf
  <2>3. Next1' = Next1 /\ Replied # {} /\ \A who \in Replied : Said(Next1, who)
    BY <2>1 DEF Next1, CountInv
  <2>4. \A who \in FilesIn(Next1) : Said(Next1, who)
    BY DEF FilesIn, CountInv
  <2>5. \A d \in DOMAIN files' : \A who \in files'[d] : Said(d, who)
    BY <2>2, <2>3, <2>4 DEF With, CountInv
  <2>6. \A d \in DOMAIN files' : \A who \in files'[d] : Said(d, who)'
    BY <2>5, SaidStays
  <2>7. lpc' = "script" => FilesIn(Next1)' # {}
    BY <2>2, <2>3 DEF FilesIn, With
  <2>8. QED
    BY <2>1, <2>6, <2>7, QueueGrows, TallyStays DEF CountInv
<1>7. CASE Aggregate
  <2>1. /\ UNCHANGED <<tally, panelCursor>> /\ lpc' \in {"predict", "commit"} /\ lpc = "script"
        /\ lpc' = "predict" => counted' = FilesIn(Next1)
    BY <1>7 DEF Aggregate, DirOf, cursorVars, auxVars, answerAux
  <2>2. \A d \in DOMAIN files' : d \in DOMAIN files /\ files'[d] = files[d]
    BY <1>7 DEF Aggregate, DirRemoved
  <2>3. \A d \in DOMAIN files' : \A who \in files'[d] : Said(d, who)'
    BY <2>2, SaidStays DEF CountInv
  <2>4. Next1' = Next1 /\ FilesIn(Next1) # {} /\ \A who \in FilesIn(Next1) : Said(Next1, who)
    BY <2>1 DEF Next1, FilesIn, CountInv
  <2>5. lpc' = "predict" => counted' # {} /\ \A who \in counted' : Said(Next1, who)'
    BY <2>1, <2>4, SaidStays
  <2>6. QED
    BY <2>1, <2>3, <2>4, <2>5, QueueGrows, TallyStays DEF CountInv
<1>8. CASE AppendPrediction
  <2>1. UNCHANGED <<files, author, rivals>> /\ lpc = "predict" /\ lpc' \in {"label", "commit"}
    BY <1>8 DEF AppendPrediction
  <2>2. CASE tally' = tally
    BY <2>1, <2>2, IdleStep
  <2>3. CASE PredictionLands
    <3>1. /\ log' = Append(log, PredictionEntry(Next1)) /\ PredictionEntry(Next1) \in Entry
          /\ tally' = With(tally, Next1, counted)
      BY <2>3, EntryTypes, CursorTypes DEF PredictionLands, TypeOK
    <3>2. /\ Ordinals' = Ordinals \cup {Len(log)} /\ Len(log) \notin Ordinals
          /\ \A n \in Ordinals : At(n)' = At(n) /\ n < Len(log)
          /\ \A j : PredictionsOf(j) \subseteq PredictionsOf(j)'
          /\ \A j : j = Next1 => Len(log) \in PredictionsOf(j)'
      BY <3>1, EntryAppended DEF Ordinals
    <3>3. CountedWereQueued'
      <4> SUFFICES ASSUME NEW i \in DOMAIN tally'
                   PROVE  \E p \in PredictionsOf(i)' \ rivals :
                            /\ tally'[i] # {}
                            /\ \A who \in tally'[i] : \E r \in DOMAIN author :
                                 r < p /\ author[r] = i /\ At(r)' = ReplyEntry(who)
        BY <2>1 DEF CountedWereQueued
      <4>1. CASE i = Next1
        <5>1. tally'[i] = counted /\ counted # {} /\ \A who \in counted : Said(i, who)
          BY <2>1, <3>1, <4>1 DEF With, CountInv
        <5>2. \A who \in counted : \E r \in DOMAIN author :
                r < Len(log) /\ author[r] = i /\ At(r)' = ReplyEntry(who)
          BY <3>2, <5>1 DEF Said, CountInv
        <5>3. QED
          BY <3>2, <4>1, <5>1, <5>2 DEF CountInv
      <4>2. CASE i # Next1
        <5>1. i \in DOMAIN tally /\ tally'[i] = tally[i]
          BY <3>1, <4>2 DEF With
        <5>2. PICK p \in PredictionsOf(i) \ rivals :
                /\ tally[i] # {}
                /\ \A who \in tally[i] : \E r \in DOMAIN author :
                     r < p /\ author[r] = i /\ At(r) = ReplyEntry(who)
          BY <5>1 DEF CountInv, CountedWereQueued
        <5>3. QED
          BY <3>2, <5>1, <5>2 DEF CountInv
      <4>3. QED
        BY <4>1, <4>2
    <3>4. QED
      BY <2>1, <3>3, QueueGrows, SaidStays DEF CountInv
  <2>4. QED
    BY <1>8, <2>2, <2>3 DEF AppendPrediction
<1>9. QED
  BY <1>1, <1>2, <1>3, <1>4, <1>5, <1>6, <1>7, <1>8 DEF Next

LEMMA CountSpec == Spec => [](TypeOK /\ CountInv)
<1>1. Init => TypeOK /\ CountInv
  BY DEF Init, InitWith, TypeOK, EmptyMeta, Empty, Cursor, LocalStates, CountInv, CountedWereQueued
<1>2. TypeOK /\ CountInv /\ [Next]_vars => (TypeOK /\ CountInv)'
  BY TypeStep, CountStep
<1>3. QED
  BY <1>1, <1>2, PTL DEF Spec

\* A prediction counts replies that are on the queue before it, also when the
\* directory it is made from was left by an attempt that died.
THEOREM CountedQueued == Spec => []CountedWereQueued
<1>1. CountInv => CountedWereQueued
  BY DEF CountInv
<1>2. QED
  BY CountSpec, <1>1, PTL

-----------------------------------------------------------------------------
(* History. *)

\* The inductive invariant behind HistoryNotAnswered: a listener without a
\* position is to walk to where history ends, one in its walk does, and one with
\* a position is past it.
HistoryInv ==
    /\ history \in Nat
    /\ ~cut =>
         /\ lpc \notin {"boot", "len"} /\ panelCursor < 0 => history = baseline
         /\ lpc = "walk" => history = baseline /\ panelCursor < baseline - 1
         /\ lpc \notin {"boot", "len", "step", "walk"} => Next1 >= history
         /\ lpc # "walk" /\ panelCursor >= 0 => panelCursor >= history - 1

LEMMA HistoryStep ==
    ASSUME TypeOK, HistoryInv, [Next]_vars
    PROVE  HistoryInv'
<1> panelCursor \in Cursor /\ baseline \in Nat /\ Len(log) \in Nat
  BY DEF TypeOK
<1> USE DEF HistoryInv, Next1, NextOf, Cursor, Absent, Fresh
<1>1. CASE Submit \/ StoreRequest \/ AskElsewhere \/ Rival \/ UNCHANGED vars
  BY <1>1 DEF Submit, StoreRequest, AskElsewhere, Rival, vars, cursorVars, auxVars, startAux
<1>2. CASE Boot
  BY <1>2 DEF Boot, Created, auxVars, startAux
<1>3. CASE ReadBaseline
  BY <1>3 DEF ReadBaseline
<1>4. CASE StartWalk
  BY <1>4 DEF StartWalk, FastForwardNeeded, Created, auxVars, startAux
<1>5. CASE Walk
  BY <1>5 DEF Walk, Moved, auxVars, startAux
<1>6. CASE WalkFails
  BY <1>6 DEF WalkFails
<1>7. CASE Fetch
  BY <1>7 DEF Fetch, FastForwardNeeded, Created, auxVars, startAux
<1>8. CASE Commit
  BY <1>8 DEF Commit, Moved, auxVars, startAux
<1>9. CASE CommitFails
  BY <1>9 DEF CommitFails, cursorVars, auxVars, startAux
<1>10. CASE Check \/ ChooseEngine \/ FanOut \/ AppendBatch \/ WriteFiles
  BY <1>10 DEF Check, ChooseEngine, FanOut, AppendBatch, WriteFiles, cursorVars, auxVars, startAux
<1>11. CASE Aggregate \/ AppendPrediction \/ Label
  BY <1>11 DEF Aggregate, AppendPrediction, Label, cursorVars, auxVars, startAux
<1>12. CASE Crash
  BY <1>12 DEF Crash, Stopped, cursorVars
<1>13. QED
  BY <1>1, <1>2, <1>3, <1>4, <1>5, <1>6, <1>7, <1>8, <1>9, <1>10, <1>11, <1>12 DEF Next

\* The fast-forward of a fresh cursor skips all that was there before, unless its
\* walk is cut short.
THEOREM HistoryLeftAlone == Spec => []HistoryNotAnswered
<1>1. Init => TypeOK /\ HistoryInv
  BY DEF Init, InitWith, TypeOK, EmptyMeta, Empty, Cursor, LocalStates, HistoryInv, Absent
<1>2. TypeOK /\ HistoryInv /\ [Next]_vars => (TypeOK /\ HistoryInv)'
  BY TypeStep, HistoryStep
<1>3. HistoryInv => HistoryNotAnswered
  BY DEF HistoryInv, HistoryNotAnswered, Answering
<1>4. QED
  BY <1>1, <1>2, <1>3, PTL DEF Spec

-----------------------------------------------------------------------------
(* The service of a listener that answers alone: no rival, and nothing     *)
(* fails between a query and its prediction but the process itself.        *)

LoneFaults == {"crash", "create", "walk", "commit", "predictLost"}

PastStart == lpc \notin {"boot", "len"}

\* On a queue that is not empty the cursor takes its first position at the end
\* of a walk over what was there before, all that was predicted included.
Placed ==
    /\ Len(log) > 0
    /\ history \in 0 .. Len(log)
    /\ Next1 <= Len(log)
    /\ PastStart => baseline \in 1 .. Len(log)
    /\ PastStart /\ panelCursor < 0 =>
         /\ history = baseline
         /\ \A p \in Ordinals : At(p).kind = "prediction" => p < baseline
    /\ panelCursor < 0 => lpc \in {"boot", "len", "step", "walk"}
    /\ lpc = "walk" => history = baseline /\ panelCursor < baseline - 1

\* A query is left with its prediction behind it, and not before.
Served ==
    /\ lpc \in {"check", "commit"} \/ Answering => Next1 \in Ordinals
    /\ lpc = "check" \/ Answering => IsKind(Next1, "query")
    /\ Unpredicted => ~PredictionExists(Next1)
    /\ lpc \in {"label", "commit"} /\ IsKind(Next1, "query") => PredictionExists(Next1)

LEMMA ExistsMeans ==
    ASSUME TypeOK, TypeOK'
    PROVE  \A i \in Nat : /\ PredictionExists(i) <=> \E p \in PredictionsOf(i) : i < p
                          /\ PredictionExists(i)' <=> \E p \in PredictionsOf(i)' : i < p
<1>1. Len(log) \in Nat /\ Len(log)' \in Nat
  BY DEF TypeOK
<1>2. QED
  BY <1>1 DEF PredictionExists, PredictionsOf, Ordinals

\* What an appended entry changes.
LEMMA EntryServes ==
    ASSUME TypeOK, TypeOK', NEW e \in Entry, log' = Append(log, e)
    PROVE  /\ Len(log) \in Nat /\ Len(log)' = Len(log) + 1
           /\ \A n \in Nat : \A k : IsKind(n, k)' <=> IsKind(n, k) \/ (n = Len(log) /\ e.kind = k)
           /\ \A i \in Nat : PredictionExists(i)' <=>
                               PredictionExists(i) \/ (e = PredictionEntry(i) /\ i < Len(log))
<1>1. /\ Len(log) \in Nat /\ Len(log)' = Len(log) + 1
      /\ Ordinals' = Ordinals \cup {Len(log)} /\ Len(log) \notin Ordinals
      /\ log'[Len(log) + 1] = e
      /\ \A n \in Ordinals : At(n)' = At(n)
  BY EntryAppended
<1>2. \A n : n = Len(log) => At(n)' = e
  BY <1>1 DEF At
<1>3. \A n \in Nat : \A k : IsKind(n, k)' <=> IsKind(n, k) \/ (n = Len(log) /\ e.kind = k)
  BY <1>1, <1>2 DEF IsKind
<1>4. \A i : PredictionsOf(i)' = IF e = PredictionEntry(i)
                                 THEN PredictionsOf(i) \cup {Len(log)} ELSE PredictionsOf(i)
  BY EntryAppended
<1>5. \A i \in Nat : PredictionExists(i)' <=>
                       PredictionExists(i) \/ (e = PredictionEntry(i) /\ i < Len(log))
  BY <1>4, ExistsMeans
<1>6. QED
  BY <1>1, <1>3, <1>5

\* A batch adds no query and no prediction.
LEMMA BatchServes ==
    ASSUME TypeOK, TypeOK', BatchLands
    PROVE  /\ Len(log) \in Nat /\ Len(log)' \in Nat /\ Len(log) <= Len(log)'
           /\ \A n \in Nat : \A k : k # "reply" => (IsKind(n, k)' <=> IsKind(n, k))
           /\ \A i \in Nat : PredictionExists(i)' <=> PredictionExists(i)
<1>1. /\ Len(batch) \in Nat /\ Len(log)' = Len(log) + Len(batch) /\ Len(log) \in Nat
      /\ Ordinals' = Ordinals \cup (Len(log) .. Len(log) + Len(batch) - 1)
      /\ \A n \in Ordinals : At(n)' = At(n)
      /\ \A k \in 1 .. Len(batch) : log'[Len(log) + k] = ReplyEntry(batch[k])
      /\ \A i : PredictionsOf(i)' = PredictionsOf(i)
  BY BatchAppended DEF TypeOK
<1>2. ASSUME NEW n \in Ordinals' \ Ordinals PROVE At(n)'.kind = "reply"
  <2>1. n - Len(log) + 1 \in 1 .. Len(batch) /\ n + 1 = Len(log) + (n - Len(log) + 1)
    BY <1>1
  <2>2. PICK k \in 1 .. Len(batch) : n + 1 = Len(log) + k
    BY <2>1
  <2>3. At(n)' = ReplyEntry(batch[k])
    BY <1>1, <2>2 DEF At
  <2>4. QED
    BY <2>3 DEF ReplyEntry
<1>3. \A n \in Nat : \A k : k # "reply" => (IsKind(n, k)' <=> IsKind(n, k))
  BY <1>1, <1>2 DEF IsKind
<1>4. \A i \in Nat : PredictionExists(i)' <=> PredictionExists(i)
  BY <1>1, ExistsMeans
<1>5. QED
  BY <1>1, <1>3, <1>4

LEMMA SameServes ==
    ASSUME log' = log
    PROVE  /\ Len(log)' = Len(log) /\ Ordinals' = Ordinals
           /\ \A n : At(n)' = At(n)
           /\ \A n, k : IsKind(n, k)' <=> IsKind(n, k)
           /\ \A b, k : Queries(b, k)' = Queries(b, k)
           /\ \A i : PredictionExists(i)' <=> PredictionExists(i)
BY DEF Ordinals, At, IsKind, Queries, PredictionExists

\* Which steps append what, and which move what.
LEMMA LonePartition ==
    ASSUME Faults \subseteq LoneFaults, TypeOK, [Next]_vars
    PROVE  \/ Ask /\ UNCHANGED <<lpc, panelCursor, baseline, history, batch, author>>
           \/ StoreRequest \/ UNCHANGED vars
           \/ Boot \/ ReadBaseline \/ StartWalk \/ Walk \/ WalkFails \/ Fetch
           \/ Commit \/ CommitFails \/ Check \/ ChooseEngine \/ FanOut
           \/ AppendBatch /\ BatchLands /\ lpc' = "aggregate"
           \/ WriteFiles \/ Aggregate
           \/ AppendPrediction /\ PredictionLands
           \/ Label \/ Crash
BY DEF Next, Submit, AskElsewhere, Rival, AppendBatch, AppendPrediction, LoneFaults,
       cursorVars, locals, auxVars, answerAux, startAux

LEMMA PlacedStep ==
    ASSUME Faults \subseteq LoneFaults, TypeOK, TypeOK', Placed, Served, [Next]_vars
    PROVE  Placed'
<1> /\ panelCursor \in Cursor /\ baseline \in Nat /\ Len(log) \in Nat
    /\ panelCursor' \in Cursor /\ Len(log)' \in Nat /\ history \in Nat
  BY DEF TypeOK, Placed
<1> USE DEF Next1, NextOf, Cursor, Absent, Fresh
<1>1. ASSUME log' = log
      PROVE  Len(log)' = Len(log) /\ Ordinals' = Ordinals /\ \A n : At(n)' = At(n)
  BY <1>1, SameServes
<1>2. CASE Ask /\ UNCHANGED <<lpc, panelCursor, baseline, history>>
  <2>1. log' = Append(log, QueryEntry) /\ QueryEntry \in Entry
    BY <1>2, EntryTypes DEF Ask
  <2>2. Len(log)' = Len(log) + 1
    BY <2>1, EntryAppended
  <2>3. \A p \in Ordinals' : At(p)'.kind = "prediction" =>
           p \in Ordinals /\ At(p).kind = "prediction"
    <3>1. /\ Ordinals' = Ordinals \cup {Len(log)}
          /\ log'[Len(log) + 1] = QueryEntry
          /\ \A n \in Ordinals : At(n)' = At(n)
      BY <2>1, EntryAppended
    <3>2. \A p : p = Len(log) => At(p)' = QueryEntry
      BY <3>1 DEF At
    <3>3. QED
      BY <3>1, <3>2 DEF QueryEntry
  <2>4. QED
    BY <1>2, <2>2, <2>3 DEF Placed, PastStart
<1>3. CASE StoreRequest \/ UNCHANGED vars
  BY <1>1, <1>3 DEF StoreRequest, vars, cursorVars, auxVars, startAux, Placed, PastStart
<1>4. CASE Boot
  BY <1>1, <1>4 DEF Boot, Created, auxVars, startAux, Placed, PastStart
<1>5. CASE ReadBaseline
  <2>1. \A p \in Ordinals : p < Len(log)
    BY DEF Ordinals
  <2>2. QED
    BY <1>1, <1>5, <2>1 DEF ReadBaseline, Placed, PastStart
<1>6. CASE StartWalk
  BY <1>1, <1>6 DEF StartWalk, FastForwardNeeded, Created, auxVars, startAux, Placed, PastStart
<1>7. CASE Walk
  BY <1>1, <1>7 DEF Walk, Moved, auxVars, startAux, Placed, PastStart
<1>8. CASE WalkFails
  BY <1>1, <1>8 DEF WalkFails, cursorVars, Placed, PastStart
<1>9. CASE Fetch
  BY <1>1, <1>9 DEF Fetch, FastForwardNeeded, Created, auxVars, startAux, Placed, PastStart
<1>10. CASE Commit
  <2>1. Next1 < Len(log)
    BY <1>10 DEF Commit, Served, Ordinals
  <2>2. QED
    BY <1>1, <1>10, <2>1 DEF Commit, Moved, auxVars, startAux, Placed, PastStart
<1>11. CASE CommitFails \/ Check \/ ChooseEngine \/ FanOut \/ WriteFiles \/ Aggregate \/ Label
  <2>1. /\ UNCHANGED <<log, panelCursor, baseline, history>>
        /\ PastStart /\ lpc \notin {"step", "walk"}
        /\ lpc' \notin {"boot", "len", "walk"}
    BY <1>11
    DEF CommitFails, Check, ChooseEngine, FanOut, WriteFiles, Aggregate, Label, cursorVars,
        auxVars, startAux, PastStart
  <2>2. QED
    BY <1>1, <2>1 DEF Placed, PastStart
<1>12. CASE AppendBatch /\ BatchLands
  <2>1. Len(log) <= Len(log)' /\ UNCHANGED <<panelCursor, baseline, history>>
        /\ PastStart /\ lpc \notin {"step", "walk"} /\ lpc' \notin {"boot", "len", "walk"}
    BY <1>12, BatchServes DEF AppendBatch, cursorVars, startAux, PastStart
  <2>2. QED
    BY <2>1 DEF Placed, PastStart
<1>13. CASE AppendPrediction /\ PredictionLands
  <2>1. UNCHANGED <<panelCursor, baseline, history>>
        /\ PastStart /\ lpc \notin {"step", "walk"} /\ lpc' \notin {"boot", "len", "walk"}
    BY <1>13 DEF AppendPrediction, cursorVars, startAux, PastStart
  <2>2. Len(log)' = Len(log) + 1
    BY <1>13, EntryTypes, EntryServes DEF PredictionLands
  <2>3. QED
    BY <2>1, <2>2 DEF Placed, PastStart
<1>14. CASE Crash
  BY <1>1, <1>14 DEF Crash, Stopped, cursorVars, Placed, PastStart
<1>15. QED
  BY <1>2, <1>3, <1>4, <1>5, <1>6, <1>7, <1>8, <1>9, <1>10, <1>11, <1>12, <1>13, <1>14,
     LonePartition

LEMMA ServedStep ==
    ASSUME Faults \subseteq LoneFaults, TypeOK, TypeOK', Placed, Served, [Next]_vars
    PROVE  Served'
<1> Next1 \in Nat
  BY CursorTypes DEF TypeOK
<1>1. ASSUME log' = log
      PROVE  /\ Ordinals' = Ordinals
             /\ \A n, k : IsKind(n, k)' <=> IsKind(n, k)
             /\ \A i : PredictionExists(i)' <=> PredictionExists(i)
  BY <1>1, SameServes
<1>2. ASSUME panelCursor' = panelCursor PROVE Next1' = Next1
  BY <1>2 DEF Next1
<1>3. CASE Ask /\ UNCHANGED <<lpc, panelCursor, batch>>
  <2>1. log' = Append(log, QueryEntry) /\ QueryEntry \in Entry
    BY <1>3, EntryTypes DEF Ask
  <2>2. Ordinals \subseteq Ordinals'
    BY <2>1, EntryAppended
  <2>3. \A n \in Nat : /\ n \in Ordinals => (IsKind(n, "query")' <=> IsKind(n, "query"))
                       /\ PredictionExists(n)' <=> PredictionExists(n)
    BY <2>1, EntryServes DEF QueryEntry, PredictionEntry, Ordinals
  <2>4. /\ Next1 \in Ordinals => (IsKind(Next1, "query")' <=> IsKind(Next1, "query"))
        /\ PredictionExists(Next1)' <=> PredictionExists(Next1)
    BY <1>2, <1>3, <2>3
  <2>5. QED
    BY <1>2, <1>3, <2>2, <2>4 DEF Served, Answering, Unpredicted
<1>4. CASE StoreRequest \/ UNCHANGED vars
  BY <1>1, <1>2, <1>4 DEF StoreRequest, vars, cursorVars, Served, Answering, Unpredicted
<1>5. CASE Boot \/ ReadBaseline \/ StartWalk \/ Walk \/ WalkFails \/ Commit \/ CommitFails \/ Crash
  <2>1. lpc' \in {"boot", "len", "step", "walk"}
    BY <1>5 DEF Boot, ReadBaseline, StartWalk, Walk, WalkFails, Commit, CommitFails, Crash, Stopped
  <2>2. QED
    BY <2>1 DEF Served, Answering, Unpredicted
<1>6. CASE Fetch
  <2>1. Next1' = Next1
    BY <1>6 DEF Fetch, Next1, NextOf, Created, Absent, Fresh
  <2>2. QED
    BY <1>1, <1>6, <2>1 DEF Fetch, Served, Answering, Unpredicted, IsKind
<1>7. CASE Check
  BY <1>1, <1>2, <1>7 DEF Check, LoneFaults, cursorVars, Served, Answering, Unpredicted
<1>8. CASE FanOut
  <2>1. lpc' = "batch"
    <3>1. "panel" \notin Faults /\ ReplyCounts = {Len(Panel)} /\ Len(Panel) # 0
      BY ListenerAssumption DEF ReplyCounts, LoneFaults
    <3>2. QED
      BY <1>8, <3>1 DEF FanOut
  <2>2. QED
    BY <1>1, <1>2, <1>8, <2>1 DEF FanOut, cursorVars, Served, Answering, Unpredicted
<1>9. CASE ChooseEngine \/ WriteFiles \/ Aggregate
  <2>1. lpc \in {"engine", "aggregate", "script"} /\ lpc' \in {"fanout", "script", "predict"}
        /\ UNCHANGED <<log, panelCursor>>
    BY <1>9 DEF ChooseEngine, WriteFiles, Aggregate, LoneFaults, cursorVars
  <2>2. QED
    BY <1>1, <1>2, <2>1 DEF Served, Answering, Unpredicted
<1>10. CASE AppendBatch /\ BatchLands /\ lpc' = "aggregate"
  <2>1. lpc = "batch" /\ lpc' = "aggregate" /\ panelCursor' = panelCursor
    BY <1>10 DEF AppendBatch, cursorVars
  <2>2. Ordinals \subseteq Ordinals'
    BY <1>10, BatchAppended
  <2>3. /\ IsKind(Next1, "query")' <=> IsKind(Next1, "query")
        /\ PredictionExists(Next1)' <=> PredictionExists(Next1)
    BY <1>2, <1>10, <2>1, BatchServes
  <2>4. QED
    BY <1>2, <2>1, <2>2, <2>3 DEF Served, Answering, Unpredicted
<1>11. CASE AppendPrediction /\ PredictionLands
  <2>1. lpc = "predict" /\ lpc' \in {"label", "commit"} /\ panelCursor' = panelCursor
    BY <1>11 DEF AppendPrediction, cursorVars
  <2>2. log' = Append(log, PredictionEntry(Next1)) /\ PredictionEntry(Next1) \in Entry
    BY <1>11, EntryTypes DEF PredictionLands
  <2>3. Next1 \in Ordinals /\ IsKind(Next1, "query") /\ Next1 < Len(log)
    BY <2>1 DEF Served, Answering, Ordinals
  <2>4. Ordinals \subseteq Ordinals' /\ IsKind(Next1, "query")' /\ PredictionExists(Next1)'
    BY <1>2, <2>1, <2>2, <2>3, EntryAppended, EntryServes
  <2>5. QED
    BY <1>2, <2>1, <2>3, <2>4 DEF Served, Answering, Unpredicted
<1>12. CASE Label
  BY <1>1, <1>2, <1>12 DEF Label, cursorVars, Served, Answering, Unpredicted
<1>13. QED
  BY <1>3, <1>4, <1>5, <1>6, <1>7, <1>8, <1>9, <1>10, <1>11, <1>12, LonePartition

-----------------------------------------------------------------------------
(* That listener implements Service. *)

IsTurn(q) == q \in Asked \ Passed /\ \A earlier \in Asked \ Passed : q <= earlier

\* The steps of Service, in terms of the queue.
LEMMA StutterMeans ==
    ASSUME Asked' = Asked, Answered' = Answered, Passed' = Passed
    PROVE  UNCHANGED S!svars
BY DEF S!svars

LEMMA AskMeans ==
    ASSUME Asked \subseteq Asked', \A q \in Asked, new \in Asked' \ Asked : q < new,
           Answered' = Answered, Passed' = Passed
    PROVE  S!Next
<1>1. S!Ask
  BY Zenon DEF S!Ask
<1>2. QED
  BY <1>1 DEF S!Next

LEMMA AnswerMeans ==
    ASSUME NEW q \in Asked \ Answered, IsTurn(q),
           Answered' = Answered \cup {q}, Asked' = Asked, Passed' = Passed
    PROVE  S!Next
BY DEF S!Next, S!Answer, S!IsTurnOf, IsTurn

LEMMA PassMeans ==
    ASSUME NEW q \in Answered, IsTurn(q),
           Passed' = Passed \cup {q}, Asked' = Asked, Answered' = Answered
    PROVE  S!Next
BY DEF S!Next, S!Pass, S!IsTurnOf, IsTurn

LEMMA NextTypes ==
    /\ panelCursor \in Cursor => Next1 \in Nat
    /\ panelCursor' \in Cursor => Next1' \in Nat
<1>1. panelCursor \in Cursor => Next1 \in Nat
  BY DEF Cursor, Next1, NextOf, Absent, Fresh
<1>2. panelCursor' \in Cursor => Next1' \in Nat
  <2>1. \A c \in Cursor : NextOf(c) \in Nat
    BY DEF Cursor, NextOf, Absent, Fresh
  <2>2. PICK c : c = panelCursor'
    OBVIOUS
  <2>3. Next1' = NextOf(c)
    BY <2>2 DEF Next1, NextOf
  <2>4. QED
    BY <2>1, <2>2, <2>3
<1>3. QED
  BY <1>1, <1>2

\* What a listener with a position shows, query by query.
LEMMA TakenUpWith ==
    ASSUME TypeOK, TypeOK', history \in Nat, history' \in Nat
    PROVE  /\ panelCursor >= 0 => \A q :
                /\ q \in Asked <=> q \in Nat /\ q >= history /\ IsKind(q, "query")
                /\ q \in Answered <=> q \in Asked /\ PredictionExists(q)
                /\ q \in Passed <=> q \in Asked /\ q < Next1
           /\ panelCursor' >= 0 => \A q :
                /\ q \in Asked' <=> q \in Nat /\ q >= history' /\ IsKind(q, "query")'
                /\ q \in Answered' <=> q \in Asked' /\ PredictionExists(q)'
                /\ q \in Passed' <=> q \in Asked' /\ q < Next1'
<1>1. /\ Len(log) \in Nat /\ Len(log)' \in Nat
      /\ panelCursor \in Cursor /\ panelCursor' \in Cursor
  BY DEF TypeOK
<1> Next1 \in Nat /\ Next1' \in Nat
  BY <1>1, NextTypes
<1>2. ASSUME panelCursor >= 0, NEW q
      PROVE  /\ q \in Asked <=> q \in Nat /\ q >= history /\ IsKind(q, "query")
             /\ q \in Answered <=> q \in Asked /\ PredictionExists(q)
             /\ q \in Passed <=> q \in Asked /\ q < Next1
  BY <1>1, <1>2
  DEF Asked, Answered, Passed, TakenUp, Queries, IsKind, Ordinals, Cursor, Absent, Fresh
<1>3. ASSUME panelCursor' >= 0, NEW q
      PROVE  /\ q \in Asked' <=> q \in Nat /\ q >= history' /\ IsKind(q, "query")'
             /\ q \in Answered' <=> q \in Asked' /\ PredictionExists(q)'
             /\ q \in Passed' <=> q \in Asked' /\ q < Next1'
  BY <1>1, <1>3
  DEF Asked, Answered, Passed, TakenUp, Queries, IsKind, Ordinals, Cursor, Absent, Fresh
<1>4. QED
  BY <1>2, <1>3

Shown(q) ==
    /\ q \in Asked <=> q \in Nat /\ q >= history /\ IsKind(q, "query")
    /\ q \in Answered <=> q \in Asked /\ PredictionExists(q)
    /\ q \in Passed <=> q \in Asked /\ q < Next1

LEMMA Showing ==
    ASSUME TypeOK, TypeOK', history \in Nat, history' \in Nat, NEW q
    PROVE  /\ panelCursor >= 0 => Shown(q)
           /\ panelCursor' >= 0 => Shown(q)'
BY TakenUpWith DEF Shown

\* The next entry is the one whose turn it is.
LEMMA NextIsTurn ==
    ASSUME TypeOK, TypeOK', history \in Nat, history' \in Nat,
           panelCursor >= 0, IsKind(Next1, "query"), Next1 >= history
    PROVE  Next1 \in Asked /\ IsTurn(Next1)
<1>1. Next1 \in Nat
  BY CursorTypes DEF TypeOK
<1>2. QED
  BY <1>1, TakenUpWith DEF IsTurn

\* Without a position it shows nothing.
LEMMA NotTakenUp ==
    /\ panelCursor < 0 => Asked = {} /\ Answered = {} /\ Passed = {}
    /\ panelCursor' < 0 => Asked' = {} /\ Answered' = {} /\ Passed' = {}
BY DEF Asked, Answered, Passed, TakenUp

\* What leaves the queries and their predictions as they were.
LEMMA SameShown ==
    ASSUME TypeOK, TypeOK', history \in Nat, history' = history,
           panelCursor >= 0, panelCursor' >= 0,
           \A n \in Nat : /\ IsKind(n, "query")' <=> IsKind(n, "query")
                          /\ PredictionExists(n)' <=> PredictionExists(n)
    PROVE  Asked' = Asked /\ Answered' = Answered /\ (Next1' = Next1 => Passed' = Passed)
<1>1. \A q : /\ q \in Asked' <=> q \in Asked
             /\ q \in Answered' <=> q \in Answered
             /\ Next1' = Next1 => (q \in Passed' <=> q \in Passed)
  BY TakenUpWith
<1>2. QED
  <2>1. Asked' = Asked
    BY <1>1 DEF Asked, TakenUp, Queries
  <2>2. Answered' = Answered
    BY <1>1 DEF Answered, TakenUp, Queries
  <2>3. Next1' = Next1 => Passed' = Passed
    BY <1>1 DEF Passed, TakenUp, Queries
  <2>4. QED
    BY <2>1, <2>2, <2>3

LEMMA ServiceStep ==
    ASSUME Faults \subseteq LoneFaults, TypeOK, TypeOK', Placed, Placed', Served, [Next]_vars
    PROVE  [S!Next]_(S!svars)
<1>0. /\ baseline \in Nat /\ Len(log) \in Nat /\ history \in Nat /\ Len(log)' \in Nat
      /\ panelCursor \in Cursor /\ panelCursor' \in Cursor
      /\ Next1 <= Len(log) /\ history <= Len(log)
  BY DEF TypeOK, Placed
<1> history \in Nat /\ history' \in Nat
  BY DEF TypeOK, Placed
<1> /\ Next1 \in Nat /\ Next1' \in Nat
    /\ panelCursor < 0 \/ panelCursor >= 0
    /\ panelCursor' < 0 \/ panelCursor' >= 0
  BY <1>0, NextTypes DEF Cursor, Absent, Fresh
<1>1. CASE panelCursor < 0 /\ panelCursor' < 0
  BY <1>1, NotTakenUp, StutterMeans
<1>2. CASE panelCursor >= 0 /\ UNCHANGED <<log, panelCursor, history>>
  <2>1. Next1' = Next1
    BY <1>2 DEF Next1
  <2>2. QED
    BY <1>0, <1>2, <2>1, SameServes, SameShown, StutterMeans
<1>3. CASE panelCursor >= 0 /\ Ask /\ UNCHANGED <<panelCursor, history>>
  <2>1. log' = Append(log, QueryEntry) /\ QueryEntry \in Entry
    BY <1>3, EntryTypes DEF Ask
  <2>2. \A n \in Nat : /\ IsKind(n, "query")' <=> IsKind(n, "query") \/ n = Len(log)
                       /\ PredictionExists(n)' <=> PredictionExists(n)
    BY <2>1, EntryServes DEF QueryEntry, PredictionEntry
  <2>3. /\ ~PredictionExists(Len(log)) /\ Next1' = Next1
        /\ \A n : IsKind(n, "query") => n < Len(log)
    BY <1>0, <1>3 DEF PredictionExists, Next1, IsKind, Ordinals
  <2>4. \A q : /\ q \in Asked' <=> q \in Asked \/ q = Len(log)
               /\ q \in Answered' <=> q \in Answered
               /\ q \in Passed' <=> q \in Passed
    <3> SUFFICES ASSUME NEW q PROVE /\ q \in Asked' <=> q \in Asked \/ q = Len(log)
                                    /\ q \in Answered' <=> q \in Answered
                                    /\ q \in Passed' <=> q \in Passed
      OBVIOUS
    <3>1. Shown(q) /\ Shown(q)'
      BY <1>3, Showing
    <3>2. q \in Nat => IsKind(q, "query")' <=> IsKind(q, "query") \/ q = Len(log)
      BY <2>2
    <3>3. q \in Nat => PredictionExists(q)' <=> PredictionExists(q)
      BY <2>2
    <3>4. QED
      BY <1>0, <1>3, <2>3, <3>1, <3>2, <3>3 DEF Shown
  <2>5. \A q \in Asked : q < Len(log)
    BY <1>0, <1>3, <2>3, TakenUpWith
  <2>6. Answered' = Answered /\ Passed' = Passed
    BY <2>4 DEF Answered, Passed, TakenUp, Queries
  <2>7. QED
    BY <2>4, <2>5, <2>6, AskMeans
<1>4. CASE \/ StoreRequest \/ UNCHANGED vars \/ WalkFails \/ CommitFails \/ Check \/ ChooseEngine
           \/ FanOut \/ WriteFiles \/ Aggregate \/ Label \/ Crash
  <2>1. UNCHANGED <<log, panelCursor, history>>
    BY <1>4
    DEF StoreRequest, vars, WalkFails, CommitFails, Check, ChooseEngine, FanOut, WriteFiles,
        Aggregate, Label, Crash, cursorVars, auxVars, startAux
  <2>2. QED
    BY <1>1, <1>2, <2>1
<1>5. CASE Boot \/ ReadBaseline \/ StartWalk \/ Fetch
  <2>1. log' = log /\ (panelCursor' = panelCursor \/ panelCursor' = Created(panelCursor))
    BY <1>5 DEF Boot, ReadBaseline, StartWalk, Fetch
  <2>2. panelCursor >= 0 => history' = history
    BY <1>0, <1>5 DEF Boot, ReadBaseline, StartWalk, Fetch, auxVars, startAux, Cursor, Absent, Fresh
  <2>3. QED
    BY <1>0, <1>1, <1>2, <2>1, <2>2 DEF Created, Cursor, Absent, Fresh
<1>6. CASE Walk
  <2>1. /\ log' = log /\ history' = history /\ panelCursor' = Moved(panelCursor)
        /\ history = baseline /\ panelCursor < baseline - 1
    BY <1>6 DEF Walk, auxVars, startAux, Placed
  <2>2. CASE panelCursor >= 0
    <3>1. Next1' = Next1 + 1 /\ Next1' <= history /\ panelCursor' >= 0
      BY <1>0, <2>1, <2>2 DEF Next1, NextOf, Moved, Cursor, Absent, Fresh
    <3>2. Asked' = Asked /\ Answered' = Answered
      BY <1>0, <2>1, <2>2, <3>1, SameServes, SameShown
    <3>3. \A q : q \in Passed' <=> q \in Passed
      <4> SUFFICES ASSUME NEW q PROVE q \in Passed' <=> q \in Passed
        OBVIOUS
      <4>1. Shown(q) /\ Shown(q)'
        BY <2>2, <3>1, Showing
      <4>2. QED
        BY <1>0, <2>1, <3>1, <3>2, <4>1 DEF Shown
    <3>4. QED
      BY <3>2, <3>3, StutterMeans DEF Passed, TakenUp, Queries
  <2>3. CASE panelCursor < 0 /\ panelCursor' >= 0
    <3>1. Next1' = 1 /\ history >= 1
      BY <1>0, <1>6, <2>1, <2>3
      DEF Next1, NextOf, Moved, Cursor, Absent, Fresh, Placed, PastStart, Walk
    <3>2. ASSUME NEW q \in Nat, q >= history PROVE ~PredictionExists(q)
      <4>1. \A p \in Ordinals : At(p).kind = "prediction" => p < history
        BY <1>6, <2>1, <2>3 DEF Walk, Placed, PastStart
      <4>2. QED
        BY <1>0, <3>2, <4>1 DEF PredictionExists, Ordinals, PredictionEntry
    <3>3. \A q : q \notin Answered' /\ q \notin Passed'
      BY <1>0, <2>1, <2>3, <3>1, <3>2, SameServes, TakenUpWith
    <3>4. Answered' = Answered /\ Passed' = Passed /\ Asked = {}
      BY <2>3, <3>3, NotTakenUp DEF Answered, Passed, TakenUp, Queries
    <3>5. QED
      BY <3>4, AskMeans
  <2>4. QED
    BY <1>0, <1>1, <2>2, <2>3 DEF Cursor, Absent, Fresh
<1>7. CASE Commit
  <2>1. /\ panelCursor >= 0 /\ log' = log /\ history' = history
        /\ panelCursor' = Moved(panelCursor) /\ lpc = "commit"
    BY <1>7 DEF Commit, Placed, auxVars, startAux
  <2>2. Next1' = Next1 + 1 /\ panelCursor' >= 0
    BY <1>0, <2>1 DEF Next1, NextOf, Moved, Cursor, Absent, Fresh
  <2>3. Asked' = Asked /\ Answered' = Answered
    BY <1>0, <2>1, <2>2, SameServes, SameShown
  <2>4. \A q : q \in Passed' <=> \/ q \in Passed
                                 \/ q = Next1 /\ IsKind(Next1, "query") /\ Next1 >= history
    <3> SUFFICES ASSUME NEW q
                 PROVE  q \in Passed' <=> \/ q \in Passed
                                          \/ q = Next1 /\ IsKind(Next1, "query") /\ Next1 >= history
      OBVIOUS
    <3>1. Shown(q) /\ Shown(q)'
      BY <2>1, <2>2, Showing
    <3>2. CASE q \in Nat
      BY <1>0, <2>2, <2>3, <3>1, <3>2 DEF Shown
    <3>3. CASE q \notin Nat
      BY <2>3, <3>1, <3>3 DEF Shown
    <3>4. QED
      BY <3>2, <3>3
  <2>5. CASE IsKind(Next1, "query") /\ Next1 >= history
    <3>1. Next1 \in Asked /\ IsTurn(Next1)
      BY <1>0, <2>1, <2>5, NextIsTurn
    <3>2. Next1 \in Answered
      BY <1>0, <2>1, <2>5, <3>1, TakenUpWith DEF Served
    <3>3. Passed' = Passed \cup {Next1}
      BY <2>4, <2>5 DEF Passed, TakenUp, Queries
    <3>4. QED
      BY <2>3, <3>1, <3>2, <3>3, PassMeans
  <2>6. CASE ~(IsKind(Next1, "query") /\ Next1 >= history)
    <3>1. Passed' = Passed
      BY <2>4, <2>6 DEF Passed, TakenUp, Queries
    <3>2. QED
      BY <2>3, <3>1, StutterMeans
  <2>7. QED
    BY <2>5, <2>6
<1>8. CASE AppendBatch /\ BatchLands
  <2>1. /\ panelCursor >= 0 /\ panelCursor' = panelCursor /\ history' = history
        /\ Next1' = Next1
    BY <1>8 DEF AppendBatch, Placed, cursorVars, startAux, Next1
  <2>2. \A n \in Nat : /\ IsKind(n, "query")' <=> IsKind(n, "query")
                       /\ PredictionExists(n)' <=> PredictionExists(n)
    BY <1>8, BatchServes
  <2>3. QED
    BY <2>1, <2>2, SameShown, StutterMeans
<1>9. CASE AppendPrediction /\ PredictionLands
  <2>1. /\ panelCursor >= 0 /\ panelCursor' = panelCursor /\ history' = history
        /\ lpc = "predict" /\ Next1' = Next1
    BY <1>9 DEF AppendPrediction, Placed, cursorVars, startAux, Next1
  <2>2. IsKind(Next1, "query") /\ ~PredictionExists(Next1) /\ Next1 < Len(log)
    BY <1>0, <2>1 DEF Served, Answering, Unpredicted, IsKind, Ordinals
  <2>3. log' = Append(log, PredictionEntry(Next1)) /\ PredictionEntry(Next1) \in Entry
    <3>1. PredictionEntry(Next1) \in Entry
      BY EntryTypes
    <3>2. QED
      BY <1>9, <3>1 DEF PredictionLands
  <2>4. \A n \in Nat : /\ IsKind(n, "query")' <=> IsKind(n, "query")
                       /\ PredictionExists(n)' <=> PredictionExists(n) \/ n = Next1
    BY <2>2, <2>3, EntryServes DEF PredictionEntry
  <2>5. \A q : /\ q \in Asked' <=> q \in Asked
               /\ q \in Answered' <=> q \in Answered \/ (q = Next1 /\ Next1 >= history)
               /\ q \in Passed' <=> q \in Passed
    <3> SUFFICES ASSUME NEW q
                 PROVE  /\ q \in Asked' <=> q \in Asked
                        /\ q \in Answered' <=> q \in Answered \/ (q = Next1 /\ Next1 >= history)
                        /\ q \in Passed' <=> q \in Passed
      OBVIOUS
    <3>1. Shown(q) /\ Shown(q)'
      BY <2>1, Showing
    <3>2. q \in Nat => IsKind(q, "query")' <=> IsKind(q, "query")
      BY <2>4
    <3>3. q \in Nat => PredictionExists(q)' <=> PredictionExists(q) \/ q = Next1
      BY <2>4
    <3>4. QED
      BY <2>1, <2>2, <3>1, <3>2, <3>3 DEF Shown
  <2>6. Asked' = Asked /\ Passed' = Passed
    BY <2>5 DEF Asked, Passed, TakenUp, Queries
  <2>7. CASE Next1 >= history
    <3>1. Next1 \in Asked /\ IsTurn(Next1)
      BY <1>0, <2>1, <2>2, <2>7, NextIsTurn
    <3>2. Next1 \notin Answered
      BY <1>0, <2>1, <2>2, TakenUpWith
    <3>3. Answered' = Answered \cup {Next1}
      BY <2>5, <2>7 DEF Answered, TakenUp, Queries
    <3>4. QED
      BY <2>6, <3>1, <3>2, <3>3, AnswerMeans
  <2>8. CASE ~(Next1 >= history)
    <3>1. Answered' = Answered
      BY <2>5, <2>8 DEF Answered, TakenUp, Queries
    <3>2. QED
      BY <2>6, <3>1, StutterMeans
  <2>9. QED
    BY <2>7, <2>8
<1>10. QED
  <2>1. CASE Ask /\ UNCHANGED <<panelCursor, history>>
    BY <1>0, <1>1, <1>3, <2>1
  <2>2. QED
    BY <1>4, <1>5, <1>6, <1>7, <1>8, <1>9, <2>1, LonePartition

LEMMA ServiceInit ==
    ASSUME log \in Seq(Entry), log # <<>>, InitWith(log, Absent)
    PROVE  TypeOK /\ Placed /\ Served /\ S!Init
<1>1. TypeOK
  BY DEF InitWith, TypeOK, EmptyMeta, Empty, Cursor, LocalStates
<1>2. Len(log) \in Nat /\ Len(log) > 0 /\ Next1 = 0
  BY DEF InitWith, Next1, NextOf, Absent
<1>3. Placed /\ Served
  BY <1>2 DEF InitWith, Placed, PastStart, Served, Answering, Unpredicted
<1>4. Asked = {} /\ Answered = {} /\ Passed = {}
  BY NotTakenUp DEF InitWith, Absent
<1>5. QED
  BY <1>1, <1>3, <1>4 DEF S!Init

\* A fresh listener that meets a queue with entries on it, and answers alone,
\* is the service: each query asked after the start is answered once and in its
\* turn and none is passed over, whatever crashes, failed moves of the cursor
\* and lost answers there are.
THEOREM ServiceOnBacklog ==
    ASSUME NEW entries \in Seq(Entry), entries # <<>>, Faults \subseteq LoneFaults
    PROVE  InitWith(entries, Absent) /\ [][Next]_vars => ServiceRefined
<1>1. InitWith(entries, Absent) => TypeOK /\ Placed /\ Served /\ S!Init
  BY ServiceInit DEF InitWith
<1>2. TypeOK /\ Placed /\ Served /\ [Next]_vars => TypeOK' /\ Placed' /\ Served'
  BY TypeStep, PlacedStep, ServedStep
<1>3. TypeOK /\ TypeOK' /\ Placed /\ Placed' /\ Served /\ [Next]_vars => [S!Next]_(S!svars)
  BY ServiceStep
<1>4. QED
  BY <1>1, <1>2, <1>3, PTL DEF ServiceRefined, S!Spec

-----------------------------------------------------------------------------
(* What it says, and in which order, on a queue nobody answered before. *)

Of(kind) == {n \in Ordinals : At(n).kind = kind}

\* The replies to a query lie before its prediction and behind that of the one
\* before; n is the entry the listener stands at.
Turned(n) ==
    /\ DOMAIN author = Of("reply")
    /\ \A r \in DOMAIN author :
         /\ author[r] \in 0 .. r-1
         /\ IsKind(author[r], "query")
         /\ author[r] <= n
         /\ author[r] < n => PredictionExists(author[r])
    /\ \A r \in DOMAIN author, p \in Of("prediction") :
         /\ p < r => At(p).tag < author[r]
         /\ r < p => author[r] <= At(p).tag
    /\ \A p \in Of("prediction") :
         /\ At(p).tag \in 0 .. p-1
         /\ At(p).tag <= n
         /\ IsKind(At(p).tag, "query")
         /\ \E r \in DOMAIN author : author[r] = At(p).tag /\ r < p
    /\ \A p, s \in Of("prediction") : p < s => At(p).tag < At(s).tag

TurnInv ==
    /\ Turned(Next1)
    /\ panelCursor < 0 \/ lpc = "walk" => Of("reply") = {} /\ Of("prediction") = {}
    /\ lpc = "batch" => batch # <<>>
    /\ lpc \in {"aggregate", "script", "predict"} => \E r \in DOMAIN author : author[r] = Next1

LEMMA TurnedSame ==
    ASSUME log' = log, author' = author
    PROVE  /\ \A kind : Of(kind)' = Of(kind)
           /\ \A n : Turned(n)' <=> Turned(n)
<1>1. \A kind : Of(kind)' = Of(kind)
  BY SameServes DEF Of
<1>2. \A n : Turned(n)' <=> Turned(n)
  BY <1>1, SameServes DEF Turned
<1>3. QED
  BY <1>1, <1>2

LEMMA TurnedNext ==
    ASSUME NEW n \in Nat, Turned(n), IsKind(n, "query") => PredictionExists(n)
    PROVE  Turned(n + 1)
<1>1. ASSUME NEW r \in DOMAIN author
      PROVE  author[r] <= n + 1 /\ (author[r] < n + 1 => PredictionExists(author[r]))
  <2>1. author[r] \in Int /\ author[r] <= n /\ IsKind(author[r], "query")
        /\ (author[r] < n => PredictionExists(author[r]))
    BY DEF Turned, Of, Ordinals
  <2>2. CASE author[r] < n
    BY <2>1, <2>2
  <2>3. CASE author[r] = n
    BY <2>1, <2>3
  <2>4. QED
    BY <2>1, <2>2, <2>3
<1>2. ASSUME NEW p \in Of("prediction") PROVE At(p).tag <= n + 1
  BY DEF Turned
<1>3. QED
  BY <1>1, <1>2 DEF Turned

\* The entries of a kind, one entry more.
LEMMA OfAppended ==
    ASSUME TypeOK, TypeOK', NEW e \in Entry, log' = Append(log, e)
    PROVE  /\ Len(log) \in Nat /\ Len(log) \notin Ordinals
           /\ \A kind : Of(kind)' = IF e.kind = kind THEN Of(kind) \cup {Len(log)} ELSE Of(kind)
           /\ \A n \in Ordinals : At(n)' = At(n)
           /\ \A n : n = Len(log) => At(n)' = e
           /\ \A n, kind : IsKind(n, kind) => IsKind(n, kind)'
           /\ \A i \in Nat : PredictionExists(i) => PredictionExists(i)'
<1>1. /\ Len(log) \in Nat /\ Len(log)' = Len(log) + 1
      /\ Ordinals' = Ordinals \cup {Len(log)} /\ Len(log) \notin Ordinals
      /\ log'[Len(log) + 1] = e
      /\ \A n \in Ordinals : At(n)' = At(n)
  BY EntryAppended
<1>2. \A n : n = Len(log) => At(n)' = e
  BY <1>1 DEF At
<1>3. \A kind : Of(kind)' = IF e.kind = kind THEN Of(kind) \cup {Len(log)} ELSE Of(kind)
  BY <1>1, <1>2 DEF Of
<1>4. \A n, kind : IsKind(n, kind) => IsKind(n, kind)'
  BY <1>1 DEF IsKind
<1>5. \A i \in Nat : PredictionExists(i) => PredictionExists(i)'
  BY EntryServes
<1>6. QED
  BY <1>1, <1>2, <1>3, <1>4, <1>5

LEMMA TurnedQuery ==
    ASSUME TypeOK, TypeOK', NEW n \in Nat, Turned(n),
           log' = Append(log, QueryEntry), author' = author
    PROVE  Turned(n)' /\ Of("reply")' = Of("reply") /\ Of("prediction")' = Of("prediction")
<1>1. QueryEntry \in Entry
  BY EntryTypes
<1>2. Of("reply")' = Of("reply") /\ Of("prediction")' = Of("prediction")
  BY <1>1, OfAppended DEF QueryEntry
<1>3. \A k \in Of("prediction") : At(k)' = At(k)
  BY <1>1, OfAppended DEF Of
<1>4. ASSUME NEW r \in DOMAIN author
      PROVE  IsKind(author[r], "query")' /\ (author[r] < n => PredictionExists(author[r])')
  <2>1. author[r] \in Nat /\ IsKind(author[r], "query") /\ (author[r] < n => PredictionExists(author[r]))
    BY DEF Turned
  <2>2. PICK i \in Nat : i = author[r]
    BY <2>1
  <2>3. IsKind(i, "query")' /\ (i < n => PredictionExists(i)')
    BY <1>1, <2>1, <2>2, OfAppended
  <2>4. QED
    BY <2>2, <2>3 DEF IsKind, PredictionExists
<1>5. ASSUME NEW p \in Of("prediction") PROVE IsKind(At(p).tag, "query")'
  <2>1. PICK i : i = At(p).tag
    OBVIOUS
  <2>2. IsKind(i, "query")' /\ At(p)'.tag = i
    BY <1>1, <1>3, <2>1, OfAppended DEF Turned
  <2>3. QED
    BY <1>3, <2>1, <2>2 DEF IsKind
<1>6. QED
  BY <1>2, <1>3, <1>4, <1>5 DEF Turned

LEMMA TurnedPrediction ==
    ASSUME TypeOK, TypeOK', NEW n \in Nat, Turned(n), IsKind(n, "query"), ~PredictionExists(n),
           \E r \in DOMAIN author : author[r] = n,
           log' = Append(log, PredictionEntry(n)), author' = author
    PROVE  Turned(n)'
<1> DEFINE e == PredictionEntry(n)
<1>1. e \in Entry /\ e.kind = "prediction" /\ e.tag = n /\ n < Len(log)
  BY EntryTypes DEF PredictionEntry, IsKind, Ordinals
<1> HIDE DEF e
<1>2. /\ Len(log) \in Nat /\ Len(log) \notin Ordinals
      /\ Of("reply")' = Of("reply") /\ Of("prediction")' = Of("prediction") \cup {Len(log)}
      /\ \A k \in Of("prediction") : At(k)' = At(k)
      /\ \A k : k = Len(log) => At(k)' = e
      /\ \A i, kind : IsKind(i, kind) => IsKind(i, kind)'
      /\ \A i \in Nat : PredictionExists(i) => PredictionExists(i)'
  <2>1. log' = Append(log, e)
    BY DEF e
  <2>2. QED
    BY <1>1, <2>1, OfAppended DEF Of
<1>3. \A k \in Of("prediction") \cup Of("reply") : k \in Nat /\ k < Len(log)
  BY <1>2 DEF Of, Ordinals
<1>4. ASSUME NEW r \in DOMAIN author
      PROVE  /\ IsKind(author[r], "query")' /\ (author[r] < n => PredictionExists(author[r])')
             /\ author[r] \in Nat /\ author[r] <= n /\ r < Len(log) /\ r \in Nat
  <2>1. author[r] \in Nat /\ IsKind(author[r], "query") /\ (author[r] < n => PredictionExists(author[r]))
        /\ author[r] <= n /\ r \in Of("reply")
    BY DEF Turned
  <2>2. PICK i \in Nat : i = author[r]
    BY <2>1
  <2>3. IsKind(i, "query")' /\ (i < n => PredictionExists(i)')
    BY <1>2, <2>1, <2>2
  <2>4. QED
    BY <1>3, <2>1, <2>2, <2>3 DEF IsKind, PredictionExists
<1>5. ASSUME NEW p \in Of("prediction")
      PROVE  IsKind(At(p).tag, "query")' /\ At(p).tag \in Nat /\ At(p).tag < n
  <2>1. PICK i : i = At(p).tag
    OBVIOUS
  <2>2. IsKind(i, "query")' /\ At(p)'.tag = i
    BY <1>2, <2>1 DEF Turned
  <2>3. IsKind(At(p).tag, "query")'
    BY <1>2, <2>1, <2>2 DEF IsKind
  <2>4. i \in 0 .. p-1 /\ i <= n /\ p \in Nat /\ p < Len(log)
    BY <1>3, <2>1 DEF Turned
  <2>5. i # n
    <3>1. SUFFICES ASSUME i = n PROVE FALSE
      OBVIOUS
    <3>2. At(p) \in Entry /\ At(p).kind = "prediction" /\ At(p).tag = n
      BY <2>1, <3>1 DEF TypeOK, Of, At, Ordinals
    <3>3. At(p) = PredictionEntry(n)
      BY <3>2 DEF Entry, PredictionEntry
    <3>4. QED
      BY <2>4, <3>1, <3>3, <1>2 DEF PredictionExists
  <2>6. QED
    BY <2>1, <2>3, <2>4, <2>5
<1>6. PICK own \in DOMAIN author : author[own] = n
  OBVIOUS
<1>7. IsKind(n, "query")'
  BY <1>2
<1>8. ASSUME NEW p \in Of("prediction")'
      PROVE  \/ p \in Of("prediction") /\ At(p)' = At(p)
             \/ p = Len(log) /\ At(p)' = e
  BY <1>2, <1>8
<1>9. \A r \in DOMAIN author :
         /\ author[r] \in 0 .. r-1
         /\ IsKind(author[r], "query")'
         /\ author[r] <= n
         /\ author[r] < n => PredictionExists(author[r])'
  BY <1>4 DEF Turned
<1>10. ASSUME NEW r \in DOMAIN author, NEW p \in Of("prediction")'
       PROVE  /\ p < r => At(p)'.tag < author[r]
              /\ r < p => author[r] <= At(p)'.tag
  <2>1. CASE p \in Of("prediction") /\ At(p)' = At(p)
    BY <2>1 DEF Turned
  <2>2. CASE p = Len(log) /\ At(p)' = e
    BY <1>1, <1>2, <1>4, <2>2
  <2>3. QED
    BY <1>8, <2>1, <2>2
<1>11. ASSUME NEW p \in Of("prediction")'
       PROVE  /\ At(p)'.tag \in 0 .. p-1
              /\ At(p)'.tag <= n
              /\ IsKind(At(p).tag, "query")'
              /\ \E r \in DOMAIN author : author[r] = At(p)'.tag /\ r < p
  <2>1. CASE p \in Of("prediction") /\ At(p)' = At(p)
    BY <1>5, <2>1 DEF Turned
  <2>2. CASE p = Len(log) /\ At(p)' = e
    <3>1. At(p)'.tag = n
      BY <1>1, <2>2
    <3>2. IsKind(At(p).tag, "query")'
      BY <1>7, <3>1 DEF IsKind
    <3>3. QED
      BY <1>1, <1>2, <1>4, <1>6, <2>2, <3>1, <3>2
  <2>3. QED
    BY <1>8, <2>1, <2>2
<1>12. ASSUME NEW p \in Of("prediction")', NEW s \in Of("prediction")', p < s
       PROVE  At(p)'.tag < At(s)'.tag
  <2>1. CASE s \in Of("prediction") /\ At(s)' = At(s)
    <3>1. p \in Of("prediction") /\ At(p)' = At(p)
      BY <1>2, <1>3, <1>8, <1>12, <2>1
    <3>2. QED
      BY <1>12, <2>1, <3>1 DEF Turned
  <2>2. CASE s = Len(log) /\ At(s)' = e
    <3>1. p \in Of("prediction") /\ At(p)' = At(p)
      BY <1>2, <1>8, <1>12, <2>2
    <3>2. QED
      BY <1>1, <1>5, <2>2, <3>1
  <2>3. QED
    BY <1>8, <2>1, <2>2
<1>13. QED
  <2>1. DOMAIN author = Of("reply")'
    BY <1>2 DEF Turned
  <2>2. QED
    BY <1>9, <1>10, <1>11, <1>12, <2>1 DEF Turned

LEMMA TurnedBatch ==
    ASSUME TypeOK, TypeOK', NEW n \in Nat, n = Next1, Turned(n), IsKind(n, "query"),
           ~PredictionExists(n), BatchLands
    PROVE  Turned(n)' /\ (batch # <<>> => \E r \in DOMAIN author' : author'[r] = n)
<1>1. /\ Len(log) \in Nat /\ Len(batch) \in Nat
      /\ Ordinals' = Ordinals \cup (Len(log) .. Len(log) + Len(batch) - 1)
      /\ \A k \in Ordinals : At(k)' = At(k)
      /\ n < Len(log)
  BY BatchAppended DEF TypeOK, IsKind, Ordinals
<1>2. ASSUME NEW k \in Len(log) .. Len(log) + Len(batch) - 1 PROVE At(k)'.kind = "reply"
  <2>1. k - Len(log) + 1 \in 1 .. Len(batch) /\ k + 1 = Len(log) + (k - Len(log) + 1)
    BY <1>1
  <2>2. PICK l \in 1 .. Len(batch) : k + 1 = Len(log) + l
    BY <2>1
  <2>3. At(k)' = ReplyEntry(batch[l])
    BY <2>2, BatchAppended DEF At
  <2>4. QED
    BY <2>3 DEF ReplyEntry
<1> DEFINE new == Len(log) .. Len(log) + Len(batch) - 1
<1>3. /\ Of("reply")' = Of("reply") \cup new
      /\ Of("prediction")' = Of("prediction")
      /\ \A p \in Of("prediction") : At(p)' = At(p) /\ p \in Nat /\ p < Len(log)
      /\ \A r \in Of("reply") : r \in Nat /\ r < Len(log)
  <2>1. \A k \in new : At(k)'.kind = "reply"
    BY <1>2
  <2>2. Ordinals' = Ordinals \cup new
    BY <1>1
  <2>3. Of("reply")' = Of("reply") \cup new
    BY <1>1, <2>1, <2>2 DEF Of
  <2>4. Of("prediction")' = Of("prediction")
    BY <1>1, <2>1, <2>2 DEF Of
  <2>5. QED
    BY <1>1, <2>3, <2>4 DEF Of, Ordinals
<1>4. /\ DOMAIN author' = DOMAIN author \cup new
      /\ \A r \in DOMAIN author : author'[r] = author[r]
      /\ \A r \in new \ DOMAIN author : author'[r] = n
  BY DEF BatchLands
<1>5. new \cap DOMAIN author = {}
  BY <1>1, <1>3 DEF Turned
<1>6. /\ \A i : IsKind(i, "query") => IsKind(i, "query")'
      /\ \A i \in Nat : PredictionExists(i) => PredictionExists(i)'
  BY <1>1, BatchServes DEF IsKind
<1>7. ASSUME NEW r \in DOMAIN author
      PROVE  IsKind(author[r], "query")' /\ (author[r] < n => PredictionExists(author[r])')
  <2>1. author[r] \in Nat /\ IsKind(author[r], "query") /\ (author[r] < n => PredictionExists(author[r]))
    BY DEF Turned
  <2>2. PICK i \in Nat : i = author[r]
    BY <2>1
  <2>3. IsKind(author[r], "query")
    BY <2>1
  <2>4. IsKind(i, "query")' /\ (i < n => PredictionExists(i)')
    BY <1>6, <2>1, <2>2
  <2>5. QED
    BY <1>4, <2>2, <2>4 DEF IsKind, PredictionExists
<1>8. ASSUME NEW p \in Of("prediction")
      PROVE  IsKind(At(p).tag, "query")' /\ At(p).tag \in Nat /\ At(p).tag < n
  <2>1. PICK i : i = At(p).tag
    OBVIOUS
  <2>2. IsKind(i, "query")' /\ At(p)'.tag = i
    BY <1>3, <1>6, <2>1 DEF Turned
  <2>3. IsKind(At(p).tag, "query")'
    BY <2>2 DEF IsKind
  <2>4. i \in 0 .. p-1 /\ i <= n /\ p \in Nat /\ p < Len(log)
    BY <1>3, <2>1 DEF Turned
  <2>5. i # n
    <3>1. SUFFICES ASSUME i = n PROVE FALSE
      OBVIOUS
    <3>2. At(p) \in Entry /\ At(p).kind = "prediction" /\ At(p).tag = n
      BY <2>1, <3>1 DEF TypeOK, Of, At, Ordinals
    <3>3. At(p) = PredictionEntry(n)
      BY <3>2 DEF Entry, PredictionEntry
    <3>4. QED
      BY <2>4, <3>1, <3>3, <1>1 DEF PredictionExists
  <2>6. QED
    BY <2>1, <2>3, <2>4, <2>5
<1>9. IsKind(n, "query")'
  BY <1>6
<1>10. ASSUME NEW r \in DOMAIN author'
       PROVE  \/ r \in DOMAIN author /\ author'[r] = author[r]
              \/ r \in new /\ author'[r] = n
  BY <1>4, <1>5, <1>10
<1> HIDE DEF new
<1>11. ASSUME NEW r \in DOMAIN author'
       PROVE  /\ author'[r] \in 0 .. r-1
              /\ IsKind(author[r], "query")'
              /\ author'[r] <= n
              /\ author'[r] < n => PredictionExists(author[r])'
  <2>1. CASE r \in DOMAIN author /\ author'[r] = author[r]
    BY <1>7, <2>1 DEF Turned, IsKind, PredictionExists
  <2>2. CASE r \in new /\ author'[r] = n
    BY <1>1, <1>9, <2>2 DEF new, IsKind
  <2>3. QED
    BY <1>10, <2>1, <2>2
<1>12. ASSUME NEW r \in DOMAIN author', NEW p \in Of("prediction")
       PROVE  /\ p < r => At(p)'.tag < author'[r]
              /\ r < p => author'[r] <= At(p)'.tag
  <2>1. CASE r \in DOMAIN author /\ author'[r] = author[r]
    BY <1>3, <2>1 DEF Turned
  <2>2. CASE r \in new /\ author'[r] = n
    BY <1>1, <1>3, <1>8, <2>2 DEF new
  <2>3. QED
    BY <1>10, <2>1, <2>2
<1>13. ASSUME NEW p \in Of("prediction")
       PROVE  /\ At(p)'.tag \in 0 .. p-1
              /\ At(p)'.tag <= n
              /\ IsKind(At(p).tag, "query")'
              /\ \E r \in DOMAIN author' : author'[r] = At(p)'.tag /\ r < p
  BY <1>3, <1>4, <1>8 DEF Turned
<1>14. \A p, s \in Of("prediction") : p < s => At(p)'.tag < At(s)'.tag
  BY <1>3 DEF Turned
<1>15. Turned(n)'
  <2>1. DOMAIN author' = Of("reply")'
    BY <1>3, <1>4 DEF Turned
  <2>2. QED
    BY <1>3, <1>11, <1>12, <1>13, <1>14, <2>1 DEF Turned
<1>16. ASSUME batch # <<>> PROVE \E r \in DOMAIN author' : author'[r] = n
  <2>1. Len(batch) > 0
    BY <1>1, <1>16 DEF TypeOK
  <2>2. Len(log) \in new
    BY <1>1, <2>1 DEF new
  <2>3. QED
    BY <1>4, <1>5, <2>2
<1>17. QED
  BY <1>15, <1>16

\* A queue nobody answered before.
Unanswered(entries) ==
    \A n \in DOMAIN entries : entries[n].kind \notin {"reply", "prediction"}

LEMMA TurnInit ==
    ASSUME log \in Seq(Entry), Unanswered(log), InitWith(log, Absent)
    PROVE  TurnInv
<1>1. Of("reply") = {} /\ Of("prediction") = {}
  BY DEF Unanswered, Of, Ordinals, At
<1>2. DOMAIN author = {} /\ lpc = "boot"
  BY DEF InitWith, Empty
<1>3. QED
  BY <1>1, <1>2 DEF TurnInv, Turned

LEMMA TurnStep ==
    ASSUME Faults \subseteq LoneFaults, TypeOK, TypeOK', Placed, Served, TurnInv, [Next]_vars
    PROVE  TurnInv'
<1>0. panelCursor \in Cursor /\ Next1 \in Nat /\ Next1' \in Nat
  BY NextTypes DEF TypeOK
<1>1. PICK n \in Nat : n = Next1
  BY <1>0
<1>2. Turned(n)
  BY <1>1 DEF TurnInv, Turned
\* The listener does not move.
<1>3. ASSUME Next1' = Next1, Turned(n)' PROVE Turned(Next1)'
  BY <1>1, <1>3 DEF Turned
<1>4. ASSUME UNCHANGED <<log, author>>, Next1' = Next1
      PROVE  /\ Turned(Next1)' /\ Of("reply")' = Of("reply") /\ Of("prediction")' = Of("prediction")
             /\ (\E r \in DOMAIN author : author[r] = Next1)' <=> \E r \in DOMAIN author : author[r] = Next1
  BY <1>2, <1>3, <1>4, TurnedSame
<1>5. CASE Ask /\ UNCHANGED <<lpc, panelCursor, batch, author>>
  <2>1. log' = Append(log, QueryEntry) /\ Next1' = Next1
    BY <1>5 DEF Ask, Next1
  <2>2. Turned(n)' /\ Of("reply")' = Of("reply") /\ Of("prediction")' = Of("prediction")
    BY <1>2, <1>5, <2>1, TurnedQuery
  <2>3. QED
    BY <1>3, <1>5, <2>1, <2>2 DEF TurnInv
<1>6. CASE \/ StoreRequest \/ UNCHANGED vars \/ ReadBaseline \/ WalkFails \/ CommitFails
           \/ Check \/ ChooseEngine \/ WriteFiles \/ Aggregate \/ Label \/ Crash
  <2>1. UNCHANGED <<log, author, panelCursor>>
    BY <1>6
    DEF StoreRequest, vars, ReadBaseline, WalkFails, CommitFails, Check, ChooseEngine, WriteFiles,
        Aggregate, Label, Crash, cursorVars, auxVars, answerAux
  <2>2. /\ lpc' = "walk" => lpc = "walk"
        /\ lpc' = "batch" => lpc = "batch" /\ batch' = batch
        /\ lpc' \in {"aggregate", "script", "predict"} => lpc \in {"aggregate", "script", "predict"}
    BY <1>6
    DEF StoreRequest, vars, ReadBaseline, WalkFails, CommitFails, Check, ChooseEngine, WriteFiles,
        Aggregate, Label, Crash, Stopped, locals
  <2>3. Next1' = Next1
    BY <2>1 DEF Next1
  <2>4. QED
    BY <1>4, <2>1, <2>2, <2>3 DEF TurnInv
<1>7. CASE FanOut
  <2>1. UNCHANGED <<log, author, panelCursor>> /\ Next1' = Next1
    BY <1>7 DEF FanOut, cursorVars, auxVars, answerAux, Next1
  <2>2. lpc' = "batch" /\ batch' # <<>>
    <3>1. "panel" \notin Faults /\ ReplyCounts = {Len(Panel)} /\ Len(Panel) \in Nat /\ Len(Panel) # 0
      BY ListenerAssumption DEF ReplyCounts, LoneFaults
    <3>2. QED
      BY <1>7, <3>1 DEF FanOut
  <2>3. QED
    BY <1>4, <2>1, <2>2 DEF TurnInv
<1>8. CASE Boot \/ StartWalk \/ Fetch
  <2>1. UNCHANGED <<log, author>> /\ (panelCursor' = panelCursor \/ panelCursor' = Created(panelCursor))
    BY <1>8 DEF Boot, StartWalk, Fetch, auxVars, answerAux
  <2>2. Next1' = Next1 /\ (panelCursor' < 0 => panelCursor < 0)
    BY <1>0, <2>1 DEF Next1, NextOf, Created, Cursor, Absent, Fresh
  <2>3. /\ lpc' \notin {"batch", "aggregate", "script", "predict"}
        /\ lpc' = "walk" => panelCursor < 0
    BY <1>8 DEF Boot, StartWalk, Fetch, FastForwardNeeded
  <2>4. QED
    BY <1>4, <2>1, <2>2, <2>3 DEF TurnInv
<1>9. CASE Walk
  <2>1. /\ UNCHANGED <<log, author>> /\ lpc = "walk" /\ lpc' \in {"walk", "step"}
        /\ Of("reply") = {} /\ Of("prediction") = {}
    BY <1>9 DEF Walk, auxVars, answerAux, TurnInv
  <2>2. Of("reply")' = {} /\ Of("prediction")' = {} /\ DOMAIN author' = {}
    BY <2>1, TurnedSame DEF TurnInv, Turned
  <2>3. QED
    BY <2>1, <2>2 DEF TurnInv, Turned
<1>10. CASE Commit
  <2>1. /\ UNCHANGED <<log, author>> /\ lpc = "commit" /\ lpc' = "step" /\ panelCursor >= 0
        /\ panelCursor' = Moved(panelCursor)
    BY <1>0, <1>10 DEF Commit, auxVars, answerAux, Placed, Cursor, Absent, Fresh
  <2>2. Next1' = n + 1 /\ ~(panelCursor' < 0)
    BY <1>0, <1>1, <2>1 DEF Next1, NextOf, Moved, Cursor, Absent, Fresh
  <2>3. IsKind(n, "query") => PredictionExists(n)
    BY <1>1, <2>1 DEF Served, IsKind, PredictionExists
  <2>4. Turned(n + 1)'
    BY <1>2, <2>1, <2>3, TurnedNext, TurnedSame
  <2>5. Turned(Next1)'
    BY <2>2, <2>4 DEF Turned
  <2>6. QED
    BY <2>1, <2>2, <2>5 DEF TurnInv
<1>11. CASE AppendBatch /\ BatchLands /\ lpc' = "aggregate"
  <2>1. lpc = "batch" /\ panelCursor' = panelCursor /\ Next1' = Next1 /\ ~(panelCursor' < 0)
    BY <1>11 DEF AppendBatch, cursorVars, Next1, Placed
  <2>2. IsKind(n, "query") /\ ~PredictionExists(n)
    BY <1>1, <2>1 DEF Served, Answering, Unpredicted, IsKind, PredictionExists
  <2>3. Turned(n)' /\ \E r \in DOMAIN author' : author'[r] = n
    BY <1>1, <1>2, <1>11, <2>1, <2>2, TurnedBatch DEF TurnInv
  <2>4. (\E r \in DOMAIN author : author[r] = Next1)'
    BY <1>1, <2>1, <2>3
  <2>5. QED
    BY <1>3, <1>11, <2>1, <2>3, <2>4 DEF TurnInv
<1>12. CASE AppendPrediction /\ PredictionLands
  <2>1. /\ lpc = "predict" /\ lpc' \in {"label", "commit"} /\ panelCursor' = panelCursor
        /\ Next1' = Next1 /\ ~(panelCursor' < 0) /\ author' = author
    BY <1>12 DEF AppendPrediction, cursorVars, Next1, Placed
  <2>2. IsKind(n, "query") /\ ~PredictionExists(n) /\ \E r \in DOMAIN author : author[r] = n
    BY <1>1, <2>1 DEF Served, Answering, Unpredicted, IsKind, PredictionExists, TurnInv
  <2>3. log' = Append(log, PredictionEntry(n))
    BY <1>1, <1>12 DEF PredictionLands
  <2>4. Turned(n)'
    BY <1>2, <2>1, <2>2, <2>3, TurnedPrediction
  <2>5. QED
    BY <1>3, <2>1, <2>4 DEF TurnInv
<1>13. QED
  BY <1>5, <1>6, <1>7, <1>8, <1>9, <1>10, <1>11, <1>12, LonePartition

\* A stop of the process loses nothing of this, the table run_meta apart.
LEMMA StopKeeps ==
    ASSUME TypeOK, Placed, Served, Stopped,
           UNCHANGED <<log, cursorVars, files, author, history>>,
           DOMAIN meta' \subseteq Nat, \A i \in DOMAIN meta' : meta'[i] \in Meta
    PROVE  TypeOK' /\ Placed' /\ Served' /\ (TurnInv => TurnInv') /\ UNCHANGED S!svars
<1>1. /\ UNCHANGED <<log, panelCursor, baseline, files, author, history>>
      /\ lpc' = "boot" /\ engine' = NoEngine /\ batch' = <<>> /\ counted' = {} /\ submits' = {}
  BY DEF Stopped, Returned, cursorVars
<1>2. Next1' = Next1
  BY <1>1 DEF Next1
<1>3. TypeOK'
  BY <1>1 DEF TypeOK, LocalStates
<1>4. Placed' /\ Served'
  BY <1>1, <1>2, SameServes DEF Placed, PastStart, Served, Answering, Unpredicted
<1>5. TurnInv => TurnInv'
  BY <1>1, <1>2, TurnedSame DEF TurnInv
<1>6. Asked' = Asked /\ Answered' = Answered /\ Passed' = Passed
  BY <1>1, <1>2, SameServes DEF Asked, Answered, Passed, TakenUp
<1>7. QED
  BY <1>3, <1>4, <1>5, <1>6, StutterMeans

LEMMA QueueExtends ==
    ASSUME Faults \subseteq LoneFaults, TypeOK, [Next]_vars
    PROVE  Ordinals \subseteq Ordinals' /\ \A n \in Ordinals : At(n)' = At(n)
<1>1. ASSUME NEW e \in Entry, log' = Append(log, e)
      PROVE  Ordinals \subseteq Ordinals' /\ \A n \in Ordinals : At(n)' = At(n)
  BY <1>1, EntryAppended
<1>2. CASE Ask
  BY <1>1, <1>2, EntryTypes DEF Ask
<1>3. CASE AppendBatch /\ BatchLands
  BY <1>3, BatchAppended
<1>4. CASE AppendPrediction /\ PredictionLands
  <2>1. PredictionEntry(Next1) \in Entry
    BY EntryTypes, NextTypes DEF TypeOK
  <2>2. QED
    BY <1>1, <1>4, <2>1 DEF PredictionLands
<1>5. CASE
      \/ StoreRequest \/ UNCHANGED vars \/ Boot \/ ReadBaseline \/ StartWalk \/ Walk \/ WalkFails
      \/ Fetch \/ Commit \/ CommitFails \/ Check \/ ChooseEngine \/ FanOut \/ WriteFiles
      \/ Aggregate \/ Label \/ Crash
  <2>1. UNCHANGED log
    BY <1>5
    DEF StoreRequest, vars, Boot, ReadBaseline, StartWalk, Walk, WalkFails, Fetch, Commit, CommitFails,
        Check, ChooseEngine, FanOut, WriteFiles, Aggregate, Label, Crash
  <2>2. QED
    BY <2>1, SameServes
<1>6. QED
  BY <1>2, <1>3, <1>4, <1>5, LonePartition

=============================================================================
