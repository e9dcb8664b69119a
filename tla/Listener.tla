------------------------------ MODULE Listener ------------------------------
(***************************************************************************)
(* The resident panel listener (server/src/listener.rs) together with the  *)
(* submit handler (server/src/routes.rs), which appends the queries it     *)
(* answers and tells it through the table run_meta which engine to use.    *)
(*                                                                         *)
(* Each request to the queue daemon and each critical section of the store *)
(* mutex is one step.  The scripts of OVK that the listener runs (llm.sh,  *)
(* panel-aggregate.sh) are a choice of their outcomes; how long a run of   *)
(* llm.sh may take is the subject of Call.                                 *)
(***************************************************************************)
EXTENDS View, RunMeta, FiniteSets

CONSTANTS
    Panel,           \* the persona ids of panel/weights.tsv, in file order
    DefaultEngine,   \* REPLY_ENGINE
    MaxQueries,      \* queries that are ever asked
    MaxSubmits,      \* of these, how many by the submit handler
    MaxLog,          \* no crash, no failed commit once the queue is this long
    Faults           \* the faults that may happen, from FaultKinds

FaultKinds == {"crash",         \* the process dies
               "create",        \* the cursor_create at start fails
               "walk",          \* a move of the fast-forward fails
               "commit",        \* a move of the commit fails
               "check",         \* len or get fails in prediction_exists
               "refused",       \* a get there is refused: ok is false
               "panel",         \* weights.tsv cannot be read
               "drop",          \* personas do not reply
               "batch",         \* append_batch is refused
               "batchLost",     \* append_batch lands, the answer is lost
               "aggregate",     \* panel-aggregate.sh fails
               "predict",       \* the append of the prediction is refused
               "predictLost",   \* it lands, the answer is lost
               "files",         \* a write into the directory of aggregate fails
               "spawn",         \* panel-aggregate.sh cannot be started
               "remove",        \* that directory cannot be removed
               "rival"}         \* another responder predicts a query

ASSUME ListenerAssumption ==
    /\ Panel \in Seq(Personas)
    /\ Panel # <<>>
    /\ DefaultEngine \in Requests
    /\ MaxQueries \in Nat
    /\ MaxSubmits \in Nat
    /\ MaxLog \in Nat
    /\ Faults \subseteq FaultKinds

VARIABLES
    panelCursor,     \* the durable cursor "panel-listener"
    lpc,             \* where the listener thread stands
    baseline,        \* the length of the queue when the process started
    engine,          \* engine_used of the query in hand
    batch,           \* ids of the personas that replied to it
    counted,         \* the personas whose texts its prediction counts
    files,           \* tmp-aggregate-<item> -> names of the files in it
    submits,         \* submit handlers between append and set_engine_requested
    author,          \* auxiliary: reply ordinal -> query it was written for
    made,            \* auxiliary: query -> engine that made its prediction
    tally,           \* auxiliary: query -> personas its prediction counts
    looked,          \* auxiliary: query -> queue length when no prediction was found
    rivals,          \* auxiliary: ordinals of predictions by other responders
    overlooked,      \* auxiliary: queries whose prediction a refusal hid
    wish,            \* auxiliary: query -> engine its operator chose
    history,         \* auxiliary: queue length when a cursor-less listener started
    cut              \* auxiliary: a fast-forward was cut short

cursorVars == <<panelCursor, baseline>>
locals     == <<engine, batch, counted>>
askVars    == <<submits, wish>>
answerAux  == <<author, made, tally, looked, rivals, overlooked>>
startAux   == <<history, cut>>
auxVars    == <<answerAux, startAux>>
vars == <<log, meta, lpc, cursorVars, locals, files, askVars, auxVars>>

Empty == [i \in {} |-> {}]

\* f with x mapped to y
With(f, x, y) == [k \in DOMAIN f \cup {x} |-> IF k = x THEN y ELSE f[k]]

InitWith(entries, cursor) ==
    /\ log = entries
    /\ meta = EmptyMeta
    /\ panelCursor = cursor
    /\ lpc = "boot"
    /\ baseline = 0
    /\ engine = NoEngine
    /\ batch = <<>>
    /\ counted = {}
    /\ files = Empty
    /\ submits = {}
    /\ author = Empty
    /\ made = Empty
    /\ tally = Empty
    /\ looked = Empty
    /\ rivals = {}
    /\ overlooked = {}
    /\ wish = Empty
    /\ history = 0
    /\ cut = FALSE

\* A first start on an empty queue.
Init == InitWith(<<>>, Absent)

Next1 == NextOf(panelCursor)    \* the entry step() fetches

-----------------------------------------------------------------------------
(* The submit handler with OVK_RUNNER=append, and other askers. *)

Ask ==
    /\ Cardinality(Queries(0, Len(log))) < MaxQueries
    /\ log' = Append(log, QueryEntry)

\* submit, first half: the query is on the queue.
Submit ==
    /\ Cardinality(DOMAIN wish) < MaxSubmits
    /\ Ask
    /\ \E e \in Requests :
          /\ submits' = submits \cup {[item |-> Len(log), engine |-> e]}
          /\ wish' = With(wish, Len(log), e)
    /\ UNCHANGED <<meta, lpc, cursorVars, locals, files, auxVars>>

\* submit, second half: the engine choice is stored.
StoreRequest ==
    /\ \E s \in submits :
          /\ SetEngineRequested(s.item, s.engine)
          /\ submits' = submits \ {s}
    /\ UNCHANGED <<log, lpc, cursorVars, locals, files, wish, auxVars>>

\* A query from elsewhere, or a submit whose answer was lost.
AskElsewhere ==
    /\ Ask
    /\ UNCHANGED <<meta, lpc, cursorVars, locals, files, askVars, auxVars>>

\* A manual panel-run.sh, or a second server, predicts a query; once.
Rival ==
    /\ "rival" \in Faults
    /\ rivals = {}
    /\ \E i \in Queries(0, Len(log)) : log' = Append(log, PredictionEntry(i))
    /\ rivals' = {Len(log)}
    /\ UNCHANGED <<meta, lpc, cursorVars, locals, files, askVars, author, made, tally, looked,
                   overlooked, startAux>>

-----------------------------------------------------------------------------
(* listener::run up to its loop. *)

Boot ==
    /\ lpc = "boot"
    /\ \/ panelCursor' = Created(panelCursor)
       \/ "create" \in Faults /\ panelCursor' = panelCursor
    /\ lpc' = "len"
    /\ UNCHANGED <<log, meta, baseline, locals, files, askVars, auxVars>>

ReadBaseline ==
    /\ lpc = "len"
    /\ baseline' = Len(log)
    /\ history' = IF panelCursor < 0 THEN Len(log) ELSE history
    /\ lpc' = "step"
    /\ UNCHANGED <<log, meta, panelCursor, locals, files, askVars, answerAux, cut>>

-----------------------------------------------------------------------------
(* listener::step.  It creates its cursor again each time, so that what    *)
(* the cursor's position is read from exists.                              *)

\* Mutant: every start skips what is on the queue, not only that of a fresh cursor.
FastForwardAlways == panelCursor < baseline - 1

FastForwardNeeded == panelCursor < 0 /\ baseline > 0

StartWalk ==
    /\ lpc = "step"
    /\ FastForwardNeeded
    /\ panelCursor' = Created(panelCursor)
    /\ lpc' = "walk"
    /\ UNCHANGED <<log, meta, baseline, locals, files, askVars, auxVars>>

\* Mutant: the walk ends one entry early.
WalkShort ==
    /\ lpc = "walk"
    /\ panelCursor' = Moved(panelCursor)
    /\ lpc' = IF Moved(panelCursor) < baseline - 2 THEN "walk" ELSE "step"
    /\ UNCHANGED <<log, meta, baseline, locals, files, askVars, auxVars>>

\* One move of cursor_commit(baseline - 1).  At its end step() goes on with
\* the entry at baseline, which is the entry after the cursor.
Walk ==
    /\ lpc = "walk"
    /\ panelCursor' = Moved(panelCursor)
    /\ lpc' = IF Moved(panelCursor) < baseline - 1 THEN "walk" ELSE "step"
    /\ UNCHANGED <<log, meta, baseline, locals, files, askVars, auxVars>>

WalkFails ==
    /\ "walk" \in Faults
    /\ lpc = "walk"
    /\ lpc' = "step"
    /\ cut' = TRUE
    /\ UNCHANGED <<log, meta, cursorVars, locals, files, askVars, answerAux, history>>

Fetch ==
    /\ lpc = "step"
    /\ ~FastForwardNeeded
    /\ panelCursor' = Created(panelCursor)
    /\ \/ IsKind(Next1, "query") /\ lpc' = "check"
       \/ Next1 \in Ordinals /\ ~IsKind(Next1, "query") /\ lpc' = "commit"
       \/ Next1 \notin Ordinals /\ UNCHANGED lpc          \* at head
    /\ UNCHANGED <<log, meta, baseline, locals, files, askVars, auxVars>>

\* The locals of answer() are gone when step() returns.
Returned ==
    /\ engine' = NoEngine
    /\ batch' = <<>>
    /\ counted' = {}

Commit ==
    /\ lpc = "commit"
    /\ panelCursor' = Moved(panelCursor)
    /\ lpc' = "step"
    /\ Returned
    /\ UNCHANGED <<log, meta, baseline, files, askVars, auxVars>>

CommitFails ==
    /\ "commit" \in Faults
    /\ Len(log) < MaxLog
    /\ lpc = "commit"
    /\ lpc' = "step"
    /\ Returned
    /\ UNCHANGED <<log, meta, cursorVars, files, askVars, auxVars>>

-----------------------------------------------------------------------------
(* listener::answer for the query at Next1.  An error is logged by step(), *)
(* which then commits as if the query had been answered.                   *)

\* Mutant: the newest entry is not looked at.
PredictionBeforeLast(i) == \E p \in i+1 .. Len(log)-2 : At(p) = PredictionEntry(i)

\* What is on the queue when len() is answered; entries never change, so this is
\* what prediction_exists finds if every get after it is answered.
PredictionExists(i) == \E p \in i+1 .. Len(log)-1 : At(p) = PredictionEntry(i)

\* A get that is refused (ok is false) reads like a missing entry: the scan skips
\* it and goes on, and a prediction that is there may not be seen.
Check ==
    /\ lpc = "check"
    /\ \/ /\ ~PredictionExists(Next1)
          /\ lpc' = "engine"
          /\ looked' = With(looked, Next1, Len(log))
          /\ UNCHANGED overlooked
       \/ /\ "refused" \in Faults
          /\ PredictionExists(Next1)
          /\ lpc' = "engine"
          /\ looked' = With(looked, Next1, Len(log))
          /\ overlooked' = overlooked \cup {Next1}
       \/ PredictionExists(Next1) /\ lpc' = "commit" /\ UNCHANGED <<looked, overlooked>>
       \/ "check" \in Faults /\ lpc' = "commit" /\ UNCHANGED <<looked, overlooked>>
    /\ UNCHANGED <<log, meta, cursorVars, locals, files, askVars, author, made, tally, rivals, startAux>>

Requested(i) == IF EngineRequested(i) = NoEngine THEN DefaultEngine ELSE EngineRequested(i)

\* engine_requested, and the probe of the model if it is to be used.
ChooseEngine ==
    /\ lpc = "engine"
    /\ \/ Requested(Next1) = "mock" /\ engine' = "mock"
       \/ Requested(Next1) = "model" /\ engine' \in {"model", Degraded}
    /\ lpc' = "fanout"
    /\ UNCHANGED <<log, meta, cursorVars, batch, counted, files, askVars, auxVars>>

\* A mock persona always replies; a model call that fails or says nothing
\* drops its persona.
ReplyCounts ==
    IF engine = "model" /\ "drop" \in Faults THEN 0 .. Len(Panel) ELSE {Len(Panel)}

\* The personas that replied are at these lines of the panel.
InOrder(lines) == \A j, k \in DOMAIN lines : j < k => lines[j] < lines[k]

FanOut ==
    /\ lpc = "fanout"
    /\ \/ \E n \in ReplyCounts : \E lines \in [1 .. n -> DOMAIN Panel] :
             /\ InOrder(lines)
             /\ batch' = [k \in 1 .. n |-> Panel[lines[k]]]
             /\ lpc' = IF n = 0 THEN "commit" ELSE "batch"
       \/ "panel" \in Faults /\ lpc' = "commit" /\ UNCHANGED batch
    /\ UNCHANGED <<log, meta, cursorVars, engine, counted, files, askVars, auxVars>>

Replied == {batch[k] : k \in DOMAIN batch}

\* Mutant: the content types are the bare ids.
BareBatchLands ==
    /\ log' = log \o batch
    /\ author' = author

BatchLands ==
    /\ log' = log \o [k \in 1 .. Len(batch) |-> ReplyEntry(batch[k])]
    /\ author' = [r \in DOMAIN author \cup (Len(log) .. Len(log) + Len(batch) - 1) |->
                    IF r \in DOMAIN author THEN author[r] ELSE Next1]

AppendBatch ==
    /\ lpc = "batch"
    /\ \/ BatchLands /\ lpc' = "aggregate"
       \/ "batchLost" \in Faults /\ BatchLands /\ lpc' = "commit"
       \/ "batch" \in Faults /\ lpc' = "commit" /\ UNCHANGED <<log, author>>
    /\ UNCHANGED <<meta, cursorVars, locals, files, askVars, made, tally, looked, rivals,
                   overlooked, startAux>>

\* Mutant: one directory for all queries.
OneDir(i) == 0

\* tmp-aggregate-<item>
DirOf(i) == i

FilesIn(dir) == IF dir \in DOMAIN files THEN files[dir] ELSE {}

\* aggregate, first half: the directory may be there already, left by a crash, by
\* a script that did not start or by a removal that failed; what is in it stays.
WriteFiles ==
    /\ lpc = "aggregate"
    /\ \/ /\ files' = With(files, DirOf(Next1), FilesIn(DirOf(Next1)) \cup Replied)
          /\ lpc' = "script"
       \/ /\ "files" \in Faults
          /\ \E some \in SUBSET Replied :
                files' = With(files, DirOf(Next1), FilesIn(DirOf(Next1)) \cup some)
          /\ lpc' = "commit"
    /\ UNCHANGED <<log, meta, cursorVars, locals, askVars, auxVars>>

\* That the directory cannot be removed is ignored.
DirRemoved ==
    \/ files' = [d \in DOMAIN files \ {DirOf(Next1)} |-> files[d]]
    \/ "remove" \in Faults /\ UNCHANGED files

\* aggregate, second half: when a script was started the directory is removed
\* after it, whatever its exit status.
Aggregate ==
    /\ lpc = "script"
    /\ \/ DirRemoved /\ counted' = FilesIn(DirOf(Next1)) /\ lpc' = "predict"
       \/ "aggregate" \in Faults /\ DirRemoved /\ lpc' = "commit" /\ UNCHANGED counted
       \/ "spawn" \in Faults /\ lpc' = "commit" /\ UNCHANGED <<files, counted>>
    /\ UNCHANGED <<log, meta, cursorVars, engine, batch, askVars, auxVars>>

PredictionLands ==
    /\ log' = Append(log, PredictionEntry(Next1))
    /\ made' = With(made, Next1, engine)
    /\ tally' = With(tally, Next1, counted)

AppendPrediction ==
    /\ lpc = "predict"
    /\ \/ PredictionLands /\ lpc' = "label"
       \/ "predictLost" \in Faults /\ PredictionLands /\ lpc' = "commit"
       \/ "predict" \in Faults /\ lpc' = "commit" /\ UNCHANGED <<log, made, tally>>
    /\ UNCHANGED <<meta, cursorVars, locals, files, askVars, author, looked, rivals,
                   overlooked, startAux>>

\* Mutant: the label is what was asked for.
LabelRequested ==
    /\ lpc = "label"
    /\ SetEngineUsed(Next1, Requested(Next1))
    /\ lpc' = "commit"
    /\ UNCHANGED <<log, cursorVars, locals, files, askVars, auxVars>>

Label ==
    /\ lpc = "label"
    /\ SetEngineUsed(Next1, engine)
    /\ lpc' = "commit"
    /\ UNCHANGED <<log, cursorVars, locals, files, askVars, auxVars>>

-----------------------------------------------------------------------------

\* What the process holds in memory is gone.
Stopped ==
    /\ lpc' = "boot"
    /\ Returned
    /\ submits' = {}
    /\ cut' = (cut \/ lpc = "walk")

Crash ==
    /\ "crash" \in Faults
    /\ Len(log) < MaxLog
    /\ Stopped
    /\ UNCHANGED <<log, meta, cursorVars, files, wish, answerAux, history>>

Next ==
    \/ Submit
    \/ StoreRequest
    \/ AskElsewhere
    \/ Rival
    \/ Boot
    \/ ReadBaseline
    \/ StartWalk
    \/ Walk
    \/ WalkFails
    \/ Fetch
    \/ Commit
    \/ CommitFails
    \/ Check
    \/ ChooseEngine
    \/ FanOut
    \/ AppendBatch
    \/ WriteFiles
    \/ Aggregate
    \/ AppendPrediction
    \/ Label
    \/ Crash

Spec == Init /\ [][Next]_vars

-----------------------------------------------------------------------------
(* Properties. *)

LocalStates == {"boot", "len", "step", "walk", "check", "engine", "fanout",
                "batch", "aggregate", "script", "predict", "label", "commit"}

\* Every variable has its type; the panel's replies are personas' ids.
TypeOK ==
    /\ log \in Seq(Entry)
    /\ DOMAIN meta \subseteq Nat
    /\ \A i \in DOMAIN meta : meta[i] \in Meta
    /\ panelCursor \in Cursor
    /\ lpc \in LocalStates
    /\ baseline \in Nat
    /\ engine \in Engines \cup {NoEngine}
    /\ batch \in Seq(Personas)
    /\ counted \subseteq Personas
    /\ \A d \in DOMAIN files : files[d] \subseteq Personas
    /\ submits \subseteq [item : Nat, engine : Requests]

PredictionsOf(i) == {p \in Ordinals : At(p) = PredictionEntry(i)}

\* A query gets one prediction, however often it is fetched: a crash, a failed
\* commit or a lost answer after the prediction landed makes the listener see
\* the query again, and prediction_exists stops it (listener.rs 24-25, 176-177).
\* Two things can make it two: a responder that answers while the listener is
\* answering itself, after its look at the queue; and a refused get during that
\* look, which hides a prediction that is there (flow.rs 198-200).
OnePrediction ==
    \A i \in DOMAIN made \ overlooked : \A p, other \in PredictionsOf(i) :
        p < other /\ other \notin rivals => p \in rivals /\ p >= looked[i]

\* What a prediction counts was said: every persona whose text it is made from
\* has a reply to the same query on the queue before it ("a prediction must
\* never land without its replies", flow.rs 166-168), also when the directory
\* of an earlier attempt is found and its texts are counted once more.  Those
\* may be of personas that dropped out of the last attempt.
CountedWereQueued ==
    \A i \in DOMAIN tally : \E p \in PredictionsOf(i) \ rivals :
        /\ tally[i] # {}
        /\ \A who \in tally[i] :
              \E r \in DOMAIN author : r < p /\ author[r] = i /\ At(r) = ReplyEntry(who)

Answering ==
    lpc \in {"engine", "fanout", "batch", "aggregate", "script", "predict", "label"}

\* "a fresh cursor fast-forwards past the backlog rather than re-answering
\* history" (listener.rs 22-23), as long as no fast-forward is cut short: the
\* walk moves the durable cursor entry by entry, and one that a crash or a
\* failed move ends leaves a position, so that the rest is answered.
HistoryNotAnswered == Answering /\ ~cut => Next1 >= history

\* Where run_meta names an engine, that engine made the listener's prediction,
\* however often the query was fetched and whatever was asked for ("degrades to
\* mock and is labeled so", listener.rs 26-27), unless a refused get made the
\* listener predict twice.  A label may be missing: it is written last.
LabelTrue ==
    \A i \in DOMAIN meta \ overlooked :
        EngineUsed(i) # NoEngine => i \in DOMAIN made /\ EngineUsed(i) = made[i]

\* "Submissions choose an engine per run" (server/README.md 37): a run asked
\* for with mock is answered by mock, one asked for with model is not.
EngineHonoured ==
    \A i \in DOMAIN made \cap DOMAIN wish : made[i] = "mock" <=> wish[i] = "mock"

\* "everything after [the process started] - including a query submitted
\* milliseconds after boot - gets answered" (listener.rs 33-36).  On a queue that
\* is empty at the start, with a process that never stops, every query the
\* cursor has passed was asked after the start.
AnsweredSinceStart == \A q \in Queries(0, Next1) : PredictionExists(q)

\* What the queue shows is the service Service promises: each query asked after
\* the start is answered once and in its turn, none is passed over, across
\* crashes, failed moves of the cursor and lost answers of the last append.
\* The listener has taken up its work when its cursor has a position; "after the
\* start" is after len() was answered, which is later than AnsweredSinceStart.
TakenUp(queries) == IF panelCursor < 0 THEN {} ELSE queries

Asked    == TakenUp(Queries(history, Len(log)))
Answered == TakenUp({q \in Queries(history, Len(log)) : PredictionExists(q)})
Passed   == TakenUp(Queries(history, Next1))

S == INSTANCE Service WITH asked <- Asked, answered <- Answered, passed <- Passed

ServiceRefined == S!Spec

=============================================================================
