------------------------------- MODULE Server -------------------------------
(***************************************************************************)
(* The whole process of server/src/main.rs: the resident consumer and the  *)
(* panel listener, two threads over one queue and one database, and one    *)
(* page of a run that a browser keeps open.                                *)
(*                                                                         *)
(* The steps of the threads are those of Consumer and Listener, of which   *)
(* this module takes what happens on a queue that only this server         *)
(* answers.  They die together.                                            *)
(***************************************************************************)
EXTENDS StoreView, RunMeta

CONSTANTS
    Panel,            \* the personas that answer
    Backlog,          \* what is on the queue before the first start
    MaxQueries,       \* queries that are ever asked
    MaxSubmits,       \* of these, how many by the submit handler
    MaxLog,           \* no crash, no wipe, no failed commit once the queue is this long
    ConsumerFaults,   \* the faults of Consumer that may happen
    ListenerFaults,   \* the faults of Listener that may happen
    Watched           \* the queries that are followed to their page

VARIABLES
    uiCursor, pc, inflight, base,                                   \* Consumer
    panelCursor, lpc, baseline, engine, batch, counted, files,      \* Listener
    submits, author, made, tally, looked, rivals, overlooked, wish, history, cut,
    page                                                            \* the browser

C == INSTANCE Consumer WITH
        MaxInflight <- 0, Shelves <- {}, StrayTags <- {}, Faults <- ConsumerFaults
L == INSTANCE Listener WITH
        DefaultEngine <- "model", Faults <- ListenerFaults

ASSUME ServerAssumption ==
    /\ Panel \in Seq(Personas)
    /\ Panel # <<>>
    /\ Backlog \in Seq(Entry)
    /\ MaxQueries \in Nat
    /\ MaxSubmits \in Nat
    /\ MaxLog \in Nat
    /\ ConsumerFaults \subseteq C!FaultKinds
    /\ ListenerFaults \subseteq L!FaultKinds

consumerOnly == <<storeVars, uiCursor, pc, inflight, base>>
listenerMemory == <<panelCursor, baseline, files, wish, author, made, tally, looked, rivals,
                    overlooked, history>>
listenerOnly == <<meta, lpc, engine, batch, counted, submits, cut, listenerMemory>>
vars == <<log, consumerOnly, listenerOnly, page>>

-----------------------------------------------------------------------------
(* A page of a run (templates/run.html, run_detail.html).  It asks for its *)
(* fragment again every two seconds while the run it shows is pending; an  *)
(* answer that is no page is not swapped in.                               *)

NoPage == [item |-> NoOrdinal, prediction |-> NoOrdinal, label |-> NoEngine]

Pages ==
    [item : Nat \cup {NoOrdinal}, prediction : Nat \cup {NoOrdinal},
     label : Engines \cup {NoEngine}]

\* detail(): status and label are read in one critical section.
Fragment(i) ==
    [item |-> i, prediction |-> runs[i].prediction, label |-> EngineUsed(i)]

\* Mutant: it stops as soon as there is a reply.
PollingSilence ==
    /\ page # NoPage
    /\ page.prediction = NoOrdinal
    /\ \A r \in DOMAIN replies : replies[r].item # page.item

Polling == page # NoPage /\ page.prediction = NoOrdinal

Visit ==
    /\ \E i \in DOMAIN runs \cap Watched : page' = Fragment(i)
    /\ UNCHANGED <<log, consumerOnly, listenerOnly>>

Poll ==
    /\ Polling
    /\ page.item \in DOMAIN runs
    /\ page' = Fragment(page.item)
    /\ UNCHANGED <<log, consumerOnly, listenerOnly>>

-----------------------------------------------------------------------------

Init ==
    /\ L!InitWith(Backlog, Absent)
    /\ StoreInit
    /\ uiCursor = Absent
    /\ pc = "reset"
    /\ inflight = {}
    /\ base = 0
    /\ page = NoPage

Consume ==
    /\ C!Reset \/ C!Create \/ C!Ingest \/ C!Commit \/ C!CommitFails
    /\ UNCHANGED <<listenerOnly, page>>

Ask ==
    /\ L!Submit \/ L!StoreRequest \/ L!AskElsewhere
    /\ UNCHANGED <<consumerOnly, page>>

Listen ==
    /\ \/ L!Boot
       \/ L!ReadBaseline
       \/ L!StartWalk
       \/ L!Walk
       \/ L!WalkFails
       \/ L!Fetch
       \/ L!Check
       \/ L!ChooseEngine
       \/ L!FanOut
       \/ L!AppendBatch
       \/ L!WriteFiles
       \/ L!Aggregate
       \/ L!AppendPrediction
       \/ L!Label
       \/ L!Commit
       \/ L!CommitFails
    /\ UNCHANGED <<consumerOnly, page>>

\* The process dies; browsers keep what they show.
Crash ==
    /\ C!Crash
    /\ L!Crash
    /\ UNCHANGED page

\* It dies and the database is deleted before it starts again.  The cursors and
\* the directories of aggregate stay.
Wipe ==
    /\ Len(log) < MaxLog
    /\ C!Wipe
    /\ L!Stopped
    /\ meta' = EmptyMeta
    /\ UNCHANGED <<listenerMemory, page>>

Next == Consume \/ Ask \/ Listen \/ Visit \/ Poll \/ Crash \/ Wipe

Spec == Init /\ [][Next]_vars

\* Fairness: that of the two threads, and a browser that polls as long as it is told to.
ConsumerSteps == C!Reset \/ C!Create \/ C!Ingest
ListenerSteps ==
    \/ L!Boot \/ L!ReadBaseline \/ L!StartWalk \/ L!Fetch \/ L!Check \/ L!ChooseEngine
    \/ L!FanOut \/ L!AppendBatch \/ L!WriteFiles \/ L!Aggregate \/ L!AppendPrediction \/ L!Label

Fairness ==
    /\ WF_vars(Consume /\ ConsumerSteps)
    /\ SF_vars(Consume /\ C!Commit)
    /\ WF_vars(Listen /\ ListenerSteps)
    /\ SF_vars(Listen /\ L!Walk)
    /\ SF_vars(Listen /\ L!Commit)
    /\ WF_vars(Poll)

FairSpec == Spec /\ Fairness

-----------------------------------------------------------------------------
(* Properties. *)

\* What the listener promises on a queue it answers alone (see Listener).
ServiceRefined == L!ServiceRefined

ShownWith(i) == {r \in DOMAIN replies : replies[r].item = i}

Predicted == {i \in DOMAIN runs : runs[i].prediction # NoOrdinal}

\* Two threads, one queue, crashes, entries that come twice and a deleted
\* database: what the pages show is a board on which runs are posted in order
\* and settled once.
B == INSTANCE Board WITH
        posted  <- DOMAIN runs,
        settled <- [i \in Predicted |-> ShownWith(i)]

BoardRefined == B!Spec

\* A predicted run shows exactly what the listener had said to it before it
\* predicted it, though the consumer reads the replies before it knows whose
\* they are ("every reply between the previous prediction and this one belongs
\* to this item", store.rs 191-196).
ShownAsAnswered ==
    \A i \in Predicted :
        ShownWith(i) = {r \in DOMAIN author : author[r] = i /\ r < runs[i].prediction}

Up == pc # "reset" /\ lpc \notin {"boot", "len"}

\* Asked before a listener without a cursor position had read its baseline.
IsHistory(q) == q < history

\* End to end: if the process stays up at last, every query asked once a listener
\* without a cursor has its baseline is shown with its prediction, through
\* crashes and failed moves of both cursors and across deletions of the database.
\* The repository promises it to queries "submitted milliseconds after boot" too
\* (listener.rs 33-36); one that is asked before the baseline is read is passed
\* over, and history makes it no different: see AnsweredSinceStart of Listener.
EndToEnd ==
    <>[]Up => \A q \in Watched :
        Up /\ q \in Queries(history, Len(log)) ~> q \in Predicted \/ IsHistory(q)

\* A page left open on a run ends up with its prediction: it polls as long as
\* that is missing (run_detail.html 2), whatever happens to the server meanwhile.
PageSettles ==
    <>[]Up => \A i \in Watched :
        page.item = i ~> page.item # i \/ page.prediction # NoOrdinal \/ IsHistory(i)

\* A run "degrades to mock and is labeled so - never silently" (listener.rs
\* 26-27): a page that shows the prediction of a run the listener has done with,
\* and does not ask again, names the engine that made it.
NeverSilent ==
    page # NoPage /\ ~Polling /\ page.item \in DOMAIN made /\ L!Next1 > page.item
        => page.label = made[page.item]

=============================================================================
