# Verification of the OVK prototype server

TLA+ specifications of the Rust server in `server/` and of its deployment, the TLC
configurations that model-check them on small instances, and proofs checked by TLAPS.

`PROJECT.json` is the index: components, runs, the map from definitions to source
lines, hazards, mutants, findings and theorems.

## The system

A user submits a draft; a panel of personas replies to it; a script of OVK (another
project) aggregates the replies into a prediction; operators look at the
result, annotate it and record what really happened. Everything of substance
travels over **OVK's flow queue** ("the rapids"), an append-only log with durable
named cursors, kept by a daemon that is not in this repository. The server holds a
SQLite database of its own next to it.

| Component | Source | State | Operations | Modules |
|---|---|---|---|---|
| flow queue and its client | `flow.rs` | the log; one position per cursor | append, append_batch, len, get, cursor create / delete / position / move, and what the client makes of refusals and lost answers | `Rapids`, `Reader` |
| resident consumer | `consumer.rs` | cursor `ovk-prototype` | reset of the cursor, then fetch, ingest, commit | `Consumer` |
| enrichment store | `store.rs` | tables runs, replies, personas, run_meta | one method per ingest and per operator's edit | `Store`, `RunMeta`, `StoreView` |
| resident panel listener | `listener.rs` | cursor `panel-listener`; the query in hand; directories of aggregate | fast-forward; check, engine, fan-out, batch, aggregate, predict, label, commit | `Listener`, `Service` |
| calls of scripts | `listener.rs` | the child, two pipes, the clock | write, poll, kill, read; drain | `Call` |
| whole process | `main.rs` | both threads, queue, database, an open page | all of the above together | `Server`, `Board` |
| HTTP handlers | `routes.rs` | calls between two steps of theirs | submit, save_notes, toggle_archive, record_outcome with its validation, toggle_lock; list, page of a run, calibration | `Listener`, `Consumer`, `Voices`, `Server`, `Pages` |
| personas and their seeds | `seeds.rs`, `main.rs` | OVK's panel file; locks | seeding at start | `Voices` |
| start of the process | `main.rs` | none of its own | seeding, then both threads | `Voices`, `Consumer`, `Listener`, `Server` |
| deployment | `deploy/deploy.sh`, `.github/` | the host, the container, cargo's lock | every step of the script here and of the one on the host | `Deploy` |
| page templates | `templates/` | what a browser shows | polling, the mark of a recorded outcome | `Server`, `Pages` |
| translations | `i18n.rs` | none | | not modelled |
| configuration | `config.rs` | none | | not modelled |
| static mockup | `index.html`, `fragment-source.html`, `roadmap.html` | page-local | | not modelled |

How they interact: the submit handler appends `content:query`; the listener reads it
through its own cursor and appends a batch of `reply:<persona>` and then
`prediction:<item>`; the outcome handler appends `outcome:<item>`; the consumer
reads all of them through its cursor and fills the tables. Shared state besides the queue
are the tables: the outcome handler writes a column the consumer writes too, and the
submit handler leaves the engine choice in run_meta for the listener. All table access is under
one mutex, a critical section per method; requests to the daemon are outside of it, one
connection each, and each may fail or lose its answer. The listener runs scripts as child processes
over bounded pipes and leaves files for one of them. A deploy replaces the binary under
the running service.

What is hard here: two threads and any number of handlers around one log; at-least-once
delivery with a commit after the ingest; crashes between any two calls; a database in
autocommit mode, so that a method of several statements may stop in the middle; a
database that may be deleted while the cursors live on; requests of which the caller does
not know whether they took effect, and refusals that read like data; children that hang, flood their
output or leave a process behind; three screens that parse the same column each for itself; a
remote script that outlives the connection that started it. `PROJECT.json` lists each hazard at its line.

What makes each part correct:

- consumer and store: the tables are a function of the log up to the cursor (or one entry
  more), whatever fails; operators' edits survive re-ingestion; every entry is passed
  at last; after a wipe everything comes back.
- reader: no entry is skipped, whatever a request makes of a refusal; it gets to the end again.
- listener: one prediction per query, made from replies that are on the queue; history is left alone;
  the engine asked for is the engine used, and a label tells the engine that was used.
- calls: a reply is whole or there is none, a child is collected, a call ends.
- whole process: a run is shown with its prediction at last and exactly the replies it was made from,
  and stays as it is.
- pages: list, page and calibration tell the same of an entry that can be read; what the form writes is valid for OVK.
- personas: the Outlaw's text is withheld until an operator decides otherwise, and
  that decision sticks.
- deployment: a deploy that says it succeeded did.

## Modules

| Module | Content |
|---|---|
| `Rapids` | The queue. `log` is a sequence of entries, a content type being a kind and a tag. A cursor is a number: `Absent`, `Fresh` (no position) or the last processed ordinal. `Moved` is one request of the walk of `cursor_commit`, `Created` is the idempotent `cursor_create`. |
| `Store` | The tables as functions from keys to rows and one operator per writing method, each naming all three tables. `…Part1` operators are the state after the first statement of a method. |
| `RunMeta` | The table run_meta. |
| `View` | What a log means, taken from the semantics the README of the server documents: queries, predictions, which query a reply belongs to. It knows nothing of tables. |
| `StoreView` | What the tables must hold for a prefix of a log. |
| `Consumer` | `consumer::run`, `step` and `ingest` as a state machine (`pc`: reset, create, step, commit), the handlers that write its tables, crash and wipe. |
| `Reader` | The loops of both threads over the client, one action per request: `Ends` says how a request may end (answered, refused, failed, answer lost), and each action what the method makes of it. `cursor_commit` is `Commit` (the position is read again), `MoveToOrigin`, `MoveToNext`. |
| `Service` | Abstract specification of the listener: queries are asked, answered once, passed in order, and none is passed unanswered. |
| `Listener` | `listener::run`, `step` and `answer` (`lpc` names the call that comes next), with the two halves of `submit`, the files of `aggregate` and another responder on the queue (`Rival`). |
| `Call` | `run_with_timeout` and the `Command::output` of `aggregate`: caller, child and heir around two pipes. |
| `Server` | `Consumer` and `Listener` as instances over one queue and one database, with a page that polls; they die together. |
| `Board` | Abstract specification of what the pages show: runs are posted in order, each settled once with replies of its own. `Server` implements it (`BoardRefined`) and `Service` (`ServiceRefined`). |
| `Pages` | `build_outcome`, and the list, the page of a run and the calibration table as functions of the row. |
| `Voices` | Seeding, replies, toggles: which texts may be shown. |
| `Deploy` | `deploy.sh` (`at`) and its script on the host (`rem`), several of each at once; cargo's lock and its idea of what changed. |
| `MC…` | Instances for TLC. |
| `…Proofs` | Theorems about `Consumer`, `Reader`, `Listener`, `Call`, `Pages`, `Voices`, `Deploy`, and about `Server` from the lemmas of the first and the third. |

How state and actions correspond to the code:

- One step is one request to the daemon or one critical section of the store
  mutex. `Reset`, `Create`, `Ingest`, `Commit` are the calls of `consumer::run` and `step`;
  `Ingest` contains the `get`, the choice by content type and the store method, which no other
  thread can come between in a way that matters (entries never change and only the
  consumer moves its cursor). `Reader` takes the same loops apart request by request.
- The handlers `submit` and `record_outcome` are split at the await between the append and the
  store write: `Submit` / `StoreRequest`, `AppendOutcome` / `WriteOutcome`. What a handler holds
  in between is a record in `submits` or `inflight`. In `Pages` `record_outcome` is one step: its
  properties are about what was written, not about the order.
- A persona that drops out is one whose line is missing in the order `FanOut` picks.
- `files` in `Listener` are the directories `tmp-aggregate-<item>` with the personas whose texts they hold;
  `counted` is what the script found in one.
- A tree, an archive and a binary are the commit they come from; commits are numbered by time, since
  cargo goes by modification times and every file of a git archive has that of the commit.
- Auxiliary variables only record what the properties speak about: `base` (where the present
  store began to be fed), `author`, `made`, `tally`, `looked`, `rivals`, `overlooked`, `wish`, `history`, `cut`
  (listener), `processed`, `start` (reader), `said` (call), `typed` (pages), `chosen`, `seeded` (voices), `unbuilt`
  (deploy). `seen` of `Deploy` is what cargo keeps as time stamps.
- Texts, JSON, timestamps, display names are left out; a JSON column is written together
  with the ordinal of the entry it comes from, and the ordinal stands for it. `Pages` has the bodies.
- Definitions marked "Mutant" are plausible bugs, used to see that each property can fail.

## Faults

Every fault is an element of the constant `Faults` of its module (`ConsumerFaults` and `ListenerFaults` in
`Server`), so that a run says which ones it admits.

- `Consumer`: `crash`, `commit` (a move fails), `create`, `delete`, `append`
  (answer lost), `part` (a later statement fails), `wipe`.
- `Listener`: one per request and script of `answer`, with the variants `batchLost` and `predictLost` for calls
  that land and whose answer is lost; `refused` (a `get` of the look for a prediction), `files` (a file cannot be
  written), `remove` (a directory cannot be removed), `drop` (personas without a reply), `spawn`, `rival`, `crash`.
- `Reader`: `refused`, `failed`, `lost`, `create`, `crash`, per kind of reader.
- `Call`: `hang`, `fail`, `garbled` (output that is not UTF-8), `heir`. `Voices`: `crash`, `unreadable`, `sync`, `wipe`.
- `Deploy`: `cut`, `stop`, `build`, `down`, `reboot`, `older`, `overlap`.

## Runs

| Run | Faults | Bounds | Shows |
|---|---|---|---|
| consumer_faults | crash, create, wipe, commit, append, part | 4 entries, 1 persona, tag 1 used before query 1 exists, 1 outcome handler, 1 note, archiving | types; `StoreIsView`, `LaterQueriesShown`, `EnrichmentKept` and `OutcomeSettled` across all of them; `CatchesUp` |
| reader_faults | refused (consumer), create (listener), failed, lost, crash | 5 entries | `NeverSkipped`; `Recovers` |
| listener_faults | every one | 2 queries of which 1 through submit, 2 personas, faults until 4 entries | types, `OnePrediction`, `CountedWereQueued`, `HistoryNotAnswered`, `LabelTrue` |
| call_ends | every one | pipe of 2, input and output to 4, 3 polls | `WholeReply`, `ChildCollected`; `ModelCallEnds`, `AggregationEnds` |
| server_board | crash, wipe, commit; walk, commit, predictLost of the listener | a foreign entry and 2 queries, 1 persona, faults until 5 entries | `ShownAsAnswered`; refinement of `Board` and of `Service` |
| server_live | the same | a foreign entry and 1 query through submit, faults until 4 entries | `EndToEnd`, `PageSettles` |
| pages_screens | wipe, pages out of date, outcomes of other tools | 1 run, 8 texts in 4 fields, NaN and infinities among them, 3 predictions and 4 foreign records, unreadable ones among them, 2 outcomes | `CalibrationAgrees`, `ScreensAgree`, `OutcomesValid` |
| deploy_retry | cut, stop, build, down, reboot, older | 3 commits at any time, 3 deploys one after another | `SuccessIsBuilt` |
| voices_locks | every one | 2 personas, one an Outlaw; 4 entries | types, `ChoiceSticks`, `SeededOutlawWithheld` |

Why the bounds are enough. Four entries hold two queries, a reply and the prediction that moves
it, which is what re-anchoring is about; the fifth one of `server_board` adds a second prediction or a reply that
must stay. Each later entry meets the same code with the same relation to its neighbours. For a reader
five entries hold a history, an entry in hand and a walk of several moves from the origin. Two queries
are enough for one that is answered late while another is asked; faults stop
after a few entries (`MaxLog`), the queue goes on. A pipe of two blocks is neither empty nor full after one,
and inputs and outputs of four do not fit into it. In `Pages` a run is a row that no other one touches, and
the numbers typed are those at and next to the bounds, with every text that parses to what JSON has no number for.
Three deploys are one that succeeds between two
that are left behind. Most of the safety properties are proved for every bound besides.

`MaxLog`, `MaxQueries`, `MaxSubmits`, `MaxInflight`, `MaxEntries`, `MaxLen`, `MaxInput`, `MaxSaid`, `Limit`,
`MaxOutcomes`, `MaxCommits` and `MaxDeploys` are the only bounds on counters. Deadlock is checked except in `call_ends`,
`deploy_retry` and `deploy_failed`, where a call, or the last deploy, is over.

Runs that TLC finds violated, each a statement of the repository that the code does not keep:

| Run | Property | What happens |
|---|---|---|
| listener_engine | `EngineHonoured` | no fault: the engine choice is stored after the query can be read (routes.rs:519), and the run is answered with the default. "Submissions choose an engine per run" (server/README.md:37) |
| listener_early | `AnsweredSinceStart` | no fault: a query that is submitted after the process has started and before `len()` is answered lies below the baseline (listener.rs:37) and is fast-forwarded over. "everything after — including a query submitted milliseconds after boot — gets answered" (listener.rs:34-35) |
| deploy_failed | `SuccessIsLive` | fault build: `cargo build \| tail` hides cargo's exit status (deploy.sh:98), the old binary is restarted and the deploy exits with 0. "A failed deploy exits non-zero" (deploy/README.md:60) |

## Where a property needs a fault left out

A passing run says under which faults a property holds. With another fault, value or bound in its cfg TLC
finds these as well; each follows from lines a maintainer may want to look at.

Consumer and store:

- A query at ordinal 0 that is gone with the database never gets a run again: `p > 0` (consumer.rs:29) takes a
  cursor at 0 for one that has not moved. `LaterQueriesShown` is about all others.
- `CatchesUp` names two places where the consumer stays for good, and `consumer_faults` reaches both. One is a
  `cursor_create` that fails at start (consumer.rs:43-45) and is not tried again: `cursor_position` answers as for a
  fresh cursor, entry 0 is ingested again and again and every commit is refused. `Recovers` fails with `create` for
  the consumer likewise. (The listener creates its cursor in every step, listener.rs:65.) The other is a prediction
  of an item without a run, after replies: it violates the foreign key of `replies` (store.rs:78, 203-206). A tag of
  no query does that, and after a wipe at ordinal 0 so does query 0.
- `LaterQueriesShown` with `delete`: a `cursor_delete` that fails is taken for done (consumer.rs:31-34);
  once a new query has filled the store no later start resets the cursor.
- `OutcomeSettled` with `MaxInflight = 2`: of two outcome handlers the older may write last (routes.rs:623).

Reader:

- `NeverSkipped` with `refused` for the listener: a refused position after a restart reads as a fresh
  cursor, and what came while the process was down is fast-forwarded over (listener.rs:70, flow.rs:198).

Listener and whole process:

- `OnePrediction` and `LabelTrue` leave out queries in `overlooked`: a `get` that is refused during the look for a
  prediction reads like a missing entry (listener.rs:182, flow.rs:198-200), the scan goes on without it, and a query
  that was answered is answered again. Both fail when `overlooked` is not left out.
- `EndToEnd`, `PageSettles` and `ServiceRefined` leave out history, which is what is below the baseline of the last
  start without a position: also a query asked after the start and before that baseline is read (`listener_early`),
  and one asked between two such starts.
- `CountedWereQueued` accepts a text of a persona that dropped out of the last try and replied in an earlier one,
  whose directory was left (listener.rs:290, 306).
- `HistoryNotAnswered` without its condition `~cut`: `cursor_commit` walks entry by entry (flow.rs:226-242); a
  walk that ends half-way leaves a position inside the backlog, and the rest of it is answered.
- `ServiceRefined` with `check` or another failing call: a query whose answer fails is passed
  (listener.rs:82-87). This is a decision of the code, at odds with "Answers ANY content:query" (listener.rs:13).
- `ShownAsAnswered` with a call that fails after the batch, such as `aggregate`: its replies stay on the
  queue without a prediction and the next prediction takes them (listener.rs:164).
- `NeverSilent` of `Server`, with no fault: the label is written after the append of the prediction
  (listener.rs:168-172); a page that has fetched the prediction in between asks no more and stays without it.

Pages:

- `OutcomesValid` and `ScreensAgree` name NaN and an infinite engagement: `v < 0.0 || v > 1.0` is
  false for NaN (routes.rs:577); both are written as null, the page takes the outcome for none, the list for one.
  "success/ctr/conversion in 0..1, engagement >= 0" (routes.rs:566-568) is not true of those.
- `ScreensAgree` names outcomes of other tools that do not parse: likewise.
- Not a property: a prediction that does not parse is shown as none, the page says that it refreshes and does not
  (routes.rs:440); the store keeps whatever body a prediction has.

Calls:

- `ModelCallEnds` without `input <= Pipe`: the input is written before the clock starts (listener.rs:327), and a
  child that does not read blocks the listener for ever.
- `ModelCallEnds` and `AggregationEnds` with an heir that stays: the output is read to its end (listener.rs:336).
- `AggregationEnds` with a script that hangs: it has no time limit (listener.rs:297).
- `FailedDropped`, with `fail`: "A failed/empty model call drops the persona" (listener.rs:143-145), but the exit
  status of `llm.sh` is not looked at (listener.rs:332), so that what it printed before it failed is the reply. It is
  stated in `Call` and is in no run; TLC finds it violated when it is added to `call_ends`. `WholeReply` holds of such replies too.

Voices and deployment:

- An Outlaw that OVK's panel gains while the server runs, and that replies before it was seeded, is shown
  (store.rs:166); `SeededOutlawWithheld` is about those that were seeded.
- `SuccessIsBuilt` leaves out of what it says about the binary a deploy in `unbuilt`: one whose cargo failed
  (`deploy_failed`), or whose cargo found nothing to do. Cargo goes by modification times, and the files of an older
  commit, as in a rollback, are older than the last build; so are those of a commit that was pushed while another
  deploy was running, before the build of that one. The old binary is taken for current (deploy.sh:97-98). `SuccessIsLive` fails with no
  fault at all with two commits and two deploys, and with `older`.
- `SuccessIsBuilt` with `overlap`: two deploys at once, one of them outside of the workflow's concurrency group
  (deploy.yml:27-30), take the same archive on the host and in the container (deploy.sh:80-95).
- Not modelled: `HEAD` that moves while the script runs (deploy.sh:41, 66 resolve it twice). A retry
  overwrites the backup of the last good binary with what the first try installed (deploy.sh:93).

## Fairness

Both threads run loops that never end; after an error they sleep and go on. So a step
that stays possible is taken: weak fairness of every step but the commit and the moves of the
walk. Those fail at times and are tried again from an earlier step, so weak fairness
says nothing of them; strong fairness is the assumption that a daemon that is asked again and
again answers at last. In `Reader` there is no such assumption: `Recovers` speaks of behaviours in which
requests are answered again from some point on (`healthy`), and weak fairness of its steps is enough. A browser that is told to
poll polls. In `Call` the caller's thread runs, and so does a script that does not hang; that scripts end
within bounds is what `ModelCallEnds` and `AggregationEnds` are about, and `Server` assumes it of the steps of
`answer` that call them. The
liveness properties of `Server` speak of behaviours in which the process stays up at last. Producing,
submitting, operators' clicks and faults have no fairness.

## Proofs

All proofs are of the modules the runs check, with the constants left open.

Consumer and store (`ConsumerProofs`):

- `TypeCorrect`: `Spec => []TypeOK`. Inductive as it stands. It rests on the
  assumptions that the constants have their types, `BadTag` is no number and the note
  of a new run is not among `Notes`.
- `StoreAlwaysView`: `Spec => []StoreIsView`, the main result: the tables are what
  the log says up to the cursor or one entry more, for every log, number of
  handlers and combination of faults. The inductive invariant is

      IInv == TypeOK /\ base <= Next0 /\ StoreIsView

  The second conjunct is needed because the view is that of the entries from `base` on, and a
  wipe starts anew at the entry the consumer comes to next. `StoreIsView` has an existential for runs and
  one for replies: a half-executed `set_prediction` leaves the two tables at different prefixes.
  The argument: the view of a prefix does not change as the log grows (`PrefixStable`); each
  kind of ingest takes the view of `n` entries, or of `n + 1` of them (at-least-once), to that of
  `n + 1` (`IngestShows`, from `UpsertShows`, `AttachShows`, `PredictionShows`, `ReanchorShows`);
  writes to other columns do not disturb it (`ColumnsKept`). `ReanchorShows` is the heart: the
  replies that `set_prediction` moves are exactly those whose first later prediction is the one
  in hand.
- `ReplayShowsLaterQueries`: if `"delete"` is not among the faults, `Spec => []LaterQueriesShown`. `StoreIsView` is about the entries
  from `base` on; what is left to show is that `base` is 0 or 1 whenever the consumer is at work (`ReplayInv`). A store that
  starts later than that is empty and starts where the cursor is, so that the start of the process finds the reset needed; only a deletion that
  fails goes past it. The entry at ordinal 0 remains out, because `ResetNeeded` asks for a position above 0.
- `OutcomesSettle`: `Spec => []OutcomeSettled` for one outcome handler at a time (`MaxInflight <= 1`); with two the older may be written
  last, which is the hazard at `routes.rs:623`. The invariant (`OutcomeInv`) says that a row shows one of its own outcomes, none older than
  any that was passed, and that what a handler still holds is the newest of its run.
- `EnrichmentAlwaysKept`: `Spec => EnrichmentKept`, an action property, step by step. Only `TypeOK` is needed: the upsert of a
  run that is there keeps its row.

Reader:

- `NothingSkipped` (`ReaderProofs`): if the listener is not refused, `Spec => []NeverSkipped`. The invariant (`ReaderInv`)
  adds to it what is in hand: everything from `start` up to the entry before the one that is fetched, and up to the target of a
  commit, was processed; a walk is where the cursor is and before its target, since each commit reads the position again;
  and a listener without a position starts at its baseline (`Started`), which is where a refused position would lie.

Listener (`ListenerProofs`):

- `ListenerTypes`: `TypeOK`, inductive as it stands.
- `PredictedOnce`, `LabelsTrue`: `OnePrediction` and `LabelTrue`, from one invariant: from the look at
  the queue until the append, the item has no prediction but those the other responder made after that look, unless a refused
  `get` hid one from it (`InHand`); predictions
  tag entries before them, so that a new entry has none (`Backward`); when the label is written, `made` has the engine for it.
- `CountedQueued`: `CountedWereQueued`. The invariant is about the directories: one for an item
  holds only texts of personas whose replies to that item are on the queue, because the batch is appended before the files are
  written; the same goes for the batch in hand and what was counted. That a directory cannot be removed does not disturb it.
- `HistoryLeftAlone`: `HistoryNotAnswered`, from where the walk of a fast-forward may stand.
- `ServiceOnBacklog`: `ServiceRefined` for a listener that starts fresh on a queue that is not empty, alone, with faults among
  `LoneFaults` (crash, failed creation of the cursor, failed moves, the lost answer to a prediction). Both hypotheses are needed, and the code is the
  reason: on an empty queue the listener answers before its cursor has a position, so that a crash makes history of what it
  was about to answer; any other fault leaves a query unanswered or is taken for a bad query, and the listener goes on. Two
  invariants carry it: `Placed` (where the cursor and the baseline may stand, and that a fresh cursor comes before every prediction) and `Served`
  (the entry in hand is left with its prediction behind it and not before). Each step is then `Ask`, `Answer`, `Pass` or a stutter of `Service`.
- `TurnInv`, a lemma for the whole process: the replies to a query lie before its prediction and behind the one before, predictions come in the
  order of their queries, one each.

Calls (`CallProofs`): `RepliesWhole` and `ChildrenCollected`, output that is not UTF-8 included. The blocks said are those read plus those in the
pipe (`Counted`), and a caller reads to the end only after its child, and returns only when the pipe is empty and no heir holds its
other end (`Ending`).

Pages (`PagesProofs`): `CalibrationAlwaysAgrees`, `FormsWriteValid` and `ScreensAlwaysAgree`, with no condition on what is
typed, predicted or written by other tools. The invariants are the type of rows and queue, that an entry of the form is what
was typed and accepted (`Sent`), and that what a row shows is the body of an entry for its run (`Backed`). `AcceptedValid` is the
analysis of the range check: what gets past it is in range, or NaN, or an infinite engagement.

Deployment (`DeployProofs`): `SuccessTrue`, `SuccessIsBuilt` without the fault `overlap`, for any commits and any number of
cut, stopped and repeated deploys. The invariant says that the archives on the host and in the container are the newest deploy's or
gone, so that a script of an earlier one that is still running can unpack no other (`Archives`); that the tree stays the
newest deploy's once it is unpacked, and what the build with the lock began with (`Unpacked`, `Locked`); and that a build after
that of the newest deploy is one of its tree (`Built`). It says nothing of commit times: those decide only whether cargo builds, and that is `unbuilt`.

Voices (`VoicesProofs`): `VoicesTypes`; `ChoiceAlwaysSticks`, from the invariant that a toggled row is marked as touched;
`OutlawsStayWithheld`, because a seeded Outlaw nobody has toggled is locked in the table.

Whole process (`ServerProofs`). The module takes `ConsumerProofs` and `ListenerProofs` as instances; `PartsAssumed` shows that what they assume
of their constants follows from `ServerAssumption`, and `ConsumerTurns`, `ListenerTurns` that each step of `Server` is a step of a part or leaves
it alone.

- `ServedThroughWipes`: `Spec => ServiceRefined`, for a backlog that is not empty and listener faults among `LoneFaults`. A wipe stops the
  listener like a crash and takes `run_meta` with it, which the service does not speak about.
- `AnswersAlwaysShown`: `Spec => []ShownAsAnswered`. The inductive invariant `ServerInv` has four parts: that of the service, `TurnInv`, that of the
  consumer (`StoreIsView` with one prefix for both tables, as no method stops half-way here, and `ReplayInv`) and that the first entry is no
  query. The heart is `RepliesAreTheirs`: the listener writes the replies to a query between two predictions, and the consumer takes
  the replies before a prediction that no earlier one took for those of its run; the two sets are the same because the predictions come in the order of the queries.
- `PagesAreBoard`: `Spec => BoardRefined`. `ShownAsAnswered` before and after a step reduces what the page shows to the column
  `prediction` and the queue; a step of the consumer posts a run, settles one or changes nothing, and a wipe empties the board.

The last two assume more than the first: the entries found at the first start contain no reply and no prediction (another
responder's would be shown with a run this listener did not answer), the first of them is no query (a replay after a wipe may leave out
ordinal 0, see `ReplayShowsLaterQueries`) and the deletion of the cursor does not fail (the replay would begin in the middle). The instance of
`server_board` satisfies all of them.

Only model-checked: liveness (`CatchesUp`, `Recovers`, `ModelCallEnds`, `AggregationEnds`, `EndToEnd`, `PageSettles`).
It stays with TLC: neither fairness nor ENABLED is in reach of the prover. The safety part of the two refinements is all there is to
them, since neither abstract specification has fairness.

## Not modelled, and why

- The daemon itself, its storage and the hub: not in this repository.
- Socket discovery, path shortening, base64, authentication tokens: no rule depends on them.
- A second server on the same cursor names: `config.rs` and the deployment exclude it. A responder without
  a cursor of its own (`panel-run.sh`) is in `Listener`.
- The runner `panel-run` of `submit`: it starts a script of the other repository and forgets it.
- `cursor_move_head`: nobody calls it.
- Languages, string tables, verdicts, layout, the mean error of the calibration, the static mockup: no state.
- The reading methods of the store beyond what `Pages` and `Server` take from them.
- Configuration: environment variables with defaults; what they choose is a constant of a module.

## Plan

Done: the core (`Rapids`, `Store`, `View`, `Consumer`, `Listener`, `Voices`); the composition (`Server`, `Board`); the
requests of the client (`Reader`); the children (`Call`); the pages (`Pages`); the deployment (`Deploy`); the theorems above.

Left, in this order:

1. `OnePrediction`, `LabelTrue` and `CountedWereQueued` of the listener inside `Server`: `ListenerTurns` carries them over, but a wipe
   needs a step of its own in each.
2. `OutcomeSettled` with several handlers, for the runs no two of them write at once.
