-------------------------------- MODULE Store --------------------------------
(***************************************************************************)
(* The SQLite enrichment store of server/src/store.rs: the tables the      *)
(* consumer fills from the queue and the operators enrich.  The table      *)
(* run_meta has a module of its own (RunMeta), for its readers and writers *)
(* are others.                                                             *)
(*                                                                         *)
(* A table is a function from primary keys to rows.  Texts that no rule    *)
(* looks into (draft, reply body, JSON, timestamps) are left out; a JSON   *)
(* column is always written together with the ordinal of the entry it      *)
(* comes from, so the ordinal stands for both.  The status column is       *)
(* written together with prediction_ordinal and is derived from it.        *)
(*                                                                         *)
(* Every method runs under the store mutex, so a method is one step.  The  *)
(* connection is in autocommit mode: a method of several statements can    *)
(* stop between two of them (a crash, a full disk); the operators whose    *)
(* name ends in Part1 are what its first statement leaves behind.          *)
(***************************************************************************)
EXTENDS Integers

CONSTANT Notes      \* the texts an operator may save as a note

VARIABLES
    runs,           \* table runs, keyed by item_ordinal
    replies,        \* table replies, keyed by ordinal
    personas        \* table personas, keyed by id

storeVars == <<runs, replies, personas>>

NoOrdinal == -1     \* SQL NULL in an ordinal column
NoNotes   == "none" \* the empty text, default of the column notes

ASSUME StoreAssumption == NoNotes \notin Notes

Run   == [prediction : Nat \cup {NoOrdinal}, outcome : Nat \cup {NoOrdinal},
          notes : Notes \cup {NoNotes}, archived : BOOLEAN]
Persona == [locked : BOOLEAN, touched : BOOLEAN]

NewRun == [prediction |-> NoOrdinal, outcome |-> NoOrdinal,
           notes |-> NoNotes, archived |-> FALSE]
NewPersona == [locked |-> FALSE, touched |-> FALSE]

EmptyTable == [k \in {} |-> NewRun]

StoreInit ==
    /\ runs = EmptyTable
    /\ replies = EmptyTable
    /\ personas = EmptyTable

-----------------------------------------------------------------------------
(* SQL, as functions on tables. *)

\* Mutant: INSERT OR REPLACE.
Replaced(table, key, row) ==
    [k \in DOMAIN table \cup {key} |-> IF k = key THEN row ELSE table[k]]

\* INSERT .. ON CONFLICT (key) DO NOTHING
Inserted(table, key, row) ==
    [k \in DOMAIN table \cup {key} |-> IF k \in DOMAIN table THEN table[k] ELSE row]

\* UPDATE .. SET .. WHERE key: no row, no change
WithPrediction(i, p) ==
    [k \in DOMAIN runs |-> IF k = i THEN [runs[k] EXCEPT !.prediction = p] ELSE runs[k]]
WithOutcome(i, o) ==
    [k \in DOMAIN runs |-> IF k = i THEN [runs[k] EXCEPT !.outcome = o] ELSE runs[k]]
WithNotes(i, text) ==
    [k \in DOMAIN runs |-> IF k = i THEN [runs[k] EXCEPT !.notes = text] ELSE runs[k]]
WithArchived(i, to) ==
    [k \in DOMAIN runs |-> IF k = i THEN [runs[k] EXCEPT !.archived = to] ELSE runs[k]]

-----------------------------------------------------------------------------
(* Ingestion, called by the consumer. *)

UpsertRun(n) ==
    /\ runs' = Inserted(runs, n, NewRun)
    /\ UNCHANGED <<replies, personas>>

\* SELECT item_ordinal FROM runs WHERE item_ordinal < n ORDER BY 1 DESC LIMIT 1
IsLastRunBefore(i, n) ==
    /\ i \in DOMAIN runs
    /\ i < n
    /\ \A j \in DOMAIN runs : j < n => j <= i

HasRunBefore(n) == \E i \in DOMAIN runs : i < n

AttachReplyPart1(n, p) ==
    /\ HasRunBefore(n)
    /\ personas' = Inserted(personas, p, NewPersona)
    /\ UNCHANGED <<runs, replies>>

\* Mutant: the reply's persona is taken to be seeded.
AttachReplyOfSeeded(n, p) ==
    /\ \E i \in DOMAIN runs :
          /\ IsLastRunBefore(i, n)
          /\ replies' = Inserted(replies, n, [item |-> i, persona |-> p])
    /\ UNCHANGED <<runs, personas>>

AttachReply(n, p) ==
    \/ /\ \E i \in DOMAIN runs :
             /\ IsLastRunBefore(i, n)
             /\ replies' = Inserted(replies, n, [item |-> i, persona |-> p])
       /\ personas' = Inserted(personas, p, NewPersona)
       /\ UNCHANGED runs
    \/ /\ ~HasRunBefore(n)          \* no preceding content:query: skipped
       /\ UNCHANGED storeVars

SetPredictionPart1(i, p) ==
    /\ runs' = WithPrediction(i, p)
    /\ UNCHANGED <<replies, personas>>

\* Mutant: every earlier reply, whatever the previous prediction.
AllBefore(i, p) == {r \in DOMAIN replies : 0 < r /\ r < p}

\* The replies between the previous prediction and p.  The previous one is
\* looked up after p was written into its own run: MAX(prediction_ordinal)
\* over the runs whose prediction_ordinal is below p, 0 if there is none.
ReanchoredBy(i, p) ==
    {r \in DOMAIN replies :
        /\ 0 < r
        /\ r < p
        /\ \A j \in DOMAIN runs \ {i} :
              runs[j].prediction # NoOrdinal /\ runs[j].prediction < p
                  => runs[j].prediction < r}

Reanchored(i, p) ==
    [r \in DOMAIN replies |->
        IF r \in ReanchoredBy(i, p) THEN [replies[r] EXCEPT !.item = i] ELSE replies[r]]

\* Mutant: foreign keys off.
AnyPrediction(i, p) == TRUE

\* replies.item_ordinal REFERENCES runs: the bundled SQLite is built with
\* foreign keys on, so moving a reply to an item without a run is an error.
PredictionAccepted(i, p) == i \in DOMAIN runs \/ ReanchoredBy(i, p) = {}

SetPrediction(i, p) ==
    /\ PredictionAccepted(i, p)
    /\ runs' = WithPrediction(i, p)
    /\ replies' = Reanchored(i, p)
    /\ UNCHANGED personas

-----------------------------------------------------------------------------
(* Enrichment, called by the routes; set_outcome by the consumer as well. *)

SetOutcome(i, o) ==
    /\ runs' = WithOutcome(i, o)
    /\ UNCHANGED <<replies, personas>>

SetNotes(i, text) ==
    /\ runs' = WithNotes(i, text)
    /\ UNCHANGED <<replies, personas>>

SetArchived(i, to) ==
    /\ runs' = WithArchived(i, to)
    /\ UNCHANGED <<replies, personas>>

ToggleLocked(p) ==
    /\ personas' = [k \in DOMAIN personas |->
                      IF k = p THEN [locked |-> ~personas[k].locked, touched |-> TRUE]
                      ELSE personas[k]]
    /\ UNCHANGED <<runs, replies>>

\* Mutant: the seed's default wins over the operator.
SeedAll(seeds) ==
    /\ personas' = [k \in DOMAIN personas \cup DOMAIN seeds |->
                      IF k \in DOMAIN seeds THEN [locked |-> seeds[k], touched |-> FALSE]
                      ELSE personas[k]]
    /\ UNCHANGED <<runs, replies>>

\* INSERT .. ON CONFLICT (id) DO UPDATE, for every line of the seed file;
\* seeds maps a persona id to the default of its lock.
SeedPersonas(seeds) ==
    /\ personas' = [k \in DOMAIN personas \cup DOMAIN seeds |->
                      IF k \notin DOMAIN seeds THEN personas[k]
                      ELSE IF k \in DOMAIN personas /\ personas[k].touched THEN personas[k]
                      ELSE [locked |-> seeds[k], touched |-> FALSE]]
    /\ UNCHANGED <<runs, replies>>

\* The database file is deleted while the server is down.
EraseStore ==
    /\ runs' = EmptyTable
    /\ replies' = EmptyTable
    /\ personas' = EmptyTable

=============================================================================
