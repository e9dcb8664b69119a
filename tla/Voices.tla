------------------------------- MODULE Voices -------------------------------
(***************************************************************************)
(* Which reply texts the page may show: the lock of each persona, from the *)
(* seeding at start (server/src/main.rs, seeds.rs) through the replies the *)
(* consumer ingests to the operators' toggles (server/src/routes.rs).      *)
(*                                                                         *)
(* OVK's panel file weights.tsv is read by main at start and again by the  *)
(* listener for every query, so that the panel that replies is the present *)
(* file and the personas that were seeded are those of an earlier one.     *)
(* Here a query, its replies and their ingestion are adjacent steps; the   *)
(* queue between them is the subject of Consumer.                          *)
(***************************************************************************)
EXTENDS Store, FiniteSets

CONSTANTS
    Members,       \* the persona ids weights.tsv may ever list
    Outlaws,       \* those whose archetype is "Outlaw"
    MaxEntries,    \* queries and replies that are ever ingested
    Faults         \* the faults that may happen, from FaultKinds

FaultKinds == {"crash",        \* the process dies, or stops in its seeding
               "unreadable",   \* weights.tsv cannot be read at a start
               "sync",         \* OVK's checkout is synced while the server runs
               "wipe"}         \* the database is deleted while the server is down

ASSUME VoicesAssumption ==
    /\ Outlaws \subseteq Members
    /\ MaxEntries \in Nat
    /\ Faults \subseteq FaultKinds

VARIABLES
    listed,     \* the personas in weights.tsv
    up,         \* whether the server has got past its seeding
    ingested,   \* the number of entries ingested; the ordinal of the next one
    heard,      \* the personas with replies on the queue
    chosen,     \* auxiliary: persona -> the lock its operator toggled it to
    seeded      \* auxiliary: personas the present database was seeded with

vars == <<storeVars, listed, up, ingested, heard, chosen, seeded>>

NoChoice == [p \in {} |-> FALSE]

Init ==
    /\ StoreInit
    /\ listed \in SUBSET Members
    /\ up = FALSE
    /\ ingested = 0
    /\ heard = {}
    /\ chosen = NoChoice
    /\ seeded = {}

-----------------------------------------------------------------------------
(* Starting: seeds::load, then seed_personas, one INSERT per line.         *)

\* role_for: the Outlaw ships locked, every other archetype open.
LockedByDefault(p) == p \in Outlaws

SeedsFor(members) == [p \in members |-> LockedByDefault(p)]

Start ==
    /\ ~up
    /\ \/ SeedPersonas(SeedsFor(listed)) /\ seeded' = seeded \cup listed
       \/ "unreadable" \in Faults /\ UNCHANGED <<storeVars, seeded>>   \* only warned of
    /\ up' = TRUE
    /\ UNCHANGED <<listed, ingested, heard, chosen>>

\* An INSERT fails or the process dies: main returns before anything is served.
StartFails ==
    /\ "crash" \in Faults
    /\ ~up
    /\ \E done \in SUBSET listed :
          /\ SeedPersonas(SeedsFor(done))
          /\ seeded' = seeded \cup done
    /\ UNCHANGED <<listed, up, ingested, heard, chosen>>

Stop ==
    /\ up
    /\ up' = FALSE
    /\ UNCHANGED <<storeVars, listed, ingested, heard, chosen, seeded>>

-----------------------------------------------------------------------------
(* The consumer's side. *)

IngestQuery ==
    /\ up
    /\ ingested < MaxEntries
    /\ UpsertRun(ingested)
    /\ ingested' = ingested + 1
    /\ UNCHANGED <<listed, up, heard, chosen, seeded>>

\* A persona of the present file replies, or an old reply is replayed.
IngestReply ==
    /\ up
    /\ ingested < MaxEntries
    /\ \E p \in listed \cup heard :
          /\ AttachReply(ingested, p)
          /\ heard' = heard \cup {p}
    /\ ingested' = ingested + 1
    /\ UNCHANGED <<listed, up, chosen, seeded>>

\* The row of the persona is made, the row of the reply is not.
IngestReplyPart ==
    /\ "crash" \in Faults
    /\ up
    /\ ingested < MaxEntries
    /\ \E p \in listed \cup heard :
          /\ AttachReplyPart1(ingested, p)
          /\ heard' = heard \cup {p}
    /\ up' = FALSE
    /\ UNCHANGED <<listed, ingested, chosen, seeded>>

\* A reply whose commit was lost is ingested again.
IngestAgain ==
    /\ up
    /\ \E r \in DOMAIN replies : AttachReply(r, replies[r].persona)
    /\ UNCHANGED <<listed, up, ingested, heard, chosen, seeded>>

-----------------------------------------------------------------------------
(* The operators' side, and the world's. *)

\* toggle_lock: a click on the lock of a persona; an id without a row is no error.
ToggleLock ==
    /\ up
    /\ \E p \in DOMAIN personas :
          /\ ToggleLocked(p)
          /\ chosen' = [q \in DOMAIN chosen \cup {p} |->
                          IF q = p THEN ~personas[p].locked ELSE chosen[q]]
    /\ UNCHANGED <<listed, up, ingested, heard, seeded>>

\* OVK's panel gains or loses a persona.
Sync ==
    /\ "sync" \in Faults \/ ~up
    /\ listed' \in SUBSET Members
    /\ UNCHANGED <<storeVars, up, ingested, heard, chosen, seeded>>

\* The replies come back with the replay.
Wipe ==
    /\ "wipe" \in Faults
    /\ ~up
    /\ EraseStore
    /\ ingested' = 0
    /\ chosen' = NoChoice
    /\ seeded' = {}
    /\ UNCHANGED <<listed, up, heard>>

Next ==
    \/ Start
    \/ StartFails
    \/ Stop
    \/ IngestQuery
    \/ IngestReply
    \/ IngestReplyPart
    \/ IngestAgain
    \/ ToggleLock
    \/ Sync
    \/ Wipe

Spec == Init /\ [][Next]_vars

-----------------------------------------------------------------------------
(* Properties. *)

\* Every variable has its type, and replies know their run and their persona.
TypeOK ==
    /\ listed \subseteq Members
    /\ up \in BOOLEAN
    /\ ingested \in 0 .. MaxEntries
    /\ heard \subseteq Members
    /\ DOMAIN personas \subseteq Members
    /\ personas \in [DOMAIN personas -> Persona]
    /\ DOMAIN chosen \subseteq DOMAIN personas
    /\ \A r \in DOMAIN replies :
          replies[r].item \in DOMAIN runs /\ replies[r].persona \in DOMAIN personas

\* "Operators can unlock per persona; that choice sticks (lock_touched) across
\* reseeds" (seeds.rs 12-13): through restarts, half-done seedings, replies and
\* changes of the panel, a persona an operator toggled has the lock its last
\* toggle gave it.
ChoiceSticks == \A p \in DOMAIN chosen : personas[p].locked = chosen[p]

TextsOf(p) == {r \in DOMAIN replies : replies[r].persona = p}

\* "The hostile-amplification voice (Outlaw) ships locked: its score counts,
\* its text is never shown" (seeds.rs 11-12): a reply by an Outlaw that no
\* operator unlocked is on no page.
OutlawWithheld ==
    up => \A p \in Outlaws \ DOMAIN chosen : TextsOf(p) # {} => personas[p].locked

\* The same for the Outlaws this database was ever seeded with: once seeded, an
\* Outlaw stays withheld through failed seedings, unread panel files, syncs
\* that drop it and bring it back, and replies that are ingested again.
SeededOutlawWithheld ==
    up => \A p \in (Outlaws \cap seeded) \ DOMAIN chosen :
            TextsOf(p) # {} => personas[p].locked

=============================================================================
