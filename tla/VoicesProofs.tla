---------------------------- MODULE VoicesProofs ----------------------------
(***************************************************************************)
(* An operator's choice of a lock sticks, and a seeded Outlaw is withheld  *)
(* until an operator unlocks it, for every panel and however often and     *)
(* however badly the server is restarted and seeded.                       *)
(***************************************************************************)
EXTENDS Voices, TLAPS

\* What makes ChoiceSticks inductive: a toggled row is marked as touched.
ChoiceRecorded ==
    \A p \in DOMAIN chosen :
        /\ p \in DOMAIN personas
        /\ personas[p].touched = TRUE
        /\ personas[p].locked = chosen[p]

\* A step that leaves the rows of toggled personas alone keeps the choices.
LEMMA RowsKept ==
    ASSUME ChoiceRecorded,
           chosen' = chosen,
           \A p \in DOMAIN chosen : p \in DOMAIN personas' /\ personas'[p] = personas[p]
    PROVE  ChoiceRecorded'
BY DEF ChoiceRecorded

\* ON CONFLICT DO NOTHING never changes a row that is there.
LEMMA InsertedKeeps ==
    ASSUME NEW table, NEW key, NEW row, NEW k \in DOMAIN table
    PROVE  k \in DOMAIN Inserted(table, key, row) /\ Inserted(table, key, row)[k] = table[k]
BY DEF Inserted

LEMMA AttachKeeps ==
    ASSUME NEW n, NEW p, AttachReply(n, p) \/ AttachReplyPart1(n, p), NEW k \in DOMAIN personas
    PROVE  k \in DOMAIN personas' /\ personas'[k] = personas[k]
BY InsertedKeeps DEF AttachReply, AttachReplyPart1, storeVars

LEMMA SeedingKeeps ==
    ASSUME NEW seeds, SeedPersonas(seeds), NEW k \in DOMAIN personas, personas[k].touched = TRUE
    PROVE  k \in DOMAIN personas' /\ personas'[k] = personas[k]
BY DEF SeedPersonas

LEMMA ChoiceStep == ChoiceRecorded /\ [Next]_vars => ChoiceRecorded'
<1> SUFFICES ASSUME ChoiceRecorded, [Next]_vars PROVE ChoiceRecorded'
  OBVIOUS
<1>1. CASE Start
  BY <1>1, SeedingKeeps, RowsKept DEF Start, storeVars, ChoiceRecorded
<1>2. CASE StartFails
  BY <1>2, SeedingKeeps, RowsKept DEF StartFails, ChoiceRecorded
<1>3. CASE Stop
  BY <1>3 DEF Stop, storeVars, ChoiceRecorded
<1>4. CASE IngestQuery
  BY <1>4 DEF IngestQuery, UpsertRun, ChoiceRecorded
<1>5. CASE IngestReply
  BY <1>5, AttachKeeps, RowsKept DEF IngestReply, ChoiceRecorded
<1>6. CASE IngestReplyPart
  BY <1>6, AttachKeeps, RowsKept DEF IngestReplyPart, ChoiceRecorded
<1>7. CASE IngestAgain
  BY <1>7, AttachKeeps, RowsKept DEF IngestAgain, ChoiceRecorded
<1>8. CASE ToggleLock
  <2> PICK p \in DOMAIN personas :
        /\ ToggleLocked(p)
        /\ chosen' = [q \in DOMAIN chosen \cup {p} |->
                        IF q = p THEN ~personas[p].locked ELSE chosen[q]]
    BY <1>8 DEF ToggleLock
  <2>1. DOMAIN chosen' = DOMAIN chosen \cup {p} /\ DOMAIN personas' = DOMAIN personas
    BY DEF ToggleLocked
  <2>2. personas'[p] = [locked |-> ~personas[p].locked, touched |-> TRUE]
        /\ chosen'[p] = ~personas[p].locked
    BY DEF ToggleLocked
  <2>3. \A q \in DOMAIN chosen \ {p} :
           q \in DOMAIN personas => personas'[q] = personas[q] /\ chosen'[q] = chosen[q]
    BY DEF ToggleLocked
  <2> QED
    BY <2>1, <2>2, <2>3 DEF ChoiceRecorded
<1>9. CASE Sync
  BY <1>9 DEF Sync, storeVars, ChoiceRecorded
<1>10. CASE Wipe
  BY <1>10 DEF Wipe, NoChoice, ChoiceRecorded
<1>11. CASE UNCHANGED vars
  BY <1>11 DEF vars, storeVars, ChoiceRecorded
<1> QED
  BY <1>1, <1>2, <1>3, <1>4, <1>5, <1>6, <1>7, <1>8, <1>9, <1>10, <1>11 DEF Next

\* "Operators can unlock per persona; that choice sticks (lock_touched) across
\* reseeds" (seeds.rs 12-13): through every sequence of restarts, failed
\* seedings, replies and changes of the panel, a toggled lock is as its last
\* toggle left it.
THEOREM ChoiceAlwaysSticks == Spec => []ChoiceSticks
<1>1. Init => ChoiceRecorded
  BY DEF Init, NoChoice, ChoiceRecorded
<1>2. ChoiceRecorded /\ [Next]_vars => ChoiceRecorded'
  BY ChoiceStep
<1>3. ChoiceRecorded => ChoiceSticks
  BY DEF ChoiceRecorded, ChoiceSticks
<1> QED
  BY <1>1, <1>2, <1>3, PTL DEF Spec

-----------------------------------------------------------------------------
(* Types, and the locks no operator toggled. *)

\* A reply changes the tables at one key each, and finds its run there.
LEMMA AttachTypes ==
    ASSUME TypeOK, NEW n, NEW p \in Members, AttachReply(n, p) \/ AttachReplyPart1(n, p)
    PROVE  /\ runs' = runs
           /\ DOMAIN personas \subseteq DOMAIN personas'
           /\ DOMAIN personas' \subseteq DOMAIN personas \cup {p}
           /\ personas' \in [DOMAIN personas' -> Persona]
           /\ \A r \in DOMAIN replies' :
                 replies'[r].item \in DOMAIN runs /\ replies'[r].persona \in DOMAIN personas'
  <1>1. CASE UNCHANGED storeVars
    BY <1>1 DEF storeVars, TypeOK
  <1>2. CASE personas' = Inserted(personas, p, NewPersona)
    <2>1. /\ DOMAIN personas' = DOMAIN personas \cup {p}
          /\ personas' \in [DOMAIN personas' -> Persona]
      BY <1>2 DEF Inserted, NewPersona, Persona, TypeOK
    <2>2. runs' = runs
      BY DEF AttachReply, AttachReplyPart1, storeVars
    <2>3. ASSUME NEW i \in DOMAIN runs,
                 replies' = Inserted(replies, n, [item |-> i, persona |-> p])
          PROVE  \A r \in DOMAIN replies' :
                    replies'[r].item \in DOMAIN runs /\ replies'[r].persona \in DOMAIN personas'
      BY <2>1, <2>3 DEF Inserted, TypeOK
    <2>4. ASSUME replies' = replies
          PROVE  \A r \in DOMAIN replies' :
                    replies'[r].item \in DOMAIN runs /\ replies'[r].persona \in DOMAIN personas'
      BY <2>1, <2>4 DEF TypeOK
    <2> QED
      BY <2>1, <2>2, <2>3, <2>4 DEF AttachReply, AttachReplyPart1, storeVars
  <1> QED
    BY <1>1, <1>2 DEF AttachReply, AttachReplyPart1

LEMMA SeedingTypes ==
    ASSUME TypeOK, NEW members \in SUBSET Members, SeedPersonas(SeedsFor(members))
    PROVE  /\ runs' = runs /\ replies' = replies
           /\ DOMAIN personas' = DOMAIN personas \cup members
           /\ personas' \in [DOMAIN personas' -> Persona]
  <1>1. DOMAIN SeedsFor(members) = members
        /\ \A p \in members : SeedsFor(members)[p] \in BOOLEAN
    BY DEF SeedsFor, LockedByDefault
  <1> HIDE DEF SeedsFor
  <1>2. DOMAIN personas' = DOMAIN personas \cup members
    BY <1>1 DEF SeedPersonas
  <1>3. ASSUME NEW p \in DOMAIN personas' PROVE personas'[p] \in Persona
    BY <1>1, <1>2 DEF SeedPersonas, Persona, TypeOK
  <1>4. personas' = [p \in DOMAIN personas' |-> personas'[p]]
    BY DEF SeedPersonas
  <1> QED
    BY <1>2, <1>3, <1>4 DEF SeedPersonas

\* What makes SeededOutlawWithheld inductive: only operators mark a row as
\* touched, every persona the database was seeded with has a row, and the row
\* of an Outlaw among them is locked, with or without replies.
OutlawsLocked ==
    /\ \A p \in DOMAIN personas : personas[p].touched = TRUE => p \in DOMAIN chosen
    /\ seeded \subseteq DOMAIN personas
    /\ \A p \in (Outlaws \cap seeded) \ DOMAIN chosen : personas[p].locked = TRUE

LockInv == TypeOK /\ ChoiceRecorded /\ OutlawsLocked

\* A row that is new was not touched; the others are as before.
LEMMA RowsAdded ==
    ASSUME LockInv, UNCHANGED <<chosen, seeded>>, DOMAIN personas \subseteq DOMAIN personas',
           \A p \in DOMAIN personas : personas'[p] = personas[p],
           \A p \in DOMAIN personas' \ DOMAIN personas : personas'[p] = NewPersona
    PROVE  OutlawsLocked'
BY DEF LockInv, OutlawsLocked, NewPersona

LEMMA AttachAdds ==
    ASSUME NEW n, NEW p, AttachReply(n, p) \/ AttachReplyPart1(n, p)
    PROVE  /\ DOMAIN personas \subseteq DOMAIN personas'
           /\ \A k \in DOMAIN personas : personas'[k] = personas[k]
           /\ \A k \in DOMAIN personas' \ DOMAIN personas : personas'[k] = NewPersona
BY DEF AttachReply, AttachReplyPart1, storeVars, Inserted

\* Seeding locks the Outlaws it comes to, unless an operator was there first.
LEMMA SeedingLocks ==
    ASSUME LockInv, NEW members \in SUBSET Members, SeedPersonas(SeedsFor(members)),
           seeded' = seeded \cup members, chosen' = chosen
    PROVE  OutlawsLocked'
  <1>1. DOMAIN personas' = DOMAIN personas \cup members
    BY SeedingTypes DEF LockInv
  <1>2. ASSUME NEW p \in members, ~(p \in DOMAIN personas /\ personas[p].touched)
        PROVE  /\ personas'[p].touched = FALSE
               /\ p \in Outlaws => personas'[p].locked = TRUE
    <2>1. p \in DOMAIN SeedsFor(members) /\ (p \in Outlaws => SeedsFor(members)[p] = TRUE)
      BY DEF SeedsFor, LockedByDefault
    <2> HIDE DEF SeedsFor
    <2>2. /\ personas'[p].locked = SeedsFor(members)[p]
          /\ personas'[p].touched = FALSE
      BY <1>1, <1>2, <2>1 DEF SeedPersonas
    <2> QED
      BY <2>1, <2>2
  <1>3. ASSUME NEW p \in DOMAIN personas, p \notin members \/ personas[p].touched
        PROVE  personas'[p] = personas[p]
    BY <1>1, <1>3 DEF SeedPersonas, SeedsFor
  <1>4. \A p \in DOMAIN personas : personas[p].touched \in BOOLEAN
    BY DEF LockInv, TypeOK, Persona
  <1>5. ASSUME NEW p \in DOMAIN personas', personas'[p].touched = TRUE
        PROVE  p \in DOMAIN chosen
    BY <1>1, <1>2, <1>3, <1>4, <1>5 DEF LockInv, OutlawsLocked
  <1>6. ASSUME NEW p \in (Outlaws \cap (seeded \cup members)) \ DOMAIN chosen
        PROVE  personas'[p].locked = TRUE
    <2>1. ~(p \in DOMAIN personas /\ personas[p].touched)
      BY <1>4 DEF LockInv, OutlawsLocked
    <2>2. CASE p \in members
      BY <1>2, <2>1, <2>2
    <2>3. CASE p \notin members
      BY <1>3, <2>3 DEF LockInv, OutlawsLocked
    <2> QED
      BY <2>2, <2>3
  <1> QED
    BY <1>1, <1>5, <1>6 DEF LockInv, OutlawsLocked

LEMMA LockTypeStep == ASSUME TypeOK, Next PROVE TypeOK'
  <1>1. CASE Start
    <2>1. CASE SeedPersonas(SeedsFor(listed))
      BY <1>1, <2>1, SeedingTypes DEF Start, TypeOK
    <2>2. CASE UNCHANGED storeVars
      BY <1>1, <2>2 DEF Start, TypeOK, storeVars
    <2> QED
      BY <1>1, <2>1, <2>2 DEF Start
  <1>2. CASE StartFails
    <2> PICK done \in SUBSET listed : SeedPersonas(SeedsFor(done))
      BY <1>2 DEF StartFails
    <2> done \in SUBSET Members
      BY DEF TypeOK
    <2> QED
      BY <1>2, SeedingTypes DEF StartFails, TypeOK
  <1>3. CASE Stop
    BY <1>3 DEF Stop, TypeOK, storeVars
  <1>4. CASE IngestQuery
    <2> ingested' \in 0 .. MaxEntries
      BY <1>4, VoicesAssumption DEF IngestQuery, TypeOK
    <2> QED
      BY <1>4 DEF IngestQuery, UpsertRun, Inserted, TypeOK
  <1>5. CASE IngestReply
    <2> PICK p \in listed \cup heard : AttachReply(ingested, p) /\ heard' = heard \cup {p}
      BY <1>5 DEF IngestReply
    <2> p \in Members
      BY DEF TypeOK
    <2> ingested' \in 0 .. MaxEntries
      BY <1>5, VoicesAssumption DEF IngestReply, TypeOK
    <2> QED
      BY <1>5, AttachTypes DEF IngestReply, TypeOK
  <1>6. CASE IngestReplyPart
    <2> PICK p \in listed \cup heard : AttachReplyPart1(ingested, p) /\ heard' = heard \cup {p}
      BY <1>6 DEF IngestReplyPart
    <2> p \in Members
      BY DEF TypeOK
    <2> QED
      BY <1>6, AttachTypes DEF IngestReplyPart, TypeOK
  <1>7. CASE IngestAgain
    <2> PICK r \in DOMAIN replies : AttachReply(r, replies[r].persona)
      BY <1>7 DEF IngestAgain
    <2> replies[r].persona \in Members /\ replies[r].persona \in DOMAIN personas
      BY DEF TypeOK
    <2> QED
      BY <1>7, AttachTypes DEF IngestAgain, TypeOK
  <1>8. CASE ToggleLock
    <2> PICK p \in DOMAIN personas :
          ToggleLocked(p) /\ DOMAIN chosen' = DOMAIN chosen \cup {p}
      BY <1>8 DEF ToggleLock
    <2>1. DOMAIN personas' = DOMAIN personas /\ UNCHANGED <<runs, replies>>
          /\ personas' \in [DOMAIN personas' -> Persona]
      BY DEF ToggleLocked, Persona, TypeOK
    <2> QED
      BY <1>8, <2>1 DEF ToggleLock, TypeOK
  <1>9. CASE Sync
    BY <1>9 DEF Sync, TypeOK, storeVars
  <1>10. CASE Wipe
    BY <1>10, VoicesAssumption DEF Wipe, EraseStore, EmptyTable, NoChoice, TypeOK
  <1> QED
    BY <1>1, <1>2, <1>3, <1>4, <1>5, <1>6, <1>7, <1>8, <1>9, <1>10 DEF Next

LEMMA LockStep == ASSUME LockInv, Next PROVE OutlawsLocked'
  <1>1. CASE Start
    <2>1. CASE UNCHANGED <<storeVars, seeded>>
      BY <1>1, <2>1 DEF Start, LockInv, OutlawsLocked, storeVars
    <2>2. CASE SeedPersonas(SeedsFor(listed)) /\ seeded' = seeded \cup listed
      BY <1>1, <2>2, SeedingLocks DEF Start, LockInv, TypeOK
    <2> QED
      BY <1>1, <2>1, <2>2 DEF Start
  <1>2. CASE StartFails
    <2> PICK done \in SUBSET listed : SeedPersonas(SeedsFor(done)) /\ seeded' = seeded \cup done
      BY <1>2 DEF StartFails
    <2> done \in SUBSET Members
      BY DEF LockInv, TypeOK
    <2> QED
      BY <1>2, SeedingLocks DEF StartFails
  <1>3. CASE Stop \/ Sync
    BY <1>3 DEF Stop, Sync, LockInv, OutlawsLocked, storeVars
  <1>4. CASE IngestQuery
    BY <1>4 DEF IngestQuery, UpsertRun, LockInv, OutlawsLocked
  <1>5. CASE IngestReply \/ IngestReplyPart \/ IngestAgain
    BY <1>5, AttachAdds, RowsAdded DEF IngestReply, IngestReplyPart, IngestAgain
  <1>6. CASE ToggleLock
    <2> PICK p \in DOMAIN personas :
          ToggleLocked(p) /\ DOMAIN chosen' = DOMAIN chosen \cup {p}
      BY <1>6 DEF ToggleLock
    <2>1. DOMAIN personas' = DOMAIN personas
          /\ \A q \in DOMAIN personas \ {p} : personas'[q] = personas[q]
      BY DEF ToggleLocked
    <2>2. seeded' = seeded
      BY <1>6 DEF ToggleLock
    <2> QED
      BY <2>1, <2>2 DEF LockInv, OutlawsLocked
  <1>7. CASE Wipe
    BY <1>7 DEF Wipe, EraseStore, EmptyTable, NoChoice, OutlawsLocked
  <1> QED
    BY <1>1, <1>2, <1>3, <1>4, <1>5, <1>6, <1>7 DEF Next

LEMMA LockInvariant == Spec => []LockInv
<1>1. Init => LockInv
  <2> SUFFICES ASSUME Init PROVE LockInv
    OBVIOUS
  <2>1. DOMAIN runs = {} /\ DOMAIN replies = {} /\ DOMAIN personas = {} /\ DOMAIN chosen = {}
    BY DEF Init, StoreInit, EmptyTable, NoChoice
  <2>2. personas \in [DOMAIN personas -> Persona]
    <3>1. personas = [k \in {} |-> NewRun]
      BY DEF Init, StoreInit, EmptyTable
    <3> QED
      BY <2>1, <3>1
  <2>3. ingested \in 0 .. MaxEntries
    BY VoicesAssumption DEF Init
  <2>4. TypeOK
    BY <2>1, <2>2, <2>3 DEF Init, TypeOK
  <2> QED
    BY <2>1, <2>4 DEF Init, LockInv, ChoiceRecorded, OutlawsLocked
<1>2. LockInv /\ [Next]_vars => LockInv'
  <2>1. ASSUME LockInv, Next PROVE LockInv'
    BY <2>1, LockTypeStep, ChoiceStep, LockStep DEF LockInv
  <2>2. ASSUME LockInv, UNCHANGED vars PROVE LockInv'
    BY <2>2 DEF vars, storeVars, LockInv, TypeOK, ChoiceRecorded, OutlawsLocked
  <2> QED
    BY <2>1, <2>2
<1> QED
  BY <1>1, <1>2, PTL DEF Spec

\* The variables keep their types; a reply never points at a run or a persona
\* that is not there, although a reply's persona may be in no panel file.
THEOREM VoicesTypes == Spec => []TypeOK
<1>1. LockInv => TypeOK
  BY DEF LockInv
<1> QED
  BY <1>1, LockInvariant, PTL

\* "The hostile-amplification voice (Outlaw) ships locked ... its text is never
\* shown" (seeds.rs 11-12): an Outlaw the database was seeded with stays
\* withheld until an operator unlocks it, whatever is started, stopped, synced,
\* ingested twice or left unread.
THEOREM OutlawsStayWithheld == Spec => []SeededOutlawWithheld
<1>1. LockInv => SeededOutlawWithheld
  BY DEF LockInv, OutlawsLocked, SeededOutlawWithheld
<1> QED
  BY <1>1, LockInvariant, PTL

=============================================================================
