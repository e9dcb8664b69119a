------------------------------ MODULE RunMeta -------------------------------
(***************************************************************************)
(* The table run_meta of server/src/store.rs: which engine a run was       *)
(* submitted for and which one answered it.  It is written by the submit   *)
(* handler and by the listener, and knows no foreign key: a row may come   *)
(* before the run it is about.                                             *)
(***************************************************************************)
VARIABLE meta       \* table run_meta, keyed by item_ordinal

\* The engine names: the two a form can ask for, and the label of a run whose
\* model could not be reached ("mock (model unreachable)").
Requests == {"mock", "model"}
Degraded == "mock (model unreachable)"
Engines  == Requests \cup {Degraded}
NoEngine == "null"      \* SQL NULL

Meta == [requested : Requests \cup {NoEngine}, used : Engines \cup {NoEngine}]

EmptyMeta == [i \in {} |-> [requested |-> NoEngine, used |-> NoEngine]]

Row(i) == IF i \in DOMAIN meta THEN meta[i] ELSE [requested |-> NoEngine, used |-> NoEngine]

\* INSERT .. ON CONFLICT (item_ordinal) DO UPDATE SET one column
Upserted(i, row) == [k \in DOMAIN meta \cup {i} |-> IF k = i THEN row ELSE meta[k]]

SetEngineRequested(i, engine) == meta' = Upserted(i, [Row(i) EXCEPT !.requested = engine])

SetEngineUsed(i, engine) == meta' = Upserted(i, [Row(i) EXCEPT !.used = engine])

EngineRequested(i) == Row(i).requested

EngineUsed(i) == Row(i).used

=============================================================================
