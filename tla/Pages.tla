-------------------------------- MODULE Pages -------------------------------
(***************************************************************************)
(* What the pages make of a run's row: the outcome form and its validation *)
(* (build_outcome), and the three screens that parse what was recorded,    *)
(* each for itself: the list of runs, the page of a run and the            *)
(* calibration table (server/src/routes.rs).                               *)
(*                                                                         *)
(* Numbers are percents, or one of the values a text may also parse to.    *)
(* The steps of the consumer and of the handlers are those of Consumer,    *)
(* with bodies in the place of ordinals.                                   *)
(***************************************************************************)
EXTENDS Integers, Sequences

CONSTANTS
    Items,                \* the runs
    Empty, Text,          \* an empty field, a text that is no number
    NaN, Inf, NegInf,     \* "nan", "inf", "-inf": numbers for str::parse
    Null,                 \* null in JSON, and an absent value
    Fields,               \* what may be typed into a field of the form
    Predictions,          \* weighted favorability of a prediction; Null: left out
    Unreadable,           \* a body that is not of the expected form
    Elsewhere,            \* outcome bodies that other tools append
    MaxOutcomes           \* entries outcome:<item> that are ever appended

Metrics == {"success", "ctr", "conversion", "engagement"}

\* Metrics with null for what is no number in JSON.
IsBody(b) == \E M \in SUBSET Metrics : b \in [M -> Int \cup {Null}]

ASSUME PagesAssumption ==
    /\ {Empty, Text, NaN, Inf, NegInf, Null, Unreadable} \cap Int = {}
    /\ Null # Unreadable /\ ~IsBody(Null) /\ ~IsBody(Unreadable)
    /\ \A b \in Elsewhere : IsBody(b) \/ b = Unreadable
    /\ Fields \subseteq Int \cup {Empty, Text, NaN, Inf, NegInf}
    /\ Null \notin [Metrics -> Fields]
    /\ Predictions \subseteq Int \cup {Null, Unreadable}
    /\ MaxOutcomes \in Nat

VARIABLES
    rows,       \* the table runs
    outcomes,   \* the outcome entries on the queue; typed is auxiliary: the form
    ingested    \* how many of them the consumer has passed

vars == <<rows, outcomes, ingested>>

NoRow == [present |-> FALSE, status |-> "pending", prediction |-> Null, outcome |-> Null]

-----------------------------------------------------------------------------
(* build_outcome. *)

Forms == [Metrics -> Fields]

\* v < 0.0 || (max_one && v > 1.0)
OutOfRange(name, v) ==
    \/ v = NegInf \/ (v \in Int /\ v < 0)
    \/ name # "engagement" /\ (v = Inf \/ (v \in Int /\ v > 100))

\* Mutant: the range is not checked.
AcceptedUnchecked(form) ==
    /\ \E m \in DOMAIN form : form[m] # Empty
    /\ \A m \in DOMAIN form : form[m] # Text

Accepted(form) ==
    /\ \E m \in DOMAIN form : form[m] # Empty
    /\ \A m \in DOMAIN form : form[m] # Text /\ ~OutOfRange(m, form[m])

\* json!(v) is null for what JSON has no number for.
Json(v) == IF v \in Int THEN v ELSE Null

\* Mutant: a field that was left empty is written as null.
BodyWithNulls(form) == [m \in DOMAIN form |-> Json(form[m])]

Body(form) == [m \in {k \in DOMAIN form : form[k] # Empty} |-> Json(form[m])]

-----------------------------------------------------------------------------
(* The screens. *)

\* Outcome: metrics are numbers, every one of them, or nothing is read.
ReadOutcome(body) ==
    IF body \in {Null, Unreadable} \/ \E m \in DOMAIN body : body[m] = Null
    THEN Null ELSE body

\* outcome_view: the metrics that were read.
ActualOf(metrics) ==
    IF metrics # Null /\ "success" \in DOMAIN metrics THEN metrics["success"] ELSE Null

\* Mutant: an outcome without a success is one of 0.
SuccessOrZero(body) ==
    LET read == ReadOutcome(body) IN
    IF read # Null /\ "success" \in DOMAIN read THEN read["success"] ELSE 0

\* outcome_success
OutcomeSuccess(body) ==
    LET read == ReadOutcome(body) IN
    IF read # Null /\ "success" \in DOMAIN read THEN read["success"] ELSE Null

\* pred_view: a favorability that was left out is shown as 0.
Predicted(body) ==
    IF body = Unreadable THEN Null
    ELSE IF body = Null THEN 0 ELSE body

HasPrediction(i) == rows[i].status = "predicted"
PredictedOf(i)   == IF HasPrediction(i) THEN Predicted(rows[i].prediction) ELSE Null

\* runs_list: the mark "actual" of a run.
Marked(i) == rows[i].outcome # Null

\* detail() with run_detail.html: whether the outcome is shown, and the error.
Page(i) ==
    LET p    == PredictedOf(i)
        body == ReadOutcome(rows[i].outcome)
        a    == ActualOf(body)
    IN [outcome |-> body # Null,
        error   |-> IF p = Null \/ a = Null THEN Null ELSE p - a]

\* calibrated_runs() and the rows the handler keeps of them.
Calibration ==
    {[item |-> i, error |-> PredictedOf(i) - OutcomeSuccess(rows[i].outcome)] :
        i \in {k \in Items :
                 /\ rows[k].present /\ HasPrediction(k) /\ rows[k].outcome # Null
                 /\ PredictedOf(k) # Null /\ OutcomeSuccess(rows[k].outcome) # Null}}

-----------------------------------------------------------------------------

Init ==
    /\ rows = [i \in Items |-> NoRow]
    /\ outcomes = <<>>
    /\ ingested = 0

IngestQuery(i) ==
    /\ ~rows[i].present
    /\ rows' = [rows EXCEPT ![i].present = TRUE]
    /\ UNCHANGED <<outcomes, ingested>>

IngestPrediction(i) ==
    /\ rows[i].present
    /\ \E p \in Predictions :
        rows' = [rows EXCEPT ![i].status = "predicted", ![i].prediction = p]
    /\ UNCHANGED <<outcomes, ingested>>

\* set_outcome
WithBody(i, body) == IF rows[i].present THEN [rows EXCEPT ![i].outcome = body] ELSE rows

\* record_outcome: the form may be sent from a page that is out of date, for a
\* run that is pending or is not there any more.
RecordOutcome(i) ==
    /\ Len(outcomes) < MaxOutcomes
    /\ \E form \in Forms :
        /\ Accepted(form)
        /\ outcomes' = Append(outcomes, [item |-> i, body |-> Body(form), typed |-> form])
        /\ rows' = WithBody(i, Body(form))
    /\ UNCHANGED ingested

OutcomeElsewhere(i) ==
    /\ Len(outcomes) < MaxOutcomes
    /\ \E body \in Elsewhere :
        outcomes' = Append(outcomes, [item |-> i, body |-> body, typed |-> Null])
    /\ UNCHANGED <<rows, ingested>>

IngestOutcome ==
    /\ ingested < Len(outcomes)
    /\ LET o == outcomes[ingested + 1] IN rows' = WithBody(o.item, o.body)
    /\ ingested' = ingested + 1
    /\ UNCHANGED outcomes

\* The database is deleted; the consumer starts anew.
Wipe ==
    /\ rows' = [i \in Items |-> NoRow]
    /\ ingested' = 0
    /\ UNCHANGED outcomes

Next ==
    \/ \E i \in Items :
        \/ IngestQuery(i) \/ IngestPrediction(i) \/ RecordOutcome(i) \/ OutcomeElsewhere(i)
    \/ IngestOutcome \/ Wipe

Spec == Init /\ [][Next]_vars

-----------------------------------------------------------------------------
(* Properties. *)

\* A run is in the calibration table when its page shows an error, with the
\* same error: the two are computed by different code from the same row, whatever
\* bodies other tools wrote (routes.rs 271-289, 655-668).
CalibrationAgrees ==
    Calibration = {[item |-> i, error |-> Page(i).error] :
                     i \in {k \in Items : rows[k].present /\ Page(k).error # Null}}

\* An entry of which the screens read nothing: a NaN or an infinity was typed into
\* the form, or another tool wrote something else than numbers.
Unread(o) ==
    IF o.typed = Null THEN ReadOutcome(o.body) = Null
    ELSE \E m \in Metrics : o.typed[m] \in {NaN, Inf}

\* The list and the page of a run tell the same of its outcome, through direct
\* writes, ingests in any order and wipes: what the page shows is marked in the
\* list, and a mark without an outcome on the page comes from an entry for that
\* run that nobody can read.  A NaN is such an entry: the form accepts it
\* (routes.rs 577) and writes null.
ScreensAgree ==
    \A i \in Items : rows[i].present =>
        /\ Page(i).outcome => Marked(i)
        /\ Marked(i) /\ ~Page(i).outcome =>
              \E n \in 1 .. Len(outcomes) : outcomes[n].item = i /\ Unread(outcomes[n])

\* What the form writes has at least one metric, each a number in its range
\* ("success/ctr/conversion in 0..1, engagement >= 0", routes.rs 566-568), or null
\* where a NaN, or for the engagement an infinity, was typed: neither is below 0 or
\* above 1, so the range check lets them through.  Nothing else gets past it.
OutcomesValid ==
    \A n \in 1 .. Len(outcomes) : outcomes[n].typed # Null =>
        LET body == outcomes[n].body
            typed == outcomes[n].typed
        IN
        /\ DOMAIN body # {}
        /\ \A m \in DOMAIN body :
            \/ body[m] \in Nat /\ (m # "engagement" => body[m] <= 100)
            \/ body[m] = Null /\ (typed[m] = NaN \/ (m = "engagement" /\ typed[m] = Inf))

=============================================================================
