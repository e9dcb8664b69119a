---------------------------- MODULE PagesProofs ----------------------------
(***************************************************************************)
(* What the screens make of a row, for any number of runs, whatever is     *)
(* typed, predicted and written by other tools.                            *)
(***************************************************************************)
EXTENDS Pages, TLAPS

Bodies == UNION {[M -> Int \cup {Null}] : M \in SUBSET Metrics}

\* Bodies are what the assumption of Pages calls a body.
LEMMA BodiesAre == \A b : b \in Bodies <=> IsBody(b)
BY DEF Bodies, IsBody

\* What a row may hold as its outcome.
Recorded == Bodies \cup {Null, Unreadable}

\* The rows hold what was on the queue.
Row   == [present : BOOLEAN, status : {"pending", "predicted"},
          prediction : Predictions \cup {Null}, outcome : Recorded]
Entry == [item : Items, body : Recorded, typed : Forms \cup {Null}]

RowsTyped ==
    /\ rows \in [Items -> Row]
    /\ outcomes \in Seq(Entry)
    /\ ingested \in 0 .. Len(outcomes)

\* What JSON can carry of a form.
LEMMA BodyTyped ==
    ASSUME NEW form \in Forms, Accepted(form)
    PROVE  Body(form) \in Bodies
<1> DEFINE M == {k \in DOMAIN form : form[k] # Empty}
<1>1. DOMAIN form = Metrics /\ M \in SUBSET Metrics
  BY DEF Forms
<1>2. \A m \in M : Json(form[m]) \in Int \cup {Null}
  BY DEF Json
<1>3. Body(form) \in [M -> Int \cup {Null}]
  BY <1>2 DEF Body
<1>4. QED
  BY <1>1, <1>3 DEF Bodies

\* A row takes an outcome and keeps the rest.
LEMMA WithBodyTyped ==
    ASSUME RowsTyped, NEW i \in Items, NEW body \in Recorded
    PROVE  WithBody(i, body) \in [Items -> Row]
BY DEF RowsTyped, WithBody, Row

\* Every step keeps the types of rows and queue.
LEMMA RowsStep ==
    ASSUME RowsTyped, [Next]_vars
    PROVE  RowsTyped'
<1> USE DEF RowsTyped
<1>1. CASE UNCHANGED vars
  BY <1>1 DEF vars
<1>2. ASSUME NEW i \in Items, IngestQuery(i)
      PROVE  RowsTyped'
  BY <1>2 DEF IngestQuery, Row
<1>3. ASSUME NEW i \in Items, IngestPrediction(i)
      PROVE  RowsTyped'
  <2>1. PICK p \in Predictions :
          rows' = [rows EXCEPT ![i].status = "predicted", ![i].prediction = p]
    BY <1>3 DEF IngestPrediction
  <2> DEFINE r == [rows[i] EXCEPT !.status = "predicted", !.prediction = p]
  <2>2. rows[i] \in Row /\ r \in Row
    BY DEF Row
  <2>3. rows' = [rows EXCEPT ![i] = r]
    BY <2>1
  <2> HIDE DEF r
  <2>4. QED
    BY <1>3, <2>2, <2>3 DEF IngestPrediction
<1>4. ASSUME NEW i \in Items, RecordOutcome(i)
      PROVE  RowsTyped'
  <2>1. PICK form \in Forms :
          /\ Accepted(form)
          /\ outcomes' = Append(outcomes, [item |-> i, body |-> Body(form), typed |-> form])
          /\ rows' = WithBody(i, Body(form))
    BY <1>4 DEF RecordOutcome
  <2>2. Body(form) \in Recorded
    BY <2>1, BodyTyped DEF Recorded
  <2>3. rows' \in [Items -> Row]
    BY <2>1, <2>2, WithBodyTyped
  <2> DEFINE o == [item |-> i, body |-> Body(form), typed |-> form]
  <2>4. o \in Entry
    BY <2>2 DEF Entry
  <2> HIDE DEF o
  <2>5. outcomes' = Append(outcomes, o)
    BY <2>1 DEF o
  <2>6. outcomes' \in Seq(Entry) /\ Len(outcomes') = Len(outcomes) + 1
    BY <2>4, <2>5
  <2>7. QED
    BY <1>4, <2>3, <2>6 DEF RecordOutcome
<1>5. ASSUME NEW i \in Items, OutcomeElsewhere(i)
      PROVE  RowsTyped'
  <2>1. PICK body \in Elsewhere :
          outcomes' = Append(outcomes, [item |-> i, body |-> body, typed |-> Null])
    BY <1>5 DEF OutcomeElsewhere
  <2>2. body \in Recorded
    BY PagesAssumption, BodiesAre DEF Recorded
  <2>3. QED
    BY <1>5, <2>1, <2>2 DEF OutcomeElsewhere, Entry
<1>6. CASE IngestOutcome
  <2>1. ingested + 1 \in 1 .. Len(outcomes)
    BY <1>6 DEF IngestOutcome
  <2> DEFINE o == outcomes[ingested + 1]
  <2>2. o \in Entry
    BY <2>1
  <2>3. rows' = WithBody(o.item, o.body)
    BY <1>6 DEF IngestOutcome
  <2> HIDE DEF o
  <2>4. o.item \in Items /\ o.body \in Recorded
    BY <2>2 DEF Entry
  <2>5. rows' \in [Items -> Row]
    BY <2>3, <2>4, WithBodyTyped
  <2>6. QED
    BY <1>6, <2>1, <2>5 DEF IngestOutcome
<1>7. CASE Wipe
  BY <1>7 DEF Wipe, NoRow, Recorded, Row
<1>8. QED
  BY <1>1, <1>2, <1>3, <1>4, <1>5, <1>6, <1>7 DEF Next

\* The types hold at all times.
LEMMA RowsSpec == Spec => []RowsTyped
<1>1. Init => RowsTyped
  BY DEF Init, RowsTyped, NoRow, Recorded, Row
<1>2. QED
  BY <1>1, RowsStep, PTL DEF Spec

-----------------------------------------------------------------------------
(* Calibration. *)

\* An outcome that is read has numbers only.
LEMMA ActualNumber ==
    ASSUME NEW body \in Recorded, ActualOf(ReadOutcome(body)) # Null
    PROVE  ActualOf(ReadOutcome(body)) \in Int /\ body # Null
<1>1. ReadOutcome(body) # Null
  BY DEF ActualOf
<1>2. ReadOutcome(body) = body /\ body \notin {Null, Unreadable} /\ \A m \in DOMAIN body : body[m] # Null
  BY <1>1 DEF ReadOutcome
<1>3. PICK M \in SUBSET Metrics : body \in [M -> Int \cup {Null}]
  BY <1>2 DEF Recorded, Bodies
<1>4. "success" \in DOMAIN body /\ ActualOf(body) = body["success"]
  BY <1>2 DEF ActualOf
<1>5. QED
  BY <1>2, <1>3, <1>4

\* The calibration table and the page of a run show the same error, whatever
\* was typed, predicted and written by other tools: NaN and bodies that do not
\* parse included.
THEOREM CalibrationAlwaysAgrees == Spec => []CalibrationAgrees
<1>1. ASSUME RowsTyped, NEW i \in Items
      PROVE  /\ OutcomeSuccess(rows[i].outcome) = ActualOf(ReadOutcome(rows[i].outcome))
             /\ Page(i).error # Null
                  <=> /\ HasPrediction(i) /\ rows[i].outcome # Null
                      /\ PredictedOf(i) # Null /\ OutcomeSuccess(rows[i].outcome) # Null
             /\ Page(i).error # Null
                  => Page(i).error = PredictedOf(i) - OutcomeSuccess(rows[i].outcome)
  <2> DEFINE p == PredictedOf(i)
             a == ActualOf(ReadOutcome(rows[i].outcome))
  <2>1. OutcomeSuccess(rows[i].outcome) = a
    BY DEF OutcomeSuccess, ActualOf
  <2>2. Page(i).error = IF p = Null \/ a = Null THEN Null ELSE p - a
    BY DEF Page
  <2>3. a # Null => a \in Int /\ rows[i].outcome # Null
    BY <1>1, ActualNumber DEF RowsTyped, Row
  <2>4. p # Null => p \in Int /\ HasPrediction(i)
    <3>1. rows[i].prediction \in Predictions \cup {Null}
      BY <1>1 DEF RowsTyped, Row
    <3>2. rows[i].prediction \in Int \cup {Null, Unreadable}
      BY <3>1, PagesAssumption
    <3>3. Predicted(rows[i].prediction) \in Int \cup {Null}
      BY <3>2 DEF Predicted
    <3>4. QED
      BY <3>3 DEF PredictedOf
  <2>5. Null \notin Int
    BY PagesAssumption
  <2> HIDE DEF p, a
  <2>6. p # Null /\ a # Null => p - a # Null
    BY <2>3, <2>4, <2>5
  <2>7. QED
    BY <2>1, <2>2, <2>3, <2>4, <2>6 DEF p, a
<1>2. RowsTyped => CalibrationAgrees
  BY <1>1 DEF Calibration, CalibrationAgrees
<1>3. QED
  BY RowsSpec, <1>2, PTL

-----------------------------------------------------------------------------
(* The form. *)

\* A field that was accepted is a number in its range, or one of the two that
\* compare with nothing.
LEMMA AcceptedValid ==
    ASSUME NEW form \in Forms, Accepted(form)
    PROVE  /\ DOMAIN Body(form) # {} /\ DOMAIN Body(form) \subseteq Metrics
           /\ \A m \in DOMAIN Body(form) :
               \/ Body(form)[m] \in Nat /\ (m # "engagement" => Body(form)[m] <= 100)
               \/ Body(form)[m] = Null /\ (form[m] = NaN \/ (m = "engagement" /\ form[m] = Inf))
<1> DEFINE M == {k \in DOMAIN form : form[k] # Empty}
<1>1. Body(form) = [m \in M |-> Json(form[m])] /\ M # {} /\ DOMAIN form = Metrics
  BY DEF Body, Accepted, Forms
<1>2. ASSUME NEW m \in M
      PROVE  \/ Json(form[m]) \in Nat /\ (m # "engagement" => Json(form[m]) <= 100)
             \/ Json(form[m]) = Null /\ (form[m] = NaN \/ (m = "engagement" /\ form[m] = Inf))
  <2>1. form[m] \in Int \cup {NaN, Inf, NegInf}
    BY <1>1, PagesAssumption DEF Forms, Accepted
  <2>2. ~OutOfRange(m, form[m])
    BY <1>1 DEF Accepted
  <2>3. CASE form[m] \in Int
    <3>1. form[m] >= 0 /\ (m # "engagement" => form[m] <= 100)
      BY <2>2, <2>3 DEF OutOfRange
    <3>2. QED
      BY <2>3, <3>1 DEF Json
  <2>4. CASE form[m] \notin Int
    <3>1. form[m] # NegInf /\ (m # "engagement" => form[m] # Inf)
      BY <2>2 DEF OutOfRange
    <3>2. QED
      BY <2>1, <2>4, <3>1 DEF Json
  <2>5. QED
    BY <2>3, <2>4
<1> HIDE DEF M
<1>3. DOMAIN Body(form) = M /\ \A m \in M : Body(form)[m] = Json(form[m])
  BY <1>1
<1>4. M \subseteq Metrics
  BY <1>1 DEF M
<1>5. QED
  BY <1>1, <1>2, <1>3, <1>4

\* An entry of the form carries what was typed and accepted.
Sent ==
    \A n \in 1 .. Len(outcomes) : outcomes[n].typed # Null =>
        /\ outcomes[n].typed \in Forms /\ Accepted(outcomes[n].typed)
        /\ outcomes[n].body = Body(outcomes[n].typed)

\* What a row shows of an outcome is the body of an entry for that run.
Backed ==
    \A i \in Items : rows[i].outcome # Null =>
        \E n \in 1 .. Len(outcomes) :
            outcomes[n].item = i /\ outcomes[n].body = rows[i].outcome

\* An entry that is appended leaves the others in place.
LEMMA AppendedLast ==
    ASSUME RowsTyped, NEW o, outcomes' = Append(outcomes, o)
    PROVE  /\ Len(outcomes) \in Nat /\ Len(outcomes') = Len(outcomes) + 1
           /\ outcomes'[Len(outcomes')] = o
           /\ \A n \in 1 .. Len(outcomes) : outcomes'[n] = outcomes[n]
BY DEF RowsTyped

\* The steps that append nothing of the form leave Sent alone.
LEMMA SentStep ==
    ASSUME RowsTyped, Sent, [Next]_vars
    PROVE  Sent'
<1>1. CASE UNCHANGED outcomes
  BY <1>1 DEF Sent
<1>2. ASSUME NEW o, outcomes' = Append(outcomes, o),
             o.typed # Null => o.typed \in Forms /\ Accepted(o.typed) /\ o.body = Body(o.typed)
      PROVE  Sent'
  <2>1. \A n \in 1 .. Len(outcomes') : outcomes'[n] = IF n <= Len(outcomes) THEN outcomes[n] ELSE o
    BY <1>2, AppendedLast
  <2>2. Len(outcomes) \in Nat /\ Len(outcomes') = Len(outcomes) + 1
    BY <1>2, AppendedLast
  <2>3. QED
    BY <1>2, <2>1, <2>2 DEF Sent
<1>3. ASSUME NEW i \in Items, RecordOutcome(i)
      PROVE  Sent'
  <2>1. PICK form \in Forms :
          /\ Accepted(form)
          /\ outcomes' = Append(outcomes, [item |-> i, body |-> Body(form), typed |-> form])
    BY <1>3 DEF RecordOutcome
  <2> DEFINE o == [item |-> i, body |-> Body(form), typed |-> form]
  <2>2. o.typed = form /\ o.body = Body(form)
    OBVIOUS
  <2> HIDE DEF o
  <2>3. outcomes' = Append(outcomes, o)
    BY <2>1 DEF o
  <2>4. QED
    BY <1>2, <2>1, <2>2, <2>3
<1>4. ASSUME NEW i \in Items, OutcomeElsewhere(i)
      PROVE  Sent'
  <2>1. PICK body \in Elsewhere :
          outcomes' = Append(outcomes, [item |-> i, body |-> body, typed |-> Null])
    BY <1>4 DEF OutcomeElsewhere
  <2> DEFINE o == [item |-> i, body |-> body, typed |-> Null]
  <2>2. o.typed = Null
    OBVIOUS
  <2> HIDE DEF o
  <2>3. outcomes' = Append(outcomes, o)
    BY <2>1 DEF o
  <2>4. QED
    BY <1>2, <2>2, <2>3
<1>5. QED
  BY <1>1, <1>3, <1>4 DEF Next, vars, IngestQuery, IngestPrediction, IngestOutcome, Wipe

\* At all times.
LEMMA SentSpec == Spec => []Sent
<1>1. Init => Sent
  BY DEF Init, Sent
<1>2. QED
  BY RowsSpec, SentStep, <1>1, PTL DEF Spec

\* What the form writes is valid for OVK, whatever is typed and whatever else
\* happens, but for the null of a NaN or of an infinite engagement.
THEOREM FormsWriteValid == Spec => []OutcomesValid
<1>1. Sent => OutcomesValid
  <2> SUFFICES ASSUME Sent, NEW n \in 1 .. Len(outcomes), outcomes[n].typed # Null
               PROVE  /\ DOMAIN outcomes[n].body # {}
                      /\ \A m \in DOMAIN outcomes[n].body :
                          \/ /\ outcomes[n].body[m] \in Nat
                             /\ m # "engagement" => outcomes[n].body[m] <= 100
                          \/ /\ outcomes[n].body[m] = Null
                             /\ \/ outcomes[n].typed[m] = NaN
                                \/ m = "engagement" /\ outcomes[n].typed[m] = Inf
    BY DEF OutcomesValid
  <2>1. /\ outcomes[n].typed \in Forms /\ Accepted(outcomes[n].typed)
        /\ outcomes[n].body = Body(outcomes[n].typed)
    BY DEF Sent
  <2>2. QED
    BY <2>1, AcceptedValid
<1>2. QED
  BY SentSpec, <1>1, PTL

-----------------------------------------------------------------------------
(* The list and the page. *)

\* Nothing but a NaN or an infinity makes a body of the form unreadable.
LEMMA FormUnread ==
    ASSUME NEW form \in Forms, Accepted(form), ReadOutcome(Body(form)) = Null
    PROVE  \E m \in Metrics : form[m] \in {NaN, Inf}
<1>1. Body(form) \notin {Null, Unreadable}
  BY BodyTyped, BodiesAre, PagesAssumption
<1>2. PICK m \in DOMAIN Body(form) : Body(form)[m] = Null
  BY <1>1 DEF ReadOutcome
<1>3. m \in Metrics /\ form[m] \in {NaN, Inf}
  BY <1>2, AcceptedValid, PagesAssumption
<1>4. QED
  BY <1>3

\* A row takes the body of an entry for its run, or keeps the one it has.
LEMMA BackedStep ==
    ASSUME RowsTyped, Backed, [Next]_vars
    PROVE  Backed'
<1> USE DEF RowsTyped
<1>1. ASSUME NEW i \in Items, NEW body, NEW n \in 1 .. Len(outcomes'), rows' = WithBody(i, body),
             outcomes'[n].item = i, outcomes'[n].body = body,
             \A k \in 1 .. Len(outcomes) : k \in 1 .. Len(outcomes') /\ outcomes'[k] = outcomes[k]
      PROVE  Backed'
  <2> SUFFICES ASSUME NEW j \in Items, rows'[j].outcome # Null
               PROVE  \E k \in 1 .. Len(outcomes') :
                        outcomes'[k].item = j /\ outcomes'[k].body = rows'[j].outcome
    BY DEF Backed
  <2>1. \/ rows'[j].outcome = rows[j].outcome
        \/ j = i /\ rows'[j].outcome = body
    BY <1>1 DEF WithBody, Row
  <2>2. CASE rows'[j].outcome = rows[j].outcome
    BY <1>1, <2>2 DEF Backed
  <2>3. CASE j = i /\ rows'[j].outcome = body
    BY <1>1, <2>3
  <2>4. QED
    BY <2>1, <2>2, <2>3
<1>2. CASE UNCHANGED vars
  BY <1>2 DEF vars, Backed
<1>3. ASSUME NEW i \in Items, IngestQuery(i) \/ IngestPrediction(i)
      PROVE  Backed'
  <2>1. UNCHANGED outcomes /\ \A k \in Items : rows'[k].outcome = rows[k].outcome
    BY <1>3 DEF IngestQuery, IngestPrediction, Row
  <2>2. QED
    BY <2>1 DEF Backed
<1>4. ASSUME NEW i \in Items, RecordOutcome(i)
      PROVE  Backed'
  <2>1. PICK form \in Forms :
          /\ outcomes' = Append(outcomes, [item |-> i, body |-> Body(form), typed |-> form])
          /\ rows' = WithBody(i, Body(form))
    BY <1>4 DEF RecordOutcome
  <2> DEFINE o == [item |-> i, body |-> Body(form), typed |-> form]
             n == Len(outcomes')
  <2>2. o.item = i /\ o.body = Body(form)
    OBVIOUS
  <2> HIDE DEF o
  <2>3. outcomes' = Append(outcomes, o)
    BY <2>1 DEF o
  <2>4. /\ n \in 1 .. Len(outcomes') /\ outcomes'[n] = o
        /\ \A k \in 1 .. Len(outcomes) : k \in 1 .. Len(outcomes') /\ outcomes'[k] = outcomes[k]
    BY <2>3, AppendedLast
  <2> HIDE DEF n
  <2>5. QED
    BY <1>1, <2>1, <2>2, <2>4
<1>5. ASSUME NEW i \in Items, OutcomeElsewhere(i)
      PROVE  Backed'
  <2>1. PICK o : outcomes' = Append(outcomes, o)
    BY <1>5 DEF OutcomeElsewhere
  <2>2. \A k \in 1 .. Len(outcomes) : k \in 1 .. Len(outcomes') /\ outcomes'[k] = outcomes[k]
    BY <2>1, AppendedLast
  <2>3. rows' = rows
    BY <1>5 DEF OutcomeElsewhere
  <2>4. QED
    BY <2>2, <2>3 DEF Backed
<1>6. CASE IngestOutcome
  <2> DEFINE n == ingested + 1
             o == outcomes[n]
  <2>1. n \in 1 .. Len(outcomes) /\ rows' = WithBody(o.item, o.body) /\ UNCHANGED outcomes
    BY <1>6 DEF IngestOutcome
  <2>2. o \in Entry
    BY <2>1
  <2> HIDE DEF n
  <2>3. o.item \in Items
    BY <2>2 DEF Entry
  <2>4. QED
    BY <1>1, <2>1, <2>3
<1>7. CASE Wipe
  BY <1>7 DEF Wipe, NoRow, Backed
<1>8. QED
  BY <1>2, <1>3, <1>4, <1>5, <1>6, <1>7 DEF Next

\* The list and the page of a run tell the same of its outcome, whatever is typed
\* and written by other tools - save of an entry nobody can read, which is marked
\* in the list and not shown on the page.
THEOREM ScreensAlwaysAgree == Spec => []ScreensAgree
<1>1. Init => Backed
  BY DEF Init, Backed, NoRow
<1>2. RowsTyped /\ Sent /\ Backed => ScreensAgree
  <2> SUFFICES ASSUME RowsTyped, Sent, Backed, NEW i \in Items
               PROVE  /\ Page(i).outcome => Marked(i)
                      /\ Marked(i) /\ ~Page(i).outcome =>
                           \E n \in 1 .. Len(outcomes) : outcomes[n].item = i /\ Unread(outcomes[n])
    BY DEF ScreensAgree
  <2>1. Page(i).outcome <=> ReadOutcome(rows[i].outcome) # Null
    BY DEF Page
  <2>2. ReadOutcome(Null) = Null
    BY DEF ReadOutcome
  <2>3. ASSUME Marked(i), ReadOutcome(rows[i].outcome) = Null
        PROVE  \E n \in 1 .. Len(outcomes) : outcomes[n].item = i /\ Unread(outcomes[n])
    <3>1. PICK n \in 1 .. Len(outcomes) :
            outcomes[n].item = i /\ outcomes[n].body = rows[i].outcome
      BY <2>3 DEF Marked, Backed
    <3>2. ASSUME outcomes[n].typed # Null
          PROVE  \E m \in Metrics : outcomes[n].typed[m] \in {NaN, Inf}
      BY <2>3, <3>1, <3>2, FormUnread DEF Sent
    <3>3. Unread(outcomes[n])
      BY <2>3, <3>1, <3>2 DEF Unread
    <3>4. QED
      BY <3>1, <3>3
  <2>4. QED
    BY <2>1, <2>2, <2>3 DEF Marked
<1>3. QED
  BY RowsSpec, SentSpec, BackedStep, <1>1, <1>2, PTL DEF Spec

=============================================================================
