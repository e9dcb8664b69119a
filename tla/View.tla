-------------------------------- MODULE View --------------------------------
(***************************************************************************)
(* What the entries base .. k-1 of the queue say about runs and replies:   *)
(* the documented meaning of the entries (server/README.md, "Semantics     *)
(* worth knowing"), not the statements that compute it.  base is 0 unless  *)
(* a reader started in the middle of the queue.                            *)
(***************************************************************************)
EXTENDS Rapids

Queries(base, k) == {n \in base .. k-1 : IsKind(n, "query")}

\* Entry p predicts query i: it tags i, and i was already on the queue.
\* A tag that names no query known at p predicts nothing.
Predicts(p, i, base) == IsKind(p, "prediction") /\ At(p).tag = i /\ i \in Queries(base, p)

IsPrediction(p, base) == \E i \in Queries(base, p) : Predicts(p, i, base)

IsLatestPrediction(v, i, base, k) ==
    /\ v \in base .. k-1
    /\ Predicts(v, i, base)
    /\ \A p \in base .. k-1 : Predicts(p, i, base) => p <= v

(***************************************************************************)
(* A responder appends its replies and then their prediction, so a reply   *)
(* belongs to the query that the first prediction after it tags.  Until    *)
(* that prediction comes it is shown under the last query before it.       *)
(***************************************************************************)
\* The first prediction after r tags i: some prediction of i after r has no
\* prediction of another query between r and itself.
IsAnchoredTo(r, i, base, k) ==
    \E p \in r+1 .. k-1 :
        /\ Predicts(p, i, base)
        /\ \A other \in r+1 .. p-1 : IsPrediction(other, base) => Predicts(other, i, base)

IsLastQueryBefore(q, r, base) == q \in Queries(base, r) /\ \A n \in Queries(base, r) : n <= q

BelongsTo(r, i, base, k) ==
    \/ IsAnchoredTo(r, i, base, k)
    \/ /\ \A p \in r+1 .. k-1 : ~IsPrediction(p, base)
       /\ IsLastQueryBefore(i, r, base)

=============================================================================
