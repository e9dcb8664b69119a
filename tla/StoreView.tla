----------------------------- MODULE StoreView ------------------------------
(***************************************************************************)
(* The tables runs and replies against the queue: what they must hold      *)
(* after the entries base .. k-1 were ingested.                            *)
(***************************************************************************)
EXTENDS View, Store

\* A prediction column of the run of query i: the latest prediction, if any.
Shows(column, i, base, k) ==
    \/ IsLatestPrediction(column, i, base, k)
    \/ /\ column = NoOrdinal
       /\ \A p \in base .. k-1 : ~Predicts(p, i, base)

RunsShow(base, k) ==
    /\ DOMAIN runs = Queries(base, k)
    /\ \A i \in DOMAIN runs : Shows(runs[i].prediction, i, base, k)

RepliesShow(base, k) ==
    /\ DOMAIN replies = {r \in base .. k-1 : IsKind(r, "reply") /\ Queries(base, r) # {}}
    /\ \A r \in DOMAIN replies :
          replies[r].persona = At(r).tag /\ BelongsTo(r, replies[r].item, base, k)

=============================================================================
