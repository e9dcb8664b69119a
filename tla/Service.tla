------------------------------ MODULE Service -------------------------------
(***************************************************************************)
(* What the panel listener promises, seen from the queue: every query is   *)
(* answered once, queries are served in the order in which they were       *)
(* asked, and none is left behind unanswered.                              *)
(***************************************************************************)
EXTENDS Naturals

VARIABLES
    asked,      \* the queries on the queue, by ordinal
    answered,   \* the queries that have a prediction
    passed      \* the queries the listener has done with

svars == <<asked, answered, passed>>

Init == asked = {} /\ answered = {} /\ passed = {}

Ask ==
    /\ asked \subseteq asked'
    /\ \A q \in asked, new \in asked' \ asked : q < new
    /\ UNCHANGED <<answered, passed>>

IsTurnOf(q) == q \in asked \ passed /\ \A earlier \in asked \ passed : q <= earlier

Answer ==
    /\ \E q \in asked \ answered : IsTurnOf(q) /\ answered' = answered \cup {q}
    /\ UNCHANGED <<asked, passed>>

Pass ==
    /\ \E q \in answered : IsTurnOf(q) /\ passed' = passed \cup {q}
    /\ UNCHANGED <<asked, answered>>

Next == Ask \/ Answer \/ Pass

Spec == Init /\ [][Next]_svars

=============================================================================
