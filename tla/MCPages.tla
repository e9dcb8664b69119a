------------------------------ MODULE MCPages -------------------------------
(* Instances of Pages for TLC. *)
EXTENDS Pages, TLC

\* At and beyond the bounds of the metrics, and the texts that parse to no number
\* JSON has.
Typed == {Empty, Text, -1, 100, 101, NaN, Inf, NegInf}
Favorabilities == {Null, Unreadable, 60}

\* A record of another tool, one without a success, one with a null, and a body
\* that is none.
Records == {"success" :> 50 @@ "ctr" :> 1, "engagement" :> 250, "success" :> Null, Unreadable}

=============================================================================
