------------------------------ MODULE MCReader ------------------------------
(* Instances of Reader for TLC. *)
EXTENDS Reader

\* A consumer through everything but a failing creation of its cursor, and a
\* listener that is not refused.
Known ==
    [k \in Kinds |-> IF k = "consumer" THEN {"refused", "failed", "lost", "crash"}
                                       ELSE {"failed", "lost", "create", "crash"}]

=============================================================================
