----------------------------- MODULE MCConsumer -----------------------------
(***************************************************************************)
(* Small instances of Consumer.                                            *)
(***************************************************************************)
EXTENDS Consumer

=============================================================================
