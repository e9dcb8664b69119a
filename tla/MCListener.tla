----------------------------- MODULE MCListener -----------------------------
(***************************************************************************)
(* Small instances of Listener: one or two personas.                       *)
(***************************************************************************)
EXTENDS Listener

CONSTANTS ann, bob

Solo == <<ann>>
Pair == <<ann, bob>>

=============================================================================
