------------------------------ MODULE MCVoices ------------------------------
(***************************************************************************)
(* Small instances of Voices.                                              *)
(***************************************************************************)
EXTENDS Voices

=============================================================================
