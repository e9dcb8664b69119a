------------------------------- MODULE MCCall -------------------------------
(***************************************************************************)
(* Small instances of Call.                                                *)
(***************************************************************************)
EXTENDS Call

=============================================================================
