------------------------------ MODULE MCServer ------------------------------
(***************************************************************************)
(* Small instances of Server.                                              *)
(***************************************************************************)
EXTENDS Server

CONSTANT ann

Solo == <<ann>>

Foreign == <<OtherEntry>>

=============================================================================
