-------------------------- MODULE MCProgressDocument --------------------------
(* ProgressDocument on a small instance: its constants are model values.   *)
EXTENDS ProgressDocument
=============================================================================
