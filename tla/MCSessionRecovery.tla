--------------------------- MODULE MCSessionRecovery ---------------------------
(* SessionRecovery on a small instance: its constants are model values.    *)
EXTENDS SessionRecovery
=============================================================================
