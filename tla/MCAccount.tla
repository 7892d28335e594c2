----------------------------- MODULE MCAccount -----------------------------
EXTENDS Account
=============================================================================
