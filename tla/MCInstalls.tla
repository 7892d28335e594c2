----------------------------- MODULE MCInstalls -----------------------------
EXTENDS Installs
=============================================================================
