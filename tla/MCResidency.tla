---------------------------- MODULE MCResidency ----------------------------
EXTENDS Residency
=============================================================================
