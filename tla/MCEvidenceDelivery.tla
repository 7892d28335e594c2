------------------------- MODULE MCEvidenceDelivery -------------------------
(* EvidenceDelivery on packages of two evaluators.                     *)
EXTENDS EvidenceDelivery

CONSTANTS p1, p2, anna, bert

MCEvaluatorOf == [p \in Packages |-> IF p = p1 THEN anna ELSE bert]
=============================================================================
