-------------------------- MODULE MCEvidenceStore --------------------------
(* EvidenceStore on small instances; the events are interchangeable.       *)
EXTENDS EvidenceStore, TLC

EventSymmetry == Permutations(Events)
=============================================================================
