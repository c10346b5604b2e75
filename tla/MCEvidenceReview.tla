--------------------------- MODULE MCEvidenceReview ---------------------------
(* A small instance of EvidenceReview for TLC. Claims, tabs and workers are   *)
(* interchangeable.                                                           *)
EXTENDS EvidenceReview, TLC

Symmetry == Permutations(Claims) \cup Permutations(Tabs) \cup Permutations(Workers)

=============================================================================
