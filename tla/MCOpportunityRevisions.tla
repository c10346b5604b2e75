----------------------- MODULE MCOpportunityRevisions -----------------------
(* OpportunityRevisions for TLC: the seeker's tabs and the worker processes   *)
(* are interchangeable.                                                       *)
EXTENDS OpportunityRevisions, TLC

Symmetry == Permutations(Tabs) \cup Permutations(Workers)

=============================================================================
