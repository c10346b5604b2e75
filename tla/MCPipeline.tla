------------------------------ MODULE MCPipeline ------------------------------
(* Pipeline for TLC: rows of one kind, and requests, are interchangeable.     *)
EXTENDS Pipeline, TLC

Symmetry ==
    Permutations(Opportunities) \cup Permutations(Contacts)
        \cup Permutations(Tasks) \cup Permutations(Requests)

=============================================================================
