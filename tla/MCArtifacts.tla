----------------------------- MODULE MCArtifacts -----------------------------
(* Artifacts for TLC. *)
EXTENDS Artifacts, TLC

Symmetry == Permutations(Requests) \cup Permutations(Claims)
            \cup Permutations(Accomplishments)
==============================================================================
