--------------------------- MODULE MCSourceQueue ---------------------------
(* SourceQueue for TLC. Its constants are given values in the .cfg files; no *)
(* symmetry is declared, because the runs check liveness.                    *)
EXTENDS SourceQueue

=============================================================================
