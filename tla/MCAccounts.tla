------------------------------ MODULE MCAccounts ------------------------------
(* Accounts for TLC.                                                           *)
EXTENDS Accounts, TLC

Symmetry ==
    Permutations(Requests) \cup Permutations(Superusers) \cup Permutations(Passwords)
    \cup Permutations(Contents)

=============================================================================
