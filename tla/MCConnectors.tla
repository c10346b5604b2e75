----------------------------- MODULE MCConnectors -----------------------------
(* Connectors for TLC: one account of one provider.                            *)
EXTENDS Connectors, TLC

CONSTANTS a1

MCProviderOf == a1 :> "google"

Symmetry ==
    Permutations(Requests) \cup Permutations(Tasks) \cup Permutations(Events)
    \cup Permutations(States) \cup Permutations(Calendars)

=============================================================================
