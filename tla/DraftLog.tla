------------------------------ MODULE DraftLog ------------------------------
(* What the artifact studio promises about versions: each series of drafts is *)
(* a log. A new draft takes the next number, and none is changed, replaced or *)
(* taken away.                                                                *)
EXTENDS Naturals, Sequences

CONSTANTS
    Series,     \* kind and title of an artifact, or name of a resume variant
    Contents    \* what a draft can say

VARIABLE log    \* series -> its drafts, by version

Init == log = [s \in Series |-> <<>>]

Publish(s, content) == log' = [log EXCEPT ![s] = Append(@, content)]

Next == \E s \in Series, content \in Contents : Publish(s, content)

Spec == Init /\ [][Next]_log
=============================================================================
