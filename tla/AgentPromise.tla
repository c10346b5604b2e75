---------------------------- MODULE AgentPromise ----------------------------
(* What the durable agent queue promises the seeker, whatever workers, calls *)
(* and recoveries do behind it: an answer appears only for a question that   *)
(* is still wanted. Asking, cancelling and erasing are the seeker's steps,   *)
(* answering is the system's.                                                *)
CONSTANT Runs

VARIABLES
    asked,      \* runs that were ever asked for
    cancelled,  \* runs whose cancellation was requested
    answered,   \* runs with an answer the seeker can read
    erased      \* runs deleted with their conversation

vars == <<asked, cancelled, answered, erased>>

Init ==
    /\ asked = {}
    /\ cancelled = {}
    /\ answered = {}
    /\ erased = {}

Ask(r) ==
    /\ r \notin asked
    /\ asked' = asked \cup {r}
    /\ UNCHANGED <<cancelled, answered, erased>>

\* The synchronous chat asks and answers in one request.
AskAndAnswer(r) ==
    /\ r \notin asked
    /\ asked' = asked \cup {r}
    /\ answered' = answered \cup {r}
    /\ UNCHANGED <<cancelled, erased>>

\* A cancellation is never taken back.
Cancel(r) ==
    /\ r \in asked \ erased
    /\ cancelled' = cancelled \cup {r}
    /\ UNCHANGED <<asked, answered, erased>>

\* No answer for a run that is cancelled or erased.
Answer(r) ==
    /\ r \in asked \ (cancelled \cup erased)
    /\ answered' = answered \cup {r}
    /\ UNCHANGED <<asked, cancelled, erased>>

\* Erasing takes the answers away, and for good.
Erase(S) ==
    /\ S \subseteq asked
    /\ erased' = erased \cup S
    /\ answered' = answered \ S
    /\ UNCHANGED <<asked, cancelled>>

Next ==
    \/ \E r \in Runs : Ask(r) \/ AskAndAnswer(r) \/ Cancel(r) \/ Answer(r)
    \/ \E S \in SUBSET Runs : Erase(S)

Spec == Init /\ [][Next]_vars
=============================================================================
