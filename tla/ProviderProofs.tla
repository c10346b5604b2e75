---------------------------- MODULE ProviderProofs ---------------------------
(* Proofs about what the platform asks of others on a seeker's behalf: the     *)
(* calls of the agent's workers to a model provider (AgentRuns), for every set *)
(* of runs, workers and conversations, every batch size and every number of    *)
(* process starts, and the requests to connected accounts (Connectors), for    *)
(* every set of accounts, requests, tasks, calendars and mails.                *)
(* The agent: IInv says, of a run no recovery has overwritten, where its one   *)
(* provider call is: not made yet while the row waits, in flight in exactly    *)
(* one worker, or over once a completion or a trace has been written.          *)
(* The connectors: what a request has read is still there (RequestsSound), and *)
(* a thread is kept for its period from its import on (RetentionKept).         *)
EXTENDS AgentRuns, Connectors, TLAPS

-----------------------------------------------------------------------------
\* The calls of the agent.

\* A row that was never inserted has no history at all.
AbsentInv ==
    \A r \in Runs :
        status[r] = "absent" => /\ parent[r] = NoRun
                                /\ conversation[r] = NoConversation
                                /\ calls[r] = 0
                                /\ answers[r] = 0
                                /\ trace[r] = "none"
                                /\ ~cancelRequested[r]

\* Recoveries and calls in flight only know rows that had been inserted.
SeenInv ==
    \A w \in Workers : \A r \in Runs :
        r \in seenClaimed[w] \cup seenRunning[w] \/ r = current[w]
            => status[r] # "absent"

\* The provider call of a run has not been made while the run waits.
CallInv ==
    \A r \in Runs : r \notin overwritten =>
        /\ calls[r] <= 1
        /\ status[r] \in Waiting => calls[r] = 0

\* A call in flight is the one that was counted, it is in one worker only, and
\* no completion or trace of the run has been written yet.
FlightInv ==
    \A w \in Workers : \A r \in Runs : current[w] = r /\ r \notin overwritten =>
        /\ calls[r] = 1
        /\ \A v \in Workers : current[v] = r => v = w
        /\ status[r] # "completed"
        /\ trace[r] = "none"
        /\ \/ status[r] \in {"running", "deleted"}
           \/ cancelRequested[r]
           \/ r \in interrupted

\* What has been written about a run agrees with its status.
OutputInv ==
    \A r \in Runs : r \notin overwritten =>
        /\ answers[r] > 0 => status[r] = "completed"
        /\ status[r] = "completed" => ~cancelRequested[r]
        /\ \/ trace[r] = "none"
           \/ trace[r] = status[r]
           \/ trace[r] = "failed" /\ status[r] = "cancelled"

\* A run that has a retry stays settled, and unanswered unless its failure was
\* the work of a recovery.
RetryInv ==
    \A r \in Runs : parent[r] # NoRun /\ parent[r] \notin overwritten =>
        /\ status[parent[r]] \in Terminal \cup {"deleted"}
        /\ status[parent[r]] = "completed" => parent[r] \in interrupted

LineageInv ==
    /\ RetryLineage
    /\ \A r \in Runs : parent[r] # NoRun => status[parent[r]] # "absent"

IInv ==
    /\ TypeOK
    /\ AbsentInv
    /\ SeenInv
    /\ CancelledIsRequested
    /\ CallInv
    /\ FlightInv
    /\ OutputInv
    /\ RetryInv
    /\ LineageInv
(***************************************************************************)
(* Type correctness.                                                       *)
(***************************************************************************)

\* Every step keeps the types of the columns and of the processes' memory.
LEMMA TypeStep == TypeOK /\ [Next]_vars => TypeOK'
<1> SUFFICES ASSUME TypeOK, [Next]_vars PROVE TypeOK'
  OBVIOUS
<1> USE DEF TypeOK, Status, Waiting, Terminal, Missing,
            rowVars, lineageVars, outputVars, workerVars, recoverVars, historyVars
<1>1. ASSUME NEW r \in Runs, NEW c \in Conversations, QueueRun(r, c)
      PROVE TypeOK'
  BY <1>1 DEF QueueRun, Insert, Write
<1>2. ASSUME NEW r \in Runs, NEW c \in Conversations, ChatAnswers(r, c)
      PROVE TypeOK'
  BY <1>2 DEF ChatAnswers, Insert, Write
<1>3. ASSUME NEW r \in Runs, NEW c \in Conversations, ChatFails(r, c)
      PROVE TypeOK'
  BY <1>3 DEF ChatFails, Insert, Write
<1>4. ASSUME NEW r \in Runs, CancelRun(r)
      PROVE TypeOK'
  BY <1>4 DEF CancelRun, Write
<1>5. ASSUME NEW r \in Runs, Age(r)
      PROVE TypeOK'
  BY <1>5 DEF Age
<1>6. ASSUME NEW p \in Runs, NEW r \in Runs, RetryRun(p, r)
      PROVE TypeOK'
  BY <1>6 DEF RetryRun, Write
<1>7. ASSUME NEW c \in Conversations, DeleteConversation(c)
      PROVE TypeOK'
  BY <1>7 DEF DeleteConversation
<1>8. ASSUME NEW w \in Workers, BootWorker(w)
      PROVE TypeOK'
  BY <1>8, BoundsAssumption DEF BootWorker
<1>9. ASSUME NEW w \in Workers, RecoverCommit(w)
      PROVE TypeOK'
  BY <1>9 DEF RecoverCommit, RecoveredStatus, Outdated
<1>10. ASSUME NEW w \in Workers, RecoverFails(w) \/ StopWorker(w)
      PROVE TypeOK'
  BY <1>10 DEF RecoverFails, StopWorker, Exit
<1>11. ASSUME NEW w \in Workers, ClaimRuns(w)
      PROVE TypeOK'
  <2>1. PICK claimed \in SUBSET Runs :
           /\ status' = [r \in Runs |->
                           IF r \in claimed THEN "claimed" ELSE status[r]]
           /\ stale' = [r \in Runs |-> IF r \in claimed THEN FALSE ELSE stale[r]]
           /\ batch' = [batch EXCEPT ![w] = claimed]
    BY <1>11 DEF ClaimRuns
  <2>2. QED
    BY <1>11, <2>1 DEF ClaimRuns
<1>12. ASSUME NEW w \in Workers, NEW r \in Runs, Execute(w, r)
      PROVE TypeOK'
  <2>1. CASE SkipRun(w, r)
    BY <2>1 DEF SkipRun, TakeUp
  <2>2. CASE CancelBeforeCall(w, r)
    BY <2>2 DEF CancelBeforeCall, TakeUp, Write
  <2>3. CASE ProviderMissing(w, r)
    BY <2>3 DEF ProviderMissing, TakeUp, Write
  <2>4. CASE StartRun(w, r)
    BY <2>4 DEF StartRun, TakeUp, Write
  <2>5. CASE CallOfDeletedRun(w, r)
    BY <2>5 DEF CallOfDeletedRun, Return
  <2>6. CASE CallFails(w, r)
    BY <2>6 DEF CallFails, Return, Write
  <2>7. CASE CallDiscarded(w, r)
    BY <2>7 DEF CallDiscarded, Return, Write
  <2>8. CASE CallAnswers(w, r)
    BY <2>8 DEF CallAnswers, Return, Write
  <2>9. QED
    BY <1>12, <2>1, <2>2, <2>3, <2>4, <2>5, <2>6, <2>7, <2>8 DEF Execute
<1>13. CASE UNCHANGED vars
  BY <1>13 DEF vars
<1>14. QED
  BY <1>1, <1>2, <1>3, <1>4, <1>5, <1>6, <1>7, <1>8, <1>9, <1>10, <1>11, <1>12,
     <1>13 DEF Next

(***************************************************************************)
(* The inductive invariant.                                                *)
(***************************************************************************)

\* Every transaction of the API and every step of a worker preserves IInv.
LEMMA InvStep == IInv /\ [Next]_vars => IInv'
<1> SUFFICES ASSUME IInv, [Next]_vars PROVE IInv'
  OBVIOUS
<1> USE NullAssumption
    DEF TypeOK, Status, Waiting, Terminal, Missing,
        rowVars, lineageVars, outputVars, workerVars, recoverVars, historyVars,
        AbsentInv, SeenInv, CancelledIsRequested, CallInv, FlightInv, OutputInv,
        RetryInv, LineageInv, RetryLineage
<1>0. TypeOK /\ TypeOK'
  BY TypeStep DEF IInv
<1>1. ASSUME NEW r \in Runs, NEW c \in Conversations, QueueRun(r, c)
      PROVE IInv'
  BY <1>0, <1>1 DEF IInv, QueueRun, Insert, Write
<1>2. ASSUME NEW r \in Runs, NEW c \in Conversations, ChatAnswers(r, c)
      PROVE IInv'
  BY <1>0, <1>2 DEF IInv, ChatAnswers, Insert, Write
<1>3. ASSUME NEW r \in Runs, NEW c \in Conversations, ChatFails(r, c)
      PROVE IInv'
  BY <1>0, <1>3 DEF IInv, ChatFails, Insert, Write
<1>4. ASSUME NEW r \in Runs, CancelRun(r)
      PROVE IInv'
  BY <1>0, <1>4 DEF IInv, CancelRun, Write
<1>5. ASSUME NEW r \in Runs, Age(r)
      PROVE IInv'
  BY <1>0, <1>5 DEF IInv, Age
<1>6. ASSUME NEW p \in Runs, NEW r \in Runs, RetryRun(p, r)
      PROVE IInv'
  <2>1. AbsentInv' /\ SeenInv' /\ CancelledIsRequested' /\ CallInv' /\ OutputInv'
    BY <1>0, <1>6 DEF IInv, RetryRun, Write
  <2>2. FlightInv'
    BY <1>0, <1>6 DEF IInv, RetryRun, Write
  <2>3. RetryInv' /\ LineageInv'
    BY <1>0, <1>6 DEF IInv, RetryRun, Write
  <2>4. QED
    BY <1>0, <2>1, <2>2, <2>3 DEF IInv
<1>7. ASSUME NEW c \in Conversations, DeleteConversation(c)
      PROVE IInv'
  BY <1>0, <1>7 DEF IInv, DeleteConversation
<1>8. ASSUME NEW w \in Workers, BootWorker(w)
      PROVE IInv'
  BY <1>0, <1>8 DEF IInv, BootWorker
<1>9. ASSUME NEW w \in Workers, RecoverCommit(w)
      PROVE IInv'
  \* A row that is not overwritten was claimed, and goes back to the queue, or
  \* was running, and is failed by this very recovery.
  <2>1. \A r \in Runs \ overwritten' :
           \/ r \in seenClaimed[w] /\ status[r] = "claimed"
           \/ /\ r \in seenRunning[w] /\ r \in interrupted'
              /\ status[r] = "running" /\ status'[r] = "failed"
           \/ status'[r] = status[r]
    BY <1>0, <1>9 DEF IInv, RecoverCommit, RecoveredStatus, Outdated
  <2>2. \A r \in Runs : /\ status[r] # "absent" => status'[r] # "absent"
                        /\ status'[r] \notin {"absent", "cancelled", "completed",
                                              "deleted"}
                              \/ status'[r] = status[r]
                        /\ r \in seenClaimed[w] /\ status[r] = "claimed" =>
                              status'[r] \in Waiting \cup {"failed"}
    BY <1>0, <1>9 DEF IInv, RecoverCommit, RecoveredStatus
  <2>3. AbsentInv'
    BY <1>0, <1>9, <2>2 DEF IInv, RecoverCommit
  <2>4. SeenInv'
    BY <1>0, <1>9, <2>2 DEF IInv, RecoverCommit
  <2>5. CancelledIsRequested'
    BY <1>0, <1>9, <2>2 DEF IInv, RecoverCommit
  <2>6. CallInv'
    BY <1>0, <1>9, <2>1, <2>2 DEF IInv, RecoverCommit
  <2>7. FlightInv'
    BY <1>0, <1>9, <2>1, <2>2 DEF IInv, RecoverCommit
  <2>8. OutputInv'
    BY <1>0, <1>9, <2>1, <2>2 DEF IInv, RecoverCommit
  <2>9. RetryInv'
    BY <1>0, <1>9, <2>1, <2>2 DEF IInv, RecoverCommit
  <2>10. LineageInv'
    BY <1>0, <1>9, <2>2 DEF IInv, RecoverCommit, RecoveredStatus
  <2>11. QED
    BY <1>0, <2>3, <2>4, <2>5, <2>6, <2>7, <2>8, <2>9, <2>10 DEF IInv
<1>10. ASSUME NEW w \in Workers, RecoverFails(w) \/ StopWorker(w)
      PROVE IInv'
  <2>1. /\ \A v \in Workers : /\ seenClaimed'[v] \subseteq seenClaimed[v]
                              /\ seenRunning'[v] \subseteq seenRunning[v]
                              /\ current'[v] \in {current[v], NoRun}
        /\ UNCHANGED <<rowVars, lineageVars, outputVars, historyVars>>
    BY <1>0, <1>10 DEF RecoverFails, StopWorker, Exit
  <2>2. \A v \in Workers : \A r \in Runs : current'[v] = r => current[v] = r
    BY <2>1
  <2>3. SeenInv'
    BY <2>1 DEF IInv
  <2>4. FlightInv'
    BY <2>1, <2>2 DEF IInv
  <2>5. AbsentInv' /\ CancelledIsRequested' /\ CallInv' /\ OutputInv' /\ RetryInv'
    BY <2>1 DEF IInv
  <2>6. LineageInv'
    BY <2>1 DEF IInv
  <2>7. QED
    BY <1>0, <2>3, <2>4, <2>5, <2>6 DEF IInv
<1>11. ASSUME NEW w \in Workers, ClaimRuns(w)
      PROVE IInv'
  \* Claiming moves queued rows from one waiting status to another.
  <2>1. \A r \in Runs : \/ status'[r] = status[r]
                        \/ status[r] \in Waiting /\ status'[r] = "claimed"
    BY <1>0, <1>11 DEF ClaimRuns
  <2>2. UNCHANGED <<cancelRequested, lineageVars, outputVars, current,
                    recoverVars, historyVars>>
    BY <1>11 DEF ClaimRuns
  <2>3. AbsentInv' /\ SeenInv' /\ CancelledIsRequested' /\ CallInv' /\ OutputInv'
    BY <1>0, <2>1, <2>2 DEF IInv
  <2>4. FlightInv'
    BY <1>0, <2>1, <2>2 DEF IInv
  <2>5. RetryInv' /\ LineageInv'
    BY <1>0, <2>1, <2>2 DEF IInv
  <2>6. QED
    BY <1>0, <2>3, <2>4, <2>5 DEF IInv
<1>12. ASSUME NEW w \in Workers, NEW r \in Runs, SkipRun(w, r)
      PROVE IInv'
  BY <1>0, <1>12 DEF IInv, SkipRun, TakeUp
<1>13. ASSUME NEW w \in Workers, NEW r \in Runs, CancelBeforeCall(w, r)
      PROVE IInv'
  BY <1>0, <1>13 DEF IInv, CancelBeforeCall, TakeUp, Write
<1>14. ASSUME NEW w \in Workers, NEW r \in Runs, ProviderMissing(w, r)
      PROVE IInv'
  BY <1>0, <1>14 DEF IInv, ProviderMissing, TakeUp, Write
<1>15. ASSUME NEW w \in Workers, NEW r \in Runs, StartRun(w, r)
      PROVE IInv'
  \* A waiting run has not been called, so no other worker has it in flight.
  <2>1. r \notin overwritten =>
           /\ calls[r] = 0
           /\ \A v \in Workers : current[v] # r
           /\ trace[r] = "none"
    BY <1>0, <1>15 DEF IInv, StartRun, TakeUp, Write
  <2>2. CallInv' /\ FlightInv'
    BY <1>0, <1>15, <2>1 DEF IInv, StartRun, TakeUp, Write
  <2>3. AbsentInv' /\ SeenInv' /\ CancelledIsRequested'
    BY <1>0, <1>15 DEF IInv, StartRun, TakeUp, Write
  <2>4. OutputInv' /\ RetryInv' /\ LineageInv'
    BY <1>0, <1>15, <2>1 DEF IInv, StartRun, TakeUp, Write
  <2>5. QED
    BY <1>0, <2>2, <2>3, <2>4 DEF IInv
<1>16. ASSUME NEW w \in Workers, NEW r \in Runs, CallOfDeletedRun(w, r)
      PROVE IInv'
  BY <1>0, <1>16 DEF IInv, CallOfDeletedRun, Return
<1>17. ASSUME NEW w \in Workers, NEW r \in Runs, CallFails(w, r)
      PROVE IInv'
  BY <1>0, <1>17 DEF IInv, CallFails, Return, Write
<1>18. ASSUME NEW w \in Workers, NEW r \in Runs, CallDiscarded(w, r)
      PROVE IInv'
  BY <1>0, <1>18 DEF IInv, CallDiscarded, Return, Write
<1>19. ASSUME NEW w \in Workers, NEW r \in Runs, CallAnswers(w, r)
      PROVE IInv'
  \* The call that answers is the only one, so nothing is in flight afterwards,
  \* and if the row was no longer running a recovery had failed it.
  <2>1. r \notin overwritten =>
           /\ \A v \in Workers : current'[v] # r
           /\ status[r] = "running" \/ r \in interrupted
    BY <1>0, <1>19 DEF IInv, CallAnswers, Return, Write
  <2>2. CallInv' /\ FlightInv' /\ OutputInv'
    BY <1>0, <1>19, <2>1 DEF IInv, CallAnswers, Return, Write
  <2>3. RetryInv' /\ LineageInv'
    BY <1>0, <1>19, <2>1 DEF IInv, CallAnswers, Return, Write
  <2>4. AbsentInv' /\ SeenInv' /\ CancelledIsRequested'
    BY <1>0, <1>19 DEF IInv, CallAnswers, Return, Write
  <2>5. QED
    BY <1>0, <2>2, <2>3, <2>4 DEF IInv
<1>20. CASE UNCHANGED vars
  BY <1>20 DEF IInv, vars
<1>21. QED
  BY <1>1, <1>2, <1>3, <1>4, <1>5, <1>6, <1>7, <1>8, <1>9, <1>10, <1>11, <1>12,
     <1>13, <1>14, <1>15, <1>16, <1>17, <1>18, <1>19, <1>20 DEF Next, Execute

\* The invariant holds of every reachable state.
THEOREM Invariance == Spec => []IInv
<1>1. Init => IInv
  BY NullAssumption, BoundsAssumption
     DEF Init, IInv, TypeOK, Status, Waiting, Terminal, Missing, AbsentInv,
         SeenInv, CancelledIsRequested, CallInv, FlightInv, OutputInv, RetryInv,
         LineageInv, RetryLineage
<1>2. QED
  BY <1>1, InvStep, PTL DEF Spec
(***************************************************************************)
(* The properties of AgentRuns.                                            *)
(***************************************************************************)

\* The columns and the processes' memory keep their types.
THEOREM TypeCorrect == Spec => []TypeOK
BY Invariance, PTL DEF IInv

\* A run is called at most once, unless a recovery overwrote it.
THEOREM SingleCallAlways == Spec => []SingleCall
<1>1. IInv => SingleCall
  BY DEF IInv, CallInv, SingleCall
<1>2. QED
  BY <1>1, Invariance, PTL

\* Two workers never call the provider for the same run at the same time,
\* unless a recovery overwrote it.
THEOREM ExclusiveCallAlways == Spec => []ExclusiveCall
<1>1. IInv => ExclusiveCall
  BY DEF IInv, TypeOK, FlightInv, ExclusiveCall
<1>2. QED
  BY <1>1, Invariance, PTL

\* A run that was retried is never waiting or running again, unless a recovery
\* overwrote it.
THEOREM RetriedRunIsSettledAlways == Spec => []RetriedRunIsSettled
<1>1. IInv => RetriedRunIsSettled
  BY DEF IInv, TypeOK, RetryInv, RetriedRunIsSettled
<1>2. QED
  BY <1>1, Invariance, PTL

\* Parent and child agree on turn, conversation and attempt, and are deleted
\* together.
THEOREM RetryLineageAlways == Spec => []RetryLineage
<1>1. IInv => RetryLineage
  BY DEF IInv, LineageInv
<1>2. QED
  BY <1>1, Invariance, PTL

\* A run and its retry both answer only after a recovery interfered.
THEOREM RetryAnswersAloneAlways == Spec => []RetryAnswersAlone
<1>1. IInv => RetryAnswersAlone
  <2> SUFFICES ASSUME IInv, NEW r \in Runs, parent[r] # NoRun,
                      answers[parent[r]] > 0, parent[r] \notin overwritten
               PROVE parent[r] \in interrupted
    BY DEF RetryAnswersAlone
  <2>1. status[parent[r]] = "completed"
    BY DEF IInv, TypeOK, OutputInv
  <2>2. QED
    BY <2>1 DEF IInv, RetryInv
<1>2. QED
  BY <1>1, Invariance, PTL

\* The trace of a run agrees with its row, unless a recovery overwrote it.
THEOREM TraceAgreesAlways == Spec => []TraceAgrees
<1>1. IInv => TraceAgrees
  BY DEF IInv, OutputInv, TraceAgrees
<1>2. QED
  BY <1>1, Invariance, PTL

\* A cancelled row always carries its cancellation request.
THEOREM CancelledIsRequestedAlways == Spec => []CancelledIsRequested
BY Invariance, PTL DEF IInv

\* Nothing is published for a run once its cancellation was requested.
THEOREM NoAnswerAfterCancelAlways == Spec => NoAnswerAfterCancel
<1>1. ASSUME IInv, [Next]_vars, NEW r \in Runs, cancelRequested[r]
      PROVE /\ cancelRequested'[r]
            /\ answers'[r] <= answers[r]
            /\ status'[r] = "completed" => status[r] = "completed"
  <2> USE <1>1 DEF rowVars, lineageVars, outputVars, workerVars, recoverVars,
                   historyVars, TypeOK, Missing, Waiting
  <2>0. TypeOK /\ status[r] # "absent"
    BY DEF IInv, AbsentInv
  <2>1. ASSUME NEW s \in Runs, NEW c \in Conversations,
               QueueRun(s, c) \/ ChatAnswers(s, c) \/ ChatFails(s, c)
        PROVE UNCHANGED <<cancelRequested, status[r], answers[r]>>
    BY <2>0, <2>1 DEF QueueRun, ChatAnswers, ChatFails, Insert, Write
  <2>2. ASSUME NEW s \in Runs, CancelRun(s) \/ Age(s)
        PROVE /\ cancelRequested'[r]
              /\ answers' = answers
              /\ status'[r] = "completed" => status[r] = "completed"
    BY <2>0, <2>2 DEF CancelRun, Age, Write
  <2>3. ASSUME NEW p \in Runs, NEW s \in Runs, RetryRun(p, s)
        PROVE UNCHANGED <<cancelRequested, status[r], answers>>
    BY <2>0, <2>3 DEF RetryRun, Write
  <2>4. ASSUME NEW c \in Conversations, DeleteConversation(c)
        PROVE /\ UNCHANGED cancelRequested
              /\ answers'[r] <= answers[r]
              /\ status'[r] \in {status[r], "deleted"}
    BY <2>0, <2>4 DEF DeleteConversation
  <2>5. ASSUME NEW w \in Workers,
               \/ BootWorker(w) \/ RecoverCommit(w) \/ RecoverFails(w)
               \/ StopWorker(w) \/ ClaimRuns(w)
        PROVE /\ UNCHANGED <<cancelRequested, answers>>
              /\ status'[r] = "completed" => status[r] = "completed"
    <3>1. CASE RecoverCommit(w)
      BY <2>0, <3>1 DEF RecoverCommit, RecoveredStatus
    <3>2. CASE ClaimRuns(w)
      BY <2>0, <3>2 DEF ClaimRuns
    <3>3. CASE BootWorker(w) \/ RecoverFails(w) \/ StopWorker(w)
      BY <2>0, <3>3 DEF BootWorker, RecoverFails, StopWorker, Exit
    <3>4. QED
      BY <2>5, <3>1, <3>2, <3>3
  <2>6. ASSUME NEW w \in Workers, NEW s \in Runs, Execute(w, s)
        PROVE /\ UNCHANGED cancelRequested
              /\ answers'[r] <= answers[r]
              /\ status'[r] = "completed" => status[r] = "completed"
    <3>1. CASE SkipRun(w, s) \/ CallOfDeletedRun(w, s)
      BY <2>0, <3>1 DEF SkipRun, CallOfDeletedRun, TakeUp, Return
    <3>2. CASE \/ CancelBeforeCall(w, s) \/ ProviderMissing(w, s)
               \/ StartRun(w, s)
      BY <2>0, <3>2 DEF CancelBeforeCall, ProviderMissing, StartRun, TakeUp, Write
    <3>3. CASE CallFails(w, s) \/ CallDiscarded(w, s)
      BY <2>0, <3>3 DEF CallFails, CallDiscarded, Return, Write
    <3>4. CASE CallAnswers(w, s)
      BY <2>0, <3>4 DEF CallAnswers, Return, Write
    <3>5. QED
      BY <2>6, <3>1, <3>2, <3>3, <3>4 DEF Execute
  <2>7. CASE UNCHANGED vars
    BY <2>0, <2>7 DEF vars
  <2>8. QED
    BY <2>0, <2>1, <2>2, <2>3, <2>4, <2>5, <2>6, <2>7 DEF Next
<1>2. IInv /\ [Next]_vars =>
         [\A r \in Runs :
             cancelRequested[r] => /\ cancelRequested'[r]
                                   /\ answers'[r] <= answers[r]
                                   /\ status'[r] = "completed" =>
                                          status[r] = "completed"]_vars
  BY <1>1
<1>3. QED
  BY <1>2, Invariance, PTL DEF Spec, NoAnswerAfterCancel
\* A terminal status is left only by deletion, by the late call of a run that
\* was failed or cancelled meanwhile, or by an overwriting recovery.
THEOREM TerminalStatusIsKeptAlways == Spec => TerminalStatusIsKept
<1>1. ASSUME IInv, [Next]_vars, NEW r \in Runs, status[r] \in Terminal
      PROVE \/ status'[r] \in {status[r], "deleted"}
            \/ <<status[r], status'[r]>> \in TerminalExits
            \/ r \in overwritten'
  <2> USE <1>1 DEF rowVars, lineageVars, outputVars, workerVars, recoverVars,
                   historyVars, TypeOK, Missing, Waiting, Terminal, TerminalExits
  <2>0. TypeOK
    BY DEF IInv
  <2>1. ASSUME NEW s \in Runs, NEW c \in Conversations,
               QueueRun(s, c) \/ ChatAnswers(s, c) \/ ChatFails(s, c)
        PROVE status'[r] = status[r]
    BY <2>0, <2>1 DEF QueueRun, ChatAnswers, ChatFails, Insert, Write
  <2>2. ASSUME NEW s \in Runs, CancelRun(s) \/ Age(s)
        PROVE status'[r] = status[r]
    BY <2>0, <2>2 DEF CancelRun, Age, Write
  <2>3. ASSUME NEW p \in Runs, NEW s \in Runs, RetryRun(p, s)
        PROVE status'[r] = status[r]
    BY <2>0, <2>3 DEF RetryRun, Write
  <2>4. ASSUME NEW c \in Conversations, DeleteConversation(c)
        PROVE status'[r] \in {status[r], "deleted"}
    BY <2>0, <2>4 DEF DeleteConversation
  <2>5. ASSUME NEW w \in Workers, RecoverCommit(w)
        PROVE status'[r] = status[r] \/ r \in overwritten'
    BY <2>0, <2>5 DEF RecoverCommit, Outdated
  <2>6. ASSUME NEW w \in Workers, ClaimRuns(w)
        PROVE status'[r] = status[r]
    BY <2>0, <2>6 DEF ClaimRuns
  <2>7. ASSUME NEW w \in Workers, BootWorker(w) \/ RecoverFails(w) \/ StopWorker(w)
        PROVE status'[r] = status[r]
    BY <2>0, <2>7 DEF BootWorker, RecoverFails, StopWorker, Exit
  <2>8. ASSUME NEW w \in Workers, NEW s \in Runs, Execute(w, s)
        PROVE \/ status'[r] = status[r]
              \/ <<status[r], status'[r]>> \in TerminalExits
              \/ r \in overwritten'
    \* A completed run is neither marked nor in flight; a cancelled one is
    \* marked, so that it is not answered.
    <3>1. CASE SkipRun(w, s) \/ CallOfDeletedRun(w, s)
      BY <2>0, <3>1 DEF SkipRun, CallOfDeletedRun, TakeUp, Return
    <3>2. CASE CancelBeforeCall(w, s)
      BY <2>0, <3>2 DEF CancelBeforeCall, TakeUp, Write, IInv, OutputInv
    <3>3. CASE ProviderMissing(w, s) \/ StartRun(w, s)
      BY <2>0, <3>3 DEF ProviderMissing, StartRun, TakeUp, Write
    <3>4. CASE CallFails(w, s)
      BY <2>0, <3>4 DEF CallFails, Return, Write, IInv, FlightInv
    <3>5. CASE CallDiscarded(w, s)
      BY <2>0, <3>5 DEF CallDiscarded, Return, Write, IInv, OutputInv
    <3>6. CASE CallAnswers(w, s)
      BY <2>0, <3>6 DEF CallAnswers, Return, Write
    <3>7. QED
      BY <2>8, <3>1, <3>2, <3>3, <3>4, <3>5, <3>6 DEF Execute
  <2>9. CASE UNCHANGED vars
    BY <2>9 DEF vars
  <2>10. QED
    BY <2>1, <2>2, <2>3, <2>4, <2>5, <2>6, <2>7, <2>8, <2>9 DEF Next
<1>2. IInv /\ [Next]_vars =>
         [\A r \in Runs :
             status[r] \in Terminal /\ status'[r] # status[r]
                 => \/ status'[r] = "deleted"
                    \/ <<status[r], status'[r]>> \in TerminalExits
                    \/ r \in overwritten']_vars
  BY <1>1
<1>3. QED
  BY <1>2, Invariance, PTL DEF Spec, TerminalStatusIsKept
(***************************************************************************)
(* The refinement: the queue implements AgentPromise.                      *)
(***************************************************************************)

\* Every step of the queue is a step of the promise, or does not touch it.
LEMMA PromiseStep == IInv /\ [Next]_vars => [Promise!Next]_(Promise!vars)
<1> SUFFICES ASSUME IInv, [Next]_vars PROVE [Promise!Next]_(Promise!vars)
  OBVIOUS
<1> USE NullAssumption
    DEF TypeOK, Missing, Waiting, Terminal, AbsentInv, SeenInv,
        rowVars, lineageVars, outputVars, workerVars, recoverVars, historyVars
<1>0. TypeOK /\ AbsentInv /\ SeenInv
  BY DEF IInv
<1>1. ASSUME NEW r \in Runs, NEW c \in Conversations,
             QueueRun(r, c) \/ ChatFails(r, c)
      PROVE Promise!Next
  <2>1. Promise!Ask(r)
    BY <1>0, <1>1 DEF QueueRun, ChatFails, Insert, Write, Promise!Ask
  <2>2. QED
    BY <2>1 DEF Promise!Next
<1>2. ASSUME NEW r \in Runs, NEW c \in Conversations, ChatAnswers(r, c)
      PROVE Promise!Next
  <2>1. Promise!AskAndAnswer(r)
    BY <1>0, <1>2 DEF ChatAnswers, Insert, Write, Promise!AskAndAnswer
  <2>2. QED
    BY <2>1 DEF Promise!Next
<1>3. ASSUME NEW r \in Runs, CancelRun(r)
      PROVE Promise!Next
  <2>1. Promise!Cancel(r)
    BY <1>0, <1>3 DEF CancelRun, Write, Promise!Cancel
  <2>2. QED
    BY <2>1 DEF Promise!Next
<1>4. ASSUME NEW p \in Runs, NEW r \in Runs, RetryRun(p, r)
      PROVE Promise!Next
  <2>1. Promise!Ask(r)
    BY <1>0, <1>4 DEF RetryRun, Write, Promise!Ask
  <2>2. QED
    BY <2>1 DEF Promise!Next
<1>5. ASSUME NEW c \in Conversations, DeleteConversation(c)
      PROVE Promise!Next
  <2>1. PICK S \in SUBSET Runs : S = {r \in Runs : conversation[r] = c}
    OBVIOUS
  <2>2. Promise!Erase(S)
    BY <1>0, <1>5, <2>1 DEF DeleteConversation, Promise!Erase
  <2>3. QED
    BY <2>2 DEF Promise!Next
<1>6. ASSUME NEW r \in Runs, Age(r)
      PROVE UNCHANGED Promise!vars
  BY <1>6 DEF Age, Promise!vars
<1>7. ASSUME NEW w \in Workers, RecoverCommit(w)
      PROVE UNCHANGED Promise!vars
  \* The rows a recovery writes had been inserted and are not deleted.
  <2>1. \A r \in Runs : /\ (status[r] = "absent") = (status'[r] = "absent")
                        /\ (status[r] = "deleted") = (status'[r] = "deleted")
    BY <1>0, <1>7 DEF RecoverCommit, RecoveredStatus
  <2>2. QED
    BY <1>7, <2>1 DEF RecoverCommit, Promise!vars
<1>8. ASSUME NEW w \in Workers, ClaimRuns(w)
      PROVE UNCHANGED Promise!vars
  <2>1. \A r \in Runs : /\ (status[r] = "absent") = (status'[r] = "absent")
                        /\ (status[r] = "deleted") = (status'[r] = "deleted")
    BY <1>0, <1>8 DEF ClaimRuns
  <2>2. QED
    BY <1>8, <2>1 DEF ClaimRuns, Promise!vars
<1>9. ASSUME NEW w \in Workers, BootWorker(w) \/ RecoverFails(w) \/ StopWorker(w)
      PROVE UNCHANGED Promise!vars
  BY <1>9 DEF BootWorker, RecoverFails, StopWorker, Exit, Promise!vars
<1>10. ASSUME NEW w \in Workers, NEW r \in Runs, CallAnswers(w, r)
      PROVE Promise!Next
  <2>1. Promise!Answer(r)
    BY <1>0, <1>10 DEF CallAnswers, Return, Write, Promise!Answer
  <2>2. QED
    BY <2>1 DEF Promise!Next
<1>11. ASSUME NEW w \in Workers, NEW r \in Runs,
              \/ SkipRun(w, r) \/ CancelBeforeCall(w, r) \/ ProviderMissing(w, r)
              \/ StartRun(w, r) \/ CallOfDeletedRun(w, r) \/ CallFails(w, r)
              \/ CallDiscarded(w, r)
      PROVE UNCHANGED Promise!vars
  <2>1. CASE SkipRun(w, r) \/ CallOfDeletedRun(w, r)
    BY <2>1 DEF SkipRun, CallOfDeletedRun, TakeUp, Return, Promise!vars
  <2>2. CASE CancelBeforeCall(w, r) \/ ProviderMissing(w, r) \/ StartRun(w, r)
    BY <1>0, <2>2 DEF CancelBeforeCall, ProviderMissing, StartRun, TakeUp, Write,
                      Promise!vars
  <2>3. CASE CallFails(w, r) \/ CallDiscarded(w, r)
    BY <1>0, <2>3 DEF CallFails, CallDiscarded, Return, Write, Promise!vars
  <2>4. QED
    BY <1>11, <2>1, <2>2, <2>3
<1>12. CASE UNCHANGED vars
  BY <1>12 DEF vars, Promise!vars
<1>13. QED
  BY <1>1, <1>2, <1>3, <1>4, <1>5, <1>6, <1>7, <1>8, <1>9, <1>10, <1>11, <1>12
     DEF Next, Execute

\* The queue keeps its promise for every number of workers, recoveries,
\* crashes and late calls: an answer appears only for a live, uncancelled run.
THEOREM PromiseKept == Spec => KeepsPromise
<1>1. Init => Promise!Init
  BY DEF Init, Promise!Init
<1>2. QED
  BY <1>1, Invariance, PromiseStep, PTL DEF Spec, KeepsPromise, Promise!Spec

-----------------------------------------------------------------------------
\* The connected accounts.

Synchronizing == {"calendar", "pushing", "email", "fetched"}

\* What a request was made with is there: its account, and the authorization it
\* answers or the row it has read.
Grounded(q) ==
    /\ q.kind # "none" => q.account \in Accounts
    /\ q.kind \in {"callback", "exchanged"} =>
          q.state \in States /\ authorizations[q.state] # None
    /\ q.kind \in Synchronizing => q.conn \in ExternalConnection
    /\ q.kind \in {"calendar", "pushing"} => q.calendar \in Calendars
    /\ q.locked => q.kind \in Synchronizing /\ q.conn.token = q.conn.refresh

\* A calendar that is pushed posts an event, once, for a task it has read without one.
Posts(q) ==
    \A t \in Tasks :
        /\ q.found[t] # None => tasks[t] # None
        /\ t \in q.todo =>
              q.kind = "pushing" /\ q.found[t] # None /\ q.posted[t] = None
        /\ q.posted[t] # None => /\ q.kind = "pushing"
                                 /\ q.found[t] # None
                                 /\ q.found[t].contact[ProviderOf[q.account]] = None

RequestsSound == \A r \in Requests : Grounded(request[r]) /\ Posts(request[r])

\* A thread is kept for the period, from its import on.
RetentionKept ==
    \A d \in Digests : threads[d] # None =>
        threads[d].retention_until = threads[d].imported + EMAIL_RETENTION_DAYS

ConnectorIInv == ConnectorTypeOK /\ RequestsSound /\ RetentionKept

-----------------------------------------------------------------------------
\* What a step does to the database and the providers.

\* An authorization that was given out is never forgotten.
LEMMA AuthorizationsStay ==
    ASSUME ConnectorIInv, ConnectorNext
    PROVE  /\ authorizations' \in [States -> OAuthAuthorization \cup {None}]
           /\ \A s \in States : authorizations[s] # None => authorizations'[s] # None
<1> USE DEF ConnectorIInv, ConnectorTypeOK
<1>1. CASE authorizations' = authorizations
  BY <1>1
<1>2. ASSUME NEW s \in States, NEW services \in SUBSET Services \ {{}}, Authorize(s, services)
      PROVE  /\ authorizations' \in [States -> OAuthAuthorization \cup {None}]
             /\ \A z \in States : authorizations[z] # None => authorizations'[z] # None
  <2> DEFINE a == [services |-> services, expires_at |-> now + StateTTL, consumed |-> FALSE]
  <2>1. a \in OAuthAuthorization
    BY ConnectorAssumption, TimeAssumption DEF OAuthAuthorization
  <2>2. authorizations' = [authorizations EXCEPT ![s] = a]
    BY <1>2 DEF Authorize
  <2>3. QED
    BY <2>1, <2>2, NoneAssumption
<1>3. ASSUME NEW r \in Requests, NEW granted, NEW renewed, CommitCallback(r, granted, renewed)
      PROVE  /\ authorizations' \in [States -> OAuthAuthorization \cup {None}]
             /\ \A s \in States : authorizations[s] # None => authorizations'[s] # None
  <2> DEFINE z == request[r].state
  <2>1. z \in States /\ authorizations[z] # None
    BY <1>3 DEF CommitCallback, RequestsSound, Grounded
  <2>2. [authorizations[z] EXCEPT !.consumed = TRUE] \in OAuthAuthorization
    BY <2>1 DEF OAuthAuthorization
  <2>3. authorizations' = [authorizations EXCEPT ![z] =
                              [authorizations[z] EXCEPT !.consumed = TRUE]]
    BY <1>3, <2>1 DEF CommitCallback
  <2>4. QED
    BY <2>1, <2>2, <2>3, NoneAssumption
<1>4. QED
  BY <1>1, <1>2, <1>3
  DEF ConnectorNext, BeginCallback, Exchange, BeginSync, Refresh, ReadTasks,
      CommitCalendar, UpdateEvent, PostEvent, Fetch, CommitEmail, RollBack, AddTask,
      CompleteTask, Disconnect, AddEvent, RetentionSweep, Tick

\* Time, and what identifies a row, are numbers.
LEMMA NumbersType ==
    ASSUME ConnectorIInv, ConnectorNext
    PROVE  now' \in 0..MaxTime /\ rows' \in Nat
<1> USE DEF ConnectorIInv, ConnectorTypeOK
<1>1. now' \in 0..MaxTime
  <2>1. CASE Tick
    BY <2>1, TimeAssumption DEF Tick
  <2>2. CASE now' = now
    BY <2>2
  <2>3. QED
    BY <2>1, <2>2
    DEF ConnectorNext, Authorize, BeginCallback, Exchange, CommitCallback, BeginSync,
        Refresh, ReadTasks, CommitCalendar, UpdateEvent, PostEvent, Fetch, CommitEmail,
        RollBack, AddTask, CompleteTask, Disconnect, AddEvent, RetentionSweep
<1>2. rows' \in {rows, rows + 1}
  BY DEF ConnectorNext, Authorize, BeginCallback, Exchange, CommitCallback, BeginSync,
         Refresh, ReadTasks, CommitCalendar, UpdateEvent, PostEvent, Fetch, CommitEmail,
         RollBack, AddTask, CompleteTask, Disconnect, AddEvent, RetentionSweep, Tick
<1>3. QED
  BY <1>1, <1>2

\* The row of a request that has synchronized.
LEMMA SyncedType ==
    ASSUME ConnectorIInv, NEW r \in Requests, request[r].kind \in Synchronizing, RowStays(r)
    PROVE  Synced(r) \in ExternalConnection
<1>1. request[r].account \in Accounts /\ request[r].conn \in ExternalConnection
  BY DEF ConnectorIInv, RequestsSound, Grounded, Synchronizing
<1>2. connections[request[r].account] \in ExternalConnection
  BY <1>1 DEF ConnectorIInv, ConnectorTypeOK, RowStays
<1>3. QED
  BY <1>1, <1>2 DEF Synced, ExternalConnection

\* The row of a request whose authorization is granted.
LEMMA GrantedType ==
    ASSUME ConnectorIInv, NEW r \in Requests, NEW granted \in SUBSET Services,
           NEW renewed \in BOOLEAN, CommitCallback(r, granted, renewed)
    PROVE  Granted(r, granted, renewed) \in ExternalConnection
<1> DEFINE q == request[r]
           a == authorizations[q.state]
           kept == RefreshToken(r, granted, renewed)
<1>1. q.kind = "exchanged" /\ now \in Nat /\ rows \in Nat /\ TokenTTL \in Nat
  BY TimeAssumption, ConnectorAssumption DEF CommitCallback, ConnectorIInv, ConnectorTypeOK
<1>2. q \in Request /\ q.account \in Accounts /\ a \in OAuthAuthorization
  BY <1>1 DEF ConnectorIInv, ConnectorTypeOK, RequestsSound, Grounded
<1>3. a.services \in SUBSET Services
  BY <1>2 DEF OAuthAuthorization
<1>4. kept \in (SUBSET Services) \cup {None}
  BY <1>2 DEF RefreshToken, Request, ExternalConnection
<1> HIDE DEF kept
<1>5. CASE q.conn = None
  BY <1>1, <1>3, <1>4, <1>5 DEF Granted, ExternalConnection, kept
<1>6. CASE q.conn # None
  <2>1. connections[q.account] \in ExternalConnection
    BY <1>2, <1>6 DEF CommitCallback, RowStays, ConnectorIInv, ConnectorTypeOK
  <2> DEFINE c == connections[q.account]
             shown == IF a.services = q.conn.services THEN c.services ELSE a.services
             recorded == IF granted = q.conn.scopes THEN c.scopes ELSE granted
  <2>2. /\ c.id \in Nat /\ now + TokenTTL \in Nat
        /\ shown \in SUBSET Services /\ recorded \in SUBSET Services
    BY <1>1, <1>3, <2>1 DEF ExternalConnection
  <2>3. Granted(r, granted, renewed) =
          [c EXCEPT !.token = granted, !.refresh = kept, !.token_expires_at = now + TokenTTL,
                    !.scopes = recorded, !.services = shown]
    BY <1>6, <2>1 DEF Granted, ExternalConnection, kept
  <2> HIDE DEF shown, recorded, c
  <2>4. QED
    BY <1>4, <2>1, <2>2, <2>3 DEF ExternalConnection, c
<1>7. QED
  BY <1>5, <1>6

LEMMA ConnectionsType ==
    ASSUME ConnectorIInv, ConnectorNext
    PROVE  connections' \in [Accounts -> ExternalConnection \cup {None}]
<1> USE DEF ConnectorIInv, ConnectorTypeOK
<1>1. CASE connections' = connections
  BY <1>1
<1>2. ASSUME NEW r \in Requests, NEW granted \in SUBSET Services, NEW renewed \in BOOLEAN,
             CommitCallback(r, granted, renewed)
      PROVE  connections' \in [Accounts -> ExternalConnection \cup {None}]
  BY <1>2, GrantedType DEF CommitCallback
<1>3. ASSUME NEW r \in Requests, CommitCalendar(r)
      PROVE  connections' \in [Accounts -> ExternalConnection \cup {None}]
  BY <1>3, SyncedType DEF CommitCalendar, Synchronizing
<1>4. ASSUME NEW r \in Requests, NEW review \in BOOLEAN, CommitEmail(r, review)
      PROVE  connections' \in [Accounts -> ExternalConnection \cup {None}]
  BY <1>4, SyncedType DEF CommitEmail, Synchronizing
<1>5. ASSUME NEW a \in Accounts, Disconnect(a)
      PROVE  connections' \in [Accounts -> ExternalConnection \cup {None}]
  BY <1>5 DEF Disconnect
<1>6. QED
  BY <1>1, <1>2, <1>3, <1>4, <1>5
  DEF ConnectorNext, Authorize, BeginCallback, Exchange, BeginSync, Refresh, ReadTasks,
      UpdateEvent, PostEvent, Fetch, RollBack, AddTask, CompleteTask, AddEvent,
      RetentionSweep, Tick

LEMMA RemoteType ==
    ASSUME ConnectorIInv, ConnectorNext
    PROVE  remote' \in [Accounts -> [Calendars -> SUBSET CalendarEvent]]
<1> USE DEF ConnectorIInv, ConnectorTypeOK
<1>1. CASE remote' = remote
  BY <1>1
<1>2. \A e \in Events, timed \in BOOLEAN, t \in Tasks \cup {None} :
         [id |-> e, timed |-> timed, task |-> t] \in CalendarEvent
  BY DEF CalendarEvent
<1>3. ASSUME NEW r \in Requests, NEW t \in Tasks, NEW e \in Events, PostEvent(r, t, e)
      PROVE  remote' \in [Accounts -> [Calendars -> SUBSET CalendarEvent]]
  <2>1. request[r].account \in Accounts /\ request[r].calendar \in Calendars
    BY <1>3 DEF RequestsSound, Grounded, Posts, PostEvent, Synchronizing
  <2> DEFINE a == request[r].account
             c == request[r].calendar
             e_new == [id |-> e, timed |-> TRUE, task |-> t]
  <2>2. e_new \in CalendarEvent
    BY <1>2
  <2>3. remote' = [remote EXCEPT ![a][c] = @ \cup {e_new}]
    BY <1>3 DEF PostEvent
  <2> HIDE DEF a, c, e_new
  <2>4. a \in Accounts /\ c \in Calendars
    BY <2>1 DEF a, c
  <2>5. QED
    BY <2>2, <2>3, <2>4
<1>4. ASSUME NEW a \in Accounts, NEW c \in Calendars, NEW e \in Events,
             NEW timed \in BOOLEAN, AddEvent(a, c, e, timed)
      PROVE  remote' \in [Accounts -> [Calendars -> SUBSET CalendarEvent]]
  BY <1>2, <1>4 DEF AddEvent
<1> HIDE DEF ConnectorIInv, ConnectorTypeOK
<1>5. QED
  BY <1>1, <1>3, <1>4
  DEF ConnectorNext, Authorize, BeginCallback, Exchange, CommitCallback, BeginSync,
      Refresh, ReadTasks, CommitCalendar, UpdateEvent, Fetch, CommitEmail, RollBack,
      AddTask, CompleteTask, Disconnect, RetentionSweep, Tick

-----------------------------------------------------------------------------
\* What a step does to the tasks and the mail.

\* The identifier of an imported event or of a created one is that of an event.
LEMMA PushedType ==
    ASSUME ConnectorIInv, NEW r \in Requests, request[r].kind = "pushing", NEW t \in Tasks
    PROVE  /\ Pushed(r)[t] \in CareerTask \cup {None}
           /\ tasks[t] # None => Pushed(r)[t] # None
<1> DEFINE q == request[r]
           p == ProviderOf[q.account]
<1>1. q \in Request /\ q.account \in Accounts /\ p \in Range(ProviderOf)
  BY ConnectorAssumption DEF ConnectorIInv, ConnectorTypeOK, RequestsSound, Grounded, Range
<1>2. tasks[t] \in CareerTask \cup {None}
  BY DEF ConnectorIInv, ConnectorTypeOK
<1>3. CASE q.posted[t] = None
  BY <1>2, <1>3 DEF Pushed
<1>4. CASE q.posted[t] # None
  <2>1. q.found[t] # None /\ tasks[t] # None
    BY <1>4 DEF ConnectorIInv, RequestsSound, Posts
  <2>2. q.found[t] \in CareerTask /\ tasks[t] \in CareerTask /\ q.posted[t] \in Events
    BY <1>1, <1>2, <1>4, <2>1 DEF Request
  <2> DEFINE contact == [q.found[t].contact EXCEPT ![p] = q.posted[t]]
  <2>3. contact \in [Range(ProviderOf) -> Events \cup {None}]
    BY <1>1, <2>2 DEF CareerTask
  <2>4. Pushed(r)[t] = [tasks[t] EXCEPT !.contact = contact]
    BY <1>4 DEF Pushed
  <2> HIDE DEF contact
  <2>5. Pushed(r)[t] \in CareerTask
    BY <2>2, <2>3, <2>4 DEF CareerTask
  <2>6. QED
    BY <2>5, NoneAssumption
<1>5. QED
  BY <1>3, <1>4

\* The events imported get tasks of their own.
LEMMA ImportedType ==
    ASSUME ConnectorIInv, NEW r \in Requests, request[r].kind = "pushing",
           NEW new \in Injection(Strangers(r), {t \in Tasks : tasks[t] = None}),
           NEW t \in Range(new)
    PROVE  /\ t \in Tasks /\ tasks[t] = None
           /\ Imported(r, CHOOSE e \in Strangers(r) : new[e] = t) \in CareerTask
<1> DEFINE e == CHOOSE e \in Strangers(r) : new[e] = t
<1>1. new \in [Strangers(r) -> {u \in Tasks : tasks[u] = None}]
  BY DEF Injection
<1>2. \E x \in Strangers(r) : new[x] = t
  BY <1>1 DEF Range
<1>3. e \in Strangers(r) /\ new[e] = t
  BY <1>2
<1>4. request[r].account \in Accounts /\ request[r].calendar \in Calendars
  BY DEF ConnectorIInv, RequestsSound, Grounded
<1>5. e \in CalendarEvent
  BY <1>3, <1>4 DEF Strangers, ConnectorIInv, ConnectorTypeOK
<1> HIDE DEF e
<1>6. e.id \in Events /\ e.timed \in BOOLEAN
  BY <1>5 DEF CalendarEvent
<1>7. Imported(r, e) \in CareerTask
  BY <1>6 DEF Imported, CareerTask
<1>8. QED
  BY <1>1, <1>3, <1>7 DEF e

\* A task is never forgotten.
LEMMA TasksStay ==
    ASSUME ConnectorIInv, ConnectorNext
    PROVE  /\ tasks' \in [Tasks -> CareerTask \cup {None}]
           /\ \A t \in Tasks : tasks[t] # None => tasks'[t] # None
<1> DEFINE Stay == /\ tasks' \in [Tasks -> CareerTask \cup {None}]
                   /\ \A t \in Tasks : tasks[t] # None => tasks'[t] # None
<1>1. CASE tasks' = tasks
  BY <1>1 DEF ConnectorIInv, ConnectorTypeOK
<1>2. ASSUME NEW r \in Requests, CommitCalendar(r) PROVE Stay
  <2>1. request[r].kind = "pushing"
    BY <1>2 DEF CommitCalendar
  <2>2. PICK new \in Injection(Strangers(r), {t \in Tasks : tasks[t] = None}) :
          tasks' = [t \in Tasks |->
                      IF t \in Range(new)
                      THEN Imported(r, CHOOSE e \in Strangers(r) : new[e] = t)
                      ELSE Pushed(r)[t]]
    BY <1>2 DEF CommitCalendar
  <2>3. QED
    BY <2>1, <2>2, PushedType, ImportedType
<1>3. ASSUME NEW t \in Tasks, AddTask(t) PROVE Stay
  <2> DEFINE new == [scheduled |-> TRUE, completed |-> FALSE,
                     contact |-> [p \in Range(ProviderOf) |-> None]]
  <2>1. new \in CareerTask
    BY DEF CareerTask
  <2>2. tasks' = [tasks EXCEPT ![t] = new]
    BY <1>3 DEF AddTask
  <2>3. QED
    BY <2>1, <2>2, NoneAssumption DEF ConnectorIInv, ConnectorTypeOK
<1>4. ASSUME NEW t \in Tasks, CompleteTask(t) PROVE Stay
  <2>1. [tasks[t] EXCEPT !.completed = TRUE] \in CareerTask
    BY <1>4 DEF CompleteTask, CareerTask, ConnectorIInv, ConnectorTypeOK
  <2>2. tasks' = [tasks EXCEPT ![t] = [tasks[t] EXCEPT !.completed = TRUE]]
    BY <1>4 DEF CompleteTask, ConnectorIInv, ConnectorTypeOK
  <2>3. QED
    BY <2>1, <2>2, NoneAssumption DEF ConnectorIInv, ConnectorTypeOK
<1> HIDE DEF Stay
<1>5. QED
  BY <1>1, <1>2, <1>3, <1>4
  DEF ConnectorNext, Authorize, BeginCallback, Exchange, CommitCallback, BeginSync,
      Refresh, ReadTasks, UpdateEvent, PostEvent, Fetch, CommitEmail, RollBack,
      Disconnect, AddEvent, RetentionSweep, Tick, Stay

\* A synchronization keeps the date of a thread it found.
LEMMA ThreadLaws ==
    ASSUME ConnectorIInv, NEW r \in Requests, MailStays(r), NEW review \in BOOLEAN, NEW d \in Digests
    PROVE  LET new == Thread(d, request[r].mail[d], review) IN
           /\ new \in EmailThread \cup {None}
           /\ new # None => new.retention_until = new.imported + EMAIL_RETENTION_DAYS
<1> DEFINE found == request[r].mail[d]
           new == Thread(d, found, review)
<1>1. /\ now \in Nat /\ rows \in Nat /\ EMAIL_RETENTION_DAYS \in Nat
      /\ threads[d] \in EmailThread \cup {None}
      /\ threads[d] # None =>
           threads[d].retention_until = threads[d].imported + EMAIL_RETENTION_DAYS
  BY TimeAssumption, ConnectorAssumption DEF ConnectorIInv, ConnectorTypeOK, RetentionKept
<1>2. CASE found = Out
  BY <1>1, <1>2 DEF Thread
<1>3. CASE found # Out /\ found = New
  <2> DEFINE n == IF review THEN 1 ELSE 0
  <2>1. new = [id |-> rows + 1, imported |-> now,
               retention_until |-> now + EMAIL_RETENTION_DAYS, reviews |-> n]
    BY <1>3 DEF Thread
  <2>2. n \in Nat /\ rows + 1 \in Nat /\ now + EMAIL_RETENTION_DAYS \in Nat
    BY <1>1
  <2> HIDE DEF n, new
  <2>3. new \in EmailThread /\ new.retention_until = new.imported + EMAIL_RETENTION_DAYS
    BY <1>1, <2>1, <2>2 DEF EmailThread
  <2>4. QED
    BY <2>3 DEF new
<1>4. CASE found \notin {New, Out}
  <2> DEFINE n == IF review /\ found.reviews = 0 THEN threads[d].reviews + 1
                  ELSE threads[d].reviews
  <2>1. threads[d] \in EmailThread
    BY <1>1, <1>4 DEF MailStays
  <2>2. new = [threads[d] EXCEPT !.reviews = n]
    BY <1>4, <2>1 DEF Thread
  <2>3. n \in Nat
    BY <2>1 DEF EmailThread
  <2> HIDE DEF n, new
  <2>4. /\ new \in EmailThread
        /\ new.retention_until = threads[d].retention_until
        /\ new.imported = threads[d].imported
    BY <2>1, <2>2, <2>3 DEF EmailThread
  <2>5. threads[d] # None
    BY <1>4 DEF MailStays
  <2>6. QED
    BY <1>1, <2>4, <2>5 DEF new
<1>5. QED
  BY <1>2, <1>3, <1>4

LEMMA ThreadsKeep ==
    ASSUME ConnectorIInv, ConnectorNext
    PROVE  threads' \in [Digests -> EmailThread \cup {None}] /\ RetentionKept'
<1> DEFINE Kept == threads' \in [Digests -> EmailThread \cup {None}] /\ RetentionKept'
<1>1. CASE threads' = threads
  BY <1>1 DEF ConnectorIInv, ConnectorTypeOK, RetentionKept
<1>2. ASSUME NEW r \in Requests, NEW review \in BOOLEAN, CommitEmail(r, review) PROVE Kept
  BY <1>2, ThreadLaws DEF CommitEmail, RetentionKept
<1>3. ASSUME RetentionSweep PROVE Kept
  BY <1>3 DEF RetentionSweep, ConnectorIInv, ConnectorTypeOK, RetentionKept
<1> HIDE DEF Kept
<1>4. QED
  BY <1>1, <1>2, <1>3
  DEF ConnectorNext, Authorize, BeginCallback, Exchange, CommitCallback, BeginSync,
      Refresh, ReadTasks, CommitCalendar, UpdateEvent, PostEvent, Fetch, RollBack,
      AddTask, CompleteTask, Disconnect, AddEvent, Tick, Kept

-----------------------------------------------------------------------------
\* What a step does to the requests.

\* What a request relies on lasts through every step.
LEMMA SoundStays ==
    ASSUME ConnectorIInv, ConnectorNext, NEW q, Grounded(q), Posts(q)
    PROVE  Grounded(q)' /\ Posts(q)'
<1>1. /\ \A s \in States : authorizations[s] # None => authorizations'[s] # None
      /\ \A t \in Tasks : tasks[t] # None => tasks'[t] # None
  BY AuthorizationsStay, TasksStay
<1>2. QED
  BY <1>1 DEF Grounded, Posts

\* One request moves on; the others stay where they are.
LEMMA RequestMoves ==
    ASSUME ConnectorIInv, ConnectorNext, NEW r \in Requests, NEW n \in Request,
           request' = [request EXCEPT ![r] = n], Grounded(n), Posts(n)
    PROVE  request' \in [Requests -> Request] /\ RequestsSound'
<1>1. request \in [Requests -> Request]
  BY DEF ConnectorIInv, ConnectorTypeOK
<1>2. ASSUME NEW q \in Requests, NEW m, m = request'[q]
      PROVE  Grounded(m)' /\ Posts(m)'
  <2>1. m = n \/ m = request[q]
    BY <1>1, <1>2
  <2>2. Grounded(m) /\ Posts(m)
    BY <2>1 DEF ConnectorIInv, RequestsSound
  <2>3. QED
    BY <2>2, SoundStays
<1>3. RequestsSound'
  <2>1. SUFFICES ASSUME NEW q \in Requests PROVE (Grounded(request[q]) /\ Posts(request[q]))'
    BY DEF RequestsSound
  <2>2. PICK m : m = request'[q]
    OBVIOUS
  <2>3. Grounded(m)' /\ Posts(m)'
    BY <1>2, <2>2
  <2>4. QED
    BY <2>2, <2>3 DEF Grounded, Posts
<1>4. QED
  BY <1>1, <1>3

\* The requests are none of a step's concern.
LEMMA RequestsRest ==
    ASSUME ConnectorIInv, ConnectorNext, request' = request
    PROVE  request' \in [Requests -> Request] /\ RequestsSound'
<1>1. \A q \in Requests : (Grounded(request[q]) /\ Posts(request[q]))'
  <2>1. TAKE q \in Requests
  <2>2. PICK m : m = request[q]
    OBVIOUS
  <2>3. Grounded(m) /\ Posts(m)
    BY <2>2 DEF ConnectorIInv, RequestsSound
  <2>4. Grounded(m)' /\ Posts(m)'
    BY <2>3, SoundStays
  <2>5. QED
    BY <2>2, <2>4 DEF Grounded, Posts
<1>2. QED
  BY <1>1 DEF ConnectorIInv, ConnectorTypeOK, RequestsSound

\* A request that has ended asks for nothing.
LEMMA RestingSound == Resting \in Request /\ Grounded(Resting) /\ Posts(Resting)
BY DEF Resting, Request, Grounded, Posts, Synchronizing

\* A request begins, or goes on, with what it has found.
LEMMA RequestsKeep ==
    ASSUME ConnectorIInv, ConnectorNext
    PROVE  request' \in [Requests -> Request] /\ RequestsSound'
<1> DEFINE Kept == request' \in [Requests -> Request] /\ RequestsSound'
<1>0. /\ request \in [Requests -> Request]
      /\ connections \in [Accounts -> ExternalConnection \cup {None}]
      /\ now \in Nat /\ TokenTTL \in Nat
      /\ \A r \in Requests : Grounded(request[r]) /\ Posts(request[r])
  BY TimeAssumption, ConnectorAssumption DEF ConnectorIInv, ConnectorTypeOK, RequestsSound
<1>1. ASSUME NEW r \in Requests, NEW s \in States, NEW a \in Accounts, BeginCallback(r, s, a)
      PROVE  Kept
  <2> DEFINE n == [Resting EXCEPT !.kind = "callback", !.account = a, !.state = s]
  <2>1. request' = [request EXCEPT ![r] = n] /\ authorizations[s] # None
    BY <1>1 DEF BeginCallback, Valid
  <2>2. n \in Request /\ Grounded(n) /\ Posts(n)
    BY <2>1, RestingSound DEF Resting, Request, Grounded, Posts, Synchronizing
  <2> HIDE DEF n
  <2>3. QED
    BY <2>1, <2>2, RequestMoves
<1>2. ASSUME NEW r \in Requests, Exchange(r) PROVE Kept
  <2> DEFINE q == request[r]
             n == [q EXCEPT !.kind = "exchanged", !.conn = connections[q.account]]
  <2>1. q \in Request /\ q.kind = "callback" /\ Grounded(q) /\ Posts(q)
    BY <1>0, <1>2 DEF Exchange
  <2>2. request' = [request EXCEPT ![r] = n]
    BY <1>0, <1>2 DEF Exchange, Request
  <2>3. connections[q.account] \in ExternalConnection \cup {None}
    BY <1>0, <2>1 DEF Grounded
  <2> HIDE DEF q
  <2>4. n \in Request
    BY <2>1, <2>3 DEF Request
  <2>5. Grounded(n) /\ Posts(n)
    BY <2>1 DEF Request, Grounded, Posts, Synchronizing
  <2> HIDE DEF n
  <2>6. QED
    BY <2>2, <2>4, <2>5, RequestMoves
<1>3. ASSUME NEW r \in Requests, NEW a \in Accounts, NEW kind \in {"email", "calendar"},
             NEW c \in Calendars \cup {None}, kind = "calendar" => c \in Calendars,
             BeginSync(r, a, kind, c)
      PROVE  Kept
  <2> DEFINE n == [Resting EXCEPT !.kind = kind, !.account = a, !.conn = connections[a],
                                  !.calendar = c]
  <2>1. request' = [request EXCEPT ![r] = n] /\ connections[a] \in ExternalConnection
    BY <1>0, <1>3 DEF BeginSync
  <2>2. n \in Request
    BY <2>1, RestingSound DEF Request
  <2>3. Grounded(n) /\ Posts(n)
    BY <1>3, <2>1 DEF Resting, Grounded, Posts, Synchronizing
  <2> HIDE DEF n
  <2>4. QED
    BY <2>1, <2>2, <2>3, RequestMoves
<1>4. ASSUME NEW r \in Requests, Refresh(r) PROVE Kept
  <2> DEFINE q == request[r]
             n == [q EXCEPT !.locked = TRUE, !.conn.token = q.conn.refresh,
                            !.conn.token_expires_at = now + TokenTTL]
  <2>1. /\ q \in Request /\ q.kind \in {"calendar", "email"} /\ Grounded(q) /\ Posts(q)
        /\ request' = [request EXCEPT ![r] = n]
    BY <1>0, <1>4 DEF Refresh
  <2>2. q.conn \in ExternalConnection /\ q.conn.refresh # None
    BY <1>4, <2>1 DEF Grounded, Synchronizing, Refresh
  <2> HIDE DEF q
  <2> DEFINE c == [q.conn EXCEPT !.token = q.conn.refresh, !.token_expires_at = now + TokenTTL]
  <2>3. c \in ExternalConnection /\ c.token = c.refresh
    <3>1. q.conn.refresh \in SUBSET Services /\ now + TokenTTL \in Nat
      BY <1>0, <2>2 DEF ExternalConnection
    <3>2. QED
      BY <2>2, <3>1 DEF ExternalConnection
  <2>4. n = [q EXCEPT !.locked = TRUE, !.conn = c]
    BY <2>1 DEF Request
  <2> HIDE DEF c, n
  <2>5. n \in Request
    BY <2>1, <2>3, <2>4 DEF Request
  <2>6. Grounded(n) /\ Posts(n)
    BY <2>1, <2>3, <2>4 DEF Request, Grounded, Posts, Synchronizing
  <2>7. QED
    BY <2>1, <2>5, <2>6, RequestMoves DEF n
<1>5. ASSUME NEW r \in Requests, ReadTasks(r) PROVE Kept
  <2> DEFINE q == request[r]
             todo == {t \in Tasks : Open(t)}
             found == [t \in Tasks |-> IF Open(t) THEN tasks[t] ELSE None]
             n == [q EXCEPT !.kind = "pushing", !.todo = todo, !.found = found]
  <2>1. /\ q \in Request /\ q.kind = "calendar" /\ Grounded(q) /\ Posts(q)
        /\ request' = [request EXCEPT ![r] = n]
    BY <1>0, <1>5 DEF ReadTasks
  <2>2. found \in [Tasks -> CareerTask \cup {None}] /\ todo \in SUBSET Tasks
    BY DEF ConnectorIInv, ConnectorTypeOK
  <2>3. /\ \A t \in todo : found[t] # None
        /\ \A t \in Tasks : found[t] # None => tasks[t] # None
    BY DEF Open
  <2> HIDE DEF q, todo, found
  <2>4. n \in Request
    BY <2>1, <2>2 DEF Request
  <2>5. Grounded(n)
    BY <2>1 DEF Request, Grounded, Synchronizing
  <2>6. n.posted = q.posted /\ n.found = found /\ n.todo = todo /\ n.kind = "pushing"
    BY <2>1 DEF Request
  <2>7. \A t \in Tasks : q.posted[t] = None
    BY <2>1 DEF Posts
  <2>8. Posts(n)
    BY <2>3, <2>6, <2>7 DEF Posts
  <2> HIDE DEF n
  <2>9. QED
    BY <2>1, <2>4, <2>5, <2>8, RequestMoves
<1>6. ASSUME NEW r \in Requests, NEW t \in Tasks, UpdateEvent(r, t) PROVE Kept
  <2> DEFINE q == request[r]
             n == [q EXCEPT !.todo = @ \ {t}]
  <2>1. /\ q \in Request /\ Grounded(q) /\ Posts(q)
        /\ request' = [request EXCEPT ![r] = n]
    BY <1>0, <1>6 DEF UpdateEvent
  <2> HIDE DEF q
  <2>2. n \in Request
    BY <2>1 DEF Request
  <2>3. Grounded(n)
    BY <2>1 DEF Request, Grounded
  <2>4. Posts(n)
    BY <2>1 DEF Request, Posts
  <2> HIDE DEF n
  <2>5. QED
    BY <2>1, <2>2, <2>3, <2>4, RequestMoves
<1>7. ASSUME NEW r \in Requests, NEW t \in Tasks, NEW e \in Events, PostEvent(r, t, e)
      PROVE  Kept
  <2> DEFINE q == request[r]
             n == [q EXCEPT !.todo = @ \ {t}, !.posted[t] = e]
  <2>1. /\ q \in Request /\ Grounded(q) /\ Posts(q) /\ t \in q.todo
        /\ request' = [request EXCEPT ![r] = n]
        /\ q.found[t].contact[ProviderOf[q.account]] = None
    BY <1>0, <1>7 DEF PostEvent, EventOf
  <2> HIDE DEF q
  <2>2. n \in Request
    BY <2>1 DEF Request
  <2>3. Grounded(n)
    BY <2>1 DEF Request, Grounded
  <2>4. /\ n.kind = "pushing" /\ n.found = q.found /\ n.todo = q.todo \ {t}
        /\ n.account = q.account /\ n.posted = [q.posted EXCEPT ![t] = e]
        /\ q.found[t] # None /\ q.posted \in [Tasks -> Events \cup {None}]
    BY <2>1 DEF Request, Posts
  <2> HIDE DEF n
  <2>5. Posts(n)
    BY <2>1, <2>4 DEF Posts
  <2>6. QED
    BY <2>1, <2>2, <2>3, <2>5, RequestMoves DEF n
<1>8. ASSUME NEW r \in Requests, NEW ds \in SUBSET Digests, Fetch(r, ds) PROVE Kept
  <2> DEFINE q == request[r]
             mail == [d \in Digests |-> IF d \notin ds THEN Out
                                        ELSE IF threads[d] = None THEN New ELSE threads[d]]
             n == [q EXCEPT !.kind = "fetched", !.mail = mail]
  <2>1. /\ q \in Request /\ q.kind = "email" /\ Grounded(q) /\ Posts(q)
        /\ request' = [request EXCEPT ![r] = n]
    BY <1>0, <1>8 DEF Fetch
  <2>2. mail \in [Digests -> EmailThread \cup {New, Out}]
    BY DEF ConnectorIInv, ConnectorTypeOK
  <2> HIDE DEF q, mail
  <2>3. n \in Request
    BY <2>1, <2>2 DEF Request
  <2>4. Grounded(n)
    BY <2>1 DEF Request, Grounded, Synchronizing
  <2>5. Posts(n)
    BY <2>1 DEF Request, Posts
  <2> HIDE DEF n
  <2>6. QED
    BY <2>1, <2>3, <2>4, <2>5, RequestMoves
<1>9. ASSUME NEW r \in Requests, request' = [request EXCEPT ![r] = Resting] PROVE Kept
  BY <1>9, RestingSound, RequestMoves
<1>10. ASSUME request' = request PROVE Kept
  BY <1>10, RequestsRest
<1> HIDE DEF Kept
<1>11. \A r \in Requests, a \in Accounts : BeginSync(r, a, "email", None) => Kept
  BY <1>3
<1>12. \A r \in Requests, a \in Accounts, c \in Calendars :
          BeginSync(r, a, "calendar", c) => Kept
  BY <1>3
<1>13. ASSUME NEW r \in Requests,
              \/ \E granted, renewed : CommitCallback(r, granted, renewed)
              \/ CommitCalendar(r) \/ RollBack(r)
              \/ \E review \in BOOLEAN : CommitEmail(r, review)
       PROVE  Kept
  BY <1>9, <1>13 DEF CommitCallback, CommitCalendar, CommitEmail, RollBack
<1>14. ASSUME NEW s \in States, NEW services \in SUBSET Services, Authorize(s, services)
       PROVE  Kept
  BY <1>10, <1>14 DEF Authorize
<1>15. ASSUME NEW t \in Tasks, AddTask(t) \/ CompleteTask(t) PROVE Kept
  BY <1>10, <1>15 DEF AddTask, CompleteTask
<1>16. ASSUME NEW a \in Accounts,
              \/ Disconnect(a)
              \/ \E c \in Calendars, e \in Events, timed \in BOOLEAN : AddEvent(a, c, e, timed)
       PROVE  Kept
  BY <1>10, <1>16 DEF Disconnect, AddEvent
<1>17. ASSUME RetentionSweep \/ Tick PROVE Kept
  BY <1>10, <1>17 DEF RetentionSweep, Tick
<1>18. Kept
  BY <1>1, <1>2, <1>4, <1>5, <1>6, <1>7, <1>8, <1>11, <1>12, <1>13, <1>14, <1>15, <1>16,
     <1>17 DEF ConnectorNext
<1>19. QED
  BY <1>18 DEF Kept

-----------------------------------------------------------------------------
\* The invariant, and what follows from it.

LEMMA ConnectorInitInv == ConnectorInit => ConnectorIInv
<1> SUFFICES ASSUME ConnectorInit PROVE ConnectorIInv
  OBVIOUS
<1>1. ConnectorTypeOK
  BY RestingSound, TimeAssumption DEF ConnectorInit, ConnectorTypeOK
<1>2. RequestsSound
  BY RestingSound DEF ConnectorInit, RequestsSound
<1>3. RetentionKept
  BY DEF ConnectorInit, RetentionKept
<1>4. QED
  BY <1>1, <1>2, <1>3 DEF ConnectorIInv

LEMMA ConnectorInvStep == ConnectorIInv /\ [ConnectorNext]_connectorVars => ConnectorIInv'
<1>1. ASSUME ConnectorIInv, ConnectorNext PROVE ConnectorIInv'
  BY <1>1, AuthorizationsStay, NumbersType, ConnectionsType, RemoteType, TasksStay,
     ThreadsKeep, RequestsKeep DEF ConnectorIInv, ConnectorTypeOK
<1>2. ASSUME ConnectorIInv, UNCHANGED connectorVars PROVE ConnectorIInv'
  BY <1>2 DEF connectorVars, ConnectorIInv, ConnectorTypeOK, RequestsSound, Grounded, Posts,
              RetentionKept
<1>3. QED
  BY <1>1, <1>2

\* Requests go on from what they have read, and threads are dated, in every state
\* (services/oauth.py, services/calendar_connector.py, services/email_connector.py).
THEOREM ConnectorInvariance == ConnectorSpec => []ConnectorIInv
<1>1. QED
  BY ConnectorInitInv, ConnectorInvStep, PTL DEF ConnectorSpec

\* Every variable has its type.
THEOREM ConnectorTypeCorrect == ConnectorSpec => []ConnectorTypeOK
<1>1. ConnectorIInv => ConnectorTypeOK
  BY DEF ConnectorIInv
<1>2. QED
  BY <1>1, ConnectorInvariance, PTL

\* retention_sweep: however often a thread is synchronized, it expires when the
\* period since its import is over.
THEOREM MailIsForgottenAlways == ConnectorSpec => []MailIsForgotten
<1>1. ConnectorIInv => MailIsForgotten
  <2> SUFFICES ASSUME ConnectorIInv, NEW d \in Digests, threads[d] # None,
                      threads[d].imported + EMAIL_RETENTION_DAYS < now
               PROVE  Expired(d)
    BY DEF MailIsForgotten
  <2>1. QED
    BY DEF ConnectorIInv, RetentionKept, Expired
<1>2. QED
  BY <1>1, ConnectorInvariance, PTL

\* complete_authorization, access_token: the scopes recorded and those the token is
\* for are parted only by a commit over a grant newer than the one it read, or by a
\* refresh token that a grant of other scopes has left.
THEOREM GrantsAgreeAlways == ConnectorSpec => GrantsAgree
<1> DEFINE Parts(a) ==
             Torn(a)' /\ ~ Torn(a) =>
               \E r \in Requests :
                  /\ request[r].account = a
                  /\ request'[r] = Resting
                  /\ request[r].conn # None
                  /\ \/ request[r].conn.scopes # connections[a].scopes
                     \/ request[r].locked /\ request[r].conn.refresh # request[r].conn.scopes
<1>1. ASSUME ConnectorIInv, ConnectorNext, NEW a \in Accounts PROVE Parts(a)
  <2>1. /\ connections \in [Accounts -> ExternalConnection \cup {None}]
        /\ request \in [Requests -> Request]
    BY <1>1 DEF ConnectorIInv, ConnectorTypeOK
  <2>2. CASE connections'[a] = connections[a]
    BY <2>2 DEF Torn
  <2>3. ASSUME NEW r \in Requests, NEW granted \in SUBSET Services, NEW renewed \in BOOLEAN,
               CommitCallback(r, granted, renewed)
        PROVE  Parts(a)
    <3>1. SUFFICES ASSUME Torn(a)', ~ Torn(a) PROVE Parts(a)
      OBVIOUS
    <3>2. /\ request[r].account = a /\ request'[r] = Resting
          /\ connections'[a] = Granted(r, granted, renewed)
      BY <2>1, <2>2, <2>3, <3>1 DEF CommitCallback, Torn
    <3>3. Granted(r, granted, renewed).scopes # Granted(r, granted, renewed).token
      BY <3>1, <3>2 DEF Torn
    <3>4. request[r].conn # None
      BY <3>3 DEF Granted
    <3>5. connections[a] \in ExternalConnection
      BY <2>1, <2>3, <3>2, <3>4 DEF CommitCallback, RowStays
    <3>6. request[r].conn.scopes # connections[a].scopes
      BY <3>2, <3>3, <3>4, <3>5 DEF Granted, ExternalConnection
    <3>7. QED
      BY <3>2, <3>4, <3>6
  <2>4. ASSUME NEW r \in Requests, request[r].kind \in Synchronizing, RowStays(r),
               connections' = [connections EXCEPT ![request[r].account] = Synced(r)],
               request' = [request EXCEPT ![r] = Resting]
        PROVE  Parts(a)
    <3>1. SUFFICES ASSUME Torn(a)', ~ Torn(a) PROVE Parts(a)
      OBVIOUS
    <3>2. /\ request[r].account = a /\ request'[r] = Resting /\ request[r].conn # None
          /\ connections[a] \in ExternalConnection
          /\ connections'[a] = Synced(r)
      <4>1. request[r].account = a /\ connections'[a] = Synced(r)
        BY <2>1, <2>2, <2>4, <3>1 DEF Torn
      <4>2. request[r].conn \in ExternalConnection
        BY <1>1, <2>4 DEF ConnectorIInv, RequestsSound, Grounded
      <4>3. QED
        BY <2>1, <2>4, <4>1, <4>2, NoneAssumption DEF RowStays
    <3>3. Synced(r).scopes # Synced(r).token
      BY <3>1, <3>2 DEF Torn
    <3>4. connections[a].scopes = connections[a].token
      BY <3>1, <3>2, NoneAssumption DEF Torn
    <3>5. /\ request[r].locked
          /\ connections[a].scopes # request[r].conn.token
      BY <3>2, <3>3, <3>4 DEF Synced, ExternalConnection
    <3>6. request[r].conn.token = request[r].conn.refresh
      BY <1>1, <3>5 DEF ConnectorIInv, RequestsSound, Grounded
    <3>7. QED
      BY <3>2, <3>5, <3>6
  <2>5. ASSUME NEW r \in Requests, CommitCalendar(r) PROVE Parts(a)
    BY <2>4, <2>5 DEF CommitCalendar, Synchronizing
  <2>6. ASSUME NEW r \in Requests, NEW review \in BOOLEAN, CommitEmail(r, review)
        PROVE  Parts(a)
    BY <2>4, <2>6 DEF CommitEmail, Synchronizing
  <2>7. ASSUME NEW b \in Accounts, Disconnect(b) PROVE Parts(a)
    BY <2>1, <2>7 DEF Disconnect, Torn
  <2> HIDE DEF Parts
  <2>8. QED
    BY <1>1, <2>2, <2>3, <2>5, <2>6, <2>7
    DEF ConnectorNext, Authorize, BeginCallback, Exchange, BeginSync, Refresh, ReadTasks,
        UpdateEvent, PostEvent, Fetch, RollBack, AddTask, CompleteTask, AddEvent,
        RetentionSweep, Tick
<1>2. ASSUME ConnectorIInv, UNCHANGED connectorVars, NEW a \in Accounts PROVE Parts(a)
  BY <1>2 DEF connectorVars, Torn
<1>3. ConnectorIInv /\ [ConnectorNext]_connectorVars => [\A a \in Accounts : Parts(a)]_connectorVars
  BY <1>1, <1>2
<1>4. QED
  BY <1>3, ConnectorInvariance, PTL DEF ConnectorSpec, GrantsAgree

-----------------------------------------------------------------------------
\* The events known, and what a synchronization brings in.

\* What ForgottenOnlyByFailure allows to happen to the event e.
Forgotten(e) ==
    \E r \in Requests, t \in Tasks :
        /\ request'[r] = Resting
        /\ request[r].posted[t] # None
        /\ \/ request[r].posted[t] = e /\ tasks' = tasks
           \/ tasks[t].contact # request[r].found[t].contact

\* An event is known by a task that holds it, or by the request that created it.
LEMMA KnownLaws ==
    ASSUME NEW e
    PROVE  e \in KnownEvents <=>
             \/ \E t \in Tasks : e \in Held(t)
             \/ e # None /\ \E r \in Requests : e \in Range(request[r].posted)
<1> DEFINE H == UNION {Held(t) : t \in Tasks}
           P == UNION {Range(request[r].posted) \ {None} : r \in Requests}
<1>1. e \in H <=> \E t \in Tasks : e \in Held(t)
  OBVIOUS
<1>2. e \in P <=> \E r \in Requests : e \in Range(request[r].posted) \ {None}
  OBVIOUS
<1>3. KnownEvents = H \cup P
  BY DEF KnownEvents
<1> HIDE DEF H, P
<1>4. QED
  BY <1>1, <1>2, <1>3

\* The same of the next state.
LEMMA KnownNextLaws ==
    ASSUME NEW e
    PROVE  e \in KnownEvents' <=>
             \/ \E t \in Tasks : e \in Held(t)'
             \/ e # None /\ \E r \in Requests : e \in Range(request'[r].posted)
<1> DEFINE H == UNION {Held(t) : t \in Tasks}
           P == UNION {Range(request[r].posted) \ {None} : r \in Requests}
<1>1. (e \in H)' <=> \E t \in Tasks : e \in Held(t)'
  OBVIOUS
<1>2. (e \in P)' <=> \E r \in Requests : e \in Range(request'[r].posted) \ {None}
  OBVIOUS
<1>3. KnownEvents' = H' \cup P'
  BY DEF KnownEvents
<1> HIDE DEF H, P
<1>4. QED
  BY <1>1, <1>2, <1>3

\* A step that leaves the tasks their events forgets what a request loses only.
LEMMA HeldKept ==
    ASSUME ConnectorIInv, NEW e \in KnownEvents \ KnownEvents',
           \A t \in Tasks : Held(t) \subseteq Held(t)'
    PROVE  \E r \in Requests, t \in Tasks :
              /\ request[r].posted[t] = e /\ e # None
              /\ request[r].kind = "pushing"
              /\ e \notin Range(request'[r].posted)
<1>1. e # None /\ \A t \in Tasks : e \notin Held(t)
  BY KnownLaws, KnownNextLaws DEF Held
<1>2. PICK r \in Requests : e \in Range(request[r].posted)
  BY <1>1, KnownLaws
<1>3. e \notin Range(request'[r].posted)
  BY <1>1, <1>2, KnownNextLaws
<1>4. request[r].posted \in [Tasks -> Events \cup {None}] /\ Posts(request[r])
  BY DEF ConnectorIInv, ConnectorTypeOK, Request, RequestsSound
<1>5. PICK t \in Tasks : request[r].posted[t] = e
  BY <1>2, <1>4 DEF Range
<1>6. request[r].kind = "pushing"
  BY <1>1, <1>4, <1>5 DEF Posts
<1>7. QED
  BY <1>1, <1>3, <1>5, <1>6

\* A synchronization that is committed writes the events it created; what it
\* overwrites has been written since it read it.
LEMMA CommitForgets ==
    ASSUME ConnectorIInv, NEW r \in Requests, CommitCalendar(r),
           NEW e \in KnownEvents \ KnownEvents'
    PROVE  Forgotten(e)
<1> DEFINE q == request[r]
           p == ProviderOf[q.account]
<1>1. /\ q \in Request /\ Grounded(q) /\ Posts(q) /\ q.kind = "pushing"
      /\ request' = [request EXCEPT ![r] = Resting]
      /\ request \in [Requests -> Request]
  BY DEF ConnectorIInv, ConnectorTypeOK, RequestsSound, CommitCalendar
<1>2. q.account \in Accounts /\ p \in Range(ProviderOf)
  BY <1>1, ConnectorAssumption DEF Grounded, Range
<1>3. PICK new \in Injection(Strangers(r), {t \in Tasks : tasks[t] = None}) :
        tasks' = [t \in Tasks |->
                    IF t \in Range(new)
                    THEN Imported(r, CHOOSE x \in Strangers(r) : new[x] = t)
                    ELSE Pushed(r)[t]]
  BY DEF CommitCalendar
<1>4. ASSUME NEW t \in Tasks, tasks[t] # None
      PROVE  tasks'[t] = Pushed(r)[t]
  <2>1. t \notin Range(new)
    BY <1>1, <1>4, ImportedType
  <2>2. QED
    BY <1>3, <2>1
<1>5. ASSUME NEW t \in Tasks, q.posted[t] # None
      PROVE  /\ q.posted[t] \in Events
             /\ q.found[t] \in CareerTask /\ tasks[t] \in CareerTask
             /\ q.found[t].contact[p] = None
             /\ tasks'[t] = [tasks[t] EXCEPT !.contact =
                               [q.found[t].contact EXCEPT ![p] = q.posted[t]]]
             /\ tasks'[t] \in CareerTask
  <2>1. q.found[t] # None /\ tasks[t] # None /\ q.found[t].contact[p] = None
    BY <1>1, <1>5 DEF Posts
  <2>2. /\ q.found[t] \in CareerTask /\ tasks[t] \in CareerTask
        /\ q.posted[t] \in Events
    BY <1>1, <1>5, <2>1 DEF ConnectorIInv, ConnectorTypeOK, Request
  <2>3. tasks'[t] = Pushed(r)[t]
    BY <1>4, <2>1
  <2>4. Pushed(r)[t] \in CareerTask
    BY <1>1, <2>1, PushedType
  <2>5. QED
    BY <1>5, <2>1, <2>2, <2>3, <2>4 DEF Pushed
<1>6. ASSUME NEW t \in Tasks, q.posted[t] # None
      PROVE  tasks'[t].contact = [q.found[t].contact EXCEPT ![p] = q.posted[t]]
  <2>1. /\ tasks[t] \in CareerTask
        /\ tasks'[t] = [tasks[t] EXCEPT !.contact =
                               [q.found[t].contact EXCEPT ![p] = q.posted[t]]]
    BY <1>5, <1>6
  <2> DEFINE contact == [q.found[t].contact EXCEPT ![p] = q.posted[t]]
  <2> HIDE DEF contact
  <2>2. tasks'[t] = [tasks[t] EXCEPT !.contact = contact]
    BY <2>1 DEF contact
  <2>3. tasks'[t].contact = contact
    BY <2>1, <2>2 DEF CareerTask
  <2>4. QED
    BY <2>3 DEF contact
<1>7. \A t \in Tasks : q.posted[t] # None => q.posted[t] \in Held(t)'
  <2>1. SUFFICES ASSUME NEW t \in Tasks, q.posted[t] # None PROVE q.posted[t] \in Held(t)'
    OBVIOUS
  <2>2. /\ q.found[t].contact \in [Range(ProviderOf) -> Events \cup {None}]
        /\ tasks'[t] # None
    BY <1>5, <2>1, NoneAssumption DEF CareerTask
  <2>3. tasks'[t].contact[p] = q.posted[t] /\ p \in DOMAIN tasks'[t].contact
    BY <1>2, <1>6, <2>1, <2>2
  <2>4. QED
    BY <2>1, <2>2, <2>3 DEF Held, Range
<1>8. CASE \E t \in Tasks : e \in Held(t)
  <2>1. PICK t \in Tasks : e \in Held(t)
    BY <1>8
  <2>2. e \notin Held(t)' /\ tasks[t] # None /\ e # None /\ e \in Range(tasks[t].contact)
    BY <2>1, KnownNextLaws DEF Held
  <2>3. q.posted[t] # None
    <3>1. ASSUME q.posted[t] = None PROVE FALSE
      <4>1. tasks'[t] = tasks[t]
        BY <1>4, <2>2, <3>1 DEF Pushed
      <4>2. QED
        BY <2>1, <2>2, <4>1 DEF Held
    <3>2. QED
      BY <3>1
  <2>4. tasks[t].contact # q.found[t].contact
    <3>1. SUFFICES ASSUME tasks[t].contact = q.found[t].contact PROVE FALSE
      OBVIOUS
    <3>2. tasks[t].contact \in [Range(ProviderOf) -> Events \cup {None}]
      BY <1>5, <2>3 DEF CareerTask
    <3>3. PICK x \in Range(ProviderOf) : tasks[t].contact[x] = e
      BY <2>2, <3>2 DEF Range
    <3>4. x # p
      BY <1>5, <2>2, <2>3, <3>1, <3>3
    <3>5. tasks'[t].contact[x] = e /\ x \in DOMAIN tasks'[t].contact
      BY <1>6, <2>3, <3>1, <3>2, <3>3, <3>4
    <3>6. tasks'[t] # None
      BY <1>5, <2>3, NoneAssumption
    <3>7. QED
      BY <2>2, <3>5, <3>6 DEF Held, Range
  <2>5. QED
    BY <1>1, <2>3, <2>4 DEF Forgotten
<1>9. CASE \A t \in Tasks : e \notin Held(t)
  <2>1. PICK s \in Requests : e # None /\ e \in Range(request[s].posted)
    BY <1>9, KnownLaws
  <2>2. s = r
    <3>1. s # r => request'[s] = request[s]
      BY <1>1
    <3>2. QED
      BY <2>1, <3>1, KnownNextLaws
  <2>3. PICK t \in Tasks : q.posted[t] = e
    BY <1>1, <2>1, <2>2 DEF Range, Request
  <2>4. QED
    BY <1>7, <2>1, <2>3, KnownNextLaws
<1>10. QED
  BY <1>8, <1>9

\* sync_calendar: the event of a task is forgotten by a failure after its creation,
\* or by a synchronization that overwrites what another one wrote.
THEOREM ForgottenOnlyByFailureAlways == ConnectorSpec => ForgottenOnlyByFailure
<1>1. ASSUME ConnectorIInv, ConnectorNext, NEW e \in KnownEvents \ KnownEvents' PROVE Forgotten(e)
  <2>0. request \in [Requests -> Request] /\ tasks \in [Tasks -> CareerTask \cup {None}]
    BY <1>1 DEF ConnectorIInv, ConnectorTypeOK
  <2>1. CASE \E r \in Requests : CommitCalendar(r)
    BY <1>1, <2>1, CommitForgets
  <2>2. ASSUME \A t \in Tasks : Held(t) \subseteq Held(t)',
               \A r \in Requests : request[r].kind = "pushing" =>
                   \A x \in Events : x \in Range(request[r].posted)
                                       => x \in Range(request'[r].posted)
        PROVE  FALSE
    <3>1. PICK r \in Requests, t \in Tasks :
            /\ request[r].posted[t] = e /\ e # None /\ request[r].kind = "pushing"
            /\ e \notin Range(request'[r].posted)
      BY <1>1, <2>2, HeldKept
    <3>2. request[r].posted \in [Tasks -> Events \cup {None}]
      BY <2>0 DEF Request
    <3>3. QED
      BY <2>2, <3>1, <3>2 DEF Range
  <2>3. ASSUME NEW r \in Requests, RollBack(r) PROVE Forgotten(e)
    <3>1. tasks' = tasks /\ request' = [request EXCEPT ![r] = Resting]
      BY <2>3 DEF RollBack
    <3>2. PICK s \in Requests, t \in Tasks :
            /\ request[s].posted[t] = e /\ e # None
            /\ e \notin Range(request'[s].posted)
            /\ request[s].posted \in [Tasks -> Events \cup {None}]
      BY <1>1, <2>0, <3>1, HeldKept DEF Held, Request
    <3>3. s = r
      BY <2>0, <3>1, <3>2 DEF Range
    <3>4. QED
      BY <2>0, <3>1, <3>2, <3>3 DEF Forgotten
  <2>4. ASSUME tasks' = tasks,
               \A r \in Requests : request[r].kind = "pushing" =>
                   \A x \in Events : x \in Range(request[r].posted)
                                       => x \in Range(request'[r].posted)
        PROVE  FALSE
    BY <2>2, <2>4 DEF Held
  <2>5. ASSUME NEW r \in Requests, NEW n, request' = [request EXCEPT ![r] = n],
               tasks' = tasks,
               request[r].kind = "pushing" => n.posted = request[r].posted
        PROVE  FALSE
    BY <2>0, <2>4, <2>5
  <2>6. ASSUME request' = request, tasks' = tasks PROVE FALSE
    BY <2>4, <2>6
  <2>7. ASSUME NEW r \in Requests,
               \/ \E s \in States, a \in Accounts : BeginCallback(r, s, a)
               \/ \E a \in Accounts, kind \in {"email", "calendar"},
                     c \in Calendars \cup {None} : BeginSync(r, a, kind, c)
        PROVE  FALSE
    BY <2>5, <2>7 DEF BeginCallback, BeginSync
  <2>8. ASSUME NEW r \in Requests, Exchange(r) \/ Refresh(r) \/ ReadTasks(r) PROVE FALSE
    BY <2>0, <2>4, <2>8 DEF Exchange, Refresh, ReadTasks
  <2>9. ASSUME NEW r \in Requests, NEW t \in Tasks, UpdateEvent(r, t) PROVE FALSE
    <3>1. /\ request' = [request EXCEPT ![r].todo = @ \ {t}]
          /\ tasks' = tasks /\ request[r] \in Request
      BY <2>0, <2>9 DEF UpdateEvent
    <3>2. request' = [request EXCEPT ![r] = [request[r] EXCEPT !.todo = @ \ {t}]]
      BY <2>0, <3>1
    <3>3. [request[r] EXCEPT !.todo = @ \ {t}].posted = request[r].posted
      BY <3>1 DEF Request
    <3>4. QED
      BY <2>5, <3>1, <3>2, <3>3
  <2>10. ASSUME NEW r \in Requests, NEW t \in Tasks, NEW x \in Events, PostEvent(r, t, x)
         PROVE  FALSE
    <3> DEFINE q == request[r]
               n == [q EXCEPT !.todo = @ \ {t}, !.posted[t] = x]
    <3>1. /\ q \in Request /\ Posts(q) /\ t \in q.todo
          /\ request' = [request EXCEPT ![r] = n] /\ tasks' = tasks
      BY <1>1, <2>0, <2>10 DEF PostEvent, ConnectorIInv, RequestsSound
    <3> HIDE DEF q
    <3>2. /\ n.posted = [q.posted EXCEPT ![t] = x] /\ q.posted[t] = None
          /\ q.posted \in [Tasks -> Events \cup {None}]
      BY <3>1 DEF Request, Posts
    <3> HIDE DEF n
    <3>3. \A y \in Range(q.posted) : y # None => y \in Range(n.posted)
      BY <3>2 DEF Range
    <3>4. \A s \in Requests : \A y \in Range(request[s].posted) :
             y # None => y \in Range(request'[s].posted)
      BY <2>0, <3>1, <3>3 DEF q
    <3>5. PICK s \in Requests, u \in Tasks :
            request[s].posted[u] = e /\ e # None /\ e \notin Range(request'[s].posted)
      BY <1>1, <3>1, HeldKept DEF Held
    <3>6. e \in Range(request[s].posted)
      BY <2>0, <3>5 DEF Range, Request
    <3>7. QED
      BY <3>4, <3>5, <3>6
  <2>11. ASSUME NEW r \in Requests, request[r].kind # "pushing", tasks' = tasks,
                request' = [request EXCEPT ![r] = Resting]
         PROVE  FALSE
    BY <2>5, <2>11
  <2>12. ASSUME NEW r \in Requests,
                \/ \E granted, renewed : CommitCallback(r, granted, renewed)
                \/ \E review \in BOOLEAN : CommitEmail(r, review)
         PROVE  FALSE
    BY <2>11, <2>12 DEF CommitCallback, CommitEmail
  <2>13. ASSUME NEW r \in Requests, NEW ds \in SUBSET Digests, Fetch(r, ds) PROVE FALSE
    BY <2>0, <2>4, <2>13 DEF Fetch
  <2>14. ASSUME NEW t \in Tasks, AddTask(t) \/ CompleteTask(t) PROVE FALSE
    <3>1. request' = request /\ \A u \in Tasks : Held(u) \subseteq Held(u)'
      <4>1. CASE AddTask(t)
        BY <2>0, <4>1 DEF AddTask, Held
      <4>2. CASE CompleteTask(t)
        <5>1. /\ tasks[t] \in CareerTask
              /\ tasks' = [tasks EXCEPT ![t] = [tasks[t] EXCEPT !.completed = TRUE]]
          BY <2>0, <4>2 DEF CompleteTask
        <5>2. /\ [tasks[t] EXCEPT !.completed = TRUE] \in CareerTask
              /\ [tasks[t] EXCEPT !.completed = TRUE].contact = tasks[t].contact
          BY <5>1 DEF CareerTask
        <5>3. tasks'[t] # None /\ tasks'[t].contact = tasks[t].contact
          BY <2>0, <5>1, <5>2, NoneAssumption
        <5>4. \A u \in Tasks : Held(u) \subseteq Held(u)'
          BY <2>0, <5>1, <5>3 DEF Held
        <5>5. QED
          BY <4>2, <5>4 DEF CompleteTask
      <4>3. QED
        BY <2>14, <4>1, <4>2
    <3>2. QED
      BY <2>2, <3>1
  <2>15. ASSUME \/ \E s \in States, services \in SUBSET Services : Authorize(s, services)
                \/ \E a \in Accounts : Disconnect(a)
                \/ \E a \in Accounts, c \in Calendars, x \in Events, timed \in BOOLEAN :
                      AddEvent(a, c, x, timed)
                \/ RetentionSweep \/ Tick
         PROVE  FALSE
    BY <2>6, <2>15 DEF Authorize, Disconnect, AddEvent, RetentionSweep, Tick
  <2>16. QED
    BY <1>1, <2>1, <2>3, <2>7, <2>8, <2>9, <2>10, <2>12, <2>13, <2>14, <2>15
    DEF ConnectorNext
<1>2. ConnectorIInv /\ [ConnectorNext]_connectorVars
        => [\A e \in KnownEvents \ KnownEvents' : Forgotten(e)]_connectorVars
  BY <1>1
<1>3. QED
  BY <1>2, ConnectorInvariance, PTL DEF ConnectorSpec, ForgottenOnlyByFailure, Forgotten

\* disconnect_connection: what a synchronization brings in, it brings in under the
\* grant it began with.
THEOREM DisconnectStopsImportsAlways == ConnectorSpec => DisconnectStopsImports
<1> DEFINE Brings == \/ \E d \in Digests : threads'[d] \notin {threads[d], None}
                     \/ \E t \in Tasks : tasks[t] = None /\ Held(t)' # {}
           Granting(r) == /\ request'[r] = Resting /\ request[r].conn # None
                          /\ connections[request[r].account] # None
                          /\ connections[request[r].account].id = request[r].conn.id
<1>1. ASSUME ConnectorIInv, ConnectorNext, Brings PROVE \E r \in Requests : Granting(r)
  <2>1. ASSUME NEW r \in Requests, request[r].kind \in Synchronizing, RowStays(r),
               request' = [request EXCEPT ![r] = Resting]
        PROVE  Granting(r)
    <3>1. request[r].conn \in ExternalConnection /\ request \in [Requests -> Request]
      BY <1>1, <2>1 DEF ConnectorIInv, ConnectorTypeOK, RequestsSound, Grounded
    <3>2. QED
      BY <2>1, <3>1, NoneAssumption DEF RowStays
  <2> HIDE DEF Granting
  <2>2. ASSUME NEW r \in Requests,
               CommitCalendar(r) \/ \E review \in BOOLEAN : CommitEmail(r, review)
        PROVE  Granting(r)
    BY <2>1, <2>2 DEF CommitCalendar, CommitEmail, Synchronizing
  <2>3. CASE UNCHANGED <<threads, tasks>>
    BY <1>1, <2>3 DEF Held
  <2>4. ASSUME NEW t \in Tasks, AddTask(t) PROVE FALSE
    <3> DEFINE new == [scheduled |-> TRUE, completed |-> FALSE,
                       contact |-> [p \in Range(ProviderOf) |-> None]]
    <3>1. threads' = threads /\ tasks' = [tasks EXCEPT ![t] = new]
      BY <2>4 DEF AddTask
    <3>2. Range(new.contact) \ {None} = {}
      BY DEF Range
    <3> HIDE DEF new
    <3>3. \A u \in Tasks : tasks[u] = None => Held(u)' = {}
      BY <1>1, <3>1, <3>2 DEF Held, ConnectorIInv, ConnectorTypeOK
    <3>4. QED
      BY <1>1, <3>1, <3>3
  <2>5. ASSUME NEW t \in Tasks, CompleteTask(t) PROVE FALSE
    <3>1. /\ threads' = threads /\ tasks[t] # None
          /\ \A u \in Tasks \ {t} : tasks'[u] = tasks[u]
      BY <1>1, <2>5 DEF CompleteTask, ConnectorIInv, ConnectorTypeOK
    <3>2. QED
      BY <1>1, <3>1 DEF Held
  <2>6. ASSUME RetentionSweep PROVE FALSE
    BY <1>1, <2>6 DEF RetentionSweep, Held
  <2> HIDE DEF Brings
  <2>7. QED
    BY <1>1, <2>2, <2>3, <2>4, <2>5, <2>6
    DEF ConnectorNext, Authorize, BeginCallback, Exchange, CommitCallback, BeginSync,
        Refresh, ReadTasks, UpdateEvent, PostEvent, Fetch, RollBack, Disconnect, AddEvent,
        Tick
<1>2. ASSUME UNCHANGED connectorVars PROVE ~ Brings
  BY <1>2 DEF connectorVars, Held
<1>3. ConnectorIInv /\ [ConnectorNext]_connectorVars
        => [Brings => \E r \in Requests : Granting(r)]_connectorVars
  BY <1>1
<1>4. QED
  BY <1>3, ConnectorInvariance, PTL DEF ConnectorSpec, DisconnectStopsImports

=============================================================================
