------------------------------ MODULE AgentRuns ------------------------------
(* The durable agent runs of CareerTwin: the rows of agent_runs, the API     *)
(* handlers that queue, cancel, retry and delete them, and the worker        *)
(* processes that claim, execute and recover them.                           *)
(*                                                                           *)
(* One action is one committed transaction (or one process event): every     *)
(* handler that takes the row with FOR UPDATE is a single step, while the    *)
(* two places that release the row in between are two steps, the provider    *)
(* call (StartRun, then CallFails or CallAnswers) and the recovery of a      *)
(* booting worker, which reads the rows without a lock and writes them when  *)
(* its transaction commits (BootWorker, then RecoverCommit).                 *)
EXTENDS Naturals, FiniteSets

CONSTANTS
    Runs,           \* identities of agent_runs rows
    Conversations,  \* identities of conversations rows
    Workers,        \* worker processes
    NoRun,          \* "no run": a null parent_run_id, no call in flight
    NoConversation, \* conversation of a row that was never inserted
    BatchSize,      \* settings.worker_batch_size
    MaxBoots        \* bound: worker process starts in one behaviour

ASSUME NullAssumption == NoRun \notin Runs /\ NoConversation \notin Conversations
ASSUME BoundsAssumption == BatchSize \in Nat \ {0} /\ MaxBoots \in Nat

VARIABLES
    status,           \* run -> status column; "absent" before, "deleted" after
    cancelRequested,  \* run -> cancel_requested_at is set
    stale,            \* run -> updated_at is older than the recovery cutoff
    parent,           \* run -> parent_run_id
    attempt,          \* run -> attempt column
    turn,             \* run -> run that was queued with the same user message
    conversation,     \* run -> conversation_id
    gone,             \* deleted conversations
    answers,          \* run -> assistant messages it has written
    trace,            \* run -> status of its persisted AgentTrace
    pc,               \* worker -> "down", "recovering" or "up"
    batch,            \* worker -> claimed runs it has yet to execute
    current,          \* worker -> run whose provider call is in flight
    seenClaimed,      \* worker -> rows its recovery read as "claimed"
    seenRunning,      \* worker -> rows its recovery read as "running"
    boots,            \* process starts so far (bounded by MaxBoots)
    calls,            \* history: run -> provider calls started for it
    interrupted,      \* history: runs a recovery has failed
    overwritten       \* history: runs a recovery wrote over a newer status

rowVars     == <<status, cancelRequested, stale>>
lineageVars == <<parent, attempt, turn, conversation>>
outputVars  == <<answers, trace>>
workerVars  == <<pc, batch, current>>
recoverVars == <<seenClaimed, seenRunning>>
historyVars == <<calls, interrupted, overwritten>>
vars == <<rowVars, lineageVars, gone, outputVars, workerVars, recoverVars,
          boots, historyVars>>

Waiting  == {"queued", "retrying", "claimed"}
Terminal == {"completed", "failed", "cancelled"}
Missing  == {"absent", "deleted"}
Status   == Waiting \cup {"running"} \cup Terminal \cup Missing

TypeOK ==
    /\ status \in [Runs -> Status]
    /\ cancelRequested \in [Runs -> BOOLEAN]
    /\ stale \in [Runs -> BOOLEAN]
    /\ parent \in [Runs -> Runs \cup {NoRun}]
    /\ attempt \in [Runs -> Nat]
    /\ turn \in [Runs -> Runs]
    /\ conversation \in [Runs -> Conversations \cup {NoConversation}]
    /\ gone \in SUBSET Conversations
    /\ answers \in [Runs -> Nat]
    /\ trace \in [Runs -> {"none", "failed", "completed"}]
    /\ pc \in [Workers -> {"down", "recovering", "up"}]
    /\ batch \in [Workers -> SUBSET Runs]
    /\ current \in [Workers -> Runs \cup {NoRun}]
    /\ seenClaimed \in [Workers -> SUBSET Runs]
    /\ seenRunning \in [Workers -> SUBSET Runs]
    /\ boots \in 0..MaxBoots
    /\ calls \in [Runs -> Nat]
    /\ interrupted \in SUBSET Runs
    /\ overwritten \in SUBSET Runs

Init ==
    /\ status = [r \in Runs |-> "absent"]
    /\ cancelRequested = [r \in Runs |-> FALSE]
    /\ stale = [r \in Runs |-> FALSE]
    /\ parent = [r \in Runs |-> NoRun]
    /\ attempt = [r \in Runs |-> 0]
    /\ turn = [r \in Runs |-> r]
    /\ conversation = [r \in Runs |-> NoConversation]
    /\ gone = {}
    /\ answers = [r \in Runs |-> 0]
    /\ trace = [r \in Runs |-> "none"]
    /\ pc = [w \in Workers |-> "down"]
    /\ batch = [w \in Workers |-> {}]
    /\ current = [w \in Workers |-> NoRun]
    /\ seenClaimed = [w \in Workers |-> {}]
    /\ seenRunning = [w \in Workers |-> {}]
    /\ boots = 0
    /\ calls = [r \in Runs |-> 0]
    /\ interrupted = {}
    /\ overwritten = {}
(***************************************************************************)
(* The API: one action per handler, each a single transaction.             *)
(***************************************************************************)

\* Every write of a row refreshes updated_at (TimestampMixin.onupdate).
Write(r, s) ==
    /\ status' = [status EXCEPT ![r] = s]
    /\ stale' = [stale EXCEPT ![r] = FALSE]

\* A new row with a new user message in conversation c.
Insert(r, c, s) ==
    /\ status[r] = "absent"
    /\ c \notin gone
    /\ Write(r, s)
    /\ conversation' = [conversation EXCEPT ![r] = c]
    /\ attempt' = [attempt EXCEPT ![r] = 1]
    /\ UNCHANGED <<cancelRequested, parent, turn>>

\* POST /api/agent/runs.
QueueRun(r, c) ==
    /\ Insert(r, c, "queued")
    /\ UNCHANGED <<gone, outputVars, workerVars, recoverVars, boots, historyVars>>

\* POST /api/agent/chat runs the provider inside the request's transaction, so
\* its "running" row is never visible: it appears completed, with the answer ...
ChatAnswers(r, c) ==
    /\ Insert(r, c, "completed")
    /\ answers' = [answers EXCEPT ![r] = 1]
    /\ calls' = [calls EXCEPT ![r] = 1]
    /\ UNCHANGED <<gone, trace, workerVars, recoverVars, boots, interrupted,
                   overwritten>>

\* ... or failed, committed before the 502 is raised.
ChatFails(r, c) ==
    /\ Insert(r, c, "failed")
    /\ calls' = [calls EXCEPT ![r] = 1]
    /\ UNCHANGED <<gone, outputVars, workerVars, recoverVars, boots, interrupted,
                   overwritten>>

\* POST /api/agent/runs/{id}/cancel: a waiting run is cancelled at once, a
\* running one is only marked, and a terminal one is refused (409).
CancelRun(r) ==
    /\ status[r] \in Waiting \cup {"running"}
    /\ cancelRequested' = [cancelRequested EXCEPT ![r] = TRUE]
    /\ Write(r, IF status[r] = "running" THEN "running" ELSE "cancelled")
    /\ UNCHANGED <<lineageVars, gone, outputVars, workerVars, recoverVars, boots,
                   historyVars>>

\* Mutated RetryRun: the status of the prior run is not checked.
RetryAnyRun(p, r) ==
    /\ status[p] \notin Missing
    /\ status[r] = "absent"
    /\ Write(r, "retrying")
    /\ parent' = [parent EXCEPT ![r] = p]
    /\ attempt' = [attempt EXCEPT ![r] = attempt[p] + 1]
    /\ turn' = [turn EXCEPT ![r] = turn[p]]
    /\ conversation' = [conversation EXCEPT ![r] = conversation[p]]
    /\ UNCHANGED <<cancelRequested, gone, outputVars, workerVars, recoverVars,
                   boots, historyVars>>

\* Mutated RetryRun: the column default is kept as the attempt number.
RetryAsFirstAttempt(p, r) ==
    /\ status[p] \in {"failed", "cancelled"}
    /\ status[r] = "absent"
    /\ Write(r, "retrying")
    /\ parent' = [parent EXCEPT ![r] = p]
    /\ attempt' = [attempt EXCEPT ![r] = 1]
    /\ turn' = [turn EXCEPT ![r] = turn[p]]
    /\ conversation' = [conversation EXCEPT ![r] = conversation[p]]
    /\ UNCHANGED <<cancelRequested, gone, outputVars, workerVars, recoverVars,
                   boots, historyVars>>

\* Mutated RetryRun: the prior row itself is put back in the queue.
RetryInPlace(p, r) ==
    /\ status[p] \in {"failed", "cancelled"}
    /\ r = p
    /\ Write(p, "retrying")
    /\ attempt' = [attempt EXCEPT ![p] = @ + 1]
    /\ attempt[p] < 3
    /\ UNCHANGED <<cancelRequested, parent, turn, conversation, gone, outputVars,
                   workerVars, recoverVars, boots, historyVars>>

\* POST /api/agent/runs/{id}/retry: a child attempt r of the settled run p.
RetryRun(p, r) ==
    /\ status[p] \in {"failed", "cancelled"}
    /\ status[r] = "absent"
    /\ Write(r, "retrying")
    /\ parent' = [parent EXCEPT ![r] = p]
    /\ attempt' = [attempt EXCEPT ![r] = attempt[p] + 1]
    /\ turn' = [turn EXCEPT ![r] = turn[p]]
    /\ conversation' = [conversation EXCEPT ![r] = conversation[p]]
    /\ UNCHANGED <<cancelRequested, gone, outputVars, workerVars, recoverVars,
                   boots, historyVars>>

\* DELETE /api/agent/conversations/{id} cascades to its messages and runs.
DeleteConversation(c) ==
    /\ c \notin gone
    /\ \E r \in Runs : conversation[r] = c
    /\ gone' = gone \cup {c}
    /\ status' = [r \in Runs |->
                    IF conversation[r] = c THEN "deleted" ELSE status[r]]
    /\ answers' = [r \in Runs |-> IF conversation[r] = c THEN 0 ELSE answers[r]]
    /\ trace' = [r \in Runs |-> IF conversation[r] = c THEN "none" ELSE trace[r]]
    /\ UNCHANGED <<cancelRequested, stale, lineageVars, workerVars, recoverVars,
                   boots, historyVars>>

\* Ten minutes pass without a write to the row.
Age(r) ==
    /\ status[r] \in {"claimed", "running"}
    /\ ~stale[r]
    /\ stale' = [stale EXCEPT ![r] = TRUE]
    /\ UNCHANGED <<status, cancelRequested, lineageVars, gone, outputVars,
                   workerVars, recoverVars, boots, historyVars>>

(***************************************************************************)
(* The worker process.                                                     *)
(***************************************************************************)

\* run_worker starts and recover_interrupted_work reads the stale rows.
BootWorker(w) ==
    /\ pc[w] = "down"
    /\ boots < MaxBoots
    /\ boots' = boots + 1
    /\ pc' = [pc EXCEPT ![w] = "recovering"]
    /\ seenClaimed' = [seenClaimed EXCEPT ![w] =
                          {r \in Runs : status[r] = "claimed" /\ stale[r]}]
    /\ seenRunning' = [seenRunning EXCEPT ![w] =
                          {r \in Runs : status[r] = "running" /\ stale[r]}]
    /\ UNCHANGED <<rowVars, lineageVars, gone, outputVars, batch, current,
                   historyVars>>

\* What the recovery of w writes to row r: decided by what it read.
RecoveredStatus(w, r) ==
    IF r \in seenRunning[w] THEN "failed"
    ELSE IF parent[r] # NoRun THEN "retrying" ELSE "queued"

\* Rows whose status is no longer the one the recovery of w read.
Outdated(w) ==
    {r \in seenClaimed[w] : status[r] # "claimed"} \cup
    {r \in seenRunning[w] : status[r] # "running"}

\* The recovery commits UPDATE ... WHERE id: it overwrites whatever is there.
RecoverCommit(w) ==
    LET rows == seenClaimed[w] \cup seenRunning[w] IN
    /\ pc[w] = "recovering"
    /\ \A r \in rows : status[r] # "deleted"
    /\ pc' = [pc EXCEPT ![w] = "up"]
    /\ status' = [r \in Runs |->
                    IF r \in rows THEN RecoveredStatus(w, r) ELSE status[r]]
    /\ stale' = [r \in Runs |-> IF r \in rows THEN FALSE ELSE stale[r]]
    /\ interrupted' = interrupted \cup seenRunning[w]
    /\ overwritten' = overwritten \cup Outdated(w)
    /\ seenClaimed' = [seenClaimed EXCEPT ![w] = {}]
    /\ seenRunning' = [seenRunning EXCEPT ![w] = {}]
    /\ UNCHANGED <<cancelRequested, lineageVars, gone, outputVars, batch,
                   current, boots, calls>>

\* The process ends: what it had claimed and the answer of a call in flight
\* are lost with it.
Exit(w) ==
    /\ pc' = [pc EXCEPT ![w] = "down"]
    /\ batch' = [batch EXCEPT ![w] = {}]
    /\ current' = [current EXCEPT ![w] = NoRun]
    /\ seenClaimed' = [seenClaimed EXCEPT ![w] = {}]
    /\ seenRunning' = [seenRunning EXCEPT ![w] = {}]
    /\ UNCHANGED <<rowVars, lineageVars, gone, outputVars, boots, historyVars>>

\* An UPDATE of a row deleted meanwhile matches nothing: the recovery rolls
\* back as a whole and its exception ends the process.
RecoverFails(w) ==
    /\ pc[w] = "recovering"
    /\ \E r \in seenClaimed[w] \cup seenRunning[w] : status[r] = "deleted"
    /\ Exit(w)

\* The process is stopped or killed, or an exception escapes run_worker.
StopWorker(w) ==
    /\ pc[w] # "down"
    /\ Exit(w)

\* Mutated ClaimRuns: retries are forgotten.
ClaimQueuedOnly(w) ==
    /\ pc[w] = "up"
    /\ batch[w] = {}
    /\ current[w] = NoRun
    /\ \E claimed \in SUBSET {r \in Runs : status[r] = "queued"} :
          /\ claimed # {}
          /\ Cardinality(claimed) <= BatchSize
          /\ status' = [r \in Runs |->
                          IF r \in claimed THEN "claimed" ELSE status[r]]
          /\ stale' = [r \in Runs |-> IF r \in claimed THEN FALSE ELSE stale[r]]
          /\ batch' = [batch EXCEPT ![w] = claimed]
    /\ UNCHANGED <<cancelRequested, lineageVars, gone, outputVars, pc, current,
                   recoverVars, boots, historyVars>>

\* _claim_agent_runs: SKIP LOCKED may leave out any eligible row that another
\* transaction holds, so any non-empty set of them can be the batch.
ClaimRuns(w) ==
    /\ pc[w] = "up"
    /\ batch[w] = {}
    /\ current[w] = NoRun
    /\ \E claimed \in SUBSET {r \in Runs : status[r] \in {"queued", "retrying"}} :
          /\ claimed # {}
          /\ Cardinality(claimed) <= BatchSize
          /\ status' = [r \in Runs |->
                          IF r \in claimed THEN "claimed" ELSE status[r]]
          /\ stale' = [r \in Runs |-> IF r \in claimed THEN FALSE ELSE stale[r]]
          /\ batch' = [batch EXCEPT ![w] = claimed]
    /\ UNCHANGED <<cancelRequested, lineageVars, gone, outputVars, pc, current,
                   recoverVars, boots, historyVars>>

\* The worker takes r from its batch: first transaction of execute_agent_run.
TakeUp(w, r) ==
    /\ pc[w] = "up"
    /\ current[w] = NoRun
    /\ r \in batch[w]
    /\ batch' = [batch EXCEPT ![w] = @ \ {r}]
    /\ UNCHANGED <<lineageVars, gone, outputVars, pc, recoverVars, boots,
                   interrupted, overwritten>>

\* The row is gone, or is neither waiting nor to be cancelled: nothing to do.
SkipRun(w, r) ==
    /\ TakeUp(w, r)
    /\ \/ status[r] = "deleted"
       \/ ~cancelRequested[r] /\ status[r] \notin Waiting \cup {"cancelled"}
    /\ UNCHANGED <<rowVars, current, calls>>

\* The cancellation is honoured before the provider is called.
CancelBeforeCall(w, r) ==
    /\ TakeUp(w, r)
    /\ status[r] # "deleted"
    /\ status[r] = "cancelled" \/ cancelRequested[r]
    /\ Write(r, "cancelled")
    /\ UNCHANGED <<cancelRequested, current, calls>>

\* The worker's environment does not configure the run's provider.
ProviderMissing(w, r) ==
    /\ TakeUp(w, r)
    /\ ~cancelRequested[r]
    /\ status[r] \in Waiting
    /\ Write(r, "failed")
    /\ UNCHANGED <<cancelRequested, current, calls>>

\* Mutated StartRun: the status is not checked again under the row lock.
StartUnchecked(w, r) ==
    /\ TakeUp(w, r)
    /\ ~cancelRequested[r]
    /\ status[r] # "deleted"
    /\ Write(r, "running")
    /\ current' = [current EXCEPT ![w] = r]
    /\ calls' = [calls EXCEPT ![r] = @ + 1]
    /\ UNCHANGED cancelRequested

\* The row is committed as running and the provider is called outside any
\* transaction.
StartRun(w, r) ==
    /\ TakeUp(w, r)
    /\ ~cancelRequested[r]
    /\ status[r] \in Waiting
    /\ Write(r, "running")
    /\ current' = [current EXCEPT ![w] = r]
    /\ calls' = [calls EXCEPT ![r] = @ + 1]
    /\ UNCHANGED cancelRequested

\* The call of w returns: a second transaction follows.
Return(w, r) ==
    /\ pc[w] = "up"
    /\ r = current[w]
    /\ current' = [current EXCEPT ![w] = NoRun]
    /\ UNCHANGED <<cancelRequested, lineageVars, gone, pc, batch, recoverVars,
                   boots, historyVars>>

\* The conversation was deleted during the call: there is no row to write.
CallOfDeletedRun(w, r) ==
    /\ Return(w, r)
    /\ status[r] = "deleted"
    /\ UNCHANGED <<status, stale, outputVars>>

\* The provider or the evidence critic raised: failed, whatever the row says.
CallFails(w, r) ==
    /\ Return(w, r)
    /\ status[r] # "deleted"
    /\ Write(r, "failed")
    /\ trace' = [trace EXCEPT ![r] = "failed"]
    /\ UNCHANGED answers

\* Cancellation was requested during the call: the answer is discarded.
CallDiscarded(w, r) ==
    /\ Return(w, r)
    /\ status[r] # "deleted"
    /\ cancelRequested[r] \/ status[r] = "cancelled"
    /\ Write(r, "cancelled")
    /\ UNCHANGED outputVars

\* Mutated CallAnswers: cancellation is not looked at after the call.
AnswerUnchecked(w, r) ==
    /\ Return(w, r)
    /\ status[r] # "deleted"
    /\ Write(r, "completed")
    /\ answers' = [answers EXCEPT ![r] = @ + 1]
    /\ trace' = [trace EXCEPT ![r] = "completed"]

\* The answer is published, whatever else happened to the row meanwhile.
CallAnswers(w, r) ==
    /\ Return(w, r)
    /\ status[r] # "deleted"
    /\ ~cancelRequested[r] /\ status[r] # "cancelled"
    /\ Write(r, "completed")
    /\ answers' = [answers EXCEPT ![r] = @ + 1]
    /\ trace' = [trace EXCEPT ![r] = "completed"]

Execute(w, r) ==
    \/ SkipRun(w, r)
    \/ CancelBeforeCall(w, r)
    \/ ProviderMissing(w, r)
    \/ StartRun(w, r)
    \/ CallOfDeletedRun(w, r)
    \/ CallFails(w, r)
    \/ CallDiscarded(w, r)
    \/ CallAnswers(w, r)

Next ==
    \/ \E r \in Runs, c \in Conversations :
          QueueRun(r, c) \/ ChatAnswers(r, c) \/ ChatFails(r, c)
    \/ \E r \in Runs : CancelRun(r) \/ Age(r)
    \/ \E p, r \in Runs : RetryRun(p, r)
    \/ \E c \in Conversations : DeleteConversation(c)
    \/ \E w \in Workers :
          \/ BootWorker(w) \/ RecoverCommit(w) \/ RecoverFails(w)
          \/ StopWorker(w) \/ ClaimRuns(w)
    \/ \E w \in Workers, r \in Runs : Execute(w, r)

Spec == Init /\ [][Next]_vars

\* compose.yaml restarts the worker (unless-stopped), run_worker polls without
\* pause, and a provider call ends within llm_request_timeout_seconds. Nothing
\* is assumed of users, of the clock or of the absence of crashes.
Fairness ==
    \A w \in Workers : /\ WF_vars(BootWorker(w))
                       /\ WF_vars(RecoverCommit(w))
                       /\ WF_vars(RecoverFails(w))
                       /\ WF_vars(ClaimRuns(w))
                       /\ WF_vars(\E r \in Runs : Execute(w, r))

FairSpec == Spec /\ Fairness

(***************************************************************************)
(* Safety.                                                                 *)
(***************************************************************************)

\* A run pays for at most one provider call, however often it is claimed,
\* requeued by a recovery, cancelled or found in the batches of two workers.
\* The one way out is a recovery that writes over a row which changed between
\* its unlocked read and its commit (worker.py recover_interrupted_work).
SingleCall ==
    \A r \in Runs : calls[r] <= 1 \/ r \in overwritten

\* No two workers have a provider call for the same run in flight, with the
\* same exception.
ExclusiveCall ==
    \A v, w \in Workers :
        current[v] = current[w] /\ current[v] # NoRun
            => v = w \/ current[v] \in overwritten

\* A run that has a retry was settled for good: it is not waiting to be claimed
\* or running again, so that parent and child never compete for the worker.
RetriedRunIsSettled ==
    \A r \in Runs :
        parent[r] # NoRun => \/ status[parent[r]] \in Terminal \cup {"deleted"}
                             \/ parent[r] \in overwritten

\* A retry asks the question of its parent again, in the same conversation, one
\* attempt later, and lives and dies with it.
RetryLineage ==
    \A r \in Runs :
        LET p == parent[r] IN
        p # NoRun => /\ attempt[r] = attempt[p] + 1
                     /\ turn[r] = turn[p]
                     /\ conversation[r] = conversation[p]
                     /\ (status[r] = "deleted") = (status[p] = "deleted")

\* Parent and child both answer the user only when the parent was failed by a
\* recovery while its call was still in flight in a live worker, or overwritten.
RetryAnswersAlone ==
    \A r \in Runs :
        parent[r] # NoRun /\ answers[r] > 0 /\ answers[parent[r]] > 0
            => parent[r] \in interrupted \cup overwritten

\* The persisted trace of a run agrees with the run; a failed run may be marked
\* cancelled later, by a worker that had it in its batch.
TraceAgrees ==
    \A r \in Runs \ overwritten :
        \/ trace[r] = "none"
        \/ trace[r] = status[r]
        \/ trace[r] = "failed" /\ status[r] = "cancelled"

\* What the project says of worker restarts: no provider call is duplicated
\* (recover_interrupted_work, ADR 0026). The unlocked recovery breaks it.
ProviderCallNotDuplicated == \A r \in Runs : calls[r] <= 1

\* What the provider runbook asks of retries and worker restarts: no duplicate
\* canonical write, here the answers of a run and of its retry. The late call of
\* a run that a second worker's recovery failed breaks it.
RestartAnswersOnce ==
    \A r \in Runs :
        parent[r] # NoRun => answers[r] = 0 \/ answers[parent[r]] = 0

\* A cancelled row always carries the cancellation request, also after a
\* recovery has put it back in the queue: that is what stops it from running.
CancelledIsRequested ==
    \A r \in Runs : status[r] = "cancelled" => cancelRequested[r]

\* Once a cancellation is visible nothing more is published for the run: it
\* gets no answer and never becomes completed (ADR 0021).
NoAnswerAfterCancel ==
    [][\A r \in Runs :
          cancelRequested[r] => /\ cancelRequested'[r]
                                /\ answers'[r] <= answers[r]
                                /\ status'[r] = "completed" =>
                                       status[r] = "completed"]_vars

\* The ways out of a terminal status: the call of a run that recovery failed
\* comes back, or a cancelled or failed run is met again by a second worker.
TerminalExits ==
    {<<"failed", "completed">>, <<"failed", "cancelled">>, <<"cancelled", "failed">>}

\* A terminal status is left only that way, by deletion, or by an overwriting
\* recovery; a completed run in particular stays completed.
TerminalStatusIsKept ==
    [][\A r \in Runs :
          status[r] \in Terminal /\ status'[r] # status[r]
              => \/ status'[r] = "deleted"
                 \/ <<status[r], status'[r]>> \in TerminalExits
                 \/ r \in overwritten']_vars

(***************************************************************************)
(* The promise to the seeker that the rows and the workers implement.      *)
(***************************************************************************)

Promise == INSTANCE AgentPromise WITH
    asked     <- {r \in Runs : status[r] # "absent"},
    cancelled <- {r \in Runs : cancelRequested[r]},
    answered  <- {r \in Runs : answers[r] > 0},
    erased    <- {r \in Runs : status[r] = "deleted"}

\* Every behaviour of the queue keeps the promise: an answer is published only
\* while its run is neither cancelled nor deleted, and what is deleted stays so.
KeepsPromise == Promise!Spec

(***************************************************************************)
(* Liveness.                                                               *)
(***************************************************************************)

\* Claimed or running according to its row, in the hands of no process.
Orphan(r) ==
    /\ status[r] \in {"claimed", "running"}
    /\ \A w \in Workers : r \notin batch[w] /\ current[w] # r

\* The bound on process starts is used up and no worker is left.
NoWorkerLeft == boots = MaxBoots /\ \A w \in Workers : pc[w] = "down"

\* Every run in the queue is eventually completed, failed, cancelled or deleted,
\* unless the process that claimed it dies and leaves it orphaned: recovery is
\* only attempted when a worker starts, and only on rows that are stale then.
EveryRunSettles ==
    \A r \in Runs :
        status[r] \in Waiting \cup {"running"} ~>
            \/ status[r] \in Terminal \cup {"deleted"}
            \/ Orphan(r)
            \/ NoWorkerLeft

=============================================================================
