------------------------------ MODULE SourceQueue ------------------------------
(* The durable queue of captured documents: the status column of sources, the *)
(* API handlers that add, retry and replace rows, and the workers that claim, *)
(* process and recover them. What processing writes next to the status is in  *)
(* OpportunityRevisions and EvidenceReview.                                   *)
(*                                                                            *)
(* process_source is one transaction that reads the row without a lock        *)
(* (TakeUp), extracts for as long as it takes, and writes the row when it     *)
(* commits (Finish): whatever happens to the row in between is not seen.      *)
EXTENDS Naturals, FiniteSets

CONSTANTS
    Sources,    \* identities of sources rows
    Workers,    \* worker processes
    NoSource,   \* nothing is being processed
    BatchSize,  \* settings.worker_batch_size
    MaxBoots    \* bound: worker process starts in one behaviour

ASSUME SourceAssumption == NoSource \notin Sources
ASSUME BoundsAssumption == BatchSize \in Nat \ {0} /\ MaxBoots \in Nat

VARIABLES
    status,    \* source -> status column; "absent" before, "deleted" after
    stored,    \* source -> it has a storage_key: its document is in the blob store
    stale,     \* source -> updated_at is older than the recovery cutoff
    pc,        \* worker -> "down", "recovering" or "up"
    batch,     \* worker -> claimed sources it has yet to process
    job,       \* worker -> source whose process_source transaction is open
    loaded,    \* worker -> status its open transaction has read
    seen,      \* worker -> rows its recovery read as "processing"
    boots,     \* process starts so far (bounded by MaxBoots)
    requeued,  \* history: sources made pending while in the hands of a worker
    dropped    \* history: sources a worker held when its process ended

rowVars    == <<status, stored, stale>>
workerVars == <<pc, batch, job, loaded, seen>>
queueVars == <<rowVars, workerVars, boots, requeued, dropped>>

Settled == {"ready", "failed"}
Present == {"quarantined", "pending", "processing"} \cup Settled
Missing == {"absent", "deleted"}

QueueTypeOK ==
    /\ status \in [Sources -> Present \cup Missing]
    /\ stored \in [Sources -> BOOLEAN]
    /\ stale \in [Sources -> BOOLEAN]
    /\ pc \in [Workers -> {"down", "recovering", "up"}]
    /\ batch \in [Workers -> SUBSET Sources]
    /\ job \in [Workers -> Sources \cup {NoSource}]
    /\ loaded \in [Workers -> Present]
    /\ seen \in [Workers -> SUBSET Sources]
    /\ boots \in 0..MaxBoots
    /\ requeued \in SUBSET Sources
    /\ dropped \in SUBSET Sources

QueueInit ==
    /\ status = [s \in Sources |-> "absent"]
    /\ stored = [s \in Sources |-> FALSE]
    /\ stale = [s \in Sources |-> FALSE]
    /\ pc = [w \in Workers |-> "down"]
    /\ batch = [w \in Workers |-> {}]
    /\ job = [w \in Workers |-> NoSource]
    /\ loaded = [w \in Workers |-> "processing"]
    /\ seen = [w \in Workers |-> {}]
    /\ boots = 0
    /\ requeued = {}
    /\ dropped = {}

\* Worker w answers for s: claimed and not yet processed, or being processed.
Holds(w, s) == s \in batch[w] \/ job[w] = s

HeldNow == {s \in Sources : \E w \in Workers : Holds(w, s)}

\* Every write of a row refreshes updated_at (TimestampMixin.onupdate).
Write(s, st) ==
    /\ status' = [status EXCEPT ![s] = st]
    /\ stale' = [stale EXCEPT ![s] = FALSE]

(***************************************************************************)
(* The API.                                                                *)
(***************************************************************************)

\* upload_source, capture_opportunity_file and capture_from_browser: the blob
\* is stored and the row committed as pending. A rejected document leaves no
\* row, because the exception rolls the request back.
Capture(s) ==
    /\ status[s] = "absent"
    /\ Write(s, "pending")
    /\ stored' = [stored EXCEPT ![s] = TRUE]
    /\ UNCHANGED <<workerVars, boots, requeued, dropped>>

\* github_snapshot: repository metadata, ready from the start.
Snapshot(s) ==
    /\ status[s] = "absent"
    /\ Write(s, "ready")
    /\ UNCHANGED <<stored, workerVars, boots, requeued, dropped>>

\* A profile import deletes every source of the workspace, unless it is asked to
\* append, and inserts those of the document: any status it says, and never a
\* stored document.
ImportProfile ==
    \E new \in SUBSET {s \in Sources : status[s] = "absent"},
       st \in Present, replace \in BOOLEAN :
        /\ status' = [s \in Sources |->
                        IF s \in new THEN st
                        ELSE IF replace /\ status[s] # "absent" THEN "deleted"
                        ELSE status[s]]
        /\ stale' = [s \in Sources |-> IF s \in new THEN FALSE ELSE stale[s]]
        /\ UNCHANGED <<stored, workerVars, boots, requeued, dropped>>

\* retry_source: whatever the status says, the row becomes pending.
Retry(s) ==
    /\ status[s] \in Present
    /\ stored[s]
    /\ Write(s, "pending")
    /\ requeued' = requeued \cup ({s} \cap HeldNow)
    /\ UNCHANGED <<stored, workerVars, boots, dropped>>

\* Ten minutes pass without a write to a row being processed.
Age(s) ==
    /\ status[s] = "processing"
    /\ ~stale[s]
    /\ stale' = [stale EXCEPT ![s] = TRUE]
    /\ UNCHANGED <<status, stored, workerVars, boots, requeued, dropped>>

(***************************************************************************)
(* The worker process.                                                     *)
(***************************************************************************)

\* run_worker starts and recover_interrupted_work reads the stale rows.
BootWorker(w) ==
    /\ pc[w] = "down"
    /\ boots < MaxBoots
    /\ boots' = boots + 1
    /\ pc' = [pc EXCEPT ![w] = "recovering"]
    /\ seen' = [seen EXCEPT ![w] =
                   {s \in Sources : status[s] = "processing" /\ stale[s]}]
    /\ UNCHANGED <<rowVars, batch, job, loaded, requeued, dropped>>

\* The recovery commits UPDATE ... WHERE id, whatever the rows have become.
RecoverCommit(w) ==
    /\ pc[w] = "recovering"
    /\ \A s \in seen[w] : status[s] # "deleted"
    /\ pc' = [pc EXCEPT ![w] = "up"]
    /\ status' = [s \in Sources |-> IF s \in seen[w] THEN "pending" ELSE status[s]]
    /\ stale' = [s \in Sources |-> IF s \in seen[w] THEN FALSE ELSE stale[s]]
    /\ requeued' = requeued \cup (seen[w] \cap HeldNow)
    /\ seen' = [seen EXCEPT ![w] = {}]
    /\ UNCHANGED <<stored, batch, job, loaded, boots, dropped>>

\* The process ends and its open transaction is rolled back.
Exit(w) ==
    /\ pc' = [pc EXCEPT ![w] = "down"]
    /\ batch' = [batch EXCEPT ![w] = {}]
    /\ job' = [job EXCEPT ![w] = NoSource]
    /\ seen' = [seen EXCEPT ![w] = {}]
    /\ dropped' = dropped \cup {s \in Sources : Holds(w, s)}
    /\ UNCHANGED <<rowVars, loaded, boots, requeued>>

\* One of the recovered rows is gone: the exception ends the process.
RecoverFails(w) ==
    /\ pc[w] = "recovering"
    /\ \E s \in seen[w] : status[s] = "deleted"
    /\ Exit(w)

\* The process is stopped or killed, or an exception leaves process_source: a
\* snapshot of the same version exists already, the database is unreachable.
StopWorker(w) ==
    /\ pc[w] # "down"
    /\ Exit(w)

\* Mutated ClaimSources: rows that are already being processed are claimed too.
ClaimAgain(w) ==
    /\ pc[w] = "up"
    /\ batch[w] = {}
    /\ job[w] = NoSource
    /\ \E claimed \in SUBSET {s \in Sources : status[s] \in {"pending", "processing"}} :
          /\ claimed # {}
          /\ Cardinality(claimed) <= BatchSize
          /\ status' = [s \in Sources |->
                          IF s \in claimed THEN "processing" ELSE status[s]]
          /\ stale' = [s \in Sources |-> IF s \in claimed THEN FALSE ELSE stale[s]]
          /\ batch' = [batch EXCEPT ![w] = claimed]
    /\ UNCHANGED <<stored, pc, job, loaded, seen, boots, requeued, dropped>>

\* _claim_sources: SKIP LOCKED may leave out any row another transaction holds.
ClaimSources(w) ==
    /\ pc[w] = "up"
    /\ batch[w] = {}
    /\ job[w] = NoSource
    /\ \E claimed \in SUBSET {s \in Sources : status[s] = "pending"} :
          /\ claimed # {}
          /\ Cardinality(claimed) <= BatchSize
          /\ status' = [s \in Sources |->
                          IF s \in claimed THEN "processing" ELSE status[s]]
          /\ stale' = [s \in Sources |-> IF s \in claimed THEN FALSE ELSE stale[s]]
          /\ batch' = [batch EXCEPT ![w] = claimed]
    /\ UNCHANGED <<stored, pc, job, loaded, seen, boots, requeued, dropped>>

\* process_source finds no row, or no document to read, and gives up: a row
\* imported as pending stays "processing".
NotFound(w, s) ==
    /\ pc[w] = "up"
    /\ job[w] = NoSource
    /\ s \in batch[w]
    /\ status[s] = "deleted" \/ ~stored[s]
    /\ batch' = [batch EXCEPT ![w] = @ \ {s}]
    /\ UNCHANGED <<rowVars, pc, job, loaded, seen, boots, requeued, dropped>>

\* process_source reads the row, without asking whether it is still claimed.
TakeUp(w, s) ==
    /\ pc[w] = "up"
    /\ job[w] = NoSource
    /\ s \in batch[w]
    /\ status[s] # "deleted" /\ stored[s]
    /\ batch' = [batch EXCEPT ![w] = @ \ {s}]
    /\ job' = [job EXCEPT ![w] = s]
    /\ loaded' = [loaded EXCEPT ![w] = status[s]]
    /\ UNCHANGED <<rowVars, pc, seen, boots, requeued, dropped>>

\* Mutated Finish: only the error of a failed extraction is recorded.
FinishWithoutStatus(w, s, st) ==
    /\ job[w] = s
    /\ status[s] # "deleted"
    /\ job' = [job EXCEPT ![w] = NoSource]
    /\ IF st = "failed" THEN UNCHANGED <<status, stale>> ELSE Write(s, st)
    /\ UNCHANGED <<stored, pc, batch, loaded, seen, boots, requeued, dropped>>

\* The transaction commits. The unit of work writes the status only if it
\* differs from the one that was read.
Finish(w, s, st) ==
    /\ job[w] = s
    /\ status[s] # "deleted"
    /\ job' = [job EXCEPT ![w] = NoSource]
    /\ Write(s, IF loaded[w] = st THEN status[s] ELSE st)
    /\ UNCHANGED <<stored, pc, batch, loaded, seen, boots, requeued, dropped>>

\* An import deleted the row meanwhile: the update matches nothing and the
\* exception, raised at commit outside process_source's try, ends the process.
FinishFails(w, s) ==
    /\ job[w] = s
    /\ status[s] = "deleted"
    /\ Exit(w)

Process(w, s) ==
    \/ NotFound(w, s)
    \/ TakeUp(w, s)
    \/ \E st \in Settled : Finish(w, s, st)
    \/ FinishFails(w, s)

QueueNext ==
    \/ \E s \in Sources : Capture(s) \/ Snapshot(s) \/ Retry(s) \/ Age(s)
    \/ ImportProfile
    \/ \E w \in Workers :
          \/ BootWorker(w) \/ RecoverCommit(w) \/ RecoverFails(w)
          \/ StopWorker(w) \/ ClaimSources(w)
    \/ \E w \in Workers, s \in Sources : Process(w, s)

QueueSpec == QueueInit /\ [][QueueNext]_queueVars

\* Worker w claims s, perhaps with other rows.
Claims(w, s) == ClaimSources(w) /\ s \in batch'[w]

\* compose.yaml restarts the worker, run_worker polls without pause, extraction
\* ends, and time passes. A pending row is left out of a claim only while some
\* short transaction holds it, or when older rows fill the batch, so it is not
\* left out for ever (bounds: a batch holds every source of the run). Nothing is
\* assumed of users and of crashes.
Fairness ==
    /\ \A w \in Workers : /\ WF_queueVars(BootWorker(w))
                          /\ WF_queueVars(RecoverCommit(w))
                          /\ WF_queueVars(RecoverFails(w))
                          /\ \A s \in Sources : SF_queueVars(Claims(w, s))
                          /\ WF_queueVars(\E s \in Sources : Process(w, s))
    /\ \A s \in Sources : WF_queueVars(Age(s))

FairSpec == QueueSpec /\ Fairness

(***************************************************************************)
(* Safety.                                                                 *)
(***************************************************************************)

\* Two workers are never responsible for the same source, in their batch or at
\* work, unless a retry or a recovery put it back while one of them had it.
ExclusiveProcessing ==
    \A v, w \in Workers, s \in Sources :
        Holds(v, s) /\ Holds(w, s) => v = w \/ s \in requeued

\* A source is shown as processing only while a live worker answers for it: the
\* exceptions are a process that ended with it and a row without a document.
NoLeak ==
    \A s \in Sources :
        status[s] = "processing" /\ stored[s] => s \in HeldNow \cup dropped

\* A settled source changes status only by going back to the queue or by being
\* replaced: ready never turns into failed, or back, behind the seeker's back,
\* unless it was requeued while a worker still had it.
SettledIsKept ==
    [][\A s \in Sources :
          status[s] \in Settled /\ status'[s] # status[s]
              => \/ status'[s] \in {"pending", "deleted"}
                 \/ s \in requeued]_queueVars

(***************************************************************************)
(* Liveness.                                                               *)
(***************************************************************************)

\* The bound on process starts is used up and no worker is left.
NoWorkerLeft == boots = MaxBoots /\ \A w \in Workers : pc[w] = "down"

\* Every captured source leaves the queue, ready or failed or deleted, unless
\* the process that held it died with it.
EverySourceSettles ==
    \A s \in Sources :
        status[s] \in {"pending", "processing"} /\ stored[s] ~>
            \/ status[s] \in Settled \cup {"deleted"}
            \/ status[s] = "processing" /\ s \in dropped \ HeldNow
            \/ NoWorkerLeft

\* What ADR 0026 says of source rows: the worker recovers them after an
\* interruption. A worker that restarts within the cutoff never does.
InterruptedSourceRecovers ==
    \A s \in Sources :
        status[s] = "processing" /\ stored[s] ~>
            status[s] # "processing" \/ NoWorkerLeft

=============================================================================
