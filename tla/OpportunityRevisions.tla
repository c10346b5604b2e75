------------------------- MODULE OpportunityRevisions -------------------------
(* The revisions of saved opportunities: the seeker's edits (several browser   *)
(* tabs), the worker's extraction of requirements from a captured document,    *)
(* and the snapshot table that records them.                                   *)
(*                                                                             *)
(* Nobody locks the opportunity row: an edit and an extraction read a version, *)
(* and later write that version plus one. What keeps them apart is the unique  *)
(* constraint on (opportunity_id, version) of opportunity_snapshots. Deleted   *)
(* requirement rows stay locked until their transaction ends; a statement that *)
(* meets them waits (its action is not enabled), and of the rows it found at   *)
(* its start it only touches those that are still there (READ COMMITTED).      *)
EXTENDS Naturals, FiniteSets

CONSTANTS
    Postings,    \* identities of opportunities rows (and of their sources)
    Tabs,        \* concurrent requests of the seeker
    Workers,     \* worker processes
    NoPosting,   \* nothing is being edited or processed
    MaxVersion   \* bound: revisions of one posting

ASSUME PostingAssumption == NoPosting \notin Postings
ASSUME VersionAssumption == MaxVersion \in Nat

VARIABLES
    state,      \* posting -> "absent", "open" or "deleted"
    sourced,    \* posting -> it was captured as a document
    version,    \* posting -> version column
    rows,       \* posting -> revisions whose requirement rows are in the table
    snapshots,  \* posting -> set of <<version, requirement rows>> recorded
    editing,    \* tab -> posting its update_opportunity has read
    readVersion,\* tab -> version it read
    readRows,   \* tab -> requirement rows it read
    job,        \* worker -> posting whose document it is processing
    phase,      \* worker -> "idle", "reading", "deleting" or "proposing"
    base,       \* worker -> version its transaction has read
    target,     \* worker -> rows its DELETE has found
    erased      \* worker -> rows it has deleted, and locks

postingVars == <<state, sourced, version, rows, snapshots>>
tabVars     == <<editing, readVersion, readRows>>
workerVars  == <<job, phase, base, target, erased>>
revisionVars == <<postingVars, tabVars, workerVars>>

RevisionTypeOK ==
    /\ state \in [Postings -> {"absent", "open", "deleted"}]
    /\ sourced \in [Postings -> BOOLEAN]
    /\ version \in [Postings -> Nat]
    /\ rows \in [Postings -> SUBSET Nat]
    /\ snapshots \in [Postings -> SUBSET (Nat \X SUBSET Nat)]
    /\ editing \in [Tabs -> Postings \cup {NoPosting}]
    /\ readVersion \in [Tabs -> Nat]
    /\ readRows \in [Tabs -> SUBSET Nat]
    /\ job \in [Workers -> Postings \cup {NoPosting}]
    /\ phase \in [Workers -> {"idle", "reading", "deleting", "proposing"}]
    /\ base \in [Workers -> Nat]
    /\ target \in [Workers -> SUBSET Nat]
    /\ erased \in [Workers -> SUBSET Nat]

RevisionInit ==
    /\ state = [p \in Postings |-> "absent"]
    /\ sourced = [p \in Postings |-> FALSE]
    /\ version = [p \in Postings |-> 0]
    /\ rows = [p \in Postings |-> {}]
    /\ snapshots = [p \in Postings |-> {}]
    /\ editing = [t \in Tabs |-> NoPosting]
    /\ readVersion = [t \in Tabs |-> 0]
    /\ readRows = [t \in Tabs |-> {}]
    /\ job = [w \in Workers |-> NoPosting]
    /\ phase = [w \in Workers |-> "idle"]
    /\ base = [w \in Workers |-> 0]
    /\ target = [w \in Workers |-> {}]
    /\ erased = [w \in Workers |-> {}]

\* Revision v of p has been recorded: the unique constraint refuses another.
Recorded(p, v) == \E s \in snapshots[p] : s[1] = v

\* Requirement rows of p that some open transaction has deleted and locks.
Locked(p) == UNION {erased[w] : w \in {u \in Workers : job[u] = p}}

\* The rows of a revision v: none, when it has no requirement.
RowsOf(v) == {{}, {v}}

(***************************************************************************)
(* The seeker.                                                             *)
(***************************************************************************)

\* create_opportunity, capture_opportunity_url and import_preview record the
\* first revision with the requirements it comes with.
Create(p) ==
    /\ state[p] = "absent"
    /\ state' = [state EXCEPT ![p] = "open"]
    /\ version' = [version EXCEPT ![p] = 1]
    /\ \E r \in RowsOf(1) :
          /\ rows' = [rows EXCEPT ![p] = r]
          /\ snapshots' = [snapshots EXCEPT ![p] = {<<1, r>>}]
    /\ UNCHANGED <<sourced, tabVars, workerVars>>

\* capture_opportunity_file records an empty first revision, and
\* capture_from_browser none; the worker extracts the requirements later.
CaptureDocument(p) ==
    /\ state[p] = "absent"
    /\ state' = [state EXCEPT ![p] = "open"]
    /\ sourced' = [sourced EXCEPT ![p] = TRUE]
    /\ version' = [version EXCEPT ![p] = 1]
    /\ \E recorded \in {{}, {<<1, {}>>}} :
          snapshots' = [snapshots EXCEPT ![p] = recorded]
    /\ UNCHANGED <<rows, tabVars, workerVars>>

\* update_opportunity reads the opportunity with its requirements.
ReadForEdit(t, p) ==
    /\ editing[t] = NoPosting
    /\ state[p] = "open"
    /\ editing' = [editing EXCEPT ![t] = p]
    /\ readVersion' = [readVersion EXCEPT ![t] = version[p]]
    /\ readRows' = [readRows EXCEPT ![t] = rows[p]]
    /\ UNCHANGED <<postingVars, workerVars>>

EndEdit(t) ==
    /\ editing' = [editing EXCEPT ![t] = NoPosting]
    /\ UNCHANGED <<readVersion, readRows, workerVars>>

\* Mutated CommitEdit: no snapshot is inserted for the new revision.
CommitUnrecorded(t, p) ==
    LET next == readVersion[t] + 1 IN
    /\ editing[t] = p
    /\ state[p] = "open"
    /\ next <= MaxVersion
    /\ readRows[t] \cap Locked(p) = {}
    /\ version' = [version EXCEPT ![p] = next]
    /\ \E r \in RowsOf(next) : rows' = [rows EXCEPT ![p] = (@ \ readRows[t]) \cup r]
    /\ EndEdit(t)
    /\ UNCHANGED <<state, sourced, snapshots>>

\* ... and writes what it read plus one: the requirement rows it loaded are
\* deleted, the new ones and the snapshot inserted, in one commit.
CommitEdit(t, p) ==
    LET next == readVersion[t] + 1 IN
    /\ editing[t] = p
    /\ state[p] = "open"
    /\ ~Recorded(p, next)
    /\ next <= MaxVersion
    /\ readRows[t] \cap Locked(p) = {}
    /\ version' = [version EXCEPT ![p] = next]
    /\ \E r \in RowsOf(next) :
          /\ rows' = [rows EXCEPT ![p] = (@ \ readRows[t]) \cup r]
          /\ snapshots' = [snapshots EXCEPT ![p] = @ \cup {<<next, r>>}]
    /\ EndEdit(t)
    /\ UNCHANGED <<state, sourced>>

\* The request fails and is rolled back: the revision is taken, the opportunity
\* gone, or the request the victim of a deadlock with a worker that holds its
\* rows.
RejectEdit(t, p) ==
    /\ editing[t] = p
    /\ \/ state[p] = "deleted"
       \/ Recorded(p, readVersion[t] + 1)
       \/ readRows[t] \cap Locked(p) # {}
    /\ EndEdit(t)
    /\ UNCHANGED postingVars

\* delete_opportunity cascades to requirements and snapshots.
DeletePosting(p) ==
    /\ state[p] = "open"
    /\ rows[p] \cap Locked(p) = {}
    /\ state' = [state EXCEPT ![p] = "deleted"]
    /\ rows' = [rows EXCEPT ![p] = {}]
    /\ snapshots' = [snapshots EXCEPT ![p] = {}]
    /\ UNCHANGED <<sourced, version, tabVars, workerVars>>

(***************************************************************************)
(* process_source for an opportunity document, one transaction of worker w. *)
(***************************************************************************)

\* It starts with the text of the document. Any worker may process any source:
\* retry_source puts it back in the queue whenever the seeker asks.
OpenSource(w, p) ==
    /\ job[w] = NoPosting
    /\ sourced[p]
    /\ job' = [job EXCEPT ![w] = p]
    /\ phase' = [phase EXCEPT ![w] = "reading"]
    /\ UNCHANGED <<postingVars, tabVars, base, target, erased>>

\* The opportunity is read, and the DELETE of its requirements starts.
ReadOpportunity(w, p) ==
    /\ job[w] = p
    /\ phase[w] = "reading"
    /\ state[p] = "open"
    /\ phase' = [phase EXCEPT ![w] = "deleting"]
    /\ base' = [base EXCEPT ![w] = version[p]]
    /\ target' = [target EXCEPT ![w] = rows[p]]
    /\ UNCHANGED <<postingVars, tabVars, job, erased>>

\* The DELETE has waited for the transactions that hold its rows.
EraseRequirements(w, p) ==
    /\ job[w] = p
    /\ phase[w] = "deleting"
    /\ target[w] \cap Locked(p) = {}
    /\ phase' = [phase EXCEPT ![w] = "proposing"]
    /\ erased' = [erased EXCEPT ![w] = target[w] \cap rows[p]]
    /\ UNCHANGED <<postingVars, tabVars, job, base, target>>

Release(w) ==
    /\ job' = [job EXCEPT ![w] = NoPosting]
    /\ phase' = [phase EXCEPT ![w] = "idle"]
    /\ erased' = [erased EXCEPT ![w] = {}]
    /\ UNCHANGED <<tabVars, base, target>>

\* Mutated CommitExtraction: the old requirements are kept as well.
CommitAppending(w, p) ==
    LET next == base[w] + 1 IN
    /\ job[w] = p
    /\ phase[w] = "proposing"
    /\ state[p] = "open"
    /\ ~Recorded(p, next)
    /\ next <= MaxVersion
    /\ version' = [version EXCEPT ![p] = next]
    /\ \E r \in RowsOf(next) :
          /\ rows' = [rows EXCEPT ![p] = @ \cup r]
          /\ snapshots' = [snapshots EXCEPT ![p] = @ \cup {<<next, r>>}]
    /\ Release(w)
    /\ UNCHANGED <<state, sourced>>

\* Mutated CommitExtraction: the version is not incremented.
CommitSameVersion(w, p) ==
    /\ job[w] = p
    /\ phase[w] = "proposing"
    /\ state[p] = "open"
    /\ \E r \in RowsOf(base[w]) : rows' = [rows EXCEPT ![p] = (@ \ erased[w]) \cup r]
    /\ Release(w)
    /\ UNCHANGED <<state, sourced, version, snapshots>>

\* The proposals replace the requirements, as a new recorded revision.
CommitExtraction(w, p) ==
    LET next == base[w] + 1 IN
    /\ job[w] = p
    /\ phase[w] = "proposing"
    /\ state[p] = "open"
    /\ ~Recorded(p, next)
    /\ next <= MaxVersion
    /\ version' = [version EXCEPT ![p] = next]
    /\ \E r \in RowsOf(next) :
          /\ rows' = [rows EXCEPT ![p] = (@ \ erased[w]) \cup r]
          /\ snapshots' = [snapshots EXCEPT ![p] = @ \cup {<<next, r>>}]
    /\ Release(w)
    /\ UNCHANGED <<state, sourced>>

\* Reading the document, finding the opportunity or proposing requirements
\* raised: the exception is caught, and the transaction commits what it has
\* done so far.
FailExtraction(w, p) ==
    /\ job[w] = p
    /\ phase[w] \in {"reading", "proposing"}
    /\ rows' = [rows EXCEPT ![p] = @ \ erased[w]]
    /\ Release(w)
    /\ UNCHANGED <<state, sourced, version, snapshots>>

\* The process ends and the transaction is rolled back: it was killed, its
\* revision is taken already, the opportunity is gone, or it is the victim of a
\* deadlock.
AbortExtraction(w, p) ==
    /\ job[w] = p
    /\ Release(w)
    /\ UNCHANGED postingVars

Extract(w, p) ==
    \/ OpenSource(w, p) \/ ReadOpportunity(w, p) \/ EraseRequirements(w, p)
    \/ CommitExtraction(w, p) \/ FailExtraction(w, p) \/ AbortExtraction(w, p)

Edit(t, p) == ReadForEdit(t, p) \/ CommitEdit(t, p) \/ RejectEdit(t, p)

RevisionNext ==
    \E p \in Postings :
        \/ Create(p) \/ CaptureDocument(p) \/ DeletePosting(p)
        \/ \E t \in Tabs : Edit(t, p)
        \/ \E w \in Workers : Extract(w, p)

RevisionSpec == RevisionInit /\ [][RevisionNext]_revisionVars

(***************************************************************************)
(* Safety.                                                                 *)
(***************************************************************************)

\* The requirement rows of an opportunity are those of its current revision:
\* the rows of two writers, or of two revisions, never get mixed.
RowsAreCurrent == \A p \in Postings : rows[p] \subseteq {version[p]}

\* No revision is missing from the history but the first of a browser capture,
\* none is recorded twice, and none is ahead of the opportunity.
HistoryIsComplete ==
    \A p \in Postings : state[p] = "open" =>
        /\ \A v \in 2..version[p] : Recorded(p, v)
        /\ \A s \in snapshots[p] : s[1] \in 1..version[p]
        /\ \A s1, s2 \in snapshots[p] : s1[1] = s2[1] => s1 = s2

\* What matching reads is what the history shows: requirements that are present
\* are those recorded for the current version.
CurrentIsRecorded ==
    \A p \in Postings :
        rows[p] # {} => <<version[p], rows[p]>> \in snapshots[p]

\* The step records exactly the next revision of p.
RecordsNext(p) ==
    /\ version'[p] = version[p] + 1
    /\ \E r \in RowsOf(version'[p]) :
          snapshots'[p] = snapshots[p] \cup {<<version'[p], r>>}

\* The step leaves p without requirements, and a worker had deleted them.
LosesErased(p) ==
    /\ rows'[p] = {}
    /\ \E w \in Workers : job[w] = p /\ erased[w] = rows[p]

\* An edit or an extraction that commits had read the newest revision and adds
\* the next one; no recorded revision is changed, overtaken or lost.
RevisionsAdvance ==
    [][\A p \in Postings :
          snapshots'[p] # snapshots[p] /\ state[p] = "open" /\ state'[p] = "open"
              => RecordsNext(p)]_revisionVars

\* Without a new revision requirements only ever disappear, and only when an
\* extraction that had deleted them failed afterwards.
RowsFollowRevision ==
    [][\A p \in Postings :
          rows'[p] # rows[p] /\ version'[p] = version[p] /\ state'[p] = "open"
              => LosesErased(p)]_revisionVars

\* What ADR 0020 and the design say of revisions: every reviewed version has its
\* snapshot, and a matching run is bound to a version, so the requirements of a
\* version never change. A failed extraction deletes them.
RequirementsFixedByVersion ==
    [][\A p \in Postings :
          rows'[p] # rows[p] /\ state'[p] = "open"
              => version'[p] # version[p]]_revisionVars

=============================================================================
