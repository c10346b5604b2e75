# CareerTwin in TLA+

Specifications of the CareerTwin backend (`src/backend/careertwin`), checked with
TLC on small instances and, where marked, proved for every size with TLAPS.
Paths below are relative to `src/backend/careertwin` unless they begin with `src/`.

## The system

FastAPI runs synchronous handlers in a thread pool; each request is one database
transaction (`database.get_db`: commit at the end, roll back on any exception).
One or more worker processes (`worker.py`) poll the same PostgreSQL database at
READ COMMITTED. Handlers, handlers of other tabs, and workers therefore interleave
between SQL statements, and only row locks, unique constraints and conditions in
the statements order them. Workers are killed and restarted
(`src/compose.yaml`: `restart: unless-stopped`). There is no other shared state
except a blob directory and, inside one API process, the job discovery cache.

| Component | State | Operations | What is hard | What makes it correct |
|---|---|---|---|---|
| Agent runs (`api/agent.py`, `services/agent_runs.py`) | `agent_runs`, messages, traces | queue, chat, cancel, retry, delete conversation; claim, call, finish, recover | the provider call runs between two transactions; recovery reads without a lock | a call is paid once; no answer after a cancellation; retries do not compete; every run settles |
| Worker queue (`worker.py`) | status of `sources` and `agent_runs`, batches in memory | claim, process, recover, stop | crashes, retries while processing, stale recovery | one holder per source; nothing lost; every source settles |
| Opportunities (`api/opportunities.py`, `worker.py`) | `opportunities`, `requirements`, `opportunity_snapshots` | create, capture, edit, delete, extract | two tabs and two workers rewrite the same rows | rows, version and history agree |
| Evidence inbox and profile (`api/profile.py`, `services/interchange.py`) | `evidence_claims`, `skills`, `skill_evidence`, `sources` | propose, decide, cite, extract, import | extraction and import delete what is being decided or cited | skills rest on confirmed claims; decisions survive |
| Profile fields, strategy, presets, batteries (`api/profile.py`, `api/job_search.py`) | one `professional_profiles` row | update, save and delete entries, apply a proposed change | unlocked edits beside locked ones; lists shown in part | what an edit may take with it |
| Pipeline (`api/pipeline.py`) | `applications`, `stage_events`, `contacts`, `career_tasks` | create, change stage, tasks, calendar import | unlocked check-then-write; cascades of deletions | stage and dates are what the history tells; nothing refers to what is gone |
| Job discovery (`services/job_discovery.py`, `services/search_battery.py`) | page cache, pacing and back-off per provider, tickets | search, issue and resolve a ticket, import | expiry, eviction, two kinds of locks | pacing holds; a ticket yields what was shown |
| Matching (`services/matching.py`, `api/matching.py`) | `match_runs`, `recommendations` | run, latest, regenerate | deduplication by input digest | the latest run describes the latest inputs |
| Artifacts (`api/artifacts.py`, `services/interchange.py`) | `accomplishments`, drafts and variants with versions | create, edit, delete, compose; export and import | evidence identifiers without foreign keys; versions numbered without a lock | evidence outlives no claim; an export loses nothing; a series of drafts is a log |
| Connectors (`api/connectors.py`, `services/oauth.py`, calendar, email, GitHub) | connections, OAuth states, imported threads and tasks | authorize, refresh, synchronize, capture | tokens rotate outside the transaction that stores them | no token lost, no event doubled |
| Accounts (`api/auth.py`, `api/admin.py`, `services/blob.py`) | users, sessions, files | log in, change password, disable, purge | files and rows are not one transaction | disabled means out; purged means gone |
| Taxonomy, graph, export, audit, CLI | vocabularies; projections | import, read | one-shot and read-only | |
| Web client, browser extension, deployment scripts | none durable | | | |

`PROJECT.json` lists them with their status, and every hazard with its line and the
properties that watch it.

## Modules

| Module | What it is |
|---|---|
| `AgentRuns` | rows of `agent_runs`, the API handlers and the worker processes |
| `AgentPromise` | what the seeker is promised about a question: the abstract specification of `AgentRuns` |
| `SourceQueue` | the queue of captured documents |
| `OpportunityRevisions` | versions, requirement rows and snapshots of an opportunity |
| `EvidenceReview` | claims, decisions, skills, re-extraction, profile imports |
| `Pipeline` | applications, stage history, contacts, tasks |
| `Discovery` | the job discovery cache with its locks and clocks, batteries, tickets, imports |
| `ProfileEdits` | the profile row and everyone who writes it, career entries, proposed changes |
| `Connectors` | OAuth grants, refresh, calendar and mail synchronization, retention |
| `Matching` | the match calculation, its runs, alignments and recommendations |
| `Artifacts` | the bank of accomplishments, numbered drafts, the exchange of the profile |
| `DraftLog` | what is promised about versions: the abstract specification of the drafts of `Artifacts` |
| `Accounts` | accounts, sessions, administration, and the files of uploads |
| `ProviderProofs` | theorems about `AgentRuns` and `Connectors`, which wait for providers |
| `AccountsAndQueueProofs` | theorems about `Accounts` and `SourceQueue` |
| `OpportunityProofs` | theorems about `Pipeline` and `OpportunityRevisions` |
| `ProfileProofs` | theorems about `ProfileEdits` and `EvidenceReview` |
| `ArtifactsProofs`, `DiscoveryProofs`, `MatchingProofs` | theorems about the module each is named for |
| `FoldLemmas` | folds over sequences, sums over finite sets, induction, sorted lists |
| `MC*` | instances for TLC: symmetry, and for some the data they work on; sizes are in the `.cfg` files |

A proof module that extends two components proves each on its own: no step relates them.
Where their names would clash, those of the second carry its name (`QueueSpec`,
`RevisionSpec`, `ReviewSpec`, `ConnectorSpec`).

An operator whose comment begins with "Mutated" is a plausible bug of the action that
follows it; no specification uses it. Each one shows that the property named beside it
in `PROJECT.json` can fail.

### AgentRuns

One action is one committed transaction, or one event of a process. Handlers that
take the row `FOR UPDATE` are single steps (`QueueRun`, `CancelRun`, `RetryRun`,
`ClaimRuns`). Two places release the row in between and are two steps:
the provider call (`StartRun`, then one of `CallAnswers`, `CallDiscarded`,
`CallFails`, `CallOfDeletedRun`), and the recovery of a starting worker
(`BootWorker` reads, `RecoverCommit` writes by primary key; a row deleted meanwhile
makes the commit fail and ends the process, `RecoverFails`). `ClaimRuns` takes any
non-empty subset of the waiting rows up to the batch size, because `SKIP LOCKED`
passes over rows that another transaction holds. `Age` lets the ten minutes of the
recovery window pass for a row; the request timeout may be set to 900 seconds and a
batch runs its calls one after another, so a row may age in the hands of a live worker.
An exception that is not caught inside the execution ends the process and is part of
`StopWorker`, with signals and crashes. The answer stands for the message and the
proposed change that come with it. `calls`, `interrupted` and `overwritten` are history
variables; `MaxBoots` bounds process starts.

`AgentPromise` knows only which questions were asked, cancelled, answered and erased:
an answer is published only while its question is neither cancelled nor erased, once
cancelled a question stays so, and what is erased stays erased. The mapping is
`Promise` at the end of `AgentRuns`.

### SourceQueue

`Capture` stands for every handler that stores a document, `Snapshot` for GitHub
metadata, `ImportProfile` for the two profile imports (any status the document says,
no stored file). `Retry` makes a stored source pending whatever its status, also while
a worker has it. `process_source` is one transaction that reads the row without a
lock (`TakeUp`) and writes it at commit (`Finish`, which writes the status only if it
differs from the one it loaded; `FinishFails` when the row is gone). A rejected upload
leaves no row because its exception rolls the request back. Imported rows that say
pending have no document: a worker that claims one returns at once and leaves it in
processing (`NotFound`), so the properties about progress speak of stored sources.
`requeued` and `dropped` are history variables.

### OpportunityRevisions

An edit reads an opportunity (`ReadForEdit`) and writes version plus one, new rows and
a snapshot (`CommitEdit`). An extraction reads the version and starts its `DELETE`
(`ReadOpportunity`), which waits for rows that another transaction has deleted and then
takes those of its targets that are still there (`EraseRequirements`), and then either
publishes the next version (`CommitExtraction`), commits the deletion alone
(`FailExtraction`, the `except` clause of `process_source`) or rolls back
(`AbortExtraction`). Nobody locks the opportunity row: the unique constraint on
`(opportunity_id, version)` refuses the later of two equal versions. Browser captures
record no first snapshot. A requirement row is named by the version that wrote it.
`RejectEdit` and `AbortExtraction` also stand for a statement chosen as deadlock victim.
The inline extraction of the test environment is not modelled.

### EvidenceReview

Every statement that can wait or lose a race is a step: reading a claim to decide it,
writing the decision by primary key; reading confirmed claims to cite, inserting the
skill and its links; the extraction's and the import's `DELETE` of claims in its two
halves (rows found at the start, rows still qualifying after the wait); the commit.
An extraction deletes proposals of its source, including those entered by hand for that
source. A decision made while the extraction's `DELETE` waits is spared, because the
condition is evaluated again. Sources that are gone at the commit of an import leave
surviving claims without source (`SET NULL`). One import brings one source at most and
one set of cited claims, which is enough to mix its rows with those of others.
A double decision (two requests that both read the claim as proposed) is possible in
the code; `redecided` marks such claims so that the properties can say what else holds.

### Pipeline

A stage change checks the transition against a stage it reads without a lock
(`ReadStage`) and writes the row by its key (`CommitStage`), where only the columns it
has changed are written (`Changed`): another interview leaves the stage alone, whatever
another request has made of it. The event is inserted in any case. The other handlers
read only to refuse, and what they insert is decided at their commit by foreign keys
and the unique constraint, so each is one step. An application is named by its
opportunity, of which it is the only one. `DeleteOpportunity` is the whole cascade:
application, events, contacts, tasks, and the links of other tasks to those contacts.
Dates are reduced to whether they are set, and the JSON column `contact` of a task is
left out, and with it the identifiers by which `calendar_import` skips known events.
Tasks that the connectors create or update are not modelled.

### Discovery

The cache lives in one API process, is shared by its threads and goes with a
`Restart`; time is counted in ticks. `DiscoveryCache.search` holds its provider's lock
from the lookup to the answer. A lookup that ends at once is one step (`ServeCached`,
`Refuse`); one that sleeps or asks the provider is a step that takes the lock (`Sleep`,
`StartFetch`, `FetchLocations`) and a later one that gives it back (`FetchAnswers`,
`FetchFails`, `LocationsArrive`): whoever is between the two is `Busy`. A search by
location at Jobicy goes through the lock three times, because the endpoint and the cache
both check the location against the catalogue first (`checks`). `execute_battery` runs one
worker per provider, which takes its searches in turn (`TakeNext`) until the battery's
time is over; its coverage, its offers and their provenance are `Coverage` and `Offers`.
A ticket names the cache key and the listing (`Issue`); `Resolve` looks both up again, and
the import locks the workspace's row (`LockWorkspace`) before it looks for the
link. `EditListing` is the provider changing a listing. Which listings an answer holds,
and whether the provider answers, is a free choice. That a link belongs to one provider
is an assumption; the text of listings is reduced to an edition. `CanGoOn` collects the guards
of a call's steps in one state predicate; `NoCallIsStuck` says that some open call
satisfies it, and that whoever does has a step to take.

### ProfileEdits

The strategy, the saved searches and the batteries are written under the row's lock, in
one step each. The form (`BeginUpdate`), an import (`BeginImport`) and an approved change
(`BeginDecision`) read the row without a lock, and `Commit` writes by primary key the
columns whose value differs from the one that was read (`Written`), the revision among
them. So two steps of two pages interleave as in PostgreSQL, with nothing but the lists
inside one JSON column at stake between locked and unlocked writers. `verdicts` is a
history variable. `Malformed` is a preferences value that is no object: an approved
operation may store it, since its value is not looked at, and from then on the locked
edits and the pages that show preferences fail. The preferences may also hold any list, which
an operation or an import brought. The interface reads its first twelve entries and skips
those that are malformed or no first page (`_presets`, `_batteries`); `SavedList` therefore
separates what is shown from what is hidden, and a save or a deletion writes back what is
shown alone (`WriteList`), so that the hidden entries of that list go. `SavedItemsSurvive`
speaks of both parts; `MaxItems` is the twelve of the code.

### Connectors

A request reads its connection (`BeginSync`, `BeginCallback`), works at the provider and
commits (`CommitCallback`, `CommitCalendar`, `CommitEmail`); what it did at the provider
stays if it fails (`RollBack`). A refreshed token is flushed and locks the row until the
request ends (`locked`). A commit writes what differs from the row that was read and fails
when that row is gone (`RowStays`, by identity: a new grant is another row).
What the provider grants is chosen by the provider and its user: a connection records the
services asked (`services`), the scopes said to be granted (`scopes`), and holds an access
token (`token`) and a refresh token (`refresh`), each for the scopes it was given with. A new
grant that brings no refresh token keeps the old one (`RefreshToken`), and `Refresh` obtains
whatever that one is for, so the scopes of row and token may part later.
`PostEvent` and `UpdateEvent` push one task each; listing the remote events is part of
`CommitCalendar`. `Fresh`, `Refresh`, `Expired` compare ticks; the worker's
`RetentionSweep` deletes mail whose period is over. One workspace is modelled. A calendar
may hold an event for whole days, which has no time and becomes a task without a date.

### Matching

`Calculate` is the calculation of `services/matching.py` as operators: per requirement
an assessment by category (`Filed`), the wider search when that finds nothing
(`Widened`, `Outcome`), weights, coverage, bounds and score (`Bounds`), eligibility, and the
`Digest` that stands for the inputs. Fractions are hundredths, rounded down, where the
code rounds to four places. An assessment carries its explanation as the record it names and
whether that was found outside of its category. Rows of requirements are identified by the
batch they were written in: an update or an extraction writes a new batch and a new version
(`UpdateOpportunity`), an extraction that fails after its `DELETE` leaves an empty batch at
the old version (`FailExtraction`). How far a label is contained in a record or similar to a
skill is given by constants: the tokenizer is not modelled. A run reads the profile and
the opportunity's row first, its requirements and the records afterwards (`BeginRun`,
`CalculateMatch`); an
existing run with the same digest is the answer, otherwise `CommitRun` appends one.
Regeneration and updates of recommendations are modelled with their row locks
(`held`): a `DELETE` takes the rows it found that still qualify (`Deleted`), an update
writes the columns that changed (`Changes`, `Written`). `Suggestions` is any list of the
suggested actions in the order of their priority, of which there is one. The three
alignments are translated from their three places in the code.

One more record can lower the lower bound. A requirement whose category leaves it
unresolved is answered from the whole profile; when the new record resolves it within its
category, that answer counts instead, even where it is worth less. `EvidenceNeverHurts`
names that case, and `MCMatching` reaches it; everything else that one record more
changes, it improves.

### Artifacts

An accomplishment names its evidence in a JSON column that no foreign key watches, so its
citations hold only if the statements of the handlers happen in the right order. Each
request is one row of `req`: what it has read so far, and its phase. Creating and updating
check the evidence with one statement (`BeginCreate`, `CheckUpdate`) and write at commit
(`CommitCreate`, `CommitUpdate`, which writes the columns that differ from the row read,
`Written`). A draft, artifact or resume variant, reads claims, accomplishments and the
highest version of its series one after another (`BeginDraft`, `ReadBank`, `ReadVersion`)
and is inserted under the unique constraint (`InsertDraft`); an artifact reads no
accomplishments, which `ReadBank` allows. An export reads the claims (`BeginExport`) and
the accomplishments later (`FinishExport`). An import that replaces the profile is four
steps: the `DELETE` of the bank starts (`StartImport`), has waited for rows that others
deleted and the `DELETE` of the claims starts (`EraseBank`), has waited (`EraseClaims`),
and the document is written at commit (`CommitImport`, any claims and accomplishments that
pass `Importable`). Rows that an open import has deleted are `LockedItems` and
`LockedClaims`. `exposed` (accomplishments added while an import ran), `torn` (whose last
update wrote over a row other than the one read) and `disturbed` (an open request beside
which claims were added or the profile replaced) are history: they say where the
properties cannot hold, and nothing reads them but the properties. A decision may also
undo a confirmation, because two decisions that overlap can.

`DraftLog` knows one log per series, to which a draft is appended. The mapping is `Log` at
the end of `Artifacts`.

### Accounts

A request reads its session and what it will write (`Begin*`), and commits later;
sessions are revoked one row at a time by `Revoke`, over the rows the request has read.
A log-in whose hash was made at a lower cost than hashes are made at now (`stale`, which an
account may be from the start) writes a new hash of the password it has verified, by primary
key (`Rehashed`): a password that was changed meanwhile is changed back, and
`RevocationReachesAll` names that case.
Files are written and removed at once (`StoreFile`, `RemoveFiles`), and no rollback
brings them back. A profile document has its source row inserted before its file is
stored, and the open insert keeps the account from going (`CommitPurge` waits, a later
insert fails); the capture of an opportunity stores its file first. A purge that ends
before it has removed every file leaves the rest. `Gone` accounts do not come back.

## Runs

| Run | Instance | Shows |
|---|---|---|
| `agent_runs` | 2 runs, 2 conversations, 2 workers, batch 2, 2 starts, fairness | exclusive calls, retry chains, traces, refinement of `AgentPromise`; every run settles or is orphaned by a dead process |
| `source_queue` | 2 sources, 2 workers, batch 2, 2 starts, fairness | exclusive processing, no leaked source, progress |
| `source_queue_recovery` | 1 source, 1 worker, 2 starts, fairness | violation: a quick restart never recovers the source |
| `opportunity_revisions` | 1 opportunity, 2 tabs, 2 workers, 4 versions | rows, version and history agree |
| `evidence_review` | 2 claims, 1 skill, 1 source, 2 tabs, 2 workers | evidence stays confirmed, decisions survive, replacement is complete |
| `pipeline` | 2 opportunities, 6 events, 1 contact, 1 task, 2 requests | history connected, row follows history, links resolve, meetings survive |
| `discovery` | 2 threads, 3 calls, restarts or edits, 2 listings under one link, one-page cache, 2 ticks | imports are authorised and happen once, batteries hide nothing, nobody is stuck, providers are spared |
| `profile_edits` | 2 pages, 4 proposed changes, 2 new identifiers, 2 that a change brings, lists of 2 shown, 4 edits | decisions are honoured, saved items survive other edits |
| `connectors` | 2 requests, 1 account, 2 tasks, 2 events, 1 thread, 3 ticks, 5 calls | grants agree, events are remembered, disconnection stops imports, mail is forgotten |
| `matching` | 2 requests, 2 opportunities, 5 records, 5 calls of which 2 edit or fail an extraction | evidence never hurts, digests tell results apart, alignments agree, chosen actions survive |
| `artifacts` | 2 requests, 2 claims, 1 accomplishment, 1 series, 5 calls | citations survive, exports are lossless, refinement of `DraftLog` |
| `accounts` | 2 superusers, 1 invited account, 2 requests, 2 ticks, 5 calls | revocation reaches all sessions, superusers go only together, only captures outlive a purge |

**Bounds.** Every race modelled is between two parties over one row, so two workers,
two tabs, two requests and two rows show each of them with a bystander. Two retries in a
chain would need a third run; the chain property relates one link at a time and is proved
for any number. Four versions let two writers race over a version that a third one has
written. Six events reach every stage and leave room for two changes that overlap at the
last one. In `discovery` one page, one slot and one tick of pacing put every limit within
reach of three calls; the two listings of one link make duplicates in a battery and in
two imports. In `profile_edits` four edits allow two unlocked transactions around two
edits under the lock, and one of the changes brings a list whose second entry is hidden. In
`connectors` five calls are two grants, a disconnection or a call that fails, and two requests
that overlap on what they left; two ticks expire a state or a token between the
steps of a request and three pass the retention of a thread that was updated meanwhile.
In `matching` two edits undo each other, the tables of `MCMatching` put
similarities on both sides of every threshold, and one opportunity has a revision without
requirements, whose weights sum to zero. In `artifacts` five calls
are a claim, its confirmation, an accomplishment on it, and two requests that overlap on
it; the second claim is what an import brings in its place. In `accounts` five calls are two log-ins,
two overlapping requests of superusers and a third on what they left. Deadlock is checked
for `evidence_review` and the pipeline; elsewhere a bound (starts, versions, calls, time)
ends behaviours, and `NoCallIsStuck` says of `Discovery` what deadlock checking would.

**Fairness.** `compose.yaml` restarts a worker, `run_worker` polls without end, a
provider call ends within its timeout, and a claimed batch is worked off in turn: weak
fairness of starting, recovering, claiming and executing. In `SourceQueue` aging is fair,
since the clock advances, and the claim of each source is strongly fair, since the
claim takes the oldest pending rows first. Users, crashes and the outcome of a call
are not assumed to be fair. The other modules state no liveness: each of their requests
may fail at any step, and the seeker need not repeat it.

**Violation.** One run shows a disagreement between the code and a sentence of the
repository, quoted in the findings of `PROJECT.json`: a quickly restarted worker never
recovers a source.

**Further disagreements.** These are stated as definitions of their modules, with a
configuration beside the runs that lets TLC show each. Three of the configurations list
more than one: TLC stops at the first it finds violated, so leave in the one to be shown:

| Configuration | Property | The code | The repository |
|---|---|---|---|
| `AgentRunsDuplicateCall.cfg` | `ProviderCallNotDuplicated` | recovery reads stale claimed runs without a lock and puts one back in the queue that its claimant is calling the provider for (`worker.py:266`) | "without duplicating provider calls" (`worker.py:249`) |
| `AgentRunsTwoAnswers.cfg` | `RestartAnswersOnce` | after the call only cancellation is looked at (`services/agent_runs.py:181`): a run that recovery has failed answers beside its retry | "worker restart behavior without duplicate canonical writes" (`src/docs/runbooks/providers.md:36`) |
| `OpportunityRevisionsErased.cfg` | `RequirementsFixedByVersion` | a failed extraction commits its deletion of the requirements (`worker.py:158`) | "Persist an immutable opportunity snapshot for every reviewed version." (`src/docs/adr/0020-portable-profile-and-target-portfolios.md:14`) |
| `PipelineReopened.cfg` | `TerminalStaysClosed` | a stage change checked before another one closed the application reopens it (`api/pipeline.py:106`) | "Terminal states are intentionally closed in v1" (`src/docs/adr/0015-candidate-pipeline.md:12`) |
| `DiscoveryEdited.cfg` | `ExactPreview` | a ticket saves what the cache holds under its key now (`services/job_discovery.py:663`) | "binding approval to this workspace and exact preview" (`services/job_discovery.py:635`) |
| `DiscoveryCatalogue.cfg` | `EveryRequestIsSpared` | the location catalogue of Jobicy is requested without regard to the pacing and back-off of its pages, and leaves no trace in them (`services/job_discovery.py:610`) | "one new provider fetch per second per process" (`src/docs/design/features/job-discovery/design.md:46`), "serialized/rate-spaced requests per provider and thirty-second failure backoff" (`src/docs/runbooks/job-discovery.md:78`) |
| `ProfileEditsHidden.cfg` | `DeletionTakesOnlyItsItem` | the list is written back as it is shown, so what was beyond twelve or not valid goes with any deletion or save (`api/job_search.py:269`) | "Remove a tenant-owned query without deleting saved jobs or changing other preferences." (`api/job_search.py:263`) |
| `ProfileEditsOverlap.cfg` | `AcceptedFormIsCurrent` | the revision is compared with a row read without a lock (`api/profile.py:96`) | "optimistic revision conflict detection" (`api/profile.py:95`) |
| `MatchingReturned.cfg` | `LatestIsCurrent` | a match whose digest is known returns the old run, which stays older than the run of an edit since undone (`api/matching.py:252`) | "from the latest deterministic gap assessment" (`api/matching.py:304`) |
| `MatchingExplained.cfg` | `ExplanationsAreCurrent` | the digest holds no explanation: a run answered for the inputs of now may name an experience that was replaced by another of equal worth (`services/matching.py:283`) | "for the current canonical input revision" (`api/matching.py:242`), "reproducible, testable, explainable" (`src/docs/adr/0006-deterministic-matching.md:12`) |
| `ConnectorsDisagreements.cfg` | `RetriesUpdate` | the identifier of an event is stored by the transaction of the synchronization that created it (`services/calendar_connector.py:114`, `:141`): when that fails afterwards, its retry creates the event again | "so retries update instead of duplicating events" (`services/calendar_connector.py:4`), "CareerTwin event identifiers make retries update instead of duplicate." (`src/docs/adr/0024-consent-bound-personal-connectors.md:15`) |
| `ConnectorsDisagreements.cfg` | `TokenIsNarrow` | a grant of fewer services that brings no refresh token keeps the one of the wider grant, and the next refresh is for those (`services/oauth.py:213`) | "explicit service selection, and the narrow delegated scopes" (`src/docs/adr/0024-consent-bound-personal-connectors.md:10`), "service-specific scopes" (`src/docs/security/threat-model.md:30`) |
| `ConnectorsDisagreements.cfg` | `ImportIsIdempotent` | known events are those of open tasks with a date, so an event for whole days is imported by every synchronization (`services/calendar_connector.py:161`) | "import external events idempotently" (`services/calendar_connector.py:85`) |
| `AccountsDisagreements.cfg` | `OldPasswordOpensNothing` | a log-in that verified the old password opens a session after the change was committed (`services/security.py:93`) | "Replace a password, clear bootstrap status and revoke all other active sessions." (`api/auth.py:79`) |
| `AccountsDisagreements.cfg` | `ChangeIsKept` | a log-in under way renews a stale hash with the password it verified, over the changed one (`services/security.py:88`) | the same docstring |
| `ArtifactsDisagreements.cfg` | `ConfirmedHasEvidence` | of two updates that overlap one confirms an accomplishment and the other takes its evidence away (`api/artifacts.py:156`) | "Confirmed accomplishments require evidence" (`api/artifacts.py:133`) |
| `ArtifactsDisagreements.cfg` | `DraftsKeepEvidence` | an import deletes the claims that a draft names (`services/interchange.py:234`) | "Users can reconstruct what evidence supported a document" (`src/docs/adr/0014-versioned-artifacts.md:12`) |

An export that overlaps an import may hold accomplishments of the new profile beside claims
of the old one, where its docstring (`api/profile.py:358`) says "lossless": the excuse
`disturbed` of `ExportIsLossless` stands for that. `PurgeErasesFiles` of `Accounts` states
what `src/docs/security/privacy.md:37` says of a purge ("includes the tenant blob tree") in
the same way: a capture that overlaps the purge leaves its file, and so does a document
stored between the two steps of a purge. And the docstring of `change_password` speaks of all
other sessions, where the code revokes the one it came with as well.

## Proofs

TLAPS proves, for every number of rows, processes, tabs, starts, versions, searches, records
and ticks:

* `ProviderProofs`. Of `AgentRuns`: type correctness, the safety invariants that the run
  checks, five properties besides (`SingleCall`, `RetriedRunIsSettled`,
  `CancelledIsRequested`, `NoAnswerAfterCancel`, `TerminalStatusIsKept`), and `PromiseKept`,
  that `AgentRuns` implements `AgentPromise`. Of `Connectors`: type correctness, mail is
  forgotten, grants agree, events are forgotten only by failures, disconnection stops imports.
* `AccountsAndQueueProofs`. Of `Accounts`: type correctness, revocation reaches all,
  superusers go only together, only captures outlive a purge. Of `SourceQueue`: type
  correctness, exclusive processing, no leak, settled sources kept.
* `OpportunityProofs`. Of `Pipeline`: type correctness, the history is connected, the row
  follows the history, links resolve, meetings survive. Of `OpportunityRevisions`: type
  correctness, rows are current, the history is complete, the current version is recorded,
  revisions advance, rows follow revisions.
* `ProfileProofs`. Of `ProfileEdits`: type correctness, decisions are honoured, saved items
  survive. Of `EvidenceReview`: type correctness, skills rest on confirmed claims, decisions
  survive, replacement is complete.
* `ArtifactsProofs`: type correctness, citations survive, exports are lossless, and
  `DraftsAreALogAlways`, that the drafts of `Artifacts` implement `DraftLog`.
* `DiscoveryProofs`: type correctness with the size and the keys of the cache, imports are
  authorised and happen once, providers are spared, batteries hide nothing, and
  `SomeoneCanGoOnAlways`, the first half of `NoCallIsStuck`.
* `MatchingProofs`: type correctness with every bound a percentage, evidence never hurts,
  digests tell results apart, alignments agree, chosen actions survive.

So every safety property that a run checks is a theorem, but for the second half of
`NoCallIsStuck`. The type invariants of all modules but `Discovery`, and the properties of
them that no run lists, are left to the theorems: the configurations check what they add to
or share with them.

Each rests on an inductive invariant `IInv`, proved by one step per action:

* `AgentRuns`. The properties alone are not inductive: a step of a worker depends on
  what it remembers. `SeenInv` and `AbsentInv` keep remembered rows real; `FlightInv`
  says that a call in flight belongs to a running row which was called once, unless a
  recovery interrupted or overwrote it; `CallInv` that a row which still waits was never
  called; `OutputInv` ties answers and traces to the statuses; `RetryInv` and
  `LineageInv` hold the retry chains together.
* `SourceQueue`. `HolderInv` (two holders only after a requeue) needs `JobInv`
  (what is being processed has left the batch) and `AnswerInv` (a processing row has a
  holder, or was dropped by one).
* `OpportunityRevisions`. A writer whose revision is still free must have read the
  newest version, because every version from 2 on is recorded. While the version stands
  rows only disappear, so that writer deletes all that are left (`TabInv`, `ReadInv`,
  `EraseInv`, and `LockInv` for two extractions) and its own rows are the only ones.
  A writer that read an older version is refused. Both commits are shown to be the same
  abstract publication (`CommitEditPublishes`, `CommitExtractionPublishes`), so that the
  invariant is proved for it once.
* `EvidenceReview`. Every step is shown to change a claim in one of four ways
  (`Evolves`), and every open transaction in one of a few (`Moves`, `Picks`); the
  invariant is then proved against these instead of the actions. `LockInv`: a deleted row
  belongs to one transaction, and an extraction deletes proposals only. `PickInv`: what is
  about to be cited is good evidence or gone, and the foreign keys refuse what is gone.
  `TargetInv` and `HoldInv`: what a `DELETE` spared is gone or decided.
* `Pipeline`. `RequestInv`: an open request has checked a legal transition from a stage
  that the history of its application contains, or the opportunity is gone for good.
* `Artifacts`. `DisturbInv` (who is open beside an import knows it) and `SweepInv` (an
  import deletes all of the bank but what was added since it started) make the deletion of
  the claims safe; `FormInv` carries the evidence that a request has checked to its commit:
  it exists, or the row will be marked, is marked, or is gone. `SupportInv` and `ExportInv`
  add the confirmed rows and what an export has read. Every step is shown to move a request
  in one of a few ways (`Flagged`, `Begun`, `Gone`, `Ended`), and an import to write rows
  as `Brought` says. For the drafts, `NumberInv` says that a version about to be inserted is
  taken or the next one, whatever was inserted since it was read; the constraint leaves the
  next one, so the versions of a series stay an interval (`VersionInv`, `UniqueInv`), and an
  insertion appends to its log (`InsertPublishes`).
* `ProfileEdits`. `DecisionIsHonoured` is inductive once a verdict that is about to be
  committed is known to rest on a pending change (`DecidesPending`) and a form that is open
  to show preferences that are an object (`FormsAreReadable`). What a commit takes out of the
  lists it had read and was told to write without. A write under the lock keeps the other list
  and hides nothing (`WriteListStays`), and the limit of what is shown is kept by counting
  (`ListType`).
* `Connectors`. `RequestsSound` (`Grounded`, `Posts`): a request holds the account, the
  authorization or the connection it began with, and has posted an event only for a task it
  read without one. `RetentionKept`: a thread is dated by the synchronization that imported
  it. The action properties follow step by step. `GrantsAgree` relates the scopes of a row to its
  token: a step that parts them commits over other scopes than the request had read, or has
  refreshed with a token left by another grant.
* `Matching`. The calculation is proved apart from the steps. `FiledGrows`, `WiderGrows` and
  `OutcomeGrows` say what one record more does to the assessment of one requirement; sums
  over the requirements carry it to the bounds (`BoundsGrow`), since `Graded` holds: what
  leaves a requirement open is worth less than half. `RequestsGrounded`: what a request goes
  on from is there, in particular the row that a flushed update holds, because a regeneration
  waits for rows that others hold. `RunsSound`: a run is what its requirements and
  assessments come to. A version does not tell its requirements, since a failed extraction
  erases them without a new one; but rows that were written together keep what they said
  (`Dated`, kept by every step in `DatedStays`), and the digest names the rows. With the
  statuses and scores, which tell the bounds (`VerdictsTell`), equal digests give equal
  results. Explanations are not in it, and the theorem says nothing of them.
* `Accounts`. `RequestInv` says of every open request what it was made with (`Asked`: an
  administrator's request never aims at the own account), that the sessions it read cover
  every one of its account that can still be used and was there when it began (`Covers`),
  and that an account below which a source has been inserted is still there (`Pins`).
  `Covers` is kept because no session comes back to life, changes hands or place
  (`SessionsAge`): what was dead or read stays dead or read. As long as
  the hash of an account is stale, its password is the one that a log-in under way has verified
  (`Verified`), and a hash that was renewed stays so: hence a log-in that writes over another
  password finds the hash renewed, which is the case the property names.

* `Discovery`. `LockInv`: whoever is between a lookup and its answer holds its provider's
  lock alone, so that `last_fetch` and `source_errors` of a provider change under its lock
  only; `PacingInv` follows, that a provider has not failed while a battery sleeps before
  it. `AccountInv` and `SearchInv`: what a worker found and what it still has to do are,
  with their number, the searches of its call at its provider. `PageInv`: a page ends TTL
  after its listings were read, which makes an import through a living page fresh
  (`ResolvedInv`). `SavingInv`: one call saves into a workspace, and what it saw of its
  link when it took the lock still holds, so links stay single (`LinkInv`, `SavedInv`).
  `StepInv` and `TurnInv`: a worker on its way has something to do there, and looks up
  locations at Jobicy only, so that the holder of a lock never waits for another.
  The steps are proved in two groups: those of a worker (`WorkerStepKeeps`) and those that
  begin, end or import (`FreshKeeps`, `ImportStepKeeps`).

`Kept`, `Taken`, `Merged`, `Offers` and `ProviderOrder` fold over sequences. The library's
induction theorems take a predicate as a parameter and cannot be instantiated, but
`WFMin` takes a set: `Induction` and `SeqInduction` state induction for sets of numbers
and of sequences, and `FoldIs` and `FoldLaws` identify `FoldLeft` with the function
that it computes, which yields its equations for `<<>>` and `Append`. From them follow, by
induction over sequences of any length, what is kept, how long it is, that keys stay
distinct, that the groups of the three providers share out a battery's searches, and what
an offer holds (`KeptElements`, `GroupLengths`, `CoverageLaws`, `OffersLaws`). For sums over
the requirements of an opportunity or over opportunities, `FinInduction` is induction over a
finite set by the same means; `SumLaws` gives the equations of `SumFunctionOnSet`, and
`SumMonotone`, `SumScaled`, `SumOfConstant` and `SumCongruent` follow from them. `Sorted`
says that a finite set with a total order has the list that `Suggestions` chooses.

The assumptions on constants are that null values are not identities, that bounds are
natural numbers, and for `Discovery` what the requests' validators accept, that periods
and sizes are positive and pacing is at most ten ticks (the clocks start at -10), that a
link is listed by one provider, and that only Himalayas gives an expiry. For `Matching`
they are the ranges that the request bodies are validated against (`schemas.py`), and that
records are finitely many; for `Connectors`, that periods are natural numbers and the null
value is no row; for `ProfileEdits`, that a malformed preferences value is no object and
that some entries are shown.

Checked by TLC only: liveness under fairness (`EveryRunSettles`, `EverySourceSettles`) and
the second half of `NoCallIsStuck`, which speaks of `ENABLED`, since the prover treats
neither. What the tokenizer finds in a text is a constant of `Matching`, so the theorems
hold of every containment and similarity it may compute, and say nothing of the tokenizer.

## Not modelled

Row-level security (the worker and every handler set the tenant; one workspace is
modelled), encryption, malware and archive checks, parsing, prompts and the text of
answers, audit rows, and the SQLite variant of the database, which serialises
writers. Of modelled components:

* `Discovery`: the title filter of a battery, continuation cursors beyond the page number,
  `clear()`, and what normalization does to the text of a listing.
* `ProfileEdits`: columns that behave as the headline does are one column; the derived
  readings of the strategy.
* `Connectors`: browser credentials and captures, the GitHub snapshot (an action of
  `SourceQueue` and `EvidenceReview`), the status column, which a failing request sets
  just before the exception that rolls it back, linking mail to an application, and
  events deleted at the provider.
* `Matching`: similarity and containment of texts, scores by category, the matrix of a
  target set, editing target sets, the wording of explanations. A suggestion that was edited but not
  chosen is lost by the next regeneration, and overlapping regenerations duplicate
  suggestions; nothing in the repository promises otherwise.
* `Artifacts`: the opportunity a draft is for, its text beyond the evidence it names, the
  proposals that a new extraction deletes (no accomplishment can name one), and the JSON
  Resume form of the exchange.
* `Accounts`: preferences, the CSRF token, the mark that a password must be changed.
* `Pipeline`: identifiers of imported events, which overlapping imports duplicate.

Without a module: taxonomy imports
(one-shot parsing of public files), the graph, the workspace export and the audit log (projections
and an append-only table), the web client and the browser extension (no durable state),
deployment and release scripts (run by hand outside the program).

## Plan

Written: `AgentRuns` with `AgentPromise`, `SourceQueue`, `OpportunityRevisions`,
`EvidenceReview`, `Pipeline`, `Artifacts` with `DraftLog`, `Accounts`, `Discovery`,
`ProfileEdits`, `Connectors` and `Matching`, each with proofs. Left, the most consequential
first:

1. Duplicate captures of one page, and target sets under deletion of an opportunity.
2. The identifiers of imported calendar events in `Pipeline`.
3. Taxonomy imports, image retention, blob migration.
