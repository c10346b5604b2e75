----------------------------- MODULE Artifacts -----------------------------
(* The artifact studio: the bank of accomplishments, the numbered drafts made *)
(* from confirmed evidence, and the exchange of the profile they belong to.   *)
(*                                                                            *)
(* An accomplishment names its evidence in a JSON column, without foreign     *)
(* key. A request reads committed rows with one statement after the other and *)
(* writes with one commit (READ COMMITTED); an update writes, by the row's    *)
(* identity, the columns that differ from the row it read. A statement that   *)
(* meets rows which an import has deleted waits for its end: the step is not  *)
(* enabled.                                                                   *)
EXTENDS Naturals, FiniteSets, FiniteSetsExt

CONSTANTS
    Requests,         \* concurrent requests of the seeker
    Claims,           \* identities of evidence_claims rows
    Accomplishments,  \* identities of accomplishments rows
    Series,           \* kind and title of an artifact, or name of a variant
    None,             \* no accomplishment, no series
    MaxCalls          \* bound on the requests ever begun

ASSUME NoneAssumption == None \notin Accomplishments /\ None \notin Series
ASSUME MaxCallsAssumption == MaxCalls \in Nat

VARIABLES
    standing,  \* claim -> "absent", "open", "confirmed" or, deleted, "gone"
    bank,      \* accomplishment -> its row
    drafts,    \* rows of career_artifacts and resume_variants
    req,       \* request -> its operation in progress and what that has read
    exposed,   \* history: accomplishments added while an import replaced all
    torn,      \* history: accomplishments whose last update had a stale row
    calls      \* requests begun so far

vars == <<standing, bank, drafts, req, exposed, torn, calls>>

\* "draft" stands for "archived" too: nothing here tells them apart.
Row     == [status : {"absent", "draft", "confirmed", "gone"}, evidence : SUBSET Claims]
NoRow   == [status |-> "absent", evidence |-> {}]
Forms   == [status : {"draft", "confirmed"}, evidence : SUBSET Claims]
Content == [claims : SUBSET Claims, told : SUBSET Accomplishments]
Draft   == [series : Series, version : Nat, content : Content]

Existing  == {c \in Claims : standing[c] \in {"open", "confirmed"}}
Confirmed == {c \in Claims : standing[c] = "confirmed"}
Stored    == {a \in Accomplishments : bank[a].status \in {"draft", "confirmed"}}

Idle == [phase |-> "idle", item |-> None, row |-> NoRow, form |-> NoRow,
         series |-> None, version |-> 0, claims |-> {}, items |-> {},
         disturbed |-> FALSE]

Phases == {"idle", "opened", "checked", "citing", "telling", "numbered",
           "exporting", "finding", "erasing", "replacing"}

Request == [phase : Phases, item : Accomplishments \cup {None}, row : Row, form : Row,
            series : Series \cup {None}, version : Nat, claims : SUBSET Claims,
            items : SUBSET Accomplishments, disturbed : BOOLEAN]

TypeOK ==
    /\ standing \in [Claims -> {"absent", "open", "confirmed", "gone"}]
    /\ bank \in [Accomplishments -> Row]
    /\ drafts \in SUBSET Draft
    /\ req \in [Requests -> Request]
    /\ exposed \in SUBSET Accomplishments
    /\ torn \in SUBSET Accomplishments
    /\ calls \in Nat

Init ==
    /\ standing = [c \in Claims |-> "absent"]
    /\ bank = [a \in Accomplishments |-> NoRow]
    /\ drafts = {}
    /\ req = [t \in Requests |-> Idle]
    /\ exposed = {}
    /\ torn = {}
    /\ calls = 0

Phase(t) == req[t].phase

\* Imports that replace the profile, from their first DELETE to their end.
Replacing == {t \in Requests : Phase(t) \in {"finding", "erasing", "replacing"}}

\* Rows that the DELETE statements of an open import have deleted.
LockedItems ==
    {a \in Accomplishments :
        \E t \in Requests : Phase(t) \in {"erasing", "replacing"} /\ a \in req[t].items}
LockedClaims ==
    {c \in Claims : \E t \in Requests : Phase(t) = "replacing" /\ c \in req[t].claims}

\* The bound on the requests.
Call == calls < MaxCalls /\ calls' = calls + 1

\* Request t starts with the fields of first, goes on, ends.
Begin(t, first) ==
    /\ Phase(t) = "idle" /\ Call
    /\ req' = [req EXCEPT ![t] = [first EXCEPT !.disturbed = Replacing # {}]]
Go(t, next) == req' = [req EXCEPT ![t] = next] /\ UNCHANGED calls
End(t) == Go(t, Idle)

\* What the exports in progress have read misses the claims added now.
Disturb(who) ==
    /\ req' = [t \in Requests |-> IF t \in who THEN [req[t] EXCEPT !.disturbed = TRUE]
                                  ELSE req[t]]
    /\ Call
Exporting == {t \in Requests : Phase(t) = "exporting"}

(***************************************************************************)
(* Claims. Proposals that a new extraction deletes are left out: no        *)
(* accomplishment names one.                                               *)
(***************************************************************************)

ProposeClaim(c) ==
    /\ standing[c] = "absent"
    /\ standing' = [standing EXCEPT ![c] = "open"]
    /\ Disturb(Exporting)
    /\ UNCHANGED <<bank, drafts, exposed, torn>>

\* A decision; two that overlap may also undo a confirmation.
DecideClaim(c) ==
    /\ c \in Existing \ LockedClaims
    /\ \E verdict \in {"open", "confirmed"} : standing' = [standing EXCEPT ![c] = verdict]
    /\ Call
    /\ UNCHANGED <<bank, drafts, req, exposed, torn>>

(***************************************************************************)
(* The bank of accomplishments.                                            *)
(***************************************************************************)

\* Mutated Accepted: a confirmed accomplishment may lack evidence.
AcceptedBare(form) == form.evidence \subseteq Confirmed

\* _confirmed_claims finds every item of the form, and it confirms no bare one.
Accepted(form) ==
    /\ form.evidence \subseteq Confirmed
    /\ form.status = "confirmed" => form.evidence # {}

BeginCreate(t) ==
    /\ \E form \in Forms :
          /\ Accepted(form)
          /\ Begin(t, [Idle EXCEPT !.phase = "checked", !.form = form])
    /\ UNCHANGED <<standing, bank, drafts, exposed, torn>>

CommitCreate(t, a) ==
    /\ Phase(t) = "checked" /\ req[t].item = None
    /\ bank[a] = NoRow
    /\ bank' = [bank EXCEPT ![a] = req[t].form]
    /\ exposed' = IF req[t].disturbed THEN exposed \cup {a} ELSE exposed
    /\ End(t)
    /\ UNCHANGED <<standing, drafts, torn>>

\* The update reads the row, then the evidence of the form.
BeginUpdate(t, a) ==
    /\ a \in Stored
    /\ Begin(t, [Idle EXCEPT !.phase = "opened", !.item = a, !.row = bank[a]])
    /\ UNCHANGED <<standing, bank, drafts, exposed, torn>>

CheckUpdate(t) ==
    /\ Phase(t) = "opened"
    /\ \E form \in Forms :
          /\ Accepted(form)
          /\ Go(t, [req[t] EXCEPT !.phase = "checked", !.form = form])
    /\ UNCHANGED <<standing, bank, drafts, exposed, torn>>

\* The column of the form where it differs from the row read, else the present one.
Written(read, form, present) ==
    [status   |-> IF form.status = read.status THEN present.status ELSE form.status,
     evidence |-> IF form.evidence = read.evidence THEN present.evidence
                  ELSE form.evidence]

CommitUpdate(t, a) ==
    /\ Phase(t) = "checked" /\ req[t].item = a
    /\ a \in Stored \ LockedItems
    /\ bank' = [bank EXCEPT ![a] = Written(req[t].row, req[t].form, @)]
    /\ torn' = IF req[t].row = bank[a] THEN torn \ {a} ELSE torn \cup {a}
    /\ End(t)
    /\ UNCHANGED <<standing, drafts, exposed>>

DeleteAccomplishment(a) ==
    /\ a \in Stored \ LockedItems
    /\ bank' = [bank EXCEPT ![a] = [status |-> "gone", evidence |-> {}]]
    /\ Call
    /\ UNCHANGED <<standing, drafts, req, exposed, torn>>

(***************************************************************************)
(* Drafts: create_artifact and create_resume_variant.                      *)
(***************************************************************************)

BeginDraft(t, s) ==
    /\ \E cited \in SUBSET Confirmed :
          Begin(t, [Idle EXCEPT !.phase = "citing", !.series = s, !.claims = cited])
    /\ UNCHANGED <<standing, bank, drafts, exposed, torn>>

\* A variant tells accomplishments that are confirmed; an artifact tells none.
ReadBank(t) ==
    /\ Phase(t) = "citing"
    /\ \E told \in SUBSET {a \in Accomplishments : bank[a].status = "confirmed"} :
          Go(t, [req[t] EXCEPT !.phase = "telling", !.items = told])
    /\ UNCHANGED <<standing, bank, drafts, exposed, torn>>

Versions(s) == {d.version : d \in {x \in drafts : x.series = s}}

ReadVersion(t) ==
    /\ Phase(t) = "telling"
    /\ Go(t, [req[t] EXCEPT !.phase = "numbered",
                            !.version = Max({0} \cup Versions(req[t].series)) + 1])
    /\ UNCHANGED <<standing, bank, drafts, exposed, torn>>

\* The text is made of what the request has read, and does not follow it later.
Compose(r) == [claims |-> r.claims, told |-> r.items]

\* Mutated InsertDraft: the table takes a version twice.
InsertUnchecked(t) ==
    /\ Phase(t) = "numbered"
    /\ drafts' = drafts \cup {[series |-> req[t].series, version |-> req[t].version,
                               content |-> Compose(req[t])]}
    /\ End(t)
    /\ UNCHANGED <<standing, bank, exposed, torn>>

\* The unique constraint refuses a version that another request took.
InsertDraft(t) ==
    /\ Phase(t) = "numbered"
    /\ req[t].version \notin Versions(req[t].series)
    /\ drafts' = drafts \cup {[series |-> req[t].series, version |-> req[t].version,
                               content |-> Compose(req[t])]}
    /\ End(t)
    /\ UNCHANGED <<standing, bank, exposed, torn>>

(***************************************************************************)
(* The exchange of the profile.                                            *)
(***************************************************************************)

\* Mutated BeginExport: only what is confirmed is exported.
ExportConfirmed(t) ==
    /\ Begin(t, [Idle EXCEPT !.phase = "exporting", !.claims = Confirmed])
    /\ UNCHANGED <<standing, bank, drafts, exposed, torn>>

\* An export reads the claims, and the accomplishments with a later statement.
BeginExport(t) ==
    /\ Begin(t, [Idle EXCEPT !.phase = "exporting", !.claims = Existing])
    /\ UNCHANGED <<standing, bank, drafts, exposed, torn>>

FinishExport(t) ==
    /\ Phase(t) = "exporting"
    /\ End(t)
    /\ UNCHANGED <<standing, bank, drafts, exposed, torn>>

\* An import takes a document with these claims and accomplishments: the evidence
\* it does not bring is dropped, and what is confirmed must keep some.
Importable(claims, rows) ==
    \A a \in DOMAIN rows :
        rows[a].status = "confirmed" => rows[a].evidence \cap claims # {}

\* The DELETE of the accomplishments starts, ...
StartImport(t) ==
    /\ Phase(t) = "idle" /\ Call
    /\ req' = [u \in Requests |->
                 IF u = t THEN [Idle EXCEPT !.phase = "finding", !.items = Stored,
                                            !.disturbed = Replacing # {}]
                 ELSE IF Phase(u) = "idle" THEN req[u]
                 ELSE [req[u] EXCEPT !.disturbed = TRUE]]
    /\ UNCHANGED <<standing, bank, drafts, exposed, torn>>

\* Mutated EraseBank: the import leaves the bank.
LeaveBank(t) ==
    /\ Phase(t) = "finding"
    /\ req[t].items \cap LockedItems = {}
    /\ Go(t, [req[t] EXCEPT !.phase = "erasing", !.items = {}, !.claims = Existing])
    /\ UNCHANGED <<standing, bank, drafts, exposed, torn>>

\* ... has waited for rows others deleted, and the DELETE of the claims starts, ...
EraseBank(t) ==
    /\ Phase(t) = "finding"
    /\ req[t].items \cap LockedItems = {}
    /\ Go(t, [req[t] EXCEPT !.phase = "erasing", !.items = @ \cap Stored,
                            !.claims = Existing])
    /\ UNCHANGED <<standing, bank, drafts, exposed, torn>>

\* ... and has waited too.
EraseClaims(t) ==
    /\ Phase(t) = "erasing"
    /\ req[t].claims \cap LockedClaims = {}
    /\ Go(t, [req[t] EXCEPT !.phase = "replacing", !.claims = @ \cap Existing])
    /\ UNCHANGED <<standing, bank, drafts, exposed, torn>>

\* The claims new and the accomplishments added of a document are written; claims
\* erased and accomplishments lost are deleted; amid tells of another import.
WriteDocument(erased, lost, amid, new, given, added, rows) ==
    /\ standing' = [c \in Claims |-> IF c \in new THEN given[c]
                                     ELSE IF c \in erased THEN "gone" ELSE standing[c]]
    /\ bank' = [a \in Accomplishments |->
                  IF a \in added THEN rows[a]
                  ELSE IF a \in lost THEN [status |-> "gone", evidence |-> {}]
                  ELSE bank[a]]
    /\ exposed' = IF amid THEN exposed \cup added ELSE exposed

\* A document brings claims and accomplishments in any state.
Bring(erased, lost, amid) ==
    \E new \in SUBSET {c \in Claims : standing[c] = "absent"},
       added \in SUBSET {a \in Accomplishments : bank[a] = NoRow} :
    \E given \in [new -> {"open", "confirmed"}],
       rows \in [added -> [status : {"draft", "confirmed"}, evidence : SUBSET new]] :
        /\ Importable(new, rows)
        /\ WriteDocument(erased, lost, amid, new, given, added, rows)

CommitImport(t) ==
    /\ Phase(t) = "replacing"
    /\ Bring(req[t].claims, req[t].items, req[t].disturbed)
    /\ End(t)
    /\ UNCHANGED <<drafts, torn>>

\* An import may also be asked to delete nothing.
AppendImport ==
    /\ Bring({}, {}, Replacing # {})
    /\ Disturb(Exporting)
    /\ UNCHANGED <<drafts, torn>>

\* Refused with 400, 404 or 500: evidence not confirmed, the row gone, the version
\* taken, the opportunity deleted, an invalid document, a deadlock, a crash.
RollBack(t) ==
    /\ Phase(t) # "idle"
    /\ End(t)
    /\ UNCHANGED <<standing, bank, drafts, exposed, torn>>

Next ==
    \/ \E c \in Claims : ProposeClaim(c) \/ DecideClaim(c)
    \/ \E a \in Accomplishments : DeleteAccomplishment(a)
    \/ AppendImport
    \/ \E t \in Requests :
          \/ BeginCreate(t) \/ CheckUpdate(t)
          \/ \E a \in Accomplishments :
                CommitCreate(t, a) \/ BeginUpdate(t, a) \/ CommitUpdate(t, a)
          \/ \E s \in Series : BeginDraft(t, s)
          \/ ReadBank(t) \/ ReadVersion(t) \/ InsertDraft(t)
          \/ BeginExport(t) \/ FinishExport(t)
          \/ StartImport(t) \/ EraseBank(t) \/ EraseClaims(t) \/ CommitImport(t)
          \/ RollBack(t)

Spec == Init /\ [][Next]_vars

(***************************************************************************)
(* Safety.                                                                 *)
(***************************************************************************)

\* An accomplishment names only claims that exist, though nothing in the database
\* holds the two together: the import that deletes the claims deletes every
\* accomplishment with them, and an update that read the old claims finds no row.
\* Only one added while such an import runs can outlive its evidence.
CitationsSurvive ==
    \A a \in Stored : bank[a].evidence \subseteq Existing \/ a \in exposed

\* The document an export is about to return loses no evidence, and an import
\* accepts it: its accomplishments name claims of the document only, and the
\* confirmed ones some. That fails only if a claim was added or the profile replaced
\* between the two reads, if the accomplishment was added during an import, or, as
\* to naming none, if two updates of it overlapped.
ExportIsLossless ==
    \A t \in Exporting :
        req[t].disturbed
        \/ \A a \in Stored \ exposed :
              /\ bank[a].evidence \subseteq req[t].claims
              /\ bank[a].status = "confirmed" => bank[a].evidence # {} \/ a \in torn

\* The table of drafts read as a log: the draft of each version in turn.
Log == [s \in Series |->
          [v \in 1 .. Max({0} \cup Versions(s)) |->
              (CHOOSE d \in drafts : d.series = s /\ d.version = v).content]]

Promise == INSTANCE DraftLog WITH log <- Log, Contents <- Content

\* Versions of a series follow one another without gap, and a draft is never
\* changed or replaced, however many requests number their drafts at once.
DraftsAreALog == Promise!Spec

(***************************************************************************)
(* What the code does not keep.                                            *)
(***************************************************************************)

\* "Confirmed accomplishments require evidence" (api/artifacts.py:133): lost when
\* one update confirms while another takes the evidence away.
ConfirmedHasEvidence ==
    \A a \in Stored : bank[a].status = "confirmed" => bank[a].evidence # {}

\* "Users can reconstruct what evidence supported a document" (ADR 0014): lost
\* when an import deletes the claims a draft names.
DraftsKeepEvidence == \A d \in drafts : d.content.claims \subseteq Existing

=============================================================================
