----------------------------- MODULE ProfileEdits -----------------------------
(* One workspace's profile row and those who write it: the profile form, the   *)
(* career strategy, the lists of saved searches and batteries, the decisions   *)
(* on changes the agent proposed, and the import of a portable document, which *)
(* also replaces the entries of the career: its experiences and education.     *)
(*                                                                             *)
(* The strategy and the lists are edited under the row's lock, each in one     *)
(* step. The others read the row without a lock and write it when they commit: *)
(* two steps, and the row may change between them. A commit writes the columns *)
(* whose value differs from the one its transaction read.                      *)
EXTENDS Integers, FiniteSets, SequencesExt

CONSTANTS
    Requests,    \* open pages, each with at most one unlocked transaction
    Items,       \* identifiers of saved searches, batteries and entries
    Texts,       \* values of a text column, a strategy or a free preference
    Changes,     \* changes the agent has proposed
    Operations,  \* change -> the operations it consists of
    None,        \* the empty text
    Malformed,   \* a preferences value that is not an object
    MaxItems,    \* longest list of saved searches or batteries shown
    MaxRevision, \* bound: revision
    MaxEvents    \* bound: edits begun

ASSUME LimitAssumption == MaxItems \in Nat \ {0}

Lists == {"job_search_presets", "job_search_batteries"}

Tables == {"experiences", "education"}

\* A list of saved searches or batteries. The preferences may hold any list: of
\* its first MaxItems entries those are shown that are valid and start at a first
\* page; the rest is hidden.
SavedList ==
    [shown : {S \in SUBSET Items : IsFiniteSet(S) /\ Cardinality(S) <= MaxItems},
     hidden : SUBSET Items]

NoList == [shown |-> {}, hidden |-> {}]

Preferences ==
    [note : Texts \cup {None}, career_strategy : Texts \cup {None},
     saved : [Lists -> SavedList]]

ASSUME MalformedAssumption == Malformed \notin Preferences

NoPreferences ==
    [note |-> None, career_strategy |-> None, saved |-> [l \in Lists |-> NoList]]

\* Every column the agent may change but preferences behaves as the headline.
ProfessionalProfile ==
    [headline : Texts \cup {None}, preferences : Preferences \cup {Malformed},
     revision : Nat \ {0}]

\* A text column takes a text, preferences any value; another value fails with
\* the commit, which RollBack stands for.
ChangeOperation ==
    [op : {"add", "replace"}, path : {"headline", "other"}, value : Texts \cup {None}]
    \cup [op : {"add", "replace"}, path : {"preferences"},
          value : Preferences \cup {Malformed}]
    \cup [op : {"remove"}, path : {"headline", "preferences", "other"}, value : {None}]

ASSUME OperationAssumption == Operations \in [Changes -> Seq(ChangeOperation)]

VARIABLES
    profile,  \* the committed row
    entries,  \* table -> the identifiers of its rows
    form,     \* page -> the row it has loaded
    tx,       \* page -> its unlocked transaction
    status,   \* change -> its status
    verdicts, \* change -> the decisions committed, each with those before its read
    used,     \* identifiers given to items
    edits     \* edits begun

vars == <<profile, entries, form, tx, status, verdicts, used, edits>>

Fresh == [headline |-> None, preferences |-> NoPreferences, revision |-> 1]

\* A decision that was committed: on how many before it the change was read.
Verdict == [verdict : {"approved", "rejected"}, after : Nat]

\* A transaction has read one row and wants to leave another; an import has
\* also deleted the entries it found, and their rows stay locked.
Transaction ==
    [kind : {"none", "update", "import", "approved", "rejected"},
     read : ProfessionalProfile, wants : ProfessionalProfile,
     change : Changes \cup {None}, after : Nat,
     erased : [Tables -> SUBSET Items]]

Nothing == [t \in Tables |-> {}]

NoTransaction ==
    [kind |-> "none", read |-> Fresh, wants |-> Fresh, change |-> None, after |-> 0,
     erased |-> Nothing]

\* The identifiers a proposed change brings with it.
Named ==
    {i \in Items : \E c \in Changes : \E k \in DOMAIN Operations[c] :
        LET value == Operations[c][k].value IN
        /\ value \in Preferences
        /\ \E l \in Lists : i \in value.saved[l].shown \cup value.saved[l].hidden}

Init ==
    /\ profile = Fresh
    /\ entries = Nothing
    /\ form = [r \in Requests |-> Fresh]
    /\ tx = [r \in Requests |-> NoTransaction]
    /\ status = [c \in Changes |-> "pending"]
    /\ verdicts = [c \in Changes |-> <<>>]
    /\ used = Named
    /\ edits = 0

Edit ==
    /\ edits < MaxEvents
    /\ profile.revision < MaxRevision
    /\ edits' = edits + 1

-----------------------------------------------------------------------------
\* Edits under the row's lock. A preferences value that is no object stops them.

Readable == profile.preferences # Malformed

WriteLocked(preferences) ==
    /\ Edit
    /\ profile' = [profile EXCEPT !.preferences = preferences, !.revision = @ + 1]

\* A list is written back as it was shown: what was hidden is lost.
WriteList(l, shown) ==
    WriteLocked([profile.preferences EXCEPT !.saved[l] = [shown |-> shown, hidden |-> {}]])

SaveItem(l, i) ==
    LET shown == profile.preferences.saved[l].shown IN
    /\ Readable
    /\ i \notin used
    /\ Cardinality(shown) < MaxItems
    /\ WriteList(l, shown \cup {i})
    /\ used' = used \cup {i}
    /\ UNCHANGED <<entries, form, tx, status, verdicts>>

DeleteItem(l, i) ==
    LET shown == profile.preferences.saved[l].shown IN
    /\ Readable
    /\ i \in shown
    /\ WriteList(l, shown \ {i})
    /\ UNCHANGED <<entries, form, tx, status, verdicts, used>>

SavePreset(i) == SaveItem("job_search_presets", i)

SaveBattery(i) == SaveItem("job_search_batteries", i)

DeletePreset(i) == DeleteItem("job_search_presets", i)

DeleteBattery(i) == DeleteItem("job_search_batteries", i)

SaveStrategy(r, s) ==
    /\ Readable
    /\ form[r].revision = profile.revision
    /\ WriteLocked([profile.preferences EXCEPT !.career_strategy = s])
    /\ UNCHANGED <<entries, form, tx, status, verdicts, used>>

-----------------------------------------------------------------------------
\* Entries are added and deleted by single statements, outside the row.

AddEntry(x, i) ==
    /\ Edit
    /\ i \notin used
    /\ entries' = [entries EXCEPT ![x] = @ \cup {i}]
    /\ used' = used \cup {i}
    /\ UNCHANGED <<profile, form, tx, status, verdicts>>

\* A row that an import has deleted is locked until the import ends.
DeleteEntry(x, i) ==
    /\ Edit
    /\ i \in entries[x]
    /\ \A r \in Requests : i \notin tx[r].erased[x]
    /\ entries' = [entries EXCEPT ![x] = @ \ {i}]
    /\ UNCHANGED <<profile, form, tx, status, verdicts, used>>

AddExperience(i) == AddEntry("experiences", i)

AddEducation(i) == AddEntry("education", i)

DeleteExperience(i) == DeleteEntry("experiences", i)

DeleteEducation(i) == DeleteEntry("education", i)

-----------------------------------------------------------------------------
\* Edits without a lock.

\* A page shows the row, or exports it; a malformed one cannot be shown.
ReadProfile(r) ==
    /\ Readable
    /\ form' = [form EXCEPT ![r] = profile]
    /\ UNCHANGED <<profile, entries, tx, status, verdicts, used, edits>>

Begin(r, kind, wants, change, after, erased) ==
    /\ Edit
    /\ tx[r].kind = "none"
    /\ tx' = [tx EXCEPT ![r] =
                [kind |-> kind, read |-> profile,
                 wants |-> [wants EXCEPT !.revision = profile.revision + 1],
                 change |-> change, after |-> after,
                 erased |-> erased]]
    /\ UNCHANGED <<profile, entries, form, status, verdicts, used>>

\* The form as edited; a field the caller leaves out takes its default.
ProfileUpdate(r) ==
    [headline : {form[r].headline} \cup Texts,
     preferences : {form[r].preferences, NoPreferences}
                   \cup {[form[r].preferences EXCEPT !.note = n] : n \in Texts},
     revision : {form[r].revision}]

BeginUpdate(r) ==
    /\ form[r].revision = profile.revision
    /\ \E payload \in ProfileUpdate(r) : Begin(r, "update", payload, None, 0, Nothing)

\* The revision of the document is not compared with the row's; what is there is
\* replaced or added to.
BeginImport(r) ==
    \E erased \in {entries, Nothing} : Begin(r, "import", form[r], None, 0, erased)

Allowed(c) == \A i \in DOMAIN Operations[c] : Operations[c][i].path # "other"

\* What an operation makes of the row.
Apply(row, o) ==
    LET value == IF o.op # "remove" THEN o.value
                 ELSE IF o.path = "preferences" THEN NoPreferences ELSE None
    IN  IF o.path = "preferences" THEN [row EXCEPT !.preferences = value]
        ELSE [row EXCEPT !.headline = value]

\* And all of a change's operations, one after the other.
Applied(c) == FoldLeft(Apply, profile, Operations[c])

\* Mutated Pending: a decision may be repeated.
NotRejected(c) == status[c] # "rejected"

Pending(c) == status[c] = "pending"

BeginDecision(r, c) ==
    /\ Pending(c)
    /\ \/ Allowed(c) /\ Begin(r, "approved", Applied(c), c, Len(verdicts[c]), Nothing)
       \/ Begin(r, "rejected", profile, c, Len(verdicts[c]), Nothing)

\* Mutated Written: every column is written back.
WrittenWhole(t) == t.wants

\* The row with the columns that transaction t set to another value.
Written(t) ==
    [headline |-> IF t.wants.headline # t.read.headline
                  THEN t.wants.headline ELSE profile.headline,
     preferences |-> IF t.wants.preferences # t.read.preferences
                     THEN t.wants.preferences ELSE profile.preferences,
     revision |-> t.wants.revision]

\* The entries of the document get new identifiers.
ImportedEntries(t) ==
    IF t.kind # "import" THEN {Nothing}
    ELSE {Nothing} \cup {[Nothing EXCEPT ![x] = {i}] : x \in Tables, i \in Items \ used}

Commit(r) ==
    LET t == tx[r] IN
    /\ t.kind # "none"
    /\ profile' = IF t.kind = "rejected" THEN profile ELSE Written(t)
    /\ IF t.kind \in {"approved", "rejected"}
       THEN /\ status' = [status EXCEPT ![t.change] = t.kind]
            /\ verdicts' = [verdicts EXCEPT ![t.change] =
                              Append(@, [verdict |-> t.kind, after |-> t.after])]
       ELSE UNCHANGED <<status, verdicts>>
    /\ \E new \in ImportedEntries(t) :
        /\ entries' = [x \in Tables |-> (entries[x] \ t.erased[x]) \cup new[x]]
        /\ used' = used \cup UNION {new[x] : x \in Tables}
    /\ tx' = [tx EXCEPT ![r] = NoTransaction]
    /\ UNCHANGED <<form, edits>>

\* The request fails, or its connection is lost, before it commits.
RollBack(r) ==
    /\ tx[r].kind # "none"
    /\ tx' = [tx EXCEPT ![r] = NoTransaction]
    /\ UNCHANGED <<profile, entries, form, status, verdicts, used, edits>>

Next ==
    \/ \E i \in Items :
        \/ SavePreset(i) \/ SaveBattery(i) \/ DeletePreset(i) \/ DeleteBattery(i)
        \/ AddExperience(i) \/ AddEducation(i)
        \/ DeleteExperience(i) \/ DeleteEducation(i)
    \/ \E r \in Requests, s \in Texts : SaveStrategy(r, s)
    \/ \E r \in Requests :
        \/ ReadProfile(r) \/ BeginUpdate(r) \/ BeginImport(r)
        \/ Commit(r) \/ RollBack(r)
    \/ \E r \in Requests, c \in Changes : BeginDecision(r, c)

Spec == Init /\ [][Next]_vars

-----------------------------------------------------------------------------
\* Every variable has its type.
TypeOK ==
    /\ profile \in ProfessionalProfile
    /\ entries \in [Tables -> SUBSET Items]
    /\ form \in [Requests -> ProfessionalProfile]
    /\ tx \in [Requests -> Transaction]
    /\ status \in [Changes -> {"pending", "approved", "rejected"}]
    /\ verdicts \in [Changes -> Seq(Verdict)]
    /\ used \in SUBSET Items
    /\ edits \in Nat

SavedIn(row) ==
    IF row.preferences = Malformed THEN {}
    ELSE {item \in Lists \X Items : item[2] \in row.preferences.saved[item[1]].shown}

HiddenIn(row) ==
    IF row.preferences = Malformed THEN {}
    ELSE {item \in Lists \X Items : item[2] \in row.preferences.saved[item[1]].hidden}

\* Transaction t replaces the preferences by others.
Replaces(t) == t.wants.preferences # t.read.preferences

ItemsStay ==
    \A item \in SavedIn(profile) \ SavedIn(profile') :
        \/ DeleteItem(item[1], item[2])
        \/ \E r \in Requests :
            Replaces(tx[r]) /\ item \notin SavedIn(tx[r].wants) /\ Commit(r)

HiddenStay ==
    \A item \in HiddenIn(profile) \ HiddenIn(profile') :
        \/ \E i \in Items : SaveItem(item[1], i) \/ DeleteItem(item[1], i)
        \/ \E r \in Requests :
            Replaces(tx[r]) /\ item \notin HiddenIn(tx[r].wants) /\ Commit(r)

EntriesStay ==
    \A x \in Tables : \A i \in entries[x] \ entries'[x] :
        DeleteEntry(x, i) \/ \E r \in Requests : i \in tx[r].erased[x] /\ Commit(r)

\* A saved search or battery that is shown leaves the list because its deletion
\* was asked for, or through a commit that set the preferences to another value
\* than it had read and does not show it. Edits of other columns, of the strategy
\* or of other items keep it, however they overlap. An entry that is not shown
\* (beyond the limit, malformed, or no first page) lasts only until something is
\* saved to its list or deleted from it. An entry of the career leaves by its own
\* deletion or by an import that found it there.
SavedItemsSurvive == [][ItemsStay /\ HiddenStay /\ EntriesStay]_vars

\* A deletion takes what it names and nothing else out of the lists (delete_preset:
\* "without deleting saved jobs or changing other preferences").
DeletionTakesOnlyItsItem ==
    [][\A l \in Lists, i \in Items :
        DeleteItem(l, i)
            => (SavedIn(profile) \cup HiddenIn(profile)) \ {<<l, i>>}
                    \subseteq SavedIn(profile') \cup HiddenIn(profile')]_vars

\* A change's status is the last verdict committed on it, and every verdict was
\* given on a change that was still pending when it was read: it takes two
\* overlapping requests to decide one twice.
DecisionIsHonoured ==
    \A c \in Changes :
        /\ status[c] = IF verdicts[c] = <<>> THEN "pending" ELSE Last(verdicts[c]).verdict
        /\ \A i \in DOMAIN verdicts[c] : verdicts[c][i].after = 0

\* An update is accepted only for the row its form was loaded from (update_profile:
\* "optimistic revision conflict detection").
AcceptedFormIsCurrent ==
    [][\A r \in Requests :
        tx[r].kind = "update" /\ Commit(r) => form[r] = profile]_vars

=============================================================================
