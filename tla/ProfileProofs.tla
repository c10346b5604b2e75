---------------------------- MODULE ProfileProofs ----------------------------
(* Proofs about what a workspace says of its seeker: the profile row and those *)
(* who write it (ProfileEdits), for any pages, items and proposed changes, and *)
(* the evidence inbox and the skills that rest on it (EvidenceReview), for     *)
(* every set of claims, skills, sources, tabs and workers.                     *)
(* The profile: whoever decides a change has found it pending, that is, with   *)
(* no decision before; a transaction writes the columns it wants otherwise     *)
(* than it read them, and leaves the rest of the row as it finds it.           *)
(* The inbox: a claim changes in few ways (Evolves), none of which harms what  *)
(* an open request or transaction has found out about it.                      *)
EXTENDS ProfileEdits, EvidenceReview, FoldLemmas

-----------------------------------------------------------------------------
\* The profile row.

\* A transaction that decides a change has read that nobody had decided it.
DecidesPending(t) ==
    t.kind \in {"approved", "rejected"} => t.change \in Changes /\ t.after = 0

\* A page has loaded a row that could be shown.
FormsAreReadable == \A r \in Requests : form[r].preferences # Malformed

IInv ==
    /\ TypeOK
    /\ DecisionIsHonoured
    /\ FormsAreReadable
    /\ \A r \in Requests : DecidesPending(tx[r])

\* No preferences are preferences, with lists that are empty.
LEMMA NoPreferencesType == NoPreferences \in Preferences
<1>1. {} \in {S \in SUBSET Items : IsFiniteSet(S) /\ Cardinality(S) <= MaxItems}
  BY FS_EmptySet, LimitAssumption
<1>2. NoList \in SavedList
  BY <1>1 DEF NoList, SavedList
<1>3. QED
  BY <1>2 DEF NoPreferences, Preferences

\* An operation leaves a row of the profile's type.
LEMMA ApplyType ==
    ASSUME NEW row \in ProfessionalProfile, NEW o \in ChangeOperation
    PROVE  Apply(row, o) \in ProfessionalProfile
<1>1. NoPreferences \in Preferences
  BY NoPreferencesType
<1>2. ASSUME o.path = "preferences" PROVE Apply(row, o) \in ProfessionalProfile
  <2>1. (IF o.op # "remove" THEN o.value ELSE NoPreferences) \in Preferences \cup {Malformed}
    BY <1>1, <1>2 DEF ChangeOperation
  <2>2. QED
    BY <1>2, <2>1 DEF Apply, ProfessionalProfile
<1>3. ASSUME o.path # "preferences" PROVE Apply(row, o) \in ProfessionalProfile
  <2>1. (IF o.op # "remove" THEN o.value ELSE None) \in Texts \cup {None}
    BY <1>3 DEF ChangeOperation
  <2>2. QED
    BY <1>3, <2>1 DEF Apply, ProfessionalProfile
<1>4. QED
  BY <1>2, <1>3

\* And so does a change.
LEMMA AppliedType ==
    ASSUME NEW c \in Changes, profile \in ProfessionalProfile
    PROVE  Applied(c) \in ProfessionalProfile
<1> DEFINE V == ProfessionalProfile
           T == ChangeOperation
           s == Operations[c]
           F == [p \in V \X T |-> Apply(p[1], p[2])]
<1>1. Folds(V, T, profile, F)
  BY ApplyType DEF Folds
<1>2. \A v \in V, x \in T : F[<<v, x>>] = Apply(v, x)
  OBVIOUS
<1>3. s \in Seq(T)
  BY OperationAssumption
<1> DEFINE Step(g, d) ==
             IF d = {} THEN profile ELSE Apply(g[d \ {Max(d)}], s[Max(d)])
           iter == CHOOSE g : g = [d \in SUBSET DOMAIN s |-> Step(g, d)]
<1>4. Applied(c) = iter[DOMAIN s]
  BY DEF Applied, FoldLeft, MapThenFoldSet
<1> HIDE DEF F, V, T, s
<1>5. FoldType(V, T, profile, F, s)
  BY <1>1, <1>3 DEF FoldType
<1>6. PICK f : IsFold(f, V, F, profile, s)
  BY <1>5, FoldExists
<1>7. /\ f \in [SUBSET DOMAIN s -> V]
      /\ f[{}] = profile
      /\ \A d \in SUBSET DOMAIN s :
            d # {} => f[d] = F[<<f[d \ {Max(d)}], s[Max(d)]>>]
  BY <1>6 DEF IsFold
<1>8. ASSUME NEW d \in SUBSET DOMAIN s, d # {}
      PROVE  d \ {Max(d)} \in SUBSET DOMAIN s /\ s[Max(d)] \in T
  BY <1>3, <1>8, GreatestInSequence
<1>9. f = [d \in SUBSET DOMAIN s |-> Step(f, d)]
  BY <1>2, <1>7, <1>8
<1>10. iter = [d \in SUBSET DOMAIN s |-> Step(iter, d)]
  BY <1>9
<1> HIDE DEF iter
<1>11. Computes(iter, V, F, profile, s)
  BY <1>2, <1>8, <1>10 DEF Computes
<1>12. Applied(c) = Fold(V, F, profile, s)
  BY <1>4, <1>5, <1>11, FoldIs
<1>13. Fold(V, F, profile, s) \in V
  BY <1>1, <1>3, FoldLaws
<1>14. QED
  BY <1>12, <1>13 DEF V

\* What a row, an import and a transaction are at first.
LEMMA NoTransactionType ==
    /\ Fresh \in ProfessionalProfile /\ Fresh.preferences # Malformed
    /\ Nothing \in [Tables -> SUBSET Items]
    /\ NoTransaction \in Transaction /\ DecidesPending(NoTransaction)
<1>1. NoPreferences \in Preferences
  BY NoPreferencesType
<1>2. Fresh \in ProfessionalProfile /\ Fresh.preferences # Malformed
  BY <1>1, MalformedAssumption DEF Fresh, ProfessionalProfile
<1>3. Nothing \in [Tables -> SUBSET Items]
  BY DEF Nothing
<1>4. NoTransaction \in Transaction
  BY <1>2, <1>3 DEF NoTransaction, Transaction
<1>5. QED
  BY <1>2, <1>3, <1>4 DEF DecidesPending, NoTransaction

LEMMA InitInv == Init => IInv
<1> SUFFICES ASSUME Init PROVE IInv
  OBVIOUS
<1>1. TypeOK
  BY NoTransactionType DEF Init, TypeOK, Named
<1>2. DecisionIsHonoured
  BY DEF Init, DecisionIsHonoured
<1>3. QED
  BY <1>1, <1>2, NoTransactionType DEF Init, IInv, FormsAreReadable

\* A row with another revision, or other columns, is a row still.
LEMMA RowType ==
    ASSUME NEW row \in ProfessionalProfile, NEW old \in ProfessionalProfile
    PROVE  /\ [row EXCEPT !.revision = old.revision + 1] \in ProfessionalProfile
           /\ \A p \in Preferences \cup {Malformed} :
                 [row EXCEPT !.preferences = p, !.revision = @ + 1] \in ProfessionalProfile
           /\ \A h \in Texts \cup {None}, p \in Preferences \cup {Malformed} :
                 [row EXCEPT !.headline = h, !.preferences = p] \in ProfessionalProfile
<1>1. row.revision \in Nat \ {0} /\ old.revision \in Nat \ {0}
  BY DEF ProfessionalProfile
<1>2. row.revision + 1 \in Nat \ {0} /\ old.revision + 1 \in Nat \ {0}
  BY <1>1
<1>3. QED
  BY <1>2 DEF ProfessionalProfile

\* A write under the lock leaves a row, and nothing else changes but what it says.
LEMMA WriteLockedKeeps ==
    ASSUME IInv, NEW p \in Preferences, WriteLocked(p),
           used' \in SUBSET Items, UNCHANGED <<entries, form, tx, status, verdicts>>
    PROVE  IInv'
<1>1. profile' \in ProfessionalProfile /\ edits' \in Nat
  <2>1. profile \in ProfessionalProfile /\ edits \in Nat
    BY DEF IInv, TypeOK
  <2>2. [profile EXCEPT !.preferences = p, !.revision = @ + 1] \in ProfessionalProfile
    BY <2>1, RowType
  <2>3. QED
    BY <2>1, <2>2 DEF WriteLocked, Edit
<1>2. TypeOK'
  BY <1>1 DEF IInv, TypeOK
<1>3. QED
  BY <1>2 DEF IInv, DecisionIsHonoured, FormsAreReadable

\* The preferences of a row that can be read.
LEMMA ReadableType ==
    ASSUME TypeOK, Readable
    PROVE  /\ profile.preferences \in Preferences
           /\ \A l \in Lists, v \in SavedList :
                 [profile.preferences EXCEPT !.saved[l] = v] \in Preferences
           /\ \A s \in Texts :
                 [profile.preferences EXCEPT !.career_strategy = s] \in Preferences
<1>1. profile.preferences \in Preferences
  BY DEF TypeOK, Readable, ProfessionalProfile
<1>2. QED
  BY <1>1 DEF Preferences

\* A list that is shown may take one more item below the limit, and lose one.
LEMMA ListType ==
    ASSUME TypeOK, Readable, NEW l \in Lists, NEW i \in Items
    PROVE  LET shown == profile.preferences.saved[l].shown IN
           /\ Cardinality(shown) < MaxItems
                => [shown |-> shown \cup {i}, hidden |-> {}] \in SavedList
           /\ [shown |-> shown \ {i}, hidden |-> {}] \in SavedList
<1> DEFINE shown == profile.preferences.saved[l].shown
<1>1. profile.preferences.saved[l] \in SavedList
  BY ReadableType DEF Preferences
<1>2. shown \in SUBSET Items /\ IsFiniteSet(shown) /\ Cardinality(shown) <= MaxItems
  BY <1>1 DEF SavedList
<1> HIDE DEF shown
<1>3. Cardinality(shown) \in Nat /\ MaxItems \in Nat
  BY <1>2, FS_CardinalityType, LimitAssumption
<1>4. /\ IsFiniteSet(shown \cup {i})
      /\ Cardinality(shown) < MaxItems => Cardinality(shown \cup {i}) <= MaxItems
  <2>1. /\ IsFiniteSet(shown \cup {i})
        /\ Cardinality(shown \cup {i})
              = IF i \in shown THEN Cardinality(shown) ELSE Cardinality(shown) + 1
    BY <1>2, FS_AddElement
  <2>2. QED
    BY <2>1, <1>3
<1>5. IsFiniteSet(shown \ {i}) /\ Cardinality(shown \ {i}) <= MaxItems
  <2>1. /\ IsFiniteSet(shown \ {i})
        /\ Cardinality(shown \ {i})
              = IF i \in shown THEN Cardinality(shown) - 1 ELSE Cardinality(shown)
    BY <1>2, FS_RemoveElement
  <2>2. QED
    BY <2>1, <1>2, <1>3
<1>6. Cardinality(shown) < MaxItems
        => [shown |-> shown \cup {i}, hidden |-> {}] \in SavedList
  BY <1>2, <1>4 DEF SavedList
<1>7. [shown |-> shown \ {i}, hidden |-> {}] \in SavedList
  BY <1>2, <1>5 DEF SavedList
<1>8. QED
  BY <1>6, <1>7 DEF shown

\* A write of one list under the lock.
LEMMA WriteListKeeps ==
    ASSUME IInv, Readable, NEW l \in Lists, NEW S,
           [shown |-> S, hidden |-> {}] \in SavedList, WriteList(l, S),
           used' \in SUBSET Items, UNCHANGED <<entries, form, tx, status, verdicts>>
    PROVE  IInv'
<1>1. [profile.preferences EXCEPT !.saved[l] = [shown |-> S, hidden |-> {}]] \in Preferences
  BY ReadableType DEF IInv
<1>2. QED
  BY <1>1, WriteLockedKeeps DEF WriteList

LEMMA SaveItemKeeps ==
    ASSUME IInv, NEW l \in Lists, NEW i \in Items, SaveItem(l, i)
    PROVE  IInv'
<1>1. used' \in SUBSET Items
  BY DEF SaveItem, IInv, TypeOK
<1>2. QED
  BY <1>1, ListType, WriteListKeeps DEF SaveItem, IInv

LEMMA DeleteItemKeeps ==
    ASSUME IInv, NEW l \in Lists, NEW i \in Items, DeleteItem(l, i)
    PROVE  IInv'
<1>1. used' \in SUBSET Items
  BY DEF DeleteItem, IInv, TypeOK
<1>2. QED
  BY <1>1, ListType, WriteListKeeps DEF DeleteItem, IInv

LEMMA SaveStrategyKeeps ==
    ASSUME IInv, NEW r \in Requests, NEW s \in Texts, SaveStrategy(r, s)
    PROVE  IInv'
<1>1. [profile.preferences EXCEPT !.career_strategy = s] \in Preferences
  BY ReadableType DEF IInv, SaveStrategy
<1>2. used' \in SUBSET Items
  BY DEF SaveStrategy, IInv, TypeOK
<1>3. QED
  BY <1>1, <1>2, WriteLockedKeeps DEF SaveStrategy

LEMMA AddEntryKeeps ==
    ASSUME IInv, NEW x \in Tables, NEW i \in Items, AddEntry(x, i)
    PROVE  IInv'
<1>1. /\ entries' \in [Tables -> SUBSET Items] /\ used' \in SUBSET Items /\ edits' \in Nat
      /\ UNCHANGED <<profile, form, tx, status, verdicts>>
  BY DEF IInv, TypeOK, AddEntry, Edit
<1>2. TypeOK'
  BY <1>1 DEF IInv, TypeOK
<1>3. QED
  BY <1>1, <1>2 DEF IInv, DecisionIsHonoured, FormsAreReadable

LEMMA DeleteEntryKeeps ==
    ASSUME IInv, NEW x \in Tables, NEW i \in Items, DeleteEntry(x, i)
    PROVE  IInv'
<1>1. /\ entries' \in [Tables -> SUBSET Items] /\ edits' \in Nat
      /\ UNCHANGED <<profile, form, tx, status, verdicts, used>>
  BY DEF IInv, TypeOK, DeleteEntry, Edit
<1>2. TypeOK'
  BY <1>1 DEF IInv, TypeOK
<1>3. QED
  BY <1>1, <1>2 DEF IInv, DecisionIsHonoured, FormsAreReadable

LEMMA ReadProfileKeeps ==
    ASSUME IInv, NEW r \in Requests, ReadProfile(r)
    PROVE  IInv'
<1>1. /\ form' \in [Requests -> ProfessionalProfile]
      /\ \A q \in Requests : form'[q].preferences # Malformed
      /\ UNCHANGED <<profile, entries, tx, status, verdicts, used, edits>>
  BY DEF IInv, TypeOK, ReadProfile, Readable, FormsAreReadable
<1>2. TypeOK'
  BY <1>1 DEF IInv, TypeOK
<1>3. QED
  BY <1>1, <1>2 DEF IInv, DecisionIsHonoured, FormsAreReadable

\* A transaction begins with a row it wants; one that decides a change has read
\* that it has no decision yet.
LEMMA BeginKeeps ==
    ASSUME IInv, NEW r \in Requests,
           NEW kind \in {"update", "import", "approved", "rejected"},
           NEW wants \in ProfessionalProfile, NEW change \in Changes \cup {None},
           NEW after \in Nat, NEW old \in [Tables -> SUBSET Items],
           kind \in {"approved", "rejected"} => change \in Changes /\ after = 0,
           Begin(r, kind, wants, change, after, old)
    PROVE  IInv'
<1> DEFINE t == [kind |-> kind, read |-> profile,
                 wants |-> [wants EXCEPT !.revision = profile.revision + 1],
                 change |-> change, after |-> after, erased |-> old]
<1>1. /\ tx' = [tx EXCEPT ![r] = t] /\ edits' = edits + 1
      /\ UNCHANGED <<profile, entries, form, status, verdicts, used>>
  BY DEF Begin, Edit
<1>2. profile \in ProfessionalProfile /\ [wants EXCEPT !.revision = profile.revision + 1]
                                            \in ProfessionalProfile
  BY RowType DEF IInv, TypeOK
<1>3. t \in Transaction
  BY <1>2 DEF Transaction
<1>4. DecidesPending(t)
  BY DEF DecidesPending
<1> HIDE DEF t
<1>5. TypeOK'
  BY <1>1, <1>3 DEF IInv, TypeOK
<1>6. \A q \in Requests : DecidesPending(tx'[q])
  BY <1>1, <1>4 DEF IInv, TypeOK
<1>7. QED
  BY <1>1, <1>5, <1>6 DEF IInv, DecisionIsHonoured, FormsAreReadable

LEMMA BeginUpdateKeeps ==
    ASSUME IInv, NEW r \in Requests, BeginUpdate(r)
    PROVE  IInv'
<1>1. PICK payload \in ProfileUpdate(r) : Begin(r, "update", payload, None, 0, Nothing)
  BY DEF BeginUpdate
<1> DEFINE P == {form[r].preferences, NoPreferences}
                \cup {[form[r].preferences EXCEPT !.note = n] : n \in Texts}
<1>2. form[r] \in ProfessionalProfile /\ form[r].preferences # Malformed
  BY DEF IInv, TypeOK, FormsAreReadable
<1>3. form[r].preferences \in Preferences /\ NoPreferences \in Preferences
  BY <1>2, NoPreferencesType DEF ProfessionalProfile
<1>4. \A n \in Texts : [form[r].preferences EXCEPT !.note = n] \in Preferences
  BY <1>3 DEF Preferences
<1>5. P \subseteq Preferences
  BY <1>3, <1>4
<1>6. form[r].headline \in Texts \cup {None}
  BY <1>2 DEF ProfessionalProfile
<1>7. ProfileUpdate(r) = [headline : {form[r].headline} \cup Texts, preferences : P,
                          revision : {form[r].revision}]
  BY DEF ProfileUpdate
<1> HIDE DEF P
<1>8. payload \in ProfessionalProfile
  BY <1>1, <1>2, <1>5, <1>6, <1>7 DEF ProfessionalProfile
<1>9. Nothing \in [Tables -> SUBSET Items]
  BY DEF Nothing
<1>10. QED
  BY <1>1, <1>8, <1>9, BeginKeeps

LEMMA BeginImportKeeps ==
    ASSUME IInv, NEW r \in Requests, BeginImport(r)
    PROVE  IInv'
<1>1. PICK old \in {entries, Nothing} : Begin(r, "import", form[r], None, 0, old)
  BY DEF BeginImport
<1>2. form[r] \in ProfessionalProfile /\ old \in [Tables -> SUBSET Items]
  BY DEF IInv, TypeOK, Nothing
<1>3. QED
  BY <1>1, <1>2, BeginKeeps

LEMMA BeginDecisionKeeps ==
    ASSUME IInv, NEW r \in Requests, NEW c \in Changes, BeginDecision(r, c)
    PROVE  IInv'
<1>1. verdicts[c] \in Seq(Verdict) /\ profile \in ProfessionalProfile
  BY DEF IInv, TypeOK
<1>2. verdicts[c] = <<>>
  <2>1. ASSUME verdicts[c] # <<>> PROVE FALSE
    <3>1. Last(verdicts[c]) \in Verdict
      BY <1>1, <2>1 DEF Last
    <3>2. Last(verdicts[c]).verdict \in {"approved", "rejected"}
      BY <3>1 DEF Verdict
    <3>3. status[c] = Last(verdicts[c]).verdict
      BY <2>1 DEF IInv, DecisionIsHonoured, FormsAreReadable
    <3>4. QED
      BY <3>2, <3>3 DEF BeginDecision, Pending
  <2>2. QED
    BY <2>1
<1>3. Len(verdicts[c]) = 0 /\ Nothing \in [Tables -> SUBSET Items]
  BY <1>2 DEF Nothing
<1>4. CASE Begin(r, "approved", Applied(c), c, Len(verdicts[c]), Nothing)
  <2>1. Applied(c) \in ProfessionalProfile
    BY <1>1, AppliedType
  <2>2. QED
    BY <1>3, <1>4, <2>1, BeginKeeps
<1>5. CASE Begin(r, "rejected", profile, c, Len(verdicts[c]), Nothing)
  BY <1>1, <1>3, <1>5, BeginKeeps
<1>6. QED
  BY <1>4, <1>5 DEF BeginDecision

\* What a commit leaves of the row.
LEMMA WrittenType ==
    ASSUME profile \in ProfessionalProfile, NEW t \in Transaction
    PROVE  Written(t) \in ProfessionalProfile
<1>1. t.wants \in ProfessionalProfile
  BY DEF Transaction
<1>2. QED
  BY <1>1 DEF Written, ProfessionalProfile

\* The entries of a document are items.
LEMMA ImportedType ==
    ASSUME NEW t, NEW new \in ImportedEntries(t)
    PROVE  new \in [Tables -> SUBSET Items]
<1>1. Nothing \in [Tables -> SUBSET Items]
  BY DEF Nothing
<1>2. \A x \in Tables, i \in Items \ used :
        [Nothing EXCEPT ![x] = {i}] \in [Tables -> SUBSET Items]
  BY <1>1
<1>3. QED
  BY <1>1, <1>2 DEF ImportedEntries

LEMMA CommitKeeps ==
    ASSUME IInv, NEW r \in Requests, Commit(r)
    PROVE  IInv'
<1> DEFINE t == tx[r]
           v == [verdict |-> t.kind, after |-> t.after]
<1>1. t \in Transaction /\ DecidesPending(t)
  BY DEF IInv, TypeOK
<1>2. profile' \in ProfessionalProfile
  BY <1>1, WrittenType DEF IInv, TypeOK, Commit
<1>3. PICK new \in ImportedEntries(t) :
        /\ entries' = [x \in Tables |-> (entries[x] \ t.erased[x]) \cup new[x]]
        /\ used' = used \cup UNION {new[x] : x \in Tables}
  BY DEF Commit
<1>4. new \in [Tables -> SUBSET Items]
  BY ImportedType
<1>5. entries' \in [Tables -> SUBSET Items] /\ used' \in SUBSET Items
  BY <1>3, <1>4 DEF IInv, TypeOK
<1>6. tx' = [tx EXCEPT ![r] = NoTransaction] /\ UNCHANGED <<form, edits>>
  BY DEF Commit
<1>7. NoTransaction \in Transaction /\ DecidesPending(NoTransaction)
  BY NoTransactionType
<1>8. tx' \in [Requests -> Transaction] /\ \A q \in Requests : DecidesPending(tx'[q])
  BY <1>6, <1>7 DEF IInv, TypeOK
<1>9. /\ status' \in [Changes -> {"pending", "approved", "rejected"}]
      /\ verdicts' \in [Changes -> Seq(Verdict)]
      /\ DecisionIsHonoured'
  <2>1. CASE t.kind \in {"approved", "rejected"}
    <3>1. /\ t.change \in Changes /\ t.after = 0
          /\ status' = [status EXCEPT ![t.change] = t.kind]
          /\ verdicts' = [verdicts EXCEPT ![t.change] = Append(@, v)]
      BY <1>1, <2>1 DEF DecidesPending, Commit
    <3>2. v \in Verdict /\ v.verdict = t.kind /\ v.after = 0
      BY <2>1, <3>1 DEF Verdict
    <3>3. /\ status \in [Changes -> {"pending", "approved", "rejected"}]
          /\ verdicts \in [Changes -> Seq(Verdict)]
      BY DEF IInv, TypeOK
    <3> HIDE DEF v, t
    <3>4. /\ status' \in [Changes -> {"pending", "approved", "rejected"}]
          /\ verdicts' \in [Changes -> Seq(Verdict)]
      BY <2>1, <3>1, <3>2, <3>3
    <3>5. ASSUME NEW c \in Changes
          PROVE  /\ status'[c] = IF verdicts'[c] = <<>> THEN "pending"
                                 ELSE Last(verdicts'[c]).verdict
                 /\ \A i \in DOMAIN verdicts'[c] : verdicts'[c][i].after = 0
      <4>1. CASE c = t.change
        <5>1. verdicts'[c] = Append(verdicts[c], v) /\ status'[c] = t.kind
          BY <3>1, <3>3, <4>1
        <5>2. verdicts[c] \in Seq(Verdict)
          BY <3>3
        <5>3. \A i \in DOMAIN verdicts[c] : verdicts[c][i].after = 0
          BY DEF IInv, DecisionIsHonoured, FormsAreReadable
        <5>4. Append(verdicts[c], v) # <<>> /\ Last(Append(verdicts[c], v)) = v
          BY <3>2, <5>2 DEF Last
        <5>5. \A i \in DOMAIN Append(verdicts[c], v) : Append(verdicts[c], v)[i].after = 0
          BY <3>2, <5>2, <5>3
        <5>6. QED
          BY <3>2, <5>1, <5>4, <5>5
      <4>2. CASE c # t.change
        <5>1. verdicts'[c] = verdicts[c] /\ status'[c] = status[c]
          BY <3>1, <3>3, <4>2
        <5>2. QED
          BY <5>1 DEF IInv, DecisionIsHonoured, FormsAreReadable
      <4>3. QED
        BY <4>1, <4>2
    <3>6. QED
      BY <3>4, <3>5 DEF DecisionIsHonoured
  <2>2. CASE t.kind \notin {"approved", "rejected"}
    <3>1. UNCHANGED <<status, verdicts>>
      BY <2>2 DEF Commit
    <3>2. QED
      BY <3>1 DEF IInv, TypeOK, DecisionIsHonoured
  <2>3. QED
    BY <2>1, <2>2
<1>10. QED
  BY <1>2, <1>5, <1>6, <1>8, <1>9 DEF IInv, TypeOK, FormsAreReadable

LEMMA RollBackKeeps ==
    ASSUME IInv, NEW r \in Requests, RollBack(r)
    PROVE  IInv'
<1>1. /\ tx' = [tx EXCEPT ![r] = NoTransaction]
      /\ UNCHANGED <<profile, entries, form, status, verdicts, used, edits>>
  BY DEF RollBack
<1>2. NoTransaction \in Transaction /\ DecidesPending(NoTransaction)
  BY NoTransactionType
<1>3. tx' \in [Requests -> Transaction] /\ \A q \in Requests : DecidesPending(tx'[q])
  BY <1>1, <1>2 DEF IInv, TypeOK
<1>4. QED
  BY <1>1, <1>3 DEF IInv, TypeOK, DecisionIsHonoured, FormsAreReadable

LEMMA InvStep == IInv /\ [Next]_vars => IInv'
<1> SUFFICES ASSUME IInv, [Next]_vars PROVE IInv'
  OBVIOUS
<1>1. ASSUME NEW i \in Items, SavePreset(i) \/ SaveBattery(i) PROVE IInv'
  BY <1>1, SaveItemKeeps DEF SavePreset, SaveBattery, Lists
<1>2. ASSUME NEW i \in Items, DeletePreset(i) \/ DeleteBattery(i) PROVE IInv'
  BY <1>2, DeleteItemKeeps DEF DeletePreset, DeleteBattery, Lists
<1>3. ASSUME NEW i \in Items, AddExperience(i) \/ AddEducation(i) PROVE IInv'
  BY <1>3, AddEntryKeeps DEF AddExperience, AddEducation, Tables
<1>4. ASSUME NEW i \in Items, DeleteExperience(i) \/ DeleteEducation(i) PROVE IInv'
  BY <1>4, DeleteEntryKeeps DEF DeleteExperience, DeleteEducation, Tables
<1>5. ASSUME NEW r \in Requests, NEW s \in Texts, SaveStrategy(r, s) PROVE IInv'
  BY <1>5, SaveStrategyKeeps
<1>6. ASSUME NEW r \in Requests,
             \/ ReadProfile(r) \/ BeginUpdate(r) \/ BeginImport(r)
             \/ Commit(r) \/ RollBack(r)
      PROVE  IInv'
  BY <1>6, ReadProfileKeeps, BeginUpdateKeeps, BeginImportKeeps, CommitKeeps, RollBackKeeps
<1>7. ASSUME NEW r \in Requests, NEW c \in Changes, BeginDecision(r, c) PROVE IInv'
  BY <1>7, BeginDecisionKeeps
<1>8. CASE UNCHANGED vars
  BY <1>8 DEF vars, IInv, TypeOK, DecisionIsHonoured, FormsAreReadable
<1>9. QED
  BY <1>1, <1>2, <1>3, <1>4, <1>5, <1>6, <1>7, <1>8 DEF Next

\* Verdicts rest on pending changes, and open forms are readable, in every state
\* (api/agent.py, decide_proposed_change; api/profile.py, read_profile).
THEOREM Invariance == Spec => []IInv
<1>1. QED
  BY InitInv, InvStep, PTL DEF Spec

\* Every variable has its type: whatever the agent or an import brings, no list
\* shows more than its limit.
THEOREM TypeCorrect == Spec => []TypeOK
<1>1. IInv => TypeOK
  BY DEF IInv
<1>2. QED
  BY <1>1, Invariance, PTL

\* decide_proposed_change: a change has the status of its last decision, and
\* every decision was taken on a change that was read as pending.
THEOREM DecisionIsHonouredAlways == Spec => []DecisionIsHonoured
<1>1. IInv => DecisionIsHonoured
  BY DEF IInv
<1>2. QED
  BY <1>1, Invariance, PTL

\* What the lists show and hide depends on the preferences only.
LEMMA SavedInLaws ==
    ASSUME NEW row, NEW other, row.preferences = other.preferences
    PROVE  SavedIn(row) = SavedIn(other) /\ HiddenIn(row) = HiddenIn(other)
BY DEF SavedIn, HiddenIn

\* Under the lock, the items of a readable row are those of its two lists.
LEMMA SavedUnderLock ==
    ASSUME TypeOK, Readable, NEW p \in Preferences, WriteLocked(p)
    PROVE  /\ SavedIn(profile) =
                {item \in Lists \X Items : item[2] \in profile.preferences.saved[item[1]].shown}
           /\ HiddenIn(profile) =
                {item \in Lists \X Items : item[2] \in profile.preferences.saved[item[1]].hidden}
           /\ SavedIn(profile') = {item \in Lists \X Items : item[2] \in p.saved[item[1]].shown}
           /\ HiddenIn(profile') = {item \in Lists \X Items : item[2] \in p.saved[item[1]].hidden}
<1>1. profile \in ProfessionalProfile /\ profile.preferences # Malformed
  BY DEF TypeOK, Readable
<1>2. profile'.preferences = p
  BY <1>1 DEF WriteLocked, ProfessionalProfile
<1>3. p # Malformed
  BY MalformedAssumption
<1>4. QED
  BY <1>1, <1>2, <1>3 DEF SavedIn, HiddenIn

\* A write of one list hides nothing, and keeps the other.
LEMMA WriteListStays ==
    ASSUME TypeOK, Readable, NEW l \in Lists, NEW S,
           [shown |-> S, hidden |-> {}] \in SavedList, WriteList(l, S)
    PROVE  /\ \A item \in SavedIn(profile) \ SavedIn(profile') :
                item[1] = l /\ item[2] \in profile.preferences.saved[l].shown \ S
           /\ \A item \in HiddenIn(profile) \ HiddenIn(profile') : item[1] = l
<1> DEFINE p == [profile.preferences EXCEPT !.saved[l] = [shown |-> S, hidden |-> {}]]
<1>1. profile.preferences \in Preferences /\ p \in Preferences
  BY ReadableType
<1>2. WriteLocked(p)
  BY DEF WriteList
<1>3. /\ p.saved[l].shown = S
      /\ \A k \in Lists \ {l} : p.saved[k] = profile.preferences.saved[k]
  BY <1>1 DEF Preferences
<1> HIDE DEF p
<1>4. QED
  BY <1>1, <1>2, <1>3, SavedUnderLock

\* Saving an item loses none that is shown.
LEMMA SaveItemStays ==
    ASSUME TypeOK, NEW l \in Lists, NEW i \in Items, SaveItem(l, i)
    PROVE  ItemsStay /\ HiddenStay
<1> DEFINE S == profile.preferences.saved[l].shown \cup {i}
<1>1. Readable /\ WriteList(l, S) /\ [shown |-> S, hidden |-> {}] \in SavedList
  BY ListType DEF SaveItem
<1> HIDE DEF S
<1>2. /\ \A item \in SavedIn(profile) \ SavedIn(profile') :
            item[1] = l /\ item[2] \in profile.preferences.saved[l].shown \ S
      /\ \A item \in HiddenIn(profile) \ HiddenIn(profile') : item[1] = l
  BY <1>1, WriteListStays
<1>3. profile.preferences.saved[l].shown \ S = {}
  BY DEF S
<1>4. QED
  BY <1>2, <1>3 DEF ItemsStay, HiddenStay

\* Deleting an item loses that one of those that are shown.
LEMMA DeleteItemStays ==
    ASSUME TypeOK, NEW l \in Lists, NEW i \in Items, DeleteItem(l, i)
    PROVE  ItemsStay /\ HiddenStay
<1> DEFINE S == profile.preferences.saved[l].shown \ {i}
<1>1. Readable /\ WriteList(l, S) /\ [shown |-> S, hidden |-> {}] \in SavedList
  BY ListType DEF DeleteItem
<1> HIDE DEF S
<1>2. /\ \A item \in SavedIn(profile) \ SavedIn(profile') :
            item[1] = l /\ item[2] \in profile.preferences.saved[l].shown \ S
      /\ \A item \in HiddenIn(profile) \ HiddenIn(profile') : item[1] = l
  BY <1>1, WriteListStays
<1>3. profile.preferences.saved[l].shown \ S \subseteq {i}
  BY DEF S
<1>4. QED
  BY <1>2, <1>3 DEF ItemsStay, HiddenStay

\* The strategy is beside the lists.
LEMMA SaveStrategyStays ==
    ASSUME TypeOK, NEW r \in Requests, NEW s \in Texts, SaveStrategy(r, s)
    PROVE  ItemsStay /\ HiddenStay
<1> DEFINE p == [profile.preferences EXCEPT !.career_strategy = s]
<1>1. Readable /\ WriteLocked(p)
  BY DEF SaveStrategy
<1>2. profile.preferences \in Preferences /\ p \in Preferences
  BY <1>1, ReadableType
<1>3. p.saved = profile.preferences.saved
  BY <1>2 DEF Preferences
<1> HIDE DEF p
<1>4. SavedIn(profile) = SavedIn(profile') /\ HiddenIn(profile) = HiddenIn(profile')
  BY <1>1, <1>2, <1>3, SavedUnderLock
<1>5. QED
  BY <1>4 DEF ItemsStay, HiddenStay

\* A commit that loses an item wanted other preferences than it had read, and has
\* the items it wanted.
LEMMA CommitStays ==
    ASSUME TypeOK, NEW r \in Requests, Commit(r)
    PROVE  ItemsStay /\ HiddenStay /\ EntriesStay
<1> DEFINE t == tx[r]
<1>1. ItemsStay /\ HiddenStay
  <2>1. ASSUME profile'.preferences # profile.preferences
        PROVE  Replaces(t) /\ profile'.preferences = t.wants.preferences
    BY <2>1 DEF Commit, Written, Replaces
  <2>2. ASSUME NEW item \in SavedIn(profile) \ SavedIn(profile')
        PROVE  Replaces(t) /\ item \notin SavedIn(t.wants)
    BY <2>1, <2>2, SavedInLaws
  <2>3. ASSUME NEW item \in HiddenIn(profile) \ HiddenIn(profile')
        PROVE  Replaces(t) /\ item \notin HiddenIn(t.wants)
    BY <2>1, <2>3, SavedInLaws
  <2>4. QED
    BY <2>2, <2>3 DEF ItemsStay, HiddenStay
<1>2. EntriesStay
  <2>1. PICK new \in ImportedEntries(t) :
          entries' = [x \in Tables |-> (entries[x] \ t.erased[x]) \cup new[x]]
    BY DEF Commit
  <2>2. QED
    BY <2>1 DEF EntriesStay
<1>3. QED
  BY <1>1, <1>2

\* A saved search or battery that is shown, and an entry of the career, was deleted
\* by name, overwritten by a commit that set the preferences anew, or replaced by an
\* import that found it; what a list hides is lost with the next write of that list
\* (api/job_search.py, save_preset and its siblings).
THEOREM SavedItemsSurviveAlways == Spec => SavedItemsSurvive
<1>1. TypeOK /\ [Next]_vars => [ItemsStay /\ HiddenStay /\ EntriesStay]_vars
  <2> SUFFICES ASSUME TypeOK, Next PROVE ItemsStay /\ HiddenStay /\ EntriesStay
    BY DEF vars
  <2>1. ASSUME NEW i \in Items, SavePreset(i) \/ SaveBattery(i)
        PROVE  ItemsStay /\ HiddenStay /\ EntriesStay
    BY <2>1, SaveItemStays DEF SavePreset, SaveBattery, SaveItem, Lists, EntriesStay
  <2>2. ASSUME NEW i \in Items, DeletePreset(i) \/ DeleteBattery(i)
        PROVE  ItemsStay /\ HiddenStay /\ EntriesStay
    BY <2>2, DeleteItemStays DEF DeletePreset, DeleteBattery, DeleteItem, Lists, EntriesStay
  <2>3. ASSUME NEW x \in Tables, NEW i \in Items, AddEntry(x, i)
        PROVE  ItemsStay /\ HiddenStay /\ EntriesStay
    BY <2>3 DEF AddEntry, TypeOK, ItemsStay, HiddenStay, EntriesStay
  <2>4. ASSUME NEW x \in Tables, NEW i \in Items, DeleteEntry(x, i)
        PROVE  ItemsStay /\ HiddenStay /\ EntriesStay
    <3>1. \A y \in Tables : \A j \in entries[y] \ entries'[y] : y = x /\ j = i
      BY <2>4 DEF DeleteEntry, TypeOK
    <3>2. EntriesStay
      BY <2>4, <3>1 DEF EntriesStay
    <3>3. QED
      BY <2>4, <3>2 DEF DeleteEntry, ItemsStay, HiddenStay
  <2>5. ASSUME NEW r \in Requests, NEW s \in Texts, SaveStrategy(r, s)
        PROVE  ItemsStay /\ HiddenStay /\ EntriesStay
    BY <2>5, SaveStrategyStays DEF SaveStrategy, EntriesStay
  <2>6. ASSUME NEW r \in Requests, ReadProfile(r) \/ RollBack(r)
        PROVE  ItemsStay /\ HiddenStay /\ EntriesStay
    BY <2>6 DEF ReadProfile, RollBack, ItemsStay, HiddenStay, EntriesStay
  <2>7. ASSUME NEW r \in Requests, BeginUpdate(r) \/ BeginImport(r)
        PROVE  ItemsStay /\ HiddenStay /\ EntriesStay
    BY <2>7 DEF BeginUpdate, BeginImport, Begin, ItemsStay, HiddenStay, EntriesStay
  <2>8. ASSUME NEW r \in Requests, NEW c \in Changes, BeginDecision(r, c)
        PROVE  ItemsStay /\ HiddenStay /\ EntriesStay
    BY <2>8 DEF BeginDecision, Begin, ItemsStay, HiddenStay, EntriesStay
  <2>9. ASSUME NEW r \in Requests, Commit(r) PROVE ItemsStay /\ HiddenStay /\ EntriesStay
    BY <2>9, CommitStays
  <2>10. QED
    BY <2>1, <2>2, <2>3, <2>4, <2>5, <2>6, <2>7, <2>8, <2>9
       DEF Next, AddExperience, AddEducation, DeleteExperience, DeleteEducation, Tables
<1>2. QED
  BY <1>1, TypeCorrect, PTL DEF Spec, SavedItemsSurvive

-----------------------------------------------------------------------------
\* The evidence inbox.

\* What a skill may rest on.
Backed(c) == state[c] = "confirmed" \/ (c \in redecided /\ state[c] \in Decided)

\* The claims a request has read were inserted; those it is about to cite are
\* still good evidence, or gone.
PickInv ==
    \A t \in Tabs : \A c \in picked[t] :
        /\ state[c] # "absent"
        /\ phase[t] = "citing" => state[c] = "deleted" \/ Backed(c)

\* A transaction locks rows that nobody else has deleted, an extraction only
\* proposals.
LockInv ==
    /\ \A a \in Actors : \A c \in erased[a] :
          state[c] \in States /\ (a \in Workers => state[c] = "proposed")
    /\ \A a, b \in Actors : a # b => erased[a] \cap erased[b] = {}

\* A DELETE has found rows that were inserted, an extraction proposals.
TargetInv ==
    \A a \in Actors : \A c \in target[a] :
        state[c] # "absent" /\ (a \in Workers => state[c] # "superseded")

\* What a DELETE has found and spared is gone or, for an extraction, decided.
HoldInv ==
    \A a \in Actors : phase[a] = "holding" =>
        \A c \in target[a] \ erased[a] :
            state[c] = "deleted" \/ (a \in Workers /\ state[c] \in Decided)

ReviewIInv ==
    /\ ReviewTypeOK
    /\ PickInv
    /\ LockInv
    /\ TargetInv
    /\ HoldInv
    /\ SkillsRestOnConfirmed

(***************************************************************************)
(* Type correctness.                                                       *)
(***************************************************************************)

\* Proposing claims keeps the types of their columns.
LEMMA ProposeType ==
    ASSUME ReviewTypeOK, NEW new \in SUBSET Claims, NEW s \in Sources \cup {NoSource},
           Propose(new, s)
    PROVE  /\ state' \in [Claims -> States \cup {"absent", "deleted"}]
           /\ origin' \in [Claims -> Sources \cup {NoSource}]
BY DEF Propose, ReviewTypeOK, States

\* Ending a request or a transaction keeps the types of all processes.
LEMMA EndType ==
    ASSUME ReviewTypeOK, NEW a \in Actors, End(a)
    PROVE  /\ phase' \in [Actors -> {"idle", "deciding", "citing", "reading",
                                     "finding", "holding"}]
           /\ picked' \in [Tabs -> SUBSET Claims]
           /\ job' \in [Workers -> Sources \cup {NoSource}]
           /\ target' \in [Actors -> SUBSET Claims]
           /\ erased' \in [Actors -> SUBSET Claims]
           /\ cleared' \in [Tabs -> SUBSET Skills]
BY DEF End, ReviewTypeOK

\* The rows an import writes have the right types.
LEMMA ImportType ==
    ASSUME ReviewTypeOK, NEW gone, NEW closed, NEW dropped, Import(gone, closed, dropped)
    PROVE  /\ state' \in [Claims -> States \cup {"absent", "deleted"}]
           /\ origin' \in [Claims -> Sources \cup {NoSource}]
           /\ source' \in [Sources -> {"absent", "stored", "bare", "deleted"}]
           /\ skill' \in [Skills -> {"absent", "present", "deleted"}]
           /\ evidence' \in [Skills -> SUBSET Claims]
<1>1. PICK s \in {x \in Sources : source[x] = "absent"} \cup {NoSource},
           new \in SUBSET Absent,
           added \in SUBSET {k \in Skills : skill[k] = "absent"} :
        \E given \in [new -> States] :
        \E cited \in SUBSET {c \in new : given[c] = "confirmed"} :
            WriteProfile(gone, closed, dropped, s, new, given, added, cited)
  BY Zenon DEF Import
<1>2. PICK given \in [new -> States] :
        \E cited \in SUBSET {c \in new : given[c] = "confirmed"} :
            WriteProfile(gone, closed, dropped, s, new, given, added, cited)
  BY <1>1, Zenon
<1>3. PICK cited \in SUBSET {c \in new : given[c] = "confirmed"} :
        WriteProfile(gone, closed, dropped, s, new, given, added, cited)
  BY <1>2, Zenon
<1>4. new \subseteq Claims /\ cited \subseteq Claims
  BY DEF Absent
<1>5. QED
  BY <1>3, <1>4 DEF WriteProfile, ReviewTypeOK

\* Every step keeps the types of the columns and of the processes' memory.
LEMMA TypeStep == ReviewTypeOK /\ [ReviewNext]_reviewVars => ReviewTypeOK'
<1> SUFFICES ASSUME ReviewTypeOK, [ReviewNext]_reviewVars PROVE ReviewTypeOK'
  OBVIOUS
<1> USE DEF ReviewTypeOK, Actors, claimVars, skillVars, actorVars
<1>1. ASSUME NEW s \in Sources, Upload(s) PROVE ReviewTypeOK'
  BY <1>1 DEF Upload
<1>2. ASSUME NEW s \in Sources, GithubSnapshot(s) PROVE ReviewTypeOK'
  <2>1. PICK new \in SUBSET Absent : Propose(new, s)
    BY <1>2 DEF GithubSnapshot
  <2>2. QED
    BY <1>2, <2>1, ProposeType DEF GithubSnapshot, Absent
<1>3. ASSUME NEW c \in Claims, NEW s \in Sources \cup {NoSource}, ProposeClaim(c, s)
      PROVE ReviewTypeOK'
  BY <1>3, ProposeType DEF ProposeClaim
<1>4. ASSUME NEW k \in Skills, DeleteSkill(k) PROVE ReviewTypeOK'
  BY <1>4 DEF DeleteSkill
<1>5. ASSUME AppendImport PROVE ReviewTypeOK'
  BY <1>5, ImportType DEF AppendImport
<1>6. ASSUME NEW t \in Tabs, ReadForSkill(t) PROVE ReviewTypeOK'
  BY <1>6 DEF ReadForSkill, Enter
<1>7. ASSUME NEW t \in Tabs, NEW k \in Skills, CommitSkill(t, k) PROVE ReviewTypeOK'
  BY <1>7, EndType DEF CommitSkill
<1>8. ASSUME NEW t \in Tabs, StartImport(t) PROVE ReviewTypeOK'
  BY <1>8 DEF StartImport, Enter, Existing
<1>9. ASSUME NEW t \in Tabs, EraseProfile(t) PROVE ReviewTypeOK'
  BY <1>9 DEF EraseProfile, Enter
<1>10. ASSUME NEW t \in Tabs, CommitImport(t) PROVE ReviewTypeOK'
  BY <1>10, ImportType, EndType DEF CommitImport
<1>11. ASSUME NEW t \in Tabs, NEW c \in Claims, ReadForDecision(t, c) PROVE ReviewTypeOK'
  BY <1>11 DEF ReadForDecision, Enter
<1>12. ASSUME NEW t \in Tabs, NEW c \in Claims, CommitDecision(t, c) PROVE ReviewTypeOK'
  BY <1>12, EndType DEF CommitDecision, Decided, States
<1>13. ASSUME NEW w \in Workers, NEW s \in Sources, OpenSource(w, s) PROVE ReviewTypeOK'
  BY <1>13 DEF OpenSource, Enter
<1>14. ASSUME NEW w \in Workers, FindProposals(w) PROVE ReviewTypeOK'
  BY <1>14 DEF FindProposals, Enter
<1>15. ASSUME NEW w \in Workers, EraseProposals(w) PROVE ReviewTypeOK'
  BY <1>15 DEF EraseProposals, Enter
<1>16. ASSUME NEW w \in Workers, CommitProposals(w) PROVE ReviewTypeOK'
  <2>1. state' \in [Claims -> States \cup {"absent", "deleted"}]
    BY <1>16 DEF CommitProposals, States
  <2>2. origin' \in [Claims -> Sources \cup {NoSource}]
    BY <1>16 DEF CommitProposals
  <2>3. QED
    BY <1>16, <2>1, <2>2, EndType DEF CommitProposals, Unlink
<1>17. ASSUME NEW w \in Workers, FailExtraction(w) PROVE ReviewTypeOK'
  BY <1>17, EndType DEF FailExtraction, Unlink
<1>18. ASSUME NEW a \in Actors, Abort(a) PROVE ReviewTypeOK'
  BY <1>18, EndType DEF Abort
<1>19. CASE UNCHANGED reviewVars
  BY <1>19 DEF reviewVars
<1>20. QED
  BY <1>1, <1>2, <1>3, <1>4, <1>5, <1>6, <1>7, <1>8, <1>9, <1>10, <1>11, <1>12,
     <1>13, <1>14, <1>15, <1>16, <1>17, <1>18, <1>19
     DEF ReviewNext, Decide, Curate, Replace, Extract

(***************************************************************************)
(* What a step does to a claim, to a DELETE and to a request.              *)
(***************************************************************************)

\* A claim stays, is inserted, is decided while nobody locks it, or is deleted
\* by the transaction that locked it.
Evolves(c) ==
    \/ state'[c] = state[c]
    \/ state[c] = "absent"
    \/ /\ state[c] \in States /\ c \notin LockedBy(Actors)
       /\ state'[c] \in Decided /\ (state[c] = "proposed" \/ c \in redecided')
    \/ state'[c] = "deleted" /\ \E a \in Actors : c \in erased[a] /\ erased'[a] = {}

\* The rows the DELETE of a finds, and of those the ones it deletes.
Finds(a, c) == state[c] \in States /\ (a \in Workers => state[c] = "proposed")

\* An actor goes on, ends, begins, starts its DELETE or ends it.
Moves(a) ==
    \/ /\ target'[a] = target[a] /\ erased'[a] = erased[a]
       /\ phase'[a] = phase[a] \/ phase'[a] \in {"deciding", "citing", "reading"}
    \/ target'[a] = {} /\ erased'[a] = {} /\ phase'[a] = "idle"
    \/ /\ state' = state /\ erased'[a] = erased[a] /\ phase'[a] = "finding"
       /\ \A c \in target'[a] : Finds(a, c)
    \/ /\ state' = state /\ target'[a] = target[a] /\ phase'[a] = "holding"
       /\ erased'[a] = {c \in target[a] : Finds(a, c)}
       /\ target[a] \cap LockedBy(Actors) = {}
       /\ \A b \in Actors \ {a} : erased'[b] = erased[b]

\* A request keeps what it has read, forgets it, or reads it now.
Picks(t) ==
    \/ picked'[t] = picked[t] /\ (phase'[t] = "citing" => phase[t] = "citing")
    \/ picked'[t] = {}
    \/ /\ state' = state /\ redecided' = redecided
       /\ \A c \in picked'[t] :
             state[c] = "confirmed" \/ (state[c] = "proposed" /\ phase'[t] # "citing")

\* No step deletes a decision from the record of double decisions.
Good ==
    /\ \A c \in Claims : Evolves(c)
    /\ \A a \in Actors : Moves(a)
    /\ \A t \in Tabs : Picks(t)
    /\ redecided \subseteq redecided'

\* An actor that ends frees its locks, and the others do not move.
LEMMA EndMoves ==
    ASSUME ReviewTypeOK, NEW a \in Actors, End(a)
    PROVE  /\ \A b \in Actors : Moves(b)
           /\ \A t \in Tabs : Picks(t)
           /\ erased'[a] = {}
BY DEF End, Moves, Picks, ReviewTypeOK, Actors

\* Inserted claims were absent.
LEMMA ProposeEvolves ==
    ASSUME ReviewTypeOK, NEW new \in SUBSET Absent, NEW s, Propose(new, s)
    PROVE  \A c \in Claims : Evolves(c)
BY DEF Propose, Absent, Evolves, ReviewTypeOK

\* An import deletes the claims it is given and inserts absent ones.
LEMMA ImportState ==
    ASSUME ReviewTypeOK, NEW gone, NEW closed, NEW dropped, Import(gone, closed, dropped)
    PROVE  \A c \in Claims :
              state'[c] = state[c] \/ state[c] = "absent"
                  \/ (state'[c] = "deleted" /\ c \in gone)
<1>1. PICK s \in {x \in Sources : source[x] = "absent"} \cup {NoSource},
           new \in SUBSET Absent,
           added \in SUBSET {k \in Skills : skill[k] = "absent"} :
        \E given \in [new -> States] :
        \E cited \in SUBSET {c \in new : given[c] = "confirmed"} :
            WriteProfile(gone, closed, dropped, s, new, given, added, cited)
  BY Zenon DEF Import
<1>2. PICK given \in [new -> States] :
        \E cited \in SUBSET {c \in new : given[c] = "confirmed"} :
            WriteProfile(gone, closed, dropped, s, new, given, added, cited)
  BY <1>1, Zenon
<1>3. PICK cited \in SUBSET {c \in new : given[c] = "confirmed"} :
        WriteProfile(gone, closed, dropped, s, new, given, added, cited)
  BY <1>2, Zenon
<1>4. QED
  BY <1>3 DEF WriteProfile, Absent, ReviewTypeOK

\* Every step is of this kind.
LEMMA StepIsGood == ReviewIInv /\ [ReviewNext]_reviewVars => Good
<1> SUFFICES ASSUME ReviewIInv, [ReviewNext]_reviewVars PROVE Good
  OBVIOUS
<1>0. ReviewTypeOK
  BY DEF ReviewIInv
<1> USE <1>0 DEF Good, claimVars, skillVars, actorVars
<1>1. ASSUME UNCHANGED <<claimVars, actorVars>> PROVE Good
  BY <1>1 DEF Evolves, Moves, Picks
<1>2. ASSUME NEW s \in Sources, GithubSnapshot(s) PROVE Good
  <2>1. PICK new \in SUBSET Absent : Propose(new, s)
    BY <1>2 DEF GithubSnapshot
  <2>2. QED
    BY <1>2, <2>1, ProposeEvolves DEF GithubSnapshot, Moves, Picks
<1>3. ASSUME NEW c \in Claims, NEW s \in Sources \cup {NoSource}, ProposeClaim(c, s)
      PROVE Good
  <2>1. {c} \in SUBSET Absent /\ Propose({c}, s)
    BY <1>3 DEF ProposeClaim, Absent
  <2>2. QED
    BY <1>3, <2>1, ProposeEvolves DEF ProposeClaim, Moves, Picks
<1>4. ASSUME AppendImport PROVE Good
  BY <1>4, ImportState DEF AppendImport, Evolves, Moves, Picks
<1>5. ASSUME NEW t \in Tabs, ReadForSkill(t) PROVE Good
  BY <1>5 DEF ReadForSkill, Enter, Evolves, Moves, Picks, ReviewTypeOK, Actors
<1>6. ASSUME NEW t \in Tabs, NEW k \in Skills, CommitSkill(t, k) PROVE Good
  BY <1>6, EndMoves DEF CommitSkill, Evolves, Actors
<1>7. ASSUME NEW t \in Tabs, StartImport(t) PROVE Good
  BY <1>7, ActorAssumption
     DEF StartImport, Enter, Existing, Evolves, Moves, Picks, Finds, ReviewTypeOK, Actors
<1>8. ASSUME NEW t \in Tabs, EraseProfile(t) PROVE Good
  <2>1. erased'[t] = {c \in target[t] : Finds(t, c)}
    BY <1>8, ActorAssumption DEF EraseProfile, Existing, Finds, ReviewTypeOK, Actors
  <2>2. Moves(t)
    BY <1>8, <2>1 DEF EraseProfile, Enter, Moves, ReviewTypeOK, Actors
  <2>3. \A a \in Actors \ {t} : Moves(a)
    BY <1>8 DEF EraseProfile, Enter, Moves, ReviewTypeOK, Actors
  <2>4. \A u \in Tabs : Picks(u)
    BY <1>8 DEF EraseProfile, Enter, Picks, ReviewTypeOK, Actors
  <2>5. QED
    BY <1>8, <2>2, <2>3, <2>4 DEF EraseProfile, Evolves
<1>9. ASSUME NEW t \in Tabs, CommitImport(t) PROVE Good
  BY <1>9, ImportState, EndMoves DEF CommitImport, Evolves, Actors
<1>10. ASSUME NEW t \in Tabs, NEW c \in Claims, ReadForDecision(t, c) PROVE Good
  BY <1>10 DEF ReadForDecision, Enter, Evolves, Moves, Picks, ReviewTypeOK, Actors
<1>11. ASSUME NEW t \in Tabs, NEW c \in Claims, CommitDecision(t, c) PROVE Good
  <2>1. state[c] \in States
    BY <1>11 DEF CommitDecision, ReviewIInv, PickInv, ReviewTypeOK, States, Decided
  <2>2. PICK verdict \in Decided : state' = [state EXCEPT ![c] = verdict]
    BY <1>11 DEF CommitDecision
  <2>3. \A d \in Claims : Evolves(d)
    BY <1>11, <2>1, <2>2 DEF CommitDecision, Evolves, ReviewTypeOK
  <2>4. QED
    BY <1>11, <2>3, EndMoves DEF CommitDecision, Actors
<1>12. ASSUME NEW w \in Workers, NEW s \in Sources, OpenSource(w, s) PROVE Good
  BY <1>12 DEF OpenSource, Enter, Evolves, Moves, Picks, ReviewTypeOK, Actors
<1>13. ASSUME NEW w \in Workers, FindProposals(w) PROVE Good
  <2>1. \A c \in target'[w] : Finds(w, c)
    BY <1>13 DEF FindProposals, Finds, ReviewTypeOK, Actors, States
  <2>2. QED
    BY <1>13, <2>1 DEF FindProposals, Enter, Evolves, Moves, Picks, ReviewTypeOK, Actors
<1>14. ASSUME NEW w \in Workers, EraseProposals(w) PROVE Good
  <2>1. erased'[w] = {c \in target[w] : Finds(w, c)}
    BY <1>14 DEF EraseProposals, Finds, ReviewTypeOK, Actors, States
  <2>2. Moves(w)
    BY <1>14, <2>1 DEF EraseProposals, Enter, Moves, ReviewTypeOK, Actors
  <2>3. \A a \in Actors \ {w} : Moves(a)
    BY <1>14 DEF EraseProposals, Enter, Moves, ReviewTypeOK, Actors
  <2>4. \A t \in Tabs : Picks(t)
    BY <1>14 DEF EraseProposals, Enter, Picks, ReviewTypeOK, Actors
  <2>5. QED
    BY <1>14, <2>2, <2>3, <2>4 DEF EraseProposals, Evolves
<1>15. ASSUME NEW w \in Workers, CommitProposals(w) PROVE Good
  <2>1. PICK new \in SUBSET Absent :
           state' = [c \in Claims |-> IF c \in erased[w] THEN "deleted"
                                      ELSE IF c \in new THEN "proposed" ELSE state[c]]
    BY <1>15 DEF CommitProposals
  <2>2. \A c \in Claims :
           state'[c] = state[c] \/ state[c] = "absent"
               \/ (state'[c] = "deleted" /\ c \in erased[w])
    BY <2>1 DEF Absent, ReviewTypeOK
  <2>3. QED
    BY <1>15, <2>2, EndMoves DEF CommitProposals, Evolves, Actors
<1>16. ASSUME NEW w \in Workers, FailExtraction(w) PROVE Good
  BY <1>16, EndMoves DEF FailExtraction, Evolves, Actors, ReviewTypeOK
<1>17. ASSUME NEW a \in Actors, Abort(a) PROVE Good
  BY <1>17, EndMoves DEF Abort, Evolves
<1>18. QED
  <2>1. ASSUME NEW s \in Sources, Upload(s) PROVE Good
    BY <2>1, <1>1 DEF Upload
  <2>2. ASSUME NEW k \in Skills, DeleteSkill(k) PROVE Good
    BY <2>2, <1>1 DEF DeleteSkill
  <2>3. CASE UNCHANGED reviewVars
    BY <2>3, <1>1 DEF reviewVars
  <2>4. QED
    BY <2>1, <2>2, <2>3, <1>2, <1>3, <1>4, <1>5, <1>6, <1>7, <1>8, <1>9, <1>10,
       <1>11, <1>12, <1>13, <1>14, <1>15, <1>16, <1>17
       DEF ReviewNext, Decide, Curate, Replace, Extract

(***************************************************************************)
(* The inductive invariant.                                                *)
(***************************************************************************)

\* The empty inbox satisfies the invariant.
LEMMA ReviewInitInv == ReviewInit => ReviewIInv
BY DEF ReviewInit, ReviewIInv, ReviewTypeOK, PickInv, LockInv, TargetInv, HoldInv, SkillsRestOnConfirmed,
       Actors

\* A good step harms nothing that an open request or transaction knows.
LEMMA GoodStep ==
    ASSUME ReviewIInv, ReviewTypeOK', Good
    PROVE  PickInv' /\ LockInv' /\ TargetInv' /\ HoldInv'
<1> USE DEF ReviewIInv, Good, States, Decided
<1>1. \A c \in Claims : state[c] = "deleted" => state'[c] = "deleted"
  BY DEF Evolves, ReviewTypeOK, LockInv
<1>2. \A c \in Claims : state[c] # "absent" => state'[c] # "absent"
  BY DEF Evolves, ReviewTypeOK, LockInv
<1>3. \A c \in Claims : Backed(c) => state'[c] = "deleted" \/ Backed(c)'
  BY DEF Evolves, ReviewTypeOK, Backed
<1>4. PickInv'
  <2> SUFFICES ASSUME NEW t \in Tabs, NEW c \in picked'[t]
      PROVE  /\ state'[c] # "absent"
             /\ phase'[t] = "citing" => state'[c] = "deleted" \/ Backed(c)'
    BY DEF PickInv
  <2>1. c \in Claims
    BY DEF ReviewTypeOK
  <2>2. CASE picked'[t] = picked[t] /\ (phase'[t] = "citing" => phase[t] = "citing")
    BY <2>1, <2>2, <1>1, <1>2, <1>3 DEF PickInv
  <2>3. CASE /\ state' = state /\ redecided' = redecided
             /\ state[c] = "confirmed" \/ (state[c] = "proposed" /\ phase'[t] # "citing")
    BY <2>3 DEF Backed
  <2>4. QED
    BY <2>2, <2>3 DEF Picks
<1>5. ASSUME NEW a \in Actors, NEW c \in Claims, c \in erased[a], c \in erased'[a]
      PROVE  state'[c] = state[c]
  BY <1>5 DEF Evolves, LockInv, LockedBy
<1>6. LockInv'
  <2>1. ASSUME NEW a \in Actors, NEW c \in erased'[a]
        PROVE  state'[c] \in States /\ (a \in Workers => state'[c] = "proposed")
    <3>1. c \in Claims
      BY <2>1 DEF ReviewTypeOK
    <3>2. CASE c \in erased[a]
      BY <2>1, <3>1, <3>2, <1>5 DEF LockInv
    <3>3. CASE c \notin erased[a]
      BY <2>1, <3>3 DEF Moves, Finds
    <3>4. QED
      BY <3>2, <3>3
  <2>2. ASSUME NEW a \in Actors, NEW b \in Actors, a # b
        PROVE  erased'[a] \cap erased'[b] = {}
    <3>1. ASSUME NEW d \in Actors, NEW e \in Actors, d # e,
                 ~(erased'[d] \subseteq erased[d])
          PROVE  erased'[d] \cap erased'[e] = {}
      <4>1. /\ erased'[d] \subseteq target[d]
            /\ target[d] \cap LockedBy(Actors) = {}
            /\ erased'[e] = erased[e]
        BY <3>1 DEF Moves
      <4>2. QED
        BY <4>1 DEF LockedBy
    <3>2. QED
      BY <2>2, <3>1 DEF LockInv
  <2>3. QED
    BY <2>1, <2>2 DEF LockInv
<1>7. TargetInv'
  <2> SUFFICES ASSUME NEW a \in Actors, NEW c \in target'[a]
      PROVE  state'[c] # "absent" /\ (a \in Workers => state'[c] # "superseded")
    BY DEF TargetInv
  <2>1. c \in Claims
    BY DEF ReviewTypeOK
  <2>2. CASE c \in target[a]
    BY <2>1, <2>2 DEF TargetInv, Evolves
  <2>3. CASE c \notin target[a]
    BY <2>3 DEF Moves, Finds
  <2>4. QED
    BY <2>2, <2>3
<1>8. HoldInv'
  <2> SUFFICES ASSUME NEW a \in Actors, phase'[a] = "holding",
                      NEW c \in target'[a] \ erased'[a]
      PROVE  state'[c] = "deleted" \/ (a \in Workers /\ state'[c] \in Decided)
    BY DEF HoldInv
  <2>1. c \in Claims
    BY DEF ReviewTypeOK
  <2>2. CASE target'[a] = target[a] /\ erased'[a] = erased[a] /\ phase[a] = "holding"
    BY <2>1, <2>2 DEF HoldInv, Evolves
  <2>3. CASE /\ state' = state /\ target'[a] = target[a]
             /\ erased'[a] = {d \in target[a] : Finds(a, d)}
    <3>1. ~Finds(a, c) /\ c \in target[a]
      BY <2>3
    <3>2. state[c] \in States \cup {"absent", "deleted"}
      BY <2>1 DEF ReviewTypeOK
    <3>3. QED
      BY <2>3, <3>1, <3>2 DEF TargetInv, Finds
  <2>4. QED
    BY <2>2, <2>3 DEF Moves
<1>9. QED
  BY <1>4, <1>6, <1>7, <1>8

\* The links of a skill are those it had, without the claims deleted now, those
\* of a request that cites existing claims, or links to imported confirmed ones.
Links(k) ==
    \A c \in evidence'[k] :
        \/ c \in evidence[k] /\ (state'[c] = "deleted" => state[c] = "deleted")
        \/ /\ \E t \in Tabs : phase[t] = "citing" /\ c \in picked[t]
           /\ state[c] # "deleted" /\ state' = state /\ redecided' = redecided
        \/ state'[c] = "confirmed"

\* An import links the skills it inserts to confirmed claims of its document.
LEMMA ImportLinks ==
    ASSUME ReviewTypeOK, NEW gone, NEW closed, NEW dropped, Import(gone, closed, dropped),
           \A c \in gone : state[c] # "absent"
    PROVE  \A k \in Skills : Links(k)
<1>1. PICK s \in {x \in Sources : source[x] = "absent"} \cup {NoSource},
           new \in SUBSET Absent,
           added \in SUBSET {k \in Skills : skill[k] = "absent"} :
        \E given \in [new -> States] :
        \E cited \in SUBSET {c \in new : given[c] = "confirmed"} :
            WriteProfile(gone, closed, dropped, s, new, given, added, cited)
  BY Zenon DEF Import
<1>2. PICK given \in [new -> States] :
        \E cited \in SUBSET {c \in new : given[c] = "confirmed"} :
            WriteProfile(gone, closed, dropped, s, new, given, added, cited)
  BY <1>1, Zenon
<1>3. PICK cited \in SUBSET {c \in new : given[c] = "confirmed"} :
        WriteProfile(gone, closed, dropped, s, new, given, added, cited)
  BY <1>2, Zenon
<1>4. \A c \in cited : c \in Claims /\ c \in new /\ c \notin gone /\ given[c] = "confirmed"
  BY DEF Absent
<1>5. \A c \in cited : state'[c] = "confirmed"
  BY <1>3, <1>4 DEF WriteProfile
<1>6. \A c \in Claims \ gone : state'[c] = "deleted" => state[c] = "deleted"
  BY <1>3 DEF WriteProfile, States, Decided, Absent
<1>7. evidence' = [k \in Skills |-> IF k \in added THEN cited
                                   ELSE IF k \in dropped THEN {}
                                   ELSE evidence[k] \ gone]
  BY <1>3 DEF WriteProfile
<1>8. QED
  BY <1>5, <1>6, <1>7 DEF Links, ReviewTypeOK

\* Every step links skills in these ways only.
LEMMA StepLinks == ReviewIInv /\ [ReviewNext]_reviewVars => \A k \in Skills : Links(k)
<1> SUFFICES ASSUME ReviewIInv, [ReviewNext]_reviewVars PROVE \A k \in Skills : Links(k)
  OBVIOUS
<1>0. ReviewTypeOK
  BY DEF ReviewIInv
<1> USE <1>0 DEF claimVars, skillVars, actorVars
<1>1. ASSUME UNCHANGED <<state, evidence>> PROVE \A k \in Skills : Links(k)
  BY <1>1 DEF Links
<1>2. ASSUME NEW gone \in SUBSET Claims,
             evidence' = [k \in Skills |-> evidence[k] \ gone],
             \A c \in Claims \ gone : state'[c] = "deleted" => state[c] = "deleted"
      PROVE  \A k \in Skills : Links(k)
  BY <1>2 DEF Links, ReviewTypeOK
<1>3. ASSUME UNCHANGED evidence,
             \A c \in Claims : state'[c] = "deleted" => state[c] = "deleted"
      PROVE  \A k \in Skills : Links(k)
  BY <1>3 DEF Links, ReviewTypeOK
<1>4. ASSUME NEW s \in Sources, GithubSnapshot(s) PROVE \A k \in Skills : Links(k)
  BY <1>4, <1>3 DEF GithubSnapshot, Propose
<1>5. ASSUME NEW c \in Claims, NEW s \in Sources \cup {NoSource}, ProposeClaim(c, s)
      PROVE \A k \in Skills : Links(k)
  BY <1>5, <1>3 DEF ProposeClaim, Propose
<1>6. ASSUME NEW k \in Skills, DeleteSkill(k) PROVE \A l \in Skills : Links(l)
  BY <1>6 DEF DeleteSkill, Links, ReviewTypeOK
<1>7. ASSUME AppendImport PROVE \A k \in Skills : Links(k)
  BY <1>7, ImportLinks DEF AppendImport
<1>8. ASSUME NEW t \in Tabs, NEW k \in Skills, CommitSkill(t, k)
      PROVE \A l \in Skills : Links(l)
  BY <1>8 DEF CommitSkill, Links, Existing, States, Decided, ReviewTypeOK
<1>9. ASSUME NEW t \in Tabs, CommitImport(t) PROVE \A k \in Skills : Links(k)
  <2>1. \A c \in erased[t] : state[c] # "absent"
    BY DEF ReviewIInv, LockInv, States, Decided, Actors
  <2>2. QED
    BY <1>9, <2>1, ImportLinks DEF CommitImport
<1>10. ASSUME NEW t \in Tabs, NEW c \in Claims, CommitDecision(t, c)
       PROVE \A k \in Skills : Links(k)
  BY <1>10, <1>3 DEF CommitDecision, Decided, ReviewTypeOK
<1>11. ASSUME NEW w \in Workers, CommitProposals(w) PROVE \A k \in Skills : Links(k)
  <2>1. \A c \in Claims \ erased[w] : state'[c] = "deleted" => state[c] = "deleted"
    BY <1>11 DEF CommitProposals
  <2>2. erased[w] \in SUBSET Claims
    BY DEF ReviewTypeOK, Actors
  <2>3. QED
    BY <1>2, <1>11, <2>1, <2>2 DEF CommitProposals, Unlink
<1>12. ASSUME NEW w \in Workers, FailExtraction(w) PROVE \A k \in Skills : Links(k)
  <2>1. \A c \in Claims \ erased[w] : state'[c] = "deleted" => state[c] = "deleted"
    BY <1>12 DEF FailExtraction
  <2>2. erased[w] \in SUBSET Claims
    BY DEF ReviewTypeOK, Actors
  <2>3. QED
    BY <1>2, <1>12, <2>1, <2>2 DEF FailExtraction, Unlink
<1>13. ASSUME NEW t \in Tabs, ReadForSkill(t) \/ StartImport(t) \/ EraseProfile(t)
       PROVE \A k \in Skills : Links(k)
  BY <1>13, <1>1 DEF ReadForSkill, StartImport, EraseProfile
<1>14. ASSUME NEW t \in Tabs, NEW c \in Claims, ReadForDecision(t, c)
       PROVE \A k \in Skills : Links(k)
  BY <1>14, <1>1 DEF ReadForDecision
<1>15. ASSUME NEW w \in Workers,
              \/ \E s \in Sources : OpenSource(w, s)
              \/ FindProposals(w) \/ EraseProposals(w)
       PROVE \A k \in Skills : Links(k)
  BY <1>15, <1>1 DEF OpenSource, FindProposals, EraseProposals
<1>16. ASSUME NEW a \in Actors, Abort(a) PROVE \A k \in Skills : Links(k)
  BY <1>16, <1>1 DEF Abort
<1>17. ASSUME NEW s \in Sources, Upload(s) PROVE \A k \in Skills : Links(k)
  BY <1>17, <1>1 DEF Upload
<1>18. CASE UNCHANGED reviewVars
  BY <1>18, <1>1 DEF reviewVars
<1>19. QED
  BY <1>4, <1>5, <1>6, <1>7, <1>8, <1>9, <1>10, <1>11, <1>12, <1>13, <1>14, <1>15,
     <1>16, <1>17, <1>18 DEF ReviewNext, Decide, Curate, Replace, Extract

\* Every step keeps the invariant.
LEMMA ReviewInvStep == ReviewIInv /\ [ReviewNext]_reviewVars => ReviewIInv'
<1> SUFFICES ASSUME ReviewIInv, [ReviewNext]_reviewVars PROVE ReviewIInv'
  OBVIOUS
<1>1. ReviewTypeOK'
  BY TypeStep DEF ReviewIInv
<1>2. Good
  BY StepIsGood
<1>3. PickInv' /\ LockInv' /\ TargetInv' /\ HoldInv'
  BY <1>1, <1>2, GoodStep
<1>4. SkillsRestOnConfirmed'
  <2> SUFFICES ASSUME NEW k \in Skills, NEW c \in evidence'[k]
      PROVE  Backed(c)'
    BY DEF SkillsRestOnConfirmed, Backed
  <2>1. c \in Claims
    BY <1>1 DEF ReviewTypeOK
  <2>2. CASE c \in evidence[k] /\ (state'[c] = "deleted" => state[c] = "deleted")
    <3>1. Backed(c)
      BY <2>2 DEF ReviewIInv, SkillsRestOnConfirmed, Backed
    <3>2. state[c] # "absent" /\ state[c] # "deleted" /\ state[c] # "proposed"
      BY <3>1 DEF Backed, Decided
    <3>3. QED
      BY <2>1, <2>2, <3>1, <3>2, <1>2 DEF Good, Evolves, Backed, Decided
  <2>3. CASE /\ \E t \in Tabs : phase[t] = "citing" /\ c \in picked[t]
             /\ state[c] # "deleted" /\ state' = state /\ redecided' = redecided
    BY <2>3 DEF ReviewIInv, PickInv, Backed
  <2>4. CASE state'[c] = "confirmed"
    BY <2>4 DEF Backed
  <2>5. QED
    BY StepLinks, <2>2, <2>3, <2>4 DEF Links
<1>5. QED
  BY <1>1, <1>3, <1>4 DEF ReviewIInv

\* The invariant holds in every reachable state.
THEOREM ReviewInvariance == ReviewSpec => []ReviewIInv
BY ReviewInitInv, ReviewInvStep, PTL DEF ReviewSpec

(***************************************************************************)
(* The properties of EvidenceReview.                                       *)
(***************************************************************************)

\* The columns, the open requests and the transactions keep their types.
THEOREM ReviewTypeCorrect == ReviewSpec => []ReviewTypeOK
<1>1. ReviewIInv => ReviewTypeOK
  BY DEF ReviewIInv
<1>2. QED
  BY <1>1, ReviewInvariance, PTL

\* What a skill cites exists and is confirmed, whatever else was under way.
THEOREM SkillsRestOnConfirmedAlways == ReviewSpec => []SkillsRestOnConfirmed
<1>1. ReviewIInv => SkillsRestOnConfirmed
  BY DEF ReviewIInv
<1>2. QED
  BY <1>1, ReviewInvariance, PTL

\* A decision is undone only by the import of a whole profile, or replaced by
\* the decision of an overlapping request.
THEOREM DecisionsSurviveAlways == ReviewSpec => DecisionsSurvive
<1> DEFINE Survives ==
       \A c \in Claims :
          state[c] \in Decided /\ state'[c] # state[c]
              => \/ \E t \in Tabs : c \in erased[t]
                 \/ c \in redecided' /\ state'[c] \in Decided
<1>1. ReviewIInv /\ [ReviewNext]_reviewVars => [Survives]_reviewVars
  <2> SUFFICES ASSUME ReviewIInv, [ReviewNext]_reviewVars,
                      NEW c \in Claims, state[c] \in Decided, state'[c] # state[c]
               PROVE  \/ \E t \in Tabs : c \in erased[t]
                      \/ c \in redecided' /\ state'[c] \in Decided
    OBVIOUS
  <2>1. Evolves(c)
    BY StepIsGood DEF Good
  <2>2. CASE /\ state'[c] \in Decided
             /\ state[c] = "proposed" \/ c \in redecided'
    BY <2>2 DEF Decided
  <2>3. CASE \E a \in Actors : c \in erased[a]
    BY <2>3 DEF ReviewIInv, LockInv, Decided, Actors
  <2>4. QED
    BY <2>1, <2>2, <2>3 DEF Evolves, Decided
<1>2. QED
  BY <1>1, ReviewInvariance, PTL DEF ReviewSpec, DecisionsSurvive

\* The end of a transaction that changes claims deletes all those it locks.
LEMMA EndDeletes ==
    ASSUME ReviewIInv, [ReviewNext]_reviewVars, NEW a \in Actors, state' # state,
           phase[a] = "holding", phase'[a] # "holding"
    PROVE  \A c \in erased[a] : state'[c] = "deleted"
<1>0. ReviewTypeOK
  BY DEF ReviewIInv
<1> USE <1>0 DEF claimVars, skillVars, actorVars
<1>1. ASSUME NEW b \in Actors, End(b), a # b PROVE FALSE
  BY <1>1 DEF End, ReviewTypeOK
<1>2. ASSUME NEW s \in Sources, Upload(s) \/ GithubSnapshot(s) PROVE FALSE
  BY <1>2 DEF Upload, GithubSnapshot
<1>3. ASSUME NEW c \in Claims, NEW s \in Sources \cup {NoSource}, ProposeClaim(c, s)
      PROVE FALSE
  BY <1>3 DEF ProposeClaim
<1>4. ASSUME NEW k \in Skills, DeleteSkill(k) PROVE FALSE
  BY <1>4 DEF DeleteSkill
<1>5. ASSUME AppendImport PROVE FALSE
  BY <1>5 DEF AppendImport
<1>6. ASSUME NEW t \in Tabs, Curate(t) \/ StartImport(t) \/ EraseProfile(t) PROVE FALSE
  BY <1>6 DEF Curate, ReadForSkill, CommitSkill, StartImport, EraseProfile
<1>7. ASSUME NEW t \in Tabs, CommitImport(t)
      PROVE \A c \in erased[a] : state'[c] = "deleted"
  <2>1. t = a
    BY <1>1, <1>7 DEF CommitImport, Actors
  <2>2. Import(erased[t], {s \in Sources : Present(s)}, cleared[t])
    BY <1>7 DEF CommitImport
  <2>3. \A c \in Claims : c \in erased[t] => state'[c] = "deleted"
    BY <2>2 DEF Import, WriteProfile
  <2>4. QED
    BY <2>1, <2>3 DEF ReviewTypeOK
<1>8. ASSUME NEW t \in Tabs, NEW c \in Claims, Decide(t, c) PROVE FALSE
  <2>1. ~CommitDecision(t, c)
    BY <1>1 DEF CommitDecision, Actors
  <2>2. QED
    BY <1>8, <2>1 DEF Decide, ReadForDecision
<1>9. ASSUME NEW w \in Workers, CommitProposals(w) \/ FailExtraction(w)
      PROVE \A c \in erased[a] : state'[c] = "deleted"
  <2>1. w = a
    BY <1>1, <1>9 DEF CommitProposals, FailExtraction, Actors
  <2>2. \A c \in Claims : c \in erased[w] => state'[c] = "deleted"
    BY <1>9 DEF CommitProposals, FailExtraction
  <2>3. QED
    BY <2>1, <2>2 DEF ReviewTypeOK
<1>10. ASSUME NEW w \in Workers,
              \/ \E s \in Sources : OpenSource(w, s)
              \/ FindProposals(w) \/ EraseProposals(w)
       PROVE FALSE
  BY <1>10 DEF OpenSource, FindProposals, EraseProposals
<1>11. ASSUME NEW b \in Actors, Abort(b) PROVE FALSE
  BY <1>11 DEF Abort
<1>12. CASE UNCHANGED reviewVars
  BY <1>12 DEF reviewVars
<1>13. QED
  BY <1>2, <1>3, <1>4, <1>5, <1>6, <1>7, <1>8, <1>9, <1>10, <1>11, <1>12
     DEF ReviewNext, Replace, Extract

\* No claim that an extraction or an import had to replace is left behind.
THEOREM ReplacementIsCompleteAlways == ReviewSpec => ReplacementIsComplete
<1>1. ReviewIInv /\ [ReviewNext]_reviewVars => [\A a \in Actors : LeavesNone(a)]_reviewVars
  <2> SUFFICES ASSUME ReviewIInv, [ReviewNext]_reviewVars, NEW a \in Actors,
                      phase[a] = "holding", phase'[a] # "holding", state' # state,
                      NEW c \in target[a]
               PROVE  state'[c] = "deleted" \/ (a \in Workers /\ state'[c] \in Decided)
    BY DEF LeavesNone
  <2>1. c \in Claims
    BY DEF ReviewIInv, ReviewTypeOK
  <2>2. CASE c \in erased[a]
    BY <2>2, EndDeletes
  <2>3. CASE c \notin erased[a]
    <3>1. state[c] = "deleted" \/ (a \in Workers /\ state[c] \in Decided)
      BY <2>3 DEF ReviewIInv, HoldInv
    <3>2. Evolves(c)
      BY <2>1, StepIsGood DEF Good
    <3>3. QED
      BY <3>1, <3>2 DEF Evolves, ReviewIInv, LockInv, States, Decided
  <2>4. QED
    BY <2>2, <2>3
<1>2. QED
  BY <1>1, ReviewInvariance, PTL DEF ReviewSpec, ReplacementIsComplete

=============================================================================
