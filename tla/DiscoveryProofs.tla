--------------------------- MODULE DiscoveryProofs ---------------------------
(* Proofs about Discovery for any calls, workspaces, listings, searches and    *)
(* batteries, and any periods and sizes.                                       *)
(* The argument: whoever is between the lookup of a page and the answer holds  *)
(* its provider's lock, so that the clock and the failures of the provider     *)
(* change under the lock only; what a call found and what it has to do are,    *)
(* provider by provider, the searches it was asked for; a page is as old as    *)
(* its listings; and an import that waits for its workspace is authorised by   *)
(* its ticket already, while the lock of the workspace keeps its link new.     *)
EXTENDS Discovery, FoldLemmas

-----------------------------------------------------------------------------
\* The inductive invariant.

\* A worker on its way has what it is on its way for: a search to answer, or a
\* location to check.
StepInv ==
    \A c \in Calls, p \in Providers :
        /\ worker[c][p].step \in {"pacing", "fetching"} => worker[c][p].todo # <<>>
        /\ worker[c][p].step = "catalogue" => worker[c][p].checks > 0
        /\ call[c].kind \in {"search", "battery"} /\ worker[c][p].step # "next"
              => worker[c][p].todo # <<>>

\* Locations are looked up at Jobicy only, for a search there or for the catalogue:
\* the others have no search with a location. Who does not search has no searches.
TurnInv ==
    \A c \in Calls :
        /\ \A p \in Providers :
            /\ worker[c][p].checks > 0 => p = "jobicy"
            /\ worker[c][p].step = "ready" /\ worker[c][p].todo = <<>>
                  => worker[c][p].checks > 0
            /\ call[c].kind \notin {"search", "battery"} => worker[c][p].todo = <<>>
        /\ call[c].kind \in {"search", "battery"} =>
              \A r \in ToSet(call[c].searches) : ProviderFilters(r)
        /\ call[c].kind = "idle" => call[c] = Idle

\* Whoever is between a lookup and its answer holds the provider's lock.
Holds(c, p) == worker[c][p].step \in {"catalogue", "pacing", "fetching"}

LockInv == \A p \in Providers : \A c, d \in Calls : Holds(c, p) /\ Holds(d, p) => c = d

\* While a worker sleeps nobody fails at its provider; the clock starts at -10.
PacingInv ==
    \A p \in Providers :
        /\ cache.last_fetch[p] >= -10
        /\ \A c \in Calls : worker[c][p].step = "pacing" => cache.source_errors[p] <= now

\* The calls that search are of a workspace, and a search is for one thing.
SearchInv ==
    \A c \in Calls :
        /\ call[c].kind \in {"search", "battery"} => call[c].workspace \in Workspaces
        /\ call[c].kind = "search" => Len(call[c].searches) = 1

\* What a worker found and what it has to do are its provider's searches.
Accounted(c, p) ==
    LET w == worker[c][p]
        group == Group(call[c].searches, p)
    IN  /\ Len(w.found) + Len(w.todo) = Len(group)
        /\ {v.search : v \in ToSet(w.found)} \cup ToSet(w.todo) = ToSet(group)

AccountInv ==
    \A c \in Calls : call[c].kind \in {"search", "battery"} =>
        \A p \in Providers : Accounted(c, p)

\* A page is kept for TTL after its listings were read.
PageInv ==
    \A page \in ToSet(cache.pages) : \A l \in ToSet(page.jobs) :
        page.until = l.retrieved + TTL

\* What ImportIsAuthorised asks of one import.
Authorised(s) ==
    /\ s.listing.job = s.ticket.job /\ s.workspace = s.ticket.workspace
    /\ s.at < s.ticket.expires
    /\ s.at < s.listing.retrieved + TTL
    /\ ExpiryOf[s.listing.job] # None => s.at < ExpiryOf[s.listing.job]

\* The import a call is about to save.
ImportOf(c) ==
    [workspace |-> call[c].workspace, listing |-> call[c].listing,
     ticket |-> call[c].ticket, at |-> call[c].started]

ResolvedInv ==
    \A c \in Calls : call[c].kind \in {"resolved", "saving"} =>
        ImportOf(c) \in Import /\ Authorised(ImportOf(c))

SavedInv == \A s \in ToSet(saved) : Authorised(s)

\* Two imports of one link into one workspace are one.
LinkInv ==
    \A i, j \in DOMAIN saved :
        /\ saved[i].workspace = saved[j].workspace
        /\ LinkOf[saved[i].listing.job] = LinkOf[saved[j].listing.job]
        => i = j

\* One call saves into a workspace, and it knows whether its link is there.
SavingInv ==
    /\ \A c, d \in Calls :
        /\ call[c].kind = "saving" /\ call[d].kind = "saving"
        /\ call[c].workspace = call[d].workspace
        => c = d
    /\ \A c \in Calls : call[c].kind = "saving" /\ ~ call[c].existing =>
        \A s \in ToSet(saved) :
            s.workspace = call[c].workspace
                => LinkOf[s.listing.job] # LinkOf[call[c].listing.job]

IInv ==
    /\ TypeOK
    /\ StepInv
    /\ TurnInv
    /\ LockInv
    /\ PacingInv
    /\ SearchInv
    /\ AccountInv
    /\ PageInv
    /\ ResolvedInv
    /\ SavedInv
    /\ LinkInv
    /\ SavingInv

-----------------------------------------------------------------------------
\* Kept: the elements of a sequence that are in a set, in their order.

\* Kept, from left to right: an element of S is appended, another is not.
LEMMA KeptLaws ==
    ASSUME NEW T, NEW S
    PROVE  /\ Kept(<<>>, S) = <<>>
           /\ \A s \in Seq(T) : Kept(s, S) \in Seq(T)
           /\ \A s \in Seq(T), x \in T :
                 Kept(Append(s, x), S) =
                    IF x \in S THEN Append(Kept(s, S), x) ELSE Kept(s, S)
<1> DEFINE F == [p \in Seq(T) \X T |-> IF p[2] \in S THEN Append(p[1], p[2]) ELSE p[1]]
           e == <<>>
<1>1. Folds(Seq(T), T, e, F)
  BY DEF Folds
<1>2. \A k \in Seq(T), x \in T : F[<<k, x>>] = IF x \in S THEN Append(k, x) ELSE k
  OBVIOUS
<1> HIDE DEF F, e
<1>3. ASSUME NEW s \in Seq(T) PROVE Kept(s, S) = Fold(Seq(T), F, e, s)
  <2> DEFINE Step(g, d) ==
               IF d = {} THEN e
               ELSE IF s[Max(d)] \in S THEN Append(g[d \ {Max(d)}], s[Max(d)])
                    ELSE g[d \ {Max(d)}]
             iter == CHOOSE g : g = [d \in SUBSET DOMAIN s |-> Step(g, d)]
  <2>1. Kept(s, S) = iter[DOMAIN s]
    BY DEF Kept, FoldLeft, MapThenFoldSet, e
  <2>2. FoldType(Seq(T), T, e, F, s)
    BY <1>1 DEF FoldType
  <2>3. PICK f : IsFold(f, Seq(T), F, e, s)
    BY <2>2, FoldExists
  <2>4. /\ f \in [SUBSET DOMAIN s -> Seq(T)]
        /\ f[{}] = e
        /\ \A d \in SUBSET DOMAIN s :
              d # {} => f[d] = F[<<f[d \ {Max(d)}], s[Max(d)]>>]
    BY <2>3 DEF IsFold
  <2>5. ASSUME NEW d \in SUBSET DOMAIN s, d # {}
        PROVE  d \ {Max(d)} \in SUBSET DOMAIN s /\ s[Max(d)] \in T
    BY <2>5, GreatestInSequence
  <2>6. f = [d \in SUBSET DOMAIN s |-> Step(f, d)]
    BY <1>2, <2>4, <2>5
  <2>7. iter = [d \in SUBSET DOMAIN s |-> Step(iter, d)]
    BY <2>6
  <2> HIDE DEF iter
  <2>8. Computes(iter, Seq(T), F, e, s)
    BY <1>2, <2>5, <2>7 DEF Computes
  <2>9. QED
    BY <2>1, <2>2, <2>8, FoldIs
<1>4. /\ Fold(Seq(T), F, e, <<>>) = e
      /\ \A s \in Seq(T) : Fold(Seq(T), F, e, s) \in Seq(T)
      /\ \A s \in Seq(T), x \in T :
            Fold(Seq(T), F, e, Append(s, x)) = F[<<Fold(Seq(T), F, e, s), x>>]
  BY <1>1, FoldLaws
<1>5. ASSUME NEW s \in Seq(T), NEW x \in T
      PROVE  Kept(Append(s, x), S) =
                IF x \in S THEN Append(Kept(s, S), x) ELSE Kept(s, S)
  <2>1. Append(s, x) \in Seq(T)
    OBVIOUS
  <2>2. QED
    BY <1>2, <1>3, <1>4, <2>1
<1>6. Kept(<<>>, S) = <<>>
  <2>1. <<>> \in Seq(T)
    OBVIOUS
  <2>2. Kept(<<>>, S) = Fold(Seq(T), F, e, <<>>)
    BY <1>3, <2>1
  <2>3. Fold(Seq(T), F, e, <<>>) = e
    BY <1>4
  <2>4. QED
    BY <2>2, <2>3 DEF e
<1>7. QED
  BY <1>3, <1>4, <1>5, <1>6

\* Kept keeps the elements that are in S.
LEMMA KeptElements ==
    ASSUME NEW T, NEW S
    PROVE  \A s \in Seq(T) : ToSet(Kept(s, S)) = ToSet(s) \cap S
<1> DEFINE P == {s \in Seq(T) : ToSet(Kept(s, S)) = ToSet(s) \cap S}
<1> HIDE DEF P
<1>1. /\ \A s \in Seq(T) : Kept(s, S) \in Seq(T)
      /\ \A s \in Seq(T), x \in T :
            Kept(Append(s, x), S) = IF x \in S THEN Append(Kept(s, S), x) ELSE Kept(s, S)
  BY KeptLaws
<1>2. <<>> \in P
  BY KeptLaws, ToSetLaws DEF P
<1>3. ASSUME NEW s \in Seq(T), NEW x \in T, s \in P PROVE Append(s, x) \in P
  <2>1. Kept(s, S) \in Seq(T) /\ Append(s, x) \in Seq(T)
    BY <1>1
  <2>2. Kept(Append(s, x), S) = IF x \in S THEN Append(Kept(s, S), x) ELSE Kept(s, S)
    BY <1>1
  <2>3. ToSet(Append(s, x)) = ToSet(s) \cup {x}
    BY ToSetLaws
  <2>4. ToSet(Append(Kept(s, S), x)) = ToSet(Kept(s, S)) \cup {x}
    BY <2>1, ToSetLaws
  <2>5. QED
    BY <1>3, <2>1, <2>2, <2>3, <2>4 DEF P
<1>4. Seq(T) \subseteq P
  BY <1>2, <1>3, SeqInduction
<1>5. QED
  BY <1>4 DEF P

\* Kept is shorter by what it drops.
LEMMA KeptLength ==
    ASSUME NEW T, NEW S
    PROVE  \A s \in Seq(T) :
              /\ Len(Kept(s, S)) <= Len(s)
              /\ ~ ToSet(s) \subseteq S => Len(Kept(s, S)) < Len(s)
<1> DEFINE P == {s \in Seq(T) : /\ Len(Kept(s, S)) <= Len(s)
                                /\ ~ ToSet(s) \subseteq S => Len(Kept(s, S)) < Len(s)}
<1> HIDE DEF P
<1>1. /\ \A s \in Seq(T) : Kept(s, S) \in Seq(T)
      /\ \A s \in Seq(T), x \in T :
            Kept(Append(s, x), S) = IF x \in S THEN Append(Kept(s, S), x) ELSE Kept(s, S)
  BY KeptLaws
<1>2. <<>> \in P
  BY KeptLaws, ToSetLaws DEF P
<1>3. ASSUME NEW s \in Seq(T), NEW x \in T, s \in P PROVE Append(s, x) \in P
  <2>1. Kept(s, S) \in Seq(T) /\ Append(s, x) \in Seq(T)
    BY <1>1
  <2>2. Kept(Append(s, x), S) = IF x \in S THEN Append(Kept(s, S), x) ELSE Kept(s, S)
    BY <1>1
  <2>3. ToSet(Append(s, x)) = ToSet(s) \cup {x}
    BY ToSetLaws
  <2>4. Len(Append(s, x)) = Len(s) + 1
        /\ Len(Append(Kept(s, S), x)) = Len(Kept(s, S)) + 1
        /\ Len(s) \in Nat /\ Len(Kept(s, S)) \in Nat
    BY <2>1
  <2>5. CASE x \in S
    BY <1>3, <2>1, <2>2, <2>3, <2>4, <2>5 DEF P
  <2>6. CASE x \notin S
    BY <1>3, <2>1, <2>2, <2>3, <2>4, <2>6 DEF P
  <2>7. QED
    BY <2>5, <2>6
<1>4. Seq(T) \subseteq P
  BY <1>2, <1>3, SeqInduction
<1>5. QED
  BY <1>4 DEF P

\* No two pages of a sequence have one key.
Distinct(s) == \A i, j \in DOMAIN s : s[i].key = s[j].key => i = j

\* A page more leaves the keys distinct when its own is a new one.
LEMMA DistinctLaws ==
    ASSUME NEW T, NEW s \in Seq(T), NEW x \in T
    PROVE  Distinct(Append(s, x)) <=> Distinct(s) /\ \A y \in ToSet(s) : y.key # x.key
<1> DEFINE a == Append(s, x)
<1>1. /\ Len(s) \in Nat /\ DOMAIN s = 1 .. Len(s) /\ DOMAIN a = 1 .. Len(s) + 1
      /\ a[Len(s) + 1] = x /\ \A i \in DOMAIN s : a[i] = s[i]
  OBVIOUS
<1> HIDE DEF a
<1>2. DOMAIN a = DOMAIN s \cup {Len(s) + 1} /\ Len(s) + 1 \notin DOMAIN s
  BY <1>1
<1>3. Distinct(a) => Distinct(s) /\ \A y \in ToSet(s) : y.key # x.key
  BY <1>1, <1>2 DEF Distinct, ToSet
<1>4. Distinct(s) /\ (\A y \in ToSet(s) : y.key # x.key) => Distinct(a)
  BY <1>1, <1>2 DEF Distinct, ToSet
<1>5. QED
  BY <1>3, <1>4 DEF a

\* The pages kept have distinct keys when they all had.
LEMMA KeptDistinct ==
    ASSUME NEW T, NEW S
    PROVE  \A s \in Seq(T) : Distinct(s) => Distinct(Kept(s, S))
<1> DEFINE P == {s \in Seq(T) : Distinct(s) => Distinct(Kept(s, S))}
<1> HIDE DEF P
<1>1. /\ \A s \in Seq(T) : Kept(s, S) \in Seq(T)
      /\ \A s \in Seq(T), x \in T :
            Kept(Append(s, x), S) = IF x \in S THEN Append(Kept(s, S), x) ELSE Kept(s, S)
  BY KeptLaws
<1>2. <<>> \in P
  BY KeptLaws DEF Distinct, P
<1>3. ASSUME NEW s \in Seq(T), NEW x \in T, s \in P PROVE Append(s, x) \in P
  <2>1. Kept(s, S) \in Seq(T) /\ Append(s, x) \in Seq(T)
    BY <1>1
  <2>2. Kept(Append(s, x), S) = IF x \in S THEN Append(Kept(s, S), x) ELSE Kept(s, S)
    BY <1>1
  <2>3. Distinct(Append(s, x)) <=> Distinct(s) /\ \A y \in ToSet(s) : y.key # x.key
    BY DistinctLaws
  <2>4. Distinct(Append(Kept(s, S), x))
        <=> Distinct(Kept(s, S)) /\ \A y \in ToSet(Kept(s, S)) : y.key # x.key
    BY <2>1, DistinctLaws
  <2>5. ToSet(Kept(s, S)) \subseteq ToSet(s)
    BY KeptElements
  <2>6. QED
    BY <1>3, <2>1, <2>2, <2>3, <2>4, <2>5 DEF P
<1>4. Seq(T) \subseteq P
  BY <1>2, <1>3, SeqInduction
<1>5. QED
  BY <1>4 DEF P

\* Only the elements of the sequence count.
LEMMA KeptLocal ==
    ASSUME NEW T, NEW S, NEW R
    PROVE  \A s \in Seq(T) :
              ToSet(s) \cap S = ToSet(s) \cap R => Kept(s, S) = Kept(s, R)
<1> DEFINE P == {s \in Seq(T) :
                    ToSet(s) \cap S = ToSet(s) \cap R => Kept(s, S) = Kept(s, R)}
<1> HIDE DEF P
<1>1. \A s \in Seq(T), x \in T :
            Kept(Append(s, x), S) = IF x \in S THEN Append(Kept(s, S), x) ELSE Kept(s, S)
  BY KeptLaws
<1>2. \A s \in Seq(T), x \in T :
            Kept(Append(s, x), R) = IF x \in R THEN Append(Kept(s, R), x) ELSE Kept(s, R)
  BY KeptLaws
<1>3. <<>> \in P
  BY KeptLaws DEF P
<1>4. ASSUME NEW s \in Seq(T), NEW x \in T, s \in P PROVE Append(s, x) \in P
  <2>1. Append(s, x) \in Seq(T)
    OBVIOUS
  <2>2. Kept(Append(s, x), S) = IF x \in S THEN Append(Kept(s, S), x) ELSE Kept(s, S)
    BY <1>1
  <2>3. Kept(Append(s, x), R) = IF x \in R THEN Append(Kept(s, R), x) ELSE Kept(s, R)
    BY <1>2
  <2>4. ToSet(Append(s, x)) = ToSet(s) \cup {x}
    BY ToSetLaws
  <2>5. SUFFICES ASSUME ToSet(Append(s, x)) \cap S = ToSet(Append(s, x)) \cap R
                 PROVE  Kept(Append(s, x), S) = Kept(Append(s, x), R)
    BY <2>1 DEF P
  <2>6. ToSet(s) \cap S = ToSet(s) \cap R /\ (x \in S <=> x \in R)
    BY <2>4, <2>5
  <2>7. QED
    BY <1>4, <2>2, <2>3, <2>6 DEF P
<1>5. Seq(T) \subseteq P
  BY <1>3, <1>4, SeqInduction
<1>6. QED
  BY <1>5 DEF P

-----------------------------------------------------------------------------
\* The pages of the cache.

PagesOK(s) == s \in Seq(SearchPage) /\ Len(s) <= MAX_PAGES /\ Distinct(s)

\* Live keeps the pages that have not expired, in a cache that is as it should be.
LEMMA LiveLaws ==
    ASSUME PagesOK(cache.pages)
    PROVE  /\ PagesOK(Live)
           /\ ToSet(Live) = {page \in ToSet(cache.pages) : page.until > now}
<1> DEFINE s == cache.pages
           S == {page \in ToSet(s) : page.until > now}
<1>1. s \in Seq(SearchPage) /\ Len(s) <= MAX_PAGES /\ Distinct(s) /\ Live = Kept(s, S)
  BY DEF PagesOK, Live
<1>2. S \subseteq ToSet(s)
  OBVIOUS
<1> HIDE DEF s, S
<1>3. Kept(s, S) \in Seq(SearchPage)
  BY <1>1, KeptLaws
<1>4. Len(Kept(s, S)) <= Len(s)
  BY <1>1, KeptLength
<1>5. Distinct(Kept(s, S))
  BY <1>1, KeptDistinct
<1>6. ToSet(Kept(s, S)) = S
  <2>1. ToSet(Kept(s, S)) = ToSet(s) \cap S
    BY <1>1, KeptElements
  <2>2. QED
    BY <1>2, <2>1
<1>7. Len(Kept(s, S)) \in Nat /\ Len(s) \in Nat /\ MAX_PAGES \in Nat
  BY <1>1, <1>3, PeriodAssumption
<1>8. PagesOK(Kept(s, S))
  BY <1>1, <1>3, <1>4, <1>5, <1>7 DEF PagesOK
<1>9. QED
  BY <1>1, <1>6, <1>8 DEF s, S

\* At most one page answers a search.
LEMMA HitsLaws ==
    ASSUME PagesOK(cache.pages), NEW key
    PROVE  /\ Hits(key) = {} \/ \E h \in ToSet(Live) : h.key = key /\ Hits(key) = {h}
           /\ Hits(key) \subseteq ToSet(Live)
<1>1. Distinct(Live)
  BY LiveLaws DEF PagesOK
<1>2. \A a, b \in ToSet(Live) : a.key = b.key => a = b
  BY <1>1 DEF Distinct, ToSet
<1>3. QED
  BY <1>2 DEF Hits

\* _get moves the page asked for, and loses no page that has not expired.
LEMMA GetLaws ==
    ASSUME PagesOK(cache.pages), NEW key
    PROVE  PagesOK(Get(key)) /\ ToSet(Get(key)) = ToSet(Live)
<1> DEFINE s == Live
           S == {page \in ToSet(s) : page.key # key}
<1>1. s \in Seq(SearchPage) /\ Len(s) <= MAX_PAGES /\ Distinct(s)
      /\ Get(key) = Kept(s, S) \o SetToSeq(Hits(key))
  BY LiveLaws DEF PagesOK, Get
<1>2. S \subseteq ToSet(s) /\ \A page \in ToSet(s) : page \in S <=> page.key # key
  OBVIOUS
<1>3. Hits(key) = {} \/ \E h \in ToSet(s) : h.key = key /\ Hits(key) = {h}
  BY HitsLaws
<1>4. Hits(key) = {page \in ToSet(s) : page.key = key}
  BY DEF Hits
<1> HIDE DEF s, S
<1>5. Kept(s, S) \in Seq(SearchPage)
  BY <1>1, KeptLaws
<1>6. Len(Kept(s, S)) <= Len(s) /\ (~ ToSet(s) \subseteq S => Len(Kept(s, S)) < Len(s))
  BY <1>1, KeptLength
<1>7. Distinct(Kept(s, S))
  BY <1>1, KeptDistinct
<1>8. ToSet(Kept(s, S)) = S
  <2>1. ToSet(Kept(s, S)) = ToSet(s) \cap S
    BY <1>1, KeptElements
  <2>2. QED
    BY <1>2, <2>1
<1>9. Len(Kept(s, S)) \in Nat /\ Len(s) \in Nat /\ MAX_PAGES \in Nat
  BY <1>1, <1>5, PeriodAssumption
<1>10. CASE Hits(key) = {}
  <2>1. Get(key) = Kept(s, S)
    BY <1>1, <1>5, <1>10, SetToSeqLaws
  <2>2. ToSet(Get(key)) = ToSet(s)
    BY <1>2, <1>8, <1>10, <1>4, <2>1
  <2>3. PagesOK(Get(key))
    BY <1>1, <1>5, <1>6, <1>7, <1>9, <2>1 DEF PagesOK
  <2>4. QED
    BY <2>2, <2>3 DEF s
<1>11. CASE Hits(key) # {}
  <2>1. PICK h \in ToSet(s) : h.key = key /\ Hits(key) = {h}
    BY <1>3, <1>11
  <2>2. h \in SearchPage
    BY <1>1, ToSetLaws
  <2>3. Get(key) = Append(Kept(s, S), h)
    <3>1. SetToSeq(Hits(key)) = <<h>>
      BY <2>1, SetToSeqLaws
    <3>2. QED
      BY <1>1, <1>5, <2>2, <3>1
  <2>4. ToSet(Get(key)) = ToSet(s)
    <3>1. ToSet(Get(key)) = S \cup {h}
      BY <1>5, <1>8, <2>2, <2>3, ToSetLaws
    <3>2. QED
      BY <1>2, <1>4, <2>1, <3>1
  <2>5. Get(key) \in Seq(SearchPage) /\ Len(Get(key)) <= MAX_PAGES
    <3>1. Len(Kept(s, S)) < Len(s)
      BY <1>2, <1>6, <2>1
    <3>2. Append(Kept(s, S), h) \in Seq(SearchPage)
          /\ Len(Append(Kept(s, S), h)) = Len(Kept(s, S)) + 1
      BY <1>5, <2>2
    <3>3. QED
      BY <1>1, <1>9, <2>3, <3>1, <3>2
  <2>6. Distinct(Get(key))
    BY <1>2, <1>5, <1>7, <1>8, <2>1, <2>2, <2>3, DistinctLaws
  <2>7. QED
    BY <2>4, <2>5, <2>6 DEF PagesOK, s
<1>12. QED
  BY <1>10, <1>11

\* The store adds no page but the new one, and keeps within MAX_PAGES and one to a key.
LEMMA StoreLaws ==
    ASSUME PagesOK(cache.pages), NEW page \in SearchPage
    PROVE  PagesOK(Store(page)) /\ ToSet(Store(page)) \subseteq ToSet(cache.pages) \cup {page}
<1> DEFINE s == cache.pages
           pages == IF \E q \in ToSet(s) : q.key = page.key
                    THEN [i \in DOMAIN s |-> IF s[i].key = page.key THEN page ELSE s[i]]
                    ELSE Append(s, page)
           excess == IF Len(pages) > MAX_PAGES THEN Len(pages) - MAX_PAGES ELSE 0
<1>1. s \in Seq(SearchPage) /\ Len(s) <= MAX_PAGES /\ Distinct(s) /\ MAX_PAGES \in Nat
  BY PeriodAssumption DEF PagesOK
<1>2. Store(page) = SubSeq(pages, excess + 1, Len(pages))
  BY DEF Store
<1> HIDE DEF s
<1>3. /\ pages \in Seq(SearchPage)
      /\ Distinct(pages)
      /\ ToSet(pages) \subseteq ToSet(s) \cup {page}
  <2>1. CASE \E q \in ToSet(s) : q.key = page.key
    <3> DEFINE replaced == [i \in DOMAIN s |-> IF s[i].key = page.key THEN page ELSE s[i]]
    <3>1. pages = replaced
      BY <2>1
    <3>2. /\ replaced \in Seq(SearchPage) /\ DOMAIN replaced = DOMAIN s
          /\ \A i \in DOMAIN s : replaced[i].key = s[i].key
          /\ \A i \in DOMAIN s : replaced[i] \in {s[i], page}
      BY <1>1
    <3> HIDE DEF replaced, pages
    <3>3. Distinct(replaced)
      BY <1>1, <3>2 DEF Distinct
    <3>4. ToSet(replaced) \subseteq ToSet(s) \cup {page}
      BY <3>2 DEF ToSet
    <3>5. QED
      BY <3>1, <3>2, <3>3, <3>4
  <2>2. CASE \A q \in ToSet(s) : q.key # page.key
    <3>1. pages = Append(s, page)
      BY <2>2
    <3> HIDE DEF pages
    <3>2. Append(s, page) \in Seq(SearchPage)
      BY <1>1
    <3>3. Distinct(Append(s, page))
      BY <1>1, <2>2, DistinctLaws
    <3>4. ToSet(Append(s, page)) = ToSet(s) \cup {page}
      BY <1>1, ToSetLaws
    <3>5. QED
      BY <3>1, <3>2, <3>3, <3>4
  <2>3. QED
    BY <2>1, <2>2
<1> HIDE DEF pages
<1>4. Len(pages) \in Nat /\ excess \in 0 .. Len(pages) /\ Len(pages) - excess <= MAX_PAGES
  BY <1>1, <1>3
<1> HIDE DEF excess
<1> DEFINE kept == SubSeq(pages, excess + 1, Len(pages))
<1>5. /\ kept \in Seq(SearchPage) /\ Len(kept) = Len(pages) - excess
      /\ DOMAIN kept = 1 .. Len(pages) - excess /\ DOMAIN pages = 1 .. Len(pages)
      /\ \A i \in DOMAIN kept : kept[i] = pages[i + excess] /\ i + excess \in DOMAIN pages
  BY <1>3, <1>4
<1> HIDE DEF kept
<1>6. Distinct(kept)
  <2>1. SUFFICES ASSUME NEW i \in DOMAIN kept, NEW j \in DOMAIN kept,
                        kept[i].key = kept[j].key
                 PROVE  i = j
    BY DEF Distinct
  <2>2. i + excess = j + excess
    BY <1>3, <1>5, <2>1 DEF Distinct
  <2>3. QED
    BY <1>4, <1>5, <2>2
<1>7. ToSet(kept) \subseteq ToSet(pages)
  BY <1>5 DEF ToSet
<1>8. PagesOK(kept)
  BY <1>4, <1>5, <1>6 DEF PagesOK
<1>9. QED
  BY <1>2, <1>3, <1>7, <1>8 DEF kept, s

-----------------------------------------------------------------------------
\* The searches of a call, provider by provider.

\* The group of a provider has the searches at it.
LEMMA GroupLaws ==
    ASSUME NEW s \in Seq(SearchRequest), NEW p
    PROVE  /\ Group(s, p) \in Seq(SearchRequest)
           /\ ToSet(Group(s, p)) = {r \in ToSet(s) : r.provider = p}
           /\ Group(s, p) = Kept(s, {r \in SearchRequest : r.provider = p})
<1> DEFINE S == {r \in ToSet(s) : r.provider = p}
           R == {r \in SearchRequest : r.provider = p}
<1>1. Group(s, p) = Kept(s, S)
  BY DEF Group
<1>2. ToSet(s) \subseteq SearchRequest
  BY ToSetLaws
<1>3. ToSet(s) \cap S = ToSet(s) \cap R /\ ToSet(s) \cap S = S
  BY <1>2
<1> HIDE DEF S, R
<1>4. Kept(s, S) \in Seq(SearchRequest)
  BY KeptLaws
<1>5. ToSet(Kept(s, S)) = ToSet(s) \cap S
  BY KeptElements
<1>6. Kept(s, S) = Kept(s, R)
  BY <1>3, KeptLocal
<1>7. QED
  BY <1>1, <1>3, <1>4, <1>5, <1>6 DEF S, R

\* Each search is of one provider.
LEMMA GroupLengths ==
    \A s \in Seq(SearchRequest) :
        Len(Group(s, "himalayas")) + Len(Group(s, "jobicy")) + Len(Group(s, "getonbrd"))
            = Len(s)
<1> DEFINE At(p) == {r \in SearchRequest : r.provider = p}
           H == At("himalayas")
           J == At("jobicy")
           G == At("getonbrd")
           P == {s \in Seq(SearchRequest) :
                    Len(Kept(s, H)) + Len(Kept(s, J)) + Len(Kept(s, G)) = Len(s)}
<1>1. \A r \in SearchRequest :
        \/ r \in H /\ r \notin J /\ r \notin G
        \/ r \notin H /\ r \in J /\ r \notin G
        \/ r \notin H /\ r \notin J /\ r \in G
  BY DEF SearchRequest, Providers
<1>2. \A s \in Seq(SearchRequest) :
        /\ Group(s, "himalayas") = Kept(s, H)
        /\ Group(s, "jobicy") = Kept(s, J)
        /\ Group(s, "getonbrd") = Kept(s, G)
  BY GroupLaws
<1> HIDE DEF H, J, G, P
<1>3. /\ \A s \in Seq(SearchRequest), x \in SearchRequest :
            Kept(Append(s, x), H) = IF x \in H THEN Append(Kept(s, H), x) ELSE Kept(s, H)
      /\ \A s \in Seq(SearchRequest) : Kept(s, H) \in Seq(SearchRequest)
      /\ Kept(<<>>, H) = <<>>
  BY KeptLaws
<1>4. /\ \A s \in Seq(SearchRequest), x \in SearchRequest :
            Kept(Append(s, x), J) = IF x \in J THEN Append(Kept(s, J), x) ELSE Kept(s, J)
      /\ \A s \in Seq(SearchRequest) : Kept(s, J) \in Seq(SearchRequest)
      /\ Kept(<<>>, J) = <<>>
  BY KeptLaws
<1>5. /\ \A s \in Seq(SearchRequest), x \in SearchRequest :
            Kept(Append(s, x), G) = IF x \in G THEN Append(Kept(s, G), x) ELSE Kept(s, G)
      /\ \A s \in Seq(SearchRequest) : Kept(s, G) \in Seq(SearchRequest)
      /\ Kept(<<>>, G) = <<>>
  BY KeptLaws
<1>6. <<>> \in P
  BY <1>3, <1>4, <1>5 DEF P
<1>7. ASSUME NEW s \in Seq(SearchRequest), NEW x \in SearchRequest, s \in P
      PROVE  Append(s, x) \in P
  <2> DEFINE h == Kept(s, H)
             j == Kept(s, J)
             g == Kept(s, G)
  <2>1. /\ h \in Seq(SearchRequest) /\ j \in Seq(SearchRequest) /\ g \in Seq(SearchRequest)
        /\ Len(h) + Len(j) + Len(g) = Len(s)
    BY <1>3, <1>4, <1>5, <1>7 DEF P
  <2>2. /\ Kept(Append(s, x), H) = IF x \in H THEN Append(h, x) ELSE h
        /\ Kept(Append(s, x), J) = IF x \in J THEN Append(j, x) ELSE j
        /\ Kept(Append(s, x), G) = IF x \in G THEN Append(g, x) ELSE g
    BY <1>3, <1>4, <1>5
  <2>3. Kept(s, H) = h /\ Kept(s, J) = j /\ Kept(s, G) = g
    OBVIOUS
  <2> HIDE DEF h, j, g
  <2>4. /\ Len(Append(h, x)) = Len(h) + 1 /\ Len(h) \in Nat
        /\ Len(Append(j, x)) = Len(j) + 1 /\ Len(j) \in Nat
        /\ Len(Append(g, x)) = Len(g) + 1 /\ Len(g) \in Nat
        /\ Len(Append(s, x)) = Len(s) + 1 /\ Len(s) \in Nat
        /\ Append(s, x) \in Seq(SearchRequest)
    BY <2>1
  <2>5. Len(Kept(Append(s, x), H)) + Len(Kept(Append(s, x), J)) + Len(Kept(Append(s, x), G))
           = Len(Append(s, x))
    <3> DEFINE h1 == Kept(Append(s, x), H)
               j1 == Kept(Append(s, x), J)
               g1 == Kept(Append(s, x), G)
    <3>1. /\ Len(h1) = IF x \in H THEN Len(h) + 1 ELSE Len(h)
          /\ Len(j1) = IF x \in J THEN Len(j) + 1 ELSE Len(j)
          /\ Len(g1) = IF x \in G THEN Len(g) + 1 ELSE Len(g)
      BY <2>2, <2>4
    <3>2. /\ Len(h) \in Nat /\ Len(j) \in Nat /\ Len(g) \in Nat
          /\ Len(h) + Len(j) + Len(g) = Len(s)
          /\ Len(Append(s, x)) = Len(s) + 1
      BY <2>1, <2>4
    <3> HIDE DEF h1, j1, g1
    <3>3. CASE x \in H /\ x \notin J /\ x \notin G
      <4>1. Len(h1) = Len(h) + 1 /\ Len(j1) = Len(j) /\ Len(g1) = Len(g)
        BY <3>1, <3>3
      <4>2. Len(h1) + Len(j1) + Len(g1) = Len(Append(s, x))
        BY <3>2, <4>1
      <4>3. QED
        BY <4>2 DEF h1, j1, g1
    <3>4. CASE x \notin H /\ x \in J /\ x \notin G
      <4>1. Len(h1) = Len(h) /\ Len(j1) = Len(j) + 1 /\ Len(g1) = Len(g)
        BY <3>1, <3>4
      <4>2. Len(h1) + Len(j1) + Len(g1) = Len(Append(s, x))
        BY <3>2, <4>1
      <4>3. QED
        BY <4>2 DEF h1, j1, g1
    <3>5. CASE x \notin H /\ x \notin J /\ x \in G
      <4>1. Len(h1) = Len(h) /\ Len(j1) = Len(j) /\ Len(g1) = Len(g) + 1
        BY <3>1, <3>5
      <4>2. Len(h1) + Len(j1) + Len(g1) = Len(Append(s, x))
        BY <3>2, <4>1
      <4>3. QED
        BY <4>2 DEF h1, j1, g1
    <3>6. QED
      BY <1>1, <3>3, <3>4, <3>5
  <2>6. QED
    BY <2>4, <2>5 DEF P
<1>8. Seq(SearchRequest) \subseteq P
  BY <1>6, <1>7, SeqInduction
<1>9. QED
  BY <1>2, <1>8 DEF P

\* Contains tells whether an element is in a sequence.
LEMMA ContainsLaw ==
    ASSUME NEW T, NEW s \in Seq(T), NEW x
    PROVE  Contains(s, x) <=> x \in ToSet(s)
<1>1. DOMAIN s = 1 .. Len(s)
  OBVIOUS
<1>2. QED
  BY <1>1 DEF Contains, ToSet

\* ProviderOrder, from left to right: a provider not yet seen is appended.
LEMMA ProviderOrderLaws ==
    /\ ProviderOrder(<<>>) = <<>>
    /\ \A s \in Seq(SearchRequest) : ProviderOrder(s) \in Seq(Providers)
    /\ \A s \in Seq(SearchRequest), r \in SearchRequest :
          ProviderOrder(Append(s, r)) =
             IF Contains(ProviderOrder(s), r.provider) THEN ProviderOrder(s)
             ELSE Append(ProviderOrder(s), r.provider)
<1> DEFINE T == SearchRequest
           V == Seq(Providers)
           F == [p \in V \X T |-> IF Contains(p[1], p[2].provider) THEN p[1]
                                  ELSE Append(p[1], p[2].provider)]
           e == <<>>
<1>1. \A r \in T : r.provider \in Providers
  BY DEF SearchRequest
<1>2. Folds(V, T, e, F)
  <2> HIDE DEF T
  <2> QED
    BY <1>1 DEF Folds
<1>3. \A k \in V, x \in T :
        F[<<k, x>>] = IF Contains(k, x.provider) THEN k ELSE Append(k, x.provider)
  <2> HIDE DEF T, V
  <2> QED
    OBVIOUS
<1> HIDE DEF F, V, T, e
<1>4. ASSUME NEW s \in Seq(T) PROVE ProviderOrder(s) = Fold(V, F, e, s)
  <2> DEFINE Step(g, d) ==
               IF d = {} THEN e
               ELSE IF Contains(g[d \ {Max(d)}], s[Max(d)].provider)
                    THEN g[d \ {Max(d)}]
                    ELSE Append(g[d \ {Max(d)}], s[Max(d)].provider)
             iter == CHOOSE g : g = [d \in SUBSET DOMAIN s |-> Step(g, d)]
  <2>1. ProviderOrder(s) = iter[DOMAIN s]
    BY DEF ProviderOrder, FoldLeft, MapThenFoldSet, e
  <2>2. FoldType(V, T, e, F, s)
    BY <1>2 DEF FoldType
  <2>3. PICK f : IsFold(f, V, F, e, s)
    BY <2>2, FoldExists
  <2>4. /\ f \in [SUBSET DOMAIN s -> V]
        /\ f[{}] = e
        /\ \A d \in SUBSET DOMAIN s :
              d # {} => f[d] = F[<<f[d \ {Max(d)}], s[Max(d)]>>]
    BY <2>3 DEF IsFold
  <2>5. ASSUME NEW d \in SUBSET DOMAIN s, d # {}
        PROVE  d \ {Max(d)} \in SUBSET DOMAIN s /\ s[Max(d)] \in T
    BY <2>5, GreatestInSequence
  <2>6. f = [d \in SUBSET DOMAIN s |-> Step(f, d)]
    BY <1>3, <2>4, <2>5
  <2>7. iter = [d \in SUBSET DOMAIN s |-> Step(iter, d)]
    BY <2>6
  <2> HIDE DEF iter
  <2>8. Computes(iter, V, F, e, s)
    BY <1>3, <2>5, <2>7 DEF Computes
  <2>9. QED
    BY <2>1, <2>2, <2>8, FoldIs
<1>5. /\ Fold(V, F, e, <<>>) = e
      /\ \A s \in Seq(T) : Fold(V, F, e, s) \in V
      /\ \A s \in Seq(T), x \in T :
            Fold(V, F, e, Append(s, x)) = F[<<Fold(V, F, e, s), x>>]
  BY <1>2, FoldLaws
<1>6. ASSUME NEW s \in Seq(T), NEW r \in T
      PROVE  ProviderOrder(Append(s, r)) =
                IF Contains(ProviderOrder(s), r.provider) THEN ProviderOrder(s)
                ELSE Append(ProviderOrder(s), r.provider)
  <2>1. Append(s, r) \in Seq(T)
    OBVIOUS
  <2>2. QED
    BY <1>3, <1>4, <1>5, <2>1
<1>7. ProviderOrder(<<>>) = <<>>
  <2>1. <<>> \in Seq(T)
    OBVIOUS
  <2>2. ProviderOrder(<<>>) = Fold(V, F, e, <<>>)
    BY <1>4, <2>1
  <2>3. Fold(V, F, e, <<>>) = e
    BY <1>5
  <2>4. QED
    BY <2>2, <2>3 DEF e
<1>8. \A s \in Seq(T) : ProviderOrder(s) \in V
  BY <1>4, <1>5
<1>9. QED
  BY <1>6, <1>7, <1>8 DEF T, V

\* The providers in order are those of the searches, each of them once.
LEMMA ProviderOrderIs ==
    \A s \in Seq(SearchRequest) :
        /\ ToSet(ProviderOrder(s)) = {r.provider : r \in ToSet(s)}
        /\ IsInjective(ProviderOrder(s))
<1> DEFINE P == {s \in Seq(SearchRequest) :
                    /\ ToSet(ProviderOrder(s)) = {r.provider : r \in ToSet(s)}
                    /\ IsInjective(ProviderOrder(s))}
<1> HIDE DEF P
<1>1. <<>> \in P
  BY ProviderOrderLaws, ToSetLaws DEF P, IsInjective
<1>2. ASSUME NEW s \in Seq(SearchRequest), NEW r \in SearchRequest, s \in P
      PROVE  Append(s, r) \in P
  <2> DEFINE o == ProviderOrder(s)
             a == Append(o, r.provider)
  <2>1. /\ o \in Seq(Providers)
        /\ ProviderOrder(Append(s, r)) =
              IF Contains(o, r.provider) THEN o ELSE a
        /\ Append(s, r) \in Seq(SearchRequest)
    BY ProviderOrderLaws
  <2>2. ToSet(o) = {q.provider : q \in ToSet(s)} /\ IsInjective(o)
    BY <1>2 DEF P
  <2>3. Contains(o, r.provider) <=> r.provider \in ToSet(o)
    BY <2>1, ContainsLaw
  <2>4. ToSet(Append(s, r)) = ToSet(s) \cup {r}
    BY ToSetLaws
  <2>5. r.provider \in Providers
    BY DEF SearchRequest
  <2> HIDE DEF o, a
  <2>6. CASE r.provider \in ToSet(o)
    BY <2>1, <2>2, <2>3, <2>4, <2>6 DEF P
  <2>7. CASE r.provider \notin ToSet(o)
    <3>1. ToSet(a) = ToSet(o) \cup {r.provider}
      BY <2>1, <2>5, ToSetLaws DEF a
    <3>2. IsInjective(a)
      <4>1. /\ Len(o) \in Nat /\ DOMAIN o = 1 .. Len(o)
            /\ DOMAIN a = 1 .. Len(o) + 1 /\ a[Len(o) + 1] = r.provider
            /\ \A i \in DOMAIN o : a[i] = o[i]
        BY <2>1, <2>5 DEF a
      <4>2. \A i \in DOMAIN o : o[i] # r.provider
        BY <2>7 DEF ToSet
      <4>3. DOMAIN a = DOMAIN o \cup {Len(o) + 1}
        BY <4>1
      <4>4. QED
        BY <2>2, <4>1, <4>2, <4>3 DEF IsInjective
    <3>3. QED
      BY <2>1, <2>2, <2>3, <2>4, <2>7, <3>1, <3>2 DEF P
  <2>8. QED
    BY <2>6, <2>7
<1>3. Seq(SearchRequest) \subseteq P
  BY <1>1, <1>2, SeqInduction
<1>4. QED
  BY <1>3 DEF P

\* There are three providers: what they count together is what those in order count.
LEMMA ProvidersAddUp ==
    ASSUME NEW L \in [Providers -> Nat], NEW o \in Seq(Providers), IsInjective(o),
           \A p \in Providers : p \notin ToSet(o) => L[p] = 0
    PROVE  LET total == L["himalayas"] + L["jobicy"] + L["getonbrd"] IN
           \/ Len(o) = 0 /\ total = 0
           \/ Len(o) = 1 /\ total = L[o[1]]
           \/ Len(o) = 2 /\ total = L[o[1]] + L[o[2]]
           \/ Len(o) = 3 /\ total = L[o[1]] + L[o[2]] + L[o[3]]
<1> DEFINE n == Len(o)
           h == L["himalayas"]
           j == L["jobicy"]
           g == L["getonbrd"]
<1>1. n \in Nat /\ DOMAIN o = 1 .. n /\ \A i \in 1 .. n : o[i] \in Providers
  OBVIOUS
<1>2. \A i, k \in 1 .. n : o[i] = o[k] => i = k
  BY <1>1 DEF IsInjective
<1>3. \A p \in Providers : (\A i \in 1 .. n : o[i] # p) => L[p] = 0
  BY <1>1 DEF ToSet
<1>4. h \in Nat /\ j \in Nat /\ g \in Nat
  BY DEF Providers
<1>5. \A i \in 1 .. n :
        \/ o[i] = "himalayas" /\ L[o[i]] = h
        \/ o[i] = "jobicy" /\ L[o[i]] = j
        \/ o[i] = "getonbrd" /\ L[o[i]] = g
  BY <1>1 DEF Providers
<1>6. /\ (\A i \in 1 .. n : o[i] # "himalayas") => h = 0
      /\ (\A i \in 1 .. n : o[i] # "jobicy") => j = 0
      /\ (\A i \in 1 .. n : o[i] # "getonbrd") => g = 0
  BY <1>3 DEF Providers
<1> HIDE DEF n, h, j, g
<1>7. n <= 3
  <2>1. SUFFICES ASSUME n > 3 PROVE FALSE
    BY <1>1
  <2>2. 1 \in 1 .. n /\ 2 \in 1 .. n /\ 3 \in 1 .. n /\ 4 \in 1 .. n
    BY <1>1, <2>1
  <2>3. /\ o[1] # o[2] /\ o[1] # o[3] /\ o[1] # o[4]
        /\ o[2] # o[3] /\ o[2] # o[4] /\ o[3] # o[4]
    BY <1>2, <2>2
  <2>4. QED
    BY <1>5, <2>2, <2>3
<1>8. CASE n = 0
  <2>1. h = 0 /\ j = 0 /\ g = 0
    BY <1>6, <1>8
  <2>2. QED
    BY <1>8, <2>1 DEF n, h, j, g
<1>9. CASE n = 1
  <2>1. 1 \in 1 .. n /\ \A i \in 1 .. n : i = 1
    BY <1>9
  <2>2. h + j + g = L[o[1]]
    BY <1>4, <1>5, <1>6, <2>1
  <2>3. QED
    BY <1>9, <2>2 DEF n, h, j, g
<1>10. CASE n = 2
  <2>1. 1 \in 1 .. n /\ 2 \in 1 .. n /\ \A i \in 1 .. n : i = 1 \/ i = 2
    BY <1>10
  <2>2. o[1] # o[2]
    BY <1>2, <2>1
  <2> DEFINE a == o[1]  b == o[2]  x == L[a]  y == L[b]
  <2>3. /\ \/ a = "himalayas" /\ x = h
           \/ a = "jobicy" /\ x = j
           \/ a = "getonbrd" /\ x = g
        /\ \/ b = "himalayas" /\ y = h
           \/ b = "jobicy" /\ y = j
           \/ b = "getonbrd" /\ y = g
    BY <1>5, <2>1
  <2>4. /\ a # "himalayas" /\ b # "himalayas" => h = 0
        /\ a # "jobicy" /\ b # "jobicy" => j = 0
        /\ a # "getonbrd" /\ b # "getonbrd" => g = 0
    BY <1>6, <2>1
  <2> HIDE DEF a, b, x, y
  <2>5. a # b
    BY <2>2 DEF a, b
  <2>6. h + j + g = x + y
    BY <1>4, <2>3, <2>4, <2>5
  <2>7. QED
    BY <1>10, <2>6 DEF n, h, j, g, a, b, x, y
<1>11. CASE n = 3
  <2>1. 1 \in 1 .. n /\ 2 \in 1 .. n /\ 3 \in 1 .. n
    BY <1>11
  <2>2. o[1] # o[2] /\ o[1] # o[3] /\ o[2] # o[3]
    BY <1>2, <2>1
  <2> DEFINE a == o[1]  b == o[2]  c == o[3]  x == L[a]  y == L[b]  z == L[c]
  <2>3. /\ \/ a = "himalayas" /\ x = h
           \/ a = "jobicy" /\ x = j
           \/ a = "getonbrd" /\ x = g
        /\ \/ b = "himalayas" /\ y = h
           \/ b = "jobicy" /\ y = j
           \/ b = "getonbrd" /\ y = g
        /\ \/ c = "himalayas" /\ z = h
           \/ c = "jobicy" /\ z = j
           \/ c = "getonbrd" /\ z = g
    BY <1>5, <2>1
  <2> HIDE DEF a, b, c, x, y, z
  <2>4. a # b /\ a # c /\ b # c
    BY <2>2 DEF a, b, c
  <2>5. h + j + g = x + y + z
    BY <1>4, <2>3, <2>4
  <2>6. QED
    BY <1>11, <2>5 DEF n, h, j, g, a, b, c, x, y, z
<1>12. n = 0 \/ n = 1 \/ n = 2 \/ n = 3
  BY <1>1, <1>7
<1>13. QED
  BY <1>8, <1>9, <1>10, <1>11, <1>12

\* The elements of two sequences, one after the other.
LEMMA ConcatLaws ==
    ASSUME NEW T, NEW s \in Seq(T), NEW t \in Seq(T)
    PROVE  /\ s \o t \in Seq(T)
           /\ Len(s \o t) = Len(s) + Len(t)
           /\ ToSet(s \o t) = ToSet(s) \cup ToSet(t)
<1> DEFINE u == s \o t
<1>1. /\ u \in Seq(T) /\ Len(u) = Len(s) + Len(t)
      /\ Len(s) \in Nat /\ Len(t) \in Nat
      /\ DOMAIN u = 1 .. Len(s) + Len(t) /\ DOMAIN s = 1 .. Len(s) /\ DOMAIN t = 1 .. Len(t)
      /\ \A i \in 1 .. Len(s) : u[i] = s[i]
      /\ \A i \in 1 .. Len(t) : u[i + Len(s)] = t[i]
  OBVIOUS
<1> HIDE DEF u
<1>2. ToSet(s) \subseteq ToSet(u)
  <2>1. \A i \in 1 .. Len(s) : i \in DOMAIN u
    BY <1>1
  <2>2. QED
    BY <1>1, <2>1 DEF ToSet
<1>3. ToSet(t) \subseteq ToSet(u)
  <2>1. \A i \in 1 .. Len(t) : i + Len(s) \in DOMAIN u
    BY <1>1
  <2>2. QED
    BY <1>1, <2>1 DEF ToSet
<1>4. ToSet(u) \subseteq ToSet(s) \cup ToSet(t)
  <2>1. ASSUME NEW i \in DOMAIN u, i \notin DOMAIN s
        PROVE  i - Len(s) \in DOMAIN t /\ u[i] = t[i - Len(s)]
    <3>1. i - Len(s) \in 1 .. Len(t) /\ (i - Len(s)) + Len(s) = i
      BY <1>1, <2>1
    <3>2. QED
      BY <1>1, <3>1
  <2>2. QED
    BY <1>1, <2>1 DEF ToSet
<1>5. QED
  BY <1>1, <1>2, <1>3, <1>4 DEF u

\* FlattenSeq of up to three sequences puts one after the other.
LEMMA FlattenLaws ==
    ASSUME NEW T, NEW q \in Seq(Seq(T))
    PROVE  /\ Len(q) = 0 => FlattenSeq(q) = <<>>
           /\ Len(q) = 1 => FlattenSeq(q) = q[1]
           /\ Len(q) = 2 => FlattenSeq(q) = q[1] \o q[2]
           /\ Len(q) = 3 => FlattenSeq(q) = (q[1] \o q[2]) \o q[3]
<1> DEFINE n == Len(q)
           Step(f, i) == IF i = 1 THEN q[i] ELSE f[i - 1] \o q[i]
           flatten == CHOOSE f : f = [i \in 1 .. n |-> Step(f, i)]
           a == q[1]
           b == q[1] \o q[2]
           c == (q[1] \o q[2]) \o q[3]
           g == [i \in 1 .. n |-> IF i = 1 THEN a ELSE IF i = 2 THEN b ELSE c]
<1>1. Len(q) = 0 => q = <<>>
  OBVIOUS
<1>2. FlattenSeq(q) = IF n = 0 THEN q ELSE flatten[n]
  BY DEF FlattenSeq
<1> HIDE DEF n
<1>3. ASSUME n \in 1 .. 3 PROVE flatten = [i \in 1 .. n |-> Step(flatten, i)]
  <2>1. \A i \in 1 .. n : i = 1 \/ i = 2 \/ i = 3
    BY <1>3
  <2> HIDE DEF a, b, c
  <2>2. /\ 1 \in 1 .. n => g[1] = a
        /\ 2 \in 1 .. n => g[2] = b
        /\ 3 \in 1 .. n => g[3] = c
    OBVIOUS
  <2>3. DOMAIN g = 1 .. n /\ g = [i \in 1 .. n |-> g[i]]
    OBVIOUS
  <2> HIDE DEF g
  <2>4. \A i \in 1 .. n : g[i] = Step(g, i)
    <3>1. TAKE i \in 1 .. n
    <3>2. CASE i = 1
      BY <2>2, <3>2 DEF a
    <3>3. CASE i = 2
      <4>1. 1 \in 1 .. n /\ i - 1 = 1
        BY <1>3, <3>3
      <4>2. QED
        BY <2>2, <3>3, <4>1 DEF a, b
    <3>4. CASE i = 3
      <4>1. 2 \in 1 .. n /\ i - 1 = 2
        BY <1>3, <3>4
      <4>2. g[i - 1] = b /\ g[i] = c
        BY <2>2, <3>4, <4>1
      <4>3. c = b \o q[3]
        BY DEF b, c
      <4>4. QED
        BY <3>4, <4>2, <4>3
    <3>5. QED
      BY <2>1, <3>2, <3>3, <3>4
  <2>5. g = [i \in 1 .. n |-> Step(g, i)]
    BY <2>4, <2>3
  <2>6. QED
    BY <2>5
<1> HIDE DEF flatten
<1>4. ASSUME n = 1 PROVE FlattenSeq(q) = q[1]
  <2>1. flatten[1] = q[1]
    BY <1>3, <1>4
  <2>2. QED
    BY <1>2, <1>4, <2>1
<1>5. ASSUME n = 2 PROVE FlattenSeq(q) = q[1] \o q[2]
  <2>1. flatten[1] = q[1] /\ flatten[2] = flatten[1] \o q[2]
    BY <1>3, <1>5
  <2>2. QED
    BY <1>2, <1>5, <2>1
<1>6. ASSUME n = 3 PROVE FlattenSeq(q) = (q[1] \o q[2]) \o q[3]
  <2>1. flatten[1] = q[1] /\ flatten[2] = flatten[1] \o q[2]
        /\ flatten[3] = flatten[2] \o q[3]
    BY <1>3, <1>6
  <2>2. QED
    BY <1>2, <1>6, <2>1
<1>7. n = 0 => FlattenSeq(q) = <<>>
  BY <1>1, <1>2 DEF n
<1>8. QED
  BY <1>4, <1>5, <1>6, <1>7 DEF n

-----------------------------------------------------------------------------
\* The verdicts of a call that is done.

\* A sequence without elements is the empty one.
LEMMA EmptyLaws ==
    ASSUME NEW T, NEW s \in Seq(T)
    PROVE  /\ ToSet(s) = {} <=> s = <<>>
           /\ Len(s) = 0 <=> s = <<>>
<1>1. DOMAIN s = 1 .. Len(s) /\ Len(s) \in Nat /\ (Len(s) = 0 <=> s = <<>>)
  OBVIOUS
<1>2. 1 .. Len(s) = {} <=> Len(s) = 0
  <2>1. Len(s) # 0 => 1 \in 1 .. Len(s)
    BY <1>1
  <2>2. Len(s) = 0 => 1 .. Len(s) = {}
    BY <1>1
  <2>3. QED
    BY <2>1, <2>2
<1>3. ToSet(s) = {} <=> DOMAIN s = {}
  BY DEF ToSet
<1>4. QED
  BY <1>1, <1>2, <1>3

\* Where nothing is left to do, the coverage has a verdict on each search, and no other:
\* the providers in their order have the groups that the searches split into.
LEMMA CoverageLaws ==
    ASSUME NEW c \in Calls, call[c].searches \in Seq(SearchRequest),
           worker[c] \in [Providers -> Worker],
           \A p \in Providers : Accounted(c, p) /\ worker[c][p].todo = <<>>
    PROVE  /\ Coverage(c) \in Seq(SearchCoverage)
           /\ Len(Coverage(c)) = Len(call[c].searches)
           /\ {v.search : v \in ToSet(Coverage(c))} = ToSet(call[c].searches)
<1> DEFINE s == call[c].searches
           o == ProviderOrder(s)
           W == [p \in Providers |-> worker[c][p].found]
           L == [p \in Providers |-> Len(W[p])]
           q == [i \in DOMAIN o |-> W[o[i]]]
           cov == FlattenSeq(q)
           Found(f) == {v.search : v \in ToSet(f)}
<1>1. /\ o \in Seq(Providers)
      /\ ToSet(o) = {r.provider : r \in ToSet(s)}
      /\ IsInjective(o)
  BY ProviderOrderLaws, ProviderOrderIs
<1>2. ASSUME NEW p \in Providers
      PROVE  /\ W[p] \in Seq(SearchCoverage)
             /\ Len(W[p]) = Len(Group(s, p))
             /\ Found(W[p]) = {r \in ToSet(s) : r.provider = p}
  <2>1. /\ worker[c][p] \in Worker /\ worker[c][p].todo = <<>> /\ Accounted(c, p)
        /\ W[p] = worker[c][p].found
    OBVIOUS
  <2>2. worker[c][p].found \in Seq(SearchCoverage)
    BY <2>1 DEF Worker
  <2>3. Len(worker[c][p].found) = Len(Group(s, p))
    BY <2>1, <2>2 DEF Accounted
  <2>4. {v.search : v \in ToSet(worker[c][p].found)} = ToSet(Group(s, p))
    BY <2>1, ToSetLaws DEF Accounted
  <2>5. ToSet(Group(s, p)) = {r \in ToSet(s) : r.provider = p}
    BY GroupLaws
  <2>6. QED
    BY <2>1, <2>2, <2>3, <2>4, <2>5
<1>3. Coverage(c) = cov
  <2>1. q = [i \in DOMAIN o |-> worker[c][o[i]].found]
    BY <1>1
  <2> HIDE DEF q
  <2>2. QED
    BY <2>1 DEF Coverage
<1>4. Len(s) = L["himalayas"] + L["jobicy"] + L["getonbrd"]
  <2>1. /\ Len(Group(s, "himalayas")) + Len(Group(s, "jobicy")) + Len(Group(s, "getonbrd"))
              = Len(s)
    BY GroupLengths
  <2>2. /\ Len(Group(s, "himalayas")) = L["himalayas"]
        /\ Len(Group(s, "jobicy")) = L["jobicy"]
        /\ Len(Group(s, "getonbrd")) = L["getonbrd"]
    BY <1>2 DEF Providers
  <2>3. QED
    BY <2>1, <2>2
<1>5. \A r \in ToSet(s) : r.provider \in Providers
  <2>1. ToSet(s) \subseteq SearchRequest
    BY ToSetLaws
  <2>2. QED
    BY <2>1 DEF SearchRequest
<1> HIDE DEF s, W, o
<1>6. L \in [Providers -> Nat] /\ \A p \in Providers : L[p] = Len(W[p])
  BY <1>2
<1>7. \A p \in Providers : p \notin ToSet(o) => L[p] = 0
  <2>1. TAKE p \in Providers
  <2>2. SUFFICES ASSUME p \notin ToSet(o) PROVE L[p] = 0
    OBVIOUS
  <2>3. Found(W[p]) = {}
    BY <1>1, <1>2, <2>2
  <2>4. ToSet(W[p]) = {}
    BY <2>3
  <2>5. QED
    BY <1>2, <1>6, <2>4, EmptyLaws
<1> HIDE DEF L
<1>8. \/ Len(o) = 0 /\ Len(s) = 0
      \/ Len(o) = 1 /\ Len(s) = L[o[1]]
      \/ Len(o) = 2 /\ Len(s) = L[o[1]] + L[o[2]]
      \/ Len(o) = 3 /\ Len(s) = L[o[1]] + L[o[2]] + L[o[3]]
  BY <1>1, <1>4, <1>6, <1>7, ProvidersAddUp
<1>9. /\ q \in Seq(Seq(SearchCoverage)) /\ Len(q) = Len(o)
      /\ \A i \in 1 .. Len(o) : q[i] = W[o[i]] /\ o[i] \in Providers
  BY <1>1, <1>2
<1> HIDE DEF q
<1>10. /\ Len(q) = 0 => cov = <<>>
       /\ Len(q) = 1 => cov = q[1]
       /\ Len(q) = 2 => cov = q[1] \o q[2]
       /\ Len(q) = 3 => cov = (q[1] \o q[2]) \o q[3]
  BY <1>9, FlattenLaws
<1> HIDE DEF cov
<1>11. ToSet(s) = UNION {Found(W[p]) : p \in ToSet(o)}
  <2>1. \A p \in ToSet(o) : p \in Providers
    BY <1>1, ToSetLaws
  <2>2. QED
    BY <1>1, <1>2, <1>5, <2>1
<1> DEFINE Right == /\ cov \in Seq(SearchCoverage)
                    /\ Len(cov) = Len(s)
                    /\ Found(cov) = UNION {Found(W[p]) : p \in ToSet(o)}
<1>12. SUFFICES Right
  BY <1>3, <1>11 DEF s
<1>13. CASE Len(o) = 0
  <2>1. cov = <<>> /\ Len(s) = 0
    BY <1>8, <1>9, <1>10, <1>13
  <2>2. ToSet(o) = {}
    BY <1>1, <1>13, EmptyLaws
  <2>3. ToSet(cov) = {}
    BY <2>1, ToSetLaws
  <2>4. cov \in Seq(SearchCoverage) /\ Len(cov) = 0
    BY <2>1
  <2>5. QED
    BY <2>1, <2>2, <2>3, <2>4
<1>14. CASE Len(o) = 1
  <2>1. cov = W[o[1]] /\ o[1] \in Providers
    BY <1>9, <1>10, <1>14
  <2>2. ToSet(o) = {o[1]}
    BY <1>1, <1>14 DEF ToSet
  <2>3. QED
    BY <1>2, <1>6, <1>8, <1>14, <2>1, <2>2
<1>15. CASE Len(o) = 2
  <2> DEFINE a == W[o[1]]  b == W[o[2]]
  <2>1. 1 \in 1 .. Len(o) /\ 2 \in 1 .. Len(o)
    BY <1>15
  <2>2. cov = a \o b /\ o[1] \in Providers /\ o[2] \in Providers
    BY <1>9, <1>10, <1>15, <2>1
  <2>3. ToSet(o) = {o[1], o[2]}
    BY <1>1, <1>15 DEF ToSet
  <2>4. /\ a \in Seq(SearchCoverage) /\ b \in Seq(SearchCoverage)
        /\ L[o[1]] = Len(a) /\ L[o[2]] = Len(b)
    BY <1>2, <1>6, <2>2
  <2>5. UNION {Found(W[p]) : p \in ToSet(o)} = Found(a) \cup Found(b)
    BY <2>3
  <2> HIDE DEF a, b
  <2>6. /\ cov \in Seq(SearchCoverage) /\ Len(cov) = Len(a) + Len(b)
        /\ ToSet(cov) = ToSet(a) \cup ToSet(b)
    BY <2>2, <2>4, ConcatLaws
  <2>7. Found(cov) = Found(a) \cup Found(b)
    BY <2>6
  <2>8. Len(s) = Len(a) + Len(b)
    BY <1>8, <1>15, <2>4
  <2>9. QED
    BY <2>5, <2>6, <2>7, <2>8
<1>16. CASE Len(o) = 3
  <2> DEFINE a == W[o[1]]  b == W[o[2]]  d == W[o[3]]
  <2>1. 1 \in 1 .. Len(o) /\ 2 \in 1 .. Len(o) /\ 3 \in 1 .. Len(o)
    BY <1>16
  <2>2. /\ cov = (a \o b) \o d
        /\ o[1] \in Providers /\ o[2] \in Providers /\ o[3] \in Providers
    BY <1>9, <1>10, <1>16, <2>1
  <2>3. ToSet(o) = {o[1], o[2], o[3]}
    BY <1>1, <1>16 DEF ToSet
  <2>4. /\ a \in Seq(SearchCoverage) /\ b \in Seq(SearchCoverage) /\ d \in Seq(SearchCoverage)
        /\ L[o[1]] = Len(a) /\ L[o[2]] = Len(b) /\ L[o[3]] = Len(d)
    BY <1>2, <1>6, <2>2
  <2>5. UNION {Found(W[p]) : p \in ToSet(o)} = Found(a) \cup Found(b) \cup Found(d)
    BY <2>3
  <2> HIDE DEF a, b, d
  <2> DEFINE e == a \o b
  <2>6. /\ e \in Seq(SearchCoverage) /\ Len(e) = Len(a) + Len(b)
        /\ ToSet(e) = ToSet(a) \cup ToSet(b)
    BY <2>4, ConcatLaws
  <2>7. cov = e \o d
    BY <2>2
  <2> HIDE DEF e
  <2>8. /\ cov \in Seq(SearchCoverage) /\ Len(cov) = Len(e) + Len(d)
        /\ ToSet(cov) = ToSet(e) \cup ToSet(d)
    <3>1. d \in Seq(SearchCoverage) /\ e \in Seq(SearchCoverage)
      BY <2>4, <2>6
    <3>2. /\ e \o d \in Seq(SearchCoverage) /\ Len(e \o d) = Len(e) + Len(d)
          /\ ToSet(e \o d) = ToSet(e) \cup ToSet(d)
      BY <3>1, ConcatLaws
    <3>3. QED
      BY <2>7, <3>2
  <2>9. Found(cov) = Found(a) \cup Found(b) \cup Found(d)
    BY <2>6, <2>8
  <2>10. Len(s) = Len(a) + Len(b) + Len(d)
    BY <1>8, <1>16, <2>4
  <2>11. QED
    BY <2>5, <2>6, <2>8, <2>9, <2>10
<1>17. QED
  BY <1>8, <1>13, <1>14, <1>15, <1>16

\* The answers of a provider are sequences of jobs and of records that are none.
LEMMA RecordsLaw ==
    ASSUME NEW p PROVE Records(p) \subseteq Seq(Jobs \cup {None})
<1> DEFINE S == {j \in Jobs : ProviderOf[j] = p} \cup {None}
<1>1. Records(p) = UNION {[1 .. m -> S] : m \in 0 .. MaxRecords}
  BY DEF Records, BoundedSeq, SeqOf
<1>2. S \subseteq Jobs \cup {None}
  OBVIOUS
<1> HIDE DEF S
<1>3. \A m \in 0 .. MaxRecords : [1 .. m -> S] \subseteq Seq(Jobs \cup {None})
  BY <1>2, BoundAssumption
<1>4. QED
  BY <1>1, <1>3

-----------------------------------------------------------------------------
\* What normalize makes of a provider's records, and what a battery offers.

\* A listing of an answer was read now.
LEMMA NormalizedLaws ==
    ASSUME now \in Nat, posted \in [Jobs -> Nat],
           NEW records \in Seq(Jobs \cup {None})
    PROVE  /\ Normalized(records) \in Seq(Listing)
           /\ \A l \in ToSet(Normalized(records)) : l.retrieved = now
<1> DEFINE T == Jobs \cup {None}
           R == {l \in Listing : l.retrieved = now}
           V == Seq(R)
           F == [p \in V \X T |-> Taken(p[1], p[2])]
           e == <<>>
           s == records
<1>1. \A jobs \in V, r \in T : Taken(jobs, r) \in V
  <2>1. TAKE jobs \in V, r \in T
  <2>2. CASE Usable(r) /\ \A l \in ToSet(jobs) : l.job # r
    <3>1. r \in Jobs
      BY <2>2 DEF Usable
    <3> DEFINE x == [job |-> r, edition |-> posted[r], retrieved |-> now]
    <3>2. x \in R
      BY <3>1 DEF Listing
    <3>3. Taken(jobs, r) = Append(jobs, x)
      BY <2>2 DEF Taken
    <3> HIDE DEF x, R
    <3>4. QED
      BY <3>2, <3>3
  <2>3. CASE ~ (Usable(r) /\ \A l \in ToSet(jobs) : l.job # r)
    BY <2>3 DEF Taken
  <2>4. QED
    BY <2>2, <2>3
<1>2. Folds(V, T, e, F) /\ \A jobs \in V, r \in T : F[<<jobs, r>>] = Taken(jobs, r)
  <2>1. e \in V
    OBVIOUS
  <2> HIDE DEF V, T, e
  <2>2. QED
    BY <1>1, <2>1 DEF Folds
<1>3. s \in Seq(T)
  OBVIOUS
<1> DEFINE Step(g, d) == IF d = {} THEN e ELSE Taken(g[d \ {Max(d)}], s[Max(d)])
           iter == CHOOSE g : g = [d \in SUBSET DOMAIN s |-> Step(g, d)]
<1>4. Normalized(s) = iter[DOMAIN s]
  BY DEF Normalized, FoldLeft, MapThenFoldSet
<1> HIDE DEF F, V, T, e, s
<1>5. FoldType(V, T, e, F, s)
  BY <1>2, <1>3 DEF FoldType
<1>6. PICK f : IsFold(f, V, F, e, s)
  BY <1>5, FoldExists
<1>7. /\ f \in [SUBSET DOMAIN s -> V]
      /\ f[{}] = e
      /\ \A d \in SUBSET DOMAIN s :
            d # {} => f[d] = F[<<f[d \ {Max(d)}], s[Max(d)]>>]
  BY <1>6 DEF IsFold
<1>8. ASSUME NEW d \in SUBSET DOMAIN s, d # {}
      PROVE  d \ {Max(d)} \in SUBSET DOMAIN s /\ s[Max(d)] \in T
  BY <1>3, <1>8, GreatestInSequence
<1>9. f = [d \in SUBSET DOMAIN s |-> Step(f, d)]
  BY <1>2, <1>7, <1>8
<1>10. iter = [d \in SUBSET DOMAIN s |-> Step(iter, d)]
  BY <1>9
<1> HIDE DEF iter
<1>11. Computes(iter, V, F, e, s)
  BY <1>2, <1>8, <1>10 DEF Computes
<1>12. Normalized(s) = Fold(V, F, e, s)
  BY <1>4, <1>5, <1>11, FoldIs
<1>13. Normalized(s) \in V
  BY <1>2, <1>3, <1>12, FoldLaws
<1>14. Normalized(records) \in Seq(R)
  BY <1>13 DEF V, s
<1>15. ToSet(Normalized(records)) \subseteq R
  BY <1>14, ToSetLaws
<1>16. R \subseteq Listing
  OBVIOUS
<1> HIDE DEF R
<1>17. Normalized(records) \in Seq(Listing)
  BY <1>14, <1>16
<1>18. QED
  BY <1>15, <1>17 DEF R

Offer == [listing : Listing, key : SearchRequest, queries : SUBSET SearchRequest]

\* A battery has one offer for a link.
OfferSets ==
    {O \in SUBSET Offer :
        \A a, b \in O : LinkOf[a.listing.job] = LinkOf[b.listing.job] => a = b}

\* The listing l is offered, by its link, with the search r among its queries.
Covers(O, l, r) ==
    \E o \in O : LinkOf[o.listing.job] = LinkOf[l.job] /\ QueryIdentity(r) \in o.queries

\* An offer more keeps one offer for a link, and the queries that were there.
LEMMA OfferedLaws ==
    ASSUME NEW v \in SearchCoverage, NEW O \in OfferSets, NEW l \in Listing
    PROVE  /\ Offered(v, O, l) \in OfferSets
           /\ Covers(Offered(v, O, l), l, v.search)
           /\ \A k \in Listing, r \in SearchRequest :
                 Covers(O, k, r) => Covers(Offered(v, O, l), k, r)
           /\ \A o \in Offered(v, O, l) :
                 \/ \E a \in O : a.key = o.key /\ a.listing = o.listing
                 \/ o.key = v.search /\ o.listing = l
<1> DEFINE Link(o) == LinkOf[o.listing.job]
           same == {o \in O : Link(o) = LinkOf[l.job]}
           id == QueryIdentity(v.search)
           offer == IF same = {} THEN [listing |-> l, key |-> v.search, queries |-> {}]
                    ELSE CHOOSE o \in same : TRUE
           new == [offer EXCEPT !.queries = @ \cup {id}]
           N == (O \ same) \cup {new}
<1>1. Offered(v, O, l) = N
  BY DEF Offered
<1>2. v.search \in SearchRequest /\ id \in SearchRequest
  BY DEF SearchCoverage, SearchRequest, QueryIdentity
<1>3. O \subseteq Offer /\ \A a, b \in O : Link(a) = Link(b) => a = b
  BY DEF OfferSets
<1>4. /\ offer \in Offer
      /\ Link(offer) = LinkOf[l.job]
      /\ same # {} => offer \in same
      /\ same = {} => offer.key = v.search /\ offer.listing = l
  <2>1. CASE same = {}
    BY <1>2, <2>1 DEF Offer
  <2>2. CASE same # {}
    <3>1. offer \in same
      BY <2>2
    <3>2. QED
      BY <1>3, <2>2, <3>1
  <2>3. QED
    BY <2>1, <2>2
<1> HIDE DEF offer
<1>5. /\ new \in Offer /\ new.listing = offer.listing /\ new.key = offer.key
      /\ new.queries = offer.queries \cup {id}
  <2> HIDE DEF id
  <2> QED
    BY <1>2, <1>4 DEF Offer
<1> HIDE DEF new, id
<1>6. N \in OfferSets
  <2>1. N \subseteq Offer
    BY <1>3, <1>5
  <2>2. \A a \in O \ same : Link(a) # Link(new)
    BY <1>4, <1>5
  <2>3. \A a, b \in N : Link(a) = Link(b) => a = b
    BY <1>3, <2>2
  <2>4. QED
    BY <2>1, <2>3 DEF OfferSets
<1>7. Covers(N, l, v.search)
  BY <1>4, <1>5 DEF Covers, id
<1>8. ASSUME NEW k \in Listing, NEW r \in SearchRequest, Covers(O, k, r)
      PROVE  Covers(N, k, r)
  <2>1. PICK o \in O : Link(o) = LinkOf[k.job] /\ QueryIdentity(r) \in o.queries
    BY <1>8 DEF Covers
  <2>2. CASE o \in same
    <3>1. o = offer
      BY <1>3, <1>4, <2>2
    <3>2. QED
      BY <1>5, <2>1, <3>1 DEF Covers
  <2>3. CASE o \notin same
    BY <2>1, <2>3 DEF Covers
  <2>4. QED
    BY <2>2, <2>3
<1>9. ASSUME NEW o \in N
      PROVE  \/ \E a \in O : a.key = o.key /\ a.listing = o.listing
             \/ o.key = v.search /\ o.listing = l
  BY <1>4, <1>5, <1>9
<1>10. QED
  BY <1>1, <1>6, <1>7, <1>8, <1>9

\* The listings of a verdict are offered, and what was offered before.
LEMMA MergedLaws ==
    ASSUME NEW v \in SearchCoverage, NEW O \in OfferSets
    PROVE  /\ Merged(O, v) \in OfferSets
           /\ \A l \in ToSet(v.jobs) : Covers(Merged(O, v), l, v.search)
           /\ \A k \in Listing, r \in SearchRequest :
                 Covers(O, k, r) => Covers(Merged(O, v), k, r)
           /\ \A o \in Merged(O, v) :
                 \/ \E a \in O : a.key = o.key /\ a.listing = o.listing
                 \/ o.key = v.search /\ o.listing \in ToSet(v.jobs)
<1> DEFINE T == Listing
           V == OfferSets
           F == [p \in V \X T |-> Offered(v, p[1], p[2])]
           s == v.jobs
           M(t) == Fold(V, F, O, t)
<1>1. \A A \in V, l \in T : Offered(v, A, l) \in V
  BY OfferedLaws
<1>2. \A A \in V, l \in T : F[<<A, l>>] = Offered(v, A, l)
  <2> HIDE DEF V, T
  <2> QED
    OBVIOUS
<1>3. Folds(V, T, O, F)
  <2> HIDE DEF V, T
  <2>1. O \in V
    BY DEF V
  <2>2. QED
    BY <1>1, <2>1 DEF Folds
<1>4. s \in Seq(T)
  BY DEF SearchCoverage
<1> DEFINE Step(g, d) == IF d = {} THEN O ELSE Offered(v, g[d \ {Max(d)}], s[Max(d)])
           iter == CHOOSE g : g = [d \in SUBSET DOMAIN s |-> Step(g, d)]
<1>5. Merged(O, v) = iter[DOMAIN s]
  BY DEF Merged, FoldLeft, MapThenFoldSet
<1> HIDE DEF F, V, T, s
<1>6. FoldType(V, T, O, F, s)
  BY <1>3, <1>4 DEF FoldType
<1>7. PICK f : IsFold(f, V, F, O, s)
  BY <1>6, FoldExists
<1>8. /\ f \in [SUBSET DOMAIN s -> V]
      /\ f[{}] = O
      /\ \A d \in SUBSET DOMAIN s :
            d # {} => f[d] = F[<<f[d \ {Max(d)}], s[Max(d)]>>]
  BY <1>7 DEF IsFold
<1>9. ASSUME NEW d \in SUBSET DOMAIN s, d # {}
      PROVE  d \ {Max(d)} \in SUBSET DOMAIN s /\ s[Max(d)] \in T
  BY <1>4, <1>9, GreatestInSequence
<1>10. f = [d \in SUBSET DOMAIN s |-> Step(f, d)]
  BY <1>2, <1>8, <1>9
<1>11. iter = [d \in SUBSET DOMAIN s |-> Step(iter, d)]
  BY <1>10
<1> HIDE DEF iter
<1>12. Computes(iter, V, F, O, s)
  BY <1>2, <1>9, <1>11 DEF Computes
<1>13. Merged(O, v) = M(s)
  BY <1>5, <1>6, <1>12, FoldIs
<1>14. /\ M(<<>>) = O
       /\ \A t \in Seq(T) : M(t) \in V
       /\ \A t \in Seq(T), x \in T : M(Append(t, x)) = F[<<M(t), x>>]
  BY <1>3, FoldLaws
<1> DEFINE Good(t) ==
             /\ \A l \in ToSet(t) : Covers(M(t), l, v.search)
             /\ \A k \in Listing, r \in SearchRequest : Covers(O, k, r) => Covers(M(t), k, r)
             /\ \A o \in M(t) :
                   \/ \E a \in O : a.key = o.key /\ a.listing = o.listing
                   \/ o.key = v.search /\ o.listing \in ToSet(t)
           P == {t \in Seq(T) : Good(t)}
<1> HIDE DEF M, P
<1>15. <<>> \in P
  <2>1. <<>> \in Seq(T) /\ ToSet(<<>>) = {}
    BY ToSetLaws
  <2>2. QED
    BY <1>14, <2>1 DEF P
<1>16. ASSUME NEW t \in Seq(T), NEW x \in T, t \in P PROVE Append(t, x) \in P
  <2> DEFINE u == Append(t, x)
  <2>1. /\ Good(t) /\ M(t) \in V /\ M(u) = Offered(v, M(t), x)
    BY <1>2, <1>14, <1>16 DEF P
  <2>2. u \in Seq(T) /\ ToSet(u) = ToSet(t) \cup {x} /\ ToSet(t) \subseteq T
    BY ToSetLaws
  <2>3. M(t) \in OfferSets /\ x \in Listing /\ ToSet(t) \subseteq Listing
    BY <2>1, <2>2 DEF V, T
  <2>4. /\ Covers(M(u), x, v.search)
        /\ \A k \in Listing, r \in SearchRequest : Covers(M(t), k, r) => Covers(M(u), k, r)
        /\ \A o \in M(u) :
              \/ \E a \in M(t) : a.key = o.key /\ a.listing = o.listing
              \/ o.key = v.search /\ o.listing = x
    BY <2>1, <2>3, OfferedLaws
  <2>5. v.search \in SearchRequest
    BY DEF SearchCoverage
  <2> HIDE DEF u
  <2>6. \A l \in ToSet(u) : Covers(M(u), l, v.search)
    BY <2>1, <2>2, <2>3, <2>4, <2>5
  <2>7. \A k \in Listing, r \in SearchRequest : Covers(O, k, r) => Covers(M(u), k, r)
    BY <2>1, <2>4
  <2>8. ASSUME NEW o \in M(u)
        PROVE  \/ \E a \in O : a.key = o.key /\ a.listing = o.listing
               \/ o.key = v.search /\ o.listing \in ToSet(u)
    BY <2>1, <2>2, <2>4, <2>8
  <2>9. u \in P
    BY <2>2, <2>6, <2>7, <2>8 DEF P
  <2>10. QED
    BY <2>9 DEF u
<1>17. Seq(T) \subseteq P
  BY <1>15, <1>16, SeqInduction
<1>18. Good(s) /\ M(s) \in V
  BY <1>4, <1>14, <1>17 DEF P
<1>19. QED
  BY <1>13, <1>18 DEF V, s

\* Each listing of each verdict is offered with its search, and an offer names a
\* verdict that found it.
LEMMA OffersLaws ==
    ASSUME NEW coverage \in Seq(SearchCoverage)
    PROVE  /\ Offers(coverage) \in OfferSets
           /\ \A v \in ToSet(coverage) : \A l \in ToSet(v.jobs) :
                 Covers(Offers(coverage), l, v.search)
           /\ \A o \in Offers(coverage) : \E v \in ToSet(coverage) :
                 v.search = o.key /\ o.listing \in ToSet(v.jobs)
<1> DEFINE T == SearchCoverage
           V == OfferSets
           F == [p \in V \X T |-> Merged(p[1], p[2])]
           s == coverage
           e == {}
           M(t) == Fold(V, F, e, t)
<1>1. \A A \in V, v \in T : Merged(A, v) \in V
  BY MergedLaws
<1>2. \A A \in V, v \in T : F[<<A, v>>] = Merged(A, v)
  <2> HIDE DEF V, T
  <2> QED
    OBVIOUS
<1>3. Folds(V, T, e, F)
  <2>1. e \in V
    BY DEF OfferSets
  <2> HIDE DEF V, T, e
  <2>2. QED
    BY <1>1, <2>1 DEF Folds
<1>4. s \in Seq(T)
  OBVIOUS
<1> DEFINE Step(g, d) == IF d = {} THEN e ELSE Merged(g[d \ {Max(d)}], s[Max(d)])
           iter == CHOOSE g : g = [d \in SUBSET DOMAIN s |-> Step(g, d)]
<1>5. Offers(s) = iter[DOMAIN s]
  BY DEF Offers, FoldLeft, MapThenFoldSet
<1> HIDE DEF F, V, T, s, e
<1>6. FoldType(V, T, e, F, s)
  BY <1>3, <1>4 DEF FoldType
<1>7. PICK f : IsFold(f, V, F, e, s)
  BY <1>6, FoldExists
<1>8. /\ f \in [SUBSET DOMAIN s -> V]
      /\ f[{}] = e
      /\ \A d \in SUBSET DOMAIN s :
            d # {} => f[d] = F[<<f[d \ {Max(d)}], s[Max(d)]>>]
  BY <1>7 DEF IsFold
<1>9. ASSUME NEW d \in SUBSET DOMAIN s, d # {}
      PROVE  d \ {Max(d)} \in SUBSET DOMAIN s /\ s[Max(d)] \in T
  BY <1>4, <1>9, GreatestInSequence
<1>10. f = [d \in SUBSET DOMAIN s |-> Step(f, d)]
  BY <1>2, <1>8, <1>9
<1>11. iter = [d \in SUBSET DOMAIN s |-> Step(iter, d)]
  BY <1>10
<1> HIDE DEF iter
<1>12. Computes(iter, V, F, e, s)
  BY <1>2, <1>9, <1>11 DEF Computes
<1>13. Offers(s) = M(s)
  BY <1>5, <1>6, <1>12, FoldIs
<1>14. /\ M(<<>>) = e
       /\ \A t \in Seq(T) : M(t) \in V
       /\ \A t \in Seq(T), x \in T : M(Append(t, x)) = F[<<M(t), x>>]
  BY <1>3, FoldLaws
<1> DEFINE Good(t) ==
             /\ \A v \in ToSet(t) : \A l \in ToSet(v.jobs) : Covers(M(t), l, v.search)
             /\ \A o \in M(t) : \E v \in ToSet(t) :
                   v.search = o.key /\ o.listing \in ToSet(v.jobs)
           P == {t \in Seq(T) : Good(t)}
<1> HIDE DEF M, P
<1>15. <<>> \in P
  <2>1. <<>> \in Seq(T) /\ ToSet(<<>>) = {}
    BY ToSetLaws
  <2>2. M(<<>>) = {}
    BY <1>14 DEF e
  <2>3. QED
    BY <2>1, <2>2 DEF P
<1>16. ASSUME NEW t \in Seq(T), NEW x \in T, t \in P PROVE Append(t, x) \in P
  <2> DEFINE u == Append(t, x)
  <2>1. /\ Good(t) /\ M(t) \in V /\ M(u) = Merged(M(t), x)
    BY <1>2, <1>14, <1>16 DEF P
  <2>2. u \in Seq(T) /\ ToSet(u) = ToSet(t) \cup {x} /\ ToSet(t) \subseteq T
    BY ToSetLaws
  <2>3. M(t) \in OfferSets /\ x \in SearchCoverage
    BY <2>1 DEF V, T
  <2>4. /\ \A l \in ToSet(x.jobs) : Covers(M(u), l, x.search)
        /\ \A k \in Listing, r \in SearchRequest : Covers(M(t), k, r) => Covers(M(u), k, r)
        /\ \A o \in M(u) :
              \/ \E a \in M(t) : a.key = o.key /\ a.listing = o.listing
              \/ o.key = x.search /\ o.listing \in ToSet(x.jobs)
    BY <2>1, <2>3, MergedLaws
  <2>5. \A v \in ToSet(t) : v.search \in SearchRequest /\ ToSet(v.jobs) \subseteq Listing
    <3>1. TAKE v \in ToSet(t)
    <3>2. v \in SearchCoverage
      BY <2>2 DEF T
    <3>3. v.search \in SearchRequest /\ v.jobs \in Seq(Listing)
      BY <3>2 DEF SearchCoverage
    <3>4. QED
      BY <3>3, ToSetLaws
  <2> HIDE DEF u
  <2>6. \A v \in ToSet(u) : \A l \in ToSet(v.jobs) : Covers(M(u), l, v.search)
    BY <2>1, <2>2, <2>4, <2>5
  <2>7. ASSUME NEW o \in M(u)
        PROVE  \E v \in ToSet(u) : v.search = o.key /\ o.listing \in ToSet(v.jobs)
    BY <2>1, <2>2, <2>4, <2>7
  <2>8. u \in P
    BY <2>2, <2>6, <2>7 DEF P
  <2>9. QED
    BY <2>8 DEF u
<1>17. Seq(T) \subseteq P
  BY <1>15, <1>16, SeqInduction
<1>18. Good(s) /\ M(s) \in V
  BY <1>4, <1>14, <1>17 DEF P
<1>19. QED
  BY <1>13, <1>18 DEF V, s

-----------------------------------------------------------------------------
\* A worker's step: what the steps of TakeNext to FetchAnswers have in common.

CacheType(k) == k \in DiscoveryCache /\ PagesOK(k.pages)

\* What TypeOK says of the cache, and the form the lemmas about pages use, are one.
LEMMA CacheTypeIs ==
    ASSUME NEW k
    PROVE  CacheType(k) <=>
              /\ k \in DiscoveryCache
              /\ Len(k.pages) <= MAX_PAGES
              /\ IsInjective([i \in DOMAIN k.pages |-> k.pages[i].key])
<1> DEFINE s == k.pages
           g == [i \in DOMAIN s |-> s[i].key]
<1>1. k \in DiscoveryCache => s \in Seq(SearchPage)
  BY DEF DiscoveryCache
<1> HIDE DEF s
<1>2. DOMAIN g = DOMAIN s /\ \A i \in DOMAIN s : g[i] = s[i].key
  OBVIOUS
<1> HIDE DEF g
<1>3. Distinct(s) <=> IsInjective(g)
  BY <1>2 DEF Distinct, IsInjective
<1>4. QED
  BY <1>1, <1>3 DEF CacheType, PagesOK, s, g

\* What TypeOK gives, variable by variable.
LEMMA TypeFacts ==
    ASSUME TypeOK
    PROVE  /\ now \in Nat /\ posted \in [Jobs -> Nat]
           /\ CacheType(cache) /\ PagesOK(cache.pages)
           /\ call \in [Calls -> Call]
           /\ worker \in [Calls -> [Providers -> Worker]]
           /\ tickets \subseteq Ticket /\ saved \in Seq(Import) /\ made \in 0 .. MaxEvents
BY CacheTypeIs DEF TypeOK, CacheType

\* What makes TypeOK hold.
LEMMA TypeIs ==
    /\ now \in Nat /\ posted \in [Jobs -> Nat] /\ CacheType(cache)
    /\ call \in [Calls -> Call] /\ worker \in [Calls -> [Providers -> Worker]]
    /\ tickets \subseteq Ticket /\ saved \in Seq(Import) /\ made \in 0 .. MaxEvents
    => TypeOK
BY CacheTypeIs DEF TypeOK

\* What makes TypeOK hold after a step.
LEMMA TypeIsNext ==
    /\ now' \in Nat /\ posted' \in [Jobs -> Nat] /\ CacheType(cache')
    /\ call' \in [Calls -> Call] /\ worker' \in [Calls -> [Providers -> Worker]]
    /\ tickets' \subseteq Ticket /\ saved' \in Seq(Import) /\ made' \in 0 .. MaxEvents
    => TypeOK'
BY CacheTypeIs DEF TypeOK

\* The fields of the cache, and their types.
LEMMA CacheFacts ==
    ASSUME CacheType(cache)
    PROVE  /\ cache = [pages |-> cache.pages, last_fetch |-> cache.last_fetch,
                       source_errors |-> cache.source_errors,
                       location_error |-> cache.location_error,
                       locations |-> cache.locations]
           /\ cache.pages \in Seq(SearchPage)
           /\ cache.last_fetch \in [Providers -> Int]
           /\ cache.source_errors \in [Providers -> Nat]
           /\ cache.location_error \in Nat
           /\ cache.locations \in [until : Nat, slugs : SUBSET Geos] \cup {None}
BY DEF CacheType, DiscoveryCache

\* The step of a provider's clock ProviderIsSpared allows.
Spared ==
    \A p \in Providers :
        cache'.last_fetch[p] > cache.last_fetch[p] =>
            /\ now >= cache.last_fetch[p] + Pace
            /\ now >= cache.source_errors[p]
            /\ \A c \in Calls : worker[c][p].step # "fetching"

\* The two hold the same searches, found or to be done.
SameAccount(old, new) ==
    /\ Len(new.found) + Len(new.todo) = Len(old.found) + Len(old.todo)
    /\ {v.search : v \in ToSet(new.found)} \cup ToSet(new.todo)
          = {v.search : v \in ToSet(old.found)} \cup ToSet(old.todo)

\* The worker of c at p moved, and no other.
Moved(c, p) ==
    /\ worker' \in [Calls -> [Providers -> Worker]]
    /\ \A d \in Calls, q \in Providers : d # c \/ q # p => worker'[d][q] = worker[d][q]

\* It is as far as its step says, and its call's searches are all there.
Ordered(c, p) ==
    LET new == worker'[c][p] IN
    /\ new.step \in {"pacing", "fetching"} => new.todo # <<>>
    /\ new.step = "catalogue" => new.checks > 0
    /\ new.checks > 0 => p = "jobicy"
    /\ new.step = "ready" /\ new.todo = <<>> => new.checks > 0
    /\ worker[c][p].todo = <<>> => new.todo = <<>>
    /\ call[c].kind \in {"search", "battery"} =>
        /\ SameAccount(worker[c][p], new)
        /\ new.step # "next" => new.todo # <<>>

\* It took the lock only where nobody had it, and sleeps where nobody failed.
Locked(c, p) ==
    /\ Holds(c, p)' => Holds(c, p) \/ ~ Busy(p)
    /\ worker'[c][p].step = "pacing" => cache'.source_errors[p] <= now
    /\ \A q \in Providers :
        /\ cache'.last_fetch[q] >= -10
        /\ cache'.source_errors[q] # cache.source_errors[q]
              => q = p /\ worker[c][p].step = "fetching"

WorkerStep(c, p) ==
    /\ UNCHANGED <<now, posted, call, tickets, saved, made>>
    /\ CacheType(cache') /\ PageInv'
    /\ Moved(c, p) /\ Ordered(c, p) /\ Locked(c, p) /\ Spared

\* The invariant lasts through what the workers' steps have in common.
LEMMA WorkerStepKeeps ==
    ASSUME IInv, NEW c \in Calls, NEW p \in Providers, WorkerStep(c, p)
    PROVE  IInv'
<1> USE DEF IInv, WorkerStep
<1>1. TypeOK'
  <2>1. worker' \in [Calls -> [Providers -> Worker]]
    BY DEF Moved
  <2>2. QED
    BY <2>1, TypeFacts, TypeIsNext
<1>2. \A d \in Calls, q \in Providers : d # c \/ q # p => worker'[d][q] = worker[d][q]
  BY DEF Moved
<1>3. StepInv'
  BY <1>2 DEF StepInv, Ordered
<1>4. TurnInv'
  <2>1. SUFFICES ASSUME NEW d \in Calls, NEW q \in Providers
                 PROVE  /\ worker'[d][q].checks > 0 => q = "jobicy"
                        /\ worker'[d][q].step = "ready" /\ worker'[d][q].todo = <<>>
                              => worker'[d][q].checks > 0
                        /\ call[d].kind \notin {"search", "battery"}
                              => worker'[d][q].todo = <<>>
    BY DEF TurnInv
  <2>2. CASE d = c /\ q = p
    BY <2>2 DEF TurnInv, Ordered
  <2>3. CASE d # c \/ q # p
    BY <1>2, <2>3 DEF TurnInv
  <2>4. QED
    BY <2>2, <2>3
<1>5. LockInv'
  <2>1. SUFFICES ASSUME NEW q \in Providers, NEW d \in Calls, NEW e \in Calls,
                        Holds(d, q)', Holds(e, q)'
                 PROVE  d = e
    BY DEF LockInv
  <2>2. \A f \in Calls : f # c \/ q # p => (Holds(f, q)' <=> Holds(f, q))
    BY <1>2 DEF Holds
  <2>3. CASE q # p
    BY <2>1, <2>2, <2>3 DEF LockInv
  <2>4. CASE q = p
    <3>1. Holds(c, p)' => Holds(c, p) \/ \A f \in Calls : ~ Holds(f, p)
      BY DEF Locked, Busy, Holds
    <3>2. QED
      BY <2>1, <2>2, <2>4, <3>1 DEF LockInv
  <2>5. QED
    BY <2>3, <2>4
<1>6. PacingInv'
  <2>1. \A q \in Providers : cache'.last_fetch[q] >= -10
    BY DEF Locked
  <2>2. SUFFICES ASSUME NEW q \in Providers, NEW d \in Calls, worker'[d][q].step = "pacing"
                 PROVE  cache'.source_errors[q] <= now
    BY <2>1 DEF PacingInv
  <2>3. CASE d = c /\ q = p
    BY <2>2, <2>3 DEF Locked
  <2>4. CASE d # c \/ q # p
    <3>1. worker[d][q].step = "pacing"
      BY <1>2, <2>2, <2>4
    <3>2. cache'.source_errors[q] = cache.source_errors[q]
      <4>1. SUFFICES ASSUME cache'.source_errors[q] # cache.source_errors[q] PROVE FALSE
        OBVIOUS
      <4>2. q = p /\ worker[c][p].step = "fetching"
        BY <4>1 DEF Locked
      <4>3. Holds(c, p) /\ Holds(d, p)
        BY <3>1, <4>2 DEF Holds
      <4>4. QED
        BY <2>4, <4>2, <4>3 DEF LockInv
    <3>3. QED
      BY <3>1, <3>2 DEF PacingInv
  <2>5. QED
    BY <2>3, <2>4
<1>7. SearchInv'
  BY DEF SearchInv
<1>8. AccountInv'
  <2>1. SUFFICES ASSUME NEW d \in Calls, call[d].kind \in {"search", "battery"},
                        NEW q \in Providers
                 PROVE  Accounted(d, q)'
    BY DEF AccountInv
  <2>2. Accounted(d, q)
    BY <2>1 DEF AccountInv
  <2>3. CASE d # c \/ q # p
    BY <1>2, <2>2, <2>3 DEF Accounted
  <2>4. CASE d = c /\ q = p
    <3>1. SameAccount(worker[c][p], worker'[c][p])
      BY <2>1, <2>4 DEF Ordered
    <3>2. QED
      BY <2>2, <2>4, <3>1 DEF Accounted, SameAccount
  <2>5. QED
    BY <2>3, <2>4
<1>9. PageInv'
  OBVIOUS
<1>10. ResolvedInv' /\ SavedInv' /\ LinkInv' /\ SavingInv'
  BY DEF ResolvedInv, SavedInv, LinkInv, SavingInv, ImportOf, Authorised
<1>11. QED
  BY <1>1, <1>3, <1>4, <1>5, <1>6, <1>7, <1>8, <1>9, <1>10

\* The fields of a worker, and their types.
LEMMA WorkerFacts ==
    ASSUME TypeOK, NEW c \in Calls, NEW p \in Providers
    PROVE  LET w == worker[c][p] IN
           /\ w \in Worker
           /\ w = [todo |-> w.todo, found |-> w.found, checks |-> w.checks, step |-> w.step]
           /\ w.todo \in Seq(SearchRequest) /\ w.found \in Seq(SearchCoverage)
           /\ w.checks \in 0..2
           /\ w.step \in {"next", "ready", "catalogue", "pacing", "fetching"}
BY TypeFacts DEF Worker

\* The fields of a worker that goes on to another step.
LEMMA StepFields ==
    ASSUME NEW w \in Worker, NEW n, NEW st
    PROVE  /\ [w EXCEPT !.step = st, !.checks = n]
                 = [todo |-> w.todo, found |-> w.found, checks |-> n, step |-> st]
           /\ [w EXCEPT !.step = st]
                 = [todo |-> w.todo, found |-> w.found, checks |-> w.checks, step |-> st]
<1>1. w = [todo |-> w.todo, found |-> w.found, checks |-> w.checks, step |-> w.step]
  BY DEF Worker
<1>2. [w EXCEPT !.step = st]
         = [todo |-> w.todo, found |-> w.found, checks |-> w.checks, step |-> st]
  BY <1>1
<1> DEFINE v == [w EXCEPT !.step = st]
<1>3. [w EXCEPT !.step = st, !.checks = n] = [v EXCEPT !.checks = n]
  OBVIOUS
<1> HIDE DEF v
<1>4. v = [todo |-> w.todo, found |-> w.found, checks |-> w.checks, step |-> st]
  BY <1>2 DEF v
<1>5. [v EXCEPT !.checks = n]
         = [todo |-> w.todo, found |-> w.found, checks |-> n, step |-> st]
  BY <1>4
<1>6. QED
  BY <1>2, <1>3, <1>5

\* The worker's entry becomes w.
LEMMA MovedLaws ==
    ASSUME TypeOK, NEW c \in Calls, NEW p \in Providers, NEW w \in Worker,
           worker' = [worker EXCEPT ![c][p] = w]
    PROVE  Moved(c, p) /\ worker'[c][p] = w
<1>1. worker \in [Calls -> [Providers -> Worker]]
  BY TypeFacts
<1>2. QED
  BY <1>1 DEF Moved

\* A search is answered: it goes from what is to be done to what is found.
LEMMA AnsweredLaws ==
    ASSUME TypeOK, NEW c \in Calls, NEW p \in Providers,
           NEW status \in {"ok", "error", "not_run"}, NEW jobs \in Seq(Listing),
           worker[c][p].todo # <<>>, Answered(c, p, status, jobs)
    PROVE  Moved(c, p) /\ Ordered(c, p) /\ worker'[c][p].step = "next"
<1> DEFINE old == worker[c][p]
           v == [search |-> Head(old.todo), status |-> status, jobs |-> jobs]
           w == [todo |-> Tail(old.todo), checks |-> 0, step |-> "next",
                 found |-> Append(old.found, v)]
<1>1. /\ old.todo \in Seq(SearchRequest) /\ old.found \in Seq(SearchCoverage)
      /\ old.todo # <<>>
  BY WorkerFacts
<1>2. worker' = [worker EXCEPT ![c][p] = w]
  BY DEF Answered
<1>3. worker' = [worker EXCEPT ![c][p] = w] => worker'[c][p] = w
  BY TypeFacts
<1> HIDE DEF old
<1>4. /\ Head(old.todo) \in SearchRequest /\ Tail(old.todo) \in Seq(SearchRequest)
      /\ Len(Tail(old.todo)) = Len(old.todo) - 1
      /\ Len(old.todo) \in Nat /\ Len(old.found) \in Nat
  BY <1>1
<1>5. v \in SearchCoverage
  BY <1>4 DEF SearchCoverage
<1>6. v.search = Head(old.todo)
  OBVIOUS
<1> HIDE DEF v
<1>7. /\ Append(old.found, v) \in Seq(SearchCoverage)
      /\ Len(Append(old.found, v)) = Len(old.found) + 1
  BY <1>1, <1>5
<1>8. ToSet(Append(old.found, v)) = ToSet(old.found) \cup {v}
  BY <1>1, <1>5, ToSetLaws
<1>9. ToSet(old.todo) = {Head(old.todo)} \cup ToSet(Tail(old.todo))
  BY <1>1, HeadTailLaws
<1>10. w \in Worker
  BY <1>4, <1>7 DEF Worker
<1>11. Moved(c, p)
  BY <1>2, <1>10, MovedLaws
<1>12. SameAccount(old, w)
  <2> DEFINE found == Append(old.found, v)
             todo == Tail(old.todo)
  <2>1. Len(found) + Len(todo) = Len(old.found) + Len(old.todo)
    <3>1. /\ Len(found) = Len(old.found) + 1 /\ Len(todo) = Len(old.todo) - 1
          /\ Len(old.todo) \in Nat /\ Len(old.found) \in Nat
      BY <1>4, <1>7
    <3> DEFINE a == Len(old.found)  b == Len(old.todo)
    <3>2. a \in Nat /\ b \in Nat /\ Len(found) = a + 1 /\ Len(todo) = b - 1
      BY <3>1
    <3> HIDE DEF found, todo, a, b
    <3>3. Len(found) + Len(todo) = a + b
      BY <3>2
    <3>4. QED
      BY <3>3 DEF a, b
  <2>2. {x.search : x \in ToSet(found)}
           = {x.search : x \in ToSet(old.found)} \cup {Head(old.todo)}
    BY <1>6, <1>8
  <2>3. {x.search : x \in ToSet(found)} \cup ToSet(todo)
           = {x.search : x \in ToSet(old.found)} \cup ToSet(old.todo)
    BY <1>9, <2>2
  <2>4. w.found = found /\ w.todo = todo
    OBVIOUS
  <2> HIDE DEF w, found, todo
  <2>5. QED
    BY <2>1, <2>3, <2>4 DEF SameAccount
<1>13. worker'[c][p] = w /\ w.step = "next"
  BY <1>2, <1>3
<1>14. Ordered(c, p)
  <2>1. w.checks = 0 /\ old.todo # <<>>
    BY <1>1
  <2>2. QED
    BY <1>12, <1>13, <2>1 DEF Ordered, old
<1>15. QED
  BY <1>11, <1>13, <1>14

\* A worker goes on its way with the same searches.
LEMMA OnItsWay ==
    ASSUME TypeOK, NEW c \in Calls, NEW p \in Providers, NEW n \in 0..2, NEW w,
           NEW st \in {"ready", "catalogue", "pacing", "fetching"},
           \/ w = [worker[c][p] EXCEPT !.step = st, !.checks = n]
           \/ w = [worker[c][p] EXCEPT !.step = st] /\ n = worker[c][p].checks,
           worker' = [worker EXCEPT ![c][p] = w],
           st \in {"pacing", "fetching"} => worker[c][p].todo # <<>>,
           st = "catalogue" => n > 0,
           n > 0 => p = "jobicy",
           st = "ready" /\ worker[c][p].todo = <<>> => n > 0,
           call[c].kind \in {"search", "battery"} => worker[c][p].todo # <<>>
    PROVE  Moved(c, p) /\ Ordered(c, p) /\ worker'[c][p].step = st
<1> DEFINE old == worker[c][p]
<1>1. /\ old \in Worker
      /\ old.todo \in Seq(SearchRequest) /\ old.found \in Seq(SearchCoverage)
      /\ old.checks \in 0..2
  BY WorkerFacts
<1>2. w = [todo |-> old.todo, found |-> old.found, checks |-> n, step |-> st]
  BY <1>1, StepFields
<1> HIDE DEF old
<1>3. w \in Worker
  BY <1>1, <1>2 DEF Worker
<1>4. Moved(c, p) /\ worker'[c][p] = w
  <2>1. worker' = [worker EXCEPT ![c][p] = w] /\ worker \in [Calls -> [Providers -> Worker]]
    BY TypeFacts
  <2>2. QED
    BY <1>3, <2>1 DEF Moved
<1>5. w.todo = old.todo /\ w.found = old.found /\ w.checks = n /\ w.step = st
  BY <1>2
<1>6. Ordered(c, p)
  BY <1>4, <1>5 DEF Ordered, SameAccount, old
<1>7. QED
  BY <1>4, <1>5, <1>6

\* A step that leaves the cache and the lock alone.
LEMMA CacheKept ==
    ASSUME IInv, NEW c \in Calls, NEW p \in Providers,
           UNCHANGED <<now, posted, cache, call, tickets, saved, made>>,
           Moved(c, p), Ordered(c, p),
           Holds(c, p)' => Holds(c, p) \/ ~ Busy(p),
           worker'[c][p].step = "pacing" => cache.source_errors[p] <= now
    PROVE  IInv' /\ Spared
<1>1. /\ cache.last_fetch \in [Providers -> Int] /\ CacheType(cache)
  BY TypeFacts, CacheFacts DEF IInv
<1>2. PageInv'
  BY DEF IInv, PageInv
<1>3. Locked(c, p)
  BY DEF Locked, IInv, PacingInv
<1>4. Spared
  BY <1>1 DEF Spared
<1>5. WorkerStep(c, p)
  BY <1>1, <1>2, <1>3, <1>4 DEF WorkerStep
<1>6. QED
  BY <1>4, <1>5, WorkerStepKeeps

\* A step that changes pages or locations, and leaves the clocks of the providers.
LEMMA ClocksKept ==
    ASSUME IInv, NEW c \in Calls, NEW p \in Providers,
           UNCHANGED <<now, posted, call, tickets, saved, made>>,
           cache' \in DiscoveryCache, PagesOK(cache'.pages), PageInv',
           cache'.last_fetch = cache.last_fetch,
           cache'.source_errors = cache.source_errors,
           Moved(c, p), Ordered(c, p),
           Holds(c, p)' => Holds(c, p) \/ ~ Busy(p),
           worker'[c][p].step = "pacing" => cache.source_errors[p] <= now
    PROVE  IInv' /\ Spared
<1>1. CacheType(cache') /\ cache.last_fetch \in [Providers -> Int]
  BY TypeFacts, CacheFacts DEF IInv, CacheType
<1>2. Locked(c, p)
  BY DEF Locked, IInv, PacingInv
<1>3. Spared
  BY <1>1 DEF Spared
<1>4. WorkerStep(c, p)
  BY <1>1, <1>2, <1>3 DEF WorkerStep
<1>5. QED
  BY <1>3, <1>4, WorkerStepKeeps

\* The same, where the pages are some of those there were, or new ones.
LEMMA PagesChanged ==
    ASSUME IInv, NEW pages, PagesOK(pages), cache' = [cache EXCEPT !.pages = pages],
           \A page \in ToSet(pages) :
              page \in ToSet(cache.pages)
              \/ \A l \in ToSet(page.jobs) : page.until = l.retrieved + TTL
    PROVE  /\ cache' \in DiscoveryCache /\ PagesOK(cache'.pages) /\ PageInv'
           /\ cache'.last_fetch = cache.last_fetch
           /\ cache'.source_errors = cache.source_errors
<1>1. CacheType(cache)
  BY TypeFacts DEF IInv
<1>2. /\ cache'.pages = pages /\ cache'.last_fetch = cache.last_fetch
      /\ cache'.source_errors = cache.source_errors
  BY <1>1, CacheFacts
<1>3. cache' \in DiscoveryCache
  <2>1. pages \in Seq(SearchPage)
    BY DEF PagesOK
  <2>2. QED
    BY <1>1, <2>1 DEF CacheType, DiscoveryCache
<1>4. PageInv'
  BY <1>2 DEF IInv, PageInv
<1>5. QED
  BY <1>2, <1>3, <1>4

\* A search with a location is one at Jobicy.
LEMMA LocationLaw ==
    ASSUME IInv, NEW c \in Calls, NEW p \in Providers, worker[c][p].todo # <<>>,
           Head(worker[c][p].todo).geo # None
    PROVE  p = "jobicy"
<1> DEFINE todo == worker[c][p].todo
           searches == call[c].searches
           r == Head(todo)
<1>1. TypeOK /\ call[c] \in Call /\ todo \in Seq(SearchRequest)
  BY TypeFacts, WorkerFacts DEF IInv
<1>2. call[c].kind \in {"search", "battery"}
  BY DEF IInv, TurnInv
<1>3. r \in ToSet(todo)
  BY <1>1, HeadTailLaws
<1>4. ToSet(todo) \subseteq ToSet(Group(searches, p))
  BY <1>2 DEF IInv, AccountInv, Accounted
<1>5. searches \in Seq(SearchRequest)
  BY <1>1 DEF Call
<1>6. r \in ToSet(searches) /\ r.provider = p
  BY <1>3, <1>4, <1>5, GroupLaws
<1>7. ProviderFilters(r)
  BY <1>2, <1>6 DEF IInv, TurnInv
<1> HIDE DEF r
<1>8. p \in {"himalayas", "getonbrd"} => r.geo = None
  BY <1>6, <1>7 DEF ProviderFilters
<1>9. QED
  BY <1>8 DEF Providers, r

\* A worker takes its next search, or leaves it when the battery's time is over.
LEMMA TakeNextKeeps ==
    ASSUME IInv, NEW c \in Calls, NEW p \in Providers, TakeNext(c, p)
    PROVE  IInv' /\ Spared
<1> USE DEF TakeNext
<1>1. TypeOK
  BY DEF IInv
<1>2. CASE call[c].kind = "battery" /\ now - call[c].started >= Budget
  <2>1. Answered(c, p, "not_run", <<>>) /\ worker[c][p].todo # <<>>
    BY <1>2
  <2>2. <<>> \in Seq(Listing)
    OBVIOUS
  <2>3. Moved(c, p) /\ Ordered(c, p) /\ worker'[c][p].step = "next"
    BY <1>1, <2>1, <2>2, AnsweredLaws
  <2>4. QED
    BY <2>3, CacheKept DEF Holds
<1>3. CASE ~ (call[c].kind = "battery" /\ now - call[c].started >= Budget)
  <2> DEFINE n == IF Head(worker[c][p].todo).geo = None THEN 0
                  ELSE IF call[c].kind = "search" THEN 2 ELSE 1
             w == [worker[c][p] EXCEPT !.step = "ready", !.checks = n]
  <2>1. worker' = [worker EXCEPT ![c][p] = w] /\ worker[c][p].todo # <<>>
    BY <1>3
  <2>2. n \in 0..2
    OBVIOUS
  <2>3. n > 0 => p = "jobicy"
    BY <2>1, LocationLaw
  <2> HIDE DEF n
  <2>4. w = [worker[c][p] EXCEPT !.step = "ready", !.checks = n]
    OBVIOUS
  <2> HIDE DEF w
  <2>5. Moved(c, p) /\ Ordered(c, p) /\ worker'[c][p].step = "ready"
    BY <1>1, <2>1, <2>2, <2>4, <2>3, OnItsWay
  <2>6. QED
    BY <2>5, CacheKept DEF Holds
<1>4. QED
  BY <1>2, <1>3

\* The answer of the catalogue.
LEMMA CheckedLaws ==
    ASSUME IInv, NEW c \in Calls, NEW slugs, Checked(c, slugs),
           worker[c]["jobicy"].checks > 0, worker[c]["jobicy"].step # "next"
    PROVE  /\ Moved(c, "jobicy") /\ Ordered(c, "jobicy")
           /\ worker'[c]["jobicy"].step \in {"next", "ready"}
<1> DEFINE p == "jobicy"
           old == worker[c][p]
<1>1. TypeOK /\ p \in Providers
  BY DEF IInv, Providers
<1>2. CASE old.todo = <<>>
  <2>1. worker' = [worker EXCEPT ![c][p] = Resting]
    BY <1>2 DEF Checked
  <2>2. Resting \in Worker /\ Resting.step = "next" /\ Resting.todo = <<>> /\ Resting.checks = 0
    BY DEF Resting, Worker
  <2>3. Moved(c, p) /\ worker'[c][p] = Resting
    BY <1>1, <2>1, <2>2, MovedLaws
  <2>4. call[c].kind \notin {"search", "battery"}
    BY <1>1, <1>2 DEF IInv, StepInv
  <2>5. Ordered(c, p)
    BY <2>2, <2>3, <2>4 DEF Ordered
  <2>6. QED
    BY <2>2, <2>3, <2>5
<1>3. CASE old.todo # <<>> /\ Head(old.todo).geo \notin slugs
  <2>1. Answered(c, p, "error", <<>>)
    BY <1>3 DEF Checked
  <2>2. <<>> \in Seq(Listing)
    OBVIOUS
  <2>3. Moved(c, p) /\ Ordered(c, p) /\ worker'[c][p].step = "next"
    BY <1>1, <1>3, <2>1, <2>2, AnsweredLaws
  <2>4. QED
    BY <2>3
<1>4. CASE old.todo # <<>> /\ Head(old.todo).geo \in slugs
  <2> DEFINE n == old.checks - 1
             w == [old EXCEPT !.step = "ready", !.checks = n]
  <2>1. n \in 0..2
    <3>1. old.checks \in 0..2 /\ old.checks > 0
      BY <1>1, WorkerFacts
    <3> HIDE DEF old
    <3>2. QED
      BY <3>1
  <2>2. worker' = [worker EXCEPT ![c][p] = w]
    BY <1>4 DEF Checked
  <2>3. w = [old EXCEPT !.step = "ready", !.checks = n]
    OBVIOUS
  <2> HIDE DEF n, w
  <2>4. Moved(c, p) /\ Ordered(c, p) /\ worker'[c][p].step = "ready"
    BY <1>1, <1>4, <2>1, <2>2, <2>3, OnItsWay
  <2>5. QED
    BY <2>4
<1>5. QED
  BY <1>2, <1>3, <1>4

\* The catalogue that is known answers.
LEMMA KnownLocationsKeeps ==
    ASSUME IInv, NEW c \in Calls, KnownLocations(c)
    PROVE  IInv' /\ Spared
<1> DEFINE p == "jobicy"
<1>1. /\ worker[c][p].step = "ready" /\ worker[c][p].checks > 0 /\ p \in Providers
      /\ UNCHANGED <<now, posted, cache, call, tickets, saved, made>>
      /\ \E slugs : Checked(c, slugs)
  BY DEF KnownLocations, Ready, Providers
<1>2. /\ Moved(c, p) /\ Ordered(c, p)
      /\ worker'[c][p].step \in {"next", "ready"}
  BY <1>1, CheckedLaws
<1>3. QED
  BY <1>1, <1>2, CacheKept DEF Holds

\* A worker takes the lock of the catalogue.
LEMMA FetchLocationsKeeps ==
    ASSUME IInv, NEW c \in Calls, FetchLocations(c)
    PROVE  IInv' /\ Spared
<1> DEFINE p == "jobicy"
           old == worker[c][p]
           w == [old EXCEPT !.step = "catalogue"]
<1>1. /\ old.step = "ready" /\ old.checks > 0 /\ ~ Busy(p) /\ p \in Providers
      /\ UNCHANGED <<now, posted, cache, call, tickets, saved, made>>
      /\ worker' = [worker EXCEPT ![c][p] = w]
  BY DEF FetchLocations, Ready, Providers
<1>2. TypeOK
  BY DEF IInv
<1>3. old.checks \in 0..2
  BY <1>1, <1>2, WorkerFacts
<1>4. call[c].kind \in {"search", "battery"} => old.todo # <<>>
  BY <1>1 DEF IInv, StepInv
<1>5. w = [old EXCEPT !.step = "catalogue"]
  OBVIOUS
<1> HIDE DEF w
<1>6. Moved(c, p) /\ Ordered(c, p) /\ worker'[c][p].step = "catalogue"
  BY <1>1, <1>2, <1>3, <1>4, <1>5, OnItsWay
<1>7. QED
  BY <1>1, <1>6, CacheKept

\* The catalogue arrives, or fails, and the lock is given back.
LEMMA LocationsArriveKeeps ==
    ASSUME IInv, NEW c \in Calls, LocationsArrive(c)
    PROVE  IInv' /\ Spared
<1> DEFINE p == "jobicy"
<1>1. TypeOK
  BY DEF IInv
<1>2. /\ worker[c][p].step = "catalogue" /\ p \in Providers
      /\ UNCHANGED <<now, posted, call, tickets, saved, made>>
      /\ \E slugs : Checked(c, slugs)
  BY DEF LocationsArrive, Providers
<1>3. worker[c][p].checks > 0
  BY <1>2 DEF IInv, StepInv
<1>4. /\ Moved(c, p) /\ Ordered(c, p)
      /\ worker'[c][p].step \in {"next", "ready"}
  BY <1>2, <1>3, CheckedLaws
<1>5. /\ cache' \in DiscoveryCache
      /\ cache'.pages = cache.pages /\ cache'.last_fetch = cache.last_fetch
      /\ cache'.source_errors = cache.source_errors
  <2>1. cache \in DiscoveryCache /\ now \in Nat
    BY <1>1, TypeFacts DEF CacheType
  <2>2. now + LocationTTL \in Nat /\ now + Backoff \in Nat
    BY <2>1, PeriodAssumption
  <2>3. CASE \E slugs \in SUBSET Geos :
                cache' = [cache EXCEPT !.location_error = 0,
                            !.locations = [until |-> now + LocationTTL, slugs |-> slugs]]
    <3>1. PICK slugs \in SUBSET Geos :
            cache' = [cache EXCEPT !.location_error = 0,
                        !.locations = [until |-> now + LocationTTL, slugs |-> slugs]]
      BY <2>3
    <3> DEFINE locations == [until |-> now + LocationTTL, slugs |-> slugs]
               failed == [cache EXCEPT !.location_error = 0]
    <3>2. locations \in [until : Nat, slugs : SUBSET Geos]
      BY <2>2
    <3>3. cache' = [failed EXCEPT !.locations = locations]
      BY <3>1
    <3>4. /\ failed \in DiscoveryCache
          /\ failed.pages = cache.pages /\ failed.last_fetch = cache.last_fetch
          /\ failed.source_errors = cache.source_errors
      BY <2>1 DEF DiscoveryCache
    <3> HIDE DEF locations, failed
    <3>5. QED
      BY <3>2, <3>3, <3>4 DEF DiscoveryCache
  <2>4. CASE cache' = [cache EXCEPT !.location_error = 0]
    BY <2>1, <2>2, <2>4 DEF DiscoveryCache
  <2>5. CASE cache' = [cache EXCEPT !.location_error = now + Backoff]
    BY <2>1, <2>2, <2>5 DEF DiscoveryCache
  <2>6. QED
    BY <2>3, <2>4, <2>5 DEF LocationsArrive
<1>6. PagesOK(cache'.pages) /\ PageInv'
  BY <1>1, <1>5, TypeFacts DEF IInv, PageInv
<1>7. QED
  BY <1>2, <1>4, <1>5, <1>6, ClocksKept DEF Holds

\* A search that looks its page up finds the pages that are there still.
LEMMA LookupKeeps ==
    ASSUME IInv, NEW c \in Calls, NEW p \in Providers, NEW pages,
           UNCHANGED <<now, posted, call, tickets, saved, made>>,
           cache' = [cache EXCEPT !.pages = pages],
           PagesOK(pages), ToSet(pages) \subseteq ToSet(cache.pages),
           Moved(c, p), Ordered(c, p),
           Holds(c, p)' => Holds(c, p) \/ ~ Busy(p),
           worker'[c][p].step = "pacing" => cache.source_errors[p] <= now
    PROVE  IInv' /\ Spared
<1>1. /\ cache' \in DiscoveryCache /\ PagesOK(cache'.pages) /\ PageInv'
      /\ cache'.last_fetch = cache.last_fetch
      /\ cache'.source_errors = cache.source_errors
  BY PagesChanged
<1>2. QED
  BY <1>1, ClocksKept

\* A cached page answers: its listings were typed and dated when it was stored.
LEMMA ServeCachedKeeps ==
    ASSUME IInv, NEW c \in Calls, NEW p \in Providers, ServeCached(c, p)
    PROVE  IInv' /\ Spared
<1>1. TypeOK /\ PagesOK(cache.pages)
  BY TypeFacts DEF IInv
<1>2. PICK page \in Hits(Head(worker[c][p].todo)) :
        /\ cache' = [cache EXCEPT !.pages = Get(page.key)]
        /\ Answered(c, p, "ok", page.jobs)
  BY DEF ServeCached
<1>3. UNCHANGED <<now, posted, call, tickets, saved, made>> /\ worker[c][p].todo # <<>>
  BY DEF ServeCached, Searching
<1>4. PagesOK(Get(page.key)) /\ ToSet(Get(page.key)) \subseteq ToSet(cache.pages)
  BY <1>1, GetLaws, LiveLaws
<1>5. page.jobs \in Seq(Listing)
  <2>1. page \in ToSet(cache.pages)
    BY <1>1, <1>2, HitsLaws, LiveLaws
  <2>2. page \in SearchPage
    BY <1>1, <2>1, ToSetLaws DEF PagesOK
  <2>3. QED
    BY <2>2 DEF SearchPage
<1>6. Moved(c, p) /\ Ordered(c, p) /\ worker'[c][p].step = "next"
  BY <1>1, <1>2, <1>3, <1>5, AnsweredLaws
<1>7. QED
  BY <1>2, <1>3, <1>4, <1>6, LookupKeeps DEF Holds

\* A search is refused, and the expired pages go.
LEMMA RefuseKeeps ==
    ASSUME IInv, NEW c \in Calls, NEW p \in Providers, Refuse(c, p)
    PROVE  IInv' /\ Spared
<1>1. TypeOK /\ PagesOK(cache.pages)
  BY TypeFacts DEF IInv
<1>2. /\ UNCHANGED <<now, posted, call, tickets, saved, made>>
      /\ worker[c][p].todo # <<>> /\ Answered(c, p, "error", <<>>)
      /\ cache' = [cache EXCEPT !.pages = Live]
  BY DEF Refuse, Searching
<1>3. PagesOK(Live) /\ ToSet(Live) \subseteq ToSet(cache.pages)
  BY <1>1, LiveLaws
<1>4. Moved(c, p) /\ Ordered(c, p) /\ worker'[c][p].step = "next"
  <2>1. <<>> \in Seq(Listing)
    OBVIOUS
  <2>2. QED
    BY <1>1, <1>2, <2>1, AnsweredLaws
<1>5. QED
  BY <1>2, <1>3, <1>4, LookupKeeps DEF Holds

\* A battery falls asleep with the lock, at a provider that has not failed.
LEMMA SleepKeeps ==
    ASSUME IInv, NEW c \in Calls, NEW p \in Providers, Sleep(c, p)
    PROVE  IInv' /\ Spared
<1> DEFINE old == worker[c][p]
           w == [old EXCEPT !.step = "pacing"]
<1>1. TypeOK /\ PagesOK(cache.pages)
  BY TypeFacts DEF IInv
<1>2. /\ UNCHANGED <<now, posted, call, tickets, saved, made>>
      /\ old.todo # <<>> /\ old.checks = 0
      /\ cache' = [cache EXCEPT !.pages = Live]
      /\ worker' = [worker EXCEPT ![c][p] = w]
      /\ ~ Busy(p) /\ ~ Blocked(p)
  BY DEF Sleep, Searching, Ready
<1>3. PagesOK(Live) /\ ToSet(Live) \subseteq ToSet(cache.pages)
  BY <1>1, LiveLaws
<1>4. w = [old EXCEPT !.step = "pacing"]
  OBVIOUS
<1> HIDE DEF w
<1>5. Moved(c, p) /\ Ordered(c, p) /\ worker'[c][p].step = "pacing"
  <2>1. old.checks \in 0..2
    BY <1>1, WorkerFacts
  <2>2. old.checks > 0 => p = "jobicy"
    BY DEF IInv, TurnInv
  <2>3. QED
    BY <1>1, <1>2, <1>4, <2>1, <2>2, OnItsWay
<1>6. cache.source_errors[p] <= now
  <2>1. cache.source_errors[p] \in Nat /\ now \in Nat
    BY <1>1, TypeFacts, CacheFacts
  <2>2. QED
    BY <1>2, <2>1 DEF Blocked
<1>7. QED
  BY <1>2, <1>3, <1>5, <1>6, LookupKeeps

\* The provider's answer is stored: its listings are as old as the page.
LEMMA FetchAnswersKeeps ==
    ASSUME IInv, NEW c \in Calls, NEW p \in Providers, FetchAnswers(c, p)
    PROVE  IInv' /\ Spared
<1> DEFINE key == Head(worker[c][p].todo)
<1>1. TypeOK /\ PagesOK(cache.pages) /\ CacheType(cache) /\ now \in Nat /\ posted \in [Jobs -> Nat]
  BY TypeFacts DEF IInv
<1>2. /\ UNCHANGED <<now, posted, call, tickets, saved, made>>
      /\ worker[c][p].step = "fetching"
  BY DEF FetchAnswers
<1>3. worker[c][p].todo # <<>> /\ worker[c][p].todo \in Seq(SearchRequest)
  BY <1>1, <1>2, WorkerFacts DEF IInv, StepInv
<1>4. PICK records \in Records(p) :
        IF records # <<>> /\ Normalized(records) = <<>>
        THEN Answered(c, p, "error", <<>>) /\ UNCHANGED cache
        ELSE /\ cache' = [cache EXCEPT !.pages =
                    Store([key |-> key, until |-> now + TTL, jobs |-> Normalized(records)])]
             /\ Answered(c, p, "ok", Normalized(records))
  BY DEF FetchAnswers
<1>5. /\ Normalized(records) \in Seq(Listing)
      /\ \A l \in ToSet(Normalized(records)) : l.retrieved = now
  <2>1. records \in Seq(Jobs \cup {None})
    BY RecordsLaw
  <2>2. QED
    BY <1>1, <2>1, NormalizedLaws
<1>6. CASE records # <<>> /\ Normalized(records) = <<>>
  <2>1. Answered(c, p, "error", <<>>) /\ UNCHANGED cache /\ <<>> \in Seq(Listing)
    BY <1>4, <1>6
  <2>2. Moved(c, p) /\ Ordered(c, p) /\ worker'[c][p].step = "next"
    BY <1>1, <1>3, <2>1, AnsweredLaws
  <2>3. QED
    BY <1>2, <2>1, <2>2, CacheKept DEF Holds
<1>7. CASE ~ (records # <<>> /\ Normalized(records) = <<>>)
  <2> DEFINE jobs == Normalized(records)
             page == [key |-> key, until |-> now + TTL, jobs |-> jobs]
  <2>1. Answered(c, p, "ok", jobs) /\ cache' = [cache EXCEPT !.pages = Store(page)]
    BY <1>4, <1>7
  <2>2. Moved(c, p) /\ Ordered(c, p) /\ worker'[c][p].step = "next"
    BY <1>1, <1>3, <1>5, <2>1, AnsweredLaws
  <2>3. page \in SearchPage
    <3>1. key \in SearchRequest /\ now + TTL \in Nat
      BY <1>1, <1>3, PeriodAssumption
    <3>2. QED
      BY <1>5, <3>1 DEF SearchPage
  <2>4. \A l \in ToSet(page.jobs) : page.until = l.retrieved + TTL
    BY <1>5
  <2> HIDE DEF page
  <2>5. PagesOK(Store(page)) /\ ToSet(Store(page)) \subseteq ToSet(cache.pages) \cup {page}
    BY <1>1, <2>3, StoreLaws
  <2>6. \A q \in ToSet(Store(page)) :
           q \in ToSet(cache.pages) \/ \A l \in ToSet(q.jobs) : q.until = l.retrieved + TTL
    BY <2>4, <2>5
  <2>7. /\ cache' \in DiscoveryCache /\ PagesOK(cache'.pages) /\ PageInv'
        /\ cache'.last_fetch = cache.last_fetch
        /\ cache'.source_errors = cache.source_errors
    BY <2>1, <2>5, <2>6, PagesChanged
  <2>8. QED
    BY <1>2, <2>2, <2>7, ClocksKept DEF Holds
<1>8. QED
  BY <1>6, <1>7

\* A worker that fetches holds its provider's lock: it alone may set the clock.
LEMMA StartFetchKeeps ==
    ASSUME IInv, NEW c \in Calls, NEW p \in Providers, StartFetch(c, p)
    PROVE  IInv' /\ Spared
<1> DEFINE old == worker[c][p]
           w == [old EXCEPT !.step = "fetching"]
           pages == IF old.step = "pacing" THEN cache.pages ELSE Live
<1>1. TypeOK /\ PagesOK(cache.pages) /\ CacheType(cache) /\ now \in Nat
  BY TypeFacts DEF IInv
<1>2. /\ UNCHANGED <<now, posted, call, tickets, saved, made>>
      /\ worker' = [worker EXCEPT ![c][p] = w]
      /\ ~ TooSoon(p)
  BY DEF StartFetch
<1>3. \/ old.step = "ready" /\ ~ Busy(p) /\ old.todo # <<>> /\ ~ Blocked(p)
      \/ old.step = "pacing"
  BY DEF StartFetch, Searching, Ready
<1>4. cache'.pages = pages /\ cache' \in DiscoveryCache
      /\ cache'.last_fetch = [cache.last_fetch EXCEPT ![p] = now]
      /\ cache'.source_errors = cache.source_errors
  <2>1. PagesOK(Live)
    BY <1>1, LiveLaws
  <2>2. Live \in Seq(SearchPage)
    BY <2>1 DEF PagesOK
  <2>3. now \in Int
    BY <1>1
  <2>4. CASE old.step = "pacing"
    <3>1. cache' = [cache EXCEPT !.last_fetch[p] = now] /\ pages = cache.pages
      BY <2>4 DEF StartFetch, Searching, Ready
    <3> HIDE DEF pages
    <3>2. QED
      BY <1>1, <2>3, <3>1 DEF CacheType, DiscoveryCache
  <2>5. CASE old.step # "pacing"
    <3> DEFINE found == [cache EXCEPT !.pages = Live]
    <3>1. cache' = [found EXCEPT !.last_fetch[p] = now] /\ pages = Live
      BY <2>5 DEF StartFetch
    <3>2. /\ found \in DiscoveryCache /\ found.pages = Live
          /\ found.last_fetch = cache.last_fetch
          /\ found.source_errors = cache.source_errors
      BY <1>1, <2>2 DEF CacheType, DiscoveryCache
    <3> HIDE DEF pages, found
    <3>3. QED
      BY <2>3, <3>1, <3>2 DEF DiscoveryCache
  <2>6. QED
    BY <2>4, <2>5
<1>5. PagesOK(pages) /\ ToSet(pages) \subseteq ToSet(cache.pages)
  BY <1>1, LiveLaws
<1> HIDE DEF pages
<1>6. old.todo # <<>> /\ old.checks \in 0..2
  BY <1>1, <1>3, WorkerFacts DEF IInv, StepInv
<1>7. w = [old EXCEPT !.step = "fetching"]
  OBVIOUS
<1> HIDE DEF w
<1>8. old.checks > 0 => p = "jobicy"
  BY DEF IInv, TurnInv
<1>9. Moved(c, p) /\ Ordered(c, p) /\ worker'[c][p].step = "fetching"
  BY <1>1, <1>2, <1>6, <1>7, <1>8, OnItsWay
<1>10. cache.last_fetch \in [Providers -> Int] /\ cache.source_errors \in [Providers -> Nat]
  BY <1>1, CacheFacts
<1>11. Locked(c, p)
  <2>1. \A q \in Providers : cache'.last_fetch[q] >= -10
    BY <1>1, <1>4, <1>10 DEF IInv, PacingInv
  <2>2. Holds(c, p) \/ ~ Busy(p)
    BY <1>3 DEF Holds
  <2>3. QED
    BY <1>4, <1>9, <2>1, <2>2 DEF Locked
<1>12. now >= cache.last_fetch[p] + Pace
  BY <1>1, <1>2, <1>10, PeriodAssumption DEF TooSoon
<1>13. now >= cache.source_errors[p]
  <2>1. ~ Blocked(p) \/ cache.source_errors[p] <= now
    BY <1>3 DEF IInv, PacingInv
  <2>2. QED
    BY <1>1, <1>10, <2>1 DEF Blocked
<1>14. \A d \in Calls : worker[d][p].step # "fetching"
  <2>1. SUFFICES ASSUME NEW d \in Calls, worker[d][p].step = "fetching" PROVE FALSE
    OBVIOUS
  <2>2. Holds(d, p) /\ Busy(p)
    BY <2>1 DEF Holds, Busy
  <2>3. Holds(c, p) /\ old.step = "pacing"
    BY <1>3, <2>2 DEF Holds
  <2>4. c = d
    BY <2>2, <2>3 DEF IInv, LockInv
  <2>5. QED
    BY <2>1, <2>3, <2>4
<1>15. Spared
  <2>1. \A q \in Providers : q # p => cache'.last_fetch[q] = cache.last_fetch[q]
    BY <1>4, <1>10
  <2>2. SUFFICES ASSUME NEW q \in Providers, cache'.last_fetch[q] > cache.last_fetch[q]
                 PROVE  q = p
    BY <1>12, <1>13, <1>14 DEF Spared
  <2>3. cache.last_fetch[q] \in Int
    BY <1>10
  <2>4. QED
    BY <2>1, <2>2, <2>3
<1>16. CacheType(cache') /\ PageInv'
  BY <1>4, <1>5 DEF CacheType, IInv, PageInv
<1>17. WorkerStep(c, p)
  BY <1>2, <1>9, <1>11, <1>15, <1>16 DEF WorkerStep
<1>18. QED
  BY <1>15, <1>17, WorkerStepKeeps

\* Only the worker that holds the lock marks its provider as failed.
LEMMA FetchFailsKeeps ==
    ASSUME IInv, NEW c \in Calls, NEW p \in Providers, FetchFails(c, p)
    PROVE  IInv' /\ Spared
<1>1. TypeOK /\ PagesOK(cache.pages) /\ CacheType(cache) /\ now \in Nat
  BY TypeFacts DEF IInv
<1>2. /\ UNCHANGED <<now, posted, call, tickets, saved, made>>
      /\ worker[c][p].step = "fetching" /\ Answered(c, p, "error", <<>>)
      /\ cache' = [cache EXCEPT !.source_errors[p] = now + Backoff]
  BY DEF FetchFails
<1>3. worker[c][p].todo # <<>>
  BY <1>2 DEF IInv, StepInv
<1>4. Moved(c, p) /\ Ordered(c, p) /\ worker'[c][p].step = "next"
  <2>1. <<>> \in Seq(Listing)
    OBVIOUS
  <2>2. QED
    BY <1>1, <1>2, <1>3, <2>1, AnsweredLaws
<1>5. cache.last_fetch \in [Providers -> Int] /\ cache.source_errors \in [Providers -> Nat]
  BY <1>1, CacheFacts
<1>6. /\ cache' \in DiscoveryCache /\ cache'.pages = cache.pages
      /\ cache'.last_fetch = cache.last_fetch
      /\ cache'.source_errors = [cache.source_errors EXCEPT ![p] = now + Backoff]
  <2>1. now + Backoff \in Nat
    BY <1>1, PeriodAssumption
  <2>2. QED
    BY <1>1, <1>2, <2>1 DEF CacheType, DiscoveryCache
<1>7. CacheType(cache') /\ PageInv'
  BY <1>1, <1>6 DEF CacheType, IInv, PageInv
<1>8. Locked(c, p)
  <2>1. ~ Holds(c, p)'
    BY <1>4 DEF Holds
  <2>2. \A q \in Providers : cache'.last_fetch[q] >= -10
    BY <1>6 DEF IInv, PacingInv
  <2>3. \A q \in Providers : q # p => cache'.source_errors[q] = cache.source_errors[q]
    BY <1>5, <1>6
  <2>4. QED
    BY <1>2, <1>4, <2>1, <2>2, <2>3 DEF Locked
<1>9. Spared
  <2>1. \A q \in Providers : ~ cache'.last_fetch[q] > cache.last_fetch[q]
    BY <1>5, <1>6
  <2>2. QED
    BY <2>1 DEF Spared
<1>10. WorkerStep(c, p)
  BY <1>2, <1>4, <1>7, <1>8, <1>9 DEF WorkerStep
<1>11. QED
  BY <1>9, <1>10, WorkerStepKeeps

-----------------------------------------------------------------------------
\* A call's step: what the steps that begin, end and import have in common.

\* The step leaves the providers' clocks, and what the workers of other calls do.
ClocksStill == cache'.last_fetch = cache.last_fetch /\ cache'.source_errors = cache.source_errors

\* A step that leaves the clocks spares the providers.
LEMMA ClocksStillSpare == ASSUME IInv, ClocksStill PROVE Spared
<1>1. cache.last_fetch \in [Providers -> Int]
  BY TypeFacts, CacheFacts DEF IInv
<1>2. QED
  BY <1>1 DEF ClocksStill, Spared

\* The call of c begins or ends as k, with the workers ws: no worker takes a lock,
\* and each search the call was asked for is theirs to do.
Fresh(c, k, ws) ==
    /\ k \in Call /\ k.kind \in {"idle", "search", "battery", "catalogue"}
    /\ ws \in [Providers -> Worker]
    /\ \A p \in Providers : ws[p].step \in {"next", "ready"} \/ ws[p] = worker[c][p]
    /\ \A p \in Providers :
        /\ ws[p].checks > 0 => p = "jobicy"
        /\ ws[p].step = "ready" /\ ws[p].todo = <<>> => ws[p].checks > 0
        /\ k.kind \notin {"search", "battery"} => ws[p].todo = <<>>
    /\ k.kind = "idle" => k = Idle
    /\ k.kind \in {"search", "battery"} =>
        /\ \A r \in ToSet(k.searches) : ProviderFilters(r)
        /\ k.workspace \in Workspaces
        /\ \A p \in Providers :
            /\ ws[p].step = "next"
            /\ ws[p].found = <<>> /\ ws[p].todo = Group(k.searches, p)
    /\ k.kind = "search" => Len(k.searches) = 1

\* The invariant lasts through the beginning and the end of a call.
LEMMA FreshKeeps ==
    ASSUME IInv, NEW c \in Calls, NEW k, NEW ws, Fresh(c, k, ws),
           call' = [call EXCEPT ![c] = k], worker' = [worker EXCEPT ![c] = ws],
           UNCHANGED <<now, posted, cache, saved>>,
           tickets' \subseteq Ticket, made' \in 0 .. MaxEvents
    PROVE  IInv' /\ Spared
<1> USE DEF IInv
<1>1. /\ call' \in [Calls -> Call] /\ worker' \in [Calls -> [Providers -> Worker]]
      /\ call'[c] = k /\ worker'[c] = ws
      /\ \A d \in Calls : d # c => call'[d] = call[d] /\ worker'[d] = worker[d]
  BY TypeFacts DEF Fresh
<1>2. TypeOK'
  BY <1>1, TypeFacts, TypeIsNext
<1>3. StepInv'
  <2>1. ASSUME NEW d \in Calls, NEW p \in Providers
        PROVE  /\ worker'[d][p].step \in {"pacing", "fetching"} => worker'[d][p].todo # <<>>
               /\ worker'[d][p].step = "catalogue" => worker'[d][p].checks > 0
               /\ call'[d].kind \in {"search", "battery"} /\ worker'[d][p].step # "next"
                     => worker'[d][p].todo # <<>>
    <3>1. CASE d = c
      <4>1. \/ worker'[c][p].step \in {"next", "ready"}
            \/ worker'[c][p] = worker[c][p]
        BY <1>1 DEF Fresh
      <4>2. call'[c].kind \in {"search", "battery"} => worker'[c][p].step = "next"
        BY <1>1 DEF Fresh
      <4>3. QED
        BY <3>1, <4>1, <4>2 DEF StepInv
    <3>2. CASE d # c
      BY <1>1, <3>2 DEF StepInv
    <3>3. QED
      BY <3>1, <3>2
  <2>2. QED
    BY <2>1 DEF StepInv
<1>4. TurnInv'
  BY <1>1 DEF TurnInv, Fresh
<1>5. \A d \in Calls, p \in Providers : Holds(d, p)' => Holds(d, p)
  BY <1>1 DEF Holds, Fresh
<1>6. LockInv'
  BY <1>5 DEF LockInv
<1>7. PacingInv'
  <2>1. \A d \in Calls, p \in Providers :
           worker'[d][p].step = "pacing" => worker[d][p].step = "pacing"
    BY <1>1 DEF Fresh
  <2>2. QED
    BY <2>1 DEF PacingInv
<1>8. SearchInv'
  BY <1>1 DEF SearchInv, Fresh
<1>9. AccountInv'
  <2>1. SUFFICES ASSUME NEW d \in Calls, call'[d].kind \in {"search", "battery"},
                        NEW p \in Providers
                 PROVE  Accounted(d, p)'
    BY DEF AccountInv
  <2>2. CASE d = c
    <3> DEFINE group == Group(k.searches, p)
    <3>1. /\ worker'[c][p].found = <<>> /\ worker'[c][p].todo = group
          /\ call'[c].searches = k.searches
      BY <1>1, <2>1, <2>2 DEF Fresh
    <3>2. group \in Seq(SearchRequest)
      BY GroupLaws DEF Fresh, Call
    <3> HIDE DEF group
    <3>3. Len(<<>>) + Len(group) = Len(group) /\ ToSet(<<>>) = {}
      BY <3>2, ToSetLaws
    <3>4. QED
      BY <2>2, <3>1, <3>3 DEF Accounted, group
  <2>3. CASE d # c
    BY <1>1, <2>1, <2>3 DEF AccountInv, Accounted
  <2>4. QED
    BY <2>2, <2>3
<1>10. PageInv' /\ SavedInv' /\ LinkInv'
  BY DEF PageInv, SavedInv, LinkInv, Authorised
<1>11. ResolvedInv' /\ SavingInv'
  <2>1. k.kind \notin {"resolved", "saving"}
    BY DEF Fresh
  <2>2. ResolvedInv'
    BY <1>1, <2>1 DEF ResolvedInv, ImportOf, Authorised
  <2>3. SavingInv'
    BY <1>1, <2>1 DEF SavingInv
  <2>4. QED
    BY <2>2, <2>3
<1>12. Spared
  BY ClocksStillSpare DEF ClocksStill
<1>13. QED
  BY <1>2, <1>3, <1>4, <1>6, <1>7, <1>8, <1>9, <1>10, <1>11, <1>12

\* A call begins.
LEMMA BeginKeeps ==
    ASSUME IInv, NEW c \in Calls, NEW kind \in {"search", "battery"}, NEW w \in Workspaces,
           NEW searches \in Seq(SearchRequest), kind = "search" => Len(searches) = 1,
           \A r \in ToSet(searches) : ProviderFilters(r), Begin(c, kind, w, searches)
    PROVE  IInv' /\ Spared
<1> DEFINE began == IF kind = "battery" THEN now ELSE 0
           k == [Idle EXCEPT !.kind = kind, !.workspace = w, !.started = began,
                    !.searches = searches]
           ws == [p \in Providers |-> [Resting EXCEPT !.todo = Group(searches, p)]]
<1>1. TypeOK /\ now \in Nat /\ tickets \subseteq Ticket /\ made \in 0 .. MaxEvents
  BY TypeFacts DEF IInv
<1>2. call' = [call EXCEPT ![c] = k] /\ worker' = [worker EXCEPT ![c] = ws]
  BY DEF Begin
<1>3. k \in Call /\ k.kind = kind /\ k.workspace = w /\ k.searches = searches
  <2> DEFINE k1 == [Idle EXCEPT !.kind = kind]
             k2 == [k1 EXCEPT !.workspace = w]
             k3 == [k2 EXCEPT !.started = began]
  <2>1. began \in Nat
    BY <1>1
  <2>2. k = [k3 EXCEPT !.searches = searches]
    OBVIOUS
  <2>3. Idle \in Call
    BY DEF Call, Idle
  <2> HIDE DEF k, began
  <2>4. k1 \in Call /\ k1.kind = kind
    BY <2>3 DEF Call
  <2>5. k3 = [k2 EXCEPT !.started = began] /\ k2 = [k1 EXCEPT !.workspace = w]
    OBVIOUS
  <2> HIDE DEF k1, k2, k3
  <2>6. k2 \in Call /\ k2.kind = kind /\ k2.workspace = w
    BY <2>4, <2>5 DEF Call
  <2>7. k3 \in Call /\ k3.kind = kind /\ k3.workspace = w
    BY <2>1, <2>5, <2>6 DEF Call
  <2>8. QED
    BY <2>2, <2>7 DEF Call
<1>4. ASSUME NEW p \in Providers
      PROVE  /\ ws[p] \in Worker /\ ws[p].step = "next"
             /\ ws[p].found = <<>> /\ ws[p].todo = Group(searches, p)
             /\ ws[p].checks = 0
  <2>1. ws[p] = [todo |-> Group(searches, p), found |-> <<>>, checks |-> 0, step |-> "next"]
    BY DEF Resting
  <2>2. Group(searches, p) \in Seq(SearchRequest)
    BY GroupLaws
  <2> HIDE DEF ws
  <2>3. QED
    BY <2>1, <2>2 DEF Worker
<1>5. ws \in [Providers -> Worker]
  BY <1>4
<1> HIDE DEF k, ws
<1>6. Fresh(c, k, ws)
  BY <1>3, <1>4, <1>5 DEF Fresh
<1>7. /\ UNCHANGED <<now, posted, cache, saved>>
      /\ tickets' \subseteq Ticket /\ made' \in 0 .. MaxEvents
  BY <1>1, BoundAssumption DEF Begin
<1>8. QED
  BY <1>2, <1>6, <1>7, FreshKeeps

\* A search begins.
LEMMA SearchKeeps ==
    ASSUME IInv, NEW c \in Calls, NEW w \in Workspaces, NEW r \in Requests, Search(c, w, r)
    PROVE  IInv' /\ Spared
<1>1. r \in SearchRequest
  BY RequestAssumption
<1>2. <<r>> \in Seq(SearchRequest) /\ Len(<<r>>) = 1
  BY <1>1
<1>3. \A q \in ToSet(<<r>>) : ProviderFilters(q)
  BY RequestAssumption DEF ToSet
<1>4. QED
  BY <1>2, <1>3, BeginKeeps DEF Search

\* A battery begins.
LEMMA SearchBatteryKeeps ==
    ASSUME IInv, NEW c \in Calls, NEW w \in Workspaces, NEW b \in Batteries,
           SearchBattery(c, w, b)
    PROVE  IInv' /\ Spared
<1>1. b \in Seq(SearchRequest)
  BY RequestAssumption DEF BatteryRequest
<1>2. \A r \in ToSet(b) : ProviderFilters(r)
  BY RequestAssumption
<1>3. QED
  BY <1>1, <1>2, BeginKeeps DEF SearchBattery

\* A look at the catalogue begins.
LEMMA CatalogKeeps ==
    ASSUME IInv, NEW c \in Calls, Catalog(c)
    PROVE  IInv' /\ Spared
<1> DEFINE k == [Idle EXCEPT !.kind = "catalogue"]
           w == [Resting EXCEPT !.checks = 1, !.step = "ready"]
           ws == [worker[c] EXCEPT !["jobicy"] = w]
<1>1. /\ TypeOK /\ tickets \subseteq Ticket /\ made \in 0 .. MaxEvents
      /\ call \in [Calls -> Call] /\ worker \in [Calls -> [Providers -> Worker]]
  BY TypeFacts DEF IInv
<1>2. call' = [call EXCEPT ![c] = k] /\ worker' = [worker EXCEPT ![c] = ws]
  BY DEF Catalog
<1>3. k \in Call /\ k.kind = "catalogue"
  <2>1. Idle \in Call /\ k = [Idle EXCEPT !.kind = "catalogue"]
    BY DEF Call, Idle
  <2> HIDE DEF k
  <2>2. QED
    BY <2>1 DEF Call
<1>4. w \in Worker /\ w.step = "ready" /\ w.todo = <<>> /\ w.checks = 1
  <2> DEFINE v == [Resting EXCEPT !.checks = 1]
  <2>1. w = [v EXCEPT !.step = "ready"]
    OBVIOUS
  <2>2. v = [todo |-> <<>>, found |-> <<>>, checks |-> 1, step |-> "next"]
    BY DEF Resting
  <2> HIDE DEF v, w
  <2>3. w = [todo |-> <<>>, found |-> <<>>, checks |-> 1, step |-> "ready"]
    BY <2>1, <2>2
  <2>4. QED
    BY <2>3 DEF Worker
<1> HIDE DEF k, w
<1>5. /\ ws \in [Providers -> Worker]
      /\ \A p \in Providers : ws[p].step = "ready" \/ ws[p] = worker[c][p]
      /\ ws["jobicy"] = w /\ \A p \in Providers : p # "jobicy" => ws[p] = worker[c][p]
  BY <1>1, <1>4 DEF Providers
<1> HIDE DEF ws
<1>6. ASSUME NEW p \in Providers
      PROVE  /\ ws[p].checks > 0 => p = "jobicy"
             /\ ws[p].step = "ready" /\ ws[p].todo = <<>> => ws[p].checks > 0
             /\ ws[p].todo = <<>>
  <2>1. call[c].kind = "idle"
    BY DEF Catalog, Idle
  <2>2. CASE p = "jobicy"
    BY <1>4, <1>5, <2>2
  <2>3. CASE p # "jobicy"
    BY <1>5, <2>1, <2>3 DEF IInv, TurnInv
  <2>4. QED
    BY <2>2, <2>3
<1>7. Fresh(c, k, ws)
  BY <1>3, <1>5, <1>6 DEF Fresh
<1>8. /\ UNCHANGED <<now, posted, cache, saved>>
      /\ tickets' \subseteq Ticket /\ made' \in 0 .. MaxEvents
  BY <1>1, BoundAssumption DEF Catalog
<1>9. QED
  BY <1>2, <1>7, <1>8, FreshKeeps

\* The call ends, with a ticket for each offer.
LEMMA IssueKeeps ==
    ASSUME IInv, NEW c \in Calls, NEW offers,
           \A o \in offers : o.key \in SearchRequest /\ o.listing \in Listing,
           call[c].workspace \in Workspaces \/ offers = {}, Issue(c, offers)
    PROVE  IInv' /\ Spared
<1> DEFINE ws == [p \in Providers |-> Resting]
           issued == {[workspace |-> call[c].workspace, key |-> o.key, job |-> o.listing.job,
                       expires |-> now + TTL, shown |-> o.listing.edition] : o \in offers}
<1>1. TypeOK /\ tickets \subseteq Ticket /\ made \in 0 .. MaxEvents /\ now \in Nat
  BY TypeFacts DEF IInv
<1>2. Idle \in Call /\ Idle.kind = "idle"
  BY DEF Call, Idle
<1>3. Resting \in Worker /\ Resting.step = "next" /\ Resting.todo = <<>> /\ Resting.checks = 0
  BY DEF Worker, Resting
<1>4. ws \in [Providers -> Worker] /\ \A p \in Providers : ws[p] = Resting
  BY <1>3
<1>5. call' = [call EXCEPT ![c] = Idle] /\ worker' = [worker EXCEPT ![c] = ws]
  BY DEF Issue
<1>6. issued \subseteq Ticket
  <2>1. now + TTL \in Nat
    BY <1>1, PeriodAssumption
  <2>2. \A o \in offers : o.listing.job \in Jobs /\ o.listing.edition \in Nat
    BY DEF Listing
  <2>3. QED
    BY <2>1, <2>2 DEF Ticket
<1>7. tickets' = tickets \cup issued
  BY DEF Issue
<1> HIDE DEF ws, issued
<1>8. Fresh(c, Idle, ws)
  BY <1>2, <1>3, <1>4 DEF Fresh
<1>9. /\ UNCHANGED <<now, posted, cache, saved>>
      /\ tickets' \subseteq Ticket /\ made' \in 0 .. MaxEvents
  BY <1>1, <1>6, <1>7 DEF Issue
<1>10. QED
  BY <1>5, <1>8, <1>9, FreshKeeps

\* When a call is done, its coverage accounts for each of its searches.
LEMMA DoneLaws ==
    ASSUME IInv, NEW c \in Calls, NEW kind \in {"search", "battery"}, Done(c, kind)
    PROVE  /\ Coverage(c) \in Seq(SearchCoverage)
           /\ Len(Coverage(c)) = Len(call[c].searches)
           /\ {v.search : v \in ToSet(Coverage(c))} = ToSet(call[c].searches)
<1>1. call[c] \in Call /\ worker[c] \in [Providers -> Worker]
  BY TypeFacts DEF IInv
<1>2. call[c].searches \in Seq(SearchRequest)
  BY <1>1 DEF Call
<1>3. \A p \in Providers : Accounted(c, p) /\ worker[c][p].todo = <<>>
  BY DEF IInv, AccountInv, Done
<1>4. QED
  BY <1>1, <1>2, <1>3, CoverageLaws

\* A search ends, with a ticket for each listing of its page.
LEMMA FinishSearchKeeps ==
    ASSUME IInv, NEW c \in Calls, FinishSearch(c)
    PROVE  IInv' /\ Spared
<1> DEFINE verdict == Coverage(c)[1]
           offers == {[listing |-> l, key |-> verdict.search] : l \in ToSet(verdict.jobs)}
<1>1. Done(c, "search") /\ Issue(c, offers)
  BY DEF FinishSearch
<1>2. call[c].workspace \in Workspaces /\ Len(call[c].searches) = 1
  BY <1>1 DEF IInv, SearchInv, Done
<1>3. Coverage(c) \in Seq(SearchCoverage) /\ Len(Coverage(c)) = 1
  BY <1>1, <1>2, DoneLaws
<1>4. verdict \in SearchCoverage
  BY <1>3
<1> HIDE DEF verdict
<1>5. verdict.search \in SearchRequest /\ ToSet(verdict.jobs) \subseteq Listing
  BY <1>4, ToSetLaws DEF SearchCoverage
<1>6. \A o \in offers : o.key \in SearchRequest /\ o.listing \in Listing
  BY <1>5
<1> HIDE DEF offers
<1>7. QED
  BY <1>1, <1>2, <1>6, IssueKeeps

\* A battery ends, with a ticket for each offer.
LEMMA FinishBatteryKeeps ==
    ASSUME IInv, NEW c \in Calls, FinishBattery(c)
    PROVE  IInv' /\ Spared
<1> DEFINE offers == Offers(Coverage(c))
<1>1. Done(c, "battery") /\ Issue(c, offers)
  BY DEF FinishBattery
<1>2. call[c].workspace \in Workspaces
  BY <1>1 DEF IInv, SearchInv, Done
<1>3. Coverage(c) \in Seq(SearchCoverage)
  BY <1>1, DoneLaws
<1>4. offers \in OfferSets
  BY <1>3, OffersLaws
<1> HIDE DEF offers
<1>5. \A o \in offers : o.key \in SearchRequest /\ o.listing \in Listing
  BY <1>4 DEF OfferSets, Offer
<1>6. QED
  BY <1>1, <1>2, <1>5, IssueKeeps

\* A look at the catalogue ends.
LEMMA FinishCatalogKeeps ==
    ASSUME IInv, NEW c \in Calls, FinishCatalog(c)
    PROVE  IInv' /\ Spared
BY IssueKeeps DEF FinishCatalog

-----------------------------------------------------------------------------
\* The import, and the world.

\* A call that searches for nothing changes, and no worker does.
LEMMA ImportStepKeeps ==
    ASSUME IInv, NEW c \in Calls, NEW k \in Call,
           call[c].kind \notin {"search", "battery"}, k.kind \notin {"search", "battery"},
           k.kind = "idle" => k = Idle, call' = [call EXCEPT ![c] = k],
           UNCHANGED <<now, worker>>, ClocksStill
    PROVE  /\ call' \in [Calls -> Call] /\ call'[c] = k
           /\ \A d \in Calls : d # c => call'[d] = call[d]
           /\ StepInv' /\ TurnInv' /\ LockInv' /\ PacingInv' /\ SearchInv' /\ AccountInv'
           /\ Spared
<1>1. /\ call' \in [Calls -> Call] /\ call'[c] = k
      /\ \A d \in Calls : d # c => call'[d] = call[d]
  BY TypeFacts DEF IInv
<1>2. \A d \in Calls : call'[d].kind \in {"search", "battery"} => call'[d] = call[d]
  BY <1>1
<1>3. StepInv'
  BY <1>2 DEF IInv, StepInv
<1>4. TurnInv'
  <2>1. ASSUME NEW d \in Calls
        PROVE  /\ \A p \in Providers : worker'[d][p] = worker[d][p]
               /\ call'[d].kind \in {"search", "battery"} => call'[d] = call[d]
               /\ call'[d].kind \notin {"search", "battery"}
                     => call[d].kind \notin {"search", "battery"}
               /\ call'[d].kind = "idle" => call'[d] = Idle \/ call'[d] = call[d]
    BY <1>1, <1>2
  <2>2. QED
    BY <2>1 DEF IInv, TurnInv
<1>5. LockInv' /\ PacingInv'
  BY DEF IInv, LockInv, PacingInv, Holds, ClocksStill
<1>6. SearchInv'
  BY <1>2 DEF IInv, SearchInv
<1>7. AccountInv'
  BY <1>2 DEF IInv, AccountInv, Accounted
<1>8. Spared
  BY ClocksStillSpare
<1>9. QED
  BY <1>1, <1>3, <1>4, <1>5, <1>6, <1>7, <1>8

\* What a ticket resolves to is what it authorises: the page it opens is alive.
LEMMA ResolveKeeps ==
    ASSUME IInv, NEW c \in Calls, NEW t \in tickets, Resolve(c, t)
    PROVE  IInv' /\ Spared
<1>1. /\ TypeOK /\ PagesOK(cache.pages) /\ now \in Nat /\ t \in Ticket
      /\ call \in [Calls -> Call] /\ made \in 0 .. MaxEvents
  BY TypeFacts DEF IInv
<1>2. /\ call[c] = Idle /\ cache' = [cache EXCEPT !.pages = Get(t.key)] /\ t.expires > now
      /\ UNCHANGED <<now, posted, worker, tickets, saved>> /\ made' \in 0 .. MaxEvents
  <2>1. made < MaxEvents /\ made' = made + 1
    BY DEF Resolve
  <2>2. made' \in 0 .. MaxEvents
    BY <1>1, <2>1, BoundAssumption
  <2>3. QED
    BY <2>2 DEF Resolve
<1>3. /\ cache' \in DiscoveryCache /\ PagesOK(cache'.pages) /\ PageInv' /\ ClocksStill
  <2>1. PagesOK(Get(t.key)) /\ ToSet(Get(t.key)) \subseteq ToSet(cache.pages)
    BY <1>1, GetLaws, LiveLaws
  <2>2. QED
    BY <1>2, <2>1, PagesChanged DEF ClocksStill
<1>4. CacheType(cache')
  BY <1>3 DEF CacheType
<1>5. Idle \in Call /\ Idle.kind = "idle"
  BY DEF Idle, Call
<1>6. PageInv' /\ SavedInv' /\ LinkInv'
  BY <1>2, <1>3 DEF IInv, SavedInv, LinkInv, Authorised
<1>7. CASE UNCHANGED call
  <2>1. TypeOK'
    BY <1>1, <1>2, <1>4, <1>7, TypeFacts, TypeIsNext
  <2>2. /\ StepInv' /\ TurnInv' /\ LockInv' /\ PacingInv' /\ SearchInv' /\ AccountInv' /\ Spared
    <3>1. call' = [call EXCEPT ![c] = Idle]
      BY <1>1, <1>2, <1>7
    <3>2. QED
      BY <1>2, <1>3, <1>5, <3>1, ImportStepKeeps
  <2>3. ResolvedInv' /\ SavingInv'
    BY <1>2, <1>7 DEF IInv, ResolvedInv, SavingInv, ImportOf, Authorised
  <2>4. QED
    BY <1>6, <2>1, <2>2, <2>3 DEF IInv
<1>8. CASE call' # call
  <2>1. PICK l \in UNION {ToSet(page.jobs) : page \in Hits(t.key)} :
          /\ l.job = t.job /\ (ExpiryOf[l.job] # None => ExpiryOf[l.job] > now)
          /\ call' = [call EXCEPT ![c] = [Idle EXCEPT !.kind = "resolved",
                        !.workspace = t.workspace, !.started = now,
                        !.ticket = t, !.listing = l]]
    BY <1>8 DEF Resolve
  <2> DEFINE k1 == [Idle EXCEPT !.kind = "resolved"]
             k2 == [k1 EXCEPT !.workspace = t.workspace]
             k3 == [k2 EXCEPT !.started = now]
             k4 == [k3 EXCEPT !.ticket = t]
             k == [k4 EXCEPT !.listing = l]
  <2>2. call' = [call EXCEPT ![c] = k]
    BY <2>1
  <2>3. PICK page \in Hits(t.key) : l \in ToSet(page.jobs)
    BY <2>1
  <2>4. page \in ToSet(cache.pages) /\ page.until > now
    BY <1>1, HitsLaws, LiveLaws
  <2>5. l \in Listing
    <3>1. page \in SearchPage
      BY <1>1, <2>4, ToSetLaws DEF PagesOK
    <3>2. QED
      BY <2>3, <3>1, ToSetLaws DEF SearchPage
  <2>6. now < l.retrieved + TTL
    BY <1>1, <2>3, <2>4, <2>5 DEF IInv, PageInv
  <2>7. t.workspace \in Workspaces /\ t.expires \in Nat
    BY <1>1 DEF Ticket
  <2>8. /\ k \in Call /\ k.kind = "resolved" /\ k.workspace = t.workspace
        /\ k.started = now /\ k.ticket = t /\ k.listing = l
    <3>1. k1 \in Call /\ k1.kind = "resolved"
      BY <1>5 DEF Call
    <3>2. /\ k = [k4 EXCEPT !.listing = l] /\ k4 = [k3 EXCEPT !.ticket = t]
          /\ k3 = [k2 EXCEPT !.started = now] /\ k2 = [k1 EXCEPT !.workspace = t.workspace]
      OBVIOUS
    <3> HIDE DEF k1, k2, k3, k4, k
    <3>3. k2 \in Call /\ k2.kind = "resolved" /\ k2.workspace = t.workspace
      BY <2>7, <3>1, <3>2 DEF Call
    <3>4. /\ k3 \in Call /\ k3.kind = "resolved" /\ k3.workspace = t.workspace
          /\ k3.started = now
      BY <1>1, <3>2, <3>3 DEF Call
    <3>5. /\ k4 \in Call /\ k4.kind = "resolved" /\ k4.workspace = t.workspace
          /\ k4.started = now /\ k4.ticket = t
      BY <1>1, <3>2, <3>4 DEF Call
    <3>6. QED
      BY <2>5, <3>2, <3>5 DEF Call
  <2> HIDE DEF k
  <2>9. /\ call' \in [Calls -> Call] /\ call'[c] = k
        /\ \A d \in Calls : d # c => call'[d] = call[d]
        /\ StepInv' /\ TurnInv' /\ LockInv' /\ PacingInv' /\ SearchInv' /\ AccountInv' /\ Spared
    BY <1>2, <1>3, <1>5, <2>2, <2>8, ImportStepKeeps
  <2>10. TypeOK'
    BY <1>1, <1>2, <1>4, <2>9, TypeFacts, TypeIsNext
  <2>11. ResolvedInv'
    <3>1. SUFFICES ASSUME NEW d \in Calls, call'[d].kind \in {"resolved", "saving"}
                   PROVE  (ImportOf(d) \in Import /\ Authorised(ImportOf(d)))'
      BY DEF ResolvedInv
    <3>2. CASE d = c
      <4> DEFINE i == [workspace |-> t.workspace, listing |-> l, ticket |-> t, at |-> now]
      <4>1. ImportOf(c)' = i
        BY <2>8, <2>9 DEF ImportOf
      <4>2. i \in Import
        BY <1>1, <2>5, <2>7 DEF Import
      <4>3. Authorised(i)
        BY <1>1, <1>2, <2>1, <2>6, <2>7 DEF Authorised
      <4> HIDE DEF i
      <4>4. QED
        BY <3>2, <4>1, <4>2, <4>3 DEF Authorised
    <3>3. CASE d # c
      BY <2>9, <3>1, <3>3 DEF IInv, ResolvedInv, ImportOf, Authorised
    <3>4. QED
      BY <3>2, <3>3
  <2>12. SavingInv'
    BY <1>2, <2>8, <2>9 DEF IInv, SavingInv
  <2>13. QED
    BY <1>6, <2>9, <2>10, <2>11, <2>12 DEF IInv
<1>9. QED
  BY <1>7, <1>8

\* The lock makes the look for the link hold until the commit.
LEMMA LockWorkspaceKeeps ==
    ASSUME IInv, NEW c \in Calls, LockWorkspace(c)
    PROVE  IInv' /\ Spared
<1> DEFINE old == call[c]
           there == \E s \in ToSet(saved) :
                        /\ s.workspace = old.workspace
                        /\ LinkOf[s.listing.job] = LinkOf[old.listing.job]
           k1 == [old EXCEPT !.kind = "saving"]
           k == [k1 EXCEPT !.existing = there]
<1>1. /\ TypeOK /\ call \in [Calls -> Call] /\ old \in Call
  BY TypeFacts DEF IInv
<1>2. /\ old.kind = "resolved" /\ UNCHANGED <<now, posted, cache, worker, tickets, saved, made>>
      /\ \A d \in Calls : call[d].kind = "saving" => call[d].workspace # old.workspace
  BY DEF LockWorkspace
<1>3. call' = [call EXCEPT ![c] = k]
  <2> DEFINE m == [call EXCEPT ![c].kind = "saving"]
  <2>1. call' = [m EXCEPT ![c].existing = there]
    BY DEF LockWorkspace
  <2>2. m = [call EXCEPT ![c] = k1]
    OBVIOUS
  <2> HIDE DEF there, k1, m
  <2>3. QED
    BY <1>1, <2>1, <2>2
<1>4. /\ k \in Call /\ k.kind = "saving" /\ k.existing = there
      /\ k.workspace = old.workspace /\ k.started = old.started
      /\ k.ticket = old.ticket /\ k.listing = old.listing
  <2>1. there \in BOOLEAN
    OBVIOUS
  <2> HIDE DEF there, old
  <2>2. /\ k1 \in Call /\ k1.kind = "saving"
        /\ k1.workspace = old.workspace /\ k1.started = old.started
        /\ k1.ticket = old.ticket /\ k1.listing = old.listing
    BY <1>1 DEF Call
  <2>3. k = [k1 EXCEPT !.existing = there]
    OBVIOUS
  <2> HIDE DEF k, k1
  <2>4. QED
    BY <2>1, <2>2, <2>3 DEF Call
<1> HIDE DEF k
<1>5. ClocksStill
  BY <1>2 DEF ClocksStill
<1>6. /\ call' \in [Calls -> Call] /\ call'[c] = k
      /\ \A d \in Calls : d # c => call'[d] = call[d]
      /\ StepInv' /\ TurnInv' /\ LockInv' /\ PacingInv' /\ SearchInv' /\ AccountInv' /\ Spared
  BY <1>2, <1>3, <1>4, <1>5, ImportStepKeeps
<1>7. TypeOK'
  <2>1. CacheType(cache')
    BY <1>1, <1>2, TypeFacts
  <2>2. QED
    BY <1>1, <1>2, <1>6, <2>1, TypeFacts, TypeIsNext
<1>8. PageInv' /\ SavedInv' /\ LinkInv'
  BY <1>2 DEF IInv, PageInv, SavedInv, LinkInv, Authorised
<1>9. \A d \in Calls : ImportOf(d)' = ImportOf(d)
  BY <1>4, <1>6 DEF ImportOf
<1>10. ResolvedInv'
  BY <1>2, <1>6, <1>9 DEF IInv, ResolvedInv, Authorised
<1>11. SavingInv'
  <2>1. SavingInv
    BY DEF IInv
  <2>2. ASSUME NEW d \in Calls, NEW e \in Calls,
               call'[d].kind = "saving", call'[e].kind = "saving",
               call'[d].workspace = call'[e].workspace
        PROVE  d = e
    BY <1>2, <1>4, <1>6, <2>1, <2>2 DEF SavingInv
  <2>3. ASSUME NEW d \in Calls, call'[d].kind = "saving", ~ call'[d].existing,
               NEW s \in ToSet(saved), s.workspace = call'[d].workspace
        PROVE  LinkOf[s.listing.job] # LinkOf[call'[d].listing.job]
    <3>1. CASE d = c
      BY <1>4, <1>6, <2>3, <3>1
    <3>2. CASE d # c
      BY <1>6, <2>1, <2>3, <3>2 DEF SavingInv
    <3>3. QED
      BY <3>1, <3>2
  <2>4. QED
    BY <1>2, <2>2, <2>3 DEF SavingInv
<1>12. QED
  BY <1>6, <1>7, <1>8, <1>10, <1>11 DEF IInv

\* The commit adds an import of a link that is not there: nobody else could add it,
\* as the workspace was locked since the look for it.
LEMMA CommitImportKeeps ==
    ASSUME IInv, NEW c \in Calls, CommitImport(c)
    PROVE  IInv' /\ Spared
<1> DEFINE s == ImportOf(c)
<1>1. /\ TypeOK /\ saved \in Seq(Import)
  BY TypeFacts DEF IInv
<1>2. /\ call[c].kind = "saving" /\ call' = [call EXCEPT ![c] = Idle]
      /\ UNCHANGED <<now, posted, cache, worker, tickets, made>>
      /\ saved' = IF call[c].existing THEN saved ELSE Append(saved, s)
  BY DEF CommitImport, ImportOf
<1>3. Idle \in Call /\ Idle.kind = "idle"
  BY DEF Idle, Call
<1>4. s \in Import /\ Authorised(s)
  BY <1>2 DEF IInv, ResolvedInv
<1>5. s.workspace = call[c].workspace /\ s.listing = call[c].listing
  BY DEF ImportOf
<1> HIDE DEF s
<1>6. ClocksStill
  BY <1>2 DEF ClocksStill
<1>7. /\ call' \in [Calls -> Call] /\ call'[c] = Idle
      /\ \A d \in Calls : d # c => call'[d] = call[d]
      /\ StepInv' /\ TurnInv' /\ LockInv' /\ PacingInv' /\ SearchInv' /\ AccountInv' /\ Spared
  BY <1>2, <1>3, <1>6, ImportStepKeeps
<1>8. ToSet(saved') = IF call[c].existing THEN ToSet(saved) ELSE ToSet(saved) \cup {s}
  BY <1>1, <1>2, <1>4, ToSetLaws
<1>9. saved' \in Seq(Import)
  BY <1>1, <1>2, <1>4
<1>10. TypeOK'
  <2>1. CacheType(cache')
    BY <1>1, <1>2, TypeFacts
  <2>2. QED
    BY <1>1, <1>2, <1>7, <1>9, <2>1, TypeFacts, TypeIsNext
<1>11. PageInv'
  BY <1>2 DEF IInv, PageInv
<1>12. SavedInv'
  BY <1>4, <1>8 DEF IInv, SavedInv, Authorised
<1>13. LinkInv'
  <2>1. CASE call[c].existing
    BY <1>2, <2>1 DEF IInv, LinkInv
  <2>2. CASE ~ call[c].existing
    <3>1. \A i \in DOMAIN saved :
            saved[i].workspace = s.workspace
                => LinkOf[saved[i].listing.job] # LinkOf[s.listing.job]
      BY <1>2, <1>5, <2>2 DEF IInv, SavingInv, ToSet
    <3>2. /\ DOMAIN saved = 1 .. Len(saved) /\ Len(saved) \in Nat
          /\ DOMAIN saved' = 1 .. Len(saved) + 1
          /\ saved'[Len(saved) + 1] = s
          /\ \A i \in DOMAIN saved : saved'[i] = saved[i]
      BY <1>1, <1>2, <1>4, <2>2
    <3>3. \A i \in DOMAIN saved' : i \in DOMAIN saved \/ i = Len(saved) + 1
      BY <3>2
    <3>4. SUFFICES ASSUME NEW i \in DOMAIN saved', NEW j \in DOMAIN saved',
                          saved'[i].workspace = saved'[j].workspace,
                          LinkOf[saved'[i].listing.job] = LinkOf[saved'[j].listing.job]
                   PROVE  i = j
      BY DEF LinkInv
    <3>5. CASE i \in DOMAIN saved /\ j \in DOMAIN saved
      BY <3>2, <3>4, <3>5 DEF IInv, LinkInv
    <3>6. CASE i \in DOMAIN saved /\ j = Len(saved) + 1
      BY <3>1, <3>2, <3>4, <3>6
    <3>7. CASE i = Len(saved) + 1 /\ j \in DOMAIN saved
      BY <3>1, <3>2, <3>4, <3>7
    <3>8. QED
      BY <3>3, <3>5, <3>6, <3>7
  <2>3. QED
    BY <2>1, <2>2
<1>14. \A d \in Calls : call'[d].kind \in {"resolved", "saving"} =>
            d # c /\ call'[d] = call[d] /\ ImportOf(d)' = ImportOf(d)
  BY <1>3, <1>7 DEF ImportOf
<1>15. ResolvedInv'
  BY <1>14 DEF IInv, ResolvedInv, Authorised
<1>16. SavingInv'
  <2>1. \A d \in Calls : d # c /\ call[d].kind = "saving" => call[d].workspace # s.workspace
    BY <1>2, <1>5 DEF IInv, SavingInv
  <2>2. QED
    BY <1>8, <1>14, <2>1 DEF IInv, SavingInv
<1>17. QED
  BY <1>7, <1>10, <1>11, <1>12, <1>13, <1>15, <1>16 DEF IInv

\* Time goes on: what was not blocked stays so.
LEMMA TickKeeps ==
    ASSUME IInv, Tick PROVE IInv' /\ Spared
<1>1. now \in Nat /\ cache.source_errors \in [Providers -> Nat]
  BY TypeFacts, CacheFacts DEF IInv
<1>2. now' = now + 1 /\ UNCHANGED <<posted, cache, call, worker, tickets, saved, made>>
  BY DEF Tick
<1>3. TypeOK'
  BY <1>1, <1>2 DEF IInv, TypeOK
<1>4. PacingInv'
  BY <1>1, <1>2 DEF IInv, PacingInv
<1>5. StepInv' /\ TurnInv' /\ LockInv' /\ SearchInv' /\ AccountInv'
  BY <1>2 DEF IInv, StepInv, TurnInv, LockInv, Holds, SearchInv, AccountInv, Accounted
<1>6. PageInv' /\ ResolvedInv' /\ SavedInv' /\ LinkInv' /\ SavingInv'
  BY <1>2 DEF IInv, PageInv, ResolvedInv, SavedInv, LinkInv, SavingInv, ImportOf, Authorised
<1>7. Spared
  BY <1>2, ClocksStillSpare DEF ClocksStill
<1>8. QED
  BY <1>3, <1>4, <1>5, <1>6, <1>7 DEF IInv

\* A listing changes at its provider.
LEMMA EditListingKeeps ==
    ASSUME IInv, NEW j \in Jobs, EditListing(j) PROVE IInv' /\ Spared
<1>1. made \in 0 .. MaxEvents /\ posted \in [Jobs -> Nat]
  BY TypeFacts DEF IInv
<1>2. /\ posted' = [posted EXCEPT ![j] = @ + 1] /\ made' = made + 1 /\ made < MaxEvents
      /\ UNCHANGED <<now, cache, call, worker, tickets, saved>>
  BY DEF EditListing
<1>3. TypeOK'
  <2>1. posted' \in [Jobs -> Nat]
    BY <1>1, <1>2
  <2>2. made' \in 0 .. MaxEvents
    BY <1>1, <1>2, BoundAssumption
  <2>3. QED
    BY <1>2, <2>1, <2>2 DEF IInv, TypeOK
<1>4. StepInv' /\ TurnInv' /\ LockInv' /\ PacingInv' /\ SearchInv' /\ AccountInv'
  BY <1>2 DEF IInv, StepInv, TurnInv, LockInv, Holds, PacingInv, SearchInv, AccountInv, Accounted
<1>5. PageInv' /\ ResolvedInv' /\ SavedInv' /\ LinkInv' /\ SavingInv'
  BY <1>2 DEF IInv, PageInv, ResolvedInv, SavedInv, LinkInv, SavingInv, ImportOf, Authorised
<1>6. Spared
  BY <1>2, ClocksStillSpare DEF ClocksStill
<1>7. QED
  BY <1>3, <1>4, <1>5, <1>6 DEF IInv

\* The state of a process that just started, whatever was imported before.
LEMMA StartedLaws ==
    /\ CacheType(EmptyCache) /\ ToSet(EmptyCache.pages) = {}
    /\ \A p \in Providers : EmptyCache.last_fetch[p] = -10 /\ EmptyCache.source_errors[p] = 0
    /\ Idle \in Call /\ Idle.kind = "idle"
    /\ Resting \in Worker /\ Resting.step = "next" /\ Resting.todo = <<>> /\ Resting.checks = 0
<1>1. EmptyCache.pages = <<>> /\ EmptyCache \in DiscoveryCache
  BY DEF EmptyCache, DiscoveryCache
<1>2. PagesOK(<<>>)
  <2>1. <<>> \in Seq(SearchPage) /\ Len(<<>>) = 0 /\ Distinct(<<>>)
    BY DEF Distinct
  <2>2. QED
    BY <2>1, PeriodAssumption DEF PagesOK
<1>3. ToSet(<<>>) = {}
  BY ToSetLaws
<1>4. /\ Idle \in Call /\ Idle.kind = "idle"
      /\ Resting \in Worker /\ Resting.step = "next" /\ Resting.todo = <<>> /\ Resting.checks = 0
  BY DEF Idle, Call, Resting, Worker
<1>5. \A p \in Providers : EmptyCache.last_fetch[p] = -10 /\ EmptyCache.source_errors[p] = 0
  BY DEF EmptyCache
<1>6. QED
  BY <1>1, <1>2, <1>3, <1>4, <1>5 DEF CacheType

\* The process starts again: what is kept was authorised before.
LEMMA RestartKeeps ==
    ASSUME IInv, Restart PROVE IInv' /\ Spared
<1>1. made \in 0 .. MaxEvents /\ now \in Nat /\ cache.last_fetch \in [Providers -> Int]
  BY TypeFacts, CacheFacts DEF IInv
<1>2. /\ cache' = EmptyCache /\ made' = made + 1 /\ made < MaxEvents
      /\ UNCHANGED <<now, posted, tickets, saved>>
      /\ \A c \in Calls : call'[c] = Idle /\ \A p \in Providers : worker'[c][p] = Resting
  BY DEF Restart
<1>3. /\ call' \in [Calls -> Call] /\ worker' \in [Calls -> [Providers -> Worker]]
  BY StartedLaws DEF Restart
<1>4. TypeOK'
  <2>1. made' \in 0 .. MaxEvents
    BY <1>1, <1>2, BoundAssumption
  <2>2. CacheType(cache')
    BY <1>2, StartedLaws
  <2>3. QED
    BY <1>2, <1>3, <2>1, <2>2, TypeFacts, TypeIsNext DEF IInv
<1>5. StepInv' /\ TurnInv' /\ LockInv' /\ SearchInv' /\ AccountInv'
  BY <1>2, StartedLaws DEF StepInv, TurnInv, LockInv, Holds, SearchInv, AccountInv
<1>6. PacingInv'
  BY <1>2, StartedLaws DEF PacingInv
<1>7. PageInv' /\ ResolvedInv' /\ SavingInv'
  BY <1>2, StartedLaws DEF PageInv, ResolvedInv, SavingInv
<1>8. SavedInv' /\ LinkInv'
  BY <1>2 DEF IInv, SavedInv, LinkInv, Authorised
<1>9. Spared
  BY <1>1, <1>2, StartedLaws DEF IInv, PacingInv, Spared
<1>10. QED
  BY <1>4, <1>5, <1>6, <1>7, <1>8, <1>9 DEF IInv

-----------------------------------------------------------------------------
\* The theorems.

\* The invariant holds at the start.
LEMMA InitIInv == Init => IInv
<1> SUFFICES ASSUME Init PROVE IInv
  OBVIOUS
<1> USE DEF Init
<1>1. TypeOK
  <2>1. posted \in [Jobs -> Nat]
    OBVIOUS
  <2>2. /\ call \in [Calls -> Call] /\ worker \in [Calls -> [Providers -> Worker]]
        /\ CacheType(cache)
    BY StartedLaws
  <2>3. made \in 0 .. MaxEvents /\ now \in Nat /\ tickets \subseteq Ticket /\ saved \in Seq(Import)
    BY BoundAssumption
  <2>4. QED
    BY <2>1, <2>2, <2>3, TypeIs
<1>2. \A c \in Calls : call[c] = Idle /\ \A p \in Providers : worker[c][p] = Resting
  OBVIOUS
<1>3. StepInv /\ TurnInv /\ LockInv /\ SearchInv /\ AccountInv
  BY <1>2, StartedLaws DEF StepInv, TurnInv, LockInv, Holds, SearchInv, AccountInv
<1>4. PacingInv
  BY <1>2, StartedLaws DEF PacingInv
<1>5. PageInv /\ ResolvedInv /\ SavingInv
  BY <1>2, StartedLaws DEF PageInv, ResolvedInv, SavingInv
<1>6. SavedInv /\ LinkInv
  <2>1. ToSet(saved) = {} /\ DOMAIN saved = {}
    BY ToSetLaws
  <2>2. QED
    BY <2>1 DEF SavedInv, LinkInv
<1>7. QED
  BY <1>1, <1>3, <1>4, <1>5, <1>6 DEF IInv

\* Each step of the specification keeps the invariant, and spares the providers.
LEMMA NextKeeps ==
    ASSUME IInv, [Next]_vars
    PROVE  IInv' /\ Spared
<1>1. CASE UNCHANGED vars
  <2>1. /\ UNCHANGED <<now, posted, cache, call, worker, tickets, saved, made>>
    BY <1>1 DEF vars
  <2>2. TypeOK' /\ StepInv' /\ TurnInv' /\ LockInv' /\ PacingInv' /\ SearchInv'
    BY <2>1 DEF IInv, TypeOK, StepInv, TurnInv, LockInv, Holds, PacingInv, SearchInv
  <2>3. /\ AccountInv' /\ PageInv' /\ ResolvedInv' /\ SavedInv' /\ LinkInv' /\ SavingInv'
    BY <2>1 DEF IInv, AccountInv, Accounted, PageInv, ResolvedInv, SavedInv, LinkInv,
                SavingInv, ImportOf, Authorised
  <2>4. Spared
    BY <2>1, ClocksStillSpare DEF ClocksStill
  <2>5. QED
    BY <2>2, <2>3, <2>4 DEF IInv
<1>2. ASSUME NEW c \in Calls, CallStep(c)
      PROVE  IInv' /\ Spared
  <2>1. ASSUME NEW p \in Providers,
               \/ TakeNext(c, p) \/ ServeCached(c, p) \/ Refuse(c, p) \/ Sleep(c, p)
               \/ StartFetch(c, p) \/ FetchFails(c, p) \/ FetchAnswers(c, p)
        PROVE  IInv' /\ Spared
    BY <2>1, TakeNextKeeps, ServeCachedKeeps, RefuseKeeps, SleepKeeps, StartFetchKeeps,
       FetchFailsKeeps, FetchAnswersKeeps
  <2>2. CASE KnownLocations(c) \/ FetchLocations(c) \/ LocationsArrive(c)
    BY <2>2, KnownLocationsKeeps, FetchLocationsKeeps, LocationsArriveKeeps
  <2>3. CASE FinishSearch(c) \/ FinishBattery(c) \/ FinishCatalog(c)
    BY <2>3, FinishSearchKeeps, FinishBatteryKeeps, FinishCatalogKeeps
  <2>4. CASE LockWorkspace(c) \/ CommitImport(c)
    BY <2>4, LockWorkspaceKeeps, CommitImportKeeps
  <2>5. QED
    BY <1>2, <2>1, <2>2, <2>3, <2>4 DEF CallStep
<1>3. ASSUME NEW c \in Calls, NEW w \in Workspaces,
             \/ \E r \in Requests : Search(c, w, r)
             \/ \E b \in Batteries : SearchBattery(c, w, b)
      PROVE  IInv' /\ Spared
  BY <1>3, SearchKeeps, SearchBatteryKeeps
<1>4. ASSUME NEW c \in Calls, Catalog(c) \/ \E t \in tickets : Resolve(c, t)
      PROVE  IInv' /\ Spared
  BY <1>4, CatalogKeeps, ResolveKeeps
<1>5. CASE (\E j \in Jobs : EditListing(j)) \/ Tick \/ Restart
  BY <1>5, EditListingKeeps, TickKeeps, RestartKeeps
<1>6. QED
  BY <1>1, <1>2, <1>3, <1>4, <1>5 DEF Next

\* The invariant holds in every reachable state.
THEOREM Invariant == Spec => []IInv
<1>1. IInv /\ [Next]_vars => IInv'
  BY NextKeeps
<1>2. QED
  BY InitIInv, <1>1, PTL DEF Spec

\* The variables keep their types: the cache holds at most MAX_PAGES pages, one for
\* each search, whatever searches, restarts and answers follow one another.
THEOREM TypeCorrect == Spec => []TypeOK
<1>1. IInv => TypeOK
  BY DEF IInv
<1>2. QED
  BY Invariant, <1>1, PTL

\* What is saved is what its ticket authorises, and a link is imported once into a
\* workspace, whatever imports overlap (resolve_ticket, import_preview).
THEOREM ImportIsAuthorisedAlways == Spec => []ImportIsAuthorised
<1>1. IInv => ImportIsAuthorised
  BY DEF IInv, SavedInv, LinkInv, Authorised, ImportIsAuthorised
<1>2. QED
  BY Invariant, <1>1, PTL

\* A provider is asked for pages by one worker at a time, Pace after it was last asked
\* for one, and not within Backoff of a page it failed to give, however many calls
\* search (DiscoveryCache.search); of its catalogue this says nothing.
THEOREM ProviderIsSparedAlways == Spec => ProviderIsSpared
<1>1. IInv /\ [Next]_vars => [Spared]_vars
  BY NextKeeps
<1>2. Spec => [][Spared]_vars
  BY Invariant, <1>1, PTL DEF Spec
<1>3. QED
  BY <1>2 DEF ProviderIsSpared, Spared

\* A battery that is done accounts for each of its searches, and offers each listing
\* it found, with the search that found it and the page that holds it (execute_battery).
THEOREM BatteryHidesNothingAlways == Spec => []BatteryHidesNothing
<1>1. IInv => BatteryHidesNothing
  <2> SUFFICES ASSUME IInv, NEW c \in Calls, Done(c, "battery")
               PROVE  LET coverage == Coverage(c)
                          offers == Offers(coverage)
                      IN  /\ Len(coverage) = Len(call[c].searches)
                          /\ {coverage[i].search : i \in DOMAIN coverage}
                                = ToSet(call[c].searches)
                          /\ \A v \in ToSet(coverage) : \A l \in ToSet(v.jobs) :
                                \E o \in offers : /\ LinkOf[o.listing.job] = LinkOf[l.job]
                                                  /\ QueryIdentity(v.search) \in o.queries
                          /\ \A o \in offers : \E v \in ToSet(coverage) :
                                v.search = o.key /\ Contains(v.jobs, o.listing)
    BY DEF BatteryHidesNothing
  <2> DEFINE coverage == Coverage(c)
             offers == Offers(coverage)
  <2>1. /\ coverage \in Seq(SearchCoverage)
        /\ Len(coverage) = Len(call[c].searches)
        /\ {v.search : v \in ToSet(coverage)} = ToSet(call[c].searches)
    BY DoneLaws
  <2> HIDE DEF coverage
  <2>2. /\ \A v \in ToSet(coverage) : \A l \in ToSet(v.jobs) : Covers(offers, l, v.search)
        /\ \A o \in offers : \E v \in ToSet(coverage) :
              v.search = o.key /\ o.listing \in ToSet(v.jobs)
    BY <2>1, OffersLaws
  <2> HIDE DEF offers
  <2>3. {coverage[i].search : i \in DOMAIN coverage} = {v.search : v \in ToSet(coverage)}
    BY DEF ToSet
  <2>4. \A v \in ToSet(coverage) : v.jobs \in Seq(Listing)
    <3>1. ToSet(coverage) \subseteq SearchCoverage
      BY <2>1, ToSetLaws
    <3>2. QED
      BY <3>1 DEF SearchCoverage
  <2>5. \A o \in offers : \E v \in ToSet(coverage) :
            v.search = o.key /\ Contains(v.jobs, o.listing)
    BY <2>2, <2>4, ContainsLaw
  <2>6. QED
    BY <2>1, <2>2, <2>3, <2>5 DEF Covers, coverage, offers
<1>2. QED
  BY Invariant, <1>1, PTL

-----------------------------------------------------------------------------
\* Nobody waits for ever. The provers take no ENABLED: that who can go on by its guards
\* has a step to take is for TLC to say (NoCallIsStuck).

\* Where a worker waits for a lock, the one who holds it can go on.
LEMMA FreeLaw ==
    ASSUME IInv, NEW c \in Calls, NEW p \in Providers,
           worker[c][p].step # "next" \/ worker[c][p].todo # <<>>
    PROVE  \E d \in Calls : Free(d, p)
<1> DEFINE w == worker[c][p]
<1>1. /\ w.step \in {"next", "ready", "catalogue", "pacing", "fetching"}
      /\ w.checks \in 0..2
  BY WorkerFacts DEF IInv
<1>2. ASSUME NEW d \in Calls, Holds(d, p) PROVE Free(d, p)
  <2>1. worker[d][p].step = "catalogue" => worker[d][p].checks > 0
    BY DEF IInv, StepInv
  <2>2. worker[d][p].checks > 0 => p = "jobicy"
    BY DEF IInv, TurnInv
  <2>3. QED
    BY <1>2, <2>1, <2>2 DEF Holds, Free
<1>3. CASE w.step = "next"
  BY <1>3 DEF Free
<1>4. CASE Holds(c, p)
  BY <1>2, <1>4
<1>5. CASE w.step = "ready" /\ Busy(p)
  <2>1. PICK d \in Calls : Holds(d, p)
    BY <1>5 DEF Busy, Holds
  <2>2. QED
    BY <1>2, <2>1
<1>6. CASE w.step = "ready" /\ ~ Busy(p)
  <2>1. w.checks = 0 \/ w.checks > 0
    BY <1>1
  <2>2. w.checks > 0 => p = "jobicy"
    BY DEF IInv, TurnInv
  <2>3. w.todo = <<>> => w.checks > 0
    BY <1>6 DEF IInv, TurnInv
  <2>4. Ready(c, p)
    BY <1>6 DEF Ready
  <2>5. CASE w.checks > 0
    BY <2>2, <2>4, <2>5 DEF Free
  <2>6. CASE ~ w.checks > 0
    BY <2>1, <2>3, <2>4, <2>6 DEF Free, Searching
  <2>7. QED
    BY <2>5, <2>6
<1>7. QED
  BY <1>1, <1>3, <1>4, <1>5, <1>6 DEF Holds

\* While a call is open, some call can go on: the locks of the providers, of the
\* catalogue, which takes its provider's, and of the workspaces make no circle
\* (search, jobicy_locations, execute_battery, import_preview).
THEOREM SomeoneCanGoOnAlways == Spec => []SomeoneCanGoOn
<1>1. ASSUME IInv, NEW c \in Calls, call[c] # Idle
      PROVE  \E d \in Calls : CanGoOn(d)
  <2>1. call[c].kind \in {"search", "battery", "catalogue", "resolved", "saving"}
    <3>1. call[c].kind # "idle"
      BY <1>1 DEF IInv, TurnInv
    <3>2. call[c] \in Call
      BY <1>1, TypeFacts DEF IInv
    <3>3. QED
      BY <3>1, <3>2 DEF Call
  <2>2. CASE call[c].kind \in {"resolved", "saving"}
    <3>1. CASE \E d \in Calls : call[d].kind = "saving"
      BY <3>1 DEF CanGoOn
    <3>2. CASE ~ \E d \in Calls : call[d].kind = "saving"
      BY <2>2, <3>2 DEF CanGoOn
    <3>3. QED
      BY <3>1, <3>2
  <2>3. CASE call[c].kind \in {"search", "battery", "catalogue"}
    <3>1. CASE \A p \in Providers : worker[c][p].todo = <<>> /\ worker[c][p].step = "next"
      BY <2>3, <3>1 DEF CanGoOn, Done
    <3>2. CASE \E p \in Providers : worker[c][p].todo # <<>> \/ worker[c][p].step # "next"
      BY <1>1, <3>2, FreeLaw DEF CanGoOn
    <3>3. QED
      BY <3>1, <3>2
  <2>4. QED
    BY <2>1, <2>2, <2>3
<1>2. IInv => SomeoneCanGoOn
  BY <1>1 DEF SomeoneCanGoOn
<1>3. QED
  BY Invariant, <1>2, PTL

=============================================================================
