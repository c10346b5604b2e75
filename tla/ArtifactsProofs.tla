-------------------------- MODULE ArtifactsProofs --------------------------
EXTENDS Artifacts, Sequences, TLAPS

\* A request in progress beside an import knows that it is.
DisturbInv ==
    \A t \in Replacing : \A u \in Requests \ {t} : Phase(u) # "idle" => req[u].disturbed

\* An import deletes the whole bank, but for what was added since it started.
SweepInv == \A t \in Replacing : Stored \subseteq req[t].items \cup exposed

\* What a request is about to write is supported, and names claims that exist,
\* unless its row will be marked as exposed, is so already, or is gone.
Supported(r) ==
    /\ r.item # None => bank[r.item].status # "absent"
    /\ r.phase = "checked" =>
          /\ r.form \in Forms
          /\ r.form.status = "confirmed" => r.form.evidence # {}
          /\ \/ r.form.evidence \subseteq Existing
             \/ r.item = None /\ r.disturbed
             \/ r.item # None /\ (r.item \in exposed \/ r.item \notin Stored)
FormInv == \A t \in Requests : Supported(req[t])

\* A confirmed accomplishment has evidence, unless two updates of it overlapped.
SupportInv ==
    \A a \in Stored \ torn : bank[a].status = "confirmed" => bank[a].evidence # {}

\* An export that nothing has disturbed has read all claims.
ExportInv == \A t \in Exporting : req[t].disturbed \/ Existing \subseteq req[t].claims

\* The versions of a series follow one another.
VersionInv == \A s \in Series : \E n \in Nat : Versions(s) = 1 .. n

\* A version names one draft of its series.
UniqueInv == \A d, e \in drafts : d.series = e.series /\ d.version = e.version => d = e

\* A request about to insert a draft has a version that is taken or the next one.
NumberInv ==
    \A t \in Requests :
        /\ Phase(t) \in {"citing", "telling", "numbered"} => req[t].series \in Series
        /\ Phase(t) = "numbered" =>
              \A n \in Nat : Versions(req[t].series) = 1 .. n => req[t].version \in 1 .. n + 1

BankInv == DisturbInv /\ SweepInv /\ FormInv /\ SupportInv /\ CitationsSurvive /\ ExportInv
DraftInv == VersionInv /\ UniqueInv /\ NumberInv
IInv == TypeOK /\ BankInv /\ DraftInv

LEMMA IdleType == Idle \in Request
  BY DEF Idle, Request, Phases, NoRow, Row

LEMMA MaxIsNat == \A n \in Nat : Max({0} \cup 1 .. n) = n
<1> TAKE n \in Nat
<1>1. n \in {0} \cup 1 .. n /\ \A y \in {0} \cup 1 .. n : n >= y
  OBVIOUS
<1>2. QED
  BY <1>1 DEF Max

LEMMA ReadVersionType ==
    ASSUME TypeOK, VersionInv, NumberInv, NEW t \in Requests, Phase(t) = "telling"
    PROVE  [req[t] EXCEPT !.phase = "numbered",
                          !.version = Max({0} \cup Versions(req[t].series)) + 1] \in Request
<1>1. PICK n \in Nat : Versions(req[t].series) = 1 .. n
  BY DEF VersionInv, NumberInv
<1>2. Max({0} \cup Versions(req[t].series)) + 1 \in Nat
  BY <1>1, MaxIsNat
<1>3. QED
  BY <1>2 DEF TypeOK, Request, Phases

\* What an import writes.
LEMMA BringTypes ==
    ASSUME TypeOK, NEW erased, NEW lost, NEW amid \in BOOLEAN, Bring(erased, lost, amid)
    PROVE  /\ standing' \in [Claims -> {"absent", "open", "confirmed", "gone"}]
           /\ bank' \in [Accomplishments -> Row]
           /\ exposed' \in SUBSET Accomplishments
<1>1. PICK new \in SUBSET {c \in Claims : standing[c] = "absent"},
           added \in SUBSET {a \in Accomplishments : bank[a] = NoRow} :
        \E given \in [new -> {"open", "confirmed"}],
           rows \in [added -> [status : {"draft", "confirmed"}, evidence : SUBSET new]] :
            WriteDocument(erased, lost, amid, new, given, added, rows)
  BY DEF Bring
<1>2. PICK given \in [new -> {"open", "confirmed"}],
           rows \in [added -> [status : {"draft", "confirmed"}, evidence : SUBSET new]] :
            WriteDocument(erased, lost, amid, new, given, added, rows)
  BY <1>1
<1>3. \A a \in added : rows[a] \in Row
  BY DEF Row
<1>4. [status |-> "gone", evidence |-> {}] \in Row
  BY DEF Row
<1>5. QED
  BY <1>2, <1>3, <1>4 DEF TypeOK, WriteDocument

\* A request that begins has the fields it begins with.
LEMMA BeginMoves ==
    ASSUME TypeOK, NEW t \in Requests, NEW first \in Request, Begin(t, first)
    PROVE  /\ req' \in [Requests -> Request] /\ calls' \in Nat
           /\ Phase(t) = "idle"
           /\ \A u \in Requests \ {t} : req'[u] = req[u]
           /\ req'[t] = [first EXCEPT !.disturbed = Replacing # {}]
           /\ req'[t].phase = first.phase /\ req'[t].item = first.item
           /\ req'[t].row = first.row /\ req'[t].form = first.form
           /\ req'[t].series = first.series /\ req'[t].claims = first.claims
           /\ req'[t].disturbed = (Replacing # {})
<1>1. [first EXCEPT !.disturbed = Replacing # {}] \in Request
  BY DEF Request
<1>2. /\ req' \in [Requests -> Request] /\ calls' \in Nat
      /\ Phase(t) = "idle"
      /\ \A u \in Requests \ {t} : req'[u] = req[u]
      /\ req'[t] = [first EXCEPT !.disturbed = Replacing # {}]
  BY <1>1 DEF TypeOK, Begin, Call
<1>3. QED
  BY <1>2 DEF Request

LEMMA GoMoves ==
    ASSUME TypeOK, NEW t \in Requests, NEW next \in Request, Go(t, next)
    PROVE  /\ req' \in [Requests -> Request] /\ calls' \in Nat
           /\ \A u \in Requests \ {t} : req'[u] = req[u]
           /\ req'[t] = next
  BY DEF TypeOK, Go

LEMMA DisturbMoves ==
    ASSUME TypeOK, Disturb(Exporting)
    PROVE  /\ req' \in [Requests -> Request] /\ calls' \in Nat
           /\ \A u \in Requests :
                 req'[u] = IF u \in Exporting THEN [req[u] EXCEPT !.disturbed = TRUE]
                           ELSE req[u]
<1>1. \A u \in Requests : [req[u] EXCEPT !.disturbed = TRUE] \in Request
  BY DEF TypeOK, Request
<1>2. QED
  BY <1>1 DEF TypeOK, Disturb, Call

\* A request that ends is idle.
LEMMA EndMoves ==
    ASSUME TypeOK, NEW t \in Requests, End(t)
    PROVE  /\ req' \in [Requests -> Request] /\ calls' \in Nat
           /\ \A u \in Requests \ {t} : req'[u] = req[u]
           /\ req'[t] = Idle
  BY IdleType, GoMoves DEF End

\* An import that starts disturbs whatever is in progress.
LEMMA StartMoves ==
    ASSUME TypeOK, NEW t \in Requests, StartImport(t)
    PROVE  /\ req' \in [Requests -> Request] /\ calls' \in Nat
           /\ Phase(t) = "idle"
           /\ req'[t] = [Idle EXCEPT !.phase = "finding", !.items = Stored,
                                     !.disturbed = Replacing # {}]
           /\ req'[t].phase = "finding" /\ req'[t].items = Stored
           /\ req'[t].item = None /\ req'[t].disturbed = (Replacing # {})
           /\ \A u \in Requests \ {t} :
                 req'[u] = IF Phase(u) = "idle" THEN req[u]
                           ELSE [req[u] EXCEPT !.disturbed = TRUE]
<1> DEFINE first == [Idle EXCEPT !.phase = "finding", !.items = Stored,
                                 !.disturbed = Replacing # {}]
           later(u) == [req[u] EXCEPT !.disturbed = TRUE]
<1>1. first \in Request
  BY IdleType DEF Request, Phases, Stored
<1>0. /\ first.phase = "finding" /\ first.items = Stored
      /\ first.item = None /\ first.disturbed = (Replacing # {})
  BY DEF Idle
<1>2. \A u \in Requests : req[u] \in Request /\ later(u) \in Request
  BY DEF TypeOK, Request
<1>3. req' = [u \in Requests |-> IF u = t THEN first
                                ELSE IF Phase(u) = "idle" THEN req[u] ELSE later(u)]
  BY DEF StartImport
<1> HIDE DEF first, later
<1>4. /\ req' \in [Requests -> Request]
      /\ req'[t] = first
      /\ \A u \in Requests \ {t} :
            req'[u] = IF Phase(u) = "idle" THEN req[u] ELSE later(u)
  BY <1>1, <1>2, <1>3
<1>5. Phase(t) = "idle" /\ Call
  BY DEF StartImport
<1>6. calls' \in Nat
  BY <1>5 DEF Call, TypeOK
<1>7. QED
  BY <1>0, <1>4, <1>5, <1>6 DEF first, later

\* What a request begins with.
Creating(form)  == [Idle EXCEPT !.phase = "checked", !.form = form]
Opening(a, row) == [Idle EXCEPT !.phase = "opened", !.item = a, !.row = row]
Citing(s, cited) == [Idle EXCEPT !.phase = "citing", !.series = s, !.claims = cited]
Reading(read)   == [Idle EXCEPT !.phase = "exporting", !.claims = read]

LEMMA CreatingType ==
    ASSUME NEW form \in Forms
    PROVE  /\ Creating(form) \in Request /\ Creating(form).phase = "checked"
           /\ Creating(form).form = form /\ Creating(form).item = None
  BY IdleType DEF Creating, Request, Phases, Forms, Row, Idle

LEMMA OpeningType ==
    ASSUME NEW a \in Accomplishments, NEW row \in Row
    PROVE  /\ Opening(a, row) \in Request /\ Opening(a, row).phase = "opened"
           /\ Opening(a, row).item = a /\ Opening(a, row).row = row
<1>1. Opening(a, row) \in Request
  BY IdleType DEF Opening, Request, Phases
<1>2. QED
  BY <1>1 DEF Opening, Idle

LEMMA CitingType ==
    ASSUME NEW s \in Series, NEW cited \in SUBSET Claims
    PROVE  /\ Citing(s, cited) \in Request /\ Citing(s, cited).phase = "citing"
           /\ Citing(s, cited).series = s /\ Citing(s, cited).item = None
<1>1. Citing(s, cited) \in Request
  BY IdleType DEF Citing, Request, Phases
<1>2. QED
  BY <1>1 DEF Citing, Idle

LEMMA ReadingType ==
    ASSUME NEW read \in SUBSET Claims
    PROVE  /\ Reading(read) \in Request /\ Reading(read).phase = "exporting"
           /\ Reading(read).claims = read /\ Reading(read).item = None
<1>1. Reading(read) \in Request
  BY IdleType DEF Reading, Request, Phases
<1>2. QED
  BY <1>1 DEF Reading, Idle

\* How a request begins, in these words.
LEMMA Begins ==
    ASSUME NEW t \in Requests
    PROVE  /\ BeginCreate(t) => \E form \in Forms : Accepted(form) /\ Begin(t, Creating(form))
           /\ \A a \in Accomplishments :
                 BeginUpdate(t, a) => a \in Stored /\ Begin(t, Opening(a, bank[a]))
           /\ \A s \in Series :
                 BeginDraft(t, s) => \E cited \in SUBSET Claims : Begin(t, Citing(s, cited))
           /\ BeginExport(t) => Begin(t, Reading(Existing))
<1>1. BeginCreate(t) => \E form \in Forms : Accepted(form) /\ Begin(t, Creating(form))
  BY DEF BeginCreate, Creating
<1>2. \A a \in Accomplishments :
         BeginUpdate(t, a) => a \in Stored /\ Begin(t, Opening(a, bank[a]))
  BY DEF BeginUpdate, Opening
<1>3. \A s \in Series :
         BeginDraft(t, s) => \E cited \in SUBSET Claims : Begin(t, Citing(s, cited))
  BY DEF BeginDraft, Citing, Confirmed
<1>4. BeginExport(t) => Begin(t, Reading(Existing))
  BY DEF BeginExport, Reading
<1>5. QED
  BY <1>1, <1>2, <1>3, <1>4

LEMMA TypeStep == TypeOK /\ VersionInv /\ NumberInv /\ [Next]_vars => TypeOK'
<1> SUFFICES ASSUME TypeOK, VersionInv, NumberInv, [Next]_vars PROVE TypeOK'
  OBVIOUS
<1> USE DEF TypeOK
<1>1. ASSUME NEW c \in Claims, ProposeClaim(c) PROVE TypeOK'
  BY <1>1, DisturbMoves DEF ProposeClaim
<1>2. ASSUME NEW c \in Claims, DecideClaim(c) PROVE TypeOK'
  BY <1>2 DEF DecideClaim, Call
<1>3. ASSUME NEW a \in Accomplishments, DeleteAccomplishment(a) PROVE TypeOK'
  BY <1>3 DEF DeleteAccomplishment, Row, Call
<1>4. ASSUME AppendImport PROVE TypeOK'
  <2>1. /\ standing' \in [Claims -> {"absent", "open", "confirmed", "gone"}]
        /\ bank' \in [Accomplishments -> Row] /\ exposed' \in SUBSET Accomplishments
    BY <1>4, BringTypes DEF AppendImport
  <2>2. QED
    BY <1>4, <2>1, DisturbMoves DEF AppendImport
<1>5. ASSUME NEW t \in Requests, BeginCreate(t) PROVE TypeOK'
  <2>1. PICK form \in Forms : Begin(t, Creating(form))
    BY <1>5, Begins
  <2>2. QED
    BY <1>5, <2>1, CreatingType, BeginMoves DEF BeginCreate
<1>6. ASSUME NEW t \in Requests, CheckUpdate(t) PROVE TypeOK'
  <2>1. PICK form \in Forms :
          Go(t, [req[t] EXCEPT !.phase = "checked", !.form = form])
    BY <1>6 DEF CheckUpdate
  <2>2. form \in Row
    BY DEF Forms, Row
  <2>3. [req[t] EXCEPT !.phase = "checked", !.form = form] \in Request
    BY <2>2 DEF Request, Phases
  <2>4. QED
    BY <1>6, <2>1, <2>3, GoMoves DEF CheckUpdate
<1>7. ASSUME NEW t \in Requests, NEW a \in Accomplishments, CommitCreate(t, a) PROVE TypeOK'
  <2>1. req[t].form \in Row
    BY DEF Request
  <2>2. QED
    BY <1>7, <2>1, EndMoves DEF CommitCreate
<1>8. ASSUME NEW t \in Requests, NEW a \in Accomplishments, BeginUpdate(t, a) PROVE TypeOK'
  <2>1. Begin(t, Opening(a, bank[a])) /\ Opening(a, bank[a]) \in Request
    BY <1>8, Begins, OpeningType
  <2>2. QED
    BY <1>8, <2>1, BeginMoves DEF BeginUpdate
<1>9. ASSUME NEW t \in Requests, NEW a \in Accomplishments, CommitUpdate(t, a) PROVE TypeOK'
  <2>1. Written(req[t].row, req[t].form, bank[a]) \in Row
    BY DEF Written, Request, Row
  <2>2. QED
    BY <1>9, <2>1, EndMoves DEF CommitUpdate
<1>10. ASSUME NEW t \in Requests, NEW s \in Series, BeginDraft(t, s) PROVE TypeOK'
  <2>1. PICK cited \in SUBSET Claims : Begin(t, Citing(s, cited))
    BY <1>10, Begins
  <2>2. QED
    BY <1>10, <2>1, CitingType, BeginMoves DEF BeginDraft
<1>11. ASSUME NEW t \in Requests, ReadBank(t) PROVE TypeOK'
  <2>1. PICK told \in SUBSET Accomplishments :
          Go(t, [req[t] EXCEPT !.phase = "telling", !.items = told])
    BY <1>11 DEF ReadBank
  <2>2. [req[t] EXCEPT !.phase = "telling", !.items = told] \in Request
    BY DEF Request, Phases
  <2>3. QED
    BY <1>11, <2>1, <2>2, GoMoves DEF ReadBank
<1>12. ASSUME NEW t \in Requests, ReadVersion(t) PROVE TypeOK'
  BY <1>12, GoMoves, ReadVersionType DEF ReadVersion
<1>13. ASSUME NEW t \in Requests, InsertDraft(t) PROVE TypeOK'
  <2>1. /\ req[t].series \in Series \cup {None} /\ req[t].version \in Nat
        /\ Compose(req[t]) \in Content
    BY DEF Request, Compose, Content
  <2>2. req[t].series \in Series
    BY <1>13 DEF InsertDraft, NumberInv
  <2>3. [series |-> req[t].series, version |-> req[t].version,
         content |-> Compose(req[t])] \in Draft
    BY <2>1, <2>2 DEF Draft
  <2>4. QED
    BY <1>13, <2>3, EndMoves DEF InsertDraft
<1>14. ASSUME NEW t \in Requests, BeginExport(t) PROVE TypeOK'
  <2>1. Existing \in SUBSET Claims
    BY DEF Existing
  <2>2. QED
    BY <1>14, <2>1, Begins, ReadingType, BeginMoves DEF BeginExport
<1>15. ASSUME NEW t \in Requests, FinishExport(t) PROVE TypeOK'
  BY <1>15, EndMoves DEF FinishExport
<1>16. ASSUME NEW t \in Requests, StartImport(t) PROVE TypeOK'
  BY <1>16, StartMoves DEF StartImport
<1>17. ASSUME NEW t \in Requests, EraseBank(t) PROVE TypeOK'
  <2>1. [req[t] EXCEPT !.phase = "erasing", !.items = @ \cap Stored,
                       !.claims = Existing] \in Request
    BY DEF Request, Phases, Existing
  <2>2. QED
    BY <1>17, <2>1, GoMoves DEF EraseBank
<1>18. ASSUME NEW t \in Requests, EraseClaims(t) PROVE TypeOK'
  <2>1. [req[t] EXCEPT !.phase = "replacing", !.claims = @ \cap Existing] \in Request
    BY DEF Request, Phases
  <2>2. QED
    BY <1>18, <2>1, GoMoves DEF EraseClaims
<1>19. ASSUME NEW t \in Requests, CommitImport(t) PROVE TypeOK'
  <2>1. req[t].disturbed \in BOOLEAN
    BY DEF Request
  <2>2. Bring(req[t].claims, req[t].items, req[t].disturbed)
    BY <1>19 DEF CommitImport
  <2>3. /\ standing' \in [Claims -> {"absent", "open", "confirmed", "gone"}]
        /\ bank' \in [Accomplishments -> Row] /\ exposed' \in SUBSET Accomplishments
    BY <2>1, <2>2, BringTypes
  <2>4. QED
    BY <1>19, <2>3, EndMoves DEF CommitImport
<1>20. ASSUME NEW t \in Requests, RollBack(t) PROVE TypeOK'
  BY <1>20, EndMoves DEF RollBack
<1>21. CASE UNCHANGED vars
  BY <1>21 DEF vars
<1>22. QED
  BY <1>1, <1>2, <1>3, <1>4, <1>5, <1>6, <1>7, <1>8, <1>9, <1>10, <1>11, <1>12, <1>13,
     <1>14, <1>15, <1>16, <1>17, <1>18, <1>19, <1>20, <1>21 DEF Next

-----------------------------------------------------------------------------
(* The bank and the claims.                                                    *)

\* Steps other than these leave claims and bank alone.
LEMMA WorldSteps ==
    Next => \/ \E c \in Claims : ProposeClaim(c) \/ DecideClaim(c)
            \/ \E a \in Accomplishments : DeleteAccomplishment(a)
            \/ AppendImport
            \/ \E t \in Requests : CommitImport(t)
            \/ \E t \in Requests, a \in Accomplishments : CommitCreate(t, a) \/ CommitUpdate(t, a)
            \/ UNCHANGED <<standing, bank, exposed, torn>>
  BY DEF Next, BeginCreate, CheckUpdate, BeginUpdate, BeginDraft, ReadBank, ReadVersion,
         InsertDraft, BeginExport, FinishExport, StartImport, EraseBank, EraseClaims, RollBack

\* What an import writes, row by row.
Brought(erased, lost, amid, new, added) ==
    /\ \A c \in new : standing[c] = "absent" /\ c \in Existing'
    /\ \A c \in Claims \ new : c \in Existing' <=> c \in Existing \ erased
    /\ \A a \in added :
          /\ bank[a] = NoRow
          /\ bank'[a].evidence \subseteq new
          /\ bank'[a].status = "confirmed" => bank'[a].evidence # {}
          /\ bank'[a].status # "absent"
    /\ \A a \in Accomplishments \ added :
          \/ a \notin lost /\ bank'[a] = bank[a]
          \/ a \in lost /\ bank'[a] = [status |-> "gone", evidence |-> {}]
    /\ exposed' = IF amid THEN exposed \cup added ELSE exposed

LEMMA BringMoves ==
    ASSUME TypeOK, NEW erased, NEW lost, NEW amid \in BOOLEAN, Bring(erased, lost, amid)
    PROVE  \E new \in SUBSET Claims, added \in SUBSET Accomplishments :
             Brought(erased, lost, amid, new, added)
<1>1. PICK new \in SUBSET {c \in Claims : standing[c] = "absent"},
           added \in SUBSET {a \in Accomplishments : bank[a] = NoRow} :
        \E given \in [new -> {"open", "confirmed"}],
           rows \in [added -> [status : {"draft", "confirmed"}, evidence : SUBSET new]] :
            /\ Importable(new, rows)
            /\ WriteDocument(erased, lost, amid, new, given, added, rows)
  BY DEF Bring
<1>2. PICK given \in [new -> {"open", "confirmed"}],
           rows \in [added -> [status : {"draft", "confirmed"}, evidence : SUBSET new]] :
            /\ Importable(new, rows)
            /\ WriteDocument(erased, lost, amid, new, given, added, rows)
  BY <1>1
<1>3. /\ \A c \in new : standing[c] = "absent" /\ c \in Existing'
      /\ \A c \in Claims \ new : c \in Existing' <=> c \in Existing \ erased
  BY <1>2 DEF WriteDocument, Existing, TypeOK
<1>4. \A a \in added : /\ bank[a] = NoRow
                       /\ bank'[a] = rows[a]
                       /\ rows[a].evidence \subseteq new
                       /\ rows[a].status \in {"draft", "confirmed"}
                       /\ rows[a].status = "confirmed" => rows[a].evidence # {}
  BY <1>2 DEF WriteDocument, Importable
<1>5. \A a \in Accomplishments \ added :
        \/ a \notin lost /\ bank'[a] = bank[a]
        \/ a \in lost /\ bank'[a] = [status |-> "gone", evidence |-> {}]
  BY <1>2 DEF WriteDocument
<1>6. exposed' = IF amid THEN exposed \cup added ELSE exposed
  BY <1>2 DEF WriteDocument
<1> WITNESS new \in SUBSET Claims, added \in SUBSET Accomplishments
<1>8. QED
  BY <1>3, <1>4, <1>5, <1>6 DEF Brought

\* No accomplishment comes back, and only an import that replaces deletes claims.
LEMMA WorldMoves ==
    ASSUME TypeOK, FormInv, Next
    PROVE  /\ \A a \in Accomplishments :
                 bank[a].status # "absent" =>
                    bank'[a].status # "absent" /\ (a \in Stored' => a \in Stored)
           /\ exposed \subseteq exposed'
           /\ Existing \subseteq Existing' \/ \E t \in Requests : CommitImport(t)
<1> DEFINE Goal == /\ \A a \in Accomplishments :
                        bank[a].status # "absent" =>
                           bank'[a].status # "absent" /\ (a \in Stored' => a \in Stored)
                   /\ exposed \subseteq exposed'
                   /\ Existing \subseteq Existing' \/ \E t \in Requests : CommitImport(t)
<1>1. ASSUME NEW c \in Claims, ProposeClaim(c) \/ DecideClaim(c) PROVE Goal
  BY <1>1 DEF ProposeClaim, DecideClaim, Existing, Stored, TypeOK
<1>2. ASSUME NEW a \in Accomplishments, DeleteAccomplishment(a) PROVE Goal
  BY <1>2 DEF DeleteAccomplishment, Existing, Stored, TypeOK
<1>3. ASSUME NEW erased, NEW lost, NEW amid \in BOOLEAN, Bring(erased, lost, amid)
      PROVE  /\ \A a \in Accomplishments :
                   bank[a].status # "absent" =>
                      bank'[a].status # "absent" /\ (a \in Stored' => a \in Stored)
             /\ exposed \subseteq exposed'
             /\ erased = {} => Existing \subseteq Existing'
  <2>1. PICK new \in SUBSET Claims, added \in SUBSET Accomplishments :
          Brought(erased, lost, amid, new, added)
    BY <1>3, BringMoves
  <2>2. exposed \subseteq exposed' /\ (erased = {} => Existing \subseteq Existing')
    BY <2>1 DEF Existing, Brought
  <2>3. ASSUME NEW a \in Accomplishments, bank[a].status # "absent"
        PROVE  bank'[a] = bank[a] \/ bank'[a] = [status |-> "gone", evidence |-> {}]
    <3>1. a \notin added
      BY <2>1, <2>3 DEF NoRow, Brought
    <3>2. QED
      BY <2>1, <3>1 DEF Brought
  <2>4. QED
    BY <2>2, <2>3 DEF Stored
<1>4. ASSUME AppendImport PROVE Goal
  BY <1>3, <1>4 DEF AppendImport
<1>5. ASSUME NEW t \in Requests, CommitImport(t) PROVE Goal
  <2>1. req[t].disturbed \in BOOLEAN
    BY DEF TypeOK, Request
  <2>2. QED
    BY <1>3, <1>5, <2>1 DEF CommitImport
<1>6. ASSUME NEW t \in Requests, NEW a \in Accomplishments, CommitCreate(t, a) PROVE Goal
  <2>1. req[t].form \in Forms
    BY <1>6 DEF CommitCreate, FormInv, Supported, Phase
  <2>2. QED
    BY <1>6, <2>1 DEF CommitCreate, Existing, Stored, NoRow, TypeOK, Forms
<1>7. ASSUME NEW t \in Requests, NEW a \in Accomplishments, CommitUpdate(t, a) PROVE Goal
  <2>1. req[t].form \in Forms
    BY <1>7 DEF CommitUpdate, FormInv, Supported, Phase
  <2>2. bank' = [bank EXCEPT ![a] = Written(req[t].row, req[t].form, @)] /\ a \in Stored
    BY <1>7 DEF CommitUpdate
  <2>3. Written(req[t].row, req[t].form, bank[a]).status \in {"draft", "confirmed"}
    BY <2>1, <2>2 DEF Written, Forms, Stored
  <2>4. QED
    BY <1>7, <2>2, <2>3 DEF CommitUpdate, Existing, Stored, TypeOK
<1>8. ASSUME UNCHANGED <<standing, bank, exposed, torn>> PROVE Goal
  BY <1>8 DEF Existing, Stored
<1>9. QED
  BY <1>1, <1>2, <1>4, <1>5, <1>6, <1>7, <1>8, WorldSteps

-----------------------------------------------------------------------------
(* The requests.                                                               *)

Alone(t) == \A u \in Requests \ {t} : req'[u] = req[u]
ReplacePhases == {"finding", "erasing", "replacing"}

\* A request begins, goes on or ends by itself; an import that starts, and claims
\* that are added, disturb others.
Flagged ==
    \A u \in Requests : \/ req'[u] = req[u]
                        \/ req'[u] = [req[u] EXCEPT !.disturbed = TRUE]
Still == UNCHANGED <<standing, bank, drafts, exposed, torn>>
Begun(t) ==
    /\ Alone(t) /\ Phase(t) = "idle" /\ Still
    /\ req'[t].phase \in {"checked", "opened", "citing", "exporting"}
    /\ req'[t].disturbed = (Replacing # {})
    /\ req'[t].item = None \/ req'[t].item \in Stored
    /\ req'[t].phase = "checked" => req'[t].form \in Forms /\ Accepted(req'[t].form)
    /\ req'[t].phase = "citing" => req'[t].series \in Series
    /\ req'[t].phase = "exporting" => req'[t].claims = Existing
Gone(t) ==
    /\ Alone(t) /\ Phase(t) # "idle" /\ Still
    /\ req'[t].disturbed = req[t].disturbed
    /\ req'[t].item = req[t].item /\ req'[t].series = req[t].series
    /\ req'[t].phase \in ReplacePhases <=> t \in Replacing
    /\ req'[t].phase \notin {"citing", "exporting"}
    /\ t \in Replacing => req[t].items \cap Stored \subseteq req'[t].items
    /\ req'[t].phase = "checked" => req'[t].form \in Forms /\ Accepted(req'[t].form)
    /\ req'[t].phase \in {"telling", "numbered"} => Phase(t) \in {"citing", "telling"}
    /\ req'[t].phase = "numbered" =>
          req'[t].version = Max({0} \cup Versions(req[t].series)) + 1
Ended(t) == Alone(t) /\ req'[t] = Idle

LEMMA RequestSteps ==
    ASSUME TypeOK, [Next]_vars
    PROVE  \/ Flagged
           \/ \E t \in Requests : StartImport(t) \/ Begun(t) \/ Gone(t) \/ Ended(t)
<1> DEFINE Goal == \/ Flagged
                   \/ \E t \in Requests : StartImport(t) \/ Begun(t) \/ Gone(t) \/ Ended(t)
<1>1. ASSUME NEW c \in Claims, ProposeClaim(c) PROVE Goal
  BY <1>1, DisturbMoves DEF ProposeClaim, Flagged
<1>2. AppendImport => Goal
  BY DisturbMoves DEF AppendImport, Flagged
<1>3. UNCHANGED req => Goal
  BY DEF Flagged
<1>4. ASSUME NEW t \in Requests, BeginCreate(t) PROVE Begun(t)
  <2>1. PICK form \in Forms : Accepted(form) /\ Begin(t, Creating(form))
    BY <1>4, Begins
  <2>2. Still
    BY <1>4 DEF BeginCreate, Still
  <2>3. PICK first \in Request :
          /\ first.phase = "checked" /\ first.form = form /\ first.item = None
          /\ Begin(t, first)
    BY <2>1, CreatingType
  <2>4. /\ req'[t].phase = "checked" /\ req'[t].form = form /\ req'[t].item = None
        /\ req'[t].disturbed = (Replacing # {}) /\ Phase(t) = "idle" /\ Alone(t)
    BY <2>3, BeginMoves DEF Alone
  <2>5. QED
    BY <2>1, <2>2, <2>4 DEF Begun
<1>5. ASSUME NEW t \in Requests, NEW a \in Accomplishments, BeginUpdate(t, a) PROVE Begun(t)
  <2>1. bank[a] \in Row /\ a \in Stored /\ Begin(t, Opening(a, bank[a]))
    BY <1>5, Begins DEF TypeOK
  <2>2. Still
    BY <1>5 DEF BeginUpdate, Still
  <2>3. PICK first \in Request : first.phase = "opened" /\ first.item = a /\ Begin(t, first)
    BY <2>1, OpeningType
  <2>4. /\ req'[t].phase = "opened" /\ req'[t].item = a
        /\ req'[t].disturbed = (Replacing # {}) /\ Phase(t) = "idle" /\ Alone(t)
    BY <2>3, BeginMoves DEF Alone
  <2>5. QED
    BY <2>1, <2>2, <2>4 DEF Begun
<1>6. ASSUME NEW t \in Requests, NEW s \in Series, BeginDraft(t, s) PROVE Begun(t)
  <2>1. PICK cited \in SUBSET Claims : Begin(t, Citing(s, cited))
    BY <1>6, Begins
  <2>2. Still
    BY <1>6 DEF BeginDraft, Still
  <2>3. PICK first \in Request :
          /\ first.phase = "citing" /\ first.series = s /\ first.item = None
          /\ Begin(t, first)
    BY <2>1, CitingType
  <2>4. /\ req'[t].phase = "citing" /\ req'[t].series = s /\ req'[t].item = None
        /\ req'[t].disturbed = (Replacing # {}) /\ Phase(t) = "idle" /\ Alone(t)
    BY <2>3, BeginMoves DEF Alone
  <2>5. QED
    BY <2>2, <2>4 DEF Begun
<1>7. ASSUME NEW t \in Requests, BeginExport(t) PROVE Begun(t)
  <2>1. Existing \in SUBSET Claims /\ Begin(t, Reading(Existing))
    BY <1>7, Begins DEF Existing
  <2>2. Still
    BY <1>7 DEF BeginExport, Still
  <2>3. PICK first \in Request :
          /\ first.phase = "exporting" /\ first.claims = Existing /\ first.item = None
          /\ Begin(t, first)
    BY <2>1, ReadingType
  <2>4. /\ req'[t].phase = "exporting" /\ req'[t].claims = Existing /\ req'[t].item = None
        /\ req'[t].disturbed = (Replacing # {}) /\ Phase(t) = "idle" /\ Alone(t)
    BY <2>3, BeginMoves DEF Alone
  <2>5. QED
    BY <2>2, <2>4 DEF Begun
<1>8. ASSUME NEW t \in Requests,
             \/ CheckUpdate(t) \/ ReadBank(t) \/ ReadVersion(t) \/ EraseBank(t) \/ EraseClaims(t)
      PROVE  Gone(t)
  <2>0. req[t] \in Request
    BY DEF TypeOK
  <2>1. Still
    BY <1>8 DEF CheckUpdate, ReadBank, ReadVersion, EraseBank, EraseClaims, Still
  <2> USE <2>0, <2>1 DEF Go, Gone, Alone, Phase, Replacing, ReplacePhases, TypeOK, Request
  <2>2. CheckUpdate(t) => Gone(t)
    <3>1. SUFFICES ASSUME NEW form \in Forms, Accepted(form), Phase(t) = "opened",
                          Go(t, [req[t] EXCEPT !.phase = "checked", !.form = form])
                   PROVE  Gone(t)
      BY DEF CheckUpdate
    <3>2. req'[t] = [req[t] EXCEPT !.phase = "checked", !.form = form]
      BY <3>1
    <3>3. req'[t].form = form
      BY <3>2
    <3>4. QED
      BY <3>1, <3>2, <3>3
  <2>3. ReadBank(t) => Gone(t)
    BY DEF ReadBank
  <2>4. ReadVersion(t) => Gone(t)
    BY DEF ReadVersion
  <2>5. EraseBank(t) => Gone(t)
    BY DEF EraseBank
  <2>6. EraseClaims(t) => Gone(t)
    BY DEF EraseClaims
  <2>7. QED
    BY <1>8, <2>2, <2>3, <2>4, <2>5, <2>6
<1>9. ASSUME NEW t \in Requests, End(t) PROVE Ended(t)
  BY <1>9, EndMoves DEF Ended, Alone
<1>10. ASSUME NEW t \in Requests,
              \/ \E a \in Accomplishments : CommitCreate(t, a) \/ CommitUpdate(t, a)
              \/ InsertDraft(t) \/ FinishExport(t) \/ CommitImport(t) \/ RollBack(t)
       PROVE  Ended(t)
  BY <1>9, <1>10 DEF CommitCreate, CommitUpdate, InsertDraft, FinishExport, CommitImport, RollBack
<1>11. \/ \E c \in Claims : DecideClaim(c)
       \/ \E a \in Accomplishments : DeleteAccomplishment(a)
       \/ UNCHANGED vars
       => UNCHANGED req
  BY DEF DecideClaim, DeleteAccomplishment, vars
<1>12. QED
  BY <1>1, <1>2, <1>3, <1>4, <1>5, <1>6, <1>7, <1>8, <1>10, <1>11 DEF Next

LEMMA DisturbStep == TypeOK /\ DisturbInv /\ [Next]_vars => DisturbInv'
<1> SUFFICES ASSUME TypeOK, DisturbInv, [Next]_vars,
                    NEW t \in Requests, req'[t].phase \in ReplacePhases,
                    NEW u \in Requests \ {t}, req'[u].phase # "idle"
             PROVE  req'[u].disturbed
  BY DEF DisturbInv, Replacing, Phase, ReplacePhases
<1> USE DEF Phase
<1>0. req[t] \in Request /\ req[u] \in Request
  BY DEF TypeOK
<1>1. CASE Flagged
  BY <1>0, <1>1 DEF Flagged, DisturbInv, Replacing, ReplacePhases, Request
<1>2. ASSUME NEW v \in Requests, StartImport(v) PROVE req'[u].disturbed
  <2>0. /\ req'[v].disturbed = (Replacing # {})
        /\ \A w \in Requests \ {v} : req'[w] = IF req[w].phase = "idle" THEN req[w]
                                               ELSE [req[w] EXCEPT !.disturbed = TRUE]
    BY <1>2, StartMoves
  <2>1. CASE u = v
    <3>1. req'[t].phase = req[t].phase
      BY <1>0, <2>0, <2>1 DEF Request
    <3>2. QED
      BY <2>0, <2>1, <3>1 DEF Replacing, ReplacePhases
  <2>2. CASE u # v
    <3>1. req[u].phase # "idle"
      BY <2>0, <2>2
    <3>2. QED
      BY <1>0, <2>0, <2>2, <3>1 DEF Request
  <2>3. QED
    BY <2>1, <2>2
<1>3. ASSUME NEW v \in Requests, Begun(v) PROVE req'[u].disturbed
  BY <1>3 DEF Begun, Alone, DisturbInv, Replacing, ReplacePhases
<1>4. ASSUME NEW v \in Requests, Gone(v) PROVE req'[u].disturbed
  BY <1>4 DEF Gone, Alone, DisturbInv, Replacing, ReplacePhases
<1>5. ASSUME NEW v \in Requests, Ended(v) PROVE req'[u].disturbed
  BY <1>5 DEF Ended, Alone, DisturbInv, Replacing, ReplacePhases, Idle
<1>6. QED
  BY <1>1, <1>2, <1>3, <1>4, <1>5, RequestSteps

-----------------------------------------------------------------------------
(* The invariants of the bank.                                                 *)

\* Beside an import that has begun, no accomplishment is added without a mark.
LEMMA GrowsMarked ==
    ASSUME TypeOK, DisturbInv, FormInv, Next,
           NEW t \in Replacing, req'[t].phase \in ReplacePhases
    PROVE  Stored' \subseteq Stored \cup exposed'
<1> DEFINE Goal == Stored' \subseteq Stored \cup exposed'
<1>1. ASSUME NEW u \in Requests, Phase(u) # "idle", req'[u] = Idle PROVE req[u].disturbed
  <2>1. u # t
    BY <1>1 DEF Idle, ReplacePhases
  <2>2. QED
    BY <1>1, <2>1 DEF DisturbInv
<1>2. ASSUME NEW c \in Claims, ProposeClaim(c) \/ DecideClaim(c) PROVE Goal
  BY <1>2 DEF ProposeClaim, DecideClaim, Stored
<1>3. ASSUME NEW a \in Accomplishments, DeleteAccomplishment(a) PROVE Goal
  BY <1>3 DEF DeleteAccomplishment, Stored, TypeOK
<1>4. ASSUME NEW erased, NEW lost, Bring(erased, lost, TRUE) PROVE Goal
  <2>1. PICK new \in SUBSET Claims, added \in SUBSET Accomplishments :
          Brought(erased, lost, TRUE, new, added)
    BY <1>4, BringMoves
  <2>2. exposed' = exposed \cup added
    BY <2>1 DEF Brought
  <2>3. \A a \in Accomplishments \ added :
          bank'[a] = bank[a] \/ bank'[a] = [status |-> "gone", evidence |-> {}]
    BY <2>1 DEF Brought
  <2>4. QED
    BY <2>2, <2>3 DEF Stored
<1>5. ASSUME AppendImport PROVE Goal
  BY <1>4, <1>5 DEF AppendImport
<1>6. ASSUME NEW u \in Requests, CommitImport(u) PROVE Goal
  <2>1. req[u].disturbed
    BY <1>1, <1>6, EndMoves DEF CommitImport
  <2>2. req[u].disturbed = TRUE
    BY <2>1 DEF TypeOK, Request
  <2>3. QED
    BY <1>4, <1>6, <2>2 DEF CommitImport
<1>7. ASSUME NEW u \in Requests, NEW a \in Accomplishments, CommitCreate(u, a) PROVE Goal
  <2>1. req[u].disturbed
    BY <1>1, <1>7, EndMoves DEF CommitCreate
  <2>2. QED
    BY <1>7, <2>1 DEF CommitCreate, Stored, TypeOK
<1>8. ASSUME NEW u \in Requests, NEW a \in Accomplishments, CommitUpdate(u, a) PROVE Goal
  BY <1>8 DEF CommitUpdate, Stored, TypeOK
<1>9. ASSUME UNCHANGED <<standing, bank, exposed, torn>> PROVE Goal
  BY <1>9 DEF Stored
<1>10. QED
  BY <1>2, <1>3, <1>5, <1>6, <1>7, <1>8, <1>9, WorldSteps

\* A request that another one may have flagged keeps its other fields.
LEMMA FlaggedFields ==
    ASSUME TypeOK, NEW u \in Requests,
           req'[u] = req[u] \/ req'[u] = [req[u] EXCEPT !.disturbed = TRUE]
    PROVE  /\ req'[u].phase = req[u].phase /\ req'[u].item = req[u].item
           /\ req'[u].form = req[u].form /\ req'[u].series = req[u].series
           /\ req'[u].version = req[u].version /\ req'[u].claims = req[u].claims
           /\ req'[u].items = req[u].items
           /\ req[u].disturbed => req'[u].disturbed
  BY DEF TypeOK, Request

\* Each request begins, goes on, ends, or is flagged at most.
LEMMA EachRequest ==
    ASSUME TypeOK, [Next]_vars, NEW u \in Requests
    PROVE  \/ req'[u] = req[u] \/ req'[u] = [req[u] EXCEPT !.disturbed = TRUE]
           \/ StartImport(u) \/ Begun(u) \/ Gone(u) \/ Ended(u)
<1>1. CASE Flagged
  BY <1>1 DEF Flagged
<1>2. ASSUME NEW t \in Requests, StartImport(t)
      PROVE  \/ u = t \/ req'[u] = req[u] \/ req'[u] = [req[u] EXCEPT !.disturbed = TRUE]
  BY <1>2, StartMoves
<1>3. ASSUME NEW t \in Requests, Begun(t) \/ Gone(t) \/ Ended(t)
      PROVE  u = t \/ req'[u] = req[u]
  BY <1>3 DEF Begun, Gone, Ended, Alone
<1>4. QED
  BY <1>1, <1>2, <1>3, RequestSteps

LEMMA SweepStep == TypeOK /\ DisturbInv /\ FormInv /\ SweepInv /\ [Next]_vars => SweepInv'
<1> SUFFICES ASSUME TypeOK, DisturbInv, FormInv, SweepInv, [Next]_vars,
                    NEW t \in Requests, req'[t].phase \in ReplacePhases
             PROVE  Stored' \subseteq req'[t].items \cup exposed'
  BY DEF SweepInv, Replacing, Phase, ReplacePhases
<1>1. CASE StartImport(t)
  <2>1. req'[t].items = Stored /\ Stored' = Stored
    BY <1>1, StartMoves DEF StartImport, Stored
  <2>2. QED
    BY <2>1
<1>2. CASE Gone(t)
  <2>1. t \in Replacing /\ Stored' = Stored /\ exposed' = exposed
    BY <1>2 DEF Gone, Still, Stored
  <2>2. QED
    BY <1>2, <2>1 DEF Gone, SweepInv
<1>3. CASE req'[t] = req[t] \/ req'[t] = [req[t] EXCEPT !.disturbed = TRUE]
  <2>1. t \in Replacing /\ req'[t].items = req[t].items
    BY <1>3, FlaggedFields DEF Replacing, ReplacePhases, Phase
  <2>2. Stored \subseteq req[t].items \cup exposed
    BY <2>1 DEF SweepInv
  <2>3. CASE Next
    <3>1. Stored' \subseteq Stored \cup exposed' /\ exposed \subseteq exposed'
      BY <2>1, <2>3, GrowsMarked, WorldMoves
    <3>2. QED
      BY <2>1, <2>2, <3>1
  <2>4. CASE UNCHANGED vars
    BY <2>1, <2>2, <2>4 DEF vars, Stored
  <2>5. QED
    BY <2>3, <2>4
<1>4. ~Begun(t) /\ ~Ended(t)
  BY DEF Begun, Ended, ReplacePhases, Idle
<1>5. QED
  BY <1>1, <1>2, <1>3, <1>4, EachRequest

\* An import deletes what it found, and nobody else deletes claims.
LEMMA ImportErases ==
    ASSUME TypeOK, NEW t \in Requests, CommitImport(t), NEW a \in Stored, a \in req[t].items
    PROVE  a \notin Stored'
<1>1. req[t].disturbed \in BOOLEAN
  BY DEF TypeOK, Request
<1>2. PICK new \in SUBSET Claims, added \in SUBSET Accomplishments :
        Brought(req[t].claims, req[t].items, req[t].disturbed, new, added)
  BY <1>1, BringMoves DEF CommitImport
<1>3. a \notin added
  BY <1>2 DEF Brought, NoRow, Stored
<1>4. bank'[a].status = "gone"
  BY <1>2, <1>3 DEF Brought, Stored
<1>5. QED
  BY <1>4 DEF Stored

\* What supports a request, in the next state.
SupportedNext(u) ==
    /\ req'[u].item # None => bank'[req'[u].item].status # "absent"
    /\ req'[u].phase = "checked" =>
          /\ req'[u].form \in Forms
          /\ req'[u].form.status = "confirmed" => req'[u].form.evidence # {}
          /\ \/ req'[u].form.evidence \subseteq Existing'
             \/ req'[u].item = None /\ req'[u].disturbed
             \/ req'[u].item # None /\ (req'[u].item \in exposed' \/ req'[u].item \notin Stored')

\* What supports a request still does when others step.
LEMMA SupportLasts ==
    ASSUME TypeOK, DisturbInv, FormInv, SweepInv, Next, NEW u \in Requests,
           req'[u] = req[u] \/ req'[u] = [req[u] EXCEPT !.disturbed = TRUE]
    PROVE  SupportedNext(u)
<1> DEFINE i == req[u].item
<1>1. /\ req'[u].phase = req[u].phase /\ req'[u].item = i
      /\ req'[u].form = req[u].form /\ (req[u].disturbed => req'[u].disturbed)
  BY FlaggedFields
<1>2. i \in Accomplishments \cup {None} /\ Supported(req[u])
  BY DEF TypeOK, Request, FormInv
<1>3. i # None => /\ bank'[i].status # "absent"
                  /\ i \in Stored' => i \in Stored
                  /\ i \in exposed => i \in exposed'
  <2>1. i # None => bank[i].status # "absent"
    BY <1>2 DEF Supported
  <2>2. QED
    BY <1>2, <2>1, WorldMoves
<1>4. ASSUME req[u].phase = "checked"
      PROVE  \/ req[u].form.evidence \subseteq Existing'
             \/ i = None /\ req'[u].disturbed
             \/ i # None /\ (i \in exposed' \/ i \notin Stored')
  <2>1. CASE i = None /\ req[u].disturbed
    BY <1>1, <2>1
  <2>2. CASE i # None /\ (i \in exposed \/ i \notin Stored)
    BY <1>3, <2>2
  <2>3. CASE req[u].form.evidence \subseteq Existing
    <3>1. CASE Existing \subseteq Existing'
      BY <2>3, <3>1
    <3>2. ASSUME NEW t \in Requests, CommitImport(t)
          PROVE  \/ i = None /\ req'[u].disturbed
                 \/ i # None /\ (i \in exposed' \/ i \notin Stored')
      <4>1. t # u /\ t \in Replacing
        BY <1>4, <3>2 DEF CommitImport, Phase, Replacing
      <4>2. req[u].disturbed
        BY <1>4, <4>1 DEF DisturbInv, Phase
      <4>3. i \in Stored => i \in exposed \/ i \in req[t].items
        BY <4>1 DEF SweepInv
      <4>4. i \in Stored /\ i \in req[t].items => i \notin Stored'
        BY <3>2, ImportErases
      <4>5. CASE i = None
        BY <1>1, <4>2, <4>5
      <4>6. CASE i # None
        BY <1>3, <4>3, <4>4, <4>6, Zenon
      <4>7. QED
        BY <4>5, <4>6
    <3>3. QED
      BY <3>1, <3>2, WorldMoves
  <2>4. QED
    BY <1>2, <1>4, <2>1, <2>2, <2>3 DEF Supported
<1>5. QED
  BY <1>1, <1>2, <1>3, <1>4 DEF Supported, SupportedNext

LEMMA FormStep ==
    TypeOK /\ DisturbInv /\ FormInv /\ SweepInv /\ [Next]_vars => FormInv'
<1> SUFFICES ASSUME TypeOK, DisturbInv, FormInv, SweepInv, [Next]_vars, NEW u \in Requests
             PROVE  SupportedNext(u)
  BY DEF FormInv, Supported, SupportedNext
<1>1. CASE req'[u] = req[u] \/ req'[u] = [req[u] EXCEPT !.disturbed = TRUE]
  <2>1. CASE Next
    BY <1>1, <2>1, SupportLasts
  <2>2. CASE UNCHANGED vars
    <3>1. req' = req /\ bank' = bank /\ exposed' = exposed /\ Existing' = Existing /\ Stored' = Stored
      BY <2>2 DEF vars, Existing, Stored
    <3>2. Supported(req[u])
      BY DEF FormInv
    <3>3. QED
      BY <3>1, <3>2 DEF Supported, SupportedNext
  <2>3. QED
    BY <2>1, <2>2
<1>2. ASSUME StartImport(u) \/ Ended(u) PROVE SupportedNext(u)
  <2>1. StartImport(u) => req'[u].item = None /\ req'[u].phase = "finding"
    BY StartMoves
  <2>2. Ended(u) => req'[u].item = None /\ req'[u].phase = "idle"
    BY DEF Ended, Idle
  <2>3. QED
    BY <1>2, <2>1, <2>2 DEF SupportedNext
<1>3. ASSUME Still, req'[u].phase = "checked" => req'[u].form \in Forms /\ Accepted(req'[u].form),
             req'[u].item # None => bank[req'[u].item].status # "absent"
      PROVE  SupportedNext(u)
  <2>1. Existing' = Existing /\ bank' = bank
    BY <1>3 DEF Still, Existing
  <2>2. Confirmed \subseteq Existing
    BY DEF Confirmed, Existing
  <2>3. QED
    BY <1>3, <2>1, <2>2 DEF Accepted, SupportedNext
<1>4. CASE Begun(u)
  BY <1>3, <1>4 DEF Begun, Stored
<1>5. CASE Gone(u)
  <2>1. req[u].item # None => bank[req[u].item].status # "absent"
    BY DEF FormInv, Supported
  <2>2. QED
    BY <1>3, <1>5, <2>1 DEF Gone
<1>6. QED
  BY <1>1, <1>2, <1>4, <1>5, EachRequest

\* The form of a request about to commit.
LEMMA FormChecked ==
    ASSUME FormInv, NEW t \in Requests, Phase(t) = "checked"
    PROVE  /\ req[t].form \in Forms
           /\ req[t].form.status = "confirmed" => req[t].form.evidence # {}
           /\ \/ req[t].form.evidence \subseteq Existing
              \/ req[t].item = None /\ req[t].disturbed
              \/ req[t].item # None /\ (req[t].item \in exposed \/ req[t].item \notin Stored)
  BY DEF FormInv, Supported, Phase

\* What an update leaves of a row.
LEMMA WrittenRow ==
    ASSUME NEW read \in Row, NEW form \in Forms, NEW present \in Row
    PROVE  /\ Written(read, form, present).evidence \in {form.evidence, present.evidence}
           /\ read = present => Written(read, form, present) = form
<1>1. form = [status |-> form.status, evidence |-> form.evidence]
  BY DEF Forms
<1>2. QED
  BY <1>1 DEF Written, Row, Forms

LEMMA SupportStep == TypeOK /\ FormInv /\ SupportInv /\ [Next]_vars => SupportInv'
<1> SUFFICES ASSUME TypeOK, FormInv, SupportInv, [Next]_vars PROVE SupportInv'
  OBVIOUS
<1>1. ASSUME NEW c \in Claims, ProposeClaim(c) \/ DecideClaim(c) PROVE SupportInv'
  BY <1>1 DEF ProposeClaim, DecideClaim, SupportInv, Stored
<1>2. ASSUME NEW a \in Accomplishments, DeleteAccomplishment(a) PROVE SupportInv'
  BY <1>2 DEF DeleteAccomplishment, SupportInv, Stored, TypeOK
<1>3. ASSUME NEW erased, NEW lost, NEW amid \in BOOLEAN, Bring(erased, lost, amid), torn' = torn
      PROVE  SupportInv'
  <2>1. PICK new \in SUBSET Claims, added \in SUBSET Accomplishments :
          Brought(erased, lost, amid, new, added)
    BY <1>3, BringMoves
  <2>2. ASSUME NEW a \in Stored' \ torn, bank'[a].status = "confirmed"
        PROVE  bank'[a].evidence # {}
    <3>1. CASE a \in added
      BY <2>1, <2>2, <3>1 DEF Brought
    <3>2. CASE a \notin added
      <4>1. bank'[a] = bank[a]
        BY <2>1, <2>2, <3>2 DEF Brought, Stored
      <4>2. QED
        BY <2>2, <4>1 DEF SupportInv, Stored
    <3>3. QED
      BY <3>1, <3>2
  <2>3. QED
    BY <1>3, <2>2 DEF SupportInv
<1>4. ASSUME AppendImport PROVE SupportInv'
  BY <1>3, <1>4 DEF AppendImport
<1>5. ASSUME NEW t \in Requests, CommitImport(t) PROVE SupportInv'
  <2>1. req[t].disturbed \in BOOLEAN
    BY DEF TypeOK, Request
  <2>2. QED
    BY <1>3, <1>5, <2>1 DEF CommitImport
<1>6. ASSUME NEW t \in Requests, NEW a \in Accomplishments, CommitCreate(t, a) PROVE SupportInv'
  <2>1. req[t].form.status = "confirmed" => req[t].form.evidence # {}
    BY <1>6, FormChecked DEF CommitCreate
  <2>2. QED
    BY <1>6, <2>1 DEF CommitCreate, SupportInv, Stored, TypeOK
<1>7. ASSUME NEW t \in Requests, NEW a \in Accomplishments, CommitUpdate(t, a) PROVE SupportInv'
  <2> DEFINE row == Written(req[t].row, req[t].form, bank[a])
  <2>1. /\ req[t].form \in Forms
        /\ req[t].form.status = "confirmed" => req[t].form.evidence # {}
    BY <1>7, FormChecked DEF CommitUpdate
  <2>2. req[t].row = bank[a] => row = req[t].form
    BY <2>1, WrittenRow DEF TypeOK, Request
  <2> HIDE DEF row
  <2>3. bank' = [bank EXCEPT ![a] = row] /\ a \in Stored
    BY <1>7 DEF CommitUpdate, row
  <2>4. torn' = IF req[t].row = bank[a] THEN torn \ {a} ELSE torn \cup {a}
    BY <1>7 DEF CommitUpdate
  <2>5. ASSUME NEW x \in Stored' \ torn', bank'[x].status = "confirmed"
        PROVE  bank'[x].evidence # {}
    BY <2>1, <2>2, <2>3, <2>4, <2>5 DEF SupportInv, Stored, TypeOK
  <2>6. QED
    BY <2>5 DEF SupportInv
<1>8. ASSUME UNCHANGED <<standing, bank, exposed, torn>> PROVE SupportInv'
  BY <1>8 DEF SupportInv, Stored
<1>9. CASE UNCHANGED vars
  BY <1>8, <1>9 DEF vars
<1>10. QED
  BY <1>1, <1>2, <1>4, <1>5, <1>6, <1>7, <1>8, <1>9, WorldSteps

LEMMA CitationsStep ==
    TypeOK /\ FormInv /\ SweepInv /\ CitationsSurvive /\ [Next]_vars => CitationsSurvive'
<1> SUFFICES ASSUME TypeOK, FormInv, SweepInv, CitationsSurvive, [Next]_vars
             PROVE  CitationsSurvive'
  OBVIOUS
<1> DEFINE Cited(a) == bank'[a].evidence \subseteq Existing' \/ a \in exposed'
<1>1. ASSUME NEW c \in Claims, ProposeClaim(c) \/ DecideClaim(c) PROVE CitationsSurvive'
  <2>1. Existing \subseteq Existing' /\ bank' = bank /\ exposed' = exposed
    BY <1>1 DEF ProposeClaim, DecideClaim, Existing, TypeOK
  <2>2. QED
    BY <2>1 DEF CitationsSurvive, Stored
<1>2. ASSUME NEW a \in Accomplishments, DeleteAccomplishment(a) PROVE CitationsSurvive'
  BY <1>2 DEF DeleteAccomplishment, CitationsSurvive, Stored, Existing, TypeOK
<1>3. ASSUME NEW erased, NEW lost, NEW amid \in BOOLEAN, Bring(erased, lost, amid),
             \/ erased = {} \/ Stored \subseteq lost \cup exposed
      PROVE  CitationsSurvive'
  <2>1. PICK new \in SUBSET Claims, added \in SUBSET Accomplishments :
          Brought(erased, lost, amid, new, added)
    BY <1>3, BringMoves
  <2>2. exposed \subseteq exposed' /\ new \subseteq Existing'
        /\ (erased = {} => Existing \subseteq Existing')
    BY <2>1 DEF Brought, Existing
  <2>3. ASSUME NEW a \in Stored' PROVE Cited(a)
    <3>1. CASE a \in added
      BY <2>1, <2>2, <3>1 DEF Brought
    <3>2. CASE a \notin added
      <4>1. a \notin lost /\ bank'[a] = bank[a]
        BY <2>1, <2>3, <3>2 DEF Brought, Stored
      <4>2. a \in Stored
        BY <2>3, <4>1 DEF Stored
      <4>3. bank[a].evidence \subseteq Existing \/ a \in exposed
        BY <4>2 DEF CitationsSurvive
      <4>4. QED
        BY <1>3, <2>2, <4>1, <4>2, <4>3
    <3>3. QED
      BY <3>1, <3>2
  <2>4. QED
    BY <2>3 DEF CitationsSurvive
<1>4. ASSUME AppendImport PROVE CitationsSurvive'
  BY <1>3, <1>4 DEF AppendImport
<1>5. ASSUME NEW t \in Requests, CommitImport(t) PROVE CitationsSurvive'
  <2>1. req[t].disturbed \in BOOLEAN
    BY DEF TypeOK, Request
  <2>2. Stored \subseteq req[t].items \cup exposed
    BY <1>5 DEF CommitImport, SweepInv, Replacing
  <2>3. QED
    BY <1>3, <1>5, <2>1, <2>2 DEF CommitImport
<1>6. ASSUME NEW t \in Requests, NEW a \in Accomplishments, CommitCreate(t, a)
      PROVE  CitationsSurvive'
  <2>1. req[t].form.evidence \subseteq Existing \/ req[t].disturbed
    BY <1>6, FormChecked DEF CommitCreate
  <2>2. Existing' = Existing
    BY <1>6 DEF CommitCreate, Existing
  <2>3. QED
    BY <1>6, <2>1, <2>2 DEF CommitCreate, CitationsSurvive, Stored, TypeOK
<1>7. ASSUME NEW t \in Requests, NEW a \in Accomplishments, CommitUpdate(t, a)
      PROVE  CitationsSurvive'
  <2> DEFINE row == Written(req[t].row, req[t].form, bank[a])
  <2>1. req[t].form \in Forms
    BY <1>7, FormChecked DEF CommitUpdate
  <2>2. row.evidence \in {req[t].form.evidence, bank[a].evidence}
    BY <2>1, WrittenRow DEF TypeOK, Request
  <2> HIDE DEF row
  <2>3. bank' = [bank EXCEPT ![a] = row] /\ a \in Stored /\ exposed' = exposed
    BY <1>7 DEF CommitUpdate, row
  <2>4. Existing' = Existing
    BY <1>7 DEF CommitUpdate, Existing
  <2>5. req[t].item = a /\ a # None
    BY <1>7, NoneAssumption DEF CommitUpdate
  <2>6. req[t].form.evidence \subseteq Existing \/ a \in exposed
    BY <1>7, <2>3, <2>5, FormChecked DEF CommitUpdate
  <2>7. bank[a].evidence \subseteq Existing \/ a \in exposed
    BY <2>3 DEF CitationsSurvive
  <2>8. ASSUME NEW x \in Stored' PROVE Cited(x)
    <3>1. CASE x = a
      BY <2>2, <2>3, <2>4, <2>6, <2>7, <3>1 DEF TypeOK
    <3>2. CASE x # a
      <4>1. bank'[x] = bank[x] /\ x \in Stored
        BY <2>3, <2>8, <3>2 DEF Stored, TypeOK
      <4>2. QED
        BY <2>3, <2>4, <4>1 DEF CitationsSurvive
    <3>3. QED
      BY <3>1, <3>2
  <2>9. QED
    BY <2>8 DEF CitationsSurvive
<1>8. ASSUME UNCHANGED <<standing, bank, exposed, torn>> PROVE CitationsSurvive'
  BY <1>8 DEF CitationsSurvive, Stored, Existing
<1>9. CASE UNCHANGED vars
  BY <1>8, <1>9 DEF vars
<1>10. QED
  BY <1>1, <1>2, <1>4, <1>5, <1>6, <1>7, <1>8, <1>9, WorldSteps

LEMMA ExportStep == TypeOK /\ DisturbInv /\ ExportInv /\ [Next]_vars => ExportInv'
<1> SUFFICES ASSUME TypeOK, DisturbInv, ExportInv, [Next]_vars,
                    NEW t \in Requests, req'[t].phase = "exporting"
             PROVE  req'[t].disturbed \/ Existing' \subseteq req'[t].claims
  BY DEF ExportInv, Exporting, Phase
<1>1. CASE Begun(t)
  BY <1>1 DEF Begun, Still, Existing
<1>2. ~StartImport(t) /\ ~Gone(t) /\ ~Ended(t)
  <2>1. StartImport(t) => req'[t].phase = "finding"
    BY StartMoves
  <2>2. QED
    BY <2>1 DEF Gone, Ended, Idle
<1>3. CASE req'[t] = req[t] \/ req'[t] = [req[t] EXCEPT !.disturbed = TRUE]
  <2>1. /\ Phase(t) = "exporting" /\ req'[t].claims = req[t].claims
        /\ req[t].disturbed => req'[t].disturbed
    BY <1>3, FlaggedFields DEF Phase
  <2>2. req[t].disturbed \/ Existing \subseteq req[t].claims
    BY <2>1 DEF ExportInv, Exporting
  <2>3. Disturb(Exporting) => req'[t].disturbed
    <3>1. req[t] \in Request
      BY DEF TypeOK
    <3>2. Disturb(Exporting) => req'[t] = [req[t] EXCEPT !.disturbed = TRUE]
      BY <2>1, DisturbMoves DEF Exporting
    <3>3. QED
      BY <3>1, <3>2 DEF Request
  <2>4. ASSUME NEW v \in Requests, CommitImport(v) PROVE req[t].disturbed
    <3>1. v # t /\ v \in Replacing
      BY <2>1, <2>4 DEF CommitImport, Replacing, Phase
    <3>2. QED
      BY <2>1, <3>1 DEF DisturbInv
  <2>5. \/ Existing' \subseteq Existing \/ Disturb(Exporting)
        \/ \E v \in Requests : CommitImport(v)
    <3>1. ASSUME NEW c \in Claims, DecideClaim(c) PROVE Existing' \subseteq Existing
      BY <3>1 DEF DecideClaim, Existing, TypeOK
    <3>2. ASSUME UNCHANGED standing PROVE Existing' \subseteq Existing
      BY <3>2 DEF Existing
    <3>3. QED
      BY <3>1, <3>2, WorldSteps
         DEF ProposeClaim, AppendImport, DeleteAccomplishment, CommitCreate, CommitUpdate, vars
  <2>6. QED
    BY <2>1, <2>2, <2>3, <2>4, <2>5
<1>4. QED
  BY <1>1, <1>2, <1>3, EachRequest

-----------------------------------------------------------------------------
(* The numbers of the drafts.                                                  *)

LEMMA UpTo == ASSUME NEW n \in Nat, NEW m \in Nat, 1 .. n = 1 .. m PROVE n = m
<1>1. n <= m
  <2>1. n = 0 \/ n \in 1 .. m
    OBVIOUS
  <2>2. QED
    BY <2>1
<1>2. m <= n
  <2>1. m = 0 \/ m \in 1 .. n
    OBVIOUS
  <2>2. QED
    BY <2>1
<1>3. QED
  BY <1>1, <1>2

\* Only an insertion changes the drafts.
LEMMA DraftSteps ==
    [Next]_vars => drafts' = drafts \/ \E t \in Requests : InsertDraft(t)
  BY DEF Next, vars, ProposeClaim, DecideClaim, DeleteAccomplishment, AppendImport, BeginCreate,
         CheckUpdate, CommitCreate, BeginUpdate, CommitUpdate, BeginDraft, ReadBank, ReadVersion,
         BeginExport, FinishExport, StartImport, EraseBank, EraseClaims, CommitImport, RollBack

\* The versions of a series, of any set of drafts.
Numbers(rows, s) == {d.version : d \in {x \in rows : x.series = s}}

LEMMA NumbersGrow ==
    ASSUME NEW rows, NEW d, NEW s
    PROVE  Numbers(rows \cup {d}, s) = IF d.series = s THEN Numbers(rows, s) \cup {d.version}
                                       ELSE Numbers(rows, s)
<1>1. ASSUME NEW v
      PROVE  v \in Numbers(rows \cup {d}, s) <=>
               v \in Numbers(rows, s) \/ (d.series = s /\ v = d.version)
  BY DEF Numbers
<1>2. QED
  BY <1>1

\* A draft that the constraint accepts takes the next number of its series.
LEMMA InsertMoves ==
    ASSUME TypeOK, VersionInv, NumberInv, NEW t \in Requests, InsertDraft(t)
    PROVE  \E s \in Series, n \in Nat, d \in Draft :
             /\ d.series = s /\ d.version = n + 1 /\ drafts' = drafts \cup {d}
             /\ Versions(s) = 1 .. n /\ Versions(s)' = 1 .. n + 1
             /\ \A x \in Series \ {s} : Versions(x)' = Versions(x)
<1>1. PICK s \in Series : s = req[t].series
  BY DEF InsertDraft, NumberInv
<1>2. PICK d \in Draft : /\ d.series = s /\ d.version = req[t].version
                         /\ drafts' = drafts \cup {d}
  <2> DEFINE new == [series |-> s, version |-> req[t].version, content |-> Compose(req[t])]
  <2>1. req[t].version \in Nat /\ Compose(req[t]) \in Content
    BY DEF TypeOK, Request, Compose, Content
  <2>2. new \in Draft /\ new.series = s /\ new.version = req[t].version
    BY <2>1 DEF Draft
  <2>3. drafts' = drafts \cup {new}
    BY <1>1 DEF InsertDraft
  <2>4. QED
    BY <2>2, <2>3
<1>3. PICK n \in Nat : Versions(s) = 1 .. n
  BY DEF VersionInv
<1>4. req[t].version \in 1 .. n + 1 /\ req[t].version \notin 1 .. n
  BY <1>1, <1>3 DEF NumberInv, InsertDraft
<1>5. d.version = n + 1
  BY <1>2, <1>4
<1>6. \A x : Versions(x) = Numbers(drafts, x) /\ Versions(x)' = Numbers(drafts', x)
  BY DEF Versions, Numbers
<1>7. Versions(s)' = 1 .. n + 1
  <2>1. Versions(s)' = 1 .. n \cup {n + 1}
    BY <1>2, <1>3, <1>5, <1>6, NumbersGrow
  <2>2. QED
    BY <2>1
<1>8. \A x \in Series \ {s} : Versions(x)' = Versions(x)
  <2>1. ASSUME NEW x \in Series \ {s} PROVE Versions(x)' = Versions(x)
    <3>0. d.series # x
      BY <1>2, <2>1
    <3>1. Numbers(drafts \cup {d}, x) = Numbers(drafts, x)
      BY <3>0, NumbersGrow
    <3>2. QED
      BY <1>2, <1>6, <3>1
  <2>2. QED
    BY <2>1
<1>9. WITNESS s \in Series, n \in Nat, d \in Draft
<1>10. QED
  BY <1>2, <1>3, <1>5, <1>7, <1>8

LEMMA VersionStep == TypeOK /\ VersionInv /\ NumberInv /\ [Next]_vars => VersionInv'
<1> SUFFICES ASSUME TypeOK, VersionInv, NumberInv, [Next]_vars PROVE VersionInv'
  OBVIOUS
<1>1. CASE drafts' = drafts
  BY <1>1 DEF VersionInv, Versions
<1>2. ASSUME NEW t \in Requests, InsertDraft(t) PROVE VersionInv'
  <2>1. PICK s \in Series, n \in Nat :
          /\ Versions(s)' = 1 .. n + 1
          /\ \A x \in Series \ {s} : Versions(x)' = Versions(x)
    BY <1>2, InsertMoves
  <2>2. ASSUME NEW x \in Series PROVE \E k \in Nat : Versions(x)' = 1 .. k
    <3>1. CASE x = s
      <4>1. n + 1 \in Nat
        OBVIOUS
      <4>2. QED
        BY <2>1, <3>1, <4>1
    <3>2. CASE x # s
      BY <2>1, <3>2 DEF VersionInv
    <3>3. QED
      BY <3>1, <3>2
  <2>3. QED
    BY <2>2 DEF VersionInv
<1>3. QED
  BY <1>1, <1>2, DraftSteps

LEMMA UniqueStep == TypeOK /\ VersionInv /\ NumberInv /\ UniqueInv /\ [Next]_vars => UniqueInv'
<1> SUFFICES ASSUME TypeOK, VersionInv, NumberInv, UniqueInv, [Next]_vars PROVE UniqueInv'
  OBVIOUS
<1>1. CASE drafts' = drafts
  BY <1>1 DEF UniqueInv
<1>2. ASSUME NEW t \in Requests, InsertDraft(t) PROVE UniqueInv'
  <2>1. PICK s \in Series, n \in Nat, d \in Draft :
          /\ d.series = s /\ d.version = n + 1 /\ drafts' = drafts \cup {d}
          /\ Versions(s) = 1 .. n
    BY <1>2, InsertMoves
  <2>2. \A e \in drafts : e.series = s => e.version \in 1 .. n
    BY <2>1 DEF Versions
  <2>3. \A e \in drafts : ~(e.series = d.series /\ e.version = d.version)
    BY <2>1, <2>2
  <2>4. QED
    BY <2>1, <2>3 DEF UniqueInv
<1>3. QED
  BY <1>1, <1>2, DraftSteps

LEMMA NumberStep == TypeOK /\ VersionInv /\ NumberInv /\ [Next]_vars => NumberInv'
<1> SUFFICES ASSUME TypeOK, VersionInv, NumberInv, [Next]_vars, NEW u \in Requests,
                    req'[u].phase \in {"citing", "telling", "numbered"}
             PROVE  /\ req'[u].series \in Series
                    /\ req'[u].phase = "numbered" =>
                          \A m \in Nat : Numbers(drafts', req'[u].series) = 1 .. m =>
                             req'[u].version \in 1 .. m + 1
  BY DEF NumberInv, Phase, Versions, Numbers
<1>0. \A x : Versions(x)' = Numbers(drafts', x)
  BY DEF Versions, Numbers
<1>1. CASE req'[u] = req[u] \/ req'[u] = [req[u] EXCEPT !.disturbed = TRUE]
  <2>1. /\ Phase(u) = req'[u].phase /\ req'[u].series = req[u].series
        /\ req'[u].version = req[u].version
    BY <1>1, FlaggedFields DEF Phase
  <2>2. PICK s \in Series : s = req[u].series
    BY <2>1 DEF NumberInv
  <2>3. ASSUME Phase(u) = "numbered", NEW m \in Nat, Versions(s)' = 1 .. m
        PROVE  req[u].version \in 1 .. m + 1
    <3>1. PICK n \in Nat : Versions(s) = 1 .. n
      BY DEF VersionInv
    <3>2. req[u].version \in 1 .. n + 1
      BY <2>2, <2>3, <3>1 DEF NumberInv
    <3>3. Versions(s)' = 1 .. n \/ Versions(s)' = 1 .. n + 1
      <4>1. CASE drafts' = drafts
        BY <3>1, <4>1 DEF Versions
      <4>2. ASSUME NEW t \in Requests, InsertDraft(t)
            PROVE  Versions(s)' = 1 .. n \/ Versions(s)' = 1 .. n + 1
        <5>1. PICK z \in Series, k \in Nat :
                /\ Versions(z) = 1 .. k /\ Versions(z)' = 1 .. k + 1
                /\ \A x \in Series \ {z} : Versions(x)' = Versions(x)
          BY <4>2, InsertMoves
        <5>2. z = s => k = n
          BY <3>1, <5>1, UpTo
        <5>3. CASE z = s
          BY <5>1, <5>2, <5>3
        <5>4. CASE z # s
          BY <3>1, <5>1, <5>4
        <5>5. QED
          BY <5>3, <5>4
      <4>3. QED
        BY <4>1, <4>2, DraftSteps
    <3>4. m = n \/ m = n + 1
      BY <2>3, <3>3, UpTo
    <3>5. QED
      BY <3>2, <3>4
  <2>4. QED
    BY <1>0, <2>1, <2>2, <2>3
<1>2. CASE Gone(u)
  <2>1. PICK s \in Series : s = req[u].series
    BY <1>2 DEF Gone, NumberInv
  <2>2. PICK n \in Nat : Versions(s) = 1 .. n
    BY DEF VersionInv
  <2>3. Versions(s)' = 1 .. n
    BY <1>2, <2>2 DEF Gone, Still, Versions
  <2>4. req'[u].phase = "numbered" => req'[u].version = n + 1
    BY <1>2, <2>1, <2>2, MaxIsNat DEF Gone
  <2>5. ASSUME NEW m \in Nat, Versions(s)' = 1 .. m PROVE m = n
    BY <2>3, <2>5, UpTo
  <2>6. QED
    BY <1>0, <1>2, <2>1, <2>4, <2>5 DEF Gone
<1>3. CASE Begun(u)
  BY <1>3 DEF Begun
<1>4. ~StartImport(u) /\ ~Ended(u)
  <2>1. StartImport(u) => req'[u].phase = "finding"
    BY StartMoves
  <2>2. QED
    BY <2>1 DEF Ended, Idle
<1>5. QED
  BY <1>1, <1>2, <1>3, <1>4, EachRequest

-----------------------------------------------------------------------------
(* The theorems.                                                               *)

LEMMA InitInv == Init => IInv
<1> SUFFICES ASSUME Init PROVE IInv
  OBVIOUS
<1> USE DEF Init
<1>1. TypeOK
  BY IdleType, MaxCallsAssumption DEF TypeOK, NoRow, Row
<1>2. Stored = {} /\ Replacing = {} /\ Exporting = {}
  BY DEF Stored, NoRow, Replacing, Exporting, Phase, Idle
<1>3. DisturbInv /\ SweepInv /\ SupportInv /\ CitationsSurvive /\ ExportInv
  BY <1>2 DEF DisturbInv, SweepInv, SupportInv, CitationsSurvive, ExportInv
<1>4. FormInv
  BY DEF FormInv, Supported, Idle
<1>5. VersionInv
  <2>1. \A s \in Series : Versions(s) = 1 .. 0
    BY DEF Versions
  <2>2. QED
    BY <2>1 DEF VersionInv
<1>6. UniqueInv /\ NumberInv
  BY DEF UniqueInv, NumberInv, Phase, Idle
<1>7. QED
  BY <1>1, <1>3, <1>4, <1>5, <1>6 DEF IInv, BankInv, DraftInv

LEMMA StepInv == IInv /\ [Next]_vars => IInv'
  BY TypeStep, DisturbStep, SweepStep, FormStep, SupportStep, CitationsStep, ExportStep,
     VersionStep, UniqueStep, NumberStep DEF IInv, BankInv, DraftInv

LEMMA Invariance == Spec => []IInv
  BY InitInv, StepInv, PTL DEF Spec

\* Every variable keeps its type: the bank, the drafts and the requests of
\* api/artifacts.py and services/interchange.py.
THEOREM TypeCorrect == Spec => []TypeOK
  BY Invariance, PTL DEF IInv

\* An accomplishment keeps its evidence, whatever imports replace it: the DELETEs
\* of services/interchange.py take the bank before the claims.
THEOREM CitationsSurviveAlways == Spec => []CitationsSurvive
  BY Invariance, PTL DEF IInv, BankInv

\* The two reads of an export make a document that loses no evidence.
THEOREM ExportIsLosslessAlways == Spec => []ExportIsLossless
<1>1. IInv => ExportIsLossless
  <2> SUFFICES ASSUME IInv, NEW t \in Exporting, ~req[t].disturbed, NEW a \in Stored \ exposed
               PROVE  /\ bank[a].evidence \subseteq req[t].claims
                      /\ bank[a].status = "confirmed" => bank[a].evidence # {} \/ a \in torn
    BY DEF ExportIsLossless
  <2>1. bank[a].evidence \subseteq Existing /\ Existing \subseteq req[t].claims
    BY DEF IInv, BankInv, CitationsSurvive, ExportInv
  <2>2. QED
    BY <2>1 DEF IInv, BankInv, SupportInv
<1>2. QED
  BY <1>1, Invariance, PTL

LEMMA AppendFacts ==
    ASSUME NEW S, NEW q \in Seq(S), NEW e \in S
    PROVE  /\ Append(q, e) \in [1 .. Len(q) + 1 -> S]
           /\ Append(q, e)[Len(q) + 1] = e
           /\ \A v \in 1 .. Len(q) : Append(q, e)[v] = q[v]
<1>1. Append(q, e) \in Seq(S) /\ Len(Append(q, e)) = Len(q) + 1
  OBVIOUS
<1>2. Append(q, e) \in [1 .. Len(q) + 1 -> S]
  <2>1. \A z \in Seq(S) : z \in [1 .. Len(z) -> S]
    OBVIOUS
  <2>2. Append(q, e) \in [1 .. Len(Append(q, e)) -> S]
    BY <1>1, <2>1
  <2>3. QED
    BY <1>1, <2>2
<1>3. Append(q, e)[Len(q) + 1] = e
  OBVIOUS
<1>4. \A v \in 1 .. Len(q) : Append(q, e)[v] = q[v]
  OBVIOUS
<1>5. QED
  BY <1>2, <1>3, <1>4

\* The log of a series, of any set of drafts.
Told(rows, s, v) == (CHOOSE d \in rows : d.series = s /\ d.version = v).content
LogOf(rows, s)   == [v \in 1 .. Max({0} \cup Numbers(rows, s)) |-> Told(rows, s, v)]

Unique(rows) == \A d, e \in rows : d.series = e.series /\ d.version = e.version => d = e

LEMMA LogValues ==
    ASSUME NEW rows \in SUBSET Draft, NEW s \in Series, NEW n \in Nat, Numbers(rows, s) = 1 .. n,
           Unique(rows)
    PROVE  /\ LogOf(rows, s) = [v \in 1 .. n |-> Told(rows, s, v)]
           /\ \A d \in rows : d.series = s => Told(rows, s, d.version) = d.content
           /\ \A v \in 1 .. n : \E d \in rows : d.series = s /\ d.version = v
           /\ \A v \in 1 .. n : Told(rows, s, v) \in Content
           /\ LogOf(rows, s) \in Seq(Content) /\ Len(LogOf(rows, s)) = n
<1>1. LogOf(rows, s) = [v \in 1 .. n |-> Told(rows, s, v)]
  BY MaxIsNat DEF LogOf
<1>2. ASSUME NEW d \in rows, d.series = s PROVE Told(rows, s, d.version) = d.content
  <2>1. (CHOOSE e \in rows : e.series = s /\ e.version = d.version) = d
    BY <1>2 DEF Unique
  <2>2. QED
    BY <2>1 DEF Told
<1>3. \A v \in 1 .. n : \E d \in rows : d.series = s /\ d.version = v
  BY DEF Numbers
<1>4. \A v \in 1 .. n : Told(rows, s, v) \in Content
  <2>1. \A d \in rows : d.content \in Content
    BY DEF Draft
  <2>2. QED
    BY <1>2, <1>3, <2>1
<1>5. LogOf(rows, s) \in Seq(Content) /\ Len(LogOf(rows, s)) = n
  BY <1>1, <1>4
<1>6. QED
  BY <1>1, <1>2, <1>3, <1>4, <1>5

LEMMA LogIs == /\ Log = [s \in Series |-> LogOf(drafts, s)]
               /\ Log' = [s \in Series |-> LogOf(drafts', s)]
  BY DEF Log, LogOf, Told, Versions, Numbers

\* A draft inserted is appended to the log of its series.
LEMMA InsertPublishes ==
    ASSUME IInv, IInv', NEW t \in Requests, InsertDraft(t)
    PROVE  \E s \in Series, content \in Content : Promise!Publish(s, content)
<1>0. /\ TypeOK /\ VersionInv /\ NumberInv
      /\ drafts \in SUBSET Draft /\ drafts' \in SUBSET Draft
      /\ Unique(drafts) /\ Unique(drafts')
  BY DEF IInv, DraftInv, TypeOK, UniqueInv, Unique
<1>1. PICK s \in Series, n \in Nat, d \in Draft :
        /\ d.series = s /\ d.version = n + 1 /\ drafts' = drafts \cup {d}
        /\ Versions(s) = 1 .. n /\ Versions(s)' = 1 .. n + 1
        /\ \A x \in Series \ {s} : Versions(x)' = Versions(x)
  BY <1>0, InsertMoves
<1>2. \A x : Versions(x) = Numbers(drafts, x) /\ Versions(x)' = Numbers(drafts', x)
  BY DEF Versions, Numbers
<1>3. n + 1 \in Nat /\ d.content \in Content
  BY DEF Draft
<1>4. ASSUME NEW x \in Series, NEW k \in Nat, Numbers(drafts, x) = 1 .. k,
             NEW v \in 1 .. k, NEW m \in Nat, Numbers(drafts', x) = 1 .. m
      PROVE  Told(drafts', x, v) = Told(drafts, x, v)
  <2>1. PICK e \in drafts : e.series = x /\ e.version = v
    BY <1>0, <1>4, LogValues
  <2>2. Told(drafts, x, v) = e.content
    BY <1>0, <1>4, <2>1, LogValues
  <2>3. e \in drafts'
    BY <1>1
  <2>4. Told(drafts', x, v) = e.content
    BY <1>0, <1>4, <2>1, <2>3, LogValues
  <2>5. QED
    BY <2>2, <2>4
<1>5. LogOf(drafts', s) = Append(LogOf(drafts, s), d.content)
  <2>1. LogOf(drafts', s) = [v \in 1 .. n + 1 |-> Told(drafts', s, v)]
    BY <1>0, <1>1, <1>2, <1>3, LogValues
  <2>2. /\ LogOf(drafts, s) = [v \in 1 .. n |-> Told(drafts, s, v)]
        /\ LogOf(drafts, s) \in Seq(Content) /\ Len(LogOf(drafts, s)) = n
    BY <1>0, <1>1, <1>2, LogValues
  <2>3. Told(drafts', s, n + 1) = d.content
    <3>1. d \in drafts' /\ d.series = s /\ Numbers(drafts', s) = 1 .. n + 1
      BY <1>1, <1>2
    <3>2. Told(drafts', s, d.version) = d.content
      BY <1>0, <1>3, <3>1, LogValues
    <3>3. QED
      BY <1>1, <3>2
  <2>4. \A v \in 1 .. n : Told(drafts', s, v) = Told(drafts, s, v)
    BY <1>1, <1>2, <1>3, <1>4
  <2>5. /\ Append(LogOf(drafts, s), d.content) \in [1 .. n + 1 -> Content]
        /\ Append(LogOf(drafts, s), d.content)[n + 1] = d.content
        /\ \A v \in 1 .. n : Append(LogOf(drafts, s), d.content)[v] = Told(drafts, s, v)
    <3>1. /\ LogOf(drafts, s) \in Seq(Content) /\ d.content \in Content
          /\ Len(LogOf(drafts, s)) = n
      BY <1>3, <2>2
    <3>2. /\ Append(LogOf(drafts, s), d.content)
              \in [1 .. Len(LogOf(drafts, s)) + 1 -> Content]
          /\ Append(LogOf(drafts, s), d.content)[Len(LogOf(drafts, s)) + 1]
              = d.content
          /\ \A v \in 1 .. Len(LogOf(drafts, s)) :
                Append(LogOf(drafts, s), d.content)[v] = LogOf(drafts, s)[v]
      BY <3>1, AppendFacts
    <3>3. \A v \in 1 .. n : LogOf(drafts, s)[v] = Told(drafts, s, v)
      BY <2>2
    <3>4. /\ Append(LogOf(drafts, s), d.content) \in [1 .. n + 1 -> Content]
          /\ Append(LogOf(drafts, s), d.content)[n + 1] = d.content
          /\ \A v \in 1 .. n :
                Append(LogOf(drafts, s), d.content)[v] = LogOf(drafts, s)[v]
      BY <3>1, <3>2, Zenon
    <3>5. QED
      BY <3>3, <3>4
  <2>6. \A v \in 1 .. n + 1 : v \in 1 .. n \/ v = n + 1
    OBVIOUS
  <2>7. \A v \in 1 .. n + 1 :
          Told(drafts', s, v) = Append(LogOf(drafts, s), d.content)[v]
    BY <2>3, <2>4, <2>5, <2>6
  <2>8. QED
    BY <2>1, <2>5, <2>7
<1>6. ASSUME NEW x \in Series, x # s PROVE LogOf(drafts', x) = LogOf(drafts, x)
  <2>1. PICK k \in Nat : Numbers(drafts, x) = 1 .. k /\ Numbers(drafts', x) = 1 .. k
    BY <1>0, <1>1, <1>2, <1>6 DEF VersionInv
  <2>2. /\ LogOf(drafts', x) = [v \in 1 .. k |-> Told(drafts', x, v)]
        /\ LogOf(drafts, x) = [v \in 1 .. k |-> Told(drafts, x, v)]
    BY <1>0, <2>1, LogValues
  <2>3. \A v \in 1 .. k : Told(drafts', x, v) = Told(drafts, x, v)
    BY <1>4, <2>1
  <2>4. QED
    BY <2>2, <2>3
<1>7. Log' = [Log EXCEPT ![s] = Append(@, d.content)]
  BY <1>5, <1>6, LogIs
<1>8. QED
  BY <1>3, <1>7 DEF Promise!Publish

\* The table of drafts is a log: create_artifact and create_resume_variant number
\* drafts without gap, and change none that is there.
THEOREM DraftsAreALogAlways == Spec => DraftsAreALog
<1>1. ASSUME Init PROVE Promise!Init
  <2>1. \A s \in Series : Numbers(drafts, s) = 1 .. 0
    BY <1>1 DEF Init, Numbers
  <2>2. ASSUME NEW s \in Series PROVE LogOf(drafts, s) = <<>>
    BY <2>1, MaxIsNat DEF LogOf
  <2>3. QED
    BY <2>2, LogIs DEF Promise!Init
<1>2. ASSUME IInv, IInv', [Next]_vars PROVE [Promise!Next]_Log
  <2>1. CASE drafts' = drafts
    BY <2>1, LogIs
  <2>2. ASSUME NEW t \in Requests, InsertDraft(t) PROVE Promise!Next
    BY <1>2, <2>2, InsertPublishes DEF Promise!Next
  <2>3. QED
    BY <1>2, <2>1, <2>2, DraftSteps
<1>3. QED
  BY <1>1, <1>2, Invariance, PTL DEF Spec, Promise!Spec, DraftsAreALog
=============================================================================
