---------------------------- MODULE VisitorProofs ---------------------------
(***************************************************************************)
(* What visitors rely on: the search asks once, the lines of an inquiry    *)
(* stay their user's, and an article is shown as it is.                    *)
(***************************************************************************)
EXTENDS MCVisitor, Sequences, FiniteSetTheorems, TLAPS

(***************************************************************************)
(* The search.  Neither property is inductive: whether a search is under   *)
(* way, whether its lists have come and whether it may be asked again hang *)
(* together.                                                               *)
(***************************************************************************)
LEMMA OneMore ==
  ASSUME NEW n \in 0 .. Presses, n < Presses
  PROVE  n + 1 \in 0 .. Presses
BY SearchAssumption

(* What is typed, chosen, asked for and found is of its kind, and the      *)
(* times the search is opened are counted.                                 *)
THEOREM TypeCorrect == Spec => []TypeOK
<1>1. Init => TypeOK
  <2> SUFFICES ASSUME Init PROVE TypeOK
    OBVIOUS
  <2>1. presses \in 0 .. Presses
    <3>1. presses = 0
      BY DEF Init
    <3> QED BY <3>1, SearchAssumption
  <2>2. {opened, asked, dropped} \subseteq BOOLEAN
    BY DEF Init
  <2>3. /\ query \in {"", "blank", "word"} /\ category \in SearchCategories
        /\ lists \in {{}, Kinds} /\ matching \subseteq Kinds /\ searches = {}
    BY DEF Init, SearchCategories
  <2> QED BY <2>1, <2>2, <2>3 DEF TypeOK
<1>2. TypeOK /\ [Next]_vars => TypeOK'
  <2> SUFFICES ASSUME TypeOK, [Next]_vars PROVE TypeOK'
    OBVIOUS
  <2> USE DEF TypeOK
  <2>1. CASE Open
    <3> DEFINE one == [at |-> presses, live |-> TRUE]
    <3>0. presses' \in 0 .. Presses /\ presses \in 0 .. Presses
      <4>1. presses \in 0 .. Presses /\ presses < Presses /\ presses' = presses + 1
        BY <2>1 DEF Open
      <4> QED BY <4>1, OneMore
    <3>1. one \in [at : 0 .. Presses, live : BOOLEAN]
      BY <3>0
    <3>2. searches' \in {searches, searches \cup {one}}
      BY <2>1 DEF Open
    <3>3. searches' \subseteq [at : 0 .. Presses, live : BOOLEAN]
      BY <3>1, <3>2
    <3>4. dropped' \in BOOLEAN
      BY <2>1 DEF Open
    <3> QED BY <2>1, <3>0, <3>3, <3>4 DEF Open
  <2>2. CASE Close
    <3>1. searches' \subseteq [at : 0 .. Presses, live : BOOLEAN]
      BY <2>2 DEF Close
    <3>2. dropped' \in BOOLEAN
      BY <2>2 DEF Close
    <3> QED BY <2>2, <3>1, <3>2 DEF Close, AskedWhenShut
  <2>3. ASSUME NEW s \in searches, Searched(s) PROVE TypeOK'
    <3>1. asked' \in BOOLEAN /\ lists' \in {{}, Kinds}
      BY <2>3 DEF Searched, AskedAfterFailure
    <3> QED BY <2>3, <3>1 DEF Searched
  <2>4. ASSUME NEW q \in {"", "blank", "word"}, Type(q) PROVE TypeOK'
    BY <2>4 DEF Type
  <2>5. ASSUME NEW c \in SearchCategories, Choose(c) PROVE TypeOK'
    BY <2>5 DEF Choose
  <2>6. CASE UNCHANGED vars
    BY <2>6 DEF vars
  <2> QED BY <2>1, <2>2, <2>3, <2>4, <2>5, <2>6 DEF Next
<1> QED BY <1>1, <1>2, PTL DEF Spec

(* At most one search is under way, and only while loadedRef is set.       *)
AtMostOne == searches = {} \/ \E s \in searches : searches = {s}
AskedFirst == searches # {} \/ lists # {} => asked

(* The lists come together, and end the search that brought them.          *)
ListsTogether == lists \in {{}, Kinds} /\ (lists # {} => searches = {})

(* A search that nobody shut is still listened to.                         *)
Awaited == asked /\ ~dropped /\ lists = {} => opened /\ \E s \in searches : s.live

SearchInv == AtMostOne /\ AskedFirst /\ ListsTogether /\ Awaited

(* Nothing was asked for yet.                                              *)
LEMMA InitInv == Init => SearchInv
BY DEF Init, SearchInv, AtMostOne, AskedFirst, ListsTogether, Awaited

(* Every step keeps what hangs together.                                   *)
LEMMA StepInv == SearchInv /\ [Next]_vars => SearchInv'
<1> SUFFICES ASSUME SearchInv, [Next]_vars PROVE SearchInv'
  OBVIOUS
<1> USE DEF SearchInv, AtMostOne, AskedFirst, ListsTogether, Awaited
<1>1. CASE Open
  <2>1. CASE asked
    BY <1>1, <2>1 DEF Open
  <2>2. CASE ~asked
    <3>1. searches' = {[at |-> presses, live |-> TRUE]}
      BY <1>1, <2>2 DEF Open
    <3> QED BY <1>1, <2>2, <3>1 DEF Open
  <2> QED BY <2>1, <2>2
<1>2. CASE Close
  <2>1. CASE searches = {}
    BY <1>2, <2>1 DEF Close, AskedWhenShut
  <2>2. CASE searches # {}
    <3>1. PICK s \in searches : searches = {s}
      BY <2>2
    <3>2. searches' = {[s EXCEPT !.live = FALSE]} /\ dropped'
      BY <1>2, <2>2, <3>1 DEF Close
    <3> QED BY <1>2, <2>2, <3>2 DEF Close, AskedWhenShut
  <2> QED BY <2>1, <2>2
<1>3. ASSUME NEW s \in searches, Searched(s) PROVE SearchInv'
  <2>1. searches = {s} /\ searches' = {} /\ lists = {} /\ asked
    BY <1>3 DEF Searched
  <2>2. ~dropped => s.live
    BY <2>1
  <2>3. CASE asked' = FALSE /\ lists' = lists
    BY <2>1, <2>3
  <2>4. CASE asked' = asked /\ lists' = (IF s.live THEN Kinds ELSE lists)
    <3>1. CASE s.live
      BY <2>1, <2>4, <3>1 DEF Kinds
    <3>2. CASE ~s.live
      BY <1>3, <2>1, <2>2, <2>4, <3>2 DEF Searched
    <3> QED BY <3>1, <3>2
  <2> QED BY <1>3, <2>3, <2>4 DEF Searched, AskedAfterFailure
<1>4. ASSUME NEW q, Type(q) PROVE SearchInv'
  BY <1>4 DEF Type
<1>5. ASSUME NEW c, Choose(c) PROVE SearchInv'
  BY <1>5 DEF Choose
<1>6. CASE UNCHANGED vars
  BY <1>6 DEF vars
<1> QED BY <1>1, <1>2, <1>3, <1>4, <1>5, <1>6 DEF Next

(* It holds in every state the search can be in.                           *)
THEOREM AlwaysInv == Spec => []SearchInv
BY InitInv, StepInv, PTL DEF Spec

(* However often the search is opened and shut, it has one request under   *)
(* way at most, and none once its lists are there.                         *)
THEOREM AsksOnce == Spec => []OneSearch
<1>1. SearchInv => OneSearch
  <2> SUFFICES ASSUME SearchInv PROVE OneSearch
    OBVIOUS
  <2>1. Cardinality(searches) \in {0, 1}
    BY FS_EmptySet, FS_Singleton DEF SearchInv, AtMostOne
  <2> QED BY <2>1 DEF OneSearch, SearchInv, ListsTogether
<1> QED BY <1>1, AlwaysInv, PTL

(* Whatever is typed and whichever tab is chosen, the search says that     *)
(* there is nothing where there is something only while its lists are on   *)
(* their way, after they failed, or after it was shut before they came.    *)
THEOREM FindsWhatIsThere == Spec => []SearchFinds
<1>1. SearchInv => SearchFinds
  BY DEF SearchInv, ListsTogether, Awaited, SearchFinds
<1> QED BY <1>1, AlwaysInv, PTL

(* Both together: it asks no more than it needs, and not less.             *)
THEOREM SearchIsSound == Spec => []SearchSound
<1>1. OneSearch /\ SearchFinds => SearchSound
  BY DEF SearchSound
<1> QED BY <1>1, AsksOnce, FindsWhatIsThere, PTL
-----------------------------------------------------------------------------
(***************************************************************************)
(* The inquiry.  Its properties speak of lines and of who asked for them;  *)
(* they are inductive only together with where a form holds lines, and     *)
(* with whom a request under way belongs to.                               *)
(***************************************************************************)
DraftFine(d, a) == d \in [User -> I!Drafts] /\ \A u \in User : d[u].lines \subseteq a[u]

(* A form away from the contacts page holds nothing.                       *)
RowFine(r, a) ==
  /\ r \in I!Rows
  /\ r.lines \subseteq IF r.user = None THEN {} ELSE a[r.user]
  /\ r.at = "other" => r.lines = {}

SendFine(s, a) ==
  /\ s \in I!Sends
  /\ s # I!NoSend => s.user \in User /\ s.lines \subseteq a[s.user]

Owned(d, rows, sends, a) ==
  /\ a \in [User -> SUBSET Line] /\ DraftFine(d, a)
  /\ rows \in [Tab -> I!Rows] /\ \A t \in Tab : RowFine(rows[t], a)
  /\ sends \in [Slot -> I!Sends] /\ \A x \in Slot : SendFine(sends[x], a)

LEMMA NoneApart == None \notin User /\ None \notin Line /\ None \notin Slot /\ None \notin Tab
BY VisitorAssumption DEF I!InquiryAssumption

(* Whoever asks for more loses nothing.                                    *)
LEMMA OwnedGrows ==
  ASSUME NEW d, NEW rows, NEW sends, NEW a, NEW b, Owned(d, rows, sends, a),
         b \in [User -> SUBSET Line], \A u \in User : a[u] \subseteq b[u]
  PROVE  Owned(d, rows, sends, b)
<1>1. DraftFine(d, b)
  BY DEF Owned, DraftFine
<1>2. ASSUME NEW t \in Tab PROVE RowFine(rows[t], b)
  <2>1. RowFine(rows[t], a)
    BY DEF Owned
  <2>2. CASE rows[t].user = None
    BY <2>1, <2>2 DEF RowFine
  <2>3. CASE rows[t].user # None
    <3>1. rows[t].user \in User
      BY <2>1, <2>3 DEF RowFine, I!Rows
    <3> QED BY <2>1, <2>3, <3>1 DEF RowFine
  <2> QED BY <2>2, <2>3
<1>3. ASSUME NEW x \in Slot PROVE SendFine(sends[x], b)
  BY DEF Owned, SendFine
<1> QED BY <1>1, <1>2, <1>3 DEF Owned

(* One tab changes, or one request, or the drafts.                         *)
LEMMA OwnedTab ==
  ASSUME NEW d, NEW rows, NEW sends, NEW a, Owned(d, rows, sends, a),
         NEW t \in Tab, NEW r, RowFine(r, a)
  PROVE  Owned(d, [rows EXCEPT ![t] = r], sends, a)
<1>1. [rows EXCEPT ![t] = r] \in [Tab -> I!Rows]
  BY DEF Owned, RowFine
<1>2. ASSUME NEW s \in Tab PROVE RowFine([rows EXCEPT ![t] = r][s], a)
  <2>1. [rows EXCEPT ![t] = r][s] = IF s = t THEN r ELSE rows[s]
    BY DEF Owned
  <2> QED BY <2>1 DEF Owned
<1> QED BY <1>1, <1>2 DEF Owned

LEMMA OwnedSend ==
  ASSUME NEW d, NEW rows, NEW sends, NEW a, Owned(d, rows, sends, a),
         NEW x \in Slot, NEW s, SendFine(s, a)
  PROVE  Owned(d, rows, [sends EXCEPT ![x] = s], a)
<1>1. [sends EXCEPT ![x] = s] \in [Slot -> I!Sends]
  BY DEF Owned, SendFine
<1>2. ASSUME NEW y \in Slot PROVE SendFine([sends EXCEPT ![x] = s][y], a)
  <2>1. [sends EXCEPT ![x] = s][y] = IF y = x THEN s ELSE sends[y]
    BY DEF Owned
  <2> QED BY <2>1 DEF Owned
<1> QED BY <1>1, <1>2 DEF Owned

LEMMA OwnedDraft ==
  ASSUME NEW d, NEW rows, NEW sends, NEW a, Owned(d, rows, sends, a), NEW e, DraftFine(e, a)
  PROVE  Owned(e, rows, sends, a)
BY DEF Owned

(* A draft is written whole, or not at all.                                *)
LEMMA WrittenFine ==
  ASSUME NEW d, NEW a, DraftFine(d, a), NEW u \in User, NEW value \in I!Drafts,
         value.lines \subseteq a[u]
  PROVE  DraftFine(I!Written(d, u, value), a)
<1>1. CASE full
  BY <1>1 DEF I!Written
<1>2. CASE ~full
  <2>1. I!Written(d, u, value) = [d EXCEPT ![u] = value]
    BY <1>2 DEF I!Written
  <2>2. [d EXCEPT ![u] = value] \in [User -> I!Drafts]
    BY DEF DraftFine
  <2>3. ASSUME NEW w \in User PROVE [d EXCEPT ![u] = value][w].lines \subseteq a[w]
    <3>1. [d EXCEPT ![u] = value][w] = IF w = u THEN value ELSE d[w]
      BY DEF DraftFine
    <3> QED BY <3>1 DEF DraftFine
  <2> QED BY <2>1, <2>2, <2>3 DEF DraftFine
<1> QED BY <1>1, <1>2

LEMMA DraftRow ==
  ASSUME NEW d, NEW a, DraftFine(d, a), NEW u \in User
  PROVE  d[u] \in I!Drafts /\ d[u].lines \subseteq a[u] /\ d[u].lines \subseteq Line
         /\ d[u].message \in BOOLEAN
BY DEF DraftFine, I!Drafts

LEMMA AddFine ==
  ASSUME NEW d, NEW a, DraftFine(d, a), NEW u \in User, NEW l \in Line, l \in a[u]
  PROVE  DraftFine(I!AddLine(d, u, l), a)
<1> DEFINE v == [d[u] EXCEPT !.lines = d[u].lines \cup {l}]
<1>1. v \in I!Drafts /\ v.lines = d[u].lines \cup {l}
  BY DraftRow DEF I!Drafts
<1>2. v.lines \subseteq a[u]
  BY <1>1, DraftRow
<1>3. I!AddLine(d, u, l) = I!Written(d, u, v)
  BY DEF I!AddLine
<1> HIDE DEF v
<1> QED BY <1>1, <1>2, <1>3, WrittenFine

LEMMA RemoveFine ==
  ASSUME NEW d, NEW a, DraftFine(d, a), NEW u \in User, NEW l
  PROVE  DraftFine(I!RemoveLine(d, u, l), a)
<1> DEFINE v == [d[u] EXCEPT !.lines = d[u].lines \ {l}]
<1>1. v \in I!Drafts /\ v.lines = d[u].lines \ {l}
  BY DraftRow DEF I!Drafts
<1>2. v.lines \subseteq a[u]
  BY <1>1, DraftRow
<1>3. I!RemoveLine(d, u, l) = I!Written(d, u, v)
  BY DEF I!RemoveLine
<1> HIDE DEF v
<1> QED BY <1>1, <1>2, <1>3, WrittenFine

LEMMA ResetFine ==
  ASSUME NEW d, NEW a, DraftFine(d, a), NEW u \in User
  PROVE  DraftFine(I!ResetDraft(d, u), a)
<1>1. I!EmptyDraft \in I!Drafts /\ I!EmptyDraft.lines = {}
  BY DEF I!EmptyDraft, I!Drafts
<1>2. I!ResetDraft(d, u) = I!Written(d, u, I!EmptyDraft)
  BY DEF I!ResetDraft
<1> QED BY <1>1, <1>2, WrittenFine

LEMMA PersistFine ==
  ASSUME NEW d, NEW a, DraftFine(d, a), NEW r \in I!Rows, r.user # None,
         NEW message \in BOOLEAN
  PROVE  DraftFine(I!Persist(d, r, message), a)
<1> DEFINE u == r.user
           v == [d[u] EXCEPT !.message = message]
<1>0. u \in User
  BY DEF I!Rows
<1> HIDE DEF u
<1>1. v \in I!Drafts /\ v.lines = d[u].lines
  BY <1>0, DraftRow DEF I!Drafts
<1>2. v.lines \subseteq a[u]
  BY <1>0, <1>1, DraftRow
<1>3. I!Persist(d, r, message) = I!Written(d, u, v)
  BY DEF I!Persist, u
<1> HIDE DEF v
<1> QED BY <1>0, <1>1, <1>2, <1>3, WrittenFine

(* A form is filled with the draft of whoever uses it.                     *)
LEMMA FilledFine ==
  ASSUME NEW d, NEW a, DraftFine(d, a), NEW r \in I!Rows, r.at = "contacts"
  PROVE  /\ RowFine(I!Filled(r, d), a)
         /\ I!Filled(r, d).user = r.user /\ I!Filled(r, d).at = r.at
         /\ I!Filled(r, d).verified = r.verified /\ I!Filled(r, d).pending = r.pending
<1>1. CASE r.user = None
  BY <1>1 DEF I!Filled, RowFine, I!Rows
<1>2. CASE r.user # None
  <2>1. r.user \in User
    BY <1>2 DEF I!Rows
  <2> DEFINE lines == d[r.user].lines
             message == d[r.user].message
  <2>2. lines \subseteq a[r.user] /\ lines \subseteq Line /\ message \in BOOLEAN
    BY <2>1, DraftRow
  <2>3. I!Filled(r, d) = [r EXCEPT !.message = message, !.lines = lines]
    BY <1>2 DEF I!Filled
  <2> HIDE DEF lines, message
  <2>4. [r EXCEPT !.message = message, !.lines = lines] \in I!Rows
    BY <2>2 DEF I!Rows
  <2> QED BY <1>2, <2>2, <2>3, <2>4 DEF RowFine, I!Rows
<1> QED BY <1>1, <1>2

(* A page that is entered has an empty form.                               *)
LEMMA EnteredFine ==
  ASSUME NEW a, NEW r \in I!Rows, NEW page \in {"other", "contacts"},
         r.lines # {} => page # r.at \/ RowFine(r, a)
  PROVE  /\ RowFine(I!Entered(r, page), a)
         /\ I!Entered(r, page).at = page
         /\ I!Entered(r, page).user = r.user /\ I!Entered(r, page).verified = r.verified
         /\ I!Entered(r, page).pending = r.pending
<1>1. CASE r.at = page
  BY <1>1 DEF I!Entered, RowFine, I!Rows
<1>2. CASE r.at # page
  BY <1>2 DEF I!Entered, RowFine, I!Rows
<1> QED BY <1>1, <1>2

(* Sets are finite, and counted, in one way.                               *)
LEMMA SameFinite == ASSUME NEW S PROVE I!IsFiniteSet(S) <=> IsFiniteSet(S)
BY DEF I!IsFiniteSet, IsFiniteSet

LEMMA SameCardinality == ASSUME NEW S PROVE I!Cardinality(S) = Cardinality(S)
BY DEF I!Cardinality, Cardinality

LEMMA OwnedSends ==
  ASSUME NEW d, NEW rows, NEW sends, NEW a, Owned(d, rows, sends, a),
         NEW more \in [Slot -> I!Sends], \A x \in Slot : SendFine(more[x], a)
  PROVE  Owned(d, rows, more, a)
BY DEF Owned

(* Lines that wait for a login, and how often they were attached.          *)
Waiting(rows) == {t \in Tab : rows[t].pending # None}
Counted(rows, w) == w.attached + Cardinality(Waiting(rows)) <= w.lines

LEMMA WaitingFinite ==
  ASSUME NEW rows
  PROVE  IsFiniteSet(Waiting(rows)) /\ Cardinality(Waiting(rows)) \in Nat
<1>1. IsFiniteSet(Tab)
  BY VisitorAssumption, SameFinite DEF I!InquiryAssumption
<1>2. Waiting(rows) \subseteq Tab
  BY DEF Waiting
<1> QED BY <1>1, <1>2, FS_Subset, FS_CardinalityType

(* A tab keeps what waits, gives it up, or hands it on.                    *)
LEMMA WaitingSame ==
  ASSUME NEW rows \in [Tab -> I!Rows], NEW t \in Tab, NEW r, r.pending = rows[t].pending
  PROVE  Waiting([rows EXCEPT ![t] = r]) = Waiting(rows)
BY DEF Waiting

LEMMA WaitingLess ==
  ASSUME NEW rows \in [Tab -> I!Rows], NEW t \in Tab, NEW r, r.pending = None
  PROVE  /\ Cardinality(Waiting([rows EXCEPT ![t] = r])) <= Cardinality(Waiting(rows))
         /\ rows[t].pending # None =>
              Cardinality(Waiting([rows EXCEPT ![t] = r])) = Cardinality(Waiting(rows)) - 1
<1> DEFINE now == Cardinality(Waiting([rows EXCEPT ![t] = r]))
           old == Cardinality(Waiting(rows))
<1>1. Waiting([rows EXCEPT ![t] = r]) = Waiting(rows) \ {t}
  BY DEF Waiting
<1>2. rows[t].pending # None => t \in Waiting(rows)
  BY DEF Waiting
<1>3. now = IF t \in Waiting(rows) THEN old - 1 ELSE old
  BY <1>1, WaitingFinite, FS_RemoveElement
<1>4. old \in Nat
  BY WaitingFinite
<1> HIDE DEF now, old
<1>5. now <= old /\ (rows[t].pending # None => now = old - 1)
  BY <1>2, <1>3, <1>4
<1> QED BY <1>5 DEF now, old

LEMMA WaitingMore ==
  ASSUME NEW rows \in [Tab -> I!Rows], NEW t \in Tab, NEW r
  PROVE  Cardinality(Waiting([rows EXCEPT ![t] = r])) <= Cardinality(Waiting(rows)) + 1
<1>1. Waiting([rows EXCEPT ![t] = r]) \subseteq Waiting(rows) \cup {t}
  BY DEF Waiting
<1>2. /\ IsFiniteSet(Waiting(rows) \cup {t})
      /\ Cardinality(Waiting(rows) \cup {t}) <= Cardinality(Waiting(rows)) + 1
  <2>1. Cardinality(Waiting(rows)) \in Nat
    BY WaitingFinite
  <2> QED BY <2>1, WaitingFinite, FS_AddElement
<1>3. Cardinality(Waiting([rows EXCEPT ![t] = r])) <= Cardinality(Waiting(rows) \cup {t})
  BY <1>1, <1>2, FS_Subset
<1>4. /\ Cardinality(Waiting([rows EXCEPT ![t] = r])) \in Nat
      /\ Cardinality(Waiting(rows) \cup {t}) \in Nat /\ Cardinality(Waiting(rows)) \in Nat
  BY <1>2, WaitingFinite, FS_CardinalityType
<1> QED BY <1>2, <1>3, <1>4

Whole(d, rows, sends, a, w) ==
  /\ Owned(d, rows, sends, a)
  /\ w \in [lines : Nat, attached : Nat] /\ Counted(rows, w)

(* A tab changes, and what waits in it is kept or given up.                *)
LEMMA WholeTab ==
  ASSUME NEW d, NEW rows, NEW sends, NEW a, NEW w, Whole(d, rows, sends, a, w),
         NEW t \in Tab, NEW r, RowFine(r, a), r.pending = rows[t].pending \/ r.pending = None
  PROVE  Whole(d, [rows EXCEPT ![t] = r], sends, a, w)
<1>1. Owned(d, [rows EXCEPT ![t] = r], sends, a)
  BY OwnedTab DEF Whole
<1>2. rows \in [Tab -> I!Rows]
  BY DEF Whole, Owned
<1>3. Cardinality(Waiting([rows EXCEPT ![t] = r])) <= Cardinality(Waiting(rows))
  <2>1. CASE r.pending = rows[t].pending
    <3>1. Waiting([rows EXCEPT ![t] = r]) = Waiting(rows)
      BY <1>2, <2>1, WaitingSame
    <3>2. Cardinality(Waiting(rows)) \in Nat
      BY WaitingFinite
    <3> QED BY <3>1, <3>2
  <2>2. CASE r.pending = None
    BY <1>2, <2>2, WaitingLess
  <2> QED BY <2>1, <2>2
<1>4. /\ Cardinality(Waiting(rows)) \in Nat
      /\ Cardinality(Waiting([rows EXCEPT ![t] = r])) \in Nat
  BY WaitingFinite
<1>5. w.attached \in Nat /\ w.lines \in Nat /\ Counted(rows, w)
  BY DEF Whole
<1> HIDE DEF Waiting
<1>6. Counted([rows EXCEPT ![t] = r], w)
  BY <1>3, <1>4, <1>5 DEF Counted
<1> QED BY <1>1, <1>6 DEF Whole

(* The effects after a step of the visitor.                                *)
LEMMA BecomesWhole ==
  ASSUME Whole(draft, tab, send, asking, waited), NEW t \in Tab, NEW n \in I!Rows,
         n.pending = tab[t].pending, n.at = "contacts" \/ RowFine(n, asking),
         I!Becomes(t, n, draft)
  PROVE  Whole(draft', tab', send, asking', waited')
<1> DEFINE shown == IF n.at = "contacts" THEN I!Filled(n, draft) ELSE n
           attaches == n.user # None /\ n.verified /\ n.pending # None
           added == I!AddLine(draft, n.user, n.pending)
           after == I!Entered(I!Taken(shown), "contacts")
           last == IF n.at = "contacts" THEN after ELSE I!Filled(after, added)
<1>0. Owned(draft, tab, send, asking) /\ DraftFine(draft, asking) /\ tab \in [Tab -> I!Rows]
  BY DEF Whole, Owned
<1>1. /\ RowFine(shown, asking)
      /\ shown.user = n.user /\ shown.pending = n.pending /\ shown.at = n.at
  <2>1. CASE n.at = "contacts"
    BY <1>0, <2>1, FilledFine
  <2>2. CASE n.at # "contacts"
    BY <2>2
  <2> QED BY <2>1, <2>2
<1>2. CASE ~attaches
  <2>1. draft' = draft /\ tab' = [tab EXCEPT ![t] = shown] /\ asking' = asking /\ waited' = waited
    BY <1>2 DEF I!Becomes
  <2> HIDE DEF shown
  <2>2. Whole(draft, [tab EXCEPT ![t] = shown], send, asking, waited)
    BY <1>1, WholeTab
  <2> QED BY <2>1, <2>2
<1>3. CASE attaches
  <2>1. /\ draft' = added /\ tab' = [tab EXCEPT ![t] = last]
        /\ asking' = [asking EXCEPT ![n.user] = asking[n.user] \cup {n.pending}]
        /\ waited' = [waited EXCEPT !.attached = waited.attached + 1]
    BY <1>3 DEF I!Becomes
  <2>2. n.user \in User /\ n.pending \in Line
    BY <1>3 DEF I!Rows
  <2>3. /\ asking' \in [User -> SUBSET Line] /\ n.pending \in asking'[n.user]
        /\ \A u \in User : asking[u] \subseteq asking'[u]
    BY <1>0, <2>1, <2>2 DEF Owned
  <2>4. Owned(draft, tab, send, asking')
    BY <1>0, <2>3, OwnedGrows
  <2>5. DraftFine(draft, asking')
    BY <2>4 DEF Owned
  <2>6. DraftFine(added, asking')
    BY <2>2, <2>3, <2>5, AddFine
  <2>7. RowFine(shown, asking')
    <3>1. shown.user \in User
      BY <1>1, <2>2
    <3> QED BY <1>1, <2>3, <3>1, NoneApart DEF RowFine
  <2> DEFINE taken == I!Taken(shown)
  <2>8. RowFine(taken, asking') /\ taken.pending = None /\ taken.at = n.at
    <3>1. shown \in I!Rows
      BY <2>7 DEF RowFine
    <3>2. taken = [shown EXCEPT !.pending = None]
      BY DEF I!Taken
    <3> HIDE DEF shown, taken
    <3> QED BY <1>1, <2>7, <3>1, <3>2 DEF RowFine, I!Rows
  <2>9. taken \in I!Rows
    BY <2>8 DEF RowFine
  <2>10. RowFine(after, asking') /\ after.at = "contacts" /\ after.pending = None
    <3> HIDE DEF taken
    <3>1. after = I!Entered(taken, "contacts")
      BY DEF taken
    <3> HIDE DEF after
    <3> QED BY <2>8, <2>9, <3>1, EnteredFine
  <2>11. RowFine(last, asking') /\ last.pending = None
    <3> HIDE DEF after, added
    <3>1. after \in I!Rows
      BY <2>10 DEF RowFine
    <3>2. RowFine(I!Filled(after, added), asking') /\ I!Filled(after, added).pending = None
      BY <2>6, <2>10, <3>1, FilledFine
    <3> QED BY <2>10, <3>2
  <2> HIDE DEF last, added
  <2>12. Owned(draft', tab', send, asking')
    <3>1. Owned(draft, [tab EXCEPT ![t] = last], send, asking')
      BY <2>4, <2>11, OwnedTab
    <3> QED BY <2>1, <2>6, <3>1, OwnedDraft
  <2>13. tab[t].pending # None
    BY <1>3
  <2>14. Cardinality(Waiting([tab EXCEPT ![t] = last])) = Cardinality(Waiting(tab)) - 1
    BY <1>0, <2>11, <2>13, WaitingLess
  <2>15. waited \in [lines : Nat, attached : Nat] /\ Counted(tab, waited)
    BY DEF Whole
  <2>16. waited' \in [lines : Nat, attached : Nat] /\ Counted(tab', waited')
    <3>1. Cardinality(Waiting(tab)) \in Nat
      BY WaitingFinite
    <3>2. waited'.attached = waited.attached + 1 /\ waited'.lines = waited.lines
      BY <2>1, <2>15
    <3> QED BY <2>1, <2>14, <2>15, <3>1, <3>2 DEF Counted
  <2> QED BY <2>12, <2>16 DEF Whole
<1> QED BY <1>2, <1>3

Rest(f, h, v, n) ==
  f \in BOOLEAN /\ h \in User \cup {None} /\ v \in SUBSET User /\ n \in 0 .. Steps

InquiryInv == Whole(draft, tab, send, asking, waited) /\ Rest(full, holder, verified, steps)

(* It says what the run checks.                                            *)
LEMMA InquiryMeans == InquiryInv => LinesOwned
<1> SUFFICES ASSUME InquiryInv PROVE LinesOwned
  OBVIOUS
<1> USE DEF InquiryInv, Whole, Owned
<1>1. I!TypeOK
  BY DEF Rest, DraftFine, I!TypeOK
<1>2. I!OwnLinesOnly
  <2>1. \A u \in User : draft[u].lines \subseteq asking[u]
    BY DEF DraftFine
  <2>2. \A t \in Tab : tab[t].lines \subseteq IF tab[t].user = None THEN {} ELSE asking[tab[t].user]
    BY DEF RowFine
  <2>3. \A x \in Slot : send[x] # I!NoSend => send[x].lines \subseteq asking[send[x].user]
    BY DEF SendFine
  <2> QED BY <2>1, <2>2, <2>3 DEF I!OwnLinesOnly
<1>3. I!TakenOnce
  <2>1. Waiting(tab) = {t \in Tab : tab[t].pending # None}
    BY DEF Waiting
  <2>2. I!Cardinality({t \in Tab : tab[t].pending # None}) = Cardinality(Waiting(tab))
    BY <2>1, SameCardinality
  <2> QED BY <2>2 DEF Counted, I!TakenOnce
<1> QED BY <1>1, <1>2, <1>3 DEF LinesOwned

LEMMA InquiryInit == SceneInit => InquiryInv
<1> SUFFICES ASSUME I!Init PROVE InquiryInv
  BY DEF SceneInit
<1>1. DraftFine(draft, asking) /\ asking \in [User -> SUBSET Line]
  BY DEF I!Init, I!EmptyDraft, I!Drafts, DraftFine
<1>2. tab \in [Tab -> I!Rows] /\ \A t \in Tab : RowFine(tab[t], asking)
  BY DEF I!Init, I!Opened, I!Rows, RowFine
<1>3. send \in [Slot -> I!Sends] /\ \A x \in Slot : SendFine(send[x], asking)
  BY DEF I!Init, I!NoSend, I!Sends, SendFine
<1>4. waited \in [lines : Nat, attached : Nat] /\ Counted(tab, waited)
  <2>1. Waiting(tab) = {}
    BY DEF I!Init, I!Opened, Waiting
  <2> QED BY <2>1, FS_EmptySet DEF I!Init, Counted
<1>5. Rest(full, holder, verified, steps)
  <2>1. full \in BOOLEAN /\ holder \in User \cup {None} /\ verified \in SUBSET User
    BY DEF I!Init
  <2>2. steps = 0 /\ Steps \in Nat
    BY VisitorAssumption DEF I!Init, I!InquiryAssumption
  <2>3. steps \in 0 .. Steps
    BY <2>2
  <2> QED BY <2>1, <2>3 DEF Rest
<1> QED BY <1>1, <1>2, <1>3, <1>4, <1>5 DEF InquiryInv, Whole, Owned

(* What a step counts stays within the bound.                              *)
LEMMA StepCounted ==
  ASSUME steps \in 0 .. Steps, I!Step
  PROVE  steps' \in 0 .. Steps
BY VisitorAssumption DEF I!Step, I!InquiryAssumption

LEMMA RestKept ==
  ASSUME Rest(full, holder, verified, steps), I!Step, I!Kept
  PROVE  Rest(full', holder', verified', steps')
BY StepCounted DEF Rest, I!Kept

LEMMA InquiryParts ==
  ASSUME InquiryInv
  PROVE  /\ draft \in [User -> I!Drafts] /\ tab \in [Tab -> I!Rows] /\ send \in [Slot -> I!Sends]
         /\ asking \in [User -> SUBSET Line]
         /\ DraftFine(draft, asking) /\ Owned(draft, tab, send, asking)
         /\ \A t \in Tab : RowFine(tab[t], asking)
         /\ \A x \in Slot : SendFine(send[x], asking)
         /\ waited.lines \in Nat /\ waited.attached \in Nat
         /\ Rest(full, holder, verified, steps) /\ Whole(draft, tab, send, asking, waited)
BY DEF InquiryInv, Whole, Owned, DraftFine

(* Only the row of one tab changes, and no more waits in it than before.   *)
LEMMA OneTab ==
  ASSUME InquiryInv, NEW t \in Tab, NEW r, RowFine(r, asking),
         r.pending = tab[t].pending \/ r.pending = None,
         tab' = [tab EXCEPT ![t] = r], UNCHANGED <<send, asking, waited>>,
         DraftFine(draft', asking)
  PROVE  Whole(draft', tab', send', asking', waited')
<1>1. Whole(draft, [tab EXCEPT ![t] = r], send, asking, waited)
  BY InquiryParts, WholeTab
<1>2. Owned(draft', [tab EXCEPT ![t] = r], send, asking)
  BY <1>1, OwnedDraft DEF Whole
<1> QED BY <1>1, <1>2 DEF Whole

(* The drafts, the requests and what was asked for change beside the tabs. *)
LEMMA ModalFine ==
  ASSUME NEW a, NEW r, RowFine(r, a), NEW m \in BOOLEAN
  PROVE  /\ RowFine([r EXCEPT !.modal = m], a)
         /\ [r EXCEPT !.modal = m].pending = r.pending
BY DEF RowFine, I!Rows

LEMMA StepAskGuest ==
  ASSUME InquiryInv, NEW t \in Tab, NEW l \in Line, I!RequestAsGuest(t, l)
  PROVE  InquiryInv'
<1> USE DEF I!RequestAsGuest
<1>1. Rest(full', holder', verified', steps')
  BY RestKept, InquiryParts
<1>2. RowFine(tab[t], asking) /\ tab[t] \in I!Rows
  BY InquiryParts
<1>3. draft' = draft /\ asking' = asking /\ send' = send /\ DraftFine(draft, asking)
  BY InquiryParts DEF I!Kept
<1>4. CASE full
  <2> DEFINE r == [tab[t] EXCEPT !.modal = TRUE]
  <2>1. tab' = [tab EXCEPT ![t] = r] /\ waited' = waited
    <3>1. tab' = [tab EXCEPT ![t].pending = tab[t].pending, ![t].modal = TRUE]
      BY <1>4
    <3>2. [tab[t] EXCEPT !.pending = tab[t].pending, !.modal = TRUE] = r
      BY <1>2 DEF I!Rows
    <3> HIDE DEF r
    <3> QED BY <1>4, <3>1, <3>2, InquiryParts
  <2>2. RowFine(r, asking) /\ r.pending = tab[t].pending
    BY <1>2, ModalFine
  <2> HIDE DEF r
  <2>3. UNCHANGED <<send, asking, waited>> /\ DraftFine(draft', asking)
    BY <1>3, <2>1
  <2>4. tab' = [tab EXCEPT ![t] = r]
    BY <2>1
  <2>5. Whole(draft', tab', send', asking', waited')
    BY <2>2, <2>3, <2>4, OneTab
  <2> QED BY <1>1, <2>5 DEF InquiryInv
<1>5. CASE ~full
  <2> DEFINE r == [tab[t] EXCEPT !.pending = l, !.modal = TRUE]
  <2>1. tab' = [tab EXCEPT ![t] = r] /\ waited' = [waited EXCEPT !.lines = waited.lines + 1]
    BY <1>5
  <2>2. RowFine(r, asking)
    BY <1>2 DEF RowFine, I!Rows
  <2> HIDE DEF r
  <2>3. Owned(draft', tab', send', asking')
    <3>1. Owned(draft, tab, send, asking)
      BY InquiryParts
    <3>2. Owned(draft, [tab EXCEPT ![t] = r], send, asking)
      BY <2>2, <3>1, OwnedTab
    <3> QED BY <1>3, <2>1, <3>2
  <2> DEFINE now == Cardinality(Waiting([tab EXCEPT ![t] = r]))
             old == Cardinality(Waiting(tab))
  <2>4. now <= old + 1
    BY InquiryParts, WaitingMore
  <2>5. now \in Nat /\ old \in Nat
    BY WaitingFinite
  <2>6. waited.attached + old <= waited.lines
    BY InquiryParts DEF Whole, Counted
  <2>7. /\ waited' \in [lines : Nat, attached : Nat]
        /\ waited'.lines = waited.lines + 1 /\ waited'.attached = waited.attached
    BY <2>1 DEF InquiryInv, Whole
  <2> HIDE DEF now, old
  <2>8. waited'.attached + now <= waited'.lines
    BY <2>4, <2>5, <2>6, <2>7, InquiryParts
  <2>9. Counted(tab', waited')
    BY <2>1, <2>8 DEF Counted, now
  <2> QED BY <1>1, <2>3, <2>7, <2>9 DEF InquiryInv, Whole
<1> QED BY <1>4, <1>5

LEMMA StepAskMember ==
  ASSUME InquiryInv, NEW t \in Tab, NEW l \in Line, I!RequestAsMember(t, l)
  PROVE  InquiryInv'
<1> DEFINE u == tab[t].user
           d == I!AddLine(draft, u, l)
           e == I!Entered(tab[t], "contacts")
           r == I!Filled(e, d)
<1>1. Rest(full', holder', verified', steps')
  BY RestKept, InquiryParts DEF I!RequestAsMember
<1>2. RowFine(tab[t], asking) /\ tab[t] \in I!Rows /\ u \in User
  BY InquiryParts DEF I!RequestAsMember, I!Rows
<1>3. /\ draft' = d /\ tab' = [tab EXCEPT ![t] = r] /\ send' = send /\ waited' = waited
      /\ asking' = [asking EXCEPT ![u] = asking[u] \cup {l}]
  BY DEF I!RequestAsMember, I!Kept
<1>4. /\ asking' \in [User -> SUBSET Line] /\ l \in asking'[u]
      /\ \A w \in User : asking[w] \subseteq asking'[w]
  <2> HIDE DEF u
  <2> QED BY <1>2, <1>3, InquiryParts
<1>5. Owned(draft, tab, send, asking') /\ DraftFine(draft, asking')
  <2>1. Owned(draft, tab, send, asking)
    BY InquiryParts
  <2>2. Owned(draft, tab, send, asking')
    BY <1>4, <2>1, OwnedGrows
  <2> QED BY <2>2 DEF Owned
<1>6. DraftFine(d, asking')
  BY <1>2, <1>4, <1>5, AddFine
<1>7. RowFine(e, asking') /\ e.at = "contacts" /\ e.pending = tab[t].pending
  BY <1>2, <1>5, EnteredFine DEF Owned
<1>8. RowFine(r, asking') /\ r.pending = tab[t].pending
  <2>1. e \in I!Rows
    BY <1>7 DEF RowFine
  <2> HIDE DEF e, d
  <2> QED BY <1>6, <1>7, <2>1, FilledFine
<1> HIDE DEF u, d, r
<1>9. Whole(draft, tab, send, asking', waited)
  BY <1>5, InquiryParts DEF Whole
<1>10. Whole(draft, [tab EXCEPT ![t] = r], send, asking', waited)
  BY <1>8, <1>9, WholeTab
<1>11. Whole(d, [tab EXCEPT ![t] = r], send, asking', waited)
  BY <1>6, <1>10, OwnedDraft DEF Whole
<1> QED BY <1>1, <1>3, <1>11 DEF InquiryInv

(* Logging in, out, going to a page, or having it anew.                    *)
LEMMA StepVisit ==
  ASSUME InquiryInv, NEW t \in Tab, NEW page \in {"other", "contacts"}, I!Visit(t, page)
  PROVE  InquiryInv'
<1> DEFINE n == I!Entered(tab[t], page)
<1>1. Rest(full', holder', verified', steps') /\ send' = send
  BY RestKept, InquiryParts DEF I!Visit, I!Kept
<1>2. RowFine(tab[t], asking) /\ tab[t] \in I!Rows
  BY InquiryParts
<1>3. RowFine(n, asking) /\ n.pending = tab[t].pending
  BY <1>2, EnteredFine
<1>4. n \in I!Rows /\ I!Becomes(t, n, draft)
  BY <1>3 DEF RowFine, I!Visit
<1> HIDE DEF n
<1>5. Whole(draft', tab', send, asking', waited')
  BY <1>3, <1>4, InquiryParts, BecomesWhole
<1> QED BY <1>1, <1>5 DEF InquiryInv

LEMMA StepLogIn ==
  ASSUME InquiryInv, NEW t \in Tab, NEW u \in User, I!LogIn(t, u)
  PROVE  InquiryInv'
<1> DEFINE v == u \in verified
           n == [tab[t] EXCEPT !.user = u, !.verified = v]
           m == [n EXCEPT !.modal = FALSE]
           last == IF n.verified THEN m ELSE I!Entered(n, "other")
<1>1. RowFine(tab[t], asking) /\ tab[t] \in I!Rows /\ tab[t].user = None
  BY InquiryParts DEF I!LogIn
<1>2. tab[t].lines = {}
  BY <1>1 DEF RowFine
<1>3. /\ full' = full /\ verified' = verified /\ send' = send /\ holder' = u /\ I!Step
      /\ I!Becomes(t, last, draft)
  BY DEF I!LogIn
<1>4. Rest(full', holder', verified', steps')
  BY <1>3, InquiryParts, StepCounted DEF Rest
<1>5. v \in BOOLEAN
  OBVIOUS
<1> HIDE DEF v
<1>6. /\ n \in I!Rows /\ n.pending = tab[t].pending /\ n.lines = {}
      /\ m \in I!Rows /\ m.pending = tab[t].pending /\ m.lines = {}
  BY <1>1, <1>2, <1>5 DEF I!Rows
<1>7. RowFine(m, asking)
  BY <1>6 DEF RowFine
<1>8. RowFine(I!Entered(n, "other"), asking) /\ I!Entered(n, "other").pending = tab[t].pending
  <2> HIDE DEF n
  <2> QED BY <1>6, EnteredFine
<1>9. RowFine(last, asking) /\ last.pending = tab[t].pending
  <2> HIDE DEF m, n
  <2> QED BY <1>6, <1>7, <1>8
<1>10. last \in I!Rows
  BY <1>9 DEF RowFine
<1> HIDE DEF last
<1>11. Whole(draft', tab', send, asking', waited')
  BY <1>3, <1>9, <1>10, InquiryParts, BecomesWhole
<1> QED BY <1>3, <1>4, <1>11 DEF InquiryInv

LEMMA StepLogOut ==
  ASSUME InquiryInv, NEW t \in Tab, I!LogOut(t)
  PROVE  InquiryInv'
<1> DEFINE n == [tab[t] EXCEPT !.user = None, !.verified = FALSE]
           last == I!Entered(n, "other")
<1>1. RowFine(tab[t], asking) /\ tab[t] \in I!Rows
  BY InquiryParts
<1>2. /\ full' = full /\ verified' = verified /\ send' = send /\ holder' = None /\ I!Step
      /\ I!Becomes(t, last, draft)
  BY DEF I!LogOut
<1>3. Rest(full', holder', verified', steps')
  BY <1>2, InquiryParts, StepCounted DEF Rest
<1>4. n \in I!Rows /\ n.pending = tab[t].pending /\ n.at = tab[t].at /\ n.lines = tab[t].lines
  BY <1>1 DEF I!Rows
<1>5. n.at = "other" => n.lines = {}
  BY <1>1, <1>4 DEF RowFine
<1> HIDE DEF n
<1>6. RowFine(last, asking) /\ last.pending = tab[t].pending
  BY <1>4, <1>5, EnteredFine
<1>7. last \in I!Rows
  BY <1>6 DEF RowFine
<1> HIDE DEF last
<1>8. Whole(draft', tab', send, asking', waited')
  BY <1>2, <1>6, <1>7, InquiryParts, BecomesWhole
<1> QED BY <1>2, <1>3, <1>8 DEF InquiryInv

(* Requests that lose their tab hold the lines they held.                  *)
LEMMA LostSends ==
  ASSUME NEW t \in Tab, NEW sends \in [Slot -> I!Sends], NEW a,
         \A x \in Slot : SendFine(sends[x], a), NEW more,
         more = [x \in Slot |-> IF sends[x].tab = t THEN [sends[x] EXCEPT !.tab = None] ELSE sends[x]]
  PROVE  more \in [Slot -> I!Sends] /\ \A x \in Slot : SendFine(more[x], a)
<1>1. ASSUME NEW x \in Slot PROVE SendFine(more[x], a)
  <2>1. CASE sends[x].tab = t
    <3> DEFINE s == sends[x]
               r == [s EXCEPT !.tab = None]
    <3>1. more[x] = r /\ s \in I!Sends /\ SendFine(s, a) /\ s.tab = t
      BY <2>1
    <3> HIDE DEF s
    <3>2. r \in I!Sends /\ r.user = s.user /\ r.lines = s.lines
      BY <3>1 DEF I!Sends
    <3>3. s # I!NoSend
      BY <3>1, NoneApart DEF I!NoSend
    <3> HIDE DEF r
    <3> QED BY <3>1, <3>2, <3>3 DEF SendFine
  <2>2. CASE sends[x].tab # t
    BY <2>2
  <2> QED BY <2>1, <2>2
<1>2. \A x \in Slot : more[x] \in I!Sends
  BY <1>1 DEF SendFine
<1> QED BY <1>1, <1>2

LEMMA StepReload ==
  ASSUME InquiryInv, NEW t \in Tab, I!Reload(t)
  PROVE  InquiryInv'
<1> DEFINE v == holder \in verified
           n == [I!Opened EXCEPT !.at = tab[t].at, !.pending = tab[t].pending, !.user = holder,
                                 !.verified = v]
<1>1. tab[t] \in I!Rows /\ Rest(full, holder, verified, steps)
  BY InquiryParts
<1>2. /\ full' = full /\ verified' = verified /\ holder' = holder /\ I!Step
      /\ I!Becomes(t, n, draft)
  BY DEF I!Reload
<1>3. Rest(full', holder', verified', steps')
  BY <1>2, InquiryParts, StepCounted DEF Rest
<1>4. v \in BOOLEAN
  OBVIOUS
<1> HIDE DEF v
<1>5. holder \in User \cup {None}
  BY <1>1 DEF Rest
<1>6. n \in I!Rows /\ n.pending = tab[t].pending /\ n.lines = {}
  BY <1>1, <1>4, <1>5 DEF I!Rows, I!Opened
<1>7. RowFine(n, asking)
  BY <1>6 DEF RowFine
<1> HIDE DEF n
<1>8. Whole(draft', tab', send, asking', waited')
  BY <1>2, <1>6, <1>7, InquiryParts, BecomesWhole
<1>9. send \in [Slot -> I!Sends] /\ \A x \in Slot : SendFine(send[x], asking')
  BY <1>8 DEF Whole, Owned
<1>10. send' \in [Slot -> I!Sends] /\ \A x \in Slot : SendFine(send'[x], asking')
  <2>1. send' = [x \in Slot |-> IF send[x].tab = t THEN [send[x] EXCEPT !.tab = None] ELSE send[x]]
    BY DEF I!Reload
  <2> QED BY <1>9, <2>1, LostSends
<1>11. Owned(draft', tab', send', asking')
  BY <1>8, <1>10, OwnedSends DEF Whole
<1>12. Whole(draft', tab', send', asking', waited')
  BY <1>8, <1>11 DEF Whole
<1> QED BY <1>3, <1>12 DEF InquiryInv

(* The dialog opens and closes.                                            *)
LEMMA StepDialog ==
  ASSUME InquiryInv, NEW t \in Tab,
         I!OpenLogin(t) \/ I!Dismiss(t) \/ I!SubmitAsGuest(t)
  PROVE  InquiryInv'
<1> USE DEF I!OpenLogin, I!Dismiss, I!SubmitAsGuest
<1>1. Rest(full', holder', verified', steps')
  BY RestKept, InquiryParts
<1>2. UNCHANGED <<send, asking, waited>> /\ draft' = draft
  BY DEF I!Kept
<1>3. RowFine(tab[t], asking) /\ DraftFine(draft', asking)
  BY <1>2, InquiryParts
<1> DEFINE opened1 == [tab[t] EXCEPT !.modal = TRUE]
           closed == [tab[t] EXCEPT !.modal = FALSE, !.pending = None]
<1>4. CASE I!OpenLogin(t) \/ I!SubmitAsGuest(t)
  <2>1. tab' = [tab EXCEPT ![t] = opened1]
    BY <1>4
  <2>2. RowFine(opened1, asking) /\ opened1.pending = tab[t].pending
    BY <1>3, ModalFine
  <2> HIDE DEF opened1
  <2>3. Whole(draft', tab', send', asking', waited')
    BY <1>2, <1>3, <2>1, <2>2, OneTab
  <2> QED BY <1>1, <2>3 DEF InquiryInv
<1>5. CASE I!Dismiss(t)
  <2>1. tab' = [tab EXCEPT ![t] = closed]
    BY <1>5
  <2>2. RowFine(closed, asking) /\ closed.pending = None
    BY <1>3 DEF RowFine, I!Rows
  <2> HIDE DEF closed
  <2>3. Whole(draft', tab', send', asking', waited')
    BY <1>2, <1>3, <2>1, <2>2, OneTab
  <2> QED BY <1>1, <2>3 DEF InquiryInv
<1> QED BY <1>4, <1>5

(* The form is typed into, loses a line, or is emptied.                    *)
LEMMA StepType ==
  ASSUME InquiryInv, NEW t \in Tab, NEW message \in BOOLEAN, I!TypeMessage(t, message)
  PROVE  InquiryInv'
<1> DEFINE r == [tab[t] EXCEPT !.message = message]
<1> USE DEF I!TypeMessage
<1>1. Rest(full', holder', verified', steps')
  BY RestKept, InquiryParts
<1>2. UNCHANGED <<send, asking, waited>> /\ tab' = [tab EXCEPT ![t] = r]
  BY DEF I!Kept
<1>3. RowFine(tab[t], asking) /\ tab[t] \in I!Rows /\ DraftFine(draft, asking)
  BY InquiryParts
<1>4. RowFine(r, asking) /\ r.pending = tab[t].pending
  BY <1>3 DEF RowFine, I!Rows
<1>5. DraftFine(draft', asking)
  <2>1. CASE tab[t].user = None
    BY <1>3, <2>1
  <2>2. CASE tab[t].user # None
    <3>1. draft' = I!Persist(draft, tab[t], message)
      BY <2>2
    <3> QED BY <1>3, <2>2, <3>1, PersistFine
  <2> QED BY <2>1, <2>2
<1> HIDE DEF r
<1>6. Whole(draft', tab', send', asking', waited')
  BY <1>2, <1>4, <1>5, OneTab
<1> QED BY <1>1, <1>6 DEF InquiryInv

LEMMA StepRemove ==
  ASSUME InquiryInv, NEW t \in Tab, NEW l \in Line, I!Remove(t, l)
  PROVE  InquiryInv'
<1> DEFINE u == tab[t].user
           lines == draft[u].lines \ {l}
           r == [tab[t] EXCEPT !.lines = lines]
<1>1. Rest(full', holder', verified', steps')
  BY RestKept, InquiryParts DEF I!Remove
<1>2. RowFine(tab[t], asking) /\ tab[t] \in I!Rows /\ DraftFine(draft, asking)
  BY InquiryParts
<1>3. u \in User /\ tab[t].at = "contacts"
  BY <1>2 DEF I!Remove, I!AtForm, I!Rows
<1>4. draft[u] \in I!Drafts /\ draft[u].lines \subseteq asking[u]
  BY <1>2, <1>3, DraftRow
<1>5. [draft[u] EXCEPT !.lines = lines].lines = lines
  BY <1>4 DEF I!Drafts
<1>6. /\ UNCHANGED <<send, asking, waited>> /\ tab' = [tab EXCEPT ![t] = r]
      /\ draft' = I!RemoveLine(draft, u, l)
  BY <1>5 DEF I!Kept, I!Remove
<1>7. lines \subseteq asking[u] /\ lines \subseteq Line
  BY <1>4 DEF I!Drafts
<1>8. RowFine(r, asking) /\ r.pending = tab[t].pending
  <2> HIDE DEF lines
  <2> QED BY <1>2, <1>3, <1>7, NoneApart DEF RowFine, I!Rows
<1> HIDE DEF r, u
<1>9. DraftFine(draft', asking)
  BY <1>2, <1>3, <1>6, RemoveFine
<1>10. Whole(draft', tab', send', asking', waited')
  BY <1>6, <1>8, <1>9, OneTab
<1> QED BY <1>1, <1>10 DEF InquiryInv

LEMMA StepReset ==
  ASSUME InquiryInv, NEW t \in Tab, I!Reset(t)
  PROVE  InquiryInv'
<1> DEFINE r == [tab[t] EXCEPT !.message = FALSE, !.lines = {}]
<1> USE DEF I!Reset
<1>1. Rest(full', holder', verified', steps')
  BY RestKept, InquiryParts
<1>2. UNCHANGED <<send, asking, waited>> /\ tab' = [tab EXCEPT ![t] = r]
  BY DEF I!Kept
<1>3. RowFine(tab[t], asking) /\ tab[t] \in I!Rows /\ DraftFine(draft, asking)
  BY InquiryParts
<1>4. RowFine(r, asking) /\ r.pending = tab[t].pending
  BY <1>3 DEF RowFine, I!Rows
<1>5. DraftFine(draft', asking)
  <2>1. CASE tab[t].user = None
    BY <1>3, <2>1
  <2>2. CASE tab[t].user # None
    <3>1. draft' = I!ResetDraft(draft, tab[t].user) /\ tab[t].user \in User
      BY <1>3, <2>2 DEF I!Rows
    <3> QED BY <1>3, <3>1, ResetFine
  <2> QED BY <2>1, <2>2
<1> HIDE DEF r
<1>6. Whole(draft', tab', send', asking', waited')
  BY <1>2, <1>4, <1>5, OneTab
<1> QED BY <1>1, <1>6 DEF InquiryInv

(* An inquiry is sent, delivered, and answered.                            *)
LEMMA StepSubmit ==
  ASSUME InquiryInv, NEW t \in Tab, NEW x \in Slot, I!Submit(t, x)
  PROVE  InquiryInv'
<1> DEFINE r == [tab[t] EXCEPT !.sending = x]
           s == [user |-> tab[t].user, tab |-> t, lines |-> tab[t].lines, phase |-> "sent"]
<1>1. RowFine(tab[t], asking) /\ tab[t] \in I!Rows /\ Rest(full, holder, verified, steps)
  BY InquiryParts
<1>2. /\ UNCHANGED <<draft, full, holder, verified, asking, waited>> /\ I!Step
      /\ tab' = [tab EXCEPT ![t] = r] /\ send' = [send EXCEPT ![x] = s]
      /\ tab[t].user # None
  BY DEF I!Submit
<1>3. Rest(full', holder', verified', steps')
  BY <1>1, <1>2, StepCounted DEF Rest
<1>4. RowFine(r, asking) /\ r.pending = tab[t].pending
  BY <1>1 DEF RowFine, I!Rows
<1>5. SendFine(s, asking)
  BY <1>1, <1>2 DEF SendFine, RowFine, I!Rows, I!Sends
<1> HIDE DEF r, s
<1>6. Whole(draft, tab, send, asking, waited)
  BY InquiryParts
<1>7. Whole(draft, tab', send, asking, waited)
  BY <1>2, <1>4, <1>6, WholeTab
<1>8. Whole(draft, tab', send', asking, waited)
  BY <1>2, <1>5, <1>7, OwnedSend DEF Whole
<1> QED BY <1>2, <1>3, <1>8 DEF InquiryInv

LEMMA StepDeliver ==
  ASSUME InquiryInv, NEW x \in Slot, I!Deliver(x)
  PROVE  InquiryInv'
<1> DEFINE s == [send[x] EXCEPT !.phase = "served"]
<1>1. SendFine(send[x], asking) /\ send[x] \in I!Sends /\ Whole(draft, tab, send, asking, waited)
  BY InquiryParts
<1>2. /\ UNCHANGED <<draft, full, tab, holder, verified, asking, waited, steps>>
      /\ send' = [send EXCEPT ![x] = s] /\ send[x].phase = "sent"
  BY DEF I!Deliver
<1>3. SendFine(s, asking)
  <2>1. send[x] # I!NoSend
    BY <1>2 DEF I!NoSend
  <2> QED BY <1>1, <2>1 DEF SendFine, I!Sends
<1> HIDE DEF s
<1>4. Whole(draft, tab, send', asking, waited)
  BY <1>1, <1>2, <1>3, OwnedSend DEF Whole
<1>5. Rest(full, holder, verified, steps)
  BY InquiryParts
<1> QED BY <1>2, <1>4, <1>5 DEF InquiryInv

LEMMA NoSendFine == ASSUME NEW a PROVE SendFine(I!NoSend, a)
BY DEF SendFine, I!NoSend, I!Sends

(* The form that sent it is released, if it is there still.                *)
LEMMA EndedWhole ==
  ASSUME NEW d, NEW sends, NEW a, NEW w, Whole(d, tab, sends, a, w), NEW t \in Tab, NEW x,
         NEW ok \in BOOLEAN
  PROVE  Whole(d, I!Ended(t, x, ok), sends, a, w)
<1>1. RowFine(tab[t], a) /\ tab[t] \in I!Rows
  BY DEF Whole, Owned
<1> DEFINE freed == [tab[t] EXCEPT !.sending = None]
           emptied == [tab[t] EXCEPT !.sending = None, !.message = FALSE, !.lines = {}]
<1>2. RowFine(freed, a) /\ freed.pending = tab[t].pending
  BY <1>1 DEF RowFine, I!Rows
<1>3. RowFine(emptied, a) /\ emptied.pending = tab[t].pending
  BY <1>1 DEF RowFine, I!Rows
<1>4. I!Ended(t, x, ok) \in {tab, [tab EXCEPT ![t] = freed], [tab EXCEPT ![t] = emptied]}
  BY DEF I!Ended
<1> HIDE DEF freed, emptied
<1>5. Whole(d, [tab EXCEPT ![t] = freed], sends, a, w)
  BY <1>2, WholeTab
<1>6. Whole(d, [tab EXCEPT ![t] = emptied], sends, a, w)
  BY <1>3, WholeTab
<1> QED BY <1>4, <1>5, <1>6

LEMMA StepEnd ==
  ASSUME InquiryInv, NEW x \in Slot, I!Succeed(x) \/ I!Fail(x)
  PROVE  InquiryInv'
<1> DEFINE t == send[x].tab
<1>1. /\ SendFine(send[x], asking) /\ send[x] \in I!Sends /\ DraftFine(draft, asking)
      /\ Whole(draft, tab, send, asking, waited)
      /\ Rest(full, holder, verified, steps)
  BY InquiryParts
<1>2. /\ UNCHANGED <<full, holder, verified, asking, waited, steps>>
      /\ send' = [send EXCEPT ![x] = I!NoSend]
  BY DEF I!Succeed, I!Fail
<1>3. Whole(draft, tab, send', asking, waited)
  BY <1>1, <1>2, NoSendFine, OwnedSend DEF Whole
<1>4. t \in Tab \cup {None}
  BY <1>1 DEF I!Sends
<1> HIDE DEF t
<1>5. CASE draft' = draft /\ tab' = tab
  BY <1>1, <1>2, <1>3, <1>5 DEF InquiryInv
<1>6. CASE t # None /\ I!Succeed(x)
  <2>1. draft' = I!ResetDraft(draft, send[x].user) /\ tab' = I!Ended(t, x, TRUE)
    BY <1>6 DEF I!Succeed, t
  <2>2. send[x].user \in User
    <3>1. send[x] # I!NoSend
      BY <1>6 DEF I!Succeed, I!NoSend
    <3> QED BY <1>1, <3>1 DEF SendFine
  <2>3. DraftFine(draft', asking)
    BY <1>1, <2>1, <2>2, ResetFine
  <2>4. Whole(draft, tab', send', asking, waited)
    <3>1. t \in Tab
      BY <1>4, <1>6
    <3> QED BY <1>3, <2>1, <3>1, EndedWhole
  <2>5. Whole(draft', tab', send', asking, waited)
    BY <2>3, <2>4, OwnedDraft DEF Whole
  <2> QED BY <1>1, <1>2, <2>5 DEF InquiryInv
<1>7. CASE t # None /\ I!Fail(x)
  <2>1. draft' = draft /\ tab' = I!Ended(t, x, FALSE)
    BY <1>7 DEF I!Fail, t
  <2>2. Whole(draft, tab', send', asking, waited)
    <3>1. t \in Tab
      BY <1>4, <1>7
    <3> QED BY <1>3, <2>1, <3>1, EndedWhole
  <2> QED BY <1>1, <1>2, <2>1, <2>2 DEF InquiryInv
<1>8. t = None => draft' = draft /\ tab' = tab
  BY DEF I!Succeed, I!Fail, t
<1> QED BY <1>5, <1>6, <1>7, <1>8

LEMMA StepElsewhere ==
  ASSUME InquiryInv, (\E u \in User : I!VerifyEmail(u)) \/ I!Fill
  PROVE  InquiryInv'
<1>1. Whole(draft, tab, send, asking, waited) /\ Rest(full, holder, verified, steps)
  BY InquiryParts
<1>2. UNCHANGED <<draft, tab, send, asking, waited>> /\ I!Step /\ holder' = holder
  BY DEF I!VerifyEmail, I!Fill
<1>3. full' \in BOOLEAN /\ verified' \in SUBSET User
  BY <1>1 DEF Rest, I!VerifyEmail, I!Fill
<1>4. Rest(full', holder', verified', steps')
  BY <1>1, <1>2, <1>3, StepCounted DEF Rest
<1> QED BY <1>1, <1>2, <1>4 DEF InquiryInv

LEMMA InquiryStep == InquiryInv /\ [SceneNext]_<<scene, inquiry, reading, vars>> => InquiryInv'
<1> SUFFICES ASSUME InquiryInv, [SceneNext]_<<scene, inquiry, reading, vars>> PROVE InquiryInv'
  OBVIOUS
<1>1. CASE I!Next
  BY <1>1, StepAskGuest, StepAskMember, StepRemove, StepDialog, StepLogOut, StepReload, StepVisit,
     StepLogIn, StepType, StepReset, StepSubmit, StepDeliver, StepEnd, StepElsewhere DEF I!Next
<1>2. CASE UNCHANGED inquiry
  BY <1>2 DEF inquiry, InquiryInv
<1> QED BY <1>1, <1>2 DEF SceneNext

(* Whatever else a visitor does, in however many tabs, a draft, a form and *)
(* a request hold lines of their user only, and a line that waits for a    *)
(* login is attached once.                                                 *)
THEOREM LinesAreOwned == SceneSpec => []LinesOwned
<1>1. SceneSpec => []InquiryInv
  BY InquiryInit, InquiryStep, PTL DEF SceneSpec
<1> QED BY <1>1, InquiryMeans, PTL

(* A draft that is written keeps what it held, or is its user's own doing. *)
LEMMA AddKeeps ==
  ASSUME NEW d \in [User -> I!Drafts], NEW u \in User, NEW l, NEW w \in User
  PROVE  d[w].lines \subseteq I!AddLine(d, u, l)[w].lines
<1> DEFINE lines == d[u].lines \cup {l}
           v == [d[u] EXCEPT !.lines = lines]
<1>1. v.lines = lines
  BY DEF I!Drafts
<1>2. I!AddLine(d, u, l) = I!Written(d, u, v)
  BY DEF I!AddLine
<1> HIDE DEF v
<1>3. I!Written(d, u, v)[w] \in {d[w], v} /\ (w # u => I!Written(d, u, v)[w] = d[w])
  BY DEF I!Written
<1> QED BY <1>1, <1>2, <1>3

LEMMA PersistKeeps ==
  ASSUME NEW d \in [User -> I!Drafts], NEW r, r.user \in User, NEW message, NEW w \in User
  PROVE  d[w].lines \subseteq I!Persist(d, r, message)[w].lines
<1> DEFINE u == r.user
           v == [d[u] EXCEPT !.message = message]
<1>1. v.lines = d[u].lines
  BY DEF I!Drafts
<1>2. I!Persist(d, r, message) = I!Written(d, u, v)
  BY DEF I!Persist
<1> HIDE DEF v
<1>3. I!Written(d, u, v)[w] \in {d[w], v} /\ (w # u => I!Written(d, u, v)[w] = d[w])
  BY DEF I!Written
<1> QED BY <1>1, <1>2, <1>3

(* Of others nothing is taken.                                             *)
LEMMA WrittenApart ==
  ASSUME NEW d \in [User -> I!Drafts], NEW u \in User, NEW value, NEW w \in User, w # u
  PROVE  I!Written(d, u, value)[w] = d[w]
BY DEF I!Written

LEMMA BecomesKeeps ==
  ASSUME InquiryInv, NEW t \in Tab, NEW n, n.user \in User \cup {None}, I!Becomes(t, n, draft),
         NEW w \in User
  PROVE  draft[w].lines \subseteq draft'[w].lines
<1>1. draft' = draft \/ (n.user \in User /\ draft' = I!AddLine(draft, n.user, n.pending))
  BY DEF I!Becomes, I!Rows
<1> QED BY <1>1, InquiryParts, AddKeeps

Leaving(w, l) ==
  \/ \E t \in Tab : tab[t].user = w /\ (I!Remove(t, l) \/ I!Reset(t))
  \/ \E x \in Slot : send[x].user = w /\ I!Succeed(x)

(* Only three steps take a line from a draft, and of their user only.      *)
LEMMA LeavesByAct ==
  ASSUME InquiryInv, I!Next, NEW w \in User, NEW l \in Line, I!Leaves(w, l)
  PROVE  Leaving(w, l)
<1>0. ~(draft[w].lines \subseteq draft'[w].lines) /\ draft' # draft
  BY DEF I!Leaves
<1>1. /\ draft \in [User -> I!Drafts] /\ tab \in [Tab -> I!Rows] /\ send \in [Slot -> I!Sends]
      /\ Rest(full, holder, verified, steps) /\ \A x \in Slot : SendFine(send[x], asking)
  BY InquiryParts
<1>2. ASSUME NEW t \in Tab, NEW k \in Line, I!RequestAsMember(t, k) PROVE FALSE
  <2>1. tab[t].user \in User /\ draft' = I!AddLine(draft, tab[t].user, k)
    BY <1>1, <1>2 DEF I!RequestAsMember, I!Rows
  <2> QED BY <1>0, <1>1, <2>1, AddKeeps
<1>3. ASSUME NEW t \in Tab, NEW page \in {"other", "contacts"}, I!Visit(t, page) PROVE FALSE
  <2> DEFINE n == I!Entered(tab[t], page)
  <2>1. n.user \in User \cup {None} /\ I!Becomes(t, n, draft)
    BY <1>1, <1>3 DEF I!Visit, I!Entered, I!Rows
  <2> HIDE DEF n
  <2> QED BY <1>0, <2>1, BecomesKeeps
<1>4. ASSUME NEW t \in Tab, NEW u \in User, I!LogIn(t, u) PROVE FALSE
  <2> DEFINE v == u \in verified
             n == [tab[t] EXCEPT !.user = u, !.verified = v]
             last == IF n.verified THEN [n EXCEPT !.modal = FALSE] ELSE I!Entered(n, "other")
  <2>1. I!Becomes(t, last, draft)
    BY <1>4 DEF I!LogIn
  <2>2. n.user = u
    BY <1>1 DEF I!Rows
  <2> HIDE DEF n
  <2>3. last.user = u
    BY <1>1, <2>2 DEF I!Entered
  <2> HIDE DEF last
  <2> QED BY <1>0, <2>1, <2>3, BecomesKeeps
<1>5. ASSUME NEW t \in Tab, I!LogOut(t) PROVE FALSE
  <2> DEFINE n == [tab[t] EXCEPT !.user = None, !.verified = FALSE]
             last == I!Entered(n, "other")
  <2>1. I!Becomes(t, last, draft)
    BY <1>5 DEF I!LogOut
  <2>2. n.user = None
    BY <1>1 DEF I!Rows
  <2> HIDE DEF n
  <2>3. last.user = None
    BY <2>2 DEF I!Entered
  <2> HIDE DEF last
  <2> QED BY <1>0, <2>1, <2>3, BecomesKeeps
<1>6. ASSUME NEW t \in Tab, I!Reload(t) PROVE FALSE
  <2> DEFINE v == holder \in verified
             n == [I!Opened EXCEPT !.at = tab[t].at, !.pending = tab[t].pending, !.user = holder,
                                   !.verified = v]
  <2>1. I!Becomes(t, n, draft)
    BY <1>6 DEF I!Reload
  <2>2. n.user \in User \cup {None}
    BY <1>1 DEF I!Opened, Rest
  <2> HIDE DEF n
  <2> QED BY <1>0, <2>1, <2>2, BecomesKeeps
<1>7. ASSUME NEW t \in Tab, NEW message \in BOOLEAN, I!TypeMessage(t, message) PROVE FALSE
  <2>1. CASE tab[t].user = None
    BY <1>0, <1>7, <2>1 DEF I!TypeMessage
  <2>2. CASE tab[t].user # None
    <3>1. draft' = I!Persist(draft, tab[t], message) /\ tab[t].user \in User
      BY <1>1, <1>7, <2>2 DEF I!TypeMessage, I!Rows
    <3> QED BY <1>0, <1>1, <3>1, PersistKeeps
  <2> QED BY <2>1, <2>2
<1>8. ASSUME NEW t \in Tab, NEW k \in Line, I!Remove(t, k) PROVE Leaving(w, l)
  <2> DEFINE u == tab[t].user
             lines == draft[u].lines \ {k}
             value == [draft[u] EXCEPT !.lines = lines]
  <2>1. u \in User /\ draft' = I!RemoveLine(draft, u, k)
    BY <1>1, <1>8 DEF I!Remove, I!Rows
  <2>2. I!RemoveLine(draft, u, k) = I!Written(draft, u, value)
    BY DEF I!RemoveLine
  <2>3. value.lines = lines
    BY <1>1, <2>1 DEF I!Drafts
  <2> HIDE DEF value
  <2>4. draft'[w] # draft[w] /\ w = u
    BY <1>0, <1>1, <2>1, <2>2, WrittenApart
  <2>5. draft'[w] = value
    BY <1>1, <2>1, <2>2, <2>4 DEF I!Written
  <2>6. k = l
    BY <2>3, <2>4, <2>5 DEF I!Leaves
  <2> QED BY <1>8, <2>4, <2>6 DEF Leaving
<1>9. ASSUME NEW t \in Tab, I!Reset(t) PROVE Leaving(w, l)
  <2>1. tab[t].user \in User /\ draft' = I!Written(draft, tab[t].user, I!EmptyDraft)
    BY <1>0, <1>1, <1>9 DEF I!Reset, I!Rows, I!ResetDraft
  <2>2. w = tab[t].user
    BY <1>0, <1>1, <2>1, WrittenApart
  <2> QED BY <1>9, <2>2 DEF Leaving
<1>10. ASSUME NEW x \in Slot, I!Succeed(x) PROVE Leaving(w, l)
  <2>1. draft' = I!Written(draft, send[x].user, I!EmptyDraft)
    BY <1>0, <1>10 DEF I!Succeed, I!ResetDraft
  <2>2. send[x].user \in User
    <3>1. send[x] # I!NoSend
      BY <1>10 DEF I!Succeed, I!NoSend
    <3> QED BY <1>1, <3>1 DEF SendFine
  <2>3. w = send[x].user
    BY <1>0, <1>1, <2>1, <2>2, WrittenApart
  <2> QED BY <1>10, <2>3 DEF Leaving
<1>11. ASSUME NEW t \in Tab, NEW k \in Line, I!RequestAsGuest(t, k) PROVE FALSE
  BY <1>0, <1>11 DEF I!RequestAsGuest
<1>12. ASSUME NEW t \in Tab, I!OpenLogin(t) \/ I!Dismiss(t) \/ I!SubmitAsGuest(t) PROVE FALSE
  BY <1>0, <1>12 DEF I!OpenLogin, I!Dismiss, I!SubmitAsGuest
<1>13. ASSUME NEW t \in Tab, NEW x \in Slot, I!Submit(t, x) PROVE FALSE
  BY <1>0, <1>13 DEF I!Submit
<1>14. ASSUME NEW x \in Slot, I!Deliver(x) \/ I!Fail(x) PROVE FALSE
  BY <1>0, <1>14 DEF I!Deliver, I!Fail
<1>15. ASSUME (\E u \in User : I!VerifyEmail(u)) \/ I!Fill PROVE FALSE
  BY <1>0, <1>15 DEF I!VerifyEmail, I!Fill
<1> QED BY <1>2, <1>3, <1>4, <1>5, <1>6, <1>7, <1>8, <1>9, <1>10, <1>11, <1>12, <1>13, <1>14, <1>15
        DEF I!Next

(* A line leaves a draft because its user removed it, emptied the draft or *)
(* got an inquiry sent: no other tab, and no late answer to anybody else,  *)
(* takes it away.                                                          *)
THEOREM LinesLeaveOnlyByAct == SceneSpec => LinesLeaveByAct
<1>1. SceneSpec => []InquiryInv
  BY InquiryInit, InquiryStep, PTL DEF SceneSpec
<1>2. InquiryInv /\ [SceneNext]_<<scene, inquiry, reading, vars>> =>
        [\A u \in User, l \in Line : I!Leaves(u, l) =>
           \/ \E t \in Tab : tab[t].user = u /\ (I!Remove(t, l) \/ I!Reset(t))
           \/ \E x \in Slot : send[x].user = u /\ I!Succeed(x)]_I!vars
  <2>1. ASSUME InquiryInv, I!Next
        PROVE  \A u \in User, l \in Line : I!Leaves(u, l) =>
                 \/ \E t \in Tab : tab[t].user = u /\ (I!Remove(t, l) \/ I!Reset(t))
                 \/ \E x \in Slot : send[x].user = u /\ I!Succeed(x)
    BY <2>1, LeavesByAct DEF Leaving
  <2>2. ASSUME UNCHANGED inquiry PROVE UNCHANGED I!vars
    BY <2>2 DEF inquiry, I!vars
  <2> QED BY <2>1, <2>2 DEF SceneNext, inquiry
<1> QED BY <1>1, <1>2, PTL DEF SceneSpec, LinesLeaveByAct, I!LinesLeaveByAct
-----------------------------------------------------------------------------
(***************************************************************************)
(* The article.  That the page shows what it would be told once nothing is *)
(* under way holds because of what is under way before: each answer that   *)
(* has not come yet, and the order in which the service gave them.         *)
(***************************************************************************)
Ops == {"load", "like", "comment", "remove", "publish", "request_changes", "reject"}
Seeable == R!Shown \cup {R!Absent}
Statuses == R!Unpublished \cup {"published"}
Servers == [found : BOOLEAN, status : Statuses, liked : BOOLEAN, comments : Seq(R!Comment)]
Calls == [op : {None} \cup Ops, text : Texts \cup {None}, quote : Nat, note : BOOLEAN,
          phase : {"idle", "sent", "done"}, out : {None} \cup BOOLEAN \cup Seeable, fresh : BOOLEAN]

CallFine(r) ==
  /\ r \in Calls
  /\ r.phase = "idle" => r = R!NoCall
  /\ r.phase # "idle" => r.op \in Ops
  /\ r.phase # "idle" /\ r.op = "comment" => r.text \in Texts
  /\ r.phase = "done" /\ r.op = "load" => r.out \in Seeable
  /\ r.phase = "done" /\ r.op = "like" => r.out \in BOOLEAN

(* The page.                                                               *)
PageFine ==
  /\ role \in R!Roles /\ enabled \in BOOLEAN /\ sending \in BOOLEAN
  /\ crossed \in BOOLEAN /\ calm \in BOOLEAN
  /\ reply \in 0 .. Taps + Others + 1
  /\ taps \in 0 .. Taps /\ others \in 0 .. Others

ServedFine == server \in Servers /\ article \in {None} \cup Seeable

CallsFine ==
  /\ calls \in [Ask -> Calls] /\ \A x \in Ask : CallFine(calls[x])
  /\ ahead \in [Ask -> SUBSET Ask]
  /\ \A x \in Ask : ahead[x] \subseteq R!Done \ {x} /\ (x \notin R!Done => ahead[x] = {})
  /\ \A x, y \in R!Done : x = y \/ x \in ahead[y] \/ y \in ahead[x]

Base == PageFine /\ ServedFine /\ CallsFine

IsDone(r) == r.phase = "done"
IsLoad(r) == IsDone(r) /\ r.op = "load"
IsHeart(r) == IsDone(r) /\ r.op \in {"load", "like"}

(* A load that is still to be served, or will be asked for.                *)
Coming(r) ==
  \/ r.phase = "sent" /\ r.op = "load"
  \/ IsDone(r) /\ r.op \notin {"load", "like"}

LEMMA ReaderConstants ==
  /\ None \notin Ask /\ None \notin Texts /\ None \notin R!Shown /\ None # R!Absent
  /\ Ask # {} /\ Texts # {} /\ Taps \in Nat /\ Others \in Nat
BY VisitorAssumption DEF R!ReaderAssumption

LEMMA AbsentApart == R!Absent \notin R!Shown /\ R!Absent.liked = FALSE
BY DEF R!Absent, R!Shown, R!Unpublished

Visible == server.found /\ (server.status = "published" \/ R!Staff \/ role = "author")

LEMMA ViewIs ==
  ASSUME ServedFine
  PROVE  /\ Visible => /\ R!View \in R!Shown
                       /\ R!View.status = server.status
                       /\ R!View.liked = server.liked
                       /\ R!View.comments = server.comments
         /\ ~Visible => R!View = R!Absent
         /\ R!View \in Seeable
<1>1. CASE Visible
  <2>1. R!View = [status |-> server.status, liked |-> server.liked, comments |-> server.comments]
    BY <1>1 DEF Visible, R!View
  <2> QED BY <1>1, <2>1 DEF ServedFine, Servers, Statuses, R!Shown, Seeable
<1>2. CASE ~Visible
  BY <1>2 DEF Visible, R!View, Seeable
<1> QED BY <1>1, <1>2

(* The last load under way that nothing has overtaken brings what is there.*)
Fresh ==
  \A x \in Ask : IsLoad(calls[x]) /\ calls[x].fresh /\ (\A y \in Ask : x \notin ahead[y])
    => calls[x].out = R!View

SameText(v, w) == v.status = w.status /\ v.comments = w.comments

(* As long as nothing was lost and nobody interfered, either the page will *)
(* be loaded anew, or the last of the answers under way, or the page if    *)
(* there is none, shows what is there: its heart by the last answer that   *)
(* has one, the rest by the last load.                                     *)
TextComes ==
  /\ \A x \in Ask : IsLoad(calls[x]) /\ (\A y \in Ask : IsLoad(calls[y]) => x \notin ahead[y])
       => SameText(calls[x].out, R!View)
  /\ (\A x \in Ask : ~IsLoad(calls[x])) => article # None /\ SameText(article, R!View)
HeartComes ==
  /\ \A x \in Ask : IsHeart(calls[x]) /\ (\A y \in Ask : IsHeart(calls[y]) => x \notin ahead[y])
       => IF calls[x].op = "load" THEN calls[x].out.liked = R!View.liked
          ELSE calls[x].out = R!View.liked
  /\ (\A x \in Ask : ~IsHeart(calls[x])) => article # None /\ article.liked = R!View.liked
Comes == calm => (\E x \in Ask : Coming(calls[x])) \/ (TextComes /\ HeartComes)

LEMMA ShownEqual ==
  ASSUME NEW v \in Seeable, NEW w \in Seeable, SameText(v, w), v.liked = w.liked
  PROVE  v = w
<1>1. CASE v \in R!Shown /\ w \in R!Shown
  BY <1>1 DEF SameText, R!Shown
<1>2. CASE v = R!Absent \/ w = R!Absent
  <2>1. v.status = "absent" /\ w.status = "absent"
    BY <1>2 DEF SameText, R!Absent
  <2>2. v = R!Absent /\ w = R!Absent
    BY <2>1 DEF Seeable, R!Shown, R!Unpublished
  <2> QED BY <2>2
<1> QED BY <1>1, <1>2 DEF Seeable

(* Nothing under way: the page is what was promised.                       *)
LEMMA ComesShown == Base /\ Comes => R!ShownIsServed
<1> SUFFICES ASSUME Base, Comes, calm, \A x \in Ask : R!Free(x) PROVE article = R!View
  BY DEF R!ShownIsServed
<1>1. \A x \in Ask : calls[x].phase = "idle"
  BY DEF R!Free, R!NoCall
<1>2. \A x \in Ask : ~Coming(calls[x]) /\ ~IsLoad(calls[x]) /\ ~IsHeart(calls[x])
  BY <1>1 DEF Coming, IsLoad, IsHeart, IsDone
<1>3. article # None /\ SameText(article, R!View) /\ article.liked = R!View.liked
  BY <1>2 DEF Comes, TextComes, HeartComes
<1>4. article \in Seeable /\ R!View \in Seeable
  BY <1>3, ViewIs DEF Base, ServedFine
<1> QED BY <1>3, <1>4, ShownEqual

LEMMA AcceptsIs ==
  ASSUME NEW r, server.found
  PROVE  /\ r.op \in {"like", "comment", "remove"} =>
              (R!Accepts(r) <=> server.status = "published")
         /\ r.op \in R!Decisions /\ r.note = TRUE /\ server.status \in R!Moderatable => R!Accepts(r)
<1>1. CASE r.op \in {"like", "comment", "remove"}
  BY <1>1 DEF R!Accepts, R!Decisions
<1>2. CASE r.op \in R!Decisions
  <2>1. r.op \notin {"like", "comment", "remove"}
    BY <1>2 DEF R!Decisions
  <2> QED BY <1>2, <2>1 DEF R!Accepts
<1> QED BY <1>1, <1>2

(* What a page that is up to date offers, the service accepts.             *)
LEMMA OffersAccepted == Base => R!OfferedIsAccepted
<1> SUFFICES ASSUME Base, R!Loaded, article = R!View
             PROVE  /\ \A op \in R!Offered : R!Accepts([R!Call(op) EXCEPT !.note = TRUE])
                    /\ article.status = "published" =>
                         R!Accepts(R!Call("like")) /\ R!Accepts(R!Call("comment"))
  BY DEF R!OfferedIsAccepted
<1>1. Visible /\ article.status = server.status /\ server.found
  BY ViewIs DEF Base, R!Loaded, Visible
<1>2. ASSUME NEW op \in R!Offered PROVE R!Accepts([R!Call(op) EXCEPT !.note = TRUE])
  <2> DEFINE r == [R!Call(op) EXCEPT !.note = TRUE]
  <2>1. r.op = op /\ r.note = TRUE
    BY DEF R!Call, R!NoCall
  <2>2. \/ op \in R!Decisions /\ server.status \in R!Moderatable
        \/ op = "remove" /\ server.status = "published"
    BY <1>1 DEF R!Offered
  <2> HIDE DEF r
  <2>3. op = "remove" => r.op \in {"like", "comment", "remove"}
    BY <2>1
  <2>4. R!Accepts(r)
    BY <1>1, <2>1, <2>2, <2>3, AcceptsIs
  <2> QED BY <2>4 DEF r
<1>3. ASSUME article.status = "published"
      PROVE  R!Accepts(R!Call("like")) /\ R!Accepts(R!Call("comment"))
  <2>1. R!Call("like").op = "like" /\ R!Call("comment").op = "comment"
    BY DEF R!Call, R!NoCall
  <2> QED BY <1>1, <1>3, <2>1, AcceptsIs
<1> QED BY <1>2, <1>3

(***************************************************************************)
(* A comment that is chosen: what is shown, and every load under way, is   *)
(* no longer than what is there, and what is there only grows.             *)
(***************************************************************************)
Gone == ~server.found
Seen == Visible \/ Gone

(* The page waits for its first load, and nothing else is under way.       *)
Begins ==
  article = None =>
    /\ reply = 0
    /\ \A x \in Ask : calls[x].phase # "idle" =>
         calls[x].op = "load" /\ \A y \in Ask \ {x} : calls[y].phase = "idle"

(* What was shown once is shown for as long as it is there.                *)
SeenOnce ==
  /\ \A x \in Ask : IsLoad(calls[x]) /\ calls[x].out \in R!Shown => Seen
  /\ article \in R!Shown => Seen
  /\ article # None /\ reply # 0 => Seen
  /\ article # None => \A x \in Ask : calls[x].phase # "idle" => Seen
  /\ article # None => \A x \in Ask : IsLoad(calls[x]) /\ calls[x].out = R!Absent => Gone

(* v was served before w.                                                  *)
Sooner(v, w) == w = R!Absent \/ (v \in R!Shown /\ Len(v.comments) <= Len(w.comments))

InOrder ==
  \A x, y \in Ask : IsLoad(calls[x]) /\ IsLoad(calls[y]) /\ x \in ahead[y]
    => Sooner(calls[x].out, calls[y].out)

NoLonger ==
  /\ article \in R!Shown => Len(article.comments) <= Len(server.comments)
  /\ \A x \in Ask : IsLoad(calls[x]) /\ calls[x].out \in R!Shown
       => Len(calls[x].out.comments) <= Len(server.comments)
  /\ reply <= Len(server.comments)

InTurn ==
  ~crossed =>
    /\ reply # 0 /\ article = R!Absent =>
         Gone /\ \A x \in Ask : IsLoad(calls[x]) => calls[x].out = R!Absent
    /\ article \in R!Shown => \A x \in Ask : IsLoad(calls[x]) => Sooner(article, calls[x].out)
    /\ reply # 0 => \/ article = R!Absent
                    \/ article \in R!Shown /\ reply <= Len(article.comments)

Quoted == Begins /\ SeenOnce /\ InOrder /\ NoLonger /\ InTurn

ReaderInv == Base /\ Fresh /\ Comes /\ Quoted

LEMMA QuotedShown == Base /\ Quoted => R!ReplyShown
<1> SUFFICES ASSUME Base, Quoted, reply # 0, ~crossed PROVE R!Quote = reply \/ article = R!Absent
  BY DEF R!ReplyShown
<1>1. CASE article \in R!Shown /\ reply <= Len(article.comments)
  <2>1. reply \in Nat /\ reply >= 1
    BY ReaderConstants DEF Base, PageFine
  <2>2. article.comments \in Seq(R!Comment)
    BY <1>1 DEF R!Shown
  <2>3. reply \in DOMAIN article.comments
    BY <1>1, <2>1, <2>2
  <2> QED BY <2>3 DEF R!Quote
<1>2. CASE article = R!Absent
  BY <1>2
<1> QED BY <1>1, <1>2 DEF Quoted, InTurn

(* It says what the run checks.                                            *)
LEMMA ReaderMeans == ReaderInv => ArticleTrue
<1> SUFFICES ASSUME ReaderInv PROVE ArticleTrue
  OBVIOUS
<1>1. R!TypeOK
  <2>1. PageFine /\ ServedFine /\ CallsFine
    BY DEF ReaderInv, Base
  <2>2. {enabled, sending, crossed, calm} \subseteq BOOLEAN
    BY <2>1 DEF PageFine
  <2>3. server.status \in R!Unpublished \cup {"published"}
    BY <2>1 DEF ServedFine, Servers, Statuses
  <2>4. article \in {None, R!Absent} \/ article \in R!Shown
    BY <2>1 DEF ServedFine, Seeable
  <2> QED BY <2>1, <2>2, <2>3, <2>4 DEF PageFine, CallsFine, R!TypeOK
<1>2. R!ShownIsServed /\ R!ReplyShown /\ R!OfferedIsAccepted
  BY ComesShown, OffersAccepted, QuotedShown DEF ReaderInv
<1> QED BY <1>1, <1>2 DEF ArticleTrue

LEMMA NoCallIs ==
  /\ CallFine(R!NoCall)
  /\ R!NoCall.phase = "idle" /\ R!NoCall.fresh = TRUE /\ R!NoCall.quote = 0
  /\ R!NoCall.text = None /\ R!NoCall.note = FALSE
<1>1. R!NoCall \in Calls
  <2> DEFINE outs == {None} \cup BOOLEAN \cup Seeable
  <2>1. None \in outs
    OBVIOUS
  <2> HIDE DEF outs
  <2>2. R!NoCall \in [op : {None} \cup Ops, text : Texts \cup {None}, quote : Nat, note : BOOLEAN,
                      phase : {"idle", "sent", "done"}, out : outs, fresh : BOOLEAN]
    BY <2>1 DEF R!NoCall
  <2> QED BY <2>2 DEF Calls, outs
<1>2. /\ R!NoCall.phase = "idle" /\ R!NoCall.fresh = TRUE /\ R!NoCall.quote = 0
      /\ R!NoCall.text = None /\ R!NoCall.note = FALSE
  BY DEF R!NoCall
<1> QED BY <1>1, <1>2 DEF CallFine

LEMMA CallIs ==
  ASSUME NEW op \in Ops
  PROVE  /\ R!Call(op) \in Calls
         /\ R!Call(op).op = op /\ R!Call(op).phase = "sent" /\ R!Call(op).text = None
         /\ R!Call(op).fresh = TRUE
<1> DEFINE n == R!NoCall
<1>1. n \in Calls /\ n.fresh = TRUE /\ n.text = None
  BY NoCallIs DEF CallFine
<1>2. R!Call(op) = [n EXCEPT !.op = op, !.phase = "sent"]
  BY DEF R!Call
<1> HIDE DEF n
<1> QED BY <1>1, <1>2 DEF Calls

LEMMA ReaderInit ==
  ASSUME R!Init
  PROVE  ReaderInv
<1> DEFINE load == R!Call("load")
<1>1. /\ load \in Calls /\ load.phase = "sent" /\ load.op = "load"
      /\ CallFine(R!NoCall) /\ R!NoCall.phase = "idle"
  BY CallIs, NoCallIs DEF Ops
<1>2. CallFine(load)
  <2> HIDE DEF load
  <2> QED BY <1>1 DEF CallFine, Ops
<1> DEFINE z == CHOOSE y \in Ask : TRUE
<1>3. z \in Ask
  BY ReaderConstants
<1>4. calls = [x \in Ask |-> IF x = z THEN load ELSE R!NoCall] /\ ahead = [x \in Ask |-> {}]
  BY DEF R!Init
<1> HIDE DEF load, z
<1>5. \A x \in Ask : /\ calls[x] \in {load, R!NoCall} /\ calls[x].phase # "done"
                     /\ (calls[x].phase # "idle" => x = z /\ calls[x].op = "load")
  BY <1>1, <1>4
<1>6. calls[z].phase = "sent" /\ calls[z].op = "load"
  BY <1>1, <1>3, <1>4
<1>7. R!Done = {}
  BY <1>5 DEF R!Done
<1>8. CallsFine
  <2>1. calls \in [Ask -> Calls] /\ \A x \in Ask : CallFine(calls[x])
    BY <1>1, <1>2, <1>4 DEF CallFine
  <2> QED BY <1>4, <1>7, <2>1 DEF CallsFine
<1>9. PageFine
  <2>1. /\ role \in R!Roles /\ enabled \in BOOLEAN /\ sending = FALSE /\ crossed = FALSE /\ calm = TRUE
        /\ reply = 0 /\ taps = 0 /\ others = 0
    BY DEF R!Init
  <2>2. Taps \in Nat /\ Others \in Nat
    BY ReaderConstants
  <2>3. 0 \in 0 .. Taps + Others + 1 /\ 0 \in 0 .. Taps /\ 0 \in 0 .. Others
    BY <2>2
  <2>4. sending \in BOOLEAN /\ crossed \in BOOLEAN /\ calm \in BOOLEAN
    BY <2>1
  <2> QED BY <2>1, <2>3, <2>4 DEF PageFine
<1>10. ServedFine
  <2> DEFINE first == [text |-> CHOOSE t \in Texts : TRUE, quote |-> 0]
  <2>1. first \in R!Comment
    BY ReaderConstants DEF R!Comment
  <2> HIDE DEF first
  <2>2. <<>> \in Seq(R!Comment) /\ <<first>> \in Seq(R!Comment)
    BY <2>1
  <2>3. server \in [found : {TRUE}, status : {"published", "pending_review"}, liked : BOOLEAN,
                    comments : {<<>>, <<first>>}]
    BY DEF first, R!Init
  <2>4. server \in Servers
    BY <2>2, <2>3 DEF Servers, Statuses, R!Unpublished
  <2>5. article = None
    BY DEF R!Init
  <2> QED BY <2>4, <2>5 DEF ServedFine
<1>11. Fresh
  BY <1>5 DEF Fresh, IsLoad, IsDone
<1>12. Comes
  BY <1>3, <1>6 DEF Comes, Coming
<1>13. Begins
  <2>1. reply = 0
    BY DEF R!Init
  <2> QED BY <1>5, <2>1 DEF Begins
<1>14. article = None /\ reply = 0 /\ article \notin R!Shown /\ article # R!Absent
  BY ReaderConstants DEF R!Init
<1>15. SeenOnce /\ InOrder
  BY <1>5, <1>14 DEF SeenOnce, InOrder, IsLoad, IsDone
<1>16. NoLonger
  <2>1. server.comments \in Seq(R!Comment)
    BY <1>10 DEF ServedFine, Servers
  <2> QED BY <1>5, <1>14, <2>1 DEF NoLonger, IsLoad, IsDone
<1>17. InTurn
  BY <1>14 DEF InTurn
<1> QED BY <1>8, <1>9, <1>10, <1>11, <1>12, <1>13, <1>15, <1>16, <1>17
        DEF ReaderInv, Base, Quoted

LEMMA ViewKept ==
  ASSUME UNCHANGED <<role, server>>
  PROVE  R!View' = R!View /\ (Visible' <=> Visible) /\ (Seen' <=> Seen) /\ (Gone' <=> Gone)
BY DEF R!View, R!Staff, Visible, Seen, Gone

(* Something is asked for: nothing that is done is touched.                *)
LEMMA StepAsk ==
  ASSUME ReaderInv, PageFine', R!Loaded, NEW x \in Ask, R!Free(x),
         NEW c, CallFine(c), c.phase = "sent", c.op # "load",
         calls' = [calls EXCEPT ![x] = c],
         UNCHANGED <<role, server, article, reply, ahead, crossed, calm>>
  PROVE  ReaderInv'
<1> USE DEF ReaderInv, Base, Quoted
<1>1. calls[x].phase = "idle" /\ calls \in [Ask -> Calls]
  BY NoCallIs DEF R!Free, CallsFine
<1>2. \A y \in Ask : calls'[y] = IF y = x THEN c ELSE calls[y]
  BY <1>1
<1>3. \A y \in Ask : /\ IsDone(calls'[y]) <=> IsDone(calls[y])
                     /\ IsDone(calls[y]) => calls'[y] = calls[y]
  BY <1>1, <1>2 DEF IsDone
<1>4. \A y \in Ask : /\ IsLoad(calls'[y]) <=> IsLoad(calls[y])
                     /\ IsLoad(calls[y]) => calls'[y] = calls[y]
                     /\ IsHeart(calls'[y]) <=> IsHeart(calls[y])
                     /\ IsHeart(calls[y]) => calls'[y] = calls[y]
                     /\ Coming(calls[y]) => Coming(calls'[y])
  BY <1>1, <1>2, <1>3 DEF IsLoad, IsHeart, Coming, IsDone
<1>5. R!Done' = R!Done
  BY <1>3 DEF R!Done, IsDone
<1>6. R!View' = R!View /\ (Seen' <=> Seen) /\ (Gone' <=> Gone)
  BY ViewKept
<1>7. article # None /\ article \in R!Shown
  BY DEF R!Loaded, ServedFine, Seeable
<1>8. CallsFine'
  <2>1. calls' \in [Ask -> Calls] /\ \A y \in Ask : CallFine(calls'[y])
    BY <1>1, <1>2 DEF CallsFine, CallFine
  <2> QED BY <1>5, <2>1 DEF CallsFine
<1>9. ServedFine'
  BY DEF ServedFine
<1>10. Fresh'
  BY <1>4, <1>6 DEF Fresh
<1>11. Comes'
  <2>1. TextComes => TextComes'
    BY <1>4, <1>6 DEF TextComes
  <2>2. HeartComes => HeartComes'
    BY <1>4, <1>6 DEF HeartComes
  <2> QED BY <1>4, <2>1, <2>2 DEF Comes
<1>12. Begins'
  BY <1>7 DEF Begins
<1>13. SeenOnce'
  BY <1>4, <1>6, <1>7 DEF SeenOnce
<1>14. InOrder'
  BY <1>4 DEF InOrder
<1>15. NoLonger'
  BY <1>4 DEF NoLonger
<1>16. InTurn'
  BY <1>4, <1>6, <1>7 DEF InTurn
<1> QED BY <1>8, <1>9, <1>10, <1>11, <1>12, <1>13, <1>14, <1>15, <1>16

LEMMA OneTap ==
  ASSUME taps \in 0 .. Taps, R!Tapped
  PROVE  taps' \in 0 .. Taps
BY ReaderConstants DEF R!Tapped

LEMMA StepLike ==
  ASSUME ReaderInv, NEW x \in Ask, R!Like(x)
  PROVE  ReaderInv'
<1> DEFINE c == R!Call("like")
<1>1. CallFine(c) /\ c.phase = "sent" /\ c.op # "load"
  <2>1. c \in Calls /\ c.op = "like" /\ c.phase = "sent"
    BY CallIs DEF Ops
  <2> HIDE DEF c
  <2> QED BY <2>1 DEF CallFine, Ops
<1>2. /\ R!Loaded /\ R!Free(x) /\ R!Tapped /\ calls' = [calls EXCEPT ![x] = c]
      /\ UNCHANGED <<role, enabled, server, article, reply, sending, ahead, crossed, calm, others>>
  BY DEF R!Like, R!form
<1>3. PageFine'
  BY <1>2, OneTap DEF ReaderInv, Base, PageFine
<1> HIDE DEF c
<1> QED BY <1>1, <1>2, <1>3, StepAsk

LEMMA StepComment ==
  ASSUME ReaderInv, NEW x \in Ask, NEW text \in Texts, R!Submit(x, text)
  PROVE  ReaderInv'
<1> DEFINE n == R!Call("comment")
           q == R!Quote
           c == [n EXCEPT !.text = text, !.quote = q]
<1>1. /\ R!Loaded /\ R!Free(x) /\ R!Tapped /\ calls' = [calls EXCEPT ![x] = c] /\ sending' = TRUE
      /\ UNCHANGED <<role, enabled, server, article, reply, ahead, crossed, calm, others>>
  BY DEF R!Submit
<1>2. q \in Nat
  BY ReaderConstants DEF R!Quote, ReaderInv, Base, PageFine
<1>3. n \in Calls /\ n.op = "comment" /\ n.phase = "sent"
  BY CallIs DEF Ops
<1> HIDE DEF n, q
<1>4. c \in Calls /\ c.op = "comment" /\ c.phase = "sent" /\ c.text = text
  BY <1>2, <1>3 DEF Calls
<1> HIDE DEF c
<1>5. CallFine(c) /\ c.phase = "sent" /\ c.op # "load"
  BY <1>4 DEF CallFine, Ops
<1>6. PageFine'
  <2>1. PageFine /\ sending' \in BOOLEAN
    BY <1>1 DEF ReaderInv, Base
  <2> QED BY <1>1, <2>1, OneTap DEF PageFine
<1> QED BY <1>1, <1>5, <1>6, StepAsk

LEMMA StepAct ==
  ASSUME ReaderInv, NEW x \in Ask, NEW op \in R!Decisions \cup {"remove"}, NEW note \in BOOLEAN,
         R!Act(x, op, note)
  PROVE  ReaderInv'
<1> DEFINE n == R!Call(op)
           c == [n EXCEPT !.note = note]
<1>1. /\ R!Free(x) /\ R!Tapped /\ calls' = [calls EXCEPT ![x] = c] /\ op \in R!Offered
      /\ UNCHANGED <<role, enabled, server, article, reply, sending, ahead, crossed, calm, others>>
  BY DEF R!Act, R!form
<1>2. R!Loaded
  BY <1>1 DEF R!Offered
<1>3. op \in Ops /\ op \notin {"load", "comment"}
  BY DEF R!Decisions, Ops
<1>4. n \in Calls /\ n.op = op /\ n.phase = "sent"
  BY <1>3, CallIs
<1> HIDE DEF n
<1>5. c \in Calls /\ c.op = op /\ c.phase = "sent"
  BY <1>4 DEF Calls
<1> HIDE DEF c
<1>6. CallFine(c) /\ c.phase = "sent" /\ c.op # "load"
  BY <1>3, <1>5 DEF CallFine
<1>7. PageFine'
  BY <1>1, OneTap DEF ReaderInv, Base, PageFine
<1> QED BY <1>1, <1>2, <1>6, <1>7, StepAsk

(* A comment is chosen of those shown.                                     *)
LEMMA StepReply ==
  ASSUME ReaderInv, NEW i \in 1 .. Taps + Others + 1, R!Reply(i)
  PROVE  ReaderInv'
<1> USE DEF ReaderInv, Base, Quoted
<1>1. /\ R!Loaded /\ i \in DOMAIN article.comments /\ reply' = i
      /\ UNCHANGED <<role, enabled, server, article, sending, calls, ahead, crossed, calm, taps, others>>
  BY DEF R!Reply
<1>2. article # None /\ article # R!Absent /\ article \in R!Shown
  BY <1>1 DEF R!Loaded, ServedFine, Seeable
<1>3. article.comments \in Seq(R!Comment) /\ server.comments \in Seq(R!Comment)
  BY <1>2 DEF R!Shown, ServedFine, Servers
<1>4. i \in Nat /\ i <= Len(article.comments) /\ i <= Len(server.comments)
  BY <1>1, <1>2, <1>3 DEF NoLonger
<1>5. R!View' = R!View /\ (Seen' <=> Seen) /\ (Gone' <=> Gone)
  BY <1>1, ViewKept
<1>6. PageFine'
  <2>1. i \in 0 .. Taps + Others + 1
    BY ReaderConstants
  <2> QED BY <1>1, <2>1 DEF PageFine
<1>7. ServedFine' /\ CallsFine'
  BY <1>1 DEF ServedFine, CallsFine, R!Done
<1>8. Fresh' /\ Comes'
  BY <1>1, <1>5 DEF Fresh, Comes, TextComes, HeartComes
<1>9. Begins' /\ InOrder'
  BY <1>1, <1>2 DEF Begins, InOrder
<1>10. SeenOnce'
  BY <1>1, <1>2, <1>5 DEF SeenOnce
<1>11. NoLonger'
  BY <1>1, <1>4 DEF NoLonger
<1>12. InTurn'
  BY <1>1, <1>2, <1>4 DEF InTurn
<1> QED BY <1>6, <1>7, <1>8, <1>9, <1>10, <1>11, <1>12

LEMMA StepToggle ==
  ASSUME ReaderInv, R!Toggle
  PROVE  ReaderInv'
<1> USE DEF ReaderInv, Base, Quoted
<1>1. /\ enabled' = ~enabled
      /\ UNCHANGED <<role, server, article, reply, sending, calls, ahead, crossed, calm, taps, others>>
  BY DEF R!Toggle, R!form
<1>2. R!View' = R!View /\ (Seen' <=> Seen) /\ (Gone' <=> Gone)
  BY <1>1, ViewKept
<1>3. PageFine'
  BY <1>1 DEF PageFine
<1>4. ServedFine' /\ CallsFine'
  BY <1>1 DEF ServedFine, CallsFine, R!Done
<1>5. Fresh' /\ Comes'
  BY <1>1, <1>2 DEF Fresh, Comes, TextComes, HeartComes
<1>6. Quoted'
  BY <1>1, <1>2 DEF Begins, InOrder, SeenOnce, NoLonger, InTurn
<1> QED BY <1>3, <1>4, <1>5, <1>6

(* An answer has come, or will not: it is past, and those that were given  *)
(* before it are not fresh any more.                                       *)
LEMMA Passed ==
  ASSUME ReaderInv, NEW x \in Ask, calls[x].phase # "idle", NEW c, CallFine(c),
         c.phase \in {"idle", "sent"}, calls' = R!After(x, c), R!Past(x)
  PROVE  /\ calls'[x] = c
         /\ \A y \in Ask \ {x} :
              /\ calls'[y].op = calls[y].op /\ calls'[y].phase = calls[y].phase
              /\ calls'[y].out = calls[y].out
              /\ IsLoad(calls'[y]) <=> IsLoad(calls[y])
              /\ IsHeart(calls'[y]) <=> IsHeart(calls[y])
              /\ Coming(calls'[y]) <=> Coming(calls[y])
         /\ ~IsLoad(calls'[x]) /\ ~IsHeart(calls'[x])
         /\ \A y \in Ask : ahead'[y] = IF y = x THEN {} ELSE ahead[y] \ {x}
         /\ CallsFine'
         /\ UNCHANGED <<role, server>> => Fresh'
<1> USE DEF ReaderInv, Base
<1>1. calls \in [Ask -> Calls] /\ \A y \in Ask : CallFine(calls[y])
  BY DEF CallsFine
<1>2. \A y \in Ask : calls'[y] = IF y = x THEN c
                                 ELSE IF y \in ahead[x] THEN [calls[y] EXCEPT !.fresh = FALSE]
                                 ELSE calls[y]
  BY DEF R!After
<1>3. calls'[x] = c
  BY <1>2
<1>4. ASSUME NEW y \in Ask \ {x}
      PROVE  /\ calls'[y].op = calls[y].op /\ calls'[y].phase = calls[y].phase
             /\ calls'[y].out = calls[y].out /\ CallFine(calls'[y])
             /\ calls'[y].fresh = TRUE => calls[y].fresh = TRUE /\ y \notin ahead[x]
  <2> DEFINE r == calls[y]
             s == [r EXCEPT !.fresh = FALSE]
  <2>1. CallFine(r) /\ calls'[y] = IF y \in ahead[x] THEN s ELSE r
    BY <1>1, <1>2
  <2> HIDE DEF r
  <2>2. r \in Calls
    BY <2>1 DEF CallFine
  <2>3. s.op = r.op /\ s.phase = r.phase /\ s.out = r.out /\ s.fresh = FALSE /\ s.text = r.text /\ s \in Calls
    BY <2>2 DEF Calls
  <2> HIDE DEF s
  <2>4. y \in ahead[x] => r.phase # "idle"
    BY DEF CallsFine, R!Done, r
  <2>5. y \in ahead[x] => CallFine(s)
    BY <2>1, <2>3, <2>4 DEF CallFine
  <2>6. calls[y] = r
    BY DEF r
  <2> QED BY <2>1, <2>3, <2>5, <2>6
<1>5. ASSUME NEW y \in Ask \ {x}
      PROVE  /\ IsLoad(calls'[y]) <=> IsLoad(calls[y])
             /\ IsHeart(calls'[y]) <=> IsHeart(calls[y])
             /\ Coming(calls'[y]) <=> Coming(calls[y])
  BY <1>4 DEF IsLoad, IsHeart, Coming, IsDone
<1>6. ~IsLoad(calls'[x]) /\ ~IsHeart(calls'[x]) /\ calls'[x].phase # "done"
  BY <1>3 DEF IsLoad, IsHeart, IsDone
<1>7. \A y \in Ask : ahead'[y] = IF y = x THEN {} ELSE ahead[y] \ {x}
  BY DEF R!Past
<1>8. R!Done' = R!Done \ {x}
  BY <1>4, <1>6 DEF R!Done
<1>9. CallsFine'
  <2>1. \A y \in Ask : CallFine(calls'[y])
    BY <1>3, <1>4
  <2>2. calls' \in [Ask -> Calls]
    BY <2>1 DEF R!After, CallFine
  <2>3. ahead' \in [Ask -> SUBSET Ask]
    BY DEF R!Past, CallsFine
  <2> DEFINE d == R!Done
             e == R!Done'
  <2>4. /\ \A y \in Ask : ahead[y] \subseteq d \ {y} /\ (y \notin d => ahead[y] = {})
        /\ \A y, z \in d : y = z \/ y \in ahead[z] \/ z \in ahead[y]
        /\ d \subseteq Ask
    BY DEF CallsFine, R!Done
  <2>5. e = d \ {x}
    BY <1>8
  <2> HIDE DEF d, e
  <2>6. ASSUME NEW y \in Ask
        PROVE  ahead'[y] \subseteq e \ {y} /\ (y \notin e => ahead'[y] = {})
    <3>1. CASE y = x
      BY <1>7, <3>1
    <3>2. CASE y # x
      <4>1. ahead'[y] = ahead[y] \ {x}
        BY <1>7, <3>2
      <4>2. ahead[y] \subseteq d \ {y} /\ (y \notin d => ahead[y] = {})
        BY <2>4
      <4> QED BY <2>5, <3>2, <4>1, <4>2
    <3> QED BY <3>1, <3>2
  <2>7. ASSUME NEW y \in e, NEW z \in e
        PROVE  y = z \/ y \in ahead'[z] \/ z \in ahead'[y]
    <3>1. y \in Ask /\ z \in Ask /\ y \in d /\ z \in d /\ y # x /\ z # x
      BY <2>4, <2>5
    <3>2. ahead'[y] = ahead[y] \ {x} /\ ahead'[z] = ahead[z] \ {x}
      BY <1>7, <3>1
    <3>3. y = z \/ y \in ahead[z] \/ z \in ahead[y]
      BY <2>4, <3>1
    <3> QED BY <3>1, <3>2, <3>3
  <2>8. /\ \A y \in Ask : ahead'[y] \subseteq R!Done' \ {y} /\ (y \notin R!Done' => ahead'[y] = {})
        /\ \A y, z \in R!Done' : y = z \/ y \in ahead'[z] \/ z \in ahead'[y]
    BY <2>6, <2>7 DEF e
  <2> QED BY <2>1, <2>2, <2>3, <2>8 DEF CallsFine
<1>10. ASSUME UNCHANGED <<role, server>> PROVE Fresh'
  <2>1. R!View' = R!View
    BY <1>10, ViewKept
  <2>2. ASSUME NEW y \in Ask, IsLoad(calls'[y]), calls'[y].fresh, \A z \in Ask : y \notin ahead'[z]
        PROVE  calls'[y].out = R!View
    <3>1. y # x
      BY <1>6, <2>2
    <3>2. calls'[y].fresh = TRUE
      <4>1. calls'[y] \in Calls
        BY <1>9 DEF CallsFine
      <4> QED BY <2>2, <4>1 DEF Calls
    <3>3. IsLoad(calls[y]) /\ calls[y].fresh /\ y \notin ahead[x] /\ calls'[y].out = calls[y].out
      BY <1>4, <1>5, <2>2, <3>1, <3>2
    <3>4. \A z \in Ask : y \notin ahead[z]
      BY <1>7, <2>2, <3>1, <3>3
    <3> QED BY <3>3, <3>4 DEF Fresh
  <2> QED BY <2>1, <2>2 DEF Fresh
<1> QED BY <1>3, <1>4, <1>5, <1>6, <1>7, <1>9, <1>10

(* An answer to something else than a load, and what is lost: the page     *)
(* shows the same comments, and loads that are under way come on.          *)
LEMMA QuotedPasses ==
  ASSUME ReaderInv, NEW x \in Ask, calls[x].phase # "idle", NEW c, CallFine(c),
         c.phase \in {"idle", "sent"}, calls' = R!After(x, c), R!Past(x),
         UNCHANGED <<role, server>>, crossed' \in BOOLEAN, ~crossed' => ~crossed,
         article' = None <=> article = None, article' = R!Absent <=> article = R!Absent,
         article' \in R!Shown <=> article \in R!Shown,
         article \in R!Shown => article'.comments = article.comments,
         reply' = reply \/ (reply' = 0 /\ article # None),
         article = None => c.phase = "idle"
  PROVE  Quoted'
<1> USE DEF ReaderInv, Base, Quoted
<1>1. (Seen' <=> Seen) /\ (Gone' <=> Gone)
  BY ViewKept
<1>2. /\ calls'[x] = c /\ ~IsLoad(calls'[x])
      /\ \A y \in Ask \ {x} : /\ calls'[y].op = calls[y].op /\ calls'[y].phase = calls[y].phase
                              /\ calls'[y].out = calls[y].out
                              /\ IsLoad(calls'[y]) <=> IsLoad(calls[y])
      /\ \A y \in Ask : ahead'[y] = IF y = x THEN {} ELSE ahead[y] \ {x}
  BY Passed
<1>3. \A y \in Ask : IsLoad(calls'[y]) => IsLoad(calls[y]) /\ calls'[y].out = calls[y].out /\ y # x
  BY <1>2
<1>4. Begins'
  BY <1>2 DEF Begins
<1>5. SeenOnce'
  BY <1>1, <1>2, <1>3 DEF SeenOnce
<1>6. InOrder'
  BY <1>2, <1>3 DEF InOrder
<1>7. NoLonger'
  <2>1. reply' <= Len(server.comments)
    <3>1. server.comments \in Seq(R!Comment)
      BY DEF ServedFine, Servers
    <3> QED BY <3>1 DEF NoLonger
  <2> QED BY <1>3, <2>1 DEF NoLonger
<1>8. InTurn'
  <2> SUFFICES ASSUME ~crossed' PROVE InTurn'
    BY DEF InTurn
  <2>1. reply' # 0 => reply' = reply
    OBVIOUS
  <2>2. article' \in R!Shown => \A y \in Ask : IsLoad(calls'[y]) => Sooner(article', calls'[y].out)
    BY <1>3 DEF InTurn, Sooner
  <2>3. reply' # 0 /\ article' = R!Absent =>
          Gone' /\ \A y \in Ask : IsLoad(calls'[y]) => calls'[y].out = R!Absent
    BY <1>1, <1>3, <2>1 DEF InTurn
  <2>4. reply' # 0 => \/ article' = R!Absent
                      \/ article' \in R!Shown /\ reply' <= Len(article'.comments)
    BY <2>1 DEF InTurn
  <2> QED BY <2>2, <2>3, <2>4 DEF InTurn
<1> QED BY <1>4, <1>5, <1>6, <1>7, <1>8

LEMMA LoadedIs == ServedFine => (R!Loaded <=> article \in R!Shown)
BY ReaderConstants, AbsentApart DEF ServedFine, Seeable, R!Loaded

LEMMA LandIs ==
  ASSUME ReaderInv, NEW x \in Ask, R!Land(x), calls[x].op # "load"
  PROVE  /\ R!Past(x)
         /\ crossed' \in BOOLEAN /\ (~crossed' => ~crossed)
         /\ calm' \in BOOLEAN /\ (calm' => calm /\ ahead[x] = {})
<1>1. crossed \in BOOLEAN /\ calm \in BOOLEAN
  BY DEF ReaderInv, Base, PageFine
<1> QED BY <1>1 DEF R!Land

(* The answer to a heart.                                                  *)
LEMMA StepLandLike ==
  ASSUME ReaderInv, NEW x \in Ask, R!LandLike(x)
  PROVE  ReaderInv'
<1> USE DEF ReaderInv, Base
<1> DEFINE c == R!NoCall
<1>1. /\ calls[x].phase = "done" /\ calls[x].op = "like" /\ calls' = R!After(x, c) /\ R!Land(x)
      /\ article' = IF R!Loaded THEN R!Patched(calls[x].out) ELSE article
      /\ UNCHANGED <<role, enabled, server, reply, sending, taps, others>>
  BY DEF R!LandLike, R!form
<1>2. CallFine(c) /\ c.phase = "idle"
  BY NoCallIs
<1> HIDE DEF c
<1>3. /\ R!Past(x) /\ crossed' \in BOOLEAN /\ (~crossed' => ~crossed)
      /\ calm' \in BOOLEAN /\ (calm' => calm /\ ahead[x] = {})
  BY <1>1, LandIs
<1>4. calls[x].phase # "idle" /\ calls[x].out \in BOOLEAN
  BY <1>1 DEF CallsFine, CallFine
<1>5. /\ \A y \in Ask \ {x} : /\ calls'[y].op = calls[y].op /\ calls'[y].out = calls[y].out
                              /\ IsLoad(calls'[y]) <=> IsLoad(calls[y])
                              /\ IsHeart(calls'[y]) <=> IsHeart(calls[y])
                              /\ Coming(calls'[y]) <=> Coming(calls[y])
      /\ ~IsLoad(calls'[x]) /\ ~IsHeart(calls'[x])
      /\ \A y \in Ask : ahead'[y] = IF y = x THEN {} ELSE ahead[y] \ {x}
      /\ CallsFine' /\ Fresh'
  BY <1>1, <1>2, <1>3, <1>4, Passed
<1>6. R!Loaded <=> article \in R!Shown
  BY LoadedIs
<1>7. article \in R!Shown =>
        /\ article' \in R!Shown /\ article'.liked = calls[x].out
        /\ article'.comments = article.comments /\ article'.status = article.status
  BY <1>1, <1>4, <1>6 DEF R!Patched, R!Shown
<1>8. article \notin R!Shown => article' = article
  BY <1>1, <1>6
<1>9. /\ article' = None <=> article = None
      /\ article' = R!Absent <=> article = R!Absent
      /\ article' \in R!Shown <=> article \in R!Shown
  BY <1>7, <1>8, ReaderConstants, AbsentApart
<1>10. ServedFine'
  BY <1>1, <1>9, <1>8 DEF ServedFine, Seeable
<1>11. PageFine'
  BY <1>1, <1>3 DEF PageFine
<1>12. Quoted'
  BY <1>1, <1>2, <1>3, <1>4, <1>7, <1>9, QuotedPasses
<1>13. R!View' = R!View
  BY <1>1, ViewKept
<1>14. Comes'
  <2> SUFFICES ASSUME calm' PROVE (\E y \in Ask : Coming(calls'[y])) \/ (TextComes' /\ HeartComes')
    BY DEF Comes
  <2>1. calm /\ ahead[x] = {}
    BY <1>3
  <2>2. ~IsLoad(calls[x]) /\ IsHeart(calls[x]) /\ ~Coming(calls[x])
    BY <1>1 DEF IsLoad, IsHeart, Coming, IsDone
  <2>3. CASE \E y \in Ask : Coming(calls[y])
    BY <1>5, <2>2, <2>3
  <2>4. CASE TextComes /\ HeartComes
    <3>1. \A y \in Ask : /\ IsLoad(calls'[y]) <=> IsLoad(calls[y])
                         /\ IsLoad(calls[y]) => calls'[y].out = calls[y].out /\ y # x
      BY <1>5, <2>2
    <3>2. \A y, z \in Ask : y # x /\ y \notin ahead'[z] => y \notin ahead[z]
      BY <1>5, <2>1
    <3>3. TextComes'
      <4>1. ASSUME NEW y \in Ask, IsLoad(calls'[y]), \A z \in Ask : IsLoad(calls'[z]) => y \notin ahead'[z]
            PROVE  SameText(calls'[y].out, R!View')
        BY <1>13, <2>4, <3>1, <3>2, <4>1 DEF TextComes
      <4>2. ASSUME \A y \in Ask : ~IsLoad(calls'[y])
            PROVE  article' # None /\ SameText(article', R!View')
        <5>1. article # None /\ SameText(article, R!View)
          BY <2>4, <3>1, <4>2 DEF TextComes
        <5>2. article'.status = article.status /\ article'.comments = article.comments
          BY <1>7, <1>8
        <5> QED BY <1>9, <1>13, <5>1, <5>2 DEF SameText
      <4> QED BY <4>1, <4>2 DEF TextComes
    <3>4. HeartComes'
      <4>1. ASSUME NEW y \in Ask, IsHeart(calls'[y]), \A z \in Ask : IsHeart(calls'[z]) => y \notin ahead'[z]
            PROVE  IF calls'[y].op = "load" THEN calls'[y].out.liked = R!View'.liked
                   ELSE calls'[y].out = R!View'.liked
        <5>1. y # x /\ IsHeart(calls[y]) /\ calls'[y].op = calls[y].op /\ calls'[y].out = calls[y].out
          BY <1>5, <4>1
        <5>2. \A z \in Ask : IsHeart(calls[z]) => y \notin ahead[z]
          BY <1>5, <2>1, <3>2, <4>1, <5>1
        <5> QED BY <1>13, <2>4, <5>1, <5>2 DEF HeartComes
      <4>2. ASSUME \A y \in Ask : ~IsHeart(calls'[y])
            PROVE  article' # None /\ article'.liked = R!View'.liked
        <5>1. \A y \in Ask \ {x} : ~IsHeart(calls[y])
          BY <1>5, <4>2
        <5>2. calls[x].out = R!View.liked
          BY <1>1, <2>1, <2>2, <2>4, <5>1 DEF HeartComes
        <5>3. \A y \in Ask : ~IsLoad(calls[y])
          BY <2>2, <5>1 DEF IsLoad, IsHeart
        <5>4. article # None /\ SameText(article, R!View)
          BY <2>4, <5>3 DEF TextComes
        <5>5. CASE article \in R!Shown
          BY <1>7, <1>9, <1>13, <5>2, <5>4, <5>5
        <5>6. CASE article = R!Absent
          <6>1. R!View.status = "absent"
            BY <5>4, <5>6 DEF SameText, R!Absent
          <6>2. R!View = R!Absent
            BY <6>1, ViewIs DEF Seeable, R!Shown, R!Unpublished
          <6> QED BY <1>9, <1>13, <5>4, <5>6, <6>2
        <5> QED BY <5>4, <5>5, <5>6 DEF ServedFine, Seeable
      <4> QED BY <4>1, <4>2 DEF HeartComes
    <3> QED BY <3>3, <3>4
  <2> QED BY <2>1, <2>3, <2>4 DEF Comes
<1> QED BY <1>5, <1>10, <1>11, <1>12, <1>14

(* What was commented or decided is looked at again.                       *)
LEMMA StepLandAct ==
  ASSUME ReaderInv, NEW x \in Ask, R!LandAct(x)
  PROVE  ReaderInv'
<1> USE DEF ReaderInv, Base
<1> DEFINE c == R!Call("load")
<1>1. /\ calls[x].phase = "done" /\ calls[x].op \in {"comment", "remove"} \cup R!Decisions
      /\ IF calls[x].op = "comment" THEN reply' = 0 /\ sending' = FALSE ELSE UNCHANGED R!form
      /\ calls' = R!After(x, R!Reloading(calls[x].op)) /\ R!Land(x)
      /\ UNCHANGED <<role, enabled, server, article, taps, others>>
  BY DEF R!LandAct
<1>2. calls' = R!After(x, c)
  BY <1>1 DEF R!Reloading
<1>3. c \in Calls /\ c.op = "load" /\ c.phase = "sent"
  BY CallIs DEF Ops
<1> HIDE DEF c
<1>4. CallFine(c)
  BY <1>3 DEF CallFine, Ops
<1>5. calls[x].phase # "idle" /\ calls[x].op # "load"
  BY <1>1 DEF R!Decisions
<1>6. /\ R!Past(x) /\ crossed' \in BOOLEAN /\ (~crossed' => ~crossed) /\ calm' \in BOOLEAN
  BY <1>1, <1>5, LandIs
<1>7. calls'[x] = c /\ CallsFine' /\ Fresh'
  BY <1>1, <1>2, <1>3, <1>4, <1>5, <1>6, Passed
<1>8. article # None
  BY <1>5 DEF Quoted, Begins
<1>9. /\ reply' = reply \/ reply' = 0
      /\ sending' = sending \/ sending' = FALSE
  BY <1>1 DEF R!form
<1>10. Quoted'
  <2>1. UNCHANGED <<role, server>> /\ article' = article
    BY <1>1
  <2> QED BY <1>2, <1>3, <1>4, <1>5, <1>6, <1>8, <1>9, <2>1, QuotedPasses
<1>11. PageFine'
  <2>1. 0 \in 0 .. Taps + Others + 1
    BY ReaderConstants
  <2> QED BY <1>1, <1>6, <1>9, <2>1 DEF PageFine
<1>12. ServedFine'
  BY <1>1 DEF ServedFine
<1>13. Comes'
  BY <1>3, <1>7 DEF Comes, Coming
<1> QED BY <1>7, <1>10, <1>11, <1>12, <1>13

LEMMA StepFail ==
  ASSUME ReaderInv, NEW x \in Ask, R!Fail(x)
  PROVE  ReaderInv'
<1> USE DEF ReaderInv, Base
<1> DEFINE c == R!NoCall
<1>1. /\ calls[x].phase \in {"sent", "done"} /\ calls' = R!After(x, c) /\ R!Past(x)
      /\ sending' = R!Freed(calls[x].op)
      /\ calm' = (calm /\ calls[x].op # "load" /\ calls[x].phase = "sent")
      /\ UNCHANGED <<role, enabled, server, article, reply, crossed, taps, others>>
  BY DEF R!Fail
<1>2. CallFine(c) /\ c.phase = "idle"
  BY NoCallIs
<1> HIDE DEF c
<1>3. calls[x].phase # "idle"
  BY <1>1
<1>4. /\ \A y \in Ask \ {x} : /\ calls'[y].op = calls[y].op /\ calls'[y].out = calls[y].out
                              /\ IsLoad(calls'[y]) <=> IsLoad(calls[y])
                              /\ IsHeart(calls'[y]) <=> IsHeart(calls[y])
                              /\ Coming(calls'[y]) <=> Coming(calls[y])
      /\ ~IsLoad(calls'[x]) /\ ~IsHeart(calls'[x])
      /\ \A y \in Ask : ahead'[y] = IF y = x THEN {} ELSE ahead[y] \ {x}
      /\ CallsFine' /\ Fresh'
  BY <1>1, <1>2, <1>3, Passed
<1>5. PageFine'
  <2>1. sending \in BOOLEAN /\ calm \in BOOLEAN
    BY DEF PageFine
  <2>2. sending' \in BOOLEAN
    BY <1>1, <2>1 DEF R!Freed
  <2>3. calm' \in BOOLEAN
    BY <1>1, <2>1
  <2> QED BY <1>1, <2>2, <2>3 DEF PageFine
<1>6. ServedFine'
  BY <1>1 DEF ServedFine
<1>7. Quoted'
  <2>1. UNCHANGED <<role, server>> /\ article' = article /\ reply' = reply /\ crossed' = crossed
    BY <1>1
  <2>2. crossed' \in BOOLEAN
    BY <2>1 DEF PageFine
  <2> QED BY <1>1, <1>2, <1>3, <2>1, <2>2, QuotedPasses
<1>8. R!View' = R!View
  BY <1>1, ViewKept
<1>9. Comes'
  <2> SUFFICES ASSUME calm' PROVE (\E y \in Ask : Coming(calls'[y])) \/ (TextComes' /\ HeartComes')
    BY DEF Comes
  <2>1. calm /\ ~IsLoad(calls[x]) /\ ~IsHeart(calls[x]) /\ ~Coming(calls[x])
    BY <1>1 DEF IsLoad, IsHeart, Coming, IsDone
  <2>2. \A y \in Ask : /\ IsLoad(calls'[y]) <=> IsLoad(calls[y])
                       /\ IsHeart(calls'[y]) <=> IsHeart(calls[y])
                       /\ IsLoad(calls[y]) \/ IsHeart(calls[y]) =>
                            y # x /\ calls'[y].out = calls[y].out /\ calls'[y].op = calls[y].op
    BY <1>4, <2>1
  <2>3. \A y, z \in Ask : y # x /\ z # x /\ y \notin ahead'[z] => y \notin ahead[z]
    BY <1>4
  <2>4. CASE \E y \in Ask : Coming(calls[y])
    BY <1>4, <2>1, <2>4
  <2>5. CASE TextComes /\ HeartComes
    <3>1. TextComes'
      BY <1>1, <1>8, <2>2, <2>3, <2>5 DEF TextComes
    <3>2. HeartComes'
      BY <1>1, <1>8, <2>2, <2>3, <2>5 DEF HeartComes
    <3> QED BY <3>1, <3>2
  <2> QED BY <2>1, <2>4, <2>5 DEF Comes
<1> QED BY <1>4, <1>5, <1>6, <1>7, <1>9

(* A load comes: the page shows what it brings.                            *)
LEMMA QuotedLoads ==
  ASSUME ReaderInv, NEW x \in Ask, IsLoad(calls[x]), calls' = R!After(x, R!NoCall), R!Past(x),
         article' = calls[x].out, UNCHANGED <<role, server, reply>>,
         ~crossed' => \/ calls[x].out = R!View /\ \A y \in Ask \ {x} : calls[y].phase = "idle"
                      \/ ~crossed /\ ahead[x] = {}
  PROVE  Quoted'
<1> USE DEF ReaderInv, Base, Quoted
<1> DEFINE w == calls[x].out
<1>1. /\ \A y \in Ask \ {x} : /\ calls'[y].op = calls[y].op /\ calls'[y].phase = calls[y].phase
                              /\ calls'[y].out = calls[y].out
                              /\ IsLoad(calls'[y]) <=> IsLoad(calls[y])
      /\ ~IsLoad(calls'[x]) /\ calls'[x].phase = "idle"
      /\ \A y \in Ask : ahead'[y] = IF y = x THEN {} ELSE ahead[y] \ {x}
  <2>1. CallFine(R!NoCall) /\ R!NoCall.phase = "idle" /\ calls[x].phase # "idle"
    BY NoCallIs DEF IsLoad, IsDone
  <2> QED BY <2>1, Passed
<1>2. \A y \in Ask : IsLoad(calls'[y]) => IsLoad(calls[y]) /\ calls'[y].out = calls[y].out /\ y # x
  BY <1>1
<1>3. (Seen' <=> Seen) /\ (Gone' <=> Gone)
  BY ViewKept
<1>4. w \in Seeable /\ w # None /\ (w = R!Absent \/ w \in R!Shown)
  <2>1. w \in Seeable
    BY DEF IsLoad, IsDone, CallsFine, CallFine
  <2> QED BY <2>1, ReaderConstants DEF Seeable
<1>5. article = None =>
        reply = 0 /\ \A y \in Ask \ {x} : calls[y].phase = "idle" /\ ~IsLoad(calls[y])
  BY DEF Begins, IsLoad, IsDone
<1>6. Begins'
  BY <1>4 DEF Begins
<1>7. SeenOnce'
  <2>1. \A y \in Ask : IsLoad(calls'[y]) /\ calls'[y].out \in R!Shown => Seen'
    BY <1>2, <1>3 DEF SeenOnce
  <2>2. article' \in R!Shown => Seen'
    BY <1>3 DEF SeenOnce
  <2>3. reply' # 0 => Seen'
    BY <1>3, <1>5 DEF SeenOnce
  <2>4. \A y \in Ask : calls'[y].phase # "idle" => Seen'
    BY <1>1, <1>3, <1>5 DEF SeenOnce
  <2>5. \A y \in Ask : IsLoad(calls'[y]) /\ calls'[y].out = R!Absent => Gone'
    BY <1>2, <1>3, <1>5 DEF SeenOnce
  <2> QED BY <2>1, <2>2, <2>3, <2>4, <2>5 DEF SeenOnce
<1>8. InOrder'
  BY <1>1, <1>2 DEF InOrder
<1>9. NoLonger'
  <2>1. article' \in R!Shown => Len(article'.comments) <= Len(server'.comments)
    BY DEF NoLonger
  <2> QED BY <1>2, <2>1 DEF NoLonger
<1>10. InTurn'
  <2> SUFFICES ASSUME ~crossed' PROVE InTurn'
    BY DEF InTurn
  <2>1. CASE w = R!View /\ \A y \in Ask \ {x} : calls[y].phase = "idle"
    <3>1. \A y \in Ask : ~IsLoad(calls'[y])
      BY <1>1, <2>1 DEF IsLoad, IsDone
    <3>2. reply # 0 => Seen
      BY <1>5 DEF SeenOnce
    <3>3. w = R!Absent => ~Visible
      BY <2>1, ViewIs, AbsentApart
    <3>4. w \in R!Shown => w.comments = server.comments
      BY <2>1, ViewIs, AbsentApart
    <3>5. reply <= Len(server.comments)
      BY DEF NoLonger
    <3>6. reply' # 0 /\ article' = R!Absent => Gone'
      BY <1>3, <3>2, <3>3 DEF Seen
    <3>7. reply' # 0 => \/ article' = R!Absent
                        \/ article' \in R!Shown /\ reply' <= Len(article'.comments)
      BY <1>4, <3>4, <3>5
    <3> QED BY <3>1, <3>6, <3>7 DEF InTurn
  <2>2. CASE ~crossed /\ ahead[x] = {}
    <3>1. ASSUME NEW y \in Ask, IsLoad(calls'[y])
          PROVE  Sooner(w, calls'[y].out)
      <4>1. IsLoad(calls[y]) /\ calls'[y].out = calls[y].out /\ y # x
        BY <1>2, <3>1
      <4>2. x \in R!Done /\ y \in R!Done
        BY <4>1 DEF R!Done, IsLoad, IsDone
      <4>3. x \in ahead[y]
        BY <2>2, <4>1, <4>2 DEF CallsFine
      <4> QED BY <4>1, <4>3 DEF InOrder
    <3>2. reply # 0 => article # None
      BY <1>5
    <3>3. reply # 0 /\ w = R!Absent => Gone
      BY <3>2 DEF SeenOnce
    <3>4. w = R!Absent => \A y \in Ask : IsLoad(calls'[y]) => calls'[y].out = R!Absent
      BY <3>1, AbsentApart DEF Sooner
    <3>5. reply # 0 /\ w # R!Absent => reply <= Len(w.comments)
      <4> SUFFICES ASSUME reply # 0, w # R!Absent PROVE reply <= Len(w.comments)
        OBVIOUS
      <4>1. article # R!Absent
        BY <2>2 DEF InTurn
      <4>2. article \in R!Shown /\ reply <= Len(article.comments)
        BY <2>2, <4>1 DEF InTurn
      <4>3. Sooner(article, w)
        BY <2>2, <4>2 DEF InTurn
      <4>4. Len(article.comments) <= Len(w.comments)
        BY <4>3 DEF Sooner
      <4>5. article.comments \in Seq(R!Comment) /\ w.comments \in Seq(R!Comment)
        BY <1>4, <4>2 DEF R!Shown
      <4>6. Len(article.comments) \in Nat /\ Len(w.comments) \in Nat /\ reply \in Int
        BY <4>5, ReaderConstants DEF PageFine
      <4> QED BY <4>2, <4>4, <4>6
    <3> QED BY <1>3, <1>4, <3>1, <3>3, <3>4, <3>5 DEF InTurn
  <2> QED BY <2>1, <2>2
<1> QED BY <1>6, <1>7, <1>8, <1>9, <1>10

LEMMA StepLandLoad ==
  ASSUME ReaderInv, NEW x \in Ask, R!LandLoad(x)
  PROVE  ReaderInv'
<1> USE DEF ReaderInv, Base
<1> DEFINE c == R!NoCall
           w == calls[x].out
           alone == \A y \in Ask \ {x} : R!Free(y)
<1>1. /\ calls[x].phase = "done" /\ calls[x].op = "load" /\ calls' = R!After(x, c) /\ R!Land(x)
      /\ article' = w
      /\ UNCHANGED <<role, enabled, server, reply, sending, taps, others>>
  BY DEF R!LandLoad, R!form
<1>2. /\ R!Past(x)
      /\ crossed' = (~(alone /\ calls[x].fresh) /\ (crossed \/ ahead[x] # {}))
      /\ calm' = IF alone THEN calls[x].fresh ELSE calm /\ ahead[x] = {}
  BY <1>1 DEF R!Land
<1>3. calls[x].fresh \in BOOLEAN /\ crossed \in BOOLEAN /\ calm \in BOOLEAN
  <2>1. calls[x] \in Calls
    BY DEF CallsFine
  <2> QED BY <2>1 DEF Calls, PageFine
<1>4. CallFine(c) /\ c.phase = "idle" /\ calls[x].phase # "idle" /\ IsLoad(calls[x])
  BY <1>1, NoCallIs DEF IsLoad, IsDone
<1>5. alone => \A y \in Ask \ {x} : calls[y].phase = "idle"
  BY NoCallIs DEF R!Free
<1> HIDE DEF alone, c
<1>6. crossed' \in BOOLEAN /\ calm' \in BOOLEAN
  BY <1>2, <1>3
<1>7. (\A y \in Ask \ {x} : calls[y].phase = "idle") /\ calls[x].fresh => w = R!View
  <2> SUFFICES ASSUME \A y \in Ask \ {x} : calls[y].phase = "idle", calls[x].fresh PROVE w = R!View
    OBVIOUS
  <2>1. \A y \in Ask : x \notin ahead[y]
    BY DEF CallsFine, R!Done
  <2> QED BY <1>4, <2>1 DEF Fresh
<1>8. w \in Seeable /\ w # None
  <2>1. w \in Seeable
    BY <1>1 DEF CallsFine, CallFine
  <2> QED BY <2>1, ReaderConstants DEF Seeable
<1>9. /\ \A y \in Ask \ {x} : /\ calls'[y].op = calls[y].op /\ calls'[y].out = calls[y].out
                              /\ IsLoad(calls'[y]) <=> IsLoad(calls[y])
                              /\ IsHeart(calls'[y]) <=> IsHeart(calls[y])
                              /\ Coming(calls'[y]) <=> Coming(calls[y])
      /\ ~IsLoad(calls'[x]) /\ ~IsHeart(calls'[x])
      /\ \A y \in Ask : ahead'[y] = IF y = x THEN {} ELSE ahead[y] \ {x}
      /\ CallsFine' /\ Fresh'
  BY <1>1, <1>2, <1>4, Passed
<1>10. PageFine'
  BY <1>1, <1>6 DEF PageFine
<1>11. ServedFine'
  BY <1>1, <1>8 DEF ServedFine
<1>12. Quoted'
  <2>1. ~crossed' => \/ w = R!View /\ \A y \in Ask \ {x} : calls[y].phase = "idle"
                     \/ ~crossed /\ ahead[x] = {}
    BY <1>2, <1>5, <1>7
  <2> QED BY <1>1, <1>2, <1>4, <2>1, QuotedLoads DEF c
<1>13. R!View' = R!View
  BY <1>1, ViewKept
<1>14. Comes'
  <2> SUFFICES ASSUME calm' PROVE (\E y \in Ask : Coming(calls'[y])) \/ (TextComes' /\ HeartComes')
    BY DEF Comes
  <2>1. IsHeart(calls[x]) /\ ~Coming(calls[x])
    BY <1>1 DEF IsHeart, Coming, IsDone
  <2>2. CASE alone
    <3>1. w = R!View
      BY <1>2, <1>5, <1>7, <2>2
    <3>2. \A y \in Ask : ~IsLoad(calls'[y]) /\ ~IsHeart(calls'[y])
      BY <1>5, <1>9, <2>2 DEF IsLoad, IsHeart, IsDone
    <3>3. TextComes'
      BY <1>1, <1>8, <1>13, <3>1, <3>2 DEF TextComes, SameText
    <3>4. HeartComes'
      BY <1>1, <1>8, <1>13, <3>1, <3>2 DEF HeartComes
    <3> QED BY <3>3, <3>4
  <2>3. CASE ~alone
    <3>1. calm /\ ahead[x] = {}
      BY <1>2, <1>3, <2>3
    <3>2. CASE \E y \in Ask : Coming(calls[y])
      BY <1>9, <2>1, <3>2
    <3>3. CASE TextComes /\ HeartComes
      <4>1. \A y, z \in Ask : y # x /\ y \notin ahead'[z] => y \notin ahead[z]
        BY <1>9, <3>1
      <4>2. \A y \in Ask \ {x} : x \notin ahead'[y]
        BY <1>9
      <4>3. x \notin ahead[x]
        BY <3>1
      <4>4. TextComes'
        <5>1. ASSUME NEW y \in Ask, IsLoad(calls'[y]), \A z \in Ask : IsLoad(calls'[z]) => y \notin ahead'[z]
              PROVE  SameText(calls'[y].out, R!View')
          <6>1. y # x /\ IsLoad(calls[y]) /\ calls'[y].out = calls[y].out
            BY <1>9, <5>1
          <6>2. \A z \in Ask : IsLoad(calls[z]) => y \notin ahead[z]
            BY <1>9, <3>1, <4>1, <5>1, <6>1
          <6> QED BY <1>13, <3>3, <6>1, <6>2 DEF TextComes
        <5>2. ASSUME \A y \in Ask : ~IsLoad(calls'[y])
              PROVE  article' # None /\ SameText(article', R!View')
          <6>1. \A y \in Ask \ {x} : ~IsLoad(calls[y])
            BY <1>9, <5>2
          <6>2. SameText(w, R!View)
            BY <1>4, <3>3, <4>3, <6>1 DEF TextComes
          <6> QED BY <1>1, <1>8, <1>13, <6>2
        <5> QED BY <5>1, <5>2 DEF TextComes
      <4>5. HeartComes'
        <5>1. ASSUME NEW y \in Ask, IsHeart(calls'[y]), \A z \in Ask : IsHeart(calls'[z]) => y \notin ahead'[z]
              PROVE  IF calls'[y].op = "load" THEN calls'[y].out.liked = R!View'.liked
                     ELSE calls'[y].out = R!View'.liked
          <6>1. y # x /\ IsHeart(calls[y]) /\ calls'[y].op = calls[y].op /\ calls'[y].out = calls[y].out
            BY <1>9, <5>1
          <6>2. \A z \in Ask : IsHeart(calls[z]) => y \notin ahead[z]
            BY <1>9, <3>1, <4>1, <5>1, <6>1
          <6> QED BY <1>13, <3>3, <6>1, <6>2 DEF HeartComes
        <5>2. ASSUME \A y \in Ask : ~IsHeart(calls'[y])
              PROVE  article' # None /\ article'.liked = R!View'.liked
          <6>1. \A y \in Ask \ {x} : ~IsHeart(calls[y])
            BY <1>9, <5>2
          <6>2. w.liked = R!View.liked
            BY <1>1, <2>1, <3>3, <4>3, <6>1 DEF HeartComes
          <6> QED BY <1>1, <1>8, <1>13, <6>2
        <5> QED BY <5>1, <5>2 DEF HeartComes
      <4> QED BY <4>4, <4>5
    <3> QED BY <3>1, <3>2, <3>3 DEF Comes
  <2> QED BY <2>2, <2>3
<1> QED BY <1>9, <1>10, <1>11, <1>12, <1>14

(* What becomes of the article: it is not found again once it is gone, and *)
(* not withdrawn, and no comment is taken from it.                         *)
Grows(s, t) ==
  /\ t \in Servers
  /\ t.found => s.found
  /\ s.status = "published" => t.status = "published"
  /\ Len(s.comments) <= Len(t.comments)

LEMMA OneComment ==
  ASSUME NEW s \in Servers, NEW t \in Texts, NEW q \in Nat
  PROVE  Grows(s, [s EXCEPT !.comments = Append(@, [text |-> t, quote |-> q])])
<1> DEFINE k == [text |-> t, quote |-> q]
           cs == s.comments
           ds == Append(cs, k)
<1>1. k \in R!Comment
  BY DEF R!Comment
<1>2. cs \in Seq(R!Comment)
  BY DEF Servers
<1> HIDE DEF k
<1>3. ds \in Seq(R!Comment) /\ Len(cs) <= Len(ds)
  BY <1>1, <1>2
<1> HIDE DEF ds
<1> DEFINE u == [s EXCEPT !.comments = ds]
<1>4. u \in Servers /\ u.found = s.found /\ u.status = s.status /\ u.comments = ds
  BY <1>3 DEF Servers
<1>5. u = [s EXCEPT !.comments = Append(@, [text |-> t, quote |-> q])]
  BY DEF ds, k
<1> HIDE DEF u
<1>6. Grows(s, u)
  BY <1>3, <1>4 DEF Grows
<1> QED BY <1>5, <1>6

LEMMA OneStatus ==
  ASSUME NEW s \in Servers, NEW v \in Statuses, s.status # "published"
  PROVE  Grows(s, [s EXCEPT !.status = v])
<1> DEFINE u == [s EXCEPT !.status = v]
<1>1. u \in Servers /\ u.found = s.found /\ u.comments = s.comments /\ s.comments \in Seq(R!Comment)
  BY DEF Servers
<1>2. Len(s.comments) <= Len(u.comments)
  BY <1>1
<1> HIDE DEF u
<1>3. Grows(s, u)
  BY <1>1, <1>2 DEF Grows
<1> QED BY <1>3 DEF u

LEMMA OneAway ==
  ASSUME NEW s \in Servers
  PROVE  Grows(s, [s EXCEPT !.found = FALSE])
<1> DEFINE u == [s EXCEPT !.found = FALSE]
<1>1. /\ u \in Servers /\ u.found = FALSE /\ u.status = s.status
      /\ u.comments = s.comments /\ s.comments \in Seq(R!Comment)
  BY DEF Servers
<1>2. Len(s.comments) <= Len(u.comments)
  BY <1>1
<1> HIDE DEF u
<1>3. Grows(s, u)
  BY <1>1, <1>2 DEF Grows
<1> QED BY <1>3 DEF u

LEMMA OneHeart ==
  ASSUME NEW s \in Servers
  PROVE  /\ Grows(s, [s EXCEPT !.liked = ~@])
         /\ [s EXCEPT !.liked = ~@].status = s.status
         /\ [s EXCEPT !.liked = ~@].found = s.found
         /\ [s EXCEPT !.liked = ~@].comments = s.comments
<1> DEFINE b == ~s.liked
<1>1. b \in BOOLEAN
  OBVIOUS
<1> HIDE DEF b
<1> DEFINE u == [s EXCEPT !.liked = b]
<1>2. /\ u \in Servers /\ u.found = s.found /\ u.status = s.status
      /\ u.comments = s.comments /\ s.comments \in Seq(R!Comment)
  BY <1>1 DEF Servers
<1>3. u = [s EXCEPT !.liked = ~@]
  BY DEF b
<1>4. Len(s.comments) <= Len(u.comments)
  BY <1>2
<1> HIDE DEF u
<1>5. Grows(s, u)
  BY <1>2, <1>4 DEF Grows
<1> QED BY <1>2, <1>3, <1>5

LEMMA CarriedGrows ==
  ASSUME ServedFine, NEW r, CallFine(r), r.phase # "idle", r.op # "load" => R!Accepts(r)
  PROVE  /\ Grows(server, R!Carried(r))
         /\ r.op = "load" => R!Carried(r) = server
         /\ r.op = "like" => /\ server.found /\ server.status = "published"
                             /\ R!Carried(r).found = server.found
                             /\ R!Carried(r).status = server.status
                             /\ R!Carried(r).comments = server.comments
<1>1. server \in Servers /\ r \in Calls /\ r.op \in Ops
  BY DEF ServedFine, CallFine
<1>2. CASE r.op = "load"
  <2>1. R!Carried(r) = server
    BY <1>2 DEF R!Carried, R!Decisions
  <2>2. Grows(server, server)
    <3>1. server.comments \in Seq(R!Comment)
      BY <1>1 DEF Servers
    <3>2. Len(server.comments) <= Len(server.comments)
      BY <3>1
    <3> QED BY <1>1, <3>2 DEF Grows
  <2> QED BY <1>2, <2>1, <2>2
<1>3. CASE r.op = "like"
  <2>1. R!Carried(r) = [server EXCEPT !.liked = ~@]
    BY <1>3 DEF R!Carried, R!Decisions
  <2>2. server.found /\ server.status = "published"
    BY <1>3, AcceptsIs DEF R!Accepts
  <2> QED BY <1>1, <1>3, <2>1, <2>2, OneHeart
<1>4. CASE r.op = "comment"
  <2>1. R!Carried(r) = [server EXCEPT !.comments = Append(@, [text |-> r.text, quote |-> r.quote])]
    BY <1>4 DEF R!Carried, R!Decisions
  <2>2. r.text \in Texts /\ r.quote \in Nat
    BY <1>1, <1>4 DEF CallFine, Calls
  <2> QED BY <1>1, <1>4, <2>1, <2>2, OneComment
<1>5. CASE r.op = "remove"
  <2>1. R!Carried(r) = [server EXCEPT !.found = FALSE]
    BY <1>5 DEF R!Carried, R!Decisions
  <2> QED BY <1>1, <1>5, <2>1, OneAway
<1>6. CASE r.op \in R!Decisions
  <2>1. R!Carried(r) = [server EXCEPT !.status = R!Outcome(r.op)]
    BY <1>6 DEF R!Carried, R!Decisions
  <2>2. R!Outcome(r.op) \in Statuses
    BY <1>6 DEF R!Outcome, R!Decisions, Statuses, R!Unpublished
  <2>3. server.status # "published"
    BY <1>6 DEF R!Accepts, R!Decisions, R!Moderatable
  <2> QED BY <1>1, <1>6, <2>1, <2>2, <2>3, OneStatus DEF R!Decisions
<1> QED BY <1>1, <1>2, <1>3, <1>4, <1>5, <1>6 DEF Ops, R!Decisions

LEMMA OthersGrow ==
  ASSUME ServedFine, server.found, NEW t \in R!ByOthers
  PROVE  Grows(server, t)
<1>1. server \in Servers
  BY DEF ServedFine
<1>2. CASE t \in {[server EXCEPT !.comments = Append(@, [text |-> u, quote |-> 0])] :
                    u \in IF server.status = "published" THEN Texts ELSE {}}
  <2>1. PICK u \in Texts : t = [server EXCEPT !.comments = Append(@, [text |-> u, quote |-> 0])]
    BY <1>2
  <2> QED BY <1>1, <2>1, OneComment
<1>3. CASE t \in {[server EXCEPT !.status = s] :
             s \in CASE server.status \in {"draft", "rejected"} -> {"pending_review", "published"}
                     [] server.status = "pending_review" -> {"draft", "published", "needs_revision", "rejected"}
                     [] server.status = "needs_revision" -> {"pending_review", "published", "rejected"}
                     [] server.status = "published" -> {}}
  <2> DEFINE ss == CASE server.status \in {"draft", "rejected"} -> {"pending_review", "published"}
                     [] server.status = "pending_review" -> {"draft", "published", "needs_revision", "rejected"}
                     [] server.status = "needs_revision" -> {"pending_review", "published", "rejected"}
                     [] server.status = "published" -> {}
  <2>1. server.status \in Statuses
    BY <1>1 DEF Servers
  <2>2. ss \subseteq Statuses /\ (server.status = "published" => ss = {})
    BY <2>1 DEF Statuses, R!Unpublished
  <2>3. PICK s \in ss : t = [server EXCEPT !.status = s]
    BY <1>3
  <2> HIDE DEF ss
  <2> QED BY <1>1, <2>2, <2>3, OneStatus
<1>4. CASE t = [server EXCEPT !.found = FALSE]
  BY <1>1, <1>4, OneAway
<1> QED BY <1>2, <1>3, <1>4 DEF R!ByOthers

LEMMA SeenGrows ==
  ASSUME ServedFine, Grows(server, server'), role' = role
  PROVE  (Gone => Gone') /\ (Seen => Seen')
BY DEF Grows, Gone, Seen, Visible, R!Staff

LEMMA QuotedGrows ==
  ASSUME ReaderInv, Grows(server, server'), UNCHANGED <<role, article, reply, crossed>>,
         \A y \in Ask : /\ calls'[y].op = calls[y].op
                        /\ calls'[y].phase = "idle" <=> calls[y].phase = "idle"
                        /\ IsLoad(calls'[y]) => IsLoad(calls[y]) /\ calls'[y].out = calls[y].out,
         \A y, z \in Ask : IsLoad(calls'[y]) /\ IsLoad(calls'[z]) /\ y \in ahead'[z] => y \in ahead[z]
  PROVE  Quoted'
<1> USE DEF ReaderInv, Base, Quoted
<1>1. (Gone => Gone') /\ (Seen => Seen')
  BY SeenGrows
<1>2. Begins'
  BY DEF Begins
<1>3. SeenOnce'
  BY <1>1 DEF SeenOnce
<1>4. InOrder'
  BY DEF InOrder
<1>5. NoLonger'
  <2> DEFINE n == Len(server.comments)
             m == Len(server'.comments)
  <2>1. server.comments \in Seq(R!Comment) /\ server'.comments \in Seq(R!Comment)
    BY DEF ServedFine, Servers, Grows
  <2>2. n \in Nat /\ m \in Nat /\ n <= m
    BY <2>1 DEF Grows
  <2> HIDE DEF n, m
  <2>3. \A v \in R!Shown : Len(v.comments) \in Nat
    BY DEF R!Shown
  <2>4. \A k \in Int : k <= n => k <= m
    BY <2>2
  <2>5. reply' <= m
    <3>1. reply <= n /\ reply \in Int
      BY ReaderConstants DEF NoLonger, PageFine, n
    <3> QED BY <2>4, <3>1
  <2>6. article' \in R!Shown => Len(article'.comments) <= m
    BY <2>3, <2>4 DEF NoLonger, n
  <2>7. \A y \in Ask : IsLoad(calls'[y]) /\ calls'[y].out \in R!Shown => Len(calls'[y].out.comments) <= m
    BY <2>3, <2>4 DEF NoLonger, n
  <2> QED BY <2>5, <2>6, <2>7 DEF NoLonger, m
<1>6. InTurn'
  BY <1>1 DEF InTurn
<1> QED BY <1>2, <1>3, <1>4, <1>5, <1>6

(* A load is answered with what is there, after all that is under way.     *)
LEMMA QuotedServes ==
  ASSUME ReaderInv, NEW x \in Ask, calls[x].phase = "sent", NEW c, c.phase = "done", c.op = "load",
         calls[x].op = "load", c.out = R!View, calls' = [calls EXCEPT ![x] = c],
         ahead' = [ahead EXCEPT ![x] = R!Done], UNCHANGED <<role, server, article, reply, crossed>>
  PROVE  Quoted'
<1> USE DEF ReaderInv, Base, Quoted
<1> DEFINE v == R!View
<1>1. calls \in [Ask -> Calls] /\ ahead \in [Ask -> SUBSET Ask] /\ x \notin R!Done
  BY DEF CallsFine, R!Done
<1>2. calls'[x] = c /\ \A y \in Ask \ {x} : calls'[y] = calls[y] /\ ahead'[y] = ahead[y]
  BY <1>1
<1>3. ahead'[x] = R!Done
  BY <1>1
<1>4. \A y \in Ask : x \notin ahead[y]
  BY <1>1 DEF CallsFine
<1>5. (Seen' <=> Seen) /\ (Gone' <=> Gone)
  BY ViewKept
<1>6. /\ Visible => v \in R!Shown /\ v.comments = server.comments
      /\ ~Visible => v = R!Absent
      /\ v = R!Absent => ~Visible
  BY ViewIs, AbsentApart
<1>7. Gone => v = R!Absent
  BY <1>6 DEF Gone, Visible
<1>8. article = None => \A y \in Ask \ {x} : calls[y].phase = "idle"
  BY DEF Begins
<1> HIDE DEF v
<1>9. Begins'
  BY <1>2 DEF Begins
<1>10. SeenOnce'
  <2>1. \A y \in Ask : IsLoad(calls'[y]) /\ calls'[y].out \in R!Shown => Seen'
    <3>1. v \in R!Shown => Seen
      BY <1>6, AbsentApart DEF Seen
    <3> QED BY <1>2, <1>5, <3>1 DEF SeenOnce, v
  <2>2. article' # None => \A y \in Ask : calls'[y].phase # "idle" => Seen'
    BY <1>2, <1>5 DEF SeenOnce
  <2>3. article' # None => \A y \in Ask : IsLoad(calls'[y]) /\ calls'[y].out = R!Absent => Gone'
    <3>1. article # None => Seen
      BY DEF SeenOnce
    <3>2. article # None /\ v = R!Absent => Gone
      BY <1>6, <3>1 DEF Seen
    <3> QED BY <1>2, <1>5, <3>2 DEF SeenOnce, v
  <2> QED BY <1>5, <2>1, <2>2, <2>3 DEF SeenOnce
<1>11. ASSUME NEW w \in R!Shown, Len(w.comments) <= Len(server.comments), Seen
       PROVE  Sooner(w, v)
  BY <1>6, <1>7, <1>11 DEF Sooner, Seen
<1>12. InOrder'
  <2>1. ASSUME NEW y \in Ask, NEW z \in Ask, IsLoad(calls'[y]), IsLoad(calls'[z]), y \in ahead'[z]
        PROVE  Sooner(calls'[y].out, calls'[z].out)
    <3>1. CASE z # x
      <4>1. y \in ahead[z] /\ y # x
        BY <1>2, <1>4, <2>1, <3>1
      <4> QED BY <1>2, <2>1, <3>1, <4>1 DEF InOrder
    <3>2. CASE z = x
      <4>1. y \in R!Done /\ y # x
        BY <1>1, <1>3, <2>1, <3>2
      <4>2. IsLoad(calls[y]) /\ calls'[y] = calls[y] /\ article # None
        BY <1>2, <1>8, <2>1, <4>1 DEF IsLoad, IsDone
      <4>3. calls[y].out \in Seeable
        BY <4>2 DEF CallsFine, CallFine, IsLoad, IsDone
      <4>4. CASE calls[y].out \in R!Shown
        <5>1. Len(calls[y].out.comments) <= Len(server.comments) /\ Seen
          BY <4>2, <4>4 DEF NoLonger, SeenOnce
        <5> QED BY <1>2, <1>11, <3>2, <4>2, <4>4, <5>1 DEF v
      <4>5. CASE calls[y].out = R!Absent
        <5>1. v = R!Absent
          BY <1>7, <4>2, <4>5 DEF SeenOnce
        <5> QED BY <1>2, <3>2, <5>1 DEF Sooner, v
      <4> QED BY <4>3, <4>4, <4>5 DEF Seeable
    <3> QED BY <3>1, <3>2
  <2> QED BY <2>1 DEF InOrder
<1>13. NoLonger'
  <2>1. server.comments \in Seq(R!Comment)
    BY DEF ServedFine, Servers
  <2>2. v \in R!Shown => Len(v.comments) <= Len(server.comments)
    <3>1. v \in R!Shown => v.comments = server.comments
      BY <1>6, AbsentApart
    <3> QED BY <2>1, <3>1
  <2>3. \A y \in Ask : IsLoad(calls'[y]) /\ calls'[y].out \in R!Shown
          => Len(calls'[y].out.comments) <= Len(server.comments)
    BY <1>2, <2>2 DEF NoLonger, v
  <2> QED BY <2>3 DEF NoLonger
<1>14. InTurn'
  <2> SUFFICES ASSUME ~crossed PROVE InTurn'
    BY DEF InTurn
  <2>1. reply # 0 /\ article = R!Absent =>
          Gone /\ \A y \in Ask : IsLoad(calls'[y]) => calls'[y].out = R!Absent
    BY <1>2, <1>7 DEF InTurn, v
  <2>2. article \in R!Shown => \A y \in Ask : IsLoad(calls'[y]) => Sooner(article, calls'[y].out)
    <3>1. article \in R!Shown => Sooner(article, v)
      BY <1>11 DEF NoLonger, SeenOnce
    <3> QED BY <1>2, <3>1 DEF InTurn, v
  <2> QED BY <1>5, <2>1, <2>2 DEF InTurn
<1> QED BY <1>9, <1>10, <1>12, <1>13, <1>14

LEMMA StepServe ==
  ASSUME ReaderInv, NEW x \in Ask, R!Serve(x)
  PROVE  ReaderInv'
<1> USE DEF ReaderInv, Base
<1> DEFINE r == calls[x]
           o == IF r.op = "load" THEN R!View ELSE server'.liked
           c == [r EXCEPT !.phase = "done", !.out = o]
<1>1. /\ r.phase = "sent" /\ (r.op # "load" => R!Accepts(r)) /\ server' = R!Carried(r)
      /\ calls' = [calls EXCEPT ![x].phase = "done", ![x].out = o]
      /\ ahead' = [ahead EXCEPT ![x] = R!Done]
      /\ UNCHANGED <<role, enabled, article, reply, sending, crossed, calm, taps, others>>
  BY DEF R!Serve, R!form
<1>2. CallFine(r) /\ calls \in [Ask -> Calls]
  BY DEF CallsFine
<1>3. /\ Grows(server, server')
      /\ r.op = "load" => server' = server
      /\ r.op = "like" => /\ server.found /\ server.status = "published"
                          /\ server'.found = server.found /\ server'.status = server.status
                          /\ server'.comments = server.comments
  BY <1>1, <1>2, CarriedGrows
<1>4. server' \in Servers /\ server'.liked \in BOOLEAN
  BY <1>3 DEF Grows, Servers
<1>5. R!View \in Seeable
  BY ViewIs
<1>6. o \in BOOLEAN \cup Seeable
  BY <1>4, <1>5
<1>7. /\ r.op = "load" => o = R!View
      /\ r.op # "load" => o = server'.liked
  OBVIOUS
<1>8. calls' = [calls EXCEPT ![x] = c]
  BY <1>1, <1>2
<1> HIDE DEF r, o
<1>9. /\ c \in Calls /\ c.phase = "done" /\ c.op = r.op /\ c.out = o /\ c.text = r.text
  BY <1>2, <1>6 DEF Calls, CallFine
<1> HIDE DEF c
<1>10. r.op \in Ops /\ (r.op = "comment" => r.text \in Texts)
  BY <1>1, <1>2 DEF CallFine
<1>11. CallFine(c)
  BY <1>4, <1>5, <1>7, <1>9, <1>10 DEF CallFine
<1>12. calls'[x] = c /\ \A y \in Ask \ {x} : calls'[y] = calls[y]
  BY <1>2, <1>8
<1>13. x \notin R!Done
  BY <1>1 DEF R!Done, r
<1>14. /\ ahead \in [Ask -> SUBSET Ask] /\ R!Done \subseteq Ask
       /\ \A y \in Ask : ahead[y] \subseteq R!Done \ {y} /\ (y \notin R!Done => ahead[y] = {})
       /\ \A y, z \in R!Done : y = z \/ y \in ahead[z] \/ z \in ahead[y]
  BY DEF CallsFine, R!Done
<1>15. ahead'[x] = R!Done /\ \A y \in Ask \ {x} : ahead'[y] = ahead[y]
  BY <1>1, <1>14
<1>16. R!Done' = R!Done \cup {x}
  BY <1>9, <1>12 DEF R!Done
<1>17. CallsFine'
  <2>1. calls' \in [Ask -> Calls] /\ \A y \in Ask : CallFine(calls'[y])
    <3>1. \A y \in Ask : CallFine(calls'[y])
      BY <1>11, <1>12 DEF CallsFine
    <3> QED BY <1>2, <1>8, <1>9, <3>1
  <2>2. ahead' \in [Ask -> SUBSET Ask]
    BY <1>1, <1>14
  <2> DEFINE d == R!Done
             e == R!Done'
  <2>3. e = d \cup {x} /\ x \notin d
    BY <1>13, <1>16
  <2>4. /\ \A y \in Ask : ahead[y] \subseteq d \ {y} /\ (y \notin d => ahead[y] = {})
        /\ \A y, z \in d : y = z \/ y \in ahead[z] \/ z \in ahead[y]
        /\ ahead'[x] = d /\ d \subseteq Ask
    BY <1>14, <1>15
  <2> HIDE DEF d, e
  <2>5. ASSUME NEW y \in Ask
        PROVE  ahead'[y] \subseteq e \ {y} /\ (y \notin e => ahead'[y] = {})
    BY <1>15, <2>3, <2>4
  <2>6. ASSUME NEW y \in e, NEW z \in e
        PROVE  y = z \/ y \in ahead'[z] \/ z \in ahead'[y]
    <3>1. CASE y = x \/ z = x
      BY <2>3, <2>4, <3>1
    <3>2. CASE y # x /\ z # x
      <4>1. y \in d /\ z \in d /\ ahead'[y] = ahead[y] /\ ahead'[z] = ahead[z]
        BY <1>15, <2>3, <2>4, <3>2
      <4> QED BY <2>4, <4>1
    <3> QED BY <3>1, <3>2
  <2>7. /\ \A y \in Ask : ahead'[y] \subseteq R!Done' \ {y} /\ (y \notin R!Done' => ahead'[y] = {})
        /\ \A y, z \in R!Done' : y = z \/ y \in ahead'[z] \/ z \in ahead'[y]
    BY <2>5, <2>6 DEF e
  <2> QED BY <2>1, <2>2, <2>7 DEF CallsFine
<1>18. PageFine'
  BY <1>1 DEF PageFine
<1>19. ServedFine'
  BY <1>1, <1>4 DEF ServedFine
<1>20. r.op = "load" => R!View' = R!View
  BY <1>1, <1>3, ViewKept
<1>21. \A y \in Ask \ {x} : IsDone(calls'[y]) => y \in ahead'[x]
  BY <1>12, <1>15 DEF IsDone, R!Done
<1>22. Fresh'
  <2>1. ASSUME NEW y \in Ask, IsLoad(calls'[y]), \A z \in Ask : y \notin ahead'[z]
        PROVE  calls'[y].out = R!View'
    <3>1. y = x
      BY <1>21, <2>1 DEF IsLoad
    <3> QED BY <1>7, <1>9, <1>12, <1>20, <2>1, <3>1 DEF IsLoad
  <2> QED BY <2>1 DEF Fresh
<1>23. Quoted'
  <2>1. CASE r.op = "load"
    <3>1. c.op = "load" /\ calls[x].op = "load" /\ c.out = R!View /\ calls[x].phase = "sent"
      BY <1>1, <1>7, <1>9, <2>1 DEF r
    <3> QED BY <1>1, <1>3, <1>8, <1>9, <2>1, <3>1, QuotedServes
  <2>2. CASE r.op # "load"
    <3>1. ~IsLoad(c)
      BY <1>9, <2>2 DEF IsLoad
    <3>2. calls[x].op = c.op /\ calls[x].phase # "idle" /\ c.phase # "idle"
      BY <1>1, <1>9 DEF r
    <3>3. \A y \in Ask : /\ calls'[y].op = calls[y].op
                         /\ calls'[y].phase = "idle" <=> calls[y].phase = "idle"
                         /\ IsLoad(calls'[y]) => IsLoad(calls[y]) /\ calls'[y].out = calls[y].out
      BY <1>12, <3>1, <3>2
    <3>4. \A y, z \in Ask : IsLoad(calls'[y]) /\ IsLoad(calls'[z]) /\ y \in ahead'[z] => y \in ahead[z]
      BY <1>12, <1>15, <3>1
    <3> QED BY <1>1, <1>3, <3>3, <3>4, QuotedGrows
  <2> QED BY <2>1, <2>2
<1>24. Comes'
  <2> SUFFICES ASSUME calm PROVE (\E y \in Ask : Coming(calls'[y])) \/ (TextComes' /\ HeartComes')
    BY <1>1 DEF Comes
  <2>1. CASE r.op = "load"
    <3>1. CASE \E y \in Ask \ {x} : Coming(calls[y])
      BY <1>12, <3>1
    <3>2. IsLoad(calls'[x]) /\ IsHeart(calls'[x]) /\ calls'[x].out = R!View' /\ calls'[x].op = "load"
      BY <1>7, <1>9, <1>12, <1>20, <2>1 DEF IsLoad, IsHeart, IsDone
    <3>3. TextComes'
      BY <1>21, <3>2 DEF TextComes, IsLoad, SameText
    <3>4. HeartComes'
      BY <1>21, <3>2 DEF HeartComes, IsHeart
    <3> QED BY <3>3, <3>4
  <2>2. CASE r.op = "like"
    <3>1. ~Coming(calls[x]) /\ ~IsLoad(calls[x])
      BY <1>1, <2>2 DEF Coming, IsLoad, IsDone, r
    <3>2. CASE \E y \in Ask : Coming(calls[y])
      BY <1>12, <3>1, <3>2
    <3>3. CASE TextComes /\ HeartComes
      <4>1. Visible /\ Visible'
        BY <1>1, <1>3, <2>2 DEF Visible, R!Staff
      <4>2. SameText(R!View', R!View) /\ R!View'.liked = server'.liked
        <5>1. R!View.status = server.status /\ R!View.comments = server.comments
          BY <4>1, ViewIs
        <5>2. R!View' = [status |-> server'.status, liked |-> server'.liked, comments |-> server'.comments]
          BY <4>1 DEF Visible, R!View
        <5> QED BY <1>3, <2>2, <5>1, <5>2 DEF SameText
      <4>3. ~IsLoad(calls'[x]) /\ IsHeart(calls'[x]) /\ calls'[x].op = "like" /\ calls'[x].out = server'.liked
        BY <1>7, <1>9, <1>12, <2>2 DEF IsLoad, IsHeart, IsDone
      <4>4. TextComes'
        <5>1. \A y \in Ask : /\ IsLoad(calls'[y]) <=> IsLoad(calls[y])
                             /\ IsLoad(calls[y]) => y # x /\ calls'[y].out = calls[y].out /\ ahead'[y] = ahead[y]
          BY <1>12, <1>15, <3>1, <4>3
        <5>2. \A v : SameText(v, R!View) => SameText(v, R!View')
          BY <4>2 DEF SameText
        <5>3. ASSUME NEW y \in Ask, IsLoad(calls'[y]), \A z \in Ask : IsLoad(calls'[z]) => y \notin ahead'[z]
              PROVE  SameText(calls'[y].out, R!View')
          <6>1. \A z \in Ask : IsLoad(calls[z]) => y \notin ahead[z]
            BY <5>1, <5>3
          <6> QED BY <3>3, <5>1, <5>2, <5>3, <6>1 DEF TextComes
        <5>4. ASSUME \A y \in Ask : ~IsLoad(calls'[y])
              PROVE  article' # None /\ SameText(article', R!View')
          BY <1>1, <3>3, <5>1, <5>2, <5>4 DEF TextComes
        <5> QED BY <5>3, <5>4 DEF TextComes
      <4>5. HeartComes'
        BY <1>21, <4>2, <4>3 DEF HeartComes, IsHeart
      <4> QED BY <4>4, <4>5
    <3> QED BY <3>2, <3>3 DEF Comes
  <2>3. CASE r.op \notin {"load", "like"}
    BY <1>9, <1>12, <2>3 DEF Coming, IsDone
  <2> QED BY <2>1, <2>2, <2>3
<1> QED BY <1>17, <1>18, <1>19, <1>22, <1>23, <1>24

LEMMA StepByOthers ==
  ASSUME ReaderInv, R!Elsewhere
  PROVE  ReaderInv'
<1> USE DEF ReaderInv, Base
<1>1. /\ server.found /\ others < Others /\ others' = others + 1 /\ server' \in R!ByOthers
      /\ calls' = [x \in Ask |-> IF calls[x].phase = "done" THEN [calls[x] EXCEPT !.fresh = FALSE]
                                 ELSE calls[x]]
      /\ calm' = FALSE
      /\ UNCHANGED <<role, enabled, article, reply, sending, ahead, crossed, taps>>
  BY DEF R!Elsewhere, R!form
<1>2. Grows(server, server')
  BY <1>1, OthersGrow
<1>3. ASSUME NEW y \in Ask
      PROVE  /\ CallFine(calls'[y]) /\ calls'[y].op = calls[y].op
             /\ calls'[y].phase = calls[y].phase /\ calls'[y].out = calls[y].out
             /\ IsLoad(calls'[y]) <=> IsLoad(calls[y])
             /\ IsDone(calls'[y]) => calls'[y].fresh = FALSE
  <2> DEFINE r == calls[y]
             s == [r EXCEPT !.fresh = FALSE]
  <2>1. CallFine(r) /\ calls'[y] = IF r.phase = "done" THEN s ELSE r
    BY <1>1 DEF CallsFine
  <2>2. calls[y] = r
    OBVIOUS
  <2> HIDE DEF r
  <2>3. r \in Calls
    BY <2>1 DEF CallFine
  <2>4. s.op = r.op /\ s.phase = r.phase /\ s.out = r.out /\ s.fresh = FALSE /\ s.text = r.text /\ s \in Calls
    BY <2>3 DEF Calls
  <2> HIDE DEF s
  <2>5. r.phase = "done" => CallFine(s)
    BY <2>1, <2>4 DEF CallFine
  <2> QED BY <2>1, <2>2, <2>4, <2>5 DEF IsLoad, IsDone
<1>4. R!Done' = R!Done
  BY <1>3 DEF R!Done
<1>5. CallsFine'
  <2>1. \A y \in Ask : CallFine(calls'[y])
    BY <1>3
  <2>2. calls' \in [Ask -> Calls]
    BY <1>1, <2>1 DEF CallFine
  <2> QED BY <1>1, <1>4, <2>1, <2>2 DEF CallsFine
<1>6. PageFine'
  <2>1. others \in 0 .. Others /\ Others \in Nat
    BY ReaderConstants DEF PageFine
  <2>2. others' \in 0 .. Others
    BY <1>1, <2>1
  <2>3. calm' \in BOOLEAN
    BY <1>1
  <2> QED BY <1>1, <2>2, <2>3 DEF PageFine
<1>7. ServedFine'
  BY <1>1, <1>2 DEF ServedFine, Grows
<1>8. Fresh'
  BY <1>3 DEF Fresh, IsLoad
<1>9. Comes'
  BY <1>1 DEF Comes
<1>10. Quoted'
  BY <1>1, <1>2, <1>3, QuotedGrows
<1> QED BY <1>5, <1>6, <1>7, <1>8, <1>9, <1>10

LEMMA ReaderStep ==
  ASSUME ReaderInv, R!Next
  PROVE  ReaderInv'
<1>1. ASSUME NEW x \in Ask, NEW text \in Texts, R!Submit(x, text) PROVE ReaderInv'
  BY <1>1, StepComment
<1>2. ASSUME NEW x \in Ask, NEW op \in R!Decisions \cup {"remove"}, NEW note \in BOOLEAN,
             R!Act(x, op, note)
      PROVE  ReaderInv'
  BY <1>2, StepAct
<1>3. ASSUME NEW x \in Ask, \/ R!Like(x) \/ R!Serve(x) \/ R!LandLoad(x)
                            \/ R!LandLike(x) \/ R!LandAct(x) \/ R!Fail(x)
      PROVE  ReaderInv'
  BY <1>3, StepLike, StepServe, StepLandLoad, StepLandLike, StepLandAct, StepFail
<1>4. ASSUME NEW i \in 1 .. Taps + Others + 1, R!Reply(i) PROVE ReaderInv'
  BY <1>4, StepReply
<1>5. R!Toggle \/ R!Elsewhere => ReaderInv'
  BY StepToggle, StepByOthers
<1> QED BY <1>1, <1>2, <1>3, <1>4, <1>5 DEF R!Next

LEMMA ReaderStill ==
  ASSUME ReaderInv, UNCHANGED reading
  PROVE  ReaderInv'
<1>1. UNCHANGED <<role, enabled, server, article, reply, sending, calls, ahead, crossed, calm, taps, others>>
  BY DEF reading
<1>2. R!View' = R!View /\ (Seen' <=> Seen) /\ (Gone' <=> Gone)
  BY <1>1, ViewKept
<1>3. Base'
  BY <1>1 DEF ReaderInv, Base, PageFine, ServedFine, CallsFine, R!Done
<1>4. Fresh' /\ Comes'
  BY <1>1, <1>2 DEF ReaderInv, Fresh, Comes, TextComes, HeartComes
<1>5. Quoted'
  BY <1>1, <1>2 DEF ReaderInv, Quoted, Begins, SeenOnce, InOrder, NoLonger, InTurn
<1> QED BY <1>3, <1>4, <1>5 DEF ReaderInv

(* The page of an article is right whatever the number of requests under   *)
(* way and the order their answers come in: with nothing under way it      *)
(* shows what it would be told, unless others changed the article, a load  *)
(* or an answer was lost, or an answer overtook another; the comment that  *)
(* is quoted is one of those shown; and a page that is up to date offers   *)
(* nothing that is refused.                                                *)
THEOREM ArticleIsTrue == SceneSpec => []ArticleTrue
<1> DEFINE Inv == scene = "article" => ReaderInv
<1>1. SceneInit => Inv
  BY ReaderInit DEF SceneInit
<1>2. Inv /\ [SceneNext]_<<scene, inquiry, reading, vars>> => Inv'
  <2> SUFFICES ASSUME Inv, [SceneNext]_<<scene, inquiry, reading, vars>>, scene' = "article"
               PROVE  ReaderInv'
    OBVIOUS
  <2>1. scene = "article"
    BY DEF SceneNext
  <2>2. ReaderInv
    BY <2>1
  <2>3. R!Next \/ UNCHANGED reading
    BY <2>1 DEF SceneNext
  <2> HIDE DEF Inv
  <2> QED BY <2>2, <2>3, ReaderStep, ReaderStill
<1>3. Inv => ArticleTrue
  BY ReaderMeans DEF ArticleTrue
<1> QED BY <1>1, <1>2, <1>3, PTL DEF SceneSpec
=============================================================================
