-------------------------- MODULE StorefrontProofs --------------------------
(***************************************************************************)
(* The pages a visitor looks for a stone on, for any users, products, rows *)
(* and bounds.                                                             *)
(***************************************************************************)
EXTENDS MCStorefront, FiniteSetTheorems, SequenceTheorems, WellFoundedInduction, TLAPS


(* The state keeps its type, for any users, notifications and bound.       *)
THEOREM TypeCorrect ==
  ASSUME BellAssumption
  PROVE  Spec => []TypeOK
<1>1. Init => TypeOK
  <2> SUFFICES ASSUME Init PROVE TypeOK
    OBVIOUS
  <2>1. asks \subseteq Asks
    <3>1. [kind |-> "list", note |-> None, at |-> 0, live |-> TRUE, answer |-> "none",
           list |-> {}] \in Asks
      BY DEF Asks, BellAssumption
    <3> QED BY <3>1 DEF Init
  <2>2. loaded \in BOOLEAN
    BY Zenon DEF Init
  <2>3. {loaded, error, failed, overtaken} \subseteq BOOLEAN
    BY <2>2 DEF Init
  <2>4. {user, cookie, coming} \subseteq User \cup {None}
    BY DEF Init
  <2>5. written \subseteq Note /\ read \subseteq written
    BY DEF Init
  <2>6. notifications \subseteq Item /\ presses \in 0 .. Presses
    BY DEF Init, BellAssumption
  <2> QED BY <2>1, <2>3, <2>4, <2>5, <2>6 DEF TypeOK
<1>2. TypeOK /\ [Next]_vars => TypeOK'
  <2> SUFFICES ASSUME TypeOK, [Next]_vars PROVE TypeOK'
    OBVIOUS
  <2> USE DEF TypeOK
  <2>1. presses \in Nat /\ Presses \in Nat
    BY DEF BellAssumption
  <2>2. ASSUME NEW u \in User \cup {None}, Shown(u), presses' \in presses .. Presses,
               {cookie', coming'} \subseteq User \cup {None}
        PROVE  TypeOK'
    <3>1. Live(asks) \subseteq Asks
      BY DEF Live, Asks
    <3>2. [kind |-> "list", note |-> None, at |-> presses, live |-> TRUE, answer |-> "none",
           list |-> {}] \in Asks
      BY DEF Asks
    <3>3. asks' \subseteq Asks
      BY <2>2, <3>1, <3>2 DEF Shown, Ask
    <3>4. notifications' \subseteq Item /\ {loaded', error', failed', overtaken'} \subseteq BOOLEAN
      BY <2>2 DEF Shown
    <3>5. written' \subseteq Note /\ read' \subseteq written' /\ user' \in User \cup {None}
      BY <2>2 DEF Shown
    <3> QED BY <2>1, <2>2, <3>3, <3>4, <3>5
  <2>3. ASSUME NEW u \in User, Login(u) PROVE TypeOK'
    BY <2>1, <2>3 DEF Login, Press, bell
  <2>4. CASE LoggedIn
    BY <2>1, <2>2, <2>4 DEF LoggedIn, bell
  <2>5. CASE Refresh
    BY <2>1, <2>2, <2>5 DEF Refresh, Press
  <2>6. CASE Logout
    BY <2>1, <2>2, <2>6 DEF Logout, Press
  <2>7. CASE LoggedOut
    BY <2>7 DEF LoggedOut, bell
  <2>8. ASSUME NEW k \in {"one", "all"}, NEW n \in Note \cup {None}, Mark(k, n) PROVE TypeOK'
    <3>1. [kind |-> k, note |-> n, at |-> presses, live |-> TRUE, answer |-> "none",
           list |-> {}] \in Asks
      BY DEF Asks
    <3>2. asks' \subseteq Asks
      BY <2>8, <3>1 DEF Mark, Ask
    <3>3. {loaded', error', failed', overtaken'} \subseteq BOOLEAN
      BY <2>8 DEF Mark
    <3>4. presses' \in 0 .. Presses
      BY <2>1, <2>8 DEF Mark, Press
    <3> QED BY <2>8, <3>2, <3>3, <3>4 DEF Mark
  <2>9. ASSUME NEW r \in asks, Served(r) PROVE TypeOK'
    <3>1. r \in Asks
      OBVIOUS
    <3>2. ASSUME NEW a \in {"ok", "error"}, NEW list \in SUBSET Item, Put(r, a, list)
          PROVE  asks' \subseteq Asks
      BY <3>1, <3>2 DEF Put, Asks
    <3>3. {Shows(n) : n \in Of(cookie)} \in SUBSET Item
      <4>1. ASSUME NEW n \in Note PROVE Shows(n) \in Item
        <5>1. CASE n \in read
          BY <5>1 DEF Shows, Item
        <5>2. CASE n \notin read
          BY <5>2 DEF Shows, Item
        <5> QED BY <5>1, <5>2
      <4> QED BY <4>1 DEF Of
    <3>4. asks' \subseteq Asks
      BY <2>9, <3>2, <3>3 DEF Served
    <3>5. Allowed(r) => Marked(r) \subseteq written
      BY <3>1 DEF Allowed, Marked, Of, Asks
    <3>6. read' \subseteq written'
      BY <2>9, <3>5 DEF Served
    <3> QED BY <2>9, <3>4, <3>6 DEF Served
  <2>10. ASSUME NEW n \in Note, Write(n) PROVE TypeOK'
    BY <2>10 DEF Write
  <2>11. ASSUME NEW r \in asks, Answered(r) PROVE TypeOK'
    <3>1. Taken(r) \subseteq Item /\ Arrived(r) \in BOOLEAN
      BY DEF Taken, Arrived, Asks, Item
    <3> QED BY <2>11, <3>1 DEF Answered
  <2>12. CASE UNCHANGED vars
    BY <2>12 DEF vars, bell
  <2> QED BY <2>3, <2>4, <2>5, <2>6, <2>7, <2>8, <2>9, <2>10, <2>11, <2>12
          DEF Next, MarkAll, MarkOne
<1> QED BY <1>1, <1>2, PTL DEF Spec
-----------------------------------------------------------------------------
(* The page shows nobody but whom the browser's session belongs to, and a  *)
(* login on its way is that session's.                                     *)
CookieKnown ==
  /\ user # None => cookie = user /\ coming = None
  /\ coming # None => cookie = coming

(* A list is of what was written to u; it marks only what is read.         *)
Own(list, u) == \A i \in list : i.note \in written /\ Owner[i.note] = u
MarksRead(list) == \A i \in list : i.marked => i.note \in read

(* The answers on their way: only the list asked for this user is listened *)
(* to, and it is his; marks are listened to for ever, and what they marked *)
(* is read.                                                                *)
ListAnswer(r) ==
  r.kind = "list" /\ r.live =>
    user # None /\ (r.answer = "ok" => Own(r.list, user) /\ MarksRead(r.list))
MarkAnswer(r) == r.kind = "one" /\ r.answer = "ok" => r.note \in read
Answers == \A r \in asks : ListAnswer(r) /\ MarkAnswer(r)

(* There is a list of the user's before the page.                          *)
Here == user # None /\ loaded /\ ~failed

NobodysEmpty == user = None => notifications = {}
HisOwn == Here => Own(notifications, user)

(* Unless a list came while it was under way, a mark of all that was done  *)
(* was about all that is shown.                                            *)
AllAnswer(r) ==
  r.kind = "all" /\ r.answer = "ok" => \A i \in notifications : i.note \in read
TrueMarks ==
  Here /\ ~overtaken => MarksRead(notifications) /\ \A r \in asks : AllAnswer(r)

BellInv == CookieKnown /\ Answers /\ NobodysEmpty /\ HisOwn /\ TrueMarks

(* The first list is on its way, and nothing is shown.                     *)
LEMMA InitInv == Init => BellInv
BY DEF Init, BellInv, CookieKnown, Answers, ListAnswer, MarkAnswer, AllAnswer, NobodysEmpty,
       HisOwn, TrueMarks, Here, Own, MarksRead

(* A new user, or the same again: the bell forgets the earlier questions.  *)
LEMMA ShownInv ==
  ASSUME TypeOK, BellInv, NEW u, Shown(u), CookieKnown'
  PROVE  BellInv'
<1> USE DEF BellInv, Answers, ListAnswer, MarkAnswer, NobodysEmpty, HisOwn, TrueMarks, Here
<1>1. ~Here'
  BY DEF Shown
<1>2. \A r \in Live(asks) :
        /\ r.kind = "list" => ~r.live
        /\ r.kind = "one" /\ r.answer = "ok" => r.note \in read
  BY DEF Live, TypeOK, Asks
<1>3. CASE u = None
  BY <1>1, <1>2, <1>3 DEF Shown
<1>4. CASE u # None
  BY <1>1, <1>2, <1>4 DEF Shown, Ask
<1> QED BY <1>3, <1>4

(* A mark is asked for: it is answered later.                              *)
LEMMA MarkInv ==
  ASSUME TypeOK, BellInv, NEW k \in {"one", "all"}, NEW n, Mark(k, n)
  PROVE  BellInv'
<1> USE DEF BellInv
<1>1. UNCHANGED <<user, cookie, coming, written, read, notifications, loaded, failed, overtaken>>
  BY DEF Mark
<1>2. \A r \in asks' : r \in asks \/ (r.kind = k /\ r.answer = "none")
  BY DEF Mark, Ask
<1>3. Answers'
  BY <1>1, <1>2 DEF Answers, ListAnswer, MarkAnswer, Own, MarksRead
<1>4. HisOwn' /\ NobodysEmpty' /\ CookieKnown'
  BY <1>1 DEF HisOwn, NobodysEmpty, CookieKnown, Here, Own
<1>5. TrueMarks'
  BY <1>1, <1>2 DEF TrueMarks, Here, MarksRead, AllAnswer
<1> QED BY <1>3, <1>4, <1>5

(* The service marks and lists for the user of the session, which is the   *)
(* user of the page while there is one.                                    *)
LEMMA ServedInv ==
  ASSUME TypeOK, BellInv, NEW r \in asks, Served(r)
  PROVE  BellInv'
<1> USE DEF BellInv
<1>1. /\ UNCHANGED <<user, cookie, coming, written, notifications, loaded, failed, overtaken>>
      /\ read \subseteq read'
  BY DEF Served
<1>2. r \in Asks
  BY DEF TypeOK
<1>3. \A q \in asks' : q \in asks \/ q = [r EXCEPT !.answer = "error", !.list = {}]
        \/ (/\ Allowed(r) /\ read' = read \cup Marked(r)
            /\ q = [r EXCEPT !.answer = "ok",
                            !.list = IF r.kind = "list" THEN {Shows(n) : n \in Of(cookie)} ELSE {}])
  BY DEF Served, Put
<1>4. ASSUME NEW q \in asks' PROVE ListAnswer(q)'
  <2>1. CASE q \in asks
    BY <1>1, <2>1 DEF Answers, ListAnswer, Own, MarksRead
  <2>2. CASE q = [r EXCEPT !.answer = "error", !.list = {}]
    BY <1>1, <1>2, <2>2 DEF Answers, ListAnswer, Asks
  <2>3. CASE /\ read' = read \cup Marked(r)
             /\ q = [r EXCEPT !.answer = "ok",
                            !.list = IF r.kind = "list" THEN {Shows(n) : n \in Of(cookie)} ELSE {}]
    <3> SUFFICES ASSUME r.kind = "list", r.live
                 PROVE  user # None /\ Own(q.list, user) /\ MarksRead(q.list)'
      BY <1>1, <1>2, <2>3 DEF ListAnswer, Asks, Own
    <3>1. user # None /\ cookie = user
      BY DEF Answers, ListAnswer, CookieKnown
    <3>2. q.list = {Shows(n) : n \in Of(user)}
      BY <1>2, <2>3, <3>1 DEF Asks
    <3>3. ASSUME NEW i \in q.list
          PROVE  i.note \in written /\ Owner[i.note] = user /\ (i.marked => i.note \in read)
      <4>1. PICK n \in Of(user) : i = Shows(n)
        BY <3>2
      <4> QED BY <4>1 DEF Shows, Of
    <3> QED BY <1>1, <3>1, <3>3 DEF Own, MarksRead
  <2> QED BY <1>3, <2>1, <2>2, <2>3
<1>5. ASSUME NEW q \in asks' PROVE MarkAnswer(q)'
  BY <1>1, <1>2, <1>3 DEF Answers, MarkAnswer, Marked, Asks
<1>6. ASSUME Here, ~overtaken, NEW q \in asks' PROVE AllAnswer(q)'
  <2>1. CASE q \in asks
    BY <1>1, <1>6, <2>1 DEF TrueMarks, AllAnswer
  <2>2. CASE q = [r EXCEPT !.answer = "error", !.list = {}]
    BY <1>2, <2>2 DEF AllAnswer, Asks
  <2>3. CASE /\ read' = read \cup Marked(r)
             /\ q = [r EXCEPT !.answer = "ok",
                            !.list = IF r.kind = "list" THEN {Shows(n) : n \in Of(cookie)} ELSE {}]
    <3> SUFFICES ASSUME r.kind = "all", NEW i \in notifications PROVE i.note \in read'
      BY <1>1, <1>2, <2>3 DEF AllAnswer, Asks
    <3>1. i.note \in Of(cookie)
      BY <1>6 DEF HisOwn, Here, Own, Of, CookieKnown
    <3> QED BY <2>3, <3>1 DEF Marked
  <2> QED BY <1>3, <2>1, <2>2, <2>3
<1>7. TrueMarks'
  BY <1>1, <1>6 DEF TrueMarks, Here, MarksRead
<1>8. HisOwn' /\ NobodysEmpty' /\ CookieKnown'
  BY <1>1 DEF HisOwn, NobodysEmpty, CookieKnown, Here, Own
<1> QED BY <1>4, <1>5, <1>7, <1>8 DEF Answers

(* An answer is shown: a list as it is, a mark on what is shown by then.   *)
LEMMA AnsweredInv ==
  ASSUME TypeOK, BellInv, NEW r \in asks, Answered(r)
  PROVE  BellInv'
<1> USE DEF BellInv
<1>1. UNCHANGED <<user, cookie, coming, written, read>> /\ asks' = asks \ {r} /\ r \in Asks
  BY DEF Answered, TypeOK
<1>2. CookieKnown' /\ Answers'
  BY <1>1 DEF CookieKnown, Answers, ListAnswer, MarkAnswer, Own, MarksRead
<1>3. CASE ~r.live
  BY <1>1, <1>2, <1>3
     DEF Answered, NobodysEmpty, HisOwn, TrueMarks, Here, Own, MarksRead, AllAnswer
<1>4. CASE r.live /\ r.answer = "error"
  BY <1>1, <1>2, <1>4
     DEF Answered, Taken, Arrived, NobodysEmpty, HisOwn, TrueMarks, Here, Own, MarksRead, AllAnswer,
         Asks
<1>5. CASE r.live /\ r.answer = "ok" /\ r.kind = "list"
  <2>1. notifications' = r.list /\ user # None /\ Own(r.list, user) /\ MarksRead(r.list)
    BY <1>4, <1>5 DEF Answered, Taken, Answers, ListAnswer
  <2>2. overtaken' = FALSE => \A q \in asks : q.kind # "all"
    BY <1>5 DEF Answered
  <2> QED BY <1>1, <1>2, <2>1, <2>2
     DEF NobodysEmpty, HisOwn, TrueMarks, Here, Own, MarksRead, AllAnswer
<1>6. CASE r.live /\ r.answer = "ok" /\ r.kind # "list"
  <2>1. UNCHANGED <<loaded, failed, overtaken>>
    BY <1>1, <1>6 DEF Answered, Arrived, TypeOK
  <2>2. \A j \in notifications' : \E i \in notifications :
          /\ j.note = i.note
          /\ j.marked => i.marked \/ r.kind = "all" \/ i.note = r.note
    BY <1>6 DEF Answered, Taken, TypeOK, Item
  <2>3. notifications = {} => notifications' = {}
    BY <2>2
  <2>4. r.kind # "all" => r.note \in read
    BY <1>1, <1>6 DEF Answers, MarkAnswer, Asks
  <2>5. Here' /\ ~overtaken' => MarksRead(notifications)'
    BY <1>1, <1>6, <2>1, <2>2, <2>4 DEF TrueMarks, Here, MarksRead, AllAnswer
  <2>6. TrueMarks' /\ HisOwn'
    BY <1>1, <2>1, <2>2, <2>5 DEF TrueMarks, HisOwn, Here, AllAnswer, Own
  <2> QED BY <1>1, <1>2, <2>3, <2>6 DEF NobodysEmpty
<1> QED BY <1>1, <1>3, <1>4, <1>5, <1>6 DEF Answered, Asks

(* Every step keeps the invariant.                                         *)
LEMMA StepInv == TypeOK /\ BellInv /\ [Next]_vars => BellInv'
<1> SUFFICES ASSUME TypeOK, BellInv, [Next]_vars PROVE BellInv'
  OBVIOUS
<1> DEFINE Parts == <<written, read, notifications, loaded, failed, overtaken, asks>>
<1>1. ASSUME UNCHANGED <<user, Parts>>, CookieKnown' PROVE BellInv'
  BY <1>1 DEF BellInv, Answers, ListAnswer, MarkAnswer, AllAnswer, NobodysEmpty, HisOwn, TrueMarks,
              Here, Own, MarksRead
<1>2. ASSUME NEW u \in User, Login(u) PROVE BellInv'
  <2>1. CookieKnown'
    BY <1>2 DEF Login, BellInv, CookieKnown, bell
  <2> QED BY <1>1, <1>2, <2>1 DEF Login, bell
<1>3. CASE LoggedIn
  <2>1. CASE Shown(coming)
    <3>1. CookieKnown'
      BY <1>3, <2>1 DEF LoggedIn, Shown, BellInv, CookieKnown
    <3> QED BY <2>1, <3>1, ShownInv
  <2>2. CASE UNCHANGED <<user, bell>>
    <3>1. CookieKnown'
      BY <1>3, <2>2 DEF LoggedIn, BellInv, CookieKnown
    <3> QED BY <1>1, <2>2, <3>1 DEF bell
  <2> QED BY <1>3, <2>1, <2>2 DEF LoggedIn
<1>4. CASE Refresh
  <2>1. Shown(user) /\ CookieKnown'
    BY <1>4 DEF Refresh, Shown, BellInv, CookieKnown
  <2> QED BY <2>1, ShownInv
<1>5. CASE Logout
  <2>1. Shown(None) /\ CookieKnown'
    BY <1>5 DEF Logout, Shown, BellInv, CookieKnown
  <2> QED BY <2>1, ShownInv
<1>6. CASE LoggedOut
  <2>1. CookieKnown'
    BY <1>6 DEF LoggedOut, BellInv, CookieKnown
  <2> QED BY <1>1, <1>6, <2>1 DEF LoggedOut, bell
<1>7. CASE MarkAll
  BY <1>7, MarkInv DEF MarkAll
<1>8. ASSUME NEW n \in Note, MarkOne(n) PROVE BellInv'
  BY <1>8, MarkInv DEF MarkOne
<1>9. ASSUME NEW n \in Note, Write(n) PROVE BellInv'
  BY <1>9 DEF Write, BellInv, CookieKnown, Answers, ListAnswer, MarkAnswer, AllAnswer, NobodysEmpty,
              HisOwn, TrueMarks, Here, Own, MarksRead
<1>10. ASSUME NEW r \in asks, Served(r) PROVE BellInv'
  BY <1>10, ServedInv
<1>11. ASSUME NEW r \in asks, Answered(r) PROVE BellInv'
  BY <1>11, AnsweredInv
<1>12. CASE UNCHANGED vars
  <2>1. CookieKnown'
    BY <1>12 DEF vars, BellInv, CookieKnown
  <2> QED BY <1>1, <1>12, <2>1 DEF vars, bell
<1> QED BY <1>2, <1>3, <1>4, <1>5, <1>6, <1>7, <1>8, <1>9, <1>10, <1>11, <1>12 DEF Next

(* It holds in every state of the bell.                                    *)
THEOREM AlwaysInv ==
  ASSUME BellAssumption
  PROVE  Spec => []BellInv
<1>1. Spec => []TypeOK
  BY TypeCorrect
<1> QED BY <1>1, InitInv, StepInv, PTL DEF Spec

(* Whoever logs in and out, and however late a list comes: once the list   *)
(* of the user of the page is there, it holds nothing of another's.        *)
THEOREM NothingOfAnother ==
  ASSUME BellAssumption
  PROVE  Spec => []OwnNotes
<1>1. Spec => []BellInv
  BY AlwaysInv
<1>2. BellInv => OwnNotes
  BY DEF BellInv, HisOwn, NobodysEmpty, Here, Own, OwnNotes, Settled
<1> QED BY <1>1, <1>2, PTL

(* What the bell shows as marked is marked in the database, unless a list  *)
(* came while a mark of all was under way.                                 *)
THEOREM MarksAreTrue ==
  ASSUME BellAssumption
  PROVE  Spec => []MarkedIsRead
<1>1. Spec => []BellInv
  BY AlwaysInv
<1>2. BellInv => MarkedIsRead
  BY DEF BellInv, TrueMarks, NobodysEmpty, Here, MarksRead, MarkedIsRead, Settled
<1> QED BY <1>1, <1>2, PTL

(* What the bell shows is the user's own, and marked as it says.           *)
THEOREM NotesAreTrue ==
  ASSUME BellAssumption
  PROVE  Spec => []NotesTrue
<1>1. OwnNotes /\ MarkedIsRead => NotesTrue
  BY DEF NotesTrue
<1> QED BY <1>1, NothingOfAnother, MarksAreTrue, PTL
-----------------------------------------------------------------------------
(***************************************************************************)
(* The bell implements Feed: every step is a step of the list of the user, *)
(* or none.  The list that is listened to is the only one, and comes while *)
(* the page waits for it.                                                  *)
(***************************************************************************)
Listened(r) == r.kind = "list" /\ r.live
OneList ==
  /\ \A q, r \in asks : Listened(q) /\ Listened(r) => q = r
  /\ \A r \in asks : Listened(r) => ~loaded
  /\ ~loaded => ~failed

(* The first question is the only one.                                     *)
LEMMA InitOneList == Init => OneList
<1> SUFFICES ASSUME Init PROVE OneList
  OBVIOUS
<1>1. CASE user = None
  BY <1>1 DEF Init, OneList
<1>2. CASE user # None
  <2>1. ~loaded /\ ~failed
    BY <1>2 DEF Init
  <2> QED BY <1>2, <2>1 DEF Init, OneList
<1> QED BY <1>1, <1>2

(* A new question is asked where the earlier ones are forgotten.           *)
LEMMA StepOneList == TypeOK /\ OneList /\ [Next]_vars => OneList'
<1> SUFFICES ASSUME TypeOK, OneList, [Next]_vars PROVE OneList'
  OBVIOUS
<1> USE DEF OneList, Listened
<1>1. ASSUME UNCHANGED <<loaded, failed, asks>> PROVE OneList'
  BY <1>1
<1>2. ASSUME NEW u, Shown(u) PROVE OneList'
  <2>1. \A r \in Live(asks) : ~Listened(r)
    BY DEF Live, TypeOK, Asks
  <2>2. ~failed' /\ (asks' = Live(asks) \/ (~loaded' /\ asks' = Ask(Live(asks), "list", None)))
    BY <1>2 DEF Shown
  <2> QED BY <2>1, <2>2 DEF Ask
<1>3. ASSUME NEW k \in {"one", "all"}, NEW n, Mark(k, n) PROVE OneList'
  BY <1>3 DEF Mark, Ask
<1>4. ASSUME NEW r \in asks, Served(r) PROVE OneList'
  <2>1. r \in Asks /\ UNCHANGED <<loaded, failed>>
    BY <1>4 DEF Served, TypeOK
  <2>2. \E a, list : asks' = (asks \ {r}) \cup {[r EXCEPT !.answer = a, !.list = list]}
    BY <1>4 DEF Served, Put
  <2>3. PICK a, list : asks' = (asks \ {r}) \cup {[r EXCEPT !.answer = a, !.list = list]}
    BY <2>2
  <2>4. Listened([r EXCEPT !.answer = a, !.list = list]) => Listened(r)
    BY <2>1 DEF Asks
  <2> QED BY <2>1, <2>3, <2>4
<1>5. ASSUME NEW r \in asks, Answered(r) PROVE OneList'
  <2>1. asks' = asks \ {r}
    BY <1>5 DEF Answered
  <2>2. CASE Listened(r)
    BY <1>5, <2>1, <2>2 DEF Answered, Arrived
  <2>3. CASE ~Listened(r)
    BY <1>5, <2>1, <2>3 DEF Answered, Arrived, TypeOK
  <2> QED BY <2>2, <2>3
<1> QED BY <1>1, <1>2, <1>3, <1>4, <1>5
        DEF Next, Login, LoggedIn, Refresh, Logout, LoggedOut, MarkAll, MarkOne, Write, vars, bell

(* Whose notifications the bell shows.                                     *)
Whose == {Owner[i.note] : i \in notifications}

(* A new user is a turn of the list.                                       *)
LEMMA ShownTurns ==
  ASSUME NEW u \in User \cup {None}, Shown(u)
  PROVE  Promise!Turn(u)
<1>1. CASE u = None
  BY <1>1 DEF Shown, Promise!Turn, View
<1>2. CASE u # None
  BY <1>2 DEF Shown, Promise!Turn, View
<1> QED BY <1>1, <1>2

(* An answer shows the list, or fails it, or changes nothing of whose it   *)
(* is.                                                                     *)
LEMMA AnsweredShows ==
  ASSUME TypeOK, BellInv, OneList, NEW r \in asks, Answered(r)
  PROVE  Promise!Show \/ Promise!Fail \/ UNCHANGED Promise!vars
<1>1. r \in Asks /\ UNCHANGED user
  BY DEF Answered, TypeOK
<1>2. CASE Listened(r)
  <2>1. user # None /\ ~loaded /\ ~failed /\ loaded'
    BY <1>2 DEF OneList, Listened, BellInv, Answers, ListAnswer, Answered, Arrived
  <2>2. View = "waiting"
    BY <2>1 DEF View
  <2>3. CASE r.answer = "error"
    <3>1. View' = "failed" /\ notifications' = notifications
      BY <1>1, <1>2, <2>1, <2>3 DEF Answered, Taken, View, Listened
    <3> QED BY <1>1, <2>2, <3>1 DEF Promise!Fail
  <2>4. CASE r.answer # "error"
    <3>1. r.answer = "ok"
      BY <1>1, <2>4 DEF Answered, Asks
    <3>2. View' = "shown" /\ notifications' = r.list /\ Own(r.list, user)
      BY <1>1, <1>2, <2>1, <3>1
         DEF Answered, Taken, View, Listened, BellInv, Answers, ListAnswer
    <3>3. {Owner[i.note] : i \in notifications'} \in SUBSET {user}
      BY <3>2 DEF Own
    <3> QED BY <1>1, <2>2, <3>2, <3>3 DEF Promise!Show
  <2> QED BY <2>3, <2>4
<1>3. CASE ~Listened(r)
  <2>1. UNCHANGED <<loaded, failed>>
    BY <1>1, <1>3 DEF Answered, Arrived, Listened, TypeOK
  <2>2. \/ notifications' = notifications
        \/ notifications' = {IF r.kind = "all" \/ i.note = r.note THEN [i EXCEPT !.marked = TRUE] ELSE i :
                               i \in notifications}
    BY <1>3 DEF Answered, Taken, Listened
  <2>3. Whose' = Whose
    <3>1. \A i \in notifications : [i EXCEPT !.marked = TRUE].note = i.note
      BY DEF TypeOK, Item
    <3> DEFINE after(i) == IF r.kind = "all" \/ i.note = r.note THEN [i EXCEPT !.marked = TRUE] ELSE i
    <3>2. \A i \in notifications : after(i).note = i.note
      BY <3>1
    <3>3. CASE notifications' = {after(i) : i \in notifications}
      <4> HIDE DEF after
      <4>1. Whose' \subseteq Whose
        BY <3>2, <3>3 DEF Whose
      <4>2. Whose \subseteq Whose'
        BY <3>2, <3>3 DEF Whose
      <4> QED BY <4>1, <4>2
    <3>4. CASE notifications' = notifications
      BY <3>4 DEF Whose
    <3> QED BY <2>2, <3>3, <3>4
  <2> QED BY <1>1, <2>1, <2>3 DEF Promise!vars, View, Whose
<1> QED BY <1>2, <1>3

(* However questions, marks and answers overtake each other, the bell does *)
(* nothing that the list of a user may not do.                             *)
THEOREM BellIsFeed ==
  ASSUME BellAssumption
  PROVE  Spec => Promise!Safe
<1>1. Init => Promise!Init
  <2> SUFFICES ASSUME Init PROVE Promise!Init
    OBVIOUS
  <2>1. user # None => ~loaded
    BY DEF Init
  <2> QED BY <2>1 DEF Init, Promise!Init, View
<1>2. TypeOK /\ BellInv /\ OneList /\ [Next]_vars => [Promise!Next]_(Promise!vars)
  <2> SUFFICES ASSUME TypeOK, BellInv, OneList, [Next]_vars
               PROVE  Promise!Next \/ UNCHANGED Promise!vars
    OBVIOUS
  <2>1. ASSUME UNCHANGED <<user, loaded, failed, notifications>>
        PROVE  UNCHANGED Promise!vars
    BY <2>1 DEF Promise!vars, View
  <2>2. ASSUME NEW u \in User \cup {None}, Shown(u) PROVE Promise!Next
    BY <2>2, ShownTurns DEF Promise!Next
  <2>3. user \in User \cup {None} /\ coming \in User \cup {None}
    BY DEF TypeOK
  <2>4. ASSUME NEW r \in asks, Answered(r) PROVE Promise!Next \/ UNCHANGED Promise!vars
    BY <2>4, AnsweredShows DEF Promise!Next
  <2> QED BY <2>1, <2>2, <2>3, <2>4
          DEF Next, Login, LoggedIn, Refresh, Logout, LoggedOut, MarkAll, MarkOne, Mark, Served, Write,
              vars, bell
<1>3. Spec => []TypeOK /\ []BellInv
  BY TypeCorrect, AlwaysInv
<1> QED BY <1>1, <1>2, <1>3, InitOneList, StepOneList, PTL DEF Spec, Promise!Safe
-----------------------------------------------------------------------------
(***************************************************************************)
(* The listing of products.                                                *)
(***************************************************************************)
ShelfInv == S!TypeOK /\ pages <= steps + 1 /\ S!FiltersOfView

LEMMA ShelfFacts ==
  /\ Steps \in Nat /\ All # None
  /\ \A list \in Sent : list \subseteq AllProducts
  /\ \A u \in Links : u.category \in S!Categories \cup {None}
  /\ Links \subseteq S!Addresses
<1>1. S!ShelfAssumption
  BY StorefrontAssumption
<1>2. ASSUME NEW u \in Links
      PROVE  u.category \in S!Categories \cup {None} /\ u \in S!Addresses
  <2>1. u \in [category : S!Categories \cup {None}, group : {u.group}]
    BY <1>1 DEF S!ShelfAssumption
  <2>2. u.group \in {w.group : w \in Links}
    OBVIOUS
  <2> QED BY <2>1, <2>2 DEF S!Addresses
<1> QED BY <1>1, <1>2 DEF S!ShelfAssumption

(* The keys of a view are filters, and not the search.                     *)
LEMMA KeysAreFilters ==
  ASSUME NEW c \in S!Categories, NEW g, g \in DOMAIN GroupTable \cup {All}, NEW type
  PROVE  S!FilterKeys(c, g, type) \subseteq S!Key \ {"search"}
<1>1. S!CustomKeys(g, type) \subseteq S!Key \ {"search"}
  <2>1. {"material", "status", "productType"} \subseteq S!Key \ {"search"}
    BY DEF S!Key
  <2>2. CASE g = All
    BY <2>1, <2>2 DEF S!CustomKeys
  <2>3. CASE g # All
    <3>1. g \in DOMAIN GroupTable
      BY <2>3
    <3>2. /\ GroupTable[g].keys \subseteq S!Key \ {"search"}
          /\ \A t \in DOMAIN GroupTable[g].types : GroupTable[g].types[t] \subseteq S!Key \ {"search"}
      BY <3>1, StorefrontAssumption DEF S!ShelfAssumption
    <3> QED BY <2>1, <2>3, <3>2 DEF S!CustomKeys
  <2> QED BY <2>2, <2>3
<1>2. c \in {All, "slabs", "tiles", "paving", "custom"}
  BY DEF S!Categories
<1>3. {"material", "thickness", "finish", "status", "format"} \subseteq S!Key \ {"search"}
  BY DEF S!Key
<1>4. \/ S!FilterKeys(c, g, type) \subseteq {"material", "thickness", "finish", "status", "format"}
      \/ S!FilterKeys(c, g, type) = S!CustomKeys(g, type)
  BY <1>2 DEF S!FilterKeys
<1> QED BY <1>1, <1>3, <1>4

(* The view is one there is.                                               *)
LEMMA ViewIs ==
  ASSUME NEW u \in S!Addresses, NEW list
  PROVE  /\ S!CategoryOf(u) \in S!Categories
         /\ S!GroupOf(u, list) \in DOMAIN GroupTable \cup {All}
         /\ S!Cleaned(u, list) \in S!Addresses \cup {None}
<1>1. /\ u.category \in S!Categories \cup {None}
      /\ u = [category |-> u.category, group |-> u.group]
  BY DEF S!Addresses
<1>2. S!CategoryOf(u) \in S!Categories
  BY <1>1 DEF S!CategoryOf, S!Categories
<1>3. S!Populated(list) \subseteq DOMAIN GroupTable
  BY DEF S!Populated
<1>4. [u EXCEPT !.group = None] \in S!Addresses
  BY DEF S!Addresses
<1> QED BY <1>2, <1>3, <1>4 DEF S!GroupOf, S!Cleaned

(* What an option is: a value of a product, or of a row of it.             *)
LEMMA ValuesAre ==
  ASSUME NEW list, NEW k, NEW v
  PROVE  v \in S!FilterValues(list, k) <=> v # None /\ \E p \in list : v \in S!ValuesOf(p, k)
BY DEF S!FilterValues

(* A product with a value passes the filter for it.                        *)
LEMMA ValueMatches ==
  ASSUME NEW p, NEW k, NEW v \in S!ValuesOf(p, k)
  PROVE  S!Matches(p, k, v)
<1>1. CASE S!OfRows(p, k)
  BY <1>1 DEF S!Matches, S!ValuesOf
<1>2. CASE ~S!OfRows(p, k) /\ k = "format" /\ p.category \in {"tiles", "paving"}
  <2>1. v \in {p.size, p.format}
    BY <1>2 DEF S!FilterValue, S!ValuesOf
  <2> QED BY <1>2, <2>1 DEF S!Matches
<1>3. CASE ~S!OfRows(p, k) /\ ~(k = "format" /\ p.category \in {"tiles", "paving"})
  BY <1>3 DEF S!Matches, S!ValuesOf
<1> QED BY <1>1, <1>2, <1>3

LEMMA MoreValues ==
  ASSUME NEW list, NEW more, list \subseteq more, NEW k
  PROVE  S!FilterValues(list, k) \subseteq S!FilterValues(more, k)
BY ValuesAre

LEMMA OptionsAreValues ==
  ASSUME NEW k
  PROVE  S!Options(k) \subseteq S!FilterValues(products, k)
<1>1. S!CategoryProducts \subseteq products
  BY DEF S!CategoryProducts
<1>2. {p \in S!CategoryProducts : p.productType = filters["productType"]} \subseteq products
  BY <1>1
<1> QED BY <1>1, <1>2, MoreValues DEF S!Options

(* In any state of the listing: its filters are among the keys, and of the *)
(* view there is a category and a group.                                   *)
LEMMA ViewOf ==
  ASSUME S!TypeOK
  PROVE  /\ S!category \in S!Categories /\ S!group \in DOMAIN GroupTable \cup {All}
         /\ \A type : S!FilterKeys(S!category, S!group, type) \subseteq S!Key \ {"search"}
         /\ S!VisibleKeys \subseteq S!FilterKeys(S!category, S!group, filters["productType"])
         /\ products \subseteq AllProducts
<1>1. url \in S!Addresses /\ products \in Sent
  BY DEF S!TypeOK
<1>2. S!category \in S!Categories /\ S!group \in DOMAIN GroupTable \cup {All}
  BY <1>1, ViewIs DEF S!category, S!group
<1>3. S!VisibleKeys \subseteq S!FilterKeys(S!category, S!group, filters["productType"])
  BY DEF S!VisibleKeys
<1> QED BY <1>1, <1>2, <1>3, KeysAreFilters, ShelfFacts

LEMMA PickedIs ==
  ASSUME S!TypeOK
  PROVE  [category |-> S!category, group |-> S!group]
           \in [category : S!Categories, group : DOMAIN GroupTable \cup {All}]
<1> QED BY ViewOf

(* An option finds the product it was collected from.                      *)
LEMMA OptionFinds ==
  ASSUME S!TypeOK PROVE S!OptionsFind
<1> SUFFICES ASSUME NEW k \in S!VisibleKeys, NEW v \in S!Options(k)
             PROVE  LET type == IF S!category = "custom" THEN filters["productType"] ELSE All IN
                    S!Filtered([S!NoFilters EXCEPT !["productType"] = type, ![k] = v]) # {}
  BY DEF S!OptionsFind
<1> DEFINE type == IF S!category = "custom" THEN filters["productType"] ELSE All
           f == [S!NoFilters EXCEPT !["productType"] = type, ![k] = v]
           narrow == S!category = "custom" /\ filters["productType"] # All /\ k # "productType"
           list == IF narrow THEN {p \in S!CategoryProducts : p.productType = filters["productType"]}
                   ELSE S!CategoryProducts
<1>1. S!Options(k) = S!FilterValues(list, k)
  BY DEF S!Options
<1>2. PICK p \in list : v \in S!ValuesOf(p, k)
  <2> HIDE DEF list
  <2> QED BY <1>1, ValuesAre
<1>3. p \in S!CategoryProducts /\ (narrow => p.productType = filters["productType"])
  BY <1>2
<1>4. S!Matches(p, k, v)
  BY <1>2, ValueMatches
<1>5. /\ k \in S!Key \ {"search"}
      /\ \A t : S!FilterKeys(S!category, S!group, t) \subseteq S!Key \ {"search"}
      /\ k \in S!FilterKeys(S!category, S!group, filters["productType"])
      /\ S!category \in S!Categories
  BY ViewOf
<1>6. "productType" \in S!Key /\ "search" \in S!Key
  BY DEF S!Key
<1>7. /\ f[k] = v /\ f["search"] = All
      /\ k # "productType" => f["productType"] = type
      /\ \A q \in S!Key : q # k /\ q # "productType" => f[q] = All
  BY <1>5, <1>6 DEF S!NoFilters
<1> HIDE DEF f
<1>8. ASSUME NEW q \in S!FilterKeys(S!category, S!group, f["productType"])
      PROVE  f[q] = All \/ S!Matches(p, q, f[q])
  <2>1. q \in S!Key
    BY <1>5
  <2>2. CASE q = k
    BY <1>4, <1>7, <2>2
  <2>3. CASE q # k /\ q # "productType"
    BY <1>7, <2>1, <2>3
  <2>4. CASE q # k /\ q = "productType" /\ type = All
    BY <1>7, <2>4
  <2>5. CASE q # k /\ q = "productType" /\ type # All
    <3>1. narrow /\ f[q] = filters["productType"]
      BY <1>7, <2>5
    <3>2. ~S!OfRows(p, q) /\ S!FilterValue(p, q) = p["productType"]
      BY <2>5 DEF S!OfRows, S!FilterValue
    <3>3. S!Matches(p, q, f[q])
      BY <1>3, <2>5, <3>1, <3>2 DEF S!Matches
    <3> QED BY <3>3
  <2> QED BY <2>2, <2>3, <2>4, <2>5
<1>9. p \in S!Filtered(f)
  BY <1>3, <1>7, <1>8 DEF S!Filtered
<1> QED BY <1>9 DEF f

(* With no filter set, nothing of the view is left out.                    *)
LEMMA WayOut ==
  ASSUME S!TypeOK PROVE S!EmptyHasWayOut
<1> SUFFICES ASSUME ~S!CanReset PROVE S!Filtered(filters) = S!CategoryProducts
  BY DEF S!EmptyHasWayOut
<1>1. \A k \in S!Key : filters[k] = All
  BY DEF S!CanReset, S!HasActive
<1>2. "search" \in S!Key
  BY DEF S!Key
<1>3. \A k \in S!FilterKeys(S!category, S!group, filters["productType"]) : filters[k] = All
  BY <1>1, ViewOf
<1>4. filters["search"] = All
  BY <1>1, <1>2
<1> QED BY <1>3, <1>4 DEF S!Filtered

LEMMA ShelfInit == S!Init => ShelfInv
<1> SUFFICES ASSUME S!Init PROVE ShelfInv
  OBVIOUS
<1>1. url \in S!Addresses /\ products \in Sent /\ target = S!Cleaned(url, products)
  BY ShelfFacts DEF S!Init
<1>2. target \in S!Addresses \cup {None}
  BY <1>1, ViewIs
<1>3. filters = S!NoFilters /\ picked = [k \in S!Key |-> None] /\ sort = FALSE /\ pages = 1 /\ steps = 0
  BY DEF S!Init
<1>4. DOMAIN filters = S!Key /\ \A k \in S!Key : filters[k] = All
  BY <1>3 DEF S!NoFilters
<1>5. "search" \in S!Key
  BY DEF S!Key
<1>6. S!TypeOK
  <2>1. picked \in [S!Key -> [category : S!Categories, group : DOMAIN GroupTable \cup {All}] \cup {None}]
    BY <1>3
  <2>2. pages \in 1 .. Steps + 1 /\ steps \in 0 .. Steps /\ sort \in BOOLEAN
    <3>1. Steps \in Nat
      BY ShelfFacts
    <3>2. sort = FALSE /\ pages = 1 /\ steps = 0
      BY <1>3
    <3>3. pages \in 1 .. Steps + 1
      BY <3>1, <3>2
    <3>4. steps \in 0 .. Steps
      BY <3>1, <3>2
    <3>5. sort \in BOOLEAN
      BY <3>2
    <3> QED BY <3>3, <3>4, <3>5
  <2>3. \A k \in S!Key \ {"search"} : filters[k] \in S!FilterValues(AllProducts, k) \cup {All}
    BY <1>4
  <2>4. filters["search"] \in {All, "query"}
    BY <1>4, <1>5
  <2> QED BY <1>1, <1>2, <1>4, <2>1, <2>2, <2>3, <2>4, Zenon DEF S!TypeOK
<1>7. S!FiltersOfView
  BY <1>4 DEF S!FiltersOfView
<1> QED BY <1>3, <1>6, <1>7 DEF ShelfInv

(* What of the filters is left in a new view was set before, in that view. *)
LEMMA ViewedIs ==
  ASSUME S!TypeOK, S!FiltersOfView, NEW u \in S!Addresses, NEW list,
         NEW f, f = S!Viewed(u, list)
  PROVE  /\ DOMAIN f = S!Key
         /\ \A k \in S!Key : f[k] \in {filters[k], All}
         /\ \A k \in S!Key : f[k] # All =>
              /\ picked[k].category = S!CategoryOf(u)
              /\ k \in {"search", "material", "status"} \/ picked[k].group = S!GroupOf(u, list)
<1>1. DOMAIN filters = S!Key
  BY DEF S!TypeOK
<1>2. CASE S!CategoryOf(u) # S!category
  <2>1. f = S!NoFilters
    BY <1>2 DEF S!Viewed
  <2> QED BY <2>1 DEF S!NoFilters
<1>3. CASE S!CategoryOf(u) = S!category /\ S!GroupOf(u, list) # S!group
  <2>1. f = S!ForGroup(filters)
    BY <1>3 DEF S!Viewed
  <2>2. \A k \in S!Key : f[k] = IF k \in {"search", "material", "status"} THEN filters[k] ELSE All
    BY <2>1 DEF S!ForGroup
  <2>3. DOMAIN f = S!Key
    BY <2>1 DEF S!ForGroup
  <2> QED BY <1>3, <2>2, <2>3 DEF S!FiltersOfView
<1>4. CASE S!CategoryOf(u) = S!category /\ S!GroupOf(u, list) = S!group
  <2>1. f = filters
    BY <1>4 DEF S!Viewed
  <2> QED BY <1>1, <1>4, <2>1 DEF S!FiltersOfView
<1> QED BY <1>2, <1>3, <1>4

(* A new view comes.                                                       *)
LEMMA CommitInv == ASSUME ShelfInv, S!Commit PROVE ShelfInv'
<1>1. target \in S!Addresses /\ S!TypeOK /\ S!FiltersOfView /\ pages <= steps + 1
  BY DEF S!Commit, ShelfInv, S!TypeOK
<1>2. PICK list \in Sent :
        /\ url' = target /\ products' = list /\ filters' = S!Viewed(target, list)
        /\ sort' = (sort /\ S!CategoryOf(target) = S!category)
        /\ pages' \in {pages, 1}
        /\ picked' = [k \in S!Key |-> IF S!Viewed(target, list)[k] = All THEN None ELSE picked[k]]
        /\ target' = S!Cleaned(target, list)
        /\ steps' = steps
  BY DEF S!Commit
<1>3. S!category' = S!CategoryOf(target) /\ S!group' = S!GroupOf(target, list)
  BY <1>2 DEF S!category, S!group
<1>4. /\ DOMAIN filters' = S!Key
      /\ \A k \in S!Key : filters'[k] \in {filters[k], All}
      /\ \A k \in S!Key : filters'[k] # All =>
           /\ picked[k].category = S!category'
           /\ k \in {"search", "material", "status"} \/ picked[k].group = S!group'
  <2> DEFINE f == S!Viewed(target, list)
  <2>1. /\ DOMAIN f = S!Key
        /\ \A k \in S!Key : f[k] \in {filters[k], All}
        /\ \A k \in S!Key : f[k] # All =>
             /\ picked[k].category = S!CategoryOf(target)
             /\ k \in {"search", "material", "status"} \/ picked[k].group = S!GroupOf(target, list)
    BY <1>1, ViewedIs
  <2>2. filters' = f
    BY <1>2
  <2> HIDE DEF f
  <2> QED BY <1>3, <2>1, <2>2
<1>5. \A k \in S!Key : picked'[k] = IF filters'[k] = All THEN None ELSE picked[k]
  BY <1>2
<1>6. S!FiltersOfView'
  BY <1>4, <1>5 DEF S!FiltersOfView
<1>7. target' \in S!Addresses \cup {None}
  BY <1>1, <1>2, ViewIs
<1>8. "search" \in S!Key /\ \A k \in S!Key \ {"search"} : filters'[k] \in S!FilterValues(AllProducts, k) \cup {All}
  BY <1>1, <1>4 DEF S!TypeOK, S!Key
<1>9. filters'["search"] \in {All, "query"}
  BY <1>1, <1>4, <1>8 DEF S!TypeOK
<1>10. pages' \in 1 .. Steps + 1 /\ pages' <= steps' + 1 /\ steps' \in 0 .. Steps /\ sort' \in BOOLEAN
  <2>1. sort' \in BOOLEAN
    BY <1>2
  <2> QED BY <1>1, <1>2, <2>1, ShelfFacts DEF S!TypeOK
<1>11. picked' \in [S!Key -> [category : S!Categories, group : DOMAIN GroupTable \cup {All}] \cup {None}]
  BY <1>1, <1>2 DEF S!TypeOK
<1>12. url' \in S!Addresses /\ products' \in Sent
  BY <1>1, <1>2
<1>13. S!TypeOK'
  BY <1>4, <1>7, <1>8, <1>9, <1>10, <1>11, <1>12 DEF S!TypeOK
<1> QED BY <1>6, <1>10, <1>13 DEF ShelfInv

(* The visitor sets a filter.                                              *)
LEMMA SetInv ==
  ASSUME ShelfInv, NEW k \in S!Key, NEW v, S!SetFilter(k, v),
         IF k = "search" THEN v \in {All, "query"} ELSE v \in S!FilterValues(AllProducts, k) \cup {All}
  PROVE  ShelfInv'
<1>1. S!TypeOK /\ S!FiltersOfView /\ pages <= steps + 1
  BY DEF ShelfInv
<1>2. /\ filters' = [filters EXCEPT ![k] = v]
      /\ picked' = [picked EXCEPT ![k] = IF v = All THEN None
                                         ELSE [category |-> S!category, group |-> S!group]]
      /\ pages' = 1 /\ steps < Steps /\ steps' = steps + 1
      /\ UNCHANGED <<url, target, products, sort>>
  BY DEF S!SetFilter, S!Step
<1>3. S!category' = S!category /\ S!group' = S!group
  BY <1>2 DEF S!category, S!group
<1>4. DOMAIN filters' = S!Key /\ \A q \in S!Key : filters'[q] = IF q = k THEN v ELSE filters[q]
  BY <1>1, <1>2 DEF S!TypeOK
<1> DEFINE here == [category |-> S!category, group |-> S!group]
<1>5. here \in [category : S!Categories, group : DOMAIN GroupTable \cup {All}]
      /\ here.category = S!category /\ here.group = S!group
  BY <1>1, PickedIs
<1> HIDE DEF here
<1>6. /\ picked' \in [S!Key -> [category : S!Categories, group : DOMAIN GroupTable \cup {All}] \cup {None}]
      /\ \A q \in S!Key : picked'[q] = IF q = k THEN (IF v = All THEN None ELSE here) ELSE picked[q]
  <2>1. picked' = [picked EXCEPT ![k] = IF v = All THEN None ELSE here]
    BY <1>2 DEF here
  <2> QED BY <1>1, <1>5, <2>1 DEF S!TypeOK
<1>7. S!FiltersOfView'
  BY <1>1, <1>3, <1>4, <1>5, <1>6 DEF S!FiltersOfView
<1>8. pages' \in 1 .. Steps + 1 /\ pages' <= steps' + 1 /\ steps' \in 0 .. Steps
  BY <1>1, <1>2, ShelfFacts DEF S!TypeOK
<1>9. /\ filters'["search"] \in {All, "query"}
      /\ \A q \in S!Key \ {"search"} : filters'[q] \in S!FilterValues(AllProducts, q) \cup {All}
  <2>1. "search" \in S!Key
    BY DEF S!Key
  <2> QED BY <1>1, <1>4, <2>1 DEF S!TypeOK
<1>10. S!TypeOK'
  BY <1>1, <1>2, <1>4, <1>6, <1>8, <1>9 DEF S!TypeOK
<1> QED BY <1>7, <1>8, <1>10 DEF ShelfInv

(* The visitor asks for another view, sorts, or asks for more.             *)
LEMMA TurnInv ==
  ASSUME ShelfInv, UNCHANGED <<url, products, filters, picked>>,
         target' \in S!Addresses \cup {None}, sort' \in BOOLEAN, pages' \in {pages, 1, pages + 1},
         steps < Steps, steps' = steps + 1
  PROVE  ShelfInv'
<1>1. S!TypeOK /\ S!FiltersOfView /\ pages <= steps + 1
  BY DEF ShelfInv
<1>2. S!category' = S!category /\ S!group' = S!group
  BY DEF S!category, S!group
<1>3. S!FiltersOfView'
  BY <1>1, <1>2 DEF S!FiltersOfView
<1>4. pages' \in 1 .. Steps + 1 /\ pages' <= steps' + 1 /\ steps' \in 0 .. Steps
  BY <1>1, ShelfFacts DEF S!TypeOK
<1>5. S!TypeOK'
  BY <1>1, <1>4 DEF S!TypeOK
<1> QED BY <1>3, <1>4, <1>5 DEF ShelfInv

LEMMA ShelfResetInv == ASSUME ShelfInv, S!Reset PROVE ShelfInv'
<1>1. S!TypeOK /\ S!FiltersOfView /\ pages <= steps + 1
  BY DEF ShelfInv
<1>2. /\ steps < Steps /\ steps' = steps + 1
      /\ filters' = S!NoFilters /\ sort' = FALSE /\ pages' \in {1, pages}
      /\ target' \in {[url EXCEPT !.group = None], target}
      /\ picked' = [k \in S!Key |-> None] /\ UNCHANGED <<url, products>>
  BY DEF S!Reset, S!Step
<1>3. DOMAIN filters' = S!Key /\ \A k \in S!Key : filters'[k] = All
  BY <1>2 DEF S!NoFilters
<1>4. "search" \in S!Key
  BY DEF S!Key
<1>5. target' \in S!Addresses \cup {None}
  BY <1>1, <1>2 DEF S!TypeOK, S!Addresses
<1>6. pages' \in 1 .. Steps + 1 /\ pages' <= steps' + 1 /\ steps' \in 0 .. Steps
  BY <1>1, <1>2, ShelfFacts DEF S!TypeOK
<1>7. S!TypeOK'
  BY <1>1, <1>2, <1>3, <1>4, <1>5, <1>6 DEF S!TypeOK
<1>8. S!FiltersOfView'
  BY <1>3 DEF S!FiltersOfView
<1> QED BY <1>6, <1>7, <1>8 DEF ShelfInv

LEMMA ShelfStep == ASSUME ShelfInv, S!Next PROVE ShelfInv'
<1>1. S!TypeOK
  BY DEF ShelfInv
<1>2. target \in S!Addresses \cup {None} /\ sort \in BOOLEAN
  BY <1>1 DEF S!TypeOK
<1>3. ASSUME NEW u \in Links, S!Follow(u) PROVE ShelfInv'
  <2>1. target' \in S!Addresses \cup {None}
    BY <1>3, ShelfFacts DEF S!Follow
  <2> QED BY <1>2, <1>3, <2>1, TurnInv DEF S!Follow, S!Step
<1>4. ASSUME NEW c \in S!Categories, S!SelectCategory(c) PROVE ShelfInv'
  <2>1. target' \in S!Addresses \cup {None}
    BY <1>4 DEF S!SelectCategory, S!Addresses
  <2> QED BY <1>2, <1>4, <2>1, TurnInv DEF S!SelectCategory, S!Step
<1>5. ASSUME NEW g \in DOMAIN GroupTable \cup {All}, S!SelectGroup(g) PROVE ShelfInv'
  <2>1. "custom" \in S!Categories
    BY DEF S!Categories
  <2>2. target' \in S!Addresses \cup {None}
    BY <1>5, <2>1 DEF S!SelectGroup, S!Addresses
  <2> QED BY <1>2, <1>5, <2>2, TurnInv DEF S!SelectGroup, S!Step
<1>6. ASSUME NEW k \in S!Key, S!Pick(k) PROVE ShelfInv'
  <2>1. PICK v \in S!Options(k) \cup {All} : S!SetFilter(k, v)
    BY <1>6 DEF S!Pick
  <2>2. k # "search"
    BY <1>1, <1>6, ViewOf DEF S!Pick
  <2>3. S!Options(k) \subseteq S!FilterValues(products, k) /\ products \subseteq AllProducts
    BY <1>1, ViewOf, OptionsAreValues
  <2>4. v \in S!FilterValues(AllProducts, k) \cup {All}
    BY <2>3, MoreValues
  <2> QED BY <2>1, <2>2, <2>4, SetInv
<1>7. ASSUME NEW v \in {All, "query"}, S!TypeSearch(v) PROVE ShelfInv'
  <2>1. "search" \in S!Key /\ S!SetFilter("search", v)
    BY <1>7 DEF S!Key, S!TypeSearch
  <2> QED BY <2>1, SetInv
<1>8. ASSUME NEW by \in BOOLEAN, S!Sort(by) PROVE ShelfInv'
  BY <1>2, <1>8, TurnInv DEF S!Sort, S!Step
<1>9. CASE S!ShowMore
  BY <1>2, <1>9, TurnInv DEF S!ShowMore, S!Step
<1> QED BY <1>3, <1>4, <1>5, <1>6, <1>7, <1>8, <1>9, CommitInv, ShelfResetInv DEF S!Next

LEMMA ShelfStays == ASSUME ShelfInv, UNCHANGED shelf PROVE ShelfInv'
<1>1. S!TypeOK' /\ S!category' = S!category /\ S!group' = S!group
  BY DEF ShelfInv, S!TypeOK, shelf, S!category, S!group
<1> QED BY <1>1 DEF ShelfInv, S!FiltersOfView, shelf

(* Whatever views the visitor leaves and comes to while answers are on     *)
(* their way (product-catalog.tsx): a filter holds only where it was       *)
(* picked, an option of a filter finds something, and where nothing is     *)
(* found there is a way out.                                               *)
THEOREM FiltersAreSound == SceneSpec => []FiltersSound
<1> DEFINE Inv == scene = "shelf" => ShelfInv
<1>1. SceneInit => Inv
  BY ShelfInit DEF SceneInit
<1>2. Inv /\ [SceneNext]_<<scene, lot, shelf, ring>> => Inv'
  BY ShelfStep, ShelfStays DEF SceneNext
<1>3. Inv => FiltersSound
  BY OptionFinds, WayOut DEF FiltersSound, ShelfInv
<1> QED BY <1>1, <1>2, <1>3, PTL DEF SceneSpec
-----------------------------------------------------------------------------
(***************************************************************************)
(* The rows of a lot: what is said of them all.                            *)
(***************************************************************************)
LEMMA LotFacts ==
  /\ Rows \in Nat /\ Lengths \subseteq Nat /\ None \notin [lo : Lengths, hi : Lengths]
  /\ Columns \in Seq(L!Range(Columns)) /\ Sorted \in Seq(L!Range(Sorted))
  /\ All \notin L!Range(Sorted)
  /\ Len(Sorted) \in Nat /\ DOMAIN Sorted = 1 .. Len(Sorted)
<1>1. L!LotAssumption
  BY StorefrontAssumption
<1>2. Sorted \in Seq(L!Range(Sorted))
  BY <1>1 DEF L!LotAssumption
<1>3. Len(Sorted) \in Nat /\ DOMAIN Sorted = 1 .. Len(Sorted)
  BY <1>2
<1> QED BY <1>1, <1>3 DEF L!LotAssumption

LEMMA SameCount == ASSUME NEW xs PROVE L!Cardinality(xs) = Cardinality(xs)
BY DEF L!Cardinality, Cardinality

(* Of numbers there is a least, and of finitely many a greatest.           *)
LEMMA LeastIs ==
  ASSUME NEW ns, ns \subseteq Nat, ns # {}
  PROVE  \E n \in ns : \A m \in ns : n <= m
<1> DEFINE Below == OpToRel(<, Nat)
<1>1. Below = {ss \in Nat \X Nat : ss[1] < ss[2]} /\ IsWellFoundedOn(Below, Nat)
  BY NatLessThanWellFounded, Zenon DEF OpToRel
<1> HIDE DEF Below
<1>2. PICK n \in ns : \A m \in ns : ~(<<m, n>> \in Below)
  BY <1>1, WFMin
<1>3. ASSUME NEW m \in ns, m < n PROVE FALSE
  <2>1. <<m, n>> \in Nat \X Nat
    OBVIOUS
  <2>2. <<m, n>> \in Below
    BY <1>1, <1>3, <2>1
  <2> QED BY <1>2, <2>2
<1>4. \A m \in ns : n <= m
  BY <1>3
<1> QED BY <1>4

LEMMA ImageIs ==
  ASSUME NEW xs, IsFiniteSet(xs), NEW ys, NEW g \in [xs -> ys], \A t \in ys : \E x \in xs : g[x] = t
  PROVE  IsFiniteSet(ys)
<1>1. g \in Surjection(xs, ys)
  BY DEF Surjection
<1> QED BY <1>1, FS_Surjection

LEMMA GreatestIs ==
  ASSUME NEW ns, ns \subseteq Nat, ns # {}, IsFiniteSet(ns)
  PROVE  \E n \in ns : \A m \in ns : m <= n
<1> DEFINE Above(n) == {m \in ns : m > n}
           Counts == {Cardinality(Above(n)) : n \in ns}
<1>1. ASSUME NEW n \in ns
      PROVE  IsFiniteSet(Above(n)) /\ Cardinality(Above(n)) \in Nat
  <2>1. Above(n) \subseteq ns
    OBVIOUS
  <2> HIDE DEF Above
  <2> QED BY <2>1, FS_Subset, FS_CardinalityType
<1>2. PICK c \in Counts : \A d \in Counts : c <= d
  <2>1. Counts \subseteq Nat /\ Counts # {}
    BY <1>1
  <2> HIDE DEF Counts
  <2> QED BY <2>1, LeastIs
<1>3. PICK n \in ns : c = Cardinality(Above(n))
  OBVIOUS
<1>4. ASSUME NEW m \in ns, ~(m <= n) PROVE FALSE
  <2>1. m \in Above(n) /\ m \notin Above(m)
    BY <1>4
  <2>2. Above(m) \subseteq Above(n)
    <3>1. m \in Nat /\ n \in Nat /\ n < m
      BY <1>4
    <3>2. \A q \in ns : q > m => q > n
      BY <3>1
    <3> QED BY <3>2
  <2>3. Cardinality(Above(m)) < Cardinality(Above(n))
    <3>1. Above(m) # Above(n)
      BY <2>1, Zenon
    <3> HIDE DEF Above
    <3> QED BY <1>1, <2>2, <3>1, FS_Subset
  <2>4. Cardinality(Above(m)) \in Counts
    OBVIOUS
  <2> HIDE DEF Above, Counts
  <2> QED BY <1>1, <1>2, <1>3, <2>3, <2>4
<1> QED BY <1>4

(* The rows are numbered from the first on, and may be none.               *)
FewRows == \E n \in 0 .. Rows : L!Row = 1 .. n

LEMMA AllRows ==
  ASSUME FewRows
  PROVE  IsFiniteSet(L!Row) /\ L!Row \subseteq Nat
<1>1. PICK n \in 0 .. Rows : L!Row = 1 .. n
  BY DEF FewRows
<1>2. n \in Nat
  BY LotFacts
<1>3. IsFiniteSet(1 .. n)
  BY <1>2, FS_Interval
<1> QED BY <1>1, <1>2, <1>3

LEMMA RowsFinite ==
  ASSUME FewRows, NEW rs \in SUBSET L!Row
  PROVE  /\ IsFiniteSet(rs) /\ Cardinality(rs) \in Nat
         /\ Cardinality(rs) = Cardinality(L!Row) => rs = L!Row
         /\ Cardinality(rs) = 0 <=> rs = {}
<1>1. IsFiniteSet(L!Row)
  BY AllRows
<1>2. IsFiniteSet(rs) /\ Cardinality(rs) \in Nat
      /\ (Cardinality(rs) = Cardinality(L!Row) => rs = L!Row)
  BY <1>1, FS_Subset, FS_CardinalityType
<1>3. Cardinality(rs) = 0 <=> rs = {}
  BY <1>2, FS_EmptySet
<1> QED BY <1>1, <1>2, <1>3

(* The badge of a lot, and the link on the page of its stone.              *)
LEMMA StatusAgrees ==
  ASSUME FewRows, items \in [L!Row -> L!Blocks]
  PROVE  /\ L!HasBlocksInStock => L!LotStatus \in {"stock", "partly"}
         /\ L!LotStatus \in {"stock", "partly"} => L!HasBlocksInStock \/ L!Row = {}
         /\ L!LotStatus = "order" <=> L!Row # {} /\ \A r \in L!Row : items[r].status = "order"
<1> DEFINE in(st) == {r \in L!Row : items[r].status = st}
           total == L!Cardinality(L!Row)
<1>1. /\ \A st \in {"stock", "reserved", "order"} : L!Breakdown[st] = Cardinality(in(st))
      /\ total = Cardinality(L!Row)
  BY SameCount DEF L!Breakdown, L!Statuses
<1>2. \A st : in(st) \in SUBSET L!Row
  OBVIOUS
<1>3. \A r \in L!Row : items[r].status \in {"stock", "reserved", "order"}
  BY DEF L!Blocks, L!Statuses
<1>4. (\A r \in L!Row : items[r].status = "order") <=> in("order") = L!Row
  OBVIOUS
<1>5. L!HasBlocksInStock <=> in("stock") # {}
  BY DEF L!HasBlocksInStock
<1>6. \A st, other : st # other => in(st) \cap in(other) = {}
  OBVIOUS
<1>7. L!Row = in("stock") \cup in("reserved") \cup in("order")
  BY <1>3
<1> HIDE DEF in, total
<1>8. \A st \in {"stock", "reserved", "order"} :
        /\ L!Breakdown[st] = 0 <=> in(st) = {}
        /\ L!Breakdown[st] = total <=> in(st) = L!Row
  BY <1>1, <1>2, RowsFinite
<1>9. CASE L!Row = {}
  <2>1. L!LotStatus = "stock" /\ in("stock") = {}
    BY <1>2, <1>9 DEF L!LotStatus
  <2> QED BY <1>5, <1>9, <2>1
<1>10. CASE L!Row # {} /\ L!Breakdown["order"] = total
  <2>1. in("order") = L!Row /\ L!LotStatus = "order"
    BY <1>8, <1>10 DEF L!LotStatus, total
  <2>2. in("stock") = {}
    BY <1>2, <1>6, <2>1
  <2> QED BY <1>4, <1>5, <1>10, <2>1, <2>2
<1>11. CASE L!Row # {} /\ L!Breakdown["order"] # total /\ L!Breakdown["reserved"] = 0
  <2>1. in("reserved") = {} /\ in("order") # L!Row /\ L!LotStatus = "stock"
    BY <1>8, <1>11 DEF L!LotStatus, total
  <2>2. in("stock") # {}
    BY <1>7, <2>1
  <2> QED BY <1>4, <1>5, <2>1, <2>2
<1>12. CASE L!Row # {} /\ L!Breakdown["order"] # total /\ L!Breakdown["reserved"] # 0
  <2>1. in("order") # L!Row /\ (L!LotStatus = IF L!Breakdown["stock"] = 0 THEN "reserved" ELSE "partly")
    BY <1>8, <1>12 DEF L!LotStatus, total
  <2> QED BY <1>4, <1>5, <1>8, <2>1
<1> QED BY <1>9, <1>10, <1>11, <1>12

(* The range that a lot names covers what can be read of its blocks.       *)
LEMMA RangeIs ==
  ASSUME FewRows, items \in [L!Row -> L!Blocks], NEW r \in L!Row, L!Parsed(items[r].size)
  PROVE  /\ L!DimensionsRange # None
         /\ items[r].size.mm \in L!DimensionsRange.lo .. L!DimensionsRange.hi
<1> DEFINE parsed == {q \in L!Row : L!Parsed(items[q].size)}
           named == {q \in L!Row : items[q].size # None}
           mms == {items[q].size.mm : q \in parsed}
           asIs == IF Cardinality(parsed) = 1 THEN parsed ELSE named
           first == CHOOSE s \in asIs : \A q \in asIs : s <= q
           lo == CHOOSE m \in mms : \A n \in mms : m <= n
           hi == CHOOSE m \in mms : \A n \in mms : m >= n
<1>0. \A xs : L!Cardinality(xs) = Cardinality(xs)
  BY SameCount
<1>1. /\ Cardinality(parsed) > 1 => L!DimensionsRange = [lo |-> lo, hi |-> hi]
      /\ ~(Cardinality(parsed) > 1) /\ named # {} =>
           L!DimensionsRange = [lo |-> items[first].size.mm, hi |-> items[first].size.mm]
  BY <1>0 DEF L!DimensionsRange
<1>2. \A q \in L!Row : L!Parsed(items[q].size) => items[q].size \in [crosses : BOOLEAN, mm : Lengths]
  BY DEF L!Parsed, L!Blocks, L!Sizes
<1>3. mms \subseteq Lengths /\ items[r].size.mm \in mms
  BY <1>2
<1>4. r \in parsed /\ r \in named /\ parsed \in SUBSET L!Row /\ named \in SUBSET L!Row
  BY DEF L!Parsed
<1>5. IsFiniteSet(mms)
  <2>1. IsFiniteSet(parsed)
    BY <1>4, RowsFinite
  <2> DEFINE g == [q \in parsed |-> items[q].size.mm]
  <2>2. g \in [parsed -> mms] /\ \A m \in mms : \E q \in parsed : g[q] = m
    OBVIOUS
  <2> HIDE DEF parsed, mms, g
  <2> QED BY <2>1, <2>2, ImageIs
<1>6. mms \subseteq Nat /\ Lengths \subseteq Nat
  BY <1>3, LotFacts
<1>7. CASE Cardinality(parsed) > 1
  <2>1. L!DimensionsRange = [lo |-> lo, hi |-> hi]
    BY <1>1, <1>7
  <2> HIDE DEF mms
  <2>2. \E m \in mms : \A n \in mms : m <= n
    BY <1>3, <1>6, LeastIs
  <2>3. \E m \in mms : \A n \in mms : m >= n
    <3>1. PICK m \in mms : \A n \in mms : n <= m
      BY <1>3, <1>5, <1>6, GreatestIs
    <3>2. \A n \in mms : m >= n
      BY <1>6, <3>1
    <3> QED BY <3>2
  <2>4. lo \in mms /\ \A n \in mms : lo <= n
    BY <2>2
  <2>5. hi \in mms /\ \A n \in mms : hi >= n
    BY <2>3
  <2> HIDE DEF lo, hi
  <2>6. lo \in Lengths /\ hi \in Lengths /\ items[r].size.mm \in lo .. hi
    <3>1. lo \in Lengths /\ hi \in Lengths
      BY <1>3, <2>4, <2>5
    <3>2. lo <= items[r].size.mm /\ hi >= items[r].size.mm
      BY <1>3, <2>4, <2>5
    <3>3. lo \in Nat /\ hi \in Nat /\ items[r].size.mm \in Nat
      BY <1>3, <1>6, <3>1
    <3> QED BY <3>1, <3>2, <3>3
  <2>7. L!DimensionsRange \in [lo : Lengths, hi : Lengths]
        /\ L!DimensionsRange.lo = lo /\ L!DimensionsRange.hi = hi
    BY <2>1, <2>6
  <2> QED BY <2>6, <2>7, LotFacts
<1>8. CASE ~(Cardinality(parsed) > 1)
  <2>1. L!DimensionsRange = [lo |-> items[first].size.mm, hi |-> items[first].size.mm]
    BY <1>1, <1>4, <1>8
  <2>2. Cardinality(parsed) = 1
    <3>1. Cardinality(parsed) \in Nat /\ Cardinality(parsed) # 0
      BY <1>4, RowsFinite
    <3> QED BY <1>8, <3>1
  <2>3. parsed = {r}
    <3>1. \E q : parsed = {q}
      <4> HIDE DEF parsed
      <4> QED BY <1>4, <2>2, FS_Singleton, RowsFinite
    <3> HIDE DEF parsed
    <3> QED BY <1>4, <3>1
  <2>4. asIs = {r}
    BY <2>2, <2>3
  <2> HIDE DEF asIs
  <2>5. first = r
    <3>1. r \in Nat
      BY AllRows
    <3> QED BY <2>4, <3>1
  <2> HIDE DEF first
  <2>6. items[r].size.mm \in Lengths
    BY <1>3
  <2>7. L!DimensionsRange \in [lo : Lengths, hi : Lengths]
        /\ L!DimensionsRange.lo = items[r].size.mm /\ L!DimensionsRange.hi = items[r].size.mm
    BY <2>1, <2>5, <2>6
  <2> QED BY <1>6, <2>6, <2>7, LotFacts
<1> QED BY <1>7, <1>8

-----------------------------------------------------------------------------
(***************************************************************************)
(* The rows of a lot: the filters and their lists.                         *)
(***************************************************************************)
(* Numbers of a finite set have different places in it, from the first to  *)
(* the last.                                                               *)
LEMMA PlacesAre ==
  ASSUME NEW xs, xs \subseteq Nat, IsFiniteSet(xs)
  PROVE  /\ \A i \in xs : L!Before(xs, i) + 1 \in 1 .. Cardinality(xs)
         /\ \A i, j \in xs : i # j => L!Before(xs, i) # L!Before(xs, j)
         /\ \A n \in 1 .. Cardinality(xs) : \E i \in xs : L!Before(xs, i) = n - 1
<1> DEFINE below(i) == {j \in xs : j < i}
           c == Cardinality(xs)
           f == [i \in xs |-> Cardinality(below(i))]
           us == {f[i] : i \in xs}
<1>1. \A i : L!Before(xs, i) = Cardinality(below(i))
  BY SameCount DEF L!Before
<1>2. \A i : below(i) \in SUBSET xs /\ (i \in xs => i \notin below(i))
  <2>1. \A i : below(i) \in SUBSET xs
    OBVIOUS
  <2>2. ASSUME NEW i \in xs PROVE i \notin below(i)
    <3>1. i \in Nat
      OBVIOUS
    <3>2. ~(i < i)
      BY <3>1
    <3> QED BY <3>2
  <2> HIDE DEF below
  <2> QED BY <2>1, <2>2
<1>3. c \in Nat /\ \A i : IsFiniteSet(below(i)) /\ Cardinality(below(i)) \in Nat
  <2> HIDE DEF below
  <2> QED BY <1>2, FS_Subset, FS_CardinalityType
<1>4. ASSUME NEW i \in xs PROVE Cardinality(below(i)) < c
  <2>1. below(i) # xs
    BY <1>2, Zenon
  <2> HIDE DEF below
  <2> QED BY <1>2, <1>3, <2>1, FS_Subset
<1>5. ASSUME NEW i \in xs, NEW j \in xs, i < j
      PROVE  Cardinality(below(i)) < Cardinality(below(j))
  <2>1. below(i) \in SUBSET below(j)
    <3>1. \A m \in xs : m < i => m < j
      BY <1>5
    <3> QED BY <3>1
  <2>2. i \in below(j) /\ i \notin below(i)
    BY <1>5, <1>2
  <2> HIDE DEF below
  <2> QED BY <1>3, <2>1, <2>2, FS_Subset
<1>6. ASSUME NEW i \in xs, NEW j \in xs, i # j
      PROVE  Cardinality(below(i)) # Cardinality(below(j))
  <2>1. i < j \/ j < i
    BY <1>6
  <2> HIDE DEF below
  <2> QED BY <1>3, <1>5, <2>1
<1>7. us = 0 .. c - 1
  <2>1. f \in [xs -> us] /\ (\A u \in us : \E i \in xs : f[i] = u)
        /\ \A i, j \in xs : f[i] = f[j] => i = j
    <3> HIDE DEF below
    <3> QED BY <1>6
  <2>2. us \in SUBSET (0 .. c - 1)
    <3> HIDE DEF below
    <3> QED BY <1>3, <1>4
  <2> HIDE DEF f, us
  <2>3. f \in Surjection(xs, us) /\ f \in Injection(xs, us)
    BY <2>1 DEF Surjection, Injection, IsInjective
  <2>4. IsFiniteSet(us) /\ Cardinality(us) = c
    BY <2>3, FS_Surjection
  <2>5. IsFiniteSet(0 .. c - 1) /\ Cardinality(0 .. c - 1) = c
    <3>1. 0 \in Int /\ c - 1 \in Int
      BY <1>3
    <3>2. IsFiniteSet(0 .. c - 1)
          /\ Cardinality(0 .. c - 1) = IF 0 > c - 1 THEN 0 ELSE (c - 1) - 0 + 1
      BY <3>1, FS_Interval
    <3> HIDE DEF c
    <3> QED BY <1>3, <3>2
  <2> QED BY <2>2, <2>4, <2>5, FS_Subset
<1>8. ASSUME NEW n \in 1 .. c
      PROVE  \E i \in xs : Cardinality(below(i)) = n - 1
  <2>1. n - 1 \in us
    BY <1>3, <1>7
  <2> HIDE DEF below
  <2> QED BY <2>1
<1>9. \A i \in xs : Cardinality(below(i)) + 1 \in 1 .. c
  <2> HIDE DEF below, c
  <2> QED BY <1>3, <1>4
<1> HIDE DEF below
<1> QED BY <1>1, <1>6, <1>8, <1>9

(* The options of a column are the values of some row, each of them.       *)
LEMMA OptionsAre ==
  ASSUME NEW rs, NEW k
  PROVE  /\ L!FieldValues(rs, k) \in Seq(L!Range(Sorted))
         /\ Len(L!FieldValues(rs, k)) <= Len(Sorted)
         /\ \A v \in L!Range(Sorted) :
              v \in L!Range(L!FieldValues(rs, k)) <=> \E r \in rs : items[r][k] = v
<1> DEFINE kept == L!Kept(rs, k)
           c == Cardinality(kept)
           at(n) == CHOOSE i \in kept : L!Before(kept, i) = n - 1
           list == [n \in 1 .. c |-> Sorted[at(n)]]
<1>1. Len(Sorted) \in Nat /\ DOMAIN Sorted = 1 .. Len(Sorted)
      /\ \A i \in DOMAIN Sorted : Sorted[i] \in L!Range(Sorted)
  BY LotFacts DEF L!Range
<1>2. /\ kept \in SUBSET (1 .. Len(Sorted))
      /\ \A i \in 1 .. Len(Sorted) : i \in kept <=> \E r \in rs : items[r][k] = Sorted[i]
  BY <1>1 DEF L!Kept
<1>3. L!FieldValues(rs, k) = list
  BY SameCount DEF L!FieldValues
<1> HIDE DEF kept
<1>4. IsFiniteSet(kept) /\ c \in Nat /\ c <= Len(Sorted) /\ kept \subseteq Nat
  <2>1. IsFiniteSet(1 .. Len(Sorted)) /\ Cardinality(1 .. Len(Sorted)) = Len(Sorted)
    <3>1. 1 \in Int /\ Len(Sorted) \in Int
      BY <1>1
    <3>2. IsFiniteSet(1 .. Len(Sorted))
          /\ Cardinality(1 .. Len(Sorted)) = IF 1 > Len(Sorted) THEN 0 ELSE Len(Sorted) - 1 + 1
      BY <3>1, FS_Interval
    <3> QED BY <1>1, <3>2
  <2>2. IsFiniteSet(kept) /\ Cardinality(kept) \in Nat /\ Cardinality(kept) <= Len(Sorted)
    BY <1>2, <2>1, FS_Subset, FS_CardinalityType
  <2>3. kept \subseteq Nat
    BY <1>2
  <2> QED BY <2>2, <2>3
<1>5. /\ \A i \in kept : L!Before(kept, i) + 1 \in 1 .. c
      /\ \A i, j \in kept : i # j => L!Before(kept, i) # L!Before(kept, j)
      /\ \A n \in 1 .. c : \E i \in kept : L!Before(kept, i) = n - 1
  BY <1>4, PlacesAre
<1> HIDE DEF c
<1>6. \A n \in 1 .. c : at(n) \in kept /\ L!Before(kept, at(n)) = n - 1
  BY <1>5
<1> HIDE DEF at
<1>7. \A n \in 1 .. c : Sorted[at(n)] \in L!Range(Sorted)
  BY <1>1, <1>2, <1>6
<1>8. DOMAIN list = 1 .. c /\ \A n \in 1 .. c : list[n] = Sorted[at(n)]
  OBVIOUS
<1>9. list \in Seq(L!Range(Sorted)) /\ Len(list) = c
  <2>1. list \in [1 .. c -> L!Range(Sorted)]
    BY <1>7
  <2>2. list \in Seq(L!Range(Sorted))
    BY <1>4, <2>1, SeqDef
  <2> HIDE DEF list
  <2> QED BY <1>4, <1>8, <2>2, LenProperties
<1> HIDE DEF list
<1>10. ASSUME NEW v \in L!Range(list)
       PROVE  \E r \in rs : items[r][k] = v
  <2>1. PICK n \in 1 .. c : v = Sorted[at(n)]
    BY <1>8 DEF L!Range
  <2> QED BY <1>2, <1>6, <2>1
<1>11. ASSUME NEW v \in L!Range(Sorted), NEW r \in rs, items[r][k] = v
       PROVE  v \in L!Range(list)
  <2>1. PICK i \in 1 .. Len(Sorted) : Sorted[i] = v
    BY <1>1 DEF L!Range
  <2>2. i \in kept
    BY <1>2, <1>11, <2>1
  <2> DEFINE n == L!Before(kept, i) + 1
  <2>3. n \in 1 .. c /\ L!Before(kept, i) = n - 1
    <3>1. n \in 1 .. c
      BY <1>5, <2>2
    <3>2. L!Before(kept, i) \in Nat
      <4>1. {j \in kept : j < i} \in SUBSET kept
        OBVIOUS
      <4> QED BY <1>4, <4>1, SameCount, FS_Subset, FS_CardinalityType DEF L!Before
    <3> QED BY <3>1, <3>2
  <2> HIDE DEF n
  <2>4. at(n) = i
    BY <1>5, <1>6, <2>2, <2>3
  <2>5. list[n] = v
    BY <1>8, <2>1, <2>3, <2>4
  <2> QED BY <1>8, <2>3, <2>5 DEF L!Range
<1> QED BY <1>3, <1>4, <1>9, <1>10, <1>11

(* The list of a column: all, or one of its options; and its own value has *)
(* a place in it.                                                          *)
LEMMA MenuIs ==
  ASSUME NEW f, NEW k
  PROVE  /\ L!MenuItems(f, k) \in Seq(L!Range(Sorted) \cup {All})
         /\ DOMAIN L!MenuItems(f, k) = 1 .. Len(L!MenuItems(f, k))
         /\ Len(L!MenuItems(f, k)) \in 1 .. Len(Sorted) + 1
         /\ \A i \in 1 .. Len(L!MenuItems(f, k)) :
              \/ L!MenuItems(f, k)[i] = All
              \/ /\ L!MenuItems(f, k)[i] \in L!Range(L!FilterOptions(f, k))
                 /\ L!MenuItems(f, k)[i] \in L!Range(Sorted)
         /\ L!Place(f, k) \in 1 .. Len(L!MenuItems(f, k))
<1> DEFINE opts == L!FilterOptions(f, k)
           list == L!MenuItems(f, k)
           R == L!Range(Sorted)
<1>1. opts \in Seq(R) /\ Len(opts) <= Len(Sorted) /\ Len(opts) \in Nat /\ Len(Sorted) \in Nat
  <2>1. opts \in Seq(R) /\ Len(opts) <= Len(Sorted)
    BY OptionsAre DEF L!FilterOptions
  <2> HIDE DEF opts
  <2> QED BY <2>1, LotFacts
<1>2. list = <<All>> \o opts
  BY DEF L!MenuItems
<1> HIDE DEF opts, list, R
<1>3. <<All>> \in Seq(R \cup {All}) /\ opts \in Seq(R \cup {All}) /\ Len(<<All>>) = 1
  BY <1>1
<1>4. list \in Seq(R \cup {All}) /\ Len(list) = 1 + Len(opts) /\ DOMAIN list = 1 .. Len(list)
  <2>1. list \in Seq(R \cup {All})
    BY <1>2, <1>3
  <2>2. Len(list) = Len(<<All>>) + Len(opts)
    BY <1>2, <1>3
  <2> QED BY <1>3, <2>1, <2>2
<1>5. Len(list) \in 1 .. Len(Sorted) + 1
  BY <1>1, <1>4
<1>6. ASSUME NEW i \in 1 .. Len(list)
      PROVE  list[i] = All \/ (list[i] \in L!Range(opts) /\ list[i] \in R)
  <2>1. list[i] = IF i <= 1 THEN <<All>>[i] ELSE opts[i - 1]
    BY <1>1, <1>2, <1>3, <1>4
  <2>2. CASE i = 1
    BY <2>1, <2>2
  <2>3. CASE i # 1
    <3>1. i - 1 \in 1 .. Len(opts) /\ ~(i <= 1)
      BY <1>1, <1>4, <2>3
    <3>2. opts[i - 1] \in R /\ opts[i - 1] \in {opts[n] : n \in DOMAIN opts}
      BY <1>1, <3>1
    <3> QED BY <2>1, <3>1, <3>2 DEF L!Range
  <2> QED BY <2>2, <2>3
<1>7. L!Place(f, k) \in 1 .. Len(list)
  <2> DEFINE at == {i \in DOMAIN list : list[i] = f[k]}
  <2>1. L!Place(f, k) = IF at = {} THEN 1 ELSE CHOOSE i \in at : TRUE
    BY DEF L!Place, list
  <2>2. 1 \in 1 .. Len(list)
    BY <1>1, <1>4
  <2>3. at \subseteq 1 .. Len(list)
    BY <1>4
  <2> HIDE DEF at
  <2> QED BY <2>1, <2>2, <2>3
<1> QED BY <1>4, <1>5, <1>6, <1>7 DEF opts, list, R

(* Of the menus: an open one highlights one of its entries.                *)
Menu == [open : BOOLEAN, highlight : 1 .. Len(Sorted) + 1]
Filters == [L!Key -> L!Range(Sorted) \cup {All}]

MenusFine(m, f) ==
  /\ m \in [L!Key -> Menu]
  /\ \A k \in L!Key : m[k].open => m[k].highlight \in 1 .. Len(L!MenuItems(f, k))

ShownBy(f) == IF table = "block" THEN L!Row ELSE L!FilterItems(f)

LotInv ==
  /\ table \in {"lot", "variant", "block"}
  /\ FewRows /\ items \in IF table = "block" THEN [L!Row -> L!Blocks] ELSE [L!Row -> L!Cells]
  /\ headers \in Filters /\ MenusFine(menu, headers)
  /\ active = None \/ active \in ShownBy(headers)
  /\ L!Row # {} => L!FilterItems(headers) # {}

(* A column has a filter only when there are rows.                         *)
LEMMA FilteredRows ==
  ASSUME NEW k \in L!VisibleKeys
  PROVE  L!Row # {}
<1> DEFINE list == L!FieldValues(L!Row, k)
<1>1. list \in Seq(L!Range(Sorted)) /\ Len(list) > 1
      /\ \A v \in L!Range(Sorted) : v \in L!Range(list) <=> \E r \in L!Row : items[r][k] = v
  BY OptionsAre DEF L!VisibleKeys
<1> HIDE DEF list
<1>2. 1 \in DOMAIN list /\ list[1] \in L!Range(Sorted)
  BY <1>1
<1> QED BY <1>1, <1>2 DEF L!Range

LEMMA ShutFine ==
  ASSUME NEW m, MenusFine(m, headers), NEW ks
  PROVE  MenusFine(L!Shut(m, ks), headers)
<1> DEFINE shut(k) == [open |-> FALSE, highlight |-> L!Place(headers, k)]
           s == L!Shut(m, ks)
<1>1. \A k \in L!Key : L!Place(headers, k) \in 1 .. Len(Sorted) + 1
  <2> SUFFICES ASSUME NEW k \in L!Key PROVE L!Place(headers, k) \in 1 .. Len(Sorted) + 1
    OBVIOUS
  <2>1. L!Place(headers, k) \in 1 .. Len(L!MenuItems(headers, k))
        /\ Len(L!MenuItems(headers, k)) \in 1 .. Len(Sorted) + 1
    BY MenuIs
  <2>2. Len(Sorted) \in Nat
    BY LotFacts
  <2> QED BY <2>1, <2>2
<1>2. \A k \in L!Key : shut(k) \in Menu /\ ~shut(k).open
  BY <1>1 DEF Menu
<1>3. s = [k \in L!Key |-> IF k \in ks /\ m[k].open THEN shut(k) ELSE m[k]]
  BY DEF L!Shut
<1> HIDE DEF shut, s
<1>4. \A k \in L!Key : m[k] \in Menu
  BY DEF MenusFine
<1>5. s \in [L!Key -> Menu]
  BY <1>2, <1>3, <1>4
<1>6. \A k \in L!Key : s[k].open => s[k] = m[k]
  BY <1>2, <1>3
<1>7. \A k \in L!Key : s[k].open => s[k].highlight \in 1 .. Len(L!MenuItems(headers, k))
  BY <1>6 DEF MenusFine
<1> QED BY <1>5, <1>7 DEF MenusFine, s

LEMMA MenusShut ==
  ASSUME MenusFine(menu, headers), NEW mouse, NEW but
  PROVE  MenusFine(L!Menus(mouse, but), headers)
BY ShutFine DEF L!Menus

LEMMA TurnedFine ==
  ASSUME NEW m, MenusFine(m, headers), NEW k \in L!Key, NEW open \in BOOLEAN
  PROVE  MenusFine(L!Turned(m, k, open), headers)
<1>1. CASE m[k].open = open
  BY <1>1 DEF L!Turned
<1>2. CASE m[k].open # open
  <2> DEFINE e == [open |-> open, highlight |-> L!Place(headers, k)]
             s == L!Turned(m, k, open)
  <2>1. L!Place(headers, k) \in 1 .. Len(L!MenuItems(headers, k))
        /\ Len(L!MenuItems(headers, k)) \in 1 .. Len(Sorted) + 1 /\ Len(Sorted) \in Nat
    BY MenuIs, LotFacts
  <2>2. e \in Menu /\ e.highlight \in 1 .. Len(L!MenuItems(headers, k))
    BY <2>1 DEF Menu
  <2>3. s = [m EXCEPT ![k] = e]
    BY <1>2 DEF L!Turned
  <2> HIDE DEF e, s
  <2>4. s \in [L!Key -> Menu] /\ \A q \in L!Key : s[q] = IF q = k THEN e ELSE m[q]
    BY <2>2, <2>3 DEF MenusFine
  <2> QED BY <2>2, <2>4 DEF MenusFine, s
<1> QED BY <1>1, <1>2

(* New filters, and every menu highlights one of its new entries.          *)
LEMMA HighlightedFine ==
  ASSUME NEW m \in [L!Key -> Menu], NEW f
  PROVE  MenusFine(L!Highlighted(m, f), f)
<1> DEFINE e(k) == [m[k] EXCEPT !.highlight = L!Place(f, k)]
           s == L!Highlighted(m, f)
<1>1. ASSUME NEW k \in L!Key
      PROVE  e(k) \in Menu /\ e(k).highlight \in 1 .. Len(L!MenuItems(f, k))
  <2>1. L!Place(f, k) \in 1 .. Len(L!MenuItems(f, k))
        /\ Len(L!MenuItems(f, k)) \in 1 .. Len(Sorted) + 1 /\ Len(Sorted) \in Nat
    BY MenuIs, LotFacts
  <2>2. m[k] \in Menu
    OBVIOUS
  <2> QED BY <2>1, <2>2 DEF Menu
<1>2. s = [k \in L!Key |-> e(k)]
  BY DEF L!Highlighted
<1> HIDE DEF e, s
<1> QED BY <1>1, <1>2 DEF MenusFine, s

LEMMA StillShownIs ==
  ASSUME NEW f
  PROVE  L!StillShown(f) = None \/ (L!StillShown(f) = active /\ active \in L!FilterItems(f))
BY DEF L!StillShown

LEMMA LotNextInv ==
  ASSUME LotInv, UNCHANGED <<table, items>>, headers' \in Filters, MenusFine(menu', headers'),
         active' = None \/ active' \in ShownBy(headers'),
         L!Row # {} => L!FilterItems(headers') # {}
  PROVE  LotInv'
<1>1. /\ \A k : L!MenuItems(headers, k)' = L!MenuItems(headers', k)
      /\ ShownBy(headers)' = ShownBy(headers')
      /\ L!FilterItems(headers)' = L!FilterItems(headers') /\ L!Row' = L!Row
  <2>1. \A k : L!MenuItems(headers, k)' = L!MenuItems(headers', k)
    BY DEF L!MenuItems, L!FilterOptions, L!FieldValues, L!Kept, L!FilterItems, L!Row
  <2>2. ShownBy(headers)' = ShownBy(headers')
    BY DEF ShownBy, L!FilterItems, L!Row
  <2>3. L!FilterItems(headers)' = L!FilterItems(headers') /\ L!Row' = L!Row
    BY DEF L!FilterItems, L!Row
  <2> QED BY <2>1, <2>2, <2>3
<1>2. MenusFine(menu, headers)'
  BY <1>1 DEF MenusFine
<1>3. active' = None \/ active' \in ShownBy(headers)'
  BY <1>1
<1>4. L!Row' # {} => L!FilterItems(headers)' # {}
  BY <1>1
<1>5. FewRows'
  BY <1>1 DEF LotInv, FewRows
<1> QED BY <1>1, <1>2, <1>3, <1>4, <1>5 DEF LotInv

LEMMA MovedIs ==
  ASSUME NEW n \in Nat \ {0}, NEW i \in 1 .. n, NEW delta \in {-1, 1}
  PROVE  L!Moved(i, delta, n) \in 1 .. n
<1> DEFINE a == i - 1 + delta + n
<1>1. a \in Int
  OBVIOUS
<1> HIDE DEF a
<1>2. a % n \in 0 .. n - 1
  BY <1>1
<1>3. L!Moved(i, delta, n) = (a % n) + 1
  BY DEF L!Moved, a
<1> HIDE DEF L!Moved
<1> QED BY <1>2, <1>3

(* What is picked is kept: a row that has the value and is shown by the    *)
(* other filters has every value that is picked, so that no column finds   *)
(* its own value missing.                                                  *)
LEMMA NothingDropped ==
  ASSUME NEW f \in Filters, NEW r \in L!FilterItems(f)
  PROVE  L!PruneFilters(f) = f
<1>1. r \in L!Row /\ \A k \in L!Key : f[k] # All => f[k] = items[r][k]
  BY DEF L!FilterItems
<1>2. Len(Columns) \in Nat /\ DOMAIN Columns = 1 .. Len(Columns)
      /\ \A i \in DOMAIN Columns : Columns[i] \in L!Key
  BY LotFacts DEF L!Key, L!Range
<1>3. ASSUME NEW k \in L!Key PROVE ~L!Misses(f, k)
  <2> SUFFICES ASSUME f[k] # All PROVE f[k] \in L!Range(L!FilterOptions(f, k))
    BY DEF L!Misses
  <2> DEFINE g == [f EXCEPT ![k] = All]
  <2>1. \A q \in L!Key : g[q] = IF q = k THEN All ELSE f[q]
    BY DEF Filters
  <2> HIDE DEF g
  <2>2. r \in L!FilterItems(g)
    BY <1>1, <2>1 DEF L!FilterItems
  <2>3. f[k] \in L!Range(Sorted) /\ items[r][k] = f[k]
    BY <1>1 DEF Filters
  <2>4. f[k] \in L!Range(L!FieldValues(L!FilterItems(g), k))
    BY <2>2, <2>3, OptionsAre
  <2> QED BY <2>4 DEF L!FilterOptions, g
<1>4. f = L!Without(f, {})
  <2>1. f = [k \in L!Key |-> f[k]]
    BY DEF Filters
  <2> QED BY <2>1 DEF L!Without
<1> DEFINE earlier(i) == {Columns[j] : j \in 1 .. i - 1}
           Fits(d) == \A i \in DOMAIN Columns :
                        Columns[i] \in d <=> L!Misses(L!Without(f, d \cap earlier(i)), Columns[i])
<1>5. L!Dropped(f) = CHOOSE d \in SUBSET L!Key : Fits(d)
  BY DEF L!Dropped
<1>6. Fits({})
  <2>1. \A i : {} \cap earlier(i) = {}
    OBVIOUS
  <2> HIDE DEF earlier
  <2>2. \A i \in DOMAIN Columns : ~L!Misses(L!Without(f, {} \cap earlier(i)), Columns[i])
    BY <1>2, <1>3, <1>4, <2>1
  <2> QED BY <2>2
<1>7. ASSUME NEW d \in SUBSET L!Key, Fits(d) PROVE d = {}
  <2> DEFINE at == {i \in 1 .. Len(Columns) : Columns[i] \in d}
  <2>1. CASE at = {}
    <3>1. \A k \in L!Key : \E i \in 1 .. Len(Columns) : Columns[i] = k
      BY <1>2 DEF L!Key, L!Range
    <3> QED BY <2>1, <3>1
  <2>2. CASE at # {}
    <3>1. at \subseteq Nat
      OBVIOUS
    <3>2. PICK i \in at : \A j \in at : i <= j
      <4> HIDE DEF at
      <4> QED BY <2>2, <3>1, LeastIs
    <3>3. \A j \in 1 .. i - 1 : Columns[j] \notin d
      <4> SUFFICES ASSUME NEW j \in 1 .. i - 1, Columns[j] \in d PROVE FALSE
        OBVIOUS
      <4>1. j \in at /\ i \in Nat /\ j < i
        BY <1>2
      <4> QED BY <3>2, <4>1
    <3>4. d \cap earlier(i) = {}
      BY <3>3
    <3>5. i \in DOMAIN Columns /\ Columns[i] \in d
      BY <1>2
    <3> HIDE DEF earlier
    <3>6. L!Misses(L!Without(f, {}), Columns[i])
      BY <1>7, <3>4, <3>5
    <3> QED BY <1>2, <1>3, <1>4, <3>5, <3>6
  <2> QED BY <2>1, <2>2
<1> HIDE DEF Fits
<1>8. L!Dropped(f) = {}
  <2>1. {} \in SUBSET L!Key
    OBVIOUS
  <2>2. L!Dropped(f) \in SUBSET L!Key /\ Fits(L!Dropped(f))
    BY <1>5, <1>6, <2>1
  <2> QED BY <1>7, <2>2
<1> QED BY <1>4, <1>8 DEF L!PruneFilters

(* Where something was shown, something is by what is picked instead.      *)
LEMMA PickedShows ==
  ASSUME headers \in Filters, L!FilterItems(headers) # {}, NEW k \in L!Key, NEW v,
         v = All \/ (v \in L!Range(Sorted) /\ v \in L!Range(L!FilterOptions(headers, k)))
  PROVE  /\ [headers EXCEPT ![k] = v] \in Filters
         /\ L!FilterItems([headers EXCEPT ![k] = v]) # {}
<1> DEFINE g == [headers EXCEPT ![k] = v]
           h == [headers EXCEPT ![k] = All]
<1>1. /\ g \in Filters /\ \A q \in L!Key : g[q] = IF q = k THEN v ELSE headers[q]
      /\ \A q \in L!Key : h[q] = IF q = k THEN All ELSE headers[q]
  BY DEF Filters
<1> HIDE DEF g, h
<1>2. PICK r \in L!FilterItems(h) : v = All \/ items[r][k] = v
  <2>1. CASE v = All
    <3>1. PICK r \in L!FilterItems(headers) : TRUE
      OBVIOUS
    <3>2. r \in L!FilterItems(h)
      BY <1>1 DEF L!FilterItems
    <3> QED BY <2>1, <3>2
  <2>2. CASE v # All
    <3>1. v \in L!Range(L!FieldValues(L!FilterItems(h), k))
      BY <2>2 DEF L!FilterOptions, h
    <3> QED BY <2>2, <3>1, OptionsAre
  <2> QED BY <2>1, <2>2
<1>3. r \in L!FilterItems(g)
  BY <1>1, <1>2 DEF L!FilterItems
<1> QED BY <1>1, <1>3 DEF g

(* The visitor sets a filter, to one of its options or to none.            *)
LEMMA FilterChangeInv ==
  ASSUME LotInv, NEW k \in L!VisibleKeys, NEW mouse, NEW v,
         v = All \/ (v \in L!Range(Sorted) /\ v \in L!Range(L!FilterOptions(headers, k))),
         L!FilterChange(k, v, mouse)
  PROVE  /\ LotInv' /\ (active' = None \/ active' = active)
         /\ headers' = [headers EXCEPT ![k] = v] /\ L!FilterItems(headers') # {}
<1>1. k \in L!Key /\ table # "block"
  BY DEF L!VisibleKeys
<1> DEFINE g == [headers EXCEPT ![k] = v]
           f == L!PruneFilters(g)
           m == [L!Menus(mouse, {k}) EXCEPT ![k].open = FALSE]
<1>2. g \in Filters /\ L!FilterItems(g) # {}
  <2>1. L!FilterItems(headers) # {} /\ headers \in Filters
    BY FilteredRows DEF LotInv
  <2> QED BY <1>1, <2>1, PickedShows
<1>3. f = g
  <2> HIDE DEF g
  <2> QED BY <1>2, NothingDropped
<1>4. headers' = f /\ menu' = L!Highlighted(m, f) /\ active' = L!StillShown(f) /\ UNCHANGED <<table, items>>
  BY DEF L!FilterChange
<1>5. m \in [L!Key -> Menu]
  <2> DEFINE s == L!Menus(mouse, {k})
  <2>1. MenusFine(s, headers)
    BY MenusShut DEF LotInv
  <2>2. s \in [L!Key -> Menu]
    BY <2>1 DEF MenusFine
  <2> HIDE DEF s
  <2>3. [s[k] EXCEPT !.open = FALSE] \in Menu
    BY <1>1, <2>2 DEF Menu
  <2>4. [s EXCEPT ![k] = [s[k] EXCEPT !.open = FALSE]] \in [L!Key -> Menu]
    BY <2>2, <2>3
  <2> QED BY <2>4 DEF s
<1> HIDE DEF m, f, g
<1>6. MenusFine(menu', headers')
  BY <1>4, <1>5, HighlightedFine
<1>7. active' = None \/ (active' = active /\ active' \in ShownBy(headers'))
  BY <1>1, <1>4, StillShownIs DEF ShownBy
<1>8. headers' = g /\ headers' \in Filters /\ L!FilterItems(headers') # {}
  BY <1>2, <1>3, <1>4
<1>9. LotInv'
  BY <1>4, <1>6, <1>7, <1>8, LotNextInv
<1> QED BY <1>7, <1>8, <1>9 DEF g

LEMMA AllShown == ASSUME L!Row # {} PROVE L!FilterItems(L!Unfiltered) # {}
<1>1. L!FilterItems(L!Unfiltered) = L!Row
  BY DEF L!FilterItems, L!Unfiltered
<1> QED BY <1>1

LEMMA LotReset ==
  ASSUME LotInv, NEW mouse, L!ResetFilters(mouse)
  PROVE  LotInv' /\ (active' = None \/ active' = active)
<1>1. table # "block"
  BY DEF L!ResetFilters, L!VisibleKeys
<1>2. headers' = L!Unfiltered /\ menu' = L!Highlighted(L!Menus(mouse, {}), L!Unfiltered)
      /\ active' = L!StillShown(L!Unfiltered) /\ UNCHANGED <<table, items>>
  BY DEF L!ResetFilters
<1>3. L!Unfiltered \in Filters
  BY DEF L!Unfiltered, Filters
<1>4. L!Menus(mouse, {}) \in [L!Key -> Menu]
  BY MenusShut DEF LotInv, MenusFine
<1>5. MenusFine(menu', headers')
  BY <1>2, <1>4, HighlightedFine
<1>6. active' = None \/ (active' = active /\ active' \in ShownBy(headers'))
  BY <1>1, <1>2, StillShownIs DEF ShownBy
<1>7. L!Row # {} => L!FilterItems(headers') # {}
  BY <1>2, AllShown
<1> QED BY <1>2, <1>3, <1>5, <1>6, <1>7, LotNextInv

(* Of what is pressed, all but the filters themselves.                     *)
LEMMA PressedInv ==
  ASSUME LotInv, UNCHANGED <<table, items, headers>>, MenusFine(menu', headers),
         active' = None \/ active' \in ShownBy(headers)
  PROVE  LotInv'
<1> QED BY LotNextInv DEF LotInv

LEMMA ShownIs == L!Shown = ShownBy(headers)
BY DEF L!Shown, ShownBy

LEMMA RowsAre == ASSUME LotInv PROVE /\ ShownBy(headers) \subseteq L!Row
                                    /\ L!Dialog => active \in L!Row
<1>1. ShownBy(headers) \subseteq L!Row
  BY DEF ShownBy, L!FilterItems
<1> QED BY <1>1, ShownIs DEF L!Dialog

LEMMA ArrowInv ==
  ASSUME LotInv, NEW k \in L!Key, NEW delta \in {-1, 1}, L!Arrow(k, delta)
  PROVE  LotInv'
<1> DEFINE n == Len(L!MenuItems(headers, k))
<1>1. n \in 1 .. Len(Sorted) + 1 /\ Len(Sorted) \in Nat /\ n \in Nat \ {0}
  <2>1. n \in 1 .. Len(Sorted) + 1 /\ Len(Sorted) \in Nat
    BY MenuIs, LotFacts
  <2> HIDE DEF n
  <2> QED BY <2>1
<1>2. /\ UNCHANGED <<table, items, headers, active>>
      /\ menu' = IF menu[k].open THEN [menu EXCEPT ![k].highlight = L!Moved(@, delta, n)]
                 ELSE L!Turned(menu, k, TRUE)
  BY DEF L!Arrow
<1>3. MenusFine(menu, headers)
  BY DEF LotInv
<1>4. CASE menu[k].open
  <2>1. menu[k] \in Menu /\ menu[k].highlight \in 1 .. n
    BY <1>3, <1>4 DEF MenusFine
  <2> DEFINE h == L!Moved(menu[k].highlight, delta, n)
             e == [menu[k] EXCEPT !.highlight = h]
  <2> HIDE DEF n
  <2>2. h \in 1 .. n
    BY <1>1, <2>1, MovedIs
  <2>3. menu' = [menu EXCEPT ![k] = e]
    BY <1>2, <1>4
  <2> HIDE DEF h
  <2>4. e \in Menu /\ e.highlight \in 1 .. n
    BY <1>1, <2>1, <2>2 DEF Menu
  <2> HIDE DEF e
  <2>5. menu' \in [L!Key -> Menu] /\ \A q \in L!Key : menu'[q] = IF q = k THEN e ELSE menu[q]
    BY <1>3, <2>3, <2>4 DEF MenusFine
  <2>6. MenusFine(menu', headers)
    BY <1>3, <2>4, <2>5 DEF MenusFine, n
  <2> QED BY <1>2, <2>6, PressedInv DEF LotInv
<1>5. CASE ~menu[k].open
  <2>1. MenusFine(menu', headers)
    BY <1>2, <1>3, <1>5, TurnedFine
  <2> QED BY <1>2, <2>1, PressedInv DEF LotInv
<1> QED BY <1>4, <1>5

LEMMA HoverInv ==
  ASSUME LotInv, NEW k \in L!Key, NEW i, L!Hover(k, i)
  PROVE  LotInv'
<1> DEFINE n == Len(L!MenuItems(headers, k))
           e == [menu[k] EXCEPT !.highlight = i]
<1>1. n \in 1 .. Len(Sorted) + 1 /\ Len(Sorted) \in Nat
  BY MenuIs, LotFacts
<1>2. UNCHANGED <<table, items, headers, active>> /\ menu' = [menu EXCEPT ![k] = e] /\ i \in 1 .. n
  BY DEF L!Hover
<1>3. MenusFine(menu, headers)
  BY DEF LotInv
<1>4. menu[k] \in Menu
  BY <1>3 DEF MenusFine
<1> HIDE DEF n
<1>5. e \in Menu /\ e.highlight \in 1 .. n
  BY <1>1, <1>2, <1>4 DEF Menu
<1> HIDE DEF e
<1>6. menu' \in [L!Key -> Menu] /\ \A q \in L!Key : menu'[q] = IF q = k THEN e ELSE menu[q]
  BY <1>2, <1>3, <1>5 DEF MenusFine
<1>7. MenusFine(menu', headers)
  BY <1>3, <1>5, <1>6 DEF MenusFine, n
<1> QED BY <1>2, <1>7, PressedInv DEF LotInv

LEMMA EnterInv ==
  ASSUME LotInv, NEW k \in L!Key, L!EnterOption(k)
  PROVE  LotInv' /\ (active' = None \/ active' = active)
<1> DEFINE list == L!MenuItems(headers, k)
           v == IF menu[k].highlight \in DOMAIN list THEN list[menu[k].highlight] ELSE All
<1>1. k \in L!VisibleKeys /\ L!FilterChange(k, v, FALSE)
  BY DEF L!EnterOption
<1>2. v = All \/ (v \in L!Range(Sorted) /\ v \in L!Range(L!FilterOptions(headers, k)))
  <2>1. DOMAIN list = 1 .. Len(list)
    BY MenuIs
  <2>2. \A i \in 1 .. Len(list) :
          list[i] = All \/ (list[i] \in L!Range(L!FilterOptions(headers, k)) /\ list[i] \in L!Range(Sorted))
    BY MenuIs
  <2> HIDE DEF list
  <2> QED BY <2>1, <2>2
<1> HIDE DEF v
<1> QED BY <1>1, <1>2, FilterChangeInv

LEMMA SelectInv ==
  ASSUME LotInv, NEW k \in L!Key, NEW i, L!SelectOption(k, i)
  PROVE  /\ LotInv' /\ (active' = None \/ active' = active)
         /\ headers' = [headers EXCEPT ![k] = L!MenuItems(headers, k)[i]]
         /\ L!FilterItems(headers') # {}
<1> DEFINE v == L!MenuItems(headers, k)[i]
<1>1. k \in L!VisibleKeys /\ i \in 1 .. Len(L!MenuItems(headers, k)) /\ L!FilterChange(k, v, TRUE)
  BY DEF L!SelectOption
<1>2. v = All \/ (v \in L!Range(Sorted) /\ v \in L!Range(L!FilterOptions(headers, k)))
  BY <1>1, MenuIs
<1> HIDE DEF v
<1>3. /\ LotInv' /\ (active' = None \/ active' = active)
      /\ headers' = [headers EXCEPT ![k] = v] /\ L!FilterItems(headers') # {}
  BY <1>1, <1>2, FilterChangeInv
<1> QED BY <1>3 DEF v

LEMMA LotInitInv == L!Init => LotInv
<1> SUFFICES ASSUME L!Init PROVE LotInv
  OBVIOUS
<1>1. FewRows /\ items \in IF table = "block" THEN [L!Row -> L!Blocks] ELSE [L!Row -> L!Cells]
  <2>1. PICK n \in 0 .. Rows : items \in [1 .. n -> IF table = "block" THEN L!Blocks ELSE L!Cells]
    BY DEF L!Init, L!ListsOf
  <2>2. L!Row = 1 .. n
    BY <2>1 DEF L!Row
  <2> QED BY <2>1, <2>2 DEF FewRows
<1>2. headers \in Filters
  BY DEF L!Init, L!Unfiltered, Filters
<1>3. MenusFine(menu, headers)
  <2>1. Len(Sorted) \in Nat
    BY LotFacts
  <2>2. [open |-> FALSE, highlight |-> 1] \in Menu
    BY <2>1 DEF Menu
  <2>3. menu = [k \in L!Key |-> [open |-> FALSE, highlight |-> 1]]
    BY DEF L!Init, L!Rest
  <2> QED BY <2>2, <2>3 DEF MenusFine
<1>4. L!Row # {} => L!FilterItems(headers) # {}
  BY AllShown DEF L!Init
<1> QED BY <1>1, <1>2, <1>3, <1>4 DEF LotInv, L!Init

(* Every step keeps it, and opens the dialog only by a row.                *)
LEMMA LotStep ==
  ASSUME LotInv, L!Next
  PROVE  /\ LotInv'
         /\ ~L!Dialog /\ L!Dialog' =>
              \E r \in L!Row, mouse \in BOOLEAN : L!OpenItem(r, mouse) \/ L!OpenLightboxAt(r, mouse)
<1>1. LotInv' => (L!Dialog' => active' # None) /\ (L!Dialog <=> active # None)
  BY ShownIs DEF LotInv, L!Dialog
<1>2. MenusFine(menu, headers) /\ (active = None \/ active \in ShownBy(headers))
  BY DEF LotInv
<1>3. ASSUME NEW k \in L!Key, NEW mouse \in BOOLEAN, L!Toggle(k, mouse)
      PROVE  LotInv' /\ active' = active
  <2>1. /\ menu' = L!Turned(L!Menus(mouse, {k}), k, ~menu[k].open)
        /\ UNCHANGED <<table, items, headers, active>>
    BY <1>3 DEF L!Toggle
  <2>2. MenusFine(menu', headers)
    <3>1. (~menu[k].open) \in BOOLEAN
      OBVIOUS
    <3>2. MenusFine(L!Menus(mouse, {k}), headers)
      BY <1>2, MenusShut
    <3> DEFINE open == ~menu[k].open
               m == L!Menus(mouse, {k})
    <3>3. menu' = L!Turned(m, k, open) /\ open \in BOOLEAN /\ MenusFine(m, headers)
      BY <2>1, <3>1, <3>2
    <3> HIDE DEF open, m
    <3> QED BY <3>3, TurnedFine
  <2> QED BY <1>2, <2>1, <2>2, PressedInv
<1>4. ASSUME NEW k \in L!Key, NEW delta \in {-1, 1}, L!Arrow(k, delta)
      PROVE  LotInv' /\ active' = active
  BY <1>4, ArrowInv DEF L!Arrow
<1>5. ASSUME NEW k \in L!Key, NEW i, L!Hover(k, i)
      PROVE  LotInv' /\ active' = active
  BY <1>5, HoverInv DEF L!Hover
<1>6. CASE L!PressOutside \/ L!Escape \/ L!Close
  <2>1. /\ menu' = L!Shut(menu, L!Key) /\ UNCHANGED <<table, items, headers>>
        /\ active' = None \/ active' = active
    BY <1>6 DEF L!PressOutside, L!Escape, L!Close
  <2>2. MenusFine(menu', headers)
    BY <1>2, <2>1, ShutFine
  <2>3. LotInv' /\ (active' = None \/ active' = active)
    BY <1>2, <2>1, <2>2, PressedInv
  <2> QED BY <1>1, <2>3
<1>7. ASSUME NEW r \in L!Row, NEW mouse \in BOOLEAN, L!OpenItem(r, mouse) \/ L!OpenLightboxAt(r, mouse)
      PROVE  LotInv'
  <2>1. CASE L!OpenItem(r, mouse)
    <3>1. active' \in ShownBy(headers) /\ menu' = L!Menus(mouse, {}) /\ UNCHANGED <<table, items, headers>>
      BY <2>1, ShownIs DEF L!OpenItem
    <3> QED BY <1>2, <3>1, MenusShut, PressedInv
  <2>2. CASE L!OpenLightboxAt(r, mouse)
    <3>1. active' \in ShownBy(headers) /\ UNCHANGED <<table, items, headers, menu>>
      BY <2>2 DEF L!OpenLightboxAt, ShownBy
    <3> QED BY <1>2, <3>1, PressedInv
  <2> QED BY <1>7, <2>1, <2>2
<1>8. ASSUME NEW next \in BOOLEAN, NEW mouse \in BOOLEAN, L!Navigate(next, mouse)
      PROVE  LotInv' /\ L!Dialog
  <2>1. /\ active' \in L!Shown /\ menu' = L!Menus(mouse, {}) /\ UNCHANGED <<table, items, headers>>
        /\ L!Dialog
    BY <1>8 DEF L!Navigate, L!Neighbour
  <2> QED BY <1>2, <2>1, ShownIs, MenusShut, PressedInv
<1>9. ASSUME NEW next \in BOOLEAN, L!NavigateBlock(next)
      PROVE  LotInv' /\ L!Dialog
  <2>1. active' \in ShownBy(headers) /\ UNCHANGED <<table, items, headers, menu>> /\ L!Dialog
    BY <1>9 DEF L!NavigateBlock, ShownBy
  <2> QED BY <1>2, <2>1, PressedInv
<1> QED BY <1>1, <1>3, <1>4, <1>5, <1>6, <1>7, <1>8, <1>9, LotReset, EnterInv, SelectInv DEF L!Next

LEMMA LotStays == ASSUME LotInv, UNCHANGED lot PROVE LotInv'
<1> QED BY LotNextInv DEF LotInv, lot

LEMMA LotTold == ASSUME LotInv, scene = "lot" PROVE RowsTold
<1>1. L!TypeOK
  <2>1. items \in L!ListsOf(L!Cells) \cup L!ListsOf(L!Blocks)
    <3>1. PICK n \in 0 .. Rows : L!Row = 1 .. n
      BY DEF LotInv, FewRows
    <3>2. items \in [1 .. n -> L!Cells] \/ items \in [1 .. n -> L!Blocks]
      BY <3>1 DEF LotInv
    <3> QED BY <3>2 DEF L!ListsOf
  <2>2. active \in L!Row \cup {None}
    <3>1. ShownBy(headers) \subseteq L!Row
      BY DEF ShownBy, L!FilterItems
    <3> QED BY <3>1 DEF LotInv
  <2>3. headers \in [L!Key -> L!Range(Sorted) \cup {All}]
    BY DEF LotInv, Filters
  <2>4. menu \in [L!Key -> [open : BOOLEAN, highlight : 1 .. Len(Sorted) + 1]]
    BY DEF LotInv, MenusFine, Menu
  <2> QED BY <2>1, <2>2, <2>3, <2>4 DEF L!TypeOK, LotInv
<1>2. L!HighlightOffered
  <2> SUFFICES ASSUME NEW k \in L!VisibleKeys, menu[k].open
               PROVE  menu[k].highlight \in DOMAIN L!MenuItems(headers, k)
    BY DEF L!HighlightOffered
  <2>1. k \in L!Key
    BY DEF L!VisibleKeys
  <2>2. menu[k].highlight \in 1 .. Len(L!MenuItems(headers, k))
    BY <2>1 DEF LotInv, MenusFine
  <2>3. DOMAIN L!MenuItems(headers, k) = 1 .. Len(L!MenuItems(headers, k))
    BY MenuIs
  <2> QED BY <2>2, <2>3
<1>3. L!StatusesAgree
  BY StatusAgrees DEF LotInv, L!StatusesAgree
<1>4. L!RangeCovers
  BY RangeIs DEF LotInv, L!RangeCovers
<1> QED BY <1>1, <1>2, <1>3, <1>4 DEF RowsTold

LotAlways == scene = "lot" => LotInv

LEMMA LotSceneInit == SceneInit => LotAlways
<1> QED BY LotInitInv DEF SceneInit, LotAlways

LEMMA LotSceneStep == LotAlways /\ [SceneNext]_<<scene, lot, shelf, ring>> => LotAlways'
<1> SUFFICES ASSUME LotAlways, [SceneNext]_<<scene, lot, shelf, ring>>, scene' = "lot" PROVE LotInv'
  BY DEF LotAlways
<1>1. CASE scene = "lot" /\ L!Next
  BY <1>1, LotStep DEF LotAlways
<1>2. CASE scene = "lot" /\ UNCHANGED lot
  BY <1>2, LotStays DEF LotAlways
<1> QED BY <1>1, <1>2 DEF SceneNext, lot

(* However the visitor sets filters, by mouse or by keyboard               *)
(* (lot-table.tsx, column-header-filter.tsx): an open menu highlights one  *)
(* of its entries; and what the page of a lot says of its blocks           *)
(* (block-utils.ts) agrees with the link to it and covers them all.        *)
THEOREM RowsAreTold == SceneSpec => []RowsTold
<1>1. LotAlways => RowsTold
  BY LotTold DEF LotAlways, RowsTold
<1> QED BY <1>1, LotSceneInit, LotSceneStep, PTL DEF SceneSpec

(* What is picked from a menu stays picked, takes no other column's value  *)
(* with it and leaves something to show (pruneFilters finds nothing to     *)
(* drop); and the dialog opens by a row only.                              *)
THEOREM PicksAlwaysStand == SceneSpec => PicksStand
<1>1. LotAlways /\ [SceneNext]_<<scene, lot, shelf, ring>> =>
        [\A k \in L!Key, i \in 1 .. Len(Sorted) + 1 :
           menu[k].open /\ ~menu'[k].open /\ L!SelectOption(k, i) =>
             /\ headers' = [headers EXCEPT ![k] = L!MenuItems(headers, k)[i]]
             /\ L!FilterItems(headers') # {}]_L!vars
  <2> SUFFICES ASSUME LotAlways, [SceneNext]_<<scene, lot, shelf, ring>>, ~UNCHANGED L!vars,
                      NEW k \in L!Key, NEW i \in 1 .. Len(Sorted) + 1, L!SelectOption(k, i)
               PROVE  /\ headers' = [headers EXCEPT ![k] = L!MenuItems(headers, k)[i]]
                      /\ L!FilterItems(headers') # {}
    OBVIOUS
  <2>1. LotInv
    BY DEF LotAlways, SceneNext, lot, L!vars
  <2> QED BY <2>1, SelectInv
<1>2. LotAlways /\ [SceneNext]_<<scene, lot, shelf, ring>> =>
        [~L!Dialog /\ L!Dialog' => \E r \in L!Row, mouse \in BOOLEAN :
                                     L!OpenItem(r, mouse) \/ L!OpenLightboxAt(r, mouse)]_L!vars
  <2> SUFFICES ASSUME LotAlways, [SceneNext]_<<scene, lot, shelf, ring>>, ~UNCHANGED L!vars,
                      ~L!Dialog, L!Dialog'
               PROVE  \E r \in L!Row, mouse \in BOOLEAN : L!OpenItem(r, mouse) \/ L!OpenLightboxAt(r, mouse)
    OBVIOUS
  <2>1. LotInv /\ L!Next
    BY DEF LotAlways, SceneNext, lot, L!vars
  <2> QED BY <2>1, LotStep
<1> QED BY <1>1, <1>2, LotSceneInit, LotSceneStep, PTL DEF SceneSpec, PicksStand, L!PickStands, L!OpensByRow
=============================================================================
