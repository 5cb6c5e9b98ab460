-------------------------------- MODULE Bell --------------------------------
(***************************************************************************)
(* The bell in the header above every page, with the notifications of the  *)
(* user (components/notification-dropdown.tsx).                            *)
(*                                                                         *)
(* It asks for its list whenever the user of the page changes, be it only  *)
(* his name, and drops the answer to an earlier question.  The marks are   *)
(* never dropped.  A request acts for whomever the browser's cookie names  *)
(* when it is served, who is not always whom the page shows.               *)
(***************************************************************************)
EXTENDS Naturals

CONSTANTS
  User,
  Note,      \* notifications that may be written
  Owner,     \* whom each is for
  Presses,   \* bound on what the user does
  None

BellAssumption ==
  Owner \in [Note -> User] /\ Presses \in Nat /\ None \notin User \cup Note

VARIABLES
  user,      \* whom the page shows, or None
  cookie,    \* whom the browser's session belongs to, or None
  coming,    \* the user of a login that is not answered yet, or None
  written,   \* notifications there are
  read,      \* and those of them marked in the database
  notifications, \* what the bell shows, marked or not
  loaded, error,
  asks,      \* requests under way
  failed,    \* history: the list was asked for this user in vain
  overtaken, \* history: the list came while a mark of all was under way
  presses

bell == <<written, read, notifications, loaded, error, asks, failed, overtaken>>
vars == <<user, cookie, coming, bell, presses>>

Press == presses < Presses /\ presses' = presses + 1

Unread == {i \in notifications : ~i.marked}
Shows(n) == [note |-> n, marked |-> n \in read]
-----------------------------------------------------------------------------
(***************************************************************************)
(* The user of the page, and the effect of the bell on him.                *)
(***************************************************************************)
(* Mutant of Live: the answer to an earlier question is taken all the same.*)
LiveAlways(rs) == rs

(* The clean-up of the effect: an earlier question is not listened to.     *)
Live(rs) == {[r EXCEPT !.live = (r.kind # "list")] : r \in rs}

Ask(rs, kind, n) ==
  rs \cup {[kind |-> kind, note |-> n, at |-> presses, live |-> TRUE, answer |-> "none", list |-> {}]}

Shown(u) ==
  /\ user' = u /\ error' = FALSE /\ failed' = FALSE /\ overtaken' = FALSE
  /\ IF u = None
     THEN notifications' = {} /\ loaded' = TRUE /\ asks' = Live(asks)
     ELSE loaded' = FALSE /\ asks' = Ask(Live(asks), "list", None) /\ UNCHANGED notifications
  /\ UNCHANGED <<written, read>>

(* The service has let the user in; the page does not know yet.  Whoever   *)
(* is shown is not offered to log in.  (How the answers of logins and      *)
(* logouts overtake each other is for Session.)                            *)
Login(u) ==
  /\ user = None /\ coming = None /\ Press
  /\ cookie' = u /\ coming' = u
  /\ UNCHANGED <<user, bell>>

(* The answer, which may be lost.                                          *)
LoggedIn ==
  /\ coming # None /\ coming' = None
  /\ \/ Shown(coming)
     \/ UNCHANGED <<user, bell>>
  /\ UNCHANGED <<cookie, presses>>

(* The profile was changed, or asked for again.                            *)
Refresh ==
  /\ user # None /\ cookie = user /\ coming = None /\ Press
  /\ Shown(user)
  /\ UNCHANGED <<cookie, coming>>

(* The page lets the user go before the service does.                      *)
Logout ==
  /\ user # None /\ Press
  /\ Shown(None)
  /\ UNCHANGED <<cookie, coming>>

LoggedOut ==
  /\ user = None /\ coming = None /\ cookie # None /\ cookie' = None
  /\ UNCHANGED <<user, coming, bell, presses>>

(***************************************************************************)
(* Marks.                                                                  *)
(***************************************************************************)
Mark(kind, n) ==
  /\ user # None /\ Press
  /\ error' = FALSE
  /\ asks' = Ask(asks, kind, n)
  /\ UNCHANGED <<user, cookie, coming, written, read, notifications, loaded, failed, overtaken>>

MarkAll == Unread # {} /\ Mark("all", None)
MarkOne(n) == (\E i \in Unread : i.note = n) /\ Mark("one", n)

(* The service: the request acts for the user of the session it comes with.*)
Of(u) == {n \in written : Owner[n] = u}
Allowed(r) == cookie # None /\ (r.kind = "one" => r.note \in Of(cookie))
Marked(r) ==
  CASE r.kind = "list" -> {}
    [] r.kind = "one" -> {r.note}
    [] r.kind = "all" -> Of(cookie)

Put(r, answer, list) == asks' = (asks \ {r}) \cup {[r EXCEPT !.answer = answer, !.list = list]}

Served(r) ==
  /\ r.answer = "none"
  /\ \/ /\ Allowed(r)
        /\ read' = read \cup Marked(r)
        /\ Put(r, "ok", IF r.kind = "list" THEN {Shows(n) : n \in Of(cookie)} ELSE {})
     \/ UNCHANGED read /\ Put(r, "error", {})
  /\ UNCHANGED <<user, cookie, coming, written, notifications, loaded, error, failed, overtaken, presses>>

Write(n) ==
  /\ n \notin written /\ written' = written \cup {n}
  /\ UNCHANGED <<user, cookie, coming, read, notifications, loaded, error, asks, failed, overtaken, presses>>

(* Mutant of Taken: a mark that was refused is shown all the same.         *)
TakenAlways(r) ==
  IF r.kind = "list" THEN IF r.answer = "error" THEN notifications ELSE r.list
  ELSE {IF r.kind = "all" \/ i.note = r.note THEN [i EXCEPT !.marked = TRUE] ELSE i : i \in notifications}

(* What the bell shows after an answer.                                    *)
Taken(r) ==
  IF r.answer = "error" THEN notifications
  ELSE IF r.kind = "list" THEN r.list
  ELSE {IF r.kind = "all" \/ i.note = r.note THEN [i EXCEPT !.marked = TRUE] ELSE i : i \in notifications}

(* Mutant of Arrived: only a list that came ends the wait.                 *)
ArrivedWell(r) == loaded \/ (r.kind = "list" /\ r.answer # "error")

Arrived(r) == loaded \/ r.kind = "list"

Answered(r) ==
  /\ r.answer # "none"
  /\ asks' = asks \ {r}
  /\ IF r.live
     THEN /\ notifications' = Taken(r) /\ loaded' = Arrived(r)
          /\ error' = (error \/ r.answer = "error")
          /\ failed' = (failed \/ (r.kind = "list" /\ r.answer = "error"))
          /\ overtaken' = (overtaken \/ (r.kind = "list" /\ \E q \in asks : q.kind = "all"))
     ELSE UNCHANGED <<notifications, loaded, error, failed, overtaken>>
  /\ UNCHANGED <<user, cookie, coming, written, read, presses>>
-----------------------------------------------------------------------------
(* The page is ready: the answer of the first me is there.                 *)
Init ==
  /\ user \in User \cup {None} /\ cookie = user /\ coming = None
  /\ written \in SUBSET Note /\ read \in SUBSET written
  /\ notifications = {} /\ loaded = (user = None) /\ error = FALSE
  /\ asks = IF user = None THEN {}
            ELSE {[kind |-> "list", note |-> None, at |-> 0, live |-> TRUE, answer |-> "none", list |-> {}]}
  /\ failed = FALSE /\ overtaken = FALSE /\ presses = 0

Next ==
  \/ \E u \in User : Login(u)
  \/ LoggedIn \/ Refresh \/ Logout \/ LoggedOut
  \/ MarkAll \/ \E n \in Note : MarkOne(n) \/ Write(n)
  \/ \E r \in asks : Served(r) \/ Answered(r)

(* Every request of the bell is answered in the end.                       *)
Fairness == WF_vars(\E r \in asks : Served(r)) /\ WF_vars(\E r \in asks : Answered(r))
Spec == Init /\ [][Next]_vars /\ Fairness
-----------------------------------------------------------------------------
Item == [note : Note, marked : BOOLEAN]
Asks == [kind : {"list", "one", "all"}, note : Note \cup {None}, at : 0 .. Presses, live : BOOLEAN,
         answer : {"none", "ok", "error"}, list : SUBSET Item]

TypeOK ==
  /\ {user, cookie, coming} \subseteq User \cup {None}
  /\ written \subseteq Note /\ read \subseteq written
  /\ notifications \subseteq Item
  /\ asks \subseteq Asks /\ presses \in 0 .. Presses
  /\ {loaded, error, failed, overtaken} \subseteq BOOLEAN

(* The page shows whom the service knows, and has a list for him.          *)
Settled == user = cookie /\ coming = None /\ loaded /\ ~failed

(* Nobody sees what is written to another, whoever logs in and out, and    *)
(* however late a list comes.  While his own list is on its way, or after  *)
(* it failed, he does: setNotifications is not called for either.          *)
OwnNotes == Settled => \A i \in notifications : Owner[i.note] = user

(* What the bell shows as marked is marked in the database, although the   *)
(* marks are put on whatever it shows when they are answered: unless a     *)
(* list came while a mark of all was under way.                            *)
MarkedIsRead == Settled /\ ~overtaken => \A i \in notifications : i.marked => i.note \in read

(* What the bell shows is the user's own, and marked as it says.           *)
NotesTrue == OwnNotes /\ MarkedIsRead

(* The bell is a list that belongs to the user of the page (Feed): however *)
(* its questions, marks and answers overtake each other, the list comes or *)
(* fails once for every user, is his, and stays what it became; and the    *)
(* answers it drops leave nobody waiting.                                  *)
View ==
  IF user = None THEN "nobody"
  ELSE IF ~loaded THEN "waiting"
  ELSE IF failed THEN "failed" ELSE "shown"
Promise == INSTANCE Feed WITH view <- View, whose <- {Owner[i.note] : i \in notifications}
KeepsPromise == Promise!Spec
=============================================================================
