------------------------------ MODULE Inquiry ------------------------------
(***************************************************************************)
(* The inquiry a visitor puts together (lib/inquiry-draft.ts): a draft per  *)
(* user in localStorage, which all tabs share, a line that waits for its   *)
(* guest to log in, in the sessionStorage of one tab, and the form on the  *)
(* contacts page (inquiry-form.tsx), which copies the draft and sends it.  *)
(*                                                                         *)
(* A handler or an effect runs to its end before another does, in any tab. *)
(* Writes to storage fail while it is full.  The name in the form is left  *)
(* out.                                                                    *)
(***************************************************************************)
EXTENDS FiniteSets, Naturals

CONSTANTS
  User, Tab, Line,
  Slot,      \* requests under way at a time
  Steps,     \* bound on the steps of the visitors
  MayFill,   \* storage may fill up
  None

InquiryAssumption ==
  /\ None \notin User \cup Line \cup Slot \cup Tab /\ IsFiniteSet(Tab)
  /\ Steps \in Nat /\ MayFill \in BOOLEAN

VARIABLES
  draft,     \* localStorage: the draft of each user
  full,      \* storage takes no more writes
  tab,       \* what each tab shows, and its sessionStorage
  holder,    \* whose session the browser holds
  verified,  \* users with a verified address
  send,      \* inquiries under way
  asked,     \* history: the lines each user asked for
  waited,    \* history: lines asked for by guests, and how many of them were attached
  steps      \* bound

vars == <<draft, full, tab, holder, verified, send, asked, waited, steps>>

EmptyDraft == [message |-> FALSE, lines |-> {}]
NoSend == [user |-> None, tab |-> None, lines |-> {}, phase |-> "idle"]
Opened == [user |-> None, verified |-> FALSE, at |-> "other", modal |-> FALSE, pending |-> None,
           message |-> FALSE, lines |-> {}, sending |-> None]

(* Mutant of Written: the key of a draft leaves its user out.              *)
WrittenShared(d, u, value) == IF full THEN d ELSE [x \in User |-> value]

(* writeJson: a write that fails is let go.                                *)
Written(d, u, value) == IF full THEN d ELSE [d EXCEPT ![u] = value]
AddLine(d, u, l) == Written(d, u, [d[u] EXCEPT !.lines = @ \cup {l}])
RemoveLine(d, u, l) == Written(d, u, [d[u] EXCEPT !.lines = @ \ {l}])
ResetDraft(d, u) == Written(d, u, EmptyDraft)

(* Mutant of Persist: the lines come from the form, not from the storage.  *)
PersistForm(d, t, message) ==
  Written(d, t.user, [message |-> message, lines |-> t.lines])

(* What is typed is stored beside the lines the storage holds by now.      *)
Persist(d, t, message) == Written(d, t.user, [d[t.user] EXCEPT !.message = message])

(* The effect that fills the form: with the draft of the user, or nothing. *)
Filled(t, d) ==
  IF t.user = None THEN [t EXCEPT !.message = FALSE, !.lines = {}]
  ELSE [t EXCEPT !.message = d[t.user].message, !.lines = d[t.user].lines]

(* A page is entered: its form is new, and the dialog closes, but the line *)
(* that waits stays.                                                       *)
Entered(t, page) ==
  IF t.at = page THEN t
  ELSE [t EXCEPT !.at = page, !.modal = FALSE, !.sending = None, !.message = FALSE, !.lines = {}]

(* Mutant of Taken: the line stays in sessionStorage.                      *)
TakenKept(t) == t

(* takePendingInquiry.                                                     *)
Taken(t) == [t EXCEPT !.pending = None]

(* Tab t changes to n.  Of the effects that follow the form's runs first,  *)
(* being deeper in the page; then InquiryDraftSync gives the line that     *)
(* waits to a user with a verified address and goes to the form.  A form   *)
(* that was there already does not see the line.                           *)
Becomes(t, n, d) ==
  LET shown == IF n.at = "contacts" THEN Filled(n, d) ELSE n
      attaches == n.user # None /\ n.verified /\ n.pending # None
      added == AddLine(d, n.user, n.pending)
      after == Entered(Taken(shown), "contacts") IN
  IF attaches
  THEN /\ draft' = added
       /\ tab' = [tab EXCEPT ![t] = IF n.at = "contacts" THEN after ELSE Filled(after, added)]
       /\ asked' = [asked EXCEPT ![n.user] = @ \cup {n.pending}]
       /\ waited' = [waited EXCEPT !.attached = @ + 1]
  ELSE /\ draft' = d /\ tab' = [tab EXCEPT ![t] = shown]
       /\ UNCHANGED <<asked, waited>>

Step == steps < Steps /\ steps' = steps + 1
Kept == UNCHANGED <<full, holder, verified, send>>

Init ==
  /\ draft = [u \in User |-> EmptyDraft]
  /\ full = FALSE
  /\ tab = [t \in Tab |-> Opened]
  /\ holder = None
  /\ verified \in SUBSET User
  /\ send = [x \in Slot |-> NoSend]
  /\ asked = [u \in User |-> {}]
  /\ waited = [lines |-> 0, attached |-> 0]
  /\ steps = 0

(***************************************************************************)
(* Asking for a line, beside a block, a slab or a variant.                 *)
(***************************************************************************)
RequestAsGuest(t, l) ==
  /\ tab[t].user = None /\ tab[t].at = "other" /\ Step
  /\ IF full THEN UNCHANGED waited
     ELSE waited' = [waited EXCEPT !.lines = @ + 1]
  /\ tab' = [tab EXCEPT ![t].pending = IF full THEN @ ELSE l, ![t].modal = TRUE]
  /\ UNCHANGED <<draft, asked>> /\ Kept

RequestAsMember(t, l) ==
  LET u == tab[t].user
      d == AddLine(draft, u, l) IN
  /\ u # None /\ tab[t].at = "other" /\ Step
  /\ draft' = d
  /\ tab' = [tab EXCEPT ![t] = Filled(Entered(@, "contacts"), d)]
  /\ asked' = [asked EXCEPT ![u] = @ \cup {l}]
  /\ UNCHANGED waited /\ Kept

(***************************************************************************)
(* Who visits, and where.                                                  *)
(***************************************************************************)
OpenLogin(t) ==
  /\ tab[t].user = None /\ ~tab[t].modal /\ Step
  /\ tab' = [tab EXCEPT ![t].modal = TRUE]
  /\ UNCHANGED <<draft, asked, waited>> /\ Kept

(* Closing the dialog by hand gives up the line that waits.                *)
Dismiss(t) ==
  /\ tab[t].modal /\ Step
  /\ tab' = [tab EXCEPT ![t].modal = FALSE, ![t].pending = None]
  /\ UNCHANGED <<draft, asked, waited>> /\ Kept

Visit(t, page) ==
  /\ tab[t].at # page /\ Step
  /\ Becomes(t, Entered(tab[t], page), draft) /\ Kept

LogIn(t, u) ==
  LET n == [tab[t] EXCEPT !.user = u, !.verified = u \in verified] IN
  /\ tab[t].user = None /\ tab[t].modal /\ Step
  /\ holder' = u
  /\ Becomes(t, IF n.verified THEN [n EXCEPT !.modal = FALSE] ELSE Entered(n, "other"), draft)
  /\ UNCHANGED <<full, verified, send>>

LogOut(t) ==
  /\ tab[t].user # None /\ Step
  /\ holder' = None
  /\ Becomes(t, Entered([tab[t] EXCEPT !.user = None, !.verified = FALSE], "other"), draft)
  /\ UNCHANGED <<full, verified, send>>

(* The tab learns who holds the session by now; its requests lose their    *)
(* tab.                                                                    *)
Reload(t) ==
  /\ Step
  /\ Becomes(t, [Opened EXCEPT !.at = tab[t].at, !.pending = tab[t].pending, !.user = holder,
                               !.verified = holder \in verified], draft)
  /\ send' = [x \in Slot |-> IF send[x].tab = t THEN [send[x] EXCEPT !.tab = None] ELSE send[x]]
  /\ UNCHANGED <<full, holder, verified>>

(* The link of a letter is followed, on whatever device.                   *)
VerifyEmail(u) ==
  /\ u \notin verified /\ Step
  /\ verified' = verified \cup {u}
  /\ UNCHANGED <<draft, full, tab, holder, send, asked, waited>>

Fill ==
  /\ MayFill /\ Step /\ full' = ~full
  /\ UNCHANGED <<draft, tab, holder, verified, send, asked, waited>>

(***************************************************************************)
(* The form.                                                               *)
(***************************************************************************)
AtForm(t) == tab[t].at = "contacts"
Editable(t) == AtForm(t) /\ tab[t].sending = None

TypeMessage(t, message) ==
  /\ Editable(t) /\ tab[t].message # message /\ Step
  /\ tab' = [tab EXCEPT ![t].message = message]
  /\ draft' = IF tab[t].user = None THEN draft ELSE Persist(draft, tab[t], message)
  /\ UNCHANGED <<asked, waited>> /\ Kept

(* The button of a line stays enabled while the form is being sent.        *)
Remove(t, l) ==
  LET u == tab[t].user
      now == [draft[u] EXCEPT !.lines = @ \ {l}] IN
  /\ AtForm(t) /\ u # None /\ l \in tab[t].lines /\ Step
  /\ draft' = RemoveLine(draft, u, l)
  /\ tab' = [tab EXCEPT ![t].lines = now.lines]
  /\ UNCHANGED <<asked, waited>> /\ Kept

Reset(t) ==
  /\ Editable(t) /\ (tab[t].lines # {} \/ tab[t].message) /\ Step
  /\ draft' = IF tab[t].user = None THEN draft ELSE ResetDraft(draft, tab[t].user)
  /\ tab' = [tab EXCEPT ![t].message = FALSE, ![t].lines = {}]
  /\ UNCHANGED <<asked, waited>> /\ Kept

SubmitAsGuest(t) ==
  /\ Editable(t) /\ tab[t].user = None /\ ~tab[t].modal /\ Step
  /\ tab' = [tab EXCEPT ![t].modal = TRUE]
  /\ UNCHANGED <<draft, asked, waited>> /\ Kept

Submit(t, x) ==
  /\ Editable(t) /\ tab[t].user # None /\ send[x] = NoSend /\ Step
  /\ tab[t].message \/ tab[t].lines # {}
  /\ send' = [send EXCEPT ![x] = [user |-> tab[t].user, tab |-> t, lines |-> tab[t].lines,
                                  phase |-> "sent"]]
  /\ tab' = [tab EXCEPT ![t].sending = x]
  /\ UNCHANGED <<draft, full, holder, verified, asked, waited>>

(* The mail goes out in the name of whoever holds the session.             *)
Deliver(x) ==
  /\ send[x].phase = "sent" /\ holder # None
  /\ send' = [send EXCEPT ![x].phase = "served"]
  /\ UNCHANGED <<draft, full, tab, holder, verified, asked, waited, steps>>

(* Mutant of Ended: a failure that is not an answer leaves the form busy.  *)
EndedOk(t, x, ok) ==
  IF tab[t].sending # x \/ ~ok THEN tab
  ELSE [tab EXCEPT ![t].sending = None, ![t].message = FALSE, ![t].lines = {}]

(* The form that sent is released, and emptied if all went well.           *)
Ended(t, x, ok) ==
  IF tab[t].sending # x THEN tab
  ELSE IF ok THEN [tab EXCEPT ![t].sending = None, ![t].message = FALSE, ![t].lines = {}]
  ELSE [tab EXCEPT ![t].sending = None]

(* A send that succeeds empties the draft as it is by now, even when the   *)
(* form that sent it has gone or another user has come.                    *)
Succeed(x) ==
  LET t == send[x].tab IN
  /\ send[x].phase = "served"
  /\ IF t = None THEN UNCHANGED <<draft, tab>>
     ELSE draft' = ResetDraft(draft, send[x].user) /\ tab' = Ended(t, x, TRUE)
  /\ send' = [send EXCEPT ![x] = NoSend]
  /\ UNCHANGED <<full, holder, verified, asked, waited, steps>>

(* Refused, lost, or broken off: contentRequest throws in every case.      *)
Fail(x) ==
  LET t == send[x].tab IN
  /\ send[x] # NoSend
  /\ tab' = IF t = None THEN tab ELSE Ended(t, x, FALSE)
  /\ send' = [send EXCEPT ![x] = NoSend]
  /\ UNCHANGED <<draft, full, holder, verified, asked, waited, steps>>

Next ==
  \/ \E t \in Tab :
       \/ \E l \in Line : RequestAsGuest(t, l) \/ RequestAsMember(t, l) \/ Remove(t, l)
       \/ OpenLogin(t) \/ Dismiss(t) \/ LogOut(t) \/ Reload(t)
       \/ \E page \in {"other", "contacts"} : Visit(t, page)
       \/ \E u \in User : LogIn(t, u)
       \/ \E message \in BOOLEAN : TypeMessage(t, message)
       \/ Reset(t) \/ SubmitAsGuest(t)
       \/ \E x \in Slot : Submit(t, x)
  \/ \E x \in Slot : Deliver(x) \/ Succeed(x) \/ Fail(x)
  \/ \E u \in User : VerifyEmail(u)
  \/ Fill

(* A request ends, one way or another.                                     *)
Fairness == \A x \in Slot : WF_vars(Succeed(x) \/ Fail(x))
Spec == Init /\ [][Next]_vars /\ Fairness
-----------------------------------------------------------------------------
Drafts == [message : BOOLEAN, lines : SUBSET Line]
Rows == [user : User \cup {None}, verified : BOOLEAN, at : {"other", "contacts"}, modal : BOOLEAN,
         pending : Line \cup {None}, message : BOOLEAN, lines : SUBSET Line,
         sending : Slot \cup {None}]
Sends == [user : User \cup {None}, tab : Tab \cup {None}, lines : SUBSET Line,
          phase : {"idle", "sent", "served"}]

TypeOK ==
  /\ draft \in [User -> Drafts]
  /\ full \in BOOLEAN
  /\ tab \in [Tab -> Rows]
  /\ holder \in User \cup {None}
  /\ verified \in SUBSET User
  /\ send \in [Slot -> Sends]
  /\ asked \in [User -> SUBSET Line]
  /\ waited \in [lines : Nat, attached : Nat]
  /\ steps \in 0 .. Steps

(* Drafts of different users are kept apart: a user's draft, the form that *)
(* shows it and what is sent from it hold only lines he asked for, though  *)
(* users change in a tab, tabs overlap and answers come late.  A guest's   *)
(* form holds none.                                                        *)
OwnLinesOnly ==
  /\ \A u \in User : draft[u].lines \subseteq asked[u]
  /\ \A t \in Tab : tab[t].lines \subseteq IF tab[t].user = None THEN {} ELSE asked[tab[t].user]
  /\ \A x \in Slot : send[x] # NoSend => send[x].lines \subseteq asked[send[x].user]

(* A line that waits for a login is attached once: there are no more lines *)
(* attached or waiting than guests have asked for.                         *)
TakenOnce ==
  waited.attached + Cardinality({t \in Tab : tab[t].pending # None}) <= waited.lines

Leaves(u, l) == l \in draft[u].lines /\ l \notin draft'[u].lines

(* A line leaves a draft when its user removes it, resets the draft, or    *)
(* gets an inquiry sent; typing in one tab never undoes what another tab   *)
(* has added.                                                              *)
LinesLeaveByAct ==
  [][\A u \in User, l \in Line : Leaves(u, l) =>
       \/ \E t \in Tab : tab[t].user = u /\ (Remove(t, l) \/ Reset(t))
       \/ \E x \in Slot : send[x].user = u /\ Succeed(x)]_vars

(* A form being sent can be used again, or is gone, whatever the answer.   *)
FormsComeBack == \A t \in Tab : tab[t].sending # None ~> tab[t].sending = None
=============================================================================
