------------------------------ MODULE Session -------------------------------
(***************************************************************************)
(* Whom a browser tab takes its visitor for (lib/auth-context.tsx), with   *)
(* the forms that sign in and out, the dialog they open in, and the pages  *)
(* only guests or only members see.                                        *)
(*                                                                         *)
(* A call is sent, served by the backend, and answered; other calls may be *)
(* sent, served and answered at every point in between.  What the page     *)
(* does with an answer, the redirections that follow included, is one      *)
(* step.  A call outlives the form that made it, and the tab.  The backend *)
(* is what the routes promise: sessions, members, verified addresses.      *)
(***************************************************************************)
EXTENDS FiniteSets, Naturals

CONSTANTS
  User, SessionId,
  Call,       \* calls under way at a time
  Ops,        \* the operations an instance exercises
  Asks,       \* steps of the visitor
  None

ASSUME SessionAssumption ==
  /\ None \notin User \cup SessionId
  /\ {"keep", "drop"} \cap SessionId = {} /\ SessionId # {}
  /\ Asks \in Nat

VARIABLES
  server,  \* owner of each living session, members, verified members
  cookie,  \* the session the browser holds
  tab,     \* what the tab shows
  call,    \* calls under way
  clean,   \* history: since the tab was loaded, no call overlapped another
           \* or failed
  torn,    \* history: an answer broke off in its body
  asks     \* bound

vars == <<server, cookie, tab, call, clean, torn, asks>>

Guest == [id |-> None, verified |-> FALSE]
Idle == [kind |-> "none", phase |-> "idle", session |-> None, who |-> None,
         place |-> "none", gone |-> FALSE, ok |-> FALSE, user |-> Guest, jar |-> "keep"]

GuestPages == {"login", "register", "yandex", "forgot"}
MemberPages == {"profile", "studio"}
OpenPages == {"home", "verify", "reset"}
Pages == GuestPages \cup MemberPages \cup OpenPages

(* A new page: its form is new, and the dialog closes with the old path.   *)
Open(t, page) ==
  IF page = t.page THEN t
  ELSE [t EXCEPT !.page = page, !.view = "none", !.status = "pending",
                 !.link = None, !.busy = [place \in {"page", "modal"} |-> None]]

AfterLogin(user) == IF user.verified THEN "profile" ELSE "verify"

(* GuestOnly and RequireAuth send the visitor elsewhere.                   *)
Guarded(t) ==
  IF ~t.ready THEN t
  ELSE IF t.page \in GuestPages /\ t.user # Guest THEN Open(t, AfterLogin(t.user))
  ELSE IF t.page \in MemberPages /\ t.user = Guest THEN Open(t, "login")
  ELSE IF t.page = "studio" /\ ~t.user.verified THEN Open(t, "verify")
  ELSE t

(* The panel of a verified member says so, unless it has a link to check.  *)
Settled(t) ==
  LET g == Guarded(t) IN
  IF g.page = "verify" /\ g.status = "pending" /\ g.link = None /\ g.user.verified
  THEN [g EXCEPT !.status = "confirmed"] ELSE g

Quiet == \A c \in Call : call[c] = Idle
Free(c) == (\E d \in Call : call[d] = Idle) /\ c = CHOOSE d \in Call : call[d] = Idle
Request(kind, who, place) ==
  [Idle EXCEPT !.kind = kind, !.phase = "sent", !.session = cookie,
               !.who = who, !.place = place]

Loaded(page) == [ready |-> FALSE, user |-> Guest, view |-> "none", page |-> page,
                 inbox |-> FALSE, offers |-> 0, status |-> "pending", link |-> None,
                 busy |-> [place \in {"page", "modal"} |-> None]]

(* A browser that comes for the first time, or with the session of a      *)
(* member from an earlier visit.                                           *)
Init ==
  \E members \in SUBSET User, verified \in SUBSET User, holder \in User \cup {None}, page \in Pages :
    LET s == CHOOSE x \in SessionId : TRUE
        c == CHOOSE d \in Call : TRUE IN
    /\ verified \subseteq members /\ holder \in members \cup {None}
    /\ server = [owner |-> [x \in SessionId |-> IF x = s THEN holder ELSE None],
                 members |-> members, verified |-> verified]
    /\ cookie = (IF holder = None THEN None ELSE s)
    /\ tab = Loaded(page)
    /\ call = [d \in Call |-> IF d = c THEN [Idle EXCEPT !.kind = "me", !.phase = "sent",
                                                         !.session = cookie] ELSE Idle]
    /\ clean = TRUE /\ torn = FALSE /\ asks = 0

(***************************************************************************)
(* The visitor.                                                            *)
(***************************************************************************)
Unserved == UNCHANGED <<server, cookie, torn>>
Asked == asks < Asks /\ asks' = asks + 1

Send(c, kind, who, place) ==
  /\ kind \in Ops /\ Free(c) /\ Asked
  /\ call' = [call EXCEPT ![c] = Request(kind, who, place)]
  /\ clean' = (clean /\ Quiet)
  /\ Unserved

(* A form in its place is submitted, and its button disabled.              *)
Submit(c, kind, who, place) ==
  /\ tab.busy[place] = None
  /\ Send(c, kind, who, place)
  /\ tab' = [tab EXCEPT !.busy[place] = c]

OnGuestPage(page) == tab.page = page /\ tab.ready /\ tab.user = Guest

LoginSubmit(c, u) ==
  \/ OnGuestPage("login") /\ Submit(c, "login", u, "page")
  \/ tab.view = "login" /\ Submit(c, "login", u, "modal")

RegisterSubmit(c, u) ==
  \/ OnGuestPage("register") /\ Submit(c, "register", u, "page")
  \/ tab.view = "register" /\ Submit(c, "register", u, "modal")

YandexSubmit(c, u) == OnGuestPage("yandex") /\ Submit(c, "yandex", u, "page")
ForgotSubmit(c) == OnGuestPage("forgot") /\ Submit(c, "forgot", None, "page")
ResetSubmit(c, u) == tab.page = "reset" /\ Submit(c, "reset", u, "page")
ProfileSubmit(c) ==
  tab.page = "profile" /\ tab.ready /\ tab.user # Guest /\ Submit(c, "profile", None, "page")

(* While it checks a link the panel shows nothing to press.                *)
PanelOpen == tab.page = "verify" /\ tab.ready /\ tab.user # Guest
Resend(c) ==
  PanelOpen /\ tab.status \in {"pending", "error"} /\ Submit(c, "resend", None, "page")
ChangeEmail(c) == PanelOpen /\ tab.status = "pending" /\ Submit(c, "change", None, "page")

(* An avatar is uploaded or removed beside the form, then the user is read.*)
Avatar(c) ==
  /\ tab.page = "profile" /\ tab.ready /\ tab.user # Guest
  /\ Send(c, "avatar", None, "none")
  /\ UNCHANGED tab

(* logout forgets the visitor first and calls the backend after.           *)
Logout(c) ==
  /\ tab.ready /\ tab.user # Guest
  /\ Send(c, "logout", None, "none")
  /\ tab' = Settled(Open([tab EXCEPT !.user = Guest, !.inbox = FALSE], "home"))

(* useRequireLogin and the header open the dialog before the tab is ready. *)
OpenModal(view) ==
  /\ tab.view # view /\ (tab.user = Guest \/ tab.view # "none")
  /\ tab' = [tab EXCEPT !.view = view, !.busy["modal"] = None]
  /\ UNCHANGED <<call, clean>> /\ Asked /\ Unserved

CloseModal ==
  /\ tab.view # "none"
  /\ tab' = [tab EXCEPT !.view = "none", !.busy["modal"] = None]
  /\ UNCHANGED <<call, clean>> /\ Asked /\ Unserved

Navigate(page) ==
  /\ page # tab.page
  /\ tab' = Settled(Open(tab, page))
  /\ UNCHANGED <<call, clean>> /\ Asked /\ Unserved

Abandoned == [d \in Call |-> IF call[d] = Idle THEN Idle ELSE [call[d] EXCEPT !.gone = TRUE, !.place = "none"]]

(* The tab is loaded anew, by hand or by the link of a letter, to reset a  *)
(* password or to verify the address of u.  The page with a link verifies  *)
(* it without waiting for me().                                            *)
Load(page) ==
  /\ Asked /\ page \in {tab.page, "reset"}
  /\ tab' = Loaded(page)
  /\ \E c \in Call : Free(c) /\ call' = [Abandoned EXCEPT ![c] = Request("me", None, "none")]
  /\ clean' = Quiet
  /\ UNCHANGED <<server, cookie, torn>>

LoadLink(u) ==
  /\ "verify" \in Ops /\ u \in server.members
  /\ Asked
  /\ \E c, d \in Call :
       /\ tab' = [Loaded("verify") EXCEPT !.status = "confirming", !.link = c]
       /\ c # d /\ Free(c) /\ call[d] = Idle
       /\ call' = [Abandoned EXCEPT ![c] = Request("verify", u, "none"),
                                    ![d] = Request("me", None, "none")]
  /\ clean' = FALSE
  /\ UNCHANGED <<server, cookie, torn>>

(* The panel itself offers the link: the address changes and the panel    *)
(* stays, with its form.                                                   *)
FollowLink(c) ==
  /\ PanelOpen /\ tab.status = "pending" /\ tab.inbox
  /\ Send(c, "verify", tab.user.id, "none")
  /\ tab' = [tab EXCEPT !.link = c]

(***************************************************************************)
(* The backend.                                                            *)
(***************************************************************************)
OwnerOf(s) == IF s \in SessionId THEN server.owner[s] ELSE None
Public(srv, u) == IF u = None THEN Guest ELSE [id |-> u, verified |-> u \in srv.verified]

Held == {cookie} \cup {call[d].session : d \in Call} \cup {call[d].jar : d \in Call}
NewSession == {s \in SessionId : server.owner[s] = None /\ s \notin Held}

Serves(c, srv, ok, user, jar) ==
  /\ server' = srv
  /\ call' = [call EXCEPT ![c] = [@ EXCEPT !.phase = "served", !.session = None, !.ok = ok, !.user = user, !.jar = jar]]
  /\ UNCHANGED <<cookie, tab, clean, torn, asks>>

(* A session for u in the place of the session the call came with.         *)
Opens(c, u, srv, old) ==
  \E s \in NewSession :
    LET now == [srv EXCEPT !.owner = [x \in SessionId |->
                  IF x = s THEN u ELSE IF x = old THEN None ELSE @[x]]] IN
    Serves(c, now, TRUE, Public(now, u), s)

Refuse(c) ==
  /\ call[c].phase = "sent"
  /\ Serves(c, server, FALSE, Guest, "keep")

ServeMe(c) ==
  /\ call[c].phase = "sent" /\ call[c].kind \in {"me", "refresh"}
  /\ Serves(c, server, TRUE, Public(server, OwnerOf(call[c].session)), "keep")

ServeEntry(c) ==
  LET u == call[c].who IN
  /\ call[c].phase = "sent"
  /\ \/ call[c].kind = "login" /\ u \in server.members /\ Opens(c, u, server, None)
     \/ /\ call[c].kind = "register" /\ u \notin server.members
        /\ Opens(c, u, [server EXCEPT !.members = @ \cup {u}], None)
     \/ /\ call[c].kind = "yandex" /\ u \notin server.members
        /\ Opens(c, u, [server EXCEPT !.members = @ \cup {u}, !.verified = @ \cup {u}], None)

ServeVerify(c) ==
  LET u == call[c].who
      srv == [server EXCEPT !.verified = @ \cup {u}] IN
  /\ call[c].phase = "sent" /\ call[c].kind = "verify" /\ u \in server.members
  /\ IF OwnerOf(call[c].session) = u THEN Serves(c, srv, TRUE, Public(srv, u), "keep")
     ELSE Opens(c, u, srv, call[c].session)

ServeMember(c) ==
  LET u == OwnerOf(call[c].session)
      srv == IF call[c].kind = "change" THEN [server EXCEPT !.verified = @ \ {u}] ELSE server IN
  /\ call[c].phase = "sent" /\ call[c].kind \in {"profile", "resend", "change", "avatar"}
  /\ u # None
  /\ Serves(c, srv, TRUE, Public(srv, u), "keep")

(* reset-password ends every session of u, logout the one it came with,    *)
(* and both take the cookie away, whosever it is.                          *)
ServeEnd(c) ==
  LET ends(s) == IF call[c].kind = "logout" THEN s = call[c].session
                 ELSE server.owner[s] = call[c].who IN
  /\ call[c].phase = "sent" /\ call[c].kind \in {"logout", "reset"}
  /\ Serves(c, [server EXCEPT !.owner = [s \in SessionId |-> IF ends(s) THEN None ELSE @[s]]],
            TRUE, Guest, "drop")

ServeForgot(c) ==
  call[c].phase = "sent" /\ call[c].kind = "forgot" /\ Serves(c, server, TRUE, Guest, "keep")

Serve(c) ==
  \/ Refuse(c) \/ ServeMe(c) \/ ServeEntry(c) \/ ServeVerify(c)
  \/ ServeMember(c) \/ ServeEnd(c) \/ ServeForgot(c)

(***************************************************************************)
(* The answer.                                                             *)
(***************************************************************************)
(* Mutant of Taken: a reset leaves the visitor as he was.                  *)
TakenKept(t, a) ==
  IF a.ok /\ a.kind \in {"me", "refresh", "login", "register", "verify", "profile"}
  THEN [t EXCEPT !.user = a.user] ELSE t

(* What the context makes of an answer.                                    *)
Taken(t, a) ==
  IF ~a.ok THEN t
  ELSE IF a.kind \in {"me", "refresh", "login", "register", "verify", "profile"}
  THEN [t EXCEPT !.user = a.user]
  ELSE IF a.kind = "reset" THEN [t EXCEPT !.user = Guest]
  ELSE t

(* Mutant of Released: a refusal leaves the button disabled.               *)
ReleasedOk(t, c, a) ==
  IF a.ok /\ a.place # "none" /\ t.busy[a.place] = c THEN [t EXCEPT !.busy[a.place] = None] ELSE t

(* The form that still waits for this answer is released.                  *)
Released(t, c, a) ==
  IF a.place # "none" /\ t.busy[a.place] = c THEN [t EXCEPT !.busy[a.place] = None] ELSE t

(* What becomes of the link the panel checks.                              *)
Checked(t, c, a, ok) ==
  IF a.kind = "verify" /\ t.link = c
  THEN [t EXCEPT !.link = None, !.status = IF ok THEN "confirmed" ELSE "error"] ELSE t

(* Mutant of Directed: the panel confirms whatever the answer.             *)
DirectedBlind(t, c, a) ==
  IF ~a.ok THEN Checked(t, c, a, TRUE)
  ELSE IF a.kind = "login" THEN Open(t, AfterLogin(a.user))
  ELSE IF a.kind = "register" THEN [t EXCEPT !.offers = @ + 1]
  ELSE Checked(t, c, a, a.ok)

(* Where the form that asked sends the visitor, wherever he is by now.  The *)
(* form of a new member first offers the password to the browser, and      *)
(* waits for what comes of the offer with its button enabled.              *)
Directed(t, c, a) ==
  IF ~a.ok THEN Checked(t, c, a, a.ok)
  ELSE IF a.kind = "login"
  THEN IF a.place = "modal" /\ a.user.verified
       THEN [t EXCEPT !.view = "none", !.busy["modal"] = None] ELSE Open(t, AfterLogin(a.user))
  ELSE IF a.kind = "register" THEN [t EXCEPT !.offers = @ + 1]
  ELSE IF a.kind = "refresh" /\ a.who = "yandex" THEN Open(t, "profile")
  ELSE Checked(t, c, a, a.ok)

(* The letter the tab offers: changeEmail puts it there once it has asked  *)
(* for the user again.                                                     *)
Lettered(t, a) ==
  IF ~a.ok /\ ~(a.kind = "refresh" /\ a.who = "change") THEN t
  ELSE IF a.kind \in {"register", "resend"} \/ (a.kind = "refresh" /\ a.who = "change")
  THEN [t EXCEPT !.inbox = TRUE]
  ELSE IF a.kind \in {"verify", "forgot"} THEN [t EXCEPT !.inbox = FALSE] ELSE t

(* Mutant of Learned: the tab is ready only once the question who the      *)
(* visitor is has been answered well.                                      *)
LearnedOk(t, a) == [Taken(t, a) EXCEPT !.ready = @ \/ (a.kind = "me" /\ a.ok)]

(* The first me() of a tab makes it ready, whatever comes of it.           *)
Learned(t, a) == [Taken(t, a) EXCEPT !.ready = @ \/ a.kind = "me"]

(* changeEmail, completeYandex and the avatar go on to ask for the user.   *)
GoesOn(a) == a.ok /\ a.kind \in {"change", "yandex", "avatar"}

Jar(a) == IF a.jar = "keep" THEN cookie ELSE IF a.jar = "drop" THEN None ELSE a.jar

Answer(c) ==
  LET a == call[c]
      first == Learned(tab, a)
      freed == IF a.kind = "change" /\ a.ok THEN first ELSE Released(first, c, a) IN
  /\ a.phase = "served"
  /\ cookie' = Jar(a)
  /\ tab' = IF a.gone THEN tab ELSE Settled(Directed(Lettered(freed, a), c, a))
  /\ call' = [call EXCEPT ![c] =
       IF GoesOn(a) /\ ~a.gone
       THEN [Idle EXCEPT !.kind = "refresh", !.phase = "sent", !.session = Jar(a), !.place = a.place,
                         !.who = IF a.kind \in {"yandex", "change"} THEN a.kind ELSE None]
       ELSE Idle]
  /\ clean' = (clean /\ (a.ok \/ a.kind \notin {"me", "refresh", "logout"}))
  /\ UNCHANGED <<server, torn, asks>>

(* The answer is lost on its way; a call lost before it is served ends like *)
(* one that is refused.                                                    *)
Lose(c) ==
  LET a == call[c]
      lost == [a EXCEPT !.ok = FALSE] IN
  /\ a.phase = "served"
  /\ tab' = IF a.gone THEN tab ELSE Settled(Directed(Released(Lettered(Learned(tab, lost), lost), c, lost), c, lost))
  /\ call' = [call EXCEPT ![c] = Idle]
  /\ clean' = FALSE
  /\ UNCHANGED <<server, cookie, torn, asks>>

(* The headers have come, the body has not: response.text() rejects, and   *)
(* nothing after it runs.                                                  *)
Tear(c) ==
  /\ call[c].phase = "served"
  /\ cookie' = Jar(call[c])
  /\ call' = [call EXCEPT ![c] = Idle]
  /\ clean' = FALSE /\ torn' = TRUE
  /\ UNCHANGED <<server, tab, asks>>

(* The browser has kept the password, or the visitor would not have it:    *)
(* the form goes on to the page of the letter, whatever is shown by now.   *)
Stored ==
  /\ tab.offers > 0
  /\ tab' = Settled(Open([tab EXCEPT !.offers = @ - 1], "verify"))
  /\ UNCHANGED <<server, cookie, call, clean, torn, asks>>

Visit(c) ==
  \/ \E u \in User : LoginSubmit(c, u) \/ RegisterSubmit(c, u) \/ YandexSubmit(c, u) \/ ResetSubmit(c, u)
  \/ ForgotSubmit(c) \/ ProfileSubmit(c) \/ Resend(c) \/ ChangeEmail(c) \/ Avatar(c)
  \/ Logout(c) \/ FollowLink(c)

Next ==
  \/ \E c \in Call : Visit(c) \/ Serve(c) \/ Answer(c) \/ Lose(c) \/ Tear(c)
  \/ \E view \in {"login", "register"} : OpenModal(view)
  \/ CloseModal
  \/ Stored
  \/ \E page \in Pages : Navigate(page) \/ Load(page)
  \/ \E u \in User : LoadLink(u)

(* The backend serves what it is sent and the network ends what it carries;*)
(* the visitor owes nothing.                                               *)
Spec ==
  /\ Init /\ [][Next]_vars
  /\ \A c \in Call : WF_vars(Refuse(c)) /\ WF_vars(Answer(c))
-----------------------------------------------------------------------------
Visitor == {Guest} \cup [id : User, verified : BOOLEAN]
Kinds == {"none", "me", "refresh", "login", "register", "yandex", "forgot", "reset", "profile",
          "resend", "change", "avatar", "logout", "verify"}

TypeOK ==
  /\ server \in [owner : [SessionId -> User \cup {None}], members : SUBSET User,
                 verified : SUBSET User]
  /\ cookie \in SessionId \cup {None}
  /\ tab \in [ready : BOOLEAN, user : Visitor, view : {"none", "login", "register"},
              page : Pages, inbox : BOOLEAN, offers : Nat, link : Call \cup {None},
              status : {"pending", "confirming", "confirmed", "error"},
              busy : [{"page", "modal"} -> Call \cup {None}]]
  /\ call \in [Call -> [kind : Kinds, phase : {"idle", "sent", "served"},
                        session : SessionId \cup {None}, who : User \cup {None, "yandex", "change"},
                        place : {"none", "page", "modal"}, gone : BOOLEAN, ok : BOOLEAN,
                        user : Visitor, jar : SessionId \cup {"keep", "drop"}]]
  /\ clean \in BOOLEAN /\ torn \in BOOLEAN /\ asks \in 0 .. Asks

(* As long as calls come one at a time and succeed, the tab shows whoever   *)
(* the browser's session belongs to: every operation of the context leaves *)
(* user, cookie and backend in agreement.                                  *)
ShownIsSession ==
  clean /\ Quiet /\ tab.ready => tab.user = Public(server, OwnerOf(cookie))

(* Whatever overlaps, the panel turns to saying that the address is        *)
(* confirmed only when the tab shows a visitor with a verified address.    *)
ConfirmedOnSight ==
  [][tab.status # "confirmed" /\ tab'.status = "confirmed" => tab'.user.verified]_vars

(* A form that waits is released, or gone, and the tab learns who its      *)
(* visitor is, unless an answer broke off.                                 *)
FormsComeBack ==
  /\ \A place \in {"page", "modal"} :
       tab.busy[place] # None ~> (tab.busy[place] = None \/ torn)
  /\ ~tab.ready ~> (tab.ready \/ torn)
=============================================================================
