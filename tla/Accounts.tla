------------------------------ MODULE Accounts ------------------------------
(***************************************************************************)
(* Accounts of services/auth.py: registration, login, logout, profile,     *)
(* change of email, the links mailed to verify an address or to reset a    *)
(* password, and the session rows.  The accounts that a sign-up with       *)
(* Yandex inserts, which count as verified without a link                  *)
(* (services/yandex_auth.py), are not among them.                          *)
(*                                                                         *)
(* A request is a record of its own with a program counter: it reads the   *)
(* committed rows at its awaits and writes at its commit, as the backend   *)
(* does with one database session per request under READ COMMITTED.  Two   *)
(* details of that matter and are kept:                                    *)
(*   - a column is written only when its new value differs from the value  *)
(*     the request loaded, however the row changed since;                  *)
(*   - a bulk UPDATE picks its rows when the statement runs, not at the    *)
(*     commit, and the flush before it holds the user row until then.      *)
(***************************************************************************)
EXTENDS Integers, FiniteSets

CONSTANTS
  User, Email, Nick, Password,
  Link,      \* rows of auth_tokens a run may issue
  SessionId, \* rows of sessions a run may open
  Request,   \* requests in progress at a time
  None,      \* NULL, and the absence of a row
  Member,    \* users registered, and verified, before the run begins
  Home,      \* their addresses, and the nicknames and passwords
  Alias,
  Secret,
  Ops        \* bound: the operations a run exercises

VARIABLES
  users,    \* table users; email None where there is no row
  sessions, \* table sessions
  links,    \* table auth_tokens, with the address a link was mailed to
  req,      \* the requests in progress
  proved,   \* history: the addresses whose mailed link a user has followed
  uses,     \* history: how many commits have spent a link
  overtaken, \* history: users whose address was changed in a race
  shared,   \* history: links that two requests held at once
  outrun    \* history: users who logged in while a reset was committing

vars == <<users, sessions, links, req, proved, uses, overtaken, shared, outrun>>

Operations ==
  {"register", "login", "logout", "profile", "resend", "change_email",
   "verify", "forgot", "reset"}

LinkType == {"verify_email", "reset_password"}
Live == {"unused", "expired"}   \* used_at IS NULL

ASSUME AccountsAssumption ==
  /\ IsFiniteSet(Request)
  /\ None \notin User \cup Email \cup Nick \cup Password \cup Link
                 \cup SessionId \cup Request
  /\ Link \cap SessionId = {}
  /\ Member \subseteq User
  /\ Home \in [Member -> Email]
  /\ Alias \in [Member -> Nick]
  /\ Secret \in [Member -> Password]
  /\ Ops \subseteq Operations

NoRow == [email |-> None, nick |-> None, pwd |-> None, verified |-> FALSE]
NoLink == [user |-> None, type |-> "verify_email", state |-> "none",
           addr |-> None, by |-> None]
NoSession == [user |-> None, state |-> "none", pwd |-> None]
Idle == [pc |-> "idle", user |-> None, link |-> None, sess |-> None,
         email |-> None, from |-> None, nick |-> None, pwd |-> None,
         verified |-> FALSE, captured |-> {}]

Exists(u) == users[u].email # None
Alive(s) == sessions[s].state = "alive"
Owners(field, value) == {u \in User : Exists(u) /\ users[u][field] = value}
LinksOf(u, type) == {t \in Link : /\ links[t].state \in Live
                                  /\ links[t].user = u
                                  /\ links[t].type = type}

FreeLinks == {t \in Link : links[t].state = "none"}
FreeSessions == {s \in SessionId : sessions[s].state = "none"}
NewLink == CHOOSE t \in Link : links[t].state = "none"
NewSession == CHOOSE s \in SessionId : sessions[s].state = "none"

(* Rows of users that an open transaction has flushed and not committed: a *)
(* second writer of the row waits.                                         *)
WritesEmail(me) == me.email # me.from
Holds(q, u) ==
  /\ req[q].user = u
  /\ \/ req[q].pc = "reset_flushed"
     \/ req[q].pc = "change_flushed" /\ (WritesEmail(req[q]) \/ req[q].verified)
RowFree(r, u) == \A q \in Request \ {r} : ~Holds(q, u)

(* A row the UPDATE of another open transaction has picked.                *)
Picked(r, row) == \E q \in Request \ {r} : row \in req[q].captured

(* An address another open transaction has flushed: the unique index makes *)
(* a second writer of it wait.                                             *)
Unclaimed(r, e) ==
  \A q \in Request \ {r} :
    req[q].pc = "change_flushed" /\ WritesEmail(req[q]) => req[q].email # e

Goto(r, pc) == req' = [req EXCEPT ![r].pc = pc]
Done(r) == req' = [req EXCEPT ![r] = Idle]

(* _add_session: the session row of u, and the password it was opened with.*)
OpenSession(u, pwd) ==
  sessions' = [sessions EXCEPT ![NewSession] =
                 [user |-> u, state |-> "alive", pwd |-> pwd]]

(* Mutant of IssueLink: the earlier links of the user stay in hand.        *)
IssueLinkKeepsEarlier(r, type) ==
  links' = [links EXCEPT ![NewLink] =
              [user |-> req[r].user, type |-> type, state |-> "unused",
               addr |-> None, by |-> r]]

(* _issue_token at its commit: what the statement picked is used up and a  *)
(* link is added, not yet mailed.                                          *)
IssueLink(r, type) ==
  links' = [t \in Link |->
              IF t = NewLink
              THEN [user |-> req[r].user, type |-> type, state |-> "unused",
                    addr |-> None, by |-> r]
              ELSE IF t \in req[r].captured /\ links[t].state \in Live
              THEN [links[t] EXCEPT !.state = "used"]
              ELSE links[t]]

Init ==
  /\ users = [u \in User |->
                IF u \in Member
                THEN [email |-> Home[u], nick |-> Alias[u], pwd |-> Secret[u],
                      verified |-> TRUE]
                ELSE NoRow]
  /\ sessions = [s \in SessionId |-> NoSession]
  /\ links = [t \in Link |-> NoLink]
  /\ req = [r \in Request |-> Idle]
  /\ proved = [u \in User |-> IF u \in Member THEN {Home[u]} ELSE {}]
  /\ uses = [t \in Link |-> 0]
  /\ overtaken = {}
  /\ shared = {}
  /\ outrun = {}

-----------------------------------------------------------------------------
(* register: the address, then the nickname, are looked up; the insert is  *)
(* backed by the unique indexes of alive users.                            *)
RegisterLookup(r, u, e, n, p) ==
  /\ "register" \in Ops
  /\ req[r] = Idle
  /\ ~Exists(u) /\ \A q \in Request : req[q].user # u   \* a fresh uuid
  /\ Owners("email", e) = {}
  /\ req' = [req EXCEPT ![r] = [Idle EXCEPT !.pc = "register_nick", !.user = u,
                                  !.email = e, !.nick = n, !.pwd = p]]
  /\ UNCHANGED <<users, sessions, links, proved, uses>>

RegisterNick(r) ==
  /\ req[r].pc = "register_nick"
  /\ IF Owners("nick", req[r].nick) = {} THEN Goto(r, "register_commit") ELSE Done(r)
  /\ UNCHANGED <<users, sessions, links, proved, uses>>

(* The unique indexes users_email_alive_key and users_nickname_alive_key.  *)
Conflicts(me) == Owners("email", me.email) \cup Owners("nick", me.nick) # {}

(* The row registration inserts: not verified.                             *)
NewRow(me) ==
  [email |-> me.email, nick |-> me.nick, pwd |-> me.pwd, verified |-> FALSE]

RegisterCommit(r) ==
  LET me == req[r] IN
  /\ me.pc = "register_commit"
  /\ Unclaimed(r, me.email)
  /\ IF Conflicts(me)
     THEN Done(r) /\ UNCHANGED <<users, sessions, links>>
     ELSE /\ FreeLinks # {} /\ FreeSessions # {}
          /\ users' = [users EXCEPT ![me.user] = NewRow(me)]
          /\ IssueLink(r, "verify_email")
          /\ OpenSession(me.user, me.pwd)
          /\ req' = [req EXCEPT ![r].pc = "deliver_current", ![r].link = NewLink]
  /\ UNCHANGED <<proved, uses>>

-----------------------------------------------------------------------------
(* login: the password is verified against the row read, the session is    *)
(* inserted and last_login_at written at the commit.                       *)
LoginRead(r, e, p) ==
  /\ "login" \in Ops
  /\ req[r] = Idle
  /\ \E u \in Owners("email", e) :
       /\ users[u].pwd = p
       /\ req' = [req EXCEPT ![r] = [Idle EXCEPT !.pc = "login", !.user = u, !.pwd = p]]
  /\ UNCHANGED <<users, sessions, links, proved, uses>>

LoginCommit(r) ==
  /\ req[r].pc = "login"
  /\ RowFree(r, req[r].user)
  /\ FreeSessions # {}
  /\ OpenSession(req[r].user, req[r].pwd)
  /\ Done(r)
  /\ UNCHANGED <<users, links, proved, uses>>

(* resolve_session: the dependency that loads the session and its user.    *)
Resolved(s) ==
  LET u == sessions[s].user IN
  [Idle EXCEPT !.sess = s, !.user = u, !.from = users[u].email,
               !.verified = users[u].verified]

LogoutResolve(r, s) ==
  /\ "logout" \in Ops
  /\ req[r] = Idle
  /\ Alive(s)
  /\ req' = [req EXCEPT ![r] = [Resolved(s) EXCEPT !.pc = "logout"]]
  /\ UNCHANGED <<users, sessions, links, proved, uses>>

(* Mutant of Revoked: the sessions stay alive.                             *)
RevokedNone(S) == sessions

Revoked(S) ==
  [s \in SessionId |->
     IF s \in S /\ sessions[s].state \in {"alive", "expired"}
     THEN [sessions[s] EXCEPT !.state = "revoked"]
     ELSE sessions[s]]

LogoutCommit(r) ==
  /\ req[r].pc = "logout"
  /\ ~Picked(r, req[r].sess)
  /\ sessions' = Revoked({req[r].sess})
  /\ Done(r)
  /\ UNCHANGED <<users, links, proved, uses>>

(* update_profile, of which only the nickname can conflict; None is a      *)
(* nickname that is the one loaded, and is not written.                    *)
ProfileLookup(r, s, n) ==
  /\ "profile" \in Ops
  /\ req[r] = Idle
  /\ Alive(s)
  /\ users[sessions[s].user].nick # n => Owners("nick", n) = {}
  /\ req' = [req EXCEPT ![r] =
               [Resolved(s) EXCEPT !.pc = "profile",
                  !.nick = IF users[sessions[s].user].nick = n THEN None ELSE n]]
  /\ UNCHANGED <<users, sessions, links, proved, uses>>

ProfileCommit(r) ==
  LET me == req[r] IN
  /\ me.pc = "profile"
  /\ RowFree(r, me.user)
  /\ IF me.nick # None /\ Owners("nick", me.nick) = {}
     THEN users' = [users EXCEPT ![me.user].nick = me.nick]
     ELSE UNCHANGED users
  /\ Done(r)
  /\ UNCHANGED <<sessions, links, proved, uses>>

-----------------------------------------------------------------------------
(* resend_verification: nothing for a user loaded as verified.             *)
ResendResolve(r, s) ==
  /\ "resend" \in Ops
  /\ req[r] = Idle
  /\ Alive(s)
  /\ ~users[sessions[s].user].verified
  /\ req' = [req EXCEPT ![r] = [Resolved(s) EXCEPT !.pc = "resend"]]
  /\ UNCHANGED <<users, sessions, links, proved, uses>>

ResendInvalidate(r) ==
  /\ req[r].pc = "resend"
  /\ req' = [req EXCEPT ![r].pc = "resend_flushed",
                        ![r].captured = LinksOf(req[r].user, "verify_email")]
  /\ UNCHANGED <<users, sessions, links, proved, uses>>

ResendCommit(r) ==
  /\ req[r].pc = "resend_flushed"
  /\ FreeLinks # {}
  /\ IssueLink(r, "verify_email")
  /\ req' = [req EXCEPT ![r].pc = "deliver_loaded", ![r].link = NewLink,
                        ![r].captured = {}]
  /\ UNCHANGED <<users, sessions, proved, uses>>

(* change_email: the address is looked up, the row is flushed with the     *)
(* UPDATE that invalidates the unused links, a link is added.              *)
ChangeLookup(r, s, e) ==
  /\ "change_email" \in Ops
  /\ req[r] = Idle
  /\ Alive(s)
  /\ Owners("email", e) \subseteq {sessions[s].user}
  /\ req' = [req EXCEPT ![r] = [Resolved(s) EXCEPT !.pc = "change", !.email = e]]
  /\ UNCHANGED <<users, sessions, links, proved, uses>>

ChangeFlush(r) ==
  LET me == req[r] IN
  /\ me.pc = "change"
  /\ RowFree(r, me.user)
  /\ WritesEmail(me) => Unclaimed(r, me.email)
  /\ IF WritesEmail(me) => Owners("email", me.email) \subseteq {me.user}
     THEN req' = [req EXCEPT ![r].pc = "change_flushed",
                             ![r].captured = LinksOf(me.user, "verify_email")]
     ELSE Done(r)
  /\ UNCHANGED <<users, sessions, links, proved, uses>>

(* Mutant of ChangedRow: the address is changed and stays verified.        *)
ChangedRowStaysVerified(row, me) == [row EXCEPT !.email = me.email]

(* The columns change_email writes: those that differ from what it loaded. *)
ChangedRow(row, me) ==
  [row EXCEPT !.email = IF me.email # me.from THEN me.email ELSE @,
              !.verified = IF me.verified THEN FALSE ELSE @]

ChangeCommit(r) ==
  LET me == req[r] IN
  /\ me.pc = "change_flushed"
  /\ FreeLinks # {}
  /\ users' = [users EXCEPT ![me.user] = ChangedRow(@, me)]
  /\ IssueLink(r, "verify_email")
  /\ req' = [req EXCEPT ![r].pc = "deliver_current", ![r].link = NewLink,
                        ![r].captured = {}]
  /\ UNCHANGED <<sessions, proved, uses>>

(* forgot_password, for an address that has an account.                    *)
ForgotRead(r, e) ==
  /\ "forgot" \in Ops
  /\ req[r] = Idle
  /\ \E u \in Owners("email", e) :
       req' = [req EXCEPT ![r] = [Idle EXCEPT !.pc = "forgot", !.user = u, !.from = e]]
  /\ UNCHANGED <<users, sessions, links, proved, uses>>

ForgotInvalidate(r) ==
  /\ req[r].pc = "forgot"
  /\ req' = [req EXCEPT ![r].pc = "forgot_flushed",
                        ![r].captured = LinksOf(req[r].user, "reset_password")]
  /\ UNCHANGED <<users, sessions, links, proved, uses>>

ForgotCommit(r) ==
  /\ req[r].pc = "forgot_flushed"
  /\ FreeLinks # {}
  /\ IssueLink(r, "reset_password")
  /\ req' = [req EXCEPT ![r].pc = "deliver_loaded", ![r].link = NewLink,
                        ![r].captured = {}]
  /\ UNCHANGED <<users, sessions, proved, uses>>

(* Mutant of Deliver: the link row loaded before the commit is saved back. *)
DeliverSavesRow(r) ==
  LET me == req[r] IN
  /\ me.pc \in {"deliver_loaded", "deliver_current"}
  /\ links' = [links EXCEPT ![me.link].addr = users[me.user].email,
                            ![me.link].state = "unused"]
  /\ Done(r)
  /\ UNCHANGED <<users, sessions, proved, uses>>

(* _deliver_link: mail goes out after the commit, to the address the       *)
(* request loaded, or reloaded by refresh (register, change_email).        *)
Deliver(r) ==
  LET me == req[r] IN
  /\ me.pc \in {"deliver_loaded", "deliver_current"}
  /\ links' = [links EXCEPT ![me.link].addr =
                 IF me.pc = "deliver_loaded" THEN me.from ELSE users[me.user].email]
  /\ Done(r)
  /\ UNCHANGED <<users, sessions, proved, uses>>

-----------------------------------------------------------------------------
(* Mutant of Accepted: used_at is not looked at.                           *)
AcceptedAgain(t, type) ==
  /\ links[t].type = type
  /\ links[t].state \in {"unused", "used"}

(* _consume_token: a mailed link is refused when used or expired.          *)
Accepted(t, type) ==
  /\ links[t].type = type
  /\ links[t].state = "unused"

(* verify_email.  The caller may hold a session; when it is the session of *)
(* the link's own user, the user row is the one loaded with the session.   *)
VerifyResolve(r, t, s) ==
  /\ "verify" \in Ops
  /\ req[r] = Idle
  /\ links[t].addr # None
  /\ s # None => Alive(s)
  /\ req' = [req EXCEPT ![r] =
               [(IF s = None THEN Idle ELSE Resolved(s)) EXCEPT
                  !.pc = "verify_link", !.link = t]]
  /\ UNCHANGED <<users, sessions, links, proved, uses>>

VerifyLink(r) ==
  /\ req[r].pc = "verify_link"
  /\ IF Accepted(req[r].link, "verify_email") THEN Goto(r, "verify_user") ELSE Done(r)
  /\ UNCHANGED <<users, sessions, links, proved, uses>>

VerifyUser(r) ==
  LET u == links[req[r].link].user IN
  /\ req[r].pc = "verify_user"
  /\ req' = [req EXCEPT ![r].pc = "verify_commit", ![r].user = u,
               ![r].verified = IF req[r].user = u THEN @ ELSE users[u].verified]
  /\ UNCHANGED <<users, sessions, links, proved, uses>>

Spend(t) ==
  /\ links' = [links EXCEPT ![t].state = "used"]
  /\ uses' = [uses EXCEPT ![t] = @ + 1]

OwnSession(me) == me.sess # None /\ sessions[me.sess].user = me.user

VerifyCommit(r) ==
  LET me == req[r] IN
  /\ me.pc = "verify_commit"
  /\ ~me.verified => RowFree(r, me.user)
  /\ ~Picked(r, me.link)
  /\ users' = [users EXCEPT ![me.user].verified = IF me.verified THEN @ ELSE TRUE]
  /\ Spend(me.link)
  /\ proved' = [proved EXCEPT ![me.user] = @ \cup {links[me.link].addr}]
  /\ IF OwnSession(me)
     THEN UNCHANGED sessions
     ELSE /\ FreeSessions # {}
          /\ sessions' = [Revoked({me.sess}) EXCEPT ![NewSession] =
                            [user |-> me.user, state |-> "alive", pwd |-> None]]
  /\ Done(r)

(* reset_password.  Nothing of the user row matters to what it writes.     *)
ResetLink(r, t, p) ==
  /\ "reset" \in Ops
  /\ req[r] = Idle
  /\ links[t].addr # None
  /\ Accepted(t, "reset_password")
  /\ req' = [req EXCEPT ![r] = [Idle EXCEPT !.pc = "reset", !.link = t,
                                  !.user = links[t].user, !.pwd = p]]
  /\ UNCHANGED <<users, sessions, links, proved, uses>>

(* revoke_all_for_user picks the sessions; the row is flushed before it.   *)
ResetRevoke(r) ==
  LET me == req[r] IN
  /\ me.pc = "reset"
  /\ RowFree(r, me.user) /\ ~Picked(r, me.link)
  /\ req' = [req EXCEPT ![r].pc = "reset_flushed",
               ![r].captured = {s \in SessionId : sessions[s].user = me.user}]
  /\ UNCHANGED <<users, sessions, links, proved, uses>>

ResetCommit(r) ==
  LET me == req[r] IN
  /\ me.pc = "reset_flushed"
  /\ users' = [users EXCEPT ![me.user].pwd = me.pwd]
  /\ Spend(me.link)
  /\ sessions' = Revoked(me.captured)
  /\ Done(r)
  /\ UNCHANGED proved

-----------------------------------------------------------------------------
(* A request fails before its commit and is rolled back, or its mail after *)
(* the commit is lost (the SMTP error is logged and swallowed).            *)
Abort(r) ==
  /\ req[r] # Idle
  /\ Done(r)
  /\ UNCHANGED <<users, sessions, links, proved, uses>>

(* The time of a link or of a session runs out.                            *)
ExpireLink(t) ==
  /\ links[t].state = "unused"
  /\ links' = [links EXCEPT ![t].state = "expired"]
  /\ UNCHANGED <<users, sessions, req, proved, uses>>

ExpireSession(s) ==
  /\ Alive(s)
  /\ sessions' = [sessions EXCEPT ![s].state = "expired"]
  /\ UNCHANGED <<users, links, req, proved, uses>>

Step(r) ==
  \/ RegisterNick(r) \/ RegisterCommit(r)
  \/ LoginCommit(r) \/ LogoutCommit(r) \/ ProfileCommit(r)
  \/ ResendInvalidate(r) \/ ResendCommit(r)
  \/ ChangeFlush(r) \/ ChangeCommit(r)
  \/ ForgotInvalidate(r) \/ ForgotCommit(r)
  \/ Deliver(r)
  \/ VerifyLink(r) \/ VerifyUser(r) \/ VerifyCommit(r)
  \/ ResetRevoke(r) \/ ResetCommit(r)
  \/ Abort(r)

Start(r) ==
  \/ \E u \in User, e \in Email, n \in Nick, p \in Password : RegisterLookup(r, u, e, n, p)
  \/ \E e \in Email, p \in Password : LoginRead(r, e, p)
  \/ \E s \in SessionId : LogoutResolve(r, s) \/ ResendResolve(r, s)
  \/ \E s \in SessionId, n \in Nick : ProfileLookup(r, s, n)
  \/ \E s \in SessionId, e \in Email : ChangeLookup(r, s, e)
  \/ \E e \in Email : ForgotRead(r, e)
  \/ \E t \in Link, s \in SessionId \cup {None} : VerifyResolve(r, t, s)
  \/ \E t \in Link, p \in Password : ResetLink(r, t, p)

Act ==
  \/ \E r \in Request : Start(r) \/ Step(r)
  \/ \E t \in Link : ExpireLink(t)
  \/ \E s \in SessionId : ExpireSession(s)

(* Races that can take a promise back.  The address of u is changed by a   *)
(* request, from its lookup to its commit, while another one changes it    *)
(* too, issues a link for it, or has accepted one and not committed.       *)
Changing(me, u) == me.pc \in {"change", "change_flushed"} /\ me.user = u
Addressing(me, u) ==
  \/ me.pc \in {"change", "change_flushed", "resend", "resend_flushed"} /\ me.user = u
  \/ me.pc \in {"verify_user", "verify_commit"} /\ links[me.link].user = u
Overtaken(u) ==
  \E q, r \in Request : q # r /\ Changing(req[q], u) /\ Addressing(req[r], u)

(* Two requests have accepted t and neither has committed.                 *)
Holding(me, t) ==
  me.pc \in {"verify_user", "verify_commit", "reset", "reset_flushed"} /\ me.link = t
Shared(t) == \E q, r \in Request : q # r /\ Holding(req[q], t) /\ Holding(req[r], t)

(* The sessions of u have been picked to be revoked, and a login that has  *)
(* read the old password is still to add one.                              *)
LoggingIn(me, u) == me.pc = "login" /\ me.user = u
Resetting(me, u) == me.pc = "reset_flushed" /\ me.user = u
Outrun(u) == \E q, r \in Request : LoggingIn(req[q], u) /\ Resetting(req[r], u)

Racing ==
  /\ overtaken' = overtaken \cup {u \in User : Overtaken(u)'}
  /\ shared' = shared \cup {t \in Link : Shared(t)'}
  /\ outrun' = outrun \cup {u \in User : Outrun(u)'}

Next == Act /\ Racing

Spec == Init /\ [][Next]_vars
-----------------------------------------------------------------------------
PC ==
  {"idle", "register_nick", "register_commit", "login", "logout", "profile",
   "resend", "resend_flushed", "change", "change_flushed", "forgot",
   "forgot_flushed", "deliver_loaded", "deliver_current", "verify_link",
   "verify_user", "verify_commit", "reset", "reset_flushed"}

UserRow == [email : Email \cup {None}, nick : Nick \cup {None},
            pwd : Password \cup {None}, verified : BOOLEAN]
SessionRow == [user : User \cup {None}, pwd : Password \cup {None},
               state : {"none", "alive", "expired", "revoked"}]
LinkRow == [user : User \cup {None}, type : LinkType,
            state : {"none", "unused", "expired", "used"},
            addr : Email \cup {None}, by : Request \cup {None}]
RequestRow == [pc : PC, user : User \cup {None}, link : Link \cup {None},
               sess : SessionId \cup {None}, email : Email \cup {None},
               from : Email \cup {None}, nick : Nick \cup {None},
               pwd : Password \cup {None}, verified : BOOLEAN,
               captured : SUBSET (Link \cup SessionId)]

(* Type invariant of the tables and of the requests.                       *)
TablesOK ==
  /\ users \in [User -> UserRow]
  /\ sessions \in [SessionId -> SessionRow]
  /\ links \in [Link -> LinkRow]
  /\ req \in [Request -> RequestRow]
  /\ proved \in [User -> SUBSET (Email \cup {None})]
  /\ uses \in [Link -> Nat]
TypeOK ==
  /\ TablesOK
  /\ overtaken \subseteq User /\ shared \subseteq Link /\ outrun \subseteq User

(* Issuing a link invalidates the earlier ones, but not those committed by *)
(* requests that were issuing at the same time: a user never holds more    *)
(* unused links of a type than there can be requests in progress.          *)
LinksInHand ==
  \A u \in User, type \in LinkType :
    Cardinality(LinksOf(u, type)) <= Cardinality(Request)

(* The reason: no request slot has issued two of them.                     *)
OnePerIssuer ==
  \A t1, t2 \in Link :
    /\ links[t1].state \in Live /\ links[t2].state \in Live
    /\ links[t1].user = links[t2].user /\ links[t1].type = links[t2].type
    /\ links[t1].by = links[t2].by
    => t1 = t2

(* The statement that invalidates earlier links picks those of its own     *)
(* request slot, if there is one left.                                     *)
IssuedAt == [resend_flushed |-> "verify_email", change_flushed |-> "verify_email",
             forgot_flushed |-> "reset_password"]
IssuerCaptures ==
  \A r \in Request :
    req[r].pc \in DOMAIN IssuedAt =>
      \A t \in LinksOf(req[r].user, IssuedAt[req[r].pc]) :
        links[t].by = r => t \in req[r].captured

(* Rows and requests refer to rows that exist; a uuid being registered is  *)
(* nobody else's.                                                          *)
Registering == {"register_nick", "register_commit"}
HoldsLink ==
  {"deliver_loaded", "deliver_current", "verify_link", "verify_user",
   "verify_commit", "reset", "reset_flushed"}
SessionsOwned ==
  \A s \in SessionId :
    sessions[s].state # "none" =>
      sessions[s].user \in User /\ Exists(sessions[s].user)
LinksOwned ==
  \A t \in Link :
    IF links[t].state = "none" THEN links[t].addr = None
    ELSE links[t].user \in User /\ Exists(links[t].user) /\ links[t].by \in Request
RowsOwned == SessionsOwned /\ LinksOwned
RequestOwned(r) ==
  LET me == req[r] IN
  /\ me.pc \notin {"idle", "verify_link", "verify_user"} => me.user \in User
  /\ me.pc = "idle" => me = Idle
  /\ me.pc \in Registering =>
       /\ ~Exists(me.user) /\ me.captured = {} /\ me.email # None
       /\ \A q \in Request \ {r} : req[q].user # me.user
  /\ me.pc \notin Registering /\ me.user # None => Exists(me.user)
  /\ me.pc \in {"change", "change_flushed"} => me.email # None
  /\ me.pc \in HoldsLink => me.link \in Link /\ links[me.link].state # "none"
Owned == RowsOwned /\ \A r \in Request : RequestOwned(r)

(* The address an account is verified for is one whose link was followed:  *)
(* change_email takes the verification back until its own link is.         *)
AddressProved ==
  \A u \in User : users[u].verified => users[u].email \in proved[u]

(* What holds of it whatever else overlaps: registrations, logins, resets, *)
(* links issued again and followed twice, mail that goes out late, in any  *)
(* order.  Only a change of the very address that is in progress together  *)
(* with another one, with a resend or with an accepted link can take it    *)
(* away (change_email, resend_verification, verify_email, _deliver_link);  *)
(* and a link is spent once unless two requests had accepted it before     *)
(* either committed (_consume_token).                                      *)
LinksProve ==
  /\ \A u \in User \ overtaken : users[u].verified => users[u].email \in proved[u]
  /\ \A t \in Link \ shared : uses[t] <= 1

(* A live session opened with a password was opened with the password the  *)
(* account has, whatever overlaps: reset_password revokes the sessions     *)
(* there are when its statement runs.  Only a login that read the old      *)
(* password before that and commits after it stays (login waits for the    *)
(* row, and does not look at the password again).                          *)
SessionsOfPassword ==
  \A s \in SessionId :
    Alive(s) /\ sessions[s].pwd # None /\ sessions[s].user \notin outrun =>
      sessions[s].pwd = users[sessions[s].user].pwd

(* A used link is never in hand again, a revoked session never alive.      *)
NothingRevives ==
  [][/\ \A t \in Link : links[t].state = "used" => links'[t].state = "used"
     /\ \A s \in SessionId :
          sessions[s].state = "revoked" => sessions'[s].state = "revoked"]_vars
=============================================================================
