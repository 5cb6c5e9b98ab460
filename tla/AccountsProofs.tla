--------------------------- MODULE AccountsProofs ----------------------------
(***************************************************************************)
(* Proofs about Accounts for any number of users, links, sessions and      *)
(* requests in progress.                                                   *)
(***************************************************************************)
EXTENDS Accounts, FiniteSetTheorems, TLAPS

LEMMA NewIds ==
  /\ FreeLinks # {} => NewLink \in Link /\ links[NewLink].state = "none"
  /\ FreeSessions # {} => NewSession \in SessionId /\ sessions[NewSession].state = "none"
BY DEF FreeLinks, NewLink, FreeSessions, NewSession

LEMMA UpdateTyped ==
  ASSUME NEW S, NEW T, NEW f \in [S -> T], NEW s, NEW x \in T
  PROVE  [f EXCEPT ![s] = x] \in [S -> T]
OBVIOUS

LEMMA IdleTyped == Idle \in RequestRow
BY DEF Idle, RequestRow, PC

LEMMA GotoTyped ==
  ASSUME NEW me \in RequestRow, NEW pc \in PC
  PROVE  [me EXCEPT !.pc = pc] \in RequestRow
BY DEF RequestRow

LEMMA GotoLinkTyped ==
  ASSUME NEW me \in RequestRow, NEW pc \in PC, NEW t \in Link
  PROVE  /\ [me EXCEPT !.pc = pc, !.link = t] \in RequestRow
         /\ [me EXCEPT !.pc = pc, !.link = t, !.captured = {}] \in RequestRow
BY DEF RequestRow

LEMMA GotoCapturedTyped ==
  ASSUME NEW me \in RequestRow, NEW pc \in PC, NEW C \in SUBSET (Link \cup SessionId)
  PROVE  [me EXCEPT !.pc = pc, !.captured = C] \in RequestRow
BY DEF RequestRow

LEMMA ResolvedTyped ==
  ASSUME TablesOK, RowsOwned, NEW s \in SessionId, Alive(s)
  PROVE  /\ sessions[s].user \in User /\ Exists(sessions[s].user)
         /\ Resolved(s) \in RequestRow
<1>1. sessions[s].user \in User /\ Exists(sessions[s].user)
  BY DEF RowsOwned, SessionsOwned, Alive
<1>2. users[sessions[s].user] \in UserRow
  BY <1>1 DEF TablesOK
<1>3. QED
  BY <1>1, <1>2 DEF Resolved, Idle, RequestRow, UserRow, PC

LEMMA OpenTyped ==
  ASSUME TablesOK, NEW u \in User, NEW pwd \in Password \cup {None}, OpenSession(u, pwd)
  PROVE  sessions' \in [SessionId -> SessionRow]
<1>1. [user |-> u, state |-> "alive", pwd |-> pwd] \in SessionRow
  BY DEF SessionRow
<1>2. QED
  BY <1>1, UpdateTyped DEF OpenSession, TablesOK

LEMMA IssueTyped ==
  ASSUME TablesOK, NEW r \in Request, req[r].user \in User, NEW type \in LinkType,
         IssueLink(r, type)
  PROVE  links' \in [Link -> LinkRow]
<1> SUFFICES ASSUME NEW t \in Link
             PROVE  links'[t] \in LinkRow
  BY DEF IssueLink
<1>1. [user |-> req[r].user, type |-> type, state |-> "unused",
       addr |-> None, by |-> r] \in LinkRow
  BY DEF LinkRow
<1>2. links[t] \in LinkRow
  BY DEF TablesOK
<1>3. [links[t] EXCEPT !.state = "used"] \in LinkRow
  BY <1>2 DEF LinkRow
<1>4. QED
  BY <1>1, <1>2, <1>3 DEF IssueLink

LEMMA RevokedTyped ==
  ASSUME TablesOK, NEW S
  PROVE  Revoked(S) \in [SessionId -> SessionRow]
<1> SUFFICES ASSUME NEW s \in SessionId
             PROVE  Revoked(S)[s] \in SessionRow
  BY DEF Revoked
<1>1. sessions[s] \in SessionRow
  BY DEF TablesOK
<1>2. [sessions[s] EXCEPT !.state = "revoked"] \in SessionRow
  BY <1>1 DEF SessionRow
<1>3. QED
  BY <1>1, <1>2 DEF Revoked

LEMMA RequestTyped ==
  ASSUME TablesOK, NEW r \in Request
  PROVE req[r] \in RequestRow
BY DEF TablesOK

-----------------------------------------------------------------------------
(* Every action keeps the type of every table.                             *)
LEMMA StartKeepsType ==
  ASSUME TablesOK, RowsOwned, NEW r \in Request, Start(r)
  PROVE  TablesOK'
<1> USE DEF TablesOK
<1>1. ASSUME NEW x \in RequestRow, req' = [req EXCEPT ![r] = x],
             UNCHANGED <<users, sessions, links, proved, uses>>
      PROVE  TablesOK'
  BY <1>1, UpdateTyped
<1>2. ASSUME NEW u \in User, NEW e \in Email, NEW n \in Nick, NEW p \in Password,
             RegisterLookup(r, u, e, n, p)
      PROVE  TablesOK'
  <2>1. [Idle EXCEPT !.pc = "register_nick", !.user = u, !.email = e,
                     !.nick = n, !.pwd = p] \in RequestRow
    BY DEF Idle, RequestRow, PC
  <2>2. QED
    BY <1>1, <1>2, <2>1 DEF RegisterLookup
<1>3. ASSUME NEW e \in Email, NEW p \in Password, LoginRead(r, e, p)
      PROVE  TablesOK'
  <2>1. PICK u \in User :
          req' = [req EXCEPT ![r] = [Idle EXCEPT !.pc = "login", !.user = u, !.pwd = p]]
    BY <1>3 DEF LoginRead, Owners
  <2>2. [Idle EXCEPT !.pc = "login", !.user = u, !.pwd = p] \in RequestRow
    BY DEF Idle, RequestRow, PC
  <2>3. QED
    BY <1>1, <1>3, <2>1, <2>2 DEF LoginRead
<1>4. ASSUME NEW s \in SessionId, LogoutResolve(r, s)
      PROVE  TablesOK'
  <2>1. [Resolved(s) EXCEPT !.pc = "logout"] \in RequestRow
    BY <1>4, ResolvedTyped, GotoTyped DEF LogoutResolve, PC
  <2>2. QED
    BY <1>1, <1>4, <2>1 DEF LogoutResolve
<1>5. ASSUME NEW s \in SessionId, ResendResolve(r, s)
      PROVE  TablesOK'
  <2>1. [Resolved(s) EXCEPT !.pc = "resend"] \in RequestRow
    BY <1>5, ResolvedTyped, GotoTyped DEF ResendResolve, PC
  <2>2. QED
    BY <1>1, <1>5, <2>1 DEF ResendResolve
<1>6. ASSUME NEW s \in SessionId, NEW n \in Nick, ProfileLookup(r, s, n)
      PROVE  TablesOK'
  <2> DEFINE m == IF users[sessions[s].user].nick = n THEN None ELSE n
  <2>1. Resolved(s) \in RequestRow
    BY <1>6, ResolvedTyped DEF ProfileLookup
  <2>2. [Resolved(s) EXCEPT !.pc = "profile", !.nick = m] \in RequestRow
    <3>1. m \in Nick \cup {None}
      OBVIOUS
    <3> HIDE DEF m
    <3>2. QED
      BY <2>1, <3>1 DEF RequestRow, PC
  <2>3. QED
    BY <1>1, <1>6, <2>2 DEF ProfileLookup
<1>7. ASSUME NEW s \in SessionId, NEW e \in Email, ChangeLookup(r, s, e)
      PROVE  TablesOK'
  <2>1. Resolved(s) \in RequestRow
    BY <1>7, ResolvedTyped DEF ChangeLookup
  <2>2. [Resolved(s) EXCEPT !.pc = "change", !.email = e] \in RequestRow
    BY <2>1 DEF RequestRow, PC
  <2>3. QED
    BY <1>1, <1>7, <2>2 DEF ChangeLookup
<1>8. ASSUME NEW e \in Email, ForgotRead(r, e)
      PROVE  TablesOK'
  <2>1. PICK u \in User :
          req' = [req EXCEPT ![r] = [Idle EXCEPT !.pc = "forgot", !.user = u, !.from = e]]
    BY <1>8 DEF ForgotRead, Owners
  <2>2. [Idle EXCEPT !.pc = "forgot", !.user = u, !.from = e] \in RequestRow
    BY DEF Idle, RequestRow, PC
  <2>3. QED
    BY <1>1, <1>8, <2>1, <2>2 DEF ForgotRead
<1>9. ASSUME NEW t \in Link, NEW s \in SessionId \cup {None}, VerifyResolve(r, t, s)
      PROVE  TablesOK'
  <2> DEFINE me == IF s = None THEN Idle ELSE Resolved(s)
  <2>1. me \in RequestRow
    BY <1>9, ResolvedTyped, IdleTyped DEF VerifyResolve
  <2>2. [me EXCEPT !.pc = "verify_link", !.link = t] \in RequestRow
    <3> HIDE DEF me
    <3>1. QED
      BY <2>1, GotoLinkTyped DEF PC
  <2>3. QED
    BY <1>1, <1>9, <2>2 DEF VerifyResolve
<1>10. ASSUME NEW t \in Link, NEW p \in Password, ResetLink(r, t, p)
       PROVE  TablesOK'
  <2>1. links[t].user \in User \cup {None}
    BY DEF LinkRow
  <2>2. [Idle EXCEPT !.pc = "reset", !.link = t, !.user = links[t].user,
                     !.pwd = p] \in RequestRow
    BY <2>1 DEF Idle, RequestRow, PC
  <2>3. QED
    BY <1>1, <1>10, <2>2 DEF ResetLink
<1>11. QED
  BY <1>2, <1>3, <1>4, <1>5, <1>6, <1>7, <1>8, <1>9, <1>10 DEF Start

LEMMA StepKeepsType ==
  ASSUME TablesOK, Owned, NEW r \in Request, Step(r)
  PROVE  TablesOK'
<1> DEFINE me == req[r]
<1>0. me \in RequestRow /\ RequestOwned(r) /\ RowsOwned
  BY DEF TablesOK, Owned
<1> USE DEF TablesOK
<1>1. ASSUME NEW x \in RequestRow, req' = [req EXCEPT ![r] = x]
      PROVE  req' \in [Request -> RequestRow]
  BY <1>1, UpdateTyped
<1>2. ASSUME NEW pc \in PC, Goto(r, pc)
      PROVE  req' \in [Request -> RequestRow]
  BY <1>0, <1>1, <1>2, GotoTyped DEF Goto
<1>3. ASSUME Done(r)
      PROVE  req' \in [Request -> RequestRow]
  BY <1>1, <1>3, IdleTyped DEF Done
<1>4. CASE RegisterNick(r)
  <2>1. req' \in [Request -> RequestRow]
    BY <1>2, <1>3, <1>4 DEF RegisterNick, PC
  <2>2. QED
    BY <1>4, <2>1 DEF RegisterNick
<1>5. CASE RegisterCommit(r)
  <2>1. CASE Conflicts(me)
    BY <1>3, <1>5, <2>1 DEF RegisterCommit
  <2>2. CASE ~Conflicts(me)
    <3>1. me.user \in User
      BY <1>0, <1>5 DEF RegisterCommit, RequestOwned
    <3>2. NewRow(me) \in UserRow
      BY <1>0 DEF NewRow, UserRow, RequestRow
    <3>3. users' \in [User -> UserRow]
      BY <1>5, <2>2, <3>2, UpdateTyped DEF RegisterCommit
    <3>4. links' \in [Link -> LinkRow]
      BY <1>5, <2>2, <3>1, IssueTyped DEF RegisterCommit, LinkType
    <3>5. sessions' \in [SessionId -> SessionRow]
      <4>1. me.pwd \in Password \cup {None}
        BY <1>0 DEF RequestRow
      <4>2. QED
        BY <1>5, <2>2, <3>1, <4>1, OpenTyped DEF RegisterCommit
    <3>6. req' \in [Request -> RequestRow]
      <4>1. [me EXCEPT !.pc = "deliver_current", !.link = NewLink] \in RequestRow
        BY <1>0, <1>5, <2>2, NewIds, GotoLinkTyped DEF RegisterCommit, PC
      <4>2. QED
        BY <1>1, <1>5, <2>2, <4>1 DEF RegisterCommit
    <3>7. QED
      BY <1>5, <3>3, <3>4, <3>5, <3>6 DEF RegisterCommit
  <2>3. QED
    BY <2>1, <2>2
<1>6. CASE LoginCommit(r)
  <2>1. me.user \in User /\ me.pwd \in Password \cup {None}
    BY <1>0, <1>6 DEF LoginCommit, RequestOwned, RequestRow
  <2>2. sessions' \in [SessionId -> SessionRow]
    BY <1>6, <2>1, OpenTyped DEF LoginCommit
  <2>3. QED
    BY <1>3, <1>6, <2>2 DEF LoginCommit
<1>7. CASE LogoutCommit(r)
  BY <1>3, <1>7, RevokedTyped DEF LogoutCommit
<1>8. CASE ProfileCommit(r)
  <2>1. me.nick \in Nick \cup {None}
    BY <1>0 DEF RequestRow
  <2>2. ASSUME NEW row \in UserRow
        PROVE  [row EXCEPT !.nick = me.nick] \in UserRow
    BY <2>1 DEF UserRow
  <2>3. users' \in [User -> UserRow]
    BY <1>8, <2>2 DEF ProfileCommit
  <2>4. QED
    BY <1>3, <1>8, <2>3 DEF ProfileCommit
<1>9. CASE ResendInvalidate(r)
  <2>1. LinksOf(me.user, "verify_email") \in SUBSET (Link \cup SessionId)
    BY DEF LinksOf
  <2>2. [me EXCEPT !.pc = "resend_flushed",
                   !.captured = LinksOf(me.user, "verify_email")] \in RequestRow
    BY <1>0, <2>1, GotoCapturedTyped DEF PC
  <2>3. QED
    BY <1>1, <1>9, <2>2 DEF ResendInvalidate
<1>10. CASE ResendCommit(r)
  <2>1. links' \in [Link -> LinkRow]
    BY <1>0, <1>10, IssueTyped DEF ResendCommit, RequestOwned, Registering, LinkType
  <2>2. [me EXCEPT !.pc = "deliver_loaded", !.link = NewLink,
                   !.captured = {}] \in RequestRow
    BY <1>0, <1>10, NewIds, GotoLinkTyped DEF ResendCommit, PC
  <2>3. QED
    BY <1>1, <1>10, <2>1, <2>2 DEF ResendCommit
<1>11. CASE ChangeFlush(r)
  <2>1. LinksOf(me.user, "verify_email") \in SUBSET (Link \cup SessionId)
    BY DEF LinksOf
  <2>2. [me EXCEPT !.pc = "change_flushed",
                   !.captured = LinksOf(me.user, "verify_email")] \in RequestRow
    BY <1>0, <2>1, GotoCapturedTyped DEF PC
  <2>3. req' \in [Request -> RequestRow]
    BY <1>1, <1>3, <1>11, <2>2 DEF ChangeFlush
  <2>4. QED
    BY <1>11, <2>3 DEF ChangeFlush
<1>12. CASE ChangeCommit(r)
  <2>1. links' \in [Link -> LinkRow]
    BY <1>0, <1>12, IssueTyped DEF ChangeCommit, RequestOwned, Registering, LinkType
  <2>2. [me EXCEPT !.pc = "deliver_current", !.link = NewLink,
                   !.captured = {}] \in RequestRow
    BY <1>0, <1>12, NewIds, GotoLinkTyped DEF ChangeCommit, PC
  <2>3. ASSUME NEW row \in UserRow
        PROVE  ChangedRow(row, me) \in UserRow
    <3>1. me.email \in Email \cup {None}
      BY <1>0 DEF RequestRow
    <3>2. QED
      BY <3>1 DEF ChangedRow, UserRow
  <2>4. users' \in [User -> UserRow]
    BY <1>12, <2>3 DEF ChangeCommit
  <2>5. QED
    BY <1>1, <1>12, <2>1, <2>2, <2>4 DEF ChangeCommit
<1>13. CASE ForgotInvalidate(r)
  <2>1. LinksOf(me.user, "reset_password") \in SUBSET (Link \cup SessionId)
    BY DEF LinksOf
  <2>2. [me EXCEPT !.pc = "forgot_flushed",
                   !.captured = LinksOf(me.user, "reset_password")] \in RequestRow
    BY <1>0, <2>1, GotoCapturedTyped DEF PC
  <2>3. QED
    BY <1>1, <1>13, <2>2 DEF ForgotInvalidate
<1>14. CASE ForgotCommit(r)
  <2>1. links' \in [Link -> LinkRow]
    BY <1>0, <1>14, IssueTyped DEF ForgotCommit, RequestOwned, Registering, LinkType
  <2>2. [me EXCEPT !.pc = "deliver_loaded", !.link = NewLink,
                   !.captured = {}] \in RequestRow
    BY <1>0, <1>14, NewIds, GotoLinkTyped DEF ForgotCommit, PC
  <2>3. QED
    BY <1>1, <1>14, <2>1, <2>2 DEF ForgotCommit
<1>15. CASE Deliver(r)
  <2> DEFINE to == IF me.pc = "deliver_loaded" THEN me.from ELSE users[me.user].email
  <2>1. me.user \in User
    BY <1>0, <1>15 DEF Deliver, RequestOwned
  <2>2. to \in Email \cup {None}
    BY <1>0, <2>1 DEF UserRow, RequestRow
  <2>3. ASSUME NEW row \in LinkRow
        PROVE  [row EXCEPT !.addr = to] \in LinkRow
    <3> HIDE DEF to
    <3>1. QED
      BY <2>2 DEF LinkRow
  <2>4. links' = [links EXCEPT ![me.link].addr = to]
    BY <1>15 DEF Deliver
  <2>5. links' \in [Link -> LinkRow]
    <3> HIDE DEF to
    <3>1. QED
      BY <2>3, <2>4
  <2>6. QED
    BY <1>3, <1>15, <2>5 DEF Deliver
<1>16. CASE VerifyLink(r)
  <2>1. req' \in [Request -> RequestRow]
    BY <1>2, <1>3, <1>16 DEF VerifyLink, PC
  <2>2. QED
    BY <1>16, <2>1 DEF VerifyLink
<1>17. CASE VerifyUser(r)
  <2> DEFINE u == links[me.link].user
             v == IF me.user = u THEN me.verified ELSE users[u].verified
  <2>1. me.link \in Link /\ links[me.link].state # "none"
    BY <1>0, <1>17 DEF VerifyUser, RequestOwned, HoldsLink
  <2>2. u \in User
    BY <1>0, <2>1 DEF RowsOwned, LinksOwned
  <2>3. v \in BOOLEAN
    BY <1>0, <2>2 DEF RequestRow, UserRow
  <2>4. [me EXCEPT !.pc = "verify_commit", !.user = u, !.verified = v] \in RequestRow
    <3> HIDE DEF u, v
    <3>1. QED
      BY <1>0, <2>2, <2>3 DEF RequestRow, PC
  <2>5. req' = [req EXCEPT ![r] =
                  [me EXCEPT !.pc = "verify_commit", !.user = u, !.verified = v]]
    BY <1>17 DEF VerifyUser
  <2>6. QED
    BY <1>1, <1>17, <2>4, <2>5 DEF VerifyUser
<1>18. ASSUME NEW t, Spend(t)
       PROVE  links' \in [Link -> LinkRow] /\ uses' \in [Link -> Nat]
  <2>1. ASSUME NEW row \in LinkRow
        PROVE  [row EXCEPT !.state = "used"] \in LinkRow
    BY DEF LinkRow
  <2>2. links' \in [Link -> LinkRow]
    <3>1. ASSUME NEW l \in Link
          PROVE  links'[l] \in LinkRow
      <4>1. links[l] \in LinkRow
        OBVIOUS
      <4>2. links'[l] = IF l = t THEN [links[l] EXCEPT !.state = "used"] ELSE links[l]
        BY <1>18 DEF Spend
      <4>3. QED
        BY <2>1, <4>1, <4>2
    <3>2. QED
      BY <1>18, <3>1 DEF Spend
  <2>3. uses' \in [Link -> Nat]
    <3>1. ASSUME NEW l \in Link
          PROVE  uses'[l] \in Nat
      <4>1. uses[l] \in Nat
        OBVIOUS
      <4>2. uses'[l] = IF l = t THEN uses[l] + 1 ELSE uses[l]
        BY <1>18 DEF Spend
      <4>3. QED
        BY <4>1, <4>2
    <3>2. QED
      BY <1>18, <3>1 DEF Spend
  <2>4. QED
    BY <2>2, <2>3
<1>19. CASE VerifyCommit(r)
  <2>1. me.user \in User /\ me.link \in Link
    BY <1>0, <1>19 DEF VerifyCommit, RequestOwned, HoldsLink
  <2>2. ASSUME NEW row \in UserRow
        PROVE  [row EXCEPT !.verified = IF me.verified THEN @ ELSE TRUE] \in UserRow
    BY DEF UserRow
  <2>3. users' \in [User -> UserRow]
    BY <1>19, <2>2 DEF VerifyCommit
  <2>4. links[me.link].addr \in Email \cup {None}
    BY <2>1 DEF LinkRow
  <2>5. proved' \in [User -> SUBSET (Email \cup {None})]
    BY <1>19, <2>1, <2>4 DEF VerifyCommit
  <2>6. sessions' \in [SessionId -> SessionRow]
    <3>1. CASE OwnSession(me)
      BY <1>19, <3>1 DEF VerifyCommit
    <3>2. CASE ~OwnSession(me)
      <4>1. [user |-> me.user, state |-> "alive", pwd |-> None] \in SessionRow
        BY <2>1 DEF SessionRow
      <4>2. Revoked({me.sess}) \in [SessionId -> SessionRow]
        BY RevokedTyped
      <4>3. sessions' = [Revoked({me.sess}) EXCEPT ![NewSession] =
                           [user |-> me.user, state |-> "alive", pwd |-> None]]
        BY <1>19, <3>2 DEF VerifyCommit
      <4>4. QED
        BY <4>1, <4>2, <4>3, UpdateTyped
    <3>3. QED
      BY <3>1, <3>2
  <2>7. QED
    BY <1>3, <1>18, <1>19, <2>3, <2>5, <2>6 DEF VerifyCommit
<1>20. CASE ResetRevoke(r)
  <2> DEFINE C == {s \in SessionId : sessions[s].user = me.user}
  <2>1. [me EXCEPT !.pc = "reset_flushed", !.captured = C] \in RequestRow
    <3>1. C \in SUBSET (Link \cup SessionId)
      OBVIOUS
    <3>2. QED
      BY <1>0, <3>1, GotoCapturedTyped DEF PC
  <2>2. QED
    BY <1>1, <1>20, <2>1 DEF ResetRevoke
<1>21. CASE ResetCommit(r)
  <2>1. me.pwd \in Password \cup {None}
    BY <1>0 DEF RequestRow
  <2>2. ASSUME NEW row \in UserRow
        PROVE  [row EXCEPT !.pwd = me.pwd] \in UserRow
    BY <2>1 DEF UserRow
  <2>3. users' \in [User -> UserRow]
    BY <1>21, <2>2 DEF ResetCommit
  <2>4. QED
    BY <1>3, <1>18, <1>21, <2>3, RevokedTyped DEF ResetCommit
<1>22. CASE Abort(r)
  BY <1>3, <1>22 DEF Abort
<1>23. QED
  BY <1>4, <1>5, <1>6, <1>7, <1>8, <1>9, <1>10, <1>11, <1>12, <1>13, <1>14, <1>15,
     <1>16, <1>17, <1>19, <1>20, <1>21, <1>22 DEF Step

-----------------------------------------------------------------------------
(* Rows are added, never removed, and only by the request that registers.  *)
UsersGrow(r) ==
  \A u \in User : /\ Exists(u) => Exists(u)'
                  /\ Exists(u)' => Exists(u) \/ u = req[r].user
LinksGrow ==
  \A t \in Link : links[t].state # "none" => links'[t].state # "none"

(* What a request does keeps the other requests' rows in place.            *)
LEMMA OthersStayOwned ==
  ASSUME TablesOK, Owned, NEW r \in Request, NEW x, req' = [req EXCEPT ![r] = x],
         UsersGrow(r), LinksGrow, NEW q \in Request \ {r},
         \/ x.user = None
         \/ x.user = req[r].user
         \/ x.user \in User /\ Exists(x.user)
         \/ \A p \in Request : req[p].user # x.user
  PROVE  RequestOwned(q)'
<1> DEFINE me == req[q]
<1>1. req'[q] = me /\ req'[r] = x
  BY DEF TablesOK
<1>2. RequestOwned(q) /\ me.user \in User \cup {None} /\ me \in RequestRow
  BY DEF Owned, TablesOK, RequestRow
<1>3. me.pc \in Registering =>
        ~Exists(me.user)' /\ \A p \in Request \ {q} : req'[p].user # me.user
  <2> SUFFICES ASSUME me.pc \in Registering
               PROVE  ~Exists(me.user)' /\ \A p \in Request \ {q} : req'[p].user # me.user
    OBVIOUS
  <2>1. /\ me.user \in User /\ ~Exists(me.user)
        /\ \A p \in Request \ {q} : req[p].user # me.user
    BY <1>2 DEF RequestOwned, Registering
  <2>2. ~Exists(me.user)'
    BY <2>1 DEF UsersGrow
  <2>3. x.user # me.user
    BY <2>1, AccountsAssumption
  <2>4. QED
    BY <1>1, <2>1, <2>2, <2>3 DEF TablesOK
<1>4. me.pc \notin Registering /\ me.user # None => Exists(me.user)'
  BY <1>2 DEF RequestOwned, UsersGrow
<1>5. me.pc \in HoldsLink => me.link \in Link /\ links'[me.link].state # "none"
  BY <1>2 DEF RequestOwned, LinksGrow
<1>6. QED
  BY <1>1, <1>2, <1>3, <1>4, <1>5 DEF RequestOwned, Exists

(* A step that touches no table needs only its own request to be in order. *)
LEMMA QuietStep ==
  ASSUME TablesOK, Owned, NEW r \in Request, NEW x, req' = [req EXCEPT ![r] = x],
         UNCHANGED <<users, sessions, links>>, RequestOwned(r)',
         \/ x.user = None
         \/ x.user = req[r].user
         \/ x.user \in User /\ Exists(x.user)
         \/ \A p \in Request : req[p].user # x.user
  PROVE  Owned'
<1>1. UsersGrow(r) /\ LinksGrow
  BY DEF UsersGrow, LinksGrow, Exists
<1>2. RowsOwned'
  BY DEF Owned, RowsOwned, SessionsOwned, LinksOwned, Exists
<1>3. \A q \in Request \ {r} : RequestOwned(q)'
  BY <1>1, OthersStayOwned
<1>4. QED
  BY <1>2, <1>3 DEF Owned

(* A request that is done owns nothing.                                    *)
LEMMA DoneOwned ==
  ASSUME TablesOK, NEW r \in Request, Done(r)
  PROVE  RequestOwned(r)' /\ req' = [req EXCEPT ![r] = Idle] /\ Idle.user = None
<1>1. req'[r] = Idle
  BY DEF Done, TablesOK
<1>2. QED
  BY <1>1 DEF Done, RequestOwned, Idle, Registering, HoldsLink

LEMMA StartKeepsOwned ==
  ASSUME TablesOK, Owned, NEW r \in Request, Start(r)
  PROVE  Owned'
<1> USE DEF Registering, HoldsLink, Idle
<1>0. RowsOwned
  BY DEF Owned
<1>1. ASSUME NEW u \in User, NEW e \in Email, NEW n \in Nick, NEW p \in Password,
             RegisterLookup(r, u, e, n, p)
      PROVE  Owned'
  <2> DEFINE x == [Idle EXCEPT !.pc = "register_nick", !.user = u, !.email = e,
                               !.nick = n, !.pwd = p]
  <2>1. req' = [req EXCEPT ![r] = x] /\ req'[r] = x
    BY <1>1 DEF RegisterLookup, TablesOK
  <2>2. \A q \in Request : req[q].user # u
    BY <1>1 DEF RegisterLookup
  <2>3. \A q \in Request \ {r} : req'[q].user # u
    BY <2>1, <2>2 DEF TablesOK
  <2>4. ~Exists(u)'
    BY <1>1 DEF RegisterLookup, Exists
  <2>5. /\ x.pc = "register_nick" /\ x.user = u /\ x.email = e /\ x.captured = {}
        /\ e # None
    BY AccountsAssumption
  <2> HIDE DEF x
  <2>6. RequestOwned(r)'
    BY <2>1, <2>3, <2>4, <2>5 DEF RequestOwned
  <2>7. UNCHANGED <<users, sessions, links>>
    BY <1>1 DEF RegisterLookup
  <2>8. QED
    BY <2>1, <2>2, <2>5, <2>6, <2>7, QuietStep
<1>2. ASSUME NEW u \in User, Exists(u), NEW x \in RequestRow, x.user = u,
             x.pc \in {"login", "logout", "resend", "profile", "change", "forgot",
                      "reset", "verify_link"},
             x.pc = "change" => x.email # None,
             x.pc \in HoldsLink => x.link \in Link /\ links[x.link].state # "none",
             req' = [req EXCEPT ![r] = x],
             UNCHANGED <<users, sessions, links>>
      PROVE  Owned'
  <2>1. req'[r] = x
    BY <1>2 DEF TablesOK
  <2>2. Exists(u)'
    BY <1>2 DEF Exists
  <2>3. RequestOwned(r)'
    BY <1>2, <2>1, <2>2 DEF RequestOwned
  <2>4. QED
    BY <1>2, <2>3, QuietStep
<1>3. ASSUME NEW e \in Email, NEW p \in Password, LoginRead(r, e, p)
      PROVE  Owned'
  <2>1. PICK u \in User : Exists(u) /\
          req' = [req EXCEPT ![r] = [Idle EXCEPT !.pc = "login", !.user = u, !.pwd = p]]
    BY <1>3 DEF LoginRead, Owners
  <2>2. [Idle EXCEPT !.pc = "login", !.user = u, !.pwd = p] \in RequestRow
    BY DEF RequestRow, PC
  <2>3. QED
    BY <1>2, <1>3, <2>1, <2>2 DEF LoginRead
<1>4. ASSUME NEW s \in SessionId, Alive(s), NEW x \in RequestRow, x.user = sessions[s].user,
             x.pc \in {"logout", "resend", "profile", "change", "verify_link"},
             x.pc = "change" => x.email # None,
             x.pc \in HoldsLink => x.link \in Link /\ links[x.link].state # "none",
             req' = [req EXCEPT ![r] = x],
             UNCHANGED <<users, sessions, links>>
      PROVE  Owned'
  BY <1>0, <1>2, <1>4, ResolvedTyped
<1>5. ASSUME NEW s \in SessionId, Alive(s)
      PROVE  Resolved(s) \in RequestRow /\ Resolved(s).user = sessions[s].user
  BY <1>0, <1>5, ResolvedTyped DEF Resolved
<1>6. ASSUME NEW s \in SessionId, LogoutResolve(r, s)
      PROVE  Owned'
  <2> DEFINE x == [Resolved(s) EXCEPT !.pc = "logout"]
  <2>1. Alive(s) /\ req' = [req EXCEPT ![r] = x]
    BY <1>6 DEF LogoutResolve
  <2>2. x \in RequestRow /\ x.user = sessions[s].user /\ x.pc = "logout"
    BY <1>5, <2>1 DEF RequestRow, PC
  <2>3. QED
    BY <1>4, <1>6, <2>1, <2>2 DEF LogoutResolve
<1>7. ASSUME NEW s \in SessionId, ResendResolve(r, s)
      PROVE  Owned'
  <2> DEFINE x == [Resolved(s) EXCEPT !.pc = "resend"]
  <2>1. Alive(s) /\ req' = [req EXCEPT ![r] = x]
    BY <1>7 DEF ResendResolve
  <2>2. x \in RequestRow /\ x.user = sessions[s].user /\ x.pc = "resend"
    BY <1>5, <2>1 DEF RequestRow, PC
  <2>3. QED
    BY <1>4, <1>7, <2>1, <2>2 DEF ResendResolve
<1>8. ASSUME NEW s \in SessionId, NEW n \in Nick, ProfileLookup(r, s, n)
      PROVE  Owned'
  <2> DEFINE m == IF users[sessions[s].user].nick = n THEN None ELSE n
             x == [Resolved(s) EXCEPT !.pc = "profile", !.nick = m]
  <2>1. Alive(s) /\ req' = [req EXCEPT ![r] = x]
    BY <1>8 DEF ProfileLookup
  <2>2. x \in RequestRow /\ x.user = sessions[s].user /\ x.pc = "profile"
    <3>1. m \in Nick \cup {None}
      OBVIOUS
    <3> HIDE DEF m
    <3>2. QED
      BY <1>5, <2>1, <3>1 DEF RequestRow, PC
  <2>3. QED
    BY <1>4, <1>8, <2>1, <2>2 DEF ProfileLookup
<1>9. ASSUME NEW s \in SessionId, NEW e \in Email, ChangeLookup(r, s, e)
      PROVE  Owned'
  <2> DEFINE x == [Resolved(s) EXCEPT !.pc = "change", !.email = e]
  <2>1. Alive(s) /\ req' = [req EXCEPT ![r] = x]
    BY <1>9 DEF ChangeLookup
  <2>2. x \in RequestRow /\ x.user = sessions[s].user /\ x.pc = "change" /\ x.email = e
    BY <1>5, <2>1 DEF RequestRow, PC
  <2>3. e # None
    BY AccountsAssumption
  <2>4. QED
    BY <1>4, <1>9, <2>1, <2>2, <2>3 DEF ChangeLookup
<1>10. ASSUME NEW e \in Email, ForgotRead(r, e)
       PROVE  Owned'
  <2>1. PICK u \in User : Exists(u) /\
          req' = [req EXCEPT ![r] = [Idle EXCEPT !.pc = "forgot", !.user = u, !.from = e]]
    BY <1>10 DEF ForgotRead, Owners
  <2>2. [Idle EXCEPT !.pc = "forgot", !.user = u, !.from = e] \in RequestRow
    BY DEF RequestRow, PC
  <2>3. QED
    BY <1>2, <1>10, <2>1, <2>2 DEF ForgotRead
<1>11. ASSUME NEW t \in Link, links[t].addr # None
       PROVE  links[t].state # "none"
  BY <1>0, <1>11 DEF RowsOwned, LinksOwned
<1>12. ASSUME NEW t \in Link, NEW s \in SessionId \cup {None}, VerifyResolve(r, t, s)
       PROVE  Owned'
  <2>1. links[t].state # "none" /\ UNCHANGED <<users, sessions, links>>
    BY <1>11, <1>12 DEF VerifyResolve
  <2>2. CASE s = None
    <3> DEFINE x == [Idle EXCEPT !.pc = "verify_link", !.link = t]
    <3>1. req' = [req EXCEPT ![r] = x] /\ req'[r] = x
      BY <1>12, <2>2 DEF VerifyResolve, TablesOK
    <3>2. x.pc = "verify_link" /\ x.user = None /\ x.link = t
      OBVIOUS
    <3> HIDE DEF x
    <3>3. RequestOwned(r)'
      BY <2>1, <3>1, <3>2 DEF RequestOwned
    <3>4. QED
      BY <2>1, <3>1, <3>2, <3>3, QuietStep
  <2>3. CASE s # None
    <3> DEFINE x == [Resolved(s) EXCEPT !.pc = "verify_link", !.link = t]
    <3>1. s \in SessionId /\ Alive(s) /\ req' = [req EXCEPT ![r] = x]
      BY <1>12, <2>3 DEF VerifyResolve
    <3>2. x \in RequestRow /\ x.user = sessions[s].user /\ x.pc = "verify_link" /\ x.link = t
      BY <1>5, <3>1 DEF RequestRow, PC
    <3>3. QED
      BY <1>4, <2>1, <3>1, <3>2
  <2>4. QED
    BY <2>2, <2>3
<1>13. ASSUME NEW t \in Link, NEW p \in Password, ResetLink(r, t, p)
       PROVE  Owned'
  <2> DEFINE u == links[t].user
             x == [Idle EXCEPT !.pc = "reset", !.link = t, !.user = u, !.pwd = p]
  <2>1. links[t].state # "none" /\ req' = [req EXCEPT ![r] = x]
    BY <1>11, <1>13 DEF ResetLink
  <2>2. u \in User /\ Exists(u)
    BY <1>0, <2>1 DEF RowsOwned, LinksOwned
  <2>3. x \in RequestRow /\ x.user = u /\ x.pc = "reset" /\ x.link = t
    BY <2>2 DEF RequestRow, PC
  <2>4. UNCHANGED <<users, sessions, links>>
    BY <1>13 DEF ResetLink
  <2> HIDE DEF x, u
  <2>5. QED
    BY <1>2, <2>1, <2>2, <2>3, <2>4
<1>14. QED
  BY <1>1, <1>3, <1>6, <1>7, <1>8, <1>9, <1>10, <1>12, <1>13 DEF Start

(* A step that changes the tables keeps the rows and its own request in    *)
(* order.                                                                  *)
LEMMA TableStep ==
  ASSUME TablesOK, Owned, NEW r \in Request, NEW x, req' = [req EXCEPT ![r] = x],
         UsersGrow(r), LinksGrow, RowsOwned', RequestOwned(r)',
         x.user \in {None, req[r].user}
  PROVE  Owned'
<1>1. \A q \in Request \ {r} : RequestOwned(q)'
  BY OthersStayOwned
<1>2. QED
  BY <1>1 DEF Owned

LEMMA OpenOwned ==
  ASSUME TablesOK, Owned, NEW r \in Request, UsersGrow(r), NEW u \in User, Exists(u)',
         NEW pwd, OpenSession(u, pwd)
  PROVE  SessionsOwned'
<1> SUFFICES ASSUME NEW s \in SessionId, sessions'[s].state # "none"
             PROVE  sessions'[s].user \in User /\ users'[sessions'[s].user].email # None
  BY DEF SessionsOwned, Exists
<1>1. CASE s = NewSession
  <2>1. sessions'[s] = [user |-> u, state |-> "alive", pwd |-> pwd]
    BY <1>1 DEF OpenSession, TablesOK
  <2>2. QED
    BY <2>1 DEF Exists
<1>2. CASE s # NewSession
  <2>1. sessions'[s] = sessions[s]
    BY <1>2 DEF OpenSession, TablesOK
  <2>2. sessions[s].user \in User /\ Exists(sessions[s].user)
    BY <2>1 DEF Owned, RowsOwned, SessionsOwned
  <2>3. QED
    BY <2>1, <2>2 DEF UsersGrow, Exists
<1>3. QED
  BY <1>1, <1>2

LEMMA RevokedRow ==
  ASSUME TablesOK, NEW S, NEW s \in SessionId
  PROVE  /\ Revoked(S)[s].user = sessions[s].user
         /\ Revoked(S)[s].pwd = sessions[s].pwd
         /\ sessions[s].state = "none" => Revoked(S)[s] = sessions[s]
         /\ Revoked(S)[s].state = "none" => sessions[s].state = "none"
<1>1. sessions[s] \in SessionRow
  BY DEF TablesOK
<1>2. QED
  BY <1>1 DEF Revoked, SessionRow

LEMMA RevokedOwned ==
  ASSUME TablesOK, Owned, NEW r \in Request, UsersGrow(r), NEW S, sessions' = Revoked(S)
  PROVE  SessionsOwned'
<1> SUFFICES ASSUME NEW s \in SessionId, sessions'[s].state # "none"
             PROVE  sessions'[s].user \in User /\ users'[sessions'[s].user].email # None
  BY DEF SessionsOwned, Exists
<1>1. sessions[s].state # "none" /\ sessions'[s].user = sessions[s].user
  BY RevokedRow
<1>2. sessions[s].user \in User /\ Exists(sessions[s].user)
  BY <1>1 DEF Owned, RowsOwned, SessionsOwned
<1>3. QED
  BY <1>1, <1>2 DEF UsersGrow, Exists

(* What issuing a link does to each row of auth_tokens.                    *)
LEMMA IssuedRow ==
  ASSUME TablesOK, NEW r \in Request, NEW type, FreeLinks # {}, IssueLink(r, type),
         NEW t \in Link
  PROVE  /\ NewLink \in Link /\ links[NewLink].state = "none"
         /\ t = NewLink => links'[t] = [user |-> req[r].user, type |-> type,
                                        state |-> "unused", addr |-> None, by |-> r]
         /\ t # NewLink => /\ links'[t].user = links[t].user
                           /\ links'[t].type = links[t].type
                           /\ links'[t].addr = links[t].addr
                           /\ links'[t].by = links[t].by
                           /\ \/ /\ links'[t].state = links[t].state
                                 /\ t \in req[r].captured => links[t].state \notin Live
                              \/ /\ links[t].state \in Live /\ t \in req[r].captured
                                 /\ links'[t].state = "used"
<1>1. NewLink \in Link /\ links[NewLink].state = "none"
  BY NewIds
<1>2. links[t] \in LinkRow
  BY DEF TablesOK
<1>3. t = NewLink => links'[t] = [user |-> req[r].user, type |-> type,
                                  state |-> "unused", addr |-> None, by |-> r]
  BY DEF IssueLink
<1>4. ASSUME t # NewLink, t \in req[r].captured, links[t].state \in Live
      PROVE  links'[t] = [links[t] EXCEPT !.state = "used"]
  BY <1>4 DEF IssueLink
<1>5. ASSUME t # NewLink, ~(t \in req[r].captured /\ links[t].state \in Live)
      PROVE  links'[t] = links[t]
  BY <1>5 DEF IssueLink
<1>6. QED
  BY <1>1, <1>2, <1>3, <1>4, <1>5 DEF LinkRow

LEMMA IssueOwned ==
  ASSUME TablesOK, Owned, NEW r \in Request, UsersGrow(r), NEW type,
         NEW u \in User, u = req[r].user, Exists(u)', FreeLinks # {},
         IssueLink(r, type)
  PROVE  LinksOwned' /\ LinksGrow /\ NewLink \in Link /\ links'[NewLink].state # "none"
<1>1. ASSUME NEW t \in Link
      PROVE  /\ IF links'[t].state = "none" THEN links'[t].addr = None
                ELSE /\ links'[t].user \in User /\ users'[links'[t].user].email # None
                     /\ links'[t].by \in Request
             /\ links[t].state # "none" => links'[t].state # "none"
  <2>1. CASE t = NewLink
    <3>0. /\ links[t].state = "none"
          /\ links'[t] = [user |-> u, type |-> type, state |-> "unused",
                          addr |-> None, by |-> r]
      BY <2>1, IssuedRow
    <3>1. /\ links'[t].user = u /\ links'[t].state = "unused" /\ links'[t].by = r
          /\ links[t].state = "none"
      BY <3>0
    <3>2. users'[u].email # None
      BY DEF Exists
    <3>3. QED
      BY <3>1, <3>2
  <2>2. CASE t # NewLink
    <3>1. /\ links'[t].user = links[t].user /\ links'[t].addr = links[t].addr
          /\ links'[t].by = links[t].by
          /\ links'[t].state = "none" <=> links[t].state = "none"
      BY <2>2, IssuedRow DEF Live
    <3>2. IF links[t].state = "none" THEN links[t].addr = None
          ELSE /\ links[t].user \in User /\ users[links[t].user].email # None
               /\ links[t].by \in Request
      BY DEF Owned, RowsOwned, LinksOwned, Exists
    <3>3. links[t].user \in User /\ users[links[t].user].email # None
            => users'[links[t].user].email # None
      BY DEF UsersGrow, Exists
    <3>4. QED
      BY <3>1, <3>2, <3>3
  <2>3. QED
    BY <2>1, <2>2
<1>2. NewLink \in Link /\ links'[NewLink].state # "none"
  <2>1. NewLink \in Link
    BY NewIds
  <2>2. links'[NewLink] = [user |-> u, type |-> type, state |-> "unused",
                           addr |-> None, by |-> r]
    BY <2>1, IssuedRow
  <2>3. QED
    BY <2>1, <2>2
<1>3. LinksOwned'
  BY <1>1 DEF LinksOwned, Exists
<1>4. LinksGrow
  BY <1>1 DEF LinksGrow
<1>5. QED
  BY <1>2, <1>3, <1>4

LEMMA StepKeepsOwned ==
  ASSUME TablesOK, Owned, NEW r \in Request, Step(r)
  PROVE  Owned'
<1> DEFINE me == req[r]
<1>0. /\ me \in RequestRow /\ RequestOwned(r) /\ RowsOwned /\ SessionsOwned /\ LinksOwned
      /\ me.user \in User \cup {None} /\ me.captured \in SUBSET (Link \cup SessionId)
  BY DEF TablesOK, Owned, RowsOwned, RequestRow
<1>1. None \notin User \cup Email \cup Link
  BY AccountsAssumption
(* Steps that touch no table.                                              *)
<1>2. ASSUME Done(r), UNCHANGED <<users, sessions, links>>
      PROVE  Owned'
  BY <1>2, DoneOwned, QuietStep
<1>3. ASSUME NEW x \in RequestRow, req' = [req EXCEPT ![r] = x],
             UNCHANGED <<users, sessions, links>>,
             x.user = me.user, me.user \in User, x.email = me.email, x.link = me.link,
             \/ me.pc = "register_nick" /\ x.pc = "register_commit" /\ x.captured = me.captured
             \/ me.pc = "resend" /\ x.pc = "resend_flushed"
             \/ me.pc = "change" /\ x.pc = "change_flushed"
             \/ me.pc = "forgot" /\ x.pc = "forgot_flushed"
             \/ me.pc = "reset" /\ x.pc = "reset_flushed"
      PROVE  Owned'
  <2>1. req'[r] = x /\ \A q \in Request \ {r} : req'[q] = req[q]
    BY <1>3 DEF TablesOK
  <2>2. RequestOwned(r)'
    BY <1>0, <1>1, <1>3, <2>1 DEF RequestOwned, Registering, HoldsLink, Exists
  <2>3. QED
    BY <1>3, <2>2, QuietStep
<1>4. ASSUME NEW pc \in PC, NEW C \in SUBSET (Link \cup SessionId)
      PROVE  LET x == [me EXCEPT !.pc = pc, !.captured = C] IN
             /\ x \in RequestRow /\ x.user = me.user /\ x.email = me.email
             /\ x.link = me.link /\ x.pc = pc
  BY <1>0, GotoCapturedTyped DEF RequestRow
<1>5. CASE RegisterNick(r)
  <2>1. CASE Done(r)
    BY <1>2, <1>5, <2>1 DEF RegisterNick
  <2>2. CASE Goto(r, "register_commit")
    <3> DEFINE x == [me EXCEPT !.pc = "register_commit"]
    <3>1. /\ x \in RequestRow /\ x.user = me.user /\ x.email = me.email /\ x.link = me.link
          /\ x.pc = "register_commit" /\ x.captured = me.captured
      BY <1>0 DEF RequestRow, PC
    <3>2. req' = [req EXCEPT ![r] = x] /\ me.pc = "register_nick" /\ me.user \in User
      BY <1>0, <1>5, <2>2 DEF RegisterNick, Goto, RequestOwned
    <3>3. UNCHANGED <<users, sessions, links>>
      BY <1>5 DEF RegisterNick
    <3> HIDE DEF x
    <3>4. QED
      BY <1>3, <3>1, <3>2, <3>3
  <2>3. QED
    BY <1>5, <2>1, <2>2 DEF RegisterNick
<1>6. ASSUME NEW pc \in PC, NEW C \in SUBSET (Link \cup SessionId),
             req' = [req EXCEPT ![r] = [me EXCEPT !.pc = pc, !.captured = C]],
             UNCHANGED <<users, sessions, links>>, me.user \in User,
             \/ me.pc = "resend" /\ pc = "resend_flushed"
             \/ me.pc = "change" /\ pc = "change_flushed"
             \/ me.pc = "forgot" /\ pc = "forgot_flushed"
             \/ me.pc = "reset" /\ pc = "reset_flushed"
      PROVE  Owned'
  <2> DEFINE x == [me EXCEPT !.pc = pc, !.captured = C]
  <2>1. /\ x \in RequestRow /\ x.user = me.user /\ x.email = me.email
        /\ x.link = me.link /\ x.pc = pc
    BY <1>4
  <2>2. req' = [req EXCEPT ![r] = x]
    BY <1>6
  <2> HIDE DEF x
  <2>3. QED
    BY <1>3, <1>6, <2>1, <2>2
<1>7. ASSUME NEW type
      PROVE  LinksOf(me.user, type) \in SUBSET (Link \cup SessionId)
  BY DEF LinksOf
<1>8. CASE ResendInvalidate(r)
  <2>1. me.user \in User /\ me.pc = "resend"
    BY <1>0, <1>8 DEF ResendInvalidate, RequestOwned
  <2>2. /\ UNCHANGED <<users, sessions, links>>
        /\ req' = [req EXCEPT ![r] = [me EXCEPT !.pc = "resend_flushed",
                                        !.captured = LinksOf(me.user, "verify_email")]]
    BY <1>8 DEF ResendInvalidate, TablesOK
  <2>3. QED
    BY <1>6, <1>7, <2>1, <2>2 DEF PC
<1>9. CASE ForgotInvalidate(r)
  <2>1. me.user \in User /\ me.pc = "forgot"
    BY <1>0, <1>9 DEF ForgotInvalidate, RequestOwned
  <2>2. /\ UNCHANGED <<users, sessions, links>>
        /\ req' = [req EXCEPT ![r] = [me EXCEPT !.pc = "forgot_flushed",
                                        !.captured = LinksOf(me.user, "reset_password")]]
    BY <1>9 DEF ForgotInvalidate, TablesOK
  <2>3. QED
    BY <1>6, <1>7, <2>1, <2>2 DEF PC
<1>10. CASE ChangeFlush(r)
  <2>1. me.user \in User /\ me.pc = "change" /\ UNCHANGED <<users, sessions, links>>
    BY <1>0, <1>10 DEF ChangeFlush, RequestOwned
  <2>2. CASE Done(r)
    BY <1>2, <2>1, <2>2
  <2>3. CASE req' = [req EXCEPT ![r].pc = "change_flushed",
                                ![r].captured = LinksOf(me.user, "verify_email")]
    <3>1. req' = [req EXCEPT ![r] = [me EXCEPT !.pc = "change_flushed",
                                        !.captured = LinksOf(me.user, "verify_email")]]
      BY <2>3 DEF TablesOK
    <3>2. QED
      BY <1>6, <1>7, <2>1, <3>1 DEF PC
  <2>4. QED
    BY <1>10, <2>2, <2>3 DEF ChangeFlush
<1>11. CASE ResetRevoke(r)
  <2> DEFINE C == {s \in SessionId : sessions[s].user = me.user}
  <2>1. me.user \in User /\ me.pc = "reset"
    BY <1>0, <1>11 DEF ResetRevoke, RequestOwned
  <2>2. /\ UNCHANGED <<users, sessions, links>>
        /\ req' = [req EXCEPT ![r] = [me EXCEPT !.pc = "reset_flushed", !.captured = C]]
    BY <1>11 DEF ResetRevoke, TablesOK
  <2>3. C \in SUBSET (Link \cup SessionId)
    OBVIOUS
  <2> HIDE DEF C
  <2>4. QED
    BY <1>6, <2>1, <2>2, <2>3 DEF PC
<1>12. CASE VerifyLink(r)
  <2>1. UNCHANGED <<users, sessions, links>>
    BY <1>12 DEF VerifyLink
  <2>2. CASE Done(r)
    BY <1>2, <2>1, <2>2
  <2>3. CASE Goto(r, "verify_user")
    <3> DEFINE x == [me EXCEPT !.pc = "verify_user"]
    <3>1. /\ x.user = me.user /\ x.link = me.link /\ x.pc = "verify_user"
      BY <1>0 DEF RequestRow
    <3>2. req' = [req EXCEPT ![r] = x] /\ me.pc = "verify_link" /\ req'[r] = x
      BY <1>12, <2>3 DEF VerifyLink, Goto, TablesOK
    <3> HIDE DEF x
    <3>3. RequestOwned(r)'
      BY <1>0, <1>1, <2>1, <3>1, <3>2 DEF RequestOwned, Registering, HoldsLink, Exists
    <3>4. QED
      BY <2>1, <3>1, <3>2, <3>3, QuietStep
  <2>4. QED
    BY <1>12, <2>2, <2>3 DEF VerifyLink
<1>13. CASE VerifyUser(r)
  <2>1. me.link \in Link /\ links[me.link].state # "none"
    BY <1>0, <1>13 DEF VerifyUser, RequestOwned, HoldsLink
  <2>2. PICK u \in User : u = links[me.link].user /\ Exists(u)
    BY <1>0, <2>1 DEF LinksOwned
  <2> DEFINE v == IF me.user = u THEN me.verified ELSE users[u].verified
             x == [me EXCEPT !.pc = "verify_commit", !.user = u, !.verified = v]
  <2>3. UNCHANGED <<users, sessions, links>>
    BY <1>13 DEF VerifyUser
  <2>4. req' = [req EXCEPT ![r] = x] /\ req'[r] = x
    BY <1>13, <2>2 DEF VerifyUser, TablesOK
  <2>5. x.user = u /\ x.link = me.link /\ x.pc = "verify_commit"
    BY <1>0 DEF RequestRow
  <2> HIDE DEF x
  <2>6. users'[u].email # None /\ links'[me.link].state # "none"
    BY <2>1, <2>2, <2>3 DEF Exists
  <2>7. RequestOwned(r)'
    BY <2>1, <2>4, <2>5, <2>6 DEF RequestOwned, Registering, HoldsLink, Exists
  <2>8. QED
    BY <2>2, <2>3, <2>4, <2>5, <2>7, QuietStep
<1>14. CASE Abort(r)
  BY <1>2, <1>14 DEF Abort
(* Steps that write.                                                       *)
<1>15. ASSUME \A u \in User : Exists(u) <=> users'[u].email # None
       PROVE  UsersGrow(r)
  BY <1>15 DEF UsersGrow, Exists
<1>16. ASSUME UsersGrow(r), LinksGrow, SessionsOwned', LinksOwned', Done(r)
       PROVE  Owned'
  <2>1. RequestOwned(r)' /\ req' = [req EXCEPT ![r] = Idle] /\ Idle.user = None
    BY <1>16, DoneOwned
  <2>2. RowsOwned'
    BY <1>16 DEF RowsOwned
  <2>3. QED
    BY <1>16, <2>1, <2>2, TableStep
<1>17. ASSUME UNCHANGED users
       PROVE  UsersGrow(r)
  BY <1>17 DEF UsersGrow, Exists
<1>18. ASSUME UNCHANGED links, UsersGrow(r)
       PROVE  LinksGrow /\ LinksOwned'
  <2>1. LinksGrow
    BY <1>18 DEF LinksGrow
  <2>2. QED
    BY <1>0, <1>18, <2>1 DEF LinksOwned, UsersGrow, Exists
<1>19. ASSUME UNCHANGED sessions, UsersGrow(r)
       PROVE  SessionsOwned'
  BY <1>0, <1>19 DEF SessionsOwned, UsersGrow, Exists
<1>20. CASE LoginCommit(r)
  <2>1. me.user \in User /\ Exists(me.user)
    BY <1>0, <1>1, <1>20 DEF LoginCommit, RequestOwned, Registering
  <2>2. UsersGrow(r) /\ LinksGrow /\ LinksOwned'
    BY <1>17, <1>18, <1>20 DEF LoginCommit
  <2>3. SessionsOwned'
    <3>1. PICK u \in User : u = me.user /\ Exists(u)
      BY <2>1
    <3>2. OpenSession(u, me.pwd) /\ Exists(u)'
      BY <1>20, <3>1 DEF LoginCommit, Exists
    <3>3. QED
      BY <2>2, <3>2, OpenOwned
  <2>4. QED
    BY <1>16, <1>20, <2>2, <2>3 DEF LoginCommit
<1>21. CASE LogoutCommit(r)
  <2>1. UsersGrow(r) /\ LinksGrow /\ LinksOwned'
    BY <1>17, <1>18, <1>21 DEF LogoutCommit
  <2>2. SessionsOwned'
    BY <1>21, <2>1, RevokedOwned DEF LogoutCommit
  <2>3. QED
    BY <1>16, <1>21, <2>1, <2>2 DEF LogoutCommit
<1>22. CASE ProfileCommit(r)
  <2>1. UsersGrow(r)
    <3>1. CASE UNCHANGED users
      BY <1>17, <3>1
    <3>2. CASE users' = [users EXCEPT ![me.user].nick = me.nick]
      <4>1. ASSUME NEW u \in User
            PROVE  users'[u].email = users[u].email
        <5>1. users[u] \in UserRow
          BY DEF TablesOK
        <5>2. users'[u] = IF u = me.user THEN [users[u] EXCEPT !.nick = me.nick] ELSE users[u]
          BY <3>2 DEF TablesOK
        <5>3. QED
          BY <5>1, <5>2 DEF UserRow
      <4>2. QED
        BY <1>15, <4>1 DEF Exists
    <3>3. QED
      BY <1>22, <3>1, <3>2 DEF ProfileCommit
  <2>2. LinksGrow /\ LinksOwned' /\ SessionsOwned'
    BY <1>18, <1>19, <1>22, <2>1 DEF ProfileCommit
  <2>3. QED
    BY <1>16, <1>22, <2>1, <2>2 DEF ProfileCommit
(* Steps that issue a link and go on to mail it.                           *)
<1>23. ASSUME NEW type, NEW u \in User, u = me.user, users'[u].email # None, UsersGrow(r),
              SessionsOwned', FreeLinks # {}, IssueLink(r, type),
              NEW x, req' = [req EXCEPT ![r] = x], x.user = u, x.link = NewLink,
              x.pc \in {"deliver_loaded", "deliver_current"}
       PROVE  Owned'
  <2>1. LinksOwned' /\ LinksGrow /\ NewLink \in Link /\ links'[NewLink].state # "none"
    BY <1>23, IssueOwned DEF Exists
  <2>2. req'[r] = x
    BY <1>23 DEF TablesOK
  <2>3. RequestOwned(r)'
    BY <1>23, <2>1, <2>2 DEF RequestOwned, Registering, HoldsLink, Exists
  <2>4. RowsOwned'
    BY <1>23, <2>1 DEF RowsOwned
  <2>5. QED
    BY <1>23, <2>1, <2>3, <2>4, TableStep
<1>24. ASSUME NEW pc \in PC
       PROVE  /\ LET x == [me EXCEPT !.pc = pc, !.link = NewLink, !.captured = {}] IN
                 x.user = me.user /\ x.link = NewLink /\ x.pc = pc
              /\ LET x == [me EXCEPT !.pc = pc, !.link = NewLink] IN
                 x.user = me.user /\ x.link = NewLink /\ x.pc = pc
  BY <1>0 DEF RequestRow
<1>25. CASE ResendCommit(r)
  <2>1. PICK u \in User : u = me.user /\ users[u].email # None
    BY <1>0, <1>1, <1>25 DEF ResendCommit, RequestOwned, Registering, Exists
  <2> DEFINE x == [me EXCEPT !.pc = "deliver_loaded", !.link = NewLink, !.captured = {}]
  <2>2. req' = [req EXCEPT ![r] = x]
    BY <1>25 DEF ResendCommit, TablesOK
  <2>3. x.user = me.user /\ x.link = NewLink /\ x.pc = "deliver_loaded"
    BY <1>24 DEF PC
  <2>4. UsersGrow(r) /\ SessionsOwned'
    BY <1>17, <1>19, <1>25 DEF ResendCommit
  <2> HIDE DEF x
  <2>5. QED
    BY <1>23, <1>25, <2>1, <2>2, <2>3, <2>4 DEF ResendCommit
<1>26. CASE ForgotCommit(r)
  <2>1. PICK u \in User : u = me.user /\ users[u].email # None
    BY <1>0, <1>1, <1>26 DEF ForgotCommit, RequestOwned, Registering, Exists
  <2> DEFINE x == [me EXCEPT !.pc = "deliver_loaded", !.link = NewLink, !.captured = {}]
  <2>2. req' = [req EXCEPT ![r] = x]
    BY <1>26 DEF ForgotCommit, TablesOK
  <2>3. x.user = me.user /\ x.link = NewLink /\ x.pc = "deliver_loaded"
    BY <1>24 DEF PC
  <2>4. UsersGrow(r) /\ SessionsOwned'
    BY <1>17, <1>19, <1>26 DEF ForgotCommit
  <2> HIDE DEF x
  <2>5. QED
    BY <1>23, <1>26, <2>1, <2>2, <2>3, <2>4 DEF ForgotCommit
<1>27. CASE ChangeCommit(r)
  <2>1. PICK u \in User : u = me.user /\ users[u].email # None /\ me.email # None
    BY <1>0, <1>1, <1>27 DEF ChangeCommit, RequestOwned, Registering, Exists
  <2> DEFINE x == [me EXCEPT !.pc = "deliver_current", !.link = NewLink, !.captured = {}]
  <2>2. req' = [req EXCEPT ![r] = x]
    BY <1>27 DEF ChangeCommit, TablesOK
  <2>3. x.user = me.user /\ x.link = NewLink /\ x.pc = "deliver_current"
    BY <1>24 DEF PC
  <2>4. ASSUME NEW v \in User
        PROVE  users'[v].email # None <=> users[v].email # None
    <3>1. users[v] \in UserRow
      BY DEF TablesOK
    <3>2. users'[v] = IF v = me.user THEN ChangedRow(users[v], me) ELSE users[v]
      BY <1>27 DEF ChangeCommit, TablesOK
    <3>3. ChangedRow(users[v], me).email \in {me.email, users[v].email}
      BY <3>1 DEF ChangedRow, UserRow
    <3>4. QED
      BY <2>1, <3>2, <3>3
  <2>5. UsersGrow(r)
    BY <1>15, <2>4 DEF Exists
  <2>6. SessionsOwned' /\ users'[u].email # None
    BY <1>19, <1>27, <2>1, <2>4, <2>5 DEF ChangeCommit
  <2> HIDE DEF x
  <2>7. QED
    BY <1>23, <1>27, <2>1, <2>2, <2>3, <2>5, <2>6 DEF ChangeCommit
<1>28. CASE RegisterCommit(r)
  <2>1. PICK u \in User : u = me.user /\ users[u].email = None /\ me.email # None
    BY <1>0, <1>28 DEF RegisterCommit, RequestOwned, Registering, Exists
  <2>2. CASE Done(r) /\ UNCHANGED <<users, sessions, links>>
    BY <1>2, <2>2
  <2>3. CASE /\ FreeLinks # {}
             /\ users' = [users EXCEPT ![me.user] = NewRow(me)]
             /\ IssueLink(r, "verify_email")
             /\ OpenSession(me.user, me.pwd)
             /\ req' = [req EXCEPT ![r].pc = "deliver_current", ![r].link = NewLink]
    <3> DEFINE x == [me EXCEPT !.pc = "deliver_current", !.link = NewLink]
    <3>1. req' = [req EXCEPT ![r] = x]
      BY <2>3 DEF TablesOK
    <3>2. x.user = me.user /\ x.link = NewLink /\ x.pc = "deliver_current"
      BY <1>24 DEF PC
    <3>3. NewRow(me).email = me.email
      BY DEF NewRow
    <3>4. users'[u].email # None /\ \A v \in User \ {u} : users'[v] = users[v]
      BY <2>1, <2>3, <3>3 DEF TablesOK
    <3>5. UsersGrow(r)
      BY <2>1, <3>4 DEF UsersGrow, Exists
    <3>6. SessionsOwned'
      <4>1. OpenSession(u, me.pwd) /\ Exists(u)'
        BY <2>1, <2>3, <3>4 DEF Exists
      <4>2. QED
        BY <3>5, <4>1, OpenOwned
    <3> HIDE DEF x
    <3>7. QED
      BY <1>23, <2>1, <2>3, <3>1, <3>2, <3>4, <3>5, <3>6
  <2>4. QED
    BY <1>28, <2>2, <2>3 DEF RegisterCommit
(* Steps that write one link.                                              *)
<1>29. ASSUME UsersGrow(r), NEW t \in Link, links[t].state # "none",
              \A l \in Link : links'[l].user = links[l].user /\ links'[l].by = links[l].by,
              \A l \in Link \ {t} : links'[l] = links[l], links'[t].state # "none"
       PROVE  LinksGrow /\ LinksOwned'
  <2>1. LinksGrow
    BY <1>29 DEF LinksGrow
  <2>2. ASSUME NEW l \in Link
        PROVE  IF links'[l].state = "none" THEN links'[l].addr = None
               ELSE /\ links'[l].user \in User /\ users'[links'[l].user].email # None
                    /\ links'[l].by \in Request
    <3>1. IF links[l].state = "none" THEN links[l].addr = None
          ELSE links[l].user \in User /\ Exists(links[l].user) /\ links[l].by \in Request
      BY <1>0 DEF LinksOwned
    <3>2. links[l].user \in User /\ Exists(links[l].user)
            => users'[links[l].user].email # None
      BY <1>29 DEF UsersGrow, Exists
    <3>3. QED
      BY <1>29, <3>1, <3>2
  <2>3. QED
    BY <2>1, <2>2 DEF LinksOwned, Exists
<1>30. ASSUME me.pc \in HoldsLink
       PROVE  me.link \in Link /\ links[me.link].state # "none" /\ links[me.link] \in LinkRow
  BY <1>0, <1>30 DEF RequestOwned, TablesOK
<1>31. CASE Deliver(r)
  <2>1. me.link \in Link /\ links[me.link].state # "none" /\ links[me.link] \in LinkRow
    BY <1>30, <1>31 DEF Deliver, HoldsLink
  <2> DEFINE a == IF me.pc = "deliver_loaded" THEN me.from ELSE users[me.user].email
  <2>2. \A l \in Link : links'[l] = IF l = me.link THEN [links[l] EXCEPT !.addr = a]
                                                   ELSE links[l]
    BY <1>31 DEF Deliver, TablesOK
  <2> HIDE DEF a
  <2>3. /\ links'[me.link].user = links[me.link].user
        /\ links'[me.link].by = links[me.link].by
        /\ links'[me.link].state = links[me.link].state
    BY <2>1, <2>2 DEF LinkRow
  <2>4. UsersGrow(r)
    BY <1>17, <1>31 DEF Deliver
  <2>5. LinksGrow /\ LinksOwned'
    BY <1>29, <2>1, <2>2, <2>3, <2>4
  <2>6. SessionsOwned'
    BY <1>19, <1>31, <2>4 DEF Deliver
  <2>7. QED
    BY <1>16, <1>31, <2>4, <2>5, <2>6 DEF Deliver
<1>32. ASSUME me.pc \in HoldsLink, Spend(me.link), UsersGrow(r)
       PROVE  LinksGrow /\ LinksOwned'
  <2>1. me.link \in Link /\ links[me.link].state # "none" /\ links[me.link] \in LinkRow
    BY <1>30, <1>32
  <2>2. \A l \in Link : links'[l] = IF l = me.link THEN [links[l] EXCEPT !.state = "used"]
                                                   ELSE links[l]
    BY <1>32 DEF Spend, TablesOK
  <2>3. /\ links'[me.link].user = links[me.link].user
        /\ links'[me.link].by = links[me.link].by
        /\ links'[me.link].state = "used"
    BY <2>1, <2>2 DEF LinkRow
  <2>4. QED
    BY <1>29, <1>32, <2>1, <2>2, <2>3
<1>33. CASE VerifyCommit(r)
  <2>1. PICK u \in User : u = me.user /\ users[u].email # None
    BY <1>0, <1>1, <1>33 DEF VerifyCommit, RequestOwned, Registering, Exists
  <2>2. UsersGrow(r)
    <3>1. ASSUME NEW v \in User
          PROVE  users'[v].email = users[v].email
      <4>1. users[v] \in UserRow
        BY DEF TablesOK
      <4>2. users'[v] = IF v = me.user
                        THEN [users[v] EXCEPT !.verified = IF me.verified THEN @ ELSE TRUE]
                        ELSE users[v]
        BY <1>33 DEF VerifyCommit, TablesOK
      <4>3. QED
        BY <4>1, <4>2 DEF UserRow
    <3>2. QED
      BY <1>15, <3>1 DEF Exists
  <2>3. LinksGrow /\ LinksOwned'
    BY <1>32, <1>33, <2>2 DEF VerifyCommit, HoldsLink
  <2>4. SessionsOwned'
    <3>1. CASE UNCHANGED sessions
      BY <1>19, <2>2, <3>1
    <3>2. CASE sessions' = [Revoked({me.sess}) EXCEPT ![NewSession] =
                              [user |-> me.user, state |-> "alive", pwd |-> None]]
      <4> SUFFICES ASSUME NEW s \in SessionId, sessions'[s].state # "none"
                   PROVE  sessions'[s].user \in User /\ users'[sessions'[s].user].email # None
        BY DEF SessionsOwned, Exists
      <4>1. Revoked({me.sess}) \in [SessionId -> SessionRow]
        BY RevokedTyped
      <4>2. CASE s = NewSession
        <5>1. sessions'[s] = [user |-> me.user, state |-> "alive", pwd |-> None]
          BY <3>2, <4>1, <4>2
        <5>2. users'[u].email # None
          BY <2>1, <2>2 DEF UsersGrow, Exists
        <5>3. QED
          BY <2>1, <5>1, <5>2
      <4>3. CASE s # NewSession
        <5>1. sessions'[s] = Revoked({me.sess})[s]
          BY <3>2, <4>1, <4>3
        <5>2. sessions[s].state # "none" /\ sessions'[s].user = sessions[s].user
          BY <5>1, RevokedRow
        <5>3. sessions[s].user \in User /\ Exists(sessions[s].user)
          BY <1>0, <5>2 DEF SessionsOwned
        <5>4. QED
          BY <2>2, <5>2, <5>3 DEF UsersGrow, Exists
      <4>4. QED
        BY <4>2, <4>3
    <3>3. QED
      BY <1>33, <3>1, <3>2 DEF VerifyCommit
  <2>5. QED
    BY <1>16, <1>33, <2>2, <2>3, <2>4 DEF VerifyCommit
<1>34. CASE ResetCommit(r)
  <2>1. UsersGrow(r)
    <3>1. ASSUME NEW v \in User
          PROVE  users'[v].email = users[v].email
      <4>1. users[v] \in UserRow
        BY DEF TablesOK
      <4>2. users'[v] = IF v = me.user THEN [users[v] EXCEPT !.pwd = me.pwd] ELSE users[v]
        BY <1>34 DEF ResetCommit, TablesOK
      <4>3. QED
        BY <4>1, <4>2 DEF UserRow
    <3>2. QED
      BY <1>15, <3>1 DEF Exists
  <2>2. LinksGrow /\ LinksOwned'
    BY <1>32, <1>34, <2>1 DEF ResetCommit, HoldsLink
  <2>3. SessionsOwned'
    BY <1>34, <2>1, RevokedOwned DEF ResetCommit
  <2>4. QED
    BY <1>16, <1>34, <2>1, <2>2, <2>3 DEF ResetCommit
<1>35. QED
  BY <1>5, <1>8, <1>9, <1>10, <1>11, <1>12, <1>13, <1>14, <1>20, <1>21, <1>22, <1>25,
     <1>26, <1>27, <1>28, <1>31, <1>33, <1>34 DEF Step

(* Time that runs out for a link or a session.                             *)
LEMMA ExpiryKeepsOwned ==
  ASSUME TablesOK, Owned,
         \/ \E t \in Link : ExpireLink(t)
         \/ \E s \in SessionId : ExpireSession(s)
  PROVE  TablesOK' /\ Owned'
<1>0. UNCHANGED <<users, req, proved, uses>>
  BY DEF ExpireLink, ExpireSession
<1>1. ASSUME NEW t \in Link, ExpireLink(t)
      PROVE  links' \in [Link -> LinkRow] /\ LinksOwned' /\ LinksGrow /\ UNCHANGED sessions
  <2>1. ASSUME NEW l \in Link
        PROVE  /\ links'[l] \in LinkRow /\ links'[l].user = links[l].user
               /\ links'[l].by = links[l].by /\ links'[l].addr = links[l].addr
               /\ links'[l].state = "none" <=> links[l].state = "none"
    <3>1. links[l] \in LinkRow
      BY DEF TablesOK
    <3>2. links'[l] = IF l = t THEN [links[l] EXCEPT !.state = "expired"] ELSE links[l]
      BY <1>1 DEF ExpireLink, TablesOK
    <3>3. l = t => links[l].state = "unused"
      BY <1>1 DEF ExpireLink
    <3>4. QED
      BY <3>1, <3>2, <3>3 DEF LinkRow
  <2>2. links' \in [Link -> LinkRow]
    BY <1>1, <2>1 DEF ExpireLink, TablesOK
  <2>3. LinksOwned
    BY DEF Owned, RowsOwned
  <2>4. LinksOwned'
    BY <1>0, <2>1, <2>3 DEF LinksOwned, Exists
  <2>5. QED
    BY <1>1, <2>1, <2>2, <2>4 DEF LinksGrow, ExpireLink
<1>2. ASSUME NEW s \in SessionId, ExpireSession(s)
      PROVE  sessions' \in [SessionId -> SessionRow] /\ SessionsOwned' /\ UNCHANGED links
  <2>1. ASSUME NEW q \in SessionId
        PROVE  /\ sessions'[q] \in SessionRow /\ sessions'[q].user = sessions[q].user
               /\ sessions'[q].state = "none" <=> sessions[q].state = "none"
    <3>1. sessions[q] \in SessionRow
      BY DEF TablesOK
    <3>2. sessions'[q] = IF q = s THEN [sessions[q] EXCEPT !.state = "expired"] ELSE sessions[q]
      BY <1>2 DEF ExpireSession, TablesOK
    <3>3. q = s => sessions[q].state = "alive"
      BY <1>2 DEF ExpireSession, Alive
    <3>4. QED
      BY <3>1, <3>2, <3>3 DEF SessionRow
  <2>2. sessions' \in [SessionId -> SessionRow]
    BY <1>2, <2>1 DEF ExpireSession, TablesOK
  <2>3. SessionsOwned
    BY DEF Owned, RowsOwned
  <2>4. SessionsOwned'
    BY <1>0, <2>1, <2>3 DEF SessionsOwned, Exists
  <2>5. QED
    BY <1>2, <2>2, <2>4 DEF ExpireSession
<1>3. TablesOK'
  BY <1>0, <1>1, <1>2 DEF TablesOK
<1>4. UNCHANGED links => LinksGrow /\ LinksOwned'
  BY <1>0 DEF LinksGrow, Owned, RowsOwned, LinksOwned, Exists
<1>5. UNCHANGED sessions => SessionsOwned'
  BY <1>0 DEF Owned, RowsOwned, SessionsOwned, Exists
<1>6. LinksGrow /\ RowsOwned'
  BY <1>1, <1>2, <1>4, <1>5 DEF RowsOwned
<1>7. ASSUME NEW r \in Request
      PROVE  RequestOwned(r)'
  <2>1. RequestOwned(r)
    BY DEF Owned
  <2>2. QED
    BY <1>0, <1>6, <2>1 DEF RequestOwned, LinksGrow, Exists
<1>8. QED
  BY <1>3, <1>6, <1>7 DEF Owned

-----------------------------------------------------------------------------
(* The tables and the requests keep their types, and every reference one   *)
(* of them holds is to a row that exists: TablesOK and Owned together are    *)
(* inductive.                                                              *)
THEOREM TypeCorrect == Spec => [](TypeOK /\ Owned)
<1>1. Init => TypeOK /\ Owned
  <2> SUFFICES ASSUME Init
               PROVE  TypeOK /\ Owned
    OBVIOUS
  <2> USE AccountsAssumption
  <2>1. users \in [User -> UserRow]
    <3>1. ASSUME NEW u \in Member
          PROVE  [email |-> Home[u], nick |-> Alias[u], pwd |-> Secret[u],
                  verified |-> TRUE] \in UserRow
      BY DEF UserRow
    <3>2. NoRow \in UserRow
      BY DEF NoRow, UserRow
    <3>3. QED
      BY <3>1, <3>2 DEF Init
  <2>2. sessions \in [SessionId -> SessionRow]
    BY DEF Init, NoSession, SessionRow
  <2>3. links \in [Link -> LinkRow]
    BY DEF Init, NoLink, LinkRow, LinkType
  <2>4. req \in [Request -> RequestRow]
    BY IdleTyped DEF Init
  <2>41. proved \in [User -> SUBSET (Email \cup {None})]
    <3>1. \A u \in Member : {Home[u]} \in SUBSET (Email \cup {None})
      OBVIOUS
    <3>2. \A u \in User : (IF u \in Member THEN {Home[u]} ELSE {})
                            \in SUBSET (Email \cup {None})
      BY <3>1
    <3>3. QED
      BY <3>2 DEF Init
  <2>42. uses \in [Link -> Nat]
    BY DEF Init
  <2>43. overtaken \subseteq User /\ shared \subseteq Link /\ outrun \subseteq User
    BY DEF Init
  <2>5. TypeOK
    BY <2>1, <2>2, <2>3, <2>4, <2>41, <2>42, <2>43 DEF TypeOK, TablesOK
  <2>6. RowsOwned
    BY DEF Init, RowsOwned, SessionsOwned, LinksOwned, NoSession, NoLink
  <2>7. ASSUME NEW r \in Request
        PROVE  RequestOwned(r)
    BY DEF Init, RequestOwned, Idle, Registering, HoldsLink
  <2>8. QED
    BY <2>5, <2>6, <2>7 DEF Owned
<1>2. TypeOK /\ Owned /\ [Next]_vars => (TypeOK /\ Owned)'
  <2> SUFFICES ASSUME TypeOK, Owned, [Next]_vars
               PROVE  TypeOK' /\ Owned'
    OBVIOUS
  <2>0. TablesOK /\ RowsOwned /\ \A r \in Request : RequestOwned(r)
    BY DEF Owned, TypeOK
  <2>1. ASSUME NEW r \in Request, Start(r)
        PROVE  TablesOK' /\ Owned'
    BY <2>0, <2>1, StartKeepsType, StartKeepsOwned
  <2>2. ASSUME NEW r \in Request, Step(r)
        PROVE  TablesOK' /\ Owned'
    BY <2>0, <2>2, StepKeepsType, StepKeepsOwned
  <2>3. ASSUME UNCHANGED vars
        PROVE  TablesOK' /\ Owned'
    <3>1. /\ users' = users /\ sessions' = sessions /\ links' = links /\ req' = req
          /\ proved' = proved /\ uses' = uses
      BY <2>3 DEF vars
    <3>2. TablesOK'
      BY <2>0, <3>1 DEF TablesOK
    <3>3. Owned'
      BY <2>0, <3>1 DEF Owned, RowsOwned, SessionsOwned, LinksOwned, RequestOwned, Exists
    <3>4. QED
      BY <3>2, <3>3
  <2>4. TablesOK' /\ Owned'
    BY <2>0, <2>1, <2>2, <2>3, ExpiryKeepsOwned DEF Next, Act
  <2>5. overtaken' \subseteq User /\ shared' \subseteq Link /\ outrun' \subseteq User
    <3>1. CASE UNCHANGED vars
      BY <3>1 DEF TypeOK, vars
    <3>2. CASE Racing
      BY <3>2 DEF Racing, TypeOK
    <3>3. QED
      BY <3>1, <3>2 DEF Next
  <2>6. QED
    BY <2>4, <2>5 DEF TypeOK
<1>3. QED
  BY <1>1, <1>2, PTL DEF Spec

LEMMA AlwaysTyped == Spec => [](TablesOK /\ Owned)
<1>1. TypeOK => TablesOK
  BY DEF TypeOK
<1>2. QED
  BY <1>1, TypeCorrect, PTL
-----------------------------------------------------------------------------
(* What a step may do to a link or a session that is there already.        *)
LinkKept(t) ==
  /\ links'[t].user = links[t].user
  /\ links'[t].type = links[t].type
  /\ links'[t].by = links[t].by
  /\ links'[t].state \in Live => links[t].state \in Live
  /\ links[t].state = "used" => links'[t].state = "used"
Issues(r) ==
  RegisterCommit(r) \/ ResendCommit(r) \/ ChangeCommit(r) \/ ForgotCommit(r)

LEMMA UnchangedKept ==
  ASSUME UNCHANGED links
  PROVE  \A t \in Link : LinkKept(t)
BY DEF LinkKept

LEMMA SpendKept ==
  ASSUME TablesOK, NEW u, Spend(u)
  PROVE  \A t \in Link : LinkKept(t)
<1> SUFFICES ASSUME NEW t \in Link
             PROVE  LinkKept(t)
  OBVIOUS
<1>1. links[t] \in LinkRow
  BY DEF TablesOK
<1>2. links'[t] = IF t = u THEN [links[t] EXCEPT !.state = "used"] ELSE links[t]
  BY DEF Spend, TablesOK
<1>3. QED
  BY <1>1, <1>2 DEF LinkRow, LinkKept, Live

LEMMA DeliverKept ==
  ASSUME TablesOK, NEW r \in Request, Deliver(r)
  PROVE  \A t \in Link : LinkKept(t)
<1> SUFFICES ASSUME NEW t \in Link
             PROVE  LinkKept(t)
  OBVIOUS
<1> DEFINE a == IF req[r].pc = "deliver_loaded" THEN req[r].from
                ELSE users[req[r].user].email
<1>1. links[t] \in LinkRow
  BY DEF TablesOK
<1>2. links'[t] = IF t = req[r].link THEN [links[t] EXCEPT !.addr = a] ELSE links[t]
  BY DEF Deliver, TablesOK
<1> HIDE DEF a
<1>3. QED
  BY <1>1, <1>2 DEF LinkRow, LinkKept

LEMMA ExpireKept ==
  ASSUME TablesOK, NEW u \in Link, ExpireLink(u)
  PROVE  \A t \in Link : LinkKept(t)
<1> SUFFICES ASSUME NEW t \in Link
             PROVE  LinkKept(t)
  OBVIOUS
<1>1. links[t] \in LinkRow
  BY DEF TablesOK
<1>2. links'[t] = IF t = u THEN [links[t] EXCEPT !.state = "expired"] ELSE links[t]
  BY DEF ExpireLink, TablesOK
<1>3. links[u].state = "unused"
  BY DEF ExpireLink
<1>4. QED
  BY <1>1, <1>2, <1>3 DEF LinkRow, LinkKept, Live

(* Only the four commits that issue a link add one or make one live.       *)
LEMMA StepsKeepLinks ==
  ASSUME TablesOK, NEW r \in Request, Start(r) \/ (Step(r) /\ ~Issues(r))
  PROVE  \A t \in Link : LinkKept(t)
<1>1. CASE Start(r)
  <2>1. UNCHANGED links
    BY <1>1 DEF Start, RegisterLookup, LoginRead, LogoutResolve, ResendResolve,
                ProfileLookup, ChangeLookup, ForgotRead, VerifyResolve, ResetLink
  <2>2. QED
    BY <2>1, UnchangedKept
<1>2. CASE Deliver(r)
  BY <1>2, DeliverKept
<1>3. CASE VerifyCommit(r) \/ ResetCommit(r)
  BY <1>3, SpendKept DEF VerifyCommit, ResetCommit
<1>4. CASE \/ RegisterNick(r) \/ LoginCommit(r) \/ LogoutCommit(r) \/ ProfileCommit(r)
           \/ ResendInvalidate(r) \/ ChangeFlush(r) \/ ForgotInvalidate(r)
           \/ VerifyLink(r) \/ VerifyUser(r) \/ ResetRevoke(r) \/ Abort(r)
  <2>1. UNCHANGED links
    BY <1>4 DEF RegisterNick, LoginCommit, LogoutCommit, ProfileCommit, ResendInvalidate,
                ChangeFlush, ForgotInvalidate, VerifyLink, VerifyUser, ResetRevoke, Abort
  <2>2. QED
    BY <2>1, UnchangedKept
<1>5. QED
  BY <1>1, <1>2, <1>3, <1>4 DEF Step, Issues

(* What each of the four does to the links.                                *)
LEMMA IssuesOne ==
  ASSUME TablesOK, NEW r \in Request, Issues(r), links' # links
  PROVE  /\ FreeLinks # {}
         /\ \E type \in LinkType : IssueLink(r, type)
BY DEF Issues, RegisterCommit, ResendCommit, ChangeCommit, ForgotCommit, LinkType

-----------------------------------------------------------------------------
LEMMA SessionsKept ==
  ASSUME TablesOK, [Next]_vars, NEW s \in SessionId, sessions[s].state = "revoked"
  PROVE  sessions'[s].state = "revoked"
<1>1. ASSUME NEW u, NEW p, FreeSessions # {}, OpenSession(u, p)
      PROVE  sessions'[s].state = "revoked"
  BY <1>1, NewIds DEF OpenSession, TablesOK
<1>2. ASSUME NEW S
      PROVE  Revoked(S)[s] = sessions[s]
  BY DEF Revoked
<1>3. ASSUME NEW r \in Request, Start(r)
      PROVE  UNCHANGED sessions
  BY <1>3 DEF Start, RegisterLookup, LoginRead, LogoutResolve, ResendResolve,
              ProfileLookup, ChangeLookup, ForgotRead, VerifyResolve, ResetLink
<1>4. ASSUME NEW r \in Request, RegisterCommit(r) \/ LoginCommit(r)
      PROVE  sessions'[s].state = "revoked"
  BY <1>1, <1>4 DEF RegisterCommit, LoginCommit
<1>5. ASSUME NEW r \in Request, LogoutCommit(r) \/ ResetCommit(r)
      PROVE  sessions'[s].state = "revoked"
  BY <1>2, <1>5 DEF LogoutCommit, ResetCommit
<1>6. ASSUME NEW r \in Request, VerifyCommit(r)
      PROVE  sessions'[s].state = "revoked"
  <2>1. CASE UNCHANGED sessions
    BY <2>1
  <2>2. CASE /\ FreeSessions # {}
             /\ sessions' = [Revoked({req[r].sess}) EXCEPT ![NewSession] =
                               [user |-> req[r].user, state |-> "alive", pwd |-> None]]
    <3>1. s # NewSession
      BY <2>2, NewIds
    <3>2. Revoked({req[r].sess}) \in [SessionId -> SessionRow]
      BY RevokedTyped
    <3>3. sessions'[s] = Revoked({req[r].sess})[s]
      BY <2>2, <3>1, <3>2
    <3>4. QED
      BY <1>2, <3>3
  <2>3. QED
    BY <1>6, <2>1, <2>2 DEF VerifyCommit
<1>7. ASSUME NEW r \in Request,
             \/ RegisterNick(r) \/ ProfileCommit(r) \/ ResendInvalidate(r)
             \/ ResendCommit(r) \/ ChangeFlush(r) \/ ChangeCommit(r)
             \/ ForgotInvalidate(r) \/ ForgotCommit(r) \/ Deliver(r)
             \/ VerifyLink(r) \/ VerifyUser(r) \/ ResetRevoke(r) \/ Abort(r)
      PROVE  UNCHANGED sessions
  BY <1>7 DEF RegisterNick, ProfileCommit, ResendInvalidate, ResendCommit, ChangeFlush,
              ChangeCommit, ForgotInvalidate, ForgotCommit, Deliver, VerifyLink,
              VerifyUser, ResetRevoke, Abort
<1>8. ASSUME NEW t \in Link, ExpireLink(t)
      PROVE  UNCHANGED sessions
  BY <1>8 DEF ExpireLink
<1>9. ASSUME NEW q \in SessionId, ExpireSession(q)
      PROVE  sessions'[s].state = "revoked"
  BY <1>9 DEF ExpireSession, Alive, TablesOK
<1>10. ASSUME UNCHANGED vars
       PROVE  UNCHANGED sessions
  BY <1>10 DEF vars
<1>11. QED
  BY <1>3, <1>4, <1>5, <1>6, <1>7, <1>8, <1>9, <1>10 DEF Next, Act, Step

LEMMA UsedKept ==
  ASSUME TablesOK, [Next]_vars, NEW t \in Link, links[t].state = "used"
  PROVE  links'[t].state = "used"
<1>1. ASSUME NEW r \in Request, Issues(r)
      PROVE  links'[t].state = "used"
  <2>1. CASE UNCHANGED links
    BY <2>1
  <2>2. CASE links' # links
    <3>1. PICK type \in LinkType : FreeLinks # {} /\ IssueLink(r, type)
      BY <1>1, <2>2, IssuesOne
    <3>2. QED
      BY <3>1, IssuedRow DEF Live
  <2>3. QED
    BY <2>1, <2>2
<1>2. ASSUME NEW r \in Request, Start(r) \/ (Step(r) /\ ~Issues(r))
      PROVE  links'[t].state = "used"
  BY <1>2, StepsKeepLinks DEF LinkKept
<1>3. ASSUME NEW u \in Link, ExpireLink(u)
      PROVE  links'[t].state = "used"
  BY <1>3, ExpireKept DEF LinkKept
<1>4. ASSUME NEW s \in SessionId, ExpireSession(s)
      PROVE  links'[t].state = "used"
  BY <1>4 DEF ExpireSession
<1>5. QED
  BY <1>1, <1>2, <1>3, <1>4 DEF Next, Act, vars

(* A link that has been used is never in hand again, and a session that    *)
(* was revoked never alive, whatever the requests in progress loaded       *)
(* before: no commit writes those columns back.                            *)
THEOREM NeverRevives == Spec => NothingRevives
<1>1. TablesOK /\ Owned /\ [Next]_vars
        => [/\ \A t \in Link : links[t].state = "used" => links'[t].state = "used"
            /\ \A s \in SessionId :
                 sessions[s].state = "revoked" => sessions'[s].state = "revoked"]_vars
  BY SessionsKept, UsedKept
<1>2. QED
  BY <1>1, AlwaysTyped, PTL DEF Spec, NothingRevives
-----------------------------------------------------------------------------
(* After its own step a request either is not about to issue a link, or    *)
(* has just picked all the links in hand of the type it will issue.        *)
LEMMA PicksAll ==
  ASSUME TablesOK, NEW r \in Request, Start(r) \/ Step(r)
  PROVE  /\ \A q \in Request \ {r} : req'[q] = req[q]
         /\ \/ req'[r].pc \notin DOMAIN IssuedAt
            \/ /\ UNCHANGED links
               /\ req'[r].captured = LinksOf(req'[r].user, IssuedAt[req'[r].pc])
<1> DEFINE me == req[r]
<1>0. me \in RequestRow
  BY DEF TablesOK
<1>1. ASSUME NEW x, req' = [req EXCEPT ![r] = x]
      PROVE  req'[r] = x /\ \A q \in Request \ {r} : req'[q] = req[q]
  BY <1>1 DEF TablesOK
<1>2. CASE Start(r)
  <2> DEFINE Quiet == /\ \A q \in Request \ {r} : req'[q] = req[q]
                      /\ req'[r].pc \notin DOMAIN IssuedAt
  <2>1. ASSUME NEW x, req' = [req EXCEPT ![r] = x],
               x.pc \in {"register_nick", "login", "logout", "profile", "resend",
                         "change", "forgot", "verify_link", "reset"}
        PROVE  Quiet
    <3>1. x.pc \notin DOMAIN IssuedAt
      BY <2>1 DEF IssuedAt
    <3>2. QED
      BY <1>1, <2>1, <3>1
  <2> HIDE DEF Quiet
  <2>3. ASSUME NEW u \in User, NEW e \in Email, NEW n \in Nick, NEW p \in Password,
               RegisterLookup(r, u, e, n, p)
        PROVE  Quiet
    <3> DEFINE x == [Idle EXCEPT !.pc = "register_nick", !.user = u, !.email = e, !.nick = n, !.pwd = p]
    <3>1. req' = [req EXCEPT ![r] = x]
      BY <2>3 DEF RegisterLookup
    <3>2. x.pc \in {"register_nick", "logout", "resend", "change", "reset"}
      BY DEF Idle
    <3> HIDE DEF x
    <3>3. QED
      BY <2>1, <3>1, <3>2
  <2>4. ASSUME NEW s \in SessionId,
               LogoutResolve(r, s)
        PROVE  Quiet
    <3> DEFINE x == [Resolved(s) EXCEPT !.pc = "logout"]
    <3>1. req' = [req EXCEPT ![r] = x]
      BY <2>4 DEF LogoutResolve
    <3>2. x.pc \in {"register_nick", "logout", "resend", "change", "reset"}
      BY DEF Resolved, Idle
    <3> HIDE DEF x
    <3>3. QED
      BY <2>1, <3>1, <3>2
  <2>5. ASSUME NEW s \in SessionId,
               ResendResolve(r, s)
        PROVE  Quiet
    <3> DEFINE x == [Resolved(s) EXCEPT !.pc = "resend"]
    <3>1. req' = [req EXCEPT ![r] = x]
      BY <2>5 DEF ResendResolve
    <3>2. x.pc \in {"register_nick", "logout", "resend", "change", "reset"}
      BY DEF Resolved, Idle
    <3> HIDE DEF x
    <3>3. QED
      BY <2>1, <3>1, <3>2
  <2>6. ASSUME NEW s \in SessionId, NEW e \in Email,
               ChangeLookup(r, s, e)
        PROVE  Quiet
    <3> DEFINE x == [Resolved(s) EXCEPT !.pc = "change", !.email = e]
    <3>1. req' = [req EXCEPT ![r] = x]
      BY <2>6 DEF ChangeLookup
    <3>2. x.pc \in {"register_nick", "logout", "resend", "change", "reset"}
      BY DEF Resolved, Idle
    <3> HIDE DEF x
    <3>3. QED
      BY <2>1, <3>1, <3>2
  <2>7. ASSUME NEW t \in Link, NEW p \in Password,
               ResetLink(r, t, p)
        PROVE  Quiet
    <3> DEFINE x == [Idle EXCEPT !.pc = "reset", !.link = t, !.user = links[t].user, !.pwd = p]
    <3>1. req' = [req EXCEPT ![r] = x]
      BY <2>7 DEF ResetLink
    <3>2. x.pc \in {"register_nick", "logout", "resend", "change", "reset"}
      BY DEF Idle
    <3> HIDE DEF x
    <3>3. QED
      BY <2>1, <3>1, <3>2
  <2>8. ASSUME NEW e \in Email, NEW p \in Password, LoginRead(r, e, p)
        PROVE  Quiet
    <3>1. PICK u \in User :
            req' = [req EXCEPT ![r] = [Idle EXCEPT !.pc = "login", !.user = u, !.pwd = p]]
      BY <2>8 DEF LoginRead, Owners
    <3>2. [Idle EXCEPT !.pc = "login", !.user = u, !.pwd = p].pc = "login"
      BY DEF Idle
    <3>3. QED
      BY <2>1, <3>1, <3>2
  <2>9. ASSUME NEW e \in Email, ForgotRead(r, e)
        PROVE  Quiet
    <3>1. PICK u \in User :
            req' = [req EXCEPT ![r] = [Idle EXCEPT !.pc = "forgot", !.user = u, !.from = e]]
      BY <2>9 DEF ForgotRead, Owners
    <3>2. [Idle EXCEPT !.pc = "forgot", !.user = u, !.from = e].pc = "forgot"
      BY DEF Idle
    <3>3. QED
      BY <2>1, <3>1, <3>2
  <2>10. ASSUME NEW s \in SessionId, NEW n \in Nick, ProfileLookup(r, s, n)
        PROVE  Quiet
    <3> DEFINE m == IF users[sessions[s].user].nick = n THEN None ELSE n
               x == [Resolved(s) EXCEPT !.pc = "profile", !.nick = m]
    <3>1. req' = [req EXCEPT ![r] = x]
      BY <2>10 DEF ProfileLookup
    <3> HIDE DEF m
    <3>2. x.pc = "profile"
      BY DEF Resolved, Idle
    <3> HIDE DEF x
    <3>3. QED
      BY <2>1, <3>1, <3>2
  <2>11. ASSUME NEW t \in Link, NEW s \in SessionId \cup {None}, VerifyResolve(r, t, s)
        PROVE  Quiet
    <3> DEFINE y == IF s = None THEN Idle ELSE Resolved(s)
               x == [y EXCEPT !.pc = "verify_link", !.link = t]
    <3>1. req' = [req EXCEPT ![r] = x]
      BY <2>11 DEF VerifyResolve
    <3>2. "pc" \in DOMAIN y
      BY DEF Resolved, Idle
    <3> HIDE DEF y
    <3>3. x.pc = "verify_link"
      BY <3>2
    <3> HIDE DEF x
    <3>4. QED
      BY <2>1, <3>1, <3>3
  <2>12. QED
    BY <1>2, <2>3, <2>4, <2>5, <2>6, <2>7, <2>8, <2>9, <2>10, <2>11 DEF Start, Quiet
<1>3. ASSUME Done(r)
      PROVE  /\ \A q \in Request \ {r} : req'[q] = req[q]
             /\ req'[r].pc \notin DOMAIN IssuedAt
  BY <1>3 DEF Done, TablesOK, Idle, IssuedAt
<1>4. ASSUME NEW pc, Goto(r, pc), pc \notin DOMAIN IssuedAt
      PROVE  /\ \A q \in Request \ {r} : req'[q] = req[q]
             /\ req'[r].pc \notin DOMAIN IssuedAt
  <2>1. [me EXCEPT !.pc = pc].pc = pc
    BY <1>0 DEF RequestRow
  <2>2. req' = [req EXCEPT ![r] = [me EXCEPT !.pc = pc]]
    BY <1>4 DEF Goto
  <2>3. QED
    BY <1>1, <1>4, <2>1, <2>2
<1>5. CASE \/ LoginCommit(r) \/ LogoutCommit(r) \/ ProfileCommit(r) \/ Deliver(r)
           \/ VerifyCommit(r) \/ ResetCommit(r) \/ Abort(r)
  BY <1>3, <1>5 DEF LoginCommit, LogoutCommit, ProfileCommit, Deliver, VerifyCommit,
                    ResetCommit, Abort
<1>6. CASE RegisterNick(r) \/ VerifyLink(r)
  <2>1. Done(r) \/ Goto(r, "register_commit") \/ Goto(r, "verify_user")
    BY <1>6 DEF RegisterNick, VerifyLink
  <2>2. QED
    BY <1>3, <1>4, <2>1 DEF IssuedAt
<1>7. CASE VerifyUser(r)
  <2> DEFINE u == links[me.link].user
             v == IF me.user = u THEN me.verified ELSE users[u].verified
             x == [me EXCEPT !.pc = "verify_commit", !.user = u, !.verified = v]
  <2>1. req' = [req EXCEPT ![r] = x]
    BY <1>7 DEF VerifyUser, TablesOK
  <2>2. x.pc = "verify_commit"
    BY <1>0 DEF RequestRow
  <2> HIDE DEF x
  <2>3. /\ \A q \in Request \ {r} : req'[q] = req[q]
        /\ req'[r] = x
    BY <1>1, <2>1
  <2>4. "verify_commit" \notin DOMAIN IssuedAt
    BY DEF IssuedAt
  <2>5. QED
    BY <2>2, <2>3, <2>4
<1>8. CASE Issues(r)
  <2>1. \/ Done(r)
        \/ req' = [req EXCEPT ![r] = [me EXCEPT !.pc = "deliver_current", !.link = NewLink]]
        \/ req' = [req EXCEPT ![r] = [me EXCEPT !.pc = "deliver_current",
                                                !.link = NewLink, !.captured = {}]]
        \/ req' = [req EXCEPT ![r] = [me EXCEPT !.pc = "deliver_loaded",
                                                !.link = NewLink, !.captured = {}]]
    BY <1>8 DEF Issues, RegisterCommit, ResendCommit, ChangeCommit, ForgotCommit, TablesOK
  <2>2. /\ [me EXCEPT !.pc = "deliver_current", !.link = NewLink].pc = "deliver_current"
        /\ [me EXCEPT !.pc = "deliver_current", !.link = NewLink, !.captured = {}].pc
             = "deliver_current"
        /\ [me EXCEPT !.pc = "deliver_loaded", !.link = NewLink, !.captured = {}].pc
             = "deliver_loaded"
    BY <1>0 DEF RequestRow
  <2>3. {"deliver_current", "deliver_loaded"} \cap DOMAIN IssuedAt = {}
    BY DEF IssuedAt
  <2>4. QED
    BY <1>1, <1>3, <2>1, <2>2, <2>3
<1>9. ASSUME NEW pc, NEW C, UNCHANGED links,
             req' = [req EXCEPT ![r] = [me EXCEPT !.pc = pc, !.captured = C]],
             pc \in DOMAIN IssuedAt => C = LinksOf(me.user, IssuedAt[pc])
      PROVE  /\ \A q \in Request \ {r} : req'[q] = req[q]
             /\ req'[r].pc \in DOMAIN IssuedAt
                  => req'[r].captured = LinksOf(req'[r].user, IssuedAt[req'[r].pc])
  <2>1. LET x == [me EXCEPT !.pc = pc, !.captured = C] IN
        x.pc = pc /\ x.captured = C /\ x.user = me.user
    BY <1>0 DEF RequestRow
  <2>2. /\ \A q \in Request \ {r} : req'[q] = req[q]
        /\ req'[r].pc = pc /\ req'[r].captured = C /\ req'[r].user = me.user
    BY <1>1, <1>9, <2>1
  <2>3. QED
    BY <1>9, <2>2
<1>10. /\ IssuedAt["resend_flushed"] = "verify_email"
       /\ IssuedAt["change_flushed"] = "verify_email"
       /\ IssuedAt["forgot_flushed"] = "reset_password"
       /\ "reset_flushed" \notin DOMAIN IssuedAt
  BY DEF IssuedAt
<1>11. CASE ResendInvalidate(r) \/ ForgotInvalidate(r)
  <2>1. UNCHANGED links
    BY <1>11 DEF ResendInvalidate, ForgotInvalidate
  <2>2. \/ req' = [req EXCEPT ![r] = [me EXCEPT !.pc = "resend_flushed",
                                        !.captured = LinksOf(me.user, "verify_email")]]
        \/ req' = [req EXCEPT ![r] = [me EXCEPT !.pc = "forgot_flushed",
                                        !.captured = LinksOf(me.user, "reset_password")]]
    BY <1>11 DEF ResendInvalidate, ForgotInvalidate, TablesOK
  <2>3. QED
    BY <1>9, <1>10, <2>1, <2>2
<1>12. CASE ChangeFlush(r)
  <2>1. UNCHANGED links
    BY <1>12 DEF ChangeFlush
  <2>2. \/ Done(r)
        \/ req' = [req EXCEPT ![r] = [me EXCEPT !.pc = "change_flushed",
                                        !.captured = LinksOf(me.user, "verify_email")]]
    BY <1>12 DEF ChangeFlush, TablesOK
  <2>3. QED
    BY <1>3, <1>9, <1>10, <2>1, <2>2
<1>13. CASE ResetRevoke(r)
  <2> DEFINE C == {s \in SessionId : sessions[s].user = me.user}
  <2>1. /\ UNCHANGED links
        /\ req' = [req EXCEPT ![r] = [me EXCEPT !.pc = "reset_flushed", !.captured = C]]
    BY <1>13 DEF ResetRevoke, TablesOK
  <2> HIDE DEF C
  <2>2. QED
    BY <1>9, <1>10, <2>1
<1>14. QED
  BY <1>2, <1>5, <1>6, <1>7, <1>8, <1>11, <1>12, <1>13 DEF Step, Issues

(* A commit that issues a link does so after its own earlier ones of that  *)
(* user and type were picked, or for a user nobody has issued one to.      *)
LEMMA IssuesPicked ==
  ASSUME TablesOK, Owned, IssuerCaptures, NEW r \in Request, Issues(r), links' # links
  PROVE  /\ FreeLinks # {}
         /\ \E type \in LinkType :
              /\ IssueLink(r, type)
              /\ \A t \in LinksOf(req[r].user, type) :
                   links[t].by = r => t \in req[r].captured
<1>0. /\ RequestOwned(r) /\ LinksOwned
  BY DEF Owned, RowsOwned
<1>1. IssuedAt[req[r].pc] \in LinkType /\ req[r].pc \in DOMAIN IssuedAt =>
        \A t \in LinksOf(req[r].user, IssuedAt[req[r].pc]) :
          links[t].by = r => t \in req[r].captured
  BY DEF IssuerCaptures
<1>2. CASE RegisterCommit(r)
  <2>1. FreeLinks # {} /\ IssueLink(r, "verify_email")
    BY <1>2 DEF RegisterCommit
  <2>2. LinksOf(req[r].user, "verify_email") = {}
    BY <1>0, <1>2 DEF RegisterCommit, RequestOwned, Registering, LinksOwned, LinksOf, Live
  <2>3. QED
    BY <2>1, <2>2 DEF LinkType
<1>3. CASE ResendCommit(r)
  <2>1. /\ FreeLinks # {} /\ IssueLink(r, "verify_email")
        /\ req[r].pc \in DOMAIN IssuedAt /\ IssuedAt[req[r].pc] = "verify_email"
    BY <1>3 DEF ResendCommit, IssuedAt
  <2>2. QED
    BY <1>1, <2>1 DEF LinkType
<1>4. CASE ChangeCommit(r)
  <2>1. /\ FreeLinks # {} /\ IssueLink(r, "verify_email")
        /\ req[r].pc \in DOMAIN IssuedAt /\ IssuedAt[req[r].pc] = "verify_email"
    BY <1>4 DEF ChangeCommit, IssuedAt
  <2>2. QED
    BY <1>1, <2>1 DEF LinkType
<1>5. CASE ForgotCommit(r)
  <2>1. /\ FreeLinks # {} /\ IssueLink(r, "reset_password")
        /\ req[r].pc \in DOMAIN IssuedAt /\ IssuedAt[req[r].pc] = "reset_password"
    BY <1>5 DEF ForgotCommit, IssuedAt
  <2>2. QED
    BY <1>1, <2>1 DEF LinkType
<1>6. QED
  BY <1>2, <1>3, <1>4, <1>5 DEF Issues

LinksCounted == OnePerIssuer /\ IssuerCaptures

(* A step that adds no link and makes none live.                           *)
LEMMA KeptCounted ==
  ASSUME LinksCounted, \A t \in Link : LinkKept(t)
  PROVE  /\ OnePerIssuer'
         /\ \A q \in Request :
              req'[q] = req[q] /\ req[q].pc \in DOMAIN IssuedAt =>
                \A t \in LinksOf(req[q].user, IssuedAt[req[q].pc])' :
                  links'[t].by = q => t \in req[q].captured
<1>1. OnePerIssuer'
  BY DEF LinksCounted, OnePerIssuer, LinkKept
<1>2. ASSUME NEW q \in Request, req'[q] = req[q], req[q].pc \in DOMAIN IssuedAt,
             NEW t \in LinksOf(req[q].user, IssuedAt[req[q].pc])', links'[t].by = q
      PROVE  t \in req[q].captured
  <2>1. t \in LinksOf(req[q].user, IssuedAt[req[q].pc]) /\ links[t].by = q
    BY <1>2 DEF LinksOf, LinkKept
  <2>2. QED
    BY <1>2, <2>1 DEF LinksCounted, IssuerCaptures
<1>3. QED
  BY <1>1, <1>2

LEMMA IssueCounted ==
  ASSUME TablesOK, Owned, LinksCounted, NEW r \in Request, Issues(r), links' # links,
         \A q \in Request \ {r} : req'[q] = req[q],
         req'[r].pc \notin DOMAIN IssuedAt
  PROVE  LinksCounted'
<1>1. PICK type \in LinkType :
        /\ FreeLinks # {} /\ IssueLink(r, type)
        /\ \A t \in LinksOf(req[r].user, type) :
             links[t].by = r => t \in req[r].captured
  BY IssuesPicked DEF LinksCounted
<1>2. NewLink \in Link
  BY <1>1, NewIds
<1> DEFINE u == req[r].user
<1>3. ASSUME NEW t \in Link, t # NewLink
      PROVE  /\ links'[t].user = links[t].user /\ links'[t].type = links[t].type
             /\ links'[t].by = links[t].by
             /\ links'[t].state \in Live =>
                  links[t].state \in Live /\ t \notin req[r].captured
  BY <1>1, <1>3, IssuedRow DEF Live
<1>4. links'[NewLink].user = u /\ links'[NewLink].type = type /\ links'[NewLink].by = r
  <2>1. links'[NewLink] = [user |-> u, type |-> type, state |-> "unused",
                           addr |-> None, by |-> r]
    BY <1>1, <1>2, IssuedRow
  <2>2. QED
    BY <2>1
<1>5. ASSUME NEW t \in Link, t # NewLink, links'[t].state \in Live, links'[t].user = u,
             links'[t].type = type
      PROVE  links'[t].by # r
  BY <1>1, <1>3, <1>5 DEF LinksOf
<1>6. OnePerIssuer'
  <2> SUFFICES ASSUME NEW t1 \in Link, NEW t2 \in Link,
                      links'[t1].state \in Live, links'[t2].state \in Live,
                      links'[t1].user = links'[t2].user,
                      links'[t1].type = links'[t2].type,
                      links'[t1].by = links'[t2].by
               PROVE  t1 = t2
    BY DEF OnePerIssuer, Live
  <2>1. CASE t1 # NewLink /\ t2 # NewLink
    BY <1>3, <2>1 DEF LinksCounted, OnePerIssuer
  <2>2. CASE t1 = NewLink /\ t2 # NewLink
    BY <1>4, <1>5, <2>2
  <2>3. CASE t1 # NewLink /\ t2 = NewLink
    BY <1>4, <1>5, <2>3
  <2>4. QED
    BY <2>1, <2>2, <2>3
<1>7. IssuerCaptures'
  <2> SUFFICES ASSUME NEW q \in Request, req'[q].pc \in DOMAIN IssuedAt,
                      NEW t \in LinksOf(req[q].user, IssuedAt[req[q].pc])',
                      links'[t].by = q
               PROVE  t \in req'[q].captured
    BY DEF IssuerCaptures, IssuedAt
  <2>1. q # r /\ req'[q] = req[q]
    OBVIOUS
  <2>2. t \in Link /\ t # NewLink
    BY <1>4, <2>1 DEF LinksOf
  <2>3. t \in LinksOf(req[q].user, IssuedAt[req[q].pc]) /\ links[t].by = q
    BY <1>3, <2>1, <2>2 DEF LinksOf, IssuedAt
  <2>4. QED
    BY <2>1, <2>3 DEF LinksCounted, IssuerCaptures
<1>8. QED
  BY <1>6, <1>7 DEF LinksCounted

LEMMA NextCounted ==
  ASSUME TablesOK, Owned, LinksCounted, [Next]_vars
  PROVE  LinksCounted'
<1>1. ASSUME \A t \in Link : LinkKept(t), UNCHANGED req
      PROVE  LinksCounted'
  <2>1. IssuerCaptures'
    BY <1>1, KeptCounted DEF IssuerCaptures, LinksOf
  <2>2. QED
    BY <1>1, <2>1, KeptCounted DEF LinksCounted
<1>2. ASSUME NEW r \in Request, Start(r) \/ Step(r)
      PROVE  LinksCounted'
  <2>1. /\ \A q \in Request \ {r} : req'[q] = req[q]
        /\ \/ req'[r].pc \notin DOMAIN IssuedAt
           \/ /\ UNCHANGED links
              /\ req'[r].captured = LinksOf(req'[r].user, IssuedAt[req'[r].pc])
    BY <1>2, PicksAll
  <2>2. CASE Issues(r) /\ links' # links
    BY <2>1, <2>2, IssueCounted
  <2>3. CASE ~(Issues(r) /\ links' # links)
    <3>1. \A t \in Link : LinkKept(t)
      BY <1>2, <2>3, StepsKeepLinks, UnchangedKept
    <3>2. OnePerIssuer'
      BY <3>1, KeptCounted
    <3>3. ASSUME NEW q \in Request, req'[q].pc \in DOMAIN IssuedAt,
                 NEW t \in LinksOf(req[q].user, IssuedAt[req[q].pc])',
                 links'[t].by = q
          PROVE  t \in req'[q].captured
      <4>1. CASE q = r
        <5>1. t \in LinksOf(req'[q].user, IssuedAt[req'[q].pc])
          BY <2>1, <3>3, <4>1 DEF LinksOf, IssuedAt
        <5>2. QED
          BY <2>1, <3>3, <4>1, <5>1
      <4>2. CASE q # r
        <5>1. req'[q] = req[q]
          BY <2>1, <4>2
        <5>2. t \in LinksOf(req[q].user, IssuedAt[req[q].pc]) /\ links[t].by = q
          BY <3>1, <3>3, <5>1 DEF LinksOf, LinkKept, IssuedAt
        <5>3. QED
          BY <3>3, <5>1, <5>2 DEF LinksCounted, IssuerCaptures
      <4>3. QED
        BY <4>1, <4>2
    <3>4. IssuerCaptures'
      BY <3>3 DEF IssuerCaptures, IssuedAt
    <3>5. QED
      BY <3>2, <3>4 DEF LinksCounted
  <2>4. QED
    BY <2>2, <2>3
<1>3. ASSUME NEW t \in Link, ExpireLink(t)
      PROVE  LinksCounted'
  BY <1>1, <1>3, ExpireKept DEF ExpireLink
<1>4. ASSUME NEW s \in SessionId, ExpireSession(s)
      PROVE  LinksCounted'
  BY <1>1, <1>4, UnchangedKept DEF ExpireSession
<1>5. CASE UNCHANGED vars
  BY <1>1, <1>5, UnchangedKept DEF vars
<1>6. QED
  BY <1>2, <1>3, <1>4, <1>5 DEF Next, Act

(* Two requests that issue a link to one user at the same time both leave  *)
(* theirs in hand, but one request never leaves two: a user never holds    *)
(* more unused links of a type than there can be requests in progress.     *)
THEOREM LinksInHandBounded == Spec => []LinksInHand
<1>1. Init => LinksCounted
  BY DEF Init, LinksCounted, OnePerIssuer, IssuerCaptures, NoLink, Live, Idle, IssuedAt
<1>2. TablesOK /\ Owned /\ LinksCounted /\ [Next]_vars => LinksCounted'
  BY NextCounted
<1>3. TablesOK /\ Owned /\ OnePerIssuer => LinksInHand
  <2> SUFFICES ASSUME TablesOK, Owned, OnePerIssuer, NEW u \in User, NEW type \in LinkType
               PROVE  Cardinality(LinksOf(u, type)) <= Cardinality(Request)
    BY DEF LinksInHand
  <2> DEFINE L == LinksOf(u, type)
             f == [t \in L |-> links[t].by]
  <2>1. \A t \in L : links[t].by \in Request
    BY DEF LinksOf, Owned, RowsOwned, LinksOwned, Live
  <2>2. \A t1, t2 \in L : links[t1].by = links[t2].by => t1 = t2
    BY DEF LinksOf, OnePerIssuer
  <2>3. f \in Injection(L, Request)
    BY <2>1, <2>2 DEF Injection, IsInjective
  <2>4. IsFiniteSet(Request)
    BY AccountsAssumption
  <2>5. QED
    BY <2>3, <2>4, FS_Injection DEF ExistsInjection
<1>4. QED
  BY <1>1, <1>2, <1>3, AlwaysTyped, PTL DEF Spec, LinksCounted
-----------------------------------------------------------------------------
(***************************************************************************)
(* What the requests in progress know while others overlap with them.      *)
(* Each promise has an invariant of its own, stated of one account or of   *)
(* one link: the rows agree with it, and so does what every request has    *)
(* loaded, as long as the race that could take it away has not happened.   *)
(***************************************************************************)
Sending == {"deliver_loaded", "deliver_current"}
Following == {"verify_link", "verify_user", "verify_commit"}

(* What a request knows of the link it holds, whatever overlaps.           *)
HandlesLink(r) ==
  LET me == req[r] IN
  /\ me.pc \in Sending =>
       /\ links[me.link].user = me.user /\ links[me.link].addr = None
       /\ links[me.link].by = r
  /\ me.pc \in Following => links[me.link].addr # None
  /\ me.pc \in {"verify_user", "verify_commit"} => links[me.link].type = "verify_email"
  /\ me.pc = "verify_commit" => links[me.link].user = me.user
LinksHandled == \A r \in Request : HandlesLink(r)

(* An account nobody has changed the address of in a race: its row, its    *)
(* links, and what the requests know of its address.                       *)
ProvedRow(u) == users[u].verified => users[u].email \in proved[u]
Mailed(u) ==
  \A t \in LinksOf(u, "verify_email") :
    links[t].addr # None => links[t].addr = users[u].email
KnowsAddress(r, u) ==
  LET me == req[r] IN
  /\ me.user = u /\ me.pc \in {"resend", "resend_flushed", "change", "change_flushed"} =>
       me.from = users[u].email
  /\ Changing(me, u) => me.verified = users[u].verified
  /\ me.user = u /\ me.pc = "change_flushed" =>
       LinksOf(u, "verify_email") \subseteq me.captured
  /\ me.pc = "deliver_loaded" /\ me.link \in LinksOf(u, "verify_email") =>
       me.from = users[u].email
  /\ me.pc \in {"verify_user", "verify_commit"} /\ links[me.link].user = u =>
       links[me.link].addr = users[u].email
AddressOf(u) == ProvedRow(u) /\ Mailed(u) /\ \A r \in Request : KnowsAddress(r, u)
AddressInv ==
  \A u \in User : /\ Overtaken(u) => u \in overtaken
                  /\ u \notin overtaken => AddressOf(u)

(* A link that no two requests held at once.                               *)
SpentOnce(t) ==
  /\ uses[t] <= 1 /\ (links[t].state # "used" => uses[t] = 0)
  /\ \A r \in Request : Holding(req[r], t) => uses[t] = 0
SpentInv ==
  \A t \in Link : /\ Shared(t) => t \in shared
                  /\ t \notin shared => SpentOnce(t)

(* An account that no login has outrun a reset of.                         *)
Opened(u) ==
  {s \in SessionId : Alive(s) /\ sessions[s].pwd # None /\ sessions[s].user = u}
PasswordOf(u) ==
  /\ \A s \in Opened(u) : sessions[s].pwd = users[u].pwd
  /\ \A r \in Request : /\ LoggingIn(req[r], u) => req[r].pwd = users[u].pwd
                        /\ Resetting(req[r], u) => Opened(u) \subseteq req[r].captured
PasswordInv ==
  \A u \in User : /\ Outrun(u) => u \in outrun
                  /\ u \notin outrun => PasswordOf(u)

-----------------------------------------------------------------------------
(* What a request has loaded when it begins.                               *)
Begun(me) ==
  /\ me.pc \in {"register_nick", "login", "logout", "profile", "resend", "change",
                "forgot", "verify_link", "reset"}
  /\ me.pc \in {"resend", "change"} => me.from = users[me.user].email
  /\ me.pc = "change" => me.verified = users[me.user].verified
  /\ me.pc = "verify_link" => links[me.link].addr # None
  /\ me.pc = "reset" => links[me.link].state = "unused"
  /\ me.pc = "login" => me.pwd = users[me.user].pwd

LEMMA StartUntouched ==
  ASSUME NEW r \in Request, Start(r)
  PROVE  /\ users' = users /\ sessions' = sessions /\ links' = links
         /\ proved' = proved /\ uses' = uses
<1>1. users' = users
  BY DEF Start, RegisterLookup, LoginRead, LogoutResolve, ResendResolve,
         ProfileLookup, ChangeLookup, ForgotRead, VerifyResolve, ResetLink
<1>2. sessions' = sessions
  BY DEF Start, RegisterLookup, LoginRead, LogoutResolve, ResendResolve,
         ProfileLookup, ChangeLookup, ForgotRead, VerifyResolve, ResetLink
<1>3. links' = links
  BY DEF Start, RegisterLookup, LoginRead, LogoutResolve, ResendResolve,
         ProfileLookup, ChangeLookup, ForgotRead, VerifyResolve, ResetLink
<1>4. proved' = proved
  BY DEF Start, RegisterLookup, LoginRead, LogoutResolve, ResendResolve,
         ProfileLookup, ChangeLookup, ForgotRead, VerifyResolve, ResetLink
<1>5. uses' = uses
  BY DEF Start, RegisterLookup, LoginRead, LogoutResolve, ResendResolve,
         ProfileLookup, ChangeLookup, ForgotRead, VerifyResolve, ResetLink
<1>6. QED
  BY <1>1, <1>2, <1>3, <1>4, <1>5

LEMMA StartBegins ==
  ASSUME TablesOK, RowsOwned, NEW r \in Request, Start(r)
  PROVE  /\ users' = users /\ sessions' = sessions /\ links' = links
         /\ proved' = proved /\ uses' = uses
         /\ Begun(req'[r])
<1> DEFINE Begins(x) == req' = [req EXCEPT ![r] = x] /\ Begun(x)
<1>1. ASSUME NEW x, Begins(x)
      PROVE  Begun(req'[r])
  BY <1>1 DEF TablesOK
<1>2. ASSUME NEW s \in SessionId, Alive(s)
      PROVE  /\ Resolved(s) \in RequestRow /\ Resolved(s).user = sessions[s].user
             /\ Resolved(s).from = users[sessions[s].user].email
             /\ Resolved(s).verified = users[sessions[s].user].verified
  <2>1. Resolved(s) \in RequestRow
    BY <1>2, ResolvedTyped
  <2>2. /\ Resolved(s).user = sessions[s].user
        /\ Resolved(s).from = users[sessions[s].user].email
        /\ Resolved(s).verified = users[sessions[s].user].verified
    BY DEF Resolved, Idle
  <2>3. QED
    BY <2>1, <2>2
<1>3. ASSUME NEW s \in SessionId, Alive(s), NEW x, req' = [req EXCEPT ![r] = x],
             x.pc \in {"logout", "resend", "change"}, x.user = Resolved(s).user,
             x.from = Resolved(s).from, x.verified = Resolved(s).verified
      PROVE  \E y : Begins(y)
  <2>1. Begun(x)
    BY <1>2, <1>3 DEF Begun
  <2>2. QED
    BY <1>3, <2>1
<1>4. ASSUME NEW u \in User, NEW e \in Email, NEW n \in Nick, NEW p \in Password,
             RegisterLookup(r, u, e, n, p)
      PROVE  \E x : Begins(x)
  <2> DEFINE x == [Idle EXCEPT !.pc = "register_nick", !.user = u,
                               !.email = e, !.nick = n, !.pwd = p]
  <2>1. x.pc = "register_nick"
    BY DEF Idle
  <2>2. req' = [req EXCEPT ![r] = x]
    BY <1>4 DEF RegisterLookup
  <2> HIDE DEF x
  <2>3. QED
    BY <2>1, <2>2 DEF Begun
<1>5. ASSUME NEW e \in Email, NEW p \in Password, LoginRead(r, e, p)
      PROVE  \E x : Begins(x)
  <2>0. Owners("email", e) \subseteq User
    BY DEF Owners
  <2>1. PICK u \in Owners("email", e) :
          /\ users[u].pwd = p
          /\ req' = [req EXCEPT ![r] = [Idle EXCEPT !.pc = "login", !.user = u, !.pwd = p]]
    BY <1>5 DEF LoginRead
  <2> DEFINE x == [Idle EXCEPT !.pc = "login", !.user = u, !.pwd = p]
  <2>2. x.pc = "login" /\ x.user = u /\ x.pwd = p
    BY DEF Idle
  <2>3. req' = [req EXCEPT ![r] = x]
    BY <2>1
  <2> HIDE DEF x
  <2>4. QED
    BY <2>1, <2>2, <2>3 DEF Begun
<1>6. ASSUME NEW s \in SessionId, LogoutResolve(r, s) \/ ResendResolve(r, s)
      PROVE  \E x : Begins(x)
  <2>1. Alive(s)
    BY <1>6 DEF LogoutResolve, ResendResolve
  <2>2. PICK pc \in {"logout", "resend"} : req' = [req EXCEPT ![r] = [Resolved(s) EXCEPT !.pc = pc]]
    BY <1>6 DEF LogoutResolve, ResendResolve
  <2> DEFINE x == [Resolved(s) EXCEPT !.pc = pc]
  <2>3. /\ x.pc = pc /\ x.user = Resolved(s).user /\ x.from = Resolved(s).from
        /\ x.verified = Resolved(s).verified
    BY <1>2, <2>1 DEF RequestRow
  <2>4. req' = [req EXCEPT ![r] = x]
    BY <2>2
  <2> HIDE DEF x
  <2>5. QED
    BY <1>3, <2>1, <2>2, <2>3, <2>4
<1>7. ASSUME NEW s \in SessionId, NEW n \in Nick, ProfileLookup(r, s, n)
      PROVE  \E x : Begins(x)
  <2> DEFINE m == IF users[sessions[s].user].nick = n THEN None ELSE n
             x == [Resolved(s) EXCEPT !.pc = "profile", !.nick = m]
  <2>1. req' = [req EXCEPT ![r] = x]
    BY <1>7 DEF ProfileLookup
  <2> HIDE DEF m
  <2>2. x.pc = "profile"
    BY DEF Resolved, Idle
  <2> HIDE DEF x
  <2>3. QED
    BY <2>1, <2>2 DEF Begun
<1>8. ASSUME NEW s \in SessionId, NEW e \in Email, ChangeLookup(r, s, e)
      PROVE  \E x : Begins(x)
  <2> DEFINE x == [Resolved(s) EXCEPT !.pc = "change", !.email = e]
  <2>1. Alive(s) /\ req' = [req EXCEPT ![r] = x]
    BY <1>8 DEF ChangeLookup
  <2>2. /\ x.pc = "change" /\ x.user = Resolved(s).user /\ x.from = Resolved(s).from
        /\ x.verified = Resolved(s).verified
    BY <1>2, <2>1 DEF RequestRow
  <2> HIDE DEF x
  <2>3. QED
    BY <1>3, <2>1, <2>2
<1>9. ASSUME NEW e \in Email, ForgotRead(r, e)
      PROVE  \E x : Begins(x)
  <2>0. \A u \in Owners("email", e) : u \in User /\ users[u].email = e
    BY DEF Owners
  <2>1. PICK u \in Owners("email", e) :
          req' = [req EXCEPT ![r] = [Idle EXCEPT !.pc = "forgot", !.user = u, !.from = e]]
    BY <1>9 DEF ForgotRead
  <2> DEFINE x == [Idle EXCEPT !.pc = "forgot", !.user = u, !.from = e]
  <2>2. x.pc = "forgot" /\ x.user = u /\ x.from = e /\ users[u].email = e
    BY <2>0 DEF Idle
  <2>3. req' = [req EXCEPT ![r] = x]
    BY <2>1
  <2> HIDE DEF x
  <2>4. QED
    BY <2>2, <2>3 DEF Begun
<1>10. ASSUME NEW t \in Link, NEW s \in SessionId \cup {None}, VerifyResolve(r, t, s)
       PROVE  \E x : Begins(x)
  <2> DEFINE y == IF s = None THEN Idle ELSE Resolved(s)
             x == [y EXCEPT !.pc = "verify_link", !.link = t]
  <2>1. req' = [req EXCEPT ![r] = x] /\ links[t].addr # None
    BY <1>10 DEF VerifyResolve
  <2>2. "pc" \in DOMAIN y /\ "link" \in DOMAIN y
    BY DEF Resolved, Idle
  <2> HIDE DEF y
  <2>3. x.pc = "verify_link" /\ x.link = t
    BY <2>2
  <2> HIDE DEF x
  <2>4. QED
    BY <2>1, <2>3 DEF Begun
<1>11. ASSUME NEW t \in Link, NEW p \in Password, ResetLink(r, t, p)
       PROVE  \E x : Begins(x)
  <2> DEFINE x == [Idle EXCEPT !.pc = "reset", !.link = t, !.user = links[t].user,
                               !.pwd = p]
  <2>1. req' = [req EXCEPT ![r] = x] /\ links[t].state = "unused"
    BY <1>11 DEF ResetLink, Accepted
  <2>2. x.pc = "reset" /\ x.link = t
    BY DEF Idle
  <2> HIDE DEF x
  <2>3. QED
    BY <2>1, <2>2 DEF Begun
<1>12. \E x : Begins(x)
  BY <1>4, <1>5, <1>6, <1>7, <1>8, <1>9, <1>10, <1>11 DEF Start
<1>13. QED
  BY <1>1, <1>12, StartUntouched

(* What a step that touches no table makes of its own request.             *)
Quiet(r) ==
  \/ RegisterNick(r) \/ ResendInvalidate(r) \/ ChangeFlush(r) \/ ForgotInvalidate(r)
  \/ VerifyLink(r) \/ VerifyUser(r) \/ ResetRevoke(r) \/ Abort(r)
Moves(me, x) ==
  \/ x = Idle
  \/ x.pc \in {"register_commit", "forgot_flushed"}
  \/ /\ me.pc = "resend" /\ x.pc = "resend_flushed"
     /\ x.user = me.user /\ x.from = me.from
  \/ /\ me.pc = "change" /\ x.pc = "change_flushed"
     /\ x.user = me.user /\ x.from = me.from /\ x.verified = me.verified
     /\ x.captured = LinksOf(me.user, "verify_email")
  \/ /\ me.pc = "verify_link" /\ x.pc = "verify_user" /\ x.link = me.link
     /\ Accepted(me.link, "verify_email")
  \/ /\ me.pc = "verify_user" /\ x.pc = "verify_commit" /\ x.link = me.link
     /\ x.user = links[me.link].user
  \/ /\ me.pc = "reset" /\ x.pc = "reset_flushed" /\ x.link = me.link
     /\ x.user = me.user /\ x.captured = {s \in SessionId : sessions[s].user = me.user}

LEMMA QuietMoves ==
  ASSUME TablesOK, NEW r \in Request, Quiet(r)
  PROVE  /\ users' = users /\ sessions' = sessions /\ links' = links
         /\ proved' = proved /\ uses' = uses
         /\ Moves(req[r], req'[r])
<1> DEFINE me == req[r]
<1>0. me \in RequestRow
  BY DEF TablesOK
<1>1. /\ users' = users /\ sessions' = sessions /\ links' = links
      /\ proved' = proved /\ uses' = uses
  <2>1. users' = users /\ sessions' = sessions /\ links' = links
    BY DEF Quiet, RegisterNick, ResendInvalidate, ChangeFlush, ForgotInvalidate,
           VerifyLink, VerifyUser, ResetRevoke, Abort
  <2>2. proved' = proved /\ uses' = uses
    BY DEF Quiet, RegisterNick, ResendInvalidate, ChangeFlush, ForgotInvalidate,
           VerifyLink, VerifyUser, ResetRevoke, Abort
  <2>3. QED
    BY <2>1, <2>2
<1> SUFFICES Moves(me, req'[r])
  BY <1>1
<1>2. CASE Done(r)
  BY <1>2 DEF Done, TablesOK, Moves
<1>3. ASSUME NEW pc, NEW C
      PROVE  LET x == [me EXCEPT !.pc = pc, !.captured = C] IN
             /\ x.pc = pc /\ x.captured = C /\ x.user = me.user /\ x.link = me.link
             /\ x.from = me.from /\ x.verified = me.verified
  BY <1>0 DEF RequestRow
<1>4. ASSUME NEW pc
      PROVE  LET x == [me EXCEPT !.pc = pc] IN x.pc = pc /\ x.link = me.link
  BY <1>0 DEF RequestRow
<1>5. CASE RegisterNick(r) /\ ~Done(r)
  <2>1. req'[r] = [me EXCEPT !.pc = "register_commit"]
    BY <1>5 DEF RegisterNick, Goto, TablesOK
  <2>2. req'[r].pc = "register_commit"
    BY <1>4, <2>1
  <2>3. QED
    BY <2>2 DEF Moves
<1>6. CASE ForgotInvalidate(r)
  <2> DEFINE C == LinksOf(me.user, "reset_password")
  <2>1. req'[r] = [me EXCEPT !.pc = "forgot_flushed", !.captured = C]
    BY <1>6 DEF ForgotInvalidate, TablesOK
  <2> HIDE DEF C
  <2>2. req'[r].pc = "forgot_flushed"
    BY <1>3, <2>1
  <2>3. QED
    BY <2>2 DEF Moves
<1>7. CASE ResendInvalidate(r)
  <2> DEFINE C == LinksOf(me.user, "verify_email")
             x == [me EXCEPT !.pc = "resend_flushed", !.captured = C]
  <2>1. req'[r] = x /\ me.pc = "resend"
    BY <1>7 DEF ResendInvalidate, TablesOK
  <2>2. x.pc = "resend_flushed" /\ x.user = me.user /\ x.from = me.from
    BY <1>3
  <2> HIDE DEF C, x
  <2>3. QED
    BY <2>1, <2>2 DEF Moves
<1>8. CASE ChangeFlush(r) /\ ~Done(r)
  <2> DEFINE C == LinksOf(me.user, "verify_email")
             x == [me EXCEPT !.pc = "change_flushed", !.captured = C]
  <2>1. req'[r] = x /\ me.pc = "change"
    BY <1>8 DEF ChangeFlush, TablesOK
  <2>2. /\ x.pc = "change_flushed" /\ x.user = me.user /\ x.from = me.from
        /\ x.verified = me.verified /\ x.captured = C
    BY <1>3
  <2> HIDE DEF x
  <2>3. QED
    BY <2>1, <2>2 DEF Moves
<1>9. CASE VerifyLink(r) /\ ~Done(r)
  <2>1. /\ req'[r] = [me EXCEPT !.pc = "verify_user"] /\ me.pc = "verify_link"
        /\ Accepted(me.link, "verify_email")
    BY <1>9 DEF VerifyLink, Goto, TablesOK
  <2>2. req'[r].pc = "verify_user" /\ req'[r].link = me.link
    BY <1>4, <2>1
  <2>3. QED
    BY <2>1, <2>2 DEF Moves
<1>10. CASE VerifyUser(r)
  <2> DEFINE u == links[me.link].user
             v == IF me.user = u THEN me.verified ELSE users[u].verified
             x == [me EXCEPT !.pc = "verify_commit", !.user = u, !.verified = v]
  <2>1. req'[r] = x /\ me.pc = "verify_user"
    BY <1>10 DEF VerifyUser, TablesOK
  <2> HIDE DEF v
  <2>2. x.pc = "verify_commit" /\ x.link = me.link /\ x.user = u
    BY <1>0 DEF RequestRow
  <2> HIDE DEF x
  <2>3. QED
    BY <2>1, <2>2 DEF Moves
<1>11. CASE ResetRevoke(r)
  <2> DEFINE C == {s \in SessionId : sessions[s].user = me.user}
             x == [me EXCEPT !.pc = "reset_flushed", !.captured = C]
  <2>1. req'[r] = x /\ me.pc = "reset"
    BY <1>11 DEF ResetRevoke, TablesOK
  <2>2. x.pc = "reset_flushed" /\ x.link = me.link /\ x.user = me.user /\ x.captured = C
    BY <1>3
  <2> HIDE DEF x
  <2>3. QED
    BY <2>1, <2>2 DEF Moves
<1>12. QED
  BY <1>2, <1>5, <1>6, <1>7, <1>8, <1>9, <1>10, <1>11 DEF Quiet, Abort

(* The commits that issue a link, and what they make of their request.     *)
Issued(r) == Issues(r) /\ (RegisterCommit(r) => ~Conflicts(req[r]))

LEMMA IssuerMoves ==
  ASSUME TablesOK, NEW r \in Request, Issued(r)
  PROVE  /\ FreeLinks # {} /\ \E type \in LinkType : IssueLink(r, type)
         /\ req'[r].pc \in Sending /\ req'[r].link = NewLink
         /\ req'[r].user = req[r].user /\ req'[r].from = req[r].from
         /\ req'[r].pc = "deliver_loaded" => ResendCommit(r) \/ ForgotCommit(r)
         /\ proved' = proved /\ uses' = uses
<1> DEFINE me == req[r]
<1>0. me \in RequestRow
  BY DEF TablesOK
<1>1. ASSUME NEW pc
      PROVE  LET x == [me EXCEPT !.pc = pc, !.link = NewLink] IN
             /\ x.pc = pc /\ x.link = NewLink /\ x.user = me.user /\ x.from = me.from
  BY <1>0 DEF RequestRow
<1>2. ASSUME NEW pc
      PROVE  LET x == [me EXCEPT !.pc = pc, !.link = NewLink, !.captured = {}] IN
             /\ x.pc = pc /\ x.link = NewLink /\ x.user = me.user /\ x.from = me.from
  BY <1>0 DEF RequestRow
<1>3. FreeLinks # {} /\ \E type \in LinkType : IssueLink(r, type)
  BY DEF Issued, Issues, RegisterCommit, ResendCommit, ChangeCommit, ForgotCommit, LinkType
<1>4. proved' = proved /\ uses' = uses
  BY DEF Issued, Issues, RegisterCommit, ResendCommit, ChangeCommit, ForgotCommit
<1>5. CASE RegisterCommit(r)
  <2>1. req'[r] = [me EXCEPT !.pc = "deliver_current", !.link = NewLink]
    BY <1>5 DEF Issued, RegisterCommit, TablesOK
  <2>2. QED
    BY <1>1, <1>3, <1>4, <2>1 DEF Sending
<1>6. CASE ChangeCommit(r)
  <2>1. req'[r] = [me EXCEPT !.pc = "deliver_current", !.link = NewLink, !.captured = {}]
    BY <1>6 DEF ChangeCommit, TablesOK
  <2>2. QED
    BY <1>2, <1>3, <1>4, <2>1 DEF Sending
<1>7. CASE ResendCommit(r) \/ ForgotCommit(r)
  <2>1. req'[r] = [me EXCEPT !.pc = "deliver_loaded", !.link = NewLink, !.captured = {}]
    BY <1>7 DEF ResendCommit, ForgotCommit, TablesOK
  <2>2. QED
    BY <1>2, <1>3, <1>4, <1>7, <2>1 DEF Sending
<1>8. QED
  BY <1>5, <1>6, <1>7 DEF Issued, Issues

(* The other commits, after which the request is done.                     *)
Commits(r) ==
  \/ LoginCommit(r) \/ LogoutCommit(r) \/ ProfileCommit(r) \/ Deliver(r)
  \/ VerifyCommit(r) \/ ResetCommit(r)
Refused(r) == RegisterCommit(r) /\ Conflicts(req[r])

LEMMA CommitsDone ==
  ASSUME TablesOK, NEW r \in Request, Commits(r) \/ Refused(r)
  PROVE  req'[r] = Idle
<1>1. Done(r)
  BY DEF Commits, Refused, LoginCommit, LogoutCommit, ProfileCommit, Deliver, VerifyCommit,
         ResetCommit, RegisterCommit
<1>2. QED
  BY <1>1 DEF Done, TablesOK

LEMMA StepKinds ==
  ASSUME NEW r \in Request, Step(r)
  PROVE  Quiet(r) \/ Issued(r) \/ Commits(r) \/ Refused(r)
BY DEF Step, Quiet, Issued, Issues, Commits, Refused

-----------------------------------------------------------------------------
(* What a step does to the links that are there already.                   *)
LEMMA RowStays ==
  ASSUME TablesOK, NEW r \in Request, Start(r) \/ Step(r),
         NEW t \in Link, links[t].state # "none"
  PROVE  /\ LinkKept(t) /\ links'[t].state # "none"
         /\ \/ links'[t].addr = links[t].addr
            \/ Deliver(r) /\ t = req[r].link
<1>0. links[t] \in LinkRow
  BY DEF TablesOK
<1>1. CASE links' = links
  BY <1>1 DEF LinkKept
<1>2. CASE Issued(r)
  <2>1. PICK type \in LinkType : FreeLinks # {} /\ IssueLink(r, type)
    BY <1>2, IssuerMoves
  <2>2. t # NewLink
    BY <2>1, NewIds
  <2>3. QED
    BY <2>1, <2>2, IssuedRow DEF LinkKept, Live
<1>3. ASSUME NEW l, Spend(l)
      PROVE  LinkKept(t) /\ links'[t].state # "none" /\ links'[t].addr = links[t].addr
  <2>1. links'[t] = IF t = l THEN [links[t] EXCEPT !.state = "used"] ELSE links[t]
    BY <1>3 DEF Spend, TablesOK
  <2>2. LinkKept(t)
    BY <1>3, SpendKept
  <2>3. QED
    BY <1>0, <2>1, <2>2 DEF LinkRow
<1>4. CASE Deliver(r)
  <2> DEFINE a == IF req[r].pc = "deliver_loaded" THEN req[r].from
                  ELSE users[req[r].user].email
  <2>1. links'[t] = IF t = req[r].link THEN [links[t] EXCEPT !.addr = a] ELSE links[t]
    BY <1>4 DEF Deliver, TablesOK
  <2> HIDE DEF a
  <2>2. LinkKept(t)
    BY <1>4, DeliverKept
  <2>3. QED
    BY <1>0, <1>4, <2>1, <2>2 DEF LinkRow
<1>5. CASE Start(r)
  BY <1>1, <1>5, StartUntouched
<1>6. CASE Quiet(r)
  BY <1>1, <1>6, QuietMoves
<1>7. CASE Refused(r)
  BY <1>1, <1>7 DEF Refused, RegisterCommit
<1>8. CASE Commits(r)
  BY <1>1, <1>3, <1>4, <1>8 DEF Commits, LoginCommit, LogoutCommit, ProfileCommit,
                                VerifyCommit, ResetCommit
<1>9. QED
  BY <1>2, <1>5, <1>6, <1>7, <1>8, StepKinds

LEMMA IssuedNew ==
  ASSUME TablesOK, NEW r \in Request, Issued(r)
  PROVE  /\ NewLink \in Link /\ links[NewLink].state = "none"
         /\ links'[NewLink].user = req[r].user /\ links'[NewLink].addr = None
         /\ links'[NewLink].by = r /\ links'[NewLink].state = "unused"
         /\ \A t \in Link \ {NewLink} : links[t].state = "none" => links'[t].state = "none"
<1>1. PICK type \in LinkType : FreeLinks # {} /\ IssueLink(r, type)
  BY IssuerMoves
<1>2. NewLink \in Link /\ links[NewLink].state = "none"
  BY <1>1, NewIds
<1>3. links'[NewLink] = [user |-> req[r].user, type |-> type, state |-> "unused",
                         addr |-> None, by |-> r]
  BY <1>1, <1>2, IssuedRow
<1>4. \A t \in Link \ {NewLink} : links[t].state = "none" => links'[t].state = "none"
  BY <1>1, IssuedRow DEF Live
<1>5. QED
  BY <1>2, <1>3, <1>4

(* Only issuing makes a row where there was none.                          *)
LEMMA NoRowStays ==
  ASSUME TablesOK, NEW r \in Request, Start(r) \/ (Step(r) /\ ~Issued(r)), LinksOwned,
         NEW t \in Link, RequestOwned(r)
  PROVE  links[t].state = "none" => links'[t].state = "none"
<1> SUFFICES ASSUME links[t].state = "none"
             PROVE  links'[t].state = "none"
  OBVIOUS
<1>0. links[t] \in LinkRow
  BY DEF TablesOK
<1>1. CASE links' = links
  BY <1>1
<1>2. CASE Start(r)
  BY <1>1, <1>2, StartUntouched
<1>3. CASE Quiet(r)
  BY <1>1, <1>3, QuietMoves
<1>4. CASE Refused(r)
  BY <1>1, <1>4 DEF Refused, RegisterCommit
<1>5. CASE Commits(r)
  <2>1. CASE VerifyCommit(r) \/ ResetCommit(r)
    <3>1. req[r].link # t
      BY <2>1 DEF VerifyCommit, ResetCommit, RequestOwned, HoldsLink
    <3>2. links'[t] = links[t]
      BY <2>1, <3>1 DEF VerifyCommit, ResetCommit, Spend, TablesOK
    <3>3. QED
      BY <3>2
  <2>2. CASE Deliver(r)
    <3>1. req[r].link # t
      BY <2>2 DEF Deliver, RequestOwned, HoldsLink
    <3>2. links'[t] = links[t]
      BY <2>2, <3>1 DEF Deliver, TablesOK
    <3>3. QED
      BY <3>2
  <2>3. QED
    BY <1>1, <1>5, <2>1, <2>2 DEF Commits, LoginCommit, LogoutCommit, ProfileCommit
<1>6. QED
  BY <1>2, <1>3, <1>4, <1>5, StepKinds

LEMMA ExpiryStays ==
  ASSUME TablesOK, NEW t \in Link,
         \/ \E l \in Link : ExpireLink(l)
         \/ \E s \in SessionId : ExpireSession(s)
         \/ UNCHANGED vars
  PROVE  /\ users' = users /\ req' = req /\ proved' = proved /\ uses' = uses
         /\ links'[t].user = links[t].user /\ links'[t].type = links[t].type
         /\ links'[t].addr = links[t].addr /\ links'[t].by = links[t].by
         /\ links'[t].state \in Live <=> links[t].state \in Live
         /\ links'[t].state = "used" <=> links[t].state = "used"
<1>0. users' = users /\ req' = req /\ proved' = proved /\ uses' = uses
  BY DEF ExpireLink, ExpireSession, vars
<1>1. links[t] \in LinkRow
  BY DEF TablesOK
<1>2. CASE links' = links
  BY <1>0, <1>2
<1>3. ASSUME NEW l \in Link, ExpireLink(l)
      PROVE  /\ links'[t].user = links[t].user /\ links'[t].type = links[t].type
             /\ links'[t].addr = links[t].addr /\ links'[t].by = links[t].by
             /\ links'[t].state \in Live <=> links[t].state \in Live
             /\ links'[t].state = "used" <=> links[t].state = "used"
  <2>1. /\ links[l].state = "unused"
        /\ links'[t] = IF t = l THEN [links[t] EXCEPT !.state = "expired"] ELSE links[t]
    BY <1>3 DEF ExpireLink, TablesOK
  <2>2. QED
    BY <1>1, <2>1 DEF LinkRow, Live
<1>4. QED
  BY <1>0, <1>2, <1>3 DEF ExpireSession, vars

LEMMA NextHandled ==
  ASSUME TablesOK, Owned, LinksHandled, [Next]_vars
  PROVE  LinksHandled'
<1>1. CASE \/ \E l \in Link : ExpireLink(l)
           \/ \E s \in SessionId : ExpireSession(s)
           \/ UNCHANGED vars
  <2> SUFFICES ASSUME NEW q \in Request
               PROVE  HandlesLink(q)'
    BY DEF LinksHandled
  <2>1. req' = req
    BY <1>1 DEF ExpireLink, ExpireSession, vars
  <2>2. CASE req[q].pc \in HoldsLink
    <3>1. req[q].link \in Link
      BY <2>2 DEF Owned, RequestOwned
    <3>2. QED
      BY <1>1, <2>1, <3>1, ExpiryStays DEF LinksHandled, HandlesLink
  <2>3. CASE req[q].pc \notin HoldsLink
    BY <2>1, <2>3 DEF HandlesLink, HoldsLink, Sending, Following
  <2>4. QED
    BY <2>2, <2>3
<1>2. ASSUME NEW r \in Request, Start(r) \/ Step(r)
      PROVE  LinksHandled'
  <2> SUFFICES ASSUME NEW q \in Request
               PROVE  HandlesLink(q)'
    BY DEF LinksHandled
  <2> DEFINE me == req[q]
             x == req'[q]
  <2>0. RequestOwned(q) /\ HandlesLink(q)
    BY DEF Owned, LinksHandled
  <2>1. CASE q # r /\ me.pc \in HoldsLink
    <3>1. x = me
      BY <1>2, <2>1, PicksAll
    <3>2. me.link \in Link /\ links[me.link].state # "none"
      BY <2>0, <2>1 DEF RequestOwned
    <3>3. LinkKept(me.link)
      BY <1>2, <3>2, RowStays
    <3>4. me.pc \in Sending \cup Following => links'[me.link].addr = links[me.link].addr
      <4>1. SUFFICES ASSUME Deliver(r), me.link = req[r].link,
                            me.pc \in Sending \cup Following
                     PROVE  FALSE
        BY <1>2, <3>2, RowStays
      <4>2. links[me.link].addr = None /\ links[me.link].by = r
        BY <4>1 DEF LinksHandled, HandlesLink, Deliver, Sending
      <4>3. QED
        BY <2>0, <2>1, <4>1, <4>2 DEF HandlesLink
    <3>5. QED
      BY <2>0, <3>1, <3>3, <3>4 DEF HandlesLink, LinkKept, Sending, Following
  <2>2. CASE q # r /\ me.pc \notin HoldsLink
    <3>1. x = me
      BY <1>2, <2>2, PicksAll
    <3>2. QED
      BY <2>2, <3>1 DEF HandlesLink, HoldsLink, Sending, Following
  <2>3. CASE q = r
    <3>1. CASE Start(r)
      <4>1. Begun(x) /\ links' = links
        BY <2>3, <3>1, StartBegins DEF Owned
      <4>2. QED
        BY <4>1 DEF Begun, HandlesLink, Sending, Following
    <3>2. CASE Quiet(r)
      <4>1. Moves(me, x) /\ links' = links
        BY <2>3, <3>2, QuietMoves
      <4>2. QED
        BY <2>0, <4>1 DEF Moves, HandlesLink, Sending, Following, Idle, Accepted
    <3>3. CASE Issued(r)
      BY <2>3, <3>3, IssuerMoves, IssuedNew DEF HandlesLink, Sending, Following
    <3>4. CASE Commits(r) \/ Refused(r)
      <4>1. x = Idle
        BY <2>3, <3>4, CommitsDone
      <4>2. QED
        BY <4>1 DEF HandlesLink, Sending, Following, Idle
    <3>5. QED
      BY <1>2, <3>1, <3>2, <3>3, <3>4, StepKinds
  <2>4. QED
    BY <2>1, <2>2, <2>3
<1>3. QED
  BY <1>1, <1>2 DEF Next, Act

-----------------------------------------------------------------------------
(* Links that are spent.                                                   *)
LEMMA UsesStep ==
  ASSUME TablesOK, NEW r \in Request, Start(r) \/ Step(r), NEW t \in Link
  PROVE  \/ uses'[t] = uses[t]
         \/ /\ Holding(req[r], t) /\ req'[r] = Idle
            /\ uses'[t] = uses[t] + 1 /\ links'[t].state = "used"
<1>1. CASE uses' = uses
  BY <1>1
<1>2. CASE VerifyCommit(r) \/ ResetCommit(r)
  <2>1. Spend(req[r].link) /\ req[r].pc \in {"verify_commit", "reset_flushed"}
    BY <1>2 DEF VerifyCommit, ResetCommit
  <2>2. req'[r] = Idle
    BY <1>2, CommitsDone DEF Commits
  <2>3. CASE t = req[r].link
    <3>1. uses'[t] = uses[t] + 1
      BY <2>1, <2>3 DEF Spend, TablesOK
    <3>2. links[t] \in LinkRow /\ links'[t] = [links[t] EXCEPT !.state = "used"]
      BY <2>1, <2>3 DEF Spend, TablesOK
    <3>3. links'[t].state = "used"
      BY <3>2 DEF LinkRow
    <3>4. QED
      BY <2>1, <2>2, <2>3, <3>1, <3>3 DEF Holding
  <2>4. CASE t # req[r].link
    BY <2>1, <2>4 DEF Spend, TablesOK
  <2>5. QED
    BY <2>3, <2>4
<1>3. CASE Start(r)
  BY <1>1, <1>3, StartUntouched
<1>4. CASE Quiet(r)
  BY <1>1, <1>4, QuietMoves
<1>5. CASE Issued(r)
  BY <1>1, <1>5, IssuerMoves
<1>6. CASE Refused(r)
  BY <1>1, <1>6 DEF Refused, RegisterCommit
<1>7. CASE LoginCommit(r) \/ LogoutCommit(r) \/ ProfileCommit(r) \/ Deliver(r)
  BY <1>1, <1>7 DEF LoginCommit, LogoutCommit, ProfileCommit, Deliver
<1>8. QED
  BY <1>2, <1>3, <1>4, <1>5, <1>6, <1>7, StepKinds DEF Commits

(* A request holds a link from its check on, when nothing had spent it.    *)
LEMMA HoldingStep ==
  ASSUME TablesOK, Owned, NEW r \in Request, Start(r) \/ Step(r), NEW t \in Link,
         Holding(req'[r], t)
  PROVE  Holding(req[r], t) \/ links[t].state = "unused"
<1>1. CASE Start(r)
  <2>1. Begun(req'[r])
    BY <1>1, StartBegins DEF Owned
  <2>2. QED
    BY <2>1 DEF Begun, Holding
<1>2. CASE Quiet(r)
  <2>1. Moves(req[r], req'[r])
    BY <1>2, QuietMoves
  <2>2. QED
    BY <2>1 DEF Moves, Holding, Accepted, Idle
<1>3. CASE Issued(r)
  BY <1>3, IssuerMoves DEF Holding, Sending
<1>4. CASE Commits(r) \/ Refused(r)
  BY <1>4, CommitsDone DEF Holding, Idle
<1>5. QED
  BY <1>1, <1>2, <1>3, <1>4, StepKinds

LEMMA StepSpent ==
  ASSUME TablesOK, Owned, NEW r \in Request, Start(r) \/ Step(r), NEW t \in Link,
         links[t].state = "used" => links'[t].state = "used",
         ~Shared(t), SpentOnce(t)
  PROVE  SpentOnce(t)'
<1>0. uses[t] \in Nat
  BY DEF TablesOK
<1>1. \A q \in Request \ {r} : req'[q] = req[q]
  BY PicksAll
<1>2. CASE uses'[t] = uses[t]
  <2>1. ASSUME NEW q \in Request, Holding(req'[q], t)
        PROVE  uses'[t] = 0
    <3>1. Holding(req[q], t) \/ links[t].state = "unused"
      BY <1>1, <2>1, HoldingStep
    <3>2. QED
      BY <1>2, <3>1 DEF SpentOnce
  <2>2. QED
    BY <1>2, <2>1 DEF SpentOnce
<1>3. CASE /\ Holding(req[r], t) /\ req'[r] = Idle
           /\ uses'[t] = uses[t] + 1 /\ links'[t].state = "used"
  <2>1. uses'[t] = 1
    BY <1>3 DEF SpentOnce
  <2>2. ASSUME NEW q \in Request
        PROVE  ~Holding(req'[q], t)
    <3>1. CASE q = r
      BY <1>3, <3>1 DEF Holding, Idle
    <3>2. CASE q # r
      BY <1>1, <1>3, <3>2 DEF Shared
    <3>3. QED
      BY <3>1, <3>2
  <2>3. QED
    BY <1>3, <2>1, <2>2 DEF SpentOnce
<1>4. QED
  BY <1>2, <1>3, UsesStep

LEMMA NextSpent ==
  ASSUME TablesOK, Owned, SpentInv, [Next]_vars
  PROVE  SpentInv'
<1>1. CASE UNCHANGED vars
  <2>1. /\ links' = links /\ req' = req /\ uses' = uses /\ shared' = shared
    BY <1>1 DEF vars
  <2>2. QED
    BY <2>1 DEF SpentInv, SpentOnce, Shared
<1>2. CASE Act /\ Racing
  <2>1. shared' = shared \cup {t \in Link : Shared(t)'}
    BY <1>2 DEF Racing
  <2>2. ASSUME NEW t \in Link, t \notin shared'
        PROVE  SpentOnce(t)'
    <3>1. ~Shared(t) /\ SpentOnce(t)
      BY <2>1, <2>2 DEF SpentInv
    <3>2. CASE \E r \in Request : Start(r) \/ Step(r)
      BY <3>1, <3>2, StepSpent, UsedKept
    <3>3. CASE \/ \E l \in Link : ExpireLink(l)
               \/ \E s \in SessionId : ExpireSession(s)
      <4>1. /\ req' = req /\ uses' = uses
            /\ links'[t].state = "used" <=> links[t].state = "used"
        BY <3>3, ExpiryStays
      <4>2. QED
        BY <3>1, <4>1 DEF SpentOnce
    <3>4. QED
      BY <1>2, <3>2, <3>3 DEF Act
  <2>3. QED
    BY <2>1, <2>2 DEF SpentInv
<1>3. QED
  BY <1>1, <1>2 DEF Next

-----------------------------------------------------------------------------
(* Sessions and the password of their account.                             *)
LEMMA RevokedAlive ==
  ASSUME TablesOK, NEW S, NEW s \in SessionId
  PROVE  /\ Revoked(S)[s].user = sessions[s].user
         /\ Revoked(S)[s].pwd = sessions[s].pwd
         /\ Revoked(S)[s].state = "alive" => sessions[s].state = "alive" /\ s \notin S
<1>1. sessions[s] \in SessionRow
  BY DEF TablesOK
<1>2. QED
  BY <1>1 DEF Revoked, SessionRow

LEMMA NothingRevoked ==
  ASSUME TablesOK
  PROVE  Revoked({}) = sessions
BY DEF TablesOK, Revoked

(* A step that opens no session and does not write the password of u.      *)
LEMMA PasswordFrame ==
  ASSUME NEW u \in User, PasswordOf(u), users'[u].pwd = users[u].pwd,
         \A s \in SessionId :
           sessions'[s].state = "alive" /\ sessions'[s].user = u =>
             /\ sessions[s].state = "alive" /\ sessions[s].user = u
             /\ sessions'[s].pwd = sessions[s].pwd,
         NEW r \in Request, \A q \in Request \ {r} : req'[q] = req[q],
         LoggingIn(req'[r], u) => req'[r].pwd = users[u].pwd,
         Resetting(req'[r], u) => Opened(u) \subseteq req'[r].captured
  PROVE  PasswordOf(u)'
<1>1. \A s \in Opened(u)' : s \in Opened(u) /\ sessions'[s].pwd = sessions[s].pwd
  BY DEF Opened, Alive
<1>2. ASSUME NEW q \in Request
      PROVE  /\ LoggingIn(req'[q], u) => req'[q].pwd = users'[u].pwd
             /\ Resetting(req'[q], u) => Opened(u)' \subseteq req'[q].captured
  <2>1. CASE q = r
    BY <1>1, <2>1
  <2>2. CASE q # r
    BY <1>1, <2>2 DEF PasswordOf
  <2>3. QED
    BY <2>1, <2>2
<1>3. \A s \in Opened(u)' : sessions'[s].pwd = users'[u].pwd
  BY <1>1 DEF PasswordOf
<1>4. QED
  BY <1>2, <1>3 DEF PasswordOf

(* A step after which its request neither logs in nor revokes sessions.    *)
Plain(x) == x.pc \notin {"login", "reset_flushed"}

LEMMA PasswordUntouched ==
  ASSUME NEW u \in User, PasswordOf(u), users'[u].pwd = users[u].pwd, sessions' = sessions,
         NEW r \in Request, \A q \in Request \ {r} : req'[q] = req[q], Plain(req'[r])
  PROVE  PasswordOf(u)'
BY PasswordFrame DEF Plain, LoggingIn, Resetting

LEMMA StartPassword ==
  ASSUME TablesOK, Owned, NEW r \in Request, Start(r) \/ Quiet(r), NEW u \in User,
         \A q \in Request \ {r} : req'[q] = req[q], PasswordOf(u)
  PROVE  PasswordOf(u)'
<1> DEFINE me == req[r]
           x == req'[r]
<1>1. users' = users /\ sessions' = sessions
  BY StartUntouched, QuietMoves
<1>2. LoggingIn(x, u) => x.pwd = users[u].pwd
  <2>1. CASE Start(r)
    <3>1. Begun(x)
      BY <2>1, StartBegins DEF Owned
    <3>2. QED
      BY <3>1 DEF Begun, LoggingIn
  <2>2. CASE Quiet(r)
    <3>1. Moves(me, x)
      BY <2>2, QuietMoves
    <3>2. x.pc # "login"
      BY <3>1 DEF Moves, Idle
    <3>3. QED
      BY <3>2 DEF LoggingIn
  <2>3. QED
    BY <2>1, <2>2
<1>3. Resetting(x, u) => Opened(u) \subseteq x.captured
  <2>1. CASE Start(r)
    <3>1. Begun(x)
      BY <2>1, StartBegins DEF Owned
    <3>2. QED
      BY <3>1 DEF Begun, Resetting
  <2>2. CASE Quiet(r)
    <3>1. Moves(me, x)
      BY <2>2, QuietMoves
    <3>2. SUFFICES ASSUME x.pc = "reset_flushed", x.user = u
                   PROVE  Opened(u) \subseteq x.captured
      BY DEF Resetting
    <3>3. x.captured = {s \in SessionId : sessions[s].user = me.user} /\ x.user = me.user
      BY <3>1, <3>2 DEF Moves, Idle
    <3>4. QED
      BY <3>2, <3>3 DEF Opened
  <2>3. QED
    BY <2>1, <2>2
<1>4. QED
  BY <1>1, <1>2, <1>3, PasswordFrame

LEMMA RegisterPassword ==
  ASSUME TablesOK, Owned, NEW r \in Request, RegisterCommit(r), Issued(r), NEW u \in User,
         \A q \in Request \ {r} : req'[q] = req[q], PasswordOf(u)
  PROVE  PasswordOf(u)'
<1> DEFINE me == req[r]
<1>0. /\ me \in RequestRow /\ me.user \in User /\ ~Exists(me.user)
      /\ \A q \in Request \ {r} : req[q].user # me.user
  BY DEF Owned, RequestOwned, RegisterCommit, Registering, TablesOK
<1>1. /\ FreeSessions # {} /\ OpenSession(me.user, me.pwd)
      /\ users' = [users EXCEPT ![me.user] = NewRow(me)]
  BY DEF RegisterCommit, Issued
<1>2. req'[r].pc \in Sending
  BY IssuerMoves
<1>3. NewSession \in SessionId
  BY <1>1, NewIds
<1>4. \A s \in SessionId :
        sessions'[s] = IF s = NewSession
                       THEN [user |-> me.user, state |-> "alive", pwd |-> me.pwd]
                       ELSE sessions[s]
  BY <1>1 DEF OpenSession, TablesOK
<1>5. CASE u = me.user
  <2>1. users'[u].pwd = me.pwd
    BY <1>0, <1>1, <1>5 DEF NewRow, TablesOK
  <2>2. ASSUME NEW s \in Opened(u)'
        PROVE  sessions'[s].pwd = me.pwd
    <3>1. CASE s = NewSession
      <4>1. sessions'[s] = [user |-> me.user, state |-> "alive", pwd |-> me.pwd]
        BY <1>3, <1>4, <3>1
      <4>2. QED
        BY <4>1
    <3>2. CASE s # NewSession
      <4>1. s \in SessionId /\ sessions[s].user = u /\ sessions[s].state = "alive"
        BY <1>4, <3>2 DEF Opened, Alive
      <4>2. Exists(u)
        BY <4>1 DEF Owned, RowsOwned, SessionsOwned
      <4>3. QED
        BY <1>0, <1>5, <4>2
    <3>3. QED
      BY <3>1, <3>2
  <2>3. ASSUME NEW q \in Request
        PROVE  ~LoggingIn(req'[q], u) /\ ~Resetting(req'[q], u)
    <3>1. CASE q = r
      BY <1>2, <3>1 DEF Sending, LoggingIn, Resetting
    <3>2. CASE q # r
      BY <1>0, <1>5, <3>2 DEF LoggingIn, Resetting
    <3>3. QED
      BY <3>1, <3>2
  <2>4. QED
    BY <2>1, <2>2, <2>3 DEF PasswordOf
<1>6. CASE u # me.user
  <2>1. users'[u] = users[u]
    BY <1>1, <1>6 DEF TablesOK
  <2>2. ASSUME NEW s \in SessionId, sessions'[s].state = "alive", sessions'[s].user = u
        PROVE  sessions'[s] = sessions[s]
    <3>1. s # NewSession
      <4>1. SUFFICES ASSUME s = NewSession
                     PROVE  sessions'[s].user = me.user
        BY <1>6, <2>2
      <4>2. sessions'[s] = [user |-> me.user, state |-> "alive", pwd |-> me.pwd]
        BY <1>4, <4>1
      <4>3. QED
        BY <4>2
    <3>2. QED
      BY <1>4, <3>1
  <2>3. ~LoggingIn(req'[r], u) /\ ~Resetting(req'[r], u)
    BY <1>2 DEF Sending, LoggingIn, Resetting
  <2>4. \A s \in SessionId :
          sessions'[s].state = "alive" /\ sessions'[s].user = u =>
            /\ sessions[s].state = "alive" /\ sessions[s].user = u
            /\ sessions'[s].pwd = sessions[s].pwd
    BY <2>2
  <2>5. QED
    BY <2>1, <2>3, <2>4, PasswordFrame
<1>7. QED
  BY <1>5, <1>6

LEMMA IssuerPassword ==
  ASSUME TablesOK, Owned, NEW r \in Request, Issued(r), NEW u \in User,
         \A q \in Request \ {r} : req'[q] = req[q], PasswordOf(u)
  PROVE  PasswordOf(u)'
<1> DEFINE me == req[r]
           row == ChangedRow(users[me.user], me)
<1>1. Plain(req'[r])
  BY IssuerMoves DEF Plain, Sending
<1>2. CASE RegisterCommit(r)
  BY <1>2, RegisterPassword
<1>3. CASE ResendCommit(r) \/ ForgotCommit(r)
  <2>1. users' = users /\ sessions' = sessions
    BY <1>3 DEF ResendCommit, ForgotCommit
  <2>2. QED
    BY <1>1, <2>1, PasswordUntouched
<1>4. CASE ChangeCommit(r)
  <2>1. sessions' = sessions /\ users' = [users EXCEPT ![me.user] = row]
    BY <1>4 DEF ChangeCommit
  <2>2. users[u] \in UserRow
    BY DEF TablesOK
  <2>3. CASE u = me.user
    <3>1. row.pwd = users[u].pwd
      BY <2>2, <2>3 DEF ChangedRow, UserRow
    <3> HIDE DEF row
    <3>2. users'[u].pwd = users[u].pwd
      BY <2>1, <2>3, <3>1 DEF TablesOK
    <3>3. QED
      BY <1>1, <2>1, <3>2, PasswordUntouched
  <2>4. CASE u # me.user
    <3>1. users'[u] = users[u]
      BY <2>1, <2>4 DEF TablesOK
    <3>2. QED
      BY <1>1, <2>1, <3>1, PasswordUntouched
  <2>5. QED
    BY <2>3, <2>4
<1>5. QED
  BY <1>2, <1>3, <1>4 DEF Issued, Issues

LEMMA LoginPassword ==
  ASSUME TablesOK, Owned, NEW r \in Request, LoginCommit(r), NEW u \in User, ~Outrun(u),
         \A q \in Request \ {r} : req'[q] = req[q], req'[r] = Idle, PasswordOf(u)
  PROVE  PasswordOf(u)'
<1> DEFINE me == req[r]
<1>1. /\ users' = users /\ FreeSessions # {} /\ me.pc = "login"
      /\ OpenSession(me.user, me.pwd)
  BY DEF LoginCommit
<1>2. NewSession \in SessionId
  BY <1>1, NewIds
<1>3. \A s \in SessionId :
        sessions'[s] = IF s = NewSession
                       THEN [user |-> me.user, state |-> "alive", pwd |-> me.pwd]
                       ELSE sessions[s]
  BY <1>1 DEF OpenSession, TablesOK
<1>4. ASSUME NEW s \in SessionId, s = NewSession
      PROVE  sessions'[s].user = me.user /\ sessions'[s].pwd = me.pwd
  <2>1. sessions'[s] = [user |-> me.user, state |-> "alive", pwd |-> me.pwd]
    BY <1>3, <1>4
  <2>2. QED
    BY <2>1
<1>5. ASSUME NEW s \in Opened(u)'
      PROVE  \/ s \in Opened(u) /\ sessions'[s].pwd = sessions[s].pwd
             \/ me.user = u /\ sessions'[s].pwd = me.pwd
  BY <1>3, <1>4, <1>5 DEF Opened, Alive
<1>6. me.user = u => me.pwd = users[u].pwd
  BY <1>1 DEF PasswordOf, LoggingIn
<1>7. ASSUME NEW q \in Request, q # r, me.user = u
      PROVE  ~Resetting(req[q], u)
  BY <1>1, <1>7 DEF Outrun, LoggingIn
<1>8. \A s \in Opened(u)' : sessions'[s].pwd = users'[u].pwd
  BY <1>1, <1>5, <1>6 DEF PasswordOf
<1>9. ASSUME NEW q \in Request
      PROVE  /\ LoggingIn(req'[q], u) => req'[q].pwd = users'[u].pwd
             /\ Resetting(req'[q], u) => Opened(u)' \subseteq req'[q].captured
  <2>1. CASE q = r
    BY <2>1 DEF LoggingIn, Resetting, Idle
  <2>2. CASE q # r
    BY <1>1, <1>5, <1>7, <2>2 DEF PasswordOf
  <2>3. QED
    BY <2>1, <2>2
<1>10. QED
  BY <1>8, <1>9 DEF PasswordOf

LEMMA ResetPassword ==
  ASSUME TablesOK, Owned, NEW r \in Request, ResetCommit(r), NEW u \in User, ~Outrun(u),
         \A q \in Request \ {r} : req'[q] = req[q], req'[r] = Idle, PasswordOf(u)
  PROVE  PasswordOf(u)'
<1> DEFINE me == req[r]
<1>1. /\ me.pc = "reset_flushed" /\ users' = [users EXCEPT ![me.user].pwd = me.pwd]
      /\ sessions' = Revoked(me.captured)
  BY DEF ResetCommit
<1>2. ASSUME NEW s \in SessionId, sessions'[s].state = "alive"
      PROVE  /\ sessions[s].state = "alive" /\ sessions'[s].user = sessions[s].user
             /\ sessions'[s].pwd = sessions[s].pwd /\ s \notin me.captured
  BY <1>1, <1>2, RevokedAlive
<1>3. Plain(req'[r])
  BY DEF Plain, Idle
<1>4. CASE u = me.user
  <2>1. Opened(u) \subseteq me.captured
    BY <1>1, <1>4 DEF PasswordOf, Resetting
  <2>2. Opened(u)' = {}
    BY <1>2, <2>1 DEF Opened, Alive
  <2>3. ASSUME NEW q \in Request
        PROVE  ~LoggingIn(req'[q], u)
    <3>1. CASE q = r
      BY <3>1 DEF LoggingIn, Idle
    <3>2. CASE q # r
      BY <1>1, <1>4, <3>2 DEF Outrun, Resetting
    <3>3. QED
      BY <3>1, <3>2
  <2>4. QED
    BY <2>2, <2>3 DEF PasswordOf
<1>5. CASE u # me.user
  <2>1. users'[u] = users[u]
    BY <1>1, <1>5 DEF TablesOK
  <2>2. ~LoggingIn(req'[r], u) /\ ~Resetting(req'[r], u)
    BY DEF LoggingIn, Resetting, Idle
  <2>3. \A s \in SessionId :
          sessions'[s].state = "alive" /\ sessions'[s].user = u =>
            /\ sessions[s].state = "alive" /\ sessions[s].user = u
            /\ sessions'[s].pwd = sessions[s].pwd
    BY <1>2
  <2>4. QED
    BY <2>1, <2>2, <2>3, PasswordFrame
<1>6. QED
  BY <1>4, <1>5

(* The commits that write neither a password nor a session opened with one.*)
LEMMA CommitPassword ==
  ASSUME TablesOK, Owned, NEW r \in Request, NEW u \in User,
         LogoutCommit(r) \/ ProfileCommit(r) \/ Deliver(r) \/ VerifyCommit(r),
         \A q \in Request \ {r} : req'[q] = req[q], req'[r] = Idle, PasswordOf(u)
  PROVE  PasswordOf(u)'
<1> DEFINE me == req[r]
           w == IF me.verified THEN users[me.user].verified ELSE TRUE
<1>1. Plain(req'[r]) /\ ~LoggingIn(req'[r], u) /\ ~Resetting(req'[r], u)
  BY DEF Plain, LoggingIn, Resetting, Idle
<1>2. users[u] \in UserRow
  BY DEF TablesOK
<1>3. CASE Deliver(r)
  BY <1>1, <1>3, PasswordUntouched DEF Deliver
<1>4. CASE ProfileCommit(r)
  <2>1. users'[u] \in {users[u], [users[u] EXCEPT !.nick = me.nick]}
    BY <1>4 DEF ProfileCommit, TablesOK
  <2>2. users'[u].pwd = users[u].pwd
    BY <1>2, <2>1 DEF UserRow
  <2>3. QED
    BY <1>1, <1>4, <2>2, PasswordUntouched DEF ProfileCommit
<1>5. ASSUME NEW S, \A s \in SessionId : sessions'[s] = Revoked(S)[s]
                      \/ sessions'[s] = [user |-> me.user, state |-> "alive", pwd |-> None],
             users'[u].pwd = users[u].pwd
      PROVE  PasswordOf(u)'
  <2>1. ASSUME NEW s \in Opened(u)'
        PROVE  s \in Opened(u) /\ sessions'[s].pwd = sessions[s].pwd
    <3>1. s \in SessionId /\ sessions'[s].pwd # None
      BY <2>1 DEF Opened
    <3>2. sessions'[s] = Revoked(S)[s]
      <4>1. SUFFICES ASSUME sessions'[s] = [user |-> me.user, state |-> "alive", pwd |-> None]
                     PROVE  FALSE
        BY <1>5, <3>1
      <4>2. sessions'[s].pwd = None
        BY <4>1
      <4>3. QED
        BY <3>1, <4>2
    <3>3. QED
      BY <2>1, <3>2, RevokedAlive DEF Opened, Alive
  <2>2. \A s \in Opened(u)' : sessions'[s].pwd = users'[u].pwd
    BY <1>5, <2>1 DEF PasswordOf
  <2>3. ASSUME NEW q \in Request
        PROVE  /\ LoggingIn(req'[q], u) => req'[q].pwd = users'[u].pwd
               /\ Resetting(req'[q], u) => Opened(u)' \subseteq req'[q].captured
    <3>1. CASE q = r
      BY <1>1, <3>1
    <3>2. CASE q # r
      BY <1>5, <2>1, <3>2 DEF PasswordOf
    <3>3. QED
      BY <3>1, <3>2
  <2>4. QED
    BY <2>2, <2>3 DEF PasswordOf
<1>6. CASE LogoutCommit(r)
  <2>1. users' = users /\ sessions' = Revoked({me.sess})
    BY <1>6 DEF LogoutCommit
  <2>2. QED
    BY <1>5, <2>1
<1>7. CASE VerifyCommit(r)
  <2>1. users' = [users EXCEPT ![me.user] = [@ EXCEPT !.verified = w]]
    BY <1>7 DEF VerifyCommit, TablesOK
  <2> HIDE DEF w
  <2>2. users'[u].pwd = users[u].pwd
    <3>1. users'[u] \in {users[u], [users[u] EXCEPT !.verified = w]}
      BY <2>1 DEF TablesOK
    <3>2. QED
      BY <1>2, <3>1 DEF UserRow
  <2>3. CASE sessions' = sessions
    <3>1. sessions' = Revoked({})
      BY <2>3, NothingRevoked
    <3>2. QED
      BY <1>5, <2>2, <3>1
  <2>4. CASE sessions' = [Revoked({me.sess}) EXCEPT ![NewSession] =
                            [user |-> me.user, state |-> "alive", pwd |-> None]]
    <3>1. Revoked({me.sess}) \in [SessionId -> SessionRow]
      BY RevokedTyped
    <3>2. \A s \in SessionId : sessions'[s] = Revoked({me.sess})[s]
             \/ sessions'[s] = [user |-> me.user, state |-> "alive", pwd |-> None]
      BY <2>4, <3>1
    <3>3. QED
      BY <1>5, <2>2, <3>2
  <2>5. QED
    BY <1>7, <2>3, <2>4 DEF VerifyCommit
<1>8. QED
  BY <1>3, <1>4, <1>6, <1>7

LEMMA StepPassword ==
  ASSUME TablesOK, Owned, NEW r \in Request, Start(r) \/ Step(r), NEW u \in User,
         ~Outrun(u), PasswordOf(u)
  PROVE  PasswordOf(u)'
<1>1. \A q \in Request \ {r} : req'[q] = req[q]
  BY PicksAll
<1>2. CASE Start(r) \/ Quiet(r)
  BY <1>1, <1>2, StartPassword
<1>3. CASE Issued(r)
  BY <1>1, <1>3, IssuerPassword
<1>4. CASE Commits(r)
  <2>1. req'[r] = Idle
    BY <1>4, CommitsDone
  <2>2. QED
    BY <1>1, <1>4, <2>1, LoginPassword, ResetPassword, CommitPassword DEF Commits
<1>5. CASE Refused(r)
  <2>1. req'[r] = Idle /\ users' = users /\ sessions' = sessions
    BY <1>5, CommitsDone DEF Refused, RegisterCommit
  <2>2. Plain(req'[r])
    BY <2>1 DEF Plain, Idle
  <2>3. QED
    BY <1>1, <2>1, <2>2, PasswordUntouched
<1>6. QED
  BY <1>2, <1>3, <1>4, <1>5, StepKinds

LEMMA ExpiryPassword ==
  ASSUME TablesOK, NEW u \in User, PasswordOf(u),
         \/ \E l \in Link : ExpireLink(l)
         \/ \E s \in SessionId : ExpireSession(s)
  PROVE  PasswordOf(u)'
<1>1. users' = users /\ req' = req
  BY DEF ExpireLink, ExpireSession
<1>2. ASSUME NEW s \in SessionId
      PROVE  /\ sessions'[s].user = sessions[s].user /\ sessions'[s].pwd = sessions[s].pwd
             /\ sessions'[s].state = "alive" => sessions[s].state = "alive"
  <2>1. sessions[s] \in SessionRow
    BY DEF TablesOK
  <2>2. CASE sessions' = sessions
    BY <2>2
  <2>3. ASSUME NEW l \in SessionId, ExpireSession(l)
        PROVE  /\ sessions'[s].user = sessions[s].user /\ sessions'[s].pwd = sessions[s].pwd
               /\ sessions'[s].state = "alive" => sessions[s].state = "alive"
    <3>1. sessions'[s] = IF s = l THEN [sessions[s] EXCEPT !.state = "expired"]
                                  ELSE sessions[s]
      BY <2>3 DEF ExpireSession, TablesOK
    <3>2. QED
      BY <2>1, <3>1 DEF SessionRow
  <2>4. QED
    BY <2>2, <2>3 DEF ExpireLink
<1>3. \A s \in Opened(u)' : s \in Opened(u) /\ sessions'[s].pwd = sessions[s].pwd
  BY <1>2 DEF Opened, Alive
<1>4. QED
  BY <1>1, <1>3 DEF PasswordOf

LEMMA NextPassword ==
  ASSUME TablesOK, Owned, PasswordInv, [Next]_vars
  PROVE  PasswordInv'
<1>1. CASE UNCHANGED vars
  <2>1. users' = users /\ sessions' = sessions /\ req' = req /\ outrun' = outrun
    BY <1>1 DEF vars
  <2>2. QED
    BY <2>1 DEF PasswordInv, PasswordOf, Outrun, Opened, Alive
<1>2. CASE Act /\ Racing
  <2>1. outrun' = outrun \cup {u \in User : Outrun(u)'}
    BY <1>2 DEF Racing
  <2>2. ASSUME NEW u \in User, u \notin outrun'
        PROVE  PasswordOf(u)'
    <3>1. ~Outrun(u) /\ PasswordOf(u)
      BY <2>1, <2>2 DEF PasswordInv
    <3>2. QED
      BY <1>2, <3>1, StepPassword, ExpiryPassword DEF Act
  <2>3. QED
    BY <2>1, <2>2 DEF PasswordInv
<1>3. QED
  BY <1>1, <1>2 DEF Next

-----------------------------------------------------------------------------
(* The address an account is verified for.                                 *)

(* What the other requests know stays so when the address of u is not      *)
(* written and nobody who is changing it can be surprised.                 *)
LEMMA AddressFrame ==
  ASSUME TablesOK, Owned, LinksHandled, NEW u \in User, AddressOf(u),
         NEW r \in Request, Start(r) \/ Step(r),
         users'[u].email = users[u].email,
         ProvedRow(u)', Mailed(u)', KnowsAddress(r, u)',
         \A q \in Request \ {r} : Changing(req[q], u) =>
           /\ users'[u].verified = users[u].verified
           /\ LinksOf(u, "verify_email")' \subseteq LinksOf(u, "verify_email")
  PROVE  AddressOf(u)'
<1> SUFFICES ASSUME NEW q \in Request, q # r
             PROVE  KnowsAddress(q, u)'
  BY DEF AddressOf
<1> DEFINE me == req[q]
<1>1. req'[q] = me
  BY PicksAll
<1>2. KnowsAddress(q, u) /\ RequestOwned(q) /\ HandlesLink(q)
  BY DEF AddressOf, Owned, LinksHandled
<1>3. me.pc \in HoldsLink =>
        /\ me.link \in Link /\ links[me.link].state # "none" /\ LinkKept(me.link)
        /\ \/ links'[me.link].addr = links[me.link].addr
           \/ Deliver(r) /\ me.link = req[r].link
  <2> SUFFICES ASSUME me.pc \in HoldsLink
               PROVE  /\ me.link \in Link /\ links[me.link].state # "none" /\ LinkKept(me.link)
                      /\ \/ links'[me.link].addr = links[me.link].addr
                         \/ Deliver(r) /\ me.link = req[r].link
    OBVIOUS
  <2>1. me.link \in Link /\ links[me.link].state # "none"
    BY <1>2 DEF RequestOwned
  <2>2. QED
    BY <2>1, RowStays
<1>4. me.pc = "deliver_loaded" /\ me.link \in LinksOf(u, "verify_email")' =>
        me.link \in LinksOf(u, "verify_email")
  BY <1>3 DEF HoldsLink, LinksOf, LinkKept
<1>5. me.pc \in {"verify_user", "verify_commit"} =>
        /\ links'[me.link].user = links[me.link].user
        /\ links'[me.link].addr = links[me.link].addr
  <2>1. Deliver(r) => links[req[r].link].addr = None
    BY DEF LinksHandled, HandlesLink, Deliver, Sending
  <2>2. me.pc \in {"verify_user", "verify_commit"} => links[me.link].addr # None
    BY <1>2 DEF HandlesLink, Following
  <2>3. QED
    BY <1>3, <2>1, <2>2 DEF HoldsLink, LinkKept
<1>6. me.user = u /\ me.pc = "change_flushed" => Changing(me, u)
  BY DEF Changing
<1>7. QED
  BY <1>1, <1>2, <1>4, <1>5, <1>6 DEF KnowsAddress

LEMMA StartAddress ==
  ASSUME TablesOK, Owned, LinksHandled, NEW u \in User, AddressOf(u),
         NEW r \in Request, Start(r) \/ Quiet(r)
  PROVE  AddressOf(u)'
<1> DEFINE me == req[r]
           x == req'[r]
<1>0. Start(r) \/ Step(r)
  BY DEF Quiet, Step
<1>1. users' = users /\ links' = links /\ proved' = proved
  BY StartUntouched, QuietMoves
<1>2. ProvedRow(u)' /\ Mailed(u)'
  BY <1>1 DEF AddressOf, ProvedRow, Mailed, LinksOf
<1>3. LinksOf(u, "verify_email")' = LinksOf(u, "verify_email")
  BY <1>1 DEF LinksOf
<1>4. KnowsAddress(r, u)'
  <2>1. CASE Start(r)
    <3>1. Begun(x)
      BY <2>1, StartBegins DEF Owned
    <3>2. QED
      BY <1>1, <1>3, <3>1 DEF Begun, KnowsAddress, Changing
  <2>2. CASE Quiet(r)
    <3>1. Moves(me, x) /\ KnowsAddress(r, u) /\ HandlesLink(r) /\ RequestOwned(r)
      BY <2>2, QuietMoves DEF AddressOf, LinksHandled, Owned
    <3>2. CASE x = Idle \/ x.pc \in {"register_commit", "forgot_flushed"}
      BY <3>2 DEF KnowsAddress, Changing, Idle
    <3>3. CASE /\ me.pc = "resend" /\ x.pc = "resend_flushed"
               /\ x.user = me.user /\ x.from = me.from
      BY <1>1, <3>1, <3>3 DEF KnowsAddress, Changing
    <3>4. CASE /\ me.pc = "change" /\ x.pc = "change_flushed"
               /\ x.user = me.user /\ x.from = me.from /\ x.verified = me.verified
               /\ x.captured = LinksOf(me.user, "verify_email")
      BY <1>1, <1>3, <3>1, <3>4 DEF KnowsAddress, Changing
    <3>5. CASE /\ me.pc = "verify_link" /\ x.pc = "verify_user" /\ x.link = me.link
               /\ Accepted(me.link, "verify_email")
      <4>1. me.link \in Link /\ links[me.link].addr # None
        BY <3>1, <3>5 DEF HandlesLink, Following, RequestOwned, HoldsLink
      <4>2. links[me.link].user = u => me.link \in LinksOf(u, "verify_email")
        BY <3>5, <4>1 DEF Accepted, LinksOf, Live
      <4>3. links[me.link].user = u => links[me.link].addr = users[u].email
        BY <4>1, <4>2 DEF AddressOf, Mailed
      <4>4. QED
        BY <1>1, <3>5, <4>3 DEF KnowsAddress, Changing
    <3>6. CASE /\ me.pc = "verify_user" /\ x.pc = "verify_commit" /\ x.link = me.link
      BY <1>1, <3>1, <3>6 DEF KnowsAddress, Changing
    <3>7. CASE x.pc = "reset_flushed"
      BY <3>7 DEF KnowsAddress, Changing
    <3>8. QED
      BY <3>1, <3>2, <3>3, <3>4, <3>5, <3>6, <3>7 DEF Moves
  <2>3. QED
    BY <2>1, <2>2
<1>5. QED
  BY <1>0, <1>1, <1>2, <1>3, <1>4, AddressFrame

(* The links of u after a commit that issues one, which nobody has mailed. *)
LEMMA IssuedLinksOf ==
  ASSUME TablesOK, NEW r \in Request, Issued(r), NEW u \in User,
         NEW t \in LinksOf(u, "verify_email")'
  PROVE  \/ t = NewLink /\ u = req[r].user /\ links'[t].addr = None
         \/ /\ t \in LinksOf(u, "verify_email") /\ t \notin req[r].captured
            /\ t # NewLink /\ links'[t].addr = links[t].addr
<1>1. PICK type \in LinkType : FreeLinks # {} /\ IssueLink(r, type)
  BY IssuerMoves
<1>2. t \in Link /\ links'[t].state \in Live /\ links'[t].user = u
      /\ links'[t].type = "verify_email"
  BY DEF LinksOf
<1>3. CASE t = NewLink
  BY <1>2, <1>3, IssuedNew
<1>4. CASE t # NewLink
  BY <1>1, <1>2, <1>4, IssuedRow DEF LinksOf, Live
<1>5. QED
  BY <1>3, <1>4

LEMMA IssuedMailed ==
  ASSUME TablesOK, NEW r \in Request, Issued(r), NEW u \in User, Mailed(u),
         users'[u].email = users[u].email
  PROVE  Mailed(u)'
<1> SUFFICES ASSUME NEW t \in LinksOf(u, "verify_email")', links'[t].addr # None
             PROVE  links'[t].addr = users'[u].email
  BY DEF Mailed
<1>1. QED
  BY IssuedLinksOf DEF Mailed

LEMMA RegisterAddress ==
  ASSUME TablesOK, Owned, LinksHandled, NEW u \in User, AddressOf(u),
         NEW r \in Request, RegisterCommit(r), Issued(r)
  PROVE  AddressOf(u)'
<1> DEFINE me == req[r]
<1>0. /\ me \in RequestRow /\ me.user \in User /\ ~Exists(me.user)
      /\ \A q \in Request \ {r} : req[q].user # me.user
  BY DEF Owned, RequestOwned, RegisterCommit, Registering, TablesOK
<1>1. /\ users' = [users EXCEPT ![me.user] = NewRow(me)] /\ proved' = proved
      /\ req'[r].pc = "deliver_current"
  <2>1. users' = [users EXCEPT ![me.user] = NewRow(me)]
    BY DEF RegisterCommit, Issued
  <2>2. req'[r].pc \in Sending /\ req'[r].pc # "deliver_loaded" /\ proved' = proved
    BY IssuerMoves DEF RegisterCommit, ResendCommit, ForgotCommit
  <2>3. QED
    BY <2>1, <2>2 DEF Sending
<1>2. Step(r)
  BY DEF Step
<1>3. KnowsAddress(r, u)'
  BY <1>1 DEF KnowsAddress, Changing
<1>4. CASE u = me.user
  <2>1. users'[u].verified = FALSE
    BY <1>0, <1>1, <1>4 DEF NewRow, TablesOK
  <2>2. \A t \in Link : links[t].state # "none" => links[t].user # u
    BY <1>0, <1>4 DEF Owned, RowsOwned, LinksOwned
  <2>3. \A t \in LinksOf(u, "verify_email")' : t = NewLink /\ links'[t].addr = None
    <3>1. LinksOf(u, "verify_email") = {}
      BY <2>2 DEF LinksOf, Live
    <3>2. QED
      BY <3>1, IssuedLinksOf
  <2>4. ProvedRow(u)' /\ Mailed(u)'
    BY <2>1, <2>3 DEF ProvedRow, Mailed
  <2>5. ASSUME NEW q \in Request \ {r}
        PROVE  KnowsAddress(q, u)'
    <3>1. req'[q] = req[q] /\ req[q].user # u /\ RequestOwned(q)
      BY <1>0, <1>2, <1>4, PicksAll DEF Owned
    <3>2. req[q].pc \in HoldsLink =>
            /\ req[q].link \in Link /\ links[req[q].link].state # "none"
            /\ links'[req[q].link].user # u /\ req[q].link # NewLink
      <4> SUFFICES ASSUME req[q].pc \in HoldsLink
                   PROVE  /\ req[q].link \in Link /\ links[req[q].link].state # "none"
                          /\ links'[req[q].link].user # u /\ req[q].link # NewLink
        OBVIOUS
      <4>1. req[q].link \in Link /\ links[req[q].link].state # "none"
        BY <3>1 DEF RequestOwned
      <4>2. LinkKept(req[q].link)
        BY <1>2, <4>1, RowStays
      <4>3. QED
        BY <2>2, <4>1, <4>2, IssuedNew DEF LinkKept
    <3>3. req[q].pc = "deliver_loaded" => req[q].link \notin LinksOf(u, "verify_email")'
      BY <2>3, <3>2 DEF HoldsLink
    <3>4. QED
      BY <3>1, <3>2, <3>3 DEF KnowsAddress, Changing, HoldsLink
  <2>6. QED
    BY <1>3, <2>4, <2>5 DEF AddressOf
<1>5. CASE u # me.user
  <2>1. users'[u] = users[u]
    BY <1>1, <1>5 DEF TablesOK
  <2>2. ProvedRow(u)' /\ Mailed(u)'
    BY <1>1, <2>1, IssuedMailed DEF AddressOf, ProvedRow
  <2>3. LinksOf(u, "verify_email")' \subseteq LinksOf(u, "verify_email")
    BY <1>5, IssuedLinksOf
  <2>4. QED
    BY <1>2, <1>3, <2>1, <2>2, <2>3, AddressFrame
<1>6. QED
  BY <1>4, <1>5

LEMMA ResendAddress ==
  ASSUME TablesOK, Owned, LinksHandled, NEW u \in User, ~Overtaken(u), AddressOf(u),
         NEW r \in Request, ResendCommit(r) \/ ForgotCommit(r)
  PROVE  AddressOf(u)'
<1> DEFINE me == req[r]
           x == req'[r]
<1>0. Issued(r) /\ Step(r)
  BY DEF Issued, Issues, Step, RegisterCommit, ResendCommit, ForgotCommit
<1>1. /\ users' = users /\ proved' = proved
      /\ x.pc \in Sending /\ x.link = NewLink /\ x.user = me.user /\ x.from = me.from
  BY <1>0, IssuerMoves DEF ResendCommit, ForgotCommit
<1>2. ProvedRow(u)' /\ Mailed(u)'
  BY <1>0, <1>1, IssuedMailed DEF AddressOf, ProvedRow
<1>3. KnowsAddress(r, u)'
  <2>1. x.link \in LinksOf(u, "verify_email")' => x.from = users[u].email
    <3> SUFFICES ASSUME NewLink \in LinksOf(u, "verify_email")'
                 PROVE  me.from = users[u].email
      BY <1>1
    <3>1. u = me.user /\ links'[NewLink].type = "verify_email"
      BY <1>0, IssuedLinksOf DEF LinksOf
    <3>2. ~ForgotCommit(r)
      <4>1. SUFFICES ASSUME ForgotCommit(r)
                     PROVE  FALSE
        OBVIOUS
      <4>2. FreeLinks # {} /\ IssueLink(r, "reset_password")
        BY <4>1 DEF ForgotCommit
      <4>3. NewLink \in Link
        BY <4>2, NewIds
      <4>4. links'[NewLink] = [user |-> me.user, type |-> "reset_password",
                               state |-> "unused", addr |-> None, by |-> r]
        BY <4>2, <4>3, IssuedRow
      <4>5. QED
        BY <3>1, <4>4
    <3>3. me.pc = "resend_flushed"
      BY <3>2 DEF ResendCommit
    <3>4. QED
      BY <3>1, <3>3 DEF AddressOf, KnowsAddress
  <2>2. QED
    BY <1>1, <2>1 DEF KnowsAddress, Changing, Sending
<1>4. ASSUME NEW q \in Request \ {r}, Changing(req[q], u)
      PROVE  LinksOf(u, "verify_email")' \subseteq LinksOf(u, "verify_email")
  <2> SUFFICES ASSUME NEW t \in LinksOf(u, "verify_email")'
               PROVE  t \in LinksOf(u, "verify_email")
    OBVIOUS
  <2>1. CASE ForgotCommit(r)
    <3>1. FreeLinks # {} /\ IssueLink(r, "reset_password")
      BY <2>1 DEF ForgotCommit
    <3>2. t # NewLink
      <4>1. SUFFICES ASSUME t = NewLink
                     PROVE  FALSE
        OBVIOUS
      <4>2. NewLink \in Link
        BY <3>1, NewIds
      <4>3. links'[NewLink] = [user |-> me.user, type |-> "reset_password",
                               state |-> "unused", addr |-> None, by |-> r]
        BY <3>1, <4>2, IssuedRow
      <4>4. links'[NewLink].type = "reset_password"
        BY <4>3
      <4>5. QED
        BY <4>1, <4>4 DEF LinksOf
    <3>3. QED
      BY <1>0, <3>2, IssuedLinksOf
  <2>2. CASE ResendCommit(r)
    <3>1. me.user # u
      BY <1>4, <2>2 DEF Overtaken, Addressing, ResendCommit
    <3>2. QED
      BY <1>0, <3>1, IssuedLinksOf
  <2>3. QED
    BY <2>1, <2>2
<1>5. QED
  BY <1>0, <1>1, <1>2, <1>3, <1>4, AddressFrame

LEMMA ChangeAddress ==
  ASSUME TablesOK, Owned, LinksHandled, NEW u \in User, ~Overtaken(u), AddressOf(u),
         NEW r \in Request, ChangeCommit(r)
  PROVE  AddressOf(u)'
<1> DEFINE me == req[r]
           row == ChangedRow(users[me.user], me)
<1>0. Issued(r) /\ Step(r) /\ me.user \in User /\ me.pc = "change_flushed"
  BY DEF Issued, Issues, Step, RegisterCommit, ChangeCommit, Owned, RequestOwned
<1>1. /\ users' = [users EXCEPT ![me.user] = row] /\ proved' = proved
      /\ req'[r].pc = "deliver_current"
  <2>1. users' = [users EXCEPT ![me.user] = row]
    BY DEF ChangeCommit
  <2>2. req'[r].pc \in Sending /\ req'[r].pc # "deliver_loaded" /\ proved' = proved
    BY <1>0, IssuerMoves DEF ChangeCommit, ResendCommit, ForgotCommit
  <2>3. QED
    BY <2>1, <2>2 DEF Sending
<1>2. KnowsAddress(r, u)'
  BY <1>1 DEF KnowsAddress, Changing
<1>3. CASE u = me.user
  <2>1. users[u] \in UserRow
    BY DEF TablesOK
  <2>2. me.verified = users[u].verified /\ LinksOf(u, "verify_email") \subseteq me.captured
    BY <1>0, <1>3 DEF AddressOf, KnowsAddress, Changing
  <2>3. row.verified = FALSE
    BY <1>3, <2>1, <2>2 DEF ChangedRow, UserRow
  <2> HIDE DEF row
  <2>4. users'[u].verified = FALSE
    BY <1>0, <1>1, <1>3, <2>3 DEF TablesOK
  <2>5. \A t \in LinksOf(u, "verify_email")' : t = NewLink /\ links'[t].addr = None
    BY <1>0, <2>2, IssuedLinksOf
  <2>6. ProvedRow(u)' /\ Mailed(u)'
    BY <2>4, <2>5 DEF ProvedRow, Mailed
  <2>7. ASSUME NEW q \in Request \ {r}
        PROVE  KnowsAddress(q, u)'
    <3>1. req'[q] = req[q] /\ RequestOwned(q)
      BY <1>0, PicksAll DEF Owned
    <3>2. ~Addressing(req[q], u)
      BY <1>0, <1>3 DEF Overtaken, Changing
    <3>3. req[q].pc \in HoldsLink =>
            /\ req[q].link \in Link /\ req[q].link # NewLink
            /\ links'[req[q].link].user = links[req[q].link].user
      <4> SUFFICES ASSUME req[q].pc \in HoldsLink
                   PROVE  /\ req[q].link \in Link /\ req[q].link # NewLink
                          /\ links'[req[q].link].user = links[req[q].link].user
        OBVIOUS
      <4>1. req[q].link \in Link /\ links[req[q].link].state # "none"
        BY <3>1 DEF RequestOwned
      <4>2. LinkKept(req[q].link)
        BY <1>0, <4>1, RowStays
      <4>3. QED
        BY <1>0, <4>1, <4>2, IssuedNew DEF LinkKept
    <3>4. req[q].pc = "deliver_loaded" => req[q].link \notin LinksOf(u, "verify_email")'
      BY <2>5, <3>3 DEF HoldsLink
    <3>5. QED
      BY <3>1, <3>2, <3>3, <3>4 DEF KnowsAddress, Changing, Addressing, HoldsLink
  <2>8. QED
    BY <1>2, <2>6, <2>7 DEF AddressOf
<1>4. CASE u # me.user
  <2>1. users'[u] = users[u]
    BY <1>1, <1>4 DEF TablesOK
  <2>2. ProvedRow(u)' /\ Mailed(u)'
    BY <1>0, <1>1, <2>1, IssuedMailed DEF AddressOf, ProvedRow
  <2>3. LinksOf(u, "verify_email")' \subseteq LinksOf(u, "verify_email")
    BY <1>0, <1>4, IssuedLinksOf
  <2>4. QED
    BY <1>0, <1>2, <2>1, <2>2, <2>3, AddressFrame
<1>5. QED
  BY <1>3, <1>4

LEMMA DeliverAddress ==
  ASSUME TablesOK, Owned, LinksHandled, NEW u \in User, AddressOf(u),
         NEW r \in Request, Deliver(r)
  PROVE  AddressOf(u)'
<1> DEFINE me == req[r]
           a == IF me.pc = "deliver_loaded" THEN me.from ELSE users[me.user].email
<1>0. Step(r) /\ Commits(r) /\ KnowsAddress(r, u) /\ HandlesLink(r)
  BY DEF Step, Commits, AddressOf, LinksHandled
<1>1. /\ users' = users /\ proved' = proved /\ req'[r] = Idle
      /\ me.pc \in Sending
  BY <1>0, CommitsDone DEF Deliver, Sending
<1>2. ASSUME NEW t \in Link
      PROVE  /\ links'[t].user = links[t].user /\ links'[t].type = links[t].type
             /\ links'[t].state = links[t].state
             /\ links'[t].addr = IF t = me.link THEN a ELSE links[t].addr
  <2>1. links[t] \in LinkRow
    BY DEF TablesOK
  <2>2. links'[t] = IF t = me.link THEN [links[t] EXCEPT !.addr = a] ELSE links[t]
    BY DEF Deliver, TablesOK
  <2> HIDE DEF a
  <2>3. QED
    BY <2>1, <2>2 DEF LinkRow
<1>3. me.link \in LinksOf(u, "verify_email") => a = users[u].email
  <2> SUFFICES ASSUME me.link \in LinksOf(u, "verify_email")
               PROVE  a = users[u].email
    OBVIOUS
  <2>1. me.user = u
    BY <1>0, <1>1 DEF HandlesLink, LinksOf
  <2>2. QED
    BY <1>0, <1>1, <2>1 DEF KnowsAddress, Sending
<1> HIDE DEF a
<1>4. LinksOf(u, "verify_email")' = LinksOf(u, "verify_email")
  BY <1>2 DEF LinksOf
<1>5. Mailed(u)'
  <2> SUFFICES ASSUME NEW t \in LinksOf(u, "verify_email"), links'[t].addr # None
               PROVE  links'[t].addr = users[u].email
    BY <1>1, <1>4 DEF Mailed
  <2>1. t \in Link
    BY DEF LinksOf
  <2>2. QED
    BY <1>2, <1>3, <2>1 DEF AddressOf, Mailed
<1>6. ProvedRow(u)'
  BY <1>1 DEF AddressOf, ProvedRow
<1>7. KnowsAddress(r, u)'
  BY <1>1 DEF KnowsAddress, Changing, Idle
<1>8. QED
  BY <1>0, <1>1, <1>4, <1>5, <1>6, <1>7, AddressFrame

LEMMA VerifyAddress ==
  ASSUME TablesOK, Owned, LinksHandled, NEW u \in User, ~Overtaken(u), AddressOf(u),
         NEW r \in Request, VerifyCommit(r)
  PROVE  AddressOf(u)'
<1> DEFINE me == req[r]
           w == IF me.verified THEN users[me.user].verified ELSE TRUE
<1>0. /\ Step(r) /\ Commits(r) /\ KnowsAddress(r, u) /\ HandlesLink(r)
      /\ me.pc = "verify_commit" /\ me.user \in User /\ me.link \in Link
  BY DEF Step, Commits, AddressOf, LinksHandled, VerifyCommit, Owned, RequestOwned, HoldsLink
<1>1. /\ users' = [users EXCEPT ![me.user] = [@ EXCEPT !.verified = w]]
      /\ proved' = [proved EXCEPT ![me.user] = @ \cup {links[me.link].addr}]
      /\ Spend(me.link) /\ req'[r] = Idle
  BY <1>0, CommitsDone DEF VerifyCommit, TablesOK
<1> HIDE DEF w
<1>2. /\ users'[u].email = users[u].email
      /\ u # me.user => users'[u] = users[u] /\ proved'[u] = proved[u]
      /\ u = me.user => proved'[u] = proved[u] \cup {links[me.link].addr}
  <2>1. users[u] \in UserRow
    BY DEF TablesOK
  <2>2. users'[u] = IF u = me.user THEN [users[u] EXCEPT !.verified = w] ELSE users[u]
    BY <1>1 DEF TablesOK
  <2>3. users'[u].email = users[u].email
    BY <2>1, <2>2 DEF UserRow
  <2>4. /\ u # me.user => proved'[u] = proved[u]
        /\ u = me.user => proved'[u] = proved[u] \cup {links[me.link].addr}
    BY <1>0, <1>1 DEF TablesOK
  <2>5. QED
    BY <2>2, <2>3, <2>4
<1>3. links[me.link].user = me.user
  BY <1>0 DEF HandlesLink
<1>4. ProvedRow(u)'
  <2>1. CASE u = me.user
    <3>1. links[me.link].addr = users[u].email
      BY <1>0, <1>3, <2>1 DEF KnowsAddress
    <3>2. QED
      BY <1>2, <2>1, <3>1 DEF ProvedRow
  <2>2. CASE u # me.user
    BY <1>2, <2>2 DEF AddressOf, ProvedRow
  <2>3. QED
    BY <2>1, <2>2
<1>5. ASSUME NEW t \in LinksOf(u, "verify_email")'
      PROVE  t \in LinksOf(u, "verify_email") /\ links'[t].addr = links[t].addr
  <2>1. t \in Link /\ links[t] \in LinkRow
    BY DEF LinksOf, TablesOK
  <2>2. links'[t] = IF t = me.link THEN [links[t] EXCEPT !.state = "used"] ELSE links[t]
    BY <1>1, <2>1 DEF Spend, TablesOK
  <2>3. t # me.link
    BY <2>1, <2>2 DEF LinksOf, Live, LinkRow
  <2>4. QED
    BY <2>1, <2>2, <2>3 DEF LinksOf
<1>6. Mailed(u)'
  BY <1>2, <1>5 DEF AddressOf, Mailed
<1>7. KnowsAddress(r, u)'
  BY <1>1 DEF KnowsAddress, Changing, Idle
<1>8. ASSUME NEW q \in Request \ {r}, Changing(req[q], u)
      PROVE  /\ users'[u].verified = users[u].verified
             /\ LinksOf(u, "verify_email")' \subseteq LinksOf(u, "verify_email")
  <2>1. me.user # u
    BY <1>0, <1>3, <1>8 DEF Overtaken, Addressing
  <2>2. QED
    BY <1>2, <1>5, <2>1
<1>9. QED
  BY <1>0, <1>2, <1>4, <1>6, <1>7, <1>8, AddressFrame

(* The steps that write neither an address nor a link to verify one.       *)
LEMMA PlainAddress ==
  ASSUME TablesOK, Owned, LinksHandled, NEW u \in User, AddressOf(u), NEW r \in Request,
         \/ LoginCommit(r) \/ LogoutCommit(r) \/ ProfileCommit(r) \/ ResetCommit(r)
         \/ Refused(r)
  PROVE  AddressOf(u)'
<1> DEFINE me == req[r]
<1>0. Step(r) /\ req'[r] = Idle /\ proved' = proved
  <2>1. Step(r)
    BY DEF Step, Refused
  <2>2. req'[r] = Idle
    BY CommitsDone DEF Commits
  <2>3. proved' = proved
    BY DEF LoginCommit, LogoutCommit, ProfileCommit, ResetCommit, Refused, RegisterCommit
  <2>4. QED
    BY <2>1, <2>2, <2>3
<1>1. users'[u].email = users[u].email /\ users'[u].verified = users[u].verified
  <2>1. users[u] \in UserRow
    BY DEF TablesOK
  <2>2. CASE LoginCommit(r) \/ LogoutCommit(r) \/ Refused(r)
    BY <2>2 DEF LoginCommit, LogoutCommit, Refused, RegisterCommit
  <2>3. CASE ProfileCommit(r)
    <3>1. users'[u] \in {users[u], [users[u] EXCEPT !.nick = me.nick]}
      BY <2>3 DEF ProfileCommit, TablesOK
    <3>2. QED
      BY <2>1, <3>1 DEF UserRow
  <2>4. CASE ResetCommit(r)
    <3>1. users'[u] \in {users[u], [users[u] EXCEPT !.pwd = me.pwd]}
      BY <2>4 DEF ResetCommit, TablesOK
    <3>2. QED
      BY <2>1, <3>1 DEF UserRow
  <2>5. QED
    BY <2>2, <2>3, <2>4
<1>2. ASSUME NEW t \in LinksOf(u, "verify_email")'
      PROVE  t \in LinksOf(u, "verify_email") /\ links'[t].addr = links[t].addr
  <2>1. t \in Link /\ links[t] \in LinkRow
    BY DEF LinksOf, TablesOK
  <2>2. CASE ResetCommit(r)
    <3>1. links'[t] = IF t = me.link THEN [links[t] EXCEPT !.state = "used"] ELSE links[t]
      BY <2>1, <2>2 DEF ResetCommit, Spend, TablesOK
    <3>2. t # me.link
      BY <2>1, <3>1 DEF LinksOf, Live, LinkRow
    <3>3. QED
      BY <2>1, <3>1, <3>2 DEF LinksOf
  <2>3. CASE ~ResetCommit(r)
    <3>1. links' = links
      BY <2>3 DEF LoginCommit, LogoutCommit, ProfileCommit, Refused, RegisterCommit
    <3>2. QED
      BY <3>1 DEF LinksOf
  <2>4. QED
    BY <2>2, <2>3
<1>3. ProvedRow(u)' /\ Mailed(u)'
  BY <1>0, <1>1, <1>2 DEF AddressOf, ProvedRow, Mailed
<1>4. KnowsAddress(r, u)'
  BY <1>0 DEF KnowsAddress, Changing, Idle
<1>5. QED
  BY <1>0, <1>1, <1>2, <1>3, <1>4, AddressFrame

LEMMA StepAddress ==
  ASSUME TablesOK, Owned, LinksHandled, NEW u \in User, ~Overtaken(u), AddressOf(u),
         NEW r \in Request, Start(r) \/ Step(r)
  PROVE  AddressOf(u)'
<1>1. CASE Start(r) \/ Quiet(r)
  BY <1>1, StartAddress
<1>2. CASE Issued(r)
  <2>1. RegisterCommit(r) \/ ResendCommit(r) \/ ForgotCommit(r) \/ ChangeCommit(r)
    BY <1>2 DEF Issued, Issues
  <2>2. QED
    BY <1>2, <2>1, RegisterAddress, ResendAddress, ChangeAddress
<1>3. CASE Commits(r) \/ Refused(r)
  BY <1>3, DeliverAddress, VerifyAddress, PlainAddress DEF Commits
<1>4. QED
  BY <1>1, <1>2, <1>3, StepKinds

LEMMA ExpiryAddress ==
  ASSUME TablesOK, Owned, NEW u \in User, AddressOf(u),
         \/ \E l \in Link : ExpireLink(l)
         \/ \E s \in SessionId : ExpireSession(s)
  PROVE  AddressOf(u)'
<1>1. users' = users /\ req' = req /\ proved' = proved
  BY DEF ExpireLink, ExpireSession
<1>2. LinksOf(u, "verify_email")' = LinksOf(u, "verify_email")
  BY ExpiryStays DEF LinksOf
<1>3. \A t \in Link : links'[t].addr = links[t].addr /\ links'[t].user = links[t].user
  BY ExpiryStays
<1>4. ProvedRow(u)' /\ Mailed(u)'
  BY <1>1, <1>2, <1>3 DEF AddressOf, ProvedRow, Mailed, LinksOf
<1>5. ASSUME NEW q \in Request
      PROVE  KnowsAddress(q, u)'
  <2>1. KnowsAddress(q, u) /\ RequestOwned(q)
    BY DEF AddressOf, Owned
  <2>2. req[q].pc \in {"verify_user", "verify_commit"} => req[q].link \in Link
    BY <2>1 DEF RequestOwned, HoldsLink
  <2>3. QED
    BY <1>1, <1>2, <1>3, <2>1, <2>2 DEF KnowsAddress, Changing
<1>6. QED
  BY <1>4, <1>5 DEF AddressOf

LEMMA NextAddress ==
  ASSUME TablesOK, Owned, LinksHandled, AddressInv, [Next]_vars
  PROVE  AddressInv'
<1>1. CASE UNCHANGED vars
  <2>1. /\ users' = users /\ links' = links /\ req' = req /\ proved' = proved
        /\ overtaken' = overtaken
    BY <1>1 DEF vars
  <2>2. ASSUME NEW u \in User
        PROVE  /\ Overtaken(u)' <=> Overtaken(u)
               /\ AddressOf(u)' <=> AddressOf(u)
    <3>1. LinksOf(u, "verify_email")' = LinksOf(u, "verify_email")
      BY <2>1 DEF LinksOf
    <3>2. Overtaken(u)' <=> Overtaken(u)
      BY <2>1 DEF Overtaken, Changing, Addressing
    <3>3. ProvedRow(u)' <=> ProvedRow(u)
      BY <2>1 DEF ProvedRow
    <3>4. Mailed(u)' <=> Mailed(u)
      BY <2>1, <3>1 DEF Mailed
    <3>5. ASSUME NEW q \in Request
          PROVE  KnowsAddress(q, u)' <=> KnowsAddress(q, u)
      BY <2>1, <3>1 DEF KnowsAddress, Changing
    <3>6. QED
      BY <3>2, <3>3, <3>4, <3>5 DEF AddressOf
  <2>3. QED
    BY <2>1, <2>2 DEF AddressInv
<1>2. CASE Act /\ Racing
  <2>1. overtaken' = overtaken \cup {u \in User : Overtaken(u)'}
    BY <1>2 DEF Racing
  <2>2. ASSUME NEW u \in User, u \notin overtaken'
        PROVE  AddressOf(u)'
    <3>1. ~Overtaken(u) /\ AddressOf(u)
      BY <2>1, <2>2 DEF AddressInv
    <3>2. QED
      BY <1>2, <3>1, StepAddress, ExpiryAddress DEF Act
  <2>3. QED
    BY <2>1, <2>2 DEF AddressInv
<1>3. QED
  BY <1>1, <1>2 DEF Next

-----------------------------------------------------------------------------
LEMMA NobodyAtFirst ==
  ASSUME Init
  PROVE  LinksHandled /\ AddressInv /\ SpentInv /\ PasswordInv
<1>1. \A r \in Request : req[r] = Idle
  BY DEF Init
<1>2. \A u \in User : ~Overtaken(u) /\ ~Outrun(u)
  BY <1>1 DEF Overtaken, Outrun, Changing, Resetting, Idle
<1>0. \A t \in Link : ~Shared(t)
  BY <1>1 DEF Shared, Holding, Idle
<1>3. LinksHandled
  BY <1>1 DEF LinksHandled, HandlesLink, Sending, Following, Idle
<1>4. ASSUME NEW u \in User
      PROVE  AddressOf(u)
  <2>1. ProvedRow(u)
    BY DEF Init, ProvedRow, NoRow
  <2>2. LinksOf(u, "verify_email") = {}
    BY DEF Init, LinksOf, NoLink, Live
  <2>3. \A r \in Request : KnowsAddress(r, u)
    BY <1>1 DEF KnowsAddress, Changing, Idle
  <2>4. QED
    BY <2>1, <2>2, <2>3 DEF AddressOf, Mailed
<1>5. ASSUME NEW t \in Link
      PROVE  SpentOnce(t)
  BY <1>1 DEF Init, SpentOnce, Holding, Idle
<1>6. ASSUME NEW u \in User
      PROVE  PasswordOf(u)
  <2>1. Opened(u) = {}
    BY DEF Init, Opened, Alive, NoSession
  <2>2. QED
    BY <1>1, <2>1 DEF PasswordOf, LoggingIn, Idle
<1>7. AddressInv
  BY <1>2, <1>4 DEF AddressInv
<1>8. SpentInv
  BY <1>0, <1>5 DEF SpentInv
<1>9. PasswordInv
  BY <1>2, <1>6 DEF PasswordInv
<1>10. QED
  BY <1>3, <1>7, <1>8, <1>9

(* Whatever overlaps, an account is verified only for an address whose     *)
(* link was followed, unless that address was changed in a race with       *)
(* another change, a resend or an accepted link; and no link is spent      *)
(* twice, unless two requests had accepted it.  change_email takes the     *)
(* verification back in the commit that uses up every link of the old      *)
(* address, and until then every link in hand, every mail still to go out  *)
(* and every accepted link carries the address the account has.            *)
THEOREM AddressesProved == Spec => []LinksProve
<1>1. Init => LinksHandled /\ AddressInv /\ SpentInv
  BY NobodyAtFirst
<1>2. /\ TablesOK /\ Owned /\ (LinksHandled /\ AddressInv /\ SpentInv) /\ [Next]_vars
        => (LinksHandled /\ AddressInv /\ SpentInv)'
  BY NextHandled, NextAddress, NextSpent
<1>3. AddressInv /\ SpentInv => LinksProve
  BY DEF AddressInv, AddressOf, ProvedRow, SpentInv, SpentOnce, LinksProve
<1>4. QED
  BY <1>1, <1>2, <1>3, AlwaysTyped, PTL DEF Spec

(* Whatever overlaps, a live session opened with a password was opened     *)
(* with the password its account has, unless a login that had read the old *)
(* one was in progress between the statement that revokes the sessions and *)
(* the commit of the reset.                                                *)
THEOREM PasswordsHold == Spec => []SessionsOfPassword
<1>1. Init => PasswordInv
  BY NobodyAtFirst
<1>2. TablesOK /\ Owned /\ PasswordInv /\ [Next]_vars => PasswordInv'
  BY NextPassword
<1>3. TablesOK /\ Owned /\ PasswordInv => SessionsOfPassword
  <2> SUFFICES ASSUME Owned, PasswordInv, NEW s \in SessionId, Alive(s),
                      sessions[s].pwd # None, sessions[s].user \notin outrun
               PROVE  sessions[s].pwd = users[sessions[s].user].pwd
    BY DEF SessionsOfPassword
  <2>1. sessions[s].user \in User
    BY DEF Owned, RowsOwned, SessionsOwned, Alive
  <2>2. QED
    BY <2>1 DEF PasswordInv, PasswordOf, Opened
<1>4. QED
  BY <1>1, <1>2, <1>3, AlwaysTyped, PTL DEF Spec
=============================================================================
