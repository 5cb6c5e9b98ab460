------------------------------- MODULE Reader -------------------------------
(***************************************************************************)
(* The page of an article (app/articles/[slug]/page.tsx): its heart, the   *)
(* thread under it with the form for a comment                             *)
(* (components/articles/article-comment-form.tsx), and what the staff find *)
(* there in the mode of the administration (article-staff-actions.tsx).    *)
(* The page is loaded when it opens and again after each comment and each  *)
(* act of the staff; the heart patches what was loaded.  Only the button   *)
(* of the form waits for its answer.                                       *)
(*                                                                         *)
(* What is typed, a comment or a note for the author, is known when it is  *)
(* sent.  The text of the article, and the likes of others, are left out.  *)
(***************************************************************************)
EXTENDS Naturals, Sequences

CONSTANTS
  Slot,      \* requests under way at a time
  Texts,     \* what can be typed as a comment
  Taps,      \* bound on what the reader asks for
  Others,    \* bound on what the others do
  None

VARIABLES
  role,      \* who reads
  enabled,   \* the mode of the administration
  server,    \* the article
  article,   \* what the page has of it: None while it loads, Absent, or a record
  reply,     \* the comment to be quoted, or 0
  sending,   \* the form waits
  calls,     \* requests under way
  ahead,     \* of each that the service has dealt with: those it dealt with earlier
  crossed,   \* history: an answer overtook another
  calm,      \* history: nor did others change the article, nor was a load or an answer lost
  taps, others

vars == <<role, enabled, server, article, reply, sending, calls, ahead,
          crossed, calm, taps, others>>
form == <<reply, sending>>

Absent == [status |-> "absent", liked |-> FALSE, comments |-> <<>>]
NoCall == [op |-> None, text |-> None, quote |-> 0, note |-> FALSE, phase |-> "idle",
           out |-> None, fresh |-> TRUE]
Call(op) == [NoCall EXCEPT !.op = op, !.phase = "sent"]

(* A guest has not signed in, or not proved the address.                   *)
Roles == {"guest", "member", "author", "moderator", "editor", "admin"}
Proved == role # "guest"
Staff == role \in {"moderator", "editor", "admin"}
Unpublished == {"draft", "pending_review", "needs_revision", "rejected"}
Moderatable == {"pending_review", "needs_revision"}
Decisions == {"publish", "request_changes", "reject"}

(* What can be there to read.                                              *)
Comment == [text : Texts, quote : Nat]
Shown == [status : Unpublished \cup {"published"}, liked : BOOLEAN, comments : Seq(Comment)]

ReaderAssumption ==
  /\ None \notin Slot \cup Texts \cup Shown /\ None # Absent
  /\ Slot # {} /\ Texts # {}
  /\ Taps \in Nat /\ Others \in Nat

Loaded == article \notin {None, Absent}
Free(x) == calls[x] = NoCall
Done == {x \in Slot : calls[x].phase = "done"}
-----------------------------------------------------------------------------
(***************************************************************************)
(* The service.                                                            *)
(***************************************************************************)
(* What the service tells this reader of the article.                      *)
View ==
  IF server.found /\ (server.status = "published" \/ Staff \/ role = "author")
  THEN [status |-> server.status, liked |-> server.liked, comments |-> server.comments]
  ELSE Absent

Outcome(decision) ==
  CASE decision = "publish" -> "published"
    [] decision = "request_changes" -> "needs_revision"
    [] decision = "reject" -> "rejected"

(* Whether a request finds the article in a state that allows it.          *)
Accepts(r) ==
  /\ server.found
  /\ CASE r.op \in {"like", "comment", "remove"} -> server.status = "published"
       [] r.op \in Decisions -> /\ server.status \in Moderatable
                                /\ r.op = "publish" \/ r.note
       [] r.op = "load" -> TRUE

Carried(r) ==
  CASE r.op = "like" -> [server EXCEPT !.liked = ~@]
    [] r.op = "comment" -> [server EXCEPT !.comments = Append(@, [text |-> r.text, quote |-> r.quote])]
    [] r.op = "remove" -> [server EXCEPT !.found = FALSE]
    [] r.op \in Decisions -> [server EXCEPT !.status = Outcome(r.op)]
    [] r.op = "load" -> server
-----------------------------------------------------------------------------
(***************************************************************************)
(* The page.                                                               *)
(***************************************************************************)
Tapped == taps < Taps /\ taps' = taps + 1

(* The mode makes no difference to others than the staff, nor does being   *)
(* the author of what is published.                                        *)
Init ==
  /\ role \in Roles /\ enabled \in BOOLEAN /\ (enabled => Staff)
  /\ server \in [found : {TRUE}, status : {"published", "pending_review"}, liked : BOOLEAN,
                 comments : {<<>>, <<[text |-> CHOOSE t \in Texts : TRUE, quote |-> 0]>>}]
  /\ (role = "author" => server.status # "published")
  /\ (server.liked => Proved) /\ (server.status # "published" => server.comments = <<>> /\ ~server.liked)
  /\ article = None
  /\ reply = 0 /\ sending = FALSE
  /\ calls = [x \in Slot |-> IF x = CHOOSE y \in Slot : TRUE THEN Call("load") ELSE NoCall]
  /\ ahead = [x \in Slot |-> {}] /\ crossed = FALSE /\ calm = TRUE
  /\ taps = 0 /\ others = 0

(* A visitor who is not proved is led to sign in, or to the address.       *)
Like(x) ==
  /\ Loaded /\ Proved /\ Free(x) /\ Tapped
  /\ calls' = [calls EXCEPT ![x] = Call("like")]
  /\ UNCHANGED <<role, enabled, server, article, form, ahead, crossed, calm, others>>

Reply(i) ==
  /\ Loaded /\ i \in DOMAIN article.comments /\ i # reply
  /\ reply' = i
  /\ UNCHANGED <<role, enabled, server, article, sending, calls, ahead, crossed, calm, taps, others>>

(* The quote is of the comment chosen, if it is among those shown.         *)
Quote == IF reply \in DOMAIN article.comments THEN reply ELSE 0

Submit(x, text) ==
  /\ Loaded /\ Proved /\ ~sending /\ Free(x) /\ Tapped
  /\ sending' = TRUE
  /\ calls' = [calls EXCEPT ![x] = [Call("comment") EXCEPT !.text = text, !.quote = Quote]]
  /\ UNCHANGED <<role, enabled, server, article, reply, ahead, crossed, calm, others>>

(* The browser keeps the mode, whoever uses it next: a moderator, who has  *)
(* no button for it, may find it on.                                       *)
Toggle ==
  /\ role \in {"editor", "admin"} /\ enabled' = ~enabled
  /\ UNCHANGED <<role, server, article, form, calls, ahead, crossed, calm, taps, others>>

(* Mutant of Offered: what was rejected can be decided on again.           *)
OfferedRejected ==
  IF ~(Loaded /\ enabled /\ Staff) THEN {}
  ELSE (IF article.status \in Moderatable \cup {"rejected"} THEN Decisions ELSE {})
         \cup (IF article.status = "published" /\ role = "admin" THEN {"remove"} ELSE {})

(* The buttons of the staff.                                               *)
Offered ==
  IF ~(Loaded /\ enabled /\ Staff) THEN {}
  ELSE (IF article.status \in Moderatable THEN Decisions ELSE {})
         \cup (IF article.status = "published" /\ role = "admin" THEN {"remove"} ELSE {})

Act(x, op, note) ==
  /\ Free(x) /\ op \in Offered /\ Tapped
  /\ note => op \in {"request_changes", "reject"}
  /\ calls' = [calls EXCEPT ![x] = [Call(op) EXCEPT !.note = note]]
  /\ UNCHANGED <<role, enabled, server, article, form, ahead, crossed, calm, others>>

(* One request is one transaction.                                         *)
Serve(x) ==
  LET r == calls[x] IN
  /\ r.phase = "sent" /\ (r.op # "load" => Accepts(r))
  /\ server' = Carried(r)
  /\ calls' = [calls EXCEPT ![x].phase = "done", ![x].out = IF r.op = "load" THEN View ELSE server'.liked]
  /\ ahead' = [ahead EXCEPT ![x] = Done]
  /\ UNCHANGED <<role, enabled, article, form, crossed, calm, taps, others>>

(* Mutant of Patched: the answer of the heart takes the place of it all.   *)
PatchedBare(liked) == [article EXCEPT !.liked = liked, !.comments = <<>>]

Patched(liked) == [article EXCEPT !.liked = liked]

(* What is under way once x is dealt with, and c has taken its place.  An  *)
(* answer that was ready before is not fresh any more.                     *)
After(x, c) ==
  [y \in Slot |-> IF y = x THEN c
                  ELSE IF y \in ahead[x] THEN [calls[y] EXCEPT !.fresh = FALSE] ELSE calls[y]]

Past(x) == ahead' = [y \in Slot |-> IF y = x THEN {} ELSE ahead[y] \ {x}]

(* An answer comes; a load that comes alone sets everything right.         *)
Land(x) ==
  /\ Past(x)
  /\ LET first == ahead[x] = {}
         alone == calls[x].op = "load" /\ \A y \in Slot \ {x} : Free(y) IN
     /\ crossed' = (~(alone /\ calls[x].fresh) /\ (crossed \/ ~first))
     /\ calm' = IF alone THEN calls[x].fresh ELSE calm /\ first

LandLoad(x) ==
  /\ calls[x].phase = "done" /\ calls[x].op = "load"
  /\ article' = calls[x].out
  /\ calls' = After(x, NoCall)
  /\ Land(x)
  /\ UNCHANGED <<role, enabled, server, form, taps, others>>

LandLike(x) ==
  /\ calls[x].phase = "done" /\ calls[x].op = "like"
  /\ article' = IF Loaded THEN Patched(calls[x].out) ELSE article
  /\ calls' = After(x, NoCall)
  /\ Land(x)
  /\ UNCHANGED <<role, enabled, server, form, taps, others>>

(* Mutant of Reloading: the thread is not looked at again.                 *)
ReloadingActs(op) == IF op = "comment" THEN NoCall ELSE Call("load")

Reloading(op) == Call("load")

(* A comment or an act that was carried out loads the page anew.  The form *)
(* is emptied whatever has been typed and chosen in it meanwhile.          *)
LandAct(x) ==
  LET op == calls[x].op IN
  /\ calls[x].phase = "done" /\ op \in {"comment", "remove"} \cup Decisions
  /\ IF op = "comment" THEN reply' = 0 /\ sending' = FALSE ELSE UNCHANGED form
  /\ calls' = After(x, Reloading(op))
  /\ Land(x)
  /\ UNCHANGED <<role, enabled, server, article, taps, others>>

(* The finally of the form.                                                *)
Freed(op) == sending /\ op # "comment"

(* Refused, or lost on the way there or back: all is left as it is, and a  *)
(* page that has not come yet does not come.                               *)
Fail(x) ==
  LET r == calls[x] IN
  /\ r.phase \in {"sent", "done"}
  /\ calls' = After(x, NoCall)
  /\ sending' = Freed(r.op)
  /\ Past(x)
  /\ calm' = (calm /\ r.op # "load" /\ r.phase = "sent")
  /\ UNCHANGED <<role, enabled, server, article, reply, crossed, taps, others>>

(* Others comment; the author renames, submits and takes off the queue;    *)
(* the staff decide, and take away.                                        *)
ByOthers ==
  {[server EXCEPT !.comments = Append(@, [text |-> t, quote |-> 0])] :
       t \in IF server.status = "published" THEN Texts ELSE {}}
  \cup {[server EXCEPT !.status = s] :
          s \in CASE server.status \in {"draft", "rejected"} -> {"pending_review", "published"}
                  [] server.status = "pending_review" -> {"draft", "published", "needs_revision", "rejected"}
                  [] server.status = "needs_revision" -> {"pending_review", "published", "rejected"}
                  [] server.status = "published" -> {}}
  \cup {[server EXCEPT !.found = FALSE]}

Elsewhere ==
  /\ server.found /\ others < Others /\ others' = others + 1
  /\ server' \in ByOthers
  /\ calls' = [x \in Slot |-> IF calls[x].phase = "done" THEN [calls[x] EXCEPT !.fresh = FALSE] ELSE calls[x]]
  /\ calm' = FALSE
  /\ UNCHANGED <<role, enabled, article, form, ahead, crossed, taps>>

Next ==
  \/ \E x \in Slot :
       \/ Like(x) \/ (\E text \in Texts : Submit(x, text))
       \/ \E op \in Decisions \cup {"remove"}, note \in BOOLEAN : Act(x, op, note)
       \/ Serve(x) \/ LandLoad(x) \/ LandLike(x) \/ LandAct(x) \/ Fail(x)
  \/ \E i \in 1 .. Taps + Others + 1 : Reply(i)
  \/ Toggle \/ Elsewhere

Spec == Init /\ [][Next]_vars
-----------------------------------------------------------------------------
TypeOK ==
  /\ role \in Roles /\ {enabled, sending, crossed, calm} \subseteq BOOLEAN
  /\ server.status \in Unpublished \cup {"published"}
  /\ article \in {None, Absent} \/ article \in Shown
  /\ reply \in 0 .. Taps + Others + 1
  /\ \A x \in Slot : ahead[x] \subseteq Done \ {x} /\ (x \notin Done => ahead[x] = {})
  /\ \A x, y \in Done : x = y \/ x \in ahead[y] \/ y \in ahead[x]
  /\ taps \in 0 .. Taps /\ others \in 0 .. Others

(* However taps, comments and acts and the loads that follow them are      *)
(* interleaved: when nothing is under way the page shows what the service  *)
(* would tell it, unless others changed that, a load or an answer was      *)
(* lost, or an answer overtook another.                                    *)
ShownIsServed == calm /\ (\A x \in Slot : Free(x)) => article = View

(* A page that is up to date offers the staff no decision and no removal   *)
(* that the service would refuse, but for a decision without the note it   *)
(* needs; and when it shows the article as published, nobody's heart or    *)
(* comment is refused.                                                     *)
OfferedIsAccepted ==
  Loaded /\ article = View =>
    /\ \A op \in Offered : Accepts([Call(op) EXCEPT !.note = TRUE])
    /\ article.status = "published" => Accepts(Call("like")) /\ Accepts(Call("comment"))

(* A comment that was chosen to be answered stays among those shown, so    *)
(* that what is sent then does quote it: no load and no heart takes it     *)
(* from the page, unless it overtook a later load, or the article is gone. *)
ReplyShown == reply # 0 /\ ~crossed => Quote = reply \/ article = Absent
=============================================================================
