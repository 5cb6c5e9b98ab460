------------------------------- MODULE Topic -------------------------------
(***************************************************************************)
(* A visitor's page of one topic of the forum                              *)
(* (app/community/[slug]/page.tsx, components/community/comment-thread.tsx) *)
(* against the service behind it (services/forum.py) and everybody else    *)
(* who writes there.  The page changes its own copy after most answers and *)
(* asks for the topic again after some; answers come in any order.         *)
(*                                                                         *)
(* What a visitor types, and which boxes and dialogs are open, is left     *)
(* out: a click below is the whole way from the button to the request.     *)
(***************************************************************************)
EXTENDS FiniteSets, Integers

CONSTANTS
  Comments,  \* comments are numbered as they are written
  Slot,      \* requests under way at a time
  Clicks,    \* bound on what the visitor does
  Others,    \* bound on what the others do
  None

Comment == 1 .. Comments
Role == {"guest", "member", "staff", "unverified member", "unverified staff"}

TopicAssumption ==
  /\ Comments \in Nat /\ Clicks \in Nat /\ Others \in Nat
  /\ None \notin Slot

VARIABLES
  role,      \* the visitor: a guest, a member or one of the staff; an address that was
             \* changed is unverified until a mailed link is followed
  server,    \* the topic and its comments in the database
  page,      \* what the visitor sees
  call,      \* requests under way
  calm,      \* history: since the topic was last asked for, nobody else has written and
             \* every click has had its answer before the next
  clicks, others   \* bounds

vars == <<role, server, page, call, calm, clicks, others>>

NoRow == [state |-> "none", mine |-> FALSE, parent |-> 0, edited |-> FALSE, liked |-> FALSE]
NoView == [deleted |-> FALSE, mine |-> FALSE, edited |-> FALSE, liked |-> FALSE,
           count |-> 0, items |-> [c \in {} |-> None]]
NoCall == [kind |-> None, at |-> 0, phase |-> "idle", answer |-> None]
Blank(at) == [at |-> at, view |-> NoView, extra |-> 0]

Staff == role \in {"staff", "unverified staff"}
Verified == role \in {"member", "staff"}
Alive(s, c) == c \in Comment /\ s.row[c].state = "alive"
Hidden(s, c) == c \in Comment /\ s.row[c].state = "hidden"

(***************************************************************************)
(* The service.  A request is [kind, at]: at is the comment it is about,   *)
(* or the one it answers, or 0.                                            *)
(***************************************************************************)
PostRequests == {"load", "editPost", "likePost", "hidePost", "restorePost", "destroyPost"}
CommentRequests == {"add", "edit", "like", "hide", "restore", "destroy"}

(* A comment gone from the list has the place of its parent.               *)
Ancestors(row) ==
  LET above[c \in 0 .. Comments] ==
        IF c = 0 THEN {} ELSE {row[c].parent} \cup above[row[c].parent]
  IN above

LivingBelow(row, c) == \E d \in Comment : row[d].state = "alive" /\ c \in Ancestors(row)[d]

Visible(s, staff) ==
  {c \in Comment : \/ s.row[c].state = "alive"
                   \/ s.row[c].state = "hidden" /\ (staff \/ LivingBelow(s.row, c))}

(* What the service says of a comment: of a hidden one, little.            *)
Item(r, staff) ==
  LET told == r.state = "alive" \/ staff IN
  [mine |-> r.mine, parent |-> r.parent, deleted |-> r.state = "hidden",
   text |-> IF ~told THEN "" ELSE IF r.edited THEN "new" ELSE "old",
   liked |-> told /\ r.liked]

View(s, staff) ==
  [deleted |-> s.post = "hidden", mine |-> s.mine, edited |-> s.edited, liked |-> s.liked,
   count |-> Cardinality({c \in Comment : Alive(s, c)}),
   items |-> [c \in Visible(s, staff) |-> Item(s.row[c], staff)]]

(* The router lets everybody read, and nobody do anything else whose       *)
(* address is not verified.                                                *)
LetIn(kind) == kind = "load" \/ Verified

(* Behind the router, the request is granted to staff, or to a member who  *)
(* is `mine' of what he wrote.                                             *)
Accepts(s, staff, mine, kind, c) ==
  \/ kind = "load" /\ (s.post = "alive" \/ (s.post = "hidden" /\ staff))
  \/ kind = "editPost" /\ s.post = "alive" /\ (s.mine = mine \/ staff)
  \/ kind = "likePost" /\ s.post = "alive"
  \/ kind = "hidePost" /\ s.post = "alive"
       /\ (staff \/ (s.mine = mine /\ \A d \in Comment : ~Alive(s, d)))
  \/ kind \in {"restorePost", "destroyPost"} /\ s.post = "hidden" /\ staff
  \/ kind = "add" /\ s.post = "alive" /\ (c = 0 \/ Alive(s, c))
  \/ kind = "edit" /\ s.post = "alive" /\ Alive(s, c) /\ s.row[c].mine = mine
  \/ kind = "like" /\ s.post = "alive" /\ Alive(s, c)
  \/ kind = "hide" /\ s.post = "alive" /\ Alive(s, c)
       /\ (staff \/ (s.row[c].mine = mine /\ \A d \in Comment : Alive(s, d) => s.row[d].parent # c))
  \/ kind \in {"restore", "destroy"} /\ s.post # "gone" /\ Hidden(s, c) /\ staff

Unwritten(s) == {c \in Comment : s.row[c].state = "none"}
NewComment(s) == CHOOSE c \in Unwritten(s) : \A d \in Unwritten(s) : c <= d

Effect(s, mine, kind, c) ==
  CASE kind = "load" -> s
    [] kind = "editPost" -> [s EXCEPT !.edited = TRUE]
    [] kind = "likePost" -> [s EXCEPT !.liked = IF mine THEN ~@ ELSE @]
    [] kind = "hidePost" -> [s EXCEPT !.post = "hidden"]
    [] kind = "restorePost" -> [s EXCEPT !.post = "alive"]
    [] kind = "destroyPost" -> [s EXCEPT !.post = "gone", !.row = [d \in Comment |-> NoRow]]
    [] kind = "add" -> [s EXCEPT !.row[NewComment(s)] =
                          [NoRow EXCEPT !.state = "alive", !.mine = mine, !.parent = c]]
    [] kind = "edit" -> [s EXCEPT !.row[c].edited = TRUE]
    [] kind = "like" -> [s EXCEPT !.row[c].liked = IF mine THEN ~@ ELSE @]
    [] kind = "hide" -> [s EXCEPT !.row[c].state = "hidden"]
    [] kind = "restore" -> [s EXCEPT !.row[c].state = "alive"]
    [] kind = "destroy" ->
         [s EXCEPT !.row = [d \in Comment |->
            IF d = c THEN [NoRow EXCEPT !.state = "gone"]
            ELSE IF @[d].parent = c THEN [@[d] EXCEPT !.parent = s.row[c].parent] ELSE @[d]]]

(* What the answer to a request carries of the topic as it is by then.     *)
Whole == {"load", "editPost", "restorePost", "restore"}

Told(s, staff, kind, c) ==
  LET v == View(s, staff) IN
  CASE kind \in Whole -> v
    [] kind = "likePost" -> [NoView EXCEPT !.liked = v.liked]
    [] kind \in {"add", "edit", "like"} -> [NoView EXCEPT !.items = [d \in {c} |-> v.items[d]]]
    [] OTHER -> NoView

(***************************************************************************)
(* The page.                                                               *)
(***************************************************************************)
Shown == page.at = "shown"
View0 == page.view
Items == DOMAIN page.view.items

(* Mutant of Roots: comments whose parent is not there are left out.       *)
RootsOnly(items) == {c \in DOMAIN items : items[c].parent = 0}

(* commentTree: a comment hangs below its parent when the parent is there, *)
(* and is a root when it is not.                                           *)
Roots(items) == {c \in DOMAIN items : items[c].parent \notin DOMAIN items}
Replies(items, c) == {d \in DOMAIN items : items[d].parent = c}

Drawn(items) ==
  LET level[n \in Nat] ==
        IF n = 0 THEN Roots(items)
        ELSE level[n - 1] \cup UNION {Replies(items, c) : c \in level[n - 1]}
  IN level[Cardinality(DOMAIN items)]

(* Mutant of MayHideTopic: the author may hide his topic at any time.      *)
MayHideTopicAny == ~View0.deleted /\ (Staff \/ View0.mine)

MayHideTopic == ~View0.deleted /\ (Staff \/ (View0.mine /\ View0.count = 0))

MayHideComment(c) ==
  LET item == View0.items[c] IN
  ~item.deleted /\ (Staff \/ (item.mine /\ Replies(View0.items, c) = {}))

(* Mutant of CanInteract: whoever has logged in may write and like.        *)
CanInteractAny == role # "guest"

CanInteract == Verified

(* What the page has a button for.  Only to write, to like and to edit the *)
(* topic does it ask for a verified address.                               *)
Offered(kind, c) ==
  /\ Shown /\ role # "guest"
  /\ \/ kind = "editPost" /\ CanInteract /\ ~View0.deleted /\ (View0.mine \/ Staff)
     \/ kind = "likePost" /\ CanInteract
     \/ kind = "hidePost" /\ MayHideTopic
     \/ kind \in {"restorePost", "destroyPost"} /\ View0.deleted /\ Staff
     \/ kind = "add" /\ CanInteract /\ c = 0 /\ ~View0.deleted
     \/ /\ c \in Items
        /\ \/ kind = "add" /\ CanInteract /\ ~View0.deleted
                /\ ~View0.items[c].mine /\ ~View0.items[c].deleted
           \/ kind = "edit" /\ View0.items[c].mine /\ ~View0.items[c].deleted
           \/ kind = "like" /\ CanInteract /\ ~View0.deleted /\ ~View0.items[c].deleted
           \/ kind = "hide" /\ MayHideComment(c)
           \/ kind \in {"restore", "destroy"} /\ View0.items[c].deleted /\ Staff

(* Mutant of Appended: the number of comments stays as it was.             *)
AppendedUncounted(p, c, item) ==
  [p EXCEPT !.view.items = [d \in DOMAIN @ \cup {c} |-> IF d = c THEN item ELSE @[d]],
            !.extra = IF c \in DOMAIN p.view.items THEN @ + 1 ELSE @]

(* appendComment: the list takes the comment though it may be there.       *)
Appended(p, c, item) ==
  [p EXCEPT !.view.items = [d \in DOMAIN @ \cup {c} |-> IF d = c THEN item ELSE @[d]],
            !.view.count = @ + 1,
            !.extra = IF c \in DOMAIN p.view.items THEN @ + 1 ELSE @]

(* What an answer makes of the page p; `c' is the comment it is about.  A  *)
(* page that says its load has failed says so until it is asked again.     *)
Answered(p, kind, c, told) ==
  CASE p.at # "failed" /\ kind \in Whole -> [at |-> "shown", view |-> told, extra |-> 0]
    [] p.at = "shown" /\ kind = "likePost" -> [p EXCEPT !.view.liked = told.liked]
    [] p.at = "shown" /\ kind = "add" -> Appended(p, c, told.items[c])
    [] p.at = "shown" /\ kind = "edit" /\ c \in DOMAIN p.view.items ->
         [p EXCEPT !.view.items[c] = told.items[c]]
    [] p.at = "shown" /\ kind = "like" /\ c \in DOMAIN p.view.items ->
         [p EXCEPT !.view.items[c].liked = told.items[c].liked]
    [] OTHER -> p

(* Only some answers lead to another request, or to another page.          *)
Reloads(kind) == kind \in {"hide", "destroy"} \/ (kind = "hidePost" /\ Staff)
Leaves(kind) == kind = "destroyPost" \/ (kind = "hidePost" /\ ~Staff)

Idle == {x \in Slot : call[x] = NoCall}
Free == CHOOSE x \in Idle : TRUE
Request(kind, c) == [NoCall EXCEPT !.kind = kind, !.at = c, !.phase = "sent"]

(* The topics a visitor may find: comments answer the topic or earlier     *)
(* comments.                                                               *)
Begun(n, own, chain) ==
  [c \in Comment |->
    IF c > n THEN NoRow
    ELSE [NoRow EXCEPT !.state = "alive", !.mine = own[c], !.parent = IF chain THEN c - 1 ELSE 0]]

Found ==
  {[post |-> "alive", mine |-> m, edited |-> FALSE, liked |-> FALSE, row |-> Begun(n, own, chain)] :
   m \in BOOLEAN, n \in 0 .. Comments, own \in [Comment -> BOOLEAN], chain \in BOOLEAN}

Init ==
  /\ role \in Role
  /\ server \in {s \in Found : role = "guest" => ~s.mine /\ \A c \in Comment : ~s.row[c].mine}
  /\ page = Blank("loading")
  /\ call = [x \in Slot |-> IF x = CHOOSE y \in Slot : TRUE THEN Request("load", 0) ELSE NoCall]
  /\ calm = TRUE
  /\ clicks = 0 /\ others = 0

Click(kind, c) ==
  /\ Offered(kind, c) /\ clicks < Clicks /\ Idle # {}
  /\ clicks' = clicks + 1
  /\ call' = [call EXCEPT ![Free] = Request(kind, c)]
  /\ calm' = (calm /\ Idle = Slot)
  /\ UNCHANGED <<role, server, page, others>>

(* "Try again", after a load that failed.                                  *)
Retry ==
  /\ page.at = "failed" /\ clicks < Clicks /\ Idle # {}
  /\ clicks' = clicks + 1
  /\ page' = Blank("loading")
  /\ call' = [call EXCEPT ![Free] = Request("load", 0)]
  /\ calm' = (Idle = Slot)
  /\ UNCHANGED <<role, server, others>>

(* The service grants the request, and tells what it sees then, or not.    *)
Serve(x) ==
  LET k == call[x] IN
  /\ k.phase = "sent"
  /\ k.kind = "add" => Unwritten(server) # {}
  /\ IF LetIn(k.kind) /\ Accepts(server, Staff, TRUE, k.kind, k.at)
     THEN LET s == Effect(server, TRUE, k.kind, k.at)
              c == IF k.kind = "add" THEN NewComment(server) ELSE k.at IN
          /\ server' = s
          /\ call' = [call EXCEPT ![x].phase = "served", ![x].at = c,
                                  ![x].answer = Told(s, Staff, k.kind, c)]
     ELSE /\ call' = [call EXCEPT ![x].phase = "refused"]
          /\ UNCHANGED server
  /\ UNCHANGED <<role, page, calm, clicks, others>>

(* An answer reaches the page, unless the visitor has gone on.             *)
Answer(x) ==
  LET k == call[x] IN
  /\ k.phase = "served"
  /\ IF page.at = "left" THEN page' = page /\ call' = [call EXCEPT ![x] = NoCall] /\ UNCHANGED calm
     ELSE IF Reloads(k.kind)
     THEN /\ page' = Blank("loading")
          /\ call' = [call EXCEPT ![x] = Request("load", 0)]
          /\ calm' = (Idle = Slot \ {x})
     ELSE /\ page' = IF Leaves(k.kind) THEN Blank("left")
                     ELSE Answered(page, k.kind, k.at, k.answer)
          /\ call' = [call EXCEPT ![x] = NoCall]
          /\ UNCHANGED calm
  /\ UNCHANGED <<role, server, clicks, others>>

(* Mutant of LoadEnded: a load that fails leaves the page as it is.        *)
LoadEndedNot(p, how) == p

(* A load that fails: there is no such topic, or no answer.                *)
LoadEnded(p, how) == IF p.at \in {"left", "failed"} THEN p ELSE Blank(how)

(* A request is refused, or no answer comes, whether it was granted or     *)
(* not.  What is not a load only shows a message.                          *)
Fail(x) ==
  LET k == call[x] IN
  /\ k # NoCall
  /\ call' = [call EXCEPT ![x] = NoCall]
  /\ page' = IF k.kind # "load" THEN page
             ELSE LoadEnded(page, IF k.phase = "refused" THEN "none" ELSE "failed")
  /\ calm' = (calm /\ k.phase # "served")
  /\ UNCHANGED <<role, server, clicks, others>>

(* Somebody else, verified and who may be of the staff, writes.            *)
Other(kind, c) ==
  /\ others < Others /\ others' = others + 1
  /\ kind = "add" => Unwritten(server) # {}
  /\ Accepts(server, TRUE, FALSE, kind, c)
  /\ server' = Effect(server, FALSE, kind, c)
  /\ server' # server
  /\ calm' = FALSE
  /\ UNCHANGED <<role, page, call, clicks>>

Next ==
  \/ \E x \in Slot : Serve(x) \/ Answer(x) \/ Fail(x)
  \/ Retry
  \/ \E kind \in PostRequests \ {"load"} : Click(kind, 0)
  \/ \E kind \in CommentRequests, c \in 0 .. Comments : Click(kind, c)
  \/ \E kind \in PostRequests \ {"load", "likePost"} : Other(kind, 0)
  \/ \E kind \in CommentRequests \ {"like"}, c \in 0 .. Comments : Other(kind, c)

(* contentRequest returns or throws in the end.                            *)
Fairness == \A x \in Slot : WF_vars(Answer(x) \/ Fail(x))
Spec == Init /\ [][Next]_vars /\ Fairness
-----------------------------------------------------------------------------
Rows == [state : {"none", "alive", "hidden", "gone"}, mine : BOOLEAN, parent : 0 .. Comments,
         edited : BOOLEAN, liked : BOOLEAN]
Entries == [mine : BOOLEAN, parent : 0 .. Comments, deleted : BOOLEAN,
            text : {"", "old", "new"}, liked : BOOLEAN]

IsView(v) ==
  /\ {v.deleted, v.mine, v.edited, v.liked} \subseteq BOOLEAN
  /\ v.count \in Nat
  /\ DOMAIN v.items \subseteq Comment /\ \A c \in DOMAIN v.items : v.items[c] \in Entries

TypeOK ==
  /\ role \in Role
  /\ server.post \in {"alive", "hidden", "gone"} /\ server.row \in [Comment -> Rows]
  /\ page.at \in {"loading", "none", "failed", "shown", "left"}
  /\ IsView(page.view) /\ page.extra \in Nat
  /\ \A x \in Slot : /\ call[x].phase \in {"idle", "sent", "served", "refused"}
                     /\ call[x].phase = "served" => IsView(call[x].answer)
  /\ calm \in BOOLEAN
  /\ clicks \in 0 .. Clicks /\ others \in 0 .. Others

Settled == calm /\ Shown /\ Idle = Slot

(* What the page makes of the answers by itself is what it would have got  *)
(* by asking for the topic again: as long as nobody else writes and every  *)
(* click waits for the answer to the one before, the page shows what the   *)
(* service would show, its count of comments and its marks of removed      *)
(* comments included, and no comment twice.                                *)
ShownIsServed == Settled => page.view = View(server, Staff) /\ page.extra = 0

(* Requests the page has buttons for whether the address is verified or    *)
(* not.                                                                    *)
Unasked == {"hidePost", "edit", "hide", "restore", "destroy"}

(* The page and the service agree on who may do what: under the same       *)
(* conditions, no button of a topic that is not hidden leads a visitor     *)
(* with a verified address to a refusal.  One whose address is not         *)
(* verified is refused for that alone, and only where the page does not    *)
(* ask: when he hides the topic, or edits, hides, restores or removes      *)
(* comments.                                                               *)
OfferedIsAccepted ==
  Settled /\ ~View0.deleted =>
    \A kind \in PostRequests \cup CommentRequests, c \in 0 .. Comments :
      Offered(kind, c) => /\ Accepts(server, Staff, TRUE, kind, c)
                          /\ LetIn(kind) \/ kind \in Unasked

(* However answers, reloads and what others do are interleaved, every      *)
(* comment the page has is drawn: also one that comes with the answer      *)
(* after a reload in which its parent has gone.                            *)
EveryCommentDrawn == Shown => Drawn(page.view.items) = Items

(* A page that loads ends up with a topic, none, or a message.             *)
LoadEnds == page.at = "loading" ~> page.at # "loading"
=============================================================================
