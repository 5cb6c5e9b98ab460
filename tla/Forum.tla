------------------------------- MODULE Forum --------------------------------
(***************************************************************************)
(* Topics, comments and likes of services/forum.py.                        *)
(*                                                                         *)
(* A request reads the committed rows, checks them and writes at its       *)
(* commit; the reads of one request that follow one another are one step.  *)
(* What the database enforces at the commit is kept: the unique index of   *)
(* living slugs, the foreign keys with their ON DELETE actions, and the    *)
(* refusal of the mapper to update a row that is gone.  A write that is    *)
(* refused rolls the request back.  Texts and categories are left out;     *)
(* is_locked is never set by the code and stays false.                     *)
(***************************************************************************)
EXTENDS Integers, FiniteSets

CONSTANTS
  User, Staff,
  Post, Title,
  MaxComment,  \* bound: comments ever written
  MaxViews,    \* bound: opens of a topic that are counted
  Request,     \* requests in progress at a time
  None,        \* NULL, and the absence of a value
  Ops          \* bound: the operations a run exercises

Comment == 1 .. MaxComment
Operations ==
  {"create", "comment", "hide", "restore", "destroy", "reply_hide",
   "reply_restore", "reply_destroy", "like", "view"}

ASSUME ForumAssumption ==
  /\ Staff \subseteq User
  /\ MaxComment \in Nat /\ MaxViews \in Nat
  /\ IsFiniteSet(Post)
  /\ None \notin User \cup Post \cup Comment
  /\ Ops \subseteq Operations

VARIABLES
  posts,     \* forum_posts; staffhid and opened are history
  comments,  \* forum_comments; staffhid is history
  likes,     \* forum_post_likes and forum_comment_likes
  req,       \* the requests in progress
  crossed    \* history: two requests have been in progress at once

vars == <<posts, comments, likes, req, crossed>>

NoPost == [state |-> "none", slug |-> None, author |-> None, hider |-> None,
           views |-> 0, staffhid |-> FALSE, opened |-> 0]
NoComment == [state |-> "none", post |-> None, parent |-> None, author |-> None,
              hider |-> None, staffhid |-> FALSE]
Idle == [pc |-> "idle", actor |-> None, post |-> None, comment |-> None,
         parent |-> None, slug |-> None, views |-> 0, open |-> FALSE, kids |-> {}]

Present == {"alive", "hidden"}
LivingIn(p) == {c \in Comment : comments[c].state = "alive" /\ comments[c].post = p}
LivingReplies(c) == {k \in Comment : comments[k].state = "alive" /\ comments[k].parent = c}
Taken(slug) == \E p \in Post : posts[p].state = "alive" /\ posts[p].slug = slug

(* _unique_slug: i is the first of t, t-2, t-3 ... no living topic has.    *)
UniqueSlug(t, i) == ~Taken(<<t, i>>) /\ \A j \in 1 .. (i - 1) : Taken(<<t, j>>)

(* get_post_by_slug finds p, and only p: two rows are an error.            *)
FoundAmong(states, p) ==
  /\ posts[p].state \in states
  /\ \A q \in Post : posts[q].state \in states /\ posts[q].slug = posts[p].slug => q = p
Found(u, p) == FoundAmong(IF u \in Staff THEN Present ELSE {"alive"}, p)

Start(r, me) == req[r] = Idle /\ req' = [req EXCEPT ![r] = me]
Goto(r, pc) == req' = [req EXCEPT ![r].pc = pc]
Done(r) == req' = [req EXCEPT ![r] = Idle]
Abort(r) ==
  /\ req[r] # Idle
  /\ Done(r)
  /\ UNCHANGED <<posts, comments, likes>>

Init ==
  /\ posts = [p \in Post |-> NoPost]
  /\ comments = [c \in Comment |-> NoComment]
  /\ likes = {}
  /\ req = [r \in Request |-> Idle]
  /\ crossed = FALSE

-----------------------------------------------------------------------------
CreateRead(r, u, t) ==
  /\ "create" \in Ops
  /\ \E i \in 1 .. (Cardinality(Post) + 1) :
       /\ UniqueSlug(t, i)
       /\ Start(r, [Idle EXCEPT !.pc = "create", !.actor = u, !.slug = <<t, i>>])
  /\ UNCHANGED <<posts, comments, likes>>

CreateAllowed(slug) == ~Taken(slug)

CreateCommit(r) ==
  LET me == req[r] IN
  /\ me.pc = "create"
  /\ CreateAllowed(me.slug)
  /\ \E p \in Post :
       /\ posts[p].state = "none"
       /\ posts' = [posts EXCEPT ![p] = [NoPost EXCEPT !.state = "alive",
                                           !.slug = me.slug, !.author = me.actor]]
  /\ Done(r)
  /\ UNCHANGED <<comments, likes>>

(* get_post: an open of a living topic is counted.                         *)
ViewRead(r, u, p) ==
  /\ "view" \in Ops
  /\ Found(u, p) /\ posts[p].state = "alive"
  /\ Start(r, [Idle EXCEPT !.pc = "view", !.actor = u, !.post = p,
                 !.views = posts[p].views])
  /\ UNCHANGED <<posts, comments, likes>>

(* Mutant of Counted: the row is saved as it was loaded.                   *)
CountedNot(views) == views
Counted(views) == views + 1

ViewCommit(r) ==
  LET me == req[r] IN
  /\ me.pc = "view"
  /\ posts[me.post].state \in Present
  /\ posts[me.post].opened < MaxViews
  /\ posts' = [posts EXCEPT ![me.post].views = Counted(me.views),
                            ![me.post].opened = @ + 1]
  /\ Done(r)
  /\ UNCHANGED <<comments, likes>>

-----------------------------------------------------------------------------
(* hide_post: staff, or the author of a topic without living comments.     *)
HideRead(r, u, p) ==
  /\ "hide" \in Ops
  /\ posts[p].state = "alive"
  /\ u \notin Staff => posts[p].author = u /\ LivingIn(p) = {}
  /\ Start(r, [Idle EXCEPT !.pc = "hide", !.actor = u, !.post = p])
  /\ UNCHANGED <<posts, comments, likes>>

(* _hide and _restore, of a topic or a comment.                            *)
Hidden(row, u) ==
  [row EXCEPT !.state = "hidden", !.hider = u, !.staffhid = @ \/ u \in Staff]

(* Mutant of MayRestore: whoever wrote the topic may restore it.           *)
MayRestoreAuthor(row, u) == u \in Staff \/ row.author = u
MayRestore(row, u) == u \in Staff \/ row.hider = u

Restored(row, u) ==
  [row EXCEPT !.state = "alive", !.hider = None, !.staffhid = @ /\ u \notin Staff]

HideCommit(r) ==
  LET me == req[r] IN
  /\ me.pc = "hide"
  /\ posts[me.post].state \in Present
  /\ posts' = [posts EXCEPT ![me.post] = Hidden(@, me.actor)]
  /\ Done(r)
  /\ UNCHANGED <<comments, likes>>

(* Mutant of DeletedPost: a living topic will do.                          *)
DeletedPostAny(p) == FoundAmong(Present, p)

(* _require_deleted_post finds p.                                          *)
DeletedPost(p) == FoundAmong(Present, p) /\ posts[p].state = "hidden"

RestoreRead(r, u, p) ==
  /\ "restore" \in Ops
  /\ DeletedPost(p)
  /\ MayRestore(posts[p], u)
  /\ Start(r, [Idle EXCEPT !.pc = "restore", !.actor = u, !.post = p,
                 !.views = posts[p].views])
  /\ UNCHANGED <<posts, comments, likes>>

(* The unique index refuses a second living topic with the slug.           *)
RestoreCommit(r) ==
  LET me == req[r] IN
  /\ me.pc = "restore"
  /\ posts[me.post].state \in Present
  /\ \A q \in Post \ {me.post} :
       ~(posts[q].state = "alive" /\ posts[q].slug = posts[me.post].slug)
  /\ posts' = [posts EXCEPT ![me.post] = Restored(@, me.actor)]
  /\ req' = [req EXCEPT ![r].pc = "reopen", ![r].open = TRUE]
  /\ UNCHANGED <<comments, likes>>

(* The answer of a restore is get_post, on the row the request has loaded. *)
Reopen(r) ==
  LET me == req[r] IN
  /\ me.pc = "reopen"
  /\ IF Found(me.actor, me.post) /\ me.open THEN Goto(r, "view") ELSE Done(r)
  /\ UNCHANGED <<posts, comments, likes>>

DestroyRead(r, u, p) ==
  /\ "destroy" \in Ops
  /\ u \in Staff
  /\ DeletedPost(p)
  /\ Start(r, [Idle EXCEPT !.pc = "destroy", !.actor = u, !.post = p])
  /\ UNCHANGED <<posts, comments, likes>>

(* The comments ON DELETE CASCADE takes along with a topic.                *)
Cascade(p) == {c \in Comment : comments[c].state \in Present /\ comments[c].post = p}

(* A topic that is gone already is deleted once more, without an error.    *)
DestroyCommit(r) ==
  LET p == req[r].post
      gone == Cascade(p) IN
  /\ req[r].pc = "destroy"
  /\ posts' = [posts EXCEPT ![p] = [NoPost EXCEPT !.state = "destroyed"]]
  /\ comments' = [c \in Comment |->
       IF c \in gone THEN [NoComment EXCEPT !.state = "destroyed"] ELSE comments[c]]
  /\ likes' = {l \in likes : l.post # p /\ l.comment \notin gone}
  /\ Done(r)

-----------------------------------------------------------------------------
(* Comments are numbered in the order they are written.                    *)
NextComment(c) ==
  comments[c].state = "none" /\ \A d \in Comment : comments[d].state = "none" => c <= d

(* add_comment: to a living topic, as a reply to a living comment of it.   *)
CommentRead(r, u, p, parent) ==
  /\ "comment" \in Ops
  /\ posts[p].state = "alive"
  /\ parent # None => comments[parent].state = "alive" /\ comments[parent].post = p
  /\ Start(r, [Idle EXCEPT !.pc = "comment", !.actor = u, !.post = p, !.parent = parent])
  /\ UNCHANGED <<posts, comments, likes>>

(* Mutant of CommentAllowed: parent_id has no foreign key.                 *)
CommentAllowedOrphan(me) == posts[me.post].state \in Present

(* The foreign keys of the new row.                                        *)
CommentAllowed(me) ==
  /\ posts[me.post].state \in Present
  /\ me.parent # None => comments[me.parent].state \in Present

CommentCommit(r) ==
  LET me == req[r] IN
  /\ me.pc = "comment"
  /\ CommentAllowed(me)
  /\ \E c \in Comment :
       /\ NextComment(c)
       /\ comments' = [comments EXCEPT ![c] =
            [NoComment EXCEPT !.state = "alive", !.post = me.post, !.parent = me.parent,
                              !.author = me.actor]]
  /\ Done(r)
  /\ UNCHANGED <<posts, likes>>

(* Mutant of MayHide: the replies are not counted.                         *)
MayHideWithReplies(u, c) == u \notin Staff => comments[c].author = u

(* hide_comment: staff, or the author of one without living replies.       *)
MayHide(u, c) ==
  u \notin Staff => comments[c].author = u /\ LivingReplies(c) = {}

ReplyHideRead(r, u, c) ==
  /\ "reply_hide" \in Ops
  /\ comments[c].state = "alive" /\ posts[comments[c].post].state = "alive"
  /\ MayHide(u, c)
  /\ Start(r, [Idle EXCEPT !.pc = "reply_hide", !.actor = u, !.comment = c])
  /\ UNCHANGED <<posts, comments, likes>>

ReplyHideCommit(r) ==
  LET me == req[r] IN
  /\ me.pc = "reply_hide"
  /\ comments[me.comment].state \in Present
  /\ comments' = [comments EXCEPT ![me.comment] = Hidden(@, me.actor)]
  /\ Done(r)
  /\ UNCHANGED <<posts, likes>>

ReplyRestoreRead(r, u, c) ==
  LET p == comments[c].post IN
  /\ "reply_restore" \in Ops
  /\ comments[c].state = "hidden"
  /\ Found(u, p)
  /\ MayRestore(comments[c], u)
  /\ Start(r, [Idle EXCEPT !.pc = "reply_restore", !.actor = u, !.comment = c,
                 !.post = p, !.views = posts[p].views, !.open = posts[p].state = "alive"])
  /\ UNCHANGED <<posts, comments, likes>>

ReplyRestoreCommit(r) ==
  LET me == req[r] IN
  /\ me.pc = "reply_restore"
  /\ comments[me.comment].state \in Present
  /\ comments' = [comments EXCEPT ![me.comment] = Restored(@, me.actor)]
  /\ Goto(r, "reopen")
  /\ UNCHANGED <<posts, likes>>

(* destroy_comment: reparent_children loads the replies, the commit moves  *)
(* them up and deletes; a reply added since falls to ON DELETE SET NULL.   *)
ReplyDestroyRead(r, u, c) ==
  /\ "reply_destroy" \in Ops
  /\ u \in Staff
  /\ comments[c].state = "hidden" /\ Found(u, comments[c].post)
  /\ Start(r, [Idle EXCEPT !.pc = "reply_destroy", !.actor = u, !.comment = c,
                 !.parent = comments[c].parent])
  /\ UNCHANGED <<posts, comments, likes>>

ReplyDestroyKids(r) ==
  LET me == req[r] IN
  /\ me.pc = "reply_destroy"
  /\ req' = [req EXCEPT ![r].pc = "reply_delete", ![r].kids =
       {k \in Comment : comments[k].state \in Present /\ comments[k].parent = me.comment}]
  /\ UNCHANGED <<posts, comments, likes>>

(* Mutant of Moved: the replies keep the comment that is deleted.          *)
MovedNowhere(k, me) == comments[k]

(* The row of a reply after reparent_children, or after ON DELETE.         *)
Moved(k, me) ==
  [comments[k] EXCEPT !.parent =
     IF k \in me.kids THEN me.parent ELSE IF @ = me.comment THEN None ELSE @]

ReplyDestroyCommit(r) ==
  LET me == req[r] IN
  /\ me.pc = "reply_delete"
  /\ \A k \in me.kids : comments[k].state \in Present
  /\ me.kids # {} /\ me.parent # None => comments[me.parent].state \in Present
  /\ comments' = [k \in Comment |->
       IF k = me.comment THEN [NoComment EXCEPT !.state = "destroyed"]
       ELSE IF comments[k].state \in Present THEN Moved(k, me)
       ELSE comments[k]]
  /\ likes' = {l \in likes : l.comment # me.comment}
  /\ Done(r)
  /\ UNCHANGED posts

-----------------------------------------------------------------------------
(* toggle_post_like and toggle_comment_like: the second of two inserts is  *)
(* refused by the primary key, the second of two deletes finds nothing.    *)
LikeOf(me) == [user |-> me.actor, post |-> me.post, comment |-> me.comment]
Likeable(p, c) ==
  IF c = None THEN posts[p].state \in Present
  ELSE p = None /\ comments[c].state \in Present

LikeRead(r, u, p, c) ==
  LET me == [Idle EXCEPT !.actor = u, !.post = IF c = None THEN p ELSE None,
                         !.comment = c] IN
  /\ "like" \in Ops
  /\ posts[p].state = "alive"
  /\ c # None => comments[c].state = "alive" /\ comments[c].post = p
  /\ Start(r, [me EXCEPT !.pc = IF LikeOf(me) \in likes THEN "unlike" ELSE "like"])
  /\ UNCHANGED <<posts, comments, likes>>

(* Mutant of LikeCommit: the foreign key of the new row is not checked.    *)
LikeCommitOrphan(r) ==
  /\ req[r].pc = "like"
  /\ likes' = likes \cup {LikeOf(req[r])}
  /\ Done(r)
  /\ UNCHANGED <<posts, comments>>

LikeCommit(r) ==
  LET me == req[r] IN
  /\ me.pc = "like"
  /\ LikeOf(me) \notin likes
  /\ Likeable(me.post, me.comment)
  /\ likes' = likes \cup {LikeOf(me)}
  /\ Done(r)
  /\ UNCHANGED <<posts, comments>>

UnlikeCommit(r) ==
  /\ req[r].pc = "unlike"
  /\ likes' = likes \ {LikeOf(req[r])}
  /\ Done(r)
  /\ UNCHANGED <<posts, comments>>

Begin(r, u) ==
  \/ \E t \in Title : CreateRead(r, u, t)
  \/ \E p \in Post :
       \/ ViewRead(r, u, p) \/ HideRead(r, u, p)
       \/ RestoreRead(r, u, p) \/ DestroyRead(r, u, p)
  \/ \E p \in Post, c \in Comment \cup {None} :
       CommentRead(r, u, p, c) \/ LikeRead(r, u, p, c)
  \/ \E c \in Comment :
       ReplyHideRead(r, u, c) \/ ReplyRestoreRead(r, u, c) \/ ReplyDestroyRead(r, u, c)

Step(r) ==
  \/ CreateCommit(r) \/ ViewCommit(r) \/ HideCommit(r) \/ RestoreCommit(r) \/ Reopen(r)
  \/ DestroyCommit(r) \/ CommentCommit(r) \/ ReplyHideCommit(r) \/ ReplyRestoreCommit(r)
  \/ ReplyDestroyKids(r) \/ ReplyDestroyCommit(r) \/ LikeCommit(r) \/ UnlikeCommit(r)
  \/ Abort(r)

Act == \E r \in Request : Step(r) \/ \E u \in User : Begin(r, u)

Crossing ==
  crossed' = (crossed \/ \E q, r \in Request : q # r /\ req'[q] # Idle /\ req'[r] # Idle)

Next == Act /\ Crossing

Spec == Init /\ [][Next]_vars
-----------------------------------------------------------------------------
Replies(S) == {k \in Comment : comments[k].state \in Present /\ comments[k].parent \in S}

(* Mutant of Below: only the direct replies are looked at.                 *)
BelowOnce(c) == Replies({c})

(* _has_living_descendant walks down from c.  What it meets is in every    *)
(* set that has the replies to c and the replies to its own members.       *)
Below(c) ==
  {k \in Comment : \A S \in SUBSET Comment : Replies(S \cup {c}) \subseteq S => k \in S}

(* _comment_visible, for a reader who is not staff: a hidden comment shows *)
(* as a plaque as long as something below it is alive.                     *)
Visible(c) ==
  \/ comments[c].state = "alive"
  \/ comments[c].state = "hidden" /\ \E k \in Below(c) : comments[k].state = "alive"

States == {"none", "alive", "hidden", "destroyed"}
PC ==
  {"idle", "create", "view", "hide", "restore", "reopen", "destroy", "comment",
   "reply_hide", "reply_restore", "reply_destroy", "reply_delete", "like", "unlike"}
Slug == Title \X Nat
PostRow ==
  [state : States, slug : Slug \cup {None}, author : User \cup {None},
   hider : User \cup {None}, views : Nat, staffhid : BOOLEAN, opened : Nat]
CommentRow ==
  [state : States, post : Post \cup {None}, parent : Comment \cup {None},
   author : User \cup {None}, hider : User \cup {None}, staffhid : BOOLEAN]
LikeRow == [user : User, post : Post \cup {None}, comment : Comment \cup {None}]
RequestRow ==
  [pc : PC, actor : User \cup {None}, post : Post \cup {None},
   comment : Comment \cup {None}, parent : Comment \cup {None},
   slug : Slug \cup {None}, views : Nat, open : BOOLEAN, kids : SUBSET Comment]

(* What is hidden says by whom, and nothing else does.                     *)
HiderKept(row) == row.state = "hidden" <=> row.hider # None

TablesOK ==
  /\ posts \in [Post -> PostRow]
  /\ comments \in [Comment -> CommentRow]
  /\ likes \subseteq LikeRow
  /\ req \in [Request -> RequestRow]
  /\ \A p \in Post : HiderKept(posts[p])
  /\ \A c \in Comment : HiderKept(comments[c])

(* Type invariant of the rows and the requests.                            *)
TypeOK == TablesOK /\ crossed \in BOOLEAN

(* A comment belongs to a topic that is there, and replies to an older     *)
(* comment of that topic that is there: threads have no loops, whatever    *)
(* is hidden, destroyed or moved up while a reply is being written.        *)
ThreadOK(c) ==
  /\ comments[c].post \in Post /\ posts[comments[c].post].state \in Present
  /\ comments[c].parent # None =>
       /\ comments[c].parent < c
       /\ comments[comments[c].parent].state \in Present
       /\ comments[comments[c].parent].post = comments[c].post
ThreadsOK == \A c \in Comment : comments[c].state \in Present => ThreadOK(c)

(* A like is of a topic or a comment that is there.                        *)
LikesOK == \A l \in likes : Likeable(l.post, l.comment)

(* A page never shows a reply without the comment it replies to.           *)
VisibleClosed ==
  \A c \in Comment :
    comments[c].state \in Present /\ Visible(c) /\ comments[c].parent # None
      => Visible(comments[c].parent)

(* Whatever is hidden, destroyed and moved up while others write and like: *)
(* threads are trees, nothing replies to, or likes, what has gone, and no  *)
(* page shows a reply without the comment it replies to.                   *)
NothingDangles == ThreadsOK /\ LikesOK /\ VisibleClosed

(* Destroying a comment loses no reply to it: each moves to where the      *)
(* destroyed one stood when the request read it, or to the root.           *)
RepliesKept ==
  \A c, k \in Comment :
    /\ comments[c].state \in Present /\ comments'[c].state = "destroyed"
    /\ comments[k].state \in Present /\ comments[k].parent = c
    /\ posts'[comments[k].post].state \in Present
    => /\ comments'[k].state = comments[k].state
       /\ \/ comments'[k].parent = None
          \/ \E r \in Request :
               req[r].comment = c /\ comments'[k].parent = req[r].parent

(* It moves to where the destroyed one stands.                             *)
PlacesKept ==
  \A c, k \in Comment :
    /\ comments[c].state \in Present /\ comments'[c].state = "destroyed"
    /\ comments[k].parent = c /\ comments'[k].state \in Present
    => comments'[k].parent = comments[c].parent

(* A topic or a comment that staff has hidden comes back only by staff.    *)
StaffHideStands ==
  /\ \A p \in Post : posts[p].staffhid => posts[p].state = "hidden"
  /\ \A c \in Comment : comments[c].staffhid => comments[c].state = "hidden"

(* An author hides nothing that somebody has answered.                     *)
AnsweredStep ==
  /\ \A p \in Post :
       posts[p].state = "alive" /\ posts'[p].state = "hidden" =>
         \/ posts'[p].hider \in Staff
         \/ posts'[p].hider = posts[p].author /\ LivingIn(p) = {}
  /\ \A c \in Comment :
       comments[c].state = "alive" /\ comments'[c].state = "hidden" =>
         \/ comments'[c].hider \in Staff
         \/ comments'[c].hider = comments[c].author /\ LivingReplies(c) = {}

(* Only what is hidden is destroyed, or goes with its topic.               *)
HiddenDestroyedStep ==
  /\ \A p \in Post : posts'[p].state = "destroyed" => posts[p].state # "alive"
  /\ \A c \in Comment :
       comments'[c].state = "destroyed" /\ comments[c].state = "alive"
         => posts'[comments[c].post].state = "destroyed"

(* The counter of a topic counts every open of it.                         *)
ViewsCounted == \A p \in Post : posts[p].views = posts[p].opened

(* As long as no two requests overlap: what staff has hidden comes back    *)
(* only by staff, and the counter of a topic counts every open of it.      *)
KeptAlone == ~crossed => StaffHideStands /\ ViewsCounted

(* Answers are not lost: destroying a comment, also one that is answered   *)
(* meanwhile, loses no reply to it.  As long as no two requests overlap,   *)
(* the replies move to where it stands, an author hides nothing that       *)
(* somebody has answered, and only what is hidden is destroyed, or goes    *)
(* with its topic.                                                         *)
AnswersKept ==
  [][/\ RepliesKept
     /\ ~crossed' => PlacesKept /\ AnsweredStep /\ HiddenDestroyedStep]_vars

(* Staff can open every topic that was not destroyed, hidden or not.       *)
StaffOpens == \A p \in Post : posts[p].state \in Present => FoundAmong(Present, p)
=============================================================================
