---------------------------- MODULE ForumProofs -----------------------------
(***************************************************************************)
(* Proofs about Forum for any number of users, topics, comments and        *)
(* requests in progress.                                                   *)
(***************************************************************************)
EXTENDS Forum, FiniteSetTheorems, TLAPS

-----------------------------------------------------------------------------
(* The inductive invariant.  Comments are numbered as they are written, so *)
(* that a new one is younger than the comment it replies to.               *)
Numbered ==
  \A c, d \in Comment :
    d < c /\ comments[c].state # "none" => comments[d].state # "none"

(* Among these rows k could be a reply to c: younger, and of its topic.    *)
MayReply(k, c, rows) ==
  /\ c < k
  /\ rows[c].state # "none" /\ rows[k].state # "none"
  /\ rows[c].state \in Present /\ rows[k].state \in Present
       => rows[c].post = rows[k].post

(* What a request has loaded stays good enough to write, whatever became   *)
(* of the rows meanwhile.                                                  *)
OnPost == {"view", "hide", "restore", "reopen", "destroy", "comment", "reply_restore"}
OnComment == {"reply_hide", "reply_restore", "reply_destroy", "reply_delete"}
Loaded(me, rows) ==
  /\ me.pc # "idle" => me.actor \in User
  /\ me.pc \in OnPost => me.post \in Post
  /\ me.pc \in OnComment => me.comment \in Comment /\ rows[me.comment].state # "none"
  /\ me.pc = "comment" /\ me.parent # None =>
       /\ rows[me.parent].state # "none"
       /\ rows[me.parent].state \in Present => rows[me.parent].post = me.post
  /\ me.pc \in {"reply_destroy", "reply_delete"} /\ me.parent # None =>
       MayReply(me.comment, me.parent, rows)
  /\ me.pc = "reply_delete" =>
       \A k \in me.kids : /\ MayReply(k, me.comment, rows)
                          /\ me.parent # None => MayReply(k, me.parent, rows)
  /\ me.pc = "like" /\ me.comment = None => me.post \in Post
RequestsOK == \A r \in Request : Loaded(req[r], comments)

PostLikes == \A l \in likes : l.comment = None => l.post \in Post

IInv == TablesOK /\ ThreadsOK /\ Numbered /\ RequestsOK /\ LikesOK /\ PostLikes

(* What no step takes back: a number once given stays given, and a comment *)
(* that is there was there before, in the same topic, or is new.           *)
Keeps(old, new) ==
  \A c \in Comment : old[c].state # "none" =>
    /\ new[c].state # "none"
    /\ new[c].state \in Present => old[c].state \in Present /\ new[c].post = old[c].post

-----------------------------------------------------------------------------
LEMMA NoneApart == None \notin User /\ None \notin Post /\ None \notin Comment
BY ForumAssumption

LEMMA IdleOK == Idle \in RequestRow /\ \A rows : Loaded(Idle, rows)
BY DEF Idle, RequestRow, PC, Loaded, OnPost, OnComment

(* What _hide and _restore make of a row is a row.                         *)
LEMMA HiddenPost ==
  ASSUME NEW row \in PostRow, NEW u \in User
  PROVE  /\ Hidden(row, u) \in PostRow /\ HiderKept(Hidden(row, u))
         /\ Hidden(row, u).state \in Present
<1> DEFINE b == row.staffhid \/ u \in Staff
<1>1. b \in BOOLEAN
  OBVIOUS
<1>2. Hidden(row, u) = [row EXCEPT !.state = "hidden", !.hider = u, !.staffhid = b]
  BY DEF Hidden
<1> HIDE DEF b
<1>3. QED
  <2>1. u # None
    BY NoneApart
  <2>2. /\ Hidden(row, u) \in PostRow /\ Hidden(row, u).state = "hidden"
        /\ Hidden(row, u).hider = u
    BY <1>1, <1>2 DEF PostRow, States
  <2>3. QED
    BY <2>1, <2>2 DEF HiderKept, Present

LEMMA RestoredPost ==
  ASSUME NEW row \in PostRow, NEW u \in User
  PROVE  /\ Restored(row, u) \in PostRow /\ HiderKept(Restored(row, u))
         /\ Restored(row, u).state \in Present
<1> DEFINE b == row.staffhid /\ u \notin Staff
<1>1. b \in BOOLEAN
  OBVIOUS
<1>2. Restored(row, u) = [row EXCEPT !.state = "alive", !.hider = None, !.staffhid = b]
  BY DEF Restored
<1> HIDE DEF b
<1>3. QED
  BY <1>1, <1>2 DEF PostRow, States, HiderKept, Present

LEMMA HiddenComment ==
  ASSUME NEW row \in CommentRow, NEW u \in User
  PROVE  /\ Hidden(row, u) \in CommentRow /\ HiderKept(Hidden(row, u))
         /\ Hidden(row, u).state \in Present
         /\ Hidden(row, u).post = row.post /\ Hidden(row, u).parent = row.parent
<1> DEFINE b == row.staffhid \/ u \in Staff
<1>1. b \in BOOLEAN
  OBVIOUS
<1>2. Hidden(row, u) = [row EXCEPT !.state = "hidden", !.hider = u, !.staffhid = b]
  BY DEF Hidden
<1> HIDE DEF b
<1>3. QED
  <2>1. u # None
    BY NoneApart
  <2>2. /\ Hidden(row, u) \in CommentRow /\ Hidden(row, u).state = "hidden"
        /\ Hidden(row, u).hider = u
        /\ Hidden(row, u).post = row.post /\ Hidden(row, u).parent = row.parent
    BY <1>1, <1>2 DEF CommentRow, States
  <2>3. QED
    BY <2>1, <2>2 DEF HiderKept, Present

LEMMA RestoredComment ==
  ASSUME NEW row \in CommentRow, NEW u \in User
  PROVE  /\ Restored(row, u) \in CommentRow /\ HiderKept(Restored(row, u))
         /\ Restored(row, u).state \in Present
         /\ Restored(row, u).post = row.post /\ Restored(row, u).parent = row.parent
<1> DEFINE b == row.staffhid /\ u \notin Staff
<1>1. b \in BOOLEAN
  OBVIOUS
<1>2. Restored(row, u) = [row EXCEPT !.state = "alive", !.hider = None, !.staffhid = b]
  BY DEF Restored
<1> HIDE DEF b
<1>3. QED
  BY <1>1, <1>2 DEF CommentRow, States, HiderKept, Present

LEMMA MayReplyKept ==
  ASSUME NEW old, NEW new, Keeps(old, new),
         NEW k \in Comment, NEW c \in Comment, MayReply(k, c, old)
  PROVE  MayReply(k, c, new)
BY DEF Keeps, MayReply

LEMMA LoadedKept ==
  ASSUME NEW old, NEW new, Keeps(old, new), NEW me \in RequestRow, Loaded(me, old)
  PROVE  Loaded(me, new)
<1>1. (me.parent # None => me.parent \in Comment) /\ me.kids \subseteq Comment
  BY DEF RequestRow
<1>2. me.pc \in OnComment => me.comment \in Comment /\ new[me.comment].state # "none"
  BY DEF Loaded, Keeps
<1>3. me.pc = "comment" /\ me.parent # None =>
       /\ new[me.parent].state # "none"
       /\ new[me.parent].state \in Present => new[me.parent].post = me.post
  BY <1>1 DEF Loaded, Keeps
<1>4. me.pc \in {"reply_destroy", "reply_delete"} /\ me.parent # None =>
       MayReply(me.comment, me.parent, new)
  BY <1>1, <1>2, MayReplyKept DEF Loaded, OnComment
<1>5. me.pc = "reply_delete" =>
       \A k \in me.kids : /\ MayReply(k, me.comment, new)
                          /\ me.parent # None => MayReply(k, me.parent, new)
  BY <1>1, <1>2, MayReplyKept DEF Loaded, OnComment
<1>6. QED
  BY <1>2, <1>3, <1>4, <1>5 DEF Loaded

(* A step moves one request and leaves what the others have loaded good.   *)
LEMMA RequestStep ==
  ASSUME IInv, Keeps(comments, comments'), NEW r \in Request,
         NEW x \in RequestRow, Loaded(x, comments'), req' = [req EXCEPT ![r] = x]
  PROVE  req' \in [Request -> RequestRow] /\ RequestsOK'
<1>1. req' \in [Request -> RequestRow]
  BY DEF IInv, TablesOK
<1>2. ASSUME NEW q \in Request
      PROVE  Loaded(req'[q], comments')
  <2>1. req[q] \in RequestRow /\ Loaded(req[q], comments)
    BY DEF IInv, TablesOK, RequestsOK
  <2>2. Loaded(req[q], comments')
    BY <2>1, LoadedKept
  <2>3. req'[q] = IF q = r THEN x ELSE req[q]
    BY DEF IInv, TablesOK
  <2>4. QED
    BY <2>2, <2>3
<1>3. QED
  BY <1>1, <1>2 DEF RequestsOK

LEMMA SameKept == Keeps(comments, comments)
BY DEF Keeps

(* A request that only reads.                                              *)
LEMMA ReadStep ==
  ASSUME IInv, NEW r \in Request, NEW x \in RequestRow, Loaded(x, comments),
         req' = [req EXCEPT ![r] = x], UNCHANGED <<posts, comments, likes>>
  PROVE  IInv'
<1>1. req' \in [Request -> RequestRow] /\ RequestsOK'
  BY SameKept, RequestStep
<1>2. QED
  BY <1>1 DEF IInv, TablesOK, HiderKept, ThreadsOK, ThreadOK, Numbered, LikesOK,
              Likeable, PostLikes

(* A write that takes no topic away and leaves comments and likes alone.   *)
LEMMA PostStep ==
  ASSUME IInv, NEW r \in Request, NEW x \in RequestRow, Loaded(x, comments),
         req' = [req EXCEPT ![r] = x],
         NEW p \in Post, NEW row \in PostRow, HiderKept(row), row.state \in Present,
         posts' = [posts EXCEPT ![p] = row], UNCHANGED <<comments, likes>>
  PROVE  IInv'
<1>1. req' \in [Request -> RequestRow] /\ RequestsOK'
  BY SameKept, RequestStep
<1>2. posts' \in [Post -> PostRow] /\ \A q \in Post : HiderKept(posts'[q])
  BY DEF IInv, TablesOK, HiderKept
<1>3. \A q \in Post : posts[q].state \in Present => posts'[q].state \in Present
  BY DEF IInv, TablesOK
<1>4. ThreadsOK'
  <2> SUFFICES ASSUME NEW c \in Comment, comments[c].state \in Present
               PROVE  ThreadOK(c)'
    BY DEF ThreadsOK
  <2>1. ThreadOK(c)
    BY DEF IInv, ThreadsOK
  <2>2. posts[comments[c].post].state \in Present => posts'[comments[c].post].state \in Present
    BY <1>3, <2>1 DEF ThreadOK
  <2>3. QED
    BY <1>3, <2>1, <2>2 DEF ThreadOK
<1>5. QED
  BY <1>1, <1>2, <1>3, <1>4 DEF IInv, TablesOK, HiderKept, Numbered, LikesOK, Likeable, PostLikes

(* A write that takes no comment away and leaves topics and likes alone.   *)
LEMMA CommentStep ==
  ASSUME IInv, NEW r \in Request, NEW x \in RequestRow, Loaded(x, comments'),
         req' = [req EXCEPT ![r] = x],
         NEW c \in Comment, comments[c].state # "none",
         NEW row \in CommentRow, HiderKept(row), row.state \in Present,
         comments[c].state \in Present,
         row.post = comments[c].post, row.parent = comments[c].parent,
         comments' = [comments EXCEPT ![c] = row], UNCHANGED <<posts, likes>>
  PROVE  IInv'
<1>0. \A d \in Comment : comments'[d] = IF d = c THEN row ELSE comments[d]
  BY DEF IInv, TablesOK
<1>1. Keeps(comments, comments')
  BY <1>0 DEF Keeps, Present
<1>2. req' \in [Request -> RequestRow] /\ RequestsOK'
  BY <1>1, RequestStep
<1>3. comments' \in [Comment -> CommentRow] /\ \A d \in Comment : HiderKept(comments'[d])
  BY <1>0 DEF IInv, TablesOK, HiderKept
<1>4. ThreadsOK'
  <2> SUFFICES ASSUME NEW d \in Comment, comments'[d].state \in Present
               PROVE  ThreadOK(d)'
    BY DEF ThreadsOK
  <2>1. comments[d].state \in Present /\ ThreadOK(d)
        /\ comments'[d].post = comments[d].post /\ comments'[d].parent = comments[d].parent
    BY <1>0 DEF IInv, ThreadsOK
  <2>2. comments[d].parent # None => comments[d].parent \in Comment
    BY DEF IInv, TablesOK, CommentRow
  <2>3. QED
    BY <1>0, <2>1, <2>2 DEF ThreadOK
<1>5. Numbered'
  BY <1>0 DEF IInv, Numbered, Present
<1>6. LikesOK'
  <2> SUFFICES ASSUME NEW l \in likes PROVE Likeable(l.post, l.comment)'
    BY DEF LikesOK
  <2>1. Likeable(l.post, l.comment) /\ l.comment \in Comment \cup {None}
    BY DEF IInv, LikesOK, TablesOK, LikeRow
  <2>2. QED
    BY <1>0, <2>1 DEF Likeable
<1>7. QED
  BY <1>2, <1>3, <1>4, <1>5, <1>6 DEF IInv, TablesOK, HiderKept, PostLikes

(* A write of likes alone.                                                 *)
LEMMA LikeStep ==
  ASSUME IInv, NEW r \in Request, req' = [req EXCEPT ![r] = Idle],
         UNCHANGED <<posts, comments>>, likes' \subseteq LikeRow,
         \A l \in likes' : /\ Likeable(l.post, l.comment)
                           /\ l.comment = None => l.post \in Post
  PROVE  IInv'
<1>1. req' \in [Request -> RequestRow] /\ RequestsOK'
  BY SameKept, IdleOK, RequestStep
<1>2. QED
  BY <1>1 DEF IInv, TablesOK, HiderKept, ThreadsOK, ThreadOK, Numbered, LikesOK,
              Likeable, PostLikes

-----------------------------------------------------------------------------
LEMMA InitOK == Init => IInv
<1> SUFFICES ASSUME Init PROVE IInv
  OBVIOUS
<1>1. TablesOK
  BY NoneApart, IdleOK DEF Init, TablesOK, NoPost, NoComment, PostRow, CommentRow, States, HiderKept
<1>2. RequestsOK
  BY IdleOK DEF Init, RequestsOK
<1>3. QED
  BY <1>1, <1>2 DEF Init, IInv, ThreadsOK, Numbered, LikesOK, PostLikes, NoComment, Present

(* Requests begin by reading.                                              *)
LEMMA BeginOK ==
  ASSUME IInv, NEW r \in Request, NEW u \in User, Begin(r, u)
  PROVE  IInv'
<1> USE DEF Start
<1> DEFINE me(pc) == [Idle EXCEPT !.pc = pc, !.actor = u]
<1>0. req \in [Request -> RequestRow] /\ posts \in [Post -> PostRow]
      /\ comments \in [Comment -> CommentRow]
  BY DEF IInv, TablesOK
<1>1. ASSUME NEW t \in Title, CreateRead(r, u, t)
      PROVE  IInv'
  <2>1. PICK i \in 1 .. (Cardinality(Post) + 1) :
          Start(r, [Idle EXCEPT !.pc = "create", !.actor = u, !.slug = <<t, i>>])
    BY <1>1 DEF CreateRead
  <2> DEFINE x == [Idle EXCEPT !.pc = "create", !.actor = u, !.slug = <<t, i>>]
  <2>2. x \in RequestRow
    <3>1. i \in Nat
      BY FS_CardinalityType, ForumAssumption
    <3>2. QED
      BY <3>1 DEF Idle, RequestRow, PC, Slug
  <2>3. Loaded(x, comments)
    BY DEF Idle, Loaded, OnPost, OnComment
  <2>4. req' = [req EXCEPT ![r] = x] /\ UNCHANGED <<posts, comments, likes>>
    BY <1>1, <2>1 DEF CreateRead
  <2>5. QED
    BY <2>2, <2>3, <2>4, ReadStep
<1>2. ASSUME NEW p \in Post, ViewRead(r, u, p)
      PROVE  IInv'
  <2> DEFINE x == [Idle EXCEPT !.pc = "view", !.actor = u, !.post = p, !.views = posts[p].views]
  <2>1. x \in RequestRow /\ Loaded(x, comments)
    BY <1>0 DEF Idle, RequestRow, PC, PostRow, Loaded, OnPost, OnComment
  <2>2. QED
    BY <1>2, <2>1, ReadStep DEF ViewRead
<1>3. ASSUME NEW p \in Post, HideRead(r, u, p)
      PROVE  IInv'
  <2> DEFINE x == [Idle EXCEPT !.pc = "hide", !.actor = u, !.post = p]
  <2>1. x \in RequestRow /\ Loaded(x, comments)
    BY DEF Idle, RequestRow, PC, Loaded, OnPost, OnComment
  <2>2. QED
    BY <1>3, <2>1, ReadStep DEF HideRead
<1>4. ASSUME NEW p \in Post, RestoreRead(r, u, p)
      PROVE  IInv'
  <2> DEFINE x == [Idle EXCEPT !.pc = "restore", !.actor = u, !.post = p,
                                !.views = posts[p].views]
  <2>1. x \in RequestRow /\ Loaded(x, comments)
    BY <1>0 DEF Idle, RequestRow, PC, PostRow, Loaded, OnPost, OnComment
  <2>2. QED
    BY <1>4, <2>1, ReadStep DEF RestoreRead
<1>5. ASSUME NEW p \in Post, DestroyRead(r, u, p)
      PROVE  IInv'
  <2> DEFINE x == [Idle EXCEPT !.pc = "destroy", !.actor = u, !.post = p]
  <2>1. x \in RequestRow /\ Loaded(x, comments)
    BY DEF Idle, RequestRow, PC, Loaded, OnPost, OnComment
  <2>2. QED
    BY <1>5, <2>1, ReadStep DEF DestroyRead
<1>6. ASSUME NEW p \in Post, NEW c \in Comment \cup {None}, CommentRead(r, u, p, c)
      PROVE  IInv'
  <2> DEFINE x == [Idle EXCEPT !.pc = "comment", !.actor = u, !.post = p, !.parent = c]
  <2>1. x \in RequestRow /\ Loaded(x, comments)
    BY <1>6 DEF CommentRead, Idle, RequestRow, PC, Loaded, OnPost, OnComment
  <2>2. QED
    BY <1>6, <2>1, ReadStep DEF CommentRead
<1>7. ASSUME NEW p \in Post, NEW c \in Comment \cup {None}, LikeRead(r, u, p, c)
      PROVE  IInv'
  <2> DEFINE y == [Idle EXCEPT !.actor = u, !.post = IF c = None THEN p ELSE None,
                               !.comment = c]
             x == [y EXCEPT !.pc = IF LikeOf(y) \in likes THEN "unlike" ELSE "like"]
  <2>1. x \in RequestRow /\ Loaded(x, comments)
    BY DEF Idle, RequestRow, PC, Loaded, OnPost, OnComment
  <2>2. req' = [req EXCEPT ![r] = x] /\ UNCHANGED <<posts, comments, likes>>
    BY <1>7 DEF LikeRead
  <2>3. QED
    BY <2>1, <2>2, ReadStep
<1>8. ASSUME NEW c \in Comment, ReplyHideRead(r, u, c)
      PROVE  IInv'
  <2> DEFINE x == [Idle EXCEPT !.pc = "reply_hide", !.actor = u, !.comment = c]
  <2>1. x \in RequestRow /\ Loaded(x, comments)
    BY <1>8 DEF ReplyHideRead, Idle, RequestRow, PC, Loaded, OnPost, OnComment
  <2>2. QED
    BY <1>8, <2>1, ReadStep DEF ReplyHideRead
<1>9. ASSUME NEW c \in Comment, ReplyRestoreRead(r, u, c)
      PROVE  IInv'
  <2> DEFINE p == comments[c].post
             x == [Idle EXCEPT !.pc = "reply_restore", !.actor = u, !.comment = c,
                     !.post = p, !.views = posts[p].views, !.open = posts[p].state = "alive"]
  <2>1. comments[c].state = "hidden" /\ p \in Post
    BY <1>9 DEF ReplyRestoreRead, IInv, ThreadsOK, ThreadOK, Present
  <2>2. x \in RequestRow
    BY <1>0, <2>1 DEF Idle, RequestRow, PC, PostRow
  <2>3. Loaded(x, comments)
    BY <2>1 DEF Idle, Loaded, OnPost, OnComment
  <2>4. req' = [req EXCEPT ![r] = x] /\ UNCHANGED <<posts, comments, likes>>
    BY <1>9 DEF ReplyRestoreRead
  <2>5. QED
    BY <2>2, <2>3, <2>4, ReadStep
<1>10. ASSUME NEW c \in Comment, ReplyDestroyRead(r, u, c)
       PROVE  IInv'
  <2> DEFINE x == [Idle EXCEPT !.pc = "reply_destroy", !.actor = u, !.comment = c,
                                !.parent = comments[c].parent]
  <2>1. comments[c].state = "hidden" /\ ThreadOK(c)
    BY <1>10 DEF ReplyDestroyRead, IInv, ThreadsOK, Present
  <2>2. x \in RequestRow
    BY <1>0 DEF Idle, RequestRow, PC, CommentRow
  <2>3. comments[c].parent # None => MayReply(c, comments[c].parent, comments)
    BY <2>1 DEF ThreadOK, MayReply, Present
  <2>4. Loaded(x, comments)
    BY <2>1, <2>3 DEF Idle, Loaded, OnPost, OnComment
  <2>5. QED
    BY <1>10, <2>2, <2>4, ReadStep DEF ReplyDestroyRead
<1>11. QED
  BY <1>1, <1>2, <1>3, <1>4, <1>5, <1>6, <1>7, <1>8, <1>9, <1>10 DEF Begin

-----------------------------------------------------------------------------
(* destroy_post takes the comments and the likes of its topic along.       *)
LEMMA DestroyOK ==
  ASSUME IInv, NEW r \in Request, DestroyCommit(r)
  PROVE  IInv'
<1> DEFINE p == req[r].post
           gone == Cascade(p)
<1>0. /\ p \in Post
      /\ posts \in [Post -> PostRow] /\ comments \in [Comment -> CommentRow]
  BY DEF IInv, TablesOK, RequestsOK, Loaded, OnPost, DestroyCommit
<1>1. \A q \in Post : posts'[q] = IF q = p THEN [NoPost EXCEPT !.state = "destroyed"]
                                  ELSE posts[q]
  BY <1>0 DEF DestroyCommit
<1>2. \A c \in Comment : comments'[c] = IF c \in gone
                                        THEN [NoComment EXCEPT !.state = "destroyed"]
                                        ELSE comments[c]
  BY DEF DestroyCommit
<1>3. posts' \in [Post -> PostRow] /\ comments' \in [Comment -> CommentRow]
  <2>1. [NoPost EXCEPT !.state = "destroyed"] \in PostRow
    BY DEF NoPost, PostRow, States
  <2>2. [NoComment EXCEPT !.state = "destroyed"] \in CommentRow
    BY DEF NoComment, CommentRow, States
  <2>3. QED
    BY <1>0, <2>1, <2>2 DEF DestroyCommit
<1>4. (\A q \in Post : HiderKept(posts'[q])) /\ \A c \in Comment : HiderKept(comments'[c])
  BY <1>1, <1>2 DEF IInv, TablesOK, HiderKept, NoPost, NoComment
<1>5. \A c \in Comment : comments'[c].state \in Present =>
        c \notin gone /\ comments'[c] = comments[c]
  BY <1>2 DEF NoComment, Present
<1>6. Keeps(comments, comments')
  BY <1>2, <1>5 DEF Keeps, NoComment
<1>7. req' \in [Request -> RequestRow] /\ RequestsOK'
  BY <1>6, IdleOK, RequestStep DEF DestroyCommit, Done
<1>8. ThreadsOK'
  <2> SUFFICES ASSUME NEW c \in Comment, comments'[c].state \in Present
               PROVE  ThreadOK(c)'
    BY DEF ThreadsOK
  <2>1. c \notin gone /\ comments'[c] = comments[c] /\ ThreadOK(c)
    BY <1>5 DEF IInv, ThreadsOK
  <2>2. comments[c].post \in Post \ {p}
    BY <1>5, <2>1 DEF ThreadOK, Cascade
  <2>3. comments[c].parent # None =>
          comments[c].parent \in Comment /\ comments[c].parent \notin gone
    BY <1>0, <2>1, <2>2 DEF CommentRow, ThreadOK, Cascade
  <2>4. QED
    BY <1>1, <1>2, <2>1, <2>2, <2>3 DEF ThreadOK
<1>9. Numbered'
  BY <1>2 DEF IInv, Numbered, NoComment, Cascade, Present
<1>10. LikesOK' /\ PostLikes' /\ likes' \subseteq LikeRow
  <2>1. likes' \subseteq likes
    BY DEF DestroyCommit
  <2>2. ASSUME NEW l \in likes'
        PROVE  Likeable(l.post, l.comment)'
    <3>1. l.post # p /\ l.comment \notin gone /\ l \in likes
      BY DEF DestroyCommit
    <3>2. Likeable(l.post, l.comment) /\ l.comment \in Comment \cup {None}
          /\ (l.comment = None => l.post \in Post)
      BY <3>1 DEF IInv, LikesOK, TablesOK, LikeRow, PostLikes
    <3>3. QED
      BY <1>1, <1>2, <3>1, <3>2 DEF Likeable
  <2>3. QED
    BY <2>1, <2>2 DEF LikesOK, PostLikes, IInv, TablesOK
<1>11. QED
  BY <1>3, <1>4, <1>7, <1>8, <1>9, <1>10 DEF IInv, TablesOK

(* add_comment: the foreign keys find the topic and the parent there.      *)
LEMMA CommentOK ==
  ASSUME IInv, NEW r \in Request, CommentCommit(r)
  PROVE  IInv'
<1> DEFINE me == req[r]
           row == [NoComment EXCEPT !.state = "alive", !.post = me.post,
                                    !.parent = me.parent, !.author = me.actor]
<1>0. /\ me \in RequestRow /\ Loaded(me, comments) /\ me.pc = "comment"
      /\ comments \in [Comment -> CommentRow]
  BY DEF IInv, TablesOK, RequestsOK, CommentCommit
<1>1. PICK c \in Comment : NextComment(c) /\ comments' = [comments EXCEPT ![c] = row]
  BY DEF CommentCommit
<1>2. row \in CommentRow /\ HiderKept(row)
  BY <1>0 DEF NoComment, CommentRow, RequestRow, States, HiderKept
<1>3. \A d \in Comment : comments'[d] = IF d = c THEN row ELSE comments[d]
  BY <1>0, <1>1
<1>4. comments[c].state = "none"
  BY <1>1 DEF NextComment
<1>5. Keeps(comments, comments')
  BY <1>3, <1>4 DEF Keeps, Present
<1>6. req' \in [Request -> RequestRow] /\ RequestsOK'
  BY <1>5, IdleOK, RequestStep DEF CommentCommit, Done
<1>7. comments' \in [Comment -> CommentRow] /\ \A d \in Comment : HiderKept(comments'[d])
  BY <1>0, <1>1, <1>2, <1>3 DEF IInv, TablesOK, HiderKept
<1>8. UNCHANGED <<posts, likes>> /\ CommentAllowed(me)
  BY DEF CommentCommit
<1>9. ThreadsOK'
  <2> SUFFICES ASSUME NEW d \in Comment, comments'[d].state \in Present
               PROVE  ThreadOK(d)'
    BY DEF ThreadsOK
  <2>1. CASE d = c
    <3>1. comments'[d].post = me.post /\ comments'[d].parent = me.parent /\ me.post \in Post
      BY <1>0, <1>3, <2>1 DEF NoComment, Loaded, OnPost
    <3>2. me.parent \in Comment \cup {None}
      BY <1>0 DEF RequestRow
    <3>3. me.parent # None => comments[me.parent].state \in Present
                              /\ comments[me.parent].post = me.post /\ me.parent # c
      BY <1>0, <1>4, <1>8 DEF CommentAllowed, Loaded, Present
    <3>4. me.parent # None => me.parent < c
      BY <1>4, <3>2, <3>3 DEF IInv, Numbered, Comment, Present
    <3>5. QED
      BY <1>3, <1>8, <2>1, <3>1, <3>2, <3>3, <3>4 DEF ThreadOK, CommentAllowed
  <2>2. CASE d # c
    <3>1. comments'[d] = comments[d] /\ ThreadOK(d)
      BY <1>3, <2>2 DEF IInv, ThreadsOK
    <3>2. comments[d].parent # None => comments[d].parent \in Comment /\ comments[d].parent # c
      BY <1>0, <1>4, <3>1 DEF CommentRow, ThreadOK, Present
    <3>3. QED
      BY <1>3, <1>8, <3>1, <3>2 DEF ThreadOK
  <2>3. QED
    BY <2>1, <2>2
<1>10. Numbered'
  <2> SUFFICES ASSUME NEW d \in Comment, NEW e \in Comment, e < d, comments'[d].state # "none"
               PROVE  comments'[e].state # "none"
    BY DEF Numbered
  <2>1. row.state = "alive"
    BY DEF NoComment
  <2>2. CASE d = c
    BY <1>1, <1>3, <2>1, <2>2 DEF NextComment, Comment
  <2>3. CASE d # c
    BY <1>3, <2>1, <2>3 DEF IInv, Numbered
  <2>4. QED
    BY <2>2, <2>3
<1>11. LikesOK'
  <2> SUFFICES ASSUME NEW l \in likes PROVE Likeable(l.post, l.comment)'
    BY <1>8 DEF LikesOK
  <2>1. Likeable(l.post, l.comment) /\ l.comment \in Comment \cup {None}
    BY DEF IInv, LikesOK, TablesOK, LikeRow
  <2>2. QED
    BY <1>3, <1>4, <1>8, <2>1 DEF Likeable, Present
<1>12. QED
  BY <1>6, <1>7, <1>8, <1>9, <1>10, <1>11 DEF IInv, TablesOK, HiderKept, PostLikes

(* destroy_comment: the replies move to where it stood.                    *)
LEMMA ReplyDestroyOK ==
  ASSUME IInv, NEW r \in Request, ReplyDestroyCommit(r)
  PROVE  IInv'
<1> DEFINE me == req[r]
           c == me.comment
<1>0. /\ me \in RequestRow /\ Loaded(me, comments) /\ me.pc = "reply_delete"
      /\ comments \in [Comment -> CommentRow]
  BY DEF IInv, TablesOK, RequestsOK, ReplyDestroyCommit
<1>1. /\ c \in Comment /\ comments[c].state # "none"
      /\ me.parent \in Comment \cup {None} /\ me.kids \subseteq Comment
      /\ \A k \in me.kids : /\ comments[k].state \in Present
                            /\ me.parent # None => MayReply(k, me.parent, comments)
  BY <1>0 DEF Loaded, OnComment, RequestRow, ReplyDestroyCommit
<1>2. \A k \in Comment : comments'[k] =
        IF k = c THEN [NoComment EXCEPT !.state = "destroyed"]
        ELSE IF comments[k].state \in Present THEN Moved(k, me) ELSE comments[k]
  BY DEF ReplyDestroyCommit
<1>3. \A k \in Comment :
        Moved(k, me) = [comments[k] EXCEPT !.parent =
          IF k \in me.kids THEN me.parent
          ELSE IF comments[k].parent = c THEN None ELSE comments[k].parent]
  BY DEF Moved
<1>4. \A k \in Comment :
        /\ Moved(k, me) \in CommentRow
        /\ Moved(k, me).state = comments[k].state /\ Moved(k, me).post = comments[k].post
        /\ Moved(k, me).hider = comments[k].hider
        /\ Moved(k, me).parent = IF k \in me.kids THEN me.parent
                                 ELSE IF comments[k].parent = c THEN None
                                 ELSE comments[k].parent
  <2> SUFFICES ASSUME NEW k \in Comment
               PROVE  /\ Moved(k, me) \in CommentRow
                      /\ Moved(k, me).state = comments[k].state
                      /\ Moved(k, me).post = comments[k].post
                      /\ Moved(k, me).hider = comments[k].hider
                      /\ Moved(k, me).parent = IF k \in me.kids THEN me.parent
                                               ELSE IF comments[k].parent = c THEN None
                                               ELSE comments[k].parent
    OBVIOUS
  <2> DEFINE to == IF k \in me.kids THEN me.parent
                   ELSE IF comments[k].parent = c THEN None ELSE comments[k].parent
  <2>1. comments[k] \in CommentRow
    BY <1>0
  <2>2. to \in Comment \cup {None}
    BY <1>1, <2>1 DEF CommentRow
  <2>3. Moved(k, me) = [comments[k] EXCEPT !.parent = to]
    BY <1>3
  <2> HIDE DEF to
  <2>4. /\ Moved(k, me) \in CommentRow /\ Moved(k, me).parent = to
        /\ Moved(k, me).state = comments[k].state /\ Moved(k, me).post = comments[k].post
        /\ Moved(k, me).hider = comments[k].hider
    BY <2>1, <2>2, <2>3 DEF CommentRow
  <2>5. QED
    BY <2>4 DEF to
<1>5. [NoComment EXCEPT !.state = "destroyed"] \in CommentRow
      /\ [NoComment EXCEPT !.state = "destroyed"].state = "destroyed"
      /\ [NoComment EXCEPT !.state = "destroyed"].hider = None
  BY DEF NoComment, CommentRow, States
<1>6. comments' \in [Comment -> CommentRow]
  <2>1. ASSUME NEW k \in Comment
        PROVE  comments'[k] \in CommentRow
    BY <1>0, <1>2, <1>4, <1>5
  <2>2. \E f : comments' = [k \in Comment |-> f[k]]
    BY DEF ReplyDestroyCommit
  <2>3. QED
    BY <2>1, <2>2
<1>7. \A k \in Comment : HiderKept(comments'[k])
  <2> SUFFICES ASSUME NEW k \in Comment PROVE HiderKept(comments'[k])
    OBVIOUS
  <2>1. HiderKept(comments[k])
    BY DEF IInv, TablesOK
  <2>2. QED
    BY <1>2, <1>4, <1>5, <2>1 DEF HiderKept
<1>8. \A k \in Comment : comments'[k].state \in Present =>
        k # c /\ comments[k].state \in Present /\ comments'[k] = Moved(k, me)
  BY <1>2, <1>5 DEF Present
<1>9. \A k \in Comment :
        /\ comments'[k].state \in Present => comments'[k].post = comments[k].post
        /\ comments[k].state # "none" <=> comments'[k].state # "none"
        /\ k # c => comments'[k].state = comments[k].state
  BY <1>1, <1>2, <1>4, <1>5, <1>8
<1>10. Keeps(comments, comments')
  BY <1>8, <1>9 DEF Keeps
<1>11. req' \in [Request -> RequestRow] /\ RequestsOK'
  BY <1>10, IdleOK, RequestStep DEF ReplyDestroyCommit, Done
<1>12. ThreadsOK'
  <2> SUFFICES ASSUME NEW k \in Comment, comments'[k].state \in Present
               PROVE  ThreadOK(k)'
    BY DEF ThreadsOK
  <2>1. k # c /\ comments[k].state \in Present /\ comments'[k] = Moved(k, me) /\ ThreadOK(k)
    BY <1>8 DEF IInv, ThreadsOK
  <2>2. posts' = posts
    BY DEF ReplyDestroyCommit
  <2>3. ASSUME NEW d \in Comment, d < k, d # c, comments[d].state \in Present,
               comments[d].post = comments[k].post
        PROVE  comments'[d].state \in Present /\ comments'[d].post = comments'[k].post
    BY <1>9, <2>1, <2>3
  <2>4. CASE k \in me.kids
    <3>1. comments'[k].parent = me.parent /\ comments'[k].post = comments[k].post
      BY <1>4, <2>1, <2>4
    <3>2. me.parent # None =>
            /\ me.parent \in Comment /\ comments[me.parent].state \in Present
            /\ me.parent < k /\ comments[me.parent].post = comments[k].post
            /\ me.parent # c
      BY <1>0, <1>1, <2>1, <2>4 DEF ReplyDestroyCommit, MayReply, Loaded, Comment
    <3>3. QED
      BY <2>1, <2>2, <2>3, <3>1, <3>2 DEF ThreadOK
  <2>5. CASE k \notin me.kids
    <3>1. /\ comments'[k].post = comments[k].post
          /\ comments'[k].parent # None => /\ comments'[k].parent = comments[k].parent
                                           /\ comments[k].parent # c
      BY <1>4, <2>1, <2>5
    <3>2. comments[k].parent # None => comments[k].parent \in Comment
      BY <1>0 DEF CommentRow
    <3>3. QED
      BY <2>1, <2>2, <2>3, <3>1, <3>2 DEF ThreadOK
  <2>6. QED
    BY <2>4, <2>5
<1>13. Numbered'
  BY <1>9 DEF IInv, Numbered
<1>14. LikesOK' /\ PostLikes' /\ likes' \subseteq LikeRow /\ posts' = posts
  <2>1. likes' = {l \in likes : l.comment # c} /\ posts' = posts
    BY DEF ReplyDestroyCommit
  <2>2. ASSUME NEW l \in likes'
        PROVE  Likeable(l.post, l.comment)'
    <3>1. l \in likes /\ l.comment # c
      BY <2>1
    <3>2. Likeable(l.post, l.comment) /\ l.comment \in Comment \cup {None}
      BY <3>1 DEF IInv, LikesOK, TablesOK, LikeRow
    <3>3. QED
      BY <1>9, <2>1, <3>1, <3>2 DEF Likeable
  <2>3. QED
    BY <2>1, <2>2 DEF LikesOK, PostLikes, IInv, TablesOK
<1>15. QED
  BY <1>6, <1>7, <1>11, <1>12, <1>13, <1>14 DEF IInv, TablesOK, HiderKept

(* Requests that have read go on to read more or to commit.                *)
LEMMA StepOK ==
  ASSUME IInv, NEW r \in Request, Step(r)
  PROVE  IInv'
<1> DEFINE me == req[r]
<1> USE DEF Done, Goto
<1>0. /\ me \in RequestRow /\ Loaded(me, comments)
      /\ posts \in [Post -> PostRow] /\ comments \in [Comment -> CommentRow]
      /\ req \in [Request -> RequestRow]
  BY DEF IInv, TablesOK, RequestsOK
<1>1. CASE CreateCommit(r)
  <2>1. PICK p \in Post :
          posts' = [posts EXCEPT ![p] = [NoPost EXCEPT !.state = "alive",
                                           !.slug = me.slug, !.author = me.actor]]
    BY <1>1 DEF CreateCommit
  <2> DEFINE row == [NoPost EXCEPT !.state = "alive", !.slug = me.slug, !.author = me.actor]
  <2>2. row \in PostRow /\ HiderKept(row) /\ row.state \in Present
    BY <1>0 DEF NoPost, PostRow, RequestRow, States, HiderKept, Present
  <2>3. QED
    BY <1>1, <2>1, <2>2, IdleOK, PostStep DEF CreateCommit
<1>2. CASE ViewCommit(r)
  <2> DEFINE p == me.post
             row == [posts[p] EXCEPT !.views = me.views + 1, !.opened = @ + 1]
  <2>1. p \in Post /\ posts[p].state \in Present
    BY <1>0, <1>2 DEF ViewCommit, Loaded, OnPost
  <2>2. row \in PostRow /\ HiderKept(row) /\ row.state \in Present
    <3>1. posts[p] \in PostRow /\ HiderKept(posts[p]) /\ me.views + 1 \in Nat
          /\ posts[p].opened + 1 \in Nat
      BY <1>0, <2>1 DEF PostRow, RequestRow, IInv, TablesOK
    <3>2. row \in PostRow /\ row.state = posts[p].state /\ row.hider = posts[p].hider
      BY <3>1 DEF PostRow
    <3>3. QED
      BY <2>1, <3>1, <3>2 DEF HiderKept
  <2>3. posts' = [posts EXCEPT ![p] = row]
    BY <1>0, <1>2, <2>1 DEF ViewCommit, Counted
  <2>4. QED
    BY <1>2, <2>1, <2>2, <2>3, IdleOK, PostStep DEF ViewCommit
<1>3. CASE HideCommit(r)
  <2> DEFINE p == me.post
             row == Hidden(posts[p], me.actor)
  <2>1. p \in Post /\ posts[p].state \in Present /\ me.actor \in User
    BY <1>0, <1>3 DEF HideCommit, Loaded, OnPost
  <2>2. row \in PostRow /\ HiderKept(row) /\ row.state \in Present
    BY <1>0, <2>1, HiddenPost
  <2>3. posts' = [posts EXCEPT ![p] = row]
    BY <1>3 DEF HideCommit
  <2>4. QED
    BY <1>3, <2>1, <2>2, <2>3, IdleOK, PostStep DEF HideCommit
<1>4. CASE RestoreCommit(r)
  <2> DEFINE p == me.post
             row == Restored(posts[p], me.actor)
             x == [me EXCEPT !.pc = "reopen", !.open = TRUE]
  <2>1. p \in Post /\ posts[p].state \in Present /\ me.actor \in User
    BY <1>0, <1>4 DEF RestoreCommit, Loaded, OnPost
  <2>2. row \in PostRow /\ HiderKept(row) /\ row.state \in Present
    BY <1>0, <2>1, RestoredPost
  <2>3. posts' = [posts EXCEPT ![p] = row]
    BY <1>4 DEF RestoreCommit
  <2>4. x \in RequestRow /\ Loaded(x, comments)
    BY <1>0, <2>1 DEF RequestRow, PC, Loaded, OnPost, OnComment
  <2>5. req' = [req EXCEPT ![r] = x]
    BY <1>0, <1>4 DEF RestoreCommit
  <2>6. QED
    BY <1>4, <2>1, <2>2, <2>3, <2>4, <2>5, PostStep DEF RestoreCommit
<1>5. CASE Reopen(r)
  <2>1. CASE req' = [req EXCEPT ![r] = Idle]
    BY <1>5, <2>1, IdleOK, ReadStep DEF Reopen
  <2>2. CASE req' = [req EXCEPT ![r].pc = "view"]
    <3> DEFINE x == [me EXCEPT !.pc = "view"]
    <3>1. x \in RequestRow /\ Loaded(x, comments)
      BY <1>0, <1>5 DEF Reopen, RequestRow, PC, Loaded, OnPost, OnComment
    <3>2. req' = [req EXCEPT ![r] = x]
      BY <1>0, <2>2
    <3>3. QED
      BY <1>5, <3>1, <3>2, ReadStep DEF Reopen
  <2>3. QED
    BY <1>5, <2>1, <2>2 DEF Reopen
<1>6. CASE DestroyCommit(r)
  BY <1>6, DestroyOK
<1>7. CASE CommentCommit(r)
  BY <1>7, CommentOK
<1>8. CASE ReplyHideCommit(r)
  <2> DEFINE c == me.comment
             row == Hidden(comments[c], me.actor)
  <2>1. c \in Comment /\ comments[c].state \in Present /\ me.actor \in User
    BY <1>0, <1>8 DEF ReplyHideCommit, Loaded, OnComment
  <2>2. row \in CommentRow /\ HiderKept(row) /\ row.state \in Present
        /\ row.post = comments[c].post /\ row.parent = comments[c].parent
    BY <1>0, <2>1, HiddenComment
  <2>3. comments' = [comments EXCEPT ![c] = row]
    BY <1>8 DEF ReplyHideCommit
  <2>4. comments[c].state # "none"
    BY <2>1 DEF Present
  <2>5. QED
    BY <1>8, <2>1, <2>2, <2>3, <2>4, IdleOK, CommentStep DEF ReplyHideCommit
<1>9. CASE ReplyRestoreCommit(r)
  <2> DEFINE c == me.comment
             row == Restored(comments[c], me.actor)
             x == [me EXCEPT !.pc = "reopen"]
  <2>1. c \in Comment /\ comments[c].state \in Present /\ me.actor \in User /\ me.post \in Post
    BY <1>0, <1>9 DEF ReplyRestoreCommit, Loaded, OnComment, OnPost
  <2>2. row \in CommentRow /\ HiderKept(row) /\ row.state \in Present
        /\ row.post = comments[c].post /\ row.parent = comments[c].parent
    BY <1>0, <2>1, RestoredComment
  <2>3. comments' = [comments EXCEPT ![c] = row]
    BY <1>9 DEF ReplyRestoreCommit
  <2>4. comments[c].state # "none"
    BY <2>1 DEF Present
  <2>5. x \in RequestRow /\ Loaded(x, comments')
    BY <1>0, <2>1 DEF RequestRow, PC, Loaded, OnPost, OnComment
  <2>6. req' = [req EXCEPT ![r] = x]
    BY <1>0, <1>9 DEF ReplyRestoreCommit
  <2>7. QED
    BY <1>9, <2>1, <2>2, <2>3, <2>4, <2>5, <2>6, CommentStep DEF ReplyRestoreCommit
<1>10. CASE ReplyDestroyKids(r)
  <2> DEFINE K == {k \in Comment : comments[k].state \in Present
                                     /\ comments[k].parent = me.comment}
             x == [me EXCEPT !.pc = "reply_delete", !.kids = K]
  <2>1. x \in RequestRow
    BY <1>0 DEF RequestRow, PC
  <2>2. /\ me.pc = "reply_destroy" /\ me.comment \in Comment /\ me.actor \in User
        /\ comments[me.comment].state # "none"
        /\ me.parent # None => MayReply(me.comment, me.parent, comments)
    BY <1>0, <1>10 DEF ReplyDestroyKids, Loaded, OnComment
  <2>3. ASSUME NEW k \in K
        PROVE  /\ MayReply(k, me.comment, comments)
               /\ me.parent # None => MayReply(k, me.parent, comments)
    <3>1. k \in Comment /\ ThreadOK(k) /\ comments[k].parent # None
      BY <2>2, NoneApart DEF IInv, ThreadsOK
    <3>2. /\ me.comment < k /\ comments[me.comment].state \in Present
          /\ comments[me.comment].post = comments[k].post /\ comments[k].state \in Present
      BY <3>1 DEF ThreadOK
    <3>3. me.parent \in Comment \cup {None} /\ me.comment \in Int /\ k \in Int
      BY <1>0, <2>2, <3>1 DEF RequestRow, Comment
    <3>4. me.parent # None => me.parent \in Int
      BY <3>3 DEF Comment
    <3>5. QED
      BY <2>2, <3>2, <3>3, <3>4 DEF MayReply, Present
  <2>4. Loaded(x, comments)
    BY <1>0, <2>2, <2>3 DEF RequestRow, Loaded, OnPost, OnComment
  <2>5. req' = [req EXCEPT ![r] = x]
    BY <1>0, <1>10 DEF ReplyDestroyKids
  <2>6. QED
    BY <1>10, <2>1, <2>4, <2>5, ReadStep DEF ReplyDestroyKids
<1>11. CASE ReplyDestroyCommit(r)
  BY <1>11, ReplyDestroyOK
<1>12. CASE LikeCommit(r)
  <2>1. LikeOf(me) \in LikeRow
    BY <1>0, <1>12 DEF LikeCommit, LikeOf, LikeRow, RequestRow, Loaded
  <2>2. me.comment = None => me.post \in Post
    BY <1>0, <1>12 DEF LikeCommit, Loaded
  <2>3. likes' = likes \cup {LikeOf(me)} /\ Likeable(me.post, me.comment)
    BY <1>12 DEF LikeCommit
  <2>4. ASSUME NEW l \in likes'
        PROVE  Likeable(l.post, l.comment) /\ (l.comment = None => l.post \in Post)
    BY <2>2, <2>3 DEF IInv, LikesOK, PostLikes, LikeOf
  <2>5. likes' \subseteq LikeRow
    BY <2>1, <2>3 DEF IInv, TablesOK
  <2>6. QED
    BY <1>12, <2>4, <2>5, LikeStep DEF LikeCommit
<1>13. CASE UnlikeCommit(r)
  <2>1. likes' \subseteq likes
    BY <1>13 DEF UnlikeCommit
  <2>2. QED
    BY <1>13, <2>1, LikeStep DEF UnlikeCommit, IInv, TablesOK, LikesOK, PostLikes
<1>14. CASE Abort(r)
  BY <1>14, IdleOK, ReadStep DEF Abort
<1>15. QED
  BY <1>1, <1>2, <1>3, <1>4, <1>5, <1>6, <1>7, <1>8, <1>9, <1>10, <1>11, <1>12, <1>13,
     <1>14 DEF Step

-----------------------------------------------------------------------------
LEMMA NextOK == IInv /\ [Next]_vars => IInv'
<1> SUFFICES ASSUME IInv, [Next]_vars PROVE IInv'
  OBVIOUS
<1>1. CASE UNCHANGED vars
  BY <1>1 DEF vars, IInv, TablesOK, HiderKept, ThreadsOK, ThreadOK, Numbered, RequestsOK,
              LikesOK, Likeable, PostLikes
<1>2. CASE Next
  BY <1>2, BeginOK, StepOK DEF Next, Act
<1>3. QED
  BY <1>1, <1>2

LEMMA Invariant == Spec => []IInv
BY InitOK, NextOK, PTL DEF Spec

LEMMA CrossedBoolean == Spec => [](crossed \in BOOLEAN)
<1>1. Init => crossed \in BOOLEAN
  BY DEF Init
<1>2. crossed \in BOOLEAN /\ [Next]_vars => (crossed \in BOOLEAN)'
  BY DEF Next, Crossing, vars
<1>3. QED
  BY <1>1, <1>2, PTL DEF Spec

(* Every row and every request keeps its type, and what is hidden says by  *)
(* whom.                                                                   *)
THEOREM TypeCorrect == Spec => []TypeOK
<1>1. IInv /\ crossed \in BOOLEAN => TypeOK
  BY DEF IInv, TypeOK
<1>2. QED
  BY <1>1, Invariant, CrossedBoolean, PTL

(* Whatever is hidden, destroyed and moved up while replies are written,   *)
(* each comment replies to an older one of its topic that is still there.  *)
THEOREM ThreadsKept == Spec => []ThreadsOK
<1>1. IInv => ThreadsOK
  BY DEF IInv
<1>2. QED
  BY <1>1, Invariant, PTL

(* No like outlives the topic or the comment it is of.                     *)
THEOREM LikesKept == Spec => []LikesOK
<1>1. IInv => LikesOK
  BY DEF IInv
<1>2. QED
  BY <1>1, Invariant, PTL

(* A reply to c is below c.                                                *)
LEMMA ReplyBelow ==
  ASSUME NEW c \in Comment, NEW k \in Comment,
         comments[k].state \in Present, comments[k].parent = c
  PROVE  k \in Below(c)
BY DEF Below, Replies

(* What is below a reply to c is below c.                                  *)
LEMMA BelowBelow ==
  ASSUME NEW c \in Comment, NEW k \in Comment, NEW d \in Below(k),
         comments[k].state \in Present, comments[k].parent = c
  PROVE  d \in Below(c)
<1>1. d \in Comment
  BY DEF Below
<1>2. ASSUME NEW S \in SUBSET Comment, Replies(S \cup {c}) \subseteq S
      PROVE  d \in S
  <2>1. k \in S
    BY <1>2 DEF Replies
  <2>2. Replies(S \cup {k}) \subseteq S
    BY <1>2, <2>1 DEF Replies
  <2>3. QED
    BY <2>2 DEF Below
<1>3. QED
  BY <1>1, <1>2 DEF Below

(* What a page shows of a thread is closed upwards.                        *)
LEMMA PlaquesReach == IInv => VisibleClosed
<1> SUFFICES ASSUME IInv, NEW k \in Comment, comments[k].state \in Present,
                    Visible(k), comments[k].parent # None
             PROVE  Visible(comments[k].parent)
  BY DEF VisibleClosed
<1> DEFINE c == comments[k].parent
<1>1. c \in Comment /\ comments[c].state \in Present
  BY DEF IInv, TablesOK, CommentRow, ThreadsOK, ThreadOK
<1>2. \E d \in Below(c) : comments[d].state = "alive"
  <2>1. CASE comments[k].state = "alive"
    BY <1>1, <2>1, ReplyBelow
  <2>2. CASE comments[k].state = "hidden"
    <3>1. PICK d \in Below(k) : comments[d].state = "alive"
      BY <2>2 DEF Visible
    <3>2. d \in Below(c)
      BY <1>1, <3>1, BelowBelow
    <3>3. QED
      BY <3>1, <3>2
  <2>3. QED
    BY <2>1, <2>2 DEF Present
<1>3. QED
  BY <1>1, <1>2 DEF Visible, Present

(* A page never shows a reply without the comment it replies to.           *)
THEOREM NothingShownAlone == Spec => []VisibleClosed
BY PlaquesReach, Invariant, PTL

(* Threads are trees, nothing replies to, or likes, what has gone, and no  *)
(* page shows a reply without the comment it replies to.                   *)
THEOREM NothingLeftDangling == Spec => []NothingDangles
<1>1. ThreadsOK /\ LikesOK /\ VisibleClosed => NothingDangles
  BY DEF NothingDangles
<1>2. QED
  BY <1>1, ThreadsKept, LikesKept, NothingShownAlone, PTL
-----------------------------------------------------------------------------
(* Which steps write comments.                                             *)
LEMMA CommentWrites ==
  ASSUME IInv, Act
  PROVE  \/ comments' = comments
         \/ \E r \in Request :
              \/ DestroyCommit(r) \/ CommentCommit(r) \/ ReplyHideCommit(r)
              \/ ReplyRestoreCommit(r) \/ ReplyDestroyCommit(r)
<1>1. ASSUME NEW r \in Request, NEW u \in User, Begin(r, u)
      PROVE  comments' = comments
  BY <1>1 DEF Begin, CreateRead, ViewRead, HideRead, RestoreRead, DestroyRead, CommentRead,
              LikeRead, ReplyHideRead, ReplyRestoreRead, ReplyDestroyRead
<1>2. ASSUME NEW r \in Request, Step(r)
      PROVE  \/ comments' = comments
             \/ DestroyCommit(r) \/ CommentCommit(r) \/ ReplyHideCommit(r)
             \/ ReplyRestoreCommit(r) \/ ReplyDestroyCommit(r)
  BY <1>2 DEF Step, CreateCommit, ViewCommit, HideCommit, RestoreCommit, Reopen,
              ReplyDestroyKids, LikeCommit, UnlikeCommit, Abort
<1>3. QED
  BY <1>1, <1>2 DEF Act

(* What a commit of destroy_comment makes of the comments.                 *)
LEMMA Moves ==
  ASSUME IInv, NEW r \in Request, ReplyDestroyCommit(r), NEW k \in Comment
  PROVE  /\ k = req[r].comment =>
              comments'[k].state = "destroyed" /\ comments'[k].staffhid = FALSE
         /\ k # req[r].comment => comments'[k].state = comments[k].state
                                  /\ comments'[k].hider = comments[k].hider
                                  /\ comments'[k].staffhid = comments[k].staffhid
         /\ k # req[r].comment /\ comments[k].state \in Present =>
              comments'[k].parent = IF k \in req[r].kids THEN req[r].parent
                                    ELSE IF comments[k].parent = req[r].comment THEN None
                                    ELSE comments[k].parent
<1> DEFINE me == req[r]
           to == IF k \in me.kids THEN me.parent
                 ELSE IF comments[k].parent = me.comment THEN None ELSE comments[k].parent
<1>1. comments[k] \in CommentRow
  BY DEF IInv, TablesOK
<1>2. comments'[k] =
        IF k = me.comment THEN [NoComment EXCEPT !.state = "destroyed"]
        ELSE IF comments[k].state \in Present THEN Moved(k, me) ELSE comments[k]
  BY DEF ReplyDestroyCommit
<1>3. Moved(k, me) = [comments[k] EXCEPT !.parent = to]
  BY DEF Moved
<1>4. /\ Moved(k, me).parent = to /\ Moved(k, me).state = comments[k].state
      /\ Moved(k, me).hider = comments[k].hider
      /\ Moved(k, me).staffhid = comments[k].staffhid
  <2> HIDE DEF to
  <2>1. QED
    BY <1>1, <1>3 DEF CommentRow
<1>5. /\ [NoComment EXCEPT !.state = "destroyed"].state = "destroyed"
      /\ [NoComment EXCEPT !.state = "destroyed"].staffhid = FALSE
  BY DEF NoComment
<1>6. QED
  BY <1>2, <1>4, <1>5

(* What a commit of destroy_post makes of the comments.                    *)
LEMMA Cascades ==
  ASSUME IInv, NEW r \in Request, DestroyCommit(r), NEW k \in Comment
  PROVE  IF k \in Cascade(req[r].post)
         THEN comments'[k].state = "destroyed" /\ comments'[k].staffhid = FALSE
         ELSE comments'[k] = comments[k]
BY DEF DestroyCommit, NoComment

(* A hiding or a restoring of a comment destroys nothing, nor does a write *)
(* of a new one.                                                           *)
LEMMA OnlyTheseDestroy ==
  ASSUME IInv, Act, NEW c \in Comment,
         comments[c].state # "destroyed", comments'[c].state = "destroyed"
  PROVE  \E r \in Request : DestroyCommit(r) \/ ReplyDestroyCommit(r)
<1>1. comments' # comments
  OBVIOUS
<1>2. PICK r \in Request : \/ DestroyCommit(r) \/ CommentCommit(r) \/ ReplyHideCommit(r)
                           \/ ReplyRestoreCommit(r) \/ ReplyDestroyCommit(r)
  BY <1>1, CommentWrites
<1>0. /\ req[r] \in RequestRow /\ Loaded(req[r], comments)
      /\ comments \in [Comment -> CommentRow]
  BY DEF IInv, TablesOK, RequestsOK
<1>3. ASSUME CommentCommit(r) PROVE FALSE
  <2> DEFINE row == [NoComment EXCEPT !.state = "alive", !.post = req[r].post,
                                      !.parent = req[r].parent, !.author = req[r].actor]
  <2>1. PICK d \in Comment : comments' = [comments EXCEPT ![d] = row]
    BY <1>3 DEF CommentCommit
  <2>2. row.state = "alive"
    BY DEF NoComment
  <2>3. QED
    BY <1>0, <2>1, <2>2
<1>4. ASSUME ReplyHideCommit(r) PROVE FALSE
  <2> DEFINE d == req[r].comment
  <2>1. d \in Comment /\ req[r].actor \in User
    BY <1>0, <1>4 DEF ReplyHideCommit, Loaded, OnComment
  <2>2. Hidden(comments[d], req[r].actor).state \in Present
    BY <1>0, <2>1, HiddenComment
  <2>3. comments' = [comments EXCEPT ![d] = Hidden(comments[d], req[r].actor)]
    BY <1>4 DEF ReplyHideCommit
  <2>4. QED
    BY <1>0, <2>1, <2>2, <2>3 DEF Present
<1>5. ASSUME ReplyRestoreCommit(r) PROVE FALSE
  <2> DEFINE d == req[r].comment
  <2>1. d \in Comment /\ req[r].actor \in User
    BY <1>0, <1>5 DEF ReplyRestoreCommit, Loaded, OnComment
  <2>2. Restored(comments[d], req[r].actor).state \in Present
    BY <1>0, <2>1, RestoredComment
  <2>3. comments' = [comments EXCEPT ![d] = Restored(comments[d], req[r].actor)]
    BY <1>5 DEF ReplyRestoreCommit
  <2>4. QED
    BY <1>0, <2>1, <2>2, <2>3 DEF Present
<1>6. QED
  BY <1>2, <1>3, <1>4, <1>5

(* No reply is lost, however many requests are in progress.                *)
LEMMA RepliesStep ==
  ASSUME IInv, Act
  PROVE  RepliesKept
<1> SUFFICES ASSUME NEW c \in Comment, NEW k \in Comment,
                    comments[c].state \in Present, comments'[c].state = "destroyed",
                    comments[k].state \in Present, comments[k].parent = c,
                    posts'[comments[k].post].state \in Present
             PROVE  /\ comments'[k].state = comments[k].state
                    /\ \/ comments'[k].parent = None
                       \/ \E r \in Request :
                            req[r].comment = c /\ comments'[k].parent = req[r].parent
  BY DEF RepliesKept
<1>1. c < k /\ comments[c].post = comments[k].post /\ comments[k].post \in Post /\ c # k
  <2>1. ThreadOK(k) /\ c # None
    BY NoneApart DEF IInv, ThreadsOK
  <2>2. QED
    BY <2>1 DEF ThreadOK, Comment
<1>2. PICK r \in Request : DestroyCommit(r) \/ ReplyDestroyCommit(r)
  BY OnlyTheseDestroy DEF Present
<1>3. ASSUME DestroyCommit(r) PROVE FALSE
  <2> DEFINE p == req[r].post
  <2>1. p \in Post /\ posts \in [Post -> PostRow]
    BY <1>3 DEF DestroyCommit, IInv, TablesOK, RequestsOK, Loaded, OnPost
  <2>2. c \in Cascade(p)
    BY <1>3, Cascades DEF Present
  <2>3. comments[k].post = p
    BY <1>1, <2>2 DEF Cascade
  <2>4. posts'[p].state = "destroyed"
    BY <1>3, <2>1 DEF DestroyCommit, NoPost
  <2>5. QED
    BY <2>3, <2>4 DEF Present
<1>4. ASSUME ReplyDestroyCommit(r)
      PROVE  /\ comments'[k].state = comments[k].state
             /\ \/ comments'[k].parent = None
                \/ req[r].comment = c /\ comments'[k].parent = req[r].parent
  <2>1. req[r].comment = c
    BY <1>4, Moves DEF Present
  <2>2. QED
    BY <1>1, <1>4, <2>1, Moves
<1>5. QED
  BY <1>2, <1>3, <1>4

(* Destroying a comment loses no reply to it, also not one written while   *)
(* it is destroyed, however many requests are in progress.                 *)
THEOREM NoReplyLost == Spec => [][RepliesKept]_vars
<1>1. IInv /\ [Next]_vars => [RepliesKept]_vars
  BY RepliesStep DEF Next
<1>2. QED
  BY <1>1, Invariant, PTL DEF Spec
-----------------------------------------------------------------------------
(* As long as no two requests overlap.  What staff has hidden has a hider  *)
(* of the staff: that is why its author may not restore it.                *)
Handled(row) == row.staffhid => row.state = "hidden" /\ row.hider \in Staff
RowsKept(ps, cs) ==
  /\ \A p \in Post : Handled(ps[p]) /\ ps[p].views = ps[p].opened
  /\ \A c \in Comment : Handled(cs[c])

(* Nothing that a request has read or checked has changed since.           *)
Unanswered(rows, c) ==
  \A k \in Comment : ~(rows[k].state = "alive" /\ rows[k].parent = c)
NoLivingIn(rows, p) ==
  \A k \in Comment : ~(rows[k].state = "alive" /\ rows[k].post = p)
Timely(me, ps, cs) ==
  /\ me.pc \in {"view", "restore", "reopen", "reply_restore"} => me.views = ps[me.post].views
  /\ me.pc = "hide" =>
       /\ ps[me.post].state = "alive"
       /\ me.actor \notin Staff => ps[me.post].author = me.actor /\ NoLivingIn(cs, me.post)
  /\ me.pc = "restore" => ps[me.post].state = "hidden" /\ MayRestore(ps[me.post], me.actor)
  /\ me.pc = "destroy" => ps[me.post].state = "hidden"
  /\ me.pc = "reply_hide" =>
       /\ cs[me.comment].state = "alive"
       /\ me.actor \notin Staff =>
            cs[me.comment].author = me.actor /\ Unanswered(cs, me.comment)
  /\ me.pc = "reply_restore" =>
       cs[me.comment].state = "hidden" /\ MayRestore(cs[me.comment], me.actor)
  /\ me.pc \in {"reply_destroy", "reply_delete"} =>
       cs[me.comment].state = "hidden" /\ me.parent = cs[me.comment].parent
  /\ me.pc = "reply_delete" =>
       me.kids = {k \in Comment : cs[k].state \in Present /\ cs[k].parent = me.comment}

SerialInv ==
  ~crossed =>
    /\ RowsKept(posts, comments)
    /\ \A r \in Request : Timely(req[r], posts, comments)
    /\ \A q, r \in Request : q = r \/ req[q] = Idle \/ req[r] = Idle

LEMMA IdleTimely == \A ps, cs : Timely(Idle, ps, cs)
BY DEF Timely, Idle

LEMMA StaffHidesPost ==
  ASSUME NEW row \in PostRow, NEW u \in User, row.state = "alive", Handled(row)
  PROVE  LET new == Hidden(row, u) IN
         /\ Handled(new) /\ new.state = "hidden" /\ new.hider = u
         /\ new.views = row.views /\ new.opened = row.opened
<1> DEFINE b == row.staffhid \/ u \in Staff
<1>1. b \in BOOLEAN /\ (b => u \in Staff)
  BY DEF Handled
<1>2. Hidden(row, u) = [row EXCEPT !.state = "hidden", !.hider = u, !.staffhid = b]
  BY DEF Hidden
<1> HIDE DEF b
<1>3. QED
  BY <1>1, <1>2 DEF PostRow, Handled

LEMMA StaffHidesComment ==
  ASSUME NEW row \in CommentRow, NEW u \in User, row.state = "alive", Handled(row)
  PROVE  LET new == Hidden(row, u) IN
         Handled(new) /\ new.state = "hidden" /\ new.hider = u
<1> DEFINE b == row.staffhid \/ u \in Staff
<1>1. b \in BOOLEAN /\ (b => u \in Staff)
  BY DEF Handled
<1>2. Hidden(row, u) = [row EXCEPT !.state = "hidden", !.hider = u, !.staffhid = b]
  BY DEF Hidden
<1> HIDE DEF b
<1>3. QED
  BY <1>1, <1>2 DEF CommentRow, Handled

LEMMA StaffRestoresPost ==
  ASSUME NEW row \in PostRow, NEW u \in User, MayRestore(row, u), Handled(row)
  PROVE  LET new == Restored(row, u) IN
         /\ Handled(new) /\ new.state = "alive"
         /\ new.views = row.views /\ new.opened = row.opened
<1> DEFINE b == row.staffhid /\ u \notin Staff
<1>1. b = FALSE
  BY DEF Handled, MayRestore
<1>2. Restored(row, u) = [row EXCEPT !.state = "alive", !.hider = None, !.staffhid = b]
  BY DEF Restored
<1> HIDE DEF b
<1>3. QED
  BY <1>1, <1>2 DEF PostRow, Handled

LEMMA StaffRestoresComment ==
  ASSUME NEW row \in CommentRow, NEW u \in User, MayRestore(row, u), Handled(row)
  PROVE  LET new == Restored(row, u) IN Handled(new) /\ new.state = "alive"
<1> DEFINE b == row.staffhid /\ u \notin Staff
<1>1. b = FALSE
  BY DEF Handled, MayRestore
<1>2. Restored(row, u) = [row EXCEPT !.state = "alive", !.hider = None, !.staffhid = b]
  BY DEF Restored
<1> HIDE DEF b
<1>3. QED
  BY <1>1, <1>2 DEF CommentRow, Handled

(* What a request reads as it begins is so.                                *)
LEMMA BeginTimely ==
  ASSUME IInv, NEW r \in Request, NEW u \in User, Begin(r, u)
  PROVE  /\ req[r] = Idle /\ req' = [req EXCEPT ![r] = req'[r]] /\ req'[r] # Idle
         /\ Timely(req'[r], posts, comments)
         /\ UNCHANGED <<posts, comments, likes>>
<1> USE DEF Start
<1>0. req \in [Request -> RequestRow]
  BY DEF IInv, TablesOK
<1> DEFINE Began == /\ req[r] = Idle /\ req' = [req EXCEPT ![r] = req'[r]]
                    /\ req'[r].pc # "idle" /\ UNCHANGED <<posts, comments, likes>>
<1>1. ASSUME NEW t \in Title, CreateRead(r, u, t) PROVE Began /\ Timely(req'[r], posts, comments)
  <2>1. PICK i : Start(r, [Idle EXCEPT !.pc = "create", !.actor = u, !.slug = <<t, i>>])
    BY <1>1 DEF CreateRead
  <2>2. QED
    BY <1>0, <1>1, <2>1 DEF CreateRead, Idle, Timely
<1>2. ASSUME NEW p \in Post, ViewRead(r, u, p) PROVE Began /\ Timely(req'[r], posts, comments)
  BY <1>0, <1>2 DEF ViewRead, Idle, Timely
<1>3. ASSUME NEW p \in Post, HideRead(r, u, p) PROVE Began /\ Timely(req'[r], posts, comments)
  BY <1>0, <1>3 DEF HideRead, Idle, Timely, LivingIn, NoLivingIn
<1>4. ASSUME NEW p \in Post, RestoreRead(r, u, p) PROVE Began /\ Timely(req'[r], posts, comments)
  BY <1>0, <1>4 DEF RestoreRead, DeletedPost, Idle, Timely
<1>5. ASSUME NEW p \in Post, DestroyRead(r, u, p) PROVE Began /\ Timely(req'[r], posts, comments)
  BY <1>0, <1>5 DEF DestroyRead, DeletedPost, Idle, Timely
<1>6. ASSUME NEW p \in Post, NEW c \in Comment \cup {None}, CommentRead(r, u, p, c)
      PROVE  Began /\ Timely(req'[r], posts, comments)
  BY <1>0, <1>6 DEF CommentRead, Idle, Timely
<1>7. ASSUME NEW p \in Post, NEW c \in Comment \cup {None}, LikeRead(r, u, p, c)
      PROVE  Began /\ Timely(req'[r], posts, comments)
  BY <1>0, <1>7 DEF LikeRead, Idle, Timely
<1>8. ASSUME NEW c \in Comment, ReplyHideRead(r, u, c) PROVE Began /\ Timely(req'[r], posts, comments)
  BY <1>0, <1>8 DEF ReplyHideRead, MayHide, LivingReplies, Idle, Timely, Unanswered
<1>9. ASSUME NEW c \in Comment, ReplyRestoreRead(r, u, c)
      PROVE  Began /\ Timely(req'[r], posts, comments)
  BY <1>0, <1>9 DEF ReplyRestoreRead, Idle, Timely
<1>10. ASSUME NEW c \in Comment, ReplyDestroyRead(r, u, c)
       PROVE  Began /\ Timely(req'[r], posts, comments)
  BY <1>0, <1>10 DEF ReplyDestroyRead, Idle, Timely
<1>11. Began /\ Timely(req'[r], posts, comments)
  <2> HIDE DEF Began
  <2>1. QED
    BY <1>1, <1>2, <1>3, <1>4, <1>5, <1>6, <1>7, <1>8, <1>9, <1>10 DEF Begin
<1>12. QED
  BY <1>11 DEF Idle

(* Steps that write no row, one topic or one comment.                      *)
LEMMA NothingWritten ==
  ASSUME IInv, RowsKept(posts, comments), UNCHANGED posts, UNCHANGED comments
  PROVE  /\ RowsKept(posts', comments')
         /\ PlacesKept /\ AnsweredStep /\ HiddenDestroyedStep
BY DEF PlacesKept, AnsweredStep, HiddenDestroyedStep, Present

LEMMA PostWritten ==
  ASSUME IInv, RowsKept(posts, comments), NEW p \in Post, NEW row,
         posts' = [posts EXCEPT ![p] = row], UNCHANGED comments,
         Handled(row), row.views = row.opened, row.state \in Present,
         posts[p].state = "alive" /\ row.state = "hidden" =>
           row.hider \in Staff \/ (row.hider = posts[p].author /\ LivingIn(p) = {})
  PROVE  /\ RowsKept(posts', comments')
         /\ PlacesKept /\ AnsweredStep /\ HiddenDestroyedStep
<1>1. \A q \in Post : posts'[q] = IF q = p THEN row ELSE posts[q]
  BY DEF IInv, TablesOK
<1>2. RowsKept(posts', comments')
  BY <1>1 DEF RowsKept
<1>3. PlacesKept
  BY DEF PlacesKept, Present
<1>4. AnsweredStep
  BY <1>1 DEF AnsweredStep
<1>5. HiddenDestroyedStep
  BY <1>1 DEF HiddenDestroyedStep, Present
<1>6. QED
  BY <1>2, <1>3, <1>4, <1>5

LEMMA CommentWritten ==
  ASSUME IInv, RowsKept(posts, comments), NEW c \in Comment, NEW row,
         comments' = [comments EXCEPT ![c] = row], UNCHANGED posts,
         Handled(row), row.state \in Present,
         comments[c].state = "alive" /\ row.state = "hidden" =>
           row.hider \in Staff \/ (row.hider = comments[c].author /\ LivingReplies(c) = {})
  PROVE  /\ RowsKept(posts', comments')
         /\ PlacesKept /\ AnsweredStep /\ HiddenDestroyedStep
<1>1. \A d \in Comment : comments'[d] = IF d = c THEN row ELSE comments[d]
  BY DEF IInv, TablesOK
<1>2. RowsKept(posts', comments')
  BY <1>1 DEF RowsKept
<1>3. PlacesKept
  BY <1>1 DEF PlacesKept, Present
<1>4. AnsweredStep
  BY <1>1 DEF AnsweredStep
<1>5. HiddenDestroyedStep
  BY <1>1 DEF HiddenDestroyedStep, Present
<1>6. QED
  BY <1>2, <1>3, <1>4, <1>5

LEMMA DestroyKeeps ==
  ASSUME IInv, RowsKept(posts, comments), NEW r \in Request, DestroyCommit(r),
         Timely(req[r], posts, comments)
  PROVE  /\ RowsKept(posts', comments')
         /\ PlacesKept /\ AnsweredStep /\ HiddenDestroyedStep
<1> DEFINE p == req[r].post
<1>1. /\ p \in Post /\ posts \in [Post -> PostRow]
      /\ posts[p].state = "hidden"
  BY DEF DestroyCommit, IInv, TablesOK, RequestsOK, Loaded, OnPost, Timely
<1>2. \A q \in Post : IF q = p
        THEN /\ posts'[q].state = "destroyed" /\ posts'[q].staffhid = FALSE
             /\ posts'[q].views = posts'[q].opened
        ELSE posts'[q] = posts[q]
  BY <1>1 DEF DestroyCommit, NoPost
<1>3. \A c \in Comment : IF c \in Cascade(p)
        THEN comments'[c].state = "destroyed" /\ comments'[c].staffhid = FALSE
        ELSE comments'[c] = comments[c]
  BY Cascades
<1>4. RowsKept(posts', comments')
  BY <1>2, <1>3 DEF RowsKept, Handled
<1>5. PlacesKept
  <2> SUFFICES ASSUME NEW c \in Comment, NEW k \in Comment, comments[c].state \in Present,
                      comments'[c].state = "destroyed", comments[k].parent = c,
                      comments'[k].state \in Present
               PROVE  FALSE
    BY DEF PlacesKept
  <2>1. c \in Cascade(p) /\ k \notin Cascade(p) /\ comments[k].state \in Present
    BY <1>3 DEF Present
  <2>2. comments[c].post = comments[k].post
    <3>1. ThreadOK(k) /\ c # None
      BY <2>1, NoneApart DEF IInv, ThreadsOK
    <3>2. QED
      BY <3>1 DEF ThreadOK
  <2>3. QED
    BY <2>1, <2>2 DEF Cascade
<1>6. AnsweredStep
  BY <1>2, <1>3 DEF AnsweredStep
<1>7. HiddenDestroyedStep
  BY <1>1, <1>2, <1>3 DEF HiddenDestroyedStep, Cascade
<1>8. QED
  BY <1>4, <1>5, <1>6, <1>7

LEMMA ReplyDestroyKeeps ==
  ASSUME IInv, RowsKept(posts, comments), NEW r \in Request, ReplyDestroyCommit(r),
         Timely(req[r], posts, comments)
  PROVE  /\ RowsKept(posts', comments')
         /\ PlacesKept /\ AnsweredStep /\ HiddenDestroyedStep
<1> DEFINE c == req[r].comment
<1>1. /\ c \in Comment /\ posts' = posts
      /\ comments[c].state = "hidden" /\ req[r].parent = comments[c].parent
      /\ req[r].kids = {k \in Comment : comments[k].state \in Present /\ comments[k].parent = c}
  BY DEF ReplyDestroyCommit, IInv, RequestsOK, Loaded, OnComment, Timely
<1>2. comments'[c].state = "destroyed" /\ comments'[c].staffhid = FALSE
  BY <1>1, Moves
<1>3. \A k \in Comment : k # c =>
        /\ comments'[k].state = comments[k].state
        /\ comments'[k].hider = comments[k].hider
        /\ comments'[k].staffhid = comments[k].staffhid
  BY Moves
<1>4. \A k \in Comment : k # c /\ comments[k].state \in Present /\ k \in req[r].kids =>
        comments'[k].parent = req[r].parent
  BY Moves
<1>5. RowsKept(posts', comments')
  BY <1>1, <1>2, <1>3 DEF RowsKept, Handled
<1>6. PlacesKept
  BY <1>1, <1>2, <1>3, <1>4 DEF PlacesKept, Present
<1>7. AnsweredStep
  BY <1>1, <1>2, <1>3 DEF AnsweredStep
<1>8. HiddenDestroyedStep
  <2>1. \A p \in Post : posts'[p].state = "destroyed" => posts[p].state # "alive"
    BY <1>1
  <2>2. \A k \in Comment : ~(comments'[k].state = "destroyed" /\ comments[k].state = "alive")
    BY <1>1, <1>3
  <2>3. QED
    BY <2>1, <2>2 DEF HiddenDestroyedStep
<1>9. QED
  BY <1>5, <1>6, <1>7, <1>8

(* What a request alone makes of the rows.                                 *)
LEMMA StepKeeps ==
  ASSUME IInv, RowsKept(posts, comments), NEW r \in Request, Step(r),
         Timely(req[r], posts, comments)
  PROVE  /\ RowsKept(posts', comments')
         /\ PlacesKept /\ AnsweredStep /\ HiddenDestroyedStep
<1> DEFINE me == req[r]
<1>0. /\ me \in RequestRow /\ Loaded(me, comments)
      /\ posts \in [Post -> PostRow] /\ comments \in [Comment -> CommentRow]
  BY DEF IInv, TablesOK, RequestsOK
<1>1. CASE CreateCommit(r)
  <2> DEFINE row == [NoPost EXCEPT !.state = "alive", !.slug = me.slug, !.author = me.actor]
  <2>1. PICK p \in Post : posts' = [posts EXCEPT ![p] = row]
    BY <1>1 DEF CreateCommit
  <2>2. Handled(row) /\ row.views = row.opened /\ row.state \in Present /\ row.state # "hidden"
    BY DEF NoPost, Handled, Present
  <2>3. UNCHANGED comments
    BY <1>1 DEF CreateCommit
  <2> HIDE DEF row
  <2>4. QED
    BY <2>1, <2>2, <2>3, PostWritten
<1>2. CASE ViewCommit(r)
  <2> DEFINE p == me.post
             row == [posts[p] EXCEPT !.views = me.views + 1, !.opened = @ + 1]
  <2>1. p \in Post /\ posts[p].state \in Present /\ me.views = posts[p].views
    BY <1>0, <1>2 DEF ViewCommit, Loaded, OnPost, Timely
  <2>2. posts[p] \in PostRow /\ Handled(posts[p]) /\ posts[p].views = posts[p].opened
    BY <1>0, <2>1 DEF RowsKept
  <2>3. /\ row.state = posts[p].state /\ row.staffhid = posts[p].staffhid
        /\ row.hider = posts[p].hider /\ row.views = row.opened
    BY <2>1, <2>2 DEF PostRow
  <2>4. posts' = [posts EXCEPT ![p] = row] /\ UNCHANGED comments
    BY <1>0, <1>2, <2>1 DEF ViewCommit, Counted
  <2> HIDE DEF row, p
  <2>5. Handled(row) /\ row.state \in Present
        /\ ~(posts[p].state = "alive" /\ row.state = "hidden")
    BY <2>1, <2>2, <2>3 DEF Handled
  <2>6. QED
    BY <2>1, <2>3, <2>4, <2>5, PostWritten
<1>3. CASE HideCommit(r)
  <2> DEFINE p == me.post
             row == Hidden(posts[p], me.actor)
  <2>1. /\ p \in Post /\ posts[p].state = "alive" /\ me.actor \in User
        /\ me.actor \notin Staff => posts[p].author = me.actor /\ LivingIn(p) = {}
    BY <1>0, <1>3 DEF HideCommit, Loaded, OnPost, Timely, NoLivingIn, LivingIn
  <2>2. posts[p] \in PostRow /\ Handled(posts[p]) /\ posts[p].views = posts[p].opened
    BY <1>0, <2>1 DEF RowsKept
  <2>3. /\ Handled(row) /\ row.state = "hidden" /\ row.hider = me.actor
        /\ row.views = row.opened
    BY <2>1, <2>2, StaffHidesPost
  <2>4. posts' = [posts EXCEPT ![p] = row] /\ UNCHANGED comments
    BY <1>3 DEF HideCommit
  <2> HIDE DEF row, p
  <2>5. row.state \in Present
    BY <2>3 DEF Present
  <2>6. row.hider \in Staff \/ (row.hider = posts[p].author /\ LivingIn(p) = {})
    BY <2>1, <2>3
  <2> HIDE DEF me
  <2>7. QED
    BY <2>1, <2>3, <2>4, <2>5, <2>6, PostWritten
<1>4. CASE RestoreCommit(r)
  <2> DEFINE p == me.post
             row == Restored(posts[p], me.actor)
  <2>1. p \in Post /\ MayRestore(posts[p], me.actor) /\ me.actor \in User
    BY <1>0, <1>4 DEF RestoreCommit, Loaded, OnPost, Timely
  <2>2. posts[p] \in PostRow /\ Handled(posts[p]) /\ posts[p].views = posts[p].opened
    BY <1>0, <2>1 DEF RowsKept
  <2>3. Handled(row) /\ row.state = "alive" /\ row.views = row.opened
    BY <2>1, <2>2, StaffRestoresPost
  <2>4. posts' = [posts EXCEPT ![p] = row] /\ UNCHANGED comments
    BY <1>4 DEF RestoreCommit
  <2> HIDE DEF row, p
  <2>5. row.state \in Present /\ row.state # "hidden"
    BY <2>3 DEF Present
  <2>6. QED
    BY <2>1, <2>3, <2>4, <2>5, PostWritten
<1>5. CASE DestroyCommit(r)
  BY <1>5, DestroyKeeps
<1>6. CASE CommentCommit(r)
  <2> DEFINE row == [NoComment EXCEPT !.state = "alive", !.post = me.post,
                                      !.parent = me.parent, !.author = me.actor]
  <2>1. PICK c \in Comment : comments' = [comments EXCEPT ![c] = row]
    BY <1>6 DEF CommentCommit
  <2>2. Handled(row) /\ row.state \in Present /\ row.state # "hidden"
    BY DEF NoComment, Handled, Present
  <2>3. UNCHANGED posts
    BY <1>6 DEF CommentCommit
  <2> HIDE DEF row
  <2>4. QED
    BY <2>1, <2>2, <2>3, CommentWritten
<1>7. CASE ReplyHideCommit(r)
  <2> DEFINE c == me.comment
             row == Hidden(comments[c], me.actor)
  <2>1. /\ c \in Comment /\ comments[c].state = "alive" /\ me.actor \in User
        /\ me.actor \notin Staff => comments[c].author = me.actor /\ LivingReplies(c) = {}
    BY <1>0, <1>7 DEF ReplyHideCommit, Loaded, OnComment, Timely, Unanswered, LivingReplies
  <2>2. comments[c] \in CommentRow /\ Handled(comments[c])
    BY <1>0, <2>1 DEF RowsKept
  <2>3. Handled(row) /\ row.state = "hidden" /\ row.hider = me.actor
    BY <2>1, <2>2, StaffHidesComment
  <2>4. comments' = [comments EXCEPT ![c] = row] /\ UNCHANGED posts
    BY <1>7 DEF ReplyHideCommit
  <2> HIDE DEF row, c
  <2>5. row.state \in Present
    BY <2>3 DEF Present
  <2>6. row.hider \in Staff \/ (row.hider = comments[c].author /\ LivingReplies(c) = {})
    BY <2>1, <2>3
  <2> HIDE DEF me
  <2>7. QED
    BY <2>1, <2>3, <2>4, <2>5, <2>6, CommentWritten
<1>8. CASE ReplyRestoreCommit(r)
  <2> DEFINE c == me.comment
             row == Restored(comments[c], me.actor)
  <2>1. c \in Comment /\ MayRestore(comments[c], me.actor) /\ me.actor \in User
    BY <1>0, <1>8 DEF ReplyRestoreCommit, Loaded, OnComment, Timely
  <2>2. comments[c] \in CommentRow /\ Handled(comments[c])
    BY <1>0, <2>1 DEF RowsKept
  <2>3. Handled(row) /\ row.state = "alive"
    BY <2>1, <2>2, StaffRestoresComment
  <2>4. comments' = [comments EXCEPT ![c] = row] /\ UNCHANGED posts
    BY <1>8 DEF ReplyRestoreCommit
  <2> HIDE DEF row, c
  <2>5. row.state \in Present /\ row.state # "hidden"
    BY <2>3 DEF Present
  <2>6. QED
    BY <2>1, <2>3, <2>4, <2>5, CommentWritten
<1>9. CASE ReplyDestroyCommit(r)
  BY <1>9, ReplyDestroyKeeps
<1>10. CASE Reopen(r) \/ ReplyDestroyKids(r) \/ LikeCommit(r) \/ UnlikeCommit(r) \/ Abort(r)
  <2>1. UNCHANGED posts
    BY <1>10 DEF Reopen, ReplyDestroyKids, LikeCommit, UnlikeCommit, Abort
  <2>2. UNCHANGED comments
    BY <1>10 DEF Reopen, ReplyDestroyKids, LikeCommit, UnlikeCommit, Abort
  <2>3. QED
    BY <2>1, <2>2, NothingWritten
<1>11. QED
  BY <1>1, <1>2, <1>3, <1>4, <1>5, <1>6, <1>7, <1>8, <1>9, <1>10 DEF Step

(* What a request alone goes on with is still so.                          *)
LEMMA StepTimely ==
  ASSUME IInv, NEW r \in Request, Step(r), Timely(req[r], posts, comments)
  PROVE  /\ req[r] # Idle /\ req' = [req EXCEPT ![r] = req'[r]]
         /\ Timely(req'[r], posts', comments')
<1> USE DEF Done, Goto
<1> DEFINE me == req[r]
<1>0. /\ req \in [Request -> RequestRow] /\ me \in RequestRow /\ Loaded(me, comments)
      /\ posts \in [Post -> PostRow] /\ comments \in [Comment -> CommentRow]
  BY DEF IInv, TablesOK, RequestsOK
<1>1. ASSUME req[r] # Idle, req' = [req EXCEPT ![r] = Idle]
      PROVE  /\ req[r] # Idle /\ req' = [req EXCEPT ![r] = req'[r]]
             /\ Timely(req'[r], posts', comments')
  <2>1. req'[r] = Idle
    BY <1>0, <1>1
  <2>2. QED
    BY <1>1, <2>1, IdleTimely
<1>2. CASE RestoreCommit(r)
  <2> DEFINE p == me.post
             x == [me EXCEPT !.pc = "reopen", !.open = TRUE]
             row == Restored(posts[p], me.actor)
  <2>1. p \in Post /\ me.views = posts[p].views /\ me.pc = "restore"
    BY <1>0, <1>2 DEF RestoreCommit, Loaded, OnPost, Timely
  <2>2. req' = [req EXCEPT ![r] = x]
    BY <1>0, <1>2 DEF RestoreCommit
  <2>3. posts'[p] = row
    BY <1>0, <1>2, <2>1 DEF RestoreCommit
  <2>4. row.views = posts[p].views
    <3>1. posts[p] \in PostRow
      BY <1>0, <2>1
    <3>2. QED
      BY <3>1 DEF Restored, PostRow
  <2>5. x.pc = "reopen" /\ x.views = me.views /\ x.post = p
    BY <1>0 DEF RequestRow
  <2>6. Timely(x, posts', comments')
    BY <2>1, <2>3, <2>4, <2>5 DEF Timely
  <2>7. req'[r] = x /\ me # Idle
    BY <1>0, <2>1, <2>2 DEF Idle
  <2>8. QED
    BY <2>2, <2>6, <2>7
<1>3. CASE Reopen(r)
  <2>1. me.pc = "reopen" /\ me.views = posts[me.post].views /\ me # Idle
        /\ UNCHANGED <<posts, comments>>
    BY <1>3 DEF Reopen, Timely, Idle
  <2>2. CASE req' = [req EXCEPT ![r].pc = "view"]
    <3> DEFINE x == [me EXCEPT !.pc = "view"]
    <3>1. x.pc = "view" /\ x.views = me.views /\ x.post = me.post
      BY <1>0 DEF RequestRow
    <3>2. req' = [req EXCEPT ![r] = x] /\ req'[r] = x
      BY <1>0, <2>2
    <3>3. Timely(x, posts, comments)
      BY <2>1, <3>1 DEF Timely
    <3>4. QED
      BY <2>1, <3>2, <3>3
  <2>3. QED
    BY <1>1, <1>3, <2>1, <2>2 DEF Reopen
<1>4. CASE ReplyRestoreCommit(r)
  <2> DEFINE x == [me EXCEPT !.pc = "reopen"]
  <2>1. me.pc = "reply_restore" /\ me.views = posts[me.post].views /\ me # Idle
        /\ posts' = posts
    BY <1>4 DEF ReplyRestoreCommit, Timely, Idle
  <2>2. x.pc = "reopen" /\ x.views = me.views /\ x.post = me.post
    BY <1>0 DEF RequestRow
  <2>3. req' = [req EXCEPT ![r] = x] /\ req'[r] = x
    BY <1>0, <1>4 DEF ReplyRestoreCommit
  <2>4. Timely(x, posts', comments')
    BY <2>1, <2>2 DEF Timely
  <2>5. QED
    BY <2>1, <2>3, <2>4
<1>5. CASE ReplyDestroyKids(r)
  <2> DEFINE K == {k \in Comment : comments[k].state \in Present
                                     /\ comments[k].parent = me.comment}
             x == [me EXCEPT !.pc = "reply_delete", !.kids = K]
  <2>1. /\ me.pc = "reply_destroy" /\ me # Idle
        /\ comments[me.comment].state = "hidden" /\ me.parent = comments[me.comment].parent
        /\ UNCHANGED <<posts, comments>>
    BY <1>5 DEF ReplyDestroyKids, Timely, Idle
  <2>2. x.pc = "reply_delete" /\ x.comment = me.comment /\ x.parent = me.parent /\ x.kids = K
    BY <1>0 DEF RequestRow
  <2>3. req' = [req EXCEPT ![r] = x] /\ req'[r] = x
    BY <1>0, <1>5 DEF ReplyDestroyKids
  <2>4. Timely(x, posts, comments)
    BY <2>1, <2>2 DEF Timely
  <2>5. QED
    BY <2>1, <2>3, <2>4
<1>6. CASE \/ CreateCommit(r) \/ ViewCommit(r) \/ HideCommit(r) \/ DestroyCommit(r)
           \/ CommentCommit(r) \/ ReplyHideCommit(r) \/ ReplyDestroyCommit(r)
           \/ LikeCommit(r) \/ UnlikeCommit(r) \/ Abort(r)
  <2>1. req[r] # Idle
    BY <1>6 DEF CreateCommit, ViewCommit, HideCommit, DestroyCommit, CommentCommit,
                ReplyHideCommit, ReplyDestroyCommit, LikeCommit, UnlikeCommit, Abort, Idle
  <2>2. req' = [req EXCEPT ![r] = Idle]
    BY <1>6 DEF CreateCommit, ViewCommit, HideCommit, DestroyCommit, CommentCommit,
                ReplyHideCommit, ReplyDestroyCommit, LikeCommit, UnlikeCommit, Abort
  <2>3. QED
    BY <1>1, <2>1, <2>2
<1>7. QED
  BY <1>2, <1>3, <1>4, <1>5, <1>6 DEF Step

LEMMA SerialStep ==
  ASSUME IInv, SerialInv, Next, ~crossed'
  PROVE  /\ RowsKept(posts', comments')
         /\ \A q \in Request : Timely(req'[q], posts', comments')
         /\ PlacesKept /\ AnsweredStep /\ HiddenDestroyedStep
<1>1. ~crossed
  BY DEF Next, Crossing
<1>2. /\ RowsKept(posts, comments)
      /\ \A q \in Request : Timely(req[q], posts, comments)
      /\ \A q, r \in Request : q = r \/ req[q] = Idle \/ req[r] = Idle
      /\ req \in [Request -> RequestRow]
  BY <1>1 DEF SerialInv, IInv, TablesOK
<1>3. PICK r \in Request : Step(r) \/ \E u \in User : Begin(r, u)
  BY DEF Next, Act
<1>4. CASE \E u \in User : Begin(r, u)
  <2>1. /\ req' = [req EXCEPT ![r] = req'[r]] /\ Timely(req'[r], posts, comments)
        /\ UNCHANGED <<posts, comments>>
    BY <1>4, BeginTimely
  <2>2. ASSUME NEW q \in Request PROVE Timely(req'[q], posts, comments)
    <3>1. q # r => req'[q] = req[q]
      BY <1>2, <2>1
    <3>2. QED
      BY <1>2, <2>1, <3>1
  <2>3. /\ RowsKept(posts', comments')
        /\ PlacesKept /\ AnsweredStep /\ HiddenDestroyedStep
    BY <1>2, <2>1, NothingWritten
  <2>4. QED
    BY <2>1, <2>2, <2>3
<1>5. CASE Step(r)
  <2>1. /\ req[r] # Idle /\ req' = [req EXCEPT ![r] = req'[r]]
        /\ Timely(req'[r], posts', comments')
    BY <1>2, <1>5, StepTimely
  <2>2. ASSUME NEW q \in Request PROVE Timely(req'[q], posts', comments')
    <3>1. q # r => req'[q] = Idle
      BY <1>2, <2>1
    <3>2. QED
      BY <2>1, <3>1, IdleTimely
  <2>3. /\ RowsKept(posts', comments')
        /\ PlacesKept /\ AnsweredStep /\ HiddenDestroyedStep
    BY <1>2, <1>5, StepKeeps
  <2>4. QED
    BY <2>2, <2>3
<1>6. QED
  BY <1>3, <1>4, <1>5

LEMMA NextSerial == IInv /\ SerialInv /\ [Next]_vars => SerialInv'
<1> SUFFICES ASSUME IInv, SerialInv, [Next]_vars, ~crossed'
             PROVE  /\ RowsKept(posts', comments')
                    /\ \A r \in Request : Timely(req'[r], posts', comments')
                    /\ \A q, r \in Request : q = r \/ req'[q] = Idle \/ req'[r] = Idle
  BY DEF SerialInv
<1>1. CASE UNCHANGED vars
  BY <1>1 DEF vars, SerialInv
<1>2. CASE Next
  <2>1. \A q, r \in Request : q = r \/ req'[q] = Idle \/ req'[r] = Idle
    BY <1>2 DEF Next, Crossing
  <2>2. QED
    BY <1>2, <2>1, SerialStep
<1>3. QED
  BY <1>1, <1>2

LEMMA AlwaysSerial == Spec => []SerialInv
<1>1. Init => SerialInv
  <2> SUFFICES ASSUME Init PROVE SerialInv
    OBVIOUS
  <2>1. RowsKept(posts, comments)
    BY DEF Init, RowsKept, Handled, NoPost, NoComment
  <2>2. \A r \in Request : req[r] = Idle
    BY DEF Init
  <2>3. QED
    BY <2>1, <2>2, IdleTimely DEF SerialInv
<1>2. QED
  BY <1>1, NextSerial, Invariant, PTL DEF Spec

(* As long as no two requests overlap, what staff has hidden comes back    *)
(* only by staff, and the counter of a topic counts every open of it.      *)
THEOREM StaffsWordStands == Spec => []KeptAlone
<1>1. IInv /\ SerialInv => KeptAlone
  BY DEF SerialInv, RowsKept, Handled, KeptAlone, StaffHideStands, ViewsCounted
<1>2. QED
  BY <1>1, Invariant, AlwaysSerial, PTL

(* No reply is lost, however many requests overlap; and as long as no two  *)
(* do, replies move to where the destroyed comment stands, an author hides *)
(* nothing that is answered, and only what is hidden is destroyed, or goes *)
(* with its topic.                                                         *)
THEOREM AnswersStay == Spec => AnswersKept
<1> DEFINE Kept == /\ RepliesKept
                   /\ ~crossed' => PlacesKept /\ AnsweredStep /\ HiddenDestroyedStep
<1>1. IInv /\ SerialInv /\ [Next]_vars => [Kept]_vars
  <2> SUFFICES ASSUME IInv, SerialInv, Next PROVE Kept
    OBVIOUS
  <2>1. RepliesKept
    BY RepliesStep DEF Next
  <2>2. ~crossed' => PlacesKept /\ AnsweredStep /\ HiddenDestroyedStep
    BY SerialStep
  <2>3. QED
    BY <2>1, <2>2
<1>2. Spec => [][Kept]_vars
  <2> HIDE DEF Kept
  <2>1. QED
    BY <1>1, Invariant, AlwaysSerial, PTL DEF Spec
<1>3. QED
  BY <1>2 DEF AnswersKept
=============================================================================
