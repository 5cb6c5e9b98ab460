------------------------------- MODULE Press -------------------------------
(***************************************************************************)
(* Articles: an author who is not of the staff writes them in a form       *)
(* (article-editor-form.tsx), the staff decide on them from lists and      *)
(* pages they have loaded some time before, and the service                *)
(* (services/articles.py) keeps them.  A click in the form is two          *)
(* requests, one after the other: to save, then to submit or to publish.   *)
(* A request may fail for the form and still be carried out, later.  The   *)
(* staff have the same form for any article.                               *)
(*                                                                         *)
(* Each request is one step of the service.  The text stands for all the   *)
(* fields of the form but the title, which the address is made from.       *)
(***************************************************************************)
EXTENDS FiniteSets, Naturals

CONSTANTS
  Article,  \* articles that may come to be
  Title,    \* titles: those whose addresses differ
  Text,     \* texts
  Clicks,   \* bound on the clicks of the author
  Acts,     \* bound on the acts of the staff
  None

Submittable == {"draft", "needs_revision", "rejected"}
Moderatable == {"pending_review", "needs_revision"}
Editable == Submittable \cup {"pending_review"}
Modes == {"save", "submit", "publish"}
Slug == Title \X (1 .. Cardinality(Article))

ArticleRow == [slug : Slug, title : Title, text : Text,
               status : Editable \cup {"published"}, deleted : BOOLEAN]
RequestRow == [op : {"create", "update", "submit", "publish"}, slug : Slug \cup {None},
               title : Title, text : Text]
CallRow == [state : {"sent"}, req : RequestRow]
             \cup [state : {"ok"}, op : {"create", "update", "submit", "publish"}, slug : Slug,
                   status : Editable \cup {"published"}]
             \cup [state : {"failed", "refresh"}]
Route == [at : {"new", "edit", "away", "absent"}, slug : Slug \cup {None}]

PressAssumption ==
  /\ IsFiniteSet(Article) /\ IsFiniteSet(Title) /\ Title # {} /\ Text # {}
  /\ Clicks \in Nat /\ Acts \in Nat
  /\ None \notin Slug \cup Modes \cup ArticleRow \cup CallRow \cup Route

VARIABLES
  articles,   \* the table: a record per article, or None
  right,      \* can_publish_articles of the author
  form,       \* the fields of the form, the slug and the status it knows
  route,      \* the page of the author, with the slug when it edits
  busy,       \* what the form is busy with, or None
  call,       \* the request of the form: sent, or answered
  late,       \* requests the form has given up and the service may still get
  going,      \* where the router is on its way to, or None
  knows,      \* the right to publish, as the page of the author knows it
  seen,       \* articles in the lists and pages of the staff, with their status then
  onward,     \* what the form of the staff asks for next, having saved, or None
  trust,      \* history: the staff published for the author and did not revoke it since
  vetted,     \* history: the staff published for the author
  submitted,  \* history: each article as the author sent it to review, or the staff left it since
  acked,      \* history: articles the form was told it has created
  clicks, acts

page == <<form, route, busy, call, late, going, knows>>
desk == <<seen, onward>>
history == <<trust, vetted, submitted, acked>>
vars == <<articles, right, form, route, busy, call, late, going, knows, seen, onward,
          trust, vetted, submitted, acked, clicks, acts>>

At(kind) == [at |-> kind, slug |-> None]
Edit(slug) == [at |-> "edit", slug |-> slug]
-----------------------------------------------------------------------------
(***************************************************************************)
(* The service.                                                            *)
(***************************************************************************)
Alive == {a \in Article : articles[a] # None /\ ~articles[a].deleted}
Named(slug) == {a \in Alive : articles[a].slug = slug}

(* The numbers that make an address of the title that no other has.        *)
Free(title, a) == {n \in 1 .. Cardinality(Article) : Named(<<title, n>>) \ {a} = {}}

UniqueSlug(title, a) ==
  <<title, CHOOSE n \in Free(title, a) : \A m \in Free(title, a) : n <= m>>

Created(req, a) ==
  [slug |-> UniqueSlug(req.title, a), title |-> req.title, text |-> req.text,
   status |-> "draft", deleted |-> FALSE]

(* The staff may edit any article that is alive.                           *)
CanEdit(a, actor) ==
  \/ actor = "staff"
  \/ articles[a].status \in Editable \/ (articles[a].status = "published" /\ right)

(* Mutant of AfterEdit: an edit leaves the article in the queue.           *)
AfterEditKept(status, actor) == status

(* The author takes an article off the queue by editing it, the staff do   *)
(* not.                                                                    *)
AfterEdit(status, actor) ==
  IF status = "pending_review" /\ actor # "staff" THEN "draft" ELSE status

Updated(req, a, actor) ==
  [articles[a] EXCEPT
     !.title = req.title, !.text = req.text,
     !.slug = IF articles[a].status = "published" THEN @ ELSE UniqueSlug(req.title, a),
     !.status = AfterEdit(@, actor)]

(* Mutant of MayPublish: the right to publish is not asked for.            *)
MayPublishAnyway(actor) == TRUE

MayPublish(actor) == actor = "staff" \/ right

Unused == CHOOSE a \in Article : (\E b \in Article : articles[b] = None) => articles[a] = None

(* What a request does to an article, or None when it is refused.          *)
Effect(req, a, actor) ==
  CASE req.op = "create" -> IF a = Unused /\ articles[a] = None THEN Created(req, a) ELSE None
    [] req.op = "update" ->
         IF a \in Named(req.slug) /\ CanEdit(a, actor) THEN Updated(req, a, actor) ELSE None
    [] req.op = "submit" ->
         IF a \in Named(req.slug) /\ articles[a].status \in Submittable
         THEN [articles[a] EXCEPT
                 !.status = IF MayPublish(actor) THEN "published" ELSE "pending_review"]
         ELSE None
    [] req.op = "publish" ->
         IF a \in Named(req.slug) /\ MayPublish(actor) /\ articles[a].status \in Editable
         THEN [articles[a] EXCEPT !.status = "published"] ELSE None

Accepting(req, actor) == {a \in Article : Effect(req, a, actor) # None}

Publishes(req, new) == req.op \in {"submit", "publish"} /\ new.status = "published"

(* The step of the service that carries a request out.  To publish gives   *)
(* the author of the article the right to.                                 *)
Carry(req, a, actor) ==
  LET new == Effect(req, a, actor) IN
  /\ articles' = [articles EXCEPT ![a] = new]
  /\ right' = (right \/ Publishes(req, new))
  /\ trust' = (trust \/ (actor = "staff" /\ Publishes(req, new)))
  /\ vetted' = (vetted \/ (actor = "staff" /\ Publishes(req, new)))
  /\ submitted' = [submitted EXCEPT ![a] =
       IF new.status = "pending_review" /\ (req.op = "submit" \/ actor = "staff")
       THEN <<new.title, new.text>> ELSE @]

Refuse == UNCHANGED <<articles, right, trust, vetted, submitted>>
-----------------------------------------------------------------------------
(***************************************************************************)
(* The form.                                                               *)
(***************************************************************************)
BlankForm == [title |-> CHOOSE t \in Title : TRUE, text |-> CHOOSE x \in Text : TRUE,
              slug |-> None, status |-> None]
FormOf(a) == [title |-> articles[a].title, text |-> articles[a].text,
              slug |-> articles[a].slug, status |-> articles[a].status]

Request(op, slug) == [op |-> op, slug |-> slug, title |-> form.title, text |-> form.text]

Init ==
  /\ articles = [a \in Article |-> None]
  /\ right \in BOOLEAN /\ knows = right /\ trust = right /\ vetted = right
  /\ form = BlankForm /\ route = At("new")
  /\ busy = None /\ call = None /\ late = {} /\ going = None
  /\ seen = {} /\ onward = None
  /\ submitted = [a \in Article |-> None] /\ acked = {}
  /\ clicks = 0 /\ acts = 0

OnForm == route.at \in {"new", "edit"}

(* persist, of run, with what was typed before.  The fields are not locked *)
(* while the form is busy: what is typed then goes with the next click.  A *)
(* click while the router is on its way is left out.                       *)
Click(mode, title, text) ==
  /\ OnForm /\ busy = None /\ going = None /\ clicks < Clicks
  /\ mode = "publish" => knows
  /\ form.slug = None => \E a \in Article : articles[a] = None
  /\ clicks' = clicks + 1
  /\ form' = [form EXCEPT !.title = title, !.text = text]
  /\ busy' = mode
  /\ call' = [state |-> "sent",
              req |-> [Request(IF form.slug = None THEN "create" ELSE "update", form.slug)
                         EXCEPT !.title = title, !.text = text]]
  /\ UNCHANGED <<articles, right, route, late, going, knows, desk, history, acts>>

Answered(op, slug, status) ==
  [state |-> "ok", op |-> op, slug |-> slug, status |-> status]
Failed == [state |-> "failed"]

Serve ==
  /\ call # None /\ call.state = "sent"
  /\ LET req == call.req IN
     \/ \E a \in Accepting(req, "author") :
          /\ Carry(req, a, "author")
          /\ call' = Answered(req.op, articles'[a].slug, articles'[a].status)
          /\ acked' = IF req.op = "create" THEN acked \cup {a} ELSE acked
     \/ Accepting(req, "author") = {} /\ Refuse /\ call' = Failed /\ UNCHANGED acked
  /\ UNCHANGED <<form, route, busy, late, going, knows, desk, clicks, acts>>

(* The connection breaks before the answer.                                *)
GiveUp ==
  /\ call # None /\ call.state = "sent" /\ late = {}
  /\ late' = {call.req} /\ call' = Failed
  /\ UNCHANGED <<articles, right, form, route, busy, going, knows, desk, history, clicks, acts>>

(* The service carries out, or refuses, what nobody waits for any more.    *)
ServeLate ==
  /\ \E req \in late :
       \/ \E a \in Accepting(req, "author") : Carry(req, a, "author")
       \/ Accepting(req, "author") = {} /\ Refuse
  /\ late' = {}
  /\ UNCHANGED <<form, route, busy, call, going, knows, desk, acked, clicks, acts>>

(* Mutant of Persisted: the slug is kept when all of the run is done.      *)
PersistedLate(answer) == form

(* persist keeps the slug of a new article at once; run keeps it, and the  *)
(* status, when all of it is done.                                         *)
Persisted(answer) ==
  IF answer.op = "create" THEN [form EXCEPT !.slug = answer.slug] ELSE form

Return ==
  /\ call # None /\ call.state = "ok"
  /\ IF call.op \in {"create", "update"} /\ busy # "save"
     THEN /\ form' = Persisted(call)
          /\ call' = [state |-> "sent", req |-> Request(busy, call.slug)]
     ELSE /\ form' = [form EXCEPT !.slug = call.slug, !.status = call.status]
          /\ call' = [state |-> "refresh"]
  /\ UNCHANGED <<articles, right, route, busy, late, going, knows, desk, history, clicks, acts>>

(* Mutant of Idle: the form is freed by success only.                      *)
IdleOnSuccess == call' = None /\ UNCHANGED busy

(* The finally of run.                                                     *)
Idle == call' = None /\ busy' = None

Fail ==
  /\ call = Failed /\ Idle
  /\ UNCHANGED <<articles, right, form, route, late, going, knows, desk, history, clicks, acts>>

(* refreshUser, which may fail in silence; then the router is asked.       *)
Refresh ==
  /\ call # None /\ call.state = "refresh"
  /\ knows' \in {right, knows}
  /\ going' = IF busy = "save" THEN Edit(form.slug) ELSE At("away")
  /\ call' = None /\ busy' = None
  /\ UNCHANGED <<articles, right, form, route, late, desk, history, clicks, acts>>

(* The page under another address is a new one, with the form as saved.    *)
Open(slug) ==
  IF Named(slug) # {}
  THEN LET a == CHOOSE b \in Named(slug) : TRUE IN
       /\ form' = FormOf(a) /\ route' = Edit(slug)
  ELSE form' = BlankForm /\ route' = At("absent")

Arrive ==
  /\ going # None
  /\ IF going = At("away") THEN form' = BlankForm /\ route' = going
     ELSE IF going = route THEN UNCHANGED <<form, route>>
     ELSE Open(going.slug)
  /\ acked' = IF route' = route THEN acked ELSE {}
  /\ going' = None
  /\ UNCHANGED <<articles, right, busy, call, late, knows, desk, trust, vetted, submitted, clicks, acts>>

(* Leaving the form, and the workshop: a new article, or one of the list.  *)
Leave ==
  /\ route.at # "away" /\ busy = None /\ going = None
  /\ form' = BlankForm /\ route' = At("away") /\ acked' = {}
  /\ UNCHANGED <<articles, right, busy, call, late, going, knows, desk, trust, vetted, submitted, clicks, acts>>

Write ==
  /\ route.at = "away" /\ clicks < Clicks
  /\ \/ form' = BlankForm /\ route' = At("new")
     \/ \E a \in Alive : Open(articles[a].slug)
  /\ UNCHANGED <<articles, right, busy, call, late, going, knows, desk, history, clicks, acts>>
-----------------------------------------------------------------------------
(***************************************************************************)
(* The staff.                                                              *)
(***************************************************************************)
Shown == {[slug |-> articles[a].slug, status |-> articles[a].status] :
            a \in {b \in Alive : articles[b].status \in Moderatable \cup {"published"}}}

LoadLists ==
  /\ acts < Acts /\ seen # Shown
  /\ seen' = Shown
  /\ UNCHANGED <<articles, right, page, onward, history, clicks, acts>>

Act == acts < Acts /\ acts' = acts + 1

Outcome(decision) ==
  CASE decision = "publish" -> "published"
    [] decision = "request_changes" -> "needs_revision"
    [] decision = "reject" -> "rejected"

(* act, of the queue, of the administration and of the page of an article. *)
(* The item leaves the list.                                               *)
Decide(item, decision) ==
  /\ item.status \in Moderatable /\ Act
  /\ \E a \in Named(item.slug) :
       /\ articles[a].status \in Moderatable
       /\ articles' = [articles EXCEPT ![a].status = Outcome(decision)]
  /\ right' = (right \/ decision = "publish")
  /\ trust' = (trust \/ decision = "publish")
  /\ vetted' = (vetted \/ decision = "publish")
  /\ seen' = {i \in seen : i.slug # item.slug}
  /\ UNCHANGED <<page, onward, submitted, acked, clicks>>

(* revoke_privilege: the item stays, as the answer brings it.              *)
Revoke(item) ==
  /\ item.status \in Moderatable /\ Act
  /\ \E a \in Named(item.slug) :
       seen' = (seen \ {item}) \cup {[slug |-> item.slug, status |-> articles[a].status]}
  /\ right' = FALSE /\ trust' = FALSE
  /\ UNCHANGED <<articles, page, onward, vetted, submitted, acked, clicks>>

(* hide_article: the lists are loaded anew.                                *)
Hide(item) ==
  /\ item.status = "published" /\ Act
  /\ \E a \in Named(item.slug) :
       /\ articles[a].status = "published"
       /\ articles' = [articles EXCEPT ![a].deleted = TRUE]
  /\ seen' = Shown'
  /\ UNCHANGED <<right, page, onward, history, clicks>>

(* Mutant of RestoredBy: an article alive at that address is no obstacle.  *)
RestoredByAny(slug) ==
  {a \in Article : articles[a] # None /\ articles[a].slug = slug /\ articles[a].deleted}

(* get_by_slug_any fails when two articles have had the address.           *)
RestoredBy(slug) ==
  LET all == {a \in Article : articles[a] # None /\ articles[a].slug = slug} IN
  IF Cardinality(all) = 1 THEN {a \in all : articles[a].deleted} ELSE {}

Restore(slug) ==
  /\ Act
  /\ \E a \in RestoredBy(slug) : articles' = [articles EXCEPT ![a].deleted = FALSE]
  /\ seen' = Shown'
  /\ UNCHANGED <<right, page, onward, history, clicks>>

(* The form of the staff for an article they were shown when it was not    *)
(* published: it saves what they make of it, whatever was made of it       *)
(* since, and goes on to what they clicked.                                *)
Edited(item, mode, title, text) ==
  LET req == [op |-> "update", slug |-> item.slug, title |-> title, text |-> text] IN
  /\ item.status # "published" /\ onward = None /\ Act
  /\ \E a \in Accepting(req, "staff") :
       /\ Carry(req, a, "staff")
       /\ onward' = IF mode = "save" THEN None
                    ELSE [req EXCEPT !.op = mode, !.slug = articles'[a].slug]
       /\ seen' = (seen \ {item}) \cup
                    {[slug |-> articles'[a].slug, status |-> articles'[a].status]}
  /\ UNCHANGED <<page, acked, clicks>>

(* The second request is carried out, or is refused or lost.               *)
GoOn ==
  /\ onward # None /\ onward' = None
  /\ \/ \E a \in Accepting(onward, "staff") : Carry(onward, a, "staff")
     \/ Refuse
  /\ UNCHANGED <<page, seen, acked, clicks, acts>>

Next ==
  \/ \E mode \in Modes, t \in Title, x \in Text : Click(mode, t, x)
  \/ Serve \/ GiveUp \/ ServeLate \/ Return \/ Fail \/ Refresh \/ Arrive
  \/ Leave \/ Write \/ LoadLists \/ GoOn
  \/ \E item \in seen :
       \/ \E decision \in {"publish", "request_changes", "reject"} : Decide(item, decision)
       \/ Revoke(item) \/ Hide(item)
       \/ \E mode \in Modes, t \in Title, x \in Text : Edited(item, mode, t, x)
  \/ \E slug \in Slug : Restore(slug)

(* Every request is answered or given up, and answers are taken.           *)
Fairness == WF_vars(Serve) /\ WF_vars(Return) /\ WF_vars(Fail) /\ WF_vars(Refresh)
Spec == Init /\ [][Next]_vars /\ Fairness
-----------------------------------------------------------------------------
TypeOK ==
  /\ articles \in [Article -> ArticleRow \cup {None}]
  /\ {right, knows, trust, vetted} \subseteq BOOLEAN
  /\ form \in [title : Title, text : Text, slug : Slug \cup {None},
               status : Editable \cup {"published", None}]
  /\ route \in Route /\ going \in Route \cup {None}
  /\ busy \in Modes \cup {None} /\ call \in CallRow \cup {None} /\ (busy = None <=> call = None)
  /\ late \subseteq RequestRow /\ Cardinality(late) <= 1
  /\ seen \subseteq [slug : Slug, status : Moderatable \cup Submittable \cup {"published"}]
  /\ onward \in RequestRow \cup {None}
  /\ submitted \in [Article -> (Title \X Text) \cup {None}] /\ acked \subseteq Article
  /\ clicks \in 0 .. Clicks /\ acts \in 0 .. Acts

(* No two articles answer to one address, whatever is renamed, removed and *)
(* restored: get_by_slug, which every act on an article starts with, finds *)
(* one (services/articles.py _unique_slug, restore_article).               *)
SlugsUnique == \A slug \in Slug : Cardinality(Named(slug)) <= 1

(* What the staff find in the queue is what the author sent to review, or  *)
(* what the staff themselves have made of it since, never what the author  *)
(* has changed since: also when a request is carried out long after the    *)
(* form gave it up, and when both edit one article (update_article).       *)
QueueHoldsSubmitted ==
  \A a \in Alive : articles[a].status = "pending_review" => submitted[a] = <<articles[a].title, articles[a].text>>

(* The author publishes on his own only while the trust the staff gave him *)
(* by a publication lasts, and never before it, also when his page thinks  *)
(* otherwise, or the staff have his article in their form (submit,         *)
(* publish, moderate).                                                     *)
TrustIsGiven ==
  /\ right => trust
  /\ \A a \in Article : articles[a] # None /\ articles[a].status = "published" => vetted

(* However often one form fails half way and is tried again, it creates no *)
(* second article once it was told of the first (persist).                 *)
OneArticlePerForm == Cardinality(acked) <= 1

(* One form makes one article, and no two articles have one address.       *)
ArticlesApart == SlugsUnique /\ OneArticlePerForm

(* The form does not stay busy: every run ends, well or not (run).         *)
RunEnds == busy # None ~> busy = None
=============================================================================
