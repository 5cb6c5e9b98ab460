---------------------------- MODULE OfficeProofs ----------------------------
(***************************************************************************)
(* The pages on which the site is written.  The articles keep their        *)
(* addresses apart, and what the staff find of them is what the author     *)
(* sent; the dialog of a topic sends what was put into it; the forms of    *)
(* the catalogue keep the rows they do not show; the list of topics shows  *)
(* topics of its tab: for any articles, files, entries and topics, and     *)
(* however late a request is carried out.                                  *)
(***************************************************************************)
EXTENDS MCOffice, Sequences, FiniteSetTheorems, WellFoundedInduction, TLAPS

(***************************************************************************)
(* Articles.                                                               *)
(***************************************************************************)
(* Among the numbers of a title there is one for every article: one that   *)
(* is not taken by another article is always left.                         *)
LEMMA SomeNumberFree ==
  ASSUME PressAssumption, TypeOK, NEW t \in Title, NEW a \in Article
  PROVE  Free(t, a) # {}
<1> DEFINE N == Cardinality(Article)
           Others == Article \ {a}
           Numbers == 1 .. N
           Taker(n) == CHOOSE b \in Article : b \in Named(<<t, n>>) \ {a}
           f == [n \in 1 .. N |-> Taker(n)]
<1> SUFFICES ASSUME Free(t, a) = {} PROVE FALSE
  OBVIOUS
<1>1. IsFiniteSet(Article) /\ N \in Nat
  BY FS_CardinalityType DEF PressAssumption
<1>2. IsFiniteSet(Others) /\ Cardinality(Others) = N - 1
  BY <1>1, FS_RemoveElement
<1>3. IsFiniteSet(Numbers) /\ Cardinality(Numbers) = N
  <2>1. N \in Int /\ 1 \in Int
    BY <1>1
  <2>2. IsFiniteSet(1 .. N) /\ Cardinality(1 .. N) = IF 1 > N THEN 0 ELSE N - 1 + 1
    BY <2>1, FS_Interval, Zenon
  <2> QED BY <1>1, <2>2
<1>4. ASSUME NEW n \in 1 .. N PROVE Taker(n) \in Named(<<t, n>>) \ {a}
  <2>1. Named(<<t, n>>) \ {a} # {}
    BY DEF Free
  <2>2. Named(<<t, n>>) \subseteq Article
    BY DEF Named, Alive
  <2> QED BY <2>1, <2>2
<1>5. f \in [Numbers -> Others]
  BY <1>4 DEF Named, Alive
<1>6. PICK m \in Numbers, n \in Numbers : m # n /\ f[m] = f[n]
  <2>1. Cardinality(Others) < Cardinality(Numbers)
    BY <1>1, <1>2, <1>3
  <2> HIDE DEF f, Others, Numbers
  <2> QED BY <1>2, <1>3, <1>5, <2>1, FS_PigeonHole
<1>7. articles[f[m]].slug = <<t, m>> /\ articles[f[n]].slug = <<t, n>>
  BY <1>4 DEF Named
<1>8. <<t, m>> = <<t, n>>
  <2> HIDE DEF f
  <2> QED BY <1>6, <1>7
<1> QED BY <1>6, <1>8

(* The address the service gives an article is a slug, and none of another *)
(* article that is alive.                                                  *)
LEMMA UniqueSlugFree ==
  ASSUME PressAssumption, TypeOK, NEW t \in Title, NEW a \in Article
  PROVE  UniqueSlug(t, a) \in Slug /\ Named(UniqueSlug(t, a)) \subseteq {a}
<1>1. Free(t, a) \subseteq Nat /\ Free(t, a) # {}
  BY SomeNumberFree DEF Free
<1> DEFINE Below == OpToRel(<, Nat)
<1>2. Below = {ss \in Nat \X Nat : ss[1] < ss[2]} /\ IsWellFoundedOn(Below, Nat)
  BY NatLessThanWellFounded, Zenon DEF OpToRel
<1>3. \E n \in Free(t, a) : \A m \in Free(t, a) : n <= m
  <2> HIDE DEF Below
  <2>1. PICK n \in Free(t, a) : \A m \in Free(t, a) : ~(<<m, n>> \in Below)
    BY <1>1, <1>2, WFMin
  <2>2. ASSUME NEW m \in Free(t, a), m < n PROVE FALSE
    <3>1. <<m, n>> \in Nat \X Nat
      BY <1>1
    <3>2. <<m, n>> \in Below
      BY <1>2, <2>2, <3>1
    <3> QED BY <2>1, <3>2
  <2>3. \A m \in Free(t, a) : n <= m
    BY <1>1, <2>2
  <2> QED BY <2>3
<1> DEFINE least == CHOOSE k \in Free(t, a) : \A m \in Free(t, a) : k <= m
<1>4. least \in Free(t, a)
  BY <1>3
<1>5. UniqueSlug(t, a) = <<t, least>>
  BY DEF UniqueSlug
<1> HIDE DEF least
<1>6. least \in 1 .. Cardinality(Article) /\ Named(<<t, least>>) \ {a} = {}
  BY <1>4 DEF Free
<1>7. Named(<<t, least>>) \subseteq {a}
  BY <1>6
<1> QED BY <1>5, <1>6, <1>7 DEF Slug

(* What a request that is accepted makes of the article.                   *)
LEMMA EffectCases ==
  ASSUME NEW req \in RequestRow, NEW a \in Article, NEW actor, Effect(req, a, actor) # None
  PROVE  \/ /\ req.op = "create" /\ articles[a] = None
            /\ Effect(req, a, actor) = Created(req, a)
         \/ /\ req.op = "update" /\ a \in Named(req.slug)
            /\ Effect(req, a, actor) = Updated(req, a, actor)
         \/ /\ req.op = "submit" /\ a \in Named(req.slug)
            /\ Effect(req, a, actor) =
                 [articles[a] EXCEPT
                    !.status = IF MayPublish(actor) THEN "published" ELSE "pending_review"]
         \/ /\ req.op = "publish" /\ a \in Named(req.slug) /\ MayPublish(actor)
            /\ Effect(req, a, actor) = [articles[a] EXCEPT !.status = "published"]
<1>1. req.op \in {"create", "update", "submit", "publish"}
  BY DEF RequestRow
<1> QED BY <1>1 DEF Effect

(* It is a row of the table still.                                         *)
LEMMA EffectRow ==
  ASSUME PressAssumption, TypeOK, NEW req \in RequestRow, NEW actor,
         NEW a \in Accepting(req, actor)
  PROVE  Effect(req, a, actor) \in ArticleRow
<1>1. a \in Article /\ Effect(req, a, actor) # None
  BY DEF Accepting
<1>2. req.title \in Title /\ req.text \in Text
  BY DEF RequestRow
<1>3. UniqueSlug(req.title, a) \in Slug
  BY <1>1, <1>2, UniqueSlugFree
<1>4. CASE Effect(req, a, actor) = Created(req, a)
  BY <1>2, <1>3, <1>4 DEF Created, ArticleRow, Editable, Submittable
<1>5. CASE a \in Named(req.slug)
  <2>1. articles[a] \in ArticleRow
    BY <1>5 DEF Named, Alive, TypeOK
  <2>2. CASE Effect(req, a, actor) = Updated(req, a, actor)
    <3>1. AfterEdit(articles[a].status, actor) \in Editable \cup {"published"}
      BY <2>1 DEF AfterEdit, ArticleRow, Editable, Submittable
    <3> QED BY <1>2, <1>3, <2>1, <2>2, <3>1 DEF Updated, ArticleRow
  <2>3. CASE \E s \in {"published", "pending_review"} :
               Effect(req, a, actor) = [articles[a] EXCEPT !.status = s]
    BY <2>1, <2>3 DEF ArticleRow, Editable
  <2>4. \/ Effect(req, a, actor) = Created(req, a)
        \/ Effect(req, a, actor) = Updated(req, a, actor)
        \/ \E s \in {"published", "pending_review"} :
             Effect(req, a, actor) = [articles[a] EXCEPT !.status = s]
    BY <1>1, EffectCases
  <2> QED BY <1>4, <2>2, <2>3, <2>4
<1> QED BY <1>1, <1>4, <1>5, EffectCases
-----------------------------------------------------------------------------
(* A request that is carried out leaves the table a table.                 *)
LEMMA CarryTypes ==
  ASSUME PressAssumption, TypeOK, NEW req \in RequestRow, NEW actor,
         NEW a \in Accepting(req, actor),
         Carry(req, a, actor)
  PROVE  /\ articles' \in [Article -> ArticleRow \cup {None}]
         /\ articles'[a] = Effect(req, a, actor) /\ articles'[a] \in ArticleRow
         /\ right' \in BOOLEAN /\ trust' \in BOOLEAN /\ vetted' \in BOOLEAN
         /\ submitted' \in [Article -> (Title \X Text) \cup {None}]
<1>1. a \in Article /\ Effect(req, a, actor) \in ArticleRow
  BY EffectRow DEF Accepting
<1>2. articles \in [Article -> ArticleRow \cup {None}]
      /\ submitted \in [Article -> (Title \X Text) \cup {None}]
  BY DEF TypeOK
<1>3. articles' = [articles EXCEPT ![a] = Effect(req, a, actor)]
  BY DEF Carry
<1>4. right' \in BOOLEAN /\ trust' \in BOOLEAN /\ vetted' \in BOOLEAN
  BY Zenon DEF Carry
<1>5. submitted' \in [Article -> (Title \X Text) \cup {None}]
  <2>1. <<Effect(req, a, actor).title, Effect(req, a, actor).text>> \in Title \X Text
    BY <1>1 DEF ArticleRow
  <2> QED BY <1>1, <1>2, <2>1 DEF Carry
<1> QED BY <1>1, <1>2, <1>3, <1>4, <1>5

(* What is named is one of the articles, and a row.                        *)
LEMMA NamedRow ==
  ASSUME TypeOK, NEW slug, NEW a \in Named(slug)
  PROVE  a \in Article /\ articles[a] \in ArticleRow /\ articles[a].slug = slug
         /\ slug \in Slug
<1>1. a \in Article /\ articles[a] # None /\ articles[a].slug = slug
  BY DEF Named, Alive
<1>2. articles[a] \in ArticleRow
  BY <1>1 DEF TypeOK
<1> QED BY <1>1, <1>2 DEF ArticleRow

(* The page under an address is a page, with a form.                       *)
LEMMA OpenTypes ==
  ASSUME PressAssumption, TypeOK, NEW slug \in Slug \cup {None}, Open(slug)
  PROVE  /\ form' \in [title : Title, text : Text, slug : Slug \cup {None},
                        status : Editable \cup {"published", None}]
         /\ route' \in Route
<1>1. BlankForm \in [title : Title, text : Text, slug : Slug \cup {None},
                     status : Editable \cup {"published", None}]
  BY DEF BlankForm, PressAssumption
<1>2. CASE Named(slug) = {}
  BY <1>1, <1>2 DEF Open, At, Route
<1>3. CASE Named(slug) # {}
  <2> DEFINE a == CHOOSE b \in Named(slug) : TRUE
  <2>1. a \in Named(slug)
    BY <1>3
  <2>2. form' = FormOf(a) /\ route' = Edit(slug)
    BY <1>3 DEF Open
  <2> HIDE DEF a
  <2>3. articles[a] \in ArticleRow
    BY <2>1, NamedRow
  <2> QED BY <2>2, <2>3 DEF FormOf, Edit, Route, ArticleRow
<1> QED BY <1>2, <1>3

(* The lists of the staff hold addresses and statuses.                     *)
Lists == SUBSET [slug : Slug, status : Moderatable \cup Submittable \cup {"published"}]

LEMMA ShownTypes ==
  ASSUME articles \in [Article -> ArticleRow \cup {None}]
  PROVE  Shown \in Lists
<1> SUFFICES ASSUME NEW a \in Alive PROVE
      [slug |-> articles[a].slug, status |-> articles[a].status]
        \in [slug : Slug, status : Moderatable \cup Submittable \cup {"published"}]
  BY DEF Shown, Lists
<1>1. articles[a] \in ArticleRow
  BY DEF Alive
<1> QED BY <1>1 DEF ArticleRow, Editable, Moderatable, Submittable

LEMMA ShownTypesNext ==
  ASSUME articles' \in [Article -> ArticleRow \cup {None}]
  PROVE  Shown' \in Lists
<1> SUFFICES ASSUME NEW a \in Alive' PROVE
      [slug |-> articles'[a].slug, status |-> articles'[a].status]
        \in [slug : Slug, status : Moderatable \cup Submittable \cup {"published"}]
  BY DEF Shown, Lists
<1>1. articles'[a] \in ArticleRow
  BY DEF Alive
<1> QED BY <1>1 DEF ArticleRow, Editable, Moderatable, Submittable

(* A status that is set leaves a row a row.                                *)
LEMMA StatusTypes ==
  ASSUME TypeOK, NEW a \in Article, articles[a] \in ArticleRow,
         NEW s \in Editable \cup {"published"}, NEW d \in BOOLEAN,
         articles' \in {[articles EXCEPT ![a].status = s], [articles EXCEPT ![a].deleted = d]}
  PROVE  articles' \in [Article -> ArticleRow \cup {None}]
<1>1. articles \in [Article -> ArticleRow \cup {None}]
  BY DEF TypeOK
<1>2. [articles[a] EXCEPT !.status = s] \in ArticleRow
      /\ [articles[a] EXCEPT !.deleted = d] \in ArticleRow
  BY DEF ArticleRow
<1> QED BY <1>1, <1>2
-----------------------------------------------------------------------------
FormRow == [title : Title, text : Text, slug : Slug \cup {None},
            status : Editable \cup {"published", None}]

LEMMA InitTypes ==
  ASSUME PressAssumption, Init
  PROVE  TypeOK
<1>1. form \in FormRow
  BY DEF Init, BlankForm, PressAssumption, FormRow
<1>2. route \in Route /\ going \in Route \cup {None}
  BY DEF Init, At, Route
<1>3. articles \in [Article -> ArticleRow \cup {None}]
      /\ submitted \in [Article -> (Title \X Text) \cup {None}]
  BY DEF Init
<1>4. right \in BOOLEAN /\ knows \in BOOLEAN /\ trust \in BOOLEAN /\ vetted \in BOOLEAN
  BY Zenon DEF Init
<1>5. late \subseteq RequestRow /\ Cardinality(late) <= 1
  BY FS_EmptySet DEF Init
<1> QED BY <1>1, <1>2, <1>3, <1>4, <1>5 DEF Init, TypeOK, FormRow, PressAssumption

(* What the form sends is a request, and what it waits for a call.         *)
LEMMA CallTypes ==
  ASSUME PressAssumption
  PROVE  /\ \A req \in RequestRow : [state |-> "sent", req |-> req] \in CallRow \ {None}
         /\ \A op \in {"create", "update", "submit", "publish"}, slug \in Slug,
               status \in Editable \cup {"published"} :
              Answered(op, slug, status) \in CallRow \ {None}
         /\ Failed \in CallRow \ {None} /\ [state |-> "refresh"] \in CallRow \ {None}
         /\ None \notin Modes /\ None \notin Slug /\ None \notin Route
BY DEF CallRow, Answered, Failed, PressAssumption

(* Each step of the form and the service.                                  *)
LEMMA PageTypes ==
  ASSUME PressAssumption, TypeOK,
         \/ \E mode \in Modes, t \in Title, x \in Text : Click(mode, t, x)
         \/ Serve \/ GiveUp \/ ServeLate \/ Return \/ Fail \/ Refresh \/ Arrive
         \/ Leave \/ Write
  PROVE  TypeOK'
<1> USE DEF TypeOK
<1>1. ASSUME NEW mode \in Modes, NEW t \in Title, NEW x \in Text, Click(mode, t, x)
      PROVE  TypeOK'
  <2> DEFINE op == IF form.slug = None THEN "create" ELSE "update"
             req == [op |-> op, slug |-> form.slug, title |-> t, text |-> x]
  <2>1. req \in RequestRow
    BY DEF RequestRow
  <2>2. call' = [state |-> "sent", req |-> req]
    BY <1>1 DEF Click, Request
  <2>3. call' \in CallRow /\ call' # None /\ busy' # None
    BY <1>1, <2>1, <2>2, CallTypes DEF Click
  <2>4. form' \in FormRow
    BY <1>1 DEF Click, FormRow
  <2>5. clicks' \in 0 .. Clicks
    <3>1. clicks < Clicks /\ clicks' = clicks + 1
      BY <1>1, Zenon DEF Click
    <3>2. clicks \in 0 .. Clicks /\ Clicks \in Nat
      BY DEF PressAssumption
    <3> HIDE DEF TypeOK
    <3> QED BY <3>1, <3>2
  <2> QED BY <1>1, <2>3, <2>4, <2>5 DEF Click, desk, history, FormRow
<1>2. ASSUME Serve PROVE TypeOK'
  <2>1. call \in CallRow /\ call.state = "sent" /\ busy # None
    BY <1>2 DEF Serve
  <2>2. call.req \in RequestRow
    BY <2>1 DEF CallRow
  <2>3. UNCHANGED <<form, route, busy, late, going, knows, desk, clicks, acts>>
    BY <1>2 DEF Serve
  <2>4. ASSUME NEW a \in Accepting(call.req, "author"), Carry(call.req, a, "author"),
               call' = Answered(call.req.op, articles'[a].slug, articles'[a].status),
               acked' \subseteq acked \cup {a}
        PROVE  TypeOK'
    <3>1. a \in Article
      BY DEF Accepting
    <3>2. articles'[a] \in ArticleRow /\ articles' \in [Article -> ArticleRow \cup {None}]
          /\ submitted' \in [Article -> (Title \X Text) \cup {None}]
          /\ right' \in BOOLEAN /\ trust' \in BOOLEAN /\ vetted' \in BOOLEAN
      BY <2>2, <2>4, CarryTypes
    <3>3. call' \in CallRow \ {None}
      BY <2>2, <2>4, <3>2, CallTypes DEF ArticleRow, RequestRow
    <3> QED BY <2>1, <2>3, <2>4, <3>1, <3>2, <3>3 DEF desk
  <2>5. CASE call' = Failed /\ Refuse /\ UNCHANGED acked
    BY <2>1, <2>3, <2>5, CallTypes DEF Refuse, desk
  <2> QED BY <1>2, <2>4, <2>5 DEF Serve
<1>3. CASE GiveUp
  <2>1. call.req \in RequestRow /\ busy # None
    BY <1>3 DEF GiveUp, CallRow
  <2>2. late' \subseteq RequestRow /\ Cardinality(late') <= 1
    <3>1. Cardinality({call.req}) = 1
      BY FS_Singleton
    <3> QED BY <1>3, <2>1, <3>1 DEF GiveUp
  <2> QED BY <1>3, <2>1, <2>2, CallTypes DEF GiveUp, desk, history
<1>4. CASE ServeLate
  <2>1. UNCHANGED <<form, route, busy, call, going, knows, desk, acked, clicks, acts>>
        /\ late' \subseteq RequestRow /\ Cardinality(late') <= 1
    BY <1>4, FS_EmptySet DEF ServeLate
  <2>2. ASSUME NEW req \in late, NEW a \in Accepting(req, "author"), Carry(req, a, "author")
        PROVE  TypeOK'
    BY <2>1, <2>2, CarryTypes DEF desk
  <2>3. CASE Refuse
    BY <2>1, <2>3 DEF Refuse, desk
  <2> QED BY <1>4, <2>2, <2>3 DEF ServeLate
<1>5. CASE Return
  <2>1. call \in CallRow /\ call.state = "ok" /\ busy \in Modes
    BY <1>5 DEF Return
  <2>2. call.slug \in Slug /\ call.status \in Editable \cup {"published"}
    BY <2>1 DEF CallRow
  <2>3. UNCHANGED <<articles, right, route, busy, late, going, knows, desk, history, clicks, acts>>
    BY <1>5 DEF Return
  <2>4. ASSUME busy # "save", form' = Persisted(call),
               call' = [state |-> "sent", req |-> Request(busy, call.slug)]
        PROVE  TypeOK'
    <3>1. Request(busy, call.slug) \in RequestRow
      BY <2>1, <2>2, <2>4 DEF Request, RequestRow, Modes
    <3>2. call' \in CallRow \ {None}
      BY <2>4, <3>1, CallTypes
    <3>3. form' \in FormRow
      BY <2>2, <2>4 DEF Persisted, FormRow
    <3>4. busy' \in Modes /\ call' # None /\ late' = late /\ busy' # None
      BY <2>1, <2>3, <3>2, CallTypes
    <3> QED BY <2>3, <3>2, <3>3, <3>4 DEF desk, history, FormRow
  <2>5. ASSUME form' = [form EXCEPT !.slug = call.slug, !.status = call.status],
               call' = [state |-> "refresh"]
        PROVE  TypeOK'
    BY <2>1, <2>2, <2>3, <2>5, CallTypes DEF desk, history
  <2> QED BY <1>5, <2>4, <2>5 DEF Return
<1>6. CASE Fail
  BY <1>6 DEF Fail, Idle, desk, history
<1>7. CASE Refresh
  <2>1. knows' \in BOOLEAN
    BY <1>7 DEF Refresh
  <2>2. going' \in Route
    BY <1>7 DEF Refresh, Edit, At, Route
  <2> QED BY <1>7, <2>1, <2>2 DEF Refresh, desk, history
<1>8. CASE Arrive
  <2>1. form' \in FormRow /\ route' \in Route
    <3>1. CASE going = At("away")
      BY <1>8, <3>1 DEF Arrive, BlankForm, FormRow, PressAssumption
    <3>2. CASE UNCHANGED <<form, route>>
      BY <3>2 DEF FormRow
    <3>3. CASE Open(going.slug)
      <4>1. going.slug \in Slug \cup {None}
        BY <1>8 DEF Arrive, Route
      <4> QED BY <3>3, <4>1, OpenTypes DEF FormRow
    <3> QED BY <1>8, <3>1, <3>2, <3>3 DEF Arrive
  <2>2. acked' \subseteq Article
    BY <1>8 DEF Arrive
  <2> QED BY <1>8, <2>1, <2>2 DEF Arrive, desk, FormRow
<1>9. CASE Leave
  <2>1. form' \in FormRow /\ route' \in Route
    BY <1>9 DEF Leave, BlankForm, FormRow, PressAssumption, At, Route
  <2> QED BY <1>9, <2>1 DEF Leave, desk, FormRow
<1>10. CASE Write
  <2>1. form' \in FormRow /\ route' \in Route
    <3>1. CASE form' = BlankForm /\ route' = At("new")
      BY <3>1 DEF BlankForm, FormRow, PressAssumption, At, Route
    <3>2. ASSUME NEW a \in Alive, Open(articles[a].slug) PROVE form' \in FormRow /\ route' \in Route
      <4>1. articles[a] \in ArticleRow
        BY DEF Alive
      <4>2. articles[a].slug \in Slug \cup {None}
        BY <4>1 DEF ArticleRow
      <4> QED BY <3>2, <4>2, OpenTypes DEF FormRow
    <3> QED BY <1>10, <3>1, <3>2 DEF Write
  <2> QED BY <1>10, <2>1 DEF Write, desk, history, FormRow
<1> QED BY <1>1, <1>2, <1>3, <1>4, <1>5, <1>6, <1>7, <1>8, <1>9, <1>10

(* Each act of the staff.                                                  *)
LEMMA StaffTypes ==
  ASSUME PressAssumption, TypeOK,
         \/ LoadLists \/ GoOn
         \/ \E item \in seen :
              \/ \E decision \in {"publish", "request_changes", "reject"} : Decide(item, decision)
              \/ Revoke(item) \/ Hide(item)
              \/ \E mode \in Modes, t \in Title, x \in Text : Edited(item, mode, t, x)
         \/ \E slug \in Slug : Restore(slug)
  PROVE  TypeOK'
<1> USE DEF TypeOK
<1>1. ASSUME Act PROVE acts' \in 0 .. Acts
  <2>1. acts \in 0 .. Acts /\ Acts \in Nat /\ acts < Acts /\ acts' = acts + 1
    BY <1>1 DEF Act, PressAssumption
  <2> HIDE DEF TypeOK
  <2> QED BY <2>1
<1>2. CASE LoadLists
  BY <1>2, ShownTypes DEF LoadLists, Lists, page, history
<1>3. ASSUME NEW item \in seen, NEW decision \in {"publish", "request_changes", "reject"},
             Decide(item, decision)
      PROVE  TypeOK'
  <2>1. PICK a \in Named(item.slug) :
          articles' = [articles EXCEPT ![a].status = Outcome(decision)]
    BY <1>3 DEF Decide
  <2>2. a \in Article /\ articles[a] \in ArticleRow
    BY NamedRow
  <2>3. Outcome(decision) \in Editable \cup {"published"}
    BY DEF Outcome, Editable, Submittable
  <2>4. articles' \in [Article -> ArticleRow \cup {None}]
    BY <2>1, <2>2, <2>3, StatusTypes
  <2>5. right' \in BOOLEAN /\ trust' \in BOOLEAN /\ vetted' \in BOOLEAN
    BY <1>3, Zenon DEF Decide
  <2>6. seen' \in Lists /\ acts' \in 0 .. Acts
    BY <1>1, <1>3 DEF Decide, Lists
  <2> QED BY <1>3, <2>4, <2>5, <2>6 DEF Decide, Lists, page
<1>4. ASSUME NEW item \in seen, Revoke(item) PROVE TypeOK'
  <2>1. PICK a \in Named(item.slug) :
          seen' = (seen \ {item}) \cup {[slug |-> item.slug, status |-> articles[a].status]}
    BY <1>4 DEF Revoke
  <2>2. articles[a] \in ArticleRow
    BY NamedRow
  <2>3. seen' \in Lists /\ acts' \in 0 .. Acts
    BY <1>1, <1>4, <2>1, <2>2 DEF Revoke, Lists, ArticleRow, Editable, Submittable, Moderatable
  <2> QED BY <1>4, <2>3 DEF Revoke, Lists, page
<1>5. ASSUME NEW a \in Article, NEW d \in BOOLEAN, articles[a] \in ArticleRow,
             articles' = [articles EXCEPT ![a].deleted = d], seen' = Shown', Act,
             UNCHANGED <<right, page, onward, history, clicks>>
      PROVE  TypeOK'
  <2>1. "published" \in Editable \cup {"published"}
    OBVIOUS
  <2>2. articles' \in [Article -> ArticleRow \cup {None}]
    BY <1>5, <2>1, StatusTypes
  <2>3. seen' \in Lists
    BY <1>5, <2>2, ShownTypesNext
  <2> QED BY <1>1, <1>5, <2>2, <2>3 DEF Lists, page, history
<1>6. ASSUME NEW item \in seen, Hide(item) PROVE TypeOK'
  <2>1. PICK a \in Named(item.slug) : articles' = [articles EXCEPT ![a].deleted = TRUE]
    BY <1>6 DEF Hide
  <2>2. a \in Article /\ articles[a] \in ArticleRow
    BY NamedRow
  <2> QED BY <1>5, <1>6, <2>1, <2>2 DEF Hide
<1>7. ASSUME NEW slug \in Slug, Restore(slug) PROVE TypeOK'
  <2>1. PICK a \in RestoredBy(slug) : articles' = [articles EXCEPT ![a].deleted = FALSE]
    BY <1>7 DEF Restore
  <2>2. a \in Article /\ articles[a] \in ArticleRow
    BY DEF RestoredBy
  <2> QED BY <1>5, <1>7, <2>1, <2>2 DEF Restore
<1>8. ASSUME NEW item \in seen, NEW mode \in Modes, NEW t \in Title, NEW x \in Text,
             Edited(item, mode, t, x)
      PROVE  TypeOK'
  <2> DEFINE req == [op |-> "update", slug |-> item.slug, title |-> t, text |-> x]
  <2>1. PICK a \in Accepting(req, "staff") :
          /\ Carry(req, a, "staff")
          /\ onward' = IF mode = "save" THEN None
                       ELSE [req EXCEPT !.op = mode, !.slug = articles'[a].slug]
          /\ seen' = (seen \ {item}) \cup
                       {[slug |-> articles'[a].slug, status |-> articles'[a].status]}
    BY <1>8, Zenon DEF Edited
  <2>2. req \in RequestRow
    BY DEF RequestRow
  <2> HIDE DEF req
  <2>3. articles' \in [Article -> ArticleRow \cup {None}] /\ articles'[a] \in ArticleRow
        /\ submitted' \in [Article -> (Title \X Text) \cup {None}]
        /\ right' \in BOOLEAN /\ trust' \in BOOLEAN /\ vetted' \in BOOLEAN
    BY <2>1, <2>2, CarryTypes
  <2>4. onward' \in RequestRow \cup {None}
    BY <2>1, <2>2, <2>3 DEF RequestRow, ArticleRow, Modes
  <2>5. seen' \in Lists
    BY <2>1, <2>3 DEF Lists, ArticleRow, Editable, Submittable, Moderatable
  <2>6. UNCHANGED <<page, acked, clicks>> /\ acts' \in 0 .. Acts
    BY <1>1, <1>8 DEF Edited
  <2> QED BY <2>3, <2>4, <2>5, <2>6 DEF Lists, page
<1>9. CASE GoOn
  <2>1. UNCHANGED <<page, seen, acked, clicks, acts>> /\ onward' = None /\ onward \in RequestRow
    BY <1>9 DEF GoOn
  <2>2. ASSUME NEW a \in Accepting(onward, "staff"), Carry(onward, a, "staff") PROVE TypeOK'
    BY <2>1, <2>2, CarryTypes DEF page
  <2>3. CASE Refuse
    BY <2>1, <2>3 DEF Refuse, page
  <2> QED BY <1>9, <2>2, <2>3 DEF GoOn
<1> QED BY <1>2, <1>3, <1>4, <1>6, <1>7, <1>8, <1>9

(* The state keeps its type, for any articles, titles and texts.           *)
THEOREM TypeCorrect ==
  ASSUME PressAssumption
  PROVE  Spec => []TypeOK
<1>1. Init => TypeOK
  BY InitTypes
<1>2. TypeOK /\ [Next]_vars => TypeOK'
  <2> SUFFICES ASSUME TypeOK, [Next]_vars PROVE TypeOK'
    OBVIOUS
  <2>1. CASE UNCHANGED vars
    BY <2>1 DEF TypeOK, vars
  <2> QED BY <2>1, PageTypes, StaffTypes DEF Next
<1> QED BY <1>1, <1>2, PTL DEF Spec
-----------------------------------------------------------------------------
(* What a step means to the service: it carries out a request of a form,   *)
(* late or in time, or an act of the staff, or changes none of what it     *)
(* keeps.                                                                  *)
kept == <<articles, right, trust, vetted, submitted>>

Actor == {"author", "staff"}
Carries == \E actor \in Actor, req \in RequestRow : \E a \in Accepting(req, actor) :
             Carry(req, a, actor)
Decides == \E item \in seen, decision \in {"publish", "request_changes", "reject"} :
             Decide(item, decision)
Revokes == /\ right' = FALSE /\ trust' = FALSE
           /\ UNCHANGED <<articles, vetted, submitted>>
Hides == \E a \in Article :
           /\ articles[a] # None
           /\ articles' = [articles EXCEPT ![a].deleted = TRUE]
           /\ UNCHANGED <<right, trust, vetted, submitted>>
Restores == \E slug \in Slug : \E a \in RestoredBy(slug) :
              /\ articles' = [articles EXCEPT ![a].deleted = FALSE]
              /\ UNCHANGED <<right, trust, vetted, submitted>>

LEMMA StepKinds ==
  ASSUME TypeOK, [Next]_vars
  PROVE  Carries \/ Decides \/ Revokes \/ Hides \/ Restores \/ UNCHANGED kept
<1>1. CASE Serve
  <2>1. call.req \in RequestRow
    BY <1>1 DEF Serve, TypeOK, CallRow
  <2>2. CASE \E a \in Accepting(call.req, "author") : Carry(call.req, a, "author")
    BY <2>1, <2>2 DEF Carries, Actor
  <2>3. CASE Refuse
    BY <2>3 DEF Refuse, kept
  <2> QED BY <1>1, <2>2, <2>3 DEF Serve
<1>2. CASE ServeLate
  <2>1. ASSUME NEW req \in late, \E a \in Accepting(req, "author") : Carry(req, a, "author")
        PROVE  Carries
    <3>1. req \in RequestRow
      BY DEF TypeOK
    <3> QED BY <2>1, <3>1 DEF Carries, Actor
  <2>2. CASE Refuse
    BY <2>2 DEF Refuse, kept
  <2> QED BY <1>2, <2>1, <2>2 DEF ServeLate
<1>3. CASE \E item \in seen, decision \in {"publish", "request_changes", "reject"} :
             Decide(item, decision)
  BY <1>3 DEF Decides
<1>4. ASSUME NEW item \in seen, Revoke(item) PROVE Revokes
  BY <1>4 DEF Revoke, Revokes
<1>5. ASSUME NEW item \in seen, Hide(item) PROVE Hides
  <2>1. PICK a \in Named(item.slug) : articles' = [articles EXCEPT ![a].deleted = TRUE]
    BY <1>5 DEF Hide
  <2>2. a \in Article /\ articles[a] # None
    BY DEF Named, Alive
  <2> QED BY <1>5, <2>1, <2>2 DEF Hide, Hides, history
<1>6. ASSUME NEW slug \in Slug, Restore(slug) PROVE Restores
  BY <1>6 DEF Restore, Restores, history
<1>7. CASE \E mode \in Modes, t \in Title, x \in Text : Click(mode, t, x)
  BY <1>7 DEF Click, kept, history
<1>8. CASE GiveUp \/ Return \/ Fail \/ Refresh \/ Arrive \/ Leave \/ Write \/ LoadLists
  <2>1. (GiveUp \/ Return \/ Fail) => UNCHANGED kept
    BY DEF GiveUp, Return, Fail, kept, history
  <2>2. (Refresh \/ Arrive \/ Leave \/ Write \/ LoadLists) => UNCHANGED kept
    BY DEF Refresh, Arrive, Leave, Write, LoadLists, kept, history
  <2> QED BY <1>8, <2>1, <2>2
<1>9. CASE UNCHANGED vars
  BY <1>9 DEF vars, kept
<1>10. ASSUME NEW item \in seen, NEW mode \in Modes, NEW t \in Title, NEW x \in Text,
              Edited(item, mode, t, x)
       PROVE  Carries
  <2> DEFINE req == [op |-> "update", slug |-> item.slug, title |-> t, text |-> x]
  <2>1. \E a \in Accepting(req, "staff") : Carry(req, a, "staff")
    BY <1>10, Zenon DEF Edited
  <2>2. req \in RequestRow
    BY DEF RequestRow, TypeOK
  <2> HIDE DEF req
  <2> QED BY <2>1, <2>2 DEF Carries, Actor
<1>11. CASE GoOn
  <2>1. onward \in RequestRow
    BY <1>11 DEF GoOn, TypeOK
  <2> QED BY <1>11, <2>1 DEF GoOn, Carries, Actor, Refuse, kept
<1> QED BY <1>1, <1>2, <1>3, <1>4, <1>5, <1>6, <1>7, <1>8, <1>9, <1>10, <1>11 DEF Next
-----------------------------------------------------------------------------
(* Trust is what right rests on, and no trust was ever given but by a      *)
(* publication of the staff.                                               *)
TrustInv == TrustIsGiven /\ (trust => vetted)

LEMMA TrustStep ==
  ASSUME PressAssumption, TypeOK, TrustInv, [Next]_vars
  PROVE  TrustInv'
<1> DEFINE Published(row) == row # None /\ row.status = "published"
<1> USE DEF TrustInv, TrustIsGiven
<1>1. CASE Carries
  <2>0. PICK actor \in Actor, req \in RequestRow :
          \E a \in Accepting(req, actor) : Carry(req, a, actor)
    BY <1>1 DEF Carries
  <2>1. PICK a \in Accepting(req, actor) : Carry(req, a, actor)
    BY <2>0
  <2> DEFINE row == Effect(req, a, actor)
             public == Publishes(req, row)
  <2>2. a \in Article /\ row # None
    BY DEF Accepting
  <2>3. articles'[a] = row /\ \A b \in Article \ {a} : articles'[b] = articles[b]
    BY <2>1, <2>2 DEF Carry, TypeOK
  <2>4. row.status = "published" => vetted \/ public
    <3>1. ASSUME req.op = "update", a \in Named(req.slug), row = Updated(req, a, actor),
                 row.status = "published"
          PROVE  vetted
      <4>1. a \in Article /\ articles[a] # None /\ articles[a] \in ArticleRow
        BY <3>1, NamedRow DEF Named, Alive
      <4>2. row.status = AfterEdit(articles[a].status, actor)
        BY <3>1, <4>1 DEF Updated, ArticleRow
      <4>3. articles[a].status = "published"
        BY <3>1, <4>2 DEF AfterEdit
      <4> QED BY <4>1, <4>3
    <3>2. CASE row = Created(req, a)
      BY <3>2 DEF Created
    <3> QED BY <2>2, <3>1, <3>2, EffectCases DEF Publishes
  <2>5. public => right \/ actor = "staff"
    <3>1. ASSUME a \in Named(req.slug), row.status = "published",
                 row = [articles[a] EXCEPT
                          !.status = IF MayPublish(actor) THEN "published" ELSE "pending_review"]
          PROVE  MayPublish(actor)
      <4>1. articles[a] \in ArticleRow
        BY <3>1, NamedRow
      <4> QED BY <3>1, <4>1 DEF ArticleRow
    <3>2. public => MayPublish(actor)
      BY <2>2, <3>1, EffectCases DEF Publishes
    <3> QED BY <3>2 DEF MayPublish
  <2>6. /\ right' = (right \/ public)
        /\ trust' = (trust \/ (actor = "staff" /\ public))
        /\ vetted' = (vetted \/ (actor = "staff" /\ public))
    BY <2>1, Zenon DEF Carry
  <2> HIDE DEF row, public
  <2>7. (right' => trust') /\ (trust' => vetted') /\ (row.status = "published" => vetted')
        /\ (vetted => vetted')
    BY <2>4, <2>5, <2>6, Zenon
  <2> QED BY <2>3, <2>7
<1>2. CASE Decides
  <2>1. PICK item \in seen, decision \in {"publish", "request_changes", "reject"} :
          Decide(item, decision)
    BY <1>2 DEF Decides
  <2>2. PICK a \in Named(item.slug) :
          articles' = [articles EXCEPT ![a].status = Outcome(decision)]
    BY <2>1 DEF Decide
  <2>3. a \in Article /\ articles[a] \in ArticleRow
    BY NamedRow
  <2>4. articles'[a].status = Outcome(decision) /\ \A b \in Article \ {a} : articles'[b] = articles[b]
    BY <2>2, <2>3 DEF TypeOK, ArticleRow
  <2>5. /\ right' = (right \/ decision = "publish")
        /\ trust' = (trust \/ decision = "publish")
        /\ vetted' = (vetted \/ decision = "publish")
    BY <2>1, Zenon DEF Decide
  <2>6. Outcome(decision) = "published" => decision = "publish"
    BY <2>1 DEF Outcome
  <2>7. (right' => trust') /\ (trust' => vetted') /\ (vetted => vetted')
        /\ (decision = "publish" => vetted')
    BY <2>5, Zenon
  <2> QED BY <2>4, <2>6, <2>7
<1>3. CASE Revokes
  BY <1>3 DEF Revokes
<1>4. CASE Hides \/ Restores
  <2>1. PICK a \in Article, d \in BOOLEAN :
          articles[a] # None /\ articles' = [articles EXCEPT ![a].deleted = d]
    <3>1. CASE Hides
      BY <3>1 DEF Hides
    <3>2. CASE Restores
      BY <3>2 DEF Restores, RestoredBy
    <3> QED BY <1>4, <3>1, <3>2
  <2>2. UNCHANGED <<right, trust, vetted>>
    BY <1>4 DEF Hides, Restores
  <2>3. articles[a] \in ArticleRow /\ articles'[a].status = articles[a].status
        /\ \A b \in Article \ {a} : articles'[b] = articles[b]
    BY <2>1 DEF TypeOK, ArticleRow
  <2> QED BY <2>1, <2>2, <2>3
<1>5. CASE UNCHANGED kept
  BY <1>5 DEF kept
<1> QED BY <1>1, <1>2, <1>3, <1>4, <1>5, StepKinds

(* For any articles and acts, the author publishes on his own only while   *)
(* the trust of the staff lasts, and nothing is public but by it.          *)
THEOREM TrustHolds ==
  ASSUME PressAssumption
  PROVE  Spec => []TrustIsGiven
<1>1. Init => TrustInv
  <2> SUFFICES ASSUME Init PROVE TrustInv
    OBVIOUS
  <2>1. right = trust /\ trust = vetted
    BY DEF Init
  <2>2. \A a \in Article : articles[a] = None
    BY DEF Init
  <2> QED BY <2>1, <2>2 DEF TrustInv, TrustIsGiven
<1>2. TypeOK /\ TrustInv /\ [Next]_vars => TrustInv'
  BY TrustStep
<1>3. TrustInv => TrustIsGiven
  BY DEF TrustInv
<1> QED BY <1>1, <1>2, <1>3, TypeCorrect, PTL DEF Spec
-----------------------------------------------------------------------------
(* Removed articles are as they were, so that one that comes back is too.  *)
QueueInv ==
  \A a \in Article :
    articles[a] # None /\ articles[a].status = "pending_review" =>
      submitted[a] = <<articles[a].title, articles[a].text>>

(* A step that changes a status to another than pending_review, or removes *)
(* an article or brings it back, adds nothing to the queue.                *)
LEMMA QueueOthers ==
  ASSUME TypeOK, QueueInv, NEW a \in Article, NEW row, submitted' = submitted,
         articles' = [articles EXCEPT ![a] = row],
         row.status = "pending_review" =>
           articles[a] # None /\ articles[a].status = "pending_review"
             /\ row.title = articles[a].title /\ row.text = articles[a].text
  PROVE  QueueInv'
<1>1. articles'[a] = row /\ \A b \in Article \ {a} : articles'[b] = articles[b]
  BY DEF TypeOK
<1>2. ASSUME NEW b \in Article, articles'[b] # None, articles'[b].status = "pending_review"
      PROVE  submitted'[b] = <<articles'[b].title, articles'[b].text>>
  <2>1. CASE b = a
    BY <1>1, <1>2, <2>1 DEF QueueInv
  <2>2. CASE b # a
    BY <1>1, <1>2, <2>2 DEF QueueInv
  <2> QED BY <2>1, <2>2
<1> QED BY <1>2 DEF QueueInv

LEMMA QueueStep ==
  ASSUME PressAssumption, TypeOK, QueueInv, [Next]_vars
  PROVE  QueueInv'
<1>1. CASE Carries
  <2>0. PICK actor \in Actor, req \in RequestRow :
          \E a \in Accepting(req, actor) : Carry(req, a, actor)
    BY <1>1 DEF Carries
  <2>1. PICK a \in Accepting(req, actor) : Carry(req, a, actor)
    BY <2>0
  <2>2. a \in Article /\ Effect(req, a, actor) # None
    BY DEF Accepting
  <2> DEFINE row == Effect(req, a, actor)
             sent == row.status = "pending_review" /\ (req.op = "submit" \/ actor = "staff")
  <2>3. /\ articles' = [articles EXCEPT ![a] = row]
        /\ submitted' = [submitted EXCEPT ![a] = IF sent THEN <<row.title, row.text>> ELSE @]
    BY <2>1 DEF Carry
  <2>4. row.status = "pending_review" => sent
    <3>1. CASE row = Created(req, a)
      BY <3>1 DEF Created
    <3>2. ASSUME req.op = "update", a \in Named(req.slug), row = Updated(req, a, actor),
                 row.status = "pending_review"
          PROVE  actor = "staff"
      <4>1. articles[a] \in ArticleRow
        BY <3>2, NamedRow
      <4>2. row.status = AfterEdit(articles[a].status, actor)
        BY <3>2, <4>1 DEF Updated, ArticleRow
      <4> QED BY <3>2, <4>2 DEF AfterEdit
    <3>3. ASSUME a \in Named(req.slug), row = [articles[a] EXCEPT !.status = "published"]
          PROVE  row.status # "pending_review"
      <4>1. articles[a] \in ArticleRow
        BY <3>3, NamedRow
      <4> QED BY <3>3, <4>1 DEF ArticleRow
    <3> QED BY <2>2, <3>1, <3>2, <3>3, EffectCases
  <2> HIDE DEF row
  <2>5. /\ articles'[a] = row
        /\ row.status = "pending_review" => submitted'[a] = <<row.title, row.text>>
        /\ \A b \in Article \ {a} : articles'[b] = articles[b] /\ submitted'[b] = submitted[b]
    BY <2>2, <2>3, <2>4 DEF TypeOK
  <2> QED BY <2>5 DEF QueueInv
<1>2. CASE Decides
  <2>1. PICK item \in seen, decision \in {"publish", "request_changes", "reject"} :
          Decide(item, decision)
    BY <1>2 DEF Decides
  <2>2. PICK a \in Named(item.slug) :
          articles' = [articles EXCEPT ![a].status = Outcome(decision)]
    BY <2>1 DEF Decide
  <2>3. a \in Article /\ articles[a] \in ArticleRow
    BY NamedRow
  <2> DEFINE row == [articles[a] EXCEPT !.status = Outcome(decision)]
  <2>4. articles' = [articles EXCEPT ![a] = row]
    BY <2>2
  <2>5. row.status = Outcome(decision)
    BY <2>3 DEF ArticleRow
  <2>6. row.status # "pending_review"
    BY <2>1, <2>5 DEF Outcome
  <2>7. submitted' = submitted
    BY <2>1 DEF Decide
  <2> HIDE DEF row
  <2> QED BY <2>3, <2>4, <2>6, <2>7, QueueOthers
<1>3. CASE Revokes
  BY <1>3 DEF Revokes, QueueInv
<1>4. CASE Hides \/ Restores
  <2>1. PICK a \in Article, d \in BOOLEAN :
          articles[a] # None /\ articles' = [articles EXCEPT ![a].deleted = d]
    <3>1. CASE Hides
      BY <3>1 DEF Hides
    <3>2. CASE Restores
      BY <3>2 DEF Restores, RestoredBy
    <3> QED BY <1>4, <3>1, <3>2
  <2>2. submitted' = submitted
    BY <1>4 DEF Hides, Restores
  <2> DEFINE row == [articles[a] EXCEPT !.deleted = d]
  <2>3. articles' = [articles EXCEPT ![a] = row]
    BY <2>1
  <2>4. articles[a] \in ArticleRow
    BY <2>1 DEF TypeOK
  <2>5. row.status = articles[a].status /\ row.title = articles[a].title
        /\ row.text = articles[a].text
    BY <2>4 DEF ArticleRow
  <2> HIDE DEF row
  <2> QED BY <2>1, <2>2, <2>3, <2>5, QueueOthers
<1>5. CASE UNCHANGED kept
  BY <1>5 DEF kept, QueueInv
<1> QED BY <1>1, <1>2, <1>3, <1>4, <1>5, StepKinds

(* For any articles and texts, what the staff find in the queue is what    *)
(* the author sent to review, or what the staff have made of it since.     *)
THEOREM QueueHolds ==
  ASSUME PressAssumption
  PROVE  Spec => []QueueHoldsSubmitted
<1>1. Init => QueueInv
  BY DEF Init, QueueInv
<1>2. TypeOK /\ QueueInv /\ [Next]_vars => QueueInv'
  BY QueueStep
<1>3. QueueInv => QueueHoldsSubmitted
  BY DEF QueueInv, QueueHoldsSubmitted, Alive
<1> QED BY <1>1, <1>2, <1>3, TypeCorrect, PTL DEF Spec
-----------------------------------------------------------------------------
(* No two articles that are alive have one address.                        *)
SlugsApart == \A a, b \in Alive : articles[a].slug = articles[b].slug => a = b

(* A step may set the address of one article to one that no other has.     *)
LEMMA SlugsOthers ==
  ASSUME TypeOK, SlugsApart, NEW a \in Article, NEW row,
         articles' = [articles EXCEPT ![a] = row],
         ~row.deleted => Named(row.slug) \subseteq {a}
  PROVE  SlugsApart'
<1>1. articles'[a] = row /\ \A b \in Article \ {a} : articles'[b] = articles[b]
  BY DEF TypeOK
<1>2. ASSUME NEW b \in Alive', b # a PROVE b \in Alive /\ articles'[b].slug = articles[b].slug
  BY <1>1, <1>2 DEF Alive
<1>3. ASSUME NEW b \in Alive', b # a, a \in Alive', articles'[a].slug = articles'[b].slug
      PROVE  FALSE
  <2>1. ~row.deleted
    BY <1>1, <1>3 DEF Alive
  <2>2. b \in Named(row.slug)
    BY <1>1, <1>2, <1>3 DEF Named
  <2> QED BY <1>3, <2>1, <2>2
<1>4. ASSUME NEW b \in Alive', NEW c \in Alive', articles'[b].slug = articles'[c].slug
      PROVE  b = c
  <2>1. CASE b # a /\ c # a
    BY <1>2, <1>4, <2>1 DEF SlugsApart
  <2>2. CASE b = a \/ c = a
    BY <1>3, <1>4, <2>2
  <2> QED BY <2>1, <2>2
<1> QED BY <1>4 DEF SlugsApart

(* The one article that answers to its address is alone there.             *)
LEMMA NamedAlone ==
  ASSUME SlugsApart, NEW slug, NEW a \in Named(slug)
  PROVE  Named(slug) \subseteq {a}
BY DEF SlugsApart, Named

LEMMA SlugsStep ==
  ASSUME PressAssumption, TypeOK, SlugsApart, [Next]_vars
  PROVE  SlugsApart'
<1>1. CASE Carries
  <2>0. PICK actor \in Actor, req \in RequestRow :
          \E a \in Accepting(req, actor) : Carry(req, a, actor)
    BY <1>1 DEF Carries
  <2>1. PICK a \in Accepting(req, actor) : Carry(req, a, actor)
    BY <2>0
  <2>2. a \in Article /\ Effect(req, a, actor) # None
    BY DEF Accepting
  <2> DEFINE row == Effect(req, a, actor)
  <2>3. articles' = [articles EXCEPT ![a] = row]
    BY <2>1 DEF Carry
  <2>4. Named(UniqueSlug(req.title, a)) \subseteq {a}
    BY <2>2, UniqueSlugFree DEF RequestRow
  <2>5. ASSUME a \in Named(req.slug), row.slug = articles[a].slug
        PROVE  Named(row.slug) \subseteq {a}
    BY <2>5, NamedAlone, NamedRow
  <2>6. Named(row.slug) \subseteq {a}
    <3>1. CASE row = Created(req, a)
      BY <2>4, <3>1 DEF Created
    <3>2. ASSUME a \in Named(req.slug), row = Updated(req, a, actor)
          PROVE  Named(row.slug) \subseteq {a}
      <4>1. articles[a] \in ArticleRow
        BY <3>2, NamedRow
      <4>2. row.slug \in {articles[a].slug, UniqueSlug(req.title, a)}
        BY <3>2, <4>1 DEF Updated, ArticleRow
      <4> HIDE DEF row
      <4> QED BY <2>4, <2>5, <3>2, <4>2
    <3>3. ASSUME a \in Named(req.slug),
                 \E s \in {"published", "pending_review"} : row = [articles[a] EXCEPT !.status = s]
          PROVE  Named(row.slug) \subseteq {a}
      <4>1. articles[a] \in ArticleRow
        BY <3>3, NamedRow
      <4>2. row.slug = articles[a].slug
        BY <3>3, <4>1 DEF ArticleRow
      <4> HIDE DEF row
      <4> QED BY <2>5, <3>3, <4>2
    <3> QED BY <2>2, <3>1, <3>2, <3>3, EffectCases
  <2> HIDE DEF row
  <2> QED BY <2>2, <2>3, <2>6, SlugsOthers
<1>2. CASE Decides
  <2>1. PICK item \in seen, decision \in {"publish", "request_changes", "reject"} :
          Decide(item, decision)
    BY <1>2 DEF Decides
  <2>2. PICK a \in Named(item.slug) :
          articles' = [articles EXCEPT ![a].status = Outcome(decision)]
    BY <2>1 DEF Decide
  <2>3. a \in Article /\ articles[a] \in ArticleRow /\ articles[a].slug = item.slug
    BY NamedRow
  <2> DEFINE row == [articles[a] EXCEPT !.status = Outcome(decision)]
  <2>4. articles' = [articles EXCEPT ![a] = row] /\ row.slug = item.slug
    BY <2>2, <2>3 DEF ArticleRow
  <2> HIDE DEF row
  <2>5. Named(row.slug) \subseteq {a}
    BY <2>4, NamedAlone
  <2> QED BY <2>3, <2>4, <2>5, SlugsOthers
<1>3. CASE Hides
  <2>1. PICK a \in Article :
          articles[a] # None /\ articles' = [articles EXCEPT ![a].deleted = TRUE]
    BY <1>3 DEF Hides
  <2> DEFINE row == [articles[a] EXCEPT !.deleted = TRUE]
  <2>2. articles' = [articles EXCEPT ![a] = row] /\ row.deleted
    BY <2>1 DEF TypeOK, ArticleRow
  <2> HIDE DEF row
  <2> QED BY <2>1, <2>2, SlugsOthers
<1>4. CASE Restores
  <2>0. PICK slug \in Slug : \E a \in RestoredBy(slug) :
          articles' = [articles EXCEPT ![a].deleted = FALSE]
    BY <1>4 DEF Restores
  <2>1. PICK a \in RestoredBy(slug) : articles' = [articles EXCEPT ![a].deleted = FALSE]
    BY <2>0
  <2> DEFINE all == {b \in Article : articles[b] # None /\ articles[b].slug = slug}
  <2>2. Cardinality(all) = 1 /\ a \in all
    BY DEF RestoredBy
  <2>3. all \subseteq {a}
    <3>1. IsFiniteSet(all)
      BY FS_Subset DEF PressAssumption
    <3> HIDE DEF all
    <3>2. \E b : all = {b}
      BY <2>2, <3>1, FS_Singleton
    <3> QED BY <2>2, <3>2
  <2> DEFINE row == [articles[a] EXCEPT !.deleted = FALSE]
  <2>4. articles[a] \in ArticleRow
    BY <2>2 DEF TypeOK
  <2>5. articles' = [articles EXCEPT ![a] = row] /\ row.slug = slug
    BY <2>1, <2>2, <2>4 DEF ArticleRow
  <2>6. Named(slug) \subseteq {a}
    BY <2>3 DEF Named, Alive
  <2> HIDE DEF row
  <2> QED BY <2>2, <2>5, <2>6, SlugsOthers
<1>5. CASE articles' = articles
  BY <1>5 DEF SlugsApart, Alive
<1> QED BY <1>1, <1>2, <1>3, <1>4, <1>5, StepKinds DEF Revokes, kept

LEMMA SlugsCount ==
  ASSUME SlugsApart
  PROVE  SlugsUnique
<1> SUFFICES ASSUME NEW slug \in Slug PROVE Cardinality(Named(slug)) <= 1
  BY DEF SlugsUnique
<1>1. CASE Named(slug) = {}
  BY <1>1, FS_EmptySet
<1>2. ASSUME NEW a \in Named(slug) PROVE Cardinality(Named(slug)) <= 1
  <2>1. Named(slug) = {a}
    BY NamedAlone
  <2>2. Cardinality({a}) = 1
    BY FS_Singleton
  <2> QED BY <2>1, <2>2
<1> QED BY <1>1, <1>2
-----------------------------------------------------------------------------
(* A form that was told of an article knows its address, or holds the      *)
(* answer that brings it: so it asks for no second one.  Nothing else is   *)
(* under way from a page that has no form.                                 *)
Sent == call # None /\ call.state = "sent"
Told == call # None /\ call.state = "ok" /\ call.op = "create"

FormInv ==
  /\ \A a, b \in acked : a = b
  /\ (call # None \/ going # None) => OnForm
  /\ going # None => call = None
  /\ going \in {None, At("away")} \cup {Edit(slug) : slug \in Slug \cup {None}}
  /\ ~OnForm => acked = {}
  /\ acked # {} => form.slug # None \/ Told
  /\ Sent /\ call.req.op = "create" => form.slug = None /\ acked = {}

LEMMA FormStep ==
  ASSUME PressAssumption, TypeOK, FormInv, [Next]_vars
  PROVE  FormInv'
<1> USE DEF FormInv, Sent, Told, OnForm
<1>1. ASSUME NEW mode \in Modes, NEW t \in Title, NEW x \in Text, Click(mode, t, x)
      PROVE  FormInv'
  <2>1. call = None /\ going = None /\ OnForm
    BY <1>1 DEF Click, TypeOK
  <2>2. call'.state = "sent" /\ call'.req.op = IF form.slug = None THEN "create" ELSE "update"
    BY <1>1 DEF Click, Request
  <2>3. form'.slug = form.slug
    BY <1>1 DEF Click, TypeOK
  <2>4. UNCHANGED <<acked, going, route>>
    BY <1>1 DEF Click, history
  <2> QED BY <2>1, <2>2, <2>3, <2>4
<1>2. CASE Serve
  <2>1. call # None /\ call.state = "sent" /\ UNCHANGED <<form, route, going>>
    BY <1>2 DEF Serve
  <2>2. ASSUME NEW a \in Accepting(call.req, "author"), Carry(call.req, a, "author"),
               call' = Answered(call.req.op, articles'[a].slug, articles'[a].status),
               acked' = IF call.req.op = "create" THEN acked \cup {a} ELSE acked
        PROVE  FormInv'
    <3>1. call'.state = "ok" /\ call'.op = call.req.op
      BY <2>2 DEF Answered
    <3>2. call' # None
      <4>1. call.req.op \in {"create", "update", "submit", "publish"}
        BY <2>1 DEF TypeOK, CallRow, RequestRow
      <4>2. articles'[a] \in ArticleRow
        <5>1. call.req \in RequestRow
          BY <2>1 DEF TypeOK, CallRow
        <5> QED BY <2>2, <5>1, CarryTypes
      <4> QED BY <2>2, <4>1, <4>2, CallTypes DEF ArticleRow
    <3>3. CASE call.req.op = "create"
      BY <2>1, <2>2, <3>1, <3>2, <3>3
    <3>4. CASE call.req.op # "create"
      BY <2>1, <2>2, <3>1, <3>2, <3>4
    <3> QED BY <3>3, <3>4
  <2>3. CASE call' = Failed /\ UNCHANGED acked
    BY <2>1, <2>3, CallTypes DEF Failed
  <2> QED BY <1>2, <2>2, <2>3 DEF Serve
<1>3. CASE GiveUp
  <2>1. call # None /\ call.state = "sent" /\ call' = Failed
        /\ UNCHANGED <<form, route, going, acked>>
    BY <1>3 DEF GiveUp, history
  <2> QED BY <2>1, CallTypes DEF Failed
<1>4. CASE ServeLate
  <2>1. UNCHANGED <<form, route, call, going, acked>>
    BY <1>4 DEF ServeLate
  <2> QED BY <2>1
<1>5. CASE Return
  <2>1. /\ call # None /\ call.state = "ok" /\ call.slug \in Slug /\ busy \in Modes
        /\ UNCHANGED <<route, going, acked>>
    BY <1>5 DEF Return, TypeOK, CallRow, history
  <2>2. call.slug # None
    BY <2>1, CallTypes
  <2>3. ASSUME busy # "save", form' = Persisted(call), call.op \in {"create", "update"},
               call' = [state |-> "sent", req |-> Request(busy, call.slug)]
        PROVE  FormInv'
    <3>1. call'.state = "sent" /\ call'.req.op = busy /\ busy # "create"
      BY <2>1, <2>3 DEF Request, Modes
    <3>2. form'.slug = IF call.op = "create" THEN call.slug ELSE form.slug
      BY <2>3 DEF Persisted, TypeOK
    <3> QED BY <2>1, <2>2, <2>3, <3>1, <3>2
  <2>4. ASSUME form' = [form EXCEPT !.slug = call.slug, !.status = call.status],
               call' = [state |-> "refresh"]
        PROVE  FormInv'
    <3>1. form'.slug = call.slug /\ call'.state = "refresh"
      BY <2>4 DEF TypeOK
    <3> QED BY <2>1, <2>2, <3>1
  <2> QED BY <1>5, <2>3, <2>4 DEF Return
<1>6. CASE Fail
  <2>1. call.state = "failed" /\ call' = None /\ UNCHANGED <<form, route, going, acked>>
    BY <1>6 DEF Fail, Failed, Idle, history
  <2> QED BY <2>1
<1>7. CASE Refresh
  <2>1. call # None /\ call.state = "refresh" /\ call' = None
        /\ UNCHANGED <<form, route, acked>>
    BY <1>7 DEF Refresh, history
  <2>2. going' \in {At("away")} \cup {Edit(slug) : slug \in Slug \cup {None}}
    BY <1>7 DEF Refresh, TypeOK
  <2> QED BY <2>1, <2>2
<1>8. CASE Arrive
  <2>1. /\ going # None /\ call = None /\ OnForm /\ going' = None /\ call' = None
        /\ acked' = IF route' = route THEN acked ELSE {}
    BY <1>8 DEF Arrive
  <2>2. CASE going = At("away")
    <3>1. route' = At("away")
      BY <1>8, <2>2 DEF Arrive
    <3>2. route' # route
      BY <2>1, <3>1 DEF At
    <3> QED BY <2>1, <3>1, <3>2
  <2>3. CASE going = route /\ UNCHANGED <<form, route>>
    BY <2>1, <2>3
  <2>4. ASSUME going # At("away"), going # route, Open(going.slug) PROVE FormInv'
    <3>1. going = Edit(going.slug)
      BY <2>1, <2>4 DEF Edit
    <3>2. route' \in {Edit(going.slug), At("absent")}
      BY <2>4 DEF Open
    <3>3. route' # route
      BY <2>1, <2>4, <3>1, <3>2 DEF At
    <3> QED BY <2>1, <3>3
  <2> QED BY <1>8, <2>2, <2>3, <2>4 DEF Arrive
<1>9. CASE Leave
  <2>1. call = None /\ going = None /\ acked' = {} /\ UNCHANGED <<call, going>>
    BY <1>9 DEF Leave, TypeOK
  <2> QED BY <2>1
<1>10. CASE Write
  <2>1. route.at = "away" /\ UNCHANGED <<call, going, acked>>
    BY <1>10 DEF Write, history
  <2> QED BY <2>1
<1>11. ASSUME UNCHANGED <<form, route, call, going, acked>> PROVE FormInv'
  BY <1>11
<1>12. CASE LoadLists \/ UNCHANGED vars
  BY <1>11, <1>12 DEF LoadLists, page, history, vars
<1>13. ASSUME NEW item \in seen,
              \/ \E decision \in {"publish", "request_changes", "reject"} : Decide(item, decision)
              \/ Revoke(item) \/ Hide(item)
              \/ \E mode \in Modes, t \in Title, x \in Text : Edited(item, mode, t, x)
       PROVE  FormInv'
  BY <1>11, <1>13 DEF Decide, Revoke, Hide, Edited, page, history
<1>14. ASSUME NEW slug \in Slug, Restore(slug) PROVE FormInv'
  BY <1>11, <1>14 DEF Restore, page, history
<1>15. CASE GoOn
  BY <1>11, <1>15 DEF GoOn, page
<1> QED BY <1>1, <1>2, <1>3, <1>4, <1>5, <1>6, <1>7, <1>8, <1>9, <1>10, <1>12, <1>13, <1>14, <1>15
        DEF Next

(* For any articles and titles, no two that are alive have one address,    *)
(* and however often a form fails half way it makes one article.           *)
THEOREM ArticlesStayApart ==
  ASSUME PressAssumption
  PROVE  Spec => []ArticlesApart
<1>1. Init => SlugsApart /\ FormInv
  <2> SUFFICES ASSUME Init PROVE SlugsApart /\ FormInv
    OBVIOUS
  <2>1. Alive = {}
    BY DEF Init, Alive
  <2>2. acked = {} /\ call = None /\ going = None /\ OnForm
    BY DEF Init, OnForm, At
  <2> QED BY <2>1, <2>2 DEF SlugsApart, FormInv, Sent, Told
<1>2. TypeOK /\ SlugsApart /\ FormInv /\ [Next]_vars => SlugsApart' /\ FormInv'
  BY SlugsStep, FormStep
<1>3. TypeOK /\ SlugsApart /\ FormInv => ArticlesApart
  <2> SUFFICES ASSUME TypeOK, SlugsApart, FormInv PROVE Cardinality(acked) <= 1
    BY SlugsCount DEF ArticlesApart, OneArticlePerForm
  <2>1. CASE acked = {}
    BY <2>1, FS_EmptySet
  <2>2. ASSUME NEW a \in acked PROVE Cardinality(acked) <= 1
    <3>1. acked = {a}
      BY <2>2 DEF FormInv
    <3>2. Cardinality({a}) = 1
      BY FS_Singleton
    <3> QED BY <3>1, <3>2
  <2> QED BY <2>1, <2>2
<1> QED BY <1>1, <1>2, <1>3, TypeCorrect, PTL DEF Spec

(***************************************************************************)
(* The dialog of a topic.                                                  *)
(***************************************************************************)
SendRec == [showing : 0 .. Turns, at : 0 .. Turns, media : SUBSET C!Draft,
            taken : SUBSET C!Draft, step : {"link", "topic"}]

AllOne(ds) == \A d, e \in ds : d = e
FileChosen(d, ch) == d.key \in C!File => ch[d.key] # None

(* Within the limits: those that failed do not count.                      *)
Limited(ds) ==
  /\ ds \subseteq C!Draft /\ IsFiniteSet(ds)
  /\ Cardinality(C!Images(C!Standing(ds))) <= MaxImages
  /\ AllOne(C!Standing(ds) \ C!Images(ds))

(* The files of the dialog: those on their way are those being uploaded.   *)
DraftsFine(ds, ups, ch) ==
  /\ Limited(ds)
  /\ \A d \in ds : (d.state = "up" <=> d.key \in ups) /\ FileChosen(d, ch)

(* What is stored of a topic, or is being sent.                            *)
MediaFine(ds, ups, ch) ==
  DraftsFine(ds, ups, ch) /\ \A d \in ds : d.state = "ready"

(* Files that are not of the topic were chosen in this showing.            *)
OfShowing(ds, p, ch, n) ==
  \A d \in ds : d.key \in C!File /\ (p = None \/ d \notin p) => ch[d.key] = n

SendFine(s) ==
  /\ s \in SendRec /\ s.showing <= showing /\ MediaFine(s.media, uploads, chosen)
  /\ OfShowing(s.media, post, chosen, s.showing)
  /\ post # None /\ s.showing = showing => post \subseteq s.media \cup s.taken
  /\ s.step = "link" => s.media \subseteq C!Images(s.media)

ComposerInv ==
  /\ {open, link, submitting} \subseteq BOOLEAN /\ video \in {"file", "rutube"}
  /\ uploads \subseteq C!File /\ taken \subseteq C!Draft
  /\ showing \in 0 .. turns /\ turns \in 0 .. Turns
  /\ chosen \in [C!File -> (0 .. Turns) \cup {None}]
  /\ \A f \in uploads : chosen[f] # None
  /\ post # None => MediaFine(post, uploads, chosen)
  /\ DraftsFine(drafts, uploads, chosen)
  /\ open => /\ OfShowing(drafts, post, chosen, showing)
             /\ post # None => post \subseteq drafts \cup taken
  /\ AllOne(sends) /\ (sends # {} => submitting)
  /\ \A s \in sends : SendFine(s)

LEMMA SameCount == ASSUME NEW xs PROVE C!Cardinality(xs) = Cardinality(xs)
BY DEF C!Cardinality, Cardinality

LEMMA SameFinite == ASSUME NEW xs PROVE C!IsFiniteSet(xs) <=> IsFiniteSet(xs)
BY DEF C!IsFiniteSet, IsFiniteSet

LEMMA ComposerConstants ==
  /\ MaxImages \in Nat /\ Turns \in Nat /\ IsFiniteSet(C!File)
  /\ None \notin C!File /\ None \notin Nat /\ Link \notin C!File
  /\ \A p \in Posts \ {None} : C!Stored(p)
<1>1. C!ComposerAssumption
  BY OfficeAssumption
<1>2. C!IsFiniteSet(Image \cup Video) /\ C!File = Image \cup Video
  BY <1>1 DEF C!ComposerAssumption, C!File
<1> QED BY <1>1, <1>2, SameFinite DEF C!ComposerAssumption

LEMMA AtMostOneOf ==
  ASSUME NEW xs, IsFiniteSet(xs), AllOne(xs) PROVE Cardinality(xs) <= 1
<1>1. CASE xs = {}
  BY <1>1, FS_EmptySet
<1>2. CASE xs # {}
  <2>1. PICK x : x \in xs
    BY <1>2
  <2>2. xs = {x}
    BY <2>1 DEF AllOne
  <2> QED BY <2>2, FS_Singleton
<1> QED BY <1>1, <1>2

(* What is taken out of the files leaves them within limits.               *)
LEMMA LessLimited ==
  ASSUME NEW ds, Limited(ds), NEW es \in SUBSET ds
  PROVE  Limited(es)
<1> DEFINE a == C!Images(C!Standing(ds))
           b == C!Images(C!Standing(es))
<1>1. ds \subseteq C!Draft /\ IsFiniteSet(ds) /\ Cardinality(a) <= MaxImages
      /\ AllOne(C!Standing(ds) \ C!Images(ds))
  BY DEF Limited
<1>2. b \subseteq a /\ a \subseteq ds
  BY DEF C!Images, C!Standing
<1> HIDE DEF a, b
<1>3. IsFiniteSet(a) /\ IsFiniteSet(es)
  BY <1>1, <1>2, FS_Subset
<1>4. Cardinality(b) <= Cardinality(a) /\ IsFiniteSet(b)
  BY <1>2, <1>3, FS_Subset
<1>5. Cardinality(b) \in Nat /\ Cardinality(a) \in Nat
  BY <1>3, <1>4, FS_CardinalityType
<1>6. Cardinality(b) <= MaxImages
  BY <1>1, <1>4, <1>5, ComposerConstants
<1>7. AllOne(C!Standing(es) \ C!Images(es))
  <2>1. C!Standing(es) \ C!Images(es) \subseteq C!Standing(ds) \ C!Images(ds)
    BY DEF C!Images, C!Standing
  <2> QED BY <1>1, <2>1 DEF AllOne
<1> QED BY <1>1, <1>3, <1>6, <1>7 DEF Limited, b

LEMMA LessFine ==
  ASSUME NEW ds, NEW ups, NEW ch, DraftsFine(ds, ups, ch), NEW es \in SUBSET ds
  PROVE  DraftsFine(es, ups, ch)
BY LessLimited DEF DraftsFine

(* A topic that has been stored.                                           *)
LEMMA PostFine ==
  ASSUME NEW p \in Posts \ {None}, NEW ch
  PROVE  MediaFine(p, {}, ch)
<1>1. C!Stored(p)
  BY ComposerConstants
<1>2. /\ \A d \in p : d \in C!Draft /\ d.state = "ready" /\ d.key \notin C!File
      /\ \A d, e \in p \ C!Images(p) : d = e
      /\ IsFiniteSet(p) /\ Cardinality(C!Images(p)) <= MaxImages
  BY <1>1, SameCount, SameFinite DEF C!Stored
<1>3. C!Standing(p) = p
  BY <1>2 DEF C!Standing
<1>4. Limited(p)
  BY <1>2, <1>3 DEF Limited, AllOne
<1>5. \A d \in p : (d.state = "up" <=> d.key \in {}) /\ FileChosen(d, ch)
  BY <1>2 DEF FileChosen
<1> QED BY <1>2, <1>4, <1>5 DEF MediaFine, DraftsFine

LEMMA ComposerMeans ==
  ComposerInv =>
    C!TypeOK /\ C!FilesOfDialog /\ C!AttachmentsKept /\ C!WithinLimits /\ C!OneSend
<1> SUFFICES ASSUME ComposerInv
             PROVE  C!TypeOK /\ C!FilesOfDialog /\ C!AttachmentsKept /\ C!WithinLimits /\ C!OneSend
  OBVIOUS
<1>1. \A s \in sends : SendFine(s)
  BY DEF ComposerInv
<1>2. C!FilesOfDialog
  BY <1>1 DEF C!FilesOfDialog, SendFine, OfShowing
<1>3. C!AttachmentsKept
  BY <1>1 DEF C!AttachmentsKept, SendFine
<1>4. C!WithinLimits
  <2> SUFFICES ASSUME NEW s \in sends
               PROVE  /\ C!Cardinality(C!Images(s.media)) <= MaxImages
                      /\ C!Cardinality(s.media \ C!Images(s.media)) <= 1
    BY DEF C!WithinLimits
  <2> DEFINE m == s.media
  <2>1. Limited(m) /\ \A d \in m : d.state = "ready"
    BY <1>1 DEF SendFine, MediaFine, DraftsFine
  <2> HIDE DEF m
  <2>2. C!Standing(m) = m
    BY <2>1 DEF C!Standing
  <2>3. IsFiniteSet(m) /\ Cardinality(C!Images(m)) <= MaxImages /\ AllOne(m \ C!Images(m))
    BY <2>1, <2>2 DEF Limited
  <2>4. IsFiniteSet(m \ C!Images(m))
    BY <2>3, FS_Subset
  <2>5. Cardinality(m \ C!Images(m)) <= 1
    BY <2>3, <2>4, AtMostOneOf
  <2> QED BY <2>3, <2>5, SameCount DEF m
<1>5. C!OneSend
  <2>1. AllOne(sends)
    BY DEF ComposerInv
  <2>2. IsFiniteSet(sends)
    <3>1. CASE sends = {}
      BY <3>1, FS_EmptySet
    <3>2. CASE sends # {}
      <4>1. PICK x : x \in sends
        BY <3>2
      <4>2. sends = {x}
        BY <2>1, <4>1 DEF AllOne
      <4> QED BY <4>2, FS_Singleton
    <3> QED BY <3>1, <3>2
  <2> QED BY <2>1, <2>2, AtMostOneOf, SameCount DEF C!OneSend
<1>6. C!TypeOK
  <2>1. post \in (SUBSET C!Draft) \cup {None} /\ drafts \subseteq C!Draft
    BY DEF ComposerInv, MediaFine, DraftsFine, Limited
  <2>2. {open, link, submitting} \subseteq BOOLEAN /\ video \in {"file", "rutube"}
    BY DEF ComposerInv
  <2>3. uploads \subseteq C!File /\ taken \subseteq C!Draft
        /\ chosen \in [C!File -> (0 .. Turns) \cup {None}] /\ turns \in 0 .. Turns
    BY DEF ComposerInv
  <2>4. showing \in 0 .. Turns
    BY ComposerConstants DEF ComposerInv
  <2>5. sends \subseteq SendRec
    BY <1>1 DEF SendFine
  <2> QED BY <2>1, <2>2, <2>3, <2>4, <2>5 DEF C!TypeOK, SendRec
<1> QED BY <1>2, <1>3, <1>4, <1>5, <1>6

(* Files never chosen before are chosen: what was fine stays so.           *)
LEMMA FilesAdded ==
  ASSUME ComposerInv, NEW files \in SUBSET C!File, \A f \in files : chosen[f] = None,
         uploads' = uploads \cup files,
         chosen' = [f \in C!File |-> IF f \in files THEN showing ELSE chosen[f]],
         UNCHANGED <<post, sends, showing>>
  PROVE  /\ \A ds : DraftsFine(ds, uploads, chosen) =>
              /\ DraftsFine(ds, uploads', chosen')
              /\ \A p, n : OfShowing(ds, p, chosen, n) => OfShowing(ds, p, chosen', n)
         /\ chosen' \in [C!File -> (0 .. Turns) \cup {None}] /\ uploads' \subseteq C!File
         /\ \A f \in uploads' : chosen'[f] # None
         /\ post' # None => MediaFine(post', uploads', chosen')
         /\ \A s \in sends' : SendFine(s)'
<1>1. showing \in 0 .. Turns /\ showing # None /\ uploads \subseteq C!File
      /\ chosen \in [C!File -> (0 .. Turns) \cup {None}] /\ \A f \in uploads : chosen[f] # None
  <2>1. showing \in 0 .. turns /\ turns \in 0 .. Turns
    BY DEF ComposerInv
  <2>2. showing \in 0 .. Turns /\ showing \in Nat
    BY <2>1, ComposerConstants
  <2>3. showing # None
    BY <2>2, ComposerConstants
  <2> QED BY <2>2, <2>3 DEF ComposerInv
<1>2. \A f \in C!File : chosen'[f] = IF f \in files THEN showing ELSE chosen[f]
  OBVIOUS
<1>3. ASSUME NEW ds, DraftsFine(ds, uploads, chosen)
      PROVE  DraftsFine(ds, uploads', chosen') /\ \A d \in ds : d.key \in C!File => chosen'[d.key] = chosen[d.key]
  <2>1. \A d \in ds : d.key \notin files
    BY <1>3 DEF DraftsFine, FileChosen
  <2> QED BY <1>2, <1>3, <2>1 DEF DraftsFine, FileChosen
<1>4. ASSUME NEW ds, DraftsFine(ds, uploads, chosen), NEW p, NEW n, OfShowing(ds, p, chosen, n)
      PROVE  OfShowing(ds, p, chosen', n)
  BY <1>3, <1>4 DEF OfShowing
<1>5. chosen' \in [C!File -> (0 .. Turns) \cup {None}]
  BY <1>1
<1>6. uploads' \subseteq C!File /\ \A f \in uploads' : chosen'[f] # None
  BY <1>1, <1>2
<1>7. post' # None => MediaFine(post', uploads', chosen')
  BY <1>3 DEF ComposerInv, MediaFine
<1>8. ASSUME NEW s \in sends' PROVE SendFine(s)'
  <2>1. SendFine(s)
    BY DEF ComposerInv
  <2>2. MediaFine(s.media, uploads', chosen')
    BY <1>3, <2>1 DEF SendFine, MediaFine
  <2>3. OfShowing(s.media, post', chosen', s.showing)
    BY <1>4, <2>1 DEF SendFine, MediaFine
  <2> QED BY <2>1, <2>2, <2>3 DEF SendFine
<1> QED BY <1>3, <1>4, <1>5, <1>6, <1>7, <1>8

LEMMA ImageIs ==
  ASSUME NEW xs, IsFiniteSet(xs), NEW ys, NEW g \in [xs -> ys], \A t \in ys : \E x \in xs : g[x] = t
  PROVE  IsFiniteSet(ys) /\ Cardinality(ys) <= Cardinality(xs)
<1>1. g \in Surjection(xs, ys)
  BY DEF Surjection
<1> QED BY <1>1, FS_Surjection

LEMMA NewIs ==
  ASSUME NEW files \in SUBSET C!File, NEW kind \in {"image", "video"}
  PROVE  /\ IsFiniteSet({C!New(f, kind) : f \in files})
         /\ Cardinality({C!New(f, kind) : f \in files}) <= Cardinality(files)
         /\ IsFiniteSet(files)
         /\ \A d \in {C!New(f, kind) : f \in files} :
              d \in C!Draft /\ d.key \in files /\ d.kind = kind /\ d.state = "up"
<1> DEFINE N == {C!New(f, kind) : f \in files}
           g == [f \in files |-> C!New(f, kind)]
<1>1. IsFiniteSet(files)
  BY ComposerConstants, FS_Subset
<1>2. g \in [files -> N] /\ \A t \in N : \E f \in files : g[f] = t
  OBVIOUS
<1> HIDE DEF g
<1>3. IsFiniteSet(N) /\ Cardinality(N) <= Cardinality(files)
  <2> HIDE DEF N
  <2> QED BY <1>1, <1>2, ImageIs
<1>4. \A d \in N : d \in C!Draft /\ d.key \in files /\ d.kind = kind /\ d.state = "up"
  BY DEF C!New, C!Draft
<1> QED BY <1>1, <1>3, <1>4

(* Files more are taken in.                                                *)
LEMMA StepAddImages == ASSUME ComposerInv, C!AddImages PROVE ComposerInv'
<1>1. PICK files \in SUBSET {f \in Image : chosen[f] = None} :
        /\ files # {} /\ C!Cardinality(files) <= MaxImages - C!ImageCount
        /\ drafts' = drafts \cup {C!New(f, "image") : f \in files}
        /\ uploads' = uploads \cup files
        /\ chosen' = [f \in C!File |-> IF f \in files THEN showing ELSE chosen[f]]
  BY DEF C!AddImages
<1>2. /\ open /\ turns < Turns /\ turns' = turns + 1
      /\ UNCHANGED <<post, open, video, link, submitting, sends, showing, taken>>
  BY DEF C!AddImages, C!Turn
<1> DEFINE N == {C!New(f, "image") : f \in files}
           a == C!Images(C!Standing(drafts))
<1>3. files \in SUBSET C!File /\ \A f \in files : chosen[f] = None
  BY DEF C!File
<1>4. /\ \A ds : DraftsFine(ds, uploads, chosen) =>
              /\ DraftsFine(ds, uploads', chosen')
              /\ \A p, n : OfShowing(ds, p, chosen, n) => OfShowing(ds, p, chosen', n)
      /\ chosen' \in [C!File -> (0 .. Turns) \cup {None}] /\ uploads' \subseteq C!File
      /\ \A f \in uploads' : chosen'[f] # None
      /\ post' # None => MediaFine(post', uploads', chosen')
      /\ \A s \in sends' : SendFine(s)'
  BY <1>1, <1>2, <1>3, FilesAdded
<1>5. /\ IsFiniteSet(N) /\ Cardinality(N) <= Cardinality(files) /\ IsFiniteSet(files)
      /\ \A d \in N : d \in C!Draft /\ d.key \in files /\ d.kind = "image" /\ d.state = "up"
  BY <1>3, NewIs
<1>6. drafts' = drafts \cup N
  BY <1>1
<1> HIDE DEF N
<1>7. DraftsFine(drafts, uploads, chosen)
  BY DEF ComposerInv
<1>8. Limited(drafts')
  <2>1. drafts \subseteq C!Draft /\ IsFiniteSet(drafts) /\ Cardinality(a) <= MaxImages
        /\ AllOne(C!Standing(drafts) \ C!Images(drafts))
    BY <1>7 DEF DraftsFine, Limited
  <2>2. drafts' \subseteq C!Draft /\ IsFiniteSet(drafts')
    BY <1>5, <1>6, <2>1, FS_Union
  <2>3. C!Images(C!Standing(drafts')) = a \cup N
    BY <1>5, <1>6 DEF C!Images, C!Standing
  <2>4. C!Standing(drafts') \ C!Images(drafts') = C!Standing(drafts) \ C!Images(drafts)
    BY <1>5, <1>6 DEF C!Images, C!Standing
  <2>5. IsFiniteSet(a)
    BY <2>1, FS_Subset DEF C!Images, C!Standing
  <2>6. Cardinality(files) <= MaxImages - Cardinality(a)
    BY <1>1, SameCount DEF C!ImageCount
  <2> HIDE DEF a
  <2>7. Cardinality(a \cup N) = Cardinality(a) + Cardinality(N) - Cardinality(a \cap N)
    BY <1>5, <2>5, FS_Union
  <2>8. IsFiniteSet(a \cap N)
    BY <1>5, FS_Subset
  <2>9. /\ Cardinality(a \cup N) \in Int /\ Cardinality(a) \in Nat /\ Cardinality(N) \in Nat
        /\ Cardinality(a \cap N) \in Nat /\ Cardinality(files) \in Nat
    BY <1>5, <2>5, <2>7, <2>8, FS_CardinalityType
  <2>10. Cardinality(a \cup N) <= MaxImages
    BY <1>5, <2>6, <2>7, <2>9, ComposerConstants
  <2> QED BY <2>1, <2>2, <2>3, <2>4, <2>10 DEF Limited
<1>9. DraftsFine(drafts', uploads', chosen')
  <2>1. \A d \in drafts : (d.state = "up" <=> d.key \in uploads') /\ FileChosen(d, chosen')
    BY <1>4, <1>7 DEF DraftsFine
  <2>2. \A d \in N : (d.state = "up" <=> d.key \in uploads') /\ FileChosen(d, chosen')
    BY <1>1, <1>4, <1>5 DEF FileChosen
  <2> QED BY <1>6, <1>8, <2>1, <2>2 DEF DraftsFine
<1>10. OfShowing(drafts', post', chosen', showing') /\ (post' # None => post' \subseteq drafts' \cup taken')
  <2>1. OfShowing(drafts, post, chosen', showing)
    BY <1>2, <1>4, <1>7 DEF ComposerInv
  <2>2. \A d \in N : chosen'[d.key] = showing
    BY <1>1, <1>3, <1>5
  <2>3. OfShowing(drafts', post, chosen', showing)
    BY <1>6, <2>1, <2>2 DEF OfShowing
  <2>4. post # None => post \subseteq drafts' \cup taken
    BY <1>2, <1>6 DEF ComposerInv
  <2> QED BY <1>2, <2>3, <2>4
<1>11. showing' \in 0 .. turns' /\ turns' \in 0 .. Turns
  BY <1>2, ComposerConstants DEF ComposerInv
<1>12. {open', link', submitting'} \subseteq BOOLEAN /\ video' \in {"file", "rutube"} /\ taken' \subseteq C!Draft
  BY <1>2 DEF ComposerInv
<1>13. AllOne(sends') /\ (sends' # {} => submitting')
  BY <1>2 DEF ComposerInv
<1> QED BY <1>4, <1>9, <1>10, <1>11, <1>12, <1>13 DEF ComposerInv

(* A video takes the place of one that failed.                             *)
LEMMA StepAddVideo == ASSUME ComposerInv, C!AddVideo PROVE ComposerInv'
<1>1. PICK f \in {v \in Video : chosen[v] = None} :
        /\ drafts' = C!Images(drafts) \cup {C!New(f, "video")}
        /\ uploads' = uploads \cup {f}
        /\ chosen' = [chosen EXCEPT ![f] = showing]
  BY DEF C!AddVideo
<1>2. /\ open /\ turns < Turns /\ turns' = turns + 1 /\ C!VideoDraft = {} /\ link' = FALSE
      /\ UNCHANGED <<post, open, video, submitting, sends, showing, taken>>
  BY DEF C!AddVideo, C!Turn
<1> DEFINE d1 == C!New(f, "video")
<1>3. {f} \in SUBSET C!File /\ \A x \in {f} : chosen[x] = None
  BY DEF C!File
<1>4. chosen' = [x \in C!File |-> IF x \in {f} THEN showing ELSE chosen[x]]
  BY <1>1, <1>3 DEF ComposerInv
<1>5. /\ \A ds : DraftsFine(ds, uploads, chosen) =>
              /\ DraftsFine(ds, uploads', chosen')
              /\ \A p, n : OfShowing(ds, p, chosen, n) => OfShowing(ds, p, chosen', n)
      /\ chosen' \in [C!File -> (0 .. Turns) \cup {None}] /\ uploads' \subseteq C!File
      /\ \A x \in uploads' : chosen'[x] # None
      /\ post' # None => MediaFine(post', uploads', chosen')
      /\ \A s \in sends' : SendFine(s)'
  BY <1>1, <1>2, <1>3, <1>4, FilesAdded
<1>6. d1 \in C!Draft /\ d1.key = f /\ d1.kind = "video" /\ d1.state = "up"
  BY <1>3 DEF C!New, C!Draft
<1>7. drafts' = C!Images(drafts) \cup {d1}
  BY <1>1
<1> HIDE DEF d1
<1>8. DraftsFine(drafts, uploads, chosen)
  BY DEF ComposerInv
<1>9. C!Images(drafts) \in SUBSET drafts
  BY DEF C!Images
<1>10. DraftsFine(C!Images(drafts), uploads, chosen)
  BY <1>8, <1>9, LessFine
<1>11. DraftsFine(C!Images(drafts), uploads', chosen')
  BY <1>5, <1>10
<1>12. Limited(drafts')
  <2> DEFINE im == C!Images(drafts)
  <2>1. im \subseteq C!Draft /\ IsFiniteSet(im) /\ Cardinality(C!Images(C!Standing(im))) <= MaxImages
    BY <1>11 DEF DraftsFine, Limited
  <2>2. drafts' \subseteq C!Draft /\ IsFiniteSet(drafts')
    BY <1>6, <1>7, <2>1, FS_Singleton, FS_Union
  <2>3. C!Images(C!Standing(drafts')) = C!Images(C!Standing(im))
    BY <1>6, <1>7 DEF C!Images, C!Standing
  <2>4. \A d \in C!Standing(drafts') \ C!Images(drafts') : d = d1
    BY <1>6, <1>7 DEF C!Images, C!Standing
  <2>5. AllOne(C!Standing(drafts') \ C!Images(drafts'))
    BY <2>4 DEF AllOne
  <2> QED BY <2>1, <2>2, <2>3, <2>5 DEF Limited
<1>13. DraftsFine(drafts', uploads', chosen')
  <2>1. (d1.state = "up" <=> d1.key \in uploads') /\ FileChosen(d1, chosen')
    BY <1>1, <1>5, <1>6 DEF FileChosen
  <2> QED BY <1>7, <1>11, <1>12, <2>1 DEF DraftsFine
<1>14. OfShowing(drafts', post', chosen', showing')
  <2>1. OfShowing(C!Images(drafts), post, chosen, showing)
    BY <1>2, <1>9 DEF ComposerInv, OfShowing
  <2>2. OfShowing(C!Images(drafts), post, chosen', showing)
    BY <1>5, <1>10, <2>1
  <2>3. chosen'[d1.key] = showing
    BY <1>3, <1>4, <1>6
  <2> QED BY <1>2, <1>7, <2>2, <2>3 DEF OfShowing
<1>15. post' # None => post' \subseteq drafts' \cup taken'
  <2> SUFFICES ASSUME post # None, NEW d \in post PROVE d \in drafts' \cup taken
    BY <1>2
  <2>1. d.state = "ready" /\ d \in drafts \cup taken
    BY <1>2 DEF ComposerInv, MediaFine
  <2>2. d \in drafts => d \in C!Standing(drafts)
    BY <2>1 DEF C!Standing
  <2>3. d \in drafts => d \in C!Images(drafts)
    BY <1>2, <2>2 DEF C!VideoDraft
  <2> QED BY <1>7, <2>1, <2>3
<1>16. showing' \in 0 .. turns' /\ turns' \in 0 .. Turns
  BY <1>2, ComposerConstants DEF ComposerInv
<1>17. {open', link', submitting'} \subseteq BOOLEAN /\ video' \in {"file", "rutube"} /\ taken' \subseteq C!Draft
  BY <1>2 DEF ComposerInv
<1>18. AllOne(sends') /\ (sends' # {} => submitting')
  BY <1>2 DEF ComposerInv
<1> QED BY <1>5, <1>13, <1>14, <1>15, <1>16, <1>17, <1>18 DEF ComposerInv

(* An upload has come to an end: its file is ready, or failed, if the      *)
(* dialog still has it.                                                    *)
LEMMA StepUploaded == ASSUME ComposerInv, NEW f \in uploads, C!Uploaded(f) PROVE ComposerInv'
<1>1. PICK state \in {"ready", "error"} : drafts' = C!Patch(f, state)
  BY DEF C!Uploaded, C!FailedState
<1>2. uploads' = uploads \ {f}
      /\ UNCHANGED <<post, open, video, link, submitting, sends, showing, chosen, taken, turns>>
  BY DEF C!Uploaded
<1> DEFINE G(d) == IF d.key = f THEN [d EXCEPT !.state = state] ELSE d
           g == [d \in drafts |-> G(d)]
<1>3. DraftsFine(drafts, uploads, chosen) /\ f \in C!File
  BY DEF ComposerInv
<1>4. ASSUME NEW d \in drafts
      PROVE  /\ g[d] \in C!Draft /\ g[d].key = d.key /\ g[d].kind = d.kind
             /\ d.key = f => d.state = "up" /\ g[d].state = state
             /\ d.key # f => g[d] = d
  <2>1. d \in C!Draft /\ (d.state = "up" <=> d.key \in uploads)
    BY <1>3 DEF DraftsFine, Limited
  <2>2. d.key = f => [d EXCEPT !.state = state] \in C!Draft /\ [d EXCEPT !.state = state].key = d.key
          /\ [d EXCEPT !.state = state].kind = d.kind /\ [d EXCEPT !.state = state].state = state
    BY <2>1 DEF C!Draft
  <2>3. g[d] = IF d.key = f THEN [d EXCEPT !.state = state] ELSE d
    OBVIOUS
  <2> HIDE DEF g
  <2> QED BY <2>1, <2>2, <2>3
<1>5. drafts' = {g[d] : d \in drafts}
  BY <1>1 DEF C!Patch
<1> HIDE DEF g
<1>6. \A t \in drafts' : \E d \in drafts : t = g[d]
  BY <1>5
<1>7. Limited(drafts')
  <2>1. drafts \subseteq C!Draft /\ IsFiniteSet(drafts) /\ Cardinality(C!Images(C!Standing(drafts))) <= MaxImages
        /\ AllOne(C!Standing(drafts) \ C!Images(drafts))
    BY <1>3 DEF DraftsFine, Limited
  <2>2. drafts' \subseteq C!Draft
    BY <1>4, <1>6
  <2>3. IsFiniteSet(drafts')
    <3> DEFINE h == [d \in drafts |-> g[d]]
    <3>1. h \in [drafts -> drafts'] /\ \A t \in drafts' : \E d \in drafts : h[d] = t
      BY <1>5
    <3> HIDE DEF h
    <3> QED BY <2>1, <3>1, ImageIs
  <2>4. ASSUME NEW t \in C!Standing(drafts')
        PROVE  \E d \in C!Standing(drafts) : t = g[d] /\ d.kind = t.kind
    <3>1. PICK d \in drafts : t = g[d]
      BY <1>6 DEF C!Standing
    <3>2. t.state # "error"
      BY DEF C!Standing
    <3>3. d.state # "error" /\ d.kind = t.kind
      BY <1>4, <3>1, <3>2
    <3> QED BY <3>1, <3>3 DEF C!Standing
  <2>5. Cardinality(C!Images(C!Standing(drafts'))) <= MaxImages
    <3> DEFINE a == C!Images(C!Standing(drafts))
               b == C!Images(C!Standing(drafts'))
               c == {g[d] : d \in a}
               h == [d \in a |-> g[d]]
    <3>1. b \subseteq c
      BY <2>4 DEF C!Images
    <3>2. h \in [a -> c] /\ \A t \in c : \E d \in a : h[d] = t
      OBVIOUS
    <3>3. IsFiniteSet(a)
      BY <2>1, FS_Subset DEF C!Images, C!Standing
    <3> HIDE DEF a, b, c, h
    <3>4. IsFiniteSet(c) /\ Cardinality(c) <= Cardinality(a)
      BY <3>2, <3>3, ImageIs
    <3>5. IsFiniteSet(b) /\ Cardinality(b) <= Cardinality(c)
      BY <3>1, <3>4, FS_Subset
    <3>6. Cardinality(a) \in Nat /\ Cardinality(b) \in Nat /\ Cardinality(c) \in Nat
      BY <3>3, <3>4, <3>5, FS_CardinalityType
    <3>7. Cardinality(a) <= MaxImages
      BY <2>1 DEF a
    <3> QED BY <3>4, <3>5, <3>6, <3>7, ComposerConstants DEF b
  <2>6. AllOne(C!Standing(drafts') \ C!Images(drafts'))
    <3> SUFFICES ASSUME NEW t \in C!Standing(drafts') \ C!Images(drafts'),
                        NEW u \in C!Standing(drafts') \ C!Images(drafts')
                 PROVE  t = u
      BY DEF AllOne
    <3>1. t.kind # "image" /\ u.kind # "image"
      BY DEF C!Images, C!Standing
    <3>2. PICK d \in C!Standing(drafts) : t = g[d] /\ d.kind = t.kind
      BY <2>4
    <3>3. PICK e \in C!Standing(drafts) : u = g[e] /\ e.kind = u.kind
      BY <2>4
    <3>4. d \notin C!Images(drafts) /\ e \notin C!Images(drafts)
      BY <3>1, <3>2, <3>3 DEF C!Images
    <3>5. d = e
      BY <2>1, <3>2, <3>3, <3>4 DEF AllOne
    <3> QED BY <3>2, <3>3, <3>5
  <2> QED BY <2>2, <2>3, <2>5, <2>6 DEF Limited
<1>8. DraftsFine(drafts', uploads', chosen')
  <2> SUFFICES ASSUME NEW t \in drafts'
               PROVE  (t.state = "up" <=> t.key \in uploads') /\ FileChosen(t, chosen')
    BY <1>7 DEF DraftsFine
  <2>1. PICK d \in drafts : t = g[d]
    BY <1>6
  <2>2. (d.state = "up" <=> d.key \in uploads) /\ FileChosen(d, chosen)
    BY <1>3 DEF DraftsFine
  <2>3. t.key = d.key /\ (d.key = f => t.state = state) /\ (d.key # f => t = d)
    BY <1>4, <2>1
  <2> QED BY <1>2, <2>2, <2>3 DEF FileChosen
<1>9. ASSUME NEW ds, MediaFine(ds, uploads, chosen)
      PROVE  MediaFine(ds, uploads', chosen') /\ \A d \in ds : d.key # f
  BY <1>2, <1>9 DEF MediaFine, DraftsFine
<1>10. post' # None => MediaFine(post', uploads', chosen')
  BY <1>2, <1>9 DEF ComposerInv
<1>11. \A s \in sends' : SendFine(s)'
  <2> SUFFICES ASSUME NEW s \in sends PROVE SendFine(s)'
    BY <1>2
  <2>1. SendFine(s)
    BY DEF ComposerInv
  <2>2. MediaFine(s.media, uploads', chosen')
    BY <1>9, <2>1 DEF SendFine
  <2> QED BY <1>2, <2>1, <2>2 DEF SendFine
<1>12. open' => OfShowing(drafts', post', chosen', showing')
  <2> SUFFICES ASSUME open, NEW t \in drafts', t.key \in C!File, post = None \/ t \notin post
               PROVE  chosen[t.key] = showing
    BY <1>2 DEF OfShowing
  <2>1. PICK d \in drafts : t = g[d]
    BY <1>6
  <2>2. d.key = t.key /\ (d.key # f => t = d)
    BY <1>4, <2>1
  <2>3. post # None => \A e \in post : e.key # f
    BY <1>9 DEF ComposerInv
  <2>4. post = None \/ d \notin post
    BY <2>2, <2>3
  <2> QED BY <2>2, <2>4 DEF ComposerInv, OfShowing
<1>13. open' => (post' # None => post' \subseteq drafts' \cup taken')
  <2> SUFFICES ASSUME open, post # None, NEW d \in post PROVE d \in drafts' \cup taken
    BY <1>2
  <2>1. d.key # f /\ d \in drafts \cup taken
    BY <1>9 DEF ComposerInv
  <2>2. d \in drafts => d \in drafts'
    BY <1>4, <1>5, <2>1
  <2> QED BY <2>1, <2>2
<1>14. {open', link', submitting'} \subseteq BOOLEAN
  BY <1>2 DEF ComposerInv
<1>15. /\ video' \in {"file", "rutube"} /\ uploads' \subseteq C!File /\ taken' \subseteq C!Draft
       /\ showing' \in 0 .. turns' /\ turns' \in 0 .. Turns
       /\ chosen' \in [C!File -> (0 .. Turns) \cup {None}] /\ \A x \in uploads' : chosen'[x] # None
  BY <1>2 DEF ComposerInv
<1>16. AllOne(sends') /\ (sends' # {} => submitting')
  BY <1>2 DEF ComposerInv
<1> QED BY <1>8, <1>10, <1>11, <1>12, <1>13, <1>14, <1>15, <1>16 DEF ComposerInv

(* What else stays where only the dialog changes.                          *)
LEMMA SendsStay ==
  ASSUME ComposerInv, UNCHANGED <<post, uploads, submitting, sends, showing, chosen>>,
         turns' = turns \/ (turns < Turns /\ turns' = turns + 1)
  PROVE  /\ uploads' \subseteq C!File /\ showing' \in 0 .. turns' /\ turns' \in 0 .. Turns
         /\ chosen' \in [C!File -> (0 .. Turns) \cup {None}] /\ \A f \in uploads' : chosen'[f] # None
         /\ post' # None => MediaFine(post', uploads', chosen')
         /\ AllOne(sends') /\ (sends' # {} => submitting')
         /\ \A s \in sends' : SendFine(s)'
         /\ submitting' \in BOOLEAN
<1>1. showing' \in 0 .. turns' /\ turns' \in 0 .. Turns
  BY ComposerConstants DEF ComposerInv
<1>2. /\ uploads' \subseteq C!File /\ \A f \in uploads' : chosen'[f] # None
      /\ chosen' \in [C!File -> (0 .. Turns) \cup {None}]
      /\ post' # None => MediaFine(post', uploads', chosen')
  BY DEF ComposerInv
<1>3. AllOne(sends') /\ (sends' # {} => submitting') /\ submitting' \in BOOLEAN
  BY DEF ComposerInv
<1>4. \A s \in sends' : SendFine(s)'
  BY DEF ComposerInv, SendFine
<1> QED BY <1>1, <1>2, <1>3, <1>4

LEMMA StepKeep ==
  ASSUME ComposerInv, C!TakeAway \/ C!SetVideo PROVE ComposerInv'
<1>1. /\ open /\ open' = open /\ UNCHANGED <<post, uploads, submitting, sends, showing, chosen>>
      /\ turns < Turns /\ turns' = turns + 1
  BY DEF C!TakeAway, C!SetVideo, C!Turn
<1>2. \E ds \in SUBSET drafts : C!Keep(ds)
  <2>1. \A d \in drafts : drafts \ {d} \in SUBSET drafts
    OBVIOUS
  <2>2. C!KeptByLink \in SUBSET drafts /\ C!KeptByFile \in SUBSET drafts
    BY DEF C!KeptByLink, C!KeptByFile
  <2> QED BY <2>1, <2>2 DEF C!TakeAway, C!SetVideo
<1>3. link' \in BOOLEAN
  BY DEF C!TakeAway, C!SetVideo, ComposerInv
<1>4. video' \in {"file", "rutube"}
  BY DEF C!TakeAway, C!SetVideo, ComposerInv
<1>5. PICK ds \in SUBSET drafts : drafts' = ds /\ taken' = taken \cup (drafts \ ds)
  BY <1>2 DEF C!Keep
<1>6. DraftsFine(drafts, uploads, chosen)
  BY DEF ComposerInv
<1>7. DraftsFine(drafts', uploads', chosen')
  BY <1>1, <1>5, <1>6, LessFine
<1>8. taken' \subseteq C!Draft
  BY <1>5, <1>6 DEF ComposerInv, DraftsFine, Limited
<1>9. OfShowing(drafts', post', chosen', showing')
  BY <1>1, <1>5 DEF ComposerInv, OfShowing
<1>10. post' # None => post' \subseteq drafts' \cup taken'
  BY <1>1, <1>5 DEF ComposerInv
<1>11. open' \in BOOLEAN
  BY <1>1 DEF ComposerInv
<1> QED BY <1>1, <1>3, <1>4, <1>7, <1>8, <1>9, <1>10, <1>11, SendsStay DEF ComposerInv

LEMMA StepDialog ==
  ASSUME ComposerInv, C!Close \/ C!TypeLink PROVE ComposerInv'
<1>1. UNCHANGED <<post, uploads, submitting, sends, showing, chosen, drafts, video, taken, turns>>
  BY DEF C!Close, C!TypeLink
<1>2. open' \in BOOLEAN /\ (open' => open)
  BY DEF C!Close, C!TypeLink, ComposerInv
<1>3. link' \in BOOLEAN
  BY DEF C!Close, C!TypeLink, ComposerInv
<1>4. video' \in {"file", "rutube"} /\ taken' \subseteq C!Draft
  BY <1>1 DEF ComposerInv
<1>5. DraftsFine(drafts', uploads', chosen')
  BY <1>1 DEF ComposerInv
<1>6. open' => OfShowing(drafts', post', chosen', showing') /\ (post' # None => post' \subseteq drafts' \cup taken')
  BY <1>1, <1>2 DEF ComposerInv
<1> QED BY <1>1, <1>2, <1>3, <1>4, <1>5, <1>6, SendsStay DEF ComposerInv

LEMMA EmptyFine == ASSUME NEW ups, NEW ch PROVE DraftsFine({}, ups, ch)
<1>1. C!Images(C!Standing({})) = {} /\ C!Standing({}) \ C!Images({}) = {}
  BY DEF C!Images, C!Standing
<1>2. IsFiniteSet({}) /\ Cardinality({}) = 0
  BY FS_EmptySet
<1>3. 0 <= MaxImages
  BY ComposerConstants
<1> QED BY <1>1, <1>2, <1>3 DEF DraftsFine, Limited, AllOne

(* The dialog opens, on the files of the topic if there is one.            *)
LEMMA StepOpen == ASSUME ComposerInv, C!Open PROVE ComposerInv'
<1>1. /\ open' = TRUE /\ drafts' = C!DraftsOf(post) /\ video' = C!VideoOf(post) /\ link' = FALSE
      /\ submitting' = submitting /\ showing' = showing + 1 /\ taken' = {}
      /\ turns < Turns /\ turns' = turns + 1 /\ UNCHANGED <<post, uploads, sends, chosen>>
  BY DEF C!Open, C!Fill, C!Turn, C!SubmittingWhenOpened
<1>2. showing \in Nat /\ showing <= turns /\ turns \in Nat
  BY ComposerConstants DEF ComposerInv
<1>3. showing' \in 0 .. turns' /\ turns' \in 0 .. Turns
  BY <1>1, <1>2, ComposerConstants
<1>4. DraftsFine(drafts', uploads', chosen')
  <2>1. CASE post = None
    BY <1>1, <2>1, EmptyFine DEF C!DraftsOf
  <2>2. CASE post # None
    BY <1>1, <2>2 DEF C!DraftsOf, ComposerInv, MediaFine
  <2> QED BY <2>1, <2>2
<1>5. OfShowing(drafts', post', chosen', showing') /\ (post' # None => post' \subseteq drafts' \cup taken')
  BY <1>1 DEF C!DraftsOf, OfShowing
<1>6. \A s \in sends' : SendFine(s)'
  <2> SUFFICES ASSUME NEW s \in sends PROVE SendFine(s)'
    BY <1>1
  <2>1. SendFine(s)
    BY DEF ComposerInv
  <2>2. s.showing <= showing /\ s.showing \in Nat
    BY <2>1 DEF SendFine, SendRec
  <2>3. s.showing <= showing' /\ s.showing # showing'
    BY <1>1, <1>2, <2>2
  <2> QED BY <1>1, <2>1, <2>3 DEF SendFine
<1>7. video' \in {"file", "rutube"}
  BY <1>1 DEF C!VideoOf
<1>8. {open', link', submitting'} \subseteq BOOLEAN
  BY <1>1 DEF ComposerInv
<1>9. /\ uploads' \subseteq C!File /\ taken' \subseteq C!Draft
      /\ chosen' \in [C!File -> (0 .. Turns) \cup {None}] /\ \A f \in uploads' : chosen'[f] # None
      /\ post' # None => MediaFine(post', uploads', chosen')
  BY <1>1 DEF ComposerInv
<1>10. AllOne(sends') /\ (sends' # {} => submitting')
  BY <1>1 DEF ComposerInv
<1> QED BY <1>3, <1>4, <1>5, <1>6, <1>7, <1>8, <1>9, <1>10 DEF ComposerInv

(* The page brings the topic anew: the dialog is as it was opened.         *)
LEMMA StepRenewed == ASSUME ComposerInv, C!Renewed PROVE ComposerInv'
<1>1. /\ open /\ post # None /\ drafts' = post /\ video' \in {"file", "rutube"}
      /\ link' = FALSE /\ taken' = {}
      /\ UNCHANGED <<post, open, uploads, submitting, sends, showing, chosen, turns>>
  BY DEF C!Renewed, C!Fill, C!DraftsOf, C!VideoOf
<1>2. DraftsFine(drafts', uploads', chosen')
  BY <1>1 DEF ComposerInv, MediaFine
<1>3. OfShowing(drafts', post', chosen', showing') /\ post' \subseteq drafts' \cup taken'
  BY <1>1 DEF OfShowing
<1>4. open' \in BOOLEAN /\ taken' \subseteq C!Draft
  BY <1>1 DEF ComposerInv
<1> QED BY <1>1, <1>2, <1>3, <1>4, SendsStay DEF ComposerInv

(* What is ready is sent off: nothing is on its way then.                  *)
LEMMA StepSubmit == ASSUME ComposerInv, C!Submit PROVE ComposerInv'
<1> DEFINE m == C!Ready(drafts)
           step == IF video = "rutube" /\ link /\ m \subseteq C!Images(drafts) THEN "link" ELSE "topic"
           s == [showing |-> showing, at |-> turns, media |-> m, taken |-> taken, step |-> step]
<1>1. /\ open /\ ~submitting /\ turns < Turns /\ turns' = turns + 1
      /\ submitting' = TRUE /\ sends' = sends \cup {s}
      /\ UNCHANGED <<post, open, drafts, video, link, uploads, showing, chosen, taken>>
  BY DEF C!Submit, C!Turn, C!dialog
<1>2. sends = {}
  BY <1>1 DEF ComposerInv
<1>3. DraftsFine(drafts, uploads, chosen) /\ m \in SUBSET drafts /\ \A d \in m : d.state = "ready"
  BY DEF ComposerInv, C!Ready
<1>4. MediaFine(m, uploads, chosen)
  BY <1>3, LessFine DEF MediaFine
<1>5. OfShowing(m, post, chosen, showing)
  BY <1>1, <1>3 DEF ComposerInv, OfShowing
<1>6. post # None => post \subseteq m \cup taken
  BY <1>1 DEF ComposerInv, MediaFine, C!Ready
<1>7. step \in {"link", "topic"} /\ (step = "link" => m \subseteq C!Images(m))
  BY DEF C!Images
<1> HIDE DEF m, step
<1>8. showing \in 0 .. Turns /\ turns \in 0 .. Turns /\ showing <= showing
  BY ComposerConstants DEF ComposerInv
<1>9. m \in SUBSET C!Draft /\ taken \in SUBSET C!Draft
  BY <1>4 DEF MediaFine, DraftsFine, Limited, ComposerInv
<1>10. s \in SendRec
  BY <1>7, <1>8, <1>9 DEF SendRec
<1>11. s.showing = showing /\ s.media = m /\ s.taken = taken /\ s.step = step
  OBVIOUS
<1> HIDE DEF s
<1>12. \A x \in sends' : x = s
  BY <1>1, <1>2
<1>13. AllOne(sends')
  BY <1>12 DEF AllOne
<1>14. \A x \in sends' : SendFine(x)'
  <2> SUFFICES ASSUME NEW x \in sends' PROVE SendFine(x)'
    OBVIOUS
  <2>1. x \in SendRec /\ x.showing = showing /\ x.media = m /\ x.taken = taken /\ x.step = step
    BY <1>10, <1>11, <1>12
  <2> QED BY <1>1, <1>4, <1>5, <1>6, <1>7, <1>8, <2>1 DEF SendFine
<1>15. {open', link', submitting'} \subseteq BOOLEAN
  BY <1>1 DEF ComposerInv
<1>16. showing' \in 0 .. turns' /\ turns' \in 0 .. Turns
  BY <1>1, ComposerConstants DEF ComposerInv
<1>17. /\ video' \in {"file", "rutube"} /\ uploads' \subseteq C!File /\ taken' \subseteq C!Draft
       /\ chosen' \in [C!File -> (0 .. Turns) \cup {None}] /\ \A f \in uploads' : chosen'[f] # None
       /\ post' # None => MediaFine(post', uploads', chosen')
       /\ DraftsFine(drafts', uploads', chosen')
  BY <1>1 DEF ComposerInv
<1>18. open' => OfShowing(drafts', post', chosen', showing') /\ (post' # None => post' \subseteq drafts' \cup taken')
  BY <1>1 DEF ComposerInv
<1> QED BY <1>1, <1>13, <1>14, <1>15, <1>16, <1>17, <1>18 DEF ComposerInv

(* The link has become a video, or not.                                    *)
LEMMA StepLinked == ASSUME ComposerInv, NEW s \in sends, C!Linked(s) PROVE ComposerInv'
<1> DEFINE v == [key |-> Link, kind |-> "external_video", state |-> "ready"]
           m == s.media \cup {v}
           t == [s EXCEPT !.step = "topic", !.media = m]
<1>1. /\ s.step = "link"
      /\ \/ sends' = (sends \ {s}) \cup {t} /\ submitting' = submitting
         \/ sends' = sends \ {s} /\ submitting' = FALSE
      /\ UNCHANGED <<post, open, drafts, video, link, uploads, showing, chosen, taken, turns>>
  BY DEF C!Linked, C!dialog
<1>2. sends \ {s} = {} /\ SendFine(s)
  BY DEF ComposerInv, AllOne
<1>3. v \in C!Draft /\ v.key = Link /\ v.kind = "external_video" /\ v.state = "ready"
  BY DEF C!Draft
<1> HIDE DEF v
<1>4. /\ s \in SendRec /\ MediaFine(s.media, uploads, chosen) /\ s.media \subseteq C!Images(s.media)
  BY <1>1, <1>2 DEF SendFine
<1>5. Limited(m)
  <2> DEFINE ds == s.media
  <2>1. /\ ds \subseteq C!Draft /\ IsFiniteSet(ds) /\ Cardinality(C!Images(C!Standing(ds))) <= MaxImages
        /\ ds \subseteq C!Images(ds)
    BY <1>4 DEF MediaFine, DraftsFine, Limited
  <2> HIDE DEF ds
  <2>2. m = ds \cup {v}
    BY DEF ds
  <2> HIDE DEF m
  <2>3. m \subseteq C!Draft /\ IsFiniteSet(m)
    BY <1>3, <2>1, <2>2, FS_Singleton, FS_Union
  <2>4. C!Images(C!Standing(m)) = C!Images(C!Standing(ds))
    BY <1>3, <2>2 DEF C!Images, C!Standing
  <2>5. \A d \in C!Standing(m) \ C!Images(m) : d = v
    BY <2>1, <2>2 DEF C!Images, C!Standing
  <2>6. AllOne(C!Standing(m) \ C!Images(m))
    BY <2>5 DEF AllOne
  <2> QED BY <2>1, <2>3, <2>4, <2>6 DEF Limited
<1>6. MediaFine(m, uploads, chosen)
  <2>1. v.key \notin uploads /\ FileChosen(v, chosen)
    BY <1>3, ComposerConstants DEF ComposerInv, FileChosen
  <2> QED BY <1>3, <1>4, <1>5, <2>1 DEF MediaFine, DraftsFine
<1>7. OfShowing(m, post, chosen, s.showing)
  BY <1>2, <1>3, ComposerConstants DEF SendFine, OfShowing
<1>8. m \in SUBSET C!Draft /\ s.media \subseteq m
  BY <1>5 DEF Limited
<1> HIDE DEF m
<1>9. t \in SendRec /\ t.step = "topic" /\ t.media = m /\ t.showing = s.showing /\ t.taken = s.taken
  BY <1>4, <1>8 DEF SendRec
<1> HIDE DEF t
<1>10. SendFine(t)
  BY <1>2, <1>6, <1>7, <1>8, <1>9 DEF SendFine
<1>11. SendFine(t)'
  BY <1>1, <1>10 DEF SendFine
<1>12. AllOne(sends') /\ (\A x \in sends' : x = t) /\ (sends' # {} => submitting')
  BY <1>1, <1>2 DEF AllOne, ComposerInv
<1>13. \A x \in sends' : SendFine(x)'
  BY <1>11, <1>12
<1>14. {open', link', submitting'} \subseteq BOOLEAN
  BY <1>1 DEF ComposerInv
<1>15. /\ video' \in {"file", "rutube"} /\ uploads' \subseteq C!File /\ taken' \subseteq C!Draft
       /\ showing' \in 0 .. turns' /\ turns' \in 0 .. Turns
       /\ chosen' \in [C!File -> (0 .. Turns) \cup {None}] /\ \A f \in uploads' : chosen'[f] # None
       /\ post' # None => MediaFine(post', uploads', chosen')
       /\ DraftsFine(drafts', uploads', chosen')
  BY <1>1 DEF ComposerInv
<1>16. open' => OfShowing(drafts', post', chosen', showing') /\ (post' # None => post' \subseteq drafts' \cup taken')
  BY <1>1 DEF ComposerInv
<1> QED BY <1>12, <1>13, <1>14, <1>15, <1>16 DEF ComposerInv

(* What was sent is answered; it was all that was under way.               *)
LEMMA StepSent == ASSUME ComposerInv, NEW s \in sends, C!Sent(s) PROVE ComposerInv'
<1>1. /\ sends' = sends \ {s} /\ submitting' = FALSE
      /\ \/ open' = FALSE /\ post' = IF post = None THEN None ELSE s.media
         \/ open' = open /\ post' = post
      /\ UNCHANGED <<drafts, video, link, uploads, showing, chosen, taken, turns>>
  BY DEF C!Sent
<1>2. sends' = {} /\ SendFine(s)
  BY <1>1 DEF ComposerInv, AllOne
<1>3. post' # None => MediaFine(post', uploads', chosen')
  BY <1>1, <1>2 DEF SendFine, ComposerInv
<1>4. {open', link', submitting'} \subseteq BOOLEAN
  BY <1>1 DEF ComposerInv
<1>5. /\ video' \in {"file", "rutube"} /\ uploads' \subseteq C!File /\ taken' \subseteq C!Draft
      /\ showing' \in 0 .. turns' /\ turns' \in 0 .. Turns
      /\ chosen' \in [C!File -> (0 .. Turns) \cup {None}] /\ \A f \in uploads' : chosen'[f] # None
      /\ DraftsFine(drafts', uploads', chosen')
  BY <1>1 DEF ComposerInv
<1>6. open' => OfShowing(drafts', post', chosen', showing') /\ (post' # None => post' \subseteq drafts' \cup taken')
  BY <1>1 DEF ComposerInv
<1> QED BY <1>2, <1>3, <1>4, <1>5, <1>6 DEF ComposerInv, AllOne

LEMMA ComposerInit == C!Init => ComposerInv
<1> SUFFICES ASSUME C!Init PROVE ComposerInv
  OBVIOUS
<1>1. /\ post \in Posts /\ open = FALSE /\ drafts = {} /\ video = "file" /\ link = FALSE
      /\ uploads = {} /\ submitting = FALSE /\ sends = {}
      /\ showing = 0 /\ chosen = [f \in C!File |-> None] /\ taken = {} /\ turns = 0
  BY DEF C!Init
<1>2. post # None => MediaFine(post, uploads, chosen)
  BY <1>1, PostFine
<1>3. DraftsFine(drafts, uploads, chosen)
  BY <1>1, EmptyFine
<1>4. showing \in 0 .. turns /\ turns \in 0 .. Turns
  BY <1>1, ComposerConstants
<1>5. {open, link, submitting} \subseteq BOOLEAN /\ chosen \in [C!File -> (0 .. Turns) \cup {None}]
  BY <1>1
<1> QED BY <1>1, <1>2, <1>3, <1>4, <1>5 DEF ComposerInv, AllOne

LEMMA ComposerStill == ComposerInv /\ UNCHANGED composer => ComposerInv'
<1> SUFFICES ASSUME ComposerInv, UNCHANGED composer PROVE ComposerInv'
  OBVIOUS
<1>1. UNCHANGED <<post, open, drafts, video, link, uploads, submitting, sends, showing, chosen, taken, turns>>
  BY DEF composer
<1>2. {open', link', submitting'} \subseteq BOOLEAN
  BY <1>1 DEF ComposerInv
<1>3. /\ video' \in {"file", "rutube"} /\ taken' \subseteq C!Draft
      /\ DraftsFine(drafts', uploads', chosen')
  BY <1>1 DEF ComposerInv
<1>4. open' => OfShowing(drafts', post', chosen', showing') /\ (post' # None => post' \subseteq drafts' \cup taken')
  BY <1>1 DEF ComposerInv
<1> QED BY <1>1, <1>2, <1>3, <1>4, SendsStay DEF ComposerInv

LEMMA ComposerStep == ComposerInv /\ C!Next => ComposerInv'
BY StepAddImages, StepAddVideo, StepUploaded, StepKeep, StepDialog, StepOpen, StepRenewed, StepSubmit,
   StepLinked, StepSent DEF C!Next

(* The dialog of a topic (components/community/create-topic-modal.tsx):    *)
(* whatever is uploaded, fails, is taken away, closed and opened again     *)
(* meanwhile, a file goes with the dialog it was chosen in, an edit loses  *)
(* no attachment, what is sent is within the limits, and one thing is sent *)
(* at a time.                                                              *)
THEOREM FilesAreKept == SceneSpec => []FilesKept
<1> DEFINE I == scene = "composer" => ComposerInv
<1>1. SceneInit => I
  BY ComposerInit DEF SceneInit
<1>2. I /\ [SceneNext]_<<scene, vars, composer, stocks, threads>> => I'
  <2> SUFFICES ASSUME I, [SceneNext]_<<scene, vars, composer, stocks, threads>>, scene' = "composer"
               PROVE  ComposerInv'
    OBVIOUS
  <2>1. scene = "composer" /\ (C!Next \/ UNCHANGED composer)
    BY DEF SceneNext
  <2> QED BY <2>1, ComposerStep, ComposerStill
<1>3. I => FilesKept
  BY ComposerMeans DEF FilesKept
<1> QED BY <1>1, <1>2, <1>3, PTL DEF SceneSpec

(***************************************************************************)
(* The forms of the catalogue.                                             *)
(***************************************************************************)
StockRow == [of : {None}, at : Nat, whole : BOOLEAN]
FormRec == [slug : S!Entry \cup {None}, label : S!RowRec \cup {None}, base : Seq(S!RowRec) \cup {None},
            rest : Seq(S!RowRec), fetched : Seq(S!RowRec) \cup {None}]
PutRec == [kind : S!Kind, at : 0 .. Deeds, slug : S!Entry \cup {None},
           rows : Seq(S!RowRec) \cup {None}, fetched : Seq(S!RowRec) \cup {None}]

(* Rows that were fetched of an entry.                                     *)
RowsFetched(e, rows) ==
  /\ rows \in Seq(S!RowRec)
  /\ \A n \in 1 .. Len(rows) : rows[n].of = e /\ rows[n].at = n

(* A form on an entry has the rows of it as they were fetched: the first   *)
(* behind the label, unless that was typed, and all the others.  One on a  *)
(* new product has none.                                                   *)
FormFine(k, f) ==
  /\ f \in FormRec
  /\ f.slug = None /\ k = "item" => f.base = None /\ f.rest = <<>>
  /\ f.slug # None =>
       /\ S!KindOf(f.slug) = k /\ RowsFetched(f.slug, f.fetched) /\ f.rest = S!Rest(f.fetched)
       /\ k = "item" => f.base = f.fetched
       /\ f.label \in {None, S!Typed} \/ (f.fetched # <<>> /\ f.label = f.fetched[1])

(* Rows of one entry; rows of which each that was fetched but the first is *)
(* there once.                                                             *)
OfEntry(e, rows) == \A i \in DOMAIN rows : rows[i].of \in {e, None}
OnceEach(e, old, rows) ==
  \A n \in 2 .. Len(old) : \E m \in DOMAIN rows : \A i \in DOMAIN rows :
    (rows[i].of = e /\ rows[i].at = n) <=> i = m

(* What RowsOfEntry, RowsKept and FirstRowWhole say of a saving.           *)
RowsFine(kind, e, old, rows) ==
  /\ kind = "item" \/ e # None => OfEntry(e, rows)
  /\ e # None => OnceEach(e, old, rows)
  /\ kind = "item" /\ e # None /\ old # <<>> => rows[1] = old[1]
PutFine(p) ==
  /\ p \in PutRec /\ (p.rows = None => p.slug # None /\ p.kind = "item")
  /\ p.rows # None => RowsFine(p.kind, p.slug, p.fetched, p.rows)

(* What may lead the rows of an entry: one row at most, and none that was  *)
(* not fetched first.                                                      *)
Leads(a) == a \in Seq(S!RowRec) /\ Len(a) <= 1
Ours(e, a) == Len(a) = 1 => a[1].of \in {e, None} /\ a[1].at \in {0, 1}

StockFine(s) ==
  /\ s = [e \in S!Entry |-> s[e]]
  /\ \A e \in S!Entry : s[e] # None => s[e] \in Seq(StockRow)
FormsFine(p) ==
  /\ p = [k \in S!Kind |-> p[k]]
  /\ \A k \in S!Kind : FormFine(k, p[k])

StockInv ==
  /\ StockFine(stock) /\ FormsFine(panel) /\ \A p \in puts : PutFine(p)
  /\ shown \subseteq S!Entry /\ fetches \subseteq S!Entry /\ deeds \in 0 .. Deeds
  /\ reloads \in Nat

LEMMA StockConstants ==
  /\ Deeds \in Nat /\ Starts \subseteq [S!Entry -> Nat \cup {None}]
  /\ None \notin S!Entry /\ None \notin Seq(S!RowRec)
BY OfficeAssumption DEF S!StockAssumption, S!Entry, S!RowRec

LEMMA StockMeans == StockInv => S!TypeOK /\ S!RowsOfEntry /\ S!RowsKept /\ S!FirstRowWhole
<1> SUFFICES ASSUME StockInv PROVE S!TypeOK /\ S!RowsOfEntry /\ S!RowsKept /\ S!FirstRowWhole
  OBVIOUS
<1>1. \A p \in puts : PutFine(p)
  BY DEF StockInv
<1>2. S!RowsOfEntry
  BY <1>1 DEF PutFine, RowsFine, OfEntry, S!RowsOfEntry
<1>3. S!RowsKept
  BY <1>1 DEF PutFine, RowsFine, OnceEach, S!RowsKept
<1>4. S!FirstRowWhole
  BY <1>1 DEF PutFine, RowsFine, S!FirstRowWhole
<1>5. S!TypeOK
  <2>1. \A e \in S!Entry : stock[e] # None => stock[e] \in Seq(StockRow)
    BY DEF StockInv, StockFine
  <2>2. ASSUME NEW k \in S!Kind
        PROVE  /\ panel[k].slug \in {e \in S!Entry : S!KindOf(e) = k} \cup {None}
               /\ panel[k].label \in S!RowRec \cup {None} /\ panel[k].rest \in Seq(S!RowRec)
               /\ panel[k].base = None \/ panel[k].base \in Seq(S!RowRec)
    BY DEF StockInv, FormsFine, FormFine, FormRec
  <2>3. ASSUME NEW p \in puts
        PROVE  /\ p.slug \in S!Entry \cup {None} /\ (p.rows = None => p.slug # None /\ p.kind = "item")
               /\ p.rows # None => p.rows \in Seq(S!RowRec)
    BY <1>1 DEF PutFine, PutRec
  <2>4. shown \subseteq S!Entry /\ fetches \subseteq S!Entry /\ deeds \in 0 .. Deeds
        /\ reloads \in Nat
    BY DEF StockInv
  <2> QED BY <2>1, <2>2, <2>3, <2>4 DEF S!TypeOK, StockRow
<1> QED BY <1>2, <1>3, <1>4, <1>5

(* What the form keeps aside.                                              *)
LEMMA RestIs ==
  ASSUME NEW Q, NEW rows \in Seq(Q)
  PROVE  /\ S!Rest(rows) \in Seq(Q)
         /\ rows = <<>> => Len(S!Rest(rows)) = 0
         /\ rows # <<>> => Len(S!Rest(rows)) = Len(rows) - 1 /\ Len(rows) >= 1
         /\ \A i \in 1 .. Len(S!Rest(rows)) : S!Rest(rows)[i] = rows[i + 1] /\ i + 1 \in 1 .. Len(rows)
<1>1. CASE rows = <<>>
  BY <1>1 DEF S!Rest
<1>2. CASE rows # <<>>
  <2>1. S!Rest(rows) = Tail(rows)
    BY <1>2 DEF S!Rest
  <2>2. Tail(rows) \in Seq(Q) /\ Len(Tail(rows)) = Len(rows) - 1 /\ Len(rows) \in Nat /\ Len(rows) >= 1
    BY <1>2
  <2>3. \A i \in 1 .. Len(Tail(rows)) : Tail(rows)[i] = rows[i + 1] /\ i + 1 \in 1 .. Len(rows)
    BY <1>2, <2>2
  <2> QED BY <1>2, <2>1, <2>2, <2>3
<1> QED BY <1>1, <1>2

LEMMA AtMostOne == ASSUME NEW n \in Nat, n <= 1 PROVE n \in 0 .. 1
OBVIOUS

(* Rows put behind a first one that is not among them, or behind none.     *)
LEMMA JoinedIs ==
  ASSUME NEW Q, NEW a \in Seq(Q), NEW b \in Seq(Q), Len(a) <= 1
  PROVE  /\ a \o b \in Seq(Q) /\ Len(a \o b) = Len(a) + Len(b)
         /\ \A i \in 1 .. Len(a \o b) :
              \/ i = 1 /\ Len(a) = 1 /\ (a \o b)[i] = a[1]
              \/ i - Len(a) \in 1 .. Len(b) /\ (a \o b)[i] = b[i - Len(a)]
         /\ \A i \in 1 .. Len(b) : (a \o b)[i + Len(a)] = b[i] /\ i + Len(a) \in 1 .. Len(a \o b)
         /\ Len(a) = 1 => (a \o b)[1] = a[1]
<1>1. Len(a) \in 0 .. 1 /\ Len(b) \in Nat
  <2>1. Len(a) \in Nat
    OBVIOUS
  <2>2. Len(b) \in Nat
    OBVIOUS
  <2>3. Len(a) \in 0 .. 1
    BY <2>1, AtMostOne
  <2> QED BY <2>2, <2>3
<1>2. a \o b \in Seq(Q)
  OBVIOUS
<1>3. Len(a \o b) = Len(a) + Len(b)
  OBVIOUS
<1>4. \A i \in 1 .. Len(a) + Len(b) : (a \o b)[i] = IF i <= Len(a) THEN a[i] ELSE b[i - Len(a)]
  OBVIOUS
<1>5. ASSUME NEW i \in 1 .. Len(a \o b)
      PROVE  \/ i = 1 /\ Len(a) = 1 /\ (a \o b)[i] = a[1]
             \/ i - Len(a) \in 1 .. Len(b) /\ (a \o b)[i] = b[i - Len(a)]
  <2>1. CASE i <= Len(a)
    <3>1. i = 1 /\ Len(a) = 1
      BY <1>1, <1>3, <2>1
    <3> QED BY <1>3, <1>4, <2>1, <3>1
  <2>2. CASE ~(i <= Len(a))
    <3>1. i - Len(a) \in 1 .. Len(b)
      BY <1>1, <1>3, <2>2
    <3> QED BY <1>3, <1>4, <2>2, <3>1
  <2> QED BY <2>1, <2>2
<1>6. ASSUME NEW i \in 1 .. Len(b)
      PROVE  (a \o b)[i + Len(a)] = b[i] /\ i + Len(a) \in 1 .. Len(a \o b)
  <2>1. i + Len(a) \in 1 .. Len(a) + Len(b) /\ ~(i + Len(a) <= Len(a)) /\ (i + Len(a)) - Len(a) = i
    BY <1>1
  <2> QED BY <1>3, <1>4, <2>1
<1>7. Len(a) = 1 => (a \o b)[1] = a[1]
  <2>1. Len(a) = 1 => 1 \in 1 .. Len(a) + Len(b) /\ 1 <= Len(a)
    BY <1>1
  <2> QED BY <1>4, <2>1
<1> QED BY <1>2, <1>3, <1>5, <1>6, <1>7

(* Of rows behind a first one, each but the first is there once.           *)
LEMMA BehindFirst ==
  ASSUME NEW e, NEW rows, RowsFetched(e, rows), NEW a, Leads(a), Ours(e, a)
  PROVE  /\ OfEntry(e, a \o S!Rest(rows)) /\ OnceEach(e, rows, a \o S!Rest(rows))
         /\ Len(a) = 1 => (a \o S!Rest(rows))[1] = a[1]
<1>0. a \in Seq(S!RowRec) /\ Len(a) <= 1 /\ (Len(a) = 1 => a[1].of \in {e, None} /\ a[1].at \in {0, 1})
  BY DEF Leads, Ours
<1> DEFINE b == S!Rest(rows)
           all == a \o b
<1>1. rows \in Seq(S!RowRec) /\ \A n \in 1 .. Len(rows) : rows[n].of = e /\ rows[n].at = n
  BY DEF RowsFetched
<1>2. /\ b \in Seq(S!RowRec) /\ (rows = <<>> => Len(b) = 0)
      /\ rows # <<>> => Len(b) = Len(rows) - 1 /\ Len(rows) >= 1
      /\ \A i \in 1 .. Len(b) : b[i] = rows[i + 1] /\ i + 1 \in 1 .. Len(rows)
  BY <1>1, RestIs
<1> HIDE DEF b
<1>3. /\ all \in Seq(S!RowRec) /\ Len(all) = Len(a) + Len(b)
      /\ \A i \in 1 .. Len(all) :
           \/ i = 1 /\ Len(a) = 1 /\ all[i] = a[1]
           \/ i - Len(a) \in 1 .. Len(b) /\ all[i] = b[i - Len(a)]
      /\ \A i \in 1 .. Len(b) : all[i + Len(a)] = b[i] /\ i + Len(a) \in 1 .. Len(all)
      /\ Len(a) = 1 => all[1] = a[1]
  <2>1. b \in Seq(S!RowRec)
    BY <1>2
  <2> QED BY <1>0, <2>1, JoinedIs
<1> HIDE DEF all
<1>4. Len(a) \in 0 .. 1 /\ Len(b) \in Nat /\ Len(rows) \in Nat
  <2>1. Len(a) \in Nat /\ Len(a) <= 1
    BY <1>0
  <2>2. Len(b) \in Nat
    BY <1>2
  <2>3. Len(rows) \in Nat
    BY <1>1
  <2>4. Len(a) \in 0 .. 1
    BY <2>1, AtMostOne
  <2> QED BY <2>2, <2>3, <2>4
<1>5. ASSUME NEW i \in 1 .. Len(b) PROVE b[i].of = e /\ b[i].at = i + 1
  BY <1>1, <1>2
<1>6. ASSUME NEW i \in 1 .. Len(all) PROVE all[i].of \in {e, None}
  BY <1>0, <1>3, <1>5
<1>7. ASSUME NEW n \in 2 .. Len(rows)
      PROVE  \E m \in 1 .. Len(all) : \A i \in 1 .. Len(all) :
               (all[i].of = e /\ all[i].at = n) <=> i = m
  <2> DEFINE m == (n - 1) + Len(a)
  <2>1. n - 1 \in 1 .. Len(b) /\ (n - 1) + 1 = n /\ n >= 2 /\ n \in Nat
    <3>1. rows # <<>>
      BY <1>4
    <3> QED BY <1>2, <1>4, <3>1
  <2>2. all[m] = b[n - 1] /\ m \in 1 .. Len(all)
    BY <1>3, <2>1
  <2>3. all[m].of = e /\ all[m].at = n
    BY <1>5, <2>1, <2>2
  <2>4. ASSUME NEW i \in 1 .. Len(all), all[i].at = n PROVE i = m
    <3>1. CASE i = 1 /\ Len(a) = 1 /\ all[i] = a[1]
      <4>1. all[i].at \in {0, 1}
        BY <1>0, <3>1
      <4> QED BY <2>1, <2>4, <4>1
    <3>2. CASE i - Len(a) \in 1 .. Len(b) /\ all[i] = b[i - Len(a)]
      <4>1. all[i].at = (i - Len(a)) + 1
        BY <1>5, <3>2
      <4> QED BY <1>4, <2>1, <2>4, <4>1
    <3> QED BY <1>3, <3>1, <3>2
  <2> HIDE DEF m
  <2> QED BY <2>2, <2>3, <2>4
<1>8. b = S!Rest(rows) /\ all = a \o b
  BY DEF b, all
<1>9. DOMAIN all = 1 .. Len(all)
  BY <1>3
<1>10. OfEntry(e, all) /\ OnceEach(e, rows, all)
  BY <1>6, <1>7, <1>9 DEF OfEntry, OnceEach
<1> QED BY <1>3, <1>8, <1>10

LEMMA SingleIs == ASSUME NEW Q, NEW x \in Q PROVE <<x>> \in Seq(Q) /\ Len(<<x>>) = 1 /\ <<x>>[1] = x
OBVIOUS

(* What handleSave sends of a form.                                        *)
LEMMA SentFine ==
  ASSUME NEW k \in S!Kind, NEW f, FormFine(k, f), NEW n \in 0 .. Deeds
  PROVE  PutFine([kind |-> k, at |-> n, slug |-> f.slug, rows |-> S!Sent(k, f), fetched |-> f.fetched])
<1> DEFINE rows == S!Sent(k, f)
           p == [kind |-> k, at |-> n, slug |-> f.slug, rows |-> rows, fetched |-> f.fetched]
<1>1. /\ f.slug \in S!Entry \cup {None} /\ f.label \in S!RowRec \cup {None}
      /\ f.base \in Seq(S!RowRec) \cup {None} /\ f.rest \in Seq(S!RowRec)
      /\ f.fetched \in Seq(S!RowRec) \cup {None}
  BY DEF FormFine, FormRec
<1>2. S!Typed \in S!RowRec /\ S!Typed.of = None /\ S!Typed.at = 0
  BY DEF S!Typed, S!RowRec
<1>3. f.slug # None =>
       /\ RowsFetched(f.slug, f.fetched) /\ f.rest = S!Rest(f.fetched)
       /\ k = "item" => f.base = f.fetched
       /\ f.label \in {None, S!Typed} \/ (f.fetched # <<>> /\ f.label = f.fetched[1])
  BY DEF FormFine
<1>4. ASSUME f.slug # None, f.fetched # <<>>
      PROVE  f.fetched[1] \in S!RowRec /\ f.fetched[1].of = f.slug /\ f.fetched[1].at = 1
  <2>1. f.fetched \in Seq(S!RowRec)
    BY <1>3, <1>4 DEF RowsFetched
  <2>2. 1 \in 1 .. Len(f.fetched)
    BY <1>4, <2>1
  <2> QED BY <1>3, <1>4, <2>1, <2>2 DEF RowsFetched
<1>5. ASSUME NEW x \in S!RowRec PROVE Leads(<<x>>)
  BY SingleIs DEF Leads
<1>6. Leads(<<>>) /\ Ours(f.slug, <<>>)
  <2>1. Len(<<>>) = 0 /\ <<>> \in Seq(S!RowRec)
    OBVIOUS
  <2> QED BY <2>1 DEF Leads, Ours
<1>7. Leads(S!FirstOfLot(f)) /\ (f.slug # None => Ours(f.slug, S!FirstOfLot(f)))
  <2>1. CASE f.label = None
    BY <1>6, <2>1 DEF S!FirstOfLot
  <2>2. CASE f.label # None
    <3> DEFINE x == [f.label EXCEPT !.whole = FALSE]
    <3>1. f.label \in S!RowRec
      BY <1>1, <2>2
    <3>2. x \in S!RowRec /\ x.of = f.label.of /\ x.at = f.label.at
      BY <3>1 DEF S!RowRec
    <3>3. S!FirstOfLot(f) = <<x>>
      BY <2>2 DEF S!FirstOfLot
    <3>4. f.slug # None => f.label.of \in {f.slug, None} /\ f.label.at \in {0, 1}
      BY <1>2, <1>3, <1>4, <2>2
    <3> HIDE DEF x
    <3>5. <<x>>[1] = x
      OBVIOUS
    <3> QED BY <1>5, <3>2, <3>3, <3>4, <3>5 DEF Ours
  <2> QED BY <2>1, <2>2
<1>8. /\ Leads(S!FirstOfItem(f)) /\ Len(S!FirstOfItem(f)) = 1
      /\ f.slug = None /\ k = "item" => S!FirstOfItem(f)[1].of = None
      /\ f.slug # None /\ k = "item" => Ours(f.slug, S!FirstOfItem(f))
      /\ f.slug # None /\ k = "item" /\ f.fetched # <<>> => S!FirstOfItem(f)[1] = f.fetched[1]
  <2>1. CASE f.base \in {None, <<>>}
    <3>1. S!FirstOfItem(f) = <<S!Typed>>
      BY <2>1 DEF S!FirstOfItem
    <3>2. Len(<<S!Typed>>) = 1 /\ <<S!Typed>>[1] = S!Typed
      BY <1>2, SingleIs
    <3>3. f.slug # None /\ k = "item" => f.fetched = <<>>
      <4>1. f.slug # None => f.fetched # None
        BY <1>3, StockConstants DEF RowsFetched
      <4> QED BY <1>3, <2>1, <4>1
    <3>4. Leads(<<S!Typed>>)
      BY <1>2, <1>5
    <3>5. Ours(f.slug, <<S!Typed>>)
      BY <1>2, <3>2 DEF Ours
    <3> QED BY <1>2, <3>1, <3>2, <3>3, <3>4, <3>5
  <2>2. CASE f.base \notin {None, <<>>}
    <3> DEFINE x == f.base[1]
    <3>1. S!FirstOfItem(f) = <<x>>
      BY <2>2 DEF S!FirstOfItem
    <3>2. f.base \in Seq(S!RowRec) /\ f.base # <<>>
      BY <1>1, <2>2
    <3>3. x \in S!RowRec
      BY <3>2
    <3>4. f.slug # None /\ k = "item" => f.fetched # <<>> /\ x = f.fetched[1]
      BY <1>3, <2>2
    <3>5. ~(f.slug = None /\ k = "item")
      BY <2>2 DEF FormFine
    <3> HIDE DEF x
    <3>6. Len(<<x>>) = 1 /\ <<x>>[1] = x /\ Leads(<<x>>)
      BY <1>5, <3>3, SingleIs
    <3>7. f.slug # None /\ k = "item" => Ours(f.slug, <<x>>)
      BY <1>4, <3>4, <3>6 DEF Ours
    <3> QED BY <3>1, <3>4, <3>5, <3>6, <3>7
  <2> QED BY <2>1, <2>2
<1> DEFINE Fine(q) == q \in Seq(S!RowRec) /\ RowsFine(k, f.slug, f.fetched, q)
<1>9. k = "lot" => Fine(rows)
  <2> SUFFICES ASSUME k = "lot" PROVE Fine(rows)
    OBVIOUS
  <2> DEFINE a == S!FirstOfLot(f)
  <2>1. rows = a \o f.rest /\ k # "item"
    BY DEF S!Sent
  <2>2. a \in Seq(S!RowRec)
    BY <1>7 DEF Leads
  <2> HIDE DEF a
  <2>3. a \o f.rest \in Seq(S!RowRec)
    BY <1>1, <2>2
  <2>4. f.slug # None => OfEntry(f.slug, a \o f.rest) /\ OnceEach(f.slug, f.fetched, a \o f.rest)
    <3> SUFFICES ASSUME f.slug # None
                 PROVE  OfEntry(f.slug, a \o f.rest) /\ OnceEach(f.slug, f.fetched, a \o f.rest)
      OBVIOUS
    <3>1. Leads(a) /\ Ours(f.slug, a)
      BY <1>7 DEF a
    <3>2. RowsFetched(f.slug, f.fetched) /\ f.rest = S!Rest(f.fetched)
      BY <1>3
    <3> QED BY <3>1, <3>2, BehindFirst
  <2> HIDE DEF rows
  <2> QED BY <2>1, <2>3, <2>4 DEF RowsFine
<1>10. k = "item" /\ f.label # None => Fine(rows)
  <2> SUFFICES ASSUME k = "item", f.label # None PROVE Fine(rows)
    OBVIOUS
  <2> DEFINE a == S!FirstOfItem(f)
  <2>1. rows = a \o f.rest
    BY DEF S!Sent
  <2>2. a \in Seq(S!RowRec) /\ Len(a) = 1
    BY <1>8 DEF Leads
  <2>3. f.slug # None => Leads(a) /\ Ours(f.slug, a) /\ (f.fetched # <<>> => a[1] = f.fetched[1])
    BY <1>8
  <2>4. f.slug = None => a[1].of = None
    BY <1>8
  <2> HIDE DEF a
  <2>5. a \o f.rest \in Seq(S!RowRec)
    BY <1>1, <2>2
  <2>6. f.slug # None => RowsFine(k, f.slug, f.fetched, a \o f.rest)
    <3> SUFFICES ASSUME f.slug # None PROVE RowsFine(k, f.slug, f.fetched, a \o f.rest)
      OBVIOUS
    <3>1. RowsFetched(f.slug, f.fetched) /\ f.rest = S!Rest(f.fetched)
      BY <1>3
    <3>2. /\ OfEntry(f.slug, a \o f.rest) /\ OnceEach(f.slug, f.fetched, a \o f.rest)
          /\ (a \o f.rest)[1] = a[1]
      BY <2>2, <2>3, <3>1, BehindFirst
    <3> QED BY <2>3, <3>2 DEF RowsFine
  <2>7. f.slug = None => RowsFine(k, f.slug, f.fetched, a \o f.rest)
    <3> SUFFICES ASSUME f.slug = None PROVE RowsFine(k, f.slug, f.fetched, a \o f.rest)
      OBVIOUS
    <3>1. f.rest = <<>>
      BY DEF FormFine
    <3>2. a \o <<>> = a
      BY <2>2
    <3>3. \A j \in DOMAIN a : j = 1
      BY <2>2
    <3>4. OfEntry(f.slug, a)
      BY <2>4, <3>3 DEF OfEntry
    <3> QED BY <3>1, <3>2, <3>4 DEF RowsFine
  <2> HIDE DEF rows
  <2> QED BY <2>1, <2>5, <2>6, <2>7
<1>11. k = "item" /\ f.label = None => IF f.slug = None THEN Fine(rows) ELSE rows = None
  <2> SUFFICES ASSUME k = "item", f.label = None PROVE IF f.slug = None THEN Fine(rows) ELSE rows = None
    OBVIOUS
  <2>1. rows = IF f.slug # None THEN None ELSE <<>>
    BY DEF S!Sent
  <2>2. <<>> \in Seq(S!RowRec) /\ \A j \in DOMAIN <<>> : FALSE
    OBVIOUS
  <2> HIDE DEF rows
  <2>3. f.slug = None => Fine(<<>>)
    BY <2>2 DEF RowsFine, OfEntry
  <2> HIDE DEF Fine
  <2> QED BY <2>1, <2>3
<1>12. k \in {"lot", "item"}
  BY DEF S!Kind
<1>13. Fine(rows) \/ (rows = None /\ f.slug # None /\ k = "item")
  <2> HIDE DEF Fine, rows
  <2> QED BY <1>9, <1>10, <1>11, <1>12
<1> HIDE DEF rows
<1>14. rows \in Seq(S!RowRec) \cup {None}
  BY <1>13
<1>15. p \in PutRec
  BY <1>1, <1>14 DEF PutRec
<1>16. /\ p.kind = k /\ p.slug = f.slug /\ p.rows = rows /\ p.fetched = f.fetched
  OBVIOUS
<1> HIDE DEF p
<1>17. rows \in Seq(S!RowRec) => rows # None
  BY StockConstants
<1>18. PutFine(p)
  BY <1>13, <1>15, <1>16, <1>17 DEF PutFine
<1> QED BY <1>18 DEF p, rows

LEMMA RowsAre ==
  ASSUME NEW Q, NEW m \in Nat, NEW g, g = [n \in 1 .. m |-> g[n]], \A n \in 1 .. m : g[n] \in Q
  PROVE  g \in Seq(Q) /\ Len(g) = m
<1>1. g \in [1 .. m -> Q]
  OBVIOUS
<1>2. g \in Seq(Q)
  BY <1>1
<1>3. DOMAIN g = 1 .. m
  BY <1>1
<1> QED BY <1>2, <1>3

LEMMA KindIs == \A e \in S!Entry : S!KindOf(e) \in S!Kind
BY DEF S!KindOf, S!Kind

(* A form that is filled shows its entry.                                  *)
LEMMA FilledFine ==
  ASSUME NEW e \in S!Entry, stock[e] \in Seq(StockRow)
  PROVE  FormFine(S!KindOf(e), S!Filled(S!KindOf(e), e))
<1> DEFINE k == S!KindOf(e)
           s == stock[e]
           rows == S!RowsOf(e)
           f == S!Filled(k, e)
<1>1. s \in Seq(StockRow) /\ Len(s) \in Nat
  OBVIOUS
<1>2. rows = [n \in 1 .. Len(s) |-> [s[n] EXCEPT !.of = e, !.at = n]]
  BY DEF S!RowsOf
<1> HIDE DEF s, rows
<1>3. ASSUME NEW n \in 1 .. Len(s)
      PROVE  /\ [s[n] EXCEPT !.of = e, !.at = n] \in S!RowRec
             /\ [s[n] EXCEPT !.of = e, !.at = n].of = e /\ [s[n] EXCEPT !.of = e, !.at = n].at = n
  <2> DEFINE r == s[n]
  <2>1. r \in StockRow /\ n \in Nat
    BY <1>1
  <2> HIDE DEF r
  <2>2. /\ [r EXCEPT !.of = e, !.at = n] \in S!RowRec
        /\ [r EXCEPT !.of = e, !.at = n].of = e /\ [r EXCEPT !.of = e, !.at = n].at = n
    BY <2>1 DEF StockRow, S!RowRec
  <2> QED BY <2>2 DEF r
<1>4. rows \in Seq(S!RowRec) /\ Len(rows) = Len(s)
  <2>1. rows = [n \in 1 .. Len(s) |-> rows[n]]
    BY <1>2
  <2>2. \A n \in 1 .. Len(s) : rows[n] \in S!RowRec
    BY <1>2, <1>3
  <2> QED BY <1>1, <2>1, <2>2, RowsAre
<1>5. \A n \in 1 .. Len(rows) : rows[n].of = e /\ rows[n].at = n
  BY <1>2, <1>3, <1>4
<1>6. RowsFetched(e, rows)
  BY <1>4, <1>5 DEF RowsFetched
<1>7. rows # <<>> => rows[1] \in S!RowRec
  BY <1>4
<1>8. S!Rest(rows) \in Seq(S!RowRec)
  BY <1>4, RestIs
<1> DEFINE label == IF rows = <<>> THEN None ELSE rows[1]
           base == IF k = "item" THEN rows ELSE None
<1>9. label \in S!RowRec \cup {None} /\ (label = None \/ (rows # <<>> /\ label = rows[1]))
  BY <1>7
<1>10. base \in Seq(S!RowRec) \cup {None} /\ (k = "item" => base = rows)
  BY <1>4
<1>11. f = [slug |-> e, label |-> label, base |-> base, rest |-> S!Rest(rows), fetched |-> rows]
  BY DEF S!Filled, rows
<1> HIDE DEF f, label, base
<1>12. /\ f.slug = e /\ f.label = label /\ f.base = base /\ f.rest = S!Rest(rows) /\ f.fetched = rows
  BY <1>11
<1>13. f \in FormRec
  BY <1>4, <1>8, <1>9, <1>10, <1>11 DEF FormRec
<1>14. e # None
  BY StockConstants
<1>15. FormFine(k, f)
  BY <1>6, <1>9, <1>10, <1>12, <1>13, <1>14 DEF FormFine
<1> QED BY <1>15 DEF f, k

(* A label is typed, or cleared.                                           *)
LEMMA TypedFine ==
  ASSUME NEW k, NEW f, FormFine(k, f)
  PROVE  FormFine(k, [f EXCEPT !.label = IF @ = None THEN S!Typed ELSE None])
<1> DEFINE l == IF f.label = None THEN S!Typed ELSE None
           g == [f EXCEPT !.label = l]
<1>1. l \in S!RowRec \cup {None} /\ l \in {None, S!Typed}
  BY DEF S!Typed, S!RowRec
<1> HIDE DEF l
<1>2. f \in FormRec
  BY DEF FormFine
<1>3. g \in FormRec /\ g.label = l
      /\ g.slug = f.slug /\ g.base = f.base /\ g.rest = f.rest /\ g.fetched = f.fetched
  BY <1>1, <1>2 DEF FormRec
<1> HIDE DEF g
<1>4. FormFine(k, g)
  BY <1>1, <1>3 DEF FormFine
<1> QED BY <1>4 DEF g, l

(* A form is emptied after a saving.                                       *)
LEMMA EmptiedFine ==
  ASSUME NEW k \in S!Kind, NEW f, FormFine(k, f)
  PROVE  FormFine(k, S!Emptied(k, f))
<1> DEFINE g == S!Emptied(k, f)
<1>1. f \in FormRec
  BY DEF FormFine
<1>2. <<>> \in Seq(S!RowRec) /\ None \in S!Entry \cup {None} /\ None \in Seq(S!RowRec) \cup {None}
  OBVIOUS
<1>3. CASE k = "item"
  <2>1. g = [f EXCEPT !.slug = None, !.base = None, !.rest = <<>>]
    BY <1>3 DEF S!Emptied
  <2> HIDE DEF g
  <2>2. g \in FormRec /\ g.slug = None /\ g.base = None /\ g.rest = <<>>
    BY <1>1, <1>2, <2>1 DEF FormRec
  <2> QED BY <2>2 DEF FormFine, g
<1>4. CASE k # "item"
  <2>1. g = [f EXCEPT !.slug = None]
    BY <1>4 DEF S!Emptied
  <2> HIDE DEF g
  <2>2. g \in FormRec /\ g.slug = None
    BY <1>1, <1>2, <2>1 DEF FormRec
  <2> QED BY <1>4, <2>2 DEF FormFine, g
<1> QED BY <1>3, <1>4

LEMMA OneFormFine ==
  ASSUME FormsFine(panel), NEW k \in S!Kind, NEW f, FormFine(k, f), panel' = [panel EXCEPT ![k] = f]
  PROVE  FormsFine(panel')
<1>1. panel = [j \in S!Kind |-> panel[j]]
  BY DEF FormsFine
<1>2. panel' = [j \in S!Kind |-> IF j = k THEN f ELSE panel[j]]
  BY <1>1
<1>3. \A j \in S!Kind : panel'[j] = IF j = k THEN f ELSE panel[j]
  BY <1>2
<1>4. panel' = [j \in S!Kind |-> panel'[j]]
  BY <1>2
<1>5. \A j \in S!Kind : FormFine(j, panel'[j])
  BY <1>3 DEF FormsFine
<1> QED BY <1>4, <1>5 DEF FormsFine

LEMMA OneStockFine ==
  ASSUME StockFine(stock), NEW e \in S!Entry, NEW rows, rows = None \/ rows \in Seq(StockRow),
         stock' = [stock EXCEPT ![e] = rows]
  PROVE  StockFine(stock')
<1>1. stock = [x \in S!Entry |-> stock[x]]
  BY DEF StockFine
<1>2. stock' = [x \in S!Entry |-> IF x = e THEN rows ELSE stock[x]]
  BY <1>1
<1>3. \A x \in S!Entry : stock'[x] = IF x = e THEN rows ELSE stock[x]
  BY <1>2
<1>4. stock' = [x \in S!Entry |-> stock'[x]]
  BY <1>2
<1> QED BY <1>3, <1>4 DEF StockFine

LEMMA StockSteps ==
  ASSUME StockInv, \/ \E e \in S!Entry : S!Fetch(e) \/ S!Delete(e)
                   \/ \E e \in fetches : S!Fetched(e)
                   \/ \E k \in S!Kind : S!TypeLabel(k) \/ S!Put(k)
                   \/ \E p \in puts : S!PutFailed(p)
                   \/ S!Reloaded
  PROVE  StockInv'
<1>0. /\ StockFine(stock) /\ FormsFine(panel) /\ \A p \in puts : PutFine(p)
      /\ shown \subseteq S!Entry /\ fetches \subseteq S!Entry /\ deeds \in 0 .. Deeds
      /\ reloads \in Nat
      /\ \A k \in S!Kind : FormFine(k, panel[k])
  BY DEF StockInv, FormsFine
<1>1. CASE \E e \in S!Entry : S!Fetch(e)
  <2>1. /\ UNCHANGED <<stock, shown, panel, puts, reloads>> /\ fetches' \subseteq S!Entry
        /\ deeds < Deeds /\ deeds' = deeds + 1
    BY <1>0, <1>1 DEF S!Fetch, S!Deed
  <2>2. deeds' \in 0 .. Deeds
    BY <1>0, <2>1, StockConstants
  <2> QED BY <1>0, <2>1, <2>2 DEF StockInv
<1>2. CASE \E e \in S!Entry : S!Delete(e)
  <2>1. PICK e \in S!Entry : S!Delete(e)
    BY <1>2
  <2>2. /\ stock' = [stock EXCEPT ![e] = None] /\ reloads' \in {reloads, reloads + 1}
        /\ UNCHANGED <<shown, panel, fetches, puts>> /\ deeds < Deeds /\ deeds' = deeds + 1
    BY <2>1 DEF S!Delete, S!Deed
  <2>3. deeds' \in 0 .. Deeds
    BY <1>0, <2>2, StockConstants
  <2>4. StockFine(stock')
    BY <1>0, <2>2, OneStockFine
  <2> QED BY <1>0, <2>2, <2>3, <2>4 DEF StockInv
<1>3. CASE \E e \in fetches : S!Fetched(e)
  <2>1. PICK e \in fetches : S!Fetched(e)
    BY <1>3
  <2>2. e \in S!Entry
    BY <1>0
  <2>3. /\ UNCHANGED <<stock, shown, puts, reloads, deeds>> /\ fetches' \subseteq S!Entry
        /\ \/ e \in S!Alive /\ panel' = [panel EXCEPT ![S!KindOf(e)] = S!Filled(S!KindOf(e), e)]
           \/ panel' = panel
    BY <1>0, <2>1 DEF S!Fetched
  <2>4. ASSUME e \in S!Alive, panel' = [panel EXCEPT ![S!KindOf(e)] = S!Filled(S!KindOf(e), e)]
        PROVE  FormsFine(panel')
    <3>1. stock[e] \in Seq(StockRow)
      BY <1>0, <2>2, <2>4 DEF S!Alive, StockFine
    <3>2. FormFine(S!KindOf(e), S!Filled(S!KindOf(e), e)) /\ S!KindOf(e) \in S!Kind
      BY <2>2, <3>1, FilledFine, KindIs
    <3> QED BY <1>0, <2>4, <3>2, OneFormFine
  <2>5. FormsFine(panel')
    BY <1>0, <2>3, <2>4
  <2> QED BY <1>0, <2>3, <2>5 DEF StockInv
<1>4. CASE \E k \in S!Kind : S!TypeLabel(k)
  <2>1. PICK k \in S!Kind : S!TypeLabel(k)
    BY <1>4
  <2> DEFINE f == [panel[k] EXCEPT !.label = IF @ = None THEN S!Typed ELSE None]
  <2>2. /\ panel' = [panel EXCEPT ![k].label = IF @ = None THEN S!Typed ELSE None]
        /\ UNCHANGED <<stock, shown, fetches, puts, reloads>> /\ deeds < Deeds /\ deeds' = deeds + 1
    BY <2>1 DEF S!TypeLabel, S!Deed
  <2>3. panel' = [panel EXCEPT ![k] = f]
    BY <2>2
  <2>4. FormFine(k, f)
    BY <1>0, TypedFine
  <2> HIDE DEF f
  <2>5. FormsFine(panel')
    BY <1>0, <2>3, <2>4, OneFormFine
  <2>6. deeds' \in 0 .. Deeds
    BY <1>0, <2>2, StockConstants
  <2> QED BY <1>0, <2>2, <2>5, <2>6 DEF StockInv
<1>5. CASE \E k \in S!Kind : S!Put(k)
  <2>1. PICK k \in S!Kind : S!Put(k)
    BY <1>5
  <2> DEFINE p == [kind |-> k, at |-> deeds, slug |-> panel[k].slug,
                   rows |-> S!Sent(k, panel[k]), fetched |-> panel[k].fetched]
  <2>2. puts' = puts \cup {p}
        /\ UNCHANGED <<stock, shown, panel, fetches, reloads>> /\ deeds < Deeds /\ deeds' = deeds + 1
    BY <2>1 DEF S!Put, S!Deed
  <2>3. PutFine(p)
    BY <1>0, SentFine
  <2> HIDE DEF p
  <2>4. deeds' \in 0 .. Deeds
    BY <1>0, <2>2, StockConstants
  <2>5. \A q \in puts' : PutFine(q)
    BY <1>0, <2>2, <2>3
  <2> QED BY <1>0, <2>2, <2>4, <2>5 DEF StockInv
<1>6. CASE \E p \in puts : S!PutFailed(p)
  <2>1. UNCHANGED <<stock, shown, panel, fetches, reloads, deeds>> /\ puts' \subseteq puts
    BY <1>6 DEF S!PutFailed
  <2> QED BY <1>0, <2>1 DEF StockInv
<1>7. CASE S!Reloaded
  <2>1. /\ UNCHANGED <<stock, panel, fetches, puts, deeds>> /\ shown' \subseteq S!Entry
        /\ reloads > 0 /\ reloads' = reloads - 1
    BY <1>0, <1>7 DEF S!Reloaded, S!Alive
  <2>2. reloads' \in Nat
    BY <1>0, <2>1
  <2> QED BY <1>0, <2>1, <2>2 DEF StockInv
<1> QED BY <1>1, <1>2, <1>3, <1>4, <1>5, <1>6, <1>7

(* What is stored is rows of the service again.                            *)
LEMMA StepPutDone ==
  ASSUME StockInv, NEW p \in puts, S!PutDone(p)
  PROVE  StockInv'
<1>1. PICK e \in IF p.slug = None THEN {x \in S!Entry \ S!Alive : S!KindOf(x) = p.kind}
                 ELSE {p.slug} \cap S!Alive : S!Stored(p, e)
  BY DEF S!PutDone
<1>2. /\ puts' \subseteq puts /\ UNCHANGED <<shown, fetches, deeds>>
      /\ panel' \in {[panel EXCEPT ![p.kind] = S!Emptied(p.kind, @)], panel}
      /\ reloads' \in {reloads, reloads + 1}
  BY DEF S!PutDone
<1>3. /\ StockFine(stock) /\ FormsFine(panel) /\ \A q \in puts : PutFine(q)
      /\ shown \subseteq S!Entry /\ fetches \subseteq S!Entry /\ deeds \in 0 .. Deeds
      /\ reloads \in Nat
      /\ \A k \in S!Kind : FormFine(k, panel[k])
  BY DEF StockInv, FormsFine
<1>4. e \in S!Entry
  BY <1>1 DEF S!Alive
<1>5. p.kind \in S!Kind /\ p.rows \in Seq(S!RowRec) \cup {None}
  BY <1>3 DEF PutFine, PutRec
<1> DEFINE stored == [n \in 1 .. Len(p.rows) |-> [p.rows[n] EXCEPT !.of = None, !.at = n]]
           rows == IF p.rows = None THEN stock[e] ELSE stored
<1>6. stock' = [stock EXCEPT ![e] = rows]
  BY <1>1 DEF S!Stored
<1>7. p.rows # None => stored \in Seq(StockRow)
  <2> SUFFICES ASSUME p.rows # None PROVE stored \in Seq(StockRow)
    OBVIOUS
  <2> DEFINE s == p.rows
  <2>1. s \in Seq(S!RowRec) /\ Len(s) \in Nat
    BY <1>5
  <2> HIDE DEF s
  <2>2. ASSUME NEW n \in 1 .. Len(s) PROVE [s[n] EXCEPT !.of = None, !.at = n] \in StockRow
    <3> DEFINE r == s[n]
    <3>1. r \in S!RowRec /\ n \in Nat
      BY <2>1
    <3> HIDE DEF r
    <3>2. [r EXCEPT !.of = None, !.at = n] \in StockRow
      BY <3>1 DEF StockRow, S!RowRec
    <3> QED BY <3>2 DEF r
  <2>3. [n \in 1 .. Len(s) |-> [s[n] EXCEPT !.of = None, !.at = n]] \in Seq(StockRow)
    <3> DEFINE g == [n \in 1 .. Len(s) |-> [s[n] EXCEPT !.of = None, !.at = n]]
    <3>1. \A n \in 1 .. Len(s) : g[n] \in StockRow
      BY <2>2
    <3>2. g = [n \in 1 .. Len(s) |-> g[n]]
      OBVIOUS
    <3> HIDE DEF g
    <3>3. g \in Seq(StockRow)
      BY <2>1, <3>1, <3>2, RowsAre
    <3> QED BY <3>3 DEF g
  <2> QED BY <2>3 DEF s
<1>8. rows = None \/ rows \in Seq(StockRow)
  <2> HIDE DEF stored
  <2> QED BY <1>3, <1>4, <1>7 DEF StockFine
<1> HIDE DEF rows, stored
<1>9. StockFine(stock')
  BY <1>3, <1>4, <1>6, <1>8, OneStockFine
<1>10. FormsFine(panel')
  <2>1. panel' = [panel EXCEPT ![p.kind] = S!Emptied(p.kind, panel[p.kind])] \/ panel' = panel
    BY <1>2
  <2>2. FormFine(p.kind, S!Emptied(p.kind, panel[p.kind]))
    BY <1>3, <1>5, EmptiedFine
  <2> QED BY <1>3, <1>5, <2>1, <2>2, OneFormFine
<1>11. shown' \subseteq S!Entry /\ reloads' \in Nat
  BY <1>2, <1>3
<1> QED BY <1>2, <1>3, <1>9, <1>10, <1>11 DEF StockInv

LEMMA StockInit == S!Init => StockInv
<1> SUFFICES ASSUME S!Init PROVE StockInv
  OBVIOUS
<1>1. PICK start \in Starts : stock = [e \in S!Entry |->
         IF start[e] = None THEN None ELSE [n \in 1 .. start[e] |-> S!Row(None, n)]]
  BY DEF S!Init
<1>2. /\ shown = S!Alive /\ panel = [k \in S!Kind |-> S!Fresh]
      /\ fetches = {} /\ puts = {} /\ reloads = 0 /\ deeds = 0
  BY DEF S!Init
<1>3. \A e \in S!Entry : stock[e] # None => stock[e] \in Seq(StockRow)
  <2> SUFFICES ASSUME NEW e \in S!Entry, stock[e] # None PROVE stock[e] \in Seq(StockRow)
    OBVIOUS
  <2> DEFINE m == start[e]
  <2>1. m \in Nat /\ stock[e] = [n \in 1 .. m |-> S!Row(None, n)]
    BY <1>1, StockConstants
  <2> HIDE DEF m
  <2>2. \A n \in 1 .. m : S!Row(None, n) \in StockRow
    BY <2>1 DEF S!Row, StockRow
  <2>3. [n \in 1 .. m |-> S!Row(None, n)] \in Seq(StockRow)
    BY <2>1, <2>2
  <2> QED BY <2>1, <2>3
<1>4. StockFine(stock)
  BY <1>1, <1>3 DEF StockFine
<1>5. S!Fresh \in FormRec /\ S!Fresh.slug = None /\ S!Fresh.base = None /\ S!Fresh.rest = <<>>
  BY DEF S!Fresh, FormRec
<1>6. FormsFine(panel)
  BY <1>2, <1>5 DEF FormsFine, FormFine
<1>7. shown \subseteq S!Entry /\ fetches \subseteq S!Entry /\ deeds \in 0 .. Deeds
      /\ reloads \in Nat
  BY <1>2, StockConstants DEF S!Alive
<1> QED BY <1>2, <1>4, <1>6, <1>7 DEF StockInv

LEMMA StockStill == StockInv /\ UNCHANGED stocks => StockInv'
BY DEF StockInv, stocks

(* The administration's forms of the catalogue                             *)
(* (app/admin/catalog/page.tsx): whatever is fetched, saved and deleted in *)
(* between, no product, new or changed, and no lot that is changed gets a  *)
(* row of another entry, an entry that is changed loses none of the rows   *)
(* the form does not show, and the first row of a product stays whole.  A  *)
(* new lot is exempt: its form keeps the rows of the lot shown before.     *)
THEOREM RowsAreKept == SceneSpec => []RowsKept
<1> DEFINE I == scene = "stock" => StockInv
<1>1. SceneInit => I
  BY StockInit DEF SceneInit
<1>2. I /\ [SceneNext]_<<scene, vars, composer, stocks, threads>> => I'
  <2> SUFFICES ASSUME I, [SceneNext]_<<scene, vars, composer, stocks, threads>>, scene' = "stock"
               PROVE  StockInv'
    OBVIOUS
  <2>1. scene = "stock" /\ (S!Next \/ UNCHANGED stocks)
    BY DEF SceneNext
  <2> QED BY <2>1, StockSteps, StepPutDone, StockStill DEF S!Next
<1>3. I => RowsKept
  BY StockMeans DEF RowsKept
<1> QED BY <1>1, <1>2, <1>3, PTL DEF SceneSpec

(***************************************************************************)
(* The list of topics.                                                     *)
(***************************************************************************)
Flying == [tab : T!Tab, found : (SUBSET Topic) \cup {None}]
OfItsTab(r) == r.found # None => \A t \in r.found : r.tab \in {All, t.category}

(* What is on its way is of the tab it was asked for; the last of it was   *)
(* asked for the tab that is chosen, and was what is there if nothing is.  *)
Carried(list) ==
  /\ list \in Seq(Flying) /\ Len(list) <= Flights
  /\ \A i \in 1 .. Len(list) : OfItsTab(list[i])
LastOfTab(list, c, ps, bad) ==
  IF Len(list) = 0 THEN ~bad => \A t \in ps : c \in {All, t.category}
  ELSE list[Len(list)].tab = c
AuthorListed(ps, a) == a = All \/ a \in T!Authors(ps)

ThreadsInv ==
  /\ written \subseteq Topic /\ posts \subseteq Topic /\ tab \in T!Tab
  /\ {known, finding, loading, failed, crossed} \subseteq BOOLEAN
  /\ sending \in [topic : Topic, tab : T!Tab] \cup {None} /\ rounds \in 0 .. Rounds
  /\ Carried(flights)
  /\ ~crossed => LastOfTab(flights, tab, posts, failed)
  /\ AuthorListed(posts, author)

LEMMA ThreadsConstants == Flights \in Nat /\ 1 <= Flights /\ Rounds \in Nat
BY OfficeAssumption DEF T!ThreadsAssumption

LEMMA RemovedIs ==
  ASSUME NEW Q, NEW s \in Seq(Q), NEW i \in 1 .. Len(s)
  PROVE  /\ T!RemoveAt(s, i) \in Seq(Q) /\ Len(T!RemoveAt(s, i)) = Len(s) - 1
         /\ \A j \in 1 .. Len(s) - 1 : T!RemoveAt(s, i)[j] = s[IF j < i THEN j ELSE j + 1]
<1>1. Len(s) \in Nat /\ i \in Nat /\ 1 <= i /\ i <= Len(s)
  OBVIOUS
<1> DEFINE a == SubSeq(s, 1, i - 1)
           b == SubSeq(s, i + 1, Len(s))
<1>2. a \in Seq(Q) /\ Len(a) = i - 1 /\ \A j \in 1 .. i - 1 : a[j] = s[j]
  BY <1>1
<1>3. b \in Seq(Q) /\ Len(b) = Len(s) - i /\ \A j \in 1 .. Len(s) - i : b[j] = s[j + i]
  BY <1>1
<1>4. T!RemoveAt(s, i) = a \o b
  BY DEF T!RemoveAt
<1> HIDE DEF a, b
<1>5. a \o b \in Seq(Q) /\ Len(a \o b) = Len(s) - 1
  <2>1. a \o b \in Seq(Q) /\ Len(a \o b) = Len(a) + Len(b)
    <3>1. a \in Seq(Q) /\ b \in Seq(Q)
      BY <1>2, <1>3
    <3>2. a \o b \in Seq(Q)
      BY <3>1
    <3>3. Len(a \o b) = Len(a) + Len(b)
      BY <3>1
    <3> QED BY <3>2, <3>3
  <2>2. Len(a) + Len(b) = Len(s) - 1
    BY <1>1, <1>2, <1>3
  <2> QED BY <2>1, <2>2
<1>6. \A j \in 1 .. Len(s) - 1 : (a \o b)[j] = IF j < i THEN a[j] ELSE b[j - i + 1]
  BY <1>1, <1>2, <1>3
<1>7. ASSUME NEW j \in 1 .. Len(s) - 1
      PROVE  (a \o b)[j] = s[IF j < i THEN j ELSE j + 1]
  <2>1. CASE j < i
    BY <1>1, <1>2, <1>6, <2>1
  <2>2. CASE ~(j < i)
    <3>1. j - i + 1 \in 1 .. Len(s) - i /\ (j - i + 1) + i = j + 1
      BY <1>1, <2>2
    <3> QED BY <1>3, <1>6, <2>2, <3>1
  <2> QED BY <2>1, <2>2
<1> QED BY <1>4, <1>5, <1>7

LEMMA ThreadsMeans == ThreadsInv => T!TypeOK /\ T!TabShown /\ T!SomethingShown
<1> SUFFICES ASSUME ThreadsInv PROVE T!TypeOK /\ T!TabShown /\ T!SomethingShown
  OBVIOUS
<1>1. T!TypeOK
  <2>1. author \in T!Authors(Topic) \cup {All}
    BY DEF ThreadsInv, AuthorListed, T!Authors
  <2>2. flights \in Seq([tab : T!Tab, found : (SUBSET Topic) \cup {None}]) /\ Len(flights) <= Flights
    BY DEF ThreadsInv, Carried, Flying
  <2> QED BY <2>1, <2>2 DEF ThreadsInv, T!TypeOK
<1>2. T!TabShown
  <2> SUFFICES ASSUME T!Screen = "topics", flights = <<>>, ~crossed, NEW t \in T!Visible
               PROVE  tab \in {All, t.category}
    BY DEF T!TabShown
  <2>1. ~failed
    BY DEF T!Screen, ThreadsInv
  <2>2. t \in posts
    BY DEF T!Visible
  <2>3. Len(flights) = 0
    OBVIOUS
  <2> QED BY <2>1, <2>2, <2>3 DEF ThreadsInv, LastOfTab
<1>3. T!SomethingShown
  <2> SUFFICES ASSUME ~finding, T!Screen = "nothing found" PROVE FALSE
    BY DEF T!SomethingShown
  <2>1. posts # {} /\ T!Visible = {}
    BY DEF T!Screen, ThreadsInv
  <2>2. \E t \in posts : author \in {All, t.author}
    BY <2>1 DEF ThreadsInv, AuthorListed, T!Authors
  <2> QED BY <2>1, <2>2 DEF T!Visible
<1> QED BY <1>1, <1>2, <1>3

(* A list more is asked for.                                               *)
LEMMA LoadFine ==
  ASSUME ThreadsInv, NEW c \in T!Tab, NEW astray \in BOOLEAN, T!Load(c, astray)
  PROVE  /\ Carried(flights') /\ {loading', failed', crossed'} \subseteq BOOLEAN
         /\ ~crossed' => ~astray
         /\ ~astray => \A ps : LastOfTab(flights', c, ps, failed')
<1> DEFINE r == [tab |-> c, found |-> None]
           list == Append(flights, r)
<1>1. /\ Len(flights) < Flights /\ flights' = list /\ loading' = TRUE /\ failed' = FALSE
      /\ crossed' = (astray \/ (crossed /\ flights # <<>>))
  BY DEF T!Load
<1>2. r \in Flying /\ OfItsTab(r) /\ r.tab = c
  BY DEF Flying, OfItsTab
<1> HIDE DEF r
<1>3. flights \in Seq(Flying) /\ \A i \in 1 .. Len(flights) : OfItsTab(flights[i])
  BY DEF ThreadsInv, Carried
<1>4. list \in Seq(Flying) /\ Len(list) = Len(flights) + 1 /\ Len(flights) \in Nat
  BY <1>2, <1>3
<1>5. \A i \in 1 .. Len(list) : list[i] = IF i <= Len(flights) THEN flights[i] ELSE r
  BY <1>2, <1>3
<1> HIDE DEF list
<1>6. Len(list) <= Flights /\ Len(list) # 0 /\ Len(list) \in 1 .. Len(list) /\ list[Len(list)] = r
  BY <1>1, <1>4, <1>5, ThreadsConstants
<1>7. \A i \in 1 .. Len(list) : OfItsTab(list[i])
  BY <1>2, <1>3, <1>4, <1>5
<1>8. Carried(flights')
  BY <1>1, <1>4, <1>6, <1>7 DEF Carried
<1>9. \A ps : LastOfTab(flights', c, ps, failed')
  BY <1>1, <1>2, <1>6 DEF LastOfTab
<1> QED BY <1>1, <1>8, <1>9 DEF ThreadsInv

(* One of the lists asked for has come to its end.                         *)
LEMMA LandFine ==
  ASSUME ThreadsInv, NEW i \in DOMAIN flights, T!Land(i), UNCHANGED tab
  PROVE  /\ Carried(flights') /\ crossed' \in BOOLEAN
         /\ flights[i] \in Flying /\ OfItsTab(flights[i])
         /\ ~crossed' => ~crossed /\ flights[IF Len(flights') = 0 THEN i ELSE Len(flights)].tab = tab
         /\ Len(flights') # 0 => flights'[Len(flights')] = flights[Len(flights)] \/ crossed'
<1> DEFINE n == Len(flights)
           list == T!RemoveAt(flights, i)
<1>1. flights' = list /\ crossed' = (crossed \/ i > 1)
  BY DEF T!Land
<1>2. flights \in Seq(Flying) /\ n \in Nat /\ i \in 1 .. n /\ n <= Flights
      /\ \A j \in 1 .. n : OfItsTab(flights[j])
  BY DEF ThreadsInv, Carried
<1>3. /\ list \in Seq(Flying) /\ Len(list) = n - 1
      /\ \A j \in 1 .. n - 1 : list[j] = flights[IF j < i THEN j ELSE j + 1]
  <2> HIDE DEF list
  <2>1. i \in 1 .. Len(flights)
    BY <1>2
  <2> QED BY <1>2, <2>1, RemovedIs DEF list
<1> HIDE DEF list, n
<1>4. Len(list) <= Flights /\ \A j \in 1 .. n - 1 : OfItsTab(list[j])
  <2>1. Len(list) <= Flights
    BY <1>2, <1>3, ThreadsConstants
  <2>2. \A j \in 1 .. n - 1 : (IF j < i THEN j ELSE j + 1) \in 1 .. n
    BY <1>2
  <2> QED BY <1>2, <1>3, <2>1, <2>2
<1>5. Carried(flights')
  BY <1>1, <1>3, <1>4 DEF Carried
<1>6. flights[i] \in Flying /\ OfItsTab(flights[i])
  BY <1>2
<1>7. ASSUME ~crossed'
      PROVE  /\ ~crossed /\ flights[IF Len(flights') = 0 THEN i ELSE n].tab = tab
             /\ Len(flights') # 0 => flights'[Len(flights')] = flights[n]
  <2>1. ~crossed /\ i = 1
    <3>1. ~crossed /\ ~(i > 1)
      BY <1>1, <1>7
    <3>2. i \in Nat /\ 1 <= i
      BY <1>2
    <3>3. i = 1
      BY <3>1, <3>2
    <3> QED BY <3>1, <3>3
  <2>2. flights[n].tab = tab
    BY <1>2, <2>1 DEF ThreadsInv, LastOfTab, n
  <2>3. Len(flights') = n - 1
    BY <1>1, <1>3
  <2>4. n - 1 = 0 => n = i
    BY <1>2, <2>1
  <2>5. n - 1 # 0 => n - 1 \in 1 .. n - 1 /\ ~(n - 1 < i) /\ (n - 1) + 1 = n
    BY <1>2, <2>1
  <2>6. n - 1 # 0 => flights'[n - 1] = flights[n]
    BY <1>1, <1>3, <2>5
  <2> QED BY <2>1, <2>2, <2>3, <2>4, <2>6
<1>8. crossed' \in BOOLEAN
  BY <1>1 DEF ThreadsInv
<1> QED BY <1>5, <1>6, <1>7, <1>8 DEF n

LEMMA StepTabs ==
  ASSUME ThreadsInv, \/ \E c \in T!Tab : T!SelectTab(c)
                     \/ T!Created
  PROVE  ThreadsInv'
<1>1. CASE \E c \in T!Tab : T!SelectTab(c)
  <2>1. PICK c \in T!Tab : T!SelectTab(c)
    BY <1>1
  <2>2. T!Load(c, FALSE) /\ tab' = c /\ T!Turn /\ UNCHANGED <<written, known, posts, finding, author, sending>>
    BY <2>1 DEF T!SelectTab, T!Asked
  <2>3. FALSE \in BOOLEAN
    OBVIOUS
  <2>4. /\ Carried(flights') /\ {loading', failed', crossed'} \subseteq BOOLEAN
        /\ \A ps : LastOfTab(flights', c, ps, failed')
    BY <2>2, <2>3, LoadFine
  <2>5. rounds' \in 0 .. Rounds
    BY <2>2, ThreadsConstants DEF ThreadsInv, T!Turn
  <2> QED BY <2>2, <2>4, <2>5 DEF ThreadsInv
<1>2. CASE T!Created
  <2> DEFINE c == sending.tab
             astray == c # tab
  <2>1. /\ sending # None /\ written' = written \cup {sending.topic} /\ T!Load(c, astray)
        /\ sending' = None /\ UNCHANGED <<tab, known, posts, finding, author, rounds>>
    BY <1>2 DEF T!Created, T!view
  <2>2. sending.topic \in Topic /\ c \in T!Tab
    BY <2>1 DEF ThreadsInv
  <2>3. astray \in BOOLEAN
    OBVIOUS
  <2>4. c = tab \/ astray
    OBVIOUS
  <2> HIDE DEF c, astray
  <2>5. /\ Carried(flights') /\ {loading', failed', crossed'} \subseteq BOOLEAN
        /\ ~crossed' => ~astray
        /\ ~astray => \A ps : LastOfTab(flights', c, ps, failed')
    BY <2>1, <2>2, <2>3, LoadFine
  <2>6. ~crossed' => LastOfTab(flights', tab', posts', failed')
    BY <2>1, <2>4, <2>5
  <2> QED BY <2>1, <2>2, <2>5, <2>6 DEF ThreadsInv
<1> QED BY <1>1, <1>2

LEMMA StepView ==
  ASSUME ThreadsInv, \/ \E on \in BOOLEAN : T!Search(on)
                     \/ \E a \in T!Authors(posts) \cup {All} : T!ChooseAuthor(a)
                     \/ T!Reset
  PROVE  ThreadsInv'
<1>1. /\ UNCHANGED <<written, tab, known, posts, loading, failed, flights, sending, crossed>>
      /\ finding' \in BOOLEAN /\ author' \in T!Authors(posts) \cup {All, author}
      /\ T!Turn \/ UNCHANGED rounds
  BY DEF T!Search, T!ChooseAuthor, T!Reset, ThreadsInv
<1>2. rounds' \in 0 .. Rounds
  BY <1>1, ThreadsConstants DEF ThreadsInv, T!Turn
<1>3. AuthorListed(posts', author')
  BY <1>1 DEF ThreadsInv, AuthorListed
<1> QED BY <1>1, <1>2, <1>3 DEF ThreadsInv

LEMMA StepServeList ==
  ASSUME ThreadsInv, NEW i \in DOMAIN flights, T!Serve(i)
  PROVE  ThreadsInv'
<1> DEFINE n == Len(flights)
           r == flights[i]
           s == [r EXCEPT !.found = T!OfTab(r.tab)]
<1>1. /\ flights' = [flights EXCEPT ![i] = s]
      /\ UNCHANGED <<written, tab, known, posts, finding, author, loading, failed, sending, crossed, rounds>>
  BY DEF T!Serve, T!view
<1>2. flights \in Seq(Flying) /\ n \in Nat /\ i \in 1 .. n /\ n <= Flights
      /\ \A j \in 1 .. n : OfItsTab(flights[j])
  BY DEF ThreadsInv, Carried
<1>3. r \in Flying
  BY <1>2
<1>4. T!OfTab(r.tab) \subseteq Topic /\ \A t \in T!OfTab(r.tab) : r.tab \in {All, t.category}
  BY DEF T!OfTab, ThreadsInv
<1> HIDE DEF r
<1>5. s \in Flying /\ s.tab = r.tab /\ OfItsTab(s)
  BY <1>3, <1>4 DEF Flying, OfItsTab
<1> HIDE DEF s
<1>6. flights' \in Seq(Flying) /\ Len(flights') = n
  BY <1>1, <1>2, <1>5
<1>7. \A j \in 1 .. n : flights'[j] = IF j = i THEN s ELSE flights[j]
  BY <1>1, <1>2
<1>8. \A j \in 1 .. n : OfItsTab(flights'[j]) /\ flights'[j].tab = flights[j].tab
  BY <1>2, <1>5, <1>7 DEF r
<1> HIDE DEF n
<1>9. Carried(flights')
  BY <1>2, <1>6, <1>8 DEF Carried
<1>10. ~crossed' => LastOfTab(flights', tab', posts', failed')
  <2>1. n # 0 => n \in 1 .. n
    BY <1>2
  <2> QED BY <1>1, <1>6, <1>8, <2>1 DEF ThreadsInv, LastOfTab, n
<1> QED BY <1>1, <1>9, <1>10 DEF ThreadsInv

LEMMA StepLand ==
  ASSUME ThreadsInv, NEW i \in DOMAIN flights, T!Answer(i) \/ T!Fail(i)
  PROVE  ThreadsInv'
<1> DEFINE r == flights[i]
<1>1. /\ T!Land(i) /\ loading' = FALSE
      /\ UNCHANGED <<written, tab, finding, sending, rounds>>
  BY DEF T!Answer, T!Fail, T!Ended, T!view
<1>2. /\ Carried(flights') /\ crossed' \in BOOLEAN
      /\ r \in Flying /\ OfItsTab(r)
      /\ ~crossed' => ~crossed /\ flights[IF Len(flights') = 0 THEN i ELSE Len(flights)].tab = tab
      /\ Len(flights') # 0 => flights'[Len(flights')] = flights[Len(flights)] \/ crossed'
  BY <1>1, LandFine
<1>3. CASE T!Answer(i)
  <2>1. /\ r.found # None /\ posts' = r.found /\ known' = TRUE
        /\ author' = (IF author \in T!Authors(posts') THEN author ELSE All) /\ failed' = failed
    BY <1>3 DEF T!Answer, T!StillOffered
  <2>2. posts' \subseteq Topic /\ \A t \in posts' : r.tab \in {All, t.category}
    BY <1>2, <2>1 DEF Flying, OfItsTab
  <2>3. AuthorListed(posts', author')
    BY <2>1 DEF AuthorListed
  <2>4. ~crossed' => LastOfTab(flights', tab', posts', failed')
    BY <1>1, <1>2, <2>2 DEF LastOfTab
  <2> QED BY <1>1, <1>2, <2>1, <2>2, <2>3, <2>4 DEF ThreadsInv
<1>4. CASE T!Fail(i)
  <2>1. failed' = TRUE /\ UNCHANGED <<known, posts, author>>
    BY <1>4 DEF T!Fail, T!view
  <2>2. ~crossed' => LastOfTab(flights', tab', posts', failed')
    BY <1>1, <1>2, <2>1 DEF LastOfTab
  <2> QED BY <1>1, <1>2, <2>1, <2>2 DEF ThreadsInv
<1> QED BY <1>3, <1>4

LEMMA StepOthers ==
  ASSUME ThreadsInv, \/ \E t \in Topic : T!Send(t) \/ T!Write(t)
                     \/ T!NotCreated
  PROVE  ThreadsInv'
<1>1. /\ UNCHANGED <<tab, posts, author, flights>>
      /\ UNCHANGED <<known, finding, loading, failed, crossed>>
  BY DEF T!Send, T!Write, T!NotCreated, T!view
<1>2. written' \subseteq Topic
  BY DEF T!Send, T!Write, T!NotCreated, ThreadsInv
<1>3. sending' \in [topic : Topic, tab : T!Tab] \cup {None}
  BY DEF T!Send, T!Write, T!NotCreated, ThreadsInv
<1>4. rounds' \in 0 .. Rounds
  BY ThreadsConstants DEF T!Send, T!Write, T!NotCreated, ThreadsInv, T!Turn
<1>5. posts' \subseteq Topic /\ tab' \in T!Tab
  BY <1>1 DEF ThreadsInv
<1>6. {known', finding', loading', failed', crossed'} \subseteq BOOLEAN
  BY <1>1 DEF ThreadsInv
<1>7. Carried(flights') /\ AuthorListed(posts', author')
  BY <1>1 DEF ThreadsInv
<1>8. ~crossed' => LastOfTab(flights', tab', posts', failed')
  BY <1>1 DEF ThreadsInv
<1> QED BY <1>2, <1>3, <1>4, <1>5, <1>6, <1>7, <1>8 DEF ThreadsInv

(* A page that knows nothing yet.                                          *)
LEMMA OpensFine ==
  /\ Carried(<<T!Opened>>)
  /\ \A ps : LastOfTab(<<T!Opened>>, All, ps, FALSE)
  /\ All \in T!Tab /\ AuthorListed({}, All)
<1> DEFINE o == T!Opened
           list == <<o>>
<1>1. o \in Flying /\ OfItsTab(o) /\ o.tab = All
  BY DEF T!Opened, Flying, OfItsTab, T!Tab
<1> HIDE DEF o
<1>2. list \in Seq(Flying)
  BY <1>1
<1>3. Len(list) = 1 /\ list[1] = o
  OBVIOUS
<1> HIDE DEF list
<1>4. Carried(list)
  <2>1. \A i \in 1 .. Len(list) : i = 1
    BY <1>3
  <2> QED BY <1>1, <1>2, <1>3, <2>1, ThreadsConstants DEF Carried
<1>5. \A ps : LastOfTab(list, All, ps, FALSE)
  BY <1>1, <1>3 DEF LastOfTab
<1>6. All \in T!Tab /\ AuthorListed({}, All)
  BY DEF T!Tab, AuthorListed
<1>7. list = <<T!Opened>>
  BY DEF list, o
<1> QED BY <1>4, <1>5, <1>6, <1>7

LEMMA StepReturn == ASSUME ThreadsInv, T!Return PROVE ThreadsInv'
<1>1. /\ written' = written /\ tab' = All /\ posts' = {} /\ author' = All
      /\ known' = FALSE /\ finding' = FALSE /\ loading' = TRUE /\ failed' = FALSE /\ crossed' = FALSE
      /\ flights' = <<T!Opened>> /\ sending' = None /\ rounds < Rounds /\ rounds' = rounds + 1
  BY DEF T!Return, T!Turn
<1>2. rounds' \in 0 .. Rounds
  BY <1>1, ThreadsConstants DEF ThreadsInv
<1>3. written' \subseteq Topic /\ posts' \subseteq Topic /\ tab' \in T!Tab
  BY <1>1, OpensFine DEF ThreadsInv
<1>4. {known', finding', loading', failed', crossed'} \subseteq BOOLEAN
  BY <1>1
<1>5. Carried(flights') /\ AuthorListed(posts', author')
  BY <1>1, OpensFine
<1>6. LastOfTab(flights', tab', posts', failed')
  BY <1>1, OpensFine
<1> QED BY <1>1, <1>2, <1>3, <1>4, <1>5, <1>6 DEF ThreadsInv

LEMMA ThreadsInit == T!Init => ThreadsInv
<1> SUFFICES ASSUME T!Init PROVE ThreadsInv
  OBVIOUS
<1>1. /\ written \subseteq Topic /\ tab = All /\ posts = {} /\ author = All
      /\ known = FALSE /\ finding = FALSE /\ loading = TRUE /\ failed = FALSE /\ crossed = FALSE
      /\ flights = <<T!Opened>> /\ sending = None /\ rounds = 0
  BY DEF T!Init
<1>2. rounds \in 0 .. Rounds
  BY <1>1, ThreadsConstants
<1>3. posts \subseteq Topic /\ tab \in T!Tab
  BY <1>1, OpensFine
<1>4. {known, finding, loading, failed, crossed} \subseteq BOOLEAN
  BY <1>1
<1>5. Carried(flights) /\ AuthorListed(posts, author)
  BY <1>1, OpensFine
<1>6. LastOfTab(flights, tab, posts, failed)
  BY <1>1, OpensFine
<1> QED BY <1>1, <1>2, <1>3, <1>4, <1>5, <1>6 DEF ThreadsInv

LEMMA ThreadsStep == ThreadsInv /\ T!Next => ThreadsInv'
<1> SUFFICES ASSUME ThreadsInv, T!Next PROVE ThreadsInv'
  OBVIOUS
<1>1. CASE T!Created \/ \E c \in T!Tab : T!SelectTab(c)
  BY <1>1, StepTabs
<1>2. CASE \/ \E on \in BOOLEAN : T!Search(on)
           \/ \E a \in T!Authors(posts) \cup {All} : T!ChooseAuthor(a)
           \/ T!Reset
  BY <1>2, StepView
<1>3. CASE \E i \in DOMAIN flights : T!Serve(i) \/ T!Answer(i) \/ T!Fail(i)
  BY <1>3, StepServeList, StepLand
<1>4. CASE T!NotCreated \/ \E t \in Topic : T!Send(t) \/ T!Write(t)
  BY <1>4, StepOthers
<1>5. CASE T!Return
  BY <1>5, StepReturn
<1> QED BY <1>1, <1>2, <1>3, <1>4, <1>5 DEF T!Next

LEMMA ThreadsStill == ThreadsInv /\ UNCHANGED threads => ThreadsInv'
<1> SUFFICES ASSUME ThreadsInv, UNCHANGED threads PROVE ThreadsInv'
  OBVIOUS
<1>1. /\ UNCHANGED <<written, tab, posts, author, flights, sending, rounds>>
      /\ UNCHANGED <<known, finding, loading, failed, crossed>>
  BY DEF threads
<1>2. /\ written' \subseteq Topic /\ posts' \subseteq Topic /\ tab' \in T!Tab
      /\ sending' \in [topic : Topic, tab : T!Tab] \cup {None} /\ rounds' \in 0 .. Rounds
  BY <1>1 DEF ThreadsInv
<1>3. {known', finding', loading', failed', crossed'} \subseteq BOOLEAN
  BY <1>1 DEF ThreadsInv
<1>4. Carried(flights') /\ AuthorListed(posts', author')
  BY <1>1 DEF ThreadsInv
<1>5. ~crossed' => LastOfTab(flights', tab', posts', failed')
  BY <1>1 DEF ThreadsInv
<1> QED BY <1>2, <1>3, <1>4, <1>5 DEF ThreadsInv

(* The list of topics (app/community/page.tsx): under a tab topics of that *)
(* tab are shown, unless one list overtook another or the dialog asked     *)
(* from a tab left meanwhile; the choice of an author hides some topics,   *)
(* never all.                                                              *)
THEOREM TopicsAreShown == SceneSpec => []TopicsShown
<1> DEFINE I == scene = "threads" => ThreadsInv
<1>1. SceneInit => I
  BY ThreadsInit DEF SceneInit
<1>2. I /\ [SceneNext]_<<scene, vars, composer, stocks, threads>> => I'
  <2> SUFFICES ASSUME I, [SceneNext]_<<scene, vars, composer, stocks, threads>>, scene' = "threads"
               PROVE  ThreadsInv'
    OBVIOUS
  <2>1. scene = "threads" /\ (T!Next \/ UNCHANGED threads)
    BY DEF SceneNext
  <2> QED BY <2>1, ThreadsStep, ThreadsStill
<1>3. I => TopicsShown
  BY ThreadsMeans DEF TopicsShown
<1> QED BY <1>1, <1>2, <1>3, PTL DEF SceneSpec
=============================================================================
