-------------------------------- MODULE News --------------------------------
(***************************************************************************)
(* News: the service (services/news.py) and the page of the administration *)
(* on which they are written, published, hidden and restored               *)
(* (app/admin/news/page.tsx).  Nothing on the page waits: while a request  *)
(* is under way every button can be pressed again, and after each request  *)
(* that succeeds both lists are loaded anew.  Entries are named by their   *)
(* addresses, in the lists and in every request.                           *)
(*                                                                         *)
(* Each request is one transaction.  Lead and text of an entry are left    *)
(* out; who works here is an administrator, to whom every button is shown. *)
(***************************************************************************)
EXTENDS FiniteSets, Naturals, Sequences, SequencesExt

CONSTANTS
  Entry,   \* news that may come to be
  Title,   \* titles: those whose addresses differ
  Slot,    \* requests under way at a time
  Loads,   \* bound on the loads of the lists under way at a time
  Moves,   \* bound on what is done on the page
  None

NewsAssumption ==
  /\ IsFiniteSet(Entry) /\ None \notin Entry \cup Title \cup Slot
  /\ Loads \in Nat \ {0} /\ Moves \in Nat

VARIABLES
  news,       \* the table: a record per entry, or None
  items, deleted,   \* the lists of the page
  form,       \* its form: title, address wished for, status
  editing,    \* the address of what is edited, or None
  about,      \* history: the address and the entry that were taken into the form, or None
  calls,      \* requests under way
  loads,      \* loads under way, in order, with what they have read
  borne,      \* history: the entries that have had an address
  calm,       \* history: the last load that landed was the last to begin, and nothing was lost since
  moves

vars == <<news, items, deleted, form, editing, about, calls, loads, borne, calm, moves>>
lists == <<items, deleted>>
desk == <<form, editing, about>>

Status == {"draft", "coming_soon", "published"}
Number == 1 .. Cardinality(Entry)
Slug == Title \X Number
Form == [title : Title \cup {None}, wish : Slug \cup {None}, status : Status]
EmptyForm == [title |-> None, wish |-> None, status |-> "draft"]
NoCall == [op |-> None, slug |-> None, form |-> EmptyForm, about |-> None, phase |-> "idle"]
Unread == [items |-> None, deleted |-> None]
-----------------------------------------------------------------------------
(***************************************************************************)
(* The service.                                                            *)
(***************************************************************************)
Exists(e) == news[e] # None
Alive == {e \in Entry : Exists(e) /\ ~news[e].deleted}
Hidden == {e \in Entry : Exists(e) /\ news[e].deleted}
Taken(slug, e) == \E d \in Alive \ {e} : news[d].slug = slug

(* A wish is an address that was typed, or one that an entry has already:  *)
(* only the former may be taken by another.                                *)
UniqueSlug(wish, e) ==
  IF ~Taken(wish, e) THEN wish
  ELSE <<wish[1], CHOOSE n \in Number : /\ ~Taken(<<wish[1], n>>, e)
                                        /\ \A m \in Number : ~Taken(<<wish[1], m>>, e) => n <= m>>

(* Mutant of ApplyStatus: what is taken back keeps its date.               *)
ApplyStatusKept(row, status) == [row EXCEPT !.status = status, !.dated = @ \/ status = "published"]

ApplyStatus(row, status) == [row EXCEPT !.status = status, !.dated = status = "published"]

Created(f, e) ==
  [slug |-> UniqueSlug(IF f.wish = None THEN <<f.title, 1>> ELSE f.wish, e),
   title |-> f.title, status |-> f.status, dated |-> f.status = "published", deleted |-> FALSE]

(* A published entry keeps its address unless another is wished for.       *)
Updated(f, e) ==
  LET slug == IF f.wish # None THEN UniqueSlug(f.wish, e)
              ELSE IF news[e].status = "published" THEN news[e].slug
              ELSE UniqueSlug(<<f.title, 1>>, e) IN
  ApplyStatus([news[e] EXCEPT !.slug = slug, !.title = f.title], f.status)

(* The entry that is next to come, if there is room for one.               *)
Comes(e) == ~Exists(e) /\ e = CHOOSE d \in Entry : ~Exists(d)

(* What a request makes of an entry: nothing, when it is not this one that *)
(* the request is about, or when it is refused.  Of several entries with   *)
(* the address, hidden ones included, restore takes any.                   *)
Effect(r, e) ==
  LET named == Exists(e) /\ news[e].slug = r.slug IN
  CASE r.op = "create"  -> IF Comes(e) /\ r.form.title # None THEN Created(r.form, e) ELSE None
    [] r.op = "update"  -> IF named /\ e \in Alive /\ r.form.title # None
                           THEN Updated(r.form, e) ELSE None
    [] r.op = "publish" -> IF named /\ e \in Alive THEN ApplyStatus(news[e], "published") ELSE None
    [] r.op = "hide"    -> IF named /\ e \in Alive THEN [news[e] EXCEPT !.deleted = TRUE] ELSE None
    [] r.op = "restore" -> IF named /\ e \in Hidden /\ ~Taken(r.slug, e)
                           THEN [news[e] EXCEPT !.deleted = FALSE] ELSE None

Accepting(r) == {e \in Entry : Effect(r, e) # None}

Carry(r, e) ==
  /\ news' = [news EXCEPT ![e] = Effect(r, e)]
  /\ borne' = [borne EXCEPT ![news'[e].slug] = @ \cup {e}]

(* A row as the lists show it.                                             *)
Shown(e) == [entry |-> e, slug |-> news[e].slug, title |-> news[e].title, status |-> news[e].status]
Listed == {Shown(e) : e \in Alive}
ListedDeleted == {Shown(e) : e \in Hidden}
-----------------------------------------------------------------------------
(***************************************************************************)
(* The page.                                                               *)
(***************************************************************************)
Move == moves < Moves /\ moves' = moves + 1

(* What was written before the page is opened: titles are different, and   *)
(* nothing is hidden.                                                      *)
Titling == {f \in [Entry -> Title \cup {None}] : \A e, d \in Entry : f[e] = f[d] => e = d \/ f[e] = None}

Written(f, status) ==
  [e \in Entry |-> IF f[e] = None THEN None
                   ELSE [slug |-> <<f[e], 1>>, title |-> f[e], status |-> status,
                         dated |-> status = "published", deleted |-> FALSE]]

Init ==
  /\ \E f \in Titling, status \in Status : news = Written(f, status)
  /\ borne = [s \in Slug |-> {e \in Entry : Exists(e) /\ news[e].slug = s}]
  /\ items = {} /\ deleted = {}
  /\ form = EmptyForm /\ editing = None /\ about = None
  /\ calls = [x \in Slot |-> NoCall] /\ loads = <<Unread>>
  /\ calm = TRUE /\ moves = 0

Edit(i) ==
  /\ i \in items /\ Move
  /\ editing' = i.slug /\ about' = <<i.slug, i.entry>>
  /\ form' = [title |-> i.title, wish |-> i.slug, status |-> i.status]
  /\ UNCHANGED <<news, lists, calls, loads, borne, calm>>

(* A title or an address is typed, an address is cleared, a status chosen. *)
Type(f) ==
  /\ \/ \E t \in Title : f = [form EXCEPT !.title = t]
     \/ \E t \in Title : f = [form EXCEPT !.wish = <<t, 1>>]
     \/ f = [form EXCEPT !.wish = None]
     \/ \E s \in Status : f = [form EXCEPT !.status = s]
  /\ f # form /\ Move /\ form' = f
  /\ UNCHANGED <<news, lists, editing, about, calls, loads, borne, calm>>

Reset ==
  /\ editing # None /\ Move
  /\ editing' = None /\ about' = None /\ form' = EmptyForm
  /\ UNCHANGED <<news, lists, calls, loads, borne, calm>>

Send(x, r) ==
  /\ calls[x] = NoCall /\ Move /\ calls' = [calls EXCEPT ![x] = r]
  /\ UNCHANGED <<news, lists, desk, loads, borne, calm>>

(* Mutant of Target: an edit is sent to the address in the form.           *)
TargetTyped == IF editing = None THEN None ELSE form.wish

Target == editing

Save(x) ==
  Send(x, [op |-> IF Target = None THEN "create" ELSE "update", slug |-> Target, form |-> form,
           about |-> about, phase |-> "sent"])

Press(x, op, i) ==
  /\ i \in IF op = "restore" THEN deleted ELSE items
  /\ op = "publish" => i.status # "published"
  /\ Send(x, [NoCall EXCEPT !.op = op, !.slug = i.slug, !.about = <<i.slug, i.entry>>, !.phase = "sent"])

(* The service carries a request out, or refuses it.                       *)
Serve(x, e) ==
  /\ calls[x].phase = "sent" /\ e \in Accepting(calls[x])
  /\ Carry(calls[x], e)
  /\ calls' = [calls EXCEPT ![x].phase = "done"]
  /\ UNCHANGED <<lists, desk, loads, calm, moves>>

Refuse(x) ==
  /\ calls[x].phase = "sent"
  /\ Accepting(calls[x]) = {}
  /\ calls' = [calls EXCEPT ![x].phase = "refused"]
  /\ UNCHANGED <<news, lists, desk, loads, borne, calm, moves>>

(* Mutant of Following: only what was saved is looked at again.            *)
FollowingSave(op) == IF op \in {"create", "update"} THEN <<Unread>> ELSE <<>>

Following(op) == <<Unread>>

(* A success empties the form, when it was saved, whatever is in it by     *)
(* now, and loads the lists.                                               *)
Succeed(x) ==
  LET op == calls[x].op IN
  /\ calls[x].phase = "done" /\ Len(loads) < Loads
  /\ IF op \in {"create", "update"} THEN form' = EmptyForm /\ editing' = None /\ about' = None
     ELSE UNCHANGED desk
  /\ calls' = [calls EXCEPT ![x] = NoCall]
  /\ loads' = loads \o Following(op)
  /\ calm' = (calm \/ loads = <<>>)
  /\ UNCHANGED <<news, lists, borne, moves>>

(* Refused, or lost on the way there or back: the page says so and stays   *)
(* as it is.                                                               *)
Fail(x) ==
  /\ calls[x].phase \in {"sent", "done", "refused"}
  /\ calls' = [calls EXCEPT ![x] = IF @.phase = "sent" THEN [@ EXCEPT !.phase = "late"] ELSE NoCall]
  /\ calm' = (calm /\ calls[x].phase # "done")
  /\ UNCHANGED <<news, lists, desk, loads, borne, moves>>

(* What the page has given up may reach the service yet, or never.         *)
ServeLate(x, e) ==
  /\ calls[x].phase = "late" /\ e \in Accepting(calls[x])
  /\ Carry(calls[x], e)
  /\ calls' = [calls EXCEPT ![x] = NoCall] /\ calm' = FALSE
  /\ UNCHANGED <<lists, desk, loads, moves>>

Lose(x) ==
  /\ calls[x].phase = "late" /\ calls' = [calls EXCEPT ![x] = NoCall]
  /\ UNCHANGED <<news, lists, desk, loads, borne, calm, moves>>

(* The two lists of a load are two requests.                               *)
Read(n) ==
  /\ n \in DOMAIN loads
  /\ \/ loads[n].items = None /\ loads' = [loads EXCEPT ![n].items = Listed]
     \/ loads[n].deleted = None /\ loads' = [loads EXCEPT ![n].deleted = ListedDeleted]
  /\ UNCHANGED <<news, lists, desk, calls, borne, calm, moves>>

Land(n) ==
  /\ n \in DOMAIN loads /\ loads[n].items # None /\ loads[n].deleted # None
  /\ items' = loads[n].items /\ deleted' = loads[n].deleted
  /\ loads' = RemoveAt(loads, n) /\ calm' = (calm /\ n = 1)
  /\ UNCHANGED <<news, desk, calls, borne, moves>>

FailLoad(n) ==
  /\ n \in DOMAIN loads /\ loads' = RemoveAt(loads, n) /\ calm' = FALSE
  /\ UNCHANGED <<news, lists, desk, calls, borne, moves>>

Next ==
  \/ \E i \in items : Edit(i)
  \/ \E f \in Form : Type(f)
  \/ Reset
  \/ \E x \in Slot :
       \/ Save(x)
       \/ \E op \in {"publish", "hide", "restore"}, i \in items \cup deleted : Press(x, op, i)
       \/ \E e \in Entry : Serve(x, e) \/ ServeLate(x, e)
       \/ Refuse(x) \/ Succeed(x) \/ Fail(x) \/ Lose(x)
  \/ \E n \in DOMAIN loads : Read(n) \/ Land(n) \/ FailLoad(n)

Spec == Init /\ [][Next]_vars
-----------------------------------------------------------------------------
Rows == [entry : Entry, slug : Slug, title : Title, status : Status]

TypeOK ==
  /\ \A e \in Entry : Exists(e) =>
       news[e] \in [slug : Slug, title : Title, status : Status, dated : BOOLEAN, deleted : BOOLEAN]
  /\ items \subseteq Rows /\ deleted \subseteq Rows
  /\ form \in Form /\ editing \in Slug \cup {None} /\ about \in (Slug \X Entry) \cup {None}
  /\ \A x \in Slot : calls[x].phase \in {"idle", "sent", "done", "refused", "late"}
  /\ Len(loads) <= Loads /\ calm \in BOOLEAN /\ moves \in 0 .. Moves

(* However the requests of several clicks and the loads that follow them   *)
(* are interleaved: when nothing is under way, the lists are those of the  *)
(* service, unless a load overtook another, failed, or an answer was lost. *)
ListsServed ==
  calm /\ loads = <<>> /\ (\A x \in Slot : calls[x] = NoCall)
  => items = Listed /\ deleted = ListedDeleted

(* What was taken into the form is what is changed by saving it, whatever  *)
(* address is typed there, and a button beside an entry acts on that       *)
(* entry, as long as the address it had then has been no other's.          *)
ActsOnItsEntry ==
  [][\A e \in Entry, x \in Slot :
       news'[e] # news[e] /\ calls'[x] # calls[x] /\ calls[x].op # "create"
         /\ borne[calls[x].about[1]] = {calls[x].about[2]}
       => e = calls[x].about[2]]_vars

(* Whichever way an entry came to be published and ceased to be: it has a  *)
(* date of publication exactly as long as it is.                           *)
DatedWhilePublished ==
  \A e \in Entry : Exists(e) => (news[e].dated <=> news[e].status = "published")
=============================================================================
