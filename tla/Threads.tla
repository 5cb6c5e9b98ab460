------------------------------- MODULE Threads -------------------------------
(***************************************************************************)
(* The list of the forum's topics (app/community/page.tsx): tabs for the   *)
(* categories, a search and a choice of author over what was loaded, and   *)
(* the dialog that begins a topic.  Turning to a tab asks for the list     *)
(* anew; what was asked for before is still waited for, and every answer   *)
(* replaces the list.                                                      *)
(*                                                                         *)
(* The sorting does not change what is in the list and is left out.        *)
(***************************************************************************)
EXTENDS FiniteSets, Naturals, Sequences, SequencesExt

CONSTANTS
  Topic,     \* topics there may be: their category, their author, and whether a search hits them
  Flights,   \* bound on the lists asked for at a time
  Turns,     \* bound on what the visitor and the others do
  All, None

ThreadsAssumption ==
  /\ IsFiniteSet(Topic) /\ All \notin {t.category : t \in Topic} \cup {t.author : t \in Topic}
  /\ Flights \in Nat \ {0} /\ Turns \in Nat

VARIABLES
  written,    \* topics in the service
  tab,        \* the category chosen, or All
  known,      \* whether the categories have been loaded
  posts,      \* the topics loaded
  finding,    \* whether something is searched for
  author,     \* the author chosen, or All
  loading, failed,
  flights,    \* lists asked for, in order: the tab, and what the service has found
  sending,    \* the topic sent off by the dialog, and the tab it was sent from
  crossed,    \* history: of these lists one was overtaken, or asked for from another tab
  turns

vars == <<written, tab, known, posts, finding, author, loading, failed, flights, sending,
          crossed, turns>>
view == <<tab, known, posts, finding, author>>

Tab == {All} \cup {t.category : t \in Topic}
Authors(list) == {t.author : t \in list}
OfTab(c) == {t \in written : c \in {All, t.category}}

(* filterForumPosts.                                                       *)
Visible == {t \in posts : author \in {All, t.author} /\ (finding => t.hit)}

(* What the page puts under the tabs.                                      *)
Screen ==
  CASE failed -> "error"
    [] ~failed /\ loading -> "loading"
    [] ~failed /\ ~loading /\ posts = {} -> "no topics yet"
    [] ~failed /\ ~loading /\ posts # {} -> IF Visible = {} THEN "nothing found" ELSE "topics"

(* load, from the page as it was drawn with tab c: astray when that tab    *)
(* was left meanwhile.                                                     *)
Load(c, astray) ==
  /\ Len(flights) < Flights
  /\ flights' = Append(flights, [tab |-> c, found |-> None])
  /\ loading' = TRUE /\ failed' = FALSE
  /\ crossed' = (astray \/ (crossed /\ flights # <<>>))

Turn == turns < Turns /\ turns' = turns + 1

(* The page as it opens.                                                   *)
Opened == [tab |-> All, found |-> None]

Init ==
  /\ written \in SUBSET Topic
  /\ tab = All /\ known = FALSE /\ posts = {} /\ finding = FALSE /\ author = All
  /\ loading = TRUE /\ failed = FALSE /\ flights = <<Opened>>
  /\ sending = None /\ crossed = FALSE /\ turns = 0

(* Mutant of Asked: the click asks, before the page is drawn anew.         *)
AskedAtClick(c) == tab

(* The effect of a tab asks when the page has been drawn with it.          *)
Asked(c) == c

SelectTab(c) ==
  /\ known /\ c # tab /\ Turn
  /\ tab' = c /\ Load(Asked(c), FALSE)
  /\ UNCHANGED <<written, known, posts, finding, author, sending>>

Search(on) ==
  /\ finding # on /\ Turn /\ finding' = on
  /\ UNCHANGED <<written, tab, known, posts, author, loading, failed, flights, sending, crossed>>

ChooseAuthor(a) ==
  /\ a # author /\ Turn /\ author' = a
  /\ UNCHANGED <<written, tab, known, posts, finding, loading, failed, flights, sending, crossed>>

Reset ==
  /\ finding \/ author # All
  /\ finding' = FALSE /\ author' = All
  /\ UNCHANGED <<written, tab, known, posts, loading, failed, flights, sending, crossed, turns>>

(* The service reads the topics for one of the lists.                      *)
Serve(i) ==
  /\ i \in DOMAIN flights /\ flights[i].found = None
  /\ flights' = [flights EXCEPT ![i].found = OfTab(flights[i].tab)]
  /\ UNCHANGED <<written, view, loading, failed, sending, crossed, turns>>

(* Mutant of StillOffered: the author stays chosen.                        *)
StillOfferedKept(list) == author

(* The effect that follows a new list: an author who is not in it is       *)
(* nobody's choice any more.                                               *)
StillOffered(list) == IF author \in Authors(list) THEN author ELSE All

(* Mutant of Ended: only a list that has come ends the loading.            *)
EndedBySuccess(ok) == loading /\ ~ok

(* The finally of load: whichever answer comes first ends the loading.     *)
Ended(ok) == FALSE

Land(i) ==
  /\ flights' = RemoveAt(flights, i)
  /\ crossed' = (crossed \/ i > 1)

Answer(i) ==
  /\ i \in DOMAIN flights /\ flights[i].found # None
  /\ posts' = flights[i].found /\ known' = TRUE
  /\ author' = StillOffered(posts')
  /\ loading' = Ended(TRUE)
  /\ Land(i)
  /\ UNCHANGED <<written, tab, finding, failed, sending, turns>>

Fail(i) ==
  /\ i \in DOMAIN flights
  /\ failed' = TRUE /\ loading' = Ended(FALSE)
  /\ Land(i)
  /\ UNCHANGED <<written, view, sending, turns>>

(* The dialog sends a topic off; it can be shut meanwhile, and the tab     *)
(* turned.                                                                 *)
Send(t) ==
  /\ sending = None /\ t \notin written /\ Turn
  /\ sending' = [topic |-> t, tab |-> tab]
  /\ UNCHANGED <<written, view, loading, failed, flights, crossed>>

(* onCreated loads the list once more, for the tab the dialog was drawn    *)
(* with; then the router is asked for the page of the topic.               *)
Created ==
  /\ sending # None
  /\ written' = written \cup {sending.topic}
  /\ UNCHANGED view
  /\ Load(sending.tab, sending.tab # tab)
  /\ sending' = None
  /\ UNCHANGED turns

NotCreated ==
  /\ sending # None /\ sending' = None
  /\ UNCHANGED <<written, view, loading, failed, flights, crossed, turns>>

(* The visitor leaves and comes back: a page that knows nothing yet.       *)
Return ==
  /\ Turn
  /\ tab' = All /\ known' = FALSE /\ posts' = {} /\ finding' = FALSE /\ author' = All
  /\ loading' = TRUE /\ failed' = FALSE /\ flights' = <<Opened>>
  /\ sending' = None /\ crossed' = FALSE
  /\ UNCHANGED written

(* Others write topics and hide them.                                      *)
Write(t) ==
  /\ Turn /\ written' = (written \ {t}) \cup ({t} \ written)
  /\ UNCHANGED <<view, loading, failed, flights, sending, crossed>>

Next ==
  \/ \E c \in Tab : SelectTab(c)
  \/ \E on \in BOOLEAN : Search(on)
  \/ \E a \in Authors(posts) \cup {All} : ChooseAuthor(a)
  \/ Reset
  \/ \E i \in DOMAIN flights : Serve(i) \/ Answer(i) \/ Fail(i)
  \/ \E t \in Topic : Send(t) \/ Write(t)
  \/ Created \/ NotCreated \/ Return

(* What was asked for first is answered at last, or fails.                 *)
Fairness == WF_vars(Serve(1)) /\ WF_vars(Answer(1) \/ Fail(1))
Spec == Init /\ [][Next]_vars /\ Fairness
-----------------------------------------------------------------------------
TypeOK ==
  /\ written \subseteq Topic /\ posts \subseteq Topic
  /\ tab \in Tab /\ author \in Authors(Topic) \cup {All}
  /\ {known, finding, loading, failed, crossed} \subseteq BOOLEAN
  /\ flights \in Seq([tab : Tab, found : (SUBSET Topic) \cup {None}]) /\ Len(flights) <= Flights
  /\ sending \in [topic : Topic, tab : Tab] \cup {None}
  /\ turns \in 0 .. Turns

(* When nothing is on its way and topics are shown, they are topics of the *)
(* tab, however many tabs were turned while lists were loading: unless one *)
(* list overtook another, or the dialog asked from a tab that was left     *)
(* meanwhile.                                                              *)
TabShown ==
  Screen = "topics" /\ flights = <<>> /\ ~crossed => \A t \in Visible : tab \in {All, t.category}

(* Without a search the page never says that nothing was found: whatever   *)
(* list comes, the author chosen is somebody in it, or nobody.             *)
SomethingShown == ~finding => Screen # "nothing found"

(* The page does not load for ever, whichever of its requests fail.        *)
ListComes == loading ~> ~loading
=============================================================================
