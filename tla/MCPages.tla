------------------------------ MODULE MCPages -------------------------------
(***************************************************************************)
(* A topic of the forum, the desks of the news and of the promotions, and  *)
(* the heart beside an entry.  They share no state; one run has them all,  *)
(* one open at a time, as scenes.                                          *)
(***************************************************************************)
EXTENDS Desk, FiniteSets, Integers, TLC

CONSTANTS Slot
CONSTANTS Comments, Clicks, Others
CONSTANTS Bulletin, Title, Loads, Acts
CONSTANTS Flights, Turns

VARIABLES scene,
  role, server, page, call, calm, clicks, others,
  news, listed, deleted, draft, edited, about, calls, loads, borne, calmNews, acts,
  liked, loaded, heart, taps, writes, last, settled, turns

topic == <<role, server, page, call, calm, clicks, others>>
newsdesk == <<news, listed, deleted, draft, edited, about, calls, loads, borne, calmNews, acts>>
likes == <<liked, loaded, heart, taps, writes, last, settled, turns>>

P == INSTANCE Topic
N == INSTANCE News WITH calm <- calmNews, items <- listed, form <- draft, editing <- edited,
                        Entry <- Bulletin, Moves <- Acts, moves <- acts
L == INSTANCE Likes

ASSUME PagesAssumption ==
  P!TopicAssumption /\ N!NewsAssumption /\ L!LikesAssumption /\ DeskAssumption

(* Where a page is not open, one beginning of it will do.                  *)
SceneInit ==
  /\ scene \in {"topic", "news", "likes", "promotions"}
  /\ \/ scene = "topic" /\ P!Init
     \/ /\ scene # "topic"
        /\ role = "guest" /\ server = CHOOSE s \in P!Found : ~s.mine
        /\ page = P!Blank("none") /\ call = [x \in Slot |-> P!NoCall]
        /\ calm = TRUE /\ clicks = 0 /\ others = 0
  /\ N!Init /\ (scene # "news" => \A e \in Bulletin : news[e] = None)
  /\ L!Init /\ (scene # "likes" => ~liked)
  /\ Init /\ (scene # "promotions" => items = {})

SceneNext ==
  \/ scene = "topic" /\ P!Next /\ UNCHANGED <<scene, newsdesk, likes, vars>>
  \/ scene = "news" /\ N!Next /\ UNCHANGED <<scene, topic, likes, vars>>
  \/ scene = "likes" /\ L!Next /\ UNCHANGED <<scene, topic, newsdesk, vars>>
  \/ scene = "promotions" /\ Next /\ UNCHANGED <<scene, topic, newsdesk, likes>>

SceneSpec ==
  SceneInit /\ [][SceneNext]_<<scene, topic, newsdesk, likes, vars>> /\ P!Fairness /\ Fairness

(* What TLC checks begins in fewer states.                                 *)
(* Of the tables of news one of each size, with all of it published.       *)
Tables == {N!Written(CHOOSE f \in N!Titling : Cardinality({e \in Bulletin : f[e] # None}) = n, "published")
           : n \in 0 .. Cardinality(Bulletin)}

(* Of two comments the second answers the first, and one is one's own; the *)
(* staff read the topic of another.                                        *)
Typical ==
  /\ server.row[2].state = "alive" =>
       server.row[2].parent = 1 /\ (role # "guest" => server.row[1].mine # server.row[2].mine)
  /\ P!Staff => ~server.mine

MCInit == SceneInit /\ news \in Tables /\ (scene = "topic" => Typical)
MCSpec ==
  MCInit /\ [][SceneNext]_<<scene, topic, newsdesk, likes, vars>> /\ P!Fairness /\ Fairness
-----------------------------------------------------------------------------
(* The properties of the pages, stated and explained in their modules;     *)
(* that of the promotions is checked as it stands there.                   *)

(* Topic, news, heart: the page shows what it would be told, and news has  *)
(* a date just while it is published.                                      *)
PagesTrue ==
  /\ scene = "topic" => P!TypeOK /\ P!ShownIsServed
  /\ scene = "news" => N!TypeOK /\ N!ListsServed /\ N!DatedWhilePublished
  /\ scene = "likes" => L!TypeOK /\ L!HeartTrue
(* Topic: no button leads a verified visitor to a refusal, another only    *)
(* where the page does not ask; every comment is drawn with its own.       *)
OfferedIsAccepted == scene = "topic" => P!OfferedIsAccepted /\ P!EveryCommentDrawn
(* News: what is changed is what was taken into the form.                  *)
ActsOnItsEntry == N!ActsOnItsEntry
(* Topic, promotions: the page does not load for ever, nor read.           *)
LoadsEnd == P!LoadEnds /\ ReadingEnds
=============================================================================
