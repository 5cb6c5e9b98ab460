----------------------------- MODULE MCVisitor ------------------------------
(***************************************************************************)
(* What visitors of the site ask and answer: the inquiry they put together *)
(* in the tabs of a browser, the article they read, and the search in the  *)
(* header of every page.  They share no state; one run has them all, one   *)
(* open at a time, as scenes.                                              *)
(***************************************************************************)
EXTENDS Search, TLC

CONSTANTS None, User, Tab, Line, Slot, Steps, MayFill
CONSTANTS Ask, Texts, Taps, Others

VARIABLES scene,
  draft, full, tab, holder, verified, send, asking, waited, steps,
  role, enabled, server, article, reply, sending, calls, ahead, crossed, calm,
  taps, others

inquiry == <<draft, full, tab, holder, verified, send, asking, waited, steps>>
reading == <<role, enabled, server, article, reply, sending, calls, ahead, crossed,
             calm, taps, others>>

I == INSTANCE Inquiry WITH asked <- asking
R == INSTANCE Reader WITH Slot <- Ask

ASSUME VisitorAssumption == I!InquiryAssumption /\ R!ReaderAssumption

(* No article is open beside the inquiry or the search.                    *)
Closed ==
  /\ role = "guest" /\ enabled = FALSE /\ article = None
  /\ server = [found |-> TRUE, status |-> "published", liked |-> FALSE, comments |-> <<>>]
  /\ reply = 0 /\ sending = FALSE
  /\ calls = [x \in Ask |-> R!NoCall] /\ ahead = [x \in Ask |-> {}]
  /\ crossed = FALSE /\ calm = TRUE /\ taps = 0 /\ others = 0

SceneInit ==
  /\ scene \in {"inquiry", "article", "search"}
  /\ I!Init /\ (scene # "inquiry" => verified = {})
  /\ IF scene = "article" THEN R!Init ELSE Closed
  /\ Init /\ (scene # "search" => matching = {})

SceneNext ==
  \/ scene = "inquiry" /\ I!Next /\ UNCHANGED <<scene, reading, vars>>
  \/ scene = "article" /\ R!Next /\ UNCHANGED <<scene, inquiry, vars>>
  \/ scene = "search" /\ Next /\ UNCHANGED <<scene, inquiry, reading>>

SceneSpec == SceneInit /\ [][SceneNext]_<<scene, inquiry, reading, vars>> /\ I!Fairness

(* What TLC checks begins in fewer states: an article that is liked is one *)
(* that is commented on; a moderator can do nothing on its page that an    *)
(* editor cannot.                                                          *)
MCInit == SceneInit /\ role # "moderator" /\ (server.liked => server.comments # <<>>)
MCSpec == MCInit /\ [][SceneNext]_<<scene, inquiry, reading, vars>> /\ I!Fairness
-----------------------------------------------------------------------------
(* The properties of the pages, stated and explained in their modules;     *)
(* that of the search is checked as it stands there.                       *)

(* Inquiry: lines are their users', and one that waits for a login is      *)
(* attached once.                                                          *)
LinesOwned == scene = "inquiry" => I!TypeOK /\ I!OwnLinesOnly /\ I!TakenOnce
(* Inquiry: a line leaves a draft by an act of its user.                   *)
LinesLeaveByAct == I!LinesLeaveByAct
(* Inquiry: no form is busy for ever.                                      *)
FormsComeBack == I!FormsComeBack

(* Article: the page shows what it would be told, the comment that is      *)
(* answered included, and no button of it leads to a refusal.              *)
ArticleTrue ==
  scene = "article" => R!TypeOK /\ R!ShownIsServed /\ R!ReplyShown /\ R!OfferedIsAccepted
=============================================================================
