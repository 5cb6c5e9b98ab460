------------------------------ MODULE MCForum -------------------------------
(***************************************************************************)
(* Instances of Forum: a member and a moderator; every topic that is       *)
(* opened has the same title, so that their slugs meet.  A scene narrows   *)
(* what happens to what the question asked of it needs:                    *)
(*   alone    one request at a time, one topic, everything but likes;      *)
(*   race     two requests of the moderator at a time, one topic with two  *)
(*            comments or two topics with one comment;                   *)
(*   slugs    one request at a time that opens, hides or restores topics.  *)
(***************************************************************************)
EXTENDS Forum, TLC

CONSTANTS ann, mod, t1, r1, r2, Scenes

VARIABLE scene

Members == {ann, mod}
JustMod == {mod}
OneTitle == {t1}
TwoRequests == {r1, r2}

Symmetry == Permutations(Post) \cup Permutations(Request)

OneTopic == Cardinality({p \in Post : posts[p].state # "none"}) <= 1
Kept(n) == \A c \in Comment : c > n => comments[c].state = "none"
Without(pcs) == \A r \in Request : req[r].pc \notin pcs

(* Where requests do not overlap, the one request is r1: swapping it with  *)
(* an idle one leads out of the scene, so that symmetry loses nothing.     *)
Alone ==
  /\ scene = "alone"
  /\ Step(r1) \/ \E u \in User : Begin(r1, u)
  /\ OneTopic' /\ Without({"like", "unlike"})'
Race ==
  /\ scene = "race"
  /\ \E r \in Request : Step(r) \/ Begin(r, mod)
  /\ (Kept(1) \/ (OneTopic /\ Kept(2)))' /\ Without({"view", "reply_restore"})'
Slugs ==
  /\ scene = "slugs"
  /\ Step(r1) \/ \E u \in User : Begin(r1, u)
  /\ Kept(0)' /\ Without({"view", "like", "unlike", "destroy"})'

MCInit == Init /\ scene \in Scenes
MCNext == UNCHANGED scene /\ (Alone \/ Race \/ Slugs) /\ Crossing
MCSpec == MCInit /\ [][MCNext]_<<vars, scene>>
=============================================================================
