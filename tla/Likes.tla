------------------------------- MODULE Likes --------------------------------
(***************************************************************************)
(* The heart beside a piece of news or a promotion                         *)
(* (components/news/feed-like-button.tsx) and what it toggles (toggle_like *)
(* in services/news.py and services/promotions.py).  It can be tapped      *)
(* again before it is answered; the service looks for the like in one step *)
(* and writes in another; and the heart shows what was answered last.      *)
(***************************************************************************)
EXTENDS Naturals, Sequences, SequencesExt

CONSTANTS
  Flights,  \* bound on the requests under way at a time
  Turns     \* bound on the taps, here and elsewhere

LikesAssumption == Flights \in Nat /\ Turns \in Nat

VARIABLES
  liked,    \* whether the service has the user's like
  loaded,   \* what the page was told of it when it was loaded
  heart,    \* what is shown
  taps,     \* requests under way, in order: what the service found, and which write it was
  writes,   \* history: how many requests have been written
  last,     \* history: the latest of them whose answer is shown
  settled,  \* history: since the tap that found nothing under way, answers came in the order of
            \* writing, none was lost, and the card was not drawn anew
  turns

vars == <<liked, loaded, heart, taps, writes, last, settled, turns>>

Turn == turns < Turns /\ turns' = turns + 1
Fresh == [phase |-> "sent", found |-> FALSE, number |-> 0]

Init ==
  /\ liked \in BOOLEAN /\ loaded = liked /\ heart = liked
  /\ taps = <<>> /\ writes = 0 /\ last = 0 /\ settled = TRUE /\ turns = 0

Tap ==
  /\ Turn /\ Len(taps) < Flights
  /\ taps' = Append(taps, Fresh)
  /\ settled' = (settled \/ taps = <<>>)
  /\ UNCHANGED <<liked, loaded, heart, writes, last>>

Find(n) ==
  /\ n \in DOMAIN taps /\ taps[n].phase = "sent"
  /\ taps' = [taps EXCEPT ![n].phase = "found", ![n].found = liked]
  /\ UNCHANGED <<liked, loaded, heart, writes, last, settled, turns>>

(* A like that is there by now cannot be added; one that is gone can be    *)
(* deleted again.                                                          *)
Write(n) ==
  /\ n \in DOMAIN taps /\ taps[n].phase = "found"
  /\ IF ~taps[n].found /\ liked
     THEN /\ taps' = [taps EXCEPT ![n].phase = "refused"]
          /\ UNCHANGED <<liked, writes>>
     ELSE /\ taps' = [taps EXCEPT ![n].phase = "done", ![n].number = writes + 1]
          /\ liked' = ~taps[n].found /\ writes' = writes + 1
  /\ UNCHANGED <<loaded, heart, last, settled, turns>>

(* Mutant of Answered: the heart turns by itself.                          *)
AnsweredFlipped(answer) == ~heart

Answered(answer) == answer

Answer(n) ==
  /\ n \in DOMAIN taps /\ taps[n].phase = "done"
  /\ heart' = Answered(~taps[n].found)
  /\ settled' = (settled /\ taps[n].number > last) /\ last' = taps[n].number
  /\ taps' = RemoveAt(taps, n)
  /\ UNCHANGED <<liked, loaded, writes, turns>>

(* Refused, or lost on the way: nothing is said of it.                     *)
Fail(n) ==
  /\ n \in DOMAIN taps /\ taps' = RemoveAt(taps, n)
  /\ settled' = (settled /\ taps[n].phase = "refused")
  /\ UNCHANGED <<liked, loaded, heart, writes, last, turns>>

(* The same user, in another tab; or a request that was given up here.     *)
Elsewhere ==
  /\ Turn /\ liked' = ~liked /\ settled' = FALSE
  /\ UNCHANGED <<loaded, heart, taps, writes, last>>

(* Another filter or another view: the card begins anew, with what the     *)
(* page was told when it was loaded, and hears of no answer.               *)
DrawnAnew ==
  /\ Turn /\ heart' = loaded /\ taps' = <<>> /\ settled' = FALSE
  /\ UNCHANGED <<liked, loaded, writes, last>>

Next ==
  \/ Tap \/ Elsewhere \/ DrawnAnew
  \/ \E n \in DOMAIN taps : Find(n) \/ Write(n) \/ Answer(n) \/ Fail(n)

Spec == Init /\ [][Next]_vars
-----------------------------------------------------------------------------
TypeOK ==
  /\ {liked, loaded, heart, settled} \subseteq BOOLEAN
  /\ Len(taps) <= Flights /\ writes \in 0 .. Turns /\ last \in 0 .. writes /\ turns \in 0 .. Turns

(* Tapped as often and as fast as may be, and whatever it showed before,   *)
(* the heart ends up showing what the service has.                         *)
HeartTrue == settled /\ taps = <<>> => heart = liked
=============================================================================
