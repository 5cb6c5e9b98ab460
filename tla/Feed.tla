-------------------------------- MODULE Feed --------------------------------
(***************************************************************************)
(* What a list that belongs to the user of a page promises, whatever       *)
(* requests it takes to fill it: once for every user that comes it is      *)
(* shown or fails, and what is shown is his.  It does not promise to be    *)
(* empty until then.                                                       *)
(***************************************************************************)
CONSTANTS User, None

VARIABLES
  user,   \* whom the page shows, or None
  view,   \* "nobody", "waiting", "shown" or "failed"
  whose   \* the users to whom belongs what the list holds

vars == <<user, view, whose>>

Init ==
  /\ user \in User \cup {None} /\ whose = {}
  /\ view = IF user = None THEN "nobody" ELSE "waiting"

Turn(u) ==
  /\ user' = u
  /\ \/ u = None /\ view' = "nobody" /\ whose' = {}
     \/ u # None /\ view' = "waiting" /\ UNCHANGED whose

Show == view = "waiting" /\ view' = "shown" /\ whose' \in SUBSET {user} /\ UNCHANGED user
Fail == view = "waiting" /\ view' = "failed" /\ UNCHANGED <<user, whose>>

Next == \/ \E u \in User \cup {None} : Turn(u)
        \/ Show \/ Fail

Safe == Init /\ [][Next]_vars

(* Nobody waits for ever.                                                  *)
Settles == view = "waiting" ~> view # "waiting"

Spec == Safe /\ Settles
=============================================================================
