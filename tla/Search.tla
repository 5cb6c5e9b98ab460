------------------------------- MODULE Search -------------------------------
(***************************************************************************)
(* The search in the header above every page (components/search-modal.tsx, *)
(* lib/search-utils.ts).  It asks once for all that it looks through, when *)
(* it is first opened.  A thing to be found is known by its kind.          *)
(***************************************************************************)
EXTENDS FiniteSets, Integers

CONSTANT Presses   \* bound on the times it is opened

ASSUME SearchAssumption == Presses \in Nat

VARIABLES
  opened,    \* is the search open?
  query,     \* what is in its field
  category,  \* which tab of it is chosen
  asked,     \* loadedRef
  lists,     \* what there is to look through
  searches,  \* requests under way
  dropped,   \* history: the search was shut before its lists came
  matching,  \* the kinds in which something matches the word
  presses

vars == <<opened, query, category, asked, lists, searches, dropped, matching, presses>>
-----------------------------------------------------------------------------
Kinds == {"Material", "FinishedProduct", "ForumPost", "Article"}
SearchCategories == {"All", "News", "StoneCatalog", "Blocks", "ProductsCatalog", "Forum", "Articles"}

(* A word finds what holds it; blanks are trimmed, and nothing finds all.  *)
filterResults(q, c, kinds) ==
  LET found == IF q = "word" THEN kinds \cap matching ELSE kinds IN
  CASE c \in {"StoneCatalog", "Blocks"} -> found \cap {"Material"}
    [] c = "ProductsCatalog" -> found \cap {"FinishedProduct"}
    [] c = "Forum" -> found \cap {"ForumPost"}
    [] c = "Articles" -> found \cap {"Article"}
    [] c = "News" -> {}
    [] c = "All" -> found

(* What stands under the field: where nothing is typed, popular queries.   *)
Results(kinds) == IF query = "" THEN {"popular"} ELSE filterResults(query, category, kinds)

(* The effect of opening.                                                  *)
Open ==
  /\ ~opened /\ presses < Presses /\ presses' = presses + 1
  /\ opened' = TRUE /\ asked' = TRUE
  /\ IF asked THEN UNCHANGED <<searches, dropped>>
     ELSE searches' = searches \cup {[at |-> presses, live |-> TRUE]} /\ dropped' = FALSE
  /\ UNCHANGED <<query, category, lists, matching>>

(* Mutant of AskedWhenShut: the clean-up lets the search be asked again.   *)
AskedWhenShutNot == asked /\ searches = {}

AskedWhenShut == asked

(* The clean-up of that effect.  The field and the tab stay as they are.   *)
Close ==
  /\ opened /\ opened' = FALSE
  /\ asked' = AskedWhenShut
  /\ searches' = {[s EXCEPT !.live = FALSE] : s \in searches}
  /\ dropped' = (dropped \/ searches # {})
  /\ UNCHANGED <<query, category, lists, matching, presses>>

(* Mutant of AskedAfterFailure: what failed is not asked for again.        *)
AskedAfterFailureStill == asked

AskedAfterFailure == FALSE

(* The four lists come together, or not at all.                            *)
Searched(s) ==
  /\ searches' = searches \ {s}
  /\ \/ lists' = (IF s.live THEN Kinds ELSE lists) /\ UNCHANGED asked
     \/ asked' = AskedAfterFailure /\ UNCHANGED lists
  /\ UNCHANGED <<opened, query, category, dropped, matching, presses>>

Type(q) ==
  /\ opened /\ query' = q
  /\ UNCHANGED <<opened, category, asked, lists, searches, dropped, matching, presses>>

Choose(c) ==
  /\ opened /\ category' = c
  /\ UNCHANGED <<opened, query, asked, lists, searches, dropped, matching, presses>>
-----------------------------------------------------------------------------
Init ==
  /\ opened = FALSE /\ query = "" /\ category = "All" /\ asked = FALSE
  /\ lists = {} /\ searches = {} /\ dropped = FALSE /\ matching \in SUBSET Kinds
  /\ presses = 0

Next ==
  \/ Open \/ Close
  \/ \E s \in searches : Searched(s)
  \/ \E q \in {"", "blank", "word"} : Type(q)
  \/ \E c \in SearchCategories : Choose(c)

Spec == Init /\ [][Next]_vars
-----------------------------------------------------------------------------
TypeOK ==
  /\ {opened, asked, dropped} \subseteq BOOLEAN
  /\ query \in {"", "blank", "word"} /\ category \in SearchCategories
  /\ lists \in {{}, Kinds} /\ matching \subseteq Kinds
  /\ searches \subseteq [at : 0 .. Presses, live : BOOLEAN] /\ presses \in 0 .. Presses

(* The search asks once at a time, and never again once it has its lists,  *)
(* however often it is opened and shut.                                    *)
OneSearch == Cardinality(searches) <= 1 /\ (lists # {} => searches = {})

(* The search says that nothing was found of what is there only while its  *)
(* lists are on their way or have failed, which opening it again repairs,  *)
(* or after it was shut before they came, which nothing repairs.           *)
SearchFinds ==
  opened /\ Results(lists) # Results(Kinds) =>
    \/ \E s \in searches : s.live
    \/ ~asked \/ dropped

(* Opened and shut at any moment, the search asks no more than it needs,   *)
(* and not less than to find what is there.                                *)
SearchSound == OneSearch /\ SearchFinds
=============================================================================
