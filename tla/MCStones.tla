------------------------------ MODULE MCStones -------------------------------
(***************************************************************************)
(* The catalogue as its editors write it (Catalog) and as its pages read   *)
(* it (Stones).  The two share no state; one run has both, one at a time,  *)
(* as scenes.                                                              *)
(***************************************************************************)
EXTENDS MCCatalog, Naturals

CONSTANTS Sort, Name, Lots, Goods, Edits, Clicks

VARIABLES scene, served, page, link, changed, earlier, changes, clicks

editing == <<rows, links, req>>
showing == <<served, page, link, changed, earlier, changes, clicks>>

S == INSTANCE Stones WITH Stone <- Sort

ASSUME PagesAssumption == S!StonesAssumption

(* No page is open beside the desk.                                        *)
Closed ==
  /\ served = <<>> /\ page = None /\ link = None
  /\ changed = FALSE /\ earlier = FALSE /\ changes = 0 /\ clicks = 0

SceneInit ==
  /\ Init
  /\ \/ scene = "desk" /\ Closed
     \/ scene = "pages" /\ S!Init

SceneNext ==
  \/ scene = "desk" /\ Next /\ UNCHANGED <<scene, showing>>
  \/ scene = "pages" /\ S!Next /\ UNCHANGED <<scene, editing>>

SceneSpec == SceneInit /\ [][SceneNext]_<<scene, editing, showing>>

(* What TLC checks begins in fewer states.                                 *)
(* Up to swapping the stones or their names; there are at most three lots  *)
(* and products, two where the names are one, and the second product is of *)
(* one stone; the first page is not a section, nor of the second row; the  *)
(* page of a stone has a lot and a product at most (with more it is        *)
(* reached from the index), and what the page of a lot or a product does   *)
(* not read is not, or hardly, there.                                      *)
Distinct ==
  /\ served.name[1] = "marble"
  /\ served.name[2] = "marble" => served.lots[2] = None /\ served.goods[2] = None
  /\ served.lots[1] # None => served.lots[1].stone = 1
  /\ served.lots[1] = None => served.lots[2] = None
  /\ served.goods[2] # None => /\ served.goods[1] # None /\ served.lots[2] = None
                               /\ served.goods[2].category = "custom"
                               /\ served.goods[2].stones = {served.goods[2].main}
  /\ page.at \in {"index", "stone", "lot", "good"} /\ page.id # 2
  /\ page.at = "good" => \A l \in S!Block : served.lots[l] = None
  /\ page.at \in {"stone", "lot"} => served.goods[2] = None
  /\ page.at = "stone" => served.lots[2] = None

MCInit == SceneInit /\ (scene = "pages" => Distinct)
MCSpec == MCInit /\ [][SceneNext]_<<scene, editing, showing>>
-----------------------------------------------------------------------------
(* The properties of the pages, stated and explained in Stones.            *)

(* Pages: a link keeps its word while the catalogue stands still, and the  *)
(* page of a lot leads back to its stone.                                  *)
LinksHold == scene = "pages" => S!TypeOK /\ S!LinksHold /\ S!StoneShown
(* Pages: a stone with a link is found.                                    *)
IndexFinds == scene = "pages" => S!IndexFinds
=============================================================================
