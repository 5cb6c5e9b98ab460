---------------------------- MODULE MCStorefront ----------------------------
(***************************************************************************)
(* The pages a visitor looks for a stone on: the listing of products and   *)
(* the list of what a product or a lot holds; and the bell in the header   *)
(* above them.  They share no state; one run has them all, one open at a   *)
(* time, as scenes.                                                        *)
(*                                                                         *)
(* The list has up to three rows, two columns of two values, and cells     *)
(* that may be empty.  The listing has products of every category, with    *)
(* and without rows of their own; two groups of custom products, one of    *)
(* which the server may run out of, and a hidden one.                      *)
(***************************************************************************)
EXTENDS Bell, TLC

CONSTANTS All, Blank, Columns, Sorted, Rows, Lengths
CONSTANTS AllProducts, Sent, GroupTable, Links, PageSize, Steps
CONSTANTS u1, u2, n1, n2

VARIABLES scene,
  table, items, headers, menu, active,
  url, target, products, filters, sort, pages, picked, steps

lot == <<table, items, headers, menu, active>>
shelf == <<url, target, products, filters, sort, pages, picked, steps>>
ring == <<user, cookie, coming, bell, presses>>

TwoColumns == <<"thickness", "status">>
TwoValues == <<"20", "30">>

Plain == [category |-> "slabs", group |-> None, productType |-> None, material |-> "granite",
          status |-> None, thickness |-> None, finish |-> None, size |-> None, format |-> None,
          height |-> None, rows |-> {}, hit |-> FALSE]
Row(size, thickness, finish) == [size |-> size, thickness |-> thickness, finish |-> finish]

Slab == [Plain EXCEPT !.status = "stock", !.thickness = "20", !.finish = "honed", !.hit = TRUE]
Marble == [Slab EXCEPT !.material = "marble", !.status = "order", !.hit = FALSE]
Tile == [Plain EXCEPT !.category = "tiles", !.finish = "any", !.size = "a", !.format = "b",
                      !.rows = {Row("a", "20", "honed")}]
Paving == [Plain EXCEPT !.category = "paving", !.thickness = "50", !.size = "b", !.hit = TRUE,
                        !.rows = {Row("a", "30", "honed")}]
Cobble == [Plain EXCEPT !.category = "paving", !.size = "b", !.finish = "rough"]
Custom == [Plain EXCEPT !.category = "custom", !.group = "interior", !.status = "order"]
Bench == [Custom EXCEPT !.productType = "bench", !.height = "low"]
Top == [Custom EXCEPT !.productType = "top", !.finish = "honed", !.hit = TRUE]
Vase == [Custom EXCEPT !.group = "exterior", !.productType = "vase", !.finish = "rough"]

SomeProducts == {Slab, Marble, Tile, Paving, Cobble, Bench, Top, Vase}
SomeLists == {SomeProducts, SomeProducts \ {Marble, Vase}}

SomeGroups ==
  [interior |-> [hidden |-> FALSE, keys |-> {"height", "finish"},
                 types |-> [bench |-> {"height"}, top |-> {"height", "finish"}]],
   exterior |-> [hidden |-> FALSE, keys |-> {"finish"}, types |-> [vase |-> {"finish"}]],
   memorial |-> [hidden |-> TRUE, keys |-> {}, types |-> [stele |-> {}]]]

SomeLinks ==
  {[category |-> None, group |-> None], [category |-> All, group |-> None],
   [category |-> "custom", group |-> "unknown"], [category |-> "custom", group |-> "memorial"],
   [category |-> "custom", group |-> "exterior"]}

Owners == (n1 :> u1) @@ (n2 :> u2)

L == INSTANCE Lot WITH Keys <- Columns, Values <- Sorted, filters <- headers
S == INSTANCE Shelf WITH Product <- AllProducts, Lists <- Sent, Groups <- GroupTable, Urls <- Links

ASSUME StorefrontAssumption == L!LotAssumption /\ S!ShelfAssumption /\ BellAssumption

(* Where a page is not open, one beginning of it will do.                  *)
SceneInit ==
  /\ scene \in {"lot", "shelf", "bell"}
  /\ \/ scene = "lot" /\ L!Init
     \/ /\ scene # "lot" /\ table = "lot" /\ items = <<>> /\ headers = L!Unfiltered
        /\ menu = L!Rest /\ active = None
  /\ \/ scene = "shelf" /\ S!Init
     \/ /\ scene # "shelf" /\ url = [category |-> None, group |-> None] /\ target = None
        /\ products = AllProducts /\ filters = S!NoFilters /\ sort = FALSE /\ pages = 1
        /\ picked = [k \in S!Key |-> None] /\ steps = 0
  /\ Init /\ (scene # "bell" => user = None /\ written = {})

SceneNext ==
  \/ scene = "lot" /\ L!Next /\ UNCHANGED <<scene, shelf, ring>>
  \/ scene = "shelf" /\ S!Next /\ UNCHANGED <<scene, lot, ring>>
  \/ scene = "bell" /\ Next /\ UNCHANGED <<scene, lot, shelf>>

SceneSpec == SceneInit /\ [][SceneNext]_<<scene, lot, shelf, ring>> /\ Fairness
-----------------------------------------------------------------------------
(* The properties of the pages, stated and explained in their modules;     *)
(* those of the bell are checked as they stand there.                      *)

(* List: an open menu highlights one of its entries, the badge of a lot    *)
(* that has blocks and the link to it agree, and its range covers them.    *)
RowsTold ==
  scene = "lot" => L!TypeOK /\ L!HighlightOffered /\ L!StatusesAgree /\ L!RangeCovers
(* List: what is picked leaves something to show, and the dialog opens by  *)
(* a row only.                                                             *)
PicksStand == L!PickStands /\ L!OpensByRow

(* Listing: a filter holds in the view it was picked in, each option finds *)
(* something, and there is a way out of an empty view.                     *)
FiltersSound ==
  scene = "shelf" => S!TypeOK /\ S!FiltersOfView /\ S!OptionsFind /\ S!EmptyHasWayOut
=============================================================================
