------------------------------- MODULE Stones --------------------------------
(***************************************************************************)
(* The stones of the catalogue and the pages they lead to: the index       *)
(* (components/catalog/catalog-index.tsx), the page of a stone, its blocks *)
(* and what is made of it (app/catalog/[id]), the page of a lot and of a   *)
(* product.                                                                *)
(*                                                                         *)
(* Each page is put together from several requests sent at once, each      *)
(* answered at its own moment, and joins the answers itself, by addresses  *)
(* and by the names of stones (lib/stone-inventory.ts).  Rows are their    *)
(* addresses; the numbers of lots and products are the order the service   *)
(* sends them in.  The filters of the index are no state here: a link on   *)
(* it is one some filter lets through.  Texts, pictures, the selection and *)
(* the filters by type and origin, which work as the search does, are left *)
(* out, and so is the old page, which stays until the new one comes.       *)
(***************************************************************************)
EXTENDS Naturals, FiniteSets

CONSTANTS
  Stone,
  Name,     \* of stones: nothing keeps two of them from bearing one
  Lots,     \* lots that can ever be: 1..Lots
  Goods,    \* products that can ever be
  Edits,    \* bound: changes the editors make
  Clicks,   \* bound: what the visitor does
  None

VARIABLES
  served,   \* what the service keeps
  page,     \* the page on its way or on the screen
  link,     \* the link that led to the page, and the stone it was on
  changed,  \* history: served has changed since this page was asked for
  earlier,  \* history: or since the one with the link was
  changes, clicks

vars == <<served, page, link, changed, earlier, changes, clicks>>

Block == 1..Lots
Good == 1..Goods
Category == {"slabs", "custom"}
Format == {"all", "blocks", "slabs", "products"}

(* stocked: some block of the lot is in stock.                             *)
LotRow == [stone : Stone, stocked : BOOLEAN]
GoodRow == {g \in [category : Category, main : Stone, stones : SUBSET Stone] :
              g.main \in g.stones}

(* What the service answers of a stone, a lot and a product.               *)
StoneAnswer == [id : Stone, name : Name, lot : Block \cup {None}, slabs : BOOLEAN, made : BOOLEAN]
LotAnswer == [stone : Stone, name : Name, stocked : BOOLEAN]
GoodAnswer == [category : Category, name : Name, names : SUBSET Name]

StonesAssumption ==
  /\ Lots \in Nat /\ Goods \in Nat /\ Edits \in Nat /\ Clicks \in Nat
  /\ None \notin Stone \cup Nat \cup StoneAnswer \cup LotAnswer \cup GoodAnswer
-----------------------------------------------------------------------------
(* What the service answers.                                               *)

Least(S) == IF S = {} THEN None ELSE CHOOSE i \in S : \A j \in S : i <= j

(* Mutant: only what it is the first stone of is counted as made of it.    *)
MaterialFirst(s) ==
  [id |-> s, name |-> served.name[s],
   lot |-> Least({l \in Block : served.lots[l] # None /\ served.lots[l].stone = s}),
   slabs |-> \E g \in Good : /\ served.goods[g] # None
                             /\ served.goods[g].category = "slabs"
                             /\ served.goods[g].main = s,
   made |-> \E g \in Good : served.goods[g] # None /\ served.goods[g].main = s]

(* A stone: counted are the slabs of what it is the first stone of.        *)
Material(s) ==
  [id |-> s, name |-> served.name[s],
   lot |-> Least({l \in Block : served.lots[l] # None /\ served.lots[l].stone = s}),
   slabs |-> \E g \in Good : /\ served.goods[g] # None
                             /\ served.goods[g].category = "slabs"
                             /\ served.goods[g].main = s,
   made |-> \E g \in Good : served.goods[g] # None /\ s \in served.goods[g].stones]

GetStone(s) == IF s \in served.living THEN Material(s) ELSE None
ListStones == {Material(s) : s \in served.living}

LotOut(l) == IF served.lots[l] = None THEN None
  ELSE [stone |-> served.lots[l].stone, name |-> served.name[served.lots[l].stone],
        stocked |-> served.lots[l].stocked]

GoodOut(g) == IF served.goods[g] = None THEN None
  ELSE [category |-> served.goods[g].category, name |-> served.name[served.goods[g].main],
        names |-> {served.name[s] : s \in served.goods[g].stones}]

Answer(r) ==
  CASE r = "stones" -> ListStones
    [] r = "stone"  -> GetStone(page.id)
    [] r = "lots"   -> [l \in Block |-> LotOut(l)]
    [] r = "goods"  -> [g \in Good |-> GoodOut(g)]
    [] r = "lot"    -> LotOut(page.id)
    [] r = "good"   -> GoodOut(page.id)
    [] r = "owner"  -> GetStone(page.got["lot"].stone)
-----------------------------------------------------------------------------
(* What the pages find in the answers.                                     *)

(* getStoneBlockLot: the first lot of the stone, or of the name.           *)
BlockLot(m, lots) ==
  Least({l \in Block : lots[l] # None /\ (lots[l].stone = m.id \/ m.lot = l \/ lots[l].name = m.name)})

(* Mutant: whichever of its lots has a block in stock.                     *)
HasBlocksSomewhere(m, lots) == \E l \in Block : lots[l] # None /\ lots[l].stone = m.id /\ lots[l].stocked

HasBlocks(m, lots) == LET l == BlockLot(m, lots) IN l # None /\ lots[l].stocked

Of(m, goods, c) == {g \in Good : goods[g] # None /\ goods[g].category = c /\ m.name \in goods[g].names}

(* stoneCategoryProduct: rather one it is the first stone of.              *)
CategoryGood(m, goods, c) ==
  LET first == {g \in Of(m, goods, c) : goods[g].name = m.name}
  IN  IF first # {} THEN Least(first) ELSE Least(Of(m, goods, c))

MadeGoods(m, goods) == Of(m, goods, "custom")

(* A link of some kind, to a page, found under a stone (or none).          *)
To(kind, at, id, m) ==
  [kind |-> kind, at |-> at, id |-> id,
   of |-> IF m = None THEN None ELSE [id |-> m.id, name |-> m.name]]

(* StoneInventoryLinks: the links under a stone, and where they lead.      *)
Links(m, lots, goods) ==
  LET made == MadeGoods(m, goods)
  IN  {k \in {To("blocks", "blocks", m.id, m)} : HasBlocks(m, lots)}
      \cup {To("slabs", "good", g, m) : g \in {CategoryGood(m, goods, "slabs")} \ {None}}
      \cup {To("made", "good", g, m) : g \in {g \in made : made = {g}}}
      \cup {k \in {To("made", "made", m.id, m)} : Cardinality(made) > 1}

(* stoneMatchesWarehouse.                                                  *)
InWarehouse(m, f) ==
  \/ f \in {"all", "blocks"} /\ m.lot # None
  \/ f \in {"all", "slabs"} /\ m.slabs
  \/ f \in {"all", "products"} /\ m.made

(* filteredMaterials: of a search (None: an empty one) and a warehouse.    *)
Filtered(query, warehouse) ==
  {m \in page.got["stones"] : query \in {None, m.name} /\ InWarehouse(m, warehouse)}

OnIndex == UNION {Filtered(q, f) : q \in Name \cup {None}, f \in Format}

(* The links of the page on the screen.                                    *)
Offered ==
  CASE page.at = "index" ->
         UNION {Links(m, page.got["lots"], page.got["goods"])
                \cup {To("card", "stone", m.id, m)} : m \in OnIndex}
    [] page.at = "stone" ->
         LET m == page.got["stone"]
         IN  Links(m, page.got["lots"], page.got["goods"])
             \cup {To("lot", "lot", l, m) : l \in {m.lot} \ {None}}
    [] page.at = "blocks" -> {}
    [] page.at = "made" ->
         LET m == page.got["stone"]
         IN  {To("card", "good", g, m) : g \in MadeGoods(m, page.got["goods"])}
    [] page.at = "lot" ->
         {To("card", "stone", m.id, m) : m \in {page.got["owner"]} \ {None}}
         \cup {To("card", "lot", l, None) :
                l \in {l \in Block \ {page.id} : page.got["lots"][l] # None}}
    [] page.at = "good" ->
         {To("card", "good", g, None) :
          g \in {g \in Good \ {page.id} : /\ page.got["goods"][g] # None
                                          /\ page.got["goods"][g].category = page.got["good"].category}}
-----------------------------------------------------------------------------
(* The pages.                                                              *)

Requests(at) ==
  CASE at = "index"  -> {"stones", "lots", "goods"}
    [] at = "stone"  -> {"stone", "lots", "goods"}
    [] at = "blocks" -> {"stone", "lots"}
    [] at = "made"   -> {"stone", "goods"}
    [] at = "lot"    -> {"lot", "lots"}
    [] at = "good"   -> {"good", "goods"}

Asked(at, id) == [at |-> at, id |-> id, state |-> "coming", wants |-> Requests(at), got |-> <<>>]

Init ==
  /\ served \in [living : {Stone}, name : [Stone -> Name],
                 lots : [Block -> LotRow \cup {None}], goods : [Good -> GoodRow \cup {None}]]
  /\ \/ page = Asked("index", None)
     \/ \E at \in {"stone", "blocks", "made"}, s \in Stone : page = Asked(at, s)
     \/ \E l \in Block : page = Asked("lot", l)
     \/ \E g \in Good : page = Asked("good", g)
  /\ link = None /\ changed = FALSE /\ earlier = FALSE
  /\ changes = 0 /\ clicks = 0

(* Mutant: the page of a lot is shown before its stone has come.           *)
DrawnEarly(p) ==
  LET row  == p.got[IF p.at \in {"stone", "blocks", "made"} THEN "stone" ELSE p.at]
      lot  == BlockLot(p.got["stone"], p.got["lots"])
  IN  CASE p.at = "index" -> [p EXCEPT !.state = "shown"]
        [] p.at # "index" /\ row = None -> [p EXCEPT !.state = "missing"]
        [] p.at = "blocks" /\ row # None /\ lot # None -> Asked("lot", lot)
        [] p.at = "lot" /\ row # None /\ "owner" \notin DOMAIN p.got ->
             [p EXCEPT !.state = "shown", !.wants = {"owner"}]
        [] OTHER -> [p EXCEPT !.state = "shown"]

(* What a page becomes once all it waited for has come.                    *)
Drawn(p) ==
  LET row  == p.got[IF p.at \in {"stone", "blocks", "made"} THEN "stone" ELSE p.at]
      lot  == BlockLot(p.got["stone"], p.got["lots"])
  IN  CASE p.at = "index" -> [p EXCEPT !.state = "shown"]
        [] p.at # "index" /\ row = None -> [p EXCEPT !.state = "missing"]
        [] p.at = "blocks" /\ row # None /\ lot # None -> Asked("lot", lot)
        [] p.at = "lot" /\ row # None /\ "owner" \notin DOMAIN p.got -> [p EXCEPT !.wants = {"owner"}]
        [] OTHER -> [p EXCEPT !.state = "shown"]

(* The answer to a request comes: of what is served at that moment.        *)
Answered(r) ==
  /\ page.state = "coming" /\ r \in page.wants
  /\ LET got == [q \in DOMAIN page.got \cup {r} |->
                  IF q = r THEN Answer(r) ELSE page.got[q]]
         next == [page EXCEPT !.wants = @ \ {r}, !.got = got]
     IN  page' = IF next.wants = {} THEN Drawn(next) ELSE next
  /\ UNCHANGED <<served, link, changed, earlier, changes, clicks>>

(* A request fails: the page is not put together.                          *)
Failed ==
  /\ page.state = "coming"
  /\ page' = [page EXCEPT !.state = "failed", !.wants = {}, !.got = <<>>]
  /\ UNCHANGED <<served, link, changed, earlier, changes, clicks>>

Goto(at, id) ==
  /\ page' = Asked(at, id)
  /\ changed' = FALSE
  /\ UNCHANGED served

(* The visitor follows a link.                                             *)
Follow(k) ==
  /\ clicks < Clicks /\ page.state = "shown" /\ k \in Offered
  /\ Goto(k.at, k.id)
  /\ link' = [kind |-> k.kind, of |-> k.of]
  /\ earlier' = changed
  /\ clicks' = clicks + 1 /\ UNCHANGED changes

(* The visitor opens the index, whatever page there was.                   *)
Return ==
  /\ clicks < Clicks /\ page.state # "coming"
  /\ Goto("index", None)
  /\ link' = None /\ earlier' = FALSE
  /\ clicks' = clicks + 1 /\ UNCHANGED changes
-----------------------------------------------------------------------------
(* The editors.  Each change is one step: what comes of two that overlap,  *)
(* and of a lot that is restored, is Catalog's subject.                    *)

(* Mutant: the lots of a stone are not looked for.                         *)
UsesGoods(s) == \E g \in Good : served.goods[g] # None /\ s \in served.goods[g].stones

(* stone_has_dependents: what keeps a stone from being deleted.            *)
Uses(s) ==
  \/ \E l \in Block : served.lots[l] # None /\ served.lots[l].stone = s
  \/ \E g \in Good : served.goods[g] # None /\ s \in served.goods[g].stones

SetName(s, n) == s \in served.living /\ served' = [served EXCEPT !.name[s] = n]
DeleteStone(s) == s \in served.living /\ ~Uses(s) /\ served' = [served EXCEPT !.living = @ \ {s}]
SetLot(l, row) ==
  /\ row # None => row.stone \in served.living
  /\ served' = [served EXCEPT !.lots[l] = row]
SetGood(g, row) ==
  /\ row # None => row.stones \subseteq served.living
  /\ served' = [served EXCEPT !.goods[g] = row]

(* An editor changes one row.                                              *)
Change ==
  /\ changes < Edits
  /\ \/ \E s \in Stone : DeleteStone(s) \/ \E n \in Name : SetName(s, n)
     \/ \E l \in Block, row \in LotRow \cup {None} : SetLot(l, row)
     \/ \E g \in Good, row \in GoodRow \cup {None} : SetGood(g, row)
  /\ served' # served
  /\ changed' = TRUE /\ earlier' = TRUE /\ changes' = changes + 1
  /\ UNCHANGED <<page, link, clicks>>

Next ==
  \/ \E r \in {"stones", "stone", "lots", "goods", "lot", "good", "owner"} : Answered(r)
  \/ Failed \/ Return \/ Change
  \/ page.state = "shown" /\ \E k \in Offered : Follow(k)

Spec == Init /\ [][Next]_vars
-----------------------------------------------------------------------------
(* Every variable keeps its type.                                          *)
TypeOK ==
  /\ served \in [living : SUBSET Stone, name : [Stone -> Name],
                 lots : [Block -> LotRow \cup {None}], goods : [Good -> GoodRow \cup {None}]]
  /\ page.state \in {"coming", "shown", "missing", "failed"}
  /\ page.state = "coming" <=> page.wants # {}
  /\ page.state = "shown" => Requests(page.at) \subseteq DOMAIN page.got
  /\ changed => earlier
  /\ changes \in 0..Edits /\ clicks \in 0..Clicks

OneName == \A s, t \in served.living : served.name[s] = served.name[t] => s = t

(* A link keeps its word while the catalogue stands still from the first   *)
(* request of the page with the link to the last answer of the page it     *)
(* leads to: the page is there; under the blocks is a lot of that name     *)
(* with a block in stock, of that very stone if no other bears its name;   *)
(* under the slabs and what is made of it something of that name is shown. *)
(* Each page looks for itself, in answers of its own, for what the link    *)
(* has seen in others.                                                     *)
LinksHold ==
  (link # None /\ ~earlier) =>
    /\ page.state # "missing"
    /\ (page.state = "shown" /\ link.kind = "blocks") =>
         /\ page.at = "lot" /\ page.got["lot"].stocked /\ page.got["lot"].name = link.of.name
         /\ OneName => page.got["lot"].stone = link.of.id
    /\ (page.state = "shown" /\ link.kind \in {"slabs", "made"}) =>
         IF page.at = "made" THEN MadeGoods(link.of, page.got["goods"]) # {}
         ELSE page.at = "good" /\ link.of.name \in page.got["good"].names

(* If no two stones bear one name, a stone under which anything is linked  *)
(* is on the index until a filter is set, and under the warehouse of what  *)
(* is linked: its blocks, or what is made of it.  The warehouse goes by    *)
(* what the service has counted, the links by what the page has joined.    *)
IndexFinds ==
  (page.at = "index" /\ page.state = "shown" /\ ~changed /\ OneName) =>
    \A m \in page.got["stones"] : \A k \in Links(m, page.got["lots"], page.got["goods"]) :
      /\ m \in Filtered(None, "all")
      /\ k.kind = "blocks" => m \in Filtered(m.name, "blocks")
      /\ k.kind = "made" => m \in Filtered(m.name, "products")

(* The page of a lot leads back to its stone, unless the catalogue has     *)
(* changed while it was on its way: the stone is asked for after the lot.  *)
StoneShown ==
  (page.at = "lot" /\ page.state = "shown" /\ ~changed) => page.got["owner"] # None
=============================================================================
