------------------------------ MODULE Catalog -------------------------------
(***************************************************************************)
(* The stones, lots and products an editor keeps in the catalogue          *)
(* (services/catalog_admin.py).                                            *)
(*                                                                         *)
(* Every operation loads a row, checks it, and writes at its commit the    *)
(* columns it has changed since the load; the table product_stones is read *)
(* once more before it is replaced.  The reads of one request that follow  *)
(* one another are one step.  The unique index of living slugs and the     *)
(* primary key of product_stones refuse a commit; the lock an early flush  *)
(* takes on a product is left out, which only adds interleavings.  Texts,  *)
(* prices, items and lookups are left out.                                 *)
(***************************************************************************)
EXTENDS FiniteSets

CONSTANTS
  Stone, Lot, Product,  \* rows that can ever be
  Slug,
  Request,              \* requests in progress at a time
  None                  \* NULL, and the absence of a value

Row == Stone \cup Lot \cup Product

ASSUME CatalogAssumption ==
  /\ Stone \cap Lot = {} /\ Stone \cap Product = {} /\ Lot \cap Product = {}
  /\ None \notin Row \cup Slug

VARIABLES
  rows,   \* stones, block_lots and products
  links,  \* product_stones: the stones of each product
  req     \* the requests in progress

vars == <<rows, links, req>>

NoRow == [state |-> "none", slug |-> None, main |-> None]

(* set holds the columns the request has changed; touched is history: what  *)
(* others have written of lots and products while a stone is being deleted. *)
Idle == [pc |-> "idle", row |-> None, set |-> <<>>,
         links |-> {}, gone |-> {}, touched |-> {}]

Table(x) == IF x \in Stone THEN Stone ELSE IF x \in Lot THEN Lot ELSE Product
Living(x) == rows[x].state = "alive"
LivingStones == {s \in Stone : Living(s)}
Taken(x, slug) == \E y \in Table(x) \ {x} : Living(y) /\ rows[y].slug = slug

(* get_stone_any and its like find x, and only x: two rows are an error.   *)
FoundAny(x) == \A y \in Table(x) : rows[y].state # "none" /\ rows[y].slug = rows[x].slug => y = x

(* What stone_has_dependents looks for: lots, products, further stones.    *)
Uses(x, s) == rows[x].main = s \/ (x \in Product /\ s \in links[x])
Dependents(s) == {x \in Lot \cup Product : Living(x) /\ Uses(x, s)}

Init ==
  /\ rows = [x \in Row |-> NoRow]
  /\ links = [p \in Product |-> {}]
  /\ req = [r \in Request |-> Idle]

(* The mapper writes the columns whose value has changed since the load.   *)
Changed(old, new) == [f \in {f \in DOMAIN old : new[f] # old[f]} |-> new[f]]

(* x has been loaded and is to become new.                                 *)
Load(r, pc, x, new, stones) ==
  /\ req[r] = Idle
  /\ req' = [req EXCEPT ![r] = [Idle EXCEPT !.pc = pc, !.row = x, !.links = stones,
                                            !.set = Changed(rows[x], new)]]
  /\ UNCHANGED <<rows, links>>

(* A stone has no stone, a lot has one, a product one or more in order.    *)
Write(r, x, new) ==
  \/ x \in Stone /\ Load(r, "commit", x, new, {})
  \/ /\ x \in Lot
     /\ \E s \in LivingStones : Load(r, "commit", x, [new EXCEPT !.main = s], {})
  \/ /\ x \in Product
     /\ \E stones \in SUBSET LivingStones : \E s \in stones :
          Load(r, "links", x, [new EXCEPT !.main = s], stones)

(* create_stone, create_block, create_product: a row nobody has yet.       *)
Create(r, x, slug) ==
  /\ rows[x].state = "none" /\ \A q \in Request : req[q].row # x
  /\ ~Taken(x, slug)
  /\ Write(r, x, [state |-> "alive", slug |-> slug, main |-> None])

(* update_stone, update_block, update_product: with a new slug or without. *)
Update(r, x, slug) ==
  /\ Living(x)
  /\ slug # rows[x].slug => ~Taken(x, slug)
  /\ Write(r, x, [rows[x] EXCEPT !.slug = slug])

(* Mutant of Delete: further stones of a product do not count.             *)
DeleteFurther(r, x) ==
  /\ Living(x)
  /\ x \in Stone => \A y \in Dependents(x) : rows[y].main # x
  /\ Load(r, "commit", x, [rows[x] EXCEPT !.state = "deleted"], {})

Delete(r, x) ==
  /\ Living(x)
  /\ x \in Stone => Dependents(x) = {}
  /\ Load(r, "commit", x, [rows[x] EXCEPT !.state = "deleted"], {})

Restore(r, x) ==
  /\ rows[x].state = "deleted" /\ FoundAny(x)
  /\ ~Taken(x, rows[x].slug)
  /\ Load(r, "commit", x, [rows[x] EXCEPT !.state = "alive"], {})

(* replace_product_stones reads what it is about to delete.                *)
LinksRead(r) ==
  /\ req[r].pc = "links"
  /\ req' = [req EXCEPT ![r].pc = "commit", ![r].gone = links[req[r].row]]
  /\ UNCHANGED <<rows, links>>

IndexAllows(x, row) == row.state = "alive" => ~Taken(x, row.slug)

Merged(row, set) ==
  [f \in DOMAIN row |-> IF f \in DOMAIN set THEN set[f] ELSE row[f]]

(* Mutant of Relinked: the rows of the other edit are taken for one's own. *)
RelinkedLess(stones, me) == stones \ (me.gone \cup me.links)
Relinked(stones, me) == (stones \ me.gone) \cup me.links

Seen(me, x) == IF me.row \in Stone /\ "state" \in DOMAIN me.set THEN {x} \ Stone ELSE {}

Commit(r) ==
  LET me == req[r]
      x == me.row
      row == Merged(rows[x], me.set) IN
  /\ me.pc = "commit"
  /\ IndexAllows(x, row)
  /\ x \in Product => (links[x] \ me.gone) \cap me.links = {}
  /\ rows' = [rows EXCEPT ![x] = row]
  /\ links' = [p \in Product |-> IF p = x THEN Relinked(links[p], me) ELSE links[p]]
  /\ req' = [q \in Request |->
       IF q = r THEN Idle ELSE [req[q] EXCEPT !.touched = @ \cup Seen(req[q], x)]]

Abort(r) ==
  /\ req[r] # Idle
  /\ req' = [req EXCEPT ![r] = Idle]
  /\ UNCHANGED <<rows, links>>

Next ==
  \E r \in Request :
    \/ \E x \in Row, slug \in Slug : Create(r, x, slug) \/ Update(r, x, slug)
    \/ \E x \in Row : Delete(r, x) \/ Restore(r, x)
    \/ LinksRead(r) \/ Commit(r) \/ Abort(r)

Spec == Init /\ [][Next]_vars
-----------------------------------------------------------------------------
RowType == [state : {"none", "alive", "deleted"}, slug : Slug \cup {None},
            main : Stone \cup {None}]
Column == [state |-> {"alive", "deleted"}, slug |-> Slug, main |-> Stone]
Changes == {set \in UNION {[fields -> UNION {Column[f] : f \in DOMAIN Column}] :
                             fields \in SUBSET DOMAIN Column} :
              \A f \in DOMAIN set : set[f] \in Column[f]}
RequestType == [pc : {"idle", "links", "commit"}, row : Row \cup {None},
                set : Changes, links : SUBSET Stone,
                gone : SUBSET Stone, touched : SUBSET Row]

(* Type invariant; a row that was ever there has a slug.                   *)
TypeOK ==
  /\ rows \in [Row -> RowType]
  /\ links \in [Product -> SUBSET Stone]
  /\ req \in [Request -> RequestType]
  /\ \A x \in Row : rows[x].state # "none" => rows[x].slug # None

(* Two living rows of a table never share a slug, although every operation *)
(* looks it up first and writes it later.                                  *)
SlugsUnique == \A x \in Row : Living(x) => ~Taken(x, rows[x].slug)

(* A product has a stone, however its edits overlap: what one edit deletes *)
(* is what it has read, and it always adds its own.                        *)
AlwaysLinked == \A p \in Product : rows[p].state # "none" => links[p] # {}

(* A stone in use is deleted only if whatever uses it was written while    *)
(* the deletion was in progress: delete_stone misses nothing that was      *)
(* there when it looked.                                                   *)
UsedStoneStays ==
  [][\A s \in Stone :
       Living(s) /\ rows'[s].state = "deleted" =>
         \E r \in Request : req[r].row = s /\ Dependents(s) \subseteq req[r].touched]_vars

(* What lives in the catalogue is made of stones that live there.          *)
StonesLive == \A s \in Stone : rows[s].state = "deleted" => Dependents(s) = {}
=============================================================================
