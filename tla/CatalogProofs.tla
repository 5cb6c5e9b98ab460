---------------------------- MODULE CatalogProofs ----------------------------
(***************************************************************************)
(* Proofs about Catalog, for any sets of rows, slugs and requests; and     *)
(* about Stones, for any stones, names and numbers of lots and products.   *)
(*                                                                         *)
(* The invariant follows every request to its commit: what it will write   *)
(* is enough to make a row of an absent one, its new stones or the old     *)
(* ones keep a product linked, and a deletion of a stone knows of all      *)
(* that uses it.                                                           *)
(***************************************************************************)
EXTENDS MCStones, FiniteSetTheorems, WellFoundedInduction, TLAPS

(* A row nobody has created is empty.                                      *)
Fresh == \A x \in Row : rows[x].state = "none" => rows[x] = NoRow

(* A request has a row, and creates it whole if it is absent.              *)
Whole(r) ==
  req[r].pc # "idle" =>
    /\ req[r].row \in Row
    /\ rows[req[r].row].state = "none" => {"state", "slug"} \subseteq DOMAIN req[r].set

(* A request either gives a product stones or takes none away.             *)
Linking(r) ==
  /\ req[r].pc = "links" => req[r].row \in Product /\ req[r].links # {}
  /\ req[r].pc # "idle" /\ req[r].row \in Product /\ req[r].links = {} =>
       rows[req[r].row].state # "none" /\ req[r].gone = {}

Deleting(me, s) ==
  me.pc # "idle" /\ me.row = s /\ "state" \in DOMAIN me.set /\ me.set["state"] = "deleted"

(* What uses a stone on its way to deletion was written meanwhile.         *)
Watching(r) ==
  \A s \in Stone : Deleting(req[r], s) => Dependents(s) \subseteq req[r].touched

Requests == \A r \in Request : Whole(r) /\ Linking(r) /\ Watching(r)

IInv == TypeOK /\ Fresh /\ SlugsUnique /\ AlwaysLinked /\ Requests
-----------------------------------------------------------------------------
LEMMA TableOf == ASSUME NEW x \in Row, NEW y \in Table(x) PROVE y \in Row /\ Table(y) = Table(x)
  BY CatalogAssumption DEF Table, Row

LEMMA Fields == ASSUME NEW row \in RowType PROVE DOMAIN row = {"state", "slug", "main"}
  BY DEF RowType

(* What a request sets are columns, with values of their type.             *)
LEMMA ChangedType ==
  ASSUME NEW row \in RowType, NEW new \in RowType,
         new.slug \in Slug, new.state # "none",
         new.main # row.main => new.main \in Stone
  PROVE  Changed(row, new) \in Changes
<1> DEFINE c == Changed(row, new)
<1>1. DOMAIN row = {"state", "slug", "main"}
  BY Fields
<1>2. DOMAIN c \in SUBSET {"state", "slug", "main"}
  BY <1>1 DEF Changed
<1>3. \A f \in DOMAIN c : c[f] = new[f] /\ new[f] # row[f]
  BY <1>1 DEF Changed
<1>4. DOMAIN Column = {"state", "slug", "main"}
  BY DEF Column
<1>5. Column["state"] = {"alive", "deleted"} /\ Column["slug"] = Slug /\ Column["main"] = Stone
  BY DEF Column
<1>6. \A f \in DOMAIN c : c[f] \in Column[f]
  <2>1. new["state"] \in Column["state"]
    BY <1>5 DEF RowType
  <2>2. new["slug"] \in Column["slug"]
    BY <1>5
  <2>3. new["main"] # row["main"] => new["main"] \in Column["main"]
    BY <1>5
  <2> QED BY <2>1, <2>2, <2>3, <1>2, <1>3
<1>7. c \in [DOMAIN c -> UNION {Column[f] : f \in DOMAIN Column}]
  <2>1. c = [f \in DOMAIN c |-> c[f]]
    BY DEF Changed
  <2> QED BY <1>6, <1>2, <1>4, <2>1
<1> QED BY <1>2, <1>4, <1>6, <1>7 DEF Changes

LEMMA ChangesType ==
  ASSUME NEW set \in Changes
  PROVE  /\ DOMAIN set \subseteq {"state", "slug", "main"}
         /\ "state" \in DOMAIN set => set["state"] \in {"alive", "deleted"}
         /\ "slug" \in DOMAIN set => set["slug"] \in Slug
  BY DEF Changes, Column

(* A merged row is a row, with the changes and otherwise as it was.        *)
LEMMA MergedType ==
  ASSUME NEW row \in RowType, NEW set \in Changes
  PROVE  /\ Merged(row, set) \in RowType
         /\ Merged(row, set).state = IF "state" \in DOMAIN set THEN set["state"] ELSE row.state
         /\ Merged(row, set).slug = IF "slug" \in DOMAIN set THEN set["slug"] ELSE row.slug
<1>1. Merged(row, set) \in RowType
  BY DEF Merged, RowType, Changes, Column
<1>2. Merged(row, set).state = IF "state" \in DOMAIN set THEN set["state"] ELSE row.state
  BY Fields DEF Merged
<1>3. Merged(row, set).slug = IF "slug" \in DOMAIN set THEN set["slug"] ELSE row.slug
  BY Fields DEF Merged
<1> QED BY <1>1, <1>2, <1>3
-----------------------------------------------------------------------------
LEMMA IdleType == Idle \in RequestType /\ Idle.pc = "idle"
<1>1. <<>> \in Changes
  BY DEF Changes, Column
<1> QED BY <1>1 DEF Idle, RequestType

LEMMA InitOK == Init => IInv
<1> SUFFICES ASSUME Init PROVE IInv
  OBVIOUS
<1>1. /\ \A x \in Row : rows[x] = NoRow /\ rows[x].state = "none"
      /\ \A r \in Request : req[r] = Idle /\ req[r].pc = "idle" /\ req[r].row = None
  BY DEF Init, NoRow, Idle
<1>2. TypeOK
  <2>1. NoRow \in RowType
    BY DEF NoRow, RowType
  <2> QED BY <1>1, <2>1, IdleType DEF Init, TypeOK
<1>3. Fresh
  BY <1>1 DEF Fresh
<1>4. SlugsUnique
  BY <1>1 DEF SlugsUnique, Living
<1>5. AlwaysLinked
  BY <1>1 DEF AlwaysLinked, Row
<1>6. Requests
  BY <1>1 DEF Requests, Whole, Linking, Watching, Deleting
<1> QED BY <1>2, <1>3, <1>4, <1>5, <1>6 DEF IInv

(* What may be loaded: a whole living row or a deletion nothing forbids.   *)
LEMMA LoadOK ==
  ASSUME IInv,
         NEW r \in Request, NEW pc \in {"links", "commit"}, NEW x \in Row,
         NEW new \in RowType, NEW stones \in SUBSET Stone,
         Load(r, pc, x, new, stones),
         new.slug \in Slug, new.state # "none",
         new.main # rows[x].main => new.main \in Stone,
         pc = "links" => x \in Product /\ stones # {},
         x \in Product /\ stones = {} => rows[x].state # "none",
         x \in Stone /\ new.state = "deleted" => Dependents(x) = {}
  PROVE  IInv'
<1> USE DEF IInv
<1> DEFINE set == Changed(rows[x], new)
           me == [Idle EXCEPT !.pc = pc, !.row = x, !.links = stones, !.set = set]
<1>1. rows' = rows /\ links' = links
  BY DEF Load
<1>2. req' = [req EXCEPT ![r] = me]
  BY DEF Load
<1>3. rows \in [Row -> RowType] /\ req \in [Request -> RequestType]
  BY DEF TypeOK
<1>4. set \in Changes
  BY <1>3, ChangedType
<1>5. /\ me.pc = pc /\ me.row = x /\ me.links = stones /\ me.set = set
      /\ me.gone = {} /\ me.touched = {}
  BY DEF Idle
<1>6. me \in RequestType
  BY <1>4 DEF Idle, RequestType
<1>7. req'[r] = me /\ \A q \in Request : q # r => req'[q] = req[q]
  BY <1>2, <1>3
<1>8. TypeOK'
  <2>1. req' \in [Request -> RequestType]
    BY <1>2, <1>3, <1>6
  <2> QED BY <1>1, <2>1 DEF TypeOK
<1>9. (Fresh /\ SlugsUnique /\ AlwaysLinked)'
  BY <1>1 DEF Fresh, SlugsUnique, Taken, Living, AlwaysLinked
<1>10. ASSUME NEW q \in Request, q # r PROVE (Whole(q) /\ Linking(q) /\ Watching(q))'
  <2>1. Whole(q) /\ Linking(q) /\ Watching(q)
    BY DEF Requests
  <2> QED BY <1>1, <1>7, <1>10, <2>1
          DEF Whole, Linking, Watching, Deleting, Dependents, Living, Uses
<1>11. Whole(r)'
  <2>1. rows[x].state = "none" => {"state", "slug"} \subseteq DOMAIN set
    <3>1. rows[x].state = "none" => rows[x].slug = None
      BY DEF Fresh, NoRow
    <3>2. new["state"] = new.state /\ new["slug"] = new.slug
      OBVIOUS
    <3>3. new.slug # None
      BY CatalogAssumption
    <3> QED BY <1>3, <3>1, <3>2, <3>3, Fields DEF Changed
  <2> QED BY <1>1, <1>5, <1>7, <2>1 DEF Whole
<1>12. Linking(r)'
  BY <1>1, <1>5, <1>7 DEF Linking
<1>13. Watching(r)'
  <2>1. "state" \in DOMAIN set => set["state"] = new.state
    BY DEF Changed
  <2>2. Dependents(x)' = Dependents(x)
    BY <1>1 DEF Dependents, Living, Uses
  <2> QED BY <1>5, <1>7, <2>1, <2>2 DEF Watching, Deleting
<1> QED BY <1>8, <1>9, <1>10, <1>11, <1>12, <1>13 DEF Requests

LEMMA WriteOK ==
  ASSUME IInv, NEW r \in Request, NEW x \in Row, NEW new \in RowType,
         Write(r, x, new), new.slug \in Slug, new.state = "alive", new.main = rows[x].main
  PROVE  IInv'
<1>1. CASE x \in Stone
  <2>1. Load(r, "commit", x, new, {})
    BY <1>1, CatalogAssumption DEF Write
  <2> QED BY <1>1, <2>1, LoadOK, CatalogAssumption
<1>2. CASE x \in Lot
  <2>1. PICK s \in LivingStones : Load(r, "commit", x, [new EXCEPT !.main = s], {})
    BY <1>2, CatalogAssumption DEF Write
  <2> DEFINE made == [new EXCEPT !.main = s]
  <2>2. made \in RowType /\ made.slug \in Slug /\ made.state = "alive" /\ made.main \in Stone
    BY DEF RowType, LivingStones
  <2> QED BY <1>2, <2>1, <2>2, LoadOK, CatalogAssumption
<1>3. CASE x \in Product
  <2>0. PICK stones \in SUBSET LivingStones : \E s \in stones :
          Load(r, "links", x, [new EXCEPT !.main = s], stones)
    BY <1>3, CatalogAssumption DEF Write
  <2>1. PICK s \in stones : Load(r, "links", x, [new EXCEPT !.main = s], stones)
    BY <2>0
  <2> DEFINE made == [new EXCEPT !.main = s]
  <2>2. made \in RowType /\ made.slug \in Slug /\ made.state = "alive" /\ made.main \in Stone
    BY DEF RowType, LivingStones
  <2>3. stones \in SUBSET Stone /\ stones # {}
    BY DEF LivingStones
  <2> QED BY <1>3, <2>1, <2>2, <2>3, LoadOK, CatalogAssumption
<1> QED BY <1>1, <1>2, <1>3 DEF Row

LEMMA CreateOK ==
  ASSUME IInv, NEW r \in Request, NEW x \in Row, NEW slug \in Slug, Create(r, x, slug)
  PROVE  IInv'
<1> DEFINE new == [state |-> "alive", slug |-> slug, main |-> None]
<1>1. new \in RowType /\ new.slug \in Slug /\ new.state = "alive"
  BY DEF RowType
<1>2. rows[x] = NoRow
  BY DEF Create, IInv, Fresh
<1>3. new.main = rows[x].main
  BY <1>2 DEF NoRow
<1> QED BY <1>1, <1>3, WriteOK DEF Create

LEMMA UpdateOK ==
  ASSUME IInv, NEW r \in Request, NEW x \in Row, NEW slug \in Slug, Update(r, x, slug)
  PROVE  IInv'
<1> DEFINE new == [rows[x] EXCEPT !.slug = slug]
<1>1. rows[x] \in RowType /\ rows[x].state = "alive"
  BY DEF Update, Living, IInv, TypeOK
<1>2. new \in RowType /\ new.slug \in Slug /\ new.state = "alive" /\ new.main = rows[x].main
  BY <1>1 DEF RowType
<1> QED BY <1>2, WriteOK DEF Update

(* Deleting and restoring change the state of a row that is there.         *)
LEMMA StateOK ==
  ASSUME IInv, NEW r \in Request, NEW x \in Row, NEW state \in {"alive", "deleted"},
         rows[x].state # "none", x \in Stone /\ state = "deleted" => Dependents(x) = {},
         Load(r, "commit", x, [rows[x] EXCEPT !.state = state], {})
  PROVE  IInv'
<1> DEFINE new == [rows[x] EXCEPT !.state = state]
<1>1. rows[x] \in RowType /\ rows[x].slug # None
  BY DEF IInv, TypeOK
<1>2. new \in RowType /\ new.slug \in Slug /\ new.state = state /\ new.main = rows[x].main
  BY <1>1 DEF RowType
<1>3. new.state # "none"
  BY <1>2
<1>4. Load(r, "commit", x, new, {})
  OBVIOUS
<1>5. x \in Stone /\ new.state = "deleted" => Dependents(x) = {}
  BY <1>2
<1> HIDE DEF new
<1> QED BY <1>2, <1>3, <1>4, <1>5, LoadOK

LEMMA DeleteOK == ASSUME IInv, NEW r \in Request, NEW x \in Row, Delete(r, x) PROVE IInv'
<1>1. rows[x].state # "none"
  BY DEF Delete, Living
<1> QED BY <1>1, StateOK DEF Delete

LEMMA RestoreOK == ASSUME IInv, NEW r \in Request, NEW x \in Row, Restore(r, x) PROVE IInv'
<1>1. rows[x].state # "none"
  BY DEF Restore
<1> QED BY <1>1, StateOK DEF Restore

-----------------------------------------------------------------------------
LEMMA LinksReadOK == ASSUME IInv, NEW r \in Request, LinksRead(r) PROVE IInv'
<1> USE DEF IInv
<1> DEFINE me == [req[r] EXCEPT !.pc = "commit", !.gone = links[req[r].row]]
<1>1. rows' = rows /\ links' = links /\ req[r].pc = "links"
  BY DEF LinksRead
<1>2. req \in [Request -> RequestType] /\ links \in [Product -> SUBSET Stone]
  BY DEF TypeOK
<1>3. Whole(r) /\ Linking(r) /\ Watching(r)
  BY DEF Requests
<1>4. req[r].row \in Product /\ req[r].links # {}
  BY <1>1, <1>3 DEF Linking
<1>5. req' = [req EXCEPT ![r] = me]
  BY <1>2 DEF LinksRead, RequestType
<1>6. /\ me.pc = "commit" /\ me.row = req[r].row /\ me.links = req[r].links
      /\ me.set = req[r].set /\ me.touched = req[r].touched
  BY <1>2 DEF RequestType
<1>7. me \in RequestType
  BY <1>2, <1>4 DEF RequestType
<1>8. req'[r] = me /\ \A q \in Request : q # r => req'[q] = req[q]
  BY <1>2, <1>5
<1> HIDE DEF me
<1>9. TypeOK'
  <2>1. req' \in [Request -> RequestType]
    BY <1>2, <1>5, <1>7
  <2> QED BY <1>1, <2>1 DEF TypeOK
<1>10. (Fresh /\ SlugsUnique /\ AlwaysLinked)'
  BY <1>1 DEF Fresh, SlugsUnique, Taken, Living, AlwaysLinked
<1>11. ASSUME NEW q \in Request, q # r PROVE (Whole(q) /\ Linking(q) /\ Watching(q))'
  <2>1. Whole(q) /\ Linking(q) /\ Watching(q)
    BY DEF Requests
  <2> QED BY <1>1, <1>8, <1>11, <2>1
          DEF Whole, Linking, Watching, Deleting, Dependents, Living, Uses
<1>12. Whole(r)'
  BY <1>1, <1>3, <1>6, <1>8 DEF Whole
<1>13. Linking(r)'
  BY <1>1, <1>4, <1>6, <1>8 DEF Linking
<1>14. Watching(r)'
  <2>1. req[r].row \notin Stone
    BY <1>4, CatalogAssumption
  <2> QED BY <1>6, <1>8, <2>1 DEF Watching, Deleting
<1> QED BY <1>9, <1>10, <1>11, <1>12, <1>13, <1>14 DEF Requests

LEMMA AbortOK == ASSUME IInv, NEW r \in Request, Abort(r) PROVE IInv'
<1> USE DEF IInv
<1>1. rows' = rows /\ links' = links /\ req' = [req EXCEPT ![r] = Idle]
  BY DEF Abort
<1>2. req \in [Request -> RequestType]
  BY DEF TypeOK
<1>3. Idle \in RequestType /\ Idle.pc = "idle"
  BY IdleType
<1>4. req'[r] = Idle /\ \A q \in Request : q # r => req'[q] = req[q]
  BY <1>1, <1>2
<1>5. TypeOK'
  <2>1. req' \in [Request -> RequestType]
    BY <1>1, <1>2, <1>3
  <2> QED BY <1>1, <2>1 DEF TypeOK
<1>6. (Fresh /\ SlugsUnique /\ AlwaysLinked)'
  BY <1>1 DEF Fresh, SlugsUnique, Taken, Living, AlwaysLinked
<1>7. ASSUME NEW q \in Request, q # r PROVE (Whole(q) /\ Linking(q) /\ Watching(q))'
  <2>1. Whole(q) /\ Linking(q) /\ Watching(q)
    BY DEF Requests
  <2> QED BY <1>1, <1>4, <1>7, <2>1
          DEF Whole, Linking, Watching, Deleting, Dependents, Living, Uses
<1>8. (Whole(r) /\ Linking(r) /\ Watching(r))'
  BY <1>3, <1>4 DEF Whole, Linking, Watching, Deleting
<1> QED BY <1>5, <1>6, <1>7, <1>8 DEF Requests

LEMMA CommitOK == ASSUME IInv, NEW r \in Request, Commit(r) PROVE IInv'
<1> USE DEF IInv
<1> DEFINE me == req[r]
           x == me.row
           row == Merged(rows[x], me.set)
<1>1. /\ rows \in [Row -> RowType]
      /\ links \in [Product -> SUBSET Stone]
      /\ req \in [Request -> RequestType]
  BY DEF TypeOK
<1>2. me.pc = "commit" /\ IndexAllows(x, row) /\ rows' = [rows EXCEPT ![x] = row]
  BY DEF Commit
<1>3. Whole(r) /\ Linking(r) /\ Watching(r)
  BY DEF Requests
<1>4. x \in Row /\ (rows[x].state = "none" => {"state", "slug"} \subseteq DOMAIN me.set)
  BY <1>2, <1>3 DEF Whole
<1>5. /\ me.set \in Changes /\ me.links \in SUBSET Stone /\ me.gone \in SUBSET Stone
  BY <1>1 DEF RequestType
<1>6. /\ row \in RowType
      /\ row.state = IF "state" \in DOMAIN me.set THEN me.set["state"] ELSE rows[x].state
      /\ row.slug = IF "slug" \in DOMAIN me.set THEN me.set["slug"] ELSE rows[x].slug
  BY <1>1, <1>4, <1>5, MergedType
<1>7. row.state # "none" /\ row.slug # None
  <2>1. rows[x].state # "none" => rows[x].slug # None
    BY <1>4 DEF TypeOK
  <2> QED BY <1>4, <1>5, <1>6, <2>1, ChangesType, CatalogAssumption
<1>8. rows'[x] = row /\ \A y \in Row : y # x => rows'[y] = rows[y]
  BY <1>1, <1>2, <1>4
<1>9. \A p \in Product : links'[p] = IF p = x THEN Relinked(links[p], me) ELSE links[p]
  BY DEF Commit
<1>10. /\ req'[r] = Idle
       /\ \A q \in Request :
            q # r => req'[q] = [req[q] EXCEPT !.touched = @ \cup Seen(req[q], x)]
  BY DEF Commit
<1> HIDE DEF row
<1>11. Idle \in RequestType /\ Idle.pc = "idle"
  BY IdleType
<1>12. \A q \in Request : q # r =>
         /\ req'[q].pc = req[q].pc /\ req'[q].row = req[q].row /\ req'[q].set = req[q].set
         /\ req'[q].links = req[q].links /\ req'[q].gone = req[q].gone
         /\ req'[q].touched = req[q].touched \cup Seen(req[q], x)
         /\ req'[q] \in RequestType
  <2> SUFFICES ASSUME NEW q \in Request, q # r
               PROVE  /\ req'[q].pc = req[q].pc /\ req'[q].row = req[q].row
                      /\ req'[q].set = req[q].set
                      /\ req'[q].links = req[q].links /\ req'[q].gone = req[q].gone
                      /\ req'[q].touched = req[q].touched \cup Seen(req[q], x)
                      /\ req'[q] \in RequestType
    OBVIOUS
  <2>1. Seen(req[q], x) \in SUBSET Row
    BY <1>4 DEF Seen
  <2>2. req[q] \in RequestType
    BY <1>1
  <2> DEFINE seen == Seen(req[q], x)
  <2>3. req'[q] = [req[q] EXCEPT !.touched = @ \cup seen]
    BY <1>10
  <2>4. seen \in SUBSET Row
    BY <2>1
  <2>5. req[q].touched \cup seen \in SUBSET Row
    BY <2>2, <2>4 DEF RequestType
  <2>6. req'[q].touched = req[q].touched \cup seen
    BY <2>2, <2>3 DEF RequestType
  <2> HIDE DEF seen
  <2>7. req'[q] \in RequestType
    BY <2>2, <2>3, <2>5 DEF RequestType
  <2>8. /\ req'[q].pc = req[q].pc /\ req'[q].row = req[q].row
        /\ req'[q].set = req[q].set
        /\ req'[q].links = req[q].links /\ req'[q].gone = req[q].gone
    BY <2>2, <2>3 DEF RequestType
  <2> QED BY <2>6, <2>7, <2>8 DEF seen
<1>13. TypeOK'
  <2>1. rows' \in [Row -> RowType]
    BY <1>1, <1>2, <1>4, <1>6
  <2>2. links' \in [Product -> SUBSET Stone]
    <3>1. links' = [p \in Product |-> IF p = x THEN Relinked(links[p], me) ELSE links[p]]
      BY DEF Commit
    <3> QED BY <1>1, <1>5, <3>1 DEF Relinked
  <2>3. req' \in [Request -> RequestType]
    <3>1. \A q \in Request : req'[q] \in RequestType
      BY <1>10, <1>11, <1>12
    <3>2. req' = [q \in Request |-> req'[q]]
      BY DEF Commit
    <3> QED BY <3>1, <3>2
  <2>4. \A y \in Row : rows'[y].state # "none" => rows'[y].slug # None
    BY <1>7, <1>8 DEF TypeOK
  <2> QED BY <2>1, <2>2, <2>3, <2>4 DEF TypeOK
<1>14. Fresh'
  BY <1>7, <1>8 DEF Fresh
<1>15. SlugsUnique'
  <2> SUFFICES ASSUME NEW y \in Row, NEW z \in Table(y) \ {y},
                      rows'[y].state = "alive", rows'[z].state = "alive",
                      rows'[z].slug = rows'[y].slug
               PROVE  FALSE
    BY DEF SlugsUnique, Taken, Living
  <2>1. z \in Row /\ y \in Table(z)
    BY TableOf DEF Table, Row
  <2>2. row.state = "alive" => \A w \in Table(x) \ {x} : ~(rows[w].state = "alive" /\ rows[w].slug = row.slug)
    BY <1>2 DEF IndexAllows, Taken, Living
  <2>3. CASE y = x
    BY <1>8, <2>1, <2>2, <2>3
  <2>4. CASE z = x
    BY <1>8, <2>1, <2>2, <2>4
  <2>5. CASE y # x /\ z # x
    BY <1>8, <2>1, <2>5 DEF SlugsUnique, Taken, Living
  <2> QED BY <2>3, <2>4, <2>5
<1>16. AlwaysLinked'
  <2> SUFFICES ASSUME NEW p \in Product, rows'[p].state # "none" PROVE links'[p] # {}
    BY DEF AlwaysLinked
  <2>1. CASE p # x
    BY <1>8, <1>9, <2>1 DEF AlwaysLinked, Row
  <2>2. CASE p = x
    <3>1. links'[p] = (links[p] \ me.gone) \cup me.links
      BY <1>9, <2>2 DEF Relinked
    <3>2. me.links = {} => rows[p].state # "none" /\ me.gone = {}
      BY <1>2, <1>3, <2>2 DEF Linking
    <3> QED BY <3>1, <3>2 DEF AlwaysLinked
  <2> QED BY <2>1, <2>2
<1>17. ASSUME NEW q \in Request, q # r PROVE (Whole(q) /\ Linking(q) /\ Watching(q))'
  <2>1. Whole(q) /\ Linking(q) /\ Watching(q)
    BY DEF Requests
  <2>2. Whole(q)'
    BY <1>7, <1>8, <1>12, <1>17, <2>1 DEF Whole
  <2>3. Linking(q)'
    BY <1>7, <1>8, <1>12, <1>17, <2>1 DEF Linking, Row
  <2>4. Watching(q)'
    <3> SUFFICES ASSUME NEW s \in Stone, Deleting(req[q], s), NEW y \in Dependents(s)'
                 PROVE  y \in req'[q].touched
      BY <1>12, <1>17 DEF Watching, Deleting
    <3>1. Dependents(s) \subseteq req[q].touched
      BY <2>1 DEF Watching
    <3>2. y \in Lot \cup Product /\ rows'[y].state = "alive"
            /\ (rows'[y].main = s \/ (y \in Product /\ s \in links'[y]))
      BY DEF Dependents, Living, Uses
    <3>3. CASE y = x
      <4>1. y \in Seen(req[q], x)
        BY <3>2, <3>3, CatalogAssumption DEF Seen, Deleting
      <4> QED BY <1>12, <1>17, <4>1
    <3>4. CASE y # x
      <4>1. y \in Dependents(s)
        BY <1>8, <1>9, <3>2, <3>4 DEF Dependents, Living, Uses, Row
      <4> QED BY <1>12, <1>17, <3>1, <4>1
    <3> QED BY <3>3, <3>4
  <2> QED BY <2>2, <2>3, <2>4
<1>18. (Whole(r) /\ Linking(r) /\ Watching(r))'
  BY <1>10, <1>11 DEF Whole, Linking, Watching, Deleting
<1> QED BY <1>13, <1>14, <1>15, <1>16, <1>17, <1>18 DEF Requests
-----------------------------------------------------------------------------
LEMMA NextOK == IInv /\ [Next]_vars => IInv'
<1> SUFFICES ASSUME IInv, [Next]_vars PROVE IInv'
  OBVIOUS
<1>1. CASE UNCHANGED vars
  BY <1>1 DEF vars, IInv, TypeOK, Fresh, SlugsUnique, Taken, AlwaysLinked, Requests, Whole,
              Linking, Watching, Deleting, Dependents, Living, Uses
<1>2. CASE Next
  BY <1>2, CreateOK, UpdateOK, DeleteOK, RestoreOK, LinksReadOK, CommitOK, AbortOK DEF Next
<1> QED BY <1>1, <1>2

LEMMA Invariant == Spec => []IInv
BY InitOK, NextOK, PTL DEF Spec

(* Rows and requests keep their types, and a row that was ever there keeps *)
(* a slug.                                                                 *)
THEOREM TypeCorrect == Spec => []TypeOK
<1>1. IInv => TypeOK
  BY DEF IInv
<1> QED BY <1>1, Invariant, PTL

(* However many requests look a slug up before any of them takes it, no    *)
(* two living rows of a table share one.                                   *)
THEOREM SlugsStayUnique == Spec => []SlugsUnique
<1>1. IInv => SlugsUnique
  BY DEF IInv
<1> QED BY <1>1, Invariant, PTL

(* However the edits of a product overlap, it is left with a stone.        *)
THEOREM ProductsKeepAStone == Spec => []AlwaysLinked
<1>1. IInv => AlwaysLinked
  BY DEF IInv
<1> QED BY <1>1, Invariant, PTL

(* What a deletion of a stone leaves behind was written while it was under *)
(* way: of what was there when delete_stone looked it misses nothing.      *)
THEOREM DeletionLooks == Spec => UsedStoneStays
<1> DEFINE Step == \A s \in Stone :
             Living(s) /\ rows'[s].state = "deleted" =>
               \E r \in Request : req[r].row = s /\ Dependents(s) \subseteq req[r].touched
<1>1. IInv /\ [Next]_vars => [Step]_vars
  <2> SUFFICES ASSUME IInv, Next, NEW s \in Stone, Living(s), rows'[s].state = "deleted"
               PROVE  \E r \in Request :
                        req[r].row = s /\ Dependents(s) \subseteq req[r].touched
    OBVIOUS
  <2>1. rows' # rows
    BY DEF Living
  <2>2. PICK r \in Request : Commit(r)
    <3>1. \A r \in Request, x \in Row, slug \in Slug :
            Create(r, x, slug) \/ Update(r, x, slug) => rows' = rows
      <4>1. \A r, pc, x, new, stones : Load(r, pc, x, new, stones) => rows' = rows
        BY DEF Load
      <4>2. \A r, x, new : Write(r, x, new) => rows' = rows
        BY <4>1 DEF Write
      <4> QED BY <4>2 DEF Create, Update
    <3>2. \A r \in Request, x \in Row : Delete(r, x) \/ Restore(r, x) => rows' = rows
      BY DEF Delete, Restore, Load
    <3>3. \A r \in Request : LinksRead(r) \/ Abort(r) => rows' = rows
      BY DEF LinksRead, Abort
    <3> QED BY <2>1, <3>1, <3>2, <3>3 DEF Next
  <2> DEFINE me == req[r]
             row == Merged(rows[me.row], me.set)
  <2>3. rows \in [Row -> RowType] /\ me \in RequestType
    BY DEF IInv, TypeOK
  <2>4. me.row \in Row /\ Watching(r) /\ me.pc = "commit"
    BY <2>2 DEF Commit, IInv, Requests, Whole
  <2>5. rows' = [rows EXCEPT ![me.row] = row]
    BY <2>2 DEF Commit
  <2>6. s \in Row
    BY DEF Row
  <2>7. me.row = s /\ row.state = "deleted"
    BY <2>3, <2>4, <2>5, <2>6 DEF Living
  <2>8. "state" \in DOMAIN me.set /\ me.set["state"] = "deleted"
    BY <2>3, <2>4, <2>7, MergedType DEF Living, RequestType
  <2> QED BY <2>4, <2>7, <2>8 DEF Watching, Deleting
<1> QED BY <1>1, Invariant, PTL DEF Spec, UsedStoneStays
-----------------------------------------------------------------------------
(***************************************************************************)
(* The pages of the stones (Stones).  What is served and what a page has   *)
(* are arguments here, so that a lemma says the same of the next state.    *)
(***************************************************************************)
LotsOf(sv, s) == {l \in S!Block : sv.lots[l] # None /\ sv.lots[l].stone = s}
StoneOut(sv, s) ==
  [id |-> s, name |-> sv.name[s], lot |-> S!Least(LotsOf(sv, s)),
   slabs |-> \E g \in S!Good : /\ sv.goods[g] # None
                               /\ sv.goods[g].category = "slabs"
                               /\ sv.goods[g].main = s,
   made |-> \E g \in S!Good : sv.goods[g] # None /\ s \in sv.goods[g].stones]
GetOut(sv, s) == IF s \in sv.living THEN StoneOut(sv, s) ELSE None
StonesOut(sv) == {StoneOut(sv, s) : s \in sv.living}
OneLot(sv, l) == IF sv.lots[l] = None THEN None
  ELSE [stone |-> sv.lots[l].stone, name |-> sv.name[sv.lots[l].stone],
        stocked |-> sv.lots[l].stocked]
LotsOut(sv) == [l \in S!Block |-> OneLot(sv, l)]
OneGood(sv, g) == IF sv.goods[g] = None THEN None
  ELSE [category |-> sv.goods[g].category, name |-> sv.name[sv.goods[g].main],
        names |-> {sv.name[s] : s \in sv.goods[g].stones}]
GoodsOut(sv) == [g \in S!Good |-> OneGood(sv, g)]

(* What is answered to a request of page p.                                *)
Says(sv, p, q) ==
  CASE q = "stones" -> StonesOut(sv)
    [] q = "stone"  -> GetOut(sv, p.id)
    [] q = "lots"   -> LotsOut(sv)
    [] q = "goods"  -> GoodsOut(sv)
    [] q = "lot"    -> OneLot(sv, p.id)
    [] q = "good"   -> OneGood(sv, p.id)
    [] q = "owner"  -> GetOut(sv, p.got["lot"].stone)

Asks == {"stones", "stone", "lots", "goods", "lot", "good", "owner"}

LEMMA AnswerIs == ASSUME NEW q \in Asks PROVE S!Answer(q) = Says(served, page, q)
<1>1. \A s : S!Material(s) = StoneOut(served, s)
  BY DEF S!Material, StoneOut, LotsOf
<1>2. \A s : S!GetStone(s) = GetOut(served, s)
  BY <1>1 DEF S!GetStone, GetOut
<1>3. S!ListStones = StonesOut(served)
  BY <1>1 DEF S!ListStones, StonesOut
<1>4. \A l : S!LotOut(l) = OneLot(served, l)
  BY DEF S!LotOut, OneLot
<1>5. \A g : S!GoodOut(g) = OneGood(served, g)
  BY DEF S!GoodOut, OneGood
<1>6. [l \in S!Block |-> S!LotOut(l)] = LotsOut(served)
  BY <1>4 DEF LotsOut
<1>7. [g \in S!Good |-> S!GoodOut(g)] = GoodsOut(served)
  BY <1>5 DEF GoodsOut
<1> HIDE DEF Asks
<1> QED BY <1>2, <1>3, <1>4, <1>5, <1>6, <1>7 DEF S!Answer, Says, Asks

(* What the service keeps: rows are of living stones.                      *)
Kind == [living : SUBSET Sort, name : [Sort -> Name],
         lots : [S!Block -> S!LotRow \cup {None}], goods : [S!Good -> S!GoodRow \cup {None}]]
Sound(sv) ==
  /\ sv \in Kind
  /\ \A l \in S!Block : sv.lots[l] # None => sv.lots[l].stone \in sv.living
  /\ \A g \in S!Good : sv.goods[g] # None => sv.goods[g].stones \subseteq sv.living

LEMMA PagesFacts ==
  /\ S!Block \subseteq Nat /\ S!Good \subseteq Nat
  /\ None \notin Sort /\ None \notin Nat
  /\ None \notin S!StoneAnswer /\ None \notin S!LotAnswer /\ None \notin S!GoodAnswer
  BY PagesAssumption DEF S!StonesAssumption, S!Block, S!Good

(* Of numbers there is a least, and of finitely many a greatest.           *)
LEMMA LeastIs ==
  ASSUME NEW ns, ns \subseteq Nat, ns # {}
  PROVE  \E n \in ns : \A m \in ns : n <= m
<1> DEFINE Below == OpToRel(<, Nat)
<1>1. Below = {ss \in Nat \X Nat : ss[1] < ss[2]} /\ IsWellFoundedOn(Below, Nat)
  BY NatLessThanWellFounded, Zenon DEF OpToRel
<1> HIDE DEF Below
<1>2. PICK n \in ns : \A m \in ns : ~(<<m, n>> \in Below)
  BY <1>1, WFMin
<1>3. ASSUME NEW m \in ns, m < n PROVE FALSE
  <2>1. <<m, n>> \in Nat \X Nat
    OBVIOUS
  <2>2. <<m, n>> \in Below
    BY <1>1, <1>3, <2>1
  <2> QED BY <1>2, <2>2
<1>4. \A m \in ns : n <= m
  BY <1>3
<1> QED BY <1>4

LEMMA SameCount == ASSUME NEW xs PROVE S!Cardinality(xs) = Cardinality(xs)
BY DEF S!Cardinality, Cardinality

LEMMA LeastFound ==
  ASSUME NEW ns, ns \subseteq Nat
  PROVE  /\ S!Least(ns) = None <=> ns = {}
         /\ S!Least(ns) # None => S!Least(ns) \in ns
<1>1. CASE ns = {}
  BY <1>1 DEF S!Least
<1>2. CASE ns # {}
  <2>1. \E n \in ns : \A m \in ns : n <= m
    BY <1>2, LeastIs
  <2>2. S!Least(ns) \in ns
    BY <1>2, <2>1 DEF S!Least
  <2> QED BY <1>2, <2>2, PagesFacts
<1> QED BY <1>1, <1>2

LEMMA LotIs ==
  ASSUME NEW sv, Sound(sv), NEW l \in S!Block
  PROVE  /\ OneLot(sv, l) = None <=> sv.lots[l] = None
         /\ sv.lots[l] # None =>
              /\ OneLot(sv, l).stone = sv.lots[l].stone
              /\ OneLot(sv, l).name = sv.name[sv.lots[l].stone]
              /\ sv.lots[l].stone \in Sort
         /\ LotsOut(sv)[l] = OneLot(sv, l)
<1>1. ASSUME sv.lots[l] # None
      PROVE  sv.lots[l] \in S!LotRow /\ sv.lots[l].stone \in Sort /\ OneLot(sv, l) \in S!LotAnswer
  BY <1>1 DEF Sound, Kind, S!LotRow, OneLot, S!LotAnswer
<1> QED BY <1>1, PagesFacts DEF OneLot, LotsOut

LEMMA GoodIs ==
  ASSUME NEW sv, Sound(sv), NEW g \in S!Good
  PROVE  /\ OneGood(sv, g) = None <=> sv.goods[g] = None
         /\ sv.goods[g] # None =>
              /\ OneGood(sv, g).category = sv.goods[g].category
              /\ OneGood(sv, g).names = {sv.name[s] : s \in sv.goods[g].stones}
         /\ GoodsOut(sv)[g] = OneGood(sv, g)
<1>1. ASSUME sv.goods[g] # None
      PROVE  OneGood(sv, g) \in S!GoodAnswer
  <2>1. sv.goods[g] \in S!GoodRow
    BY <1>1 DEF Sound, Kind
  <2>2. sv.goods[g].category \in S!Category /\ sv.goods[g].main \in Sort /\ sv.goods[g].stones \subseteq Sort
    BY <2>1 DEF S!GoodRow
  <2>3. sv.name[sv.goods[g].main] \in Name /\ {sv.name[s] : s \in sv.goods[g].stones} \subseteq Name
    BY <2>2 DEF Sound, Kind
  <2> QED BY <1>1, <2>2, <2>3 DEF OneGood, S!GoodAnswer
<1> QED BY <1>1, PagesFacts DEF OneGood, GoodsOut

LEMMA StoneIs ==
  ASSUME NEW sv, Sound(sv), NEW s \in sv.living
  PROVE  /\ s \in Sort /\ GetOut(sv, s) = StoneOut(sv, s) /\ StoneOut(sv, s) # None
         /\ StoneOut(sv, s).id = s /\ StoneOut(sv, s).name = sv.name[s]
         /\ StoneOut(sv, s).lot = S!Least(LotsOf(sv, s)) /\ LotsOf(sv, s) \subseteq S!Block
<1>1. s \in Sort /\ sv.name[s] \in Name
  BY DEF Sound, Kind
<1>2. LotsOf(sv, s) \subseteq S!Block
  BY DEF LotsOf
<1>3. S!Least(LotsOf(sv, s)) \in S!Block \cup {None}
  BY <1>2, LeastFound, PagesFacts
<1>4. StoneOut(sv, s) \in S!StoneAnswer
  BY <1>1, <1>3 DEF StoneOut, S!StoneAnswer
<1> QED BY <1>1, <1>2, <1>4, PagesFacts DEF StoneOut, GetOut

(* What a page of that address shows is served.                            *)
There(sv, at, id) ==
  \/ at \in {"stone", "blocks", "made"} /\ id \in sv.living
  \/ at = "lot" /\ id \in S!Block /\ sv.lots[id] # None
  \/ at = "good" /\ id \in S!Good /\ sv.goods[id] # None

BlocksOf(sv, s) == S!BlockLot(StoneOut(sv, s), LotsOut(sv))

(* What link k has promised is found at an address.                        *)
Keeps(sv, k, at, id) ==
  /\ There(sv, at, id)
  /\ k.kind = "blocks" => \E s \in sv.living :
       /\ k.of.id = s /\ k.of.name = sv.name[s]
       /\ S!HasBlocks(StoneOut(sv, s), LotsOut(sv))
       /\ (at = "blocks" /\ id = s) \/ (at = "lot" /\ id = BlocksOf(sv, s))
  /\ k.kind \in {"slabs", "made"} =>
       \/ at = "good" /\ k.of.name \in OneGood(sv, id).names
       \/ at = "made" /\ S!MadeGoods(k.of, GoodsOut(sv)) # {}

(* The lot of the blocks of a stone is there, and of that name.            *)
LEMMA BlockLotIs ==
  ASSUME NEW sv, Sound(sv), NEW s \in sv.living, BlocksOf(sv, s) # None
  PROVE  /\ BlocksOf(sv, s) \in S!Block /\ sv.lots[BlocksOf(sv, s)] # None
         /\ sv.name[sv.lots[BlocksOf(sv, s)].stone] = sv.name[s]
<1> DEFINE m == StoneOut(sv, s)
           lots == LotsOut(sv)
           found == {l \in S!Block : lots[l] # None /\
                       (lots[l].stone = m.id \/ m.lot = l \/ lots[l].name = m.name)}
<1>1. BlocksOf(sv, s) = S!Least(found)
  BY DEF BlocksOf, S!BlockLot
<1>2. found \subseteq Nat
  BY PagesFacts
<1>3. m.id = s /\ m.name = sv.name[s] /\ m.lot = S!Least(LotsOf(sv, s)) /\ LotsOf(sv, s) \subseteq Nat
  BY StoneIs, PagesFacts
<1> HIDE DEF m
<1>4. ASSUME NEW l \in found
      PROVE  sv.lots[l] # None /\ sv.name[sv.lots[l].stone] = sv.name[s]
  <2>1. l \in S!Block /\ lots[l] # None /\ (lots[l].stone = s \/ m.lot = l \/ lots[l].name = sv.name[s])
    BY <1>3
  <2>2. sv.lots[l] # None /\ lots[l].stone = sv.lots[l].stone /\ lots[l].name = sv.name[sv.lots[l].stone]
    BY <2>1, LotIs
  <2>3. CASE m.lot = l
    <3>1. S!Least(LotsOf(sv, s)) = l /\ l # None
      BY <1>3, <2>1, <2>3, PagesFacts
    <3>2. l \in LotsOf(sv, s)
      BY <1>3, <3>1, LeastFound
    <3> QED BY <2>2, <3>2 DEF LotsOf
  <2> QED BY <2>1, <2>2, <2>3
<1> HIDE DEF found
<1>5. BlocksOf(sv, s) \in found
  BY <1>1, <1>2, LeastFound
<1>6. found \subseteq S!Block
  BY DEF found
<1> QED BY <1>4, <1>5, <1>6

LEMMA OfIs ==
  ASSUME NEW sv, Sound(sv), NEW m, NEW c, NEW g \in S!Of(m, GoodsOut(sv), c)
  PROVE  /\ g \in S!Good /\ sv.goods[g] # None /\ sv.goods[g].category = c
         /\ m.name \in OneGood(sv, g).names
<1>1. g \in S!Good /\ GoodsOut(sv)[g] # None /\ GoodsOut(sv)[g].category = c
      /\ m.name \in GoodsOut(sv)[g].names
  BY DEF S!Of
<1> QED BY <1>1, GoodIs

(* What stands under a stone keeps its word.                               *)
LEMMA LinksKeep ==
  ASSUME NEW sv, Sound(sv), NEW s \in sv.living,
         NEW k \in S!Links(StoneOut(sv, s), LotsOut(sv), GoodsOut(sv))
  PROVE  Keeps(sv, [kind |-> k.kind, of |-> k.of], k.at, k.id)
<1> DEFINE m == StoneOut(sv, s)
           goods == GoodsOut(sv)
           made == S!MadeGoods(m, goods)
           of == [id |-> m.id, name |-> m.name]
<1>1. m # None /\ m.id = s /\ m.name = sv.name[s]
  BY StoneIs
<1>2. S!MadeGoods(of, goods) = made
  BY DEF S!MadeGoods, S!Of
<1>3. \A x, y, z : S!To(x, y, z, m) = [kind |-> x, at |-> y, id |-> z, of |-> of]
  BY <1>1 DEF S!To
<1>4. \/ k = S!To("blocks", "blocks", m.id, m) /\ S!HasBlocks(m, LotsOut(sv))
      \/ \E g : k = S!To("slabs", "good", g, m) /\ g = S!CategoryGood(m, goods, "slabs") /\ g # None
      \/ \E g : k = S!To("made", "good", g, m) /\ g \in made
      \/ k = S!To("made", "made", m.id, m) /\ S!Cardinality(made) > 1
  <2> HIDE DEF m, goods
  <2>1. \/ k \in {x \in {S!To("blocks", "blocks", m.id, m)} : S!HasBlocks(m, LotsOut(sv))}
        \/ k \in {S!To("slabs", "good", g, m) : g \in {S!CategoryGood(m, goods, "slabs")} \ {None}}
        \/ k \in {S!To("made", "good", g, m) : g \in {g \in made : made = {g}}}
        \/ k \in {x \in {S!To("made", "made", m.id, m)} : S!Cardinality(made) > 1}
    <3>1. k \in S!Links(m, LotsOut(sv), goods)
      BY DEF m, goods
    <3> QED BY <3>1 DEF S!Links
  <2> HIDE DEF made
  <2>2. {g \in made : made = {g}} \subseteq made
    OBVIOUS
  <2> QED BY <2>1, <2>2
<1>5. CASE k = S!To("blocks", "blocks", m.id, m) /\ S!HasBlocks(m, LotsOut(sv))
  <2>1. k.kind = "blocks" /\ k.at = "blocks" /\ k.id = s /\ k.of = of
    BY <1>1, <1>3, <1>5
  <2>2. of.id = s /\ of.name = sv.name[s]
    BY <1>1
  <2> HIDE DEF of
  <2> QED BY <1>5, <2>1, <2>2 DEF Keeps, There
<1>6. ASSUME NEW g, g \in S!Of(m, goods, "slabs") \cup made, NEW x \in {"slabs", "made"},
             k = S!To(x, "good", g, m)
      PROVE  Keeps(sv, [kind |-> k.kind, of |-> k.of], k.at, k.id)
  <2>1. k.kind = x /\ k.at = "good" /\ k.id = g /\ k.of = of
    BY <1>3, <1>6
  <2>2. g \in S!Good /\ sv.goods[g] # None /\ m.name \in OneGood(sv, g).names
    BY <1>6, OfIs DEF S!MadeGoods
  <2>3. of.name = m.name
    OBVIOUS
  <2> HIDE DEF of, m
  <2> QED BY <2>1, <2>2, <2>3 DEF Keeps, There
<1>7. ASSUME NEW g, g = S!CategoryGood(m, goods, "slabs"), g # None PROVE g \in S!Of(m, goods, "slabs")
  <2> DEFINE all == S!Of(m, goods, "slabs")
             first == {f \in all : goods[f].name = m.name}
  <2>1. g = IF first # {} THEN S!Least(first) ELSE S!Least(all)
    BY <1>7 DEF S!CategoryGood
  <2>2. all \subseteq S!Good
    BY DEF S!Of
  <2>3. first \subseteq all /\ all \subseteq Nat /\ first \subseteq Nat
    BY <2>2, PagesFacts
  <2> HIDE DEF all, first
  <2>4. g \in all
    BY <1>7, <2>1, <2>3, LeastFound
  <2> QED BY <2>4 DEF all
<1>8. CASE k = S!To("made", "made", m.id, m) /\ S!Cardinality(made) > 1
  <2>1. k.kind = "made" /\ k.at = "made" /\ k.id = s /\ k.of = of
    BY <1>1, <1>3, <1>8
  <2>2. made # {}
    BY <1>8, SameCount, FS_EmptySet
  <2> HIDE DEF of
  <2> QED BY <1>2, <2>1, <2>2 DEF Keeps, There
<1> HIDE DEF m, of, made, goods
<1> QED BY <1>4, <1>5, <1>6, <1>7, <1>8

RowAsk(at) == IF at \in {"stone", "blocks", "made"} THEN "stone" ELSE at

(* The page and its answers; of a stone is asked only when its lot is there. *)
PageShape(p) ==
  /\ p = [at |-> p.at, id |-> p.id, state |-> p.state, wants |-> p.wants, got |-> p.got]
  /\ p.at \in {"index", "stone", "blocks", "made", "lot", "good"}
  /\ p.wants \subseteq Asks /\ DOMAIN p.got \subseteq Asks
  /\ "owner" \in p.wants \cup DOMAIN p.got =>
       "lot" \in DOMAIN p.got /\ p.got["lot"] # None /\ p.wants \subseteq {"owner"}
  /\ p.at = "lot" => p.id \in S!Block
  /\ "stone" \in DOMAIN p.got /\ p.got["stone"] # None => p.got["stone"].lot \in S!Block \cup {None}

PageState(p) ==
  /\ p.state \in {"coming", "shown", "missing", "failed"}
  /\ p.state = "coming" <=> p.wants # {}
  /\ p.state = "coming" => S!Requests(p.at) \subseteq p.wants \cup DOMAIN p.got
  /\ p.state = "shown" =>
       /\ S!Requests(p.at) \subseteq DOMAIN p.got
       /\ p.at = "lot" => "owner" \in DOMAIN p.got
       /\ p.at # "index" => p.got[RowAsk(p.at)] # None

(* The answers are what is answered now.                                   *)
Current(sv, p) == \A q \in DOMAIN p.got : p.got[q] = Says(sv, p, q)

(* The link has kept its word so far.                                      *)
Kept(sv, k, p) ==
  /\ Keeps(sv, k, p.at, p.id) /\ p.state # "missing"
  /\ p.at = "blocks" /\ k.kind = "blocks" => p.state # "shown"

StonesInv ==
  /\ Sound(served) /\ PageShape(page) /\ PageState(page)
  /\ changed \in BOOLEAN /\ earlier \in BOOLEAN /\ (changed => earlier)
  /\ changes \in 0 .. Edits /\ clicks \in 0 .. Clicks
  /\ ~changed => Current(served, page)
  /\ link # None /\ ~earlier => Kept(served, link, page)

LEMMA RequestsAre == ASSUME NEW at \in {"index", "stone", "blocks", "made", "lot", "good"}
                     PROVE  /\ S!Requests(at) \subseteq Asks \ {"owner"} /\ S!Requests(at) # {}
                            /\ at # "index" => RowAsk(at) \in S!Requests(at) /\ RowAsk(at) \in {"stone", "lot", "good"}
BY DEF S!Requests, Asks, RowAsk

LEMMA AskedFine ==
  ASSUME NEW at \in {"index", "stone", "blocks", "made", "lot", "good"}, NEW id,
         at = "lot" => id \in S!Block
  PROVE  /\ PageShape(S!Asked(at, id)) /\ PageState(S!Asked(at, id))
         /\ \A sv : Current(sv, S!Asked(at, id))
         /\ S!Asked(at, id).at = at /\ S!Asked(at, id).id = id /\ S!Asked(at, id).state = "coming"
<1> DEFINE p == S!Asked(at, id)
<1>1. p = [at |-> at, id |-> id, state |-> "coming", wants |-> S!Requests(at), got |-> <<>>]
  BY DEF S!Asked
<1>2. p.at = at /\ p.id = id /\ p.state = "coming" /\ p.wants = S!Requests(at) /\ p.got = <<>>
  BY <1>1
<1>3. DOMAIN p.got = {}
  BY <1>2
<1>4. p = [at |-> p.at, id |-> p.id, state |-> p.state, wants |-> p.wants, got |-> p.got]
  BY <1>1
<1> HIDE DEF p
<1> QED BY <1>2, <1>3, <1>4, RequestsAre DEF PageShape, PageState, Current, p

LEMMA DrawnIs ==
  ASSUME NEW p, PageShape(p), p.wants = {}, p.state = "coming", S!Requests(p.at) \subseteq DOMAIN p.got
  PROVE  LET row == p.got[RowAsk(p.at)]
             l == S!BlockLot(p.got["stone"], p.got["lots"])
             d == S!Drawn(p) IN
         \/ p.at # "index" /\ row = None /\ d = [p EXCEPT !.state = "missing"]
         \/ p.at = "blocks" /\ row # None /\ l # None /\ d = S!Asked("lot", l)
         \/ p.at = "lot" /\ row # None /\ "owner" \notin DOMAIN p.got /\ d = [p EXCEPT !.wants = {"owner"}]
         \/ /\ d = [p EXCEPT !.state = "shown"]
            /\ p.at # "index" => row # None
            /\ p.at = "lot" => "owner" \in DOMAIN p.got
            /\ p.at = "blocks" => l = None
<1> DEFINE row == p.got[RowAsk(p.at)]
           l == S!BlockLot(p.got["stone"], p.got["lots"])
<1>1. S!Drawn(p) =
        CASE p.at = "index" -> [p EXCEPT !.state = "shown"]
          [] p.at # "index" /\ row = None -> [p EXCEPT !.state = "missing"]
          [] p.at = "blocks" /\ row # None /\ l # None -> S!Asked("lot", l)
          [] p.at = "lot" /\ row # None /\ "owner" \notin DOMAIN p.got -> [p EXCEPT !.wants = {"owner"}]
          [] OTHER -> [p EXCEPT !.state = "shown"]
  BY DEF S!Drawn, RowAsk
<1> HIDE DEF row, l
<1>2. p.at \in {"index", "stone", "blocks", "made", "lot", "good"}
  BY DEF PageShape
<1>3. CASE p.at = "index"
  BY <1>1, <1>3
<1>4. CASE p.at # "index" /\ row = None
  BY <1>1, <1>4 DEF row
<1>5. CASE p.at # "index" /\ row # None
  BY <1>1, <1>5 DEF row, l
<1> QED BY <1>3, <1>4, <1>5

LEMMA LotInBlock == ASSUME NEW m, NEW lots, S!BlockLot(m, lots) # None PROVE S!BlockLot(m, lots) \in S!Block
<1> DEFINE found == {l \in S!Block : lots[l] # None /\
                       (lots[l].stone = m.id \/ m.lot = l \/ lots[l].name = m.name)}
<1>1. S!BlockLot(m, lots) = S!Least(found)
  BY DEF S!BlockLot
<1>2. found \subseteq S!Block
  OBVIOUS
<1> HIDE DEF found
<1> QED BY <1>1, <1>2, LeastFound, PagesFacts

(* What is drawn is a page too, as current as what it is drawn from.       *)
LEMMA DrawnFine ==
  ASSUME NEW p, PageShape(p), p.wants = {}, p.state = "coming", S!Requests(p.at) \subseteq DOMAIN p.got
  PROVE  /\ PageShape(S!Drawn(p)) /\ PageState(S!Drawn(p))
         /\ \A sv : Current(sv, p) => Current(sv, S!Drawn(p))
<1> DEFINE row == p.got[RowAsk(p.at)]
           l == S!BlockLot(p.got["stone"], p.got["lots"])
           d == S!Drawn(p)
<1>1. \/ p.at # "index" /\ row = None /\ d = [p EXCEPT !.state = "missing"]
      \/ p.at = "blocks" /\ row # None /\ l # None /\ d = S!Asked("lot", l)
      \/ p.at = "lot" /\ row # None /\ "owner" \notin DOMAIN p.got /\ d = [p EXCEPT !.wants = {"owner"}]
      \/ /\ d = [p EXCEPT !.state = "shown"]
         /\ p.at # "index" => row # None
         /\ p.at = "lot" => "owner" \in DOMAIN p.got
  BY DrawnIs
<1> HIDE DEF row, l, d
<1>2. p = [at |-> p.at, id |-> p.id, state |-> p.state, wants |-> p.wants, got |-> p.got]
  BY DEF PageShape
<1>3. ASSUME NEW st \in {"missing", "shown"}, d = [p EXCEPT !.state = st],
             st = "shown" => (p.at # "index" => row # None) /\ (p.at = "lot" => "owner" \in DOMAIN p.got)
      PROVE  PageShape(d) /\ PageState(d) /\ \A sv : Current(sv, p) => Current(sv, d)
  <2>1. d = [at |-> p.at, id |-> p.id, state |-> st, wants |-> p.wants, got |-> p.got]
    BY <1>2, <1>3
  <2>2. d.at = p.at /\ d.id = p.id /\ d.state = st /\ d.wants = {} /\ d.got = p.got
    BY <2>1
  <2>3. d = [at |-> d.at, id |-> d.id, state |-> d.state, wants |-> d.wants, got |-> d.got]
    BY <2>1, <2>2
  <2>4. PageShape(d)
    BY <2>2, <2>3 DEF PageShape
  <2>5. PageState(d)
    BY <1>3, <2>2 DEF PageState, row
  <2>6. \A sv, q : Says(sv, d, q) = Says(sv, p, q)
    BY <2>2 DEF Says
  <2> QED BY <2>2, <2>4, <2>5, <2>6 DEF Current
<1>4. CASE l # None /\ d = S!Asked("lot", l)
  <2>1. l \in S!Block
    BY <1>4, LotInBlock DEF l
  <2> QED BY <1>4, <2>1, AskedFine DEF d
<1>5. CASE p.at = "lot" /\ row # None /\ "owner" \notin DOMAIN p.got /\ d = [p EXCEPT !.wants = {"owner"}]
  <2>1. d = [at |-> p.at, id |-> p.id, state |-> p.state, wants |-> {"owner"}, got |-> p.got]
    BY <1>2, <1>5
  <2>2. d.at = p.at /\ d.id = p.id /\ d.state = "coming" /\ d.wants = {"owner"} /\ d.got = p.got
    BY <2>1
  <2>3. d = [at |-> d.at, id |-> d.id, state |-> d.state, wants |-> d.wants, got |-> d.got]
    BY <2>1, <2>2
  <2>4. "lot" \in DOMAIN p.got /\ p.got["lot"] # None
    BY <1>5 DEF S!Requests, row, RowAsk
  <2>5. PageShape(d)
    BY <2>2, <2>3, <2>4 DEF PageShape, Asks
  <2>6. PageState(d)
    BY <2>2 DEF PageState
  <2>7. \A sv, q : Says(sv, d, q) = Says(sv, p, q)
    BY <2>2 DEF Says
  <2>8. \A sv : Current(sv, p) => Current(sv, d)
    BY <2>2, <2>7 DEF Current
  <2> QED BY <2>5, <2>6, <2>8 DEF d
<1> QED BY <1>1, <1>3, <1>4, <1>5 DEF d

(* The page with one more answer, before it is drawn.                      *)
Fuller(sv, p, r) ==
  [p EXCEPT !.wants = @ \ {r},
            !.got = [q \in DOMAIN p.got \cup {r} |-> IF q = r THEN Says(sv, p, r) ELSE p.got[q]]]

LEMMA FullerIs ==
  ASSUME NEW sv, NEW p, PageShape(p), NEW r \in Asks
  PROVE  LET f == Fuller(sv, p, r) IN
         /\ f = [at |-> f.at, id |-> f.id, state |-> f.state, wants |-> f.wants, got |-> f.got]
         /\ f.at = p.at /\ f.id = p.id /\ f.state = p.state /\ f.wants = p.wants \ {r}
         /\ DOMAIN f.got = DOMAIN p.got \cup {r}
         /\ f.got[r] = Says(sv, p, r)
         /\ \A q \in DOMAIN p.got : q # r => f.got[q] = p.got[q]
<1> DEFINE g == [q \in DOMAIN p.got \cup {r} |-> IF q = r THEN Says(sv, p, r) ELSE p.got[q]]
           f == Fuller(sv, p, r)
<1>1. /\ DOMAIN g = DOMAIN p.got \cup {r} /\ g[r] = Says(sv, p, r)
      /\ \A q \in DOMAIN p.got : q # r => g[q] = p.got[q]
  OBVIOUS
<1>2. f = [p EXCEPT !.wants = @ \ {r}, !.got = g]
  BY DEF Fuller
<1> HIDE DEF f, g
<1>3. p = [at |-> p.at, id |-> p.id, state |-> p.state, wants |-> p.wants, got |-> p.got]
  BY DEF PageShape
<1>4. f = [at |-> p.at, id |-> p.id, state |-> p.state, wants |-> p.wants \ {r}, got |-> g]
  BY <1>2, <1>3
<1>5. f.at = p.at /\ f.id = p.id /\ f.state = p.state /\ f.wants = p.wants \ {r} /\ f.got = g
  BY <1>4
<1>6. f = [at |-> f.at, id |-> f.id, state |-> f.state, wants |-> f.wants, got |-> f.got]
  BY <1>4, <1>5
<1>7. /\ DOMAIN f.got = DOMAIN p.got \cup {r} /\ f.got[r] = Says(sv, p, r)
      /\ \A q \in DOMAIN p.got : q # r => f.got[q] = p.got[q]
  BY <1>1, <1>5
<1> QED BY <1>5, <1>6, <1>7 DEF f

LEMMA FullerFine ==
  ASSUME NEW sv, Sound(sv), NEW p, PageShape(p), PageState(p), p.state = "coming", NEW r \in p.wants
  PROVE  LET f == Fuller(sv, p, r) IN
         /\ PageShape(f) /\ f.at = p.at /\ f.id = p.id /\ f.state = "coming"
         /\ f.wants = p.wants \ {r} /\ S!Requests(f.at) \subseteq f.wants \cup DOMAIN f.got
         /\ Current(sv, p) => Current(sv, f)
<1> DEFINE f == Fuller(sv, p, r)
<1>1. r \in Asks
  BY DEF PageShape
<1>2. /\ f = [at |-> f.at, id |-> f.id, state |-> f.state, wants |-> f.wants, got |-> f.got]
      /\ f.at = p.at /\ f.id = p.id /\ f.state = p.state /\ f.wants = p.wants \ {r}
      /\ DOMAIN f.got = DOMAIN p.got \cup {r}
      /\ f.got[r] = Says(sv, p, r)
      /\ \A q \in DOMAIN p.got : q # r => f.got[q] = p.got[q]
  BY <1>1, FullerIs
<1> HIDE DEF f
<1>3. S!Requests(f.at) \subseteq f.wants \cup DOMAIN f.got
  BY <1>2 DEF PageState
<1>4. ASSUME "owner" \in f.wants \cup DOMAIN f.got
      PROVE  r # "lot" /\ "lot" \in DOMAIN p.got /\ p.got["lot"] # None /\ p.wants \subseteq {"owner"}
  <2>1. "owner" \in p.wants \cup DOMAIN p.got
    BY <1>2, <1>4
  <2> QED BY <2>1 DEF PageShape
<1>5. ASSUME "stone" \in DOMAIN f.got, f.got["stone"] # None
      PROVE  f.got["stone"].lot \in S!Block \cup {None}
  <2>1. CASE r = "stone"
    <3>1. f.got["stone"] = GetOut(sv, p.id)
      BY <1>2, <2>1 DEF Says
    <3>2. p.id \in sv.living /\ f.got["stone"] = StoneOut(sv, p.id)
      BY <1>5, <3>1 DEF GetOut
    <3>3. f.got["stone"].lot = S!Least(LotsOf(sv, p.id)) /\ LotsOf(sv, p.id) \subseteq S!Block
      BY <3>2, StoneIs
    <3> QED BY <3>3, LeastFound, PagesFacts
  <2>2. CASE r # "stone"
    BY <1>2, <1>5, <2>2 DEF PageShape
  <2> QED BY <2>1, <2>2
<1>6. PageShape(f)
  <2>1. f.at \in {"index", "stone", "blocks", "made", "lot", "good"} /\ (f.at = "lot" => f.id \in S!Block)
    BY <1>2 DEF PageShape
  <2>2. f.wants \subseteq Asks /\ DOMAIN f.got \subseteq Asks
    BY <1>1, <1>2 DEF PageShape
  <2>3. "owner" \in f.wants \cup DOMAIN f.got =>
          "lot" \in DOMAIN f.got /\ f.got["lot"] # None /\ f.wants \subseteq {"owner"}
    BY <1>2, <1>4
  <2> QED BY <1>2, <1>5, <2>1, <2>2, <2>3 DEF PageShape
<1>7. ASSUME Current(sv, p), NEW q \in DOMAIN f.got PROVE f.got[q] = Says(sv, f, q)
  <2>1. f.got[q] = Says(sv, p, q)
    BY <1>2, <1>7 DEF Current
  <2>2. q \in Asks
    BY <1>6, <1>7 DEF PageShape
  <2>3. CASE q = "owner"
    <3>1. f.got["lot"] = p.got["lot"]
      BY <1>2, <1>4, <1>7, <2>3
    <3> QED BY <2>1, <2>3, <3>1 DEF Says
  <2>4. CASE q # "owner"
    <3>1. Says(sv, f, q) = Says(sv, p, q)
      BY <1>2, <2>2, <2>4 DEF Says, Asks
    <3> QED BY <2>1, <3>1
  <2> QED BY <2>3, <2>4
<1>8. Current(sv, p) => Current(sv, f)
  BY <1>7 DEF Current
<1> QED BY <1>2, <1>3, <1>6, <1>8 DEF f

(* While the catalogue stands still the page that is drawn has the row it  *)
(* is about, and leads from a stone to its lot.                            *)
LEMMA DrawnKeeps ==
  ASSUME NEW sv, Sound(sv), NEW p, PageShape(p), p.wants = {}, p.state = "coming",
         S!Requests(p.at) \subseteq DOMAIN p.got, Current(sv, p), NEW k, Keeps(sv, k, p.at, p.id)
  PROVE  Kept(sv, k, S!Drawn(p))
<1> DEFINE row == p.got[RowAsk(p.at)]
           l == S!BlockLot(p.got["stone"], p.got["lots"])
           d == S!Drawn(p)
<1> SUFFICES Kept(sv, k, d)
  OBVIOUS
<1>1. \/ p.at # "index" /\ row = None /\ d = [p EXCEPT !.state = "missing"]
      \/ p.at = "blocks" /\ row # None /\ l # None /\ d = S!Asked("lot", l)
      \/ p.at = "lot" /\ row # None /\ "owner" \notin DOMAIN p.got /\ d = [p EXCEPT !.wants = {"owner"}]
      \/ d = [p EXCEPT !.state = "shown"] /\ (p.at = "blocks" => l = None)
  BY DrawnIs
<1> HIDE DEF row, l, d
<1>2. p = [at |-> p.at, id |-> p.id, state |-> p.state, wants |-> p.wants, got |-> p.got]
  BY DEF PageShape
<1>3. There(sv, p.at, p.id)
  BY DEF Keeps
<1>4. row # None
  <2>1. p.at # "index" /\ p.at \in {"stone", "blocks", "made", "lot", "good"}
    BY <1>3 DEF There
  <2>2. row = Says(sv, p, RowAsk(p.at))
    BY <2>1, RequestsAre DEF Current, row
  <2>3. CASE p.at \in {"stone", "blocks", "made"}
    <3>1. row = GetOut(sv, p.id) /\ p.id \in sv.living
      BY <1>3, <2>2, <2>3 DEF Says, RowAsk, There
    <3> QED BY <3>1, StoneIs
  <2>4. CASE p.at = "lot"
    <3>1. row = OneLot(sv, p.id) /\ p.id \in S!Block /\ sv.lots[p.id] # None
      BY <1>3, <2>2, <2>4 DEF Says, RowAsk, There
    <3> QED BY <3>1, LotIs
  <2>5. CASE p.at = "good"
    <3>1. row = OneGood(sv, p.id) /\ p.id \in S!Good /\ sv.goods[p.id] # None
      BY <1>3, <2>2, <2>5 DEF Says, RowAsk, There
    <3> QED BY <3>1, GoodIs
  <2> QED BY <2>1, <2>3, <2>4, <2>5
<1>5. ASSUME p.at = "blocks"
      PROVE  p.id \in sv.living /\ l = BlocksOf(sv, p.id)
  <2>1. p.got["stone"] = GetOut(sv, p.id) /\ p.got["lots"] = LotsOut(sv) /\ p.id \in sv.living
    BY <1>3, <1>5 DEF S!Requests, Current, Says, There
  <2>2. p.got["stone"] = StoneOut(sv, p.id)
    BY <2>1, StoneIs
  <2> QED BY <2>1, <2>2 DEF l, BlocksOf
<1>6. ASSUME NEW st \in {"coming", "shown"}, d.at = p.at, d.id = p.id, d.state = st,
             p.at = "blocks" /\ k.kind = "blocks" => st # "shown"
      PROVE  Kept(sv, k, d)
  BY <1>6 DEF Kept
<1>7. CASE l # None /\ p.at = "blocks" /\ d = S!Asked("lot", l)
  <2>1. d.at = "lot" /\ d.id = l /\ d.state = "coming"
    BY <1>7 DEF S!Asked
  <2>2. l \in S!Block /\ sv.lots[l] # None
    BY <1>5, <1>7, BlockLotIs
  <2>3. There(sv, "lot", l)
    BY <2>2 DEF There
  <2>4. ASSUME k.kind = "blocks"
        PROVE  \E s \in sv.living :
                 /\ k.of.id = s /\ k.of.name = sv.name[s]
                 /\ S!HasBlocks(StoneOut(sv, s), LotsOut(sv))
                 /\ l = BlocksOf(sv, s)
    <3>1. PICK s \in sv.living :
            /\ k.of.id = s /\ k.of.name = sv.name[s]
            /\ S!HasBlocks(StoneOut(sv, s), LotsOut(sv))
            /\ (p.at = "blocks" /\ p.id = s) \/ (p.at = "lot" /\ p.id = BlocksOf(sv, s))
      BY <2>4 DEF Keeps
    <3>2. p.id = s
      BY <1>7, <3>1
    <3> QED BY <1>5, <1>7, <3>1, <3>2
  <2>5. k.kind \notin {"slabs", "made"}
    BY <1>7 DEF Keeps
  <2>6. Keeps(sv, k, "lot", l)
    BY <2>3, <2>4, <2>5 DEF Keeps
  <2> QED BY <2>1, <2>6 DEF Kept
<1>8. ASSUME p.at = "blocks", k.kind = "blocks" PROVE l # None
  <2>1. PICK s \in sv.living :
          /\ S!HasBlocks(StoneOut(sv, s), LotsOut(sv))
          /\ (p.at = "blocks" /\ p.id = s) \/ (p.at = "lot" /\ p.id = BlocksOf(sv, s))
    BY <1>8 DEF Keeps
  <2>2. p.id = s /\ BlocksOf(sv, s) # None
    BY <1>8, <2>1 DEF S!HasBlocks, BlocksOf
  <2> QED BY <1>5, <1>8, <2>2
<1>9. CASE d = [p EXCEPT !.wants = {"owner"}] /\ p.at = "lot"
  <2>1. d.at = p.at /\ d.id = p.id /\ d.state = "coming"
    BY <1>2, <1>9
  <2> QED BY <1>6, <1>9, <2>1
<1>10. CASE d = [p EXCEPT !.state = "shown"] /\ (p.at = "blocks" => l = None)
  <2>1. d.at = p.at /\ d.id = p.id /\ d.state = "shown"
    BY <1>2, <1>10
  <2> QED BY <1>6, <1>8, <1>10, <2>1
<1> QED BY <1>1, <1>4, <1>7, <1>9, <1>10

LEMMA AnsweredKeeps == ASSUME StonesInv, NEW r \in Asks, S!Answered(r) PROVE StonesInv'
<1> DEFINE f == Fuller(served, page, r)
<1>1. page.state = "coming" /\ r \in page.wants /\ UNCHANGED <<served, link, changed, earlier, changes, clicks>>
  BY DEF S!Answered
<1>2. page' = IF f.wants = {} THEN S!Drawn(f) ELSE f
  BY AnswerIs DEF S!Answered, Fuller
<1>3. /\ PageShape(f) /\ f.at = page.at /\ f.id = page.id /\ f.state = "coming"
      /\ S!Requests(f.at) \subseteq f.wants \cup DOMAIN f.got
      /\ Current(served, page) => Current(served, f)
  BY <1>1, FullerFine DEF StonesInv
<1> HIDE DEF f
<1>4. PageShape(page') /\ PageState(page') /\ (~changed => Current(served, page'))
  <2>1. CASE f.wants = {}
    <3>1. S!Requests(f.at) \subseteq DOMAIN f.got
      BY <1>3, <2>1
    <3> QED BY <1>2, <1>3, <2>1, <3>1, DrawnFine DEF StonesInv
  <2>2. CASE f.wants # {}
    <3>1. PageState(f)
      BY <1>3, <2>2 DEF PageState
    <3> QED BY <1>2, <1>3, <2>2, <3>1 DEF StonesInv
  <2> QED BY <2>1, <2>2
<1>5. ASSUME link # None, ~earlier PROVE Kept(served, link, page')
  <2>1. Keeps(served, link, f.at, f.id) /\ Current(served, f)
    BY <1>3, <1>5 DEF StonesInv, Kept
  <2>2. CASE f.wants = {}
    <3>1. S!Requests(f.at) \subseteq DOMAIN f.got
      BY <1>3, <2>2
    <3> QED BY <1>2, <1>3, <2>1, <2>2, <3>1, DrawnKeeps DEF StonesInv
  <2>3. CASE f.wants # {}
    BY <1>2, <1>3, <2>1, <2>3 DEF Kept
  <2> QED BY <2>2, <2>3
<1> QED BY <1>1, <1>4, <1>5 DEF StonesInv

LEMMA FailedKeeps == ASSUME StonesInv, S!Failed PROVE StonesInv'
<1>1. page = [at |-> page.at, id |-> page.id, state |-> page.state, wants |-> page.wants, got |-> page.got]
  BY DEF StonesInv, PageShape
<1>2. page' = [page EXCEPT !.state = "failed", !.wants = {}, !.got = <<>>]
      /\ UNCHANGED <<served, link, changed, earlier, changes, clicks>>
  BY DEF S!Failed
<1>3. page' = [at |-> page.at, id |-> page.id, state |-> "failed", wants |-> {}, got |-> <<>>]
  BY <1>1, <1>2
<1>4. page'.at = page.at /\ page'.id = page.id /\ page'.state = "failed" /\ page'.wants = {} /\ page'.got = <<>>
  BY <1>3
<1>5. page' = [at |-> page'.at, id |-> page'.id, state |-> page'.state, wants |-> page'.wants, got |-> page'.got]
  BY <1>3, <1>4
<1>6. DOMAIN page'.got = {}
  BY <1>4
<1>7. PageShape(page')
  BY <1>4, <1>5, <1>6 DEF PageShape, StonesInv
<1>8. PageState(page')
  BY <1>4 DEF PageState
<1>9. Current(served, page')
  BY <1>6 DEF Current
<1>10. link # None /\ ~earlier => Kept(served, link, page')
  BY <1>4 DEF StonesInv, Kept
<1> QED BY <1>2, <1>7, <1>8, <1>9, <1>10 DEF StonesInv

LEMMA ToIs ==
  ASSUME NEW kind, NEW at, NEW id, NEW m
  PROVE  /\ S!To(kind, at, id, m).kind = kind /\ S!To(kind, at, id, m).at = at
         /\ S!To(kind, at, id, m).id = id
BY DEF S!To

LEMMA LinkPlaces ==
  ASSUME NEW m, NEW lots, NEW goods, NEW k \in S!Links(m, lots, goods)
  PROVE  k.at \in {"blocks", "good", "made"}
<1> DEFINE made == S!MadeGoods(m, goods)
           one == {g \in made : made = {g}}
<1>1. \/ k \in {x \in {S!To("blocks", "blocks", m.id, m)} : S!HasBlocks(m, lots)}
      \/ k \in {S!To("slabs", "good", g, m) : g \in {S!CategoryGood(m, goods, "slabs")} \ {None}}
      \/ k \in {S!To("made", "good", g, m) : g \in one}
      \/ k \in {x \in {S!To("made", "made", m.id, m)} : S!Cardinality(made) > 1}
  BY DEF S!Links
<1> HIDE DEF one, made
<1>2. \/ k = S!To("blocks", "blocks", m.id, m) \/ k = S!To("made", "made", m.id, m)
      \/ \E g : k = S!To("slabs", "good", g, m) \/ k = S!To("made", "good", g, m)
  BY <1>1
<1> QED BY <1>2, ToIs

LEMMA OfferedIs ==
  ASSUME NEW k \in S!Offered, page.at \in {"index", "stone", "blocks", "made", "lot", "good"}
  PROVE  \/ page.at = "index" /\ \E m \in page.got["stones"] :
              \/ k \in S!Links(m, page.got["lots"], page.got["goods"])
              \/ k = S!To("card", "stone", m.id, m)
         \/ /\ page.at = "stone"
            /\ \/ k \in S!Links(page.got["stone"], page.got["lots"], page.got["goods"])
               \/ page.got["stone"].lot # None /\ k = S!To("lot", "lot", page.got["stone"].lot, page.got["stone"])
         \/ page.at = "made" /\ \E g \in S!MadeGoods(page.got["stone"], page.got["goods"]) :
              k = S!To("card", "good", g, page.got["stone"])
         \/ page.at = "lot" /\ page.got["owner"] # None
              /\ k = S!To("card", "stone", page.got["owner"].id, page.got["owner"])
         \/ page.at = "lot" /\ \E l \in S!Block : page.got["lots"][l] # None /\ k = S!To("card", "lot", l, None)
         \/ page.at = "good" /\ \E g \in S!Good : page.got["goods"][g] # None /\ k = S!To("card", "good", g, None)
<1>1. S!OnIndex \subseteq page.got["stones"]
  BY DEF S!OnIndex, S!Filtered
<1>2. CASE page.at = "index"
  <2>1. k \in UNION {S!Links(m, page.got["lots"], page.got["goods"])
                     \cup {S!To("card", "stone", m.id, m)} : m \in S!OnIndex}
    BY <1>2 DEF S!Offered
  <2> QED BY <1>1, <1>2, <2>1
<1>3. CASE page.at = "stone"
  <2>1. k \in S!Links(page.got["stone"], page.got["lots"], page.got["goods"])
              \cup {S!To("lot", "lot", l, page.got["stone"]) : l \in {page.got["stone"].lot} \ {None}}
    BY <1>3 DEF S!Offered
  <2> QED BY <1>3, <2>1
<1>4. CASE page.at = "blocks"
  BY <1>4 DEF S!Offered
<1>5. CASE page.at = "made"
  <2>1. k \in {S!To("card", "good", g, page.got["stone"]) :
                 g \in S!MadeGoods(page.got["stone"], page.got["goods"])}
    BY <1>5 DEF S!Offered
  <2> QED BY <1>5, <2>1
<1>6. CASE page.at = "lot"
  <2>1. k \in {S!To("card", "stone", m.id, m) : m \in {page.got["owner"]} \ {None}}
              \cup {S!To("card", "lot", l, None) :
                      l \in {l \in S!Block \ {page.id} : page.got["lots"][l] # None}}
    BY <1>6 DEF S!Offered
  <2> QED BY <1>6, <2>1
<1>7. CASE page.at = "good"
  <2>1. k \in {S!To("card", "good", g, None) :
                 g \in {g \in S!Good \ {page.id} : /\ page.got["goods"][g] # None
                                                   /\ page.got["goods"][g].category = page.got["good"].category}}
    BY <1>7 DEF S!Offered
  <2> QED BY <1>7, <2>1
<1> QED BY <1>2, <1>3, <1>4, <1>5, <1>6, <1>7

LEMMA OfferedPlaces ==
  ASSUME StonesInv, page.state = "shown", NEW k \in S!Offered
  PROVE  k.at \in {"stone", "blocks", "made", "lot", "good"} /\ (k.at = "lot" => k.id \in S!Block)
<1>1. page.at \in {"index", "stone", "blocks", "made", "lot", "good"}
  BY DEF StonesInv, PageShape
<1>2. ASSUME page.at = "stone", page.got["stone"].lot # None
      PROVE  page.got["stone"].lot \in S!Block
  <2>1. "stone" \in DOMAIN page.got /\ page.got["stone"] # None
    BY <1>2 DEF StonesInv, PageState, S!Requests, RowAsk
  <2> QED BY <1>2, <2>1 DEF StonesInv, PageShape
<1> QED BY <1>1, <1>2, OfferedIs, LinkPlaces, ToIs

LEMMA CardKeeps ==
  ASSUME NEW sv, NEW k, k.kind \in {"card", "lot"}, There(sv, k.at, k.id)
  PROVE  Keeps(sv, [kind |-> k.kind, of |-> k.of], k.at, k.id)
BY DEF Keeps

LEMMA OfferedKeeps ==
  ASSUME StonesInv, page.state = "shown", ~changed, NEW k \in S!Offered
  PROVE  Keeps(served, [kind |-> k.kind, of |-> k.of], k.at, k.id)
<1>1. /\ Sound(served) /\ Current(served, page) /\ S!Requests(page.at) \subseteq DOMAIN page.got
      /\ page.at \in {"index", "stone", "blocks", "made", "lot", "good"}
      /\ page.at = "lot" => "owner" \in DOMAIN page.got
      /\ page.at # "index" => page.got[RowAsk(page.at)] # None
  BY DEF StonesInv, PageShape, PageState
<1>2. \A q \in S!Requests(page.at) : page.got[q] = Says(served, page, q)
  BY <1>1 DEF Current
<1>3. CASE page.at = "index"
  <2>1. /\ page.got["stones"] = StonesOut(served) /\ page.got["lots"] = LotsOut(served)
        /\ page.got["goods"] = GoodsOut(served)
    BY <1>2, <1>3 DEF S!Requests, Says
  <2>2. PICK m \in page.got["stones"] :
          k \in S!Links(m, LotsOut(served), GoodsOut(served)) \/ k = S!To("card", "stone", m.id, m)
    BY <1>1, <1>3, <2>1, OfferedIs
  <2>3. PICK s \in served.living : m = StoneOut(served, s)
    BY <2>1 DEF StonesOut
  <2>4. CASE k \in S!Links(m, LotsOut(served), GoodsOut(served))
    BY <1>1, <2>3, <2>4, LinksKeep
  <2>5. CASE k = S!To("card", "stone", m.id, m)
    <3>1. k.kind = "card" /\ k.at = "stone" /\ k.id = s
      BY <1>1, <2>3, <2>5, ToIs, StoneIs
    <3>2. There(served, k.at, k.id)
      BY <3>1 DEF There
    <3> QED BY <3>1, <3>2, CardKeeps
  <2> QED BY <2>2, <2>4, <2>5
<1>4. ASSUME page.at \in {"stone", "made"}
      PROVE  /\ page.id \in served.living /\ page.got["stone"] = StoneOut(served, page.id)
             /\ page.got["goods"] = GoodsOut(served)
             /\ page.at = "stone" => page.got["lots"] = LotsOut(served)
  <2>1. page.got["stone"] = GetOut(served, page.id) /\ page.got["goods"] = GoodsOut(served)
        /\ (page.at = "stone" => page.got["lots"] = LotsOut(served))
    BY <1>2, <1>4 DEF S!Requests, Says
  <2>2. page.got["stone"] # None
    BY <1>1, <1>4 DEF RowAsk
  <2> QED BY <2>1, <2>2 DEF GetOut
<1>5. CASE page.at = "stone"
  <2> DEFINE m == StoneOut(served, page.id)
  <2>1. k \in S!Links(m, LotsOut(served), GoodsOut(served)) \/ (m.lot # None /\ k = S!To("lot", "lot", m.lot, m))
    BY <1>1, <1>4, <1>5, OfferedIs
  <2>2. CASE k \in S!Links(m, LotsOut(served), GoodsOut(served))
    BY <1>1, <1>4, <1>5, <2>2, LinksKeep
  <2>3. CASE m.lot # None /\ k = S!To("lot", "lot", m.lot, m)
    <3>1. k.kind = "lot" /\ k.at = "lot" /\ k.id = m.lot
      BY <2>3, ToIs
    <3>2. m.lot = S!Least(LotsOf(served, page.id)) /\ LotsOf(served, page.id) \subseteq S!Block
      BY <1>1, <1>4, <1>5, StoneIs
    <3>3. m.lot \in LotsOf(served, page.id)
      BY <2>3, <3>2, LeastFound, PagesFacts
    <3>4. There(served, k.at, k.id)
      BY <3>1, <3>3 DEF There, LotsOf
    <3> QED BY <3>1, <3>4, CardKeeps
  <2> QED BY <2>1, <2>2, <2>3
<1>6. CASE page.at = "made"
  <2> DEFINE m == StoneOut(served, page.id)
  <2>1. PICK g \in S!MadeGoods(m, GoodsOut(served)) : k = S!To("card", "good", g, m)
    BY <1>1, <1>4, <1>6, OfferedIs
  <2>2. k.kind = "card" /\ k.at = "good" /\ k.id = g
    BY <2>1, ToIs
  <2>3. g \in S!Good /\ served.goods[g] # None
    BY <1>1, OfIs DEF S!MadeGoods
  <2>4. There(served, k.at, k.id)
    BY <2>2, <2>3 DEF There
  <2> QED BY <2>2, <2>4, CardKeeps
<1>7. CASE page.at = "lot"
  <2>1. page.got["lots"] = LotsOut(served)
    BY <1>2, <1>7 DEF S!Requests, Says
  <2>2. page.got["owner"] = GetOut(served, page.got["lot"].stone)
    BY <1>1, <1>7 DEF Current, Says
  <2>3. CASE page.got["owner"] # None /\ k = S!To("card", "stone", page.got["owner"].id, page.got["owner"])
    <3> DEFINE s == page.got["lot"].stone
    <3>1. s \in served.living /\ page.got["owner"] = StoneOut(served, s)
      BY <2>2, <2>3 DEF GetOut
    <3>2. page.got["owner"].id = s
      BY <1>1, <3>1, StoneIs
    <3>3. k.kind = "card" /\ k.at = "stone" /\ k.id = s
      BY <2>3, <3>2, ToIs
    <3>4. There(served, k.at, k.id)
      BY <3>1, <3>3 DEF There
    <3> QED BY <3>3, <3>4, CardKeeps
  <2>4. ASSUME NEW l \in S!Block, page.got["lots"][l] # None, k = S!To("card", "lot", l, None)
        PROVE  Keeps(served, [kind |-> k.kind, of |-> k.of], k.at, k.id)
    <3>1. served.lots[l] # None
      BY <1>1, <2>1, <2>4, LotIs
    <3>2. k.kind = "card" /\ k.at = "lot" /\ k.id = l
      BY <2>4, ToIs
    <3>3. There(served, k.at, k.id)
      BY <3>1, <3>2 DEF There
    <3> QED BY <3>2, <3>3, CardKeeps
  <2> QED BY <1>1, <1>7, <2>3, <2>4, OfferedIs
<1>8. CASE page.at = "good"
  <2>1. page.got["goods"] = GoodsOut(served)
    BY <1>2, <1>8 DEF S!Requests, Says
  <2>2. PICK g \in S!Good : page.got["goods"][g] # None /\ k = S!To("card", "good", g, None)
    BY <1>1, <1>8, OfferedIs
  <2>3. served.goods[g] # None
    BY <1>1, <2>1, <2>2, GoodIs
  <2>4. k.kind = "card" /\ k.at = "good" /\ k.id = g
    BY <2>2, ToIs
  <2>5. There(served, k.at, k.id)
    BY <2>3, <2>4 DEF There
  <2> QED BY <2>4, <2>5, CardKeeps
<1>9. page.at # "blocks"
  BY <1>1, OfferedIs
<1> QED BY <1>1, <1>3, <1>5, <1>6, <1>7, <1>8, <1>9

LEMMA FollowKeeps == ASSUME StonesInv, NEW k \in S!Offered, page.state = "shown", S!Follow(k) PROVE StonesInv'
<1>1. /\ page' = S!Asked(k.at, k.id) /\ changed' = FALSE /\ served' = served
      /\ link' = [kind |-> k.kind, of |-> k.of] /\ earlier' = changed
      /\ clicks < Clicks /\ clicks' = clicks + 1 /\ changes' = changes
  BY DEF S!Follow, S!Goto
<1>2. k.at \in {"stone", "blocks", "made", "lot", "good"} /\ (k.at = "lot" => k.id \in S!Block)
  BY OfferedPlaces
<1>3. /\ PageShape(page') /\ PageState(page') /\ Current(served, page')
      /\ page'.at = k.at /\ page'.id = k.id /\ page'.state = "coming"
  BY <1>1, <1>2, AskedFine
<1>4. ASSUME ~earlier' PROVE Kept(served, link', page')
  <2>1. Keeps(served, link', k.at, k.id)
    BY <1>1, <1>4, OfferedKeeps
  <2> QED BY <1>3, <2>1 DEF Kept
<1>5. clicks' \in 0 .. Clicks
  BY <1>1, PagesAssumption DEF StonesInv, S!StonesAssumption
<1> QED BY <1>1, <1>3, <1>4, <1>5 DEF StonesInv

LEMMA ReturnKeeps == ASSUME StonesInv, S!Return PROVE StonesInv'
<1>1. /\ page' = S!Asked("index", None) /\ changed' = FALSE /\ served' = served
      /\ link' = None /\ earlier' = FALSE
      /\ clicks < Clicks /\ clicks' = clicks + 1 /\ changes' = changes
  BY DEF S!Return, S!Goto
<1>2. PageShape(page') /\ PageState(page') /\ Current(served, page')
  BY <1>1, AskedFine
<1>3. clicks' \in 0 .. Clicks
  BY <1>1, PagesAssumption DEF StonesInv, S!StonesAssumption
<1> QED BY <1>1, <1>2, <1>3 DEF StonesInv

(* The editors never leave a row without its stones.                       *)
LEMMA EditSound ==
  ASSUME Sound(served), NEW sv,
         \/ \E s \in Sort : s \in served.living /\ ~S!Uses(s) /\ sv = [served EXCEPT !.living = @ \ {s}]
         \/ \E s \in Sort, n \in Name : s \in served.living /\ sv = [served EXCEPT !.name[s] = n]
         \/ \E l \in S!Block, row \in S!LotRow \cup {None} :
              (row # None => row.stone \in served.living) /\ sv = [served EXCEPT !.lots[l] = row]
         \/ \E g \in S!Good, row \in S!GoodRow \cup {None} :
              (row # None => row.stones \subseteq served.living) /\ sv = [served EXCEPT !.goods[g] = row]
  PROVE  Sound(sv)
<1> DEFINE living == served.living
           name == served.name
           lots == served.lots
           goods == served.goods
<1>1. /\ served = [living |-> living, name |-> name, lots |-> lots, goods |-> goods]
      /\ living \subseteq Sort /\ name \in [Sort -> Name]
      /\ lots \in [S!Block -> S!LotRow \cup {None}] /\ goods \in [S!Good -> S!GoodRow \cup {None}]
  BY DEF Sound, Kind
<1>2. /\ \A l \in S!Block : lots[l] # None => lots[l].stone \in living
      /\ \A g \in S!Good : goods[g] # None => goods[g].stones \subseteq living
  BY DEF Sound
<1>3. \A s : S!Uses(s) <=> \/ \E l \in S!Block : lots[l] # None /\ lots[l].stone = s
                           \/ \E g \in S!Good : goods[g] # None /\ s \in goods[g].stones
  BY DEF S!Uses
<1> HIDE DEF living, name, lots, goods
<1> DEFINE Made(li, na, lo, go) == [living |-> li, name |-> na, lots |-> lo, goods |-> go]
<1>4. ASSUME NEW li, li \subseteq Sort, NEW na \in [Sort -> Name],
             NEW lo \in [S!Block -> S!LotRow \cup {None}], NEW go \in [S!Good -> S!GoodRow \cup {None}],
             \A l \in S!Block : lo[l] # None => lo[l].stone \in li,
             \A g \in S!Good : go[g] # None => go[g].stones \subseteq li,
             sv = Made(li, na, lo, go)
      PROVE  Sound(sv)
  BY <1>4 DEF Sound, Kind
<1>5. ASSUME NEW s \in Sort, ~S!Uses(s), sv = [served EXCEPT !.living = @ \ {s}] PROVE Sound(sv)
  <2>1. sv = Made(living \ {s}, name, lots, goods)
    BY <1>1, <1>5
  <2>2. \A l \in S!Block : lots[l] # None => lots[l].stone \in living \ {s}
    BY <1>2, <1>3, <1>5
  <2>3. \A g \in S!Good : goods[g] # None => goods[g].stones \subseteq living \ {s}
    BY <1>2, <1>3, <1>5
  <2>4. living \ {s} \subseteq Sort
    BY <1>1
  <2> HIDE DEF Made
  <2> QED BY <1>1, <1>4, <2>1, <2>2, <2>3, <2>4
<1>6. ASSUME NEW s \in Sort, NEW n \in Name, sv = [served EXCEPT !.name[s] = n] PROVE Sound(sv)
  <2>1. sv = Made(living, [name EXCEPT ![s] = n], lots, goods) /\ [name EXCEPT ![s] = n] \in [Sort -> Name]
    BY <1>1, <1>6
  <2> HIDE DEF Made
  <2> QED BY <1>1, <1>2, <1>4, <2>1
<1>7. ASSUME NEW l \in S!Block, NEW row \in S!LotRow \cup {None}, row # None => row.stone \in living,
             sv = [served EXCEPT !.lots[l] = row]
      PROVE  Sound(sv)
  <2> DEFINE new == [lots EXCEPT ![l] = row]
  <2>1. sv = Made(living, name, new, goods)
    BY <1>1, <1>7
  <2>2. new \in [S!Block -> S!LotRow \cup {None}] /\ \A m \in S!Block : new[m] = IF m = l THEN row ELSE lots[m]
    BY <1>1
  <2> HIDE DEF Made, new
  <2>3. \A m \in S!Block : new[m] # None => new[m].stone \in living
    BY <1>2, <1>7, <2>2
  <2> QED BY <1>1, <1>2, <1>4, <2>1, <2>2, <2>3
<1>8. ASSUME NEW g \in S!Good, NEW row \in S!GoodRow \cup {None}, row # None => row.stones \subseteq living,
             sv = [served EXCEPT !.goods[g] = row]
      PROVE  Sound(sv)
  <2> DEFINE new == [goods EXCEPT ![g] = row]
  <2>1. sv = Made(living, name, lots, new)
    BY <1>1, <1>8
  <2>2. new \in [S!Good -> S!GoodRow \cup {None}] /\ \A m \in S!Good : new[m] = IF m = g THEN row ELSE goods[m]
    BY <1>1
  <2> HIDE DEF Made, new
  <2>3. \A m \in S!Good : new[m] # None => new[m].stones \subseteq living
    BY <1>2, <1>8, <2>2
  <2> QED BY <1>1, <1>2, <1>4, <2>1, <2>2, <2>3
<1> QED BY <1>5, <1>6, <1>7, <1>8 DEF living

LEMMA ChangeKeeps == ASSUME StonesInv, S!Change PROVE StonesInv'
<1>1. Sound(served)
  BY DEF StonesInv
<1>2. Sound(served')
  BY <1>1, EditSound DEF S!Change, S!DeleteStone, S!SetName, S!SetLot, S!SetGood
<1>3. /\ changed' = TRUE /\ earlier' = TRUE /\ changes < Edits /\ changes' = changes + 1
      /\ page' = page /\ link' = link /\ clicks' = clicks
  BY DEF S!Change
<1>4. changes' \in 0 .. Edits
  BY <1>3, PagesAssumption DEF StonesInv, S!StonesAssumption
<1> QED BY <1>2, <1>3, <1>4 DEF StonesInv

LEMMA StonesStep == ASSUME StonesInv, [S!Next]_showing PROVE StonesInv'
<1>1. CASE UNCHANGED showing
  BY <1>1 DEF StonesInv, showing
<1>2. ASSUME NEW r \in Asks, S!Answered(r) PROVE StonesInv'
  BY <1>2, AnsweredKeeps
<1>3. ASSUME page.state = "shown", NEW k \in S!Offered, S!Follow(k) PROVE StonesInv'
  BY <1>3, FollowKeeps
<1> QED BY <1>1, <1>2, <1>3, FailedKeeps, ReturnKeeps, ChangeKeeps DEF S!Next, Asks

LEMMA StonesStart == S!Init => StonesInv
<1> SUFFICES ASSUME S!Init PROVE StonesInv
  OBVIOUS
<1>1. /\ served \in [living : {Sort}, name : [Sort -> Name],
                     lots : [S!Block -> S!LotRow \cup {None}], goods : [S!Good -> S!GoodRow \cup {None}]]
      /\ link = None /\ changed = FALSE /\ earlier = FALSE /\ changes = 0 /\ clicks = 0
  BY DEF S!Init
<1>2. /\ served \in Kind /\ served.living = Sort
      /\ served.lots \in [S!Block -> S!LotRow \cup {None}] /\ served.goods \in [S!Good -> S!GoodRow \cup {None}]
  BY <1>1 DEF Kind
<1>3. ASSUME NEW l \in S!Block, served.lots[l] # None PROVE served.lots[l].stone \in Sort
  BY <1>2, <1>3 DEF S!LotRow
<1>4. ASSUME NEW g \in S!Good, served.goods[g] # None PROVE served.goods[g].stones \subseteq Sort
  BY <1>2, <1>4 DEF S!GoodRow
<1>5. Sound(served)
  BY <1>2, <1>3, <1>4 DEF Sound
<1>6. \E at \in {"index", "stone", "blocks", "made", "lot", "good"} : \E id :
        page = S!Asked(at, id) /\ (at = "lot" => id \in S!Block)
  BY DEF S!Init
<1>7. PageShape(page) /\ PageState(page) /\ Current(served, page)
  BY <1>6, AskedFine
<1>8. Edits \in Nat /\ Clicks \in Nat
  BY PagesAssumption DEF S!StonesAssumption
<1>9. changes \in 0 .. Edits /\ clicks \in 0 .. Clicks
  BY <1>1, <1>8
<1>10. changed \in BOOLEAN /\ earlier \in BOOLEAN /\ (changed => earlier) /\ ~(link # None /\ ~earlier)
  BY <1>1
<1> QED BY <1>5, <1>7, <1>9, <1>10 DEF StonesInv

LEMMA StonesType == ASSUME StonesInv PROVE S!TypeOK
<1>1. served \in Kind
  BY DEF StonesInv, Sound
<1> QED BY <1>1 DEF StonesInv, PageState, S!TypeOK, Kind

LEMMA StonesShow == ASSUME StonesInv PROVE S!StoneShown
<1> SUFFICES ASSUME page.at = "lot", page.state = "shown", ~changed PROVE page.got["owner"] # None
  BY DEF S!StoneShown
<1>1. /\ Sound(served) /\ Current(served, page) /\ page.id \in S!Block
      /\ "owner" \in DOMAIN page.got /\ "lot" \in DOMAIN page.got /\ page.got["lot"] # None
  BY DEF StonesInv, PageShape, PageState
<1>2. page.got["lot"] = OneLot(served, page.id) /\ page.got["owner"] = GetOut(served, page.got["lot"].stone)
  BY <1>1 DEF Current, Says
<1>3. served.lots[page.id] # None /\ page.got["lot"].stone = served.lots[page.id].stone
  BY <1>1, <1>2, LotIs
<1>4. page.got["lot"].stone \in served.living
  BY <1>1, <1>3 DEF Sound
<1> QED BY <1>1, <1>2, <1>4, StoneIs

LEMMA LinksStand == ASSUME StonesInv PROVE S!LinksHold
<1> SUFFICES ASSUME link # None, ~earlier
             PROVE  /\ page.state # "missing"
                    /\ (page.state = "shown" /\ link.kind = "blocks") =>
                         /\ page.at = "lot" /\ page.got["lot"].stocked /\ page.got["lot"].name = link.of.name
                         /\ S!OneName => page.got["lot"].stone = link.of.id
                    /\ (page.state = "shown" /\ link.kind \in {"slabs", "made"}) =>
                         IF page.at = "made" THEN S!MadeGoods(link.of, page.got["goods"]) # {}
                         ELSE page.at = "good" /\ link.of.name \in page.got["good"].names
  BY DEF S!LinksHold
<1>1. Sound(served) /\ Current(served, page) /\ Kept(served, link, page)
  BY DEF StonesInv
<1>2. Keeps(served, link, page.at, page.id) /\ page.state # "missing"
  BY <1>1 DEF Kept
<1>3. page.state = "shown" => S!Requests(page.at) \subseteq DOMAIN page.got
  BY DEF StonesInv, PageState
<1>4. ASSUME page.state = "shown", link.kind = "blocks"
      PROVE  /\ page.at = "lot" /\ page.got["lot"].stocked /\ page.got["lot"].name = link.of.name
             /\ S!OneName => page.got["lot"].stone = link.of.id
  <2>1. PICK s \in served.living :
          /\ link.of.id = s /\ link.of.name = served.name[s]
          /\ S!HasBlocks(StoneOut(served, s), LotsOut(served))
          /\ (page.at = "blocks" /\ page.id = s) \/ (page.at = "lot" /\ page.id = BlocksOf(served, s))
    BY <1>2, <1>4 DEF Keeps
  <2>2. page.at = "lot" /\ page.id = BlocksOf(served, s)
    BY <1>1, <1>4, <2>1 DEF Kept
  <2>3. BlocksOf(served, s) # None /\ LotsOut(served)[BlocksOf(served, s)].stocked
    BY <2>1 DEF S!HasBlocks, BlocksOf
  <2>4. page.got["lot"] = OneLot(served, page.id)
    BY <1>1, <1>3, <1>4, <2>2 DEF S!Requests, Current, Says
  <2>5. /\ page.id \in S!Block /\ served.lots[page.id] # None
        /\ served.name[served.lots[page.id].stone] = served.name[s]
    BY <1>1, <2>2, <2>3, BlockLotIs
  <2>6. /\ page.got["lot"].name = served.name[s] /\ page.got["lot"].stone = served.lots[page.id].stone
        /\ page.got["lot"].stocked
    BY <1>1, <2>2, <2>3, <2>4, <2>5, LotIs
  <2>7. served.lots[page.id].stone \in served.living
    BY <1>1, <2>5 DEF Sound
  <2>8. S!OneName => served.lots[page.id].stone = s
    BY <2>5, <2>7 DEF S!OneName
  <2> QED BY <2>1, <2>2, <2>6, <2>8
<1>5. ASSUME page.state = "shown", link.kind \in {"slabs", "made"}
      PROVE  IF page.at = "made" THEN S!MadeGoods(link.of, page.got["goods"]) # {}
             ELSE page.at = "good" /\ link.of.name \in page.got["good"].names
  <2>1. CASE page.at = "good" /\ link.of.name \in OneGood(served, page.id).names
    <3>1. page.got["good"] = OneGood(served, page.id)
      BY <1>1, <1>3, <1>5, <2>1 DEF S!Requests, Current, Says
    <3> QED BY <2>1, <3>1
  <2>2. CASE page.at = "made" /\ S!MadeGoods(link.of, GoodsOut(served)) # {}
    <3>1. page.got["goods"] = GoodsOut(served)
      BY <1>1, <1>3, <1>5, <2>2 DEF S!Requests, Current, Says
    <3> QED BY <2>2, <3>1
  <2> QED BY <1>2, <1>5, <2>1, <2>2 DEF Keeps
<1> QED BY <1>2, <1>4, <1>5

(* A stone is counted with whatever is made of a stone of its name, if it  *)
(* is the only one of that name.                                           *)
LEMMA CountedMade ==
  ASSUME Sound(served), S!OneName, NEW s \in served.living, NEW c,
         S!Of(StoneOut(served, s), GoodsOut(served), c) # {}
  PROVE  StoneOut(served, s).made
<1> DEFINE m == StoneOut(served, s)
<1>1. PICK g \in S!Of(m, GoodsOut(served), c) : TRUE
  OBVIOUS
<1>2. g \in S!Good /\ served.goods[g] # None /\ m.name \in OneGood(served, g).names
  BY <1>1, OfIs
<1>3. m.name = served.name[s]
  BY StoneIs
<1>4. OneGood(served, g).names = {served.name[t] : t \in served.goods[g].stones}
  BY <1>2, GoodIs
<1> HIDE DEF m
<1>5. PICK t \in served.goods[g].stones : served.name[t] = served.name[s]
  BY <1>2, <1>3, <1>4
<1>6. t \in served.living
  BY <1>2, <1>5 DEF Sound
<1>7. s \in served.goods[g].stones
  BY <1>5, <1>6 DEF S!OneName
<1> QED BY <1>2, <1>7 DEF StoneOut

LEMMA CountedLot ==
  ASSUME Sound(served), S!OneName, NEW s \in served.living, BlocksOf(served, s) # None
  PROVE  StoneOut(served, s).lot # None
<1> DEFINE l == BlocksOf(served, s)
<1>1. l \in S!Block /\ served.lots[l] # None /\ served.name[served.lots[l].stone] = served.name[s]
  BY BlockLotIs
<1>2. served.lots[l].stone = s
  BY <1>1 DEF Sound, S!OneName
<1>3. LotsOf(served, s) # {}
  BY <1>1, <1>2 DEF LotsOf
<1>4. LotsOf(served, s) \subseteq Nat /\ StoneOut(served, s).lot = S!Least(LotsOf(served, s))
  BY StoneIs, PagesFacts
<1> QED BY <1>3, <1>4, LeastFound

LEMMA StonesFound == ASSUME StonesInv PROVE S!IndexFinds
<1> SUFFICES ASSUME page.at = "index", page.state = "shown", ~changed, S!OneName,
                    NEW m \in page.got["stones"], NEW k \in S!Links(m, page.got["lots"], page.got["goods"])
             PROVE  /\ m \in S!Filtered(None, "all")
                    /\ k.kind = "blocks" => m \in S!Filtered(m.name, "blocks")
                    /\ k.kind = "made" => m \in S!Filtered(m.name, "products")
  BY DEF S!IndexFinds
<1>1. Sound(served) /\ Current(served, page) /\ S!Requests("index") \subseteq DOMAIN page.got
  BY DEF StonesInv, PageState
<1>2. /\ page.got["stones"] = StonesOut(served) /\ page.got["lots"] = LotsOut(served)
      /\ page.got["goods"] = GoodsOut(served)
  BY <1>1 DEF S!Requests, Current, Says
<1>3. PICK s \in served.living : m = StoneOut(served, s)
  BY <1>2 DEF StonesOut
<1> DEFINE made == S!MadeGoods(m, GoodsOut(served))
           one == {g \in made : made = {g}}
<1>4. \/ k \in {x \in {S!To("blocks", "blocks", m.id, m)} : S!HasBlocks(m, LotsOut(served))}
      \/ k \in {S!To("slabs", "good", g, m) : g \in {S!CategoryGood(m, GoodsOut(served), "slabs")} \ {None}}
      \/ k \in {S!To("made", "good", g, m) : g \in one}
      \/ k \in {x \in {S!To("made", "made", m.id, m)} : S!Cardinality(made) > 1}
  BY <1>2 DEF S!Links
<1>5. CASE k.kind = "blocks" /\ S!HasBlocks(m, LotsOut(served))
  <2>1. m.lot # None
    BY <1>1, <1>3, <1>5, CountedLot DEF S!HasBlocks, BlocksOf
  <2> QED BY <1>5, <2>1 DEF S!Filtered, S!InWarehouse
<1>6. CASE k.kind \in {"slabs", "made"} /\ m.made
  BY <1>6 DEF S!Filtered, S!InWarehouse
<1>7. ASSUME made # {} PROVE m.made
  BY <1>1, <1>3, <1>7, CountedMade DEF S!MadeGoods
<1>8. ASSUME S!CategoryGood(m, GoodsOut(served), "slabs") # None PROVE m.made
  <2> DEFINE all == S!Of(m, GoodsOut(served), "slabs")
             first == {f \in all : GoodsOut(served)[f].name = m.name}
  <2>1. S!CategoryGood(m, GoodsOut(served), "slabs") = IF first # {} THEN S!Least(first) ELSE S!Least(all)
    BY DEF S!CategoryGood
  <2>2. first # {} => all # {}
    OBVIOUS
  <2> HIDE DEF all, first
  <2>3. all # {}
    BY <1>8, <2>1, <2>2 DEF S!Least
  <2> QED BY <1>1, <1>3, <2>3, CountedMade DEF all
<1>9. S!Cardinality(made) > 1 => made # {}
  BY SameCount, FS_EmptySet
<1>10. one # {} => made # {}
  OBVIOUS
<1> HIDE DEF one, made
<1>11. \/ k.kind = "blocks" /\ S!HasBlocks(m, LotsOut(served))
       \/ k.kind = "slabs" /\ S!CategoryGood(m, GoodsOut(served), "slabs") # None
       \/ k.kind = "made" /\ (one # {} \/ S!Cardinality(made) > 1)
  BY <1>4, ToIs
<1> QED BY <1>5, <1>6, <1>7, <1>8, <1>9, <1>10, <1>11

PagesAlways == scene = "pages" => StonesInv

LEMMA PagesStart == SceneInit => PagesAlways
BY StonesStart DEF SceneInit, PagesAlways

LEMMA PagesStep == PagesAlways /\ [SceneNext]_<<scene, editing, showing>> => PagesAlways'
<1> SUFFICES ASSUME PagesAlways, [SceneNext]_<<scene, editing, showing>>, scene' = "pages" PROVE StonesInv'
  BY DEF PagesAlways
<1>1. StonesInv /\ [S!Next]_showing
  BY DEF PagesAlways, SceneNext
<1> QED BY <1>1, StonesStep

(* However the answers to the requests of a page come in                   *)
(* (app/catalog, lib/stone-inventory.ts): while the catalogue stands still *)
(* a link keeps its word, and the page of a lot leads back to its stone.   *)
THEOREM LinksKeepTheirWord == SceneSpec => []LinksHold
<1>1. PagesAlways => LinksHold
  BY StonesType, LinksStand, StonesShow DEF PagesAlways, LinksHold
<1> QED BY <1>1, PagesStart, PagesStep, PTL DEF SceneSpec

(* A stone under which anything is linked is found on the index            *)
(* (catalog-index.tsx), if no two stones bear one name: what the service   *)
(* counts and what the page joins agree.                                   *)
THEOREM LinkedIsFound == SceneSpec => []IndexFinds
<1>1. PagesAlways => IndexFinds
  BY StonesFound DEF PagesAlways, IndexFinds
<1> QED BY <1>1, PagesStart, PagesStep, PTL DEF SceneSpec
=============================================================================
