-------------------------------- MODULE Lot --------------------------------
(***************************************************************************)
(* The list of what a lot holds, on the page of a product or of a lot of   *)
(* blocks: the table of slabs and blanks (lot-table.tsx), the table of     *)
(* tile and paving variants (variant-table.tsx) and the table of blocks    *)
(* (block-detail.tsx).  The headers of the first two hold filters          *)
(* (column-header-filter.tsx), whose options are worked out by             *)
(* lot-filter-utils.ts; a row of the first and the last opens a dialog     *)
(* that leafs through the list.                                            *)
(*                                                                         *)
(* A header may be reached by mouse or by keyboard.  A press of the mouse  *)
(* shuts every menu it falls outside of; the keyboard leaves them open,    *)
(* and reaches what is behind the dialog too.  A handler runs together     *)
(* with the effects that follow it.                                        *)
(***************************************************************************)
EXTENDS FiniteSets, Functions, Integers, Sequences

CONSTANTS
  Keys,      \* the columns with a filter, in order
  Values,    \* what a cell may hold, in the order the options are sorted in
  Blank,     \* a cell that is empty
  Rows,      \* bound on the rows of the list, which may have none
  Lengths,   \* lengths of a block
  All, None

LotAssumption ==
  /\ Keys \in Seq(Range(Keys)) /\ Values \in Seq(Range(Values))
  /\ Rows \in Nat /\ Lengths \subseteq Nat /\ None \notin [lo : Lengths, hi : Lengths]
  /\ Blank \notin Range(Values) /\ All \notin Range(Values) \cup {Blank}

VARIABLES
  table,     \* which of the three
  items,     \* the rows
  filters,   \* per column: a value, or All
  menu,      \* per column: whether its list is open, and the entry that is highlighted
  active     \* the row shown in the dialog, or None

vars == <<table, items, filters, menu, active>>

Key == Range(Keys)
Row == DOMAIN items
ListsOf(entries) == UNION {[1 .. n -> entries] : n \in 0 .. Rows}
Unfiltered == [k \in Key |-> All]

(***************************************************************************)
(* Options of the filters (createLotFilterKit).                            *)
(***************************************************************************)
Kept(rows, k) == {i \in DOMAIN Values : \E r \in rows : items[r][k] = Values[i]}
Before(S, i) == Cardinality({j \in S : j < i})

(* The values of a column in their order.                                  *)
FieldValues(rows, k) ==
  LET kept == Kept(rows, k) IN
  [n \in 1 .. Cardinality(kept) |-> Values[CHOOSE i \in kept : Before(kept, i) = n - 1]]

FilterItems(f) == {r \in Row : \A k \in Key : f[k] \in {All, items[r][k]}}
VisibleKeys == IF table = "block" THEN {} ELSE {k \in Key : Len(FieldValues(Row, k)) > 1}

(* Mutant of FilterOptions: the other columns are not looked at.           *)
FilterOptionsAll(f, k) == FieldValues(Row, k)

(* What the other filters leave, so that a value can be exchanged.         *)
FilterOptions(f, k) == FieldValues(FilterItems([f EXCEPT ![k] = All]), k)

(* Column by column, a value is dropped when it is not among the options   *)
(* that are left by then.                                                  *)
Without(f, dropped) == [k \in Key |-> IF k \in dropped THEN All ELSE f[k]]
Misses(f, k) == f[k] # All /\ f[k] \notin Range(FilterOptions(f, k))
Dropped(f) ==
  CHOOSE dropped \in SUBSET Key : \A i \in DOMAIN Keys :
    LET earlier == {Keys[j] : j \in 1 .. i - 1} IN
    Keys[i] \in dropped <=> Misses(Without(f, dropped \cap earlier), Keys[i])
PruneFilters(f) == Without(f, Dropped(f))

HasActive == filters # Unfiltered
Shown == IF table = "block" THEN Row ELSE FilterItems(filters)

(***************************************************************************)
(* What the page of a lot of blocks says of them all (block-utils.ts).  A  *)
(* size is text: the service writes crosses between its numbers            *)
(* (catalog.py), lib/block-utils.test.ts has sizes without.  Of the three  *)
(* numbers one is kept.                                                    *)
(***************************************************************************)
Statuses == {"stock", "reserved", "order"}
Sizes == {None} \cup [crosses : BOOLEAN, mm : Lengths]
Blocks == [status : Statuses, size : Sizes]
Breakdown == [st \in Statuses |-> Cardinality({r \in Row : items[r].status = st})]

(* Mutant of LotStatus: the reserved are counted before those on order.    *)
LotStatusReservedFirst ==
  IF Row = {} \/ Breakdown["reserved"] = 0 THEN "stock"
  ELSE IF Breakdown["order"] = Cardinality(Row) THEN "order"
  ELSE IF Breakdown["stock"] = 0 THEN "reserved" ELSE "partly"

(* Mutant of LotStatus: a lot without blocks is not looked at first.       *)
LotStatusOfSome ==
  IF Breakdown["order"] = Cardinality(Row) THEN "order"
  ELSE IF Breakdown["reserved"] = 0 THEN "stock"
  ELSE IF Breakdown["stock"] = 0 THEN "reserved" ELSE "partly"

(* The badge of the lot; one without blocks is in stock.                   *)
LotStatus ==
  IF Row = {} THEN "stock"
  ELSE IF Breakdown["order"] = Cardinality(Row) THEN "order"
  ELSE IF Breakdown["reserved"] = 0 THEN "stock"
  ELSE IF Breakdown["stock"] = 0 THEN "reserved" ELSE "partly"

(* Whether the stone of the lot links to its blocks (stone-inventory.ts).  *)
HasBlocksInStock == \E r \in Row : items[r].status = "stock"

Parsed(size) == size # None /\ ~size.crosses

(* Mutant of DimensionsRange: fewer than two sizes that can be read are    *)
(* not looked at.                                                          *)
DimensionsRangeFirst ==
  LET parsed == {r \in Row : Parsed(items[r].size)}
      named == {r \in Row : items[r].size # None}
      mms == {items[r].size.mm : r \in parsed}
      first == CHOOSE r \in named : \A q \in named : r <= q IN
  IF Cardinality(parsed) > 1
  THEN [lo |-> CHOOSE m \in mms : \A n \in mms : m <= n,
        hi |-> CHOOSE m \in mms : \A n \in mms : m >= n]
  ELSE IF named = {} THEN None
  ELSE [lo |-> items[first].size.mm, hi |-> items[first].size.mm]

DimensionsRange ==
  LET parsed == {r \in Row : Parsed(items[r].size)}
      named == {r \in Row : items[r].size # None}
      mms == {items[r].size.mm : r \in parsed}
      asIs == IF Cardinality(parsed) = 1 THEN parsed ELSE named
      first == CHOOSE r \in asIs : \A q \in asIs : r <= q IN
  IF Cardinality(parsed) > 1
  THEN [lo |-> CHOOSE m \in mms : \A n \in mms : m <= n,
        hi |-> CHOOSE m \in mms : \A n \in mms : m >= n]
  ELSE IF named = {} THEN None
  ELSE [lo |-> items[first].size.mm, hi |-> items[first].size.mm]

(***************************************************************************)
(* The lists in the headers.                                               *)
(***************************************************************************)
MenuItems(f, k) == <<All>> \o FilterOptions(f, k)
Place(f, k) ==
  LET list == MenuItems(f, k)
      at == {i \in DOMAIN list : list[i] = f[k]} IN
  IF at = {} THEN 1 ELSE CHOOSE i \in at : TRUE

(* The highlight goes round.                                               *)
Moved(i, delta, n) == ((i - 1 + delta + n) % n) + 1

(* A list that opens or shuts highlights the value chosen.                 *)
Turned(m, k, open) ==
  IF m[k].open = open THEN m ELSE [m EXCEPT ![k] = [open |-> open, highlight |-> Place(filters, k)]]
Shut(m, keys) ==
  [k \in Key |-> IF k \in keys /\ m[k].open THEN [open |-> FALSE, highlight |-> Place(filters, k)]
                 ELSE m[k]]

(* Mutant of Highlighted: a list forgets to look at its new options.       *)
HighlightedKept(m, f) == m

(* New filters make new options: every list highlights its value again.    *)
Highlighted(m, f) == [k \in Key |-> [m[k] EXCEPT !.highlight = Place(f, k)]]

(* Mutant of StillShown: the dialog forgets to look whether its row stays. *)
StillShownKept(f) == active

(* The dialog shuts when its row is filtered out.                          *)
StillShown(f) == IF active # None /\ active \in FilterItems(f) THEN active ELSE None

Dialog == active # None /\ active \in Shown

Rest == [k \in Key |-> [open |-> FALSE, highlight |-> 1]]
Cells == [Key -> Range(Values) \cup {Blank}]

Init ==
  /\ table \in {"lot", "variant", "block"}
  /\ items \in ListsOf(IF table = "block" THEN Blocks ELSE Cells)
  /\ filters = Unfiltered /\ menu = Rest /\ active = None

(* The mouse reaches the table only while no dialog lies over it.          *)
Reached(mouse) == mouse => ~Dialog
Menus(mouse, but) == IF mouse THEN Shut(menu, Key \ but) ELSE menu

Toggle(k, mouse) ==
  /\ k \in VisibleKeys /\ Reached(mouse)
  /\ menu' = Turned(Menus(mouse, {k}), k, ~menu[k].open)
  /\ UNCHANGED <<table, items, filters, active>>

Arrow(k, delta) ==
  LET n == Len(MenuItems(filters, k)) IN
  /\ k \in VisibleKeys
  /\ menu' = IF menu[k].open
             THEN [menu EXCEPT ![k].highlight = Moved(@, delta, n)]
             ELSE Turned(menu, k, TRUE)
  /\ UNCHANGED <<table, items, filters, active>>

Hover(k, i) ==
  /\ k \in VisibleKeys /\ menu[k].open /\ i \in 1 .. Len(MenuItems(filters, k)) /\ ~Dialog
  /\ menu' = [menu EXCEPT ![k].highlight = i]
  /\ UNCHANGED <<table, items, filters, active>>

FilterChange(k, v, mouse) ==
  LET f == PruneFilters([filters EXCEPT ![k] = v]) IN
  /\ filters' = f
  /\ menu' = Highlighted([Menus(mouse, {k}) EXCEPT ![k].open = FALSE], f)
  /\ active' = StillShown(f)
  /\ UNCHANGED <<table, items>>

SelectOption(k, i) ==
  /\ k \in VisibleKeys /\ menu[k].open /\ i \in 1 .. Len(MenuItems(filters, k)) /\ ~Dialog
  /\ FilterChange(k, MenuItems(filters, k)[i], TRUE)

EnterOption(k) ==
  LET list == MenuItems(filters, k) IN
  /\ k \in VisibleKeys /\ menu[k].open
  /\ FilterChange(k, IF menu[k].highlight \in DOMAIN list THEN list[menu[k].highlight] ELSE All, FALSE)

ResetFilters(mouse) ==
  /\ VisibleKeys # {} /\ HasActive /\ Reached(mouse)
  /\ filters' = Unfiltered
  /\ menu' = Highlighted(Menus(mouse, {}), Unfiltered)
  /\ active' = StillShown(Unfiltered)
  /\ UNCHANGED <<table, items>>

(* A press of the mouse on the page, away from everything.                 *)
PressOutside ==
  /\ ~Dialog /\ \E k \in Key : menu[k].open
  /\ menu' = Shut(menu, Key) /\ UNCHANGED <<table, items, filters, active>>

Escape ==
  /\ Dialog \/ \E k \in Key : menu[k].open
  /\ menu' = Shut(menu, Key)
  /\ active' = IF Dialog THEN None ELSE active
  /\ UNCHANGED <<table, items, filters>>

OpenItem(r, mouse) ==
  /\ table = "lot" /\ r \in Shown /\ active # r /\ Reached(mouse)
  /\ active' = r /\ menu' = Menus(mouse, {})
  /\ UNCHANGED <<table, items, filters>>

OpenLightboxAt(r, mouse) ==
  /\ table = "block" /\ active # r /\ Reached(mouse)
  /\ active' = r
  /\ UNCHANGED <<table, items, filters, menu>>

(* The neighbour of row r in what is shown, by the buttons or the arrows.  *)
Neighbour(r, next) ==
  IF next THEN {q \in Shown : q > r /\ \A p \in Shown : p > r => q <= p}
  ELSE {q \in Shown : q < r /\ \A p \in Shown : p < r => q >= p}

Navigate(next, mouse) ==
  /\ table = "lot" /\ Dialog
  /\ active' \in Neighbour(active, next)
  /\ menu' = Menus(mouse, {})
  /\ UNCHANGED <<table, items, filters>>

NavigateBlock(next) ==
  LET to == IF next THEN active + 1 ELSE active - 1 IN
  /\ table = "block" /\ Dialog /\ to \in Row
  /\ active' = to
  /\ UNCHANGED <<table, items, filters, menu>>

Close ==
  /\ Dialog
  /\ active' = None /\ menu' = Shut(menu, Key)
  /\ UNCHANGED <<table, items, filters>>

Next ==
  \/ \E k \in Key, mouse \in BOOLEAN : Toggle(k, mouse)
  \/ \E k \in Key, delta \in {-1, 1} : Arrow(k, delta)
  \/ \E k \in Key, i \in 1 .. Len(Values) + 1 : Hover(k, i) \/ SelectOption(k, i)
  \/ \E k \in Key : EnterOption(k)
  \/ \E mouse \in BOOLEAN : ResetFilters(mouse)
  \/ PressOutside \/ Escape
  \/ \E r \in Row, mouse \in BOOLEAN : OpenItem(r, mouse) \/ OpenLightboxAt(r, mouse)
  \/ \E next \in BOOLEAN, mouse \in BOOLEAN : Navigate(next, mouse)
  \/ \E next \in BOOLEAN : NavigateBlock(next)
  \/ Close

Spec == Init /\ [][Next]_vars
-----------------------------------------------------------------------------
TypeOK ==
  /\ table \in {"lot", "variant", "block"}
  /\ items \in ListsOf(Cells) \cup ListsOf(Blocks)
  /\ filters \in [Key -> Range(Values) \cup {All}]
  /\ menu \in [Key -> [open : BOOLEAN, highlight : 1 .. Len(Values) + 1]]
  /\ active \in Row \cup {None}

(* What is picked from a list stays picked and leaves something to show,   *)
(* and no other column loses its value by it: the table never has to say   *)
(* that nothing matches.                                                   *)
PickStands ==
  [][\A k \in Key, i \in 1 .. Len(Values) + 1 :
       menu[k].open /\ ~menu'[k].open /\ SelectOption(k, i) =>
         /\ filters' = [filters EXCEPT ![k] = MenuItems(filters, k)[i]]
         /\ FilterItems(filters') # {}]_vars

(* An open list highlights one of its entries, though picks in other       *)
(* columns change its entries while it is open: Enter never falls back on  *)
(* the entry that lifts the filter.                                        *)
HighlightOffered ==
  \A k \in VisibleKeys : menu[k].open => menu[k].highlight \in DOMAIN MenuItems(filters, k)

(* The dialog opens by a row only: once its row was filtered out it does   *)
(* not come back by itself when the filter is lifted.                      *)
OpensByRow ==
  [][~Dialog /\ Dialog' => \E r \in Row, mouse \in BOOLEAN :
                              OpenItem(r, mouse) \/ OpenLightboxAt(r, mouse)]_vars

(* The badge of a lot and the link on the page of its stone, worked out in *)
(* different files, agree: where there is a link the badge promises        *)
(* something in stock, and where the badge does there is a link, unless    *)
(* the lot has no blocks at all; a lot says that it is on order just when  *)
(* it has blocks and all of them are.                                      *)
StatusesAgree ==
  table = "block" =>
    /\ HasBlocksInStock => LotStatus \in {"stock", "partly"}
    /\ LotStatus \in {"stock", "partly"} => HasBlocksInStock \/ Row = {}
    /\ LotStatus = "order" <=> Row # {} /\ \A r \in Row : items[r].status = "order"

(* The page of a lot names the range its blocks lie in, as far as their    *)
(* sizes can be read, however many can; a size it could not read is named  *)
(* only where none can.                                                    *)
RangeCovers ==
  table = "block" =>
    \A r \in Row : Parsed(items[r].size) =>
      DimensionsRange # None /\ items[r].size.mm \in DimensionsRange.lo .. DimensionsRange.hi
=============================================================================
