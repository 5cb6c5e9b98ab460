------------------------------- MODULE Shelf -------------------------------
(***************************************************************************)
(* The listing of products (product-catalog.tsx): the category and the     *)
(* group of the products stand in the address, the filters are state of    *)
(* the page.  A tab asks the router for another address; until the server  *)
(* has answered the page stays as it is, and of two such requests only the *)
(* later one counts.  The answer brings the list of products anew.         *)
(*                                                                         *)
(* Filters that are alike stand for one another: material also for origin  *)
(* and colour, height for diameter and purpose, and blanks are like slabs. *)
(* A search either hits a product or not.                                  *)
(***************************************************************************)
EXTENDS FiniteSets, Naturals

CONSTANTS
  Product,   \* the products there may be
  Lists,     \* what the server may send of them
  Groups,    \* the groups of custom products: hidden or not, their filters, and those of each type
  Urls,      \* addresses that links lead to
  PageSize,  \* products shown at first, and more at each click
  Steps,     \* bound on the steps of the visitor
  All, None

Categories == {All, "slabs", "tiles", "paving", "custom"}
Key == {"search", "material", "status", "productType", "thickness", "finish", "format", "height"}

(* A control of a group sets one of the filters, the search has its own;   *)
(* links lead to categories there are.                                     *)
ShelfAssumption ==
  /\ \A list \in Lists : list \subseteq Product /\ IsFiniteSet(list)
  /\ \A g \in DOMAIN Groups :
       /\ Groups[g].keys \subseteq Key \ {"search"}
       /\ \A type \in DOMAIN Groups[g].types : Groups[g].types[type] \subseteq Key \ {"search"}
  /\ \A u \in Urls : u \in [category : Categories \cup {None}, group : {u.group}]
  /\ PageSize \in Nat \ {0} /\ Steps \in Nat /\ All # None

VARIABLES
  url,       \* category and group in the address
  target,    \* the address the router is on its way to, or None
  products,  \* the list the page was given
  filters,   \* per key: a value, or All; and whether something is searched for
  sort,      \* TRUE while the products are sorted some other way than by relevance
  pages,     \* how many pages of products are shown
  picked,    \* history: the category and group each filter was picked in
  steps      \* bound

vars == <<url, target, products, filters, sort, pages, picked, steps>>

NoFilters == [k \in Key |-> All]

CategoryOf(u) == IF u.category = None THEN All ELSE u.category

(* A group counts when it is not hidden and some product is in it.         *)
Populated(list) ==
  {g \in DOMAIN Groups : ~Groups[g].hidden /\ \E p \in list : p.category = "custom" /\ p.group = g}
GroupOf(u, list) ==
  IF CategoryOf(u) = "custom" /\ u.group \in Populated(list) THEN u.group ELSE All

category == CategoryOf(url)
group == GroupOf(url, products)

(***************************************************************************)
(* Filtering (filterCatalogProducts) and the options (uniqueFilterValues). *)
(***************************************************************************)
CustomKeys(g, type) ==
  {"material", "status", "productType"} \cup
    IF g = All THEN {}
    ELSE IF type \in DOMAIN Groups[g].types THEN Groups[g].types[type] ELSE Groups[g].keys

FilterKeys(c, g, type) ==
  CASE c = All -> {"material"}
    [] c = "slabs" -> {"material", "thickness", "finish", "status"}
    [] c \in {"tiles", "paving"} -> {"material", "format", "thickness", "finish"}
    [] c = "custom" -> CustomKeys(g, type)

FilterValue(p, k) ==
  CASE k = "format" -> IF p.format # None THEN p.format ELSE p.size
    [] OTHER -> p[k]

RowField(k) == IF k = "format" THEN "size" ELSE k
OfRows(p, k) ==
  /\ p.rows # {}
  /\ \/ p.category = "tiles" /\ k = "finish"
     \/ p.category = "paving" /\ k \in {"finish", "format", "thickness"}

Matches(p, k, v) ==
  IF OfRows(p, k) THEN \E row \in p.rows : row[RowField(k)] = v
  ELSE IF k = "format" /\ p.category \in {"tiles", "paving"} THEN v \in {p.size, p.format}
  ELSE FilterValue(p, k) = v

InView(p, c, g) == (c = All \/ p.category = c) /\ (g = All \/ p.group = g)
CategoryProducts == {p \in products : InView(p, category, group)}

Filtered(f) ==
  {p \in CategoryProducts :
     /\ f["search"] = All \/ p.hit
     /\ \A k \in FilterKeys(category, group, f["productType"]) : f[k] = All \/ Matches(p, k, f[k])}

(* Mutant of FilterValues: the rows of a product are not looked at.        *)
FilterValuesFlat(list, k) == {FilterValue(p, k) : p \in list} \ {None}

ValuesOf(p, k) ==
  IF OfRows(p, k) THEN {row[RowField(k)] : row \in p.rows} ELSE {FilterValue(p, k)}
FilterValues(list, k) == (UNION {ValuesOf(p, k) : p \in list}) \ {None}

(* The choice of a type narrows the options of the other keys.             *)
Options(k) ==
  LET type == filters["productType"]
      list == IF category = "custom" /\ type # All /\ k # "productType"
              THEN {p \in CategoryProducts : p.productType = type} ELSE CategoryProducts IN
  FilterValues(list, k)

VisibleKeys ==
  {k \in FilterKeys(category, group, filters["productType"]) :
     Cardinality(Options(k)) >= IF category = All THEN 2 ELSE 1}

(* Mutant of HasActive: only the controls in sight are counted.            *)
HasActiveInSight == filters["search"] # All \/ \E k \in VisibleKeys : filters[k] # All

HasActive == \E k \in Key : filters[k] # All
CanReset == HasActive \/ sort

(***************************************************************************)
(* Rendering.                                                              *)
(***************************************************************************)
(* Mutant of ForGroup: the type of product is kept too.                    *)
ForGroupTyped(f) ==
  [k \in Key |-> IF k \in {"search", "material", "status", "productType"} THEN f[k] ELSE All]

(* What a change of group leaves of the filters.                           *)
ForGroup(f) == [k \in Key |-> IF k \in {"search", "material", "status"} THEN f[k] ELSE All]

Viewed(u, list) ==
  IF CategoryOf(u) # category THEN NoFilters
  ELSE IF GroupOf(u, list) # group THEN ForGroup(filters) ELSE filters

(* The address names a group that is unknown, hidden or empty.             *)
Stale(u, list) ==
  /\ CategoryOf(u) = "custom" /\ u.group # None /\ u.group # GroupOf(u, list)

(* The effect that takes such a group out of the address.                  *)
Cleaned(u, list) == IF Stale(u, list) THEN [u EXCEPT !.group = None] ELSE None

Step == steps < Steps /\ steps' = steps + 1

Init ==
  /\ url \in Urls /\ products \in Lists
  /\ target = Cleaned(url, products)
  /\ filters = NoFilters /\ sort = FALSE /\ pages = 1
  /\ picked = [k \in Key |-> None]
  /\ steps = 0

(* Links, the header and the history of the browser.                       *)
Follow(u) ==
  /\ u # url /\ Step /\ target' = u
  /\ UNCHANGED <<url, products, filters, sort, pages, picked>>

SelectCategory(c) ==
  /\ c # category /\ Step
  /\ target' = [category |-> c, group |-> None]
  /\ UNCHANGED <<url, products, filters, sort, pages, picked>>

SelectGroup(g) ==
  /\ category = "custom" /\ g \in Populated(products) \cup {All} /\ g # group /\ Step
  /\ target' = [category |-> "custom", group |-> IF g = All THEN None ELSE g]
  /\ UNCHANGED <<url, products, filters, sort, pages, picked>>

(* The server has answered.  A new view drops filters while it is drawn.   *)
Commit ==
  /\ target # None
  /\ \E list \in Lists :
       LET f == Viewed(target, list) IN
       /\ url' = target /\ products' = list
       /\ filters' = f
       /\ sort' = (sort /\ CategoryOf(target) = category)
       /\ pages' = IF CategoryOf(target) = category /\ GroupOf(target, list) = group /\ f = filters
                   THEN pages ELSE 1
       /\ picked' = [k \in Key |-> IF f[k] = All THEN None ELSE picked[k]]
       /\ target' = Cleaned(target, list)
  /\ UNCHANGED steps

SetFilter(k, v) ==
  /\ filters[k] # v /\ Step
  /\ filters' = [filters EXCEPT ![k] = v]
  /\ picked' = [picked EXCEPT ![k] = IF v = All THEN None ELSE [category |-> category, group |-> group]]
  /\ pages' = 1
  /\ UNCHANGED <<url, target, products, sort>>

Pick(k) == k \in VisibleKeys /\ \E v \in Options(k) \cup {All} : SetFilter(k, v)
TypeSearch(v) == SetFilter("search", v)

Sort(by) ==
  /\ sort # by /\ Step /\ sort' = by /\ pages' = 1
  /\ UNCHANGED <<url, target, products, filters, picked>>

ShowMore ==
  /\ Cardinality(Filtered(filters)) > pages * PageSize /\ Step
  /\ pages' = pages + 1
  /\ UNCHANGED <<url, target, products, filters, sort, picked>>

(* Beside the filters, and where nothing is found.                         *)
Reset ==
  /\ CanReset \/ (Filtered(filters) = {} /\ group # All)
  /\ Step
  /\ filters' = NoFilters /\ sort' = FALSE
  /\ pages' = IF CanReset THEN 1 ELSE pages
  /\ target' = IF group # All THEN [url EXCEPT !.group = None] ELSE target
  /\ picked' = [k \in Key |-> None]
  /\ UNCHANGED <<url, products>>

Next ==
  \/ \E u \in Urls : Follow(u)
  \/ \E c \in Categories : SelectCategory(c)
  \/ \E g \in DOMAIN Groups \cup {All} : SelectGroup(g)
  \/ Commit
  \/ \E k \in Key : Pick(k)
  \/ \E v \in {All, "query"} : TypeSearch(v)
  \/ \E by \in BOOLEAN : Sort(by)
  \/ ShowMore \/ Reset

Spec == Init /\ [][Next]_vars
-----------------------------------------------------------------------------
Addresses == [category : Categories \cup {None},
              group : DOMAIN Groups \cup {u.group : u \in Urls} \cup {None}]

TypeOK ==
  /\ url \in Addresses /\ target \in Addresses \cup {None}
  /\ products \in Lists
  /\ DOMAIN filters = Key /\ filters["search"] \in {All, "query"}
  /\ \A k \in Key \ {"search"} : filters[k] \in FilterValues(Product, k) \cup {All}
  /\ sort \in BOOLEAN /\ pages \in 1 .. Steps + 1
  /\ picked \in [Key -> [category : Categories, group : DOMAIN Groups \cup {All}] \cup {None}]
  /\ steps \in 0 .. Steps

(* An option that a filter offers finds something: filterCatalogProducts,  *)
(* which looks into the rows of some products, and uniqueFilterValues,     *)
(* which collects the options, agree on what a product is filtered by.     *)
OptionsFind ==
  \A k \in VisibleKeys : \A v \in Options(k) :
    LET type == IF category = "custom" THEN filters["productType"] ELSE All IN
    Filtered([NoFilters EXCEPT !["productType"] = type, ![k] = v]) # {}

(* A filter holds only in the category it was picked in, and, the material *)
(* and the status apart, in the group it was picked in, though it may be   *)
(* picked while the router is on its way to another view.                  *)
FiltersOfView ==
  \A k \in Key : filters[k] # All =>
    /\ picked[k].category = category
    /\ k \in {"search", "material", "status"} \/ picked[k].group = group

(* When the filters leave nothing of a view that has products, the page    *)
(* offers to reset them, though the control of the filter that does it may *)
(* have disappeared with its options.                                      *)
EmptyHasWayOut ==
  Filtered(filters) = {} /\ CategoryProducts # {} => CanReset
=============================================================================
