------------------------------- MODULE Stock -------------------------------
(***************************************************************************)
(* The page of the administration where the catalogue is edited            *)
(* (app/admin/catalog/page.tsx): one form for lots and one for products,   *)
(* each for a new entry or for one fetched from the service.  A form shows *)
(* the first row of an entry only and keeps the others aside; what is      *)
(* saved replaces all rows.  Nothing is locked while requests are out.     *)
(*                                                                         *)
(* Of a row it matters where it comes from, and whether it has what the    *)
(* form does not show (its state, its weight).  Stones have no rows: their *)
(* form is that of a lot without any.                                      *)
(***************************************************************************)
EXTENDS Naturals, Sequences

CONSTANTS
  Lot, Item,  \* lots, and products, that may come to be
  Starts,     \* how many rows each entry may have at first, or None
  Deeds,      \* bound on what the user does
  None

StockAssumption ==
  /\ Deeds \in Nat /\ Starts \subseteq [Lot \cup Item -> Nat \cup {None}]
  /\ None \notin Lot \cup Item
  /\ None \notin Seq([of : Lot \cup Item \cup {None}, at : Nat, whole : BOOLEAN])

VARIABLES
  stock,     \* the entries of the service: the rows of each, or None
  shown,     \* the entries in the lists
  panel,     \* the form of each kind
  fetches,   \* entries being fetched for a form
  puts,      \* savings under way
  reloads,   \* how many loads of the lists are under way
  deeds

vars == <<stock, shown, panel, fetches, puts, reloads, deeds>>

Entry == Lot \cup Item
Kind == {"lot", "item"}
KindOf(e) == IF e \in Lot THEN "lot" ELSE "item"
Row(e, n) == [of |-> e, at |-> n, whole |-> TRUE]
Typed == [of |-> None, at |-> 0, whole |-> FALSE]
Alive == {e \in Entry : stock[e] # None}

(* label: the row whose label the form shows; base and rest: what is kept  *)
(* aside; fetched: history, the rows as they were fetched.                 *)
Fresh == [slug |-> None, label |-> None, base |-> None, rest |-> <<>>, fetched |-> None]

Init ==
  /\ \E start \in Starts : stock = [e \in Entry |->
       IF start[e] = None THEN None ELSE [n \in 1 .. start[e] |-> Row(None, n)]]
  /\ shown = Alive
  /\ panel = [k \in Kind |-> Fresh]
  /\ fetches = {} /\ puts = {} /\ reloads = 0 /\ deeds = 0

Deed == deeds < Deeds /\ deeds' = deeds + 1
-----------------------------------------------------------------------------
RowsOf(e) == [n \in 1 .. Len(stock[e]) |-> [stock[e][n] EXCEPT !.of = e, !.at = n]]
Rest(rows) == IF rows = <<>> THEN <<>> ELSE Tail(rows)

(* editBlock and editProduct set all of a form at once.                    *)
Filled(k, e) ==
  LET rows == RowsOf(e) IN
  [slug |-> e, label |-> IF rows = <<>> THEN None ELSE rows[1],
   base |-> IF k = "item" THEN rows ELSE None, rest |-> Rest(rows), fetched |-> rows]

Fetch(e) ==
  /\ e \in shown \ fetches /\ Deed
  /\ fetches' = fetches \cup {e}
  /\ UNCHANGED <<stock, shown, panel, puts, reloads>>

(* A failure is not told of, and changes nothing.                          *)
Fetched(e) ==
  /\ fetches' = fetches \ {e}
  /\ \/ e \in Alive /\ panel' = [panel EXCEPT ![KindOf(e)] = Filled(KindOf(e), e)]
     \/ UNCHANGED panel
  /\ UNCHANGED <<stock, shown, puts, reloads, deeds>>

(* The field of the label is cleared, or a label typed over nothing.       *)
TypeLabel(k) ==
  /\ Deed
  /\ panel' = [panel EXCEPT ![k].label = IF @ = None THEN Typed ELSE None]
  /\ UNCHANGED <<stock, shown, fetches, puts, reloads>>
-----------------------------------------------------------------------------
(* The first row of a lot is made of what the form shows of it.            *)
FirstOfLot(f) == IF f.label = None THEN <<>> ELSE <<[f.label EXCEPT !.whole = FALSE]>>

(* Mutant of FirstOfItem: it is, too, for products.                        *)
FirstOfItemShown(f) == <<[Typed EXCEPT !.of = f.slug]>>

(* The first row of a product keeps what the form does not show.           *)
FirstOfItem(f) == IF f.base \in {None, <<>>} THEN <<Typed>> ELSE <<f.base[1]>>

(* The rows to save, or None: those of the service are to stay.            *)
Sent(k, f) ==
  IF k = "lot" THEN FirstOfLot(f) \o f.rest
  ELSE IF f.label # None THEN FirstOfItem(f) \o f.rest
  ELSE IF f.slug # None THEN None ELSE <<>>

(* The buttons stay in order while a saving is under way.                  *)
Put(k) ==
  /\ Deed
  /\ puts' = puts \cup {[kind |-> k, at |-> deeds, slug |-> panel[k].slug,
                        rows |-> Sent(k, panel[k]), fetched |-> panel[k].fetched]}
  /\ UNCHANGED <<stock, shown, panel, fetches, reloads>>

Stored(p, e) ==
  stock' = [stock EXCEPT ![e] =
    IF p.rows = None THEN @ ELSE [n \in 1 .. Len(p.rows) |-> [p.rows[n] EXCEPT !.of = None, !.at = n]]]

(* Mutant of Emptied: the form forgets the entry only, as that of lots.    *)
EmptiedBoth(k, f) == [f EXCEPT !.slug = None]

(* Mutant of Emptied: the form of a product stays on the entry, without    *)
(* the rows.                                                               *)
EmptiedRows(k, f) == IF k = "item" THEN [f EXCEPT !.base = None, !.rest = <<>>] ELSE [f EXCEPT !.slug = None]

(* The form of a product forgets what was kept aside, that of a lot does   *)
(* not; both leave the fields as they are.                                 *)
Emptied(k, f) ==
  IF k = "item" THEN [f EXCEPT !.slug = None, !.base = None, !.rest = <<>>]
  ELSE [f EXCEPT !.slug = None]

(* The answer empties the form and asks for the lists, unless it is lost.  *)
PutDone(p) ==
  /\ puts' = puts \ {p}
  /\ \E e \in IF p.slug = None THEN {x \in Entry \ Alive : KindOf(x) = p.kind}
              ELSE {p.slug} \cap Alive : Stored(p, e)
  /\ \/ panel' = [panel EXCEPT ![p.kind] = Emptied(p.kind, @)] /\ reloads' = reloads + 1
     \/ UNCHANGED <<panel, reloads>>
  /\ UNCHANGED <<shown, fetches, deeds>>

PutFailed(p) ==
  /\ puts' = puts \ {p}
  /\ UNCHANGED <<stock, shown, panel, fetches, reloads, deeds>>

Delete(e) ==
  /\ e \in shown \cap Alive /\ Deed
  /\ stock' = [stock EXCEPT ![e] = None]
  /\ reloads' \in {reloads, reloads + 1}
  /\ UNCHANGED <<shown, panel, fetches, puts>>

(* The lists come, or do not.                                              *)
Reloaded ==
  /\ reloads > 0 /\ reloads' = reloads - 1
  /\ shown' \in {Alive, shown}
  /\ UNCHANGED <<stock, panel, fetches, puts, deeds>>

Next ==
  \/ \E e \in Entry : Fetch(e) \/ Delete(e)
  \/ \E e \in fetches : Fetched(e)
  \/ \E k \in Kind : TypeLabel(k) \/ Put(k)
  \/ \E p \in puts : PutDone(p) \/ PutFailed(p)
  \/ Reloaded

Spec == Init /\ [][Next]_vars
-----------------------------------------------------------------------------
RowRec == [of : Entry \cup {None}, at : Nat, whole : BOOLEAN]

TypeOK ==
  /\ \A e \in Entry : stock[e] # None => stock[e] \in Seq([of : {None}, at : Nat, whole : BOOLEAN])
  /\ shown \subseteq Entry /\ fetches \subseteq Entry
  /\ deeds \in 0 .. Deeds /\ reloads \in Nat
  /\ \A k \in Kind :
       /\ panel[k].slug \in {e \in Entry : KindOf(e) = k} \cup {None}
       /\ panel[k].label \in RowRec \cup {None} /\ panel[k].rest \in Seq(RowRec)
       /\ panel[k].base = None \/ panel[k].base \in Seq(RowRec)
  /\ \A p \in puts :
       /\ p.slug \in Entry \cup {None} /\ (p.rows = None => p.slug # None /\ p.kind = "item")
       /\ p.rows # None => p.rows \in Seq(RowRec)

(* No product gets a row of another, nor does a lot that is changed,       *)
(* whatever is fetched, saved or removed in between; a new lot may: its    *)
(* form keeps the rows of the lot before (saveBlock, saveProduct).         *)
RowsOfEntry ==
  \A p \in puts : (p.kind = "item" \/ p.slug # None) /\ p.rows # None =>
    \A n \in DOMAIN p.rows : p.rows[n].of \in {p.slug, None}

(* An entry that is changed loses none of the rows the form does not show, *)
(* and no row twice.                                                       *)
RowsKept ==
  \A p \in puts : p.slug # None /\ p.rows # None =>
    \A n \in 2 .. Len(p.fetched) :
      \E m \in DOMAIN p.rows : \A i \in DOMAIN p.rows :
        (p.rows[i].of = p.slug /\ p.rows[i].at = n) <=> i = m

(* The first row of a product keeps what the form does not show of it.     *)
FirstRowWhole ==
  \A p \in puts : p.kind = "item" /\ p.slug # None /\ p.rows # None /\ p.fetched # <<>> =>
    p.rows[1] = p.fetched[1]
=============================================================================
