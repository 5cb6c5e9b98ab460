-------------------------------- MODULE Desk --------------------------------
(***************************************************************************)
(* The page of the administration where promotions are written             *)
(* (app/admin/promotions/page.tsx).  One form serves a new promotion and   *)
(* those of the list.  The lines of a promotion are read out of a price    *)
(* list by the service; to save is a row of requests: the promotion, then  *)
(* its lines, then its sheet.  Nothing is locked meanwhile: the user may   *)
(* open another promotion, choose another file, reset the form or save     *)
(* again while requests are out.                                           *)
(*                                                                         *)
(* A form is known by the number of times the form was filled anew before; *)
(* the address of a promotion is taken not to change.                      *)
(***************************************************************************)
EXTENDS Naturals

CONSTANTS
  Promotion,  \* promotions that may come to be
  Moves,      \* bound on what the user does
  None

Lines == [opening : Nat, token : Nat]
Entry == [lines : Lines \cup {None}, sheet : Nat \cup {None}, deleted : BOOLEAN]

DeskAssumption == Moves \in Nat /\ None \notin Promotion \cup Nat \cup Lines \cup Entry

VARIABLES
  table,     \* the promotions of the service: lines and sheet of each, or None
  items,     \* the list on the page
  editing,   \* the promotion in the form, or None
  opening,   \* the number of the form
  lines,     \* the lines of the form, by the form and the import they came by, or None
  choices,   \* the lines the choices of stones were made for
  sheet,     \* the form the chosen sheet was chosen in, or None
  status,    \* sheetStatus
  token,     \* importToken
  imports,   \* price lists being read
  gets,      \* promotions being fetched for the form
  saves,     \* savings under way, each at its next request
  purpose,   \* history: each form with the promotion it was opened for
  maker,     \* history: the form each promotion was created from
  resets,    \* history: the forms that were reset
  moves

form == <<editing, opening, lines, choices, sheet, status, token>>
history == <<purpose, maker, resets>>
vars == <<table, items, form, imports, gets, saves, history, moves>>

Blank == [lines |-> None, sheet |-> None, deleted |-> FALSE]

Made == {p \in Promotion : table[p] # None}
Alive == {p \in Made : ~table[p].deleted}

Init ==
  /\ table \in [Promotion -> {None, Blank}]
  /\ items = Alive
  /\ editing = None /\ opening = 0 /\ lines = None /\ choices = None
  /\ sheet = None /\ status = "idle" /\ token = 0
  /\ imports = {} /\ gets = {} /\ saves = {}
  /\ purpose = {<<0, None>>}
  /\ maker = [p \in Promotion |-> None]
  /\ resets = {} /\ moves = 0

Move == moves < Moves /\ moves' = moves + 1

(* The form is filled anew for promotion p, or for a new one.              *)
Fill(p) ==
  /\ editing' = p /\ opening' = opening + 1
  /\ purpose' = purpose \cup {<<opening + 1, p>>}

(* Mutant of TokenAnew: what is being read is not dropped.                 *)
TokenKept == token

(* What is being read for the form as it was is dropped.                   *)
TokenAnew == token + 1
-----------------------------------------------------------------------------
(* The price list: onChange of the file field, then and catch.             *)
ChooseFile ==
  /\ Move
  /\ token' = token + 1
  /\ status' = "reading"
  /\ imports' = imports \cup {[token |-> token + 1, opening |-> opening]}
  /\ UNCHANGED <<table, items, editing, opening, lines, choices, sheet, gets, saves, history>>

StatusOf(outcome) == IF outcome = "lines" THEN "ready" ELSE "failed"

(* A failure leaves the choices.                                           *)
TakeImport(i, outcome) ==
  /\ lines' = IF outcome = "lines" THEN i ELSE None
  /\ choices' = CASE outcome = "lines" -> i [] outcome = "empty" -> None
                  [] outcome = "error" -> choices
  /\ status' = StatusOf(outcome)

Imported ==
  /\ \E i \in imports :
       /\ imports' = imports \ {i}
       /\ IF i.token = token
          THEN \E outcome \in {"lines", "empty", "error"} : TakeImport(i, outcome)
          ELSE UNCHANGED <<lines, choices, status>>
  /\ UNCHANGED <<table, items, editing, opening, sheet, token, gets, saves, history, moves>>

ChooseSheet ==
  /\ Move /\ sheet' = opening
  /\ UNCHANGED <<table, items, editing, opening, lines, choices, status, token, imports, gets,
                 saves, history>>
-----------------------------------------------------------------------------
(* edit: the promotion is fetched first.                                   *)
Edit(p) ==
  /\ p \in items \ gets /\ Move
  /\ gets' = gets \cup {p}
  /\ UNCHANGED <<table, items, form, imports, saves, history>>

(* Mutant of SheetOfEdit: the files of the form before stay.               *)
SheetOfEditKept == sheet

SheetOfEdit == None

Opened(p) ==
  /\ gets' = gets \ {p}
  /\ \/ /\ p \in Alive
        /\ Fill(p)
        /\ lines' = table[p].lines /\ choices' = table[p].lines
        /\ sheet' = SheetOfEdit /\ status' = "idle" /\ token' = TokenAnew
     \/ UNCHANGED <<form, purpose>>
  /\ UNCHANGED <<table, items, imports, saves, maker, resets, moves>>

(* Mutant of StatusOfReset: the form is emptied, its status stays.         *)
StatusOfResetKept == status

StatusOfReset == "idle"

(* The button is there only when a promotion is edited; the chosen sheets  *)
(* stay, and are there for the new promotion the form is then for.         *)
Reset ==
  /\ editing # None /\ Move
  /\ Fill(None)
  /\ lines' = None /\ choices' = None /\ status' = StatusOfReset /\ token' = token + 1
  /\ resets' = resets \cup {opening}
  /\ UNCHANGED <<table, items, sheet, imports, gets, saves, maker>>
-----------------------------------------------------------------------------
(* save: what it sends is the form as it was at the click.                 *)
Save ==
  /\ status # "reading" /\ status # "failed" /\ ~(status = "ready" /\ lines = None)
  /\ Move
  /\ saves' = saves \cup {[id |-> moves, step |-> "promotion", promotion |-> editing,
                          opening |-> opening, lines |-> lines, sheet |-> sheet]}
  /\ UNCHANGED <<table, items, form, imports, gets, history>>

(* The request after that of step, as far as there is something to send.   *)
Following(s) ==
  IF s.step = "promotion" /\ s.lines # None THEN "lines"
  ELSE IF s.step # "sheet" /\ s.sheet # None THEN "sheet" ELSE "done"

(* Mutant of SentLines: the lines are read when they are sent.             *)
SentLinesLate(s) == lines

SentLines(s) == s.lines

(* Mutant of SentSheet: the sheet is read when it is sent.                 *)
SentSheetLate(s) == sheet

SentSheet(s) == s.sheet

(* What the service makes of the request; p is the promotion it is about.  *)
Carry(s, p) ==
  CASE s.step = "promotion" /\ s.promotion = None ->
         /\ p \notin Made
         /\ table' = [table EXCEPT ![p] = Blank] /\ maker' = [maker EXCEPT ![p] = s.opening]
    [] s.step = "promotion" /\ s.promotion # None -> p = s.promotion /\ p \in Alive
                                                    /\ UNCHANGED <<table, maker>>
    [] s.step = "lines" -> /\ p = s.promotion /\ p \in Alive
                           /\ table' = [table EXCEPT ![p].lines = SentLines(s)]
                           /\ UNCHANGED maker
    [] s.step = "sheet" -> /\ p = s.promotion /\ p \in Alive
                           /\ table' = [table EXCEPT ![p].sheet = SentSheet(s)] /\ UNCHANGED maker

(* A request is carried out and answered, or carried out, or neither; the  *)
(* form is told of a failure and keeps what it has.                        *)
Request(s) ==
  /\ s.step # "done"
  /\ \/ \E p \in Promotion :
          /\ Carry(s, p)
          /\ \/ saves' = (saves \ {s}) \cup {[s EXCEPT !.promotion = p, !.step = Following(s)]}
             \/ saves' = saves \ {s}
     \/ saves' = saves \ {s} /\ UNCHANGED <<table, maker>>
  /\ UNCHANGED <<items, form, imports, gets, purpose, resets, moves>>

(* The form is emptied, whatever it holds by then, and the list loaded.    *)
Saved(s) ==
  /\ s.step = "done"
  /\ saves' = saves \ {s}
  /\ Fill(None)
  /\ lines' = None /\ choices' = None /\ sheet' = None /\ status' = "idle" /\ token' = token + 1
  /\ items' = Alive
  /\ UNCHANGED <<table, imports, gets, maker, resets, moves>>

(* remove and restore, of an administrator; the list is loaded anew.       *)
Remove(p) ==
  /\ p \in items \cap Alive /\ Move
  /\ table' = [table EXCEPT ![p].deleted = TRUE]
  /\ items' = items \ {p}
  /\ UNCHANGED <<form, imports, gets, saves, history>>

Restore(p) ==
  /\ p \in Made \ Alive /\ Move
  /\ table' = [table EXCEPT ![p].deleted = FALSE]
  /\ items' = Alive \cup {p}
  /\ UNCHANGED <<form, imports, gets, saves, history>>

Next ==
  \/ ChooseFile \/ Imported \/ ChooseSheet \/ Reset \/ Save
  \/ \E p \in Promotion : Edit(p) \/ Remove(p) \/ Restore(p)
  \/ \E p \in gets : Opened(p)
  \/ \E s \in saves : Request(s) \/ Saved(s)

(* Every price list is read, or refused, some time.                        *)
Fairness == WF_vars(Imported)
Spec == Init /\ [][Next]_vars /\ Fairness
-----------------------------------------------------------------------------
Saving == [id : 0 .. Moves, step : {"promotion", "lines", "sheet", "done"},
           promotion : Promotion \cup {None}, opening : Nat,
           lines : Lines \cup {None}, sheet : Nat \cup {None}]

TypeOK ==
  /\ table \in [Promotion -> {None} \cup Entry]
  /\ items \subseteq Made /\ gets \subseteq Made
  /\ editing \in Made \cup {None} /\ opening \in Nat /\ token \in Nat
  /\ {lines, choices} \subseteq Lines \cup {None} /\ sheet \in Nat \cup {None}
  /\ status \in {"idle", "reading", "ready", "failed"}
  /\ imports \subseteq Lines
  /\ saves \subseteq Saving /\ \A s \in saves : s.promotion \in Made \cup {None}
  /\ purpose \subseteq Nat \X (Promotion \cup {None})
  /\ maker \in [Promotion -> Nat \cup {None}]
  /\ resets \subseteq Nat /\ moves \in 0 .. Moves

(* The lines were read in a form opened for promotion p, or in the one it  *)
(* was made from.                                                          *)
ReadFor(l, p) == <<l.opening, p>> \in purpose \/ maker[p] = l.opening

(* A price list that is read late, or a promotion that is fetched late,    *)
(* does not put the lines of one promotion into the form of another, nor   *)
(* are the stones chosen for other lines than those shown (importToken).   *)
LinesBelong ==
  /\ lines # None => lines.opening = opening \/ (editing # None /\ ReadFor(lines, editing))
  /\ lines # None => choices = lines

(* However savings overlap, fail half way and are tried again, a promotion *)
(* gets lines that were read for it (save).                                *)
PromotionsKeepLines == \A p \in Made : table[p].lines # None => ReadFor(table[p].lines, p)

(* A sheet in the form was chosen in it.  The exception is Reset, which    *)
(* empties the form but not the two sheet fields: a sheet chosen for the   *)
(* promotion that was in the form is then in the form of a new one, until  *)
(* another is opened or the form is saved (Reset, edit, save).             *)
SheetsOfForm ==
  sheet # None => \/ sheet = opening
                  \/ sheet \in resets /\ opening = sheet + 1 /\ editing = None

(* The sheet was chosen in a form opened for promotion p, or in the one it *)
(* was made from, or in the one whose reset led to the latter.             *)
ChosenFor(n, p) ==
  \/ <<n, p>> \in purpose
  \/ maker[p] = n
  \/ n \in resets /\ maker[p] = n + 1

(* However savings overlap, fail half way and are tried again, a promotion *)
(* that is edited gets a sheet that was chosen for it, and a new one gets  *)
(* a sheet chosen in its form or in the one reset just before it.          *)
PromotionsKeepSheets == \A p \in Made : table[p].sheet # None => ChosenFor(table[p].sheet, p)

(* Lines go to the promotion they were read for, and so do sheets, but for *)
(* those a reset leaves to the next new promotion.                         *)
LinesAndSheets == LinesBelong /\ PromotionsKeepLines /\ SheetsOfForm /\ PromotionsKeepSheets

(* The page does not go on reading, with the button to save disabled.      *)
ReadingEnds == status = "reading" ~> status # "reading"
=============================================================================
