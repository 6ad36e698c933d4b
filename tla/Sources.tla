------------------------------- MODULE Sources -------------------------------
(***************************************************************************)
(* Importing cash movements (web/sources.go, app.js): previews of the      *)
(* invoices of Odoo, read page by page while the company goes on working,  *)
(* and of the monthly forecasts of Ledger; the console that marks what was *)
(* imported before and adds what the user picks; the save that refuses a   *)
(* source record twice; and the CSV export with the import that reads it.  *)
(* Odoo and Ledger are external.  One forecast and one editor; the saves   *)
(* of other editors are the business of Store.  One preview at a time: the *)
(* console lets one of each source run, and shows each of them at once.    *)
(*                                                                         *)
(* The picker is a modal dialog over the editor, but an editor that is     *)
(* opened by an action that was waited for, or from the detail of what was *)
(* saved meanwhile, replaces the draft with the picker still open, and may *)
(* lie over it.  So nothing the user does asks whether the picker is open. *)
(***************************************************************************)
EXTENDS Money, FiniteSets

CONSTANTS
  InvoiceLists,        \* what Odoo may hold at first, in the order it lists
  NewInvoices,         \* what may be posted later
  LedgerAnswers,       \* what Ledger may answer
  ManualRows,          \* what the user may enter
  Files,               \* CSV files the user may have written
  PageSize,            \* 100
  MaxInvoices,         \* 5000, a number of whole pages
  MaxMovements,        \* 5000
  MaxChanges,          \* bound: how often the invoices change
  Blank                \* an empty text

Kinds == {"receipt", "payment", "financing"}

Certainties == {"contracted", "estimated", "committed", "conditional", "proposed"}

(* A file may say anything, or nothing.                                    *)
AnyKind == Kinds \cup {"unknown"}

AnyCertainty == Certainties \cup {"unknown", Blank}

(* An invoice: its amount_residual, its move_type, and whether it is in    *)
(* another currency than the forecast.                                     *)
Invoice == [id : STRING, type : STRING, foreign : BOOLEAN, residual : Int]

(* A monthly forecast: the reference is made of the month and the category *)
(* alone; the date, the end of that month, is inside the horizon or not.   *)
Forecast == [ref : STRING, amount : Int, date : {"inside", "outside"}]

(* A movement, of a draft or saved: the rest of it is left out.            *)
Movement == [ref : STRING \cup {Blank}, kind : AnyKind, amount : Int,
             certainty : AnyCertainty, date : {Blank, "inside", "outside"}]

(* A row of a CSV file.                                                    *)
Line == [kind : AnyKind, amount : Text, certainty : AnyCertainty]

ASSUME SourcesAssumption ==
  /\ Blank \notin Certainties
  /\ InvoiceLists \subseteq Seq(Invoice) /\ NewInvoices \subseteq Invoice
  /\ \A list \in LedgerAnswers : list \in Seq(Forecast)
  /\ ManualRows \subseteq Movement /\ \A m \in ManualRows : m.ref = Blank
  /\ Files \subseteq Seq(Line)
  /\ PageSize \in Nat \ {0} /\ MaxInvoices \in Nat /\ MaxMovements \in Nat
  /\ MaxInvoices > 0 /\ MaxInvoices % PageSize = 0 /\ MaxChanges \in Nat

VARIABLES
  invoices,            \* the posted invoices of the company, as Odoo lists them
  changes,             \* how often they changed
  reading,             \* the preview being made
  picker,              \* the source picker is open
  shown,               \* sourcePreview, with its warnings and boxes
  draft,               \* movements of the editor
  saved,               \* movements of the stored forecast
  replaced             \* history: the draft is another than the boxes were drawn for

vars == <<invoices, changes, reading, picker, shown, draft, saved, replaced>>

NoReading == [state |-> "none"]

(* The warnings: the foreign invoices, and "Preview limited to 5,000".     *)
NothingShown == [rows |-> <<>>, boxes |-> {}, foreign |-> {}, limited |-> FALSE, claims |-> {}]

Init ==
  /\ invoices \in InvoiceLists /\ changes = 0
  /\ reading = NoReading /\ picker = FALSE /\ shown = NothingShown
  /\ draft = <<>> /\ saved = <<>> /\ replaced = FALSE

Elements(s) == {s[i] : i \in DOMAIN s}

(* The numbers of S in increasing order.                                   *)
Ascending(S) ==
  {f \in [1 .. Cardinality(S) -> S] :
     /\ \A j, k \in DOMAIN f : j < k => f[j] < f[k]
     /\ \A i \in S : \E j \in DOMAIN f : f[j] = i}

Refs(rows) == {rows[i].ref : i \in DOMAIN rows} \ {Blank}

-----------------------------------------------------------------------------
(* The company at work                                                     *)

Change == changes < MaxChanges /\ changes' = changes + 1

(* A new invoice is listed first; the others move on.                      *)
Post(inv) ==
  /\ Change
  /\ \A i \in DOMAIN invoices : invoices[i].id # inv.id
  /\ invoices' = <<inv>> \o invoices
  /\ UNCHANGED <<reading, picker, shown, draft, saved, replaced>>

(* An invoice that is paid stays in the list, with nothing outstanding.  A *)
(* preview that is being made promises nothing of it any more.             *)
Pay(i) ==
  /\ Change
  /\ invoices[i].residual > 0
  /\ invoices' = [invoices EXCEPT ![i].residual = 0]
  /\ reading' = IF reading.state = "none" THEN reading
                ELSE [reading EXCEPT !.claims = @ \ {invoices[i]}]
  /\ UNCHANGED <<picker, shown, draft, saved, replaced>>

(* An invoice that is taken back leaves the list, and the later ones move  *)
(* up: the next page begins one too late and a preview that is being made  *)
(* may lack any of them.                                                   *)
TakeBack(i) ==
  /\ Change
  /\ invoices' = SubSeq(invoices, 1, i - 1) \o SubSeq(invoices, i + 1, Len(invoices))
  /\ reading' = IF reading.state = "none" THEN reading
                ELSE [reading EXCEPT !.claims = {}]
  /\ UNCHANGED <<picker, shown, draft, saved, replaced>>

-----------------------------------------------------------------------------
(* Server.preview                                                          *)

InvoiceKind(type) ==
  CASE type \in {"in_invoice", "out_refund"} -> "payment"
    [] type \in {"out_invoice", "in_refund"} -> "receipt"
    [] OTHER                                 -> Blank

Foreign(inv) == inv.residual > 0 /\ inv.foreign

Importable(inv) ==
  /\ inv.residual > 0 /\ ~inv.foreign
  /\ InvoiceKind(inv.type) # Blank
  /\ IsFloatMinor(inv.residual)

(* No due date is known: the user must give one.                           *)
InvoiceMovement(inv) ==
  [ref |-> inv.id, kind |-> InvoiceKind(inv.type), amount |-> FloatMinor(inv.residual),
   certainty |-> "contracted", date |-> Blank]

(* The movements of a page (the one sequence in this set).                 *)
Movements(list) ==
  {[n \in DOMAIN f |-> InvoiceMovement(list[f[n]])] :
     f \in Ascending({i \in DOMAIN list : Importable(list[i])})}

AskOdoo ==
  /\ picker /\ reading = NoReading
  /\ reading' = [state |-> "paging", offset |-> 0, rows |-> <<>>, foreign |-> {},
                 limited |-> FALSE, refs |-> Refs(draft), claims |-> Elements(invoices)]
  /\ UNCHANGED <<invoices, changes, picker, shown, draft, saved, replaced>>

Smaller(a, b) == IF a <= b THEN a ELSE b

Page(offset) == SubSeq(invoices, offset + 1, Smaller(offset + PageSize, Len(invoices)))

IsLastPageOrFull(page) == Len(page) <= PageSize

IsLastPage(page) == Len(page) < PageSize

ReadPage ==
  /\ reading.state = "paging"
  /\ LET page == Page(reading.offset)
         next == reading.offset + PageSize
     IN \E rows \in Movements(page) : reading' = [reading EXCEPT
          !.rows    = @ \o rows,
          !.foreign = @ \cup {page[i].id : i \in {j \in DOMAIN page : Foreign(page[j])}},
          !.limited = ~IsLastPage(page) /\ next = MaxInvoices,
          !.state   = IF IsLastPage(page) \/ next = MaxInvoices THEN "over" ELSE "paging",
          !.offset  = next]
  /\ UNCHANGED <<invoices, changes, picker, shown, draft, saved, replaced>>

(* 502: the pages read so far are dropped, the console shows what it did.  *)
ReadFails ==
  /\ reading.state \in {"paging", "over"}
  /\ reading' = NoReading
  /\ UNCHANGED <<invoices, changes, picker, shown, draft, saved, replaced>>

LedgerMovement(row) ==
  [ref |-> row.ref, kind |-> IF row.amount < 0 THEN "payment" ELSE "receipt",
   amount |-> Magnitude(row.amount), certainty |-> "estimated", date |-> row.date]

AskLedger(list) ==
  /\ picker /\ reading = NoReading
  /\ \E f \in Ascending({i \in DOMAIN list : list[i].amount # 0}) :
       reading' = [state |-> "over", offset |-> 0, foreign |-> {}, limited |-> FALSE,
                   rows |-> [n \in DOMAIN f |-> LedgerMovement(list[f[n]])],
                   refs |-> Refs(draft), claims |-> {}]
  /\ UNCHANGED <<invoices, changes, picker, shown, draft, saved, replaced>>

-----------------------------------------------------------------------------
(* The console: previewSource, picker, applySource, the editor             *)

ImportedWhenAsked == reading.refs

(* What counts as imported is read when the answer is there.               *)
Imported == Refs(draft)

(* The picker may have been closed, or opened again, meanwhile.            *)
Show ==
  /\ reading.state = "over"
  /\ shown' = [rows    |-> reading.rows,
               boxes   |-> {i \in DOMAIN reading.rows : reading.rows[i].ref \notin Imported},
               foreign |-> reading.foreign, limited |-> reading.limited,
               claims  |-> reading.claims]
  /\ reading' = NoReading
  /\ replaced' = FALSE
  /\ UNCHANGED <<invoices, changes, picker, draft, saved>>

OpenPicker ==
  /\ picker' = TRUE /\ shown' = NothingShown /\ replaced' = FALSE
  /\ UNCHANGED <<invoices, changes, reading, draft, saved>>

ClosePicker ==
  /\ picker
  /\ picker' = FALSE
  /\ UNCHANGED <<invoices, changes, reading, shown, draft, saved, replaced>>

(* The picked rows are added in their order, without those outside the     *)
(* horizon.                                                                *)
Apply(picks) ==
  /\ picker /\ shown.rows # <<>>
  /\ \E f \in Ascending({i \in picks : shown.rows[i].date # "outside"}) :
       draft' = draft \o [n \in DOMAIN f |-> shown.rows[f[n]]]
  /\ picker' = FALSE
  /\ UNCHANGED <<invoices, changes, reading, shown, saved, replaced>>

(* openEditor: the movements are those of the stored forecast.  The boxes  *)
(* of an open picker stay as they are.                                     *)
OpenEditor ==
  /\ draft' = saved
  /\ replaced' = picker
  /\ UNCHANGED <<invoices, changes, reading, picker, shown, saved>>

Remove(i) ==
  /\ draft' = SubSeq(draft, 1, i - 1) \o SubSeq(draft, i + 1, Len(draft))
  /\ UNCHANGED <<invoices, changes, reading, picker, shown, saved, replaced>>

Enter(m) ==
  /\ draft' = Append(draft, m)
  /\ UNCHANGED <<invoices, changes, reading, picker, shown, saved, replaced>>

(* The user gives the missing cash dates, and a reason for each.           *)
GiveDates ==
  /\ \E i \in DOMAIN draft : draft[i].date = Blank
  /\ draft' = [i \in DOMAIN draft |->
                 [draft[i] EXCEPT !.date = IF @ = Blank THEN "inside" ELSE @]]
  /\ UNCHANGED <<invoices, changes, reading, picker, shown, saved, replaced>>

-----------------------------------------------------------------------------
(* Validate, as far as it looks at movements                               *)

ValidCertainty(m) ==
  IF m.kind = "financing" THEN m.certainty \in {"committed", "conditional", "proposed"}
  ELSE m.certainty \in {"contracted", "estimated"}

DistinctRefs(rows) ==
  \A i, j \in DOMAIN rows : i # j /\ rows[i].ref # Blank => rows[i].ref # rows[j].ref

ValidIgnoringRefs(rows) ==
  /\ Len(rows) <= MaxMovements
  /\ \A i \in DOMAIN rows :
       /\ rows[i].date = "inside"
       /\ 0 < rows[i].amount /\ rows[i].amount <= MaxAmount
       /\ rows[i].kind \in Kinds
       /\ ValidCertainty(rows[i])

Valid(rows) == ValidIgnoringRefs(rows) /\ DistinctRefs(rows)

Save ==
  /\ Valid(draft)
  /\ saved' = draft
  /\ UNCHANGED <<invoices, changes, reading, picker, shown, draft, replaced>>

-----------------------------------------------------------------------------
(* csvExport, csvPreview, importCSV                                        *)

Export(rows) ==
  [i \in DOMAIN rows |-> [kind |-> rows[i].kind, amount |-> Decimal(rows[i].amount),
                          certainty |-> rows[i].certainty]]

(* Line 5002 is the first too many: line 1 is the header.                  *)
TooManyLines(file) == Len(file) > MaxMovements

(* One line without a positive amount refuses the file.                    *)
Readable(file) ==
  /\ ~TooManyLines(file)
  /\ \A i \in DOMAIN file : IsMoney(file[i].amount) /\ Money(file[i].amount) > 0

LineMovement(line) ==
  [ref |-> Blank, kind |-> line.kind, amount |-> Money(line.amount),
   certainty |-> IF line.certainty # Blank THEN line.certainty
                 ELSE IF line.kind = "financing" THEN "proposed" ELSE "estimated",
   date |-> "inside"]

CSVMovements(file) == [i \in DOMAIN file |-> LineMovement(file[i])]

ImportCSV(file) ==
  /\ Readable(file)
  /\ draft' = draft \o CSVMovements(file)
  /\ UNCHANGED <<invoices, changes, reading, picker, shown, saved, replaced>>

-----------------------------------------------------------------------------

Next ==
  \/ \E inv \in NewInvoices : Post(inv)
  \/ \E i \in DOMAIN invoices : Pay(i) \/ TakeBack(i)
  \/ AskOdoo \/ ReadPage \/ ReadFails \/ Show
  \/ \E list \in LedgerAnswers : AskLedger(list)
  \/ OpenPicker \/ ClosePicker
  \/ \E picks \in SUBSET shown.boxes : Apply(picks)
  \/ OpenEditor \/ GiveDates \/ Save
  \/ \E i \in DOMAIN draft : Remove(i)
  \/ \E m \in ManualRows : Enter(m)
  \/ \E file \in Files : ImportCSV(file)

Spec == Init /\ [][Next]_vars

-----------------------------------------------------------------------------

TypeOK ==
  /\ invoices \in Seq(Invoice)
  /\ picker \in BOOLEAN /\ replaced \in BOOLEAN
  /\ shown.rows \in Seq(Movement) /\ shown.boxes \subseteq DOMAIN shown.rows
  /\ draft \in Seq(Movement) /\ saved \in Seq(Movement)

(* No source record is in a saved schedule twice (README.md: "Importing    *)
(* the same source record twice is refused"), and none that the draft      *)
(* holds is offered again: not when a page moved while it was read, not    *)
(* when Ledger has two rows of a month and category, and not when the      *)
(* preview was asked for before the editor was opened anew.  (When the     *)
(* editor is opened anew after the boxes were drawn, with the picker open, *)
(* they are another draft's, and only the save refuses.)                   *)
NoRecordTwice ==
  /\ DistinctRefs(saved)
  /\ picker /\ ~replaced => \A i \in shown.boxes : shown.rows[i].ref \notin Refs(draft)

(* A preview is complete or says that it is not: every invoice that was    *)
(* outstanding from its beginning to its end is among its rows or among    *)
(* its warnings, unless the preview was cut at 5,000 and says so.  New     *)
(* invoices that move the list do not change this.  (Invoices of unknown   *)
(* type or above the limit of FloatMinor are left out without a warning.)  *)
CutIsAnnounced ==
  \A inv \in shown.claims :
    /\ Importable(inv) => shown.limited \/ InvoiceMovement(inv) \in Elements(shown.rows)
    /\ Foreign(inv) => shown.limited \/ inv.id \in shown.foreign

(* What was exported can be imported: a saved schedule of any length comes *)
(* back from its own CSV file with the kinds, amounts and certainties it   *)
(* had.  The one amount that is excepted is the largest that Validate      *)
(* accepts, which has a digit more than Money reads.                       *)
ExportReimports ==
  LET file == Export(saved)
  IN (\A i \in DOMAIN saved : saved[i].amount < MaxAmount) =>
       /\ Readable(file)
       /\ \A i \in DOMAIN saved :
            /\ CSVMovements(file)[i].kind = saved[i].kind
            /\ CSVMovements(file)[i].amount = saved[i].amount
            /\ CSVMovements(file)[i].certainty = saved[i].certainty
=============================================================================
