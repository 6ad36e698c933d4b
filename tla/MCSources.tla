------------------------------ MODULE MCSources ------------------------------
(***************************************************************************)
(* Sources for TLC: pages of one invoice, previews of two pages, schedules *)
(* of at most MaxMovements rows; whole parts below ten.  The lists fill    *)
(* both pages or are longer than the preview, and shorter when an invoice  *)
(* is taken back.                                                          *)
(***************************************************************************)
EXTENDS Sources

CONSTANT MaxDraft

MCInvoice(id, residual) ==
  [id |-> id, residual |-> residual, type |-> "out_invoice", foreign |-> FALSE]

MCInvoiceLists ==
  {<<[MCInvoice("i1", 10000) EXCEPT !.type = "in_refund"], MCInvoice("i2", 10001)>>,
   <<[MCInvoice("i1", 74) EXCEPT !.type = "in_invoice"], MCInvoice("i2", 4)>>,
   <<[MCInvoice("i1", 500) EXCEPT !.foreign = TRUE],
     [MCInvoice("i2", 500) EXCEPT !.type = "entry"], MCInvoice("i3", 2001)>>}

MCNewInvoices == {MCInvoice("i9", 95)}

MCLedgerRow(ref, amount, date) == [ref |-> ref, amount |-> amount, date |-> date]

MCLedgerAnswers ==
  {<<MCLedgerRow("l1", 705, "inside"), MCLedgerRow("l1", -705, "inside"),
     MCLedgerRow("l2", 0, "inside"), MCLedgerRow("l3", 40, "outside")>>}

MCManualRows ==
  {[ref |-> Blank, amount |-> 950, date |-> "inside", kind |-> "financing",
    certainty |-> "proposed"]}

MCLine(kind, whole, fraction, certainty) ==
  [amount |-> [whole |-> whole, fraction |-> fraction, negative |-> FALSE],
   kind |-> kind, certainty |-> certainty]

MCFiles ==
  {<<MCLine("financing", 9, <<5>>, Blank)>>,
   <<MCLine("receipt", 10, <<>>, Blank), MCLine("payment", 0, <<0, 1>>, "estimated")>>}

Bounded == Len(draft) <= MaxDraft
=============================================================================
