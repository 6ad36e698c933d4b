SPECIFICATION Spec
CONSTANTS
  WholeLimit = 10
  Blank = Blank
  PageSize = 1
  MaxInvoices = 2
  MaxMovements = 2
  MaxDraft = 2
  MaxChanges = 1
  InvoiceLists <- MCInvoiceLists
  NewInvoices <- MCNewInvoices
  LedgerAnswers <- MCLedgerAnswers
  ManualRows <- MCManualRows
  Files <- MCFiles
CONSTRAINT Bounded
INVARIANTS
  NoRecordTwice
  CutIsAnnounced
  ExportReimports
CHECK_DEADLOCK FALSE
