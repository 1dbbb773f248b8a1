SPECIFICATION Spec
CONSTANTS
  r1 = r1
  r2 = r2
  r3 = r3
  r4 = r4
  i1 = i1
  i2 = i2
  OldQuote = OldQuote
  OldInvoice = OldInvoice
  NoDoc = NoDoc
  NoItem = NoItem
  Requests = {r1, r2, r3, r4}
  Items = {i1, i2}
  Lines <- TwoLines
  Total = 2
  Opening <- Stocked
  Scenes <- Mixed
INVARIANTS TypeOK DistinctNumbers ConvertedAccepted PaidDeducted StockExplained PaymentsRecorded DeductedOnceApart
