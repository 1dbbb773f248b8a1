SPECIFICATION Spec
CONSTANTS
  r1 = r1
  r2 = r2
  r3 = r3
  i1 = i1
  i2 = i2
  d1 = d1
  d2 = d2
  NoDepot = NoDepot
  NoRow = NoRow
  Items = {i1, i2}
  Depots = {d1, d2}
  Requests = {r1, r2}
  Apart = FALSE
  Faults = FALSE
  Calls <- SaleCalls
  OpeningItems = {i1}
  OpeningQuantity <- OneArticle
  OpeningBalance <- OneArticleBalance
  Amounts <- Shifts
INVARIANT SalesDecrement
