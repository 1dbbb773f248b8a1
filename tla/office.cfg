SPECIFICATION Spec
CONSTANTS
  r1 = r1
  r2 = r2
  r3 = r3
  i1 = i1
  i2 = i2
  d1 = d1
  d2 = d2
  q1 = q1
  q2 = q2
  t1 = t1
  u1 = u1
  u2 = u2
  OldCode = OldCode
  OldSms = OldSms
  OldToken = OldToken
  wave = wave
  sms = sms
  e1 = e1
  NoTenant = NoTenant
  s1 = s1
  s2 = s2
  OldOrder = OldOrder
  NoSheet = NoSheet
  NoInvoice = NoInvoice
  OldPurchase = OldPurchase
  OldSession = OldSession
  ClosedSession = ClosedSession
  OldTicket = OldTicket
  SpareTicket = SpareTicket
  NoItem = NoItem
  Requests = {r1, r2, r3}
  Scenes <- MCScenes
  Opening <- MCOpening
  OldRows <- MCOldRows
  OldPurchases <- MCPurchases
  OldSessions <- MCSessions
  OldTickets <- MCTickets
  OldDepots <- MCDepots
  OldSheets <- MCSheets
  OldOrders <- MCOrders
  MaxRestarts = 1
  OldQuotes <- MCQuotes
  OldTenants <- MCTenants
  OldUsers <- MCUsers
  OldRoles <- MCRoles
  Emails = {"m1", "m2", "m3"}
  Phones = {"p1", "p2", "p3"}
  BackupCodes = 2
  OldOtps <- MCOtps
  SmsAddresses = {"p3"}
  OldPending <- MCPending
  OldSpaces <- MCSpaces
  OldTokens = {OldToken}
  OldProviders <- MCProviders
  SmsProviders = {sms}
  Supported = {wave, sms}
  Events = {e1}
SYMMETRY Symmetric
INVARIANTS TypeOK ReceivedOnce SessionsSettled PartsBacked PartsDeductedOnce OneMainDepot ShelfExplained AdvanceWithinPrice OrderInvoiceAgree QuoteConvertedOnce AdminRemains OtpOnce RegisteredOnce TotpOnce WebhookOnce
CHECK_DEADLOCK FALSE
