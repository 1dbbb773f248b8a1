SPECIFICATION ClientSpec
CONSTANTS
  Described <- AllScreens
  Row = "s1"
  NewRows = {"n1", "n2", "n3"}
  LocalRows = {"l1", "l2", "l3", "l4"}
  MaxCalls = 2
  MaxTrouble = 1
  Candid <- CandidScreens
  Refetching <- RefetchingScreens
  Guarded <- GuardedScreens
  Accounts = {"manager", "shop", "new"}
  Console = {"manager"}
  TwoFactor = {"manager"}
  Joining = {"new"}
  Starting = {"shop"}
  Nobody = Nobody
  MaxSent = 3
CHECK_DEADLOCK FALSE
INVARIANTS ClientTypeOK ShowsOnlyStored ShowsTheTable OneAtATime ViewOfSession
PROPERTY UsableAgain
