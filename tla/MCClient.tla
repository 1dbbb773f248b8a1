------------------------------ MODULE MCClient ------------------------------
(* The web client for TLC: one row at the start, three accounts.           *)
EXTENDS Client, ShopViews, ServiceViews, ConsoleViews

AllScreens == (SignIn :> SignInScreen) @@ ShopScreens @@ ServiceScreens @@ ConsoleScreens

CandidScreens == DOMAIN AllScreens \
  {SignIn, "purchases", "tickets", "policies", "hardware", "catalog", "quotes", "invoices", "employees"}
RefetchingScreens == {"depots", "team", "saasQuotes", "providers", "roles", "contacts"}
GuardedScreens == {"articles", "tickets", "orders", "fittings", "quotes", "invoices",
                   "prices", "subscription", "installments"}
=============================================================================
