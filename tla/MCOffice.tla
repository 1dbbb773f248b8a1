------------------------------- MODULE MCOffice -------------------------------
(* A small instance of Office for TLC, scene by scene.                     *)
EXTENDS OfficeBooks, TLC

CONSTANTS r1, r2, r3, i1, i2, OldPurchase, OldSession, ClosedSession, OldTicket, SpareTicket, d1, d2,
  s1, s2, OldOrder, q1, q2, t1, u1, u2, OldCode, OldSms, OldToken, wave, sms, e1

Symmetric == Permutations(Requests)

Scene(calls, atOnce, faults) ==
  [calls |-> calls, atOnce |-> atOnce, faults |-> faults, clock |-> FALSE]
Timed(s) == [s EXCEPT !.clock = TRUE]

MCOpening == (i1 :> 1) @@ (i2 :> 2)
MCOldRows == {OldPurchase, OldSession, ClosedSession, OldTicket, SpareTicket}
MCPurchases == OldPurchase :> [item |-> i1, quantity |-> 2, status |-> "PENDING"]
MCSessions ==
  OldSession :> [status |-> "DRAFT", adjusted |-> FALSE,
                 lines |-> (i1 :> [system |-> 1, counted |-> 2, discrepancy |-> 1])
                           @@ (i2 :> [system |-> 2, counted |-> Uncounted, discrepancy |-> 0])]
  @@ ClosedSession :> [status |-> "COMPLETED", adjusted |-> FALSE,
                       lines |-> i1 :> [system |-> 2, counted |-> 1, discrepancy |-> -1]]
MCTickets == (OldTicket :> [number |-> 1, status |-> "IN_REPAIR"])
             @@ (SpareTicket :> [number |-> 2, status |-> "IMPOSSIBLE"])
MCDepots == (d1 :> TRUE) @@ (d2 :> FALSE)

Row(i, q, s) == [item |-> i, quantity |-> q, status |-> s]
Receiving == {[op |-> "receivePurchase", id |-> OldPurchase]}
PurchaseChanges ==
  {[op |-> "updatePurchase", id |-> OldPurchase, row |-> Row(i1, 1, "PENDING")],
   [op |-> "updatePurchase", id |-> OldPurchase, row |-> Row(NoItem, 1, "PENDING")],
   [op |-> "deletePurchase", id |-> OldPurchase]}
PurchaseNew == {[op |-> "createPurchase", row |-> Row(i, 1, "PENDING")] : i \in {i2, NoItem}}
Count(i, n) == [op |-> "countLine", id |-> OldSession, item |-> i, count |-> n]
Stocktaking == {Count(i2, 0), [op |-> "completeSession", id |-> OldSession],
                [op |-> "applySession", id |-> OldSession]}
NewSession == {[op |-> "createSession"], [op |-> "applySession", id |-> ClosedSession]} \cup {[op |-> "completeSession", id |-> r] : r \in Requests}
OnePart == <<[item |-> i1, quantity |-> 1]>>
TwoParts == OnePart \o <<[item |-> i2, quantity |-> 2]>>
Repair(s, p) == [op |-> "ticketStatus", id |-> OldTicket, status |-> s, usedParts |-> p]
Repairs == {Repair("READY", OnePart), Repair("DELIVERED", TwoParts)}
TwiceOnePart == <<[item |-> i2, quantity |-> 1], [item |-> i2, quantity |-> 1]>>
OtherRepairs == {Repair("IN_REPAIR", OnePart), Repair("DELIVERED", <<>>), Repair("READY", TwiceOnePart)}
Refurbishing == {[op |-> "convertTicket", id |-> SpareTicket]}
NewTicket == {[op |-> "createTicket"]}
Removals == {[op |-> "removeItem", item |-> i] : i \in {i1, i2}}
DepotChanges == {[op |-> "createDepot", main |-> b] : b \in BOOLEAN}
                \cup {[op |-> "updateDepot", id |-> d, main |-> b] : d \in {d1, d2}, b \in BOOLEAN}
                \cup {[op |-> "removeDepot", id |-> d1]}

ShopScenes ==
  {Scene(Receiving \cup PurchaseChanges \cup Repairs \cup Stocktaking, 1, TRUE),
   Scene(Receiving \cup PurchaseChanges \cup PurchaseNew \cup Repairs \cup OtherRepairs
         \cup Stocktaking \cup NewSession \cup Refurbishing \cup NewTicket \cup Removals, 1, FALSE),
   Scene(Receiving \cup PurchaseChanges \cup Removals, 2, TRUE),
   Scene(Stocktaking \cup Removals \cup {Count(i1, 0)}, 2, TRUE),
   Scene(Repairs \cup Removals, 2, TRUE),
   Scene(Receiving \cup Repairs, 2, FALSE),
   Scene(Refurbishing \cup NewTicket \cup {[op |-> "removeItem", item |-> r] : r \in Requests}, 2, FALSE),
   Scene(DepotChanges, 1, TRUE),
   Scene(DepotChanges, 2, FALSE)}

MCSheets == (s1 :> NoSheet) @@ (s2 :> s1)
MCOrders == OldOrder :> [number |-> 1, price |-> 2, advance |-> 1, sheet |-> s1, invoice |-> NoInvoice]

SheetChanges ==
  {[op |-> "createSheet", parent |-> p] : p \in {s1, s2, NoSheet} \cup Requests}
  \cup {[op |-> "removeSheet", id |-> s1]}
SheetMoves == {[op |-> "updateSheet", id |-> s1, parent |-> s2], [op |-> "removeSheet", id |-> s2]}
NewOrders == {[op |-> "createOrder", price |-> 2, advance |-> 1, sheet |-> s] : s \in {s1, NoSheet}}
Orders == {OldOrder} \cup Requests
Payments == {[op |-> "payOrder", id |-> o, amount |-> 1] : o \in Orders}
OrderEdits == {[op |-> "orderStatus", id |-> OldOrder, advance |-> a] : a \in {Kept, 2}}
              \cup {[op |-> "updateOrder", id |-> OldOrder, price |-> 1, advance |-> Kept]}
OrderDeletion == {[op |-> "removeOrder", id |-> OldOrder]}
Migration == {[op |-> "migrateOrders"]}

TailorScenes ==
  {Scene(SheetChanges \cup SheetMoves, 1, FALSE),
   Scene(SheetChanges, 2, TRUE),
   Scene(NewOrders \cup Payments \cup OrderEdits \cup OrderDeletion \cup Migration
         \cup SheetChanges, 1, FALSE),
   Scene(NewOrders \cup OrderDeletion \cup Migration, 1, TRUE),
   Scene({[op |-> "payOrder", id |-> OldOrder, amount |-> 1]} \cup OrderEdits \cup Migration, 2, TRUE),
   Scene(NewOrders \cup OrderDeletion \cup {[op |-> "removeSheet", id |-> s1]}, 2, FALSE)}

Quote(n, t, c, s, l) == [number |-> n, tenant |-> t, client |-> c, duration |-> 12, total |-> 5,
                         status |-> s, lapsed |-> l]
MCQuotes == (q1 :> Quote(1, NoTenant, t1, "ACCEPTED", TRUE)) @@ (q2 :> Quote(2, t1, NoTenant, "DRAFT", FALSE))
MCTenants == t1 :> [active |-> FALSE, ends |-> 0]

QuoteEdits ==
  {[op |-> "updateQuote", id |-> q1, duration |-> 6, total |-> n] : n \in {-1, 3}}
  \cup {[op |-> "quoteStatus", id |-> q1, status |-> s] : s \in {"DRAFT", "SENT", "ACCEPTED", "CONVERTED"}}
Converting == {[op |-> "convertQuote", id |-> q] : q \in {q1, q2} \cup Requests}
              \cup {[op |-> "removeQuote", id |-> q] : q \in {q1, q2}}
NewQuotes == {[op |-> "createQuote", tenant |-> t, client |-> NoTenant, duration |-> 1, total |-> 2]
              : t \in {t1, NoTenant}}

QuoteScenes ==
  {Scene(QuoteEdits \cup Converting \cup NewQuotes, 1, FALSE),
   Scene(QuoteEdits \cup Converting, 1, TRUE),
   Scene(NewQuotes \cup {[op |-> "quoteStatus", id |-> q1, status |-> "SENT"],
          [op |-> "convertQuote", id |-> q1], [op |-> "removeQuote", id |-> q1]}, 2, FALSE)}

User(m, p, t) ==
  [email |-> m, phone |-> p, space |-> Global, active |-> TRUE, mustChange |-> FALSE, password |-> None,
   totp |-> t, secret |-> IF t THEN u1 ELSE None, backups |-> IF t THEN BackupsOf(u1) ELSE {},
   attempts |-> IF t THEN 4 ELSE 0, session |-> IF t THEN OldToken ELSE None]
MCUsers == (u1 :> User("m1", "p1", TRUE)) @@ (u2 :> User("m2", "p2", FALSE))
MCRoles == [u \in {u1, u2} |-> "SUPER_ADMIN"]

Changes(ops, ids) == {[op |-> o, actor |-> a, id |-> i] : o \in ops, a \in {u1, u2}, i \in ids}
Roles(ids) == {[op |-> "memberRole", actor |-> u1, id |-> i, role |-> n] : i \in ids, n \in TeamRoles}
Hiring(mails) == {[op |-> "createMember", actor |-> u1, email |-> m, phone |-> "p3", role |-> "SUPER_ADMIN"]
                  : m \in mails}
Renaming(mails) == {[op |-> "updateMember", actor |-> u1, id |-> u2, email |-> m] : m \in mails}

TeamScenes ==
  {Scene(Changes({"enableMember", "disableMember", "removeMember"}, {u1, u2}) \cup Roles({u1, u2}), 1, FALSE),
   Scene(Changes({"disableMember", "removeMember"}, {u1, u2}) \cup Roles({u2}), 1, TRUE),
   Scene(Hiring({"m2", "m3"}) \cup Renaming({"m1", "m2", "m3"})
         \cup Changes({"resetPassword", "disable2fa", "removeMember"}, {u1, u2}), 1, FALSE),
   Scene(Changes({"disableMember", "enableMember"}, {u1, u2}) \cup Roles({u2}), 2, FALSE),
   Scene(Hiring({"m3"}) \cup Renaming({"m3"}) \cup Roles({u2})
         \cup {[op |-> "removeMember", actor |-> u1, id |-> u2]}, 2, FALSE)}

MCOtps == ("m3" :> [code |-> OldCode, attempts |-> 4, recent |-> TRUE, expired |-> FALSE])
          @@ ("p3" :> [code |-> OldSms, attempts |-> 0, recent |-> FALSE, expired |-> FALSE])
MCPending == "m3" :> [phone |-> "p3", expired |-> FALSE]
MCSpaces == t1 :> 1

Registering(m) == {[op |-> "registerInit", email |-> m, phone |-> "p3"]}
Confirming(m, codes) == {[op |-> "registerConfirm", email |-> m, code |-> c] : c \in codes}
Texting(codes) == {[op |-> "sendSms", address |-> "p3"]}
                  \cup {[op |-> "verifySms", address |-> "p3", code |-> c] : c \in codes}
Verifying(codes, tokens) == {[op |-> "verifyTotp", id |-> u1, token |-> t, totp |-> c] : t \in tokens, c \in codes}
TotpCodes == {AppCode(u1), <<u1, 1>>, <<u1, 2>>, <<u2, 1>>}
LoggingIn == {[op |-> "login", email |-> m, password |-> None] : m \in {"m1", "m2", "m3"}}
OwnSettings ==
  {[op |-> "changePassword", id |-> u1, password |-> None], [op |-> "setupTotp", id |-> u1],
   [op |-> "disableTotp", id |-> u1, password |-> None, totp |-> AppCode(u2)]}
  \cup {[op |-> "enableTotp", id |-> u1, totp |-> AppCode(s)] : s \in {u1} \cup Requests}

AccountScenes ==
  {Timed(Scene(Registering("m3") \cup Registering("m1") \cup Confirming("m3", {OldCode} \cup Requests)
               \cup Confirming("m1", Requests) \cup Hiring({"m3"}), 1, FALSE)),
   Timed(Scene(Registering("m3") \cup Confirming("m3", {OldCode} \cup Requests), 2, FALSE)),
   Timed(Scene(Confirming("m3", {OldCode, OldSms}), 2, TRUE)),
   Timed(Scene(Texting({OldSms, OldCode} \cup Requests), 2, TRUE)),
   Scene(Verifying(TotpCodes, {OldToken} \cup Requests) \cup LoggingIn, 1, FALSE),
   Scene(Verifying({<<u1, 1>>, <<u2, 1>>}, {OldToken}) \cup LoggingIn, 2, TRUE),
   Scene(OwnSettings \cup LoggingIn \cup Changes({"resetPassword", "disable2fa", "removeMember"}, {u1}), 2, FALSE)}

Config(on) == [enabled |-> on, key |-> on, secret |-> on, hook |-> on, qr |-> FALSE]
MCProviders == wave :> Config(TRUE)
Configuring ==
  {[op |-> "upsertConfig", id |-> p, enabled |-> "keep", key |-> "on", secret |-> b, hook |-> FALSE]
     : p \in {wave, sms}, b \in BOOLEAN}
  \cup {[op |-> o, id |-> p] : p \in {wave, sms},
         o \in {"uploadQr", "revokeQr", "enableProvider", "disableProvider", "testProvider"}}
Notices == {[op |-> "webhook", id |-> wave, event |-> e1, signed |-> b] : b \in BOOLEAN}

ProviderScenes ==
  {Scene(Configuring \cup Notices, 1, FALSE),
   Scene(Notices \cup {[op |-> "disableProvider", id |-> wave]}, 2, TRUE),
   Scene({[op |-> "webhook", id |-> wave, event |-> e1, signed |-> TRUE]}, 3, TRUE)}

MCScenes == ShopScenes \cup TailorScenes \cup QuoteScenes \cup TeamScenes \cup AccountScenes
            \cup ProviderScenes
=============================================================================
