------------------------------ MODULE DeskProofs -------------------------------
(***************************************************************************)
(* Proofs about the parts of module Office that share nothing with the     *)
(* shop: the tailor's orders, the platform's quotes, its team and the      *)
(* accounts; and the types and references of the whole.                    *)
(***************************************************************************)
EXTENDS OfficeProofs

-----------------------------------------------------------------------------
(* Orders.  AdvanceWithinPrice is not inductive: a payment or a change of  *)
(* status writes what it read before, which must still fit the price, and  *)
(* an order that was deleted must not come back in between.                *)

(* The order is or was on file.                                            *)
Ordered(o) ==
  \/ o \in DOMAIN OldOrders
  \/ o \in Requests /\ call[o].op = "createOrder" /\ pc[o] = "done"

(* Nobody set the price or the advance of the order by hand.               *)
Fair(o) == Unrevised(o) /\ (o \in Requests => call[o].advance <= call[o].price)

(* What a request is about to write fits.                                  *)
Fits(r) ==
  At(r, {"payOrder", "orderStatus"}, "write") =>
    /\ Ordered(call[r].id)
    /\ call[r].id \in DOMAIN orders /\ Fair(call[r].id) =>
         IF call[r].op = "payOrder" THEN seen[r].advance + call[r].amount <= orders[call[r].id].price
                                    ELSE seen[r].advance <= orders[call[r].id].price

OrderFields == {"number", "price", "advance", "sheet", "invoice"}

OrderFits(o) == /\ Ordered(o) /\ DOMAIN orders[o] = OrderFields
                /\ Fair(o) => orders[o].advance <= orders[o].price

AdvanceInv ==
  /\ \A o \in DOMAIN orders : OrderFits(o)
  /\ \A r \in Requests : Fits(r)

(* The calls made so far stay as they are.                                 *)
Recalls == \A r \in Requests : call'[r] = call[r] \/ (pc[r] = "idle" /\ call[r] = NoCall)

LEMMA FairKept ==
  ASSUME Recalls, NEW o, Ordered(o)
  PROVE  Fair(o)' => Fair(o)
<1>1. \A r \in Requests : Asked(r, "updateOrder", o) => Asked(r, "updateOrder", o)'
  BY DEF Recalls, Asked, NoCall
<1>2. \A r \in Requests : Asked(r, "orderStatus", o) => Asked(r, "orderStatus", o)' /\ call'[r] = call[r]
  BY DEF Recalls, Asked, NoCall
<1>3. o \in Requests => call'[o] = call[o] \/ o \in DOMAIN OldOrders
  BY DEF Recalls, Ordered
<1>4. o \in Requests => call'[o] = call[o]
  BY <1>3, OrdersAssumption
<1>5. QED
  BY <1>1, <1>2, <1>4 DEF Fair, Unrevised

(* A step that writes no order.                                            *)
LEMMA AdvanceKept ==
  ASSUME AdvanceInv, Recalls, \A o : Ordered(o) => Ordered(o)',
         DOMAIN orders' = DOMAIN orders,
         \A o \in DOMAIN orders : /\ orders'[o].advance = orders[o].advance /\ orders'[o].price = orders[o].price
                                  /\ DOMAIN orders'[o] = DOMAIN orders[o],
         \A r \in Requests : At(r, {"payOrder", "orderStatus"}, "write")' =>
            Fits(r)' \/ (At(r, {"payOrder", "orderStatus"}, "write") /\ call'[r] = call[r] /\ seen'[r] = seen[r])
  PROVE  AdvanceInv'
<1>1. ASSUME NEW o \in DOMAIN orders' PROVE OrderFits(o)'
  BY <1>1, FairKept DEF AdvanceInv, OrderFits
<1>2. ASSUME NEW r \in Requests PROVE Fits(r)'
  <2>1. CASE At(r, {"payOrder", "orderStatus"}, "write") /\ call'[r] = call[r] /\ seen'[r] = seen[r]
    <3>1. Fits(r)
      BY DEF AdvanceInv
    <3>2. QED
      BY <2>1, <3>1, FairKept DEF Fits
  <2>2. QED
    BY <2>1 DEF Fits
<1>3. QED
  BY <1>1, <1>2 DEF AdvanceInv

(* The step of a request that has arrived and not ended.                   *)
LEMMA OrderedKept ==
  ASSUME ServerInv, NEW r \in Requests, Moves(r), pc[r] # "done", \A s \in Requests \ {r} : call'[s] = call[s]
  PROVE  \A o : Ordered(o) => Ordered(o)'
BY DEF Ordered, Moves

LEMMA AdvanceSame ==
  ASSUME ServerInv, AdvanceInv, UNCHANGED <<call, orders>>, NEW r \in Requests, Moves(r), r \in InFlight,
         ~At(r, {"payOrder", "orderStatus"}, "write")' \/ Fits(r)'
  PROVE  AdvanceInv'
<1>1. Recalls /\ \A o : Ordered(o) => Ordered(o)'
  BY OrderedKept DEF Recalls, InFlight, Ended
<1>2. \A s \in Requests : At(s, {"payOrder", "orderStatus"}, "write")' =>
        Fits(s)' \/ (At(s, {"payOrder", "orderStatus"}, "write") /\ call'[s] = call[s] /\ seen'[s] = seen[s])
  BY DEF Moves, At
<1>3. QED
  BY <1>1, <1>2, AdvanceKept

(* A step that writes the order o, and leaves what the others know of it.  *)
LEMMA AdvanceWritten ==
  ASSUME ServerInv, AdvanceInv, UNCHANGED call, NEW r \in Requests, Moves(r), r \in InFlight, pc'[r] # "write",
         NEW o, DOMAIN orders' \subseteq DOMAIN orders \cup {o}, o \in DOMAIN orders' => OrderFits(o)',
         \A q \in DOMAIN orders' \ {o} : orders'[q] = orders[q],
         \A s \in Requests : At(s, {"payOrder", "orderStatus"}, "write") /\ call[s].id = o /\ Fair(o) /\ o \in DOMAIN orders'
            => o \in DOMAIN orders /\ orders'[o].price = orders[o].price
  PROVE  AdvanceInv'
<1>1. Recalls /\ \A q : Ordered(q) => Ordered(q)'
  BY OrderedKept DEF Recalls, InFlight, Ended
<1>2. ASSUME NEW q \in DOMAIN orders' PROVE OrderFits(q)'
  <2>1. CASE q = o
    BY <1>2, <2>1
  <2>2. CASE q # o
    <3>1. OrderFits(q) /\ orders'[q] = orders[q]
      BY <1>2, <2>2 DEF AdvanceInv
    <3>2. QED
      BY <1>1, <3>1, FairKept DEF OrderFits
  <2>3. QED
    BY <2>1, <2>2
<1>3. ASSUME NEW s \in Requests PROVE Fits(s)'
  <2> SUFFICES ASSUME At(s, {"payOrder", "orderStatus"}, "write")' PROVE Fits(s)'
    BY DEF Fits
  <2>1. s # r
    BY DEF At
  <2>2. At(s, {"payOrder", "orderStatus"}, "write") /\ call'[s] = call[s] /\ seen'[s] = seen[s] /\ Fits(s)
    BY <2>1 DEF Moves, At, AdvanceInv
  <2>3. Ordered(call[s].id)
    BY <2>2 DEF Fits
  <2>4. Fair(call[s].id)' => Fair(call[s].id)
    BY <1>1, <2>3, FairKept
  <2>5. CASE call[s].id \in DOMAIN orders' /\ Fair(call[s].id)'
    <3>1. Fair(call[s].id) /\ call[s].id \in DOMAIN orders /\ orders'[call[s].id].price = orders[call[s].id].price
      BY <2>2, <2>4, <2>5
    <3>2. QED
      BY <1>1, <2>2, <3>1 DEF Fits
  <2>6. CASE ~(call[s].id \in DOMAIN orders' /\ Fair(call[s].id)')
    BY <1>1, <2>2, <2>3, <2>6 DEF Fits
  <2>7. QED
    BY <2>5, <2>6
<1>4. QED
  BY <1>2, <1>3 DEF AdvanceInv

LEMMA TailorStepAdvance ==
  ASSUME ServerInv, AdvanceInv, NEW r \in Requests, TailorStep(r), UNCHANGED call
  PROVE  AdvanceInv'
<1>0. Moves(r) /\ r \in InFlight
  BY TailorMoves
<1>a. Recalls /\ \A o : Ordered(o) => Ordered(o)'
  BY <1>0, OrderedKept DEF Recalls, InFlight, Ended
<1>b. \A o \in DOMAIN orders : DOMAIN orders[o] = OrderFields
  BY DEF AdvanceInv, OrderFits
<1>1. CASE FindParent(r) \/ CreateSheet(r) \/ FindSheet(r) \/ UpdateSheet(r) \/ CountOrders(r) \/ DrawInvoiceNumber(r)
           \/ CheckSheet(r) \/ CreateOrderInvoice(r) \/ ListOrphans(r) \/ DrawMigrationNumber(r) \/ SkipOrphan(r)
           \/ EndMigration(r)
  <2>1. UNCHANGED orders
    BY <1>1 DEF FindParent, CreateSheet, FindSheet, UpdateSheet, CountOrders, DrawInvoiceNumber, CheckSheet,
                CreateOrderInvoice, ListOrphans, DrawMigrationNumber, SkipOrphan, EndMigration, tailor
  <2>2. call[r].op \notin {"payOrder", "orderStatus"}
    BY <1>1 DEF FindParent, CreateSheet, FindSheet, UpdateSheet, CountOrders, DrawInvoiceNumber, CheckSheet,
                CreateOrderInvoice, ListOrphans, DrawMigrationNumber, SkipOrphan, EndMigration, At
  <2>3. QED
    BY <1>0, <2>1, <2>2, AdvanceSame DEF At
<1>2. CASE Collect(r)
  <2>1. UNCHANGED orders /\ pc'[r] = "done"
    BY <1>2, AnswerFacts DEF Collect
  <2>2. QED
    BY <1>0, <2>1, AdvanceSame DEF At
<1>3. CASE RemoveSheet(r)
  <2>1. CASE UNCHANGED orders
    BY <1>0, <1>3, <2>1, AdvanceSame DEF RemoveSheet, At
  <2>2. CASE \E gone : orders' = [o \in DOMAIN orders |->
                 IF orders[o].sheet \in gone THEN [orders[o] EXCEPT !.sheet = NoSheet] ELSE orders[o]]
    <3>1. DOMAIN orders' = DOMAIN orders
      BY <2>2
    <3>2. \A o \in DOMAIN orders : orders'[o] = orders[o] \/ orders'[o] = [orders[o] EXCEPT !.sheet = NoSheet]
      BY <2>2
    <3>3. \A o \in DOMAIN orders : /\ orders'[o].advance = orders[o].advance /\ orders'[o].price = orders[o].price
                                   /\ DOMAIN orders'[o] = DOMAIN orders[o]
      BY <1>b, <3>2 DEF OrderFields
    <3>4. call[r].op = "removeSheet"
      BY <1>3 DEF RemoveSheet, At
    <3>5. \A s \in Requests : At(s, {"payOrder", "orderStatus"}, "write")' =>
            At(s, {"payOrder", "orderStatus"}, "write") /\ call'[s] = call[s] /\ seen'[s] = seen[s]
      BY <1>0, <3>4 DEF Moves, At
    <3>6. QED
      BY <1>a, <3>1, <3>3, <3>5, AdvanceKept
  <2>3. QED
    BY <1>3, <2>1, <2>2 DEF RemoveSheet
<1>4. CASE CreateOrder(r)
  <2>1. call[r].op = "createOrder"
    BY <1>4 DEF CreateOrder, At
  <2>2. CASE UNCHANGED orders
    BY <1>0, <2>1, <2>2, AdvanceSame DEF At
  <2>3. CASE /\ Answer(r, "done")
             /\ orders' = Put(orders, r,
                 [number |-> seen[r].number, price |-> call[r].price, advance |-> call[r].advance,
                  sheet |-> call[r].sheet, invoice |-> <<r, r>>])
    <3>1. pc'[r] = "done"
      BY <2>3, AnswerFacts
    <3>2. /\ DOMAIN orders' = DOMAIN orders \cup {r} /\ \A q \in DOMAIN orders' \ {r} : orders'[q] = orders[q]
          /\ orders'[r] = [number |-> seen[r].number, price |-> call[r].price, advance |-> call[r].advance,
                           sheet |-> call[r].sheet, invoice |-> <<r, r>>]
      BY <2>3 DEF Put
    <3>3. ~Ordered(r)
      BY <1>0, OrdersAssumption DEF Ordered, InFlight, Ended
    <3>4. OrderFits(r)'
      BY <2>1, <3>1, <3>2 DEF OrderFits, Ordered, Fair, OrderFields
    <3>5. \A s \in Requests : At(s, {"payOrder", "orderStatus"}, "write") => call[s].id # r
      BY <3>3 DEF AdvanceInv, Fits
    <3>6. QED
      BY <1>0, <3>1, <3>2, <3>4, <3>5, AdvanceWritten
  <2>4. QED
    BY <1>4, <2>2, <2>3 DEF CreateOrder
<1>5. CASE FindOrder(r)
  <2>1. UNCHANGED orders
    BY <1>5 DEF FindOrder, tailor
  <2>2. CASE pc'[r] = "refused"
    BY <1>0, <2>1, <2>2, AdvanceSame DEF At
  <2>3. CASE /\ call[r].id \in DOMAIN orders /\ (call[r].op = "payOrder" => Payable(call[r].id, call[r].amount))
             /\ Keep(r, "write", [advance |-> orders[call[r].id].advance, invoice |-> orders[call[r].id].invoice])
    <3>1. seen'[r].advance = orders[call[r].id].advance
      BY <2>3, KeepFacts
    <3>2. OrderFits(call[r].id) /\ Ordered(call[r].id)'
      BY <1>a, <2>3 DEF AdvanceInv, OrderFits
    <3>3. Fair(call[r].id)' => Fair(call[r].id)
      BY <1>a, <3>2, FairKept DEF OrderFits
    <3>4. Fits(r)'
      BY <2>1, <2>3, <3>1, <3>2, <3>3 DEF Fits, OrderFits, Payable
    <3>5. QED
      BY <1>0, <2>1, <3>4, AdvanceSame
  <2>4. QED
    BY <1>5, <2>2, <2>3, AnswerFacts DEF FindOrder
<1>6. CASE PayAdvance(r) \/ SetOrderStatus(r) \/ UpdateOrder(r) \/ RemoveOrder(r)
  <2>1. pc[r] = "write" /\ pc'[r] \in {"done", "collect", "refused"}
    BY <1>6, AnswerFacts, GotoFacts DEF PayAdvance, SetOrderStatus, UpdateOrder, RemoveOrder, At
  <2>2. CASE UNCHANGED orders
    BY <1>0, <2>1, <2>2, AdvanceSame DEF At
  <2>3. CASE call[r].id \in DOMAIN orders /\ PayAdvance(r)
    <3> DEFINE o == call[r].id
    <3>1. orders' = [orders EXCEPT ![o].advance = seen[r].advance + call[r].amount] /\ At(r, {"payOrder"}, "write")
      BY <2>3 DEF PayAdvance
    <3>2. /\ DOMAIN orders' = DOMAIN orders /\ \A q \in DOMAIN orders \ {o} : orders'[q] = orders[q]
          /\ orders'[o] = [orders[o] EXCEPT !.advance = seen[r].advance + call[r].amount]
      BY <2>3, <3>1
    <3>3. /\ DOMAIN orders'[o] = OrderFields /\ orders'[o].advance = seen[r].advance + call[r].amount
          /\ orders'[o].price = orders[o].price
      BY <1>b, <2>3, <3>2 DEF OrderFields
    <3>4. Fits(r) /\ At(r, {"payOrder", "orderStatus"}, "write") /\ call[r].op = "payOrder"
      BY <3>1 DEF AdvanceInv, At
    <3>5. Ordered(o) /\ (Fair(o) => seen[r].advance + call[r].amount <= orders[o].price)
      BY <2>3, <3>4 DEF Fits
    <3>6. OrderFits(o)'
      BY <1>a, <3>3, <3>5, FairKept DEF OrderFits
    <3>7. QED
      BY <1>0, <2>1, <2>3, <3>2, <3>3, <3>6, AdvanceWritten
  <2>4. CASE call[r].id \in DOMAIN orders /\ SetOrderStatus(r)
    <3> DEFINE o == call[r].id
               given == IF call[r].advance = Kept THEN seen[r].advance ELSE call[r].advance
    <3>1. orders' = [orders EXCEPT ![o].advance = given] /\ At(r, {"orderStatus"}, "write")
      BY <2>4 DEF SetOrderStatus
    <3>2. /\ DOMAIN orders' = DOMAIN orders /\ \A q \in DOMAIN orders \ {o} : orders'[q] = orders[q]
          /\ orders'[o] = [orders[o] EXCEPT !.advance = given]
      BY <2>4, <3>1
    <3>3. DOMAIN orders'[o] = OrderFields /\ orders'[o].advance = given /\ orders'[o].price = orders[o].price
      BY <1>b, <2>4, <3>2 DEF OrderFields
    <3>4. Fits(r) /\ At(r, {"payOrder", "orderStatus"}, "write") /\ call[r].op = "orderStatus"
      BY <3>1 DEF AdvanceInv, At
    <3>5. Ordered(o) /\ (Fair(o) => seen[r].advance <= orders[o].price)
      BY <2>4, <3>4 DEF Fits
    <3>6. Fair(o) => call[r].advance = Kept
      BY <3>4 DEF Fair, Unrevised, Asked
    <3>7. OrderFits(o)'
      BY <1>a, <3>3, <3>5, <3>6, FairKept DEF OrderFits
    <3>8. QED
      BY <1>0, <2>1, <2>4, <3>2, <3>3, <3>7, AdvanceWritten
  <2>5. CASE call[r].id \in DOMAIN orders /\ UpdateOrder(r)
    <3> DEFINE o == call[r].id
    <3>1. /\ orders' = [orders EXCEPT ![o].price = call[r].price,
                 ![o].advance = IF call[r].advance = Kept THEN @ ELSE call[r].advance]
          /\ At(r, {"updateOrder"}, "write")
      BY <2>5 DEF UpdateOrder
    <3>2. /\ DOMAIN orders' = DOMAIN orders /\ \A q \in DOMAIN orders \ {o} : orders'[q] = orders[q]
          /\ DOMAIN orders'[o] = OrderFields
      BY <1>b, <2>5, <3>1 DEF OrderFields
    <3>3. ~Fair(o) /\ ~Fair(o)'
      BY <3>1 DEF Fair, Unrevised, Asked, At
    <3>4. OrderFits(o) /\ OrderFits(o)'
      BY <1>a, <2>5, <3>2, <3>3 DEF OrderFits, AdvanceInv
    <3>5. QED
      BY <1>0, <2>1, <3>2, <3>3, <3>4, AdvanceWritten
  <2>6. CASE call[r].id \in DOMAIN orders /\ RemoveOrder(r)
    <3>1. orders' = Without(orders, call[r].id)
      BY <2>6 DEF RemoveOrder
    <3>2. DOMAIN orders' = DOMAIN orders \ {call[r].id} /\ \A q \in DOMAIN orders' : orders'[q] = orders[q]
      BY <3>1 DEF Without
    <3>3. QED
      BY <1>0, <2>1, <3>2, AdvanceWritten
  <2>7. QED
    BY <1>6, <2>2, <2>3, <2>4, <2>5, <2>6 DEF PayAdvance, SetOrderStatus, UpdateOrder, RemoveOrder
<1>7. CASE LinkInvoice(r)
  <2>1. call[r].op = "migrateOrders"
    BY <1>7 DEF LinkInvoice, At
  <2>2. CASE UNCHANGED orders
    BY <1>0, <2>1, <2>2, AdvanceSame DEF At
  <2>3. CASE \E o \in DOMAIN orders : \E v : orders' = [orders EXCEPT ![o].invoice = v]
    <3>1. DOMAIN orders' = DOMAIN orders
      BY <2>3
    <3>2. \A o \in DOMAIN orders : orders'[o] = orders[o] \/ \E v : orders'[o] = [orders[o] EXCEPT !.invoice = v]
      BY <2>3
    <3>3. \A o \in DOMAIN orders : /\ orders'[o].advance = orders[o].advance /\ orders'[o].price = orders[o].price
                                   /\ DOMAIN orders'[o] = DOMAIN orders[o]
      BY <1>b, <3>2 DEF OrderFields
    <3>4. \A s \in Requests : At(s, {"payOrder", "orderStatus"}, "write")' =>
            At(s, {"payOrder", "orderStatus"}, "write") /\ call'[s] = call[s] /\ seen'[s] = seen[s]
      BY <1>0, <2>1 DEF Moves, At
    <3>5. QED
      BY <1>a, <3>1, <3>3, <3>4, AdvanceKept
  <2>4. QED
    BY <1>7, <2>2, <2>3 DEF LinkInvoice
<1>8. QED
  BY <1>1, <1>2, <1>3, <1>4, <1>5, <1>6, <1>7 DEF TailorStep

LEMMA AdvanceStart == Init => AdvanceInv
BY OrdersAssumption DEF Init, TailorInit, ServerInit, AdvanceInv, OrderFits, Ordered, Fits, At, OrderFields, OrderRow

LEMMA AdvanceNext ==
  ASSUME ServerInv, AdvanceInv, [Next]_vars
  PROVE  AdvanceInv'
<1>1. CASE UNCHANGED <<pc, call, seen, orders>>
  BY <1>1 DEF AdvanceInv, OrderFits, Ordered, Fair, Unrevised, Asked, Fits, At
<1>2. ASSUME NEW r \in Requests, Request(r) PROVE AdvanceInv'
  <2>1. CASE (Arrive(r) \/ Fail(r)) /\ UNCHANGED tables
    <3>1. /\ Moves(r) /\ pc'[r] \in {"start", "failed"} /\ pc[r] # "done" /\ \A s \in Requests \ {r} : call'[s] = call[s]
          /\ call'[r] = call[r] \/ (pc[r] = "idle" /\ call[r] = NoCall)
      BY <2>1, ArriveFacts, FailFacts DEF InFlight, Ended
    <3>2. Recalls /\ \A o : Ordered(o) => Ordered(o)'
      BY <3>1, OrderedKept DEF Recalls
    <3>3. UNCHANGED orders
      BY <2>1 DEF tables, tailor
    <3>4. \A s \in Requests : At(s, {"payOrder", "orderStatus"}, "write")' =>
            At(s, {"payOrder", "orderStatus"}, "write") /\ call'[s] = call[s] /\ seen'[s] = seen[s]
      BY <3>1 DEF Moves, At
    <3>5. QED
      BY <3>2, <3>3, <3>4, AdvanceKept
  <2>2. CASE TailorStep(r) /\ UNCHANGED call
    BY <2>2, TailorStepAdvance
  <2>3. CASE UNCHANGED <<call, tailor>> /\ Moves(r) /\ r \in InFlight /\ call[r].op \notin TailorOps
    BY <2>3, AdvanceSame DEF tailor, TailorOps, At
  <2>4. QED
    BY <1>2, <2>1, <2>2, <2>3, Disjoint, RequestCases
<1>3. CASE Restart
  <2>1. /\ UNCHANGED <<call, orders>>
        /\ \A r \in Requests : IF r \in InFlight THEN pc'[r] = "failed" ELSE pc'[r] = pc[r]
    BY <1>3, RestartFacts DEF tailor
  <2>2. Recalls /\ \A o : Ordered(o) => Ordered(o)'
    BY <2>1 DEF Recalls, Ordered, InFlight, Ended
  <2>3. \A s \in Requests : ~At(s, {"payOrder", "orderStatus"}, "write")'
    BY <2>1 DEF At, InFlight, Ended
  <2>4. QED
    BY <2>1, <2>2, <2>3, AdvanceKept
<1>4. QED
  BY <1>1, <1>2, <1>3 DEF Next, Clock, vars, serverVars, tailor

(* 'Le paiement depasse le solde restant' (tailleur-measurement.service.   *)
(* ts:200): however payments and changes of status overlap, fail or are    *)
(* cut short, they never take the advance of an order above its price.     *)
THEOREM PaymentsWithinPrice == Spec => []AdvanceWithinPrice
<1>1. AdvanceInv => AdvanceWithinPrice
  BY DEF AdvanceInv, OrderFits, Fair, AdvanceWithinPrice
<1>2. Init => ServerInv /\ AdvanceInv
  BY ServerStart, AdvanceStart
<1>3. ServerInv /\ AdvanceInv /\ [Next]_vars => (ServerInv /\ AdvanceInv)'
  BY ServerStep, AdvanceNext
<1>4. QED
  BY <1>1, <1>2, <1>3, PTL DEF Spec

-----------------------------------------------------------------------------
(* Quotes.  What is on file is a row of the schema, and so is what a       *)
(* request read of it.                                                     *)
QuoteHandlers == {"quoteStatus", "convertQuote", "updateQuote", "removeQuote"}

(* The requests that are to write a quote.                                 *)
Holding(r) == At(r, QuoteHandlers, "write") \/ At(r, {"convertQuote"}, "audit") \/ At(r, {"convertQuote"}, "commit")

(* The quote is or was on file.                                            *)
Filed(q) ==
  \/ q \in DOMAIN OldQuotes
  \/ q \in Requests /\ call[q].op = "createQuote" /\ pc[q] \in {"audit", "done", "failed", "refused"}

ReadRow(r) ==
  /\ At(r, {"createQuote"}, "write") => seen[r].count \in Nat /\ call[r].total >= 0
  /\ At(r, {"updateQuote"}, "write") => call[r].total >= 0
  /\ Holding(r) => seen[r] \in QuoteRow /\ Filed(call[r].id)

QuoteRowsInv ==
  /\ QuotesTypeOK
  /\ \A q \in DOMAIN quotes : Filed(q)
  /\ \A r \in Requests : ReadRow(r)

(* QuoteConvertedOnce is not inductive: a quote that is read to be         *)
(* changed, converted or removed is not converted yet.                     *)
QuoteSettled(q) ==
  /\ \E r : Conversions(q) = {r}
  /\ q \in DOMAIN quotes /\ Converted(q)
  /\ quotes[q].tenant # NoTenant => subscriptions[quotes[q].tenant].active

QuoteInv ==
  Apart =>
    /\ \A q \in QuoteIds : Conversions(q) # {} => QuoteSettled(q)
    /\ \A r \in Requests : Holding(r) => Conversions(call[r].id) = {}

LEMMA FiledKept ==
  ASSUME ServerInv, NEW r \in Requests, Moves(r), \A s \in Requests \ {r} : call'[s] = call[s],
         call'[r] = call[r] \/ pc[r] = "idle",
         call[r].op = "createQuote" /\ pc[r] = "audit" => pc'[r] \in {"done", "failed"},
         pc[r] \notin Ended
  PROVE  \A q : Filed(q) => Filed(q)'
BY DEF Filed, Moves, Ended

(* A step that leaves the quotes alone.                                    *)
LEMMA QuoteRowsKept ==
  ASSUME QuoteRowsInv, UNCHANGED quoting, \A q : Filed(q) => Filed(q)', \A r \in Requests : ReadRow(r)'
  PROVE  QuoteRowsInv'
BY DEF QuoteRowsInv, QuotesTypeOK, quoting, QuoteIds, Tenants, QuoteRow, QuoteStatuses

LEMMA ReadRowsKept ==
  ASSUME ServerInv, QuoteRowsInv, NEW r \in Requests, Moves(r), \A s \in Requests \ {r} : call'[s] = call[s],
         \A q : Filed(q) => Filed(q)'
  PROVE  \A s \in Requests \ {r} : ReadRow(s)'
<1> SUFFICES ASSUME NEW s \in Requests \ {r} PROVE ReadRow(s)'
  OBVIOUS
<1>1. ReadRow(s) /\ pc'[s] = pc[s] /\ call'[s] = call[s] /\ seen'[s] = seen[s]
  BY DEF QuoteRowsInv, Moves
<1>2. QED
  BY <1>1 DEF ReadRow, Holding, At

LEMMA QuoteIdsFinite == IsFiniteSet(QuoteIds) /\ \A S \in SUBSET QuoteIds : Cardinality(S) \in Nat
BY QuotesAssumption, RequestsAssumption, FS_Union, FS_Subset, FS_CardinalityType DEF QuoteIds

LEMMA QuoteStepRows ==
  ASSUME ServerInv, Asking, QuoteRowsInv, NEW r \in Requests, QuoteStep(r), UNCHANGED call
  PROVE  QuoteRowsInv'
<1>0. Moves(r) /\ r \in InFlight /\ call[r] \in QuoteCalls
  BY QuoteMoves, CallsTyped
<1>a. pc[r] \notin Ended
  BY <1>0 DEF InFlight
<1>b. call[r].op = "createQuote" /\ pc[r] = "audit" => pc'[r] \in {"done", "failed"}
  BY AnswerFacts DEF QuoteStep, CountQuotes, CreateQuote, FindQuote, SetQuoteStatus, UpdateQuote, RemoveQuote,
                     AuditQuote, ConvertQuote, At
<1>c. \A q : Filed(q) => Filed(q)'
  BY <1>0, <1>a, <1>b, FiledKept
<1>d. \A s \in Requests \ {r} : ReadRow(s)'
  BY <1>0, <1>c, ReadRowsKept
<1>e. quotes \in [DOMAIN quotes -> QuoteRow] /\ DOMAIN quotes \subseteq QuoteIds /\ \A q \in DOMAIN quotes : Filed(q)
  BY DEF QuoteRowsInv, QuotesTypeOK
<1>f. subscriptions \in [Tenants -> [active : BOOLEAN, ends : Nat]]
  BY DEF QuoteRowsInv, QuotesTypeOK
<1>1. CASE CountQuotes(r)
  <2>1. /\ UNCHANGED quoting /\ call[r].op = "createQuote"
        /\ \/ pc'[r] = "refused"
           \/ pc'[r] = "write" /\ seen'[r] = [count |-> Cardinality(DOMAIN quotes)] /\ call[r].total >= 0
    BY <1>1, KeepFacts, AnswerFacts DEF CountQuotes, At
  <2>2. Cardinality(DOMAIN quotes) \in Nat
    BY <1>e, QuoteIdsFinite
  <2>3. ReadRow(r)'
    BY <2>1, <2>2 DEF ReadRow, Holding, At, QuoteHandlers
  <2>4. QED
    BY <1>c, <1>d, <2>1, <2>3, QuoteRowsKept
<1>2. CASE FindQuote(r)
  <2>1. UNCHANGED quoting /\ call[r].op \in QuoteHandlers
    BY <1>2 DEF FindQuote, At, QuoteHandlers
  <2>2. \/ pc'[r] = "refused"
        \/ /\ call[r].id \in DOMAIN quotes /\ seen'[r] = quotes[call[r].id]
           /\ call[r].op = "updateQuote" => call[r].total >= 0
    <3>1. \/ Refuse(r)
          \/ /\ call[r].id \in DOMAIN quotes
             /\ call[r].op = "updateQuote" => call[r].total >= 0
             /\ \E l \in {"audit", "write"} : Keep(r, l, quotes[call[r].id])
      BY <1>2 DEF FindQuote, At
    <3>2. QED
      BY <3>1, KeepFacts, AnswerFacts
  <2>3. ReadRow(r)'
    <3>1. CASE pc'[r] = "refused"
      BY <3>1 DEF ReadRow, Holding, At
    <3>2. CASE /\ call[r].id \in DOMAIN quotes /\ seen'[r] = quotes[call[r].id]
               /\ call[r].op = "updateQuote" => call[r].total >= 0
      <4>1. seen'[r] \in QuoteRow /\ Filed(call[r].id)'
        BY <1>c, <1>e, <3>2 
      <4>2. QED
        BY <2>1, <3>2, <4>1 DEF ReadRow, Holding, At, QuoteHandlers
    <3>3. QED
      BY <2>2, <3>1, <3>2
  <2>4. QED
    BY <1>c, <1>d, <2>1, <2>3, QuoteRowsKept
<1>3. CASE AuditQuote(r)
  <2>1. /\ UNCHANGED seen \/ pc'[r] = "done"
        /\ pc[r] = "audit"
        /\ (pc'[r] = "done" \/ (pc'[r] = "commit" /\ call[r].op = "convertQuote"))
    BY <1>3, GotoFacts, AnswerFacts DEF AuditQuote, At
  <2>2. ReadRow(r) /\ UNCHANGED quoting
    BY <1>3 DEF QuoteRowsInv, AuditQuote
  <2>3. ReadRow(r)'
    BY <1>c, <2>1, <2>2 DEF ReadRow, Holding, At, QuoteRow, Tenants, QuoteStatuses
  <2>4. QED
    BY <1>c, <1>d, <2>2, <2>3, QuoteRowsKept
<1>4. CASE CreateQuote(r)
  <2>1. CASE UNCHANGED quoting
    <3>1. call[r].op = "createQuote" /\ pc'[r] \in {"audit", "refused"}
      BY <1>4, GotoFacts, AnswerFacts DEF CreateQuote, At
    <3>2. ReadRow(r)'
      BY <3>1 DEF ReadRow, Holding, At, QuoteHandlers
    <3>3. QED
      BY <1>c, <1>d, <2>1, <3>2, QuoteRowsKept
  <2>2. CASE /\ Goto(r, "audit") /\ UNCHANGED subscriptions
             /\ \A q \in DOMAIN quotes : quotes[q].number # seen[r].count + 1
             /\ quotes' = Put(quotes, r,
                 [number |-> seen[r].count + 1, tenant |-> call[r].tenant, client |-> call[r].client,
                  duration |-> call[r].duration, total |-> call[r].total,
                  status |-> "DRAFT", lapsed |-> FALSE])
    <3>1. pc'[r] = "audit" /\ call[r].op = "createQuote" /\ At(r, {"createQuote"}, "write")
      BY <1>4, <2>2, GotoFacts DEF CreateQuote, At
    <3>2. seen[r].count \in Nat /\ call[r].total >= 0
      BY <3>1 DEF QuoteRowsInv, ReadRow
    <3>3. /\ call[r].tenant \in Tenants \cup {NoTenant} /\ call[r].client \in Tenants \cup {NoTenant}
          /\ call[r].duration \in Nat /\ call[r].total \in Int
      BY <1>0, <3>1 DEF QuoteCalls
    <3> DEFINE row == [number |-> seen[r].count + 1, tenant |-> call[r].tenant, client |-> call[r].client,
                       duration |-> call[r].duration, total |-> call[r].total, status |-> "DRAFT", lapsed |-> FALSE]
    <3>4. row \in QuoteRow /\ row.number = seen[r].count + 1
      BY <3>2, <3>3 DEF QuoteRow, QuoteStatuses
    <3>5. quotes' = Put(quotes, r, row)
      BY <2>2
    <3> HIDE DEF row
    <3>6. /\ DOMAIN quotes' = DOMAIN quotes \cup {r} /\ quotes' \in [DOMAIN quotes' -> QuoteRow]
          /\ quotes'[r] = row /\ \A q \in DOMAIN quotes \ {r} : quotes'[q] = quotes[q]
      BY <1>e, <3>4, <3>5 DEF Put
    <3>7. \A q, p \in DOMAIN quotes' : quotes'[q].number = quotes'[p].number => q = p
      <4>1. \A q \in DOMAIN quotes : quotes[q].number # row.number
        BY <2>2, <3>4
      <4>2. \A q, p \in DOMAIN quotes : quotes[q].number = quotes[p].number => q = p
        BY DEF QuoteRowsInv, QuotesTypeOK
      <4>3. QED
        BY <3>6, <4>1, <4>2
    <3>8. Filed(r)' /\ ReadRow(r)'
      BY <3>1 DEF Filed, ReadRow, Holding, At, QuoteHandlers
    <3>9. QuotesTypeOK'
      BY <1>e, <1>f, <2>2, <3>6, <3>7 DEF QuotesTypeOK, QuoteIds
    <3>10. QED
      BY <1>c, <1>d, <1>e, <3>6, <3>8, <3>9 DEF QuoteRowsInv
  <2>3. QED
    BY <1>4, <2>1, <2>2 DEF CreateQuote, quoting
<1>5. CASE SetQuoteStatus(r) \/ UpdateQuote(r) \/ ConvertQuote(r)
  <2>1. /\ pc'[r] \in {"audit", "refused", "done"}
        /\ call[r].op # "convertQuote" \/ pc'[r] # "audit"
        /\ call[r].op # "createQuote"
    BY <1>5, GotoFacts, AnswerFacts DEF SetQuoteStatus, UpdateQuote, ConvertQuote, At
  <2>2. ReadRow(r)'
    BY <2>1 DEF ReadRow, Holding, At
  <2>3. CASE UNCHANGED quoting
    BY <1>c, <1>d, <2>2, <2>3, QuoteRowsKept
  <2>4. ASSUME NEW q \in DOMAIN quotes, NEW row \in QuoteRow, row.number = quotes[q].number,
               quotes' = [quotes EXCEPT ![q] = row], subscriptions' \in [Tenants -> [active : BOOLEAN, ends : Nat]]
        PROVE  QuoteRowsInv'
    <3>1. /\ DOMAIN quotes' = DOMAIN quotes /\ quotes' \in [DOMAIN quotes' -> QuoteRow]
          /\ \A p \in DOMAIN quotes : quotes'[p].number = quotes[p].number
      BY <1>e, <2>4
    <3>2. QuotesTypeOK'
      BY <1>e, <2>4, <3>1 DEF QuoteRowsInv, QuotesTypeOK
    <3>3. QED
      BY <1>c, <1>d, <1>e, <2>2, <3>1, <3>2 DEF QuoteRowsInv
  <2>5. CASE SetQuoteStatus(r) /\ call[r].id \in DOMAIN quotes
    <3> DEFINE q == call[r].id
               s == IF Lapses(r) THEN "EXPIRED" ELSE call[r].status
    <3>1. quotes' = [quotes EXCEPT ![q].status = s] /\ call[r].op = "quoteStatus" /\ UNCHANGED subscriptions
      BY <2>5 DEF SetQuoteStatus, At
    <3>2. s \in QuoteStatuses
      BY <1>0, <3>1 DEF QuoteCalls, QuoteStatuses
    <3> HIDE DEF s
    <3>3. quotes[q] \in QuoteRow /\ quotes' = [quotes EXCEPT ![q] = [quotes[q] EXCEPT !.status = s]]
      BY <1>e, <2>5, <3>1
    <3>4. [quotes[q] EXCEPT !.status = s] \in QuoteRow /\ [quotes[q] EXCEPT !.status = s].number = quotes[q].number
      BY <3>2, <3>3 DEF QuoteRow
    <3>5. QED
      BY <1>f, <2>4, <2>5, <3>1, <3>3, <3>4
  <2>6. CASE UpdateQuote(r) /\ call[r].id \in DOMAIN quotes
    <3> DEFINE q == call[r].id
               row == [quotes[q] EXCEPT !.duration = call[r].duration, !.total = call[r].total]
    <3>1. /\ quotes' = [quotes EXCEPT ![q].duration = call[r].duration, ![q].total = call[r].total]
          /\ At(r, {"updateQuote"}, "write") /\ UNCHANGED subscriptions
      BY <2>6 DEF UpdateQuote
    <3>2. call[r].duration \in Nat /\ call[r].total \in Nat
      <4>1. call[r].total >= 0
        BY <3>1 DEF QuoteRowsInv, ReadRow
      <4>2. call[r].duration \in Nat /\ call[r].total \in Int
        BY <1>0, <3>1 DEF QuoteCalls, At
      <4>3. QED
        BY <4>1, <4>2
    <3>3. quotes[q] \in QuoteRow /\ quotes' = [quotes EXCEPT ![q] = row]
      BY <1>e, <2>6, <3>1
    <3>4. row \in QuoteRow /\ row.number = quotes[q].number
      BY <3>2, <3>3 DEF QuoteRow
    <3>5. QED
      BY <1>f, <2>4, <2>6, <3>1, <3>3, <3>4
  <2>7. CASE ConvertQuote(r) /\ call[r].id \in DOMAIN quotes
    <3> DEFINE q == call[r].id
               t == Target(seen[r])
               row == [quotes[q] EXCEPT !.status = "CONVERTED", !.tenant = t]
    <3>1. /\ At(r, {"convertQuote"}, "commit")
          /\ quotes' = [quotes EXCEPT ![q].status = "CONVERTED", ![q].tenant = t]
          /\ subscriptions' = IF t = NoTenant THEN subscriptions
                     ELSE [subscriptions EXCEPT ![t] = [active |-> TRUE, ends |-> seen[r].duration]]
      BY <2>7 DEF ConvertQuote
    <3>2. seen[r] \in QuoteRow
      BY <3>1 DEF QuoteRowsInv, ReadRow, Holding
    <3>3. t \in Tenants \cup {NoTenant} /\ seen[r].duration \in Nat
      BY <3>2 DEF Target, QuoteRow
    <3> HIDE DEF t
    <3>4. quotes[q] \in QuoteRow /\ quotes' = [quotes EXCEPT ![q] = row]
      BY <1>e, <2>7, <3>1
    <3>5. row \in QuoteRow /\ row.number = quotes[q].number
      BY <3>3, <3>4 DEF QuoteRow, QuoteStatuses
    <3>6. subscriptions' \in [Tenants -> [active : BOOLEAN, ends : Nat]]
      BY <1>f, <3>1, <3>3
    <3>7. QED
      BY <2>4, <2>7, <3>4, <3>5, <3>6
  <2>8. QED
    BY <1>5, <2>3, <2>5, <2>6, <2>7 DEF SetQuoteStatus, UpdateQuote, ConvertQuote, quoting
<1>6. CASE RemoveQuote(r)
  <2>1. pc'[r] \in {"refused", "done"}
    BY <1>6, AnswerFacts DEF RemoveQuote
  <2>2. ReadRow(r)'
    BY <2>1 DEF ReadRow, Holding, At
  <2>3. UNCHANGED subscriptions /\ (quotes' = quotes \/ quotes' = Without(quotes, call[r].id))
    BY <1>6 DEF RemoveQuote
  <2>4. DOMAIN quotes' \subseteq DOMAIN quotes /\ quotes' \in [DOMAIN quotes' -> QuoteRow]
        /\ \A q \in DOMAIN quotes' : quotes'[q] = quotes[q]
    BY <1>e, <2>3 DEF Without
  <2>5. QuotesTypeOK'
    BY <1>e, <1>f, <2>3, <2>4 DEF QuoteRowsInv, QuotesTypeOK
  <2>6. QED
    BY <1>c, <1>d, <1>e, <2>2, <2>4, <2>5 DEF QuoteRowsInv
<1>7. QED
  BY <1>1, <1>2, <1>3, <1>4, <1>5, <1>6 DEF QuoteStep

LEMMA QuoteRowsOther ==
  ASSUME ServerInv, QuoteRowsInv, NEW r \in Requests, Moves(r), \A s \in Requests \ {r} : call'[s] = call[s],
         UNCHANGED quoting, pc[r] \notin Ended,
         \/ call'[r] = call[r] /\ call[r].op \notin QuoteOps
         \/ call'[r] = call[r] /\ pc'[r] = "failed"
         \/ pc[r] = "idle" /\ pc'[r] = "start"
  PROVE  QuoteRowsInv'
<1>1. \A q : Filed(q) => Filed(q)'
  BY FiledKept DEF QuoteOps
<1>2. \A s \in Requests \ {r} : ReadRow(s)'
  BY <1>1, ReadRowsKept
<1>3. ReadRow(r)'
  BY DEF ReadRow, Holding, At, QuoteOps, QuoteHandlers
<1>4. QED
  BY <1>1, <1>2, <1>3, QuoteRowsKept

LEMMA QuoteRowsStart == Init => QuoteRowsInv
BY QuotesAssumption DEF Init, QuotesInit, ServerInit, QuoteRowsInv, QuotesTypeOK, QuoteIds, Tenants, Filed, ReadRow, Holding, At

LEMMA QuoteRowsNext ==
  ASSUME ServerInv, Asking, QuoteRowsInv, [Next]_vars
  PROVE  QuoteRowsInv'
<1>1. CASE UNCHANGED <<pc, call, seen, quoting>>
  <2>1. \A q : Filed(q) => Filed(q)'
    BY <1>1 DEF Filed
  <2>2. \A r \in Requests : ReadRow(r)'
    BY <1>1, <2>1 DEF QuoteRowsInv, ReadRow, Holding, At
  <2>3. QED
    BY <1>1, <2>1, <2>2, QuoteRowsKept
<1>2. ASSUME NEW r \in Requests, Request(r) PROVE QuoteRowsInv'
  <2>1. CASE Arrive(r) /\ UNCHANGED tables
    BY <2>1, ArriveFacts, QuoteRowsOther DEF tables, Ended
  <2>2. CASE Fail(r) /\ UNCHANGED tables
    BY <2>2, FailFacts, QuoteRowsOther DEF tables, InFlight
  <2>3. CASE QuoteStep(r) /\ UNCHANGED call
    BY <2>3, QuoteStepRows
  <2>4. CASE UNCHANGED <<call, quoting>> /\ Moves(r) /\ r \in InFlight /\ call[r].op \notin QuoteOps
    BY <2>4, QuoteRowsOther DEF InFlight
  <2>5. QED
    BY <1>2, <2>1, <2>2, <2>3, <2>4, Disjoint, RequestCases
<1>3. CASE Restart
  <2>1. /\ UNCHANGED <<call, quoting>>
        /\ \A r \in Requests : IF r \in InFlight THEN pc'[r] = "failed" ELSE pc'[r] = pc[r]
    BY <1>3, RestartFacts
  <2>2. \A q : Filed(q) => Filed(q)'
    BY <2>1 DEF Filed, InFlight, Ended
  <2>3. \A r \in Requests : ReadRow(r)'
    BY <2>1 DEF ReadRow, Holding, At, InFlight, Ended
  <2>4. QED
    BY <2>1, <2>2, <2>3, QuoteRowsKept
<1>4. QED
  BY <1>1, <1>2, <1>3 DEF Next, Clock, vars, serverVars

LEMMA QuoteKept ==
  ASSUME QuoteInv, UNCHANGED <<scene, quoting>>, \A q : Conversions(q)' = Conversions(q),
         Apart => \A r \in Requests : Holding(r)' => Conversions(call'[r].id) = {}
  PROVE  QuoteInv'
<1> SUFFICES ASSUME Apart PROVE /\ \A q \in QuoteIds : Conversions(q)' # {} => QuoteSettled(q)'
                                /\ \A r \in Requests : Holding(r)' => Conversions(call[r].id)' = {}
  BY DEF QuoteInv, Apart, Holding
<1>1. ASSUME NEW q \in QuoteIds, Conversions(q)' # {} PROVE QuoteSettled(q)'
  BY <1>1 DEF QuoteInv, QuoteSettled, quoting, Converted
<1>2. ASSUME NEW r \in Requests, Holding(r)' PROVE Conversions(call[r].id)' = {}
  <2>1. Conversions(call'[r].id) = {}
    BY <1>2
  <2>2. \A q : Conversions(q)' = {} <=> Conversions(q) = {}
    OBVIOUS
  <2>3. QED
    BY <2>1, <2>2 DEF Conversions
<1>3. QED
  BY <1>1, <1>2

(* A step of a request that has converted nothing when it ends.            *)
LEMMA ConversionsKept ==
  ASSUME ServerInv, NEW r \in Requests, Moves(r), \A s \in Requests \ {r} : call'[s] = call[s],
         pc[r] # "done", call'[r].op # "convertQuote" \/ pc'[r] # "done"
  PROVE  \A q : Conversions(q)' = Conversions(q)
BY DEF Conversions, Moves

(* A step that writes one quote, which was not converted.                  *)
LEMMA QuoteWritten ==
  ASSUME ServerInv, AloneInv, QuoteRowsInv, QuoteInv, UNCHANGED <<scene, call>>,
         NEW r \in Requests, Moves(r), r \in InFlight, ~Holding(r)', NEW q, Apart => Conversions(q) = {},
         \A p \in DOMAIN quotes \ {q} : p \in DOMAIN quotes' /\ quotes'[p] = quotes[p],
         \A t \in Tenants : subscriptions[t].active => subscriptions'[t].active,
         \A p : p # q => Conversions(p)' = Conversions(p),
         Apart /\ Conversions(q)' # {} => QuoteSettled(q)'
  PROVE  QuoteInv'
<1> SUFFICES ASSUME Apart PROVE /\ \A p \in QuoteIds : Conversions(p)' # {} => QuoteSettled(p)'
                                /\ \A s \in Requests : Holding(s)' => Conversions(call[s].id)' = {}
  BY DEF QuoteInv, Apart
<1>1. ASSUME NEW p \in QuoteIds, Conversions(p)' # {} PROVE QuoteSettled(p)'
  <2>1. CASE p = q
    BY <1>1, <2>1
  <2>2. CASE p # q
    <3>1. Conversions(p)' = Conversions(p) /\ QuoteSettled(p)
      BY <1>1, <2>2 DEF QuoteInv
    <3>2. p \in DOMAIN quotes => quotes[p].tenant \in Tenants \cup {NoTenant}
      BY DEF QuoteRowsInv, QuotesTypeOK, QuoteRow
    <3>3. QED
      BY <2>2, <3>1, <3>2 DEF QuoteSettled, Converted
  <2>3. QED
    BY <2>1, <2>2
<1>2. ASSUME NEW s \in Requests PROVE ~Holding(s)'
  <2>1. CASE s # r
    <3>1. s \notin InFlight /\ pc'[s] = pc[s]
      BY <2>1 DEF AloneInv, Moves
    <3>2. QED
      BY <3>1 DEF Holding, At, InFlight, Ended
  <2>2. QED
    BY <2>1
<1>3. QED
  BY <1>1, <1>2

LEMMA QuoteStepOnce ==
  ASSUME ServerInv, AloneInv, QuoteRowsInv, QuoteInv, NEW r \in Requests, QuoteStep(r), UNCHANGED <<scene, call>>
  PROVE  QuoteInv'
<1>0. Moves(r) /\ r \in InFlight /\ pc[r] # "done"
  BY QuoteMoves DEF InFlight, Ended
<1>a. ASSUME Apart, NEW s \in Requests \ {r} PROVE ~Holding(s)'
  <2>1. s \notin InFlight /\ pc'[s] = pc[s]
    BY <1>0, <1>a DEF AloneInv, Moves
  <2>2. QED
    BY <2>1 DEF Holding, At, InFlight, Ended
<1>b. call[r].op # "convertQuote" \/ pc'[r] # "done" => \A q : Conversions(q)' = Conversions(q)
  BY <1>0, ConversionsKept
<1>c. ASSUME Apart, Holding(r) PROVE Conversions(call[r].id) = {}
  BY <1>c DEF QuoteInv
<1>1. CASE CountQuotes(r) \/ AuditQuote(r)
  <2>1. /\ UNCHANGED quoting /\ (pc'[r] = "done" => call[r].op # "convertQuote")
        /\ Holding(r)' => Holding(r)
    BY <1>1, AnswerFacts, GotoFacts, KeepFacts DEF CountQuotes, AuditQuote, Holding, At, QuoteHandlers
  <2>2. QED
    BY <1>a, <1>b, <1>c, <2>1, QuoteKept
<1>2. CASE FindQuote(r)
  <2>1. UNCHANGED quoting
    BY <1>2 DEF FindQuote
  <2>2. /\ pc'[r] # "done"
        /\ pc'[r] = "refused" \/ (call[r].id \in DOMAIN quotes /\ ~Converted(call[r].id))
    <3>1. \/ Refuse(r)
          \/ /\ call[r].id \in DOMAIN quotes /\ ~Converted(call[r].id)
             /\ \E l \in {"audit", "write"} : Keep(r, l, quotes[call[r].id])
      BY <1>2 DEF FindQuote, At, MayBecome, Convertible, Converted
    <3>2. QED
      BY <3>1, AnswerFacts, KeepFacts
  <2>3. ASSUME Apart, Holding(r)' PROVE Conversions(call[r].id) = {}
    <3>1. call[r].id \in QuoteIds /\ ~Converted(call[r].id)
      BY <2>2, <2>3 DEF Holding, At, QuoteRowsInv, QuotesTypeOK
    <3>2. QED
      BY <2>3, <3>1 DEF QuoteInv, QuoteSettled
  <2>4. QED
    BY <1>a, <1>b, <2>1, <2>2, <2>3, QuoteKept
<1>3. CASE CreateQuote(r)
  <2>1. call[r].op = "createQuote" /\ pc[r] = "write"
    BY <1>3 DEF CreateQuote, At
  <2>2. ~Holding(r)'
    BY <2>1 DEF Holding, At, QuoteHandlers
  <2>3. CASE UNCHANGED quoting
    BY <1>a, <1>b, <2>1, <2>2, <2>3, QuoteKept
  <2>4. CASE UNCHANGED subscriptions /\ \E row : quotes' = Put(quotes, r, row)
    <3>1. r \notin DOMAIN quotes
      <4>1. ~Filed(r)
        BY <2>1, QuotesAssumption DEF Filed
      <4>2. QED
        BY <4>1 DEF QuoteRowsInv
    <3>2. Apart => Conversions(r) = {}
      BY <3>1 DEF QuoteInv, QuoteSettled, QuoteIds
    <3>3. \A p \in DOMAIN quotes \ {r} : p \in DOMAIN quotes' /\ quotes'[p] = quotes[p]
      BY <2>4 DEF Put
    <3>4. QED
      BY <1>0, <1>b, <2>1, <2>2, <2>4, <3>2, <3>3, QuoteWritten
  <2>5. QED
    BY <1>3, <2>3, <2>4 DEF CreateQuote, quoting
<1>4. CASE SetQuoteStatus(r) \/ UpdateQuote(r) \/ RemoveQuote(r)
  <2>1. /\ Holding(r) /\ pc'[r] \in {"audit", "refused", "done"} /\ call[r].op # "convertQuote"
        /\ UNCHANGED subscriptions
    BY <1>4, AnswerFacts, GotoFacts DEF SetQuoteStatus, UpdateQuote, RemoveQuote, Holding, At, QuoteHandlers, quoting
  <2>2. ~Holding(r)'
    BY <2>1 DEF Holding, At
  <2>3. \A p \in DOMAIN quotes \ {call[r].id} : p \in DOMAIN quotes' /\ quotes'[p] = quotes[p]
    BY <1>4 DEF SetQuoteStatus, UpdateQuote, RemoveQuote, Without
  <2>4. QED
    BY <1>0, <1>b, <1>c, <2>1, <2>2, <2>3, QuoteWritten
<1>5. CASE ConvertQuote(r)
  <2> DEFINE q == call[r].id
             t == Target(seen[r])
  <2>1. Holding(r) /\ pc'[r] \in {"refused", "done"} /\ At(r, {"convertQuote"}, "commit")
    BY <1>5, AnswerFacts DEF ConvertQuote, Holding
  <2>2. ~Holding(r)'
    BY <2>1 DEF Holding, At
  <2>3. CASE Refuse(r) /\ UNCHANGED quoting
    <3>1. pc'[r] = "refused"
      BY <2>3, AnswerFacts
    <3>2. QED
      BY <1>a, <1>b, <2>2, <2>3, <3>1, QuoteKept
  <2>4. CASE /\ q \in DOMAIN quotes /\ Answer(r, "done")
             /\ quotes' = [quotes EXCEPT ![q].status = "CONVERTED", ![q].tenant = t]
             /\ subscriptions' = IF t = NoTenant THEN subscriptions
                     ELSE [subscriptions EXCEPT ![t] = [active |-> TRUE, ends |-> seen[r].duration]]
    <3>1. pc'[r] = "done" /\ call[r].op = "convertQuote"
      BY <2>1, <2>4, AnswerFacts DEF At
    <3>2. seen[r] \in QuoteRow /\ quotes[q] \in QuoteRow
      BY <2>1, <2>4 DEF QuoteRowsInv, ReadRow, QuotesTypeOK
    <3>3. t \in Tenants \cup {NoTenant}
      BY <3>2 DEF Target, QuoteRow
    <3> HIDE DEF t
    <3>4. subscriptions \in [Tenants -> [active : BOOLEAN, ends : Nat]]
      BY DEF QuoteRowsInv, QuotesTypeOK
    <3>5. /\ \A u \in Tenants : subscriptions[u].active => subscriptions'[u].active
          /\ t # NoTenant => subscriptions'[t].active
      BY <2>4, <3>3, <3>4
    <3>6. q \in DOMAIN quotes' /\ quotes'[q].status = "CONVERTED" /\ quotes'[q].tenant = t
      BY <2>4, <3>2 DEF QuoteRow
    <3>7. \A p \in DOMAIN quotes \ {q} : p \in DOMAIN quotes' /\ quotes'[p] = quotes[p]
      BY <2>4
    <3>8. Conversions(q)' = Conversions(q) \cup {r} /\ \A p : p # q => Conversions(p)' = Conversions(p)
      BY <1>0, <3>1 DEF Conversions, Moves
    <3>9. ASSUME Apart PROVE QuoteSettled(q)'
      <4>1. Conversions(q)' = {r}
        BY <1>c, <2>1, <3>8, <3>9
      <4>2. Converted(q)'
        BY <3>6 DEF Converted
      <4>3. QED
        BY <3>5, <3>6, <4>1, <4>2 DEF QuoteSettled
    <3>10. QED
      BY <1>0, <1>c, <2>1, <2>2, <3>5, <3>7, <3>8, <3>9, QuoteWritten
  <2>5. QED
    BY <1>5, <2>3, <2>4 DEF ConvertQuote
<1>6. QED
  BY <1>1, <1>2, <1>3, <1>4, <1>5 DEF QuoteStep

LEMMA QuoteStart == Init => QuoteInv
BY DEF Init, ServerInit, QuoteInv, Conversions, Holding, At

LEMMA QuoteNext ==
  ASSUME ServerInv, AloneInv, QuoteRowsInv, QuoteInv, [Next]_vars
  PROVE  QuoteInv'
<1>0. UNCHANGED scene
  BY RestartFacts DEF Next, vars, serverVars, Clock
<1>1. CASE UNCHANGED <<pc, call, quoting>>
  BY <1>0, <1>1, QuoteKept DEF Conversions, Holding, At, QuoteInv
<1>2. ASSUME NEW r \in Requests, Request(r) PROVE QuoteInv'
  <2>1. CASE (Arrive(r) \/ Fail(r)) /\ UNCHANGED tables
    <3>1. /\ Moves(r) /\ pc[r] # "done" /\ pc'[r] \in {"start", "failed"} /\ \A s \in Requests \ {r} : call'[s] = call[s]
      BY <2>1, ArriveFacts, FailFacts DEF InFlight, Ended
    <3>2. \A s \in Requests : Holding(s)' => Holding(s) /\ call'[s] = call[s]
      BY <3>1 DEF Holding, At, Moves
    <3>3. QED
      BY <1>0, <2>1, <3>1, <3>2, ConversionsKept, QuoteKept DEF tables, QuoteInv
  <2>2. CASE QuoteStep(r) /\ UNCHANGED call
    BY <1>0, <2>2, QuoteStepOnce
  <2>3. CASE UNCHANGED <<call, quoting>> /\ Moves(r) /\ r \in InFlight /\ call[r].op \notin QuoteOps
    <3>1. \A s \in Requests : Holding(s)' => Holding(s)
      BY <2>3 DEF Holding, At, Moves, QuoteOps, QuoteHandlers
    <3>2. \A q : Conversions(q)' = Conversions(q)
      BY <2>3, ConversionsKept DEF QuoteOps, InFlight, Ended
    <3>3. QED
      BY <1>0, <2>3, <3>1, <3>2, QuoteKept DEF QuoteInv
  <2>4. QED
    BY <1>2, <2>1, <2>2, <2>3, Disjoint, RequestCases
<1>3. CASE Restart
  <2>1. /\ UNCHANGED <<call, quoting>>
        /\ \A r \in Requests : IF r \in InFlight THEN pc'[r] = "failed" ELSE pc'[r] = pc[r]
    BY <1>3, RestartFacts
  <2>2. \A r \in Requests : ~Holding(r)'
    BY <2>1 DEF Holding, At, InFlight, Ended
  <2>3. \A q : Conversions(q)' = Conversions(q)
    BY <2>1 DEF Conversions, InFlight, Ended
  <2>4. QED
    BY <1>0, <2>1, <2>2, <2>3, QuoteKept
<1>4. QED
  BY <1>1, <1>2, <1>3 DEF Next, Clock, vars, serverVars

(* 'Un devis deja converti est immuable' (saas-quote.service.ts:178): of   *)
(* requests that do not overlap, whatever fails and restarts in between,   *)
(* one converts a quote, and the quote stays converted and on file.        *)
THEOREM QuotesConvertOnce == Spec => []QuoteConvertedOnce
<1>1. QuoteInv => QuoteConvertedOnce
  BY FS_Singleton DEF QuoteInv, QuoteConvertedOnce, QuoteSettled
<1>2. Init => ServerInv /\ Asking /\ AloneInv /\ QuoteRowsInv /\ QuoteInv
  BY ServerStart, AskingStart, AloneStart, QuoteRowsStart, QuoteStart
<1>3. ServerInv /\ Asking /\ AloneInv /\ QuoteRowsInv /\ QuoteInv /\ [Next]_vars
        => (ServerInv /\ Asking /\ AloneInv /\ QuoteRowsInv /\ QuoteInv)'
  BY ServerStep, AskingStep, AloneStep, QuoteRowsNext, QuoteNext
<1>4. QED
  BY <1>1, <1>2, <1>3, PTL DEF Spec

-----------------------------------------------------------------------------
(* Accounts and their roles.  What is on file is a row of the schema, and  *)
(* what a request noted of it is of its type.                              *)

(* The account is or was on file.                                          *)
Enlisted(u) ==
  \/ u \in DOMAIN OldUsers
  \/ u \in Requests /\ call[u].op \in {"createMember", "registerConfirm"} /\ pc[u] = "done"

Registering(r) == At(r, {"registerConfirm"}, "count") \/ At(r, {"registerConfirm"}, "commit")

Noted(r) ==
  /\ Registering(r) => seen[r] \in [phone : Phones, number : Nat]
  /\ At(r, {"verifyTotp"}, "write") => seen[r].backups \subseteq Codes

WaitingTypeOK ==
  pending \in [DOMAIN pending -> [phone : Phones, expired : BOOLEAN]] /\ DOMAIN pending \subseteq Emails

SpacesTypeOK ==
  /\ spaces \in [DOMAIN spaces -> Nat] /\ DOMAIN spaces \subseteq SpaceIds
  /\ \A s, t \in DOMAIN spaces : spaces[s] = spaces[t] => s = t

PeopleInv ==
  /\ UsersTypeOK /\ WaitingTypeOK /\ SpacesTypeOK
  /\ \A u \in DOMAIN users : Enlisted(u)
  /\ \A r \in Requests : Noted(r)

LEMMA EnlistedKept ==
  ASSUME ServerInv, NEW r \in Requests, Moves(r), \A s \in Requests \ {r} : call'[s] = call[s], pc[r] # "done"
  PROVE  \A u : Enlisted(u) => Enlisted(u)'
BY DEF Enlisted, Moves

LEMMA NotedKept ==
  ASSUME ServerInv, PeopleInv, NEW r \in Requests, Moves(r), \A s \in Requests \ {r} : call'[s] = call[s]
  PROVE  \A s \in Requests \ {r} : Noted(s)'
<1> SUFFICES ASSUME NEW s \in Requests \ {r} PROVE Noted(s)'
  OBVIOUS
<1>1. Noted(s) /\ pc'[s] = pc[s] /\ call'[s] = call[s] /\ seen'[s] = seen[s]
  BY DEF PeopleInv, Moves
<1>2. QED
  BY <1>1 DEF Noted, Registering, At

(* A step that leaves the accounts alone.                                  *)
LEMMA PeopleKept ==
  ASSUME PeopleInv, UNCHANGED <<users, userRoles, spaces>>, WaitingTypeOK', \A u : Enlisted(u) => Enlisted(u)',
         \A r \in Requests : Noted(r)'
  PROVE  PeopleInv'
BY DEF PeopleInv, UsersTypeOK, SpacesTypeOK

(* A step that rewrites one account.                                       *)
LEMMA RowWritten ==
  ASSUME PeopleInv, UNCHANGED <<userRoles, pending, spaces>>, NEW u \in DOMAIN users, NEW row \in UserRow,
         users' = [users EXCEPT ![u] = row], \A v : Enlisted(v) => Enlisted(v)', \A r \in Requests : Noted(r)'
  PROVE  PeopleInv'
<1>1. DOMAIN users' = DOMAIN users /\ users' \in [DOMAIN users -> UserRow]
  BY DEF PeopleInv, UsersTypeOK
<1>2. UsersTypeOK'
  BY <1>1 DEF PeopleInv, UsersTypeOK
<1>3. QED
  BY <1>1, <1>2 DEF PeopleInv, WaitingTypeOK, SpacesTypeOK

(* A step that adds an account with its role.                              *)
LEMMA RowAdded ==
  ASSUME PeopleInv, UNCHANGED pending, NEW r \in Requests, NEW row \in UserRow, NEW name \in RoleNames,
         users' = Put(users, r, row), userRoles' = userRoles \cup {[user |-> r, role |-> name, by |-> r]},
         SpacesTypeOK', Enlisted(r)', \A v : Enlisted(v) => Enlisted(v)', \A s \in Requests : Noted(s)'
  PROVE  PeopleInv'
<1>1. DOMAIN users' = DOMAIN users \cup {r} /\ users' \in [DOMAIN users' -> UserRow]
  BY DEF PeopleInv, UsersTypeOK, Put
<1>2. UsersTypeOK'
  BY <1>1 DEF PeopleInv, UsersTypeOK, UserIds, Grant
<1>3. QED
  BY <1>1, <1>2 DEF PeopleInv, WaitingTypeOK

LEMMA NewUserTyped ==
  ASSUME NEW r \in Requests, NEW email \in Emails, NEW phone \in Phones, NEW space \in {r, Global}, NEW b \in BOOLEAN
  PROVE  NewUser(r, email, phone, space, b) \in UserRow
BY DEF NewUser, UserRow, Maker, UserIds, None, Global

LEMMA RewrittenTyped ==
  ASSUME NEW r \in Requests, NEW row \in UserRow, call[r] \in TeamCalls,
         call[r].op \in {"enableMember", "disableMember", "resetPassword", "disable2fa", "updateMember"}
  PROVE  Rewritten(r, row) \in UserRow
<1>1. CASE call[r].op \in {"enableMember", "disableMember"}
  BY <1>1 DEF Rewritten, UserRow
<1>2. CASE call[r].op = "resetPassword"
  BY <1>2 DEF Rewritten, UserRow, Maker, UserIds
<1>3. CASE call[r].op = "disable2fa"
  BY <1>3 DEF Rewritten, UserRow, Maker
<1>4. CASE call[r].op = "updateMember"
  <2>1. call[r].email \in Emails
    BY <1>4 DEF TeamCalls
  <2>2. Rewritten(r, row) = row \/ Rewritten(r, row) = [row EXCEPT !.email = call[r].email]
    BY <1>4 DEF Rewritten
  <2>3. QED
    BY <2>1, <2>2 DEF UserRow
<1>5. QED
  BY <1>1, <1>2, <1>3, <1>4

LEMMA TeamStepPeople ==
  ASSUME ServerInv, Asking, PeopleInv, NEW r \in Requests, TeamStep(r), UNCHANGED <<call, pending, spaces>>
  PROVE  PeopleInv'
<1>0. Moves(r) /\ r \in InFlight /\ call[r].op \in TeamOps /\ call[r] \in TeamCalls
  BY TeamMoves, CallsTyped
<1>a. (\A u : Enlisted(u) => Enlisted(u)') /\ (\A s \in Requests \ {r} : Noted(s)')
  BY <1>0, EnlistedKept, NotedKept DEF InFlight, Ended
<1>b. Noted(r)'
  BY <1>0 DEF Noted, Registering, At, TeamOps
<1>c. WaitingTypeOK' /\ SpacesTypeOK'
  BY DEF PeopleInv, WaitingTypeOK, SpacesTypeOK
<1>1. CASE UNCHANGED people
  BY <1>a, <1>b, <1>c, <1>1, PeopleKept DEF people
<1>2. CASE CreateMember(r)
  <2>1. /\ users' = Put(users, r, NewUser(r, call[r].email, call[r].phone, Global, TRUE))
        /\ userRoles' = userRoles \cup {[user |-> r, role |-> call[r].role, by |-> r]}
        /\ call[r].op = "createMember" /\ pc'[r] = "done"
    BY <1>2, AnswerFacts DEF CreateMember, At
  <2>2. call[r].email \in Emails /\ call[r].phone \in Phones /\ call[r].role \in RoleNames
    BY <1>0, <2>1 DEF TeamCalls, TeamRoles
  <2>3. NewUser(r, call[r].email, call[r].phone, Global, TRUE) \in UserRow
    BY <2>2, NewUserTyped
  <2>4. Enlisted(r)'
    BY <2>1 DEF Enlisted
  <2>5. QED
    BY <1>a, <1>b, <1>c, <2>1, <2>2, <2>3, <2>4, RowAdded
<1>3. CASE GiveRole(r)
  <2>1. CASE UNCHANGED userRoles
    BY <1>1, <1>3, <2>1 DEF GiveRole, people
  <2>2. CASE /\ call[r].id \in DOMAIN users
             /\ userRoles' = (userRoles \ seen[r].cleared) \cup {[user |-> call[r].id, role |-> call[r].role, by |-> r]}
    <3>1. call[r].role \in RoleNames /\ UNCHANGED users
      BY <1>0, <1>3 DEF GiveRole, At, TeamCalls, TeamRoles
    <3>2. UsersTypeOK'
      BY <2>2, <3>1 DEF PeopleInv, UsersTypeOK, Grant
    <3>3. QED
      BY <1>a, <1>b, <1>c, <3>1, <3>2 DEF PeopleInv
  <2>3. QED
    BY <1>3, <2>1, <2>2 DEF GiveRole
<1>4. CASE UpdateMember(r)
  <2>1. CASE call[r].id \in DOMAIN users
    <3>1. users' = [users EXCEPT ![call[r].id] = Rewritten(r, users[call[r].id])] /\ UNCHANGED userRoles
      BY <1>4, <2>1 DEF UpdateMember
    <3>2. users[call[r].id] \in UserRow
      BY <2>1 DEF PeopleInv, UsersTypeOK
    <3>3. Rewritten(r, users[call[r].id]) \in UserRow
      BY <1>0, <1>4, <3>2, RewrittenTyped DEF UpdateMember, At
    <3>4. QED
      BY <1>a, <1>b, <2>1, <3>1, <3>3, RowWritten
  <2>2. CASE call[r].id \notin DOMAIN users
    BY <1>1, <1>4, <2>2 DEF UpdateMember, people
  <2>3. QED
    BY <2>1, <2>2
<1>5. CASE RemoveMember(r)
  <2>1. CASE /\ users' = Without(users, call[r].id)
             /\ userRoles' = {g \in userRoles : g.user # call[r].id}
    <3>1. DOMAIN users' = DOMAIN users \ {call[r].id} /\ users' \in [DOMAIN users' -> UserRow]
      BY <2>1 DEF PeopleInv, UsersTypeOK, Without
    <3>2. UsersTypeOK'
      BY <2>1, <3>1 DEF PeopleInv, UsersTypeOK
    <3>3. QED
      BY <1>a, <1>b, <1>c, <3>1, <3>2 DEF PeopleInv
  <2>2. QED
    BY <1>1, <1>5, <2>1 DEF RemoveMember
<1>6. CASE FindEmail(r) \/ FindMember(r) \/ CountAdmins(r) \/ ClearRoles(r) \/ CheckNewEmail(r) \/ AuditTeam(r)
  BY <1>1, <1>6 DEF FindEmail, FindMember, CountAdmins, ClearRoles, CheckNewEmail, AuditTeam
<1>7. QED
  BY <1>2, <1>3, <1>4, <1>5, <1>6 DEF TeamStep

LEMMA SpaceIdsFinite == IsFiniteSet(SpaceIds) /\ \A S \in SUBSET SpaceIds : Cardinality(S) \in Nat
BY AccountsAssumption, RequestsAssumption, FS_Union, FS_Subset, FS_CardinalityType DEF SpaceIds

LEMMA AccountStepPeople ==
  ASSUME ServerInv, Asking, PeopleInv, NEW r \in Requests, AccountStep(r), UNCHANGED call
  PROVE  PeopleInv'
<1>0. Moves(r) /\ r \in InFlight /\ call[r].op \in AccountOps /\ call[r] \in AccountCalls
  BY AccountMoves, CallsTyped
<1>a. (\A u : Enlisted(u) => Enlisted(u)') /\ (\A s \in Requests \ {r} : Noted(s)')
  BY <1>0, EnlistedKept, NotedKept DEF InFlight, Ended
<1>b. pc'[r] \notin {"write", "count", "commit"} => Noted(r)'
  BY DEF Noted, Registering, At
<1>c. ASSUME UNCHANGED <<users, userRoles, spaces>>, Noted(r)', WaitingTypeOK' PROVE PeopleInv'
  BY <1>a, <1>c, PeopleKept
<1>d. ASSUME UNCHANGED <<users, userRoles, spaces, pending>>, Noted(r)' PROVE PeopleInv'
  <2>1. WaitingTypeOK'
    BY <1>d DEF PeopleInv, WaitingTypeOK
  <2>2. QED
    BY <1>c, <1>d, <2>1
<1>e. ASSUME UNCHANGED <<userRoles, spaces, pending>>, pc'[r] \notin {"write", "count", "commit"},
             UNCHANGED users \/ \E u \in DOMAIN users : \E row \in UserRow : users' = [users EXCEPT ![u] = row]
      PROVE  PeopleInv'
  BY <1>a, <1>b, <1>d, <1>e, RowWritten
<1>f. \A u \in DOMAIN users : users[u] \in UserRow
  BY DEF PeopleInv, UsersTypeOK
<1>g. r \in Maker /\ None \in Maker
  BY DEF Maker, UserIds
<1>1. CASE InitEmail(r) \/ InitPhone(r) \/ SendCode(r) \/ Login(r)
  <2>1. UNCHANGED <<users, userRoles, spaces, pending>>
    BY <1>1 DEF InitEmail, InitPhone, SendCode, Login, accounts, people
  <2>2. pc'[r] \notin {"write", "count", "commit"}
    <3>1. CASE InitEmail(r) \/ InitPhone(r) \/ SendCode(r)
      BY <3>1, GotoFacts, AnswerFacts DEF InitEmail, InitPhone, SendCode
    <3>2. CASE Login(r)
      <4>1. Refuse(r) \/ Answer(r, "done") \/ \E v : Keep(r, "session", v)
        BY <3>2 DEF Login
      <4>2. pc'[r] \in {"refused", "done", "session"}
        BY <4>1, KeepFacts, AnswerFacts
      <4>3. QED
        BY <4>2
    <3>3. QED
      BY <1>1, <3>1, <3>2
  <2>3. QED
    BY <1>b, <1>d, <2>1, <2>2
<1>2. CASE StoreRegistration(r)
  <2>1. /\ pending' = Put(pending, call[r].email, [phone |-> call[r].phone, expired |-> FALSE])
        /\ call[r].op = "registerInit" /\ UNCHANGED <<users, userRoles, spaces>>
    BY <1>2 DEF StoreRegistration, At, people
  <2>2. call[r].email \in Emails /\ call[r].phone \in Phones
    BY <1>0, <2>1 DEF AccountCalls
  <2>3. WaitingTypeOK'
    BY <2>1, <2>2 DEF PeopleInv, WaitingTypeOK, Put
  <2>4. Noted(r)'
    BY <2>1 DEF Noted, Registering, At
  <2>5. QED
    BY <1>c, <2>1, <2>3, <2>4
<1>3. CASE ConfirmCode(r)
  <2>1. pc'[r] \in {"pending", "refused"} /\ UNCHANGED <<users, userRoles, spaces, pending>>
    BY <1>3, GotoFacts, AnswerFacts DEF ConfirmCode, VerifyOtp, people
  <2>2. QED
    BY <1>b, <1>d, <2>1
<1>4. CASE TakeRegistration(r)
  <2> DEFINE e == call[r].email
  <2>1. pending' = Without(pending, e) /\ UNCHANGED <<users, userRoles, spaces>> /\ call[r].op = "registerConfirm"
    BY <1>4 DEF TakeRegistration, people, At
  <2>2. \/ pc'[r] = "refused"
        \/ e \in DOMAIN pending /\ seen'[r] = [phone |-> pending[e].phone, number |-> 0]
    BY <1>4, AnswerFacts, KeepFacts DEF TakeRegistration
  <2>3. WaitingTypeOK'
    BY <2>1 DEF PeopleInv, WaitingTypeOK, Without
  <2>4. Noted(r)'
    BY <2>1, <2>2 DEF PeopleInv, WaitingTypeOK, Noted, Registering, At
  <2>5. QED
    BY <1>c, <2>1, <2>3, <2>4
<1>5. CASE CountSpaces(r)
  <2>1. /\ seen'[r] = [seen[r] EXCEPT !.number = Cardinality(DOMAIN spaces) + 1] /\ Registering(r)
        /\ call[r].op = "registerConfirm" /\ UNCHANGED <<users, userRoles, spaces, pending>>
    BY <1>5, KeepFacts DEF CountSpaces, Registering, At, accounts, people
  <2>2. seen[r] \in [phone : Phones, number : Nat]
    BY <2>1 DEF PeopleInv, Noted
  <2>3. Cardinality(DOMAIN spaces) \in Nat
    BY SpaceIdsFinite DEF PeopleInv, SpacesTypeOK
  <2>4. seen'[r] \in [phone : Phones, number : Nat]
    BY <2>1, <2>2, <2>3
  <2>5. Noted(r)'
    BY <2>1, <2>4 DEF Noted, At
  <2>6. QED
    BY <1>d, <2>1, <2>5
<1>6. CASE CreateSpace(r)
  <2>1. CASE UNCHANGED <<spaces, people>>
    <3>1. UNCHANGED <<users, userRoles, pending>> /\ pc'[r] \in {"done", "refused"}
      BY <1>6, <2>1, AnswerFacts DEF CreateSpace, people
    <3>2. QED
      BY <1>b, <1>d, <2>1, <3>1
  <2>2. CASE /\ Answer(r, "done") /\ \A s \in DOMAIN spaces : spaces[s] # seen[r].number
             /\ spaces' = Put(spaces, r, seen[r].number)
             /\ users' = Put(users, r, NewUser(r, call[r].email, seen[r].phone, r, FALSE))
             /\ userRoles' = userRoles \cup {[user |-> r, role |-> "ADMIN_TENANT", by |-> r]}
    <3>1. /\ pc'[r] = "done" /\ call[r].op = "registerConfirm" /\ Registering(r) /\ UNCHANGED pending
      BY <1>6, <2>2, AnswerFacts DEF CreateSpace, Registering, At
    <3>2. seen[r].phone \in Phones /\ seen[r].number \in Nat /\ call[r].email \in Emails
      BY <1>0, <3>1 DEF PeopleInv, Noted, AccountCalls
    <3>3. NewUser(r, call[r].email, seen[r].phone, r, FALSE) \in UserRow
      BY <3>2, NewUserTyped
    <3>4. SpacesTypeOK'
      BY <2>2, <3>2 DEF PeopleInv, SpacesTypeOK, Put, SpaceIds
    <3>5. Enlisted(r)' /\ Noted(r)' /\ "ADMIN_TENANT" \in RoleNames
      BY <1>b, <3>1 DEF Enlisted, RoleNames
    <3>6. QED
      BY <1>a, <2>2, <3>1, <3>3, <3>4, <3>5, RowAdded
  <2>3. QED
    BY <1>6, <2>1, <2>2 DEF CreateSpace
<1>7. CASE CheckTotp(r)
  <2>1. UNCHANGED <<users, userRoles, spaces, pending>> /\ call[r].op = "verifyTotp"
    BY <1>7 DEF CheckTotp, At, accounts, people
  <2>2. \/ pc'[r] \in {"refused", "lock", "count"}
        \/ call[r].id \in DOMAIN users /\ seen'[r].backups \subseteq users[call[r].id].backups
    <3>1. \/ Refuse(r) \/ Goto(r, "lock") \/ Goto(r, "count")
          \/ /\ call[r].id \in DOMAIN users
             /\ Keep(r, "write", [backups |-> IF AppAccepts(users[call[r].id], call[r].totp) THEN users[call[r].id].backups
                                              ELSE users[call[r].id].backups \ {call[r].totp}])
      BY <1>7 DEF CheckTotp
    <3>2. QED
      BY <3>1, KeepFacts, GotoFacts, AnswerFacts
  <2>3. Noted(r)'
    BY <1>f, <2>1, <2>2 DEF Noted, Registering, At, UserRow
  <2>4. QED
    BY <1>d, <2>1, <2>3
<1>8. CASE FindSelf(r)
  <2>1. UNCHANGED <<users, userRoles, spaces, pending>> /\ call[r].op \in Settings
    BY <1>8 DEF FindSelf, At, accounts, people
  <2>2. QED
    BY <1>d, <2>1 DEF Noted, Registering, At, Settings
<1>9. CASE OpenSession(r) \/ RefuseTotp(r) \/ AcceptTotp(r) \/ SaveSelf(r)
  <2>1. UNCHANGED <<userRoles, spaces, pending>> /\ pc'[r] \in {"done", "refused"}
    BY <1>9, AnswerFacts DEF OpenSession, RefuseTotp, AcceptTotp, SaveSelf
  <2>2. CASE UNCHANGED users
    BY <1>e, <2>1, <2>2
  <2>3. CASE OpenSession(r) /\ seen[r].user \in DOMAIN users
    <3> DEFINE u == seen[r].user
    <3>1. users' = [users EXCEPT ![u].session = r, ![u].attempts = 0]
      BY <2>3 DEF OpenSession
    <3>2. users' = [users EXCEPT ![u] = [users[u] EXCEPT !.session = r, !.attempts = 0]]
      BY <2>3, <3>1
    <3>3. [users[u] EXCEPT !.session = r, !.attempts = 0] \in UserRow
      BY <1>f, <1>g, <2>3 DEF UserRow
    <3>4. QED
      BY <1>e, <2>1, <2>3, <3>2, <3>3
  <2>4. CASE RefuseTotp(r) /\ call[r].id \in DOMAIN users
    <3> DEFINE u == call[r].id
    <3>1. \/ users' = [users EXCEPT ![u] = [users[u] EXCEPT !.session = None]]
          \/ users' = [users EXCEPT ![u] = [users[u] EXCEPT !.attempts = @ + 1]]
      BY <2>4 DEF RefuseTotp
    <3>2. [users[u] EXCEPT !.session = None] \in UserRow /\ [users[u] EXCEPT !.attempts = @ + 1] \in UserRow
      BY <1>f, <1>g, <2>4 DEF UserRow
    <3>3. QED
      BY <1>e, <2>1, <2>4, <3>1, <3>2
  <2>5. CASE AcceptTotp(r) /\ call[r].id \in DOMAIN users
    <3> DEFINE u == call[r].id
    <3>1. \/ users' = [users EXCEPT ![u] = Closed(users[u])]
          \/ users' = [users EXCEPT ![u] = [Closed(users[u]) EXCEPT !.backups = seen[r].backups]]
      BY <2>5 DEF AcceptTotp
    <3>2. seen[r].backups \subseteq Codes
      BY <2>5 DEF AcceptTotp, PeopleInv, Noted
    <3>3. Closed(users[u]) \in UserRow
      BY <1>f, <1>g, <2>5 DEF UserRow, Closed
    <3>4. [Closed(users[u]) EXCEPT !.backups = seen[r].backups] \in UserRow
      BY <3>2, <3>3 DEF UserRow
    <3>5. QED
      BY <1>e, <2>1, <2>5, <3>1, <3>3, <3>4
  <2>6. CASE SaveSelf(r) /\ call[r].id \in DOMAIN users
    <3> DEFINE row == users[call[r].id]
               new == CASE call[r].op = "changePassword" -> [row EXCEPT !.password = r, !.mustChange = FALSE]
                        [] call[r].op = "setupTotp"   -> [row EXCEPT !.secret = r]
                        [] call[r].op = "enableTotp"  -> [row EXCEPT !.totp = TRUE, !.backups = BackupsOf(r)]
                        [] call[r].op = "disableTotp" -> [row EXCEPT !.totp = FALSE, !.secret = None, !.backups = {}]
    <3>1. users' = [users EXCEPT ![call[r].id] = new] /\ call[r].op \in Settings
      BY <2>6 DEF SaveSelf, At
    <3>2. row \in UserRow
      BY <1>f, <2>6
    <3>3. BackupsOf(r) \subseteq Codes
      BY <1>g, UsersAssumption DEF BackupsOf, Codes
    <3> HIDE DEF new
    <3>4. CASE call[r].op \in {"changePassword", "setupTotp"}
      <4>1. new = [row EXCEPT !.password = r, !.mustChange = FALSE] \/ new = [row EXCEPT !.secret = r]
        BY <3>4 DEF new
      <4>2. new \in UserRow
        BY <1>g, <3>2, <4>1 DEF UserRow
      <4>3. QED
        BY <1>e, <2>1, <2>6, <3>1, <4>2
    <3>5. CASE call[r].op \in {"enableTotp", "disableTotp"}
      <4>1. \/ new = [row EXCEPT !.totp = TRUE, !.backups = BackupsOf(r)]
            \/ new = [row EXCEPT !.totp = FALSE, !.secret = None, !.backups = {}]
        BY <3>5 DEF new
      <4>2. new \in UserRow
        BY <1>g, <3>2, <3>3, <4>1 DEF UserRow
      <4>3. QED
        BY <1>e, <2>1, <2>6, <3>1, <4>2
    <3>6. QED
      BY <3>1, <3>4, <3>5 DEF Settings
  <2>7. QED
    BY <1>9, <2>2, <2>3, <2>4, <2>5, <2>6 DEF OpenSession, RefuseTotp, AcceptTotp, SaveSelf
<1>10. QED
  BY <1>1, <1>2, <1>3, <1>4, <1>5, <1>6, <1>7, <1>8, <1>9 DEF AccountStep

LEMMA PeopleOther ==
  ASSUME ServerInv, PeopleInv, NEW r \in Requests, Moves(r), \A s \in Requests \ {r} : call'[s] = call[s],
         UNCHANGED <<people, pending, spaces>>, pc[r] # "done",
         \/ call'[r] = call[r] /\ call[r].op \notin AccountOps
         \/ pc'[r] \in {"start", "failed"}
  PROVE  PeopleInv'
<1>1. (\A u : Enlisted(u) => Enlisted(u)') /\ (\A s \in Requests \ {r} : Noted(s)')
  BY EnlistedKept, NotedKept
<1>2. Noted(r)'
  BY DEF Noted, Registering, At, AccountOps
<1>3. WaitingTypeOK'
  BY DEF PeopleInv, WaitingTypeOK
<1>4. QED
  BY <1>1, <1>2, <1>3, PeopleKept DEF people

LEMMA PeopleStart == Init => PeopleInv
<1> SUFFICES ASSUME Init PROVE PeopleInv
  OBVIOUS
<1>1. users = OldUsers /\ userRoles = {[user |-> u, role |-> OldRoles[u], by |-> None] : u \in DOMAIN OldUsers}
  BY DEF Init, UsersInit
<1>2. UsersTypeOK
  BY <1>1, UsersAssumption DEF UsersTypeOK, UserIds, Grant
<1>3. WaitingTypeOK /\ SpacesTypeOK
  BY AccountsAssumption DEF Init, AccountsInit, WaitingTypeOK, SpacesTypeOK, SpaceIds
<1>4. \A r \in Requests : Noted(r)
  BY DEF Init, ServerInit, Noted, Registering, At
<1>5. QED
  BY <1>1, <1>2, <1>3, <1>4 DEF PeopleInv, Enlisted

LEMMA PeopleNext ==
  ASSUME ServerInv, Asking, PeopleInv, [Next]_vars
  PROVE  PeopleInv'
<1>1. ASSUME UNCHANGED <<pc, call, seen, people, spaces>>, WaitingTypeOK' PROVE PeopleInv'
  <2>1. \A u : Enlisted(u) => Enlisted(u)'
    BY <1>1 DEF Enlisted
  <2>2. \A r \in Requests : Noted(r)'
    BY <1>1 DEF PeopleInv, Noted, Registering, At
  <2>3. QED
    BY <1>1, <2>1, <2>2, PeopleKept DEF people
<1>2. ASSUME NEW r \in Requests, Request(r) PROVE PeopleInv'
  <2>1. CASE (Arrive(r) \/ Fail(r)) /\ UNCHANGED tables
    <3>1. /\ Moves(r) /\ pc[r] # "done" /\ pc'[r] \in {"start", "failed"} /\ \A s \in Requests \ {r} : call'[s] = call[s]
      BY <2>1, ArriveFacts, FailFacts DEF InFlight, Ended
    <3>2. QED
      BY <2>1, <3>1, PeopleOther DEF tables, accounts
  <2>2. CASE TeamStep(r) /\ UNCHANGED <<call, pending, spaces>>
    BY <2>2, TeamStepPeople
  <2>3. CASE AccountStep(r) /\ UNCHANGED call
    BY <2>3, AccountStepPeople
  <2>4. CASE UNCHANGED <<call, people, pending, spaces>> /\ Moves(r) /\ r \in InFlight /\ call[r].op \notin AccountOps
    BY <2>4, PeopleOther DEF InFlight, Ended
  <2>5. QED
    BY <1>2, <2>1, <2>2, <2>3, <2>4, Disjoint, RequestCases DEF accounts
<1>3. CASE Clock
  <2>1. CASE UNCHANGED pending
    <3>1. WaitingTypeOK'
      BY <2>1 DEF PeopleInv, WaitingTypeOK
    <3>2. QED
      BY <1>1, <1>3, <3>1 DEF Clock, serverVars
  <2>2. ASSUME NEW e \in DOMAIN pending, RegistrationExpires(e) PROVE PeopleInv'
    <3>1. WaitingTypeOK'
      BY <2>2 DEF PeopleInv, WaitingTypeOK, RegistrationExpires
    <3>2. QED
      BY <1>1, <1>3, <3>1 DEF Clock, serverVars
  <2>3. QED
    BY <1>3, <2>1, <2>2 DEF Clock
<1>4. CASE Restart
  <2>1. /\ UNCHANGED <<call, people, spaces>> /\ pending' = Empty
        /\ \A r \in Requests : IF r \in InFlight THEN pc'[r] = "failed" ELSE pc'[r] = pc[r]
    BY <1>4, RestartFacts
  <2>2. WaitingTypeOK' /\ \A r \in Requests : Noted(r)'
    BY <2>1 DEF WaitingTypeOK, Empty, Noted, Registering, At, InFlight, Ended
  <2>3. \A u : Enlisted(u) => Enlisted(u)'
    BY <2>1 DEF Enlisted, InFlight, Ended
  <2>4. QED
    BY <2>1, <2>2, <2>3, PeopleKept DEF people
<1>5. CASE UNCHANGED vars
  <2>1. WaitingTypeOK'
    BY <1>5 DEF vars, accounts, PeopleInv, WaitingTypeOK
  <2>2. QED
    BY <1>1, <1>5, <2>1 DEF vars, serverVars, accounts
<1>6. QED
  BY <1>2, <1>3, <1>4, <1>5 DEF Next

-----------------------------------------------------------------------------
(* What the handlers of accounts leave of the team.                        *)

(* The accounts and what the team's handlers look at are the same.         *)
SameTeam ==
  /\ DOMAIN users' = DOMAIN users /\ UNCHANGED userRoles
  /\ \A u \in DOMAIN users : /\ users'[u].email = users[u].email /\ users'[u].space = users[u].space
                             /\ users'[u].active = users[u].active

Opens(r) ==
  /\ call[r].op = "registerConfirm" /\ pc[r] = "commit" /\ pc'[r] = "done" /\ UNCHANGED pending
  /\ users' = Put(users, r, NewUser(r, call[r].email, seen[r].phone, r, FALSE))
  /\ userRoles' = userRoles \cup {[user |-> r, role |-> "ADMIN_TENANT", by |-> r]}

LEMMA RowSame ==
  ASSUME NEW u \in DOMAIN users, NEW row, users' = [users EXCEPT ![u] = row], UNCHANGED userRoles,
         row.email = users[u].email, row.space = users[u].space, row.active = users[u].active
  PROVE  SameTeam
BY DEF SameTeam

LEMMA AccountStepTeam ==
  ASSUME ServerInv, PeopleInv, NEW r \in Requests, AccountStep(r)
  PROVE  SameTeam \/ Opens(r)
<1>a. \A u \in DOMAIN users : users[u] \in UserRow
  BY DEF PeopleInv, UsersTypeOK
<1>b. UNCHANGED people => SameTeam
  BY DEF people, SameTeam
<1>1. CASE InitEmail(r) \/ InitPhone(r) \/ StoreRegistration(r) \/ SendCode(r) \/ ConfirmCode(r)
           \/ TakeRegistration(r) \/ CountSpaces(r) \/ Login(r) \/ CheckTotp(r) \/ FindSelf(r)
  BY <1>1, <1>b DEF InitEmail, InitPhone, StoreRegistration, SendCode, ConfirmCode, TakeRegistration, CountSpaces,
                    Login, CheckTotp, FindSelf, accounts
<1>2. CASE CreateSpace(r)
  <2>1. CASE UNCHANGED people
    BY <1>b, <2>1
  <2>2. CASE /\ Answer(r, "done")
             /\ users' = Put(users, r, NewUser(r, call[r].email, seen[r].phone, r, FALSE))
             /\ userRoles' = userRoles \cup {[user |-> r, role |-> "ADMIN_TENANT", by |-> r]}
    BY <1>2, <2>2, AnswerFacts DEF CreateSpace, Opens, At
  <2>3. QED
    BY <1>2, <2>1, <2>2 DEF CreateSpace
<1>3. CASE OpenSession(r) \/ RefuseTotp(r) \/ AcceptTotp(r) \/ SaveSelf(r)
  <2>1. UNCHANGED userRoles
    BY <1>3 DEF OpenSession, RefuseTotp, AcceptTotp, SaveSelf
  <2>2. CASE UNCHANGED users
    BY <1>b, <2>1, <2>2 DEF people
  <2>3. CASE OpenSession(r) /\ seen[r].user \in DOMAIN users
    <3> DEFINE u == seen[r].user
               row == [users[u] EXCEPT !.session = r, !.attempts = 0]
    <3>1. users' = [users EXCEPT ![u].session = r, ![u].attempts = 0]
      BY <2>3 DEF OpenSession
    <3>2. users' = [users EXCEPT ![u] = row]
      BY <2>3, <3>1
    <3>3. row.email = users[u].email /\ row.space = users[u].space /\ row.active = users[u].active
      BY <1>a, <2>3 DEF UserRow
    <3>4. QED
      BY <2>1, <2>3, <3>2, <3>3, RowSame
  <2>4. CASE RefuseTotp(r) /\ call[r].id \in DOMAIN users
    <3> DEFINE u == call[r].id
    <3>1. PICK row : users' = [users EXCEPT ![u] = row] /\ (row = [users[u] EXCEPT !.session = None]
                                                           \/ row = [users[u] EXCEPT !.attempts = @ + 1])
      BY <2>4 DEF RefuseTotp
    <3>2. row.email = users[u].email /\ row.space = users[u].space /\ row.active = users[u].active
      BY <1>a, <2>4, <3>1 DEF UserRow
    <3>3. QED
      BY <2>1, <2>4, <3>1, <3>2, RowSame
  <2>5. CASE AcceptTotp(r) /\ call[r].id \in DOMAIN users
    <3> DEFINE u == call[r].id
    <3>1. PICK row : users' = [users EXCEPT ![u] = row] /\ (row = Closed(users[u])
                                                           \/ row = [Closed(users[u]) EXCEPT !.backups = seen[r].backups])
      BY <2>5 DEF AcceptTotp
    <3>2. /\ Closed(users[u]).email = users[u].email /\ Closed(users[u]).space = users[u].space
          /\ Closed(users[u]).active = users[u].active /\ DOMAIN Closed(users[u]) = DOMAIN users[u]
          /\ {"email", "space", "active"} \subseteq DOMAIN users[u]
      BY <1>a, <2>5 DEF UserRow, Closed
    <3>3. row.email = users[u].email /\ row.space = users[u].space /\ row.active = users[u].active
      BY <3>1, <3>2
    <3>4. QED
      BY <2>1, <2>5, <3>1, <3>3, RowSame
  <2>6. CASE SaveSelf(r) /\ call[r].id \in DOMAIN users
    <3> DEFINE u == call[r].id
    <3>1. PICK row : users' = [users EXCEPT ![u] = row] /\
                     row = CASE call[r].op = "changePassword" -> [users[u] EXCEPT !.password = r, !.mustChange = FALSE]
                             [] call[r].op = "setupTotp"   -> [users[u] EXCEPT !.secret = r]
                             [] call[r].op = "enableTotp"  -> [users[u] EXCEPT !.totp = TRUE, !.backups = BackupsOf(r)]
                             [] call[r].op = "disableTotp" -> [users[u] EXCEPT !.totp = FALSE, !.secret = None,
                                                                               !.backups = {}]
      BY <2>6 DEF SaveSelf
    <3>2. \/ row = [users[u] EXCEPT !.password = r, !.mustChange = FALSE]
          \/ row = [users[u] EXCEPT !.secret = r]
          \/ row = [users[u] EXCEPT !.totp = TRUE, !.backups = BackupsOf(r)]
          \/ row = [users[u] EXCEPT !.totp = FALSE, !.secret = None, !.backups = {}]
      BY <2>6, <3>1 DEF SaveSelf, At, Settings
    <3>3. row.email = users[u].email /\ row.space = users[u].space /\ row.active = users[u].active
      BY <1>a, <2>6, <3>2 DEF UserRow
    <3>4. QED
      BY <2>1, <2>6, <3>1, <3>3, RowSame
  <2>7. QED
    BY <1>3, <2>2, <2>3, <2>4, <2>5, <2>6 DEF OpenSession, RefuseTotp, AcceptTotp, SaveSelf
<1>4. QED
  BY <1>1, <1>2, <1>3 DEF AccountStep

(* AdminRemains is not inductive: a request on its way to take the role or *)
(* the account of a super admin has found another one, and a request about *)
(* to give an e-mail has found it free.                                    *)
GrantsOf(u) == {g \in userRoles : g.user = u}

Ready(r) ==
  /\ call[r].op = "createMember" /\ pc[r] \in {"audit", "commit"} => ~EmailTaken(call[r].email)
  /\ At(r, {"updateMember"}, "rename") => ~EmailTaken(call[r].email)
  /\ call[r].op = "memberRole" /\ pc[r] \in {"replace", "write"} => (Guarded(r) => SuperAdmins \ {call[r].id} # {})
  /\ At(r, {"memberRole"}, "write") => seen[r].cleared = GrantsOf(call[r].id)
  /\ At(r, {"disableMember", "removeMember"}, "write") => (Guarded(r) => ActiveAdmins \ {call[r].id} # {})

TeamStands ==
  /\ SuperAdmins # {}
  /\ ~Demoted => ActiveAdmins # {}
  /\ \A u \in DOMAIN users : users[u].space = Global =>
       /\ \E g : GrantsOf(u) = {g}
       /\ \A v \in DOMAIN users : v # u /\ users[v].space = Global => users[v].email # users[u].email

TeamInv == Apart => TeamStands /\ \A r \in Requests : Ready(r)

LEMMA SameTeamFacts ==
  ASSUME SameTeam
  PROVE  /\ SuperAdmins' = SuperAdmins /\ ActiveAdmins' = ActiveAdmins
         /\ \A u : GrantsOf(u)' = GrantsOf(u)
         /\ \A e : EmailTaken(e)' <=> EmailTaken(e)
<1>1. SuperAdmins' = SuperAdmins
  BY DEF SameTeam, SuperAdmins
<1>2. ActiveAdmins' = ActiveAdmins
  BY <1>1 DEF SameTeam, ActiveAdmins, SuperAdmins
<1>3. \A u : GrantsOf(u)' = GrantsOf(u)
  BY DEF SameTeam, GrantsOf
<1>4. \A e : EmailTaken(e)' <=> EmailTaken(e)
  BY DEF SameTeam, EmailTaken
<1>5. QED
  BY <1>1, <1>2, <1>3, <1>4

LEMMA StandsKept ==
  ASSUME TeamStands, SameTeam, Demoted => Demoted'
  PROVE  TeamStands'
<1>1. /\ SuperAdmins' = SuperAdmins /\ ActiveAdmins' = ActiveAdmins
      /\ \A u : GrantsOf(u)' = GrantsOf(u)
  BY SameTeamFacts
<1>2. SuperAdmins' # {} /\ (~Demoted' => ActiveAdmins' # {})
  BY <1>1 DEF TeamStands
<1>3. ASSUME NEW u \in DOMAIN users', users'[u].space = Global
      PROVE  /\ \E g : GrantsOf(u)' = {g}
             /\ \A v \in DOMAIN users' : v # u /\ users'[v].space = Global => users'[v].email # users'[u].email
  BY <1>1, <1>3 DEF TeamStands, SameTeam
<1>4. QED
  BY <1>2, <1>3 DEF TeamStands

(* Of requests that do not overlap, the others are at rest.                *)
LEMMA OthersReady ==
  ASSUME ServerInv, AloneInv, Apart, NEW r \in Requests, r \in InFlight, Moves(r), UNCHANGED call,
         NEW s \in Requests \ {r}
  PROVE  Ready(s)' /\ s \notin InFlight /\ pc'[s] = pc[s]
<1>1. s \notin InFlight /\ pc'[s] = pc[s]
  BY DEF AloneInv, Moves
<1>2. pc'[s] \notin {"audit", "commit", "rename", "replace", "write"}
  BY <1>1 DEF InFlight, Ended
<1>3. QED
  BY <1>1, <1>2 DEF Ready, At

LEMMA DemotedKept ==
  ASSUME ServerInv, NEW r \in Requests, Moves(r), \A s \in Requests \ {r} : call'[s] = call[s],
         \/ pc[r] = "idle" /\ call[r] = NoCall
         \/ r \in InFlight /\ call'[r] = call[r] /\ (call[r].op = "memberRole" /\ pc[r] = "audit" => pc'[r] \in {"done", "failed"})
  PROVE  Demoted => Demoted'
<1> SUFFICES ASSUME NEW s \in Requests, call[s].op = "memberRole", pc[s] \in {"audit", "done", "failed"} PROVE Demoted'
  BY DEF Demoted
<1>1. call'[s].op = "memberRole" /\ pc'[s] \in {"audit", "done", "failed"}
  BY DEF Moves, InFlight, Ended, NoCall
<1>2. QED
  BY <1>1 DEF Demoted

(* Losing one of several leaves one.                                       *)
LEMMA SomeRemain ==
  ASSUME NEW S, NEW u, Cardinality(S) > 1
  PROVE  S \ {u} # {}
<1> SUFFICES ASSUME S \ {u} = {} PROVE FALSE
  OBVIOUS
<1>1. S = {} \/ S = {u}
  OBVIOUS
<1>2. Cardinality(S) \in {0, 1}
  BY <1>1, FS_EmptySet, FS_Singleton
<1>3. QED
  BY <1>2

(* A step of the team's handlers that leaves the accounts alone.           *)
LEMMA ReadyStep ==
  ASSUME ServerInv, PeopleInv, NEW r \in Requests, Ready(r), TeamStep(r), UNCHANGED <<call, users, userRoles>>
  PROVE  /\ Ready(r)'
         /\ call[r].op = "memberRole" /\ pc[r] = "audit" => pc'[r] \in {"done", "failed"}
<1> DEFINE id == call[r].id
<1>0. SameTeam /\ (Guarded(r)' <=> Guarded(r))
  BY DEF SameTeam, Guarded, SuperAdmins
<1>a. /\ SuperAdmins' = SuperAdmins /\ ActiveAdmins' = ActiveAdmins
      /\ \A u : GrantsOf(u)' = GrantsOf(u)
      /\ \A e : EmailTaken(e)' <=> EmailTaken(e)
  BY <1>0, SameTeamFacts
<1>1. CASE FindEmail(r)
  <2>1. At(r, {"createMember"}, "start") /\ (Refuse(r) \/ (Goto(r, "audit") /\ ~EmailTaken(call[r].email)))
    BY <1>1 DEF FindEmail
  <2>2. call[r].op = "createMember" /\ pc[r] = "start" /\ (pc'[r] = "refused" \/ ~EmailTaken(call[r].email))
    BY <2>1, GotoFacts, AnswerFacts DEF At
  <2>3. QED
    BY <1>a, <2>2 DEF Ready, At
<1>2. CASE FindMember(r)
  <2>1. /\ At(r, {"memberRole", "disableMember", "removeMember", "resetPassword", "disable2fa", "updateMember"}, "start")
        /\ \/ Refuse(r) \/ Goto(r, "count") \/ Goto(r, "email")
           \/ Goto(r, "replace") /\ ~Guarded(r)
           \/ Goto(r, "write") /\ ~Guarded(r) /\ call[r].op # "memberRole"
    BY <1>2 DEF FindMember
  <2>2. /\ call[r].op # "createMember" /\ pc[r] = "start"
        /\ \/ pc'[r] \in {"refused", "count", "email"}
           \/ pc'[r] = "replace" /\ ~Guarded(r)
           \/ pc'[r] = "write" /\ ~Guarded(r) /\ call[r].op # "memberRole"
    BY <2>1, GotoFacts, AnswerFacts DEF At
  <2>3. QED
    BY <1>0, <2>2 DEF Ready, At
<1>3. CASE CountAdmins(r)
  <2>1. /\ At(r, {"memberRole", "disableMember", "removeMember"}, "count")
        /\ \/ Refuse(r)
           \/ /\ Enough(r)
              /\ Goto(r, IF call[r].op = "memberRole" THEN "replace" ELSE "write")
    BY <1>3 DEF CountAdmins
  <2>2. /\ call[r].op \in {"memberRole", "disableMember", "removeMember"} /\ pc[r] = "count"
        /\ \/ pc'[r] = "refused"
           \/ Enough(r) /\ pc'[r] = IF call[r].op = "memberRole" THEN "replace" ELSE "write"
    BY <2>1, GotoFacts, AnswerFacts DEF At
  <2>3. Enough(r) => /\ call[r].op = "memberRole" => SuperAdmins \ {id} # {}
                     /\ call[r].op # "memberRole" => ActiveAdmins \ {id} # {}
    BY SomeRemain DEF Enough
  <2>4. QED
    BY <1>a, <2>2, <2>3 DEF Ready, At
<1>4. CASE ClearRoles(r)
  <2>1. At(r, {"memberRole"}, "replace") /\ Keep(r, "write", [cleared |-> GrantsOf(id)])
    BY <1>4 DEF ClearRoles, GrantsOf
  <2>2. call[r].op = "memberRole" /\ pc[r] = "replace" /\ pc'[r] = "write" /\ seen'[r] = [cleared |-> GrantsOf(id)]
    BY <2>1, KeepFacts DEF At
  <2>3. QED
    BY <1>0, <1>a, <2>2 DEF Ready, At
<1>5. CASE CheckNewEmail(r)
  <2>1. /\ At(r, {"updateMember"}, "email") /\ (Refuse(r) \/ (Goto(r, "rename") /\ ~EmailTaken(call[r].email)))
    BY <1>5 DEF CheckNewEmail
  <2>2. call[r].op = "updateMember" /\ pc[r] = "email" /\ (pc'[r] = "refused" \/ (pc'[r] = "rename" /\ ~EmailTaken(call[r].email)))
    BY <2>1, GotoFacts, AnswerFacts DEF At
  <2>3. QED
    BY <1>a, <2>2 DEF Ready, At
<1>6. CASE AuditTeam(r)
  <2>1. \/ call[r].op = "createMember" /\ pc[r] = "audit" /\ pc'[r] = "commit"
        \/ call[r].op # "createMember" /\ pc'[r] = "done"
    BY <1>6, GotoFacts, AnswerFacts DEF AuditTeam, At
  <2>2. QED
    BY <1>a, <2>1 DEF Ready, At
<1>7. CASE CreateMember(r) \/ GiveRole(r) \/ UpdateMember(r) \/ RemoveMember(r)
  <2>1. /\ call[r].op = "createMember" => pc'[r] = "done" /\ pc[r] = "commit"
        /\ call[r].op = "memberRole" => pc[r] = "write"
        /\ pc'[r] \in {"done", "audit", "refused"}
    BY <1>7, GotoFacts, AnswerFacts DEF CreateMember, GiveRole, UpdateMember, RemoveMember, At
  <2>2. QED
    BY <2>1 DEF Ready, At
<1>8. QED
  BY <1>1, <1>2, <1>3, <1>4, <1>5, <1>6, <1>7 DEF TeamStep

LEMMA CreateMemberStands ==
  ASSUME ServerInv, Asking, PeopleInv, TeamStands, NEW r \in Requests, Ready(r), CreateMember(r), UNCHANGED call,
         Demoted => Demoted'
  PROVE  TeamStands'
<1> DEFINE row  == NewUser(r, call[r].email, call[r].phone, Global, TRUE)
           new  == [user |-> r, role |-> call[r].role, by |-> r]
<1>1. /\ users' = Put(users, r, row) /\ userRoles' = userRoles \cup {new}
      /\ call[r].op = "createMember" /\ pc[r] = "commit"
  BY DEF CreateMember, At
<1>2. r \notin DOMAIN users /\ GrantsOf(r) = {}
  <2>1. ~Enlisted(r)
    BY <1>1, UsersAssumption DEF Enlisted
  <2>2. QED
    BY <2>1 DEF PeopleInv, UsersTypeOK, GrantsOf
<1>3. /\ DOMAIN users' = DOMAIN users \cup {r} /\ users'[r] = row /\ row.email = call[r].email
      /\ \A u \in DOMAIN users : users'[u] = users[u]
  BY <1>1, <1>2 DEF Put, NewUser
<1>4. ~EmailTaken(call[r].email)
  BY <1>1 DEF Ready
<1>5. new.user = r
  OBVIOUS
<1> HIDE DEF row, new
<1>6. /\ GrantsOf(r)' = {new}
      /\ \A u : u # r => GrantsOf(u)' = GrantsOf(u)
  BY <1>1, <1>2, <1>5 DEF GrantsOf
<1>7. SuperAdmins \subseteq SuperAdmins' /\ ActiveAdmins \subseteq ActiveAdmins'
  BY <1>1, <1>3 DEF SuperAdmins, ActiveAdmins
<1>8. ASSUME NEW u \in DOMAIN users', users'[u].space = Global
      PROVE  /\ \E g : GrantsOf(u)' = {g}
             /\ \A v \in DOMAIN users' : v # u /\ users'[v].space = Global => users'[v].email # users'[u].email
  <2>1. \E g : GrantsOf(u)' = {g}
    BY <1>3, <1>6, <1>8 DEF TeamStands
  <2>2. ASSUME NEW v \in DOMAIN users', v # u, users'[v].space = Global PROVE users'[v].email # users'[u].email
    <3>1. CASE u = r
      BY <1>3, <1>4, <2>2, <3>1 DEF EmailTaken
    <3>2. CASE v = r
      BY <1>3, <1>4, <2>2, <3>2 DEF EmailTaken
    <3>3. CASE u # r /\ v # r
      BY <1>3, <1>8, <2>2, <3>3 DEF TeamStands
    <3>4. QED
      BY <3>1, <3>2, <3>3
  <2>3. QED
    BY <2>1, <2>2
<1>9. QED
  BY <1>7, <1>8 DEF TeamStands

LEMMA GiveRoleStands ==
  ASSUME ServerInv, PeopleInv, TeamStands, NEW r \in Requests, Ready(r), GiveRole(r), UNCHANGED call,
         ~UNCHANGED userRoles
  PROVE  TeamStands'
<1> DEFINE id   == call[r].id
           new  == [user |-> id, role |-> call[r].role, by |-> r]
<1>1. /\ call[r].op = "memberRole" /\ pc[r] = "write" /\ id \in DOMAIN users /\ UNCHANGED users
      /\ Goto(r, "audit") /\ userRoles' = (userRoles \ seen[r].cleared) \cup {new}
  BY DEF GiveRole, At
<1>2. pc'[r] = "audit"
  BY <1>1, GotoFacts
<1>3. Demoted'
  BY <1>1, <1>2 DEF Demoted
<1>4. seen[r].cleared = GrantsOf(id) /\ (Guarded(r) => SuperAdmins \ {id} # {})
  BY <1>1 DEF Ready, At
<1>5. new.user = id /\ new.role = call[r].role
  OBVIOUS
<1> HIDE DEF new
<1>6. GrantsOf(id)' = {new} /\ \A u : u # id => GrantsOf(u)' = GrantsOf(u)
  BY <1>1, <1>4, <1>5 DEF GrantsOf
<1>7. SuperAdmins' # {}
  <2>1. CASE call[r].role = "SUPER_ADMIN"
    BY <1>1, <1>5, <2>1 DEF SuperAdmins
  <2>2. CASE call[r].role # "SUPER_ADMIN"
    <3>1. SuperAdmins \ {id} # {}
      BY <1>1, <1>4, <2>2 DEF Guarded, TeamStands
    <3>2. PICK x \in DOMAIN users : x # id /\ \E g \in userRoles : g.user = x /\ g.role = "SUPER_ADMIN"
      BY <3>1 DEF SuperAdmins
    <3>3. \E g \in userRoles' : g.user = x /\ g.role = "SUPER_ADMIN"
      BY <1>1, <1>4, <3>2 DEF GrantsOf
    <3>4. QED
      BY <1>1, <3>3 DEF SuperAdmins
  <2>3. QED
    BY <2>1, <2>2
<1>8. ASSUME NEW u \in DOMAIN users', users'[u].space = Global
      PROVE  /\ \E g : GrantsOf(u)' = {g}
             /\ \A v \in DOMAIN users' : v # u /\ users'[v].space = Global => users'[v].email # users'[u].email
  <2>1. \E g : GrantsOf(u)' = {g}
    BY <1>1, <1>6, <1>8 DEF TeamStands
  <2>2. QED
    BY <1>1, <1>8, <2>1 DEF TeamStands
<1>9. QED
  BY <1>3, <1>7, <1>8 DEF TeamStands

(* One of the accounts is rewritten, and stays an account of the team or   *)
(* none.                                                                   *)
LEMMA RewriteStands ==
  ASSUME PeopleInv, TeamStands, NEW id \in DOMAIN users, NEW row \in UserRow, UNCHANGED userRoles,
         users' = [users EXCEPT ![id] = row], row.space = users[id].space, Demoted => Demoted',
         row.email = users[id].email \/ ~EmailTaken(row.email),
         users[id].active /\ ~row.active /\ ActiveAdmins # {} => ActiveAdmins \ {id} # {}
  PROVE  TeamStands'
<1>1. /\ DOMAIN users' = DOMAIN users /\ users'[id] = row
      /\ \A u \in DOMAIN users \ {id} : users'[u] = users[u]
  OBVIOUS
<1>2. SuperAdmins' = SuperAdmins /\ \A u : GrantsOf(u)' = GrantsOf(u)
  BY <1>1 DEF SuperAdmins, GrantsOf
<1>3. ActiveAdmins \ {id} \subseteq ActiveAdmins'
  BY <1>1, <1>2 DEF ActiveAdmins
<1>4. ActiveAdmins # {} => ActiveAdmins' # {}
  <2>1. id \in ActiveAdmins /\ row.active => id \in ActiveAdmins'
    BY <1>1, <1>2 DEF ActiveAdmins
  <2>2. id \in ActiveAdmins => users[id].active
    BY DEF ActiveAdmins
  <2>3. QED
    BY <1>3, <2>1, <2>2
<1>5. ASSUME NEW u \in DOMAIN users', users'[u].space = Global
      PROVE  /\ \E g : GrantsOf(u)' = {g}
             /\ \A v \in DOMAIN users' : v # u /\ users'[v].space = Global => users'[v].email # users'[u].email
  <2>1. users[u].space = Global
    BY <1>1, <1>5
  <2>2. \E g : GrantsOf(u)' = {g}
    BY <1>1, <1>2, <2>1 DEF TeamStands
  <2>3. ASSUME NEW v \in DOMAIN users', v # u, users'[v].space = Global PROVE users'[v].email # users'[u].email
    <3>1. users[v].space = Global /\ users[v].email # users[u].email
      BY <1>1, <2>1, <2>3 DEF TeamStands
    <3>2. QED
      BY <1>1, <2>3, <3>1 DEF EmailTaken
  <2>4. QED
    BY <2>2, <2>3
<1>6. QED
  BY <1>2, <1>4, <1>5 DEF TeamStands

LEMMA UpdateMemberStands ==
  ASSUME ServerInv, Asking, PeopleInv, TeamStands, NEW r \in Requests, Ready(r), UpdateMember(r), UNCHANGED call,
         call[r] \in TeamCalls, Demoted => Demoted'
  PROVE  TeamStands'
<1> DEFINE id  == call[r].id
           row == Rewritten(r, users[id])
<1>1. CASE id \notin DOMAIN users
  <2>1. SameTeam
    BY <1>1 DEF UpdateMember, SameTeam
  <2>2. QED
    BY <2>1, StandsKept
<1>2. CASE id \in DOMAIN users
  <2>1. users' = [users EXCEPT ![id] = row] /\ UNCHANGED userRoles
    BY <1>2 DEF UpdateMember
  <2>2. /\ call[r].op \in {"enableMember", "disableMember", "resetPassword", "disable2fa", "updateMember"}
        /\ pc[r] \in {"start", "write", "rename"} /\ (call[r].op = "disableMember" => pc[r] = "write")
        /\ (pc[r] = "rename" => call[r].op = "updateMember")
    BY DEF UpdateMember, At
  <2>3. users[id] \in UserRow
    BY <1>2 DEF PeopleInv, UsersTypeOK
  <2>4. row \in UserRow
    BY <2>2, <2>3, RewrittenTyped
  <2>5. row.space = users[id].space
    <3>1. CASE call[r].op \in {"enableMember", "disableMember"}
      BY <2>3, <3>1 DEF Rewritten, UserRow
    <3>2. CASE call[r].op \in {"resetPassword", "disable2fa"}
      BY <2>3, <3>2 DEF Rewritten, UserRow
    <3>3. CASE call[r].op = "updateMember"
      BY <2>3, <3>3 DEF Rewritten, UserRow
    <3>4. QED
      BY <2>2, <3>1, <3>2, <3>3
  <2>6. row.email = users[id].email \/ ~EmailTaken(row.email)
    <3>1. CASE call[r].op \in {"enableMember", "disableMember"}
      BY <2>3, <3>1 DEF Rewritten, UserRow
    <3>2. CASE call[r].op \in {"resetPassword", "disable2fa"}
      BY <2>3, <3>2 DEF Rewritten, UserRow
    <3>3. CASE call[r].op = "updateMember"
      <4>1. row = IF pc[r] = "rename" THEN [users[id] EXCEPT !.email = call[r].email] ELSE users[id]
        BY <3>3 DEF Rewritten
      <4>2. pc[r] = "rename" => ~EmailTaken(call[r].email)
        BY <3>3 DEF Ready, At
      <4>3. QED
        BY <2>3, <4>1, <4>2 DEF UserRow
    <3>4. QED
      BY <2>2, <3>1, <3>2, <3>3
  <2>7. users[id].active /\ ~row.active /\ ActiveAdmins # {} => ActiveAdmins \ {id} # {}
    <3>1. CASE call[r].op = "disableMember"
      <4>1. /\ Guarded(r) => ActiveAdmins \ {id} # {}
            /\ ~Guarded(r) => id \notin SuperAdmins
        BY <2>2, <3>1 DEF Ready, At, Guarded
      <4>2. QED
        BY <4>1 DEF ActiveAdmins
    <3>2. CASE call[r].op = "enableMember"
      BY <2>3, <3>2 DEF Rewritten, UserRow
    <3>3. CASE call[r].op \in {"resetPassword", "disable2fa"}
      BY <2>3, <3>3 DEF Rewritten, UserRow
    <3>4. CASE call[r].op = "updateMember"
      BY <2>3, <3>4 DEF Rewritten, UserRow
    <3>5. QED
      BY <2>2, <3>1, <3>2, <3>3, <3>4
  <2> HIDE DEF row
  <2>8. QED
    BY <1>2, <2>1, <2>4, <2>5, <2>6, <2>7, RewriteStands
<1>3. QED
  BY <1>1, <1>2

LEMMA RemoveMemberStands ==
  ASSUME ServerInv, PeopleInv, TeamStands, NEW r \in Requests, Ready(r), RemoveMember(r), UNCHANGED call,
         Demoted => Demoted'
  PROVE  TeamStands'
<1> DEFINE id == call[r].id
<1>1. CASE UNCHANGED people
  BY <1>1, StandsKept DEF SameTeam, people
<1>2. CASE users' = Without(users, id) /\ userRoles' = {g \in userRoles : g.user # id}
  <2>1. /\ DOMAIN users' = DOMAIN users \ {id}
        /\ \A u \in DOMAIN users' : users'[u] = users[u]
    BY <1>2 DEF Without
  <2>2. \A u : u # id => GrantsOf(u)' = GrantsOf(u)
    BY <1>2 DEF GrantsOf
  <2>3. SuperAdmins' = SuperAdmins \ {id}
    BY <1>2, <2>1 DEF SuperAdmins
  <2>4. ActiveAdmins' = ActiveAdmins \ {id}
    BY <2>1, <2>3 DEF ActiveAdmins, SuperAdmins
  <2>5. /\ Guarded(r) => ActiveAdmins \ {id} # {}
        /\ ~Guarded(r) => id \notin SuperAdmins
    BY DEF RemoveMember, Ready, At, Guarded
  <2>6. SuperAdmins' # {} /\ (~Demoted' => ActiveAdmins' # {})
    BY <2>3, <2>4, <2>5 DEF ActiveAdmins, TeamStands
  <2>7. ASSUME NEW u \in DOMAIN users', users'[u].space = Global
        PROVE  /\ \E g : GrantsOf(u)' = {g}
               /\ \A v \in DOMAIN users' : v # u /\ users'[v].space = Global => users'[v].email # users'[u].email
    <3>1. u # id /\ u \in DOMAIN users /\ users[u].space = Global
      BY <2>1, <2>7
    <3>2. \E g : GrantsOf(u)' = {g}
      BY <2>2, <3>1 DEF TeamStands
    <3>3. QED
      BY <2>1, <3>1, <3>2 DEF TeamStands
  <2>8. QED
    BY <2>6, <2>7 DEF TeamStands
<1>3. QED
  BY <1>1, <1>2 DEF RemoveMember

LEMMA TeamStepStands ==
  ASSUME ServerInv, Asking, PeopleInv, TeamStands, NEW r \in Requests, Ready(r), TeamStep(r), UNCHANGED call
  PROVE  TeamStands' /\ Ready(r)'
<1>0. Moves(r) /\ r \in InFlight /\ call[r] \in TeamCalls
  BY TeamMoves, CallsTyped
<1>1. CASE UNCHANGED people
  <2>1. Ready(r)' /\ (call[r].op = "memberRole" /\ pc[r] = "audit" => pc'[r] \in {"done", "failed"}) /\ SameTeam
    BY <1>1, ReadyStep DEF people, SameTeam
  <2>2. QED
    BY <1>0, <2>1, DemotedKept, StandsKept
<1>2. CASE (CreateMember(r) \/ GiveRole(r) \/ UpdateMember(r) \/ RemoveMember(r)) /\ ~UNCHANGED people
  <2>1. ~(call[r].op = "memberRole" /\ pc[r] = "audit")
    BY <1>2 DEF CreateMember, GiveRole, UpdateMember, RemoveMember, At
  <2>2. Demoted => Demoted'
    BY <1>0, <2>1, DemotedKept
  <2>3. pc'[r] \in {"done", "audit", "refused"} /\ (call[r].op = "createMember" => pc'[r] = "done")
    BY <1>2, GotoFacts, AnswerFacts DEF CreateMember, GiveRole, UpdateMember, RemoveMember, At
  <2>4. Ready(r)'
    BY <2>3 DEF Ready, At
  <2>5. GiveRole(r) => ~UNCHANGED userRoles
    BY <1>2 DEF GiveRole, people
  <2>6. QED
    BY <1>0, <1>2, <2>2, <2>4, <2>5, CreateMemberStands, GiveRoleStands, UpdateMemberStands, RemoveMemberStands
<1>3. CASE FindEmail(r) \/ FindMember(r) \/ CountAdmins(r) \/ ClearRoles(r) \/ CheckNewEmail(r) \/ AuditTeam(r)
  BY <1>1, <1>3 DEF FindEmail, FindMember, CountAdmins, ClearRoles, CheckNewEmail, AuditTeam
<1>4. QED
  BY <1>1, <1>2, <1>3 DEF TeamStep

(* A registration adds an account, which is not one of the team.           *)
LEMMA OpensStands ==
  ASSUME PeopleInv, TeamStands, NEW r \in Requests, Opens(r), Demoted => Demoted'
  PROVE  TeamStands'
<1> DEFINE row  == NewUser(r, call[r].email, seen[r].phone, r, FALSE)
           new  == [user |-> r, role |-> "ADMIN_TENANT", by |-> r]
<1>1. users' = Put(users, r, row) /\ userRoles' = userRoles \cup {new}
  BY DEF Opens
<1>2. r \notin DOMAIN users
  BY UsersAssumption DEF Opens, PeopleInv, Enlisted
<1>3. /\ DOMAIN users' = DOMAIN users \cup {r} /\ users'[r] = row /\ row.space = r
      /\ \A u \in DOMAIN users : users'[u] = users[u]
  BY <1>1, <1>2 DEF Put, NewUser
<1>4. r # Global
  BY UsersAssumption
<1>5. new.user = r
  OBVIOUS
<1> HIDE DEF row, new
<1>6. \A u : u # r => GrantsOf(u)' = GrantsOf(u)
  BY <1>1, <1>5 DEF GrantsOf
<1>7. SuperAdmins \subseteq SuperAdmins' /\ ActiveAdmins \subseteq ActiveAdmins'
  BY <1>1, <1>3 DEF SuperAdmins, ActiveAdmins
<1>8. ASSUME NEW u \in DOMAIN users', users'[u].space = Global
      PROVE  /\ \E g : GrantsOf(u)' = {g}
             /\ \A v \in DOMAIN users' : v # u /\ users'[v].space = Global => users'[v].email # users'[u].email
  <2>1. u # r /\ u \in DOMAIN users /\ users[u].space = Global
    BY <1>3, <1>4, <1>8
  <2>2. \E g : GrantsOf(u)' = {g}
    BY <1>6, <2>1 DEF TeamStands
  <2>3. QED
    BY <1>3, <1>4, <2>1, <2>2 DEF TeamStands
<1>9. QED
  BY <1>7, <1>8 DEF TeamStands

LEMMA TeamStart == Init => TeamInv
<1> SUFFICES ASSUME Init PROVE TeamStands /\ \A r \in Requests : Ready(r)
  BY DEF TeamInv
<1>1. /\ users = OldUsers /\ userRoles = {[user |-> u, role |-> OldRoles[u], by |-> None] : u \in DOMAIN OldUsers}
      /\ pc = [r \in Requests |-> "idle"]
  BY DEF Init, UsersInit, ServerInit
<1>2. \A u \in DOMAIN OldUsers : GrantsOf(u) = {[user |-> u, role |-> OldRoles[u], by |-> None]}
  BY <1>1 DEF GrantsOf
<1>3. ActiveAdmins # {} /\ SuperAdmins # {}
  <2>1. PICK u \in DOMAIN OldUsers : OldUsers[u].active /\ OldRoles[u] = "SUPER_ADMIN"
    BY TeamAssumption
  <2>2. [user |-> u, role |-> OldRoles[u], by |-> None] \in userRoles
    BY <1>1
  <2>3. u \in SuperAdmins
    BY <1>1, <2>1, <2>2 DEF SuperAdmins
  <2>4. QED
    BY <1>1, <2>1, <2>3 DEF ActiveAdmins
<1>4. TeamStands
  BY <1>1, <1>2, <1>3, TeamAssumption DEF TeamStands
<1>5. \A r \in Requests : Ready(r)
  BY <1>1 DEF Ready, At
<1>6. QED
  BY <1>4, <1>5

LEMMA TeamNext ==
  ASSUME ServerInv, Asking, AloneInv, PeopleInv, TeamInv, [Next]_vars
  PROVE  TeamInv'
<1>0. UNCHANGED scene
  BY RestartFacts DEF Next, vars, serverVars, Clock
<1> SUFFICES ASSUME Apart PROVE TeamStands' /\ \A r \in Requests : Ready(r)'
  BY <1>0 DEF TeamInv, Apart
<1>a. TeamStands /\ \A r \in Requests : Ready(r)
  BY DEF TeamInv
<1>1. ASSUME UNCHANGED <<pc, call, seen, users, userRoles>> PROVE TeamStands' /\ \A r \in Requests : Ready(r)'
  <2>1. SameTeam /\ (Demoted => Demoted') /\ \A r \in Requests : Guarded(r)' <=> Guarded(r)
    BY <1>1 DEF SameTeam, Demoted, Guarded, SuperAdmins
  <2>2. TeamStands'
    BY <1>a, <2>1, StandsKept
  <2>3. ASSUME NEW r \in Requests PROVE Ready(r)'
    BY <1>1, <1>a, <2>1, SameTeamFacts DEF Ready, At
  <2>4. QED
    BY <2>2, <2>3
<1>2. ASSUME NEW r \in Requests, Request(r) PROVE TeamStands' /\ \A s \in Requests : Ready(s)'
  <2>1. CASE Arrive(r) /\ UNCHANGED tables
    <3>1. Moves(r) /\ pc[r] = "idle" /\ call[r] = NoCall /\ pc'[r] = "start" /\ \A s \in Requests \ {r} : call'[s] = call[s]
      BY <2>1, ArriveFacts
    <3>2. SameTeam /\ (Demoted => Demoted')
      BY <2>1, <3>1, DemotedKept DEF SameTeam, tables, accounts, people
    <3>3. ASSUME NEW s \in Requests PROVE Ready(s)'
      <4>1. CASE s = r
        BY <3>1, <4>1 DEF Ready, At
      <4>2. CASE s # r
        <5>1. pc'[s] = pc[s] /\ call'[s] = call[s] /\ seen'[s] = seen[s] /\ (Guarded(s)' <=> Guarded(s))
          BY <3>1, <3>2, <4>2, SameTeamFacts DEF Moves, Guarded
        <5>2. QED
          BY <1>a, <3>2, <5>1, SameTeamFacts DEF Ready, At
      <4>3. QED
        BY <4>1, <4>2
    <3>4. QED
      BY <1>a, <3>2, <3>3, StandsKept
  <2>2. ASSUME r \in InFlight, Moves(r), UNCHANGED call, TeamStands', Ready(r)' PROVE TeamStands' /\ \A s \in Requests : Ready(s)'
    BY <2>2, OthersReady
  <2>3. CASE Fail(r) /\ UNCHANGED tables
    <3>1. Moves(r) /\ r \in InFlight /\ pc'[r] = "failed" /\ UNCHANGED call
      BY <2>3, FailFacts
    <3>2. SameTeam /\ (Demoted => Demoted')
      BY <2>3, <3>1, DemotedKept DEF SameTeam, tables, accounts, people
    <3>3. TeamStands' /\ Ready(r)'
      BY <1>a, <3>1, <3>2, StandsKept DEF Ready, At
    <3>4. QED
      BY <2>2, <3>1, <3>3
  <2>4. CASE TeamStep(r) /\ UNCHANGED call /\ Moves(r) /\ r \in InFlight
    BY <1>a, <2>2, <2>4, TeamStepStands
  <2>5. ASSUME UNCHANGED call, Moves(r), r \in InFlight, call[r].op \notin TeamOps, SameTeam \/ Opens(r)
        PROVE  TeamStands' /\ \A s \in Requests : Ready(s)'
    <3>1. Demoted => Demoted'
      BY <2>5, DemotedKept DEF TeamOps
    <3>2. TeamStands'
      BY <1>a, <2>5, <3>1, StandsKept, OpensStands
    <3>3. Ready(r)'
      BY <2>5 DEF Ready, At, TeamOps
    <3>4. QED
      BY <2>2, <2>5, <3>2, <3>3
  <2>6. CASE AccountStep(r) /\ UNCHANGED call /\ Moves(r) /\ r \in InFlight /\ call[r].op \in AccountOps
    BY <2>5, <2>6, AccountStepTeam, Disjoint
  <2>7. CASE UNCHANGED people /\ UNCHANGED call /\ Moves(r) /\ r \in InFlight /\ call[r].op \notin TeamOps
    BY <2>5, <2>7 DEF people, SameTeam
  <2>8. QED
    BY <1>2, <2>1, <2>3, <2>4, <2>6, <2>7, Disjoint, RequestCases DEF accounts
<1>3. CASE Clock
  BY <1>1, <1>3 DEF Clock, serverVars, people
<1>4. CASE Restart
  <2>1. /\ UNCHANGED <<call, people>>
        /\ \A r \in Requests : IF r \in InFlight THEN pc'[r] = "failed" ELSE pc'[r] = pc[r]
    BY <1>4, RestartFacts
  <2>2. SameTeam /\ (Demoted => Demoted')
    BY <2>1 DEF SameTeam, people, Demoted, InFlight, Ended
  <2>3. ASSUME NEW r \in Requests PROVE Ready(r)'
    <3>1. pc'[r] \notin {"audit", "commit", "rename", "replace", "write"}
      BY <2>1 DEF InFlight, Ended
    <3>2. QED
      BY <3>1 DEF Ready, At
  <2>4. QED
    BY <1>a, <2>2, <2>3, StandsKept
<1>5. CASE UNCHANGED vars
  BY <1>1, <1>5 DEF vars, serverVars, accounts, people
<1>6. QED
  BY <1>2, <1>3, <1>4, <1>5 DEF Next

(* Of requests that do not overlap, whatever fails half way and whenever   *)
(* the process is restarted, none leaves the platform without a super      *)
(* admin, and none but a change of role without an active one; each        *)
(* account of the team has one role and an e-mail of its own               *)
(* (super-admin-team.service.ts:131, 182, 348).                            *)
THEOREM AdminsAlwaysRemain == Spec => []AdminRemains
<1>1. PeopleInv /\ TeamInv => AdminRemains
  <2> SUFFICES ASSUME PeopleInv, TeamStands PROVE Apart => AdminRemains
    BY DEF TeamInv, AdminRemains
  <2>1. ASSUME NEW u \in DOMAIN users, users[u].space = Global
        PROVE  Cardinality({g \in userRoles : g.user = u}) = 1
    <3>1. PICK g : GrantsOf(u) = {g}
      BY <2>1 DEF TeamStands
    <3>2. QED
      BY <3>1, FS_Singleton DEF GrantsOf
  <2>2. QED
    BY <2>1 DEF TeamStands, AdminRemains
<1>2. Init => ServerInv /\ Asking /\ AloneInv /\ PeopleInv /\ TeamInv
  BY ServerStart, AskingStart, AloneStart, PeopleStart, TeamStart
<1>3. ServerInv /\ Asking /\ AloneInv /\ PeopleInv /\ TeamInv /\ [Next]_vars
        => (ServerInv /\ Asking /\ AloneInv /\ PeopleInv /\ TeamInv)'
  BY ServerStep, AskingStep, AloneStep, PeopleNext, TeamNext
<1>4. QED
  BY <1>1, <1>2, <1>3, PTL DEF Spec

-----------------------------------------------------------------------------
(* RegisteredOnce is not inductive: an e-mail that waits to be registered, *)
(* or is on its way to be, is nobody's unless the console's team took it.  *)

(* The console's team has not asked for the e-mail.                        *)
Untaken(e) == \A r \in Requests : call[r].op \in {"createMember", "updateMember"} => call[r].email # e

Free(e) == Untaken(e) => ~EmailTaken(e)

Claiming(r) == At(r, {"registerInit"}, "phone") \/ At(r, {"registerInit"}, "store") \/ Registering(r)

OnItsWay(r) ==
  /\ Claiming(r) => Free(call[r].email)
  /\ Registering(r) => call[r].email \notin DOMAIN pending

OneAccountEach ==
  \A u \in Registered : Untaken(users[u].email) => \A v \in DOMAIN users : users[v].email = users[u].email => v = u

RegistrationInv ==
  Apart =>
    /\ OneAccountEach
    /\ \A e \in DOMAIN pending : Free(e)
    /\ \A r \in Requests : OnItsWay(r)

(* No account is given an e-mail the team did not ask for.                 *)
NoNewEmail ==
  /\ \A e : Untaken(e)' => Untaken(e)
  /\ \A v \in DOMAIN users' : Untaken(users'[v].email) => v \in DOMAIN users /\ users[v].email = users'[v].email
  /\ \A u \in DOMAIN users \cap Requests : call'[u].op = "registerConfirm" => call[u].op = "registerConfirm"

LEMMA UntakenKept ==
  ASSUME ServerInv, NEW r \in Requests, UNCHANGED call \/ Arrive(r)
  PROVE  \A e : Untaken(e)' => Untaken(e)
<1>1. CASE UNCHANGED call
  BY <1>1 DEF Untaken
<1>2. CASE Arrive(r)
  <2>1. call[r] = NoCall /\ \A s \in Requests \ {r} : call'[s] = call[s]
    BY <1>2, ArriveFacts
  <2>2. QED
    BY <2>1 DEF Untaken, NoCall
<1>3. QED
  BY <1>1, <1>2

LEMMA EmailsKept ==
  ASSUME NoNewEmail, OneAccountEach
  PROVE  OneAccountEach' /\ \A e : Free(e) => Free(e)'
<1>1. ASSUME NEW e, Free(e) PROVE Free(e)'
  BY <1>1 DEF NoNewEmail, Free, EmailTaken
<1>2. ASSUME NEW u \in Registered', Untaken(users[u].email)', NEW v \in DOMAIN users', users'[v].email = users'[u].email
      PROVE  v = u
  <2>1. Untaken(users'[u].email) /\ u \in DOMAIN users' /\ u \in Requests /\ call'[u].op = "registerConfirm"
    BY <1>2 DEF NoNewEmail, Registered, Untaken
  <2>2. /\ u \in DOMAIN users /\ users[u].email = users'[u].email
        /\ v \in DOMAIN users /\ users[v].email = users'[v].email
    BY <1>2, <2>1 DEF NoNewEmail
  <2>3. u \in Registered
    BY <2>1, <2>2 DEF NoNewEmail, Registered
  <2>4. QED
    BY <1>2, <2>1, <2>2, <2>3 DEF OneAccountEach
<1>3. QED
  BY <1>1, <1>2 DEF OneAccountEach

LEMMA SameTeamEmails ==
  ASSUME SameTeam, UNCHANGED call
  PROVE  NoNewEmail
BY DEF SameTeam, NoNewEmail, Untaken

LEMMA TeamStepEmails ==
  ASSUME ServerInv, Asking, PeopleInv, NEW r \in Requests, TeamStep(r), UNCHANGED call
  PROVE  NoNewEmail
<1>0. call[r] \in TeamCalls /\ \A e : Untaken(e)' => Untaken(e)
  BY TeamMoves, CallsTyped DEF Untaken
<1>1. CASE UNCHANGED people
  BY <1>1, SameTeamEmails DEF SameTeam, people
<1>2. CASE CreateMember(r)
  <2>1. /\ users' = Put(users, r, NewUser(r, call[r].email, call[r].phone, Global, TRUE))
        /\ call[r].op = "createMember"
    BY <1>2 DEF CreateMember, At
  <2>2. /\ DOMAIN users' = DOMAIN users \cup {r} /\ users'[r].email = call[r].email
        /\ \A u \in DOMAIN users \ {r} : users'[u] = users[u]
    BY <2>1 DEF Put, NewUser
  <2>3. ~Untaken(call[r].email)
    BY <2>1 DEF Untaken
  <2>4. QED
    BY <1>0, <2>2, <2>3 DEF NoNewEmail
<1>3. CASE GiveRole(r)
  BY <1>0, <1>3 DEF GiveRole, NoNewEmail
<1>4. CASE UpdateMember(r) /\ call[r].id \in DOMAIN users
  <2> DEFINE id  == call[r].id
             row == Rewritten(r, users[id])
  <2>1. users' = [users EXCEPT ![id] = row]
    BY <1>4 DEF UpdateMember
  <2>2. users[id] \in UserRow
    BY <1>4 DEF PeopleInv, UsersTypeOK
  <2>3. row.email = users[id].email \/ (call[r].op = "updateMember" /\ row.email = call[r].email)
    <3>1. CASE call[r].op \in {"enableMember", "disableMember"}
      BY <2>2, <3>1 DEF Rewritten, UserRow
    <3>2. CASE call[r].op \in {"resetPassword", "disable2fa"}
      BY <2>2, <3>2 DEF Rewritten, UserRow
    <3>3. CASE call[r].op = "updateMember"
      BY <2>2, <3>3 DEF Rewritten, UserRow
    <3>4. QED
      BY <1>4, <3>1, <3>2, <3>3 DEF UpdateMember, At
  <2>4. call[r].op = "updateMember" => ~Untaken(call[r].email)
    BY DEF Untaken
  <2> HIDE DEF row
  <2>5. QED
    BY <1>0, <1>4, <2>1, <2>3, <2>4 DEF NoNewEmail
<1>5. CASE RemoveMember(r) /\ users' = Without(users, call[r].id)
  BY <1>0, <1>5 DEF NoNewEmail, Without
<1>6. QED
  BY <1>1, <1>2, <1>3, <1>4, <1>5 DEF TeamStep, FindEmail, FindMember, CountAdmins, ClearRoles, CheckNewEmail, AuditTeam,
     UpdateMember, RemoveMember, people

(* Where a handler of accounts takes a registration.                       *)
LEMMA RegistrationStep ==
  ASSUME ServerInv, NEW r \in Requests, AccountStep(r), OnItsWay(r), \A e \in DOMAIN pending : Free(e), UNCHANGED call
  PROVE  /\ \A e \in DOMAIN pending' : Free(e)
         /\ Claiming(r)' => Free(call[r].email)
         /\ Registering(r)' => call[r].email \notin DOMAIN pending'
<1>1. CASE InitEmail(r) \/ InitPhone(r)
  <2>1. UNCHANGED pending /\ call[r].op = "registerInit"
    BY <1>1 DEF InitEmail, InitPhone, accounts, At
  <2>2. ~EmailTaken(call[r].email) \/ pc[r] = "phone" \/ pc'[r] = "refused"
    BY <1>1, AnswerFacts DEF InitEmail, InitPhone, EmailFree, At
  <2>3. QED
    BY <2>1, <2>2 DEF OnItsWay, Claiming, Registering, At, Free
<1>2. CASE StoreRegistration(r)
  <2>1. /\ call[r].op = "registerInit" /\ pc[r] = "store" /\ DOMAIN pending' = DOMAIN pending \cup {call[r].email}
    BY <1>2 DEF StoreRegistration, At, Put
  <2>2. pc'[r] \in {"send", "refused"}
    BY <1>2, GotoFacts, AnswerFacts DEF StoreRegistration, SendOtp
  <2>3. QED
    BY <2>1, <2>2 DEF OnItsWay, Claiming, Registering, At
<1>3. CASE ConfirmCode(r)
  <2>1. call[r].op = "registerConfirm" /\ UNCHANGED pending
    BY <1>3 DEF ConfirmCode, At
  <2>2. pc'[r] \in {"pending", "refused"}
    BY <1>3, GotoFacts, AnswerFacts DEF ConfirmCode, VerifyOtp
  <2>3. QED
    BY <2>1, <2>2 DEF Claiming, Registering, At
<1>4. CASE TakeRegistration(r)
  <2>1. call[r].op = "registerConfirm" /\ DOMAIN pending' = DOMAIN pending \ {call[r].email}
    BY <1>4 DEF TakeRegistration, At, Without
  <2>2. pc'[r] = "refused" \/ (pc'[r] = "count" /\ call[r].email \in DOMAIN pending)
    BY <1>4, KeepFacts, AnswerFacts DEF TakeRegistration
  <2>3. QED
    BY <2>1, <2>2 DEF Claiming, Registering, At
<1>5. CASE CountSpaces(r)
  <2>1. call[r].op = "registerConfirm" /\ pc[r] = "count" /\ UNCHANGED pending
    BY <1>5 DEF CountSpaces, At, accounts
  <2>2. QED
    BY <2>1 DEF OnItsWay, Claiming, Registering, At
<1>6. CASE CreateSpace(r) \/ SendCode(r)
  <2>1. pc'[r] \in {"done", "refused"} /\ UNCHANGED pending
    BY <1>6, AnswerFacts DEF CreateSpace, SendCode, accounts
  <2>2. QED
    BY <2>1 DEF Claiming, Registering, At
<1>7. CASE Login(r) \/ OpenSession(r) \/ CheckTotp(r) \/ RefuseTotp(r) \/ AcceptTotp(r) \/ FindSelf(r) \/ SaveSelf(r)
  <2>1. UNCHANGED pending /\ call[r].op \in {"login", "verifyTotp"} \cup Settings
    BY <1>7 DEF Login, OpenSession, CheckTotp, RefuseTotp, AcceptTotp, FindSelf, SaveSelf, At, accounts
  <2>2. QED
    BY <2>1 DEF Claiming, Registering, At, Settings
<1>8. QED
  BY <1>1, <1>2, <1>3, <1>4, <1>5, <1>6, <1>7 DEF AccountStep

(* The account a registration opens has the e-mail that waited.            *)
LEMMA OpensOnce ==
  ASSUME ServerInv, PeopleInv, NEW r \in Requests, Opens(r), UNCHANGED call, OneAccountEach, OnItsWay(r),
         \A e \in DOMAIN pending : Free(e)
  PROVE  OneAccountEach' /\ (\A e \in DOMAIN pending : Free(e)')
<1> DEFINE mine == call[r].email
<1>1. /\ call[r].op = "registerConfirm" /\ pc[r] = "commit"
      /\ users' = Put(users, r, NewUser(r, mine, seen[r].phone, r, FALSE))
  BY DEF Opens
<1>2. r \notin DOMAIN users
  BY <1>1, UsersAssumption DEF PeopleInv, Enlisted
<1>3. /\ DOMAIN users' = DOMAIN users \cup {r} /\ users'[r].email = mine
      /\ \A u \in DOMAIN users : users'[u] = users[u]
  BY <1>1, <1>2 DEF Put, NewUser
<1>4. Free(mine) /\ mine \notin DOMAIN pending
  BY <1>1 DEF OnItsWay, Claiming, Registering, At
<1>5. \A e : Untaken(e)' <=> Untaken(e)
  BY DEF Untaken
<1>6. ASSUME NEW u \in DOMAIN users' \cap Requests, call[u].op = "registerConfirm", Untaken(users[u].email)',
             NEW v \in DOMAIN users', users'[v].email = users'[u].email
      PROVE  v = u
  <2>1. Untaken(users'[u].email)
    BY <1>6 DEF Untaken
  <2>2. CASE u = r
    BY <1>3, <1>4, <1>6, <2>1, <2>2 DEF Free, EmailTaken
  <2>3. CASE u # r /\ v = r
    BY <1>3, <1>4, <1>6, <2>1, <2>3 DEF Free, EmailTaken
  <2>4. CASE u # r /\ v # r
    <3>1. u \in Registered /\ v \in DOMAIN users /\ users'[u] = users[u] /\ users'[v] = users[v]
      BY <1>3, <1>6, <2>4 DEF Registered
    <3>2. Untaken(users[u].email)
      BY <2>1, <3>1
    <3>3. QED
      BY <1>6, <3>1, <3>2 DEF OneAccountEach
  <2>5. QED
    BY <2>2, <2>3, <2>4
<1>7. OneAccountEach'
  BY <1>6 DEF OneAccountEach, Registered
<1>8. ASSUME NEW e \in DOMAIN pending PROVE Free(e)'
  <2>1. Free(e) /\ e # mine
    BY <1>4, <1>8
  <2>2. EmailTaken(e)' => EmailTaken(e)
    BY <1>3, <2>1 DEF EmailTaken
  <2>3. QED
    BY <1>5, <2>1, <2>2 DEF Free
<1>9. QED
  BY <1>7, <1>8

LEMMA AccountStepEmails ==
  ASSUME ServerInv, PeopleInv, NEW r \in Requests, AccountStep(r), UNCHANGED call, OneAccountEach, OnItsWay(r),
         \A e \in DOMAIN pending : Free(e)
  PROVE  OneAccountEach' /\ (\A e \in DOMAIN pending' : Free(e)') /\ OnItsWay(r)'
<1>1. CASE SameTeam
  <2>1. OneAccountEach' /\ \A e : Free(e) => Free(e)'
    BY <1>1, SameTeamEmails, EmailsKept
  <2>2. QED
    BY <2>1, RegistrationStep DEF OnItsWay
<1>2. CASE Opens(r)
  <2>1. UNCHANGED pending /\ pc'[r] = "done"
    BY <1>2 DEF Opens
  <2>2. QED
    BY <1>2, <2>1, OpensOnce DEF OnItsWay, Claiming, Registering, At
<1>3. QED
  BY <1>1, <1>2, AccountStepTeam

(* Of requests that do not overlap, the others are at rest.                *)
LEMMA OthersOnTheirWay ==
  ASSUME ServerInv, AloneInv, Apart, NEW r \in Requests, r \in InFlight, Moves(r), UNCHANGED call,
         NEW s \in Requests \ {r}
  PROVE  OnItsWay(s)'
<1>1. s \notin InFlight /\ pc'[s] = pc[s]
  BY DEF AloneInv, Moves
<1>2. pc'[s] \notin {"phone", "store", "count", "commit"}
  BY <1>1 DEF InFlight, Ended
<1>3. QED
  BY <1>2 DEF OnItsWay, Claiming, Registering, At

LEMMA RegistrationStart == Init => RegistrationInv
<1> SUFFICES ASSUME Init PROVE RegistrationInv
  OBVIOUS
<1>1. users = OldUsers /\ pending = OldPending /\ pc = [r \in Requests |-> "idle"]
  BY DEF Init, UsersInit, AccountsInit, ServerInit
<1>2. Registered = {}
  BY <1>1, UsersAssumption DEF Registered
<1>3. \A e \in DOMAIN pending : Free(e)
  BY <1>1, AccountsAssumption DEF Free, EmailTaken
<1>4. \A r \in Requests : OnItsWay(r)
  BY <1>1 DEF OnItsWay, Claiming, Registering, At
<1>5. QED
  BY <1>2, <1>3, <1>4 DEF RegistrationInv, OneAccountEach

LEMMA RegistrationNext ==
  ASSUME ServerInv, Asking, AloneInv, PeopleInv, RegistrationInv, [Next]_vars
  PROVE  RegistrationInv'
<1>0. UNCHANGED scene
  BY RestartFacts DEF Next, vars, serverVars, Clock
<1> DEFINE Held == OneAccountEach /\ (\A e \in DOMAIN pending : Free(e)) /\ \A r \in Requests : OnItsWay(r)
<1> SUFFICES ASSUME Apart PROVE Held'
  BY <1>0 DEF RegistrationInv, Apart
<1>a. OneAccountEach /\ (\A e \in DOMAIN pending : Free(e)) /\ \A r \in Requests : OnItsWay(r)
  BY DEF RegistrationInv
<1>1. ASSUME UNCHANGED <<pc, call, seen, users, userRoles>>, DOMAIN pending' = DOMAIN pending PROVE Held'
  <2>1. OneAccountEach' /\ \A e : Free(e) => Free(e)'
    BY <1>1, <1>a, SameTeamEmails, EmailsKept DEF SameTeam
  <2>2. ASSUME NEW r \in Requests PROVE OnItsWay(r)'
    BY <1>1, <1>a, <2>1 DEF OnItsWay, Claiming, Registering, At
  <2>3. QED
    BY <1>1, <1>a, <2>1, <2>2
<1>2. ASSUME NEW r \in Requests, Request(r) PROVE Held'
  <2>1. CASE Arrive(r) /\ UNCHANGED tables
    <3>1. /\ Moves(r) /\ pc'[r] = "start" /\ call[r] = NoCall /\ \A s \in Requests \ {r} : call'[s] = call[s]
          /\ UNCHANGED <<users, userRoles, pending>>
      BY <2>1, ArriveFacts DEF tables, accounts, people
    <3>2. \A e : Untaken(e)' => Untaken(e)
      BY <2>1, UntakenKept
    <3>3. r \notin DOMAIN users
      BY <3>1, UsersAssumption DEF PeopleInv, Enlisted, NoCall
    <3>4. NoNewEmail
      BY <3>1, <3>2, <3>3 DEF NoNewEmail
    <3>5. OneAccountEach' /\ \A e : Free(e) => Free(e)'
      BY <1>a, <3>4, EmailsKept
    <3>6. ASSUME NEW s \in Requests PROVE OnItsWay(s)'
      <4>1. CASE s = r
        BY <3>1, <4>1 DEF OnItsWay, Claiming, Registering, At
      <4>2. CASE s # r
        <5>1. pc'[s] = pc[s] /\ call'[s] = call[s]
          BY <3>1, <4>2 DEF Moves
        <5>2. QED
          BY <1>a, <3>1, <3>5, <5>1 DEF OnItsWay, Claiming, Registering, At
      <4>3. QED
        BY <4>1, <4>2
    <3>7. QED
      BY <1>a, <3>1, <3>5, <3>6
  <2>2. ASSUME r \in InFlight, Moves(r), UNCHANGED call, OneAccountEach', \A e \in DOMAIN pending' : Free(e)', OnItsWay(r)'
        PROVE  Held'
    <3>1. \A s \in Requests : OnItsWay(s)'
      BY <2>2, OthersOnTheirWay
    <3>2. QED
      BY <2>2, <3>1
  <2>3. ASSUME r \in InFlight, Moves(r), UNCHANGED <<call, pending>>, NoNewEmail,
               pc'[r] = "failed" \/ call[r].op \notin AccountOps
        PROVE  Held'
    <3>1. OneAccountEach' /\ \A e : Free(e) => Free(e)'
      BY <1>a, <2>3, EmailsKept
    <3>2. OnItsWay(r)'
      BY <2>3 DEF OnItsWay, Claiming, Registering, At, AccountOps
    <3>3. \A e \in DOMAIN pending' : Free(e)'
      BY <1>a, <2>3, <3>1
    <3>4. QED
      BY <2>2, <2>3, <3>1, <3>2, <3>3
  <2>4. CASE Fail(r) /\ UNCHANGED tables
    BY <2>3, <2>4, FailFacts, SameTeamEmails DEF SameTeam, tables, accounts, people
  <2>5. CASE TeamStep(r) /\ UNCHANGED <<call, pending>> /\ Moves(r) /\ r \in InFlight /\ call[r].op \notin AccountOps
    BY <2>3, <2>5, TeamStepEmails
  <2>6. CASE AccountStep(r) /\ UNCHANGED call /\ Moves(r) /\ r \in InFlight
    BY <1>a, <2>2, <2>6, AccountStepEmails
  <2>7. CASE UNCHANGED <<call, people, pending>> /\ Moves(r) /\ r \in InFlight /\ call[r].op \notin AccountOps
    BY <2>3, <2>7, SameTeamEmails DEF SameTeam, people
  <2>8. QED
    BY <1>2, <2>1, <2>4, <2>5, <2>6, <2>7, Disjoint, RequestCases DEF accounts
<1>3. CASE Clock
  <2>1. DOMAIN pending' = DOMAIN pending
    BY <1>3 DEF Clock, RegistrationExpires
  <2>2. QED
    BY <1>1, <1>3, <2>1 DEF Clock, serverVars, people
<1>4. CASE Restart
  <2>1. /\ UNCHANGED <<call, people>> /\ pending' = Empty
        /\ \A r \in Requests : IF r \in InFlight THEN pc'[r] = "failed" ELSE pc'[r] = pc[r]
    BY <1>4, RestartFacts
  <2>2. OneAccountEach'
    BY <1>a, <2>1, SameTeamEmails, EmailsKept DEF SameTeam, people
  <2>3. ASSUME NEW r \in Requests PROVE OnItsWay(r)'
    <3>1. pc'[r] \notin {"phone", "store", "count", "commit"}
      BY <2>1 DEF InFlight, Ended
    <3>2. QED
      BY <3>1 DEF OnItsWay, Claiming, Registering, At
  <2>4. QED
    BY <2>1, <2>2, <2>3 DEF Empty
<1>5. CASE UNCHANGED vars
  BY <1>1, <1>5 DEF vars, serverVars, accounts, people
<1>6. QED
  BY <1>2, <1>3, <1>4, <1>5 DEF Next

(* Of requests that do not overlap, no registration is given the e-mail of *)
(* another account, however many wait, expire or are lost, unless the      *)
(* console's team asks for that e-mail (auth.service.ts:31).               *)
THEOREM RegistrationsDiffer == Spec => []RegisteredOnce
<1>1. RegistrationInv => RegisteredOnce
  BY DEF RegistrationInv, OneAccountEach, Untaken, RegisteredOnce
<1>2. Init => ServerInv /\ Asking /\ AloneInv /\ PeopleInv /\ RegistrationInv
  BY ServerStart, AskingStart, AloneStart, PeopleStart, RegistrationStart
<1>3. ServerInv /\ Asking /\ AloneInv /\ PeopleInv /\ RegistrationInv /\ [Next]_vars
        => (ServerInv /\ Asking /\ AloneInv /\ PeopleInv /\ RegistrationInv)'
  BY ServerStep, AskingStep, AloneStep, PeopleNext, RegistrationNext
<1>4. QED
  BY <1>1, <1>2, <1>3, PTL DEF Spec

-----------------------------------------------------------------------------
(* Two-factor login.  TotpOnce is not inductive: the sessions open and the *)
(* backup codes on file are each of one account and made by a request that *)
(* ended, those accepted are on no account any more, and a verification    *)
(* about to write back the codes it read still finds them.                 *)
Issued(t) == t \in OldTokens \/ (t \in Requests /\ call[t].op = "login" /\ pc[t] = "done")
Minted(s) == s \notin Requests \/ (call[s].op = "enableTotp" /\ pc[s] = "done")

SecretsApart ==
  \A u \in DOMAIN users :
    /\ users[u].session = None \/ Issued(users[u].session)
    /\ \A c \in users[u].backups : Minted(c[1]) /\ c[2] # 0
    /\ \A v \in DOMAIN users \ {u} :
         /\ users[u].session # users[v].session \/ users[u].session = None
         /\ users[u].backups \cap users[v].backups = {}

UsedUp(r) ==
  /\ Issued(call[r].token) /\ (call[r].totp[2] # 0 => Minted(call[r].totp[1]))
  /\ \A u \in DOMAIN users :
       users[u].session # call[r].token /\ (call[r].totp[2] # 0 => call[r].totp \notin users[u].backups)

Verified(r) ==
  At(r, {"verifyTotp"}, "write") /\ call[r].id \in DOMAIN users =>
    /\ users[call[r].id].session = call[r].token
    /\ \/ call[r].totp[2] = 0
       \/ /\ call[r].totp \in users[call[r].id].backups
          /\ seen[r].backups = users[call[r].id].backups \ {call[r].totp}

AcceptedApart ==
  \A r, s \in TotpPassed : r # s =>
    /\ call[r].token # call[s].token
    /\ call[r].totp = call[s].totp => call[r].totp[2] = 0

TotpInv ==
  Apart => /\ SecretsApart /\ AcceptedApart
           /\ \A r \in TotpPassed : UsedUp(r)
           /\ \A r \in Requests : Verified(r)

(* No account gets a session or a code it did not have.                    *)
NothingNew ==
  \A v \in DOMAIN users' :
    /\ users'[v].session = None \/ (v \in DOMAIN users /\ users'[v].session = users[v].session)
    /\ \A c \in users'[v].backups : v \in DOMAIN users /\ c \in users[v].backups

(* What was made stays made.                                               *)
MadeStays == /\ \A t : Issued(t) => Issued(t)'
             /\ \A s : Minted(s) => Minted(s)'

LEMMA MadeKept ==
  ASSUME ServerInv, NEW r \in Requests, Moves(r), \A s \in Requests \ {r} : call'[s] = call[s], pc[r] # "done"
  PROVE  MadeStays
<1>1. \A t : Issued(t) => Issued(t)'
  BY DEF Issued, Moves
<1>2. \A s : Minted(s) => Minted(s)'
  BY DEF Minted, Moves
<1>3. QED
  BY <1>1, <1>2 DEF MadeStays

LEMMA SecretsKept ==
  ASSUME SecretsApart, NothingNew, MadeStays
  PROVE  SecretsApart'
<1> SUFFICES ASSUME NEW u \in DOMAIN users'
             PROVE  /\ users'[u].session = None \/ Issued(users[u].session)'
                    /\ \A c \in users'[u].backups : Minted(c[1])' /\ c[2] # 0
                    /\ \A v \in DOMAIN users' \ {u} :
                         /\ users'[u].session # users'[v].session \/ users'[u].session = None
                         /\ users'[u].backups \cap users'[v].backups = {}
  BY DEF SecretsApart
<1>1. users'[u].session = None \/ Issued(users[u].session)'
  <2>1. CASE u \in DOMAIN users /\ users'[u].session = users[u].session
    <3>1. users[u].session = None \/ Issued(users[u].session)
      BY <2>1 DEF SecretsApart
    <3>2. \A t : t = users[u].session /\ Issued(t) => Issued(t)'
      BY DEF MadeStays
    <3>3. QED
      BY <2>1, <3>1, <3>2 DEF Issued
  <2>2. QED
    BY <2>1 DEF NothingNew
<1>2. ASSUME NEW c \in users'[u].backups PROVE Minted(c[1])' /\ c[2] # 0
  <2>1. u \in DOMAIN users /\ c \in users[u].backups
    BY DEF NothingNew
  <2>2. Minted(c[1]) /\ c[2] # 0
    BY <2>1 DEF SecretsApart
  <2>3. QED
    BY <2>2 DEF MadeStays
<1>3. ASSUME NEW v \in DOMAIN users' \ {u}
      PROVE  /\ users'[u].session # users'[v].session \/ users'[u].session = None
             /\ users'[u].backups \cap users'[v].backups = {}
  BY DEF NothingNew, SecretsApart
<1>4. QED
  BY <1>1, <1>2, <1>3

LEMMA UsedUpKept ==
  ASSUME ServerInv, Asking, NothingNew, MadeStays, NEW r \in Requests, UsedUp(r), call'[r] = call[r],
         call[r].op = "verifyTotp"
  PROVE  UsedUp(r)'
<1>1. call[r].token # None
  <2>1. call[r] \in AccountCalls
    BY CallsTyped DEF AccountOps
  <2>2. call[r].token \in OldTokens \cup Requests
    BY <2>1 DEF AccountCalls
  <2>3. QED
    BY <2>2, AccountsAssumption
<1>2. Issued(call[r].token) => Issued(call[r].token)'
  BY DEF MadeStays, Issued
<1>3. Minted(call[r].totp[1]) => Minted(call[r].totp[1])'
  BY DEF MadeStays, Minted
<1>4. QED
  BY <1>1, <1>2, <1>3 DEF UsedUp, NothingNew

(* One account is rewritten without a new session or a new code.           *)
LEMMA RowLoses ==
  ASSUME NEW u \in DOMAIN users, NEW row, users' = [users EXCEPT ![u] = row],
         row.session \in {None, users[u].session}, row.backups \subseteq users[u].backups
  PROVE  NothingNew
BY DEF NothingNew

LEMMA RowJoins ==
  ASSUME NEW r, NEW row, users' = Put(users, r, row), row.session = None, row.backups = {}
  PROVE  NothingNew
BY DEF NothingNew, Put

LEMMA TeamStepSecrets ==
  ASSUME ServerInv, PeopleInv, NEW r \in Requests, TeamStep(r)
  PROVE  NothingNew
<1>1. CASE UNCHANGED users
  BY <1>1 DEF NothingNew
<1>2. CASE CreateMember(r)
  BY <1>2, RowJoins DEF CreateMember, NewUser
<1>3. CASE UpdateMember(r) /\ call[r].id \in DOMAIN users
  <2> DEFINE id  == call[r].id
             row == Rewritten(r, users[id])
  <2>1. users' = [users EXCEPT ![id] = row]
    BY <1>3 DEF UpdateMember
  <2>2. users[id] \in UserRow
    BY <1>3 DEF PeopleInv, UsersTypeOK
  <2>3. row.session \in {None, users[id].session} /\ row.backups \subseteq users[id].backups
    <3>1. CASE call[r].op \in {"enableMember", "disableMember"}
      BY <2>2, <3>1 DEF Rewritten, UserRow
    <3>2. CASE call[r].op \in {"resetPassword", "disable2fa"}
      BY <2>2, <3>2 DEF Rewritten, UserRow
    <3>3. CASE call[r].op = "updateMember"
      BY <2>2, <3>3 DEF Rewritten, UserRow
    <3>4. QED
      BY <1>3, <3>1, <3>2, <3>3 DEF UpdateMember, At
  <2> HIDE DEF row
  <2>4. QED
    BY <1>3, <2>1, <2>3, RowLoses
<1>4. CASE RemoveMember(r) /\ users' = Without(users, call[r].id)
  BY <1>4 DEF NothingNew, Without
<1>5. QED
  BY <1>1, <1>2, <1>3, <1>4 DEF TeamStep, FindEmail, FindMember, CountAdmins, ClearRoles, GiveRole, CheckNewEmail,
     AuditTeam, UpdateMember, RemoveMember, people

OpensSession(r) ==
  /\ call[r].op = "login" /\ pc'[r] = "done"
  /\ \E u \in DOMAIN users : \E row : /\ users' = [users EXCEPT ![u] = row]
                                     /\ row.session = r /\ row.backups = users[u].backups

MintsCodes(r) ==
  /\ call[r].op = "enableTotp" /\ pc'[r] = "done"
  /\ \E u \in DOMAIN users : \E row : /\ users' = [users EXCEPT ![u] = row]
                                     /\ row.session = users[u].session /\ row.backups = BackupsOf(r)

LEMMA AccountStepSecrets ==
  ASSUME ServerInv, PeopleInv, NEW r \in Requests, AccountStep(r), Verified(r)
  PROVE  NothingNew \/ OpensSession(r) \/ MintsCodes(r)
<1>a. \A u \in DOMAIN users : users[u] \in UserRow
  BY DEF PeopleInv, UsersTypeOK
<1>1. CASE UNCHANGED users
  BY <1>1 DEF NothingNew
<1>2. CASE CreateSpace(r) /\ users' = Put(users, r, NewUser(r, call[r].email, seen[r].phone, r, FALSE))
  BY <1>2, RowJoins DEF NewUser
<1>3. CASE OpenSession(r) /\ seen[r].user \in DOMAIN users
  <2>0. PICK u \in DOMAIN users : u = seen[r].user
    BY <1>3
  <2>1. users' = [users EXCEPT ![u].session = r, ![u].attempts = 0] /\ Answer(r, "done") /\ call[r].op = "login"
    BY <1>3, <2>0 DEF OpenSession, At
  <2>2. PICK row : users' = [users EXCEPT ![u] = row] /\ row = [users[u] EXCEPT !.session = r, !.attempts = 0]
    BY <2>1
  <2>3. row.session = r /\ row.backups = users[u].backups
    BY <1>a, <2>2 DEF UserRow
  <2>4. pc'[r] = "done"
    BY <2>1, AnswerFacts
  <2>5. QED
    BY <2>1, <2>2, <2>3, <2>4 DEF OpensSession
<1>4. CASE RefuseTotp(r) /\ call[r].id \in DOMAIN users
  <2> DEFINE u == call[r].id
  <2>1. PICK row : users' = [users EXCEPT ![u] = row] /\ (row = [users[u] EXCEPT !.session = None]
                                                         \/ row = [users[u] EXCEPT !.attempts = @ + 1])
    BY <1>4 DEF RefuseTotp
  <2>2. row.session \in {None, users[u].session} /\ row.backups = users[u].backups
    BY <1>a, <1>4, <2>1 DEF UserRow
  <2>3. QED
    BY <1>4, <2>1, <2>2, RowLoses
<1>5. CASE AcceptTotp(r) /\ call[r].id \in DOMAIN users
  <2> DEFINE u == call[r].id
             row == IF call[r].totp[2] = 0 THEN Closed(users[u]) ELSE [Closed(users[u]) EXCEPT !.backups = seen[r].backups]
  <2>1. users' = [users EXCEPT ![u] = row]
    BY <1>5 DEF AcceptTotp
  <2>2. Closed(users[u]).session = None /\ Closed(users[u]).backups = users[u].backups
        /\ DOMAIN Closed(users[u]) = DOMAIN users[u] /\ {"session", "backups"} \subseteq DOMAIN users[u]
    BY <1>a, <1>5 DEF UserRow, Closed
  <2>3. call[r].totp[2] # 0 => seen[r].backups \subseteq users[u].backups
    BY <1>5 DEF AcceptTotp, Verified, At
  <2>4. row.session = None /\ row.backups \subseteq users[u].backups
    BY <2>2, <2>3
  <2> HIDE DEF row
  <2>5. QED
    BY <1>5, <2>1, <2>4, RowLoses
<1>6. CASE SaveSelf(r) /\ call[r].id \in DOMAIN users
  <2>0. PICK u \in DOMAIN users : u = call[r].id
    BY <1>6
  <2>1. PICK row : /\ users' = [users EXCEPT ![u] = row]
                   /\ row = CASE call[r].op = "changePassword" -> [users[u] EXCEPT !.password = r, !.mustChange = FALSE]
                              [] call[r].op = "setupTotp"   -> [users[u] EXCEPT !.secret = r]
                              [] call[r].op = "enableTotp"  -> [users[u] EXCEPT !.totp = TRUE, !.backups = BackupsOf(r)]
                              [] call[r].op = "disableTotp" -> [users[u] EXCEPT !.totp = FALSE, !.secret = None,
                                                                                !.backups = {}]
    BY <1>6, <2>0 DEF SaveSelf
  <2>2. CASE call[r].op = "enableTotp"
    <3>1. pc'[r] = "done"
      BY <1>6, AnswerFacts DEF SaveSelf
    <3>2. row = [users[u] EXCEPT !.totp = TRUE, !.backups = BackupsOf(r)]
      BY <2>1, <2>2
    <3>3. row.session = users[u].session /\ row.backups = BackupsOf(r)
      BY <1>a, <3>2 DEF UserRow
    <3>4. QED
      BY <2>1, <2>2, <3>1, <3>3 DEF MintsCodes
  <2>3. CASE call[r].op # "enableTotp"
    <3>1. \/ row = [users[u] EXCEPT !.password = r, !.mustChange = FALSE]
          \/ row = [users[u] EXCEPT !.secret = r]
          \/ row = [users[u] EXCEPT !.totp = FALSE, !.secret = None, !.backups = {}]
      BY <1>6, <2>1, <2>3 DEF SaveSelf, At, Settings
    <3>2. row.session = users[u].session /\ row.backups \subseteq users[u].backups
      BY <1>a, <1>6, <3>1 DEF UserRow
    <3>3. QED
      BY <1>6, <2>1, <3>2, RowLoses
  <2>4. QED
    BY <2>2, <2>3
<1>7. QED
  BY <1>1, <1>2, <1>3, <1>4, <1>5, <1>6 DEF AccountStep, InitEmail, InitPhone, StoreRegistration, SendCode, ConfirmCode,
     TakeRegistration, CountSpaces, CreateSpace, Login, OpenSession, CheckTotp, RefuseTotp, AcceptTotp, FindSelf, SaveSelf,
     accounts, people

LEMMA SessionOpened ==
  ASSUME ServerInv, SecretsApart, MadeStays, NEW r \in Requests, OpensSession(r), UNCHANGED call, pc[r] # "done"
  PROVE  SecretsApart' /\ \A s \in Requests : UsedUp(s) => UsedUp(s)'
<1>1. PICK u \in DOMAIN users : \E row : /\ users' = [users EXCEPT ![u] = row]
                                        /\ row.session = r /\ row.backups = users[u].backups
  BY DEF OpensSession
<1>2. /\ DOMAIN users' = DOMAIN users /\ users'[u].session = r /\ users'[u].backups = users[u].backups
      /\ \A v \in DOMAIN users \ {u} : users'[v] = users[v]
  BY <1>1
<1>3. ~Issued(r) /\ Issued(r)' /\ r # None
  BY AccountsAssumption DEF Issued, OpensSession
<1>4. \A v \in DOMAIN users : users[v].session # r
  BY <1>3 DEF SecretsApart
<1>5. ASSUME NEW v \in DOMAIN users
      PROVE  /\ users'[v].session = None \/ Issued(users[v].session)'
             /\ \A c \in users'[v].backups : Minted(c[1])' /\ c[2] # 0
  <2>1. \A c \in users'[v].backups : Minted(c[1])' /\ c[2] # 0
    BY <1>2 DEF SecretsApart, MadeStays
  <2>2. CASE v = u
    BY <1>2, <1>3, <2>1, <2>2 DEF Issued
  <2>3. CASE v # u
    <3>1. users[v].session = None \/ Issued(users[v].session)
      BY DEF SecretsApart
    <3>2. \A t : t = users[v].session /\ Issued(t) => Issued(t)'
      BY DEF MadeStays
    <3>3. QED
      BY <1>2, <2>1, <2>3, <3>1, <3>2 DEF Issued
  <2>4. QED
    BY <2>2, <2>3
<1>6. ASSUME NEW v \in DOMAIN users, NEW w \in DOMAIN users \ {v}
      PROVE  /\ users'[v].session # users'[w].session \/ users'[v].session = None
             /\ users'[v].backups \cap users'[w].backups = {}
  BY <1>2, <1>3, <1>4 DEF SecretsApart
<1>7. SecretsApart'
  BY <1>2, <1>5, <1>6 DEF SecretsApart
<1>8. ASSUME NEW s \in Requests, UsedUp(s) PROVE UsedUp(s)'
  <2>1. Issued(call[s].token) /\ Issued(call[s].token)'
    BY <1>8 DEF UsedUp, MadeStays, Issued
  <2>2. Minted(call[s].totp[1]) => Minted(call[s].totp[1])'
    BY DEF MadeStays, Minted
  <2>3. call[s].token # r
    BY <1>3, <2>1
  <2>4. QED
    BY <1>2, <1>8, <2>1, <2>2, <2>3 DEF UsedUp
<1>9. QED
  BY <1>7, <1>8

LEMMA CodesMinted ==
  ASSUME ServerInv, SecretsApart, MadeStays, NEW r \in Requests, MintsCodes(r), UNCHANGED call, pc[r] # "done"
  PROVE  SecretsApart' /\ \A s \in Requests : UsedUp(s) => UsedUp(s)'
<1>1. PICK u \in DOMAIN users : \E row : /\ users' = [users EXCEPT ![u] = row]
                                        /\ row.session = users[u].session /\ row.backups = BackupsOf(r)
  BY DEF MintsCodes
<1>2. /\ DOMAIN users' = DOMAIN users /\ users'[u].session = users[u].session /\ users'[u].backups = BackupsOf(r)
      /\ \A v \in DOMAIN users \ {u} : users'[v] = users[v]
  BY <1>1
<1>3. ~Minted(r) /\ Minted(r)'
  BY DEF Minted, MintsCodes
<1>4. \A c \in BackupsOf(r) : c[1] = r /\ c[2] # 0
  BY DEF BackupsOf
<1>5. \A v \in DOMAIN users : \A c \in users[v].backups : c[1] # r
  BY <1>3 DEF SecretsApart
<1>6. ASSUME NEW v \in DOMAIN users
      PROVE  /\ users'[v].session = None \/ Issued(users[v].session)'
             /\ \A c \in users'[v].backups : Minted(c[1])' /\ c[2] # 0
  <2>1. \A c \in users'[v].backups : Minted(c[1])' /\ c[2] # 0
    <3>1. CASE v = u
      BY <1>2, <1>3, <1>4, <3>1
    <3>2. CASE v # u
      BY <1>2, <3>2 DEF SecretsApart, MadeStays
    <3>3. QED
      BY <3>1, <3>2
  <2>2. users'[v].session = users[v].session
    BY <1>2
  <2>3. users[v].session = None \/ Issued(users[v].session)
    BY DEF SecretsApart
  <2>4. \A t : t = users[v].session /\ Issued(t) => Issued(t)'
    BY DEF MadeStays
  <2>5. QED
    BY <2>1, <2>2, <2>3, <2>4 DEF Issued
<1>7. ASSUME NEW v \in DOMAIN users, NEW w \in DOMAIN users \ {v}
      PROVE  /\ users'[v].session # users'[w].session \/ users'[v].session = None
             /\ users'[v].backups \cap users'[w].backups = {}
  <2>1. users'[v].session = users[v].session /\ users'[w].session = users[w].session
    BY <1>2
  <2>2. users'[v].backups \cap users'[w].backups = {}
    BY <1>2, <1>4, <1>5 DEF SecretsApart
  <2>3. QED
    BY <2>1, <2>2 DEF SecretsApart
<1>8. SecretsApart'
  BY <1>2, <1>6, <1>7 DEF SecretsApart
<1>9. ASSUME NEW s \in Requests, UsedUp(s) PROVE UsedUp(s)'
  <2>1. Issued(call[s].token)'
    BY <1>9 DEF UsedUp, MadeStays, Issued
  <2>2. Minted(call[s].totp[1]) => Minted(call[s].totp[1])'
    BY DEF MadeStays, Minted
  <2>3. call[s].totp[2] # 0 => call[s].totp \notin BackupsOf(r)
    BY <1>3, <1>4, <1>9 DEF UsedUp
  <2>4. QED
    BY <1>2, <1>9, <2>1, <2>2, <2>3 DEF UsedUp
<1>10. QED
  BY <1>8, <1>9

(* A verification that ends uses up its session and its backup code.       *)
LEMMA TotpAccepted ==
  ASSUME ServerInv, PeopleInv, SecretsApart, MadeStays, NEW r \in Requests, AcceptTotp(r), Verified(r), UNCHANGED call,
         call[r].id \in DOMAIN users, call[r].token # None
  PROVE  /\ UsedUp(r)'
         /\ \A s \in Requests : UsedUp(s) => /\ call[r].token # call[s].token
                                             /\ call[r].totp = call[s].totp => call[r].totp[2] = 0
<1> DEFINE id == call[r].id
           row == IF call[r].totp[2] = 0 THEN Closed(users[id]) ELSE [Closed(users[id]) EXCEPT !.backups = seen[r].backups]
<1>1. /\ users[id].session = call[r].token
      /\ \/ call[r].totp[2] = 0
         \/ call[r].totp \in users[id].backups /\ seen[r].backups = users[id].backups \ {call[r].totp}
  BY DEF AcceptTotp, Verified, At
<1>2. users' = [users EXCEPT ![id] = row]
  BY DEF AcceptTotp
<1>3. users[id] \in UserRow
  BY DEF PeopleInv, UsersTypeOK
<1>4. /\ Closed(users[id]).session = None /\ Closed(users[id]).backups = users[id].backups
      /\ DOMAIN Closed(users[id]) = DOMAIN users[id] /\ {"session", "backups"} \subseteq DOMAIN users[id]
  BY <1>3 DEF UserRow, Closed
<1>5. row.session = None /\ (call[r].totp[2] # 0 => row.backups = users[id].backups \ {call[r].totp})
  BY <1>1, <1>4
<1> HIDE DEF row
<1>6. /\ DOMAIN users' = DOMAIN users /\ users'[id] = row
      /\ \A v \in DOMAIN users \ {id} : users'[v] = users[v]
  BY <1>2
<1>7. Issued(call[r].token)'
  <2>1. Issued(call[r].token)
    BY <1>1 DEF SecretsApart
  <2>2. QED
    BY <2>1 DEF MadeStays, Issued
<1>8. call[r].totp[2] # 0 => Minted(call[r].totp[1])'
  <2>1. call[r].totp[2] # 0 => Minted(call[r].totp[1])
    BY <1>1 DEF SecretsApart
  <2>2. QED
    BY <2>1 DEF MadeStays, Minted
<1>9. \A v \in DOMAIN users' :
        users'[v].session # call[r].token /\ (call[r].totp[2] # 0 => call[r].totp \notin users'[v].backups)
  BY <1>1, <1>5, <1>6 DEF SecretsApart
<1>10. UsedUp(r)'
  BY <1>7, <1>8, <1>9 DEF UsedUp
<1>11. \A s \in Requests : UsedUp(s) => /\ call[r].token # call[s].token
                                        /\ call[r].totp = call[s].totp => call[r].totp[2] = 0
  BY <1>1 DEF UsedUp
<1>12. QED
  BY <1>10, <1>11

LEMMA VerifiedStep ==
  ASSUME ServerInv, NEW r \in Requests, AccountStep(r), UNCHANGED call
  PROVE  Verified(r)'
<1>1. CASE CheckTotp(r)
  <2> DEFINE row == users[call[r].id]
             c   == call[r].totp
  <2>1. UNCHANGED users
    BY <1>1 DEF CheckTotp, accounts, people
  <2>2. \/ Refuse(r) \/ Goto(r, "lock") \/ Goto(r, "count")
        \/ /\ InSession(r, row) /\ (AppAccepts(row, c) \/ c \in row.backups)
           /\ Keep(r, "write", [backups |-> IF AppAccepts(row, c) THEN row.backups ELSE row.backups \ {c}])
    BY <1>1 DEF CheckTotp
  <2>3. \/ pc'[r] \in {"refused", "lock", "count"}
        \/ /\ InSession(r, row) /\ (AppAccepts(row, c) \/ c \in row.backups)
           /\ seen'[r] = [backups |-> IF AppAccepts(row, c) THEN row.backups ELSE row.backups \ {c}]
    BY <2>2, GotoFacts, KeepFacts, AnswerFacts
  <2>4. AppAccepts(row, c) => c[2] = 0
    BY DEF AppAccepts, AppCode
  <2>5. CASE pc'[r] \in {"refused", "lock", "count"}
    BY <2>5 DEF Verified, At
  <2>6. CASE /\ InSession(r, row) /\ (AppAccepts(row, c) \/ c \in row.backups)
             /\ seen'[r] = [backups |-> IF AppAccepts(row, c) THEN row.backups ELSE row.backups \ {c}]
    <3>1. row.session = call[r].token /\ (c[2] = 0 \/ (c \in row.backups /\ seen'[r].backups = row.backups \ {c}))
      BY <2>4, <2>6 DEF InSession
    <3>2. QED
      BY <2>1, <3>1 DEF Verified
  <2>7. QED
    BY <2>3, <2>5, <2>6
<1>2. CASE RefuseTotp(r) \/ AcceptTotp(r)
  <2>1. pc'[r] \in {"done", "refused"}
    BY <1>2, AnswerFacts DEF RefuseTotp, AcceptTotp
  <2>2. QED
    BY <2>1 DEF Verified, At
<1>3. CASE call[r].op # "verifyTotp"
  BY <1>3 DEF Verified, At
<1>4. QED
  BY <1>1, <1>2, <1>3 DEF AccountStep, InitEmail, InitPhone, StoreRegistration, SendCode, ConfirmCode,
     TakeRegistration, CountSpaces, CreateSpace, Login, OpenSession, FindSelf, SaveSelf, At, Settings

LEMMA PassedKept ==
  ASSUME ServerInv, NEW r \in Requests, Moves(r), \A s \in Requests \ {r} : call'[s] = call[s], pc[r] # "done",
         call'[r].op # "verifyTotp" \/ pc'[r] # "done"
  PROVE  TotpPassed' = TotpPassed /\ \A s \in TotpPassed : call'[s] = call[s]
<1>1. \A s \in Requests \ {r} : pc'[s] = pc[s] /\ call'[s] = call[s]
  BY DEF Moves
<1>2. r \notin TotpPassed
  BY DEF TotpPassed
<1>3. QED
  BY <1>1, <1>2 DEF TotpPassed

LEMMA NothingNewKeeps ==
  ASSUME ServerInv, Asking, SecretsApart, AcceptedApart, \A s \in TotpPassed : UsedUp(s), NothingNew, MadeStays,
         TotpPassed' = TotpPassed, \A s \in TotpPassed : call'[s] = call[s]
  PROVE  SecretsApart' /\ AcceptedApart' /\ \A s \in TotpPassed' : UsedUp(s)'
<1>1. SecretsApart'
  BY SecretsKept
<1>2. \A s \in TotpPassed' : UsedUp(s)'
  BY UsedUpKept DEF TotpPassed
<1>3. AcceptedApart'
  BY DEF AcceptedApart
<1>4. QED
  BY <1>1, <1>2, <1>3

LEMMA AccountStepTotp ==
  ASSUME ServerInv, Asking, PeopleInv, NEW r \in Requests, AccountStep(r), UNCHANGED call, SecretsApart, AcceptedApart,
         \A s \in TotpPassed : UsedUp(s), Verified(r)
  PROVE  SecretsApart' /\ AcceptedApart' /\ (\A s \in TotpPassed' : UsedUp(s)') /\ Verified(r)'
<1>0. Moves(r) /\ r \in InFlight /\ call[r] \in AccountCalls /\ pc[r] # "done"
  BY AccountMoves, CallsTyped DEF InFlight, Ended
<1>a. MadeStays /\ Verified(r)' /\ (NothingNew \/ OpensSession(r) \/ MintsCodes(r))
  BY <1>0, MadeKept, VerifiedStep, AccountStepSecrets
<1>b. ASSUME call[r].op # "verifyTotp" \/ pc'[r] # "done" PROVE TotpPassed' = TotpPassed
  BY <1>0, <1>b, PassedKept
<1>1. CASE OpensSession(r) \/ MintsCodes(r)
  <2>1. TotpPassed' = TotpPassed
    BY <1>1, <1>b DEF OpensSession, MintsCodes
  <2>2. SecretsApart' /\ \A s \in Requests : UsedUp(s) => UsedUp(s)'
    BY <1>0, <1>1, <1>a, SessionOpened, CodesMinted
  <2>3. AcceptedApart' /\ \A s \in TotpPassed' : UsedUp(s)'
    BY <2>1, <2>2 DEF AcceptedApart, TotpPassed
  <2>4. QED
    BY <1>a, <2>2, <2>3
<1>2. CASE NothingNew /\ (call[r].op # "verifyTotp" \/ pc'[r] # "done")
  BY <1>2, <1>a, <1>b, NothingNewKeeps
<1>3. CASE NothingNew /\ call[r].op = "verifyTotp" /\ pc'[r] = "done"
  <2>1. AcceptTotp(r) /\ call[r].id \in DOMAIN users
    <3>1. CheckTotp(r) => pc'[r] # "done"
      <4>1. CheckTotp(r) => Refuse(r) \/ Goto(r, "lock") \/ Goto(r, "count") \/ \E v : Keep(r, "write", v)
        BY DEF CheckTotp
      <4>2. QED
        BY <4>1, GotoFacts, KeepFacts, AnswerFacts
    <3>2. (RefuseTotp(r) \/ (AcceptTotp(r) /\ call[r].id \notin DOMAIN users)) => pc'[r] # "done"
      BY AnswerFacts DEF RefuseTotp, AcceptTotp
    <3>3. QED
      BY <1>3, <3>1, <3>2 DEF AccountStep, InitEmail, InitPhone, StoreRegistration, SendCode, ConfirmCode,
         TakeRegistration, CountSpaces, CreateSpace, Login, OpenSession, FindSelf, SaveSelf, At, Settings
  <2>2. call[r].token # None
    <3>1. call[r].token \in OldTokens \cup Requests
      BY <1>0, <1>3 DEF AccountCalls
    <3>2. QED
      BY <3>1, AccountsAssumption
  <2>3. /\ UsedUp(r)'
        /\ \A s \in Requests : UsedUp(s) => /\ call[r].token # call[s].token
                                            /\ call[r].totp = call[s].totp => call[r].totp[2] = 0
    BY <1>a, <2>1, <2>2, TotpAccepted
  <2>4. TotpPassed' = TotpPassed \cup {r} /\ r \notin TotpPassed
    BY <1>0, <1>3 DEF TotpPassed, Moves
  <2>5. SecretsApart'
    BY <1>3, <1>a, SecretsKept
  <2>6. \A s \in TotpPassed' : UsedUp(s)'
    <3>1. \A s \in TotpPassed : UsedUp(s)'
      BY <1>3, <1>a, UsedUpKept DEF TotpPassed
    <3>2. QED
      BY <2>3, <2>4, <3>1
  <2>7. AcceptedApart'
    <3>1. \A s \in TotpPassed : call[r].token # call[s].token /\ (call[r].totp = call[s].totp => call[r].totp[2] = 0)
      BY <2>3 DEF TotpPassed
    <3>2. QED
      BY <2>4, <3>1 DEF AcceptedApart
  <2>8. QED
    BY <1>a, <2>5, <2>6, <2>7
<1>4. QED
  BY <1>1, <1>2, <1>3, <1>a

LEMMA TotpStart == Init => TotpInv
<1> SUFFICES ASSUME Init PROVE TotpInv
  OBVIOUS
<1>1. users = OldUsers /\ pc = [r \in Requests |-> "idle"]
  BY DEF Init, UsersInit, ServerInit
<1>2. SecretsApart
  BY <1>1, AccountsAssumption DEF SecretsApart, Issued, Minted
<1>3. TotpPassed = {} /\ \A r \in Requests : Verified(r)
  BY <1>1 DEF TotpPassed, Verified, At
<1>4. QED
  BY <1>2, <1>3 DEF TotpInv, AcceptedApart

LEMMA TotpNext ==
  ASSUME ServerInv, Asking, AloneInv, PeopleInv, TotpInv, [Next]_vars
  PROVE  TotpInv'
<1>0. UNCHANGED scene
  BY RestartFacts DEF Next, vars, serverVars, Clock
<1> DEFINE Held == SecretsApart /\ AcceptedApart /\ (\A s \in TotpPassed : UsedUp(s)) /\ \A r \in Requests : Verified(r)
<1> SUFFICES ASSUME Apart PROVE Held'
  BY <1>0 DEF TotpInv, Apart
<1>a. SecretsApart /\ AcceptedApart /\ (\A s \in TotpPassed : UsedUp(s)) /\ \A r \in Requests : Verified(r)
  BY DEF TotpInv
<1>1. ASSUME UNCHANGED <<pc, call, seen, users>> PROVE Held'
  <2>1. NothingNew /\ MadeStays /\ TotpPassed' = TotpPassed
    BY <1>1 DEF NothingNew, MadeStays, Issued, Minted, TotpPassed
  <2>2. \A r \in Requests : Verified(r)'
    BY <1>1, <1>a DEF Verified, At
  <2>3. QED
    BY <1>1, <1>a, <2>1, <2>2, NothingNewKeeps
<1>2. ASSUME NEW r \in Requests, Request(r) PROVE Held'
  <2>1. CASE Arrive(r) /\ UNCHANGED tables
    <3>1. /\ Moves(r) /\ pc[r] = "idle" /\ pc'[r] = "start" /\ \A s \in Requests \ {r} : call'[s] = call[s]
          /\ UNCHANGED users
      BY <2>1, ArriveFacts DEF tables, accounts, people
    <3>2. NothingNew /\ MadeStays /\ TotpPassed' = TotpPassed /\ \A s \in TotpPassed : call'[s] = call[s]
      BY <3>1, MadeKept, PassedKept DEF NothingNew
    <3>3. ASSUME NEW s \in Requests PROVE Verified(s)'
      <4>1. CASE s = r
        BY <3>1, <4>1 DEF Verified, At
      <4>2. CASE s # r
        <5>1. pc'[s] = pc[s] /\ call'[s] = call[s] /\ seen'[s] = seen[s]
          BY <3>1, <4>2 DEF Moves
        <5>2. QED
          BY <1>a, <3>1, <5>1 DEF Verified, At
      <4>3. QED
        BY <4>1, <4>2
    <3>4. QED
      BY <1>a, <3>2, <3>3, NothingNewKeeps
  <2>2. ASSUME r \in InFlight, Moves(r), UNCHANGED call, SecretsApart', AcceptedApart', \A s \in TotpPassed' : UsedUp(s)', Verified(r)'
        PROVE  Held'
    <3>1. ASSUME NEW s \in Requests \ {r} PROVE Verified(s)'
      <4>1. pc'[s] = pc[s] /\ pc[s] # "write"
        BY <2>2 DEF AloneInv, Moves, InFlight, Ended
      <4>2. QED
        BY <4>1 DEF Verified, At
    <3>2. QED
      BY <2>2, <3>1
  <2>3. ASSUME r \in InFlight, Moves(r), UNCHANGED call, NothingNew, pc'[r] = "failed" \/ call[r].op \notin AccountOps
        PROVE  Held'
    <3>1. MadeStays /\ TotpPassed' = TotpPassed
      BY <2>3, MadeKept, PassedKept DEF InFlight, Ended, AccountOps
    <3>2. SecretsApart' /\ AcceptedApart' /\ \A s \in TotpPassed' : UsedUp(s)'
      BY <1>a, <2>3, <3>1, NothingNewKeeps
    <3>3. Verified(r)'
      BY <2>3 DEF Verified, At, AccountOps
    <3>4. QED
      BY <2>2, <2>3, <3>2, <3>3
  <2>4. CASE Fail(r) /\ UNCHANGED tables
    BY <2>3, <2>4, FailFacts DEF NothingNew, tables, accounts, people
  <2>5. CASE TeamStep(r) /\ UNCHANGED call /\ Moves(r) /\ r \in InFlight /\ call[r].op \notin AccountOps
    BY <2>3, <2>5, TeamStepSecrets
  <2>6. CASE AccountStep(r) /\ UNCHANGED call /\ Moves(r) /\ r \in InFlight
    BY <1>a, <2>2, <2>6, AccountStepTotp
  <2>7. CASE UNCHANGED <<call, people>> /\ Moves(r) /\ r \in InFlight /\ call[r].op \notin AccountOps
    BY <2>3, <2>7 DEF NothingNew, people
  <2>8. QED
    BY <1>2, <2>1, <2>4, <2>5, <2>6, <2>7, Disjoint, RequestCases DEF accounts
<1>3. CASE Clock
  BY <1>1, <1>3 DEF Clock, serverVars, people
<1>4. CASE Restart
  <2>1. /\ UNCHANGED <<call, users>>
        /\ \A r \in Requests : IF r \in InFlight THEN pc'[r] = "failed" ELSE pc'[r] = pc[r]
    BY <1>4, RestartFacts DEF people
  <2>2. TotpPassed' = TotpPassed /\ NothingNew
    BY <2>1 DEF TotpPassed, NothingNew, InFlight, Ended
  <2>3. MadeStays
    <3>1. \A r \in Requests : pc[r] = "done" => pc'[r] = "done"
      BY <2>1 DEF InFlight, Ended
    <3>2. QED
      BY <2>1, <3>1 DEF MadeStays, Issued, Minted
  <2>4. ASSUME NEW r \in Requests PROVE Verified(r)'
    <3>1. pc'[r] # "write"
      BY <2>1 DEF InFlight, Ended
    <3>2. QED
      BY <3>1 DEF Verified, At
  <2>5. QED
    BY <1>a, <2>1, <2>2, <2>3, <2>4, NothingNewKeeps
<1>5. CASE UNCHANGED vars
  BY <1>1, <1>5 DEF vars, serverVars, accounts, people
<1>6. QED
  BY <1>2, <1>3, <1>4, <1>5 DEF Next

(* Of verifications that do not overlap, two that are accepted name        *)
(* different sessions and different backup codes, whatever failures,       *)
(* restarts, logins and changes of the settings come in between            *)
(* (auth.service.ts:499-513).                                              *)
THEOREM SecondFactorsPassOnce == Spec => []TotpOnce
<1>1. TotpInv => TotpOnce
  BY DEF TotpInv, AcceptedApart, TotpOnce
<1>2. Init => ServerInv /\ Asking /\ AloneInv /\ PeopleInv /\ TotpInv
  BY ServerStart, AskingStart, AloneStart, PeopleStart, TotpStart
<1>3. ServerInv /\ Asking /\ AloneInv /\ PeopleInv /\ TotpInv /\ [Next]_vars
        => (ServerInv /\ Asking /\ AloneInv /\ PeopleInv /\ TotpInv)'
  BY ServerStep, AskingStep, AloneStep, PeopleNext, TotpNext
<1>4. QED
  BY <1>1, <1>2, <1>3, PTL DEF Spec

-----------------------------------------------------------------------------
(* Orders and their invoices.  OrderInvoiceAgree is not inductive: a       *)
(* payment is written on the order and then on its invoice, an invoice is  *)
(* made before its order, and the migration works from the orders as it    *)
(* listed them.  First, which invoice is whose.                            *)
Making(r, steps) == call[r].op = "createOrder" /\ pc[r] \in steps
Collecting(r) == At(r, {"payOrder"}, "collect")
Migrating(r) == At(r, {"migrateOrders"}, "number") \/ At(r, {"migrateOrders"}, "link")

(* What a request has read of the orders is still so.                      *)
Known(r) ==
  /\ At(r, {"payOrder", "orderStatus"}, "write") =>
       /\ call[r].id \in DOMAIN orders
       /\ seen[r].advance = orders[call[r].id].advance /\ seen[r].invoice = orders[call[r].id].invoice
  /\ Collecting(r) => /\ call[r].id \in DOMAIN orders
                      /\ seen[r].invoice = orders[call[r].id].invoice /\ seen[r].invoice # NoInvoice
  /\ At(r, {"migrateOrders"}, "link") => seen[r].order \in DOMAIN seen[r].orphans
  /\ Migrating(r) => \A o \in DOMAIN seen[r].orphans :
                       o \in DOMAIN orders /\ seen[r].orphans[o] = orders[o] /\ orders[o].invoice = NoInvoice
  /\ Making(r, {"order"}) => <<r, r>> \in DOMAIN invoiced /\ invoiced[<<r, r>>].paid = call[r].advance
  /\ Making(r, {"invoice", "order"}) => ParentFits(call[r].sheet)

(* The order has, or may have, an invoice.                                 *)
Started(o) ==
  \/ o \in DOMAIN OldOrders
  \/ o \in Requests /\ Making(o, {"order", "done", "refused", "failed"})

Linked ==
  /\ \A v \in DOMAIN invoiced : /\ v \in InvoiceIds /\ DOMAIN invoiced[v] = {"total", "paid"} /\ Started(v[2])
                                /\ v[2] \in DOMAIN orders => orders[v[2]].invoice = v
  /\ \A v, w \in DOMAIN invoiced : v[2] = w[2] => v = w
  /\ \A o \in DOMAIN orders : orders[o].invoice # NoInvoice =>
       orders[o].invoice \in DOMAIN invoiced /\ orders[o].invoice[2] = o

LinkInv == Apart => Linked /\ \A r \in Requests : Known(r)

(* The step of a request, alone in flight.                                 *)
Alone(r) == /\ Apart /\ Apart' /\ r \in Requests /\ r \in InFlight /\ Moves(r) /\ UNCHANGED call
            /\ Making(r, {"order"}) => pc'[r] \in Ended

LEMMA AloneFacts ==
  ASSUME ServerInv, AloneInv, NEW r, Alone(r)
  PROVE  /\ \A o : Started(o) => Started(o)'
         /\ \A s \in Requests \ {r} : Known(s)' /\ ~Collecting(s) /\ ~Collecting(s)'
                                      /\ \A l : Making(s, l)' <=> Making(s, l)
<1>1. \A s \in Requests \ {r} : s \notin InFlight /\ pc'[s] = pc[s] /\ call'[s] = call[s]
  BY DEF AloneInv, Alone, Moves
<1>2. \A s \in Requests \ {r} : Known(s)'
  BY <1>1 DEF Known, At, Collecting, Migrating, Making, InFlight, Ended
<1>3. \A s \in Requests \ {r} : ~Collecting(s) /\ ~Collecting(s)' /\ \A l : Making(s, l)' <=> Making(s, l)
  BY <1>1 DEF At, Collecting, Making, InFlight, Ended
<1>4. pc[r] \notin Ended
  BY DEF Alone, InFlight
<1>5. \A o : Started(o) => Started(o)'
  BY <1>1, <1>4 DEF Started, Making, Alone, Ended
<1>6. QED
  BY <1>2, <1>3, <1>5

(* A step that leaves every order its invoice.                             *)
LEMMA LinkKept ==
  ASSUME ServerInv, AloneInv, LinkInv, NEW r, Alone(r),
         DOMAIN orders' \subseteq DOMAIN orders, \A o \in DOMAIN orders' : orders'[o].invoice = orders[o].invoice,
         DOMAIN invoiced' = DOMAIN invoiced, \A v \in DOMAIN invoiced : DOMAIN invoiced'[v] = DOMAIN invoiced[v],
         Known(r)'
  PROVE  LinkInv'
<1>1. Linked /\ \A o : Started(o) => Started(o)'
  BY AloneFacts DEF LinkInv, Alone
<1>2. Linked'
  BY <1>1 DEF Linked
<1>3. QED
  BY <1>2, AloneFacts DEF LinkInv

LEMMA TailorAlone ==
  ASSUME ServerInv, NEW r \in Requests, TailorStep(r), UNCHANGED call, Apart, Apart'
  PROVE  Alone(r)
<1>1. Moves(r) /\ r \in InFlight
  BY TailorMoves
<1>2. CASE CreateOrder(r)
  <2>1. pc'[r] \in Ended
    BY <1>2, AnswerFacts DEF CreateOrder, Ended
  <2>2. QED
    BY <1>1, <2>1 DEF Alone
<1>3. CASE ~CreateOrder(r)
  <2>1. pc[r] # "order"
    BY <1>3 DEF TailorStep, FindParent, CreateSheet, FindSheet, UpdateSheet, RemoveSheet, CountOrders, DrawInvoiceNumber,
       CheckSheet, CreateOrderInvoice, FindOrder, PayAdvance, Collect, SetOrderStatus, UpdateOrder, RemoveOrder,
       ListOrphans, DrawMigrationNumber, LinkInvoice, SkipOrphan, EndMigration, At
  <2>2. QED
    BY <1>1, <2>1 DEF Alone, Making
<1>4. QED
  BY <1>2, <1>3

LEMMA TailorStepLinks ==
  ASSUME ServerInv, AloneInv, AdvanceInv, LinkInv, NEW r \in Requests, TailorStep(r), UNCHANGED call, Apart, Apart'
  PROVE  LinkInv'
<1>0. Alone(r) /\ Known(r) /\ Linked
  BY TailorAlone DEF LinkInv
<1>a. \A o \in DOMAIN orders : DOMAIN orders[o] = OrderFields /\ Ordered(o)
  BY DEF AdvanceInv, OrderFits
<1>b. ASSUME UNCHANGED <<orders, invoiced>>, Known(r)' PROVE LinkInv'
  BY <1>0, <1>b, LinkKept
<1>c. ASSUME DOMAIN orders' = DOMAIN orders, \A o \in DOMAIN orders : orders'[o].invoice = orders[o].invoice,
             UNCHANGED invoiced, Known(r)'
      PROVE  LinkInv'
  BY <1>0, <1>c, LinkKept
<1>d. ASSUME UNCHANGED <<orders, invoiced>>, pc'[r] = "refused" PROVE LinkInv'
  BY <1>b, <1>d DEF Known, At, Collecting, Migrating, Making
<1>1. CASE FindParent(r) \/ CreateSheet(r) \/ FindSheet(r) \/ UpdateSheet(r)
  <2>1. UNCHANGED <<orders, invoiced>> /\ call[r].op \in {"createSheet", "updateSheet", "removeSheet"}
    BY <1>1 DEF FindParent, CreateSheet, FindSheet, UpdateSheet, At, tailor
  <2>2. Known(r)'
    BY <2>1 DEF Known, At, Collecting, Migrating, Making
  <2>3. QED
    BY <1>b, <2>1, <2>2
<1>2. CASE RemoveSheet(r)
  <2>1. UNCHANGED invoiced /\ call[r].op = "removeSheet"
    BY <1>2 DEF RemoveSheet, At
  <2>2. Known(r)'
    BY <2>1 DEF Known, At, Collecting, Migrating, Making
  <2>3. CASE UNCHANGED orders
    BY <1>b, <2>1, <2>2, <2>3
  <2>4. CASE \E gone : orders' = [o \in DOMAIN orders |->
                 IF orders[o].sheet \in gone THEN [orders[o] EXCEPT !.sheet = NoSheet] ELSE orders[o]]
    <3>1. DOMAIN orders' = DOMAIN orders /\ \A o \in DOMAIN orders : orders'[o].invoice = orders[o].invoice
      BY <1>a, <2>4 DEF OrderFields
    <3>2. QED
      BY <1>c, <2>1, <2>2, <3>1
  <2>5. QED
    BY <1>2, <2>3, <2>4 DEF RemoveSheet
<1>3. CASE CountOrders(r) \/ DrawInvoiceNumber(r) \/ CheckSheet(r)
  <2>1. /\ UNCHANGED <<orders, invoiced, sheets>> /\ call[r].op = "createOrder"
        /\ \/ Refuse(r)
           \/ \E v : Keep(r, "number", v)
           \/ Goto(r, "sheet")
           \/ Goto(r, "invoice") /\ ParentFits(call[r].sheet)
    BY <1>3 DEF CountOrders, DrawInvoiceNumber, CheckSheet, At, tailor, ParentFits
  <2>2. \/ pc'[r] \in {"refused", "number", "sheet"}
        \/ pc'[r] = "invoice" /\ ParentFits(call[r].sheet)'
    BY <2>1, GotoFacts, KeepFacts, AnswerFacts DEF ParentFits
  <2>3. Known(r)'
    BY <2>1, <2>2 DEF Known, At, Collecting, Migrating, Making
  <2>4. QED
    BY <1>b, <2>1, <2>3
<1>4. CASE CreateOrderInvoice(r)
  <2>1. /\ UNCHANGED <<orders, sheets>> /\ call[r].op = "createOrder" /\ pc[r] = "invoice" /\ Goto(r, "order")
        /\ invoiced' = Put(invoiced, <<r, r>>, [total |-> call[r].price, paid |-> call[r].advance])
    BY <1>4 DEF CreateOrderInvoice, At
  <2>2. PICK v : v = <<r, r>>
    OBVIOUS
  <2>3. v[2] = r /\ v \in InvoiceIds
    BY <2>2 DEF InvoiceIds, OrderIds
  <2>4. /\ DOMAIN invoiced' = DOMAIN invoiced \cup {v} /\ DOMAIN invoiced'[v] = {"total", "paid"}
        /\ invoiced'[v].paid = call[r].advance
        /\ \A w \in DOMAIN invoiced : w # v => invoiced'[w] = invoiced[w]
    BY <2>1, <2>2 DEF Put
  <2>5. ~Started(r) /\ r \notin DOMAIN orders
    BY <1>a, <2>1, OrdersAssumption DEF Started, Making, Ordered
  <2>6. pc'[r] = "order"
    BY <2>1, GotoFacts
  <2>7. Started(r)' /\ \A o : Started(o) => Started(o)'
    BY <1>0, <2>1, <2>6, AloneFacts DEF Started, Making
  <2>8. Linked'
    <3>1. \A w \in DOMAIN invoiced : w[2] # r
      BY <1>0, <2>5 DEF Linked
    <3>2. ASSUME NEW w \in DOMAIN invoiced'
          PROVE  /\ w \in InvoiceIds /\ DOMAIN invoiced'[w] = {"total", "paid"} /\ Started(w[2])'
                 /\ w[2] \in DOMAIN orders' => orders'[w[2]].invoice = w
      <4>1. CASE w = v
        BY <2>1, <2>3, <2>4, <2>5, <2>7, <4>1
      <4>2. CASE w # v
        BY <1>0, <2>1, <2>4, <2>7, <4>2 DEF Linked
      <4>3. QED
        BY <4>1, <4>2
    <3>3. \A w, u \in DOMAIN invoiced' : w[2] = u[2] => w = u
      BY <1>0, <2>3, <2>4, <3>1 DEF Linked
    <3>4. \A o \in DOMAIN orders' : orders'[o].invoice # NoInvoice =>
            orders'[o].invoice \in DOMAIN invoiced' /\ orders'[o].invoice[2] = o
      BY <1>0, <2>1, <2>4 DEF Linked
    <3>5. QED
      BY <3>2, <3>3, <3>4 DEF Linked
  <2>9. Known(r)'
    <3>1. ParentFits(call[r].sheet)
      BY <1>0, <2>1 DEF Known, Making
    <3>2. QED
      BY <2>1, <2>2, <2>4, <2>6, <3>1 DEF Known, At, Collecting, Migrating, Making, ParentFits
  <2>10. QED
    BY <1>0, <2>8, <2>9, AloneFacts DEF LinkInv
<1>5. CASE CreateOrder(r)
  <2>1. call[r].op = "createOrder" /\ pc[r] = "order" /\ UNCHANGED invoiced
    BY <1>5 DEF CreateOrder, At
  <2>2. CASE Refuse(r) /\ UNCHANGED orders
    BY <1>d, <2>1, <2>2, AnswerFacts
  <2>3. CASE /\ Answer(r, "done")
             /\ orders' = Put(orders, r,
                 [number |-> seen[r].number, price |-> call[r].price, advance |-> call[r].advance,
                  sheet |-> call[r].sheet, invoice |-> <<r, r>>])
    <3>1. PICK v : v = <<r, r>>
      OBVIOUS
    <3>2. v[2] = r /\ v \in DOMAIN invoiced
      BY <1>0, <2>1, <3>1 DEF Known, Making
    <3>3. /\ DOMAIN orders' = DOMAIN orders \cup {r} /\ orders'[r].invoice = v
          /\ \A o \in DOMAIN orders : o # r => orders'[o] = orders[o]
      BY <2>3, <3>1 DEF Put
    <3>4. \A w \in DOMAIN invoiced : w[2] = r => w = v
      BY <1>0, <3>2 DEF Linked
    <3>5. \A o : Started(o) => Started(o)'
      BY <1>0, AloneFacts
    <3>6. Linked'
      BY <1>0, <2>1, <3>2, <3>3, <3>4, <3>5 DEF Linked
    <3>7. Known(r)'
      BY <2>1, <2>3, AnswerFacts DEF Known, At, Collecting, Migrating, Making
    <3>8. QED
      BY <1>0, <3>6, <3>7, AloneFacts DEF LinkInv
  <2>4. QED
    BY <1>5, <2>2, <2>3 DEF CreateOrder
<1>6. CASE FindOrder(r)
  <2>1. UNCHANGED <<orders, invoiced>> /\ call[r].op \in {"payOrder", "orderStatus", "updateOrder", "removeOrder"}
    BY <1>6 DEF FindOrder, At, tailor
  <2>2. CASE Refuse(r)
    BY <1>d, <2>1, <2>2, AnswerFacts
  <2>3. CASE /\ call[r].id \in DOMAIN orders
             /\ Keep(r, "write", [advance |-> orders[call[r].id].advance, invoice |-> orders[call[r].id].invoice])
    <3>1. /\ pc'[r] = "write" /\ seen'[r].advance = orders[call[r].id].advance
          /\ seen'[r].invoice = orders[call[r].id].invoice
      BY <2>3, KeepFacts
    <3>2. Known(r)'
      BY <2>1, <2>3, <3>1 DEF Known, At, Collecting, Migrating, Making
    <3>3. QED
      BY <1>b, <2>1, <3>2
  <2>4. QED
    BY <1>6, <2>2, <2>3 DEF FindOrder
<1>7. CASE PayAdvance(r)
  <2>1. call[r].op = "payOrder" /\ pc[r] = "write" /\ UNCHANGED invoiced
    BY <1>7 DEF PayAdvance, At
  <2>2. CASE Refuse(r) /\ UNCHANGED orders
    BY <1>d, <2>1, <2>2, AnswerFacts
  <2>3. CASE /\ call[r].id \in DOMAIN orders
             /\ orders' = [orders EXCEPT ![call[r].id].advance = seen[r].advance + call[r].amount]
             /\ IF seen[r].invoice = NoInvoice THEN Answer(r, "done") ELSE Goto(r, "collect")
    <3>1. DOMAIN orders' = DOMAIN orders /\ \A o \in DOMAIN orders : orders'[o].invoice = orders[o].invoice
      BY <1>a, <2>3 DEF OrderFields
    <3>2. pc'[r] = "done" \/ (pc'[r] = "collect" /\ seen' = seen /\ seen[r].invoice # NoInvoice)
      BY <2>3, GotoFacts, AnswerFacts
    <3>3. Known(r)'
      BY <1>0, <2>1, <2>3, <3>1, <3>2 DEF Known, At, Collecting, Migrating, Making
    <3>4. QED
      BY <1>c, <2>1, <3>1, <3>3
  <2>4. QED
    BY <1>7, <2>2, <2>3 DEF PayAdvance
<1>8. CASE Collect(r)
  <2>1. UNCHANGED orders /\ pc'[r] = "done" /\ invoiced' = [invoiced EXCEPT ![seen[r].invoice].paid = @ + call[r].amount]
    BY <1>8, AnswerFacts DEF Collect
  <2>2. DOMAIN invoiced' = DOMAIN invoiced /\ \A v \in DOMAIN invoiced : DOMAIN invoiced'[v] = DOMAIN invoiced[v]
    BY <2>1
  <2>3. Known(r)'
    BY <2>1 DEF Known, At, Collecting, Migrating, Making
  <2>4. QED
    BY <1>0, <2>1, <2>2, <2>3, LinkKept
<1>9. CASE SetOrderStatus(r) \/ UpdateOrder(r) \/ RemoveOrder(r)
  <2>1. pc'[r] \in {"done", "refused"} /\ UNCHANGED invoiced
    BY <1>9, AnswerFacts DEF SetOrderStatus, UpdateOrder, RemoveOrder
  <2>2. Known(r)'
    BY <2>1 DEF Known, At, Collecting, Migrating, Making
  <2>3. DOMAIN orders' \subseteq DOMAIN orders /\ \A o \in DOMAIN orders' : orders'[o].invoice = orders[o].invoice
    BY <1>a, <1>9 DEF SetOrderStatus, UpdateOrder, RemoveOrder, OrderFields, Without
  <2>4. QED
    BY <1>0, <2>1, <2>2, <2>3, LinkKept
<1>10. CASE ListOrphans(r)
  <2> DEFINE orphans == {o \in DOMAIN orders : orders[o].invoice = NoInvoice}
  <2>1. UNCHANGED <<orders, invoiced>> /\ call[r].op = "migrateOrders"
    BY <1>10 DEF ListOrphans, At, tailor
  <2>2. pc'[r] = "number" /\ seen'[r].orphans = [o \in orphans |-> orders[o]]
    BY <1>10, KeepFacts DEF ListOrphans
  <2>3. Known(r)'
    BY <2>1, <2>2 DEF Known, At, Collecting, Migrating, Making
  <2>4. QED
    BY <1>b, <2>1, <2>3
<1>11. CASE DrawMigrationNumber(r)
  <2>1. UNCHANGED <<orders, invoiced>> /\ call[r].op = "migrateOrders" /\ Migrating(r)
    BY <1>11 DEF DrawMigrationNumber, At, Migrating
  <2>2. pc'[r] = "link" /\ seen'[r].orphans = seen[r].orphans /\ seen'[r].order \in DOMAIN seen[r].orphans
    BY <1>11, KeepFacts DEF DrawMigrationNumber
  <2>3. Known(r)'
    BY <1>0, <2>1, <2>2 DEF Known, At, Collecting, Migrating, Making
  <2>4. QED
    BY <1>b, <2>1, <2>3
<1>12. CASE SkipOrphan(r)
  <2>1. UNCHANGED <<orders, invoiced>> /\ call[r].op = "migrateOrders" /\ Migrating(r)
    BY <1>12 DEF SkipOrphan, At, Migrating, tailor
  <2>2. pc'[r] = "number" /\ seen'[r].orphans = Without(seen[r].orphans, seen[r].order)
    BY <1>12, KeepFacts DEF SkipOrphan
  <2>3. Known(r)'
    BY <1>0, <2>1, <2>2 DEF Known, At, Collecting, Migrating, Making, Without
  <2>4. QED
    BY <1>b, <2>1, <2>3
<1>13. CASE EndMigration(r)
  <2>1. UNCHANGED <<orders, invoiced>> /\ pc'[r] = "done"
    BY <1>13, AnswerFacts DEF EndMigration, tailor
  <2>2. QED
    BY <1>b, <2>1 DEF Known, At, Collecting, Migrating, Making
<1>14. CASE LinkInvoice(r)
  <2>0. PICK o, row : o = seen[r].order /\ row = seen[r].orphans[o]
    OBVIOUS
  <2>1. call[r].op = "migrateOrders" /\ pc[r] = "link" /\ Migrating(r)
    BY <1>14 DEF LinkInvoice, At, Migrating
  <2>2. /\ o \in DOMAIN seen[r].orphans /\ o \in DOMAIN orders /\ row = orders[o] /\ orders[o].invoice = NoInvoice
    BY <1>0, <2>0, <2>1 DEF Known, At
  <2>3. /\ invoiced' = Put(invoiced, <<r, o>>, [total |-> row.price, paid |-> row.advance])
        /\ orders' = [orders EXCEPT ![o].invoice = <<r, o>>]
        /\ Keep(r, "number", [orphans |-> Without(seen[r].orphans, o)])
    BY <1>14, <2>0, <2>2 DEF LinkInvoice
  <2>4. PICK v : v = <<r, o>>
    OBVIOUS
  <2>5. v[2] = o /\ v \in InvoiceIds
    BY <1>a, <2>2, <2>4 DEF InvoiceIds, OrderIds, Ordered
  <2>6. /\ DOMAIN invoiced' = DOMAIN invoiced \cup {v} /\ DOMAIN invoiced'[v] = {"total", "paid"}
        /\ \A w \in DOMAIN invoiced : w # v => invoiced'[w] = invoiced[w]
    BY <2>3, <2>4 DEF Put
  <2>7. /\ DOMAIN orders' = DOMAIN orders /\ orders'[o].invoice = v
        /\ \A p \in DOMAIN orders : p # o => orders'[p] = orders[p]
    BY <1>a, <2>2, <2>3, <2>4 DEF OrderFields
  <2>8. \A w \in DOMAIN invoiced : w[2] # o
    BY <1>0, <2>2, OrdersAssumption DEF Linked
  <2>9. Started(o)' /\ \A p : Started(p) => Started(p)'
    <3>1. Started(o)
      BY <1>a, <2>2 DEF Ordered, Started, Making
    <3>2. QED
      BY <1>0, <3>1, AloneFacts
  <2>10. pc'[r] = "number" /\ seen'[r].orphans = Without(seen[r].orphans, o)
    BY <2>3, KeepFacts
  <2>11. DOMAIN seen'[r].orphans = DOMAIN seen[r].orphans \ {o}
         /\ \A p \in DOMAIN seen'[r].orphans : seen'[r].orphans[p] = seen[r].orphans[p]
    BY <2>10 DEF Without
  <2>12. Linked'
    <3>1. ASSUME NEW w \in DOMAIN invoiced'
          PROVE  /\ w \in InvoiceIds /\ DOMAIN invoiced'[w] = {"total", "paid"} /\ Started(w[2])'
                 /\ w[2] \in DOMAIN orders' => orders'[w[2]].invoice = w
      <4>1. CASE w = v
        BY <2>5, <2>6, <2>7, <2>9, <4>1
      <4>2. CASE w # v
        BY <1>0, <2>6, <2>7, <2>8, <2>9, <4>2 DEF Linked
      <4>3. QED
        BY <4>1, <4>2
    <3>2. \A w, u \in DOMAIN invoiced' : w[2] = u[2] => w = u
      BY <1>0, <2>5, <2>6, <2>8 DEF Linked
    <3>3. \A p \in DOMAIN orders' : orders'[p].invoice # NoInvoice =>
            orders'[p].invoice \in DOMAIN invoiced' /\ orders'[p].invoice[2] = p
      BY <1>0, <2>2, <2>5, <2>6, <2>7 DEF Linked
    <3>4. QED
      BY <3>1, <3>2, <3>3 DEF Linked
  <2>13. Known(r)'
    BY <1>0, <2>1, <2>2, <2>7, <2>10, <2>11 DEF Known, At, Collecting, Migrating, Making
  <2>14. QED
    BY <1>0, <2>12, <2>13, AloneFacts DEF LinkInv
<1>15. QED
  BY <1>1, <1>2, <1>3, <1>4, <1>5, <1>6, <1>7, <1>8, <1>9, <1>10, <1>11, <1>12, <1>13, <1>14 DEF TailorStep

LEMMA KnownKept ==
  ASSUME NEW s, Known(s), pc'[s] = pc[s], call'[s] = call[s], seen'[s] = seen[s], UNCHANGED tailor
  PROVE  Known(s)'
<1>1. UNCHANGED <<orders, invoiced, sheets>>
  BY DEF tailor
<1>2. \A ops, l : At(s, ops, l)' <=> At(s, ops, l)
  BY DEF At
<1>3. /\ Collecting(s)' <=> Collecting(s)
      /\ Migrating(s)' <=> Migrating(s)
      /\ \A l : Making(s, l)' <=> Making(s, l)
  BY <1>2 DEF Collecting, Migrating, Making
<1>4. ParentFits(call[s].sheet)' <=> ParentFits(call[s].sheet)
  BY <1>1 DEF ParentFits
<1>5. QED
  BY <1>1, <1>2, <1>3, <1>4 DEF Known

LEMMA LinkStart == Init => LinkInv
<1> SUFFICES ASSUME Init PROVE LinkInv
  OBVIOUS
<1>1. DOMAIN invoiced = {} /\ orders = OldOrders /\ pc = [r \in Requests |-> "idle"]
  BY DEF Init, TailorInit, ServerInit
<1>2. Linked
  BY <1>1, OrdersAssumption DEF Linked
<1>3. \A r \in Requests : Known(r)
  BY <1>1 DEF Known, At, Collecting, Migrating, Making
<1>4. QED
  BY <1>2, <1>3 DEF LinkInv

LEMMA LinkNext ==
  ASSUME ServerInv, AloneInv, AdvanceInv, LinkInv, [Next]_vars
  PROVE  LinkInv'
<1>0. UNCHANGED scene
  BY RestartFacts DEF Next, vars, serverVars, Clock
<1> SUFFICES ASSUME Apart, Apart' PROVE LinkInv'
  BY <1>0 DEF LinkInv, Apart
<1>a. Linked /\ \A r \in Requests : Known(r)
  BY DEF LinkInv
<1>b. ASSUME UNCHANGED tailor, \A o : Started(o) => Started(o)', \A r \in Requests : Known(r)' PROVE LinkInv'
  <2>1. Linked'
    BY <1>a, <1>b DEF Linked, tailor
  <2>2. QED
    BY <1>b, <2>1 DEF LinkInv
<1>1. CASE UNCHANGED <<pc, call, seen, tailor>>
  <2>1. \A r \in Requests : Known(r)'
    BY <1>1, <1>a, KnownKept
  <2>2. QED
    BY <1>1, <1>b, <2>1 DEF Started, Making
<1>2. ASSUME NEW r \in Requests, Request(r) PROVE LinkInv'
  <2>1. CASE (Arrive(r) \/ Fail(r)) /\ UNCHANGED tables
    <3>1. /\ Moves(r) /\ pc'[r] \in {"start", "failed"} /\ \A s \in Requests \ {r} : call'[s] = call[s]
          /\ (pc[r] = "idle" /\ pc'[r] = "start") \/ (call'[r] = call[r] /\ pc'[r] = "failed")
      BY <2>1, ArriveFacts, FailFacts
    <3>2. UNCHANGED tailor
      BY <2>1 DEF tables
    <3>3. \A o : Started(o) => Started(o)'
      BY <3>1 DEF Started, Making, Moves
    <3>4. Known(r)'
      BY <3>1 DEF Known, At, Collecting, Migrating, Making
    <3>5. \A s \in Requests \ {r} : Known(s)'
      BY <1>a, <3>1, <3>2, KnownKept DEF Moves
    <3>6. QED
      BY <1>b, <3>2, <3>3, <3>4, <3>5
  <2>2. CASE TailorStep(r) /\ UNCHANGED call
    BY <2>2, TailorStepLinks
  <2>3. CASE UNCHANGED <<call, tailor>> /\ Moves(r) /\ r \in InFlight /\ call[r].op \notin TailorOps
    <3>1. Known(r)'
      BY <2>3 DEF Known, At, Collecting, Migrating, Making, TailorOps
    <3>2. Alone(r)
      BY <2>3 DEF Alone, Making, TailorOps
    <3>3. QED
      BY <2>3, <3>1, <3>2, LinkKept DEF tailor
  <2>4. QED
    BY <1>2, <2>1, <2>2, <2>3, Disjoint, RequestCases
<1>3. CASE Restart
  <2>1. /\ UNCHANGED <<call, tailor>>
        /\ \A r \in Requests : IF r \in InFlight THEN pc'[r] = "failed" ELSE pc'[r] = pc[r]
    BY <1>3, RestartFacts
  <2>2. \A o : Started(o) => Started(o)'
    BY <2>1 DEF Started, Making, InFlight, Ended
  <2>3. \A r \in Requests : Known(r)'
    BY <2>1 DEF Known, At, Collecting, Migrating, Making, InFlight, Ended
  <2>4. QED
    BY <1>b, <2>1, <2>2, <2>3
<1>4. QED
  BY <1>1, <1>2, <1>3 DEF Next, Clock, vars, serverVars, tailor

(* What was paid.  Between the two writes of a payment the order is ahead  *)
(* of its invoice by the payment.                                          *)
Agrees(o) ==
  orders[o].invoice # NoInvoice /\ Unrevised(o) => invoiced[orders[o].invoice].paid = orders[o].advance

Ahead(r) ==
  Collecting(r) /\ Unrevised(call[r].id) =>
    orders[call[r].id].advance = invoiced[orders[call[r].id].invoice].paid + call[r].amount

AgreeInv ==
  Quiet => /\ \A o \in DOMAIN orders : Agrees(o) \/ \E r \in Requests : Collecting(r) /\ call[r].id = o
           /\ \A r \in Requests : Ahead(r)

LEMMA AgreesKept ==
  ASSUME UNCHANGED call, NEW o, Agrees(o), orders'[o].invoice = orders[o].invoice, orders'[o].advance = orders[o].advance,
         orders[o].invoice # NoInvoice => invoiced'[orders[o].invoice].paid = invoiced[orders[o].invoice].paid
  PROVE  Agrees(o)'
BY DEF Agrees, Unrevised, Asked

(* A step that changes neither the advance of an order nor what its        *)
(* invoice says of it, by a request that collects nothing.                 *)
LEMMA AgreeKept ==
  ASSUME ServerInv, AloneInv, LinkInv, AgreeInv, NEW r, Alone(r), ~Collecting(r), ~Collecting(r)',
         DOMAIN orders' \subseteq DOMAIN orders,
         \A o \in DOMAIN orders' : orders'[o].invoice = orders[o].invoice /\ orders'[o].advance = orders[o].advance,
         \A v \in DOMAIN invoiced : invoiced'[v].paid = invoiced[v].paid,
         Quiet' => Quiet
  PROVE  AgreeInv'
<1> SUFFICES ASSUME Quiet, Quiet' PROVE AgreeInv'
  BY DEF AgreeInv
<1>0. r \in Requests /\ UNCHANGED call
  BY DEF Alone
<1>1. \A s \in Requests : ~Collecting(s) /\ ~Collecting(s)'
  BY <1>0, AloneFacts
<1>2. ASSUME NEW o \in DOMAIN orders' PROVE Agrees(o)'
  <2>1. Agrees(o)
    BY <1>1, <1>2 DEF AgreeInv
  <2>2. orders[o].invoice # NoInvoice => orders[o].invoice \in DOMAIN invoiced
    BY <1>2 DEF LinkInv, Linked, Alone
  <2>3. QED
    BY <1>0, <1>2, <2>1, <2>2, AgreesKept
<1>3. \A s \in Requests : Ahead(s)'
  BY <1>1 DEF Ahead
<1>4. QED
  BY <1>2, <1>3 DEF AgreeInv

(* A step that writes one order, or its invoice.                           *)
LEMMA AgreeWritten ==
  ASSUME ServerInv, AloneInv, LinkInv, AgreeInv, NEW r, Alone(r), Quiet, Quiet', NEW o,
         DOMAIN orders' \subseteq DOMAIN orders \cup {o}, \A p \in DOMAIN orders' : p # o => orders'[p] = orders[p],
         \A v \in DOMAIN invoiced : v[2] # o => invoiced'[v].paid = invoiced[v].paid,
         Collecting(r) => call[r].id = o, Collecting(r)' => call[r].id = o /\ Ahead(r)',
         ~Collecting(r)' /\ o \in DOMAIN orders' => Agrees(o)'
  PROVE  AgreeInv'
<1>0. r \in Requests /\ UNCHANGED call
  BY DEF Alone
<1>1. \A s \in Requests \ {r} : ~Collecting(s) /\ ~Collecting(s)'
  BY <1>0, AloneFacts
<1>2. ASSUME NEW p \in DOMAIN orders', p # o PROVE Agrees(p)'
  <2>1. Agrees(p)
    BY <1>1, <1>2 DEF AgreeInv
  <2>2. orders[p].invoice # NoInvoice => orders[p].invoice \in DOMAIN invoiced /\ orders[p].invoice[2] = p
    BY <1>2 DEF LinkInv, Linked, Alone
  <2>3. QED
    BY <1>0, <1>2, <2>1, <2>2, AgreesKept
<1>3. \A s \in Requests : Ahead(s)'
  BY <1>1 DEF Ahead
<1>4. QED
  BY <1>0, <1>2, <1>3 DEF AgreeInv

LEMMA TailorStepAgrees ==
  ASSUME ServerInv, AloneInv, AdvanceInv, LinkInv, LinkInv', AgreeInv, NEW r \in Requests, TailorStep(r), UNCHANGED call,
         Quiet, Quiet'
  PROVE  AgreeInv'
<1>0. Alone(r) /\ Known(r) /\ Linked /\ Apart /\ Apart'
  BY TailorAlone DEF LinkInv, Quiet
<1>a. \A o \in DOMAIN orders : DOMAIN orders[o] = OrderFields /\ Ordered(o)
  BY DEF AdvanceInv, OrderFits
<1>b. ASSUME UNCHANGED <<orders, invoiced>>, ~Collecting(r), ~Collecting(r)' PROVE AgreeInv'
  BY <1>0, <1>b, AgreeKept
<1>1. CASE FindParent(r) \/ CreateSheet(r) \/ FindSheet(r) \/ UpdateSheet(r) \/ CountOrders(r) \/ DrawInvoiceNumber(r)
           \/ CheckSheet(r) \/ ListOrphans(r) \/ DrawMigrationNumber(r) \/ SkipOrphan(r) \/ EndMigration(r)
  <2>1. UNCHANGED <<orders, invoiced>> /\ call[r].op # "payOrder"
    BY <1>1 DEF FindParent, CreateSheet, FindSheet, UpdateSheet, CountOrders, DrawInvoiceNumber, CheckSheet, ListOrphans,
                DrawMigrationNumber, SkipOrphan, EndMigration, At, tailor
  <2>2. QED
    BY <1>b, <2>1 DEF Collecting, At
<1>2. CASE RemoveSheet(r)
  <2>1. UNCHANGED invoiced /\ call[r].op = "removeSheet"
    BY <1>2 DEF RemoveSheet, At
  <2>2. CASE UNCHANGED orders
    BY <1>b, <2>1, <2>2 DEF Collecting, At
  <2>3. CASE \E gone : orders' = [o \in DOMAIN orders |->
                 IF orders[o].sheet \in gone THEN [orders[o] EXCEPT !.sheet = NoSheet] ELSE orders[o]]
    <3>1. /\ DOMAIN orders' = DOMAIN orders
          /\ \A o \in DOMAIN orders : orders'[o].invoice = orders[o].invoice /\ orders'[o].advance = orders[o].advance
      BY <1>a, <2>3 DEF OrderFields
    <3>2. ~Collecting(r) /\ ~Collecting(r)'
      BY <2>1 DEF Collecting, At
    <3>3. QED
      BY <1>0, <2>1, <3>1, <3>2, AgreeKept
  <2>4. QED
    BY <1>2, <2>2, <2>3 DEF RemoveSheet
<1>3. CASE CreateOrderInvoice(r)
  <2>1. /\ UNCHANGED orders /\ call[r].op = "createOrder" /\ pc[r] = "invoice"
        /\ invoiced' = Put(invoiced, <<r, r>>, [total |-> call[r].price, paid |-> call[r].advance])
    BY <1>3 DEF CreateOrderInvoice, At
  <2>2. ~Started(r)
    BY <2>1, OrdersAssumption DEF Started, Making
  <2>3. <<r, r>> \notin DOMAIN invoiced
    <3>1. PICK v : v = <<r, r>>
      OBVIOUS
    <3>2. v[2] = r
      BY <3>1
    <3>3. v \notin DOMAIN invoiced
      BY <1>0, <2>2, <3>2 DEF Linked
    <3>4. QED
      BY <3>1, <3>3
  <2>4. \A v \in DOMAIN invoiced : invoiced'[v].paid = invoiced[v].paid
    BY <2>1, <2>3 DEF Put
  <2>5. ~Collecting(r) /\ ~Collecting(r)'
    BY <2>1 DEF Collecting, At
  <2>6. QED
    BY <1>0, <2>1, <2>4, <2>5, AgreeKept
<1>4. CASE CreateOrder(r)
  <2>1. call[r].op = "createOrder" /\ pc[r] = "order" /\ UNCHANGED invoiced /\ ~Collecting(r) /\ ~Collecting(r)'
    BY <1>4 DEF CreateOrder, At, Collecting
  <2>2. CASE UNCHANGED orders
    BY <1>b, <2>1, <2>2
  <2>3. CASE orders' = Put(orders, r,
                 [number |-> seen[r].number, price |-> call[r].price, advance |-> call[r].advance,
                  sheet |-> call[r].sheet, invoice |-> <<r, r>>])
    <3>1. /\ DOMAIN orders' = DOMAIN orders \cup {r} /\ orders'[r].invoice = <<r, r>> /\ orders'[r].advance = call[r].advance
          /\ \A p \in DOMAIN orders : p # r => orders'[p] = orders[p]
      BY <2>3 DEF Put
    <3>2. invoiced[<<r, r>>].paid = call[r].advance
      BY <1>0, <2>1 DEF Known, Making
    <3>3. Agrees(r)'
      BY <2>1, <3>1, <3>2 DEF Agrees
    <3>4. QED
      BY <1>0, <2>1, <3>1, <3>3, AgreeWritten
  <2>4. QED
    BY <1>4, <2>2, <2>3 DEF CreateOrder
<1>5. CASE FindOrder(r)
  <2>1. UNCHANGED <<orders, invoiced>> /\ pc[r] = "start"
    BY <1>5 DEF FindOrder, At, tailor
  <2>2. pc'[r] \in {"refused", "write"}
    BY <1>5, KeepFacts, AnswerFacts DEF FindOrder
  <2>3. QED
    BY <1>b, <2>1, <2>2 DEF Collecting, At
<1>6. CASE PayAdvance(r)
  <2>1. call[r].op = "payOrder" /\ pc[r] = "write" /\ UNCHANGED invoiced /\ ~Collecting(r)
    BY <1>6 DEF PayAdvance, At, Collecting
  <2>2. CASE Refuse(r) /\ UNCHANGED orders
    BY <1>b, <2>1, <2>2, AnswerFacts DEF Collecting, At
  <2>3. CASE /\ call[r].id \in DOMAIN orders
             /\ orders' = [orders EXCEPT ![call[r].id].advance = seen[r].advance + call[r].amount]
             /\ IF seen[r].invoice = NoInvoice THEN Answer(r, "done") ELSE Goto(r, "collect")
    <3>0. PICK o : o = call[r].id
      OBVIOUS
    <3>1. /\ DOMAIN orders' = DOMAIN orders /\ \A p \in DOMAIN orders : p # o => orders'[p] = orders[p]
          /\ orders'[o].invoice = orders[o].invoice /\ orders'[o].advance = seen[r].advance + call[r].amount
      BY <1>a, <2>3, <3>0 DEF OrderFields
    <3>2. o \in DOMAIN orders /\ seen[r].advance = orders[o].advance /\ seen[r].invoice = orders[o].invoice
      BY <1>0, <2>1, <3>0 DEF Known, At
    <3>3. pc'[r] = "collect" => seen[r].invoice # NoInvoice
      BY <2>3, GotoFacts, AnswerFacts
    <3>4. pc'[r] # "collect" => seen[r].invoice = NoInvoice
      BY <2>3, GotoFacts, AnswerFacts
    <3>5. ~Collecting(r)' => Agrees(o)'
      BY <2>1, <3>1, <3>2, <3>4 DEF Agrees, Collecting, At
    <3>6. ASSUME Collecting(r)', Unrevised(o)'
          PROVE  orders'[o].advance = invoiced[orders[o].invoice].paid + call[r].amount
      <4>1. \A s \in Requests : ~Collecting(s)
        BY <1>0, <2>1, AloneFacts
      <4>2. Agrees(o) /\ Unrevised(o)
        BY <3>2, <3>6, <4>1 DEF AgreeInv, Unrevised, Asked
      <4>3. invoiced[orders[o].invoice].paid = orders[o].advance
        BY <3>2, <3>3, <3>6, <4>2 DEF Agrees, Collecting, At
      <4>4. QED
        BY <3>1, <3>2, <4>3
    <3>7. Ahead(r)'
      BY <2>1, <3>0, <3>1, <3>6 DEF Ahead
    <3>8. QED
      BY <1>0, <2>1, <3>0, <3>1, <3>5, <3>7, AgreeWritten
  <2>4. QED
    BY <1>6, <2>2, <2>3 DEF PayAdvance
<1>7. CASE Collect(r)
  <2>1. UNCHANGED orders /\ pc'[r] = "done" /\ invoiced' = [invoiced EXCEPT ![seen[r].invoice].paid = @ + call[r].amount]
        /\ Collecting(r)
    BY <1>7, AnswerFacts DEF Collect, Collecting
  <2>2. PICK o, v : o = call[r].id /\ v = seen[r].invoice
    OBVIOUS
  <2>3. o \in DOMAIN orders /\ v = orders[o].invoice /\ v \in DOMAIN invoiced /\ v[2] = o /\ DOMAIN invoiced[v] = {"total", "paid"}
    BY <1>0, <2>1, <2>2 DEF Known, Linked
  <2>4. invoiced'[v].paid = invoiced[v].paid + call[r].amount /\ \A w \in DOMAIN invoiced : w # v => invoiced'[w] = invoiced[w]
    BY <2>1, <2>2, <2>3
  <2>5. Unrevised(o) => orders[o].advance = invoiced[v].paid + call[r].amount
    BY <2>1, <2>2, <2>3 DEF AgreeInv, Ahead
  <2>6. Agrees(o)' /\ ~Collecting(r)'
    BY <2>1, <2>3, <2>4, <2>5 DEF Agrees, Unrevised, Asked, Collecting, At
  <2>7. QED
    BY <1>0, <2>1, <2>2, <2>3, <2>4, <2>6, AgreeWritten
<1>8. CASE SetOrderStatus(r) \/ UpdateOrder(r) \/ RemoveOrder(r)
  <2>1. pc[r] = "write" /\ pc'[r] \in {"done", "refused"} /\ UNCHANGED invoiced
    BY <1>8, AnswerFacts DEF SetOrderStatus, UpdateOrder, RemoveOrder, At
  <2>2. ~Collecting(r) /\ ~Collecting(r)'
    BY <2>1 DEF Collecting, At
  <2>3. PICK o : o = call[r].id
    OBVIOUS
  <2>4. DOMAIN orders' \subseteq DOMAIN orders /\ \A p \in DOMAIN orders' : p # o => orders'[p] = orders[p]
    BY <1>8, <2>3 DEF SetOrderStatus, UpdateOrder, RemoveOrder, Without
  <2>5. o \in DOMAIN orders' => Agrees(o)'
    <3> SUFFICES ASSUME o \in DOMAIN orders' PROVE Agrees(o)'
      OBVIOUS
    <3>0. o \in DOMAIN orders
      BY <2>4
    <3>1. \A s \in Requests : ~Collecting(s)
      BY <1>0, <2>2, AloneFacts
    <3>2. Agrees(o)
      BY <3>0, <3>1 DEF AgreeInv
    <3>3. CASE UNCHANGED orders
      BY <2>1, <3>2, <3>3 DEF Agrees, Unrevised, Asked
    <3>4. CASE SetOrderStatus(r) /\ ~(UNCHANGED orders)
      <4>1. /\ At(r, {"orderStatus"}, "write")
            /\ orders' = [orders EXCEPT ![o].advance = IF call[r].advance = Kept THEN seen[r].advance ELSE call[r].advance]
        BY <2>3, <3>4 DEF SetOrderStatus
      <4>2. Unrevised(o) => call[r].advance = Kept
        BY <2>3, <4>1 DEF Unrevised, Asked, At
      <4>3. seen[r].advance = orders[o].advance
        BY <1>0, <2>3, <4>1 DEF Known, At
      <4>4. orders'[o].invoice = orders[o].invoice /\ (Unrevised(o) => orders'[o].advance = orders[o].advance)
        BY <1>a, <3>0, <4>1, <4>2, <4>3 DEF OrderFields
      <4>5. QED
        BY <2>1, <3>2, <4>4 DEF Agrees, Unrevised, Asked
    <3>5. CASE UpdateOrder(r)
      <4>1. ~Unrevised(o)'
        BY <2>3, <3>5 DEF UpdateOrder, At, Unrevised, Asked
      <4>2. QED
        BY <4>1 DEF Agrees
    <3>6. CASE RemoveOrder(r) /\ ~(UNCHANGED orders)
      <4>1. orders' = Without(orders, o)
        BY <2>3, <3>6 DEF RemoveOrder
      <4>2. QED
        BY <4>1 DEF Without
    <3>7. QED
      BY <1>8, <3>3, <3>4, <3>5, <3>6
  <2>6. QED
    BY <1>0, <2>1, <2>2, <2>4, <2>5, AgreeWritten
<1>9. CASE LinkInvoice(r)
  <2>0. PICK o, row : o = seen[r].order /\ row = seen[r].orphans[o]
    OBVIOUS
  <2>1. At(r, {"migrateOrders"}, "link") /\ Migrating(r) /\ ~Collecting(r) /\ ~Collecting(r)'
    BY <1>9 DEF LinkInvoice, At, Migrating, Collecting
  <2>2. /\ o \in DOMAIN seen[r].orphans /\ o \in DOMAIN orders /\ row = orders[o] /\ orders[o].invoice = NoInvoice
    BY <1>0, <2>0, <2>1 DEF Known, At
  <2>3. /\ invoiced' = Put(invoiced, <<r, o>>, [total |-> row.price, paid |-> row.advance])
        /\ orders' = [orders EXCEPT ![o].invoice = <<r, o>>]
    BY <1>9, <2>0, <2>2 DEF LinkInvoice
  <2>4. PICK v : v = <<r, o>>
    OBVIOUS
  <2>5. v[2] = o
    BY <2>4
  <2>6. invoiced'[v].paid = row.advance /\ \A w \in DOMAIN invoiced : w # v => invoiced'[w] = invoiced[w]
    BY <2>3, <2>4 DEF Put
  <2>7. /\ DOMAIN orders' = DOMAIN orders /\ orders'[o].invoice = v /\ orders'[o].advance = orders[o].advance
        /\ \A p \in DOMAIN orders : p # o => orders'[p] = orders[p]
    BY <1>a, <2>2, <2>3, <2>4 DEF OrderFields
  <2>8. Agrees(o)'
    BY <2>2, <2>6, <2>7 DEF Agrees
  <2>9. \A w \in DOMAIN invoiced : w[2] # o => invoiced'[w].paid = invoiced[w].paid
    BY <2>5, <2>6
  <2>10. QED
    BY <1>0, <2>1, <2>7, <2>8, <2>9, AgreeWritten
<1>10. QED
  BY <1>1, <1>2, <1>3, <1>4, <1>5, <1>6, <1>7, <1>8, <1>9 DEF TailorStep

LEMMA AgreeStart == Init => AgreeInv
<1> SUFFICES ASSUME Init PROVE AgreeInv
  OBVIOUS
<1>1. orders = OldOrders /\ \A r \in Requests : ~Collecting(r)
  BY DEF Init, TailorInit, ServerInit, Collecting, At
<1>2. QED
  BY <1>1, OrdersAssumption DEF AgreeInv, Agrees, Ahead

LEMMA AgreeNext ==
  ASSUME ServerInv, AloneInv, AdvanceInv, LinkInv, AgreeInv, [Next]_vars
  PROVE  AgreeInv'
<1>0. UNCHANGED scene /\ LinkInv'
  BY RestartFacts, LinkNext DEF Next, vars, serverVars, Clock
<1> SUFFICES ASSUME Quiet, Quiet' PROVE AgreeInv'
  BY <1>0 DEF AgreeInv, Quiet, Apart
<1>a. /\ \A o \in DOMAIN orders : Agrees(o) \/ \E r \in Requests : Collecting(r) /\ call[r].id = o
      /\ \A r \in Requests : Ahead(r)
  BY DEF AgreeInv
<1>1. CASE UNCHANGED <<pc, call, tailor>>
  <2>1. UNCHANGED <<orders, invoiced>> /\ \A r \in Requests : Collecting(r)' <=> Collecting(r)
    BY <1>1 DEF tailor, Collecting, At
  <2>2. (\A o : Agrees(o)' <=> Agrees(o)) /\ \A r \in Requests : Ahead(r)' <=> Ahead(r)
    BY <1>1, <2>1 DEF Agrees, Ahead, Unrevised, Asked
  <2>3. QED
    BY <1>1, <1>a, <2>1, <2>2 DEF AgreeInv
<1>2. ASSUME NEW r \in Requests, Request(r) PROVE AgreeInv'
  <2>1. CASE Arrive(r) /\ UNCHANGED tables
    <3>1. /\ Moves(r) /\ pc'[r] = "start" /\ pc[r] = "idle" /\ call[r] = NoCall
          /\ \A s \in Requests \ {r} : call'[s] = call[s]
      BY <2>1, ArriveFacts
    <3>2. UNCHANGED <<orders, invoiced>>
      BY <2>1 DEF tables, tailor
    <3>3. \A s \in Requests : /\ Collecting(s)' <=> Collecting(s)
                              /\ Collecting(s) => call'[s] = call[s]
      BY <3>1 DEF Collecting, At, Moves
    <3>4. \A o : Unrevised(o)' => Unrevised(o)
      BY <3>1 DEF Unrevised, Asked, NoCall
    <3>5. \A o : Agrees(o) => Agrees(o)'
      BY <3>2, <3>4 DEF Agrees
    <3>6. \A s \in Requests : Ahead(s)'
      BY <1>a, <3>2, <3>3, <3>4 DEF Ahead
    <3>7. QED
      BY <1>a, <3>2, <3>3, <3>5, <3>6 DEF AgreeInv
  <2>2. CASE Fail(r)
    BY <2>2 DEF Fail, Quiet
  <2>3. CASE TailorStep(r) /\ UNCHANGED call
    BY <1>0, <2>3, TailorStepAgrees
  <2>4. CASE UNCHANGED <<call, tailor>> /\ Moves(r) /\ r \in InFlight /\ call[r].op \notin TailorOps
    <3>1. Alone(r) /\ ~Collecting(r) /\ ~Collecting(r)'
      BY <2>4 DEF Alone, Making, TailorOps, Collecting, At, Quiet
    <3>2. QED
      BY <2>4, <3>1, AgreeKept DEF tailor
  <2>5. QED
    BY <1>2, <2>1, <2>2, <2>3, <2>4, Disjoint, RequestCases
<1>3. CASE Restart
  BY <1>3, RestartFacts DEF Quiet
<1>4. QED
  BY <1>1, <1>2, <1>3 DEF Next, Clock, vars, serverVars, tailor

(* No invoice without its order: what the count of the orders numbers is   *)
(* the number of none, as long as no order is deleted.                     *)
Numbered ==
  /\ IsFiniteSet(DOMAIN orders)
  /\ \A o \in DOMAIN orders : orders[o].number \in Nat /\ orders[o].number <= Cardinality(DOMAIN orders)
  /\ \A r \in Requests : Making(r, {"number", "sheet", "invoice", "order"}) => seen[r].number = Cardinality(DOMAIN orders) + 1

Paired == \A v \in DOMAIN invoiced : v[2] \in DOMAIN orders \/ (v[2] \in Requests /\ Making(v[2], {"order"}))

PairInv == Quiet /\ NoneDeleted => Numbered /\ Paired

NumberSteps == {"number", "sheet", "invoice", "order"}

(* A step that makes no order.                                             *)
LEMMA PairKept ==
  ASSUME ServerInv, AloneInv, NEW r, Alone(r), Numbered, Paired,
         DOMAIN orders' = DOMAIN orders, \A o \in DOMAIN orders : orders'[o].number = orders[o].number,
         Making(r, NumberSteps)' => seen'[r].number = Cardinality(DOMAIN orders) + 1,
         ~Making(r, {"order"}),
         \A v \in DOMAIN invoiced' : v \in DOMAIN invoiced \/ v[2] \in DOMAIN orders \/ (v[2] = r /\ Making(r, {"order"})')
  PROVE  Numbered' /\ Paired'
<1>0. r \in Requests /\ Moves(r) /\ UNCHANGED call
  BY DEF Alone
<1>1. \A s \in Requests \ {r} : /\ \A l : Making(s, l)' <=> Making(s, l)
                                /\ seen'[s] = seen[s]
  BY <1>0, AloneFacts DEF Moves
<1>2. Numbered'
  BY <1>0, <1>1 DEF Numbered, NumberSteps
<1>3. Paired'
  BY <1>0, <1>1 DEF Paired
<1>4. QED
  BY <1>2, <1>3

LEMMA TailorStepPairs ==
  ASSUME ServerInv, AloneInv, AdvanceInv, LinkInv, NEW r \in Requests, TailorStep(r), UNCHANGED call,
         Quiet, Quiet', NoneDeleted, Numbered, Paired
  PROVE  Numbered' /\ Paired'
<1>0. Alone(r) /\ Known(r) /\ Linked /\ Apart /\ Apart'
  BY TailorAlone DEF LinkInv, Quiet
<1>a. \A o \in DOMAIN orders : DOMAIN orders[o] = OrderFields /\ Ordered(o)
  BY DEF AdvanceInv, OrderFits
<1>b. ASSUME DOMAIN orders' = DOMAIN orders, \A o \in DOMAIN orders : orders'[o].number = orders[o].number,
             DOMAIN invoiced' = DOMAIN invoiced, call[r].op # "createOrder"
      PROVE  Numbered' /\ Paired'
  <2>1. \A l : ~Making(r, l) /\ ~Making(r, l)'
    BY <1>0, <1>b DEF Making
  <2>2. QED
    BY <1>0, <1>b, <2>1, PairKept
<1>1. CASE FindParent(r) \/ CreateSheet(r) \/ FindSheet(r) \/ UpdateSheet(r) \/ FindOrder(r)
           \/ ListOrphans(r) \/ DrawMigrationNumber(r) \/ SkipOrphan(r) \/ EndMigration(r)
  <2>1. UNCHANGED <<orders, invoiced>> /\ call[r].op # "createOrder"
    BY <1>1 DEF FindParent, CreateSheet, FindSheet, UpdateSheet, FindOrder, ListOrphans, DrawMigrationNumber, SkipOrphan,
                EndMigration, At, tailor
  <2>2. QED
    BY <1>b, <2>1
<1>2. CASE RemoveSheet(r)
  <2>1. UNCHANGED invoiced /\ call[r].op = "removeSheet"
    BY <1>2 DEF RemoveSheet, At
  <2>2. \/ UNCHANGED orders
        \/ \E gone : orders' = [o \in DOMAIN orders |->
             IF orders[o].sheet \in gone THEN [orders[o] EXCEPT !.sheet = NoSheet] ELSE orders[o]]
    BY <1>2 DEF RemoveSheet
  <2>3. DOMAIN orders' = DOMAIN orders /\ \A o \in DOMAIN orders : orders'[o].number = orders[o].number
    BY <1>a, <2>2 DEF OrderFields
  <2>4. QED
    BY <1>b, <2>1, <2>3
<1>3. CASE PayAdvance(r) \/ SetOrderStatus(r) \/ UpdateOrder(r)
  <2>1. UNCHANGED invoiced /\ call[r].op # "createOrder"
    BY <1>3 DEF PayAdvance, SetOrderStatus, UpdateOrder, At
  <2>2. DOMAIN orders' = DOMAIN orders /\ \A o \in DOMAIN orders : orders'[o].number = orders[o].number
    BY <1>a, <1>3 DEF PayAdvance, SetOrderStatus, UpdateOrder, OrderFields
  <2>3. QED
    BY <1>b, <2>1, <2>2
<1>4. CASE Collect(r)
  BY <1>b, <1>4 DEF Collect, At
<1>5. CASE RemoveOrder(r)
  BY <1>5 DEF RemoveOrder, At, NoneDeleted
<1>6. CASE CountOrders(r) \/ DrawInvoiceNumber(r) \/ CheckSheet(r)
  <2>1. UNCHANGED <<orders, invoiced>> /\ call[r].op = "createOrder" /\ pc[r] \in {"start", "number", "sheet"}
    BY <1>6 DEF CountOrders, DrawInvoiceNumber, CheckSheet, At, tailor
  <2>2. \/ seen'[r].number = Cardinality(DOMAIN orders) + 1
        \/ pc[r] # "start" /\ seen' = seen
        \/ pc'[r] = "refused"
    <3>1. CASE CountOrders(r)
      BY <3>1, KeepFacts DEF CountOrders
    <3>2. CASE DrawInvoiceNumber(r)
      BY <3>2, GotoFacts DEF DrawInvoiceNumber, At
    <3>3. CASE CheckSheet(r)
      BY <3>3, GotoFacts, AnswerFacts DEF CheckSheet, At
    <3>4. QED
      BY <1>6, <3>1, <3>2, <3>3
  <2>3. Making(r, NumberSteps)' => seen'[r].number = Cardinality(DOMAIN orders) + 1
    BY <2>1, <2>2 DEF Making, NumberSteps, Numbered
  <2>4. ~Making(r, {"order"})
    BY <2>1 DEF Making
  <2>5. QED
    BY <1>0, <2>1, <2>3, <2>4, PairKept
<1>7. CASE CreateOrderInvoice(r)
  <2>1. /\ UNCHANGED orders /\ call[r].op = "createOrder" /\ pc[r] = "invoice"
        /\ invoiced' = Put(invoiced, <<r, r>>, [total |-> call[r].price, paid |-> call[r].advance])
    BY <1>7 DEF CreateOrderInvoice, At
  <2>2. pc'[r] = "order" /\ seen' = seen
    BY <1>7, GotoFacts DEF CreateOrderInvoice
  <2>3. PICK v : v = <<r, r>>
    OBVIOUS
  <2>4. v[2] = r /\ DOMAIN invoiced' = DOMAIN invoiced \cup {v}
    BY <2>1, <2>3 DEF Put
  <2>5. Making(r, {"order"})' /\ ~Making(r, {"order"})
    BY <2>1, <2>2 DEF Making
  <2>6. seen'[r].number = Cardinality(DOMAIN orders) + 1
    BY <2>1, <2>2 DEF Numbered, Making
  <2>7. \A w \in DOMAIN invoiced' : w \in DOMAIN invoiced \/ (w[2] = r /\ Making(r, {"order"})')
    BY <2>4, <2>5
  <2>8. QED
    BY <1>0, <2>1, <2>5, <2>6, <2>7, PairKept
<1>8. CASE CreateOrder(r)
  <2>1. call[r].op = "createOrder" /\ pc[r] = "order" /\ UNCHANGED invoiced
    BY <1>8 DEF CreateOrder, At
  <2>2. ParentFits(call[r].sheet) /\ seen[r].number = Cardinality(DOMAIN orders) + 1 /\ r \notin DOMAIN orders
    BY <1>0, <1>a, <2>1, OrdersAssumption DEF Known, Making, Numbered, Ordered
  <2>3. Cardinality(DOMAIN orders) \in Nat /\ IsFiniteSet(DOMAIN orders)
    BY FS_CardinalityType DEF Numbered
  <2>4. \A o \in DOMAIN orders : orders[o].number # seen[r].number
    BY <2>2, <2>3 DEF Numbered
  <2>5. /\ orders' = Put(orders, r,
              [number |-> seen[r].number, price |-> call[r].price, advance |-> call[r].advance,
               sheet |-> call[r].sheet, invoice |-> <<r, r>>])
        /\ Answer(r, "done")
    BY <1>8, <2>2, <2>4 DEF CreateOrder
  <2>6. /\ DOMAIN orders' = DOMAIN orders \cup {r} /\ orders'[r].number = Cardinality(DOMAIN orders) + 1
        /\ \A o \in DOMAIN orders : orders'[o] = orders[o]
    BY <2>2, <2>5 DEF Put
  <2>7. Cardinality(DOMAIN orders') = Cardinality(DOMAIN orders) + 1 /\ IsFiniteSet(DOMAIN orders')
    <3>1. Cardinality(DOMAIN orders \cup {r}) = Cardinality(DOMAIN orders) + 1 /\ IsFiniteSet(DOMAIN orders \cup {r})
      BY <2>2, <2>3, FS_AddElement
    <3>2. QED
      BY <2>6, <3>1
  <2>8. pc'[r] = "done"
    BY <2>5, AnswerFacts
  <2>9. \A s \in Requests : ~Making(s, NumberSteps)'
    <3>1. \A s \in Requests \ {r} : pc'[s] = pc[s] /\ s \notin InFlight
      BY <1>0 DEF Alone, Moves, AloneInv
    <3>2. QED
      BY <2>8, <3>1 DEF Making, NumberSteps, InFlight, Ended
  <2>10. \A o \in DOMAIN orders' : orders'[o].number \in Nat /\ orders'[o].number <= Cardinality(DOMAIN orders')
    BY <2>3, <2>6, <2>7 DEF Numbered
  <2>11. Numbered'
    BY <2>7, <2>9, <2>10 DEF Numbered, NumberSteps
  <2>12. ASSUME NEW v \in DOMAIN invoiced PROVE v[2] \in DOMAIN orders'
    <3>1. CASE v[2] \in DOMAIN orders
      BY <2>6, <3>1
    <3>2. CASE v[2] \in Requests /\ Making(v[2], {"order"})
      <4>1. v[2] \in InFlight
        BY <3>2 DEF Making, InFlight, Ended
      <4>2. v[2] = r
        BY <1>0, <4>1 DEF AloneInv, Alone
      <4>3. QED
        BY <2>6, <4>2
    <3>3. QED
      BY <3>1, <3>2 DEF Paired
  <2>13. Paired'
    BY <2>1, <2>12 DEF Paired
  <2>14. QED
    BY <2>11, <2>13
<1>9. CASE LinkInvoice(r)
  <2>0. PICK o, row : o = seen[r].order /\ row = seen[r].orphans[o]
    OBVIOUS
  <2>1. At(r, {"migrateOrders"}, "link") /\ Migrating(r) /\ \A l : ~Making(r, l) /\ ~Making(r, l)'
    BY <1>0, <1>9 DEF LinkInvoice, At, Migrating, Making
  <2>2. o \in DOMAIN orders
    BY <1>0, <2>0, <2>1 DEF Known
  <2>3. /\ invoiced' = Put(invoiced, <<r, o>>, [total |-> row.price, paid |-> row.advance])
        /\ orders' = [orders EXCEPT ![o].invoice = <<r, o>>]
    BY <1>9, <2>0, <2>2 DEF LinkInvoice
  <2>4. PICK v : v = <<r, o>>
    OBVIOUS
  <2>5. v[2] = o /\ DOMAIN invoiced' = DOMAIN invoiced \cup {v}
    BY <2>3, <2>4 DEF Put
  <2>6. DOMAIN orders' = DOMAIN orders /\ \A p \in DOMAIN orders : orders'[p].number = orders[p].number
    BY <1>a, <2>2, <2>3 DEF OrderFields
  <2>7. \A w \in DOMAIN invoiced' : w \in DOMAIN invoiced \/ w[2] \in DOMAIN orders
    BY <2>2, <2>5
  <2>8. QED
    BY <1>0, <2>1, <2>6, <2>7, PairKept
<1>10. QED
  BY <1>1, <1>2, <1>3, <1>4, <1>5, <1>6, <1>7, <1>8, <1>9 DEF TailorStep

LEMMA PairStart == Init => PairInv
<1> SUFFICES ASSUME Init, NoneDeleted PROVE Numbered /\ Paired
  BY DEF PairInv
<1>1. DOMAIN invoiced = {} /\ orders = OldOrders /\ pc = [r \in Requests |-> "idle"]
  BY DEF Init, TailorInit, ServerInit
<1>2. Numbered
  BY <1>1, OrdersAssumption DEF Numbered, Making, NoneDeleted, OrderRow
<1>3. QED
  BY <1>1, <1>2 DEF Paired

LEMMA PairNext ==
  ASSUME ServerInv, AloneInv, AdvanceInv, LinkInv, PairInv, [Next]_vars
  PROVE  PairInv'
<1>0. UNCHANGED scene
  BY RestartFacts DEF Next, vars, serverVars, Clock
<1>1. Recalls
  BY ArriveFacts, RequestCases, FailFacts, RestartFacts DEF Recalls, Next, vars, serverVars, Clock
<1>2. NoneDeleted' => NoneDeleted
  BY <1>1 DEF NoneDeleted, Recalls, NoCall
<1> SUFFICES ASSUME Quiet, Quiet', NoneDeleted PROVE Numbered' /\ Paired'
  BY <1>0, <1>2 DEF PairInv, Quiet, Apart
<1>a. Numbered /\ Paired
  BY DEF PairInv
<1>3. CASE UNCHANGED <<pc, call, seen, tailor>>
  BY <1>3, <1>a DEF tailor, Numbered, Paired, Making
<1>4. ASSUME NEW r \in Requests, Request(r) PROVE Numbered' /\ Paired'
  <2>1. CASE Arrive(r) /\ UNCHANGED tables
    <3>1. /\ Moves(r) /\ pc'[r] = "start" /\ pc[r] = "idle" /\ seen' = seen
          /\ \A s \in Requests \ {r} : call'[s] = call[s]
      BY <2>1, ArriveFacts
    <3>2. UNCHANGED <<orders, invoiced>>
      BY <2>1 DEF tables, tailor
    <3>3. \A s \in Requests : /\ Making(s, {"order"})' <=> Making(s, {"order"})
                              /\ Making(s, NumberSteps)' <=> Making(s, NumberSteps)
      BY <3>1 DEF Making, NumberSteps, Moves
    <3>4. QED
      BY <1>a, <3>1, <3>2, <3>3 DEF Numbered, Paired, NumberSteps
  <2>2. CASE Fail(r)
    BY <2>2 DEF Fail, Quiet
  <2>3. CASE TailorStep(r) /\ UNCHANGED call
    BY <1>a, <2>3, TailorStepPairs
  <2>4. CASE UNCHANGED <<call, tailor>> /\ Moves(r) /\ r \in InFlight /\ call[r].op \notin TailorOps
    <3>1. Alone(r) /\ \A l : ~Making(r, l) /\ ~Making(r, l)'
      BY <2>4 DEF Alone, Making, TailorOps, Quiet
    <3>2. QED
      BY <1>a, <2>4, <3>1, PairKept DEF tailor
  <2>5. QED
    BY <1>4, <2>1, <2>2, <2>3, <2>4, Disjoint, RequestCases
<1>5. CASE Restart
  BY <1>5, RestartFacts DEF Quiet
<1>6. QED
  BY <1>3, <1>4, <1>5 DEF Next, Clock, vars, serverVars, tailor

(* Of requests that do not overlap, an order never has two invoices,       *)
(* whatever fails half way; and when none fails either, the orders and     *)
(* their invoices agree between requests on what was paid, and no invoice  *)
(* is without its order unless orders are deleted                          *)
(* (tailleur-measurement.service.ts:206-217, 243-271).                     *)
THEOREM OrdersMatchInvoices == Spec => []OrderInvoiceAgree
<1>1. AloneInv /\ LinkInv /\ AgreeInv /\ PairInv => OrderInvoiceAgree
  <2> SUFFICES ASSUME LinkInv, AgreeInv, PairInv PROVE OrderInvoiceAgree
    OBVIOUS
  <2>1. Apart => Linked
    BY DEF LinkInv
  <2>2. ASSUME Quiet, InFlight = {}
        PROVE  /\ \A o \in DOMAIN orders : orders[o].invoice # NoInvoice /\ Unrevised(o) =>
                    invoiced[orders[o].invoice].paid = orders[o].advance
               /\ NoneDeleted => \A v \in DOMAIN invoiced : v[2] \in DOMAIN orders /\ orders[v[2]].invoice = v
    <3>1. \A r \in Requests : ~Collecting(r) /\ ~Making(r, {"order"})
      BY <2>2 DEF Collecting, Making, At, InFlight, Ended
    <3>2. \A o \in DOMAIN orders : Agrees(o)
      BY <2>2, <3>1 DEF AgreeInv
    <3>3. NoneDeleted => \A v \in DOMAIN invoiced : v[2] \in DOMAIN orders
      BY <2>2, <3>1 DEF PairInv, Paired
    <3>4. QED
      BY <2>1, <2>2, <3>2, <3>3 DEF Agrees, Linked, Quiet
  <2>3. QED
    BY <2>1, <2>2 DEF OrderInvoiceAgree, Linked
<1>2. Init => ServerInv /\ AloneInv /\ AdvanceInv /\ LinkInv /\ AgreeInv /\ PairInv
  BY ServerStart, AloneStart, AdvanceStart, LinkStart, AgreeStart, PairStart
<1>3. ServerInv /\ AloneInv /\ AdvanceInv /\ LinkInv /\ AgreeInv /\ PairInv /\ [Next]_vars
        => (ServerInv /\ AloneInv /\ AdvanceInv /\ LinkInv /\ AgreeInv /\ PairInv)'
  BY ServerStep, AloneStep, AdvanceNext, LinkNext, AgreeNext, PairNext
<1>4. QED
  BY <1>1, <1>2, <1>3, PTL DEF Spec

-----------------------------------------------------------------------------
(* Types and foreign keys of the tailor's tables, of the codes and of the  *)
(* providers.                                                              *)
TailorReads(r) ==
  /\ call[r].op = "createOrder" /\ pc[r] \in {"number", "sheet", "invoice", "order"} => seen[r].number \in Nat
  /\ call[r].op \in {"payOrder", "orderStatus"} /\ pc[r] = "write" => seen[r].advance \in Nat
  /\ call[r].op = "migrateOrders" /\ pc[r] \in {"number", "link"} =>
       \A o \in DOMAIN seen[r].orphans :
         o \in OrderIds /\ seen[r].orphans[o].price \in Nat /\ seen[r].orphans[o].advance \in Nat
  /\ call[r].op = "migrateOrders" /\ pc[r] = "link" => seen[r].order \in DOMAIN seen[r].orphans

TailorTypesInv == TailorTypeOK /\ \A r \in Requests : TailorReads(r)

(* What the calls of the tailor take.                                      *)
LEMMA TailorFields ==
  ASSUME NEW c \in TailorCalls
  PROVE  /\ c.op = "createSheet" => c.parent \in SheetIds \cup {NoSheet}
         /\ c.op = "createOrder" => c.price \in Nat /\ c.advance \in Nat /\ c.sheet \in SheetIds \cup {NoSheet}
         /\ c.op = "payOrder" => c.amount \in Nat
         /\ c.op = "orderStatus" => c.advance \in Nat \cup {Kept}
         /\ c.op = "updateOrder" => c.price \in Nat /\ c.advance \in Nat \cup {Kept}
BY DEF TailorCalls

LEMMA OrderIdsFinite == ASSUME TailorTypeOK PROVE Cardinality(DOMAIN orders) \in Nat
<1>1. IsFiniteSet(OrderIds)
  BY OrdersAssumption, RequestsAssumption, FS_Union DEF OrderIds
<1>2. QED
  BY <1>1, FS_Subset, FS_CardinalityType DEF TailorTypeOK

LEMMA TailorReadsKept ==
  ASSUME NEW s, TailorReads(s), pc'[s] = pc[s], call'[s] = call[s], seen'[s] = seen[s]
  PROVE  TailorReads(s)'
BY DEF TailorReads

LEMMA TailorReadsNothing ==
  ASSUME NEW r
  PROVE  /\ pc'[r] \in Ended \cup {"idle", "start"} => TailorReads(r)'
         /\ call'[r].op \notin {"createOrder", "payOrder", "orderStatus", "migrateOrders"} => TailorReads(r)'
BY DEF TailorReads, Ended

LEMMA TailorTypesKept ==
  ASSUME TailorTypesInv, NEW r \in Requests, Moves(r), \A s \in Requests \ {r} : call'[s] = call[s],
         TailorTypeOK', TailorReads(r)'
  PROVE  TailorTypesInv'
BY TailorReadsKept DEF TailorTypesInv, Moves

(* An order is written that is still a row and names a sheet on file.      *)
LEMMA OrderWritten ==
  ASSUME TailorTypeOK, NEW o \in DOMAIN orders, NEW v \in OrderRow, v.sheet \in DOMAIN sheets \cup {NoSheet},
         orders' = [orders EXCEPT ![o] = v]
  PROVE  /\ orders' \in [DOMAIN orders' -> OrderRow] /\ DOMAIN orders' = DOMAIN orders
         /\ \A q \in DOMAIN orders' : orders'[q].sheet \in DOMAIN sheets \cup {NoSheet}
<1>1. /\ DOMAIN orders' = DOMAIN orders /\ orders' \in [DOMAIN orders -> OrderRow]
      /\ \A q \in DOMAIN orders : orders'[q] = IF q = o THEN v ELSE orders[q]
  BY DEF TailorTypeOK
<1>2. QED
  BY <1>1 DEF TailorTypeOK

LEMMA FieldsTyped ==
  ASSUME NEW w \in OrderRow, NEW n \in Nat, NEW m \in Nat, NEW v \in InvoiceIds
  PROVE  /\ [w EXCEPT !.advance = n] \in OrderRow /\ [w EXCEPT !.advance = n].sheet = w.sheet
         /\ [w EXCEPT !.price = m] \in OrderRow /\ [w EXCEPT !.price = m].sheet = w.sheet
         /\ [w EXCEPT !.invoice = v] \in OrderRow /\ [w EXCEPT !.invoice = v].sheet = w.sheet
BY DEF OrderRow

LEMMA InvoicedTyped ==
  ASSUME TailorTypeOK, NEW v \in InvoiceIds, NEW t \in Nat, NEW p \in Nat
  PROVE  /\ Put(invoiced, v, [total |-> t, paid |-> p]) \in
              [DOMAIN invoiced \cup {v} -> [total : Nat, paid : Nat]]
         /\ DOMAIN Put(invoiced, v, [total |-> t, paid |-> p]) = DOMAIN invoiced \cup {v}
<1>1. [total |-> t, paid |-> p] \in [total : Nat, paid : Nat]
  OBVIOUS
<1>2. QED
  BY <1>1 DEF TailorTypeOK, Put

LEMMA SheetStepTyped ==
  ASSUME ServerInv, TailorTypesInv, NEW r \in Requests, call[r] \in TailorCalls, UNCHANGED call,
         FindParent(r) \/ CreateSheet(r) \/ FindSheet(r) \/ UpdateSheet(r) \/ RemoveSheet(r)
  PROVE  TailorTypeOK'
<1>0. TailorTypeOK
  BY DEF TailorTypesInv
<1>1. CASE UNCHANGED tailor
  BY <1>0, <1>1 DEF tailor, TailorTypeOK
<1>2. CASE CreateSheet(r)
  <2>1. call[r].parent \in SheetIds \cup {NoSheet}
    BY <1>2, TailorFields DEF CreateSheet, At
  <2>2. CASE UNCHANGED sheets
    BY <1>1, <1>2, <2>2 DEF CreateSheet, tailor
  <2>3. CASE ParentFits(call[r].parent) /\ sheets' = Put(sheets, r, call[r].parent)
    <3>1. /\ DOMAIN sheets' = DOMAIN sheets \cup {r}
          /\ \A s \in DOMAIN sheets' : sheets'[s] = IF s = r THEN call[r].parent ELSE sheets[s]
      BY <2>3 DEF Put
    <3>2. sheets' \in [DOMAIN sheets' -> SheetIds \cup {NoSheet}]
      BY <1>0, <2>1, <2>3 DEF Put, TailorTypeOK
    <3>3. DOMAIN sheets' \subseteq SheetIds /\ \A s \in DOMAIN sheets' : sheets'[s] \in DOMAIN sheets' \cup {NoSheet}
      BY <1>0, <2>3, <3>1 DEF TailorTypeOK, ParentFits, SheetIds
    <3>4. UNCHANGED <<orders, invoiced, sequence>>
      BY <1>2 DEF CreateSheet
    <3>5. QED
      BY <1>0, <3>1, <3>2, <3>3, <3>4 DEF TailorTypeOK
  <2>4. QED
    BY <1>2, <2>2, <2>3 DEF CreateSheet
<1>3. CASE UpdateSheet(r)
  <2>1. \/ UNCHANGED sheets
        \/ {call[r].id, call[r].parent} \subseteq DOMAIN sheets /\ sheets' = [sheets EXCEPT ![call[r].id] = call[r].parent]
    BY <1>3 DEF UpdateSheet
  <2>2. UNCHANGED <<orders, invoiced, sequence>>
    BY <1>3 DEF UpdateSheet
  <2>3. /\ DOMAIN sheets' = DOMAIN sheets /\ sheets' \in [DOMAIN sheets -> SheetIds \cup {NoSheet}]
        /\ \A s \in DOMAIN sheets : sheets'[s] \in DOMAIN sheets \cup {NoSheet}
    BY <1>0, <2>1 DEF TailorTypeOK
  <2>4. QED
    BY <1>0, <2>2, <2>3 DEF TailorTypeOK
<1>4. CASE RemoveSheet(r)
  <2>1. PICK gone : gone = Family(call[r].id)
    OBVIOUS
  <2>2. CASE UNCHANGED <<sheets, orders>>
    BY <1>1, <1>4, <2>2 DEF RemoveSheet, tailor
  <2>3. CASE /\ sheets' = [s \in DOMAIN sheets \ gone |-> sheets[s]]
             /\ orders' = [o \in DOMAIN orders |->
                  IF orders[o].sheet \in gone THEN [orders[o] EXCEPT !.sheet = NoSheet] ELSE orders[o]]
    <3>1. \A s \in DOMAIN sheets : sheets[s] \in gone => s \in gone
      BY <2>1 DEF Family
    <3>2. DOMAIN sheets' = DOMAIN sheets \ gone /\ \A s \in DOMAIN sheets' : sheets'[s] = sheets[s]
      BY <2>3
    <3>3. sheets' \in [DOMAIN sheets' -> SheetIds \cup {NoSheet}]
      BY <1>0, <2>3 DEF TailorTypeOK
    <3>4. \A s \in DOMAIN sheets' : sheets'[s] \in DOMAIN sheets' \cup {NoSheet}
      BY <1>0, <3>1, <3>2 DEF TailorTypeOK
    <3>5. \A v \in OrderRow : [v EXCEPT !.sheet = NoSheet] \in OrderRow /\ [v EXCEPT !.sheet = NoSheet].sheet = NoSheet
      BY DEF OrderRow
    <3>6. /\ DOMAIN orders' = DOMAIN orders
          /\ \A o \in DOMAIN orders : orders'[o] \in OrderRow /\ orders'[o].sheet \in DOMAIN sheets' \cup {NoSheet}
      <4>1. SUFFICES ASSUME NEW o \in DOMAIN orders
                     PROVE  orders'[o] \in OrderRow /\ orders'[o].sheet \in DOMAIN sheets' \cup {NoSheet}
        BY <2>3
      <4>2. orders[o] \in OrderRow /\ orders[o].sheet \in DOMAIN sheets \cup {NoSheet}
        BY <1>0 DEF TailorTypeOK
      <4>3. orders'[o] = IF orders[o].sheet \in gone THEN [orders[o] EXCEPT !.sheet = NoSheet] ELSE orders[o]
        BY <2>3
      <4>4. QED
        BY <3>2, <3>5, <4>2, <4>3
    <3>7. orders' \in [DOMAIN orders' -> OrderRow]
      BY <2>3, <3>6
    <3>8. UNCHANGED <<invoiced, sequence>>
      BY <1>4 DEF RemoveSheet
    <3>9. QED
      BY <1>0, <3>2, <3>3, <3>4, <3>6, <3>7, <3>8 DEF TailorTypeOK
  <2>4. QED
    BY <1>4, <2>1, <2>2, <2>3 DEF RemoveSheet
<1>5. QED
  BY <1>1, <1>2, <1>3, <1>4 DEF FindParent, FindSheet

LEMMA OrderStepTyped ==
  ASSUME ServerInv, TailorTypesInv, NEW r \in Requests, call[r] \in TailorCalls, UNCHANGED call,
         \/ CountOrders(r) \/ DrawInvoiceNumber(r) \/ CheckSheet(r) \/ CreateOrderInvoice(r) \/ CreateOrder(r)
         \/ FindOrder(r) \/ PayAdvance(r) \/ Collect(r) \/ SetOrderStatus(r) \/ UpdateOrder(r) \/ RemoveOrder(r)
  PROVE  TailorTypeOK' /\ TailorReads(r)'
<1>0. TailorTypeOK /\ TailorReads(r)
  BY DEF TailorTypesInv
<1>a. UNCHANGED tailor => TailorTypeOK'
  BY <1>0 DEF tailor, TailorTypeOK
<1>b. pc'[r] \in Ended => TailorReads(r)'
  BY TailorReadsNothing
<1>1. CASE CountOrders(r)
  <2>1. UNCHANGED tailor /\ call[r].op = "createOrder" /\ seen'[r] = [number |-> Cardinality(DOMAIN orders) + 1]
    BY <1>1, KeepFacts DEF CountOrders, At
  <2>2. Cardinality(DOMAIN orders) + 1 \in Nat
    BY <1>0, OrderIdsFinite
  <2>3. QED
    BY <1>a, <2>1, <2>2 DEF TailorReads
<1>2. CASE DrawInvoiceNumber(r) \/ CheckSheet(r) \/ CreateOrderInvoice(r)
  <2>1. /\ call[r].op = "createOrder" /\ pc[r] \in {"number", "sheet", "invoice"}
        /\ pc'[r] = "refused" \/ seen' = seen
    BY <1>2, GotoFacts, AnswerFacts DEF DrawInvoiceNumber, CheckSheet, CreateOrderInvoice, At
  <2>2. TailorReads(r)'
    BY <1>0, <1>b, <2>1 DEF TailorReads, Ended
  <2>3. CASE DrawInvoiceNumber(r)
    BY <1>0, <2>2, <2>3 DEF DrawInvoiceNumber, TailorTypeOK
  <2>4. CASE CheckSheet(r)
    BY <1>a, <2>2, <2>4 DEF CheckSheet
  <2>5. CASE CreateOrderInvoice(r)
    <3>1. call[r].price \in Nat /\ call[r].advance \in Nat /\ <<r, r>> \in InvoiceIds
      BY <2>1, TailorFields DEF InvoiceIds, OrderIds
    <3>2. /\ invoiced' = Put(invoiced, <<r, r>>, [total |-> call[r].price, paid |-> call[r].advance])
          /\ UNCHANGED <<sheets, orders, sequence>>
      BY <2>5 DEF CreateOrderInvoice
    <3>3. /\ invoiced' \in [DOMAIN invoiced \cup {<<r, r>>} -> [total : Nat, paid : Nat]]
          /\ DOMAIN invoiced' = DOMAIN invoiced \cup {<<r, r>>}
      BY <1>0, <3>1, <3>2, InvoicedTyped
    <3>4. QED
      BY <1>0, <2>2, <3>1, <3>2, <3>3 DEF TailorTypeOK
  <2>6. QED
    BY <1>2, <2>3, <2>4, <2>5
<1>3. CASE CreateOrder(r)
  <2>1. call[r].op = "createOrder" /\ pc[r] = "order" /\ pc'[r] \in Ended
    BY <1>3, AnswerFacts DEF CreateOrder, At, Ended
  <2>2. CASE UNCHANGED orders
    BY <1>3, <1>a, <1>b, <2>1, <2>2 DEF CreateOrder, tailor
  <2>3. CASE /\ ParentFits(call[r].sheet)
             /\ orders' = Put(orders, r,
                 [number |-> seen[r].number, price |-> call[r].price, advance |-> call[r].advance,
                  sheet |-> call[r].sheet, invoice |-> <<r, r>>])
    <3>1. PICK v : v = [number |-> seen[r].number, price |-> call[r].price, advance |-> call[r].advance,
                        sheet |-> call[r].sheet, invoice |-> <<r, r>>]
      OBVIOUS
    <3>2. /\ seen[r].number \in Nat /\ call[r].price \in Nat /\ call[r].advance \in Nat
          /\ call[r].sheet \in SheetIds \cup {NoSheet} /\ <<r, r>> \in InvoiceIds
      BY <1>0, <2>1, TailorFields DEF TailorReads, InvoiceIds, OrderIds
    <3>3. v \in OrderRow /\ v.sheet \in DOMAIN sheets \cup {NoSheet}
      BY <2>3, <3>1, <3>2 DEF OrderRow, ParentFits
    <3>4. orders' = Put(orders, r, v) /\ UNCHANGED <<sheets, invoiced, sequence>>
      BY <1>3, <2>3, <3>1 DEF CreateOrder
    <3>5. /\ DOMAIN orders' = DOMAIN orders \cup {r} /\ orders' \in [DOMAIN orders' -> OrderRow]
          /\ \A o \in DOMAIN orders' : orders'[o].sheet \in DOMAIN sheets \cup {NoSheet}
      BY <1>0, <3>3, <3>4 DEF Put, TailorTypeOK
    <3>6. QED
      BY <1>0, <1>b, <2>1, <3>4, <3>5 DEF TailorTypeOK, OrderIds
  <2>4. QED
    BY <1>3, <2>2, <2>3 DEF CreateOrder
<1>4. CASE FindOrder(r)
  <2>1. UNCHANGED tailor /\ call[r].op \notin {"createOrder", "migrateOrders"}
    BY <1>4 DEF FindOrder, At
  <2>2. \/ pc'[r] = "refused"
        \/ /\ call[r].id \in DOMAIN orders
           /\ seen'[r] = [advance |-> orders[call[r].id].advance, invoice |-> orders[call[r].id].invoice]
    BY <1>4, KeepFacts, AnswerFacts DEF FindOrder
  <2>3. call[r].id \in DOMAIN orders => orders[call[r].id].advance \in Nat
    BY <1>0 DEF TailorTypeOK, OrderRow
  <2>4. TailorReads(r)'
    BY <1>b, <2>1, <2>2, <2>3 DEF TailorReads, Ended
  <2>5. QED
    BY <1>a, <2>1, <2>4
<1>5. CASE PayAdvance(r) \/ SetOrderStatus(r) \/ UpdateOrder(r)
  <2>1. /\ call[r].op \in {"payOrder", "orderStatus", "updateOrder"} /\ pc[r] = "write"
        /\ pc'[r] \in Ended \cup {"collect"} /\ UNCHANGED <<sheets, invoiced, sequence>>
    BY <1>5, AnswerFacts, GotoFacts DEF PayAdvance, SetOrderStatus, UpdateOrder, At, Ended
  <2>2. TailorReads(r)'
    BY <2>1 DEF TailorReads, Ended
  <2>3. CASE UNCHANGED orders
    BY <1>a, <2>1, <2>2, <2>3 DEF tailor
  <2>4. CASE call[r].id \in DOMAIN orders /\ ~UNCHANGED orders
    <3> DEFINE o == call[r].id
    <3>1. /\ orders[o] \in OrderRow /\ orders[o].sheet \in DOMAIN sheets \cup {NoSheet}
          /\ orders[o].advance \in Nat /\ <<r, r>> \in InvoiceIds
      BY <1>0, <2>4 DEF TailorTypeOK, OrderRow, InvoiceIds, OrderIds
    <3>2. ASSUME NEW w \in OrderRow, w.sheet = orders[o].sheet, orders' = [orders EXCEPT ![o] = w]
          PROVE  TailorTypeOK'
      BY <1>0, <2>1, <2>4, <3>1, <3>2, OrderWritten DEF TailorTypeOK
    <3>3. CASE PayAdvance(r) \/ SetOrderStatus(r)
      <4>1. \E n \in Nat : orders' = [orders EXCEPT ![o].advance = n]
        <5>1. CASE PayAdvance(r)
          <6>1. seen[r].advance \in Nat /\ call[r].amount \in Nat
            BY <1>0, <5>1, TailorFields DEF PayAdvance, At, TailorReads
          <6>2. orders' = [orders EXCEPT ![o].advance = seen[r].advance + call[r].amount]
            BY <2>4, <5>1 DEF PayAdvance
          <6>3. seen[r].advance + call[r].amount \in Nat
            BY <6>1
          <6>4. QED
            BY <6>2, <6>3
        <5>2. CASE SetOrderStatus(r)
          <6>1. PICK n : n = IF call[r].advance = Kept THEN seen[r].advance ELSE call[r].advance
            OBVIOUS
          <6>2. n \in Nat
            BY <1>0, <5>2, <6>1, TailorFields DEF SetOrderStatus, At, TailorReads
          <6>3. orders' = [orders EXCEPT ![o].advance = n]
            BY <2>4, <5>2, <6>1 DEF SetOrderStatus
          <6>4. QED
            BY <6>2, <6>3
        <5>3. QED
          BY <3>3, <5>1, <5>2
      <4>2. PICK n \in Nat : orders' = [orders EXCEPT ![o].advance = n]
        BY <4>1
      <4>3. PICK w : w = [orders[o] EXCEPT !.advance = n]
        OBVIOUS
      <4>4. w \in OrderRow /\ w.sheet = orders[o].sheet
        BY <3>1, <4>3, FieldsTyped
      <4>5. orders' = [orders EXCEPT ![o] = w]
        BY <4>2, <4>3
      <4>6. QED
        BY <2>2, <3>2, <4>4, <4>5
    <3>4. CASE UpdateOrder(r)
      <4>1. PICK n : n = IF call[r].advance = Kept THEN orders[o].advance ELSE call[r].advance
        OBVIOUS
      <4>2. n \in Nat /\ call[r].price \in Nat
        BY <3>1, <3>4, <4>1, TailorFields DEF UpdateOrder, At
      <4>3. orders' = [orders EXCEPT ![o].price = call[r].price, ![o].advance = n]
        BY <2>4, <3>1, <3>4, <4>1 DEF UpdateOrder, OrderRow
      <4>4. PICK u : u = [orders[o] EXCEPT !.price = call[r].price]
        OBVIOUS
      <4>5. u \in OrderRow /\ u.sheet = orders[o].sheet
        BY <3>1, <4>2, <4>4, FieldsTyped
      <4>6. PICK w : w = [u EXCEPT !.advance = n]
        OBVIOUS
      <4>7. w \in OrderRow /\ w.sheet = orders[o].sheet
        BY <3>1, <4>2, <4>5, <4>6, FieldsTyped
      <4>8. orders' = [orders EXCEPT ![o] = w]
        BY <4>3, <4>4, <4>6
      <4>9. QED
        BY <2>2, <3>2, <4>7, <4>8
    <3>5. QED
      BY <1>5, <3>3, <3>4
  <2>5. QED
    BY <1>5, <2>3, <2>4 DEF PayAdvance, SetOrderStatus, UpdateOrder
<1>6. CASE Collect(r)
  <2>1. /\ call[r].op = "payOrder" /\ pc'[r] \in Ended /\ UNCHANGED <<sheets, orders, sequence>>
        /\ invoiced' = [invoiced EXCEPT ![seen[r].invoice].paid = invoiced[seen[r].invoice].paid + call[r].amount]
    BY <1>6, AnswerFacts DEF Collect, At, Ended
  <2>2. call[r].amount \in Nat
    BY <2>1, TailorFields
  <2>3. \A w \in [total : Nat, paid : Nat] :
          [w EXCEPT !.paid = w.paid + call[r].amount] \in [total : Nat, paid : Nat]
    BY <2>2
  <2>4. DOMAIN invoiced' = DOMAIN invoiced /\ invoiced' \in [DOMAIN invoiced -> [total : Nat, paid : Nat]]
    BY <1>0, <2>1, <2>3 DEF TailorTypeOK
  <2>5. QED
    BY <1>0, <1>b, <2>1, <2>4 DEF TailorTypeOK
<1>7. CASE RemoveOrder(r)
  <2>1. pc'[r] \in Ended /\ UNCHANGED <<sheets, invoiced, sequence>>
        /\ (UNCHANGED orders \/ orders' = Without(orders, call[r].id))
    BY <1>7, AnswerFacts DEF RemoveOrder, Ended
  <2>2. TailorTypeOK'
    BY <1>0, <2>1 DEF TailorTypeOK, Without
  <2>3. QED
    BY <1>b, <2>1, <2>2
<1>8. QED
  BY <1>1, <1>2, <1>3, <1>4, <1>5, <1>6, <1>7

LEMMA MigrationStepTyped ==
  ASSUME ServerInv, TailorTypesInv, NEW r \in Requests, UNCHANGED call,
         ListOrphans(r) \/ DrawMigrationNumber(r) \/ LinkInvoice(r) \/ SkipOrphan(r) \/ EndMigration(r)
  PROVE  TailorTypeOK' /\ TailorReads(r)'
<1>0. TailorTypeOK /\ TailorReads(r)
  BY DEF TailorTypesInv
<1>a. UNCHANGED tailor => TailorTypeOK'
  BY <1>0 DEF tailor, TailorTypeOK
<1>1. CASE ListOrphans(r)
  <2>1. /\ UNCHANGED tailor /\ call[r].op = "migrateOrders" /\ pc'[r] = "number"
        /\ seen'[r].orphans = [o \in {o \in DOMAIN orders : orders[o].invoice = NoInvoice} |-> orders[o]]
    BY <1>1, KeepFacts DEF ListOrphans, At
  <2>2. \A o \in DOMAIN orders : o \in OrderIds /\ orders[o].price \in Nat /\ orders[o].advance \in Nat
    BY <1>0 DEF TailorTypeOK, OrderRow
  <2>3. QED
    BY <1>a, <2>1, <2>2 DEF TailorReads
<1>2. CASE DrawMigrationNumber(r)
  <2>1. PICK o \in DOMAIN seen[r].orphans : Keep(r, "link", [order |-> o, orphans |-> seen[r].orphans])
    BY <1>2 DEF DrawMigrationNumber
  <2>2. /\ pc'[r] = "link" /\ seen'[r].order = o /\ seen'[r].orphans = seen[r].orphans
        /\ call[r].op = "migrateOrders" /\ pc[r] = "number"
    BY <1>2, <2>1, KeepFacts DEF DrawMigrationNumber, At
  <2>3. TailorReads(r)'
    BY <1>0, <2>1, <2>2 DEF TailorReads
  <2>4. QED
    BY <1>0, <1>2, <2>3 DEF DrawMigrationNumber, TailorTypeOK
<1>3. CASE LinkInvoice(r) \/ SkipOrphan(r)
  <2>1. /\ call[r].op = "migrateOrders" /\ pc[r] = "link" /\ pc'[r] = "number"
        /\ seen'[r].orphans = Without(seen[r].orphans, seen[r].order)
    BY <1>3, KeepFacts DEF LinkInvoice, SkipOrphan, At
  <2>2. TailorReads(r)'
    BY <1>0, <2>1 DEF TailorReads, Without
  <2>3. CASE UNCHANGED tailor
    BY <1>a, <2>2, <2>3
  <2>4. CASE LinkInvoice(r) /\ seen[r].order \in DOMAIN orders
    <3> DEFINE o == seen[r].order
               row == seen[r].orphans[o]
    <3>1. /\ invoiced' = Put(invoiced, <<r, o>>, [total |-> row.price, paid |-> row.advance])
          /\ orders' = [orders EXCEPT ![o].invoice = <<r, o>>] /\ UNCHANGED <<sheets, sequence>>
      BY <2>4 DEF LinkInvoice
    <3>2. o \in OrderIds /\ row.price \in Nat /\ row.advance \in Nat
      BY <1>0, <2>1 DEF TailorReads
    <3>3. <<r, o>> \in InvoiceIds
      BY <3>2 DEF InvoiceIds
    <3>4. /\ invoiced' \in [DOMAIN invoiced \cup {<<r, o>>} -> [total : Nat, paid : Nat]]
          /\ DOMAIN invoiced' = DOMAIN invoiced \cup {<<r, o>>}
      BY <1>0, <3>1, <3>2, <3>3, InvoicedTyped
    <3>5. orders[o] \in OrderRow /\ orders[o].sheet \in DOMAIN sheets \cup {NoSheet}
      BY <1>0, <2>4 DEF TailorTypeOK
    <3>6. PICK w : w = [orders[o] EXCEPT !.invoice = <<r, o>>]
      OBVIOUS
    <3>7. w \in OrderRow /\ w.sheet = orders[o].sheet /\ 0 \in Nat
      BY <3>3, <3>5, <3>6, FieldsTyped
    <3>8. orders' = [orders EXCEPT ![o] = w]
      BY <3>1, <3>6
    <3>9. /\ orders' \in [DOMAIN orders' -> OrderRow] /\ DOMAIN orders' = DOMAIN orders
          /\ \A q \in DOMAIN orders' : orders'[q].sheet \in DOMAIN sheets \cup {NoSheet}
      BY <1>0, <2>4, <3>5, <3>7, <3>8, OrderWritten
    <3>10. invoiced' \in [DOMAIN invoiced' -> [total : Nat, paid : Nat]] /\ DOMAIN invoiced' \subseteq InvoiceIds
      BY <1>0, <3>3, <3>4 DEF TailorTypeOK
    <3>11. UNCHANGED <<sheets, sequence>>
      BY <3>1
    <3> HIDE DEF o, row
    <3>12. TailorTypeOK'
      BY <1>0, <3>9, <3>10, <3>11 DEF TailorTypeOK
    <3>13. QED
      BY <2>2, <3>12
  <2>5. QED
    BY <1>3, <2>3, <2>4 DEF LinkInvoice, SkipOrphan, tailor
<1>4. CASE EndMigration(r)
  <2>1. UNCHANGED tailor /\ pc'[r] \in Ended
    BY <1>4, AnswerFacts DEF EndMigration, Ended
  <2>2. QED
    BY <1>a, <2>1, TailorReadsNothing
<1>5. QED
  BY <1>1, <1>2, <1>3, <1>4

LEMMA TailorTypesStart == Init => TailorTypesInv
<1> SUFFICES ASSUME Init PROVE TailorTypesInv
  OBVIOUS
<1>1. /\ sheets = OldSheets /\ orders = OldOrders /\ DOMAIN invoiced = {} /\ sequence = 0
      /\ \A r \in Requests : pc[r] = "idle"
  BY DEF Init, TailorInit, ServerInit
<1>2. TailorTypeOK
  <2>1. invoiced \in [DOMAIN invoiced -> [total : Nat, paid : Nat]]
    BY DEF Init, TailorInit
  <2>2. QED
    BY <1>1, <2>1, SheetsAssumption, OrdersAssumption DEF TailorTypeOK, SheetIds, OrderIds
<1>3. \A r \in Requests : TailorReads(r)
  BY <1>1 DEF TailorReads
<1>4. QED
  BY <1>2, <1>3 DEF TailorTypesInv

LEMMA TailorTypesNext ==
  ASSUME ServerInv, Asking, TailorTypesInv, [Next]_vars
  PROVE  TailorTypesInv'
<1>1. CASE UNCHANGED <<pc, call, seen, tailor>>
  BY <1>1 DEF TailorTypesInv, TailorTypeOK, TailorReads, tailor
<1>2. ASSUME NEW r \in Requests, Request(r) PROVE TailorTypesInv'
  <2>1. CASE UNCHANGED tailor /\ Moves(r) /\ TailorReads(r)' /\ \A s \in Requests \ {r} : call'[s] = call[s]
    <3>1. TailorTypeOK'
      BY <2>1 DEF TailorTypesInv, TailorTypeOK, tailor
    <3>2. QED
      BY <2>1, <3>1, TailorTypesKept
  <2>2. CASE Arrive(r) /\ UNCHANGED tables
    BY <2>1, <2>2, ArriveFacts, TailorReadsNothing DEF tables
  <2>3. CASE Fail(r) /\ UNCHANGED tables
    BY <2>1, <2>3, FailFacts, TailorReadsNothing DEF tables, Ended
  <2>4. CASE TailorStep(r) /\ UNCHANGED call /\ Moves(r) /\ call[r].op \in TailorOps
    <3>1. call[r] \in TailorCalls
      BY <2>4, CallsTyped
    <3>2. CASE FindParent(r) \/ CreateSheet(r) \/ FindSheet(r) \/ UpdateSheet(r) \/ RemoveSheet(r)
      <4>1. call'[r].op \in {"createSheet", "updateSheet", "removeSheet"}
        BY <2>4, <3>2 DEF FindParent, CreateSheet, FindSheet, UpdateSheet, RemoveSheet, At
      <4>2. QED
        BY <2>4, <3>1, <3>2, <4>1, SheetStepTyped, TailorReadsNothing, TailorTypesKept
    <3>3. CASE \/ CountOrders(r) \/ DrawInvoiceNumber(r) \/ CheckSheet(r) \/ CreateOrderInvoice(r) \/ CreateOrder(r)
               \/ FindOrder(r) \/ PayAdvance(r) \/ Collect(r) \/ SetOrderStatus(r) \/ UpdateOrder(r) \/ RemoveOrder(r)
      BY <2>4, <3>1, <3>3, OrderStepTyped, TailorTypesKept
    <3>4. CASE ListOrphans(r) \/ DrawMigrationNumber(r) \/ LinkInvoice(r) \/ SkipOrphan(r) \/ EndMigration(r)
      BY <2>4, <3>4, MigrationStepTyped, TailorTypesKept
    <3>5. QED
      BY <2>4, <3>2, <3>3, <3>4 DEF TailorStep
  <2>5. CASE UNCHANGED <<call, tailor>> /\ Moves(r) /\ call[r].op \notin TailorOps
    BY <2>1, <2>5, TailorReadsNothing DEF TailorOps
  <2>6. QED
    BY <1>2, <2>2, <2>3, <2>4, <2>5, Disjoint, RequestCases
<1>3. CASE Restart
  <2>1. UNCHANGED <<call, tailor>> /\ \A r \in Requests : pc'[r] \in Ended \cup {"idle"}
    BY <1>3, RestartFacts DEF InFlight, Ended
  <2>2. \A r \in Requests : TailorReads(r)'
    BY <2>1, TailorReadsNothing
  <2>3. QED
    BY <2>1, <2>2 DEF TailorTypesInv, TailorTypeOK, tailor
<1>4. QED
  BY <1>1, <1>2, <1>3 DEF Next, Clock, vars, serverVars

-----------------------------------------------------------------------------
(* The configurations: the one that is to be written back is of its type.  *)
ConfigRead(r) == At(r, {"upsertConfig"}, "write") => seen[r] \in ConfigRow

ConfigInv == ProvidersTypeOK /\ \A r \in Requests : ConfigRead(r)

LEMMA ProviderFields ==
  ASSUME NEW c \in ProviderCalls
  PROVE  /\ c.id \in Supported
         /\ c.op = "upsertConfig" => c.enabled \in Asks /\ c.key \in Asks /\ c.secret \in BOOLEAN /\ c.hook \in BOOLEAN
         /\ c.op = "webhook" => c.event \in Events
BY DEF ProviderCalls

LEMMA ConfigKept ==
  ASSUME ConfigInv, NEW r \in Requests, Moves(r), \A s \in Requests \ {r} : call'[s] = call[s],
         ProvidersTypeOK', ConfigRead(r)'
  PROVE  ConfigInv'
BY DEF ConfigInv, ConfigRead, Moves, At

LEMMA ProviderStepTyped ==
  ASSUME ServerInv, ConfigInv, NEW r \in Requests, call[r] \in ProviderCalls, UNCHANGED call, ProviderStep(r)
  PROVE  ConfigInv'
<1>0. Moves(r) /\ ProvidersTypeOK /\ ConfigRead(r) /\ call[r].id \in Supported
  BY ProviderMoves, ProviderFields DEF ConfigInv
<1>a. UNCHANGED integrations => ProvidersTypeOK'
  BY <1>0 DEF integrations, ProvidersTypeOK
<1>1. CASE UNCHANGED integrations /\ ConfigRead(r)'
  BY <1>0, <1>1, <1>a, ConfigKept
<1>2. CASE FindConfig(r)
  <2>1. NoConfig \in ConfigRow
    BY DEF NoConfig, ConfigRow
  <2>2. \/ pc'[r] = "refused"
        \/ seen'[r] = NoConfig
        \/ call[r].id \in DOMAIN providers /\ seen'[r] = providers[call[r].id]
    BY <1>2, KeepFacts, AnswerFacts DEF FindConfig
  <2>3. ConfigRead(r)'
    BY <1>0, <2>1, <2>2 DEF ConfigRead, At, ProvidersTypeOK
  <2>4. QED
    BY <1>1, <1>2, <2>3 DEF FindConfig
<1>3. CASE UpsertConfig(r)
  <2> DEFINE p == call[r].id
  <2>1. seen[r] \in ConfigRow /\ pc'[r] = "audit" /\ UNCHANGED processed
    BY <1>0, <1>3, GotoFacts DEF UpsertConfig, ConfigRead
  <2>2. \E e, k, s, h, q \in BOOLEAN :
          providers' = Put(providers, p, [enabled |-> e, key |-> k, secret |-> s, hook |-> h, qr |-> q])
    <3>1. Given(call[r].enabled, seen[r].enabled) \in BOOLEAN /\ Given(call[r].key, seen[r].key) \in BOOLEAN
      BY <2>1 DEF Given, ConfigRow
    <3>2. (seen[r].secret \/ call[r].secret) \in BOOLEAN /\ (seen[r].hook \/ call[r].hook) \in BOOLEAN
      OBVIOUS
    <3>3. (IF p \in DOMAIN providers THEN providers[p].qr ELSE FALSE) \in BOOLEAN
      BY <1>0 DEF ProvidersTypeOK, ConfigRow
    <3>4. QED
      BY <1>3, <3>1, <3>2, <3>3, Zenon DEF UpsertConfig
  <2>3. PICK v \in ConfigRow : providers' = Put(providers, p, v)
    BY <2>2 DEF ConfigRow
  <2>4. ProvidersTypeOK'
    BY <1>0, <2>1, <2>3 DEF ProvidersTypeOK, Put
  <2>5. ConfigRead(r)'
    BY <2>1 DEF ConfigRead, At
  <2>6. QED
    BY <1>0, <2>4, <2>5, ConfigKept
<1>4. CASE UpdateConfig(r)
  <2>1. pc'[r] = "audit" /\ UNCHANGED processed
    BY <1>4, GotoFacts DEF UpdateConfig
  <2>2. \E b \in BOOLEAN : \/ providers' = [providers EXCEPT ![call[r].id].enabled = b]
                           \/ providers' = [providers EXCEPT ![call[r].id].qr = b]
    BY <1>4, Zenon DEF UpdateConfig
  <2>3. \A v \in ConfigRow, b \in BOOLEAN : [v EXCEPT !.enabled = b] \in ConfigRow /\ [v EXCEPT !.qr = b] \in ConfigRow
    BY DEF ConfigRow
  <2>4. ProvidersTypeOK'
    BY <1>0, <2>1, <2>2, <2>3 DEF ProvidersTypeOK
  <2>5. ConfigRead(r)'
    BY <2>1 DEF ConfigRead, At
  <2>6. QED
    BY <1>0, <2>4, <2>5, ConfigKept
<1>5. CASE TestConnection(r) \/ AuditProvider(r) \/ FindHook(r)
  <2>1. ConfigRead(r)'
    BY <1>5, GotoFacts, AnswerFacts DEF TestConnection, AuditProvider, FindHook, ConfigRead, At
  <2>2. QED
    BY <1>1, <1>5, <2>1 DEF TestConnection, AuditProvider, FindHook
<1>6. CASE ValidateWebhook(r)
  <2>1. call[r].op = "webhook" /\ UNCHANGED providers /\ (UNCHANGED processed \/ processed' = processed \cup {Key(r)})
    BY <1>6 DEF ValidateWebhook, At
  <2>2. Key(r) \in Supported \X Events
    BY <1>0, <2>1, ProviderFields DEF Key
  <2>3. ProvidersTypeOK'
    BY <1>0, <2>1, <2>2 DEF ProvidersTypeOK
  <2>4. ConfigRead(r)'
    BY <2>1 DEF ConfigRead, At
  <2>5. QED
    BY <1>0, <2>3, <2>4, ConfigKept
<1>7. QED
  BY <1>2, <1>3, <1>4, <1>5, <1>6 DEF ProviderStep

LEMMA ConfigStart == Init => ConfigInv
BY ProvidersAssumption DEF Init, ProvidersInit, ServerInit, ConfigInv, ProvidersTypeOK, ConfigRead, At

LEMMA ConfigNext ==
  ASSUME ServerInv, Asking, ConfigInv, [Next]_vars
  PROVE  ConfigInv'
<1>1. CASE UNCHANGED <<pc, call, seen, integrations>>
  BY <1>1 DEF ConfigInv, ProvidersTypeOK, ConfigRead, At, integrations
<1>2. ASSUME NEW r \in Requests, Request(r) PROVE ConfigInv'
  <2>1. CASE /\ UNCHANGED integrations /\ Moves(r) /\ \A s \in Requests \ {r} : call'[s] = call[s]
             /\ pc'[r] \in {"start", "failed"} \/ call'[r].op \notin ProviderOps
    <3>1. ProvidersTypeOK' /\ ConfigRead(r)'
      BY <2>1 DEF ConfigInv, ProvidersTypeOK, integrations, ConfigRead, At, ProviderOps
    <3>2. QED
      BY <2>1, <3>1, ConfigKept
  <2>2. CASE (Arrive(r) \/ Fail(r)) /\ UNCHANGED tables
    BY <2>1, <2>2, ArriveFacts, FailFacts DEF tables
  <2>3. CASE ProviderStep(r) /\ UNCHANGED call /\ call[r].op \in ProviderOps
    <3>1. call[r] \in ProviderCalls
      BY <2>3, CallsTyped
    <3>2. QED
      BY <2>3, <3>1, ProviderStepTyped
  <2>4. CASE UNCHANGED <<call, integrations>> /\ Moves(r) /\ call[r].op \notin ProviderOps
    BY <2>1, <2>4
  <2>5. QED
    BY <1>2, <2>2, <2>3, <2>4, Disjoint, RequestCases
<1>3. CASE Restart
  <2>1. /\ UNCHANGED <<call, providers>> /\ processed' = {}
        /\ \A r \in Requests : pc'[r] \in Ended \cup {"idle"}
    BY <1>3, RestartFacts DEF InFlight, Ended
  <2>2. QED
    BY <2>1 DEF ConfigInv, ProvidersTypeOK, ConfigRead, At, Ended
<1>4. QED
  BY <1>1, <1>2, <1>3 DEF Next, Clock, vars, serverVars

-----------------------------------------------------------------------------
(* TypeOK is not inductive: what a handler wrote it had read steps before, *)
(* and a row it refers to may have gone since; what each has read is part  *)
(* of the invariants of the components.                                    *)
OfficeTypesInv ==
  /\ ServerInv /\ Asking /\ restarts <= MaxRestarts
  /\ SessionInv /\ DocInv /\ ShopTypesInv
  /\ TailorTypesInv /\ QuoteRowsInv /\ PeopleInv /\ OtpInv /\ ConfigInv

LEMMA RestartsBounded ==
  ASSUME restarts <= MaxRestarts, ServerInv, [Next]_vars
  PROVE  restarts' <= MaxRestarts
<1>1. CASE Restart
  BY <1>1, RestartFacts, RequestsAssumption DEF ServerInv
<1>2. CASE UNCHANGED restarts
  BY <1>2
<1>3. QED
  BY <1>1, <1>2 DEF Next, Clock, vars, serverVars

(* The schema of the database and its foreign keys                         *)
(* (prisma/schema.prisma): whatever overlaps, fails, is deleted or         *)
(* restarted, every row is of its type, every movement, line, part and     *)
(* purchase order refers to an article on file, every part to a ticket,    *)
(* every sheet and order to a sheet on file, every role to an account, and *)
(* no two tenants or quotes share a number.                                *)
THEOREM OfficeTypeCorrect == Spec => []TypeOK
<1>1. OfficeTypesInv => TypeOK
  <2> SUFFICES ASSUME OfficeTypesInv PROVE TypeOK
    OBVIOUS
  <2>1. restarts \in 0..MaxRestarts
    BY RequestsAssumption DEF OfficeTypesInv, ServerInv
  <2>2. /\ scene \in Scenes /\ \A r \in Requests : call[r] \in scene.calls \cup {NoCall}
        /\ DOMAIN pc = Requests /\ DOMAIN call = Requests /\ DOMAIN seen = Requests
    BY DEF OfficeTypesInv, ServerInv, Asking
  <2>3. ShopTypeOK /\ TailorTypeOK /\ QuotesTypeOK /\ ProvidersTypeOK
    BY ShopTypesHold DEF OfficeTypesInv, TailorTypesInv, QuoteRowsInv, ConfigInv
  <2>4. AccountsTypeOK
    BY DEF OfficeTypesInv, PeopleInv, OtpInv, AccountsTypeOK, WaitingTypeOK, SpacesTypeOK
  <2>5. QED
    BY <2>1, <2>2, <2>3, <2>4 DEF TypeOK
<1>2. Init => OfficeTypesInv
  <2>1. Init => restarts <= MaxRestarts
    BY RequestsAssumption DEF Init, ServerInit
  <2>2. QED
    BY <2>1, ServerStart, AskingStart, SessionStart, DocStart, ShopTypesStart, TailorTypesStart, QuoteRowsStart,
       PeopleStart, OtpStart, ConfigStart DEF OfficeTypesInv
<1>3. OfficeTypesInv /\ [Next]_vars => OfficeTypesInv'
  <2> SUFFICES ASSUME OfficeTypesInv, [Next]_vars PROVE OfficeTypesInv'
    OBVIOUS
  <2>1. ServerInv' /\ Asking' /\ restarts' <= MaxRestarts
    BY ServerStep, AskingStep, RestartsBounded DEF OfficeTypesInv
  <2>2. SessionInv' /\ DocInv' /\ ShopTypesInv'
    BY SessionStepKept, DocNext, ShopTypesNext DEF OfficeTypesInv
  <2>3. TailorTypesInv' /\ QuoteRowsInv' /\ PeopleInv' /\ OtpInv' /\ ConfigInv'
    BY TailorTypesNext, QuoteRowsNext, PeopleNext, OtpStepKept, ConfigNext DEF OfficeTypesInv
  <2>4. QED
    BY <2>1, <2>2, <2>3 DEF OfficeTypesInv
<1>4. QED
  BY <1>1, <1>2, <1>3, PTL DEF Spec
=============================================================================
