-------------------------------- MODULE Tailor --------------------------------
(***************************************************************************)
(* A tailor's measurement sheets and orders, the invoice of each order and *)
(* its payments (modules/tailleur/tailleur-measurement.service).  All the  *)
(* tables are tenant-scoped: order and invoice are written one after the   *)
(* other, $transaction or not.  Only the migration of old orders, a task   *)
(* of the super-admin, writes both in one transaction.                     *)
(***************************************************************************)
EXTENDS Server

CONSTANTS
  OldSheets,             (* measurement sheets at the start: their parents  *)
  NoSheet,               (* no parent, no sheet: the column is null         *)
  OldOrders,             (* orders on file at the start                     *)
  NoInvoice              (* invoiceId is null: an order of before invoices  *)

VARIABLES
  sheets,                (* ClientMeasurement.parentMeasurementId           *)
  orders,                (* TailleurOrder rows                              *)
  invoiced,              (* Invoice rows of orders: [total, paid]           *)
  sequence               (* BillingSequence.currentValue of invoices        *)

tailor == <<sheets, orders, invoiced, sequence>>

SheetIds == DOMAIN OldSheets \cup Requests
OrderIds == DOMAIN OldOrders \cup Requests

(* An invoice is named after the request that made it and its order.       *)
InvoiceIds == Requests \X OrderIds
OrderRow == [number : Nat, price : Nat, advance : Nat, sheet : SheetIds \cup {NoSheet},
             invoice : InvoiceIds \cup {NoInvoice}]

(* Amounts are natural numbers (bound; the DTOs take any number).          *)
Kept == -1               (* the dto leaves the field out                    *)
TailorCalls ==
  [op : {"createSheet"}, parent : SheetIds \cup {NoSheet}]
    \cup [op : {"updateSheet"}, id : SheetIds, parent : SheetIds]
    \cup [op : {"removeSheet"}, id : SheetIds]
    \cup [op : {"createOrder"}, price : Nat, advance : Nat, sheet : SheetIds \cup {NoSheet}]
    \cup [op : {"payOrder"}, id : OrderIds, amount : Nat \ {0}]
    \cup [op : {"orderStatus"}, id : OrderIds, advance : Nat \cup {Kept}]
    \cup [op : {"updateOrder"}, id : OrderIds, price : Nat, advance : Nat \cup {Kept}]
    \cup [op : {"removeOrder"}, id : OrderIds]
    \cup [op : {"migrateOrders"}]

ASSUME SheetsAssumption == OldSheets \in [DOMAIN OldSheets -> DOMAIN OldSheets \cup {NoSheet}]

(* The orders on file were paid at most their price; they are of before    *)
(* invoices, those the migration is for.                                   *)
ASSUME OrdersAssumption ==
  /\ OldOrders \in [DOMAIN OldOrders -> OrderRow] /\ DOMAIN OldOrders \cap Requests = {}
  /\ \A o \in DOMAIN OldOrders : OldOrders[o].sheet \in DOMAIN OldSheets \cup {NoSheet}
  /\ IsFiniteSet(DOMAIN OldOrders) /\ NoInvoice \notin InvoiceIds
  /\ \A o \in DOMAIN OldOrders : /\ OldOrders[o].advance <= OldOrders[o].price
                                 /\ OldOrders[o].invoice = NoInvoice

TailorInit ==
  /\ sheets = OldSheets /\ orders = OldOrders
  /\ invoiced = [v \in {} |-> [total |-> 0, paid |-> 0]] /\ sequence = 0

-----------------------------------------------------------------------------
(* Measurement sheets.                                                     *)

Root(p) == sheets[p] = NoSheet

MayHaveMembers(p) == p \in DOMAIN sheets /\ Root(p)

FindParent(r) ==
  /\ At(r, {"createSheet"}, "start") /\ call[r].parent # NoSheet
  /\ IF MayHaveMembers(call[r].parent) THEN Goto(r, "write") ELSE Refuse(r)
  /\ UNCHANGED tailor

(* Mutant of ParentFits: the reference is not checked by the database.     *)
ParentFitsAny(p) == TRUE

ParentFits(p) == p \in DOMAIN sheets \cup {NoSheet}

CreateSheet(r) ==
  /\ \/ At(r, {"createSheet"}, "write")
     \/ At(r, {"createSheet"}, "start") /\ call[r].parent = NoSheet
  /\ IF ParentFits(call[r].parent)
       THEN Answer(r, "done") /\ sheets' = Put(sheets, r, call[r].parent)
       ELSE Refuse(r) /\ UNCHANGED sheets
  /\ UNCHANGED <<orders, invoiced, sequence>>

FindSheet(r) ==
  /\ At(r, {"updateSheet", "removeSheet"}, "start")
  /\ IF call[r].id \in DOMAIN sheets THEN Goto(r, "write") ELSE Refuse(r)
  /\ UNCHANGED tailor

(* The dto may name another parent; nothing asks what that parent is.      *)
UpdateSheet(r) ==
  /\ At(r, {"updateSheet"}, "write")
  /\ IF {call[r].id, call[r].parent} \subseteq DOMAIN sheets
       THEN Answer(r, "done") /\ sheets' = [sheets EXCEPT ![call[r].id] = call[r].parent]
       ELSE Refuse(r) /\ UNCHANGED sheets
  /\ UNCHANGED <<orders, invoiced, sequence>>

(* The members go with their parent, and theirs with them: the sheets that *)
(* are in every set that holds the sheet and the members of its own.       *)
Family(id) ==
  {s \in DOMAIN sheets : \A F \in SUBSET DOMAIN sheets :
     id \in F /\ (\A m \in DOMAIN sheets : sheets[m] \in F => m \in F) => s \in F}

(* An order that used one of them keeps no sheet.                          *)
RemoveSheet(r) ==
  /\ At(r, {"removeSheet"}, "write")
  /\ LET gone == Family(call[r].id) IN
     IF call[r].id \in DOMAIN sheets
       THEN /\ Answer(r, "done")
            /\ sheets' = [s \in DOMAIN sheets \ gone |-> sheets[s]]
            /\ orders' = [o \in DOMAIN orders |->
                 IF orders[o].sheet \in gone THEN [orders[o] EXCEPT !.sheet = NoSheet] ELSE orders[o]]
       ELSE Refuse(r) /\ UNCHANGED <<sheets, orders>>
  /\ UNCHANGED <<invoiced, sequence>>

-----------------------------------------------------------------------------
(* Orders.                                                                 *)

CountOrders(r) ==
  /\ At(r, {"createOrder"}, "start")
  /\ Keep(r, "number", [number |-> Cardinality(DOMAIN orders) + 1])
  /\ UNCHANGED tailor

DrawInvoiceNumber(r) ==
  /\ At(r, {"createOrder"}, "number")
  /\ Goto(r, IF call[r].sheet = NoSheet THEN "invoice" ELSE "sheet")
  /\ sequence' = sequence + 1
  /\ UNCHANGED <<sheets, orders, invoiced>>

CheckSheet(r) ==
  /\ At(r, {"createOrder"}, "sheet")
  /\ IF call[r].sheet \in DOMAIN sheets THEN Goto(r, "invoice") ELSE Refuse(r)
  /\ UNCHANGED tailor

CreateOrderInvoice(r) ==
  /\ At(r, {"createOrder"}, "invoice")
  /\ Goto(r, "order")
  /\ invoiced' = Put(invoiced, <<r, r>>, [total |-> call[r].price, paid |-> call[r].advance])
  /\ UNCHANGED <<sheets, orders, sequence>>

(* orderNumber is unique in the tenant; the sheet is a foreign key.        *)
CreateOrder(r) ==
  /\ At(r, {"createOrder"}, "order")
  /\ IF ParentFits(call[r].sheet) /\ \A o \in DOMAIN orders : orders[o].number # seen[r].number
       THEN /\ Answer(r, "done")
            /\ orders' = Put(orders, r,
                 [number |-> seen[r].number, price |-> call[r].price, advance |-> call[r].advance,
                  sheet |-> call[r].sheet, invoice |-> <<r, r>>])
       ELSE Refuse(r) /\ UNCHANGED orders
  /\ UNCHANGED <<sheets, invoiced, sequence>>

(* Mutant of Payable: the advance is compared before the payment.          *)
PayableBefore(o, amount) == orders[o].advance <= orders[o].price

Payable(o, amount) == orders[o].advance + amount <= orders[o].price

FindOrder(r) ==
  /\ At(r, {"payOrder", "orderStatus", "updateOrder", "removeOrder"}, "start")
  /\ LET o == call[r].id
     IN  IF o \in DOMAIN orders /\ (call[r].op = "payOrder" => Payable(o, call[r].amount))
           THEN Keep(r, "write", [advance |-> orders[o].advance, invoice |-> orders[o].invoice])
           ELSE Refuse(r)
  /\ UNCHANGED tailor

(* advancePaid is written as the sum of what was read and the payment.     *)
PayAdvance(r) ==
  /\ At(r, {"payOrder"}, "write")
  /\ IF call[r].id \in DOMAIN orders
       THEN /\ orders' = [orders EXCEPT ![call[r].id].advance = seen[r].advance + call[r].amount]
            /\ IF seen[r].invoice = NoInvoice THEN Answer(r, "done") ELSE Goto(r, "collect")
       ELSE Refuse(r) /\ UNCHANGED orders
  /\ UNCHANGED <<sheets, invoiced, sequence>>

(* Mutant of Collect: the invoice only knows the last payment.             *)
CollectAlone(r) ==
  /\ At(r, {"payOrder"}, "collect")
  /\ Answer(r, "done")
  /\ invoiced' = [invoiced EXCEPT ![seen[r].invoice].paid = call[r].amount]
  /\ UNCHANGED <<sheets, orders, sequence>>

(* paidAmount of the invoice is incremented.                               *)
Collect(r) ==
  /\ At(r, {"payOrder"}, "collect")
  /\ Answer(r, "done")
  /\ invoiced' = [invoiced EXCEPT ![seen[r].invoice].paid = @ + call[r].amount]
  /\ UNCHANGED <<sheets, orders, sequence>>

(* A change of status writes advancePaid back as it was read.              *)
SetOrderStatus(r) ==
  /\ At(r, {"orderStatus"}, "write")
  /\ IF call[r].id \in DOMAIN orders
       THEN /\ Answer(r, "done")
            /\ orders' = [orders EXCEPT ![call[r].id].advance =
                            IF call[r].advance = Kept THEN seen[r].advance ELSE call[r].advance]
       ELSE Refuse(r) /\ UNCHANGED orders
  /\ UNCHANGED <<sheets, invoiced, sequence>>

UpdateOrder(r) ==
  /\ At(r, {"updateOrder"}, "write")
  /\ IF call[r].id \in DOMAIN orders
       THEN /\ Answer(r, "done")
            /\ orders' = [orders EXCEPT ![call[r].id].price = call[r].price,
                 ![call[r].id].advance = IF call[r].advance = Kept THEN @ ELSE call[r].advance]
       ELSE Refuse(r) /\ UNCHANGED orders
  /\ UNCHANGED <<sheets, invoiced, sequence>>

(* The invoice of a deleted order stays.                                   *)
RemoveOrder(r) ==
  /\ At(r, {"removeOrder"}, "write")
  /\ IF call[r].id \in DOMAIN orders
       THEN Answer(r, "done") /\ orders' = Without(orders, call[r].id)
       ELSE Refuse(r) /\ UNCHANGED orders
  /\ UNCHANGED <<sheets, invoiced, sequence>>

-----------------------------------------------------------------------------
(* Orders of before invoices.                                              *)

ListOrphans(r) ==
  /\ At(r, {"migrateOrders"}, "start")
  /\ LET orphans == {o \in DOMAIN orders : orders[o].invoice = NoInvoice}
     IN  Keep(r, "number", [orphans |-> [o \in orphans |-> orders[o]]])
  /\ UNCHANGED tailor

DrawMigrationNumber(r) ==
  /\ At(r, {"migrateOrders"}, "number")
  /\ \E o \in DOMAIN seen[r].orphans :
       Keep(r, "link", [order |-> o, orphans |-> seen[r].orphans])
  /\ sequence' = sequence + 1
  /\ UNCHANGED <<sheets, orders, invoiced>>

(* The invoice and its order, in one transaction; an order deleted since   *)
(* rolls it back, and the loop goes on.                                    *)
LinkInvoice(r) ==
  /\ At(r, {"migrateOrders"}, "link")
  /\ LET o == seen[r].order
         row == seen[r].orphans[o]
     IN  /\ IF o \in DOMAIN orders
              THEN /\ invoiced' = Put(invoiced, <<r, o>>, [total |-> row.price, paid |-> row.advance])
                   /\ orders' = [orders EXCEPT ![o].invoice = <<r, o>>]
              ELSE UNCHANGED <<invoiced, orders>>
         /\ Keep(r, "number", [orphans |-> Without(seen[r].orphans, o)])
  /\ UNCHANGED <<sheets, sequence>>

(* One order fails: its error is kept and the next one is tried.           *)
SkipOrphan(r) ==
  /\ scene.faults /\ At(r, {"migrateOrders"}, "link")
  /\ Keep(r, "number", [orphans |-> Without(seen[r].orphans, seen[r].order)])
  /\ UNCHANGED tailor

EndMigration(r) ==
  /\ At(r, {"migrateOrders"}, "number") /\ DOMAIN seen[r].orphans = {}
  /\ Answer(r, "done")
  /\ UNCHANGED tailor

TailorStep(r) ==
  \/ FindParent(r) \/ CreateSheet(r) \/ FindSheet(r) \/ UpdateSheet(r) \/ RemoveSheet(r)
  \/ CountOrders(r) \/ DrawInvoiceNumber(r) \/ CheckSheet(r) \/ CreateOrderInvoice(r) \/ CreateOrder(r)
  \/ FindOrder(r) \/ PayAdvance(r) \/ Collect(r) \/ SetOrderStatus(r) \/ UpdateOrder(r) \/ RemoveOrder(r)
  \/ ListOrphans(r) \/ DrawMigrationNumber(r) \/ LinkInvoice(r) \/ SkipOrphan(r) \/ EndMigration(r)

-----------------------------------------------------------------------------
TailorTypeOK ==
  /\ sheets \in [DOMAIN sheets -> SheetIds \cup {NoSheet}] /\ DOMAIN sheets \subseteq SheetIds
  /\ orders \in [DOMAIN orders -> OrderRow] /\ DOMAIN orders \subseteq OrderIds
  /\ \A s \in DOMAIN sheets : sheets[s] \in DOMAIN sheets \cup {NoSheet}
  /\ \A o \in DOMAIN orders : orders[o].sheet \in DOMAIN sheets \cup {NoSheet}
  /\ invoiced \in [DOMAIN invoiced -> [total : Nat, paid : Nat]]
  /\ DOMAIN invoiced \subseteq InvoiceIds /\ sequence \in Nat

Asked(r, op, id) == call[r].op = op /\ call[r].id = id

(* Nobody sets the advance or the price of the order by hand.              *)
Unrevised(o) ==
  \A r \in Requests : /\ ~Asked(r, "updateOrder", o)
                      /\ Asked(r, "orderStatus", o) => call[r].advance = Kept

(* 'Le paiement depasse le solde restant' (tailleur-measurement.service.   *)
(* ts:200): payments never take the advance of an order above its price,   *)
(* however they overlap, fail, or meet changes of status.                  *)
AdvanceWithinPrice ==
  \A o \in DOMAIN orders :
    /\ Unrevised(o)
    /\ o \in Requests => call[o].advance <= call[o].price
    => orders[o].advance <= orders[o].price

(* No order is deleted, nor was one before the start.                      *)
NoneDeleted ==
  /\ \A r \in Requests : call[r].op # "removeOrder"
  /\ \A o \in DOMAIN OldOrders : OldOrders[o].number <= Cardinality(DOMAIN OldOrders)

(* The order and its invoice agree on what was paid (tailleur-measurement. *)
(* service.ts:206-217, 243-271) between requests that neither overlap nor  *)
(* fail; two payments at once leave the order behind its invoice.  An      *)
(* order has one invoice, and an invoice an order, when besides none       *)
(* deletes an order: a deletion frees a number that the next creation but  *)
(* one collides with, after its invoice.                                   *)
OrderInvoiceAgree ==
  /\ (Quiet /\ InFlight = {}) =>
       /\ \A o \in DOMAIN orders : orders[o].invoice # NoInvoice /\ Unrevised(o) =>
            invoiced[orders[o].invoice].paid = orders[o].advance
       /\ NoneDeleted =>
            \A v \in DOMAIN invoiced : v[2] \in DOMAIN orders /\ orders[v[2]].invoice = v
  /\ Apart => \A v, w \in DOMAIN invoiced : v[2] = w[2] => v = w
=============================================================================
