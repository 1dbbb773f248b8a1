------------------------------ MODULE Purchases -------------------------------
(***************************************************************************)
(* Supplier orders (modules/quincaillerie/quincaillerie-purchase.service). *)
(* The $transaction of markAsReceived holds nothing: its calls go to the   *)
(* extended client, not to the transaction.                                *)
(***************************************************************************)
EXTENDS Shelf

CONSTANT OldPurchases    (* the orders on file at the start                 *)

VARIABLE purchases       (* PurchaseOrder rows: [item, quantity, status]    *)

PurchaseStatuses == {"PENDING", "RECEIVED"}    (* the two the code compares *)
PurchaseRow == [item : Items \cup {NoItem}, quantity : Nat, status : PurchaseStatuses]
PurchaseCalls ==
  [op : {"createPurchase"}, row : PurchaseRow]
    \cup [op : {"updatePurchase"}, id : OldRows \cup Requests, row : PurchaseRow]
    \cup [op : {"receivePurchase", "deletePurchase"}, id : OldRows \cup Requests]

ASSUME PurchasesAssumption ==
  /\ OldPurchases \in [DOMAIN OldPurchases -> PurchaseRow]
  /\ DOMAIN OldPurchases \subseteq OldRows /\ DOMAIN OldPurchases \cap Requests = {}
  /\ \A p \in DOMAIN OldPurchases : OldPurchases[p].item \in DOMAIN Opening \cup {NoItem}

PurchasesInit == purchases = OldPurchases

(* stockItemId is a foreign key, null when the dto leaves it out.          *)
ItemFits(i) == i \in DOMAIN stock \cup {NoItem}

CreatePurchase(r) ==
  /\ At(r, {"createPurchase"}, "start")
  /\ IF ItemFits(call[r].row.item)
       THEN Answer(r, "done") /\ purchases' = Put(purchases, r, call[r].row)
       ELSE Refuse(r) /\ UNCHANGED purchases
  /\ UNCHANGED shelf

(* Mutant of Received: markAsReceived takes any order.                     *)
ReceivedNever(p) == FALSE

Received(p) == purchases[p].status = "RECEIVED"

FindPurchase(r) ==
  /\ At(r, {"updatePurchase", "receivePurchase", "deletePurchase"}, "start")
  /\ LET p == call[r].id
     IN  IF p \in DOMAIN purchases /\ (call[r].op = "receivePurchase" => ~Received(p))
           THEN Keep(r, "write", purchases[p])
           ELSE Refuse(r)
  /\ UNCHANGED <<purchases, shelf>>

UpdatePurchase(r) ==
  /\ At(r, {"updatePurchase"}, "write")
  /\ IF call[r].id \in DOMAIN purchases /\ ItemFits(call[r].row.item)
       THEN Answer(r, "done") /\ purchases' = [purchases EXCEPT ![call[r].id] = call[r].row]
       ELSE Refuse(r) /\ UNCHANGED purchases
  /\ UNCHANGED shelf

DeletePurchase(r) ==
  /\ At(r, {"deletePurchase"}, "write")
  /\ IF call[r].id \in DOMAIN purchases
       THEN Answer(r, "done") /\ purchases' = Without(purchases, call[r].id)
       ELSE Refuse(r) /\ UNCHANGED purchases
  /\ UNCHANGED shelf

MarkReceived(r) ==
  /\ At(r, {"receivePurchase"}, "write")
  /\ IF call[r].id \in DOMAIN purchases
       THEN /\ purchases' = [purchases EXCEPT ![call[r].id].status = "RECEIVED"]
            /\ IF seen[r].item = NoItem THEN Answer(r, "done") ELSE Goto(r, "item")
       ELSE Refuse(r) /\ UNCHANGED purchases
  /\ UNCHANGED shelf

(* The article of the order as it was read, gone or not since.             *)
FindReceivedItem(r) ==
  /\ At(r, {"receivePurchase"}, "item")
  /\ IF seen[r].item \in DOMAIN stock
       THEN Keep(r, "journal", [item |-> seen[r].item, quantity |-> seen[r].quantity,
                                onHand |-> stock[seen[r].item]])
       ELSE Answer(r, "done")
  /\ UNCHANGED <<purchases, shelf>>

JournalReceipt(r) ==
  /\ At(r, {"receivePurchase"}, "journal")
  /\ IF seen[r].item \in DOMAIN stock
       THEN Goto(r, "store") /\ Journaled(r, 1, call[r].id, seen[r].item, "IN", seen[r].quantity)
       ELSE Refuse(r) /\ UNCHANGED movements
  /\ UNCHANGED <<purchases, stock>>

(* Mutant of StoreReceipt: the quantity ordered instead of the sum.        *)
StoreReceiptAlone(r) ==
  /\ At(r, {"receivePurchase"}, "store")
  /\ IF seen[r].item \in DOMAIN stock
       THEN Answer(r, "done") /\ stock' = [stock EXCEPT ![seen[r].item] = seen[r].quantity]
       ELSE Refuse(r) /\ UNCHANGED stock
  /\ UNCHANGED <<purchases, movements>>

StoreReceipt(r) ==
  /\ At(r, {"receivePurchase"}, "store")
  /\ IF seen[r].item \in DOMAIN stock
       THEN /\ Answer(r, "done")
            /\ stock' = [stock EXCEPT ![seen[r].item] = seen[r].onHand + seen[r].quantity]
       ELSE Refuse(r) /\ UNCHANGED stock
  /\ UNCHANGED <<purchases, movements>>

PurchaseStep(r) ==
  \/ CreatePurchase(r) \/ FindPurchase(r) \/ UpdatePurchase(r) \/ DeletePurchase(r)
  \/ MarkReceived(r) \/ FindReceivedItem(r) \/ JournalReceipt(r) \/ StoreReceipt(r)

-----------------------------------------------------------------------------
PurchasesTypeOK ==
  /\ purchases \in [DOMAIN purchases -> PurchaseRow]
  /\ \A p \in DOMAIN purchases : ItemFits(purchases[p].item)
  /\ DOMAIN purchases \subseteq OldRows \cup Requests

Receipts(p) == {m \in movements : m.doc = p /\ m.type = "IN"}
Reopenings(p) == {r \in Requests : /\ call[r].op = "updatePurchase" /\ call[r].id = p
                                   /\ call[r].row.status # "RECEIVED" /\ pc[r] = "done"}

(* 'Cette commande a deja ete marquee comme receptionnee.'                 *)
(* (quincaillerie-purchase.service.ts:53): one receipt per order, and one  *)
(* more each time an update has taken it out of RECEIVED.  True of         *)
(* requests that do not overlap.                                           *)
ReceivedOnce ==
  Apart => \A p \in DOMAIN purchases : Cardinality(Receipts(p)) <= 1 + Cardinality(Reopenings(p))
=============================================================================
