----------------------------- MODULE StockBooks ------------------------------
(***************************************************************************)
(* What the stock of module Stock adds up to: the properties that compare  *)
(* the quantity on hand with the depot balances and with the journal, and  *)
(* the refinement of AbstractStock.                                        *)
(***************************************************************************)
EXTENDS Stock, FiniteSets, Functions

ASSUME DepotsAssumption == IsFiniteSet(Depots)

(* Requests on one article do not overlap, and no call fails.              *)
Orderly == Apart /\ ~Faults

(* No request about article i is between its arrival and its answer.       *)
AtRest(i) == \A r \in Requests : Active(r) => i \notin Articles(call[r])

Held(v)       == IF v = NoRow THEN 0 ELSE v
DepotTotal(i) == SumFunction([d \in Depots |-> Held(bal[<<i, d>>])])

(* Every call names a depot and is about one article, and the depots hold  *)
(* what is on hand at the start.                                           *)
InDepots ==
  /\ \A c \in Calls : Len(c.lines) = 1 /\ (c.op # "remove" => c.depot # NoDepot)
  /\ \A i \in OpeningItems :
       OpeningQuantity[i] = SumFunction([d \in Depots |-> Held(OpeningBalance[<<i, d>>])])

(* StockItem.quantity is the total over the depots                         *)
(* (quincaillerie-stock.service.ts:151): when no request on an article is  *)
(* in flight, its quantity on hand is what its depots hold, whatever was   *)
(* created, moved, sold, transferred, refused or deleted before.           *)
DepotsAccount ==
  Orderly /\ InDepots => \A i \in items : AtRest(i) => qty[i] = DepotTotal(i)

Moved(m, i, kind)      == IF m.item = i /\ m.kind = kind THEN m.quantity ELSE 0
MovedQuantity(i, kind) == SumFunction([m \in movements |-> Moved(m, i, kind)])

Creations(i) == {r \in Requests : call[r].op = "create" /\ pc[r] # "idle" /\ Article(r) = i}

StartQuantity(i) ==
  IF i \in OpeningItems THEN OpeningQuantity[i]
                        ELSE Amount(CHOOSE r \in Creations(i) : TRUE)

Adjusted(i) == \E m \in movements : m.item = i /\ m.kind = "ADJUSTMENT"

(* The journal explains the stock: without overlap or fault, the quantity  *)
(* on hand of an article at rest is its initial quantity plus the IN and   *)
(* minus the OUT movements on file, also when a sale was refused after     *)
(* some of its lines.  An adjustment files its target, not the difference, *)
(* so articles with one are left out.                                      *)
LedgerMatches ==
  Orderly => \A i \in items :
    AtRest(i) /\ ~Adjusted(i)
      => qty[i] = StartQuantity(i) + MovedQuantity(i, "IN") - MovedQuantity(i, "OUT")

(* A PAID counter-sale invoice is backed by the journal: every line of the *)
(* sale it stands for has its OUT movement on file unless the article is   *)
(* gone, although the sale's transaction may have expired meanwhile.       *)
InvoicedSalesJournaled ==
  \A v \in invoices : \A n \in DOMAIN call[v.by].lines :
    call[v.by].lines[n].item \in items
      => \E m \in movements : m.by = v.by /\ m.line = n /\ m.kind = "OUT"
                              /\ m.quantity = call[v.by].lines[n].quantity

(* Every request that arrives is answered: no order of the row locks taken *)
(* by transfers, movements and sales of several lines, and no refusal      *)
(* midway, leaves a request waiting for ever.                              *)
EveryRequestAnswered == \A r \in Requests : Active(r) ~> ~Active(r)

-----------------------------------------------------------------------------
(* Refinement: an operation takes effect at its commit; until then the     *)
(* abstract quantity is the one the request has read.                      *)

Uncommitted(r) == call[r].op \in {"movement", "sale"} /\ pc[r] \in {"number", "invoice", "commit"}
Unfinished(r)  == call[r].op = "create" /\ pc[r] \in {"credit", "commit"}

ItemsBar == items \ {Article(r) : r \in {o \in Requests : Unfinished(o)}}

QuantityBar ==
  [i \in Items |->
     LET writers == {r \in Requests : Uncommitted(r) /\ Article(r) = i}
     IN  CASE i \notin ItemsBar                   -> 0
           [] i \in ItemsBar /\ writers # {}      -> onHand[CHOOSE r \in writers : TRUE]
           [] i \in ItemsBar /\ writers = {}      -> qty[i]]

CONSTANT Amounts

A == INSTANCE AbstractStock WITH items <- ItemsBar, qty <- QuantityBar

(* With requests on one article kept apart and no faults, the handlers     *)
(* implement AbstractStock for sales of one line.                          *)
AtomicStock == A!Spec

-----------------------------------------------------------------------------
(* 'Vente enregistrée et stock décrémenté avec succès.'                    *)
(* (quincaillerie-stock.service.ts:324): when every request is a sale and  *)
(* all are answered, the quantity sold by the successful ones is gone from *)
(* the quantity on hand.                                                   *)
Sold(r, i) == IF pc[r] = "done" /\ Article(r) = i THEN Amount(r) ELSE 0
SoldOf(i)  == SumFunction([r \in Requests |-> Sold(r, i)])

SalesDecrement == Quiet => \A i \in items : qty[i] <= OpeningQuantity[i] - SoldOf(i)

(* 'Cet article possède un historique (mouvements, factures, etc.) et ne   *)
(* peut pas être supprimé.' (quincaillerie-stock.service.ts:82): an        *)
(* article that has a movement on file is never deleted.                   *)
HistoryKept == [][\A m \in movements : m.item \in items']_vars
=============================================================================
