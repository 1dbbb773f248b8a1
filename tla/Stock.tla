-------------------------------- MODULE Stock --------------------------------
(***************************************************************************)
(* The stock of one shop (modules/quincaillerie/quincaillerie-stock.       *)
(* service.ts): articles with a quantity on hand, one balance per article  *)
(* and depot, and a journal of movements.  HTTP requests run concurrently  *)
(* in the Node process; an action is one database call of one request,     *)
(* with the checks the handler makes on its answer.                        *)
(*                                                                         *)
(* Every handler here runs inside prisma.extended.$transaction, but the    *)
(* extended client (prisma/prisma.service.ts) runs each call on a          *)
(* tenant-scoped model (StockItem, StockMovement, BillingSequence,         *)
(* Invoice) in a transaction of its own on the base client.  Only          *)
(* StockBalance, which is not tenant-scoped, is written by the handler's   *)
(* transaction: its writes are held in "pend" until Commit, lock the row   *)
(* meanwhile, and are the only ones a rollback takes back.  READ           *)
(* COMMITTED is the isolation level, so every read sees the committed      *)
(* store and the transaction's own writes.                                 *)
(***************************************************************************)
EXTENDS Integers, Sequences

CONSTANTS
  Items,            (* ids (uuid) an article can have                       *)
  Depots,           (* the depots of the tenant                             *)
  Requests,         (* HTTP requests; each runs one handler once            *)
  Calls,            (* the handler and DTO a request may carry              *)
  Apart,            (* TRUE: requests on one article do not overlap (bound) *)
  Faults,           (* TRUE: database calls fail and transactions time out  *)
  NoDepot,          (* dto.depotId left out                                 *)
  NoRow,            (* no StockBalance row, or no write pending on it       *)
  OpeningItems,     (* the articles, quantities and balances at the start   *)
  OpeningQuantity,
  OpeningBalance

Keys == Items \X Depots
Rows == Int \cup {NoRow}

Line == [item : Items, quantity : Nat]
Call == [op     : {"create", "remove", "transfer", "movement", "sale"},
         kind   : {"IN", "OUT", "ADJUSTMENT"},
         depot  : Depots \cup {NoDepot},
         dest   : Depots \cup {NoDepot},
         lines  : Seq(Line),
         invoice: BOOLEAN]

ASSUME SentinelsAssumption == NoRow \notin Int /\ NoDepot \notin Depots

(* The DTOs ask for a number only; the forms send whole, non-negative      *)
(* quantities, and every call is about at least one article.               *)
ASSUME CallsAssumption ==
  /\ Apart \in BOOLEAN /\ Faults \in BOOLEAN
  /\ Calls \subseteq Call /\ Calls # {}
  /\ \A c \in Calls : /\ Len(c.lines) > 0
                      /\ c.op = "transfer" => c.depot \in Depots /\ c.dest \in Depots

ASSUME OpeningAssumption ==
  /\ OpeningItems \subseteq Items
  /\ OpeningQuantity \in [Items -> Nat]
  /\ OpeningBalance \in [Keys -> Nat \cup {NoRow}]
  /\ \A k \in Keys : k[1] \notin OpeningItems => OpeningBalance[k] = NoRow

VARIABLES
  items,            (* StockItem rows                                       *)
  fresh,            (* ids no article has had yet: a uuid is never reused   *)
  qty,              (* StockItem.quantity                                   *)
  bal,              (* StockBalance.quantity, committed                     *)
  movements,        (* StockMovement rows                                   *)
  lastNumber,       (* BillingSequence.currentValue of the invoices         *)
  invoices,         (* PAID invoices of counter sales                       *)
  pend,             (* per request, balance writes of its open transaction  *)
  open,             (* per request, its transaction is open                 *)
  pc,               (* per request, the database call that comes next       *)
  call,             (* per request, the handler and DTO                     *)
  line,             (* per request, index of the sale line in hand          *)
  onHand,           (* per request, the item.quantity it has read           *)
  inDepot,          (* per request, the balance.quantity it has read        *)
  number            (* per request, the invoice number it has drawn         *)

store == <<items, fresh, qty, bal, movements, lastNumber, invoices>>
local == <<call, line, onHand, inDepot, number>>
vars  == <<store, pend, open, pc, local>>

NoWrites == [k \in Keys |-> NoRow]

Init ==
  /\ items = OpeningItems
  /\ fresh = Items \ OpeningItems
  /\ qty = OpeningQuantity
  /\ bal = OpeningBalance
  /\ movements = {}
  /\ lastNumber = 0
  /\ invoices = {}
  /\ pend = [r \in Requests |-> NoWrites]
  /\ open = [r \in Requests |-> FALSE]
  /\ pc = [r \in Requests |-> "idle"]
  /\ call = [r \in Requests |-> CHOOSE c \in Calls : TRUE]
  /\ line = [r \in Requests |-> 1]
  /\ onHand = [r \in Requests |-> 0]
  /\ inDepot = [r \in Requests |-> NoRow]
  /\ number = [r \in Requests |-> 0]

-----------------------------------------------------------------------------
(* Requests                                                                *)

Active(r)   == pc[r] \notin {"idle", "done", "refused"}
At(r, o, l) == call[r].op = o /\ pc[r] = l
Current(r)  == call[r].lines[line[r]]
Article(r)  == Current(r).item
Amount(r)   == Current(r).quantity
Articles(c) == {c.lines[n].item : n \in DOMAIN c.lines}

Proceed(r, l) == pc' = [pc EXCEPT ![r] = l] /\ UNCHANGED <<pend, open>>

(* Mutant of Refuse: the transaction is left open.                         *)
RefuseKeepsLocks(r) == pc' = [pc EXCEPT ![r] = "refused"] /\ UNCHANGED <<pend, open>>

(* The handler throws or the transaction fails: the pending balance writes *)
(* are rolled back, what other calls committed stays.                      *)
Refuse(r) ==
  /\ pc'   = [pc EXCEPT ![r] = "refused"]
  /\ pend' = [pend EXCEPT ![r] = NoWrites]
  /\ open' = [open EXCEPT ![r] = FALSE]

(* A request arrives.  One that creates an article draws an unused id.     *)
Receive(r) ==
  \E c \in Calls :
    /\ pc[r] = "idle"
    /\ Apart => \A o \in Requests : Active(o) => Articles(call[o]) \cap Articles(c) = {}
    /\ c.op = "create" => Articles(c) \subseteq fresh
    /\ fresh' = IF c.op = "create" THEN fresh \ Articles(c) ELSE fresh
    /\ call' = [call EXCEPT ![r] = c]
    /\ pc' = [pc EXCEPT ![r] = "item"]
    /\ open' = [open EXCEPT ![r] = c.op # "remove"]
    /\ UNCHANGED <<items, qty, bal, movements, lastNumber, invoices, pend,
                    line, onHand, inDepot, number>>

-----------------------------------------------------------------------------
(* The handler's transaction on StockBalance                               *)

View(r, k)    == IF pend[r][k] # NoRow THEN pend[r][k] ELSE bal[k]
Blocked(r, k) == \E o \in Requests \ {r} : pend[o][k] # NoRow
KeyAt(r, d)   == <<Article(r), d>>

InDepotNow(r, d) == View(r, KeyAt(r, d))

(* tx.stockBalance.findUnique: an answer, unless the transaction expired;  *)
(* the handler goes on if the answer is accepted.                          *)
ReadBalance(r, d, accepted, next) ==
  /\ IF open[r] /\ accepted
       THEN Proceed(r, next) /\ inDepot' = [inDepot EXCEPT ![r] = InDepotNow(r, d)]
       ELSE Refuse(r) /\ UNCHANGED inDepot
  /\ UNCHANGED <<store, call, line, onHand, number>>

(* tx.stockBalance.update of the row that was read, or .create where none  *)
(* was: it waits for the row's lock, then fails with P2025 if the row is   *)
(* gone, with P2002 if another request has created it.                     *)
WriteBalance(r, d, v, next) ==
  LET k    == KeyAt(r, d)
      Fits == /\ open[r]
              /\ Article(r) \in items
              /\ (inDepot[r] = NoRow) <=> (View(r, k) = NoRow)
  IN  /\ open[r] => ~Blocked(r, k)
      /\ IF Fits
           THEN /\ pend' = [pend EXCEPT ![r][k] = v]
                /\ pc' = [pc EXCEPT ![r] = next]
                /\ UNCHANGED open
           ELSE Refuse(r)
      /\ UNCHANGED <<store, local>>

Commit(r) ==
  /\ pc[r] = "commit"
  /\ IF open[r]
       THEN /\ bal'  = [k \in Keys |-> View(r, k)]
            /\ pend' = [pend EXCEPT ![r] = NoWrites]
            /\ open' = [open EXCEPT ![r] = FALSE]
            /\ pc'   = [pc EXCEPT ![r] = "done"]
       ELSE Refuse(r) /\ UNCHANGED bal
  /\ UNCHANGED <<items, fresh, qty, movements, lastNumber, invoices, local>>

-----------------------------------------------------------------------------
(* Calls that commit on their own                                          *)

(* tx.stockMovement.create: refused when the article is gone.              *)
Journal(r, kind, from, to, next) ==
  /\ IF Article(r) \in items
       THEN /\ movements' = movements \cup
                 {[by |-> r, line |-> line[r], item |-> Article(r), kind |-> kind,
                   quantity |-> Amount(r), from |-> from, to |-> to]}
            /\ Proceed(r, next)
       ELSE Refuse(r) /\ UNCHANGED movements
  /\ UNCHANGED <<items, fresh, qty, bal, lastNumber, invoices, local>>

(* tx.stockItem.update of the quantity, an absolute value.                 *)
StoreQuantity(r, v) == qty' = [qty EXCEPT ![Article(r)] = v]

-----------------------------------------------------------------------------
(* create: the article commits first, its balance with the transaction.    *)

CreateItem(r) ==
  /\ At(r, "create", "item")
  /\ items' = items \cup {Article(r)}
  /\ StoreQuantity(r, Amount(r))
  /\ Proceed(r, IF call[r].depot # NoDepot /\ Amount(r) > 0 THEN "credit" ELSE "commit")
  /\ UNCHANGED <<fresh, bal, movements, lastNumber, invoices, local>>

CreateBalance(r) ==
  /\ At(r, "create", "credit")
  /\ WriteBalance(r, call[r].depot, Amount(r), "commit")

(* remove: refused when the article has movements; the delete cascades to  *)
(* its balances and movements and waits for the locks on them.             *)

RemoveRead(r) ==
  /\ At(r, "remove", "item")
  /\ IF Article(r) \in items /\ ~\E m \in movements : m.item = Article(r)
       THEN Proceed(r, "delete")
       ELSE Refuse(r)
  /\ UNCHANGED <<store, local>>

RemoveDelete(r) ==
  /\ At(r, "remove", "delete")
  /\ \A o \in Requests, d \in Depots : pend[o][KeyAt(r, d)] = NoRow
  /\ items' = items \ {Article(r)}
  /\ bal' = [k \in Keys |-> IF k[1] = Article(r) THEN NoRow ELSE bal[k]]
  /\ movements' = {m \in movements : m.item # Article(r)}
  /\ IF Article(r) \in items THEN Proceed(r, "done") ELSE Refuse(r)
  /\ UNCHANGED <<fresh, qty, lastNumber, invoices, local>>

-----------------------------------------------------------------------------
(* transferStock                                                           *)

(* Mutant of Enough: the quantity is not compared.                         *)
EnoughIfAny(r, v) == v # NoRow

Enough(r, v) == v # NoRow /\ v >= Amount(r)

TransferReadItem(r) ==
  /\ At(r, "transfer", "item")
  /\ IF Article(r) \in items THEN Proceed(r, "balance") ELSE Refuse(r)
  /\ UNCHANGED <<store, local>>

TransferReadSource(r) ==
  /\ At(r, "transfer", "balance")
  /\ ReadBalance(r, call[r].depot, Enough(r, InDepotNow(r, call[r].depot)), "debit")

TransferDebit(r) ==
  /\ At(r, "transfer", "debit")
  /\ WriteBalance(r, call[r].depot, inDepot[r] - Amount(r), "dest")

TransferReadDest(r) ==
  /\ At(r, "transfer", "dest")
  /\ ReadBalance(r, call[r].dest, TRUE, "credit")

Base(r) == IF inDepot[r] = NoRow THEN 0 ELSE inDepot[r]

TransferCredit(r) ==
  /\ At(r, "transfer", "credit")
  /\ WriteBalance(r, call[r].dest, Base(r) + Amount(r), "journal")

TransferJournalOut(r) ==
  /\ At(r, "transfer", "journal")
  /\ Journal(r, "OUT", call[r].depot, call[r].dest, "journalIn")

(* Mutant of TransferJournalIn: the incoming movement is not filed.        *)
TransferJournalsOutOnly(r) ==
  At(r, "transfer", "journalIn") /\ Proceed(r, "commit") /\ UNCHANGED <<store, local>>

TransferJournalIn(r) ==
  /\ At(r, "transfer", "journalIn")
  /\ Journal(r, "IN", call[r].depot, call[r].dest, "commit")

-----------------------------------------------------------------------------
(* recordMovement: IN and OUT move the quantity by the amount, ADJUSTMENT  *)
(* sets the balance to the amount and moves the quantity by the difference.*)

Delta(r, base) ==
  CASE call[r].kind = "IN"         -> Amount(r)
    [] call[r].kind = "OUT"        -> -Amount(r)
    [] call[r].kind = "ADJUSTMENT" -> Amount(r) - base

MovementReadItem(r) ==
  /\ At(r, "movement", "item")
  /\ IF /\ Article(r) \in items
        /\ call[r].depot = NoDepot => qty[Article(r)] + Delta(r, 0) >= 0
       THEN /\ Proceed(r, IF call[r].depot = NoDepot THEN "journal" ELSE "balance")
            /\ onHand' = [onHand EXCEPT ![r] = qty[Article(r)]]
       ELSE Refuse(r) /\ UNCHANGED onHand
  /\ UNCHANGED <<store, call, line, inDepot, number>>

(* Mutant of MovementFits: the depot's balance may go below zero.          *)
MovementFitsShop(r, v) ==
  (v = NoRow => call[r].kind # "OUT") /\ onHand[r] + Delta(r, IF v = NoRow THEN 0 ELSE v) >= 0

MovementFits(r, v) ==
  LET base == IF v = NoRow THEN 0 ELSE v
  IN  /\ v = NoRow => call[r].kind # "OUT"
      /\ onHand[r] + Delta(r, base) >= 0
      /\ base + Delta(r, base) >= 0

MovementReadBalance(r) ==
  /\ At(r, "movement", "balance")
  /\ ReadBalance(r, call[r].depot, MovementFits(r, InDepotNow(r, call[r].depot)), "journal")

(* Mutant of MovementJournal: the movement is not filed.                   *)
MovementUnjournaled(r) ==
  /\ At(r, "movement", "journal")
  /\ Proceed(r, IF call[r].depot = NoDepot THEN "store" ELSE "credit")
  /\ UNCHANGED <<store, local>>

MovementJournal(r) ==
  /\ At(r, "movement", "journal")
  /\ Journal(r, call[r].kind,
             IF call[r].kind = "OUT" THEN call[r].depot ELSE NoDepot,
             IF call[r].kind = "IN"  THEN call[r].depot ELSE NoDepot,
             IF call[r].depot = NoDepot THEN "store" ELSE "credit")

(* Mutant of MovementWriteBalance: the amount replaces the balance.        *)
MovementSetsBalance(r) ==
  /\ At(r, "movement", "credit")
  /\ WriteBalance(r, call[r].depot, Amount(r), "store")

MovementWriteBalance(r) ==
  /\ At(r, "movement", "credit")
  /\ WriteBalance(r, call[r].depot, Base(r) + Delta(r, Base(r)), "store")

MovementStoreItem(r) ==
  /\ At(r, "movement", "store")
  /\ IF Article(r) \in items
       THEN StoreQuantity(r, onHand[r] + Delta(r, Base(r))) /\ Proceed(r, "commit")
       ELSE Refuse(r) /\ UNCHANGED qty
  /\ UNCHANGED <<items, fresh, bal, movements, lastNumber, invoices, local>>

-----------------------------------------------------------------------------
(* recordDirectSale: the lines in turn, then the invoice when asked for.   *)

SaleReadItem(r) ==
  /\ At(r, "sale", "item")
  /\ IF Article(r) \in items /\ qty[Article(r)] >= Amount(r)
       THEN /\ Proceed(r, IF call[r].depot = NoDepot THEN "journal" ELSE "balance")
            /\ onHand' = [onHand EXCEPT ![r] = qty[Article(r)]]
       ELSE Refuse(r) /\ UNCHANGED onHand
  /\ UNCHANGED <<store, call, line, inDepot, number>>

SaleReadBalance(r) ==
  /\ At(r, "sale", "balance")
  /\ ReadBalance(r, call[r].depot, Enough(r, InDepotNow(r, call[r].depot)), "debit")

SaleDebit(r) ==
  /\ At(r, "sale", "debit")
  /\ WriteBalance(r, call[r].depot, inDepot[r] - Amount(r), "journal")

(* Mutant of SaleJournal: the sale is not filed.                           *)
SaleUnjournaled(r) ==
  At(r, "sale", "journal") /\ Proceed(r, "store") /\ UNCHANGED <<store, local>>

SaleJournal(r) ==
  /\ At(r, "sale", "journal")
  /\ Journal(r, "OUT", call[r].depot, NoDepot, "store")

(* Mutant of NextLine: the loop runs past the last line.                   *)
NextLineUnbounded(r) == line[r] + 1

NextLine(r) == IF line[r] = Len(call[r].lines) THEN line[r] ELSE line[r] + 1

SaleStoreItem(r) ==
  LET last == line[r] = Len(call[r].lines)
  IN  /\ At(r, "sale", "store")
      /\ IF Article(r) \in items
           THEN /\ StoreQuantity(r, onHand[r] - Amount(r))
                /\ line' = [line EXCEPT ![r] = NextLine(r)]
                /\ Proceed(r, CASE ~last            -> "item"
                                [] last /\ call[r].invoice  -> "number"
                                [] last /\ ~call[r].invoice -> "commit")
           ELSE Refuse(r) /\ UNCHANGED <<qty, line>>
      /\ UNCHANGED <<items, fresh, bal, movements, lastNumber, invoices,
                     call, onHand, inDepot, number>>

SaleNumber(r) ==
  /\ At(r, "sale", "number")
  /\ lastNumber' = lastNumber + 1
  /\ number' = [number EXCEPT ![r] = lastNumber + 1]
  /\ Proceed(r, "invoice")
  /\ UNCHANGED <<items, fresh, qty, bal, movements, invoices, call, line, onHand, inDepot>>

SaleInvoice(r) ==
  /\ At(r, "sale", "invoice")
  /\ invoices' = invoices \cup {[number |-> number[r], by |-> r]}
  /\ Proceed(r, "commit")
  /\ UNCHANGED <<items, fresh, qty, bal, movements, lastNumber, local>>

-----------------------------------------------------------------------------
(* Failures                                                                *)

(* A database call fails, or the process dies: the handler's transaction   *)
(* is rolled back.  A crash is a Fail of every request in flight.          *)
Fail(r) ==
  /\ Faults /\ Active(r)
  /\ Refuse(r)
  /\ UNCHANGED <<store, local>>

(* The handler's transaction reaches its time limit and is rolled back     *)
(* while the handler goes on: its calls on tenant-scoped models still      *)
(* commit, the next one on StockBalance and the commit fail.               *)
Expire(r) ==
  /\ Faults /\ open[r]
  /\ open' = [open EXCEPT ![r] = FALSE]
  /\ pend' = [pend EXCEPT ![r] = NoWrites]
  /\ UNCHANGED <<store, pc, local>>

(* The balance row a request is about to write, if that is its next call.  *)
Wanted(r) ==
  CASE pc[r] = "debit" -> {KeyAt(r, call[r].depot)}
    [] pc[r] = "credit" ->
         {KeyAt(r, IF call[r].op = "transfer" THEN call[r].dest ELSE call[r].depot)}
    [] OTHER -> {}

WaitsFor(r, o) == r # o /\ open[r] /\ \E k \in Wanted(r) : pend[o][k] # NoRow

(* PostgreSQL aborts one transaction of a cycle of row-lock waits.         *)
DeadlockVictim(r) ==
  /\ \E S \in SUBSET Requests :
       /\ r \in S
       /\ \A s \in S : (\E o \in S : WaitsFor(s, o)) /\ (\E o \in S : WaitsFor(o, s))
  /\ Refuse(r)
  /\ UNCHANGED <<store, local>>

-----------------------------------------------------------------------------
Handler(r) ==
  \/ Receive(r) \/ Commit(r)
  \/ CreateItem(r) \/ CreateBalance(r)
  \/ RemoveRead(r) \/ RemoveDelete(r)
  \/ TransferReadItem(r) \/ TransferReadSource(r) \/ TransferDebit(r)
  \/ TransferReadDest(r) \/ TransferCredit(r)
  \/ TransferJournalOut(r) \/ TransferJournalIn(r)
  \/ MovementReadItem(r) \/ MovementReadBalance(r) \/ MovementJournal(r)
  \/ MovementWriteBalance(r) \/ MovementStoreItem(r)
  \/ SaleReadItem(r) \/ SaleReadBalance(r) \/ SaleDebit(r)
  \/ SaleJournal(r) \/ SaleStoreItem(r) \/ SaleNumber(r) \/ SaleInvoice(r)

Quiet == \A r \in Requests : pc[r] \in {"done", "refused"}

(* Every request has been answered: nothing is left to do.                 *)
AllAnswered == Quiet /\ UNCHANGED vars

Next ==
  \/ \E r \in Requests : Handler(r) \/ Fail(r) \/ Expire(r) \/ DeadlockVictim(r)
  \/ AllAnswered

Spec == Init /\ [][Next]_vars

(* The event loop runs every handler whose database call has answered, and *)
(* the database breaks every lock cycle.                                   *)
Fairness == \A r \in Requests : WF_vars(Handler(r)) /\ WF_vars(DeadlockVictim(r))

FairSpec == Spec /\ Fairness

-----------------------------------------------------------------------------
Labels == {"idle", "item", "balance", "debit", "dest", "credit", "journal", "journalIn",
           "store", "number", "invoice", "commit", "delete", "done", "refused"}

Movement == [by : Requests, line : Nat, item : Items, kind : {"IN", "OUT", "ADJUSTMENT"},
             quantity : Nat, from : Depots \cup {NoDepot}, to : Depots \cup {NoDepot}]

(* Every variable keeps its type, whatever the calls and the faults: the   *)
(* line in hand is always a line of the request's DTO.                     *)
TypeOK ==
  /\ items \subseteq Items
  /\ fresh \subseteq Items
  /\ qty \in [Items -> Int]
  /\ bal \in [Keys -> Rows]
  /\ movements \subseteq Movement
  /\ lastNumber \in Nat
  /\ invoices \subseteq [number : Nat, by : Requests]
  /\ pend \in [Requests -> [Keys -> Rows]]
  /\ open \in [Requests -> BOOLEAN]
  /\ pc \in [Requests -> Labels]
  /\ call \in [Requests -> Calls]
  /\ line \in [Requests -> Nat]
  /\ \A r \in Requests : line[r] \in 1 .. Len(call[r].lines)
  /\ onHand \in [Requests -> Int]
  /\ inDepot \in [Requests -> Rows]
  /\ number \in [Requests -> Nat]

(* quincaillerie-stock.service.ts:97, 192, 247, 255 check what was read    *)
(* before anything is written, and the writes are absolute: whatever the   *)
(* interleaving and the faults, no quantity on hand and no depot balance   *)
(* goes below zero, although every check may be stale when it is used.     *)
NonNegative ==
  /\ \A i \in Items : qty[i] >= 0
  /\ \A k \in Keys : bal[k] # NoRow => bal[k] >= 0

(* The movement is written before the quantity: a step that changes the    *)
(* quantity on hand of an article finds on file the movement of the same   *)
(* request and sale line, so that no fault leaves an untraced change.      *)
Traced(i) == \E m \in movements : /\ m.item = i /\ m.line = line[m.by]
                                 /\ pc[m.by] = "store" /\ pc'[m.by] # "store"

ChangesJournaled ==
  [][\A i \in items \cap items' : qty'[i] # qty[i] => Traced(i)]_vars
=============================================================================
