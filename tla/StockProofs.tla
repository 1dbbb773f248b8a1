----------------------------- MODULE StockProofs -----------------------------
(***************************************************************************)
(* Proofs about module Stock and its books, for every shop, set of         *)
(* requests and faults.                                                    *)
(***************************************************************************)
EXTENDS StockBooks, SumProofs

USE SentinelsAssumption, CallsAssumption, OpeningAssumption

(* The line in hand is well formed: an article, a non-negative amount, and *)
(* depots to work with.                                                    *)
LEMMA LineInHand ==
  ASSUME TypeOK, NEW r \in Requests
  PROVE  /\ call[r] \in Call /\ call[r] \in Calls
         /\ line[r] \in DOMAIN call[r].lines
         /\ Current(r) \in Line
         /\ Article(r) \in Items
         /\ Amount(r) \in Nat
         /\ \A d \in Depots : KeyAt(r, d) \in Keys
<1>1. call[r] \in Calls /\ call[r] \in Call
  BY DEF TypeOK
<1>2. call[r].lines \in Seq(Line) /\ line[r] \in 1 .. Len(call[r].lines)
  BY <1>1 DEF TypeOK, Call
<1>3. line[r] \in DOMAIN call[r].lines /\ Current(r) \in Line
  BY <1>2 DEF Current
<1>4. QED
  BY <1>1, <1>3 DEF Article, Amount, KeyAt, Keys, Line

LEMMA TypeInit == Init => TypeOK
<1> SUFFICES ASSUME Init PROVE TypeOK
  OBVIOUS
<1>1. (CHOOSE c \in Calls : TRUE) \in Calls
  OBVIOUS
<1>2. call \in [Requests -> Calls]
  BY <1>1 DEF Init
<1>3. \A r \in Requests : line[r] = 1 /\ Len(call[r].lines) > 0 /\ call[r].lines \in Seq(Line)
  BY <1>2 DEF Init, Call
<1>4. \A r \in Requests : line[r] \in 1 .. Len(call[r].lines)
  BY <1>3
<1>5. OpeningBalance \in [Keys -> Rows] /\ OpeningQuantity \in [Items -> Int]
  BY DEF Rows
<1>6. pend \in [Requests -> [Keys -> Rows]]
  BY DEF Init, NoWrites, Rows
<1>7. QED
  BY <1>2, <1>4, <1>5, <1>6 DEF Init, TypeOK, Labels, Rows

LEMMA RowFacts == NoRow \in Rows /\ \A n \in Int : n \in Rows /\ n # NoRow
  BY DEF Rows

-----------------------------------------------------------------------------
(* Types, operator by operator                                             *)

(* A request starts at its first line, reads or writes a balance of the    *)
(* depot its call names, and debits a balance it has read.                 *)
RequestOK ==
  \A r \in Requests :
    /\ pc[r] = "idle" => line[r] = 1
    /\ pc[r] \in {"balance", "debit", "dest", "credit"} => call[r].depot \in Depots
    /\ pc[r] = "debit" => inDepot[r] \in Int

TypeInv == TypeOK /\ RequestOK

(* What a request's progress may do to pc, pend and open.                  *)
ControlOK ==
  /\ pc' \in [Requests -> Labels]
  /\ pend' \in [Requests -> [Keys -> Rows]]
  /\ open' \in [Requests -> BOOLEAN]

LEMMA RefuseType ==
  ASSUME TypeOK, NEW r \in Requests, Refuse(r) PROVE ControlOK
<1>1. NoWrites \in [Keys -> Rows]
  BY RowFacts DEF NoWrites
<1>2. QED
  BY <1>1 DEF ControlOK, Refuse, TypeOK, Labels

LEMMA ProceedType ==
  ASSUME TypeOK, NEW r \in Requests, NEW l \in Labels, Proceed(r, l) PROVE ControlOK
BY DEF ControlOK, Proceed, TypeOK

LEMMA WriteBalanceType ==
  ASSUME TypeOK, NEW r \in Requests, NEW d, NEW v \in Rows, NEW next \in Labels,
         WriteBalance(r, d, v, next)
  PROVE  TypeOK'
<1>1. ControlOK
  <2>1. CASE Refuse(r)
    BY <2>1, RefuseType
  <2>2. CASE /\ pend' = [pend EXCEPT ![r][KeyAt(r, d)] = v]
             /\ pc' = [pc EXCEPT ![r] = next]
             /\ UNCHANGED open
    BY <2>2 DEF TypeOK, ControlOK
  <2>3. QED
    BY <2>1, <2>2 DEF WriteBalance
<1>2. QED
  BY <1>1 DEF ControlOK, TypeOK, WriteBalance, store, local

LEMMA ViewType ==
  ASSUME TypeOK, NEW r \in Requests, NEW k \in Keys PROVE View(r, k) \in Rows
BY DEF TypeOK, View

LEMMA ReadBalanceType ==
  ASSUME TypeOK, NEW r \in Requests, NEW d \in Depots, NEW next \in Labels,
         \/ /\ Proceed(r, next)
            /\ inDepot' = [inDepot EXCEPT ![r] = View(r, KeyAt(r, d))]
         \/ Refuse(r) /\ UNCHANGED inDepot,
         UNCHANGED <<store, call, line, onHand, number>>
  PROVE  TypeOK'
<1>1. ControlOK
  BY ProceedType, RefuseType
<1>2. View(r, KeyAt(r, d)) \in Rows
  BY LineInHand, ViewType
<1>3. inDepot' \in [Requests -> Rows]
  BY <1>2 DEF TypeOK
<1>4. QED
  BY <1>1, <1>3 DEF ControlOK, TypeOK, store

LEMMA JournalType ==
  ASSUME TypeOK, NEW r \in Requests, NEW kind \in {"IN", "OUT", "ADJUSTMENT"},
         NEW from \in Depots \cup {NoDepot}, NEW to \in Depots \cup {NoDepot},
         NEW next \in Labels, Journal(r, kind, from, to, next)
  PROVE  TypeOK'
<1>1. ControlOK
  BY ProceedType, RefuseType DEF Journal
<1>2. [by |-> r, line |-> line[r], item |-> Article(r), kind |-> kind,
       quantity |-> Amount(r), from |-> from, to |-> to] \in Movement
  BY LineInHand DEF Movement, TypeOK
<1>3. movements' \subseteq Movement
  BY <1>2 DEF Journal, TypeOK
<1>4. QED
  BY <1>1, <1>3 DEF ControlOK, TypeOK, Journal, local

(* What the handlers compute from what they read.                          *)
LEMMA ComputedTypes ==
  ASSUME TypeOK, NEW r \in Requests
  PROVE  /\ Base(r) \in Int
         /\ \A b \in Int : Delta(r, b) \in Int
         /\ call[r].kind \in {"IN", "OUT", "ADJUSTMENT"}
         /\ call[r].depot \in Depots \cup {NoDepot}
         /\ call[r].dest \in Depots \cup {NoDepot}
         /\ call[r].op = "transfer" => call[r].depot \in Depots /\ call[r].dest \in Depots
<1>1. call[r] \in Call /\ call[r] \in Calls /\ Amount(r) \in Nat
  BY LineInHand
<1>2. inDepot[r] \in Int \cup {NoRow}
  BY DEF TypeOK, Rows
<1>3. call[r].kind \in {"IN", "OUT", "ADJUSTMENT"}
  BY <1>1 DEF Call
<1>4. QED
  BY <1>1, <1>2, <1>3 DEF Base, Delta, Call

-----------------------------------------------------------------------------
(* Types, action by action                                                 *)

LEMMA TypeStep == TypeInv /\ [Next]_vars => TypeOK'
<1> SUFFICES ASSUME TypeOK, RequestOK, [Next]_vars PROVE TypeOK'
  BY DEF TypeInv
<1>1. CASE UNCHANGED vars
  BY <1>1 DEF vars, store, local, TypeOK
<1>2. ASSUME NEW r \in Requests, Receive(r) PROVE TypeOK'
  <2>1. PICK c \in Calls : Receive(r)!(c)
    BY <1>2 DEF Receive
  <2>2. 1 \in 1 .. Len(c.lines) /\ line[r] = 1
    BY <2>1 DEF RequestOK, Call
  <2>3. call' \in [Requests -> Calls] /\ \A o \in Requests : line'[o] \in 1 .. Len(call'[o].lines)
    BY <2>1, <2>2 DEF TypeOK
  <2>4. QED
    BY <2>1, <2>3 DEF TypeOK, Labels
<1>3. ASSUME NEW r \in Requests, Commit(r) PROVE TypeOK'
  <2>1. CASE open[r]
    <3>1. bal' \in [Keys -> Rows]
      BY <1>3, <2>1, ViewType DEF Commit
    <3> NoWrites \in [Keys -> Rows]
      BY RowFacts DEF NoWrites
    <3>2. /\ pend' = [pend EXCEPT ![r] = NoWrites]
          /\ open' = [open EXCEPT ![r] = FALSE]
          /\ pc' = [pc EXCEPT ![r] = "done"]
      BY <1>3, <2>1 DEF Commit
    <3>3. ControlOK
      BY <3>2 DEF ControlOK, TypeOK, Labels
    <3>4. QED
      BY <1>3, <3>1, <3>3 DEF Commit, ControlOK, TypeOK, local
  <2>2. CASE ~open[r]
    BY <1>3, <2>2, RefuseType DEF Commit, ControlOK, TypeOK, local
  <2>3. open[r] \in BOOLEAN
    BY DEF TypeOK
  <2>4. QED
    BY <2>1, <2>2, <2>3
<1>4. ASSUME NEW r \in Requests, CreateItem(r) PROVE TypeOK'
  <2>1. ControlOK
    BY <1>4, ProceedType DEF CreateItem, Labels
  <2>2. qty' \in [Items -> Int]
    BY <1>4, LineInHand DEF CreateItem, StoreQuantity, TypeOK
  <2>3. QED
    BY <1>4, <2>1, <2>2, LineInHand DEF CreateItem, ControlOK, TypeOK, local
<1>5. ASSUME NEW r \in Requests, CreateBalance(r) PROVE TypeOK'
  BY <1>5, WriteBalanceType, LineInHand, RowFacts DEF CreateBalance, Labels
<1>6. ASSUME NEW r \in Requests, RemoveRead(r) PROVE TypeOK'
  BY <1>6, ProceedType, RefuseType DEF TypeOK, ControlOK, RemoveRead, store, local, Labels
<1>7. ASSUME NEW r \in Requests, RemoveDelete(r) PROVE TypeOK'
  BY <1>7, ProceedType, RefuseType, RowFacts DEF TypeOK, ControlOK, RemoveDelete, local, Labels
<1>8. ASSUME NEW r \in Requests, TransferReadItem(r) PROVE TypeOK'
  BY <1>8, ProceedType, RefuseType DEF TypeOK, ControlOK, TransferReadItem, store, local, Labels
<1>9. ASSUME NEW r \in Requests, TransferReadSource(r) PROVE TypeOK'
  BY <1>9, ReadBalanceType, ComputedTypes DEF TransferReadSource, ReadBalance, InDepotNow, At, Labels
<1>10. ASSUME NEW r \in Requests, TransferDebit(r) PROVE TypeOK'
  BY <1>10, WriteBalanceType, LineInHand, RowFacts DEF TransferDebit, RequestOK, At, Labels
<1>11. ASSUME NEW r \in Requests, TransferReadDest(r) PROVE TypeOK'
  BY <1>11, ReadBalanceType, ComputedTypes DEF TransferReadDest, ReadBalance, InDepotNow, At, Labels
<1>12. ASSUME NEW r \in Requests, TransferCredit(r) PROVE TypeOK'
  BY <1>12, WriteBalanceType, ComputedTypes, LineInHand, RowFacts DEF TransferCredit, At, Labels
<1>13. ASSUME NEW r \in Requests, TransferJournalOut(r) PROVE TypeOK'
  BY <1>13, JournalType, ComputedTypes DEF TransferJournalOut, At, Labels
<1>14. ASSUME NEW r \in Requests, TransferJournalIn(r) PROVE TypeOK'
  BY <1>14, JournalType, ComputedTypes DEF TransferJournalIn, At, Labels
<1>15. ASSUME NEW r \in Requests, MovementReadItem(r) PROVE TypeOK'
  <2>1. ControlOK
    BY <1>15, ProceedType, RefuseType DEF MovementReadItem, Labels
  <2>2. onHand' \in [Requests -> Int]
    BY <1>15, LineInHand DEF MovementReadItem, StoreQuantity, TypeOK
  <2>3. QED
    BY <1>15, <2>1, <2>2 DEF MovementReadItem, ControlOK, TypeOK, store
<1>16. ASSUME NEW r \in Requests, MovementReadBalance(r) PROVE TypeOK'
  BY <1>16, ReadBalanceType DEF MovementReadBalance, ReadBalance, InDepotNow, RequestOK, At, Labels
<1>17. ASSUME NEW r \in Requests, MovementJournal(r) PROVE TypeOK'
  BY <1>17, JournalType, ComputedTypes DEF MovementJournal, Labels
<1>18. ASSUME NEW r \in Requests, MovementWriteBalance(r) PROVE TypeOK'
  BY <1>18, WriteBalanceType, ComputedTypes, RowFacts DEF MovementWriteBalance, Labels
<1>19. ASSUME NEW r \in Requests, MovementStoreItem(r) PROVE TypeOK'
  <2>1. ControlOK
    BY <1>19, ProceedType, RefuseType DEF MovementStoreItem, Labels
  <2>2. qty' \in [Items -> Int]
    <3>1. onHand[r] + Delta(r, Base(r)) \in Int
      <4>1. onHand[r] \in Int
        BY DEF TypeOK
      <4>2. Delta(r, Base(r)) \in Int
        BY ComputedTypes
      <4>3. QED
        BY <4>1, <4>2
    <3>2. QED
      BY <1>19, <3>1 DEF MovementStoreItem, StoreQuantity, TypeOK
  <2>3. QED
    BY <1>19, <2>1, <2>2 DEF MovementStoreItem, ControlOK, TypeOK, local
<1>20. ASSUME NEW r \in Requests, SaleReadItem(r) PROVE TypeOK'
  <2>1. ControlOK
    BY <1>20, ProceedType, RefuseType DEF SaleReadItem, Labels
  <2>2. onHand' \in [Requests -> Int]
    BY <1>20, LineInHand DEF SaleReadItem, StoreQuantity, TypeOK
  <2>3. QED
    BY <1>20, <2>1, <2>2 DEF SaleReadItem, ControlOK, TypeOK, store
<1>21. ASSUME NEW r \in Requests, SaleReadBalance(r) PROVE TypeOK'
  BY <1>21, ReadBalanceType DEF SaleReadBalance, ReadBalance, InDepotNow, RequestOK, At, Labels
<1>22. ASSUME NEW r \in Requests, SaleDebit(r) PROVE TypeOK'
  BY <1>22, WriteBalanceType, LineInHand, RowFacts DEF SaleDebit, RequestOK, At, Labels
<1>23. ASSUME NEW r \in Requests, SaleJournal(r) PROVE TypeOK'
  BY <1>23, JournalType, ComputedTypes DEF SaleJournal, Labels
<1>24. ASSUME NEW r \in Requests, SaleStoreItem(r) PROVE TypeOK'
  <2>1. ControlOK
    BY <1>24, ProceedType, RefuseType DEF SaleStoreItem, Labels
  <2>2. qty' \in [Items -> Int]
    BY <1>24, LineInHand DEF SaleStoreItem, StoreQuantity, TypeOK
  <2>3. NextLine(r) \in 1 .. Len(call[r].lines)
    BY LineInHand DEF NextLine, TypeOK
  <2>4. line' = line \/ line' = [line EXCEPT ![r] = NextLine(r)]
    BY <1>24 DEF SaleStoreItem
  <2>5. line' \in [Requests -> Nat] /\ \A o \in Requests : line'[o] \in 1 .. Len(call[o].lines)
    <3>1. Len(call[r].lines) \in Nat
      BY LineInHand DEF Call
    <3>2. NextLine(r) \in Nat
      BY <2>3, <3>1
    <3>3. \A o \in Requests : line[o] \in 1 .. Len(call[o].lines)
      BY DEF TypeOK
    <3>4. line \in [Requests -> Nat]
      BY DEF TypeOK
    <3>5. QED
      BY <2>3, <2>4, <3>2, <3>3, <3>4
  <2>6. QED
    BY <1>24, <2>1, <2>2, <2>5 DEF SaleStoreItem, ControlOK, TypeOK
<1>25. ASSUME NEW r \in Requests, SaleNumber(r) PROVE TypeOK'
  BY <1>25, ProceedType DEF TypeOK, ControlOK, SaleNumber, Labels
<1>26. ASSUME NEW r \in Requests, SaleInvoice(r) PROVE TypeOK'
  BY <1>26, ProceedType DEF TypeOK, ControlOK, SaleInvoice, local, Labels
<1>27. ASSUME NEW r \in Requests, Fail(r) PROVE TypeOK'
  BY <1>27, RefuseType DEF TypeOK, ControlOK, Fail, store, local
<1>28. ASSUME NEW r \in Requests, Expire(r) PROVE TypeOK'
  <2>1. NoWrites \in [Keys -> Rows]
    BY RowFacts DEF NoWrites
  <2>2. QED
    BY <1>28, <2>1 DEF Expire, TypeOK, store, local
<1>29. ASSUME NEW r \in Requests, DeadlockVictim(r) PROVE TypeOK'
  BY <1>29, RefuseType DEF TypeOK, ControlOK, DeadlockVictim, store, local
<1>30. QED
  BY <1>1, <1>2, <1>3, <1>4, <1>5, <1>6, <1>7, <1>8, <1>9, <1>10, <1>11, <1>12, <1>13, <1>14, <1>15, <1>16, <1>17, <1>18, <1>19, <1>20, <1>21, <1>22, <1>23, <1>24, <1>25, <1>26, <1>27, <1>28, <1>29 DEF Next, Handler, AllAnswered

(* The part of a step of request r that RequestOK depends on.              *)
LEMMA RequestMoves ==
  ASSUME TypeOK, RequestOK, NEW r \in Requests, NEW l \in Labels \ {"idle"},
         pc' = [pc EXCEPT ![r] = l], UNCHANGED call,
         l \in {"balance", "debit", "dest", "credit"} => call[r].depot \in Depots,
         l = "debit" => inDepot'[r] \in Int,
         \A o \in Requests \ {r} : line'[o] = line[o] /\ inDepot'[o] = inDepot[o]
  PROVE  RequestOK'
BY DEF TypeOK, RequestOK

LEMMA RequestStep == TypeInv /\ [Next]_vars => RequestOK'
<1> SUFFICES ASSUME TypeOK, RequestOK, [Next]_vars PROVE RequestOK'
  BY DEF TypeInv
<1>1. CASE UNCHANGED vars
  BY <1>1 DEF vars, local, RequestOK
<1>2. ASSUME NEW r \in Requests, Receive(r) PROVE RequestOK'
  BY <1>2 DEF Receive, RequestOK, TypeOK
<1>3. ASSUME NEW r \in Requests, Commit(r) PROVE RequestOK'
  <2>1. \E l \in Labels \ {"idle", "debit"} :
          /\ pc' = [pc EXCEPT ![r] = l]
          /\ l \in {"balance", "dest", "credit"} => call[r].depot \in Depots
    BY <1>3, ComputedTypes DEF Commit, Proceed, Refuse, At, RequestOK, Labels
  <2>2. UNCHANGED <<call, line, inDepot>>
    BY <1>3 DEF Commit, store, local
  <2>3. QED
    BY <2>1, <2>2, RequestMoves
<1>4. ASSUME NEW r \in Requests, CreateItem(r) PROVE RequestOK'
  <2>1. \E l \in {"credit", "commit"} :
          pc' = [pc EXCEPT ![r] = l] /\ (l = "credit" => call[r].depot # NoDepot)
    BY <1>4 DEF CreateItem, Proceed
  <2>2. UNCHANGED <<call, line, inDepot>>
    BY <1>4 DEF CreateItem, local
  <2>3. QED
    BY <2>1, <2>2, ComputedTypes, RequestMoves DEF Labels
<1>5. ASSUME NEW r \in Requests, CreateBalance(r) PROVE RequestOK'
  <2>1. \E l \in Labels \ {"idle", "debit"} :
          /\ pc' = [pc EXCEPT ![r] = l]
          /\ l \in {"balance", "dest", "credit"} => call[r].depot \in Depots
    BY <1>5, ComputedTypes DEF CreateBalance, WriteBalance, Proceed, Refuse, At, RequestOK, Labels
  <2>2. UNCHANGED <<call, line, inDepot>>
    BY <1>5 DEF CreateBalance, WriteBalance, store, local
  <2>3. QED
    BY <2>1, <2>2, RequestMoves
<1>6. ASSUME NEW r \in Requests, RemoveRead(r) PROVE RequestOK'
  <2>1. \E l \in Labels \ {"idle", "debit"} :
          /\ pc' = [pc EXCEPT ![r] = l]
          /\ l \in {"balance", "dest", "credit"} => call[r].depot \in Depots
    BY <1>6, ComputedTypes DEF RemoveRead, Proceed, Refuse, At, RequestOK, Labels
  <2>2. UNCHANGED <<call, line, inDepot>>
    BY <1>6 DEF RemoveRead, store, local
  <2>3. QED
    BY <2>1, <2>2, RequestMoves
<1>7. ASSUME NEW r \in Requests, RemoveDelete(r) PROVE RequestOK'
  <2>1. \E l \in Labels \ {"idle", "debit"} :
          /\ pc' = [pc EXCEPT ![r] = l]
          /\ l \in {"balance", "dest", "credit"} => call[r].depot \in Depots
    BY <1>7, ComputedTypes DEF RemoveDelete, Proceed, Refuse, At, RequestOK, Labels
  <2>2. UNCHANGED <<call, line, inDepot>>
    BY <1>7 DEF RemoveDelete, store, local
  <2>3. QED
    BY <2>1, <2>2, RequestMoves
<1>8. ASSUME NEW r \in Requests, TransferReadItem(r) PROVE RequestOK'
  <2>1. \E l \in Labels \ {"idle", "debit"} :
          /\ pc' = [pc EXCEPT ![r] = l]
          /\ l \in {"balance", "dest", "credit"} => call[r].depot \in Depots
    BY <1>8, ComputedTypes DEF TransferReadItem, Proceed, Refuse, At, RequestOK, Labels
  <2>2. UNCHANGED <<call, line, inDepot>>
    BY <1>8 DEF TransferReadItem, store, local
  <2>3. QED
    BY <2>1, <2>2, RequestMoves
<1>9. ASSUME NEW r \in Requests, TransferReadSource(r) PROVE RequestOK'
  <2>1. call[r].depot \in Depots
    BY <1>9, ComputedTypes DEF TransferReadSource, At, RequestOK
  <2>2. View(r, KeyAt(r, call[r].depot)) \in Rows
    BY <2>1, ViewType, LineInHand
  <2>3. CASE pc' = [pc EXCEPT ![r] = "refused"] /\ UNCHANGED <<call, line, inDepot>>
    BY <2>3, RequestMoves DEF Labels
  <2>4. CASE /\ View(r, KeyAt(r, call[r].depot)) # NoRow
             /\ pc' = [pc EXCEPT ![r] = "debit"] /\ UNCHANGED <<call, line>>
             /\ inDepot' = [inDepot EXCEPT ![r] = View(r, KeyAt(r, call[r].depot))]
    <3>1. inDepot'[r] \in Int /\ \A o \in Requests \ {r} : inDepot'[o] = inDepot[o]
      BY <2>2, <2>4 DEF TypeOK, Rows
    <3>2. QED
      BY <2>1, <2>4, <3>1, RequestMoves DEF Labels
  <2>5. QED
    BY <1>9, <2>3, <2>4 DEF TransferReadSource, ReadBalance, InDepotNow, Enough, Proceed, Refuse
<1>10. ASSUME NEW r \in Requests, TransferDebit(r) PROVE RequestOK'
  <2>1. \E l \in Labels \ {"idle", "debit"} :
          /\ pc' = [pc EXCEPT ![r] = l]
          /\ l \in {"balance", "dest", "credit"} => call[r].depot \in Depots
    BY <1>10, ComputedTypes DEF TransferDebit, WriteBalance, Proceed, Refuse, At, RequestOK, Labels
  <2>2. UNCHANGED <<call, line, inDepot>>
    BY <1>10 DEF TransferDebit, WriteBalance, store, local
  <2>3. QED
    BY <2>1, <2>2, RequestMoves
<1>11. ASSUME NEW r \in Requests, TransferReadDest(r) PROVE RequestOK'
  <2>1. call[r].depot \in Depots
    BY <1>11, ComputedTypes DEF TransferReadDest, At
  <2>2. /\ UNCHANGED <<call, line>>
        /\ \A o \in Requests \ {r} : inDepot'[o] = inDepot[o]
    BY <1>11 DEF TransferReadDest, ReadBalance, TypeOK
  <2>3. \E l \in {"credit", "refused"} : pc' = [pc EXCEPT ![r] = l]
    BY <1>11 DEF TransferReadDest, ReadBalance, Proceed, Refuse
  <2>4. QED
    BY <2>1, <2>2, <2>3, RequestMoves DEF Labels
<1>12. ASSUME NEW r \in Requests, TransferCredit(r) PROVE RequestOK'
  <2>1. \E l \in Labels \ {"idle", "debit"} :
          /\ pc' = [pc EXCEPT ![r] = l]
          /\ l \in {"balance", "dest", "credit"} => call[r].depot \in Depots
    BY <1>12, ComputedTypes DEF TransferCredit, WriteBalance, Proceed, Refuse, At, RequestOK, Labels
  <2>2. UNCHANGED <<call, line, inDepot>>
    BY <1>12 DEF TransferCredit, WriteBalance, store, local
  <2>3. QED
    BY <2>1, <2>2, RequestMoves
<1>13. ASSUME NEW r \in Requests, TransferJournalOut(r) PROVE RequestOK'
  <2>1. \E l \in Labels \ {"idle", "debit", "dest"} :
          pc' = [pc EXCEPT ![r] = l] /\ (l \in {"balance", "credit"} => call[r].depot \in Depots)
    BY <1>13, ComputedTypes DEF TransferJournalOut, Journal, Proceed, Refuse, Labels
  <2>2. UNCHANGED <<call, line, inDepot>>
    BY <1>13 DEF TransferJournalOut, Journal, local
  <2>3. QED
    BY <2>1, <2>2, RequestMoves
<1>14. ASSUME NEW r \in Requests, TransferJournalIn(r) PROVE RequestOK'
  <2>1. \E l \in Labels \ {"idle", "debit", "dest"} :
          pc' = [pc EXCEPT ![r] = l] /\ (l \in {"balance", "credit"} => call[r].depot \in Depots)
    BY <1>14, ComputedTypes DEF TransferJournalIn, Journal, Proceed, Refuse, Labels
  <2>2. UNCHANGED <<call, line, inDepot>>
    BY <1>14 DEF TransferJournalIn, Journal, local
  <2>3. QED
    BY <2>1, <2>2, RequestMoves
<1>15. ASSUME NEW r \in Requests, MovementReadItem(r) PROVE RequestOK'
  <2>1. \E l \in Labels \ {"idle", "debit", "dest"} :
          pc' = [pc EXCEPT ![r] = l] /\ (l \in {"balance", "credit"} => call[r].depot \in Depots)
    BY <1>15, ComputedTypes DEF MovementReadItem, Proceed, Refuse, Labels
  <2>2. UNCHANGED <<call, line, inDepot>>
    BY <1>15 DEF MovementReadItem, store
  <2>3. QED
    BY <2>1, <2>2, RequestMoves
<1>16. ASSUME NEW r \in Requests, MovementReadBalance(r) PROVE RequestOK'
  BY <1>16, ComputedTypes DEF MovementReadBalance, ReadBalance, InDepotNow, Proceed, Refuse, At, store, local, RequestOK, TypeOK, Labels
<1>17. ASSUME NEW r \in Requests, MovementJournal(r) PROVE RequestOK'
  <2>1. \E l \in Labels \ {"idle", "debit", "dest"} :
          pc' = [pc EXCEPT ![r] = l] /\ (l \in {"balance", "credit"} => call[r].depot \in Depots)
    BY <1>17, ComputedTypes DEF MovementJournal, Journal, Proceed, Refuse, Labels
  <2>2. UNCHANGED <<call, line, inDepot>>
    BY <1>17 DEF MovementJournal, Journal, local
  <2>3. QED
    BY <2>1, <2>2, RequestMoves
<1>18. ASSUME NEW r \in Requests, MovementWriteBalance(r) PROVE RequestOK'
  <2>1. \E l \in Labels \ {"idle", "debit"} :
          /\ pc' = [pc EXCEPT ![r] = l]
          /\ l \in {"balance", "dest", "credit"} => call[r].depot \in Depots
    BY <1>18, ComputedTypes DEF MovementWriteBalance, WriteBalance, Proceed, Refuse, At, RequestOK, Labels
  <2>2. UNCHANGED <<call, line, inDepot>>
    BY <1>18 DEF MovementWriteBalance, WriteBalance, store, local
  <2>3. QED
    BY <2>1, <2>2, RequestMoves
<1>19. ASSUME NEW r \in Requests, MovementStoreItem(r) PROVE RequestOK'
  <2>1. \E l \in Labels \ {"idle", "debit"} :
          /\ pc' = [pc EXCEPT ![r] = l]
          /\ l \in {"balance", "dest", "credit"} => call[r].depot \in Depots
    BY <1>19, ComputedTypes DEF MovementStoreItem, Proceed, Refuse, At, RequestOK, Labels
  <2>2. UNCHANGED <<call, line, inDepot>>
    BY <1>19 DEF MovementStoreItem, store, local
  <2>3. QED
    BY <2>1, <2>2, RequestMoves
<1>20. ASSUME NEW r \in Requests, SaleReadItem(r) PROVE RequestOK'
  <2>1. \E l \in Labels \ {"idle", "debit", "dest"} :
          pc' = [pc EXCEPT ![r] = l] /\ (l \in {"balance", "credit"} => call[r].depot \in Depots)
    BY <1>20, ComputedTypes DEF SaleReadItem, Proceed, Refuse, Labels
  <2>2. UNCHANGED <<call, line, inDepot>>
    BY <1>20 DEF SaleReadItem, store
  <2>3. QED
    BY <2>1, <2>2, RequestMoves
<1>21. ASSUME NEW r \in Requests, SaleReadBalance(r) PROVE RequestOK'
  <2>1. call[r].depot \in Depots
    BY <1>21, ComputedTypes DEF SaleReadBalance, At, RequestOK
  <2>2. View(r, KeyAt(r, call[r].depot)) \in Rows
    BY <2>1, ViewType, LineInHand
  <2>3. CASE pc' = [pc EXCEPT ![r] = "refused"] /\ UNCHANGED <<call, line, inDepot>>
    BY <2>3, RequestMoves DEF Labels
  <2>4. CASE /\ View(r, KeyAt(r, call[r].depot)) # NoRow
             /\ pc' = [pc EXCEPT ![r] = "debit"] /\ UNCHANGED <<call, line>>
             /\ inDepot' = [inDepot EXCEPT ![r] = View(r, KeyAt(r, call[r].depot))]
    <3>1. inDepot'[r] \in Int /\ \A o \in Requests \ {r} : inDepot'[o] = inDepot[o]
      BY <2>2, <2>4 DEF TypeOK, Rows
    <3>2. QED
      BY <2>1, <2>4, <3>1, RequestMoves DEF Labels
  <2>5. QED
    BY <1>21, <2>3, <2>4 DEF SaleReadBalance, ReadBalance, InDepotNow, Enough, Proceed, Refuse
<1>22. ASSUME NEW r \in Requests, SaleDebit(r) PROVE RequestOK'
  <2>1. \E l \in Labels \ {"idle", "debit"} :
          /\ pc' = [pc EXCEPT ![r] = l]
          /\ l \in {"balance", "dest", "credit"} => call[r].depot \in Depots
    BY <1>22, ComputedTypes DEF SaleDebit, WriteBalance, Proceed, Refuse, At, RequestOK, Labels
  <2>2. UNCHANGED <<call, line, inDepot>>
    BY <1>22 DEF SaleDebit, WriteBalance, store, local
  <2>3. QED
    BY <2>1, <2>2, RequestMoves
<1>23. ASSUME NEW r \in Requests, SaleJournal(r) PROVE RequestOK'
  <2>1. \E l \in Labels \ {"idle", "debit", "dest"} :
          pc' = [pc EXCEPT ![r] = l] /\ (l \in {"balance", "credit"} => call[r].depot \in Depots)
    BY <1>23, ComputedTypes DEF SaleJournal, Journal, Proceed, Refuse, Labels
  <2>2. UNCHANGED <<call, line, inDepot>>
    BY <1>23 DEF SaleJournal, Journal, local
  <2>3. QED
    BY <2>1, <2>2, RequestMoves
<1>24. ASSUME NEW r \in Requests, SaleStoreItem(r) PROVE RequestOK'
  <2>1. \E l \in {"item", "number", "commit", "refused"} : pc' = [pc EXCEPT ![r] = l]
    BY <1>24 DEF SaleStoreItem, Proceed, Refuse
  <2>2. /\ UNCHANGED <<call, inDepot>> /\ \A o \in Requests \ {r} : line'[o] = line[o]
    BY <1>24 DEF SaleStoreItem, TypeOK
  <2>3. QED
    BY <2>1, <2>2, RequestMoves DEF Labels
<1>25. ASSUME NEW r \in Requests, SaleNumber(r) PROVE RequestOK'
  <2>1. pc' = [pc EXCEPT ![r] = "invoice"]
    BY <1>25 DEF SaleNumber, Proceed, Refuse
  <2>2. UNCHANGED <<call, line, inDepot>>
    BY <1>25 DEF SaleNumber, store, local
  <2>3. QED
    BY <2>1, <2>2, RequestMoves DEF Labels
<1>26. ASSUME NEW r \in Requests, SaleInvoice(r) PROVE RequestOK'
  <2>1. pc' = [pc EXCEPT ![r] = "commit"]
    BY <1>26 DEF SaleInvoice, Proceed, Refuse
  <2>2. UNCHANGED <<call, line, inDepot>>
    BY <1>26 DEF SaleInvoice, store, local
  <2>3. QED
    BY <2>1, <2>2, RequestMoves DEF Labels
<1>27. ASSUME NEW r \in Requests, Fail(r) PROVE RequestOK'
  <2>1. pc' = [pc EXCEPT ![r] = "refused"]
    BY <1>27 DEF Fail, Proceed, Refuse
  <2>2. UNCHANGED <<call, line, inDepot>>
    BY <1>27 DEF Fail, store, local
  <2>3. QED
    BY <2>1, <2>2, RequestMoves DEF Labels
<1>28. ASSUME NEW r \in Requests, Expire(r) PROVE RequestOK'
  BY <1>28, ComputedTypes DEF Expire, Proceed, Refuse, At, store, local, RequestOK, TypeOK, Labels
<1>29. ASSUME NEW r \in Requests, DeadlockVictim(r) PROVE RequestOK'
  <2>1. pc' = [pc EXCEPT ![r] = "refused"]
    BY <1>29 DEF DeadlockVictim, Proceed, Refuse
  <2>2. UNCHANGED <<call, line, inDepot>>
    BY <1>29 DEF DeadlockVictim, store, local
  <2>3. QED
    BY <2>1, <2>2, RequestMoves DEF Labels
<1>30. QED
  BY <1>1, <1>2, <1>3, <1>4, <1>5, <1>6, <1>7, <1>8, <1>9, <1>10, <1>11, <1>12, <1>13, <1>14, <1>15, <1>16, <1>17, <1>18, <1>19, <1>20, <1>21, <1>22, <1>23, <1>24, <1>25, <1>26, <1>27, <1>28, <1>29 DEF Next, Handler, AllAnswered

(* Every variable keeps its type and every request the line it works on    *)
(* (the for loop of recordDirectSale, quincaillerie-stock.service.ts:243). *)
THEOREM TypeCorrect == Spec => []TypeOK
<1>1. Init => TypeInv
  BY TypeInit DEF TypeInv, RequestOK, Init
<1>2. TypeInv /\ [Next]_vars => TypeInv'
  BY TypeStep, RequestStep DEF TypeInv
<1>3. TypeInv => TypeOK
  BY DEF TypeInv
<1>4. QED
  BY <1>1, <1>2, <1>3, PTL DEF Spec

-----------------------------------------------------------------------------
(* NonNegative is not inductive: a write is absolute, computed from reads  *)
(* that may be stale, so the invariant says of every request in flight     *)
(* that what it is about to write is not negative either.                  *)

PendingNonNegative ==
  \A r \in Requests, k \in Keys : pend[r][k] # NoRow => pend[r][k] >= 0

Sound(r) ==
  /\ inDepot[r] # NoRow => inDepot[r] >= 0
  /\ call[r].op \in {"transfer", "sale"} /\ pc[r] = "debit" => inDepot[r] >= Amount(r)
  /\ call[r].op = "sale" /\ pc[r] \in {"balance", "debit", "journal", "store"}
       => onHand[r] >= Amount(r)
  /\ pc[r] = "idle" => inDepot[r] = NoRow
  /\ call[r].op = "movement" =>
       /\ pc[r] = "item" \/ call[r].depot = NoDepot => inDepot[r] = NoRow
       /\ pc[r] \in {"journal", "credit", "store"} =>
            /\ onHand[r] + Delta(r, Base(r)) >= 0
            /\ call[r].depot # NoDepot => Base(r) + Delta(r, Base(r)) >= 0

StockInv == TypeInv /\ NonNegative /\ PendingNonNegative /\ \A r \in Requests : Sound(r)

LEMMA SoundFrame ==
  ASSUME NEW r \in Requests, pc'[r] = pc[r], call'[r] = call[r], line'[r] = line[r],
         onHand'[r] = onHand[r], inDepot'[r] = inDepot[r], Sound(r)
  PROVE  Sound(r)'
BY DEF Sound, Amount, Current, Delta, Base

(* A request that leaves the steps the invariant speaks of.                *)
LEMMA SoundElsewhere ==
  ASSUME TypeOK, NEW r \in Requests,
         NEW l \in {"dest", "journalIn", "number", "invoice", "commit", "delete", "done", "refused"},
         pc' = [pc EXCEPT ![r] = l], UNCHANGED call,
         inDepot'[r] = inDepot[r] \/ inDepot'[r] = NoRow, Sound(r)
  PROVE  Sound(r)'
BY DEF Sound, TypeOK

LEMMA RefuseClears ==
  ASSUME NonNegative, PendingNonNegative, TypeOK, NEW r \in Requests,
         pend' = [pend EXCEPT ![r] = NoWrites]
  PROVE  PendingNonNegative'
BY DEF PendingNonNegative, NoWrites, TypeOK

LEMMA WriteBalanceSound ==
  ASSUME TypeOK, NonNegative, PendingNonNegative, NEW r \in Requests, NEW d \in Depots,
         NEW v \in Int, v >= 0, NEW next, WriteBalance(r, d, v, next)
  PROVE  NonNegative' /\ PendingNonNegative'
<1>1. NonNegative'
  BY DEF WriteBalance, store, NonNegative
<1>2. CASE pend' = [pend EXCEPT ![r] = NoWrites]
  BY <1>1, <1>2, RefuseClears
<1>3. CASE pend' = [pend EXCEPT ![r][KeyAt(r, d)] = v]
  BY <1>1, <1>3 DEF PendingNonNegative, TypeOK
<1>4. QED
  BY <1>1, <1>2, <1>3 DEF WriteBalance, Refuse

-----------------------------------------------------------------------------
LEMMA AmountsStep == StockInv /\ [Next]_vars => NonNegative' /\ PendingNonNegative'
<1> SUFFICES ASSUME TypeOK, RequestOK, NonNegative, PendingNonNegative,
                    \A r \in Requests : Sound(r), [Next]_vars
             PROVE  NonNegative' /\ PendingNonNegative'
  BY DEF StockInv, TypeInv
<1> DEFINE Goal == NonNegative' /\ PendingNonNegative'
(* A step that leaves the committed quantities alone, and pend alone but   *)
(* for a rollback.                                                         *)
<1>0. ASSUME NEW r \in Requests, UNCHANGED <<qty, bal>>,
             UNCHANGED pend \/ pend' = [pend EXCEPT ![r] = NoWrites]
      PROVE  Goal
  <2>1. NonNegative'
    BY <1>0 DEF NonNegative
  <2>2. CASE UNCHANGED pend
    BY <2>1, <2>2 DEF PendingNonNegative
  <2>3. QED
    BY <1>0, <2>1, <2>2, RefuseClears
<1>1. ASSUME NEW r \in Requests, Receive(r) PROVE Goal
  BY <1>1, <1>0 DEF Receive, Proceed, Refuse, store
<1>2. ASSUME NEW r \in Requests, Commit(r) PROVE Goal
  <2>1. CASE ~open[r]
    BY <1>2, <1>0, <2>1 DEF Commit, Refuse
  <2>2. CASE open[r]
    <3>1. \A k \in Keys : View(r, k) # NoRow => View(r, k) >= 0
      BY DEF View, NonNegative, PendingNonNegative
    <3>2. NonNegative'
      BY <1>2, <2>2, <3>1 DEF Commit, NonNegative
    <3>3. QED
      BY <1>2, <2>2, <3>2, RefuseClears DEF Commit
  <2>3. open[r] \in BOOLEAN
    BY DEF TypeOK
  <2>4. QED
    BY <2>1, <2>2, <2>3
<1>3. ASSUME NEW r \in Requests, CreateItem(r) PROVE Goal
  <2>1. Amount(r) \in Int /\ Amount(r) >= 0
    BY LineInHand
  <2>2. qty' = [qty EXCEPT ![Article(r)] = Amount(r)] /\ UNCHANGED <<bal, pend>>
    BY <1>3 DEF CreateItem, StoreQuantity, Proceed
  <2>3. QED
    BY <2>1, <2>2 DEF NonNegative, PendingNonNegative, TypeOK
<1>4. ASSUME NEW r \in Requests, CreateBalance(r) PROVE Goal
  <2>1. call[r].depot \in Depots
    BY <1>4, ComputedTypes DEF CreateBalance, At, RequestOK
  <2>2. Sound(r)
    OBVIOUS
  <2>3. Amount(r) \in Int /\ Amount(r) >= 0
    BY <1>4, <2>1, <2>2, LineInHand DEF CreateBalance, Sound, Base, At, RequestOK
  <2>4. QED
    BY <1>4, <2>1, <2>3, WriteBalanceSound DEF CreateBalance
<1>5. ASSUME NEW r \in Requests, RemoveRead(r) PROVE Goal
  BY <1>5, <1>0 DEF RemoveRead, Proceed, Refuse, store
<1>6. ASSUME NEW r \in Requests, RemoveDelete(r) PROVE Goal
  <2>1. NonNegative'
    BY <1>6 DEF RemoveDelete, NonNegative
  <2>2. CASE UNCHANGED pend
    BY <2>1, <2>2 DEF PendingNonNegative
  <2>3. QED
    BY <1>6, <2>1, <2>2, RefuseClears DEF RemoveDelete, Proceed, Refuse
<1>7. ASSUME NEW r \in Requests, TransferReadItem(r) PROVE Goal
  BY <1>7, <1>0 DEF TransferReadItem, Proceed, Refuse, store
<1>8. ASSUME NEW r \in Requests, TransferReadSource(r) PROVE Goal
  BY <1>8, <1>0 DEF TransferReadSource, ReadBalance, InDepotNow, Proceed, Refuse, store
<1>9. ASSUME NEW r \in Requests, TransferDebit(r) PROVE Goal
  <2>1. call[r].depot \in Depots
    BY <1>9, ComputedTypes DEF TransferDebit, At, RequestOK
  <2>2. Sound(r)
    OBVIOUS
  <2>3. inDepot[r] - Amount(r) \in Int /\ inDepot[r] - Amount(r) >= 0
    BY <1>9, <2>1, <2>2, LineInHand DEF TransferDebit, Sound, Base, At, RequestOK
  <2>4. QED
    BY <1>9, <2>1, <2>3, WriteBalanceSound DEF TransferDebit
<1>10. ASSUME NEW r \in Requests, TransferReadDest(r) PROVE Goal
  BY <1>10, <1>0 DEF TransferReadDest, ReadBalance, InDepotNow, Proceed, Refuse, store
<1>11. ASSUME NEW r \in Requests, TransferCredit(r) PROVE Goal
  <2>1. call[r].dest \in Depots
    BY <1>11, ComputedTypes DEF TransferCredit, At, RequestOK
  <2>2. Sound(r)
    OBVIOUS
  <2>3. Base(r) + Amount(r) \in Int /\ Base(r) + Amount(r) >= 0
    <3>1. Base(r) \in Int /\ Amount(r) \in Nat
      BY LineInHand, ComputedTypes
    <3>2. Base(r) >= 0
      BY <2>2 DEF Sound, Base
    <3>3. QED
      BY <3>1, <3>2
  <2>4. QED
    BY <1>11, <2>1, <2>3, WriteBalanceSound DEF TransferCredit
<1>12. ASSUME NEW r \in Requests, TransferJournalOut(r) PROVE Goal
  BY <1>12, <1>0 DEF TransferJournalOut, Journal, Proceed, Refuse, store
<1>13. ASSUME NEW r \in Requests, TransferJournalIn(r) PROVE Goal
  BY <1>13, <1>0 DEF TransferJournalIn, Journal, Proceed, Refuse, store
<1>14. ASSUME NEW r \in Requests, MovementReadItem(r) PROVE Goal
  BY <1>14, <1>0 DEF MovementReadItem, Proceed, Refuse, store
<1>15. ASSUME NEW r \in Requests, MovementReadBalance(r) PROVE Goal
  BY <1>15, <1>0 DEF MovementReadBalance, ReadBalance, InDepotNow, Proceed, Refuse, store
<1>16. ASSUME NEW r \in Requests, MovementJournal(r) PROVE Goal
  BY <1>16, <1>0 DEF MovementJournal, Journal, Proceed, Refuse, store
<1>17. ASSUME NEW r \in Requests, MovementWriteBalance(r) PROVE Goal
  <2>1. call[r].depot \in Depots
    BY <1>17, ComputedTypes DEF MovementWriteBalance, At, RequestOK
  <2>2. Sound(r)
    OBVIOUS
  <2>3. Base(r) + Delta(r, Base(r)) \in Int /\ Base(r) + Delta(r, Base(r)) >= 0
    BY <1>17, <2>1, <2>2, ComputedTypes DEF MovementWriteBalance, Sound, Base, At, RequestOK
  <2>4. QED
    BY <1>17, <2>1, <2>3, WriteBalanceSound DEF MovementWriteBalance
<1>18. ASSUME NEW r \in Requests, MovementStoreItem(r) PROVE Goal
  <2>1. Sound(r)
    OBVIOUS
  <2>2. onHand[r] + Delta(r, Base(r)) \in Int /\ onHand[r] + Delta(r, Base(r)) >= 0
    <3>1. onHand[r] \in Int
      BY DEF TypeOK
    <3>2. Delta(r, Base(r)) \in Int
      BY ComputedTypes
    <3>3. onHand[r] + Delta(r, Base(r)) >= 0
      BY <1>18, <2>1 DEF MovementStoreItem, Sound, At
    <3>4. QED
      BY <3>1, <3>2, <3>3
  <2>3. CASE UNCHANGED qty
    BY <1>18, <1>0, <2>3 DEF MovementStoreItem, Proceed, Refuse
  <2>4. CASE qty' = [qty EXCEPT ![Article(r)] = onHand[r] + Delta(r, Base(r))] /\ UNCHANGED pend
    BY <1>18, <2>2, <2>4 DEF MovementStoreItem, NonNegative, PendingNonNegative, TypeOK
  <2>5. QED
    BY <1>18, <2>3, <2>4 DEF MovementStoreItem, StoreQuantity, Proceed
<1>19. ASSUME NEW r \in Requests, SaleReadItem(r) PROVE Goal
  BY <1>19, <1>0 DEF SaleReadItem, Proceed, Refuse, store
<1>20. ASSUME NEW r \in Requests, SaleReadBalance(r) PROVE Goal
  BY <1>20, <1>0 DEF SaleReadBalance, ReadBalance, InDepotNow, Proceed, Refuse, store
<1>21. ASSUME NEW r \in Requests, SaleDebit(r) PROVE Goal
  <2>1. call[r].depot \in Depots
    BY <1>21, ComputedTypes DEF SaleDebit, At, RequestOK
  <2>2. Sound(r)
    OBVIOUS
  <2>3. inDepot[r] - Amount(r) \in Int /\ inDepot[r] - Amount(r) >= 0
    BY <1>21, <2>1, <2>2, LineInHand DEF SaleDebit, Sound, Base, At, RequestOK
  <2>4. QED
    BY <1>21, <2>1, <2>3, WriteBalanceSound DEF SaleDebit
<1>22. ASSUME NEW r \in Requests, SaleJournal(r) PROVE Goal
  BY <1>22, <1>0 DEF SaleJournal, Journal, Proceed, Refuse, store
<1>23. ASSUME NEW r \in Requests, SaleStoreItem(r) PROVE Goal
  <2>1. Sound(r)
    OBVIOUS
  <2>2. onHand[r] - Amount(r) \in Int /\ onHand[r] - Amount(r) >= 0
    <3>1. call[r].op = "sale" /\ pc[r] = "store"
      BY <1>23 DEF SaleStoreItem, At
    <3>2. onHand[r] \in Int
      BY DEF TypeOK
    <3>3. Amount(r) \in Int
      BY <3>1, LineInHand
    <3>4. onHand[r] >= Amount(r)
      BY <2>1, <3>1 DEF Sound
    <3>5. QED
      BY <3>2, <3>3, <3>4
  <2>3. CASE UNCHANGED qty
    BY <1>23, <1>0, <2>3 DEF SaleStoreItem, Proceed, Refuse
  <2>4. CASE qty' = [qty EXCEPT ![Article(r)] = onHand[r] - Amount(r)] /\ UNCHANGED pend
    BY <1>23, <2>2, <2>4 DEF SaleStoreItem, NonNegative, PendingNonNegative, TypeOK
  <2>5. QED
    BY <1>23, <2>3, <2>4 DEF SaleStoreItem, StoreQuantity, Proceed
<1>24. ASSUME NEW r \in Requests, SaleNumber(r) PROVE Goal
  BY <1>24, <1>0 DEF SaleNumber, Proceed, Refuse, store
<1>25. ASSUME NEW r \in Requests, SaleInvoice(r) PROVE Goal
  BY <1>25, <1>0 DEF SaleInvoice, Proceed, Refuse, store
<1>26. ASSUME NEW r \in Requests, Fail(r) PROVE Goal
  BY <1>26, <1>0 DEF Fail, Proceed, Refuse, store
<1>27. ASSUME NEW r \in Requests, Expire(r) PROVE Goal
  BY <1>27, <1>0 DEF Expire, Proceed, Refuse, store
<1>28. ASSUME NEW r \in Requests, DeadlockVictim(r) PROVE Goal
  BY <1>28, <1>0 DEF DeadlockVictim, Proceed, Refuse, store
<1>29. CASE UNCHANGED vars
  BY <1>29 DEF vars, store, NonNegative, PendingNonNegative
<1>30. QED
  BY <1>1, <1>2, <1>3, <1>4, <1>5, <1>6, <1>7, <1>8, <1>9, <1>10, <1>11, <1>12, <1>13, <1>14, <1>15, <1>16, <1>17, <1>18, <1>19, <1>20, <1>21, <1>22, <1>23, <1>24, <1>25, <1>26, <1>27, <1>28, <1>29 DEF Next, Handler, AllAnswered

(* A request that stays with what it has read: the facts its next step needs. *)
LEMMA SoundMoves ==
  ASSUME TypeOK, NEW r \in Requests, NEW l \in Labels \ {"idle"},
         pc' = [pc EXCEPT ![r] = l], UNCHANGED <<call, line, onHand, inDepot>>, Sound(r),
         call[r].op \in {"transfer", "sale"} /\ l = "debit" => inDepot[r] >= Amount(r),
         call[r].op = "sale" /\ l \in {"balance", "debit", "journal", "store"}
           => onHand[r] >= Amount(r),
         call[r].op = "movement" /\ l = "item" => inDepot[r] = NoRow,
         call[r].op = "movement" /\ l \in {"journal", "credit", "store"} =>
           /\ onHand[r] + Delta(r, Base(r)) >= 0
           /\ call[r].depot # NoDepot => Base(r) + Delta(r, Base(r)) >= 0
  PROVE  Sound(r)'
<1>1. Amount(r)' = Amount(r) /\ Base(r)' = Base(r) /\ pc'[r] = l
  BY DEF Amount, Current, Base, TypeOK
<1>2. Delta(r, Base(r))' = Delta(r, Base(r))
  BY <1>1 DEF Delta
<1>3. QED
  BY <1>1, <1>2 DEF Sound

LEMMA SoundStep == StockInv /\ [Next]_vars => \A r \in Requests : Sound(r)'
<1> SUFFICES ASSUME TypeOK, RequestOK, NonNegative, PendingNonNegative,
                    \A r \in Requests : Sound(r), [Next]_vars
             PROVE  \A r \in Requests : Sound(r)'
  BY DEF StockInv, TypeInv
(* Only the request that steps moves: the others keep what they have read. *)
<1>0. ASSUME NEW r \in Requests, Sound(r)',
             \A o \in Requests \ {r} :
               /\ pc'[o] = pc[o] /\ call'[o] = call[o] /\ line'[o] = line[o]
               /\ onHand'[o] = onHand[o] /\ inDepot'[o] = inDepot[o]
      PROVE  \A o \in Requests : Sound(o)'
  BY <1>0, SoundFrame
<1>1. ASSUME NEW r \in Requests, Receive(r) PROVE \A o \in Requests : Sound(o)'
  <2>1. Sound(r)'
    BY <1>1 DEF Receive, Sound, TypeOK
  <2>2. \A o \in Requests \ {r} :
          /\ pc'[o] = pc[o] /\ call'[o] = call[o] /\ line'[o] = line[o]
          /\ onHand'[o] = onHand[o] /\ inDepot'[o] = inDepot[o]
    BY <1>1 DEF Receive, Proceed, Refuse, store, local, At, TypeOK
  <2>3. QED
    BY <1>0, <2>1, <2>2
<1>2. ASSUME NEW r \in Requests, Commit(r) PROVE \A o \in Requests : Sound(o)'
  <2>1. Sound(r)'
    BY <1>2, SoundElsewhere DEF Commit, Proceed, Refuse, store, local, At
  <2>2. \A o \in Requests \ {r} :
          /\ pc'[o] = pc[o] /\ call'[o] = call[o] /\ line'[o] = line[o]
          /\ onHand'[o] = onHand[o] /\ inDepot'[o] = inDepot[o]
    BY <1>2 DEF Commit, Proceed, Refuse, store, local, At, TypeOK
  <2>3. QED
    BY <1>0, <2>1, <2>2
<1>3. ASSUME NEW r \in Requests, CreateItem(r) PROVE \A o \in Requests : Sound(o)'
  <2>1. Sound(r)'
    BY <1>3, SoundMoves DEF CreateItem, Proceed, At, Labels, local
  <2>2. \A o \in Requests \ {r} :
          /\ pc'[o] = pc[o] /\ call'[o] = call[o] /\ line'[o] = line[o]
          /\ onHand'[o] = onHand[o] /\ inDepot'[o] = inDepot[o]
    BY <1>3 DEF CreateItem, Proceed, Refuse, store, local, At, TypeOK
  <2>3. QED
    BY <1>0, <2>1, <2>2
<1>4. ASSUME NEW r \in Requests, CreateBalance(r) PROVE \A o \in Requests : Sound(o)'
  <2>1. Sound(r)'
    BY <1>4, SoundElsewhere DEF CreateBalance, WriteBalance, Proceed, Refuse, store, local, At
  <2>2. \A o \in Requests \ {r} :
          /\ pc'[o] = pc[o] /\ call'[o] = call[o] /\ line'[o] = line[o]
          /\ onHand'[o] = onHand[o] /\ inDepot'[o] = inDepot[o]
    BY <1>4 DEF CreateBalance, WriteBalance, Proceed, Refuse, store, local, At, TypeOK
  <2>3. QED
    BY <1>0, <2>1, <2>2
<1>5. ASSUME NEW r \in Requests, RemoveRead(r) PROVE \A o \in Requests : Sound(o)'
  <2>1. Sound(r)'
    BY <1>5, SoundElsewhere DEF RemoveRead, Proceed, Refuse, store, local, At
  <2>2. \A o \in Requests \ {r} :
          /\ pc'[o] = pc[o] /\ call'[o] = call[o] /\ line'[o] = line[o]
          /\ onHand'[o] = onHand[o] /\ inDepot'[o] = inDepot[o]
    BY <1>5 DEF RemoveRead, Proceed, Refuse, store, local, At, TypeOK
  <2>3. QED
    BY <1>0, <2>1, <2>2
<1>6. ASSUME NEW r \in Requests, RemoveDelete(r) PROVE \A o \in Requests : Sound(o)'
  <2>1. Sound(r)'
    BY <1>6, SoundElsewhere DEF RemoveDelete, Proceed, Refuse, store, local, At
  <2>2. \A o \in Requests \ {r} :
          /\ pc'[o] = pc[o] /\ call'[o] = call[o] /\ line'[o] = line[o]
          /\ onHand'[o] = onHand[o] /\ inDepot'[o] = inDepot[o]
    BY <1>6 DEF RemoveDelete, Proceed, Refuse, store, local, At, TypeOK
  <2>3. QED
    BY <1>0, <2>1, <2>2
<1>7. ASSUME NEW r \in Requests, TransferReadItem(r) PROVE \A o \in Requests : Sound(o)'
  <2>1. Sound(r)'
    <3>1. CASE Refuse(r)
      BY <1>7, <3>1, SoundElsewhere DEF TransferReadItem, Refuse, store, local
    <3>2. CASE ~Refuse(r)
      BY <1>7, <3>2, SoundMoves DEF TransferReadItem, Proceed, At, Sound, Labels, store, local
    <3>3. QED
      BY <3>1, <3>2
  <2>2. \A o \in Requests \ {r} :
          /\ pc'[o] = pc[o] /\ call'[o] = call[o] /\ line'[o] = line[o]
          /\ onHand'[o] = onHand[o] /\ inDepot'[o] = inDepot[o]
    BY <1>7 DEF TransferReadItem, Proceed, Refuse, store, local, At, TypeOK
  <2>3. QED
    BY <1>0, <2>1, <2>2
<1>8. ASSUME NEW r \in Requests, TransferReadSource(r) PROVE \A o \in Requests : Sound(o)'
  <2>1. Sound(r)'
    <3>1. \A d \in Depots : View(r, KeyAt(r, d)) # NoRow => View(r, KeyAt(r, d)) >= 0
      BY LineInHand DEF View, NonNegative, PendingNonNegative
    <3>2. call[r].depot \in Depots
      BY <1>8, ComputedTypes DEF TransferReadSource, At, RequestOK
    <3>3. CASE Refuse(r) /\ UNCHANGED inDepot
      BY <1>8, <3>3, SoundElsewhere DEF TransferReadSource, ReadBalance, InDepotNow, Refuse
    <3>4. CASE /\ Enough(r, View(r, KeyAt(r, call[r].depot)))
               /\ Proceed(r, "debit")
               /\ inDepot' = [inDepot EXCEPT ![r] = View(r, KeyAt(r, call[r].depot))]
      <4>1. /\ inDepot'[r] = View(r, KeyAt(r, call[r].depot)) /\ pc'[r] = "debit"
            /\ call' = call /\ call[r].op = "transfer" /\ Amount(r)' = Amount(r)
        BY <1>8, <3>4 DEF TransferReadSource, At, ReadBalance, InDepotNow, Proceed, TypeOK, Amount, Current
      <4>2. QED
        BY <3>1, <3>2, <3>4, <4>1 DEF Sound, Enough
    <3>5. QED
      BY <1>8, <3>3, <3>4 DEF TransferReadSource, ReadBalance, InDepotNow
  <2>2. \A o \in Requests \ {r} :
          /\ pc'[o] = pc[o] /\ call'[o] = call[o] /\ line'[o] = line[o]
          /\ onHand'[o] = onHand[o] /\ inDepot'[o] = inDepot[o]
    BY <1>8 DEF TransferReadSource, ReadBalance, InDepotNow, Proceed, Refuse, store, local, At, TypeOK
  <2>3. QED
    BY <1>0, <2>1, <2>2
<1>9. ASSUME NEW r \in Requests, TransferDebit(r) PROVE \A o \in Requests : Sound(o)'
  <2>1. Sound(r)'
    BY <1>9, SoundElsewhere DEF TransferDebit, WriteBalance, Proceed, Refuse, store, local, At
  <2>2. \A o \in Requests \ {r} :
          /\ pc'[o] = pc[o] /\ call'[o] = call[o] /\ line'[o] = line[o]
          /\ onHand'[o] = onHand[o] /\ inDepot'[o] = inDepot[o]
    BY <1>9 DEF TransferDebit, WriteBalance, Proceed, Refuse, store, local, At, TypeOK
  <2>3. QED
    BY <1>0, <2>1, <2>2
<1>10. ASSUME NEW r \in Requests, TransferReadDest(r) PROVE \A o \in Requests : Sound(o)'
  <2>1. Sound(r)'
    <3>1. \A d \in Depots : View(r, KeyAt(r, d)) # NoRow => View(r, KeyAt(r, d)) >= 0
      BY LineInHand DEF View, NonNegative, PendingNonNegative
    <3>2. call[r].dest \in Depots
      BY <1>10, ComputedTypes DEF TransferReadDest, At, RequestOK
    <3>3. CASE Refuse(r) /\ UNCHANGED inDepot
      BY <1>10, <3>3, SoundElsewhere DEF TransferReadDest, ReadBalance, InDepotNow, Refuse
    <3>4. CASE /\ Proceed(r, "credit")
               /\ inDepot' = [inDepot EXCEPT ![r] = View(r, KeyAt(r, call[r].dest))]
      <4>1. /\ inDepot'[r] = View(r, KeyAt(r, call[r].dest)) /\ pc'[r] = "credit"
            /\ call' = call /\ call[r].op = "transfer"
        BY <1>10, <3>4 DEF TransferReadDest, At, ReadBalance, InDepotNow, Proceed, TypeOK
      <4>2. QED
        BY <3>1, <3>2, <4>1 DEF Sound
    <3>5. QED
      BY <1>10, <3>3, <3>4 DEF TransferReadDest, ReadBalance, InDepotNow
  <2>2. \A o \in Requests \ {r} :
          /\ pc'[o] = pc[o] /\ call'[o] = call[o] /\ line'[o] = line[o]
          /\ onHand'[o] = onHand[o] /\ inDepot'[o] = inDepot[o]
    BY <1>10 DEF TransferReadDest, ReadBalance, InDepotNow, Proceed, Refuse, store, local, At, TypeOK
  <2>3. QED
    BY <1>0, <2>1, <2>2
<1>11. ASSUME NEW r \in Requests, TransferCredit(r) PROVE \A o \in Requests : Sound(o)'
  <2>1. Sound(r)'
    <3>1. CASE Refuse(r)
      BY <1>11, <3>1, SoundElsewhere DEF TransferCredit, WriteBalance, Refuse, store, local
    <3>2. CASE ~Refuse(r)
      BY <1>11, <3>2, SoundMoves DEF TransferCredit, WriteBalance, Proceed, At, Sound, Labels, store, local
    <3>3. QED
      BY <3>1, <3>2
  <2>2. \A o \in Requests \ {r} :
          /\ pc'[o] = pc[o] /\ call'[o] = call[o] /\ line'[o] = line[o]
          /\ onHand'[o] = onHand[o] /\ inDepot'[o] = inDepot[o]
    BY <1>11 DEF TransferCredit, WriteBalance, Proceed, Refuse, store, local, At, TypeOK
  <2>3. QED
    BY <1>0, <2>1, <2>2
<1>12. ASSUME NEW r \in Requests, TransferJournalOut(r) PROVE \A o \in Requests : Sound(o)'
  <2>1. Sound(r)'
    BY <1>12, SoundElsewhere DEF TransferJournalOut, Journal, Proceed, Refuse, store, local, At
  <2>2. \A o \in Requests \ {r} :
          /\ pc'[o] = pc[o] /\ call'[o] = call[o] /\ line'[o] = line[o]
          /\ onHand'[o] = onHand[o] /\ inDepot'[o] = inDepot[o]
    BY <1>12 DEF TransferJournalOut, Journal, Proceed, Refuse, store, local, At, TypeOK
  <2>3. QED
    BY <1>0, <2>1, <2>2
<1>13. ASSUME NEW r \in Requests, TransferJournalIn(r) PROVE \A o \in Requests : Sound(o)'
  <2>1. Sound(r)'
    BY <1>13, SoundElsewhere DEF TransferJournalIn, Journal, Proceed, Refuse, store, local, At
  <2>2. \A o \in Requests \ {r} :
          /\ pc'[o] = pc[o] /\ call'[o] = call[o] /\ line'[o] = line[o]
          /\ onHand'[o] = onHand[o] /\ inDepot'[o] = inDepot[o]
    BY <1>13 DEF TransferJournalIn, Journal, Proceed, Refuse, store, local, At, TypeOK
  <2>3. QED
    BY <1>0, <2>1, <2>2
<1>14. ASSUME NEW r \in Requests, MovementReadItem(r) PROVE \A o \in Requests : Sound(o)'
  <2>1. Sound(r)'
    <3>1. inDepot[r] = NoRow /\ call[r].op = "movement"
      BY <1>14 DEF MovementReadItem, At, Sound
    <3>2. CASE Refuse(r)
      BY <1>14, <3>2, SoundElsewhere DEF MovementReadItem, Refuse
    <3>3. CASE /\ call[r].depot = NoDepot => qty[Article(r)] + Delta(r, 0) >= 0
               /\ Proceed(r, IF call[r].depot = NoDepot THEN "journal" ELSE "balance")
               /\ onHand' = [onHand EXCEPT ![r] = qty[Article(r)]]
      <4>1. /\ onHand'[r] = qty[Article(r)] /\ call' = call /\ inDepot' = inDepot
            /\ pc'[r] = IF call[r].depot = NoDepot THEN "journal" ELSE "balance"
            /\ Amount(r)' = Amount(r)
        BY <1>14, <3>3 DEF MovementReadItem, Proceed, TypeOK, Amount, Current
      <4>2. Base(r)' = 0 /\ Delta(r, Base(r))' = Delta(r, 0)
        BY <3>1, <4>1 DEF Base, Delta
      <4>3. QED
        BY <3>1, <3>3, <4>1, <4>2 DEF Sound
    <3>4. QED
      BY <1>14, <3>2, <3>3 DEF MovementReadItem
  <2>2. \A o \in Requests \ {r} :
          /\ pc'[o] = pc[o] /\ call'[o] = call[o] /\ line'[o] = line[o]
          /\ onHand'[o] = onHand[o] /\ inDepot'[o] = inDepot[o]
    BY <1>14 DEF MovementReadItem, Proceed, Refuse, store, local, At, TypeOK
  <2>3. QED
    BY <1>0, <2>1, <2>2
<1>15. ASSUME NEW r \in Requests, MovementReadBalance(r) PROVE \A o \in Requests : Sound(o)'
  <2>1. Sound(r)'
    <3>1. \A d \in Depots : View(r, KeyAt(r, d)) # NoRow => View(r, KeyAt(r, d)) >= 0
      BY LineInHand DEF View, NonNegative, PendingNonNegative
    <3>2. call[r].depot \in Depots
      BY <1>15, ComputedTypes DEF MovementReadBalance, At, RequestOK
    <3>3. CASE Refuse(r) /\ UNCHANGED inDepot
      BY <1>15, <3>3, SoundElsewhere DEF MovementReadBalance, ReadBalance, InDepotNow, Refuse
    <3>4. CASE /\ MovementFits(r, View(r, KeyAt(r, call[r].depot)))
               /\ Proceed(r, "journal")
               /\ inDepot' = [inDepot EXCEPT ![r] = View(r, KeyAt(r, call[r].depot))]
      <4> DEFINE v == View(r, KeyAt(r, call[r].depot))
                 base == IF v = NoRow THEN 0 ELSE v
      <4>1. /\ inDepot'[r] = v /\ pc'[r] = "journal"
            /\ call' = call /\ call[r].op = "movement" /\ onHand' = onHand
            /\ Amount(r)' = Amount(r)
        BY <1>15, <3>4 DEF MovementReadBalance, At, ReadBalance, InDepotNow, Proceed, TypeOK, Amount, Current
      <4>2. call[r].depot # NoDepot
        BY <3>2
      <4>3. Base(r)' = base
        BY <4>1 DEF Base
      <4>4. Delta(r, Base(r))' = Delta(r, base)
        BY <4>1, <4>3 DEF Delta
      <4>5. onHand[r] + Delta(r, base) >= 0 /\ base + Delta(r, base) >= 0
        BY <3>4 DEF MovementFits
      <4>6. v # NoRow => v >= 0
        BY <3>1, <3>2
      <4> HIDE DEF v, base
      <4>7. QED
        BY <4>1, <4>2, <4>3, <4>4, <4>5, <4>6 DEF Sound
    <3>5. QED
      BY <1>15, <3>3, <3>4 DEF MovementReadBalance, ReadBalance, InDepotNow
  <2>2. \A o \in Requests \ {r} :
          /\ pc'[o] = pc[o] /\ call'[o] = call[o] /\ line'[o] = line[o]
          /\ onHand'[o] = onHand[o] /\ inDepot'[o] = inDepot[o]
    BY <1>15 DEF MovementReadBalance, ReadBalance, InDepotNow, Proceed, Refuse, store, local, At, TypeOK
  <2>3. QED
    BY <1>0, <2>1, <2>2
<1>16. ASSUME NEW r \in Requests, MovementJournal(r) PROVE \A o \in Requests : Sound(o)'
  <2>1. Sound(r)'
    <3>1. CASE Refuse(r)
      BY <1>16, <3>1, SoundElsewhere DEF MovementJournal, Journal, Refuse, local
    <3>2. CASE ~Refuse(r)
      BY <1>16, <3>2, SoundMoves DEF MovementJournal, Journal, Proceed, At, Sound, Labels, local
    <3>3. QED
      BY <3>1, <3>2
  <2>2. \A o \in Requests \ {r} :
          /\ pc'[o] = pc[o] /\ call'[o] = call[o] /\ line'[o] = line[o]
          /\ onHand'[o] = onHand[o] /\ inDepot'[o] = inDepot[o]
    BY <1>16 DEF MovementJournal, Journal, Proceed, Refuse, store, local, At, TypeOK
  <2>3. QED
    BY <1>0, <2>1, <2>2
<1>17. ASSUME NEW r \in Requests, MovementWriteBalance(r) PROVE \A o \in Requests : Sound(o)'
  <2>1. Sound(r)'
    <3>1. CASE Refuse(r)
      BY <1>17, <3>1, SoundElsewhere DEF MovementWriteBalance, WriteBalance, Refuse, store, local
    <3>2. CASE ~Refuse(r)
      BY <1>17, <3>2, SoundMoves DEF MovementWriteBalance, WriteBalance, Proceed, At, Sound, Labels, store, local
    <3>3. QED
      BY <3>1, <3>2
  <2>2. \A o \in Requests \ {r} :
          /\ pc'[o] = pc[o] /\ call'[o] = call[o] /\ line'[o] = line[o]
          /\ onHand'[o] = onHand[o] /\ inDepot'[o] = inDepot[o]
    BY <1>17 DEF MovementWriteBalance, WriteBalance, Proceed, Refuse, store, local, At, TypeOK
  <2>3. QED
    BY <1>0, <2>1, <2>2
<1>18. ASSUME NEW r \in Requests, MovementStoreItem(r) PROVE \A o \in Requests : Sound(o)'
  <2>1. Sound(r)'
    BY <1>18, SoundElsewhere DEF MovementStoreItem, Proceed, Refuse, store, local, At
  <2>2. \A o \in Requests \ {r} :
          /\ pc'[o] = pc[o] /\ call'[o] = call[o] /\ line'[o] = line[o]
          /\ onHand'[o] = onHand[o] /\ inDepot'[o] = inDepot[o]
    BY <1>18 DEF MovementStoreItem, Proceed, Refuse, store, local, At, TypeOK
  <2>3. QED
    BY <1>0, <2>1, <2>2
<1>19. ASSUME NEW r \in Requests, SaleReadItem(r) PROVE \A o \in Requests : Sound(o)'
  <2>1. Sound(r)'
    <3>1. CASE Refuse(r)
      BY <1>19, <3>1, SoundElsewhere DEF SaleReadItem, Refuse
    <3>2. CASE /\ qty[Article(r)] >= Amount(r)
               /\ Proceed(r, IF call[r].depot = NoDepot THEN "journal" ELSE "balance")
               /\ onHand' = [onHand EXCEPT ![r] = qty[Article(r)]]
      <4>1. /\ onHand'[r] = qty[Article(r)] /\ call' = call /\ inDepot' = inDepot
            /\ pc'[r] \in {"journal", "balance"} /\ call[r].op = "sale"
            /\ Amount(r)' = Amount(r)
        BY <1>19, <3>2 DEF SaleReadItem, At, Proceed, TypeOK, Amount, Current
      <4>2. QED
        BY <3>2, <4>1 DEF Sound
    <3>3. QED
      BY <1>19, <3>1, <3>2 DEF SaleReadItem
  <2>2. \A o \in Requests \ {r} :
          /\ pc'[o] = pc[o] /\ call'[o] = call[o] /\ line'[o] = line[o]
          /\ onHand'[o] = onHand[o] /\ inDepot'[o] = inDepot[o]
    BY <1>19 DEF SaleReadItem, Proceed, Refuse, store, local, At, TypeOK
  <2>3. QED
    BY <1>0, <2>1, <2>2
<1>20. ASSUME NEW r \in Requests, SaleReadBalance(r) PROVE \A o \in Requests : Sound(o)'
  <2>1. Sound(r)'
    <3>1. \A d \in Depots : View(r, KeyAt(r, d)) # NoRow => View(r, KeyAt(r, d)) >= 0
      BY LineInHand DEF View, NonNegative, PendingNonNegative
    <3>2. call[r].depot \in Depots
      BY <1>20, ComputedTypes DEF SaleReadBalance, At, RequestOK
    <3>3. CASE Refuse(r) /\ UNCHANGED inDepot
      BY <1>20, <3>3, SoundElsewhere DEF SaleReadBalance, ReadBalance, InDepotNow, Refuse
    <3>4. CASE /\ Enough(r, View(r, KeyAt(r, call[r].depot)))
               /\ Proceed(r, "debit")
               /\ inDepot' = [inDepot EXCEPT ![r] = View(r, KeyAt(r, call[r].depot))]
      <4>1. /\ inDepot'[r] = View(r, KeyAt(r, call[r].depot)) /\ pc'[r] = "debit"
            /\ call' = call /\ call[r].op = "sale" /\ Amount(r)' = Amount(r)
            /\ onHand' = onHand /\ pc[r] = "balance"
        BY <1>20, <3>4 DEF SaleReadBalance, At, ReadBalance, InDepotNow, Proceed, TypeOK, Amount, Current
      <4>2. QED
        BY <3>1, <3>2, <3>4, <4>1 DEF Sound, Enough
    <3>5. QED
      BY <1>20, <3>3, <3>4 DEF SaleReadBalance, ReadBalance, InDepotNow
  <2>2. \A o \in Requests \ {r} :
          /\ pc'[o] = pc[o] /\ call'[o] = call[o] /\ line'[o] = line[o]
          /\ onHand'[o] = onHand[o] /\ inDepot'[o] = inDepot[o]
    BY <1>20 DEF SaleReadBalance, ReadBalance, InDepotNow, Proceed, Refuse, store, local, At, TypeOK
  <2>3. QED
    BY <1>0, <2>1, <2>2
<1>21. ASSUME NEW r \in Requests, SaleDebit(r) PROVE \A o \in Requests : Sound(o)'
  <2>1. Sound(r)'
    <3>1. CASE Refuse(r)
      BY <1>21, <3>1, SoundElsewhere DEF SaleDebit, WriteBalance, Refuse, store, local
    <3>2. CASE ~Refuse(r)
      BY <1>21, <3>2, SoundMoves DEF SaleDebit, WriteBalance, Proceed, At, Sound, Labels, store, local
    <3>3. QED
      BY <3>1, <3>2
  <2>2. \A o \in Requests \ {r} :
          /\ pc'[o] = pc[o] /\ call'[o] = call[o] /\ line'[o] = line[o]
          /\ onHand'[o] = onHand[o] /\ inDepot'[o] = inDepot[o]
    BY <1>21 DEF SaleDebit, WriteBalance, Proceed, Refuse, store, local, At, TypeOK
  <2>3. QED
    BY <1>0, <2>1, <2>2
<1>22. ASSUME NEW r \in Requests, SaleJournal(r) PROVE \A o \in Requests : Sound(o)'
  <2>1. Sound(r)'
    <3>1. CASE Refuse(r)
      BY <1>22, <3>1, SoundElsewhere DEF SaleJournal, Journal, Refuse, local
    <3>2. CASE ~Refuse(r)
      BY <1>22, <3>2, SoundMoves DEF SaleJournal, Journal, Proceed, At, Sound, Labels, local
    <3>3. QED
      BY <3>1, <3>2
  <2>2. \A o \in Requests \ {r} :
          /\ pc'[o] = pc[o] /\ call'[o] = call[o] /\ line'[o] = line[o]
          /\ onHand'[o] = onHand[o] /\ inDepot'[o] = inDepot[o]
    BY <1>22 DEF SaleJournal, Journal, Proceed, Refuse, store, local, At, TypeOK
  <2>3. QED
    BY <1>0, <2>1, <2>2
<1>23. ASSUME NEW r \in Requests, SaleStoreItem(r) PROVE \A o \in Requests : Sound(o)'
  <2>1. Sound(r)'
    <3>1. pc'[r] \in {"item", "number", "commit", "refused"}
      BY <1>23 DEF SaleStoreItem, Proceed, Refuse, TypeOK
    <3>2. call' = call /\ inDepot' = inDepot /\ call[r].op = "sale"
      BY <1>23 DEF SaleStoreItem, At
    <3>3. QED
      BY <3>1, <3>2 DEF Sound
  <2>2. \A o \in Requests \ {r} :
          /\ pc'[o] = pc[o] /\ call'[o] = call[o] /\ line'[o] = line[o]
          /\ onHand'[o] = onHand[o] /\ inDepot'[o] = inDepot[o]
    BY <1>23 DEF SaleStoreItem, Proceed, Refuse, store, local, At, TypeOK
  <2>3. QED
    BY <1>0, <2>1, <2>2
<1>24. ASSUME NEW r \in Requests, SaleNumber(r) PROVE \A o \in Requests : Sound(o)'
  <2>1. Sound(r)'
    BY <1>24, SoundElsewhere DEF SaleNumber, Proceed, Refuse, store, local, At
  <2>2. \A o \in Requests \ {r} :
          /\ pc'[o] = pc[o] /\ call'[o] = call[o] /\ line'[o] = line[o]
          /\ onHand'[o] = onHand[o] /\ inDepot'[o] = inDepot[o]
    BY <1>24 DEF SaleNumber, Proceed, Refuse, store, local, At, TypeOK
  <2>3. QED
    BY <1>0, <2>1, <2>2
<1>25. ASSUME NEW r \in Requests, SaleInvoice(r) PROVE \A o \in Requests : Sound(o)'
  <2>1. Sound(r)'
    BY <1>25, SoundElsewhere DEF SaleInvoice, Proceed, Refuse, store, local, At
  <2>2. \A o \in Requests \ {r} :
          /\ pc'[o] = pc[o] /\ call'[o] = call[o] /\ line'[o] = line[o]
          /\ onHand'[o] = onHand[o] /\ inDepot'[o] = inDepot[o]
    BY <1>25 DEF SaleInvoice, Proceed, Refuse, store, local, At, TypeOK
  <2>3. QED
    BY <1>0, <2>1, <2>2
<1>26. ASSUME NEW r \in Requests, Fail(r) PROVE \A o \in Requests : Sound(o)'
  <2>1. Sound(r)'
    BY <1>26, SoundElsewhere DEF Fail, Proceed, Refuse, store, local, At
  <2>2. \A o \in Requests \ {r} :
          /\ pc'[o] = pc[o] /\ call'[o] = call[o] /\ line'[o] = line[o]
          /\ onHand'[o] = onHand[o] /\ inDepot'[o] = inDepot[o]
    BY <1>26 DEF Fail, Proceed, Refuse, store, local, At, TypeOK
  <2>3. QED
    BY <1>0, <2>1, <2>2
<1>27. ASSUME NEW r \in Requests, Expire(r) PROVE \A o \in Requests : Sound(o)'
  <2>1. Sound(r)'
    BY <1>27, SoundFrame DEF Expire, local
  <2>2. \A o \in Requests \ {r} :
          /\ pc'[o] = pc[o] /\ call'[o] = call[o] /\ line'[o] = line[o]
          /\ onHand'[o] = onHand[o] /\ inDepot'[o] = inDepot[o]
    BY <1>27 DEF Expire, Proceed, Refuse, store, local, At, TypeOK
  <2>3. QED
    BY <1>0, <2>1, <2>2
<1>28. ASSUME NEW r \in Requests, DeadlockVictim(r) PROVE \A o \in Requests : Sound(o)'
  <2>1. Sound(r)'
    BY <1>28, SoundElsewhere DEF DeadlockVictim, Proceed, Refuse, store, local, At
  <2>2. \A o \in Requests \ {r} :
          /\ pc'[o] = pc[o] /\ call'[o] = call[o] /\ line'[o] = line[o]
          /\ onHand'[o] = onHand[o] /\ inDepot'[o] = inDepot[o]
    BY <1>28 DEF DeadlockVictim, Proceed, Refuse, store, local, At, TypeOK
  <2>3. QED
    BY <1>0, <2>1, <2>2
<1>29. CASE UNCHANGED vars
  BY <1>29, SoundFrame DEF vars, local
<1>30. QED
  BY <1>1, <1>2, <1>3, <1>4, <1>5, <1>6, <1>7, <1>8, <1>9, <1>10, <1>11, <1>12, <1>13, <1>14, <1>15, <1>16, <1>17, <1>18, <1>19, <1>20, <1>21, <1>22, <1>23, <1>24, <1>25, <1>26, <1>27, <1>28, <1>29 DEF Next, Handler, AllAnswered

LEMMA StockInit == Init => StockInv
<1> SUFFICES ASSUME Init PROVE StockInv
  OBVIOUS
<1>1. TypeInv
  BY TypeInit DEF TypeInv, RequestOK, Init
<1>2. NonNegative
  BY DEF Init, NonNegative
<1>3. PendingNonNegative
  BY DEF Init, NoWrites, PendingNonNegative
<1>4. \A r \in Requests : Sound(r)
  BY DEF Init, Sound
<1>5. QED
  BY <1>1, <1>2, <1>3, <1>4 DEF StockInv

LEMMA StockStep == StockInv /\ [Next]_vars => StockInv'
BY TypeStep, RequestStep, AmountsStep, SoundStep DEF StockInv, TypeInv

(* No quantity on hand and no depot balance ever goes below zero, for any  *)
(* number of concurrent requests, with stale reads, rollbacks and time     *)
(* limits (quincaillerie-stock.service.ts:97, 192, 247, 255).              *)
THEOREM StockNonNegative == Spec => []NonNegative
<1>1. StockInv => NonNegative
  BY DEF StockInv
<1>2. QED
  BY StockInit, StockStep, <1>1, PTL DEF Spec

-----------------------------------------------------------------------------
(* The journal: no quantity on hand changes without its movement.          *)

(* ids of articles that do not exist yet: never drawn, or drawn by a       *)
(* request that has still to create the article.                           *)
Creating(r) == call[r].op = "create" /\ pc[r] = "item"
Unborn(i)   == i \in fresh \/ \E r \in Requests : Creating(r) /\ Article(r) = i

(* The request has filed the movement of the line in hand and may still    *)
(* change the quantity.                                                    *)
Journaled(r) ==
  \/ call[r].op = "movement" /\ pc[r] \in {"credit", "store"}
  \/ call[r].op = "sale" /\ pc[r] = "store"

OnFile(r, m) == m.by = r /\ m.line = line[r] /\ m.item = Article(r)

(* The movement of a journaled request is on file while its article is; an *)
(* article that was deleted does not come back, for ids are drawn once.    *)
JournalInv ==
  /\ \A i \in items : ~Unborn(i)
  /\ \A r \in Requests : Creating(r) => Article(r) \notin fresh
  /\ \A r, o \in Requests : Creating(r) /\ Creating(o) /\ r # o => Article(r) # Article(o)
  /\ \A r \in Requests : Journaled(r) => ~Unborn(Article(r))
  /\ \A r \in Requests : Journaled(r) /\ Article(r) \in items => \E m \in movements : OnFile(r, m)

LEMMA JournalInvInit == Init => JournalInv
BY DEF Init, JournalInv, Unborn, Creating, Journaled

(* A step that creates and deletes no article: who is journaled now was    *)
(* already, or finds its article and its movement.                         *)
LEMMA JournalKept ==
  ASSUME JournalInv, UNCHANGED <<items, fresh, call>>, movements \subseteq movements',
         \A r \in Requests : Creating(r)' => Creating(r) /\ line'[r] = line[r],
         \A r \in Requests : Journaled(r)' =>
            /\ line'[r] = line[r]
            /\ Journaled(r) \/ (Article(r) \in items /\ \E m \in movements' : OnFile(r, m))
  PROVE  JournalInv'
<1>1. \A r \in Requests : Creating(r)' \/ Journaled(r)' => Article(r)' = Article(r)
  BY DEF Article, Current
<1>2. \A i : Unborn(i)' => Unborn(i)
  BY <1>1 DEF Unborn
<1>3. \A r \in Requests : Journaled(r)' => ~Unborn(Article(r))
  BY DEF JournalInv
<1>4. \A r \in Requests : Journaled(r)' /\ Article(r) \in items => \E m \in movements' : OnFile(r, m)
  BY DEF JournalInv
<1>5. \A r \in Requests : \A m : Journaled(r)' => (OnFile(r, m)' <=> OnFile(r, m))
  BY <1>1 DEF OnFile
<1>6. QED
  BY <1>1, <1>2, <1>3, <1>4, <1>5 DEF JournalInv

(* A step of one request that files nothing it goes on to rely on.         *)
LEMMA JournalSilent ==
  ASSUME TypeOK, JournalInv, NEW r \in Requests, NEW l, pc' = [pc EXCEPT ![r] = l],
         UNCHANGED <<items, fresh, call>>, movements \subseteq movements',
         \A o \in Requests \ {r} : line'[o] = line[o],
         \/ l \notin {"item", "credit", "store"}
         \/ l \in {"item", "credit"} /\ call[r].op \in {"sale", "transfer"}
  PROVE  JournalInv'
<1>1. ~Creating(r)' /\ ~Journaled(r)'
  BY DEF TypeOK, Creating, Journaled
<1>2. \A o \in Requests \ {r} : pc'[o] = pc[o]
  BY DEF TypeOK
<1>3. \A o \in Requests \ {r} : (Creating(o)' <=> Creating(o)) /\ (Journaled(o)' <=> Journaled(o))
  BY <1>2 DEF Creating, Journaled
<1>4. QED
  BY <1>1, <1>3, JournalKept

(* The movement of the line in hand is filed.                              *)
LEMMA JournalFiles ==
  ASSUME TypeOK, JournalInv, NEW r \in Requests, NEW k, NEW from, NEW to,
         NEW l \in {"credit", "store", "refused"},
         Journal(r, k, from, to, l), call[r].op \in {"movement", "sale"}
  PROVE  JournalInv'
<1>1. UNCHANGED <<items, fresh, call, line>>
  BY DEF Journal, local
<1>2. CASE Article(r) \in items
  <2>1. pc' = [pc EXCEPT ![r] = l]
    BY <1>2 DEF Journal, Proceed
  <2> DEFINE filed == [by |-> r, line |-> line[r], item |-> Article(r), kind |-> k,
                       quantity |-> Amount(r), from |-> from, to |-> to]
  <2>a. filed \in movements'
    BY <1>2 DEF Journal
  <2>b. OnFile(r, filed)
    BY DEF OnFile
  <2>2. \E m \in movements' : OnFile(r, m)
    <3> HIDE DEF filed
    <3>1. QED BY <2>a, <2>b
  <2>3. movements \subseteq movements'
    BY <1>2 DEF Journal
  <2>4. \A o \in Requests \ {r} : (Creating(o)' <=> Creating(o)) /\ (Journaled(o)' <=> Journaled(o))
    BY <1>1, <2>1 DEF Creating, Journaled, TypeOK
  <2>5. ~Creating(r)'
    BY <1>1 DEF Creating
  <2>6. QED
    BY <1>1, <1>2, <2>2, <2>3, <2>4, <2>5, JournalKept
<1>3. CASE Article(r) \notin items
  BY <1>1, <1>3, JournalSilent DEF Journal, Refuse
<1>4. QED
  BY <1>2, <1>3

LEMMA JournalStep == TypeInv /\ JournalInv /\ [Next]_vars => JournalInv'
<1> SUFFICES ASSUME TypeOK, RequestOK, JournalInv, [Next]_vars PROVE JournalInv'
  BY DEF TypeInv
<1>1. CASE UNCHANGED vars
  BY <1>1, JournalKept DEF vars, store, local, Creating, Journaled
<1>2. ASSUME NEW r \in Requests, Receive(r) PROVE JournalInv'
  <2>1. PICK c \in Calls : /\ pc[r] = "idle" /\ pc' = [pc EXCEPT ![r] = "item"]
                           /\ call' = [call EXCEPT ![r] = c]
                           /\ c.op = "create" => Articles(c) \subseteq fresh
                           /\ fresh' = IF c.op = "create" THEN fresh \ Articles(c) ELSE fresh
                           /\ UNCHANGED <<items, movements, line>>
    BY <1>2 DEF Receive
  <2>2. ~Creating(r) /\ ~Journaled(r) /\ ~Journaled(r)'
    BY <2>1 DEF Creating, Journaled, TypeOK
  <2>3. \A o \in Requests \ {r} : /\ Creating(o)' <=> Creating(o)
                                  /\ Journaled(o)' <=> Journaled(o)
                                  /\ Article(o)' = Article(o)
                                  /\ \A m : OnFile(o, m)' <=> OnFile(o, m)
    BY <2>1 DEF Creating, Journaled, Article, Current, OnFile, TypeOK
  <2>4. Creating(r)' => Article(r)' \in fresh /\ Article(r)' \notin fresh'
    <3>1. SUFFICES ASSUME c.op = "create" PROVE Article(r)' \in Articles(c)
      BY <2>1 DEF Creating, TypeOK
    <3>2. Article(r)' = c.lines[1].item /\ 1 \in DOMAIN c.lines
      <4>1. line'[r] = 1 /\ call'[r] = c
        BY <2>1 DEF TypeOK, RequestOK
      <4>2. c \in Call /\ Len(c.lines) > 0
        BY CallsAssumption
      <4>3. c.lines \in Seq(Line) /\ Len(c.lines) \in Nat
        BY <4>2 DEF Call
      <4>4. QED
        BY <4>1, <4>2, <4>3 DEF Article, Current
    <3>3. QED
      BY <3>2 DEF Articles
  <2>5. fresh' \subseteq fresh
    BY <2>1
  <2>6. \A i : Unborn(i)' => Unborn(i)
    BY <2>3, <2>4, <2>5 DEF Unborn
  <2>7. \A i \in items' : ~Unborn(i)'
    BY <2>1, <2>6 DEF JournalInv
  <2>8. \A o \in Requests : Creating(o)' => Article(o)' \notin fresh'
    BY <2>3, <2>4, <2>5 DEF JournalInv
  <2>9. \A o \in Requests \ {r} : Creating(o) => Article(o) \notin fresh
    BY DEF JournalInv
  <2>10. \A o, p \in Requests : Creating(o)' /\ Creating(p)' /\ o # p => Article(o)' # Article(p)'
    <3>1. \A o \in Requests \ {r} : Creating(o)' /\ Creating(r)' => Article(o)' # Article(r)'
      BY <2>3, <2>4, <2>9
    <3>2. \A o, p \in Requests \ {r} : Creating(o)' /\ Creating(p)' /\ o # p => Article(o)' # Article(p)'
      BY <2>3 DEF JournalInv
    <3>3. QED
      BY <3>1, <3>2
  <2>11. \A o \in Requests : Journaled(o)' => ~Unborn(Article(o))'
    <3>1. \A o \in Requests : Journaled(o)' => Journaled(o) /\ Article(o)' = Article(o)
      BY <2>2, <2>3
    <3>2. \A o \in Requests : Journaled(o) => ~Unborn(Article(o))
      BY DEF JournalInv
    <3>3. QED
      BY <2>6, <3>1, <3>2
  <2>12. \A o \in Requests : Journaled(o)' /\ Article(o)' \in items' => \E m \in movements' : OnFile(o, m)'
    BY <2>1, <2>2, <2>3 DEF JournalInv
  <2>13. QED
    BY <2>7, <2>8, <2>10, <2>11, <2>12 DEF JournalInv, Unborn
<1>3. ASSUME NEW r \in Requests, CreateItem(r) PROVE JournalInv'
  <2>1. /\ Creating(r) /\ items' = items \cup {Article(r)}
        /\ UNCHANGED <<fresh, call, line, movements>>
    BY <1>3 DEF CreateItem, At, Creating, local
  <2>2. PICK l \in {"credit", "commit"} : pc' = [pc EXCEPT ![r] = l]
    BY <1>3 DEF CreateItem, Proceed
  <2>3. ~Creating(r)' /\ ~Journaled(r)'
    BY <2>1, <2>2 DEF Creating, Journaled, TypeOK
  <2>4. \A o \in Requests \ {r} : (Creating(o)' <=> Creating(o)) /\ (Journaled(o)' <=> Journaled(o))
    BY <2>1, <2>2 DEF Creating, Journaled, TypeOK
  <2>5. \A o \in Requests : Article(o)' = Article(o) /\ \A m : OnFile(o, m)' <=> OnFile(o, m)
    BY <2>1 DEF Article, Current, OnFile
  <2>6. \A i : Unborn(i)' => Unborn(i) /\ i # Article(r)
    BY <2>1, <2>3, <2>4, <2>5 DEF Unborn, JournalInv
  <2>7. \A o \in Requests : Journaled(o) => Article(o) # Article(r)
    BY <2>1 DEF JournalInv, Unborn
  <2>8. \A o \in Requests : Journaled(o)' => Journaled(o)
    BY <2>3, <2>4
  <2>9. \A o \in Requests : Creating(o)' => Creating(o)
    BY <2>3, <2>4
  <2>10. QED
    BY <2>1, <2>5, <2>6, <2>7, <2>8, <2>9 DEF JournalInv
<1>4. ASSUME NEW r \in Requests, RemoveDelete(r) PROVE JournalInv'
  <2>1. /\ items' = items \ {Article(r)} /\ movements' = {m \in movements : m.item # Article(r)}
        /\ UNCHANGED <<fresh, call, line>>
    BY <1>4 DEF RemoveDelete, local
  <2>2. PICK l \in {"done", "refused"} : pc' = [pc EXCEPT ![r] = l]
    BY <1>4 DEF RemoveDelete, Proceed, Refuse
  <2>3. \A o \in Requests : (Creating(o)' => Creating(o)) /\ (Journaled(o)' => Journaled(o))
    BY <2>1, <2>2 DEF Creating, Journaled, TypeOK
  <2>4. \A o \in Requests : Article(o)' = Article(o) /\ \A m : OnFile(o, m)' <=> OnFile(o, m)
    BY <2>1 DEF Article, Current, OnFile
  <2>5. \A i : Unborn(i)' => Unborn(i)
    BY <2>1, <2>3, <2>4 DEF Unborn
  <2>6. ASSUME NEW o \in Requests, Journaled(o), Article(o) \in items'
        PROVE  \E m \in movements' : OnFile(o, m)
    <3>1. PICK m \in movements : OnFile(o, m)
      BY <2>1, <2>6 DEF JournalInv
    <3>2. m \in movements'
      BY <2>1, <2>6, <3>1 DEF OnFile
    <3>3. QED
      BY <3>1, <3>2
  <2>7. QED
    BY <2>1, <2>3, <2>4, <2>5, <2>6 DEF JournalInv
<1>5. ASSUME NEW r \in Requests, MovementJournal(r) PROVE JournalInv'
  BY <1>5, JournalFiles DEF MovementJournal, At
<1>6. ASSUME NEW r \in Requests, SaleJournal(r) PROVE JournalInv'
  BY <1>6, JournalFiles DEF SaleJournal, At
<1>7. ASSUME NEW r \in Requests, MovementWriteBalance(r) PROVE JournalInv'
  <2>1. UNCHANGED <<items, fresh, call, line, movements>> /\ Journaled(r) /\ ~Creating(r)
    BY <1>7 DEF MovementWriteBalance, WriteBalance, store, local, At, Journaled, Creating
  <2>2. \E l \in {"store", "refused"} : pc' = [pc EXCEPT ![r] = l]
    BY <1>7 DEF MovementWriteBalance, WriteBalance, Refuse
  <2>3. \A o \in Requests : (Creating(o)' => Creating(o)) /\ (Journaled(o)' => Journaled(o))
    BY <2>1, <2>2 DEF Creating, Journaled, TypeOK
  <2>4. QED
    BY <2>1, <2>3, JournalKept
<1>8. ASSUME NEW r \in Requests, SaleStoreItem(r) PROVE JournalInv'
  <2>1. UNCHANGED <<items, fresh, call, movements>> /\ call[r].op = "sale"
    BY <1>8 DEF SaleStoreItem, At
  <2>2. \E l \in {"item", "number", "commit", "refused"} : pc' = [pc EXCEPT ![r] = l]
    BY <1>8 DEF SaleStoreItem, Proceed, Refuse
  <2>3. \A o \in Requests \ {r} : line'[o] = line[o]
    BY <1>8 DEF SaleStoreItem, TypeOK
  <2>4. QED
    BY <2>1, <2>2, <2>3, JournalSilent
<1>9. ASSUME NEW r \in Requests, Commit(r) PROVE JournalInv'
  <2>1. \E l \in {"done", "refused"} : pc' = [pc EXCEPT ![r] = l]
    BY <1>9 DEF Commit, Refuse
  <2>2. UNCHANGED <<items, fresh, call, line>> /\ movements \subseteq movements'
    BY <1>9 DEF Commit, local
  <2>3. QED
    BY <2>1, <2>2, JournalSilent
<1>10. ASSUME NEW r \in Requests, CreateBalance(r) PROVE JournalInv'
  <2>1. \E l \in {"commit", "refused"} : pc' = [pc EXCEPT ![r] = l]
    BY <1>10 DEF CreateBalance, WriteBalance, Refuse
  <2>2. UNCHANGED <<items, fresh, call, line>> /\ movements \subseteq movements'
    BY <1>10 DEF CreateBalance, WriteBalance, store, local
  <2>3. QED
    BY <2>1, <2>2, JournalSilent
<1>11. ASSUME NEW r \in Requests, RemoveRead(r) PROVE JournalInv'
  <2>1. \E l \in {"delete", "refused"} : pc' = [pc EXCEPT ![r] = l]
    BY <1>11 DEF RemoveRead, Proceed, Refuse
  <2>2. UNCHANGED <<items, fresh, call, line>> /\ movements \subseteq movements'
    BY <1>11 DEF RemoveRead, store, local
  <2>3. QED
    BY <2>1, <2>2, JournalSilent
<1>12. ASSUME NEW r \in Requests, TransferReadItem(r) PROVE JournalInv'
  <2>1. \E l \in {"balance", "refused"} : pc' = [pc EXCEPT ![r] = l]
    BY <1>12 DEF TransferReadItem, Proceed, Refuse
  <2>2. UNCHANGED <<items, fresh, call, line>> /\ movements \subseteq movements'
    BY <1>12 DEF TransferReadItem, store, local
  <2>3. QED
    BY <2>1, <2>2, JournalSilent
<1>13. ASSUME NEW r \in Requests, TransferReadSource(r) PROVE JournalInv'
  <2>1. \E l \in {"debit", "refused"} : pc' = [pc EXCEPT ![r] = l]
    BY <1>13 DEF TransferReadSource, ReadBalance, Proceed, Refuse
  <2>2. UNCHANGED <<items, fresh, call, line>> /\ movements \subseteq movements'
    BY <1>13 DEF TransferReadSource, ReadBalance, store
  <2>3. QED
    BY <2>1, <2>2, JournalSilent
<1>14. ASSUME NEW r \in Requests, TransferDebit(r) PROVE JournalInv'
  <2>1. \E l \in {"dest", "refused"} : pc' = [pc EXCEPT ![r] = l]
    BY <1>14 DEF TransferDebit, WriteBalance, Refuse
  <2>2. UNCHANGED <<items, fresh, call, line>> /\ movements \subseteq movements'
    BY <1>14 DEF TransferDebit, WriteBalance, store, local
  <2>3. QED
    BY <2>1, <2>2, JournalSilent
<1>15. ASSUME NEW r \in Requests, TransferReadDest(r) PROVE JournalInv'
  <2>1. \E l \in {"credit", "refused"} : pc' = [pc EXCEPT ![r] = l]
    BY <1>15 DEF TransferReadDest, ReadBalance, Proceed, Refuse
  <2>2. UNCHANGED <<items, fresh, call, line>> /\ movements \subseteq movements' /\ call[r].op = "transfer"
    BY <1>15 DEF TransferReadDest, ReadBalance, At, store
  <2>3. QED
    BY <2>1, <2>2, JournalSilent
<1>16. ASSUME NEW r \in Requests, TransferCredit(r) PROVE JournalInv'
  <2>1. \E l \in {"journal", "refused"} : pc' = [pc EXCEPT ![r] = l]
    BY <1>16 DEF TransferCredit, WriteBalance, Refuse
  <2>2. UNCHANGED <<items, fresh, call, line>> /\ movements \subseteq movements'
    BY <1>16 DEF TransferCredit, WriteBalance, store, local
  <2>3. QED
    BY <2>1, <2>2, JournalSilent
<1>17. ASSUME NEW r \in Requests, TransferJournalOut(r) PROVE JournalInv'
  <2>1. \E l \in {"journalIn", "refused"} : pc' = [pc EXCEPT ![r] = l]
    BY <1>17 DEF TransferJournalOut, Journal, Proceed, Refuse
  <2>2. UNCHANGED <<items, fresh, call, line>> /\ movements \subseteq movements'
    BY <1>17 DEF TransferJournalOut, Journal, local
  <2>3. QED
    BY <2>1, <2>2, JournalSilent
<1>18. ASSUME NEW r \in Requests, TransferJournalIn(r) PROVE JournalInv'
  <2>1. \E l \in {"commit", "refused"} : pc' = [pc EXCEPT ![r] = l]
    BY <1>18 DEF TransferJournalIn, Journal, Proceed, Refuse
  <2>2. UNCHANGED <<items, fresh, call, line>> /\ movements \subseteq movements'
    BY <1>18 DEF TransferJournalIn, Journal, local
  <2>3. QED
    BY <2>1, <2>2, JournalSilent
<1>19. ASSUME NEW r \in Requests, MovementReadItem(r) PROVE JournalInv'
  <2>1. \E l \in {"journal", "balance", "refused"} : pc' = [pc EXCEPT ![r] = l]
    BY <1>19 DEF MovementReadItem, Proceed, Refuse
  <2>2. UNCHANGED <<items, fresh, call, line>> /\ movements \subseteq movements'
    BY <1>19 DEF MovementReadItem, store
  <2>3. QED
    BY <2>1, <2>2, JournalSilent
<1>20. ASSUME NEW r \in Requests, MovementReadBalance(r) PROVE JournalInv'
  <2>1. \E l \in {"journal", "refused"} : pc' = [pc EXCEPT ![r] = l]
    BY <1>20 DEF MovementReadBalance, ReadBalance, Proceed, Refuse
  <2>2. UNCHANGED <<items, fresh, call, line>> /\ movements \subseteq movements'
    BY <1>20 DEF MovementReadBalance, ReadBalance, store
  <2>3. QED
    BY <2>1, <2>2, JournalSilent
<1>21. ASSUME NEW r \in Requests, MovementStoreItem(r) PROVE JournalInv'
  <2>1. \E l \in {"commit", "refused"} : pc' = [pc EXCEPT ![r] = l]
    BY <1>21 DEF MovementStoreItem, Proceed, Refuse
  <2>2. UNCHANGED <<items, fresh, call, line>> /\ movements \subseteq movements'
    BY <1>21 DEF MovementStoreItem, local
  <2>3. QED
    BY <2>1, <2>2, JournalSilent
<1>22. ASSUME NEW r \in Requests, SaleReadItem(r) PROVE JournalInv'
  <2>1. \E l \in {"journal", "balance", "refused"} : pc' = [pc EXCEPT ![r] = l]
    BY <1>22 DEF SaleReadItem, Proceed, Refuse
  <2>2. UNCHANGED <<items, fresh, call, line>> /\ movements \subseteq movements'
    BY <1>22 DEF SaleReadItem, store
  <2>3. QED
    BY <2>1, <2>2, JournalSilent
<1>23. ASSUME NEW r \in Requests, SaleReadBalance(r) PROVE JournalInv'
  <2>1. \E l \in {"debit", "refused"} : pc' = [pc EXCEPT ![r] = l]
    BY <1>23 DEF SaleReadBalance, ReadBalance, Proceed, Refuse
  <2>2. UNCHANGED <<items, fresh, call, line>> /\ movements \subseteq movements'
    BY <1>23 DEF SaleReadBalance, ReadBalance, store
  <2>3. QED
    BY <2>1, <2>2, JournalSilent
<1>24. ASSUME NEW r \in Requests, SaleDebit(r) PROVE JournalInv'
  <2>1. \E l \in {"journal", "refused"} : pc' = [pc EXCEPT ![r] = l]
    BY <1>24 DEF SaleDebit, WriteBalance, Refuse
  <2>2. UNCHANGED <<items, fresh, call, line>> /\ movements \subseteq movements'
    BY <1>24 DEF SaleDebit, WriteBalance, store, local
  <2>3. QED
    BY <2>1, <2>2, JournalSilent
<1>25. ASSUME NEW r \in Requests, SaleNumber(r) PROVE JournalInv'
  <2>1. pc' = [pc EXCEPT ![r] = "invoice"]
    BY <1>25 DEF SaleNumber, Proceed
  <2>2. UNCHANGED <<items, fresh, call, line>> /\ movements \subseteq movements'
    BY <1>25 DEF SaleNumber, store
  <2>3. QED
    BY <2>1, <2>2, JournalSilent
<1>26. ASSUME NEW r \in Requests, SaleInvoice(r) PROVE JournalInv'
  <2>1. pc' = [pc EXCEPT ![r] = "commit"]
    BY <1>26 DEF SaleInvoice, Proceed
  <2>2. UNCHANGED <<items, fresh, call, line>> /\ movements \subseteq movements'
    BY <1>26 DEF SaleInvoice, local
  <2>3. QED
    BY <2>1, <2>2, JournalSilent
<1>27. ASSUME NEW r \in Requests, Fail(r) PROVE JournalInv'
  <2>1. pc' = [pc EXCEPT ![r] = "refused"]
    BY <1>27 DEF Fail, Refuse
  <2>2. UNCHANGED <<items, fresh, call, line>> /\ movements \subseteq movements'
    BY <1>27 DEF Fail, store, local
  <2>3. QED
    BY <2>1, <2>2, JournalSilent
<1>28. ASSUME NEW r \in Requests, DeadlockVictim(r) PROVE JournalInv'
  <2>1. pc' = [pc EXCEPT ![r] = "refused"]
    BY <1>28 DEF DeadlockVictim, Refuse
  <2>2. UNCHANGED <<items, fresh, call, line>> /\ movements \subseteq movements'
    BY <1>28 DEF DeadlockVictim, store, local
  <2>3. QED
    BY <2>1, <2>2, JournalSilent
<1>29. ASSUME NEW r \in Requests, Expire(r) PROVE JournalInv'
  BY <1>29, JournalKept DEF Expire, store, local, Creating, Journaled
<1>30. QED
  BY <1>1, <1>2, <1>3, <1>4, <1>5, <1>6, <1>7, <1>8, <1>9, <1>10, <1>11, <1>12, <1>13, <1>14, <1>15, <1>16, <1>17, <1>18, <1>19, <1>20, <1>21, <1>22, <1>23, <1>24, <1>25, <1>26, <1>27, <1>28, <1>29 DEF Next, Handler, AllAnswered

(* Only three actions store a quantity: one creates the article, the other *)
(* two are steps of a request that has filed its movement.                 *)
LEMMA ChangeTraced ==
  ASSUME TypeInv, JournalInv, [Next]_vars, NEW i \in items \cap items', qty'[i] # qty[i]
  PROVE  Traced(i)
<1>1. PICK r \in Requests : \/ CreateItem(r) \/ MovementStoreItem(r) \/ SaleStoreItem(r)
  BY DEF vars, Next, Handler, AllAnswered, Receive, Commit, CreateBalance, RemoveRead, RemoveDelete,
         TransferReadItem, TransferReadSource, TransferDebit, TransferReadDest, TransferCredit,
         TransferJournalOut, TransferJournalIn, MovementReadItem, MovementReadBalance,
         MovementJournal, MovementWriteBalance, SaleReadItem, SaleReadBalance, SaleDebit,
         SaleJournal, SaleNumber, SaleInvoice, Fail, Expire, DeadlockVictim,
         ReadBalance, WriteBalance, Journal, store
<1>2. ~CreateItem(r)
  <2>1. SUFFICES ASSUME CreateItem(r) PROVE FALSE
    OBVIOUS
  <2>2. Unborn(Article(r)) /\ qty' = [qty EXCEPT ![Article(r)] = Amount(r)]
    BY <2>1 DEF CreateItem, StoreQuantity, At, Unborn, Creating
  <2>3. i # Article(r)
    BY <2>2 DEF JournalInv
  <2>4. QED
    BY <2>2, <2>3 DEF TypeInv, TypeOK
<1>3. pc[r] = "store" /\ Journaled(r)
  BY <1>1, <1>2 DEF MovementStoreItem, SaleStoreItem, At, Journaled
<1>4. i = Article(r) /\ Article(r) \in items
  <2>1. \/ UNCHANGED qty
        \/ Article(r) \in items /\ \E v : qty' = [qty EXCEPT ![Article(r)] = v]
    BY <1>1, <1>2 DEF MovementStoreItem, SaleStoreItem, StoreQuantity
  <2>2. QED
    BY <2>1 DEF TypeInv, TypeOK
<1>5. pc'[r] # "store"
  BY <1>1, <1>2, <1>3 DEF MovementStoreItem, SaleStoreItem, Proceed, Refuse, TypeInv, TypeOK
<1>6. PICK m \in movements : OnFile(r, m)
  BY <1>3, <1>4 DEF JournalInv
<1>7. QED
  BY <1>3, <1>4, <1>5, <1>6 DEF Traced, OnFile

(* quincaillerie-stock.service.ts:196-230, 264-278: the movement is filed  *)
(* before the quantity is stored, so a change of quantity is always traced *)
(* to the movement of its own request and line, whatever fails or overlaps.*)
THEOREM StockChangesJournaled == Spec => ChangesJournaled
<1>1. Init => TypeInv /\ JournalInv
  BY TypeInit, JournalInvInit DEF TypeInv, RequestOK, Init
<1>2. TypeInv /\ JournalInv /\ [Next]_vars => (TypeInv /\ JournalInv)'
  BY TypeStep, RequestStep, JournalStep DEF TypeInv
<1>3. TypeInv /\ JournalInv /\ [Next]_vars
        => [\A i \in items \cap items' : qty'[i] # qty[i] => Traced(i)]_vars
  BY ChangeTraced
<1>4. QED
  BY <1>1, <1>2, <1>3, PTL DEF Spec, ChangesJournaled

-----------------------------------------------------------------------------
(* One step of one request.                                                *)
Step(r) == Handler(r) \/ Fail(r) \/ Expire(r) \/ DeadlockVictim(r)

OthersKept(r) ==
  \A o \in Requests \ {r} :
    /\ pc'[o] = pc[o] /\ call'[o] = call[o] /\ line'[o] = line[o]
    /\ onHand'[o] = onHand[o] /\ inDepot'[o] = inDepot[o] /\ number'[o] = number[o]
    /\ pend'[o] = pend[o] /\ open'[o] = open[o]

LEMMA StepAlone ==
  ASSUME TypeOK, NEW r \in Requests, Step(r)
  PROVE  OthersKept(r)
<1> USE DEF TypeOK, OthersKept, Proceed, Refuse, store, local
<1>1. CASE Receive(r)
  BY <1>1 DEF Receive
<1>2. CASE Commit(r)
  BY <1>2 DEF Commit
<1>3. CASE CreateItem(r)
  BY <1>3 DEF CreateItem
<1>4. CASE CreateBalance(r)
  BY <1>4 DEF CreateBalance, WriteBalance
<1>5. CASE RemoveRead(r)
  BY <1>5 DEF RemoveRead
<1>6. CASE RemoveDelete(r)
  BY <1>6 DEF RemoveDelete
<1>7. CASE TransferReadItem(r)
  BY <1>7 DEF TransferReadItem
<1>8. CASE TransferReadSource(r)
  BY <1>8 DEF TransferReadSource, ReadBalance
<1>9. CASE TransferDebit(r)
  BY <1>9 DEF TransferDebit, WriteBalance
<1>10. CASE TransferReadDest(r)
  BY <1>10 DEF TransferReadDest, ReadBalance
<1>11. CASE TransferCredit(r)
  BY <1>11 DEF TransferCredit, WriteBalance
<1>12. CASE TransferJournalOut(r)
  BY <1>12 DEF TransferJournalOut, Journal
<1>13. CASE TransferJournalIn(r)
  BY <1>13 DEF TransferJournalIn, Journal
<1>14. CASE MovementReadItem(r)
  BY <1>14 DEF MovementReadItem
<1>15. CASE MovementReadBalance(r)
  BY <1>15 DEF MovementReadBalance, ReadBalance
<1>16. CASE MovementJournal(r)
  BY <1>16 DEF MovementJournal, Journal
<1>17. CASE MovementWriteBalance(r)
  BY <1>17 DEF MovementWriteBalance, WriteBalance
<1>18. CASE MovementStoreItem(r)
  BY <1>18 DEF MovementStoreItem
<1>19. CASE SaleReadItem(r)
  BY <1>19 DEF SaleReadItem
<1>20. CASE SaleReadBalance(r)
  BY <1>20 DEF SaleReadBalance, ReadBalance
<1>21. CASE SaleDebit(r)
  BY <1>21 DEF SaleDebit, WriteBalance
<1>22. CASE SaleJournal(r)
  BY <1>22 DEF SaleJournal, Journal
<1>23. CASE SaleStoreItem(r)
  BY <1>23 DEF SaleStoreItem
<1>24. CASE SaleNumber(r)
  BY <1>24 DEF SaleNumber
<1>25. CASE SaleInvoice(r)
  BY <1>25 DEF SaleInvoice
<1>26. CASE Fail(r)
  BY <1>26 DEF Fail
<1>27. CASE Expire(r)
  BY <1>27 DEF Expire
<1>28. CASE DeadlockVictim(r)
  BY <1>28 DEF DeadlockVictim
<1>29. QED
  BY <1>1, <1>2, <1>3, <1>4, <1>5, <1>6, <1>7, <1>8, <1>9, <1>10, <1>11, <1>12, <1>13, <1>14,
     <1>15, <1>16, <1>17, <1>18, <1>19, <1>20, <1>21, <1>22, <1>23, <1>24, <1>25, <1>26, <1>27,
     <1>28 DEF Step, Handler

LEMMA StepCall ==
  ASSUME TypeOK, NEW r \in Requests, Step(r), ~Receive(r)
  PROVE  /\ UNCHANGED <<call, fresh>>
         /\ pc'[r] = "idle" => pc[r] = "idle"
         /\ call[r].op # "sale" => UNCHANGED line
         /\ call[r].op = "create" /\ pc'[r] = "item" => pc[r] = "item"
<1> USE DEF TypeOK, Proceed, Refuse, At, store, local
<1>1. CASE Commit(r)
  BY <1>1 DEF Commit
<1>2. CASE CreateItem(r)
  BY <1>2 DEF CreateItem
<1>3. CASE CreateBalance(r)
  BY <1>3 DEF CreateBalance, WriteBalance
<1>4. CASE RemoveRead(r)
  BY <1>4 DEF RemoveRead
<1>5. CASE RemoveDelete(r)
  BY <1>5 DEF RemoveDelete
<1>6. CASE TransferReadItem(r)
  BY <1>6 DEF TransferReadItem
<1>7. CASE TransferReadSource(r)
  BY <1>7 DEF TransferReadSource, ReadBalance
<1>8. CASE TransferDebit(r)
  BY <1>8 DEF TransferDebit, WriteBalance
<1>9. CASE TransferReadDest(r)
  BY <1>9 DEF TransferReadDest, ReadBalance
<1>10. CASE TransferCredit(r)
  BY <1>10 DEF TransferCredit, WriteBalance
<1>11. CASE TransferJournalOut(r)
  BY <1>11 DEF TransferJournalOut, Journal
<1>12. CASE TransferJournalIn(r)
  BY <1>12 DEF TransferJournalIn, Journal
<1>13. CASE MovementReadItem(r)
  BY <1>13 DEF MovementReadItem
<1>14. CASE MovementReadBalance(r)
  BY <1>14 DEF MovementReadBalance, ReadBalance
<1>15. CASE MovementJournal(r)
  BY <1>15 DEF MovementJournal, Journal
<1>16. CASE MovementWriteBalance(r)
  BY <1>16 DEF MovementWriteBalance, WriteBalance
<1>17. CASE MovementStoreItem(r)
  BY <1>17 DEF MovementStoreItem
<1>18. CASE SaleReadItem(r)
  BY <1>18 DEF SaleReadItem
<1>19. CASE SaleReadBalance(r)
  BY <1>19 DEF SaleReadBalance, ReadBalance
<1>20. CASE SaleDebit(r)
  BY <1>20 DEF SaleDebit, WriteBalance
<1>21. CASE SaleJournal(r)
  BY <1>21 DEF SaleJournal, Journal
<1>22. CASE SaleStoreItem(r)
  BY <1>22 DEF SaleStoreItem
<1>23. CASE SaleNumber(r)
  BY <1>23 DEF SaleNumber
<1>24. CASE SaleInvoice(r)
  BY <1>24 DEF SaleInvoice
<1>25. CASE Fail(r)
  BY <1>25 DEF Fail
<1>26. CASE Expire(r)
  BY <1>26 DEF Expire
<1>27. CASE DeadlockVictim(r)
  BY <1>27 DEF DeadlockVictim
<1>28. QED
  BY <1>1, <1>2, <1>3, <1>4, <1>5, <1>6, <1>7, <1>8, <1>9, <1>10, <1>11, <1>12, <1>13, <1>14,
     <1>15, <1>16, <1>17, <1>18, <1>19, <1>20, <1>21, <1>22, <1>23, <1>24, <1>25, <1>26, <1>27
     DEF Step, Handler

LEMMA StepBooks ==
  ASSUME TypeOK, NEW r \in Requests, Step(r), ~Receive(r), ~CreateItem(r), ~RemoveDelete(r)
  PROVE  UNCHANGED items /\ movements \subseteq movements'
<1> USE DEF TypeOK, Proceed, Refuse, At, store, local
<1>1. CASE Commit(r)
  BY <1>1 DEF Commit
<1>2. CASE CreateBalance(r)
  BY <1>2 DEF CreateBalance, WriteBalance
<1>3. CASE RemoveRead(r)
  BY <1>3 DEF RemoveRead
<1>4. CASE TransferReadItem(r)
  BY <1>4 DEF TransferReadItem
<1>5. CASE TransferReadSource(r)
  BY <1>5 DEF TransferReadSource, ReadBalance
<1>6. CASE TransferDebit(r)
  BY <1>6 DEF TransferDebit, WriteBalance
<1>7. CASE TransferReadDest(r)
  BY <1>7 DEF TransferReadDest, ReadBalance
<1>8. CASE TransferCredit(r)
  BY <1>8 DEF TransferCredit, WriteBalance
<1>9. CASE TransferJournalOut(r)
  BY <1>9 DEF TransferJournalOut, Journal
<1>10. CASE TransferJournalIn(r)
  BY <1>10 DEF TransferJournalIn, Journal
<1>11. CASE MovementReadItem(r)
  BY <1>11 DEF MovementReadItem
<1>12. CASE MovementReadBalance(r)
  BY <1>12 DEF MovementReadBalance, ReadBalance
<1>13. CASE MovementJournal(r)
  BY <1>13 DEF MovementJournal, Journal
<1>14. CASE MovementWriteBalance(r)
  BY <1>14 DEF MovementWriteBalance, WriteBalance
<1>15. CASE MovementStoreItem(r)
  BY <1>15 DEF MovementStoreItem
<1>16. CASE SaleReadItem(r)
  BY <1>16 DEF SaleReadItem
<1>17. CASE SaleReadBalance(r)
  BY <1>17 DEF SaleReadBalance, ReadBalance
<1>18. CASE SaleDebit(r)
  BY <1>18 DEF SaleDebit, WriteBalance
<1>19. CASE SaleJournal(r)
  BY <1>19 DEF SaleJournal, Journal
<1>20. CASE SaleStoreItem(r)
  BY <1>20 DEF SaleStoreItem
<1>21. CASE SaleNumber(r)
  BY <1>21 DEF SaleNumber
<1>22. CASE SaleInvoice(r)
  BY <1>22 DEF SaleInvoice
<1>23. CASE Fail(r)
  BY <1>23 DEF Fail
<1>24. CASE Expire(r)
  BY <1>24 DEF Expire
<1>25. CASE DeadlockVictim(r)
  BY <1>25 DEF DeadlockVictim
<1>26. QED
  BY <1>1, <1>2, <1>3, <1>4, <1>5, <1>6, <1>7, <1>8, <1>9, <1>10, <1>11, <1>12, <1>13, <1>14,
     <1>15, <1>16, <1>17, <1>18, <1>19, <1>20, <1>21, <1>22, <1>23, <1>24, <1>25 DEF Step,
     Handler

(* An article on file stays so, with its movements, until it is deleted,   *)
(* and an article that was deleted does not come back.                     *)
LEMMA BooksKept ==
  ASSUME TypeInv, JournalInv, NEW r \in Requests, Step(r)
  PROVE  /\ \A i : Unborn(i)' => Unborn(i)
         /\ \A i \in items' : i \in items \/ Unborn(i)
         /\ \A m \in movements : m.item \in items' => m \in movements'
<1>0. TypeOK /\ OthersKept(r)
  BY StepAlone DEF TypeInv
<1>1. \A o \in Requests \ {r} : (Creating(o)' <=> Creating(o)) /\ Article(o)' = Article(o)
  BY <1>0 DEF OthersKept, Creating, Article, Current
<1>2. CASE Receive(r)
  <2>1. PICK c \in Calls : /\ pc[r] = "idle" /\ pc' = [pc EXCEPT ![r] = "item"]
                           /\ call' = [call EXCEPT ![r] = c]
                           /\ c.op = "create" => Articles(c) \subseteq fresh
                           /\ fresh' = IF c.op = "create" THEN fresh \ Articles(c) ELSE fresh
                           /\ UNCHANGED <<items, movements, line>>
    BY <1>2 DEF Receive
  <2>2. Creating(r)' => Article(r)' \in fresh
    <3>1. SUFFICES ASSUME c.op = "create" PROVE Article(r)' \in Articles(c)
      BY <1>0, <2>1 DEF Creating, TypeOK
    <3>2. Article(r)' = c.lines[1].item /\ 1 \in DOMAIN c.lines
      <4>1. line'[r] = 1 /\ call'[r] = c
        BY <2>1 DEF TypeInv, TypeOK, RequestOK
      <4>2. c \in Call /\ Len(c.lines) > 0
        BY CallsAssumption
      <4>3. c.lines \in Seq(Line) /\ Len(c.lines) \in Nat
        BY <4>2 DEF Call
      <4>4. QED
        BY <4>1, <4>2, <4>3 DEF Article, Current
    <3>3. QED
      BY <3>2 DEF Articles
  <2>3. \A i : Unborn(i)' => Unborn(i)
    BY <1>1, <2>1, <2>2 DEF Unborn
  <2>4. QED
    BY <2>1, <2>3
<1>3. CASE ~Receive(r)
  <2>1. /\ UNCHANGED fresh
        /\ Creating(r)' => Creating(r) /\ Article(r)' = Article(r)
    BY <1>0, <1>3, StepCall DEF Creating, Article, Current
  <2>2. \A i : Unborn(i)' => Unborn(i)
    BY <1>1, <2>1 DEF Unborn
  <2>3. CASE CreateItem(r)
    BY <2>2, <2>3 DEF CreateItem, At, Creating, Unborn
  <2>4. CASE RemoveDelete(r)
    BY <2>2, <2>4 DEF RemoveDelete
  <2>5. CASE ~CreateItem(r) /\ ~RemoveDelete(r)
    BY <1>0, <1>3, <2>2, <2>5, StepBooks
  <2>6. QED
    BY <2>3, <2>4, <2>5
<1>4. QED
  BY <1>2, <1>3

-----------------------------------------------------------------------------
(* Counter sales.  A line is sealed when its movement is on file for as    *)
(* long as its article is, and its article is not one still to come; a     *)
(* sale has sealed the lines it is past.                                   *)
OutOnFile(r, n) ==
  \E m \in movements :
    /\ m.by = r /\ m.line = n /\ m.kind = "OUT" /\ m.item = call[r].lines[n].item
    /\ m.quantity = call[r].lines[n].quantity

Sealed(r, n) ==
  /\ ~Unborn(call[r].lines[n].item)
  /\ call[r].lines[n].item \in items => OutOnFile(r, n)

(* The lines a sale is past.                                               *)
Past(r, n) == \/ n < line[r]
              \/ n = line[r] /\ pc[r] \in {"store", "number", "invoice", "commit"}

SaleSealed(r) ==
  call[r].op = "sale" =>
    /\ \A n \in DOMAIN call[r].lines : Past(r, n) => Sealed(r, n)
    /\ pc[r] \in {"number", "invoice", "commit"} => line[r] = Len(call[r].lines)

InvoiceSealed(r) ==
  /\ call[r].op = "sale" /\ pc[r] \in {"commit", "done", "refused"}
  /\ \A n \in DOMAIN call[r].lines : Sealed(r, n)

SaleInv == /\ \A r \in Requests : SaleSealed(r)
           /\ \A v \in invoices : InvoiceSealed(v.by)

LEMMA SealedStays ==
  ASSUME TypeInv, JournalInv, NEW r \in Requests, Step(r),
         NEW o \in Requests, call'[o] = call[o], NEW n, Sealed(o, n)
  PROVE  Sealed(o, n)'
<1>1. PICK i : i = call[o].lines[n].item
  OBVIOUS
<1>2. ~Unborn(i)' /\ (i \in items' => i \in items)
  BY <1>1, BooksKept DEF Sealed
<1>3. ASSUME i \in items' PROVE OutOnFile(o, n)'
  <2>1. PICK m \in movements :
          /\ m.by = o /\ m.line = n /\ m.kind = "OUT" /\ m.item = i
          /\ m.quantity = call[o].lines[n].quantity
    BY <1>1, <1>2, <1>3 DEF Sealed, OutOnFile
  <2>2. m \in movements'
    BY <1>3, <2>1, BooksKept
  <2>3. QED
    BY <1>1, <2>1, <2>2 DEF OutOnFile
<1>4. QED
  BY <1>1, <1>2, <1>3 DEF Sealed, Unborn, Creating, Article, Current

(* A sale gets past a line only by filing its movement or storing its      *)
(* quantity.                                                               *)
LEMMA SaleMoves ==
  ASSUME TypeOK, NEW r \in Requests, Step(r), ~Receive(r), call[r].op = "sale",
         ~SaleJournal(r), ~SaleStoreItem(r)
  PROVE  /\ line'[r] = line[r]
         /\ pc'[r] = "store" => pc[r] = "store"
         /\ pc'[r] \in {"number", "invoice", "commit"} => pc[r] \in {"number", "invoice", "commit"}
<1> USE DEF TypeOK, Proceed, Refuse, At, store, local
<1>1. CASE Commit(r)
  BY <1>1 DEF Commit
<1>2. CASE CreateItem(r)
  BY <1>2 DEF CreateItem
<1>3. CASE CreateBalance(r)
  BY <1>3 DEF CreateBalance, WriteBalance
<1>4. CASE RemoveRead(r)
  BY <1>4 DEF RemoveRead
<1>5. CASE RemoveDelete(r)
  BY <1>5 DEF RemoveDelete
<1>6. CASE TransferReadItem(r)
  BY <1>6 DEF TransferReadItem
<1>7. CASE TransferReadSource(r)
  BY <1>7 DEF TransferReadSource, ReadBalance
<1>8. CASE TransferDebit(r)
  BY <1>8 DEF TransferDebit, WriteBalance
<1>9. CASE TransferReadDest(r)
  BY <1>9 DEF TransferReadDest, ReadBalance
<1>10. CASE TransferCredit(r)
  BY <1>10 DEF TransferCredit, WriteBalance
<1>11. CASE TransferJournalOut(r)
  BY <1>11 DEF TransferJournalOut, Journal
<1>12. CASE TransferJournalIn(r)
  BY <1>12 DEF TransferJournalIn, Journal
<1>13. CASE MovementReadItem(r)
  BY <1>13 DEF MovementReadItem
<1>14. CASE MovementReadBalance(r)
  BY <1>14 DEF MovementReadBalance, ReadBalance
<1>15. CASE MovementJournal(r)
  BY <1>15 DEF MovementJournal, Journal
<1>16. CASE MovementWriteBalance(r)
  BY <1>16 DEF MovementWriteBalance, WriteBalance
<1>17. CASE MovementStoreItem(r)
  BY <1>17 DEF MovementStoreItem
<1>18. CASE SaleReadItem(r)
  BY <1>18 DEF SaleReadItem
<1>19. CASE SaleReadBalance(r)
  BY <1>19 DEF SaleReadBalance, ReadBalance
<1>20. CASE SaleDebit(r)
  BY <1>20 DEF SaleDebit, WriteBalance
<1>21. CASE SaleNumber(r)
  BY <1>21 DEF SaleNumber
<1>22. CASE SaleInvoice(r)
  BY <1>22 DEF SaleInvoice
<1>23. CASE Fail(r)
  BY <1>23 DEF Fail
<1>24. CASE Expire(r)
  BY <1>24 DEF Expire
<1>25. CASE DeadlockVictim(r)
  BY <1>25 DEF DeadlockVictim
<1>26. QED
  BY <1>1, <1>2, <1>3, <1>4, <1>5, <1>6, <1>7, <1>8, <1>9, <1>10, <1>11, <1>12, <1>13, <1>14,
     <1>15, <1>16, <1>17, <1>18, <1>19, <1>20, <1>21, <1>22, <1>23, <1>24, <1>25 DEF Step,
     Handler

(* An answered request, and one about to commit, never goes back to work.  *)
LEMMA AnsweredStays ==
  ASSUME TypeOK, NEW r \in Requests, Step(r), pc[r] \in {"commit", "done", "refused"}
  PROVE  pc'[r] \in {"commit", "done", "refused"}
<1> USE DEF TypeOK, Proceed, Refuse, At
<1>1. CASE Receive(r)
  BY <1>1 DEF Receive
<1>2. CASE Commit(r)
  BY <1>2 DEF Commit
<1>3. CASE CreateItem(r)
  BY <1>3 DEF CreateItem
<1>4. CASE CreateBalance(r)
  BY <1>4 DEF CreateBalance, WriteBalance
<1>5. CASE RemoveRead(r)
  BY <1>5 DEF RemoveRead
<1>6. CASE RemoveDelete(r)
  BY <1>6 DEF RemoveDelete
<1>7. CASE TransferReadItem(r)
  BY <1>7 DEF TransferReadItem
<1>8. CASE TransferReadSource(r)
  BY <1>8 DEF TransferReadSource, ReadBalance
<1>9. CASE TransferDebit(r)
  BY <1>9 DEF TransferDebit, WriteBalance
<1>10. CASE TransferReadDest(r)
  BY <1>10 DEF TransferReadDest, ReadBalance
<1>11. CASE TransferCredit(r)
  BY <1>11 DEF TransferCredit, WriteBalance
<1>12. CASE TransferJournalOut(r)
  BY <1>12 DEF TransferJournalOut, Journal
<1>13. CASE TransferJournalIn(r)
  BY <1>13 DEF TransferJournalIn, Journal
<1>14. CASE MovementReadItem(r)
  BY <1>14 DEF MovementReadItem
<1>15. CASE MovementReadBalance(r)
  BY <1>15 DEF MovementReadBalance, ReadBalance
<1>16. CASE MovementJournal(r)
  BY <1>16 DEF MovementJournal, Journal
<1>17. CASE MovementWriteBalance(r)
  BY <1>17 DEF MovementWriteBalance, WriteBalance
<1>18. CASE MovementStoreItem(r)
  BY <1>18 DEF MovementStoreItem
<1>19. CASE SaleReadItem(r)
  BY <1>19 DEF SaleReadItem
<1>20. CASE SaleReadBalance(r)
  BY <1>20 DEF SaleReadBalance, ReadBalance
<1>21. CASE SaleDebit(r)
  BY <1>21 DEF SaleDebit, WriteBalance
<1>22. CASE SaleJournal(r)
  BY <1>22 DEF SaleJournal, Journal
<1>23. CASE SaleStoreItem(r)
  BY <1>23 DEF SaleStoreItem
<1>24. CASE SaleNumber(r)
  BY <1>24 DEF SaleNumber
<1>25. CASE SaleInvoice(r)
  BY <1>25 DEF SaleInvoice
<1>26. CASE Fail(r)
  BY <1>26 DEF Fail
<1>27. CASE Expire(r)
  BY <1>27 DEF Expire
<1>28. CASE DeadlockVictim(r)
  BY <1>28 DEF DeadlockVictim
<1>29. QED
  BY <1>1, <1>2, <1>3, <1>4, <1>5, <1>6, <1>7, <1>8, <1>9, <1>10, <1>11, <1>12, <1>13, <1>14,
     <1>15, <1>16, <1>17, <1>18, <1>19, <1>20, <1>21, <1>22, <1>23, <1>24, <1>25, <1>26, <1>27,
     <1>28 DEF Step, Handler

LEMMA SaleSealedStep ==
  ASSUME TypeInv, JournalInv, NEW r \in Requests, Step(r), SaleSealed(r)
  PROVE  SaleSealed(r)'
<1>0. TypeOK /\ call[r].lines \in Seq(Line) /\ line[r] \in Nat /\ Len(call[r].lines) \in Nat
      /\ DOMAIN call[r].lines = 1 .. Len(call[r].lines)
  <2>1. call[r] \in Call
    BY LineInHand DEF TypeInv
  <2>2. call[r].lines \in Seq(Line)
    BY <2>1 DEF Call
  <2>3. QED
    BY <2>2 DEF TypeInv, TypeOK
<1>1. CASE Receive(r)
  <2>1. PICK c \in Calls : pc'[r] = "item" /\ call'[r] = c /\ line'[r] = 1
    BY <1>1 DEF Receive, TypeInv, TypeOK, RequestOK
  <2>2. c \in Call
    OBVIOUS
  <2>3. c.lines \in Seq(Line)
    BY <2>2 DEF Call
  <2>4. \A n \in DOMAIN c.lines : ~ (n < 1)
    BY <2>3
  <2>5. QED
    BY <2>1, <2>4 DEF SaleSealed, Past
<1>2. CASE ~Receive(r)
  <2>0. SUFFICES ASSUME call[r].op = "sale" PROVE SaleSealed(r)'
    BY <1>0, <1>2, StepCall DEF SaleSealed
  <2>2. call'[r] = call[r]
    BY <1>0, <1>2, StepCall
  <2>3. CASE SaleJournal(r) /\ Article(r) \in items
    <3>1. /\ pc[r] = "journal" /\ pc'[r] = "store" /\ line'[r] = line[r] /\ UNCHANGED <<items, call, line>>
          /\ [by |-> r, line |-> line[r], item |-> Article(r), kind |-> "OUT",
              quantity |-> Amount(r), from |-> call[r].depot, to |-> NoDepot] \in movements'
      BY <1>0, <2>3 DEF SaleJournal, Journal, Proceed, At, local, TypeOK
    <3>2. Article(r) = call[r].lines[line[r]].item /\ Amount(r) = call[r].lines[line[r]].quantity
      BY DEF Article, Amount, Current
    <3>3. OutOnFile(r, line[r])'
      <4>1. PICK m : m = [by |-> r, line |-> line[r], item |-> Article(r), kind |-> "OUT",
                          quantity |-> Amount(r), from |-> call[r].depot, to |-> NoDepot]
        OBVIOUS
      <4>2. /\ m \in movements' /\ m.by = r /\ m.line = line'[r] /\ m.kind = "OUT"
            /\ m.item = call'[r].lines[line'[r]].item /\ m.quantity = call'[r].lines[line'[r]].quantity
        BY <2>2, <3>1, <3>2, <4>1
      <4>3. QED
        BY <4>2 DEF OutOnFile
    <3>4. PICK i : i = Article(r)
      OBVIOUS
    <3>5. ~Unborn(i) /\ ~Unborn(i)'
      BY <2>3, <3>4, BooksKept DEF JournalInv
    <3>8. i = call'[r].lines[line'[r]].item
      BY <2>2, <3>1, <3>2, <3>4
    <3>9. Sealed(r, line[r])'
      BY <3>3, <3>5, <3>8 DEF Sealed, Unborn
    <3>6. \A n \in DOMAIN call[r].lines : n < line[r] => Sealed(r, n)'
      BY <2>0, <2>2, SealedStays DEF SaleSealed, Past
    <3>7. QED
      BY <2>2, <3>1, <3>6, <3>9 DEF SaleSealed, Past
  <2>4. CASE SaleStoreItem(r) /\ Article(r) \in items
    <3>1. /\ pc[r] = "store" /\ line'[r] = NextLine(r)
          /\ line[r] # Len(call[r].lines) => pc'[r] = "item"
      BY <1>0, <2>4 DEF SaleStoreItem, At, Proceed, TypeOK
    <3>2. \A n \in DOMAIN call[r].lines : Past(r, n)' => Past(r, n)
      <4>1. CASE line[r] = Len(call[r].lines)
        BY <3>1, <4>1 DEF Past, NextLine
      <4>2. CASE line[r] # Len(call[r].lines)
        BY <1>0, <3>1, <4>2 DEF Past, NextLine
      <4>3. QED
        BY <4>1, <4>2
    <3>3. pc'[r] \in {"number", "invoice", "commit"} => line'[r] = Len(call[r].lines)
      BY <3>1 DEF NextLine
    <3>4. QED
      BY <2>0, <2>2, <3>2, <3>3, SealedStays DEF SaleSealed
  <2>5. CASE (SaleJournal(r) \/ SaleStoreItem(r)) /\ Article(r) \notin items
    <3>1. pc'[r] = "refused" /\ line'[r] = line[r]
      BY <1>0, <2>5 DEF SaleJournal, SaleStoreItem, Journal, Refuse, local, TypeOK
    <3>2. \A n \in DOMAIN call[r].lines : Past(r, n)' => Past(r, n)
      BY <3>1 DEF Past
    <3>3. QED
      BY <2>0, <2>2, <3>1, <3>2, SealedStays DEF SaleSealed
  <2>6. CASE ~SaleJournal(r) /\ ~SaleStoreItem(r)
    <3>1. /\ line'[r] = line[r]
          /\ pc'[r] = "store" => pc[r] = "store"
          /\ pc'[r] \in {"number", "invoice", "commit"} => pc[r] \in {"number", "invoice", "commit"}
      BY <1>0, <1>2, <2>0, <2>6, SaleMoves
    <3>2. \A n \in DOMAIN call[r].lines : Past(r, n)' => Past(r, n)
      BY <3>1 DEF Past
    <3>3. QED
      BY <2>0, <2>2, <3>1, <3>2, SealedStays DEF SaleSealed
  <2>7. QED
    BY <2>3, <2>4, <2>5, <2>6
<1>3. QED
  BY <1>1, <1>2

LEMMA SaleStep == TypeInv /\ JournalInv /\ SaleInv /\ [Next]_vars => SaleInv'
<1> SUFFICES ASSUME TypeInv, JournalInv, SaleInv, [Next]_vars PROVE SaleInv'
  OBVIOUS
<1>1. CASE UNCHANGED vars
  BY <1>1 DEF SaleInv, SaleSealed, InvoiceSealed, Past, Sealed, OutOnFile, Unborn, Creating,
     Article, Current, vars, store, local
<1>2. ASSUME NEW r \in Requests, Step(r) PROVE SaleInv'
  <2>0. TypeOK /\ OthersKept(r)
    BY <1>2, StepAlone DEF TypeInv
  <2>1. ASSUME NEW o \in Requests \ {r}, NEW n, Sealed(o, n) PROVE Sealed(o, n)'
    BY <1>2, <2>0, <2>1, SealedStays DEF OthersKept
  <2>2. ASSUME NEW o \in Requests \ {r} PROVE SaleSealed(o)'
    <3>1. /\ call'[o] = call[o] /\ pc'[o] = pc[o] /\ line'[o] = line[o] /\ SaleSealed(o)
      BY <2>0 DEF OthersKept, SaleInv
    <3>2. \A n : Past(o, n)' <=> Past(o, n)
      BY <3>1 DEF Past
    <3>3. QED
      BY <2>1, <3>1, <3>2 DEF SaleSealed
  <2>3. SaleSealed(r)'
    BY <1>2, SaleSealedStep DEF SaleInv
  <2>4. ASSUME NEW o \in Requests, InvoiceSealed(o) PROVE InvoiceSealed(o)'
    <3>1. call'[o] = call[o] /\ pc'[o] \in {"commit", "done", "refused"}
      <4>1. CASE o = r
        <5>1. ~Receive(r)
          BY <2>4, <4>1 DEF InvoiceSealed, Receive
        <5>2. QED
          BY <1>2, <2>0, <2>4, <4>1, <5>1, StepCall, AnsweredStays DEF InvoiceSealed
      <4>2. CASE o # r
        BY <2>0, <2>4, <4>2 DEF OthersKept, InvoiceSealed
      <4>3. QED
        BY <4>1, <4>2
    <3>2. \A n \in DOMAIN call[o].lines : Sealed(o, n)'
      BY <1>2, <2>4, <3>1, SealedStays DEF InvoiceSealed
    <3>3. QED
      BY <2>4, <3>1, <3>2 DEF InvoiceSealed
  <2>5. ASSUME NEW v \in invoices' PROVE InvoiceSealed(v.by)'
    <3>1. CASE v \in invoices
      BY <2>0, <2>4, <3>1 DEF SaleInv, TypeOK
    <3>2. CASE v \notin invoices
      <4>1. SaleInvoice(r)
        BY <1>2, <2>5, <3>2 DEF Step, Handler, Receive, Commit, CreateItem, CreateBalance, RemoveRead,
           RemoveDelete, TransferReadItem, TransferReadSource, TransferDebit, TransferReadDest,
           TransferCredit, TransferJournalOut, TransferJournalIn, MovementReadItem, MovementReadBalance,
           MovementJournal, MovementWriteBalance, MovementStoreItem, SaleReadItem, SaleReadBalance,
           SaleDebit, SaleJournal, SaleStoreItem, SaleNumber, Fail, Expire, DeadlockVictim,
           ReadBalance, WriteBalance, Journal, store
      <4>2. v.by = r /\ pc[r] = "invoice" /\ pc'[r] = "commit" /\ call[r].op = "sale" /\ call'[r] = call[r]
        BY <2>0, <2>5, <3>2, <4>1 DEF SaleInvoice, At, Proceed, local, TypeOK
      <4>3. SaleSealed(r) /\ call[r] \in Call
        BY <2>0, LineInHand DEF SaleInv
      <4>4. line[r] = Len(call[r].lines) /\ call[r].lines \in Seq(Line)
        BY <4>2, <4>3 DEF SaleSealed, Call
      <4>5. \A n \in DOMAIN call[r].lines : Past(r, n)
        BY <4>2, <4>4 DEF Past
      <4>6. \A n \in DOMAIN call[r].lines : Sealed(r, n)'
        BY <1>2, <4>2, <4>3, <4>5, SealedStays DEF SaleSealed
      <4>7. InvoiceSealed(r)'
        BY <4>2, <4>6 DEF InvoiceSealed
      <4>8. QED
        BY <4>2, <4>7 DEF InvoiceSealed
    <3>3. QED
      BY <3>1, <3>2
  <2>6. QED
    BY <2>2, <2>3, <2>5 DEF SaleInv
<1>3. QED
  BY <1>1, <1>2 DEF Next, Step, AllAnswered

(* Every line of an invoiced counter sale has its OUT movement on file for *)
(* as long as its article is, whatever overlaps, expires, fails or is      *)
(* deleted (quincaillerie-stock.service.ts:264-316).                       *)
THEOREM InvoicedSalesFiled == Spec => []InvoicedSalesJournaled
<1>1. Init => TypeInv /\ JournalInv /\ SaleInv
  <2> SUFFICES ASSUME Init PROVE TypeInv /\ JournalInv /\ SaleInv
    OBVIOUS
  <2>1. TypeInv /\ JournalInv
    BY TypeInit, JournalInvInit DEF TypeInv, RequestOK, Init
  <2>2. ASSUME NEW r \in Requests, NEW n \in DOMAIN call[r].lines PROVE ~Past(r, n)
    <3>1. call[r] \in Call /\ line[r] = 1 /\ pc[r] = "idle"
      BY <2>1, LineInHand DEF TypeInv, Init
    <3>2. call[r].lines \in Seq(Line)
      BY <3>1 DEF Call
    <3>3. QED
      BY <2>2, <3>1, <3>2 DEF Past
  <2>3. \A r \in Requests : SaleSealed(r)
    BY <2>2 DEF SaleSealed, Init
  <2>4. QED
    BY <2>1, <2>3 DEF SaleInv, Init
<1>2. TypeInv /\ JournalInv /\ SaleInv /\ [Next]_vars => (TypeInv /\ JournalInv /\ SaleInv)'
  BY TypeStep, RequestStep, JournalStep, SaleStep DEF TypeInv
<1>3. SaleInv => InvoicedSalesJournaled
  BY DEF SaleInv, InvoiceSealed, Sealed, OutOnFile, InvoicedSalesJournaled
<1>4. QED
  BY <1>1, <1>2, <1>3, PTL DEF Spec
=============================================================================
