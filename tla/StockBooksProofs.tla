--------------------------- MODULE StockBooksProofs ---------------------------
(***************************************************************************)
(* Proofs about module StockBooks: while requests on one article do not    *)
(* overlap and none fails, the journal explains the stock, the depots hold *)
(* it, and the handlers implement AbstractStock, for every value of the    *)
(* constants.                                                              *)
(***************************************************************************)
EXTENDS StockProofs

USE SentinelsAssumption, CallsAssumption, OpeningAssumption

-----------------------------------------------------------------------------
(* Requests on one article kept apart, no faults: what a request has read  *)
(* is still so when it writes.                                             *)
AloneOn(r, o) == Active(r) /\ Active(o) => Articles(call[r]) \cap Articles(call[o]) = {}

OpenOwn(r) == Active(r) /\ call[r].op # "remove" => open[r]

PendOwn(r) ==
  \A k \in Keys : pend[r][k] # NoRow
    => Active(r) /\ call[r].op # "remove" /\ k[1] \in Articles(call[r])

Working(r) ==
  call[r].op \in {"transfer", "movement", "sale"} /\ pc[r] \notin {"idle", "item", "done", "refused"}

HandCurrent(r) ==
  \/ call[r].op = "movement" /\ pc[r] \in {"balance", "journal", "credit", "store"}
  \/ call[r].op = "sale" /\ pc[r] \in {"balance", "debit", "journal", "store"}
  => onHand[r] = qty[Article(r)]

DepotCurrent(r) ==
  /\ \/ call[r].op \in {"transfer", "sale"} /\ pc[r] = "debit"
     \/ call[r].op = "movement" /\ call[r].depot # NoDepot /\ pc[r] \in {"journal", "credit"}
     => inDepot[r] = View(r, KeyAt(r, call[r].depot))
  /\ call[r].op = "transfer" /\ pc[r] = "credit"
     => inDepot[r] = View(r, KeyAt(r, call[r].dest))

OwnOK(r) == /\ OpenOwn(r) /\ PendOwn(r)
            /\ Working(r) => Article(r) \in items
            /\ HandCurrent(r) /\ DepotCurrent(r)

ApartInv == /\ \A r \in Requests : \A o \in Requests \ {r} : AloneOn(r, o)
            /\ \A r \in Requests : OwnOK(r)

LEMMA ApartInit == Init => ApartInv
BY DEF Init, ApartInv, AloneOn, OwnOK, OpenOwn, PendOwn, Working, HandCurrent, DepotCurrent,
       Active, NoWrites

LEMMA ArticleInHand ==
  ASSUME TypeOK, NEW r \in Requests
  PROVE  /\ Article(r) \in Articles(call[r]) /\ Article(r) \in Items
         /\ \A d \in Depots : KeyAt(r, d) \in Keys /\ KeyAt(r, d)[1] = Article(r)
BY LineInHand DEF Articles, Article, Current, KeyAt

(* The transaction of a request is open as long as the request is active.  *)
LEMMA OpenOwnStep ==
  ASSUME TypeInv, NEW r \in Requests, Step(r), ~Faults, OpenOwn(r)
  PROVE  OpenOwn(r)'
<1> USE DEF TypeInv, TypeOK, Proceed, Refuse, At, store, local, OpenOwn, Active
<1>1. CASE Receive(r)
  BY <1>1 DEF Receive
<1>2. CASE Commit(r)
  BY <1>2 DEF Commit
<1>3. CASE CreateItem(r)
  BY <1>3 DEF CreateItem
<1>4. CASE CreateBalance(r)
  BY <1>4 DEF CreateBalance, WriteBalance
<1>5. CASE RemoveRead(r)
  BY <1>5 DEF RemoveRead
<1>6. CASE RemoveDelete(r)
  BY <1>6 DEF RemoveDelete
<1>7. CASE TransferReadItem(r)
  BY <1>7 DEF TransferReadItem
<1>8. CASE TransferReadSource(r)
  BY <1>8 DEF TransferReadSource, ReadBalance
<1>9. CASE TransferDebit(r)
  BY <1>9 DEF TransferDebit, WriteBalance
<1>10. CASE TransferReadDest(r)
  BY <1>10 DEF TransferReadDest, ReadBalance
<1>11. CASE TransferCredit(r)
  BY <1>11 DEF TransferCredit, WriteBalance
<1>12. CASE TransferJournalOut(r)
  BY <1>12 DEF TransferJournalOut, Journal
<1>13. CASE TransferJournalIn(r)
  BY <1>13 DEF TransferJournalIn, Journal
<1>14. CASE MovementReadItem(r)
  BY <1>14 DEF MovementReadItem
<1>15. CASE MovementReadBalance(r)
  BY <1>15 DEF MovementReadBalance, ReadBalance
<1>16. CASE MovementJournal(r)
  BY <1>16 DEF MovementJournal, Journal
<1>17. CASE MovementWriteBalance(r)
  BY <1>17 DEF MovementWriteBalance, WriteBalance
<1>18. CASE MovementStoreItem(r)
  BY <1>18 DEF MovementStoreItem
<1>19. CASE SaleReadItem(r)
  BY <1>19 DEF SaleReadItem
<1>20. CASE SaleReadBalance(r)
  BY <1>20 DEF SaleReadBalance, ReadBalance
<1>21. CASE SaleDebit(r)
  BY <1>21 DEF SaleDebit, WriteBalance
<1>22. CASE SaleJournal(r)
  BY <1>22 DEF SaleJournal, Journal
<1>23. CASE SaleStoreItem(r)
  BY <1>23 DEF SaleStoreItem
<1>24. CASE SaleNumber(r)
  BY <1>24 DEF SaleNumber
<1>25. CASE SaleInvoice(r)
  BY <1>25 DEF SaleInvoice
<1>26. CASE Fail(r)
  BY <1>26 DEF Fail
<1>27. CASE Expire(r)
  BY <1>27 DEF Expire
<1>28. CASE DeadlockVictim(r)
  BY <1>28 DEF DeadlockVictim
<1>29. QED
  BY <1>1, <1>2, <1>3, <1>4, <1>5, <1>6, <1>7, <1>8, <1>9, <1>10, <1>11, <1>12, <1>13, <1>14,
     <1>15, <1>16, <1>17, <1>18, <1>19, <1>20, <1>21, <1>22, <1>23, <1>24, <1>25, <1>26, <1>27,
     <1>28 DEF Step, Handler

LEMMA PendOwnStep ==
  ASSUME TypeInv, NEW r \in Requests, Step(r), ~Faults, PendOwn(r)
  PROVE  PendOwn(r)'
<1> USE ArticleInHand DEF TypeInv, RequestOK, TypeOK, Proceed, Refuse, At, NoWrites, store, local, PendOwn, Active
<1>1. CASE Receive(r)
  BY <1>1 DEF Receive
<1>2. CASE Commit(r)
  BY <1>2 DEF Commit
<1>3. CASE CreateItem(r)
  BY <1>3 DEF CreateItem
<1>4. CASE CreateBalance(r)
  BY <1>4 DEF CreateBalance, WriteBalance
<1>5. CASE RemoveRead(r)
  BY <1>5 DEF RemoveRead
<1>6. CASE RemoveDelete(r)
  BY <1>6 DEF RemoveDelete
<1>7. CASE TransferReadItem(r)
  BY <1>7 DEF TransferReadItem
<1>8. CASE TransferReadSource(r)
  BY <1>8 DEF TransferReadSource, ReadBalance
<1>9. CASE TransferDebit(r)
  <2>1. call[r].depot \in Depots /\ call[r].op # "remove" /\ Active(r)
    BY <1>9 DEF TransferDebit
  <2>2. KeyAt(r, call[r].depot)[1] = Article(r) /\ Article(r) \in Articles(call[r])
    BY <2>1
  <2>3. UNCHANGED call /\ (pc'[r] = "dest" \/ pend'[r] = NoWrites)
    BY <1>9 DEF TransferDebit, WriteBalance
  <2>4. \A k \in Keys \ {KeyAt(r, call[r].depot)} : pend'[r][k] = pend[r][k] \/ pend'[r] = NoWrites
    BY <1>9 DEF TransferDebit, WriteBalance
  <2>5. QED
    BY <2>1, <2>2, <2>3, <2>4
<1>10. CASE TransferReadDest(r)
  BY <1>10 DEF TransferReadDest, ReadBalance
<1>11. CASE TransferCredit(r)
  BY <1>11 DEF TransferCredit, WriteBalance
<1>12. CASE TransferJournalOut(r)
  BY <1>12 DEF TransferJournalOut, Journal
<1>13. CASE TransferJournalIn(r)
  BY <1>13 DEF TransferJournalIn, Journal
<1>14. CASE MovementReadItem(r)
  BY <1>14 DEF MovementReadItem
<1>15. CASE MovementReadBalance(r)
  BY <1>15 DEF MovementReadBalance, ReadBalance
<1>16. CASE MovementJournal(r)
  BY <1>16 DEF MovementJournal, Journal
<1>17. CASE MovementWriteBalance(r)
  BY <1>17 DEF MovementWriteBalance, WriteBalance
<1>18. CASE MovementStoreItem(r)
  BY <1>18 DEF MovementStoreItem
<1>19. CASE SaleReadItem(r)
  BY <1>19 DEF SaleReadItem
<1>20. CASE SaleReadBalance(r)
  BY <1>20 DEF SaleReadBalance, ReadBalance
<1>21. CASE SaleDebit(r)
  BY <1>21 DEF SaleDebit, WriteBalance
<1>22. CASE SaleJournal(r)
  BY <1>22 DEF SaleJournal, Journal
<1>23. CASE SaleStoreItem(r)
  BY <1>23 DEF SaleStoreItem
<1>24. CASE SaleNumber(r)
  BY <1>24 DEF SaleNumber
<1>25. CASE SaleInvoice(r)
  BY <1>25 DEF SaleInvoice
<1>26. CASE Fail(r)
  BY <1>26 DEF Fail
<1>27. CASE Expire(r)
  BY <1>27 DEF Expire
<1>28. CASE DeadlockVictim(r)
  BY <1>28 DEF DeadlockVictim
<1>29. QED
  BY <1>1, <1>2, <1>3, <1>4, <1>5, <1>6, <1>7, <1>8, <1>9, <1>10, <1>11, <1>12, <1>13, <1>14,
     <1>15, <1>16, <1>17, <1>18, <1>19, <1>20, <1>21, <1>22, <1>23, <1>24, <1>25, <1>26, <1>27,
     <1>28 DEF Step, Handler

LEMMA WorkingStep ==
  ASSUME TypeInv, NEW r \in Requests, Step(r), Working(r) => Article(r) \in items
  PROVE  Working(r)' => Article(r)' \in items'
<1> USE DEF TypeInv, TypeOK, Proceed, Refuse, At, store, local, Working, Article, Current, NextLine
<1>1. CASE Receive(r)
  BY <1>1 DEF Receive
<1>2. CASE Commit(r)
  BY <1>2 DEF Commit
<1>3. CASE CreateItem(r)
  BY <1>3 DEF CreateItem
<1>4. CASE CreateBalance(r)
  BY <1>4 DEF CreateBalance, WriteBalance
<1>5. CASE RemoveRead(r)
  BY <1>5 DEF RemoveRead
<1>6. CASE RemoveDelete(r)
  BY <1>6 DEF RemoveDelete
<1>7. CASE TransferReadItem(r)
  BY <1>7 DEF TransferReadItem
<1>8. CASE TransferReadSource(r)
  BY <1>8 DEF TransferReadSource, ReadBalance
<1>9. CASE TransferDebit(r)
  BY <1>9 DEF TransferDebit, WriteBalance
<1>10. CASE TransferReadDest(r)
  BY <1>10 DEF TransferReadDest, ReadBalance
<1>11. CASE TransferCredit(r)
  BY <1>11 DEF TransferCredit, WriteBalance
<1>12. CASE TransferJournalOut(r)
  BY <1>12 DEF TransferJournalOut, Journal
<1>13. CASE TransferJournalIn(r)
  BY <1>13 DEF TransferJournalIn, Journal
<1>14. CASE MovementReadItem(r)
  BY <1>14 DEF MovementReadItem
<1>15. CASE MovementReadBalance(r)
  BY <1>15 DEF MovementReadBalance, ReadBalance
<1>16. CASE MovementJournal(r)
  BY <1>16 DEF MovementJournal, Journal
<1>17. CASE MovementWriteBalance(r)
  BY <1>17 DEF MovementWriteBalance, WriteBalance
<1>18. CASE MovementStoreItem(r)
  BY <1>18 DEF MovementStoreItem
<1>19. CASE SaleReadItem(r)
  BY <1>19 DEF SaleReadItem
<1>20. CASE SaleReadBalance(r)
  BY <1>20 DEF SaleReadBalance, ReadBalance
<1>21. CASE SaleDebit(r)
  BY <1>21 DEF SaleDebit, WriteBalance
<1>22. CASE SaleJournal(r)
  BY <1>22 DEF SaleJournal, Journal
<1>23. CASE SaleStoreItem(r)
  BY <1>23 DEF SaleStoreItem
<1>24. CASE SaleNumber(r)
  BY <1>24 DEF SaleNumber
<1>25. CASE SaleInvoice(r)
  BY <1>25 DEF SaleInvoice
<1>26. CASE Fail(r)
  BY <1>26 DEF Fail
<1>27. CASE Expire(r)
  BY <1>27 DEF Expire
<1>28. CASE DeadlockVictim(r)
  BY <1>28 DEF DeadlockVictim
<1>29. QED
  BY <1>1, <1>2, <1>3, <1>4, <1>5, <1>6, <1>7, <1>8, <1>9, <1>10, <1>11, <1>12, <1>13, <1>14,
     <1>15, <1>16, <1>17, <1>18, <1>19, <1>20, <1>21, <1>22, <1>23, <1>24, <1>25, <1>26, <1>27,
     <1>28 DEF Step, Handler

LEMMA HandStep ==
  ASSUME TypeInv, NEW r \in Requests, Step(r), HandCurrent(r)
  PROVE  HandCurrent(r)'
<1> USE DEF TypeInv, TypeOK, Proceed, Refuse, At, store, local, HandCurrent, Article, Current
<1>1. CASE Receive(r)
  BY <1>1 DEF Receive
<1>2. CASE Commit(r)
  BY <1>2 DEF Commit
<1>3. CASE CreateItem(r)
  BY <1>3 DEF CreateItem
<1>4. CASE CreateBalance(r)
  BY <1>4 DEF CreateBalance, WriteBalance
<1>5. CASE RemoveRead(r)
  BY <1>5 DEF RemoveRead
<1>6. CASE RemoveDelete(r)
  BY <1>6 DEF RemoveDelete
<1>7. CASE TransferReadItem(r)
  BY <1>7 DEF TransferReadItem
<1>8. CASE TransferReadSource(r)
  BY <1>8 DEF TransferReadSource, ReadBalance
<1>9. CASE TransferDebit(r)
  BY <1>9 DEF TransferDebit, WriteBalance
<1>10. CASE TransferReadDest(r)
  BY <1>10 DEF TransferReadDest, ReadBalance
<1>11. CASE TransferCredit(r)
  BY <1>11 DEF TransferCredit, WriteBalance
<1>12. CASE TransferJournalOut(r)
  BY <1>12 DEF TransferJournalOut, Journal
<1>13. CASE TransferJournalIn(r)
  BY <1>13 DEF TransferJournalIn, Journal
<1>14. CASE MovementReadItem(r)
  BY <1>14 DEF MovementReadItem
<1>15. CASE MovementReadBalance(r)
  BY <1>15 DEF MovementReadBalance, ReadBalance
<1>16. CASE MovementJournal(r)
  BY <1>16 DEF MovementJournal, Journal
<1>17. CASE MovementWriteBalance(r)
  BY <1>17 DEF MovementWriteBalance, WriteBalance
<1>18. CASE MovementStoreItem(r)
  BY <1>18 DEF MovementStoreItem
<1>19. CASE SaleReadItem(r)
  BY <1>19 DEF SaleReadItem
<1>20. CASE SaleReadBalance(r)
  BY <1>20 DEF SaleReadBalance, ReadBalance
<1>21. CASE SaleDebit(r)
  BY <1>21 DEF SaleDebit, WriteBalance
<1>22. CASE SaleJournal(r)
  BY <1>22 DEF SaleJournal, Journal
<1>23. CASE SaleStoreItem(r)
  BY <1>23 DEF SaleStoreItem
<1>24. CASE SaleNumber(r)
  BY <1>24 DEF SaleNumber
<1>25. CASE SaleInvoice(r)
  BY <1>25 DEF SaleInvoice
<1>26. CASE Fail(r)
  BY <1>26 DEF Fail
<1>27. CASE Expire(r)
  BY <1>27 DEF Expire
<1>28. CASE DeadlockVictim(r)
  BY <1>28 DEF DeadlockVictim
<1>29. QED
  BY <1>1, <1>2, <1>3, <1>4, <1>5, <1>6, <1>7, <1>8, <1>9, <1>10, <1>11, <1>12, <1>13, <1>14,
     <1>15, <1>16, <1>17, <1>18, <1>19, <1>20, <1>21, <1>22, <1>23, <1>24, <1>25, <1>26, <1>27,
     <1>28 DEF Step, Handler

LEMMA DepotStep ==
  ASSUME TypeInv, NEW r \in Requests, Step(r), ~Faults, DepotCurrent(r), PendOwn(r)
  PROVE  DepotCurrent(r)'
<1> USE DEF TypeInv, TypeOK, Proceed, Refuse, At, store, local, DepotCurrent, Article, Current, View, KeyAt, InDepotNow
<1>1. CASE Receive(r)
  BY <1>1 DEF Receive
<1>2. CASE Commit(r)
  BY <1>2 DEF Commit
<1>3. CASE CreateItem(r)
  BY <1>3 DEF CreateItem
<1>4. CASE CreateBalance(r)
  BY <1>4 DEF CreateBalance, WriteBalance
<1>5. CASE RemoveRead(r)
  BY <1>5 DEF RemoveRead
<1>6. CASE RemoveDelete(r)
  BY <1>6 DEF RemoveDelete
<1>7. CASE TransferReadItem(r)
  BY <1>7 DEF TransferReadItem
<1>8. CASE TransferReadSource(r)
  BY <1>8 DEF TransferReadSource, ReadBalance
<1>9. CASE TransferDebit(r)
  BY <1>9 DEF TransferDebit, WriteBalance
<1>10. CASE TransferReadDest(r)
  BY <1>10 DEF TransferReadDest, ReadBalance
<1>11. CASE TransferCredit(r)
  BY <1>11 DEF TransferCredit, WriteBalance
<1>12. CASE TransferJournalOut(r)
  BY <1>12 DEF TransferJournalOut, Journal
<1>13. CASE TransferJournalIn(r)
  BY <1>13 DEF TransferJournalIn, Journal
<1>14. CASE MovementReadItem(r)
  BY <1>14 DEF MovementReadItem
<1>15. CASE MovementReadBalance(r)
  BY <1>15 DEF MovementReadBalance, ReadBalance
<1>16. CASE MovementJournal(r)
  BY <1>16 DEF MovementJournal, Journal
<1>17. CASE MovementWriteBalance(r)
  BY <1>17 DEF MovementWriteBalance, WriteBalance
<1>18. CASE MovementStoreItem(r)
  BY <1>18 DEF MovementStoreItem
<1>19. CASE SaleReadItem(r)
  BY <1>19 DEF SaleReadItem
<1>20. CASE SaleReadBalance(r)
  BY <1>20 DEF SaleReadBalance, ReadBalance
<1>21. CASE SaleDebit(r)
  BY <1>21 DEF SaleDebit, WriteBalance
<1>22. CASE SaleJournal(r)
  BY <1>22 DEF SaleJournal, Journal
<1>23. CASE SaleStoreItem(r)
  BY <1>23 DEF SaleStoreItem
<1>24. CASE SaleNumber(r)
  BY <1>24 DEF SaleNumber
<1>25. CASE SaleInvoice(r)
  BY <1>25 DEF SaleInvoice
<1>26. CASE Fail(r)
  BY <1>26 DEF Fail
<1>27. CASE Expire(r)
  BY <1>27 DEF Expire
<1>28. CASE DeadlockVictim(r)
  BY <1>28 DEF DeadlockVictim
<1>29. QED
  BY <1>1, <1>2, <1>3, <1>4, <1>5, <1>6, <1>7, <1>8, <1>9, <1>10, <1>11, <1>12, <1>13, <1>14,
     <1>15, <1>16, <1>17, <1>18, <1>19, <1>20, <1>21, <1>22, <1>23, <1>24, <1>25, <1>26, <1>27,
     <1>28 DEF Step, Handler

(* What a step of one request writes is about its articles.                *)
LEMMA StepWrites ==
  ASSUME TypeInv, NEW r \in Requests, Step(r), ~Receive(r), ~Faults, PendOwn(r)
  PROVE  /\ Active(r)
         /\ \A i \in Items \ {Article(r)} : qty'[i] = qty[i] /\ (i \in items' <=> i \in items)
         /\ \A k \in Keys : k[1] \notin Articles(call[r]) => bal'[k] = bal[k]
<1>0. Article(r) \in Articles(call[r])
  BY ArticleInHand DEF TypeInv
<1> USE <1>0 DEF TypeInv, TypeOK, Proceed, Refuse, At, StoreQuantity, store, local, Active
<1>1. CASE Commit(r)
  BY <1>1 DEF Commit, View, PendOwn
<1>2. CASE CreateItem(r)
  BY <1>2 DEF CreateItem
<1>3. CASE CreateBalance(r)
  BY <1>3 DEF CreateBalance, WriteBalance
<1>4. CASE RemoveRead(r)
  BY <1>4 DEF RemoveRead
<1>5. CASE RemoveDelete(r)
  BY <1>5 DEF RemoveDelete
<1>6. CASE TransferReadItem(r)
  BY <1>6 DEF TransferReadItem
<1>7. CASE TransferReadSource(r)
  BY <1>7 DEF TransferReadSource, ReadBalance
<1>8. CASE TransferDebit(r)
  BY <1>8 DEF TransferDebit, WriteBalance
<1>9. CASE TransferReadDest(r)
  BY <1>9 DEF TransferReadDest, ReadBalance
<1>10. CASE TransferCredit(r)
  BY <1>10 DEF TransferCredit, WriteBalance
<1>11. CASE TransferJournalOut(r)
  BY <1>11 DEF TransferJournalOut, Journal
<1>12. CASE TransferJournalIn(r)
  BY <1>12 DEF TransferJournalIn, Journal
<1>13. CASE MovementReadItem(r)
  BY <1>13 DEF MovementReadItem
<1>14. CASE MovementReadBalance(r)
  BY <1>14 DEF MovementReadBalance, ReadBalance
<1>15. CASE MovementJournal(r)
  BY <1>15 DEF MovementJournal, Journal
<1>16. CASE MovementWriteBalance(r)
  BY <1>16 DEF MovementWriteBalance, WriteBalance
<1>17. CASE MovementStoreItem(r)
  BY <1>17 DEF MovementStoreItem
<1>18. CASE SaleReadItem(r)
  BY <1>18 DEF SaleReadItem
<1>19. CASE SaleReadBalance(r)
  BY <1>19 DEF SaleReadBalance, ReadBalance
<1>20. CASE SaleDebit(r)
  BY <1>20 DEF SaleDebit, WriteBalance
<1>21. CASE SaleJournal(r)
  BY <1>21 DEF SaleJournal, Journal
<1>22. CASE SaleStoreItem(r)
  BY <1>22 DEF SaleStoreItem
<1>23. CASE SaleNumber(r)
  BY <1>23 DEF SaleNumber
<1>24. CASE SaleInvoice(r)
  BY <1>24 DEF SaleInvoice
<1>25. CASE Fail(r)
  BY <1>25 DEF Fail
<1>26. CASE Expire(r)
  BY <1>26 DEF Expire
<1>27. CASE DeadlockVictim(r)
  <2>1. pc[r] \in {"debit", "credit"}
    BY <1>27 DEF DeadlockVictim, WaitsFor, Wanted
  <2>2. QED
    BY <1>27, <2>1 DEF DeadlockVictim
<1>28. QED
  BY <1>1, <1>2, <1>3, <1>4, <1>5, <1>6, <1>7, <1>8, <1>9, <1>10, <1>11, <1>12, <1>13, <1>14,
     <1>15, <1>16, <1>17, <1>18, <1>19, <1>20, <1>21, <1>22, <1>23, <1>24, <1>25, <1>26, <1>27
     DEF Step, Handler

LEMMA ApartReceive ==
  ASSUME TypeInv, ApartInv, Apart, NEW r \in Requests, Receive(r)
  PROVE  \A o \in Requests \ {r} : AloneOn(r, o)' /\ AloneOn(o, r)'
<1>1. PICK c \in Calls : /\ pc[r] = "idle"
                         /\ \A o \in Requests : Active(o) => Articles(call[o]) \cap Articles(c) = {}
                         /\ call' = [call EXCEPT ![r] = c]
  BY DEF Receive
<1>2. OthersKept(r) /\ call'[r] = c
  BY <1>1, StepAlone DEF Step, Handler, TypeInv, TypeOK
<1>3. ASSUME NEW o \in Requests \ {r}, Active(o)' PROVE Articles(call'[o]) \cap Articles(call'[r]) = {}
  BY <1>1, <1>2, <1>3 DEF OthersKept, Active
<1>4. QED
  BY <1>3 DEF AloneOn

(* What others have read stays so.                                         *)
LEMMA OthersShelf ==
  ASSUME TypeInv, ApartInv, ~Faults, NEW r \in Requests, Step(r), NEW o \in Requests \ {r}, Active(o)
  PROVE  /\ qty'[Article(o)] = qty[Article(o)]
         /\ Article(o) \in items => Article(o) \in items'
         /\ \A d \in Depots : bal'[KeyAt(o, d)] = bal[KeyAt(o, d)]
<1>1. Article(o) \in Articles(call[o]) /\ Article(o) \in Items
  BY ArticleInHand DEF TypeInv
<1>2. \A d \in Depots : KeyAt(o, d) \in Keys /\ KeyAt(o, d)[1] = Article(o)
  BY ArticleInHand DEF TypeInv
<1>3. CASE Receive(r)
  BY <1>3 DEF Receive
<1>4. CASE ~Receive(r)
  <2>1. Article(r) \in Articles(call[r]) /\ PendOwn(r)
    BY ArticleInHand DEF TypeInv, ApartInv, OwnOK
  <2>2. /\ Active(r)
        /\ \A i \in Items \ {Article(r)} : qty'[i] = qty[i] /\ (i \in items' <=> i \in items)
        /\ \A k \in Keys : k[1] \notin Articles(call[r]) => bal'[k] = bal[k]
    BY <1>4, <2>1, StepWrites
  <2>3. Article(o) \notin Articles(call[r])
    BY <1>1, <2>2 DEF ApartInv, AloneOn
  <2>4. QED
    BY <1>1, <1>2, <2>1, <2>2, <2>3
<1>5. QED
  BY <1>3, <1>4

LEMMA OwnKept ==
  ASSUME TypeInv, ApartInv, ~Faults, NEW r \in Requests, Step(r), NEW o \in Requests \ {r}
  PROVE  OwnOK(o)'
<1>1. /\ pc'[o] = pc[o] /\ call'[o] = call[o] /\ line'[o] = line[o] /\ onHand'[o] = onHand[o]
      /\ inDepot'[o] = inDepot[o] /\ pend'[o] = pend[o] /\ open'[o] = open[o]
  BY StepAlone DEF TypeInv, OthersKept
<1>2. Article(o)' = Article(o) /\ \A d : KeyAt(o, d)' = KeyAt(o, d)
  BY <1>1 DEF Article, Current, KeyAt
<1>3. OpenOwn(o)' /\ PendOwn(o)'
  BY <1>1 DEF ApartInv, OwnOK, OpenOwn, PendOwn, Active
<1>4. Active(o) => /\ qty'[Article(o)] = qty[Article(o)]
                   /\ Article(o) \in items => Article(o) \in items'
                   /\ \A d \in Depots : bal'[KeyAt(o, d)] = bal[KeyAt(o, d)]
  BY OthersShelf
<1>5. (Working(o) => Article(o) \in items)'
  BY <1>1, <1>2, <1>4 DEF ApartInv, OwnOK, Working, Active
<1>6. HandCurrent(o)'
  BY <1>1, <1>2, <1>4 DEF ApartInv, OwnOK, HandCurrent, Active
<1>7. DepotCurrent(o)'
  <2>1. call[o].op = "transfer" => call[o].depot \in Depots /\ call[o].dest \in Depots
    BY LineInHand, CallsAssumption DEF TypeInv
  <2>2. call[o].depot \in Depots \cup {NoDepot}
    BY LineInHand DEF TypeInv, Call
  <2>3. pc[o] = "debit" => call[o].depot \in Depots
    BY DEF TypeInv, RequestOK
  <2>4. \A d \in Depots : Active(o) => View(o, KeyAt(o, d))' = View(o, KeyAt(o, d))
    BY <1>1, <1>2, <1>4 DEF View
  <2>5. DepotCurrent(o)
    BY DEF ApartInv, OwnOK
  <2>6. CASE ~Active(o)
    BY <1>1, <2>6 DEF DepotCurrent, Active
  <2>7. CASE Active(o)
    <3>1. \A d \in Depots : View(o, KeyAt(o, d))' = View(o, KeyAt(o, d))
      BY <2>4, <2>7
    <3>2. QED
      BY <1>1, <2>1, <2>2, <2>3, <2>5, <3>1 DEF DepotCurrent
  <2>8. QED
    BY <2>6, <2>7
<1>8. QED
  BY <1>3, <1>5, <1>6, <1>7 DEF OwnOK

LEMMA ApartStep ==
  ASSUME TypeInv, ApartInv, Apart, ~Faults, NEW r \in Requests, Step(r)
  PROVE  ApartInv'
<1>1. \A o \in Requests \ {r} : OwnOK(o)'
  BY OwnKept
<1>2. OwnOK(r)'
  <2>1. OwnOK(r)
    BY DEF ApartInv
  <2>2. OpenOwn(r)' /\ PendOwn(r)'
    BY <2>1, OpenOwnStep, PendOwnStep DEF OwnOK
  <2>3. (Working(r) => Article(r) \in items)'
    BY <2>1, WorkingStep DEF OwnOK
  <2>4. HandCurrent(r)' /\ DepotCurrent(r)'
    BY <2>1, HandStep, DepotStep DEF OwnOK
  <2>5. QED
    BY <2>2, <2>3, <2>4 DEF OwnOK
<1>3. ASSUME NEW o \in Requests, NEW p \in Requests \ {o} PROVE AloneOn(o, p)'
  <2>1. OthersKept(r)
    BY StepAlone DEF TypeInv
  <2>2. CASE Receive(r)
    <3>1. CASE o = r \/ p = r
      BY <2>2, <3>1, ApartReceive
    <3>2. CASE o # r /\ p # r
      BY <2>1, <3>2 DEF OthersKept, ApartInv, AloneOn, Active
    <3>3. QED
      BY <3>1, <3>2
  <2>3. CASE ~Receive(r)
    <3>1. Active(r) /\ UNCHANGED call
      BY <2>3, StepWrites, StepCall DEF ApartInv, OwnOK, TypeInv
    <3>2. \A q \in Requests : Active(q)' => Active(q)
      BY <2>1, <3>1 DEF OthersKept, Active
    <3>3. QED
      BY <3>1, <3>2 DEF ApartInv, AloneOn
  <2>4. QED
    BY <2>2, <2>3
<1>4. QED
  BY <1>1, <1>2, <1>3 DEF ApartInv

(* A step that changes nothing keeps all of it.                            *)
LEMMA ApartStutter ==
  ASSUME ApartInv, UNCHANGED <<items, qty, pend, open, pc, call, line, onHand, inDepot, bal>>
  PROVE  ApartInv'
<1>1. \A o : /\ Active(o)' <=> Active(o)
             /\ Article(o)' = Article(o) /\ Amount(o)' = Amount(o) /\ Current(o)' = Current(o)
             /\ KeyAt(o, call[o].depot)' = KeyAt(o, call[o].depot)
             /\ KeyAt(o, call[o].dest)' = KeyAt(o, call[o].dest)
             /\ View(o, KeyAt(o, call[o].depot))' = View(o, KeyAt(o, call[o].depot))
             /\ View(o, KeyAt(o, call[o].dest))' = View(o, KeyAt(o, call[o].dest))
  BY DEF Active, Article, Amount, KeyAt, Current, View
<1>2. \A o, p : AloneOn(o, p) => AloneOn(o, p)'
  BY <1>1 DEF AloneOn
<1>3. \A o : (OpenOwn(o) => OpenOwn(o)') /\ (PendOwn(o) => PendOwn(o)')
  BY <1>1 DEF OpenOwn, PendOwn
<1>4. \A o : (Working(o) => Working(o)')
  BY <1>1 DEF Working
<1>5. \A o : (HandCurrent(o) => HandCurrent(o)') /\ (DepotCurrent(o) => DepotCurrent(o)')
  BY <1>1 DEF HandCurrent, DepotCurrent
<1>6. \A o \in Requests : OwnOK(o) => OwnOK(o)'
  <2> SUFFICES ASSUME NEW o \in Requests, OwnOK(o) PROVE OwnOK(o)'
    OBVIOUS
  <2>1. OpenOwn(o)' /\ PendOwn(o)' /\ HandCurrent(o)' /\ DepotCurrent(o)'
    BY <1>3, <1>5 DEF OwnOK
  <2>2. Working(o)' => Article(o)' \in items'
    BY <1>1 DEF OwnOK, Working
  <2>3. QED
    BY <2>1, <2>2 DEF OwnOK
<1>7. QED
  BY <1>2, <1>6 DEF ApartInv

-----------------------------------------------------------------------------
(* The ledger.  A movement belongs to a line its request has filed, is of  *)
(* an article on file, and is of the kind its request was sent with.       *)
FiledPast(m) ==
  /\ pc[m.by] # "idle" /\ m.line <= line[m.by]
  /\ m.line = line[m.by] =>
       /\ pc[m.by] \notin {"item", "balance", "debit", "dest", "journal"}
       /\ call[m.by].op = "transfer" => pc[m.by] # "credit"
       /\ pc[m.by] = "journalIn" => m.kind = "OUT"
  /\ call[m.by].op = "movement" => m.kind = call[m.by].kind

FiledInv == /\ IsFiniteSet(movements)
            /\ \A m \in movements : FiledPast(m) /\ m.item \in items

LEMMA FiledInit == Init => FiledInv
BY FS_EmptySet DEF Init, FiledInv

(* What is filed stays behind its request.                                 *)
LEMMA FiledStays ==
  ASSUME TypeInv, NEW r \in Requests, Step(r), ~Receive(r), NEW m \in movements, m.by = r, FiledPast(m)
  PROVE  FiledPast(m)'
<1>0. m.line \in Nat /\ line[r] \in Nat
  BY DEF TypeInv, TypeOK, Movement
<1> USE <1>0 DEF TypeInv, TypeOK, Proceed, Refuse, At, store, local, FiledPast, NextLine
<1>1. CASE Commit(r)
  BY <1>1 DEF Commit
<1>2. CASE CreateItem(r)
  BY <1>2 DEF CreateItem
<1>3. CASE CreateBalance(r)
  BY <1>3 DEF CreateBalance, WriteBalance
<1>4. CASE RemoveRead(r)
  BY <1>4 DEF RemoveRead
<1>5. CASE RemoveDelete(r)
  BY <1>5 DEF RemoveDelete
<1>6. CASE TransferReadItem(r)
  BY <1>6 DEF TransferReadItem
<1>7. CASE TransferReadSource(r)
  BY <1>7 DEF TransferReadSource, ReadBalance
<1>8. CASE TransferDebit(r)
  BY <1>8 DEF TransferDebit, WriteBalance
<1>9. CASE TransferReadDest(r)
  BY <1>9 DEF TransferReadDest, ReadBalance
<1>10. CASE TransferCredit(r)
  BY <1>10 DEF TransferCredit, WriteBalance
<1>11. CASE TransferJournalOut(r)
  BY <1>11 DEF TransferJournalOut, Journal
<1>12. CASE TransferJournalIn(r)
  BY <1>12 DEF TransferJournalIn, Journal
<1>13. CASE MovementReadItem(r)
  BY <1>13 DEF MovementReadItem
<1>14. CASE MovementReadBalance(r)
  BY <1>14 DEF MovementReadBalance, ReadBalance
<1>15. CASE MovementJournal(r)
  BY <1>15 DEF MovementJournal, Journal
<1>16. CASE MovementWriteBalance(r)
  BY <1>16 DEF MovementWriteBalance, WriteBalance
<1>17. CASE MovementStoreItem(r)
  BY <1>17 DEF MovementStoreItem
<1>18. CASE SaleReadItem(r)
  BY <1>18 DEF SaleReadItem
<1>19. CASE SaleReadBalance(r)
  BY <1>19 DEF SaleReadBalance, ReadBalance
<1>20. CASE SaleDebit(r)
  BY <1>20 DEF SaleDebit, WriteBalance
<1>21. CASE SaleJournal(r)
  BY <1>21 DEF SaleJournal, Journal
<1>22. CASE SaleStoreItem(r)
  BY <1>22 DEF SaleStoreItem
<1>23. CASE SaleNumber(r)
  BY <1>23 DEF SaleNumber
<1>24. CASE SaleInvoice(r)
  BY <1>24 DEF SaleInvoice
<1>25. CASE Fail(r)
  BY <1>25 DEF Fail
<1>26. CASE Expire(r)
  BY <1>26 DEF Expire
<1>27. CASE DeadlockVictim(r)
  BY <1>27 DEF DeadlockVictim
<1>28. QED
  BY <1>1, <1>2, <1>3, <1>4, <1>5, <1>6, <1>7, <1>8, <1>9, <1>10, <1>11, <1>12, <1>13, <1>14,
     <1>15, <1>16, <1>17, <1>18, <1>19, <1>20, <1>21, <1>22, <1>23, <1>24, <1>25, <1>26, <1>27
     DEF Step, Handler

(* The movement a request files is of its line, its article and its kind,  *)
(* and a new one.                                                          *)
Filing(r, x) ==
  /\ x \notin movements /\ x \in Movement /\ movements' = movements \cup {x} /\ FiledPast(x)'
  /\ x.by = r /\ x.item = Article(r) /\ Article(r) \in items /\ x.quantity = Amount(r)
  /\ call[r].op = "movement" => x.kind = call[r].kind

LEMMA JournalFacts ==
  ASSUME TypeInv, FiledInv, NEW r \in Requests, NEW k \in {"IN", "OUT", "ADJUSTMENT"},
         NEW from \in Depots \cup {NoDepot}, NEW to \in Depots \cup {NoDepot},
         NEW l \in {"credit", "store", "journalIn", "commit"},
         Journal(r, k, from, to, l), call[r].op \in {"transfer", "movement", "sale"},
         pc[r] = "journal" \/ (pc[r] = "journalIn" /\ k = "IN"), l = "journalIn" => k = "OUT",
         call[r].op = "movement" => k = call[r].kind,
         l = "credit" => call[r].op = "movement"
  PROVE  /\ UNCHANGED <<items, fresh, qty, bal, call, line>>
         /\ \/ UNCHANGED movements /\ pc'[r] = "refused" /\ Article(r) \notin items
            \/ \E x : Filing(r, x) /\ x.kind = k /\ pc'[r] = l
<1>1. UNCHANGED <<items, fresh, qty, bal, call, line>>
  BY DEF Journal, local
<1>2. CASE Article(r) \notin items
  BY <1>1, <1>2 DEF Journal, Refuse, TypeInv, TypeOK
<1>3. CASE Article(r) \in items
  <2>1. PICK x : x = [by |-> r, line |-> line[r], item |-> Article(r), kind |-> k,
                      quantity |-> Amount(r), from |-> from, to |-> to]
    OBVIOUS
  <2>2. x \in Movement
    BY <2>1, LineInHand DEF Movement, TypeInv, TypeOK
  <2>3. x.by = r /\ x.line = line[r] /\ x.item = Article(r) /\ x.kind = k /\ x.quantity = Amount(r)
    BY <2>1
  <2>4. x \notin movements
    BY <2>3 DEF FiledInv, FiledPast
  <2>5. movements' = movements \cup {x} /\ pc'[r] = l
    BY <1>3, <2>1 DEF Journal, Proceed, TypeInv, TypeOK
  <2>6. FiledPast(x)'
    BY <1>1, <2>3, <2>5 DEF FiledPast, TypeInv, TypeOK
  <2>7. Filing(r, x)
    BY <1>3, <2>2, <2>3, <2>4, <2>5, <2>6 DEF Filing
  <2>8. QED
    BY <1>1, <2>3, <2>5, <2>7
<1>4. QED
  BY <1>2, <1>3

LEMMA StepSilent ==
  ASSUME TypeInv, NEW r \in Requests, Step(r),
         ~TransferJournalOut(r), ~TransferJournalIn(r), ~MovementJournal(r), ~SaleJournal(r), ~RemoveDelete(r)
  PROVE  UNCHANGED movements
<1> USE DEF TypeInv, Proceed, Refuse, store, local
<1>1. CASE Receive(r)
  BY <1>1 DEF Receive
<1>2. CASE Commit(r)
  BY <1>2 DEF Commit
<1>3. CASE CreateItem(r)
  BY <1>3 DEF CreateItem
<1>4. CASE CreateBalance(r)
  BY <1>4 DEF CreateBalance, WriteBalance
<1>5. CASE RemoveRead(r)
  BY <1>5 DEF RemoveRead
<1>6. CASE TransferReadItem(r)
  BY <1>6 DEF TransferReadItem
<1>7. CASE TransferReadSource(r)
  BY <1>7 DEF TransferReadSource, ReadBalance
<1>8. CASE TransferDebit(r)
  BY <1>8 DEF TransferDebit, WriteBalance
<1>9. CASE TransferReadDest(r)
  BY <1>9 DEF TransferReadDest, ReadBalance
<1>10. CASE TransferCredit(r)
  BY <1>10 DEF TransferCredit, WriteBalance
<1>11. CASE MovementReadItem(r)
  BY <1>11 DEF MovementReadItem
<1>12. CASE MovementReadBalance(r)
  BY <1>12 DEF MovementReadBalance, ReadBalance
<1>13. CASE MovementWriteBalance(r)
  BY <1>13 DEF MovementWriteBalance, WriteBalance
<1>14. CASE MovementStoreItem(r)
  BY <1>14 DEF MovementStoreItem
<1>15. CASE SaleReadItem(r)
  BY <1>15 DEF SaleReadItem
<1>16. CASE SaleReadBalance(r)
  BY <1>16 DEF SaleReadBalance, ReadBalance
<1>17. CASE SaleDebit(r)
  BY <1>17 DEF SaleDebit, WriteBalance
<1>18. CASE SaleStoreItem(r)
  BY <1>18 DEF SaleStoreItem
<1>19. CASE SaleNumber(r)
  BY <1>19 DEF SaleNumber
<1>20. CASE SaleInvoice(r)
  BY <1>20 DEF SaleInvoice
<1>21. CASE Fail(r)
  BY <1>21 DEF Fail
<1>22. CASE Expire(r)
  BY <1>22 DEF Expire
<1>23. CASE DeadlockVictim(r)
  BY <1>23 DEF DeadlockVictim
<1>24. QED
  BY <1>1, <1>2, <1>3, <1>4, <1>5, <1>6, <1>7, <1>8, <1>9, <1>10, <1>11, <1>12, <1>13, <1>14,
     <1>15, <1>16, <1>17, <1>18, <1>19, <1>20, <1>21, <1>22, <1>23 DEF Step, Handler

LEMMA StepKeepsItems ==
  ASSUME TypeInv, NEW r \in Requests, Step(r), ~RemoveDelete(r)
  PROVE  items \subseteq items'
<1> USE DEF TypeInv, Proceed, Refuse, store, local
<1>1. CASE Receive(r)
  BY <1>1 DEF Receive
<1>2. CASE Commit(r)
  BY <1>2 DEF Commit
<1>3. CASE CreateItem(r)
  BY <1>3 DEF CreateItem
<1>4. CASE CreateBalance(r)
  BY <1>4 DEF CreateBalance, WriteBalance
<1>5. CASE RemoveRead(r)
  BY <1>5 DEF RemoveRead
<1>6. CASE TransferReadItem(r)
  BY <1>6 DEF TransferReadItem
<1>7. CASE TransferReadSource(r)
  BY <1>7 DEF TransferReadSource, ReadBalance
<1>8. CASE TransferDebit(r)
  BY <1>8 DEF TransferDebit, WriteBalance
<1>9. CASE TransferReadDest(r)
  BY <1>9 DEF TransferReadDest, ReadBalance
<1>10. CASE TransferCredit(r)
  BY <1>10 DEF TransferCredit, WriteBalance
<1>11. CASE TransferJournalOut(r)
  BY <1>11 DEF TransferJournalOut, Journal
<1>12. CASE TransferJournalIn(r)
  BY <1>12 DEF TransferJournalIn, Journal
<1>13. CASE MovementReadItem(r)
  BY <1>13 DEF MovementReadItem
<1>14. CASE MovementReadBalance(r)
  BY <1>14 DEF MovementReadBalance, ReadBalance
<1>15. CASE MovementJournal(r)
  BY <1>15 DEF MovementJournal, Journal
<1>16. CASE MovementWriteBalance(r)
  BY <1>16 DEF MovementWriteBalance, WriteBalance
<1>17. CASE MovementStoreItem(r)
  BY <1>17 DEF MovementStoreItem
<1>18. CASE SaleReadItem(r)
  BY <1>18 DEF SaleReadItem
<1>19. CASE SaleReadBalance(r)
  BY <1>19 DEF SaleReadBalance, ReadBalance
<1>20. CASE SaleDebit(r)
  BY <1>20 DEF SaleDebit, WriteBalance
<1>21. CASE SaleJournal(r)
  BY <1>21 DEF SaleJournal, Journal
<1>22. CASE SaleStoreItem(r)
  BY <1>22 DEF SaleStoreItem
<1>23. CASE SaleNumber(r)
  BY <1>23 DEF SaleNumber
<1>24. CASE SaleInvoice(r)
  BY <1>24 DEF SaleInvoice
<1>25. CASE Fail(r)
  BY <1>25 DEF Fail
<1>26. CASE Expire(r)
  BY <1>26 DEF Expire
<1>27. CASE DeadlockVictim(r)
  BY <1>27 DEF DeadlockVictim
<1>28. QED
  BY <1>1, <1>2, <1>3, <1>4, <1>5, <1>6, <1>7, <1>8, <1>9, <1>10, <1>11, <1>12, <1>13, <1>14,
     <1>15, <1>16, <1>17, <1>18, <1>19, <1>20, <1>21, <1>22, <1>23, <1>24, <1>25, <1>26, <1>27
     DEF Step, Handler

(* A step files one movement, or leaves the journal alone but for that of  *)
(* an article it deletes.                                                  *)
LEMMA StepFiles ==
  ASSUME TypeInv, FiledInv, NEW r \in Requests, Step(r)
  PROVE  \/ UNCHANGED movements
         \/ \E x : Filing(r, x)
         \/ /\ RemoveDelete(r)
            /\ movements' = {m \in movements : m.item # Article(r)}
<1>1. CASE TransferJournalOut(r)
  <2>1. call[r].depot \in Depots /\ call[r].dest \in Depots
    BY <1>1, LineInHand, CallsAssumption DEF TransferJournalOut, At, TypeInv
  <2>2. QED
    BY <1>1, <2>1, JournalFacts DEF TransferJournalOut, At
<1>2. CASE TransferJournalIn(r)
  <2>1. call[r].depot \in Depots /\ call[r].dest \in Depots
    BY <1>2, LineInHand, CallsAssumption DEF TransferJournalIn, At, TypeInv
  <2>2. QED
    BY <1>2, <2>1, JournalFacts DEF TransferJournalIn, At
<1>3. CASE MovementJournal(r)
  <2>1. call[r].depot \in Depots \cup {NoDepot} /\ call[r].kind \in {"IN", "OUT", "ADJUSTMENT"}
    BY LineInHand DEF TypeInv, Call
  <2>2. QED
    BY <1>3, <2>1, JournalFacts DEF MovementJournal, At
<1>4. CASE SaleJournal(r)
  <2>1. call[r].depot \in Depots \cup {NoDepot}
    BY LineInHand DEF TypeInv, Call
  <2>2. QED
    BY <1>4, <2>1, JournalFacts DEF SaleJournal, At
<1>5. CASE RemoveDelete(r)
  BY <1>5 DEF RemoveDelete
<1>6. CASE ~TransferJournalOut(r) /\ ~TransferJournalIn(r) /\ ~MovementJournal(r) /\ ~SaleJournal(r) /\ ~RemoveDelete(r)
  <2>1. UNCHANGED movements
    BY <1>6, StepSilent
  <2>2. QED
    BY <2>1
<1>7. QED
  BY <1>1, <1>2, <1>3, <1>4, <1>5, <1>6

LEMMA FiledStep ==
  ASSUME TypeInv, JournalInv, FiledInv, NEW r \in Requests, Step(r)
  PROVE  FiledInv'
<1>1. OthersKept(r)
  BY StepAlone DEF TypeInv
<1>2. ASSUME NEW m \in movements PROVE FiledPast(m)'
  <2>1. m.by \in Requests /\ FiledPast(m)
    BY DEF TypeInv, TypeOK, Movement, FiledInv
  <2>2. CASE m.by # r
    BY <1>1, <2>1, <2>2 DEF OthersKept, FiledPast
  <2>3. CASE m.by = r
    <3>1. ~Receive(r)
      BY <2>1, <2>3 DEF FiledPast, Receive
    <3>2. QED
      BY <2>1, <2>3, <3>1, FiledStays
  <2>4. QED
    BY <2>2, <2>3
<1>3. CASE RemoveDelete(r)
  <2>1. movements' = {m \in movements : m.item # Article(r)} /\ items' = items \ {Article(r)}
    BY <1>3 DEF RemoveDelete
  <2>2. IsFiniteSet(movements')
    BY <2>1, FS_Subset DEF FiledInv
  <2>3. QED
    BY <1>2, <2>1, <2>2 DEF FiledInv
<1>4. CASE ~RemoveDelete(r)
  <2>1. items \subseteq items'
    BY <1>4, StepKeepsItems
  <2>2. CASE UNCHANGED movements
    BY <1>2, <2>1, <2>2 DEF FiledInv
  <2>3. ASSUME NEW x, Filing(r, x) PROVE FiledInv'
    <3>1. IsFiniteSet(movements')
      BY <2>3, FS_AddElement DEF FiledInv, Filing
    <3>2. QED
      BY <1>2, <2>1, <2>3, <3>1 DEF FiledInv, Filing
  <2>4. QED
    BY <1>4, <2>2, <2>3, StepFiles
<1>5. QED
  BY <1>3, <1>4

(* Where an article comes from.                                            *)
Creation(r) == call[r].op = "create" /\ pc[r] # "idle"

CreationInv ==
  /\ fresh \cap OpeningItems = {}
  /\ \A r \in Requests : Creation(r) => Article(r) \notin OpeningItems /\ Article(r) \notin fresh
  /\ \A r, o \in Requests : Creation(r) /\ Creation(o) /\ Article(r) = Article(o) => r = o
  /\ \A i \in items : i \in OpeningItems \/ Creations(i) # {}

LEMMA CreationInit == Init => CreationInv
BY DEF Init, CreationInv, Creation

(* What a request has created does not change.                             *)
LEMMA CreationKept ==
  ASSUME TypeInv, NEW r \in Requests, Step(r), ~Receive(r), NEW o \in Requests, pc[r] # "idle"
  PROVE  /\ Creation(o)' <=> Creation(o)
         /\ Creation(o) => Article(o)' = Article(o) /\ Amount(o)' = Amount(o)
<1>1. OthersKept(r) /\ UNCHANGED call /\ pc'[r] # "idle" /\ (call[r].op # "sale" => UNCHANGED line)
  BY StepAlone, StepCall DEF TypeInv
<1>2. QED
  BY <1>1 DEF OthersKept, Creation, Article, Amount, Current

LEMMA ReceivedArticle ==
  ASSUME TypeInv, NEW r \in Requests, Receive(r)
  PROVE  /\ UNCHANGED <<items, qty, bal, movements, pend>> /\ OthersKept(r) /\ ~Creation(r)
         /\ Creation(r)' => Article(r)' \in fresh /\ Article(r)' \notin fresh'
         /\ fresh' \subseteq fresh
<1>1. PICK c \in Calls : /\ pc[r] = "idle" /\ pc' = [pc EXCEPT ![r] = "item"]
                         /\ call' = [call EXCEPT ![r] = c]
                         /\ c.op = "create" => Articles(c) \subseteq fresh
                         /\ fresh' = IF c.op = "create" THEN fresh \ Articles(c) ELSE fresh
                         /\ UNCHANGED <<items, qty, bal, movements, pend, line>>
  BY DEF Receive
<1>2. OthersKept(r)
  BY StepAlone DEF Step, Handler, TypeInv
<1>3. Article(r)' = c.lines[1].item /\ 1 \in DOMAIN c.lines
  <2>1. line'[r] = 1 /\ call'[r] = c
    BY <1>1 DEF TypeInv, TypeOK, RequestOK
  <2>2. c \in Call /\ Len(c.lines) > 0
    BY CallsAssumption
  <2>3. c.lines \in Seq(Line) /\ Len(c.lines) \in Nat
    BY <2>2 DEF Call
  <2>4. QED
    BY <2>1, <2>2, <2>3 DEF Article, Current
<1>4. Article(r)' \in Articles(c)
  BY <1>3 DEF Articles
<1>5. QED
  BY <1>1, <1>2, <1>4 DEF Creation, TypeInv, TypeOK

LEMMA CreationStep ==
  ASSUME TypeInv, CreationInv, ~Faults, NEW r \in Requests, Step(r), Receive(r) \/ pc[r] # "idle"
  PROVE  CreationInv'
<1>1. CASE Receive(r)
  <2>1. /\ UNCHANGED items /\ OthersKept(r) /\ ~Creation(r) /\ fresh' \subseteq fresh
        /\ Creation(r)' => Article(r)' \in fresh /\ Article(r)' \notin fresh'
    BY <1>1, ReceivedArticle
  <2>2. \A o \in Requests \ {r} : (Creation(o)' <=> Creation(o)) /\ Article(o)' = Article(o)
    BY <2>1 DEF OthersKept, Creation, Article, Current
  <2>3. (\A o \in Requests : Creation(o) => Article(o) \notin OpeningItems /\ Article(o) \notin fresh)'
    BY <2>1, <2>2 DEF CreationInv
  <2>4. (\A o, p \in Requests : Creation(o) /\ Creation(p) /\ Article(o) = Article(p) => o = p)'
    BY <2>1, <2>2 DEF CreationInv
  <2>5. \A i : Creations(i) \subseteq Creations(i)'
    BY <2>1, <2>2 DEF Creations, Creation
  <2>6. QED
    BY <2>1, <2>3, <2>4, <2>5 DEF CreationInv
<1>2. CASE ~Receive(r)
  <2>0. pc[r] # "idle"
    BY <1>2
  <2>1. \A o \in Requests : /\ Creation(o)' <=> Creation(o)
                            /\ Creation(o) => Article(o)' = Article(o)
    BY <1>2, <2>0, CreationKept
  <2>2. UNCHANGED fresh
    BY <1>2, StepCall DEF TypeInv
  <2>3. \A i : Creations(i)' = Creations(i)
    BY <2>1 DEF Creations, Creation
  <2>4. \A i \in items' : i \in items \/ (i = Article(r) /\ Creation(r))
    <3>1. CASE CreateItem(r)
      BY <3>1 DEF CreateItem, Creation, At
    <3>2. CASE RemoveDelete(r)
      BY <3>2 DEF RemoveDelete
    <3>3. CASE ~CreateItem(r) /\ ~RemoveDelete(r)
      BY <1>2, <3>3, StepBooks DEF TypeInv
    <3>4. QED
      BY <3>1, <3>2, <3>3
  <2>5. \A i \in items' : i \in OpeningItems \/ Creations(i)' # {}
    <3>1. ASSUME NEW i \in items' PROVE i \in OpeningItems \/ Creations(i) # {}
      <4>1. CASE i \in items
        BY <4>1 DEF CreationInv
      <4>2. CASE i = Article(r) /\ Creation(r)
        BY <4>2 DEF Creations, Creation
      <4>3. QED
        BY <2>4, <3>1, <4>1, <4>2
    <3>2. QED
      BY <2>3, <3>1
  <2>6. QED
    BY <2>1, <2>2, <2>5 DEF CreationInv
<1>3. QED
  BY <1>1, <1>2

(* The initial quantity of an article on file does not change.             *)
LEMMA StartSame ==
  ASSUME TypeInv, JournalInv, CreationInv, NEW r \in Requests, Step(r), Receive(r) \/ pc[r] # "idle",
         NEW i \in items
  PROVE  StartQuantity(i)' = StartQuantity(i)
<1>1. /\ Creations(i)' = Creations(i)
      /\ \A o \in Creations(i) : Amount(o)' = Amount(o)
  <2>1. CASE Receive(r)
    <3>1. /\ OthersKept(r) /\ ~Creation(r)
          /\ Creation(r)' => Article(r)' \in fresh
      BY <2>1, ReceivedArticle
    <3>2. i \notin fresh
      BY DEF JournalInv, Unborn
    <3>3. \A o \in Requests \ {r} : /\ Creation(o)' <=> Creation(o)
                                    /\ Article(o)' = Article(o) /\ Amount(o)' = Amount(o)
      BY <3>1 DEF OthersKept, Creation, Article, Amount, Current
    <3>4. QED
      BY <3>1, <3>2, <3>3 DEF Creations, Creation
  <2>2. CASE ~Receive(r)
    <3>1. pc[r] # "idle"
      BY <2>2
    <3>2. \A o \in Requests : /\ Creation(o)' <=> Creation(o)
                              /\ Creation(o) => Article(o)' = Article(o) /\ Amount(o)' = Amount(o)
      BY <2>2, <3>1, CreationKept
    <3>3. QED
      BY <3>2 DEF Creations, Creation
  <2>3. QED
    BY <2>1, <2>2
<1>2. CASE i \in OpeningItems
  BY <1>2 DEF StartQuantity
<1>3. CASE i \notin OpeningItems
  <2>1. Creations(i) # {}
    BY <1>3 DEF CreationInv
  <2>2. PICK o : o = CHOOSE s \in Creations(i) : TRUE
    OBVIOUS
  <2>3. o \in Creations(i)
    BY <2>1, <2>2
  <2>4. o = CHOOSE s \in Creations(i)' : TRUE
    BY <1>1, <2>2
  <2>5. StartQuantity(i) = Amount(o)
    BY <1>3, <2>2 DEF StartQuantity
  <2>6. StartQuantity(i)' = Amount(o)'
    BY <1>3, <2>4 DEF StartQuantity
  <2>7. QED
    BY <1>1, <2>3, <2>5, <2>6
<1>4. QED
  BY <1>2, <1>3

(* The sums over the journal.                                              *)
MovedOf(S, i, k) == SumFunction([m \in S |-> Moved(m, i, k)])

LEMMA MovedOfAll ==
  ASSUME NEW i, NEW k
  PROVE  /\ MovedQuantity(i, k) = MovedOf(movements, i, k)
         /\ MovedQuantity(i, k)' = MovedOf(movements', i, k)
BY DEF MovedQuantity, MovedOf

LEMMA MovedType ==
  ASSUME NEW S \in SUBSET Movement, IsFiniteSet(S), NEW i, NEW k
  PROVE  /\ \A m \in S : Moved(m, i, k) \in Nat
         /\ MovedOf(S, i, k) \in Int
<1>1. \A m \in S : Moved(m, i, k) \in Nat
  BY DEF Moved, Movement
<1>2. PICK f : f = [m \in S |-> Moved(m, i, k)]
  OBVIOUS
<1>3. IsFiniteSet(DOMAIN f) /\ \A m \in DOMAIN f : f[m] \in Int
  BY <1>1, <1>2
<1>4. SumFunction(f) \in Int
  BY <1>3, TotalType
<1>5. QED
  BY <1>1, <1>2, <1>4 DEF MovedOf

LEMMA MovedAdd ==
  ASSUME NEW S \in SUBSET Movement, IsFiniteSet(S), NEW x \in Movement, x \notin S, NEW i, NEW k
  PROVE  MovedOf(S \cup {x}, i, k) = MovedOf(S, i, k) + Moved(x, i, k)
<1>1. \A m \in Movement : Moved(m, i, k) \in Int
  BY DEF Moved, Movement
<1>2. PICK f : f = [m \in S |-> Moved(m, i, k)]
  OBVIOUS
<1>3. PICK g : g = [m \in S \cup {x} |-> Moved(m, i, k)]
  OBVIOUS
<1>4. /\ x \notin DOMAIN f /\ IsFiniteSet(DOMAIN f) /\ DOMAIN g = DOMAIN f \cup {x}
      /\ g[x] = Moved(x, i, k) /\ g[x] \in Int
      /\ \A m \in DOMAIN f : f[m] \in Int /\ g[m] = f[m]
  BY <1>1, <1>2, <1>3
<1>5. SumFunction(g) = SumFunction(f) + g[x]
  BY <1>4, TotalAdd
<1>6. QED
  BY <1>2, <1>3, <1>4, <1>5 DEF MovedOf

LEMMA MovedDrop ==
  ASSUME NEW S \in SUBSET Movement, IsFiniteSet(S), NEW T \in SUBSET S, NEW i, NEW k,
         \A m \in S \ T : m.item # i
  PROVE  MovedOf(T, i, k) = MovedOf(S, i, k)
<1>1. \A m \in Movement : Moved(m, i, k) \in Int
  BY DEF Moved, Movement
<1>2. PICK f : f = [m \in S |-> Moved(m, i, k)]
  OBVIOUS
<1>3. PICK g : g = [m \in T |-> Moved(m, i, k)]
  OBVIOUS
<1>4. /\ IsFiniteSet(DOMAIN f) /\ DOMAIN g \subseteq DOMAIN f
      /\ \A m \in DOMAIN f : f[m] \in Int
      /\ \A m \in DOMAIN g : g[m] = f[m]
      /\ \A m \in DOMAIN f \ DOMAIN g : f[m] = 0
  BY <1>1, <1>2, <1>3 DEF Moved
<1>5. SumFunction(g) = SumFunction(f)
  BY <1>4, TotalDrop
<1>6. QED
  BY <1>2, <1>3, <1>5 DEF MovedOf

(* What has left or reached an article and is still to be written to its   *)
(* quantity, or filed and still to be filed back.                          *)
Mid(r) == \/ call[r].op = "movement" /\ pc[r] \in {"credit", "store"}
          \/ call[r].op = "sale" /\ pc[r] = "store"
          \/ call[r].op = "transfer" /\ pc[r] = "journalIn"

Owed(r) == IF call[r].op = "movement" /\ call[r].kind = "IN" THEN Amount(r) ELSE -Amount(r)

Short(r, i) == IF Mid(r) /\ Article(r) = i THEN Owed(r) ELSE 0

Explained(i) == StartQuantity(i) + MovedQuantity(i, "IN") - MovedQuantity(i, "OUT")

(* One request at most is between a movement and the quantity.             *)
Ledger(i) == /\ \A r \in Requests : Short(r, i) # 0 => qty[i] + Short(r, i) = Explained(i)
             /\ (\A r \in Requests : Short(r, i) = 0) => qty[i] = Explained(i)

LedgerInv == \A i \in items : ~Adjusted(i) => Ledger(i)

Books == TypeInv /\ JournalInv /\ ApartInv /\ FiledInv /\ CreationInv

(* No request waits for the row of another.                                *)
LEMMA NoVictim ==
  ASSUME TypeInv, ApartInv, NEW r \in Requests
  PROVE  ~DeadlockVictim(r)
<1> SUFFICES ASSUME DeadlockVictim(r) PROVE FALSE
  OBVIOUS
<1>1. PICK o \in Requests : WaitsFor(r, o)
  BY DEF DeadlockVictim
<1>2. PICK k \in Wanted(r) : pend[o][k] # NoRow
  BY <1>1 DEF WaitsFor
<1>3. pc[r] \in {"debit", "credit"} /\ Active(r) /\ o # r
  BY <1>1, <1>2 DEF Wanted, Active, WaitsFor
<1>4. \E d \in Depots : k = KeyAt(r, d)
  <2>1. call[r].depot \in Depots
    BY <1>3 DEF TypeInv, RequestOK
  <2>2. call[r].op = "transfer" => call[r].dest \in Depots
    BY LineInHand, CallsAssumption DEF TypeInv
  <2>3. QED
    BY <1>2, <1>3, <2>1, <2>2 DEF Wanted
<1>5. k \in Keys /\ k[1] = Article(r) /\ Article(r) \in Articles(call[r])
  BY <1>4, ArticleInHand DEF TypeInv
<1>6. Active(o) /\ Article(r) \in Articles(call[o])
  BY <1>2, <1>5 DEF ApartInv, OwnOK, PendOwn
<1>7. AloneOn(r, o)
  BY <1>3 DEF ApartInv
<1>8. QED
  BY <1>3, <1>5, <1>6, <1>7 DEF AloneOn

(* Steps that neither file nor store.                                      *)
LEMMA OwnQuiet ==
  ASSUME Books, ~Faults, NEW r \in Requests, Step(r), ~Receive(r), ~CreateItem(r), ~RemoveDelete(r),
         ~TransferJournalOut(r), ~TransferJournalIn(r), ~MovementJournal(r), ~SaleJournal(r),
         ~MovementStoreItem(r), ~SaleStoreItem(r)
  PROVE  UNCHANGED <<qty, movements, line, call>> /\ (Mid(r)' <=> Mid(r))
<1> USE DEF Books, TypeInv, TypeOK, Proceed, Refuse, At, store, local, Mid
<1>1. CASE Commit(r)
  BY <1>1 DEF Commit
<1>2. CASE CreateBalance(r)
  BY <1>2 DEF CreateBalance, WriteBalance
<1>3. CASE RemoveRead(r)
  BY <1>3 DEF RemoveRead
<1>4. CASE TransferReadItem(r)
  BY <1>4 DEF TransferReadItem
<1>5. CASE TransferReadSource(r)
  BY <1>5 DEF TransferReadSource, ReadBalance
<1>6. CASE TransferDebit(r)
  BY <1>6 DEF TransferDebit, WriteBalance
<1>7. CASE TransferReadDest(r)
  BY <1>7 DEF TransferReadDest, ReadBalance
<1>8. CASE TransferCredit(r)
  BY <1>8 DEF TransferCredit, WriteBalance
<1>9. CASE MovementReadItem(r)
  BY <1>9 DEF MovementReadItem
<1>10. CASE MovementReadBalance(r)
  BY <1>10 DEF MovementReadBalance, ReadBalance
<1>11. CASE MovementWriteBalance(r)
  <2>1. /\ call[r].op = "movement" /\ pc[r] = "credit"
        /\ call[r].depot \in Depots /\ call[r].depot # NoDepot
    BY <1>11, SentinelsAssumption DEF MovementWriteBalance, RequestOK
  <2>2. /\ open[r] /\ Article(r) \in items
        /\ inDepot[r] = View(r, KeyAt(r, call[r].depot))
    BY <2>1 DEF ApartInv, OwnOK, OpenOwn, Working, DepotCurrent, Active
  <2>3. QED
    BY <1>11, <2>1, <2>2 DEF MovementWriteBalance, WriteBalance
<1>12. CASE SaleReadItem(r)
  BY <1>12 DEF SaleReadItem
<1>13. CASE SaleReadBalance(r)
  BY <1>13 DEF SaleReadBalance, ReadBalance
<1>14. CASE SaleDebit(r)
  BY <1>14 DEF SaleDebit, WriteBalance
<1>15. CASE SaleNumber(r)
  BY <1>15 DEF SaleNumber
<1>16. CASE SaleInvoice(r)
  BY <1>16 DEF SaleInvoice
<1>17. CASE Fail(r)
  BY <1>17 DEF Fail
<1>18. CASE Expire(r)
  BY <1>18 DEF Expire
<1>19. CASE DeadlockVictim(r)
  BY <1>19, NoVictim DEF Books
<1>20. QED
  BY <1>1, <1>2, <1>3, <1>4, <1>5, <1>6, <1>7, <1>8, <1>9, <1>10, <1>11, <1>12, <1>13, <1>14,
     <1>15, <1>16, <1>17, <1>18, <1>19 DEF Step, Handler

(* The line in hand moves when its article has been stored.                *)
LEMMA LineMoves ==
  ASSUME TypeInv, NEW r \in Requests, Step(r)
  PROVE  line'[r] # line[r] => pc'[r] = "item"
<1> USE DEF TypeInv, TypeOK, Proceed, Refuse, NextLine, store, local
<1>1. CASE Receive(r)
  BY <1>1 DEF Receive
<1>2. CASE Commit(r)
  BY <1>2 DEF Commit
<1>3. CASE CreateItem(r)
  BY <1>3 DEF CreateItem
<1>4. CASE CreateBalance(r)
  BY <1>4 DEF CreateBalance, WriteBalance
<1>5. CASE RemoveRead(r)
  BY <1>5 DEF RemoveRead
<1>6. CASE RemoveDelete(r)
  BY <1>6 DEF RemoveDelete
<1>7. CASE TransferReadItem(r)
  BY <1>7 DEF TransferReadItem
<1>8. CASE TransferReadSource(r)
  BY <1>8 DEF TransferReadSource, ReadBalance
<1>9. CASE TransferDebit(r)
  BY <1>9 DEF TransferDebit, WriteBalance
<1>10. CASE TransferReadDest(r)
  BY <1>10 DEF TransferReadDest, ReadBalance
<1>11. CASE TransferCredit(r)
  BY <1>11 DEF TransferCredit, WriteBalance
<1>12. CASE TransferJournalOut(r)
  BY <1>12 DEF TransferJournalOut, Journal
<1>13. CASE TransferJournalIn(r)
  BY <1>13 DEF TransferJournalIn, Journal
<1>14. CASE MovementReadItem(r)
  BY <1>14 DEF MovementReadItem
<1>15. CASE MovementReadBalance(r)
  BY <1>15 DEF MovementReadBalance, ReadBalance
<1>16. CASE MovementJournal(r)
  BY <1>16 DEF MovementJournal, Journal
<1>17. CASE MovementWriteBalance(r)
  BY <1>17 DEF MovementWriteBalance, WriteBalance
<1>18. CASE MovementStoreItem(r)
  BY <1>18 DEF MovementStoreItem
<1>19. CASE SaleReadItem(r)
  BY <1>19 DEF SaleReadItem
<1>20. CASE SaleReadBalance(r)
  BY <1>20 DEF SaleReadBalance, ReadBalance
<1>21. CASE SaleDebit(r)
  BY <1>21 DEF SaleDebit, WriteBalance
<1>22. CASE SaleJournal(r)
  BY <1>22 DEF SaleJournal, Journal
<1>23. CASE SaleStoreItem(r)
  BY <1>23 DEF SaleStoreItem
<1>24. CASE SaleNumber(r)
  BY <1>24 DEF SaleNumber
<1>25. CASE SaleInvoice(r)
  BY <1>25 DEF SaleInvoice
<1>26. CASE Fail(r)
  BY <1>26 DEF Fail
<1>27. CASE Expire(r)
  BY <1>27 DEF Expire
<1>28. CASE DeadlockVictim(r)
  BY <1>28 DEF DeadlockVictim
<1>29. QED
  BY <1>1, <1>2, <1>3, <1>4, <1>5, <1>6, <1>7, <1>8, <1>9, <1>10, <1>11, <1>12, <1>13, <1>14,
     <1>15, <1>16, <1>17, <1>18, <1>19, <1>20, <1>21, <1>22, <1>23, <1>24, <1>25, <1>26, <1>27,
     <1>28 DEF Step, Handler

LEMMA ExplainedType ==
  ASSUME TypeInv, FiledInv, OpeningAssumption, CreationInv, NEW i \in items
  PROVE  /\ StartQuantity(i) \in Int
         /\ MovedQuantity(i, "IN") \in Int /\ MovedQuantity(i, "OUT") \in Int
         /\ qty[i] \in Int /\ \A r \in Requests : Short(r, i) \in Int /\ Amount(r) \in Nat
<1>1. MovedQuantity(i, "IN") \in Int /\ MovedQuantity(i, "OUT") \in Int
  <2>1. movements \in SUBSET Movement /\ IsFiniteSet(movements)
    BY DEF TypeInv, TypeOK, FiledInv
  <2>2. QED
    BY <2>1, MovedType, MovedOfAll
<1>2. \A r \in Requests : Amount(r) \in Nat
  BY LineInHand DEF TypeInv
<1>3. StartQuantity(i) \in Int
  <2>1. CASE i \in OpeningItems
    BY <2>1 DEF StartQuantity
  <2>2. CASE i \notin OpeningItems
    <3>1. PICK o : o = CHOOSE s \in Creations(i) : TRUE
      OBVIOUS
    <3>2. o \in Requests
      BY <2>2, <3>1 DEF CreationInv, Creations
    <3>3. QED
      BY <1>2, <2>2, <3>1, <3>2 DEF StartQuantity
  <2>3. QED
    BY <2>1, <2>2
<1>4. qty[i] \in Int
  BY DEF TypeInv, TypeOK
<1>5. QED
  BY <1>1, <1>2, <1>3, <1>4 DEF Short, Owed

(* The sums about an article a step does not file on.                      *)
LEMMA MovedSame ==
  ASSUME TypeInv, FiledInv, NEW r \in Requests, Step(r), NEW i, NEW k,
         \/ UNCHANGED movements
         \/ i # Article(r)
  PROVE  MovedQuantity(i, k)' = MovedQuantity(i, k)
<1>0. movements \in SUBSET Movement /\ IsFiniteSet(movements)
  BY DEF TypeInv, TypeOK, FiledInv
<1>1. CASE UNCHANGED movements
  BY <1>1, MovedOfAll
<1>2. ASSUME i # Article(r), NEW x, Filing(r, x) PROVE MovedQuantity(i, k)' = MovedQuantity(i, k)
  <2>1. x \in Movement /\ x \notin movements /\ movements' = movements \cup {x} /\ Moved(x, i, k) = 0
    BY <1>2 DEF Filing, Moved
  <2>2. MovedOf(movements \cup {x}, i, k) = MovedOf(movements, i, k) + Moved(x, i, k)
    BY <1>0, <2>1, MovedAdd
  <2>3. MovedOf(movements, i, k) \in Int
    BY <1>0, MovedType
  <2>4. MovedOf(movements \cup {x}, i, k) = MovedOf(movements, i, k)
    BY <2>1, <2>2, <2>3
  <2>5. MovedOf(movements', i, k) = MovedOf(movements, i, k)
    BY <2>1, <2>4
  <2>6. QED
    BY <2>5, MovedOfAll
<1>3. CASE i # Article(r) /\ movements' = {m \in movements : m.item # Article(r)}
  <2>1. movements' \in SUBSET movements /\ \A m \in movements \ movements' : m.item # i
    BY <1>3
  <2>2. PICK T \in SUBSET movements : T = movements' /\ \A m \in movements \ T : m.item # i
    BY <2>1
  <2>3. MovedOf(T, i, k) = MovedOf(movements, i, k)
    BY <1>0, <2>2, MovedDrop
  <2>4. QED
    BY <2>2, <2>3, MovedOfAll
<1>4. QED
  BY <1>1, <1>2, <1>3, StepFiles

LEMMA AdjustedStays ==
  ASSUME TypeInv, JournalInv, NEW r \in Requests, Step(r), NEW i \in items'
  PROVE  Adjusted(i) => Adjusted(i)'
BY BooksKept DEF Adjusted

(* The articles a request has not in hand.                                 *)
LEMMA LedgerElsewhere ==
  ASSUME Books, LedgerInv, ~Faults, NEW r \in Requests, Step(r), NEW i \in items', items' \subseteq Items,
         i # Article(r) \/ Receive(r), ~Adjusted(i)'
  PROVE  Ledger(i)'
<1>1. ~Adjusted(i)
  BY AdjustedStays DEF Books
<1>2. OthersKept(r) /\ (Receive(r) \/ (~Receive(r) /\ Active(r) /\ pc[r] # "idle"))
  BY StepAlone, StepWrites DEF Books, TypeInv, ApartInv, OwnOK, Active
<1>3. i \in items /\ qty'[i] = qty[i]
  <2>1. CASE Receive(r)
    BY <2>1, ReceivedArticle DEF Books
  <2>2. CASE ~Receive(r)
    BY <2>2, StepWrites DEF Books, ApartInv, OwnOK
  <2>3. QED
    BY <2>1, <2>2
<1>4. StartQuantity(i)' = StartQuantity(i)
  BY <1>2, <1>3, StartSame DEF Books
<1>5. /\ MovedQuantity(i, "IN")' = MovedQuantity(i, "IN")
      /\ MovedQuantity(i, "OUT")' = MovedQuantity(i, "OUT")
  <2>1. UNCHANGED movements \/ i # Article(r)
    BY ReceivedArticle DEF Books
  <2>2. QED
    BY <2>1, MovedSame DEF Books
<1>6. \A o \in Requests \ {r} : Short(o, i)' = Short(o, i)
  BY <1>2 DEF OthersKept, Short, Mid, Owed, Article, Amount, Current
<1>7. Short(r, i) = 0 /\ Short(r, i)' = 0
  <2>1. CASE Receive(r)
    <3>1. pc[r] = "idle" /\ pc'[r] = "item"
      BY <2>1 DEF Receive, Books, TypeInv, TypeOK
    <3>2. QED
      BY <3>1 DEF Short, Mid
  <2>2. CASE ~Receive(r)
    <3>1. UNCHANGED call /\ (line'[r] # line[r] => pc'[r] = "item") /\ i # Article(r)
      BY <2>2, StepCall, LineMoves DEF Books, TypeInv
    <3>2. Mid(r)' => Article(r)' = Article(r)
      BY <3>1 DEF Mid, Article, Current
    <3>3. QED
      BY <3>1, <3>2 DEF Short
  <2>3. QED
    BY <2>1, <2>2
<1>8. Ledger(i)
  BY <1>1, <1>3 DEF LedgerInv
<1>9. Explained(i)' = Explained(i)
  BY <1>4, <1>5 DEF Explained
<1>10. \A o \in Requests : Short(o, i)' = Short(o, i)
  BY <1>6, <1>7
<1>11. QED
  BY <1>3, <1>8, <1>9, <1>10 DEF Ledger

(* The movement that is filed is one of the sum.                           *)
LEMMA FiledSum ==
  ASSUME TypeInv, FiledInv, NEW r \in Requests, NEW x, Filing(r, x), NEW i, i = Article(r), NEW k
  PROVE  MovedQuantity(i, k)' = MovedQuantity(i, k) + (IF x.kind = k THEN Amount(r) ELSE 0)
<1>1. movements \in SUBSET Movement /\ IsFiniteSet(movements)
  BY DEF TypeInv, TypeOK, FiledInv
<1>2. /\ x \in Movement /\ x \notin movements /\ movements' = movements \cup {x}
      /\ Moved(x, i, k) = IF x.kind = k THEN Amount(r) ELSE 0
  BY DEF Filing, Moved
<1>3. MovedOf(movements \cup {x}, i, k) = MovedOf(movements, i, k) + Moved(x, i, k)
  BY <1>1, <1>2, MovedAdd
<1>4. QED
  BY <1>2, <1>3, MovedOfAll

(* Nobody else is between a movement and the quantity of that article.     *)
LEMMA OthersIdle ==
  ASSUME Books, ~Faults, NEW r \in Requests, Step(r), ~Receive(r), NEW i, i = Article(r),
         NEW o \in Requests \ {r}
  PROVE  Short(o, i) = 0 /\ Short(o, i)' = 0
<1>1. Active(r) /\ OthersKept(r)
  BY StepWrites, StepAlone DEF Books, TypeInv, ApartInv, OwnOK
<1>2. Article(r) \in Articles(call[r]) /\ Article(o) \in Articles(call[o])
  BY ArticleInHand DEF Books, TypeInv
<1>3. Active(o) => Article(o) # i
  BY <1>1, <1>2 DEF Books, ApartInv, AloneOn
<1>4. Mid(o) => Active(o)
  BY DEF Mid, Active
<1>5. Short(o, i)' = Short(o, i)
  BY <1>1 DEF OthersKept, Short, Mid, Owed, Article, Amount, Current
<1>6. QED
  BY <1>3, <1>4, <1>5 DEF Short

(* A step on an article on file moves its sum, its quantity and what is    *)
(* owed to it together.                                                    *)
LEMMA StepFair ==
  ASSUME Books, ~Faults, NEW r \in Requests, Step(r), ~Receive(r), ~CreateItem(r),
         NEW i \in items, i \in items', i = Article(r), ~Adjusted(i)'
  PROVE  qty'[i] + Short(r, i)' - (qty[i] + Short(r, i))
           = (MovedQuantity(i, "IN")' - MovedQuantity(i, "IN"))
               - (MovedQuantity(i, "OUT")' - MovedQuantity(i, "OUT"))
<1>0. /\ MovedQuantity(i, "IN") \in Int /\ MovedQuantity(i, "OUT") \in Int
      /\ qty[i] \in Int /\ Amount(r) \in Nat
  BY ExplainedType, OpeningAssumption DEF Books
<1>a. ASSUME NEW x, Filing(r, x), x.kind = "OUT"
      PROVE  MovedQuantity(i, "IN")' = MovedQuantity(i, "IN")
             /\ MovedQuantity(i, "OUT")' = MovedQuantity(i, "OUT") + Amount(r)
  BY <1>0, <1>a, FiledSum DEF Books
<1>b. ASSUME NEW x, Filing(r, x), x.kind = "IN"
      PROVE  MovedQuantity(i, "IN")' = MovedQuantity(i, "IN") + Amount(r)
             /\ MovedQuantity(i, "OUT")' = MovedQuantity(i, "OUT")
  BY <1>0, <1>b, FiledSum DEF Books
<1>c. ASSUME NEW x, Filing(r, x) PROVE x.kind # "ADJUSTMENT"
  BY <1>c DEF Filing, Adjusted
<1>d. ASSUME UNCHANGED movements
      PROVE  MovedQuantity(i, "IN")' = MovedQuantity(i, "IN")
             /\ MovedQuantity(i, "OUT")' = MovedQuantity(i, "OUT")
  BY <1>d, MovedOfAll
<1>1. CASE TransferJournalOut(r)
  <2>1. call[r].depot \in Depots /\ call[r].dest \in Depots
    BY <1>1, LineInHand, CallsAssumption DEF TransferJournalOut, At, Books, TypeInv
  <2>2. /\ UNCHANGED <<qty, call, line>> /\ call[r].op = "transfer" /\ pc[r] = "journal"
        /\ \E x : Filing(r, x) /\ x.kind = "OUT" /\ pc'[r] = "journalIn"
    BY <1>1, <2>1, JournalFacts DEF TransferJournalOut, At, Books
  <2>3. Short(r, i) = 0 /\ Short(r, i)' = -Amount(r)
    BY <2>2 DEF Short, Mid, Owed, Article, Amount, Current
  <2>4. QED
    BY <1>0, <1>a, <2>2, <2>3
<1>2. CASE TransferJournalIn(r)
  <2>1. call[r].depot \in Depots /\ call[r].dest \in Depots
    BY <1>2, LineInHand, CallsAssumption DEF TransferJournalIn, At, Books, TypeInv
  <2>2. /\ UNCHANGED <<qty, call, line>> /\ call[r].op = "transfer" /\ pc[r] = "journalIn"
        /\ \E x : Filing(r, x) /\ x.kind = "IN" /\ pc'[r] = "commit"
    BY <1>2, <2>1, JournalFacts DEF TransferJournalIn, At, Books
  <2>3. Short(r, i) = -Amount(r) /\ Short(r, i)' = 0
    BY <2>2 DEF Short, Mid, Owed
  <2>4. QED
    BY <1>0, <1>b, <2>2, <2>3
<1>3. CASE MovementJournal(r)
  <2>1. call[r].depot \in Depots \cup {NoDepot} /\ call[r].kind \in {"IN", "OUT", "ADJUSTMENT"}
    BY LineInHand DEF Books, TypeInv, Call
  <2>2. /\ UNCHANGED <<qty, call, line>> /\ call[r].op = "movement" /\ pc[r] = "journal"
        /\ \E x : Filing(r, x) /\ x.kind = call[r].kind /\ pc'[r] \in {"store", "credit"}
    BY <1>3, <2>1, JournalFacts DEF MovementJournal, At, Books
  <2>3. /\ Short(r, i) = 0
        /\ Short(r, i)' = IF call[r].kind = "IN" THEN Amount(r) ELSE -Amount(r)
    BY <2>2 DEF Short, Mid, Owed, Article, Amount, Current
  <2>4. call[r].kind \in {"IN", "OUT"}
    BY <1>c, <2>1, <2>2
  <2>5. CASE call[r].kind = "IN"
    BY <1>0, <1>b, <2>2, <2>3, <2>5
  <2>6. CASE call[r].kind = "OUT"
    BY <1>0, <1>a, <2>2, <2>3, <2>6
  <2>7. QED
    BY <2>4, <2>5, <2>6
<1>4. CASE SaleJournal(r)
  <2>1. call[r].depot \in Depots \cup {NoDepot}
    BY LineInHand DEF Books, TypeInv, Call
  <2>2. /\ UNCHANGED <<qty, call, line>> /\ call[r].op = "sale" /\ pc[r] = "journal"
        /\ \E x : Filing(r, x) /\ x.kind = "OUT" /\ pc'[r] = "store"
    BY <1>4, <2>1, JournalFacts DEF SaleJournal, At, Books
  <2>3. Short(r, i) = 0 /\ Short(r, i)' = -Amount(r)
    BY <2>2 DEF Short, Mid, Owed, Article, Amount, Current
  <2>4. QED
    BY <1>0, <1>a, <2>2, <2>3
<1>5. CASE MovementStoreItem(r)
  <2>1. /\ call[r].op = "movement" /\ pc[r] = "store" /\ UNCHANGED <<movements, items, call, line>>
        /\ qty'[i] = onHand[r] + Delta(r, Base(r)) /\ pc'[r] = "commit"
    BY <1>5 DEF MovementStoreItem, At, StoreQuantity, Proceed, local, Books, TypeInv, TypeOK
  <2>2. onHand[r] = qty[i]
    BY <2>1 DEF Books, ApartInv, OwnOK, HandCurrent
  <2>3. call[r].kind \in {"IN", "OUT"}
    <3>1. call[r].kind \in {"IN", "OUT", "ADJUSTMENT"}
      BY LineInHand DEF Books, TypeInv, Call
    <3>2. PICK m \in movements : m.by = r /\ m.item = i
      BY <2>1 DEF Books, JournalInv, Journaled, OnFile
    <3>3. m.kind = call[r].kind
      BY <2>1, <3>2 DEF Books, FiledInv, FiledPast
    <3>4. QED
      BY <2>1, <3>1, <3>2, <3>3 DEF Adjusted
  <2>4. Short(r, i) = Delta(r, Base(r)) /\ Short(r, i)' = 0
    BY <2>1, <2>3 DEF Short, Mid, Owed, Delta
  <2>5. Delta(r, Base(r)) \in Int
    BY <1>0, <2>3 DEF Delta
  <2>6. QED
    BY <1>0, <1>d, <2>1, <2>2, <2>4, <2>5
<1>6. CASE SaleStoreItem(r)
  <2>1. /\ call[r].op = "sale" /\ pc[r] = "store" /\ UNCHANGED <<movements, items, call>>
        /\ qty'[i] = onHand[r] - Amount(r) /\ pc'[r] # "store"
    BY <1>6 DEF SaleStoreItem, At, StoreQuantity, Proceed, Books, TypeInv, TypeOK
  <2>2. onHand[r] = qty[i]
    BY <2>1 DEF Books, ApartInv, OwnOK, HandCurrent
  <2>3. Short(r, i) = -Amount(r) /\ Short(r, i)' = 0
    BY <2>1 DEF Short, Mid, Owed
  <2>4. QED
    BY <1>0, <1>d, <2>1, <2>2, <2>3
<1>7. CASE /\ ~TransferJournalOut(r) /\ ~TransferJournalIn(r) /\ ~MovementJournal(r) /\ ~SaleJournal(r)
           /\ ~MovementStoreItem(r) /\ ~SaleStoreItem(r)
  <2>1. ~RemoveDelete(r)
    BY DEF RemoveDelete
  <2>2. UNCHANGED <<qty, movements, line, call>> /\ (Mid(r)' <=> Mid(r))
    <3>1. UNCHANGED movements
      BY <1>7, <2>1, StepSilent DEF Books
    <3>2. QED
      BY <1>7, <2>1, <3>1, OwnQuiet
  <2>3. Short(r, i)' = Short(r, i) /\ Short(r, i) \in Int
    BY <1>0, <2>2 DEF Short, Owed, Article, Amount, Current
  <2>4. QED
    BY <1>0, <1>d, <2>2, <2>3
<1>8. QED
  BY <1>1, <1>2, <1>3, <1>4, <1>5, <1>6, <1>7

LEMMA MovedNone ==
  ASSUME NEW S, IsFiniteSet(S), NEW i, NEW k, \A m \in S : m.item # i
  PROVE  MovedOf(S, i, k) = 0
<1>1. PICK f : f = [m \in S |-> Moved(m, i, k)]
  OBVIOUS
<1>2. IsFiniteSet(DOMAIN f) /\ \A m \in DOMAIN f : f[m] = 0
  BY <1>1 DEF Moved
<1>3. SumFunction(f) = 0
  BY <1>2, TotalZero
<1>4. QED
  BY <1>1, <1>3 DEF MovedOf

(* A new article has its initial quantity and no history.                  *)
LEMMA LedgerCreated ==
  ASSUME Books, LedgerInv, ~Faults, NEW r \in Requests, CreateItem(r), NEW i, i = Article(r)
  PROVE  Ledger(i)'
<1>1. /\ call[r].op = "create" /\ pc[r] = "item" /\ UNCHANGED <<movements, call, line>>
      /\ pc'[r] \in {"credit", "commit"}
  BY DEF CreateItem, At, Proceed, local, Books, TypeInv, TypeOK
<1>2. qty'[i] = Amount(r) /\ Amount(r) \in Nat
  BY LineInHand DEF CreateItem, StoreQuantity, Books, TypeInv, TypeOK
<1>3. i \notin items /\ i \notin OpeningItems
  BY <1>1 DEF Books, JournalInv, Unborn, Creating, CreationInv, Creation
<1>4. Step(r) /\ ~Receive(r) /\ pc[r] # "idle"
  BY <1>1 DEF Step, Handler, Receive
<1>5. \A o \in Requests : Short(o, i)' = 0
  <2>1. Short(r, i)' = 0
    BY <1>1 DEF Short, Mid
  <2>2. \A o \in Requests \ {r} : Short(o, i)' = 0
    BY <1>4, OthersIdle
  <2>3. QED
    BY <2>1, <2>2
<1>6. MovedQuantity(i, "IN")' = 0 /\ MovedQuantity(i, "OUT")' = 0
  <2>1. IsFiniteSet(movements) /\ \A m \in movements : m.item # i
    BY <1>3 DEF Books, FiledInv
  <2>2. MovedOf(movements, i, "IN") = 0 /\ MovedOf(movements, i, "OUT") = 0
    BY <2>1, MovedNone
  <2>3. QED
    BY <1>1, <2>2, MovedOfAll
<1>7. StartQuantity(i)' = Amount(r)
  <2>1. /\ Creation(r)' /\ Creation(r) /\ Article(r)' = Article(r) /\ Amount(r)' = Amount(r)
    BY <1>1 DEF Creation, Article, Amount, Current
  <2>2. \A o \in Requests \ {r} : /\ Creation(o)' <=> Creation(o)
                                  /\ Creation(o) => Article(o)' = Article(o)
    BY <1>4, CreationKept DEF Books
  <2>3. Creations(i)' = {r}
    BY <2>1, <2>2 DEF Books, CreationInv, Creations, Creation
  <2>4. PICK o : o = CHOOSE s \in Creations(i)' : TRUE
    OBVIOUS
  <2>5. o = r
    BY <2>3, <2>4
  <2>6. StartQuantity(i)' = Amount(o)'
    BY <1>3, <2>4 DEF StartQuantity
  <2>7. QED
    BY <2>1, <2>5, <2>6
<1>8. QED
  BY <1>2, <1>5, <1>6, <1>7 DEF Ledger, Explained

(* An equation that holds still does when both of its sides change alike.  *)
LEMMA BothSides ==
  ASSUME NEW a \in Int, NEW b \in Int, NEW c \in Int, NEW d \in Int, NEW e \in Int,
         NEW bb \in Int, NEW cc \in Int, NEW dd \in Int, NEW ee \in Int,
         d + e = a + b - c, dd + ee - (d + e) = (bb - b) - (cc - c)
  PROVE  dd + ee = a + bb - cc
<1>1. PICK x \in Int, y \in Int : x = d + e /\ y = dd + ee
  OBVIOUS
<1>2. y - x = (bb - b) - (cc - c) /\ x = a + b - c
  BY <1>1
<1>3. y = a + bb - cc
  BY ONLY <1>2, a \in Int, b \in Int, c \in Int, bb \in Int, cc \in Int, x \in Int, y \in Int
<1>4. QED
  BY <1>1, <1>3

(* The article a request has in hand.                                      *)
LEMMA LedgerHere ==
  ASSUME Books, LedgerInv, ~Faults, NEW r \in Requests, Step(r), ~Receive(r), ~CreateItem(r),
         NEW i \in items', i = Article(r), ~Adjusted(i)',
         TypeOK', FiledInv'
  PROVE  Ledger(i)'
<1>1. i \in items
  BY StepBooks DEF RemoveDelete, Books, TypeInv
<1>2. ~Adjusted(i) /\ pc[r] # "idle"
  BY AdjustedStays, StepWrites DEF Books, ApartInv, OwnOK, Active
<1>3. \A o \in Requests \ {r} : Short(o, i) = 0 /\ Short(o, i)' = 0
  BY OthersIdle
<1>4. /\ StartQuantity(i) \in Int /\ MovedQuantity(i, "IN") \in Int /\ MovedQuantity(i, "OUT") \in Int
      /\ qty[i] \in Int /\ Short(r, i) \in Int
  BY <1>1, ExplainedType, OpeningAssumption DEF Books
<1>5. qty[i] + Short(r, i) = Explained(i)
  BY <1>1, <1>2, <1>3, <1>4 DEF LedgerInv, Ledger
<1>6. StartQuantity(i)' = StartQuantity(i)
  BY <1>1, <1>2, StartSame DEF Books
<1>7. qty'[i] + Short(r, i)' - (qty[i] + Short(r, i))
        = (MovedQuantity(i, "IN")' - MovedQuantity(i, "IN"))
            - (MovedQuantity(i, "OUT")' - MovedQuantity(i, "OUT"))
  BY <1>1, StepFair
<1>8. /\ qty'[i] \in Int /\ Short(r, i)' \in Int
      /\ MovedQuantity(i, "IN")' \in Int /\ MovedQuantity(i, "OUT")' \in Int
  <2>1. qty'[i] \in Int /\ IsFiniteSet(movements') /\ movements' \in SUBSET Movement
    BY DEF TypeOK, FiledInv
  <2>2. MovedOf(movements', i, "IN") \in Int /\ MovedOf(movements', i, "OUT") \in Int
    BY <2>1, MovedType
  <2>3. Mid(r)' => Amount(r)' = Amount(r)
    <3>1. UNCHANGED call /\ (line'[r] # line[r] => pc'[r] = "item")
      BY StepCall, LineMoves DEF Books, TypeInv
    <3>2. QED
      BY <3>1 DEF Mid, Amount, Current
  <2>4. Amount(r) \in Nat
    BY LineInHand DEF Books, TypeInv
  <2>5. QED
    BY <2>1, <2>2, <2>3, <2>4, MovedOfAll DEF Short, Owed
<1>9. qty'[i] + Short(r, i)' = Explained(i)'
  <2>1. qty[i] + Short(r, i) = StartQuantity(i) + MovedQuantity(i, "IN") - MovedQuantity(i, "OUT")
    BY <1>5 DEF Explained
  <2>2. Explained(i)' = StartQuantity(i)' + MovedQuantity(i, "IN")' - MovedQuantity(i, "OUT")'
    BY DEF Explained
  <2>3. PICK a, b, c, d, e, bb, cc, dd, ee :
           /\ a = StartQuantity(i) /\ b = MovedQuantity(i, "IN") /\ c = MovedQuantity(i, "OUT")
           /\ d = qty[i] /\ e = Short(r, i)
           /\ bb = MovedQuantity(i, "IN")' /\ cc = MovedQuantity(i, "OUT")'
           /\ dd = qty'[i] /\ ee = Short(r, i)'
    OBVIOUS
  <2>4. /\ a \in Int /\ b \in Int /\ c \in Int /\ d \in Int /\ e \in Int
        /\ bb \in Int /\ cc \in Int /\ dd \in Int /\ ee \in Int
    BY <1>4, <1>8, <2>3
  <2>5. dd + ee - (d + e) = (bb - b) - (cc - c)
    BY <1>7, <2>3
  <2>6. d + e = a + b - c
    BY <2>1, <2>3
  <2>7. dd + ee = a + bb - cc
    BY ONLY <2>4, <2>5, <2>6, BothSides
  <2>8. Explained(i)' = a + bb - cc
    BY <1>6, <2>2, <2>3
  <2>9. QED
    BY <2>3, <2>7, <2>8
<1>10. QED
  BY <1>3, <1>8, <1>9 DEF Ledger

LEMMA LedgerStep ==
  ASSUME Books, LedgerInv, ~Faults, NEW r \in Requests, Step(r), TypeOK', FiledInv'
  PROVE  LedgerInv'
<1> SUFFICES ASSUME NEW i \in items', ~Adjusted(i)' PROVE Ledger(i)'
  BY DEF LedgerInv
<1>1. items' \subseteq Items
  BY DEF TypeOK
<1>2. CASE i # Article(r) \/ Receive(r)
  BY <1>1, <1>2, LedgerElsewhere
<1>3. CASE i = Article(r) /\ ~Receive(r)
  <2>1. CASE CreateItem(r)
    BY <1>3, <2>1, LedgerCreated
  <2>2. CASE ~CreateItem(r)
    BY <1>3, <2>2, LedgerHere
  <2>3. QED
    BY <2>1, <2>2
<1>4. QED
  BY <1>2, <1>3

LEMMA LedgerInit == Init => LedgerInv
<1> SUFFICES ASSUME Init, NEW i \in items PROVE Ledger(i)
  BY DEF LedgerInv
<1>1. \A r \in Requests : Short(r, i) = 0
  BY DEF Init, Short, Mid
<1>2. MovedOf({}, i, "IN") = 0 /\ MovedOf({}, i, "OUT") = 0
  BY MovedNone, FS_EmptySet
<1>3. MovedQuantity(i, "IN") = 0 /\ MovedQuantity(i, "OUT") = 0
  BY <1>2, MovedOfAll DEF Init
<1>4. StartQuantity(i) = qty[i] /\ qty[i] \in Int
  BY OpeningAssumption DEF Init, StartQuantity
<1>5. QED
  BY <1>1, <1>3, <1>4 DEF Ledger, Explained

OrderlyInv == Orderly => ApartInv /\ CreationInv /\ LedgerInv

LEMMA OrderlyStep ==
  TypeInv /\ JournalInv /\ FiledInv /\ OrderlyInv /\ [Next]_vars => (FiledInv /\ OrderlyInv)'
<1> SUFFICES ASSUME TypeInv, JournalInv, FiledInv, OrderlyInv, [Next]_vars
             PROVE  FiledInv' /\ OrderlyInv'
  OBVIOUS
<1>1. TypeOK'
  BY TypeStep
<1>2. CASE UNCHANGED vars
  <2>1. UNCHANGED <<items, fresh, qty, bal, movements, pend, open, pc, call, line, onHand, inDepot>>
    BY <1>2 DEF vars, store, local
  <2>2. FiledInv'
    BY <2>1 DEF FiledInv, FiledPast
  <2>3. ApartInv => ApartInv'
    BY <2>1, ApartStutter
  <2>4. \A i : Creations(i)' = Creations(i)
    BY <2>1 DEF Creations, Article, Current
  <2>5. CreationInv => CreationInv'
    BY <2>1, <2>4 DEF CreationInv, Creation, Article, Current
  <2>6. \A i : Explained(i)' = Explained(i) /\ (Adjusted(i)' <=> Adjusted(i))
    <3>1. \A o : Amount(o)' = Amount(o)
      BY <2>1 DEF Amount, Current
    <3> SUFFICES ASSUME NEW i PROVE Explained(i)' = Explained(i) /\ (Adjusted(i)' <=> Adjusted(i))
      OBVIOUS
    <3>2. StartQuantity(i)' = StartQuantity(i)
      <4>1. PICK o : o = CHOOSE x \in Creations(i) : TRUE
        OBVIOUS
      <4>2. o = CHOOSE x \in Creations(i)' : TRUE
        BY <2>4, <4>1
      <4>3. Amount(o)' = Amount(o)
        BY <3>1
      <4>4. StartQuantity(i) = IF i \in OpeningItems THEN OpeningQuantity[i] ELSE Amount(o)
        BY <4>1 DEF StartQuantity
      <4>5. StartQuantity(i)' = IF i \in OpeningItems THEN OpeningQuantity[i] ELSE Amount(o)'
        BY <4>2 DEF StartQuantity
      <4>6. QED
        BY <4>3, <4>4, <4>5
    <3>3. \A k : MovedQuantity(i, k)' = MovedQuantity(i, k)
      BY <2>1, MovedOfAll
    <3>4. Explained(i)' = Explained(i)
      BY <3>2, <3>3 DEF Explained
    <3>5. Adjusted(i)' <=> Adjusted(i)
      BY <2>1 DEF Adjusted
    <3>6. QED
      BY <3>4, <3>5
  <2>7. \A i, r : Short(r, i)' = Short(r, i)
    BY <2>1 DEF Short, Mid, Owed, Article, Amount, Current
  <2>8. LedgerInv => LedgerInv'
    BY <2>1, <2>6, <2>7 DEF LedgerInv, Ledger
  <2>9. QED
    BY <2>2, <2>3, <2>5, <2>8 DEF OrderlyInv, Orderly
<1>3. CASE \E r \in Requests : Step(r)
  <2>1. PICK r \in Requests : Step(r)
    BY <1>3
  <2>2. FiledInv'
    BY <2>1, FiledStep
  <2>3. ASSUME Orderly PROVE ApartInv' /\ CreationInv' /\ LedgerInv'
    <3>1. Books /\ LedgerInv /\ Apart /\ ~Faults
      BY <2>3 DEF Books, OrderlyInv, Orderly
    <3>2. ApartInv'
      BY <2>1, <3>1, ApartStep DEF Books
    <3>3. Receive(r) \/ pc[r] # "idle"
      BY <2>1, <3>1, StepWrites DEF Books, ApartInv, OwnOK, Active
    <3>4. CreationInv'
      BY <2>1, <3>1, <3>3, CreationStep DEF Books
    <3>5. LedgerInv'
      BY <1>1, <2>1, <2>2, <3>1, LedgerStep
    <3>6. QED
      BY <3>2, <3>4, <3>5
  <2>4. QED
    BY <2>2, <2>3 DEF OrderlyInv, Orderly
<1>4. QED
  BY <1>2, <1>3 DEF Next, AllAnswered, Step

(* While requests on one article do not overlap and none fails, the        *)
(* quantity on hand of an article at rest is what it started with, and the *)
(* IN and without the OUT movements on file: for any number of requests    *)
(* and articles, transfers and sales of many lines included, whether they  *)
(* went through or were refused after some of their lines.                 *)
THEOREM LedgerExplainsStock == Spec => []LedgerMatches
<1>1. Init => TypeInv /\ JournalInv /\ FiledInv /\ OrderlyInv
  BY TypeInit, JournalInvInit, FiledInit, ApartInit, CreationInit, LedgerInit
     DEF TypeInv, RequestOK, Init, OrderlyInv
<1>2. TypeInv /\ JournalInv /\ FiledInv /\ OrderlyInv /\ [Next]_vars
      => (TypeInv /\ JournalInv /\ FiledInv /\ OrderlyInv)'
  BY TypeStep, RequestStep, JournalStep, OrderlyStep DEF TypeInv
<1>3. TypeInv /\ JournalInv /\ FiledInv /\ OrderlyInv => LedgerMatches
  <2> SUFFICES ASSUME TypeInv, OrderlyInv, Orderly, NEW i \in items, AtRest(i), ~Adjusted(i)
               PROVE  qty[i] = Explained(i)
    BY DEF LedgerMatches, Explained
  <2>1. \A r \in Requests : Short(r, i) = 0
    BY ArticleInHand DEF AtRest, Short, Mid, Active, TypeInv
  <2>2. QED
    BY <2>1 DEF OrderlyInv, LedgerInv, Ledger
<1>4. QED
  BY <1>1, <1>2, <1>3, PTL DEF Spec

-----------------------------------------------------------------------------
(* The depots.  A request sees the rows with its own writes; what it sees  *)
(* of the article in hand, and what it still owes to them, is what is on   *)
(* hand.                                                                   *)
RowTotal(v, i) == SumFunction([d \in Depots |-> Held(v[<<i, d>>])])

Seen(r) == [k \in Keys |-> View(r, k)]

LEMMA TotalsAre ==
  ASSUME NEW i
  PROVE  DepotTotal(i) = RowTotal(bal, i) /\ DepotTotal(i)' = RowTotal(bal', i)
BY DEF DepotTotal, RowTotal

LEMMA HeldType == ASSUME NEW v \in Rows PROVE Held(v) \in Int
BY DEF Held, Rows

LEMMA RowTotalType ==
  ASSUME NEW v \in [Keys -> Rows], NEW i \in Items
  PROVE  RowTotal(v, i) \in Int
<1>1. PICK f : f = [d \in Depots |-> Held(v[<<i, d>>])]
  OBVIOUS
<1>2. \A d \in Depots : v[<<i, d>>] \in Rows
  BY DEF Keys
<1>3. DOMAIN f = Depots /\ \A d \in Depots : f[d] \in Int
  BY <1>1, <1>2, HeldType
<1>4. SumFunction(f) \in Int
  BY <1>3, TotalType, DepotsAssumption
<1>5. QED
  BY <1>1, <1>4 DEF RowTotal

LEMMA RowTotalSame ==
  ASSUME NEW v, NEW w, NEW i, \A d \in Depots : v[<<i, d>>] = w[<<i, d>>]
  PROVE  RowTotal(w, i) = RowTotal(v, i)
<1>1. PICK f, g : /\ f = [d \in Depots |-> Held(v[<<i, d>>])]
                  /\ g = [d \in Depots |-> Held(w[<<i, d>>])]
  OBVIOUS
<1>2. DOMAIN f = Depots /\ DOMAIN g = Depots /\ \A d \in Depots : f[d] = g[d]
  BY <1>1
<1>3. SumFunction(g) = SumFunction(f)
  BY <1>2, TotalSame, DepotsAssumption
<1>4. QED
  BY <1>1, <1>3 DEF RowTotal

LEMMA RowTotalSet ==
  ASSUME NEW v \in [Keys -> Rows], NEW w \in [Keys -> Rows], NEW i \in Items, NEW e \in Depots,
         \A d \in Depots \ {e} : v[<<i, d>>] = w[<<i, d>>]
  PROVE  RowTotal(w, i) = RowTotal(v, i) + (Held(w[<<i, e>>]) - Held(v[<<i, e>>]))
<1>1. PICK f, g : /\ f = [d \in Depots |-> Held(v[<<i, d>>])]
                  /\ g = [d \in Depots |-> Held(w[<<i, d>>])]
  OBVIOUS
<1>2. \A d \in Depots : v[<<i, d>>] \in Rows /\ w[<<i, d>>] \in Rows
  BY DEF Keys
<1>3. /\ DOMAIN f = Depots /\ DOMAIN g = Depots /\ \A d \in Depots : f[d] \in Int /\ g[d] \in Int
      /\ \A d \in Depots \ {e} : f[d] = g[d]
  BY <1>1, <1>2, HeldType
<1>4. SumFunction(g) = SumFunction(f) + (g[e] - f[e])
  BY <1>3, TotalChange, DepotsAssumption
<1>5. g[e] = Held(w[<<i, e>>]) /\ f[e] = Held(v[<<i, e>>])
  BY <1>1
<1>6. QED
  BY <1>1, <1>4, <1>5 DEF RowTotal

LEMMA RowTotalNone ==
  ASSUME NEW v, NEW i, \A d \in Depots : v[<<i, d>>] = NoRow
  PROVE  RowTotal(v, i) = 0
<1>1. PICK f : f = [d \in Depots |-> Held(v[<<i, d>>])]
  OBVIOUS
<1>2. DOMAIN f = Depots /\ \A d \in Depots : f[d] = 0
  BY <1>1 DEF Held
<1>3. SumFunction(f) = 0
  BY <1>2, TotalZero, DepotsAssumption
<1>4. QED
  BY <1>1, <1>3 DEF RowTotal

(* An article that is not there has no rows, committed or pending.         *)
RowsInv ==
  \A k \in Keys : k[1] \notin items => bal[k] = NoRow /\ \A o \in Requests : pend[o][k] = NoRow

LEMMA RowsInit == Init => RowsInv
BY OpeningAssumption DEF Init, RowsInv, NoWrites

LEMMA RowsWritten ==
  ASSUME TypeInv, RowsInv, NEW r \in Requests, NEW d \in Depots, NEW v, NEW l, WriteBalance(r, d, v, l),
         \A o \in Requests \ {r} : pend'[o] = pend[o]
  PROVE  RowsInv'
<1> SUFFICES ASSUME NEW k \in Keys, k[1] \notin items'
             PROVE  bal'[k] = NoRow /\ \A o \in Requests : pend'[o][k] = NoRow
  BY DEF RowsInv
<1>1. UNCHANGED <<items, bal>>
  BY DEF WriteBalance, store
<1>2. bal[k] = NoRow /\ \A o \in Requests : pend[o][k] = NoRow
  BY <1>1 DEF RowsInv
<1>3. pend'[r][k] = NoRow
  <2>1. CASE pend' = [pend EXCEPT ![r] = NoWrites]
    BY <2>1 DEF NoWrites, TypeInv, TypeOK
  <2>2. CASE Article(r) \in items /\ pend' = [pend EXCEPT ![r][KeyAt(r, d)] = v]
    <3>1. k # KeyAt(r, d) /\ KeyAt(r, d) \in Keys
      BY <1>1, <2>2, LineInHand DEF KeyAt, TypeInv
    <3>2. QED
      BY <1>2, <2>2, <3>1 DEF TypeInv, TypeOK
  <2>3. QED
    BY <2>1, <2>2 DEF WriteBalance, Refuse
<1>4. QED
  BY <1>1, <1>2, <1>3

LEMMA RowsStep ==
  ASSUME TypeInv, RowsInv, NEW r \in Requests, Step(r)
  PROVE  RowsInv'
<1>a. /\ Article(r) \in Items /\ \A d : KeyAt(r, d)[1] = Article(r)
      /\ \A o \in Requests \ {r} : pend'[o] = pend[o]
  BY StepAlone, LineInHand DEF TypeInv, OthersKept, KeyAt
<1> USE <1>a DEF TypeInv, TypeOK, RowsInv, Proceed, Refuse, At, NoWrites, store, local
<1>1. CASE Receive(r)
  BY <1>1 DEF Receive
<1>2. CASE Commit(r)
  <2> SUFFICES ASSUME NEW k \in Keys, k[1] \notin items'
               PROVE  bal'[k] = NoRow /\ \A o \in Requests : pend'[o][k] = NoRow
    OBVIOUS
  <2>1. bal[k] = NoRow /\ \A o \in Requests : pend[o][k] = NoRow
    BY <1>2 DEF Commit
  <2>2. bal'[k] = NoRow
    BY <1>2, <2>1 DEF Commit, View
  <2>3. pend'[r] = NoWrites
    BY <1>2 DEF Commit
  <2>4. \A o \in Requests : pend'[o][k] = NoRow
    <3>1. pend'[r][k] = NoRow
      BY ONLY <2>3, k \in Keys DEF NoWrites
    <3>2. \A o \in Requests \ {r} : pend'[o][k] = NoRow
      BY <1>a, <2>1
    <3>3. QED
      BY ONLY <3>1, <3>2
  <2>5. QED
    BY <2>2, <2>4
<1>3. CASE CreateItem(r)
  BY <1>3 DEF CreateItem
<1>4. CASE CreateBalance(r)
  <2>1. call[r].depot \in Depots
    BY <1>4 DEF CreateBalance, RequestOK
  <2>2. QED
    BY <1>4, <2>1, RowsWritten DEF CreateBalance
<1>5. CASE RemoveRead(r)
  BY <1>5 DEF RemoveRead
<1>6. CASE RemoveDelete(r)
  <2>1. /\ \A o \in Requests, d \in Depots : pend[o][KeyAt(r, d)] = NoRow
        /\ items' = items \ {Article(r)}
        /\ bal' = [k \in Keys |-> IF k[1] = Article(r) THEN NoRow ELSE bal[k]]
        /\ \A o \in Requests : pend'[o] = pend[o] \/ pend'[o] = NoWrites
    BY <1>6 DEF RemoveDelete
  <2>b. \A k \in Keys : NoWrites[k] = NoRow
    BY DEF NoWrites
  <2> SUFFICES ASSUME NEW k \in Keys, k[1] \notin items'
               PROVE  bal'[k] = NoRow /\ \A o \in Requests : pend'[o][k] = NoRow
    OBVIOUS
  <2>2. CASE k[1] = Article(r)
    <3>1. PICK d \in Depots : k = KeyAt(r, d)
      BY <2>2 DEF Keys, KeyAt
    <3>2. bal'[k] = NoRow
      BY <2>1, <2>2
    <3>3. \A o \in Requests : pend'[o][k] = NoRow
      BY <2>1, <2>b, <3>1
    <3>4. QED
      BY <3>2, <3>3
  <2>3. CASE k[1] # Article(r)
    <3>1. k[1] \notin items
      BY <2>1, <2>3
    <3>2. bal'[k] = NoRow
      BY <2>1, <2>3, <3>1
    <3>3. \A o \in Requests : pend'[o][k] = NoRow
      BY <2>1, <2>b, <3>1
    <3>4. QED
      BY <3>2, <3>3
  <2>4. QED
    BY <2>2, <2>3
<1>7. CASE TransferReadItem(r)
  BY <1>7 DEF TransferReadItem
<1>8. CASE TransferReadSource(r)
  BY <1>8 DEF TransferReadSource, ReadBalance
<1>9. CASE TransferDebit(r)
  <2>1. call[r].depot \in Depots
    BY <1>9 DEF TransferDebit, RequestOK
  <2>2. QED
    BY <1>9, <2>1, RowsWritten DEF TransferDebit
<1>10. CASE TransferReadDest(r)
  BY <1>10 DEF TransferReadDest, ReadBalance
<1>11. CASE TransferCredit(r)
  <2>1. call[r].dest \in Depots
    BY <1>11, LineInHand, CallsAssumption DEF TransferCredit
  <2>2. QED
    BY <1>11, <2>1, RowsWritten DEF TransferCredit
<1>12. CASE TransferJournalOut(r)
  BY <1>12 DEF TransferJournalOut, Journal
<1>13. CASE TransferJournalIn(r)
  BY <1>13 DEF TransferJournalIn, Journal
<1>14. CASE MovementReadItem(r)
  BY <1>14 DEF MovementReadItem
<1>15. CASE MovementReadBalance(r)
  BY <1>15 DEF MovementReadBalance, ReadBalance
<1>16. CASE MovementJournal(r)
  BY <1>16 DEF MovementJournal, Journal
<1>17. CASE MovementWriteBalance(r)
  <2>1. call[r].depot \in Depots
    BY <1>17 DEF MovementWriteBalance, RequestOK
  <2>2. QED
    BY <1>17, <2>1, RowsWritten DEF MovementWriteBalance
<1>18. CASE MovementStoreItem(r)
  BY <1>18 DEF MovementStoreItem
<1>19. CASE SaleReadItem(r)
  BY <1>19 DEF SaleReadItem
<1>20. CASE SaleReadBalance(r)
  BY <1>20 DEF SaleReadBalance, ReadBalance
<1>21. CASE SaleDebit(r)
  <2>1. call[r].depot \in Depots
    BY <1>21 DEF SaleDebit, RequestOK
  <2>2. QED
    BY <1>21, <2>1, RowsWritten DEF SaleDebit
<1>22. CASE SaleJournal(r)
  BY <1>22 DEF SaleJournal, Journal
<1>23. CASE SaleStoreItem(r)
  BY <1>23 DEF SaleStoreItem
<1>24. CASE SaleNumber(r)
  BY <1>24 DEF SaleNumber
<1>25. CASE SaleInvoice(r)
  BY <1>25 DEF SaleInvoice
<1>26. CASE Fail(r)
  BY <1>26 DEF Fail
<1>27. CASE Expire(r)
  BY <1>27 DEF Expire
<1>28. CASE DeadlockVictim(r)
  BY <1>28 DEF DeadlockVictim
<1>29. QED
  BY <1>1, <1>2, <1>3, <1>4, <1>5, <1>6, <1>7, <1>8, <1>9, <1>10, <1>11, <1>12, <1>13, <1>14,
     <1>15, <1>16, <1>17, <1>18, <1>19, <1>20, <1>21, <1>22, <1>23, <1>24, <1>25, <1>26, <1>27,
     <1>28 DEF Step, Handler

(* Every call is about one article.                                        *)
OneLine == \A c \in Calls : Len(c.lines) = 1

LEMMA OneArticle ==
  ASSUME TypeInv, OneLine, NEW r \in Requests
  PROVE  line[r] = 1 /\ Len(call[r].lines) = 1 /\ Articles(call[r]) = {Article(r)}
<1>1. call[r] \in Calls /\ call[r] \in Call
  BY LineInHand DEF TypeInv
<1>2. Len(call[r].lines) = 1 /\ call[r].lines \in Seq(Line)
  BY <1>1 DEF OneLine, Call
<1>3. line[r] = 1
  <2>1. line[r] \in 1 .. Len(call[r].lines)
    BY DEF TypeInv, TypeOK
  <2>2. line[r] \in 1 .. 1
    BY <1>2, <2>1
  <2>3. QED
    BY ONLY <2>2
<1>4. Articles(call[r]) = {Article(r)}
  BY <1>2, <1>3 DEF Articles, Article, Current
<1>5. QED
  BY <1>2, <1>3, <1>4

(* Unless it removes its article, it names a depot.                        *)
LEMMA OneDepot ==
  ASSUME TypeInv, InDepots, NEW r \in Requests
  PROVE  OneLine /\ (call[r].op # "remove" => call[r].depot \in Depots)
<1>1. call[r] \in Calls /\ call[r].depot \in Depots \cup {NoDepot}
  BY LineInHand DEF TypeInv, Call
<1>2. QED
  BY <1>1 DEF InDepots, OneLine

(* Before its first write a request has none, and the rows of an article   *)
(* that is being created are its own to write.                             *)
Early(r) == pc[r] \in {"item", "balance"} => pend[r] = NoWrites

Newborn(r) ==
  call[r].op = "create" =>
    /\ pc[r] \in {"item", "credit"} => inDepot[r] = NoRow /\ pend[r] = NoWrites
    /\ pc[r] = "credit" => Article(r) \in items /\ \A d \in Depots : bal[KeyAt(r, d)] = NoRow

LEMMA NothingPends ==
  ASSUME TypeInv, NEW r \in Requests, PendOwn(r), ~Active(r)
  PROVE  pend[r] = NoWrites
BY DEF PendOwn, TypeInv, TypeOK, NoWrites

LEMMA EarlyStep ==
  ASSUME TypeInv, OneLine, ~Faults, NEW r \in Requests, Step(r), PendOwn(r), Early(r)
  PROVE  Early(r)'
<1> USE DEF TypeInv, TypeOK, Early, Proceed, Refuse, At, store, local
<1>1. CASE Receive(r)
  BY <1>1, NothingPends DEF Receive, Active
<1>2. CASE Commit(r)
  BY <1>2 DEF Commit
<1>3. CASE CreateItem(r)
  BY <1>3 DEF CreateItem
<1>4. CASE CreateBalance(r)
  BY <1>4 DEF CreateBalance, WriteBalance
<1>5. CASE RemoveRead(r)
  BY <1>5 DEF RemoveRead
<1>6. CASE RemoveDelete(r)
  BY <1>6 DEF RemoveDelete
<1>7. CASE TransferReadItem(r)
  BY <1>7 DEF TransferReadItem
<1>8. CASE TransferReadSource(r)
  BY <1>8 DEF TransferReadSource, ReadBalance
<1>9. CASE TransferDebit(r)
  BY <1>9 DEF TransferDebit, WriteBalance
<1>10. CASE TransferReadDest(r)
  BY <1>10 DEF TransferReadDest, ReadBalance
<1>11. CASE TransferCredit(r)
  BY <1>11 DEF TransferCredit, WriteBalance
<1>12. CASE TransferJournalOut(r)
  BY <1>12 DEF TransferJournalOut, Journal
<1>13. CASE TransferJournalIn(r)
  BY <1>13 DEF TransferJournalIn, Journal
<1>14. CASE MovementReadItem(r)
  BY <1>14 DEF MovementReadItem
<1>15. CASE MovementReadBalance(r)
  BY <1>15 DEF MovementReadBalance, ReadBalance
<1>16. CASE MovementJournal(r)
  BY <1>16 DEF MovementJournal, Journal
<1>17. CASE MovementWriteBalance(r)
  BY <1>17 DEF MovementWriteBalance, WriteBalance
<1>18. CASE MovementStoreItem(r)
  BY <1>18 DEF MovementStoreItem
<1>19. CASE SaleReadItem(r)
  BY <1>19 DEF SaleReadItem
<1>20. CASE SaleReadBalance(r)
  BY <1>20 DEF SaleReadBalance, ReadBalance
<1>21. CASE SaleDebit(r)
  BY <1>21 DEF SaleDebit, WriteBalance
<1>22. CASE SaleJournal(r)
  BY <1>22 DEF SaleJournal, Journal
<1>23. CASE SaleStoreItem(r)
  BY <1>23, OneArticle DEF SaleStoreItem
<1>24. CASE SaleNumber(r)
  BY <1>24 DEF SaleNumber
<1>25. CASE SaleInvoice(r)
  BY <1>25 DEF SaleInvoice
<1>26. CASE Fail(r)
  BY <1>26 DEF Fail
<1>27. CASE Expire(r)
  BY <1>27 DEF Expire
<1>28. CASE DeadlockVictim(r)
  BY <1>28 DEF DeadlockVictim
<1>29. QED
  BY <1>1, <1>2, <1>3, <1>4, <1>5, <1>6, <1>7, <1>8, <1>9, <1>10, <1>11, <1>12, <1>13, <1>14,
     <1>15, <1>16, <1>17, <1>18, <1>19, <1>20, <1>21, <1>22, <1>23, <1>24, <1>25, <1>26, <1>27,
     <1>28 DEF Step, Handler

LEMMA NewbornStep ==
  ASSUME TypeInv, OneLine, ~Faults, RowsInv, JournalInv, NEW r \in Requests, Step(r), PendOwn(r),
         Sound(r), Newborn(r)
  PROVE  Newborn(r)'
<1> USE DEF TypeInv, TypeOK, Newborn, Proceed, Refuse, At, store, local
<1>1. CASE Receive(r)
  BY <1>1, NothingPends DEF Receive, Active, Sound
<1>2. CASE Commit(r)
  BY <1>2 DEF Commit
<1>3. CASE CreateItem(r)
  <2>1. Article(r) \notin items
    BY <1>3 DEF CreateItem, JournalInv, Unborn, Creating
  <2>2. \A d \in Depots : bal[KeyAt(r, d)] = NoRow
    BY <2>1, LineInHand DEF RowsInv, KeyAt
  <2>3. UNCHANGED <<bal, call, line, inDepot, pend>> /\ items' = items \cup {Article(r)}
    BY <1>3 DEF CreateItem
  <2>4. Article(r)' = Article(r) /\ \A d : KeyAt(r, d)' = KeyAt(r, d)
    BY <2>3 DEF Article, Current, KeyAt
  <2>5. QED
    BY <1>3, <2>2, <2>3, <2>4 DEF CreateItem
<1>4. CASE CreateBalance(r)
  BY <1>4 DEF CreateBalance, WriteBalance
<1>5. CASE RemoveRead(r)
  BY <1>5 DEF RemoveRead
<1>6. CASE RemoveDelete(r)
  BY <1>6 DEF RemoveDelete
<1>7. CASE TransferReadItem(r)
  BY <1>7 DEF TransferReadItem
<1>8. CASE TransferReadSource(r)
  BY <1>8 DEF TransferReadSource, ReadBalance
<1>9. CASE TransferDebit(r)
  BY <1>9 DEF TransferDebit, WriteBalance
<1>10. CASE TransferReadDest(r)
  BY <1>10 DEF TransferReadDest, ReadBalance
<1>11. CASE TransferCredit(r)
  BY <1>11 DEF TransferCredit, WriteBalance
<1>12. CASE TransferJournalOut(r)
  BY <1>12 DEF TransferJournalOut, Journal
<1>13. CASE TransferJournalIn(r)
  BY <1>13 DEF TransferJournalIn, Journal
<1>14. CASE MovementReadItem(r)
  BY <1>14 DEF MovementReadItem
<1>15. CASE MovementReadBalance(r)
  BY <1>15 DEF MovementReadBalance, ReadBalance
<1>16. CASE MovementJournal(r)
  BY <1>16 DEF MovementJournal, Journal
<1>17. CASE MovementWriteBalance(r)
  BY <1>17 DEF MovementWriteBalance, WriteBalance
<1>18. CASE MovementStoreItem(r)
  BY <1>18 DEF MovementStoreItem
<1>19. CASE SaleReadItem(r)
  BY <1>19 DEF SaleReadItem
<1>20. CASE SaleReadBalance(r)
  BY <1>20 DEF SaleReadBalance, ReadBalance
<1>21. CASE SaleDebit(r)
  BY <1>21 DEF SaleDebit, WriteBalance
<1>22. CASE SaleJournal(r)
  BY <1>22 DEF SaleJournal, Journal
<1>23. CASE SaleStoreItem(r)
  BY <1>23 DEF SaleStoreItem
<1>24. CASE SaleNumber(r)
  BY <1>24 DEF SaleNumber
<1>25. CASE SaleInvoice(r)
  BY <1>25 DEF SaleInvoice
<1>26. CASE Fail(r)
  BY <1>26 DEF Fail
<1>27. CASE Expire(r)
  BY <1>27 DEF Expire
<1>28. CASE DeadlockVictim(r)
  BY <1>28 DEF DeadlockVictim
<1>29. QED
  BY <1>1, <1>2, <1>3, <1>4, <1>5, <1>6, <1>7, <1>8, <1>9, <1>10, <1>11, <1>12, <1>13, <1>14,
     <1>15, <1>16, <1>17, <1>18, <1>19, <1>20, <1>21, <1>22, <1>23, <1>24, <1>25, <1>26, <1>27,
     <1>28 DEF Step, Handler

LEMMA NewbornKept ==
  ASSUME TypeInv, ApartInv, ~Faults, NEW r \in Requests, Step(r), NEW o \in Requests \ {r},
         Early(o), Newborn(o)
  PROVE  Early(o)' /\ Newborn(o)'
<1>1. /\ pc'[o] = pc[o] /\ call'[o] = call[o] /\ line'[o] = line[o]
      /\ inDepot'[o] = inDepot[o] /\ pend'[o] = pend[o]
  BY StepAlone DEF TypeInv, OthersKept
<1>2. Article(o)' = Article(o) /\ \A d : KeyAt(o, d)' = KeyAt(o, d)
  BY <1>1 DEF Article, Current, KeyAt
<1>3. pc[o] = "credit" => /\ Article(o) \in items => Article(o) \in items'
                          /\ \A d \in Depots : bal'[KeyAt(o, d)] = bal[KeyAt(o, d)]
  BY OthersShelf DEF Active
<1>4. QED
  BY <1>1, <1>2, <1>3 DEF Early, Newborn

(* What a request still owes to the depots' rows of the article in hand.    *)
Due(r) ==
  CASE call[r].op = "create" /\ pc[r] = "credit"                -> Amount(r)
    [] call[r].op = "transfer" /\ pc[r] \in {"dest", "credit"}  -> Amount(r)
    [] call[r].op = "sale" /\ pc[r] \in {"journal", "store"}    -> Amount(r)
    [] call[r].op = "movement" /\ pc[r] = "store"               -> -Delta(r, Base(r))
    [] OTHER                                                    -> 0

Book(i) ==
  /\ AtRest(i) => qty[i] = RowTotal(bal, i)
  /\ \A r \in Requests : Active(r) /\ Article(r) = i => RowTotal(Seen(r), i) + Due(r) = qty[i]

DepotInv == /\ \A r \in Requests : Early(r) /\ Newborn(r)
            /\ \A i \in items : Book(i)

LEMMA DueType ==
  ASSUME TypeInv, NEW r \in Requests
  PROVE  /\ Due(r) \in Int /\ Base(r) \in Int /\ Delta(r, Base(r)) \in Int /\ Amount(r) \in Nat
         /\ Delta(r, 0) \in Int
<1>1. Amount(r) \in Nat /\ Base(r) \in Int
  BY LineInHand DEF TypeInv, TypeOK, Base, Rows
<1>2. call[r].kind \in {"IN", "OUT", "ADJUSTMENT"}
  BY LineInHand DEF TypeInv, Call
<1>3. Delta(r, Base(r)) \in Int /\ Delta(r, 0) \in Int
  BY <1>1, <1>2 DEF Delta
<1>4. Due(r) \in Int
  BY <1>1, <1>3 DEF Due
<1>5. QED
  BY <1>1, <1>3, <1>4

(* What a step may do to the request that takes it, whose article is i.     *)
StaysEven(r, i) ==
  /\ UNCHANGED <<pend, bal, call, line>> /\ Active(r)'
  /\ Due(r)' = Due(r) + (qty'[i] - qty[i])

GivesUp(r, i) ==
  /\ UNCHANGED <<bal, qty, call, line>> /\ ~Active(r)' /\ pend[r] = NoWrites /\ Due(r) = 0

Enters(r, i) ==
  \E d \in Depots : \E v \in Int :
    /\ UNCHANGED <<bal, qty, call, line>> /\ Active(r)'
    /\ pend' = [pend EXCEPT ![r][<<i, d>>] = v]
    /\ Due(r)' = Due(r) + (Held(View(r, <<i, d>>)) - v)

Commits(r, i) ==
  /\ UNCHANGED <<qty, call, line>> /\ ~Active(r)' /\ bal' = Seen(r) /\ Due(r) = 0

DepotStepOf(r, i) == StaysEven(r, i) \/ GivesUp(r, i) \/ Enters(r, i) \/ Commits(r, i)

(* What a request in hand of article i knows, and when it names a depot.    *)
Known(r, i) ==
  /\ TypeInv /\ i = Article(r) /\ i \in items /\ Active(r)
  /\ line[r] = 1 /\ Len(call[r].lines) = 1
  /\ call[r].op # "remove" => open[r]
  /\ call[r].op = "transfer" => call[r].dest \in Depots
  /\ call[r].op = "remove" => pend[r] = NoWrites
  /\ HandCurrent(r) /\ DepotCurrent(r) /\ Early(r) /\ Newborn(r)

Sure(r, i) == Known(r, i) /\ (call[r].op # "remove" => call[r].depot \in Depots)

LEMMA KnownOf ==
  ASSUME TypeInv, ApartInv, OneLine, NEW r \in Requests, Active(r), Early(r), Newborn(r),
         NEW i \in items, i = Article(r)
  PROVE  Known(r, i)
<1>1. call[r].op = "transfer" => call[r].dest \in Depots
  BY LineInHand, CallsAssumption DEF TypeInv
<1>2. PendOwn(r) /\ OpenOwn(r) /\ HandCurrent(r) /\ DepotCurrent(r)
  BY DEF ApartInv, OwnOK
<1>3. call[r].op = "remove" => pend[r] = NoWrites
  BY <1>2 DEF PendOwn, TypeInv, TypeOK, NoWrites
<1>4. QED
  BY <1>1, <1>2, <1>3, OneArticle DEF Known, OpenOwn

(* A write of a row whose balance is the one that was read.                 *)
LEMMA Entered ==
  ASSUME NEW r \in Requests, NEW i, Known(r, i), NEW d \in Depots, NEW v \in Int, NEW l \in Labels,
         WriteBalance(r, d, v, l), open[r],
         inDepot[r] = View(r, KeyAt(r, d)), l \notin {"idle", "done", "refused"}
  PROVE  /\ UNCHANGED <<bal, qty, call, line, inDepot>> /\ Active(r)' /\ pc'[r] = l
         /\ pend' = [pend EXCEPT ![r][<<i, d>>] = v]
         /\ View(r, <<i, d>>) = inDepot[r] /\ Held(View(r, <<i, d>>)) = Base(r)
         /\ Amount(r)' = Amount(r) /\ Base(r)' = Base(r)
<1>1. KeyAt(r, d) = <<i, d>>
  BY DEF KeyAt, Known
<1>2. Article(r) \in items /\ TypeOK
  BY DEF Known, TypeInv
<1>3. /\ pend' = [pend EXCEPT ![r][<<i, d>>] = v] /\ pc' = [pc EXCEPT ![r] = l]
      /\ UNCHANGED <<bal, qty, call, line, inDepot>>
  BY <1>1, <1>2 DEF WriteBalance, store, local
<1>4. Active(r)' /\ pc'[r] = l
  BY <1>2, <1>3 DEF Active, TypeOK
<1>5. Held(View(r, <<i, d>>)) = Base(r)
  BY <1>1 DEF Held, Base
<1>6. Amount(r)' = Amount(r) /\ Base(r)' = Base(r)
  BY <1>3 DEF Amount, Current, Base
<1>7. QED
  BY <1>1, <1>3, <1>4, <1>5, <1>6

LEMMA DepotMove ==
  ASSUME NEW r \in Requests, NEW i, Sure(r, i), ~Faults, Step(r), i \in items', ~Receive(r),
         ~CreateItem(r), ~RemoveDelete(r), ~DeadlockVictim(r)
  PROVE  DepotStepOf(r, i)
<1>a. TypeInv /\ TypeOK /\ i = Article(r) /\ i \in items /\ Active(r) /\ i \in Items /\ qty[i] \in Int
  BY LineInHand DEF Sure, Known, TypeInv, TypeOK
<1>k. Known(r, i)
  BY DEF Sure
<1>b. Due(r) \in Int /\ Amount(r) \in Nat /\ Base(r) \in Int /\ Delta(r, Base(r)) \in Int
  BY <1>a, DueType
<1>1. CASE Commit(r)
  <2>1. pc[r] = "commit" /\ Due(r) = 0
    BY <1>1 DEF Commit, Due
  <2>2. /\ UNCHANGED <<qty, call, line>> /\ ~Active(r)'
    BY <1>1, <1>a DEF Commit, local, Active, Refuse, TypeOK
  <2>3. CASE open[r]
    <3>1. bal' = Seen(r)
      BY <1>1, <2>3 DEF Commit, Seen
    <3>2. QED
      BY <2>1, <2>2, <3>1 DEF DepotStepOf, Commits
  <2>4. CASE ~open[r]
    <3>1. pend[r] = NoWrites /\ UNCHANGED bal
      BY <1>1, <2>4 DEF Sure, Known, Commit
    <3>2. QED
      BY <2>1, <2>2, <3>1 DEF DepotStepOf, GivesUp
  <2>5. QED
    BY <2>3, <2>4
<1>2. CASE CreateBalance(r)
  <2>1. /\ call[r].op = "create" /\ pc[r] = "credit" /\ open[r] /\ call[r].depot \in Depots
        /\ WriteBalance(r, call[r].depot, Amount(r), "commit")
    BY <1>2 DEF CreateBalance, At, Sure, Known, TypeInv, RequestOK
  <2>2. inDepot[r] = View(r, KeyAt(r, call[r].depot)) /\ inDepot[r] = NoRow
    BY <1>a, <2>1, LineInHand DEF Sure, Known, Newborn, View, NoWrites
  <2>3. Base(r) = 0
    BY <2>2 DEF Base
  <2>4. Amount(r) \in Int /\ "commit" \in Labels
    BY <1>b, <2>3 DEF Labels
  <2>5. PICK d \in Depots, v \in Int : d = call[r].depot /\ v = Amount(r)
    BY <2>1, <2>4
  <2>a. /\ WriteBalance(r, d, v, "commit") /\ inDepot[r] = View(r, KeyAt(r, d)) /\ open[r]
        /\ "commit" \in Labels /\ "commit" \notin {"idle", "done", "refused"}
    BY <2>1, <2>2, <2>4, <2>5
  <2>6. /\ UNCHANGED <<bal, qty, call, line, inDepot>> /\ Active(r)' /\ pc'[r] = "commit"
        /\ pend' = [pend EXCEPT ![r][<<i, d>>] = v]
        /\ Held(View(r, <<i, d>>)) = Base(r)
        /\ Amount(r)' = Amount(r) /\ Base(r)' = Base(r)
    BY <1>k, <2>a, Entered
  <2>7. Due(r) = Amount(r) /\ Due(r)' = 0
    BY <2>1, <2>6 DEF Due
  <2>8. Due(r)' = Due(r) + (Held(View(r, <<i, d>>)) - v)
    BY <1>b, <2>3, <2>5, <2>6, <2>7
  <2>9. QED
    BY <2>5, <2>6, <2>8 DEF DepotStepOf, Enters
<1>3. CASE RemoveRead(r)
  BY <1>3, <1>a, <1>b DEF RemoveRead,
     Sure, Known, Early, DepotStepOf, StaysEven, GivesUp, Active, Due, Amount, Current, At, Proceed, Refuse,
     TypeOK, store, local
<1>4. CASE TransferReadItem(r)
  BY <1>4, <1>a, <1>b DEF TransferReadItem,
     Sure, Known, Early, DepotStepOf, StaysEven, GivesUp, Active, Due, Amount, Current, At, Proceed, Refuse,
     TypeOK, store, local
<1>5. CASE TransferReadSource(r)
  BY <1>5, <1>a, <1>b DEF TransferReadSource, ReadBalance,
     Sure, Known, Early, DepotStepOf, StaysEven, GivesUp, Active, Due, Amount, Current, At, Proceed, Refuse,
     TypeOK, store, local
<1>6. CASE TransferDebit(r)
  <2>1. /\ call[r].op = "transfer" /\ pc[r] = "debit" /\ open[r] /\ call[r].depot \in Depots
        /\ WriteBalance(r, call[r].depot, inDepot[r] - Amount(r), "dest")
    BY <1>6 DEF TransferDebit, At, Sure, Known, TypeInv, RequestOK
  <2>2. inDepot[r] = View(r, KeyAt(r, call[r].depot))
    BY <2>1 DEF Sure, Known, DepotCurrent
  <2>3. inDepot[r] \in Int /\ Base(r) = inDepot[r]
    BY <1>a, <2>1, SentinelsAssumption DEF TypeInv, RequestOK, Base
  <2>4. inDepot[r] - Amount(r) \in Int /\ "dest" \in Labels
    BY <1>b, <2>3 DEF Labels
  <2>5. PICK d \in Depots, v \in Int : d = call[r].depot /\ v = inDepot[r] - Amount(r)
    BY <2>1, <2>4
  <2>6. /\ UNCHANGED <<bal, qty, call, line, inDepot>> /\ Active(r)' /\ pc'[r] = "dest"
        /\ pend' = [pend EXCEPT ![r][<<i, d>>] = v]
        /\ Held(View(r, <<i, d>>)) = Base(r)
        /\ Amount(r)' = Amount(r) /\ Base(r)' = Base(r)
    BY <1>k, <2>1, <2>2, <2>4, <2>5, Entered
  <2>7. Due(r) = 0 /\ Due(r)' = Amount(r)
    BY <2>1, <2>6 DEF Due
  <2>8. Due(r)' = Due(r) + (Held(View(r, <<i, d>>)) - v)
    BY <1>b, <2>3, <2>5, <2>6, <2>7
  <2>9. QED
    BY <2>5, <2>6, <2>8 DEF DepotStepOf, Enters
<1>7. CASE TransferReadDest(r)
  BY <1>7, <1>a, <1>b DEF TransferReadDest, ReadBalance,
     Sure, Known, Early, DepotStepOf, StaysEven, GivesUp, Active, Due, Amount, Current, At, Proceed, Refuse,
     TypeOK, store, local
<1>8. CASE TransferCredit(r)
  <2>1. /\ call[r].op = "transfer" /\ pc[r] = "credit" /\ open[r] /\ call[r].dest \in Depots
        /\ WriteBalance(r, call[r].dest, Base(r) + Amount(r), "journal")
    BY <1>8 DEF TransferCredit, At, Sure, Known, TypeInv, RequestOK
  <2>2. inDepot[r] = View(r, KeyAt(r, call[r].dest))
    BY <2>1 DEF Sure, Known, DepotCurrent
  <2>3. Base(r) \in Int
    BY <1>b
  <2>4. Base(r) + Amount(r) \in Int /\ "journal" \in Labels
    BY <1>b, <2>3 DEF Labels
  <2>5. PICK d \in Depots, v \in Int : d = call[r].dest /\ v = Base(r) + Amount(r)
    BY <2>1, <2>4
  <2>a. /\ WriteBalance(r, d, v, "journal") /\ inDepot[r] = View(r, KeyAt(r, d)) /\ open[r]
        /\ "journal" \in Labels /\ "journal" \notin {"idle", "done", "refused"}
    BY <2>1, <2>2, <2>4, <2>5
  <2>6. /\ UNCHANGED <<bal, qty, call, line, inDepot>> /\ Active(r)' /\ pc'[r] = "journal"
        /\ pend' = [pend EXCEPT ![r][<<i, d>>] = v]
        /\ Held(View(r, <<i, d>>)) = Base(r)
        /\ Amount(r)' = Amount(r) /\ Base(r)' = Base(r)
    BY <1>k, <2>a, Entered
  <2>7. Due(r) = Amount(r) /\ Due(r)' = 0
    BY <2>1, <2>6 DEF Due
  <2>8. Due(r)' = Due(r) + (Held(View(r, <<i, d>>)) - v)
    BY <1>b, <2>3, <2>5, <2>6, <2>7
  <2>9. QED
    BY <2>5, <2>6, <2>8 DEF DepotStepOf, Enters
<1>9. CASE TransferJournalOut(r)
  BY <1>9, <1>a, <1>b DEF TransferJournalOut, Journal,
     Sure, Known, Early, DepotStepOf, StaysEven, GivesUp, Active, Due, Amount, Current, At, Proceed, Refuse,
     TypeOK, store, local
<1>10. CASE TransferJournalIn(r)
  BY <1>10, <1>a, <1>b DEF TransferJournalIn, Journal,
     Sure, Known, Early, DepotStepOf, StaysEven, GivesUp, Active, Due, Amount, Current, At, Proceed, Refuse,
     TypeOK, store, local
<1>11. CASE MovementReadItem(r)
  BY <1>11, <1>a, <1>b DEF MovementReadItem,
     Sure, Known, Early, DepotStepOf, StaysEven, GivesUp, Active, Due, Amount, Current, At, Proceed, Refuse,
     TypeOK, store, local
<1>12. CASE MovementReadBalance(r)
  BY <1>12, <1>a, <1>b DEF MovementReadBalance, ReadBalance,
     Sure, Known, Early, DepotStepOf, StaysEven, GivesUp, Active, Due, Amount, Current, At, Proceed, Refuse,
     TypeOK, store, local
<1>13. CASE MovementJournal(r)
  BY <1>13, <1>a, <1>b DEF MovementJournal, Journal,
     Sure, Known, Early, DepotStepOf, StaysEven, GivesUp, Active, Due, Amount, Current, At, Proceed, Refuse,
     TypeOK, store, local
<1>14. CASE MovementWriteBalance(r)
  <2>1. /\ call[r].op = "movement" /\ pc[r] = "credit" /\ open[r] /\ call[r].depot \in Depots
        /\ WriteBalance(r, call[r].depot, Base(r) + Delta(r, Base(r)), "store")
    BY <1>14 DEF MovementWriteBalance, At, Sure, Known, TypeInv, RequestOK
  <2>2. inDepot[r] = View(r, KeyAt(r, call[r].depot))
    BY <2>1, <1>a, SentinelsAssumption DEF Sure, Known, DepotCurrent
  <2>3. Base(r) \in Int
    BY <1>b
  <2>4. Base(r) + Delta(r, Base(r)) \in Int /\ "store" \in Labels
    BY <1>b, <2>3 DEF Labels
  <2>5. PICK d \in Depots, v \in Int : d = call[r].depot /\ v = Base(r) + Delta(r, Base(r))
    BY <2>1, <2>4
  <2>6. /\ UNCHANGED <<bal, qty, call, line, inDepot>> /\ Active(r)' /\ pc'[r] = "store"
        /\ pend' = [pend EXCEPT ![r][<<i, d>>] = v]
        /\ Held(View(r, <<i, d>>)) = Base(r)
        /\ Amount(r)' = Amount(r) /\ Base(r)' = Base(r)
    BY <1>k, <2>1, <2>2, <2>4, <2>5, Entered
  <2>7. Due(r) = 0 /\ Due(r)' = -Delta(r, Base(r))
    BY <2>1, <2>6, <1>b DEF Due, Delta
  <2>8. Due(r)' = Due(r) + (Held(View(r, <<i, d>>)) - v)
    BY <1>b, <2>3, <2>5, <2>6, <2>7
  <2>9. QED
    BY <2>5, <2>6, <2>8 DEF DepotStepOf, Enters
<1>15. CASE MovementStoreItem(r)
  <2>1. /\ call[r].op = "movement" /\ pc[r] = "store" /\ onHand[r] = qty[i]
        /\ qty' = [qty EXCEPT ![i] = onHand[r] + Delta(r, Base(r))] /\ pc' = [pc EXCEPT ![r] = "commit"]
        /\ UNCHANGED <<pend, bal, call, line>>
    BY <1>15, <1>a DEF MovementStoreItem, At, Proceed, StoreQuantity, Sure, Known, HandCurrent, local
  <2>2. qty'[i] = qty[i] + Delta(r, Base(r)) /\ pc'[r] = "commit"
    BY <1>a, <2>1 DEF TypeOK
  <2>3. Due(r) = -Delta(r, Base(r)) /\ Due(r)' = 0
    BY <2>1, <2>2 DEF Due
  <2>4. Due(r)' = Due(r) + (qty'[i] - qty[i])
    BY <1>a, <1>b, <2>2, <2>3
  <2>5. QED
    BY <2>1, <2>2, <2>4 DEF DepotStepOf, StaysEven, Active
<1>16. CASE SaleReadItem(r)
  BY <1>16, <1>a, <1>b DEF SaleReadItem,
     Sure, Known, Early, DepotStepOf, StaysEven, GivesUp, Active, Due, Amount, Current, At, Proceed, Refuse,
     TypeOK, store, local
<1>17. CASE SaleReadBalance(r)
  BY <1>17, <1>a, <1>b DEF SaleReadBalance, ReadBalance,
     Sure, Known, Early, DepotStepOf, StaysEven, GivesUp, Active, Due, Amount, Current, At, Proceed, Refuse,
     TypeOK, store, local
<1>18. CASE SaleDebit(r)
  <2>1. /\ call[r].op = "sale" /\ pc[r] = "debit" /\ open[r] /\ call[r].depot \in Depots
        /\ WriteBalance(r, call[r].depot, inDepot[r] - Amount(r), "journal")
    BY <1>18 DEF SaleDebit, At, Sure, Known, TypeInv, RequestOK
  <2>2. inDepot[r] = View(r, KeyAt(r, call[r].depot))
    BY <2>1 DEF Sure, Known, DepotCurrent
  <2>3. inDepot[r] \in Int /\ Base(r) = inDepot[r]
    BY <1>a, <2>1, SentinelsAssumption DEF TypeInv, RequestOK, Base
  <2>4. inDepot[r] - Amount(r) \in Int /\ "journal" \in Labels
    BY <1>b, <2>3 DEF Labels
  <2>5. PICK d \in Depots, v \in Int : d = call[r].depot /\ v = inDepot[r] - Amount(r)
    BY <2>1, <2>4
  <2>6. /\ UNCHANGED <<bal, qty, call, line, inDepot>> /\ Active(r)' /\ pc'[r] = "journal"
        /\ pend' = [pend EXCEPT ![r][<<i, d>>] = v]
        /\ Held(View(r, <<i, d>>)) = Base(r)
        /\ Amount(r)' = Amount(r) /\ Base(r)' = Base(r)
    BY <1>k, <2>1, <2>2, <2>4, <2>5, Entered
  <2>7. Due(r) = 0 /\ Due(r)' = Amount(r)
    BY <2>1, <2>6 DEF Due
  <2>8. Due(r)' = Due(r) + (Held(View(r, <<i, d>>)) - v)
    BY <1>b, <2>3, <2>5, <2>6, <2>7
  <2>9. QED
    BY <2>5, <2>6, <2>8 DEF DepotStepOf, Enters
<1>19. CASE SaleJournal(r)
  BY <1>19, <1>a, <1>b DEF SaleJournal, Journal,
     Sure, Known, Early, DepotStepOf, StaysEven, GivesUp, Active, Due, Amount, Current, At, Proceed, Refuse,
     TypeOK, store, local
<1>20. CASE SaleStoreItem(r)
  <2>1. /\ call[r].op = "sale" /\ pc[r] = "store" /\ onHand[r] = qty[i]
        /\ qty' = [qty EXCEPT ![i] = onHand[r] - Amount(r)]
        /\ \E l \in {"number", "commit"} : pc' = [pc EXCEPT ![r] = l]
        /\ UNCHANGED <<pend, bal, call>> /\ line' = [line EXCEPT ![r] = NextLine(r)]
    BY <1>20, <1>a DEF SaleStoreItem, At, Proceed, StoreQuantity, Sure, Known, HandCurrent, local
  <2>2. qty'[i] = qty[i] - Amount(r) /\ pc'[r] \in {"number", "commit"} /\ UNCHANGED line
    BY <1>a, <2>1 DEF TypeOK, Sure, Known, NextLine
  <2>3. Due(r) = Amount(r) /\ Due(r)' = 0
    BY <2>1, <2>2 DEF Due
  <2>4. Due(r)' = Due(r) + (qty'[i] - qty[i])
    BY <1>a, <1>b, <2>2, <2>3
  <2>5. QED
    BY <2>1, <2>2, <2>4 DEF DepotStepOf, StaysEven, Active
<1>21. CASE SaleNumber(r)
  BY <1>21, <1>a, <1>b DEF SaleNumber,
     Sure, Known, Early, DepotStepOf, StaysEven, GivesUp, Active, Due, Amount, Current, At, Proceed, Refuse,
     TypeOK, store, local
<1>22. CASE SaleInvoice(r)
  BY <1>22, <1>a, <1>b DEF SaleInvoice,
     Sure, Known, Early, DepotStepOf, StaysEven, GivesUp, Active, Due, Amount, Current, At, Proceed, Refuse,
     TypeOK, store, local
<1>23. CASE Fail(r)
  BY <1>23, <1>a, <1>b DEF Fail,
     Sure, Known, Early, DepotStepOf, StaysEven, GivesUp, Active, Due, Amount, Current, At, Proceed, Refuse,
     TypeOK, store, local
<1>24. CASE Expire(r)
  BY <1>24, <1>a, <1>b DEF Expire,
     Sure, Known, Early, DepotStepOf, StaysEven, GivesUp, Active, Due, Amount, Current, At, Proceed, Refuse,
     TypeOK, store, local
<1>25. QED
  BY <1>1, <1>2, <1>3, <1>4, <1>5, <1>6, <1>7, <1>8, <1>9, <1>10, <1>11, <1>12, <1>13, <1>14,
     <1>15, <1>16, <1>17, <1>18, <1>19, <1>20, <1>21, <1>22, <1>23, <1>24 DEF Step, Handler

LEMMA SeenType ==
  ASSUME TypeOK, NEW r \in Requests
  PROVE  /\ Seen(r) \in [Keys -> Rows]
         /\ \A i \in Items : \A d \in Depots : Seen(r)[<<i, d>>] = View(r, <<i, d>>)
BY DEF Seen, View, TypeOK, Keys

(* A request without writes sees the rows as they are.                     *)
LEMMA SeesRows ==
  ASSUME TypeOK, NEW r \in Requests, pend[r] = NoWrites, NEW i \in Items
  PROVE  RowTotal(Seen(r), i) = RowTotal(bal, i)
<1>1. \A d \in Depots : bal[<<i, d>>] = Seen(r)[<<i, d>>]
  BY DEF Seen, View, NoWrites, Keys
<1>2. QED
  BY <1>1, RowTotalSame

(* The article in hand.                                                    *)
LEMMA BookHere ==
  ASSUME Books, DepotInv, InDepots, ~Faults, NEW r \in Requests, Step(r), ~Receive(r), ~CreateItem(r),
         NEW i \in items, i \in items', i = Article(r), TypeOK'
  PROVE  Book(i)'
<1>a. /\ TypeInv /\ TypeOK /\ ApartInv /\ Active(r) /\ i \in Items /\ qty[i] \in Int /\ qty'[i] \in Int
      /\ Due(r) \in Int /\ ~RemoveDelete(r) /\ ~DeadlockVictim(r)
  BY StepWrites, DueType, NoVictim DEF Books, TypeInv, TypeOK, ApartInv, OwnOK, RemoveDelete
<1>1. Sure(r, i)
  <2>1. Known(r, i)
    BY <1>a, OneDepot, KnownOf DEF DepotInv
  <2>2. QED
    BY <1>a, <2>1, OneDepot DEF Sure
<1>2. DepotStepOf(r, i)
  BY <1>1, <1>a, DepotMove
<1>3. UNCHANGED <<call, line>> /\ Article(r)' = i
  BY <1>2 DEF DepotStepOf, StaysEven, GivesUp, Enters, Commits, Article, Current
<1>4. \A o \in Requests \ {r} : Active(o)' => Article(o)' # i
  <2>1. SUFFICES ASSUME NEW o \in Requests \ {r}, Active(o)' PROVE Article(o)' # i
    OBVIOUS
  <2>2. Active(o) /\ Article(o)' = Article(o)
    BY <1>a, <1>3, <2>1, StepAlone DEF OthersKept, Active, Article, Current
  <2>3. Article(o) \in Articles(call[o]) /\ i \in Articles(call[r])
    BY <1>a, ArticleInHand
  <2>4. QED
    BY <1>a, <2>2, <2>3 DEF ApartInv, AloneOn
<1>5. RowTotal(Seen(r), i) + Due(r) = qty[i] /\ RowTotal(Seen(r), i) \in Int
  BY <1>a, SeenType, RowTotalType DEF DepotInv, Book
<1>6. Active(r)' => ~AtRest(i)'
  BY <1>3, <1>a, ArticleInHand DEF AtRest
<1>7. Seen(r) \in [Keys -> Rows] /\ Seen(r)' \in [Keys -> Rows]
  <2>1. pend' \in [Requests -> [Keys -> Rows]] /\ bal' \in [Keys -> Rows]
    BY DEF TypeOK
  <2>2. QED
    BY <1>a, <2>1, SeenType DEF Seen, View
<1>8. CASE StaysEven(r, i)
  <2>1. Seen(r)' = Seen(r) /\ Active(r)' /\ Due(r)' = Due(r) + (qty'[i] - qty[i])
    BY <1>8 DEF StaysEven, Seen, View
  <2>3. RowTotal(Seen(r)', i) + Due(r)' = qty'[i]
    BY <1>5, <1>a, <2>1
  <2>4. QED
    BY <1>4, <1>6, <2>1, <2>3 DEF Book
<1>9. CASE GivesUp(r, i)
  <2>1. RowTotal(bal', i) = qty'[i] /\ ~Active(r)'
    BY <1>9, <1>a, <1>5, SeesRows DEF GivesUp
  <2>2. QED
    BY <1>4, <2>1 DEF Book
<1>10. CASE Enters(r, i)
  <2>1. PICK d \in Depots, v \in Int :
          /\ UNCHANGED <<bal, qty>> /\ Active(r)' /\ pend' = [pend EXCEPT ![r][<<i, d>>] = v]
          /\ Due(r)' = Due(r) + (Held(View(r, <<i, d>>)) - v)
    BY <1>10 DEF Enters
  <2>2. PICK w \in [Keys -> Rows] : w = Seen(r)'
    BY <1>7
  <2>3. \A k \in Keys : w[k] = IF k = <<i, d>> THEN v ELSE Seen(r)[k]
    BY <1>a, <2>1, <2>2, SentinelsAssumption DEF Seen, View, TypeOK
  <2>4. w[<<i, d>>] = v /\ \A e \in Depots \ {d} : Seen(r)[<<i, e>>] = w[<<i, e>>]
    BY <1>a, <2>3 DEF Keys
  <2>5. RowTotal(w, i) = RowTotal(Seen(r), i) + (Held(w[<<i, d>>]) - Held(Seen(r)[<<i, d>>]))
    <3>1. PICK z \in [Keys -> Rows] : z = Seen(r)
      BY <1>7
    <3>2. \A e \in Depots \ {d} : z[<<i, e>>] = w[<<i, e>>]
      BY <2>4, <3>1
    <3>3. RowTotal(w, i) = RowTotal(z, i) + (Held(w[<<i, d>>]) - Held(z[<<i, d>>]))
      BY <1>a, <3>2, RowTotalSet
    <3>4. QED
      BY <3>1, <3>3
  <2>6. Seen(r)[<<i, d>>] = View(r, <<i, d>>) /\ Held(w[<<i, d>>]) = v
    BY <1>a, <2>4, SeenType, SentinelsAssumption DEF Held
  <2>7. Held(View(r, <<i, d>>)) \in Int
    BY <1>a, <1>7, <2>6, HeldType DEF Keys
  <2>8. RowTotal(w, i) + Due(r)' = qty'[i]
    BY <1>5, <1>a, <2>1, <2>5, <2>6, <2>7
  <2>9. QED
    BY <1>4, <1>6, <2>1, <2>2, <2>8 DEF Book
<1>11. CASE Commits(r, i)
  <2>1. RowTotal(bal', i) = qty'[i] /\ ~Active(r)'
    BY <1>11, <1>a, <1>5 DEF Commits
  <2>2. QED
    BY <1>4, <2>1 DEF Book
<1>12. QED
  BY <1>2, <1>8, <1>9, <1>10, <1>11 DEF DepotStepOf

(* A new article has what its creation is about to put into its depot.     *)
LEMMA BookCreated ==
  ASSUME Books, DepotInv, RowsInv, InDepots, ~Faults, NEW r \in Requests, CreateItem(r),
         NEW i, i = Article(r)
  PROVE  Book(i)'
<1>a. TypeInv /\ TypeOK /\ ApartInv /\ i \in Items /\ Amount(r) \in Nat /\ Step(r) /\ ~Receive(r)
  BY LineInHand DEF Books, TypeInv, CreateItem, At, Receive, Step, Handler
<1>1. /\ call[r].op = "create" /\ pc[r] = "item" /\ UNCHANGED <<call, line, bal, pend>>
      /\ pc' = [pc EXCEPT ![r] = IF call[r].depot # NoDepot /\ Amount(r) > 0 THEN "credit" ELSE "commit"]
      /\ qty' = [qty EXCEPT ![i] = Amount(r)]
  BY DEF CreateItem, At, Proceed, StoreQuantity, local
<1>2. call[r].depot # NoDepot
  BY <1>a, <1>1, OneDepot, SentinelsAssumption
<1>3. Active(r) /\ Active(r)' /\ qty'[i] = Amount(r) /\ Article(r)' = i
  BY <1>a, <1>1 DEF Active, TypeOK, Article, Current
<1>4. Due(r)' = Amount(r)
  BY <1>a, <1>1, <1>2 DEF Due, Amount, Current, TypeOK
<1>5. i \notin items
  BY <1>1 DEF Books, JournalInv, Unborn, Creating
<1>6. RowTotal(Seen(r)', i) = 0
  <2>1. \A d \in Depots : Seen(r)'[<<i, d>>] = NoRow
    BY <1>a, <1>1, <1>5 DEF RowsInv, Seen, View, Keys
  <2>2. QED
    BY <2>1, RowTotalNone
<1>7. \A o \in Requests \ {r} : Active(o)' => Article(o)' # i
  <2>1. SUFFICES ASSUME NEW o \in Requests \ {r}, Active(o)' PROVE Article(o)' # i
    OBVIOUS
  <2>2. Active(o) /\ Article(o)' = Article(o)
    BY <1>a, <1>1, <2>1, StepAlone DEF OthersKept, Active, Article, Current
  <2>3. Article(o) \in Articles(call[o]) /\ i \in Articles(call[r])
    BY <1>a, ArticleInHand
  <2>4. QED
    BY <1>a, <1>3, <2>2, <2>3 DEF ApartInv, AloneOn
<1>8. ~AtRest(i)'
  BY <1>1, <1>3, <1>a, ArticleInHand DEF AtRest
<1>9. QED
  BY <1>3, <1>4, <1>6, <1>7, <1>8, <1>a DEF Book

(* What another request sees of its article, and owes to it, stays.        *)
LEMMA SeesSame ==
  ASSUME Books, ~Faults, NEW r \in Requests, Step(r), NEW o \in Requests \ {r}, Active(o)
  PROVE  /\ Article(o)' = Article(o) /\ Due(o)' = Due(o)
         /\ RowTotal(Seen(o)', Article(o)) = RowTotal(Seen(o), Article(o))
<1>1. /\ pc'[o] = pc[o] /\ call'[o] = call[o] /\ line'[o] = line[o]
      /\ inDepot'[o] = inDepot[o] /\ pend'[o] = pend[o]
  BY StepAlone DEF Books, TypeInv, OthersKept
<1>2. Article(o)' = Article(o) /\ Amount(o)' = Amount(o)
  BY <1>1 DEF Article, Amount, Current
<1>3. Due(o)' = Due(o)
  BY <1>1, <1>2 DEF Due, Delta, Base
<1>4. \A d \in Depots : bal'[KeyAt(o, d)] = bal[KeyAt(o, d)] /\ KeyAt(o, d) \in Keys
  BY OthersShelf, LineInHand DEF Books, TypeInv
<1>5. \A d \in Depots : Seen(o)[<<Article(o), d>>] = Seen(o)'[<<Article(o), d>>]
  BY <1>1, <1>4 DEF Seen, View, KeyAt
<1>6. RowTotal(Seen(o)', Article(o)) = RowTotal(Seen(o), Article(o))
  BY <1>5, RowTotalSame
<1>7. QED
  BY <1>2, <1>3, <1>6

(* Another article, or one that a request arrives for.                     *)
LEMMA BookElsewhere ==
  ASSUME Books, DepotInv, InDepots, Apart, ~Faults, NEW r \in Requests, Step(r),
         NEW i \in items', TypeOK', i # Article(r) \/ Receive(r)
  PROVE  Book(i)'
<1>a. TypeInv /\ TypeOK /\ ApartInv /\ i \in Items /\ PendOwn(r) /\ OthersKept(r)
  BY StepAlone DEF Books, TypeInv, ApartInv, OwnOK, TypeOK
<1>b. /\ line'[r] \in 1 .. Len(call'[r].lines) /\ call'[r] \in Calls /\ Len(call'[r].lines) = 1
      /\ line'[r] = 1 /\ line[r] = 1
  <2>1. line'[r] \in 1 .. Len(call'[r].lines) /\ call'[r] \in Calls
    BY DEF TypeOK
  <2>2. Len(call'[r].lines) = 1
    BY <2>1 DEF InDepots
  <2>3. line'[r] \in 1 .. 1
    BY <2>1, <2>2
  <2>4. line'[r] = 1
    BY ONLY <2>3
  <2>5. QED
    BY <1>a, <2>1, <2>2, <2>4, OneDepot, OneArticle
<1>1. CASE ~Receive(r)
  <2>1. /\ Active(r) /\ qty'[i] = qty[i] /\ i \in items
        /\ \A k \in Keys : k[1] \notin Articles(call[r]) => bal'[k] = bal[k]
    BY <1>1, <1>a, StepWrites
  <2>2. Articles(call[r]) = {Article(r)} /\ UNCHANGED call
    BY <1>1, <1>a, OneDepot, OneArticle, StepCall
  <2>3. RowTotal(bal', i) = RowTotal(bal, i)
    <3>1. \A d \in Depots : bal[<<i, d>>] = bal'[<<i, d>>]
      BY <1>1, <1>a, <2>1, <2>2 DEF Keys
    <3>2. QED
      BY <3>1, RowTotalSame
  <2>4. AtRest(i)' => AtRest(i)
    BY <1>1, <1>a, <2>2 DEF AtRest, Active, OthersKept
  <2>5. Article(r)' # i
    BY <1>1, <1>b, <2>2 DEF Article, Current
  <2>6. ASSUME NEW o \in Requests, Active(o)', Article(o)' = i
        PROVE  RowTotal(Seen(o)', i) + Due(o)' = qty'[i]
    <3>1. o # r /\ Active(o)
      BY <1>a, <2>5, <2>6 DEF OthersKept, Active
    <3>2. /\ Article(o)' = Article(o) /\ Due(o)' = Due(o)
          /\ RowTotal(Seen(o)', Article(o)) = RowTotal(Seen(o), Article(o))
      BY <3>1, SeesSame
    <3>3. RowTotal(Seen(o), i) + Due(o) = qty[i]
      BY <2>1, <2>6, <3>1, <3>2 DEF DepotInv, Book
    <3>4. QED
      BY <2>1, <2>6, <3>2, <3>3
  <2>7. QED
    BY <2>1, <2>3, <2>4, <2>6 DEF DepotInv, Book
<1>2. CASE Receive(r)
  <2>1. /\ UNCHANGED <<items, qty, bal, pend, line>> /\ pc[r] = "idle" /\ pc'[r] = "item"
        /\ \A o \in Requests : Active(o) => Articles(call[o]) \cap Articles(call'[r]) = {}
    BY <1>2, <1>a DEF Receive, TypeOK
  <2>2. i \in items /\ pend[r] = NoWrites /\ ~Active(r)
    BY <1>a, <2>1, NothingPends DEF Active
  <2>3. AtRest(i)' => AtRest(i)
    BY <1>a, <2>2 DEF AtRest, Active, OthersKept
  <2>4. ASSUME NEW o \in Requests \ {r}, Active(o)', Article(o)' = i
        PROVE  RowTotal(Seen(o)', i) + Due(o)' = qty'[i]
    <3>1. Active(o)
      BY <1>a, <2>4 DEF OthersKept, Active
    <3>2. /\ Article(o)' = Article(o) /\ Due(o)' = Due(o)
          /\ RowTotal(Seen(o)', Article(o)) = RowTotal(Seen(o), Article(o))
      BY <3>1, SeesSame
    <3>3. RowTotal(Seen(o), i) + Due(o) = qty[i]
      BY <2>2, <2>4, <3>1, <3>2 DEF DepotInv, Book
    <3>4. QED
      BY <2>1, <2>4, <3>2, <3>3
  <2>5. Article(r)' = i => RowTotal(Seen(r)', i) + Due(r)' = qty'[i]
    <3>1. SUFFICES ASSUME Article(r)' = i PROVE RowTotal(Seen(r)', i) + Due(r)' = qty'[i]
      OBVIOUS
    <3>2. i \in Articles(call'[r])
      <4>1. call'[r].lines \in Seq(Line)
        BY <1>b, CallsAssumption DEF Call
      <4>2. 1 \in DOMAIN call'[r].lines /\ i = call'[r].lines[1].item
        BY <1>b, <3>1, <4>1 DEF Article, Current
      <4>3. QED
        BY <4>2 DEF Articles
    <3>3. AtRest(i)
      BY <2>1, <3>2 DEF AtRest
    <3>4. RowTotal(Seen(r), i) = qty[i] /\ qty[i] \in Int
      BY <1>a, <2>2, <3>3, SeesRows DEF DepotInv, Book, TypeOK
    <3>5. Seen(r)' = Seen(r)
      BY <2>1 DEF Seen, View
    <3>6. Due(r)' = 0
      BY <2>1 DEF Due
    <3>7. QED
      BY <2>1, <3>4, <3>5, <3>6
  <2>6. QED
    BY <2>1, <2>2, <2>3, <2>4, <2>5 DEF DepotInv, Book
<1>3. QED
  BY <1>1, <1>2

LEMMA DepotInit == Init /\ InDepots => DepotInv
<1> SUFFICES ASSUME Init, InDepots PROVE DepotInv
  OBVIOUS
<1>1. \A r \in Requests : Early(r) /\ Newborn(r) /\ ~Active(r)
  BY DEF Init, Early, Newborn, Active
<1>2. ASSUME NEW i \in items PROVE qty[i] = RowTotal(bal, i)
  <2>1. i \in OpeningItems /\ qty = OpeningQuantity /\ bal = OpeningBalance
    BY <1>2 DEF Init
  <2>2. OpeningQuantity[i] = RowTotal(OpeningBalance, i)
    BY <2>1 DEF InDepots, RowTotal
  <2>3. QED
    BY <2>1, <2>2
<1>3. QED
  BY <1>1, <1>2 DEF DepotInv, Book

DepotsInv == Orderly /\ InDepots => DepotInv

LEMMA DepotsStep ==
  /\ StockInv /\ JournalInv /\ FiledInv /\ OrderlyInv /\ RowsInv /\ DepotsInv /\ TypeOK' /\ [Next]_vars
  => DepotsInv'
<1> SUFFICES ASSUME StockInv, JournalInv, FiledInv, OrderlyInv, RowsInv, DepotInv, Orderly, InDepots,
                    TypeOK', [Next]_vars
             PROVE  DepotInv'
  BY DEF DepotsInv, Orderly, InDepots
<1>a. Books /\ TypeInv /\ ApartInv /\ Apart /\ ~Faults
  BY DEF StockInv, OrderlyInv, Orderly, Books
<1>1. CASE UNCHANGED vars
  <2>1. UNCHANGED <<items, qty, bal, pend, pc, call, line, inDepot>>
    BY <1>1 DEF vars, store, local
  <2>2. \A r : /\ Active(r)' <=> Active(r)
               /\ Article(r)' = Article(r) /\ Amount(r)' = Amount(r) /\ Base(r)' = Base(r)
               /\ Seen(r)' = Seen(r)
               /\ \A d : KeyAt(r, d)' = KeyAt(r, d)
    BY <2>1 DEF Active, Article, Amount, Current, Base, Seen, View, KeyAt
  <2>3. \A r \in Requests : Early(r)' /\ Newborn(r)'
    BY <2>1, <2>2 DEF DepotInv, Early, Newborn
  <2>4. \A r \in Requests : Due(r)' = Due(r)
    BY <2>1, <2>2 DEF Due, Delta
  <2>5. ASSUME NEW i \in items' PROVE Book(i)'
    <3>1. Book(i)
      BY <2>1 DEF DepotInv
    <3>2. AtRest(i)' => AtRest(i)
      BY <2>1, <2>2 DEF AtRest
    <3>3. \A r \in Requests : Active(r)' /\ Article(r)' = i => RowTotal(Seen(r)', i) + Due(r)' = qty'[i]
      BY <2>1, <2>2, <2>4, <3>1 DEF Book
    <3>4. AtRest(i)' => qty'[i] = RowTotal(bal', i)
      BY <2>1, <3>1, <3>2 DEF Book
    <3>5. QED
      BY <3>3, <3>4 DEF Book
  <2>6. QED
    BY <2>3, <2>5 DEF DepotInv
<1>2. CASE \E r \in Requests : Step(r)
  <2>1. PICK r \in Requests : Step(r)
    BY <1>2
  <2>2. Early(r)' /\ Newborn(r)'
    BY <1>a, <2>1, OneDepot, EarlyStep, NewbornStep DEF ApartInv, OwnOK, StockInv, DepotInv
  <2>3. \A o \in Requests \ {r} : Early(o)' /\ Newborn(o)'
    BY <1>a, <2>1, NewbornKept DEF DepotInv
  <2>4. ASSUME NEW i \in items' PROVE Book(i)'
    <3>1. CASE i # Article(r) \/ Receive(r)
      BY <1>a, <2>1, <3>1, BookElsewhere
    <3>2. CASE i = Article(r) /\ CreateItem(r)
      BY <1>a, <3>2, BookCreated
    <3>3. CASE i = Article(r) /\ ~Receive(r) /\ ~CreateItem(r)
      <4>1. i \in items
        <5>1. CASE RemoveDelete(r)
          BY <3>3, <5>1 DEF RemoveDelete
        <5>2. CASE ~RemoveDelete(r)
          BY <1>a, <2>1, <3>3, <5>2, StepBooks DEF TypeInv
        <5>3. QED
          BY <5>1, <5>2
      <4>2. QED
        BY <1>a, <2>1, <3>3, <4>1, BookHere
    <3>4. QED
      BY <3>1, <3>2, <3>3
  <2>5. QED
    BY <2>2, <2>3, <2>4 DEF DepotInv
<1>3. QED
  BY <1>1, <1>2 DEF Next, AllAnswered, Step

(* DepotsAccount for every instance: when every call names its depot, what *)
(* the depots hold of an article at rest is what is on hand, after any     *)
(* number of creations, movements, sales, transfers, refusals and          *)
(* deletions that do not overlap on it and do not fail.                    *)
THEOREM DepotsHoldStock == Spec => []DepotsAccount
<1> DEFINE Inv == StockInv /\ JournalInv /\ FiledInv /\ OrderlyInv /\ RowsInv /\ DepotsInv
<1>1. Init => Inv
  BY StockInit, JournalInvInit, FiledInit, ApartInit, CreationInit, LedgerInit, RowsInit, DepotInit
     DEF OrderlyInv, DepotsInv
<1>2. Inv /\ [Next]_vars => Inv'
  <2> SUFFICES ASSUME Inv, [Next]_vars PROVE Inv'
    OBVIOUS
  <2>1. StockInv' /\ TypeOK' /\ JournalInv'
    BY StockStep, JournalStep DEF StockInv, TypeInv
  <2>2. FiledInv' /\ OrderlyInv'
    BY OrderlyStep DEF StockInv
  <2>3. RowsInv'
    <3>1. CASE UNCHANGED vars
      BY <3>1 DEF RowsInv, vars, store
    <3>2. CASE \E r \in Requests : Step(r)
      BY <3>2, RowsStep DEF StockInv
    <3>3. QED
      BY <3>1, <3>2 DEF Next, AllAnswered, Step
  <2>4. DepotsInv'
    BY <2>1, DepotsStep
  <2>5. QED
    BY <2>1, <2>2, <2>3, <2>4
<1>3. Inv => DepotsAccount
  BY TotalsAre DEF DepotsInv, DepotInv, Book, DepotsAccount
<1>4. QED
  BY <1>1, <1>2, <1>3, PTL DEF Spec

-----------------------------------------------------------------------------
(* The refinement of AbstractStock.  What a request has written and not    *)
(* committed is known from what it has read, which is still so.            *)
DepotRow(r) == bal[KeyAt(r, call[r].depot)]
DestRow(r)  == bal[KeyAt(r, call[r].dest)]

Wrote(r, d, v) == [NoWrites EXCEPT ![KeyAt(r, d)] = v]
Debited(r)     == Wrote(r, call[r].depot, DepotRow(r) - Amount(r))

CreateOK(r) ==
  /\ pc[r] = "credit" => Amount(r) > 0 /\ call[r].depot \in Depots
  /\ pc[r] \in {"credit", "commit"} => Article(r) \in items /\ qty[Article(r)] = Amount(r)
  /\ pc[r] = "commit" =>
       pend[r] = IF call[r].depot = NoDepot \/ Amount(r) = 0
                 THEN NoWrites ELSE Wrote(r, call[r].depot, Amount(r))

MovementOK(r) ==
  /\ call[r].depot = NoDepot \/ pc[r] \in {"journal", "credit"} => pend[r] = NoWrites
  /\ call[r].depot # NoDepot /\ pc[r] \in {"store", "commit"} =>
       inDepot[r] = DepotRow(r) /\ pend[r] = Wrote(r, call[r].depot, Base(r) + Delta(r, Base(r)))
  /\ pc[r] = "commit" => qty[Article(r)] = onHand[r] + Delta(r, Base(r))

SaleOK(r) ==
  /\ call[r].depot = NoDepot \/ pc[r] = "debit" => pend[r] = NoWrites
  /\ call[r].depot # NoDepot /\ pc[r] \in {"journal", "store", "number", "invoice", "commit"} =>
       DepotRow(r) \in Int /\ pend[r] = Debited(r)
  /\ pc[r] \in {"number", "invoice", "commit"} => qty[Article(r)] = onHand[r] - Amount(r)

TransferOK(r) ==
  /\ pc[r] = "debit" => pend[r] = NoWrites
  /\ pc[r] \in {"dest", "credit", "journal", "journalIn", "commit"} =>
       DepotRow(r) \in Int /\ DepotRow(r) >= Amount(r)
  /\ pc[r] \in {"dest", "credit"} => pend[r] = Debited(r)
  /\ pc[r] \in {"journal", "journalIn", "commit"} =>
       pend[r] = IF call[r].depot = call[r].dest
                 THEN Wrote(r, call[r].depot, DepotRow(r))
                 ELSE [Debited(r) EXCEPT ![KeyAt(r, call[r].dest)] = Held(DestRow(r)) + Amount(r)]

PendOK(r) ==
  Active(r) => /\ call[r].op = "create" => CreateOK(r)
               /\ call[r].op = "movement" => MovementOK(r)
               /\ call[r].op = "sale" => SaleOK(r)
               /\ call[r].op = "transfer" => TransferOK(r)
               /\ call[r].op = "remove" => pc[r] \in {"item", "delete"}

WritesInv == \A r \in Requests : Early(r) /\ Newborn(r) /\ PendOK(r)

LEMMA SameRows ==
  ASSUME NEW r, UNCHANGED <<call, line, bal, inDepot>>
  PROVE  /\ Article(r)' = Article(r) /\ Amount(r)' = Amount(r) /\ Base(r)' = Base(r)
         /\ Delta(r, Base(r))' = Delta(r, Base(r))
         /\ \A d : KeyAt(r, d)' = KeyAt(r, d)
         /\ DepotRow(r)' = DepotRow(r) /\ DestRow(r)' = DestRow(r)
         /\ \A d, v : Wrote(r, d, v)' = Wrote(r, d, v)
         /\ Debited(r)' = Debited(r)
<1>1. Article(r)' = Article(r) /\ Amount(r)' = Amount(r) /\ Base(r)' = Base(r)
  BY DEF Article, Amount, Current, Base
<1>2. \A d : KeyAt(r, d)' = KeyAt(r, d)
  BY <1>1 DEF KeyAt
<1>3. Delta(r, Base(r))' = Delta(r, Base(r))
  BY <1>1 DEF Delta
<1>4. DepotRow(r)' = DepotRow(r) /\ DestRow(r)' = DestRow(r)
  BY <1>2 DEF DepotRow, DestRow
<1>5. \A d, v : Wrote(r, d, v)' = Wrote(r, d, v)
  BY <1>2 DEF Wrote
<1>6. Debited(r)' = Debited(r)
  BY <1>1, <1>4, <1>5 DEF Debited
<1>7. QED
  BY <1>1, <1>2, <1>3, <1>4, <1>5, <1>6

(* The first write of a request.                                           *)
LEMMA FirstWrite ==
  ASSUME TypeOK, NEW r \in Requests, pend[r] = NoWrites, NEW d \in Depots, NEW v,
         pend' = [pend EXCEPT ![r][<<Article(r), d>>] = v]
  PROVE  pend'[r] = Wrote(r, d, v)
BY DEF TypeOK, Wrote, KeyAt

(* The row of a request without writes is as it is.                        *)
LEMMA RowSeen ==
  ASSUME TypeOK, NEW r \in Requests, pend[r] = NoWrites, NEW d \in Depots
  PROVE  View(r, KeyAt(r, d)) = bal[KeyAt(r, d)]
BY LineInHand DEF View, NoWrites

(* A request's steps keep what its own writes are.                          *)
LEMMA PendMove ==
  ASSUME NEW r \in Requests, NEW i, Known(r, i), Sound(r), ~Faults, Step(r), i \in items', ~Receive(r),
         ~CreateItem(r), ~RemoveDelete(r), ~DeadlockVictim(r), PendOK(r)
  PROVE  PendOK(r)'
<1>a. /\ TypeInv /\ TypeOK /\ i = Article(r) /\ i \in items /\ Active(r) /\ i \in Items /\ qty[i] \in Int
      /\ onHand[r] \in Int
  BY LineInHand DEF Known, TypeInv, TypeOK
<1>b. /\ Amount(r) \in Nat /\ Base(r) \in Int /\ Delta(r, Base(r)) \in Int
      /\ call[r].depot \in Depots \cup {NoDepot} /\ NoDepot \notin Depots
  BY <1>a, DueType, LineInHand, SentinelsAssumption DEF Call
<1>1. CASE Commit(r)
  BY <1>1, <1>a, <1>b DEF Commit,
     Known, Early, Active, At, Proceed, Refuse, TypeOK, store, local, PendOK, CreateOK, MovementOK,
     SaleOK, TransferOK, DepotRow, DestRow, KeyAt, Article, Current, Amount, Wrote, Debited, Base, Delta
<1>2. CASE CreateBalance(r)
  <2>1. /\ call[r].op = "create" /\ pc[r] = "credit" /\ open[r] /\ call[r].depot \in Depots
        /\ WriteBalance(r, call[r].depot, Amount(r), "commit")
    BY <1>2 DEF CreateBalance, At, Known, TypeInv, RequestOK
  <2>2. UNCHANGED <<items, qty, bal, onHand>>
    BY <2>1 DEF WriteBalance, store, local
  <2>3. pend[r] = NoWrites
    BY <1>a, <2>1 DEF Known, Newborn, PendOK, MovementOK, SaleOK, TransferOK
  <2>4. View(r, KeyAt(r, call[r].depot)) = DepotRow(r)
    BY <1>a, <2>1, <2>3, RowSeen DEF DepotRow
  <2>5. inDepot[r] = View(r, KeyAt(r, call[r].depot))
    BY <1>a, <2>1, <2>4, LineInHand DEF Known, Newborn, DepotRow
  <2>6. Amount(r) \in Int
    BY <1>b
  <2>7. PICK d \in Depots, v \in Int : d = call[r].depot /\ v = Amount(r)
    BY <2>1, <2>6
  <2>8. /\ WriteBalance(r, d, v, "commit") /\ open[r]
        /\ "commit" \in Labels /\ "commit" \notin {"idle", "done", "refused"} /\ inDepot[r] = View(r, KeyAt(r, d))
    BY <2>1, <2>5, <2>7 DEF Labels
  <2>9. /\ UNCHANGED <<bal, qty, call, line, inDepot>> /\ Active(r)' /\ pc'[r] = "commit"
        /\ pend' = [pend EXCEPT ![r][<<i, d>>] = v]
    BY <2>8, Entered
  <2>10. pend'[r] = Wrote(r, call[r].depot, Amount(r))
    BY <1>a, <2>3, <2>7, <2>9, FirstWrite
  <2>11. Amount(r) > 0 /\ Article(r) \in items /\ qty[Article(r)] = Amount(r)
    BY <1>a, <2>1 DEF PendOK, CreateOK
  <2>12. CreateOK(r)'
    BY <1>b, <2>1, <2>2, <2>9, <2>10, <2>11, SameRows DEF CreateOK
  <2>13. QED
    BY <2>1, <2>9, <2>12 DEF PendOK
<1>3. CASE RemoveRead(r)
  BY <1>3, <1>a, <1>b DEF RemoveRead,
     Known, Early, Active, At, Proceed, Refuse, TypeOK, store, local, PendOK, CreateOK, MovementOK,
     SaleOK, TransferOK, DepotRow, DestRow, KeyAt, Article, Current, Amount, Wrote, Debited, Base, Delta
<1>4. CASE TransferReadItem(r)
  BY <1>4, <1>a, <1>b DEF TransferReadItem,
     Known, Early, Active, At, Proceed, Refuse, TypeOK, store, local, PendOK, CreateOK, MovementOK,
     SaleOK, TransferOK, DepotRow, DestRow, KeyAt, Article, Current, Amount, Wrote, Debited, Base, Delta
<1>5. CASE TransferReadSource(r)
  BY <1>5, <1>a, <1>b DEF TransferReadSource, ReadBalance,
     Known, Early, Active, At, Proceed, Refuse, TypeOK, store, local, PendOK, CreateOK, MovementOK,
     SaleOK, TransferOK, DepotRow, DestRow, KeyAt, Article, Current, Amount, Wrote, Debited, Base, Delta
<1>6. CASE TransferDebit(r)
  <2>1. /\ call[r].op = "transfer" /\ pc[r] = "debit" /\ open[r] /\ call[r].depot \in Depots
        /\ WriteBalance(r, call[r].depot, inDepot[r] - Amount(r), "dest")
    BY <1>6 DEF TransferDebit, At, Known, TypeInv, RequestOK
  <2>2. UNCHANGED <<items, qty, bal, onHand>>
    BY <2>1 DEF WriteBalance, store, local
  <2>3. pend[r] = NoWrites
    BY <1>a, <2>1 DEF Known, Newborn, PendOK, MovementOK, SaleOK, TransferOK
  <2>4. View(r, KeyAt(r, call[r].depot)) = DepotRow(r)
    BY <1>a, <2>1, <2>3, RowSeen DEF DepotRow
  <2>5. inDepot[r] = View(r, KeyAt(r, call[r].depot)) /\ inDepot[r] \in Int /\ inDepot[r] >= Amount(r)
    BY <1>a, <2>1 DEF Known, DepotCurrent, TypeInv, RequestOK, Sound
  <2>6. inDepot[r] - Amount(r) \in Int
    BY <1>b, <2>5
  <2>7. PICK d \in Depots, v \in Int : d = call[r].depot /\ v = inDepot[r] - Amount(r)
    BY <2>1, <2>6
  <2>8. /\ WriteBalance(r, d, v, "dest") /\ open[r]
        /\ "dest" \in Labels /\ "dest" \notin {"idle", "done", "refused"} /\ inDepot[r] = View(r, KeyAt(r, d))
    BY <2>1, <2>5, <2>7 DEF Labels
  <2>9. /\ UNCHANGED <<bal, qty, call, line, inDepot>> /\ Active(r)' /\ pc'[r] = "dest"
        /\ pend' = [pend EXCEPT ![r][<<i, d>>] = v]
    BY <2>8, Entered
  <2>10. pend'[r] = Debited(r)
    BY <1>a, <2>3, <2>4, <2>5, <2>7, <2>9, FirstWrite DEF Debited
  <2>11. TransferOK(r)'
    BY <2>4, <2>5, <2>9, <2>10, SameRows DEF TransferOK
  <2>12. QED
    BY <2>1, <2>9, <2>11 DEF PendOK
<1>7. CASE TransferReadDest(r)
  BY <1>7, <1>a, <1>b DEF TransferReadDest, ReadBalance,
     Known, Early, Active, At, Proceed, Refuse, TypeOK, store, local, PendOK, CreateOK, MovementOK,
     SaleOK, TransferOK, DepotRow, DestRow, KeyAt, Article, Current, Amount, Wrote, Debited, Base, Delta
<1>8. CASE TransferCredit(r)
  <2>1. /\ call[r].op = "transfer" /\ pc[r] = "credit" /\ open[r] /\ call[r].dest \in Depots
        /\ WriteBalance(r, call[r].dest, Base(r) + Amount(r), "journal")
    BY <1>8 DEF TransferCredit, At, Known, TypeInv, RequestOK
  <2>2. UNCHANGED <<items, qty, bal, onHand>>
    BY <2>1 DEF WriteBalance, store, local
  <2>5. inDepot[r] = View(r, KeyAt(r, call[r].dest))
    BY <2>1 DEF Known, DepotCurrent
  <2>6. Base(r) + Amount(r) \in Int
    BY <1>b
  <2>7. PICK d \in Depots, v \in Int : d = call[r].dest /\ v = Base(r) + Amount(r)
    BY <2>1, <2>6
  <2>8. /\ WriteBalance(r, d, v, "journal") /\ open[r]
        /\ "journal" \in Labels /\ "journal" \notin {"idle", "done", "refused"} /\ inDepot[r] = View(r, KeyAt(r, d))
    BY <2>1, <2>5, <2>7 DEF Labels
  <2>9. /\ UNCHANGED <<bal, qty, call, line, inDepot>> /\ Active(r)' /\ pc'[r] = "journal"
        /\ pend' = [pend EXCEPT ![r][<<i, d>>] = v]
    BY <2>8, Entered
  <2>10. pend[r] = Debited(r) /\ DepotRow(r) \in Int /\ DepotRow(r) >= Amount(r) /\ call[r].depot \in Depots
    BY <1>a, <2>1 DEF PendOK, TransferOK, TypeInv, RequestOK
  <2>11. pend'[r] = [Debited(r) EXCEPT ![KeyAt(r, d)] = v]
    BY <1>a, <2>9, <2>10 DEF TypeOK, KeyAt
  <2>12. CASE call[r].depot = d
    <3>1. View(r, KeyAt(r, d)) = DepotRow(r) - Amount(r)
      BY <1>a, <1>b, <2>10, <2>12, LineInHand, SentinelsAssumption DEF View, Debited, Wrote, NoWrites
    <3>2. v = DepotRow(r)
      BY <1>b, <2>5, <2>7, <2>10, <3>1, SentinelsAssumption DEF Base
    <3>3. pend'[r] = Wrote(r, call[r].depot, DepotRow(r))
      BY <2>11, <2>12, <3>2 DEF Debited, Wrote
    <3>4. TransferOK(r)'
      BY <2>7, <2>9, <2>10, <2>12, <3>3, SameRows DEF TransferOK
    <3>5. QED
      BY <2>1, <2>9, <3>4 DEF PendOK
  <2>13. CASE call[r].depot # d
    <3>1. View(r, KeyAt(r, d)) = DestRow(r)
      BY <1>a, <2>7, <2>10, <2>13, LineInHand DEF View, Debited, Wrote, NoWrites, KeyAt, DestRow
    <3>2. v = Held(DestRow(r)) + Amount(r)
      BY <2>5, <2>7, <3>1 DEF Base, Held
    <3>3. TransferOK(r)'
      BY <2>7, <2>9, <2>10, <2>11, <2>13, <3>2, SameRows DEF TransferOK
    <3>4. QED
      BY <2>1, <2>9, <3>3 DEF PendOK
  <2>14. QED
    BY <2>12, <2>13
<1>9. CASE TransferJournalOut(r)
  BY <1>9, <1>a, <1>b DEF TransferJournalOut, Journal,
     Known, Early, Active, At, Proceed, Refuse, TypeOK, store, local, PendOK, CreateOK, MovementOK,
     SaleOK, TransferOK, DepotRow, DestRow, KeyAt, Article, Current, Amount, Wrote, Debited, Base, Delta
<1>10. CASE TransferJournalIn(r)
  BY <1>10, <1>a, <1>b DEF TransferJournalIn, Journal,
     Known, Early, Active, At, Proceed, Refuse, TypeOK, store, local, PendOK, CreateOK, MovementOK,
     SaleOK, TransferOK, DepotRow, DestRow, KeyAt, Article, Current, Amount, Wrote, Debited, Base, Delta
<1>11. CASE MovementReadItem(r)
  BY <1>11, <1>a, <1>b DEF MovementReadItem,
     Known, Early, Active, At, Proceed, Refuse, TypeOK, store, local, PendOK, CreateOK, MovementOK,
     SaleOK, TransferOK, DepotRow, DestRow, KeyAt, Article, Current, Amount, Wrote, Debited, Base, Delta
<1>12. CASE MovementReadBalance(r)
  BY <1>12, <1>a, <1>b DEF MovementReadBalance, ReadBalance,
     Known, Early, Active, At, Proceed, Refuse, TypeOK, store, local, PendOK, CreateOK, MovementOK,
     SaleOK, TransferOK, DepotRow, DestRow, KeyAt, Article, Current, Amount, Wrote, Debited, Base, Delta
<1>13. CASE MovementJournal(r)
  BY <1>13, <1>a, <1>b DEF MovementJournal, Journal,
     Known, Early, Active, At, Proceed, Refuse, TypeOK, store, local, PendOK, CreateOK, MovementOK,
     SaleOK, TransferOK, DepotRow, DestRow, KeyAt, Article, Current, Amount, Wrote, Debited, Base, Delta
<1>14. CASE MovementWriteBalance(r)
  <2>1. /\ call[r].op = "movement" /\ pc[r] = "credit" /\ open[r] /\ call[r].depot \in Depots
        /\ WriteBalance(r, call[r].depot, Base(r) + Delta(r, Base(r)), "store")
    BY <1>14 DEF MovementWriteBalance, At, Known, TypeInv, RequestOK
  <2>2. UNCHANGED <<items, qty, bal, onHand>>
    BY <2>1 DEF WriteBalance, store, local
  <2>3. pend[r] = NoWrites
    BY <1>a, <2>1 DEF Known, Newborn, PendOK, MovementOK, SaleOK, TransferOK
  <2>4. View(r, KeyAt(r, call[r].depot)) = DepotRow(r)
    BY <1>a, <2>1, <2>3, RowSeen DEF DepotRow
  <2>5. inDepot[r] = View(r, KeyAt(r, call[r].depot))
    BY <1>b, <2>1 DEF Known, DepotCurrent
  <2>6. Base(r) + Delta(r, Base(r)) \in Int
    BY <1>b
  <2>7. PICK d \in Depots, v \in Int : d = call[r].depot /\ v = Base(r) + Delta(r, Base(r))
    BY <2>1, <2>6
  <2>8. /\ WriteBalance(r, d, v, "store") /\ open[r]
        /\ "store" \in Labels /\ "store" \notin {"idle", "done", "refused"} /\ inDepot[r] = View(r, KeyAt(r, d))
    BY <2>1, <2>5, <2>7 DEF Labels
  <2>9. /\ UNCHANGED <<bal, qty, call, line, inDepot>> /\ Active(r)' /\ pc'[r] = "store"
        /\ pend' = [pend EXCEPT ![r][<<i, d>>] = v]
    BY <2>8, Entered
  <2>10. pend'[r] = Wrote(r, call[r].depot, Base(r) + Delta(r, Base(r)))
    BY <1>a, <2>3, <2>7, <2>9, FirstWrite
  <2>11. MovementOK(r)'
    BY <1>b, <2>1, <2>4, <2>5, <2>9, <2>10, SameRows DEF MovementOK
  <2>12. QED
    BY <2>1, <2>9, <2>11 DEF PendOK
<1>15. CASE MovementStoreItem(r)
  <2>1. /\ call[r].op = "movement" /\ pc[r] = "store" /\ MovementOK(r)
        /\ qty' = [qty EXCEPT ![i] = onHand[r] + Delta(r, Base(r))] /\ pc' = [pc EXCEPT ![r] = "commit"]
        /\ UNCHANGED <<pend, bal, call, line, inDepot, onHand>>
    BY <1>15, <1>a DEF MovementStoreItem, At, Proceed, StoreQuantity, local, PendOK
  <2>2. qty'[i] = onHand[r] + Delta(r, Base(r)) /\ pc'[r] = "commit"
    BY <1>a, <2>1 DEF TypeOK
  <2>3. MovementOK(r)'
    BY <1>a, <2>1, <2>2, SameRows DEF MovementOK
  <2>4. QED
    BY <2>1, <2>3 DEF PendOK
<1>16. CASE SaleReadItem(r)
  BY <1>16, <1>a, <1>b DEF SaleReadItem,
     Known, Early, Active, At, Proceed, Refuse, TypeOK, store, local, PendOK, CreateOK, MovementOK,
     SaleOK, TransferOK, DepotRow, DestRow, KeyAt, Article, Current, Amount, Wrote, Debited, Base, Delta
<1>17. CASE SaleReadBalance(r)
  BY <1>17, <1>a, <1>b DEF SaleReadBalance, ReadBalance,
     Known, Early, Active, At, Proceed, Refuse, TypeOK, store, local, PendOK, CreateOK, MovementOK,
     SaleOK, TransferOK, DepotRow, DestRow, KeyAt, Article, Current, Amount, Wrote, Debited, Base, Delta
<1>18. CASE SaleDebit(r)
  <2>1. /\ call[r].op = "sale" /\ pc[r] = "debit" /\ open[r] /\ call[r].depot \in Depots
        /\ WriteBalance(r, call[r].depot, inDepot[r] - Amount(r), "journal")
    BY <1>18 DEF SaleDebit, At, Known, TypeInv, RequestOK
  <2>2. UNCHANGED <<items, qty, bal, onHand>>
    BY <2>1 DEF WriteBalance, store, local
  <2>3. pend[r] = NoWrites
    BY <1>a, <2>1 DEF Known, Newborn, PendOK, MovementOK, SaleOK, TransferOK
  <2>4. View(r, KeyAt(r, call[r].depot)) = DepotRow(r)
    BY <1>a, <2>1, <2>3, RowSeen DEF DepotRow
  <2>5. inDepot[r] = View(r, KeyAt(r, call[r].depot)) /\ inDepot[r] \in Int
    BY <1>a, <2>1 DEF Known, DepotCurrent, TypeInv, RequestOK
  <2>6. inDepot[r] - Amount(r) \in Int
    BY <1>b, <2>5
  <2>7. PICK d \in Depots, v \in Int : d = call[r].depot /\ v = inDepot[r] - Amount(r)
    BY <2>1, <2>6
  <2>8. /\ WriteBalance(r, d, v, "journal") /\ open[r]
        /\ "journal" \in Labels /\ "journal" \notin {"idle", "done", "refused"} /\ inDepot[r] = View(r, KeyAt(r, d))
    BY <2>1, <2>5, <2>7 DEF Labels
  <2>9. /\ UNCHANGED <<bal, qty, call, line, inDepot>> /\ Active(r)' /\ pc'[r] = "journal"
        /\ pend' = [pend EXCEPT ![r][<<i, d>>] = v]
    BY <2>8, Entered
  <2>10. pend'[r] = Debited(r)
    BY <1>a, <2>3, <2>4, <2>5, <2>7, <2>9, FirstWrite DEF Debited
  <2>11. SaleOK(r)'
    BY <1>b, <2>1, <2>4, <2>5, <2>9, <2>10, SameRows DEF SaleOK
  <2>12. QED
    BY <2>1, <2>9, <2>11 DEF PendOK
<1>19. CASE SaleJournal(r)
  BY <1>19, <1>a, <1>b DEF SaleJournal, Journal,
     Known, Early, Active, At, Proceed, Refuse, TypeOK, store, local, PendOK, CreateOK, MovementOK,
     SaleOK, TransferOK, DepotRow, DestRow, KeyAt, Article, Current, Amount, Wrote, Debited, Base, Delta
<1>20. CASE SaleStoreItem(r)
  <2>1. /\ call[r].op = "sale" /\ pc[r] = "store" /\ SaleOK(r)
        /\ qty' = [qty EXCEPT ![i] = onHand[r] - Amount(r)]
        /\ \E l \in {"number", "commit"} : pc' = [pc EXCEPT ![r] = l]
        /\ UNCHANGED <<pend, bal, call, inDepot, onHand>> /\ line' = [line EXCEPT ![r] = NextLine(r)]
    BY <1>20, <1>a DEF SaleStoreItem, At, Proceed, StoreQuantity, Known, PendOK
  <2>2. qty'[i] = onHand[r] - Amount(r) /\ pc'[r] \in {"number", "commit"} /\ UNCHANGED line
    BY <1>a, <2>1 DEF TypeOK, Known, NextLine
  <2>3. SaleOK(r)'
    BY <1>a, <2>1, <2>2, SameRows DEF SaleOK
  <2>4. QED
    BY <2>1, <2>3 DEF PendOK
<1>21. CASE SaleNumber(r)
  BY <1>21, <1>a, <1>b DEF SaleNumber,
     Known, Early, Active, At, Proceed, Refuse, TypeOK, store, local, PendOK, CreateOK, MovementOK,
     SaleOK, TransferOK, DepotRow, DestRow, KeyAt, Article, Current, Amount, Wrote, Debited, Base, Delta
<1>22. CASE SaleInvoice(r)
  BY <1>22, <1>a, <1>b DEF SaleInvoice,
     Known, Early, Active, At, Proceed, Refuse, TypeOK, store, local, PendOK, CreateOK, MovementOK,
     SaleOK, TransferOK, DepotRow, DestRow, KeyAt, Article, Current, Amount, Wrote, Debited, Base, Delta
<1>23. CASE Fail(r)
  BY <1>23, <1>a, <1>b DEF Fail,
     Known, Early, Active, At, Proceed, Refuse, TypeOK, store, local, PendOK, CreateOK, MovementOK,
     SaleOK, TransferOK, DepotRow, DestRow, KeyAt, Article, Current, Amount, Wrote, Debited, Base, Delta
<1>24. CASE Expire(r)
  BY <1>24, <1>a, <1>b DEF Expire,
     Known, Early, Active, At, Proceed, Refuse, TypeOK, store, local, PendOK, CreateOK, MovementOK,
     SaleOK, TransferOK, DepotRow, DestRow, KeyAt, Article, Current, Amount, Wrote, Debited, Base, Delta
<1>25. QED
  BY <1>1, <1>2, <1>3, <1>4, <1>5, <1>6, <1>7, <1>8, <1>9, <1>10, <1>11, <1>12, <1>13, <1>14,
     <1>15, <1>16, <1>17, <1>18, <1>19, <1>20, <1>21, <1>22, <1>23, <1>24 DEF Step, Handler

(* A request about an article that is not there is refused, and leaves     *)
(* everything as it is.                                                     *)
LEMMA GoneRefused ==
  ASSUME StockInv, RowsInv, ApartInv, ~Faults, NEW r \in Requests, Step(r), ~Receive(r), ~CreateItem(r),
         Early(r), Newborn(r), PendOK(r), Article(r) \notin items
  PROVE  ~Active(r)' /\ UNCHANGED <<items, qty, bal, call, line>>
<1>a. TypeInv /\ TypeOK /\ ~DeadlockVictim(r) /\ OwnOK(r) /\ Article(r) \in Items /\ Active(r)
  BY NoVictim, LineInHand, StepWrites DEF StockInv, TypeInv, ApartInv, OwnOK
<1>c. call[r].op \in {"create", "remove", "transfer", "movement", "sale"}
  BY <1>a, LineInHand DEF Call
<1>b. ~Working(r) /\ (call[r].op = "create" => pc[r] \notin {"credit", "commit"})
  BY <1>a DEF OwnOK, PendOK, CreateOK
<1> USE DEF At, Proceed, Refuse, store, local
<1>1. CASE Commit(r)
  BY <1>1, <1>a, <1>b, <1>c DEF Commit, Working, PendOK, Call, TypeOK
<1>2. CASE CreateBalance(r)
  BY <1>2, <1>a, <1>b DEF CreateBalance, Working, Active
<1>3. CASE RemoveRead(r)
  BY <1>3, <1>a DEF RemoveRead, Active, TypeOK
<1>4. CASE RemoveDelete(r)
  <2>1. UNCHANGED <<items, qty, call, line>> /\ ~Active(r)'
    BY <1>4, <1>a DEF RemoveDelete, Active, TypeOK
  <2>2. bal' = bal
    BY <1>4, <1>a DEF RemoveDelete, RowsInv, TypeOK
  <2>3. QED
    BY <2>1, <2>2
<1>5. CASE TransferReadItem(r)
  BY <1>5, <1>a DEF TransferReadItem, Active, TypeOK
<1>6. CASE TransferReadSource(r)
  BY <1>6, <1>a, <1>b DEF TransferReadSource, Working, Active
<1>7. CASE TransferDebit(r)
  BY <1>7, <1>a, <1>b DEF TransferDebit, Working, Active
<1>8. CASE TransferReadDest(r)
  BY <1>8, <1>a, <1>b DEF TransferReadDest, Working, Active
<1>9. CASE TransferCredit(r)
  BY <1>9, <1>a, <1>b DEF TransferCredit, Working, Active
<1>10. CASE TransferJournalOut(r)
  BY <1>10, <1>a, <1>b DEF TransferJournalOut, Working, Active
<1>11. CASE TransferJournalIn(r)
  BY <1>11, <1>a, <1>b DEF TransferJournalIn, Working, Active
<1>12. CASE MovementReadItem(r)
  BY <1>12, <1>a DEF MovementReadItem, Active, TypeOK
<1>13. CASE MovementReadBalance(r)
  BY <1>13, <1>a, <1>b DEF MovementReadBalance, Working, Active
<1>14. CASE MovementJournal(r)
  BY <1>14, <1>a, <1>b DEF MovementJournal, Working, Active
<1>15. CASE MovementWriteBalance(r)
  BY <1>15, <1>a, <1>b DEF MovementWriteBalance, Working, Active
<1>16. CASE MovementStoreItem(r)
  BY <1>16, <1>a, <1>b DEF MovementStoreItem, Working, Active
<1>17. CASE SaleReadItem(r)
  BY <1>17, <1>a DEF SaleReadItem, Active, TypeOK
<1>18. CASE SaleReadBalance(r)
  BY <1>18, <1>a, <1>b DEF SaleReadBalance, Working, Active
<1>19. CASE SaleDebit(r)
  BY <1>19, <1>a, <1>b DEF SaleDebit, Working, Active
<1>20. CASE SaleJournal(r)
  BY <1>20, <1>a, <1>b DEF SaleJournal, Working, Active
<1>21. CASE SaleStoreItem(r)
  BY <1>21, <1>a, <1>b DEF SaleStoreItem, Working, Active
<1>22. CASE SaleNumber(r)
  BY <1>22, <1>a, <1>b DEF SaleNumber, Working, Active
<1>23. CASE SaleInvoice(r)
  BY <1>23, <1>a, <1>b DEF SaleInvoice, Working, Active
<1>24. CASE Fail(r)
  BY <1>24, <1>a, <1>b DEF Fail, Working, Active
<1>25. CASE Expire(r)
  BY <1>25, <1>a, <1>b DEF Expire, Working, Active
<1>26. QED
  BY <1>1, <1>2, <1>3, <1>4, <1>5, <1>6, <1>7, <1>8, <1>9, <1>10, <1>11, <1>12, <1>13, <1>14,
     <1>15, <1>16, <1>17, <1>18, <1>19, <1>20, <1>21, <1>22, <1>23, <1>24, <1>25, <1>a DEF Step,
     Handler

LEMMA PendOwnMove ==
  ASSUME StockInv, JournalInv, RowsInv, ApartInv, OneLine, ~Faults, WritesInv, NEW r \in Requests, Step(r)
  PROVE  PendOK(r)'
<1>a. /\ TypeInv /\ TypeOK /\ Article(r) \in Items /\ PendOwn(r) /\ ~DeadlockVictim(r)
      /\ Sound(r) /\ Early(r) /\ Newborn(r) /\ PendOK(r)
  BY LineInHand, NoVictim DEF StockInv, TypeInv, ApartInv, OwnOK, WritesInv
<1>1. CASE Receive(r)
  <2>1. pc'[r] = "item" /\ pend'[r] = NoWrites
    BY <1>1, <1>a, NothingPends DEF Receive, Active, TypeOK
  <2>2. QED
    BY <2>1 DEF PendOK, CreateOK, MovementOK, SaleOK, TransferOK
<1>2. CASE CreateItem(r)
  <2>1. /\ call[r].op = "create" /\ pc[r] = "item" /\ UNCHANGED <<call, line, bal, pend>>
        /\ pc' = [pc EXCEPT ![r] = IF call[r].depot # NoDepot /\ Amount(r) > 0 THEN "credit" ELSE "commit"]
        /\ qty' = [qty EXCEPT ![Article(r)] = Amount(r)] /\ Article(r) \in items'
    BY <1>2 DEF CreateItem, At, Proceed, StoreQuantity, local
  <2>2. Article(r)' = Article(r) /\ Amount(r)' = Amount(r) /\ Amount(r) \in Nat
        /\ call[r].depot \in Depots \cup {NoDepot}
    BY <1>a, <2>1, LineInHand DEF Article, Amount, Current, Call
  <2>3. qty'[Article(r)] = Amount(r) /\ pend'[r] = NoWrites
    BY <1>a, <2>1 DEF TypeOK, Newborn
  <2>4. pc'[r] = IF call[r].depot # NoDepot /\ Amount(r) > 0 THEN "credit" ELSE "commit"
    BY <1>a, <2>1 DEF TypeOK
  <2>5. CreateOK(r)'
    BY <2>1, <2>2, <2>3, <2>4 DEF CreateOK
  <2>6. QED
    BY <2>1, <2>5 DEF PendOK
<1>3. CASE RemoveDelete(r)
  BY <1>3, <1>a DEF RemoveDelete, Proceed, Refuse, PendOK, Active, TypeOK
<1>4. CASE ~Receive(r) /\ ~CreateItem(r) /\ ~RemoveDelete(r)
  <2>1. Active(r) /\ UNCHANGED items
    BY <1>4, <1>a, StepWrites, StepBooks
  <2>2. CASE Article(r) \notin items
    BY <1>4, <1>a, <2>2, GoneRefused DEF PendOK
  <2>3. CASE Article(r) \in items
    BY <1>4, <1>a, <2>1, <2>3, KnownOf, PendMove
  <2>4. QED
    BY <2>2, <2>3
<1>5. QED
  BY <1>1, <1>2, <1>3, <1>4

(* The steps of another request leave what a request has written as it is.  *)
LEMMA PendKept ==
  ASSUME TypeInv, ApartInv, ~Faults, NEW r \in Requests, Step(r), NEW o \in Requests \ {r}, PendOK(o)
  PROVE  PendOK(o)'
<1>1. /\ pc'[o] = pc[o] /\ call'[o] = call[o] /\ line'[o] = line[o] /\ onHand'[o] = onHand[o]
      /\ inDepot'[o] = inDepot[o] /\ pend'[o] = pend[o]
  BY StepAlone DEF TypeInv, OthersKept
<1>2. Active(o)' => Active(o)
  BY <1>1 DEF Active
<1> SUFFICES ASSUME Active(o), Active(o)' PROVE PendOK(o)'
  BY <1>2 DEF PendOK
<1>3. /\ Article(o)' = Article(o) /\ Amount(o)' = Amount(o) /\ Base(o)' = Base(o)
      /\ \A d : KeyAt(o, d)' = KeyAt(o, d)
  BY <1>1 DEF Article, Amount, Current, Base, KeyAt
<1>4. Delta(o, Base(o))' = Delta(o, Base(o)) /\ \A d, v : Wrote(o, d, v)' = Wrote(o, d, v)
  BY <1>1, <1>3 DEF Delta, Wrote
<1>5. /\ qty'[Article(o)] = qty[Article(o)]
      /\ Article(o) \in items => Article(o) \in items'
      /\ \A d \in Depots : bal'[KeyAt(o, d)] = bal[KeyAt(o, d)]
  BY OthersShelf
<1>6. call[o].depot \in Depots \cup {NoDepot} /\ (call[o].op = "transfer" => call[o].dest \in Depots /\ call[o].depot \in Depots)
  BY LineInHand, CallsAssumption DEF TypeInv, Call
<1>7. call[o].depot # NoDepot => DepotRow(o)' = DepotRow(o)
  BY <1>1, <1>3, <1>5, <1>6 DEF DepotRow
<1>8. call[o].op = "transfer" => DestRow(o)' = DestRow(o) /\ DepotRow(o)' = DepotRow(o)
  BY <1>1, <1>3, <1>5, <1>6 DEF DestRow, DepotRow
<1>9. call[o].op = "create" => CreateOK(o)'
  BY <1>1, <1>3, <1>4, <1>5 DEF PendOK, CreateOK
<1>10. call[o].op = "movement" => MovementOK(o)'
  BY <1>1, <1>3, <1>4, <1>5, <1>7 DEF PendOK, MovementOK
<1>11. call[o].op = "sale" => SaleOK(o)'
  BY <1>1, <1>3, <1>4, <1>5, <1>7 DEF PendOK, SaleOK, Debited
<1>12. call[o].op = "transfer" => TransferOK(o)'
  BY <1>1, <1>3, <1>4, <1>5, <1>8 DEF PendOK, TransferOK, Debited
<1>13. QED
  BY <1>1, <1>9, <1>10, <1>11, <1>12 DEF PendOK

LEMMA WritesInit == Init => WritesInv
BY DEF Init, WritesInv, Early, Newborn, PendOK, Active

LEMMA WritesStep ==
  ASSUME StockInv, JournalInv, RowsInv, ApartInv, OneLine, ~Faults, WritesInv, NEW r \in Requests, Step(r)
  PROVE  WritesInv'
<1>a. TypeInv /\ PendOwn(r) /\ Sound(r)
  BY DEF StockInv, ApartInv, OwnOK
<1>1. Early(r)' /\ Newborn(r)' /\ PendOK(r)'
  BY <1>a, EarlyStep, NewbornStep, PendOwnMove DEF WritesInv
<1>2. \A o \in Requests \ {r} : Early(o)' /\ Newborn(o)' /\ PendOK(o)'
  BY <1>a, NewbornKept, PendKept DEF WritesInv
<1>3. QED
  BY <1>1, <1>2 DEF WritesInv

-----------------------------------------------------------------------------
(* What the abstract shop shows of an article: it is there once created,    *)
(* with the quantity its request has read until that request commits.       *)
Present(r) == Article(r) \in items /\ ~Unfinished(r)
Shown(r)   == IF ~Present(r) THEN 0 ELSE IF Uncommitted(r) THEN onHand[r] ELSE qty[Article(r)]

OnlyOn(r) == Article(r) \in Items /\ \A o \in Requests \ {r} : Active(o) => Article(o) # Article(r)

BarShows ==
  \A r \in Requests : OnlyOn(r) =>
    (Article(r) \in ItemsBar <=> Present(r)) /\ QuantityBar[Article(r)] = Shown(r)

LEMMA BarHere == BarShows
<1> SUFFICES ASSUME NEW r \in Requests, OnlyOn(r)
             PROVE  (Article(r) \in ItemsBar <=> Present(r)) /\ QuantityBar[Article(r)] = Shown(r)
  BY DEF BarShows
<1>1. \A o \in Requests : (Unfinished(o) \/ Uncommitted(o)) /\ Article(o) = Article(r) => o = r
  BY DEF OnlyOn, Active, Unfinished, Uncommitted
<1>2. Article(r) \in ItemsBar <=> Present(r)
  BY <1>1 DEF ItemsBar, Present
<1>3. DEFINE writers == {o \in Requests : Uncommitted(o) /\ Article(o) = Article(r)}
<1>4. QuantityBar[Article(r)] = CASE Article(r) \notin ItemsBar                   -> 0
                                  [] Article(r) \in ItemsBar /\ writers # {}      -> onHand[CHOOSE o \in writers : TRUE]
                                  [] Article(r) \in ItemsBar /\ writers = {}      -> qty[Article(r)]
  BY DEF OnlyOn, QuantityBar
<1>5. CASE Uncommitted(r)
  <2>1. writers = {r}
    BY <1>1, <1>5
  <2>2. (CHOOSE o \in writers : TRUE) = r
    BY <2>1
  <2>3. QED
    BY <1>2, <1>4, <1>5, <2>1, <2>2 DEF Shown
<1>6. CASE ~Uncommitted(r)
  <2>1. writers = {}
    BY <1>1, <1>6
  <2>3. QED
    BY <1>2, <1>4, <1>6, <2>1 DEF Shown
<1>7. QED
  BY <1>2, <1>5, <1>6

LEMMA BarNext == BarShows'
BY BarHere, PTL

(* An article that a step does not concern is shown as before.             *)
LEMMA BarAway ==
  ASSUME NEW i \in Items, i \in items' <=> i \in items, qty'[i] = qty[i],
         \A o \in Requests :
           /\ (Unfinished(o) /\ Article(o) = i)' <=> Unfinished(o) /\ Article(o) = i
           /\ (Uncommitted(o) /\ Article(o) = i)' <=> Uncommitted(o) /\ Article(o) = i
           /\ Uncommitted(o) /\ Article(o) = i => onHand'[o] = onHand[o]
  PROVE  (i \in ItemsBar' <=> i \in ItemsBar) /\ QuantityBar'[i] = QuantityBar[i]
<1> DEFINE writers == {o \in Requests : Uncommitted(o) /\ Article(o) = i}
           writersNext == {o \in Requests : Uncommitted(o)' /\ Article(o)' = i}
<1>1. i \in ItemsBar' <=> i \in ItemsBar
  BY DEF ItemsBar
<1>2. writersNext = writers
  OBVIOUS
<1>3. QuantityBar[i] = CASE i \notin ItemsBar                   -> 0
                         [] i \in ItemsBar /\ writers # {}      -> onHand[CHOOSE o \in writers : TRUE]
                         [] i \in ItemsBar /\ writers = {}      -> qty[i]
  BY DEF QuantityBar
<1>4. QuantityBar'[i] = CASE i \notin ItemsBar'                   -> 0
                          [] i \in ItemsBar' /\ writersNext # {}  -> onHand'[CHOOSE o \in writersNext : TRUE]
                          [] i \in ItemsBar' /\ writersNext = {}  -> qty'[i]
  BY DEF QuantityBar
<1>5. CASE writers # {}
  <2>1. PICK w : w = CHOOSE o \in writers : TRUE
    OBVIOUS
  <2>2. w \in writers
    BY <1>5, <2>1
  <2>3. onHand'[w] = onHand[w]
    BY <2>2
  <2>4. QED
    BY <1>1, <1>2, <1>3, <1>4, <1>5, <2>1, <2>3
<1>6. CASE writers = {}
  BY <1>1, <1>2, <1>3, <1>4, <1>6
<1>7. QED
  BY <1>1, <1>5, <1>6

(* Before it commits, what a request writes is not shown.                   *)
Hidden(r) == bal' = bal /\ Article(r)' = Article(r) /\ (Present(r)' <=> Present(r)) /\ Shown(r)' = Shown(r)

(* A step that changes neither stock nor article, from a state in which     *)
(* nothing is held back, or to one where it still is.                       *)
LEMMA HiddenMove ==
  ASSUME NEW r, UNCHANGED <<items, qty, bal, call, line, onHand>>,
         Unfinished(r)' <=> Unfinished(r), Uncommitted(r)' <=> Uncommitted(r)
  PROVE  Hidden(r)
<1>1. Article(r)' = Article(r)
  BY DEF Article, Current
<1>2. QED
  BY <1>1 DEF Hidden, Present, Shown

LEMMA ShownMove ==
  ASSUME NEW r \in Requests, NEW i, Known(r, i), PendOK(r), ~Faults, Step(r), ~Receive(r),
         ~CreateItem(r), ~RemoveDelete(r), ~DeadlockVictim(r), ~Commit(r)
  PROVE  Hidden(r)
<1>a. /\ TypeInv /\ TypeOK /\ i = Article(r) /\ i \in items /\ Active(r) /\ i \in Items
      /\ line[r] = 1 /\ Len(call[r].lines) = 1
  BY LineInHand DEF Known, TypeInv
<1>1. CASE CreateBalance(r)
  <2>1. /\ call[r].op = "create" /\ pc[r] = "credit" /\ open[r] /\ call[r].depot \in Depots
        /\ WriteBalance(r, call[r].depot, Amount(r), "commit")
    BY <1>1 DEF CreateBalance, At, Known, TypeInv, RequestOK
  <2>2. pend[r] = NoWrites /\ inDepot[r] = NoRow /\ bal[KeyAt(r, call[r].depot)] = NoRow
    BY <2>1 DEF Known, Newborn
  <2>3. View(r, KeyAt(r, call[r].depot)) = NoRow
    BY <1>a, <2>1, <2>2, RowSeen
  <2>4. UNCHANGED <<items, qty, bal, call, line, onHand>> /\ pc' = [pc EXCEPT ![r] = "commit"]
    BY <1>a, <2>1, <2>2, <2>3 DEF WriteBalance, store, local
  <2>5. (Unfinished(r)' <=> Unfinished(r)) /\ (Uncommitted(r)' <=> Uncommitted(r))
    BY <1>a, <2>1, <2>4 DEF Unfinished, Uncommitted, TypeOK
  <2>6. QED
    BY <2>4, <2>5, HiddenMove
<1>2. CASE RemoveRead(r)
  <2>1. UNCHANGED <<items, qty, bal, call, line, onHand>>
    BY <1>2 DEF RemoveRead, store, local
  <2>2. (Unfinished(r)' <=> Unfinished(r)) /\ (Uncommitted(r)' <=> Uncommitted(r))
    BY <1>2, <1>a, <2>1 DEF RemoveRead, At, Proceed, Refuse, Unfinished, Uncommitted, TypeOK
  <2>3. QED
    BY <2>1, <2>2, HiddenMove
<1>3. CASE TransferReadItem(r)
  <2>1. UNCHANGED <<items, qty, bal, call, line, onHand>>
    BY <1>3 DEF TransferReadItem, store, local
  <2>2. (Unfinished(r)' <=> Unfinished(r)) /\ (Uncommitted(r)' <=> Uncommitted(r))
    BY <1>3, <1>a, <2>1 DEF TransferReadItem, At, Proceed, Refuse, Unfinished, Uncommitted, TypeOK
  <2>3. QED
    BY <2>1, <2>2, HiddenMove
<1>4. CASE TransferReadSource(r)
  <2>1. UNCHANGED <<items, qty, bal, call, line, onHand>>
    BY <1>4 DEF TransferReadSource, ReadBalance, store, local
  <2>2. (Unfinished(r)' <=> Unfinished(r)) /\ (Uncommitted(r)' <=> Uncommitted(r))
    BY <1>4, <1>a, <2>1 DEF TransferReadSource, ReadBalance, At, Proceed, Refuse, Unfinished, Uncommitted, TypeOK
  <2>3. QED
    BY <2>1, <2>2, HiddenMove
<1>5. CASE TransferDebit(r)
  <2>1. UNCHANGED <<items, qty, bal, call, line, onHand>>
    BY <1>5 DEF TransferDebit, WriteBalance, store, local
  <2>2. (Unfinished(r)' <=> Unfinished(r)) /\ (Uncommitted(r)' <=> Uncommitted(r))
    BY <1>5, <1>a, <2>1 DEF TransferDebit, WriteBalance, At, Proceed, Refuse, Unfinished, Uncommitted, TypeOK
  <2>3. QED
    BY <2>1, <2>2, HiddenMove
<1>6. CASE TransferReadDest(r)
  <2>1. UNCHANGED <<items, qty, bal, call, line, onHand>>
    BY <1>6 DEF TransferReadDest, ReadBalance, store, local
  <2>2. (Unfinished(r)' <=> Unfinished(r)) /\ (Uncommitted(r)' <=> Uncommitted(r))
    BY <1>6, <1>a, <2>1 DEF TransferReadDest, ReadBalance, At, Proceed, Refuse, Unfinished, Uncommitted, TypeOK
  <2>3. QED
    BY <2>1, <2>2, HiddenMove
<1>7. CASE TransferCredit(r)
  <2>1. UNCHANGED <<items, qty, bal, call, line, onHand>>
    BY <1>7 DEF TransferCredit, WriteBalance, store, local
  <2>2. (Unfinished(r)' <=> Unfinished(r)) /\ (Uncommitted(r)' <=> Uncommitted(r))
    BY <1>7, <1>a, <2>1 DEF TransferCredit, WriteBalance, At, Proceed, Refuse, Unfinished, Uncommitted, TypeOK
  <2>3. QED
    BY <2>1, <2>2, HiddenMove
<1>8. CASE TransferJournalOut(r)
  <2>1. UNCHANGED <<items, qty, bal, call, line, onHand>>
    BY <1>8 DEF TransferJournalOut, Journal, store, local
  <2>2. (Unfinished(r)' <=> Unfinished(r)) /\ (Uncommitted(r)' <=> Uncommitted(r))
    BY <1>8, <1>a, <2>1 DEF TransferJournalOut, Journal, At, Proceed, Refuse, Unfinished, Uncommitted, TypeOK
  <2>3. QED
    BY <2>1, <2>2, HiddenMove
<1>9. CASE TransferJournalIn(r)
  <2>1. UNCHANGED <<items, qty, bal, call, line, onHand>>
    BY <1>9 DEF TransferJournalIn, Journal, store, local
  <2>2. (Unfinished(r)' <=> Unfinished(r)) /\ (Uncommitted(r)' <=> Uncommitted(r))
    BY <1>9, <1>a, <2>1 DEF TransferJournalIn, Journal, At, Proceed, Refuse, Unfinished, Uncommitted, TypeOK
  <2>3. QED
    BY <2>1, <2>2, HiddenMove
<1>10. CASE MovementReadItem(r)
  <2>1. /\ UNCHANGED <<items, qty, bal, call, line>>
        /\ \A s \in {pc, pc'} : s[r] \notin {"number", "invoice", "commit", "credit"}
    BY <1>10, <1>a DEF MovementReadItem, At, Proceed, Refuse, TypeOK, store
  <2>2. Article(r)' = Article(r)
    BY <2>1 DEF Article, Current
  <2>3. ~Unfinished(r) /\ ~Unfinished(r)' /\ ~Uncommitted(r) /\ ~Uncommitted(r)'
    BY <2>1 DEF Unfinished, Uncommitted
  <2>4. QED
    BY <2>1, <2>2, <2>3 DEF Hidden, Present, Shown
<1>11. CASE MovementReadBalance(r)
  <2>1. UNCHANGED <<items, qty, bal, call, line, onHand>>
    BY <1>11 DEF MovementReadBalance, ReadBalance, store, local
  <2>2. (Unfinished(r)' <=> Unfinished(r)) /\ (Uncommitted(r)' <=> Uncommitted(r))
    BY <1>11, <1>a, <2>1 DEF MovementReadBalance, ReadBalance, At, Proceed, Refuse, Unfinished, Uncommitted, TypeOK
  <2>3. QED
    BY <2>1, <2>2, HiddenMove
<1>12. CASE MovementJournal(r)
  <2>1. UNCHANGED <<items, qty, bal, call, line, onHand>>
    BY <1>12 DEF MovementJournal, Journal, store, local
  <2>2. (Unfinished(r)' <=> Unfinished(r)) /\ (Uncommitted(r)' <=> Uncommitted(r))
    BY <1>12, <1>a, <2>1 DEF MovementJournal, Journal, At, Proceed, Refuse, Unfinished, Uncommitted, TypeOK
  <2>3. QED
    BY <2>1, <2>2, HiddenMove
<1>13. CASE MovementWriteBalance(r)
  <2>1. UNCHANGED <<items, qty, bal, call, line, onHand>>
    BY <1>13 DEF MovementWriteBalance, WriteBalance, store, local
  <2>2. (Unfinished(r)' <=> Unfinished(r)) /\ (Uncommitted(r)' <=> Uncommitted(r))
    BY <1>13, <1>a, <2>1 DEF MovementWriteBalance, WriteBalance, At, Proceed, Refuse, Unfinished, Uncommitted, TypeOK
  <2>3. QED
    BY <2>1, <2>2, HiddenMove
<1>14. CASE MovementStoreItem(r)
  <2>1. /\ call[r].op = "movement" /\ pc[r] = "store" /\ UNCHANGED <<items, bal, call, onHand, line>>
        /\ pc'[r] \in {"number", "invoice", "commit"}
    BY <1>14, <1>a DEF MovementStoreItem, At, Proceed, local, NextLine, TypeOK
  <2>2. onHand[r] = qty[Article(r)]
    BY <2>1 DEF Known, HandCurrent
  <2>3. Article(r)' = Article(r)
    BY <2>1 DEF Article, Current
  <2>4. ~Unfinished(r) /\ ~Unfinished(r)' /\ ~Uncommitted(r) /\ Uncommitted(r)'
    BY <2>1 DEF Unfinished, Uncommitted
  <2>5. QED
    BY <2>1, <2>2, <2>3, <2>4 DEF Hidden, Present, Shown
<1>15. CASE SaleReadItem(r)
  <2>1. /\ UNCHANGED <<items, qty, bal, call, line>>
        /\ \A s \in {pc, pc'} : s[r] \notin {"number", "invoice", "commit", "credit"}
    BY <1>15, <1>a DEF SaleReadItem, At, Proceed, Refuse, TypeOK, store
  <2>2. Article(r)' = Article(r)
    BY <2>1 DEF Article, Current
  <2>3. ~Unfinished(r) /\ ~Unfinished(r)' /\ ~Uncommitted(r) /\ ~Uncommitted(r)'
    BY <2>1 DEF Unfinished, Uncommitted
  <2>4. QED
    BY <2>1, <2>2, <2>3 DEF Hidden, Present, Shown
<1>16. CASE SaleReadBalance(r)
  <2>1. UNCHANGED <<items, qty, bal, call, line, onHand>>
    BY <1>16 DEF SaleReadBalance, ReadBalance, store, local
  <2>2. (Unfinished(r)' <=> Unfinished(r)) /\ (Uncommitted(r)' <=> Uncommitted(r))
    BY <1>16, <1>a, <2>1 DEF SaleReadBalance, ReadBalance, At, Proceed, Refuse, Unfinished, Uncommitted, TypeOK
  <2>3. QED
    BY <2>1, <2>2, HiddenMove
<1>17. CASE SaleDebit(r)
  <2>1. UNCHANGED <<items, qty, bal, call, line, onHand>>
    BY <1>17 DEF SaleDebit, WriteBalance, store, local
  <2>2. (Unfinished(r)' <=> Unfinished(r)) /\ (Uncommitted(r)' <=> Uncommitted(r))
    BY <1>17, <1>a, <2>1 DEF SaleDebit, WriteBalance, At, Proceed, Refuse, Unfinished, Uncommitted, TypeOK
  <2>3. QED
    BY <2>1, <2>2, HiddenMove
<1>18. CASE SaleJournal(r)
  <2>1. UNCHANGED <<items, qty, bal, call, line, onHand>>
    BY <1>18 DEF SaleJournal, Journal, store, local
  <2>2. (Unfinished(r)' <=> Unfinished(r)) /\ (Uncommitted(r)' <=> Uncommitted(r))
    BY <1>18, <1>a, <2>1 DEF SaleJournal, Journal, At, Proceed, Refuse, Unfinished, Uncommitted, TypeOK
  <2>3. QED
    BY <2>1, <2>2, HiddenMove
<1>19. CASE SaleStoreItem(r)
  <2>1. /\ call[r].op = "sale" /\ pc[r] = "store" /\ UNCHANGED <<items, bal, call, onHand, line>>
        /\ pc'[r] \in {"number", "invoice", "commit"}
    BY <1>19, <1>a DEF SaleStoreItem, At, Proceed, local, NextLine, TypeOK
  <2>2. onHand[r] = qty[Article(r)]
    BY <2>1 DEF Known, HandCurrent
  <2>3. Article(r)' = Article(r)
    BY <2>1 DEF Article, Current
  <2>4. ~Unfinished(r) /\ ~Unfinished(r)' /\ ~Uncommitted(r) /\ Uncommitted(r)'
    BY <2>1 DEF Unfinished, Uncommitted
  <2>5. QED
    BY <2>1, <2>2, <2>3, <2>4 DEF Hidden, Present, Shown
<1>20. CASE SaleNumber(r)
  <2>1. UNCHANGED <<items, qty, bal, call, line, onHand>>
    BY <1>20 DEF SaleNumber, store, local
  <2>2. (Unfinished(r)' <=> Unfinished(r)) /\ (Uncommitted(r)' <=> Uncommitted(r))
    BY <1>20, <1>a, <2>1 DEF SaleNumber, At, Proceed, Refuse, Unfinished, Uncommitted, TypeOK
  <2>3. QED
    BY <2>1, <2>2, HiddenMove
<1>21. CASE SaleInvoice(r)
  <2>1. UNCHANGED <<items, qty, bal, call, line, onHand>>
    BY <1>21 DEF SaleInvoice, store, local
  <2>2. (Unfinished(r)' <=> Unfinished(r)) /\ (Uncommitted(r)' <=> Uncommitted(r))
    BY <1>21, <1>a, <2>1 DEF SaleInvoice, At, Proceed, Refuse, Unfinished, Uncommitted, TypeOK
  <2>3. QED
    BY <2>1, <2>2, HiddenMove
<1>22. CASE Fail(r)
  BY <1>22 DEF Fail
<1>23. CASE Expire(r)
  BY <1>23 DEF Expire
<1>24. QED
  BY <1>1, <1>2, <1>3, <1>4, <1>5, <1>6, <1>7, <1>8, <1>9, <1>10, <1>11, <1>12, <1>13, <1>14,
     <1>15, <1>16, <1>17, <1>18, <1>19, <1>20, <1>21, <1>22, <1>23 DEF Step, Handler

(* A commit, row by row.                                                   *)
LEMMA CommitRows ==
  ASSUME TypeOK, NEW r \in Requests, bal' = Seen(r)
  PROVE  bal' = [k \in Keys |-> IF pend[r][k] # NoRow THEN pend[r][k] ELSE bal[k]]
BY DEF Seen, View

LEMMA CommitNone ==
  ASSUME TypeOK, NEW r \in Requests, bal' = Seen(r), pend[r] = NoWrites
  PROVE  bal' = bal
<1>1. bal' = [k \in Keys |-> IF pend[r][k] # NoRow THEN pend[r][k] ELSE bal[k]] /\ bal \in [Keys -> Rows]
  BY CommitRows DEF TypeOK
<1>2. QED
  BY <1>1 DEF NoWrites

LEMMA CommitOne ==
  ASSUME TypeOK, NEW r \in Requests, bal' = Seen(r), NEW d \in Depots, NEW v \in Int,
         pend[r] = Wrote(r, d, v)
  PROVE  bal' = [bal EXCEPT ![KeyAt(r, d)] = v]
<1>1. bal' = [k \in Keys |-> IF pend[r][k] # NoRow THEN pend[r][k] ELSE bal[k]] /\ bal \in [Keys -> Rows]
  BY CommitRows DEF TypeOK
<1>2. pend[r] = [k \in Keys |-> IF k = KeyAt(r, d) THEN v ELSE NoRow] /\ v # NoRow
  BY SentinelsAssumption DEF Wrote, NoWrites
<1>3. QED
  BY <1>1, <1>2

WroteBoth(r, d, e, v, w) == [Wrote(r, d, v) EXCEPT ![KeyAt(r, e)] = w]

LEMMA CommitTwo ==
  ASSUME TypeOK, NEW r \in Requests, bal' = Seen(r), NEW d \in Depots, NEW e \in Depots, d # e,
         NEW v \in Int, NEW w \in Int, pend[r] = WroteBoth(r, d, e, v, w)
  PROVE  bal' = [bal EXCEPT ![KeyAt(r, d)] = v, ![KeyAt(r, e)] = w]
<1>1. bal' = [k \in Keys |-> IF pend[r][k] # NoRow THEN pend[r][k] ELSE bal[k]] /\ bal \in [Keys -> Rows]
  BY CommitRows DEF TypeOK
<1>2. PICK a \in Keys, b \in Keys : a = KeyAt(r, d) /\ b = KeyAt(r, e) /\ a # b
  <2>1. KeyAt(r, d) \in Keys /\ KeyAt(r, e) \in Keys
    BY LineInHand DEF KeyAt
  <2>2. KeyAt(r, d) # KeyAt(r, e)
    BY DEF KeyAt
  <2>3. QED
    BY <2>1, <2>2
<1>3. pend[r] = [k \in Keys |-> IF k = b THEN w ELSE IF k = a THEN v ELSE NoRow]
  BY <1>2 DEF WroteBoth, Wrote, NoWrites
<1>4. v # NoRow /\ w # NoRow
  BY SentinelsAssumption
<1>5. bal' = [k \in Keys |-> IF k = b THEN w ELSE IF k = a THEN v ELSE bal[k]]
  BY <1>1, <1>3, <1>4
<1>6. bal' = [bal EXCEPT ![a] = v, ![b] = w]
  BY ONLY <1>1, <1>2, <1>5
<1>7. QED
  BY <1>2, <1>6

(* What the commit of a creation, of a movement or sale, and of a transfer  *)
(* does to the article in hand.                                            *)
Creates(r) ==
  /\ call[r].op = "create" /\ ~Present(r) /\ Present(r)' /\ Shown(r)' = Amount(r)
  /\ bal' = IF call[r].depot = NoDepot \/ Amount(r) = 0 THEN bal
            ELSE [bal EXCEPT ![KeyAt(r, call[r].depot)] = Amount(r)]

Shifts(r, q) ==
  /\ Present(r) /\ Present(r)' /\ Shown(r)' = Shown(r) + q /\ Shown(r)' >= 0
  /\ call[r].depot # NoDepot => Held(DepotRow(r)) + q >= 0
  /\ bal' = IF call[r].depot = NoDepot THEN bal
            ELSE [bal EXCEPT ![KeyAt(r, call[r].depot)] = Held(DepotRow(r)) + q]

Transfers(r) ==
  /\ call[r].op = "transfer" /\ Present(r) /\ Present(r)' /\ Shown(r)' = Shown(r)
  /\ DepotRow(r) # NoRow /\ Amount(r) <= DepotRow(r)
  /\ IF call[r].depot = call[r].dest THEN bal' = bal
     ELSE bal' = [bal EXCEPT ![KeyAt(r, call[r].depot)] = DepotRow(r) - Amount(r),
                             ![KeyAt(r, call[r].dest)] = Held(DestRow(r)) + Amount(r)]

LEMMA CommitHere ==
  ASSUME NEW r \in Requests, NEW i, Known(r, i), PendOK(r), NonNegative, PendingNonNegative, Commit(r)
  PROVE  Article(r)' = i /\ (Creates(r) \/ Transfers(r) \/ \E q \in Int : Shifts(r, q))
<1>a. /\ TypeInv /\ TypeOK /\ i = Article(r) /\ i \in items /\ Active(r) /\ i \in Items /\ qty[i] \in Int
      /\ qty[i] >= 0 /\ pc[r] = "commit"
  BY LineInHand DEF Known, TypeInv, TypeOK, Commit, NonNegative
<1>b. /\ Amount(r) \in Nat /\ Base(r) \in Int /\ Delta(r, Base(r)) \in Int
      /\ call[r].depot \in Depots \cup {NoDepot} /\ NoDepot \notin Depots /\ onHand[r] \in Int
      /\ call[r].op \in {"create", "remove", "transfer", "movement", "sale"}
  BY <1>a, DueType, LineInHand, SentinelsAssumption DEF Call, TypeOK
<1>c. call[r].op # "remove" /\ open[r]
  BY <1>a DEF PendOK, Known
<1>d. /\ bal' = Seen(r) /\ UNCHANGED <<items, qty, call, line, onHand>>
      /\ pc'[r] = "done"
  BY <1>a, <1>c DEF Commit, Seen, local, TypeOK
<1>e. Article(r)' = i
  BY <1>a, <1>d DEF Article, Current
<1>f. Present(r)' /\ Shown(r)' = qty[i]
  BY <1>a, <1>d, <1>e DEF Present, Shown, Unfinished, Uncommitted
<1>g. \A d \in Depots : KeyAt(r, d) \in Keys
  BY <1>a, ArticleInHand
<1>1. CASE call[r].op = "create"
  <2>1. /\ qty[i] = Amount(r) /\ ~Present(r)
        /\ pend[r] = IF call[r].depot = NoDepot \/ Amount(r) = 0 THEN NoWrites
                     ELSE Wrote(r, call[r].depot, Amount(r))
    BY <1>1, <1>a DEF PendOK, CreateOK, Present, Unfinished
  <2>2. bal' = IF call[r].depot = NoDepot \/ Amount(r) = 0 THEN bal
               ELSE [bal EXCEPT ![KeyAt(r, call[r].depot)] = Amount(r)]
    <3>1. CASE call[r].depot = NoDepot \/ Amount(r) = 0
      BY <1>a, <1>d, <2>1, <3>1, CommitNone
    <3>2. CASE ~(call[r].depot = NoDepot \/ Amount(r) = 0)
      <4>1. PICK d \in Depots, v \in Int : d = call[r].depot /\ v = Amount(r)
        BY <1>b, <3>2
      <4>2. bal' = [bal EXCEPT ![KeyAt(r, d)] = v]
        BY <1>a, <1>d, <2>1, <3>2, <4>1, CommitOne
      <4>3. QED
        BY <3>2, <4>1, <4>2
    <3>3. QED
      BY <3>1, <3>2
  <2>3. QED
    BY <1>1, <1>e, <1>f, <2>1, <2>2 DEF Creates
<1>2. CASE call[r].op = "movement"
  <2>1. /\ Present(r) /\ Shown(r) = onHand[r] /\ qty[i] = onHand[r] + Delta(r, Base(r))
    BY <1>2, <1>a DEF PendOK, MovementOK, Present, Shown, Unfinished, Uncommitted
  <2>2. PICK q \in Int : q = Delta(r, Base(r))
    BY <1>b
  <2>3. CASE call[r].depot = NoDepot
    <3>1. bal' = bal
      BY <1>2, <1>a, <1>d, <2>3, CommitNone DEF PendOK, MovementOK
    <3>2. Shifts(r, q)
      BY <1>a, <1>f, <2>1, <2>2, <2>3, <3>1 DEF Shifts
    <3>3. QED
      BY <1>e, <3>2
  <2>4. CASE call[r].depot # NoDepot
    <3>1. inDepot[r] = DepotRow(r) /\ pend[r] = Wrote(r, call[r].depot, Base(r) + Delta(r, Base(r)))
      BY <1>2, <1>a, <2>4 DEF PendOK, MovementOK
    <3>2. Held(DepotRow(r)) = Base(r)
      BY <3>1 DEF Base, Held
    <3>3. bal' = [bal EXCEPT ![KeyAt(r, call[r].depot)] = Base(r) + q]
      <4>1. PICK d \in Depots, v \in Int : d = call[r].depot /\ v = Base(r) + q
        BY <1>b, <2>4
      <4>2. bal' = [bal EXCEPT ![KeyAt(r, d)] = v]
        BY <1>a, <1>d, <2>2, <3>1, <4>1, CommitOne
      <4>3. QED
        BY <4>1, <4>2
    <3>4. Base(r) + q >= 0
      <4>1. pend[r][KeyAt(r, call[r].depot)] = Base(r) + q
        BY <1>b, <1>g, <2>2, <2>4, <3>1 DEF Wrote, NoWrites
      <4>2. Base(r) + q # NoRow
        BY <1>b, SentinelsAssumption
      <4>3. QED
        BY <1>b, <1>g, <2>4, <4>1, <4>2 DEF PendingNonNegative
    <3>5. Shifts(r, q)
      BY <1>a, <1>f, <2>1, <2>2, <2>4, <3>2, <3>3, <3>4 DEF Shifts
    <3>6. QED
      BY <1>e, <3>5
  <2>5. QED
    BY <2>3, <2>4
<1>3. CASE call[r].op = "sale"
  <2>1. /\ Present(r) /\ Shown(r) = onHand[r] /\ qty[i] = onHand[r] - Amount(r)
    BY <1>3, <1>a DEF PendOK, SaleOK, Present, Shown, Unfinished, Uncommitted
  <2>2. PICK q \in Int : q = -Amount(r)
    BY <1>b
  <2>6. qty[i] = Shown(r) + q
    BY <1>b, <2>1, <2>2
  <2>3. CASE call[r].depot = NoDepot
    <3>1. bal' = bal
      BY <1>3, <1>a, <1>d, <2>3, CommitNone DEF PendOK, SaleOK
    <3>2. Shifts(r, q)
      BY <1>a, <1>f, <2>1, <2>6, <2>3, <3>1 DEF Shifts
    <3>3. QED
      BY <1>e, <3>2
  <2>4. CASE call[r].depot # NoDepot
    <3>1. DepotRow(r) \in Int /\ pend[r] = Wrote(r, call[r].depot, DepotRow(r) - Amount(r))
      BY <1>3, <1>a, <2>4 DEF PendOK, SaleOK, Debited
    <3>2. Held(DepotRow(r)) = DepotRow(r)
      BY <3>1, SentinelsAssumption DEF Held
    <3>3. PICK v \in Int : v = DepotRow(r) - Amount(r)
      BY <1>b, <3>1
    <3>4. v = Held(DepotRow(r)) + q
      BY <1>b, <2>2, <3>1, <3>2, <3>3
    <3>5. bal' = [bal EXCEPT ![KeyAt(r, call[r].depot)] = v]
      <4>1. PICK d \in Depots : d = call[r].depot
        BY <1>b, <2>4
      <4>2. bal' = [bal EXCEPT ![KeyAt(r, d)] = v]
        BY <1>a, <1>d, <3>1, <3>3, <4>1, CommitOne
      <4>3. QED
        BY <4>1, <4>2
    <3>6. v >= 0
      <4>1. pend[r][KeyAt(r, call[r].depot)] = v /\ v # NoRow
        BY <1>b, <1>g, <2>4, <3>1, <3>3, SentinelsAssumption DEF Wrote, NoWrites
      <4>2. QED
        BY <1>b, <1>g, <2>4, <4>1 DEF PendingNonNegative
    <3>7. Shifts(r, q)
      BY <1>a, <1>f, <2>1, <2>6, <2>4, <3>4, <3>5, <3>6 DEF Shifts
    <3>8. QED
      BY <1>e, <3>7
  <2>5. QED
    BY <2>3, <2>4
<1>4. CASE call[r].op = "transfer"
  <2>1. /\ Present(r) /\ Shown(r) = qty[i] /\ DepotRow(r) \in Int /\ DepotRow(r) >= Amount(r)
        /\ call[r].dest \in Depots /\ call[r].depot \in Depots
        /\ pend[r] = IF call[r].depot = call[r].dest
                     THEN Wrote(r, call[r].depot, DepotRow(r))
                     ELSE [Debited(r) EXCEPT ![KeyAt(r, call[r].dest)] = Held(DestRow(r)) + Amount(r)]
    BY <1>4, <1>a, LineInHand, CallsAssumption DEF PendOK, TransferOK, Present, Shown, Unfinished, Uncommitted
  <2>2. DepotRow(r) # NoRow
    BY <2>1, SentinelsAssumption
  <2>3. CASE call[r].depot = call[r].dest
    <3>1. bal' = [bal EXCEPT ![KeyAt(r, call[r].depot)] = DepotRow(r)]
      <4>1. PICK d \in Depots, v \in Int : d = call[r].depot /\ v = DepotRow(r)
        BY <2>1
      <4>2. bal' = [bal EXCEPT ![KeyAt(r, d)] = v]
        BY <1>a, <1>d, <2>1, <2>3, <4>1, CommitOne
      <4>3. QED
        BY <4>1, <4>2
    <3>2. bal' = bal
      BY <1>a, <3>1 DEF DepotRow, TypeOK
    <3>3. Transfers(r)
      BY <1>4, <1>b, <1>f, <2>1, <2>2, <2>3, <3>2 DEF Transfers
    <3>4. QED
      BY <1>e, <3>3
  <2>4. CASE call[r].depot # call[r].dest
    <3>1. DestRow(r) \in Rows
      BY <1>a, <1>g, <2>1 DEF DestRow, TypeOK
    <3>2. PICK v \in Int, w \in Int : v = DepotRow(r) - Amount(r) /\ w = Held(DestRow(r)) + Amount(r)
      BY <1>b, <2>1, <3>1, HeldType
    <3>3. pend[r] = [Wrote(r, call[r].depot, v) EXCEPT ![KeyAt(r, call[r].dest)] = w]
      BY <2>1, <2>4, <3>2 DEF Debited
    <3>4. bal' = [bal EXCEPT ![KeyAt(r, call[r].depot)] = v, ![KeyAt(r, call[r].dest)] = w]
      <4>1. PICK d \in Depots, e \in Depots : d = call[r].depot /\ e = call[r].dest /\ d # e
        BY <2>1, <2>4
      <4>2. pend[r] = WroteBoth(r, d, e, v, w) /\ TypeOK /\ bal' = Seen(r)
        BY <1>a, <1>d, <3>3, <4>1 DEF WroteBoth
      <4>3. bal' = [bal EXCEPT ![KeyAt(r, d)] = v, ![KeyAt(r, e)] = w]
        BY <4>1, <4>2, CommitTwo
      <4>4. QED
        BY <4>1, <4>3
    <3>5. bal' = [bal EXCEPT ![KeyAt(r, call[r].depot)] = DepotRow(r) - Amount(r),
                             ![KeyAt(r, call[r].dest)] = Held(DestRow(r)) + Amount(r)]
      BY <3>2, <3>4
    <3>6. Transfers(r)
      BY <1>4, <1>b, <1>f, <2>1, <2>2, <2>4, <3>5 DEF Transfers
    <3>7. QED
      BY <1>e, <3>6
  <2>5. QED
    BY <2>3, <2>4
<1>5. QED
  BY <1>b, <1>c, <1>1, <1>2, <1>3, <1>4

-----------------------------------------------------------------------------
(* The articles a step is not about are shown as before.                   *)
SameFor(i) == (i \in ItemsBar' <=> i \in ItemsBar) /\ QuantityBar'[i] = QuantityBar[i]

LEMMA ShownElsewhere ==
  ASSUME TypeInv, ApartInv, OneLine, ~Faults, NEW r \in Requests, Step(r), TypeOK',
         NEW i \in Items, i # Article(r) \/ Receive(r)
  PROVE  SameFor(i)
<1>a. /\ TypeOK /\ PendOwn(r) /\ OthersKept(r)
      /\ line'[r] \in 1 .. Len(call'[r].lines) /\ call'[r] \in Calls
  BY StepAlone DEF TypeInv, ApartInv, OwnOK, TypeOK
<1>1. \A o \in Requests \ {r} :
        /\ Article(o)' = Article(o) /\ onHand'[o] = onHand[o]
        /\ (Unfinished(o)' <=> Unfinished(o)) /\ (Uncommitted(o)' <=> Uncommitted(o))
  BY <1>a DEF OthersKept, Article, Current, Unfinished, Uncommitted
<1>2. CASE Receive(r)
  <2>1. UNCHANGED <<items, qty>> /\ pc[r] = "idle" /\ pc'[r] = "item"
    BY <1>2, <1>a DEF Receive, TypeOK
  <2>2. ~Unfinished(r) /\ ~Uncommitted(r) /\ ~Unfinished(r)' /\ ~Uncommitted(r)'
    BY <2>1 DEF Unfinished, Uncommitted
  <2>3. QED
    BY <1>1, <2>1, <2>2, BarAway DEF SameFor
<1>3. CASE ~Receive(r)
  <2>1. (i \in items' <=> i \in items) /\ qty'[i] = qty[i]
    BY <1>3, <1>a, StepWrites
  <2>2. Article(r)' = Article(r)
    <3>1. line[r] = 1 /\ UNCHANGED call
      BY <1>3, <1>a, OneArticle, StepCall
    <3>2. line'[r] \in 1 .. 1
      BY <1>a, <3>1 DEF OneLine
    <3>3. line'[r] = 1
      BY ONLY <3>2
    <3>4. QED
      BY <3>1, <3>3 DEF Article, Current
  <2>3. QED
    BY <1>1, <1>3, <2>1, <2>2, BarAway DEF SameFor
<1>4. QED
  BY <1>2, <1>3

(* The article in hand is shown as its request says.                       *)
LEMMA ShownHere ==
  ASSUME TypeInv, ApartInv, NEW r \in Requests, Step(r), ~Receive(r), ~Faults, Article(r)' = Article(r)
  PROVE  /\ Article(r) \in Items
         /\ Article(r) \in ItemsBar <=> Present(r)
         /\ QuantityBar[Article(r)] = Shown(r)
         /\ Article(r) \in ItemsBar' <=> Present(r)'
         /\ QuantityBar'[Article(r)] = Shown(r)'
<1>a. TypeOK /\ OthersKept(r) /\ Active(r) /\ Article(r) \in Items
  BY StepAlone, StepWrites, ArticleInHand DEF TypeInv, ApartInv, OwnOK
<1>1. \A o \in Requests \ {r} : Active(o) => Article(o) # Article(r)
  <2>1. SUFFICES ASSUME NEW o \in Requests \ {r}, Active(o), Article(o) = Article(r) PROVE FALSE
    OBVIOUS
  <2>2. Article(o) \in Articles(call[o]) /\ Article(r) \in Articles(call[r])
    BY <1>a, ArticleInHand
  <2>3. QED
    BY <1>a, <2>1, <2>2 DEF ApartInv, AloneOn
<1>2. \A o \in Requests \ {r} : Article(o)' = Article(o) /\ (Active(o)' <=> Active(o))
  BY <1>a DEF OthersKept, Article, Current, Active
<1>3. OnlyOn(r) /\ OnlyOn(r)'
  BY <1>a, <1>1, <1>2 DEF OnlyOn
<1>4. QED
  BY <1>a, <1>3, BarHere, BarNext DEF BarShows

(* A step whose effect is hidden.                                          *)
LEMMA BarStays ==
  ASSUME bal' = bal, \A i \in Items : SameFor(i), items \subseteq Items, items' \subseteq Items
  PROVE  UNCHANGED <<ItemsBar, QuantityBar, bal>>
<1>1. ItemsBar \subseteq Items /\ ItemsBar' \subseteq Items
  BY DEF ItemsBar
<1>2. ItemsBar' = ItemsBar
  BY <1>1 DEF SameFor
<1>3. QuantityBar' = [i \in Items |-> QuantityBar'[i]] /\ QuantityBar = [i \in Items |-> QuantityBar[i]]
  BY DEF QuantityBar
<1>4. QuantityBar' = QuantityBar
  BY <1>3 DEF SameFor
<1>5. QED
  BY <1>2, <1>4

(* What the shop is shown to hold once the article in hand has changed.    *)
LEMMA BarChanges ==
  ASSUME NEW i \in Items, \A j \in Items \ {i} : SameFor(j), items \subseteq Items, items' \subseteq Items
  PROVE  /\ QuantityBar' = [QuantityBar EXCEPT ![i] = QuantityBar'[i]]
         /\ ItemsBar' = IF i \in ItemsBar' THEN ItemsBar \cup {i} ELSE ItemsBar \ {i}
<1>1. ItemsBar \subseteq Items /\ ItemsBar' \subseteq Items
  BY DEF ItemsBar
<1>2. ItemsBar' = IF i \in ItemsBar' THEN ItemsBar \cup {i} ELSE ItemsBar \ {i}
  BY <1>1 DEF SameFor
<1>3. QuantityBar' = [j \in Items |-> QuantityBar'[j]] /\ QuantityBar = [j \in Items |-> QuantityBar[j]]
  BY DEF QuantityBar
<1>4. QuantityBar' = [QuantityBar EXCEPT ![i] = QuantityBar'[i]]
  BY <1>3 DEF SameFor
<1>5. QED
  BY <1>2, <1>4

-----------------------------------------------------------------------------
(* Every step is a step of AbstractStock on what is shown, or leaves it.   *)
Shop == /\ StockInv /\ JournalInv /\ RowsInv /\ ApartInv /\ WritesInv
        /\ OneLine /\ Apart /\ ~Faults /\ Amounts = Int

LEMMA HiddenStep ==
  ASSUME Shop, TypeOK', NEW r \in Requests, Step(r), ~Receive(r), Hidden(r)
  PROVE  UNCHANGED A!vars
<1>1. TypeInv /\ ApartInv /\ OneLine /\ ~Faults /\ items \subseteq Items /\ items' \subseteq Items
  BY DEF Shop, StockInv, TypeInv, TypeOK
<1>2. SameFor(Article(r)) /\ bal' = bal
  BY <1>1, ShownHere DEF Hidden, SameFor
<1>3. \A i \in Items : SameFor(i)
  BY <1>1, <1>2, ShownElsewhere
<1>4. QED
  BY <1>1, <1>2, <1>3, BarStays DEF A!vars

LEMMA RemoveStep ==
  ASSUME Shop, TypeOK', NEW r \in Requests, RemoveDelete(r), Article(r) \in items
  PROVE  A!Remove(Article(r))
<1>a. /\ TypeInv /\ ApartInv /\ OneLine /\ ~Faults /\ items \subseteq Items /\ items' \subseteq Items
      /\ Step(r) /\ ~Receive(r) /\ TypeOK
  BY DEF Shop, StockInv, TypeInv, TypeOK, Step, Handler, RemoveDelete, At, Receive
<1>1. /\ call[r].op = "remove" /\ UNCHANGED <<call, line>> /\ Article(r) \notin items'
      /\ bal' = [k \in Keys |-> IF k[1] = Article(r) THEN NoRow ELSE bal[k]]
  BY DEF RemoveDelete, At, local
<1>2. Article(r)' = Article(r)
  BY <1>1 DEF Article, Current
<1>3. Present(r) /\ ~Present(r)' /\ Shown(r)' = 0
  BY <1>1, <1>2 DEF Present, Shown, Unfinished
<1>4. PICK i \in Items : i = Article(r)
  BY <1>a, ShownHere, <1>2
<1>5. i \in ItemsBar /\ i \notin ItemsBar' /\ QuantityBar'[i] = 0
  BY <1>a, <1>2, <1>3, <1>4, ShownHere
<1>6. \A j \in Items \ {i} : SameFor(j)
  BY <1>a, <1>4, ShownElsewhere
<1>7. QuantityBar' = [QuantityBar EXCEPT ![i] = 0] /\ ItemsBar' = ItemsBar \ {i}
  BY <1>a, <1>5, <1>6, BarChanges
<1>8. QED
  BY <1>1, <1>4, <1>5, <1>7 DEF A!Remove, Keys

LEMMA CommitStep ==
  ASSUME Shop, TypeOK', NEW r \in Requests, Commit(r), Article(r) \in items
  PROVE  A!Next
<1>a. /\ TypeInv /\ ApartInv /\ OneLine /\ ~Faults /\ items \subseteq Items /\ items' \subseteq Items
      /\ Step(r) /\ ~Receive(r) /\ TypeOK /\ Early(r) /\ Newborn(r) /\ PendOK(r)
      /\ NonNegative /\ PendingNonNegative
  BY DEF Shop, StockInv, WritesInv, TypeInv, TypeOK, Step, Handler, Commit, Receive
<1>b. Active(r) /\ Known(r, Article(r))
  BY <1>a, StepWrites, KnownOf DEF ApartInv, OwnOK
<1>1. PICK i \in Items : i = Article(r)
  BY <1>a
<1>2. Article(r)' = i /\ (Creates(r) \/ Transfers(r) \/ \E q \in Int : Shifts(r, q))
  BY <1>a, <1>b, <1>1, CommitHere
<1>3. /\ i \in ItemsBar <=> Present(r)
      /\ QuantityBar[i] = Shown(r)
      /\ i \in ItemsBar' <=> Present(r)'
      /\ QuantityBar'[i] = Shown(r)'
  BY <1>a, <1>1, <1>2, ShownHere
<1>4. \A j \in Items \ {i} : SameFor(j)
  BY <1>a, <1>1, ShownElsewhere
<1>5. /\ QuantityBar' = [QuantityBar EXCEPT ![i] = Shown(r)']
      /\ ItemsBar' = IF i \in ItemsBar' THEN ItemsBar \cup {i} ELSE ItemsBar \ {i}
  BY <1>a, <1>3, <1>4, BarChanges
<1>6. /\ Amount(r) \in Nat /\ call[r].depot \in Depots \cup {NoDepot}
      /\ call[r].op = "transfer" => call[r].dest \in Depots /\ call[r].depot \in Depots
      /\ \A d : KeyAt(r, d) = <<i, d>>
  BY <1>a, <1>1, LineInHand, CallsAssumption DEF Call, KeyAt
<1>7. CASE Creates(r)
  <2>1. A!Create(i, call[r].depot, Amount(r))
    BY <1>3, <1>5, <1>6, <1>7 DEF Creates, A!Create
  <2>2. Amount(r) \in Amounts /\ Amount(r) >= 0
    BY <1>6 DEF Shop
  <2>3. QED
    BY <1>6, <2>1, <2>2 DEF A!Next
<1>8. CASE Transfers(r)
  <2>1. Amount(r) \in Amounts /\ Amount(r) >= 0
    BY <1>6 DEF Shop
  <2>2. UNCHANGED <<ItemsBar, QuantityBar>>
    <3>1. ItemsBar' = ItemsBar /\ QuantityBar' = [QuantityBar EXCEPT ![i] = QuantityBar[i]]
      BY <1>3, <1>5, <1>8 DEF Transfers
    <3>2. QED
      BY <3>1 DEF QuantityBar
  <2>3. A!Transfer(i, call[r].depot, call[r].dest, Amount(r))
    BY <1>3, <1>6, <1>8, <2>2 DEF Transfers, A!Transfer, A!Held, Held, DepotRow, DestRow
  <2>4. QED
    BY <1>6, <1>8, <2>1, <2>3 DEF A!Next, Transfers
<1>9. CASE \E q \in Int : Shifts(r, q)
  <2>1. PICK q \in Int : Shifts(r, q)
    BY <1>9
  <2>2. A!Shift(i, call[r].depot, q)
    <3>1. i \in ItemsBar /\ ItemsBar' = ItemsBar
      BY <1>3, <1>5, <2>1 DEF Shifts
    <3>2. QuantityBar[i] + q >= 0 /\ QuantityBar' = [QuantityBar EXCEPT ![i] = @ + q]
      BY <1>3, <1>5, <2>1 DEF Shifts
    <3>3. /\ call[r].depot # NoDepot => A!Held(i, call[r].depot) + q >= 0
          /\ bal' = IF call[r].depot = NoDepot THEN bal
                    ELSE [bal EXCEPT ![<<i, call[r].depot>>] = A!Held(i, call[r].depot) + q]
      <4>1. KeyAt(r, call[r].depot) = <<i, call[r].depot>>
        BY <1>6
      <4>2. Held(DepotRow(r)) = A!Held(i, call[r].depot)
        BY <4>1 DEF A!Held, Held, DepotRow
      <4>3. QED
        BY <2>1, <4>1, <4>2 DEF Shifts
    <3>4. QED
      BY <3>1, <3>2, <3>3 DEF A!Shift
  <2>3. QED
    BY <1>6, <2>2 DEF A!Next, Shop
<1>10. QED
  BY <1>2, <1>7, <1>8, <1>9

LEMMA AtomicStep ==
  ASSUME Shop, TypeOK', NEW r \in Requests, Step(r)
  PROVE  [A!Next]_A!vars
<1>a. /\ TypeInv /\ ApartInv /\ OneLine /\ ~Faults /\ items \subseteq Items /\ items' \subseteq Items
      /\ TypeOK /\ Early(r) /\ Newborn(r) /\ PendOK(r) /\ ~DeadlockVictim(r) /\ StockInv /\ RowsInv
  BY NoVictim DEF Shop, StockInv, WritesInv, TypeInv, TypeOK
<1>1. CASE Receive(r)
  <2>1. bal' = bal
    BY <1>1 DEF Receive
  <2>2. \A i \in Items : SameFor(i)
    BY <1>1, <1>a, ShownElsewhere
  <2>3. QED
    BY <1>a, <2>1, <2>2, BarStays DEF A!vars
<1>2. CASE CreateItem(r)
  <2>1. /\ ~Receive(r) /\ call[r].op = "create" /\ UNCHANGED <<bal, call, line>>
        /\ pc'[r] \in {"credit", "commit"}
    BY <1>2, <1>a DEF CreateItem, At, Proceed, local, Receive, TypeOK
  <2>2. Article(r) \notin items
    BY <1>2 DEF CreateItem, At, Shop, JournalInv, Unborn, Creating
  <2>3. Article(r)' = Article(r) /\ ~Present(r) /\ ~Present(r)'
    BY <2>1, <2>2 DEF Present, Unfinished, Article, Current
  <2>4. Hidden(r)
    BY <2>1, <2>3 DEF Hidden, Shown
  <2>5. QED
    BY <2>1, <2>4, HiddenStep
<1>3. CASE ~Receive(r) /\ ~CreateItem(r) /\ Article(r) \notin items
  <2>1. UNCHANGED <<items, bal, call, line>>
    BY <1>3, <1>a, GoneRefused
  <2>2. Article(r)' = Article(r) /\ ~Present(r) /\ ~Present(r)'
    BY <1>3, <2>1 DEF Present, Article, Current
  <2>3. Hidden(r)
    BY <2>1, <2>2 DEF Hidden, Shown
  <2>4. QED
    BY <1>3, <2>3, HiddenStep
<1>4. CASE RemoveDelete(r) /\ Article(r) \in items
  BY <1>4, <1>a, RemoveStep DEF A!Next
<1>5. CASE Commit(r) /\ Article(r) \in items
  BY <1>5, <1>a, CommitStep
<1>6. CASE /\ ~Receive(r) /\ ~CreateItem(r) /\ ~RemoveDelete(r) /\ ~Commit(r)
           /\ Article(r) \in items
  <2>1. Known(r, Article(r))
    BY <1>6, <1>a, StepWrites, KnownOf DEF ApartInv, OwnOK
  <2>2. Hidden(r)
    BY <1>6, <1>a, <2>1, ShownMove
  <2>3. QED
    BY <1>6, <2>2, HiddenStep
<1>7. QED
  BY <1>1, <1>2, <1>3, <1>4, <1>5, <1>6

LEMMA AtomicInit == Init => A!Init
<1> SUFFICES ASSUME Init PROVE A!Init
  OBVIOUS
<1>1. \A r \in Requests : ~Unfinished(r) /\ ~Uncommitted(r)
  BY DEF Init, Unfinished, Uncommitted
<1>2. ItemsBar = OpeningItems
  BY <1>1 DEF Init, ItemsBar
<1>3. ASSUME NEW i \in Items PROVE QuantityBar[i] \in Nat
  <2>1. {r \in Requests : Uncommitted(r) /\ Article(r) = i} = {}
    BY <1>1
  <2>2. QuantityBar[i] = IF i \in ItemsBar THEN qty[i] ELSE 0
    BY <2>1 DEF QuantityBar
  <2>3. qty[i] \in Nat
    BY OpeningAssumption DEF Init
  <2>4. QED
    BY <2>2, <2>3
<1>4. QuantityBar \in [Items -> Nat]
  BY <1>3 DEF QuantityBar
<1>5. QED
  BY <1>2, <1>4, OpeningAssumption DEF Init, A!Init, Keys

(* AtomicStock for every instance: as long as requests on one article are  *)
(* kept apart, no call fails and every sale has one line, each handler     *)
(* takes effect on the article, its quantity and its depots at once, at    *)
(* its commit (at the delete for a removal), or not at all.                *)
THEOREM HandlersAtomic ==
  ASSUME Orderly, OneLine, Amounts = Int
  PROVE  Spec => AtomicStock
<1> DEFINE Inv == StockInv /\ JournalInv /\ RowsInv /\ ApartInv /\ WritesInv
<1>1. Init => Inv
  BY StockInit, JournalInvInit, RowsInit, ApartInit, WritesInit
<1>2. Inv /\ [Next]_vars => Inv'
  <2> SUFFICES ASSUME Inv, [Next]_vars PROVE Inv'
    OBVIOUS
  <2>1. StockInv' /\ JournalInv'
    BY StockStep, JournalStep DEF StockInv
  <2>2. CASE UNCHANGED vars
    <3>1. UNCHANGED <<items, qty, bal, pend, open, pc, call, line, onHand, inDepot>>
      BY <2>2 DEF vars, store, local
    <3>2. RowsInv'
      BY <3>1 DEF RowsInv
    <3>3. ApartInv'
      BY <3>1, ApartStutter
    <3>4. \A r \in Requests : PendOK(r)'
      BY <3>1, SameRows DEF WritesInv, PendOK, CreateOK, MovementOK, SaleOK, TransferOK, Active
    <3>5. \A r \in Requests : Early(r)' /\ Newborn(r)'
      BY <3>1, SameRows DEF WritesInv, Early, Newborn
    <3>6. QED
      BY <2>1, <3>2, <3>3, <3>4, <3>5 DEF WritesInv
  <2>3. CASE \E r \in Requests : Step(r)
    <3>1. PICK r \in Requests : Step(r)
      BY <2>3
    <3>2. RowsInv' /\ ApartInv' /\ WritesInv'
      BY <3>1, RowsStep, ApartStep, WritesStep DEF StockInv, Orderly
    <3>3. QED
      BY <2>1, <3>2
  <2>4. QED
    BY <2>2, <2>3 DEF Next, AllAnswered, Step
<1>3. Init => A!Init
  BY AtomicInit
<1>4. Inv /\ Inv' /\ [Next]_vars => [A!Next]_A!vars
  <2> SUFFICES ASSUME Inv, Inv', [Next]_vars PROVE [A!Next]_A!vars
    OBVIOUS
  <2>1. Shop /\ TypeOK'
    BY DEF Shop, Orderly, StockInv, TypeInv
  <2>2. CASE UNCHANGED vars
    <3>1. UNCHANGED <<items, qty, bal, pc, call, line, onHand>>
      BY <2>2 DEF vars, store, local
    <3>2. \A r \in Requests : /\ Article(r)' = Article(r)
                              /\ Unfinished(r)' <=> Unfinished(r)
                              /\ Uncommitted(r)' <=> Uncommitted(r)
      BY <3>1 DEF Article, Current, Unfinished, Uncommitted
    <3>3. \A i \in Items : SameFor(i)
      BY <3>1, <3>2, BarAway DEF SameFor
    <3>4. items \subseteq Items /\ items' \subseteq Items
      BY DEF StockInv, TypeInv, TypeOK
    <3>5. QED
      BY <3>1, <3>3, <3>4, BarStays DEF A!vars
  <2>3. CASE \E r \in Requests : Step(r)
    BY <2>1, <2>3, AtomicStep
  <2>4. QED
    BY <2>2, <2>3 DEF Next, AllAnswered, Step
<1>5. QED
  BY <1>1, <1>2, <1>3, <1>4, PTL DEF Spec, AtomicStock, A!Spec
=============================================================================
