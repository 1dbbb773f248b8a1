---------------------------- MODULE BillingProofs ----------------------------
(***************************************************************************)
(* Proofs about module Billing and its books, for every set of requests    *)
(* and documents.                                                          *)
(***************************************************************************)
EXTENDS BillingBooks, SumProofs

USE DocsAssumption, BillingAssumption

LEMMA SceneFacts ==
  ASSUME scene \in Scenes
  PROVE  scene.requests \subseteq Requests /\ scene.calls \subseteq Call /\ scene.calls # {}
<1>1. scene \in SceneKind
  OBVIOUS
<1>2. scene.requests \in SUBSET Requests /\ scene.calls \in (SUBSET Call) \ {{}}
  BY <1>1, Zenon DEF SceneKind
<1>3. QED
  BY <1>2

LEMMA CallInHand ==
  ASSUME TypeOK, NEW r \in Requests
  PROVE  /\ call[r] \in Call /\ call[r].amount \in Nat /\ call[r].status \in Statuses
         /\ Doc(r) \in Docs \cup {NoDoc}
<1>1. call[r] \in Call
  BY SceneFacts DEF TypeOK
<1>2. QED
  BY <1>1 DEF Call, Doc

LEMMA LineFacts ==
  /\ \A n \in Nat : n > 0 => StockLinesFrom(n) \subseteq StockLinesFrom(1)
  /\ StockLinesFrom(1) \subseteq Nat
  /\ \A n \in StockLinesFrom(1) : Lines[n].item \in Items /\ Lines[n].quantity \in Nat
<1>1. Len(Lines) \in Nat
  OBVIOUS
<1>2. \A n \in 1 .. Len(Lines) : Lines[n] \in [item : Items \cup {NoItem}, quantity : Nat]
  <2> DEFINE Line == [item : Items \cup {NoItem}, quantity : Nat]
  <2>1. Lines \in Seq(Line)
    OBVIOUS
  <2> HIDE DEF Line
  <2>2. \A n \in 1 .. Len(Lines) : Lines[n] \in Line
    BY <2>1
  <2>3. QED
    BY <2>2 DEF Line
<1>3. QED
  BY <1>1, <1>2 DEF StockLinesFrom

LEMMA TypeInit == Init => TypeOK
<1> SUFFICES ASSUME Init PROVE TypeOK
  OBVIOUS
<1>1. (CHOOSE c \in scene.calls : TRUE) \in scene.calls
  BY SceneFacts DEF Init
<1>2. QED
  BY <1>1 DEF Init, TypeOK, Docs, Types, Statuses, Labels

(* What a request that goes to another label, or refuses, does to pc.      *)
LEMMA ProceedType ==
  ASSUME TypeOK, NEW r \in Requests, NEW l \in Labels \ {"decrement", "journal"},
         Proceed(r, l), UNCHANGED line
  PROVE  /\ pc' \in [Requests -> Labels]
         /\ line' \in [Requests -> Nat]
         /\ \A o \in Requests : pc'[o] \in {"decrement", "journal"} => line'[o] \in StockLinesFrom(1)
BY DEF TypeOK, Proceed

LEMMA DeductType ==
  ASSUME TypeOK, NEW r \in Requests, NEW n \in Nat, n > 0, DeductFrom(r, n)
  PROVE  /\ pc' \in [Requests -> Labels]
         /\ line' \in [Requests -> Nat]
         /\ \A o \in Requests : pc'[o] \in {"decrement", "journal"} => line'[o] \in StockLinesFrom(1)
<1>1. CASE StockLinesFrom(n) = {}
  <2>1. Proceed(r, "done") /\ UNCHANGED line
    BY <1>1 DEF DeductFrom
  <2>2. "done" \in Labels \ {"decrement", "journal"}
    BY DEF Labels
  <2>3. QED
    BY <2>1, <2>2, ProceedType
<1>2. CASE StockLinesFrom(n) # {}
  <2>1. PICK k \in StockLinesFrom(n) : line' = [line EXCEPT ![r] = k]
    BY <1>2 DEF DeductFrom
  <2>2. Proceed(r, "decrement")
    BY <1>2 DEF DeductFrom
  <2>3. k \in StockLinesFrom(1) /\ k \in Nat
    BY LineFacts
  <2>4. QED
    BY <2>1, <2>2, <2>3 DEF TypeOK, Proceed, Labels
<1>3. QED
  BY <1>1, <1>2

LEMMA TypeStep == TypeOK /\ [Next]_vars => TypeOK'
<1> SUFFICES ASSUME TypeOK, [Next]_vars PROVE TypeOK'
  OBVIOUS
<1> USE DEF At, Refuse, Active
<1>1. CASE UNCHANGED vars
  BY <1>1 DEF TypeOK, vars, documents, books, seen
<1>2. ASSUME NEW r \in Requests, Handler(r) \/ Fail(r), UNCHANGED scene PROVE TypeOK'
  <2> DEFINE PcLine == /\ pc' \in [Requests -> Labels]
                       /\ line' \in [Requests -> Nat]
                       /\ \A o \in Requests : pc'[o] \in {"decrement", "journal"}
                                                => line'[o] \in StockLinesFrom(1)
  <2> USE <1>2 DEF documents, books, seen
  <2>c. /\ call[r] \in Call /\ call[r].amount \in Nat /\ call[r].status \in Statuses
        /\ Doc(r) \in Docs \cup {NoDoc}
    BY CallInHand
  <2>l. Labels \ {"decrement", "journal"} =
          {"idle", "number", "create", "read", "accept", "delete", "write",
           "installment", "done", "refused", "failed"}
    BY DEF Labels
  <2>d. r \in Docs /\ quotes \subseteq Docs /\ invoices \subseteq Docs
    BY DEF Docs, TypeOK
  <2>1. CASE Receive(r)
    <3>1. PcLine
      BY <2>1, <2>l, ProceedType DEF Receive
    <3>2. call' \in [Requests -> scene'.calls]
      BY <2>1 DEF Receive, TypeOK
    <3>3. QED
      BY <2>1, <3>1, <3>2 DEF Receive, TypeOK
  <2>2. CASE DrawNumber(r)
    <3>1. PcLine
      BY <2>2, <2>l, ProceedType DEF DrawNumber
    <3>2. TypeOf(r) \in Types /\ lastNumber[TypeOf(r)] + 1 \in Nat
      BY DEF TypeOf, Types, TypeOK
    <3>3. lastNumber' \in [Types -> Nat] /\ drawn' \in [Requests -> Nat]
      BY <2>2, <3>2 DEF DrawNumber, TypeOK
    <3>4. QED
      BY <2>2, <3>1, <3>3 DEF DrawNumber, TypeOK
  <2>3. CASE CreateQuote(r)
    <3>1. PcLine
      BY <2>3, <2>l, ProceedType DEF CreateQuote
    <3>2. QED
      BY <2>3, <2>d, <3>1 DEF CreateQuote, TypeOK
  <2>4. CASE ReadQuote(r)
    <3>1. PcLine
      BY <2>4, <2>l, ProceedType DEF ReadQuote
    <3>2. QED
      BY <2>4, <3>1 DEF ReadQuote, TypeOK
  <2>5. CASE CreateInvoice(r)
    <3>1. PcLine
      BY <2>5, <2>l, ProceedType DEF CreateInvoice
    <3>2. source' \in [Docs -> Docs \cup {NoDoc}] /\ invoices' \subseteq Docs
      BY <2>5, <2>c, <2>d DEF CreateInvoice, TypeOK
    <3>3. QED
      BY <2>5, <3>1, <3>2 DEF CreateInvoice, TypeOK
  <2>6. CASE AcceptQuote(r)
    <3>1. PcLine
      BY <2>6, <2>l, ProceedType DEF AcceptQuote
    <3>2. status' \in [Docs -> Statuses]
      BY <2>6 DEF AcceptQuote, TypeOK, Statuses
    <3>3. QED
      BY <2>6, <3>1, <3>2 DEF AcceptQuote, TypeOK
  <2>7. CASE DeleteQuote(r)
    <3>1. PcLine
      BY <2>7, <2>l, ProceedType DEF DeleteQuote
    <3>2. source' \in [Docs -> Docs \cup {NoDoc}] /\ quotes' \subseteq Docs
      BY <2>7 DEF DeleteQuote, TypeOK
    <3>3. QED
      BY <2>7, <3>1, <3>2 DEF DeleteQuote, TypeOK
  <2>8. CASE ReadInvoice(r)
    <3>1. PcLine
      BY <2>8, <2>l, ProceedType DEF ReadInvoice
    <3>2. seenStatus' \in [Requests -> Statuses] /\ seenPaid' \in [Requests -> Nat]
      <4>1. \A d \in Docs : status[d] \in Statuses /\ paid[d] \in Nat
        BY DEF TypeOK
      <4>2. Doc(r) \in invoices => Doc(r) \in Docs
        BY <2>d
      <4>3. QED
        BY <2>8, <4>1, <4>2 DEF ReadInvoice, TypeOK
    <3>3. QED
      BY <2>8, <3>1, <3>2 DEF ReadInvoice, TypeOK
  <2>9. CASE DeleteInvoice(r)
    <3>1. PcLine
      BY <2>9, <2>l, ProceedType DEF DeleteInvoice
    <3>2. QED
      BY <2>9, <3>1 DEF DeleteInvoice, TypeOK
  <2>10. CASE WriteStatus(r)
    <3>1. PcLine
      BY <2>10, <2>l, ProceedType, DeductType DEF WriteStatus
    <3>2. status' \in [Docs -> Statuses]
      BY <2>10, <2>c DEF WriteStatus, TypeOK
    <3>3. QED
      BY <2>10, <3>1, <3>2 DEF WriteStatus, TypeOK
  <2>11. CASE WritePayment(r)
    <3>1. PcLine
      BY <2>11, <2>l, ProceedType DEF WritePayment
    <3>2. NewPaid(r) \in Nat
      BY <2>c DEF NewPaid, TypeOK
    <3>3. paid' \in [Docs -> Nat]
      BY <2>11, <3>2 DEF WritePayment, TypeOK
    <3>4. status' \in [Docs -> Statuses]
      BY <2>11 DEF WritePayment, TypeOK, Statuses
    <3>5. QED
      BY <2>11, <3>1, <3>3, <3>4 DEF WritePayment, TypeOK
  <2>12. CASE RecordInstallment(r)
    <3>1. PcLine
      BY <2>12, <2>l, ProceedType, DeductType DEF RecordInstallment
    <3>2. installments' \subseteq [by : Requests, invoice : Docs \cup {NoDoc}, amount : Nat]
      BY <2>12, <2>c DEF RecordInstallment, TypeOK
    <3>3. QED
      BY <2>12, <3>1, <3>2 DEF RecordInstallment, TypeOK
  <2>13. CASE DecrementStock(r)
    <3>1. line[r] \in StockLinesFrom(1)
      BY <2>13 DEF DecrementStock, TypeOK
    <3>2. Lines[line[r]].item \in Items /\ Lines[line[r]].quantity \in Nat
      BY <3>1, LineFacts
    <3>3. qty' \in [Items -> Int]
      BY <2>13, <3>2 DEF DecrementStock, TypeOK
    <3>4. PcLine
      BY <2>13, <3>1 DEF DecrementStock, Proceed, TypeOK, Labels
    <3>5. QED
      BY <2>13, <3>3, <3>4 DEF DecrementStock, TypeOK
  <2>14. CASE JournalDecrement(r)
    <3>1. line[r] \in Nat
      BY DEF TypeOK
    <3>2. PcLine
      BY <2>14, <3>1, DeductType DEF JournalDecrement
    <3>3. movements' \subseteq [by : Requests, invoice : Docs \cup {NoDoc}, line : Nat]
      BY <2>14, <2>c, <3>1 DEF JournalDecrement, TypeOK
    <3>4. QED
      BY <2>14, <3>2, <3>3 DEF JournalDecrement, TypeOK
  <2>15. CASE Fail(r)
    <3>1. PcLine
      BY <2>15, <2>l, ProceedType DEF Fail
    <3>2. QED
      BY <2>15, <3>1 DEF Fail, TypeOK
  <2>16. QED
    BY <2>1, <2>2, <2>3, <2>4, <2>5, <2>6, <2>7, <2>8, <2>9, <2>10, <2>11, <2>12, <2>13,
       <2>14, <2>15 DEF Handler
<1>3. QED
  BY <1>1, <1>2 DEF Next, AllAnswered

(* Billing keeps its types, whatever is called, in whatever order, and     *)
(* whatever fails.                                                         *)
THEOREM BillingTypeCorrect == Spec => []TypeOK
<1>1. Init => TypeOK
  BY TypeInit
<1>2. TypeOK /\ [Next]_vars => TypeOK'
  BY TypeStep
<1>3. QED
  BY <1>1, <1>2, PTL DEF Spec

-----------------------------------------------------------------------------
(* Numbers.  DistinctNumbers is not inductive: a drawn number must also be *)
(* known to be at most the sequence's last value, and a request that has   *)
(* not arrived to have drawn none, since its handler may still change.     *)
NumberInv ==
  /\ \A t \in Types : lastNumber[t] >= 1
  /\ \A r \in Requests : pc[r] = "idle" => drawn[r] = 0
  /\ \A r \in Requests : drawn[r] # 0 => drawn[r] <= lastNumber[TypeOf(r)]
  /\ DistinctNumbers

LEMMA NumberInit == Init => NumberInv
BY DEF Init, NumberInv, DistinctNumbers, TypeOf, Types

LEMMA TypeOfType == \A r : TypeOf(r) \in Types
BY DEF TypeOf, Types

(* A step that draws no number and lets no request arrive.                 *)
LEMMA NumberFrame ==
  ASSUME TypeOK, NumberInv, UNCHANGED <<lastNumber, drawn, call>>,
         NEW r \in Requests, pc[r] # "idle", NEW l \in Labels \ {"idle"}, Proceed(r, l)
  PROVE  NumberInv'
<1>1. \A o \in Requests : TypeOf(o)' = TypeOf(o)
  BY DEF TypeOf
<1>2. \A o \in Requests : pc'[o] = "idle" => pc[o] = "idle"
  BY DEF Proceed, TypeOK
<1>3. QED
  BY <1>1, <1>2 DEF NumberInv, DistinctNumbers

LEMMA NumberStep == TypeOK /\ NumberInv /\ [Next]_vars => NumberInv'
<1> SUFFICES ASSUME TypeOK, NumberInv, [Next]_vars PROVE NumberInv'
  OBVIOUS
<1>1. CASE UNCHANGED vars
  BY <1>1 DEF NumberInv, DistinctNumbers, TypeOf, vars, books
<1>2. ASSUME NEW r \in Requests, Receive(r) PROVE NumberInv'
  <2>1. PICK c \in scene.calls : call' = [call EXCEPT ![r] = c]
    BY <1>2 DEF Receive
  <2>2. pc[r] = "idle" /\ drawn[r] = 0
    BY <1>2 DEF Receive, NumberInv
  <2>3. UNCHANGED <<lastNumber, drawn>>
    BY <1>2 DEF Receive, books
  <2>4. \A o \in Requests \ {r} : TypeOf(o)' = TypeOf(o)
    BY <2>1 DEF TypeOf, TypeOK
  <2>5. \A o \in Requests : pc'[o] = "idle" => pc[o] = "idle"
    BY <1>2 DEF Receive, Proceed, TypeOK
  <2>6. QED
    BY <2>2, <2>3, <2>4, <2>5 DEF NumberInv, DistinctNumbers
<1>3. ASSUME NEW r \in Requests, DrawNumber(r) PROVE NumberInv'
  <2>1. TypeOf(r) \in Types /\ lastNumber[TypeOf(r)] \in Nat
    BY TypeOfType DEF TypeOK
  <2>2. /\ lastNumber' = [lastNumber EXCEPT ![TypeOf(r)] = lastNumber[TypeOf(r)] + 1]
        /\ drawn' = [drawn EXCEPT ![r] = lastNumber[TypeOf(r)] + 1]
        /\ UNCHANGED call
    BY <1>3 DEF DrawNumber
  <2>3. \A o \in Requests : TypeOf(o)' = TypeOf(o) /\ TypeOf(o) \in Types
    BY <2>2, TypeOfType DEF TypeOf
  <2>4. \A o \in Requests : pc'[o] = "idle" => pc[o] = "idle" /\ o # r
    BY <1>3 DEF DrawNumber, Proceed, TypeOK
  <2>5. \A t \in Types : lastNumber'[t] \in Nat /\ lastNumber'[t] >= lastNumber[t]
    BY <2>1, <2>2 DEF TypeOK
  <2>6. \A o \in Requests \ {r} : drawn'[o] = drawn[o] /\ drawn[o] \in Nat
    BY <2>2 DEF TypeOK
  <2>7. drawn'[r] = lastNumber[TypeOf(r)] + 1 /\ lastNumber'[TypeOf(r)] = lastNumber[TypeOf(r)] + 1
    BY <2>1, <2>2 DEF TypeOK
  <2>8. \A o \in Requests : drawn'[o] # 0 => drawn'[o] <= lastNumber'[TypeOf(o)] /\ drawn'[o] > 1
    <3>1. \A o \in Requests \ {r} : drawn[o] # 0 => drawn[o] <= lastNumber[TypeOf(o)] /\ drawn[o] > 1
      BY DEF NumberInv, DistinctNumbers
    <3>2. \A o \in Requests : TypeOf(o) \in Types /\ lastNumber[TypeOf(o)] \in Nat
      BY <2>3 DEF TypeOK
    <3>3. \A o \in Requests \ {r} : drawn'[o] # 0 => drawn'[o] <= lastNumber'[TypeOf(o)] /\ drawn'[o] > 1
      BY <2>5, <2>6, <3>1, <3>2
    <3>4. lastNumber[TypeOf(r)] >= 1
      BY <2>1 DEF NumberInv
    <3>5. QED
      BY <2>1, <2>7, <3>3, <3>4
  <2>9. \A o \in Requests \ {r} : TypeOf(o) = TypeOf(r) => drawn'[o] # drawn'[r]
    BY <2>1, <2>6, <2>7 DEF NumberInv
  <2>10. DistinctNumbers'
    BY <2>3, <2>6, <2>8, <2>9 DEF NumberInv, DistinctNumbers
  <2>11. \A o \in Requests : pc'[o] = "idle" => drawn'[o] = 0
    BY <2>4, <2>6 DEF NumberInv
  <2>12. \A t \in Types : lastNumber'[t] >= 1
    BY <2>5 DEF NumberInv, TypeOK
  <2>13. QED
    BY <2>3, <2>8, <2>10, <2>11, <2>12 DEF NumberInv
<1>4. ASSUME NEW r \in Requests, Handler(r) \/ Fail(r), ~Receive(r), ~DrawNumber(r)
      PROVE  NumberInv'
  <2>1. UNCHANGED <<lastNumber, drawn, call>>
    BY <1>4 DEF Handler, Fail, CreateQuote, ReadQuote, CreateInvoice, AcceptQuote, DeleteQuote,
       ReadInvoice, DeleteInvoice, WriteStatus, WritePayment, RecordInstallment,
       DecrementStock, JournalDecrement, books, seen
  <2>2. pc[r] # "idle"
    BY <1>4 DEF Handler, Fail, Active, At, CreateQuote, ReadQuote, CreateInvoice, AcceptQuote,
       DeleteQuote, ReadInvoice, DeleteInvoice, WriteStatus, WritePayment, RecordInstallment,
       DecrementStock, JournalDecrement
  <2>3. \E l \in Labels \ {"idle"} : Proceed(r, l)
    BY <1>4 DEF Handler, Fail, CreateQuote, ReadQuote, CreateInvoice, AcceptQuote, DeleteQuote,
       ReadInvoice, DeleteInvoice, WriteStatus, WritePayment, RecordInstallment, DeductFrom,
       DecrementStock, JournalDecrement, Refuse, Labels
  <2>4. QED
    BY <2>1, <2>2, <2>3, NumberFrame
<1>5. QED
  BY <1>1, <1>2, <1>3, <1>4 DEF Next, AllAnswered

(* No two quotes and no two invoices ever get the same number, however     *)
(* many requests draw one and whatever is deleted or fails meanwhile.      *)
THEOREM NumbersDistinct == Spec => []DistinctNumbers
<1>1. Init => TypeOK /\ NumberInv
  BY TypeInit, NumberInit
<1>2. TypeOK /\ NumberInv /\ [Next]_vars => TypeOK' /\ NumberInv'
  BY TypeStep, NumberStep
<1>3. NumberInv => DistinctNumbers
  BY DEF NumberInv
<1>4. QED
  BY <1>1, <1>2, <1>3, PTL DEF Spec

-----------------------------------------------------------------------------
(* Documents.  ConvertedAccepted is not inductive: a status may be written *)
(* over the acceptance as long as quotes and invoices are not known to be  *)
(* distinct documents, and an invoice names the quote of the request that  *)
(* created it, or none.                                                    *)
Created(v) == v \in Requests => pc[v] \in {"accept", "done", "refused", "failed"}

DocumentInv ==
  /\ \A v \in quotes : /\ v # OldInvoice
                       /\ v \in Requests => call[v].op = "quote" /\ pc[v] = "done"
  /\ \A v \in invoices : /\ v # OldQuote /\ Created(v)
                         /\ v \in Requests => call[v].op \in {"convert", "invoice"}
  /\ \A v \in Docs : source[v] # NoDoc =>
       v \in Requests /\ Created(v) /\ source[v] = Doc(v) /\ source[v] \in quotes
  /\ ConvertedAccepted

LEMMA DocumentInit == Init => DocumentInv
BY DEF Init, DocumentInv, ConvertedAccepted, Created, Docs

LEMMA QuoteIsNoInvoice ==
  ASSUME TypeOK, DocumentInv
  PROVE  quotes \cap invoices = {}
BY DEF TypeOK, DocumentInv, Docs

(* The steps of a request that has arrived: it leaves its call alone, goes *)
(* on to a label, and what is created stays so.                            *)
LEMMA StepFacts ==
  ASSUME TypeOK, NEW r \in Requests, Handler(r) \/ Fail(r), ~Receive(r)
  PROVE  /\ UNCHANGED call /\ pc[r] # "idle"
         /\ \A o \in Requests \ {r} : pc'[o] = pc[o]
         /\ \A v \in Docs : Doc(v)' = Doc(v)
         /\ \A v \in Docs : Created(v) => Created(v)'
<1>1. UNCHANGED call /\ pc[r] # "idle"
  BY DEF Handler, Fail, Active, At, DrawNumber, CreateQuote, ReadQuote, CreateInvoice, AcceptQuote,
     DeleteQuote, ReadInvoice, DeleteInvoice, WriteStatus, WritePayment, RecordInstallment,
     DecrementStock, JournalDecrement, books, seen
<1>2. \E l \in Labels : pc' = [pc EXCEPT ![r] = l]
  BY DEF Handler, Fail, DrawNumber, CreateQuote, ReadQuote, CreateInvoice, AcceptQuote,
     DeleteQuote, ReadInvoice, DeleteInvoice, WriteStatus, WritePayment, RecordInstallment,
     DeductFrom, DecrementStock, JournalDecrement, Refuse, Proceed, Labels
<1>3. \A o \in Requests \ {r} : pc'[o] = pc[o]
  BY <1>2 DEF TypeOK
<1>4. pc[r] \in {"accept", "done", "refused", "failed"}
        => pc'[r] \in {"accept", "done", "refused", "failed"}
  <2>1. CASE AcceptQuote(r) \/ Fail(r)
    BY <2>1 DEF AcceptQuote, Fail, Proceed, Refuse, TypeOK
  <2>2. CASE ~AcceptQuote(r) /\ ~Fail(r)
    BY <2>2 DEF Handler, At, DrawNumber, CreateQuote, ReadQuote, CreateInvoice,
       DeleteQuote, ReadInvoice, DeleteInvoice, WriteStatus, WritePayment, RecordInstallment,
       DecrementStock, JournalDecrement
  <2>3. QED
    BY <2>1, <2>2
<1>5. QED
  BY <1>1, <1>3, <1>4 DEF Created, Doc

(* A request that arrives is no document yet, and disturbs none.           *)
LEMMA ReceiveFacts ==
  ASSUME TypeOK, NEW r \in Requests, Receive(r)
  PROVE  /\ pc[r] = "idle" /\ pc'[r] \in {"number", "read"}
         /\ \A o \in Requests \ {r} : pc'[o] = pc[o] /\ call'[o] = call[o]
         /\ UNCHANGED <<documents, books, drawn, seen, line>>
<1>1. PICK c \in scene.calls :
        /\ call' = [call EXCEPT ![r] = c]
        /\ Proceed(r, IF c.op \in {"quote", "invoice"} THEN "number" ELSE "read")
  BY DEF Receive
<1>2. \A o \in Requests \ {r} : pc'[o] = pc[o] /\ call'[o] = call[o]
  BY <1>1 DEF Proceed, TypeOK
<1>3. pc'[r] \in {"number", "read"}
  BY <1>1 DEF Proceed, TypeOK
<1>4. QED
  BY <1>2, <1>3 DEF Receive

LEMMA DocumentReceive ==
  ASSUME TypeOK, DocumentInv, NEW r \in Requests, Receive(r)
  PROVE  DocumentInv'
<1>1. /\ pc[r] = "idle" /\ pc'[r] \in {"number", "read"}
      /\ \A o \in Requests \ {r} : pc'[o] = pc[o] /\ call'[o] = call[o]
      /\ UNCHANGED <<quotes, invoices, status, source>>
  BY ReceiveFacts DEF documents
<1>2. r \notin quotes /\ r \notin invoices /\ source[r] = NoDoc
  BY <1>1 DEF DocumentInv, Created, Docs
<1>3. \A v \in Docs : v # r /\ Created(v) => Created(v)'
  BY <1>1 DEF Created
<1>4. quotes \subseteq Docs /\ invoices \subseteq Docs
  BY DEF TypeOK
<1>5. \A v \in Requests \ {r} : Doc(v)' = Doc(v)
  BY <1>1 DEF Doc
<1>6. \A v \in invoices' : v # OldQuote /\ Created(v)' /\ (v \in Requests => call'[v].op \in {"convert", "invoice"})
  BY <1>1, <1>2, <1>3, <1>4 DEF DocumentInv
<1>7. \A v \in quotes' : v # OldInvoice /\ (v \in Requests => call'[v].op = "quote" /\ pc'[v] = "done")
  BY <1>1, <1>2 DEF DocumentInv
<1>8. \A v \in Docs : source'[v] # NoDoc =>
        v \in Requests /\ Created(v)' /\ source'[v] = Doc(v)' /\ source'[v] \in quotes'
  BY <1>1, <1>2, <1>3, <1>5 DEF DocumentInv
<1>9. ConvertedAccepted'
  BY <1>1, <1>2 DEF DocumentInv, ConvertedAccepted
<1>10. QED
  BY <1>6, <1>7, <1>8, <1>9 DEF DocumentInv

LEMMA DocumentStep == TypeOK /\ DocumentInv /\ [Next]_vars => DocumentInv'
<1> SUFFICES ASSUME TypeOK, DocumentInv, [Next]_vars PROVE DocumentInv'
  OBVIOUS
<1>1. CASE UNCHANGED vars
  BY <1>1 DEF DocumentInv, ConvertedAccepted, Created, Doc, vars, documents
<1>2. ASSUME NEW r \in Requests, Receive(r) PROVE DocumentInv'
  BY <1>2, DocumentReceive
<1>3. ASSUME NEW r \in Requests, Handler(r) \/ Fail(r), ~Receive(r) PROVE DocumentInv'
  <2>s. /\ UNCHANGED call /\ pc[r] # "idle"
        /\ \A o \in Requests \ {r} : pc'[o] = pc[o]
        /\ \A v \in Docs : Doc(v)' = Doc(v)
        /\ \A v \in Docs : Created(v) => Created(v)'
    BY <1>3, StepFacts
  <2>d. /\ quotes \subseteq Docs /\ invoices \subseteq Docs /\ Requests \subseteq Docs
        /\ quotes \cap invoices = {} /\ NoDoc \notin Docs
    BY QuoteIsNoInvoice DEF TypeOK, Docs
  <2>q. \A v \in quotes \cap Requests : v # r
    BY <1>3 DEF DocumentInv, Handler, Fail, Active, At, DrawNumber, CreateQuote, ReadQuote,
       CreateInvoice, AcceptQuote, DeleteQuote, ReadInvoice, DeleteInvoice, WriteStatus,
       WritePayment, RecordInstallment, DecrementStock, JournalDecrement
  <2>k. ASSUME UNCHANGED <<source, quotes>>, invoices' \subseteq invoices, ConvertedAccepted'
        PROVE  DocumentInv'
    <3>1. \A v \in quotes' : v # OldInvoice /\ (v \in Requests => call'[v].op = "quote" /\ pc'[v] = "done")
      BY <2>k, <2>s, <2>q DEF DocumentInv
    <3>2. \A v \in invoices' : v # OldQuote /\ Created(v)' /\ (v \in Requests => call'[v].op \in {"convert", "invoice"})
      BY <2>k, <2>s, <2>d DEF DocumentInv
    <3>3. \A v \in Docs : source'[v] # NoDoc =>
            v \in Requests /\ Created(v)' /\ source'[v] = Doc(v)' /\ source'[v] \in quotes'
      BY <2>k, <2>s DEF DocumentInv
    <3>4. QED
      BY <2>k, <3>1, <3>2, <3>3 DEF DocumentInv
  <2>1. CASE CreateQuote(r)
    <3>1. /\ quotes' = quotes \cup {r} /\ pc'[r] = "done" /\ call[r].op = "quote"
          /\ UNCHANGED <<invoices, status, source>>
      BY <2>1 DEF CreateQuote, At, Proceed, TypeOK
    <3>2. \A v \in quotes' : v # OldInvoice /\ (v \in Requests => call'[v].op = "quote" /\ pc'[v] = "done")
      BY <3>1, <2>s, <2>q DEF DocumentInv
    <3>3. ConvertedAccepted'
      <4>1. \A v \in invoices \cap Requests : v # r
        BY <2>1 DEF CreateQuote, At, DocumentInv, Created
      <4>2. QED
        BY <3>1, <2>s, <4>1 DEF DocumentInv, ConvertedAccepted
    <3>4. QED
      BY <3>1, <3>2, <3>3, <2>s, <2>d DEF DocumentInv
  <2>2. CASE CreateInvoice(r)
    <3>1. CASE SourceFits(Doc(r))
      <4>1. /\ invoices' = invoices \cup {r} /\ call[r].op \in {"convert", "invoice"}
            /\ source' = [source EXCEPT ![r] = Doc(r)]
            /\ pc'[r] = (IF call[r].op = "convert" THEN "accept" ELSE "done")
            /\ UNCHANGED <<quotes, status>>
        BY <2>2, <3>1 DEF CreateInvoice, At, Proceed, TypeOK
      <4>2. Created(r)'
        BY <4>1 DEF Created
      <4>3. Doc(r) = NoDoc \/ Doc(r) \in quotes
        BY <3>1 DEF SourceFits
      <4>4. source'[r] = Doc(r) /\ \A v \in Docs \ {r} : source'[v] = source[v]
        BY <4>1, <2>d DEF TypeOK
      <4>5. \A v \in Docs : source'[v] # NoDoc =>
              v \in Requests /\ Created(v)' /\ source'[v] = Doc(v)' /\ source'[v] \in quotes'
        BY <4>1, <4>2, <4>3, <4>4, <2>s, <2>d DEF DocumentInv
      <4>6. ConvertedAccepted'
        BY <4>1, <4>4, <2>s, <2>d DEF DocumentInv, ConvertedAccepted
      <4>7. \A v \in invoices' : v # OldQuote /\ Created(v)' /\ (v \in Requests => call'[v].op \in {"convert", "invoice"})
        BY <4>1, <4>2, <2>s, <2>d DEF DocumentInv
      <4>8. \A v \in quotes' : v # OldInvoice /\ (v \in Requests => call'[v].op = "quote" /\ pc'[v] = "done")
        BY <4>1, <2>s, <2>q DEF DocumentInv
      <4>9. QED
        BY <4>5, <4>6, <4>7, <4>8 DEF DocumentInv
    <3>2. CASE ~SourceFits(Doc(r))
      <4>1. UNCHANGED <<quotes, invoices, status, source>>
        BY <2>2, <3>2 DEF CreateInvoice
      <4>2. \A v \in invoices \cap Requests : v # r
        BY <2>2 DEF CreateInvoice, At, DocumentInv, Created
      <4>3. ConvertedAccepted'
        BY <4>1, <4>2, <2>s DEF DocumentInv, ConvertedAccepted
      <4>4. QED
        BY <2>k, <4>1, <4>3
    <3>3. QED
      BY <3>1, <3>2
  <2>3. CASE AcceptQuote(r)
    <3>1. UNCHANGED <<quotes, invoices, source>> /\ pc[r] = "accept"
      BY <2>3 DEF AcceptQuote, At
    <3>2. ConvertedAccepted'
      <4> SUFFICES ASSUME NEW v \in invoices \cap Requests, call[v].op = "convert", source[v] # NoDoc
                   PROVE  status'[source[v]] = "ACCEPTED" \/ pc'[v] \in {"accept", "failed"}
        BY <3>1, <2>s DEF ConvertedAccepted
      <4>1. source[v] = Doc(v) /\ source[v] \in quotes
        BY <2>d DEF DocumentInv
      <4>2. CASE v = r
        BY <2>3, <4>1, <4>2, <2>d DEF AcceptQuote, TypeOK
      <4>3. CASE v # r
        <5>1. status[source[v]] = "ACCEPTED" \/ pc[v] \in {"accept", "failed"}
          BY DEF DocumentInv, ConvertedAccepted
        <5>2. status[source[v]] = "ACCEPTED" => status'[source[v]] = "ACCEPTED"
          BY <2>3, <4>1, <2>d DEF AcceptQuote, TypeOK
        <5>3. QED
          BY <5>1, <5>2, <4>3, <2>s
      <4>4. QED
        BY <4>2, <4>3
    <3>3. QED
      BY <3>1, <3>2, <2>k
  <2>4. CASE DeleteQuote(r)
    <3>1. /\ quotes' = quotes \ {Doc(r)} /\ UNCHANGED <<invoices, status>>
          /\ \A v \in Docs : source'[v] = IF source[v] = Doc(r) THEN NoDoc ELSE source[v]
          /\ call[r].op = "deleteQuote"
      BY <2>4 DEF DeleteQuote, At
    <3>2. \A v \in Docs : source'[v] # NoDoc =>
            v \in Requests /\ Created(v)' /\ source'[v] = Doc(v)' /\ source'[v] \in quotes'
      BY <3>1, <2>s DEF DocumentInv
    <3>3. ConvertedAccepted'
      BY <3>1, <2>s, <2>d DEF DocumentInv, ConvertedAccepted
    <3>4. \A v \in quotes' : v # OldInvoice /\ (v \in Requests => call'[v].op = "quote" /\ pc'[v] = "done")
      BY <3>1, <2>s, <2>q DEF DocumentInv
    <3>5. QED
      BY <3>1, <3>2, <3>3, <3>4, <2>s, <2>d DEF DocumentInv
  <2>5. CASE WriteStatus(r) \/ WritePayment(r)
    <3>1. UNCHANGED <<quotes, invoices, source>> /\ call[r].op \in {"status", "pay"}
      BY <2>5 DEF WriteStatus, WritePayment, At
    <3>2. \A q \in quotes : status'[q] = status[q]
      BY <2>5, <2>d DEF WriteStatus, WritePayment, TypeOK
    <3>3. \A v \in invoices \cap Requests : v # r
      BY <3>1 DEF DocumentInv
    <3>4. ConvertedAccepted'
      BY <3>1, <3>2, <3>3, <2>s, <2>d DEF DocumentInv, ConvertedAccepted
    <3>5. QED
      BY <3>1, <3>4, <2>k
  <2>6. CASE DeleteInvoice(r)
    <3>1. UNCHANGED <<quotes, status, source>> /\ invoices' \subseteq invoices /\ call[r].op = "deleteInvoice"
      BY <2>6 DEF DeleteInvoice, At
    <3>2. ConvertedAccepted'
      BY <3>1, <2>s DEF DocumentInv, ConvertedAccepted
    <3>3. QED
      BY <3>1, <3>2, <2>k
  <2>7. CASE Fail(r)
    <3>1. UNCHANGED <<quotes, invoices, status, source>> /\ pc'[r] = "failed"
      BY <2>7 DEF Fail, Proceed, TypeOK, documents
    <3>2. ConvertedAccepted'
      BY <3>1, <2>s DEF DocumentInv, ConvertedAccepted
    <3>3. QED
      BY <3>1, <3>2, <2>k
  <2>8. CASE DrawNumber(r) \/ ReadQuote(r) \/ ReadInvoice(r) \/ RecordInstallment(r)
             \/ DecrementStock(r) \/ JournalDecrement(r)
    <3>1. UNCHANGED <<quotes, invoices, status, source>>
      BY <2>8 DEF DrawNumber, ReadQuote, ReadInvoice, RecordInstallment, DecrementStock,
         JournalDecrement, documents
    <3>2. pc[r] \notin {"accept", "done", "refused", "failed"}
      BY <2>8 DEF DrawNumber, ReadQuote, ReadInvoice, RecordInstallment, DecrementStock,
         JournalDecrement, At
    <3>3. \A v \in invoices \cap Requests : v # r
      BY <3>2 DEF DocumentInv, Created
    <3>4. ConvertedAccepted'
      BY <3>1, <3>3, <2>s DEF DocumentInv, ConvertedAccepted
    <3>5. QED
      BY <3>1, <3>4, <2>k
  <2>9. QED
    BY <1>3, <2>1, <2>2, <2>3, <2>4, <2>5, <2>6, <2>7, <2>8 DEF Handler
<1>4. QED
  BY <1>1, <1>2, <1>3 DEF Next, AllAnswered

(* A quote that has an invoice by conversion is accepted, or about to be,  *)
(* or its conversion failed on the way - in every interleaving of          *)
(* conversions, deletions, status changes and payments.                    *)
THEOREM ConversionsAccepted == Spec => []ConvertedAccepted
<1>1. Init => TypeOK /\ DocumentInv
  BY TypeInit, DocumentInit
<1>2. TypeOK /\ DocumentInv /\ [Next]_vars => TypeOK' /\ DocumentInv'
  BY TypeStep, DocumentStep
<1>3. DocumentInv => ConvertedAccepted
  BY DEF DocumentInv
<1>4. QED
  BY <1>1, <1>2, <1>3, PTL DEF Spec
-----------------------------------------------------------------------------
(* Deductions.  PaidDeducted is not inductive: what a request has read     *)
(* must be known to be settled while it still acts on it, the lines before *)
(* the one a request is at to be deducted, and a document to be a DRAFT    *)
(* until it is created.                                                    *)
Settled(v) ==
  \/ \E r \in Requests : Deducting(r, v)
  \/ \A n \in StockLinesFrom(1) : DeductionsOf(v, n) # {}

DeductionInv ==
  /\ \A v \in invoices : status[v] = "PAID" => Settled(v)
  /\ \A r \in Requests : ~Created(r) => status[r] = "DRAFT"
  /\ \A r \in Requests : pc[r] \in {"write", "installment"} =>
       /\ Doc(r) \in Docs /\ Created(Doc(r))
       /\ Doc(r) \in invoices /\ seenStatus[r] = "PAID" => Settled(Doc(r))
  /\ \A r \in Requests : pc[r] \in {"decrement", "journal"} =>
       \A n \in StockLinesFrom(1) : n < line[r] => DeductionsOf(Doc(r), n) # {}

LEMMA DeductionInit == Init => DeductionInv
BY DEF Init, DeductionInv, Created, Docs

(* A step of one request disturbs no other, and deletes no movement.       *)
LEMMA StepAlone ==
  ASSUME TypeOK, NEW r \in Requests, Handler(r) \/ Fail(r)
  PROVE  /\ movements \subseteq movements'
         /\ \A o \in Requests \ {r} :
              /\ pc'[o] = pc[o] /\ call'[o] = call[o] /\ line'[o] = line[o]
              /\ seenStatus'[o] = seenStatus[o] /\ seenPaid'[o] = seenPaid[o]
<1>1. movements \subseteq movements'
  BY DEF Handler, Fail, Receive, DrawNumber, CreateQuote, ReadQuote, CreateInvoice, AcceptQuote,
     DeleteQuote, ReadInvoice, DeleteInvoice, WriteStatus, WritePayment, RecordInstallment,
     DecrementStock, JournalDecrement, books
<1>2. \A o \in Requests \ {r} : pc'[o] = pc[o] /\ call'[o] = call[o]
  BY StepFacts, ReceiveFacts DEF TypeOK
<1>3. UNCHANGED line \/ \E k \in Nat : line' = [line EXCEPT ![r] = k]
  <2>1. ASSUME NEW n \in Nat, n > 0, DeductFrom(r, n)
        PROVE  UNCHANGED line \/ \E k \in Nat : line' = [line EXCEPT ![r] = k]
    BY <2>1, LineFacts DEF DeductFrom
  <2>2. CASE WriteStatus(r) \/ RecordInstallment(r)
    BY <2>1, <2>2 DEF WriteStatus, RecordInstallment
  <2>3. CASE JournalDecrement(r)
    BY <2>1, <2>3 DEF JournalDecrement, TypeOK
  <2>4. CASE ~WriteStatus(r) /\ ~RecordInstallment(r) /\ ~JournalDecrement(r)
    BY <2>4 DEF Handler, Fail, Receive, DrawNumber, CreateQuote, ReadQuote, CreateInvoice,
       AcceptQuote, DeleteQuote, ReadInvoice, DeleteInvoice, WritePayment, DecrementStock
  <2>5. QED
    BY <2>2, <2>3, <2>4
<1>4. \/ UNCHANGED seen
      \/ ReadInvoice(r)
  BY DEF Handler, Fail, Receive, DrawNumber, CreateQuote, ReadQuote, CreateInvoice, AcceptQuote,
     DeleteQuote, DeleteInvoice, WriteStatus, WritePayment, RecordInstallment,
     DecrementStock, JournalDecrement
<1>5. \A o \in Requests \ {r} : seenStatus'[o] = seenStatus[o] /\ seenPaid'[o] = seenPaid[o]
  BY <1>4 DEF ReadInvoice, seen, TypeOK
<1>6. \A o \in Requests \ {r} : line'[o] = line[o]
  BY <1>3 DEF TypeOK
<1>7. QED
  BY <1>1, <1>2, <1>5, <1>6

LEMMA DeductFromFacts ==
  ASSUME TypeOK, NEW r \in Requests, NEW n \in Nat, n > 0, DeductFrom(r, n)
  PROVE  \/ pc'[r] = "done" /\ StockLinesFrom(n) = {}
         \/ /\ pc'[r] = "decrement" /\ line'[r] \in StockLinesFrom(n)
            /\ \A j \in StockLinesFrom(n) : line'[r] <= j
<1>1. CASE StockLinesFrom(n) = {}
  BY <1>1 DEF DeductFrom, Proceed, TypeOK
<1>2. CASE StockLinesFrom(n) # {}
  BY <1>2, LineFacts DEF DeductFrom, Proceed, TypeOK
<1>3. QED
  BY <1>1, <1>2

(* What is deducted stays so: while the invoice is on file, a request      *)
(* stops deducting only when every line has its movement, or when it fails.*)
LEMMA SettledStays ==
  ASSUME TypeOK, DeductionInv, NEW r \in Requests, Handler(r) \/ Fail(r),
         NEW v \in invoices, Settled(v)
  PROVE  Settled(v)'
<1>a. /\ movements \subseteq movements'
      /\ \A o \in Requests \ {r} :
           /\ pc'[o] = pc[o] /\ call'[o] = call[o] /\ line'[o] = line[o]
           /\ seenStatus'[o] = seenStatus[o] /\ seenPaid'[o] = seenPaid[o]
  BY StepAlone
<1>1. CASE \A n \in StockLinesFrom(1) : DeductionsOf(v, n) # {}
  <2>1. \A n \in StockLinesFrom(1) : DeductionsOf(v, n)' # {}
    BY <1>a, <1>1 DEF DeductionsOf
  <2>2. QED
    BY <2>1 DEF Settled, StockLinesFrom
<1>2. ASSUME NEW o \in Requests \ {r}, Deducting(o, v) PROVE Settled(v)'
  <2>1. Deducting(o, v)'
    BY <1>2, <1>a DEF Deducting, Doc, IsFullyPaid, NewPaid, Unpaid
  <2>2. QED
    BY <2>1 DEF Settled
<1>3. CASE Deducting(r, v)
  <2>1. ~Receive(r)
    BY <1>3 DEF Deducting, Receive
  <2>2. UNCHANGED call /\ Doc(r)' = v
    BY <1>3, <2>1, StepFacts DEF Deducting, Doc
  <2>3. CASE Fail(r)
    <3>1. Deducting(r, v)'
      BY <2>2, <2>3 DEF Fail, Proceed, Deducting, TypeOK
    <3>2. QED
      BY <3>1 DEF Settled
  <2>4. CASE DecrementStock(r)
    <3>1. Deducting(r, v)'
      BY <2>2, <2>4 DEF DecrementStock, Proceed, Deducting, TypeOK
    <3>2. QED
      BY <3>1 DEF Settled
  <2>5. CASE JournalDecrement(r)
    <3>1. line[r] \in StockLinesFrom(1) /\ line[r] \in Nat /\ pc[r] = "journal"
      BY <2>5 DEF JournalDecrement, At, TypeOK
    <3>2. CASE pc'[r] = "decrement"
      <4>1. Deducting(r, v)'
        BY <2>2, <3>2 DEF Deducting
      <4>2. QED
        BY <4>1 DEF Settled
    <3>3. CASE StockLinesFrom(line[r] + 1) = {}
      <4>1. ASSUME NEW n \in StockLinesFrom(1) PROVE n <= line[r]
        BY <3>1, <3>3 DEF StockLinesFrom
      <4>2. ASSUME NEW n \in StockLinesFrom(1), n < line[r] PROVE DeductionsOf(v, n)' # {}
        <5>1. DeductionsOf(v, n) # {}
          BY <1>3, <3>1, <4>2 DEF DeductionInv, Deducting
        <5>2. QED
          BY <5>1, <1>a DEF DeductionsOf
      <4>3. ASSUME NEW n \in StockLinesFrom(1), n = line[r] PROVE DeductionsOf(v, n)' # {}
        <5>1. [by |-> r, invoice |-> v, line |-> n] \in movements'
          BY <1>3, <2>5, <4>3 DEF JournalDecrement, Deducting
        <5>2. QED
          BY <5>1 DEF DeductionsOf
      <4>4. \A n \in StockLinesFrom(1) : n \in Nat
        BY LineFacts
      <4>5. ASSUME NEW n \in StockLinesFrom(1) PROVE DeductionsOf(v, n)' # {}
        <5>1. n = line[r] \/ n < line[r]
          BY <3>1, <4>1, <4>4
        <5>2. QED
          BY <5>1, <4>2, <4>3
      <4>6. QED
        BY <4>5 DEF Settled, StockLinesFrom
    <3>4. DeductFrom(r, line[r] + 1) /\ line[r] + 1 \in Nat /\ line[r] + 1 > 0
      BY <2>5, <3>1 DEF JournalDecrement
    <3>5. QED
      BY <3>2, <3>3, <3>4, DeductFromFacts
  <2>6. CASE RecordInstallment(r)
    <3>1. DeductFrom(r, 1)
      BY <1>3, <2>6 DEF RecordInstallment, Deducting, At
    <3>2. CASE pc'[r] = "decrement"
      <4>1. Deducting(r, v)'
        BY <2>2, <3>2 DEF Deducting
      <4>2. QED
        BY <4>1 DEF Settled
    <3>3. CASE StockLinesFrom(1) = {}
      BY <3>3 DEF Settled, StockLinesFrom
    <3>4. QED
      BY <3>1, <3>2, <3>3, DeductFromFacts
  <2>7. QED
    BY <1>3, <2>1, <2>3, <2>4, <2>5, <2>6 DEF Deducting, At, Handler, DrawNumber, CreateQuote,
       ReadQuote, CreateInvoice, AcceptQuote, DeleteQuote, ReadInvoice, DeleteInvoice,
       WriteStatus, WritePayment
<1>4. QED
  BY <1>1, <1>2, <1>3 DEF Settled

LEMMA DeductionReceive ==
  ASSUME TypeOK, DocumentInv, DeductionInv, NEW r \in Requests, Receive(r)
  PROVE  DeductionInv'
<1>1. /\ pc[r] = "idle" /\ pc'[r] \in {"number", "read"}
      /\ \A o \in Requests \ {r} : pc'[o] = pc[o] /\ call'[o] = call[o]
      /\ UNCHANGED <<invoices, status, seenStatus, movements, line>>
  BY ReceiveFacts DEF documents, books, seen
<1>2. \A v \in invoices : Settled(v) => Settled(v)'
  BY SettledStays DEF Handler
<1>3. \A v \in Docs : Created(v) => Created(v)'
  BY <1>1 DEF Created
<1>4. \A o \in Requests \ {r} : Doc(o)' = Doc(o)
  BY <1>1 DEF Doc
<1>5. \A v \in invoices' : status'[v] = "PAID" => Settled(v)'
  BY <1>1, <1>2 DEF DeductionInv
<1>6. \A o \in Requests : ~Created(o)' => status'[o] = "DRAFT"
  BY <1>1, <1>3 DEF DeductionInv, Docs
<1>7. ASSUME NEW o \in Requests, pc'[o] \in {"write", "installment"}
      PROVE  /\ Doc(o)' \in Docs /\ Created(Doc(o))'
             /\ Doc(o)' \in invoices' /\ seenStatus'[o] = "PAID" => Settled(Doc(o))'
  <2>1. o # r /\ pc[o] \in {"write", "installment"}
    BY <1>1, <1>7
  <2>2. PICK d \in Docs : d = Doc(o) /\ d = Doc(o)'
    BY <1>4, <2>1 DEF DeductionInv
  <2>3. Created(d) /\ (d \in invoices /\ seenStatus[o] = "PAID" => Settled(d))
    BY <2>1, <2>2 DEF DeductionInv
  <2>4. Created(d)' /\ (d \in invoices' /\ seenStatus'[o] = "PAID" => Settled(d)')
    BY <1>1, <1>2, <1>3, <2>3
  <2>5. QED
    BY <2>2, <2>4 DEF Created, Settled, Deducting
<1>8. \A o \in Requests : pc'[o] \in {"decrement", "journal"} =>
        \A n \in StockLinesFrom(1)' : n < line'[o] => DeductionsOf(Doc(o), n)' # {}
  BY <1>1, <1>4 DEF DeductionInv, DeductionsOf, StockLinesFrom
<1>9. QED
  BY <1>5, <1>6, <1>7, <1>8 DEF DeductionInv

LEMMA DeductionStep == TypeOK /\ DocumentInv /\ DeductionInv /\ [Next]_vars => DeductionInv'
<1> SUFFICES ASSUME TypeOK, DocumentInv, DeductionInv, [Next]_vars PROVE DeductionInv'
  OBVIOUS
<1>1. CASE UNCHANGED vars
  <2>1. UNCHANGED <<quotes, invoices, status, paid, movements, pc, call, line, seenStatus, seenPaid>>
    BY <1>1 DEF vars, documents, books, seen
  <2>2. \A r : Doc(r)' = Doc(r) /\ (Created(r)' <=> Created(r))
    BY <2>1 DEF Doc, Created
  <2>3. \A v, n : DeductionsOf(v, n)' = DeductionsOf(v, n)
    BY <2>1 DEF DeductionsOf
  <2>4. \A r, v : Deducting(r, v)' <=> Deducting(r, v)
    BY <2>1, <2>2 DEF Deducting, IsFullyPaid, NewPaid, Unpaid
  <2>5. \A v : Settled(v)' <=> Settled(v)
    BY <2>3, <2>4 DEF Settled, StockLinesFrom
  <2>6. QED
    BY <2>1, <2>2, <2>3, <2>5 DEF DeductionInv, StockLinesFrom
<1>2. ASSUME NEW r \in Requests, Receive(r) PROVE DeductionInv'
  BY <1>2, DeductionReceive
<1>3. ASSUME NEW r \in Requests, Handler(r) \/ Fail(r), ~Receive(r) PROVE DeductionInv'
  <2>s. /\ UNCHANGED call /\ pc[r] # "idle"
        /\ \A o \in Requests \ {r} : pc'[o] = pc[o]
        /\ \A v \in Docs : Created(v) => Created(v)'
    BY <1>3, StepFacts
  <2>o. /\ movements \subseteq movements'
        /\ \A o \in Requests \ {r} : /\ line'[o] = line[o] /\ seenStatus'[o] = seenStatus[o]
                                     /\ seenPaid'[o] = seenPaid[o]
    BY <1>3, StepAlone
  <2>t. \A v \in invoices : Settled(v) => Settled(v)'
    BY <1>3, SettledStays
  <2>d. invoices \subseteq Docs /\ quotes \subseteq Docs /\ r \in Docs /\ Doc(r)' = Doc(r)
    BY <2>s DEF TypeOK, Docs, Doc
  <2>e. \A o \in Requests : Doc(o)' = Doc(o)
    BY <2>s DEF Doc
  <2>n. \A v \in invoices' : v \in invoices \/ (v = r /\ ~Created(r))
    BY <1>3 DEF Handler, Fail, At, DrawNumber, CreateQuote, ReadQuote, CreateInvoice, AcceptQuote,
       DeleteQuote, ReadInvoice, DeleteInvoice, WriteStatus, WritePayment, RecordInstallment,
       DecrementStock, JournalDecrement, documents, Created
  <2>w. \A v \in Docs :
          \/ status'[v] = status[v]
          \/ v = Doc(r) /\ v \in invoices /\ WriteStatus(r) /\ status'[v] = call[r].status
          \/ v = Doc(r) /\ v \in invoices /\ WritePayment(r)
          \/ v = Doc(r) /\ v \in quotes /\ AcceptQuote(r) /\ status'[v] = "ACCEPTED"
    <3>1. CASE WriteStatus(r) \/ WritePayment(r)
      <4>1. ASSUME NEW v \in Docs, v # Doc(r) \/ v \notin invoices PROVE status'[v] = status[v]
        BY <3>1, <4>1 DEF WriteStatus, WritePayment, TypeOK
      <4>2. ASSUME WriteStatus(r), Doc(r) \in invoices PROVE status'[Doc(r)] = call[r].status
        BY <4>2, <2>d DEF WriteStatus, TypeOK
      <4>3. QED
        BY <3>1, <4>1, <4>2
    <3>2. CASE AcceptQuote(r)
      <4>1. ASSUME NEW v \in Docs, v # Doc(r) \/ v \notin quotes PROVE status'[v] = status[v]
        BY <3>2, <4>1 DEF AcceptQuote, TypeOK
      <4>2. Doc(r) \in quotes => status'[Doc(r)] = "ACCEPTED"
        BY <3>2, <2>d DEF AcceptQuote, TypeOK
      <4>3. QED
        BY <3>2, <4>1, <4>2
    <3>3. CASE ~WriteStatus(r) /\ ~WritePayment(r) /\ ~AcceptQuote(r)
      BY <1>3, <3>3 DEF Handler, Fail, DrawNumber, CreateQuote, ReadQuote, CreateInvoice,
       DeleteQuote, ReadInvoice, DeleteInvoice, RecordInstallment,
       DecrementStock, JournalDecrement, documents
    <3>4. QED
      BY <3>1, <3>2, <3>3
  <2>1. ASSUME NEW v \in invoices', status'[v] = "PAID" PROVE Settled(v)'
    <3>0. v \in Docs
      BY <2>n, <2>d
    <3>1. CASE status'[v] = status[v]
      <4>1. v \in invoices
        BY <2>1, <3>1, <2>n DEF DeductionInv
      <4>2. QED
        BY <2>1, <3>1, <4>1, <2>t DEF DeductionInv
    <3>2. CASE v = Doc(r) /\ v \in invoices /\ pc[r] = "write" /\ ~Unpaid(r)
      BY <3>2, <2>t DEF DeductionInv, Unpaid
    <3>3. CASE v = Doc(r) /\ Unpaid(r) /\ v \in invoices /\ WriteStatus(r) /\ status'[v] = call[r].status
      <4>1. DeductFrom(r, 1)
        BY <2>1, <3>3 DEF WriteStatus
      <4>2. CASE pc'[r] = "decrement"
        <5>1. Deducting(r, v)'
          BY <2>d, <3>3, <4>2 DEF Deducting
        <5>2. QED
          BY <5>1 DEF Settled
      <4>3. CASE StockLinesFrom(1) = {}
        BY <4>3 DEF Settled, StockLinesFrom
      <4>4. QED
        BY <4>1, <4>2, <4>3, DeductFromFacts
    <3>4. CASE v = Doc(r) /\ Unpaid(r) /\ v \in invoices /\ WritePayment(r)
      <4>1. IsFullyPaid(r)
        BY <2>1, <3>0, <3>4 DEF WritePayment, TypeOK
      <4>2. pc'[r] = "installment" /\ UNCHANGED <<call, seenStatus, seenPaid>>
        BY <3>4 DEF WritePayment, Proceed, TypeOK, seen
      <4>3. Deducting(r, v)'
        BY <2>d, <3>4, <4>1, <4>2 DEF Deducting, IsFullyPaid, NewPaid, Unpaid
      <4>4. QED
        BY <4>3 DEF Settled
    <3>5. WriteStatus(r) \/ WritePayment(r) => pc[r] = "write"
      BY DEF WriteStatus, WritePayment, At
    <3>6. QED
      BY <2>1, <2>w, <3>0, <3>1, <3>2, <3>3, <3>4, <3>5
  <2>2. ASSUME NEW o \in Requests, ~Created(o)' PROVE status'[o] = "DRAFT"
    <3>1. o \in Docs /\ ~Created(o)
      BY <2>2, <2>s DEF Docs
    <3>2. o \notin invoices /\ o \notin quotes
      BY <3>1 DEF DocumentInv, Created
    <3>3. status'[o] = status[o]
      BY <3>1, <3>2, <2>w
    <3>4. QED
      BY <3>1, <3>3 DEF DeductionInv
  <2>3. ASSUME NEW o \in Requests, pc'[o] \in {"write", "installment"}
        PROVE  /\ Doc(o)' \in Docs /\ Created(Doc(o))'
               /\ Doc(o)' \in invoices' /\ seenStatus'[o] = "PAID" => Settled(Doc(o))'
    <3>1. CASE pc[o] \in {"write", "installment"} /\ seenStatus'[o] = seenStatus[o]
      <4>1. PICK d \in Docs : d = Doc(o) /\ d = Doc(o)'
        BY <2>e, <3>1 DEF DeductionInv
      <4>2. Created(d) /\ (d \in invoices /\ seenStatus[o] = "PAID" => Settled(d))
        BY <3>1, <4>1 DEF DeductionInv
      <4>3. d \in invoices' => d \in invoices
        BY <4>2, <2>n
      <4>4. Created(d)' /\ (d \in invoices' /\ seenStatus'[o] = "PAID" => Settled(d)')
        BY <2>s, <2>t, <3>1, <4>2, <4>3
      <4>5. QED
        BY <4>1, <4>4 DEF Created, Settled, Deducting
    <3>2. CASE o = r /\ ReadInvoice(r)
      <4>1. PICK d \in invoices : d = Doc(o) /\ d = Doc(o)'
        BY <2>3, <2>e, <3>2 DEF ReadInvoice, Refuse, Proceed, TypeOK
      <4>2. seenStatus'[o] = status[d]
        BY <3>2, <4>1 DEF ReadInvoice, TypeOK
      <4>3. Created(d) /\ (status[d] = "PAID" => Settled(d))
        BY DEF DocumentInv, DeductionInv
      <4>4. d \in Docs /\ Created(d)' /\ (status[d] = "PAID" => Settled(d)')
        BY <4>3, <2>s, <2>t, <2>d
      <4>5. QED
        BY <4>1, <4>2, <4>4 DEF Created, Settled, Deducting
    <3>3. o # r \/ ReadInvoice(r) \/ (pc[o] \in {"write", "installment"} /\ UNCHANGED seenStatus)
      <4>1. CASE WritePayment(r)
        BY <4>1 DEF WritePayment, At, seen
      <4>2. CASE ~WritePayment(r) /\ ~ReadInvoice(r) /\ o = r
        <5>1. pc'[r] \notin {"write", "installment"}
          <6>1. ASSUME NEW n \in Nat, n > 0, DeductFrom(r, n) PROVE pc'[r] \notin {"write", "installment"}
            BY <6>1, DeductFromFacts
          <6>2. CASE WriteStatus(r) \/ RecordInstallment(r)
            BY <6>1, <6>2 DEF WriteStatus, RecordInstallment, Proceed, Refuse, TypeOK
          <6>3. CASE JournalDecrement(r)
            <7>1. line[r] + 1 \in Nat /\ line[r] + 1 > 0
              BY DEF TypeOK
            <7>2. QED
              BY <6>1, <6>3, <7>1 DEF JournalDecrement
          <6>4. CASE ~WriteStatus(r) /\ ~RecordInstallment(r) /\ ~JournalDecrement(r)
            BY <1>3, <4>2, <6>4 DEF Handler, Fail, DrawNumber, CreateQuote, ReadQuote, CreateInvoice,
               AcceptQuote, DeleteQuote, DeleteInvoice, DecrementStock, Proceed, Refuse, TypeOK
          <6>5. QED
            BY <6>2, <6>3, <6>4
        <5>2. QED
          BY <2>3, <4>2, <5>1
      <4>3. QED
        BY <4>1, <4>2
    <3>4. QED
      BY <2>3, <2>s, <2>o, <3>1, <3>2, <3>3
  <2>4. ASSUME NEW o \in Requests, pc'[o] \in {"decrement", "journal"},
               NEW n \in StockLinesFrom(1), n < line'[o]
        PROVE  DeductionsOf(Doc(o), n)' # {}
    <3>0. n \in Nat
      BY LineFacts
    <3>1. CASE pc[o] \in {"decrement", "journal"} /\ n < line[o]
      <4>1. DeductionsOf(Doc(o), n) # {}
        BY <3>1 DEF DeductionInv
      <4>2. QED
        BY <4>1, <2>o, <2>e DEF DeductionsOf
    <3>2. CASE o = r /\ DeductFrom(r, 1)
      <4>1. line'[r] \in StockLinesFrom(1) /\ line'[r] <= n
        BY <2>4, <3>2, DeductFromFacts
      <4>2. QED
        BY <2>4, <3>0, <3>2, <4>1, LineFacts
    <3>3. CASE o = r /\ JournalDecrement(r) /\ ~(n < line[o])
      <4>1. line[r] \in StockLinesFrom(1) /\ line[r] \in Nat /\ Doc(r)' = Doc(r)
        BY <3>3, <2>e DEF JournalDecrement, At, TypeOK
      <4>2. DeductFrom(r, line[r] + 1) /\ line[r] + 1 \in Nat /\ line[r] + 1 > 0
        BY <3>3, <4>1 DEF JournalDecrement
      <4>3. line'[r] \in Nat /\ \A j \in StockLinesFrom(line[r] + 1) : line'[r] <= j
        <5>1. StockLinesFrom(line[r] + 1) \subseteq Nat
          BY <4>1, LineFacts
        <5>2. QED
          BY <2>4, <3>3, <4>2, <5>1, DeductFromFacts
      <4>4. n > line[r] => n \in StockLinesFrom(line[r] + 1)
        BY <3>0, <4>1 DEF StockLinesFrom
      <4>5. n = line[r]
        BY <2>4, <3>0, <3>3, <4>1, <4>3, <4>4
      <4>6. [by |-> r, invoice |-> Doc(r), line |-> n] \in movements'
        BY <3>3, <4>5 DEF JournalDecrement
      <4>7. QED
        BY <3>3, <4>1, <4>6 DEF DeductionsOf
    <3>4. o # r \/ (UNCHANGED line /\ pc[o] \in {"decrement", "journal"}) \/ DeductFrom(r, 1) \/ JournalDecrement(r)
      <4>1. CASE DecrementStock(r)
        BY <4>1 DEF DecrementStock, At
      <4>2. CASE o = r /\ ~DecrementStock(r)
        BY <1>3, <2>4, <4>2 DEF Handler, Fail, DrawNumber, CreateQuote, ReadQuote, CreateInvoice,
           AcceptQuote, DeleteQuote, ReadInvoice, DeleteInvoice, WriteStatus, WritePayment,
           RecordInstallment, Proceed, Refuse, TypeOK
      <4>3. QED
        BY <4>1, <4>2
    <3>5. CASE o = r /\ JournalDecrement(r)
      <4>1. pc[o] = "journal"
        BY <3>5 DEF JournalDecrement, At
      <4>2. QED
        BY <3>1, <3>3, <3>5, <4>1
    <3>6. QED
      BY <2>4, <2>s, <2>o, <3>1, <3>2, <3>4, <3>5
  <2>5. \A n : n \in StockLinesFrom(1)' <=> n \in StockLinesFrom(1)
    BY DEF StockLinesFrom
  <2>6. QED
    BY <2>1, <2>2, <2>3, <2>4, <2>5 DEF DeductionInv
<1>4. QED
  BY <1>1, <1>2, <1>3 DEF Next, AllAnswered

(* No invoice is PAID with stock nobody will deduct, unless a call failed: *)
(* in every interleaving of payments, status changes and deletions, each   *)
(* acting on the status and the amount it read before.                     *)
THEOREM PaidIsDeducted == Spec => []PaidDeducted
<1>1. Init => TypeOK /\ DocumentInv /\ DeductionInv
  BY TypeInit, DocumentInit, DeductionInit
<1>2. TypeOK /\ DocumentInv /\ DeductionInv /\ [Next]_vars => TypeOK' /\ DocumentInv' /\ DeductionInv'
  BY TypeStep, DocumentStep, DeductionStep
<1>3. DeductionInv => PaidDeducted
  BY DEF DeductionInv, PaidDeducted, Settled
<1>4. QED
  BY <1>1, <1>2, <1>3, PTL DEF Spec

-----------------------------------------------------------------------------
(* The journal.  StockExplained speaks of sums: a step of a request        *)
(* changes its own term, and a movement is filed once, since the lines of  *)
(* a request come in order.                                                *)
JournalInv ==
  /\ IsFiniteSet(movements)
  /\ \A m \in movements : /\ pc[m.by] \in {"decrement", "journal", "done", "failed"}
                          /\ pc[m.by] \in {"decrement", "journal"} => m.line < line[m.by]
                          /\ m.line \in StockLinesFrom(1)
  /\ StockExplained

LEMMA SoldType == \A i : \A n \in StockLinesFrom(1) : Sold(i, n) \in Nat
BY LineFacts DEF Sold

LEMMA PendingType ==
  ASSUME TypeOK, NEW r \in Requests, NEW i
  PROVE  Pending(r, i) \in Nat
BY SoldType DEF Pending, TypeOK

(* The sum over the requests moves with the term of the one that steps.    *)
LEMMA UnfiledChange ==
  ASSUME TypeOK, TypeOK', NEW r \in Requests, NEW i,
         \A o \in Requests \ {r} : pc'[o] = pc[o] /\ line'[o] = line[o]
  PROVE  /\ Unfiled(i) \in Int
         /\ Unfiled(i)' = Unfiled(i) + (Pending(r, i)' - Pending(r, i))
<1>1. PICK f : f = [o \in Requests |-> Pending(o, i)]
  OBVIOUS
<1>2. PICK g : g = [o \in Requests |-> Pending(o, i)']
  OBVIOUS
<1>3. Unfiled(i) = SumFunction(f) /\ Unfiled(i)' = SumFunction(g)
  BY <1>1, <1>2 DEF Unfiled
<1>4. \A o \in Requests : Pending(o, i) \in Nat /\ Pending(o, i)' \in Nat
  BY PendingType, SoldType DEF Pending, TypeOK
<1>5. \A o \in Requests \ {r} : Pending(o, i)' = Pending(o, i)
  BY DEF Pending
<1>6. DOMAIN f = Requests /\ DOMAIN g = DOMAIN f /\ r \in DOMAIN f /\ IsFiniteSet(DOMAIN f)
  BY <1>1, <1>2
<1>7. \A o \in DOMAIN f : f[o] \in Int /\ g[o] \in Int
  BY <1>1, <1>2, <1>4
<1>8. \A o \in DOMAIN f \ {r} : f[o] = g[o]
  BY <1>1, <1>2, <1>5
<1>9. SumFunction(f) \in Int
  BY <1>6, <1>7, TotalType
<1>10. SumFunction(g) = SumFunction(f) + (g[r] - f[r])
  BY <1>6, <1>7, <1>8, TotalChange
<1>11. QED
  BY <1>1, <1>2, <1>3, <1>9, <1>10

LEMMA FiledType ==
  ASSUME TypeOK, JournalInv, NEW i
  PROVE  Filed(i) \in Int
<1>1. PICK f : f = [m \in movements |-> Sold(i, m.line)]
  OBVIOUS
<1>2. \A m \in DOMAIN f : f[m] \in Int
  BY <1>1, SoldType DEF JournalInv
<1>3. DOMAIN f = movements /\ IsFiniteSet(DOMAIN f)
  BY <1>1 DEF JournalInv
<1>4. QED
  BY <1>1, <1>2, <1>3, TotalType DEF Filed

LEMMA FiledAdd ==
  ASSUME TypeOK, JournalInv, NEW i, NEW m, m \notin movements, movements' = movements \cup {m},
         m.line \in StockLinesFrom(1)
  PROVE  Filed(i)' = Filed(i) + Sold(i, m.line)
<1>1. PICK f : f = [n \in movements |-> Sold(i, n.line)]
  OBVIOUS
<1>2. PICK g : g = [n \in movements \cup {m} |-> Sold(i, n.line)]
  OBVIOUS
<1>3. Filed(i) = SumFunction(f) /\ Filed(i)' = SumFunction(g)
  BY <1>1, <1>2 DEF Filed, Sold
<1>4. DOMAIN f = movements /\ IsFiniteSet(DOMAIN f) /\ DOMAIN g = DOMAIN f \cup {m} /\ m \notin DOMAIN f
  BY <1>1, <1>2 DEF JournalInv
<1>5. \A n \in DOMAIN f : f[n] \in Int /\ g[n] = f[n]
  BY <1>1, <1>2, SoldType DEF JournalInv
<1>6. g[m] = Sold(i, m.line) /\ g[m] \in Int
  BY <1>2, SoldType
<1>7. SumFunction(g) = SumFunction(f) + g[m]
  BY <1>4, <1>5, <1>6, TotalAdd
<1>8. QED
  BY <1>3, <1>6, <1>7

(* A step that neither starts, files nor drops a deduction.                *)
LEMMA JournalSilent ==
  ASSUME TypeOK, TypeOK', JournalInv, NEW r \in Requests, UNCHANGED <<movements, qty>>,
         \A o \in Requests \ {r} : pc'[o] = pc[o] /\ line'[o] = line[o],
         pc[r] \notin {"decrement", "journal", "done", "failed"}, pc'[r] # "journal"
  PROVE  JournalInv'
<1>1. \A m \in movements : m.by \in Requests /\ m.by # r
  BY DEF JournalInv, TypeOK
<1>2. \A m \in movements : pc'[m.by] = pc[m.by] /\ line'[m.by] = line[m.by]
  BY <1>1
<1>3. \A i : Filed(i)' = Filed(i) /\ Deducted(i)' = Deducted(i)
  BY DEF Filed, Deducted, Sold
<1>4. \A i : Unfiled(i)' = Unfiled(i)
  <2> TAKE i
  <2>1. Pending(r, i) = 0 /\ Pending(r, i)' = 0
    BY DEF Pending
  <2>2. QED
    BY <2>1, UnfiledChange
<1>5. StockExplained'
  BY <1>3, <1>4 DEF JournalInv, StockExplained
<1>6. QED
  BY <1>2, <1>5 DEF JournalInv

LEMMA JournalStep ==
  ASSUME TypeOK, TypeOK', JournalInv, [Next]_vars
  PROVE  JournalInv'
<1>1. CASE UNCHANGED vars
  <2>1. \A i : UNCHANGED <<Filed(i), Deducted(i), Unfiled(i)>>
    BY <1>1 DEF vars, documents, books, Filed, Deducted, Unfiled, Pending, Sold
  <2>2. QED
    BY <1>1, <2>1 DEF JournalInv, StockExplained, vars, documents, books
<1>2. ASSUME NEW r \in Requests, Receive(r) PROVE JournalInv'
  BY <1>2, ReceiveFacts, JournalSilent DEF books
<1>3. ASSUME NEW r \in Requests, Handler(r) \/ Fail(r), ~Receive(r) PROVE JournalInv'
  <2>0. \A o \in Requests \ {r} : pc'[o] = pc[o] /\ line'[o] = line[o]
    <3>1. \A o \in Requests \ {r} : line'[o] = line[o]
      BY <1>3 DEF Handler, Fail, DrawNumber, CreateQuote, ReadQuote, CreateInvoice, AcceptQuote,
         DeleteQuote, ReadInvoice, DeleteInvoice, WriteStatus, WritePayment, RecordInstallment,
         DeductFrom, DecrementStock, JournalDecrement, TypeOK
    <3>2. QED
      BY <1>3, <3>1, StepFacts
  <2>1. CASE DecrementStock(r)
    <3>1. pc[r] = "decrement" /\ pc'[r] = "journal" /\ UNCHANGED <<movements, line>>
      BY <2>1 DEF DecrementStock, At, Proceed, TypeOK
    <3>2. PICK n : n = line[r]
      OBVIOUS
    <3>3. n \in StockLinesFrom(1) /\ Lines[n].item \in Items /\ Lines[n].quantity \in Nat
      BY <3>1, <3>2, LineFacts DEF TypeOK
    <3>4. qty' = [qty EXCEPT ![Lines[n].item] = qty[Lines[n].item] - Lines[n].quantity]
      BY <2>1, <3>2 DEF DecrementStock
    <3>5. ASSUME NEW i \in Items
          PROVE  /\ Deducted(i)' = Deducted(i) + Sold(i, n)
                 /\ Unfiled(i)' = Unfiled(i) + Sold(i, n)
                 /\ Filed(i)' = Filed(i)
                 /\ Deducted(i) \in Int /\ Unfiled(i) \in Int /\ Filed(i) \in Int /\ Sold(i, n) \in Nat
      <4>1. qty'[i] = qty[i] - Sold(i, n) /\ Sold(i, n) \in Nat /\ qty[i] \in Int /\ Opening[i] \in Int
        BY <3>3, <3>4 DEF Sold, TypeOK
      <4>2. Pending(r, i) = 0 /\ Pending(r, i)' = Sold(i, n)
        BY <3>1, <3>2 DEF Pending, Sold
      <4>3. Unfiled(i)' = Unfiled(i) + Sold(i, n) /\ Unfiled(i) \in Int
        BY <2>0, <4>1, <4>2, UnfiledChange
      <4>4. Filed(i)' = Filed(i)
        BY <3>1 DEF Filed, Sold
      <4>5. QED
        BY <4>1, <4>3, <4>4, FiledType DEF Deducted
    <3>6. (\A o \in Requests : pc'[o] # "failed") => (\A o \in Requests : pc[o] # "failed")
      BY <2>0, <3>1
    <3>7. StockExplained'
      BY <3>5, <3>6 DEF JournalInv, StockExplained
    <3>8. \A m \in movements : pc'[m.by] \in {"decrement", "journal"} <=> pc[m.by] \in {"decrement", "journal"}
      BY <2>0, <3>1 DEF TypeOK
    <3>9. \A m \in movements : pc'[m.by] \in {"decrement", "journal", "done", "failed"}
      BY <2>0, <3>1 DEF JournalInv, TypeOK
    <3>10. QED
      BY <3>1, <3>7, <3>8, <3>9 DEF JournalInv
  <2>2. CASE JournalDecrement(r)
    <3>1. PICK n : n = line[r]
      OBVIOUS
    <3>2. n \in StockLinesFrom(1) /\ n \in Nat /\ pc[r] = "journal" /\ UNCHANGED qty
      BY <2>2, <3>1, LineFacts DEF JournalDecrement, At, TypeOK
    <3>3. PICK m : m = [by |-> r, invoice |-> Doc(r), line |-> n]
      OBVIOUS
    <3>4. movements' = movements \cup {m} /\ m.by = r /\ m.line = n
      BY <2>2, <3>1, <3>3 DEF JournalDecrement
    <3>5. m \notin movements
      BY <3>1, <3>2, <3>4 DEF JournalInv
    <3>6. pc'[r] \in {"decrement", "done"} /\ (pc'[r] = "decrement" => n < line'[r])
      <4>1. DeductFrom(r, n + 1)
        BY <2>2, <3>1 DEF JournalDecrement
      <4>2. \A k \in StockLinesFrom(n + 1) : n < k
        BY <3>2 DEF StockLinesFrom
      <4>3. CASE StockLinesFrom(n + 1) = {}
        BY <4>1, <4>3 DEF DeductFrom, Proceed, TypeOK
      <4>4. CASE StockLinesFrom(n + 1) # {}
        BY <4>1, <4>2, <4>4 DEF DeductFrom, Proceed, TypeOK
      <4>5. QED
        BY <4>3, <4>4
    <3>7. ASSUME NEW i \in Items
          PROVE  /\ Deducted(i)' = Deducted(i)
                 /\ Unfiled(i)' = Unfiled(i) - Sold(i, n)
                 /\ Filed(i)' = Filed(i) + Sold(i, n)
                 /\ Unfiled(i) \in Int /\ Filed(i) \in Int /\ Sold(i, n) \in Nat
      <4>1. Sold(i, n) \in Nat
        BY <3>2, SoldType
      <4>2. Pending(r, i) = Sold(i, n) /\ Pending(r, i)' = 0
        BY <3>1, <3>2, <3>6 DEF Pending
      <4>3. Unfiled(i)' = Unfiled(i) - Sold(i, n) /\ Unfiled(i) \in Int
        BY <2>0, <4>1, <4>2, UnfiledChange
      <4>4. Filed(i)' = Filed(i) + Sold(i, n)
        BY <3>2, <3>4, <3>5, FiledAdd
      <4>5. QED
        BY <3>2, <4>1, <4>3, <4>4, FiledType DEF Deducted
    <3>8. (\A o \in Requests : pc'[o] # "failed") => (\A o \in Requests : pc[o] # "failed")
      BY <2>0, <3>2
    <3>9. StockExplained'
      <4>1. \A i \in Items : Filed(i)' + Unfiled(i)' = Filed(i) + Unfiled(i)
        BY <3>7
      <4>2. QED
        BY <3>7, <3>8, <4>1 DEF JournalInv, StockExplained
    <3>10. IsFiniteSet(movements')
      BY <3>4, FS_AddElement DEF JournalInv
    <3>11. ASSUME NEW k \in movements'
           PROVE  /\ pc'[k.by] \in {"decrement", "journal", "done", "failed"}
                  /\ pc'[k.by] \in {"decrement", "journal"} => k.line < line'[k.by]
                  /\ k.line \in StockLinesFrom(1)
      <4>1. CASE k = m
        BY <3>2, <3>4, <3>6, <4>1
      <4>2. CASE k \in movements /\ k.by # r
        BY <2>0, <4>2 DEF JournalInv, TypeOK
      <4>3. CASE k \in movements /\ k.by = r
        <5>1. k.line < n /\ k.line \in StockLinesFrom(1) /\ k.line \in Nat
          BY <3>1, <3>2, <4>3, LineFacts DEF JournalInv
        <5>2. line'[r] \in Nat
          BY DEF TypeOK
        <5>3. QED
          BY <3>2, <3>6, <4>3, <5>1, <5>2
      <4>4. QED
        BY <3>4, <4>1, <4>2, <4>3
    <3>12. QED
      BY <3>9, <3>10, <3>11 DEF JournalInv
  <2>3. CASE Fail(r)
    <3>1. pc[r] \notin {"done", "failed"} /\ pc'[r] = "failed" /\ UNCHANGED <<movements, qty, line>>
      BY <2>3 DEF Fail, Active, Proceed, books, TypeOK
    <3>2. ASSUME NEW i \in Items
          PROVE  /\ Deducted(i)' = Deducted(i) /\ Filed(i)' = Filed(i)
                 /\ Unfiled(i)' <= Unfiled(i)
                 /\ Unfiled(i)' \in Int /\ Unfiled(i) \in Int /\ Filed(i) \in Int /\ Deducted(i) \in Int
      <4>1. Pending(r, i) \in Nat /\ Pending(r, i)' = 0
        BY <3>1, PendingType DEF Pending
      <4>2. Unfiled(i)' <= Unfiled(i) /\ Unfiled(i) \in Int /\ Unfiled(i)' \in Int
        BY <2>0, <4>1, UnfiledChange
      <4>3. Filed(i)' = Filed(i) /\ Deducted(i)' = Deducted(i)
        BY <3>1 DEF Filed, Deducted, Sold
      <4>4. Opening[i] \in Int /\ qty[i] \in Int
        BY DEF TypeOK
      <4>5. QED
        BY <4>2, <4>3, <4>4, FiledType DEF Deducted
    <3>3. StockExplained'
      BY <3>1, <3>2 DEF JournalInv, StockExplained
    <3>4. \A m \in movements : pc'[m.by] = pc[m.by] \/ pc'[m.by] = "failed"
      BY <2>0, <3>1 DEF TypeOK
    <3>5. QED
      BY <3>1, <3>3, <3>4 DEF JournalInv
  <2>4. CASE ~DecrementStock(r) /\ ~JournalDecrement(r) /\ ~Fail(r)
    <3>1. UNCHANGED <<movements, qty>>
      BY <1>3, <2>4 DEF Handler, DrawNumber, CreateQuote, ReadQuote, CreateInvoice, AcceptQuote,
         DeleteQuote, ReadInvoice, DeleteInvoice, WriteStatus, WritePayment, RecordInstallment, books
    <3>2. pc[r] \notin {"decrement", "journal", "done", "failed"}
      BY <1>3, <2>4 DEF Handler, At, DrawNumber, CreateQuote, ReadQuote, CreateInvoice, AcceptQuote,
         DeleteQuote, ReadInvoice, DeleteInvoice, WriteStatus, WritePayment, RecordInstallment
    <3>3. pc'[r] # "journal"
      BY <1>3, <2>4 DEF Handler, DrawNumber, CreateQuote, ReadQuote, CreateInvoice, AcceptQuote,
         DeleteQuote, ReadInvoice, DeleteInvoice, WriteStatus, WritePayment, RecordInstallment,
         DeductFrom, Refuse, Proceed, TypeOK
    <3>4. QED
      BY <2>0, <3>1, <3>2, <3>3, JournalSilent
  <2>5. QED
    BY <2>1, <2>2, <2>3, <2>4
<1>4. QED
  BY <1>1, <1>2, <1>3 DEF Next, AllAnswered

LEMMA JournalInit == Init => JournalInv
<1> SUFFICES ASSUME Init PROVE JournalInv
  OBVIOUS
<1>1. IsFiniteSet(movements)
  BY FS_EmptySet DEF Init
<1>2. ASSUME NEW i \in Items PROVE Deducted(i) = 0 /\ Filed(i) = 0 /\ Unfiled(i) = 0
  <2>1. PICK f : f = [m \in movements |-> Sold(i, m.line)]
    OBVIOUS
  <2>2. DOMAIN f = {} /\ IsFiniteSet(DOMAIN f)
    BY <1>1, <2>1 DEF Init
  <2>3. SumFunction(f) = 0
    BY <2>2, TotalZero
  <2>4. PICK g : g = [r \in Requests |-> Pending(r, i)]
    OBVIOUS
  <2>5. DOMAIN g = Requests /\ IsFiniteSet(DOMAIN g) /\ \A r \in DOMAIN g : g[r] = 0
    BY <2>4 DEF Init, Pending
  <2>6. SumFunction(g) = 0
    BY <2>5, TotalZero
  <2>7. Opening[i] \in Int /\ qty[i] = Opening[i]
    BY DEF Init
  <2>8. QED
    BY <2>1, <2>3, <2>4, <2>6, <2>7 DEF Filed, Unfiled, Deducted
<1>3. QED
  BY <1>1, <1>2 DEF Init, JournalInv, StockExplained

(* The journal of paid invoices never claims more than has left the stock, *)
(* and explains it exactly unless a call failed, for any number of         *)
(* payments and status changes that deduct at the same time.               *)
THEOREM DeductionsExplained == Spec => []StockExplained
<1>1. Init => TypeOK /\ JournalInv
  BY TypeInit, JournalInit
<1>2. TypeOK /\ JournalInv /\ [Next]_vars => TypeOK' /\ JournalInv'
  BY TypeStep, JournalStep
<1>3. JournalInv => StockExplained
  BY DEF JournalInv
<1>4. QED
  BY <1>1, <1>2, <1>3, PTL DEF Spec

-----------------------------------------------------------------------------
(* Payments.  What a request has read of an invoice is at most what is     *)
(* recorded of it, and all that is paid when requests do not overlap; an   *)
(* invoice about to be created has no installment and no pledge yet.       *)
ApartInv == /\ scene.apart => \A r, o \in Requests : Active(r) /\ Active(o) => r = o
            /\ ~scene.faults => \A r \in Requests : pc[r] # "failed"

Paying(r) == call[r].op = "pay" /\ pc[r] = "write" /\ Doc(r) \in invoices

PaymentInv ==
  /\ IsFiniteSet(installments)
  /\ \A p \in installments : /\ pc[p.by] \in {"decrement", "journal", "done", "failed"}
                             /\ Created(p.invoice)
  /\ \A r \in Requests : pc[r] \in {"write", "installment"} => Created(Doc(r))
  /\ \A v \in Docs : ~Created(v) => paid[v] = 0
  /\ \A r \in Requests : Paying(r) =>
       /\ seenPaid[r] <= Recorded(Doc(r))
       /\ scene.apart => seenPaid[r] = paid[Doc(r)]
  /\ PaymentsRecorded

(* A request steps only while it is active, and fails only in a scene with *)
(* faults.                                                                 *)
LEMMA OwnStep ==
  ASSUME TypeOK, NEW r \in Requests, Handler(r) \/ Fail(r), ~Receive(r)
  PROVE  /\ Active(r)
         /\ pc'[r] = "failed" => Fail(r) /\ scene.faults
<1>1. Active(r)
  BY DEF Handler, Fail, Active, At, DrawNumber, CreateQuote, ReadQuote, CreateInvoice, AcceptQuote,
     DeleteQuote, ReadInvoice, DeleteInvoice, WriteStatus, WritePayment, RecordInstallment,
     DecrementStock, JournalDecrement
<1>2. CASE Fail(r)
  BY <1>1, <1>2 DEF Fail
<1>3. CASE ~Fail(r)
  BY <1>1, <1>3 DEF Handler, DrawNumber, CreateQuote, ReadQuote, CreateInvoice, AcceptQuote,
     DeleteQuote, ReadInvoice, DeleteInvoice, WriteStatus, WritePayment, RecordInstallment,
     DecrementStock, JournalDecrement, DeductFrom, Refuse, Proceed, TypeOK
<1>4. QED
  BY <1>2, <1>3

LEMMA ApartInit == Init => ApartInv
BY DEF Init, ApartInv, Active

LEMMA ApartStep ==
  ASSUME TypeOK, ApartInv, [Next]_vars
  PROVE  ApartInv'
<1>1. CASE UNCHANGED vars
  BY <1>1 DEF ApartInv, Active, vars
<1>2. ASSUME NEW r \in Requests, Receive(r), UNCHANGED scene PROVE ApartInv'
  <2>1. /\ scene.apart => \A o \in Requests : ~Active(o)
        /\ \A o \in Requests \ {r} : pc'[o] = pc[o]
        /\ pc'[r] \in {"number", "read"}
    BY <1>2, ReceiveFacts DEF Receive
  <2>2. QED
    BY <1>2, <2>1 DEF ApartInv, Active
<1>3. ASSUME NEW r \in Requests, Handler(r) \/ Fail(r), ~Receive(r), UNCHANGED scene PROVE ApartInv'
  <2>1. /\ \A o \in Requests \ {r} : pc'[o] = pc[o]
        /\ Active(r) /\ (pc'[r] = "failed" => scene.faults)
    BY <1>3, StepFacts, OwnStep
  <2>2. QED
    BY <1>3, <2>1 DEF ApartInv, Active
<1>4. QED
  BY <1>1, <1>2, <1>3 DEF Next, AllAnswered

LEMMA PledgeType ==
  ASSUME TypeOK, NEW r \in Requests, NEW v
  PROVE  Pledge(r, v) \in Nat
BY CallInHand DEF Pledge

LEMMA PromisedChange ==
  ASSUME TypeOK, TypeOK', NEW r \in Requests, NEW v,
         \A o \in Requests \ {r} : pc'[o] = pc[o] /\ call'[o] = call[o],
         Pledge(r, v)' \in Nat
  PROVE  /\ Promised(v) \in Nat
         /\ Promised(v)' = Promised(v) + (Pledge(r, v)' - Pledge(r, v))
<1>1. PICK f : f = [o \in Requests |-> Pledge(o, v)]
  OBVIOUS
<1>2. PICK g : g = [o \in Requests |-> Pledge(o, v)']
  OBVIOUS
<1>3. Promised(v) = SumFunction(f) /\ Promised(v)' = SumFunction(g)
  BY <1>1, <1>2 DEF Promised
<1>4. \A o \in Requests : Pledge(o, v) \in Nat
  BY PledgeType
<1>5. \A o \in Requests \ {r} : Pledge(o, v)' = Pledge(o, v)
  BY DEF Pledge, Doc
<1>6. DOMAIN f = Requests /\ DOMAIN g = DOMAIN f /\ r \in DOMAIN f /\ IsFiniteSet(DOMAIN f)
  BY <1>1, <1>2
<1>7. \A o \in DOMAIN f : f[o] \in Int /\ g[o] \in Int /\ f[o] \in Nat
  BY <1>1, <1>2, <1>4, <1>5
<1>8. \A o \in DOMAIN f \ {r} : f[o] = g[o]
  BY <1>1, <1>2, <1>5
<1>9. SumFunction(f) \in Nat
  BY <1>6, <1>7, TotalNonNegative
<1>10. SumFunction(g) = SumFunction(f) + (g[r] - f[r])
  BY <1>6, <1>7, <1>8, TotalChange
<1>11. QED
  BY <1>1, <1>2, <1>3, <1>9, <1>10

LEMMA ShareType == ASSUME TypeOK PROVE \A p \in installments : \A v : Share(p, v) \in Nat
BY DEF TypeOK, Share

LEMMA OnFileType ==
  ASSUME TypeOK, IsFiniteSet(installments), NEW v
  PROVE  OnFile(v) \in Nat
<1>1. PICK f : f = [p \in installments |-> Share(p, v)]
  OBVIOUS
<1>2. DOMAIN f = installments /\ \A p \in DOMAIN f : f[p] \in Nat
  BY <1>1, ShareType
<1>3. QED
  BY <1>1, <1>2, TotalNonNegative DEF OnFile

LEMMA OnFileAdd ==
  ASSUME TypeOK, IsFiniteSet(installments), NEW v, NEW p, p \notin installments,
         installments' = installments \cup {p}, Share(p, v) \in Nat
  PROVE  OnFile(v)' = OnFile(v) + Share(p, v)
<1>1. PICK f : f = [q \in installments |-> Share(q, v)]
  OBVIOUS
<1>2. PICK g : g = [q \in installments \cup {p} |-> Share(q, v)]
  OBVIOUS
<1>3. OnFile(v) = SumFunction(f) /\ OnFile(v)' = SumFunction(g)
  BY <1>1, <1>2 DEF OnFile, Share
<1>4. DOMAIN f = installments /\ DOMAIN g = DOMAIN f \cup {p} /\ p \notin DOMAIN f
  BY <1>1, <1>2
<1>5. \A q \in DOMAIN f : f[q] \in Int /\ g[q] = f[q]
  BY <1>1, <1>2, ShareType
<1>6. g[p] = Share(p, v) /\ g[p] \in Int
  BY <1>2
<1>7. SumFunction(g) = SumFunction(f) + g[p]
  BY <1>4, <1>5, <1>6, TotalAdd
<1>8. QED
  BY <1>3, <1>6, <1>7

(* The deletion of an invoice takes the installments of no other.          *)
LEMMA OnFileDrop ==
  ASSUME TypeOK, IsFiniteSet(installments), NEW v, NEW d, d # v,
         installments' = {p \in installments : p.invoice # d}
  PROVE  OnFile(v)' = OnFile(v)
<1>1. PICK f : f = [q \in installments |-> Share(q, v)]
  OBVIOUS
<1>2. PICK g : g = [q \in installments' |-> Share(q, v)]
  OBVIOUS
<1>3. OnFile(v) = SumFunction(f) /\ OnFile(v)' = SumFunction(g)
  BY <1>1, <1>2 DEF OnFile, Share
<1>4. DOMAIN f = installments /\ DOMAIN g = installments' /\ DOMAIN g \subseteq DOMAIN f
  BY <1>1, <1>2
<1>5. \A q \in DOMAIN f : f[q] \in Int
  BY <1>1, ShareType
<1>6. \A q \in DOMAIN g : g[q] = f[q]
  BY <1>1, <1>2
<1>7. \A q \in DOMAIN f \ DOMAIN g : f[q] = 0
  BY <1>1, <1>2 DEF Share
<1>8. QED
  BY <1>3, <1>4, <1>5, <1>6, <1>7, TotalDrop

(* An invoice that is not created yet has nothing recorded, as long as no  *)
(* request has failed.                                                     *)
LEMMA RecordedNew ==
  ASSUME TypeOK, PaymentInv, NEW v \in Docs, ~Created(v), \A r \in Requests : pc[r] # "failed"
  PROVE  Recorded(v) = 0
<1>1. PICK f : f = [p \in installments |-> Share(p, v)]
  OBVIOUS
<1>2. DOMAIN f = installments /\ IsFiniteSet(DOMAIN f) /\ \A p \in DOMAIN f : f[p] = 0
  BY <1>1 DEF PaymentInv, Share
<1>3. SumFunction(f) = 0
  BY <1>2, TotalZero
<1>4. PICK g : g = [r \in Requests |-> Pledge(r, v)]
  OBVIOUS
<1>5. DOMAIN g = Requests /\ IsFiniteSet(DOMAIN g) /\ \A r \in DOMAIN g : g[r] = 0
  BY <1>4 DEF PaymentInv, Pledge
<1>6. SumFunction(g) = 0
  BY <1>5, TotalZero
<1>7. QED
  BY <1>1, <1>3, <1>4, <1>6 DEF Recorded, OnFile, Promised

LEMMA RecordedType ==
  ASSUME TypeOK, IsFiniteSet(installments), NEW v
  PROVE  Recorded(v) \in Nat
<1>1. PICK g : g = [r \in Requests |-> Pledge(r, v)]
  OBVIOUS
<1>2. DOMAIN g = Requests /\ IsFiniteSet(DOMAIN g) /\ \A r \in DOMAIN g : g[r] \in Nat
  BY <1>1, PledgeType
<1>3. SumFunction(g) \in Nat
  BY <1>2, TotalNonNegative
<1>4. QED
  BY <1>1, <1>3, OnFileType DEF Recorded, Promised

(* A step that pays nothing and takes nothing off the record.              *)
LEMMA PaymentKept ==
  ASSUME TypeOK, TypeOK', PaymentInv, ApartInv, NEW r \in Requests, UNCHANGED <<scene, paid>>,
         IsFiniteSet(installments'),
         \A p \in installments' : /\ pc'[p.by] \in {"decrement", "journal", "done", "failed"}
                                  /\ Created(p.invoice)',
         \A v \in invoices' : /\ Recorded(v)' \in Nat /\ Recorded(v)' >= Recorded(v)
                              /\ ~scene.faults => Recorded(v)' = Recorded(v),
         \A v \in invoices' : v \in invoices \/ ~Created(v),
         \A o \in Requests \ {r} : pc'[o] = pc[o] /\ call'[o] = call[o] /\ seenPaid'[o] = seenPaid[o],
         \A v \in Docs : Created(v) => Created(v)',
         pc'[r] \in {"write", "installment"} => Created(Doc(r))',
         Paying(r)' => Doc(r)' \in invoices /\ seenPaid'[r] = paid[Doc(r)']
  PROVE  PaymentInv'
<1>1. \A v \in invoices' : Recorded(v) \in Nat /\ paid[v] \in Nat /\ v \in Docs
  BY RecordedType DEF PaymentInv, TypeOK
<1>2. PaymentsRecorded'
  <2> SUFFICES ASSUME NEW v \in invoices'
               PROVE  /\ paid'[v] <= Recorded(v)'
                      /\ scene'.apart /\ ~scene'.faults => paid'[v] = Recorded(v)'
    BY DEF PaymentsRecorded
  <2>1. CASE v \in invoices
    BY <1>1, <2>1 DEF PaymentInv, PaymentsRecorded
  <2>2. CASE ~Created(v)
    <3>1. paid[v] = 0
      BY <1>1, <2>2 DEF PaymentInv
    <3>2. ~scene.faults => Recorded(v) = 0
      BY <1>1, <2>2, RecordedNew DEF ApartInv
    <3>3. QED
      BY <1>1, <3>1, <3>2
  <2>3. QED
    BY <2>1, <2>2
<1>3. \A v \in Docs : ~Created(v)' => paid'[v] = 0
  BY DEF PaymentInv
<1>4. \A o \in Requests : pc'[o] \in {"write", "installment"} => Created(Doc(o))'
  <2> SUFFICES ASSUME NEW o \in Requests \ {r}, pc'[o] \in {"write", "installment"}
               PROVE  Created(Doc(o))'
    OBVIOUS
  <2>1. Created(Doc(o)) /\ Doc(o)' = Doc(o) /\ Doc(o) \in Docs \cup {NoDoc}
    BY CallInHand DEF PaymentInv, Doc
  <2>2. Doc(o) \in Docs => Created(Doc(o))'
    BY <2>1
  <2>3. Doc(o) \notin Docs => Created(Doc(o))'
    BY <2>1 DEF Created, Docs
  <2>4. QED
    BY <2>2, <2>3
<1>5. ASSUME NEW o \in Requests, Paying(o)'
      PROVE  /\ seenPaid'[o] <= Recorded(Doc(o))'
             /\ scene'.apart => seenPaid'[o] = paid'[Doc(o)']
  <2>1. CASE o = r
    <3>1. PICK v : v = Doc(r)'
      OBVIOUS
    <3>2. v \in invoices /\ v \in invoices' /\ seenPaid'[r] = paid[v]
      BY <1>5, <2>1, <3>1 DEF Paying
    <3>3. paid[v] <= Recorded(v)
      BY <3>2 DEF PaymentInv, PaymentsRecorded
    <3>4. paid[v] <= Recorded(v)'
      BY <1>1, <3>2, <3>3
    <3>5. Recorded(v)' = Recorded(Doc(r))'
      BY <3>1 DEF Recorded, OnFile, Promised, Share, Pledge, Doc
    <3>6. QED
      BY <2>1, <3>1, <3>2, <3>4, <3>5
  <2>2. CASE o # r
    <3>1. PICK v : v = Doc(o)
      OBVIOUS
    <3>2. Doc(o)' = v /\ pc[o] = "write" /\ call[o].op = "pay" /\ seenPaid'[o] = seenPaid[o] /\ v \in invoices'
      BY <1>5, <2>2, <3>1 DEF Paying, Doc
    <3>3. Created(v)
      BY <3>1, <3>2 DEF PaymentInv
    <3>4. v \in invoices
      BY <3>2, <3>3
    <3>5. Paying(o)
      BY <3>1, <3>2, <3>4 DEF Paying
    <3>6. seenPaid[o] <= Recorded(v) /\ (scene.apart => seenPaid[o] = paid[v])
      BY <3>1, <3>5 DEF PaymentInv
    <3>7. seenPaid[o] \in Nat
      BY DEF TypeOK
    <3>8. seenPaid'[o] <= Recorded(v)'
      BY <1>1, <3>2, <3>6, <3>7
    <3>9. Recorded(v)' = Recorded(Doc(o))'
      BY <3>2 DEF Recorded, OnFile, Promised, Share, Pledge, Doc
    <3>10. QED
      BY <3>2, <3>6, <3>8, <3>9
  <2>3. QED
    BY <2>1, <2>2
<1>6. QED
  BY <1>2, <1>3, <1>4, <1>5 DEF PaymentInv

(* The record after a step that files no installment: what one request     *)
(* has pledged is all that may change.                                     *)
LEMMA RecordedFrame ==
  ASSUME TypeOK, TypeOK', PaymentInv, NEW r \in Requests, NEW v,
         \A o \in Requests \ {r} : pc'[o] = pc[o] /\ call'[o] = call[o],
         OnFile(v)' = OnFile(v),
         Pledge(r, v)' \in Nat
  PROVE  /\ Recorded(v) \in Nat /\ Pledge(r, v) \in Nat
         /\ Recorded(v)' = Recorded(v) + (Pledge(r, v)' - Pledge(r, v))
<1>1. OnFile(v) \in Nat
  BY OnFileType DEF PaymentInv
<1>2. /\ Promised(v) \in Nat
      /\ Promised(v)' = Promised(v) + (Pledge(r, v)' - Pledge(r, v))
  BY PromisedChange
<1>3. Pledge(r, v) \in Nat
  BY PledgeType
<1>4. QED
  BY <1>1, <1>2, <1>3 DEF Recorded

LEMMA PaymentReceive ==
  ASSUME TypeOK, TypeOK', PaymentInv, ApartInv, UNCHANGED scene, NEW r \in Requests, Receive(r)
  PROVE  PaymentInv'
<1>1. /\ pc[r] = "idle" /\ pc'[r] \in {"number", "read"}
      /\ \A o \in Requests \ {r} : pc'[o] = pc[o] /\ call'[o] = call[o]
      /\ UNCHANGED <<documents, books, drawn, seen, line>>
  BY ReceiveFacts
<1>2. ~Created(r) /\ \A v \in Docs : Created(v) => Created(v)'
  BY <1>1 DEF Created
<1>3. ASSUME NEW v PROVE Recorded(v)' \in Nat /\ Recorded(v)' = Recorded(v)
  <2>1. Pledge(r, v) = 0 /\ Pledge(r, v)' = 0
    BY <1>1 DEF Pledge
  <2>2. OnFile(v)' = OnFile(v)
    BY <1>1 DEF OnFile, Share, books
  <2>3. QED
    BY <1>1, <2>1, <2>2, RecordedFrame
<1>4. \A p \in installments' : /\ pc'[p.by] \in {"decrement", "journal", "done", "failed"}
                               /\ Created(p.invoice)'
  <2> SUFFICES ASSUME NEW p \in installments
               PROVE  pc'[p.by] \in {"decrement", "journal", "done", "failed"} /\ Created(p.invoice)'
    BY <1>1 DEF books
  <2>1. p.by \in Requests \ {r}
    BY <1>1 DEF PaymentInv, TypeOK
  <2>2. Created(p.invoice)'
    BY <1>1 DEF PaymentInv, Created
  <2>3. QED
    BY <1>1, <2>1, <2>2 DEF PaymentInv
<1>5. IsFiniteSet(installments')
  BY <1>1 DEF PaymentInv, books
<1>6. ~Paying(r)' /\ pc'[r] \notin {"write", "installment"}
  BY <1>1 DEF Paying
<1>7. UNCHANGED <<scene, paid, invoices, seenPaid>>
  BY <1>1 DEF documents, seen
<1>8. \A v \in invoices : Recorded(v)' >= Recorded(v)
  BY <1>3
<1>9. QED
  BY <1>1, <1>2, <1>3, <1>4, <1>5, <1>6, <1>7, <1>8, PaymentKept

(* invoice.update of a payment: what is pledged grows by what is paid.     *)
LEMMA PaymentWrite ==
  ASSUME TypeOK, TypeOK', PaymentInv, ApartInv, UNCHANGED scene,
         NEW r \in Requests, WritePayment(r), Doc(r) \in invoices
  PROVE  PaymentInv'
<1>1. PICK v : v = Doc(r)
  OBVIOUS
<1>2. PICK a : a = call[r].amount
  OBVIOUS
<1>3. /\ pc[r] = "write" /\ call[r].op = "pay" /\ pc'[r] = "installment"
      /\ \A o \in Requests \ {r} : pc'[o] = pc[o]
      /\ paid' = [paid EXCEPT ![v] = seenPaid[r] + a]
      /\ UNCHANGED <<invoices, installments, call, seenPaid>>
  BY <1>1, <1>2 DEF WritePayment, At, Proceed, NewPaid, books, seen, TypeOK
<1>4. /\ v \in invoices /\ v \in Docs /\ a \in Nat /\ seenPaid[r] \in Nat
      /\ \A u \in Docs : paid[u] \in Nat
  BY <1>1, <1>2, CallInHand DEF TypeOK
<1>5. \A o \in Requests : Doc(o)' = Doc(o)
  BY <1>3 DEF Doc
<1>6. \A u \in Docs : Created(u)' = Created(u)
  BY <1>3 DEF Created
<1>7. ASSUME NEW u \in Docs
      PROVE  /\ Recorded(u) \in Nat
             /\ Recorded(u)' = Recorded(u) + (IF u = v THEN a ELSE 0)
  <2>1. Pledge(r, u) = 0 /\ Pledge(r, u)' = (IF u = v THEN a ELSE 0)
    BY <1>1, <1>2, <1>3, <1>5 DEF Pledge
  <2>2. OnFile(u)' = OnFile(u)
    BY <1>3 DEF OnFile, Share
  <2>3. Pledge(r, u)' \in Nat
    BY <1>4, <2>1
  <2>4. Recorded(u) \in Nat /\ Recorded(u)' = Recorded(u) + (Pledge(r, u)' - Pledge(r, u))
    BY <1>3, <2>2, <2>3, RecordedFrame
  <2>5. QED
    BY <1>4, <2>1, <2>4
<1>8. Paying(r)
  BY <1>1, <1>3, <1>4 DEF Paying
<1>9. seenPaid[r] <= Recorded(v) /\ (scene.apart => seenPaid[r] = paid[v])
  BY <1>1, <1>8 DEF PaymentInv
<1>10. paid'[v] = seenPaid[r] + a /\ \A u \in Docs \ {v} : paid'[u] = paid[u]
  BY <1>3, <1>4 DEF TypeOK
<1>11. PaymentsRecorded'
  <2> SUFFICES ASSUME NEW u \in invoices
               PROVE  /\ paid'[u] <= Recorded(u)'
                      /\ scene.apart /\ ~scene.faults => paid'[u] = Recorded(u)'
    BY <1>3 DEF PaymentsRecorded
  <2>1. u \in Docs /\ paid[u] <= Recorded(u) /\ (scene.apart /\ ~scene.faults => paid[u] = Recorded(u))
    BY DEF PaymentInv, PaymentsRecorded, TypeOK
  <2>2. CASE u = v
    BY <1>4, <1>7, <1>9, <1>10, <2>1, <2>2
  <2>3. CASE u # v
    BY <1>4, <1>7, <1>10, <2>1, <2>3
  <2>4. QED
    BY <2>2, <2>3
<1>12. ASSUME NEW o \in Requests, Paying(o)'
       PROVE  /\ seenPaid'[o] <= Recorded(Doc(o))'
              /\ scene'.apart => seenPaid'[o] = paid'[Doc(o)']
  <2>1. o # r /\ Paying(o) /\ Active(o) /\ Active(r)
    BY <1>3, <1>5, <1>12 DEF Paying, Active
  <2>2. ~scene.apart
    BY <2>1 DEF ApartInv
  <2>3. PICK u : u = Doc(o)
    OBVIOUS
  <2>4. u \in Docs /\ seenPaid[o] <= Recorded(u) /\ seenPaid[o] \in Nat
    BY <2>1, <2>3 DEF PaymentInv, Paying, TypeOK
  <2>5. Recorded(u) \in Nat /\ Recorded(u)' >= Recorded(u)
    BY <1>4, <1>7, <2>4
  <2>6. seenPaid'[o] <= Recorded(u)'
    BY <1>3, <1>4, <1>7, <2>4, <2>5
  <2>7. Recorded(Doc(o))' = Recorded(u)'
    BY <1>5, <2>3 DEF Recorded, OnFile, Promised, Share, Pledge, Doc
  <2>8. QED
    BY <2>2, <2>6, <2>7
<1>13. \A p \in installments' : /\ pc'[p.by] \in {"decrement", "journal", "done", "failed"}
                                /\ Created(p.invoice)'
  <2> SUFFICES ASSUME NEW p \in installments
               PROVE  pc'[p.by] \in {"decrement", "journal", "done", "failed"} /\ Created(p.invoice)'
    BY <1>3
  <2>1. p.by \in Requests /\ p.by # r /\ Created(p.invoice)
    BY <1>3 DEF PaymentInv, TypeOK
  <2>2. Created(p.invoice)'
    BY <1>3, <2>1 DEF Created
  <2>3. QED
    BY <1>3, <2>1, <2>2 DEF PaymentInv
<1>14. \A o \in Requests : pc'[o] \in {"write", "installment"} => Created(Doc(o))'
  <2> SUFFICES ASSUME NEW o \in Requests, pc'[o] \in {"write", "installment"}
               PROVE  Created(Doc(o))'
    OBVIOUS
  <2>1. pc[o] \in {"write", "installment"}
    BY <1>3
  <2>2. Created(Doc(o)) /\ Doc(o)' = Doc(o)
    BY <1>5, <2>1 DEF PaymentInv
  <2>3. QED
    BY <1>3, <2>2 DEF Created
<1>15. \A u \in Docs : ~Created(u)' => paid'[u] = 0
  <2>1. Created(v)
    BY <1>1, <1>3 DEF PaymentInv
  <2>2. QED
    BY <1>4, <1>6, <1>10, <2>1 DEF PaymentInv
<1>16. IsFiniteSet(installments')
  BY <1>3 DEF PaymentInv
<1>17. QED
  BY <1>11, <1>12, <1>13, <1>14, <1>15, <1>16 DEF PaymentInv

(* paymentInstallment.create: the pledge becomes an installment.           *)
LEMMA PaymentFile ==
  ASSUME TypeOK, TypeOK', PaymentInv, ApartInv, UNCHANGED scene,
         NEW r \in Requests, RecordInstallment(r), Doc(r) \in invoices
  PROVE  PaymentInv'
<1>1. PICK v : v = Doc(r)
  OBVIOUS
<1>2. PICK p : p = [by |-> r, invoice |-> v, amount |-> call[r].amount]
  OBVIOUS
<1>3. /\ pc[r] = "installment" /\ call[r].op = "pay" /\ v \in invoices
      /\ installments' = installments \cup {p}
      /\ p.by = r /\ p.invoice = v /\ p.amount = call[r].amount /\ p.amount \in Nat
      /\ UNCHANGED <<invoices, paid, call, seenPaid>>
  BY <1>1, <1>2, CallInHand DEF RecordInstallment, At, documents, seen
<1>4. pc'[r] \in {"decrement", "done"}
  BY <1>1, <1>3 DEF RecordInstallment, DeductFrom, Proceed, TypeOK
<1>5. \A o \in Requests \ {r} : pc'[o] = pc[o]
  BY StepFacts, <1>3 DEF Handler, Receive
<1>6. p \notin installments
  BY <1>3 DEF PaymentInv
<1>7. \A u \in Docs : Created(u) => Created(u)'
  BY <1>3, <1>5 DEF Created
<1>8. \A o \in Requests : Doc(o)' = Doc(o)
  BY <1>3 DEF Doc
<1>9. ASSUME NEW u \in invoices PROVE Recorded(u)' = Recorded(u) /\ Recorded(u)' \in Nat
  <2>1. Share(p, u) = (IF u = v THEN p.amount ELSE 0) /\ Share(p, u) \in Nat
    BY <1>3 DEF Share
  <2>2. Pledge(r, u) = Share(p, u) /\ Pledge(r, u)' = 0
    BY <1>1, <1>3, <1>4, <1>8, <2>1 DEF Pledge
  <2>3. /\ Promised(u) \in Nat
        /\ Promised(u)' = Promised(u) - Share(p, u)
    BY <1>3, <1>5, <2>1, <2>2, PromisedChange
  <2>4. OnFile(u)' = OnFile(u) + Share(p, u) /\ OnFile(u) \in Nat
    BY <1>3, <1>6, <2>1, OnFileAdd, OnFileType DEF PaymentInv
  <2>5. QED
    BY <2>1, <2>3, <2>4 DEF Recorded
<1>10. \A k \in installments' : /\ pc'[k.by] \in {"decrement", "journal", "done", "failed"}
                                /\ Created(k.invoice)'
  <2> SUFFICES ASSUME NEW k \in installments'
               PROVE  pc'[k.by] \in {"decrement", "journal", "done", "failed"} /\ Created(k.invoice)'
    OBVIOUS
  <2>1. CASE k = p
    <3>1. Created(v)
      BY <1>1, <1>3 DEF PaymentInv
    <3>2. Created(v)'
      BY <1>3, <1>5, <3>1 DEF Created
    <3>3. QED
      BY <1>3, <1>4, <2>1, <3>2
  <2>2. CASE k \in installments
    <3>1. k.by \in Requests /\ k.by # r /\ Created(k.invoice)
      BY <1>3, <2>2 DEF PaymentInv, TypeOK
    <3>2. Created(k.invoice)'
      BY <1>3, <1>4, <1>5, <3>1 DEF Created
    <3>3. QED
      BY <1>5, <2>2, <3>1, <3>2 DEF PaymentInv
  <2>3. QED
    BY <1>3, <2>1, <2>2
<1>11. IsFiniteSet(installments')
  BY <1>3, FS_AddElement DEF PaymentInv
<1>12. ~Paying(r)' /\ pc'[r] \notin {"write", "installment"}
  BY <1>4 DEF Paying
<1>13. \A u \in invoices' : Recorded(u)' \in Nat /\ Recorded(u)' >= Recorded(u) /\ Recorded(u)' = Recorded(u)
  BY <1>3, <1>9
<1>14. QED
  BY <1>3, <1>5, <1>7, <1>10, <1>11, <1>12, <1>13, PaymentKept

LEMMA PaymentStep == TypeOK /\ TypeOK' /\ DocumentInv /\ ApartInv /\ PaymentInv /\ [Next]_vars => PaymentInv'
<1> SUFFICES ASSUME TypeOK, TypeOK', DocumentInv, ApartInv, PaymentInv, [Next]_vars PROVE PaymentInv'
  OBVIOUS
<1>1. CASE UNCHANGED vars
  <2>1. UNCHANGED <<scene, invoices, paid, installments, pc, call, seenPaid>>
    BY <1>1 DEF vars, documents, books, seen
  <2>2. \A v : Recorded(v)' = Recorded(v)
    BY <2>1 DEF Recorded, OnFile, Promised, Share, Pledge, Doc
  <2>3. (\A v \in Docs : Created(v)' = Created(v)) /\ (\A r \in Requests : Paying(r)' = Paying(r))
    BY <2>1 DEF Created, Paying, Doc
  <2>4. PaymentsRecorded'
    BY <2>1, <2>2 DEF PaymentInv, PaymentsRecorded
  <2>5. \A p \in installments : Created(p.invoice)'
    BY <2>1 DEF PaymentInv, Created
  <2>6. \A r \in Requests : pc[r] \in {"write", "installment"} => Created(Doc(r))'
    BY <2>1 DEF PaymentInv, Created, Doc
  <2>7. ASSUME NEW r \in Requests, Paying(r)'
        PROVE seenPaid'[r] <= Recorded(Doc(r))' /\ (scene'.apart => seenPaid'[r] = paid'[Doc(r)'])
    <3>1. PICK v : v = Doc(r)
      OBVIOUS
    <3>2. Doc(r)' = v
      BY <2>1, <3>1 DEF Doc
    <3>3. Recorded(Doc(r))' = Recorded(v)'
      BY <3>2 DEF Recorded, OnFile, Promised, Share, Pledge, Doc
    <3>4. seenPaid[r] <= Recorded(v) /\ (scene.apart => seenPaid[r] = paid[v])
      BY <2>3, <2>7, <3>1 DEF PaymentInv
    <3>5. QED
      BY <2>1, <2>2, <3>2, <3>3, <3>4
  <2>8. QED
    BY <2>1, <2>3, <2>4, <2>5, <2>6, <2>7 DEF PaymentInv
<1>2. ASSUME NEW r \in Requests, Receive(r), UNCHANGED scene PROVE PaymentInv'
  BY <1>2, PaymentReceive
<1>3. ASSUME NEW r \in Requests, Handler(r) \/ Fail(r), ~Receive(r), UNCHANGED scene PROVE PaymentInv'
  <2>s. /\ UNCHANGED call
        /\ \A o \in Requests \ {r} : pc'[o] = pc[o] /\ seenPaid'[o] = seenPaid[o]
        /\ \A v \in Docs : Created(v) => Created(v)'
    BY <1>3, StepFacts, StepAlone
  <2>o. Active(r) /\ (pc'[r] = "failed" => Fail(r) /\ scene.faults)
    BY <1>3, OwnStep
  <2>1. CASE WritePayment(r) /\ Doc(r) \in invoices
    BY <1>3, <2>1, PaymentWrite
  <2>2. CASE RecordInstallment(r) /\ Doc(r) \in invoices
    BY <1>3, <2>2, PaymentFile
  <2>3. CASE ~(WritePayment(r) /\ Doc(r) \in invoices) /\ ~(RecordInstallment(r) /\ Doc(r) \in invoices)
    <3>1. UNCHANGED paid
      BY <1>3, <2>3 DEF Handler, Fail, DrawNumber, CreateQuote, ReadQuote, CreateInvoice, AcceptQuote,
         DeleteQuote, ReadInvoice, DeleteInvoice, WriteStatus, WritePayment, RecordInstallment,
         DecrementStock, JournalDecrement, documents
    <3>2. /\ installments' \subseteq installments
          /\ \A v \in invoices' : OnFile(v)' = OnFile(v)
      <4>1. CASE DeleteInvoice(r)
        <5>1. /\ installments' = {p \in installments : p.invoice # Doc(r)}
              /\ \A v \in invoices' : Doc(r) # v
          BY <4>1 DEF DeleteInvoice
        <5>2. QED
          BY <5>1, OnFileDrop DEF PaymentInv
      <4>2. CASE ~DeleteInvoice(r)
        <5>1. UNCHANGED installments
          BY <1>3, <2>3, <4>2 DEF Handler, Fail, DrawNumber, CreateQuote, ReadQuote, CreateInvoice,
             AcceptQuote, DeleteQuote, ReadInvoice, WriteStatus, WritePayment, RecordInstallment,
             DecrementStock, JournalDecrement, books
        <5>2. QED
          BY <5>1 DEF OnFile, Share
      <4>3. QED
        BY <4>1, <4>2
    <3>3. \A v \in invoices' : v \in invoices \/ ~Created(v)
      <4>1. CASE CreateInvoice(r)
        BY <4>1 DEF CreateInvoice, At, Created
      <4>2. CASE ~CreateInvoice(r)
        BY <1>3, <4>2 DEF Handler, Fail, DrawNumber, CreateQuote, ReadQuote, AcceptQuote,
           DeleteQuote, ReadInvoice, DeleteInvoice, WriteStatus, WritePayment, RecordInstallment,
           DecrementStock, JournalDecrement, documents
      <4>3. QED
        BY <4>1, <4>2
    <3>4. ASSUME NEW v \in invoices'
          PROVE  /\ Pledge(r, v)' \in Nat /\ Pledge(r, v)' >= Pledge(r, v)
                 /\ ~scene.faults => Pledge(r, v)' = Pledge(r, v)
      <4>1. Pledge(r, v) \in Nat /\ call[r].amount \in Nat
        BY PledgeType, CallInHand
      <4>2. CASE Fail(r)
        <5>1. pc'[r] = "failed" /\ scene.faults
          BY <4>2 DEF Fail, Proceed, TypeOK
        <5>2. Pledge(r, v)' = (IF Doc(r) = v THEN call[r].amount ELSE 0)
          BY <2>s, <5>1 DEF Pledge, Doc
        <5>3. Pledge(r, v) = 0 \/ Pledge(r, v) = (IF Doc(r) = v THEN call[r].amount ELSE 0)
          BY DEF Pledge
        <5>4. QED
          BY <4>1, <5>1, <5>2, <5>3
      <4>3. CASE RecordInstallment(r)
        <5>1. pc'[r] = "refused" /\ UNCHANGED invoices /\ Doc(r) \notin invoices
          BY <2>3, <4>3 DEF RecordInstallment, Refuse, Proceed, documents, TypeOK
        <5>2. Pledge(r, v) = 0 /\ Pledge(r, v)' = 0
          BY <5>1 DEF Pledge
        <5>3. QED
          BY <5>2
      <4>4. CASE ~Fail(r) /\ ~RecordInstallment(r)
        <5>1. pc[r] \notin {"installment", "failed"}
          BY <1>3, <2>o, <4>4 DEF Handler, At, Active, DrawNumber, CreateQuote, ReadQuote, CreateInvoice,
             AcceptQuote, DeleteQuote, ReadInvoice, DeleteInvoice, WriteStatus, WritePayment,
             DecrementStock, JournalDecrement
        <5>2. pc'[r] \notin {"installment", "failed"}
          BY <1>3, <2>3, <2>o, <4>4 DEF Handler, DrawNumber, CreateQuote, ReadQuote, CreateInvoice,
             AcceptQuote, DeleteQuote, ReadInvoice, DeleteInvoice, WriteStatus, WritePayment,
             DecrementStock, JournalDecrement, DeductFrom, Refuse, Proceed, TypeOK
        <5>3. Pledge(r, v) = 0 /\ Pledge(r, v)' = 0
          BY <5>1, <5>2 DEF Pledge
        <5>4. QED
          BY <5>3
      <4>5. QED
        BY <4>2, <4>3, <4>4
    <3>5. \A v \in invoices' : /\ Recorded(v)' \in Nat /\ Recorded(v)' >= Recorded(v)
                               /\ ~scene.faults => Recorded(v)' = Recorded(v)
      <4> SUFFICES ASSUME NEW v \in invoices'
                   PROVE  /\ Recorded(v)' \in Nat /\ Recorded(v)' >= Recorded(v)
                          /\ ~scene.faults => Recorded(v)' = Recorded(v)
        OBVIOUS
      <4>1. /\ Recorded(v) \in Nat /\ Pledge(r, v) \in Nat
            /\ Recorded(v)' = Recorded(v) + (Pledge(r, v)' - Pledge(r, v))
        BY <2>s, <3>2, <3>4, RecordedFrame
      <4>2. QED
        BY <3>4, <4>1
    <3>6. IsFiniteSet(installments')
      BY <3>2, FS_Subset DEF PaymentInv
    <3>7. pc[r] \in {"decrement", "journal", "done", "failed"}
            => pc'[r] \in {"decrement", "journal", "done", "failed"}
      BY <1>3 DEF Handler, At, Fail, Active, DrawNumber, CreateQuote, ReadQuote, CreateInvoice,
         AcceptQuote, DeleteQuote, ReadInvoice, DeleteInvoice, WriteStatus, WritePayment,
         RecordInstallment, DecrementStock, JournalDecrement, DeductFrom, Proceed, TypeOK
    <3>8. \A p \in installments' : /\ pc'[p.by] \in {"decrement", "journal", "done", "failed"}
                                   /\ Created(p.invoice)'
      <4> SUFFICES ASSUME NEW p \in installments
                   PROVE  pc'[p.by] \in {"decrement", "journal", "done", "failed"} /\ Created(p.invoice)'
        BY <3>2
      <4>1. p.by \in Requests /\ p.invoice \in Docs \cup {NoDoc} /\ Created(p.invoice)
        BY DEF PaymentInv, TypeOK
      <4>2. Created(p.invoice)'
        BY <2>s, <4>1 DEF Created, Docs
      <4>3. pc[p.by] \in {"decrement", "journal", "done", "failed"}
        BY DEF PaymentInv
      <4>4. QED
        BY <2>s, <3>7, <4>1, <4>2, <4>3
    <3>9. pc'[r] # "installment" /\ (pc'[r] = "write" => ReadInvoice(r) /\ Doc(r) \in invoices)
      BY <1>3, <2>3 DEF Handler, Fail, DrawNumber, CreateQuote, ReadQuote, CreateInvoice,
         AcceptQuote, DeleteQuote, ReadInvoice, DeleteInvoice, WriteStatus, WritePayment,
         RecordInstallment, DecrementStock, JournalDecrement, DeductFrom, Refuse, Proceed, TypeOK
    <3>10. Doc(r)' = Doc(r) /\ invoices \subseteq Docs
      BY <2>s DEF Doc, TypeOK
    <3>11. Paying(r)' => Doc(r)' \in invoices /\ seenPaid'[r] = paid[Doc(r)']
      BY <3>9, <3>10 DEF Paying, ReadInvoice, TypeOK
    <3>12. pc'[r] \in {"write", "installment"} => Created(Doc(r))'
      <4> SUFFICES ASSUME pc'[r] = "write" PROVE Created(Doc(r))'
        BY <3>9
      <4>1. Created(Doc(r)) /\ Doc(r) \in Docs
        BY <3>9, <3>10 DEF DocumentInv
      <4>2. QED
        BY <2>s, <3>10, <4>1 DEF Created
    <3>13. QED
      BY <1>3, <2>s, <3>1, <3>3, <3>5, <3>6, <3>8, <3>11, <3>12, PaymentKept
  <2>4. QED
    BY <2>1, <2>2, <2>3
<1>4. QED
  BY <1>1, <1>2, <1>3 DEF Next, AllAnswered

LEMMA PaymentInit == Init => PaymentInv
<1> SUFFICES ASSUME Init PROVE PaymentInv
  OBVIOUS
<1>1. IsFiniteSet(installments) /\ installments = {}
  BY FS_EmptySet DEF Init
<1>2. /\ \A r \in Requests : pc[r] = "idle"
      /\ \A v \in Docs : paid[v] = 0
      /\ invoices = {OldInvoice} /\ OldInvoice \in Docs /\ Created(OldInvoice)
  BY DEF Init, Docs, Created
<1>3. ASSUME NEW v PROVE Recorded(v) = 0
  <2>1. PICK f : f = [p \in installments |-> Share(p, v)]
    OBVIOUS
  <2>2. DOMAIN f = {} /\ IsFiniteSet(DOMAIN f)
    BY <1>1, <2>1
  <2>3. SumFunction(f) = 0
    BY <2>2, TotalZero
  <2>4. PICK g : g = [r \in Requests |-> Pledge(r, v)]
    OBVIOUS
  <2>5. DOMAIN g = Requests /\ IsFiniteSet(DOMAIN g) /\ \A r \in DOMAIN g : g[r] = 0
    BY <1>2, <2>4 DEF Pledge
  <2>6. SumFunction(g) = 0
    BY <2>5, TotalZero
  <2>7. QED
    BY <2>1, <2>3, <2>4, <2>6 DEF Recorded, OnFile, Promised
<1>4. PaymentsRecorded
  BY <1>2, <1>3 DEF PaymentsRecorded
<1>5. QED
  BY <1>1, <1>2, <1>4 DEF PaymentInv, Paying

(* The paid amount of an invoice is never more than its installments and   *)
(* the pledges on the way account for, for any number of payments at the   *)
(* same time and whatever fails; it is exactly their sum while payments    *)
(* come one after the other and none fails, however the invoice's status   *)
(* changes and whatever is deleted meanwhile.                              *)
THEOREM PaidIsRecorded == Spec => []PaymentsRecorded
<1>1. Init => TypeOK /\ DocumentInv /\ ApartInv /\ PaymentInv
  BY TypeInit, DocumentInit, ApartInit, PaymentInit
<1>2. TypeOK /\ DocumentInv /\ ApartInv /\ PaymentInv /\ [Next]_vars
        => TypeOK' /\ DocumentInv' /\ ApartInv' /\ PaymentInv'
  BY TypeStep, DocumentStep, ApartStep, PaymentStep
<1>3. PaymentInv => PaymentsRecorded
  BY DEF PaymentInv
<1>4. QED
  BY <1>1, <1>2, <1>3, PTL DEF Spec

-----------------------------------------------------------------------------
(* Deducted once.  While requests come one after the other and none sets a *)
(* status, what a payment has read is what the invoice still says; an      *)
(* invoice one of whose lines is deducted is paid up and stays so, and its *)
(* movements are those of one payment.                                     *)
PaidUp(v) == status[v] = "PAID" /\ paid[v] >= Total

MovementsPaid ==
  \A m \in movements : Created(m.invoice) /\ (m.invoice \in invoices => PaidUp(m.invoice))
OnePayer == \A m, k \in movements : m.invoice = k.invoice => m.by = k.by

Current(r) ==
  /\ pc[r] \in {"write", "installment", "decrement", "journal"} => Created(Doc(r))
  /\ pc[r] = "write" /\ Doc(r) \in invoices
       => seenStatus[r] = status[Doc(r)] /\ seenPaid[r] = paid[Doc(r)]
  /\ pc[r] = "installment" /\ Doc(r) \in invoices /\ IsFullyPaid(r)
       => PaidUp(Doc(r)) /\ (Unpaid(r) => \A m \in movements : m.invoice # Doc(r))
  /\ pc[r] \in {"decrement", "journal"}
       => /\ Doc(r) \in invoices => PaidUp(Doc(r))
          /\ \A m \in movements : m.invoice = Doc(r) => m.by = r

OneByOne == scene.apart /\ ~ByHand
OnceInv  == OneByOne => MovementsPaid /\ OnePayer /\ \A r \in Requests : Current(r)

LEMMA OnceInit == Init => OnceInv
BY DEF Init, OnceInv, MovementsPaid, OnePayer, Current

LEMMA NoStatusByHand ==
  ASSUME TypeOK, OneByOne, NEW r \in Requests
  PROVE  call[r].op # "status"
BY DEF TypeOK, OneByOne, ByHand

(* A step of one request while no other is active.                         *)
LEMMA OnceFrame ==
  ASSUME ApartInv, OneByOne, NEW r \in Requests, Active(r),
         \A o \in Requests \ {r} : pc'[o] = pc[o],
         MovementsPaid', OnePayer', Current(r)'
  PROVE  OnceInv'
<1>1. ASSUME NEW o \in Requests \ {r} PROVE Current(o)'
  <2>1. ~Active(o)'
    BY DEF ApartInv, OneByOne, Active
  <2>2. QED
    BY <2>1 DEF Current, Active
<1>2. QED
  BY <1>1 DEF OnceInv

(* A step that leaves the paid invoices and the movements alone.           *)
LEMMA PaidUpStays ==
  ASSUME TypeOK, MovementsPaid, UNCHANGED <<movements, paid>>,
         \A v \in invoices : status'[v] = status[v],
         \A v \in invoices' : v \in invoices \/ ~Created(v),
         \A v \in Docs : Created(v) => Created(v)'
  PROVE  MovementsPaid'
<1> SUFFICES ASSUME NEW m \in movements
             PROVE  Created(m.invoice)' /\ (m.invoice \in invoices' => PaidUp(m.invoice)')
  BY DEF MovementsPaid
<1>1. Created(m.invoice) /\ (m.invoice \in invoices => PaidUp(m.invoice)) /\ m.invoice \in Docs \cup {NoDoc}
  BY DEF MovementsPaid, TypeOK
<1>2. Created(m.invoice)'
  BY <1>1 DEF Created, Docs
<1>3. QED
  BY <1>1, <1>2 DEF PaidUp

LEMMA OnceWrite ==
  ASSUME TypeOK, ApartInv, OnceInv, OneByOne, NEW r \in Requests, WritePayment(r), Doc(r) \in invoices
  PROVE  OnceInv'
<1>1. PICK v : v = Doc(r)
  OBVIOUS
<1>2. PICK a : a = call[r].amount
  OBVIOUS
<1>3. /\ pc[r] = "write" /\ pc'[r] = "installment" /\ Active(r)
      /\ \A o \in Requests \ {r} : pc'[o] = pc[o]
      /\ paid' = [paid EXCEPT ![v] = NewPaid(r)]
      /\ status' = [status EXCEPT ![v] = IF IsFullyPaid(r) THEN "PAID" ELSE "PARTIALLY_PAID"]
      /\ UNCHANGED <<invoices, movements, call, seenPaid, seenStatus>>
  BY <1>1 DEF WritePayment, At, Proceed, Active, books, seen, TypeOK
<1>4. v \in invoices /\ v \in Docs /\ a \in Nat /\ invoices \subseteq Docs /\ \A u \in Docs : paid[u] \in Nat
  BY <1>1, <1>2, CallInHand DEF TypeOK
<1>5. seenStatus[r] = status[v] /\ NewPaid(r) = paid[v] + a /\ Created(v)
  BY <1>1, <1>2, <1>3, <1>4 DEF OnceInv, Current, NewPaid
<1>6. PaidUp(v) => IsFullyPaid(r) /\ ~Unpaid(r)
  BY <1>4, <1>5 DEF PaidUp, IsFullyPaid, Unpaid
<1>7. /\ \A u \in invoices \ {v} : status'[u] = status[u] /\ paid'[u] = paid[u]
      /\ IsFullyPaid(r) => status'[v] = "PAID" /\ paid'[v] >= Total
  BY <1>3, <1>4 DEF IsFullyPaid, TypeOK
<1>8. MovementsPaid'
  <2> SUFFICES ASSUME NEW m \in movements
               PROVE  Created(m.invoice)' /\ (m.invoice \in invoices => PaidUp(m.invoice)')
    BY <1>3 DEF MovementsPaid
  <2>1. Created(m.invoice) /\ (m.invoice \in invoices => PaidUp(m.invoice))
    BY DEF OnceInv, MovementsPaid
  <2>2. Created(m.invoice)'
    BY <1>3, <2>1 DEF Created
  <2>3. QED
    BY <1>6, <1>7, <2>1, <2>2 DEF PaidUp
<1>9. Doc(r)' = v
  BY <1>1, <1>3 DEF Doc
<1>10. Current(r)'
  <2>1. Created(v)'
    BY <1>3, <1>5 DEF Created
  <2>2. IsFullyPaid(r)' = IsFullyPaid(r) /\ Unpaid(r)' = Unpaid(r)
    BY <1>3 DEF IsFullyPaid, NewPaid, Unpaid
  <2>3. IsFullyPaid(r) => PaidUp(v)'
    BY <1>7 DEF PaidUp
  <2>4. ASSUME Unpaid(r), NEW m \in movements PROVE m.invoice # v
    BY <1>4, <1>6, <2>4 DEF OnceInv, MovementsPaid
  <2>5. Created(Doc(r))' /\ (IsFullyPaid(r) => PaidUp(Doc(r))')
    BY <1>9, <2>1, <2>3 DEF Created, PaidUp, Doc
  <2>6. QED
    BY <1>3, <1>9, <2>2, <2>4, <2>5 DEF Current
<1>11. OnePayer'
  BY <1>3 DEF OnceInv, OnePayer
<1>12. QED
  BY <1>3, <1>8, <1>10, <1>11, OnceFrame

LEMMA OnceJournal ==
  ASSUME TypeOK, ApartInv, OnceInv, OneByOne, NEW r \in Requests, JournalDecrement(r)
  PROVE  OnceInv'
<1>1. PICK v : v = Doc(r)
  OBVIOUS
<1>2. PICK k : k = [by |-> r, invoice |-> v, line |-> line[r]]
  OBVIOUS
<1>3. /\ pc[r] = "journal" /\ Active(r) /\ ~Receive(r) /\ Handler(r)
      /\ movements' = movements \cup {k} /\ k.by = r /\ k.invoice = v
      /\ UNCHANGED <<invoices, status, paid, call>>
  BY <1>1, <1>2 DEF JournalDecrement, At, Active, documents, Handler, Receive
<1>4. \A o \in Requests \ {r} : pc'[o] = pc[o]
  BY <1>3, StepFacts
<1>5. pc'[r] \in {"decrement", "done"}
  BY DEF JournalDecrement, DeductFrom, Proceed, TypeOK
<1>6. Created(v) /\ (v \in invoices => PaidUp(v)) /\ \A m \in movements : m.invoice = v => m.by = r
  BY <1>1, <1>3 DEF OnceInv, Current
<1>7. Created(v)' /\ PaidUp(v)' = PaidUp(v)
  BY <1>3, <1>4, <1>5, <1>6 DEF Created, PaidUp
<1>8. MovementsPaid'
  <2> SUFFICES ASSUME NEW m \in movements'
               PROVE  Created(m.invoice)' /\ (m.invoice \in invoices' => PaidUp(m.invoice)')
    BY DEF MovementsPaid
  <2>1. CASE m = k
    BY <1>3, <1>6, <1>7, <2>1 DEF Created, PaidUp
  <2>2. CASE m \in movements
    <3>1. Created(m.invoice) /\ (m.invoice \in invoices => PaidUp(m.invoice))
      BY <2>2 DEF OnceInv, MovementsPaid
    <3>2. Created(m.invoice)'
      BY <1>3, <1>4, <1>5, <3>1 DEF Created
    <3>3. QED
      BY <1>3, <3>1, <3>2 DEF PaidUp
  <2>3. QED
    BY <1>3, <2>1, <2>2
<1>9. OnePayer'
  BY <1>3, <1>6 DEF OnceInv, OnePayer
<1>10. Doc(r)' = v
  BY <1>1, <1>3 DEF Doc
<1>11. Current(r)'
  <2>1. Created(Doc(r))' /\ (v \in invoices => PaidUp(Doc(r))')
    BY <1>6, <1>7, <1>10 DEF Created, PaidUp, Doc
  <2>2. QED
    BY <1>3, <1>5, <1>6, <1>10, <2>1 DEF Current
<1>12. QED
  BY <1>3, <1>4, <1>8, <1>9, <1>11, OnceFrame

LEMMA OnceStep == TypeOK /\ DocumentInv /\ ApartInv /\ OnceInv /\ [Next]_vars => OnceInv'
<1> SUFFICES ASSUME TypeOK, DocumentInv, ApartInv, OnceInv, [Next]_vars PROVE OnceInv'
  OBVIOUS
<1>1. CASE UNCHANGED vars
  BY <1>1 DEF OnceInv, OneByOne, ByHand, MovementsPaid, OnePayer, Current, Created, PaidUp, Doc,
     IsFullyPaid, NewPaid, Unpaid, vars, documents, books, seen
<1>s. scene' = scene
  BY DEF Next, AllAnswered, vars
<1>0. SUFFICES ASSUME OneByOne PROVE OnceInv'
  BY <1>s DEF OnceInv, OneByOne, ByHand
<1>p. MovementsPaid /\ OnePayer
  BY <1>0 DEF OnceInv
<1>2. ASSUME NEW r \in Requests, Receive(r) PROVE OnceInv'
  <2>1. /\ pc[r] = "idle" /\ pc'[r] \in {"number", "read"}
        /\ \A o \in Requests \ {r} : pc'[o] = pc[o] /\ call'[o] = call[o]
        /\ UNCHANGED <<documents, books, drawn, seen, line>>
    BY <1>2, ReceiveFacts
  <2>2. \A o \in Requests : ~Active(o)
    BY <1>0, <1>2 DEF Receive, OneByOne
  <2>3. MovementsPaid'
    <3>1. \A v \in Docs : Created(v) => Created(v)'
      BY <2>1 DEF Created
    <3>2. UNCHANGED <<movements, paid, status, invoices>>
      BY <2>1 DEF documents, books
    <3>3. QED
      BY <1>p, <3>1, <3>2, PaidUpStays
  <2>4. OnePayer'
    BY <1>p, <2>1 DEF OnePayer, books
  <2>5. \A o \in Requests : pc'[o] \notin {"write", "installment", "decrement", "journal"}
    BY <2>1, <2>2 DEF Active
  <2>6. \A o \in Requests : Current(o)'
    BY <2>5 DEF Current
  <2>7. QED
    BY <2>3, <2>4, <2>6 DEF OnceInv
<1>3. ASSUME NEW r \in Requests, Handler(r) \/ Fail(r), ~Receive(r) PROVE OnceInv'
  <2>s. /\ UNCHANGED call /\ Active(r)
        /\ \A o \in Requests \ {r} : pc'[o] = pc[o]
        /\ \A v \in Docs : Created(v) => Created(v)'
    BY <1>3, StepFacts, OwnStep
  <2>w. ~WriteStatus(r)
    BY <1>0, NoStatusByHand DEF WriteStatus, At
  <2>d. Doc(r)' = Doc(r) /\ invoices \subseteq Docs /\ quotes \cap invoices = {}
    BY <2>s, QuoteIsNoInvoice DEF Doc, TypeOK
  <2>1. CASE WritePayment(r) /\ Doc(r) \in invoices
    BY <1>0, <2>1, OnceWrite
  <2>2. CASE JournalDecrement(r)
    BY <1>0, <2>2, OnceJournal
  <2>3. CASE ~(WritePayment(r) /\ Doc(r) \in invoices) /\ ~JournalDecrement(r)
    <3>1. UNCHANGED <<movements, paid>>
      BY <1>3, <2>3 DEF Handler, Fail, DrawNumber, CreateQuote, ReadQuote, CreateInvoice, AcceptQuote,
         DeleteQuote, ReadInvoice, DeleteInvoice, WriteStatus, WritePayment, RecordInstallment,
         DecrementStock, documents, books
    <3>2. \A v \in invoices : status'[v] = status[v]
      <4>1. CASE AcceptQuote(r)
        BY <4>1, <2>d DEF AcceptQuote, TypeOK
      <4>2. CASE ~AcceptQuote(r)
        BY <1>3, <2>3, <2>w, <4>2 DEF Handler, Fail, DrawNumber, CreateQuote, ReadQuote, CreateInvoice,
           DeleteQuote, ReadInvoice, DeleteInvoice, WritePayment, RecordInstallment,
           DecrementStock, documents
      <4>3. QED
        BY <4>1, <4>2
    <3>3. \A v \in invoices' : v \in invoices \/ ~Created(v)
      <4>1. CASE CreateInvoice(r)
        BY <4>1 DEF CreateInvoice, At, Created
      <4>2. CASE ~CreateInvoice(r)
        BY <1>3, <4>2 DEF Handler, Fail, DrawNumber, CreateQuote, ReadQuote, AcceptQuote,
           DeleteQuote, ReadInvoice, DeleteInvoice, WriteStatus, WritePayment, RecordInstallment,
           DecrementStock, JournalDecrement, documents
      <4>3. QED
        BY <4>1, <4>2
    <3>4. MovementsPaid'
      BY <1>p, <2>s, <3>1, <3>2, <3>3, PaidUpStays
    <3>5. OnePayer'
      BY <1>p, <3>1 DEF OnePayer
    <3>6. Current(r)'
      <4>1. CASE ReadInvoice(r) /\ Doc(r) \in invoices
        <5>1. /\ seenStatus'[r] = status'[Doc(r)] /\ seenPaid'[r] = paid'[Doc(r)]
              /\ pc'[r] \notin {"installment", "decrement", "journal"}
          BY <4>1 DEF ReadInvoice, documents, Proceed, TypeOK
        <5>2. Created(Doc(r)) /\ Doc(r) \in Docs
          BY <4>1, <2>d DEF DocumentInv
        <5>3. Created(Doc(r))'
          BY <2>s, <2>d, <5>2 DEF Created
        <5>4. QED
          BY <2>d, <5>1, <5>3 DEF Current
      <4>2. CASE RecordInstallment(r) /\ Doc(r) \in invoices
        <5>1. /\ pc[r] = "installment" /\ pc'[r] \in {"decrement", "done"} /\ UNCHANGED documents
              /\ pc'[r] = "decrement" => IsFullyPaid(r) /\ Unpaid(r)
          BY <4>2 DEF RecordInstallment, At, DeductFrom, Proceed, TypeOK
        <5>2. Current(r)
          BY <1>0 DEF OnceInv
        <5>3. Created(Doc(r)) /\ Doc(r) \in Docs
          BY <2>d, <4>2, <5>1, <5>2 DEF Current
        <5>4. Created(Doc(r))'
          BY <2>s, <2>d, <5>3 DEF Created
        <5>5. pc'[r] = "decrement" => PaidUp(Doc(r)) /\ \A m \in movements : m.invoice # Doc(r)
          BY <4>2, <5>1, <5>2 DEF Current
        <5>6. PaidUp(Doc(r)) => PaidUp(Doc(r))'
          BY <2>d, <5>1 DEF PaidUp, documents
        <5>7. QED
          BY <2>d, <3>1, <5>1, <5>4, <5>5, <5>6 DEF Current
      <4>3. CASE DecrementStock(r)
        <5>1. pc[r] = "decrement" /\ pc'[r] = "journal" /\ UNCHANGED documents
          BY <4>3 DEF DecrementStock, At, Proceed, TypeOK
        <5>2. Current(r)
          BY <1>0 DEF OnceInv
        <5>3. Created(Doc(r))'
          BY <5>1, <5>2, <2>s DEF Current, Created, Doc
        <5>4. PaidUp(Doc(r)) => PaidUp(Doc(r))'
          BY <2>d, <5>1 DEF PaidUp, documents
        <5>5. QED
          BY <2>d, <3>1, <5>1, <5>2, <5>3, <5>4 DEF Current, documents
      <4>4. CASE ~(ReadInvoice(r) /\ Doc(r) \in invoices) /\ ~(RecordInstallment(r) /\ Doc(r) \in invoices)
                 /\ ~DecrementStock(r)
        <5>1. pc'[r] \notin {"write", "installment", "decrement", "journal"}
          BY <1>3, <2>3, <2>w, <4>4 DEF Handler, Fail, DrawNumber, CreateQuote, ReadQuote, CreateInvoice,
             AcceptQuote, DeleteQuote, ReadInvoice, DeleteInvoice, WritePayment, RecordInstallment,
             Refuse, Proceed, TypeOK
        <5>2. QED
          BY <5>1 DEF Current
      <4>5. QED
        BY <4>1, <4>2, <4>3, <4>4
    <3>7. QED
      BY <1>0, <2>s, <3>4, <3>5, <3>6, OnceFrame
  <2>4. QED
    BY <2>1, <2>2, <2>3
<1>4. QED
  BY <1>1, <1>2, <1>3 DEF Next, AllAnswered

(* While payments come one after the other and nobody sets a status by     *)
(* hand, no line of an invoice is deducted twice, whatever fails, is       *)
(* deleted or paid again: a movement is known by its request and its line, *)
(* and the movements of an invoice are those of one payment.               *)
THEOREM DeductionsOnce == Spec => []DeductedOnceApart
<1>1. Init => TypeOK /\ DocumentInv /\ ApartInv /\ OnceInv
  BY TypeInit, DocumentInit, ApartInit, OnceInit
<1>2. TypeOK /\ DocumentInv /\ ApartInv /\ OnceInv /\ [Next]_vars
        => TypeOK' /\ DocumentInv' /\ ApartInv' /\ OnceInv'
  BY TypeStep, DocumentStep, ApartStep, OnceStep
<1>3. TypeOK /\ OnceInv => DeductedOnceApart
  <2> SUFFICES ASSUME TypeOK, OnceInv, OneByOne, NEW v \in invoices, NEW n \in StockLinesFrom(1)
               PROVE  Cardinality(DeductionsOf(v, n)) <= 1
    BY DEF DeductedOnceApart, DeductedOnce, OneByOne
  <2>1. ASSUME NEW m \in DeductionsOf(v, n), NEW k \in DeductionsOf(v, n) PROVE m = k
    <3>1. m \in [by : Requests, invoice : Docs \cup {NoDoc}, line : Nat]
          /\ k \in [by : Requests, invoice : Docs \cup {NoDoc}, line : Nat]
      BY DEF TypeOK, DeductionsOf
    <3>2. m.invoice = k.invoice /\ m.line = k.line /\ m.by = k.by
      BY DEF OnceInv, OnePayer, DeductionsOf
    <3>3. QED
      BY <3>1, <3>2
  <2>2. PICK D : D = DeductionsOf(v, n)
    OBVIOUS
  <2>3. CASE D = {}
    BY <2>2, <2>3, FS_EmptySet
  <2>4. CASE D # {}
    <3>1. PICK m : m \in D
      BY <2>4
    <3>2. D = {m}
      BY <2>1, <2>2, <3>1
    <3>3. Cardinality(D) = 1
      BY <3>2, FS_Singleton
    <3>4. QED
      BY <2>2, <3>3
  <2>5. QED
    BY <2>3, <2>4
<1>4. QED
  BY <1>1, <1>2, <1>3, PTL DEF Spec
=============================================================================
