------------------------------- MODULE Billing -------------------------------
(***************************************************************************)
(* Quotes, invoices and payments of one tenant (modules/billing/business-  *)
(* billing.service.ts, billing-sequence.service.ts).  HTTP requests run    *)
(* concurrently; an action is one database call of one request, with the   *)
(* checks the handler makes on its answer.                                 *)
(*                                                                         *)
(* Quote, Invoice, StockItem, StockMovement, PaymentInstallment and        *)
(* BillingSequence are all tenant-scoped: the extended client runs each    *)
(* call in a transaction of its own, so the $transaction of the handlers   *)
(* rolls nothing back and a failure leaves what was written before it.     *)
(***************************************************************************)
EXTENDS Integers, Sequences, FiniteSets

CONSTANTS
  Requests,         (* HTTP requests; each runs one handler once            *)
  OldQuote,         (* a quote and an invoice on file at the start          *)
  OldInvoice,
  NoDoc,            (* no quote: dto.quoteId left out, sourceQuoteId null   *)
  Items,            (* articles in stock                                    *)
  NoItem,           (* a line of free text, stockItemId null                *)
  Lines,            (* the lines of every document (bound)                  *)
  Total,            (* totalAmount of every document (bound)                *)
  Opening,          (* quantities in stock at the start                     *)
  Scenes            (* what may happen in one run (bound), see SceneKind    *)

(* A request that creates a document names it (uuids are never reused).    *)
Docs     == Requests \cup {OldQuote, OldInvoice}
Types    == {"QUOTE", "INVOICE"}
Statuses == {"DRAFT", "SENT", "ACCEPTED", "REJECTED", "PARTIALLY_PAID", "PAID", "CANCELLED"}
Call     == [op     : {"quote", "convert", "invoice", "deleteQuote", "deleteInvoice",
                       "status", "pay"},
             doc    : Docs \cup {NoDoc},
             status : Statuses,
             amount : Nat]

(* The requests that arrive and the handlers and parameters they carry,    *)
(* whether they come one after the other, and whether database calls fail. *)
SceneKind == [requests : SUBSET Requests, calls : (SUBSET Call) \ {{}},
              apart : BOOLEAN, faults : BOOLEAN]

ASSUME DocsAssumption ==
  /\ OldQuote \notin Requests \cup {OldInvoice} /\ OldInvoice \notin Requests
  /\ NoDoc \notin Docs /\ NoItem \notin Items

ASSUME BillingAssumption ==
  /\ IsFiniteSet(Requests)
  /\ Lines \in Seq([item : Items \cup {NoItem}, quantity : Nat])
  /\ Total \in Nat
  /\ Opening \in [Items -> Nat]
  /\ Scenes \subseteq SceneKind

VARIABLES
  scene,            (* the scene of this run                                *)
  quotes,           (* Quote rows                                           *)
  invoices,         (* Invoice rows                                         *)
  status,           (* status of a document                                 *)
  source,           (* Invoice.sourceQuoteId                                *)
  paid,             (* Invoice.paidAmount                                   *)
  lastNumber,       (* BillingSequence.currentValue, of one year (bound)    *)
  installments,     (* PaymentInstallment rows                              *)
  qty,              (* StockItem.quantity                                   *)
  movements,        (* StockMovement rows filed for a paid invoice          *)
  pc,               (* per request, the database call that comes next       *)
  call,             (* per request, the handler and its parameters          *)
  drawn,            (* per request, the number it has drawn                 *)
  seenStatus,       (* per request, the invoice.status it has read          *)
  seenPaid,         (* per request, the invoice.paidAmount it has read      *)
  line              (* per request, the line whose stock it deducts         *)

documents == <<quotes, invoices, status, source, paid>>
books     == <<lastNumber, installments, qty, movements>>
seen      == <<seenStatus, seenPaid>>
vars      == <<scene, documents, books, pc, call, drawn, seen, line>>

Init ==
  /\ scene \in Scenes
  /\ quotes = {OldQuote}
  /\ invoices = {OldInvoice}
  /\ status = [d \in Docs |-> "DRAFT"]
  /\ source = [d \in Docs |-> NoDoc]
  /\ paid = [d \in Docs |-> 0]
  /\ lastNumber = [t \in Types |-> 1]
  /\ installments = {}
  /\ qty = Opening
  /\ movements = {}
  /\ pc = [r \in Requests |-> "idle"]
  /\ call = [r \in Requests |-> CHOOSE c \in scene.calls : TRUE]
  /\ drawn = [r \in Requests |-> 0]
  /\ seenStatus = [r \in Requests |-> "DRAFT"]
  /\ seenPaid = [r \in Requests |-> 0]
  /\ line = [r \in Requests |-> 1]

-----------------------------------------------------------------------------
Active(r) == pc[r] \notin {"idle", "done", "refused", "failed"}
At(r, ops, l) == call[r].op \in ops /\ pc[r] = l
Doc(r) == call[r].doc
Proceed(r, l) == pc' = [pc EXCEPT ![r] = l]
Refuse(r) == Proceed(r, "refused")

(* A request arrives; the number comes first when it creates a document    *)
(* from its DTO, the document it is about is read first otherwise.         *)
Receive(r) ==
  \E c \in scene.calls :
    /\ r \in scene.requests /\ pc[r] = "idle"
    /\ scene.apart => \A o \in Requests : ~Active(o)
    /\ call' = [call EXCEPT ![r] = c]
    /\ Proceed(r, IF c.op \in {"quote", "invoice"} THEN "number" ELSE "read")
    /\ UNCHANGED <<documents, books, drawn, seen, line>>

-----------------------------------------------------------------------------
(* Documents.  The number of the document a request creates is the one it  *)
(* has drawn; the two documents on file at the start have number 1.        *)

TypeOf(r) == IF call[r].op = "quote" THEN "QUOTE" ELSE "INVOICE"

(* Mutant of DrawNumber: the number after the count of the rows on file.   *)
DrawCount(r) ==
  /\ At(r, {"quote", "convert", "invoice"}, "number")
  /\ drawn' = [drawn EXCEPT ![r] =
                 1 + Cardinality(IF TypeOf(r) = "QUOTE" THEN quotes ELSE invoices)]
  /\ Proceed(r, "create")
  /\ UNCHANGED <<documents, books, call, seen, line>>

(* getNextSequenceNumber: one INSERT ... ON CONFLICT DO UPDATE.            *)
DrawNumber(r) ==
  /\ At(r, {"quote", "convert", "invoice"}, "number")
  /\ lastNumber' = [lastNumber EXCEPT ![TypeOf(r)] = @ + 1]
  /\ drawn' = [drawn EXCEPT ![r] = lastNumber[TypeOf(r)] + 1]
  /\ Proceed(r, "create")
  /\ UNCHANGED <<documents, installments, qty, movements, call, seen, line>>

CreateQuote(r) ==
  /\ At(r, {"quote"}, "create")
  /\ quotes' = quotes \cup {r}
  /\ Proceed(r, "done")
  /\ UNCHANGED <<invoices, status, source, paid, books, call, drawn, seen, line>>

ReadQuote(r) ==
  /\ At(r, {"convert", "deleteQuote"}, "read")
  /\ IF Doc(r) \in quotes
       THEN Proceed(r, IF call[r].op = "convert" THEN "number" ELSE "delete")
       ELSE Refuse(r)
  /\ UNCHANGED <<documents, books, call, drawn, seen, line>>

(* invoice.create: sourceQuoteId is a foreign key and unique.              *)
SourceFits(q) == q = NoDoc \/ (q \in quotes /\ \A v \in invoices : source[v] # q)

CreateInvoice(r) ==
  /\ At(r, {"convert", "invoice"}, "create")
  /\ IF SourceFits(Doc(r))
       THEN /\ invoices' = invoices \cup {r}
            /\ source' = [source EXCEPT ![r] = Doc(r)]
            /\ Proceed(r, IF call[r].op = "convert" THEN "accept" ELSE "done")
       ELSE Refuse(r) /\ UNCHANGED <<invoices, source>>
  /\ UNCHANGED <<quotes, status, paid, books, call, drawn, seen, line>>

(* Mutant of AcceptQuote: the quote keeps its status.                      *)
AcceptNothing(r) ==
  /\ At(r, {"convert"}, "accept")
  /\ Proceed(r, "done")
  /\ UNCHANGED <<documents, books, call, drawn, seen, line>>

AcceptQuote(r) ==
  /\ At(r, {"convert"}, "accept")
  /\ IF Doc(r) \in quotes
       THEN status' = [status EXCEPT ![Doc(r)] = "ACCEPTED"] /\ Proceed(r, "done")
       ELSE Refuse(r) /\ UNCHANGED status
  /\ UNCHANGED <<quotes, invoices, source, paid, books, call, drawn, seen, line>>

(* quote.delete sets the sourceQuoteId of its invoice to null.             *)
DeleteQuote(r) ==
  /\ At(r, {"deleteQuote"}, "delete")
  /\ quotes' = quotes \ {Doc(r)}
  /\ source' = [v \in Docs |-> IF source[v] = Doc(r) THEN NoDoc ELSE source[v]]
  /\ IF Doc(r) \in quotes THEN Proceed(r, "done") ELSE Refuse(r)
  /\ UNCHANGED <<invoices, status, paid, books, call, drawn, seen, line>>

ReadInvoice(r) ==
  /\ At(r, {"deleteInvoice", "status", "pay"}, "read")
  /\ IF Doc(r) \in invoices
       THEN /\ seenStatus' = [seenStatus EXCEPT ![r] = status[Doc(r)]]
            /\ seenPaid' = [seenPaid EXCEPT ![r] = paid[Doc(r)]]
            /\ Proceed(r, IF call[r].op = "deleteInvoice" THEN "delete" ELSE "write")
       ELSE Refuse(r) /\ UNCHANGED seen
  /\ UNCHANGED <<documents, books, call, drawn, line>>

(* invoice.delete cascades to its installments.                            *)
DeleteInvoice(r) ==
  /\ At(r, {"deleteInvoice"}, "delete")
  /\ invoices' = invoices \ {Doc(r)}
  /\ installments' = {p \in installments : p.invoice # Doc(r)}
  /\ IF Doc(r) \in invoices THEN Proceed(r, "done") ELSE Refuse(r)
  /\ UNCHANGED <<quotes, status, source, paid, lastNumber, qty, movements,
                 call, drawn, seen, line>>

-----------------------------------------------------------------------------
(* Payments                                                                *)

StockLinesFrom(n) == {k \in n .. Len(Lines) : Lines[k].item # NoItem}

(* Mutant of DeductFrom: lines without an article are deducted too.        *)
DeductEvery(r, n) ==
  IF n > Len(Lines)
    THEN Proceed(r, "done") /\ UNCHANGED line
    ELSE Proceed(r, "decrement") /\ line' = [line EXCEPT ![r] = n]

(* Goes to the next line bound to an article, from line n on.              *)
DeductFrom(r, n) ==
  IF StockLinesFrom(n) = {}
    THEN Proceed(r, "done") /\ UNCHANGED line
    ELSE /\ Proceed(r, "decrement")
         /\ \E k \in StockLinesFrom(n) :
              (\A j \in StockLinesFrom(n) : k <= j) /\ line' = [line EXCEPT ![r] = k]

(* Mutant of Unpaid: the status is not looked at.                          *)
UnpaidAlways(r) == TRUE

(* Mutant of Unpaid: only the step out of DRAFT counts.                    *)
UnpaidDraft(r) == seenStatus[r] = "DRAFT"

(* The invoice was not PAID when it was read: its stock is to be deducted. *)
Unpaid(r) == seenStatus[r] # "PAID"

WriteStatus(r) ==
  /\ At(r, {"status"}, "write")
  /\ IF Doc(r) \in invoices
       THEN /\ status' = [status EXCEPT ![Doc(r)] = call[r].status]
            /\ IF call[r].status = "PAID" /\ Unpaid(r)
                 THEN DeductFrom(r, 1)
                 ELSE Proceed(r, "done") /\ UNCHANGED line
       ELSE Refuse(r) /\ UNCHANGED <<status, line>>
  /\ UNCHANGED <<quotes, invoices, source, paid, books, call, drawn, seen>>

NewPaid(r)     == seenPaid[r] + call[r].amount
IsFullyPaid(r) == NewPaid(r) >= Total

WritePayment(r) ==
  /\ At(r, {"pay"}, "write")
  /\ IF Doc(r) \in invoices
       THEN /\ paid' = [paid EXCEPT ![Doc(r)] = NewPaid(r)]
            /\ status' = [status EXCEPT ![Doc(r)] =
                            IF IsFullyPaid(r) THEN "PAID" ELSE "PARTIALLY_PAID"]
            /\ Proceed(r, "installment")
       ELSE Refuse(r) /\ UNCHANGED <<paid, status>>
  /\ UNCHANGED <<quotes, invoices, source, books, call, drawn, seen, line>>

(* Mutant of RecordInstallment: a full payment is not filed.               *)
RecordPartial(r) ==
  /\ At(r, {"pay"}, "installment")
  /\ installments' = IF IsFullyPaid(r) THEN installments
                     ELSE installments \cup
                       {[by |-> r, invoice |-> Doc(r), amount |-> call[r].amount]}
  /\ IF IsFullyPaid(r) /\ Unpaid(r)
       THEN DeductFrom(r, 1)
       ELSE Proceed(r, "done") /\ UNCHANGED line
  /\ UNCHANGED <<documents, lastNumber, qty, movements, call, drawn, seen>>

RecordInstallment(r) ==
  /\ At(r, {"pay"}, "installment")
  /\ IF Doc(r) \in invoices
       THEN /\ installments' = installments \cup
                 {[by |-> r, invoice |-> Doc(r), amount |-> call[r].amount]}
            /\ IF IsFullyPaid(r) /\ Unpaid(r)
                 THEN DeductFrom(r, 1)
                 ELSE Proceed(r, "done") /\ UNCHANGED line
       ELSE Refuse(r) /\ UNCHANGED <<installments, line>>
  /\ UNCHANGED <<documents, lastNumber, qty, movements, call, drawn, seen>>

(* Mutant of DecrementStock: one piece, whatever the line's quantity.      *)
DecrementOne(r) ==
  /\ At(r, {"status", "pay"}, "decrement")
  /\ qty' = [qty EXCEPT ![Lines[line[r]].item] = @ - 1]
  /\ Proceed(r, "journal")
  /\ UNCHANGED <<documents, lastNumber, installments, movements, call, drawn, seen, line>>

(* stockItem.update with decrement: relative, and never compared to zero.  *)
DecrementStock(r) ==
  /\ At(r, {"status", "pay"}, "decrement")
  /\ qty' = [qty EXCEPT ![Lines[line[r]].item] = @ - Lines[line[r]].quantity]
  /\ Proceed(r, "journal")
  /\ UNCHANGED <<documents, lastNumber, installments, movements, call, drawn, seen, line>>

JournalDecrement(r) ==
  /\ At(r, {"status", "pay"}, "journal")
  /\ movements' = movements \cup {[by |-> r, invoice |-> Doc(r), line |-> line[r]]}
  /\ DeductFrom(r, line[r] + 1)
  /\ UNCHANGED <<documents, lastNumber, installments, qty, call, drawn, seen>>

-----------------------------------------------------------------------------
(* A database call fails, or the process dies: what was written stays.     *)
Fail(r) ==
  /\ scene.faults /\ Active(r)
  /\ Proceed(r, "failed")
  /\ UNCHANGED <<documents, books, call, drawn, seen, line>>

Handler(r) ==
  \/ Receive(r) \/ DrawNumber(r)
  \/ CreateQuote(r) \/ ReadQuote(r) \/ CreateInvoice(r) \/ AcceptQuote(r) \/ DeleteQuote(r)
  \/ ReadInvoice(r) \/ DeleteInvoice(r) \/ WriteStatus(r)
  \/ WritePayment(r) \/ RecordInstallment(r) \/ DecrementStock(r) \/ JournalDecrement(r)

Quiet == \A r \in scene.requests : pc[r] \in {"done", "refused", "failed"}

(* Every request has been answered: nothing is left to do.                 *)
AllAnswered == Quiet /\ UNCHANGED vars

Next == \/ UNCHANGED scene /\ \E r \in Requests : Handler(r) \/ Fail(r)
        \/ AllAnswered

Spec == Init /\ [][Next]_vars

-----------------------------------------------------------------------------
Labels == {"idle", "number", "create", "read", "accept", "delete", "write",
           "installment", "decrement", "journal", "done", "refused", "failed"}

(* Every variable keeps its type; the line a request deducts the stock of  *)
(* is one of the invoice's lines.                                          *)
TypeOK ==
  /\ scene \in Scenes
  /\ quotes \subseteq Docs
  /\ invoices \subseteq Docs
  /\ status \in [Docs -> Statuses]
  /\ source \in [Docs -> Docs \cup {NoDoc}]
  /\ paid \in [Docs -> Nat]
  /\ lastNumber \in [Types -> Nat]
  /\ installments \subseteq [by : Requests, invoice : Docs \cup {NoDoc}, amount : Nat]
  /\ qty \in [Items -> Int]
  /\ movements \subseteq [by : Requests, invoice : Docs \cup {NoDoc}, line : Nat]
  /\ pc \in [Requests -> Labels]
  /\ call \in [Requests -> scene.calls]
  /\ drawn \in [Requests -> Nat]
  /\ seenStatus \in [Requests -> Statuses]
  /\ seenPaid \in [Requests -> Nat]
  /\ line \in [Requests -> Nat]
  /\ \A r \in Requests : pc[r] \in {"decrement", "journal"} => line[r] \in StockLinesFrom(1)

(* Number of the documents of a tenant are unique (schema.prisma:611, 655) *)
(* and the numbering never runs into that constraint: no number is drawn   *)
(* twice, nor one that a document on file at the start bears, whatever is  *)
(* in flight and whatever has been deleted or has failed since.            *)
DistinctNumbers ==
  \A r \in Requests : drawn[r] # 0 =>
    /\ drawn[r] > 1
    /\ \A o \in Requests \ {r} : TypeOf(o) = TypeOf(r) => drawn[o] # drawn[r]

(* 'passer le devis en ACCEPTED' (test/business-billing.e2e-spec.ts:82):   *)
(* while a quote has an invoice made from it by conversion, it is ACCEPTED *)
(* unless the conversion is still about to say so or failed before it.     *)
ConvertedAccepted ==
  \A v \in invoices \cap Requests :
    call[v].op = "convert" /\ source[v] # NoDoc
      => status[source[v]] = "ACCEPTED" \/ pc[v] \in {"accept", "failed"}

DeductionsOf(v, n) == {m \in movements : m.invoice = v /\ m.line = n}

Deducting(r, v) ==
  /\ Doc(r) = v
  /\ \/ pc[r] \in {"decrement", "journal", "failed"}
     \/ pc[r] = "installment" /\ IsFullyPaid(r) /\ Unpaid(r)

(* A PAID invoice has the stock of each of its lines deducted and filed,   *)
(* or a request is doing so or failed on the way, in every interleaving of *)
(* payments and status changes on what each of them read before.           *)
PaidDeducted ==
  \A v \in invoices : status[v] = "PAID" =>
    \/ \E r \in Requests : Deducting(r, v)
    \/ \A n \in StockLinesFrom(1) : DeductionsOf(v, n) # {}
=============================================================================
