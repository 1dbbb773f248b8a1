------------------------------ MODULE MCBilling ------------------------------
(* Small instances of Billing for TLC: one quote and one invoice on file.  *)
EXTENDS BillingBooks, TLC

CONSTANTS r1, r2, r3, r4, i1, i2

K(op, d, s, a) == [op |-> op, doc |-> d, status |-> s, amount |-> a]

(* the documents a request may name: those on file and the ones created    *)
Creations == {K("quote", NoDoc, "DRAFT", 0)}
             \cup {K("invoice", q, "DRAFT", 0) : q \in {NoDoc, OldQuote}}
Conversions == {K("convert", q, "DRAFT", 0) : q \in {OldQuote, r1}}
Deletions == {K("deleteQuote", OldQuote, "DRAFT", 0), K("deleteInvoice", r1, "DRAFT", 0)}
StatusChanges == {K("status", OldInvoice, s, 0) : s \in {"PAID", "CANCELLED"}}
Payments == {K("pay", OldInvoice, "DRAFT", a) : a \in {1, Total}}

AllCalls == Creations \cup Conversions \cup Deletions \cup StatusChanges \cup Payments
            \cup {K("deleteInvoice", OldInvoice, "DRAFT", 0)}
InFull == {K("pay", OldInvoice, "DRAFT", Total)}
PaymentCalls == Creations \cup Conversions \cup Deletions \cup Payments

Scene(requests, calls, apart, faults) ==
  [requests |-> requests, calls |-> calls, apart |-> apart, faults |-> faults]
Mixed == {Scene({r1, r2, r3}, AllCalls, FALSE, TRUE), Scene(Requests, PaymentCalls, TRUE, FALSE)}
Rushed == {Scene(Requests, InFull, FALSE, FALSE)}

TwoLines == <<[item |-> i1, quantity |-> 2], [item |-> NoItem, quantity |-> 1],
              [item |-> i2, quantity |-> 1]>>
Stocked == [i \in Items |-> 3]
=============================================================================
