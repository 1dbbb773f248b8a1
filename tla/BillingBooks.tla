----------------------------- MODULE BillingBooks -----------------------------
(***************************************************************************)
(* What the billing of module Billing adds up to: the sums over payments,  *)
(* deductions and movements, and what its comments promise of them.        *)
(***************************************************************************)
EXTENDS Billing, Functions

(* The quantity of article i on line n of a document.                      *)
Sold(i, n) == IF Lines[n].item = i THEN Lines[n].quantity ELSE 0

Filed(i)      == SumFunction([m \in movements |-> Sold(i, m.line)])
Pending(r, i) == IF pc[r] = "journal" THEN Sold(i, line[r]) ELSE 0
Unfiled(i)    == SumFunction([r \in Requests |-> Pending(r, i)])
Deducted(i)   == Opening[i] - qty[i]

(* Deductions are relative, so none is lost, and a movement is filed after *)
(* its deduction (business-billing.service.ts:197-215): the journal never  *)
(* claims more than has left the stock, and exactly that unless a request  *)
(* failed, in every interleaving of payments and status changes.           *)
StockExplained ==
  \A i \in Items :
    /\ Deducted(i) >= Filed(i) + Unfiled(i)
    /\ (\A r \in Requests : pc[r] # "failed") => Deducted(i) = Filed(i) + Unfiled(i)

Share(p, v)   == IF p.invoice = v THEN p.amount ELSE 0
OnFile(v)     == SumFunction([p \in installments |-> Share(p, v)])
Pledge(r, v)  == IF Doc(r) = v /\ pc[r] \in {"installment", "failed"} THEN call[r].amount ELSE 0
Promised(v)   == SumFunction([r \in Requests |-> Pledge(r, v)])
Recorded(v)   == OnFile(v) + Promised(v)

(* Invoice.paidAmount is never more than the installments on file, the one *)
(* about to be filed and those of failed requests                          *)
(* (business-billing.service.ts:246-264), although overlapping payments    *)
(* write it over one another.  It is exactly that when payments neither    *)
(* overlap nor fail, across every sequence of partial and full payments.   *)
PaymentsRecorded ==
  \A v \in invoices : /\ paid[v] <= Recorded(v)
                      /\ scene.apart /\ ~scene.faults => paid[v] = Recorded(v)

(* 'Si la facture devient totalement payee pour la premiere fois, on       *)
(* deduit les stocks' (business-billing.service.ts:266): the stock of a    *)
(* line of an invoice is deducted at most once.  Not true of overlapping   *)
(* payments, nor across status changes.                                    *)
DeductedOnce ==
  \A v \in invoices : \A n \in StockLinesFrom(1) : Cardinality(DeductionsOf(v, n)) <= 1

(* True of payments that come one after the other, whatever fails, while   *)
(* nobody changes the status by hand.                                      *)
ByHand == \E c \in scene.calls : c.op = "status"
DeductedOnceApart == scene.apart /\ ~ByHand => DeductedOnce
=============================================================================
