------------------------------ MODULE OfficeBooks -----------------------------
(***************************************************************************)
(* What the tables of module Office add up to.                             *)
(***************************************************************************)
EXTENDS Office, Functions

Shifted(m, i) == IF m.item = i THEN Effect(m) ELSE 0
Journal(i)  == SumFunction([m \in movements |-> Shifted(m, i)])
Adjusted(i) == \E m \in movements : m.item = i /\ m.type = "ADJUSTMENT"
OpeningOf(i) == IF i \in DOMAIN Opening THEN Opening[i] ELSE 0

(* Receipts, parts and refurbished devices each file a movement beside the *)
(* change they make (quincaillerie-purchase.service.ts:76-91,              *)
(* it-ticket.service.ts:67-81, 167-189): between requests that neither     *)
(* overlap nor fail the journal explains the quantity on hand, a refused   *)
(* repair included, unless an inventory has replaced it.  And a part is    *)
(* only taken from what is on hand (it-ticket.service.ts:63): requests     *)
(* that do not overlap never leave a quantity below zero, even when they   *)
(* fail half way.                                                          *)
ShelfExplained ==
  \A i \in DOMAIN stock :
    /\ Quiet /\ InFlight = {} /\ ~Adjusted(i) => stock[i] = OpeningOf(i) + Journal(i)
    /\ Apart => stock[i] >= 0
=============================================================================
