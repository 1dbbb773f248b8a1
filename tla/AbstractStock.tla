---------------------------- MODULE AbstractStock ----------------------------
(***************************************************************************)
(* What the stock service promises the shop when nothing overlaps and      *)
(* nothing fails: each operation takes effect at once or not at all, a     *)
(* movement or a sale shifts the quantity on hand and the depot's balance  *)
(* by the same amount, and a transfer only moves stock between depots.     *)
(***************************************************************************)
EXTENDS Integers

CONSTANTS Items, Depots, NoDepot, NoRow,
          Amounts           (* the amounts an operation may shift: bound    *)

VARIABLES items, qty, bal
vars == <<items, qty, bal>>

Held(i, d) == IF bal[<<i, d>>] = NoRow THEN 0 ELSE bal[<<i, d>>]

Init ==
  /\ items \subseteq Items
  /\ qty \in [Items -> Nat]
  /\ bal \in [Items \X Depots -> Nat \cup {NoRow}]

Create(i, d, q) ==
  /\ i \notin items
  /\ items' = items \cup {i}
  /\ qty' = [qty EXCEPT ![i] = q]
  /\ bal' = IF d = NoDepot \/ q = 0 THEN bal ELSE [bal EXCEPT ![<<i, d>>] = q]

Remove(i) ==
  /\ i \in items
  /\ items' = items \ {i}
  /\ qty' = [qty EXCEPT ![i] = 0]
  /\ bal' = [k \in Items \X Depots |-> IF k[1] = i THEN NoRow ELSE bal[k]]

Shift(i, d, q) ==
  /\ i \in items
  /\ qty[i] + q >= 0
  /\ d # NoDepot => Held(i, d) + q >= 0
  /\ qty' = [qty EXCEPT ![i] = @ + q]
  /\ bal' = IF d = NoDepot THEN bal ELSE [bal EXCEPT ![<<i, d>>] = Held(i, d) + q]
  /\ UNCHANGED items

Transfer(i, from, to, q) ==
  /\ i \in items
  /\ bal[<<i, from>>] # NoRow /\ q <= bal[<<i, from>>]
  /\ IF from = to
       THEN UNCHANGED bal
       ELSE bal' = [bal EXCEPT ![<<i, from>>] = @ - q, ![<<i, to>>] = Held(i, to) + q]
  /\ UNCHANGED <<items, qty>>

Next ==
  \E i \in Items :
    \/ Remove(i)
    \/ \E d \in Depots \cup {NoDepot}, q \in Amounts :
         (q >= 0 /\ Create(i, d, q)) \/ Shift(i, d, q)
    \/ \E from, to \in Depots, q \in Amounts : q >= 0 /\ Transfer(i, from, to, q)

Spec == Init /\ [][Next]_vars
=============================================================================
