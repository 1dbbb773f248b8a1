------------------------------- MODULE MCStock -------------------------------
(* Small shops for TLC: one article in two depots and an id for a new one. *)
EXTENDS StockBooks, TLC

CONSTANTS r1, r2, r3, i1, i2, d1, d2

Symmetric == Permutations(Requests)

C(op, kind, d, e, lines, inv) ==
  [op |-> op, kind |-> kind, depot |-> d, dest |-> e, lines |-> lines, invoice |-> inv]
L(i, q) == [item |-> i, quantity |-> q]

Sales(ds, qs, invs) == {C("sale", "OUT", d, NoDepot, <<L(i1, q)>>, v) : d \in ds, q \in qs, v \in invs}
Carts(ds) == {C("sale", "OUT", d, NoDepot, ls, TRUE) :
                d \in ds, ls \in {<<L(i1, 1), L(i2, 1)>>, <<L(i2, 2), L(i1, 1)>>}}
Transfers(qs) == {C("transfer", "OUT", d, e, <<L(i1, q)>>, FALSE) :
                    d \in Depots, e \in Depots, q \in qs}
Moves(ds, qs) == {C("movement", k, d, NoDepot, <<L(i1, q)>>, FALSE) :
                    k \in {"IN", "OUT", "ADJUSTMENT"}, d \in ds, q \in qs}
Creates(ds) == {C("create", "IN", d, NoDepot, <<L(i2, q)>>, FALSE) : d \in ds, q \in {0, 2}}
Removes == {C("remove", "OUT", NoDepot, NoDepot, <<L(i, 0)>>, FALSE) : i \in {i1, i2}}
NewMoves == {C("movement", "IN", d1, NoDepot, <<L(i2, 1)>>, FALSE)}

AnyDepot == Depots \cup {NoDepot}

(* every handler, small quantities                                         *)
AllCalls == Sales(AnyDepot, {2}, BOOLEAN) \cup Transfers({1}) \cup Moves(AnyDepot, {2})
            \cup Creates(AnyDepot) \cup Removes \cup NewMoves
(* calls that name a depot                                                 *)
DepotCalls == Sales(Depots, {1, 2}, BOOLEAN) \cup Transfers({1, 2}) \cup Moves(Depots, {1, 2})
              \cup Creates(Depots) \cup Removes \cup NewMoves
CartCalls == Carts(AnyDepot) \cup Moves({d1}, {1}) \cup Transfers({1})
LockCalls == Carts({d1, d2}) \cup Transfers({1}) \cup Moves({d1}, {1})
SaleCalls == Sales({NoDepot}, {1}, {FALSE})
RemoveCalls == Removes \cup Moves({NoDepot}, {1})

OneArticle == [i \in Items |-> IF i = i1 THEN 3 ELSE 0]
OneArticleBalance ==
  [k \in Keys |-> IF k = <<i1, d1>> THEN 3 ELSE NoRow]
TwoArticles == [i \in Items |-> 3]
TwoArticlesBalance == [k \in Keys |-> IF k[2] = d1 THEN 2 ELSE 1]
Shifts == -6 .. 6
=============================================================================
