--------------------------------- MODULE Shop ---------------------------------
(***************************************************************************)
(* The parts of the shop that share its articles, and the deletion of an   *)
(* article, which looks at all of them (quincaillerie-stock.service        *)
(* remove; the referential actions are those of the schema).               *)
(***************************************************************************)
EXTENDS Purchases, Inventory, Tickets, Depots

shop == <<stock, movements, purchases, sessions, tickets, parts>>

ShopCalls == PurchaseCalls \cup SessionCalls \cup TicketCalls \cup DepotCalls
               \cup [op : {"removeItem"}, item : Items]

ASSUME ShopAssumption == DOMAIN OldPurchases \cap DOMAIN OldTickets = {}

ShopInit == ShelfInit /\ PurchasesInit /\ InventoryInit /\ TicketsInit /\ DepotsInit

HasHistory(i) ==
  \/ \E m \in movements : m.item = i
  \/ \E p \in DOMAIN purchases : purchases[p].item = i
  \/ \E s \in DOMAIN sessions : i \in Lines(s)
  \/ \E p \in parts : p.item = i

FindItem(r) ==
  /\ At(r, {"removeItem"}, "start")
  /\ IF call[r].item \in DOMAIN stock /\ ~HasHistory(call[r].item)
       THEN Goto(r, "write") ELSE Refuse(r)
  /\ UNCHANGED shop

(* The movements, the lines of sessions and the parts go with the article; *)
(* a purchase order loses its reference.                                   *)
RemoveItem(r) ==
  /\ At(r, {"removeItem"}, "write")
  /\ LET i == call[r].item IN
     /\ ~Pinned(i)
     /\ IF i \in DOMAIN stock
          THEN /\ Answer(r, "done")
               /\ stock' = Without(stock, i)
               /\ movements' = {m \in movements : m.item # i}
               /\ purchases' = [p \in DOMAIN purchases |->
                    IF purchases[p].item = i THEN [purchases[p] EXCEPT !.item = NoItem]
                    ELSE purchases[p]]
               /\ sessions' = [s \in DOMAIN sessions |->
                    [sessions[s] EXCEPT !.lines = Without(@, i)]]
               /\ parts' = {p \in parts : p.item # i}
          ELSE Refuse(r) /\ UNCHANGED <<stock, movements, purchases, sessions, parts>>
  /\ UNCHANGED tickets

ShopStep(r) ==
  \/ PurchaseStep(r) /\ UNCHANGED <<sessions, repairs, depots>>
  \/ InventoryStep(r) /\ UNCHANGED <<purchases, repairs, depots>>
  \/ TicketStep(r) /\ UNCHANGED <<purchases, sessions, depots>>
  \/ (FindItem(r) \/ RemoveItem(r)) /\ UNCHANGED depots
  \/ DepotStep(r) /\ UNCHANGED shop

-----------------------------------------------------------------------------
ShopTypeOK ==
  /\ stock \in [DOMAIN stock -> Int] /\ DOMAIN stock \subseteq Items
  /\ movements \subseteq Movement /\ \A m \in movements : m.item \in DOMAIN stock
  /\ PurchasesTypeOK /\ InventoryTypeOK /\ TicketsTypeOK /\ DepotsTypeOK
=============================================================================
