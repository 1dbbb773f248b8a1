-------------------------------- MODULE Shelf ---------------------------------
(***************************************************************************)
(* The articles of a tenant and the journal of their movements, as the     *)
(* purchase orders, the inventory sessions and the repair tickets use      *)
(* them (StockItem and StockMovement of the schema).  Both tables are      *)
(* tenant-scoped: each call is a transaction of its own.                   *)
(***************************************************************************)
EXTENDS Server

CONSTANTS
  Opening,          (* quantities on hand at the start, by article          *)
  NoItem,           (* no article: the column is null                       *)
  OldRows           (* rows of the other tables on file at the start        *)

VARIABLES
  stock,            (* StockItem.quantity, by article on file               *)
  movements         (* StockMovement rows                                   *)

shelf == <<stock, movements>>

ASSUME ShelfAssumption ==
  /\ Opening \in [DOMAIN Opening -> Nat]
  /\ NoItem \notin DOMAIN Opening \cup Requests /\ DOMAIN Opening \cap Requests = {}

Items == DOMAIN Opening \cup Requests

ShelfInit == stock = Opening /\ movements = {}

(* doc is the row the movement is about: a purchase, a session, a ticket;  *)
(* n tells the movements of one request about one article apart.           *)
Movement == [by : Requests, n : Nat, doc : OldRows \cup Requests, item : Items,
             type : {"IN", "OUT", "ADJUSTMENT"}, quantity : Int]

Journaled(r, n, d, i, t, q) ==
  movements' = movements \cup
    {[by |-> r, n |-> n, doc |-> d, item |-> i, type |-> t, quantity |-> q]}

(* What a movement adds to the shelf.                                      *)
Effect(m) == IF m.type = "OUT" THEN -m.quantity ELSE m.quantity
=============================================================================
