------------------------------- MODULE Tickets --------------------------------
(***************************************************************************)
(* Repair tickets and the parts they use (modules/multiservices-it/        *)
(* it-ticket.service).  Tickets, articles and movements are tenant-scoped: *)
(* their calls commit on their own, inside $transaction or not.  The rows  *)
(* of used parts are not: they belong to the outer transaction and appear  *)
(* when it commits.                                                        *)
(***************************************************************************)
EXTENDS Shelf

CONSTANT OldTickets      (* the tickets on file at the start                *)

VARIABLES
  tickets,               (* RepairTicket rows: [number, status]             *)
  parts                  (* RepairTicketPart rows, and who added them       *)

repairs == <<tickets, parts>>

TicketStatuses == {"RECEIVED", "DIAGNOSIS", "IN_REPAIR", "READY", "DELIVERED", "IMPOSSIBLE",
                   "CANCELLED", "CONVERTED_TO_STOCK"}
UsedPart == [item : Items, quantity : Nat \ {0}]
TicketCalls ==
  [op : {"createTicket"}]
    \cup [op : {"ticketStatus"}, id : OldRows \cup Requests, status : TicketStatuses,
          usedParts : Seq(UsedPart)]
    \cup [op : {"convertTicket"}, id : OldRows \cup Requests]

ASSUME TicketsAssumption ==
  /\ OldTickets \in [DOMAIN OldTickets -> [number : Nat, status : TicketStatuses]]
  /\ IsFiniteSet(DOMAIN OldTickets)
  /\ DOMAIN OldTickets \subseteq OldRows /\ DOMAIN OldTickets \cap Requests = {}

TicketsInit == tickets = OldTickets /\ parts = {}

-----------------------------------------------------------------------------
CountTickets(r) ==
  /\ At(r, {"createTicket"}, "start")
  /\ Keep(r, "write", [count |-> Cardinality(DOMAIN tickets)])
  /\ UNCHANGED <<repairs, shelf>>

(* ticketNumber is unique in the tenant.                                   *)
CreateTicket(r) ==
  /\ At(r, {"createTicket"}, "write")
  /\ LET number == seen[r].count + 1 IN
     IF \A t \in DOMAIN tickets : tickets[t].number # number
       THEN /\ Answer(r, "done")
            /\ tickets' = Put(tickets, r, [number |-> number, status |-> "RECEIVED"])
       ELSE Refuse(r) /\ UNCHANGED tickets
  /\ UNCHANGED <<parts, shelf>>

-----------------------------------------------------------------------------
Deducts(r) == Len(call[r].usedParts) > 0 /\ call[r].status \in {"READY", "DELIVERED"}
PartsOf(t) == {p \in parts : p.ticket = t}

(* Mutant of Deductible: parts are deducted at each change of status.      *)
DeductibleAlways(t) == TRUE

Deductible(t) == PartsOf(t) = {}

FindTicket(r) ==
  /\ At(r, {"ticketStatus"}, "start")
  /\ LET t == call[r].id IN
     IF t \notin DOMAIN tickets \/ (Deducts(r) /\ ~Deductible(t))
       THEN Refuse(r)
       ELSE Keep(r, IF Deducts(r) THEN "part" ELSE "update", [n |-> 1, rows |-> {}])
  /\ UNCHANGED <<repairs, shelf>>

Part(r) == call[r].usedParts[seen[r].n]

Available(p) == p.item \in DOMAIN stock /\ stock[p.item] >= p.quantity

(* A refusal rolls back the rows of parts, and nothing else.               *)
CheckPart(r) ==
  /\ At(r, {"ticketStatus"}, "part")
  /\ IF Available(Part(r)) THEN Goto(r, "decrement") ELSE Refuse(r)
  /\ UNCHANGED <<repairs, shelf>>

DecrementPart(r) ==
  /\ At(r, {"ticketStatus"}, "decrement")
  /\ IF Part(r).item \in DOMAIN stock
       THEN Goto(r, "journal") /\ stock' = [stock EXCEPT ![Part(r).item] = @ - Part(r).quantity]
       ELSE Refuse(r) /\ UNCHANGED stock
  /\ UNCHANGED <<repairs, movements>>

(* Mutant of JournalPart: the movement is left out.                        *)
JournalPartLater(r) ==
  /\ At(r, {"ticketStatus"}, "journal")
  /\ Goto(r, "attach")
  /\ UNCHANGED <<repairs, shelf>>

JournalPart(r) ==
  /\ At(r, {"ticketStatus"}, "journal")
  /\ IF Part(r).item \in DOMAIN stock
       THEN /\ Goto(r, "attach")
            /\ Journaled(r, seen[r].n, call[r].id, Part(r).item, "OUT", Part(r).quantity)
       ELSE Refuse(r) /\ UNCHANGED movements
  /\ UNCHANGED <<repairs, stock>>

(* repairTicketPart.create keeps its article from being deleted until the  *)
(* outer transaction ends.                                                 *)
AttachPart(r) ==
  /\ At(r, {"ticketStatus"}, "attach")
  /\ IF Part(r).item \in DOMAIN stock
       THEN Keep(r, IF seen[r].n < Len(call[r].usedParts) THEN "part" ELSE "update",
                 [n |-> seen[r].n + 1,
                  rows |-> seen[r].rows \cup {[by |-> r, ticket |-> call[r].id, n |-> seen[r].n,
                             item |-> Part(r).item, quantity |-> Part(r).quantity]}])
       ELSE Refuse(r)
  /\ UNCHANGED <<repairs, shelf>>

UpdateTicket(r) ==
  /\ At(r, {"ticketStatus"}, "update")
  /\ Goto(r, "commit")
  /\ tickets' = [tickets EXCEPT ![call[r].id].status = call[r].status]
  /\ UNCHANGED <<parts, shelf>>

CommitParts(r) ==
  /\ At(r, {"ticketStatus"}, "commit")
  /\ Answer(r, "done")
  /\ parts' = parts \cup seen[r].rows
  /\ UNCHANGED <<tickets, shelf>>

(* The articles that uncommitted rows refer to.                            *)
Pinned(i) ==
  \E r \in Requests : /\ At(r, {"ticketStatus"}, pc[r]) /\ pc[r] \in {"part", "decrement",
                           "journal", "attach", "update", "commit"}
                      /\ \E p \in seen[r].rows : p.item = i

-----------------------------------------------------------------------------
FindImpossible(r) ==
  /\ At(r, {"convertTicket"}, "start")
  /\ IF call[r].id \in DOMAIN tickets /\ tickets[call[r].id].status = "IMPOSSIBLE"
       THEN Goto(r, "update") ELSE Refuse(r)
  /\ UNCHANGED <<repairs, shelf>>

MarkConverted(r) ==
  /\ At(r, {"convertTicket"}, "update")
  /\ Goto(r, "article")
  /\ tickets' = [tickets EXCEPT ![call[r].id].status = "CONVERTED_TO_STOCK"]
  /\ UNCHANGED <<parts, shelf>>

CreateRefurbished(r) ==
  /\ At(r, {"convertTicket"}, "article")
  /\ Goto(r, "journal")
  /\ stock' = Put(stock, r, 1)
  /\ UNCHANGED <<repairs, movements>>

JournalRefurbished(r) ==
  /\ At(r, {"convertTicket"}, "journal")
  /\ IF r \in DOMAIN stock
       THEN Answer(r, "done") /\ Journaled(r, 1, call[r].id, r, "IN", 1)
       ELSE Refuse(r) /\ UNCHANGED movements
  /\ UNCHANGED <<repairs, stock>>

TicketStep(r) ==
  \/ CountTickets(r) \/ CreateTicket(r)
  \/ FindTicket(r) \/ CheckPart(r) \/ DecrementPart(r) \/ JournalPart(r) \/ AttachPart(r)
  \/ UpdateTicket(r) \/ CommitParts(r)
  \/ FindImpossible(r) \/ MarkConverted(r) \/ CreateRefurbished(r) \/ JournalRefurbished(r)

-----------------------------------------------------------------------------
TicketsTypeOK ==
  /\ DOMAIN tickets \subseteq OldRows \cup Requests
  /\ \A t \in DOMAIN tickets : tickets[t] \in [number : Nat, status : TicketStatuses]
  /\ parts \subseteq [by : Requests, ticket : OldRows \cup Requests, n : Nat, item : Items,
                      quantity : Nat]
  /\ \A p \in parts : p.ticket \in DOMAIN tickets /\ p.item \in DOMAIN stock

(* A part is on file only with the movement that took it from the shelf    *)
(* (it-ticket.service.ts:67-89): whatever overlaps, fails or is deleted,   *)
(* the workshop shows no part that the journal does not.                   *)
PartsBacked ==
  \A p \in parts : \E m \in movements :
    /\ m.by = p.by /\ m.n = p.n /\ m.doc = p.ticket /\ m.item = p.item
    /\ m.type = "OUT" /\ m.quantity = p.quantity

(* 'Des pieces ont deja ete deduites pour ce ticket.'                      *)
(* (it-ticket.service.ts:57): of requests that do not overlap, two that    *)
(* succeed never both deduct parts for one ticket.                         *)
PartsDeductedOnce ==
  Apart => \A m, o \in movements :
    /\ m.type = "OUT" /\ o.type = "OUT" /\ m.doc = o.doc
    /\ pc[m.by] = "done" /\ pc[o.by] = "done"
    => m.by = o.by
=============================================================================
