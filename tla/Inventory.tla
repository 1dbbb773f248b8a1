------------------------------ MODULE Inventory -------------------------------
(***************************************************************************)
(* Stock-taking (modules/quincaillerie/quincaillerie-inventory.service):   *)
(* a session lists every article with the quantity of that moment, its     *)
(* lines are counted, it is closed, and its discrepancies are applied.     *)
(***************************************************************************)
EXTENDS Shelf

CONSTANT OldSessions     (* the sessions on file at the start               *)

VARIABLE sessions        (* InventorySession rows with their lines          *)

Uncounted == -1          (* countedQuantity is null (counts are natural     *)
                         (* here, bound; the DTO takes any number)          *)
Sheet == [system : Int, counted : Nat \cup {Uncounted}, discrepancy : Int]
SessionCalls ==
  [op : {"createSession"}]
    \cup [op : {"countLine"}, id : OldRows \cup Requests, item : Items, count : Nat]
    \cup [op : {"completeSession", "applySession"}, id : OldRows \cup Requests]

(* No session on file was adjusted: its movements would be on file too.    *)
ASSUME SessionsAssumption ==
  /\ DOMAIN OldSessions \subseteq OldRows /\ DOMAIN OldSessions \cap Requests = {}
  /\ \A s \in DOMAIN OldSessions :
       LET v == OldSessions[s]
       IN  /\ DOMAIN v = {"status", "adjusted", "lines"}
           /\ v.status \in {"DRAFT", "COMPLETED"} /\ v.adjusted = FALSE
           /\ DOMAIN v.lines \subseteq DOMAIN Opening
           /\ \A i \in DOMAIN v.lines :
                LET l == v.lines[i]
                IN  /\ l \in Sheet
                    /\ l.discrepancy = IF l.counted = Uncounted THEN 0 ELSE l.counted - l.system
                    /\ v.status = "COMPLETED" => l.counted # Uncounted

InventoryInit == sessions = OldSessions

Lines(s) == DOMAIN sessions[s].lines

CountShelf(r) ==
  /\ At(r, {"createSession"}, "start")
  /\ Keep(r, "write", [lines |-> [i \in DOMAIN stock |->
                         [system |-> stock[i], counted |-> Uncounted, discrepancy |-> 0]]])
  /\ UNCHANGED <<sessions, shelf>>

(* The session and its lines are one nested create; a line refers to its   *)
(* article.                                                                *)
CreateSession(r) ==
  /\ At(r, {"createSession"}, "write")
  /\ IF DOMAIN seen[r].lines \subseteq DOMAIN stock
       THEN /\ Answer(r, "done")
            /\ sessions' = Put(sessions, r,
                 [status |-> "DRAFT", adjusted |-> FALSE, lines |-> seen[r].lines])
       ELSE Refuse(r) /\ UNCHANGED sessions
  /\ UNCHANGED shelf

(* Mutant of Counted: a session is closed over uncounted lines.            *)
CountedAnyway(s) == TRUE

Counted(s) == \A i \in Lines(s) : sessions[s].lines[i].counted # Uncounted

(* The lines applyAdjustments goes through, as they are when it reads.     *)
Discrepant(s) ==
  LET found == {i \in Lines(s) : /\ sessions[s].lines[i].discrepancy # 0
                                 /\ sessions[s].lines[i].counted # Uncounted}
  IN  [i \in found |-> sessions[s].lines[i]]

(* The first read of the three handlers, and what each asks of it.         *)
FindSession(r) ==
  /\ At(r, {"countLine", "completeSession", "applySession"}, "start")
  /\ LET s == call[r].id IN
     IF s \notin DOMAIN sessions THEN Refuse(r)
     ELSE CASE call[r].op = "countLine" ->
                 IF sessions[s].status = "DRAFT" THEN Goto(r, "line") ELSE Refuse(r)
            [] call[r].op = "completeSession" ->
                 IF sessions[s].status = "DRAFT" /\ Counted(s) THEN Goto(r, "write") ELSE Refuse(r)
            [] call[r].op = "applySession" ->
                 IF sessions[s].status = "COMPLETED" /\ ~sessions[s].adjusted
                   THEN Keep(r, "journal", [lines |-> Discrepant(s)])
                   ELSE Refuse(r)
  /\ UNCHANGED <<sessions, shelf>>

OnSheet(r) == call[r].id \in DOMAIN sessions /\ call[r].item \in Lines(call[r].id)

FindLine(r) ==
  /\ At(r, {"countLine"}, "line")
  /\ IF OnSheet(r) THEN Goto(r, "write") ELSE Refuse(r)
  /\ UNCHANGED <<sessions, shelf>>

(* systemQuantity never changes: the discrepancy of the line read is that  *)
(* of the line written.                                                    *)
WithCount(l, n) == [l EXCEPT !.counted = n, !.discrepancy = n - l.system]

CountLine(r) ==
  /\ At(r, {"countLine"}, "write")
  /\ IF OnSheet(r)
       THEN /\ Answer(r, "done")
            /\ sessions' = [sessions EXCEPT ![call[r].id].lines[call[r].item] =
                              WithCount(@, call[r].count)]
       ELSE Refuse(r) /\ UNCHANGED sessions
  /\ UNCHANGED shelf

CompleteSession(r) ==
  /\ At(r, {"completeSession"}, "write")
  /\ Answer(r, "done")
  /\ sessions' = [sessions EXCEPT ![call[r].id].status = "COMPLETED"]
  /\ UNCHANGED shelf

(* One line after the other: the movement, then the quantity counted.      *)
JournalAdjustment(r) ==
  /\ At(r, {"applySession"}, "journal")
  /\ \E i \in DOMAIN seen[r].lines :
       IF i \in DOMAIN stock
         THEN /\ Journaled(r, 1, call[r].id, i, "ADJUSTMENT", seen[r].lines[i].discrepancy)
              /\ Keep(r, "store", [item |-> i, lines |-> seen[r].lines])
         ELSE Refuse(r) /\ UNCHANGED movements
  /\ UNCHANGED <<sessions, stock>>

StoreCount(r) ==
  /\ At(r, {"applySession"}, "store")
  /\ LET i == seen[r].item IN
     IF i \in DOMAIN stock
       THEN /\ stock' = [stock EXCEPT ![i] = seen[r].lines[i].counted]
            /\ Keep(r, "journal", [lines |-> Without(seen[r].lines, i)])
       ELSE Refuse(r) /\ UNCHANGED stock
  /\ UNCHANGED <<sessions, movements>>

SetAdjusted(r) ==
  /\ At(r, {"applySession"}, "journal") /\ DOMAIN seen[r].lines = {}
  /\ sessions' = [sessions EXCEPT ![call[r].id].adjusted = TRUE]
  /\ Answer(r, "done")
  /\ UNCHANGED shelf

InventoryStep(r) ==
  \/ CountShelf(r) \/ CreateSession(r) \/ FindSession(r) \/ FindLine(r) \/ CountLine(r)
  \/ CompleteSession(r) \/ JournalAdjustment(r) \/ StoreCount(r) \/ SetAdjusted(r)

-----------------------------------------------------------------------------
InventoryTypeOK ==
  /\ DOMAIN sessions \subseteq OldRows \cup Requests
  /\ \A s \in DOMAIN sessions :
       /\ sessions[s].status \in {"DRAFT", "COMPLETED"} /\ sessions[s].adjusted \in BOOLEAN
       /\ Lines(s) \subseteq DOMAIN stock
       /\ \A i \in Lines(s) : sessions[s].lines[i] \in Sheet

Adjustments(s, i) ==
  {m \in movements : m.doc = s /\ m.item = i /\ m.type = "ADJUSTMENT"}

(* 'Veuillez toutes les verifier avant de cloturer.' and 'Les ajustements  *)
(* de cette session ont deja ete appliques.'                               *)
(* (quincaillerie-inventory.service.ts:88, 108): a closed session has no   *)
(* uncounted line, and every discrepancy is the difference it claims, in   *)
(* every interleaving of counts, closings and deletions of articles.  When *)
(* requests neither overlap nor fail, no discrepancy is journaled twice,   *)
(* and an adjusted session has the movement of every discrepancy on file.  *)
SessionsSettled ==
  \A s \in DOMAIN sessions :
    /\ sessions[s].status = "COMPLETED" =>
         \A i \in Lines(s) : sessions[s].lines[i].counted # Uncounted
    /\ sessions[s].adjusted => sessions[s].status = "COMPLETED"
    /\ \A i \in Lines(s) :
         LET l == sessions[s].lines[i]
         IN  /\ l.discrepancy = IF l.counted = Uncounted THEN 0 ELSE l.counted - l.system
             /\ Quiet => /\ Cardinality(Adjustments(s, i)) <= 1
                         /\ sessions[s].adjusted /\ l.discrepancy # 0 =>
                              \E m \in Adjustments(s, i) : m.quantity = l.discrepancy
=============================================================================
