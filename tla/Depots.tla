-------------------------------- MODULE Depots --------------------------------
(***************************************************************************)
(* The depots of a tenant and which one is the main one                    *)
(* (modules/quincaillerie/depot.service).                                  *)
(***************************************************************************)
EXTENDS Server

CONSTANT OldDepots       (* Depot.isMain at the start, by depot             *)

VARIABLE depots          (* Depot.isMain, by depot on file                  *)

DepotIds == DOMAIN OldDepots \cup Requests
DepotCalls == [op : {"createDepot"}, main : BOOLEAN]
                \cup [op : {"updateDepot"}, id : DepotIds, main : BOOLEAN]
                \cup [op : {"removeDepot"}, id : DepotIds]

ASSUME DepotsAssumption ==
  /\ OldDepots \in [DOMAIN OldDepots -> BOOLEAN]
  /\ \A d, e \in DOMAIN OldDepots : OldDepots[d] /\ OldDepots[e] => d = e

DepotsInit == depots = OldDepots

FindDepot(r) ==
  /\ At(r, {"updateDepot", "removeDepot"}, "start")
  /\ IF call[r].id \in DOMAIN depots
       THEN Goto(r, IF call[r].op = "updateDepot" /\ call[r].main THEN "clear" ELSE "write")
       ELSE Refuse(r)
  /\ UNCHANGED depots

Chosen == {d \in DOMAIN depots : depots[d]}

(* Mutant of ClearMain: one main depot is left on.                         *)
ClearMainFirst(r) ==
  /\ \/ At(r, {"createDepot"}, "start") /\ call[r].main
     \/ At(r, {"updateDepot"}, "clear")
  /\ Goto(r, "write")
  /\ UNCHANGED depots

(* updateMany: isMain off wherever it is on.                               *)
ClearMain(r) ==
  /\ \/ At(r, {"createDepot"}, "start") /\ call[r].main
     \/ At(r, {"updateDepot"}, "clear")
  /\ Goto(r, "write")
  /\ depots' = [d \in DOMAIN depots |-> FALSE]

CreateDepot(r) ==
  /\ \/ At(r, {"createDepot"}, "start") /\ ~call[r].main
     \/ At(r, {"createDepot"}, "write")
  /\ Answer(r, "done")
  /\ depots' = Put(depots, r, call[r].main)

UpdateDepot(r) ==
  /\ At(r, {"updateDepot"}, "write")
  /\ IF call[r].id \in DOMAIN depots
       THEN Answer(r, "done") /\ depots' = [depots EXCEPT ![call[r].id] = call[r].main]
       ELSE Refuse(r) /\ UNCHANGED depots

RemoveDepot(r) ==
  /\ At(r, {"removeDepot"}, "write")
  /\ IF call[r].id \in DOMAIN depots
       THEN Answer(r, "done") /\ depots' = Without(depots, call[r].id)
       ELSE Refuse(r) /\ UNCHANGED depots

DepotStep(r) ==
  FindDepot(r) \/ ClearMain(r) \/ CreateDepot(r) \/ UpdateDepot(r) \/ RemoveDepot(r)

-----------------------------------------------------------------------------
DepotsTypeOK == depots \in [DOMAIN depots -> BOOLEAN] /\ DOMAIN depots \subseteq DepotIds

(* Naming a main depot demotes the others first (depot.service.ts:17-22,   *)
(* 37-42): at most one is the main depot when requests do not overlap,     *)
(* failures included; two that overlap may both be.                        *)
OneMainDepot == Apart => Cardinality(Chosen) <= 1
=============================================================================
