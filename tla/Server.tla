-------------------------------- MODULE Server --------------------------------
(***************************************************************************)
(* The HTTP requests of the backend.  A request runs one handler once; a   *)
(* handler is a sequence of steps, each one database call (or the code     *)
(* between two awaits) with the checks made on its answer.                 *)
(*                                                                         *)
(* What the requests of a behaviour may be is its scene, chosen at the     *)
(* start: which calls arrive, how many are in flight at once (1: they do   *)
(* not overlap), whether requests may fail half way and the process be     *)
(* restarted, and whether time passes.                                     *)
(***************************************************************************)
EXTENDS Integers, Sequences, FiniteSets

CONSTANTS
  Requests,         (* HTTP requests; rows are named after their creator    *)
  Scenes,           (* [calls, atOnce, faults, clock]: what may happen (bound) *)
  MaxRestarts       (* how often the process may be restarted (bound)       *)

VARIABLES
  scene,            (* the scene of this behaviour                          *)
  pc,               (* per request, the step that comes next                *)
  call,             (* per request, the handler and its parameters          *)
  seen,             (* per request, the local variables of its handler      *)
  restarts          (* how often the process was restarted                  *)

serverVars == <<scene, pc, call, seen, restarts>>

ASSUME RequestsAssumption == IsFiniteSet(Requests) /\ MaxRestarts \in Nat

ASSUME ScenesAssumption ==
  \A s \in Scenes : /\ DOMAIN s = {"calls", "atOnce", "faults", "clock"}
                    /\ s.atOnce \in Nat /\ s.faults \in BOOLEAN /\ s.clock \in BOOLEAN

NoCall  == [op |-> "none"]
Nothing == [kept |-> "nothing"]

ServerInit ==
  /\ scene \in Scenes
  /\ pc = [r \in Requests |-> "idle"]
  /\ call = [r \in Requests |-> NoCall]
  /\ seen = [r \in Requests |-> Nothing]
  /\ restarts = 0

Ended == {"done", "refused", "failed"}
InFlight == {r \in Requests : pc[r] \notin {"idle"} \cup Ended}
Apart == scene.atOnce = 1
Quiet == Apart /\ ~scene.faults

(* Step l of a handler: where it is, where it goes, what it keeps, how it  *)
(* ends.                                                                   *)
At(r, ops, l) == pc[r] = l /\ call[r].op \in ops
Goto(r, l) == pc' = [pc EXCEPT ![r] = l] /\ UNCHANGED seen
Keep(r, l, v) == pc' = [pc EXCEPT ![r] = l] /\ seen' = [seen EXCEPT ![r] = v]
Answer(r, e) == Keep(r, e, Nothing)
Refuse(r) == Answer(r, "refused")

Arrive(r) ==
  \E c \in scene.calls :
    /\ pc[r] = "idle"
    /\ Cardinality(InFlight) < scene.atOnce
    /\ call' = [call EXCEPT ![r] = c]
    /\ Goto(r, "start")

(* A database call throws, or the process dies with its local variables.   *)
Fail(r) ==
  /\ scene.faults /\ r \in InFlight
  /\ Answer(r, "failed")
  /\ UNCHANGED call

(* The process dies and is started again: so do all its requests.          *)
Die ==
  /\ scene.faults /\ restarts < MaxRestarts
  /\ restarts' = restarts + 1
  /\ pc' = [r \in Requests |-> IF r \in InFlight THEN "failed" ELSE pc[r]]
  /\ seen' = [r \in Requests |-> Nothing]
  /\ UNCHANGED call

(* A table as a function on the ids of its rows.                           *)
Put(t, k, v)  == [x \in DOMAIN t \cup {k} |-> IF x = k THEN v ELSE t[x]]
Empty         == [x \in {} |-> Nothing]
Without(t, k) == [x \in DOMAIN t \ {k} |-> t[x]]
=============================================================================
