----------------------------- MODULE Subscription -----------------------------
(***************************************************************************)
(* The subscriptions of the tenants: payment proofs (core/billing/billing. *)
(* controller.ts), their approval and rejection and the status changes by  *)
(* hand (modules/super-admin/super-admin.service.ts), and the hourly sweep *)
(* that expires what is overdue (core/billing/subscription-expiration.     *)
(* cron.ts).  A request or the sweep may stop anywhere between two calls.  *)
(*                                                                         *)
(* approvePayment writes in withoutTenantScope, one real transaction: it   *)
(* is one action.  The end of the subscription is computed before it, and  *)
(* the sweep lists the tenants before it updates them, one by one.         *)
(***************************************************************************)
EXTENDS Integers, FiniteSets

CONSTANTS
  Tenants,
  Proofs,           (* payments, by their transactionRef                    *)
  Requests,         (* HTTP requests; each runs one handler once            *)
  Calls,            (* the handler and parameters a request may carry       *)
  Owner,            (* the tenant that made a payment                       *)
  Amount,           (* what was paid                                        *)
  Terms,            (* durations on offer                                   *)
  Price,            (* finalAmount of a duration                            *)
  NoProof,          (* approval without a proof                             *)
  Never,            (* trialEndsAt or subscriptionEndsAt is null            *)
  OpeningStatus,    (* the tenants and the proofs on file at the start      *)
  OpeningTrialEnd,
  OpeningEnd,
  OpeningProofs,
  Horizon,          (* last instant of the clock (bound)                    *)
  MaxFailures       (* sweeps that stop midway (bound)                      *)

BillingStatus == {"TRIAL_7D", "ACTIVE", "SUSPENDED", "EXPIRED", "ARCHIVED"}
ProofStatus   == {"PENDING", "APPROVED", "REJECTED"}

(* The status of a change by hand is the body's: its declared type is one  *)
(* of three, which nothing checks, and the database takes any of the enum. *)
Call == [op     : {"submit", "approve", "reject", "status", "archive", "hardDelete"},
         tenant : Tenants,
         proof  : Proofs \cup {NoProof},
         term   : Terms,
         status : BillingStatus]

ASSUME NullsAssumption == NoProof \notin Proofs /\ Never \notin Int

(* Registration gives a trial end and no subscription; a tenant made       *)
(* ACTIVE by hand or by the seed may have neither.                         *)
ASSUME OpeningAssumption ==
  /\ OpeningStatus \in [Tenants -> {"TRIAL_7D", "ACTIVE"}]
  /\ OpeningTrialEnd \in [Tenants -> Nat \cup {Never}]
  /\ OpeningEnd \in [Tenants -> Nat \cup {Never}]
  /\ OpeningProofs \subseteq Proofs
  /\ \A t \in Tenants : OpeningStatus[t] = "TRIAL_7D" => OpeningEnd[t] = Never

ASSUME SubscriptionAssumption ==
  /\ Terms \subseteq Nat
  /\ Owner \in [Proofs -> Tenants] /\ Amount \in [Proofs -> Nat]
  /\ Price \in [Terms -> Nat]
  /\ Calls \subseteq Call /\ Calls # {}
  /\ \A c \in Calls : c.op \in {"submit", "reject"} => c.proof \in Proofs
  /\ Horizon \in Nat /\ MaxFailures \in Nat

(* The console approves a proof for the tenant that submitted it           *)
(* (frontend PaymentProofsQueue.tsx:53).                                   *)
ASSUME QueueAssumption ==
  \A c \in Calls : c.op = "approve" /\ c.proof # NoProof => Owner[c.proof] = c.tenant

VARIABLES
  now,              (* the clock                                            *)
  tenants,          (* Tenant rows                                          *)
  status,           (* Tenant.billingStatus                                 *)
  trialEnd,         (* Tenant.trialEndsAt                                   *)
  subEnd,           (* Tenant.subscriptionEndsAt                            *)
  filed,            (* PaymentProof rows                                    *)
  proofStatus,      (* PaymentProof.status                                  *)
  told,             (* end date of the last PAYMENT_APPROVED notification   *)
  pc,               (* per request, the database call that comes next       *)
  call,             (* per request, the handler and its parameters          *)
  ends,             (* per request, the subscriptionEndsAt it has computed  *)
  sweep,            (* the sweep: its stage, its now, its list              *)
  failures,         (* sweeps that stopped midway                           *)
  raced,            (* history: tenants whose status a request last wrote   *)
                    (* while the sweep had them on its list                 *)
  byHand            (* history: tenants whose status a request last wrote   *)
                    (* was "EXPIRED" or "TRIAL_7D", by hand                 *)

rows     == <<tenants, status, trialEnd, subEnd, filed, proofStatus>>
requests == <<pc, call, ends>>
history  == <<raced, byHand>>
vars     == <<now, rows, told, requests, sweep, failures, history>>

Idle == [stage |-> "off", at |-> 0, list |-> {}]

Init ==
  /\ now = 0
  /\ tenants = Tenants
  /\ status = OpeningStatus
  /\ trialEnd = OpeningTrialEnd
  /\ subEnd = OpeningEnd
  /\ filed = OpeningProofs
  /\ proofStatus = [p \in Proofs |-> "PENDING"]
  /\ told = [t \in Tenants |-> Never]
  /\ pc = [r \in Requests |-> "idle"]
  /\ call = [r \in Requests |-> CHOOSE c \in Calls : TRUE]
  /\ ends = [r \in Requests |-> 0]
  /\ sweep = Idle
  /\ failures = 0
  /\ raced = {} /\ byHand = {}

Tick ==
  /\ now < Horizon
  /\ now' = now + 1
  /\ UNCHANGED <<rows, told, requests, sweep, failures, history>>

-----------------------------------------------------------------------------
(* Requests                                                                *)

At(r, o, l)   == call[r].op = o /\ pc[r] = l
Tenant(r)     == call[r].tenant
Proof(r)      == call[r].proof
Proceed(r, l) == pc' = [pc EXCEPT ![r] = l] /\ UNCHANGED <<call, ends>>
Answer(r, ok) == Proceed(r, IF ok THEN "done" ELSE "refused")
Unswept       == UNCHANGED <<sweep, failures>>

(* A request arrives; approvePayment reads the clock before anything else. *)
Receive(r) ==
  \E c \in Calls :
    /\ pc[r] = "idle"
    /\ call' = [call EXCEPT ![r] = c]
    /\ ends' = [ends EXCEPT ![r] = IF c.op = "approve" THEN now + c.term ELSE 0]
    /\ pc' = [pc EXCEPT ![r] = "call"]
    /\ UNCHANGED <<now, rows, told, history>> /\ Unswept

(* transactionRef is unique and tenantId a foreign key.                    *)
SubmitProof(r) ==
  /\ At(r, "submit", "call")
  /\ LET fits == Proof(r) \notin filed /\ Owner[Proof(r)] \in tenants
     IN  /\ filed' = IF fits THEN filed \cup {Proof(r)} ELSE filed
         /\ proofStatus' = IF fits THEN [proofStatus EXCEPT ![Proof(r)] = "PENDING"]
                                   ELSE proofStatus
         /\ Answer(r, fits)
  /\ UNCHANGED <<now, tenants, status, trialEnd, subEnd, told, history>> /\ Unswept

Covers(p, term) == Amount[p] * 100 >= Price[term] * 99

(* A request writes the status of a tenant; history of whether the sweep   *)
(* had listed it.                                                          *)
WriteStatus(t, s) ==
  /\ status' = [status EXCEPT ![t] = s]
  /\ raced'  = IF t \in sweep.list THEN raced \cup {t} ELSE raced \ {t}

(* The tenant gets a new end.                                              *)
Renew(t, end) ==
  /\ WriteStatus(t, "ACTIVE")
  /\ subEnd' = [subEnd EXCEPT ![t] = end]
  /\ byHand' = byHand \ {t}

(* Mutant of Approvable: the amount is not compared.                       *)
ApprovableUnpriced(r) == Tenant(r) \in tenants /\ (Proof(r) # NoProof => Proof(r) \in filed)

Approvable(r) ==
  /\ Tenant(r) \in tenants
  /\ Proof(r) # NoProof => Proof(r) \in filed /\ Covers(Proof(r), call[r].term)

ApprovePayment(r) ==
  /\ At(r, "approve", "call")
  /\ IF Approvable(r)
       THEN /\ proofStatus' = [p \in Proofs |->
                                 IF p = Proof(r) THEN "APPROVED" ELSE proofStatus[p]]
            /\ Renew(Tenant(r), ends[r])
            /\ Proceed(r, "notify")
       ELSE Proceed(r, "refused") /\ UNCHANGED <<proofStatus, status, subEnd, history>>
  /\ UNCHANGED <<now, tenants, trialEnd, filed, told>> /\ Unswept

(* 'Votre paiement a ete valide. Abonnement actif jusqu'au ...'            *)
NotifyApproval(r) ==
  /\ At(r, "approve", "notify")
  /\ told' = [told EXCEPT ![Tenant(r)] = ends[r]]
  /\ Proceed(r, "done")
  /\ UNCHANGED <<now, rows, history>> /\ Unswept

(* The state of the proof is not looked at.                                *)
RejectPayment(r) ==
  /\ At(r, "reject", "call")
  /\ proofStatus' = IF Proof(r) \in filed THEN [proofStatus EXCEPT ![Proof(r)] = "REJECTED"]
                                          ELSE proofStatus
  /\ Answer(r, Proof(r) \in filed)
  /\ UNCHANGED <<now, tenants, status, trialEnd, subEnd, filed, told, history>> /\ Unswept

(* updateTenantBillingStatus, and softDeleteTenant: one update, whatever   *)
(* the status was and however much paid time is left.                      *)
SetStatus(r, s) ==
  /\ IF Tenant(r) \in tenants
       THEN /\ WriteStatus(Tenant(r), s)
            /\ byHand' = IF s \in {"EXPIRED", "TRIAL_7D"} THEN byHand \cup {Tenant(r)}
                                                         ELSE byHand \ {Tenant(r)}
       ELSE UNCHANGED <<status, history>>
  /\ Answer(r, Tenant(r) \in tenants)
  /\ UNCHANGED <<now, tenants, trialEnd, subEnd, filed, proofStatus, told>> /\ Unswept

UpdateTenantBillingStatus(r) == At(r, "status", "call") /\ SetStatus(r, call[r].status)

SoftDeleteTenant(r) == At(r, "archive", "call") /\ SetStatus(r, "ARCHIVED")

HardDeleteRead(r) ==
  /\ At(r, "hardDelete", "call")
  /\ Proceed(r, IF Tenant(r) \in tenants THEN "delete" ELSE "refused")
  /\ UNCHANGED <<now, rows, told, history>> /\ Unswept

(* The delete cascades to the proofs.                                      *)
HardDelete(r) ==
  /\ At(r, "hardDelete", "delete")
  /\ tenants' = tenants \ {Tenant(r)}
  /\ filed' = {p \in filed : Owner[p] # Tenant(r)}
  /\ Answer(r, Tenant(r) \in tenants)
  /\ UNCHANGED <<now, status, trialEnd, subEnd, proofStatus, told, history>> /\ Unswept

-----------------------------------------------------------------------------
(* The sweep                                                               *)

Past(end, at)  == end # Never /\ end <= at
TrialsOver(at) == {t \in tenants : status[t] = "TRIAL_7D" /\ Past(trialEnd[t], at)}

(* Mutant of SubscriptionsOver: every ACTIVE tenant with an end.           *)
SubscriptionsAny(at) == {t \in tenants : status[t] = "ACTIVE" /\ subEnd[t] # Never}

(* Mutant of SubscriptionsOver: the trials again.                          *)
SubscriptionsTrial(at) == TrialsOver(at)

SubscriptionsOver(at) == {t \in tenants : status[t] = "ACTIVE" /\ Past(subEnd[t], at)}

Swept == UNCHANGED <<now, told, requests, history>>

SweepStart ==
  /\ sweep.stage = "off"
  /\ sweep' = [Idle EXCEPT !.stage = "start", !.at = now]
  /\ UNCHANGED <<rows, failures>> /\ Swept

SweepListTrials ==
  /\ sweep.stage = "start"
  /\ sweep' = [sweep EXCEPT !.stage = "trials", !.list = TrialsOver(sweep.at)]
  /\ UNCHANGED <<rows, failures>> /\ Swept

SweepListSubscriptions ==
  /\ sweep.stage = "trials" /\ sweep.list = {}
  /\ sweep' = [sweep EXCEPT !.stage = "subscriptions", !.list = SubscriptionsOver(sweep.at)]
  /\ UNCHANGED <<rows, failures>> /\ Swept

(* The update of a listed tenant, whatever has become of it; the sweep     *)
(* throws when the tenant is gone.                                         *)
SweepExpire(t) ==
  /\ t \in sweep.list
  /\ IF t \in tenants
       THEN /\ status' = [status EXCEPT ![t] = "EXPIRED"]
            /\ sweep' = [sweep EXCEPT !.list = @ \ {t}]
       ELSE sweep' = Idle /\ UNCHANGED status
  /\ UNCHANGED <<tenants, trialEnd, subEnd, filed, proofStatus, failures>> /\ Swept

(* Mutant of SweepEnd: the sweep stops with tenants left on its list.      *)
SweepEndEarly ==
  /\ sweep.stage = "subscriptions"
  /\ sweep' = [sweep EXCEPT !.stage = "off"]
  /\ UNCHANGED <<rows, failures>> /\ Swept

SweepEnd ==
  /\ sweep.stage = "subscriptions" /\ sweep.list = {}
  /\ sweep' = Idle
  /\ UNCHANGED <<rows, failures>> /\ Swept

(* A call of the sweep fails or the process restarts: nothing of the sweep *)
(* is kept, and the next one starts over.                                  *)
SweepFails ==
  /\ sweep.stage # "off" /\ failures < MaxFailures
  /\ sweep' = Idle
  /\ failures' = failures + 1
  /\ UNCHANGED rows /\ Swept

-----------------------------------------------------------------------------
Handler(r) ==
  \/ Receive(r) \/ SubmitProof(r) \/ ApprovePayment(r) \/ NotifyApproval(r)
  \/ RejectPayment(r) \/ UpdateTenantBillingStatus(r) \/ SoftDeleteTenant(r)
  \/ HardDeleteRead(r) \/ HardDelete(r)

Sweep ==
  \/ SweepStart \/ SweepListTrials \/ SweepListSubscriptions \/ SweepEnd
  \/ \E t \in Tenants : SweepExpire(t)

Next == Tick \/ (\E r \in Requests : Handler(r)) \/ Sweep \/ SweepFails

Spec == Init /\ [][Next]_vars

(* The scheduler starts the sweep every hour and the event loop runs it on *)
(* whenever the database has answered; nothing is assumed of the requests. *)
FairSpec == Spec /\ WF_vars(Sweep)

-----------------------------------------------------------------------------
Labels == {"idle", "call", "notify", "delete", "done", "refused"}
Stages == {"off", "start", "trials", "subscriptions"}

(* Every variable keeps its type, and there is a list of tenants only      *)
(* while a sweep is on it.                                                 *)
TypeOK ==
  /\ now \in Nat
  /\ tenants \subseteq Tenants
  /\ status \in [Tenants -> BillingStatus]
  /\ trialEnd \in [Tenants -> Nat \cup {Never}]
  /\ subEnd \in [Tenants -> Nat \cup {Never}]
  /\ filed \subseteq Proofs
  /\ proofStatus \in [Proofs -> ProofStatus]
  /\ told \in [Tenants -> Nat \cup {Never}]
  /\ pc \in [Requests -> Labels]
  /\ call \in [Requests -> Calls]
  /\ ends \in [Requests -> Nat]
  /\ sweep \in [stage : Stages, at : Nat, list : SUBSET Tenants]
  /\ sweep.stage \in {"off", "start"} => sweep.list = {}
  /\ failures \in Nat
  /\ raced \subseteq Tenants /\ byHand \subseteq Tenants

PaidUp(t) == subEnd[t] # Never /\ subEnd[t] > now

(* subscription-expiration.cron.ts:46: what the sweep expires is overdue.  *)
(* A tenant whose paid time is not over is EXPIRED in two cases only: its  *)
(* status was written between the sweep's list and its update, which wrote *)
(* over it; or a super-admin last made it EXPIRED, or put it back on a     *)
(* trial, by hand.  No other order of approvals, changes by hand,          *)
(* archivals, deletions and failed sweeps does it.                         *)
ExpiredExplained ==
  \A t \in tenants : status[t] = "EXPIRED" /\ PaidUp(t) => t \in raced \cup byHand

(* approvePayment (super-admin.service.ts:113): an end other than the one  *)
(* at the start is the end some approval computed for this tenant, without *)
(* a proof or on a proof that is on file, covers the price of the term and *)
(* has left PENDING for good, whatever is submitted, rejected or deleted.  *)
RenewalsPaid ==
  \A t \in tenants : subEnd[t] # OpeningEnd[t] =>
    \E r \in Requests :
      /\ call[r].op = "approve" /\ pc[r] \in {"notify", "done"}
      /\ Tenant(r) = t /\ ends[r] = subEnd[t]
      /\ Proof(r) # NoProof => /\ Proof(r) \in filed /\ proofStatus[Proof(r)] # "PENDING"
                               /\ Covers(Proof(r), call[r].term)

Overdue(t) ==
  /\ t \in tenants
  /\ \/ status[t] = "TRIAL_7D" /\ Past(trialEnd[t], now)
     \/ status[t] = "ACTIVE" /\ Past(subEnd[t], now)

(* The hourly sweep reaches every tenant whose trial or subscription is    *)
(* over, although a sweep may fail, or throw at a tenant deleted under it  *)
(* and leave the rest of its list.                                         *)
OverdueHandled == \A t \in Tenants : Overdue(t) ~> ~Overdue(t)

(* 'Abonnement actif jusqu'au ...' (super-admin.service.ts:148): a tenant  *)
(* is not EXPIRED before the date the notification has told it, unless a   *)
(* super-admin made it so by hand.                                         *)
AnnouncementHolds ==
  \A t \in tenants \ byHand : status[t] = "EXPIRED" => told[t] = Never \/ told[t] <= now
=============================================================================
