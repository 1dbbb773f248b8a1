-------------------------- MODULE SubscriptionProofs --------------------------
(***************************************************************************)
(* Theorems of Subscription, for any tenants, proofs, requests, clock and  *)
(* number of failing sweeps.                                               *)
(***************************************************************************)
EXTENDS Subscription, TLAPS

Ends == Nat \cup {Never}

(* What a listed call carries.                                             *)
LEMMA CallFacts ==
  ASSUME TypeOK, NEW r \in Requests
  PROVE  /\ Tenant(r) \in Tenants /\ Proof(r) \in Proofs \cup {NoProof}
         /\ call[r].term \in Nat
         /\ call[r].status \in BillingStatus
         /\ call[r].op \in {"submit", "reject"} => Proof(r) \in Proofs
<1>1. call[r] \in Calls /\ call[r] \in Call
  BY SubscriptionAssumption DEF TypeOK
<1>2. QED
  BY <1>1, SubscriptionAssumption DEF Call, Tenant, Proof

LEMMA TypeInit == Init => TypeOK
<1> SUFFICES ASSUME Init PROVE TypeOK
  OBVIOUS
<1>1. call \in [Requests -> Calls]
  BY SubscriptionAssumption DEF Init
<1>2. status \in [Tenants -> BillingStatus]
  BY OpeningAssumption DEF Init, BillingStatus
<1>3. QED
  BY <1>1, <1>2, OpeningAssumption
  DEF Init, TypeOK, Idle, Labels, Stages, ProofStatus

(* The part of TypeOK a handler writes about itself.                       *)
LEMMA ProceedType ==
  ASSUME TypeOK, NEW r \in Requests, NEW l \in Labels, Proceed(r, l)
  PROVE  pc' \in [Requests -> Labels] /\ call' \in [Requests -> Calls] /\ ends' \in [Requests -> Nat]
BY DEF TypeOK, Proceed

SweepTyped ==
  /\ sweep \in [stage : Stages, at : Nat, list : SUBSET Tenants]
  /\ sweep.stage \in {"off", "start"} => sweep.list = {}

LEMMA TypeStep == TypeOK /\ [Next]_vars => TypeOK'
<1> SUFFICES ASSUME TypeOK, [Next]_vars PROVE TypeOK'
  OBVIOUS
<1>1. CASE UNCHANGED vars
  BY <1>1 DEF vars, rows, requests, history, TypeOK
<1>2. CASE Tick
  BY <1>2 DEF Tick, rows, requests, history, TypeOK
<1>3. ASSUME NEW r \in Requests, Receive(r) PROVE TypeOK'
  <2>1. PICK c \in Calls : /\ call' = [call EXCEPT ![r] = c]
                           /\ ends' = [ends EXCEPT ![r] = IF c.op = "approve" THEN now + c.term ELSE 0]
    BY <1>3 DEF Receive
  <2>2. c.term \in Nat
    BY SubscriptionAssumption DEF Call
  <2>3. ends' \in [Requests -> Nat]
    BY <2>1, <2>2 DEF TypeOK
  <2>4. call' \in [Requests -> Calls]
    BY <2>1 DEF TypeOK
  <2>5. pc' \in [Requests -> Labels]
    BY <1>3 DEF Receive, TypeOK, Labels
  <2>6. QED
    BY <1>3, <2>3, <2>4, <2>5 DEF Receive, rows, history, Unswept, TypeOK
<1>4. ASSUME NEW r \in Requests, SubmitProof(r) PROVE TypeOK'
  <2>1. Proof(r) \in Proofs
    BY <1>4, CallFacts DEF SubmitProof, At
  <2>2. filed' \subseteq Proofs /\ proofStatus' \in [Proofs -> ProofStatus]
    BY <1>4, <2>1 DEF SubmitProof, TypeOK, ProofStatus
  <2>3. pc' \in [Requests -> Labels] /\ call' \in [Requests -> Calls] /\ ends' \in [Requests -> Nat]
    BY <1>4, ProceedType DEF SubmitProof, Answer, Labels
  <2>4. QED
    BY <1>4, <2>2, <2>3 DEF SubmitProof, history, Unswept, TypeOK
<1>5. ASSUME NEW r \in Requests, ApprovePayment(r) PROVE TypeOK'
  <2>1. pc' \in [Requests -> Labels] /\ call' \in [Requests -> Calls] /\ ends' \in [Requests -> Nat]
    BY <1>5, ProceedType DEF ApprovePayment, Labels
  <2>2. proofStatus' \in [Proofs -> ProofStatus]
    BY <1>5 DEF ApprovePayment, TypeOK, ProofStatus
  <2>3. status' \in [Tenants -> BillingStatus]
    BY <1>5, CallFacts DEF ApprovePayment, Renew, WriteStatus, TypeOK, BillingStatus
  <2>4. subEnd' \in [Tenants -> Nat \cup {Never}]
    BY <1>5, CallFacts DEF ApprovePayment, Renew, TypeOK
  <2>5. raced' \subseteq Tenants /\ byHand' \subseteq Tenants
    BY <1>5, CallFacts DEF ApprovePayment, Renew, WriteStatus, history, TypeOK
  <2>6. QED
    BY <1>5, <2>1, <2>2, <2>3, <2>4, <2>5 DEF ApprovePayment, Unswept, TypeOK
<1>6. ASSUME NEW r \in Requests, NotifyApproval(r) PROVE TypeOK'
  <2>1. pc' \in [Requests -> Labels] /\ call' \in [Requests -> Calls] /\ ends' \in [Requests -> Nat]
    BY <1>6, ProceedType DEF NotifyApproval, Labels
  <2>2. told' \in [Tenants -> Nat \cup {Never}]
    BY <1>6, CallFacts DEF NotifyApproval, TypeOK
  <2>3. QED
    BY <1>6, <2>1, <2>2 DEF NotifyApproval, rows, history, Unswept, TypeOK
<1>7. ASSUME NEW r \in Requests, RejectPayment(r) PROVE TypeOK'
  <2>1. pc' \in [Requests -> Labels] /\ call' \in [Requests -> Calls] /\ ends' \in [Requests -> Nat]
    BY <1>7, ProceedType DEF RejectPayment, Answer, Labels
  <2>2. proofStatus' \in [Proofs -> ProofStatus]
    BY <1>7 DEF RejectPayment, TypeOK, ProofStatus
  <2>3. QED
    BY <1>7, <2>1, <2>2 DEF RejectPayment, history, Unswept, TypeOK
<1>8. ASSUME NEW r \in Requests, NEW s \in BillingStatus, SetStatus(r, s) PROVE TypeOK'
  <2>1. pc' \in [Requests -> Labels] /\ call' \in [Requests -> Calls] /\ ends' \in [Requests -> Nat]
    BY <1>8, ProceedType DEF SetStatus, Answer, Labels
  <2>2. status' \in [Tenants -> BillingStatus]
    BY <1>8 DEF SetStatus, WriteStatus, TypeOK
  <2>3. raced' \subseteq Tenants /\ byHand' \subseteq Tenants
    BY <1>8, CallFacts DEF SetStatus, WriteStatus, history, TypeOK
  <2>4. QED
    BY <1>8, <2>1, <2>2, <2>3 DEF SetStatus, Unswept, TypeOK
<1>9. ASSUME NEW r \in Requests, HardDeleteRead(r) PROVE TypeOK'
  <2>1. pc' \in [Requests -> Labels] /\ call' \in [Requests -> Calls] /\ ends' \in [Requests -> Nat]
    BY <1>9, ProceedType DEF HardDeleteRead, Labels
  <2>2. QED
    BY <1>9, <2>1 DEF HardDeleteRead, rows, history, Unswept, TypeOK
<1>10. ASSUME NEW r \in Requests, HardDelete(r) PROVE TypeOK'
  <2>1. pc' \in [Requests -> Labels] /\ call' \in [Requests -> Calls] /\ ends' \in [Requests -> Nat]
    BY <1>10, ProceedType DEF HardDelete, Answer, Labels
  <2>2. QED
    BY <1>10, <2>1 DEF HardDelete, history, Unswept, TypeOK
<1>11. CASE SweepStart \/ SweepListTrials \/ SweepListSubscriptions \/ SweepEnd \/ SweepFails
  <2>1. UNCHANGED <<now, rows, told, requests, history>> /\ failures' \in Nat
    BY <1>11 DEF SweepStart, SweepListTrials, SweepListSubscriptions, SweepEnd, SweepFails,
                 Swept, TypeOK
  <2>2. SweepTyped'
    <3>1. CASE SweepStart
      BY <3>1 DEF SweepStart, Idle, SweepTyped, TypeOK, Stages
    <3>2. CASE SweepListTrials
      BY <3>2 DEF SweepListTrials, TrialsOver, SweepTyped, TypeOK, Stages
    <3>3. CASE SweepListSubscriptions
      BY <3>3 DEF SweepListSubscriptions, SubscriptionsOver, SweepTyped, TypeOK, Stages
    <3>4. CASE SweepEnd \/ SweepFails
      BY <3>4 DEF SweepEnd, SweepFails, Idle, SweepTyped, Stages
    <3>5. QED
      BY <1>11, <3>1, <3>2, <3>3, <3>4
  <2>3. QED
    BY <2>1, <2>2 DEF rows, requests, history, TypeOK, SweepTyped
<1>12. ASSUME NEW t \in Tenants, SweepExpire(t) PROVE TypeOK'
  <2>1. /\ sweep' \in [stage : Stages, at : Nat, list : SUBSET Tenants]
        /\ sweep'.stage \in {"off", "start"} => sweep'.list = {}
    BY <1>12 DEF SweepExpire, Idle, TypeOK, Stages
  <2>2. status' \in [Tenants -> BillingStatus]
    BY <1>12 DEF SweepExpire, TypeOK, BillingStatus
  <2>3. QED
    BY <1>12, <2>1, <2>2 DEF SweepExpire, Swept, requests, history, TypeOK
<1>13. ASSUME NEW r \in Requests, UpdateTenantBillingStatus(r) \/ SoftDeleteTenant(r) PROVE TypeOK'
  BY <1>8, <1>13, CallFacts DEF UpdateTenantBillingStatus, SoftDeleteTenant, BillingStatus
<1>14. QED
  BY <1>1, <1>2, <1>3, <1>4, <1>5, <1>6, <1>7, <1>9, <1>10, <1>11, <1>12, <1>13
  DEF Next, Handler, Sweep

(* Every variable keeps its type, and the list of a sweep does not outlive *)
(* it (subscription-expiration.cron.ts:13), whatever fails or is deleted.  *)
THEOREM SubscriptionTypeCorrect == Spec => []TypeOK
<1>1. QED
  BY TypeInit, TypeStep, PTL DEF Spec
-----------------------------------------------------------------------------
(* ExpiredExplained is not inductive: the update of the sweep looks at its *)
(* list and nothing else.  What is on the list was overdue when listed, or *)
(* on a trial that is over; the clock only moves on, and a trial with paid *)
(* time left was given by hand: a listed tenant with paid time left is     *)
(* there by hand, or its status has been written since.                    *)

Explained(t) == t \in raced \cup byHand

SweepInv ==
  /\ sweep.at <= now
  /\ \A t \in Tenants : status[t] = "TRIAL_7D" /\ PaidUp(t) => t \in byHand
  /\ \A t \in sweep.list : PaidUp(t) => Explained(t)
  /\ \A t \in Tenants : status[t] = "EXPIRED" /\ PaidUp(t) => Explained(t)

LEMMA SweepInvInit == Init => SweepInv
BY OpeningAssumption DEF Init, SweepInv, Idle, PaidUp

(* Neither the list, the paid time, the status nor its history changes.    *)
LEMMA SweepInvKept ==
  ASSUME SweepInv, UNCHANGED <<now, sweep, status, subEnd, history>>
  PROVE  SweepInv'
BY DEF SweepInv, PaidUp, Explained, history

(* A request writes one status, by hand or with a new end.                 *)
LEMMA WriteStatusKept ==
  ASSUME TypeOK, SweepInv, UNCHANGED <<now, sweep>>,
         NEW t \in Tenants, NEW s \in BillingStatus, WriteStatus(t, s),
         \A u \in Tenants \ {t} : subEnd'[u] = subEnd[u] /\ (u \in byHand' <=> u \in byHand),
         s \in {"EXPIRED", "TRIAL_7D"} => t \in byHand'
  PROVE  SweepInv'
<1>1. \A u \in Tenants \ {t} : status'[u] = status[u] /\ (u \in raced' <=> u \in raced)
  BY DEF WriteStatus, TypeOK
<1>2. status'[t] = s
  BY DEF WriteStatus, TypeOK
<1>3. t \in sweep.list => t \in raced'
  BY DEF WriteStatus
<1>4. \A u \in Tenants \ {t} : (PaidUp(u)' <=> PaidUp(u)) /\ (Explained(u)' <=> Explained(u))
  BY <1>1 DEF PaidUp, Explained
<1>5. sweep'.at <= now'
  BY DEF SweepInv
<1>6. ASSUME NEW u \in Tenants, status'[u] = "TRIAL_7D", PaidUp(u)' PROVE u \in byHand'
  <2>1. CASE u = t
    BY <1>2, <1>6, <2>1
  <2>2. CASE u # t
    BY <1>1, <1>4, <1>6, <2>2 DEF SweepInv
  <2>3. QED
    BY <2>1, <2>2
<1>7. ASSUME NEW u \in sweep'.list, PaidUp(u)' PROVE Explained(u)'
  <2>1. u \in Tenants /\ u \in sweep.list
    BY <1>7 DEF TypeOK
  <2>2. CASE u = t
    BY <1>3, <2>1, <2>2 DEF Explained
  <2>3. CASE u # t
    BY <1>4, <1>7, <2>1, <2>3 DEF SweepInv
  <2>4. QED
    BY <2>2, <2>3
<1>8. ASSUME NEW u \in Tenants, status'[u] = "EXPIRED", PaidUp(u)' PROVE Explained(u)'
  <2>1. CASE u = t
    BY <1>2, <1>8, <2>1 DEF Explained
  <2>2. CASE u # t
    BY <1>1, <1>4, <1>8, <2>2 DEF SweepInv
  <2>3. QED
    BY <2>1, <2>2
<1>9. QED
  BY <1>5, <1>6, <1>7, <1>8 DEF SweepInv

LEMMA SweepInvStep == TypeOK /\ SweepInv /\ [Next]_vars => SweepInv'
<1> SUFFICES ASSUME TypeOK, SweepInv, [Next]_vars PROVE SweepInv'
  OBVIOUS
<1>1. CASE UNCHANGED vars
  BY <1>1, SweepInvKept DEF vars, rows
<1>2. CASE Tick
  <2>1. now \in Nat /\ now' = now + 1 /\ sweep.at \in Nat /\ sweep.at <= now
    BY <1>2 DEF Tick, TypeOK, SweepInv
  <2>2. sweep.at <= now'
    BY <2>1
  <2>3. \A t \in Tenants : PaidUp(t)' => PaidUp(t)
    <3>1. SUFFICES ASSUME NEW t \in Tenants, subEnd[t] # Never, subEnd[t] > now + 1
                   PROVE  subEnd[t] > now
      BY <1>2, <2>1 DEF Tick, rows, PaidUp
    <3>2. subEnd[t] \in Nat
      BY <3>1 DEF TypeOK
    <3>3. QED
      BY <2>1, <3>1, <3>2
  <2>4. sweep.list \subseteq Tenants
    BY DEF TypeOK
  <2>5. QED
    BY <1>2, <2>2, <2>3, <2>4 DEF Tick, rows, history, SweepInv, Explained
<1>3. ASSUME NEW r \in Requests,
             \/ Receive(r) \/ SubmitProof(r) \/ NotifyApproval(r) \/ RejectPayment(r)
             \/ HardDeleteRead(r) \/ HardDelete(r)
      PROVE  SweepInv'
  <2>1. UNCHANGED <<now, status, subEnd, sweep, history>>
    BY <1>3 DEF Receive, SubmitProof, NotifyApproval, RejectPayment, HardDeleteRead,
                HardDelete, rows, Unswept
  <2>2. QED
    BY <2>1, SweepInvKept
<1>4. ASSUME NEW r \in Requests, UpdateTenantBillingStatus(r) \/ SoftDeleteTenant(r)
      PROVE  SweepInv'
  <2>1. PICK s \in BillingStatus : SetStatus(r, s)
    BY <1>4, CallFacts DEF UpdateTenantBillingStatus, SoftDeleteTenant, BillingStatus
  <2>2. UNCHANGED <<now, subEnd, sweep>>
    BY <2>1 DEF SetStatus, Unswept
  <2>3. CASE Tenant(r) \in tenants
    <3>1. WriteStatus(Tenant(r), s) /\ Tenant(r) \in Tenants
      BY <2>1, <2>3, CallFacts DEF SetStatus
    <3>2. \A u \in Tenants \ {Tenant(r)} : u \in byHand' <=> u \in byHand
      BY <2>1, <2>3 DEF SetStatus
    <3>3. s \in {"EXPIRED", "TRIAL_7D"} => Tenant(r) \in byHand'
      BY <2>1, <2>3 DEF SetStatus
    <3>4. QED
      BY <2>2, <3>1, <3>2, <3>3, WriteStatusKept
  <2>4. CASE Tenant(r) \notin tenants
    BY <2>1, <2>2, <2>4, SweepInvKept DEF SetStatus
  <2>5. QED
    BY <2>3, <2>4
<1>5. ASSUME NEW r \in Requests, ApprovePayment(r) PROVE SweepInv'
  <2>1. UNCHANGED <<now, sweep>>
    BY <1>5 DEF ApprovePayment, Unswept
  <2>2. CASE ~Approvable(r)
    BY <1>5, <2>1, <2>2, SweepInvKept DEF ApprovePayment
  <2>3. CASE Approvable(r)
    <3>1. Renew(Tenant(r), ends[r]) /\ Tenant(r) \in Tenants
      BY <1>5, <2>3, CallFacts DEF ApprovePayment
    <3>2. WriteStatus(Tenant(r), "ACTIVE") /\ "ACTIVE" \in BillingStatus
      BY <3>1 DEF Renew, BillingStatus
    <3>3. \A u \in Tenants \ {Tenant(r)} :
            subEnd'[u] = subEnd[u] /\ (u \in byHand' <=> u \in byHand)
      BY <3>1 DEF Renew, TypeOK
    <3>4. QED
      BY <2>1, <3>1, <3>2, <3>3, WriteStatusKept
  <2>4. QED
    BY <2>2, <2>3
<1>6. CASE SweepStart \/ SweepEnd \/ SweepFails
  <2>1. UNCHANGED <<now, status, subEnd, history>>
    BY <1>6 DEF SweepStart, SweepEnd, SweepFails, Swept, rows
  <2>2. sweep'.list = {} /\ sweep'.at \in {0, now}
    <3>1. CASE SweepStart
      BY <3>1 DEF SweepStart, Idle
    <3>2. CASE sweep' = Idle
      BY <3>2 DEF Idle
    <3>3. QED
      BY <1>6, <3>1, <3>2 DEF SweepEnd, SweepFails
  <2>3. sweep'.at <= now
    BY <2>2 DEF TypeOK
  <2>4. QED
    BY <2>1, <2>2, <2>3 DEF SweepInv, PaidUp, Explained, history
<1>7. CASE SweepListTrials
  <2>1. UNCHANGED <<now, status, subEnd, history>> /\ sweep'.at = sweep.at
        /\ sweep'.list = TrialsOver(sweep.at)
    BY <1>7 DEF SweepListTrials, Swept, rows, TypeOK
  <2>2. \A t \in sweep'.list : t \in Tenants /\ status[t] = "TRIAL_7D"
    BY <2>1 DEF TrialsOver, TypeOK
  <2>3. QED
    BY <2>1, <2>2 DEF SweepInv, PaidUp, Explained, history
<1>8. CASE SweepListSubscriptions
  <2>1. UNCHANGED <<now, status, subEnd, history>> /\ sweep'.at = sweep.at
        /\ sweep'.list = SubscriptionsOver(sweep.at)
    BY <1>8 DEF SweepListSubscriptions, Swept, rows, TypeOK
  <2>2. ASSUME NEW t \in sweep'.list PROVE ~PaidUp(t)
    <3>1. t \in Tenants /\ subEnd[t] # Never /\ subEnd[t] <= sweep.at
      BY <2>1, <2>2 DEF SubscriptionsOver, Past, TypeOK
    <3>2. subEnd[t] \in Nat /\ sweep.at \in Nat /\ now \in Nat /\ sweep.at <= now
      BY <3>1 DEF TypeOK, SweepInv
    <3>3. QED
      BY <3>1, <3>2 DEF PaidUp
  <2>3. QED
    BY <2>1, <2>2 DEF SweepInv, PaidUp, Explained, history
<1>9. ASSUME NEW t \in Tenants, SweepExpire(t) PROVE SweepInv'
  <2>1. UNCHANGED <<now, subEnd, history>> /\ t \in sweep.list
    BY <1>9 DEF SweepExpire, Swept
  <2>2. sweep'.list \subseteq sweep.list /\ sweep'.at <= now
    BY <1>9 DEF SweepExpire, Idle, TypeOK, SweepInv
  <2>3. \A u \in Tenants : status'[u] # status[u] => u = t /\ status'[u] = "EXPIRED"
    BY <1>9 DEF SweepExpire, TypeOK
  <2>4. QED
    BY <2>1, <2>2, <2>3 DEF SweepInv, PaidUp, Explained, history
<1>10. QED
  BY <1>1, <1>2, <1>3, <1>4, <1>5, <1>6, <1>7, <1>8, <1>9 DEF Next, Handler, Sweep

(* subscription-expiration.cron.ts:46: a tenant with paid time left is     *)
(* EXPIRED only if its status was written between the sweep's list and its *)
(* update, or was last made EXPIRED or TRIAL_7D by hand - whatever status  *)
(* the requests carry, however many overlap and whichever sweeps fail.     *)
THEOREM ExpiryExplained == Spec => []ExpiredExplained
<1>1. Init => TypeOK /\ SweepInv
  BY TypeInit, SweepInvInit
<1>2. TypeOK /\ SweepInv /\ [Next]_vars => (TypeOK /\ SweepInv)'
  BY TypeStep, SweepInvStep
<1>3. TypeOK /\ SweepInv => ExpiredExplained
  BY DEF TypeOK, SweepInv, ExpiredExplained, Explained
<1>4. QED
  BY <1>1, <1>2, <1>3, PTL DEF Spec

-----------------------------------------------------------------------------
(* RenewalsPaid is inductive with the types: the request that renewed a    *)
(* tenant stays its witness, and its proof stays as long as the tenant.    *)

Renewed(r, t) ==
  /\ call[r].op = "approve" /\ pc[r] \in {"notify", "done"}
  /\ Tenant(r) = t /\ ends[r] = subEnd[t]
  /\ Proof(r) # NoProof => /\ Proof(r) \in filed /\ proofStatus[Proof(r)] # "PENDING"
                           /\ Covers(Proof(r), call[r].term)

LEMMA RenewalsKept ==
  ASSUME TypeOK, RenewalsPaid, UNCHANGED subEnd, tenants' \subseteq tenants,
         \A r \in Requests : pc[r] \in {"notify", "done"} =>
            /\ call'[r] = call[r] /\ ends'[r] = ends[r] /\ pc'[r] \in {"notify", "done"},
         \A p \in filed : Owner[p] \in tenants' => p \in filed',
         \A p \in filed : proofStatus[p] # "PENDING" => proofStatus'[p] # "PENDING"
  PROVE  RenewalsPaid'
<1>1. SUFFICES ASSUME NEW t \in tenants', subEnd[t] # OpeningEnd[t]
               PROVE  \E r \in Requests : Renewed(r, t)'
  BY DEF RenewalsPaid, Renewed
<1>2. PICK r \in Requests : Renewed(r, t)
  BY <1>1 DEF RenewalsPaid, Renewed
<1>3. call'[r] = call[r] /\ ends'[r] = ends[r] /\ pc'[r] \in {"notify", "done"}
  BY <1>2 DEF Renewed
<1>4. ASSUME Proof(r) # NoProof
      PROVE  Proof(r) \in filed' /\ proofStatus'[Proof(r)] # "PENDING"
  <2>1. call[r] \in Calls
    BY DEF TypeOK
  <2>2. Owner[Proof(r)] = t
    BY <1>2, <1>4, <2>1, QueueAssumption DEF Renewed, Proof, Tenant
  <2>3. QED
    BY <1>1, <1>2, <1>4, <2>2 DEF Renewed
<1>5. Renewed(r, t)'
  BY <1>2, <1>3, <1>4 DEF Renewed, Tenant, Proof, Covers
<1>6. QED
  BY <1>5

LEMMA RenewalsStep == TypeOK /\ RenewalsPaid /\ [Next]_vars => RenewalsPaid'
<1> SUFFICES ASSUME TypeOK, RenewalsPaid, [Next]_vars PROVE RenewalsPaid'
  OBVIOUS
<1>1. CASE UNCHANGED vars
  BY <1>1, RenewalsKept DEF vars, rows, requests
<1>2. CASE Tick \/ Sweep \/ SweepFails
  <2>1. UNCHANGED <<tenants, subEnd, filed, proofStatus, requests>>
    BY <1>2 DEF Tick, Sweep, SweepFails, SweepStart, SweepListTrials, SweepListSubscriptions,
                SweepExpire, SweepEnd, Swept, rows
  <2>2. QED
    BY <2>1, RenewalsKept DEF requests
<1>3. ASSUME NEW r \in Requests, Receive(r) PROVE RenewalsPaid'
  <2>1. UNCHANGED rows /\ pc[r] = "idle"
    BY <1>3 DEF Receive
  <2>2. \A o \in Requests \ {r} : call'[o] = call[o] /\ ends'[o] = ends[o] /\ pc'[o] = pc[o]
    BY <1>3 DEF Receive, TypeOK
  <2>3. QED
    BY <2>1, <2>2, RenewalsKept DEF rows
<1>4. ASSUME NEW r \in Requests, SubmitProof(r) PROVE RenewalsPaid'
  <2>1. UNCHANGED <<tenants, subEnd, call, ends>> /\ filed \subseteq filed'
    BY <1>4 DEF SubmitProof, Answer, Proceed
  <2>2. \A o \in Requests : pc[o] \in {"notify", "done"} => pc'[o] = pc[o]
    BY <1>4 DEF SubmitProof, At, Answer, Proceed, TypeOK
  <2>3. \A p \in filed : proofStatus'[p] = proofStatus[p]
    BY <1>4 DEF SubmitProof, TypeOK
  <2>4. QED
    BY <2>1, <2>2, <2>3, RenewalsKept
<1>5. ASSUME NEW r \in Requests, ApprovePayment(r) PROVE RenewalsPaid'
  <2>1. UNCHANGED <<tenants, filed, call, ends>>
    BY <1>5 DEF ApprovePayment, Proceed
  <2>2. \A o \in Requests \ {r} : pc'[o] = pc[o]
    BY <1>5 DEF ApprovePayment, Proceed, TypeOK
  <2>3. call[r].op = "approve" /\ pc[r] = "call"
    BY <1>5 DEF ApprovePayment, At
  <2>4. \A p \in filed : proofStatus[p] # "PENDING" => proofStatus'[p] # "PENDING"
    BY <1>5 DEF ApprovePayment, TypeOK
  <2>5. CASE ~Approvable(r)
    BY <1>5, <2>1, <2>2, <2>3, <2>4, <2>5, RenewalsKept DEF ApprovePayment
  <2>6. CASE Approvable(r)
    <3>1. /\ pc' = [pc EXCEPT ![r] = "notify"]
          /\ subEnd' = [subEnd EXCEPT ![Tenant(r)] = ends[r]]
          /\ proofStatus' = [p \in Proofs |-> IF p = Proof(r) THEN "APPROVED" ELSE proofStatus[p]]
      BY <1>5, <2>6 DEF ApprovePayment, Renew, Proceed
    <3>2. SUFFICES ASSUME NEW t \in tenants, subEnd'[t] # OpeningEnd[t]
                   PROVE  \E o \in Requests : Renewed(o, t)'
      BY <2>1 DEF RenewalsPaid, Renewed
    <3>3. CASE t = Tenant(r)
      <4>1. Tenant(r) \in Tenants /\ Proof(r) \in Proofs \cup {NoProof}
        BY CallFacts
      <4>2. pc'[r] = "notify" /\ subEnd'[t] = ends[r]
        BY <3>1, <3>3, <4>1 DEF TypeOK
      <4>3. Proof(r) # NoProof => /\ proofStatus'[Proof(r)] = "APPROVED"
                                  /\ Proof(r) \in filed /\ Covers(Proof(r), call[r].term)
        BY <2>6, <3>1, <4>1 DEF Approvable
      <4>4. Renewed(r, t)'
        BY <2>1, <2>3, <3>3, <4>2, <4>3 DEF Renewed, Tenant, Proof, Covers
      <4>5. QED
        BY <4>4
    <3>4. CASE t # Tenant(r)
      <4>1. subEnd'[t] = subEnd[t]
        BY <3>1, <3>4 DEF TypeOK
      <4>2. PICK o \in Requests : Renewed(o, t)
        BY <3>2, <4>1 DEF RenewalsPaid, Renewed
      <4>3. o # r
        BY <2>3, <4>2 DEF Renewed
      <4>4. Renewed(o, t)'
        BY <2>1, <2>2, <2>4, <4>1, <4>2, <4>3 DEF Renewed, Tenant, Proof, Covers
      <4>5. QED
        BY <4>4
    <3>5. QED
      BY <3>3, <3>4
  <2>7. QED
    BY <2>5, <2>6
<1>6. ASSUME NEW r \in Requests, NotifyApproval(r) PROVE RenewalsPaid'
  <2>1. UNCHANGED <<rows, call, ends>>
    BY <1>6 DEF NotifyApproval, Proceed
  <2>2. \A o \in Requests : pc[o] \in {"notify", "done"} => pc'[o] \in {"notify", "done"}
    BY <1>6 DEF NotifyApproval, Proceed, TypeOK
  <2>3. QED
    BY <2>1, <2>2, RenewalsKept DEF rows
<1>7. ASSUME NEW r \in Requests, RejectPayment(r) PROVE RenewalsPaid'
  <2>1. UNCHANGED <<tenants, subEnd, filed, call, ends>>
    BY <1>7 DEF RejectPayment, Answer, Proceed
  <2>2. \A o \in Requests : pc[o] \in {"notify", "done"} => pc'[o] = pc[o]
    BY <1>7 DEF RejectPayment, At, Answer, Proceed, TypeOK
  <2>3. \A p \in filed : proofStatus[p] # "PENDING" => proofStatus'[p] # "PENDING"
    BY <1>7 DEF RejectPayment, TypeOK
  <2>4. QED
    BY <2>1, <2>2, <2>3, RenewalsKept
<1>8. ASSUME NEW r \in Requests, UpdateTenantBillingStatus(r) \/ SoftDeleteTenant(r)
      PROVE  RenewalsPaid'
  <2>1. PICK s \in BillingStatus : SetStatus(r, s) /\ pc[r] = "call"
    BY <1>8, CallFacts DEF UpdateTenantBillingStatus, SoftDeleteTenant, At, BillingStatus
  <2>2. UNCHANGED <<tenants, subEnd, filed, proofStatus, call, ends>>
    BY <2>1 DEF SetStatus, Answer, Proceed
  <2>3. \A o \in Requests : pc[o] \in {"notify", "done"} => pc'[o] = pc[o]
    BY <2>1 DEF SetStatus, Answer, Proceed, TypeOK
  <2>4. QED
    BY <2>2, <2>3, RenewalsKept
<1>9. ASSUME NEW r \in Requests, HardDeleteRead(r) PROVE RenewalsPaid'
  <2>1. UNCHANGED <<rows, call, ends>>
    BY <1>9 DEF HardDeleteRead, Proceed
  <2>2. \A o \in Requests : pc[o] \in {"notify", "done"} => pc'[o] = pc[o]
    BY <1>9 DEF HardDeleteRead, At, Proceed, TypeOK
  <2>3. QED
    BY <2>1, <2>2, RenewalsKept DEF rows
<1>10. ASSUME NEW r \in Requests, HardDelete(r) PROVE RenewalsPaid'
  <2>1. UNCHANGED <<subEnd, proofStatus, call, ends>> /\ tenants' = tenants \ {Tenant(r)}
        /\ filed' = {p \in filed : Owner[p] # Tenant(r)}
    BY <1>10 DEF HardDelete, Answer, Proceed
  <2>2. \A o \in Requests : pc[o] \in {"notify", "done"} => pc'[o] = pc[o]
    BY <1>10 DEF HardDelete, At, Answer, Proceed, TypeOK
  <2>3. QED
    BY <2>1, <2>2, RenewalsKept
<1>11. QED
  BY <1>1, <1>2, <1>3, <1>4, <1>5, <1>6, <1>7, <1>8, <1>9, <1>10 DEF Next, Handler

(* approvePayment (super-admin.service.ts:113): every renewal is traced to *)
(* an approval, without a proof or on a processed proof that covers the    *)
(* price, for any number of concurrent approvals, rejections and deletions.*)
THEOREM RenewalsArePaid == Spec => []RenewalsPaid
<1>1. Init => RenewalsPaid
  BY DEF Init, RenewalsPaid
<1>2. QED
  BY <1>1, TypeInit, TypeStep, RenewalsStep, PTL DEF Spec
=============================================================================
