---------------------------- MODULE MCSubscription ----------------------------
(* Instances of Subscription for TLC.                                      *)
EXTENDS Subscription

CONSTANTS t1, t2, p1, p2

MCOwner  == [p \in Proofs |-> IF p = p1 THEN t1 ELSE t2]
(* p1 pays a term of 2 to within 1 %, p2 does not pay a term of 1.         *)
MCAmount == [p \in Proofs |-> IF p = p1 THEN 199 ELSE 98]
MCPrice  == [m \in Terms |-> 100 * m]

(* t1 is on trial, t2 has a subscription.                                  *)
MCStatus   == [t \in Tenants |-> IF t = t1 THEN "TRIAL_7D" ELSE "ACTIVE"]
MCTrialEnd == [t \in Tenants |-> IF t = t1 THEN 1 ELSE Never]
MCEnd      == [t \in Tenants |-> IF t = t1 THEN Never ELSE 1]

Do(op, t, p, m, s) == [op |-> op, tenant |-> t, proof |-> p, term |-> m, status |-> s]

(* Proofs submitted, approved and rejected; renewals without a proof;      *)
(* suspension, reactivation, expiry and a new trial by hand; archival and  *)
(* deletion.                                                               *)
AllCalls ==
  {Do("submit", t2, p2, 1, "ACTIVE")}
  \cup {Do("approve", t1, p1, 2, "ACTIVE")}
  \cup {Do("approve", t2, p, 1, "ACTIVE") : p \in {p2, NoProof}}
  \cup {Do("reject", t1, p1, 1, "ACTIVE")}
  \cup {Do("status", t1, NoProof, 1, s) : s \in {"ACTIVE", "TRIAL_7D"}}
  \cup {Do("status", t2, NoProof, 1, s) : s \in {"SUSPENDED", "EXPIRED"}}
  \cup {Do(o, t, NoProof, 1, "ACTIVE") : o \in {"archive", "hardDelete"}, t \in {t1, t2}}

(* One renewal, approved for a tenant whose subscription is over.          *)
OneRenewal == {Do("approve", t2, NoProof, 1, "ACTIVE")}
=============================================================================
