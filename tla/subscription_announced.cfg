SPECIFICATION Spec
CONSTANTS
  Tenants = {t1, t2}
  Proofs = {p1, p2}
  Requests = {r1}
  t1 = t1
  t2 = t2
  p1 = p1
  p2 = p2
  NoProof = NoProof
  Never = Never
  Calls <- OneRenewal
  Owner <- MCOwner
  Amount <- MCAmount
  Price <- MCPrice
  Terms = {1, 2}
  OpeningStatus <- MCStatus
  OpeningTrialEnd <- MCTrialEnd
  OpeningEnd <- MCEnd
  OpeningProofs = {p1}
  Horizon = 3
  MaxFailures = 0
INVARIANT AnnouncementHolds
