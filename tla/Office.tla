-------------------------------- MODULE Office --------------------------------
(***************************************************************************)
(* The backend as one system: requests of every kind against one process   *)
(* and one database.  A step is one step of one handler; it touches the    *)
(* tables of its own component and of no other.  Restarting the process    *)
(* ends its requests and empties its memory.                               *)
(***************************************************************************)
EXTENDS Shop, Tailor, SaasQuotes, Team, Accounts, Providers

shopTables == <<shop, depots>>
vars == <<serverVars, shopTables, tailor, quoting, accounts, integrations>>

ASSUME CallsAssumption ==
  \A s \in Scenes : s.calls \subseteq ShopCalls \cup TailorCalls \cup QuoteCalls \cup TeamCalls
                       \cup OtpCalls \cup AccountCalls \cup ProviderCalls

Init ==
  /\ ServerInit
  /\ ShopInit /\ TailorInit /\ QuotesInit /\ UsersInit /\ AccountsInit /\ ProvidersInit

Request(r) ==
  \/ (Arrive(r) \/ Fail(r)) /\ UNCHANGED <<shopTables, tailor, quoting, accounts, integrations>>
  \/ /\ UNCHANGED call
     /\ \/ ShopStep(r)     /\ UNCHANGED <<tailor, quoting, accounts, integrations>>
        \/ TailorStep(r)   /\ UNCHANGED <<shopTables, quoting, accounts, integrations>>
        \/ QuoteStep(r)    /\ UNCHANGED <<shopTables, tailor, accounts, integrations>>
        \/ TeamStep(r)     /\ UNCHANGED <<shopTables, tailor, quoting, otps, pending, spaces, integrations>>
        \/ OtpStep(r)      /\ UNCHANGED <<shopTables, tailor, quoting, people, pending, spaces, integrations>>
        \/ AccountStep(r)  /\ UNCHANGED <<shopTables, tailor, quoting, integrations>>
        \/ ProviderStep(r) /\ UNCHANGED <<shopTables, tailor, quoting, accounts>>

(* Codes age and registrations expire.                                     *)
Clock ==
  /\ scene.clock
  /\ \/ \E a \in DOMAIN otps : CodeAges(a) /\ UNCHANGED pending
     \/ \E e \in DOMAIN pending : RegistrationExpires(e) /\ UNCHANGED otps
  /\ UNCHANGED <<serverVars, shopTables, tailor, quoting, people, spaces, integrations>>

(* The codes, the registrations and the notices of the process are lost.   *)
Restart ==
  /\ Die
  /\ otps' = Empty /\ pending' = Empty /\ processed' = {}
  /\ UNCHANGED <<scene, shopTables, tailor, quoting, people, spaces, providers>>

Next ==
  \/ \E r \in Requests : Request(r) /\ UNCHANGED <<scene, restarts>>
  \/ Clock
  \/ Restart

Spec == Init /\ [][Next]_vars

-----------------------------------------------------------------------------
TypeOK ==
  /\ scene \in Scenes /\ restarts \in 0..MaxRestarts
  /\ \A r \in Requests : call[r] \in scene.calls \cup {NoCall}
  /\ DOMAIN pc = Requests /\ DOMAIN call = Requests /\ DOMAIN seen = Requests
  /\ ShopTypeOK /\ TailorTypeOK /\ QuotesTypeOK /\ AccountsTypeOK /\ ProvidersTypeOK

Processed(k) == {r \in Requests : call[r].op = "webhook" /\ pc[r] = "done" /\ Key(r) = k}

(* 'Webhook deja traite.' (payment-provider.service.ts:388): however the   *)
(* notices of one transaction overlap or are repeated, one is processed;   *)
(* a restart forgets it, and one more may be.                              *)
WebhookOnce ==
  \A k \in Supported \X Events : Cardinality(Processed(k)) <= 1 + restarts
=============================================================================
