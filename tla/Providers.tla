------------------------------- MODULE Providers ------------------------------
(***************************************************************************)
(* The payment and SMS providers the platform is connected to, and the     *)
(* notices (webhooks) the payment providers send                           *)
(* (modules/payment-provider/payment-provider.service,                     *)
(* modules/sms-provider/sms-provider.service).  What has been processed is *)
(* kept in the memory of the process.                                      *)
(***************************************************************************)
EXTENDS Server

CONSTANTS
  OldProviders,          (* configurations at the start, by provider        *)
  SmsProviders,          (* the providers that send SMS                     *)
  Supported,             (* the providers the registries know               *)
  Events                 (* externalTransactionId of the providers' notices *)

VARIABLES
  providers,             (* PaymentProviderConfig and SmsProviderConfig     *)
  processed              (* processedWebhooks                               *)

integrations == <<providers, processed>>

(* Which parts of a configuration are there.                               *)
ConfigRow == [enabled : BOOLEAN, key : BOOLEAN, secret : BOOLEAN, hook : BOOLEAN, qr : BOOLEAN]
Asks == {"keep", "on", "off"}             (* a field left out, given or not *)
ProviderCalls ==
  [op : {"upsertConfig"}, id : Supported, enabled : Asks, key : Asks, secret : BOOLEAN, hook : BOOLEAN]
    \cup [op : {"uploadQr", "revokeQr", "enableProvider", "disableProvider", "testProvider"},
          id : Supported]
    \cup [op : {"webhook"}, id : Supported, event : Events, signed : BOOLEAN]

ASSUME ProvidersAssumption ==
  OldProviders \in [DOMAIN OldProviders -> ConfigRow] /\ DOMAIN OldProviders \subseteq Supported

ProvidersInit == providers = OldProviders /\ processed = {}

NoConfig == [enabled |-> FALSE, key |-> FALSE, secret |-> FALSE, hook |-> FALSE, qr |-> FALSE]

(* What an activation asks for.                                            *)
Complete(p) == providers[p].secret /\ (p \notin SmsProviders => providers[p].key)

-----------------------------------------------------------------------------
FindConfig(r) ==
  /\ At(r, {"upsertConfig", "uploadQr", "revokeQr", "enableProvider", "disableProvider"}, "start")
  /\ LET p == call[r].id IN
     IF p \in DOMAIN providers
       THEN IF call[r].op = "enableProvider" /\ ~Complete(p) THEN Refuse(r)
            ELSE Keep(r, "write", providers[p])
       ELSE IF call[r].op = "upsertConfig" THEN Keep(r, "write", NoConfig) ELSE Refuse(r)
  /\ UNCHANGED integrations

Given(ask, old) == IF ask = "keep" THEN old ELSE ask = "on"

(* The whole configuration, what the dto leaves out as it was read; the QR *)
(* code is not part of it.                                                 *)
UpsertConfig(r) ==
  /\ At(r, {"upsertConfig"}, "write")
  /\ LET p == call[r].id
         old == seen[r]
     IN  providers' = Put(providers, p,
           [enabled |-> Given(call[r].enabled, old.enabled),
            key |-> Given(call[r].key, old.key), secret |-> old.secret \/ call[r].secret,
            hook |-> old.hook \/ call[r].hook,
            qr |-> IF p \in DOMAIN providers THEN providers[p].qr ELSE FALSE])
  /\ Goto(r, "audit")
  /\ UNCHANGED processed

(* Configurations are never deleted.                                       *)
UpdateConfig(r) ==
  /\ At(r, {"uploadQr", "revokeQr", "enableProvider", "disableProvider"}, "write")
  /\ LET p == call[r].id
     IN  providers' = IF call[r].op \in {"enableProvider", "disableProvider"}
           THEN [providers EXCEPT ![p].enabled = (call[r].op = "enableProvider")]
           ELSE [providers EXCEPT ![p].qr = (call[r].op = "uploadQr")]
  /\ Goto(r, "audit")
  /\ UNCHANGED processed

(* The adapter of the provider answers or throws; both are audited.        *)
TestConnection(r) ==
  /\ \/ At(r, {"testProvider"}, "start")
          /\ IF call[r].id \in DOMAIN providers THEN Goto(r, "adapter") ELSE Refuse(r)
     \/ At(r, {"testProvider"}, "adapter") /\ \E l \in {"audit", "refusal"} : Goto(r, l)
     \/ At(r, {"testProvider"}, "refusal") /\ Refuse(r)
  /\ UNCHANGED integrations

AuditProvider(r) ==
  /\ At(r, {"upsertConfig", "uploadQr", "revokeQr", "enableProvider", "disableProvider",
            "testProvider"}, "audit")
  /\ Answer(r, "done")
  /\ UNCHANGED integrations

-----------------------------------------------------------------------------
(* Notices.                                                                *)
FindHook(r) ==
  /\ At(r, {"webhook"}, "start")
  /\ LET p == call[r].id IN
     IF p \in DOMAIN providers
       THEN IF providers[p].enabled /\ providers[p].hook THEN Goto(r, "validate") ELSE Refuse(r)
       ELSE Refuse(r)
  /\ UNCHANGED integrations

Key(r) == <<call[r].id, call[r].event>>

(* Mutant of ValidateWebhook: the key is only added once the answer is on  *)
(* its way.                                                                *)
ValidateWebhookLate(r) ==
  \/ /\ At(r, {"webhook"}, "validate")
     /\ IF call[r].signed /\ Key(r) \notin processed THEN Goto(r, "answer") ELSE Refuse(r)
     /\ UNCHANGED integrations
  \/ /\ At(r, {"webhook"}, "answer")
     /\ Answer(r, "done")
     /\ processed' = processed \cup {Key(r)}
     /\ UNCHANGED providers

(* The signature, then, with no await in between, the key: a notice seen   *)
(* before is ignored.                                                      *)
ValidateWebhook(r) ==
  /\ At(r, {"webhook"}, "validate")
  /\ IF call[r].signed /\ Key(r) \notin processed
       THEN Answer(r, "done") /\ processed' = processed \cup {Key(r)}
       ELSE Refuse(r) /\ UNCHANGED processed
  /\ UNCHANGED providers

ProviderStep(r) ==
  \/ FindConfig(r) \/ UpsertConfig(r) \/ UpdateConfig(r) \/ TestConnection(r) \/ AuditProvider(r)
  \/ FindHook(r) \/ ValidateWebhook(r)

-----------------------------------------------------------------------------
ProvidersTypeOK ==
  /\ providers \in [DOMAIN providers -> ConfigRow] /\ DOMAIN providers \subseteq Supported
  /\ processed \subseteq Supported \X Events
=============================================================================
