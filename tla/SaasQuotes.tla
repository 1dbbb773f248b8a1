------------------------------ MODULE SaasQuotes ------------------------------
(***************************************************************************)
(* The quotes the platform makes to tenants and prospects, and their       *)
(* conversion into a subscription (modules/saas-quote/saas-quote.service). *)
(* The tables are not tenant-scoped: $transaction holds.  An audit record  *)
(* is written on a connection of its own, after the change it is about or, *)
(* for a conversion, before it commits.  Now is the time 0, in months.     *)
(***************************************************************************)
EXTENDS Server

CONSTANTS
  OldQuotes,             (* the quotes on file at the start                 *)
  OldTenants,            (* the tenants' subscriptions at the start         *)
  NoTenant               (* tenantId is null: a prospect                    *)

VARIABLES
  quotes,                (* SaaSQuote rows                                  *)
  subscriptions          (* Tenant: [active, ends], by tenant               *)

quoting == <<quotes, subscriptions>>

QuoteIds == DOMAIN OldQuotes \cup Requests
Tenants  == DOMAIN OldTenants
QuoteStatuses == {"DRAFT", "SENT", "ACCEPTED", "REJECTED", "EXPIRED", "CONVERTED"}

(* client: the tenant that has the e-mail of the quote, if one does;       *)
(* lapsed: validUntil is behind us (it is never changed).                  *)
QuoteRow == [number : Nat, tenant : Tenants \cup {NoTenant}, client : Tenants \cup {NoTenant},
             duration : Nat, total : Nat, status : QuoteStatuses, lapsed : BOOLEAN]

(* total: what the prices and discounts asked for come to.                 *)
QuoteCalls ==
  [op : {"createQuote"}, tenant : Tenants \cup {NoTenant}, client : Tenants \cup {NoTenant},
   duration : Nat \ {0}, total : Int]
    \cup [op : {"updateQuote"}, id : QuoteIds, duration : Nat \ {0}, total : Int]
    \cup [op : {"quoteStatus"}, id : QuoteIds, status : QuoteStatuses]
    \cup [op : {"convertQuote", "removeQuote"}, id : QuoteIds]

(* Rows on file are rows of the schema, their numbers unique.              *)
ASSUME QuotesAssumption ==
  /\ IsFiniteSet(DOMAIN OldQuotes) /\ DOMAIN OldQuotes \cap Requests = {}
  /\ OldQuotes \in [DOMAIN OldQuotes -> QuoteRow]
  /\ \A q, p \in DOMAIN OldQuotes : OldQuotes[q].number = OldQuotes[p].number => q = p
  /\ OldTenants \in [Tenants -> [active : BOOLEAN, ends : Nat]] /\ NoTenant \notin Tenants

QuotesInit == quotes = OldQuotes /\ subscriptions = OldTenants

-----------------------------------------------------------------------------
CountQuotes(r) ==
  /\ At(r, {"createQuote"}, "start")
  /\ IF call[r].tenant \in Tenants \cup {NoTenant} /\ call[r].total >= 0
       THEN Keep(r, "write", [count |-> Cardinality(DOMAIN quotes)])
       ELSE Refuse(r)
  /\ UNCHANGED quoting

(* quoteNumber is unique.                                                  *)
CreateQuote(r) ==
  /\ At(r, {"createQuote"}, "write")
  /\ LET number == seen[r].count + 1 IN
     IF \A q \in DOMAIN quotes : quotes[q].number # number
       THEN /\ Goto(r, "audit")
            /\ quotes' = Put(quotes, r,
                 [number |-> number, tenant |-> call[r].tenant, client |-> call[r].client,
                  duration |-> call[r].duration, total |-> call[r].total,
                  status |-> "DRAFT", lapsed |-> FALSE])
       ELSE Refuse(r) /\ UNCHANGED quotes
  /\ UNCHANGED subscriptions

Converted(q) == quotes[q].status = "CONVERTED"

MayBecome(q, status) ==
  ~Converted(q) /\ ~(quotes[q].status = "ACCEPTED" /\ status = "DRAFT")

(* A quote nobody has accepted yet may be converted as well.               *)
Convertible(q) == quotes[q].status \in {"ACCEPTED", "SENT", "DRAFT"}

(* findOne, and what each handler asks of the quote it reads.              *)
FindQuote(r) ==
  /\ At(r, {"quoteStatus", "convertQuote", "updateQuote", "removeQuote"}, "start")
  /\ LET q == call[r].id
         fits == CASE call[r].op = "quoteStatus"  -> MayBecome(q, call[r].status)
                   [] call[r].op = "convertQuote" -> Convertible(q)
                   [] call[r].op = "updateQuote"  -> ~Converted(q) /\ call[r].total >= 0
                   [] call[r].op = "removeQuote"  -> ~Converted(q)
     IN  IF q \in DOMAIN quotes
           THEN IF fits THEN Keep(r, IF call[r].op = "convertQuote" THEN "audit" ELSE "write", quotes[q])
                        ELSE Refuse(r)
           ELSE Refuse(r)
  /\ UNCHANGED quoting

(* The acceptance of a quote that has lapsed marks it expired instead.     *)
Lapses(r) == call[r].status = "ACCEPTED" /\ seen[r].lapsed

SetQuoteStatus(r) ==
  /\ At(r, {"quoteStatus"}, "write")
  /\ IF call[r].id \in DOMAIN quotes
       THEN /\ quotes' = [quotes EXCEPT ![call[r].id].status =
                            IF Lapses(r) THEN "EXPIRED" ELSE call[r].status]
            /\ IF Lapses(r) THEN Refuse(r) ELSE Goto(r, "audit")
       ELSE Refuse(r) /\ UNCHANGED quotes
  /\ UNCHANGED subscriptions

UpdateQuote(r) ==
  /\ At(r, {"updateQuote"}, "write")
  /\ IF call[r].id \in DOMAIN quotes
       THEN /\ Answer(r, "done")
            /\ quotes' = [quotes EXCEPT ![call[r].id].duration = call[r].duration,
                                        ![call[r].id].total = call[r].total]
       ELSE Refuse(r) /\ UNCHANGED quotes
  /\ UNCHANGED subscriptions

RemoveQuote(r) ==
  /\ At(r, {"removeQuote"}, "write")
  /\ IF call[r].id \in DOMAIN quotes
       THEN Answer(r, "done") /\ quotes' = Without(quotes, call[r].id)
       ELSE Refuse(r) /\ UNCHANGED quotes
  /\ UNCHANGED subscriptions

AuditQuote(r) ==
  /\ At(r, {"createQuote", "quoteStatus", "convertQuote"}, "audit")
  /\ IF call[r].op = "convertQuote" THEN Goto(r, "commit") ELSE Answer(r, "done")
  /\ UNCHANGED quoting

(* The tenant of the quote, or the one with the e-mail of the prospect.    *)
Target(row) == IF row.tenant # NoTenant THEN row.tenant ELSE row.client

(* Mutant of ConvertQuote: the status is left as it was.                   *)
ConvertQuoteOpen(r) ==
  /\ At(r, {"convertQuote"}, "commit")
  /\ LET t == Target(seen[r])
     IN  subscriptions' = IF t = NoTenant THEN subscriptions
                          ELSE [subscriptions EXCEPT ![t] = [active |-> TRUE, ends |-> seen[r].duration]]
  /\ Answer(r, "done")
  /\ UNCHANGED quotes

(* One transaction: the quote and its tenant.  The end counts from now,    *)
(* whatever was left of the subscription.                                  *)
ConvertQuote(r) ==
  /\ At(r, {"convertQuote"}, "commit")
  /\ LET q == call[r].id
         t == Target(seen[r])
     IN  IF q \in DOMAIN quotes
           THEN /\ Answer(r, "done")
                /\ quotes' = [quotes EXCEPT ![q].status = "CONVERTED", ![q].tenant = t]
                /\ subscriptions' = IF t = NoTenant THEN subscriptions
                     ELSE [subscriptions EXCEPT ![t] = [active |-> TRUE, ends |-> seen[r].duration]]
           ELSE Refuse(r) /\ UNCHANGED quoting

QuoteStep(r) ==
  \/ CountQuotes(r) \/ CreateQuote(r) \/ FindQuote(r) \/ SetQuoteStatus(r) \/ UpdateQuote(r)
  \/ RemoveQuote(r) \/ AuditQuote(r) \/ ConvertQuote(r)

-----------------------------------------------------------------------------
QuotesTypeOK ==
  /\ quotes \in [DOMAIN quotes -> QuoteRow] /\ DOMAIN quotes \subseteq QuoteIds
  /\ subscriptions \in [Tenants -> [active : BOOLEAN, ends : Nat]]
  /\ \A q, p \in DOMAIN quotes : quotes[q].number = quotes[p].number => q = p

Conversions(q) == {r \in Requests : call[r].op = "convertQuote" /\ call[r].id = q /\ pc[r] = "done"}

(* 'Un devis deja converti est immuable' (saas-quote.service.ts:178): of   *)
(* requests that do not overlap, one converts a quote, and the quote stays *)
(* converted and on file for good with its tenant's subscription active.   *)
(* A status read before a conversion and written after it reopens the      *)
(* quote when they overlap.                                                *)
QuoteConvertedOnce ==
  Apart => \A q \in QuoteIds : Conversions(q) # {} =>
    /\ Cardinality(Conversions(q)) = 1
    /\ q \in DOMAIN quotes /\ Converted(q)
    /\ quotes[q].tenant # NoTenant => subscriptions[quotes[q].tenant].active
=============================================================================
