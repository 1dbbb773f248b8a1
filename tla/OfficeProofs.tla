----------------------------- MODULE OfficeProofs -----------------------------
(***************************************************************************)
(* Proofs about module Office: what a step of one handler leaves alone,    *)
(* and the invariants that hold in every interleaving, for any requests,   *)
(* scenes, rows on file and restarts.                                      *)
(***************************************************************************)
EXTENDS OfficeBooks, SumProofs, FiniteSetTheorems, TLAPS

-----------------------------------------------------------------------------
(* One request at a time moves.                                            *)

(* A request that has not arrived has no parameters.                       *)
ServerInv ==
  /\ DOMAIN pc = Requests /\ DOMAIN call = Requests /\ DOMAIN seen = Requests
  /\ restarts \in Nat
  /\ \A r \in Requests : pc[r] = "idle" => call[r] = NoCall

Moves(r) ==
  /\ DOMAIN pc' = Requests /\ DOMAIN seen' = Requests
  /\ \A s \in Requests \ {r} : pc'[s] = pc[s] /\ seen'[s] = seen[s]
  /\ pc'[r] # "idle"

LEMMA GotoFacts ==
  ASSUME ServerInv, NEW r \in Requests, NEW l, Goto(r, l)
  PROVE  pc'[r] = l /\ seen' = seen /\ (l # "idle" => Moves(r))
BY DEF ServerInv, Goto, Moves

LEMMA KeepFacts ==
  ASSUME ServerInv, NEW r \in Requests, NEW l, NEW v, Keep(r, l, v)
  PROVE  pc'[r] = l /\ seen'[r] = v /\ (l # "idle" => Moves(r))
BY DEF ServerInv, Keep, Moves

LEMMA AnswerFacts ==
  ASSUME ServerInv, NEW r \in Requests
  PROVE  /\ \A e : Answer(r, e) => pc'[r] = e /\ (e # "idle" => Moves(r))
         /\ Refuse(r) => pc'[r] = "refused" /\ Moves(r)
BY KeepFacts DEF Answer, Refuse

ShopOps ==
  {"createPurchase", "updatePurchase", "receivePurchase", "deletePurchase",
   "createSession", "countLine", "completeSession", "applySession",
   "createTicket", "ticketStatus", "convertTicket", "removeItem",
   "createDepot", "updateDepot", "removeDepot"}
TailorOps ==
  {"createSheet", "updateSheet", "removeSheet", "createOrder", "payOrder", "orderStatus",
   "updateOrder", "removeOrder", "migrateOrders"}
QuoteOps == {"createQuote", "updateQuote", "quoteStatus", "convertQuote", "removeQuote"}
TeamOps ==
  {"createMember", "memberRole", "enableMember", "disableMember", "removeMember",
   "resetPassword", "disable2fa", "updateMember"}
OtpOps == {"sendSms", "verifySms"}
AccountOps == {"registerInit", "registerConfirm", "login", "verifyTotp"} \cup Settings
ProviderOps ==
  {"upsertConfig", "uploadQr", "revokeQr", "enableProvider", "disableProvider", "testProvider", "webhook"}

(* However its step ends, a handler moves its own request only.            *)
LEMMA HandlerMoves ==
  ASSUME ServerInv, NEW r \in Requests
  PROVE  /\ \A l : Goto(r, l) /\ l # "idle" => Moves(r)
         /\ \A l, v : Keep(r, l, v) /\ l # "idle" => Moves(r)
         /\ \A e : Answer(r, e) /\ e # "idle" => Moves(r)
         /\ Refuse(r) => Moves(r)
BY GotoFacts, KeepFacts, AnswerFacts

LEMMA PurchaseMoves ==
  ASSUME ServerInv, NEW r \in Requests, PurchaseStep(r)
  PROVE  Moves(r) /\ r \in InFlight /\ call[r].op \in ShopOps
<1>1. CASE CreatePurchase(r) \/ FindPurchase(r) \/ UpdatePurchase(r) \/ DeletePurchase(r)
  BY <1>1, HandlerMoves DEF CreatePurchase, FindPurchase, UpdatePurchase, DeletePurchase, At, InFlight, Ended, ShopOps
<1>2. CASE MarkReceived(r) \/ FindReceivedItem(r) \/ JournalReceipt(r) \/ StoreReceipt(r)
  BY <1>2, HandlerMoves DEF MarkReceived, FindReceivedItem, JournalReceipt, StoreReceipt, At, InFlight, Ended, ShopOps
<1>3. QED
  BY <1>1, <1>2 DEF PurchaseStep

LEMMA InventoryMoves ==
  ASSUME ServerInv, NEW r \in Requests, InventoryStep(r)
  PROVE  Moves(r) /\ r \in InFlight /\ call[r].op \in ShopOps
<1>1. CASE CountShelf(r) \/ CreateSession(r) \/ FindLine(r) \/ CountLine(r) \/ CompleteSession(r)
  BY <1>1, HandlerMoves DEF CountShelf, CreateSession, FindLine, CountLine, CompleteSession, At, InFlight, Ended, ShopOps
<1>2. CASE FindSession(r)
  <2>1. At(r, {"countLine", "completeSession", "applySession"}, "start")
    BY <1>2 DEF FindSession
  <2>2. Refuse(r) \/ Goto(r, "line") \/ Goto(r, "write") \/ \E v : Keep(r, "journal", v)
    BY <1>2 DEF FindSession, At
  <2>3. QED
    BY <2>1, <2>2, HandlerMoves DEF At, InFlight, Ended, ShopOps
<1>3. CASE JournalAdjustment(r) \/ StoreCount(r) \/ SetAdjusted(r)
  BY <1>3, HandlerMoves DEF JournalAdjustment, StoreCount, SetAdjusted, At, InFlight, Ended, ShopOps
<1>4. QED
  BY <1>1, <1>2, <1>3 DEF InventoryStep

LEMMA TicketMoves ==
  ASSUME ServerInv, NEW r \in Requests, TicketStep(r)
  PROVE  Moves(r) /\ r \in InFlight /\ call[r].op \in ShopOps
<1>1. CASE CountTickets(r) \/ CreateTicket(r) \/ FindTicket(r) \/ CheckPart(r) \/ DecrementPart(r)
  BY <1>1, HandlerMoves DEF CountTickets, CreateTicket, FindTicket, CheckPart, DecrementPart, At, InFlight, Ended, ShopOps
<1>2. CASE JournalPart(r) \/ AttachPart(r) \/ UpdateTicket(r) \/ CommitParts(r)
  BY <1>2, HandlerMoves DEF JournalPart, AttachPart, UpdateTicket, CommitParts, At, InFlight, Ended, ShopOps
<1>3. CASE FindImpossible(r) \/ MarkConverted(r) \/ CreateRefurbished(r) \/ JournalRefurbished(r)
  BY <1>3, HandlerMoves DEF FindImpossible, MarkConverted, CreateRefurbished, JournalRefurbished, At, InFlight, Ended, ShopOps
<1>4. QED
  BY <1>1, <1>2, <1>3 DEF TicketStep

LEMMA ShopMoves ==
  ASSUME ServerInv, NEW r \in Requests, ShopStep(r)
  PROVE  Moves(r) /\ r \in InFlight /\ call[r].op \in ShopOps
<1>1. CASE FindItem(r) \/ RemoveItem(r)
  BY <1>1, HandlerMoves DEF FindItem, RemoveItem, At, InFlight, Ended, ShopOps
<1>2. CASE DepotStep(r)
  BY <1>2, HandlerMoves DEF DepotStep, FindDepot, ClearMain, CreateDepot, UpdateDepot, RemoveDepot, At, InFlight, Ended, ShopOps
<1>3. QED
  BY <1>1, <1>2, PurchaseMoves, InventoryMoves, TicketMoves DEF ShopStep

LEMMA TailorMoves ==
  ASSUME ServerInv, NEW r \in Requests, TailorStep(r)
  PROVE  Moves(r) /\ r \in InFlight /\ call[r].op \in TailorOps
<1>1. CASE FindParent(r) \/ CreateSheet(r) \/ FindSheet(r) \/ UpdateSheet(r) \/ RemoveSheet(r)
  BY <1>1, HandlerMoves DEF FindParent, CreateSheet, FindSheet, UpdateSheet, RemoveSheet, At, InFlight, Ended, TailorOps
<1>2. CASE CountOrders(r) \/ DrawInvoiceNumber(r) \/ CheckSheet(r) \/ CreateOrderInvoice(r) \/ CreateOrder(r)
  BY <1>2, HandlerMoves DEF CountOrders, DrawInvoiceNumber, CheckSheet, CreateOrderInvoice, CreateOrder, At, InFlight, Ended, TailorOps
<1>3. CASE FindOrder(r) \/ PayAdvance(r) \/ Collect(r) \/ SetOrderStatus(r) \/ UpdateOrder(r) \/ RemoveOrder(r)
  BY <1>3, HandlerMoves DEF FindOrder, PayAdvance, Collect, SetOrderStatus, UpdateOrder, RemoveOrder, At, InFlight, Ended, TailorOps
<1>4. CASE ListOrphans(r) \/ DrawMigrationNumber(r) \/ LinkInvoice(r) \/ SkipOrphan(r) \/ EndMigration(r)
  BY <1>4, HandlerMoves DEF ListOrphans, DrawMigrationNumber, LinkInvoice, SkipOrphan, EndMigration, At, InFlight, Ended, TailorOps
<1>5. QED
  BY <1>1, <1>2, <1>3, <1>4 DEF TailorStep

LEMMA QuoteMoves ==
  ASSUME ServerInv, NEW r \in Requests, QuoteStep(r)
  PROVE  Moves(r) /\ r \in InFlight /\ call[r].op \in QuoteOps
<1>1. CASE CountQuotes(r) \/ CreateQuote(r) \/ SetQuoteStatus(r) \/ UpdateQuote(r) \/ RemoveQuote(r)
  BY <1>1, HandlerMoves DEF CountQuotes, CreateQuote, SetQuoteStatus, UpdateQuote, RemoveQuote, At, InFlight, Ended, QuoteOps
<1>2. CASE FindQuote(r)
  <2>1. At(r, {"quoteStatus", "convertQuote", "updateQuote", "removeQuote"}, "start")
    BY <1>2 DEF FindQuote
  <2>2. Refuse(r) \/ \E l \in {"audit", "write"} : \E v : Keep(r, l, v)
    BY <1>2 DEF FindQuote
  <2>3. QED
    BY <2>1, <2>2, HandlerMoves DEF At, InFlight, Ended, QuoteOps
<1>3. CASE AuditQuote(r) \/ ConvertQuote(r)
  BY <1>3, HandlerMoves DEF AuditQuote, ConvertQuote, At, InFlight, Ended, QuoteOps
<1>4. QED
  BY <1>1, <1>2, <1>3 DEF QuoteStep

LEMMA TeamMoves ==
  ASSUME ServerInv, NEW r \in Requests, TeamStep(r)
  PROVE  Moves(r) /\ r \in InFlight /\ call[r].op \in TeamOps
<1>1. CASE FindEmail(r) \/ CreateMember(r) \/ CountAdmins(r) \/ ClearRoles(r) \/ GiveRole(r)
  BY <1>1, HandlerMoves DEF FindEmail, CreateMember, CountAdmins, ClearRoles, GiveRole, At, InFlight, Ended, TeamOps
<1>2. CASE FindMember(r)
  <2>1. At(r, {"memberRole", "disableMember", "removeMember", "resetPassword", "disable2fa", "updateMember"}, "start")
    BY <1>2 DEF FindMember
  <2>2. Refuse(r) \/ \E l \in {"count", "replace", "email", "write"} : Goto(r, l)
    BY <1>2 DEF FindMember
  <2>3. QED
    BY <2>1, <2>2, HandlerMoves DEF At, InFlight, Ended, TeamOps
<1>3. CASE CheckNewEmail(r) \/ UpdateMember(r) \/ RemoveMember(r) \/ AuditTeam(r)
  BY <1>3, HandlerMoves DEF CheckNewEmail, UpdateMember, RemoveMember, AuditTeam, At, InFlight, Ended, TeamOps
<1>4. QED
  BY <1>1, <1>2, <1>3 DEF TeamStep

LEMMA CodeMoves ==
  ASSUME ServerInv, NEW r \in Requests, NEW a
  PROVE  /\ SendOtp(r, a) => Moves(r)
         /\ VerifyOtp(r, a, "audit") \/ VerifyOtp(r, a, "pending") => Moves(r)
BY HandlerMoves DEF SendOtp, VerifyOtp

LEMMA OtpMoves ==
  ASSUME ServerInv, NEW r \in Requests, OtpStep(r)
  PROVE  Moves(r) /\ r \in InFlight /\ call[r].op \in OtpOps
BY HandlerMoves, CodeMoves DEF OtpStep, SendSms, VerifySms, DeliverSms, AuditSms, At, InFlight, Ended, OtpOps

LEMMA AccountMoves ==
  ASSUME ServerInv, NEW r \in Requests, AccountStep(r)
  PROVE  Moves(r) /\ r \in InFlight /\ call[r].op \in AccountOps
<1>1. CASE InitEmail(r) \/ InitPhone(r) \/ StoreRegistration(r) \/ SendCode(r) \/ ConfirmCode(r)
  BY <1>1, HandlerMoves, CodeMoves DEF InitEmail, InitPhone, StoreRegistration, SendCode, ConfirmCode, At, InFlight, Ended, AccountOps
<1>2. CASE TakeRegistration(r) \/ CountSpaces(r) \/ CreateSpace(r)
  BY <1>2, HandlerMoves DEF TakeRegistration, CountSpaces, CreateSpace, At, InFlight, Ended, AccountOps
<1>3. CASE Login(r) \/ OpenSession(r)
  BY <1>3, HandlerMoves DEF Login, OpenSession, At, InFlight, Ended, AccountOps
<1>4. CASE CheckTotp(r)
  BY <1>4, HandlerMoves DEF CheckTotp, At, InFlight, Ended, AccountOps
<1>5. CASE RefuseTotp(r) \/ AcceptTotp(r) \/ FindSelf(r) \/ SaveSelf(r)
  BY <1>5, HandlerMoves DEF RefuseTotp, AcceptTotp, FindSelf, SaveSelf, At, InFlight, Ended, AccountOps, Settings
<1>6. QED
  BY <1>1, <1>2, <1>3, <1>4, <1>5 DEF AccountStep

LEMMA ProviderMoves ==
  ASSUME ServerInv, NEW r \in Requests, ProviderStep(r)
  PROVE  Moves(r) /\ r \in InFlight /\ call[r].op \in ProviderOps
<1>1. CASE FindConfig(r)
  BY <1>1, HandlerMoves DEF FindConfig, At, InFlight, Ended, ProviderOps
<1>2. CASE UpsertConfig(r) \/ UpdateConfig(r) \/ AuditProvider(r)
  BY <1>2, HandlerMoves DEF UpsertConfig, UpdateConfig, AuditProvider, At, InFlight, Ended, ProviderOps
<1>3. CASE TestConnection(r) \/ FindHook(r) \/ ValidateWebhook(r)
  BY <1>3, HandlerMoves DEF TestConnection, FindHook, ValidateWebhook, At, InFlight, Ended, ProviderOps
<1>4. QED
  BY <1>1, <1>2, <1>3 DEF ProviderStep

-----------------------------------------------------------------------------
(* The steps of the system that are no handler's.                          *)
tables == <<shopTables, tailor, quoting, accounts, integrations>>

LEMMA ArriveFacts ==
  ASSUME ServerInv, NEW r \in Requests, Arrive(r)
  PROVE  /\ Moves(r) /\ pc[r] = "idle" /\ pc'[r] = "start" /\ seen' = seen /\ call[r] = NoCall
         /\ DOMAIN call' = Requests /\ call'[r] \in scene.calls
         /\ \A s \in Requests \ {r} : call'[s] = call[s]
<1>1. PICK c \in scene.calls : pc[r] = "idle" /\ call' = [call EXCEPT ![r] = c] /\ Goto(r, "start")
  BY DEF Arrive
<1>2. QED
  BY <1>1, GotoFacts DEF ServerInv

LEMMA FailFacts ==
  ASSUME ServerInv, NEW r \in Requests, Fail(r)
  PROVE  Moves(r) /\ r \in InFlight /\ pc'[r] = "failed" /\ scene.faults /\ UNCHANGED call
BY AnswerFacts DEF Fail

LEMMA RestartFacts ==
  ASSUME ServerInv, Restart
  PROVE  /\ UNCHANGED <<scene, call, shopTables, tailor, quoting, people, spaces, providers>>
         /\ restarts' = restarts + 1 /\ restarts < MaxRestarts /\ scene.faults
         /\ otps' = Empty /\ pending' = Empty /\ processed' = {}
         /\ DOMAIN pc' = Requests /\ DOMAIN seen' = Requests
         /\ \A r \in Requests : IF r \in InFlight THEN pc'[r] = "failed" ELSE pc'[r] = pc[r]
BY DEF Restart, Die

(* A handler's step, and what the other components see of it.              *)
LEMMA RequestCases ==
  ASSUME ServerInv, NEW r \in Requests, Request(r)
  PROVE  \/ Arrive(r) /\ UNCHANGED tables
         \/ Fail(r) /\ UNCHANGED tables
         \/ /\ UNCHANGED call /\ Moves(r) /\ r \in InFlight
            /\ \/ ShopStep(r) /\ UNCHANGED <<tailor, quoting, accounts, integrations>> /\ call[r].op \in ShopOps
               \/ TailorStep(r) /\ UNCHANGED <<shopTables, quoting, accounts, integrations>> /\ call[r].op \in TailorOps
               \/ QuoteStep(r) /\ UNCHANGED <<shopTables, tailor, accounts, integrations>> /\ call[r].op \in QuoteOps
               \/ /\ TeamStep(r) /\ call[r].op \in TeamOps
                  /\ UNCHANGED <<shopTables, tailor, quoting, otps, pending, spaces, integrations>>
               \/ /\ OtpStep(r) /\ call[r].op \in OtpOps
                  /\ UNCHANGED <<shopTables, tailor, quoting, people, pending, spaces, integrations>>
               \/ AccountStep(r) /\ UNCHANGED <<shopTables, tailor, quoting, integrations>> /\ call[r].op \in AccountOps
               \/ ProviderStep(r) /\ UNCHANGED <<shopTables, tailor, quoting, accounts>> /\ call[r].op \in ProviderOps
<1>1. CASE (Arrive(r) \/ Fail(r)) /\ UNCHANGED <<shopTables, tailor, quoting, accounts, integrations>>
  BY <1>1 DEF tables
<1>2. CASE /\ UNCHANGED call
           /\ \/ ShopStep(r) /\ UNCHANGED <<tailor, quoting, accounts, integrations>>
              \/ TailorStep(r) /\ UNCHANGED <<shopTables, quoting, accounts, integrations>>
              \/ QuoteStep(r) /\ UNCHANGED <<shopTables, tailor, accounts, integrations>>
              \/ TeamStep(r) /\ UNCHANGED <<shopTables, tailor, quoting, otps, pending, spaces, integrations>>
              \/ OtpStep(r) /\ UNCHANGED <<shopTables, tailor, quoting, people, pending, spaces, integrations>>
              \/ AccountStep(r) /\ UNCHANGED <<shopTables, tailor, quoting, integrations>>
              \/ ProviderStep(r) /\ UNCHANGED <<shopTables, tailor, quoting, accounts>>
  BY <1>2, ShopMoves, TailorMoves, QuoteMoves, TeamMoves, OtpMoves, AccountMoves, ProviderMoves
<1>3. QED
  BY <1>1, <1>2 DEF Request

LEMMA ServerStart == Init => ServerInv
BY DEF Init, ServerInit, ServerInv

LEMMA ServerStep ==
  ASSUME ServerInv, [Next]_vars
  PROVE  ServerInv'
<1>1. CASE UNCHANGED vars
  BY <1>1 DEF vars, serverVars, ServerInv
<1>2. ASSUME NEW r \in Requests, Request(r), UNCHANGED <<scene, restarts>> PROVE ServerInv'
  <2>1. CASE Arrive(r)
    <3>1. /\ Moves(r) /\ pc'[r] = "start" /\ DOMAIN call' = Requests
          /\ \A s \in Requests \ {r} : call'[s] = call[s]
      BY <2>1, ArriveFacts
    <3>2. QED
      BY <1>2, <3>1 DEF ServerInv, Moves
  <2>2. CASE Fail(r)
    <3>1. Moves(r) /\ UNCHANGED call
      BY <2>2, FailFacts
    <3>2. QED
      BY <1>2, <3>1 DEF ServerInv, Moves
  <2>3. CASE UNCHANGED call /\ Moves(r)
    BY <1>2, <2>3 DEF ServerInv, Moves
  <2>4. QED
    BY <1>2, <2>1, <2>2, <2>3, RequestCases
<1>3. CASE Clock
  BY <1>3 DEF Clock, serverVars, ServerInv
<1>4. CASE Restart
  <2>1. /\ UNCHANGED call /\ restarts' = restarts + 1
        /\ DOMAIN pc' = Requests /\ DOMAIN seen' = Requests
        /\ \A r \in Requests : IF r \in InFlight THEN pc'[r] = "failed" ELSE pc'[r] = pc[r]
    BY <1>4, RestartFacts
  <2>2. QED
    BY <2>1 DEF ServerInv
<1>5. QED
  BY <1>1, <1>2, <1>3, <1>4 DEF Next

(* Requests ask what the scene has them ask.                               *)
Asking == scene \in Scenes /\ \A r \in Requests : call[r] \in scene.calls \cup {NoCall}

LEMMA AskingStart == Init => Asking
BY DEF Init, ServerInit, Asking

LEMMA AskingStep ==
  ASSUME ServerInv, Asking, [Next]_vars
  PROVE  Asking'
<1>0. UNCHANGED scene
  BY RestartFacts DEF Next, vars, serverVars, Clock
<1>1. CASE UNCHANGED call
  BY <1>0, <1>1 DEF Asking
<1>2. ASSUME NEW r \in Requests, Arrive(r) PROVE Asking'
  <2>1. call'[r] \in scene.calls /\ \A s \in Requests \ {r} : call'[s] = call[s]
    BY <1>2, ArriveFacts
  <2>2. QED
    BY <1>0, <2>1 DEF Asking
<1>3. QED
  BY <1>1, <1>2, RequestCases, FailFacts, RestartFacts DEF Next, vars, serverVars, Clock

(* The calls of each module are of its kinds.                              *)
LEMMA CallKinds ==
  /\ \A c \in ShopCalls : c.op \in ShopOps
  /\ \A c \in TailorCalls : c.op \in TailorOps
  /\ \A c \in QuoteCalls : c.op \in QuoteOps
  /\ \A c \in TeamCalls : c.op \in TeamOps
  /\ \A c \in OtpCalls : c.op \in OtpOps
  /\ \A c \in AccountCalls : c.op \in AccountOps
  /\ \A c \in ProviderCalls : c.op \in ProviderOps
<1>1. \A c \in ShopCalls : c.op \in ShopOps
  BY DEF ShopCalls, PurchaseCalls, SessionCalls, TicketCalls, DepotCalls, ShopOps
<1>2. \A c \in TailorCalls : c.op \in TailorOps
  BY DEF TailorCalls, TailorOps
<1>3. (\A c \in QuoteCalls : c.op \in QuoteOps) /\ (\A c \in TeamCalls : c.op \in TeamOps)
  BY DEF QuoteCalls, QuoteOps, TeamCalls, TeamOps
<1>4. (\A c \in OtpCalls : c.op \in OtpOps) /\ (\A c \in AccountCalls : c.op \in AccountOps)
  BY DEF OtpCalls, OtpOps, AccountCalls, AccountOps, Settings
<1>5. \A c \in ProviderCalls : c.op \in ProviderOps
  BY DEF ProviderCalls, ProviderOps
<1>6. QED
  BY <1>1, <1>2, <1>3, <1>4, <1>5

(* A request of one module is none of another's.                           *)
LEMMA Disjoint ==
  /\ \A op \in ShopOps : op \notin TailorOps \cup QuoteOps \cup TeamOps \cup OtpOps \cup AccountOps \cup ProviderOps
  /\ \A op \in TailorOps : op \notin ShopOps \cup QuoteOps \cup TeamOps \cup OtpOps \cup AccountOps \cup ProviderOps
  /\ \A op \in QuoteOps : op \notin ShopOps \cup TailorOps \cup TeamOps \cup OtpOps \cup AccountOps \cup ProviderOps
  /\ \A op \in TeamOps : op \notin ShopOps \cup TailorOps \cup QuoteOps \cup OtpOps \cup AccountOps \cup ProviderOps
  /\ \A op \in OtpOps : op \notin ShopOps \cup TailorOps \cup QuoteOps \cup TeamOps \cup AccountOps \cup ProviderOps
  /\ \A op \in AccountOps : op \notin ShopOps \cup TailorOps \cup QuoteOps \cup TeamOps \cup OtpOps \cup ProviderOps
  /\ \A op \in ProviderOps : op \notin ShopOps \cup TailorOps \cup QuoteOps \cup TeamOps \cup OtpOps \cup AccountOps
BY DEF ShopOps, TailorOps, QuoteOps, TeamOps, OtpOps, AccountOps, Settings, ProviderOps

(* So a request's parameters are what the calls of its kind take.          *)
LEMMA CallsTyped ==
  ASSUME Asking, NEW r \in Requests
  PROVE  /\ call[r].op \in ShopOps => call[r] \in ShopCalls
         /\ call[r].op \in TailorOps => call[r] \in TailorCalls
         /\ call[r].op \in QuoteOps => call[r] \in QuoteCalls
         /\ call[r].op \in TeamOps => call[r] \in TeamCalls
         /\ call[r].op \in OtpOps => call[r] \in OtpCalls
         /\ call[r].op \in AccountOps => call[r] \in AccountCalls
         /\ call[r].op \in ProviderOps => call[r] \in ProviderCalls
<1>1. call[r] \in ShopCalls \cup TailorCalls \cup QuoteCalls \cup TeamCalls
                  \cup OtpCalls \cup AccountCalls \cup ProviderCalls \/ call[r].op = "none"
  BY CallsAssumption DEF Asking, NoCall
<1>2. "none" \notin ShopOps \cup TailorOps \cup QuoteOps \cup TeamOps \cup OtpOps \cup AccountOps \cup ProviderOps
  BY DEF ShopOps, TailorOps, QuoteOps, TeamOps, OtpOps, AccountOps, Settings, ProviderOps
<1>3. QED
  BY <1>1, <1>2, CallKinds, Disjoint

(* Requests that do not overlap: one is in flight at a time.               *)
AloneInv == Apart => \A r, s \in InFlight : r = s

LEMMA AloneStart == Init => AloneInv
BY DEF Init, ServerInit, AloneInv, InFlight

LEMMA AloneStep ==
  ASSUME ServerInv, AloneInv, [Next]_vars
  PROVE  AloneInv'
<1>0. UNCHANGED scene
  BY RestartFacts DEF Next, vars, serverVars, Clock
<1> SUFFICES ASSUME Apart PROVE (\A r, s \in InFlight : r = s)'
  BY <1>0 DEF AloneInv, Apart
<1>a. \A r, s \in InFlight : r = s
  BY DEF AloneInv
<1>1. CASE UNCHANGED <<pc>>
  BY <1>1, <1>a DEF InFlight
<1>2. ASSUME NEW r \in Requests, Request(r) PROVE (\A x, y \in InFlight : x = y)'
  <2>1. CASE Arrive(r)
    <3>1. InFlight = {}
      <4>1. Cardinality(InFlight) < 1
        BY <2>1 DEF Arrive, Apart
      <4>2. IsFiniteSet(InFlight)
        BY RequestsAssumption, FS_Subset DEF InFlight
      <4>3. Cardinality(InFlight) = 0
        BY <4>1, <4>2, FS_CardinalityType
      <4>4. QED
        BY <4>2, <4>3, FS_EmptySet
    <3>2. Moves(r)
      BY <2>1, ArriveFacts
    <3>3. QED
      BY <3>1, <3>2 DEF Moves, InFlight
  <2>2. CASE r \in InFlight /\ Moves(r)
    BY <1>a, <2>2 DEF Moves, InFlight
  <2>3. QED
    BY <1>2, <2>1, <2>2, RequestCases, FailFacts
<1>3. CASE Restart
  <2>1. \A r \in Requests : IF r \in InFlight THEN pc'[r] = "failed" ELSE pc'[r] = pc[r]
    BY <1>3, RestartFacts
  <2>2. QED
    BY <2>1 DEF InFlight, Ended
<1>4. QED
  BY <1>1, <1>2, <1>3 DEF Next, vars, serverVars, Clock

-----------------------------------------------------------------------------
(* Notices.  WebhookOnce is not inductive: a transaction whose key is not  *)
(* in memory any more has been processed before the last restart only.     *)
WebhookInv ==
  \A k \in Supported \X Events :
    Cardinality(Processed(k)) <= restarts + (IF k \in processed THEN 1 ELSE 0)

LEMMA ProcessedFinite ==
  ASSUME NEW k
  PROVE  /\ IsFiniteSet(Processed(k)) /\ Cardinality(Processed(k)) \in Nat
         /\ \A S : S \subseteq Processed(k) => IsFiniteSet(S) /\ Cardinality(S) <= Cardinality(Processed(k))
                                               /\ Cardinality(S) \in Nat
BY RequestsAssumption, FS_Subset, FS_CardinalityType DEF Processed

LEMMA WebhookKept ==
  ASSUME ServerInv, WebhookInv, UNCHANGED restarts, processed \subseteq processed',
         \A k : Processed(k)' \subseteq Processed(k)
  PROVE  WebhookInv'
<1> SUFFICES ASSUME NEW k \in Supported \X Events
             PROVE  Cardinality(Processed(k)') <= restarts' + (IF k \in processed' THEN 1 ELSE 0)
  BY DEF WebhookInv
<1>1. /\ Cardinality(Processed(k)') <= Cardinality(Processed(k)) /\ Cardinality(Processed(k)') \in Nat
      /\ Cardinality(Processed(k)) \in Nat
  BY ProcessedFinite
<1>2. Cardinality(Processed(k)) <= restarts + (IF k \in processed THEN 1 ELSE 0) /\ restarts \in Nat
  BY DEF WebhookInv, ServerInv
<1>3. QED
  BY <1>1, <1>2

(* A request that is not in the middle of a notice is no processed one.    *)
LEMMA ProcessedKept ==
  ASSUME ServerInv, NEW r \in Requests, Moves(r), \A s \in Requests \ {r} : call'[s] = call[s],
         pc'[r] = "done" => call'[r].op # "webhook"
  PROVE  \A k : Processed(k)' \subseteq Processed(k)
BY DEF Processed, Moves, Key

LEMMA WebhookStart == Init => WebhookInv
<1> SUFFICES ASSUME Init, NEW k \in Supported \X Events
             PROVE  Cardinality(Processed(k)) <= restarts + (IF k \in processed THEN 1 ELSE 0)
  BY DEF WebhookInv
<1>1. Processed(k) = {} /\ restarts = 0
  BY DEF Init, ServerInit, Processed
<1>2. QED
  BY <1>1, FS_EmptySet

LEMMA WebhookStep ==
  ASSUME ServerInv, WebhookInv, [Next]_vars
  PROVE  WebhookInv'
<1>1. CASE UNCHANGED serverVars /\ UNCHANGED processed
  <2>1. \A k : Processed(k)' \subseteq Processed(k)
    BY <1>1 DEF serverVars, Processed, Key
  <2>2. QED
    BY <1>1, <2>1, WebhookKept DEF serverVars
<1>2. ASSUME NEW r \in Requests, Request(r), UNCHANGED <<scene, restarts>> PROVE WebhookInv'
  <2>1. CASE (Arrive(r) \/ Fail(r)) /\ UNCHANGED tables
    <3>1. Moves(r) /\ pc'[r] \in {"start", "failed"} /\ \A s \in Requests \ {r} : call'[s] = call[s]
      BY <2>1, ArriveFacts, FailFacts
    <3>2. UNCHANGED processed
      BY <2>1 DEF tables, integrations
    <3>3. QED
      BY <1>2, <3>1, <3>2, ProcessedKept, WebhookKept
  <2>2. CASE UNCHANGED <<call, processed>> /\ Moves(r) /\ call[r].op # "webhook"
    BY <1>2, <2>2, ProcessedKept, WebhookKept
  <2>3. CASE UNCHANGED call /\ Moves(r) /\ FindHook(r)
    <3>1. UNCHANGED processed /\ pc'[r] \in {"validate", "refused"}
      BY <2>3, GotoFacts, AnswerFacts DEF FindHook, integrations
    <3>2. QED
      BY <1>2, <2>3, <3>1, ProcessedKept, WebhookKept
  <2>4. CASE UNCHANGED call /\ Moves(r) /\ ValidateWebhook(r)
    <3>1. CASE call[r].signed /\ Key(r) \notin processed
      <4>1. processed' = processed \cup {Key(r)}
        BY <2>4, <3>1 DEF ValidateWebhook
      <4>2. SUFFICES ASSUME NEW k \in Supported \X Events
                     PROVE  Cardinality(Processed(k)') <= restarts' + (IF k \in processed' THEN 1 ELSE 0)
        BY DEF WebhookInv
      <4>3. /\ Cardinality(Processed(k)) <= restarts + (IF k \in processed THEN 1 ELSE 0)
            /\ restarts \in Nat /\ restarts' = restarts /\ Cardinality(Processed(k)) \in Nat
        BY <1>2, ProcessedFinite DEF WebhookInv, ServerInv
      <4>4. CASE k = Key(r)
        <5>1. Processed(k)' \subseteq Processed(k) \cup {r}
          BY <2>4 DEF Processed, Moves, Key
        <5>2. IsFiniteSet(Processed(k) \cup {r}) /\ Cardinality(Processed(k) \cup {r}) <= Cardinality(Processed(k)) + 1
          BY <4>3, ProcessedFinite, FS_AddElement
        <5>3. Cardinality(Processed(k)') <= Cardinality(Processed(k) \cup {r})
          BY <5>1, <5>2, FS_Subset
        <5>4. Cardinality(Processed(k)') \in Nat /\ Cardinality(Processed(k) \cup {r}) \in Nat
          BY <5>1, <5>2, FS_Subset, FS_CardinalityType
        <5>5. QED
          BY <3>1, <4>1, <4>3, <4>4, <5>2, <5>3, <5>4
      <4>5. CASE k # Key(r)
        <5>1. Processed(k)' \subseteq Processed(k)
          BY <2>4, <4>5 DEF Processed, Moves, Key
        <5>2. Cardinality(Processed(k)') <= Cardinality(Processed(k)) /\ Cardinality(Processed(k)') \in Nat
          BY <5>1, ProcessedFinite
        <5>3. QED
          BY <4>1, <4>3, <4>5, <5>2
      <4>6. QED
        BY <4>4, <4>5
    <3>2. CASE ~(call[r].signed /\ Key(r) \notin processed)
      <4>1. UNCHANGED processed /\ pc'[r] = "refused"
        BY <2>4, <3>2, AnswerFacts DEF ValidateWebhook
      <4>2. QED
        BY <1>2, <2>4, <4>1, ProcessedKept, WebhookKept
    <3>3. QED
      BY <3>1, <3>2
  <2>5. CASE ProviderStep(r) /\ UNCHANGED call /\ Moves(r)
    <3>1. CASE FindConfig(r) \/ UpsertConfig(r) \/ UpdateConfig(r) \/ TestConnection(r) \/ AuditProvider(r)
      <4>1. UNCHANGED processed /\ call[r].op # "webhook"
        BY <3>1 DEF FindConfig, UpsertConfig, UpdateConfig, TestConnection, AuditProvider, At, integrations
      <4>2. QED
        BY <2>2, <2>5, <4>1
    <3>2. QED
      BY <2>3, <2>4, <2>5, <3>1 DEF ProviderStep
  <2>6. QED
    <3>1. \A op \in ShopOps \cup TailorOps \cup QuoteOps \cup TeamOps \cup OtpOps \cup AccountOps : op # "webhook"
      BY DEF ShopOps, TailorOps, QuoteOps, TeamOps, OtpOps, AccountOps, Settings
    <3>2. QED
      BY <1>2, <2>1, <2>2, <2>5, <3>1, RequestCases DEF integrations
<1>3. CASE Restart
  <2>1. /\ UNCHANGED call /\ restarts' = restarts + 1 /\ processed' = {}
        /\ \A r \in Requests : IF r \in InFlight THEN pc'[r] = "failed" ELSE pc'[r] = pc[r]
    BY <1>3, RestartFacts
  <2>2. SUFFICES ASSUME NEW k \in Supported \X Events
                 PROVE  Cardinality(Processed(k)') <= restarts' + (IF k \in processed' THEN 1 ELSE 0)
    BY DEF WebhookInv
  <2>3. Processed(k)' \subseteq Processed(k)
    BY <2>1 DEF Processed, Key
  <2>4. /\ Cardinality(Processed(k)') <= Cardinality(Processed(k)) /\ Cardinality(Processed(k)') \in Nat
        /\ Cardinality(Processed(k)) \in Nat
    BY <2>3, ProcessedFinite
  <2>5. Cardinality(Processed(k)) <= restarts + (IF k \in processed THEN 1 ELSE 0) /\ restarts \in Nat
    BY DEF WebhookInv, ServerInv
  <2>6. QED
    BY <2>1, <2>4, <2>5
<1>4. QED
  BY <1>1, <1>2, <1>3 DEF Next, vars, Clock, integrations

(* processedWebhooks (payment-provider.service.ts:388): one notice of a    *)
(* transaction is processed, and one more after each restart, for any      *)
(* number of requests and in every order of their steps.                   *)
THEOREM NoticesProcessedOnce == Spec => []WebhookOnce
<1>1. ServerInv /\ WebhookInv => WebhookOnce
  <2> SUFFICES ASSUME ServerInv, WebhookInv, NEW k \in Supported \X Events
               PROVE  Cardinality(Processed(k)) <= 1 + restarts
    BY DEF WebhookOnce
  <2>1. Cardinality(Processed(k)) <= restarts + (IF k \in processed THEN 1 ELSE 0) /\ restarts \in Nat
    BY DEF WebhookInv, ServerInv
  <2>2. Cardinality(Processed(k)) \in Nat
    BY ProcessedFinite
  <2>3. QED
    BY <2>1, <2>2
<1>2. Init => ServerInv /\ WebhookInv
  BY ServerStart, WebhookStart
<1>3. ServerInv /\ WebhookInv /\ [Next]_vars => (ServerInv /\ WebhookInv)'
  BY ServerStep, WebhookStep
<1>4. QED
  BY <1>1, <1>2, <1>3, PTL DEF Spec

-----------------------------------------------------------------------------
(* One-time codes.  A code is named after the request that sent it; until  *)
(* it is sent, nobody can have it on file or have it accepted.             *)
Sent(c) == call[c].op \in {"sendSms", "registerInit"} /\ pc[c] \notin {"idle", "start", "phone", "store"}

OnFileOrAccepted(c) ==
  \/ \E a \in DOMAIN otps : otps[a].code = c
  \/ \E r \in Requests : Accepted(r) /\ call[r].code = c

OtpInv ==
  /\ OtpTypeOK /\ OtpOnce
  /\ \A a, b \in DOMAIN otps : otps[a].code = otps[b].code => a = b
  /\ \A c \in Requests : OnFileOrAccepted(c) => Sent(c)

LEMMA OtpKept ==
  ASSUME OtpInv, OtpTypeOK',
         \A a \in DOMAIN otps' : a \in DOMAIN otps /\ otps'[a].code = otps[a].code,
         \A s \in Requests : Accepted(s)' => Accepted(s) /\ call'[s].code = call[s].code,
         \A s \in Requests : Sent(s) => Sent(s)'
  PROVE  OtpInv'
<1>1. OtpOnce'
  BY DEF OtpInv, OtpOnce
<1>2. (\A a, b \in DOMAIN otps : otps[a].code = otps[b].code => a = b)'
  BY DEF OtpInv
<1>3. \A c \in Requests : OnFileOrAccepted(c)' => OnFileOrAccepted(c)
  BY DEF OnFileOrAccepted
<1>4. QED
  BY <1>1, <1>2, <1>3 DEF OtpInv

LEMMA OtpRowsKept ==
  ASSUME OtpInv, UNCHANGED otps,
         \A s \in Requests : Accepted(s)' => Accepted(s) /\ call'[s].code = call[s].code,
         \A s \in Requests : Sent(s) => Sent(s)'
  PROVE  OtpInv'
<1>1. OtpTypeOK'
  BY DEF OtpInv, OtpTypeOK
<1>2. QED
  BY <1>1, OtpKept

LEMMA OtpOther ==
  ASSUME ServerInv, OtpInv, UNCHANGED <<call, otps>>, NEW r \in Requests, Moves(r),
         call[r].op \notin OtpOps \cup {"registerInit", "registerConfirm"}
  PROVE  OtpInv'
BY OtpRowsKept DEF Moves, Accepted, Sent, OtpOps

(* A refusal, whatever it does to the address it was about.                *)
LEMMA OtpRefused ==
  ASSUME ServerInv, OtpInv, OtpTypeOK', UNCHANGED call, NEW r \in Requests, Refuse(r), r \in InFlight,
         \A a \in DOMAIN otps' : a \in DOMAIN otps /\ otps'[a].code = otps[a].code
  PROVE  OtpInv'
<1>1. pc'[r] = "refused" /\ Moves(r)
  BY AnswerFacts
<1>2. \A s \in Requests : Accepted(s)' => Accepted(s) /\ call'[s].code = call[s].code
  BY <1>1 DEF Moves, Accepted
<1>3. \A s \in Requests : Sent(s) => Sent(s)'
  BY <1>1 DEF Moves, Sent
<1>4. QED
  BY <1>2, <1>3, OtpKept

LEMMA OtpSent ==
  ASSUME ServerInv, OtpInv, UNCHANGED call, NEW r \in Requests, NEW a, SendOtp(r, a), r \in InFlight,
         call[r].op \in {"sendSms", "registerInit"}, ~Sent(r)
  PROVE  OtpInv'
<1>1. CASE a \in DOMAIN otps /\ otps[a].recent
  <2>1. Refuse(r) /\ UNCHANGED otps
    BY <1>1 DEF SendOtp
  <2>2. OtpTypeOK'
    BY <2>1 DEF OtpInv, OtpTypeOK
  <2>3. QED
    BY <2>1, <2>2, OtpRefused
<1>2. CASE ~(a \in DOMAIN otps /\ otps[a].recent)
  <2>1. /\ pc'[r] = "send" /\ Moves(r)
        /\ otps' = Put(otps, a, [code |-> r, attempts |-> 0, recent |-> TRUE, expired |-> FALSE])
    BY <1>2, GotoFacts DEF SendOtp
  <2>2. /\ DOMAIN otps' = DOMAIN otps \cup {a}
        /\ otps'[a] = [code |-> r, attempts |-> 0, recent |-> TRUE, expired |-> FALSE]
        /\ \A b \in DOMAIN otps \ {a} : otps'[b] = otps[b]
    BY <2>1 DEF Put
  <2>3. ~OnFileOrAccepted(r)
    BY DEF OtpInv
  <2>4. \A s \in Requests : (Accepted(s)' <=> Accepted(s)) /\ (Sent(s) => Sent(s)')
    BY <2>1 DEF Moves, Accepted, Sent
  <2>5. Sent(r)'
    BY <2>1 DEF Sent
  <2>6. OtpTypeOK'
    <3>1. [code |-> r, attempts |-> 0, recent |-> TRUE, expired |-> FALSE] \in OtpRecord
      BY DEF OtpRecord, MaxAttempts
    <3>2. QED
      BY <2>1, <3>1 DEF OtpInv, OtpTypeOK, Put
  <2>7. OtpOnce'
    <3>1. \A s \in Requests : Accepted(s) => call[s].code # r
      BY <2>3 DEF OnFileOrAccepted
    <3>2. QED
      BY <2>2, <2>4, <3>1 DEF OtpInv, OtpOnce
  <2>8. (\A b, c \in DOMAIN otps : otps[b].code = otps[c].code => b = c)'
    BY <2>2, <2>3 DEF OtpInv, OnFileOrAccepted
  <2>9. \A c \in Requests \ {r} : OnFileOrAccepted(c)' => OnFileOrAccepted(c)
    BY <2>2, <2>4 DEF OnFileOrAccepted
  <2>10. QED
    BY <2>4, <2>5, <2>6, <2>7, <2>8, <2>9 DEF OtpInv
<1>3. QED
  BY <1>1, <1>2

LEMMA OtpVerified ==
  ASSUME ServerInv, OtpInv, UNCHANGED call, NEW r \in Requests, NEW a, NEW l \in {"audit", "pending"},
         VerifyOtp(r, a, l), r \in InFlight, ~Accepted(r),
         \/ call[r].op = "verifySms" /\ l = "audit"
         \/ call[r].op = "registerConfirm" /\ l = "pending"
  PROVE  OtpInv'
<1>1. CASE a \notin DOMAIN otps
  <2>1. Refuse(r) /\ UNCHANGED otps
    BY <1>1 DEF VerifyOtp
  <2>2. OtpTypeOK'
    BY <2>1 DEF OtpInv, OtpTypeOK
  <2>3. QED
    BY <2>1, <2>2, OtpRefused
<1>2. CASE a \in DOMAIN otps /\ (otps[a].expired \/ otps[a].attempts >= MaxAttempts)
  <2>1. Refuse(r) /\ otps' = Without(otps, a)
    BY <1>2 DEF VerifyOtp
  <2>2. OtpTypeOK'
    BY <2>1 DEF OtpInv, OtpTypeOK, Without
  <2>3. \A b \in DOMAIN otps' : b \in DOMAIN otps /\ otps'[b].code = otps[b].code
    BY <2>1 DEF Without
  <2>4. QED
    BY <2>1, <2>2, <2>3, OtpRefused
<1>3. CASE /\ a \in DOMAIN otps /\ ~(otps[a].expired \/ otps[a].attempts >= MaxAttempts)
           /\ call[r].code # otps[a].code
  <2>1. Refuse(r) /\ otps' = [otps EXCEPT ![a].attempts = @ + 1]
    BY <1>3 DEF VerifyOtp
  <2>2. otps \in [DOMAIN otps -> OtpRecord] /\ otps[a] \in OtpRecord
    BY <1>3 DEF OtpInv, OtpTypeOK
  <2>3. otps[a].attempts \in 0..MaxAttempts /\ otps[a].attempts + 1 \in 0..MaxAttempts
    BY <1>3, <2>2 DEF OtpRecord, MaxAttempts
  <2>4. [otps[a] EXCEPT !.attempts = @ + 1] \in OtpRecord /\ [otps[a] EXCEPT !.attempts = @ + 1].code = otps[a].code
    BY <2>2, <2>3 DEF OtpRecord
  <2>5. otps' = [otps EXCEPT ![a] = [otps[a] EXCEPT !.attempts = @ + 1]]
    BY <2>1
  <2>6. OtpTypeOK'
    BY <2>2, <2>4, <2>5 DEF OtpTypeOK
  <2>7. \A b \in DOMAIN otps' : b \in DOMAIN otps /\ otps'[b].code = otps[b].code
    BY <2>4, <2>5
  <2>8. QED
    BY <2>1, <2>6, <2>7, OtpRefused
<1>4. CASE /\ a \in DOMAIN otps /\ ~(otps[a].expired \/ otps[a].attempts >= MaxAttempts)
           /\ call[r].code = otps[a].code
  <2>1. pc'[r] = l /\ Moves(r) /\ otps' = Without(otps, a)
    BY <1>4, GotoFacts DEF VerifyOtp, Spent
  <2>2. DOMAIN otps' = DOMAIN otps \ {a} /\ \A b \in DOMAIN otps' : otps'[b] = otps[b]
    BY <2>1 DEF Without
  <2>3. \A s \in Requests : s # r => (Accepted(s)' <=> Accepted(s))
    BY <2>1 DEF Moves, Accepted
  <2>4. \A s \in Requests : Sent(s) => Sent(s)'
    BY <2>1 DEF Moves, Sent
  <2>5. OtpTypeOK'
    BY <2>1 DEF OtpInv, OtpTypeOK, Without
  <2>6. \A s \in Requests : Accepted(s) => call[s].code # call[r].code
    BY <1>4 DEF OtpInv, OtpOnce
  <2>7. \A b \in DOMAIN otps' : otps'[b].code # call[r].code
    BY <1>4, <2>2 DEF OtpInv
  <2>8. OtpOnce'
    BY <2>2, <2>3, <2>6, <2>7 DEF OtpInv, OtpOnce
  <2>9. (\A b, c \in DOMAIN otps : otps[b].code = otps[c].code => b = c)'
    BY <2>2 DEF OtpInv
  <2>10. \A c \in Requests : OnFileOrAccepted(c)' => OnFileOrAccepted(c)
    BY <1>4, <2>2, <2>3 DEF OnFileOrAccepted
  <2>11. QED
    BY <2>4, <2>5, <2>8, <2>9, <2>10 DEF OtpInv
<1>5. QED
  BY <1>1, <1>2, <1>3, <1>4

LEMMA OtpStart == Init => OtpInv
<1> SUFFICES ASSUME Init PROVE OtpInv
  OBVIOUS
<1>1. otps = OldOtps /\ \A r \in Requests : ~Accepted(r)
  BY DEF Init, AccountsInit, OtpInit, ServerInit, NoCall, Accepted
<1>2. \A a \in DOMAIN otps : otps[a].code \in OldCodes
  BY <1>1 DEF OldCodes
<1>3. \A c \in Requests : ~OnFileOrAccepted(c)
  BY <1>1, <1>2, OtpAssumption DEF OnFileOrAccepted
<1>4. QED
  BY <1>1, <1>3, OtpAssumption DEF OtpInv, OtpTypeOK, OtpOnce

LEMMA OtpServed ==
  ASSUME ServerInv, OtpInv, NEW r \in Requests, Request(r)
  PROVE  OtpInv'
<1>1. CASE Arrive(r) /\ UNCHANGED tables
  <2>1. /\ Moves(r) /\ pc[r] = "idle" /\ pc'[r] = "start" /\ UNCHANGED otps
        /\ \A s \in Requests \ {r} : call'[s] = call[s]
    BY <1>1, ArriveFacts DEF tables, accounts
  <2>2. QED
    BY <2>1, OtpRowsKept DEF Moves, Accepted, Sent
<1>2. CASE Fail(r) /\ UNCHANGED tables
  <2>1. Moves(r) /\ r \in InFlight /\ pc'[r] = "failed" /\ UNCHANGED <<call, otps>>
    BY <1>2, FailFacts DEF tables, accounts
  <2>2. QED
    BY <2>1, OtpRowsKept DEF Moves, Accepted, Sent
<1>3. CASE UNCHANGED <<call, otps>> /\ Moves(r) /\ call[r].op \in ShopOps \cup TailorOps \cup QuoteOps \cup TeamOps \cup ProviderOps
  BY <1>3, OtpOther DEF ShopOps, TailorOps, QuoteOps, TeamOps, ProviderOps, OtpOps
<1>4. CASE UNCHANGED call /\ Moves(r) /\ r \in InFlight /\ OtpStep(r)
  <2>1. CASE SendSms(r)
    BY <1>4, <2>1, OtpSent DEF SendSms, At, Sent
  <2>2. CASE VerifySms(r)
    BY <1>4, <2>2, OtpVerified DEF VerifySms, At, Accepted
  <2>3. CASE DeliverSms(r) \/ AuditSms(r)
    <3>1. UNCHANGED otps /\ pc[r] \in {"send", "audit"} /\ call[r].op \in OtpOps
      BY <2>3 DEF DeliverSms, AuditSms, At, OtpOps
    <3>2. pc'[r] = (IF pc[r] = "send" THEN "audit" ELSE "done") /\ (pc[r] = "send" => call[r].op = "sendSms")
      BY <2>3, GotoFacts, AnswerFacts DEF DeliverSms, AuditSms, At
    <3>3. \A s \in Requests : Accepted(s)' => Accepted(s) /\ call'[s].code = call[s].code
      BY <1>4, <3>1, <3>2 DEF Moves, Accepted, OtpOps
    <3>4. \A s \in Requests : Sent(s) => Sent(s)'
      BY <1>4, <3>2 DEF Moves, Sent
    <3>5. QED
      BY <3>1, <3>3, <3>4, OtpRowsKept
  <2>4. QED
    BY <1>4, <2>1, <2>2, <2>3 DEF OtpStep
<1>5. CASE UNCHANGED call /\ Moves(r) /\ r \in InFlight /\ AccountStep(r)
  <2>1. CASE InitEmail(r) \/ InitPhone(r) \/ SendCode(r)
    <3>1. /\ UNCHANGED otps /\ call[r].op = "registerInit"
          /\ \/ ~Sent(r)
             \/ pc'[r] = "done"
      BY <2>1, AnswerFacts DEF InitEmail, InitPhone, SendCode, At, Sent, accounts
    <3>2. QED
      BY <1>5, <3>1, OtpRowsKept DEF Moves, Accepted, Sent
  <2>2. CASE StoreRegistration(r)
    BY <1>5, <2>2, OtpSent DEF StoreRegistration, At, Sent
  <2>3. CASE ConfirmCode(r)
    BY <1>5, <2>3, OtpVerified DEF ConfirmCode, At, Accepted
  <2>4. CASE TakeRegistration(r) \/ CountSpaces(r) \/ CreateSpace(r)
    <3>1. UNCHANGED otps /\ call[r].op = "registerConfirm" /\ Accepted(r)
      BY <2>4 DEF TakeRegistration, CountSpaces, CreateSpace, At, Accepted, accounts
    <3>2. QED
      BY <1>5, <3>1, OtpRowsKept DEF Moves, Accepted, Sent
  <2>5. CASE Login(r) \/ OpenSession(r) \/ CheckTotp(r) \/ RefuseTotp(r) \/ AcceptTotp(r) \/ FindSelf(r) \/ SaveSelf(r)
    <3>1. UNCHANGED otps
      BY <2>5 DEF Login, OpenSession, CheckTotp, RefuseTotp, AcceptTotp, FindSelf, SaveSelf, accounts
    <3>2. call[r].op \in {"login", "verifyTotp"} \cup Settings
      BY <2>5 DEF Login, OpenSession, CheckTotp, RefuseTotp, AcceptTotp, FindSelf, SaveSelf, At
    <3>3. QED
      BY <1>5, <3>1, <3>2, OtpOther DEF Settings, OtpOps
  <2>6. QED
    BY <1>5, <2>1, <2>2, <2>3, <2>4, <2>5 DEF AccountStep
<1>6. QED
  BY <1>1, <1>2, <1>3, <1>4, <1>5, RequestCases DEF accounts

LEMMA OtpStepKept ==
  ASSUME ServerInv, OtpInv, [Next]_vars
  PROVE  OtpInv'
<1>1. CASE UNCHANGED <<pc, call, otps>>
  BY <1>1, OtpRowsKept DEF Accepted, Sent
<1>2. ASSUME NEW r \in Requests, Request(r) PROVE OtpInv'
  BY <1>2, OtpServed
<1>3. CASE Clock
  <2>1. UNCHANGED <<pc, call>>
    BY <1>3 DEF Clock, serverVars
  <2>2. CASE UNCHANGED otps
    BY <1>1, <2>1, <2>2
  <2>3. ASSUME NEW a \in DOMAIN otps, CodeAges(a) PROVE OtpInv'
    <3>1. PICK f \in {"recent", "expired"}, b \in BOOLEAN : otps' = [otps EXCEPT ![a] = [otps[a] EXCEPT ![f] = b]]
      BY <2>3 DEF CodeAges
    <3>2. otps \in [DOMAIN otps -> OtpRecord] /\ otps[a] \in OtpRecord
      BY <2>3 DEF OtpInv, OtpTypeOK
    <3>3. [otps[a] EXCEPT ![f] = b] \in OtpRecord /\ [otps[a] EXCEPT ![f] = b].code = otps[a].code
      BY <3>2 DEF OtpRecord
    <3>4. OtpTypeOK' /\ \A c \in DOMAIN otps' : c \in DOMAIN otps /\ otps'[c].code = otps[c].code
      BY <3>1, <3>2, <3>3 DEF OtpTypeOK
    <3>5. QED
      BY <2>1, <3>4, OtpKept DEF Accepted, Sent
  <2>4. QED
    BY <1>3, <2>2, <2>3 DEF Clock
<1>4. CASE Restart
  <2>1. /\ UNCHANGED call /\ otps' = Empty
        /\ \A r \in Requests : IF r \in InFlight THEN pc'[r] = "failed" ELSE pc'[r] = pc[r]
    BY <1>4, RestartFacts
  <2>2. OtpTypeOK' /\ DOMAIN otps' = {}
    BY <2>1 DEF OtpTypeOK, Empty
  <2>3. QED
    BY <2>1, <2>2, OtpKept DEF Accepted, Sent, InFlight
<1>5. QED
  BY <1>1, <1>2, <1>3, <1>4 DEF Next, vars, serverVars, accounts

(* 'Usage unique' (email-otp.service.ts:108, sms-otp.service.ts:188): no   *)
(* interleaving of verifications, resends, failures and restarts has one   *)
(* code accepted twice, or keeps it on file once it was accepted.          *)
THEOREM CodesAcceptedOnce == Spec => []OtpOnce
<1>1. OtpInv => OtpOnce
  BY DEF OtpInv
<1>2. Init => ServerInv /\ OtpInv
  BY ServerStart, OtpStart
<1>3. ServerInv /\ OtpInv /\ [Next]_vars => (ServerInv /\ OtpInv)'
  BY ServerStep, OtpStepKept
<1>4. QED
  BY <1>1, <1>2, <1>3, PTL DEF Spec

-----------------------------------------------------------------------------
(* The parts of module Office that share the shelf.                        *)
PurchaseOps  == {"createPurchase", "updatePurchase", "receivePurchase", "deletePurchase"}
InventoryOps == {"createSession", "countLine", "completeSession", "applySession"}
TicketOps    == {"createTicket", "ticketStatus", "convertTicket"}
DepotOps     == {"createDepot", "updateDepot", "removeDepot"}

(* Which requests take which steps.                                        *)
LEMMA StepKinds ==
  ASSUME NEW r
  PROVE  /\ PurchaseStep(r) => call[r].op \in PurchaseOps
         /\ InventoryStep(r) => call[r].op \in InventoryOps
         /\ TicketStep(r) => call[r].op \in TicketOps
         /\ DepotStep(r) => call[r].op \in DepotOps
         /\ FindItem(r) \/ RemoveItem(r) => call[r].op = "removeItem"
<1>1. PurchaseStep(r) => call[r].op \in PurchaseOps
  BY DEF PurchaseStep, CreatePurchase, FindPurchase, UpdatePurchase, DeletePurchase, MarkReceived,
         FindReceivedItem, JournalReceipt, StoreReceipt, At, PurchaseOps
<1>2. InventoryStep(r) => call[r].op \in InventoryOps
  BY DEF InventoryStep, CountShelf, CreateSession, FindSession, FindLine, CountLine, CompleteSession,
         JournalAdjustment, StoreCount, SetAdjusted, At, InventoryOps
<1>3. TicketStep(r) => call[r].op \in TicketOps
  BY DEF TicketStep, CountTickets, CreateTicket, FindTicket, CheckPart, DecrementPart, JournalPart, AttachPart,
         UpdateTicket, CommitParts, FindImpossible, MarkConverted, CreateRefurbished, JournalRefurbished, At, TicketOps
<1>4. DepotStep(r) => call[r].op \in DepotOps
  BY DEF DepotStep, FindDepot, ClearMain, CreateDepot, UpdateDepot, RemoveDepot, At, DepotOps
<1>5. FindItem(r) \/ RemoveItem(r) => call[r].op = "removeItem"
  BY DEF FindItem, RemoveItem, At
<1>6. QED
  BY <1>1, <1>2, <1>3, <1>4, <1>5

(* A request of another module is none of the shop's.                      *)
LEMMA NotShop == \A op \in TailorOps \cup QuoteOps \cup TeamOps \cup OtpOps \cup AccountOps \cup ProviderOps :
                   op \notin ShopOps
BY DEF ShopOps, TailorOps, QuoteOps, TeamOps, OtpOps, AccountOps, Settings, ProviderOps

-----------------------------------------------------------------------------
(* Parts of tickets.  PartsBacked is not inductive: a part is written at   *)
(* the end of its transaction, from rows whose movements were journaled    *)
(* before; an article deleted in between takes its movements along, and    *)
(* an article of that name must not come back.                             *)
Backed(p) ==
  \E m \in movements : /\ m.by = p.by /\ m.n = p.n /\ m.doc = p.ticket /\ m.item = p.item
                       /\ m.type = "OUT" /\ m.quantity = p.quantity

(* The article is or was on file.                                          *)
Made(i) ==
  \/ i \in DOMAIN Opening
  \/ i \in Requests /\ call[i].op = "convertTicket" /\ pc[i] \in {"journal", "done", "refused", "failed"}

PartSteps == {"part", "decrement", "journal", "attach", "update", "commit"}
PartRow(r) == [by |-> r, ticket |-> call[r].id, n |-> seen[r].n,
               item |-> Part(r).item, quantity |-> Part(r).quantity]

RowsBacked(r) ==
  call[r].op = "ticketStatus" =>
    /\ pc[r] \in PartSteps => \A p \in seen[r].rows : Backed(p)
    /\ pc[r] = "attach" => /\ Made(Part(r).item)
                           /\ Part(r).item \in DOMAIN stock => Backed(PartRow(r))

PartsInv ==
  /\ PartsBacked
  /\ \A i \in DOMAIN stock : Made(i)
  /\ \A r \in Requests : RowsBacked(r)

(* What keeps the rows of a request backed while another one moves.        *)
LEMMA RowsKept ==
  ASSUME movements \subseteq movements', DOMAIN stock' \subseteq DOMAIN stock,
         \A i : Made(i) => Made(i)',
         NEW r \in Requests, RowsBacked(r), pc'[r] = pc[r], call'[r] = call[r], seen'[r] = seen[r]
  PROVE  RowsBacked(r)'
BY DEF RowsBacked, Backed, PartRow, Part

LEMMA BackedKept ==
  ASSUME movements \subseteq movements', NEW p
  PROVE  Backed(p) => Backed(p)'
BY DEF Backed

LEMMA PartsKept ==
  ASSUME PartsInv, UNCHANGED parts, movements \subseteq movements',
         DOMAIN stock' \subseteq DOMAIN stock, \A i : Made(i) => Made(i)',
         \A r \in Requests : RowsBacked(r)'
  PROVE  PartsInv'
BY DEF PartsInv, PartsBacked

(* A request of another kind, whatever it does to the shelf.               *)
LEMMA PartsOther ==
  ASSUME ServerInv, PartsInv, UNCHANGED <<call, parts>>, movements \subseteq movements',
         DOMAIN stock' = DOMAIN stock, NEW r \in Requests, Moves(r),
         call[r].op \notin {"ticketStatus", "convertTicket"}
  PROVE  PartsInv'
<1>1. \A i : Made(i) => Made(i)'
  BY DEF Made, Moves
<1>2. \A s \in Requests \ {r} : RowsBacked(s)'
  BY <1>1, RowsKept DEF PartsInv, Moves
<1>3. RowsBacked(r)'
  BY DEF RowsBacked
<1>4. QED
  BY <1>1, <1>2, <1>3, PartsKept

(* A step of a ticket that keeps its rows, or has none.                    *)
LEMMA PartsTicket ==
  ASSUME ServerInv, PartsInv, UNCHANGED <<call, parts>>, movements \subseteq movements',
         DOMAIN stock' = DOMAIN stock, NEW r \in Requests, Moves(r),
         call[r].op \in {"ticketStatus", "convertTicket"},
         call[r].op = "convertTicket" /\ pc[r] = "journal" => pc'[r] \in {"done", "refused", "failed"},
         r \in InFlight,
         RowsBacked(r)'
  PROVE  PartsInv'
<1>1. \A i : Made(i) => Made(i)'
  BY DEF Made, Moves, InFlight, Ended
<1>2. \A s \in Requests \ {r} : RowsBacked(s)'
  BY <1>1, RowsKept DEF PartsInv, Moves
<1>3. QED
  BY <1>1, <1>2, PartsKept

LEMMA PartsStart == Init => PartsInv
BY ShelfAssumption DEF Init, ShopInit, ShelfInit, TicketsInit, ServerInit, NoCall, PartsInv, PartsBacked, Made, RowsBacked

LEMMA TicketStepParts ==
  ASSUME ServerInv, PartsInv, NEW r \in Requests, TicketStep(r), UNCHANGED call
  PROVE  PartsInv'
<1>0. Moves(r) /\ r \in InFlight
  BY TicketMoves
<1>a. \A i : Made(i) => Made(i)' \/ (i = r /\ call[r].op = "convertTicket")
  BY <1>0 DEF Made, Moves
<1>1. CASE CountTickets(r) \/ CreateTicket(r)
  <2>1. UNCHANGED <<parts, shelf>> /\ call[r].op = "createTicket"
    BY <1>1 DEF CountTickets, CreateTicket, At, repairs
  <2>2. QED
    BY <1>0, <2>1, PartsOther DEF shelf
<1>2. CASE FindTicket(r)
  <2>1. call[r].op = "ticketStatus" /\ UNCHANGED <<parts, shelf>>
    BY <1>2 DEF FindTicket, At, repairs
  <2>2. \/ pc'[r] = "refused"
        \/ pc'[r] \in {"part", "update"} /\ seen'[r] = [n |-> 1, rows |-> {}]
    BY <1>2, KeepFacts, AnswerFacts DEF FindTicket
  <2>3. RowsBacked(r)'
    BY <2>2 DEF RowsBacked, PartSteps
  <2>4. QED
    BY <1>0, <2>1, <2>3, PartsTicket DEF shelf
<1>3. CASE CheckPart(r) \/ DecrementPart(r)
  <2>1. call[r].op = "ticketStatus" /\ UNCHANGED <<parts, movements>> /\ DOMAIN stock' = DOMAIN stock /\ pc[r] \in PartSteps
    BY <1>3 DEF CheckPart, DecrementPart, At, repairs, shelf, PartSteps
  <2>2. \/ pc'[r] = "refused"
        \/ pc'[r] \in {"decrement", "journal"} /\ UNCHANGED seen
    BY <1>3, GotoFacts, AnswerFacts DEF CheckPart, DecrementPart
  <2>3. RowsBacked(r)'
    BY <2>1, <2>2, BackedKept DEF RowsBacked, PartSteps, PartsInv
  <2>4. QED
    BY <1>0, <2>1, <2>3, PartsTicket
<1>4. CASE JournalPart(r)
  <2>1. /\ call[r].op = "ticketStatus" /\ UNCHANGED <<parts, stock>> /\ pc[r] \in PartSteps
        /\ movements \subseteq movements'
    BY <1>4 DEF JournalPart, At, repairs, PartSteps, Journaled
  <2>2. CASE Part(r).item \in DOMAIN stock
    <3>1. /\ pc'[r] = "attach" /\ UNCHANGED seen
          /\ [by |-> r, n |-> seen[r].n, doc |-> call[r].id, item |-> Part(r).item, type |-> "OUT",
              quantity |-> Part(r).quantity] \in movements'
      BY <1>4, <2>2, GotoFacts DEF JournalPart, Journaled
    <3>2. Part(r)' = Part(r) /\ PartRow(r)' = PartRow(r)
      BY <3>1 DEF Part, PartRow
    <3>3. Backed(PartRow(r))'
      BY <3>1, <3>2 DEF Backed, PartRow
    <3>4. \A i : Made(i) => Made(i)'
      BY <1>a, <2>1
    <3>5. RowsBacked(r)'
      <4>1. Made(Part(r).item)
        BY <2>2 DEF PartsInv
      <4>2. \A p \in seen[r].rows : Backed(p)'
        BY <2>1, BackedKept DEF RowsBacked, PartsInv
      <4>3. QED
        BY <2>1, <3>1, <3>2, <3>3, <3>4, <4>1, <4>2 DEF RowsBacked
    <3>6. QED
      BY <1>0, <2>1, <3>5, PartsTicket
  <2>3. CASE Part(r).item \notin DOMAIN stock
    <3>1. pc'[r] = "refused"
      BY <1>4, <2>3, AnswerFacts DEF JournalPart
    <3>2. RowsBacked(r)'
      BY <3>1 DEF RowsBacked, PartSteps
    <3>3. QED
      BY <1>0, <2>1, <3>2, PartsTicket
  <2>4. QED
    BY <2>2, <2>3
<1>5. CASE AttachPart(r)
  <2>1. call[r].op = "ticketStatus" /\ pc[r] = "attach" /\ UNCHANGED <<parts, shelf>>
    BY <1>5 DEF AttachPart, At, repairs
  <2>2. CASE Part(r).item \in DOMAIN stock
    <3>1. /\ pc'[r] \in {"part", "update"}
          /\ seen'[r] = [n |-> seen[r].n + 1, rows |-> seen[r].rows \cup {PartRow(r)}]
      BY <1>5, <2>2, KeepFacts DEF AttachPart, PartRow
    <3>2. Backed(PartRow(r)) /\ \A p \in seen[r].rows : Backed(p)
      BY <2>1, <2>2 DEF PartsInv, RowsBacked, PartSteps
    <3>3. \A p \in seen'[r].rows : Backed(p)'
      BY <2>1, <3>1, <3>2, BackedKept DEF shelf
    <3>4. RowsBacked(r)'
      BY <3>1, <3>3 DEF RowsBacked
    <3>5. QED
      BY <1>0, <2>1, <3>4, PartsTicket DEF shelf
  <2>3. CASE Part(r).item \notin DOMAIN stock
    <3>1. pc'[r] = "refused"
      BY <1>5, <2>3, AnswerFacts DEF AttachPart
    <3>2. RowsBacked(r)'
      BY <3>1 DEF RowsBacked, PartSteps
    <3>3. QED
      BY <1>0, <2>1, <3>2, PartsTicket DEF shelf
  <2>4. QED
    BY <2>2, <2>3
<1>6. CASE UpdateTicket(r)
  <2>1. call[r].op = "ticketStatus" /\ UNCHANGED <<parts, shelf>> /\ pc[r] \in PartSteps
    BY <1>6 DEF UpdateTicket, At, PartSteps
  <2>2. pc'[r] = "commit" /\ UNCHANGED seen
    BY <1>6, GotoFacts DEF UpdateTicket
  <2>3. RowsBacked(r)'
    BY <2>1, <2>2, BackedKept DEF RowsBacked, PartsInv, shelf
  <2>4. QED
    BY <1>0, <2>1, <2>3, PartsTicket DEF shelf
<1>7. CASE CommitParts(r)
  <2>1. call[r].op = "ticketStatus" /\ UNCHANGED shelf /\ pc[r] \in PartSteps /\ parts' = parts \cup seen[r].rows
    BY <1>7 DEF CommitParts, At, PartSteps
  <2>2. pc'[r] = "done"
    BY <1>7, AnswerFacts DEF CommitParts
  <2>3. \A i : Made(i) => Made(i)'
    BY <1>a, <2>1
  <2>4. \A p \in parts' : Backed(p)'
    BY <2>1, BackedKept DEF PartsInv, PartsBacked, RowsBacked, Backed, shelf
  <2>5. \A s \in Requests \ {r} : RowsBacked(s)'
    BY <1>0, <2>1, <2>3, RowsKept DEF PartsInv, Moves, shelf
  <2>6. RowsBacked(r)'
    BY <2>2 DEF RowsBacked, PartSteps
  <2>7. QED
    BY <2>1, <2>3, <2>4, <2>5, <2>6 DEF PartsInv, PartsBacked, Backed, shelf
<1>8. CASE FindImpossible(r) \/ MarkConverted(r) \/ JournalRefurbished(r)
  <2>1. /\ call[r].op = "convertTicket" /\ UNCHANGED <<parts, stock>> /\ movements \subseteq movements'
        /\ pc[r] = "journal" => JournalRefurbished(r)
    BY <1>8 DEF FindImpossible, MarkConverted, JournalRefurbished, At, repairs, shelf, Journaled
  <2>2. JournalRefurbished(r) => pc'[r] \in {"done", "refused"}
    BY AnswerFacts DEF JournalRefurbished
  <2>3. RowsBacked(r)'
    BY <2>1 DEF RowsBacked
  <2>4. QED
    BY <1>0, <2>1, <2>2, <2>3, PartsTicket
<1>9. CASE CreateRefurbished(r)
  <2>1. /\ call[r].op = "convertTicket" /\ pc[r] = "article" /\ UNCHANGED <<parts, movements>>
        /\ stock' = Put(stock, r, 1)
    BY <1>9 DEF CreateRefurbished, At, repairs
  <2>2. pc'[r] = "journal" /\ DOMAIN stock' = DOMAIN stock \cup {r}
    BY <1>9, <2>1, GotoFacts DEF CreateRefurbished, Put
  <2>3. ~Made(r)
    BY <2>1, ShelfAssumption DEF Made
  <2>4. Made(r)' /\ \A i : Made(i) => Made(i)'
    BY <1>a, <2>1, <2>2, <2>3 DEF Made
  <2>5. ASSUME NEW s \in Requests PROVE RowsBacked(s)'
    <3>1. CASE s = r
      BY <2>1, <3>1 DEF RowsBacked
    <3>2. CASE s # r
      <4>1. pc'[s] = pc[s] /\ seen'[s] = seen[s] /\ RowsBacked(s)
        BY <1>0, <3>2 DEF Moves, PartsInv
      <4>2. Part(s)' = Part(s) /\ PartRow(s)' = PartRow(s)
        BY <4>1 DEF Part, PartRow
      <4>3. pc[s] = "attach" /\ call[s].op = "ticketStatus" => Part(s).item # r
        BY <2>3, <4>1 DEF RowsBacked
      <4>4. QED
        BY <2>1, <2>2, <2>4, <4>1, <4>2, <4>3, BackedKept DEF RowsBacked
    <3>3. QED
      BY <3>1, <3>2
  <2>6. QED
    BY <2>1, <2>2, <2>4, <2>5 DEF PartsInv, PartsBacked
<1>10. QED
  BY <1>1, <1>2, <1>3, <1>4, <1>5, <1>6, <1>7, <1>8, <1>9 DEF TicketStep

(* The deletion of an article spares those that uncommitted rows refer to. *)
LEMMA RemoveItemParts ==
  ASSUME ServerInv, PartsInv, NEW r \in Requests, RemoveItem(r), UNCHANGED call, Moves(r)
  PROVE  PartsInv'
<1>0. call[r].op = "removeItem"
  BY DEF RemoveItem, At
<1>1. CASE call[r].item \notin DOMAIN stock
  BY <1>0, <1>1, PartsOther DEF RemoveItem
<1>2. CASE call[r].item \in DOMAIN stock
  <2> DEFINE i == call[r].item
  <2>1. /\ ~Pinned(i) /\ stock' = Without(stock, i)
        /\ movements' = {m \in movements : m.item # i} /\ parts' = {p \in parts : p.item # i}
    BY <1>2 DEF RemoveItem
  <2>2. DOMAIN stock' = DOMAIN stock \ {i}
    BY <2>1 DEF Without
  <2>3. \A p : Backed(p) /\ p.item # i => Backed(p)'
    BY <2>1 DEF Backed
  <2>4. \A j : Made(j) => Made(j)'
    BY <1>0 DEF Made, Moves
  <2>5. PartsBacked'
    BY <2>1, <2>3 DEF PartsInv, PartsBacked, Backed
  <2>6. ASSUME NEW s \in Requests PROVE RowsBacked(s)'
    <3>1. CASE s = r
      BY <1>0, <3>1 DEF RowsBacked
    <3>2. CASE s # r
      <4>1. pc'[s] = pc[s] /\ seen'[s] = seen[s] /\ RowsBacked(s)
        BY <3>2 DEF Moves, PartsInv
      <4>2. Part(s)' = Part(s) /\ PartRow(s)' = PartRow(s)
        BY <4>1 DEF Part, PartRow
      <4>3. call[s].op = "ticketStatus" /\ pc[s] \in PartSteps => \A p \in seen[s].rows : p.item # i
        BY <2>1 DEF Pinned, At, PartSteps
      <4>4. PartRow(s).item = Part(s).item
        BY DEF PartRow
      <4>5. QED
        BY <2>2, <2>3, <2>4, <4>1, <4>2, <4>3, <4>4 DEF RowsBacked
    <3>3. QED
      BY <3>1, <3>2
  <2>7. QED
    BY <2>2, <2>4, <2>5, <2>6 DEF PartsInv
<1>3. QED
  BY <1>1, <1>2

LEMMA ShopStepParts ==
  ASSUME ServerInv, PartsInv, NEW r \in Requests, ShopStep(r), UNCHANGED call, Moves(r)
  PROVE  PartsInv'
<1>1. CASE PurchaseStep(r) /\ UNCHANGED <<sessions, repairs, depots>>
  <2>1. CASE CreatePurchase(r) \/ FindPurchase(r) \/ UpdatePurchase(r) \/ DeletePurchase(r)
    <3>1. UNCHANGED shelf /\ call[r].op \notin {"ticketStatus", "convertTicket"}
      BY <2>1 DEF CreatePurchase, FindPurchase, UpdatePurchase, DeletePurchase, At
    <3>2. QED
      BY <1>1, <3>1, PartsOther DEF shelf, repairs
  <2>2. CASE MarkReceived(r) \/ FindReceivedItem(r) \/ JournalReceipt(r) \/ StoreReceipt(r)
    <3>1. /\ movements \subseteq movements' /\ DOMAIN stock' = DOMAIN stock
          /\ call[r].op \notin {"ticketStatus", "convertTicket"}
      BY <2>2 DEF MarkReceived, FindReceivedItem, JournalReceipt, StoreReceipt, At, shelf, Journaled
    <3>2. QED
      BY <1>1, <3>1, PartsOther DEF repairs
  <2>3. QED
    BY <1>1, <2>1, <2>2 DEF PurchaseStep
<1>2. CASE InventoryStep(r) /\ UNCHANGED <<purchases, repairs, depots>>
  <2>1. CASE CountShelf(r) \/ CreateSession(r) \/ FindSession(r) \/ FindLine(r) \/ CountLine(r) \/ CompleteSession(r)
    <3>1. UNCHANGED shelf /\ call[r].op \notin {"ticketStatus", "convertTicket"}
      BY <2>1 DEF CountShelf, CreateSession, FindSession, FindLine, CountLine, CompleteSession, At
    <3>2. QED
      BY <1>2, <3>1, PartsOther DEF shelf, repairs
  <2>2. CASE JournalAdjustment(r) \/ StoreCount(r) \/ SetAdjusted(r)
    <3>1. /\ movements \subseteq movements' /\ DOMAIN stock' = DOMAIN stock
          /\ call[r].op \notin {"ticketStatus", "convertTicket"}
      BY <2>2 DEF JournalAdjustment, StoreCount, SetAdjusted, At, shelf, Journaled
    <3>2. QED
      BY <1>2, <3>1, PartsOther DEF repairs
  <2>3. QED
    BY <1>2, <2>1, <2>2 DEF InventoryStep
<1>3. CASE TicketStep(r)
  BY <1>3, TicketStepParts
<1>4. CASE FindItem(r)
  <2>1. UNCHANGED <<stock, movements, parts>> /\ call[r].op = "removeItem"
    BY <1>4 DEF FindItem, At, shop
  <2>2. QED
    BY <2>1, PartsOther
<1>5. CASE RemoveItem(r)
  BY <1>5, RemoveItemParts
<1>6. CASE DepotStep(r) /\ UNCHANGED shop
  <2>1. call[r].op \notin {"ticketStatus", "convertTicket"}
    BY <1>6 DEF DepotStep, FindDepot, ClearMain, CreateDepot, UpdateDepot, RemoveDepot, At
  <2>2. QED
    BY <1>6, <2>1, PartsOther DEF shop
<1>7. QED
  BY <1>1, <1>2, <1>3, <1>4, <1>5, <1>6 DEF ShopStep

LEMMA PartsServed ==
  ASSUME ServerInv, PartsInv, NEW r \in Requests, Request(r)
  PROVE  PartsInv'
<1>1. CASE (Arrive(r) \/ Fail(r)) /\ UNCHANGED tables
  <2>1. /\ Moves(r) /\ \A s \in Requests \ {r} : call'[s] = call[s]
        /\ \/ pc[r] = "idle" /\ pc'[r] = "start"
           \/ UNCHANGED call /\ r \in InFlight /\ pc'[r] = "failed"
    BY <1>1, ArriveFacts, FailFacts
  <2>2. UNCHANGED <<stock, movements, parts>>
    BY <1>1 DEF tables, shopTables, shop
  <2>3. \A i : Made(i) => Made(i)'
    BY <2>1 DEF Made, Moves, InFlight, Ended
  <2>4. \A s \in Requests \ {r} : RowsBacked(s)'
    BY <2>1, <2>2, <2>3, RowsKept DEF PartsInv, Moves
  <2>5. RowsBacked(r)'
    BY <2>1 DEF RowsBacked, PartSteps
  <2>6. QED
    BY <2>2, <2>3, <2>4, <2>5, PartsKept
<1>2. CASE ShopStep(r) /\ UNCHANGED call /\ Moves(r)
  BY <1>2, ShopStepParts
<1>3. CASE UNCHANGED <<call, shopTables>> /\ Moves(r) /\ call[r].op \notin ShopOps
  BY <1>3, PartsOther DEF shopTables, shop, ShopOps
<1>4. QED
  BY <1>1, <1>2, <1>3, NotShop, RequestCases

LEMMA PartsStepKept ==
  ASSUME ServerInv, PartsInv, [Next]_vars
  PROVE  PartsInv'
<1>1. CASE UNCHANGED <<pc, call, seen, stock, movements, parts>>
  <2>1. \A i : Made(i) => Made(i)'
    BY <1>1 DEF Made
  <2>2. \A s \in Requests : RowsBacked(s)'
    BY <1>1, <2>1, RowsKept DEF PartsInv
  <2>3. QED
    BY <1>1, <2>1, <2>2, PartsKept
<1>2. ASSUME NEW r \in Requests, Request(r) PROVE PartsInv'
  BY <1>2, PartsServed
<1>3. CASE Restart
  <2>1. /\ UNCHANGED <<call, stock, movements, parts>>
        /\ \A r \in Requests : IF r \in InFlight THEN pc'[r] = "failed" ELSE pc'[r] = pc[r]
    BY <1>3, RestartFacts DEF shopTables, shop
  <2>2. \A i : Made(i) => Made(i)'
    BY <2>1 DEF Made, InFlight, Ended
  <2>3. \A s \in Requests : RowsBacked(s)'
    BY <2>1 DEF RowsBacked, PartSteps, InFlight, Ended
  <2>4. QED
    BY <2>1, <2>2, <2>3, PartsKept
<1>4. QED
  BY <1>1, <1>2, <1>3 DEF Next, Clock, vars, serverVars, shopTables, shop

(* it-ticket.service.ts:67-89: however repairs overlap deletions of their  *)
(* articles, other repairs, failures and restarts, a part on file has the  *)
(* movement that took it from the shelf.                                   *)
THEOREM PartsJournaled == Spec => []PartsBacked
<1>1. PartsInv => PartsBacked
  BY DEF PartsInv
<1>2. Init => ServerInv /\ PartsInv
  BY ServerStart, PartsStart
<1>3. ServerInv /\ PartsInv /\ [Next]_vars => (ServerInv /\ PartsInv)'
  BY ServerStep, PartsStepKept
<1>4. QED
  BY <1>1, <1>2, <1>3, PTL DEF Spec

-----------------------------------------------------------------------------
(* Inventory sessions.                                                     *)

(* A line of a session, counted or not.                                    *)
Measured(l) ==
  /\ DOMAIN l = {"system", "counted", "discrepancy"}
  /\ l.discrepancy = IF l.counted = Uncounted THEN 0 ELSE l.counted - l.system

Settled(v) ==
  /\ DOMAIN v = {"status", "adjusted", "lines"}
  /\ v.status = "COMPLETED" => \A i \in DOMAIN v.lines : v.lines[i].counted # Uncounted
  /\ v.adjusted => v.status = "COMPLETED"
  /\ \A i \in DOMAIN v.lines : Measured(v.lines[i])

Created(s) ==
  \/ s \in DOMAIN OldSessions
  \/ s \in Requests /\ call[s].op = "createSession" /\ pc[s] = "done"

(* What a handler knows of its session is still so when it writes.         *)
Knows(r) ==
  /\ call[r].op = "createSession" /\ pc[r] = "write" =>
       \A i \in DOMAIN seen[r].lines : /\ Measured(seen[r].lines[i])
                                       /\ seen[r].lines[i].counted = Uncounted
  /\ call[r].op = "completeSession" /\ pc[r] = "write" =>
       call[r].id \in DOMAIN sessions /\ Counted(call[r].id)
  /\ call[r].op = "applySession" /\ pc[r] \in {"journal", "store"} =>
       call[r].id \in DOMAIN sessions /\ sessions[call[r].id].status = "COMPLETED"

SessionInv ==
  /\ \A s \in DOMAIN sessions : Created(s) /\ Settled(sessions[s])
  /\ \A r \in Requests : Knows(r)

(* No session is deleted, uncounted or opened again.                       *)
Persist ==
  \A s \in DOMAIN sessions :
    /\ s \in DOMAIN sessions'
    /\ Counted(s) => Counted(s)'
    /\ sessions[s].status = "COMPLETED" => sessions'[s].status = "COMPLETED"

(* A row that is written keeps to that.                                    *)
LEMMA PersistWritten ==
  ASSUME NEW s \in DOMAIN sessions, DOMAIN sessions' = DOMAIN sessions,
         \A t \in DOMAIN sessions \ {s} : sessions'[t] = sessions[t],
         DOMAIN sessions'[s].lines = DOMAIN sessions[s].lines,
         \A i \in DOMAIN sessions[s].lines :
           sessions[s].lines[i].counted # Uncounted => sessions'[s].lines[i].counted # Uncounted,
         sessions[s].status = "COMPLETED" => sessions'[s].status = "COMPLETED"
  PROVE  Persist
<1> SUFFICES ASSUME NEW t \in DOMAIN sessions
             PROVE  /\ Counted(t) => Counted(t)'
                    /\ sessions[t].status = "COMPLETED" => sessions'[t].status = "COMPLETED"
  BY DEF Persist
<1>1. CASE t = s
  BY <1>1 DEF Counted, Lines
<1>2. CASE t # s
  <2>1. sessions'[t] = sessions[t]
    BY <1>2
  <2>2. QED
    BY <2>1 DEF Counted, Lines
<1>3. QED
  BY <1>1, <1>2

LEMMA KnowsKept ==
  ASSUME Persist, NEW r \in Requests, Knows(r), pc'[r] = pc[r], call'[r] = call[r], seen'[r] = seen[r]
  PROVE  Knows(r)'
BY DEF Persist, Knows

LEMMA CreatedKept ==
  ASSUME ServerInv, UNCHANGED call, NEW r \in Requests, Moves(r), r \in InFlight
  PROVE  \A s : Created(s) => Created(s)'
BY DEF Created, Moves, InFlight, Ended

LEMMA SessionKept ==
  ASSUME ServerInv, SessionInv, UNCHANGED call, NEW r \in Requests, Moves(r), r \in InFlight, Persist,
         \A s \in DOMAIN sessions' : Created(s)' /\ Settled(sessions'[s]),
         Knows(r)'
  PROVE  SessionInv'
<1>1. \A s \in Requests \ {r} : Knows(s)'
  BY KnowsKept DEF SessionInv, Moves
<1>2. QED
  BY <1>1 DEF SessionInv

LEMMA SessionSame ==
  ASSUME ServerInv, SessionInv, UNCHANGED <<call, sessions>>, NEW r \in Requests, Moves(r), r \in InFlight,
         Knows(r)'
  PROVE  SessionInv'
<1>1. Persist
  BY DEF Persist, Counted, Lines
<1>2. \A s \in DOMAIN sessions' : Created(s)' /\ Settled(sessions'[s])
  BY CreatedKept DEF SessionInv
<1>3. QED
  BY <1>1, <1>2, SessionKept

SessionOps == {"createSession", "completeSession", "applySession"}

LEMMA SessionOther ==
  ASSUME ServerInv, SessionInv, UNCHANGED <<call, sessions>>, NEW r \in Requests, Moves(r), r \in InFlight,
         call[r].op \notin SessionOps
  PROVE  SessionInv'
<1>1. Knows(r)'
  BY DEF Knows, SessionOps
<1>2. QED
  BY <1>1, SessionSame

LEMMA SessionStart == Init => SessionInv
<1> SUFFICES ASSUME Init PROVE SessionInv
  OBVIOUS
<1>1. sessions = OldSessions /\ \A r \in Requests : pc[r] = "idle"
  BY DEF Init, ShopInit, InventoryInit, ServerInit
<1>2. ASSUME NEW s \in DOMAIN OldSessions PROVE Created(s) /\ Settled(OldSessions[s])
  <2>1. /\ DOMAIN OldSessions[s] = {"status", "adjusted", "lines"} /\ ~OldSessions[s].adjusted
        /\ \A i \in DOMAIN OldSessions[s].lines :
             LET l == OldSessions[s].lines[i]
             IN  /\ l \in Sheet
                 /\ l.discrepancy = IF l.counted = Uncounted THEN 0 ELSE l.counted - l.system
                 /\ OldSessions[s].status = "COMPLETED" => l.counted # Uncounted
    BY SessionsAssumption
  <2>2. \A l \in Sheet : DOMAIN l = {"system", "counted", "discrepancy"}
    BY DEF Sheet
  <2>3. QED
    BY <2>1, <2>2 DEF Created, Settled, Measured
<1>3. \A r \in Requests : Knows(r)
  BY <1>1 DEF Knows
<1>4. QED
  BY <1>1, <1>2, <1>3 DEF SessionInv

(* A count is a number.                                                    *)
LEMMA CountsAreNumbers ==
  ASSUME Asking, NEW r \in Requests, call[r].op = "countLine"
  PROVE  call[r].count \in Nat
<1>1. call[r] \in ShopCalls
  BY CallsTyped DEF ShopOps
<1>2. QED
  BY <1>1 DEF ShopCalls, PurchaseCalls, SessionCalls, TicketCalls, DepotCalls

LEMMA WithCountMeasured ==
  ASSUME NEW l, Measured(l), NEW n \in Nat
  PROVE  Measured(WithCount(l, n)) /\ WithCount(l, n).counted # Uncounted
<1>1. /\ DOMAIN WithCount(l, n) = DOMAIN l /\ WithCount(l, n).system = l.system
      /\ WithCount(l, n).counted = n /\ WithCount(l, n).discrepancy = n - l.system
  BY DEF Measured, WithCount
<1>2. QED
  BY <1>1 DEF Measured, Uncounted

LEMMA InventoryStepSettled ==
  ASSUME ServerInv, Asking, SessionInv, NEW r \in Requests, InventoryStep(r), UNCHANGED call
  PROVE  SessionInv'
<1>0. Moves(r) /\ r \in InFlight /\ \A s : Created(s) => Created(s)'
  BY InventoryMoves, CreatedKept
<1>1. CASE CountShelf(r)
  <2>1. /\ call[r].op = "createSession" /\ UNCHANGED sessions
        /\ seen'[r] = [lines |-> [i \in DOMAIN stock |->
                         [system |-> stock[i], counted |-> Uncounted, discrepancy |-> 0]]]
    BY <1>1, KeepFacts DEF CountShelf, At
  <2>2. \A q : Measured([system |-> q, counted |-> Uncounted, discrepancy |-> 0])
    BY DEF Measured
  <2>3. Knows(r)'
    BY <2>1, <2>2 DEF Knows
  <2>4. QED
    BY <1>0, <2>1, <2>3, SessionSame
<1>2. CASE CreateSession(r)
  <2>1. /\ call[r].op = "createSession" /\ pc[r] = "write"
        /\ \A i \in DOMAIN seen[r].lines : Measured(seen[r].lines[i]) /\ seen[r].lines[i].counted = Uncounted
    BY <1>2 DEF CreateSession, At, SessionInv, Knows
  <2>2. CASE DOMAIN seen[r].lines \subseteq DOMAIN stock
    <3> DEFINE v == [status |-> "DRAFT", adjusted |-> FALSE, lines |-> seen[r].lines]
    <3>1. pc'[r] = "done" /\ sessions' = Put(sessions, r, v)
      BY <1>2, <2>2, AnswerFacts DEF CreateSession
    <3>2. /\ DOMAIN sessions' = DOMAIN sessions \cup {r} /\ sessions'[r] = v
          /\ \A s \in DOMAIN sessions \ {r} : sessions'[s] = sessions[s]
      BY <3>1 DEF Put
    <3>3. r \notin DOMAIN sessions
      BY <2>1, SessionsAssumption DEF SessionInv, Created
    <3>4. Settled(v) /\ Created(r)'
      BY <2>1, <3>1 DEF Settled, Created
    <3>5. Persist
      BY <3>2, <3>3 DEF Persist, Counted, Lines
    <3>6. \A s \in DOMAIN sessions' : Created(s)' /\ Settled(sessions'[s])
      BY <1>0, <3>2, <3>4 DEF SessionInv
    <3>7. Knows(r)'
      BY <3>1 DEF Knows
    <3>8. QED
      BY <1>0, <3>5, <3>6, <3>7, SessionKept
  <2>3. CASE ~(DOMAIN seen[r].lines \subseteq DOMAIN stock)
    <3>1. pc'[r] = "refused" /\ UNCHANGED sessions
      BY <1>2, <2>3, AnswerFacts DEF CreateSession
    <3>2. Knows(r)'
      BY <3>1 DEF Knows
    <3>3. QED
      BY <1>0, <3>1, <3>2, SessionSame
  <2>4. QED
    BY <2>2, <2>3
<1>3. CASE FindSession(r)
  <2>1. UNCHANGED sessions /\ call[r].op \in {"countLine", "completeSession", "applySession"}
    BY <1>3 DEF FindSession, At
  <2>2. \/ pc'[r] \in {"refused", "line"}
        \/ /\ pc'[r] = "write" /\ call[r].op = "completeSession"
           /\ call[r].id \in DOMAIN sessions /\ Counted(call[r].id)
        \/ /\ pc'[r] = "journal" /\ call[r].op = "applySession"
           /\ call[r].id \in DOMAIN sessions /\ sessions[call[r].id].status = "COMPLETED"
    BY <1>3, <2>1, GotoFacts, KeepFacts, AnswerFacts DEF FindSession
  <2>3. Knows(r)'
    BY <2>1, <2>2 DEF Knows, Counted, Lines
  <2>4. QED
    BY <1>0, <2>1, <2>3, SessionSame
<1>4. CASE FindLine(r)
  BY <1>0, <1>4, SessionOther DEF FindLine, At, SessionOps
<1>5. CASE CountLine(r)
  <2>1. call[r].op = "countLine"
    BY <1>5 DEF CountLine, At
  <2>2. CASE ~OnSheet(r)
    BY <1>0, <1>5, <2>1, <2>2, SessionOther DEF CountLine, SessionOps
  <2>3. CASE OnSheet(r)
    <3> DEFINE s == call[r].id
               i == call[r].item
               v == sessions[s]
               w == [v EXCEPT !.lines = [v.lines EXCEPT ![i] = WithCount(v.lines[i], call[r].count)]]
    <3>1. s \in DOMAIN sessions /\ i \in DOMAIN v.lines /\ sessions' = [sessions EXCEPT ![s] = w]
      BY <1>5, <2>3 DEF CountLine, OnSheet, Lines
    <3>2. call[r].count \in Nat
      BY <2>1, CountsAreNumbers
    <3>3. Settled(v)
      BY <3>1 DEF SessionInv
    <3>4. Measured(WithCount(v.lines[i], call[r].count)) /\ WithCount(v.lines[i], call[r].count).counted # Uncounted
      BY <3>1, <3>2, <3>3, WithCountMeasured DEF Settled
    <3>5. DOMAIN w = DOMAIN v
      BY <3>3 DEF Settled
    <3>6. /\ w.status = v.status /\ w.adjusted = v.adjusted /\ DOMAIN w.lines = DOMAIN v.lines
          /\ \A j \in DOMAIN v.lines :
               w.lines[j] = IF j = i THEN WithCount(v.lines[i], call[r].count) ELSE v.lines[j]
      BY <3>3 DEF Settled
    <3>7. Settled(w)
      BY <3>3, <3>4, <3>5, <3>6 DEF Settled
    <3>8. sessions'[s] = w /\ DOMAIN sessions' = DOMAIN sessions /\ \A t \in DOMAIN sessions \ {s} : sessions'[t] = sessions[t]
      BY <3>1
    <3>9. Persist
      <4>1. /\ DOMAIN sessions'[s].lines = DOMAIN v.lines
            /\ \A j \in DOMAIN v.lines : v.lines[j].counted # Uncounted => sessions'[s].lines[j].counted # Uncounted
            /\ v.status = "COMPLETED" => sessions'[s].status = "COMPLETED"
        BY <3>4, <3>6, <3>8
      <4>2. QED
        BY <3>1, <3>8, <4>1, PersistWritten
    <3>10. \A t \in DOMAIN sessions' : Created(t)' /\ Settled(sessions'[t])
      BY <1>0, <3>7, <3>8 DEF SessionInv
    <3>11. Knows(r)'
      BY <2>1 DEF Knows
    <3>12. QED
      BY <1>0, <3>9, <3>10, <3>11, SessionKept
  <2>4. QED
    BY <2>2, <2>3
<1>6. CASE CompleteSession(r)
  <2> DEFINE s == call[r].id
             v == sessions[s]
             w == [v EXCEPT !.status = "COMPLETED"]
  <2>1. s \in DOMAIN sessions /\ Counted(s) /\ sessions' = [sessions EXCEPT ![s] = w] /\ pc'[r] = "done"
    BY <1>6, AnswerFacts DEF CompleteSession, At, SessionInv, Knows
  <2>2. Settled(v)
    BY <2>1 DEF SessionInv
  <2>3. DOMAIN w = DOMAIN v
    BY <2>2 DEF Settled
  <2>4. w.status = "COMPLETED" /\ w.adjusted = v.adjusted /\ w.lines = v.lines
    BY <2>2 DEF Settled
  <2>5. Settled(w)
    BY <2>1, <2>2, <2>3, <2>4 DEF Settled, Counted, Lines
  <2>6. sessions'[s] = w /\ DOMAIN sessions' = DOMAIN sessions /\ \A t \in DOMAIN sessions \ {s} : sessions'[t] = sessions[t]
    BY <2>1
  <2>7. Persist
    <3>1. sessions'[s].lines = v.lines /\ sessions'[s].status = "COMPLETED"
      BY <2>4, <2>6
    <3>2. QED
      BY <2>1, <2>6, <3>1, PersistWritten
  <2>8. \A t \in DOMAIN sessions' : Created(t)' /\ Settled(sessions'[t])
    BY <1>0, <2>5, <2>6 DEF SessionInv
  <2>9. Knows(r)'
    BY <2>1 DEF Knows
  <2>10. QED
    BY <1>0, <2>7, <2>8, <2>9, SessionKept
<1>7. CASE JournalAdjustment(r) \/ StoreCount(r)
  <2>1. /\ UNCHANGED sessions /\ call[r].op = "applySession"
        /\ call[r].id \in DOMAIN sessions /\ sessions[call[r].id].status = "COMPLETED"
    BY <1>7 DEF JournalAdjustment, StoreCount, At, SessionInv, Knows
  <2>2. Knows(r)'
    BY <2>1 DEF Knows
  <2>3. QED
    BY <1>0, <2>1, <2>2, SessionSame
<1>8. CASE SetAdjusted(r)
  <2> DEFINE s == call[r].id
             v == sessions[s]
             w == [v EXCEPT !.adjusted = TRUE]
  <2>1. /\ s \in DOMAIN sessions /\ v.status = "COMPLETED" /\ sessions' = [sessions EXCEPT ![s] = w]
        /\ pc'[r] = "done"
    BY <1>8, AnswerFacts DEF SetAdjusted, At, SessionInv, Knows
  <2>2. Settled(v)
    BY <2>1 DEF SessionInv
  <2>3. DOMAIN w = DOMAIN v
    BY <2>2 DEF Settled
  <2>4. w.status = "COMPLETED" /\ w.adjusted /\ w.lines = v.lines
    BY <2>1, <2>2 DEF Settled
  <2>5. Settled(w)
    BY <2>1, <2>2, <2>3, <2>4 DEF Settled
  <2>6. sessions'[s] = w /\ DOMAIN sessions' = DOMAIN sessions /\ \A t \in DOMAIN sessions \ {s} : sessions'[t] = sessions[t]
    BY <2>1
  <2>7. Persist
    <3>1. sessions'[s].lines = v.lines /\ sessions'[s].status = "COMPLETED"
      BY <2>4, <2>6
    <3>2. QED
      BY <2>1, <2>6, <3>1, PersistWritten
  <2>8. \A t \in DOMAIN sessions' : Created(t)' /\ Settled(sessions'[t])
    BY <1>0, <2>5, <2>6 DEF SessionInv
  <2>9. Knows(r)'
    BY <2>1 DEF Knows
  <2>10. QED
    BY <1>0, <2>7, <2>8, <2>9, SessionKept
<1>9. QED
  BY <1>1, <1>2, <1>3, <1>4, <1>5, <1>6, <1>7, <1>8 DEF InventoryStep

LEMMA SettledKept ==
  ASSUME ServerInv, SessionInv, NEW r \in Requests, RemoveItem(r), UNCHANGED call, Moves(r), r \in InFlight
  PROVE  SessionInv'
<1>0. call[r].op = "removeItem" /\ \A s : Created(s) => Created(s)'
  BY CreatedKept DEF RemoveItem, At
<1>1. CASE call[r].item \notin DOMAIN stock
  BY <1>0, <1>1, SessionOther DEF RemoveItem, SessionOps
<1>2. CASE call[r].item \in DOMAIN stock
  <2>1. sessions' = [s \in DOMAIN sessions |-> [sessions[s] EXCEPT !.lines = Without(sessions[s].lines, call[r].item)]]
    BY <1>2 DEF RemoveItem
  <2>2. ASSUME NEW s \in DOMAIN sessions
        PROVE  /\ DOMAIN sessions'[s] = DOMAIN sessions[s]
               /\ sessions'[s].status = sessions[s].status /\ sessions'[s].adjusted = sessions[s].adjusted
               /\ DOMAIN sessions'[s].lines = DOMAIN sessions[s].lines \ {call[r].item}
               /\ \A i \in DOMAIN sessions'[s].lines : sessions'[s].lines[i] = sessions[s].lines[i]
    <3>1. Settled(sessions[s])
      BY DEF SessionInv
    <3>2. sessions'[s].lines = Without(sessions[s].lines, call[r].item)
      BY <2>1, <3>1 DEF Settled
    <3>3. QED
      BY <2>1, <3>1, <3>2 DEF Settled, Without
  <2>3. DOMAIN sessions' = DOMAIN sessions
    BY <2>1
  <2>4. Persist
    BY <2>2, <2>3 DEF Persist, Counted, Lines
  <2>5. \A s \in DOMAIN sessions' : Created(s)' /\ Settled(sessions'[s])
    BY <1>0, <2>2, <2>3 DEF SessionInv, Settled
  <2>6. Knows(r)'
    BY <1>0 DEF Knows
  <2>7. QED
    BY <1>0, <2>4, <2>5, <2>6, SessionKept
<1>3. QED
  BY <1>1, <1>2

LEMMA SessionServed ==
  ASSUME ServerInv, Asking, SessionInv, NEW r \in Requests, Request(r)
  PROVE  SessionInv'
<1>1. CASE (Arrive(r) \/ Fail(r)) /\ UNCHANGED tables
  <2>1. /\ Moves(r) /\ \A s \in Requests \ {r} : call'[s] = call[s]
        /\ \/ pc[r] = "idle" /\ pc'[r] = "start"
           \/ UNCHANGED call /\ r \in InFlight /\ pc'[r] = "failed"
    BY <1>1, ArriveFacts, FailFacts
  <2>2. UNCHANGED sessions
    BY <1>1 DEF tables, shopTables, shop
  <2>3. Persist
    BY <2>2 DEF Persist, Counted, Lines
  <2>4. \A s \in Requests \ {r} : Knows(s)'
    BY <2>1, <2>3, KnowsKept DEF SessionInv, Moves
  <2>5. Knows(r)'
    BY <2>1 DEF Knows
  <2>6. \A s : Created(s) => Created(s)'
    BY <2>1 DEF Created, Moves, InFlight, Ended
  <2>7. QED
    BY <2>2, <2>4, <2>5, <2>6 DEF SessionInv
<1>2. CASE ShopStep(r) /\ UNCHANGED call /\ Moves(r) /\ r \in InFlight
  <2>1. CASE InventoryStep(r)
    BY <1>2, <2>1, InventoryStepSettled
  <2>2. CASE RemoveItem(r)
    BY <1>2, <2>2, SettledKept
  <2>3. CASE PurchaseStep(r) /\ UNCHANGED sessions
    BY <1>2, <2>3, StepKinds, SessionOther DEF SessionOps, PurchaseOps
  <2>4. CASE TicketStep(r) /\ UNCHANGED sessions
    BY <1>2, <2>4, StepKinds, SessionOther DEF SessionOps, TicketOps
  <2>5. CASE (FindItem(r) \/ DepotStep(r)) /\ UNCHANGED sessions
    BY <1>2, <2>5, StepKinds, SessionOther DEF SessionOps, DepotOps
  <2>6. QED
    BY <1>2, <2>1, <2>2, <2>3, <2>4, <2>5 DEF ShopStep, FindItem, shop
<1>3. CASE UNCHANGED <<call, shopTables>> /\ Moves(r) /\ r \in InFlight /\ call[r].op \notin ShopOps
  BY <1>3, SessionOther DEF shopTables, shop, ShopOps, SessionOps
<1>4. QED
  BY <1>1, <1>2, <1>3, NotShop, RequestCases

LEMMA SessionStepKept ==
  ASSUME ServerInv, Asking, SessionInv, [Next]_vars
  PROVE  SessionInv'
<1>1. CASE UNCHANGED <<pc, call, seen, sessions>>
  BY <1>1 DEF SessionInv, Knows, Created, Counted, Lines
<1>2. ASSUME NEW r \in Requests, Request(r) PROVE SessionInv'
  BY <1>2, SessionServed
<1>3. CASE Restart
  <2>1. /\ UNCHANGED <<call, sessions>>
        /\ \A r \in Requests : IF r \in InFlight THEN pc'[r] = "failed" ELSE pc'[r] = pc[r]
    BY <1>3, RestartFacts DEF shopTables, shop
  <2>2. \A s : Created(s) => Created(s)'
    BY <2>1 DEF Created, InFlight, Ended
  <2>3. \A s \in Requests : Knows(s)'
    BY <2>1 DEF Knows, InFlight, Ended
  <2>4. QED
    BY <2>1, <2>2, <2>3 DEF SessionInv
<1>4. QED
  BY <1>1, <1>2, <1>3 DEF Next, Clock, vars, serverVars, shopTables, shop

-----------------------------------------------------------------------------
(* Adjustments, of requests that neither overlap nor fail.                 *)
Applying(r) == call[r].op = "applySession" /\ pc[r] \in {"journal", "store"}
Left(r) == IF pc[r] = "store" THEN DOMAIN seen[r].lines \ {seen[r].item} ELSE DOMAIN seen[r].lines
Adjusting == {m \in movements : m.type = "ADJUSTMENT"}
Told(s, i) ==
  \E m \in Adjusting : m.doc = s /\ m.item = i /\ m.quantity = sessions[s].lines[i].discrepancy

(* An adjustment is of a session adjusted, or of a line its run is past.   *)
Owned ==
  \A m \in Adjusting :
    /\ m.doc \in DOMAIN sessions
    /\ \/ sessions[m.doc].adjusted
       \/ \E r \in Requests : Applying(r) /\ call[r].id = m.doc /\ m.item \notin Left(r)

Unique == \A m, o \in Adjusting : m.doc = o.doc /\ m.item = o.item => m = o

AdjustedTold ==
  \A s \in DOMAIN sessions : sessions[s].adjusted =>
    \A i \in Lines(s) : sessions[s].lines[i].discrepancy # 0 => Told(s, i)

LinesHeld == \A s \in DOMAIN sessions : Lines(s) \subseteq DOMAIN stock

RunOK(r) ==
  LET s == call[r].id
  IN  /\ Applying(r) =>
           /\ s \in DOMAIN sessions /\ ~sessions[s].adjusted
           /\ DOMAIN seen[r].lines \subseteq Lines(s)
           /\ \A i \in DOMAIN seen[r].lines : seen[r].lines[i] = sessions[s].lines[i]
           /\ \A i \in Lines(s) \ Left(r) : sessions[s].lines[i].discrepancy # 0 => Told(s, i)
           /\ pc[r] = "store" => seen[r].item \in DOMAIN seen[r].lines
      /\ call[r].op = "countLine" /\ pc[r] \in {"line", "write"} =>
           s \in DOMAIN sessions /\ sessions[s].status = "DRAFT"

BookInv == LinesHeld /\ Owned /\ Unique /\ AdjustedTold /\ \A r \in Requests : RunOK(r)

LEMMA QuietAlone ==
  ASSUME ServerInv, AloneInv, Quiet, NEW r \in Requests, r \in InFlight, Moves(r), UNCHANGED call
  PROVE  \A s \in Requests : Applying(s) \/ Applying(s)' => s = r
BY DEF AloneInv, Quiet, Applying, InFlight, Ended, Moves

LEMMA OwnedBy ==
  ASSUME Owned, NEW r \in Requests, \A s \in Requests : Applying(s) => s = r, NEW m \in Adjusting
  PROVE  /\ m.doc \in DOMAIN sessions
         /\ sessions[m.doc].adjusted \/ (m.doc = call[r].id /\ m.item \notin Left(r))
<1>1. PICK q \in Requests :
        sessions[m.doc].adjusted \/ (Applying(q) /\ call[q].id = m.doc /\ m.item \notin Left(q))
  BY DEF Owned
<1>2. CASE Applying(q)
  <2>1. q = r
    BY <1>2
  <2>2. QED
    BY <1>1, <2>1 DEF Owned
<1>3. QED
  BY <1>1, <1>2 DEF Owned

(* A step of a request that is not adjusting leaves the books alone unless *)
(* it touches sessions or adjustments.                                     *)
LEMMA BookOther ==
  ASSUME ServerInv, AloneInv, Quiet, BookInv, UNCHANGED <<call, sessions>>,
         NEW r \in Requests, Moves(r), r \in InFlight, ~Applying(r),
         DOMAIN stock \subseteq DOMAIN stock', Adjusting' = Adjusting, RunOK(r)'
  PROVE  BookInv'
<1>1. \A s, i : Told(s, i)' <=> Told(s, i)
  BY DEF Told
<1>2. \A s \in Requests : ~Applying(s)
  BY QuietAlone
<1>3. Owned'
  BY <1>2 DEF BookInv, Owned
<1>4. AdjustedTold'
  BY <1>1 DEF BookInv, AdjustedTold, Lines
<1>5. LinesHeld'
  BY DEF BookInv, LinesHeld, Lines
<1>6. ASSUME NEW s \in Requests \ {r} PROVE RunOK(s)'
  <2>1. ~Applying(s)' /\ pc'[s] = pc[s]
    BY QuietAlone DEF Moves
  <2>2. QED
    BY <2>1 DEF BookInv, RunOK
<1>7. Unique'
  BY DEF BookInv, Unique
<1>8. QED
  BY <1>3, <1>4, <1>5, <1>6, <1>7 DEF BookInv

LEMMA OthersRunOK ==
  ASSUME ServerInv, AloneInv, Quiet, BookInv, UNCHANGED call, NEW r \in Requests, Moves(r), r \in InFlight
  PROVE  \A s \in Requests \ {r} : RunOK(s)'
<1> SUFFICES ASSUME NEW s \in Requests \ {r} PROVE RunOK(s)'
  OBVIOUS
<1>1. pc'[s] = pc[s] /\ s \notin InFlight
  BY DEF Moves, AloneInv, Quiet
<1>2. QED
  BY <1>1 DEF RunOK, Applying, InFlight, Ended

LEMMA InventoryBooks ==
  ASSUME ServerInv, AloneInv, SessionInv, Quiet, BookInv, UNCHANGED call,
         NEW r \in Requests, InventoryStep(r)
  PROVE  BookInv'
<1>0. /\ Moves(r) /\ r \in InFlight
      /\ \A s \in Requests : Applying(s) \/ Applying(s)' => s = r
      /\ \A s \in Requests \ {r} : RunOK(s)'
  BY InventoryMoves, QuietAlone, OthersRunOK
<1>1. CASE CountShelf(r)
  <2>1. UNCHANGED <<sessions, shelf>> /\ call[r].op = "createSession"
    BY <1>1 DEF CountShelf, At
  <2>2. QED
    BY <1>0, <2>1, BookOther DEF shelf, Applying, Adjusting, RunOK
<1>2. CASE CreateSession(r)
  <2>1. call[r].op = "createSession" /\ pc[r] = "write" /\ UNCHANGED shelf /\ r \notin DOMAIN sessions
    BY <1>2, SessionsAssumption DEF CreateSession, At, SessionInv, Created
  <2>2. CASE DOMAIN seen[r].lines \subseteq DOMAIN stock
    <3> DEFINE v == [status |-> "DRAFT", adjusted |-> FALSE, lines |-> seen[r].lines]
    <3>1. sessions' = Put(sessions, r, v)
      BY <1>2, <2>2 DEF CreateSession
    <3>2. /\ DOMAIN sessions' = DOMAIN sessions \cup {r} /\ sessions'[r] = v
          /\ \A s \in DOMAIN sessions : sessions'[s] = sessions[s]
      BY <2>1, <3>1 DEF Put
    <3>3. LinesHeld'
      BY <2>1, <2>2, <3>2 DEF BookInv, LinesHeld, Lines, shelf
    <3>4. Adjusting' = Adjusting
      BY <2>1 DEF Adjusting, shelf
    <3>5. Owned'
      BY <1>0, <2>1, <3>2, <3>4 DEF BookInv, Owned, Applying
    <3>6. AdjustedTold'
      BY <3>2, <3>4 DEF BookInv, AdjustedTold, Lines, Told
    <3>7. Unique' /\ RunOK(r)'
      BY <2>1, <3>4 DEF BookInv, Unique, RunOK, Applying
    <3>8. QED
      BY <1>0, <3>3, <3>5, <3>6, <3>7 DEF BookInv
  <2>3. CASE ~(DOMAIN seen[r].lines \subseteq DOMAIN stock)
    BY <1>0, <1>2, <2>1, <2>3, BookOther DEF CreateSession, shelf, Applying, Adjusting, RunOK
  <2>4. QED
    BY <2>2, <2>3
<1>3. CASE FindSession(r)
  <2> DEFINE s == call[r].id
  <2>1. /\ UNCHANGED <<sessions, shelf>> /\ pc[r] = "start" /\ ~Applying(r)
        /\ call[r].op \in {"countLine", "completeSession", "applySession"}
    BY <1>3 DEF FindSession, At, Applying
  <2>2. \/ pc'[r] = "refused"
        \/ call[r].op = "completeSession"
        \/ call[r].op = "countLine" /\ s \in DOMAIN sessions /\ sessions[s].status = "DRAFT"
        \/ /\ pc'[r] = "journal" /\ call[r].op = "applySession" /\ s \in DOMAIN sessions
           /\ ~sessions[s].adjusted /\ seen'[r] = [lines |-> Discrepant(s)]
    BY <1>3, <2>1, KeepFacts, AnswerFacts DEF FindSession
  <2>3. ASSUME pc'[r] = "journal", call[r].op = "applySession", s \in DOMAIN sessions,
               ~sessions[s].adjusted, seen'[r] = [lines |-> Discrepant(s)]
        PROVE  RunOK(r)'
    <3>1. /\ DOMAIN seen'[r].lines = {i \in Lines(s) : /\ sessions[s].lines[i].discrepancy # 0
                                                       /\ sessions[s].lines[i].counted # Uncounted}
          /\ \A i \in DOMAIN seen'[r].lines : seen'[r].lines[i] = sessions[s].lines[i]
      <4>1. seen'[r].lines = Discrepant(s)
        BY <2>3
      <4>2. QED
        BY <4>1 DEF Discrepant
    <3>2. \A i \in Lines(s) : sessions[s].lines[i].discrepancy # 0 => sessions[s].lines[i].counted # Uncounted
      BY <2>3 DEF SessionInv, Settled, Measured, Lines
    <3>3. Left(r)' = DOMAIN seen'[r].lines
      BY <2>3 DEF Left
    <3>4. \A i \in Lines(s) \ Left(r)' : sessions[s].lines[i].discrepancy = 0
      BY <3>1, <3>2, <3>3
    <3>5. QED
      BY <2>1, <2>3, <3>1, <3>4 DEF RunOK, Lines
  <2>4. ASSUME call[r].op # "applySession" \/ pc'[r] = "refused"
        PROVE  RunOK(r)'
    <3>1. ~Applying(r)'
      BY <2>4 DEF Applying
    <3>2. call[r].op = "countLine" => pc'[r] = "refused" \/ (s \in DOMAIN sessions /\ sessions[s].status = "DRAFT")
      BY <2>2
    <3>3. QED
      BY <2>1, <3>1, <3>2 DEF RunOK
  <2>5. RunOK(r)'
    BY <2>2, <2>3, <2>4
  <2>6. QED
    BY <1>0, <2>1, <2>5, BookOther DEF shelf, Adjusting
<1>4. CASE FindLine(r)
  <2>1. /\ UNCHANGED <<sessions, shelf>> /\ call[r].op = "countLine" /\ pc[r] = "line" /\ ~Applying(r)
    BY <1>4 DEF FindLine, At, Applying
  <2>2. RunOK(r)'
    BY <2>1 DEF BookInv, RunOK, Applying
  <2>3. QED
    BY <1>0, <2>1, <2>2, BookOther DEF shelf, Adjusting
<1>5. CASE CountLine(r)
  <2> DEFINE s == call[r].id
             i == call[r].item
  <2>1. /\ UNCHANGED shelf /\ call[r].op = "countLine" /\ pc[r] = "write" /\ pc'[r] \in {"done", "refused"}
        /\ s \in DOMAIN sessions /\ sessions[s].status = "DRAFT"
    BY <1>5, AnswerFacts DEF CountLine, At, BookInv, RunOK
  <2>2. RunOK(r)' /\ ~Applying(r)
    BY <2>1 DEF RunOK, Applying
  <2>3. CASE ~OnSheet(r)
    BY <1>0, <1>5, <2>1, <2>2, <2>3, BookOther DEF CountLine, shelf, Adjusting
  <2>4. CASE OnSheet(r)
    <3> DEFINE v == sessions[s]
               w == [v EXCEPT !.lines = [v.lines EXCEPT ![i] = WithCount(v.lines[i], call[r].count)]]
    <3>1. sessions' = [sessions EXCEPT ![s] = w]
      BY <1>5, <2>4 DEF CountLine
    <3>2. Settled(v)
      BY <2>1 DEF SessionInv
    <3>3. w.adjusted = v.adjusted /\ DOMAIN w.lines = DOMAIN v.lines
      BY <3>2 DEF Settled
    <3>4. /\ DOMAIN sessions' = DOMAIN sessions /\ sessions'[s].adjusted = sessions[s].adjusted
          /\ DOMAIN sessions'[s].lines = DOMAIN sessions[s].lines
          /\ \A t \in DOMAIN sessions \ {s} : sessions'[t] = sessions[t]
      BY <2>1, <3>1, <3>3
    <3>5. ~sessions[s].adjusted
      BY <2>1, <3>2 DEF Settled
    <3>6. Adjusting' = Adjusting
      BY <2>1 DEF Adjusting, shelf
    <3>7. LinesHeld'
      BY <2>1, <3>4 DEF BookInv, LinesHeld, Lines, shelf
    <3>8. Owned'
      BY <1>0, <2>2, <3>4, <3>6 DEF BookInv, Owned
    <3>9. AdjustedTold'
      BY <3>4, <3>5, <3>6 DEF BookInv, AdjustedTold, Lines, Told
    <3>10. Unique'
      BY <3>6 DEF BookInv, Unique
    <3>11. QED
      BY <1>0, <2>2, <3>7, <3>8, <3>9, <3>10 DEF BookInv
  <2>5. QED
    BY <2>3, <2>4
<1>6. CASE CompleteSession(r)
  <2> DEFINE s == call[r].id
             v == sessions[s]
             w == [v EXCEPT !.status = "COMPLETED"]
  <2>1. /\ UNCHANGED shelf /\ call[r].op = "completeSession" /\ s \in DOMAIN sessions
        /\ sessions' = [sessions EXCEPT ![s] = w]
    BY <1>6 DEF CompleteSession, At, SessionInv, Knows
  <2>2. RunOK(r)' /\ ~Applying(r)
    BY <2>1 DEF RunOK, Applying
  <2>3. w.adjusted = v.adjusted /\ w.lines = v.lines
    BY <2>1 DEF SessionInv, Settled
  <2>4. /\ DOMAIN sessions' = DOMAIN sessions
        /\ \A t \in DOMAIN sessions : sessions'[t].adjusted = sessions[t].adjusted /\ sessions'[t].lines = sessions[t].lines
    BY <2>1, <2>3
  <2>5. Adjusting' = Adjusting
    BY <2>1 DEF Adjusting, shelf
  <2>6. LinesHeld'
    BY <2>1, <2>4 DEF BookInv, LinesHeld, Lines, shelf
  <2>7. Owned'
    BY <1>0, <2>2, <2>4, <2>5 DEF BookInv, Owned
  <2>8. AdjustedTold'
    BY <2>4, <2>5 DEF BookInv, AdjustedTold, Lines, Told
  <2>9. Unique'
    BY <2>5 DEF BookInv, Unique
  <2>10. QED
    BY <1>0, <2>2, <2>6, <2>7, <2>8, <2>9 DEF BookInv
<1>7. CASE JournalAdjustment(r)
  <2> DEFINE s == call[r].id
  <2>1. /\ UNCHANGED <<sessions, stock>> /\ call[r].op = "applySession" /\ pc[r] = "journal" /\ Applying(r)
    BY <1>7 DEF JournalAdjustment, At, Applying
  <2>2. PICK i \in DOMAIN seen[r].lines :
          IF i \in DOMAIN stock
            THEN /\ Journaled(r, 1, s, i, "ADJUSTMENT", seen[r].lines[i].discrepancy)
                 /\ Keep(r, "store", [item |-> i, lines |-> seen[r].lines])
            ELSE Refuse(r) /\ UNCHANGED movements
    BY <1>7 DEF JournalAdjustment
  <2>3. /\ s \in DOMAIN sessions /\ ~sessions[s].adjusted /\ DOMAIN seen[r].lines \subseteq Lines(s)
        /\ \A j \in DOMAIN seen[r].lines : seen[r].lines[j] = sessions[s].lines[j]
        /\ \A j \in Lines(s) \ Left(r) : sessions[s].lines[j].discrepancy # 0 => Told(s, j)
    BY <2>1 DEF BookInv, RunOK
  <2>4. i \in DOMAIN stock
    BY <2>2, <2>3 DEF BookInv, LinesHeld
  <2> DEFINE n == [by |-> r, n |-> 1, doc |-> s, item |-> i, type |-> "ADJUSTMENT", quantity |-> seen[r].lines[i].discrepancy]
  <2>5. /\ movements' = movements \cup {n} /\ pc'[r] = "store"
        /\ seen'[r] = [item |-> i, lines |-> seen[r].lines]
    BY <2>2, <2>4, KeepFacts DEF Journaled
  <2>6. Adjusting' = Adjusting \cup {n}
    BY <2>5 DEF Adjusting
  <2>7. Left(r) = DOMAIN seen[r].lines /\ Left(r)' = DOMAIN seen[r].lines \ {i}
    BY <2>1, <2>5 DEF Left
  <2>8. Applying(r)'
    BY <2>1, <2>5 DEF Applying
  <2>9. Told(s, i)' /\ \A t, j : Told(t, j) => Told(t, j)'
    <3>1. n.doc = s /\ n.item = i /\ n.quantity = sessions'[s].lines[i].discrepancy
      BY <2>1, <2>2, <2>3
    <3>2. QED
      BY <2>1, <2>6, <3>1 DEF Told
  <2>10. \A o \in Adjusting : ~(o.doc = s /\ o.item = i)
    BY <1>0, <2>2, <2>3, <2>7 DEF BookInv, Owned
  <2>11. Owned'
    <3>1. ASSUME NEW m \in Adjusting
          PROVE  /\ m.doc \in DOMAIN sessions'
                 /\ \/ sessions'[m.doc].adjusted
                    \/ \E q \in Requests : Applying(q)' /\ call'[q].id = m.doc /\ m.item \notin Left(q)'
      <4>1. m.doc \in DOMAIN sessions /\ (sessions[m.doc].adjusted \/ (m.doc = s /\ m.item \notin Left(r)))
        BY <1>0, OwnedBy DEF BookInv
      <4>2. QED
        BY <2>1, <2>7, <2>8, <4>1
    <3>2. n.doc = s /\ n.item = i
      OBVIOUS
    <3>3. QED
      BY <2>1, <2>3, <2>6, <2>7, <2>8, <3>1, <3>2 DEF Owned
  <2>12. Unique'
    <3>1. n.doc = s /\ n.item = i
      OBVIOUS
    <3>2. QED
      BY <2>6, <2>10, <3>1 DEF BookInv, Unique
  <2>13. AdjustedTold'
    BY <2>1, <2>9 DEF BookInv, AdjustedTold, Lines
  <2>14. LinesHeld'
    BY <2>1 DEF BookInv, LinesHeld, Lines
  <2>15. RunOK(r)'
    <3>1. seen'[r].lines = seen[r].lines /\ seen'[r].item = i
      BY <2>5
    <3>2. QED
      BY <2>1, <2>2, <2>3, <2>7, <2>9, <3>1 DEF RunOK, Lines
  <2>16. QED
    BY <1>0, <2>11, <2>12, <2>13, <2>14, <2>15 DEF BookInv
<1>8. CASE StoreCount(r)
  <2> DEFINE s == call[r].id
             i == seen[r].item
  <2>1. /\ UNCHANGED <<sessions, movements>> /\ call[r].op = "applySession" /\ pc[r] = "store" /\ Applying(r)
    BY <1>8 DEF StoreCount, At, Applying
  <2>2. /\ s \in DOMAIN sessions /\ ~sessions[s].adjusted /\ DOMAIN seen[r].lines \subseteq Lines(s)
        /\ \A j \in DOMAIN seen[r].lines : seen[r].lines[j] = sessions[s].lines[j]
        /\ \A j \in Lines(s) \ Left(r) : sessions[s].lines[j].discrepancy # 0 => Told(s, j)
        /\ i \in DOMAIN seen[r].lines
    BY <2>1 DEF BookInv, RunOK
  <2>3. i \in DOMAIN stock
    BY <2>2 DEF BookInv, LinesHeld
  <2>4. /\ DOMAIN stock' = DOMAIN stock /\ pc'[r] = "journal"
        /\ seen'[r] = [lines |-> Without(seen[r].lines, i)]
    BY <1>8, <2>3, KeepFacts DEF StoreCount
  <2>5. DOMAIN seen'[r].lines = DOMAIN seen[r].lines \ {i} /\ \A j \in DOMAIN seen'[r].lines : seen'[r].lines[j] = seen[r].lines[j]
    BY <2>4 DEF Without
  <2>6. Left(r)' = Left(r) /\ Adjusting' = Adjusting /\ Applying(r)'
    BY <2>1, <2>4, <2>5 DEF Left, Adjusting, Applying
  <2>7. \A t, j : Told(t, j)' <=> Told(t, j)
    BY <2>1, <2>6 DEF Told
  <2>8. RunOK(r)'
    BY <2>1, <2>2, <2>4, <2>5, <2>6, <2>7 DEF RunOK, Lines
  <2>9. Owned'
    <3>1. ASSUME NEW m \in Adjusting
          PROVE  m.doc \in DOMAIN sessions /\ (sessions[m.doc].adjusted \/ (m.doc = s /\ m.item \notin Left(r)))
      BY <1>0, OwnedBy DEF BookInv
    <3>2. QED
      BY <2>1, <2>6, <3>1 DEF Owned
  <2>10. Unique' /\ AdjustedTold' /\ LinesHeld'
    BY <2>1, <2>4, <2>6, <2>7 DEF BookInv, Unique, AdjustedTold, LinesHeld, Lines
  <2>11. QED
    BY <1>0, <2>8, <2>9, <2>10 DEF BookInv
<1>9. CASE SetAdjusted(r)
  <2> DEFINE s == call[r].id
             v == sessions[s]
             w == [v EXCEPT !.adjusted = TRUE]
  <2>1. /\ UNCHANGED shelf /\ call[r].op = "applySession" /\ pc[r] = "journal" /\ Applying(r)
        /\ DOMAIN seen[r].lines = {} /\ sessions' = [sessions EXCEPT ![s] = w]
    BY <1>9 DEF SetAdjusted, At, Applying
  <2>2. /\ s \in DOMAIN sessions /\ Left(r) = {}
        /\ \A j \in Lines(s) : sessions[s].lines[j].discrepancy # 0 => Told(s, j)
    BY <2>1 DEF BookInv, RunOK, Left
  <2>3. w.adjusted /\ w.lines = v.lines
    BY <2>2 DEF SessionInv, Settled
  <2>4. /\ DOMAIN sessions' = DOMAIN sessions /\ sessions'[s].adjusted /\ sessions'[s].lines = sessions[s].lines
        /\ \A t \in DOMAIN sessions \ {s} : sessions'[t] = sessions[t]
    BY <2>1, <2>2, <2>3
  <2>5. Adjusting' = Adjusting
    BY <2>1 DEF Adjusting, shelf
  <2>6. \A t \in DOMAIN sessions : \A j : Told(t, j) => Told(t, j)'
    BY <2>4, <2>5 DEF Told
  <2>7. LinesHeld'
    BY <2>1, <2>4 DEF BookInv, LinesHeld, Lines, shelf
  <2>8. Owned'
    <3>1. ASSUME NEW m \in Adjusting PROVE m.doc \in DOMAIN sessions /\ (sessions[m.doc].adjusted \/ m.doc = s)
      BY <1>0 DEF BookInv, Owned
    <3>2. QED
      BY <2>4, <2>5, <3>1 DEF Owned
  <2>9. AdjustedTold'
    <3>1. ASSUME NEW t \in DOMAIN sessions, sessions'[t].adjusted, NEW j \in Lines(t)', sessions'[t].lines[j].discrepancy # 0
          PROVE  Told(t, j)'
      <4>1. CASE t = s
        BY <2>2, <2>4, <2>6, <3>1, <4>1 DEF Lines
      <4>2. CASE t # s
        <5>1. sessions'[t] = sessions[t]
          BY <2>4, <4>2
        <5>2. QED
          BY <2>6, <3>1, <5>1 DEF BookInv, AdjustedTold, Lines
      <4>3. QED
        BY <4>1, <4>2
    <3>2. QED
      BY <2>4, <3>1 DEF AdjustedTold
  <2>10. Unique'
    BY <2>5 DEF BookInv, Unique
  <2>11. RunOK(r)'
    <3>1. pc'[r] = "done"
      BY <1>9, AnswerFacts DEF SetAdjusted
    <3>2. QED
      BY <3>1 DEF RunOK, Applying
  <2>12. QED
    BY <1>0, <2>7, <2>8, <2>9, <2>10, <2>11 DEF BookInv
<1>10. QED
  BY <1>1, <1>2, <1>3, <1>4, <1>5, <1>6, <1>7, <1>8, <1>9 DEF InventoryStep

(* The lines and the movements of a deleted article go together.           *)
LEMMA RemoveItemBooks ==
  ASSUME ServerInv, AloneInv, SessionInv, Quiet, BookInv, UNCHANGED call,
         NEW r \in Requests, RemoveItem(r), Moves(r), r \in InFlight
  PROVE  BookInv'
<1> DEFINE i == call[r].item
<1>0. /\ call[r].op = "removeItem" /\ \A s \in Requests \ {r} : RunOK(s)'
      /\ \A s \in Requests : ~Applying(s) /\ ~Applying(s)'
  BY QuietAlone, OthersRunOK DEF RemoveItem, At, Applying
<1>1. RunOK(r)'
  BY <1>0 DEF RunOK
<1>2. CASE i \notin DOMAIN stock
  BY <1>0, <1>1, <1>2, BookOther DEF RemoveItem, Adjusting
<1>3. CASE i \in DOMAIN stock
  <2>1. /\ stock' = Without(stock, i) /\ movements' = {m \in movements : m.item # i}
        /\ sessions' = [s \in DOMAIN sessions |-> [sessions[s] EXCEPT !.lines = Without(sessions[s].lines, i)]]
    BY <1>3 DEF RemoveItem
  <2>2. DOMAIN stock' = DOMAIN stock \ {i} /\ DOMAIN sessions' = DOMAIN sessions
    BY <2>1 DEF Without
  <2>3. ASSUME NEW s \in DOMAIN sessions
        PROVE  /\ sessions'[s].adjusted = sessions[s].adjusted
               /\ DOMAIN sessions'[s].lines = DOMAIN sessions[s].lines \ {i}
               /\ \A j \in DOMAIN sessions'[s].lines : sessions'[s].lines[j] = sessions[s].lines[j]
    <3>1. Settled(sessions[s])
      BY DEF SessionInv
    <3>2. sessions'[s].lines = Without(sessions[s].lines, i)
      BY <2>1, <3>1 DEF Settled
    <3>3. QED
      BY <2>1, <3>1, <3>2 DEF Settled, Without
  <2>4. Adjusting' = {m \in Adjusting : m.item # i}
    BY <2>1 DEF Adjusting
  <2>5. LinesHeld'
    BY <2>2, <2>3 DEF BookInv, LinesHeld, Lines
  <2>6. Owned'
    BY <1>0, <2>2, <2>3, <2>4 DEF BookInv, Owned
  <2>7. Unique'
    BY <2>4 DEF BookInv, Unique
  <2>8. AdjustedTold'
    <3>1. ASSUME NEW s \in DOMAIN sessions, sessions'[s].adjusted, NEW j \in Lines(s)',
                 sessions'[s].lines[j].discrepancy # 0
          PROVE  Told(s, j)'
      <4>1. j # i /\ j \in Lines(s) /\ sessions[s].adjusted /\ sessions'[s].lines[j] = sessions[s].lines[j]
        BY <2>3, <3>1 DEF Lines
      <4>2. Told(s, j)
        BY <3>1, <4>1 DEF BookInv, AdjustedTold
      <4>3. QED
        BY <2>4, <4>1, <4>2 DEF Told
    <3>2. QED
      BY <2>2, <3>1 DEF AdjustedTold
  <2>9. QED
    BY <1>0, <1>1, <2>5, <2>6, <2>7, <2>8 DEF BookInv
<1>4. QED
  BY <1>2, <1>3

LEMMA BookShelf ==
  ASSUME ServerInv, AloneInv, Quiet, BookInv, UNCHANGED <<call, sessions>>,
         NEW r \in Requests, Moves(r), r \in InFlight, DOMAIN stock \subseteq DOMAIN stock',
         call[r].op \notin {"applySession", "countLine"},
         \/ UNCHANGED movements
         \/ \E n, d, i, t, q : Journaled(r, n, d, i, t, q) /\ t # "ADJUSTMENT"
  PROVE  BookInv'
<1>1. RunOK(r)' /\ ~Applying(r)
  BY DEF RunOK, Applying
<1>2. Adjusting' = Adjusting
  BY DEF Adjusting, Journaled
<1>3. QED
  BY <1>1, <1>2, BookOther

LEMMA ShopBooks ==
  ASSUME ServerInv, AloneInv, SessionInv, Quiet, BookInv, UNCHANGED call,
         NEW r \in Requests, ShopStep(r), Moves(r), r \in InFlight
  PROVE  BookInv'
<1>1. CASE InventoryStep(r)
  BY <1>1, InventoryBooks
<1>2. CASE RemoveItem(r)
  BY <1>2, RemoveItemBooks
<1>3. CASE PurchaseStep(r) /\ UNCHANGED <<sessions, repairs, depots>>
  <2>1. CASE CreatePurchase(r) \/ FindPurchase(r) \/ UpdatePurchase(r) \/ DeletePurchase(r)
    <3>1. UNCHANGED <<stock, movements>> /\ call[r].op \notin {"applySession", "countLine"}
      BY <2>1 DEF CreatePurchase, FindPurchase, UpdatePurchase, DeletePurchase, At, shelf
    <3>2. QED
      BY <1>3, <3>1, BookShelf
  <2>2. CASE MarkReceived(r) \/ FindReceivedItem(r) \/ StoreReceipt(r)
    <3>1. UNCHANGED movements /\ DOMAIN stock' = DOMAIN stock /\ call[r].op = "receivePurchase"
      BY <2>2 DEF MarkReceived, FindReceivedItem, StoreReceipt, At, shelf
    <3>2. QED
      BY <1>3, <3>1, BookShelf
  <2>3. CASE JournalReceipt(r)
    <3>1. /\ UNCHANGED stock /\ call[r].op = "receivePurchase"
          /\ UNCHANGED movements \/ Journaled(r, 1, call[r].id, seen[r].item, "IN", seen[r].quantity)
      BY <2>3 DEF JournalReceipt, At
    <3>2. QED
      BY <1>3, <3>1, BookShelf
  <2>4. QED
    BY <1>3, <2>1, <2>2, <2>3 DEF PurchaseStep
<1>4. CASE TicketStep(r) /\ UNCHANGED <<purchases, sessions, depots>>
  <2>1. CASE CountTickets(r) \/ CreateTicket(r) \/ FindTicket(r) \/ CheckPart(r) \/ DecrementPart(r)
    <3>1. /\ UNCHANGED movements /\ DOMAIN stock' = DOMAIN stock
          /\ call[r].op \notin {"applySession", "countLine"}
      BY <2>1 DEF CountTickets, CreateTicket, FindTicket, CheckPart, DecrementPart, At, shelf
    <3>2. QED
      BY <1>4, <3>1, BookShelf
  <2>2. CASE JournalPart(r)
    <3>1. /\ UNCHANGED stock /\ call[r].op = "ticketStatus"
          /\ UNCHANGED movements \/ Journaled(r, seen[r].n, call[r].id, Part(r).item, "OUT", Part(r).quantity)
      BY <2>2 DEF JournalPart, At
    <3>2. QED
      BY <1>4, <3>1, BookShelf
  <2>3. CASE AttachPart(r) \/ UpdateTicket(r) \/ CommitParts(r) \/ FindImpossible(r) \/ MarkConverted(r)
    <3>1. UNCHANGED <<stock, movements>> /\ call[r].op \notin {"applySession", "countLine"}
      BY <2>3 DEF AttachPart, UpdateTicket, CommitParts, FindImpossible, MarkConverted, At, shelf
    <3>2. QED
      BY <1>4, <3>1, BookShelf
  <2>4. CASE CreateRefurbished(r)
    <3>1. UNCHANGED movements /\ DOMAIN stock' = DOMAIN stock \cup {r} /\ call[r].op = "convertTicket"
      BY <2>4 DEF CreateRefurbished, At, Put
    <3>2. QED
      BY <1>4, <3>1, BookShelf
  <2>5. CASE JournalRefurbished(r)
    <3>1. /\ UNCHANGED stock /\ call[r].op = "convertTicket"
          /\ UNCHANGED movements \/ Journaled(r, 1, call[r].id, r, "IN", 1)
      BY <2>5 DEF JournalRefurbished, At
    <3>2. QED
      BY <1>4, <3>1, BookShelf
  <2>6. QED
    BY <1>4, <2>1, <2>2, <2>3, <2>4, <2>5 DEF TicketStep
<1>5. CASE (FindItem(r) \/ DepotStep(r)) /\ UNCHANGED shop
  <2>1. call[r].op \notin {"applySession", "countLine"}
    BY <1>5 DEF FindItem, DepotStep, FindDepot, ClearMain, CreateDepot, UpdateDepot, RemoveDepot, At
  <2>2. QED
    BY <1>5, <2>1, BookShelf DEF shop
<1>6. QED
  BY <1>1, <1>2, <1>3, <1>4, <1>5 DEF ShopStep, FindItem

QuietInv == Quiet => BookInv

LEMMA QuietStart == Init => QuietInv
<1> SUFFICES ASSUME Init PROVE BookInv
  BY DEF QuietInv
<1>1. sessions = OldSessions /\ movements = {} /\ stock = Opening /\ \A r \in Requests : pc[r] = "idle"
  BY DEF Init, ShopInit, ShelfInit, InventoryInit, ServerInit
<1>2. \A s \in DOMAIN OldSessions : DOMAIN OldSessions[s].lines \subseteq DOMAIN Opening /\ ~OldSessions[s].adjusted
  BY SessionsAssumption
<1>3. Adjusting = {}
  BY <1>1 DEF Adjusting
<1>4. LinesHeld /\ Owned /\ Unique /\ AdjustedTold
  BY <1>1, <1>2, <1>3 DEF LinesHeld, Lines, Owned, Unique, AdjustedTold
<1>5. \A r \in Requests : RunOK(r)
  BY <1>1 DEF RunOK, Applying
<1>6. QED
  BY <1>4, <1>5 DEF BookInv

LEMMA QuietStep ==
  ASSUME ServerInv, AloneInv, SessionInv, QuietInv, [Next]_vars
  PROVE  QuietInv'
<1>0. UNCHANGED scene
  BY RestartFacts DEF Next, vars, serverVars, Clock
<1> SUFFICES ASSUME Quiet PROVE BookInv'
  BY <1>0 DEF QuietInv, Quiet, Apart
<1>a. BookInv
  BY DEF QuietInv
<1>1. CASE UNCHANGED <<pc, call, seen, stock, movements, sessions>>
  <2>1. Adjusting' = Adjusting
    BY <1>1 DEF Adjusting
  <2>2. Owned' /\ Unique' /\ AdjustedTold' /\ LinesHeld'
    BY <1>1, <1>a, <2>1 DEF BookInv, Owned, Unique, AdjustedTold, LinesHeld, Lines, Told, Applying, Left
  <2>3. \A r \in Requests : RunOK(r)'
    BY <1>1, <1>a, <2>1 DEF BookInv, RunOK, Applying, Left, Lines, Told
  <2>4. QED
    BY <2>2, <2>3 DEF BookInv
<1>2. ASSUME NEW r \in Requests, Request(r) PROVE BookInv'
  <2>1. CASE Arrive(r) /\ UNCHANGED tables
    <3>1. /\ Moves(r) /\ pc[r] = "idle" /\ pc'[r] = "start" /\ call[r] = NoCall /\ seen' = seen
          /\ \A s \in Requests \ {r} : call'[s] = call[s]
      BY <2>1, ArriveFacts
    <3>2. UNCHANGED <<stock, movements, sessions>>
      BY <2>1 DEF tables, shopTables, shop
    <3>3. \A s \in Requests : Applying(s)' <=> Applying(s)
      BY <3>1 DEF Moves, Applying
    <3>4. Adjusting' = Adjusting
      BY <3>2 DEF Adjusting
    <3>5. ASSUME NEW s \in Requests PROVE RunOK(s)'
      <4>1. CASE s = r
        BY <3>1, <3>3, <4>1 DEF RunOK, Applying
      <4>2. CASE s # r
        <5>1. pc'[s] = pc[s] /\ call'[s] = call[s] /\ seen'[s] = seen[s] /\ Left(s)' = Left(s)
          BY <3>1, <4>2 DEF Moves, Left
        <5>2. \A t, j : Told(t, j)' <=> Told(t, j)
          BY <3>2, <3>4 DEF Told
        <5>3. QED
          BY <1>a, <3>2, <3>3, <5>1, <5>2 DEF BookInv, RunOK, Lines
      <4>3. QED
        BY <4>1, <4>2
    <3>6. Owned'
      <4>1. ASSUME NEW m \in Adjusting, NEW s \in Requests, Applying(s), call[s].id = m.doc, m.item \notin Left(s)
            PROVE  Applying(s)' /\ call'[s].id = m.doc /\ m.item \notin Left(s)'
        <5>1. s # r
          BY <3>1, <4>1 DEF Applying
        <5>2. pc'[s] = pc[s] /\ call'[s] = call[s] /\ Left(s)' = Left(s)
          BY <3>1, <5>1 DEF Moves, Left
        <5>3. QED
          BY <3>3, <4>1, <5>2
      <4>2. QED
        BY <1>a, <3>2, <3>4, <4>1 DEF BookInv, Owned
    <3>7. Unique' /\ AdjustedTold' /\ LinesHeld'
      BY <1>a, <3>2, <3>4 DEF BookInv, Unique, AdjustedTold, LinesHeld, Lines, Told
    <3>8. QED
      BY <3>5, <3>6, <3>7 DEF BookInv
  <2>2. CASE Fail(r)
    BY <2>2, FailFacts DEF Quiet
  <2>3. CASE ShopStep(r) /\ UNCHANGED call /\ Moves(r) /\ r \in InFlight
    BY <1>a, <2>3, ShopBooks
  <2>4. CASE UNCHANGED <<call, shopTables>> /\ Moves(r) /\ r \in InFlight /\ call[r].op \notin ShopOps
    BY <1>a, <2>4, BookShelf DEF shopTables, shop, ShopOps
  <2>5. QED
    BY <1>2, <2>1, <2>2, <2>3, <2>4, NotShop, RequestCases
<1>3. CASE Restart
  BY <1>3, RestartFacts DEF Quiet
<1>4. QED
  BY <1>1, <1>2, <1>3 DEF Next, Clock, vars, serverVars, shopTables, shop

(* it-inventory.service.ts: a session is completed only when each line is  *)
(* counted, adjusted only when completed, and its discrepancies are those  *)
(* of its counts, in every interleaving; without overlaps and failures,    *)
(* each discrepancy of an adjusted session is journaled once.              *)
THEOREM SessionsAddUp == Spec => []SessionsSettled
<1>1. SessionInv /\ QuietInv => SessionsSettled
  <2> SUFFICES ASSUME SessionInv, QuietInv, NEW s \in DOMAIN sessions
               PROVE  /\ sessions[s].status = "COMPLETED" =>
                           \A i \in Lines(s) : sessions[s].lines[i].counted # Uncounted
                      /\ sessions[s].adjusted => sessions[s].status = "COMPLETED"
                      /\ \A i \in Lines(s) :
                           LET l == sessions[s].lines[i]
                           IN  /\ l.discrepancy = IF l.counted = Uncounted THEN 0 ELSE l.counted - l.system
                               /\ Quiet => /\ Cardinality(Adjustments(s, i)) <= 1
                                           /\ sessions[s].adjusted /\ l.discrepancy # 0 =>
                                                \E m \in Adjustments(s, i) : m.quantity = l.discrepancy
    BY DEF SessionsSettled
  <2>1. Settled(sessions[s])
    BY DEF SessionInv
  <2>2. ASSUME NEW i \in Lines(s), Quiet
        PROVE  /\ Cardinality(Adjustments(s, i)) <= 1
               /\ sessions[s].adjusted /\ sessions[s].lines[i].discrepancy # 0 =>
                    \E m \in Adjustments(s, i) : m.quantity = sessions[s].lines[i].discrepancy
    <3>1. BookInv
      BY <2>2 DEF QuietInv
    <3>2. Adjustments(s, i) = {m \in Adjusting : m.doc = s /\ m.item = i}
      BY DEF Adjustments, Adjusting
    <3>3. \A m, o \in Adjustments(s, i) : m = o
      BY <3>1, <3>2 DEF BookInv, Unique
    <3>4. Adjustments(s, i) = {} \/ \E m : Adjustments(s, i) = {m}
      BY <3>3
    <3>5. Cardinality(Adjustments(s, i)) <= 1
      <4>1. CASE Adjustments(s, i) = {}
        BY <4>1, FS_EmptySet
      <4>2. CASE \E m : Adjustments(s, i) = {m}
        <5>1. Cardinality(Adjustments(s, i)) = 1
          BY <4>2, FS_Singleton
        <5>2. QED
          BY <5>1
      <4>3. QED
        BY <3>4, <4>1, <4>2
    <3>6. sessions[s].adjusted /\ sessions[s].lines[i].discrepancy # 0 => Told(s, i)
      BY <2>2, <3>1 DEF BookInv, AdjustedTold
    <3>7. QED
      BY <3>2, <3>5, <3>6 DEF Told
  <2>3. QED
    BY <2>1, <2>2 DEF Settled, Measured, Lines
<1>2. Init => ServerInv /\ Asking /\ AloneInv /\ SessionInv /\ QuietInv
  BY ServerStart, AskingStart, AloneStart, SessionStart, QuietStart
<1>3. /\ ServerInv /\ Asking /\ AloneInv /\ SessionInv /\ QuietInv /\ [Next]_vars
      => (ServerInv /\ Asking /\ AloneInv /\ SessionInv /\ QuietInv)'
  BY ServerStep, AskingStep, AloneStep, SessionStepKept, QuietStep
<1>4. QED
  BY <1>1, <1>2, <1>3, PTL DEF Spec

-----------------------------------------------------------------------------
(* Depots, of requests that do not overlap: a depot is made the main one   *)
(* when no other is.                                                       *)
Clears(r) == /\ call[r].op \in {"createDepot", "updateDepot"} /\ call[r].main
             /\ pc[r] = "write"

DepotInv ==
  Apart => /\ \A d, e \in Chosen : d = e
           /\ \A r \in Requests : Clears(r) => Chosen = {}
           /\ \A r \in Requests : call[r].op = "createDepot" /\ pc[r] = "write" => call[r].main

LEMMA DepotKept ==
  ASSUME ServerInv, AloneInv, DepotInv, UNCHANGED <<scene, call, depots>>, NEW r \in Requests, Moves(r), r \in InFlight,
         Clears(r)' => Chosen = {},
         call[r].op = "createDepot" /\ pc'[r] = "write" => call[r].main
  PROVE  DepotInv'
<1>1. Chosen' = Chosen /\ (Apart' <=> Apart)
  BY DEF Chosen, Apart
<1>2. \A s \in Requests \ {r} : pc'[s] = pc[s] /\ (Clears(s)' <=> Clears(s))
  BY DEF Moves, Clears
<1>3. QED
  BY <1>1, <1>2 DEF DepotInv

LEMMA DepotOther ==
  ASSUME ServerInv, AloneInv, DepotInv, UNCHANGED <<scene, call, depots>>, NEW r \in Requests, Moves(r), r \in InFlight,
         call[r].op \notin {"createDepot", "updateDepot"} \/ pc'[r] # "write"
  PROVE  DepotInv'
BY DepotKept DEF Clears

(* What a step of a depot does to the others', when it is alone.           *)
LEMMA DepotWritten ==
  ASSUME ServerInv, AloneInv, DepotInv, UNCHANGED <<scene, call>>, NEW r \in Requests, Moves(r), r \in InFlight,
         Apart => \A d, e \in Chosen' : d = e,
         pc'[r] = "write" => Chosen' = {} /\ call[r].main
  PROVE  DepotInv'
<1>1. Apart' <=> Apart
  BY DEF Apart
<1>2. ASSUME Apart, NEW s \in Requests \ {r} PROVE ~Clears(s)' /\ pc'[s] # "write"
  BY <1>2 DEF AloneInv, Moves, Clears, InFlight, Ended
<1>3. QED
  BY <1>1, <1>2 DEF DepotInv, Clears

LEMMA DepotStepKept ==
  ASSUME ServerInv, AloneInv, DepotInv, UNCHANGED <<scene, call>>, NEW r \in Requests, DepotStep(r),
         Moves(r), r \in InFlight
  PROVE  DepotInv'
<1>1. CASE FindDepot(r)
  <2>1. /\ UNCHANGED depots /\ call[r].op \in {"updateDepot", "removeDepot"}
        /\ pc'[r] = "write" => ~(call[r].op = "updateDepot" /\ call[r].main)
    BY <1>1, GotoFacts, AnswerFacts DEF FindDepot, At
  <2>2. QED
    BY <2>1, DepotKept DEF Clears
<1>2. CASE ClearMain(r)
  <2>1. depots' = [d \in DOMAIN depots |-> FALSE] /\ pc'[r] = "write"
    BY <1>2, GotoFacts DEF ClearMain
  <2>2. Chosen' = {}
    BY <2>1 DEF Chosen
  <2>3. call[r].op = "createDepot" => call[r].main
    BY <1>2 DEF ClearMain, At
  <2>4. Apart' <=> Apart
    BY DEF Apart
  <2>5. ASSUME Apart, NEW s \in Requests \ {r} PROVE pc'[s] # "write"
    BY <2>5 DEF AloneInv, Moves, InFlight, Ended
  <2>6. QED
    BY <2>2, <2>3, <2>4, <2>5 DEF DepotInv
<1>3. CASE CreateDepot(r)
  <2>1. /\ depots' = Put(depots, r, call[r].main) /\ pc'[r] = "done" /\ call[r].op = "createDepot"
        /\ ~call[r].main \/ pc[r] = "write"
    BY <1>3, AnswerFacts DEF CreateDepot, At
  <2>2. DOMAIN depots' = DOMAIN depots \cup {r} /\ \A d \in DOMAIN depots' : depots'[d] = IF d = r THEN call[r].main ELSE depots[d]
    BY <2>1 DEF Put
  <2>3. ASSUME Apart PROVE \A d, e \in Chosen' : d = e
    <3>1. CASE call[r].main
      <4>1. Chosen = {}
        BY <2>1, <2>3, <3>1 DEF DepotInv, Clears
      <4>2. Chosen' \subseteq {r}
        BY <2>2, <4>1 DEF Chosen
      <4>3. QED
        BY <4>2
    <3>2. CASE ~call[r].main
      <4>1. Chosen' \subseteq Chosen
        BY <2>2, <3>2 DEF Chosen
      <4>2. QED
        BY <2>3, <4>1 DEF DepotInv
    <3>3. QED
      BY <3>1, <3>2
  <2>4. QED
    BY <2>1, <2>3, DepotWritten
<1>4. CASE UpdateDepot(r)
  <2>1. CASE call[r].id \notin DOMAIN depots
    <3>1. UNCHANGED depots /\ pc'[r] = "refused"
      BY <1>4, <2>1, AnswerFacts DEF UpdateDepot
    <3>2. QED
      BY <3>1, DepotOther
  <2>2. CASE call[r].id \in DOMAIN depots
    <3>1. /\ depots' = [depots EXCEPT ![call[r].id] = call[r].main] /\ pc'[r] = "done"
          /\ call[r].op = "updateDepot" /\ pc[r] = "write"
      BY <1>4, <2>2, AnswerFacts DEF UpdateDepot, At
    <3>2. ASSUME Apart PROVE \A d, e \in Chosen' : d = e
      <4>1. CASE call[r].main
        <5>1. Chosen = {}
          BY <3>1, <3>2, <4>1 DEF DepotInv, Clears
        <5>2. Chosen' \subseteq {call[r].id}
          BY <3>1, <5>1 DEF Chosen
        <5>3. QED
          BY <5>2
      <4>2. CASE ~call[r].main
        <5>1. Chosen' \subseteq Chosen
          BY <3>1, <4>2 DEF Chosen
        <5>2. QED
          BY <3>2, <5>1 DEF DepotInv
      <4>3. QED
        BY <4>1, <4>2
    <3>3. QED
      BY <3>1, <3>2, DepotWritten
  <2>3. QED
    BY <2>1, <2>2
<1>5. CASE RemoveDepot(r)
  <2>1. /\ depots' = depots \/ depots' = Without(depots, call[r].id)
        /\ pc'[r] \in {"done", "refused"}
    BY <1>5, AnswerFacts DEF RemoveDepot
  <2>2. Chosen' \subseteq Chosen
    BY <2>1 DEF Chosen, Without
  <2>3. QED
    BY <2>1, <2>2, DepotWritten DEF DepotInv
<1>6. QED
  BY <1>1, <1>2, <1>3, <1>4, <1>5 DEF DepotStep

LEMMA DepotStart == Init => DepotInv
BY DepotsAssumption DEF Init, ShopInit, DepotsInit, ServerInit, DepotInv, Chosen, Clears

LEMMA DepotNext ==
  ASSUME ServerInv, AloneInv, DepotInv, [Next]_vars
  PROVE  DepotInv'
<1>0. UNCHANGED scene
  BY RestartFacts DEF Next, vars, serverVars, Clock
<1>1. CASE UNCHANGED <<pc, call, depots>>
  BY <1>0, <1>1 DEF DepotInv, Apart, Chosen, Clears
<1>2. ASSUME NEW r \in Requests, Request(r) PROVE DepotInv'
  <2>1. CASE (Arrive(r) \/ Fail(r)) /\ UNCHANGED tables
    <3>1. /\ Moves(r) /\ pc'[r] \in {"start", "failed"} /\ \A s \in Requests \ {r} : call'[s] = call[s]
      BY <2>1, ArriveFacts, FailFacts
    <3>2. UNCHANGED depots
      BY <2>1 DEF tables, shopTables
    <3>3. QED
      BY <1>0, <3>1, <3>2 DEF DepotInv, Apart, Chosen, Clears, Moves
  <2>2. CASE ShopStep(r) /\ UNCHANGED call /\ Moves(r) /\ r \in InFlight
    <3>1. CASE DepotStep(r)
      BY <1>0, <2>2, <3>1, DepotStepKept
    <3>2. CASE PurchaseStep(r) /\ UNCHANGED depots
      BY <1>0, <2>2, <3>2, StepKinds, DepotOther DEF PurchaseOps
    <3>3. CASE InventoryStep(r) /\ UNCHANGED depots
      BY <1>0, <2>2, <3>3, StepKinds, DepotOther DEF InventoryOps
    <3>4. CASE TicketStep(r) /\ UNCHANGED depots
      BY <1>0, <2>2, <3>4, StepKinds, DepotOther DEF TicketOps
    <3>5. CASE (FindItem(r) \/ RemoveItem(r)) /\ UNCHANGED depots
      BY <1>0, <2>2, <3>5, StepKinds, DepotOther
    <3>6. QED
      BY <2>2, <3>1, <3>2, <3>3, <3>4, <3>5 DEF ShopStep
  <2>3. CASE UNCHANGED <<call, shopTables>> /\ Moves(r) /\ r \in InFlight /\ call[r].op \notin ShopOps
    BY <1>0, <2>3, DepotOther DEF shopTables, ShopOps
  <2>4. QED
    BY <1>2, <2>1, <2>2, <2>3, NotShop, RequestCases
<1>3. CASE Restart
  <2>1. /\ UNCHANGED <<call, depots>>
        /\ \A r \in Requests : IF r \in InFlight THEN pc'[r] = "failed" ELSE pc'[r] = pc[r]
    BY <1>3, RestartFacts DEF shopTables
  <2>2. QED
    BY <1>0, <2>1 DEF DepotInv, Apart, Chosen, Clears
<1>4. QED
  BY <1>1, <1>2, <1>3 DEF Next, Clock, vars, serverVars, shopTables

(* depot.service.ts: of requests that do not overlap, whatever fails in    *)
(* between, at most one depot is the main one.                             *)
THEOREM MainDepotIsOne == Spec => []OneMainDepot
<1>1. DepotInv => OneMainDepot
  <2> SUFFICES ASSUME DepotInv, Apart PROVE Cardinality(Chosen) <= 1
    BY DEF OneMainDepot
  <2>1. Chosen = {} \/ \E d : Chosen = {d}
    BY DEF DepotInv
  <2>2. CASE Chosen = {}
    BY <2>2, FS_EmptySet
  <2>3. CASE \E d : Chosen = {d}
    <3>1. Cardinality(Chosen) = 1
      BY <2>3, FS_Singleton
    <3>2. QED
      BY <3>1
  <2>4. QED
    BY <2>1, <2>2, <2>3
<1>2. Init => ServerInv /\ AloneInv /\ DepotInv
  BY ServerStart, AloneStart, DepotStart
<1>3. ServerInv /\ AloneInv /\ DepotInv /\ [Next]_vars => (ServerInv /\ AloneInv /\ DepotInv)'
  BY ServerStep, AloneStep, DepotNext
<1>4. QED
  BY <1>1, <1>2, <1>3, PTL DEF Spec

-----------------------------------------------------------------------------
(* Parts are deducted once.  PartsDeductedOnce is not inductive: what left *)
(* the shelf for a ticket is a part of it once its request is done, which  *)
(* the next request for the ticket finds; until then, what its request     *)
(* journaled waits among the rows it has not committed.                    *)
Outs == {m \in movements : m.type = "OUT"}

Busy(r) == call[r].op = "ticketStatus" /\ pc[r] \in PartSteps

OutsOwned ==
  \A m \in Outs : /\ m.by \in Requests /\ call[m.by].op = "ticketStatus" /\ m.doc = call[m.by].id /\ Deducts(m.by)
                  /\ pc[m.by] \notin {"idle", "start"}

OutsAttached ==
  \A m \in Outs : pc[m.by] = "done" => \E p \in parts : p.ticket = m.doc /\ p.item = m.item

OneRequestEach ==
  \A m, o \in Outs : m.doc = o.doc /\ pc[m.by] = "done" /\ pc[o.by] = "done" => m.by = o.by

Deducting(r) ==
  Busy(r) =>
    /\ pc[r] \in {"part", "decrement", "journal", "attach"} => Deducts(r)
    /\ Deducts(r) => \A m \in Outs : m.doc = call[r].id => pc[m.by] # "done"
    /\ \A m \in Outs : m.by = r => \/ \E p \in seen[r].rows : p.ticket = m.doc /\ p.item = m.item
                                   \/ pc[r] = "attach" /\ m.item = Part(r).item

DeductInv ==
  Apart => /\ OutsOwned /\ OutsAttached /\ OneRequestEach
           /\ \A r \in Requests : Deducting(r)

(* The step of one request, and what it leaves of the movements.           *)
LEMMA DeductOther ==
  ASSUME ServerInv, OutsOwned, OutsAttached, OneRequestEach, NEW r \in Requests, Moves(r),
         \A s \in Requests \ {r} : call'[s] = call[s],
         Outs' \subseteq Outs, \A p \in parts : p \in parts' \/ \A m \in Outs' : m.item # p.item,
         \/ pc[r] = "idle"
         \/ call'[r] = call[r] /\ (call[r].op # "ticketStatus" \/ pc'[r] \notin {"start", "done"})
  PROVE  OutsOwned' /\ OutsAttached' /\ OneRequestEach'
<1>1. ASSUME NEW m \in Outs'
      PROVE  /\ m.by \in Requests /\ call'[m.by] = call[m.by] /\ pc'[m.by] \notin {"idle", "start"}
             /\ pc'[m.by] = "done" => pc[m.by] = "done"
  <2>1. m \in Outs /\ m.by \in Requests /\ call[m.by].op = "ticketStatus" /\ pc[m.by] \notin {"idle", "start"}
    BY DEF OutsOwned
  <2>2. CASE m.by = r
    BY <2>1, <2>2 DEF Moves
  <2>3. CASE m.by # r
    BY <2>1, <2>3 DEF Moves
  <2>4. QED
    BY <2>2, <2>3
<1>2. OutsOwned'
  BY <1>1 DEF OutsOwned, Deducts
<1>3. OutsAttached'
  <2> SUFFICES ASSUME NEW m \in Outs', pc'[m.by] = "done" PROVE \E p \in parts' : p.ticket = m.doc /\ p.item = m.item
    BY DEF OutsAttached
  <2>1. m \in Outs /\ pc[m.by] = "done"
    BY <1>1
  <2>2. PICK p \in parts : p.ticket = m.doc /\ p.item = m.item
    BY <2>1 DEF OutsAttached
  <2>3. p \in parts'
    BY <2>2
  <2>4. QED
    BY <2>2, <2>3
<1>4. OneRequestEach'
  BY <1>1 DEF OneRequestEach
<1>5. QED
  BY <1>2, <1>3, <1>4

LEMMA OthersRest ==
  ASSUME ServerInv, AloneInv, Apart, NEW r \in Requests, r \in InFlight, Moves(r), UNCHANGED call,
         NEW s \in Requests \ {r}
  PROVE  Deducting(s)'
<1>1. s \notin InFlight /\ pc'[s] = pc[s]
  BY DEF AloneInv, Moves
<1>2. ~Busy(s)'
  BY <1>1 DEF Busy, PartSteps, InFlight, Ended
<1>3. QED
  BY <1>2 DEF Deducting

(* The handler of a ticket's status, step by step.                         *)
LEMMA StatusStepDeducts ==
  ASSUME ServerInv, OutsOwned, OutsAttached, OneRequestEach, NEW r \in Requests, Deducting(r), TicketStep(r),
         call[r].op = "ticketStatus", UNCHANGED call
  PROVE  OutsOwned' /\ OutsAttached' /\ OneRequestEach' /\ Deducting(r)'
<1>0. Moves(r) /\ r \in InFlight /\ pc[r] # "idle" /\ pc[r] # "done"
  BY TicketMoves DEF InFlight, Ended
<1>a. ASSUME Outs' \subseteq Outs, UNCHANGED parts, pc'[r] \notin {"start", "done"}
      PROVE  OutsOwned' /\ OutsAttached' /\ OneRequestEach'
  BY <1>0, <1>a, DeductOther
<1>b. (Deducts(r)' <=> Deducts(r)) /\ (seen'[r] = seen[r] => Part(r)' = Part(r))
  BY DEF Deducts, Part
<1>1. CASE FindTicket(r)
  <2>1. UNCHANGED <<movements, parts>> /\ pc[r] = "start"
    BY <1>1 DEF FindTicket, At, repairs, shelf
  <2>2. \/ Refuse(r)
        \/ /\ Deducts(r) => PartsOf(call[r].id) = {}
           /\ Keep(r, IF Deducts(r) THEN "part" ELSE "update", [n |-> 1, rows |-> {}])
    BY <1>1 DEF FindTicket, Deductible
  <2>3. \/ pc'[r] = "refused"
        \/ /\ Deducts(r) => PartsOf(call[r].id) = {}
           /\ pc'[r] = (IF Deducts(r) THEN "part" ELSE "update")
    BY <2>2, KeepFacts, AnswerFacts
  <2>4. Outs' = Outs /\ \A m \in Outs : m.by # r
    BY <2>1 DEF Outs, OutsOwned
  <2>5. Deducting(r)'
    <3>1. CASE pc'[r] = "refused"
      BY <3>1 DEF Deducting, Busy, PartSteps
    <3>2. CASE /\ Deducts(r) => PartsOf(call[r].id) = {}
               /\ pc'[r] = (IF Deducts(r) THEN "part" ELSE "update")
      <4>1. Deducts(r) => \A m \in Outs : m.doc = call[r].id => pc[m.by] # "done"
        BY <3>2 DEF OutsAttached, PartsOf
      <4>2. Deducts(r) => \A m \in Outs : m.doc = call[r].id => pc'[m.by] # "done"
        BY <1>0, <2>4, <4>1 DEF Moves, OutsOwned
      <4>3. QED
        BY <1>b, <2>4, <3>2, <4>2 DEF Deducting
    <3>3. QED
      BY <2>3, <3>1, <3>2
  <2>6. QED
    BY <1>a, <2>1, <2>3, <2>4, <2>5
<1>2. CASE CheckPart(r) \/ DecrementPart(r) \/ UpdateTicket(r)
  <2>1. /\ UNCHANGED <<movements, parts>> /\ pc[r] \in {"part", "decrement", "update"}
        /\ Refuse(r) \/ (pc[r] # "update" /\ (Goto(r, "decrement") \/ Goto(r, "journal")))
           \/ (pc[r] = "update" /\ Goto(r, "commit"))
    BY <1>2 DEF CheckPart, DecrementPart, UpdateTicket, At, repairs, shelf
  <2>2. \/ pc'[r] = "refused"
        \/ /\ seen'[r] = seen[r] /\ pc'[r] \in {"decrement", "journal", "commit"}
           /\ pc[r] = "update" <=> pc'[r] = "commit"
    BY <2>1, GotoFacts, AnswerFacts
  <2>3. Outs' = Outs /\ Busy(r)
    BY <2>1 DEF Outs, Busy, PartSteps
  <2>4. Deducting(r)'
    <3>1. CASE pc'[r] = "refused"
      BY <3>1 DEF Deducting, Busy, PartSteps
    <3>2. CASE /\ seen'[r] = seen[r] /\ pc'[r] \in {"decrement", "journal", "commit"}
               /\ pc[r] = "update" <=> pc'[r] = "commit"
      <4>1. \A m \in Outs : pc[m.by] # "done" => pc'[m.by] # "done"
        BY <1>0, <3>2 DEF Moves, OutsOwned
      <4>2. QED
        BY <1>b, <2>1, <2>3, <3>2, <4>1 DEF Deducting
    <3>3. QED
      BY <2>2, <3>1, <3>2
  <2>5. QED
    BY <1>a, <2>1, <2>2, <2>3, <2>4
<1>3. CASE JournalPart(r)
  <2>1. pc[r] = "journal" /\ UNCHANGED parts
    BY <1>3 DEF JournalPart, At, repairs
  <2>2. CASE Refuse(r) /\ UNCHANGED movements
    <3>1. pc'[r] = "refused" /\ Outs' = Outs
      BY <2>2, AnswerFacts DEF Outs
    <3>2. QED
      BY <1>a, <2>1, <3>1 DEF Deducting, Busy, PartSteps
  <2>3. CASE Goto(r, "attach") /\ Journaled(r, seen[r].n, call[r].id, Part(r).item, "OUT", Part(r).quantity)
    <3> DEFINE new == [by |-> r, n |-> seen[r].n, doc |-> call[r].id, item |-> Part(r).item, type |-> "OUT", quantity |-> Part(r).quantity]
    <3>1. pc'[r] = "attach" /\ seen'[r] = seen[r]
      BY <2>3, GotoFacts
    <3>2. Outs' = Outs \cup {new}
      BY <2>3 DEF Outs, Journaled
    <3>3. Busy(r) /\ Deducts(r)
      BY <2>1 DEF Deducting, Busy, PartSteps
    <3>4. new.by = r /\ new.doc = call[r].id /\ new.item = Part(r).item
      OBVIOUS
    <3> HIDE DEF new
    <3>5. \A m \in Outs' : /\ m.by \in Requests /\ pc'[m.by] \notin {"idle", "start"}
                           /\ pc'[m.by] = "done" => m \in Outs /\ pc[m.by] = "done"
      BY <1>0, <3>1, <3>2, <3>4 DEF Moves, OutsOwned
    <3>6. OutsOwned'
      BY <3>2, <3>3, <3>4, <3>5 DEF OutsOwned, Deducts
    <3>7. OutsAttached' /\ OneRequestEach'
      BY <2>1, <3>5 DEF OutsAttached, OneRequestEach
    <3>8. Deducting(r)'
      BY <1>b, <2>1, <3>1, <3>2, <3>3, <3>4, <3>5 DEF Deducting
    <3>9. QED
      BY <3>6, <3>7, <3>8
  <2>4. QED
    BY <1>3, <2>2, <2>3 DEF JournalPart
<1>4. CASE AttachPart(r)
  <2> DEFINE row == [by |-> r, ticket |-> call[r].id, n |-> seen[r].n, item |-> Part(r).item, quantity |-> Part(r).quantity]
  <2>1. UNCHANGED <<movements, parts>> /\ pc[r] = "attach"
    BY <1>4 DEF AttachPart, At, repairs, shelf
  <2>2. \/ Refuse(r)
        \/ \E l \in {"part", "update"} : Keep(r, l, [n |-> seen[r].n + 1, rows |-> seen[r].rows \cup {row}])
    BY <1>4 DEF AttachPart
  <2>3. \/ pc'[r] = "refused"
        \/ pc'[r] \in {"part", "update"} /\ seen'[r] = [n |-> seen[r].n + 1, rows |-> seen[r].rows \cup {row}]
    BY <2>2, KeepFacts, AnswerFacts
  <2>4. Outs' = Outs /\ Busy(r)
    BY <2>1 DEF Outs, Busy, PartSteps
  <2>5. row.ticket = call[r].id /\ row.item = Part(r).item
    OBVIOUS
  <2> HIDE DEF row
  <2>6. Deducting(r)'
    <3>1. CASE pc'[r] = "refused"
      BY <3>1 DEF Deducting, Busy, PartSteps
    <3>2. CASE pc'[r] \in {"part", "update"} /\ seen'[r] = [n |-> seen[r].n + 1, rows |-> seen[r].rows \cup {row}]
      <4>1. \A m \in Outs : pc[m.by] # "done" => pc'[m.by] # "done"
        BY <1>0, <3>2 DEF Moves, OutsOwned
      <4>2. ASSUME NEW m \in Outs, m.by = r PROVE \E p \in seen'[r].rows : p.ticket = m.doc /\ p.item = m.item
        <5>1. m.doc = call[r].id
          BY <4>2 DEF OutsOwned
        <5>2. CASE m.item = Part(r).item
          BY <2>5, <3>2, <5>1, <5>2
        <5>3. CASE \E p \in seen[r].rows : p.ticket = m.doc /\ p.item = m.item
          BY <3>2, <5>3
        <5>4. QED
          BY <2>4, <4>2, <5>2, <5>3 DEF Deducting
      <4>3. QED
        BY <1>b, <2>1, <2>4, <3>2, <4>1, <4>2 DEF Deducting
    <3>3. QED
      BY <2>3, <3>1, <3>2
  <2>7. QED
    BY <1>a, <2>1, <2>3, <2>4, <2>6
<1>5. CASE CommitParts(r)
  <2>1. UNCHANGED movements /\ parts' = parts \cup seen[r].rows /\ pc[r] = "commit"
    BY <1>5 DEF CommitParts, At, shelf
  <2>2. pc'[r] = "done"
    BY <1>5, AnswerFacts DEF CommitParts
  <2>3. Outs' = Outs /\ Busy(r)
    BY <2>1 DEF Outs, Busy, PartSteps
  <2>4. \A m \in Outs : m.by \in Requests /\ (m.by # r => pc'[m.by] = pc[m.by])
    BY <1>0 DEF OutsOwned, Moves
  <2>5. OutsOwned'
    BY <2>2, <2>3, <2>4 DEF OutsOwned, Deducts
  <2>6. OutsAttached'
    <3> SUFFICES ASSUME NEW m \in Outs, pc'[m.by] = "done" PROVE \E p \in parts' : p.ticket = m.doc /\ p.item = m.item
      BY <2>3 DEF OutsAttached
    <3>1. CASE m.by = r
      BY <2>1, <2>3, <3>1 DEF Deducting
    <3>2. CASE m.by # r
      BY <2>1, <2>4, <3>2 DEF OutsAttached
    <3>3. QED
      BY <3>1, <3>2
  <2>7. OneRequestEach'
    <3> SUFFICES ASSUME NEW m \in Outs, NEW o \in Outs, m.doc = o.doc, pc'[m.by] = "done", pc'[o.by] = "done"
                 PROVE  m.by = o.by
      BY <2>3 DEF OneRequestEach
    <3>1. \A x \in Outs : x.by = r => Deducts(r) /\ x.doc = call[r].id
      BY DEF OutsOwned
    <3>2. CASE m.by = r \/ o.by = r
      BY <2>3, <2>4, <3>1, <3>2 DEF Deducting
    <3>3. CASE m.by # r /\ o.by # r
      BY <2>4, <3>3 DEF OneRequestEach
    <3>4. QED
      BY <3>2, <3>3
  <2>8. Deducting(r)'
    BY <2>2 DEF Deducting, Busy, PartSteps
  <2>9. QED
    BY <2>5, <2>6, <2>7, <2>8
<1>6. QED
  BY <1>1, <1>2, <1>3, <1>4, <1>5 DEF TicketStep, CountTickets, CreateTicket, FindImpossible, MarkConverted,
     CreateRefurbished, JournalRefurbished, At

(* What the other handlers of the shop leave of the parts and of what left *)
(* the shelf for them.                                                     *)
LEMMA OtherStepsDeduct ==
  ASSUME NEW r \in Requests, ShopStep(r), call[r].op # "ticketStatus"
  PROVE  /\ Outs' \subseteq Outs
         /\ \A p \in parts : p \in parts' \/ \A m \in Outs' : m.item # p.item
<1>a. ASSUME UNCHANGED <<movements, parts>> PROVE Outs' = Outs /\ parts' = parts
  BY <1>a DEF Outs
<1>b. ASSUME NEW n, NEW d, NEW i, NEW t \in {"IN", "ADJUSTMENT"}, NEW q, Journaled(r, n, d, i, t, q) PROVE Outs' = Outs
  BY <1>b DEF Outs, Journaled
<1>1. CASE PurchaseStep(r) /\ UNCHANGED <<sessions, repairs, depots>>
  <2>1. UNCHANGED movements \/ Journaled(r, 1, call[r].id, seen[r].item, "IN", seen[r].quantity)
    BY <1>1 DEF PurchaseStep, CreatePurchase, FindPurchase, UpdatePurchase, DeletePurchase, MarkReceived,
       FindReceivedItem, JournalReceipt, StoreReceipt, shelf
  <2>2. QED
    BY <1>1, <1>a, <1>b, <2>1 DEF repairs
<1>2. CASE InventoryStep(r) /\ UNCHANGED <<purchases, repairs, depots>>
  <2>1. CASE CountShelf(r) \/ CreateSession(r) \/ FindSession(r) \/ FindLine(r) \/ CountLine(r) \/ CompleteSession(r)
             \/ StoreCount(r) \/ SetAdjusted(r)
    BY <1>2, <1>a, <2>1 DEF CountShelf, CreateSession, FindSession, FindLine, CountLine, CompleteSession,
       StoreCount, SetAdjusted, shelf, repairs
  <2>2. CASE JournalAdjustment(r)
    <3>1. UNCHANGED movements \/ \E d, i, q : Journaled(r, 1, d, i, "ADJUSTMENT", q)
      BY <2>2 DEF JournalAdjustment, shelf
    <3>2. QED
      BY <1>2, <1>a, <1>b, <3>1 DEF repairs
  <2>3. QED
    BY <1>2, <2>1, <2>2 DEF InventoryStep
<1>3. CASE TicketStep(r)
  <2>1. UNCHANGED parts /\ (UNCHANGED movements \/ Journaled(r, 1, call[r].id, r, "IN", 1))
    BY <1>3 DEF TicketStep, CountTickets, CreateTicket, FindTicket, CheckPart, DecrementPart, JournalPart, AttachPart,
       UpdateTicket, CommitParts, FindImpossible, MarkConverted, CreateRefurbished, JournalRefurbished, At, repairs, shelf
  <2>2. QED
    BY <1>a, <1>b, <2>1
<1>4. CASE RemoveItem(r)
  <2>1. \/ UNCHANGED <<movements, parts>>
        \/ /\ movements' = {m \in movements : m.item # call[r].item}
           /\ parts' = {p \in parts : p.item # call[r].item}
    BY <1>4 DEF RemoveItem
  <2>2. QED
    BY <1>a, <2>1 DEF Outs
<1>5. CASE FindItem(r) \/ (DepotStep(r) /\ UNCHANGED shop)
  BY <1>5, <1>a DEF FindItem, shop
<1>6. QED
  BY <1>1, <1>2, <1>3, <1>4, <1>5 DEF ShopStep

LEMMA DeductStart == Init => DeductInv
<1> SUFFICES ASSUME Init PROVE DeductInv
  OBVIOUS
<1>1. movements = {} /\ pc = [r \in Requests |-> "idle"]
  BY DEF Init, ShopInit, ShelfInit, ServerInit
<1>2. Outs = {} /\ \A r \in Requests : ~Busy(r)
  BY <1>1 DEF Outs, Busy, PartSteps
<1>3. QED
  BY <1>2 DEF DeductInv, OutsOwned, OutsAttached, OneRequestEach, Deducting

LEMMA DeductNext ==
  ASSUME ServerInv, AloneInv, DeductInv, [Next]_vars
  PROVE  DeductInv'
<1>0. UNCHANGED scene
  BY RestartFacts DEF Next, vars, serverVars, Clock
<1> DEFINE Held == OutsOwned /\ OutsAttached /\ OneRequestEach /\ \A r \in Requests : Deducting(r)
<1> SUFFICES ASSUME Apart PROVE Held'
  BY <1>0 DEF DeductInv, Apart
<1>a. OutsOwned /\ OutsAttached /\ OneRequestEach /\ \A r \in Requests : Deducting(r)
  BY DEF DeductInv
<1>1. ASSUME UNCHANGED <<pc, call, seen, movements, parts>> PROVE Held'
  <2>1. Outs' = Outs
    BY <1>1 DEF Outs
  <2>2. OutsOwned' /\ OutsAttached' /\ OneRequestEach'
    BY <1>1, <1>a, <2>1 DEF OutsOwned, Deducts, OutsAttached, OneRequestEach
  <2>3. \A r \in Requests : Deducting(r)'
    BY <1>1, <1>a, <2>1 DEF Deducting, Busy, Deducts, Part
  <2>4. QED
    BY <2>2, <2>3
<1>2. ASSUME NEW r \in Requests, Request(r) PROVE Held'
  <2>1. CASE Arrive(r) /\ UNCHANGED tables
    <3>1. /\ Moves(r) /\ pc[r] = "idle" /\ pc'[r] = "start" /\ seen' = seen
          /\ \A s \in Requests \ {r} : call'[s] = call[s]
      BY <2>1, ArriveFacts
    <3>2. UNCHANGED <<movements, parts>> /\ Outs' = Outs
      BY <2>1 DEF tables, shopTables, shop, Outs
    <3>3. OutsOwned' /\ OutsAttached' /\ OneRequestEach'
      BY <1>a, <3>1, <3>2, DeductOther
    <3>4. ASSUME NEW s \in Requests PROVE Deducting(s)'
      <4>1. CASE s = r
        BY <3>1, <4>1 DEF Deducting, Busy, PartSteps
      <4>2. CASE s # r
        <5>1. pc'[s] = pc[s] /\ call'[s] = call[s] /\ seen'[s] = seen[s]
          BY <3>1, <4>2 DEF Moves
        <5>2. (Busy(s)' <=> Busy(s)) /\ (Deducts(s)' <=> Deducts(s)) /\ Part(s)' = Part(s)
          BY <5>1 DEF Busy, Deducts, Part
        <5>3. \A m \in Outs : pc[m.by] # "done" => pc'[m.by] # "done"
          BY <1>a, <3>1 DEF Moves, OutsOwned
        <5>4. QED
          BY <1>a, <3>2, <5>1, <5>2, <5>3 DEF Deducting
      <4>3. QED
        BY <4>1, <4>2
    <3>5. QED
      BY <3>3, <3>4
  <2>2. ASSUME r \in InFlight, Moves(r), UNCHANGED call, OutsOwned', OutsAttached', OneRequestEach', Deducting(r)'
        PROVE  Held'
    BY <2>2, OthersRest
  <2>3. ASSUME r \in InFlight, Moves(r), UNCHANGED call, Outs' \subseteq Outs,
               \A p \in parts : p \in parts' \/ \A m \in Outs' : m.item # p.item,
               call[r].op # "ticketStatus" \/ pc'[r] = "failed"
        PROVE  Held'
    <3>1. OutsOwned' /\ OutsAttached' /\ OneRequestEach'
      BY <1>a, <2>3, DeductOther
    <3>2. Deducting(r)'
      BY <2>3 DEF Deducting, Busy, PartSteps
    <3>3. QED
      BY <2>2, <2>3, <3>1, <3>2
  <2>4. CASE Fail(r) /\ UNCHANGED tables
    <3>1. Outs' = Outs /\ parts' = parts
      BY <2>4 DEF tables, shopTables, shop, Outs
    <3>2. QED
      BY <2>3, <2>4, <3>1, FailFacts
  <2>5. CASE ShopStep(r) /\ UNCHANGED call /\ Moves(r) /\ r \in InFlight
    <3>1. CASE call[r].op = "ticketStatus"
      <4>1. TicketStep(r)
        BY <2>5, <3>1, StepKinds DEF ShopStep, PurchaseOps, InventoryOps, DepotOps
      <4>2. QED
        BY <1>a, <2>2, <2>5, <3>1, <4>1, StatusStepDeducts
    <3>2. CASE call[r].op # "ticketStatus"
      BY <2>3, <2>5, <3>2, OtherStepsDeduct
    <3>3. QED
      BY <3>1, <3>2
  <2>6. CASE UNCHANGED <<call, shopTables>> /\ Moves(r) /\ r \in InFlight /\ call[r].op \notin ShopOps
    <3>1. Outs' = Outs /\ parts' = parts /\ call[r].op # "ticketStatus"
      BY <2>6 DEF shopTables, shop, Outs, ShopOps
    <3>2. QED
      BY <2>3, <2>6, <3>1
  <2>7. QED
    BY <1>2, <2>1, <2>4, <2>5, <2>6, NotShop, RequestCases
<1>3. CASE Restart
  <2>1. /\ UNCHANGED <<call, movements, parts>>
        /\ \A r \in Requests : IF r \in InFlight THEN pc'[r] = "failed" ELSE pc'[r] = pc[r]
    BY <1>3, RestartFacts DEF shopTables, shop
  <2>2. Outs' = Outs
    BY <2>1 DEF Outs
  <2>3. \A r \in Requests : /\ pc'[r] = "done" => pc[r] = "done"
                            /\ pc[r] \notin {"idle", "start"} => pc'[r] \notin {"idle", "start"}
                            /\ ~Busy(r)'
    BY <2>1 DEF InFlight, Ended, Busy, PartSteps
  <2>4. OutsOwned'
    BY <1>a, <2>1, <2>2, <2>3 DEF OutsOwned, Deducts
  <2>5. OutsAttached' /\ OneRequestEach'
    BY <1>a, <2>1, <2>2, <2>3 DEF OutsOwned, OutsAttached, OneRequestEach
  <2>6. QED
    BY <2>3, <2>4, <2>5 DEF Deducting
<1>4. QED
  BY <1>1, <1>2, <1>3 DEF Next, Clock, vars, serverVars, shopTables, shop

(* Of requests that do not overlap, two that end well never both take      *)
(* parts from the shelf for one ticket, whatever fails half way and        *)
(* whatever is deleted in between (it-ticket.service.ts:57).               *)
THEOREM TicketsDeductOnce == Spec => []PartsDeductedOnce
<1>1. DeductInv => PartsDeductedOnce
  BY DEF DeductInv, OneRequestEach, Outs, PartsDeductedOnce
<1>2. Init => ServerInv /\ AloneInv /\ DeductInv
  BY ServerStart, AloneStart, DeductStart
<1>3. ServerInv /\ AloneInv /\ DeductInv /\ [Next]_vars => (ServerInv /\ AloneInv /\ DeductInv)'
  BY ServerStep, AloneStep, DeductNext
<1>4. QED
  BY <1>1, <1>2, <1>3, PTL DEF Spec

-----------------------------------------------------------------------------
(* Receipts.  ReceivedOnce is not inductive: an order already marked as    *)
(* received has its receipt still to come, and an order whose receipts are *)
(* as many as its reopenings is the one that may be received.  A receipt   *)
(* names its order, so no row of another table may have its name.          *)
Bought(p)   == p \in DOMAIN OldPurchases \/ (p \in Requests /\ call[p].op = "createPurchase" /\ pc[p] = "done")
Ticketed(t) == t \in DOMAIN OldTickets \/ (t \in Requests /\ call[t].op = "createTicket" /\ pc[t] = "done")

Booking(r) == call[r].op = "receivePurchase" /\ pc[r] \in {"item", "journal"}

Ins == {m \in movements : m.type = "IN"}

Traced(r) ==
  /\ Booking(r) => Bought(call[r].id)
  /\ call[r].op = "convertTicket" /\ pc[r] \in {"update", "article", "journal"} => Ticketed(call[r].id)

DocInv ==
  /\ IsFiniteSet(movements)
  /\ purchases \in [DOMAIN purchases -> PurchaseRow]
  /\ \A p \in DOMAIN purchases : Bought(p)
  /\ \A t \in DOMAIN tickets : Ticketed(t)
  /\ \A m \in Ins : Bought(m.doc) \/ Ticketed(m.doc)
  /\ \A r \in Requests : Traced(r)

Steady(r) == \A s \in Requests : call'[s] = call[s] \/ (s = r /\ pc[r] = "idle")

LEMMA DocStays ==
  ASSUME ServerInv, NEW r \in Requests, Moves(r), Steady(r), pc[r] # "done"
  PROVE  \A x : (Bought(x) => Bought(x)') /\ (Ticketed(x) => Ticketed(x)')
BY DEF Bought, Ticketed, Moves, Steady

LEMMA DocKept ==
  ASSUME ServerInv, DocInv, NEW r \in Requests, Moves(r), Steady(r), pc[r] # "done",
         IsFiniteSet(movements'), purchases' \in [DOMAIN purchases' -> PurchaseRow],
         \A p \in DOMAIN purchases' : p \in DOMAIN purchases \/ Bought(p)',
         \A t \in DOMAIN tickets' : t \in DOMAIN tickets \/ Ticketed(t)',
         \A m \in Ins' : m \in Ins \/ Bought(m.doc)' \/ Ticketed(m.doc)',
         Traced(r)'
  PROVE  DocInv'
<1>1. \A x : (Bought(x) => Bought(x)') /\ (Ticketed(x) => Ticketed(x)')
  BY DocStays
<1>2. \A s \in Requests \ {r} : Traced(s)'
  BY <1>1 DEF DocInv, Traced, Booking, Moves, Steady
<1>3. \A p \in DOMAIN purchases' : Bought(p)'
  BY <1>1 DEF DocInv
<1>4. \A t \in DOMAIN tickets' : Ticketed(t)'
  BY <1>1 DEF DocInv
<1>5. \A m \in Ins' : Bought(m.doc)' \/ Ticketed(m.doc)'
  BY <1>1 DEF DocInv
<1>6. QED
  BY <1>2, <1>3, <1>4, <1>5 DEF DocInv

LEMMA DocOther ==
  ASSUME ServerInv, DocInv, NEW r \in Requests, Moves(r), Steady(r), pc[r] # "done",
         IsFiniteSet(movements'), purchases' \in [DOMAIN purchases' -> PurchaseRow],
         DOMAIN purchases' \subseteq DOMAIN purchases, DOMAIN tickets' \subseteq DOMAIN tickets, Ins' \subseteq Ins,
         \/ pc'[r] \in {"start", "failed"}
         \/ call'[r].op \notin {"receivePurchase", "convertTicket"}
  PROVE  DocInv'
<1>1. Traced(r)'
  BY DEF Traced, Booking
<1>2. QED
  BY <1>1, DocKept

LEMMA JournaledFinite ==
  ASSUME NEW r, NEW n, NEW d, NEW i, NEW t, NEW q, Journaled(r, n, d, i, t, q), IsFiniteSet(movements)
  PROVE  /\ IsFiniteSet(movements')
         /\ \A m \in movements' : m \in movements \/ (m.by = r /\ m.n = n /\ m.doc = d /\ m.item = i /\ m.type = t /\ m.quantity = q)
BY FS_AddElement DEF Journaled

LEMMA PurchaseStepDocs ==
  ASSUME ServerInv, DocInv, NEW r \in Requests, call[r].op \in ShopOps => call[r] \in ShopCalls,
         PurchaseStep(r), UNCHANGED <<call, tickets>>
  PROVE  DocInv'
<1>0. /\ Moves(r) /\ pc[r] # "done" /\ Steady(r)
      /\ IsFiniteSet(movements) /\ purchases \in [DOMAIN purchases -> PurchaseRow]
  BY PurchaseMoves DEF InFlight, Ended, Steady, DocInv
<1>1. CASE CreatePurchase(r)
  <2>1. call[r].op = "createPurchase" /\ UNCHANGED movements
    BY <1>1 DEF CreatePurchase, At, shelf
  <2>2. call[r].row \in PurchaseRow
    BY <2>1 DEF ShopOps, ShopCalls, PurchaseCalls, SessionCalls, TicketCalls, DepotCalls
  <2>3. \/ UNCHANGED purchases
        \/ pc'[r] = "done" /\ purchases' = Put(purchases, r, call[r].row)
    BY <1>1, AnswerFacts DEF CreatePurchase
  <2>4. purchases' \in [DOMAIN purchases' -> PurchaseRow]
    BY <1>0, <2>2, <2>3 DEF Put
  <2>5. \A p \in DOMAIN purchases' : p \in DOMAIN purchases \/ Bought(p)'
    BY <2>1, <2>3 DEF Put, Bought
  <2>6. Traced(r)'
    BY <2>1 DEF Traced, Booking
  <2>7. QED
    BY <1>0, <2>1, <2>4, <2>5, <2>6, DocKept DEF Ins
<1>2. CASE FindPurchase(r)
  <2>1. UNCHANGED <<movements, purchases>> /\ call[r].op # "convertTicket"
    BY <1>2 DEF FindPurchase, At, shelf
  <2>2. pc'[r] \in {"write", "refused"}
    BY <1>2, KeepFacts, AnswerFacts DEF FindPurchase
  <2>3. Traced(r)'
    BY <2>1, <2>2 DEF Traced, Booking
  <2>4. QED
    BY <1>0, <2>1, <2>3, DocKept DEF Ins
<1>3. CASE UpdatePurchase(r)
  <2>1. call[r].op = "updatePurchase" /\ UNCHANGED movements
    BY <1>3 DEF UpdatePurchase, At, shelf
  <2>2. call[r].row \in PurchaseRow
    BY <2>1 DEF ShopOps, ShopCalls, PurchaseCalls, SessionCalls, TicketCalls, DepotCalls
  <2>3. \/ UNCHANGED purchases
        \/ purchases' = [purchases EXCEPT ![call[r].id] = call[r].row]
    BY <1>3 DEF UpdatePurchase
  <2>4. purchases' \in [DOMAIN purchases' -> PurchaseRow] /\ DOMAIN purchases' = DOMAIN purchases
    BY <1>0, <2>2, <2>3
  <2>5. QED
    BY <1>0, <2>1, <2>4, DocOther DEF Ins
<1>4. CASE DeletePurchase(r)
  <2>1. call[r].op = "deletePurchase" /\ UNCHANGED movements
    BY <1>4 DEF DeletePurchase, At, shelf
  <2>2. UNCHANGED purchases \/ purchases' = Without(purchases, call[r].id)
    BY <1>4 DEF DeletePurchase
  <2>3. purchases' \in [DOMAIN purchases' -> PurchaseRow] /\ DOMAIN purchases' \subseteq DOMAIN purchases
    BY <1>0, <2>2 DEF Without
  <2>4. QED
    BY <1>0, <2>1, <2>3, DocOther DEF Ins
<1>5. CASE MarkReceived(r)
  <2>1. call[r].op = "receivePurchase" /\ UNCHANGED movements
    BY <1>5 DEF MarkReceived, At, shelf
  <2>2. \/ UNCHANGED purchases /\ pc'[r] = "refused"
        \/ /\ purchases' = [purchases EXCEPT ![call[r].id].status = "RECEIVED"]
           /\ call[r].id \in DOMAIN purchases
    BY <1>5, AnswerFacts DEF MarkReceived
  <2>3. purchases' \in [DOMAIN purchases' -> PurchaseRow] /\ DOMAIN purchases' = DOMAIN purchases
    BY <1>0, <2>2 DEF PurchaseRow, PurchaseStatuses
  <2>4. Traced(r)'
    <3>1. CASE pc'[r] = "refused"
      BY <2>1, <3>1 DEF Traced, Booking
    <3>2. CASE call[r].id \in DOMAIN purchases
      BY <1>0, <2>1, <3>2, DocStays DEF Traced, DocInv
    <3>3. QED
      BY <2>2, <3>1, <3>2
  <2>5. QED
    BY <1>0, <2>1, <2>3, <2>4, DocKept DEF Ins
<1>6. CASE FindReceivedItem(r)
  <2>1. call[r].op = "receivePurchase" /\ pc[r] = "item" /\ UNCHANGED <<purchases, movements>>
    BY <1>6 DEF FindReceivedItem, At, shelf
  <2>2. Bought(call[r].id)
    BY <2>1 DEF DocInv, Traced, Booking
  <2>3. Traced(r)'
    BY <1>0, <2>1, <2>2, DocStays DEF Traced
  <2>4. QED
    BY <1>0, <2>1, <2>3, DocKept DEF Ins
<1>7. CASE JournalReceipt(r)
  <2>1. call[r].op = "receivePurchase" /\ pc[r] = "journal" /\ UNCHANGED purchases
    BY <1>7 DEF JournalReceipt, At
  <2>2. Bought(call[r].id) /\ Bought(call[r].id)'
    BY <1>0, <2>1, DocStays DEF DocInv, Traced, Booking
  <2>3. UNCHANGED movements \/ Journaled(r, 1, call[r].id, seen[r].item, "IN", seen[r].quantity)
    BY <1>7 DEF JournalReceipt
  <2>4. IsFiniteSet(movements') /\ \A m \in movements' : m \in movements \/ m.doc = call[r].id
    BY <1>0, <2>3, JournaledFinite
  <2>5. Traced(r)'
    BY <2>1, <2>2 DEF Traced
  <2>6. QED
    BY <1>0, <2>1, <2>2, <2>4, <2>5, DocKept DEF Ins
<1>8. CASE StoreReceipt(r)
  <2>1. pc'[r] \in {"done", "refused"} /\ UNCHANGED <<purchases, movements>>
    BY <1>8, AnswerFacts DEF StoreReceipt
  <2>2. Traced(r)'
    BY <2>1 DEF Traced, Booking
  <2>3. QED
    BY <1>0, <2>1, <2>2, DocKept DEF Ins
<1>9. QED
  BY <1>1, <1>2, <1>3, <1>4, <1>5, <1>6, <1>7, <1>8 DEF PurchaseStep

LEMMA TicketStepDocs ==
  ASSUME ServerInv, DocInv, NEW r \in Requests, TicketStep(r), UNCHANGED <<call, purchases>>
  PROVE  DocInv'
<1>0. /\ Moves(r) /\ pc[r] # "done" /\ Steady(r)
      /\ IsFiniteSet(movements) /\ purchases' \in [DOMAIN purchases' -> PurchaseRow]
  BY TicketMoves DEF InFlight, Ended, Steady, DocInv
<1>1. CASE CountTickets(r) \/ CreateTicket(r)
  <2>1. call[r].op = "createTicket" /\ UNCHANGED movements
    BY <1>1 DEF CountTickets, CreateTicket, At, shelf
  <2>2. \/ UNCHANGED tickets
        \/ pc'[r] = "done" /\ DOMAIN tickets' = DOMAIN tickets \cup {r}
    BY <1>1, AnswerFacts DEF CountTickets, CreateTicket, repairs, Put
  <2>3. \A t \in DOMAIN tickets' : t \in DOMAIN tickets \/ Ticketed(t)'
    BY <2>1, <2>2 DEF Ticketed
  <2>4. Traced(r)'
    BY <2>1 DEF Traced, Booking
  <2>5. QED
    BY <1>0, <2>1, <2>3, <2>4, DocKept DEF Ins
<1>2. CASE FindTicket(r) \/ CheckPart(r) \/ DecrementPart(r) \/ AttachPart(r) \/ UpdateTicket(r) \/ CommitParts(r)
  <2>1. call[r].op = "ticketStatus" /\ UNCHANGED movements /\ DOMAIN tickets' = DOMAIN tickets
    BY <1>2 DEF FindTicket, CheckPart, DecrementPart, AttachPart, UpdateTicket, CommitParts, At, shelf, repairs
  <2>2. QED
    BY <1>0, <2>1, DocOther DEF Ins
<1>3. CASE JournalPart(r)
  <2>1. call[r].op = "ticketStatus" /\ UNCHANGED tickets
    BY <1>3 DEF JournalPart, At, repairs
  <2>2. UNCHANGED movements \/ Journaled(r, seen[r].n, call[r].id, Part(r).item, "OUT", Part(r).quantity)
    BY <1>3 DEF JournalPart
  <2>3. IsFiniteSet(movements') /\ \A m \in movements' : m \in movements \/ m.type = "OUT"
    BY <1>0, <2>2, JournaledFinite
  <2>4. QED
    BY <1>0, <2>1, <2>3, DocOther DEF Ins
<1>4. CASE FindImpossible(r) \/ MarkConverted(r) \/ CreateRefurbished(r)
  <2>1. /\ call[r].op = "convertTicket" /\ UNCHANGED movements /\ DOMAIN tickets' = DOMAIN tickets
        /\ pc[r] = "start" => Refuse(r) \/ call[r].id \in DOMAIN tickets
        /\ pc[r] \in {"start", "update", "article"}
    BY <1>4 DEF FindImpossible, MarkConverted, CreateRefurbished, At, shelf, repairs
  <2>2. pc'[r] = "refused" \/ Ticketed(call[r].id)
    BY <2>1, AnswerFacts DEF DocInv, Traced
  <2>3. Traced(r)'
    BY <1>0, <2>1, <2>2, DocStays DEF Traced, Booking
  <2>4. QED
    BY <1>0, <2>1, <2>3, DocKept DEF Ins
<1>5. CASE JournalRefurbished(r)
  <2>1. call[r].op = "convertTicket" /\ pc[r] = "journal" /\ UNCHANGED tickets
    BY <1>5 DEF JournalRefurbished, At, repairs
  <2>2. Ticketed(call[r].id) /\ Ticketed(call[r].id)'
    BY <1>0, <2>1, DocStays DEF DocInv, Traced
  <2>3. UNCHANGED movements \/ Journaled(r, 1, call[r].id, r, "IN", 1)
    BY <1>5 DEF JournalRefurbished
  <2>4. IsFiniteSet(movements') /\ \A m \in movements' : m \in movements \/ m.doc = call[r].id
    BY <1>0, <2>3, JournaledFinite
  <2>5. Traced(r)'
    BY <2>1, <2>2 DEF Traced, Booking
  <2>6. QED
    BY <1>0, <2>1, <2>2, <2>4, <2>5, DocKept DEF Ins
<1>6. QED
  BY <1>1, <1>2, <1>3, <1>4, <1>5 DEF TicketStep

LEMMA DocStart == Init => DocInv
BY FS_EmptySet, PurchasesAssumption, TicketsAssumption
   DEF Init, ShopInit, ShelfInit, PurchasesInit, TicketsInit, ServerInit, NoCall, DocInv, Bought, Ticketed, Ins, Traced, Booking

LEMMA DocNext ==
  ASSUME ServerInv, Asking, DocInv, [Next]_vars
  PROVE  DocInv'
<1>1. CASE UNCHANGED <<pc, call, movements, purchases, tickets>>
  BY <1>1 DEF DocInv, Bought, Ticketed, Ins, Traced, Booking
<1>2. ASSUME NEW r \in Requests, Request(r) PROVE DocInv'
  <2>0. ASSUME r \in InFlight, UNCHANGED call PROVE pc[r] # "done" /\ Steady(r)
    BY <2>0 DEF InFlight, Ended, Steady
  <2>1. CASE (Arrive(r) \/ Fail(r)) /\ UNCHANGED tables
    <3>1. /\ Moves(r) /\ pc'[r] \in {"start", "failed"} /\ pc[r] # "done" /\ Steady(r)
      BY <2>0, <2>1, ArriveFacts, FailFacts DEF Steady
    <3>2. UNCHANGED <<movements, purchases, tickets>>
      BY <2>1 DEF tables, shopTables, shop
    <3>3. QED
      BY <3>1, <3>2, DocOther DEF DocInv, Ins
  <2>2. CASE ShopStep(r) /\ UNCHANGED call /\ Moves(r) /\ r \in InFlight
    <3>1. CASE PurchaseStep(r) /\ UNCHANGED repairs
      BY <2>2, <3>1, CallsTyped, PurchaseStepDocs DEF repairs
    <3>2. CASE InventoryStep(r) /\ UNCHANGED <<purchases, repairs>>
      <4>1. UNCHANGED movements \/ \E d, i, q : Journaled(r, 1, d, i, "ADJUSTMENT", q)
        BY <3>2 DEF InventoryStep, CountShelf, CreateSession, FindSession, FindLine, CountLine, CompleteSession,
           JournalAdjustment, StoreCount, SetAdjusted, shelf
      <4>2. IsFiniteSet(movements') /\ \A m \in movements' : m \in movements \/ m.type = "ADJUSTMENT"
        BY <4>1, JournaledFinite DEF DocInv
      <4>3. Ins' \subseteq Ins /\ call[r].op \notin {"receivePurchase", "convertTicket"}
        BY <3>2, <4>2, StepKinds DEF Ins, InventoryOps
      <4>4. QED
        BY <2>0, <2>2, <3>2, <4>2, <4>3, DocOther DEF repairs, DocInv
    <3>3. CASE TicketStep(r) /\ UNCHANGED purchases
      BY <2>2, <3>3, TicketStepDocs
    <3>4. CASE FindItem(r) \/ RemoveItem(r)
      <4>1. call[r].op = "removeItem" /\ UNCHANGED tickets
        BY <3>4 DEF FindItem, RemoveItem, At, shop
      <4>2. movements' \subseteq movements
        BY <3>4 DEF FindItem, RemoveItem, shop
      <4>3. \/ UNCHANGED purchases
            \/ \E i : purchases' = [p \in DOMAIN purchases |-> IF purchases[p].item = i
                                      THEN [purchases[p] EXCEPT !.item = NoItem] ELSE purchases[p]]
        BY <3>4 DEF FindItem, RemoveItem, shop
      <4>4. purchases' \in [DOMAIN purchases -> PurchaseRow] /\ DOMAIN purchases' = DOMAIN purchases
        BY <4>3 DEF DocInv, PurchaseRow
      <4>5. IsFiniteSet(movements') /\ Ins' \subseteq Ins
        BY <4>2, FS_Subset DEF DocInv, Ins
      <4>6. QED
        BY <2>0, <2>2, <4>1, <4>4, <4>5, DocOther
    <3>5. CASE DepotStep(r) /\ UNCHANGED shop
      BY <2>0, <2>2, <3>5, StepKinds, DocOther DEF shop, DocInv, Ins, DepotOps
    <3>6. QED
      BY <2>2, <3>1, <3>2, <3>3, <3>4, <3>5 DEF ShopStep
  <2>3. CASE UNCHANGED <<call, shopTables>> /\ Moves(r) /\ r \in InFlight /\ call[r].op \notin ShopOps
    BY <2>0, <2>3, DocOther DEF shopTables, shop, ShopOps, DocInv, Ins
  <2>4. QED
    BY <1>2, <2>1, <2>2, <2>3, NotShop, RequestCases
<1>3. CASE Restart
  <2>1. /\ UNCHANGED <<call, movements, purchases, tickets>>
        /\ \A r \in Requests : IF r \in InFlight THEN pc'[r] = "failed" ELSE pc'[r] = pc[r]
    BY <1>3, RestartFacts DEF shopTables, shop
  <2>2. \A x : (Bought(x) => Bought(x)') /\ (Ticketed(x) => Ticketed(x)')
    BY <2>1 DEF Bought, Ticketed, InFlight, Ended
  <2>3. \A r \in Requests : Traced(r)'
    BY <2>1 DEF Traced, Booking, InFlight, Ended
  <2>4. QED
    BY <2>1, <2>2, <2>3 DEF DocInv, Ins
<1>4. QED
  BY <1>1, <1>2, <1>3 DEF Next, Clock, vars, serverVars, shopTables, shop

(* The count of an order: its receipts, and the one to come.               *)
Booked(p) == {r \in Requests : Booking(r) /\ call[r].id = p}
Owed(p)   == IF Booked(p) = {} THEN 0 ELSE 1
Taken(p)  == IF Received(p) THEN 1 ELSE 0

Balanced(p) == Cardinality(Receipts(p)) + Owed(p) <= Cardinality(Reopenings(p)) + Taken(p)

Unmarked(r) == At(r, {"receivePurchase"}, "write") /\ call[r].id \in DOMAIN purchases => ~Received(call[r].id)

ReceiptInv ==
  Apart => (\A p \in DOMAIN purchases : Balanced(p)) /\ (\A r \in Requests : Unmarked(r))

LEMMA ReceiptsFinite ==
  ASSUME IsFiniteSet(movements), NEW p
  PROVE  /\ IsFiniteSet(Receipts(p)) /\ Cardinality(Receipts(p)) \in Nat
         /\ IsFiniteSet(Reopenings(p)) /\ Cardinality(Reopenings(p)) \in Nat
<1>1. Receipts(p) \subseteq movements /\ Reopenings(p) \subseteq Requests
  BY DEF Receipts, Reopenings
<1>2. IsFiniteSet(Receipts(p)) /\ IsFiniteSet(Reopenings(p))
  BY <1>1, FS_Subset, RequestsAssumption
<1>3. QED
  BY <1>2, FS_CardinalityType

(* A step that books no receipt, and reopens no order.                     *)
LEMMA BalancedKept ==
  ASSUME IsFiniteSet(movements), IsFiniteSet(movements'), NEW p, Balanced(p),
         Receipts(p)' \subseteq Receipts(p), Reopenings(p) \subseteq Reopenings(p)',
         Booked(p)' = {} \/ Booked(p) # {}, Received(p) => Received(p)'
  PROVE  Balanced(p)'
<1>1. /\ Cardinality(Receipts(p)) \in Nat /\ Cardinality(Reopenings(p)) \in Nat
      /\ Cardinality(Receipts(p)') \in Nat /\ Cardinality(Reopenings(p)') \in Nat
  BY ReceiptsFinite, FS_Subset, FS_CardinalityType, RequestsAssumption DEF Reopenings
<1>2. Cardinality(Receipts(p)') <= Cardinality(Receipts(p))
  BY ReceiptsFinite, FS_Subset
<1>3. IsFiniteSet(Reopenings(p)')
  BY RequestsAssumption, FS_Subset DEF Reopenings
<1>4. Cardinality(Reopenings(p)) <= Cardinality(Reopenings(p)')
  BY <1>3, FS_Subset
<1>5. Owed(p)' <= Owed(p) /\ Owed(p) \in Nat /\ Owed(p)' \in Nat
  BY DEF Owed
<1>6. Taken(p) <= Taken(p)' /\ Taken(p) \in Nat /\ Taken(p)' \in Nat
  BY DEF Taken
<1>7. QED
  BY <1>1, <1>2, <1>4, <1>5, <1>6 DEF Balanced

(* Of requests that do not overlap, the one that moves is the only one     *)
(* that may have a receipt to book.                                        *)
LEMMA OnlyBooking ==
  ASSUME ServerInv, AloneInv, Apart, NEW r \in Requests, r \in InFlight, Moves(r), UNCHANGED call, NEW p
  PROVE  /\ Booked(p) = IF Booking(r) /\ call[r].id = p THEN {r} ELSE {}
         /\ Booked(p)' = IF Booking(r)' /\ call[r].id = p THEN {r} ELSE {}
         /\ Reopenings(p) \subseteq Reopenings(p)'
         /\ r \notin Reopenings(p)
         /\ \A s \in Requests \ {r} : Unmarked(s)'
<1>1. \A s \in Requests \ {r} : s \notin InFlight /\ pc'[s] = pc[s]
  BY DEF AloneInv, Moves
<1>2. \A s \in Requests \ {r} : ~Booking(s) /\ ~Booking(s)' /\ pc'[s] # "write"
  BY <1>1 DEF Booking, InFlight, Ended
<1>3. pc[r] # "done"
  BY DEF InFlight, Ended
<1>4. QED
  BY <1>1, <1>2, <1>3 DEF Booked, Reopenings, Unmarked, At

(* A step that books none of the receipts, and changes no order's status.  *)
LEMMA ReceiptOther ==
  ASSUME ServerInv, AloneInv, DocInv, DocInv', ReceiptInv, Apart, Apart', NEW r \in Requests, r \in InFlight, Moves(r),
         UNCHANGED call, DOMAIN purchases' \subseteq DOMAIN purchases,
         \A p \in DOMAIN purchases' : Receipts(p)' \subseteq Receipts(p) /\ (Received(p)' <=> Received(p)),
         Booking(r)' => Booking(r), Unmarked(r)'
  PROVE  ReceiptInv'
<1>1. ASSUME NEW p \in DOMAIN purchases' PROVE Balanced(p)'
  <2>1. Balanced(p) /\ IsFiniteSet(movements) /\ IsFiniteSet(movements')
    BY DEF ReceiptInv, DocInv
  <2>2. Reopenings(p) \subseteq Reopenings(p)' /\ (Booked(p)' = {} \/ Booked(p) # {})
    BY OnlyBooking
  <2>3. QED
    BY <2>1, <2>2, BalancedKept
<1>2. \A s \in Requests \ {r} : Unmarked(s)'
  BY OnlyBooking
<1>3. QED
  BY <1>1, <1>2 DEF ReceiptInv

LEMMA PurchaseStepReceipts ==
  ASSUME ServerInv, AloneInv, DocInv, DocInv', ReceiptInv, Apart, Apart', NEW r \in Requests,
         PurchaseStep(r), UNCHANGED call
  PROVE  ReceiptInv'
<1>0. Moves(r) /\ r \in InFlight
  BY PurchaseMoves
<1>a. \A p \in DOMAIN purchases : Balanced(p)
  BY DEF ReceiptInv
<1>b. IsFiniteSet(movements) /\ IsFiniteSet(movements')
  BY DEF DocInv
<1>c. ASSUME \A p \in DOMAIN purchases' : Balanced(p)', Unmarked(r)' PROVE ReceiptInv'
  BY <1>0, <1>c, OnlyBooking DEF ReceiptInv
<1>1. CASE CreatePurchase(r)
  <2>1. call[r].op = "createPurchase" /\ UNCHANGED movements
    BY <1>1 DEF CreatePurchase, At, shelf
  <2>2. Unmarked(r)' /\ ~Booking(r)'
    BY <2>1 DEF Unmarked, At, Booking
  <2>3. CASE UNCHANGED purchases
    BY <1>0, <2>1, <2>2, <2>3, ReceiptOther DEF Receipts, Received
  <2>4. CASE purchases' = Put(purchases, r, call[r].row)
    <3>1. DOMAIN purchases' = DOMAIN purchases \cup {r} /\ \A p \in DOMAIN purchases : p # r => purchases'[p] = purchases[p]
      BY <2>4 DEF Put
    <3>2. Balanced(r)'
      <4>1. ~Bought(r) /\ ~Ticketed(r)
        BY <1>0, <2>1, PurchasesAssumption, TicketsAssumption DEF Bought, Ticketed, InFlight, Ended
      <4>2. Receipts(r)' = {}
        BY <2>1, <4>1 DEF DocInv, Ins, Receipts
      <4>3. Booked(r)' = {}
        <5>1. Booked(r) = {}
          BY <4>1 DEF DocInv, Traced, Booked
        <5>2. QED
          BY <1>0, <2>2, OnlyBooking
      <4>4. Cardinality(Reopenings(r)') \in Nat /\ Taken(r)' \in Nat
        BY RequestsAssumption, FS_Subset, FS_CardinalityType DEF Reopenings, Taken
      <4>5. QED
        BY <4>2, <4>3, <4>4, FS_EmptySet DEF Balanced, Owed
    <3>3. ASSUME NEW p \in DOMAIN purchases, p # r PROVE Balanced(p)'
      <4>1. Receipts(p)' = Receipts(p) /\ Received(p)' = Received(p)
        BY <2>1, <3>1, <3>3 DEF Receipts, Received
      <4>2. Reopenings(p) \subseteq Reopenings(p)' /\ Booked(p)' = {}
        BY <1>0, <2>2, OnlyBooking
      <4>3. QED
        BY <1>a, <1>b, <4>1, <4>2, BalancedKept
    <3>4. QED
      BY <1>c, <2>2, <3>1, <3>2, <3>3
  <2>5. QED
    BY <1>1, <2>3, <2>4 DEF CreatePurchase
<1>2. CASE FindPurchase(r)
  <2>1. UNCHANGED <<movements, purchases>>
    BY <1>2 DEF FindPurchase, shelf
  <2>2. /\ pc'[r] \in {"write", "refused"}
        /\ pc'[r] = "write" /\ call[r].op = "receivePurchase" => ~Received(call[r].id)
    BY <1>2, KeepFacts, AnswerFacts DEF FindPurchase
  <2>3. Unmarked(r)' /\ ~Booking(r)'
    BY <2>1, <2>2 DEF Unmarked, At, Booking, Received
  <2>4. QED
    BY <1>0, <2>1, <2>3, ReceiptOther DEF Receipts, Received
<1>3. CASE UpdatePurchase(r)
  <2>1. call[r].op = "updatePurchase" /\ UNCHANGED movements
    BY <1>3 DEF UpdatePurchase, At, shelf
  <2>2. Unmarked(r)' /\ ~Booking(r) /\ ~Booking(r)'
    BY <2>1 DEF Unmarked, At, Booking
  <2>3. CASE UNCHANGED purchases
    BY <1>0, <2>1, <2>2, <2>3, ReceiptOther DEF Receipts, Received
  <2>4. CASE /\ purchases' = [purchases EXCEPT ![call[r].id] = call[r].row] /\ pc'[r] = "done"
             /\ call[r].id \in DOMAIN purchases
    <3> DEFINE o == call[r].id
    <3>1. DOMAIN purchases' = DOMAIN purchases /\ purchases'[o] = call[r].row /\ o \in DOMAIN purchases
          /\ \A p \in DOMAIN purchases : p # o => purchases'[p] = purchases[p]
      BY <2>4 DEF DocInv
    <3>2. ASSUME NEW p \in DOMAIN purchases, p # o \/ Received(p)' PROVE Balanced(p)'
      <4>1. Receipts(p)' = Receipts(p) /\ (Received(p) => Received(p)')
        BY <2>1, <3>1, <3>2 DEF Receipts, Received
      <4>2. Reopenings(p) \subseteq Reopenings(p)' /\ Booked(p)' = {}
        BY <1>0, <2>2, OnlyBooking
      <4>3. QED
        BY <1>a, <1>b, <4>1, <4>2, BalancedKept
    <3>3. CASE ~Received(o)'
      <4>1. Reopenings(o)' = Reopenings(o) \cup {r}
        <5>1. call[r].row.status # "RECEIVED"
          BY <3>1, <3>3 DEF Received
        <5>2. \A s \in Requests \ {r} : pc'[s] = pc[s]
          BY <1>0 DEF Moves
        <5>3. QED
          BY <2>1, <2>4, <5>1, <5>2 DEF Reopenings
      <4>2. r \notin Reopenings(o) /\ Booked(o) = {} /\ Booked(o)' = {}
        BY <1>0, <2>2, OnlyBooking
      <4>3. Cardinality(Reopenings(o)') = Cardinality(Reopenings(o)) + 1
        BY <1>b, <4>1, <4>2, ReceiptsFinite, FS_AddElement
      <4>4. Receipts(o)' = Receipts(o)
        BY <2>1 DEF Receipts
      <4>5. Cardinality(Receipts(o)) \in Nat /\ Cardinality(Reopenings(o)) \in Nat
        BY <1>b, ReceiptsFinite
      <4>6. Balanced(o)
        BY <1>a, <3>1
      <4>7. Cardinality(Receipts(o)) <= Cardinality(Reopenings(o)) + 1
        BY <4>2, <4>5, <4>6 DEF Balanced, Owed, Taken
      <4>8. Owed(o)' = 0 /\ Taken(o)' = 0
        BY <3>3, <4>2 DEF Owed, Taken
      <4> HIDE DEF o
      <4>9. Balanced(o)'
        BY <4>3, <4>4, <4>5, <4>7, <4>8 DEF Balanced
      <4>10. QED
        BY <1>c, <2>2, <3>1, <3>2, <4>9 DEF o
    <3>4. CASE Received(o)'
      BY <1>c, <2>2, <3>1, <3>2, <3>4
    <3>5. QED
      BY <3>3, <3>4
  <2>5. QED
    BY <1>3, <2>3, <2>4, AnswerFacts DEF UpdatePurchase
<1>4. CASE DeletePurchase(r)
  <2>1. call[r].op = "deletePurchase" /\ UNCHANGED movements
    BY <1>4 DEF DeletePurchase, At, shelf
  <2>2. Unmarked(r)' /\ ~Booking(r)'
    BY <2>1 DEF Unmarked, At, Booking
  <2>3. UNCHANGED purchases \/ purchases' = Without(purchases, call[r].id)
    BY <1>4 DEF DeletePurchase
  <2>4. DOMAIN purchases' \subseteq DOMAIN purchases /\ \A p \in DOMAIN purchases' : purchases'[p] = purchases[p]
    BY <2>3 DEF Without
  <2>5. QED
    BY <1>0, <2>1, <2>2, <2>4, ReceiptOther DEF Receipts, Received
<1>5. CASE MarkReceived(r)
  <2>1. call[r].op = "receivePurchase" /\ pc[r] = "write" /\ UNCHANGED movements
    BY <1>5 DEF MarkReceived, At, shelf
  <2>2. CASE UNCHANGED purchases /\ pc'[r] = "refused"
    <3>1. Unmarked(r)' /\ ~Booking(r)'
      BY <2>2 DEF Unmarked, At, Booking
    <3>2. QED
      BY <1>0, <2>1, <2>2, <3>1, ReceiptOther DEF Receipts, Received
  <2>3. CASE /\ purchases' = [purchases EXCEPT ![call[r].id].status = "RECEIVED"] /\ pc'[r] \in {"done", "item"}
             /\ call[r].id \in DOMAIN purchases
    <3> DEFINE o == call[r].id
    <3>1. o \in DOMAIN purchases /\ ~Received(o)
      BY <2>1, <2>3 DEF ReceiptInv, Unmarked, At
    <3>2. DOMAIN purchases' = DOMAIN purchases /\ \A p \in DOMAIN purchases : p # o => purchases'[p] = purchases[p]
      BY <2>3 DEF DocInv
    <3>3. Received(o)'
      <4>1. purchases[o] \in PurchaseRow
        BY <3>1 DEF DocInv
      <4>2. QED
        BY <2>3, <3>1, <4>1 DEF PurchaseRow, Received, DocInv
    <3>4. Unmarked(r)'
      BY <2>3 DEF Unmarked, At
    <3>5. ASSUME NEW p \in DOMAIN purchases, p # o PROVE Balanced(p)'
      <4>1. Receipts(p)' = Receipts(p) /\ Received(p)' = Received(p)
        BY <2>1, <3>2, <3>5 DEF Receipts, Received
      <4>2. Reopenings(p) \subseteq Reopenings(p)' /\ Booked(p)' = {}
        BY <1>0, <3>5, OnlyBooking
      <4>3. QED
        BY <1>a, <1>b, <4>1, <4>2, BalancedKept
    <3>6. Balanced(o)'
      <4>1. Receipts(o)' = Receipts(o)
        BY <2>1 DEF Receipts
      <4>2. Reopenings(o) \subseteq Reopenings(o)' /\ Booked(o) = {}
        BY <1>0, <2>1, OnlyBooking DEF Booking
      <4>3. Cardinality(Receipts(o)) \in Nat /\ Cardinality(Reopenings(o)) \in Nat
        BY <1>b, ReceiptsFinite
      <4>4. Cardinality(Reopenings(o)) <= Cardinality(Reopenings(o)') /\ Cardinality(Reopenings(o)') \in Nat
        <5>1. IsFiniteSet(Reopenings(o)')
          BY RequestsAssumption, FS_Subset DEF Reopenings
        <5>2. QED
          BY <4>2, <5>1, FS_Subset, FS_CardinalityType
      <4>5. Balanced(o)
        BY <1>a, <3>1
      <4>6. Cardinality(Receipts(o)) <= Cardinality(Reopenings(o))
        BY <3>1, <4>2, <4>3, <4>5 DEF Balanced, Owed, Taken
      <4>7. Owed(o)' \in 0..1 /\ Taken(o)' = 1
        BY <3>3 DEF Owed, Taken
      <4> HIDE DEF o
      <4>8. QED
        BY <4>1, <4>3, <4>4, <4>6, <4>7 DEF Balanced
    <3>7. QED
      BY <1>c, <3>2, <3>4, <3>5, <3>6
  <2>4. QED
    BY <1>5, <2>2, <2>3, GotoFacts, AnswerFacts DEF MarkReceived
<1>6. CASE FindReceivedItem(r) \/ StoreReceipt(r)
  <2>1. /\ UNCHANGED <<movements, purchases>> /\ call[r].op = "receivePurchase"
        /\ pc[r] = "item" \/ (pc[r] = "store" /\ (Answer(r, "done") \/ Refuse(r)))
        /\ pc[r] = "item" => Answer(r, "done") \/ \E v : Keep(r, "journal", v)
    BY <1>6 DEF FindReceivedItem, StoreReceipt, At, shelf
  <2>2. pc'[r] # "write" /\ (pc[r] = "item" \/ pc'[r] \in {"done", "refused"})
    BY <2>1, KeepFacts, AnswerFacts
  <2>3. Unmarked(r)' /\ (Booking(r)' => Booking(r))
    BY <2>1, <2>2 DEF Unmarked, At, Booking
  <2>4. QED
    BY <1>0, <2>1, <2>3, ReceiptOther DEF Receipts, Received
<1>7. CASE JournalReceipt(r)
  <2>1. call[r].op = "receivePurchase" /\ pc[r] = "journal" /\ UNCHANGED purchases
    BY <1>7 DEF JournalReceipt, At
  <2>2. pc'[r] \in {"refused", "store"}
    BY <1>7, GotoFacts, AnswerFacts DEF JournalReceipt
  <2>3. Unmarked(r)' /\ ~Booking(r)' /\ Booking(r)
    BY <2>1, <2>2 DEF Unmarked, At, Booking
  <2>4. CASE UNCHANGED movements
    BY <1>0, <2>1, <2>3, <2>4, ReceiptOther DEF Receipts, Received
  <2>5. CASE Journaled(r, 1, call[r].id, seen[r].item, "IN", seen[r].quantity)
    <3> DEFINE o == call[r].id
    <3>1. PICK m : /\ m = [by |-> r, n |-> 1, doc |-> o, item |-> seen[r].item, type |-> "IN", quantity |-> seen[r].quantity]
                   /\ movements' = movements \cup {m}
      BY <2>5 DEF Journaled
    <3>2. m.doc = o /\ m.type = "IN"
      BY <3>1
    <3>3. ASSUME NEW p \in DOMAIN purchases, p # o PROVE Balanced(p)'
      <4>1. Receipts(p)' = Receipts(p) /\ Received(p)' = Received(p)
        BY <2>1, <3>1, <3>2, <3>3 DEF Receipts, Received
      <4>2. Reopenings(p) \subseteq Reopenings(p)' /\ Booked(p)' = {}
        BY <1>0, <2>3, OnlyBooking
      <4>3. QED
        BY <1>a, <1>b, <4>1, <4>2, BalancedKept
    <3>4. ASSUME o \in DOMAIN purchases PROVE Balanced(o)'
      <4>1. Receipts(o)' = Receipts(o) \cup {m}
        BY <3>1, <3>2 DEF Receipts
      <4>2. Cardinality(Receipts(o)) \in Nat /\ IsFiniteSet(Receipts(o)) /\ Cardinality(Reopenings(o)) \in Nat
        BY <1>b, ReceiptsFinite
      <4>3. Cardinality(Receipts(o)') <= Cardinality(Receipts(o)) + 1 /\ Cardinality(Receipts(o)') \in Nat
        <5>1. Cardinality(Receipts(o) \cup {m}) = IF m \in Receipts(o) THEN Cardinality(Receipts(o))
                                                  ELSE Cardinality(Receipts(o)) + 1
          BY <4>2, FS_AddElement
        <5>2. QED
          BY <4>1, <4>2, <5>1
      <4>4. Booked(o) = {r} /\ Booked(o)' = {} /\ Reopenings(o) \subseteq Reopenings(o)'
        BY <1>0, <2>3, OnlyBooking
      <4>5. Cardinality(Reopenings(o)) <= Cardinality(Reopenings(o)') /\ Cardinality(Reopenings(o)') \in Nat
        <5>1. IsFiniteSet(Reopenings(o)')
          BY RequestsAssumption, FS_Subset DEF Reopenings
        <5>2. QED
          BY <4>4, <5>1, FS_Subset, FS_CardinalityType
      <4>6. Balanced(o)
        BY <1>a, <3>4
      <4>7. Owed(o) = 1 /\ Owed(o)' = 0 /\ Taken(o)' = Taken(o) /\ Taken(o) \in Nat
        BY <2>1, <4>4 DEF Owed, Taken, Received
      <4> HIDE DEF o
      <4>8. QED
        BY <4>2, <4>3, <4>5, <4>6, <4>7 DEF Balanced
    <3>5. QED
      BY <1>c, <2>1, <2>3, <3>3, <3>4
  <2>6. QED
    BY <1>7, <2>4, <2>5 DEF JournalReceipt
<1>8. QED
  BY <1>1, <1>2, <1>3, <1>4, <1>5, <1>6, <1>7 DEF PurchaseStep

(* The document of a ticket is no order's.                                 *)
LEMMA DocsApart == ASSUME NEW x PROVE ~(Bought(x) /\ Ticketed(x))
BY PurchasesAssumption, TicketsAssumption, ShopAssumption DEF Bought, Ticketed

LEMMA TicketStepReceipts ==
  ASSUME ServerInv, AloneInv, DocInv, DocInv', ReceiptInv, Apart, Apart', NEW r \in Requests,
         TicketStep(r), UNCHANGED <<call, purchases>>
  PROVE  ReceiptInv'
<1>0. Moves(r) /\ r \in InFlight
  BY TicketMoves
<1>1. call[r].op \in TicketOps
  BY StepKinds
<1>2. Unmarked(r)' /\ ~Booking(r)'
  BY <1>1 DEF Unmarked, At, Booking, TicketOps
<1>a. ASSUME \A m \in movements' : m \in movements \/ m.type = "OUT" PROVE ReceiptInv'
  <2>1. \A p : Receipts(p)' \subseteq Receipts(p)
    BY <1>a DEF Receipts
  <2>2. QED
    BY <1>0, <1>2, <2>1, ReceiptOther DEF Received
<1>3. CASE JournalPart(r)
  <2>1. UNCHANGED movements \/ Journaled(r, seen[r].n, call[r].id, Part(r).item, "OUT", Part(r).quantity)
    BY <1>3 DEF JournalPart
  <2>2. QED
    BY <1>a, <2>1, JournaledFinite DEF DocInv
<1>4. CASE JournalRefurbished(r)
  <2>1. call[r].op = "convertTicket" /\ pc[r] = "journal"
    BY <1>4 DEF JournalRefurbished, At
  <2>2. Ticketed(call[r].id)
    BY <2>1 DEF DocInv, Traced
  <2>3. \A p \in DOMAIN purchases : p # call[r].id
    BY <2>2, DocsApart DEF DocInv
  <2>4. UNCHANGED movements \/ Journaled(r, 1, call[r].id, r, "IN", 1)
    BY <1>4 DEF JournalRefurbished
  <2>5. \A m \in movements' : m \in movements \/ m.doc = call[r].id
    BY <2>4, JournaledFinite DEF DocInv
  <2>6. \A p \in DOMAIN purchases : Receipts(p)' \subseteq Receipts(p)
    BY <2>3, <2>5 DEF Receipts
  <2>7. QED
    BY <1>0, <1>2, <2>6, ReceiptOther DEF Received
<1>5. CASE UNCHANGED movements
  BY <1>a, <1>5
<1>6. QED
  BY <1>3, <1>4, <1>5 DEF TicketStep, CountTickets, CreateTicket, FindTicket, CheckPart, DecrementPart, AttachPart,
     UpdateTicket, CommitParts, FindImpossible, MarkConverted, CreateRefurbished, shelf

LEMMA ShopStepReceipts ==
  ASSUME ServerInv, AloneInv, DocInv, DocInv', ReceiptInv, Apart, Apart', NEW r \in Requests,
         ShopStep(r), UNCHANGED call, Moves(r), r \in InFlight
  PROVE  ReceiptInv'
<1>a. ASSUME call[r].op # "receivePurchase" PROVE Unmarked(r)' /\ ~Booking(r)'
  BY <1>a DEF Unmarked, At, Booking
<1>1. CASE PurchaseStep(r)
  BY <1>1, PurchaseStepReceipts
<1>2. CASE InventoryStep(r) /\ UNCHANGED purchases
  <2>1. UNCHANGED movements \/ \E d, i, q : Journaled(r, 1, d, i, "ADJUSTMENT", q)
    BY <1>2 DEF InventoryStep, CountShelf, CreateSession, FindSession, FindLine, CountLine, CompleteSession,
       JournalAdjustment, StoreCount, SetAdjusted, shelf
  <2>2. \A m \in movements' : m \in movements \/ m.type = "ADJUSTMENT"
    BY <2>1, JournaledFinite DEF DocInv
  <2>3. \A p : Receipts(p)' \subseteq Receipts(p)
    BY <2>2 DEF Receipts
  <2>4. call[r].op # "receivePurchase"
    BY <1>2, StepKinds DEF InventoryOps
  <2>5. QED
    BY <1>2, <1>a, <2>3, <2>4, ReceiptOther DEF Received
<1>3. CASE TicketStep(r) /\ UNCHANGED purchases
  BY <1>3, TicketStepReceipts
<1>4. CASE FindItem(r) \/ RemoveItem(r)
  <2>1. call[r].op # "receivePurchase" /\ movements' \subseteq movements
    BY <1>4 DEF FindItem, RemoveItem, At, shop
  <2>2. \/ UNCHANGED purchases
        \/ \E i : purchases' = [p \in DOMAIN purchases |-> IF purchases[p].item = i
                                  THEN [purchases[p] EXCEPT !.item = NoItem] ELSE purchases[p]]
    BY <1>4 DEF FindItem, RemoveItem, shop
  <2>3. DOMAIN purchases' = DOMAIN purchases /\ \A p \in DOMAIN purchases : purchases'[p].status = purchases[p].status
    BY <2>2 DEF DocInv, PurchaseRow
  <2>4. \A p \in DOMAIN purchases : Receipts(p)' \subseteq Receipts(p) /\ (Received(p)' <=> Received(p))
    BY <2>1, <2>3 DEF Receipts, Received
  <2>5. QED
    BY <1>a, <2>1, <2>3, <2>4, ReceiptOther
<1>5. CASE DepotStep(r) /\ UNCHANGED shop
  <2>1. call[r].op # "receivePurchase" /\ UNCHANGED <<movements, purchases>>
    BY <1>5, StepKinds DEF DepotOps, shop
  <2>2. QED
    BY <1>a, <2>1, ReceiptOther DEF Receipts, Received
<1>6. QED
  BY <1>1, <1>2, <1>3, <1>4, <1>5 DEF ShopStep

LEMMA ReceiptStart == Init => ReceiptInv
<1> SUFFICES ASSUME Init PROVE ReceiptInv
  OBVIOUS
<1>1. movements = {} /\ pc = [r \in Requests |-> "idle"]
  BY DEF Init, ShopInit, ShelfInit, ServerInit
<1>2. \A p : Receipts(p) = {} /\ Booked(p) = {}
  BY <1>1 DEF Receipts, Booked, Booking
<1>3. \A p : Cardinality(Reopenings(p)) \in Nat /\ Taken(p) \in Nat
  BY RequestsAssumption, FS_Subset, FS_CardinalityType DEF Reopenings, Taken
<1>4. \A p : Balanced(p)
  BY <1>2, <1>3, FS_EmptySet DEF Balanced, Owed
<1>5. QED
  BY <1>1, <1>4 DEF ReceiptInv, Unmarked, At

LEMMA ReceiptNext ==
  ASSUME ServerInv, AloneInv, Asking, DocInv, ReceiptInv, [Next]_vars
  PROVE  ReceiptInv'
<1>0. UNCHANGED scene /\ DocInv'
  BY RestartFacts, DocNext DEF Next, vars, serverVars, Clock
<1> SUFFICES ASSUME Apart, Apart' PROVE ReceiptInv'
  BY <1>0 DEF ReceiptInv, Apart
<1>a. (\A p \in DOMAIN purchases : Balanced(p)) /\ \A r \in Requests : Unmarked(r)
  BY DEF ReceiptInv
<1>1. ASSUME UNCHANGED <<movements, purchases>>,
             \A p : Reopenings(p) \subseteq Reopenings(p)' /\ Booked(p)' \subseteq Booked(p),
             \A r \in Requests : Unmarked(r)'
      PROVE  ReceiptInv'
  <2>1. ASSUME NEW p \in DOMAIN purchases PROVE Balanced(p)'
    <3>1. Receipts(p)' = Receipts(p) /\ Received(p)' = Received(p)
      BY <1>1 DEF Receipts, Received
    <3>2. Reopenings(p) \subseteq Reopenings(p)' /\ (Booked(p)' = {} \/ Booked(p) # {})
      BY <1>1
    <3>3. QED
      BY <1>0, <1>a, <3>1, <3>2, BalancedKept DEF DocInv
  <2>2. QED
    BY <1>1, <2>1 DEF ReceiptInv
<1>2. CASE UNCHANGED <<pc, call, movements, purchases>>
  <2>1. \A p : Reopenings(p)' = Reopenings(p) /\ Booked(p)' = Booked(p)
    BY <1>2 DEF Reopenings, Booked, Booking
  <2>2. \A r \in Requests : Unmarked(r)'
    BY <1>2, <1>a DEF Unmarked, At, Received
  <2>3. QED
    BY <1>1, <1>2, <2>1, <2>2
<1>3. ASSUME NEW r \in Requests, Request(r) PROVE ReceiptInv'
  <2>1. CASE (Arrive(r) \/ Fail(r)) /\ UNCHANGED tables
    <3>1. /\ Moves(r) /\ pc'[r] \in {"start", "failed"} /\ pc[r] # "done"
          /\ \A s \in Requests \ {r} : call'[s] = call[s]
      BY <2>1, ArriveFacts, FailFacts DEF InFlight, Ended
    <3>2. UNCHANGED <<movements, purchases>>
      BY <2>1 DEF tables, shopTables, shop
    <3>3. \A p : Reopenings(p) \subseteq Reopenings(p)' /\ Booked(p)' \subseteq Booked(p)
      BY <3>1 DEF Reopenings, Booked, Booking, Moves
    <3>4. \A s \in Requests : Unmarked(s)'
      BY <1>a, <3>1, <3>2 DEF Unmarked, At, Moves, Received
    <3>5. QED
      BY <1>1, <3>2, <3>3, <3>4
  <2>2. CASE ShopStep(r) /\ UNCHANGED call /\ Moves(r) /\ r \in InFlight
    BY <1>0, <2>2, ShopStepReceipts
  <2>3. CASE UNCHANGED <<call, shopTables>> /\ Moves(r) /\ r \in InFlight /\ call[r].op \notin ShopOps
    <3>1. UNCHANGED <<movements, purchases>> /\ Unmarked(r)' /\ ~Booking(r)'
      BY <2>3 DEF shopTables, shop, Unmarked, At, Booking, ShopOps
    <3>2. QED
      BY <1>0, <2>3, <3>1, ReceiptOther DEF Receipts, Received
  <2>4. QED
    BY <1>3, <2>1, <2>2, <2>3, NotShop, RequestCases
<1>4. CASE Restart
  <2>1. /\ UNCHANGED <<call, movements, purchases>>
        /\ \A r \in Requests : IF r \in InFlight THEN pc'[r] = "failed" ELSE pc'[r] = pc[r]
    BY <1>4, RestartFacts DEF shopTables, shop
  <2>2. \A p : Reopenings(p) \subseteq Reopenings(p)' /\ Booked(p)' \subseteq Booked(p)
    BY <2>1 DEF Reopenings, Booked, Booking, InFlight, Ended
  <2>3. \A r \in Requests : Unmarked(r)'
    BY <2>1 DEF Unmarked, At, InFlight, Ended
  <2>4. QED
    BY <1>1, <2>1, <2>2, <2>3
<1>5. QED
  BY <1>2, <1>3, <1>4 DEF Next, Clock, vars, serverVars, shopTables, shop

(* Of requests that do not overlap, whatever fails half way and whatever   *)
(* is deleted in between, an order has one receipt, and one more each time *)
(* an update has taken it out of RECEIVED                                  *)
(* (quincaillerie-purchase.service.ts:53).                                 *)
THEOREM OrdersReceivedOnce == Spec => []ReceivedOnce
<1>1. DocInv /\ ReceiptInv => ReceivedOnce
  <2> SUFFICES ASSUME DocInv, ReceiptInv, Apart, NEW p \in DOMAIN purchases
               PROVE  Cardinality(Receipts(p)) <= 1 + Cardinality(Reopenings(p))
    BY DEF ReceivedOnce
  <2>1. Balanced(p) /\ Cardinality(Receipts(p)) \in Nat /\ Cardinality(Reopenings(p)) \in Nat
    BY ReceiptsFinite DEF ReceiptInv, DocInv
  <2>2. Owed(p) \in 0..1 /\ Taken(p) \in 0..1
    BY DEF Owed, Taken
  <2>3. QED
    BY <2>1, <2>2 DEF Balanced
<1>2. Init => ServerInv /\ AloneInv /\ Asking /\ DocInv /\ ReceiptInv
  BY ServerStart, AloneStart, AskingStart, DocStart, ReceiptStart
<1>3. ServerInv /\ AloneInv /\ Asking /\ DocInv /\ ReceiptInv /\ [Next]_vars
        => (ServerInv /\ AloneInv /\ Asking /\ DocInv /\ ReceiptInv)'
  BY ServerStep, AloneStep, AskingStep, DocNext, ReceiptNext
<1>4. QED
  BY <1>1, <1>2, <1>3, PTL DEF Spec

-----------------------------------------------------------------------------
(* The shelf, for requests that do not overlap.  ShelfExplained is not     *)
(* inductive: what a request has read of an article is still so at its     *)
(* write, each movement it files is a new one, and in between the quantity *)
(* on hand and the journal are apart by what it has done to one of them.   *)

(* A movement on file is of a line its request has passed.                 *)
LineFiled(r) ==
  \A m \in movements : m.by = r =>
    \/ pc[r] \in Ended
    \/ call[r].op = "receivePurchase" /\ pc[r] = "store"
    \/ call[r].op = "applySession" /\ pc[r] \in {"journal", "store"}
    \/ /\ call[r].op = "ticketStatus" /\ pc[r] \in PartSteps
       /\ m.n < seen[r].n \/ (m.n = seen[r].n /\ pc[r] = "attach")

(* What the handlers know of the shelf.                                    *)
ReceiptHolds(r) ==
  call[r].op = "receivePurchase" =>
    /\ pc[r] \in {"write", "item", "journal", "store"} => seen[r].quantity \in Nat
    /\ pc[r] \in {"journal", "store"} =>
         seen[r].item \in DOMAIN stock /\ seen[r].onHand = stock[seen[r].item]

CountHolds(r) ==
  call[r].op = "applySession" =>
    /\ pc[r] \in {"journal", "store"} => \A i \in DOMAIN seen[r].lines : seen[r].lines[i].counted \in Nat
    /\ pc[r] = "store" => seen[r].item \in DOMAIN seen[r].lines /\ Adjusted(seen[r].item)

RepairHolds(r) ==
  call[r].op = "ticketStatus" =>
    /\ pc[r] \in PartSteps => seen[r].n \in Nat
    /\ pc[r] \in {"part", "decrement", "journal", "attach"} => seen[r].n \in DOMAIN call[r].usedParts
    /\ pc[r] = "decrement" => Available(Part(r))
    /\ pc[r] \in {"journal", "attach"} => Part(r).item \in DOMAIN stock

RefurbishHolds(r) == call[r].op = "convertTicket" /\ pc[r] = "journal" => r \in DOMAIN stock

Holds(r) == LineFiled(r) /\ ReceiptHolds(r) /\ CountHolds(r) /\ RepairHolds(r) /\ RefurbishHolds(r)

MovementHolds(m) ==
  m.item \in DOMAIN stock /\ m.n \in Nat /\ (m.type # "ADJUSTMENT" => m.quantity \in Int)

LinesNumbered(v) == \A i \in DOMAIN v.lines : v.lines[i].counted \in Nat \cup {Uncounted}

HoldsInv ==
  /\ \A i \in DOMAIN stock : stock[i] \in Nat
  /\ \A m \in movements : MovementHolds(m)
  /\ \A s \in DOMAIN sessions : LinesNumbered(sessions[s])
  /\ \A r \in Requests : Holds(r)

ShelfInv == Apart => HoldsInv

(* A request that is about no article: nothing on file is its own.         *)
Bystander(r) ==
  call[r].op \notin {"receivePurchase", "applySession", "ticketStatus", "convertTicket"}

LEMMA Unheld ==
  ASSUME NEW r, \A m \in movements : m.by # r,
         pc[r] \notin {"write", "item", "journal", "store"} \cup PartSteps \/ Bystander(r)
  PROVE  Holds(r)
BY DEF Holds, LineFiled, ReceiptHolds, CountHolds, RepairHolds, RefurbishHolds, Bystander, PartSteps

LEMMA EndedHolds ==
  ASSUME NEW r, pc[r] \in Ended
  PROVE  Holds(r)
BY DEF Holds, LineFiled, ReceiptHolds, CountHolds, RepairHolds, RefurbishHolds, Ended, PartSteps

LEMMA EndedHoldsNext == ASSUME NEW r PROVE (pc'[r] \in Ended) => Holds(r)'
BY DEF Holds, LineFiled, ReceiptHolds, CountHolds, RepairHolds, RefurbishHolds, Ended, PartSteps

(* A request at rest has filed nothing unless it has ended.                *)
LEMMA RestHolds ==
  ASSUME NEW s, Holds(s), pc[s] = "idle" \/ pc[s] \in Ended, pc'[s] = pc[s],
         \A m \in movements' : m \in movements \/ m.by # s
  PROVE  Holds(s)'
<1>1. CASE pc[s] \in Ended
  BY <1>1, EndedHoldsNext
<1>2. CASE pc[s] = "idle"
  <2>1. \A m \in movements' : m.by # s
    BY <1>2 DEF Holds, LineFiled, Ended, PartSteps
  <2>2. QED
    BY <1>2, <2>1 DEF Holds, LineFiled, ReceiptHolds, CountHolds, RepairHolds, RefurbishHolds, PartSteps
<1>3. QED
  BY <1>1, <1>2

LEMMA OthersHold ==
  ASSUME ServerInv, AloneInv, Apart, HoldsInv, UNCHANGED call, NEW r \in Requests, Moves(r), r \in InFlight,
         \A m \in movements' : m \in movements \/ m.by = r
  PROVE  \A s \in Requests \ {r} : Holds(s)'
<1> SUFFICES ASSUME NEW s \in Requests \ {r} PROVE Holds(s)'
  OBVIOUS
<1>1. s \notin InFlight /\ pc'[s] = pc[s] /\ Holds(s)
  BY DEF Moves, AloneInv, HoldsInv
<1>2. pc[s] = "idle" \/ pc[s] \in Ended
  BY <1>1 DEF InFlight
<1>3. QED
  BY <1>1, <1>2, RestHolds

(* A step that leaves the shelf and the sessions alone.                    *)
LEMMA HoldsKept ==
  ASSUME ServerInv, AloneInv, Apart, HoldsInv, UNCHANGED <<call, stock, movements, sessions>>,
         NEW r \in Requests, Moves(r), r \in InFlight, Holds(r)'
  PROVE  HoldsInv'
<1>1. \A s \in Requests \ {r} : Holds(s)'
  BY OthersHold
<1>2. \A m \in movements : MovementHolds(m)'
  BY DEF HoldsInv, MovementHolds
<1>3. QED
  BY <1>1, <1>2 DEF HoldsInv

LEMMA HoldsOther ==
  ASSUME ServerInv, AloneInv, Apart, HoldsInv, UNCHANGED <<call, stock, movements, sessions>>,
         NEW r \in Requests, Moves(r), r \in InFlight, Bystander(r)
  PROVE  HoldsInv'
<1>1. \A m \in movements : m.by # r
  BY DEF HoldsInv, Holds, LineFiled, Bystander, InFlight
<1>2. Holds(r)'
  BY <1>1 DEF Bystander, Holds, LineFiled, ReceiptHolds, CountHolds, RepairHolds, RefurbishHolds
<1>3. QED
  BY <1>2, HoldsKept

(* A step that files a movement of its own.                                *)
LEMMA HoldsFiled ==
  ASSUME ServerInv, AloneInv, Apart, HoldsInv, UNCHANGED <<call, stock, sessions>>,
         NEW r \in Requests, Moves(r), r \in InFlight, Holds(r)',
         NEW n \in Nat, NEW d, NEW i \in DOMAIN stock, NEW t, NEW q, Journaled(r, n, d, i, t, q),
         t # "ADJUSTMENT" => q \in Int
  PROVE  HoldsInv'
<1> DEFINE m0 == [by |-> r, n |-> n, doc |-> d, item |-> i, type |-> t, quantity |-> q]
<1>1. movements' = movements \cup {m0}
  BY DEF Journaled
<1>2. \A s \in Requests \ {r} : Holds(s)'
  BY <1>1, OthersHold
<1>3. \A m \in movements : MovementHolds(m)'
  BY DEF HoldsInv, MovementHolds
<1>4. MovementHolds(m0)'
  BY DEF MovementHolds
<1>5. QED
  BY <1>1, <1>2, <1>3, <1>4 DEF HoldsInv

(* A step that sets one quantity.                                          *)
LEMMA HoldsStored ==
  ASSUME ServerInv, AloneInv, Apart, HoldsInv, UNCHANGED <<call, movements, sessions>>,
         NEW r \in Requests, Moves(r), r \in InFlight, Holds(r)',
         DOMAIN stock \subseteq DOMAIN stock', \A i \in DOMAIN stock' : stock'[i] \in Nat
  PROVE  HoldsInv'
<1>1. \A s \in Requests \ {r} : Holds(s)'
  BY OthersHold
<1>2. \A m \in movements : MovementHolds(m)'
  BY DEF HoldsInv, MovementHolds
<1>3. QED
  BY <1>1, <1>2 DEF HoldsInv

LEMMA PurchaseStepHolds ==
  ASSUME ServerInv, AloneInv, DocInv, Apart, HoldsInv, NEW r \in Requests, PurchaseStep(r),
         UNCHANGED <<call, sessions>>
  PROVE  HoldsInv'
<1>0. Moves(r) /\ r \in InFlight /\ Holds(r) /\ call[r].op \in PurchaseOps
  BY PurchaseMoves, StepKinds DEF HoldsInv
<1>1. CASE CreatePurchase(r) \/ UpdatePurchase(r) \/ DeletePurchase(r)
  <2>1. UNCHANGED <<stock, movements>> /\ Bystander(r)
    BY <1>1 DEF CreatePurchase, UpdatePurchase, DeletePurchase, At, shelf, Bystander
  <2>2. QED
    BY <1>0, <2>1, HoldsOther
<1>2. CASE FindPurchase(r)
  <2>1. UNCHANGED <<stock, movements>> /\ pc[r] = "start"
    BY <1>2 DEF FindPurchase, At, shelf
  <2>2. \/ pc'[r] = "refused"
        \/ pc'[r] = "write" /\ call[r].id \in DOMAIN purchases /\ seen'[r] = purchases[call[r].id]
    BY <1>2, KeepFacts, AnswerFacts DEF FindPurchase
  <2>3. \A m \in movements : m.by # r
    BY <1>0, <2>1 DEF Holds, LineFiled, Ended, PartSteps
  <2>4. CASE pc'[r] = "refused"
    BY <1>0, <2>1, <2>4, EndedHoldsNext, HoldsKept DEF Ended
  <2>5. CASE pc'[r] = "write" /\ call[r].id \in DOMAIN purchases /\ seen'[r] = purchases[call[r].id]
    <3>1. purchases[call[r].id].quantity \in Nat
      BY <2>5 DEF DocInv, PurchaseRow
    <3>2. LineFiled(r)' /\ ReceiptHolds(r)'
      BY <2>1, <2>3, <2>5, <3>1 DEF LineFiled, ReceiptHolds
    <3>3. CountHolds(r)' /\ RepairHolds(r)' /\ RefurbishHolds(r)'
      BY <1>0 DEF CountHolds, RepairHolds, RefurbishHolds, PurchaseOps
    <3>4. QED
      BY <1>0, <2>1, <3>2, <3>3, HoldsKept DEF Holds
  <2>6. QED
    BY <2>2, <2>4, <2>5
<1>3. CASE MarkReceived(r) \/ FindReceivedItem(r)
  <2>1. /\ UNCHANGED <<stock, movements>> /\ pc[r] \in {"write", "item"} /\ call[r].op = "receivePurchase"
        /\ seen[r].quantity \in Nat
    BY <1>0, <1>3 DEF MarkReceived, FindReceivedItem, At, shelf, Holds, ReceiptHolds
  <2>2. \/ pc'[r] \in {"done", "refused"}
        \/ pc'[r] = "item" /\ seen' = seen
        \/ /\ pc'[r] = "journal" /\ seen[r].item \in DOMAIN stock
           /\ seen'[r] = [item |-> seen[r].item, quantity |-> seen[r].quantity, onHand |-> stock[seen[r].item]]
    BY <1>3, GotoFacts, KeepFacts, AnswerFacts DEF MarkReceived, FindReceivedItem
  <2>3. \A m \in movements : m.by # r
    BY <1>0, <2>1 DEF Holds, LineFiled, Ended, PartSteps
  <2>4. CASE pc'[r] \in {"done", "refused"}
    BY <1>0, <2>1, <2>4, EndedHoldsNext, HoldsKept DEF Ended
  <2>5. CASE pc'[r] \in {"item", "journal"}
    <3>1. LineFiled(r)'
      BY <2>1, <2>3 DEF LineFiled
    <3>2. ReceiptHolds(r)'
      BY <2>1, <2>2, <2>5 DEF ReceiptHolds
    <3>3. CountHolds(r)' /\ RepairHolds(r)' /\ RefurbishHolds(r)'
      BY <2>1 DEF CountHolds, RepairHolds, RefurbishHolds
    <3>4. QED
      BY <1>0, <2>1, <3>1, <3>2, <3>3, HoldsKept DEF Holds
  <2>6. QED
    BY <2>2, <2>4, <2>5
<1>4. CASE JournalReceipt(r)
  <2>1. /\ UNCHANGED stock /\ pc[r] = "journal" /\ call[r].op = "receivePurchase"
        /\ seen[r].item \in DOMAIN stock /\ seen[r].onHand = stock[seen[r].item] /\ seen[r].quantity \in Nat
    BY <1>0, <1>4 DEF JournalReceipt, At, Holds, ReceiptHolds
  <2>2. pc'[r] = "store" /\ seen' = seen /\ Journaled(r, 1, call[r].id, seen[r].item, "IN", seen[r].quantity)
    BY <1>4, <2>1, GotoFacts DEF JournalReceipt
  <2>3. LineFiled(r)' /\ ReceiptHolds(r)'
    BY <2>1, <2>2 DEF LineFiled, ReceiptHolds
  <2>4. CountHolds(r)' /\ RepairHolds(r)' /\ RefurbishHolds(r)'
    BY <2>1 DEF CountHolds, RepairHolds, RefurbishHolds
  <2>5. QED
    BY <1>0, <2>1, <2>2, <2>3, <2>4, HoldsFiled DEF Holds
<1>5. CASE StoreReceipt(r)
  <2>1. /\ UNCHANGED movements /\ pc[r] = "store" /\ call[r].op = "receivePurchase"
        /\ seen[r].item \in DOMAIN stock /\ seen[r].onHand = stock[seen[r].item] /\ seen[r].quantity \in Nat
    BY <1>0, <1>5 DEF StoreReceipt, At, Holds, ReceiptHolds
  <2>2. pc'[r] = "done" /\ stock' = [stock EXCEPT ![seen[r].item] = seen[r].onHand + seen[r].quantity]
    BY <1>5, <2>1, AnswerFacts DEF StoreReceipt
  <2>3. DOMAIN stock' = DOMAIN stock /\ \A i \in DOMAIN stock' : stock'[i] \in Nat
    BY <2>1, <2>2 DEF HoldsInv
  <2>4. QED
    BY <1>0, <2>1, <2>2, <2>3, EndedHoldsNext, HoldsStored DEF Ended
<1>6. QED
  BY <1>1, <1>2, <1>3, <1>4, <1>5 DEF PurchaseStep

LEMMA TicketStepHolds ==
  ASSUME ServerInv, AloneInv, PartsInv, Apart, HoldsInv, NEW r \in Requests, TicketStep(r),
         call[r].op \in ShopOps => call[r] \in ShopCalls, UNCHANGED <<call, sessions>>
  PROVE  HoldsInv'
<1>0. Moves(r) /\ r \in InFlight /\ Holds(r)
  BY TicketMoves DEF HoldsInv
<1>a. ASSUME call[r].op = "ticketStatus"
      PROVE  /\ Len(call[r].usedParts) \in Nat /\ DOMAIN call[r].usedParts = 1..Len(call[r].usedParts)
             /\ \A n \in DOMAIN call[r].usedParts : call[r].usedParts[n].quantity \in Nat \ {0}
  <2>1. call[r] \in TicketCalls /\ call[r].usedParts \in Seq(UsedPart)
    BY <1>a DEF ShopOps, ShopCalls, PurchaseCalls, SessionCalls, TicketCalls, DepotCalls
  <2>2. \A u \in Seq(UsedPart) : /\ Len(u) \in Nat /\ DOMAIN u = 1..Len(u)
                               /\ \A n \in DOMAIN u : u[n] \in UsedPart
    OBVIOUS
  <2>3. \A p \in UsedPart : p.quantity \in Nat \ {0}
    BY DEF UsedPart
  <2>4. QED
    BY <2>1, <2>2, <2>3
<1>b. ASSUME call[r].op = "ticketStatus" PROVE ReceiptHolds(r)' /\ CountHolds(r)' /\ RefurbishHolds(r)'
  BY <1>b DEF ReceiptHolds, CountHolds, RefurbishHolds
<1>1. CASE CountTickets(r) \/ CreateTicket(r)
  <2>1. UNCHANGED <<stock, movements>> /\ Bystander(r)
    BY <1>1 DEF CountTickets, CreateTicket, At, shelf, Bystander
  <2>2. QED
    BY <1>0, <2>1, HoldsOther
<1>2. CASE FindTicket(r)
  <2>1. UNCHANGED <<stock, movements>> /\ pc[r] = "start" /\ call[r].op = "ticketStatus"
    BY <1>2 DEF FindTicket, At, shelf
  <2>2. \/ pc'[r] = "refused"
        \/ /\ pc'[r] = "update" \/ (pc'[r] = "part" /\ Len(call[r].usedParts) > 0)
           /\ seen'[r] = [n |-> 1, rows |-> {}]
    BY <1>2, KeepFacts, AnswerFacts DEF FindTicket, Deducts
  <2>3. \A m \in movements : m.by # r
    BY <1>0, <2>1 DEF Holds, LineFiled, Ended, PartSteps
  <2>4. CASE pc'[r] = "refused"
    BY <1>0, <2>1, <2>4, EndedHoldsNext, HoldsKept DEF Ended
  <2>5. CASE pc'[r] # "refused"
    <3>1. LineFiled(r)'
      BY <2>1, <2>3 DEF LineFiled
    <3>2. RepairHolds(r)'
      BY <1>a, <2>1, <2>2, <2>5 DEF RepairHolds
    <3>3. QED
      BY <1>0, <1>b, <2>1, <3>1, <3>2, HoldsKept DEF Holds
  <2>6. QED
    BY <2>4, <2>5
<1>3. CASE CheckPart(r) \/ UpdateTicket(r)
  <2>1. /\ UNCHANGED <<stock, movements>> /\ pc[r] \in {"part", "update"} /\ call[r].op = "ticketStatus"
    BY <1>3 DEF CheckPart, UpdateTicket, At, shelf
  <2>2. \/ pc'[r] = "refused"
        \/ pc'[r] = "commit" /\ seen' = seen
        \/ pc[r] = "part" /\ pc'[r] = "decrement" /\ seen' = seen /\ Available(Part(r))
    BY <1>3, GotoFacts, AnswerFacts DEF CheckPart, UpdateTicket, At
  <2>3. CASE pc'[r] = "refused"
    BY <1>0, <2>1, <2>3, EndedHoldsNext, HoldsKept DEF Ended
  <2>4. CASE pc'[r] # "refused"
    <3>1. seen' = seen /\ Part(r)' = Part(r)
      BY <2>2, <2>4 DEF Part
    <3>2. LineFiled(r)'
      BY <1>0, <2>1, <2>2, <2>4, <3>1 DEF Holds, LineFiled, PartSteps, Ended
    <3>3. RepairHolds(r)'
      BY <1>0, <2>1, <2>2, <2>4, <3>1 DEF Holds, RepairHolds, PartSteps, Available
    <3>4. QED
      BY <1>0, <1>b, <2>1, <3>2, <3>3, HoldsKept DEF Holds
  <2>5. QED
    BY <2>3, <2>4
<1>4. CASE DecrementPart(r)
  <2>1. /\ UNCHANGED movements /\ pc[r] = "decrement" /\ call[r].op = "ticketStatus" /\ Available(Part(r))
        /\ seen[r].n \in Nat /\ seen[r].n \in DOMAIN call[r].usedParts
    BY <1>0, <1>4 DEF DecrementPart, At, Holds, RepairHolds, PartSteps
  <2>2. /\ pc'[r] = "journal" /\ seen' = seen
        /\ stock' = [stock EXCEPT ![Part(r).item] = stock[Part(r).item] - Part(r).quantity]
    BY <1>4, <2>1, GotoFacts DEF DecrementPart, Available
  <2>3. Part(r)' = Part(r) /\ Part(r).quantity \in Nat
    BY <1>a, <2>1, <2>2 DEF Part
  <2>4. DOMAIN stock' = DOMAIN stock /\ \A i \in DOMAIN stock' : stock'[i] \in Nat
    BY <2>1, <2>2, <2>3 DEF HoldsInv, Available
  <2>5. LineFiled(r)'
    BY <1>0, <2>1, <2>2 DEF Holds, LineFiled, PartSteps, Ended
  <2>6. RepairHolds(r)'
    BY <2>1, <2>2, <2>3, <2>4 DEF RepairHolds, Available
  <2>7. QED
    BY <1>0, <1>b, <2>1, <2>4, <2>5, <2>6, HoldsStored DEF Holds
<1>5. CASE JournalPart(r)
  <2>1. /\ UNCHANGED stock /\ pc[r] = "journal" /\ call[r].op = "ticketStatus" /\ Part(r).item \in DOMAIN stock
        /\ seen[r].n \in Nat /\ seen[r].n \in DOMAIN call[r].usedParts
    BY <1>0, <1>5 DEF JournalPart, At, Holds, RepairHolds, PartSteps
  <2>2. /\ pc'[r] = "attach" /\ seen' = seen
        /\ Journaled(r, seen[r].n, call[r].id, Part(r).item, "OUT", Part(r).quantity)
    BY <1>5, <2>1, GotoFacts DEF JournalPart
  <2>3. Part(r)' = Part(r) /\ Part(r).quantity \in Nat
    BY <1>a, <2>1, <2>2 DEF Part
  <2>4. LineFiled(r)'
    BY <1>0, <2>1, <2>2 DEF Holds, LineFiled, PartSteps, Ended, Journaled
  <2>5. RepairHolds(r)'
    BY <2>1, <2>2, <2>3 DEF RepairHolds
  <2>6. QED
    BY <1>0, <1>b, <2>1, <2>2, <2>3, <2>4, <2>5, HoldsFiled DEF Holds
<1>6. CASE AttachPart(r)
  <2>1. /\ UNCHANGED <<stock, movements>> /\ pc[r] = "attach" /\ call[r].op = "ticketStatus"
        /\ seen[r].n \in Nat /\ seen[r].n \in DOMAIN call[r].usedParts /\ Part(r).item \in DOMAIN stock
    BY <1>0, <1>6 DEF AttachPart, At, shelf, Holds, RepairHolds, PartSteps
  <2>2. /\ pc'[r] = IF seen[r].n < Len(call[r].usedParts) THEN "part" ELSE "update"
        /\ seen'[r].n = seen[r].n + 1
    BY <1>6, <2>1, KeepFacts DEF AttachPart
  <2>3. LineFiled(r)'
    <3>1. \A m \in movements : m.by = r => m.n <= seen[r].n
      BY <1>0, <2>1 DEF Holds, LineFiled, PartSteps, Ended, HoldsInv, MovementHolds
    <3>2. \A m \in movements : m.by = r => m.n < seen'[r].n
      BY <2>1, <2>2, <3>1 DEF HoldsInv, MovementHolds
    <3>3. pc'[r] \in PartSteps
      BY <2>2 DEF PartSteps
    <3>4. QED
      BY <2>1, <3>2, <3>3 DEF LineFiled
  <2>4. RepairHolds(r)'
    BY <1>a, <2>1, <2>2 DEF RepairHolds
  <2>5. QED
    BY <1>0, <1>b, <2>1, <2>3, <2>4, HoldsKept DEF Holds
<1>7. CASE CommitParts(r)
  <2>1. UNCHANGED <<stock, movements>> /\ pc'[r] = "done"
    BY <1>7, AnswerFacts DEF CommitParts, shelf
  <2>2. QED
    BY <1>0, <2>1, EndedHoldsNext, HoldsKept DEF Ended
<1>8. CASE FindImpossible(r) \/ MarkConverted(r)
  <2>1. /\ UNCHANGED <<stock, movements>> /\ call[r].op = "convertTicket"
        /\ pc'[r] \in {"refused", "update", "article"}
    BY <1>8, GotoFacts, AnswerFacts DEF FindImpossible, MarkConverted, At, shelf
  <2>2. Holds(r)'
    BY <1>0, <2>1 DEF Holds, LineFiled, ReceiptHolds, CountHolds, RepairHolds, RefurbishHolds, InFlight
  <2>3. QED
    BY <1>0, <2>1, <2>2, HoldsKept
<1>9. CASE CreateRefurbished(r)
  <2>1. /\ UNCHANGED movements /\ call[r].op = "convertTicket" /\ pc[r] = "article"
        /\ pc'[r] = "journal" /\ stock' = Put(stock, r, 1)
    BY <1>9, GotoFacts DEF CreateRefurbished, At, repairs
  <2>2. DOMAIN stock' = DOMAIN stock \cup {r} /\ \A i \in DOMAIN stock' : stock'[i] \in Nat
    BY <2>1 DEF Put, HoldsInv
  <2>3. Holds(r)'
    BY <1>0, <2>1, <2>2 DEF Holds, LineFiled, ReceiptHolds, CountHolds, RepairHolds, RefurbishHolds, InFlight
  <2>4. QED
    BY <1>0, <2>1, <2>2, <2>3, HoldsStored
<1>10. CASE JournalRefurbished(r)
  <2>1. /\ UNCHANGED stock /\ call[r].op = "convertTicket" /\ pc[r] = "journal" /\ r \in DOMAIN stock
    BY <1>0, <1>10 DEF JournalRefurbished, At, repairs, Holds, RefurbishHolds
  <2>2. pc'[r] = "done" /\ Journaled(r, 1, call[r].id, r, "IN", 1)
    BY <1>10, <2>1, AnswerFacts DEF JournalRefurbished
  <2>3. QED
    BY <1>0, <2>1, <2>2, EndedHoldsNext, HoldsFiled DEF Ended
<1>11. QED
  BY <1>1, <1>2, <1>3, <1>4, <1>5, <1>6, <1>7, <1>8, <1>9, <1>10 DEF TicketStep

(* A step that writes a session and ends.                                  *)
LEMMA HoldsSheets ==
  ASSUME ServerInv, AloneInv, Apart, HoldsInv, UNCHANGED <<call, stock, movements>>,
         NEW r \in Requests, Moves(r), r \in InFlight, pc'[r] \in Ended,
         \A s \in DOMAIN sessions' : LinesNumbered(sessions'[s])
  PROVE  HoldsInv'
<1>1. \A s \in Requests \ {r} : Holds(s)'
  BY OthersHold
<1>2. Holds(r)'
  BY EndedHoldsNext
<1>3. \A m \in movements : MovementHolds(m)'
  BY DEF HoldsInv, MovementHolds
<1>4. QED
  BY <1>1, <1>2, <1>3 DEF HoldsInv

LEMMA InventoryStepHolds ==
  ASSUME ServerInv, AloneInv, Asking, SessionInv, Apart, HoldsInv, NEW r \in Requests, InventoryStep(r),
         UNCHANGED call
  PROVE  HoldsInv'
<1>0. Moves(r) /\ r \in InFlight /\ Holds(r)
  BY InventoryMoves DEF HoldsInv
<1>a. ASSUME call[r].op = "applySession" PROVE ReceiptHolds(r)' /\ RepairHolds(r)' /\ RefurbishHolds(r)'
  BY <1>a DEF ReceiptHolds, RepairHolds, RefurbishHolds
<1>1. CASE CountShelf(r) \/ FindLine(r)
  <2>1. UNCHANGED <<stock, movements, sessions>> /\ Bystander(r)
    BY <1>1 DEF CountShelf, FindLine, At, shelf, Bystander
  <2>2. QED
    BY <1>0, <2>1, HoldsOther
<1>2. CASE CreateSession(r)
  <2>1. /\ UNCHANGED <<stock, movements>> /\ Bystander(r)
        /\ \A i \in DOMAIN seen[r].lines : seen[r].lines[i].counted = Uncounted
    BY <1>2 DEF CreateSession, At, shelf, Bystander, SessionInv, Knows
  <2>2. CASE DOMAIN seen[r].lines \subseteq DOMAIN stock
    <3> DEFINE v == [status |-> "DRAFT", adjusted |-> FALSE, lines |-> seen[r].lines]
    <3>1. pc'[r] = "done" /\ sessions' = Put(sessions, r, v)
      BY <1>2, <2>2, AnswerFacts DEF CreateSession
    <3>2. LinesNumbered(v)
      BY <2>1 DEF LinesNumbered
    <3>3. \A s \in DOMAIN sessions' : sessions'[s] = v \/ (s \in DOMAIN sessions /\ sessions'[s] = sessions[s])
      BY <3>1 DEF Put
    <3>4. \A s \in DOMAIN sessions' : LinesNumbered(sessions'[s])
      BY <3>2, <3>3 DEF HoldsInv
    <3>5. QED
      BY <1>0, <2>1, <3>1, <3>4, HoldsSheets DEF Ended
  <2>3. CASE ~(DOMAIN seen[r].lines \subseteq DOMAIN stock)
    <3>1. UNCHANGED sessions
      BY <1>2, <2>3 DEF CreateSession
    <3>2. QED
      BY <1>0, <2>1, <3>1, HoldsOther
  <2>4. QED
    BY <2>2, <2>3
<1>3. CASE FindSession(r)
  <2>1. /\ UNCHANGED <<stock, movements, sessions>> /\ pc[r] = "start"
        /\ call[r].op \in {"countLine", "completeSession", "applySession"}
    BY <1>3 DEF FindSession, At, shelf
  <2>2. CASE call[r].op # "applySession"
    BY <1>0, <2>1, <2>2, HoldsOther DEF Bystander
  <2>3. CASE call[r].op = "applySession"
    <3>1. \/ pc'[r] = "refused"
          \/ /\ pc'[r] = "journal" /\ call[r].id \in DOMAIN sessions
             /\ seen'[r] = [lines |-> Discrepant(call[r].id)]
      BY <1>3, <2>3, KeepFacts, AnswerFacts DEF FindSession
    <3>2. CASE pc'[r] = "refused"
      BY <1>0, <2>1, <3>2, EndedHoldsNext, HoldsKept DEF Ended
    <3>3. CASE pc'[r] = "journal"
      <4>1. \A i \in DOMAIN seen'[r].lines : seen'[r].lines[i].counted \in Nat
        BY <3>1, <3>3 DEF Discrepant, Lines, HoldsInv, LinesNumbered
      <4>2. \A m \in movements : m.by # r
        BY <1>0, <2>1 DEF Holds, LineFiled, Ended, PartSteps
      <4>3. LineFiled(r)' /\ CountHolds(r)'
        BY <2>1, <3>3, <4>1, <4>2 DEF LineFiled, CountHolds
      <4>4. QED
        BY <1>0, <1>a, <2>1, <2>3, <4>3, HoldsKept DEF Holds
    <3>4. QED
      BY <3>1, <3>2, <3>3
  <2>4. QED
    BY <2>2, <2>3
<1>4. CASE CountLine(r)
  <2>1. UNCHANGED <<stock, movements>> /\ call[r].op = "countLine" /\ pc'[r] \in Ended
    BY <1>4, AnswerFacts DEF CountLine, At, shelf, Ended
  <2>2. CASE ~OnSheet(r)
    <3>1. UNCHANGED sessions
      BY <1>4, <2>2 DEF CountLine
    <3>2. QED
      BY <1>0, <2>1, <3>1, EndedHoldsNext, HoldsKept
  <2>3. CASE OnSheet(r)
    <3> DEFINE s == call[r].id
               i == call[r].item
               v == sessions[s]
               w == [v EXCEPT !.lines = [v.lines EXCEPT ![i] = WithCount(v.lines[i], call[r].count)]]
    <3>1. s \in DOMAIN sessions /\ i \in DOMAIN v.lines /\ sessions' = [sessions EXCEPT ![s] = w]
      BY <1>4, <2>3 DEF CountLine, OnSheet, Lines
    <3>2. call[r].count \in Nat
      BY <2>1, CountsAreNumbers
    <3>3. Settled(v) /\ LinesNumbered(v)
      BY <3>1 DEF SessionInv, HoldsInv
    <3>4. WithCount(v.lines[i], call[r].count).counted = call[r].count
      BY <3>1, <3>3 DEF WithCount, Settled, Measured
    <3>5. /\ DOMAIN w.lines = DOMAIN v.lines
          /\ \A j \in DOMAIN v.lines :
               w.lines[j] = IF j = i THEN WithCount(v.lines[i], call[r].count) ELSE v.lines[j]
      BY <3>3 DEF Settled
    <3>6. LinesNumbered(w)
      BY <3>2, <3>3, <3>4, <3>5 DEF LinesNumbered
    <3>7. sessions'[s] = w /\ DOMAIN sessions' = DOMAIN sessions /\ \A t \in DOMAIN sessions \ {s} : sessions'[t] = sessions[t]
      BY <3>1
    <3>8. \A t \in DOMAIN sessions' : LinesNumbered(sessions'[t])
      BY <3>6, <3>7 DEF HoldsInv
    <3>9. QED
      BY <1>0, <2>1, <3>8, HoldsSheets
  <2>4. QED
    BY <2>2, <2>3
<1>5. CASE CompleteSession(r) \/ SetAdjusted(r)
  <2> DEFINE s == call[r].id
             v == sessions[s]
  <2>1. /\ UNCHANGED <<stock, movements>> /\ pc'[r] \in Ended /\ s \in DOMAIN sessions
        /\ \/ sessions' = [sessions EXCEPT ![s] = [v EXCEPT !.status = "COMPLETED"]]
           \/ sessions' = [sessions EXCEPT ![s] = [v EXCEPT !.adjusted = TRUE]]
    BY <1>5, AnswerFacts DEF CompleteSession, SetAdjusted, At, shelf, SessionInv, Knows, Ended
  <2>2. Settled(v) /\ LinesNumbered(v)
    BY <2>1 DEF SessionInv, HoldsInv
  <2>3. /\ [v EXCEPT !.status = "COMPLETED"].lines = v.lines
        /\ [v EXCEPT !.adjusted = TRUE].lines = v.lines
    BY <2>2 DEF Settled
  <2>4. sessions'[s].lines = v.lines /\ DOMAIN sessions' = DOMAIN sessions /\ \A t \in DOMAIN sessions \ {s} : sessions'[t] = sessions[t]
    BY <2>1, <2>3
  <2>5. \A t \in DOMAIN sessions' : LinesNumbered(sessions'[t])
    BY <2>2, <2>4 DEF HoldsInv, LinesNumbered
  <2>6. QED
    BY <1>0, <2>1, <2>5, HoldsSheets
<1>6. CASE JournalAdjustment(r)
  <2>1. /\ UNCHANGED <<sessions, stock>> /\ call[r].op = "applySession" /\ pc[r] = "journal"
        /\ \A i \in DOMAIN seen[r].lines : seen[r].lines[i].counted \in Nat
    BY <1>0, <1>6 DEF JournalAdjustment, At, Holds, CountHolds
  <2>2. PICK i \in DOMAIN seen[r].lines :
          IF i \in DOMAIN stock
            THEN /\ Journaled(r, 1, call[r].id, i, "ADJUSTMENT", seen[r].lines[i].discrepancy)
                 /\ Keep(r, "store", [item |-> i, lines |-> seen[r].lines])
            ELSE Refuse(r) /\ UNCHANGED movements
    BY <1>6 DEF JournalAdjustment
  <2>3. CASE i \notin DOMAIN stock
    <3>1. pc'[r] = "refused" /\ UNCHANGED movements
      BY <2>2, <2>3, AnswerFacts
    <3>2. QED
      BY <1>0, <2>1, <3>1, EndedHoldsNext, HoldsKept DEF Ended
  <2>4. CASE i \in DOMAIN stock
    <3>1. /\ pc'[r] = "store" /\ seen'[r] = [item |-> i, lines |-> seen[r].lines]
          /\ Journaled(r, 1, call[r].id, i, "ADJUSTMENT", seen[r].lines[i].discrepancy)
      BY <2>2, <2>4, KeepFacts
    <3>2. Adjusted(i)'
      <4>1. PICK m : m = [by |-> r, n |-> 1, doc |-> call[r].id, item |-> i, type |-> "ADJUSTMENT",
                          quantity |-> seen[r].lines[i].discrepancy]
        OBVIOUS
      <4>2. m \in movements' /\ m.item = i /\ m.type = "ADJUSTMENT"
        BY <3>1, <4>1 DEF Journaled
      <4>3. QED
        BY <4>2 DEF Adjusted
    <3>3. Adjusted(seen[r].item)'
      BY <3>1, <3>2 DEF Adjusted
    <3>4. LineFiled(r)' /\ CountHolds(r)'
      BY <2>1, <3>1, <3>3 DEF LineFiled, CountHolds
    <3>5. QED
      BY <1>0, <1>a, <2>1, <2>4, <3>1, <3>4, HoldsFiled DEF Holds
  <2>5. QED
    BY <2>3, <2>4
<1>7. CASE StoreCount(r)
  <2>1. /\ UNCHANGED <<sessions, movements>> /\ call[r].op = "applySession" /\ pc[r] = "store"
        /\ \A i \in DOMAIN seen[r].lines : seen[r].lines[i].counted \in Nat
        /\ seen[r].item \in DOMAIN seen[r].lines
    BY <1>0, <1>7 DEF StoreCount, At, Holds, CountHolds
  <2>2. CASE seen[r].item \notin DOMAIN stock
    <3>1. pc'[r] = "refused" /\ UNCHANGED stock
      BY <1>7, <2>2, AnswerFacts DEF StoreCount
    <3>2. QED
      BY <1>0, <2>1, <3>1, EndedHoldsNext, HoldsKept DEF Ended
  <2>3. CASE seen[r].item \in DOMAIN stock
    <3>1. /\ pc'[r] = "journal" /\ seen'[r] = [lines |-> Without(seen[r].lines, seen[r].item)]
          /\ stock' = [stock EXCEPT ![seen[r].item] = seen[r].lines[seen[r].item].counted]
      BY <1>7, <2>3, KeepFacts DEF StoreCount
    <3>2. DOMAIN stock' = DOMAIN stock /\ \A i \in DOMAIN stock' : stock'[i] \in Nat
      BY <2>1, <3>1 DEF HoldsInv
    <3>3. LineFiled(r)' /\ CountHolds(r)'
      BY <2>1, <3>1 DEF LineFiled, CountHolds, Without
    <3>4. QED
      BY <1>0, <1>a, <2>1, <3>2, <3>3, HoldsStored DEF Holds
  <2>4. QED
    BY <2>2, <2>3
<1>8. QED
  BY <1>1, <1>2, <1>3, <1>4, <1>5, <1>6, <1>7 DEF InventoryStep

(* An article goes with its movements and its lines.                       *)
LEMMA RemoveItemHolds ==
  ASSUME ServerInv, AloneInv, SessionInv, Apart, HoldsInv, NEW r \in Requests, RemoveItem(r), UNCHANGED call,
         Moves(r), r \in InFlight
  PROVE  HoldsInv'
<1> DEFINE i == call[r].item
<1>0. pc'[r] \in Ended /\ Bystander(r)
  BY AnswerFacts DEF RemoveItem, At, Ended, Bystander
<1>1. CASE i \notin DOMAIN stock
  BY <1>0, <1>1, HoldsOther DEF RemoveItem
<1>2. CASE i \in DOMAIN stock
  <2>1. /\ stock' = Without(stock, i) /\ movements' = {m \in movements : m.item # i}
        /\ sessions' = [s \in DOMAIN sessions |-> [sessions[s] EXCEPT !.lines = Without(sessions[s].lines, i)]]
    BY <1>2 DEF RemoveItem
  <2>2. ASSUME NEW s \in DOMAIN sessions PROVE LinesNumbered(sessions'[s])
    <3>1. Settled(sessions[s]) /\ LinesNumbered(sessions[s])
      BY DEF SessionInv, HoldsInv
    <3>2. sessions'[s].lines = Without(sessions[s].lines, i)
      BY <2>1, <3>1 DEF Settled
    <3>3. QED
      BY <3>1, <3>2 DEF LinesNumbered, Without
  <2>3. \A s \in Requests \ {r} : Holds(s)'
    BY <2>1, OthersHold
  <2>4. \A m \in movements' : MovementHolds(m)'
    BY <2>1 DEF HoldsInv, MovementHolds, Without
  <2>5. \A j \in DOMAIN stock' : stock'[j] \in Nat
    BY <2>1 DEF HoldsInv, Without
  <2>6. QED
    BY <1>0, <2>1, <2>2, <2>3, <2>4, <2>5, EndedHoldsNext DEF HoldsInv
<1>3. QED
  BY <1>1, <1>2

LEMMA ShelfStart == Init => ShelfInv
<1> SUFFICES ASSUME Init PROVE HoldsInv
  BY DEF ShelfInv
<1>1. sessions = OldSessions /\ movements = {} /\ stock = Opening /\ \A r \in Requests : pc[r] = "idle"
  BY DEF Init, ShopInit, ShelfInit, InventoryInit, ServerInit
<1>2. \A i \in DOMAIN stock : stock[i] \in Nat
  BY <1>1, ShelfAssumption
<1>3. \A s \in DOMAIN sessions : LinesNumbered(sessions[s])
  BY <1>1, SessionsAssumption DEF LinesNumbered, Sheet
<1>4. \A r \in Requests : Holds(r)
  BY <1>1, Unheld DEF PartSteps
<1>5. QED
  BY <1>1, <1>2, <1>3, <1>4 DEF HoldsInv

LEMMA ShelfNext ==
  ASSUME ServerInv, Asking, AloneInv, PartsInv, SessionInv, DocInv, ShelfInv, [Next]_vars
  PROVE  ShelfInv'
<1>0. UNCHANGED scene
  BY RestartFacts DEF Next, vars, serverVars, Clock
<1> SUFFICES ASSUME Apart PROVE HoldsInv'
  BY <1>0 DEF ShelfInv, Apart
<1>a. HoldsInv
  BY DEF ShelfInv
<1>1. CASE UNCHANGED <<pc, call, seen, stock, movements, sessions>>
  BY <1>1, <1>a DEF HoldsInv, MovementHolds, LinesNumbered, Holds, LineFiled, ReceiptHolds, CountHolds, RepairHolds,
                    RefurbishHolds, Adjusted, Available, Part
<1>2. ASSUME NEW r \in Requests, Request(r) PROVE HoldsInv'
  <2>1. CASE Arrive(r) /\ UNCHANGED tables
    <3>1. /\ pc[r] = "idle" /\ pc'[r] = "start" /\ seen' = seen
          /\ \A s \in Requests \ {r} : call'[s] = call[s] /\ pc'[s] = pc[s]
      BY <2>1, ArriveFacts DEF Moves
    <3>2. UNCHANGED <<stock, movements, sessions>>
      BY <2>1 DEF tables, shopTables, shop
    <3>3. \A m \in movements : m.by # r
      BY <1>a, <3>1 DEF HoldsInv, Holds, LineFiled, Ended, PartSteps
    <3>4. Holds(r)'
      BY <3>1, <3>2, <3>3 DEF Holds, LineFiled, ReceiptHolds, CountHolds, RepairHolds, RefurbishHolds, PartSteps
    <3>5. ASSUME NEW s \in Requests \ {r} PROVE Holds(s)'
      <4>1. call'[s] = call[s] /\ pc'[s] = pc[s] /\ Holds(s) /\ Part(s)' = Part(s)
        BY <1>a, <3>1 DEF HoldsInv, Part
      <4>2. LineFiled(s)' /\ ReceiptHolds(s)' /\ CountHolds(s)'
        BY <3>1, <3>2, <4>1 DEF Holds, LineFiled, ReceiptHolds, CountHolds, Adjusted
      <4>3. RepairHolds(s)' /\ RefurbishHolds(s)'
        BY <3>1, <3>2, <4>1 DEF Holds, RepairHolds, RefurbishHolds, Available
      <4>4. QED
        BY <4>2, <4>3 DEF Holds
    <3>6. QED
      BY <1>a, <3>2, <3>4, <3>5 DEF HoldsInv, MovementHolds
  <2>2. CASE Fail(r) /\ UNCHANGED tables
    <3>1. UNCHANGED <<call, stock, movements, sessions>>
      BY <2>2, FailFacts DEF tables, shopTables, shop
    <3>2. QED
      BY <1>a, <2>2, <3>1, FailFacts, EndedHoldsNext, HoldsKept DEF Ended
  <2>3. CASE ShopStep(r) /\ UNCHANGED call /\ Moves(r) /\ r \in InFlight
    <3>0. call[r].op \in ShopOps => call[r] \in ShopCalls
      BY CallsTyped
    <3>1. CASE PurchaseStep(r) /\ UNCHANGED sessions
      BY <1>a, <2>3, <3>1, PurchaseStepHolds
    <3>2. CASE InventoryStep(r)
      BY <1>a, <2>3, <3>2, InventoryStepHolds
    <3>3. CASE TicketStep(r) /\ UNCHANGED sessions
      BY <1>a, <2>3, <3>0, <3>3, TicketStepHolds
    <3>4. CASE RemoveItem(r)
      BY <1>a, <2>3, <3>4, RemoveItemHolds
    <3>5. CASE (FindItem(r) \/ DepotStep(r)) /\ UNCHANGED shop
      <4>1. Bystander(r)
        BY <3>5, StepKinds DEF Bystander, DepotOps
      <4>2. QED
        BY <1>a, <2>3, <3>5, <4>1, HoldsOther DEF shop
    <3>6. QED
      BY <2>3, <3>1, <3>2, <3>3, <3>4, <3>5 DEF ShopStep, FindItem
  <2>4. CASE UNCHANGED <<call, shopTables>> /\ Moves(r) /\ r \in InFlight /\ call[r].op \notin ShopOps
    <3>1. Bystander(r)
      BY <2>4 DEF Bystander, ShopOps
    <3>2. QED
      BY <1>a, <2>4, <3>1, HoldsOther DEF shopTables, shop
  <2>5. QED
    BY <1>2, <2>1, <2>2, <2>3, <2>4, NotShop, RequestCases
<1>3. CASE Restart
  <2>1. /\ UNCHANGED <<call, stock, movements, sessions>>
        /\ \A r \in Requests : pc'[r] \in Ended \/ (pc[r] = "idle" /\ pc'[r] = "idle")
    BY <1>3, RestartFacts DEF shopTables, shop, InFlight, Ended
  <2>2. \A r \in Requests : Holds(r)'
    BY <1>a, <2>1, EndedHoldsNext, RestHolds DEF HoldsInv
  <2>3. QED
    BY <1>a, <2>1, <2>2 DEF HoldsInv, MovementHolds
<1>4. QED
  BY <1>1, <1>2, <1>3 DEF Next, Clock, vars, serverVars, shopTables, shop

-----------------------------------------------------------------------------
(* The journal.                                                            *)
LEMMA JournalType ==
  ASSUME HoldsInv, IsFiniteSet(movements), NEW i, ~Adjusted(i)
  PROVE  (\A m \in movements : Shifted(m, i) \in Int) /\ Journal(i) \in Int
<1>1. \A m \in movements : Shifted(m, i) \in Int
  BY DEF HoldsInv, MovementHolds, Adjusted, Shifted, Effect
<1>2. QED
  BY <1>1, TotalType DEF Journal

LEMMA JournalSame == ASSUME UNCHANGED movements, NEW i PROVE Journal(i)' = Journal(i) /\ (Adjusted(i)' <=> Adjusted(i))
BY DEF Journal, Adjusted

LEMMA JournalGrows ==
  ASSUME HoldsInv, IsFiniteSet(movements), NEW m0, m0 \notin movements, movements' = movements \cup {m0},
         NEW i, ~Adjusted(i), Shifted(m0, i) \in Int
  PROVE  Journal(i)' = Journal(i) + Shifted(m0, i)
<1> DEFINE f == [m \in movements |-> Shifted(m, i)]
           g == [m \in movements' |-> Shifted(m, i)]
<1>1. DOMAIN f = movements /\ DOMAIN g = DOMAIN f \cup {m0} /\ g[m0] = Shifted(m0, i)
  OBVIOUS
<1>2. \A y \in DOMAIN f : f[y] \in Int /\ g[y] = f[y]
  BY JournalType
<1> HIDE DEF f, g
<1>3. SumFunction(g) = SumFunction(f) + g[m0]
  BY <1>1, <1>2, TotalAdd
<1>4. QED
  BY <1>1, <1>3 DEF Journal, f, g

(* A movement that is not filed yet adds its effect to its article.        *)
LEMMA JournalAdd ==
  ASSUME HoldsInv, IsFiniteSet(movements), NEW r, NEW n, NEW d, NEW j, NEW t \in {"IN", "OUT"}, NEW q \in Int,
         Journaled(r, n, d, j, t, q), \A m \in movements : ~(m.by = r /\ m.n = n), NEW i, ~Adjusted(i)'
  PROVE  ~Adjusted(i) /\ Journal(i)' = Journal(i) + (IF j # i THEN 0 ELSE IF t = "OUT" THEN -q ELSE q)
<1> PICK m0 : m0 = [by |-> r, n |-> n, doc |-> d, item |-> j, type |-> t, quantity |-> q]
  OBVIOUS
<1>1. movements' = movements \cup {m0} /\ m0 \notin movements
  BY DEF Journaled
<1>2. ~Adjusted(i)
  BY <1>1 DEF Adjusted
<1>3. Shifted(m0, i) = (IF j # i THEN 0 ELSE IF t = "OUT" THEN -q ELSE q) /\ Shifted(m0, i) \in Int
  BY DEF Shifted, Effect
<1>4. QED
  BY <1>1, <1>2, <1>3, JournalGrows

(* An adjustment adds nothing to the articles that have none.              *)
LEMMA JournalAdjusts ==
  ASSUME HoldsInv, IsFiniteSet(movements), NEW r, NEW n, NEW d, NEW j, NEW q,
         Journaled(r, n, d, j, "ADJUSTMENT", q), NEW i, ~Adjusted(i)'
  PROVE  ~Adjusted(i) /\ Journal(i)' = Journal(i)
<1> PICK m0 : m0 = [by |-> r, n |-> n, doc |-> d, item |-> j, type |-> "ADJUSTMENT", quantity |-> q]
  OBVIOUS
<1>1. movements' = movements \cup {m0} /\ m0.item = j /\ m0.type = "ADJUSTMENT"
  BY DEF Journaled
<1>2. ~Adjusted(i) /\ i # j
  BY <1>1 DEF Adjusted
<1>3. CASE m0 \in movements
  <2>1. movements' = movements
    BY <1>1, <1>3
  <2>2. QED
    BY <1>2, <2>1, JournalSame
<1>4. CASE m0 \notin movements
  <2>1. Shifted(m0, i) = 0
    BY <1>1, <1>2 DEF Shifted
  <2>2. QED
    BY <1>1, <1>2, <1>4, <2>1, JournalGrows, JournalType
<1>5. QED
  BY <1>3, <1>4

(* The movements of another article go.                                    *)
LEMMA JournalDrops ==
  ASSUME HoldsInv, IsFiniteSet(movements), NEW j, movements' = {m \in movements : m.item # j},
         NEW i, i # j, ~Adjusted(i)'
  PROVE  ~Adjusted(i) /\ Journal(i)' = Journal(i)
<1> DEFINE f == [m \in movements |-> Shifted(m, i)]
           g == [m \in movements' |-> Shifted(m, i)]
<1>1. ~Adjusted(i)
  BY DEF Adjusted
<1>2. DOMAIN f = movements /\ DOMAIN g = movements' /\ movements' \subseteq movements
  OBVIOUS
<1>3. \A y \in DOMAIN f : f[y] \in Int
  BY <1>1, JournalType
<1>4. (\A y \in DOMAIN g : g[y] = f[y]) /\ \A y \in DOMAIN f \ DOMAIN g : f[y] = 0
  BY DEF Shifted
<1> HIDE DEF f, g
<1>5. SumFunction(g) = SumFunction(f)
  BY <1>2, <1>3, <1>4, TotalDrop
<1>6. QED
  BY <1>1, <1>5 DEF Journal, f, g

LEMMA JournalNone ==
  ASSUME IsFiniteSet(movements), NEW i, \A m \in movements : m.item # i
  PROVE  Journal(i) = 0
<1> DEFINE f == [m \in movements |-> Shifted(m, i)]
<1>1. DOMAIN f = movements /\ \A y \in DOMAIN f : f[y] = 0
  BY DEF Shifted
<1> HIDE DEF f
<1>2. SumFunction(f) = 0
  BY <1>1, TotalZero
<1>3. QED
  BY <1>2 DEF Journal, f

-----------------------------------------------------------------------------
(* What the quantity on hand of an article is short of the movements on    *)
(* file, while a request has done one of its two writes.                   *)
Short(r, i) ==
  IF call[r].op = "receivePurchase" /\ pc[r] = "store" /\ seen[r].item = i THEN seen[r].quantity
  ELSE IF call[r].op = "ticketStatus" /\ pc[r] = "journal" /\ Part(r).item = i THEN Part(r).quantity
  ELSE IF call[r].op = "convertTicket" /\ pc[r] = "journal" /\ r = i THEN -1
  ELSE 0

Explained(r) ==
  \A i \in DOMAIN stock : ~Adjusted(i) => stock[i] + Short(r, i) = OpeningOf(i) + Journal(i)

Even == \A i \in DOMAIN stock : ~Adjusted(i) => stock[i] = OpeningOf(i) + Journal(i)

ExplainedInv == Quiet => (\A r \in InFlight : Explained(r)) /\ (InFlight = {} => Even)

LEMMA NotShort ==
  ASSUME NEW r, \/ pc[r] \notin {"store", "journal"}
                \/ call[r].op \notin {"receivePurchase", "ticketStatus", "convertTicket"}
                \/ call[r].op = "receivePurchase" /\ pc[r] # "store"
                \/ call[r].op \in {"ticketStatus", "convertTicket"} /\ pc[r] # "journal"
  PROVE  \A i : Short(r, i) = 0
BY DEF Short

LEMMA NotShortNext ==
  ASSUME NEW r, \/ pc'[r] \notin {"store", "journal"}
                \/ call'[r].op \notin {"receivePurchase", "ticketStatus", "convertTicket"}
                \/ call'[r].op = "receivePurchase" /\ pc'[r] # "store"
                \/ call'[r].op \in {"ticketStatus", "convertTicket"} /\ pc'[r] # "journal"
  PROVE  \A i : Short(r, i)' = 0
BY DEF Short

LEMMA ExplainedKept ==
  ASSUME UNCHANGED <<stock, movements>>, NEW r, Explained(r),
         \A i : Short(r, i) = 0, \A i : Short(r, i)' = 0
  PROVE  Explained(r)'
BY JournalSame DEF Explained

LEMMA ExplainedMoves ==
  ASSUME ServerInv, AloneInv, Apart, HoldsInv', UNCHANGED call, NEW r \in Requests, Moves(r), r \in InFlight,
         Explained(r)'
  PROVE  (\A s \in InFlight' : Explained(s)') /\ (InFlight' = {} => Even')
<1>1. \A s \in InFlight' : s = r
  BY DEF AloneInv, InFlight, Moves
<1>2. ASSUME InFlight' = {} PROVE Even'
  <2>1. pc'[r] \in Ended
    BY <1>2 DEF InFlight, Moves
  <2>2. \A i : Short(r, i)' = 0
    BY <2>1, NotShortNext DEF Ended
  <2>3. \A i \in DOMAIN stock' : stock'[i] + 0 = stock'[i]
    BY DEF HoldsInv
  <2>4. QED
    BY <2>2, <2>3 DEF Explained, Even
<1>3. QED
  BY <1>1, <1>2

LEMMA PurchaseStepExplained ==
  ASSUME ServerInv, AloneInv, DocInv, HoldsInv, HoldsInv', NEW r \in Requests, PurchaseStep(r),
         UNCHANGED call, Holds(r), Explained(r)
  PROVE  Explained(r)'
<1>0. IsFiniteSet(movements)
  BY DEF DocInv
<1>1. CASE CreatePurchase(r) \/ FindPurchase(r) \/ UpdatePurchase(r) \/ DeletePurchase(r)
           \/ MarkReceived(r) \/ FindReceivedItem(r)
  <2>1. /\ UNCHANGED <<stock, movements>> /\ call[r].op \in PurchaseOps
        /\ pc[r] \in {"start", "write", "item"} /\ pc'[r] \in {"done", "refused", "write", "item", "journal"}
    BY <1>1, GotoFacts, KeepFacts, AnswerFacts
       DEF CreatePurchase, FindPurchase, UpdatePurchase, DeletePurchase, MarkReceived, FindReceivedItem, At, shelf, PurchaseOps
  <2>2. (\A i : Short(r, i) = 0) /\ (\A i : Short(r, i)' = 0)
    BY <2>1, NotShort, NotShortNext DEF PurchaseOps
  <2>3. QED
    BY <2>1, <2>2, ExplainedKept
<1>2. CASE JournalReceipt(r)
  <2>1. /\ UNCHANGED stock /\ pc[r] = "journal" /\ call[r].op = "receivePurchase"
        /\ seen[r].item \in DOMAIN stock /\ seen[r].quantity \in Nat
    BY <1>2 DEF JournalReceipt, At, Holds, ReceiptHolds
  <2>2. pc'[r] = "store" /\ seen' = seen /\ Journaled(r, 1, call[r].id, seen[r].item, "IN", seen[r].quantity)
    BY <1>2, <2>1, GotoFacts DEF JournalReceipt
  <2>3. \A m \in movements : m.by # r
    BY <2>1 DEF Holds, LineFiled, Ended, PartSteps
  <2>4. ASSUME NEW i \in DOMAIN stock', ~Adjusted(i)' PROVE stock'[i] + Short(r, i)' = OpeningOf(i) + Journal(i)'
    <3>1. /\ ~Adjusted(i)
          /\ Journal(i)' = Journal(i) + (IF seen[r].item # i THEN 0 ELSE seen[r].quantity)
      BY <1>0, <2>1, <2>2, <2>3, <2>4, JournalAdd
    <3>2. Short(r, i) = 0 /\ Short(r, i)' = IF seen[r].item = i THEN seen[r].quantity ELSE 0
      BY <2>1, <2>2 DEF Short
    <3>3. stock[i] \in Nat /\ Journal(i) \in Int /\ stock'[i] = stock[i] /\ stock[i] + Short(r, i) = OpeningOf(i) + Journal(i)
      BY <1>0, <2>1, <2>4, <3>1, JournalType DEF HoldsInv, Explained
    <3>4. OpeningOf(i) \in Int
      BY ShelfAssumption DEF OpeningOf
    <3>5. QED
      BY <2>1, <3>1, <3>2, <3>3, <3>4
  <2>5. QED
    BY <2>4 DEF Explained
<1>3. CASE StoreReceipt(r)
  <2>1. /\ UNCHANGED movements /\ pc[r] = "store" /\ call[r].op = "receivePurchase"
        /\ seen[r].item \in DOMAIN stock /\ seen[r].onHand = stock[seen[r].item] /\ seen[r].quantity \in Nat
    BY <1>3 DEF StoreReceipt, At, Holds, ReceiptHolds
  <2>2. pc'[r] = "done" /\ stock' = [stock EXCEPT ![seen[r].item] = seen[r].onHand + seen[r].quantity]
    BY <1>3, <2>1, AnswerFacts DEF StoreReceipt
  <2>3. ASSUME NEW i \in DOMAIN stock', ~Adjusted(i)' PROVE stock'[i] + Short(r, i)' = OpeningOf(i) + Journal(i)'
    <3>1. ~Adjusted(i) /\ Journal(i)' = Journal(i)
      BY <2>1, <2>3, JournalSame
    <3>2. Short(r, i)' = 0 /\ Short(r, i) = IF seen[r].item = i THEN seen[r].quantity ELSE 0
      BY <2>1, <2>2 DEF Short
    <3>3. i \in DOMAIN stock /\ stock[i] \in Nat /\ stock[i] + Short(r, i) = OpeningOf(i) + Journal(i)
      BY <2>2, <2>3, <3>1 DEF HoldsInv, Explained
    <3>4. stock'[i] = stock[i] + Short(r, i) /\ stock'[i] \in Nat
      BY <2>1, <2>2, <2>3, <3>2, <3>3 DEF HoldsInv
    <3>5. QED
      BY <3>1, <3>2, <3>3, <3>4
  <2>4. QED
    BY <2>3 DEF Explained
<1>4. QED
  BY <1>1, <1>2, <1>3 DEF PurchaseStep

LEMMA TicketStepExplained ==
  ASSUME ServerInv, AloneInv, PartsInv, DocInv, HoldsInv, HoldsInv', NEW r \in Requests, TicketStep(r),
         call[r].op \in ShopOps => call[r] \in ShopCalls, UNCHANGED call, Holds(r), Explained(r)
  PROVE  Explained(r)'
<1>0. IsFiniteSet(movements) /\ \A i : OpeningOf(i) \in Int
  BY ShelfAssumption DEF DocInv, OpeningOf
<1>a. ASSUME call[r].op = "ticketStatus", seen[r].n \in DOMAIN call[r].usedParts
      PROVE  Part(r).quantity \in Nat
  <2>1. call[r].usedParts \in Seq(UsedPart)
    BY <1>a DEF ShopOps, ShopCalls, PurchaseCalls, SessionCalls, TicketCalls, DepotCalls
  <2>2. \A u \in Seq(UsedPart) : \A n \in DOMAIN u : u[n] \in UsedPart
    OBVIOUS
  <2>3. Part(r) \in UsedPart
    BY <1>a, <2>1, <2>2 DEF Part
  <2>4. QED
    BY <2>3 DEF UsedPart
<1>1. CASE CountTickets(r) \/ CreateTicket(r) \/ FindTicket(r) \/ CheckPart(r) \/ AttachPart(r)
           \/ UpdateTicket(r) \/ CommitParts(r) \/ FindImpossible(r) \/ MarkConverted(r)
  <2>1. /\ UNCHANGED <<stock, movements>> /\ call[r].op \in TicketOps
        /\ pc[r] \notin {"store", "journal"}
    BY <1>1 DEF CountTickets, CreateTicket, FindTicket, CheckPart, AttachPart,
                UpdateTicket, CommitParts, FindImpossible, MarkConverted, At, shelf, TicketOps
  <2>2. pc'[r] \notin {"store", "journal"}
    <3>1. CASE CountTickets(r) \/ CreateTicket(r) \/ FindTicket(r) \/ CheckPart(r)
      BY <3>1, GotoFacts, KeepFacts, AnswerFacts DEF CountTickets, CreateTicket, FindTicket, CheckPart
    <3>2. CASE AttachPart(r) \/ UpdateTicket(r) \/ CommitParts(r) \/ FindImpossible(r) \/ MarkConverted(r)
      BY <3>2, GotoFacts, KeepFacts, AnswerFacts DEF AttachPart, UpdateTicket, CommitParts, FindImpossible, MarkConverted
    <3>3. QED
      BY <1>1, <3>1, <3>2
  <2>3. (\A i : Short(r, i) = 0) /\ (\A i : Short(r, i)' = 0)
    BY <2>1, <2>2, NotShort, NotShortNext
  <2>4. QED
    BY <2>1, <2>3, ExplainedKept
<1>2. CASE DecrementPart(r)
  <2>1. /\ UNCHANGED movements /\ pc[r] = "decrement" /\ call[r].op = "ticketStatus" /\ Available(Part(r))
        /\ seen[r].n \in DOMAIN call[r].usedParts
    BY <1>2 DEF DecrementPart, At, Holds, RepairHolds, PartSteps
  <2>2. /\ pc'[r] = "journal" /\ seen' = seen
        /\ stock' = [stock EXCEPT ![Part(r).item] = stock[Part(r).item] - Part(r).quantity]
    BY <1>2, <2>1, GotoFacts DEF DecrementPart, Available
  <2>3. Part(r)' = Part(r) /\ Part(r).quantity \in Nat
    BY <1>a, <2>1, <2>2 DEF Part
  <2>4. ASSUME NEW i \in DOMAIN stock', ~Adjusted(i)' PROVE stock'[i] + Short(r, i)' = OpeningOf(i) + Journal(i)'
    <3>1. ~Adjusted(i) /\ Journal(i)' = Journal(i)
      BY <2>1, <2>4, JournalSame
    <3>2. Short(r, i) = 0 /\ Short(r, i)' = IF Part(r).item = i THEN Part(r).quantity ELSE 0
      BY <2>1, <2>2, <2>3 DEF Short
    <3>3. i \in DOMAIN stock /\ stock[i] \in Nat /\ stock[i] = OpeningOf(i) + Journal(i)
      BY <2>2, <2>4, <3>1, <3>2 DEF HoldsInv, Explained
    <3>4. stock'[i] = stock[i] - (IF Part(r).item = i THEN Part(r).quantity ELSE 0)
      BY <2>1, <2>2, <2>3, <2>4, <3>3
    <3>5. QED
      BY <2>3, <3>1, <3>2, <3>3, <3>4
  <2>5. QED
    BY <2>4 DEF Explained
<1>3. CASE JournalPart(r)
  <2>1. /\ UNCHANGED stock /\ pc[r] = "journal" /\ call[r].op = "ticketStatus" /\ Part(r).item \in DOMAIN stock
        /\ seen[r].n \in Nat /\ seen[r].n \in DOMAIN call[r].usedParts
    BY <1>3 DEF JournalPart, At, Holds, RepairHolds, PartSteps
  <2>2. /\ pc'[r] = "attach" /\ seen' = seen
        /\ Journaled(r, seen[r].n, call[r].id, Part(r).item, "OUT", Part(r).quantity)
    BY <1>3, <2>1, GotoFacts DEF JournalPart
  <2>3. Part(r).quantity \in Nat
    BY <1>a, <2>1
  <2>4. \A m \in movements : ~(m.by = r /\ m.n = seen[r].n)
    BY <2>1 DEF Holds, LineFiled, Ended, PartSteps, HoldsInv, MovementHolds
  <2>5. ASSUME NEW i \in DOMAIN stock', ~Adjusted(i)' PROVE stock'[i] + Short(r, i)' = OpeningOf(i) + Journal(i)'
    <3> DEFINE d == call[r].id
               n == seen[r].n
               j == Part(r).item
               q == Part(r).quantity
    <3>0. Journaled(r, n, d, j, "OUT", q) /\ q \in Int /\ \A m \in movements : ~(m.by = r /\ m.n = n)
      BY <2>2, <2>3, <2>4
    <3>1. ~Adjusted(i) /\ Journal(i)' = Journal(i) + (IF j # i THEN 0 ELSE -q)
      <4> HIDE DEF d, n, j, q
      <4>1. "OUT" \in {"IN", "OUT"}
        OBVIOUS
      <4>2. ~Adjusted(i) /\ Journal(i)' = Journal(i) + (IF j # i THEN 0 ELSE IF "OUT" = "OUT" THEN -q ELSE q)
        BY ONLY <1>0, <2>5, <3>0, <4>1, HoldsInv, JournalAdd
      <4>3. QED
        BY <4>2
    <3>2. Short(r, i)' = 0 /\ Short(r, i) = IF Part(r).item = i THEN Part(r).quantity ELSE 0
      BY <2>1, <2>2 DEF Short
    <3>3. stock[i] \in Nat /\ Journal(i) \in Int /\ stock'[i] = stock[i] /\ stock[i] + Short(r, i) = OpeningOf(i) + Journal(i)
      BY <1>0, <2>1, <2>5, <3>1, JournalType DEF HoldsInv, Explained
    <3>4. OpeningOf(i) \in Int
      BY <1>0
    <3>5. QED
      BY <2>3, <3>1, <3>2, <3>3, <3>4
  <2>6. QED
    BY <2>5 DEF Explained
<1>4. CASE CreateRefurbished(r)
  <2>1. /\ UNCHANGED movements /\ call[r].op = "convertTicket" /\ pc[r] = "article"
        /\ pc'[r] = "journal" /\ stock' = Put(stock, r, 1)
    BY <1>4, GotoFacts DEF CreateRefurbished, At, repairs
  <2>2. r \notin DOMAIN stock
    BY <2>1, ShelfAssumption DEF PartsInv, Made
  <2>3. /\ DOMAIN stock' = DOMAIN stock \cup {r} /\ stock'[r] = 1
        /\ \A i \in DOMAIN stock : stock'[i] = stock[i]
    BY <2>1, <2>2 DEF Put
  <2>4. ASSUME NEW i \in DOMAIN stock', ~Adjusted(i)' PROVE stock'[i] + Short(r, i)' = OpeningOf(i) + Journal(i)'
    <3>1. ~Adjusted(i) /\ Journal(i)' = Journal(i)
      BY <2>1, <2>4, JournalSame
    <3>2. Short(r, i) = 0 /\ Short(r, i)' = IF r = i THEN -1 ELSE 0
      BY <2>1 DEF Short
    <3>3. CASE i # r
      <4>1. i \in DOMAIN stock /\ stock[i] \in Nat /\ stock[i] + Short(r, i) = OpeningOf(i) + Journal(i)
        BY <2>3, <3>1, <3>3 DEF HoldsInv, Explained
      <4>2. QED
        BY <2>3, <3>1, <3>2, <3>3, <4>1
    <3>4. CASE i = r
      <4>1. \A m \in movements : m.item # r
        BY <2>2 DEF HoldsInv, MovementHolds
      <4>2. Journal(i) = 0
        BY <1>0, <3>4, <4>1, JournalNone
      <4>3. OpeningOf(i) = 0
        BY <3>4, ShelfAssumption DEF OpeningOf
      <4>4. QED
        BY <2>3, <3>1, <3>2, <3>4, <4>2, <4>3
    <3>5. QED
      BY <3>3, <3>4
  <2>5. QED
    BY <2>4 DEF Explained
<1>5. CASE JournalRefurbished(r)
  <2>1. /\ UNCHANGED stock /\ call[r].op = "convertTicket" /\ pc[r] = "journal" /\ r \in DOMAIN stock
    BY <1>5 DEF JournalRefurbished, At, repairs, Holds, RefurbishHolds
  <2>2. pc'[r] = "done" /\ Journaled(r, 1, call[r].id, r, "IN", 1)
    BY <1>5, <2>1, AnswerFacts DEF JournalRefurbished
  <2>3. \A m \in movements : m.by # r
    BY <2>1 DEF Holds, LineFiled, Ended, PartSteps
  <2>4. ASSUME NEW i \in DOMAIN stock', ~Adjusted(i)' PROVE stock'[i] + Short(r, i)' = OpeningOf(i) + Journal(i)'
    <3>1. ~Adjusted(i) /\ Journal(i)' = Journal(i) + (IF r # i THEN 0 ELSE 1)
      <4> DEFINE d == call[r].id
      <4>0. Journaled(r, 1, d, r, "IN", 1) /\ 1 \in Int /\ \A m \in movements : ~(m.by = r /\ m.n = 1)
        BY <2>2, <2>3
      <4> HIDE DEF d
      <4>1. "IN" \in {"IN", "OUT"} /\ "IN" # "OUT"
        OBVIOUS
      <4>2. ~Adjusted(i) /\ Journal(i)' = Journal(i) + (IF r # i THEN 0 ELSE IF "IN" = "OUT" THEN -1 ELSE 1)
        BY ONLY <1>0, <2>4, <4>0, <4>1, HoldsInv, JournalAdd
      <4>3. QED
        BY <4>1, <4>2
    <3>2. Short(r, i)' = 0 /\ Short(r, i) = IF r = i THEN -1 ELSE 0
      BY <2>1, <2>2 DEF Short
    <3>3. stock[i] \in Nat /\ Journal(i) \in Int /\ stock'[i] = stock[i] /\ stock[i] + Short(r, i) = OpeningOf(i) + Journal(i)
      BY <1>0, <2>1, <2>4, <3>1, JournalType DEF HoldsInv, Explained
    <3>4. OpeningOf(i) \in Int
      BY <1>0
    <3>5. QED
      BY <3>1, <3>2, <3>3, <3>4
  <2>5. QED
    BY <2>4 DEF Explained
<1>6. QED
  BY <1>1, <1>2, <1>3, <1>4, <1>5 DEF TicketStep

LEMMA OtherStepsExplained ==
  ASSUME ServerInv, AloneInv, DocInv, HoldsInv, NEW r \in Requests, UNCHANGED call, Holds(r), Explained(r),
         Bystander(r) \/ call[r].op = "applySession",
         InventoryStep(r) \/ RemoveItem(r) \/ UNCHANGED <<stock, movements>>
  PROVE  Explained(r)'
<1>0. IsFiniteSet(movements)
  BY DEF DocInv
<1>1. (\A i : Short(r, i) = 0) /\ (\A i : Short(r, i)' = 0)
  BY NotShort, NotShortNext DEF Bystander
<1>2. CASE UNCHANGED <<stock, movements>>
  BY <1>1, <1>2, ExplainedKept
<1>3. CASE JournalAdjustment(r)
  <2>1. UNCHANGED stock /\ (UNCHANGED movements \/ \E d, i, q : Journaled(r, 1, d, i, "ADJUSTMENT", q))
    BY <1>3 DEF JournalAdjustment
  <2>2. CASE UNCHANGED movements
    BY <1>1, <2>1, <2>2, ExplainedKept
  <2>3. ASSUME NEW d, NEW j, NEW q, Journaled(r, 1, d, j, "ADJUSTMENT", q) PROVE Explained(r)'
    <3>1. \A i : ~Adjusted(i)' => ~Adjusted(i) /\ Journal(i)' = Journal(i)
      BY <1>0, <2>3, JournalAdjusts
    <3>2. QED
      BY <1>1, <2>1, <3>1 DEF Explained
  <2>4. QED
    BY <2>1, <2>2, <2>3
<1>4. CASE StoreCount(r)
  <2>1. /\ UNCHANGED movements /\ Adjusted(seen[r].item)
        /\ \/ UNCHANGED stock
           \/ stock' = [stock EXCEPT ![seen[r].item] = seen[r].lines[seen[r].item].counted]
    BY <1>4 DEF StoreCount, At, Holds, CountHolds
  <2>2. \A i : ~Adjusted(i)' => ~Adjusted(i) /\ Journal(i)' = Journal(i)
    BY <2>1, JournalSame
  <2>3. DOMAIN stock' = DOMAIN stock /\ \A i \in DOMAIN stock : ~Adjusted(i) => stock'[i] = stock[i]
    BY <2>1
  <2>4. QED
    BY <1>1, <2>2, <2>3 DEF Explained
<1>5. CASE RemoveItem(r)
  <2> DEFINE j == call[r].item
  <2>1. CASE j \notin DOMAIN stock
    BY <1>2, <1>5, <2>1 DEF RemoveItem
  <2>2. CASE j \in DOMAIN stock
    <3>1. stock' = Without(stock, j) /\ movements' = {m \in movements : m.item # j}
      BY <1>5, <2>2 DEF RemoveItem
    <3>2. \A i \in DOMAIN stock' : i # j /\ i \in DOMAIN stock /\ stock'[i] = stock[i]
      BY <3>1 DEF Without
    <3>3. ASSUME NEW i \in DOMAIN stock', ~Adjusted(i)' PROVE ~Adjusted(i) /\ Journal(i)' = Journal(i)
      <4>1. movements' = {m \in movements : m.item # j} /\ i # j
        BY <3>1, <3>2
      <4> HIDE DEF j
      <4>2. QED
        BY ONLY <1>0, <3>3, <4>1, HoldsInv, JournalDrops
    <3>4. QED
      BY <1>1, <3>2, <3>3 DEF Explained
  <2>3. QED
    BY <2>1, <2>2
<1>6. CASE InventoryStep(r) /\ ~JournalAdjustment(r) /\ ~StoreCount(r)
  BY <1>2, <1>6 DEF InventoryStep, CountShelf, CreateSession, FindSession, FindLine, CountLine, CompleteSession,
                    SetAdjusted, shelf
<1>7. QED
  BY <1>2, <1>3, <1>4, <1>5, <1>6

LEMMA ExplainedStart == Init => ExplainedInv
<1> SUFFICES ASSUME Init PROVE (\A r \in InFlight : Explained(r)) /\ Even
  BY DEF ExplainedInv
<1>1. movements = {} /\ stock = Opening /\ InFlight = {}
  BY DEF Init, ShopInit, ShelfInit, ServerInit, InFlight
<1>2. \A i : Journal(i) = 0
  BY <1>1, FS_EmptySet, JournalNone
<1>3. Even
  BY <1>1, <1>2, ShelfAssumption DEF Even, OpeningOf
<1>4. QED
  BY <1>1, <1>3

LEMMA ExplainedNext ==
  ASSUME ServerInv, Asking, AloneInv, PartsInv, DocInv, ShelfInv, ShelfInv', ExplainedInv, [Next]_vars
  PROVE  ExplainedInv'
<1>0. UNCHANGED scene
  BY RestartFacts DEF Next, vars, serverVars, Clock
<1> SUFFICES ASSUME Quiet PROVE (\A r \in InFlight' : Explained(r)') /\ (InFlight' = {} => Even')
  BY <1>0 DEF ExplainedInv, Quiet, Apart
<1>a. /\ Apart /\ HoldsInv /\ HoldsInv' /\ ~scene.faults
      /\ (\A r \in InFlight : Explained(r)) /\ (InFlight = {} => Even)
  BY <1>0 DEF ExplainedInv, ShelfInv, Quiet, Apart
<1>1. CASE UNCHANGED <<pc, call, seen, stock, movements>>
  <2>1. InFlight' = InFlight /\ \A i : Journal(i)' = Journal(i) /\ (Adjusted(i)' <=> Adjusted(i))
    BY <1>1, JournalSame DEF InFlight
  <2>2. \A r, i : Short(r, i)' = Short(r, i)
    BY <1>1 DEF Short, Part
  <2>3. (\A r : Explained(r) => Explained(r)') /\ (Even => Even')
    BY <1>1, <2>1, <2>2 DEF Explained, Even
  <2>4. QED
    BY <1>a, <2>1, <2>3
<1>2. ASSUME NEW r \in Requests, Request(r) PROVE (\A s \in InFlight' : Explained(s)') /\ (InFlight' = {} => Even')
  <2>1. CASE Arrive(r) /\ UNCHANGED tables
    <3>1. InFlight = {}
      <4>1. Cardinality(InFlight) < 1
        BY <1>a, <2>1 DEF Arrive, Apart
      <4>2. IsFiniteSet(InFlight)
        BY RequestsAssumption, FS_Subset DEF InFlight
      <4>3. Cardinality(InFlight) = 0
        BY <4>1, <4>2, FS_CardinalityType
      <4>4. QED
        BY <4>2, <4>3, FS_EmptySet
    <3>2. Moves(r) /\ pc'[r] = "start"
      BY <2>1, ArriveFacts
    <3>3. UNCHANGED <<stock, movements>>
      BY <2>1 DEF tables, shopTables, shop
    <3>4. \A i : Short(r, i)' = 0
      BY <3>2, NotShortNext
    <3>5. Explained(r)'
      BY <1>a, <3>1, <3>3, <3>4, JournalSame DEF Explained, Even, HoldsInv
    <3>6. InFlight' = {r}
      BY <3>1, <3>2 DEF InFlight, Moves, Ended
    <3>7. QED
      BY <3>5, <3>6
  <2>2. CASE Fail(r)
    BY <1>a, <2>2, FailFacts
  <2>3. CASE ShopStep(r) /\ UNCHANGED call /\ Moves(r) /\ r \in InFlight
    <3>0. (call[r].op \in ShopOps => call[r] \in ShopCalls) /\ Explained(r) /\ Holds(r)
      BY <1>a, <2>3, CallsTyped DEF HoldsInv
    <3>1. CASE PurchaseStep(r)
      BY <1>a, <2>3, <3>0, <3>1, PurchaseStepExplained, ExplainedMoves
    <3>2. CASE InventoryStep(r)
      BY <1>a, <2>3, <3>0, <3>2, StepKinds, OtherStepsExplained, ExplainedMoves DEF Bystander, InventoryOps
    <3>3. CASE TicketStep(r)
      BY <1>a, <2>3, <3>0, <3>3, TicketStepExplained, ExplainedMoves
    <3>4. CASE RemoveItem(r)
      BY <1>a, <2>3, <3>0, <3>4, StepKinds, OtherStepsExplained, ExplainedMoves DEF Bystander
    <3>5. CASE (FindItem(r) \/ DepotStep(r)) /\ UNCHANGED shop
      <4>1. Bystander(r) /\ UNCHANGED <<stock, movements>>
        BY <3>5, StepKinds DEF Bystander, DepotOps, shop
      <4>2. QED
        BY <1>a, <2>3, <3>0, <4>1, OtherStepsExplained, ExplainedMoves
    <3>6. QED
      BY <2>3, <3>1, <3>2, <3>3, <3>4, <3>5 DEF ShopStep, FindItem
  <2>4. CASE UNCHANGED <<call, shopTables>> /\ Moves(r) /\ r \in InFlight /\ call[r].op \notin ShopOps
    <3>1. Bystander(r) /\ UNCHANGED <<stock, movements>> /\ Explained(r) /\ Holds(r)
      BY <1>a, <2>4 DEF Bystander, ShopOps, shopTables, shop, HoldsInv
    <3>2. QED
      BY <1>a, <2>4, <3>1, OtherStepsExplained, ExplainedMoves
  <2>5. QED
    BY <1>2, <2>1, <2>2, <2>3, <2>4, NotShop, RequestCases
<1>3. CASE Restart
  BY <1>a, <1>3, RestartFacts
<1>4. QED
  BY <1>1, <1>2, <1>3 DEF Next, Clock, vars, serverVars, shopTables, shop

(* quincaillerie-purchase.service.ts:76, it-ticket.service.ts:67, 167:     *)
(* with requests that neither overlap nor fail, the quantity on hand of an *)
(* article that no inventory has replaced is its opening and its           *)
(* movements; with requests that do not overlap it is never below zero.    *)
THEOREM JournalExplainsShelf == Spec => []ShelfExplained
<1> DEFINE Inv == /\ ServerInv /\ Asking /\ AloneInv /\ PartsInv /\ SessionInv /\ DocInv
                  /\ ShelfInv /\ ExplainedInv
<1>1. ShelfInv /\ ExplainedInv => ShelfExplained
  BY DEF ShelfExplained, ShelfInv, HoldsInv, ExplainedInv, Even, Quiet
<1>2. Init => Inv
  BY ServerStart, AskingStart, AloneStart, PartsStart, SessionStart, DocStart, ShelfStart, ExplainedStart
<1>3. Inv /\ [Next]_vars => Inv'
  <2> SUFFICES ASSUME Inv, [Next]_vars PROVE Inv'
    OBVIOUS
  <2>1. ServerInv' /\ Asking' /\ AloneInv' /\ PartsInv' /\ SessionInv' /\ DocInv'
    BY ServerStep, AskingStep, AloneStep, PartsStepKept, SessionStepKept, DocNext
  <2>2. ShelfInv'
    BY ShelfNext
  <2>3. ExplainedInv'
    BY <2>2, ExplainedNext
  <2>4. QED
    BY <2>1, <2>2, <2>3
<1>4. QED
  BY <1>1, <1>2, <1>3, PTL DEF Spec

-----------------------------------------------------------------------------
(* Types and foreign keys of the shop.  What a handler has read, or is     *)
(* about to write, is of its type; the rows it has written and not yet     *)
(* committed refer to rows on file.                                        *)
ShelfTypeOK ==
  /\ stock \in [DOMAIN stock -> Int] /\ DOMAIN stock \subseteq Items
  /\ movements \subseteq Movement /\ \A m \in movements : m.item \in DOMAIN stock

PartUsed == [by : Requests, ticket : OldRows \cup Requests, n : Nat, item : Items, quantity : Nat]

ReceiptReads(r) ==
  call[r].op = "receivePurchase" =>
    /\ pc[r] \in {"write", "item", "journal", "store"} => seen[r].quantity \in Nat
    /\ pc[r] \in {"journal", "store"} => seen[r].onHand \in Int

CountReads(r) ==
  /\ call[r].op = "createSession" /\ pc[r] = "write" =>
       \A i \in DOMAIN seen[r].lines : seen[r].lines[i] \in Sheet
  /\ call[r].op = "applySession" /\ pc[r] \in {"journal", "store"} =>
       \A i \in DOMAIN seen[r].lines : seen[r].lines[i] \in Sheet
  /\ call[r].op = "applySession" /\ pc[r] = "store" => seen[r].item \in DOMAIN seen[r].lines

RepairReads(r) ==
  /\ call[r].op = "createTicket" /\ pc[r] = "write" => seen[r].count \in Nat
  /\ call[r].op = "ticketStatus" /\ pc[r] \in PartSteps =>
       /\ call[r].id \in DOMAIN tickets /\ seen[r].n \in Nat
       /\ \A p \in seen[r].rows : p \in PartUsed /\ p.ticket \in DOMAIN tickets /\ p.item \in DOMAIN stock
  /\ call[r].op = "ticketStatus" /\ pc[r] \in {"part", "decrement", "journal", "attach"} =>
       seen[r].n \in DOMAIN call[r].usedParts

ShopReads(r) == ReceiptReads(r) /\ CountReads(r) /\ RepairReads(r)

ShopTypesInv ==
  /\ ShelfTypeOK /\ PurchasesTypeOK /\ InventoryTypeOK /\ TicketsTypeOK /\ DepotsTypeOK
  /\ \A r \in Requests : ShopReads(r)

(* What the calls of the shop take.                                        *)
LEMMA ShopFields ==
  ASSUME NEW c \in ShopCalls
  PROVE  /\ c.op \in {"createPurchase", "updatePurchase"} => c.row \in PurchaseRow
         /\ c.op \in {"updatePurchase", "receivePurchase", "deletePurchase", "countLine", "completeSession",
                      "applySession", "ticketStatus", "convertTicket"} => c.id \in OldRows \cup Requests
         /\ c.op = "countLine" => c.count \in Nat
         /\ c.op = "ticketStatus" => c.status \in TicketStatuses /\ c.usedParts \in Seq(UsedPart)
         /\ c.op \in {"createDepot", "updateDepot"} => c.main \in BOOLEAN
BY DEF ShopCalls, PurchaseCalls, SessionCalls, TicketCalls, DepotCalls

LEMMA UsedParts ==
  ASSUME NEW u \in Seq(UsedPart)
  PROVE  /\ Len(u) \in Nat /\ DOMAIN u = 1..Len(u)
         /\ \A n \in DOMAIN u : u[n].item \in Items /\ u[n].quantity \in Nat
<1>1. \A v \in Seq(UsedPart) : /\ Len(v) \in Nat /\ DOMAIN v = 1..Len(v)
                              /\ \A n \in DOMAIN v : v[n] \in UsedPart
  OBVIOUS
<1>2. \A p \in UsedPart : p.item \in Items /\ p.quantity \in Nat
  BY DEF UsedPart
<1>3. QED
  BY <1>1, <1>2

(* A request that has not begun, or has ended, holds nothing.              *)
LEMMA ReadsNothing ==
  ASSUME NEW r
  PROVE  /\ pc[r] \in Ended \cup {"idle", "start"} => ShopReads(r)
         /\ call[r].op \notin ShopOps => ShopReads(r)
         /\ call[r].op \in {"updatePurchase", "deletePurchase", "createPurchase", "countLine", "completeSession",
                            "convertTicket", "removeItem"} \cup DepotOps => ShopReads(r)
BY DEF ShopReads, ReceiptReads, CountReads, RepairReads, Ended, PartSteps, ShopOps, DepotOps

LEMMA ReadsNothingNext ==
  ASSUME NEW r
  PROVE  /\ pc'[r] \in Ended \cup {"idle", "start"} => ShopReads(r)'
         /\ call'[r].op \notin ShopOps => ShopReads(r)'
         /\ call'[r].op \in {"updatePurchase", "deletePurchase", "createPurchase", "countLine", "completeSession",
                             "convertTicket", "removeItem"} \cup DepotOps => ShopReads(r)'
BY DEF ShopReads, ReceiptReads, CountReads, RepairReads, Ended, PartSteps, ShopOps, DepotOps

LEMMA OthersRead ==
  ASSUME NEW s, ShopReads(s), pc'[s] = pc[s], call'[s] = call[s], seen'[s] = seen[s],
         DOMAIN stock \subseteq DOMAIN stock', DOMAIN tickets \subseteq DOMAIN tickets'
  PROVE  ShopReads(s)'
<1>1. ReceiptReads(s)' /\ CountReads(s)'
  BY DEF ShopReads, ReceiptReads, CountReads
<1>2. RepairReads(s)'
  BY DEF ShopReads, RepairReads
<1>3. QED
  BY <1>1, <1>2 DEF ShopReads

LEMMA ShopTypesKept ==
  ASSUME ShopTypesInv, NEW r \in Requests, Moves(r), UNCHANGED call,
         DOMAIN stock \subseteq DOMAIN stock', DOMAIN tickets \subseteq DOMAIN tickets',
         ShelfTypeOK', PurchasesTypeOK', InventoryTypeOK', TicketsTypeOK', DepotsTypeOK', ShopReads(r)'
  PROVE  ShopTypesInv'
<1>1. \A s \in Requests \ {r} : ShopReads(s)'
  BY OthersRead DEF ShopTypesInv, Moves
<1>2. QED
  BY <1>1 DEF ShopTypesInv

(* Tables a step leaves alone keep their types while no article goes.      *)
LEMMA RowsStay ==
  ASSUME ShopTypesInv, DOMAIN stock \subseteq DOMAIN stock'
  PROVE  /\ UNCHANGED shelf => ShelfTypeOK'
         /\ UNCHANGED purchases => PurchasesTypeOK'
         /\ UNCHANGED sessions => InventoryTypeOK'
         /\ UNCHANGED repairs => TicketsTypeOK'
         /\ UNCHANGED depots => DepotsTypeOK'
<1>1. UNCHANGED shelf => ShelfTypeOK'
  BY DEF ShopTypesInv, shelf, ShelfTypeOK
<1>2. UNCHANGED purchases => PurchasesTypeOK'
  BY DEF ShopTypesInv, PurchasesTypeOK, ItemFits
<1>3. UNCHANGED sessions => InventoryTypeOK'
  BY DEF ShopTypesInv, InventoryTypeOK, Lines
<1>4. UNCHANGED repairs => TicketsTypeOK'
  BY DEF ShopTypesInv, TicketsTypeOK, repairs
<1>5. UNCHANGED depots => DepotsTypeOK'
  BY DEF ShopTypesInv, DepotsTypeOK
<1>6. QED
  BY <1>1, <1>2, <1>3, <1>4, <1>5

LEMMA JournaledTyped ==
  ASSUME ShelfTypeOK, UNCHANGED stock, NEW r \in Requests, NEW n \in Nat, NEW d \in OldRows \cup Requests,
         NEW i \in DOMAIN stock, NEW t \in {"IN", "OUT", "ADJUSTMENT"}, NEW q \in Int, Journaled(r, n, d, i, t, q)
  PROVE  ShelfTypeOK'
<1>1. [by |-> r, n |-> n, doc |-> d, item |-> i, type |-> t, quantity |-> q] \in Movement
  BY DEF ShelfTypeOK, Movement
<1>2. QED
  BY <1>1 DEF ShelfTypeOK, Journaled

LEMMA StoredTyped ==
  ASSUME ShelfTypeOK, UNCHANGED movements, NEW i \in DOMAIN stock, NEW q \in Int, stock' = [stock EXCEPT ![i] = q]
  PROVE  ShelfTypeOK' /\ DOMAIN stock' = DOMAIN stock
BY DEF ShelfTypeOK

LEMMA PurchaseStepTyped ==
  ASSUME ServerInv, ShopTypesInv, NEW r \in Requests, PurchaseStep(r), call[r] \in ShopCalls,
         UNCHANGED <<call, sessions, repairs, depots>>
  PROVE  ShopTypesInv'
<1>0. Moves(r) /\ ShopReads(r) /\ ShelfTypeOK /\ PurchasesTypeOK /\ call[r].op \in PurchaseOps
  BY PurchaseMoves, StepKinds DEF ShopTypesInv
<1>a. /\ call[r].op \in {"createPurchase", "updatePurchase"} => call[r].row \in PurchaseRow
      /\ call[r].op # "createPurchase" => call[r].id \in OldRows \cup Requests
  BY <1>0, ShopFields DEF PurchaseOps
<1>b. UNCHANGED tickets
  BY DEF repairs
<1>1. CASE UNCHANGED shelf /\ PurchasesTypeOK' /\ ShopReads(r)'
  BY <1>0, <1>b, <1>1, RowsStay, ShopTypesKept DEF shelf
<1>2. CASE CreatePurchase(r)
  <2>1. UNCHANGED shelf /\ call[r].op = "createPurchase"
    BY <1>2 DEF CreatePurchase, At
  <2>2. \/ UNCHANGED purchases
        \/ ItemFits(call[r].row.item) /\ purchases' = Put(purchases, r, call[r].row)
    BY <1>2 DEF CreatePurchase
  <2>3. PurchasesTypeOK'
    BY <1>0, <1>a, <2>1, <2>2 DEF PurchasesTypeOK, ItemFits, shelf, Put
  <2>4. QED
    BY <1>1, <2>1, <2>3, ReadsNothingNext
<1>3. CASE UpdatePurchase(r) \/ DeletePurchase(r)
  <2>1. UNCHANGED shelf /\ call[r].op \in {"updatePurchase", "deletePurchase"}
    BY <1>3 DEF UpdatePurchase, DeletePurchase, At
  <2>2. \/ UNCHANGED purchases
        \/ purchases' = Without(purchases, call[r].id)
        \/ /\ ItemFits(call[r].row.item) /\ call[r].op = "updatePurchase"
           /\ purchases' = [purchases EXCEPT ![call[r].id] = call[r].row]
    BY <1>3 DEF UpdatePurchase, DeletePurchase, At
  <2>3. PurchasesTypeOK'
    BY <1>0, <1>a, <2>1, <2>2 DEF PurchasesTypeOK, ItemFits, shelf, Without
  <2>4. QED
    BY <1>1, <2>1, <2>3, ReadsNothingNext
<1>4. CASE FindPurchase(r)
  <2>1. UNCHANGED <<purchases, shelf>> /\ call[r].op \in {"updatePurchase", "receivePurchase", "deletePurchase"}
    BY <1>4 DEF FindPurchase, At
  <2>2. \/ pc'[r] = "refused"
        \/ call[r].id \in DOMAIN purchases /\ pc'[r] = "write" /\ seen'[r] = purchases[call[r].id]
    BY <1>4, KeepFacts, AnswerFacts DEF FindPurchase
  <2>3. call[r].id \in DOMAIN purchases => purchases[call[r].id].quantity \in Nat
    BY <1>0 DEF PurchasesTypeOK, PurchaseRow
  <2>4. ShopReads(r)'
    <3>1. CASE pc'[r] = "refused"
      BY <3>1, ReadsNothingNext DEF Ended
    <3>2. CASE pc'[r] = "write"
      BY <2>1, <2>2, <2>3, <3>2 DEF ShopReads, ReceiptReads, CountReads, RepairReads, PartSteps
    <3>3. QED
      BY <2>2, <3>1, <3>2
  <2>5. PurchasesTypeOK'
    BY <1>0, <2>1 DEF PurchasesTypeOK, ItemFits, shelf
  <2>6. QED
    BY <1>1, <2>1, <2>4, <2>5
<1>5. CASE MarkReceived(r)
  <2>1. UNCHANGED shelf /\ call[r].op = "receivePurchase" /\ pc[r] = "write"
    BY <1>5 DEF MarkReceived, At
  <2>2. \/ UNCHANGED purchases
        \/ purchases' = [purchases EXCEPT ![call[r].id].status = "RECEIVED"]
    BY <1>5 DEF MarkReceived
  <2>3. PurchasesTypeOK'
    BY <1>0, <2>1, <2>2 DEF PurchasesTypeOK, ItemFits, shelf, PurchaseRow, PurchaseStatuses
  <2>4. pc'[r] \in {"done", "refused"} \/ (pc'[r] = "item" /\ seen' = seen)
    BY <1>5, GotoFacts, AnswerFacts DEF MarkReceived
  <2>5. ShopReads(r)'
    BY <1>0, <2>1, <2>4 DEF ShopReads, ReceiptReads, CountReads, RepairReads, PartSteps
  <2>6. QED
    BY <1>1, <2>1, <2>3, <2>5
<1>6. CASE FindReceivedItem(r)
  <2>1. UNCHANGED <<purchases, shelf>> /\ call[r].op = "receivePurchase" /\ pc[r] = "item"
    BY <1>6 DEF FindReceivedItem, At
  <2>2. \/ pc'[r] = "done"
        \/ /\ seen[r].item \in DOMAIN stock /\ pc'[r] = "journal"
           /\ seen'[r] = [item |-> seen[r].item, quantity |-> seen[r].quantity, onHand |-> stock[seen[r].item]]
    BY <1>6, KeepFacts, AnswerFacts DEF FindReceivedItem
  <2>3. seen[r].quantity \in Nat /\ (seen[r].item \in DOMAIN stock => stock[seen[r].item] \in Int)
    BY <1>0, <2>1 DEF ShopReads, ReceiptReads, ShelfTypeOK
  <2>4. ShopReads(r)'
    BY <2>1, <2>2, <2>3 DEF ShopReads, ReceiptReads, CountReads, RepairReads, PartSteps
  <2>5. PurchasesTypeOK'
    BY <1>0, <2>1 DEF PurchasesTypeOK, ItemFits, shelf
  <2>6. QED
    BY <1>1, <2>1, <2>4, <2>5
<1>7. CASE JournalReceipt(r) \/ StoreReceipt(r)
  <2>1. UNCHANGED purchases /\ call[r].op = "receivePurchase" /\ pc[r] \in {"journal", "store"}
    BY <1>7 DEF JournalReceipt, StoreReceipt, At
  <2>2. seen[r].quantity \in Nat /\ seen[r].onHand \in Int
    BY <1>0, <2>1 DEF ShopReads, ReceiptReads
  <2>3. pc'[r] \in {"done", "refused"} \/ (pc'[r] = "store" /\ seen' = seen)
    BY <1>7, GotoFacts, AnswerFacts DEF JournalReceipt, StoreReceipt
  <2>4. ShopReads(r)'
    BY <2>1, <2>2, <2>3 DEF ShopReads, ReceiptReads, CountReads, RepairReads, PartSteps
  <2>5. ShelfTypeOK' /\ DOMAIN stock' = DOMAIN stock
    <3>1. CASE UNCHANGED shelf
      BY <1>0, <3>1 DEF ShelfTypeOK, shelf
    <3>2. CASE /\ seen[r].item \in DOMAIN stock /\ UNCHANGED stock
               /\ Journaled(r, 1, call[r].id, seen[r].item, "IN", seen[r].quantity)
      BY <1>0, <1>a, <2>1, <2>2, <3>2, JournaledTyped
    <3>3. CASE /\ seen[r].item \in DOMAIN stock /\ UNCHANGED movements
               /\ stock' = [stock EXCEPT ![seen[r].item] = seen[r].onHand + seen[r].quantity]
      <4>1. seen[r].onHand + seen[r].quantity \in Int
        BY <2>2
      <4>2. QED
        BY <1>0, <3>3, <4>1, StoredTyped
    <3>4. QED
      BY <1>7, <3>1, <3>2, <3>3 DEF JournalReceipt, StoreReceipt, shelf
  <2>6. QED
    BY <1>0, <1>b, <2>1, <2>4, <2>5, RowsStay, ShopTypesKept
<1>8. QED
  BY <1>2, <1>3, <1>4, <1>5, <1>6, <1>7 DEF PurchaseStep

LEMMA WithCountTyped ==
  ASSUME NEW l \in Sheet, NEW n \in Nat
  PROVE  WithCount(l, n) \in Sheet
<1>1. l.system \in Int /\ n - l.system \in Int
  BY DEF Sheet
<1>2. [l EXCEPT !.counted = n] \in Sheet
  BY DEF Sheet
<1>3. \A k \in Sheet, q \in Int : [k EXCEPT !.discrepancy = q] \in Sheet
  BY DEF Sheet
<1>4. WithCount(l, n) = [[l EXCEPT !.counted = n] EXCEPT !.discrepancy = n - l.system]
  BY DEF WithCount
<1>5. QED
  BY <1>1, <1>2, <1>3, <1>4

LEMMA InventoryStepTyped ==
  ASSUME ServerInv, SessionInv, ShopTypesInv, NEW r \in Requests, InventoryStep(r), call[r] \in ShopCalls,
         UNCHANGED <<call, purchases, repairs, depots>>
  PROVE  ShopTypesInv'
<1>0. Moves(r) /\ ShopReads(r) /\ ShelfTypeOK /\ InventoryTypeOK /\ call[r].op \in InventoryOps
  BY InventoryMoves, StepKinds DEF ShopTypesInv
<1>a. call[r].op # "createSession" => call[r].id \in OldRows \cup Requests
  BY <1>0, ShopFields DEF InventoryOps
<1>b. UNCHANGED tickets
  BY DEF repairs
<1>1. CASE UNCHANGED shelf /\ InventoryTypeOK' /\ ShopReads(r)'
  BY <1>0, <1>b, <1>1, RowsStay, ShopTypesKept DEF shelf
<1>2. CASE UNCHANGED <<sessions, shelf>> /\ ShopReads(r)'
  BY <1>0, <1>1, <1>2, RowsStay DEF shelf
<1>3. CASE CountShelf(r)
  <2>1. /\ UNCHANGED <<sessions, shelf>> /\ call[r].op = "createSession" /\ pc'[r] = "write"
        /\ seen'[r] = [lines |-> [i \in DOMAIN stock |->
                         [system |-> stock[i], counted |-> Uncounted, discrepancy |-> 0]]]
    BY <1>3, KeepFacts DEF CountShelf, At
  <2>2. \A i \in DOMAIN seen'[r].lines : seen'[r].lines[i] \in Sheet
    BY <1>0, <2>1 DEF ShelfTypeOK, Sheet, Uncounted
  <2>3. ShopReads(r)'
    BY <2>1, <2>2 DEF ShopReads, ReceiptReads, CountReads, RepairReads
  <2>4. QED
    BY <1>2, <2>1, <2>3
<1>4. CASE CreateSession(r)
  <2>1. UNCHANGED shelf /\ call[r].op = "createSession" /\ pc[r] = "write" /\ pc'[r] \in {"done", "refused"}
    BY <1>4, AnswerFacts DEF CreateSession, At
  <2>2. \/ UNCHANGED sessions
        \/ /\ DOMAIN seen[r].lines \subseteq DOMAIN stock
           /\ sessions' = Put(sessions, r, [status |-> "DRAFT", adjusted |-> FALSE, lines |-> seen[r].lines])
    BY <1>4 DEF CreateSession
  <2>3. \A i \in DOMAIN seen[r].lines : seen[r].lines[i] \in Sheet
    BY <1>0, <2>1 DEF ShopReads, CountReads
  <2>4. InventoryTypeOK'
    <3>1. CASE UNCHANGED sessions
      BY <1>0, <2>1, <3>1 DEF InventoryTypeOK, Lines, shelf
    <3>2. CASE /\ DOMAIN seen[r].lines \subseteq DOMAIN stock
               /\ sessions' = Put(sessions, r, [status |-> "DRAFT", adjusted |-> FALSE, lines |-> seen[r].lines])
      <4>1. PICK v : v = [status |-> "DRAFT", adjusted |-> FALSE, lines |-> seen[r].lines]
        OBVIOUS
      <4>2. /\ DOMAIN sessions' = DOMAIN sessions \cup {r} /\ sessions'[r] = v
            /\ \A s \in DOMAIN sessions \ {r} : sessions'[s] = sessions[s]
        BY <3>2, <4>1 DEF Put
      <4>3. v.status = "DRAFT" /\ v.adjusted = FALSE /\ v.lines = seen[r].lines
        BY <4>1
      <4>4. v.status \in {"DRAFT", "COMPLETED"} /\ v.adjusted \in BOOLEAN /\ DOMAIN v.lines \subseteq DOMAIN stock
            /\ \A i \in DOMAIN v.lines : v.lines[i] \in Sheet
        BY <2>3, <3>2, <4>3
      <4>5. QED
        BY <1>0, <2>1, <4>2, <4>4 DEF InventoryTypeOK, Lines, shelf
    <3>3. QED
      BY <2>2, <3>1, <3>2
  <2>5. QED
    BY <1>1, <2>1, <2>4, ReadsNothingNext DEF Ended
<1>5. CASE FindSession(r)
  <2>1. UNCHANGED <<sessions, shelf>> /\ call[r].op \in {"countLine", "completeSession", "applySession"}
    BY <1>5 DEF FindSession, At
  <2>2. CASE call[r].op \in {"countLine", "completeSession"}
    BY <1>2, <2>1, <2>2, ReadsNothingNext
  <2>3. CASE call[r].op = "applySession"
    <3>1. \/ pc'[r] = "refused"
          \/ /\ pc'[r] = "journal" /\ call[r].id \in DOMAIN sessions
             /\ seen'[r] = [lines |-> Discrepant(call[r].id)]
      BY <1>5, <2>3, KeepFacts, AnswerFacts DEF FindSession
    <3>2. call[r].id \in DOMAIN sessions =>
            \A i \in DOMAIN Discrepant(call[r].id) : Discrepant(call[r].id)[i] \in Sheet
      BY <1>0 DEF InventoryTypeOK, Discrepant, Lines
    <3>3. ShopReads(r)'
      BY <2>3, <3>1, <3>2 DEF ShopReads, ReceiptReads, CountReads, RepairReads
    <3>4. QED
      BY <1>2, <2>1, <3>3
  <2>4. QED
    BY <2>1, <2>2, <2>3
<1>6. CASE FindLine(r)
  <2>1. UNCHANGED <<sessions, shelf>> /\ call[r].op = "countLine"
    BY <1>6 DEF FindLine, At
  <2>2. QED
    BY <1>2, <2>1, ReadsNothingNext
<1>7. CASE CountLine(r)
  <2> DEFINE s == call[r].id
             i == call[r].item
  <2>1. UNCHANGED shelf /\ call[r].op = "countLine"
    BY <1>7 DEF CountLine, At
  <2>2. CASE UNCHANGED sessions
    BY <1>2, <2>1, <2>2, ReadsNothingNext
  <2>3. CASE OnSheet(r) /\ sessions' = [sessions EXCEPT ![s].lines[i] = WithCount(@, call[r].count)]
    <3>1. s \in DOMAIN sessions /\ i \in DOMAIN sessions[s].lines /\ call[r].count \in Nat
      BY <2>1, <2>3, ShopFields DEF OnSheet, Lines
    <3>2. DOMAIN sessions[s] = {"status", "adjusted", "lines"}
      BY <3>1 DEF SessionInv, Settled
    <3>3. sessions[s].lines[i] \in Sheet
      BY <1>0, <3>1 DEF InventoryTypeOK, Lines
    <3>4. WithCount(sessions[s].lines[i], call[r].count) \in Sheet
      BY <3>1, <3>3, WithCountTyped
    <3>5. PICK w : w = WithCount(sessions[s].lines[i], call[r].count)
      OBVIOUS
    <3>6. sessions' = [sessions EXCEPT ![s].lines[i] = w]
      BY <2>3, <3>5
    <3>7. /\ DOMAIN sessions' = DOMAIN sessions
          /\ \A t \in DOMAIN sessions \ {s} : sessions'[t] = sessions[t]
          /\ sessions'[s].status = sessions[s].status /\ sessions'[s].adjusted = sessions[s].adjusted
          /\ DOMAIN sessions'[s].lines = DOMAIN sessions[s].lines
          /\ \A j \in DOMAIN sessions[s].lines :
               sessions'[s].lines[j] = IF j = i THEN w ELSE sessions[s].lines[j]
      BY <3>1, <3>2, <3>6
    <3>8. InventoryTypeOK'
      BY <1>0, <2>1, <3>4, <3>5, <3>7 DEF InventoryTypeOK, Lines, shelf
    <3>9. QED
      BY <1>1, <2>1, <3>8, ReadsNothingNext
  <2>4. QED
    BY <1>7, <2>2, <2>3 DEF CountLine
<1>8. CASE CompleteSession(r) \/ SetAdjusted(r)
  <2>1. UNCHANGED shelf /\ pc'[r] = "done"
    BY <1>8, AnswerFacts DEF CompleteSession, SetAdjusted
  <2>2. \/ sessions' = [sessions EXCEPT ![call[r].id].status = "COMPLETED"]
        \/ sessions' = [sessions EXCEPT ![call[r].id].adjusted = TRUE]
    BY <1>8 DEF CompleteSession, SetAdjusted
  <2>3. \A s \in DOMAIN sessions : DOMAIN sessions[s] = {"status", "adjusted", "lines"}
    BY DEF SessionInv, Settled
  <2>4. /\ DOMAIN sessions' = DOMAIN sessions
        /\ \A s \in DOMAIN sessions : /\ sessions'[s].status \in {sessions[s].status, "COMPLETED"}
                                      /\ sessions'[s].adjusted \in {sessions[s].adjusted, TRUE}
                                      /\ sessions'[s].lines = sessions[s].lines
    <3>1. CASE sessions' = [sessions EXCEPT ![call[r].id].status = "COMPLETED"]
      BY <2>3, <3>1
    <3>2. CASE sessions' = [sessions EXCEPT ![call[r].id].adjusted = TRUE]
      BY <2>3, <3>2
    <3>3. QED
      BY <2>2, <3>1, <3>2
  <2>5. InventoryTypeOK'
    BY <1>0, <2>1, <2>4 DEF InventoryTypeOK, Lines, shelf
  <2>6. QED
    BY <1>1, <2>1, <2>5, ReadsNothingNext DEF Ended
<1>9. CASE JournalAdjustment(r)
  <2>1. UNCHANGED <<sessions, stock>> /\ call[r].op = "applySession" /\ pc[r] = "journal"
    BY <1>9 DEF JournalAdjustment, At
  <2>2. \A i \in DOMAIN seen[r].lines : seen[r].lines[i] \in Sheet
    BY <1>0, <2>1 DEF ShopReads, CountReads
  <2>3. PICK i \in DOMAIN seen[r].lines :
          IF i \in DOMAIN stock
            THEN /\ Journaled(r, 1, call[r].id, i, "ADJUSTMENT", seen[r].lines[i].discrepancy)
                 /\ Keep(r, "store", [item |-> i, lines |-> seen[r].lines])
            ELSE Refuse(r) /\ UNCHANGED movements
    BY <1>9 DEF JournalAdjustment
  <2>4. CASE i \notin DOMAIN stock
    <3>1. UNCHANGED shelf /\ pc'[r] = "refused"
      BY <2>1, <2>3, <2>4, AnswerFacts DEF shelf
    <3>2. QED
      BY <1>2, <2>1, <3>1, ReadsNothingNext DEF Ended
  <2>5. CASE i \in DOMAIN stock
    <3>1. seen[r].lines[i].discrepancy \in Int
      BY <2>2 DEF Sheet
    <3>2. ShelfTypeOK'
      BY <1>0, <1>a, <2>1, <2>3, <2>5, <3>1, JournaledTyped
    <3>3. pc'[r] = "store" /\ seen'[r] = [item |-> i, lines |-> seen[r].lines]
      BY <2>3, <2>5, KeepFacts
    <3>4. ShopReads(r)'
      BY <2>1, <2>2, <3>3 DEF ShopReads, ReceiptReads, CountReads, RepairReads
    <3>5. QED
      BY <1>0, <1>b, <2>1, <3>2, <3>4, RowsStay, ShopTypesKept
  <2>6. QED
    BY <2>4, <2>5
<1>10. CASE StoreCount(r)
  <2>1. UNCHANGED <<sessions, movements>> /\ call[r].op = "applySession" /\ pc[r] = "store"
    BY <1>10 DEF StoreCount, At
  <2>2. /\ \A i \in DOMAIN seen[r].lines : seen[r].lines[i] \in Sheet
        /\ seen[r].item \in DOMAIN seen[r].lines
    BY <1>0, <2>1 DEF ShopReads, CountReads
  <2>3. CASE seen[r].item \notin DOMAIN stock
    <3>1. UNCHANGED shelf /\ pc'[r] = "refused"
      BY <1>10, <2>1, <2>3, AnswerFacts DEF StoreCount, shelf
    <3>2. QED
      BY <1>2, <2>1, <3>1, ReadsNothingNext DEF Ended
  <2>4. CASE seen[r].item \in DOMAIN stock
    <3>1. /\ stock' = [stock EXCEPT ![seen[r].item] = seen[r].lines[seen[r].item].counted]
          /\ pc'[r] = "journal" /\ seen'[r] = [lines |-> Without(seen[r].lines, seen[r].item)]
      BY <1>10, <2>4, KeepFacts DEF StoreCount
    <3>2. seen[r].lines[seen[r].item].counted \in Int
      BY <2>2 DEF Sheet, Uncounted
    <3>3. ShelfTypeOK' /\ DOMAIN stock' = DOMAIN stock
      BY <1>0, <2>1, <2>4, <3>1, <3>2, StoredTyped
    <3>4. \A i \in DOMAIN seen'[r].lines : seen'[r].lines[i] \in Sheet
      BY <2>2, <3>1 DEF Without
    <3>5. ShopReads(r)'
      BY <2>1, <3>1, <3>4 DEF ShopReads, ReceiptReads, CountReads, RepairReads
    <3>6. QED
      BY <1>0, <1>b, <2>1, <3>3, <3>5, RowsStay, ShopTypesKept
  <2>5. QED
    BY <2>3, <2>4
<1>11. QED
  BY <1>3, <1>4, <1>5, <1>6, <1>7, <1>8, <1>9, <1>10 DEF InventoryStep

LEMMA TicketsFinite ==
  ASSUME DocInv
  PROVE  Cardinality(DOMAIN tickets) \in Nat
<1>1. DOMAIN tickets \subseteq DOMAIN OldTickets \cup Requests
  BY DEF DocInv, Ticketed
<1>2. IsFiniteSet(DOMAIN OldTickets \cup Requests)
  BY TicketsAssumption, RequestsAssumption, FS_Union
<1>3. QED
  BY <1>1, <1>2, FS_Subset, FS_CardinalityType

LEMMA TicketStepTyped ==
  ASSUME ServerInv, DocInv, ShopTypesInv, NEW r \in Requests, TicketStep(r), call[r] \in ShopCalls,
         UNCHANGED <<call, purchases, sessions, depots>>
  PROVE  ShopTypesInv'
<1>0. Moves(r) /\ ShopReads(r) /\ ShelfTypeOK /\ TicketsTypeOK /\ call[r].op \in TicketOps
  BY TicketMoves, StepKinds DEF ShopTypesInv
<1>a. call[r].op \in {"ticketStatus", "convertTicket"} => call[r].id \in OldRows \cup Requests
  BY ShopFields
<1>b. ASSUME call[r].op = "ticketStatus"
      PROVE  /\ call[r].status \in TicketStatuses
             /\ Len(call[r].usedParts) \in Nat /\ DOMAIN call[r].usedParts = 1..Len(call[r].usedParts)
             /\ \A n \in DOMAIN call[r].usedParts :
                  call[r].usedParts[n].item \in Items /\ call[r].usedParts[n].quantity \in Nat
  BY <1>b, ShopFields, UsedParts
<1>c. ASSUME call[r].op \in {"ticketStatus", "convertTicket"} PROVE ReceiptReads(r)' /\ CountReads(r)'
  BY <1>c DEF ReceiptReads, CountReads
<1>d. ASSUME call[r].op = "ticketStatus", pc[r] \in PartSteps
      PROVE  /\ call[r].id \in DOMAIN tickets /\ seen[r].n \in Nat
             /\ \A p \in seen[r].rows : p \in PartUsed /\ p.ticket \in DOMAIN tickets /\ p.item \in DOMAIN stock
             /\ pc[r] \notin {"update", "commit"} =>
                  seen[r].n \in DOMAIN call[r].usedParts /\ Part(r).item \in Items /\ Part(r).quantity \in Nat
  BY <1>0, <1>b, <1>d DEF ShopReads, RepairReads, PartSteps, Part
<1>1. CASE UNCHANGED <<repairs, shelf>> /\ ShopReads(r)'
  BY <1>0, <1>1, RowsStay, ShopTypesKept DEF repairs, shelf
<1>2. CASE pc'[r] = "refused" /\ UNCHANGED <<repairs, shelf>>
  BY <1>1, <1>2, ReadsNothingNext DEF Ended
<1>3. CASE CountTickets(r)
  <2>1. /\ UNCHANGED <<repairs, shelf>> /\ call[r].op = "createTicket" /\ pc'[r] = "write"
        /\ seen'[r] = [count |-> Cardinality(DOMAIN tickets)]
    BY <1>3, KeepFacts DEF CountTickets, At
  <2>2. ShopReads(r)'
    BY <2>1, TicketsFinite DEF ShopReads, ReceiptReads, CountReads, RepairReads
  <2>3. QED
    BY <1>1, <2>1, <2>2
<1>4. CASE CreateTicket(r)
  <2>1. UNCHANGED <<parts, shelf>> /\ seen[r].count \in Nat /\ pc'[r] \in {"done", "refused"}
    BY <1>0, <1>4, AnswerFacts DEF CreateTicket, At, ShopReads, RepairReads
  <2>2. \/ UNCHANGED tickets
        \/ tickets' = Put(tickets, r, [number |-> seen[r].count + 1, status |-> "RECEIVED"])
    BY <1>4 DEF CreateTicket
  <2>3. [number |-> seen[r].count + 1, status |-> "RECEIVED"] \in [number : Nat, status : TicketStatuses]
    BY <2>1 DEF TicketStatuses
  <2>4. TicketsTypeOK' /\ DOMAIN tickets \subseteq DOMAIN tickets'
    <3>1. CASE UNCHANGED tickets
      BY <1>0, <2>1, <3>1 DEF TicketsTypeOK, shelf
    <3>2. CASE tickets' = Put(tickets, r, [number |-> seen[r].count + 1, status |-> "RECEIVED"])
      <4>1. /\ DOMAIN tickets' = DOMAIN tickets \cup {r}
            /\ \A t \in DOMAIN tickets' : tickets'[t] \in [number : Nat, status : TicketStatuses]
        BY <1>0, <2>3, <3>2 DEF Put, TicketsTypeOK
      <4>2. QED
        BY <1>0, <2>1, <4>1 DEF TicketsTypeOK, shelf
    <3>3. QED
      BY <2>2, <3>1, <3>2
  <2>5. QED
    BY <1>0, <2>1, <2>4, RowsStay, ShopTypesKept, ReadsNothingNext DEF shelf, Ended
<1>5. CASE FindTicket(r)
  <2>1. UNCHANGED <<repairs, shelf>> /\ call[r].op = "ticketStatus"
    BY <1>5 DEF FindTicket, At
  <2>2. \/ pc'[r] = "refused"
        \/ /\ call[r].id \in DOMAIN tickets /\ seen'[r] = [n |-> 1, rows |-> {}]
           /\ pc'[r] = "update" \/ (pc'[r] = "part" /\ Len(call[r].usedParts) > 0)
    BY <1>5, KeepFacts, AnswerFacts DEF FindTicket, Deducts
  <2>3. CASE pc'[r] = "refused"
    BY <1>2, <2>1, <2>3
  <2>4. CASE pc'[r] # "refused"
    <3>1. RepairReads(r)'
      BY <1>b, <2>1, <2>2, <2>4 DEF RepairReads, repairs
    <3>2. QED
      BY <1>1, <1>c, <2>1, <3>1 DEF ShopReads
  <2>5. QED
    BY <2>3, <2>4
<1>6. CASE CheckPart(r)
  <2>1. /\ UNCHANGED <<repairs, shelf>> /\ call[r].op = "ticketStatus" /\ pc[r] = "part"
        /\ pc'[r] = "refused" \/ (pc'[r] = "decrement" /\ seen' = seen)
    BY <1>6, GotoFacts, AnswerFacts DEF CheckPart, At
  <2>2. CASE pc'[r] = "refused"
    BY <1>2, <2>1, <2>2
  <2>3. CASE pc'[r] # "refused"
    <3>1. RepairReads(r)'
      BY <1>d, <2>1, <2>3 DEF RepairReads, repairs, shelf, PartSteps
    <3>2. QED
      BY <1>1, <1>c, <2>1, <3>1 DEF ShopReads
  <2>4. QED
    BY <2>2, <2>3
<1>7. CASE DecrementPart(r) \/ JournalPart(r)
  <2>1. UNCHANGED repairs /\ call[r].op = "ticketStatus" /\ pc[r] \in {"decrement", "journal"}
    BY <1>7 DEF DecrementPart, JournalPart, At
  <2>2. CASE Part(r).item \notin DOMAIN stock
    BY <1>2, <1>7, <2>2, AnswerFacts DEF DecrementPart, JournalPart, shelf
  <2>3. CASE Part(r).item \in DOMAIN stock
    <3>1. pc'[r] \in {"journal", "attach"} /\ seen' = seen
      BY <1>7, <2>3, GotoFacts DEF DecrementPart, JournalPart
    <3>2. ShelfTypeOK' /\ DOMAIN stock' = DOMAIN stock
      <4>1. CASE DecrementPart(r)
        <5>1. /\ stock' = [stock EXCEPT ![Part(r).item] = stock[Part(r).item] - Part(r).quantity]
              /\ UNCHANGED movements
          BY <2>3, <4>1 DEF DecrementPart
        <5>2. stock[Part(r).item] - Part(r).quantity \in Int
          BY <1>0, <1>d, <2>1, <2>3 DEF ShelfTypeOK, PartSteps
        <5>3. QED
          BY <1>0, <2>3, <5>1, <5>2, StoredTyped
      <4>2. CASE JournalPart(r)
        <5>1. Journaled(r, seen[r].n, call[r].id, Part(r).item, "OUT", Part(r).quantity) /\ UNCHANGED stock
          BY <2>3, <4>2 DEF JournalPart
        <5>2. seen[r].n \in Nat /\ Part(r).quantity \in Int
          BY <1>d, <2>1 DEF PartSteps
        <5>3. QED
          BY <1>0, <1>a, <2>1, <2>3, <5>1, <5>2, JournaledTyped
      <4>3. QED
        BY <1>7, <4>1, <4>2
    <3>3. RepairReads(r)'
      BY <1>d, <2>1, <3>1, <3>2 DEF RepairReads, repairs, PartSteps
    <3>4. QED
      BY <1>0, <1>c, <2>1, <3>2, <3>3, RowsStay, ShopTypesKept DEF ShopReads, repairs
  <2>4. QED
    BY <2>2, <2>3
<1>8. CASE AttachPart(r)
  <2>1. UNCHANGED <<repairs, shelf>> /\ call[r].op = "ticketStatus" /\ pc[r] = "attach"
    BY <1>8 DEF AttachPart, At
  <2>2. CASE Part(r).item \notin DOMAIN stock
    BY <1>2, <1>8, <2>2, AnswerFacts DEF AttachPart
  <2>3. CASE Part(r).item \in DOMAIN stock
    <3>1. PICK p : p = [by |-> r, ticket |-> call[r].id, n |-> seen[r].n,
                        item |-> Part(r).item, quantity |-> Part(r).quantity]
      OBVIOUS
    <3>2. /\ seen'[r] = [n |-> seen[r].n + 1, rows |-> seen[r].rows \cup {p}]
          /\ pc'[r] = IF seen[r].n < Len(call[r].usedParts) THEN "part" ELSE "update"
      BY <1>8, <2>3, <3>1, KeepFacts DEF AttachPart
    <3>3. p \in PartUsed /\ p.ticket \in DOMAIN tickets /\ p.item \in DOMAIN stock
      BY <1>a, <1>d, <2>1, <2>3, <3>1 DEF PartUsed, PartSteps
    <3>4. RepairReads(r)'
      <4>1. pc'[r] = "part" => seen[r].n + 1 \in DOMAIN call[r].usedParts
        BY <1>b, <1>d, <2>1, <3>2 DEF PartSteps
      <4>2. QED
        BY <1>d, <2>1, <3>2, <3>3, <4>1 DEF RepairReads, repairs, shelf, PartSteps
    <3>5. QED
      BY <1>1, <1>c, <2>1, <3>4 DEF ShopReads
  <2>4. QED
    BY <2>2, <2>3
<1>9. CASE UpdateTicket(r) \/ MarkConverted(r)
  <2>1. /\ UNCHANGED <<parts, shelf>> /\ call[r].op \in {"ticketStatus", "convertTicket"}
        /\ \E s \in TicketStatuses : tickets' = [tickets EXCEPT ![call[r].id].status = s]
    BY <1>9, <1>b DEF UpdateTicket, MarkConverted, At, TicketStatuses
  <2>2. TicketsTypeOK' /\ DOMAIN tickets' = DOMAIN tickets
    BY <1>0, <2>1 DEF TicketsTypeOK, shelf
  <2>3. RepairReads(r)'
    <3>1. CASE UpdateTicket(r)
      <4>1. pc[r] = "update" /\ call[r].op = "ticketStatus" /\ pc'[r] = "commit" /\ seen' = seen
        BY <3>1, GotoFacts DEF UpdateTicket, At
      <4>2. QED
        BY <1>d, <2>1, <2>2, <4>1 DEF RepairReads, shelf, PartSteps
    <3>2. CASE MarkConverted(r)
      BY <3>2 DEF MarkConverted, At, RepairReads
    <3>3. QED
      BY <1>9, <3>1, <3>2
  <2>4. QED
    BY <1>0, <1>c, <2>1, <2>2, <2>3, RowsStay, ShopTypesKept DEF ShopReads, shelf
<1>10. CASE CommitParts(r)
  <2>1. /\ UNCHANGED <<tickets, shelf>> /\ parts' = parts \cup seen[r].rows /\ pc'[r] = "done"
        /\ call[r].op = "ticketStatus" /\ pc[r] = "commit"
    BY <1>10, AnswerFacts DEF CommitParts, At
  <2>2. \A p \in seen[r].rows : p \in PartUsed /\ p.ticket \in DOMAIN tickets /\ p.item \in DOMAIN stock
    BY <1>d, <2>1 DEF PartSteps
  <2>3. TicketsTypeOK'
    BY <1>0, <2>1, <2>2 DEF TicketsTypeOK, shelf, PartUsed
  <2>4. QED
    BY <1>0, <2>1, <2>3, RowsStay, ShopTypesKept, ReadsNothingNext DEF shelf, Ended
<1>11. CASE FindImpossible(r)
  BY <1>1, <1>11, ReadsNothingNext DEF FindImpossible, At
<1>12. CASE CreateRefurbished(r) \/ JournalRefurbished(r)
  <2>1. UNCHANGED repairs /\ call[r].op = "convertTicket"
    BY <1>12 DEF CreateRefurbished, JournalRefurbished, At
  <2>2. ShelfTypeOK' /\ DOMAIN stock \subseteq DOMAIN stock'
    <3>1. CASE CreateRefurbished(r)
      <4>1. stock' = Put(stock, r, 1) /\ UNCHANGED movements
        BY <3>1 DEF CreateRefurbished
      <4>2. DOMAIN stock' = DOMAIN stock \cup {r} /\ stock' \in [DOMAIN stock' -> Int]
        BY <1>0, <4>1 DEF Put, ShelfTypeOK
      <4>3. QED
        BY <1>0, <4>1, <4>2 DEF ShelfTypeOK, Items
    <3>2. CASE JournalRefurbished(r)
      <4>1. \/ UNCHANGED shelf
            \/ r \in DOMAIN stock /\ Journaled(r, 1, call[r].id, r, "IN", 1) /\ UNCHANGED stock
        BY <3>2 DEF JournalRefurbished, shelf
      <4>2. QED
        BY <1>0, <1>a, <2>1, <4>1, JournaledTyped DEF ShelfTypeOK, shelf
    <3>3. QED
      BY <1>12, <3>1, <3>2
  <2>3. QED
    BY <1>0, <2>1, <2>2, RowsStay, ShopTypesKept, ReadsNothingNext DEF repairs
<1>13. QED
  BY <1>3, <1>4, <1>5, <1>6, <1>7, <1>8, <1>9, <1>10, <1>11, <1>12 DEF TicketStep

LEMMA DepotStepTyped ==
  ASSUME ServerInv, ShopTypesInv, NEW r \in Requests, DepotStep(r), call[r] \in ShopCalls, Moves(r),
         UNCHANGED <<call, shop>>
  PROVE  ShopTypesInv'
<1>0. DepotsTypeOK /\ call[r].op \in DepotOps
  BY StepKinds DEF ShopTypesInv
<1>1. call[r].op \in {"createDepot", "updateDepot"} => call[r].main \in BOOLEAN
  BY ShopFields
<1>2. \/ UNCHANGED depots
      \/ depots' = [d \in DOMAIN depots |-> FALSE]
      \/ call[r].op \in {"createDepot", "updateDepot"} /\ depots' = Put(depots, r, call[r].main)
      \/ call[r].op \in {"createDepot", "updateDepot"} /\ depots' = [depots EXCEPT ![call[r].id] = call[r].main]
      \/ depots' = Without(depots, call[r].id)
  BY DEF DepotStep, FindDepot, ClearMain, CreateDepot, UpdateDepot, RemoveDepot, At
<1>3. DepotsTypeOK'
  BY <1>0, <1>1, <1>2 DEF DepotsTypeOK, DepotIds, Put, Without
<1>4. UNCHANGED <<shelf, purchases, sessions, repairs>>
  BY DEF shop, shelf, repairs
<1>5. ShopReads(r)'
  BY <1>0, ReadsNothingNext
<1>6. QED
  BY <1>3, <1>4, <1>5, RowsStay, ShopTypesKept DEF shelf, repairs

LEMMA RemoveItemTyped ==
  ASSUME ServerInv, SessionInv, ShopTypesInv, NEW r \in Requests, RemoveItem(r), Moves(r), UNCHANGED <<call, depots>>
  PROVE  ShopTypesInv'
<1> DEFINE i == call[r].item
<1>0. /\ ShelfTypeOK /\ PurchasesTypeOK /\ InventoryTypeOK /\ TicketsTypeOK /\ DepotsTypeOK
      /\ call[r].op = "removeItem" /\ UNCHANGED tickets /\ ShopReads(r)
  BY DEF ShopTypesInv, RemoveItem, At
<1>1. ShopReads(r)' /\ DepotsTypeOK'
  BY <1>0, ReadsNothingNext DEF DepotsTypeOK
<1>2. CASE i \notin DOMAIN stock
  <2>1. UNCHANGED <<shelf, purchases, sessions, repairs>>
    BY <1>0, <1>2 DEF RemoveItem, shelf, repairs
  <2>2. QED
    BY <1>1, <2>1, RowsStay, ShopTypesKept DEF shelf, repairs
<1>3. CASE i \in DOMAIN stock
  <2>1. /\ stock' = Without(stock, i) /\ movements' = {m \in movements : m.item # i}
        /\ purchases' = [p \in DOMAIN purchases |->
             IF purchases[p].item = i THEN [purchases[p] EXCEPT !.item = NoItem] ELSE purchases[p]]
        /\ sessions' = [s \in DOMAIN sessions |-> [sessions[s] EXCEPT !.lines = Without(sessions[s].lines, i)]]
        /\ parts' = {p \in parts : p.item # i} /\ ~Pinned(i)
    BY <1>3 DEF RemoveItem
  <2>2. DOMAIN stock' = DOMAIN stock \ {i} /\ \A j \in DOMAIN stock' : stock'[j] = stock[j]
    BY <2>1 DEF Without
  <2>3. ShelfTypeOK'
    <3>1. stock' \in [DOMAIN stock' -> Int]
      BY <1>0, <2>1 DEF Without, ShelfTypeOK
    <3>2. QED
      BY <1>0, <2>1, <2>2, <3>1 DEF ShelfTypeOK
  <2>4. PurchasesTypeOK'
    <3>1. \A v \in PurchaseRow : [v EXCEPT !.item = NoItem] \in PurchaseRow /\ [v EXCEPT !.item = NoItem].item = NoItem
      BY DEF PurchaseRow
    <3>2. DOMAIN purchases' = DOMAIN purchases
          /\ \A p \in DOMAIN purchases : purchases'[p] \in PurchaseRow /\ purchases'[p].item \in DOMAIN stock' \cup {NoItem}
      BY <1>0, <2>1, <2>2, <3>1 DEF PurchasesTypeOK, ItemFits
    <3>3. purchases' \in [DOMAIN purchases' -> PurchaseRow]
      BY <2>1, <3>2
    <3>4. QED
      BY <1>0, <3>2, <3>3 DEF PurchasesTypeOK, ItemFits
  <2>5. InventoryTypeOK'
    <3>1. \A s \in DOMAIN sessions : DOMAIN sessions[s] = {"status", "adjusted", "lines"}
      BY DEF SessionInv, Settled
    <3>2. /\ DOMAIN sessions' = DOMAIN sessions
          /\ \A s \in DOMAIN sessions : /\ sessions'[s].status = sessions[s].status
                                        /\ sessions'[s].adjusted = sessions[s].adjusted
                                        /\ sessions'[s].lines = Without(sessions[s].lines, i)
      BY <2>1, <3>1
    <3>3. \A s \in DOMAIN sessions : /\ DOMAIN sessions'[s].lines = DOMAIN sessions[s].lines \ {i}
                                    /\ \A j \in DOMAIN sessions'[s].lines :
                                         sessions'[s].lines[j] = sessions[s].lines[j]
      BY <3>2 DEF Without
    <3>4. QED
      BY <1>0, <2>2, <3>2, <3>3 DEF InventoryTypeOK, Lines
  <2>6. TicketsTypeOK'
    BY <1>0, <2>1, <2>2 DEF TicketsTypeOK
  <2>7. ASSUME NEW s \in Requests \ {r} PROVE ShopReads(s)'
    <3>1. ShopReads(s) /\ call'[s] = call[s] /\ pc'[s] = pc[s] /\ seen'[s] = seen[s]
      BY DEF ShopTypesInv, Moves
    <3>2. ReceiptReads(s)' /\ CountReads(s)'
      BY <3>1 DEF ShopReads, ReceiptReads, CountReads
    <3>3. call[s].op = "ticketStatus" /\ pc[s] \in PartSteps => \A p \in seen[s].rows : p.item # i
      BY <2>1 DEF Pinned, At, PartSteps
    <3>4. RepairReads(s)'
      BY <1>0, <2>2, <3>1, <3>3 DEF ShopReads, RepairReads
    <3>5. QED
      BY <3>2, <3>4 DEF ShopReads
  <2>8. QED
    BY <1>1, <2>3, <2>4, <2>5, <2>6, <2>7 DEF ShopTypesInv
<1>4. QED
  BY <1>2, <1>3

LEMMA ShopTypesStart == Init => ShopTypesInv
<1> SUFFICES ASSUME Init PROVE ShopTypesInv
  OBVIOUS
<1>1. /\ stock = Opening /\ movements = {} /\ purchases = OldPurchases /\ sessions = OldSessions
      /\ tickets = OldTickets /\ parts = {} /\ depots = OldDepots /\ \A r \in Requests : pc[r] = "idle"
  BY DEF Init, ShopInit, ShelfInit, PurchasesInit, InventoryInit, TicketsInit, DepotsInit, ServerInit
<1>2. ShelfTypeOK
  BY <1>1, ShelfAssumption DEF ShelfTypeOK, Items
<1>3. PurchasesTypeOK
  BY <1>1, PurchasesAssumption DEF PurchasesTypeOK, ItemFits
<1>4. InventoryTypeOK
  BY <1>1, SessionsAssumption DEF InventoryTypeOK, Lines
<1>5. TicketsTypeOK
  BY <1>1, TicketsAssumption DEF TicketsTypeOK
<1>6. DepotsTypeOK
  BY <1>1, DepotsAssumption DEF DepotsTypeOK, DepotIds
<1>7. \A r \in Requests : ShopReads(r)
  BY <1>1, ReadsNothing
<1>8. QED
  BY <1>2, <1>3, <1>4, <1>5, <1>6, <1>7 DEF ShopTypesInv

LEMMA ShopTypesNext ==
  ASSUME ServerInv, Asking, SessionInv, DocInv, ShopTypesInv, [Next]_vars
  PROVE  ShopTypesInv'
<1>1. CASE UNCHANGED <<pc, call, seen, shopTables>>
  <2>1. UNCHANGED <<shelf, purchases, sessions, repairs, depots>>
    BY <1>1 DEF shopTables, shop, shelf, repairs
  <2>2. \A r \in Requests : ShopReads(r)'
    BY <1>1, <2>1, OthersRead DEF ShopTypesInv, shelf, repairs
  <2>3. QED
    BY <2>1, <2>2, RowsStay DEF ShopTypesInv, shelf
<1>2. ASSUME NEW r \in Requests, Request(r) PROVE ShopTypesInv'
  <2>1. CASE UNCHANGED shopTables /\ Moves(r) /\ ShopReads(r)' /\ \A s \in Requests \ {r} : call'[s] = call[s]
    <3>1. UNCHANGED <<shelf, purchases, sessions, repairs, depots>>
      BY <2>1 DEF shopTables, shop, shelf, repairs
    <3>2. \A s \in Requests \ {r} : ShopReads(s)'
      BY <2>1, <3>1, OthersRead DEF ShopTypesInv, shelf, repairs, Moves
    <3>3. QED
      BY <2>1, <3>1, <3>2, RowsStay DEF ShopTypesInv, shelf
  <2>2. CASE Arrive(r) /\ UNCHANGED tables
    BY <2>1, <2>2, ArriveFacts, ReadsNothingNext DEF tables
  <2>3. CASE Fail(r) /\ UNCHANGED tables
    BY <2>1, <2>3, FailFacts, ReadsNothingNext DEF tables, Ended
  <2>4. CASE ShopStep(r) /\ UNCHANGED call /\ Moves(r) /\ call[r].op \in ShopOps
    <3>0. call[r] \in ShopCalls
      BY <2>4, CallsTyped
    <3>1. CASE PurchaseStep(r) /\ UNCHANGED <<sessions, repairs, depots>>
      BY <2>4, <3>0, <3>1, PurchaseStepTyped
    <3>2. CASE InventoryStep(r) /\ UNCHANGED <<purchases, repairs, depots>>
      BY <2>4, <3>0, <3>2, InventoryStepTyped
    <3>3. CASE TicketStep(r) /\ UNCHANGED <<purchases, sessions, depots>>
      BY <2>4, <3>0, <3>3, TicketStepTyped
    <3>4. CASE RemoveItem(r) /\ UNCHANGED depots
      BY <2>4, <3>4, RemoveItemTyped
    <3>5. CASE FindItem(r) /\ UNCHANGED depots
      <4>1. call'[r].op = "removeItem" /\ UNCHANGED shopTables
        BY <2>4, <3>5 DEF FindItem, At, shopTables
      <4>2. QED
        BY <2>1, <2>4, <4>1, ReadsNothingNext
    <3>6. CASE DepotStep(r) /\ UNCHANGED shop
      BY <2>4, <3>0, <3>6, DepotStepTyped
    <3>7. QED
      BY <2>4, <3>1, <3>2, <3>3, <3>4, <3>5, <3>6 DEF ShopStep
  <2>5. CASE UNCHANGED <<call, shopTables>> /\ Moves(r) /\ call[r].op \notin ShopOps
    BY <2>1, <2>5, ReadsNothingNext
  <2>6. QED
    BY <1>2, <2>2, <2>3, <2>4, <2>5, NotShop, RequestCases
<1>3. CASE Restart
  <2>1. /\ UNCHANGED <<call, shopTables>>
        /\ \A r \in Requests : pc'[r] \in Ended \cup {"idle"}
    BY <1>3, RestartFacts DEF InFlight, Ended
  <2>2. UNCHANGED <<shelf, purchases, sessions, repairs, depots>>
    BY <2>1 DEF shopTables, shop, shelf, repairs
  <2>3. \A r \in Requests : ShopReads(r)'
    BY <2>1, ReadsNothingNext
  <2>4. QED
    BY <2>2, <2>3, RowsStay DEF ShopTypesInv, shelf
<1>4. QED
  BY <1>1, <1>2, <1>3 DEF Next, Clock, vars, serverVars, shopTables, shop

LEMMA ShopTypesHold == ShopTypesInv => ShopTypeOK
BY DEF ShopTypesInv, ShopTypeOK, ShelfTypeOK
=============================================================================
