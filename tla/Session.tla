------------------------------ MODULE Session ------------------------------
(***************************************************************************)
(* The session of one browser tab (App.tsx): the token and the user in the *)
(* storage, the view that is shown, the sign-in wizard and the two dialogs *)
(* that change a session.  Handlers go on after the component that started *)
(* them is gone; several may be in flight, and their answers come in any   *)
(* order.  In the browser the storage answers within the turn, so storing  *)
(* token, user and tenant is one step.                                     *)
(***************************************************************************)
EXTENDS Sequences, Naturals

CONSTANTS
  Accounts,   \* who can sign in
  Console,    \* those of the platform's console
  TwoFactor,  \* those asked for a second factor
  Joining,    \* those that register first
  Starting,   \* those with a temporary password at the start
  Nobody,
  MaxSent     \* requests the tab sends

ASSUME AccountsAssumption ==
  /\ Console \cup TwoFactor \cup Joining \cup Starting \subseteq Accounts
  /\ Joining \cap TwoFactor = {} /\ Nobody \notin Accounts /\ MaxSent \in Nat

VARIABLES
  view,       \* "auth", "super-admin" or "dashboard"
  token,      \* kpsy_token: its account and mustChangePassword, or Nobody
  user,       \* kpsy_user
  setup,      \* showSecuritySetup
  step,       \* the step of the first-login dialog
  mode,       \* the page of the wizard
  pending,    \* the account of the wizard's temporary token, or Nobody
  raised,     \* the loading flags of the components on the screen
  sent,       \* the handlers that have sent a request, in order
  temporary,  \* server: accounts that must change their password
  mixed       \* the stored user was rewritten by an answer of another session

session == <<view, token, user, setup, step, mode, pending, raised, sent, temporary, mixed>>

Wizard == {"register", "confirm", "login", "verify"}
Dialogs == {"secondFactor", "change"}
Handlers == Wizard \cup Dialogs \cup {"api"}
Past == "over"
Waiting(i) == sent[i].phase \in {"sent", "again"}
Due(i) == sent[i].phase = "due"

Home(accounts) == IF accounts \cap Console # {} THEN "super-admin" ELSE "dashboard"
Claims(a) == [account |-> a, must |-> a \in temporary]
Holder == IF token = Nobody THEN Nobody ELSE token.account

SessionTypeOK ==
  /\ view \in {"auth", "super-admin", "dashboard"}
  /\ token = Nobody \/ token \in [account : Accounts, must : BOOLEAN]
  /\ user \in Accounts \cup {Nobody} /\ pending \in TwoFactor \cup {Nobody}
  /\ setup \in BOOLEAN /\ mixed \in BOOLEAN /\ step \in {1, 2}
  /\ mode \in {"selection", "signup", "otp-confirm", "login"}
  /\ raised \subseteq IF view = "auth" THEN Wizard ELSE Dialogs
  /\ temporary \subseteq Starting /\ Len(sent) <= MaxSent

-----------------------------------------------------------------------------
(* Views.  A component that leaves the screen takes its flags and its form *)
(* along; the handlers it started are "gone", and only reach the storage.  *)

Leaving(v) == (IF view = "auth" /\ v # "auth" THEN Wizard ELSE {})
              \cup (IF view # v THEN {"secondFactor"} ELSE {})
              \cup (IF v = "auth" THEN {"change"} ELSE {})
Abandoned(v, s) ==
  [i \in DOMAIN s |-> IF s[i].handler \in Leaving(v) THEN [s[i] EXCEPT !.gone = TRUE] ELSE s[i]]

Show(v, s, flags) ==
  /\ view' = v
  /\ sent' = Abandoned(v, s) /\ raised' = flags \ Leaving(v)
  /\ mode' = IF v = "auth" THEN mode ELSE "selection"
  /\ pending' = IF v = "auth" THEN pending ELSE Nobody
  /\ step' = IF v = "auth" THEN 1 ELSE step

(* What App makes of a stored session: at its start, and at each event of  *)
(* the wizard.                                                             *)
Stored == token # Nobody /\ user # Nobody
StoredView == Home({Holder, user})
MustSetUp == Stored /\ token.must

(* A tab opened for the first time.                                        *)
SessionInit ==
  /\ view = "auth" /\ token = Nobody /\ user = Nobody /\ setup = FALSE /\ step = 1
  /\ mode = "selection" /\ pending = Nobody /\ raised = {} /\ sent = <<>>
  /\ temporary = Starting /\ mixed = FALSE

(* The page is loaded again: only the storage is left.                     *)
Reload ==
  /\ view' = IF Stored THEN StoredView ELSE "auth"
  /\ setup' = MustSetUp
  /\ step' = 1 /\ mode' = "selection" /\ pending' = Nobody /\ raised' = {}
  /\ sent' = [i \in DOMAIN sent |-> [sent[i] EXCEPT !.phase = Past]]
  /\ UNCHANGED <<token, user, temporary, mixed>>

(* Signing out leaves the first-login dialog as it was.                    *)
Logout ==
  /\ view # "auth"
  /\ token' = Nobody /\ user' = Nobody /\ mixed' = FALSE
  /\ Show("auth", sent, raised)
  /\ UNCHANGED <<setup, temporary>>

-----------------------------------------------------------------------------
(* The user.                                                               *)

(* The tabs of the wizard can be used at any time, also while a handler    *)
(* runs; the second factor can be left when its own does not.              *)
Browse ==
  /\ view = "auth"
  /\ \/ mode' \in {"selection", "login"} /\ UNCHANGED pending
     \/ mode \in {"selection", "otp-confirm"} /\ mode' = "signup" /\ UNCHANGED pending
     \/ mode = "login" /\ "verify" \notin raised /\ pending' = Nobody /\ UNCHANGED mode
  /\ UNCHANGED <<view, token, user, setup, step, raised, sent, temporary, mixed>>

(* The buttons: which handler can be started, and for which account.       *)
Ready(handler, a) ==
  CASE handler = "register" -> mode = "signup" /\ a \in Joining
    [] handler = "confirm" -> mode = "otp-confirm" /\ a \in Joining
    [] handler = "login" -> mode = "login" /\ pending = Nobody /\ a \in Accounts
    [] handler = "verify" -> mode = "login" /\ pending # Nobody /\ a = pending
    [] handler = "secondFactor" -> a = user
    [] handler = "change" -> setup /\ step = 1 /\ a = Holder
    [] OTHER -> a = Holder

Press ==
  /\ Len(sent) < MaxSent
  /\ \E handler \in Handlers, a \in Accounts \cup {Nobody} :
       /\ (handler \in Wizard) = (view = "auth") /\ handler \notin raised
       /\ Ready(handler, a)
       /\ sent' = Append(sent, [handler |-> handler, account |-> a, bearer |-> token,
                                phase |-> "sent", gone |-> FALSE])
       /\ raised' = IF handler = "api" THEN raised ELSE raised \cup {handler}
  /\ UNCHANGED <<view, token, user, setup, step, mode, pending, temporary, mixed>>

-----------------------------------------------------------------------------
(* The answers.                                                            *)

Goes(i, phase) == [sent EXCEPT ![i].phase = phase]
Lowered(i) == IF sent[i].gone THEN raised ELSE raised \ {sent[i].handler}
Ends(i) == sent' = Goes(i, Past) /\ raised' = Lowered(i)
Forget == token' = Nobody /\ user' = Nobody /\ mixed' = FALSE
Keep(a) == token' = Claims(a) /\ user' = a /\ mixed' = FALSE

(* An error other than 401: its message is shown.                          *)
Refused(i) ==
  /\ Waiting(i) /\ ~(sent[i].handler = "change" /\ sent[i].phase = "again")
  /\ Ends(i)
  /\ UNCHANGED <<view, token, user, setup, step, mode, pending, temporary, mixed>>

(* ApiClient.handleResponse: a 401 drops the token and the user that are   *)
(* stored by then, whoever they belong to.  Nobody listens to the event it *)
(* sends, so the view stays.  The wizard's own login and second factor do  *)
(* not go through ApiClient, and its registration is not answered so.      *)
Unauthorized(i) ==
  /\ Waiting(i)
  /\ sent[i].handler \in Dialogs \cup {"api"} \/ (sent[i].handler = "confirm" /\ sent[i].phase = "again")
  /\ ~(sent[i].handler = "change" /\ sent[i].phase = "again")
  /\ Forget /\ Ends(i)
  /\ UNCHANGED <<view, setup, step, mode, pending, temporary>>

(* handleRegister: the code is on its way.                                 *)
Registered(i) ==
  /\ Waiting(i) /\ sent[i].handler = "register" /\ Ends(i)
  /\ mode' = IF sent[i].gone THEN mode ELSE "otp-confirm"
  /\ UNCHANGED <<view, token, user, setup, step, pending, temporary, mixed>>

(* handleConfirmOtp: the account is there, and is signed in next.          *)
Confirmed(i) ==
  /\ sent[i].phase = "sent" /\ sent[i].handler = "confirm"
  /\ sent' = Goes(i, "again")
  /\ UNCHANGED <<view, token, user, setup, step, mode, pending, raised, temporary, mixed>>

(* handleLogin, of an account with a second factor.                        *)
AsksCode(i) ==
  /\ Waiting(i) /\ sent[i].handler = "login" /\ sent[i].account \in TwoFactor
  /\ pending' = IF sent[i].gone THEN pending ELSE sent[i].account
  /\ Ends(i)
  /\ UNCHANGED <<view, token, user, setup, step, mode, temporary, mixed>>

(* handleLogin and handleVerifyTotp: the session is stored, and announced  *)
(* 800 ms later; meanwhile the buttons are back.                           *)
SignedIn(i) ==
  /\ Waiting(i)
  /\ \/ sent[i].handler = "login" /\ sent[i].account \notin TwoFactor
     \/ sent[i].handler = "verify"
  /\ Keep(sent[i].account)
  /\ sent' = Goes(i, "due") /\ raised' = Lowered(i)
  /\ UNCHANGED <<view, setup, step, mode, pending, temporary>>

(* Mutant of Announced: the claim of the token is not looked at.           *)
AnnouncedPlain(i) ==
  /\ Due(i)
  /\ Show(IF Stored THEN StoredView ELSE Home({sent[i].account}), Goes(i, Past), raised)
  /\ UNCHANGED <<token, user, setup, temporary, mixed>>

(* kpsy:login: App shows the view of the session stored by then, or, when  *)
(* there is none any more, that of the account that had signed in.         *)
Announced(i) ==
  /\ Due(i)
  /\ Show(IF Stored THEN StoredView ELSE Home({sent[i].account}), Goes(i, Past), raised)
  /\ setup' = (setup \/ MustSetUp)
  /\ UNCHANGED <<token, user, temporary, mixed>>

(* handleConfirmOtp stores the new session and announces it at once.       *)
Joined(i) ==
  /\ sent[i].phase = "again" /\ sent[i].handler = "confirm"
  /\ Keep(sent[i].account)
  /\ Show(Home({sent[i].account}), Goes(i, Past), Lowered(i))
  /\ setup' = (setup \/ sent[i].account \in temporary)
  /\ UNCHANGED temporary

(* TotpSetupModal.handleEnable and handleDisable: the user as it was when  *)
(* the button was pressed is stored again.                                 *)
SecondFactorSet(i) ==
  /\ Waiting(i) /\ sent[i].handler = "secondFactor" /\ sent[i].bearer # Nobody /\ ~sent[i].bearer.must
  /\ user' = sent[i].account /\ mixed' = (mixed \/ sent[i].account # Holder)
  /\ Ends(i)
  /\ UNCHANGED <<view, token, setup, step, mode, pending, temporary>>

(* handleChangePassword of the first-login dialog; the token it was done   *)
(* with still says that the password must be changed.                      *)
PasswordChanged(i) ==
  /\ sent[i].phase = "sent" /\ sent[i].handler = "change" /\ sent[i].bearer # Nobody
  /\ temporary' = temporary \ {sent[i].account}
  /\ sent' = Goes(i, "again")
  /\ UNCHANGED <<view, token, user, setup, step, mode, pending, raised, mixed>>

(* loadTotpSetup asks a route that the server has not and keeps its error  *)
(* to itself: the second step has no code to show, and its button stays    *)
(* disabled.                                                               *)
SetupNotLoaded(i) ==
  /\ sent[i].phase = "again" /\ sent[i].handler = "change"
  /\ step' = IF sent[i].gone THEN step ELSE 2
  /\ Ends(i)
  /\ UNCHANGED <<view, token, user, setup, mode, pending, temporary, mixed>>

(* A list or a command of a screen.                                        *)
Answered(i) ==
  /\ Waiting(i) /\ sent[i].handler = "api" /\ sent[i].bearer # Nobody /\ Ends(i)
  /\ UNCHANGED <<view, token, user, setup, step, mode, pending, temporary, mixed>>

SessionAnswers ==
  \E i \in DOMAIN sent :
    \/ Refused(i) \/ Unauthorized(i) \/ Registered(i) \/ Confirmed(i) \/ AsksCode(i)
    \/ SignedIn(i) \/ Announced(i) \/ Joined(i) \/ SecondFactorSet(i) \/ PasswordChanged(i)
    \/ SetupNotLoaded(i) \/ Answered(i)

SessionNext == Reload \/ Logout \/ Browse \/ Press \/ SessionAnswers

-----------------------------------------------------------------------------
(* 'Naviguer sans rechargement via CustomEvent'                            *)
(* (PremiumAuthWizard.tsx:444): once no sign-in waits for its event, a     *)
(* stored session is that of one account, the view is the account's, and   *)
(* whoever must change the password is told to - in every order of         *)
(* answers, late 401s, sign-outs and reloads, unless the dialog of the     *)
(* second factor brought back the user of another session.                 *)
ViewOfSession ==
  (token # Nobody /\ ~mixed /\ \A i \in DOMAIN sent : ~Due(i)) =>
    /\ user = Holder /\ view = Home({Holder})
    /\ token.must => setup
=============================================================================
