------------------------------- MODULE Accounts -------------------------------
(***************************************************************************)
(* Registration, passwords and two-factor login                            *)
(* (core/auth/auth.service).  The registration a code confirms waits in    *)
(* the memory of the process; everything else is in the database.          *)
(***************************************************************************)
EXTENDS Users, Otp

CONSTANTS
  OldPending,            (* registrations waiting at the start, by e-mail   *)
  OldSpaces              (* numbers of the tenants of the sector, by tenant *)

VARIABLES
  pending,               (* registrationCache: [phone, expired], by e-mail  *)
  spaces                 (* Tenant.code: its number in the sector           *)

accounts == <<people, otps, pending, spaces>>

SpaceIds == DOMAIN OldSpaces \cup Requests
AccountCalls ==
  [op : {"registerInit"}, email : Emails, phone : Phones]
    \cup [op : {"registerConfirm"}, email : Emails, code : OldCodes \cup Requests]
    \cup [op : {"login"}, email : Emails, password : Maker]
    \cup [op : {"changePassword"}, id : UserIds, password : Maker]
    \cup [op : {"setupTotp"}, id : UserIds]
    \cup [op : {"enableTotp"}, id : UserIds, totp : Codes]
    \cup [op : {"disableTotp"}, id : UserIds, password : Maker, totp : Codes]
    \cup [op : {"verifyTotp"}, id : UserIds, token : OldTokens \cup Requests, totp : Codes]

(* Who waits to be registered has an e-mail of his own; the tenants have   *)
(* each their number; a token opens one session, and a backup code is made *)
(* for one account.                                                        *)
ASSUME AccountsAssumption ==
  /\ OldPending \in [DOMAIN OldPending -> [phone : Phones, expired : BOOLEAN]] /\ DOMAIN OldPending \subseteq Emails
  /\ \A u \in DOMAIN OldUsers : OldUsers[u].email \notin DOMAIN OldPending
  /\ OldSpaces \in [DOMAIN OldSpaces -> Nat] /\ IsFiniteSet(DOMAIN OldSpaces)
  /\ \A s, t \in DOMAIN OldSpaces : OldSpaces[s] = OldSpaces[t] => s = t
  /\ OldTokens \cap Requests = {} /\ None \notin OldTokens \cup Requests
  /\ \A u \in DOMAIN OldUsers :
       /\ OldUsers[u].session \in OldTokens \cup {None}
       /\ \A c \in OldUsers[u].backups : c[1] \notin Requests /\ c[2] # 0
       /\ \A v \in DOMAIN OldUsers \ {u} :
            /\ OldUsers[u].session # OldUsers[v].session \/ OldUsers[u].session = None
            /\ OldUsers[u].backups \cap OldUsers[v].backups = {}

AccountsInit == OtpInit /\ pending = OldPending /\ spaces = OldSpaces

-----------------------------------------------------------------------------
(* Registration.                                                           *)

(* Mutant of EmailFree: nobody looks for the e-mail.                       *)
EmailFreeAlways(e) == TRUE

EmailFree(e) == ~EmailTaken(e)

InitEmail(r) ==
  /\ At(r, {"registerInit"}, "start")
  /\ IF EmailFree(call[r].email) THEN Goto(r, "phone") ELSE Refuse(r)
  /\ UNCHANGED accounts

InitPhone(r) ==
  /\ At(r, {"registerInit"}, "phone")
  /\ IF PhoneTaken(call[r].phone) THEN Refuse(r) ELSE Goto(r, "store")
  /\ UNCHANGED accounts

(* The registration replaces the one that waits, whether or not the code   *)
(* that should go with it is refused for coming too early.                 *)
StoreRegistration(r) ==
  /\ At(r, {"registerInit"}, "store")
  /\ pending' = Put(pending, call[r].email, [phone |-> call[r].phone, expired |-> FALSE])
  /\ SendOtp(r, call[r].email)
  /\ UNCHANGED <<people, spaces>>

(* sendEmail keeps its errors to itself.                                   *)
SendCode(r) ==
  /\ At(r, {"registerInit"}, "send")
  /\ Answer(r, "done")
  /\ UNCHANGED accounts

ConfirmCode(r) ==
  /\ At(r, {"registerConfirm"}, "start")
  /\ VerifyOtp(r, call[r].email, "pending")
  /\ UNCHANGED <<people, pending, spaces>>

TakeRegistration(r) ==
  /\ At(r, {"registerConfirm"}, "pending")
  /\ LET e == call[r].email
     IN  /\ pending' = Without(pending, e)
         /\ IF e \in DOMAIN pending
              THEN IF pending[e].expired THEN Refuse(r)
                   ELSE Keep(r, "count", [phone |-> pending[e].phone, number |-> 0])
              ELSE Refuse(r)
  /\ UNCHANGED <<people, otps, spaces>>

CountSpaces(r) ==
  /\ At(r, {"registerConfirm"}, "count")
  /\ Keep(r, "commit", [seen[r] EXCEPT !.number = Cardinality(DOMAIN spaces) + 1])
  /\ UNCHANGED accounts

(* The tenant, its roles and its administrator, in one transaction; the    *)
(* code of a tenant is unique.                                             *)
CreateSpace(r) ==
  /\ At(r, {"registerConfirm"}, "commit")
  /\ IF \A s \in DOMAIN spaces : spaces[s] # seen[r].number
       THEN /\ Answer(r, "done")
            /\ spaces' = Put(spaces, r, seen[r].number)
            /\ users' = Put(users, r, NewUser(r, call[r].email, seen[r].phone, r, FALSE))
            /\ userRoles' = userRoles \cup {[user |-> r, role |-> "ADMIN_TENANT", by |-> r]}
       ELSE Refuse(r) /\ UNCHANGED <<spaces, people>>
  /\ UNCHANGED <<otps, pending>>

-----------------------------------------------------------------------------
(* Login, in one step or two.                                              *)

(* findFirst: any account with the e-mail.                                 *)
Login(r) ==
  /\ At(r, {"login"}, "start")
  /\ \/ \E u \in DOMAIN users :
          /\ users[u].email = call[r].email
          /\ IF users[u].active /\ users[u].password = call[r].password
               THEN IF users[u].totp THEN Keep(r, "session", [user |-> u]) ELSE Answer(r, "done")
               ELSE Refuse(r)
     \/ ~EmailTaken(call[r].email) /\ Refuse(r)
  /\ UNCHANGED accounts

OpenSession(r) ==
  /\ At(r, {"login"}, "session")
  /\ LET u == seen[r].user IN
     IF u \in DOMAIN users
       THEN Answer(r, "done") /\ users' = [users EXCEPT ![u].session = r, ![u].attempts = 0]
       ELSE Refuse(r) /\ UNCHANGED users
  /\ UNCHANGED <<userRoles, otps, pending, spaces>>

InSession(r, row) == row.active /\ row.totp /\ row.session = call[r].token
AppAccepts(row, c) == row.secret # None /\ c = AppCode(row.secret)

CheckTotp(r) ==
  /\ At(r, {"verifyTotp"}, "start")
  /\ LET u == call[r].id
         c == call[r].totp
     IN  IF u \in DOMAIN users
           THEN IF ~InSession(r, users[u]) THEN Refuse(r)
                ELSE IF users[u].attempts >= MaxAttempts THEN Goto(r, "lock")
                ELSE IF ~AppAccepts(users[u], c) /\ c \notin users[u].backups THEN Goto(r, "count")
                ELSE Keep(r, "write", [backups |-> IF AppAccepts(users[u], c) THEN users[u].backups
                                                   ELSE users[u].backups \ {c}])
           ELSE Refuse(r)
  /\ UNCHANGED accounts

RefuseTotp(r) ==
  /\ At(r, {"verifyTotp"}, "lock") \/ At(r, {"verifyTotp"}, "count")
  /\ Refuse(r)
  /\ LET u == call[r].id
     IN  users' = IF u \notin DOMAIN users THEN users
                  ELSE IF pc[r] = "lock" THEN [users EXCEPT ![u].session = None]
                  ELSE [users EXCEPT ![u].attempts = @ + 1]
  /\ UNCHANGED <<userRoles, otps, pending, spaces>>

(* Mutant of Closed: the session outlives the code it asked for.           *)
ClosedNever(row) == [row EXCEPT !.attempts = 0]

Closed(row) == [row EXCEPT !.session = None, !.attempts = 0]

(* The list of backup codes is written back without the one used, and as   *)
(* it was read; an application code leaves it alone.                       *)
AcceptTotp(r) ==
  /\ At(r, {"verifyTotp"}, "write")
  /\ LET u == call[r].id
         row == Closed(users[u])
     IN  IF u \in DOMAIN users
           THEN /\ Answer(r, "done")
                /\ users' = [users EXCEPT ![u] =
                     IF call[r].totp[2] = 0 THEN row ELSE [row EXCEPT !.backups = seen[r].backups]]
           ELSE Refuse(r) /\ UNCHANGED users
  /\ UNCHANGED <<userRoles, otps, pending, spaces>>

-----------------------------------------------------------------------------
(* The settings of one's own account.                                      *)
Settings == {"changePassword", "setupTotp", "enableTotp", "disableTotp"}

Allowed(r, row) ==
  CASE call[r].op = "changePassword" -> row.password = call[r].password
    [] call[r].op = "setupTotp"      -> TRUE
    [] call[r].op = "enableTotp"     -> AppAccepts(row, call[r].totp)
    [] call[r].op = "disableTotp"    -> /\ row.totp
                                        /\ \/ row.password = call[r].password
                                           \/ AppAccepts(row, call[r].totp)

FindSelf(r) ==
  /\ At(r, Settings, "start")
  /\ LET u == call[r].id
     IN  IF u \in DOMAIN users THEN IF Allowed(r, users[u]) THEN Goto(r, "write") ELSE Refuse(r)
         ELSE Refuse(r)
  /\ UNCHANGED accounts

SaveSelf(r) ==
  /\ At(r, Settings, "write")
  /\ LET u == call[r].id
         row == users[u]
     IN  IF u \in DOMAIN users
           THEN /\ Answer(r, "done")
                /\ users' = [users EXCEPT ![u] =
                     CASE call[r].op = "changePassword" -> [row EXCEPT !.password = r, !.mustChange = FALSE]
                       [] call[r].op = "setupTotp"   -> [row EXCEPT !.secret = r]
                       [] call[r].op = "enableTotp"  -> [row EXCEPT !.totp = TRUE, !.backups = BackupsOf(r)]
                       [] call[r].op = "disableTotp" -> [row EXCEPT !.totp = FALSE, !.secret = None,
                                                                    !.backups = {}]]
           ELSE Refuse(r) /\ UNCHANGED users
  /\ UNCHANGED <<userRoles, otps, pending, spaces>>

AccountStep(r) ==
  \/ InitEmail(r) \/ InitPhone(r) \/ StoreRegistration(r) \/ SendCode(r)
  \/ ConfirmCode(r) \/ TakeRegistration(r) \/ CountSpaces(r) \/ CreateSpace(r)
  \/ Login(r) \/ OpenSession(r) \/ CheckTotp(r) \/ RefuseTotp(r) \/ AcceptTotp(r)
  \/ FindSelf(r) \/ SaveSelf(r)

(* A registration waits five minutes.                                      *)
RegistrationExpires(e) ==
  ~pending[e].expired /\ pending' = [pending EXCEPT ![e].expired = TRUE]

-----------------------------------------------------------------------------
AccountsTypeOK ==
  /\ UsersTypeOK /\ OtpTypeOK
  /\ pending \in [DOMAIN pending -> [phone : Phones, expired : BOOLEAN]]
  /\ DOMAIN pending \subseteq Emails
  /\ spaces \in [DOMAIN spaces -> Nat] /\ DOMAIN spaces \subseteq SpaceIds
  /\ \A s, t \in DOMAIN spaces : spaces[s] = spaces[t] => s = t

(* The requests whose code was accepted.                                   *)
Accepted(r) ==
  \/ call[r].op = "verifySms" /\ pc[r] \in {"audit", "done"}
  \/ call[r].op = "registerConfirm" /\ pc[r] \in {"pending", "count", "commit", "done"}

(* 'Usage unique (OTP jetable)' (email-otp.service.ts:108,                 *)
(* sms-otp.service.ts:188): whatever verifications, resends, failures and  *)
(* restarts come in between, a code is accepted once, and no longer on     *)
(* file from then on.                                                      *)
OtpOnce ==
  \A r \in Requests : Accepted(r) =>
    /\ \A s \in Requests : Accepted(s) /\ call[s].code = call[r].code => s = r
    /\ \A a \in DOMAIN otps : otps[a].code # call[r].code

Registered == {u \in DOMAIN users \cap Requests : call[u].op = "registerConfirm"}

(* 'Un utilisateur avec cet email existe deja.' (auth.service.ts:31): of   *)
(* requests that do not overlap, no registration gives a second account    *)
(* the e-mail of the first, unless the console's team takes it while the   *)
(* code is under way: the confirmation does not look again.                *)
RegisteredOnce ==
  Apart => \A u \in Registered :
    (\A r \in Requests : call[r].op \in {"createMember", "updateMember"} =>
       call[r].email # users[u].email)
    => \A v \in DOMAIN users : users[v].email = users[u].email => v = u

TotpPassed == {r \in Requests : call[r].op = "verifyTotp" /\ pc[r] = "done"}

(* The session of a login is closed and the backup code removed when one   *)
(* is accepted (auth.service.ts:499-513): of requests that do not overlap, *)
(* a temporary token opens the door once and so does a backup code.        *)
TotpOnce ==
  Apart => \A r, s \in TotpPassed : r # s =>
    /\ call[r].token # call[s].token
    /\ call[r].totp = call[s].totp => call[r].totp[2] = 0
=============================================================================
