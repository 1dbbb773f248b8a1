-------------------------------- MODULE Users ---------------------------------
(***************************************************************************)
(* The accounts of the platform and of its tenants, as the console's team  *)
(* and the handlers of authentication share them (User and UserRole of the *)
(* schema).  A role is its name.  The tables are not tenant-scoped:        *)
(* withoutTenantScope runs its calls in one transaction.                   *)
(***************************************************************************)
EXTENDS Server

CONSTANTS
  OldUsers,              (* accounts at the start                           *)
  OldRoles,              (* the role of each                                *)
  Emails, Phones,        (* the addresses people give                       *)
  BackupCodes,           (* backup codes made at a time (8 in the code)     *)
  OldTokens              (* temporary tokens issued before the start        *)

VARIABLES
  users,                 (* User rows                                       *)
  userRoles              (* UserRole rows, and the request that made them   *)

people == <<users, userRoles>>

UserIds == DOMAIN OldUsers \cup Requests

(* Whoever sets a password, a secret or a session names it; None: null.    *)
None == "none"
Maker == UserIds \cup {None}
Global == "SAAS-GLOBAL"                (* the tenant of the console's team  *)

(* A code of the application of secret s, and the backup codes of a set.   *)
AppCode(s) == <<s, 0>>
BackupsOf(s) == {<<s, n>> : n \in 1..BackupCodes}
Codes == Maker \X (0..BackupCodes)

(* The account, and where its two-factor authentication stands.            *)
UserRow == [email : Emails, phone : Phones, space : Requests \cup {Global}, active : BOOLEAN,
            mustChange : BOOLEAN, password : Maker, totp : BOOLEAN, secret : Maker,
            backups : SUBSET Codes, attempts : Nat, session : Maker \cup OldTokens]

NewUser(r, email, phone, space, mustChange) ==
  [email |-> email, phone |-> phone, space |-> space, active |-> TRUE, mustChange |-> mustChange,
   password |-> r, totp |-> FALSE, secret |-> None, backups |-> {}, attempts |-> 0, session |-> None]

RoleNames == {"SUPER_ADMIN", "SUPPORT", "ADMIN_TENANT"}    (* of all roles  *)
Grant == [user : UserIds, role : RoleNames, by : Requests \cup {None}]

(* Accounts on file are rows of the schema, each with a role.              *)
ASSUME UsersAssumption ==
  /\ BackupCodes \in Nat /\ DOMAIN OldUsers \cap Requests = {} /\ Global \notin Requests
  /\ OldUsers \in [DOMAIN OldUsers -> UserRow] /\ OldRoles \in [DOMAIN OldUsers -> RoleNames]

UsersInit ==
  /\ users = OldUsers
  /\ userRoles = {[user |-> u, role |-> OldRoles[u], by |-> None] : u \in DOMAIN OldUsers}

EmailTaken(e) == \E u \in DOMAIN users : users[u].email = e
PhoneTaken(p) == \E u \in DOMAIN users : users[u].phone = p

UsersTypeOK ==
  /\ users \in [DOMAIN users -> UserRow] /\ DOMAIN users \subseteq UserIds
  /\ userRoles \subseteq Grant /\ \A g \in userRoles : g.user \in DOMAIN users
=============================================================================
