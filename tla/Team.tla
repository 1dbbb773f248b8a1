--------------------------------- MODULE Team ---------------------------------
(***************************************************************************)
(* The team behind the platform's console                                  *)
(* (modules/super-admin/super-admin-team.service).  The actor of a call is *)
(* who its token names: the guard of these routes reads the claims of the  *)
(* token, not the account.  The audit record that ends each handler is the *)
(* step "audit"; that of a creation is written before the account commits. *)
(***************************************************************************)
EXTENDS Users

TeamRoles == RoleNames \ {"ADMIN_TENANT"}   (* two of the four the DTO takes *)
TeamCalls ==
  [op : {"createMember"}, actor : UserIds, email : Emails, phone : Phones, role : TeamRoles]
    \cup [op : {"memberRole"}, actor : UserIds, id : UserIds, role : TeamRoles]
    \cup [op : {"enableMember", "disableMember", "removeMember", "resetPassword", "disable2fa"},
          actor : UserIds, id : UserIds]
    \cup [op : {"updateMember"}, actor : UserIds, id : UserIds, email : Emails]

(* One of the team is an active super admin, and its e-mails differ.       *)
ASSUME TeamAssumption ==
  /\ \E u \in DOMAIN OldUsers : OldUsers[u].active /\ OldRoles[u] = "SUPER_ADMIN"
  /\ \A u, v \in DOMAIN OldUsers :
       OldUsers[u].space = Global /\ OldUsers[v].space = Global /\ OldUsers[u].email = OldUsers[v].email => u = v

SuperAdmins == {u \in DOMAIN users : \E g \in userRoles : g.user = u /\ g.role = "SUPER_ADMIN"}
ActiveAdmins == {u \in SuperAdmins : users[u].active}

-----------------------------------------------------------------------------
FindEmail(r) ==
  /\ At(r, {"createMember"}, "start")
  /\ IF EmailTaken(call[r].email) THEN Refuse(r) ELSE Goto(r, "audit")
  /\ UNCHANGED people

(* The account and its role, in one transaction; e-mails are not unique    *)
(* for the database.                                                       *)
CreateMember(r) ==
  /\ At(r, {"createMember"}, "commit")
  /\ Answer(r, "done")
  /\ users' = Put(users, r, NewUser(r, call[r].email, call[r].phone, Global, TRUE))
  /\ userRoles' = userRoles \cup {[user |-> r, role |-> call[r].role, by |-> r]}

-----------------------------------------------------------------------------
(* What the handlers on one account refuse before they count anybody.      *)
TeamOnly == {"resetPassword", "disable2fa", "removeMember", "updateMember"}
OnFile(r) == /\ call[r].id \in DOMAIN users
             /\ call[r].op \in TeamOnly => users[call[r].id].space = Global
OwnAccount(r) == call[r].actor = call[r].id /\ call[r].op \in {"disableMember", "removeMember"}

(* Of these calls, those the last super admin is protected from.           *)
Guarded(r) ==
  /\ call[r].id \in SuperAdmins
  /\ \/ call[r].op \in {"disableMember", "removeMember"}
     \/ call[r].op = "memberRole" /\ call[r].role # "SUPER_ADMIN"

FindMember(r) ==
  /\ At(r, {"memberRole", "disableMember", "removeMember", "resetPassword", "disable2fa",
            "updateMember"}, "start")
  /\ IF OwnAccount(r) \/ (~OnFile(r) /\ call[r].op # "disableMember")
       THEN Refuse(r)
       ELSE Goto(r, CASE Guarded(r) -> "count"
                      [] ~Guarded(r) /\ call[r].op = "memberRole" -> "replace"
                      [] call[r].op = "updateMember" /\ call[r].email # users[call[r].id].email -> "email"
                      [] OTHER -> "write")
  /\ UNCHANGED people

(* Mutant of Enough: one super admin is enough to lose one.                *)
EnoughWithOne(r) == SuperAdmins # {}

(* A change of role counts the holders, active or not; a deactivation and  *)
(* a deletion count the active ones.                                       *)
Enough(r) ==
  Cardinality(IF call[r].op = "memberRole" THEN SuperAdmins ELSE ActiveAdmins) > 1

CountAdmins(r) ==
  /\ At(r, {"memberRole", "disableMember", "removeMember"}, "count")
  /\ IF Enough(r) THEN Goto(r, IF call[r].op = "memberRole" THEN "replace" ELSE "write")
                  ELSE Refuse(r)
  /\ UNCHANGED people

(* deleteMany finds the roles of its moment; those another request gives   *)
(* before the commit stay.                                                 *)
ClearRoles(r) ==
  /\ At(r, {"memberRole"}, "replace")
  /\ Keep(r, "write", [cleared |-> {g \in userRoles : g.user = call[r].id}])
  /\ UNCHANGED people

GiveRole(r) ==
  /\ At(r, {"memberRole"}, "write")
  /\ LET rest == userRoles \ seen[r].cleared
         new  == [user |-> call[r].id, role |-> call[r].role, by |-> r]
     IN  IF /\ call[r].id \in DOMAIN users
            /\ \A g \in rest : g.user # new.user \/ g.role # new.role
           THEN Goto(r, "audit") /\ userRoles' = rest \cup {new}
           ELSE Refuse(r) /\ UNCHANGED userRoles
  /\ UNCHANGED users

CheckNewEmail(r) ==
  /\ At(r, {"updateMember"}, "email")
  /\ IF EmailTaken(call[r].email) THEN Refuse(r) ELSE Goto(r, "rename")
  /\ UNCHANGED people

(* What each handler leaves of the account.                                *)
Rewritten(r, row) ==
  CASE call[r].op = "enableMember"  -> [row EXCEPT !.active = TRUE]
    [] call[r].op = "disableMember" -> [row EXCEPT !.active = FALSE]
    [] call[r].op = "resetPassword" -> [row EXCEPT !.mustChange = TRUE, !.password = r]
    [] call[r].op = "disable2fa"    -> [row EXCEPT !.totp = FALSE, !.secret = None, !.backups = {},
                                                   !.attempts = 0, !.session = None]
    [] call[r].op = "updateMember"  -> IF pc[r] = "rename" THEN [row EXCEPT !.email = call[r].email]
                                       ELSE row

UpdateMember(r) ==
  /\ \/ At(r, {"disableMember", "resetPassword", "disable2fa", "updateMember"}, "write")
     \/ At(r, {"updateMember"}, "rename")
     \/ At(r, {"enableMember"}, "start")
  /\ LET u == call[r].id IN
     IF u \in DOMAIN users
       THEN Goto(r, "audit") /\ users' = [users EXCEPT ![u] = Rewritten(r, users[u])]
       ELSE Refuse(r) /\ UNCHANGED users
  /\ UNCHANGED userRoles

(* The roles and the account, in one transaction.                          *)
RemoveMember(r) ==
  /\ At(r, {"removeMember"}, "write")
  /\ IF call[r].id \in DOMAIN users
       THEN /\ Goto(r, "audit")
            /\ users' = Without(users, call[r].id)
            /\ userRoles' = {g \in userRoles : g.user # call[r].id}
       ELSE Refuse(r) /\ UNCHANGED people

AuditTeam(r) ==
  /\ At(r, {"createMember", "memberRole", "enableMember", "disableMember", "removeMember",
            "resetPassword", "disable2fa", "updateMember"}, "audit")
  /\ IF call[r].op = "createMember" THEN Goto(r, "commit") ELSE Answer(r, "done")
  /\ UNCHANGED people

TeamStep(r) ==
  \/ FindEmail(r) \/ CreateMember(r) \/ FindMember(r) \/ CountAdmins(r) \/ ClearRoles(r)
  \/ GiveRole(r) \/ CheckNewEmail(r) \/ UpdateMember(r) \/ RemoveMember(r) \/ AuditTeam(r)

-----------------------------------------------------------------------------
Demoted == \E r \in Requests : call[r].op = "memberRole" /\ pc[r] \in {"audit", "done", "failed"}

(* 'Impossible de modifier le role du dernier SUPER_ADMIN actif'           *)
(* (super-admin-team.service.ts:131, 182, 348): requests that do not       *)
(* overlap leave a super admin, and an active one as long as no role       *)
(* changes hands (a change of role counts the inactive as well); accounts  *)
(* of the team keep one role each and distinct e-mails.  Two deactivations *)
(* that overlap leave nobody.                                              *)
AdminRemains ==
  Apart =>
    /\ SuperAdmins # {}
    /\ ~Demoted => ActiveAdmins # {}
    /\ \A u \in DOMAIN users : users[u].space = Global =>
         /\ Cardinality({g \in userRoles : g.user = u}) = 1
         /\ \A v \in DOMAIN users : v # u /\ users[v].space = Global =>
              users[v].email # users[u].email
=============================================================================
