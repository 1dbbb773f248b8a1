---------------------------- MODULE ConsoleViews ----------------------------
(***************************************************************************)
(* The screens of the platform's console, and of a company's own           *)
(* administration: collaborators, roles, contacts, employees, SaaS quotes, *)
(* providers, companies, prices, payment proofs and the subscription.      *)
(* Those that go through ApiClient wait for the token; the others do not.  *)
(***************************************************************************)
EXTENDS Views

AwaitlessList == [Lists EXCEPT !.bearer = "none", !.hides = "rows"]
FlagRaced == [ReloadsRaced EXCEPT !.busy = TRUE]

-----------------------------------------------------------------------------
(* The platform's team: the form that creates a collaborator is part of    *)
(* the page, every other button stands on a row.                           *)

Collaborators == {"ACTIVE", "INACTIVE"}
TeamList == Lists
CreateCollaborator == Reloads
ToggleCollaborator == Reloads
ChangeRole == Reloads
Disable2FA == Reloads
ResetPassword == Reloads
DeleteCollaborator == Reloads
SaveCollaborator == Reloads
CollaboratorForm == Form("collaborator", "no")
CollaboratorButtons ==
  [suspend |-> Moves({"ACTIVE"}, {"INACTIVE"}), activate |-> Moves({"INACTIVE"}, {"ACTIVE"}),
   change |-> Edits(Collaborators), remove |-> Removes(Collaborators)]

TeamScreen ==
  [demo |-> NoRows, statuses |-> Collaborators, list |-> TeamList,
   buttons |->
     [create |-> Button(Creates({"ACTIVE"}), NoForm, CreateCollaborator),
      suspend |-> Button(CollaboratorButtons.suspend, NoForm, ToggleCollaborator),
      activate |-> Button(CollaboratorButtons.activate, NoForm, ToggleCollaborator),
      role |-> Button(CollaboratorButtons.change, NoForm, ChangeRole),
      disable2FA |-> Button(CollaboratorButtons.change, NoForm, Disable2FA),
      reset |-> Button(CollaboratorButtons.change, NoForm, ResetPassword),
      edit |-> Button(CollaboratorButtons.change, CollaboratorForm, SaveCollaborator),
      remove |-> Button(CollaboratorButtons.remove, NoForm, DeleteCollaborator)]]

-----------------------------------------------------------------------------
(* The commercial quotes of the platform.                                  *)

SaaSQuoteStates == {"SENT", "CONVERTED"}
SaaSQuoteList == Lists
SaveSaaSQuote == Reloads
DeleteSaaSQuote == Reloads
ConvertSaaSQuote == Reloads
SaaSQuoteForm == Form("quote", "no")
SaaSQuoteButtons ==
  [convert |-> Moves({"SENT"}, {"CONVERTED"}), edit |-> Edits({"SENT"}), remove |-> Removes({"SENT"})]

SaaSQuotesScreen ==
  [demo |-> NoRows, statuses |-> SaaSQuoteStates, list |-> SaaSQuoteList,
   buttons |->
     [create |-> Button(Creates({"SENT"}), SaaSQuoteForm, SaveSaaSQuote),
      edit |-> Button(SaaSQuoteButtons.edit, SaaSQuoteForm, SaveSaaSQuote),
      convert |-> Button(SaaSQuoteButtons.convert, NoForm, ConvertSaaSQuote),
      remove |-> Button(SaaSQuoteButtons.remove, NoForm, DeleteSaaSQuote)]]

-----------------------------------------------------------------------------
(* The payment and SMS providers: a QR code is uploaded with the early     *)
(* header, everything else goes through ApiClient.                         *)

ProviderStates == {"ENABLED", "DISABLED"}
ProviderList == Lists
ToggleProvider == Reloads
UploadQrCode == ReloadsRaced
RevokeQrCode == Reloads
SaveConfig == Reloads
ConfigForm == Form("config", "no")
ProviderButtons ==
  [enable |-> Moves({"DISABLED"}, {"ENABLED"}), disable |-> Moves({"ENABLED"}, {"DISABLED"}),
   change |-> Edits(ProviderStates)]

ProvidersScreen ==
  [demo |-> NoRows, statuses |-> ProviderStates, list |-> ProviderList,
   buttons |->
     [enable |-> Button(ProviderButtons.enable, NoForm, ToggleProvider),
      disable |-> Button(ProviderButtons.disable, NoForm, ToggleProvider),
      upload |-> Button(ProviderButtons.change, NoForm, UploadQrCode),
      revoke |-> Button(ProviderButtons.change, NoForm, RevokeQrCode),
      config |-> Button(ProviderButtons.change, ConfigForm, SaveConfig)]]

-----------------------------------------------------------------------------
(* Roles of a company; the two it starts with cannot be deleted.           *)

RoleKinds == {"OWN", "SYSTEM"}
RoleList == Lists
SaveRole == Reloads
DeleteRole == Reloads
RoleForm == Form("role", "no")
RoleButtons == [edit |-> Edits(RoleKinds), remove |-> Removes({"OWN"})]

RolesScreen ==
  [demo |-> NoRows, statuses |-> RoleKinds, list |-> RoleList,
   buttons |->
     [create |-> Button(Creates({"OWN"}), RoleForm, SaveRole),
      edit |-> Button(RoleButtons.edit, RoleForm, SaveRole),
      remove |-> Button(RoleButtons.remove, NoForm, DeleteRole)]]

(* Contacts are only created.                                              *)
ContactList == [Lists EXCEPT !.hides = "rows"]
SaveContact == Reloads
ContactForm == Form("contact", "no")

ContactsScreen ==
  [demo |-> NoRows, statuses |-> {"CONTACT"}, list |-> ContactList,
   buttons |-> [create |-> Button(Creates({"CONTACT"}), ContactForm, SaveContact)]]

(* Employees live in the browser alone, beside one sample row.             *)
EmployeeStates == {"ACTIVE", "SUSPENDED"}
SampleEmployee == "l1" :> [status |-> "ACTIVE", by |-> "sample"]
SaveEmployee == LocalOnly
ToggleEmployee == LocalOnly
DeleteEmployee == LocalOnly
EmployeeForm == Form("employee", "no")
EmployeeButtons ==
  [suspend |-> Moves({"ACTIVE"}, {"SUSPENDED"}), activate |-> Moves({"SUSPENDED"}, {"ACTIVE"}),
   edit |-> Edits(EmployeeStates), remove |-> Removes(EmployeeStates)]

EmployeesScreen ==
  [demo |-> SampleEmployee, statuses |-> EmployeeStates, list |-> Unasked,
   buttons |->
     [create |-> Button(Creates({"ACTIVE"}), EmployeeForm, SaveEmployee),
      edit |-> Button(EmployeeButtons.edit, EmployeeForm, SaveEmployee),
      suspend |-> Button(EmployeeButtons.suspend, NoForm, ToggleEmployee),
      activate |-> Button(EmployeeButtons.activate, NoForm, ToggleEmployee),
      remove |-> Button(EmployeeButtons.remove, NoForm, DeleteEmployee)]]

-----------------------------------------------------------------------------
(* The companies.  The flag names the row being processed: it disables the *)
(* status button of that row alone, and the last handler to end lowers it. *)

CompanyStates == {"TRIAL_7D", "ACTIVE", "EXPIRED", "SUSPENDED", "ARCHIVED"}
CompanyList == AwaitlessList
ToggleCompany == FlagRaced
SaveCompany == FlagRaced
ArchiveCompany == FlagRaced
PurgeCompany == ReloadsRaced
StatusButton == Form("none", "row")
CompanyForm == Form("edit", "no")
ArchiveForm == Form("archive", "no")
CompanyButtons ==
  [suspend |-> Moves({"ACTIVE"}, {"SUSPENDED"}), activate |-> Moves({"TRIAL_7D", "EXPIRED", "SUSPENDED"}, {"ACTIVE"}),
   edit |-> Edits(CompanyStates), archive |-> Moves(CompanyStates \ {"ARCHIVED"}, {"ARCHIVED"}),
   purge |-> Removes(CompanyStates)]

CompaniesScreen ==
  [demo |-> NoRows, statuses |-> CompanyStates, list |-> CompanyList,
   buttons |->
     [suspend |-> Button(CompanyButtons.suspend, StatusButton, ToggleCompany),
      activate |-> Button(CompanyButtons.activate, StatusButton, ToggleCompany),
      edit |-> Button(CompanyButtons.edit, CompanyForm, SaveCompany),
      archive |-> Button(CompanyButtons.archive, ArchiveForm, ArchiveCompany),
      purge |-> Button(CompanyButtons.purge, NoForm, PurgeCompany)]]

(* Payment proofs: a pending one is approved or rejected, under such a flag. *)
ProofList == AwaitlessList
ApproveProof == FlagRaced
RejectProof == FlagRaced
ProofButtons == [approve |-> Moves({"PENDING"}, {"APPROVED"}), reject |-> Moves({"PENDING"}, {"REJECTED"})]

ProofsScreen ==
  [demo |-> NoRows, statuses |-> {"PENDING", "APPROVED", "REJECTED"}, list |-> ProofList,
   buttons |->
     [approve |-> Button(ProofButtons.approve, StatusButton, ApproveProof),
      reject |-> Button(ProofButtons.reject, StatusButton, RejectProof)]]

-----------------------------------------------------------------------------
(* The price list is public; the form that changes it is part of the page. *)
PriceList == [Lists EXCEPT !.bearer = "public"]
SavePrices == [FlagRaced EXCEPT !.ok = {"list"}]
PriceForm == Form("none", "flag")

PricesScreen ==
  [demo |-> NoRows, statuses |-> {"PRICES"}, list |-> PriceList,
   buttons |-> [save |-> Button(Edits({"PRICES"}), PriceForm, SavePrices)]]

(* The platform's accounts.  The form of a manual payment loads companies  *)
(* and providers together; no route serves the providers, so no company is *)
(* ever chosen and the handler stops at its first check.                   *)
AccountsList == Lists
ManualPayment == [LocalOnly EXCEPT !.ok = {}]
ManualForm == Form("manual", "no")

AccountsScreen ==
  [demo |-> NoRows, statuses |-> {"INVOICE"}, list |-> AccountsList,
   buttons |-> [pay |-> Button(Creates({"INVOICE"}), ManualForm, ManualPayment)]]

(* A company's subscription: the proofs it has sent, and one more.         *)
SentProofs == [AwaitlessList EXCEPT !.hides = "all"]
SendProof == FlagRaced
RenewalForm == Form("renewal", "flag")

SubscriptionScreen ==
  [demo |-> NoRows, statuses |-> {"PENDING", "APPROVED", "REJECTED"}, list |-> SentProofs,
   buttons |-> [renew |-> Button(Creates({"PENDING"}), RenewalForm, SendProof)]]

(* The payments of an invoice: the flag stays up until the list is there.  *)
InstallmentList == AwaitlessList
AddInstallment == [FlagRaced EXCEPT !.ok = {"list", "wait"}]
InstallmentForm == Form("none", "flag")

InstallmentsScreen ==
  [demo |-> NoRows, statuses |-> {"PAYMENT"}, list |-> InstallmentList,
   buttons |-> [add |-> Button(Creates({"PAYMENT"}), InstallmentForm, AddInstallment)]]

ConsoleScreens ==
  [team |-> TeamScreen, saasQuotes |-> SaaSQuotesScreen, providers |-> ProvidersScreen,
   roles |-> RolesScreen, contacts |-> ContactsScreen, employees |-> EmployeesScreen,
   companies |-> CompaniesScreen, proofs |-> ProofsScreen, prices |-> PricesScreen,
   accounts |-> AccountsScreen, subscription |-> SubscriptionScreen,
   installments |-> InstallmentsScreen]
=============================================================================
