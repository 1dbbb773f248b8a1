---------------------------- MODULE ServiceViews ----------------------------
(***************************************************************************)
(* The screens of the repair shop and of the tailor, and the quotes and    *)
(* invoices the sectors share.  Every list and handler that reaches the    *)
(* server builds its header in the turn in which it asks for the token.    *)
(***************************************************************************)
EXTENDS Views

EarlyList == [Lists EXCEPT !.bearer = "none", !.hides = "rows"]
EmptiedList == [EarlyList EXCEPT !.no = "empty", !.lost = "empty"]

(* Mutant of RaisesFlag: the flag only falls on success.                   *)
RaisesFlagForGood == [ReloadsRaced EXCEPT !.busy = TRUE, !.frees = {"ok"}]

RaisesFlag == [ReloadsRaced EXCEPT !.busy = TRUE]

-----------------------------------------------------------------------------
(* Repair tickets.  The edit changes the list of the browser only; the     *)
(* deletion asks a route the server does not have and removes the row      *)
(* whatever comes back.                                                    *)

(* RECEIVED stands for every status of the repair before DELIVERED, which  *)
(* the buttons do not tell apart.                                          *)
TicketStates == {"RECEIVED", "DELIVERED", "CANCELLED", "CONVERTED_TO_STOCK"}
TicketList == EmptiedList
CreateTicket == RaisesFlag
EditTicket == LocalOnly
DeleteTicket == [ReloadsRaced EXCEPT !.served = FALSE, !.ok = {"put"}, !.no = {"put"}, !.lost = {"put"}]
ConvertTicket == RaisesFlag
UpdateTicketStatus == RaisesFlag

TicketForm == Form("ticket", "flag")
StatusForm == Form("status", "flag")
ConvertForm == Form("convert", "flag")
StatusChoices == TicketStates \ {"CONVERTED_TO_STOCK"}
TicketButtons ==
  [status |-> Moves(TicketStates, StatusChoices \cup {"same"}), edit |-> Edits(TicketStates),
   cancel |-> Moves(TicketStates \ {"CANCELLED"}, StatusChoices),
   convert |-> Moves(TicketStates \ {"CANCELLED", "DELIVERED", "CONVERTED_TO_STOCK"}, {"CONVERTED_TO_STOCK"}),
   remove |-> Removes(TicketStates)]

TicketsScreen ==
  [demo |-> NoRows, statuses |-> TicketStates, list |-> TicketList,
   buttons |->
     [create |-> Button(Creates({"RECEIVED"}), TicketForm, CreateTicket),
      edit |-> Button(TicketButtons.edit, TicketForm, EditTicket),
      status |-> Button(TicketButtons.status, StatusForm, UpdateTicketStatus),
      cancel |-> Button(TicketButtons.cancel, StatusForm, UpdateTicketStatus),
      convert |-> Button(TicketButtons.convert, ConvertForm, ConvertTicket),
      remove |-> Button(TicketButtons.remove, NoForm, DeleteTicket)]]

-----------------------------------------------------------------------------
(* Spare parts: the form closes and the list is asked again whatever the   *)
(* server said, unless the request itself failed.                          *)

PartList == [EarlyList EXCEPT !.hides = "nothing"]
SavePart == [ReloadsRaced EXCEPT !.no = {"close", "list"}]
DeletePart == ReloadsRaced
PartForm == Form("part", "no")
PartButtons == [edit |-> Edits({"PART"}), remove |-> Removes({"PART"})]

PartsScreen ==
  [demo |-> NoRows, statuses |-> {"PART"}, list |-> PartList,
   buttons |->
     [create |-> Button(Creates({"PART"}), PartForm, SavePart),
      edit |-> Button(PartButtons.edit, PartForm, SavePart),
      remove |-> Button(PartButtons.remove, NoForm, DeletePart)]]

(* Service packages: the form closes once the list has been fetched.       *)
PackageList == [EmptiedList EXCEPT !.hides = "nothing"]
SavePackage == [ReloadsRaced EXCEPT !.ok = {"close", "list", "wait"}]
DeletePackage == [ReloadsRaced EXCEPT !.ok = {"put"}]
PackageForm == Form("package", "no")
PackageButtons == [edit |-> Edits({"PACKAGE"}), remove |-> Removes({"PACKAGE"})]

PackagesScreen ==
  [demo |-> NoRows, statuses |-> {"PACKAGE"}, list |-> PackageList,
   buttons |->
     [create |-> Button(Creates({"PACKAGE"}), PackageForm, SavePackage),
      edit |-> Button(PackageButtons.edit, PackageForm, SavePackage),
      remove |-> Button(PackageButtons.remove, NoForm, DeletePackage)]]

(* Service levels and hardware sales live in the browser alone.            *)
SavePolicy == LocalOnly
DeletePolicy == LocalOnly
PolicyForm == Form("policy", "no")
PolicyButtons == [edit |-> Edits({"ACTIVE"}), remove |-> Removes({"ACTIVE"})]
PoliciesScreen ==
  [demo |-> NoRows, statuses |-> {"ACTIVE"}, list |-> Unasked,
   buttons |->
     [create |-> Button(Creates({"ACTIVE"}), PolicyForm, SavePolicy),
      edit |-> Button(PolicyButtons.edit, PolicyForm, SavePolicy),
      remove |-> Button(PolicyButtons.remove, NoForm, DeletePolicy)]]

HardwareSave == LocalOnly
HardwareCancel == LocalOnly
HardwareButtons == [edit |-> Edits({"AVAILABLE", "CANCELLED"}), cancel |-> Moves({"AVAILABLE"}, {"CANCELLED"})]
HardwareForm == Form("hardware", "no")
HardwareScreen ==
  [demo |-> NoRows, statuses |-> {"AVAILABLE", "CANCELLED"}, list |-> Unasked,
   buttons |->
     [create |-> Button(Creates({"AVAILABLE"}), HardwareForm, HardwareSave),
      edit |-> Button(HardwareButtons.edit, HardwareForm, HardwareSave),
      cancel |-> Button(HardwareButtons.cancel, Form("cancel", "no"), HardwareCancel)]]

-----------------------------------------------------------------------------
(* Tailor: orders.                                                         *)

(* CUTTING stands for every status of the atelier before READY.            *)
OrderStates == {"CUTTING", "READY", "DELIVERED", "CANCELLED"}
OrderList == EmptiedList
CreateTailorOrder == RaisesFlag
SaveOrderEdit == RaisesFlag
ConfirmCancel == RaisesFlag
UpdateOrderStatus == RaisesFlag
DeleteTailorOrder == ReloadsRaced
RegisterPayment == ReloadsRaced

NewOrderForm == Form("order", "flag")
OrderStatusForm == Form("status", "flag")
EditOrderForm == Form("edit", "flag")
CancelForm == Form("cancel", "flag")
AtelierStates == OrderStates \ {"CANCELLED"}
TailorOrderButtons ==
  [status |-> Moves(OrderStates, AtelierStates \cup {"same"}), pay |-> Edits(OrderStates), edit |-> Edits(OrderStates),
   cancel |-> Moves(OrderStates \ {"CANCELLED"}, {"CANCELLED"}), remove |-> Removes(OrderStates)]

TailorOrdersScreen ==
  [demo |-> NoRows, statuses |-> OrderStates, list |-> OrderList,
   buttons |->
     [create |-> Button(Creates({"CUTTING"}), NewOrderForm, CreateTailorOrder),
      status |-> Button(TailorOrderButtons.status, OrderStatusForm, UpdateOrderStatus),
      pay |-> Button(TailorOrderButtons.pay, NoForm, RegisterPayment),
      edit |-> Button(TailorOrderButtons.edit, EditOrderForm, SaveOrderEdit),
      cancel |-> Button(TailorOrderButtons.cancel, CancelForm, ConfirmCancel),
      remove |-> Button(TailorOrderButtons.remove, NoForm, DeleteTailorOrder)]]

(* Fittings are the orders that have a date; the board of tasks moves an   *)
(* order that is dropped on another column.                                *)
FittingList == EarlyList
SaveReschedule == RaisesFlag
SaveFittingEdit == RaisesFlag
DeleteFitting == ReloadsRaced
RescheduleForm == Form("reschedule", "flag")
FittingForm == Form("fitting", "flag")
FittingButtons == [reschedule |-> Edits(OrderStates), edit |-> Edits(OrderStates), remove |-> Removes(OrderStates)]

FittingsScreen ==
  [demo |-> NoRows, statuses |-> OrderStates, list |-> FittingList,
   buttons |->
     [reschedule |-> Button(FittingButtons.reschedule, RescheduleForm, SaveReschedule),
      edit |-> Button(FittingButtons.edit, FittingForm, SaveFittingEdit),
      remove |-> Button(FittingButtons.remove, NoForm, DeleteFitting)]]

BoardList == EarlyList
Columns == {"CUTTING", "READY"}
DropOnColumn == ReloadsRaced
BoardScreen ==
  [demo |-> NoRows, statuses |-> OrderStates, list |-> BoardList,
   buttons |-> [drop |-> Button(Moves(Columns, Columns), NoForm, DropOnColumn)]]

-----------------------------------------------------------------------------
(* Measurement sheets.  A member's sheet, saved from its parent's, turns   *)
(* the form back to the parent instead of fetching the list.               *)

SheetList == EarlyList
SaveSheet == ReloadsRaced
SaveMember == [ReloadsRaced EXCEPT !.ok = {}]
DeleteSheet == ReloadsRaced
SheetForm == Form("sheet", "no")
SheetButtons == [member |-> Creates({"SHEET"}), edit |-> Edits({"SHEET"}), remove |-> Removes({"SHEET"})]

SheetsScreen ==
  [demo |-> NoRows, statuses |-> {"SHEET"}, list |-> SheetList,
   buttons |->
     [create |-> Button(Creates({"SHEET"}), SheetForm, SaveSheet),
      edit |-> Button(SheetButtons.edit, SheetForm, SaveSheet),
      member |-> Button(SheetButtons.member, SheetForm, SaveMember),
      remove |-> Button(SheetButtons.remove, NoForm, DeleteSheet)]]

(* The catalogue of models lives in the browser alone.                     *)
SaveModel == LocalOnly
DeleteModel == LocalOnly
ModelForm == Form("model", "no")
ModelButtons == [edit |-> Edits({"MODEL"}), remove |-> Removes({"MODEL"})]
CatalogScreen ==
  [demo |-> NoRows, statuses |-> {"MODEL"}, list |-> Unasked,
   buttons |->
     [create |-> Button(Creates({"MODEL"}), ModelForm, SaveModel),
      edit |-> Button(ModelButtons.edit, ModelForm, SaveModel),
      remove |-> Button(ModelButtons.remove, NoForm, DeleteModel)]]

-----------------------------------------------------------------------------
(* Quotes and invoices.  Cancelling changes the list of the browser only.  *)

QuoteStates == {"DRAFT", "SENT", "ACCEPTED", "REJECTED"}
InvoiceStates == {"DRAFT", "SENT", "PARTIALLY_PAID", "PAID", "CANCELLED"}
DocumentList == EarlyList
CreateDocument == RaisesFlag
DeleteDocument == ReloadsRaced
CancelDocument == LocalOnly
ConvertQuote == ReloadsRaced
PayInvoice == ReloadsRaced
DocumentForm == Form("document", "flag")
QuoteButtons ==
  [convert |-> Moves(QuoteStates \ {"ACCEPTED", "REJECTED"}, {"ACCEPTED"}),
   cancel |-> Moves(QuoteStates \ {"ACCEPTED", "REJECTED"}, {"REJECTED"}), remove |-> Removes(QuoteStates)]
InvoiceButtons ==
  [pay |-> Moves(InvoiceStates \ {"CANCELLED", "PAID"}, {"PAID"}),
   cancel |-> Moves(InvoiceStates \ {"CANCELLED", "PAID"}, {"CANCELLED"}), remove |-> Removes(InvoiceStates)]

QuotesScreen ==
  [demo |-> NoRows, statuses |-> QuoteStates, list |-> DocumentList,
   buttons |->
     [create |-> Button(Creates({"DRAFT"}), DocumentForm, CreateDocument),
      convert |-> Button(QuoteButtons.convert, NoForm, ConvertQuote),
      cancel |-> Button(QuoteButtons.cancel, NoForm, CancelDocument),
      remove |-> Button(QuoteButtons.remove, NoForm, DeleteDocument)]]

InvoicesScreen ==
  [demo |-> NoRows, statuses |-> InvoiceStates, list |-> DocumentList,
   buttons |->
     [create |-> Button(Creates({"DRAFT"}), DocumentForm, CreateDocument),
      pay |-> Button(InvoiceButtons.pay, NoForm, PayInvoice),
      cancel |-> Button(InvoiceButtons.cancel, NoForm, CancelDocument),
      remove |-> Button(InvoiceButtons.remove, NoForm, DeleteDocument)]]

(* The overviews only fetch; the history of clients shows an empty list.   *)
OverviewList == [EarlyList EXCEPT !.hides = "all"]
RepairOverview == ReadOnly("TICKET", OverviewList)
TailorOverview == ReadOnly("CUTTING", OverviewList)
ClientsHistory == ReadOnly("CLIENT", Unasked)

ServiceScreens ==
  [tickets |-> TicketsScreen, parts |-> PartsScreen, packages |-> PackagesScreen,
   policies |-> PoliciesScreen, hardware |-> HardwareScreen, repairs |-> RepairOverview,
   clients |-> ClientsHistory, orders |-> TailorOrdersScreen, fittings |-> FittingsScreen,
   board |-> BoardScreen, sheets |-> SheetsScreen, catalog |-> CatalogScreen,
   atelier |-> TailorOverview, quotes |-> QuotesScreen, invoices |-> InvoicesScreen]
=============================================================================
