----------------------------- MODULE ShopViews -----------------------------
(***************************************************************************)
(* The screens of the hardware shop: purchase orders, depots, articles,    *)
(* and the read-only lists beside them.                                    *)
(***************************************************************************)
EXTENDS Views

-----------------------------------------------------------------------------
(* Purchase orders.  Two sample orders fill the list before the first      *)
(* answer, and stay when the answer is empty or none comes.                *)

PurchaseStates == {"PENDING", "RECEIVED", "CANCELLED"}
SampleOrders ==
  ("l1" :> [status |-> "RECEIVED", by |-> "sample"]) @@
  ("l2" :> [status |-> "PENDING", by |-> "sample"])

PurchaseList == [Lists EXCEPT !.bearer = "none", !.empty = "keep", !.hides = "rows"]

PutsAnyway == [ReloadsRaced EXCEPT !.ok = {"close", "put"}, !.no = {"close", "put"},
                                   !.lost = {"close", "put"}]
CreateOrder == PutsAnyway
EditOrder == PutsAnyway
ReceiveOrder == PutsAnyway
DeleteOrder == PutsAnyway

OrderForm == Form("create", "no")
OrderEditForm == Form("edit", "no")
OrderButtons ==
  [receive |-> Moves({"PENDING"}, {"RECEIVED"}), edit |-> Moves(PurchaseStates, PurchaseStates),
   remove |-> Removes(PurchaseStates)]

PurchasesScreen ==
  [demo |-> SampleOrders, statuses |-> PurchaseStates, list |-> PurchaseList,
   buttons |->
     [create |-> Button(Creates(PurchaseStates), OrderForm, CreateOrder),
      edit |-> Button(OrderButtons.edit, OrderEditForm, EditOrder),
      receive |-> Button(OrderButtons.receive, NoForm, ReceiveOrder),
      remove |-> Button(OrderButtons.remove, NoForm, DeleteOrder)]]

-----------------------------------------------------------------------------
(* Depots.  The whole screen gives way to a spinner while the list is      *)
(* awaited; nothing guards the buttons of the forms.                       *)

DepotList == Lists
SaveDepot == Reloads
DeleteDepot == [Reloads EXCEPT !.no = {"close"}, !.lost = {"close"}]
DepotForm == Form("depot", "no")
DepotQuestion == Form("delete", "no")
DepotButtons == [edit |-> Edits({"DEPOT"}), remove |-> Removes({"DEPOT"})]

DepotsScreen ==
  [demo |-> NoRows, statuses |-> {"DEPOT"}, list |-> DepotList,
   buttons |->
     [create |-> Button(Creates({"DEPOT"}), DepotForm, SaveDepot),
      edit |-> Button(DepotButtons.edit, DepotForm, SaveDepot),
      remove |-> Button(DepotButtons.remove, DepotQuestion, DeleteDepot)]]

-----------------------------------------------------------------------------
(* Articles.  A refused or failed list empties the table.                  *)

ArticleList == [asked |-> TRUE, bearer |-> "none", no |-> "empty", lost |-> "empty", empty |-> "show", hides |-> "rows"]
SaveArticle == [ReloadsRaced EXCEPT !.busy = TRUE]
TransferArticle == [ReloadsRaced EXCEPT !.busy = TRUE]
DeleteArticle == ReloadsRaced
ArticleForm == Form("article", "flag")
TransferForm == Form("transfer", "flag")
ArticleButtons == [edit |-> Edits({"ARTICLE"}), remove |-> Removes({"ARTICLE"})]

ArticlesScreen ==
  [demo |-> NoRows, statuses |-> {"ARTICLE"}, list |-> ArticleList,
   buttons |->
     [create |-> Button(Creates({"ARTICLE"}), ArticleForm, SaveArticle),
      edit |-> Button(ArticleButtons.edit, ArticleForm, SaveArticle),
      transfer |-> Button(Edits({"ARTICLE"}), TransferForm, TransferArticle),
      remove |-> Button(ArticleButtons.remove, NoForm, DeleteArticle)]]

-----------------------------------------------------------------------------
(* The journal and the two reports only fetch, with the early header.      *)

MovementList == [Lists EXCEPT !.bearer = "none", !.hides = "rows"]
StatsList == [Lists EXCEPT !.bearer = "none"]
MarginList == [Lists EXCEPT !.bearer = "none", !.hides = "rows"]

ShopScreens ==
  [purchases |-> PurchasesScreen, depots |-> DepotsScreen, articles |-> ArticlesScreen,
   movements |-> ReadOnly("MOVEMENT", MovementList), shop |-> ReadOnly("STATS", StatsList),
   margins |-> ReadOnly("MARGIN", MarginList)]
=============================================================================
