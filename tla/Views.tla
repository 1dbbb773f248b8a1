------------------------------- MODULE Views -------------------------------
(***************************************************************************)
(* The vocabulary in which the screens of the web client are described.    *)
(* A screen is a list it fetches, the rows it shows and the handlers the   *)
(* user can reach from them; Screens.tla runs such descriptions.  The      *)
(* descriptions themselves are in ShopViews, ServiceViews and ConsoleViews,*)
(* one group of definitions per component file.                            *)
(*                                                                         *)
(* A handler is a record:                                                  *)
(*   bearer  "stored" when the Authorization header is built after the     *)
(*           token was read from the storage, "none" when the header is    *)
(*           built in the same turn as the read, whose promise has not     *)
(*           settled: the server is sent "Bearer undefined"; "public" when *)
(*           the route asks for no token                                   *)
(*   served  whether the server has the route                              *)
(*   local   TRUE when the handler sends nothing and changes only the list *)
(*   busy    TRUE when it raises the screen's flag while it runs           *)
(*   frees   the outcomes on which that flag falls                         *)
(*   ok, no, lost    what it does when the server did it, refused it, or   *)
(*           the request failed: "close" its form, "list" again, "put" the *)
(*           change in the rows shown, "wait" for that list before it     *)
(*           closes its form and lowers its flag                           *)
(* A button offers a handler on the rows of some statuses, or on none for  *)
(* a creation, and says in which statuses the row may end; a form stands   *)
(* between a button and its handler.                                       *)
(***************************************************************************)
EXTENDS TLC

Outcomes == {"ok", "no", "lost"}
Does == {"close", "list", "put", "wait"}
NoRows == [r \in {} |-> r]

(* The usual handler: on success close the form and fetch the list again.  *)
Reloads ==
  [bearer |-> "stored", served |-> TRUE, local |-> FALSE, busy |-> FALSE,
   frees |-> Outcomes, ok |-> {"close", "list"}, no |-> {}, lost |-> {}]

(* The same, with the header built before the token is there.              *)
ReloadsRaced == [Reloads EXCEPT !.bearer = "none"]

(* A handler of the browser alone: nothing is sent, the rows shown change. *)
LocalOnly == [Reloads EXCEPT !.local = TRUE, !.ok = {"close", "put"}]

(* The form behind a button, and when its submit button is disabled: while *)
(* the flag is up ("flag"), while it is up for this row ("row"), or never  *)
(* ("no").  Without a form the button calls the handler at once, or after  *)
(* a question.                                                             *)
Form(flag, lock) == [form |-> flag, lock |-> lock]
NoForm == Form("none", "no")

(* A button creates a row, or is offered on the rows of some statuses and  *)
(* leaves them in one of others, with other fields ("same") or "gone".     *)
Creates(to) == [from |-> {}, to |-> to]
Moves(from, to) == [from |-> from, to |-> to]
Edits(from) == Moves(from, {"same"})
Removes(from) == Moves(from, {"gone"})

Button(offer, form, handler) == offer @@ form @@ handler

(* The list: whether it is fetched at all, the header it is asked with,    *)
(* what a refusal and a failure make of the rows, whether an empty answer  *)
(* is shown, and what is hidden while the list is awaited.                 *)
Lists ==
  [asked |-> TRUE, bearer |-> "stored", no |-> "keep", lost |-> "keep", empty |-> "show",
   hides |-> "all"]
Unasked == [Lists EXCEPT !.asked = FALSE, !.hides = "nothing"]

(* A screen without handlers: it fetches a list and shows it.              *)
ReadOnly(status, list) ==
  [demo |-> NoRows, statuses |-> {status}, list |-> list, buttons |-> NoRows]
=============================================================================
