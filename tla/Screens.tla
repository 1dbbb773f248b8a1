------------------------------ MODULE Screens ------------------------------
(***************************************************************************)
(* One screen of the web client in one tab: the rows it shows, the form    *)
(* that is open, the calls and lists in flight, and the table of the       *)
(* server behind them, which other users change too.  The requests of a    *)
(* tab travel on separate connections: the server may take them, and the   *)
(* tab may get the answers, in any order, and a request or its answer may  *)
(* be lost.                                                                *)
(***************************************************************************)
EXTENDS Views, Sequences, FiniteSets, Naturals

CONSTANTS
  Described,  \* the screens: name -> description
  Row,        \* the row the table has when the screen opens
  NewRows,    \* the rows created later, by this tab or by others
  LocalRows,  \* the rows a handler adds to the list without the server
  MaxCalls,   \* calls the user sends
  MaxTrouble, \* messages lost and changes made by other users
  Candid,     \* screens that show only what the server acknowledged
  Refetching, \* screens that fetch their list again after each success
  Guarded     \* screens whose buttons heed the flag of their handlers

Authors == {"me", "them", "sample"}

(* A screen has one flag; its buttons are offered on the statuses of its   *)
(* rows and leave them in one of these.                                    *)
FormsOf(s) == {"none"} \cup {s.buttons[b].form : b \in DOMAIN s.buttons}
ButtonKind(s) ==
  [from : SUBSET s.statuses, to : SUBSET (s.statuses \cup {"same", "gone"}),
   form : FormsOf(s), lock : {"no", "flag", "row"}, bearer : {"stored", "none", "public"},
   served : BOOLEAN, local : BOOLEAN, busy : BOOLEAN, frees : SUBSET Outcomes,
   ok : SUBSET Does, no : SUBSET Does, lost : SUBSET Does]
IsScreen(s) ==
  /\ s.statuses # {} /\ {"same", "gone"} \cap s.statuses = {}
  /\ DOMAIN s.demo \subseteq LocalRows
  /\ s.demo \in [DOMAIN s.demo -> [status : s.statuses, by : Authors]]
  /\ s.list.asked \in BOOLEAN /\ "none" \notin DOMAIN s.buttons
  /\ \A b \in DOMAIN s.buttons :
       /\ s.buttons[b] \in ButtonKind(s)
       /\ s.buttons[b].from = {} => s.buttons[b].to \subseteq s.statuses

ASSUME ScreensAssumption ==
  /\ \A n \in DOMAIN Described : IsScreen(Described[n])
  /\ {"none", "down"} \cap ({Row} \cup NewRows \cup LocalRows) = {}
  /\ MaxCalls \in Nat /\ MaxTrouble \in Nat

(* What makes a screen candid: it starts without sample rows, and what it  *)
(* puts in its rows by itself is a removal the server has confirmed.       *)
ASSUME CandidAssumption ==
  \A n \in Candid \cap DOMAIN Described :
    /\ DOMAIN Described[n].demo = {}
    /\ \A b \in DOMAIN Described[n].buttons :
         LET h == Described[n].buttons[b] IN
         /\ "put" \notin h.no \cup h.lost
         /\ "put" \in h.ok => ~h.local /\ h.to \subseteq {"gone"}

(* What makes it refetch: each success asks for the list, the list is      *)
(* shown even when it is empty, and nothing else changes the rows shown.   *)
ASSUME RefetchingAssumption ==
  \A n \in Refetching \cap DOMAIN Described :
    /\ Described[n].list.asked /\ Described[n].list.empty = "show"
    /\ \A b \in DOMAIN Described[n].buttons :
         LET h == Described[n].buttons[b] IN
         "list" \in h.ok /\ "put" \notin h.ok \cup h.no \cup h.lost

(* What makes it guarded: whatever raises the flag heeds it.               *)
ASSUME GuardedAssumption ==
  \A n \in Guarded \cap DOMAIN Described : \A b \in DOMAIN Described[n].buttons :
    Described[n].buttons[b].busy => Described[n].buttons[b].lock = "flag"

VARIABLES
  name,     \* the screen that is open
  stored,   \* the rows of the server: identity -> [status, by]
  shown,    \* the rows of the screen
  open,     \* the form that is open, with its row, or Shut
  busy,     \* the row the flag of the handlers is raised for, or Down
  loading,  \* the flag raised while a list is awaited
  calls,    \* the calls sent, in order
  lists,    \* the lists asked for, in order
  seen,     \* the list settled last, and whether the server gave it
  trouble,  \* how many messages were lost and changes made by others
  ever      \* for a candid screen, every row the server has stored

vars == <<name, stored, shown, open, busy, loading, calls, lists, seen, trouble, ever>>

Shut == [form |-> "none", button |-> "none", row |-> "none"]
screen == Described[name]
Buttons == DOMAIN screen.buttons
NoRow == "none"
Down == "down"
Rows == {Row} \cup NewRows \cup LocalRows

Entries(rows) == {<<r, rows[r]>> : r \in DOMAIN rows}
Unused(rows, ids) == {r \in ids : r \notin DOMAIN rows}
Fresh(rows, ids) == CHOOSE r \in Unused(rows, ids) : TRUE

(* Mutant of Changed: a row that is removed is marked, and stays.          *)
ChangedMarked(rows, row, to, by) ==
  [r \in DOMAIN rows \cup {row} |->
     IF r # row THEN rows[r]
     ELSE [status |-> IF to = "same" THEN rows[row].status ELSE to, by |-> by]]

(* The rows after a change: a row without its entry, or with a new one.    *)
Changed(rows, row, to, by) ==
  IF to = "gone" THEN [r \in DOMAIN rows \ {row} |-> rows[r]]
  ELSE LET status == IF to = "same" THEN rows[row].status ELSE to
       IN [r \in DOMAIN rows \cup {row} |->
             IF r = row THEN [status |-> status, by |-> by] ELSE rows[r]]

(* The server's rows change.                                               *)
Store(rows) ==
  /\ stored' = rows
  /\ ever' = IF name \in Candid THEN ever \cup Entries(rows) ELSE ever

Puts(b) == "put" \in screen.buttons[b].ok \cup screen.buttons[b].no \cup screen.buttons[b].lost

(* A call or a list is sent, has its outcome, and is over once the handler *)
(* that sent it has run to its end.  A handler that will put a row holds   *)
(* the rows that were shown when it started; a list may have a handler     *)
(* that waits for it, to close a form or to lower the flag.  Of its button *)
(* a call keeps what is still to be done.                                  *)
Rest(b) == [screen.buttons[b] EXCEPT !.from = {}, !.to = {}, !.lock = "no"]
Called(b, row, to) ==
  [button |-> Rest(b), row |-> row, to |-> to, phase |-> "sent",
   creates |-> screen.buttons[b].from = {}, based |-> IF Puts(b) THEN shown ELSE NoRows]
Asked(shuts, lowers) == [phase |-> "sent", rows |-> NoRows, shuts |-> shuts, lowers |-> lowers]
FirstList == Asked("none", FALSE)
Over == [phase |-> "over"]

Trouble == trouble < MaxTrouble /\ trouble' = trouble + 1
Quiet == \A s \in {calls, lists} : \A i \in DOMAIN s : s[i] = Over

TypeOK ==
  /\ name \in DOMAIN Described
  /\ DOMAIN stored \subseteq {Row} \cup NewRows
  /\ DOMAIN shown \subseteq Rows /\ \A r \in DOMAIN shown : shown[r].status \in screen.statuses
  /\ busy \in Rows \cup {NoRow, Down} /\ loading \in BOOLEAN
  /\ Len(calls) <= MaxCalls /\ seen.list \in 0 .. Len(lists) /\ trouble \in 0 .. MaxTrouble
  /\ open = Shut \/ open.button \in Buttons
  /\ name \in Candid => Entries(stored) \subseteq ever

Init ==
  /\ name \in DOMAIN Described
  /\ \E status \in screen.statuses : stored = [r \in {Row} |-> [status |-> status, by |-> "them"]]
  /\ shown = screen.demo
  /\ open = Shut /\ busy = Down /\ loading = screen.list.asked
  /\ calls = <<>> /\ seen = [list |-> 0, ok |-> FALSE]
  /\ lists = IF screen.list.asked THEN <<FirstList>> ELSE <<>>
  /\ trouble = 0 /\ ever = IF name \in Candid THEN Entries(stored) ELSE {}

-----------------------------------------------------------------------------
(* The user.                                                               *)

Visible(what) == ~loading \/ (what = "page" /\ screen.list.hides # "all")
                          \/ screen.list.hides = "nothing"

Offered(b, row) ==
  IF screen.buttons[b].from = {} THEN row = NoRow /\ Visible("page")
  ELSE /\ row \in DOMAIN shown /\ Visible("rows")
       /\ shown[row].status \in screen.buttons[b].from

(* A button that opens a form; the form copies the row as it is shown.     *)
OpenForm ==
  \E b \in Buttons : \E row \in DOMAIN shown \cup {NoRow} :
    /\ open = Shut /\ screen.buttons[b].form # "none" /\ Offered(b, row)
    /\ open' = [form |-> screen.buttons[b].form, button |-> b, row |-> row]
    /\ UNCHANGED <<name, stored, shown, busy, loading, calls, lists, seen, trouble, ever>>

(* The forms can be left at any time, also while their call is in flight.  *)
LeaveForm ==
  /\ open # Shut /\ Visible("page")
  /\ open' = Shut
  /\ UNCHANGED <<name, stored, shown, busy, loading, calls, lists, seen, trouble, ever>>

(* A change put in the rows shown: the row that is there, or one more.     *)
Put(rows, row, to) ==
  IF to = "gone" \/ row \in DOMAIN rows THEN Changed(rows, row, to, "me")
  ELSE IF row = NoRow /\ Unused(rows, LocalRows) # {} THEN Changed(rows, Fresh(rows, LocalRows), to, "me")
  ELSE rows

(* Mutant of Pressed: the flag is not heeded.                              *)
PressedFree(b, row) ==
  /\ IF screen.buttons[b].form = "none" THEN open = Shut /\ Offered(b, row)
     ELSE open.button = b /\ open.row = row /\ Visible("page")
  /\ Len(calls) < MaxCalls

(* The user presses the button of the form, or a button without a form.    *)
Pressed(b, row) ==
  /\ IF screen.buttons[b].form = "none" THEN open = Shut /\ Offered(b, row)
     ELSE open.button = b /\ open.row = row /\ Visible("page")
  /\ screen.buttons[b].lock = "flag" => busy = Down
  /\ screen.buttons[b].lock = "row" => busy # row
  /\ Len(calls) < MaxCalls

(* Mutant of Send: the change is shown before it is acknowledged.          *)
SendShown ==
  \E b \in Buttons : \E row \in DOMAIN shown \cup {NoRow, open.row}, to \in screen.buttons[b].to :
    /\ Pressed(b, row) /\ ~screen.buttons[b].local
    /\ calls' = Append(calls, Called(b, row, to))
    /\ busy' = IF screen.buttons[b].busy THEN row ELSE busy
    /\ shown' = Put(shown, row, to)
    /\ UNCHANGED <<name, stored, open, loading, lists, seen, trouble, ever>>

Send ==
  \E b \in Buttons : \E row \in DOMAIN shown \cup {NoRow, open.row}, to \in screen.buttons[b].to :
    /\ Pressed(b, row) /\ ~screen.buttons[b].local
    /\ calls' = Append(calls, Called(b, row, to))
    /\ busy' = IF screen.buttons[b].busy THEN row ELSE busy
    /\ UNCHANGED <<name, stored, shown, open, loading, lists, seen, trouble, ever>>

(* A handler that sends nothing.                                           *)
ChangeHere ==
  \E b \in Buttons : \E row \in DOMAIN shown \cup {NoRow, open.row}, to \in screen.buttons[b].to :
    /\ Pressed(b, row) /\ screen.buttons[b].local
    /\ shown' = IF "put" \in screen.buttons[b].ok THEN Put(shown, row, to) ELSE shown
    /\ open' = IF "close" \in screen.buttons[b].ok THEN Shut ELSE open
    /\ calls' = Append(calls, Over)
    /\ UNCHANGED <<name, stored, busy, loading, lists, seen, trouble, ever>>

-----------------------------------------------------------------------------
(* The server and the network.                                             *)

Admitted(b) == b.bearer # "none" /\ b.served

(* The server does what call i asks: the row is there, or it creates one.  *)
(* Its answer may be lost.                                                 *)
Perform(i) ==
  LET c == calls[i]
      row == IF c.row = NoRow THEN Fresh(stored, NewRows) ELSE c.row
  IN /\ c.phase = "sent" /\ Admitted(c.button)
     /\ c.row \in DOMAIN stored \/ (c.row = NoRow /\ Unused(stored, NewRows) # {})
     /\ Store(Changed(stored, row, c.to, "me"))
     /\ \/ calls' = [calls EXCEPT ![i].phase = "ok", ![i].row = row] /\ UNCHANGED trouble
        \/ calls' = [calls EXCEPT ![i].phase = "lost", ![i].row = row] /\ Trouble

Serve ==
  /\ \E i \in DOMAIN calls : Perform(i)
  /\ UNCHANGED <<name, shown, open, busy, loading, lists, seen>>

ServeList ==
  /\ screen.list.bearer # "none"
  /\ \E i \in DOMAIN lists :
       /\ lists[i].phase = "sent"
       /\ lists' = [lists EXCEPT ![i].phase = "ok", ![i].rows = stored]
  /\ UNCHANGED <<name, stored, shown, open, busy, loading, calls, seen, trouble, ever>>

(* Another user changes, removes or creates a row.                         *)
Other ==
  /\ Trouble
  /\ \E to \in screen.statuses \cup {"gone"} :
       \/ \E r \in DOMAIN stored : Store(Changed(stored, r, to, "them"))
       \/ /\ to # "gone" /\ Unused(stored, NewRows) # {}
          /\ Store(Changed(stored, Fresh(stored, NewRows), to, "them"))
  /\ UNCHANGED <<name, shown, open, busy, loading, calls, lists, seen>>

-----------------------------------------------------------------------------
(* The answers.                                                            *)

(* How request x ends for the tab: the way the server dealt with it, or,   *)
(* as long as it has not, refused or lost.                                 *)
Endings(x) ==
  CASE x = Over -> {} [] x.phase = "sent" -> {"no", "lost"} [] OTHER -> {x.phase}
Ending(x, phase) ==
  /\ phase \in Endings(x)
  /\ IF x.phase = "sent" /\ phase = "lost" THEN Trouble ELSE UNCHANGED trouble

(* Mutant of Relisted: only while the form of the handler is open.         *)
RelistedOpen(b, does) ==
  IF "list" \notin does \/ open.form # b.form THEN lists
  ELSE Append(lists, IF "wait" \in does THEN Asked(IF "close" \in does THEN b.form ELSE "none", b.busy)
                     ELSE FirstList)

(* The handler asks for the list, and may wait for it to close its form    *)
(* and to lower its flag.                                                  *)
Relisted(b, does) ==
  IF "list" \notin does THEN lists
  ELSE Append(lists, IF "wait" \in does THEN Asked(IF "close" \in does THEN b.form ELSE "none", b.busy)
                     ELSE FirstList)

(* The handler goes on with the outcome of call i.  A "put" changes the    *)
(* rows as they were when the button was pressed, and puts there the row   *)
(* the server answered with, or the change itself.                         *)
Settle(i, phase) ==
  LET c == calls[i]
      b == c.button
      does == CASE phase = "ok" -> b.ok [] phase = "no" -> b.no [] OTHER -> b.lost
      waits == "wait" \in does
      closes == "close" \in does /\ open.form = b.form
      new == phase = "ok" /\ c.creates
      put == IF new THEN Changed(c.based, c.row, c.to, "me") ELSE Put(c.based, c.row, c.to)
  IN /\ Ending(c, phase)
     /\ open' = IF closes /\ ~waits THEN Shut ELSE open
     /\ shown' = IF "put" \in does THEN put ELSE shown
     /\ lists' = Relisted(b, does)
     /\ loading' = (loading \/ "list" \in does)
     /\ busy' = IF b.busy /\ phase \in b.frees /\ ~waits THEN Down ELSE busy
     /\ calls' = [calls EXCEPT ![i] = Over]
     /\ UNCHANGED <<name, stored, seen, ever>>

(* The list is shown, or what a refusal or a failure makes of it.          *)
SettleList(i, phase) ==
  LET l == lists[i]
      kept == CASE phase = "ok" -> screen.list.empty = "keep" /\ l.rows = NoRows
                [] phase = "no" -> screen.list.no = "keep"
                [] OTHER -> screen.list.lost = "keep"
  IN /\ Ending(l, phase)
     /\ shown' = IF kept THEN shown ELSE l.rows
     /\ loading' = FALSE
     /\ seen' = [list |-> i, ok |-> phase = "ok"]
     /\ open' = IF l.shuts # "none" /\ open.form = l.shuts THEN Shut ELSE open
     /\ busy' = IF l.lowers THEN Down ELSE busy
     /\ lists' = [lists EXCEPT ![i] = Over]
     /\ UNCHANGED <<name, stored, calls, ever>>

Answers ==
  \/ Serve \/ ServeList
  \/ \E i \in DOMAIN calls, phase \in Outcomes : Settle(i, phase)
  \/ \E i \in DOMAIN lists, phase \in Outcomes : SettleList(i, phase)
Next == OpenForm \/ LeaveForm \/ Send \/ ChangeHere \/ Other \/ Answers

-----------------------------------------------------------------------------
(* What the screens are checked for.                                       *)

(* A candid screen shows only rows the server really had, whatever calls   *)
(* and lists overlap, are refused or are lost.                             *)
ShowsOnlyStored == name \in Candid => Entries(shown) \subseteq ever

(* With this tab alone at work, nothing lost and nothing in flight, a      *)
(* screen that fetches its list after each success shows the table, if the *)
(* list it asked for last is also the one it was answered last.            *)
ShowsTheTable ==
  (name \in Refetching /\ Quiet /\ trouble = 0 /\ seen.ok /\ seen.list = Len(lists)) => shown = stored

(* A guard lets one call through: of the handlers that raise the flag of a *)
(* screen whose buttons all heed it, no two are in flight together,        *)
(* whichever form was left or opened meanwhile.                            *)
Raised(c) == c.phase # "over" /\ c.button.busy
OneAtATime ==
  name \in Guarded => Cardinality({i \in DOMAIN calls : Raised(calls[i])}) <= 1
=============================================================================
