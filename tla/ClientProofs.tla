---------------------------- MODULE ClientProofs ----------------------------
(***************************************************************************)
(* Proofs about module Client, for every set of screens that satisfies the *)
(* assumptions of Screens, every account and every number of calls, lost   *)
(* messages and requests.                                                  *)
(***************************************************************************)
EXTENDS Client, SequenceTheorems, FiniteSetTheorems, TLAPS

-----------------------------------------------------------------------------
(* Tables: the rows of a screen or of the server.                          *)

Entry(statuses) == [status : statuses, by : Authors]
Tables(ids, statuses) == UNION {[d -> Entry(statuses)] : d \in SUBSET ids}

LEMMA TableIs ==
  ASSUME NEW ids, NEW statuses
  PROVE  \A t : t \in Tables(ids, statuses) <=> \E d \in SUBSET ids : t \in [d -> Entry(statuses)]
BY DEF Tables

LEMMA TableFacts ==
  ASSUME NEW ids, NEW statuses, NEW t \in Tables(ids, statuses)
  PROVE  DOMAIN t \subseteq ids /\ \A r \in DOMAIN t : t[r] \in Entry(statuses)
<1>1. PICK d \in SUBSET ids : t \in [d -> Entry(statuses)]
  BY TableIs
<1>2. QED
  BY <1>1

LEMMA TableGrows ==
  ASSUME NEW ids, NEW more, ids \subseteq more, NEW statuses, NEW t \in Tables(ids, statuses)
  PROVE  t \in Tables(more, statuses)
<1>1. PICK d \in SUBSET ids : t \in [d -> Entry(statuses)]
  BY TableIs
<1>2. d \in SUBSET more
  OBVIOUS
<1>3. QED
  BY <1>1, <1>2, TableIs

LEMMA NoRowsTable ==
  ASSUME NEW ids, NEW statuses
  PROVE  NoRows \in Tables(ids, statuses) /\ Entries(NoRows) = {}
<1>1. NoRows \in [{} -> Entry(statuses)] /\ DOMAIN NoRows = {}
  BY DEF NoRows
<1>2. {} \in SUBSET ids
  OBVIOUS
<1>3. QED
  BY <1>1, <1>2, TableIs DEF Entries

(* A change keeps a table a table.                                         *)
LEMMA ChangedTable ==
  ASSUME NEW ids, NEW statuses, NEW t \in Tables(ids, statuses), NEW row \in ids,
         NEW to \in statuses \cup {"same", "gone"}, to = "same" => row \in DOMAIN t, NEW by \in Authors
  PROVE  Changed(t, row, to, by) \in Tables(ids, statuses)
<1>1. DOMAIN t \subseteq ids /\ \A r \in DOMAIN t : t[r] \in Entry(statuses)
  BY TableFacts
<1>2. CASE to = "gone"
  <2>1. Changed(t, row, to, by) \in [DOMAIN t \ {row} -> Entry(statuses)]
    BY <1>1, <1>2 DEF Changed
  <2>2. DOMAIN t \ {row} \in SUBSET ids
    BY <1>1
  <2>3. QED
    BY <2>1, <2>2, TableIs
<1>3. CASE to # "gone"
  <2> DEFINE status == IF to = "same" THEN t[row].status ELSE to
             e == [status |-> status, by |-> by]
  <2>1. status \in statuses
    BY <1>1, <1>3 DEF Entry
  <2>2. e \in Entry(statuses)
    BY <2>1 DEF Entry
  <2>3. Changed(t, row, to, by) = [r \in DOMAIN t \cup {row} |-> IF r = row THEN e ELSE t[r]]
    BY <1>3 DEF Changed
  <2> HIDE DEF e
  <2>4. Changed(t, row, to, by) \in [DOMAIN t \cup {row} -> Entry(statuses)]
    BY <1>1, <2>2, <2>3
  <2>5. DOMAIN t \cup {row} \in SUBSET ids
    BY <1>1
  <2>6. QED
    BY <2>4, <2>5, TableIs
<1>4. QED
  BY <1>2, <1>3

LEMMA RemovedEntries ==
  ASSUME NEW t, NEW row, NEW by
  PROVE  Entries(Changed(t, row, "gone", by)) \subseteq Entries(t)
BY DEF Entries, Changed

LEMMA FreshIs ==
  ASSUME NEW t, NEW ids, Unused(t, ids) # {}
  PROVE  Fresh(t, ids) \in ids
BY DEF Fresh, Unused

-----------------------------------------------------------------------------
(* Types.  TypeOK is not inductive: the calls in flight carry the rows and *)
(* the changes that will be shown, so they must be typed too.              *)

CallKind(s) ==
  {c \in [button : ButtonKind(s), row : Rows \cup {NoRow}, to : s.statuses \cup {"same", "gone"},
          phase : {"sent", "ok", "lost"}, creates : BOOLEAN, based : Tables(Rows, s.statuses)] :
     /\ c.creates => c.to \in s.statuses
     /\ c.row = NoRow => c.creates
     /\ c.phase = "ok" => c.row # NoRow}

ListKind(s) ==
  [phase : {"sent", "ok"}, rows : Tables(Rows, s.statuses), shuts : FormsOf(s), lowers : BOOLEAN]

OpenKind(s) ==
  {Shut} \cup
  {o \in [form : FormsOf(s), button : DOMAIN s.buttons, row : Rows \cup {NoRow}] :
     o.row = NoRow => s.buttons[o.button].from = {}}

ScreenTyped(s) ==
  /\ stored \in Tables({Row} \cup NewRows, s.statuses)
  /\ shown \in Tables(Rows, s.statuses)
  /\ open \in OpenKind(s)
  /\ busy \in Rows \cup {NoRow, Down} /\ loading \in BOOLEAN
  /\ calls \in Seq({Over} \cup CallKind(s)) /\ Len(calls) <= MaxCalls
  /\ lists \in Seq({Over} \cup ListKind(s))
  /\ seen \in [list : Nat, ok : BOOLEAN] /\ seen.list <= Len(lists)
  /\ trouble \in 0 .. MaxTrouble
  /\ name \in Candid => Entries(stored) \subseteq ever

ScreenInv == name \in DOMAIN Described /\ ScreenTyped(screen)

LEMMA RowFacts ==
  /\ NoRow \notin Rows /\ Down \notin Rows /\ NoRow # Down /\ Row \in Rows
  /\ {Row} \cup NewRows \subseteq Rows /\ LocalRows \subseteq Rows
BY ScreensAssumption DEF NoRow, Down, Rows

LEMMA ScreenFacts ==
  ASSUME NEW n \in DOMAIN Described
  PROVE  IsScreen(Described[n])
BY ScreensAssumption

LEMMA ButtonFacts ==
  ASSUME NEW s, IsScreen(s), NEW b \in DOMAIN s.buttons
  PROVE  /\ s.buttons[b] \in ButtonKind(s)
         /\ s.buttons[b].from = {} => s.buttons[b].to \subseteq s.statuses
         /\ s.buttons[b].to \subseteq s.statuses \cup {"same", "gone"}
         /\ b # "none"
BY DEF IsScreen, ButtonKind

LEMMA OverFacts ==
  ASSUME NEW s
  PROVE  Over \notin CallKind(s) /\ Over \notin ListKind(s) /\ Over.phase = "over"
BY DEF Over, CallKind, ListKind

(* What may come of a call or list, for the tab.                           *)
LEMMA EndingFacts ==
  ASSUME NEW x, NEW phase, phase \in Endings(x), x # Over => x.phase \in {"sent", "ok", "lost"}
  PROVE  /\ x # Over /\ phase \in Outcomes
         /\ x.phase = "sent" => phase \in {"no", "lost"}
         /\ x.phase # "sent" => phase = x.phase
<1>1. CASE x = Over
  BY <1>1 DEF Endings, Over
<1>2. CASE x # Over /\ x.phase = "sent"
  BY <1>2 DEF Endings, Outcomes
<1>3. CASE x # Over /\ x.phase # "sent"
  BY <1>3 DEF Endings, Outcomes
<1>4. QED
  BY <1>1, <1>2, <1>3

LEMMA ScreenTypes == ScreenInv => TypeOK
<1> SUFFICES ASSUME ScreenInv PROVE TypeOK
  OBVIOUS
<1>1. /\ DOMAIN stored \subseteq {Row} \cup NewRows /\ DOMAIN shown \subseteq Rows
      /\ \A r \in DOMAIN shown : shown[r] \in Entry(screen.statuses)
  BY TableFacts DEF ScreenInv, ScreenTyped
<1>2. \A r \in DOMAIN shown : shown[r].status \in screen.statuses
  BY <1>1 DEF Entry
<1>3. open = Shut \/ open.button \in Buttons
  BY DEF ScreenInv, ScreenTyped, OpenKind, Buttons
<1>4. seen.list \in 0 .. Len(lists)
  BY LenProperties DEF ScreenInv, ScreenTyped
<1>5. QED
  BY <1>1, <1>2, <1>3, <1>4 DEF ScreenInv, ScreenTyped, TypeOK

LEMMA ScreenInit == Init => ScreenInv
<1> SUFFICES ASSUME Init PROVE ScreenInv
  OBVIOUS
<1> DEFINE st == screen.statuses
<1>1. name \in DOMAIN Described /\ IsScreen(screen)
  BY ScreenFacts DEF Init, screen
<1>2. stored \in Tables({Row} \cup NewRows, st)
  <2>1. PICK status \in st : stored = [r \in {Row} |-> [status |-> status, by |-> "them"]]
    BY DEF Init
  <2>2. [status |-> status, by |-> "them"] \in Entry(st)
    BY DEF Entry, Authors
  <2>3. stored \in [{Row} -> Entry(st)]
    BY <2>1, <2>2
  <2>4. {Row} \in SUBSET ({Row} \cup NewRows)
    OBVIOUS
  <2>5. QED
    BY <2>3, <2>4, TableIs
<1>3. shown \in Tables(Rows, st)
  <2>1. shown = screen.demo /\ shown \in [DOMAIN shown -> Entry(st)] /\ DOMAIN shown \in SUBSET Rows
    BY <1>1, RowFacts DEF Init, IsScreen, Entry
  <2>2. QED
    BY <2>1, TableIs
<1>4. FirstList \in ListKind(screen)
  <2>1. NoRows \in Tables(Rows, st) /\ "none" \in FormsOf(screen)
    BY NoRowsTable DEF FormsOf
  <2>2. QED
    BY <2>1 DEF FirstList, Asked, ListKind
<1>5. lists \in Seq({Over} \cup ListKind(screen)) /\ Len(lists) \in Nat
  <2> DEFINE K == {Over} \cup ListKind(screen)
  <2>1. FirstList \in K
    BY <1>4
  <2> HIDE DEF K
  <2>2. lists = <<>> \/ lists = <<FirstList>>
    BY DEF Init
  <2>3. <<FirstList>> \in Seq(K)
    BY <2>1
  <2>4. <<>> \in Seq(K)
    BY EmptySeq
  <2>5. lists \in Seq(K)
    BY <2>2, <2>3, <2>4
  <2>6. Len(lists) \in Nat
    BY <2>5, LenProperties
  <2>7. QED
    BY <2>5, <2>6 DEF K
<1>6. calls \in Seq({Over} \cup CallKind(screen)) /\ Len(calls) = 0
  <2> DEFINE K == {Over} \cup CallKind(screen)
  <2> HIDE DEF K
  <2>1. calls \in Seq(K) /\ Len(calls) = 0
    BY DEF Init
  <2>2. QED
    BY <2>1 DEF K
<1>7. seen \in [list : Nat, ok : BOOLEAN] /\ seen.list = 0
  BY DEF Init
<1>8. MaxCalls \in Nat /\ MaxTrouble \in Nat /\ screen.list.asked \in BOOLEAN
  BY <1>1, ScreensAssumption DEF IsScreen
<1>9. open \in OpenKind(screen) /\ busy \in Rows \cup {NoRow, Down} /\ loading \in BOOLEAN
      /\ trouble \in 0 .. MaxTrouble /\ (name \in Candid => Entries(stored) \subseteq ever)
  BY <1>8 DEF Init, OpenKind
<1>10. 0 <= MaxCalls /\ 0 <= Len(lists)
  BY <1>5, <1>8
<1>11. QED
  BY <1>1, <1>2, <1>3, <1>5, <1>6, <1>7, <1>9, <1>10 DEF ScreenInv, ScreenTyped

LEMMA SeqSet ==
  ASSUME NEW K, NEW q \in Seq(K), NEW i \in DOMAIN q, NEW e \in K
  PROVE  [q EXCEPT ![i] = e] \in Seq(K) /\ Len([q EXCEPT ![i] = e]) = Len(q)
<1>1. i \in 1 .. Len(q)
  BY LenProperties
<1>2. QED
  BY <1>1, ExceptSeq

LEMMA SeqAdd ==
  ASSUME NEW K, NEW q \in Seq(K), NEW e \in K
  PROVE  Append(q, e) \in Seq(K) /\ Len(Append(q, e)) = Len(q) + 1 /\ Len(q) \in Nat
BY AppendProperties, LenProperties

LEMMA CallUpdate ==
  ASSUME NEW s, NEW c \in CallKind(s), NEW p \in {"ok", "lost"}, NEW row \in Rows
  PROVE  [[c EXCEPT !.phase = p] EXCEPT !.row = row] \in CallKind(s)
<1>1. NoRow \notin Rows
  BY RowFacts
<1>2. QED
  BY <1>1 DEF CallKind

LEMMA RestFacts ==
  ASSUME NEW s, s = screen, NEW b, s.buttons[b] \in ButtonKind(s)
  PROVE  /\ Rest(b) \in ButtonKind(s) /\ Rest(b).busy = s.buttons[b].busy
         /\ Rest(b).ok = s.buttons[b].ok /\ Rest(b).no = s.buttons[b].no /\ Rest(b).lost = s.buttons[b].lost
BY DEF Rest, ButtonKind

(* The call a pressed button sends.                                        *)
LEMMA PressedFacts ==
  ASSUME NEW s, s = screen, IsScreen(s), ScreenTyped(s), NEW b \in Buttons,
         NEW row \in DOMAIN shown \cup {NoRow, open.row}, NEW to \in s.buttons[b].to, Pressed(b, row)
  PROVE  /\ row \in Rows \cup {NoRow} /\ to \in s.statuses \cup {"same", "gone"}
         /\ row = NoRow => s.buttons[b].from = {}
         /\ s.buttons[b].from = {} => to \in s.statuses
<1>1. /\ b \in DOMAIN s.buttons /\ b # "none"
      /\ s.buttons[b].from = {} => s.buttons[b].to \subseteq s.statuses
      /\ s.buttons[b].to \subseteq s.statuses \cup {"same", "gone"}
  BY ButtonFacts DEF Buttons
<1>2. DOMAIN shown \subseteq Rows
  BY TableFacts DEF ScreenTyped
<1>3. CASE s.buttons[b].form = "none"
  <2>1. Offered(b, row)
    BY <1>3 DEF Pressed
  <2>2. QED
    BY <1>1, <1>2, <2>1, RowFacts DEF Offered
<1>4. CASE s.buttons[b].form # "none"
  <2>1. open.button = b /\ open.row = row
    BY <1>4 DEF Pressed
  <2>2. open # Shut
    BY <1>1, <2>1 DEF Shut
  <2>3. row \in Rows \cup {NoRow} /\ (row = NoRow => s.buttons[b].from = {})
    BY <2>1, <2>2 DEF ScreenTyped, OpenKind
  <2>4. QED
    BY <1>1, <2>3
<1>5. QED
  BY <1>3, <1>4

LEMMA CalledKind ==
  ASSUME NEW s, s = screen, IsScreen(s), ScreenTyped(s), NEW b \in Buttons,
         NEW row \in DOMAIN shown \cup {NoRow, open.row}, NEW to \in s.buttons[b].to, Pressed(b, row)
  PROVE  /\ Called(b, row, to) \in CallKind(s)
         /\ Called(b, row, to).button.busy = s.buttons[b].busy
<1>1. /\ row \in Rows \cup {NoRow} /\ to \in s.statuses \cup {"same", "gone"}
      /\ row = NoRow => s.buttons[b].from = {}
      /\ s.buttons[b].from = {} => to \in s.statuses
  BY PressedFacts
<1>2. s.buttons[b] \in ButtonKind(s)
  BY ButtonFacts DEF Buttons
<1>3. Rest(b) \in ButtonKind(s) /\ Rest(b).busy = s.buttons[b].busy
  BY <1>2 DEF Rest, ButtonKind
<1>4. (IF Puts(b) THEN shown ELSE NoRows) \in Tables(Rows, s.statuses)
  BY NoRowsTable DEF ScreenTyped
<1>5. (s.buttons[b].from = {}) \in BOOLEAN
  OBVIOUS
<1> HIDE DEF Puts, Rest
<1>6. QED
  BY <1>1, <1>3, <1>4, <1>5 DEF Called, CallKind

LEMMA PutTable ==
  ASSUME NEW s, IsScreen(s), NEW t \in Tables(Rows, s.statuses), NEW row \in Rows \cup {NoRow},
         NEW to \in s.statuses \cup {"same", "gone"}, row = NoRow => to \in s.statuses
  PROVE  Put(t, row, to) \in Tables(Rows, s.statuses)
<1>0. "me" \in Authors /\ "gone" \notin s.statuses /\ "same" \notin s.statuses /\ DOMAIN t \subseteq Rows
  BY TableFacts DEF Authors, IsScreen
<1>1. CASE to = "gone" \/ row \in DOMAIN t
  <2>1. row \in Rows /\ (to = "same" => row \in DOMAIN t)
    BY <1>0, <1>1
  <2>2. Put(t, row, to) = Changed(t, row, to, "me")
    BY <1>1 DEF Put
  <2>3. QED
    BY <1>0, <2>1, <2>2, ChangedTable
<1>2. CASE ~(to = "gone" \/ row \in DOMAIN t) /\ row = NoRow /\ Unused(t, LocalRows) # {}
  <2>1. Put(t, row, to) = Changed(t, Fresh(t, LocalRows), to, "me")
    BY <1>2 DEF Put
  <2>2. Fresh(t, LocalRows) \in Rows /\ to # "same"
    BY <1>0, <1>2, FreshIs, RowFacts
  <2>3. QED
    BY <1>0, <2>1, <2>2, ChangedTable
<1>3. CASE ~(to = "gone" \/ row \in DOMAIN t) /\ ~(row = NoRow /\ Unused(t, LocalRows) # {})
  BY <1>3 DEF Put
<1>4. QED
  BY <1>1, <1>2, <1>3

LEMMA StoreFacts ==
  ASSUME NEW rows, Store(rows), UNCHANGED name
  PROVE  stored' = rows /\ (name' \in Candid => Entries(stored') \subseteq ever')
BY DEF Store

LEMMA TroubleFacts ==
  ASSUME trouble \in 0 .. MaxTrouble, Trouble
  PROVE  trouble' \in 0 .. MaxTrouble /\ trouble' # 0
BY ScreensAssumption DEF Trouble

LEMMA TypedUser ==
  ASSUME NEW s, s = screen, IsScreen(s), ScreenTyped(s), OpenForm \/ LeaveForm \/ Send \/ ChangeHere
  PROVE  ScreenTyped(s)'
<1>1. CASE OpenForm
  <2>1. PICK b \in Buttons, row \in DOMAIN shown \cup {NoRow} :
          Offered(b, row) /\ open' = [form |-> s.buttons[b].form, button |-> b, row |-> row]
    BY <1>1 DEF OpenForm
  <2>2. row \in Rows \cup {NoRow} /\ (row = NoRow => s.buttons[b].from = {})
    BY <2>1, TableFacts, RowFacts DEF ScreenTyped, Offered
  <2>3. s.buttons[b].form \in FormsOf(s) /\ b \in DOMAIN s.buttons
    BY DEF FormsOf, Buttons
  <2>4. open' \in OpenKind(s)
    BY <2>1, <2>2, <2>3 DEF OpenKind
  <2>5. QED
    BY <1>1, <2>4 DEF OpenForm, ScreenTyped
<1>2. CASE LeaveForm
  BY <1>2 DEF LeaveForm, ScreenTyped, OpenKind
<1>3. CASE Send
  <2>0. PICK b \in Buttons : \E row \in DOMAIN shown \cup {NoRow, open.row}, to \in s.buttons[b].to :
          /\ Pressed(b, row) /\ calls' = Append(calls, Called(b, row, to))
          /\ busy' = IF s.buttons[b].busy THEN row ELSE busy
    BY <1>3 DEF Send
  <2>1. PICK row \in DOMAIN shown \cup {NoRow, open.row}, to \in s.buttons[b].to :
          /\ Pressed(b, row) /\ calls' = Append(calls, Called(b, row, to))
          /\ busy' = IF s.buttons[b].busy THEN row ELSE busy
    BY <2>0
  <2>2. Called(b, row, to) \in CallKind(s) /\ row \in Rows \cup {NoRow}
    BY <2>1, CalledKind, PressedFacts
  <2>3. calls' \in Seq({Over} \cup CallKind(s)) /\ Len(calls') = Len(calls) + 1 /\ Len(calls) \in Nat
    <3> DEFINE K == {Over} \cup CallKind(s)
    <3>1. Called(b, row, to) \in K /\ calls \in Seq(K)
      BY <2>2 DEF ScreenTyped
    <3> HIDE DEF K
    <3>2. calls' \in Seq(K) /\ Len(calls') = Len(calls) + 1 /\ Len(calls) \in Nat
      BY <2>1, <3>1, SeqAdd
    <3>3. QED
      BY <3>2 DEF K
  <2>4. Len(calls) < MaxCalls
    BY <2>1 DEF Pressed
  <2>5. Len(calls') <= MaxCalls
    BY <2>3, <2>4, ScreensAssumption
  <2>6. busy' \in Rows \cup {NoRow, Down}
    BY <2>1, <2>2 DEF ScreenTyped
  <2>7. QED
    BY <1>3, <2>3, <2>5, <2>6 DEF Send, ScreenTyped
<1>4. CASE ChangeHere
  <2>0. PICK b \in Buttons : \E row \in DOMAIN shown \cup {NoRow, open.row}, to \in s.buttons[b].to :
          /\ Pressed(b, row) /\ calls' = Append(calls, Over)
          /\ shown' = IF "put" \in s.buttons[b].ok THEN Put(shown, row, to) ELSE shown
          /\ open' = IF "close" \in s.buttons[b].ok THEN Shut ELSE open
    BY <1>4 DEF ChangeHere
  <2>1. PICK row \in DOMAIN shown \cup {NoRow, open.row}, to \in s.buttons[b].to :
          /\ Pressed(b, row) /\ calls' = Append(calls, Over)
          /\ shown' = IF "put" \in s.buttons[b].ok THEN Put(shown, row, to) ELSE shown
          /\ open' = IF "close" \in s.buttons[b].ok THEN Shut ELSE open
    BY <2>0
  <2>2. /\ row \in Rows \cup {NoRow} /\ to \in s.statuses \cup {"same", "gone"}
        /\ row = NoRow => to \in s.statuses
    BY <2>1, PressedFacts
  <2>3. shown' \in Tables(Rows, s.statuses)
    BY <2>1, <2>2, PutTable DEF ScreenTyped
  <2>4. calls' \in Seq({Over} \cup CallKind(s)) /\ Len(calls') = Len(calls) + 1 /\ Len(calls) \in Nat
    <3> DEFINE K == {Over} \cup CallKind(s)
    <3>1. Over \in K /\ calls \in Seq(K)
      BY DEF ScreenTyped
    <3> HIDE DEF K
    <3>2. calls' \in Seq(K) /\ Len(calls') = Len(calls) + 1 /\ Len(calls) \in Nat
      BY <2>1, <3>1, SeqAdd
    <3>3. QED
      BY <3>2 DEF K
  <2>5. Len(calls) < MaxCalls
    BY <2>1 DEF Pressed
  <2>6. Len(calls') <= MaxCalls
    BY <2>4, <2>5, ScreensAssumption
  <2>7. open' \in OpenKind(s)
    BY <2>1 DEF ScreenTyped, OpenKind
  <2>8. QED
    BY <1>4, <2>3, <2>4, <2>6, <2>7 DEF ChangeHere, ScreenTyped
<1>5. QED
  BY <1>1, <1>2, <1>3, <1>4

LEMMA TypedServer ==
  ASSUME NEW s, s = screen, IsScreen(s), ScreenTyped(s), Serve \/ ServeList \/ Other
  PROVE  ScreenTyped(s)'
<1> DEFINE ids == {Row} \cup NewRows
<1>0. /\ "me" \in Authors /\ "them" \in Authors /\ "gone" \notin s.statuses /\ "same" \notin s.statuses
      /\ DOMAIN stored \subseteq ids /\ ids \subseteq Rows /\ NewRows \subseteq ids
  BY TableFacts, RowFacts DEF Authors, IsScreen, ScreenTyped
<1>1. CASE Serve
  <2>1. PICK i \in DOMAIN calls : Perform(i)
    BY <1>1 DEF Serve
  <2> DEFINE c == calls[i]
             row == IF c.row = NoRow THEN Fresh(stored, NewRows) ELSE c.row
  <2>2. /\ c.phase = "sent" /\ Store(Changed(stored, row, c.to, "me"))
        /\ c.row \in DOMAIN stored \/ (c.row = NoRow /\ Unused(stored, NewRows) # {})
        /\ \/ calls' = [calls EXCEPT ![i].phase = "ok", ![i].row = row] /\ UNCHANGED trouble
           \/ calls' = [calls EXCEPT ![i].phase = "lost", ![i].row = row] /\ Trouble
    BY <2>1 DEF Perform
  <2>3. c \in CallKind(s)
    <3>1. c \in {Over} \cup CallKind(s)
      BY ElementOfSeq, LenProperties DEF ScreenTyped
    <3>2. QED
      BY <2>2, <3>1, OverFacts
  <2>4. row \in ids /\ (c.to = "same" => row \in DOMAIN stored) /\ c.to \in s.statuses \cup {"same", "gone"}
    <3>1. c.to \in s.statuses \cup {"same", "gone"} /\ (c.row = NoRow => c.to \in s.statuses)
      BY <2>3 DEF CallKind
    <3>2. c.row \in DOMAIN stored => c.row # NoRow
      BY <1>0, RowFacts
    <3>3. c.row = NoRow => row \in NewRows
      BY <2>2, <3>2, FreshIs
    <3>4. QED
      BY <2>2, <3>1, <3>2, <3>3, <1>0
  <2>5. stored' \in Tables(ids, s.statuses) /\ (name' \in Candid => Entries(stored') \subseteq ever')
    <3>1. Changed(stored, row, c.to, "me") \in Tables(ids, s.statuses)
      BY <1>0, <2>4, ChangedTable DEF ScreenTyped
    <3>2. UNCHANGED name
      BY <1>1 DEF Serve
    <3>3. QED
      BY <2>2, <3>1, <3>2, StoreFacts
  <2>6. \E e \in CallKind(s) : calls' = [calls EXCEPT ![i] = e]
    <3>1. PICK p \in {"ok", "lost"} : calls' = [calls EXCEPT ![i].phase = p, ![i].row = row]
      BY <2>2
    <3>2. [[c EXCEPT !.phase = p] EXCEPT !.row = row] \in CallKind(s)
      BY <1>0, <2>3, <2>4, CallUpdate
    <3>3. calls' = [calls EXCEPT ![i] = [[c EXCEPT !.phase = p] EXCEPT !.row = row]]
      BY <3>1
    <3>4. QED
      BY <3>2, <3>3
  <2>7. calls' \in Seq({Over} \cup CallKind(s)) /\ Len(calls') = Len(calls)
    <3> DEFINE K == {Over} \cup CallKind(s)
    <3>1. PICK e \in K : calls' = [calls EXCEPT ![i] = e]
      BY <2>6
    <3>2. calls \in Seq(K)
      BY DEF ScreenTyped
    <3> HIDE DEF K
    <3>3. calls' \in Seq(K) /\ Len(calls') = Len(calls)
      BY <3>1, <3>2, SeqSet
    <3>4. QED
      BY <3>3 DEF K
  <2>8. trouble' \in 0 .. MaxTrouble
    BY <2>2, TroubleFacts DEF ScreenTyped
  <2>9. QED
    BY <1>1, <2>5, <2>7, <2>8 DEF Serve, ScreenTyped
<1>2. CASE ServeList
  <2>1. PICK i \in DOMAIN lists :
          lists[i].phase = "sent" /\ lists' = [lists EXCEPT ![i].phase = "ok", ![i].rows = stored]
    BY <1>2 DEF ServeList
  <2> DEFINE e == [[lists[i] EXCEPT !.phase = "ok"] EXCEPT !.rows = stored]
  <2>2. lists[i] \in ListKind(s)
    <3>1. lists[i] \in {Over} \cup ListKind(s)
      BY ElementOfSeq, LenProperties DEF ScreenTyped
    <3>2. QED
      BY <2>1, <3>1, OverFacts
  <2>3. e \in ListKind(s)
    <3>1. stored \in Tables(Rows, s.statuses)
      BY <1>0, TableGrows DEF ScreenTyped
    <3>2. QED
      BY <2>2, <3>1 DEF ListKind
  <2>4. lists' = [lists EXCEPT ![i] = e]
    BY <2>1
  <2>5. lists' \in Seq({Over} \cup ListKind(s)) /\ Len(lists') = Len(lists)
    <3> DEFINE K == {Over} \cup ListKind(s)
    <3>1. e \in K /\ lists \in Seq(K)
      BY <2>3 DEF ScreenTyped
    <3> HIDE DEF K, e
    <3>2. lists' \in Seq(K) /\ Len(lists') = Len(lists)
      BY <2>4, <3>1, SeqSet
    <3>3. QED
      BY <3>2 DEF K
  <2>6. QED
    BY <1>2, <2>5 DEF ServeList, ScreenTyped
<1>3. CASE Other
  <2>1. \E rows \in Tables(ids, s.statuses) : Store(rows)
    <3>1. PICK to \in s.statuses \cup {"gone"} :
            \/ \E r \in DOMAIN stored : Store(Changed(stored, r, to, "them"))
            \/ /\ to # "gone" /\ Unused(stored, NewRows) # {}
               /\ Store(Changed(stored, Fresh(stored, NewRows), to, "them"))
      BY <1>3 DEF Other
    <3>2. to # "same"
      BY <1>0
    <3>3. \A r \in ids : Changed(stored, r, to, "them") \in Tables(ids, s.statuses)
      BY <1>0, <3>2, ChangedTable DEF ScreenTyped
    <3>4. QED
      BY <1>0, <3>1, <3>3, FreshIs
  <2>2. stored' \in Tables(ids, s.statuses) /\ (name' \in Candid => Entries(stored') \subseteq ever')
    BY <1>3, <2>1, StoreFacts DEF Other
  <2>3. trouble' \in 0 .. MaxTrouble
    BY <1>3, TroubleFacts DEF Other, ScreenTyped
  <2>4. QED
    BY <1>3, <2>2, <2>3 DEF Other, ScreenTyped
<1>4. QED
  BY <1>1, <1>2, <1>3

(* A call or a list that ends for the tab.                                 *)
LEMMA CallEnds ==
  ASSUME NEW s, ScreenTyped(s), NEW i \in DOMAIN calls, NEW phase, Ending(calls[i], phase)
  PROVE  /\ calls[i] \in CallKind(s) /\ calls[i] # Over /\ phase \in Outcomes
         /\ calls[i].phase = "sent" => phase \in {"no", "lost"}
         /\ calls[i].phase # "sent" => phase = calls[i].phase
         /\ trouble' \in 0 .. MaxTrouble
<1>1. calls[i] \in {Over} \cup CallKind(s)
  BY ElementOfSeq, LenProperties DEF ScreenTyped
<1>2. calls[i] # Over => calls[i].phase \in {"sent", "ok", "lost"}
  BY <1>1 DEF CallKind
<1>3. phase \in Endings(calls[i])
  BY DEF Ending
<1>4. trouble' \in 0 .. MaxTrouble
  BY TroubleFacts DEF Ending, ScreenTyped
<1>5. QED
  BY <1>1, <1>2, <1>3, <1>4, EndingFacts

LEMMA ListEnds ==
  ASSUME NEW s, ScreenTyped(s), NEW i \in DOMAIN lists, NEW phase, Ending(lists[i], phase)
  PROVE  /\ lists[i] \in ListKind(s) /\ lists[i] # Over /\ phase \in Outcomes
         /\ phase = "ok" => lists[i].phase = "ok"
         /\ trouble' \in 0 .. MaxTrouble
<1>1. lists[i] \in {Over} \cup ListKind(s)
  BY ElementOfSeq, LenProperties DEF ScreenTyped
<1>2. lists[i] # Over => lists[i].phase \in {"sent", "ok", "lost"}
  BY <1>1 DEF ListKind
<1>3. phase \in Endings(lists[i])
  BY DEF Ending
<1>4. trouble' \in 0 .. MaxTrouble
  BY TroubleFacts DEF Ending, ScreenTyped
<1>5. QED
  BY <1>1, <1>2, <1>3, <1>4, EndingFacts

(* What the handler does with its outcome.                                 *)
Outcome(b, phase) == CASE phase = "ok" -> b.ok [] phase = "no" -> b.no [] OTHER -> b.lost
Shows(c, phase) == IF phase = "ok" /\ c.creates THEN Changed(c.based, c.row, c.to, "me")
                   ELSE Put(c.based, c.row, c.to)

LEMMA SettleFacts ==
  ASSUME NEW i, NEW phase, Settle(i, phase)
  PROVE  LET c == calls[i]
             b == c.button
             does == Outcome(b, phase)
         IN /\ Ending(c, phase)
            /\ open' \in {open, Shut}
            /\ shown' = IF "put" \in does THEN Shows(c, phase) ELSE shown
            /\ lists' = Relisted(b, does)
            /\ loading' = (loading \/ "list" \in does)
            /\ busy' = IF b.busy /\ phase \in b.frees /\ ~("wait" \in does) THEN Down ELSE busy
            /\ calls' = [calls EXCEPT ![i] = Over]
            /\ UNCHANGED <<name, stored, seen, ever>>
BY DEF Settle, Outcome, Shows

LEMMA ShowsTable ==
  ASSUME NEW s, IsScreen(s), NEW c \in CallKind(s), NEW phase, phase = "ok" => c.phase = "ok"
  PROVE  Shows(c, phase) \in Tables(Rows, s.statuses)
<1>1. /\ c.based \in Tables(Rows, s.statuses) /\ c.row \in Rows \cup {NoRow}
      /\ c.to \in s.statuses \cup {"same", "gone"} /\ (c.row = NoRow => c.to \in s.statuses)
      /\ phase = "ok" => c.row # NoRow
      /\ c.creates => c.to \in s.statuses
  BY DEF CallKind
<1>2. "me" \in Authors /\ "same" \notin s.statuses
  BY DEF Authors, IsScreen
<1>3. CASE phase = "ok" /\ c.creates
  <2>1. Shows(c, phase) = Changed(c.based, c.row, c.to, "me")
    BY <1>3 DEF Shows
  <2>2. c.row \in Rows /\ c.to # "same"
    BY <1>1, <1>2, <1>3
  <2>3. QED
    BY <1>1, <1>2, <2>1, <2>2, ChangedTable
<1>4. CASE ~(phase = "ok" /\ c.creates)
  BY <1>1, <1>4, PutTable DEF Shows
<1>5. QED
  BY <1>3, <1>4

(* A list the handler asks for.                                            *)
NewList(b, does, l) ==
  /\ l.phase = "sent" /\ l.rows = NoRows
  /\ l.lowers => "wait" \in does /\ b.busy

LEMMA RelistedFacts ==
  ASSUME NEW s, ScreenTyped(s), NEW b \in ButtonKind(s), NEW does
  PROVE  /\ Relisted(b, does) \in Seq({Over} \cup ListKind(s))
         /\ Len(lists) \in Nat
         /\ \/ "list" \notin does /\ Relisted(b, does) = lists
            \/ "list" \in does /\ \E l \in ListKind(s) : NewList(b, does, l) /\ Relisted(b, does) = Append(lists, l)
<1> DEFINE K == {Over} \cup ListKind(s)
<1>0. lists \in Seq(K) /\ Len(lists) \in Nat
  BY LenProperties DEF ScreenTyped
<1>1. CASE "list" \notin does
  BY <1>0, <1>1 DEF Relisted
<1>2. CASE "list" \in does
  <2> DEFINE l == IF "wait" \in does THEN Asked(IF "close" \in does THEN b.form ELSE "none", b.busy)
                  ELSE FirstList
  <2>1. Relisted(b, does) = Append(lists, l)
    BY <1>2 DEF Relisted
  <2>2. /\ NoRows \in Tables(Rows, s.statuses) /\ b.form \in FormsOf(s) /\ "none" \in FormsOf(s)
        /\ b.busy \in BOOLEAN
    BY NoRowsTable DEF ButtonKind, FormsOf
  <2>3. l \in ListKind(s) /\ NewList(b, does, l)
    BY <2>2 DEF ListKind, Asked, FirstList, NewList
  <2> HIDE DEF l, K
  <2>4. Append(lists, l) \in Seq(K)
    BY <1>0, <2>3, SeqAdd DEF K
  <2>5. QED
    BY <1>0, <1>2, <2>1, <2>3, <2>4 DEF K
<1>3. QED
  BY <1>1, <1>2

LEMMA TypedSettle ==
  ASSUME NEW s, s = screen, IsScreen(s), ScreenTyped(s), NEW i \in DOMAIN calls, NEW phase, Settle(i, phase)
  PROVE  ScreenTyped(s)'
<1> DEFINE c == calls[i]
           does == Outcome(c.button, phase)
<1>1. /\ Ending(c, phase) /\ open' \in {open, Shut}
      /\ shown' = IF "put" \in does THEN Shows(c, phase) ELSE shown
      /\ lists' = Relisted(c.button, does)
      /\ loading' = (loading \/ "list" \in does)
      /\ busy' \in {Down, busy}
      /\ calls' = [calls EXCEPT ![i] = Over]
      /\ UNCHANGED <<name, stored, seen, ever>>
  BY SettleFacts
<1>2. /\ c \in CallKind(s) /\ (phase = "ok" => c.phase = "ok") /\ trouble' \in 0 .. MaxTrouble
  BY <1>1, CallEnds
<1>3. shown' \in Tables(Rows, s.statuses)
  BY <1>1, <1>2, ShowsTable DEF ScreenTyped
<1>4. c.button \in ButtonKind(s)
  BY <1>2 DEF CallKind
<1>5. lists' \in Seq({Over} \cup ListKind(s)) /\ Len(lists) <= Len(lists') /\ Len(lists) \in Nat /\ Len(lists') \in Nat
  <2>1. /\ lists' \in Seq({Over} \cup ListKind(s)) /\ Len(lists) \in Nat
        /\ lists' = lists \/ \E l \in ListKind(s) : lists' = Append(lists, l)
    <3>1. PICK b \in ButtonKind(s), d \in {does} : lists' = Relisted(b, d)
      BY <1>1, <1>4
    <3>2. Relisted(b, d) \in Seq({Over} \cup ListKind(s)) /\ Len(lists) \in Nat
      BY RelistedFacts
    <3>3. \/ Relisted(b, d) = lists
          \/ \E l \in ListKind(s) : NewList(b, d, l) /\ Relisted(b, d) = Append(lists, l)
      BY RelistedFacts
    <3>4. QED
      BY <3>1, <3>2, <3>3
  <2>2. ASSUME NEW l \in ListKind(s), lists' = Append(lists, l) PROVE Len(lists') = Len(lists) + 1
    <3> DEFINE K == {Over} \cup ListKind(s)
    <3>1. lists \in Seq(K) /\ l \in K
      BY DEF ScreenTyped
    <3> HIDE DEF K
    <3>2. QED
      BY <2>2, <3>1, SeqAdd
  <2>3. QED
    BY <2>1, <2>2
<1>6. calls' \in Seq({Over} \cup CallKind(s)) /\ Len(calls') = Len(calls)
  <2> DEFINE K == {Over} \cup CallKind(s)
  <2>1. Over \in K /\ calls \in Seq(K)
    BY DEF ScreenTyped
  <2> HIDE DEF K
  <2>2. calls' \in Seq(K) /\ Len(calls') = Len(calls)
    BY <1>1, <2>1, SeqSet
  <2>3. QED
    BY <2>2 DEF K
<1>7. open' \in OpenKind(s) /\ busy' \in Rows \cup {NoRow, Down} /\ loading' \in BOOLEAN
  BY <1>1 DEF ScreenTyped, OpenKind
<1>8. seen'.list <= Len(lists')
  <2>1. seen.list \in Nat /\ seen.list <= Len(lists) /\ seen' = seen
    BY <1>1 DEF ScreenTyped
  <2>2. QED
    BY <1>5, <2>1
<1> HIDE DEF c, does
<1>9. QED
  BY <1>1, <1>2, <1>3, <1>5, <1>6, <1>7, <1>8 DEF ScreenTyped

LEMMA SettleListFacts ==
  ASSUME NEW i, NEW phase, SettleList(i, phase)
  PROVE  /\ Ending(lists[i], phase)
         /\ shown' \in {shown, lists[i].rows}
         /\ phase = "ok" /\ screen.list.empty = "show" => shown' = lists[i].rows
         /\ loading' = FALSE /\ seen' = [list |-> i, ok |-> phase = "ok"]
         /\ open' \in {open, Shut}
         /\ busy' = IF lists[i].lowers THEN Down ELSE busy
         /\ lists' = [lists EXCEPT ![i] = Over]
         /\ UNCHANGED <<name, stored, calls, ever>>
BY DEF SettleList

LEMMA TypedList ==
  ASSUME NEW s, s = screen, IsScreen(s), ScreenTyped(s), NEW i \in DOMAIN lists, NEW phase, SettleList(i, phase)
  PROVE  ScreenTyped(s)'
<1>1. /\ Ending(lists[i], phase) /\ shown' \in {shown, lists[i].rows}
      /\ loading' = FALSE /\ seen' = [list |-> i, ok |-> phase = "ok"]
      /\ open' \in {open, Shut} /\ busy' \in {Down, busy}
      /\ lists' = [lists EXCEPT ![i] = Over]
      /\ UNCHANGED <<name, stored, calls, ever>>
  BY SettleListFacts
<1>2. lists[i] \in ListKind(s) /\ trouble' \in 0 .. MaxTrouble
  BY <1>1, ListEnds
<1>3. shown' \in Tables(Rows, s.statuses)
  BY <1>1, <1>2 DEF ListKind, ScreenTyped
<1>4. lists' \in Seq({Over} \cup ListKind(s)) /\ Len(lists') = Len(lists)
  <2> DEFINE K == {Over} \cup ListKind(s)
  <2>1. Over \in K /\ lists \in Seq(K)
    BY DEF ScreenTyped
  <2> HIDE DEF K
  <2>2. lists' \in Seq(K) /\ Len(lists') = Len(lists)
    BY <1>1, <2>1, SeqSet
  <2>3. QED
    BY <2>2 DEF K
<1>5. i \in Nat /\ i <= Len(lists)
  BY LenProperties DEF ScreenTyped
<1>6. seen' \in [list : Nat, ok : BOOLEAN] /\ seen'.list <= Len(lists')
  BY <1>1, <1>4, <1>5
<1>7. open' \in OpenKind(s) /\ busy' \in Rows \cup {NoRow, Down}
  BY <1>1 DEF ScreenTyped, OpenKind
<1>8. QED
  BY <1>1, <1>2, <1>3, <1>4, <1>6, <1>7 DEF ScreenTyped

LEMMA ScreenStep == ScreenInv /\ (Next \/ UNCHANGED vars) => ScreenInv'
<1> SUFFICES ASSUME ScreenInv, Next \/ UNCHANGED vars PROVE ScreenInv'
  OBVIOUS
<1>1. CASE UNCHANGED vars
  BY <1>1 DEF ScreenInv, ScreenTyped, screen, vars
<1>2. CASE Next
  <2>1. UNCHANGED name
    BY <1>2 DEF Next, Answers, OpenForm, LeaveForm, Send, ChangeHere, Other, Serve, ServeList, Settle, SettleList
  <2>2. PICK s : s = screen /\ s = screen' /\ IsScreen(s) /\ ScreenTyped(s)
    BY <2>1, ScreenFacts DEF ScreenInv, screen
  <2>3. ScreenTyped(s)'
    BY <1>2, <2>2, TypedUser, TypedServer, TypedSettle, TypedList DEF Next, Answers
  <2>4. QED
    BY <2>1, <2>2, <2>3 DEF ScreenInv
<1>3. QED
  BY <1>1, <1>2

-----------------------------------------------------------------------------
(* Candid screens.  ShowsOnlyStored is not inductive: the rows a handler   *)
(* holds and the lists on their way are shown later, so they must be rows  *)
(* the server has had, and a handler must only ever take a row away.       *)
CandidInv ==
  name \in Candid =>
    /\ Entries(shown) \subseteq ever
    /\ \A i \in DOMAIN calls : calls[i] # Over =>
         /\ Entries(calls[i].based) \subseteq ever
         /\ "put" \notin calls[i].button.no \cup calls[i].button.lost
         /\ "put" \in calls[i].button.ok => calls[i].to = "gone"
    /\ \A i \in DOMAIN lists : lists[i] # Over => Entries(lists[i].rows) \subseteq ever

LEMMA CandidInit == Init => CandidInv
<1> SUFFICES ASSUME Init, name \in Candid PROVE CandidInv
  BY DEF CandidInv
<1>1. DOMAIN screen.demo = {}
  BY CandidAssumption DEF Init, screen
<1>2. Entries(shown) = {}
  BY <1>1 DEF Init, Entries
<1>3. DOMAIN calls = {}
  BY DEF Init
<1>4. \A i \in DOMAIN lists : lists[i] = FirstList
  BY DEF Init
<1>5. FirstList.rows = NoRows /\ Entries(NoRows) = {}
  BY NoRowsTable DEF FirstList, Asked
<1>6. QED
  BY <1>2, <1>3, <1>4, <1>5 DEF CandidInv

(* The elements of a sequence after one was added or set.                  *)
LEMMA Added ==
  ASSUME NEW K, NEW q \in Seq(K), NEW e \in K
  PROVE  /\ DOMAIN Append(q, e) = DOMAIN q \cup {Len(q) + 1} /\ Len(q) + 1 \notin DOMAIN q
         /\ Append(q, e)[Len(q) + 1] = e
         /\ \A i \in DOMAIN q : Append(q, e)[i] = q[i]
<1>1. /\ Append(q, e) \in Seq(K) /\ Len(Append(q, e)) = Len(q) + 1
      /\ \A i \in 1 .. Len(q) : Append(q, e)[i] = q[i]
      /\ Append(q, e)[Len(q) + 1] = e
  BY AppendProperties
<1>2. DOMAIN q = 1 .. Len(q) /\ Len(q) \in Nat /\ DOMAIN Append(q, e) = 1 .. Len(Append(q, e))
  BY <1>1, LenProperties
<1>3. QED
  BY <1>1, <1>2

LEMMA CallAdded ==
  ASSUME NEW s, ScreenTyped(s), NEW e \in {Over} \cup CallKind(s), calls' = Append(calls, e)
  PROVE  \A i \in DOMAIN calls' : (i \in DOMAIN calls /\ calls'[i] = calls[i]) \/ (i \notin DOMAIN calls /\ calls'[i] = e)
<1> DEFINE K == {Over} \cup CallKind(s)
<1>1. calls \in Seq(K) /\ e \in K
  BY DEF ScreenTyped
<1> HIDE DEF K
<1>2. QED
  BY <1>1, Added

LEMMA ListAdded ==
  ASSUME NEW s, ScreenTyped(s), NEW e \in ListKind(s), lists' = Append(lists, e)
  PROVE  /\ \A i \in DOMAIN lists' : (i \in DOMAIN lists /\ lists'[i] = lists[i]) \/ (i = Len(lists) + 1 /\ lists'[i] = e)
         /\ Len(lists') = Len(lists) + 1 /\ Len(lists) \in Nat /\ DOMAIN lists \subseteq DOMAIN lists'
<1> DEFINE K == {Over} \cup ListKind(s)
<1>1. lists \in Seq(K) /\ e \in K
  BY DEF ScreenTyped
<1> HIDE DEF K
<1>2. QED
  BY <1>1, Added, SeqAdd

LEMMA CandidStep ==
  ASSUME ScreenInv, CandidInv, Next
  PROVE  CandidInv'
<1>n. UNCHANGED name
  BY DEF Next, Answers, OpenForm, LeaveForm, Send, ChangeHere, Other, Serve, ServeList, Settle, SettleList
<1> SUFFICES ASSUME name \in Candid PROVE CandidInv'
  BY <1>n DEF CandidInv
<1>s. PICK s : s = screen /\ IsScreen(s) /\ ScreenTyped(s) /\ s = Described[name] /\ name \in DOMAIN Described
  BY ScreenFacts DEF ScreenInv, screen
<1>b. \A b \in DOMAIN s.buttons :
        /\ "put" \notin s.buttons[b].no \cup s.buttons[b].lost
        /\ "put" \in s.buttons[b].ok => ~s.buttons[b].local /\ s.buttons[b].to \subseteq {"gone"}
  BY <1>s, CandidAssumption
<1>i. /\ Entries(shown) \subseteq ever /\ Entries(stored) \subseteq ever
      /\ \A i \in DOMAIN calls : calls[i] # Over =>
           /\ Entries(calls[i].based) \subseteq ever
           /\ "put" \notin calls[i].button.no \cup calls[i].button.lost
           /\ "put" \in calls[i].button.ok => calls[i].to = "gone"
      /\ \A i \in DOMAIN lists : lists[i] # Over => Entries(lists[i].rows) \subseteq ever
  BY <1>s DEF CandidInv, ScreenTyped
<1>1. CASE OpenForm \/ LeaveForm
  BY <1>1, <1>i, <1>n DEF OpenForm, LeaveForm, CandidInv
<1>2. CASE Send
  <2>0. PICK b \in Buttons : \E row \in DOMAIN shown \cup {NoRow, open.row}, to \in s.buttons[b].to :
          Pressed(b, row) /\ calls' = Append(calls, Called(b, row, to))
    BY <1>2, <1>s DEF Send
  <2>1. PICK row \in DOMAIN shown \cup {NoRow, open.row}, to \in s.buttons[b].to :
          Pressed(b, row) /\ calls' = Append(calls, Called(b, row, to))
    BY <2>0
  <2> DEFINE c == Called(b, row, to)
  <2>2. c \in CallKind(s)
    BY <1>s, <2>1, CalledKind
  <2>3. c.based \in {shown, NoRows} /\ c.to = to /\ c.button = Rest(b)
    BY DEF Called
  <2>4. s.buttons[b] \in ButtonKind(s)
    BY <1>s, ButtonFacts DEF Buttons
  <2>5. c.button.ok = s.buttons[b].ok /\ c.button.no = s.buttons[b].no /\ c.button.lost = s.buttons[b].lost
    BY <1>s, <2>3, <2>4, RestFacts
  <2>6. /\ Entries(c.based) \subseteq ever
        /\ "put" \notin c.button.no \cup c.button.lost
        /\ "put" \in c.button.ok => c.to = "gone"
    <3>1. b \in DOMAIN s.buttons
      BY <1>s DEF Buttons
    <3>2. Entries(NoRows) \subseteq ever
      BY NoRowsTable
    <3>3. QED
      BY <1>b, <1>i, <2>3, <2>5, <3>1, <3>2
  <2> HIDE DEF c
  <2>7. \A i \in DOMAIN calls' : (i \in DOMAIN calls /\ calls'[i] = calls[i]) \/ calls'[i] = c
    BY <1>s, <2>1, <2>2, CallAdded DEF c
  <2>8. UNCHANGED <<name, shown, lists, ever>>
    BY <1>2 DEF Send
  <2>9. QED
    BY <1>i, <2>6, <2>7, <2>8 DEF CandidInv
<1>3. CASE ChangeHere
  <2>1. calls' = Append(calls, Over) /\ UNCHANGED <<name, shown, lists, ever>>
    BY <1>3, <1>s, <1>b DEF ChangeHere, Buttons
  <2>2. \A i \in DOMAIN calls' : (i \in DOMAIN calls /\ calls'[i] = calls[i]) \/ calls'[i] = Over
    BY <1>s, <2>1, CallAdded
  <2>3. QED
    BY <1>i, <2>1, <2>2 DEF CandidInv
<1>4. CASE Serve
  <2>1. PICK i \in DOMAIN calls : Perform(i)
    BY <1>4 DEF Serve
  <2>2. ever \subseteq ever' /\ UNCHANGED <<name, shown, lists>>
    BY <1>4, <2>1 DEF Serve, Perform, Store
  <2>3. \E p \in {"ok", "lost"} : \E row : calls' = [calls EXCEPT ![i].phase = p, ![i].row = row]
    BY <2>1 DEF Perform
  <2>4. calls[i] \in CallKind(s)
    <3>1. calls[i] \in {Over} \cup CallKind(s)
      BY <1>s, ElementOfSeq, LenProperties DEF ScreenTyped
    <3>2. calls[i].phase = "sent"
      BY <2>1 DEF Perform
    <3>3. QED
      BY <3>1, <3>2, OverFacts
  <2>5. /\ DOMAIN calls' = DOMAIN calls /\ \A j \in DOMAIN calls \ {i} : calls'[j] = calls[j]
        /\ calls'[i].based = calls[i].based /\ calls'[i].to = calls[i].to /\ calls'[i].button = calls[i].button
    BY <2>3, <2>4 DEF CallKind
  <2>6. calls[i] # Over
    BY <2>4, OverFacts
  <2>7. QED
    BY <1>i, <2>2, <2>5, <2>6 DEF CandidInv
<1>5. CASE ServeList
  <2>1. PICK i \in DOMAIN lists :
          lists[i].phase = "sent" /\ lists' = [lists EXCEPT ![i].phase = "ok", ![i].rows = stored]
    BY <1>5 DEF ServeList
  <2>2. lists[i] \in ListKind(s)
    <3>1. lists[i] \in {Over} \cup ListKind(s)
      BY <1>s, ElementOfSeq, LenProperties DEF ScreenTyped
    <3>2. QED
      BY <2>1, <3>1, OverFacts
  <2>3. DOMAIN lists' = DOMAIN lists /\ (\A j \in DOMAIN lists \ {i} : lists'[j] = lists[j]) /\ lists'[i].rows = stored
    BY <2>1, <2>2 DEF ListKind
  <2>4. UNCHANGED <<name, shown, calls, ever>>
    BY <1>5 DEF ServeList
  <2>5. QED
    BY <1>i, <2>3, <2>4 DEF CandidInv
<1>6. CASE Other
  <2>1. ever \subseteq ever' /\ UNCHANGED <<name, shown, calls, lists>>
    BY <1>6 DEF Other, Store
  <2>2. QED
    BY <1>i, <2>1 DEF CandidInv
<1>7. ASSUME NEW i \in DOMAIN calls, NEW phase \in Outcomes, Settle(i, phase) PROVE CandidInv'
  <2> DEFINE c == calls[i]
             does == Outcome(c.button, phase)
  <2>1. /\ Ending(c, phase) /\ shown' = IF "put" \in does THEN Shows(c, phase) ELSE shown
        /\ lists' = Relisted(c.button, does) /\ calls' = [calls EXCEPT ![i] = Over]
        /\ UNCHANGED <<name, ever>>
    BY <1>7, SettleFacts
  <2>2. c \in CallKind(s) /\ c # Over /\ c.button \in ButtonKind(s)
    <3>1. c \in CallKind(s) /\ c # Over
      BY <1>s, <2>1, CallEnds
    <3>2. QED
      BY <3>1 DEF CallKind
  <2>3. "put" \in does => Entries(Shows(c, phase)) \subseteq Entries(c.based)
    <3>1. "put" \in does => c.to = "gone"
      BY <1>i, <2>2 DEF Outcome
    <3>2. QED
      BY <3>1, RemovedEntries DEF Shows, Put
  <2>4. Entries(shown') \subseteq ever
    BY <1>i, <2>1, <2>2, <2>3
  <2>5. \A j \in DOMAIN lists' : (j \in DOMAIN lists /\ lists'[j] = lists[j]) \/ Entries(lists'[j].rows) = {}
    <3>1. PICK b \in ButtonKind(s), d \in {does} : lists' = Relisted(b, d)
      BY <2>1, <2>2
    <3>0. \/ Relisted(b, d) = lists
          \/ \E l \in ListKind(s) : NewList(b, d, l) /\ Relisted(b, d) = Append(lists, l)
      BY <1>s, RelistedFacts
    <3>2. lists' = lists \/ \E l \in ListKind(s) : l.rows = NoRows /\ lists' = Append(lists, l)
      BY <3>0, <3>1 DEF NewList
    <3>3. Entries(NoRows) = {}
      BY NoRowsTable
    <3>4. QED
      BY <1>s, <3>2, <3>3, ListAdded
  <2>6. DOMAIN calls' = DOMAIN calls /\ \A j \in DOMAIN calls : calls'[j] \in {Over, calls[j]}
    BY <2>1
  <2> HIDE DEF c, does
  <2>7. QED
    BY <1>i, <1>n, <2>1, <2>4, <2>5, <2>6 DEF CandidInv
<1>8. ASSUME NEW i \in DOMAIN lists, NEW phase \in Outcomes, SettleList(i, phase) PROVE CandidInv'
  <2>1. /\ Ending(lists[i], phase) /\ shown' \in {shown, lists[i].rows}
        /\ lists' = [lists EXCEPT ![i] = Over] /\ UNCHANGED <<name, calls, ever>>
    BY <1>8, SettleListFacts
  <2>2. lists[i] # Over
    BY <1>s, <2>1, ListEnds
  <2>3. DOMAIN lists' = DOMAIN lists /\ \A j \in DOMAIN lists : lists'[j] \in {Over, lists[j]}
    BY <2>1
  <2>4. QED
    BY <1>i, <2>1, <2>2, <2>3 DEF CandidInv
<1>9. QED
  BY <1>1, <1>2, <1>3, <1>4, <1>5, <1>6, <1>7, <1>8 DEF Next, Answers

-----------------------------------------------------------------------------
(* What a step does to the calls and lists in flight.                      *)

LEMMA SendFacts ==
  ASSUME NEW s, s = screen, IsScreen(s), ScreenTyped(s), Send
  PROVE  /\ \E b \in DOMAIN s.buttons, row \in Rows \cup {NoRow}, e \in CallKind(s) :
              /\ s.buttons[b].lock = "flag" => busy = Down
              /\ busy' = IF s.buttons[b].busy THEN row ELSE busy
              /\ e.phase = "sent" /\ e.button.busy = s.buttons[b].busy /\ e.button.ok = s.buttons[b].ok
              /\ e.button.no = s.buttons[b].no /\ e.button.lost = s.buttons[b].lost
              /\ \A i \in DOMAIN calls' : (i \in DOMAIN calls /\ calls'[i] = calls[i])
                                       \/ (i \notin DOMAIN calls /\ calls'[i] = e)
         /\ DOMAIN calls \subseteq DOMAIN calls' /\ \A i, j \in DOMAIN calls' \ DOMAIN calls : i = j
         /\ UNCHANGED <<name, stored, shown, lists, seen, trouble>>
<1>0. PICK b \in Buttons : \E row \in DOMAIN shown \cup {NoRow, open.row}, to \in s.buttons[b].to :
        /\ Pressed(b, row) /\ calls' = Append(calls, Called(b, row, to))
        /\ busy' = IF s.buttons[b].busy THEN row ELSE busy
  BY DEF Send
<1>1. PICK row \in DOMAIN shown \cup {NoRow, open.row}, to \in s.buttons[b].to :
        /\ Pressed(b, row) /\ calls' = Append(calls, Called(b, row, to))
        /\ busy' = IF s.buttons[b].busy THEN row ELSE busy
  BY <1>0
<1>2. s.buttons[b] \in ButtonKind(s) /\ b \in DOMAIN s.buttons
  BY ButtonFacts DEF Buttons
<1>3. PICK e \in CallKind(s) : e = Called(b, row, to)
  BY <1>1, CalledKind
<1>4. e.phase = "sent" /\ e.button = Rest(b)
  BY <1>3 DEF Called
<1>5. \A i \in DOMAIN calls' : (i \in DOMAIN calls /\ calls'[i] = calls[i]) \/ (i \notin DOMAIN calls /\ calls'[i] = e)
  BY <1>1, <1>3, CallAdded
<1>6. row \in Rows \cup {NoRow} /\ (s.buttons[b].lock = "flag" => busy = Down)
  BY <1>1, PressedFacts DEF Pressed
<1>7. DOMAIN calls \subseteq DOMAIN calls' /\ \A i, j \in DOMAIN calls' \ DOMAIN calls : i = j
  <2> DEFINE K == {Over} \cup CallKind(s)
  <2>1. calls \in Seq(K) /\ e \in K
    BY DEF ScreenTyped
  <2> HIDE DEF K
  <2>2. QED
    BY <1>1, <1>3, <2>1, Added
<1>8. UNCHANGED <<name, stored, shown, lists, seen, trouble>>
  BY DEF Send
<1>9. /\ e.button.busy = s.buttons[b].busy /\ e.button.ok = s.buttons[b].ok
      /\ e.button.no = s.buttons[b].no /\ e.button.lost = s.buttons[b].lost
  BY <1>2, <1>4, RestFacts
<1>10. /\ s.buttons[b].lock = "flag" => busy = Down
       /\ busy' = IF s.buttons[b].busy THEN row ELSE busy
       /\ e.phase = "sent"
       /\ \A i \in DOMAIN calls' : (i \in DOMAIN calls /\ calls'[i] = calls[i])
                                \/ (i \notin DOMAIN calls /\ calls'[i] = e)
  BY <1>1, <1>4, <1>5, <1>6
<1>11. row \in Rows \cup {NoRow} /\ b \in DOMAIN s.buttons
  BY <1>2, <1>6
<1>12. QED
  BY <1>7, <1>8, <1>9, <1>10, <1>11

LEMMA ServeFacts ==
  ASSUME NEW s, ScreenTyped(s), Serve
  PROVE  /\ \E i \in DOMAIN calls, p \in {"ok", "lost"} :
              /\ calls[i] # Over /\ calls'[i].phase = p /\ calls'[i].button = calls[i].button
              /\ calls'[i] # Over /\ calls[i].phase = "sent"
              /\ \A j \in DOMAIN calls \ {i} : calls'[j] = calls[j]
              /\ p = "lost" => trouble' # 0
         /\ DOMAIN calls' = DOMAIN calls
         /\ trouble' = 0 => trouble = 0
         /\ UNCHANGED <<name, shown, busy, lists, seen>>
<1>1. PICK i \in DOMAIN calls : Perform(i)
  BY DEF Serve
<1>2. \E p \in {"ok", "lost"} : \E row : /\ calls' = [calls EXCEPT ![i].phase = p, ![i].row = row]
                                         /\ p = "lost" => Trouble
  BY <1>1 DEF Perform
<1>3. calls[i] \in CallKind(s) /\ calls[i] # Over
  <2>1. calls[i] \in {Over} \cup CallKind(s)
    BY ElementOfSeq, LenProperties DEF ScreenTyped
  <2>2. calls[i].phase = "sent"
    BY <1>1 DEF Perform
  <2>3. QED
    BY <2>1, <2>2, OverFacts
<1>4. PICK p \in {"ok", "lost"} :
        /\ DOMAIN calls' = DOMAIN calls /\ \A j \in DOMAIN calls \ {i} : calls'[j] = calls[j]
        /\ calls'[i].phase = p /\ calls'[i].button = calls[i].button
        /\ p = "lost" => Trouble
  BY <1>2, <1>3 DEF CallKind
<1>5. trouble \in 0 .. MaxTrouble /\ (trouble' = trouble \/ Trouble)
  BY <1>1 DEF Perform, ScreenTyped
<1>6. (p = "lost" => trouble' # 0) /\ (trouble' = 0 => trouble = 0)
  BY <1>4, <1>5, TroubleFacts
<1>7. calls'[i] # Over
  BY <1>4 DEF Over
<1>8. calls[i].phase = "sent" /\ UNCHANGED <<name, shown, busy, lists, seen>>
  BY <1>1 DEF Perform, Serve
<1>9. QED
  BY <1>3, <1>4, <1>6, <1>7, <1>8

LEMMA ServeListFacts ==
  ASSUME NEW s, ScreenTyped(s), ServeList
  PROVE  /\ \E i \in DOMAIN lists :
              /\ lists[i] # Over /\ lists'[i] # Over
              /\ lists'[i].rows = stored /\ lists'[i].lowers = lists[i].lowers
              /\ \A j \in DOMAIN lists \ {i} : lists'[j] = lists[j]
         /\ DOMAIN lists' = DOMAIN lists /\ Len(lists') = Len(lists)
         /\ UNCHANGED <<name, stored, shown, busy, calls, seen, trouble>>
<1>1. PICK i \in DOMAIN lists :
        lists[i].phase = "sent" /\ lists' = [lists EXCEPT ![i].phase = "ok", ![i].rows = stored]
  BY DEF ServeList
<1>2. lists[i] \in ListKind(s) /\ lists[i] # Over
  <2>1. lists[i] \in {Over} \cup ListKind(s)
    BY ElementOfSeq, LenProperties DEF ScreenTyped
  <2>2. QED
    BY <1>1, <2>1, OverFacts
<1>3. /\ DOMAIN lists' = DOMAIN lists /\ \A j \in DOMAIN lists \ {i} : lists'[j] = lists[j]
      /\ lists'[i].rows = stored /\ lists'[i].lowers = lists[i].lowers /\ lists'[i].phase = "ok"
  BY <1>1, <1>2 DEF ListKind
<1>4. Len(lists') = Len(lists)
  BY <1>1, <1>3, LenProperties DEF ScreenTyped
<1>5. lists'[i] # Over
  BY <1>3 DEF Over
<1>6. QED
  BY <1>2, <1>3, <1>4, <1>5 DEF ServeList

-----------------------------------------------------------------------------
(* Guarded screens.  OneAtATime is not inductive: a handler may hand the   *)
(* flag to the list it waits for, so calls and lists together may hold it  *)
(* once, and it is up as long as one of them does.                         *)
Lowering(l) == l # Over /\ l.lowers
FlagInv ==
  name \in Guarded =>
    /\ \A i, j \in DOMAIN calls : Raised(calls[i]) /\ Raised(calls[j]) => i = j
    /\ \A i, j \in DOMAIN lists : Lowering(lists[i]) /\ Lowering(lists[j]) => i = j
    /\ \A i \in DOMAIN calls, j \in DOMAIN lists : ~(Raised(calls[i]) /\ Lowering(lists[j]))
    /\ \A i \in DOMAIN calls : Raised(calls[i]) => busy # Down
    /\ \A i \in DOMAIN lists : Lowering(lists[i]) => busy # Down

LEMMA FlagInit == Init => FlagInv
<1> SUFFICES ASSUME Init PROVE FlagInv
  OBVIOUS
<1>1. DOMAIN calls = {}
  BY DEF Init
<1>2. \A i \in DOMAIN lists : ~Lowering(lists[i])
  BY DEF Init, FirstList, Asked, Lowering
<1>3. QED
  BY <1>1, <1>2 DEF FlagInv

LEMMA FlagStep ==
  ASSUME ScreenInv, FlagInv, Next
  PROVE  FlagInv'
<1>n. UNCHANGED name
  BY DEF Next, Answers, OpenForm, LeaveForm, Send, ChangeHere, Other, Serve, ServeList, Settle, SettleList
<1> SUFFICES ASSUME name \in Guarded PROVE FlagInv'
  BY <1>n DEF FlagInv
<1>s. PICK s : s = screen /\ IsScreen(s) /\ ScreenTyped(s) /\ s = Described[name] /\ name \in DOMAIN Described
  BY ScreenFacts DEF ScreenInv, screen
<1>g. \A b \in DOMAIN s.buttons : s.buttons[b].busy => s.buttons[b].lock = "flag"
  BY <1>s, GuardedAssumption
<1>o. ~Raised(Over) /\ ~Lowering(Over)
  BY DEF Raised, Lowering, Over
<1>i. /\ \A i, j \in DOMAIN calls : Raised(calls[i]) /\ Raised(calls[j]) => i = j
      /\ \A i, j \in DOMAIN lists : Lowering(lists[i]) /\ Lowering(lists[j]) => i = j
      /\ \A i \in DOMAIN calls, j \in DOMAIN lists : ~(Raised(calls[i]) /\ Lowering(lists[j]))
      /\ \A i \in DOMAIN calls : Raised(calls[i]) => busy # Down
      /\ \A i \in DOMAIN lists : Lowering(lists[i]) => busy # Down
  BY DEF FlagInv
<1>1. CASE OpenForm \/ LeaveForm \/ Other
  BY <1>1, <1>i, <1>n DEF OpenForm, LeaveForm, Other, FlagInv
<1>2. CASE Send
  <2>1. PICK b \in DOMAIN s.buttons, row \in Rows \cup {NoRow}, e \in CallKind(s) :
          /\ s.buttons[b].lock = "flag" => busy = Down
          /\ busy' = IF s.buttons[b].busy THEN row ELSE busy
          /\ e.button.busy = s.buttons[b].busy
          /\ \A i \in DOMAIN calls' : (i \in DOMAIN calls /\ calls'[i] = calls[i])
                                   \/ (i \notin DOMAIN calls /\ calls'[i] = e)
    BY <1>s, <1>2, SendFacts
  <2>2. (\A i, j \in DOMAIN calls' \ DOMAIN calls : i = j) /\ UNCHANGED <<name, lists>>
    BY <1>s, <1>2, SendFacts
  <2>3. Raised(e) => s.buttons[b].busy
    BY <2>1 DEF Raised
  <2>4. CASE ~s.buttons[b].busy
    BY <1>i, <2>1, <2>2, <2>3, <2>4 DEF FlagInv
  <2>5. CASE s.buttons[b].busy
    <3>1. busy = Down /\ busy' # Down
      BY <1>g, <2>1, <2>5, RowFacts
    <3>2. \A i \in DOMAIN calls : ~Raised(calls[i])
      BY <1>i, <3>1
    <3>3. \A i \in DOMAIN lists : ~Lowering(lists[i])
      BY <1>i, <3>1
    <3>4. QED
      BY <2>1, <2>2, <3>1, <3>2, <3>3 DEF FlagInv
  <2>6. QED
    BY <2>4, <2>5
<1>3. CASE ChangeHere
  <2>1. calls' = Append(calls, Over) /\ UNCHANGED <<name, busy, lists>>
    BY <1>3 DEF ChangeHere
  <2>2. \A i \in DOMAIN calls' : (i \in DOMAIN calls /\ calls'[i] = calls[i]) \/ calls'[i] = Over
    BY <1>s, <2>1, CallAdded
  <2>3. QED
    BY <1>i, <1>o, <2>1, <2>2 DEF FlagInv
<1>4. CASE Serve
  <2>1. PICK i \in DOMAIN calls, p \in {"ok", "lost"} :
          /\ calls[i].phase = "sent" /\ calls'[i].button = calls[i].button
          /\ \A j \in DOMAIN calls \ {i} : calls'[j] = calls[j]
    BY <1>s, <1>4, ServeFacts
  <2>2. DOMAIN calls' = DOMAIN calls /\ UNCHANGED <<name, busy, lists>>
    BY <1>s, <1>4, ServeFacts
  <2>3. \A j \in DOMAIN calls : Raised(calls'[j]) => Raised(calls[j])
    BY <2>1 DEF Raised
  <2>4. QED
    BY <1>i, <2>2, <2>3 DEF FlagInv
<1>5. CASE ServeList
  <2>1. PICK i \in DOMAIN lists :
          /\ lists[i] # Over /\ lists'[i].lowers = lists[i].lowers
          /\ \A j \in DOMAIN lists \ {i} : lists'[j] = lists[j]
    BY <1>s, <1>5, ServeListFacts
  <2>2. DOMAIN lists' = DOMAIN lists /\ UNCHANGED <<name, busy, calls>>
    BY <1>s, <1>5, ServeListFacts
  <2>3. \A j \in DOMAIN lists : Lowering(lists'[j]) => Lowering(lists[j])
    BY <2>1 DEF Lowering
  <2>4. QED
    BY <1>i, <2>2, <2>3 DEF FlagInv
<1>6. ASSUME NEW i \in DOMAIN calls, NEW phase \in Outcomes, Settle(i, phase) PROVE FlagInv'
  <2> DEFINE b == calls[i].button
             does == Outcome(b, phase)
  <2>1. /\ Ending(calls[i], phase)
        /\ lists' = Relisted(b, does) /\ calls' = [calls EXCEPT ![i] = Over]
        /\ busy' = IF b.busy /\ phase \in b.frees /\ ~("wait" \in does) THEN Down ELSE busy
    BY <1>6, SettleFacts
  <2>2. calls[i] \in CallKind(s) /\ calls[i].phase # "over" /\ b \in ButtonKind(s) /\ b.busy \in BOOLEAN
    <3>1. calls[i] \in CallKind(s)
      BY <1>s, <2>1, CallEnds
    <3>2. QED
      BY <3>1 DEF CallKind, ButtonKind
  <2>3. /\ DOMAIN calls' = DOMAIN calls /\ ~Raised(calls'[i])
        /\ \A j \in DOMAIN calls \ {i} : calls'[j] = calls[j]
    BY <1>o, <2>1
  <2>4. \A j \in DOMAIN lists' : \/ j \in DOMAIN lists /\ lists'[j] = lists[j]
                                 \/ j = Len(lists) + 1 /\ (Lowering(lists'[j]) => "wait" \in does /\ b.busy)
    <3>1. PICK h \in ButtonKind(s), d \in {does} : lists' = Relisted(h, d) /\ h = b
      BY <2>1, <2>2
    <3>0. \/ Relisted(h, d) = lists
          \/ \E l \in ListKind(s) : NewList(h, d, l) /\ Relisted(h, d) = Append(lists, l)
      BY <1>s, RelistedFacts
    <3>2. lists' = lists \/ \E l \in ListKind(s) : (l.lowers => "wait" \in d /\ h.busy) /\ lists' = Append(lists, l)
      BY <3>0, <3>1 DEF NewList
    <3>3. QED
      BY <1>s, <3>1, <3>2, ListAdded DEF Lowering
  <2>5. CASE b.busy
    <3>1. Raised(calls[i]) /\ busy # Down
      BY <1>i, <2>2, <2>5 DEF Raised
    <3>2. \A j \in DOMAIN calls : ~Raised(calls'[j])
      BY <1>i, <2>3, <3>1
    <3>3. \A j \in DOMAIN lists : ~Lowering(lists[j])
      BY <1>i, <3>1
    <3>4. \A j \in DOMAIN lists' : Lowering(lists'[j]) => j = Len(lists) + 1 /\ "wait" \in does
      BY <2>4, <3>3
    <3>5. "wait" \in does => busy' # Down
      BY <2>1, <3>1
    <3> HIDE DEF b, does
    <3>6. QED
      BY <1>n, <2>3, <3>2, <3>4, <3>5 DEF FlagInv
  <2>6. CASE ~b.busy
    <3>1. busy' = busy
      BY <2>1, <2>6
    <3>2. \A j \in DOMAIN lists' : Lowering(lists'[j]) => j \in DOMAIN lists /\ lists'[j] = lists[j]
      BY <2>4, <2>6
    <3> HIDE DEF b, does
    <3>3. QED
      BY <1>n, <1>i, <2>3, <3>1, <3>2 DEF FlagInv
  <2>7. QED
    BY <2>2, <2>5, <2>6
<1>7. ASSUME NEW i \in DOMAIN lists, NEW phase \in Outcomes, SettleList(i, phase) PROVE FlagInv'
  <2>1. /\ Ending(lists[i], phase) /\ busy' = IF lists[i].lowers THEN Down ELSE busy
        /\ lists' = [lists EXCEPT ![i] = Over] /\ UNCHANGED <<name, calls>>
    BY <1>7, SettleListFacts
  <2>2. lists[i] # Over /\ lists[i].lowers \in BOOLEAN
    <3>1. lists[i] \in ListKind(s) /\ lists[i] # Over
      BY <1>s, <2>1, ListEnds
    <3>2. QED
      BY <3>1 DEF ListKind
  <2>3. /\ DOMAIN lists' = DOMAIN lists /\ ~Lowering(lists'[i])
        /\ \A j \in DOMAIN lists \ {i} : lists'[j] = lists[j]
    BY <1>o, <2>1
  <2>4. CASE lists[i].lowers
    <3>1. Lowering(lists[i])
      BY <2>2, <2>4 DEF Lowering
    <3>2. (\A j \in DOMAIN lists : ~Lowering(lists'[j])) /\ \A j \in DOMAIN calls : ~Raised(calls[j])
      BY <1>i, <2>3, <3>1
    <3>3. QED
      BY <2>1, <2>3, <3>2 DEF FlagInv
  <2>5. CASE ~lists[i].lowers
    BY <1>i, <2>1, <2>3, <2>5 DEF FlagInv
  <2>6. QED
    BY <2>2, <2>4, <2>5
<1>8. QED
  BY <1>1, <1>2, <1>3, <1>4, <1>5, <1>6, <1>7 DEF Next, Answers

LEMMA FlagHeldOnce ==
  ASSUME ScreenInv, FlagInv
  PROVE  OneAtATime
<1> SUFFICES ASSUME name \in Guarded PROVE Cardinality({i \in DOMAIN calls : Raised(calls[i])}) <= 1
  BY DEF OneAtATime
<1> DEFINE holding == {i \in DOMAIN calls : Raised(calls[i])}
<1>1. CASE holding = {}
  BY <1>1, FS_EmptySet
<1>2. CASE holding # {}
  <2>1. PICK i \in holding : TRUE
    BY <1>2
  <2>2. holding = {i}
    BY <2>1 DEF FlagInv
  <2>3. QED
    <3>1. Cardinality({i}) = 1
      BY FS_Singleton
    <3>2. QED
      BY <2>2, <3>1
<1>3. QED
  BY <1>1, <1>2

-----------------------------------------------------------------------------
(* Refetching screens.  ShowsTheTable is not inductive: while no call that *)
(* was carried out waits for its handler, the list asked for last, once    *)
(* the server has given it, holds the table, and so does the screen when   *)
(* that list is the one settled last.                                      *)
LastList ==
  /\ \A i \in DOMAIN lists : i = Len(lists) /\ lists[i].phase = "ok" => lists[i].rows = stored
  /\ seen.ok /\ seen.list = Len(lists) => shown = stored
Unheard == trouble = 0 /\ \A i \in DOMAIN calls : calls[i].phase # "ok"
RefetchInv ==
  name \in Refetching =>
    /\ \A i \in DOMAIN calls : calls[i] # Over =>
         /\ "list" \in calls[i].button.ok
         /\ "put" \notin calls[i].button.ok \cup calls[i].button.no \cup calls[i].button.lost
    /\ Unheard => LastList

LEMMA RefetchInit == Init => RefetchInv
<1> SUFFICES ASSUME Init PROVE RefetchInv
  OBVIOUS
<1>1. DOMAIN calls = {} /\ seen.ok = FALSE
  BY DEF Init
<1>2. \A i \in DOMAIN lists : lists[i].phase = "sent"
  BY DEF Init, FirstList, Asked
<1>3. QED
  BY <1>1, <1>2 DEF RefetchInv, LastList

LEMMA RefetchStep ==
  ASSUME ScreenInv, RefetchInv, Next
  PROVE  RefetchInv'
<1>n. UNCHANGED name
  BY DEF Next, Answers, OpenForm, LeaveForm, Send, ChangeHere, Other, Serve, ServeList, Settle, SettleList
<1> SUFFICES ASSUME name \in Refetching PROVE RefetchInv'
  BY <1>n DEF RefetchInv
<1>s. PICK s : s = screen /\ IsScreen(s) /\ ScreenTyped(s) /\ s = Described[name] /\ name \in DOMAIN Described
  BY ScreenFacts DEF ScreenInv, screen
<1>b. /\ s.list.empty = "show"
      /\ \A b \in DOMAIN s.buttons : /\ "list" \in s.buttons[b].ok
                                    /\ "put" \notin s.buttons[b].ok \cup s.buttons[b].no \cup s.buttons[b].lost
  BY <1>s, RefetchingAssumption
<1>i. /\ \A i \in DOMAIN calls : calls[i] # Over =>
           /\ "list" \in calls[i].button.ok
           /\ "put" \notin calls[i].button.ok \cup calls[i].button.no \cup calls[i].button.lost
      /\ Unheard => LastList
  BY DEF RefetchInv
<1>o. Over.phase = "over"
  BY DEF Over
<1>1. CASE OpenForm \/ LeaveForm
  <2>1. UNCHANGED <<name, stored, shown, calls, lists, seen, trouble>>
    BY <1>1 DEF OpenForm, LeaveForm
  <2>2. QED
    BY <1>i, <2>1 DEF RefetchInv, Unheard, LastList
<1>2. CASE Send
  <2>1. PICK b \in DOMAIN s.buttons, e \in CallKind(s) :
          /\ e.phase = "sent" /\ e.button.ok = s.buttons[b].ok
          /\ e.button.no = s.buttons[b].no /\ e.button.lost = s.buttons[b].lost
          /\ \A i \in DOMAIN calls' : (i \in DOMAIN calls /\ calls'[i] = calls[i])
                                   \/ (i \notin DOMAIN calls /\ calls'[i] = e)
    BY <1>s, <1>2, SendFacts
  <2>2. DOMAIN calls \subseteq DOMAIN calls' /\ UNCHANGED <<name, stored, shown, lists, seen, trouble>>
    BY <1>s, <1>2, SendFacts
  <2>3. Unheard' => Unheard
    BY <2>1, <2>2 DEF Unheard
  <2>4. QED
    BY <1>b, <1>i, <2>1, <2>2, <2>3 DEF RefetchInv, LastList
<1>3. CASE ChangeHere
  <2>1. calls' = Append(calls, Over) /\ UNCHANGED <<name, stored, shown, lists, seen, trouble>>
    BY <1>3, <1>s, <1>b DEF ChangeHere, Buttons
  <2>2. /\ \A i \in DOMAIN calls' : (i \in DOMAIN calls /\ calls'[i] = calls[i]) \/ calls'[i] = Over
        /\ DOMAIN calls \subseteq DOMAIN calls' /\ \A i \in DOMAIN calls : calls'[i] = calls[i]
    <3> DEFINE K == {Over} \cup CallKind(s)
    <3>1. calls \in Seq(K) /\ Over \in K
      BY <1>s DEF ScreenTyped
    <3> HIDE DEF K
    <3>2. QED
      BY <2>1, <3>1, Added
  <2>3. Unheard' => Unheard
    BY <2>1, <2>2 DEF Unheard
  <2>4. QED
    BY <1>i, <2>1, <2>2, <2>3 DEF RefetchInv, LastList
<1>4. CASE Serve
  <2>1. PICK i \in DOMAIN calls, p \in {"ok", "lost"} :
          /\ calls[i] # Over /\ calls'[i].phase = p /\ calls'[i].button = calls[i].button
          /\ \A j \in DOMAIN calls \ {i} : calls'[j] = calls[j]
          /\ p = "lost" => trouble' # 0
    BY <1>s, <1>4, ServeFacts
  <2>2. DOMAIN calls' = DOMAIN calls /\ UNCHANGED name
    BY <1>s, <1>4, ServeFacts
  <2>3. ~Unheard'
    BY <2>1, <2>2 DEF Unheard
  <2>4. QED
    BY <1>i, <2>1, <2>2, <2>3 DEF RefetchInv
<1>5. CASE ServeList
  <2>1. PICK i \in DOMAIN lists : lists'[i].rows = stored /\ \A j \in DOMAIN lists \ {i} : lists'[j] = lists[j]
    BY <1>s, <1>5, ServeListFacts
  <2>2. /\ DOMAIN lists' = DOMAIN lists /\ Len(lists') = Len(lists)
        /\ UNCHANGED <<name, stored, shown, calls, seen, trouble>>
    BY <1>s, <1>5, ServeListFacts
  <2>3. LastList => LastList'
    BY <2>1, <2>2 DEF LastList
  <2>4. QED
    BY <1>i, <2>2, <2>3 DEF RefetchInv, Unheard
<1>6. CASE Other
  <2>1. trouble' # 0 /\ UNCHANGED <<name, calls>>
    BY <1>6, <1>s, TroubleFacts DEF Other, ScreenTyped
  <2>2. QED
    BY <1>i, <2>1 DEF RefetchInv, Unheard
<1>7. ASSUME NEW i \in DOMAIN calls, NEW phase \in Outcomes, Settle(i, phase) PROVE RefetchInv'
  <2> DEFINE b == calls[i].button
             does == Outcome(b, phase)
  <2>1. /\ Ending(calls[i], phase)
        /\ shown' = IF "put" \in does THEN Shows(calls[i], phase) ELSE shown
        /\ lists' = Relisted(b, does) /\ calls' = [calls EXCEPT ![i] = Over]
        /\ UNCHANGED <<name, stored, seen>>
    BY <1>7, SettleFacts
  <2>2. /\ b \in ButtonKind(s) /\ calls[i] # Over
        /\ calls[i].phase # "sent" => phase = calls[i].phase
    <3>1. /\ calls[i] \in CallKind(s) /\ calls[i] # Over
          /\ calls[i].phase # "sent" => phase = calls[i].phase
      BY <1>s, <2>1, CallEnds
    <3>2. QED
      BY <3>1 DEF CallKind
  <2>3. shown' = shown /\ (phase = "ok" => "list" \in does)
    BY <1>i, <2>1, <2>2 DEF Outcome
  <2>4. /\ DOMAIN calls' = DOMAIN calls /\ calls'[i] = Over
        /\ \A j \in DOMAIN calls \ {i} : calls'[j] = calls[j]
    BY <2>1
  <2>5. trouble' = 0 => trouble = 0
    BY <1>s, <2>1, TroubleFacts DEF Ending, ScreenTyped
  <2>6. CASE "list" \in does
    <3>1. PICK h \in ButtonKind(s), d \in {does} : lists' = Relisted(h, d)
      BY <2>1, <2>2
    <3>2. "list" \in d => \E l \in ListKind(s) : NewList(h, d, l) /\ Relisted(h, d) = Append(lists, l)
      BY <1>s, RelistedFacts
    <3>3. PICK l \in ListKind(s) : l.phase = "sent" /\ lists' = Append(lists, l)
      BY <2>6, <3>1, <3>2 DEF NewList
    <3>4. /\ \A j \in DOMAIN lists' : (j \in DOMAIN lists /\ lists'[j] = lists[j]) \/ (j = Len(lists) + 1 /\ lists'[j] = l)
          /\ Len(lists') = Len(lists) + 1 /\ Len(lists) \in Nat
      BY <1>s, <3>3, ListAdded
    <3>5. DOMAIN lists = 1 .. Len(lists) /\ seen.list \in Nat /\ seen.list <= Len(lists)
      BY <1>s, LenProperties DEF ScreenTyped
    <3>6. LastList'
      BY <2>1, <3>3, <3>4, <3>5 DEF LastList
    <3>7. QED
      BY <1>i, <2>1, <2>4, <3>6 DEF RefetchInv
  <2>7. CASE "list" \notin does
    <3>1. lists' = lists
      BY <2>1, <2>7 DEF Relisted
    <3>2. Unheard' => Unheard
      BY <2>2, <2>3, <2>4, <2>5, <2>7 DEF Unheard
    <3>3. LastList => LastList'
      BY <2>1, <2>3, <3>1 DEF LastList
    <3>4. QED
      BY <1>i, <2>1, <2>4, <3>2, <3>3 DEF RefetchInv
  <2>8. QED
    BY <2>6, <2>7
<1>8. ASSUME NEW i \in DOMAIN lists, NEW phase \in Outcomes, SettleList(i, phase) PROVE RefetchInv'
  <2>1. /\ Ending(lists[i], phase)
        /\ phase = "ok" => shown' = lists[i].rows
        /\ seen' = [list |-> i, ok |-> phase = "ok"]
        /\ lists' = [lists EXCEPT ![i] = Over] /\ UNCHANGED <<name, stored, calls>>
    BY <1>8, <1>b, <1>s, SettleListFacts
  <2>2. phase = "ok" => lists[i].phase = "ok"
    BY <1>s, <2>1, ListEnds
  <2>3. /\ DOMAIN lists' = DOMAIN lists /\ lists'[i] = Over /\ Len(lists') = Len(lists)
        /\ \A j \in DOMAIN lists \ {i} : lists'[j] = lists[j]
    <3> DEFINE K == {Over} \cup ListKind(s)
    <3>1. Over \in K /\ lists \in Seq(K)
      BY <1>s DEF ScreenTyped
    <3> HIDE DEF K
    <3>2. QED
      BY <2>1, <3>1, SeqSet
  <2>4. Unheard' => Unheard
    <3>1. trouble' = 0 => trouble = 0
      BY <1>s, <2>1, TroubleFacts DEF Ending, ScreenTyped
    <3>2. QED
      BY <2>1, <3>1 DEF Unheard
  <2>5. LastList => LastList'
    BY <1>o, <2>1, <2>2, <2>3 DEF LastList
  <2>6. QED
    BY <1>i, <2>1, <2>4, <2>5 DEF RefetchInv
<1>9. QED
  BY <1>1, <1>2, <1>3, <1>4, <1>5, <1>6, <1>7, <1>8 DEF Next, Answers

LEMMA RefetchedTable ==
  ASSUME RefetchInv
  PROVE  ShowsTheTable
BY DEF RefetchInv, Unheard, LastList, ShowsTheTable, Quiet, Over

-----------------------------------------------------------------------------
(* The session.  ViewOfSession is not inductive: while a sign-in waits for *)
(* its event, the user in the storage must already be the token's, and an  *)
(* account that handlers sign in must be one that can.                     *)
Tokens == [account : Accounts, must : BOOLEAN]
RequestKind ==
  {h \in [handler : Handlers, account : Accounts \cup {Nobody}, bearer : Tokens \cup {Nobody},
          phase : {"sent", "again", "due", Past}, gone : BOOLEAN] :
     h.handler \in {"login", "confirm", "verify"} => h.account \in Accounts}
SessionTyped ==
  /\ view \in {"auth", "super-admin", "dashboard"}
  /\ token \in Tokens \cup {Nobody}
  /\ user \in Accounts \cup {Nobody} /\ pending \in TwoFactor \cup {Nobody}
  /\ setup \in BOOLEAN /\ mixed \in BOOLEAN /\ step \in {1, 2}
  /\ mode \in {"selection", "signup", "otp-confirm", "login"}
  /\ raised \subseteq IF view = "auth" THEN Wizard ELSE Dialogs
  /\ temporary \subseteq Starting
  /\ sent \in Seq(RequestKind) /\ Len(sent) <= MaxSent
OwnUser == token # Nobody /\ ~mixed => user = Holder
SessionInv == SessionTyped /\ OwnUser /\ ViewOfSession

LEMMA TokenFacts ==
  /\ Nobody \notin Accounts /\ MaxSent \in Nat
  /\ TwoFactor \subseteq Accounts /\ Starting \subseteq Accounts /\ Joining \subseteq Accounts
BY AccountsAssumption

LEMMA SessionTypes == SessionTyped => SessionTypeOK
BY DEF SessionTyped, SessionTypeOK, Tokens

LEMMA SessionStart == SessionInit => SessionInv
<1> SUFFICES ASSUME SessionInit PROVE SessionInv
  OBVIOUS
<1>1. SessionTyped
  <2>1. sent \in Seq(RequestKind) /\ Len(sent) = 0
    BY EmptySeq DEF SessionInit
  <2>2. Len(sent) <= MaxSent
    BY <2>1, TokenFacts
  <2>3. QED
    BY <2>1, <2>2 DEF SessionInit, SessionTyped
<1>2. OwnUser /\ ViewOfSession
  BY DEF SessionInit, OwnUser, ViewOfSession
<1>3. QED
  BY <1>1, <1>2 DEF SessionInv

(* The handlers' requests after one was added, or has gone on or over.     *)
LEMMA RequestFacts ==
  ASSUME SessionTyped
  PROVE  /\ \A i \in DOMAIN sent : sent[i] \in RequestKind
         /\ \A h \in RequestKind : Append(sent, h) \in Seq(RequestKind) /\ Len(Append(sent, h)) = Len(sent) + 1
         /\ \A q : DOMAIN q = DOMAIN sent /\ (\A i \in DOMAIN sent : q[i] \in RequestKind)
                    /\ q = [i \in DOMAIN sent |-> q[i]]
                  => q \in Seq(RequestKind) /\ Len(q) = Len(sent)
<1>1. sent \in Seq(RequestKind) /\ Len(sent) \in Nat /\ DOMAIN sent = 1 .. Len(sent)
  BY LenProperties DEF SessionTyped
<1>2. \A i \in DOMAIN sent : sent[i] \in RequestKind
  BY <1>1, ElementOfSeq
<1>3. ASSUME NEW h \in RequestKind PROVE Append(sent, h) \in Seq(RequestKind) /\ Len(Append(sent, h)) = Len(sent) + 1
  BY <1>1, SeqAdd
<1>4. ASSUME NEW q, DOMAIN q = DOMAIN sent, \A i \in DOMAIN sent : q[i] \in RequestKind,
             q = [i \in DOMAIN sent |-> q[i]]
      PROVE  q \in Seq(RequestKind) /\ Len(q) = Len(sent)
  <2>1. q \in [1 .. Len(sent) -> RequestKind]
    BY <1>1, <1>4
  <2>2. q \in Seq(RequestKind)
    BY <1>1, <2>1, SeqDef
  <2>3. QED
    BY <1>1, <1>4, <2>2, LenProperties
<1>5. QED
  BY <1>2, <1>3, <1>4

LEMMA GoesFacts ==
  ASSUME SessionTyped, NEW i \in DOMAIN sent, NEW phase \in {"sent", "again", "due", Past}
  PROVE  /\ Goes(i, phase) \in Seq(RequestKind) /\ Len(Goes(i, phase)) = Len(sent)
         /\ DOMAIN Goes(i, phase) = DOMAIN sent
         /\ \A j \in DOMAIN sent : Goes(i, phase)[j].phase = IF j = i THEN phase ELSE sent[j].phase
<1> DEFINE q == Goes(i, phase)
<1>1. DOMAIN q = DOMAIN sent /\ q = [j \in DOMAIN sent |-> q[j]]
  BY DEF Goes
<1>2. \A j \in DOMAIN sent : /\ sent[j] \in RequestKind
                             /\ q[j] = IF j = i THEN [sent[i] EXCEPT !.phase = phase] ELSE sent[j]
  BY RequestFacts DEF Goes
<1>3. [sent[i] EXCEPT !.phase = phase] \in RequestKind /\ [sent[i] EXCEPT !.phase = phase].phase = phase
  BY <1>2 DEF RequestKind
<1> HIDE DEF q
<1>4. \A j \in DOMAIN sent : q[j] \in RequestKind /\ q[j].phase = IF j = i THEN phase ELSE sent[j].phase
  BY <1>2, <1>3
<1>5. q \in Seq(RequestKind) /\ Len(q) = Len(sent)
  BY <1>1, <1>4, RequestFacts
<1>6. QED
  BY <1>1, <1>4, <1>5 DEF q

(* A component that leaves the screen changes no phase.                    *)
LEMMA AbandonedFacts ==
  ASSUME SessionTyped, NEW v, NEW q \in Seq(RequestKind), Len(q) = Len(sent)
  PROVE  /\ Abandoned(v, q) \in Seq(RequestKind) /\ Len(Abandoned(v, q)) = Len(sent)
         /\ DOMAIN Abandoned(v, q) = DOMAIN q /\ DOMAIN q = DOMAIN sent
         /\ \A j \in DOMAIN q : Abandoned(v, q)[j].phase = q[j].phase
<1>1. DOMAIN q = DOMAIN sent /\ \A j \in DOMAIN q : q[j] \in RequestKind
  BY LenProperties, ElementOfSeq DEF SessionTyped
<1> DEFINE a == Abandoned(v, q)
<1>2. /\ DOMAIN a = DOMAIN sent /\ a = [j \in DOMAIN sent |-> a[j]]
      /\ \A j \in DOMAIN q : a[j] = q[j] \/ a[j] = [q[j] EXCEPT !.gone = TRUE]
  BY <1>1 DEF Abandoned
<1>3. \A h \in RequestKind : [h EXCEPT !.gone = TRUE] \in RequestKind /\ [h EXCEPT !.gone = TRUE].phase = h.phase
  BY DEF RequestKind
<1> HIDE DEF a
<1>4. \A j \in DOMAIN sent : a[j] \in RequestKind /\ a[j].phase = q[j].phase
  BY <1>1, <1>2, <1>3
<1>5. a \in Seq(RequestKind) /\ Len(a) = Len(sent)
  BY <1>2, <1>4, RequestFacts
<1>6. QED
  BY <1>1, <1>2, <1>4, <1>5 DEF a

LEMMA ShowFacts ==
  ASSUME SessionTyped, NEW v \in {"auth", "super-admin", "dashboard"},
         NEW q \in Seq(RequestKind), Len(q) = Len(sent), NEW flags \in SUBSET raised, Show(v, q, flags)
  PROVE  /\ view' = v /\ mode' \in {"selection", "signup", "otp-confirm", "login"}
         /\ pending' \in TwoFactor \cup {Nobody} /\ step' \in {1, 2}
         /\ raised' \subseteq IF view' = "auth" THEN Wizard ELSE Dialogs
         /\ sent' \in Seq(RequestKind) /\ Len(sent') = Len(sent) /\ DOMAIN sent' = DOMAIN sent
         /\ \A j \in DOMAIN sent : sent'[j].phase = q[j].phase
<1>1. raised \subseteq IF view = "auth" THEN Wizard ELSE Dialogs
  BY DEF SessionTyped
<1>2. view' = v /\ sent' = Abandoned(v, q) /\ raised' = flags \ Leaving(v)
  BY DEF Show
<1>3. raised' \subseteq IF view' = "auth" THEN Wizard ELSE Dialogs
  <2>1. CASE view = "auth" /\ v # "auth"
    BY <1>1, <1>2, <2>1 DEF Leaving
  <2>2. CASE view # "auth" /\ v = "auth"
    BY <1>1, <1>2, <2>2 DEF Leaving, Dialogs
  <2>3. CASE (view = "auth") = (v = "auth")
    BY <1>1, <1>2, <2>3
  <2>4. QED
    BY <2>1, <2>2, <2>3
<1>4. /\ sent' \in Seq(RequestKind) /\ Len(sent') = Len(sent) /\ DOMAIN sent' = DOMAIN sent
      /\ \A j \in DOMAIN sent : sent'[j].phase = q[j].phase
  BY <1>2, AbandonedFacts
<1>5. QED
  BY <1>2, <1>3, <1>4 DEF Show, SessionTyped

(* The handler of request i goes on, and the view stays.                   *)
LEMMA AnswerFacts ==
  ASSUME SessionTyped, NEW i \in DOMAIN sent, NEW p \in {"sent", "again", "due", Past},
         sent' = Goes(i, p), raised' \subseteq raised, UNCHANGED view
  PROVE  /\ raised' \subseteq IF view' = "auth" THEN Wizard ELSE Dialogs
         /\ sent' \in Seq(RequestKind) /\ Len(sent') <= MaxSent /\ DOMAIN sent' = DOMAIN sent
         /\ \A j \in DOMAIN sent : sent'[j].phase = IF j = i THEN p ELSE sent[j].phase
BY GoesFacts DEF SessionTyped

LEMMA LoweredFacts ==
  ASSUME NEW i
  PROVE  Lowered(i) \subseteq raised
BY DEF Lowered

(* The session and the view stay, and what is due stays due.               *)
LEMMA SameView ==
  ASSUME OwnUser, ViewOfSession, UNCHANGED <<view, token, user, setup, mixed>>,
         \A j \in DOMAIN sent : j \in DOMAIN sent' /\ (sent[j].phase = "due" => sent'[j].phase = "due")
  PROVE  OwnUser' /\ ViewOfSession'
<1>1. Holder' = Holder
  BY DEF Holder
<1>2. OwnUser'
  BY <1>1 DEF OwnUser
<1>3. (\A j \in DOMAIN sent' : ~Due(j)') => \A j \in DOMAIN sent : ~Due(j)
  BY DEF Due
<1>4. ViewOfSession'
  BY <1>1, <1>3 DEF ViewOfSession, Home
<1>5. QED
  BY <1>2, <1>4

LEMMA SessionUser ==
  ASSUME SessionInv, Reload \/ Logout \/ Browse \/ Press
  PROVE  SessionInv'
<1>1. CASE Reload
  <2>1. /\ sent' = [i \in DOMAIN sent |-> [sent[i] EXCEPT !.phase = Past]]
        /\ view' = IF Stored THEN StoredView ELSE "auth"
        /\ setup' = MustSetUp /\ step' = 1 /\ mode' = "selection" /\ pending' = Nobody /\ raised' = {}
        /\ UNCHANGED <<token, user, temporary, mixed>>
    BY <1>1 DEF Reload
  <2>2. \A j \in DOMAIN sent : [sent[j] EXCEPT !.phase = Past] \in RequestKind
    BY RequestFacts DEF RequestKind, SessionInv
  <2>3. DOMAIN sent' = DOMAIN sent /\ \A j \in DOMAIN sent : sent'[j] = [sent[j] EXCEPT !.phase = Past]
    BY <2>1
  <2>4. sent' \in Seq(RequestKind) /\ Len(sent') = Len(sent)
    <3>1. sent' = [j \in DOMAIN sent |-> sent'[j]]
      BY <2>1
    <3>2. QED
      BY <2>2, <2>3, <3>1, RequestFacts DEF SessionInv
  <2>5. view' \in {"auth", "super-admin", "dashboard"} /\ setup' \in BOOLEAN
    BY <2>1 DEF StoredView, Home, MustSetUp, SessionInv, SessionTyped, Stored, Tokens
  <2>6. SessionTyped'
    BY <2>1, <2>4, <2>5 DEF SessionInv, SessionTyped
  <2>7. OwnUser' /\ Holder' = Holder
    BY <2>1 DEF SessionInv, OwnUser, Holder
  <2>8. ASSUME token' # Nobody, ~mixed' PROVE user' = Holder' /\ view' = Home({Holder'}) /\ (token'.must => setup')
    <3>1. user = Holder /\ Holder \in Accounts
      BY <2>1, <2>8 DEF SessionInv, SessionTyped, OwnUser, Holder, Tokens
    <3>2. Stored /\ {Holder, user} = {Holder}
      BY <2>1, <2>8, <3>1, TokenFacts DEF Stored
    <3>3. QED
      BY <2>1, <2>7, <3>1, <3>2 DEF StoredView, MustSetUp
  <2>9. ViewOfSession'
    BY <2>8 DEF ViewOfSession, Home
  <2>10. QED
    BY <2>6, <2>7, <2>9 DEF SessionInv
<1>2. CASE Logout
  <2>1. /\ token' = Nobody /\ user' = Nobody /\ mixed' = FALSE /\ UNCHANGED <<setup, temporary>>
        /\ Show("auth", sent, raised)
    BY <1>2 DEF Logout
  <2>2. SessionTyped'
    BY <2>1, ShowFacts DEF SessionInv, SessionTyped
  <2>3. QED
    BY <2>1, <2>2 DEF SessionInv, OwnUser, ViewOfSession
<1>3. CASE Browse
  <2>1. SessionTyped'
    BY <1>3 DEF SessionInv, SessionTyped, Browse
  <2>2. QED
    BY <1>3, <2>1, SameView DEF SessionInv, Browse
<1>4. CASE Press
  <2>1. PICK handler \in Handlers, a \in Accounts \cup {Nobody} :
          /\ (handler \in Wizard) = (view = "auth") /\ Ready(handler, a)
          /\ sent' = Append(sent, [handler |-> handler, account |-> a, bearer |-> token,
                                   phase |-> "sent", gone |-> FALSE])
          /\ raised' = IF handler = "api" THEN raised ELSE raised \cup {handler}
    BY <1>4 DEF Press
  <2>2. /\ Len(sent) < MaxSent
        /\ UNCHANGED <<view, token, user, setup, step, mode, pending, temporary, mixed>>
    BY <1>4 DEF Press
  <2> DEFINE h == [handler |-> handler, account |-> a, bearer |-> token, phase |-> "sent", gone |-> FALSE]
  <2>3. handler \in {"login", "confirm", "verify"} => a \in Accounts
    BY <2>1, TokenFacts DEF Ready, SessionInv, SessionTyped
  <2>4. h \in RequestKind
    BY <2>3 DEF RequestKind, SessionInv, SessionTyped
  <2>5. sent' = Append(sent, h) /\ sent \in Seq(RequestKind)
    BY <2>1 DEF SessionInv, SessionTyped
  <2> HIDE DEF h
  <2>6. sent' \in Seq(RequestKind) /\ Len(sent') <= MaxSent
    BY <2>2, <2>4, <2>5, SeqAdd, TokenFacts
  <2>7. raised' \subseteq IF view' = "auth" THEN Wizard ELSE Dialogs
    BY <2>1, <2>2 DEF SessionInv, SessionTyped, Handlers
  <2>8. SessionTyped'
    BY <2>2, <2>6, <2>7 DEF SessionInv, SessionTyped
  <2>9. \A j \in DOMAIN sent : j \in DOMAIN sent' /\ sent'[j] = sent[j]
    BY <2>4, <2>5, Added
  <2>10. QED
    BY <2>2, <2>8, <2>9, SameView DEF SessionInv
<1>5. QED
  BY <1>1, <1>2, <1>3, <1>4

LEMMA SessionAnswer ==
  ASSUME SessionInv, SessionAnswers
  PROVE  SessionInv'
<1>1. PICK i \in DOMAIN sent :
        \/ Refused(i) \/ Unauthorized(i) \/ Registered(i) \/ Confirmed(i) \/ AsksCode(i)
        \/ SignedIn(i) \/ Announced(i) \/ Joined(i) \/ SecondFactorSet(i) \/ PasswordChanged(i)
        \/ SetupNotLoaded(i) \/ Answered(i)
  BY DEF SessionAnswers
<1>h. sent[i] \in RequestKind
  BY RequestFacts DEF SessionInv
<1>l. Lowered(i) \subseteq raised
  BY LoweredFacts
(* The handlers that leave the session and the view.                       *)
<1>2. ASSUME UNCHANGED <<view, token, user, setup, mixed>>, sent[i].phase # "due",
             NEW p \in {"sent", "again", "due", Past}, sent' = Goes(i, p), raised' \subseteq raised,
             step' \in {1, 2}, pending' \in TwoFactor \cup {Nobody}, temporary' \subseteq Starting,
             mode' \in {"selection", "signup", "otp-confirm", "login"}
      PROVE  SessionInv'
  <2>1. /\ raised' \subseteq IF view' = "auth" THEN Wizard ELSE Dialogs
        /\ sent' \in Seq(RequestKind) /\ Len(sent') <= MaxSent /\ DOMAIN sent' = DOMAIN sent
        /\ \A j \in DOMAIN sent : sent'[j].phase = IF j = i THEN p ELSE sent[j].phase
    BY <1>2, AnswerFacts DEF SessionInv
  <2>2. SessionTyped'
    BY <1>2, <2>1 DEF SessionInv, SessionTyped
  <2>3. QED
    BY <1>2, <2>1, <2>2, SameView DEF SessionInv
<1>3. CASE Refused(i) \/ Answered(i)
  BY <1>2, <1>3, <1>l DEF Refused, Answered, Waiting, Ends, SessionInv, SessionTyped
<1>4. CASE Registered(i)
  BY <1>2, <1>4, <1>l DEF Registered, Waiting, Ends, SessionInv, SessionTyped
<1>5. CASE Confirmed(i)
  BY <1>2, <1>5 DEF Confirmed, SessionInv, SessionTyped
<1>6. CASE AsksCode(i)
  BY <1>2, <1>6, <1>l DEF AsksCode, Waiting, Ends, SessionInv, SessionTyped
<1>7. CASE PasswordChanged(i)
  BY <1>2, <1>7 DEF PasswordChanged, SessionInv, SessionTyped
<1>8. CASE SetupNotLoaded(i)
  BY <1>2, <1>8, <1>l DEF SetupNotLoaded, Ends, SessionInv, SessionTyped
<1>9. CASE Unauthorized(i)
  <2>1. /\ token' = Nobody /\ user' = Nobody /\ mixed' = FALSE /\ sent' = Goes(i, Past) /\ raised' \subseteq raised
        /\ UNCHANGED <<view, setup, step, mode, pending, temporary>>
    BY <1>9, <1>l DEF Unauthorized, Forget, Ends
  <2>2. SessionTyped'
    BY <2>1, AnswerFacts DEF SessionInv, SessionTyped
  <2>3. QED
    BY <2>1, <2>2 DEF SessionInv, OwnUser, ViewOfSession
<1>10. CASE SignedIn(i)
  <2>1. /\ token' = Claims(sent[i].account) /\ user' = sent[i].account /\ mixed' = FALSE
        /\ sent' = Goes(i, "due") /\ raised' \subseteq raised
        /\ UNCHANGED <<view, setup, step, mode, pending, temporary>>
        /\ sent[i].handler \in {"login", "verify"}
    BY <1>10, <1>l DEF SignedIn, Keep
  <2>2. sent[i].account \in Accounts /\ Claims(sent[i].account) \in Tokens
    BY <1>h, <2>1 DEF RequestKind, Claims, Tokens
  <2>3. /\ raised' \subseteq IF view' = "auth" THEN Wizard ELSE Dialogs
        /\ sent' \in Seq(RequestKind) /\ Len(sent') <= MaxSent /\ DOMAIN sent' = DOMAIN sent
        /\ sent'[i].phase = "due"
    BY <2>1, AnswerFacts DEF SessionInv
  <2>4. SessionTyped'
    BY <2>1, <2>2, <2>3 DEF SessionInv, SessionTyped
  <2>5. OwnUser'
    BY <2>1 DEF OwnUser, Holder, Claims
  <2>6. ViewOfSession'
    BY <2>3 DEF ViewOfSession, Due
  <2>7. QED
    BY <2>4, <2>5, <2>6 DEF SessionInv
<1>11. CASE Announced(i)
  <2> DEFINE v == IF Stored THEN StoredView ELSE Home({sent[i].account})
  <2>1. /\ Show(v, Goes(i, Past), raised) /\ setup' = (setup \/ MustSetUp)
        /\ UNCHANGED <<token, user, temporary, mixed>>
    BY <1>11 DEF Announced
  <2>2. v \in {"auth", "super-admin", "dashboard"}
    BY DEF StoredView, Home
  <2>3. Goes(i, Past) \in Seq(RequestKind) /\ Len(Goes(i, Past)) = Len(sent)
    BY GoesFacts DEF SessionInv
  <2>4. view' = v
    BY <2>1 DEF Show
  <2>5. setup' \in BOOLEAN
    BY <2>1 DEF SessionInv, SessionTyped, MustSetUp, Tokens, Stored
  <2>6. SessionTyped'
    <3> HIDE DEF v
    <3>1. /\ view' = v /\ mode' \in {"selection", "signup", "otp-confirm", "login"}
          /\ pending' \in TwoFactor \cup {Nobody} /\ step' \in {1, 2}
          /\ raised' \subseteq IF view' = "auth" THEN Wizard ELSE Dialogs
          /\ sent' \in Seq(RequestKind) /\ Len(sent') = Len(sent)
      BY <2>1, <2>2, <2>3, ShowFacts DEF SessionInv
    <3>2. QED
      BY <2>1, <2>2, <2>5, <3>1 DEF SessionInv, SessionTyped
  <2>7. OwnUser' /\ Holder' = Holder
    BY <2>1 DEF SessionInv, OwnUser, Holder
  <2>8. ASSUME token' # Nobody, ~mixed' PROVE user' = Holder' /\ view' = Home({Holder'}) /\ (token'.must => setup')
    <3>1. user = Holder /\ Holder \in Accounts
      BY <2>1, <2>8 DEF SessionInv, SessionTyped, OwnUser, Holder, Tokens
    <3>2. Stored /\ {Holder, user} = {Holder}
      BY <2>1, <2>8, <3>1, TokenFacts DEF Stored
    <3>3. QED
      BY <2>1, <2>4, <2>7, <3>1, <3>2 DEF StoredView, MustSetUp
  <2>9. ViewOfSession'
    BY <2>8 DEF ViewOfSession, Home
  <2>10. QED
    BY <2>6, <2>7, <2>9 DEF SessionInv
<1>12. CASE Joined(i)
  <2> DEFINE a == sent[i].account
  <2>1. /\ token' = Claims(a) /\ user' = a /\ mixed' = FALSE /\ UNCHANGED temporary
        /\ Show(Home({a}), Goes(i, Past), Lowered(i)) /\ setup' = (setup \/ a \in temporary)
        /\ sent[i].handler = "confirm"
    BY <1>12 DEF Joined, Keep
  <2>2. a \in Accounts /\ Claims(a) \in Tokens /\ Home({a}) \in {"auth", "super-admin", "dashboard"}
    BY <1>h, <2>1 DEF RequestKind, Claims, Tokens, Home
  <2>3. Goes(i, Past) \in Seq(RequestKind) /\ Len(Goes(i, Past)) = Len(sent)
    BY GoesFacts DEF SessionInv
  <2>4. /\ view' = Home({a}) /\ mode' \in {"selection", "signup", "otp-confirm", "login"}
        /\ pending' \in TwoFactor \cup {Nobody} /\ step' \in {1, 2}
        /\ raised' \subseteq IF view' = "auth" THEN Wizard ELSE Dialogs
        /\ sent' \in Seq(RequestKind) /\ Len(sent') = Len(sent)
    BY <1>l, <2>1, <2>2, <2>3, ShowFacts DEF SessionInv
  <2>5. SessionTyped'
    BY <2>1, <2>2, <2>4 DEF SessionInv, SessionTyped
  <2>6. token' # Nobody => Holder' = a /\ token'.must = (a \in temporary)
    BY <2>1 DEF Holder, Claims
  <2>7. OwnUser'
    BY <2>1, <2>6 DEF OwnUser
  <2>8. ViewOfSession'
    BY <2>1, <2>4, <2>6 DEF ViewOfSession, Home
  <2>9. QED
    BY <2>5, <2>7, <2>8 DEF SessionInv
<1>13. CASE SecondFactorSet(i)
  <2>1. /\ sent[i].phase # "due" /\ sent' = Goes(i, Past) /\ raised' \subseteq raised
        /\ user' = sent[i].account /\ mixed' = (mixed \/ sent[i].account # Holder)
        /\ UNCHANGED <<view, token, setup, step, mode, pending, temporary>>
    BY <1>13, <1>l DEF SecondFactorSet, Waiting, Ends
  <2>2. /\ raised' \subseteq IF view' = "auth" THEN Wizard ELSE Dialogs
        /\ sent' \in Seq(RequestKind) /\ Len(sent') <= MaxSent /\ DOMAIN sent' = DOMAIN sent
        /\ \A j \in DOMAIN sent : sent'[j].phase = IF j = i THEN Past ELSE sent[j].phase
    BY <2>1, AnswerFacts DEF SessionInv
  <2>3. SessionTyped'
    BY <1>h, <2>1, <2>2 DEF SessionInv, SessionTyped, RequestKind
  <2>4. ~mixed' => ~mixed /\ user' = Holder
    BY <2>1
  <2>5. Holder' = Holder
    BY <2>1 DEF Holder
  <2>6. (\A j \in DOMAIN sent' : ~Due(j)') => \A j \in DOMAIN sent : ~Due(j)
    BY <2>1, <2>2 DEF Due
  <2>7. OwnUser'
    BY <2>1, <2>4, <2>5 DEF OwnUser
  <2>8. ViewOfSession'
    BY <2>1, <2>4, <2>5, <2>6 DEF ViewOfSession, SessionInv, Home
  <2>9. QED
    BY <2>3, <2>7, <2>8 DEF SessionInv
<1>14. QED
  BY <1>1, <1>3, <1>4, <1>5, <1>6, <1>7, <1>8, <1>9, <1>10, <1>11, <1>12, <1>13

LEMMA SessionStep == SessionInv /\ (SessionNext \/ UNCHANGED session) => SessionInv'
<1>1. ASSUME SessionInv, UNCHANGED session PROVE SessionInv'
  <2>1. SessionTyped'
    BY <1>1 DEF SessionInv, SessionTyped, session
  <2>2. QED
    BY <1>1, <2>1, SameView DEF SessionInv, session
<1>2. QED
  BY <1>1, SessionUser, SessionAnswer DEF SessionNext

-----------------------------------------------------------------------------
(* The theorems.  A step of the tab is one of its screen or of its session.*)
LEMMA TabStep ==
  ASSUME [ClientNext]_clientVars
  PROVE  (Next \/ UNCHANGED vars) /\ (SessionNext \/ UNCHANGED session)
BY DEF ClientNext, OnScreen, InSession, clientVars

LEMMA SameTables ==
  ASSUME UNCHANGED vars
  PROVE  (CandidInv => CandidInv') /\ (FlagInv => FlagInv') /\ (RefetchInv => RefetchInv')
<1>1. CandidInv => CandidInv'
  BY DEF vars, CandidInv
<1>2. FlagInv => FlagInv'
  BY DEF vars, FlagInv
<1>3. RefetchInv => RefetchInv'
  BY DEF vars, RefetchInv, Unheard, LastList
<1>4. QED
  BY <1>1, <1>2, <1>3

ClientInv == ScreenInv /\ CandidInv /\ FlagInv /\ RefetchInv /\ SessionInv

LEMMA ClientInvariant == ClientSpec => []ClientInv
<1>1. ClientInit => ClientInv
  BY ScreenInit, CandidInit, FlagInit, RefetchInit, SessionStart DEF ClientInit, ClientInv
<1>2. ClientInv /\ [ClientNext]_clientVars => ClientInv'
  BY TabStep, ScreenStep, CandidStep, FlagStep, RefetchStep, SameTables, SessionStep DEF ClientInv
<1>3. QED
  BY <1>1, <1>2, PTL DEF ClientSpec

(* The state of a tab has its types: the rows of a screen are rows of its  *)
(* table, the form that is open is one of its own, and a component's flags *)
(* are up only while it is on the screen.                                  *)
THEOREM ClientTypes == ClientSpec => []ClientTypeOK
<1>1. ClientInv => ClientTypeOK
  BY ScreenTypes, SessionTypes DEF ClientInv, ClientTypeOK, SessionInv
<1>2. QED
  BY <1>1, ClientInvariant, PTL

(* A screen that starts without sample rows, and whose handlers put in     *)
(* their rows only a removal the server confirmed, shows only what the     *)
(* server has had, for any number of calls, lists and losses.              *)
THEOREM CandidScreensShowStored == ClientSpec => []ShowsOnlyStored
<1>1. ClientInv => ShowsOnlyStored
  BY DEF ClientInv, CandidInv, ShowsOnlyStored
<1>2. QED
  BY <1>1, ClientInvariant, PTL

(* A screen whose handlers ask for the list after each success shows the   *)
(* table once it is quiet, when the answers of its lists did not overtake  *)
(* each other and nobody else was at work.                                 *)
THEOREM RefetchingScreensShowTable == ClientSpec => []ShowsTheTable
<1>1. ClientInv => ShowsTheTable
  BY RefetchedTable DEF ClientInv
<1>2. QED
  BY <1>1, ClientInvariant, PTL

(* disabled={saving}: on a screen whose buttons all heed the flag they     *)
(* raise, one handler at a time holds it, whichever forms are left and     *)
(* opened while a call or a list is in flight.                             *)
THEOREM OneCallAtATime == ClientSpec => []OneAtATime
<1>1. ClientInv => OneAtATime
  BY FlagHeldOnce DEF ClientInv
<1>2. QED
  BY <1>1, ClientInvariant, PTL

(* App.tsx and ApiClient: once no sign-in waits for its event, a stored    *)
(* session is that of the view on the screen, in every order of answers,   *)
(* late 401s, sign-outs and reloads, for any accounts and requests.        *)
THEOREM ViewIsOfSession == ClientSpec => []ViewOfSession
<1>1. ClientInv => ViewOfSession
  BY DEF ClientInv, SessionInv
<1>2. QED
  BY <1>1, ClientInvariant, PTL
=============================================================================
