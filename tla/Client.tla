------------------------------- MODULE Client -------------------------------
(***************************************************************************)
(* One tab of the web client: somebody signs in and out (Session), or      *)
(* works on one of the screens (Screens).  Of the session a screen knows   *)
(* only whether its requests carry the token, which its description says;  *)
(* so a tab does one or the other.                                         *)
(***************************************************************************)
EXTENDS Screens, Session

SignIn == "signIn"
SignInScreen == ReadOnly("PAGE", Unasked)

clientVars == <<vars, session>>

ClientInit == Init /\ SessionInit

OnScreen(A) == name # SignIn /\ A /\ UNCHANGED session
InSession(A) == name = SignIn /\ A /\ UNCHANGED vars

ClientAnswers == OnScreen(Answers) \/ InSession(SessionAnswers)
ClientNext ==
  \/ OnScreen(Next)
  \/ InSession(SessionNext)

(* Every request ends: the browser settles each fetch, with an answer or   *)
(* with a network error, and a timer fires.  The user and the others owe   *)
(* nothing.                                                                *)
ClientSpec == ClientInit /\ [][ClientNext]_clientVars /\ WF_clientVars(ClientAnswers)

-----------------------------------------------------------------------------
ClientTypeOK == TypeOK /\ SessionTypeOK

(* Whatever is refused or lost, the flags fall, the spinner gives way and  *)
(* a session that was stored while the wizard is shown is noticed: the     *)
(* client is usable again.                                                 *)
UsableAgain ==
  []<>(/\ busy = Down /\ ~loading /\ raised = {}
       /\ ~(token # Nobody /\ view = "auth"))
=============================================================================
