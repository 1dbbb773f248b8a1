---------------------------------- MODULE Otp ---------------------------------
(***************************************************************************)
(* One-time codes by e-mail (modules/notifications/email-otp.service) and  *)
(* by SMS (modules/sms-provider/sms-otp.service).  Each service keeps them *)
(* in the memory of the process, by address; what it does to them it does  *)
(* between two awaits.  A code is named after the request it was sent for. *)
(***************************************************************************)
EXTENDS Server

CONSTANTS
  OldOtps,               (* codes sent before the start, by address         *)
  SmsAddresses           (* the addresses that are phone numbers            *)

VARIABLE otps            (* [code, attempts, recent, expired], by address   *)

MaxAttempts == 5

OldCodes  == {OldOtps[a].code : a \in DOMAIN OldOtps}

OtpRecord == [code : OldCodes \cup Requests, attempts : 0..MaxAttempts,
              recent : BOOLEAN, expired : BOOLEAN]

ASSUME OtpAssumption ==
  /\ OldOtps \in [DOMAIN OldOtps -> OtpRecord] /\ OldCodes \cap Requests = {}
  /\ \A a, b \in DOMAIN OldOtps : OldOtps[a].code = OldOtps[b].code => a = b

OtpCalls == [op : {"sendSms"}, address : SmsAddresses]
              \cup [op : {"verifySms"}, address : SmsAddresses, code : OldCodes \cup Requests]

OtpInit == otps = OldOtps

-----------------------------------------------------------------------------
(* sendOtp: not within a minute of the last one; the old code is replaced. *)
SendOtp(r, a) ==
  IF a \in DOMAIN otps /\ otps[a].recent
    THEN Refuse(r) /\ UNCHANGED otps
    ELSE /\ Goto(r, "send")
         /\ otps' = Put(otps, a, [code |-> r, attempts |-> 0, recent |-> TRUE, expired |-> FALSE])

(* Mutant of Spent: a code stays on file once it has been accepted.        *)
SpentNever(a) == otps

Spent(a) == Without(otps, a)

(* verifyOtp: l comes next for the right code.  The count of attempts goes *)
(* up before the comparison (SMS) or after it (e-mail), with no await in   *)
(* between.                                                                *)
VerifyOtp(r, a, l) ==
  IF a \notin DOMAIN otps THEN Refuse(r) /\ UNCHANGED otps
  ELSE IF otps[a].expired \/ otps[a].attempts >= MaxAttempts
    THEN Refuse(r) /\ otps' = Without(otps, a)
  ELSE IF call[r].code # otps[a].code
    THEN Refuse(r) /\ otps' = [otps EXCEPT ![a].attempts = @ + 1]
  ELSE Goto(r, l) /\ otps' = Spent(a)

SendSms(r)   == At(r, {"sendSms"}, "start") /\ SendOtp(r, call[r].address)
VerifySms(r) == At(r, {"verifySms"}, "start") /\ VerifyOtp(r, call[r].address, "audit")

(* The message goes out, and the audit record is written.                  *)
DeliverSms(r) == At(r, {"sendSms"}, "send") /\ Goto(r, "audit") /\ UNCHANGED otps
AuditSms(r)   == At(r, {"sendSms", "verifySms"}, "audit") /\ Answer(r, "done") /\ UNCHANGED otps

OtpStep(r) == SendSms(r) \/ VerifySms(r) \/ DeliverSms(r) \/ AuditSms(r)

(* Time passes: a minute since the code was sent, then five.               *)
CodeAges(a) ==
  /\ \/ otps[a].recent  /\ otps' = [otps EXCEPT ![a].recent = FALSE]
     \/ ~otps[a].recent /\ ~otps[a].expired /\ otps' = [otps EXCEPT ![a].expired = TRUE]

OtpTypeOK == otps \in [DOMAIN otps -> OtpRecord]
=============================================================================
