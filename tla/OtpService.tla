----------------------------- MODULE OtpService -----------------------------
(***************************************************************************)
(* One-time codes: generateOtp, register, resetPassword and verifyOtpCode   *)
(* of AuthService.  A code is compared by bcrypt between the read that      *)
(* admits the request and the write that counts or consumes it.             *)
(***************************************************************************)
EXTENDS AuthService

(* generateOtp: no code to register an address that has an account, none to *)
(* reset one that has not.  Pending codes stay as they are.                 *)
RequestOtp(r, u, purpose) ==
  /\ Exists(u) <=> purpose = "RESET_PASSWORD"
  /\ Start(r, [NoCall EXCEPT !.op = "generateOtp", !.user = u, !.step = "create",
                             !.flag = (purpose = "REGISTER")])
  /\ UNCHANGED <<scene, rows, jar, history>>

CreateOtp(r, o) ==
  /\ At(r, "generateOtp", "create")
  /\ otp[o] = NoOtp
  /\ \A i \in 1..(o - 1) : otp[i] # NoOtp
  /\ otp' = [otp EXCEPT ![o] = [NoOtp EXCEPT !.user = call[r].user, !.state = "pending",
               !.purpose = IF call[r].flag THEN "REGISTER" ELSE "RESET_PASSWORD"]]
  /\ Finish(r)
  /\ UNCHANGED <<scene, account, password, failures, token, session, jar, history>>

(* The newest pending code for the address and the purpose.                 *)
Pending(u, purpose) ==
  {o \in Otps : /\ otp[o].user = u /\ otp[o].purpose = purpose
                /\ otp[o].state = "pending" /\ ~ otp[o].expired}
Newest(u, purpose, o) ==
  /\ o \in Pending(u, purpose)
  /\ \A i \in Pending(u, purpose) : i <= o

OtpOps == {"register", "resetPassword", "verifyOtpCode"}

(* The look-up that admits a request; resetPassword wants an account first. *)
SubmitOtp(r, op, u, purpose, o) ==
  /\ op \in OtpOps
  /\ op = "register" => purpose = "REGISTER"
  /\ op = "resetPassword" => purpose = "RESET_PASSWORD" /\ Exists(u)
  /\ Newest(u, purpose, o)
  /\ otp[o].attempts < MaxAttempts
  /\ Start(r, [NoCall EXCEPT !.op = op, !.user = u, !.otp = o, !.step = "consume"])
  /\ UNCHANGED <<scene, rows, jar, history>>

\* Mutant: a wrong code is counted by the first two handlers only.
WrongOtp_NotWhenVerifying(r) ==
  LET o == call[r].otp IN
  /\ call[r].op \in OtpOps /\ call[r].step = "consume"
  /\ otp' = [otp EXCEPT ![o].attempts =
               IF @ < MaxAttempts /\ call[r].op # "verifyOtpCode" THEN @ + 1 ELSE @]
  /\ guesses' = [guesses EXCEPT ![o] = @ + 1]
  /\ Finish(r)
  /\ UNCHANGED <<scene, account, password, failures, token, session, jar, adminLock,
                 reopened, cut, signedOut, old, uses, upset>>

\* Mutant: the count goes past the limit.
WrongOtp_PastLimit(r) ==
  LET o == call[r].otp IN
  /\ call[r].op \in OtpOps /\ call[r].step = "consume"
  /\ otp' = [otp EXCEPT ![o].attempts = @ + 1]
  /\ guesses' = [guesses EXCEPT ![o] = @ + 1]
  /\ Finish(r)
  /\ UNCHANGED <<scene, account, password, failures, token, session, jar, adminLock,
                 reopened, cut, signedOut, old, uses, upset>>

(* A wrong code.  The CHECK constraint on attempts rejects the update that  *)
(* would count past the limit; the request fails either way.                *)
WrongOtp(r) ==
  LET o == call[r].otp IN
  /\ call[r].op \in OtpOps /\ call[r].step = "consume"
  /\ otp' = [otp EXCEPT ![o].attempts = IF @ < MaxAttempts THEN @ + 1 ELSE @]
  /\ guesses' = [guesses EXCEPT ![o] = @ + 1]
  /\ Finish(r)
  /\ UNCHANGED <<scene, account, password, failures, token, session, jar, adminLock,
                 reopened, cut, signedOut, old, uses, upset>>

\* Mutant: the update that consumes the code is not conditional.
ConsumeOtp_Unconditional(r) ==
  LET o == call[r].otp IN
  /\ call[r].op \in {"register", "resetPassword"} /\ call[r].step = "consume"
  /\ otp' = [otp EXCEPT ![o].state = "consumed"]
  /\ uses' = [uses EXCEPT ![o] = @ + 1]
  /\ GoTo(r, IF call[r].op = "register" THEN "createUser" ELSE "password")
  /\ UNCHANGED <<scene, account, password, failures, token, session, jar, adminLock,
                 reopened, cut, signedOut, old, guesses, upset>>

(* The right code: updateMany where consumedAt is null, and a throw when it *)
(* matches no row.  verifyOtpCode answers and consumes nothing: see Drop.   *)
ConsumeOtp(r) ==
  LET o == call[r].otp IN
  /\ call[r].op \in {"register", "resetPassword"} /\ call[r].step = "consume"
  /\ otp[o].state = "pending"
  /\ otp' = [otp EXCEPT ![o].state = "consumed"]
  /\ uses' = [uses EXCEPT ![o] = @ + 1]
  /\ GoTo(r, IF call[r].op = "register" THEN "createUser" ELSE "password")
  /\ UNCHANGED <<scene, account, password, failures, token, session, jar, adminLock,
                 reopened, cut, signedOut, old, guesses, upset>>

(* register: the e-mail is unique, so a second account is refused, with its *)
(* code spent.  Then the tokens are issued.                                 *)
CreateUser(r) ==
  LET u == call[r].user IN
  /\ At(r, "register", "createUser")
  /\ ~ Exists(u)
  /\ account' = [account EXCEPT ![u] = NewUser]
  /\ call' = [call EXCEPT ![r].step = "issue", ![r].password = password[u]]
  /\ UNCHANGED <<scene, password, failures, token, session, otp, jar, history>>
=============================================================================
