------------------------------ MODULE Accounts ------------------------------
(***************************************************************************)
(* The authentication of the system: handlers of the backend, browsers,     *)
(* administrators and time, with the properties they must keep.             *)
(***************************************************************************)
EXTENDS AccountAdmin

Init ==
  /\ scene \in Scenes
  /\ account \in [Users -> {NoUser, NewUser}]
  /\ password = [u \in Users |-> 0]
  /\ failures = [u \in Users |-> 0]
  /\ token = [t \in Tokens |-> NoToken]
  /\ session = [s \in Sessions |-> NoSession]
  /\ otp = [o \in Otps |-> NoOtp]
  /\ jar = [c \in Clients |-> Nobody]
  /\ call = [r \in Calls |-> NoCall]
  /\ adminLock = [u \in Users |-> FALSE] /\ reopened = [u \in Users |-> FALSE]
  /\ cut = {} /\ old = {} /\ signedOut = [u \in Users |-> 0]
  /\ guesses = [o \in Otps |-> 0] /\ uses = [o \in Otps |-> 0]
  /\ upset = {}

(* Time.                                                                    *)
LockAges(u) ==
  /\ "lockAges" \in scene /\ account[u].reason = "AUTO"
  /\ account' = [account EXCEPT ![u].aged = TRUE]
  /\ UNCHANGED <<scene, password, failures, token, session, otp, jar, call, history>>
FailureAges(u) ==
  /\ "failureAges" \in scene /\ failures[u] > 0
  /\ failures' = [failures EXCEPT ![u] = @ - 1]
  /\ UNCHANGED <<scene, account, password, token, session, otp, jar, call, history>>
TokenExpires(t) ==
  /\ "tokenExpires" \in scene
  /\ token[t].access = "dead" /\ token[t].state # "none"
  /\ token' = [token EXCEPT ![t].expired = TRUE]
  /\ UNCHANGED <<scene, account, password, failures, session, otp, jar, call, history>>
AccessExpires(t) ==
  /\ "accessExpires" \in scene /\ token[t].access # "dead"
  /\ token' = [token EXCEPT ![t].access = "dead"]
  /\ UNCHANGED <<scene, account, password, failures, session, otp, jar, call, history>>
(* The blacklist entry is given the seconds that its token has left, and    *)
(* the cache counts milliseconds: it is gone long before the token expires. *)
BlacklistLapses(t) ==
  /\ "blacklistLapses" \in scene /\ token[t].access = "blacklisted"
  /\ token' = [token EXCEPT ![t].access = "good"]
  /\ UNCHANGED <<scene, account, password, failures, session, otp, jar, call, history>>
OtpExpires(o) ==
  /\ "otpExpires" \in scene /\ otp[o].state # "none"
  /\ otp' = [otp EXCEPT ![o].expired = TRUE]
  /\ UNCHANGED <<scene, account, password, failures, token, session, jar, call, history>>

Time ==
  \/ \E u \in Users : LockAges(u) \/ FailureAges(u)
  \/ \E t \in Tokens : TokenExpires(t) \/ AccessExpires(t) \/ BlacklistLapses(t)
  \/ \E o \in Otps : OtpExpires(o)

LoginSteps(r) ==
  \/ \E u \in Users, c \in Clients : Login(r, u, c)
  \/ AutoUnlock(r) \/ WrongPassword(r) \/ CountFailures(r) \/ AutoLock(r)
  \/ \E s \in Sessions : CreateSession(r, s)
  \/ \E t \in Tokens : IssueTokens(r, t)

TokenSteps(r) ==
  \/ \E c \in Clients : Refresh(r, c)
  \/ Rotate(r) \/ RevokeAllTokens(r) \/ RevokeAllSessions(r)
  \/ \E c \in Clients, s \in Sessions \cup {Nobody} : Logout(r, c, s)
  \/ Reply(r) \/ RefreshRefused(r) \/ Drop(r)
  \/ \E t \in Tokens : ChangePassword(r, t)
  \/ StorePassword(r) \/ ForgetTokens(r)

OtpSteps(r) ==
  \/ \E u \in Users, p \in Purposes : RequestOtp(r, u, p)
  \/ \E o \in Otps : CreateOtp(r, o)
  \/ \E op \in OtpOps, u \in Users, p \in Purposes, o \in Otps : SubmitOtp(r, op, u, p, o)
  \/ WrongOtp(r) \/ ConsumeOtp(r) \/ CreateUser(r)

AdminSteps ==
  \/ \E u \in Users, status \in UserStatus : UpdateUser(u, status)
  \/ \E r \in Calls, u \in Users : LockUser(r, u) \/ UnlockAccount(r, u)
  \/ \E r \in Calls : WriteStatus(r)
  \/ \E u \in Users : DeleteUser(u) \/ RestoreUser(u)
  \/ \E t \in Tokens, S \in SUBSET Sessions : RevokeSessions(t, S)

Next ==
  \/ \E r \in Calls : LoginSteps(r) \/ TokenSteps(r) \/ OtpSteps(r)
  \/ AdminSteps
  \/ Time

Spec == Init /\ [][Next]_vars
-----------------------------------------------------------------------------
InFlight(u) == {r \in Calls : call[r].user = u}

(* A token is revoked (or deleted) for good before the token it is          *)
(* exchanged for exists, however refreshes, logouts and resets interleave.  *)
RotatedBeforeIssued ==
  \A t \in Tokens : token[t].parent # Nobody => token[token[t].parent].state # "valid"

(* Whatever revokes the tokens of a user (reuse, logout, a new password,    *)
(* deletion) leaves none of those that existed valid, then or later.        *)
NoSurvivor == \A t \in cut : token[t].state # "valid"

(* A browser whose refreshes never overlapped and never went unanswered,    *)
(* and whose tokens nobody revoked, holds a cookie that works whenever it   *)
(* waits for nothing.                                                       *)
UndisturbedBrowserStaysSignedIn ==
  \A c \in Clients \ upset :
    jar[c] # Nobody /\ (\A r \in Calls : call[r].client # c)
      => token[jar[c]].state = "valid"

(* Failed logins that reach the limit lock the account, also when they are  *)
(* counted at the same time: unless somebody has reopened it since the last *)
(* of them, the account is locked once every login is over.                 *)
RepeatedFailuresLock ==
  \A u \in Users :
    failures[u] >= FailLimit /\ ~ reopened[u] /\ InFlight(u) = {}
      => account[u].status = "LOCKED"

(* A code is used by one request, to register or to reset a password.       *)
OtpUsedOnce == \A o \in Otps : uses[o] <= 1

(* Wrong codes that are compared with one OTP: the limit, and one more for  *)
(* every other request that was admitted before the limit was reached.      *)
GuessBound == \A o \in Otps : guesses[o] <= MaxAttempts + Cardinality(Calls) - 1

(* Refuted (admin.controller.ts:174-176): a lock by an administrator is not *)
(* bypassed by the automatic unlock.                                        *)
AdminLockHolds == \A u \in Users : adminLock[u] => account[u].status = "LOCKED"

(* Refuted (auth.service.ts:543): after a new password nobody stays signed  *)
(* in with the old one.                                                     *)
NewPasswordSignsOut ==
  \A t \in old : InFlight(token[t].user) = {} => token[t].state # "valid"
=============================================================================
