---------------------------- MODULE AccountAdmin ----------------------------
(***************************************************************************)
(* What administrators do to accounts: AdminController on users, and        *)
(* unlockAccount of AuthService.                                            *)
(***************************************************************************)
EXTENDS OtpService

(* An administrator gives the account a status; adminLock remembers it.     *)
AdminStatus(u, status) ==
  /\ adminLock' = [adminLock EXCEPT ![u] = (status = "LOCKED")]
  /\ reopened' = [reopened EXCEPT ![u] = @ \/ status # "LOCKED"]

(* updateUser: the status alone, whatever the reason of the last lock.      *)
UpdateUser(u, status) ==
  /\ "updateUser" \in scene /\ Exists(u)
  /\ account' = [account EXCEPT ![u].status = status]
  /\ AdminStatus(u, status)
  /\ UNCHANGED <<scene, password, failures, token, session, otp, jar, call, cut,
                 signedOut, old, guesses, uses, upset>>

(* lockUser toggles what it has read; unlockAccount wants a locked account. *)
LockUser(r, u) ==
  /\ Exists(u)
  /\ Start(r, [NoCall EXCEPT !.op = "lockUser", !.user = u, !.step = "update",
                             !.flag = (account[u].status = "ACTIVE")])
  /\ UNCHANGED <<scene, rows, jar, history>>

UnlockAccount(r, u) ==
  /\ account[u].status = "LOCKED"
  /\ Start(r, [NoCall EXCEPT !.op = "unlockAccount", !.user = u, !.step = "update"])
  /\ UNCHANGED <<scene, rows, jar, history>>

WriteStatus(r) ==
  LET u == call[r].user
      lock == call[r].flag IN
  /\ call[r].step = "update"
  /\ account' = [account EXCEPT ![u].status = IF lock THEN "LOCKED" ELSE "ACTIVE",
                                ![u].reason = IF lock THEN "ADMIN_LOCK" ELSE "null",
                                ![u].aged = FALSE]
  /\ AdminStatus(u, IF lock THEN "LOCKED" ELSE "ACTIVE")
  /\ Finish(r)
  /\ UNCHANGED <<scene, password, failures, token, session, otp, jar, cut, signedOut, old,
                 guesses, uses, upset>>

(* deleteUser: mark the row and delete the refresh tokens, in one           *)
(* transaction; sessions stay.  restoreUser takes the mark away.            *)
DeleteUser(u) ==
  /\ "deleteUser" \in scene /\ Exists(u)
  /\ account' = [account EXCEPT ![u].deleted = TRUE]
  /\ DeleteTokens(u)
  /\ UNCHANGED <<scene, password, failures, session, otp, jar, call, adminLock,
                 reopened, signedOut, old, guesses, uses>>

RestoreUser(u) ==
  /\ "restoreUser" \in scene /\ account[u].deleted
  /\ account' = [account EXCEPT ![u].deleted = FALSE]
  /\ UNCHANGED <<scene, password, failures, token, session, otp, jar, call, history>>
=============================================================================
