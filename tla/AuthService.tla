---------------------------- MODULE AuthService -----------------------------
(***************************************************************************)
(* Logins, tokens and sessions: AuthService and SessionService, with the    *)
(* browser that keeps the refresh token in a cookie.                        *)
(***************************************************************************)
EXTENDS AuthTables

(* login: the account is read once, before the password is compared.  A    *)
(* lock by an administrator, or a young automatic lock, rejects the call.   *)
Login(r, u, c) ==
  /\ Exists(u)
  /\ account[u].status = "LOCKED" => account[u].reason = "AUTO" /\ account[u].aged
  /\ Start(r, [NoCall EXCEPT !.op = "login", !.user = u, !.client = c,
                 !.step = IF account[u].status = "LOCKED" THEN "unlock" ELSE "compare",
                 !.password = password[u]])
  /\ UNCHANGED <<scene, rows, jar, history>>

(* login: the automatic unlock writes whatever the account has become.      *)
AutoUnlock(r) ==
  LET u == call[r].user IN
  /\ At(r, "login", "unlock")
  /\ account' = [account EXCEPT ![u].status = "ACTIVE", ![u].reason = "null",
                                ![u].aged = FALSE]
  /\ reopened' = [reopened EXCEPT ![u] = TRUE]
  /\ GoTo(r, "compare")
  /\ UNCHANGED <<scene, password, failures, token, session, otp, jar, adminLock, cut,
                 signedOut, old, guesses, uses, upset>>

(* logLoginFailure: record the failure, then count, then lock.              *)
WrongPassword(r) ==
  LET u == call[r].user IN
  /\ At(r, "login", "compare") /\ "wrongPassword" \in scene
  /\ failures[u] < MaxFailures
  /\ failures' = [failures EXCEPT ![u] = @ + 1]
  /\ reopened' = [reopened EXCEPT ![u] = FALSE]
  /\ GoTo(r, "count")
  /\ UNCHANGED <<scene, account, password, token, session, otp, jar, adminLock, cut,
                 signedOut, old, guesses, uses, upset>>

\* Mutant: one failed login too many.
CountFailures_Above(r) ==
  /\ At(r, "login", "count")
  /\ IF failures[call[r].user] > FailLimit THEN GoTo(r, "lock") ELSE Finish(r)
  /\ UNCHANGED <<scene, rows, jar, history>>

CountFailures(r) ==
  /\ At(r, "login", "count")
  /\ IF failures[call[r].user] >= FailLimit THEN GoTo(r, "lock") ELSE Finish(r)
  /\ UNCHANGED <<scene, rows, jar, history>>

AutoLock(r) ==
  LET u == call[r].user IN
  /\ At(r, "login", "lock")
  /\ account' = [account EXCEPT ![u].status = "LOCKED", ![u].reason = "AUTO",
                                ![u].aged = FALSE]
  /\ Finish(r)
  /\ UNCHANGED <<scene, password, failures, token, session, otp, jar, history>>

(* login: the right password starts a session, then the tokens are issued.  *)
CreateSession(r, s) ==
  /\ At(r, "login", "compare")
  /\ session[s] = NoSession
  /\ session' = [session EXCEPT ![s] = [user |-> call[r].user, active |-> TRUE]]
  /\ GoTo(r, "issue")
  /\ UNCHANGED <<scene, account, password, failures, token, otp, jar, history>>

(* generateTokens: rows are numbered, so the new one is any unused id.      *)
IssueTokens(r, t) ==
  /\ call[r].step = "issue"
  /\ token[t] = NoToken
  /\ token' = [token EXCEPT ![t] = [user |-> call[r].user, state |-> "valid",
                 expired |-> FALSE, access |-> "good", parent |-> call[r].token]]
  /\ old' = IF call[r].token \in old \/ call[r].password < signedOut[call[r].user]
            THEN old \cup {t} ELSE old
  /\ IF call[r].client = Nobody THEN Finish(r)
     ELSE call' = [call EXCEPT ![r].step = "reply", ![r].token = t]
  /\ UNCHANGED <<scene, account, password, failures, session, otp, jar, adminLock,
                 reopened, cut, signedOut, guesses, uses, upset>>

(* refreshToken: the row is found by its hint.  Expired and not revoked is  *)
(* rejected; a deleted row is not found.                                    *)
Refresh(r, c) ==
  LET t == jar[c] IN
  /\ t # Nobody
  /\ token[t].state = "revoked" \/ (token[t].state = "valid" /\ ~ token[t].expired)
  /\ Start(r, [NoCall EXCEPT !.op = "refreshToken", !.user = token[t].user,
                 !.client = c, !.token = t, !.password = password[token[t].user],
                 !.step = IF token[t].state = "valid" THEN "rotate" ELSE "revokeTokens"])
  /\ upset' = IF \E q \in Calls : call[q].op = "refreshToken" /\ call[q].client = c
              THEN upset \cup {c} ELSE upset
  /\ UNCHANGED <<scene, rows, jar, adminLock, reopened, cut, signedOut, old, guesses, uses>>

\* Mutant: the old token is left as it is.
Rotate_Forgotten(r) ==
  /\ At(r, "refreshToken", "rotate")
  /\ GoTo(r, "issue")
  /\ UNCHANGED <<scene, rows, jar, history>>

(* refreshToken: the update that revokes the old token is not conditional;  *)
(* it throws when the row has been deleted.                                 *)
Rotate(r) ==
  LET t == call[r].token IN
  /\ At(r, "refreshToken", "rotate")
  /\ token[t].state \in {"valid", "revoked"}
  /\ token' = [token EXCEPT ![t].state = "revoked"]
  /\ GoTo(r, "issue")
  /\ UNCHANGED <<scene, account, password, failures, session, otp, jar, history>>

(* All tokens of the user: after reuse, in logout, in resetPassword.        *)
RevokeAllTokens(r) ==
  /\ call[r].step = "revokeTokens"
  /\ RevokeTokens(call[r].user)
  /\ IF call[r].op = "resetPassword" THEN SignsOut(call[r].user)
                                     ELSE UNCHANGED <<signedOut, old>>
  /\ IF call[r].op = "logout" /\ call[r].session = Nobody
     THEN GoTo(r, "reply") ELSE GoTo(r, "revokeSessions")
  /\ UNCHANGED <<scene, account, password, failures, session, otp, jar, adminLock,
                 reopened, guesses, uses>>

(* ... and its sessions: all, or the one that logout was given.             *)
RevokeAllSessions(r) ==
  /\ call[r].step = "revokeSessions"
  /\ DeactivateSessions(IF call[r].op = "logout" THEN {call[r].session}
                                                 ELSE SessionsOf(call[r].user))
  /\ CASE call[r].op = "logout"        -> GoTo(r, "reply")
       [] call[r].op = "refreshToken"  -> GoTo(r, "alarm")
       [] call[r].op = "resetPassword" -> Finish(r)
  /\ UNCHANGED <<scene, account, password, failures, token, otp, jar, history>>
-----------------------------------------------------------------------------
(* The logout route of the browser's server: logout of the backend when the *)
(* cookie's access token still passes the guard (it is blacklisted, then all *)
(* refresh tokens are revoked), and no call at all otherwise; the cookies   *)
(* are cleared by the answer.  The interface sends no session token s.      *)
SignOut(r, c, s) ==
  LET t == jar[c]
      h == [NoCall EXCEPT !.op = "logout", !.client = c, !.token = t] IN
  IF t # Nobody /\ Authenticated(t)
  THEN /\ token' = [token EXCEPT ![t].access = "blacklisted"]
       /\ call' = [call EXCEPT ![r] = [h EXCEPT !.step = "revokeTokens", !.session = s,
                                                !.user = token[t].user]]
  ELSE /\ call' = [call EXCEPT ![r] = [h EXCEPT !.step = "reply"]]
       /\ UNCHANGED token

Logout(r, c, s) ==
  /\ Idle(r) /\ "logout" \in scene
  /\ jar[c] # Nobody
  /\ s # Nobody => session[s].user = token[jar[c]].user
  /\ SignOut(r, c, s)
  /\ UNCHANGED <<scene, account, password, failures, session, otp, jar, history>>

\* Mutant: the refresh route passes the tokens on and sets no refresh cookie.
Reply_NoCookie(r) ==
  /\ call[r].step = "reply"
  /\ jar' = IF call[r].op = "refreshToken" THEN jar
            ELSE [jar EXCEPT ![call[r].client] =
                    IF call[r].op = "logout" THEN Nobody ELSE call[r].token]
  /\ Finish(r)
  /\ UNCHANGED <<scene, rows, history>>

(* The answer reaches the browser: new cookies after a login or a refresh,  *)
(* none after a logout.                                                     *)
Reply(r) ==
  /\ call[r].step = "reply"
  /\ jar' = [jar EXCEPT ![call[r].client] =
               IF call[r].op = "logout" THEN Nobody ELSE call[r].token]
  /\ Finish(r)
  /\ UNCHANGED <<scene, rows, history>>

(* A refresh that is refused, or whose answer is lost, makes the            *)
(* interceptor of the API client log out.                                   *)
RefreshRefused(r) ==
  /\ call[r].op = "refreshToken" /\ call[r].step \in {"alarm", "reply"}
  /\ SignOut(r, call[r].client, Nobody)
  /\ upset' = upset \cup {call[r].client}
  /\ UNCHANGED <<scene, account, password, failures, session, otp, jar, adminLock,
                 reopened, cut, signedOut, old, guesses, uses>>

(* Any other handler that throws, dies with the server or answers nobody.   *)
Drop(r) ==
  /\ ~ Idle(r)
  /\ Finish(r)
  /\ upset' = upset \cup ({call[r].client} \ {Nobody})
  /\ reopened' = IF call[r].step \in {"count", "lock"}
                 THEN [reopened EXCEPT ![call[r].user] = TRUE] ELSE reopened
  /\ UNCHANGED <<scene, rows, jar, adminLock, cut, signedOut, old, guesses, uses>>
-----------------------------------------------------------------------------
(* changePassword: the current password is compared, then the new one is    *)
(* stored, then the refresh tokens are deleted; sessions stay.              *)
ChangePassword(r, t) ==
  /\ token[t].user # Nobody /\ Authenticated(t)
  /\ Start(r, [NoCall EXCEPT !.op = "changePassword", !.user = token[t].user,
                             !.step = "password"])
  /\ UNCHANGED <<scene, rows, jar, history>>

StorePassword(r) ==
  LET u == call[r].user IN
  /\ call[r].step = "password"
  /\ password[u] < MaxPasswords
  /\ password' = [password EXCEPT ![u] = @ + 1]
  /\ GoTo(r, IF call[r].op = "changePassword" THEN "deleteTokens" ELSE "revokeTokens")
  /\ UNCHANGED <<scene, account, failures, token, session, otp, jar, history>>

ForgetTokens(r) ==
  /\ At(r, "changePassword", "deleteTokens")
  /\ DeleteTokens(call[r].user)
  /\ SignsOut(call[r].user)
  /\ Finish(r)
  /\ UNCHANGED <<scene, account, password, failures, session, otp, jar, adminLock,
                 reopened, guesses, uses>>

(* SessionService: revokeSession, revokeOtherSessions and revokeAllSessions *)
(* deactivate some of the caller's sessions and touch no token.             *)
RevokeSessions(t, S) ==
  /\ "sessions" \in scene
  /\ token[t].user # Nobody /\ Authenticated(t)
  /\ S # {} /\ \A s \in S : session[s] = [user |-> token[t].user, active |-> TRUE]
  /\ DeactivateSessions(S)
  /\ UNCHANGED <<scene, account, password, failures, token, otp, jar, call, history>>
=============================================================================
