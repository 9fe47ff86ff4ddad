----------------------------- MODULE LimitProofs -----------------------------
(***************************************************************************)
(* Theorems about the limits of Accounts: wrong codes per one-time code,    *)
(* one use of a code, and failed logins that lock the account.              *)
(***************************************************************************)
EXTENDS AuthProofs

USE AuthAssumption
-----------------------------------------------------------------------------
(* The shapes of a step, as far as codes, statuses and counts go.           *)
Codes == <<otp, guesses, uses>>
SameStatus == \A u \in Users : account'[u].status = account[u].status
SameLocks == SameStatus /\ UNCHANGED <<failures, reopened>>

Counting(c) == c.step \in {"count", "lock"}
Special == {"consume", "count", "lock"}

\* A handler that starts, goes on or ends, without touching codes or counts.
Fresh(r) ==
  /\ Idle(r) /\ Becomes(r, call'[r]) /\ call'[r].step \notin Special
  /\ call'[r].op = "login" => Exists(call'[r].user)
Onward(r) ==
  /\ Becomes(r, call'[r]) /\ ~ Counting(call[r]) /\ call'[r].step \notin Special
  /\ call'[r].op = call[r].op /\ call'[r].user = call[r].user
Leaving(r) ==
  /\ Becomes(r, call'[r]) /\ ~ Counting(call[r]) /\ call'[r].step \notin Special
  /\ call'[r].op = "logout"
Over(r) == Becomes(r, NoCall) /\ ~ Counting(call[r])
Plain == UNCHANGED call \/ \E r \in Calls : Fresh(r) \/ Onward(r) \/ Leaving(r) \/ Over(r)

Sets(u) ==
  /\ \A x \in Users \ {u} : account'[x].status = account[x].status
  /\ \A x \in Users \ {u} : reopened'[x] = reopened[x]
  /\ account'[u].status # "NONE" /\ UNCHANGED <<failures, Codes>>
  /\ Plain

Reopens(u) == Sets(u) /\ reopened'[u]
Locks(u) == Sets(u) /\ account'[u].status = "LOCKED"
Registers(u) == Sets(u) /\ ~ Exists(u)

Fails(r) ==
  LET u == call[r].user IN
  /\ call[r].op = "login" /\ call[r].step = "compare" /\ u \in Users
  /\ failures' = [failures EXCEPT ![u] = @ + 1] /\ SameStatus
  /\ reopened' = [reopened EXCEPT ![u] = FALSE]
  /\ Becomes(r, call'[r]) /\ call'[r].op = "login" /\ call'[r].user = u
  /\ call'[r].step = "count" /\ UNCHANGED Codes
Counts(r) ==
  LET u == call[r].user IN
  /\ call[r].op = "login" /\ Counting(call[r]) /\ u \in Users /\ SameLocks /\ UNCHANGED Codes
  /\ \/ failures[u] < FailLimit /\ Becomes(r, NoCall)
     \/ /\ Becomes(r, call'[r]) /\ call'[r].op = "login" /\ call'[r].user = u
        /\ call'[r].step = "lock"
Closes(r) ==
  LET u == call[r].user IN
  /\ u \in Users /\ account'[u].status = "LOCKED"
  /\ \A x \in Users \ {u} : account'[x].status = account[x].status
  /\ UNCHANGED <<failures, reopened, Codes>> /\ Becomes(r, NoCall)
Drops(r) ==
  /\ Becomes(r, NoCall) /\ SameStatus /\ UNCHANGED <<failures, Codes>>
  /\ \A x \in Users : reopened'[x] = (reopened[x] \/ (Counting(call[r]) /\ x = call[r].user))
Ages(u) ==
  /\ failures' = [failures EXCEPT ![u] = @ - 1] /\ failures[u] > 0
  /\ SameStatus /\ UNCHANGED <<reopened, Codes>> /\ UNCHANGED call

Columns(o) ==
  /\ otp'[o].state = otp[o].state /\ otp'[o].attempts = otp[o].attempts
  /\ guesses'[o] = guesses[o] /\ uses'[o] = uses[o]
Elsewhere(o) == \A i \in Otps \ {o} : Columns(i)

Creates(o) ==
  /\ otp[o].state = "none" /\ otp[o].attempts = 0
  /\ otp'[o].state = "pending" /\ otp'[o].attempts = 0
  /\ UNCHANGED <<guesses, uses>> /\ Elsewhere(o) /\ SameLocks /\ Plain
Expires == (\A o \in Otps : Columns(o)) /\ SameLocks /\ Plain
Submits(r, o) ==
  /\ Idle(r) /\ Becomes(r, call'[r]) /\ call'[r].step = "consume" /\ call'[r].otp = o
  /\ call'[r].op # "login"
  /\ otp[o].attempts < MaxAttempts /\ UNCHANGED Codes /\ SameLocks
Guesses(r, o) ==
  /\ call[r].step = "consume" /\ call[r].otp = o /\ Becomes(r, NoCall) /\ SameLocks
  /\ otp'[o].state = otp[o].state /\ uses'[o] = uses[o] /\ guesses'[o] = guesses[o] + 1
  /\ otp'[o].attempts = IF otp[o].attempts < MaxAttempts THEN otp[o].attempts + 1
                        ELSE otp[o].attempts
  /\ Elsewhere(o)
Consumes(r, o) ==
  /\ otp[o].state = "pending" /\ otp'[o].state = "consumed" /\ uses'[o] = uses[o] + 1
  /\ otp'[o].attempts = otp[o].attempts /\ guesses'[o] = guesses[o]
  /\ Elsewhere(o) /\ SameLocks /\ Onward(r)

Turn ==
  \/ UNCHANGED Codes /\ SameLocks /\ Plain
  \/ \E u \in Users : Reopens(u) \/ Locks(u) \/ Registers(u) \/ Ages(u)
  \/ \E r \in Calls : Fails(r) \/ Counts(r) \/ Closes(r) \/ Drops(r)
  \/ Expires
  \/ \E o \in Otps : Creates(o)
  \/ \E r \in Calls, o \in Otps : Submits(r, o) \/ Guesses(r, o) \/ Consumes(r, o)
-----------------------------------------------------------------------------
LEMMA Handled ==
  ASSUME TypeInv, NEW r \in Calls
  PROVE  call \in [Calls -> Handler] /\ call[r] \in Handler /\ HandlerFacts(call[r])
  BY DEF TypeInv, TypeOK

LEMMA StartPlain ==
  ASSUME TypeInv, NEW r \in Calls, NEW c, Start(r, c), c.step \notin Special,
         c.op = "login" => Exists(c.user)
  PROVE  Plain
  <1>1. Idle(r) /\ call' = [call EXCEPT ![r] = c] /\ call \in [Calls -> Handler]
    BY Handled DEF Start
  <1>2. call'[r] = c /\ Becomes(r, call'[r])
    BY <1>1 DEF Becomes
  <1> QED  BY <1>1, <1>2 DEF Plain, Fresh

LEMMA GoPlain ==
  ASSUME TypeInv, NEW r \in Calls, NEW step \in Steps \ Special, GoTo(r, step),
         ~ Counting(call[r])
  PROVE  Plain /\ Onward(r)
  <1>1. call' = [call EXCEPT ![r].step = step] /\ call \in [Calls -> Handler]
        /\ call[r] \in Handler
    BY Handled DEF GoTo
  <1>2. call'[r] = [call[r] EXCEPT !.step = step] /\ Becomes(r, call'[r])
    BY <1>1 DEF Becomes
  <1>3. call'[r].op = call[r].op /\ call'[r].user = call[r].user /\ call'[r].step = step
    BY <1>1, <1>2 DEF Handler
  <1> QED  BY <1>2, <1>3 DEF Plain, Onward

LEMMA OverPlain ==
  ASSUME TypeInv, NEW r \in Calls, Finish(r), ~ Counting(call[r])
  PROVE  Plain
  BY FinishType DEF Plain, Over

LEMMA StillLocks ==
  ASSUME UNCHANGED <<account, failures, reopened>>  PROVE SameLocks
  BY DEF SameLocks, SameStatus

LEMMA StillTurn ==
  ASSUME UNCHANGED <<account, failures, otp, reopened, guesses, uses>>, Plain  PROVE Turn
  BY StillLocks DEF Turn, Codes

LEMMA LoginTurn ==
  ASSUME TypeInv, NEW r \in Calls, LoginSteps(r)
  PROVE  Turn
  <1>b. call \in [Calls -> Handler] /\ call[r] \in Handler /\ HandlerFacts(call[r])
    BY Handled
  <1>c. /\ account \in [Users -> UserRow] /\ failures \in [Users -> 0..MaxFailures]
        /\ reopened \in [Users -> BOOLEAN]
    BY DEF TypeInv, TypeOK
  <1>u. call[r].step \in {"unlock", "compare", "count", "lock"} => call[r].user \in Users
    BY <1>b DEF HandlerFacts
  <1>1. ASSUME NEW u \in Users, NEW c \in Clients, Login(r, u, c)  PROVE Turn
    <2> DEFINE h == [NoCall EXCEPT !.op = "login", !.user = u, !.client = c,
                       !.step = IF account[u].status = "LOCKED" THEN "unlock" ELSE "compare",
                       !.password = password[u]]
    <2>1. h.op = "login" /\ h.user = u /\ h.step \in {"unlock", "compare"}
      BY DEF NoCall
    <2>2. Start(r, h) /\ Exists(u) /\ UNCHANGED <<rows, history>>
      BY <1>1 DEF Login
    <2> HIDE DEF h
    <2>3. Plain
      BY <2>1, <2>2, StartPlain DEF Special
    <2> QED  BY <2>2, <2>3, StillTurn DEF rows, history
  <1>2. ASSUME AutoUnlock(r)  PROVE Turn
    <2> DEFINE u == call[r].user
    <2>1. u \in Users /\ call[r].step = "unlock" /\ GoTo(r, "compare")
      BY <1>2, <1>u DEF AutoUnlock, At
    <2>2. Plain
      BY <2>1, GoPlain DEF Steps, Special, Counting
    <2>3. account' = [account EXCEPT ![u] = [account[u] EXCEPT !.status = "ACTIVE",
                        !.reason = "null", !.aged = FALSE]]
          /\ reopened' = [reopened EXCEPT ![u] = TRUE]
          /\ UNCHANGED <<failures, otp, guesses, uses>>
      BY <1>2 DEF AutoUnlock
    <2> HIDE DEF u
    <2>4. account'[u].status = "ACTIVE"
      BY <1>c, <2>1, <2>3 DEF UserRow
    <2> QED  BY <1>c, <2>1, <2>2, <2>3, <2>4 DEF Turn, Reopens, Sets, Codes
  <1>3. ASSUME WrongPassword(r)  PROVE Turn
    <2>1. call[r].op = "login" /\ call[r].step = "compare" /\ call[r].user \in Users
          /\ GoTo(r, "count")
      BY <1>3, <1>u DEF WrongPassword, At
    <2>2. Becomes(r, call'[r]) /\ call'[r] = [call[r] EXCEPT !.step = "count"]
      BY <1>b, <2>1 DEF Becomes, GoTo
    <2>3. call'[r].op = "login" /\ call'[r].user = call[r].user /\ call'[r].step = "count"
      BY <1>b, <2>1, <2>2 DEF Handler
    <2>4. Fails(r)
      BY <1>3, <2>1, <2>2, <2>3 DEF WrongPassword, Fails, SameStatus, Codes
    <2> QED  BY <2>4 DEF Turn
  <1>4. ASSUME CountFailures(r)  PROVE Turn
    <2>1. call[r].op = "login" /\ call[r].step = "count" /\ call[r].user \in Users
          /\ UNCHANGED <<rows, history>>
          /\ failures[call[r].user] \in Nat
      BY <1>4, <1>u, <1>c DEF CountFailures, At
    <2>2. ASSUME failures[call[r].user] < FailLimit, Finish(r)  PROVE Counts(r)
      BY <2>1, <2>2, FinishType, StillLocks DEF Counts, Counting, rows, history, Codes
    <2>3. ASSUME GoTo(r, "lock")  PROVE Counts(r)
      <3>1. Becomes(r, call'[r]) /\ call'[r] = [call[r] EXCEPT !.step = "lock"]
        BY <1>b, <2>3 DEF Becomes, GoTo
      <3>2. call'[r].op = "login" /\ call'[r].user = call[r].user /\ call'[r].step = "lock"
        BY <1>b, <2>1, <3>1 DEF Handler
      <3> QED  BY <2>1, <3>1, <3>2, StillLocks DEF Counts, Counting, rows, history, Codes
    <2>4. \/ failures[call[r].user] < FailLimit /\ Finish(r)
          \/ GoTo(r, "lock")
      BY <1>4, <2>1 DEF CountFailures
    <2> QED  BY <2>2, <2>3, <2>4 DEF Turn
  <1>5. ASSUME AutoLock(r)  PROVE Turn
    <2> DEFINE u == call[r].user
    <2>1. u \in Users
      BY <1>5, <1>u DEF AutoLock, At
    <2>2. account' = [account EXCEPT ![u] = [account[u] EXCEPT !.status = "LOCKED",
                        !.reason = "AUTO", !.aged = FALSE]]
          /\ UNCHANGED <<failures, reopened, otp, guesses, uses>> /\ Finish(r)
      BY <1>5 DEF AutoLock, history
    <2> HIDE DEF u
    <2>3. account'[u].status = "LOCKED"
          /\ \A x \in Users \ {u} : account'[x].status = account[x].status
      BY <1>c, <2>1, <2>2 DEF UserRow
    <2>4. Closes(r)
      BY <2>1, <2>2, <2>3, FinishType DEF Closes, Codes, u
    <2> QED  BY <2>4 DEF Turn
  <1>6. ASSUME NEW s \in Sessions, CreateSession(r, s)  PROVE Turn
    <2>1. Plain
      BY <1>6, GoPlain DEF CreateSession, At, Steps, Special, Counting
    <2> QED  BY <1>6, <2>1, StillTurn DEF CreateSession, history
  <1>7. ASSUME NEW t \in Tokens, IssueTokens(r, t)  PROVE Turn
    <2> DEFINE h == [call[r] EXCEPT !.step = "reply", !.token = t]
    <2>1. h.op = call[r].op /\ h.user = call[r].user /\ h.step = "reply"
      BY <1>b DEF Handler
    <2>2. ~ Counting(call[r]) /\ (Finish(r) \/ call' = [call EXCEPT ![r] = h])
      BY <1>7 DEF IssueTokens, Counting
    <2> HIDE DEF h
    <2>3. call' = [call EXCEPT ![r] = h] => call'[r] = h /\ Becomes(r, call'[r])
      BY <1>b DEF Becomes
    <2>4. Plain
      BY <2>1, <2>2, <2>3, OverPlain DEF Plain, Onward, Special
    <2> QED  BY <1>7, <2>4, StillTurn DEF IssueTokens
  <1> QED  BY <1>1, <1>2, <1>3, <1>4, <1>5, <1>6, <1>7 DEF LoginSteps

LEMMA SignOutPlain ==
  ASSUME TypeInv, NEW r \in Calls, NEW b \in Clients, NEW s \in Sessions \cup {Nobody},
         SignOut(r, b, s), Idle(r) \/ call[r].op = "refreshToken"
  PROVE  Plain
  <1>1. ~ Counting(call[r])
    BY Handled DEF Counting, HandlerFacts, Idle
  <1>2. PICK h \in Handler : /\ Becomes(r, h) /\ h.op = "logout"
                             /\ h.step \in {"reply", "revokeTokens"}
    BY SignOutType
  <1> QED  BY <1>1, <1>2 DEF Plain, Leaving, Special, Becomes

LEMMA TokensTurn ==
  ASSUME TypeInv, NEW r \in Calls, TokenSteps(r)
  PROVE  Turn
  <1>b. call \in [Calls -> Handler] /\ call[r] \in Handler /\ HandlerFacts(call[r])
    BY Handled
  <1>c. reopened \in [Users -> BOOLEAN]
    BY DEF TypeInv, TypeOK
  <1>1. ASSUME NEW c \in Clients, Refresh(r, c)  PROVE Turn
    <2> DEFINE h == [NoCall EXCEPT !.op = "refreshToken", !.user = token[jar[c]].user,
                       !.client = c, !.token = jar[c], !.password = password[token[jar[c]].user],
                       !.step = IF token[jar[c]].state = "valid" THEN "rotate"
                                ELSE "revokeTokens"]
    <2>1. h.op = "refreshToken" /\ h.step \in {"rotate", "revokeTokens"}
      BY DEF NoCall
    <2>2. Start(r, h)
      BY <1>1 DEF Refresh
    <2> HIDE DEF h
    <2>3. Plain
      BY <2>1, <2>2, StartPlain DEF Special
    <2> QED  BY <1>1, <2>3, StillTurn DEF Refresh, rows
  <1>2. ASSUME Rotate(r)  PROVE Turn
    <2>1. Plain
      BY <1>2, GoPlain DEF Rotate, At, Steps, Special, Counting
    <2> QED  BY <1>2, <2>1, StillTurn DEF Rotate, history
  <1>3. ASSUME RevokeAllTokens(r)  PROVE Turn
    <2>1. ~ Counting(call[r]) /\ (GoTo(r, "reply") \/ GoTo(r, "revokeSessions"))
      BY <1>3 DEF RevokeAllTokens, Counting
    <2>2. Plain
      BY <2>1, GoPlain DEF Steps, Special
    <2> QED  BY <1>3, <2>2, StillTurn DEF RevokeAllTokens
  <1>4. ASSUME RevokeAllSessions(r)  PROVE Turn
    <2>a. call[r].op \in {"refreshToken", "logout", "resetPassword"} /\ ~ Counting(call[r])
      BY <1>4, <1>b DEF RevokeAllSessions, HandlerFacts, Counting
    <2>1. ~ Counting(call[r]) /\ (GoTo(r, "reply") \/ GoTo(r, "alarm") \/ Finish(r))
      BY <1>4, <2>a DEF RevokeAllSessions
    <2>2. Plain
      BY <2>1, GoPlain, OverPlain DEF Steps, Special
    <2> QED  BY <1>4, <2>2, StillTurn DEF RevokeAllSessions, history
  <1>5. ASSUME NEW c \in Clients, NEW s \in Sessions \cup {Nobody}, Logout(r, c, s)
        PROVE  Turn
    <2>1. Plain
      BY <1>5, SignOutPlain DEF Logout
    <2> QED  BY <1>5, <2>1, StillTurn DEF Logout, history
  <1>6. ASSUME Reply(r)  PROVE Turn
    <2>1. Plain
      BY <1>6, OverPlain DEF Reply, Counting
    <2> QED  BY <1>6, <2>1, StillTurn DEF Reply, rows, history
  <1>7. ASSUME RefreshRefused(r)  PROVE Turn
    <2>1. call[r].client \in Clients /\ call[r].op = "refreshToken"
      BY <1>7, <1>b DEF RefreshRefused, HandlerFacts
    <2>2. Plain
      BY <1>7, <2>1, SignOutPlain DEF RefreshRefused
    <2> QED  BY <1>7, <2>2, StillTurn DEF RefreshRefused
  <1>8. ASSUME Drop(r)  PROVE Turn
    <2>1. Becomes(r, NoCall) /\ SameStatus /\ UNCHANGED <<failures, Codes>>
      BY <1>8, FinishType DEF Drop, SameStatus, rows, Codes
    <2>2. reopened' = IF Counting(call[r])
                      THEN [reopened EXCEPT ![call[r].user] = TRUE] ELSE reopened
      BY <1>8 DEF Drop, Counting
    <2>3. ASSUME NEW x \in Users
          PROVE  reopened'[x] = (reopened[x] \/ (Counting(call[r]) /\ x = call[r].user))
      <3>1. CASE Counting(call[r])
        BY <1>c, <2>2, <3>1
      <3>2. CASE ~ Counting(call[r])
        BY <1>c, <2>2, <3>2
      <3> QED  BY <3>1, <3>2
    <2> QED  BY <2>1, <2>3 DEF Turn, Drops
  <1>9. ASSUME NEW t \in Tokens, ChangePassword(r, t)  PROVE Turn
    <2> DEFINE h == [NoCall EXCEPT !.op = "changePassword", !.user = token[t].user,
                                   !.step = "password"]
    <2>1. h.op = "changePassword" /\ h.step = "password"
      BY DEF NoCall
    <2>2. Start(r, h)
      BY <1>9 DEF ChangePassword
    <2> HIDE DEF h
    <2>3. Plain
      BY <2>1, <2>2, StartPlain DEF Special
    <2> QED  BY <1>9, <2>3, StillTurn DEF ChangePassword, rows, history
  <1>10. ASSUME StorePassword(r)  PROVE Turn
    <2>1. ~ Counting(call[r]) /\ (GoTo(r, "deleteTokens") \/ GoTo(r, "revokeTokens"))
      BY <1>10 DEF StorePassword, Counting
    <2>2. Plain
      BY <2>1, GoPlain DEF Steps, Special
    <2> QED  BY <1>10, <2>2, StillTurn DEF StorePassword, history
  <1>11. ASSUME ForgetTokens(r)  PROVE Turn
    <2>1. Plain
      BY <1>11, OverPlain DEF ForgetTokens, At, Counting
    <2> QED  BY <1>11, <2>1, StillTurn DEF ForgetTokens
  <1> QED
    BY <1>1, <1>2, <1>3, <1>4, <1>5, <1>6, <1>7, <1>8, <1>9, <1>10, <1>11 DEF TokenSteps

LEMMA OtpTurn ==
  ASSUME TypeInv, NEW r \in Calls, OtpSteps(r)
  PROVE  Turn
  <1>b. call \in [Calls -> Handler] /\ call[r] \in Handler /\ HandlerFacts(call[r])
    BY Handled
  <1>c. /\ account \in [Users -> UserRow] /\ otp \in [Otps -> OtpRow]
        /\ guesses \in [Otps -> Nat] /\ uses \in [Otps -> Nat]
        /\ reopened \in [Users -> BOOLEAN]
    BY DEF TypeInv, TypeOK
  <1>1. ASSUME NEW u \in Users, NEW p \in Purposes, RequestOtp(r, u, p)  PROVE Turn
    <2> DEFINE h == [NoCall EXCEPT !.op = "generateOtp", !.user = u, !.step = "create",
                                   !.flag = (p = "REGISTER")]
    <2>1. h.op = "generateOtp" /\ h.step = "create"
      BY DEF NoCall
    <2>2. Start(r, h)
      BY <1>1 DEF RequestOtp
    <2> HIDE DEF h
    <2>3. Plain
      BY <2>1, <2>2, StartPlain DEF Special
    <2> QED  BY <1>1, <2>3, StillTurn DEF RequestOtp, rows, history
  <1>2. ASSUME NEW op \in OtpOps, NEW u \in Users, NEW p \in Purposes, NEW o \in Otps,
               SubmitOtp(r, op, u, p, o)
        PROVE  Turn
    <2> DEFINE h == [NoCall EXCEPT !.op = op, !.user = u, !.otp = o, !.step = "consume"]
    <2>1. h.op # "login" /\ h.step = "consume" /\ h.otp = o
      BY DEF NoCall, OtpOps
    <2>2. /\ Idle(r) /\ call' = [call EXCEPT ![r] = h] /\ otp[o].attempts < MaxAttempts
          /\ UNCHANGED <<rows, history>>
      BY <1>2 DEF SubmitOtp, Start
    <2> HIDE DEF h
    <2>3. Becomes(r, call'[r]) /\ call'[r] = h
      BY <1>b, <2>2 DEF Becomes
    <2>4. Submits(r, o)
      BY <2>1, <2>2, <2>3, StillLocks DEF Submits, Codes, rows, history
    <2> QED  BY <2>4 DEF Turn
  <1>3. ASSUME NEW o \in Otps, CreateOtp(r, o)  PROVE Turn
    <2> DEFINE row == [NoOtp EXCEPT !.user = call[r].user, !.state = "pending",
                 !.purpose = IF call[r].flag THEN "REGISTER" ELSE "RESET_PASSWORD"]
    <2>1. row.state = "pending" /\ row.attempts = 0
      BY DEF NoOtp
    <2>2. otp[o].state = "none" /\ otp[o].attempts = 0
      BY <1>3 DEF CreateOtp, NoOtp
    <2>3. otp' = [otp EXCEPT ![o] = row] /\ UNCHANGED <<account, failures, reopened, guesses, uses>>
      BY <1>3 DEF CreateOtp, history
    <2> HIDE DEF row
    <2>4. Plain
      BY <1>3, OverPlain DEF CreateOtp, At, Counting
    <2>5. Elsewhere(o)
      BY <1>c, <2>3 DEF Elsewhere, Columns
    <2>6. Creates(o)
      BY <1>c, <2>1, <2>2, <2>3, <2>4, <2>5, StillLocks DEF Creates
    <2> QED  BY <2>6 DEF Turn
  <1>4. ASSUME WrongOtp(r)  PROVE Turn
    <2> DEFINE o == call[r].otp
    <2>1. call[r].step = "consume" /\ o \in Otps \cup {0} /\ Becomes(r, NoCall)
      BY <1>4, <1>b, FinishType DEF WrongOtp, Handler
    <2>2. otp' = [otp EXCEPT ![o].attempts = IF @ < MaxAttempts THEN @ + 1 ELSE @]
          /\ guesses' = [guesses EXCEPT ![o] = @ + 1]
          /\ UNCHANGED <<account, failures, reopened, uses>>
      BY <1>4 DEF WrongOtp
    <2>g. SameLocks
      BY <2>2, StillLocks
    <2> HIDE DEF o
    <2>3. CASE o \in Otps
      <3>1. Elsewhere(o)
        BY <1>c, <2>2 DEF Elsewhere, Columns
      <3>2. /\ otp'[o].state = otp[o].state /\ uses'[o] = uses[o]
            /\ guesses'[o] = guesses[o] + 1
            /\ otp'[o].attempts = IF otp[o].attempts < MaxAttempts THEN otp[o].attempts + 1
                                  ELSE otp[o].attempts
        BY <1>c, <2>2, <2>3 DEF OtpRow
      <3>3. Guesses(r, o)
        BY <2>1, <2>g, <3>1, <3>2 DEF Guesses, o
      <3> QED  BY <2>3, <3>3 DEF Turn
    <2>4. CASE o \notin Otps
      <3>1. UNCHANGED Codes
        BY <1>c, <2>2, <2>4 DEF Codes
      <3>2. Plain
        BY <2>1 DEF Plain, Over, Counting
      <3> QED  BY <2>g, <3>1, <3>2 DEF Turn
    <2> QED  BY <2>3, <2>4
  <1>5. ASSUME ConsumeOtp(r)  PROVE Turn
    <2> DEFINE o == call[r].otp
    <2>1. o \in Otps \cup {0} /\ Plain /\ Onward(r)
      BY <1>5, <1>b, GoPlain DEF ConsumeOtp, Handler, Steps, Special, Counting
    <2>2. otp' = [otp EXCEPT ![o].state = "consumed"]
          /\ uses' = [uses EXCEPT ![o] = @ + 1] /\ otp[o].state = "pending"
          /\ UNCHANGED <<account, failures, reopened, guesses>>
      BY <1>5 DEF ConsumeOtp
    <2>g. SameLocks
      BY <2>2, StillLocks
    <2> HIDE DEF o
    <2>3. CASE o \in Otps
      <3>1. Elsewhere(o)
        BY <1>c, <2>2 DEF Elsewhere, Columns
      <3>2. /\ otp'[o].state = "consumed" /\ uses'[o] = uses[o] + 1
            /\ otp'[o].attempts = otp[o].attempts /\ guesses'[o] = guesses[o]
        BY <1>c, <2>2, <2>3 DEF OtpRow
      <3>3. Consumes(r, o)
        BY <2>1, <2>2, <2>g, <3>1, <3>2 DEF Consumes
      <3> QED  BY <2>3, <3>3 DEF Turn
    <2>4. CASE o \notin Otps
      <3>1. UNCHANGED Codes
        BY <1>c, <2>2, <2>4 DEF Codes
      <3> QED  BY <2>1, <2>g, <3>1 DEF Turn
    <2> QED  BY <2>3, <2>4
  <1>6. ASSUME CreateUser(r)  PROVE Turn
    <2> DEFINE u == call[r].user
               h == [call[r] EXCEPT !.step = "issue", !.password = password[u]]
    <2>1. u \in Users /\ ~ Counting(call[r])
      BY <1>6, <1>b DEF CreateUser, At, HandlerFacts, Counting
    <2>2. ~ Exists(u) /\ account' = [account EXCEPT ![u] = NewUser]
          /\ call' = [call EXCEPT ![r] = h]
          /\ UNCHANGED <<failures, reopened, otp, guesses, uses>>
      BY <1>6 DEF CreateUser, history
    <2>3. h.op = call[r].op /\ h.user = u /\ h.step = "issue"
      BY <1>b DEF Handler
    <2> HIDE DEF h, u
    <2>4. call'[r] = h /\ Becomes(r, call'[r])
      BY <1>b, <2>2 DEF Becomes
    <2>5. Plain
      BY <2>1, <2>3, <2>4 DEF Plain, Onward, Special, u
    <2>6. account'[u].status = "ACTIVE"
      BY <1>c, <2>1, <2>2 DEF NewUser, NoUser
    <2> QED  BY <1>c, <2>1, <2>2, <2>5, <2>6 DEF Turn, Registers, Sets, Codes
  <1> QED  BY <1>1, <1>2, <1>3, <1>4, <1>5, <1>6 DEF OtpSteps

\* A status that an administrator writes.
LEMMA AdminSets ==
  ASSUME TypeInv, NEW u \in Users, NEW s \in UserStatus, AdminStatus(u, s), Plain,
         account'[u].status = s, UNCHANGED <<failures, otp, guesses, uses>>,
         \A x \in Users \ {u} : account'[x].status = account[x].status
  PROVE  Turn
  <1>c. reopened \in [Users -> BOOLEAN]
    BY DEF TypeInv, TypeOK
  <1>1. reopened' = [reopened EXCEPT ![u] = reopened[u] \/ s # "LOCKED"]
    BY DEF AdminStatus
  <1>2. Sets(u)
    BY <1>c, <1>1 DEF Sets, Codes, UserStatus
  <1>3. CASE s = "LOCKED"
    BY <1>2, <1>3 DEF Turn, Locks
  <1>4. CASE s # "LOCKED"
    <2>1. reopened'[u]
      BY <1>c, <1>1, <1>4
    <2> QED  BY <1>2, <2>1 DEF Turn, Reopens
  <1> QED  BY <1>3, <1>4

LEMMA AdminTurn ==
  ASSUME TypeInv, AdminSteps
  PROVE  Turn
  <1>c. account \in [Users -> UserRow]
    BY DEF TypeInv, TypeOK
  <1>d. UNCHANGED call => Plain
    BY DEF Plain
  <1>1. ASSUME NEW u \in Users, NEW s \in UserStatus, UpdateUser(u, s)  PROVE Turn
    <2>1. /\ account' = [account EXCEPT ![u].status = s] /\ AdminStatus(u, s) /\ Plain
          /\ UNCHANGED <<failures, otp, guesses, uses>>
      BY <1>1, <1>d DEF UpdateUser
    <2>2. account'[u].status = s /\ \A x \in Users \ {u} : account'[x].status = account[x].status
      BY <1>c, <2>1 DEF UserRow
    <2> QED  BY <2>1, <2>2, AdminSets
  <1>2. ASSUME NEW r \in Calls, NEW u \in Users, LockUser(r, u)  PROVE Turn
    <2> DEFINE h == [NoCall EXCEPT !.op = "lockUser", !.user = u, !.step = "update",
                                   !.flag = (account[u].status = "ACTIVE")]
    <2>1. h.op = "lockUser" /\ h.step = "update"
      BY DEF NoCall
    <2>2. Start(r, h)
      BY <1>2 DEF LockUser
    <2> HIDE DEF h
    <2>3. Plain
      BY <2>1, <2>2, StartPlain DEF Special
    <2> QED  BY <1>2, <2>3, StillTurn DEF LockUser, rows, history
  <1>3. ASSUME NEW r \in Calls, NEW u \in Users, UnlockAccount(r, u)  PROVE Turn
    <2> DEFINE h == [NoCall EXCEPT !.op = "unlockAccount", !.user = u, !.step = "update"]
    <2>1. h.op = "unlockAccount" /\ h.step = "update"
      BY DEF NoCall
    <2>2. Start(r, h)
      BY <1>3 DEF UnlockAccount
    <2> HIDE DEF h
    <2>3. Plain
      BY <2>1, <2>2, StartPlain DEF Special
    <2> QED  BY <1>3, <2>3, StillTurn DEF UnlockAccount, rows, history
  <1>4. ASSUME NEW r \in Calls, WriteStatus(r)  PROVE Turn
    <2> DEFINE u == call[r].user
               s == IF call[r].flag THEN "LOCKED" ELSE "ACTIVE"
               q == IF call[r].flag THEN "ADMIN_LOCK" ELSE "null"
    <2>1. u \in Users /\ ~ Counting(call[r]) /\ Finish(r)
      BY <1>4, Handled DEF WriteStatus, Counting, HandlerFacts
    <2>2. account' = [account EXCEPT ![u].status = s, ![u].reason = q, ![u].aged = FALSE]
          /\ AdminStatus(u, s) /\ UNCHANGED <<failures, otp, guesses, uses>>
      BY <1>4 DEF WriteStatus
    <2>3. s \in UserStatus
      BY DEF UserStatus
    <2> HIDE DEF u, s, q
    <2>4. account'[u].status = s /\ \A x \in Users \ {u} : account'[x].status = account[x].status
      <3>1. account' = [account EXCEPT ![u] = [account[u] EXCEPT !.status = s, !.reason = q,
                                                                 !.aged = FALSE]]
        BY <2>2
      <3> QED  BY <1>c, <2>1, <3>1 DEF UserRow
    <2>5. Plain
      BY <2>1, OverPlain
    <2> QED  BY <2>1, <2>2, <2>3, <2>4, <2>5, AdminSets
  <1>5. ASSUME NEW u \in Users, DeleteUser(u) \/ RestoreUser(u)  PROVE Turn
    <2>1. UNCHANGED <<failures, reopened, otp, guesses, uses>> /\ Plain
      BY <1>5, <1>d DEF DeleteUser, RestoreUser, history
    <2>2. \E d \in BOOLEAN : account' = [account EXCEPT ![u] = [account[u] EXCEPT !.deleted = d]]
      BY <1>5 DEF DeleteUser, RestoreUser
    <2>3. SameStatus
      BY <1>c, <2>2 DEF SameStatus, UserRow
    <2> QED  BY <2>1, <2>3 DEF Turn, SameLocks, Codes
  <1>6. ASSUME NEW t \in Tokens, NEW S \in SUBSET Sessions, RevokeSessions(t, S)
        PROVE  Turn
    BY <1>6, <1>d, StillTurn DEF RevokeSessions, history
  <1> QED  BY <1>1, <1>2, <1>3, <1>4, <1>5, <1>6 DEF AdminSteps

LEMMA TimeTurn ==
  ASSUME TypeInv, Time
  PROVE  Turn
  <1>c. account \in [Users -> UserRow] /\ otp \in [Otps -> OtpRow]
    BY DEF TypeInv, TypeOK
  <1>d. UNCHANGED call => Plain
    BY DEF Plain
  <1>1. ASSUME NEW u \in Users, LockAges(u)  PROVE Turn
    <2>1. account' = [account EXCEPT ![u] = [account[u] EXCEPT !.aged = TRUE]]
          /\ UNCHANGED <<failures, reopened, Codes>> /\ Plain
      BY <1>1, <1>d DEF LockAges, history, Codes
    <2>2. SameStatus
      BY <1>c, <2>1 DEF SameStatus, UserRow
    <2> QED  BY <2>1, <2>2 DEF Turn, SameLocks
  <1>2. ASSUME NEW u \in Users, FailureAges(u)  PROVE Turn
    BY <1>2 DEF FailureAges, Turn, Ages, SameStatus, history, Codes
  <1>3. ASSUME NEW t \in Tokens, TokenExpires(t) \/ AccessExpires(t) \/ BlacklistLapses(t)
        PROVE  Turn
    BY <1>3, <1>d, StillTurn DEF TokenExpires, AccessExpires, BlacklistLapses, history
  <1>4. ASSUME NEW o \in Otps, OtpExpires(o)  PROVE Turn
    <2>1. otp' = [otp EXCEPT ![o] = [otp[o] EXCEPT !.expired = TRUE]] /\ Plain
          /\ UNCHANGED <<account, failures, reopened, guesses, uses>>
      BY <1>4, <1>d DEF OtpExpires, history
    <2>2. \A i \in Otps : Columns(i)
      BY <1>c, <2>1 DEF Columns, OtpRow
    <2> QED  BY <2>1, <2>2, StillLocks DEF Turn, Expires
  <1> QED  BY <1>1, <1>2, <1>3, <1>4 DEF Time

LEMMA Turns == TypeInv /\ [Next]_vars => Turn
  <1> SUFFICES ASSUME TypeInv, [Next]_vars PROVE Turn
    OBVIOUS
  <1>1. CASE UNCHANGED vars
    BY <1>1, StillTurn DEF vars, Plain
  <1> QED  BY <1>1, LoginTurn, TokensTurn, OtpTurn, AdminTurn, TimeTurn DEF Next

-----------------------------------------------------------------------------
(* Failed logins: an account with too many is locked, or a handler that has *)
(* counted or will count them is still on its way.                          *)
OnItsWay(u) == \E r \in Calls : Counting(call[r]) /\ call[r].user = u
LockInv ==
  /\ \A r \in Calls : call[r].op = "login" /\ call[r].user \in Users => Exists(call[r].user)
  /\ \A u \in Users : ~ Exists(u) => failures[u] = 0
  /\ \A u \in Users : failures[u] >= FailLimit /\ ~ reopened[u]
                        => account[u].status = "LOCKED" \/ OnItsWay(u)

LEMMA LockInit == Init => LockInv
  BY DEF Init, LockInv, NoCall

\* What the shapes do to accounts, whichever it is.
LEMMA StatusFrom ==
  ASSUME Turn, NEW u \in Users
  PROVE  account'[u].status = account[u].status \/ account'[u].status # "NONE"
  BY DEF Turn, SameLocks, SameStatus, Reopens, Locks, Registers, Sets, Ages, Fails, Counts,
         Closes, Drops, Expires, Creates, Submits, Guesses, Consumes

LEMMA LoginFrom ==
  ASSUME Turn, NEW r \in Calls, call'[r].op = "login"
  PROVE  \/ call[r].op = "login" /\ call'[r].user = call[r].user
         \/ Exists(call'[r].user)
  <1> DEFINE G == \/ call[r].op = "login" /\ call'[r].user = call[r].user
                  \/ Exists(call'[r].user)
  <1>1. ASSUME NEW q \in Calls, Becomes(q, NoCall)  PROVE G
    BY <1>1 DEF Becomes, NoCall
  <1>2. ASSUME Plain  PROVE G
    BY <1>1, <1>2 DEF Plain, Fresh, Onward, Leaving, Over, Becomes
  <1>3. ASSUME NEW q \in Calls, Fails(q) \/ Counts(q)  PROVE G
    BY <1>1, <1>3 DEF Fails, Counts, Becomes
  <1>4. ASSUME NEW q \in Calls, NEW o \in Otps, Submits(q, o) \/ Consumes(q, o)  PROVE G
    BY <1>4 DEF Submits, Consumes, Onward, Becomes
  <1> HIDE DEF G
  <1> QED  BY <1>1, <1>2, <1>3, <1>4
           DEF Turn, Reopens, Locks, Registers, Sets, Ages, Closes, Drops, Expires, Creates,
               Guesses, G

Keeps == \A q \in Calls : Counting(call[q]) => call'[q] = call[q]

LEMMA PlainKeeps == TypeInv /\ Plain => Keeps
  <1> SUFFICES ASSUME TypeInv, Plain, NEW q \in Calls, Counting(call[q])
               PROVE  call'[q] = call[q]
    BY DEF Keeps
  <1>1. call[q].op = "login"
    BY Handled DEF HandlerFacts, Counting
  <1> QED  BY <1>1 DEF Plain, Fresh, Onward, Leaving, Over, Becomes, Idle

LEMMA OtpKeeps ==
  ASSUME TypeInv, NEW r \in Calls, NEW o \in Otps,
         Submits(r, o) \/ Guesses(r, o) \/ Consumes(r, o)
  PROVE  Keeps
  <1>1. ~ Counting(call[r])
    BY Handled DEF HandlerFacts, Counting, Submits, Guesses, Consumes, Onward, Idle
  <1> QED  BY <1>1 DEF Keeps, Submits, Guesses, Consumes, Onward, Becomes

LEMMA LockKept ==
  ASSUME LockInv, SameLocks, Keeps, NEW u \in Users, failures'[u] >= FailLimit, ~ reopened'[u]
  PROVE  account'[u].status = "LOCKED" \/ OnItsWay(u)'
  BY DEF LockInv, SameLocks, SameStatus, Keeps, OnItsWay

LEMMA LockNext == TypeInv /\ LockInv /\ Turn => LockInv'
  <1> SUFFICES ASSUME TypeInv, LockInv, Turn PROVE LockInv'
    OBVIOUS
  <1>a. /\ failures \in [Users -> 0..MaxFailures] /\ reopened \in [Users -> BOOLEAN]
        /\ \A r \in Calls : Counting(call[r]) => call[r].op = "login"
    BY Handled DEF TypeInv, TypeOK, HandlerFacts, Counting
  <1>1. ASSUME NEW r \in Calls, call'[r].op = "login", call'[r].user \in Users
        PROVE  account'[call'[r].user].status # "NONE"
    <2>1. account[call'[r].user].status # "NONE"
      BY <1>1, LoginFrom DEF LockInv, Exists
    <2> QED  BY <1>1, <2>1, StatusFrom
  <1>2. ASSUME NEW u \in Users, account'[u].status = "NONE"  PROVE failures'[u] = 0
    <2>1. ~ Exists(u) /\ failures[u] = 0
      BY <1>2, StatusFrom DEF Exists, LockInv
    <2>2. ASSUME NEW r \in Calls, Fails(r)  PROVE failures'[u] = 0
      BY <1>a, <2>1, <2>2 DEF Fails, LockInv
    <2>3. ASSUME NEW x \in Users, Ages(x)  PROVE failures'[u] = 0
      BY <1>a, <2>1, <2>3 DEF Ages
    <2> QED  BY <2>1, <2>2, <2>3
             DEF Turn, SameLocks, Reopens, Locks, Registers, Sets, Counts, Closes, Drops,
                 Expires, Creates, Submits, Guesses, Consumes
  <1>3. ASSUME NEW u \in Users, failures'[u] >= FailLimit, ~ reopened'[u]
        PROVE  account'[u].status = "LOCKED" \/ OnItsWay(u)'
    <2> DEFINE G == account'[u].status = "LOCKED" \/ OnItsWay(u)'
    <2>1. ASSUME SameLocks, Plain  PROVE G
      BY <1>3, <2>1, PlainKeeps, LockKept
    <2>2. ASSUME NEW x \in Users, Sets(x), x # u  PROVE G
      <3>1. Keeps
        BY <2>2, PlainKeeps DEF Sets
      <3>2. account[u].status = "LOCKED" \/ OnItsWay(u)
        BY <1>3, <2>2 DEF Sets, LockInv
      <3> QED  BY <2>2, <3>1, <3>2 DEF Sets, OnItsWay, Keeps
    <2>3. ASSUME Registers(u)  PROVE G
      BY <1>3, <2>3 DEF Registers, Sets, LockInv
    <2>4. ASSUME NEW x \in Users, Ages(x)  PROVE G
      <3>1. failures[u] >= FailLimit /\ ~ reopened[u]
        BY <1>a, <1>3, <2>4 DEF Ages
      <3> QED  BY <2>4, <3>1 DEF Ages, LockInv, SameStatus, OnItsWay
    <2>5. ASSUME NEW r \in Calls, Fails(r)  PROVE G
      <3>1. CASE call[r].user = u
        BY <2>5, <3>1 DEF Fails, OnItsWay, Counting
      <3>2. CASE call[r].user # u
        <4>1. account[u].status = "LOCKED" \/ OnItsWay(u)
          BY <1>a, <1>3, <2>5, <3>2 DEF Fails, LockInv
        <4> QED  BY <2>5, <3>2, <4>1 DEF Fails, SameStatus, OnItsWay, Becomes
      <3> QED  BY <3>1, <3>2
    <2>6. ASSUME NEW r \in Calls, Counts(r)  PROVE G
      <3>1. account[u].status = "LOCKED" \/ OnItsWay(u)
        BY <1>3, <2>6 DEF Counts, SameLocks, LockInv
      <3>2. CASE call[r].user = u
        BY <1>a, <1>3, <2>6, <3>2 DEF Counts, OnItsWay, Counting, SameLocks
      <3>3. CASE call[r].user # u
        BY <2>6, <3>1, <3>3 DEF Counts, SameLocks, SameStatus, OnItsWay, Becomes
      <3> QED  BY <3>2, <3>3
    <2>7. ASSUME NEW r \in Calls, Closes(r)  PROVE G
      <3>1. account[u].status = "LOCKED" \/ OnItsWay(u)
        BY <1>3, <2>7 DEF Closes, LockInv
      <3> QED  BY <2>7, <3>1 DEF Closes, OnItsWay, Becomes
    <2>8. ASSUME NEW r \in Calls, Drops(r)  PROVE G
      <3>1. ~ reopened[u] /\ ~ (Counting(call[r]) /\ u = call[r].user)
        BY <1>3, <2>8 DEF Drops
      <3>2. account[u].status = "LOCKED" \/ OnItsWay(u)
        BY <1>3, <2>8, <3>1 DEF Drops, LockInv
      <3> QED  BY <2>8, <3>1, <3>2 DEF Drops, SameStatus, OnItsWay, Becomes
    <2>9. ASSUME NEW r \in Calls, NEW o \in Otps,
                 Submits(r, o) \/ Guesses(r, o) \/ Consumes(r, o)
          PROVE  G
      BY <1>3, <2>9, OtpKeeps, LockKept DEF Submits, Guesses, Consumes
    <2> HIDE DEF G
    <2>10. ASSUME NEW x \in Users, Reopens(x) \/ Locks(x) \/ Registers(x)  PROVE G
      <3>1. x = u /\ Reopens(x) => FALSE
        BY <1>3 DEF Reopens
      <3>2. x = u /\ Locks(x) => G
        BY DEF Locks, G
      <3> QED  BY <2>2, <2>3, <2>10, <3>1, <3>2 DEF Reopens, Locks, Registers
    <2>11. G
      BY <2>1, <2>4, <2>5, <2>6, <2>7, <2>8, <2>9, <2>10 DEF Turn, Expires, Creates
    <2> QED  BY <2>11 DEF G
  <1> QED  BY <1>1, <1>2, <1>3 DEF LockInv, Exists

(* Failed logins that reach the limit lock the account once every login is  *)
(* over, in whatever order the handlers count and lock.                     *)
THEOREM RepeatedFailuresLockHolds == Spec => []RepeatedFailuresLock
  <1>1. LockInv => RepeatedFailuresLock
    BY DEF LockInv, RepeatedFailuresLock, OnItsWay, InFlight
  <1> QED  BY <1>1, TypeInit, TypeNext, LockInit, LockNext, Turns, PTL DEF Spec

-----------------------------------------------------------------------------
(* One-time codes: attempts counts the guesses up to the limit, and beyond  *)
(* it only requests that were admitted before still guess.                  *)
Admitted(o) == {r \in Calls : call[r].step = "consume" /\ call[r].otp = o}
Count(o) == IF guesses[o] < MaxAttempts THEN guesses[o] ELSE MaxAttempts
UsedOnce(o) == uses[o] = 0 \/ (uses[o] = 1 /\ otp[o].state = "consumed")
Bounded(o) ==
  guesses[o] >= MaxAttempts
    => guesses[o] + Cardinality(Admitted(o)) <= MaxAttempts + Cardinality(Calls) - 1
CodeInv == \A o \in Otps : UsedOnce(o) /\ otp[o].attempts = Count(o) /\ Bounded(o)

LEMMA CodeInit == Init => CodeInv
  BY DEF Init, CodeInv, NoOtp, UsedOnce, Count, Bounded

LEMMA AdmittedFrom ==
  ASSUME Turn, NEW r \in Calls, call'[r].step = "consume"
  PROVE  call'[r] = call[r] \/ \E o \in Otps : Submits(r, o) /\ call'[r].otp = o
  <1> DEFINE G == call'[r] = call[r] \/ \E o \in Otps : Submits(r, o) /\ call'[r].otp = o
  <1>1. ASSUME NEW q \in Calls, Becomes(q, NoCall)  PROVE G
    BY <1>1 DEF Becomes, NoCall
  <1>2. ASSUME Plain  PROVE G
    BY <1>1, <1>2 DEF Plain, Fresh, Onward, Leaving, Over, Becomes, Special
  <1>3. ASSUME NEW q \in Calls, Fails(q) \/ Counts(q)  PROVE G
    BY <1>1, <1>3 DEF Fails, Counts, Becomes
  <1>4. ASSUME NEW q \in Calls, NEW o \in Otps, Submits(q, o) \/ Consumes(q, o)  PROVE G
    BY <1>4 DEF Submits, Consumes, Onward, Becomes, Special
  <1> HIDE DEF G
  <1>5. G
    BY <1>1, <1>2, <1>3, <1>4
       DEF Turn, Reopens, Locks, Registers, Sets, Ages, Closes, Drops, Expires, Creates,
           Guesses, Plain
  <1> QED  BY <1>5 DEF G

LEMMA AdmittedSize ==
  ASSUME NEW o
  PROVE  /\ IsFiniteSet(Admitted(o)) /\ Cardinality(Admitted(o)) \in Nat
         /\ Cardinality(Calls) \in Nat /\ Cardinality(Admitted(o)) <= Cardinality(Calls)
  <1>1. Admitted(o) \subseteq Calls /\ IsFiniteSet(Calls)
    BY DEF Admitted
  <1> QED  BY <1>1, FS_Subset, FS_CardinalityType

\* Only a look-up that found attempts left admits a request.
LEMMA BoundedKept ==
  ASSUME TypeInv, Turn, NEW o \in Otps, Bounded(o), guesses'[o] = guesses[o],
         otp[o].attempts = Count(o)
  PROVE  Bounded(o)'
  <1>0. guesses[o] \in Nat
    BY DEF TypeInv, TypeOK
  <1>1. ASSUME guesses[o] >= MaxAttempts
        PROVE  guesses[o] + Cardinality(Admitted(o)') <= MaxAttempts + Cardinality(Calls) - 1
    <2>1. \A r \in Calls : ~ Submits(r, o)
      BY <1>0, <1>1 DEF Submits, Count
    <2>2. Admitted(o)' \subseteq Admitted(o)
      BY <2>1, AdmittedFrom DEF Admitted
    <2>3. IsFiniteSet(Admitted(o)')
          /\ Cardinality(Admitted(o)') <= Cardinality(Admitted(o))
          /\ Cardinality(Admitted(o)') \in Nat
      BY <2>2, AdmittedSize, FS_Subset, FS_CardinalityType
    <2> QED  BY <1>0, <1>1, <2>3, AdmittedSize DEF Bounded
  <1> QED  BY <1>1 DEF Bounded

LEMMA BoundedGuess ==
  ASSUME TypeInv, NEW r \in Calls, NEW o \in Otps, Guesses(r, o), Bounded(o)
  PROVE  Bounded(o)'
  <1>0. guesses[o] \in Nat /\ guesses'[o] = guesses[o] + 1
    BY DEF TypeInv, TypeOK, Guesses
  <1>1. r \in Admitted(o) /\ Admitted(o)' = Admitted(o) \ {r}
    BY DEF Guesses, Becomes, NoCall, Admitted
  <1>2. Cardinality(Admitted(o)') = Cardinality(Admitted(o)) - 1
    BY <1>1, AdmittedSize, FS_RemoveElement
  <1> QED  BY <1>0, <1>2, AdmittedSize DEF Bounded

LEMMA CodeNext == TypeInv /\ CodeInv /\ Turn => CodeInv'
  <1> SUFFICES ASSUME TypeInv, CodeInv, Turn, NEW o \in Otps
               PROVE  (UsedOnce(o) /\ otp[o].attempts = Count(o) /\ Bounded(o))'
    BY DEF CodeInv
  <1>a. guesses[o] \in Nat /\ uses[o] \in Nat /\ UsedOnce(o) /\ otp[o].attempts = Count(o)
        /\ Bounded(o)
    BY DEF TypeInv, TypeOK, CodeInv
  <1>1. ASSUME Columns(o)  PROVE (UsedOnce(o) /\ otp[o].attempts = Count(o) /\ Bounded(o))'
    BY <1>1, <1>a, BoundedKept DEF Columns, UsedOnce, Count
  <1>2. ASSUME Creates(o)  PROVE (UsedOnce(o) /\ otp[o].attempts = Count(o) /\ Bounded(o))'
    BY <1>2, <1>a, BoundedKept DEF Creates, UsedOnce, Count
  <1>3. ASSUME NEW r \in Calls, Guesses(r, o)
        PROVE  (UsedOnce(o) /\ otp[o].attempts = Count(o) /\ Bounded(o))'
    BY <1>3, <1>a, BoundedGuess DEF Guesses, UsedOnce, Count
  <1>4. ASSUME NEW r \in Calls, Consumes(r, o)
        PROVE  (UsedOnce(o) /\ otp[o].attempts = Count(o) /\ Bounded(o))'
    BY <1>4, <1>a, BoundedKept DEF Consumes, UsedOnce, Count
  <1>5. ASSUME UNCHANGED Codes  PROVE Columns(o)
    BY <1>5 DEF Columns, Codes
  <1>6. ASSUME NEW i \in Otps \ {o}, Elsewhere(i)  PROVE Columns(o)
    BY <1>6 DEF Elsewhere
  <1>7. \/ Columns(o) \/ Creates(o)
        \/ \E r \in Calls : Guesses(r, o) \/ Consumes(r, o)
    <2>1. \/ UNCHANGED Codes \/ Expires
          \/ \E i \in Otps : \/ Creates(i)
                             \/ \E r \in Calls : Guesses(r, i) \/ Consumes(r, i)
      BY DEF Turn, Reopens, Locks, Registers, Sets, Ages, Fails, Counts, Closes, Drops, Submits
    <2> QED  BY <1>5, <1>6, <2>1 DEF Expires, Creates, Guesses, Consumes
  <1> QED  BY <1>1, <1>2, <1>3, <1>4, <1>7

(* A code is used by at most one request, however many compare it at the    *)
(* same time.                                                               *)
THEOREM OtpUsedOnceHolds == Spec => []OtpUsedOnce
  <1>1. CodeInv => OtpUsedOnce
    BY DEF CodeInv, OtpUsedOnce, UsedOnce
  <1> QED  BY <1>1, TypeInit, TypeNext, CodeInit, CodeNext, Turns, PTL DEF Spec

(* Wrong codes that one OTP is compared with: the limit, and one for every  *)
(* other request in flight, for any number of requests.                     *)
THEOREM GuessBoundHolds == Spec => []GuessBound
  <1>1. TypeInv /\ CodeInv => GuessBound
    <2> SUFFICES ASSUME TypeInv, CodeInv, NEW o \in Otps
                 PROVE  guesses[o] <= MaxAttempts + Cardinality(Calls) - 1
      BY DEF GuessBound
    <2>1. guesses[o] \in Nat /\ Bounded(o)
      BY DEF TypeInv, TypeOK, CodeInv
    <2>2. Cardinality(Calls) \in Nat /\ Cardinality(Calls) # 0
      BY AdmittedSize, FS_EmptySet
    <2> QED  BY <2>1, <2>2, AdmittedSize DEF Bounded
  <1> QED  BY <1>1, TypeInit, TypeNext, CodeInit, CodeNext, Turns, PTL DEF Spec
=============================================================================
