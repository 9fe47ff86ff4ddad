----------------------------- MODULE TokenProofs ----------------------------
(***************************************************************************)
(* Theorems about the tokens of Accounts: what has been revoked stays so,   *)
(* and a browser that nobody disturbs stays signed in.                      *)
(***************************************************************************)
EXTENDS AuthProofs

USE AuthAssumption
-----------------------------------------------------------------------------
(* The shapes of a step, as far as tokens, cookies and handlers go.         *)
Columns(t) ==
  /\ token'[t].state = token[t].state /\ token'[t].user = token[t].user
  /\ token'[t].parent = token[t].parent
SameTokens == \A t \in Tokens : Columns(t)
Quiet == SameTokens /\ UNCHANGED <<cut, jar, upset>>

SameWork(r, c) ==
  c.op = call[r].op /\ c.user = call[r].user /\ c.client = call[r].client
    /\ c.token = call[r].token

Opens(r, c) ==
  /\ Idle(r) /\ Becomes(r, c) /\ c.token = Nobody /\ c.step \notin {"issue", "reply"}
  /\ c.op # "refreshToken"
GoesOn(r, c) ==
  /\ Becomes(r, c) /\ SameWork(r, c)
  /\ call[r].step \notin {"issue", "reply"}
  /\ c.step = "issue" => c.op \in {"login", "register"}
  /\ c.step = "reply" => c.op = "logout"
Ends(r) == Becomes(r, NoCall) /\ call[r].step \notin {"issue", "reply"}

\* A step of a handler that leaves tokens and cookies alone, or none.
Works ==
  \/ UNCHANGED call
  \/ \E r \in Calls, c \in Handler : Opens(r, c) \/ GoesOn(r, c)
  \/ \E r \in Calls : Ends(r)

Issues(r, t) ==
  /\ call[r].step = "issue" /\ token[t].state = "none"
  /\ token'[t].state = "valid" /\ token'[t].user = call[r].user
  /\ token'[t].parent = call[r].token
  /\ \A x \in Tokens \ {t} : Columns(x)
  /\ UNCHANGED <<cut, jar, upset>>
  /\ \/ call[r].client = Nobody /\ Becomes(r, NoCall)
     \/ \E c \in Handler : /\ Becomes(r, c) /\ c.op = call[r].op /\ c.user = call[r].user
                           /\ c.client = call[r].client /\ c.client # Nobody
                           /\ c.step = "reply" /\ c.token = t

Refreshing(b) == \E q \in Calls : call[q].op = "refreshToken" /\ call[q].client = b

Refreshes(r, b) ==
  /\ Idle(r) /\ SameTokens /\ UNCHANGED <<cut, jar>>
  /\ jar[b] \in Tokens
  /\ upset' = IF Refreshing(b) THEN upset \cup {b} ELSE upset
  /\ \E c \in Handler :
       /\ Becomes(r, c) /\ c.op = "refreshToken" /\ c.client = b /\ c.token = jar[b]
       /\ c.step \in {"rotate", "revokeTokens"} /\ (c.step = "rotate" => token[jar[b]].state = "valid")

Rotates(r) ==
  LET t == call[r].token IN
  /\ t \in Tokens /\ call[r].op = "refreshToken" /\ call[r].step = "rotate"
  /\ token'[t].state = "revoked"
  /\ token'[t].user = token[t].user /\ token'[t].parent = token[t].parent
  /\ \A x \in Tokens \ {t} : Columns(x)
  /\ UNCHANGED <<cut, jar, upset>>
  /\ \E c \in Handler : Becomes(r, c) /\ SameWork(r, c) /\ c.step = "issue"

RevokesAll(u) ==
  /\ \A t \in Tokens :
       /\ token'[t].user = token[t].user /\ token'[t].parent = token[t].parent
       /\ token[t].user = u => token'[t].state \in {"revoked", "deleted"}
       /\ token[t].user # u => token'[t].state = token[t].state
  /\ cut' = cut \cup TokensOf(u) /\ upset' = upset \cup ClientsOf(u)
  /\ UNCHANGED jar
  /\ Works

Leaves(r, b) ==
  /\ SameTokens /\ UNCHANGED <<cut, jar>>
  /\ \/ Idle(r) /\ UNCHANGED upset
     \/ call[r].client = b /\ upset' = upset \cup {b}
  /\ \E c \in Handler :
       /\ Becomes(r, c) /\ c.op = "logout" /\ c.client = b /\ c.token = jar[b]
       /\ c.step \in {"reply", "revokeTokens"}

Replies(r) ==
  /\ call[r].step = "reply" /\ Becomes(r, NoCall)
  /\ SameTokens /\ UNCHANGED <<cut, upset>>
  /\ jar' = [jar EXCEPT ![call[r].client] =
               IF call[r].op = "logout" THEN Nobody ELSE call[r].token]

Drops(r) ==
  /\ ~ Idle(r) /\ Becomes(r, NoCall)
  /\ SameTokens /\ UNCHANGED <<cut, jar>>
  /\ upset' = upset \cup ({call[r].client} \ {Nobody})

Shape ==
  \/ Quiet /\ Works
  \/ \E r \in Calls, t \in Tokens : Issues(r, t)
  \/ \E r \in Calls, b \in Clients : Refreshes(r, b) \/ Leaves(r, b)
  \/ \E r \in Calls : Rotates(r) \/ Replies(r) \/ Drops(r)
  \/ \E u \in Users : RevokesAll(u)
-----------------------------------------------------------------------------
LEMMA StillQuiet ==
  ASSUME UNCHANGED <<rows, jar, history>>  PROVE Quiet
  BY DEF Quiet, SameTokens, Columns, rows, history

LEMMA OpensShape ==
  ASSUME TypeInv, NEW r \in Calls, NEW c \in Handler, Start(r, c), c.token = Nobody,
         c.step \notin {"issue", "reply"}, c.op # "refreshToken"
  PROVE  Works
  <1>1. Idle(r) /\ call' = [call EXCEPT ![r] = c] /\ call \in [Calls -> Handler]
    BY DEF Start, TypeInv, TypeOK
  <1>2. Becomes(r, c)
    BY <1>1 DEF Becomes
  <1> QED  BY <1>1, <1>2 DEF Works, Opens

LEMMA GoesShape ==
  ASSUME TypeInv, NEW r \in Calls, NEW step \in Steps, GoTo(r, step),
         call[r].step \notin {"issue", "reply"},
         step = "issue" => call[r].op \in {"login", "register"},
         step = "reply" => call[r].op = "logout"
  PROVE  Works
  <1> DEFINE c == [call[r] EXCEPT !.step = step]
  <1>1. call \in [Calls -> Handler] /\ call[r] \in Handler
    BY DEF TypeInv, TypeOK
  <1>2. c \in Handler /\ SameWork(r, c) /\ c.step = step
    BY <1>1 DEF Handler, SameWork
  <1>3. call' = [call EXCEPT ![r] = c]
    BY DEF GoTo
  <1> HIDE DEF c
  <1>4. Becomes(r, c)
    BY <1>1, <1>3 DEF Becomes
  <1>5. GoesOn(r, c)
    BY <1>2, <1>4 DEF GoesOn, SameWork
  <1> QED  BY <1>2, <1>5 DEF Works

LEMMA EndsShape ==
  ASSUME TypeInv, NEW r \in Calls, Finish(r), call[r].step \notin {"issue", "reply"}
  PROVE  Works
  BY FinishType DEF Works, Ends

LEMMA RevokeShape ==
  ASSUME TypeInv, NEW u \in Users, RevokeTokens(u) \/ DeleteTokens(u), UNCHANGED jar, Works
  PROVE  RevokesAll(u)
  <1>1. ASSUME NEW t \in Tokens
        PROVE  /\ token'[t].user = token[t].user /\ token'[t].parent = token[t].parent
               /\ token[t].user = u => token'[t].state \in {"revoked", "deleted"}
               /\ token[t].user # u => token'[t].state = token[t].state
    <2>1. token[t] \in TokenRow /\ TokenFacts(t)
      BY DEF TypeInv, TypeOK
    <2>2. token[t].state \in {"none", "valid", "revoked", "deleted"}
      BY <2>1 DEF TokenRow
    <2>3. token[t].user = u => token[t].state # "none"
      BY <2>1 DEF TokenFacts
    <2> QED  BY <2>1, <2>2, <2>3 DEF RevokeTokens, DeleteTokens, TokenRow
  <1> QED  BY <1>1 DEF RevokesAll, RevokeTokens, DeleteTokens

LEMMA LoginShape ==
  ASSUME TypeInv, NEW r \in Calls, LoginSteps(r)
  PROVE  Shape
  <1>b. call[r] \in Handler /\ HandlerFacts(call[r])
    BY DEF TypeInv, TypeOK
  <1>c. TypeInv' /\ call' \in [Calls -> Handler]
    BY LoginType DEF TypeInv, TypeOK
  <1>1. ASSUME NEW u \in Users, NEW c \in Clients, Login(r, u, c)  PROVE Shape
    <2>1. call' = [call EXCEPT ![r] = call'[r]] /\ call'[r] \in Handler /\ Idle(r)
      BY <1>1, <1>c DEF Login, Start, TypeInv, TypeOK
    <2>2. call'[r].op = "login" /\ call'[r].token = Nobody
          /\ call'[r].step \in {"unlock", "compare"}
      BY <1>1 DEF Login, Start, NoCall, TypeInv, TypeOK
    <2>3. Opens(r, call'[r])
      BY <2>1, <2>2 DEF Opens, Becomes, TypeInv, TypeOK
    <2> QED  BY <1>1, <2>1, <2>3, StillQuiet DEF Login, Works, Shape
  <1>2. ASSUME AutoUnlock(r) \/ WrongPassword(r)  PROVE Shape
    <2>1. Quiet
      BY <1>2 DEF AutoUnlock, WrongPassword, Quiet, SameTokens, Columns
    <2>2. Works
      BY <1>2, GoesShape DEF AutoUnlock, WrongPassword, At, Steps
    <2> QED  BY <2>1, <2>2 DEF Shape
  <1>3. ASSUME CountFailures(r) \/ AutoLock(r)  PROVE Shape
    <2>1. Quiet
      BY <1>3 DEF CountFailures, AutoLock, Quiet, SameTokens, Columns, rows, history
    <2>2. Works
      BY <1>3, GoesShape, EndsShape DEF CountFailures, AutoLock, At, Steps
    <2> QED  BY <2>1, <2>2 DEF Shape
  <1>4. ASSUME NEW s \in Sessions, CreateSession(r, s)  PROVE Shape
    <2>1. Quiet
      BY <1>4 DEF CreateSession, Quiet, SameTokens, Columns, history
    <2>2. Works
      BY <1>4, GoesShape DEF CreateSession, At, Steps
    <2> QED  BY <2>1, <2>2 DEF Shape
  <1>5. ASSUME NEW t \in Tokens, IssueTokens(r, t)  PROVE Shape
    <2> DEFINE new == [user |-> call[r].user, state |-> "valid", expired |-> FALSE,
                       access |-> "good", parent |-> call[r].token]
               h == [call[r] EXCEPT !.step = "reply", !.token = t]
    <2>1. token' = [token EXCEPT ![t] = new] /\ token \in [Tokens -> TokenRow]
          /\ call[r].step = "issue" /\ token[t].state = "none"
          /\ UNCHANGED <<cut, jar, upset>>
      BY <1>5 DEF IssueTokens, NoToken, TypeInv, TypeOK
    <2>2. new.user = call[r].user /\ new.state = "valid" /\ new.parent = call[r].token
      OBVIOUS
    <2>3. h \in Handler /\ h.op = call[r].op /\ h.user = call[r].user
          /\ h.client = call[r].client /\ h.step = "reply" /\ h.token = t
      BY <1>b DEF Handler, Steps
    <2>4. \/ call[r].client = Nobody /\ Finish(r)
          \/ call[r].client # Nobody /\ call' = [call EXCEPT ![r] = h]
      BY <1>5 DEF IssueTokens
    <2> HIDE DEF new, h
    <2>5. token'[t] = new /\ \A x \in Tokens \ {t} : Columns(x)
      BY <2>1 DEF Columns
    <2>6. \/ call[r].client = Nobody /\ Becomes(r, NoCall)
          \/ call[r].client # Nobody /\ Becomes(r, h)
      BY <2>4, FinishType DEF Becomes, TypeInv, TypeOK
    <2> QED  BY <2>1, <2>2, <2>3, <2>5, <2>6 DEF Shape, Issues
  <1> QED  BY <1>1, <1>2, <1>3, <1>4, <1>5 DEF LoginSteps

LEMMA SignOutShape ==
  ASSUME TypeInv, NEW r \in Calls, NEW b \in Clients, NEW s \in Sessions \cup {Nobody},
         SignOut(r, b, s), UNCHANGED <<cut, jar>>,
         (Idle(r) /\ UNCHANGED upset) \/ (call[r].client = b /\ upset' = upset \cup {b})
  PROVE  Shape
  <1>1. SameTokens
    BY SignOutType DEF SameTokens, Columns, TypeInv, TypeOK, TokenRow
  <1>2. PICK h \in Handler : /\ Becomes(r, h) /\ h.op = "logout" /\ h.client = b
                             /\ h.token = jar[b] /\ h.step \in {"reply", "revokeTokens"}
    BY SignOutType
  <1> QED  BY <1>1, <1>2 DEF Shape, Leaves

LEMMA TokensShape ==
  ASSUME TypeInv, NEW r \in Calls, TokenSteps(r)
  PROVE  Shape
  <1>b. call[r] \in Handler /\ HandlerFacts(call[r]) /\ call \in [Calls -> Handler]
    BY DEF TypeInv, TypeOK
  <1>c. TypeInv' /\ call' \in [Calls -> Handler]
    BY TokensType DEF TypeInv, TypeOK
  <1>1. ASSUME NEW c \in Clients, Refresh(r, c)  PROVE Shape
    <2>1. /\ jar[c] \in Tokens /\ UNCHANGED <<scene, rows, jar, cut>>
          /\ upset' = IF Refreshing(c) THEN upset \cup {c} ELSE upset
      BY <1>1 DEF Refresh, Refreshing, TypeInv, TypeOK
    <2>2. Idle(r) /\ call' = [call EXCEPT ![r] = call'[r]] /\ call'[r] \in Handler
      BY <1>1, <1>b, <1>c DEF Refresh, Start
    <2>3. /\ call'[r].op = "refreshToken" /\ call'[r].client = c /\ call'[r].token = jar[c]
          /\ call'[r].step = IF token[jar[c]].state = "valid" THEN "rotate" ELSE "revokeTokens"
      BY <1>1, <1>b DEF Refresh, Start, NoCall
    <2>4. Becomes(r, call'[r])
      BY <1>b, <2>2 DEF Becomes
    <2>5. SameTokens
      BY <2>1 DEF SameTokens, Columns, rows
    <2> QED  BY <2>1, <2>2, <2>3, <2>4, <2>5 DEF Shape, Refreshes
  <1>2. ASSUME Rotate(r)  PROVE Shape
    <2> DEFINE t == call[r].token
    <2>1. t \in Tokens /\ call[r].op = "refreshToken" /\ call[r].step = "rotate"
      BY <1>2, <1>b DEF Rotate, At, HandlerFacts
    <2>2. token' = [token EXCEPT ![t].state = "revoked"] /\ token \in [Tokens -> TokenRow]
          /\ UNCHANGED <<cut, jar, upset>> /\ GoTo(r, "issue")
      BY <1>2 DEF Rotate, history, TypeInv, TypeOK
    <2> HIDE DEF t
    <2>3. /\ token'[t].state = "revoked" /\ token'[t].user = token[t].user
          /\ token'[t].parent = token[t].parent
          /\ \A x \in Tokens \ {t} : Columns(x)
      BY <2>1, <2>2 DEF Columns, TokenRow
    <2>4. HandlerFacts([call[r] EXCEPT !.step = "issue"])
      BY <1>b, <2>1 DEF HandlerFacts, Handler
    <2>5. Becomes(r, call'[r]) /\ At2(call[r], call'[r], "issue") /\ call'[r] \in Handler
      BY <2>2, <2>4, GoToType DEF Steps
    <2> QED  BY <2>1, <2>2, <2>3, <2>5 DEF Shape, Rotates, At2, SameWork, t
  <1>3. ASSUME RevokeAllTokens(r)  PROVE Shape
    <2>1. call[r].user \in Users /\ call[r].step = "revokeTokens"
      BY <1>3, <1>b DEF RevokeAllTokens, HandlerFacts
    <2>2. RevokeTokens(call[r].user) /\ UNCHANGED jar
      BY <1>3 DEF RevokeAllTokens
    <2>3. Works
      BY <1>3, <2>1, GoesShape DEF RevokeAllTokens, Steps
    <2> QED  BY <2>1, <2>2, <2>3, RevokeShape DEF Shape
  <1>4. ASSUME RevokeAllSessions(r)  PROVE Shape
    <2>1. call[r].step = "revokeSessions"
          /\ call[r].op \in {"refreshToken", "logout", "resetPassword"}
      BY <1>4, <1>b DEF RevokeAllSessions, HandlerFacts
    <2>2. \/ call[r].op = "logout" /\ GoTo(r, "reply")
          \/ GoTo(r, "alarm") \/ Finish(r)
      BY <1>4, <2>1 DEF RevokeAllSessions
    <2>3. Works
      BY <2>1, <2>2, GoesShape, EndsShape DEF Steps
    <2>4. Quiet
      BY <1>4 DEF RevokeAllSessions, Quiet, SameTokens, Columns, history
    <2> QED  BY <2>3, <2>4 DEF Shape
  <1>5. ASSUME NEW c \in Clients, NEW s \in Sessions \cup {Nobody}, Logout(r, c, s)
        PROVE  Shape
    BY <1>5, SignOutShape DEF Logout, history
  <1>6. ASSUME Reply(r)  PROVE Shape
    <2>1. SameTokens /\ UNCHANGED <<cut, upset>>
      BY <1>6 DEF Reply, SameTokens, Columns, rows, history
    <2>2. Becomes(r, NoCall)
      BY <1>6, FinishType DEF Reply
    <2> QED  BY <1>6, <2>1, <2>2 DEF Shape, Replies, Reply
  <1>7. ASSUME RefreshRefused(r)  PROVE Shape
    <2>1. call[r].client \in Clients
      BY <1>7, <1>b DEF RefreshRefused, HandlerFacts
    <2> QED  BY <1>7, <2>1, SignOutShape DEF RefreshRefused
  <1>8. ASSUME Drop(r)  PROVE Shape
    <2>1. SameTokens /\ UNCHANGED <<cut, jar>>
      BY <1>8 DEF Drop, SameTokens, Columns, rows
    <2>2. Becomes(r, NoCall)
      BY <1>8, FinishType DEF Drop
    <2> QED  BY <1>8, <2>1, <2>2 DEF Shape, Drops, Drop
  <1>9. ASSUME NEW t \in Tokens, ChangePassword(r, t)  PROVE Shape
    <2>1. call' = [call EXCEPT ![r] = call'[r]] /\ call'[r] \in Handler /\ Idle(r)
      BY <1>9, <1>b, <1>c DEF ChangePassword, Start
    <2>2. call'[r].op = "changePassword" /\ call'[r].token = Nobody
          /\ call'[r].step = "password"
      BY <1>9, <1>b DEF ChangePassword, Start, NoCall
    <2>3. Opens(r, call'[r])
      BY <1>b, <2>1, <2>2 DEF Opens, Becomes
    <2> QED  BY <1>9, <2>1, <2>3, StillQuiet DEF ChangePassword, Works, Shape
  <1>10. ASSUME StorePassword(r)  PROVE Shape
    <2>1. Quiet
      BY <1>10 DEF StorePassword, Quiet, SameTokens, Columns, history
    <2>2. Works
      BY <1>10, GoesShape DEF StorePassword, Steps
    <2> QED  BY <2>1, <2>2 DEF Shape
  <1>11. ASSUME ForgetTokens(r)  PROVE Shape
    <2>1. call[r].user \in Users /\ call[r].step = "deleteTokens"
      BY <1>11, <1>b DEF ForgetTokens, At, HandlerFacts
    <2>2. DeleteTokens(call[r].user) /\ UNCHANGED jar
      BY <1>11 DEF ForgetTokens
    <2>3. Works
      BY <1>11, <2>1, EndsShape DEF ForgetTokens
    <2> QED  BY <2>1, <2>2, <2>3, RevokeShape DEF Shape
  <1> QED
    BY <1>1, <1>2, <1>3, <1>4, <1>5, <1>6, <1>7, <1>8, <1>9, <1>10, <1>11 DEF TokenSteps

LEMMA OtpShape ==
  ASSUME TypeInv, NEW r \in Calls, OtpSteps(r)
  PROVE  Shape
  <1>b. call[r] \in Handler /\ HandlerFacts(call[r]) /\ call \in [Calls -> Handler]
    BY DEF TypeInv, TypeOK
  <1>c. TypeInv' /\ call' \in [Calls -> Handler]
    BY OtpType DEF TypeInv, TypeOK
  <1>1. ASSUME NEW u \in Users, NEW p \in Purposes, RequestOtp(r, u, p)  PROVE Shape
    <2>1. call' = [call EXCEPT ![r] = call'[r]] /\ call'[r] \in Handler /\ Idle(r)
      BY <1>1, <1>b, <1>c DEF RequestOtp, Start
    <2>2. call'[r].op = "generateOtp" /\ call'[r].token = Nobody /\ call'[r].step = "create"
      BY <1>1, <1>b DEF RequestOtp, Start, NoCall
    <2>3. Opens(r, call'[r])
      BY <1>b, <2>1, <2>2 DEF Opens, Becomes
    <2> QED  BY <1>1, <2>1, <2>3, StillQuiet DEF RequestOtp, Works, Shape
  <1>2. ASSUME NEW op \in OtpOps, NEW u \in Users, NEW p \in Purposes, NEW o \in Otps,
               SubmitOtp(r, op, u, p, o)
        PROVE  Shape
    <2>1. call' = [call EXCEPT ![r] = call'[r]] /\ call'[r] \in Handler /\ Idle(r)
      BY <1>2, <1>b, <1>c DEF SubmitOtp, Start
    <2>2. call'[r].op = op /\ call'[r].token = Nobody /\ call'[r].step = "consume"
      BY <1>2, <1>b DEF SubmitOtp, Start, NoCall
    <2>3. Opens(r, call'[r])
      BY <1>b, <2>1, <2>2 DEF Opens, Becomes, OtpOps
    <2> QED  BY <1>2, <2>1, <2>3, StillQuiet DEF SubmitOtp, Works, Shape
  <1>3. ASSUME NEW o \in Otps, CreateOtp(r, o)  PROVE Shape
    <2>1. Quiet
      BY <1>3 DEF CreateOtp, Quiet, SameTokens, Columns, history
    <2> QED  BY <1>3, <2>1, EndsShape DEF CreateOtp, At, Shape
  <1>4. ASSUME WrongOtp(r)  PROVE Shape
    <2>1. Quiet
      BY <1>4 DEF WrongOtp, Quiet, SameTokens, Columns
    <2> QED  BY <1>4, <2>1, EndsShape DEF WrongOtp, Shape
  <1>5. ASSUME ConsumeOtp(r)  PROVE Shape
    <2>1. Quiet
      BY <1>5 DEF ConsumeOtp, Quiet, SameTokens, Columns
    <2>2. Works
      BY <1>5, GoesShape DEF ConsumeOtp, Steps
    <2> QED  BY <2>1, <2>2 DEF Shape
  <1>6. ASSUME CreateUser(r)  PROVE Shape
    <2>1. Quiet
      BY <1>6 DEF CreateUser, Quiet, SameTokens, Columns, history
    <2>2. call[r].op = "register" /\ call[r].step = "createUser"
      BY <1>6 DEF CreateUser, At
    <2>3. call' = [call EXCEPT ![r] = call'[r]] /\ call'[r] \in Handler
      BY <1>6, <1>b, <1>c DEF CreateUser
    <2>4. SameWork(r, call'[r]) /\ call'[r].step = "issue"
      BY <1>6, <1>b DEF CreateUser, SameWork, Handler
    <2>5. GoesOn(r, call'[r])
      BY <1>b, <2>2, <2>3, <2>4 DEF GoesOn, SameWork, Becomes
    <2> QED  BY <2>1, <2>3, <2>5 DEF Works, Shape
  <1> QED  BY <1>1, <1>2, <1>3, <1>4, <1>5, <1>6 DEF OtpSteps

LEMMA AdminShape ==
  ASSUME TypeInv, AdminSteps
  PROVE  Shape
  <1>b. call \in [Calls -> Handler]
    BY DEF TypeInv, TypeOK
  <1>c. TypeInv' /\ call' \in [Calls -> Handler]
    BY AdminType DEF TypeInv, TypeOK
  <1>d. NoCall \in Handler /\ NoCall.token = Nobody
    BY NoCallFacts DEF NoCall
  <1>1. ASSUME NEW u \in Users, NEW status \in UserStatus, UpdateUser(u, status)
        PROVE  Shape
    BY <1>1 DEF UpdateUser, Quiet, SameTokens, Columns, Works, Shape
  <1>2. ASSUME NEW r \in Calls, NEW u \in Users, LockUser(r, u)  PROVE Shape
    <2> DEFINE flag == (account[u].status = "ACTIVE")
               h == [NoCall EXCEPT !.op = "lockUser", !.user = u, !.step = "update",
                                   !.flag = flag]
    <2>0. flag \in BOOLEAN /\ "lockUser" \in Endpoints /\ "update" \in Steps
      BY DEF Endpoints, Steps
    <2> HIDE DEF flag
    <2>1. h \in Handler /\ h.op # "refreshToken" /\ h.step = "update" /\ h.token = Nobody
      <3>1. NoCall \in Handler
        BY <1>d
      <3>2. h \in Handler /\ h.op = "lockUser" /\ h.step = "update"
        BY <3>1, <2>0 DEF Handler
      <3>3. h.token = Nobody
        BY <1>d DEF Handler
      <3> QED  BY <3>2, <3>3
    <2>2. Start(r, h)
      BY <1>2 DEF LockUser, flag
    <2> HIDE DEF h
    <2>3. Works
      BY <2>1, <2>2, OpensShape
    <2> QED  BY <1>2, <2>3, StillQuiet DEF LockUser, Shape
  <1>2b. ASSUME NEW r \in Calls, NEW u \in Users, UnlockAccount(r, u)  PROVE Shape
    <2> DEFINE h == [NoCall EXCEPT !.op = "unlockAccount", !.user = u, !.step = "update"]
    <2>0. "unlockAccount" \in Endpoints /\ "update" \in Steps
      BY DEF Endpoints, Steps
    <2>1. h \in Handler /\ h.op # "refreshToken" /\ h.step = "update" /\ h.token = Nobody
      BY <1>d, <2>0 DEF Handler
    <2>2. Start(r, h)
      BY <1>2b DEF UnlockAccount
    <2> HIDE DEF h
    <2>3. Works
      BY <2>1, <2>2, OpensShape
    <2> QED  BY <1>2b, <2>3, StillQuiet DEF UnlockAccount, Shape
  <1>3. ASSUME NEW r \in Calls, WriteStatus(r)  PROVE Shape
    <2>1. Quiet
      BY <1>3 DEF WriteStatus, Quiet, SameTokens, Columns
    <2> QED  BY <1>3, <2>1, EndsShape DEF WriteStatus, Shape
  <1>4. ASSUME NEW u \in Users, DeleteUser(u)  PROVE Shape
    <2>1. DeleteTokens(u) /\ UNCHANGED jar /\ Works
      BY <1>4 DEF DeleteUser, Works
    <2> QED  BY <2>1, RevokeShape DEF Shape
  <1>5. ASSUME NEW u \in Users, RestoreUser(u)  PROVE Shape
    BY <1>5 DEF RestoreUser, Quiet, SameTokens, Columns, Works, Shape, history
  <1>6. ASSUME NEW t \in Tokens, NEW S \in SUBSET Sessions, RevokeSessions(t, S)
        PROVE  Shape
    BY <1>6 DEF RevokeSessions, Quiet, SameTokens, Columns, Works, Shape, history
  <1> QED  BY <1>1, <1>2, <1>2b, <1>3, <1>4, <1>5, <1>6 DEF AdminSteps

LEMMA TimeShape ==
  ASSUME TypeInv, Time
  PROVE  Shape
  <1>1. ASSUME NEW u \in Users, LockAges(u) \/ FailureAges(u)  PROVE Shape
    BY <1>1 DEF LockAges, FailureAges, Quiet, SameTokens, Columns, Works, Shape, history
  <1>2. ASSUME NEW t \in Tokens, TokenExpires(t) \/ AccessExpires(t) \/ BlacklistLapses(t)
        PROVE  Shape
    <2>a. PICK a \in {"good", "dead"} :
            \/ token' = [token EXCEPT ![t].access = a]
            \/ token' = [token EXCEPT ![t].expired = TRUE]
      BY <1>2 DEF TokenExpires, AccessExpires, BlacklistLapses
    <2>b. token \in [Tokens -> TokenRow] /\ token[t] \in TokenRow
      BY DEF TypeInv, TypeOK
    <2>c. \/ token'[t] = [token[t] EXCEPT !.access = a]
          \/ token'[t] = [token[t] EXCEPT !.expired = TRUE]
      BY <2>a, <2>b
    <2>d. Columns(t)
      <3>1. CASE token'[t] = [token[t] EXCEPT !.access = a]
        BY <2>b, <3>1 DEF Columns, TokenRow
      <3>2. CASE token'[t] = [token[t] EXCEPT !.expired = TRUE]
        BY <2>b, <3>2 DEF Columns, TokenRow
      <3> QED  BY <2>c, <3>1, <3>2
    <2>1. SameTokens
      BY <2>a, <2>b, <2>d DEF SameTokens, Columns
    <2> QED  BY <1>2, <2>1
             DEF TokenExpires, AccessExpires, BlacklistLapses, Quiet, Works, Shape, history
  <1>3. ASSUME NEW o \in Otps, OtpExpires(o)  PROVE Shape
    BY <1>3 DEF OtpExpires, Quiet, SameTokens, Columns, Works, Shape, history
  <1> QED  BY <1>1, <1>2, <1>3 DEF Time

LEMMA Shapes == TypeInv /\ [Next]_vars => Shape
  <1> SUFFICES ASSUME TypeInv, [Next]_vars PROVE Shape
    OBVIOUS
  <1>1. CASE UNCHANGED vars
    <2>1. UNCHANGED <<rows, jar, history>> /\ UNCHANGED call
      BY <1>1 DEF vars, rows, history
    <2> QED  BY <2>1, StillQuiet DEF Works, Shape
  <1> QED  BY <1>1, LoginShape, TokensShape, OtpShape, AdminShape, TimeShape DEF Next

-----------------------------------------------------------------------------
(* What is revoked or deleted stays so; a handler that is about to issue    *)
(* tokens for another one has revoked it.                                   *)
Settled(t) == token[t].state \in {"revoked", "deleted"}

TokenInv ==
  /\ \A t \in Tokens : token[t].parent # Nobody => Settled(token[t].parent)
  /\ \A t \in cut : Settled(t)
  /\ \A r \in Calls : call[r].step = "issue" /\ call[r].token # Nobody
                        => Settled(call[r].token)

LEMMA SettledStays ==
  ASSUME Shape
  PROVE  \A t \in Tokens : Settled(t) => token'[t].state \in {"revoked", "deleted"}
  <1> SUFFICES ASSUME NEW t \in Tokens, Settled(t)
               PROVE  token'[t].state \in {"revoked", "deleted"}
    OBVIOUS
  <1> USE DEF Settled
  <1>1. ASSUME SameTokens  PROVE token'[t].state \in {"revoked", "deleted"}
    BY <1>1 DEF SameTokens, Columns
  <1>2. ASSUME NEW r \in Calls, NEW x \in Tokens, Issues(r, x)
        PROVE  token'[t].state \in {"revoked", "deleted"}
    BY <1>2 DEF Issues, Columns
  <1>3. ASSUME NEW r \in Calls, Rotates(r)  PROVE token'[t].state \in {"revoked", "deleted"}
    BY <1>3 DEF Rotates, Columns
  <1>4. ASSUME NEW u \in Users, RevokesAll(u)
        PROVE  token'[t].state \in {"revoked", "deleted"}
    BY <1>4 DEF RevokesAll
  <1> QED
    BY <1>1, <1>2, <1>3, <1>4 DEF Shape, Quiet, Refreshes, Leaves, Replies, Drops

LEMMA TokenInit == Init => TokenInv
  BY DEF Init, TokenInv, NoToken, NoCall

\* Where a parent, a handler about to issue and a cut token come from.
LEMMA ParentFrom ==
  ASSUME Shape, NEW t \in Tokens
  PROVE  \/ token'[t].parent = token[t].parent
         \/ \E r \in Calls : call[r].step = "issue" /\ token'[t].parent = call[r].token
  <1>1. ASSUME NEW r \in Calls, NEW x \in Tokens, Issues(r, x)
        PROVE  \/ token'[t].parent = token[t].parent
               \/ call[r].step = "issue" /\ token'[t].parent = call[r].token
    BY <1>1 DEF Issues, Columns
  <1>2. ASSUME NEW r \in Calls, Rotates(r)  PROVE token'[t].parent = token[t].parent
    BY <1>2 DEF Rotates, Columns
  <1> QED
    BY <1>1, <1>2 DEF Shape, Quiet, SameTokens, Columns, Refreshes, Leaves, Replies, Drops,
                      RevokesAll

LEMMA CutFrom ==
  ASSUME Shape, NEW t \in cut'
  PROVE  t \in cut \/ (\E u \in Users : RevokesAll(u) /\ t \in TokensOf(u))
  BY DEF Shape, Quiet, Issues, Refreshes, Leaves, Rotates, Replies, Drops, RevokesAll

LEMMA IssueFrom ==
  ASSUME TypeInv, Shape, NEW r \in Calls, call'[r].step = "issue"
  PROVE  \/ call'[r] = call[r]
         \/ Rotates(r) /\ call'[r].token = call[r].token
         \/ /\ call'[r].op \in {"login", "register"} /\ call'[r].op = call[r].op
            /\ call'[r].token = call[r].token /\ call[r].step # "reply"
  <1> DEFINE G == \/ call'[r] = call[r]
                  \/ Rotates(r) /\ call'[r].token = call[r].token
                  \/ /\ call'[r].op \in {"login", "register"} /\ call'[r].op = call[r].op
                     /\ call'[r].token = call[r].token /\ call[r].step # "reply"
  <1>1. ASSUME Works  PROVE G
    BY <1>1 DEF Works, Opens, GoesOn, Ends, Becomes, SameWork, NoCall
  <1>2. ASSUME NEW q \in Calls, NEW x \in Tokens, Issues(q, x)  PROVE G
    BY <1>2 DEF Issues, Becomes, NoCall
  <1>3. ASSUME NEW q \in Calls, NEW b \in Clients, Refreshes(q, b) \/ Leaves(q, b)  PROVE G
    BY <1>3 DEF Refreshes, Leaves, Becomes
  <1>4. ASSUME NEW q \in Calls, Replies(q) \/ Drops(q)  PROVE G
    BY <1>4 DEF Replies, Drops, Becomes, NoCall
  <1>5. ASSUME NEW q \in Calls, Rotates(q)  PROVE G
    BY <1>5 DEF Rotates, Becomes, SameWork
  <1> QED  BY <1>1, <1>2, <1>3, <1>4, <1>5 DEF Shape, RevokesAll

LEMMA TokenNext == TypeInv /\ TokenInv /\ TypeInv' /\ Shape => TokenInv'
  <1> SUFFICES ASSUME TypeInv, TokenInv, TypeInv', Shape PROVE TokenInv'
    OBVIOUS
  <1>a. /\ token \in [Tokens -> TokenRow] /\ cut \in SUBSET Tokens
        /\ \A r \in Calls : HandlerFacts(call[r])
        /\ \A r \in Calls : call[r].token \in Tokens \cup {Nobody}
        /\ \A t \in Tokens : token[t].parent \in Tokens \cup {Nobody}
    BY DEF TypeInv, TypeOK, Handler, TokenRow
  <1>1. ASSUME NEW t \in Tokens, token'[t].parent # Nobody
        PROVE  token'[token'[t].parent].state \in {"revoked", "deleted"}
    <2>1. token'[t].parent \in Tokens /\ Settled(token'[t].parent)
      BY <1>a, <1>1, ParentFrom DEF TokenInv, Settled
    <2> QED  BY <2>1, SettledStays
  <1>2. ASSUME NEW t \in cut'  PROVE token'[t].state \in {"revoked", "deleted"}
    <2>1. ASSUME t \in cut  PROVE token'[t].state \in {"revoked", "deleted"}
      BY <1>a, <2>1, SettledStays DEF TokenInv
    <2>2. ASSUME NEW u \in Users, RevokesAll(u), t \in TokensOf(u)
          PROVE  token'[t].state \in {"revoked", "deleted"}
      BY <2>2 DEF RevokesAll, TokensOf
    <2> QED  BY <2>1, <2>2, CutFrom
  <1>3. ASSUME NEW r \in Calls, call'[r].step = "issue", call'[r].token # Nobody
        PROVE  token'[call'[r].token].state \in {"revoked", "deleted"}
    <2>1. CASE call'[r] = call[r]
      <3>1. call'[r].token \in Tokens /\ Settled(call'[r].token)
        BY <1>3, <1>a, <2>1 DEF TokenInv, Settled
      <3> QED  BY <3>1, SettledStays
    <2>2. CASE Rotates(r) /\ call'[r].token = call[r].token
      BY <2>2 DEF Rotates
    <2>3. CASE /\ call'[r].op \in {"login", "register"} /\ call'[r].op = call[r].op
               /\ call'[r].token = call[r].token /\ call[r].step # "reply"
      BY <1>3, <1>a, <2>3 DEF HandlerFacts
    <2> QED  BY <1>3, <2>1, <2>2, <2>3, IssueFrom
  <1> QED  BY <1>1, <1>2, <1>3 DEF TokenInv, Settled

(* A token that is exchanged is revoked before the new one exists, however  *)
(* many refreshes, logouts and resets are in flight.                        *)
THEOREM RotatedBeforeIssuedHolds == Spec => []RotatedBeforeIssued
  <1>1. TypeInv /\ TokenInv => RotatedBeforeIssued
    BY DEF TypeInv, TokenInv, RotatedBeforeIssued, Settled
  <1> QED
    BY <1>1, TypeInit, TypeNext, TokenInit, TokenNext, Shapes, PTL DEF Spec

(* What revokes all tokens of a user leaves none of those that existed      *)
(* valid, then or later.                                                    *)
THEOREM NoSurvivorHolds == Spec => []NoSurvivor
  <1>1. TypeInv /\ TokenInv => NoSurvivor
    BY DEF TypeInv, TokenInv, NoSurvivor, Settled
  <1> QED
    BY <1>1, TypeInit, TypeNext, TokenInit, TokenNext, Shapes, PTL DEF Spec
-----------------------------------------------------------------------------
(* Who holds a token: the browser with the cookie, or one that waits for an *)
(* answer about it.                                                         *)
Holds(c, t) == jar[c] = t \/ \E r \in Calls : call[r].client = c /\ call[r].token = t

\* An answer that brings new tokens.
Brings(c) == c.step = "reply" /\ c.op \in {"login", "refreshToken"}
\* A refresh that has revoked the old token and not yet been answered.
Owed(c) ==
  \E r \in Calls : /\ call[r].client = c /\ call[r].op = "refreshToken"
                   /\ call[r].step \in {"issue", "reply"}

OneHolder ==
  /\ \A r \in Calls : call[r].token \in Tokens
       => call[r].client \in Clients /\ token[call[r].token].state # "none"
  /\ \A c \in Clients : jar[c] \in Tokens => token[jar[c]].state # "none"
  /\ \A t \in Tokens, c, d \in Clients : Holds(c, t) /\ Holds(d, t) => c = d

FreshAnswers ==
  \A r \in Calls : Brings(call[r]) =>
    /\ call[r].token \in Tokens /\ token[call[r].token].user = call[r].user
    /\ \A c \in Clients : jar[c] # call[r].token
    /\ \A q \in Calls \ {r} : call[q].token # call[r].token
    /\ call[r].client \notin upset => token[call[r].token].state = "valid"

WorkingCookies ==
  \A c \in Clients \ upset :
    jar[c] \in Tokens => token[jar[c]].state = "valid" \/ Owed(c)

BrowserInv == OneHolder /\ FreshAnswers /\ WorkingCookies

LEMMA BrowserInit == Init => BrowserInv
  BY DEF Init, BrowserInv, OneHolder, FreshAnswers, WorkingCookies, Holds, Brings, NoCall

\* Where the tokens of a handler, of a jar and of an answer come from.
LEMMA CallFrom ==
  ASSUME Shape, NEW r \in Calls, NEW t \in Tokens, call'[r].token = t
  PROVE  \/ call[r].token = t /\ call'[r].client = call[r].client
         \/ call'[r].client \in Clients /\ jar[call'[r].client] = t
         \/ /\ Issues(r, t) /\ call'[r].client = call[r].client /\ call[r].client # Nobody
  <1> DEFINE G == \/ call[r].token = t /\ call'[r].client = call[r].client
                  \/ call'[r].client \in Clients /\ jar[call'[r].client] = t
                  \/ /\ Issues(r, t) /\ call'[r].client = call[r].client
                     /\ call[r].client # Nobody
  <1>1. ASSUME NEW q \in Calls, Becomes(q, NoCall)  PROVE G
    BY <1>1 DEF Becomes, NoCall
  <1>2. ASSUME Works  PROVE G
    BY <1>1, <1>2 DEF Works, Opens, GoesOn, Ends, Becomes, SameWork
  <1>3. ASSUME NEW q \in Calls, NEW x \in Tokens, Issues(q, x)  PROVE G
    BY <1>1, <1>3 DEF Issues, Becomes
  <1>4. ASSUME NEW q \in Calls, NEW b \in Clients, Refreshes(q, b) \/ Leaves(q, b)  PROVE G
    BY <1>4 DEF Refreshes, Leaves, Becomes
  <1>5. ASSUME NEW q \in Calls, Rotates(q)  PROVE G
    BY <1>5 DEF Rotates, Becomes, SameWork
  <1> HIDE DEF G
  <1>6. G
    BY <1>1, <1>2, <1>3, <1>4, <1>5 DEF Shape, Replies, Drops, RevokesAll
  <1> QED  BY <1>6 DEF G

LEMMA JarFrom ==
  ASSUME TypeInv, Shape, NEW c \in Clients, jar'[c] \in Tokens
  PROVE  \/ jar'[c] = jar[c]
         \/ \E r \in Calls : /\ Replies(r) /\ call[r].client = c /\ Brings(call[r])
                             /\ jar'[c] = call[r].token
  <1>1. ASSUME NEW r \in Calls, Replies(r)
        PROVE  jar'[c] = jar[c] \/ (/\ call[r].client = c /\ Brings(call[r])
                                    /\ jar'[c] = call[r].token)
    <2>1. call[r].op \in {"login", "refreshToken", "logout"} /\ call[r].step = "reply"
      BY <1>1 DEF TypeInv, HandlerFacts, Replies
    <2> QED  BY <1>1, <2>1 DEF Replies, Brings, TypeInv, TypeOK
  <1> QED
    BY <1>1 DEF Shape, Quiet, Issues, Refreshes, Leaves, Rotates, Drops, RevokesAll

LEMMA AnswerFrom ==
  ASSUME Shape, NEW r \in Calls, Brings(call'[r])
  PROVE  \/ call'[r] = call[r]
         \/ /\ call'[r].token \in Tokens /\ Issues(r, call'[r].token)
            /\ call'[r].user = call[r].user /\ call'[r].client = call[r].client
  <1> DEFINE G == \/ call'[r] = call[r]
                  \/ /\ call'[r].token \in Tokens /\ Issues(r, call'[r].token)
                     /\ call'[r].user = call[r].user /\ call'[r].client = call[r].client
  <1> USE DEF Brings
  <1>1. ASSUME NEW q \in Calls, Becomes(q, NoCall)  PROVE G
    BY <1>1 DEF Becomes, NoCall
  <1>2. ASSUME Works  PROVE G
    BY <1>1, <1>2 DEF Works, Opens, GoesOn, Ends, Becomes, SameWork
  <1>3. ASSUME NEW q \in Calls, NEW x \in Tokens, Issues(q, x)  PROVE G
    BY <1>1, <1>3 DEF Issues, Becomes
  <1>4. ASSUME NEW q \in Calls, NEW b \in Clients, Refreshes(q, b) \/ Leaves(q, b)  PROVE G
    BY <1>4 DEF Refreshes, Leaves, Becomes
  <1>5. ASSUME NEW q \in Calls, Rotates(q)  PROVE G
    BY <1>5 DEF Rotates, Becomes, SameWork
  <1> HIDE DEF G
  <1>6. G
    BY <1>1, <1>2, <1>3, <1>4, <1>5 DEF Shape, Replies, Drops, RevokesAll
  <1> QED  BY <1>6 DEF G

\* A token row that is there stays there, with its user.
LEMMA RowStays ==
  ASSUME Shape, NEW t \in Tokens, token[t].state # "none"
  PROVE  token'[t].state # "none" /\ token'[t].user = token[t].user
  <1> DEFINE G == token'[t].state # "none" /\ token'[t].user = token[t].user
  <1>1. ASSUME SameTokens  PROVE G
    BY <1>1 DEF SameTokens, Columns
  <1>2. ASSUME NEW r \in Calls, NEW x \in Tokens, Issues(r, x)  PROVE G
    BY <1>2 DEF Issues, Columns
  <1>3. ASSUME NEW r \in Calls, Rotates(r)  PROVE G
    BY <1>3 DEF Rotates, Columns
  <1>4. ASSUME NEW u \in Users, RevokesAll(u)  PROVE G
    BY <1>4 DEF RevokesAll
  <1> HIDE DEF G
  <1>5. G
    BY <1>1, <1>2, <1>3, <1>4 DEF Shape, Quiet, Refreshes, Leaves, Replies, Drops
  <1> QED  BY <1>5 DEF G
-----------------------------------------------------------------------------
LEMMA HoldsFrom ==
  ASSUME TypeInv, Shape, NEW c \in Clients, NEW t \in Tokens, Holds(c, t)'
  PROVE  Holds(c, t) \/ \E r \in Calls : Issues(r, t) /\ call[r].client = c
  <1>1. CASE jar'[c] = t
    BY <1>1, JarFrom DEF Holds
  <1>2. ASSUME NEW r \in Calls, call'[r].client = c, call'[r].token = t
        PROVE  Holds(c, t) \/ \E q \in Calls : Issues(q, t) /\ call[q].client = c
    BY <1>2, CallFrom DEF Holds
  <1> QED  BY <1>1, <1>2 DEF Holds

\* Nobody holds a token that is not there.
LEMMA NoneHeld ==
  ASSUME OneHolder, NEW c \in Clients, NEW t \in Tokens, token[t].state = "none"
  PROVE  ~ Holds(c, t)
  BY DEF OneHolder, Holds

LEMMA OneHolderNext ==
  ASSUME TypeInv, OneHolder, Shape
  PROVE  OneHolder'
  <1>1. ASSUME NEW r \in Calls, call'[r].token \in Tokens
        PROVE  call'[r].client \in Clients /\ token'[call'[r].token].state # "none"
    <2> DEFINE t == call'[r].token
    <2>1. CASE call[r].token = t /\ call'[r].client = call[r].client
      BY <1>1, <2>1, RowStays DEF OneHolder
    <2>2. CASE call'[r].client \in Clients /\ jar[call'[r].client] = t
      BY <1>1, <2>2, RowStays DEF OneHolder
    <2>3. CASE Issues(r, t) /\ call'[r].client = call[r].client /\ call[r].client # Nobody
      <3>1. call[r].client \in Clients
        BY <2>3 DEF TypeInv, TypeOK, Handler
      <3> QED  BY <2>3, <3>1 DEF Issues
    <2> QED  BY <1>1, <2>1, <2>2, <2>3, CallFrom
  <1>2. ASSUME NEW c \in Clients, jar'[c] \in Tokens  PROVE token'[jar'[c]].state # "none"
    BY <1>2, JarFrom, RowStays DEF OneHolder
  <1>3. ASSUME NEW t \in Tokens, NEW c \in Clients, NEW d \in Clients,
               Holds(c, t)', Holds(d, t)'
        PROVE  c = d
    <2>1. CASE token[t].state = "none"
      <3>1. PICK r \in Calls : Issues(r, t) /\ call[r].client = c
        BY <1>3, <2>1, HoldsFrom, NoneHeld
      <3>2. PICK q \in Calls : Issues(q, t) /\ call[q].client = d
        BY <1>3, <2>1, HoldsFrom, NoneHeld
      <3>3. r = q
        BY <3>1, <3>2 DEF Issues, Becomes, NoCall
      <3> QED  BY <3>1, <3>2, <3>3
    <2>2. CASE token[t].state # "none"
      <3>1. \A r \in Calls : ~ Issues(r, t)
        BY <2>2 DEF Issues
      <3> QED  BY <1>3, <3>1, HoldsFrom DEF OneHolder
    <2> QED  BY <2>1, <2>2
  <1> QED  BY <1>1, <1>2, <1>3 DEF OneHolder

\* What becomes of a valid token: it stays so, is exchanged, or its user's
\* tokens are all revoked.
LEMMA ValidFrom ==
  ASSUME TypeInv, Shape, NEW t \in Tokens, token[t].state = "valid"
  PROVE  \/ token'[t].state = "valid"
         \/ \E r \in Calls : Rotates(r) /\ call[r].token = t
         \/ \E u \in Users : RevokesAll(u) /\ token[t].user = u
  <1> DEFINE G == \/ token'[t].state = "valid"
                  \/ \E r \in Calls : Rotates(r) /\ call[r].token = t
                  \/ \E u \in Users : RevokesAll(u) /\ token[t].user = u
  <1>1. ASSUME SameTokens  PROVE G
    BY <1>1 DEF SameTokens, Columns
  <1>2. ASSUME NEW r \in Calls, NEW x \in Tokens, Issues(r, x)  PROVE G
    BY <1>2 DEF Issues, Columns
  <1>3. ASSUME NEW r \in Calls, Rotates(r)  PROVE G
    BY <1>3 DEF Rotates, Columns
  <1>4. ASSUME NEW u \in Users, RevokesAll(u)  PROVE G
    BY <1>4 DEF RevokesAll
  <1> HIDE DEF G
  <1>5. G
    BY <1>1, <1>2, <1>3, <1>4 DEF Shape, Quiet, Refreshes, Leaves, Replies, Drops
  <1> QED  BY <1>5 DEF G

LEMMA UpsetStays == Shape => upset \subseteq upset'
  BY DEF Shape, Quiet, Issues, Refreshes, Leaves, Rotates, Replies, Drops, RevokesAll

\* A token that an answer brings is not exchanged before it arrives.
LEMMA NotRotated ==
  ASSUME FreshAnswers, NEW r \in Calls, Brings(call[r]), NEW q \in Calls, Rotates(q)
  PROVE  call[q].token # call[r].token
  BY DEF FreshAnswers, Rotates, Brings

LEMMA FreshNext ==
  ASSUME TypeInv, OneHolder, FreshAnswers, Shape, TypeInv'
  PROVE  FreshAnswers'
  <1> SUFFICES ASSUME NEW r \in Calls, Brings(call'[r])
               PROVE  /\ call'[r].token \in Tokens
                      /\ token'[call'[r].token].user = call'[r].user
                      /\ \A c \in Clients : jar'[c] # call'[r].token
                      /\ \A q \in Calls \ {r} : call'[q].token # call'[r].token
                      /\ call'[r].client \notin upset'
                           => token'[call'[r].token].state = "valid"
    BY DEF FreshAnswers, Brings
  <1> DEFINE t == call'[r].token
  <1>1. CASE call'[r] = call[r]
    <2>1. /\ Brings(call[r]) /\ t \in Tokens /\ t = call[r].token
          /\ token[t].user = call[r].user
          /\ \A c \in Clients : jar[c] # t
          /\ \A q \in Calls \ {r} : call[q].token # t
          /\ call[r].client \notin upset => token[t].state = "valid"
      BY <1>1 DEF FreshAnswers
    <2>2. call[r].client \in Clients /\ token[t].state # "none"
      BY <2>1 DEF OneHolder
    <2> HIDE DEF t
    <2>3. token'[t].user = call[r].user
      BY <2>1, <2>2, RowStays
    <2>4. ASSUME NEW c \in Clients, jar'[c] = t  PROVE FALSE
      <3>1. PICK q \in Calls : Replies(q) /\ Brings(call[q]) /\ call[q].token = t
        BY <2>1, <2>4, JarFrom
      <3>2. q = r
        BY <2>1, <3>1
      <3>3. call'[r].step = "none"
        BY <3>1, <3>2 DEF Replies, Becomes, NoCall
      <3> QED  BY <3>3 DEF Brings
    <2>5. ASSUME NEW q \in Calls \ {r}, call'[q].token = t  PROVE FALSE
      <3>1. ~ Issues(q, t)
        BY <2>2 DEF Issues
      <3> QED  BY <2>1, <2>5, <3>1, CallFrom
    <2>6. ASSUME call[r].client \notin upset'  PROVE token'[t].state = "valid"
      <3>1. token[t].state = "valid"
        BY <2>1, <2>6, UpsetStays
      <3>2. ASSUME NEW u \in Users, RevokesAll(u), token[t].user = u  PROVE FALSE
        BY <2>1, <2>2, <2>6, <3>2 DEF RevokesAll, ClientsOf
      <3> QED  BY <2>1, <3>1, <3>2, ValidFrom, NotRotated
    <2> QED  BY <1>1, <2>1, <2>3, <2>4, <2>5, <2>6 DEF t
  <1>2. CASE /\ t \in Tokens /\ Issues(r, t)
             /\ call'[r].user = call[r].user /\ call'[r].client = call[r].client
    <2>1. token[t].state = "none" /\ token'[t].user = call'[r].user
          /\ token'[t].state = "valid" /\ UNCHANGED jar
      BY <1>2 DEF Issues
    <2>2. \A c \in Clients : jar'[c] # t
      BY <1>2, <2>1 DEF OneHolder
    <2>3. ASSUME NEW q \in Calls \ {r}, call'[q].token = t  PROVE FALSE
      <3>1. call'[q] = call[q]
        BY <1>2 DEF Issues, Becomes
      <3> QED  BY <1>2, <2>1, <2>3, <3>1 DEF OneHolder
    <2> QED  BY <1>2, <2>1, <2>2, <2>3
  <1> QED  BY <1>1, <1>2, AnswerFrom

\* A refresh that has revoked the old token stays so, is answered or is lost.
LEMMA OwedFrom ==
  ASSUME Shape, NEW c \in Clients, Owed(c)
  PROVE  \/ Owed(c)'
         \/ c \in upset'
         \/ \E r \in Calls : /\ Replies(r) /\ Brings(call[r]) /\ call[r].client = c
  <1> DEFINE G == \/ Owed(c)'
                  \/ c \in upset'
                  \/ \E r \in Calls : /\ Replies(r) /\ Brings(call[r]) /\ call[r].client = c
  <1>0. PICK r \in Calls : /\ call[r].client = c /\ call[r].op = "refreshToken"
                           /\ call[r].step \in {"issue", "reply"}
    BY DEF Owed
  <1>a. call'[r] = call[r] => G
    BY <1>0 DEF Owed
  <1>1. ASSUME Works  PROVE G
    BY <1>0, <1>a, <1>1 DEF Works, Opens, GoesOn, Ends, Becomes, Idle
  <1>2. ASSUME NEW q \in Calls, NEW t \in Tokens, Issues(q, t)  PROVE G
    <2>1. CASE q = r
      <3>1. call[r].client # Nobody
        BY <1>0
      <3> QED  BY <1>0, <1>2, <2>1, <3>1 DEF Issues, Becomes, Owed
    <2>2. CASE q # r
      BY <1>a, <1>2, <2>2 DEF Issues, Becomes
    <2> QED  BY <2>1, <2>2
  <1>3. ASSUME NEW q \in Calls, NEW b \in Clients, Refreshes(q, b) \/ Leaves(q, b)  PROVE G
    BY <1>0, <1>a, <1>3 DEF Refreshes, Leaves, Becomes, Idle
  <1>4. ASSUME NEW q \in Calls, Rotates(q)  PROVE G
    BY <1>0, <1>a, <1>4 DEF Rotates, Becomes
  <1>5. ASSUME NEW q \in Calls, Replies(q)  PROVE G
    BY <1>0, <1>a, <1>5 DEF Replies, Becomes, Brings
  <1>6. ASSUME NEW q \in Calls, Drops(q)  PROVE G
    BY <1>0, <1>a, <1>6 DEF Drops, Becomes
  <1> HIDE DEF G
  <1>7. G
    BY <1>1, <1>2, <1>3, <1>4, <1>5, <1>6 DEF Shape, RevokesAll
  <1> QED  BY <1>7 DEF G

LEMMA CookiesNext ==
  ASSUME TypeInv, OneHolder, FreshAnswers, WorkingCookies, Shape
  PROVE  WorkingCookies'
  <1> SUFFICES ASSUME NEW c \in Clients, c \notin upset', jar'[c] \in Tokens
               PROVE  token'[jar'[c]].state = "valid" \/ Owed(c)'
    BY DEF WorkingCookies
  <1>a. c \notin upset
    BY UpsetStays
  <1>1. ASSUME NEW r \in Calls, Replies(r), call[r].client = c, Brings(call[r])
        PROVE  token'[jar'[c]].state = "valid"
    <2>1. jar'[c] = call[r].token /\ SameTokens
      BY <1>1 DEF Replies, Brings, TypeInv, TypeOK
    <2>2. call[r].token \in Tokens /\ token[call[r].token].state = "valid"
      BY <1>1, <1>a DEF FreshAnswers
    <2> QED  BY <2>1, <2>2 DEF SameTokens, Columns
  <1>2. ASSUME jar'[c] = jar[c],
               ~ \E r \in Calls : Replies(r) /\ Brings(call[r]) /\ call[r].client = c
        PROVE  token'[jar'[c]].state = "valid" \/ Owed(c)'
    <2> DEFINE t == jar[c]
    <2>1. t \in Tokens /\ (token[t].state = "valid" \/ Owed(c))
      BY <1>a, <1>2 DEF WorkingCookies
    <2> HIDE DEF t
    <2>2. CASE Owed(c)
      BY <1>2, <2>2, OwedFrom
    <2>3. CASE token[t].state = "valid"
      <3>1. ASSUME NEW u \in Users, RevokesAll(u), token[t].user = u  PROVE FALSE
        BY <2>1, <3>1 DEF RevokesAll, ClientsOf, TokensOf, t
      <3>2. ASSUME NEW r \in Calls, Rotates(r), call[r].token = t  PROVE Owed(c)'
        <4>1. call[r].client \in Clients /\ Holds(call[r].client, t) /\ Holds(c, t)
          BY <2>1, <3>2 DEF OneHolder, Holds, t
        <4>2. call[r].client = c
          BY <2>1, <4>1 DEF OneHolder
        <4> QED  BY <3>2, <4>2 DEF Rotates, Becomes, SameWork, Owed
      <3> QED  BY <1>2, <2>1, <2>3, <3>1, <3>2, ValidFrom DEF t
    <2> QED  BY <2>1, <2>2, <2>3
  <1> QED  BY <1>1, <1>2, JarFrom

LEMMA BrowserNext == TypeInv /\ BrowserInv /\ TypeInv' /\ Shape => BrowserInv'
  BY OneHolderNext, FreshNext, CookiesNext DEF BrowserInv

(* A browser whose refreshes are answered one at a time, and whose tokens   *)
(* nobody revokes, always holds a cookie that works when it waits for       *)
(* nothing.                                                                 *)
THEOREM BrowserStaysSignedIn == Spec => []UndisturbedBrowserStaysSignedIn
  <1>1. TypeInv /\ BrowserInv => UndisturbedBrowserStaysSignedIn
    <2> SUFFICES ASSUME TypeInv, BrowserInv, NEW c \in Clients \ upset, jar[c] # Nobody,
                        \A r \in Calls : call[r].client # c
                 PROVE  token[jar[c]].state = "valid"
      BY DEF UndisturbedBrowserStaysSignedIn
    <2>1. jar[c] \in Tokens
      BY DEF TypeInv, TypeOK
    <2> QED  BY <2>1 DEF BrowserInv, WorkingCookies, Owed
  <1> QED
    BY <1>1, TypeInit, TypeNext, BrowserInit, BrowserNext, Shapes, PTL DEF Spec
=============================================================================
