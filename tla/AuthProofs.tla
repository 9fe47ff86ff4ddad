----------------------------- MODULE AuthProofs -----------------------------
(***************************************************************************)
(* Theorems about Accounts for every set of users, tokens, sessions, codes, *)
(* browsers and requests, and for every choice of scenes.                   *)
(***************************************************************************)
EXTENDS Accounts, FiniteSetTheorems, TLAPS

USE AuthAssumption
-----------------------------------------------------------------------------
(* Type correctness. *)

(* What a step of a handler says of the handler itself. *)
HandlerFacts(c) ==
  /\ c.step \notin {"none", "reply", "alarm"} => c.user \in Users
  /\ c.step \in {"unlock", "count", "lock"} => c.op = "login"
  /\ c.step \in {"revokeTokens", "revokeSessions"}
       => c.op \in {"refreshToken", "logout", "resetPassword"}
  /\ c.step = "password" => c.op \in {"changePassword", "resetPassword"}
  /\ c.step = "issue" => c.op \in {"login", "register", "refreshToken"}
  /\ c.op \in {"login", "register"} /\ c.step # "reply" => c.token = Nobody
  /\ c.op \in {"login", "refreshToken", "logout"} => c.client \in Clients
  /\ c.op = "register" => c.client = Nobody
  /\ c.step = "reply" => c.op \in {"login", "refreshToken", "logout"}
  /\ c.op = "refreshToken" => c.token \in Tokens

(* A row that is not there has no user and no parent, any other has a user. *)
TokenFacts(t) ==
  /\ token[t].state = "none" => /\ token[t].user = Nobody /\ token[t].parent = Nobody
                                /\ token[t].access = "dead"
  /\ token[t].state # "none" => token[t].user \in Users

TypeInv ==
  /\ TypeOK
  /\ \A r \in Calls : HandlerFacts(call[r])
  /\ \A t \in Tokens : TokenFacts(t)

(* The handlers before and after a step: r goes from one record to another. *)
Becomes(r, c) == call'[r] = c /\ \A q \in Calls \ {r} : call'[q] = call[q]

LEMMA MoveType ==
  ASSUME TypeInv, NEW r \in Calls, NEW c \in Handler, HandlerFacts(c),
         call' = [call EXCEPT ![r] = c]
  PROVE  /\ call' \in [Calls -> Handler] /\ Becomes(r, c)
         /\ \A q \in Calls : HandlerFacts(call'[q])
  <1>1. call \in [Calls -> Handler] /\ \A q \in Calls : HandlerFacts(call[q])
    BY DEF TypeInv, TypeOK
  <1>2. call' \in [Calls -> Handler] /\ Becomes(r, c)
    BY <1>1 DEF Becomes
  <1>3. ASSUME NEW q \in Calls  PROVE HandlerFacts(call'[q])
    <2>1. CASE q = r
      BY <2>1, <1>2 DEF Becomes
    <2>2. CASE q # r
      <3>1. call'[q] = call[q]
        BY <2>2, <1>2 DEF Becomes
      <3> QED  BY <3>1, <1>1
    <2> QED  BY <2>1, <2>2
  <1> QED  BY <1>2, <1>3

LEMMA NoCallFacts == NoCall \in Handler /\ HandlerFacts(NoCall)
  BY DEF NoCall, Handler, HandlerFacts, Endpoints, Steps

LEMMA FinishType ==
  ASSUME TypeInv, NEW r \in Calls, Finish(r)
  PROVE  /\ call' \in [Calls -> Handler] /\ Becomes(r, NoCall)
         /\ \A q \in Calls : HandlerFacts(call'[q])
  BY NoCallFacts, MoveType DEF Finish

(* Going to a step changes nothing else of the handler. *)
At2(c, d, step) ==
  /\ d.step = step /\ d.op = c.op /\ d.user = c.user /\ d.client = c.client
  /\ d.token = c.token /\ d.otp = c.otp /\ d.session = c.session /\ d.flag = c.flag
  /\ d.password = c.password

LEMMA GoToType ==
  ASSUME TypeInv, NEW r \in Calls, NEW step \in Steps, GoTo(r, step),
         HandlerFacts([call[r] EXCEPT !.step = step])
  PROVE  /\ call' \in [Calls -> Handler]
         /\ \A q \in Calls : HandlerFacts(call'[q])
         /\ Becomes(r, call'[r]) /\ At2(call[r], call'[r], step)
  <1> DEFINE c == [call[r] EXCEPT !.step = step]
  <1>1. call[r] \in Handler
    BY DEF TypeInv, TypeOK
  <1>2. c \in Handler /\ At2(call[r], c, step)
    BY <1>1 DEF Handler, At2
  <1>3. call' = [call EXCEPT ![r] = c]
    BY DEF GoTo
  <1>4. HandlerFacts(c)
    OBVIOUS
  <1> HIDE DEF c
  <1> QED  BY <1>2, <1>3, <1>4, MoveType DEF Becomes

(* What the next step wants of the handler that goes to it. *)
MayTake(c, step) ==
  /\ c.user \in Users \/ step \in {"reply", "alarm"}
  /\ step \in {"unlock", "count", "lock"} => c.op = "login"
  /\ step \in {"revokeTokens", "revokeSessions"}
       => c.op \in {"refreshToken", "logout", "resetPassword"}
  /\ step = "password" => c.op \in {"changePassword", "resetPassword"}
  /\ step = "issue" => c.op \in {"login", "register", "refreshToken"}
  /\ step = "reply" => c.op = "logout"
  /\ step \in Steps /\ c.step # "reply"

LEMMA MoveOn ==
  ASSUME TypeInv, NEW r \in Calls, NEW step, GoTo(r, step), MayTake(call[r], step)
  PROVE  /\ call' \in [Calls -> Handler]
         /\ \A q \in Calls : HandlerFacts(call'[q])
         /\ Becomes(r, call'[r]) /\ At2(call[r], call'[r], step)
  <1> DEFINE c == call[r]
             d == [c EXCEPT !.step = step]
  <1>1. c \in Handler /\ HandlerFacts(c)
    BY DEF TypeInv, TypeOK
  <1>2. step \in Steps
    BY DEF MayTake
  <1> HIDE DEF c
  <1>3. At2(c, d, step)
    BY <1>1 DEF Handler, At2
  <1> HIDE DEF d
  <1>4. HandlerFacts(d)
    <2>1. MayTake(c, step)
      BY DEF c
    <2> QED  BY <1>1, <1>3, <2>1 DEF At2, MayTake, HandlerFacts
  <1> QED  BY <1>2, <1>4, GoToType DEF c, d

LEMMA StartType ==
  ASSUME TypeInv, NEW r \in Calls, NEW c \in Handler, HandlerFacts(c), Start(r, c)
  PROVE  /\ call' \in [Calls -> Handler] /\ Becomes(r, c)
         /\ \A q \in Calls : HandlerFacts(call'[q])
  BY MoveType DEF Start
-----------------------------------------------------------------------------
(* The tables, apart from the handlers. *)
Tables ==
  /\ scene \in SUBSET (Endpoints \cup Inputs)
  /\ account \in [Users -> UserRow]
  /\ password \in [Users -> 0..MaxPasswords] /\ failures \in [Users -> 0..MaxFailures]
  /\ token \in [Tokens -> TokenRow] /\ \A t \in Tokens : TokenFacts(t)
  /\ session \in [Sessions -> SessionRow] /\ otp \in [Otps -> OtpRow]
  /\ jar \in [Clients -> Tokens \cup {Nobody}]
Ghosts ==
  /\ adminLock \in [Users -> BOOLEAN] /\ reopened \in [Users -> BOOLEAN]
  /\ cut \in SUBSET Tokens /\ old \in SUBSET Tokens
  /\ signedOut \in [Users -> 0..MaxPasswords]
  /\ guesses \in [Otps -> Nat] /\ uses \in [Otps -> Nat]
  /\ upset \in SUBSET Clients
Handlers == call \in [Calls -> Handler] /\ \A r \in Calls : HandlerFacts(call[r])

LEMMA TypeParts == TypeInv <=> Tables /\ Ghosts /\ Handlers
  BY DEF TypeInv, TypeOK, Tables, Ghosts, Handlers

LEMMA TypePartsNext == TypeInv' <=> Tables' /\ Ghosts' /\ Handlers'
  BY DEF TypeInv, TypeOK, Tables, Ghosts, Handlers

LEMMA StillTables == Tables /\ UNCHANGED <<scene, rows, jar>> => Tables'
  BY DEF Tables, rows, TokenFacts
LEMMA StillGhosts == Ghosts /\ UNCHANGED history => Ghosts'
  BY DEF Ghosts, history

LEMMA TypeInit == Init => TypeInv
  <1> SUFFICES ASSUME Init PROVE TypeInv
    OBVIOUS
  <1>1. NoUser \in UserRow /\ NewUser \in UserRow
    BY DEF NoUser, NewUser, UserRow, UserStatus
  <1>2. NoToken \in TokenRow /\ NoSession \in SessionRow /\ NoOtp \in OtpRow
    BY DEF NoToken, TokenRow, NoSession, SessionRow, NoOtp, OtpRow, Purposes
  <1>3. \A t \in Tokens : TokenFacts(t)
    BY DEF Init, TokenFacts, NoToken
  <1>4. Tables
    BY <1>1, <1>2, <1>3 DEF Init, Tables
  <1>5. Ghosts
    BY DEF Init, Ghosts
  <1>6. Handlers
    BY NoCallFacts DEF Init, Handlers
  <1> QED  BY <1>4, <1>5, <1>6, TypeParts

(* A new status with its reason, and nothing else. *)
LEMMA StatusType ==
  ASSUME Tables, NEW u, NEW s \in UserStatus, NEW q \in {"null", "ADMIN_LOCK", "AUTO"},
         account' = [account EXCEPT ![u].status = s, ![u].reason = q, ![u].aged = FALSE]
  PROVE  account' \in [Users -> UserRow]
  <1> DEFINE new == [account[u] EXCEPT !.status = s, !.reason = q, !.aged = FALSE]
  <1>1. account \in [Users -> UserRow]
    BY DEF Tables
  <1>2. u \in Users => new \in UserRow
    BY <1>1 DEF UserRow, UserStatus
  <1>3. account' = [account EXCEPT ![u] = new]
    BY <1>1 DEF UserRow
  <1> HIDE DEF new
  <1> QED  BY <1>1, <1>2, <1>3

LEMMA LoginType ==
  ASSUME TypeInv, NEW r \in Calls, LoginSteps(r)
  PROVE  TypeInv'
  <1>a. Tables /\ Ghosts /\ Handlers
    BY TypeParts
  <1>b. call[r] \in Handler /\ HandlerFacts(call[r])
    BY <1>a DEF Handlers
  <1>1. ASSUME NEW u \in Users, NEW c \in Clients, Login(r, u, c)  PROVE TypeInv'
    <2> DEFINE h == [NoCall EXCEPT !.op = "login", !.user = u, !.client = c,
                       !.step = IF account[u].status = "LOCKED" THEN "unlock" ELSE "compare",
                       !.password = password[u]]
    <2>1. h \in Handler /\ HandlerFacts(h)
      BY <1>a DEF NoCall, Handler, HandlerFacts, Endpoints, Steps, Tables
    <2>2. Start(r, h)
      BY <1>1 DEF Login
    <2> HIDE DEF h
    <2> QED  BY <1>1, <1>a, <2>1, <2>2, StartType, StillTables, StillGhosts, TypePartsNext
             DEF Login, Handlers
  <1>2. ASSUME AutoUnlock(r)  PROVE TypeInv'
    <2>a. GoTo(r, "compare") /\ At(r, "login", "unlock")
      BY <1>2 DEF AutoUnlock
    <2>c. MayTake(call[r], "compare")
      BY <2>a, <1>b DEF At, HandlerFacts, MayTake, Steps
    <2>1. Handlers'
      BY <2>a, <2>c, MoveOn DEF Handlers
    <2>b. account' \in [Users -> UserRow]
      BY <1>2, <1>a, StatusType DEF AutoUnlock, UserStatus
    <2>2. Tables'
      BY <1>2, <1>a, <2>b DEF AutoUnlock, Tables, TokenFacts
    <2>3. Ghosts'
      BY <1>2, <1>a DEF AutoUnlock, Ghosts
    <2> QED  BY <2>1, <2>2, <2>3, TypePartsNext
  <1>3. ASSUME WrongPassword(r)  PROVE TypeInv'
    <2>a. At(r, "login", "compare") /\ GoTo(r, "count")
      BY <1>3 DEF WrongPassword
    <2>b. MayTake(call[r], "count")
      BY <2>a, <1>b DEF At, HandlerFacts, MayTake, Steps
    <2>1. Handlers'
      BY <2>a, <2>b, MoveOn DEF Handlers
    <2>2. Tables'
      BY <1>3, <1>a, <1>b DEF WrongPassword, At, HandlerFacts, Tables, TokenFacts
    <2>3. Ghosts'
      BY <1>3, <1>a DEF WrongPassword, Ghosts
    <2> QED  BY <2>1, <2>2, <2>3, TypePartsNext
  <1>4. ASSUME CountFailures(r)  PROVE TypeInv'
    <2>a. At(r, "login", "count") /\ (GoTo(r, "lock") \/ Finish(r))
      BY <1>4 DEF CountFailures
    <2>b. MayTake(call[r], "lock")
      BY <2>a, <1>b DEF At, HandlerFacts, MayTake, Steps
    <2>1. Handlers'
      BY <2>a, <2>b, MoveOn, FinishType DEF Handlers
    <2> QED  BY <1>4, <1>a, <2>1, StillTables, StillGhosts, TypePartsNext DEF CountFailures
  <1>5. ASSUME AutoLock(r)  PROVE TypeInv'
    <2>1. Handlers'
      BY <1>5, FinishType DEF AutoLock, Handlers
    <2>b. account' \in [Users -> UserRow]
      BY <1>5, <1>a, StatusType DEF AutoLock, UserStatus
    <2>2. Tables'
      BY <1>5, <1>a, <2>b DEF AutoLock, Tables, TokenFacts
    <2> QED  BY <1>5, <1>a, <2>1, <2>2, StillGhosts, TypePartsNext DEF AutoLock
  <1>6. ASSUME NEW s \in Sessions, CreateSession(r, s)  PROVE TypeInv'
    <2>a. At(r, "login", "compare") /\ GoTo(r, "issue")
      BY <1>6 DEF CreateSession
    <2>b. MayTake(call[r], "issue")
      BY <2>a, <1>b DEF At, HandlerFacts, MayTake, Steps
    <2>1. Handlers'
      BY <2>a, <2>b, MoveOn DEF Handlers
    <2>2. Tables'
      BY <1>6, <1>a, <1>b DEF CreateSession, Tables, TokenFacts, SessionRow, Handler
    <2> QED  BY <1>6, <1>a, <2>1, <2>2, StillGhosts, TypePartsNext DEF CreateSession
  <1>7. ASSUME NEW t \in Tokens, IssueTokens(r, t)  PROVE TypeInv'
    <2> DEFINE new == [user |-> call[r].user, state |-> "valid", expired |-> FALSE,
                       access |-> "good", parent |-> call[r].token]
               h == [call[r] EXCEPT !.step = "reply", !.token = t]
    <2>1. new \in TokenRow /\ new.state = "valid" /\ new.user \in Users
      BY <1>7, <1>b DEF IssueTokens, HandlerFacts, Handler, TokenRow
    <2>2. token' = [token EXCEPT ![t] = new]
      BY <1>7 DEF IssueTokens
    <2>3. h \in Handler /\ (call[r].client # Nobody => HandlerFacts(h))
      BY <1>7, <1>b DEF IssueTokens, HandlerFacts, Handler, Steps
    <2>4. Finish(r) \/ (call[r].client # Nobody /\ call' = [call EXCEPT ![r] = h])
      BY <1>7 DEF IssueTokens
    <2>5. UNCHANGED <<scene, account, password, failures, session, otp, jar, adminLock,
                      reopened, cut, signedOut, guesses, uses, upset>>
      BY <1>7 DEF IssueTokens
    <2>6. old' \in SUBSET Tokens
      BY <1>7, <1>a DEF IssueTokens, Ghosts
    <2> HIDE DEF new, h
    <2>7. Handlers'
      BY <2>3, <2>4, FinishType, MoveType DEF Handlers
    <2>8. Tables'
      BY <1>a, <2>1, <2>2, <2>5 DEF Tables, TokenFacts
    <2>9. Ghosts'
      BY <1>a, <2>5, <2>6 DEF Ghosts
    <2> QED  BY <2>7, <2>8, <2>9, TypePartsNext
  <1> QED  BY <1>1, <1>2, <1>3, <1>4, <1>5, <1>6, <1>7 DEF LoginSteps

LEMMA RevokeType ==
  ASSUME Tables, Ghosts, NEW u \in Users, RevokeTokens(u) \/ DeleteTokens(u)
  PROVE  /\ token' \in [Tokens -> TokenRow] /\ \A t \in Tokens : TokenFacts(t)'
         /\ cut' \in SUBSET Tokens /\ upset' \in SUBSET Clients
  <1> USE DEF RevokeTokens, DeleteTokens, TokensOf, ClientsOf
  <1>1. token' \in [Tokens -> TokenRow]
    BY DEF Tables, TokenRow
  <1>2. ASSUME NEW t \in Tokens  PROVE TokenFacts(t)'
    <2>1. TokenFacts(t) /\ token[t] \in TokenRow
      BY DEF Tables
    <2>2. token'[t].user = token[t].user /\ token'[t].parent = token[t].parent
      BY <2>1 DEF Tables, TokenRow
    <2>3. token'[t].state = token[t].state \/ (token[t].user = u /\ token'[t].state # "none")
      BY <2>1 DEF Tables, TokenRow
    <2>4. token'[t].access = token[t].access
      BY <2>1 DEF Tables, TokenRow
    <2> QED  BY <2>1, <2>2, <2>3, <2>4 DEF TokenFacts
  <1>3. cut' \in SUBSET Tokens /\ upset' \in SUBSET Clients
    BY DEF Ghosts
  <1> QED  BY <1>1, <1>2, <1>3

LEMMA SignsOutType ==
  ASSUME Tables, Ghosts, NEW u \in Users, SignsOut(u)
  PROVE  signedOut' \in [Users -> 0..MaxPasswords] /\ old' \in SUBSET Tokens
  BY DEF Tables, Ghosts, SignsOut, TokensOf

(* Of the row of a token that exists the access token alone changes. *)
LEMMA AccessType ==
  ASSUME Tables, NEW t \in Tokens, token[t].access # "dead",
         NEW a \in {"good", "blacklisted", "dead"},
         token' = [token EXCEPT ![t].access = a]
  PROVE  token' \in [Tokens -> TokenRow] /\ \A x \in Tokens : TokenFacts(x)'
  <1>1. token \in [Tokens -> TokenRow] /\ \A x \in Tokens : TokenFacts(x)
    BY DEF Tables
  <1>2. token' \in [Tokens -> TokenRow]
    BY <1>1 DEF TokenRow
  <1>3. ASSUME NEW x \in Tokens  PROVE TokenFacts(x)'
    <2>1. token'[x].user = token[x].user /\ token'[x].parent = token[x].parent
          /\ token'[x].state = token[x].state
      BY <1>1 DEF TokenRow
    <2>2. x # t => token'[x].access = token[x].access
      BY <1>1 DEF TokenRow
    <2>3. x = t => token[x].state # "none"
      BY <1>1 DEF TokenFacts
    <2> QED  BY <1>1, <2>1, <2>2, <2>3 DEF TokenFacts
  <1> QED  BY <1>2, <1>3

(* The browser leaves: the handler of logout, or the answer at once. *)
LEMMA SignOutType ==
  ASSUME TypeInv, NEW r \in Calls, NEW c \in Clients,
         NEW s \in Sessions \cup {Nobody}, SignOut(r, c, s)
  PROVE  /\ Handlers'
         /\ token' \in [Tokens -> TokenRow] /\ \A t \in Tokens : TokenFacts(t)'
         /\ \E h \in Handler : /\ Becomes(r, h) /\ h.op = "logout" /\ h.client = c
                               /\ h.token = jar[c] /\ h.step \in {"reply", "revokeTokens"}
                               /\ \/ h.step = "reply" /\ h.user = Nobody
                                  \/ h.step = "revokeTokens" /\ jar[c] \in Tokens
                                       /\ h.user = token[jar[c]].user
         /\ \/ token' = token
            \/ jar[c] \in Tokens /\ token' = [token EXCEPT ![jar[c]].access = "blacklisted"]
  <1> DEFINE t == jar[c]
             h == [NoCall EXCEPT !.op = "logout", !.client = c, !.token = t]
             out == [h EXCEPT !.step = "revokeTokens", !.session = s, !.user = token[t].user]
             bye == [h EXCEPT !.step = "reply"]
  <1>a. Tables /\ t \in Tokens \cup {Nobody}
    BY TypeParts DEF Tables
  <1>1. t \in Tokens => token[t].user \in Users \cup {Nobody}
    BY <1>a DEF Tables, TokenRow
  <1>2. t \in Tokens /\ token[t].access = "good" => token[t].user \in Users
    BY <1>a DEF Tables, TokenFacts, TokenRow
  <1>b. h \in Handler /\ h.op = "logout" /\ h.user = Nobody /\ h.client = c /\ h.token = t
    <2>1. t \in Tokens \cup {Nobody}
      BY <1>a
    <2>2. NoCall \in Handler /\ NoCall.user = Nobody
      BY NoCallFacts DEF NoCall
    <2> HIDE DEF t, out, bye
    <2> QED  BY <2>1, <2>2 DEF Handler, Endpoints
  <1> HIDE DEF h, t
  <1>e. SignOut(r, c, s) = IF t # Nobody /\ Authenticated(t)
                           THEN /\ token' = [token EXCEPT ![t].access = "blacklisted"]
                                /\ call' = [call EXCEPT ![r] = out]
                           ELSE /\ call' = [call EXCEPT ![r] = bye]
                                /\ UNCHANGED token
    BY DEF SignOut, h, t
  <1> HIDE DEF out, bye
  <1>3. bye \in Handler /\ HandlerFacts(bye) /\ bye.op = "logout" /\ bye.client = c
        /\ bye.token = t /\ bye.step = "reply" /\ bye.user = Nobody
    BY <1>a, <1>b DEF Handler, HandlerFacts, Steps, bye
  <1>4. t \in Tokens => out \in Handler /\ out.op = "logout" /\ out.client = c
        /\ out.token = t /\ out.step = "revokeTokens" /\ out.user = token[t].user
    <2> DEFINE w == token[t].user
    <2>1. "revokeTokens" \in Steps /\ (t \in Tokens => w \in Users \cup {Nobody})
      BY <1>1 DEF Steps
    <2> HIDE DEF w
    <2>2. ASSUME t \in Tokens
          PROVE  LET d == [h EXCEPT !.step = "revokeTokens", !.session = s, !.user = w]
                 IN  /\ d \in Handler /\ d.op = "logout" /\ d.client = c
                     /\ d.token = t /\ d.step = "revokeTokens" /\ d.user = w
      BY <1>b, <2>1, <2>2 DEF Handler
    <2> QED  BY <2>2 DEF out, w
  <1>5. t \in Tokens /\ token[t].user \in Users => HandlerFacts(out)
    BY <1>a, <1>4 DEF HandlerFacts
  <1>6. CASE t # Nobody /\ Authenticated(t)
    <2>1. token[t].access = "good" /\ t \in Tokens
      BY <1>6, <1>a DEF Authenticated
    <2>2. token' = [token EXCEPT ![t].access = "blacklisted"] /\ call' = [call EXCEPT ![r] = out]
      BY <1>6, <1>a, <1>e
    <2>3. Handlers' /\ Becomes(r, out)
      BY <1>2, <1>4, <1>5, <2>1, <2>2, MoveType DEF Handlers
    <2>4. token' \in [Tokens -> TokenRow] /\ \A x \in Tokens : TokenFacts(x)'
      BY <1>a, <2>1, <2>2, AccessType
    <2> QED  BY <1>4, <2>2, <2>3, <2>4 DEF t
  <1>7. CASE ~ (t # Nobody /\ Authenticated(t))
    <2>1. token' = token /\ call' = [call EXCEPT ![r] = bye]
      BY <1>7, <1>a, <1>e
    <2>2. Handlers' /\ Becomes(r, bye)
      BY <1>3, <2>1, MoveType DEF Handlers
    <2>3. token' \in [Tokens -> TokenRow] /\ \A x \in Tokens : TokenFacts(x)'
      BY <1>a, <2>1 DEF Tables, TokenFacts
    <2> QED  BY <1>3, <2>1, <2>2, <2>3 DEF t
  <1> QED  BY <1>6, <1>7

(* Rows of tokens that keep their users, and handlers that keep theirs. *)
LEMMA TokensType ==
  ASSUME TypeInv, NEW r \in Calls, TokenSteps(r)
  PROVE  TypeInv'
  <1>a. Tables /\ Ghosts /\ Handlers
    BY TypeParts
  <1>b. call[r] \in Handler /\ HandlerFacts(call[r])
    BY <1>a DEF Handlers
  <1>1. ASSUME NEW c \in Clients, Refresh(r, c)  PROVE TypeInv'
    <2> DEFINE t == jar[c]
               u == token[t].user
               now == password[u]
               step == IF token[t].state = "valid" THEN "rotate" ELSE "revokeTokens"
               h == [NoCall EXCEPT !.op = "refreshToken", !.user = u,
                       !.client = c, !.token = t, !.password = now, !.step = step]
    <2>1. t \in Tokens /\ token[t].state # "none"
      BY <1>1, <1>a DEF Refresh, Tables
    <2>2. u \in Users /\ now \in 0..MaxPasswords /\ step \in {"rotate", "revokeTokens"}
      BY <2>1, <1>a DEF Tables, TokenFacts
    <2>3. Start(r, h) /\ UNCHANGED <<scene, rows, jar, adminLock, reopened, cut, signedOut,
                                     old, guesses, uses>>
          /\ upset' \in SUBSET Clients
      BY <1>1, <1>a DEF Refresh, Ghosts
    <2> HIDE DEF t, u, now, step
    <2>4. NoCall \in Handler
      BY NoCallFacts
    <2>a. step \in Steps /\ "refreshToken" \in Endpoints
      BY <2>2 DEF Endpoints, Steps
    <2>b. /\ h \in Handler /\ h.op = "refreshToken" /\ h.user = u /\ h.client = c
          /\ h.token = t /\ h.step = step
      BY <2>1, <2>2, <2>4, <2>a DEF Handler
    <2>5. h \in Handler /\ HandlerFacts(h)
      <3> HIDE DEF h
      <3> QED  BY <2>1, <2>2, <2>b DEF HandlerFacts
    <2> HIDE DEF h
    <2>6. Handlers'
      BY <2>3, <2>5, StartType DEF Handlers
    <2>7. Tables'
      BY <2>3, <1>a, StillTables
    <2>8. Ghosts'
      BY <2>3, <1>a DEF Ghosts
    <2> QED  BY <2>6, <2>7, <2>8, TypePartsNext
  <1>2. ASSUME Rotate(r)  PROVE TypeInv'
    <2>1. call[r].token \in Tokens /\ call[r].step = "rotate" /\ call[r].op = "refreshToken"
      BY <1>2, <1>b DEF Rotate, At, HandlerFacts
    <2>2. token' = [token EXCEPT ![call[r].token].state = "revoked"] /\ GoTo(r, "issue")
      BY <1>2 DEF Rotate
    <2>a. MayTake(call[r], "issue")
      BY <2>1, <1>b DEF HandlerFacts, MayTake, Steps
    <2>3. Handlers'
      BY <2>2, <2>a, MoveOn DEF Handlers
    <2>4. token' \in [Tokens -> TokenRow]
      BY <2>1, <2>2, <1>a DEF Tables, TokenRow
    <2>5. \A x \in Tokens : TokenFacts(x)'
      BY <1>2, <2>1, <2>2, <1>a DEF Rotate, Tables, TokenFacts, TokenRow
    <2>6. Tables'
      BY <1>2, <1>a, <2>4, <2>5 DEF Rotate, Tables
    <2> QED  BY <1>2, <1>a, <2>3, <2>6, StillGhosts, TypePartsNext DEF Rotate
  <1>3. ASSUME RevokeAllTokens(r)  PROVE TypeInv'
    <2>a. call[r].step = "revokeTokens" /\ call[r].user \in Users
      BY <1>3, <1>b DEF RevokeAllTokens, HandlerFacts
    <2>1. Handlers'
      <3>1. \/ call[r].op = "logout" /\ GoTo(r, "reply")
            \/ GoTo(r, "revokeSessions")
        BY <1>3 DEF RevokeAllTokens
      <3>2. call[r].op = "logout" => MayTake(call[r], "reply")
        BY <2>a DEF MayTake, Steps
      <3>3. call[r].op \in {"refreshToken", "logout", "resetPassword"}
        BY <2>a, <1>b DEF HandlerFacts
      <3>4. MayTake(call[r], "revokeSessions")
        BY <2>a, <3>3 DEF MayTake, Steps
      <3> QED  BY <3>1, <3>2, <3>4, MoveOn DEF Handlers
    <2>2. RevokeTokens(call[r].user)
      BY <1>3 DEF RevokeAllTokens
    <2>3. /\ token' \in [Tokens -> TokenRow] /\ \A t \in Tokens : TokenFacts(t)'
          /\ cut' \in SUBSET Tokens /\ upset' \in SUBSET Clients
      BY <2>a, <2>2, <1>a, RevokeType
    <2>4. signedOut' \in [Users -> 0..MaxPasswords] /\ old' \in SUBSET Tokens
      BY <1>3, <2>a, <1>a, SignsOutType DEF RevokeAllTokens, Ghosts
    <2>5. Tables'
      BY <1>3, <1>a, <2>3 DEF RevokeAllTokens, Tables
    <2>6. Ghosts'
      BY <1>3, <1>a, <2>3, <2>4 DEF RevokeAllTokens, Ghosts
    <2> QED  BY <2>1, <2>5, <2>6, TypePartsNext
  <1>4. ASSUME RevokeAllSessions(r)  PROVE TypeInv'
    <2>a. call[r].step = "revokeSessions"
          /\ call[r].op \in {"refreshToken", "logout", "resetPassword"}
      BY <1>4, <1>b DEF RevokeAllSessions, HandlerFacts
    <2>1. \/ call[r].op = "logout" /\ GoTo(r, "reply")
          \/ GoTo(r, "alarm") \/ Finish(r)
      BY <1>4, <2>a DEF RevokeAllSessions
    <2>2. Handlers'
      <3>1. MayTake(call[r], "alarm") /\ (call[r].op = "logout" => MayTake(call[r], "reply"))
        BY <2>a DEF MayTake, Steps
      <3> QED  BY <2>1, <3>1, MoveOn, FinishType DEF Handlers
    <2>3. session' \in [Sessions -> SessionRow]
      <3>1. session \in [Sessions -> SessionRow]
        BY <1>a DEF Tables
      <3>2. \A s \in Sessions : [session[s] EXCEPT !.active = FALSE] \in SessionRow
        BY <3>1 DEF SessionRow
      <3> QED  BY <1>4, <3>1, <3>2 DEF RevokeAllSessions, DeactivateSessions
    <2>4. Tables'
      BY <1>4, <1>a, <2>3 DEF RevokeAllSessions, Tables, TokenFacts
    <2> QED  BY <1>4, <1>a, <2>2, <2>4, StillGhosts, TypePartsNext DEF RevokeAllSessions
  <1>5. ASSUME NEW c \in Clients, NEW s \in Sessions \cup {Nobody}, Logout(r, c, s)
        PROVE  TypeInv'
    <2>1. /\ Handlers' /\ token' \in [Tokens -> TokenRow]
          /\ \A t \in Tokens : TokenFacts(t)'
      BY <1>5, SignOutType DEF Logout
    <2>2. Tables'
      BY <1>5, <1>a, <2>1 DEF Logout, Tables
    <2> QED  BY <1>5, <1>a, <2>1, <2>2, StillGhosts, TypePartsNext DEF Logout
  <1>6. ASSUME Reply(r)  PROVE TypeInv'
    <2>1. jar' \in [Clients -> Tokens \cup {Nobody}]
      BY <1>6, <1>a, <1>b DEF Reply, Tables, Handler
    <2>2. Tables'
      BY <1>6, <1>a, <2>1 DEF Reply, Tables, TokenFacts, rows
    <2>3. Handlers'
      BY <1>6, FinishType DEF Reply, Handlers
    <2> QED  BY <1>6, <1>a, <2>2, <2>3, StillGhosts, TypePartsNext DEF Reply
  <1>7. ASSUME RefreshRefused(r)  PROVE TypeInv'
    <2>1. call[r].client \in Clients /\ SignOut(r, call[r].client, Nobody)
      BY <1>7, <1>b DEF RefreshRefused, HandlerFacts
    <2>2. Handlers' /\ token' \in [Tokens -> TokenRow] /\ \A t \in Tokens : TokenFacts(t)'
      BY <2>1, <1>a, SignOutType
    <2>3. Tables' /\ Ghosts'
      BY <1>7, <1>a, <2>1, <2>2 DEF RefreshRefused, Tables, Ghosts
    <2> QED  BY <2>2, <2>3, TypePartsNext
  <1>8. ASSUME Drop(r)  PROVE TypeInv'
    <2>1. Handlers'
      BY <1>8, FinishType DEF Drop, Handlers
    <2>2. reopened' \in [Users -> BOOLEAN]
      BY <1>8, <1>a DEF Drop, Ghosts
    <2>3. upset' \in SUBSET Clients
      BY <1>8, <1>a, <1>b DEF Drop, Ghosts, Handler
    <2>4. Ghosts'
      BY <1>8, <1>a, <2>2, <2>3 DEF Drop, Ghosts
    <2> QED  BY <1>8, <1>a, <2>1, <2>4, StillTables, TypePartsNext DEF Drop
  <1>9. ASSUME NEW t \in Tokens, ChangePassword(r, t)  PROVE TypeInv'
    <2> DEFINE u == token[t].user
               h == [NoCall EXCEPT !.op = "changePassword", !.user = u,
                                   !.step = "password"]
    <2>1. u \in Users /\ NoCall \in Handler
      BY <1>9, <1>a, NoCallFacts DEF ChangePassword, Tables, TokenRow
    <2>2. Start(r, h)
      BY <1>9 DEF ChangePassword
    <2> HIDE DEF u
    <2>c. "changePassword" \in Endpoints /\ "password" \in Steps
      BY DEF Endpoints, Steps
    <2>3. h \in Handler /\ h.op = "changePassword" /\ h.step = "password" /\ h.user = u
      BY <2>1, <2>c DEF Handler
    <2> HIDE DEF h
    <2>4. HandlerFacts(h)
      BY <2>1, <2>3 DEF HandlerFacts
    <2> QED  BY <1>9, <1>a, <2>2, <2>3, <2>4, StartType, StillTables, StillGhosts, TypePartsNext
             DEF ChangePassword, Handlers
  <1>10. ASSUME StorePassword(r)  PROVE TypeInv'
    <2>a. call[r].step = "password" /\ call[r].user \in Users
          /\ call[r].op \in {"changePassword", "resetPassword"}
      BY <1>10, <1>b DEF StorePassword, HandlerFacts
    <2>b. \/ call[r].op = "changePassword" /\ GoTo(r, "deleteTokens")
          \/ call[r].op = "resetPassword" /\ GoTo(r, "revokeTokens")
      BY <1>10, <2>a DEF StorePassword
    <2>c. /\ call[r].op = "changePassword" => MayTake(call[r], "deleteTokens")
          /\ call[r].op = "resetPassword" => MayTake(call[r], "revokeTokens")
      BY <2>a DEF MayTake, Steps
    <2>1. Handlers'
      BY <2>b, <2>c, MoveOn DEF Handlers
    <2>2. password' \in [Users -> 0..MaxPasswords]
      BY <1>10, <1>a, <2>a DEF StorePassword, Tables
    <2>3. Tables'
      BY <1>10, <1>a, <2>2 DEF StorePassword, Tables, TokenFacts
    <2> QED  BY <1>10, <1>a, <2>1, <2>3, StillGhosts, TypePartsNext DEF StorePassword
  <1>11. ASSUME ForgetTokens(r)  PROVE TypeInv'
    <2>a. call[r].user \in Users
      BY <1>11, <1>b DEF ForgetTokens, At, HandlerFacts
    <2>1. Handlers'
      BY <1>11, FinishType DEF ForgetTokens, Handlers
    <2>2. /\ token' \in [Tokens -> TokenRow] /\ \A t \in Tokens : TokenFacts(t)'
          /\ cut' \in SUBSET Tokens /\ upset' \in SUBSET Clients
      BY <1>11, <2>a, <1>a, RevokeType DEF ForgetTokens
    <2>3. signedOut' \in [Users -> 0..MaxPasswords] /\ old' \in SUBSET Tokens
      BY <1>11, <2>a, <1>a, SignsOutType DEF ForgetTokens
    <2>4. Tables' /\ Ghosts'
      BY <1>11, <1>a, <2>2, <2>3 DEF ForgetTokens, Tables, Ghosts
    <2> QED  BY <2>1, <2>4, TypePartsNext
  <1> QED
    BY <1>1, <1>2, <1>3, <1>4, <1>5, <1>6, <1>7, <1>8, <1>9, <1>10, <1>11 DEF TokenSteps

LEMMA CountUp ==
  ASSUME NEW f \in [Otps -> Nat], NEW o
  PROVE  [f EXCEPT ![o] = @ + 1] \in [Otps -> Nat]
  <1>1. o \in Otps => f[o] + 1 \in Nat
    OBVIOUS
  <1> QED  BY <1>1

(* One more wrong code, up to the limit. *)
CountOne(row) ==
  [row EXCEPT !.attempts = IF row.attempts < MaxAttempts THEN row.attempts + 1
                           ELSE row.attempts]
LEMMA CountOneType ==
  ASSUME NEW row \in OtpRow  PROVE CountOne(row) \in OtpRow
  <1> DEFINE n == IF row.attempts < MaxAttempts THEN row.attempts + 1 ELSE row.attempts
  <1>1. row.attempts \in 0..MaxAttempts
    BY DEF OtpRow
  <1>2. n \in 0..MaxAttempts
    BY <1>1
  <1> HIDE DEF n
  <1>3. [row EXCEPT !.attempts = n] \in OtpRow
    BY <1>2 DEF OtpRow
  <1> QED  BY <1>3 DEF CountOne, n

(* One column of a row, which is a Boolean. *)
LEMMA UserFlag ==
  ASSUME NEW row \in UserRow, NEW d \in BOOLEAN
  PROVE  [row EXCEPT !.deleted = d] \in UserRow /\ [row EXCEPT !.aged = d] \in UserRow
  BY DEF UserRow
LEMMA TokenFlag ==
  ASSUME NEW row \in TokenRow  PROVE [row EXCEPT !.expired = TRUE] \in TokenRow
  BY DEF TokenRow
LEMMA OtpFlag ==
  ASSUME NEW row \in OtpRow  PROVE [row EXCEPT !.expired = TRUE] \in OtpRow
  BY DEF OtpRow
LEMMA SessionFlag ==
  ASSUME NEW row \in SessionRow  PROVE [row EXCEPT !.active = FALSE] \in SessionRow
  BY DEF SessionRow
LEMMA FlagType ==
  ASSUME Tables
  PROVE  /\ \A u \in Users, d \in BOOLEAN :
              /\ [account EXCEPT ![u].deleted = d] \in [Users -> UserRow]
              /\ [account EXCEPT ![u].aged = d] \in [Users -> UserRow]
         /\ \A t \in Tokens : [token EXCEPT ![t].expired = TRUE] \in [Tokens -> TokenRow]
         /\ \A o \in Otps : [otp EXCEPT ![o].expired = TRUE] \in [Otps -> OtpRow]
         /\ \A s \in Sessions : [session[s] EXCEPT !.active = FALSE] \in SessionRow
  <1>1. account \in [Users -> UserRow] /\ token \in [Tokens -> TokenRow]
        /\ otp \in [Otps -> OtpRow] /\ session \in [Sessions -> SessionRow]
    BY DEF Tables
  <1>2. ASSUME NEW u \in Users, NEW d \in BOOLEAN
        PROVE  /\ [account EXCEPT ![u].deleted = d] \in [Users -> UserRow]
               /\ [account EXCEPT ![u].aged = d] \in [Users -> UserRow]
    BY <1>1, UserFlag
  <1>3. ASSUME NEW t \in Tokens
        PROVE  [token EXCEPT ![t].expired = TRUE] \in [Tokens -> TokenRow]
    BY <1>1, TokenFlag
  <1>4. ASSUME NEW o \in Otps
        PROVE  [otp EXCEPT ![o].expired = TRUE] \in [Otps -> OtpRow]
    BY <1>1, OtpFlag
  <1>5. ASSUME NEW s \in Sessions
        PROVE  [session[s] EXCEPT !.active = FALSE] \in SessionRow
    BY <1>1, SessionFlag
  <1> QED  BY <1>2, <1>3, <1>4, <1>5

LEMMA OtpType ==
  ASSUME TypeInv, NEW r \in Calls, OtpSteps(r)
  PROVE  TypeInv'
  <1>a. Tables /\ Ghosts /\ Handlers
    BY TypeParts
  <1>b. call[r] \in Handler /\ HandlerFacts(call[r])
    BY <1>a DEF Handlers
  <1>c. NoCall \in Handler /\ NoCall.token = Nobody /\ NoCall.client = Nobody
    BY NoCallFacts DEF NoCall
  <1>1. ASSUME NEW u \in Users, NEW p \in Purposes, RequestOtp(r, u, p)  PROVE TypeInv'
    <2> DEFINE flag == (p = "REGISTER")
               h == [NoCall EXCEPT !.op = "generateOtp", !.user = u, !.step = "create",
                                   !.flag = flag]
    <2>0. flag \in BOOLEAN /\ "generateOtp" \in Endpoints /\ "create" \in Steps
      BY DEF Endpoints, Steps
    <2> HIDE DEF flag
    <2>1. h \in Handler /\ h.op = "generateOtp" /\ h.step = "create" /\ h.user = u
      <3>1. NoCall \in Handler
        BY <1>c
      <3> QED  BY <3>1, <2>0 DEF Handler
    <2>2. Start(r, h)
      BY <1>1 DEF RequestOtp, flag
    <2> HIDE DEF h
    <2>3. HandlerFacts(h)
      BY <2>1 DEF HandlerFacts
    <2> QED  BY <1>1, <1>a, <2>1, <2>2, <2>3, StartType, StillTables, StillGhosts,
                TypePartsNext DEF RequestOtp, Handlers
  <1>2. ASSUME NEW o \in Otps, CreateOtp(r, o)  PROVE TypeInv'
    <2> DEFINE p == IF call[r].flag THEN "REGISTER" ELSE "RESET_PASSWORD"
               u == call[r].user
               row == [NoOtp EXCEPT !.user = u, !.state = "pending", !.purpose = p]
    <2>1. u \in Users /\ p \in Purposes /\ NoOtp \in OtpRow
      BY <1>2, <1>b DEF CreateOtp, At, HandlerFacts, Purposes, NoOtp, OtpRow
    <2>2. otp' = [otp EXCEPT ![o] = row]
      BY <1>2 DEF CreateOtp
    <2> HIDE DEF p, u
    <2>3. row \in OtpRow
      BY <2>1 DEF OtpRow
    <2> HIDE DEF row
    <2>4. otp' \in [Otps -> OtpRow]
      BY <1>a, <2>2, <2>3 DEF Tables
    <2>5. Tables'
      BY <1>2, <1>a, <2>4 DEF CreateOtp, Tables, TokenFacts
    <2>6. Handlers'
      BY <1>2, FinishType DEF CreateOtp, Handlers
    <2> QED  BY <1>2, <1>a, <2>5, <2>6, StillGhosts, TypePartsNext DEF CreateOtp
  <1>3. ASSUME NEW op \in OtpOps, NEW u \in Users, NEW p \in Purposes, NEW o \in Otps,
               SubmitOtp(r, op, u, p, o)
        PROVE  TypeInv'
    <2> DEFINE h == [NoCall EXCEPT !.op = op, !.user = u, !.otp = o, !.step = "consume"]
    <2>0. op \in Endpoints /\ "consume" \in Steps
      BY DEF Endpoints, Steps, OtpOps
    <2>1. /\ h \in Handler /\ h.op = op /\ h.step = "consume" /\ h.user = u
          /\ h.token = Nobody /\ h.client = Nobody
      BY <1>c, <2>0 DEF Handler
    <2>2. Start(r, h)
      BY <1>3 DEF SubmitOtp
    <2> HIDE DEF h
    <2>3. HandlerFacts(h)
      BY <2>1 DEF HandlerFacts, OtpOps
    <2> QED  BY <1>3, <1>a, <2>1, <2>2, <2>3, StartType, StillTables, StillGhosts,
                TypePartsNext DEF SubmitOtp, Handlers
  <1>4. ASSUME WrongOtp(r)  PROVE TypeInv'
    <2> DEFINE o == call[r].otp
    <2>1. otp \in [Otps -> OtpRow]
      BY <1>a DEF Tables
    <2>2. otp' = [otp EXCEPT ![o].attempts = IF @ < MaxAttempts THEN @ + 1 ELSE @]
      BY <1>4 DEF WrongOtp
    <2> HIDE DEF o
    <2>3. o \in Otps => CountOne(otp[o]) \in OtpRow
      BY <2>1, CountOneType
    <2>4. otp' \in [Otps -> OtpRow]
      <3>1. otp' = [otp EXCEPT ![o] = CountOne(otp[o])]
        BY <2>1, <2>2 DEF CountOne
      <3> QED  BY <2>1, <2>3, <3>1
    <2>5. guesses' \in [Otps -> Nat]
      BY <1>4, <1>a, CountUp DEF WrongOtp, Ghosts
    <2>6. Handlers'
      BY <1>4, FinishType DEF WrongOtp, Handlers
    <2>7. Tables' /\ Ghosts'
      BY <1>4, <1>a, <2>4, <2>5 DEF WrongOtp, Tables, Ghosts, TokenFacts
    <2> QED  BY <2>6, <2>7, TypePartsNext
  <1>5. ASSUME ConsumeOtp(r)  PROVE TypeInv'
    <2>a. call[r].user \in Users /\ call[r].step = "consume"
          /\ \/ call[r].op = "register" /\ GoTo(r, "createUser")
             \/ call[r].op = "resetPassword" /\ GoTo(r, "password")
      BY <1>5, <1>b DEF ConsumeOtp, HandlerFacts
    <2>b. /\ call[r].op = "register" => MayTake(call[r], "createUser")
          /\ call[r].op = "resetPassword" => MayTake(call[r], "password")
      BY <2>a DEF MayTake, Steps
    <2>1. Handlers'
      BY <2>a, <2>b, MoveOn DEF Handlers
    <2>2. otp' \in [Otps -> OtpRow]
      <3>1. otp' = [otp EXCEPT ![call[r].otp].state = "consumed"]
        BY <1>5 DEF ConsumeOtp
      <3>2. \A row \in OtpRow : [row EXCEPT !.state = "consumed"] \in OtpRow
        BY DEF OtpRow
      <3>3. otp \in [Otps -> OtpRow]
        BY <1>a DEF Tables
      <3> QED  BY <3>1, <3>2, <3>3
    <2>3. uses' \in [Otps -> Nat]
      BY <1>5, <1>a, CountUp DEF ConsumeOtp, Ghosts
    <2>4. Tables' /\ Ghosts'
      BY <1>5, <1>a, <2>2, <2>3 DEF ConsumeOtp, Tables, Ghosts, TokenFacts
    <2> QED  BY <2>1, <2>4, TypePartsNext
  <1>6. ASSUME CreateUser(r)  PROVE TypeInv'
    <2> DEFINE u == call[r].user
               h == [call[r] EXCEPT !.step = "issue", !.password = password[u]]
    <2>1. u \in Users /\ call[r].op = "register" /\ call[r].token = Nobody
      BY <1>6, <1>b DEF CreateUser, At, HandlerFacts
    <2>2. h \in Handler /\ HandlerFacts(h)
      <3>1. password[u] \in 0..MaxPasswords /\ "issue" \in Steps
        BY <1>a, <2>1 DEF Tables, Steps
      <3>2. h \in Handler
        BY <1>b, <3>1 DEF Handler
      <3>3. /\ h.step = "issue" /\ h.op = "register" /\ h.user = u /\ h.token = Nobody
            /\ h.client = call[r].client
        BY <1>b, <2>1 DEF Handler
      <3>4. call[r].client = Nobody
        BY <1>b, <2>1 DEF HandlerFacts
      <3> HIDE DEF h
      <3> QED  BY <2>1, <3>2, <3>3, <3>4 DEF HandlerFacts
    <2>3. call' = [call EXCEPT ![r] = h]
      BY <1>6 DEF CreateUser
    <2>4. NewUser \in UserRow
      BY DEF NewUser, NoUser, UserRow, UserStatus
    <2> HIDE DEF h
    <2>5. Handlers'
      BY <2>2, <2>3, MoveType DEF Handlers
    <2>6. Tables'
      BY <1>6, <1>a, <2>4 DEF CreateUser, Tables, TokenFacts
    <2> QED  BY <1>6, <1>a, <2>5, <2>6, StillGhosts, TypePartsNext DEF CreateUser
  <1> QED  BY <1>1, <1>2, <1>3, <1>4, <1>5, <1>6 DEF OtpSteps

LEMMA AdminType ==
  ASSUME TypeInv, AdminSteps
  PROVE  TypeInv'
  <1>a. Tables /\ Ghosts /\ Handlers
    BY TypeParts
  <1>c. NoCall \in Handler
    BY NoCallFacts
  <1>d. UNCHANGED call => Handlers'
    BY <1>a DEF Handlers
  <1>1. ASSUME NEW u \in Users, NEW status \in UserStatus, UpdateUser(u, status)
        PROVE  TypeInv'
    <2>1. account' \in [Users -> UserRow]
      BY <1>1, <1>a DEF UpdateUser, Tables, UserRow, UserStatus
    <2>2. adminLock' \in [Users -> BOOLEAN] /\ reopened' \in [Users -> BOOLEAN]
      BY <1>1, <1>a DEF UpdateUser, AdminStatus, Ghosts
    <2>3. Tables' /\ Ghosts'
      BY <1>1, <1>a, <2>1, <2>2 DEF UpdateUser, Tables, Ghosts, TokenFacts
    <2> QED  BY <1>1, <1>d, <2>3, TypePartsNext DEF UpdateUser
  <1>2. ASSUME NEW r \in Calls, NEW u \in Users, LockUser(r, u)  PROVE TypeInv'
    <2> DEFINE flag == (account[u].status = "ACTIVE")
               h == [NoCall EXCEPT !.op = "lockUser", !.user = u, !.step = "update",
                                   !.flag = flag]
    <2>0. flag \in BOOLEAN /\ "lockUser" \in Endpoints /\ "update" \in Steps
      BY DEF Endpoints, Steps
    <2> HIDE DEF flag
    <2>1. h \in Handler /\ h.op = "lockUser" /\ h.step = "update" /\ h.user = u
      BY <1>c, <2>0 DEF Handler
    <2>2. Start(r, h)
      BY <1>2 DEF LockUser, flag
    <2> HIDE DEF h
    <2>3. HandlerFacts(h)
      BY <2>1 DEF HandlerFacts
    <2> QED  BY <1>2, <1>a, <2>1, <2>2, <2>3, StartType, StillTables, StillGhosts,
                TypePartsNext DEF LockUser, Handlers
  <1>3. ASSUME NEW r \in Calls, NEW u \in Users, UnlockAccount(r, u)  PROVE TypeInv'
    <2> DEFINE h == [NoCall EXCEPT !.op = "unlockAccount", !.user = u, !.step = "update"]
    <2>0. "unlockAccount" \in Endpoints /\ "update" \in Steps
      BY DEF Endpoints, Steps
    <2>1. h \in Handler /\ h.op = "unlockAccount" /\ h.step = "update" /\ h.user = u
      BY <1>c, <2>0 DEF Handler
    <2>2. Start(r, h)
      BY <1>3 DEF UnlockAccount
    <2> HIDE DEF h
    <2>3. HandlerFacts(h)
      BY <2>1 DEF HandlerFacts
    <2> QED  BY <1>3, <1>a, <2>1, <2>2, <2>3, StartType, StillTables, StillGhosts,
                TypePartsNext DEF UnlockAccount, Handlers
  <1>4. ASSUME NEW r \in Calls, WriteStatus(r)  PROVE TypeInv'
    <2>1. account' \in [Users -> UserRow]
      BY <1>4, <1>a, StatusType DEF WriteStatus, UserStatus
    <2>2. adminLock' \in [Users -> BOOLEAN] /\ reopened' \in [Users -> BOOLEAN]
      BY <1>4, <1>a DEF WriteStatus, AdminStatus, Ghosts
    <2>3. Handlers'
      BY <1>4, FinishType DEF WriteStatus, Handlers
    <2>4. Tables' /\ Ghosts'
      BY <1>4, <1>a, <2>1, <2>2 DEF WriteStatus, Tables, Ghosts, TokenFacts
    <2> QED  BY <2>3, <2>4, TypePartsNext
  <1>5. ASSUME NEW u \in Users, DeleteUser(u)  PROVE TypeInv'
    <2>1. /\ token' \in [Tokens -> TokenRow] /\ \A t \in Tokens : TokenFacts(t)'
          /\ cut' \in SUBSET Tokens /\ upset' \in SUBSET Clients
      BY <1>5, <1>a, RevokeType DEF DeleteUser
    <2>2. account' \in [Users -> UserRow]
      BY <1>5, <1>a, FlagType DEF DeleteUser
    <2>3. Tables' /\ Ghosts'
      BY <1>5, <1>a, <2>1, <2>2 DEF DeleteUser, Tables, Ghosts
    <2> QED  BY <1>5, <1>d, <2>3, TypePartsNext DEF DeleteUser
  <1>6. ASSUME NEW u \in Users, RestoreUser(u)  PROVE TypeInv'
    <2>1. account' \in [Users -> UserRow]
      BY <1>6, <1>a, FlagType DEF RestoreUser
    <2>2. Tables'
      BY <1>6, <1>a, <2>1 DEF RestoreUser, Tables, TokenFacts
    <2> QED  BY <1>6, <1>a, <1>d, <2>2, StillGhosts, TypePartsNext DEF RestoreUser
  <1>7. ASSUME NEW t \in Tokens, NEW S \in SUBSET Sessions, RevokeSessions(t, S)
        PROVE  TypeInv'
    <2>1. session' \in [Sessions -> SessionRow]
      BY <1>7, <1>a, FlagType DEF RevokeSessions, DeactivateSessions, Tables
    <2>2. Tables'
      BY <1>7, <1>a, <2>1 DEF RevokeSessions, Tables, TokenFacts
    <2> QED  BY <1>7, <1>a, <1>d, <2>2, StillGhosts, TypePartsNext DEF RevokeSessions
  <1> QED  BY <1>1, <1>2, <1>3, <1>4, <1>5, <1>6, <1>7 DEF AdminSteps

LEMMA TimeType ==
  ASSUME TypeInv, Time
  PROVE  TypeInv'
  <1>a. Tables /\ Ghosts /\ Handlers
    BY TypeParts
  <1>d. UNCHANGED call => Handlers'
    BY <1>a DEF Handlers
  <1>1. ASSUME NEW u \in Users, LockAges(u)  PROVE TypeInv'
    <2>1. account' \in [Users -> UserRow]
      BY <1>1, <1>a, FlagType DEF LockAges
    <2>2. Tables'
      BY <1>1, <1>a, <2>1 DEF LockAges, Tables, TokenFacts
    <2> QED  BY <1>1, <1>a, <1>d, <2>2, StillGhosts, TypePartsNext DEF LockAges
  <1>2. ASSUME NEW u \in Users, FailureAges(u)  PROVE TypeInv'
    <2>1. failures' \in [Users -> 0..MaxFailures]
      BY <1>2, <1>a DEF FailureAges, Tables
    <2>2. Tables'
      BY <1>2, <1>a, <2>1 DEF FailureAges, Tables, TokenFacts
    <2> QED  BY <1>2, <1>a, <1>d, <2>2, StillGhosts, TypePartsNext DEF FailureAges
  <1>3. ASSUME NEW t \in Tokens, TokenExpires(t)  PROVE TypeInv'
    <2>1. token' \in [Tokens -> TokenRow]
      BY <1>3, <1>a, FlagType DEF TokenExpires
    <2>2. \A x \in Tokens : TokenFacts(x)'
      BY <1>3, <1>a DEF TokenExpires, Tables, TokenRow, TokenFacts
    <2>3. Tables'
      BY <1>3, <1>a, <2>1, <2>2 DEF TokenExpires, Tables
    <2> QED  BY <1>3, <1>a, <1>d, <2>3, StillGhosts, TypePartsNext DEF TokenExpires
  <1>4. ASSUME NEW t \in Tokens, AccessExpires(t) \/ BlacklistLapses(t)  PROVE TypeInv'
    <2>1. PICK a \in {"good", "blacklisted", "dead"} :
            token' = [token EXCEPT ![t].access = a] /\ token[t].access # "dead"
      BY <1>4 DEF AccessExpires, BlacklistLapses
    <2>2. token' \in [Tokens -> TokenRow] /\ \A x \in Tokens : TokenFacts(x)'
      BY <1>a, <2>1, AccessType
    <2>3. Tables'
      BY <1>4, <1>a, <2>2 DEF AccessExpires, BlacklistLapses, Tables
    <2> QED  BY <1>4, <1>a, <1>d, <2>3, StillGhosts, TypePartsNext
             DEF AccessExpires, BlacklistLapses
  <1>5. ASSUME NEW o \in Otps, OtpExpires(o)  PROVE TypeInv'
    <2>1. otp' \in [Otps -> OtpRow]
      BY <1>5, <1>a, FlagType DEF OtpExpires
    <2>2. Tables'
      BY <1>5, <1>a, <2>1 DEF OtpExpires, Tables, TokenFacts
    <2> QED  BY <1>5, <1>a, <1>d, <2>2, StillGhosts, TypePartsNext DEF OtpExpires
  <1> QED  BY <1>1, <1>2, <1>3, <1>4, <1>5 DEF Time

LEMMA TypeNext == TypeInv /\ [Next]_vars => TypeInv'
  <1> SUFFICES ASSUME TypeInv, [Next]_vars PROVE TypeInv'
    OBVIOUS
  <1>1. CASE UNCHANGED vars
    <2>1. UNCHANGED <<scene, rows, jar, history>> /\ UNCHANGED call
      BY <1>1 DEF vars, rows, history
    <2> QED  BY <2>1, TypeParts, TypePartsNext, StillTables, StillGhosts DEF Handlers
  <1> QED  BY <1>1, LoginType, TokensType, OtpType, AdminType, TimeType DEF Next

(* The rows of authentication and its handlers keep their types: counters   *)
(* and attempts stay within their bounds, and a handler that is about to    *)
(* write names a user.                                                      *)
THEOREM AuthTypeCorrect == Spec => []TypeOK
  <1>1. TypeInv => TypeOK
    BY DEF TypeInv
  <1> QED  BY <1>1, TypeInit, TypeNext, PTL DEF Spec
=============================================================================
