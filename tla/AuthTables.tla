----------------------------- MODULE AuthTables -----------------------------
(***************************************************************************)
(* The rows that authentication keeps (User, RefreshToken, UserSession,    *)
(* LoginHistory, OtpCode) and the helpers that its handlers share.  As in  *)
(* BookingTables a handler in flight is a record in `call`: none of these  *)
(* handlers opens a transaction, so every await on the database is a step. *)
(*                                                                         *)
(* Passwords, hashes, codes and tokens are abstract: a request carries the *)
(* right one or a wrong one.  Clocks are abstract: a lock grows older than *)
(* 30 minutes, a failed login leaves the window of 15 minutes, a token or  *)
(* a code expires, each by an action of its own.                           *)
(***************************************************************************)
EXTENDS Integers, FiniteSets

CONSTANTS
  Users,        \* e-mail addresses, each with at most one User row
  Tokens,       \* ids of RefreshToken rows, each with its access token
  Sessions,     \* ids of UserSession rows
  MaxOtps,      \* bound: OtpCode rows, numbered in the order of their ids
  Calls,        \* HTTP requests in flight at the same time
  Clients,      \* browsers, each with its cookies
  Scenes,       \* sets of endpoints, inputs and clocks: a behaviour uses one set
  FailLimit,    \* 5 failed logins lock the account
  MaxFailures,  \* bound: failed logins in the window of 15 minutes
  MaxAttempts,  \* 5 wrong codes exhaust an OTP
  MaxPasswords, \* bound: password changes
  Nobody        \* a NULL column, an absent client

Otps == 1..MaxOtps

Endpoints == {"generateOtp", "register", "login", "refreshToken", "logout",
              "changePassword", "resetPassword", "verifyOtpCode", "lockUser",
              "unlockAccount", "updateUser", "deleteUser", "restoreUser", "sessions"}
Inputs == {"wrongPassword", "lockAges", "failureAges", "tokenExpires", "accessExpires",
           "blacklistLapses", "otpExpires"}

ASSUME AuthAssumption ==
  /\ Nobody \notin Users \cup Tokens \cup Sessions \cup Clients
  /\ IsFiniteSet(Calls) /\ Calls # {}
  /\ FailLimit \in Nat \ {0} /\ MaxFailures \in Nat
  /\ MaxAttempts \in Nat \ {0} /\ Scenes \subseteq SUBSET (Endpoints \cup Inputs)
  /\ MaxOtps \in Nat /\ MaxPasswords \in Nat

VARIABLES
  scene,     \* what this behaviour uses, constant along it
  account,   \* the User row of an address
  password,  \* User.passwordHash, as the number of changes so far
  failures,  \* LoginHistory rows with success = false of the last 15 minutes
  token,     \* RefreshToken rows
  session,   \* UserSession rows
  otp,       \* OtpCode rows
  jar,       \* the refresh_token cookie of a browser
  call,      \* the request handlers
  \* History variables, which no code reads:
  adminLock, \* the last status an administrator gave the account is LOCKED
  reopened,  \* since its last failed login the account was given a status other
             \* than LOCKED, or a login that counts failures was cut off
  cut,       \* tokens that existed when all tokens of their user were revoked
  signedOut, \* the password whose storing was followed by revoking the tokens
  old,       \* tokens that go back to a login with an older password than that
  guesses,   \* wrong codes compared with an OTP
  uses,      \* requests that consumed an OTP
  upset      \* browsers with a refresh lost or overlapped, or tokens all revoked

history == <<adminLock, reopened, cut, signedOut, old, guesses, uses, upset>>
rows == <<account, password, failures, token, session, otp>>
vars == <<scene, account, password, failures, token, session, otp, jar, call,
          adminLock, reopened, cut, signedOut, old, guesses, uses,
          upset>>
-----------------------------------------------------------------------------
(* lockReason is AUTO for 'AUTO_FAILED_LOGIN:<time>'; aged says that <time> *)
(* is more than 30 minutes ago.                                             *)
UserStatus == {"ACTIVE", "LOCKED", "PENDING_VERIFICATION"}
UserRow == [status : UserStatus \cup {"NONE"}, reason : {"null", "ADMIN_LOCK", "AUTO"},
            aged : BOOLEAN, deleted : BOOLEAN]
NoUser == [status |-> "NONE", reason |-> "null", aged |-> FALSE, deleted |-> FALSE]
NewUser == [NoUser EXCEPT !.status = "ACTIVE"]

(* A RefreshToken row and the access token signed with it, which is good,   *)
(* on the blacklist of the cache, or dead: expired, or never signed.        *)
(* parent is no column: the token it replaced.                              *)
TokenRow == [user : Users \cup {Nobody},
             state : {"none", "valid", "revoked", "deleted"}, expired : BOOLEAN,
             access : {"good", "blacklisted", "dead"},
             parent : Tokens \cup {Nobody}]
NoToken == [user |-> Nobody, state |-> "none", expired |-> FALSE, access |-> "dead",
            parent |-> Nobody]

SessionRow == [user : Users \cup {Nobody}, active : BOOLEAN]
NoSession == [user |-> Nobody, active |-> FALSE]

Purposes == {"REGISTER", "RESET_PASSWORD"}
OtpRow == [user : Users \cup {Nobody}, purpose : Purposes,
           state : {"none", "pending", "consumed"}, expired : BOOLEAN,
           attempts : 0..MaxAttempts]
NoOtp == [user |-> Nobody, purpose |-> "REGISTER", state |-> "none",
          expired |-> FALSE, attempts |-> 0]

Steps == {"none", "create", "unlock", "compare", "count", "lock", "session", "issue",
          "rotate", "consume", "createUser", "password", "revokeTokens",
          "revokeSessions", "deleteTokens", "update", "reply", "alarm"}

(* A handler in flight: what it works on, the password it read, and a flag: *)
(* lockUser read the account as ACTIVE, generateOtp was asked to REGISTER.  *)
Handler == [op : Endpoints \cup {"idle"}, step : Steps, user : Users \cup {Nobody},
            client : Clients \cup {Nobody}, token : Tokens \cup {Nobody},
            otp : Otps \cup {0}, session : Sessions \cup {Nobody}, flag : BOOLEAN,
            password : 0..MaxPasswords]
NoCall == [op |-> "idle", step |-> "none", user |-> Nobody, client |-> Nobody,
           token |-> Nobody, otp |-> 0, session |-> Nobody, flag |-> FALSE,
           password |-> 0]

TypeOK ==
  /\ scene \in SUBSET (Endpoints \cup Inputs)
  /\ account \in [Users -> UserRow]
  /\ password \in [Users -> 0..MaxPasswords]
  /\ failures \in [Users -> 0..MaxFailures]
  /\ token \in [Tokens -> TokenRow]
  /\ session \in [Sessions -> SessionRow]
  /\ otp \in [Otps -> OtpRow]
  /\ jar \in [Clients -> Tokens \cup {Nobody}]
  /\ call \in [Calls -> Handler]
  /\ adminLock \in [Users -> BOOLEAN] /\ reopened \in [Users -> BOOLEAN]
  /\ cut \in SUBSET Tokens /\ old \in SUBSET Tokens
  /\ signedOut \in [Users -> 0..MaxPasswords]
  /\ guesses \in [Otps -> Nat] /\ uses \in [Otps -> Nat]
  /\ upset \in SUBSET Clients
-----------------------------------------------------------------------------
Idle(r) == call[r].op = "idle"
At(r, op, step) == call[r].op = op /\ call[r].step = step
Start(r, c) == Idle(r) /\ c.op \in scene /\ call' = [call EXCEPT ![r] = c]
GoTo(r, step) == call' = [call EXCEPT ![r].step = step]
Finish(r) == call' = [call EXCEPT ![r] = NoCall]

Exists(u) == account[u].status # "NONE"

(* JwtAuthGuard and JwtStrategy.validate: the access token is neither       *)
(* expired nor blacklisted, the user neither deleted nor locked.            *)
Authenticated(t) ==
  /\ token[t].access = "good"
  /\ ~ account[token[t].user].deleted
  /\ account[token[t].user].status # "LOCKED"

TokensOf(u) == {t \in Tokens : token[t].user = u}
\* Browsers that hold a token of the user or wait for an answer about one.
ClientsOf(u) == {c \in Clients : jar[c] \in TokensOf(u)
                                   \/ \E r \in Calls : call[r].client = c /\ call[r].user = u}

\* Mutant: only the tokens that have not expired.
RevokeTokens_Unexpired(u) ==
  /\ token' = [t \in Tokens |-> IF token[t].user = u /\ ~ token[t].expired
                                  /\ token[t].state = "valid"
                                THEN [token[t] EXCEPT !.state = "revoked"] ELSE token[t]]
  /\ cut' = cut \cup TokensOf(u)
  /\ upset' = upset \cup ClientsOf(u)

(* refreshToken.updateMany where revokedAt is null, and deleteMany.         *)
RevokeTokens(u) ==
  /\ token' = [t \in Tokens |-> IF token[t].user = u /\ token[t].state = "valid"
                                THEN [token[t] EXCEPT !.state = "revoked"] ELSE token[t]]
  /\ cut' = cut \cup TokensOf(u)
  /\ upset' = upset \cup ClientsOf(u)
DeleteTokens(u) ==
  /\ token' = [t \in Tokens |-> IF token[t].user = u
                                THEN [token[t] EXCEPT !.state = "deleted"] ELSE token[t]]
  /\ cut' = cut \cup TokensOf(u)
  /\ upset' = upset \cup ClientsOf(u)

\* The tokens that go with a new password, for the history variables.
SignsOut(u) ==
  /\ signedOut' = [signedOut EXCEPT ![u] = password[u]]
  /\ old' = old \cup TokensOf(u)

DeactivateSessions(S) ==
  session' = [s \in Sessions |-> IF s \in S THEN [session[s] EXCEPT !.active = FALSE]
                                            ELSE session[s]]
SessionsOf(u) == {s \in Sessions : session[s].user = u}
=============================================================================
