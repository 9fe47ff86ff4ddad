-------------------------- MODULE PermissionCache ---------------------------
(***************************************************************************)
(* Roles and permissions: AuthorizationGuard with its cache of five minutes *)
(* and the edits of RbacController that have to invalidate it.              *)
(*                                                                          *)
(* assignPermission is no action: the field permissionId of its DTO has no  *)
(* validator, so the global ValidationPipe (main.ts, forbidNonWhitelisted)  *)
(* refuses every request that names one.                                    *)
(***************************************************************************)
EXTENDS Handlers

CONSTANTS
  Roles,         \* USER, STAFF and ADMIN
  DefaultCodes,  \* PERMISSION_DEFINITIONS
  DefaultsOf,    \* what seedDefaultPermissions gives a role
  CustomCodes,   \* codes an administrator may add
  MaxEdits       \* bound: permissions removed, defaults seeded

ASSUME CacheAssumption ==
  /\ Roles = {"USER", "STAFF", "ADMIN"} /\ DefaultsOf \in [Roles -> SUBSET DefaultCodes]
  /\ MaxEdits \in Nat

VARIABLES
  codes,    \* the Permission rows
  grants,   \* the RolePermission rows of a role
  cached,   \* the cache entries role_permissions_<role>: a set of lists, one or none
  edits,    \* bound
  tainted   \* history: roles whose entry comes from a read that an edit overtook,
            \* or whose invalidation was cut off

cacheRows == <<codes, grants, cached>>
cacheVars == <<codes, grants, cached, edits, tainted, call>>

Codes == DefaultCodes \cup CustomCodes

CacheCalls ==
  {idle} \cup [step : {"query"}, role : Roles]
         \cup [step : {"store"}, role : Roles, list : SUBSET Codes, raced : BOOLEAN]
         \cup [step : {"grantAdmin", "grantStaff"}, seen : SUBSET Codes]
         \cup [step : {"invalidate"}, roles : Seq(Roles)]

CacheTypeOK ==
  /\ codes \in SUBSET Codes /\ grants \in [Roles -> SUBSET Codes]
  /\ cached \in [Roles -> SUBSET SUBSET Codes]
  /\ \A role \in Roles : Cardinality(cached[role]) <= 1
  /\ edits \in 0..MaxEdits /\ tainted \in SUBSET Roles
  /\ call \in [Requests -> CacheCalls]

CacheInit ==
  /\ codes = DefaultCodes /\ grants = DefaultsOf
  /\ cached = [role \in Roles |-> {}]
  /\ edits = 0 /\ tainted = {}
  /\ call = [r \in Requests |-> idle]
-----------------------------------------------------------------------------
(* The routes that want a permission, with the roles they are open to.      *)
BlogRoutes ==
  [roles : {{"ADMIN", "STAFF"}}, code : {"BLOG_CREATE", "BLOG_EDIT", "BLOG_PUBLISH"}]
    \cup [roles : {{"ADMIN"}}, code : {"BLOG_DELETE"}]
AnalyticsRoutes == [roles : {{"ADMIN", "STAFF"}}, code : {"ANALYTICS_VIEW"}]
Routes == BlogRoutes \cup AnalyticsRoutes

(* canActivate: the role first, then the permission.  The cached list, the  *)
(* empty one too, answers at once and changes nothing; see Allowed.         *)
CanActivate(r, role) ==
  /\ \E route \in Routes : role \in route.roles
  /\ cached[role] = {}
  /\ Start(r, [step |-> "query", role |-> role])
  /\ UNCHANGED <<cacheRows, edits, tainted>>

QueryPermissions(r) ==
  /\ At(r, "query")
  /\ Become(r, [step |-> "store", role |-> call[r].role, raced |-> FALSE,
                list |-> grants[call[r].role]])
  /\ UNCHANGED <<cacheRows, edits, tainted>>

(* The list is stored whatever has happened to the rows or the entry.       *)
StorePermissions(r) ==
  LET role == call[r].role IN
  /\ At(r, "store")
  /\ cached' = [cached EXCEPT ![role] = {call[r].list}]
  /\ tainted' = IF call[r].raced THEN tainted \cup {role} ELSE tainted \ {role}
  /\ Finish(r)
  /\ UNCHANGED <<codes, grants, edits>>

\* Mutant: entries are kept for ever.
EntryExpires_Never(role) == FALSE /\ UNCHANGED cacheVars

(* Five minutes later, or Redis has lost it.                                *)
EntryExpires(role) ==
  /\ cached[role] # {}
  /\ cached' = [cached EXCEPT ![role] = {}]
  /\ tainted' = tainted \ {role}
  /\ UNCHANGED <<codes, grants, edits, call>>

(* The rows of a role change while request r becomes c: lists of that role  *)
(* which were read before and are not stored yet are out of date.           *)
Overtake(r, c, role) ==
  call' = [q \in Requests |->
             IF q = r THEN c
             ELSE IF call[q].step = "store" /\ call[q].role = role
                  THEN [call[q] EXCEPT !.raced = TRUE] ELSE call[q]]

\* Mutant: the entry is left alone.
RemovePermission_KeepsEntry(r, role, code) ==
  /\ code \in grants[role] /\ edits < MaxEdits
  /\ At(r, "idle")
  /\ grants' = [grants EXCEPT ![role] = @ \ {code}]
  /\ Overtake(r, idle, role)
  /\ edits' = edits + 1
  /\ UNCHANGED <<codes, cached, tainted>>

(* removePermission: the row is deleted, or the request throws; then the    *)
(* entry is.                                                                *)
RemovePermission(r, role, code) ==
  /\ code \in grants[role] /\ edits < MaxEdits
  /\ At(r, "idle")
  /\ grants' = [grants EXCEPT ![role] = @ \ {code}]
  /\ Overtake(r, [step |-> "invalidate", roles |-> <<role>>], role)
  /\ edits' = edits + 1
  /\ UNCHANGED <<codes, cached, tainted>>

(* createPermission: a code is unique, and nobody has it yet.               *)
CreatePermission(code) ==
  /\ code \notin codes
  /\ codes' = codes \cup {code}
  /\ UNCHANGED <<grants, cached, edits, tainted, call>>

(* seedDefaultPermissions: missing codes, and all of them for ADMIN ...     *)
SeedDefaults(r) ==
  /\ edits < MaxEdits
  /\ codes' = codes \cup DefaultCodes
  /\ Start(r, [step |-> "grantAdmin", seen |-> codes'])
  /\ edits' = edits + 1
  /\ UNCHANGED <<grants, cached, tainted>>

GrantAdmin(r) ==
  /\ At(r, "grantAdmin")
  /\ grants' = [grants EXCEPT !["ADMIN"] = @ \cup call[r].seen]
  /\ Overtake(r, [step |-> "grantStaff", seen |-> call[r].seen], "ADMIN")
  /\ UNCHANGED <<codes, cached, edits, tainted>>

(* ... and some for STAFF; then the entries of all roles go, in turn.       *)
GrantStaff(r) ==
  /\ At(r, "grantStaff")
  /\ grants' = [grants EXCEPT !["STAFF"] = @ \cup (DefaultsOf["STAFF"] \cap call[r].seen)]
  /\ Overtake(r, [step |-> "invalidate", roles |-> <<"ADMIN", "STAFF", "USER">>], "STAFF")
  /\ UNCHANGED <<codes, cached, edits, tainted>>

ForgetRole(r) ==
  LET role == Head(call[r].roles) IN
  /\ At(r, "invalidate")
  /\ cached' = [cached EXCEPT ![role] = {}]
  /\ tainted' = tainted \ {role}
  /\ IF Len(call[r].roles) = 1 THEN Finish(r)
     ELSE Become(r, [call[r] EXCEPT !.roles = Tail(@)])
  /\ UNCHANGED <<codes, grants, edits>>

ToForget(r) == {call[r].roles[i] : i \in DOMAIN call[r].roles}

(* The database or Redis fails, or the process dies: the rows stay as they  *)
(* are, and so do the entries that were to be deleted.                      *)
CutOff(r) ==
  /\ ~ At(r, "idle")
  /\ tainted' = CASE call[r].step = "invalidate"     -> tainted \cup ToForget(r)
                  [] call[r].step = "grantStaff" -> tainted \cup {"ADMIN"}
                  [] OTHER                       -> tainted
  /\ Finish(r)
  /\ UNCHANGED <<cacheRows, edits>>

CacheNext ==
  \/ \E r \in Requests :
       \/ \E role \in Roles : CanActivate(r, role)
       \/ QueryPermissions(r) \/ StorePermissions(r) \/ ForgetRole(r)
       \/ \E role \in Roles, code \in Codes : RemovePermission(r, role, code)
       \/ SeedDefaults(r) \/ GrantAdmin(r) \/ GrantStaff(r) \/ CutOff(r)
  \/ \E role \in Roles : EntryExpires(role)
  \/ \E code \in CustomCodes : CreatePermission(code)

CacheFairness == \A role \in Roles : WF_cacheVars(EntryExpires(role))
CacheSpec == CacheInit /\ [][CacheNext]_cacheVars /\ CacheFairness
-----------------------------------------------------------------------------
(* What the guard answers: by the entry, or by the rows.                    *)
Allowed(role, code) ==
  code \in IF cached[role] = {} THEN grants[role] ELSE UNION cached[role]

Invalidating(role) ==
  \E r \in Requests : \/ call[r].step = "invalidate" /\ role \in ToForget(r)
                      \/ call[r].step = "grantStaff" /\ role = "ADMIN"

(* The guard answers by the rows, except while an edit has still to delete  *)
(* the entry, or when the entry was read before an edit and stored after    *)
(* it, or when that edit was cut off before it could delete the entry.      *)
StaleEntryExplained ==
  \A role \in Roles, code \in Codes :
    role \notin tainted /\ ~ Invalidating(role)
      => (Allowed(role, code) <=> code \in grants[role])

(* Whatever the race, a removed permission does not work for ever: once the *)
(* edits are over the guard comes to answer by the rows, and stays so.      *)
RevocationTakesHold ==
  <>[](\A role \in Roles, code \in Codes : Allowed(role, code) => code \in grants[role])
=============================================================================
