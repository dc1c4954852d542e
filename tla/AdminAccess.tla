----------------------------- MODULE AdminAccess -----------------------------
(***************************************************************************)
(* Who administers the application: the fixed roles (service/admin*.go)    *)
(* and the granular ones (service/app_permission*.go), over the guard that *)
(* locks every user (sqlstore/user_guard.go).  With granular permissions a *)
(* request judges its actor inside the guarded transaction and is one      *)
(* step; with fixed roles it judges its actor before the transaction, and  *)
(* a bulk request does so again for each of its accounts.                  *)
(***************************************************************************)
EXTENDS Naturals, FiniteSets

CONSTANTS
    User,           \* account ids, never used twice
    Admins,         \* administrators at the start, with fixed roles
    Custom,         \* ids of custom application roles, never used twice
    DefaultRole,    \* the role the configured slug names
    Business,       \* permissions the application defines
    Library,        \* bound: catalog keys that are installed
    KeyOf,          \* operation -> the key it requires (a bundle is granted whole)
    Req,            \* requests in flight
    MaxBulk,        \* maxBulkUserIDs
    MaxRevision,    \* bound: app_authorization_state.revision
    MaxEarly,       \* bound: the same, from an empty start
    MaxAsk          \* bound: requests under fixed roles

BuiltIn == {"admin", "user"}
Key == Business \cup Library
AppRole == BuiltIn \cup Custom
Ops == {"ban", "unban", "delete", "promote", "demote", "create", "createAdmin"}
BulkOps == {"ban", "unban", "delete"}

ASSUME AdminAccessAssumption ==
    /\ Admins # {} /\ Admins \subseteq User /\ IsFiniteSet(User)
    /\ {"setup", "none"} \cap User = {}
    /\ Custom \cap (BuiltIn \cup {"none"}) = {} /\ DefaultRole \in AppRole \ {"admin"}
    /\ Business \cap Library = {} /\ IsFiniteSet(Business)
    /\ KeyOf \in [{"roles.create", "roles.update", "roles.delete", "roles.assign",
                   "permissions.create", "permissions.update", "permissions.delete",
                   "users.create", "users.ban", "users.unban", "users.delete"} -> Library]
    /\ {MaxBulk, MaxEarly} \subseteq Nat \ {0} /\ {MaxAsk, MaxRevision} \subseteq Nat
    /\ MaxEarly < 4 + Cardinality(Business) /\ 4 + Cardinality(Business) <= MaxRevision

VARIABLES
    granular,   \* configuration: AppPermissions is set
    users,      \* accounts that exist
    gone,       \* deleted accounts
    banned,     \* users.is_banned
    role,       \* users.role, or with granular permissions users.app_role_id
    assigned,   \* users.app_role_assignment_revision
    approle,    \* app_roles with their grants
    perm,       \* app_permissions: "none", "on", "off"
    revision,   \* app_authorization_state.revision, 0 before Initialize
    form,       \* an assignment as its author saw it when deciding
    request,    \* fixed roles: a request past its check of the actor
    asked,      \* requests made so far
    by          \* history: who took the last step, and how

appVars == <<approle, perm, revision>>
fixedVars == <<request, asked>>
adminVars == <<granular, users, gone, banned, role, assigned, appVars, form, fixedVars, by>>

NoRole == [st |-> "none", enabled |-> FALSE, rev |-> 0, grants |-> {}]
NewRole(keys) == [st |-> "live", enabled |-> TRUE, rev |-> 1, grants |-> keys]
NoForm == [actor |-> "none"]
NoRequest == [actor |-> "none", op |-> "none", left |-> {}, checked |-> {}]

(* Before Initialize, or with fixed roles.                                 *)
Fresh ==
    /\ granular \in BOOLEAN
    /\ role = [u \in User |-> IF u \in Admins /\ ~granular THEN "admin" ELSE "none"]
    /\ assigned = [u \in User |-> 0]
    /\ approle = [r \in AppRole |-> NoRole] /\ perm = [k \in Key |-> "none"]
    /\ revision = 0

(* After Initialize by one account, the installation of the library, the   *)
(* definitions of the application and a role with the library's keys, the  *)
(* role given to a second account: one change of the state each.           *)
Staffed ==
    \E u, m \in Admins, r \in Custom :
        /\ u # m /\ granular = TRUE
        /\ role = [v \in User |-> IF v = u THEN "admin" ELSE IF v = m THEN r ELSE "none"]
        /\ assigned = [v \in User |-> IF v \in {u, m} THEN 1 ELSE 0]
        /\ approle = [x \in AppRole |-> IF x \in BuiltIn THEN NewRole({})
                                        ELSE IF x = r THEN NewRole(Library) ELSE NoRole]
        /\ perm = [k \in Key |-> "on"]
        /\ revision = 4 + Cardinality(Business)

AdminInit ==
    /\ users = Admins /\ gone = {} /\ banned = {}
    /\ Fresh \/ Staffed
    /\ form = NoForm /\ request = [q \in Req |-> NoRequest] /\ asked = 0
    /\ by = [actor |-> "setup", op |-> "none"]

-----------------------------------------------------------------------------
(* The guard of the last usable administrator.                             *)
usableAdmin(u) == u \in users /\ u \notin banned /\ role[u] = "admin"
(* Slip: the other administrator may be banned. *)
ReductionLeavesAnyAdmin(u) ==
    /\ u \in users
    /\ usableAdmin(u) => \E o \in users \ {u} : role[o] = "admin"
adminReductionAllowed(u) ==
    /\ u \in users
    /\ usableAdmin(u) => \E o \in User \ {u} : usableAdmin(o)

(* Who may do what.                                                        *)
RoleGrantKeys(r) == approle[r].grants
RolePermissionKeys(r) == {k \in approle[r].grants : perm[k] = "on"}
current(u) ==
    /\ granular /\ u \in users /\ u \notin banned
    /\ role[u] \in AppRole /\ approle[role[u]].enabled
IsProtectedAdmin(u) == current(u) /\ role[u] = "admin"
CheckPermission(u, k) ==
    /\ current(u)
    /\ \/ role[u] = "admin" /\ (k \in Library \/ perm[k] = "on")
       \/ role[u] # "admin" /\ k \in RolePermissionKeys(role[u])

(* Slip: the keys that are taken away are not compared. *)
DelegateAnything(a, r, keys) == ~IsProtectedAdmin(a) => current(a) /\ role[a] # r
(* A non-administrator passes on only keys it holds, never edits its role. *)
delegation(a, r, keys) ==
    ~IsProtectedAdmin(a) => current(a) /\ role[a] # r /\ keys \subseteq RolePermissionKeys(role[a])

grantIDs(keys) == \A k \in keys : perm[k] = "on"

Mutable == revision > 0 /\ revision \notin {MaxEarly, MaxRevision}
withConditionalMutation(a, op, changed) ==
    /\ granular /\ Mutable
    /\ CheckPermission(a, KeyOf[op])
    /\ revision' = IF changed THEN revision + 1 ELSE revision
    /\ by' = [actor |-> a, op |-> op]
withMutation(a, op) == withConditionalMutation(a, op, TRUE)

-----------------------------------------------------------------------------
(* Setup.                                                                  *)
Initialize(u) ==
    /\ granular /\ revision = 0
    /\ u \in users /\ u \notin banned /\ role[u] = "none"
    /\ revision' = 1
    /\ approle' = [r \in AppRole |-> IF r \in BuiltIn THEN NewRole({}) ELSE NoRole]
    /\ role' = [role EXCEPT ![u] = "admin"]
    /\ assigned' = [assigned EXCEPT ![u] = @ + 1]
    /\ by' = [actor |-> "setup", op |-> "initialize"]
    /\ UNCHANGED <<granular, users, gone, banned, perm, form, fixedVars>>

(* UpdateLibraryPermissions, at run time or from the command line.         *)
updateLibraryPermissions(a, create, delete) ==
    LET new == {k \in create : perm[k] = "none"}
        old == {k \in delete : perm[k] # "none"}
        hit == {r \in AppRole : RoleGrantKeys(r) \cap old # {}}
    IN /\ granular /\ Mutable /\ IsProtectedAdmin(a)
       /\ create \cap delete = {} /\ new \cup old # {}
       /\ perm' = [k \in Key |-> IF k \in new THEN "on" ELSE IF k \in old THEN "none" ELSE perm[k]]
       /\ approle' = [r \in AppRole |->
             IF r \notin hit THEN approle[r]
             ELSE [approle[r] EXCEPT !.grants = @ \ old, !.rev = @ + 1]]
       /\ revision' = revision + 1 /\ by' = [actor |-> a, op |-> "library"]
       /\ UNCHANGED <<granular, users, gone, banned, role, assigned, form, fixedVars>>

-----------------------------------------------------------------------------
(* Permission definitions.                                                 *)
CreatePermission(a, k) ==
    /\ withMutation(a, "permissions.create")
    /\ perm[k] = "none"
    /\ perm' = [perm EXCEPT ![k] = "on"]
    /\ UNCHANGED <<granular, users, gone, banned, role, assigned, approle, form, fixedVars>>

UpdatePermission(a, k, st) ==
    /\ withMutation(a, "permissions.update")
    /\ perm[k] # "none" /\ delegation(a, "none", {k})
    /\ perm' = [perm EXCEPT ![k] = st]
    /\ UNCHANGED <<granular, users, gone, banned, role, assigned, approle, form, fixedVars>>

DeletePermission(a, k) ==
    /\ withMutation(a, "permissions.delete")
    /\ perm[k] # "none" /\ delegation(a, "none", {k})
    /\ \A r \in AppRole : k \notin RoleGrantKeys(r)
    /\ perm' = [perm EXCEPT ![k] = "none"]
    /\ UNCHANGED <<granular, users, gone, banned, role, assigned, approle, form, fixedVars>>

-----------------------------------------------------------------------------
(* Roles.  The expected revision of an edit is the one it finds.           *)
Editable(r) == r \in Custom /\ approle[r].st = "live"

CreateRole(a, r, keys) ==
    /\ withMutation(a, "roles.create")
    /\ approle[r].st = "none" /\ grantIDs(keys) /\ delegation(a, "none", keys)
    /\ approle' = [approle EXCEPT ![r] = NewRole(keys)]
    /\ UNCHANGED <<granular, users, gone, banned, role, assigned, perm, form, fixedVars>>

UpdateRole(a, r, enabled) ==
    /\ withMutation(a, "roles.update")
    /\ Editable(r) /\ delegation(a, r, RoleGrantKeys(r))
    /\ (enabled \/ r # DefaultRole)
    /\ approle' = [approle EXCEPT ![r].enabled = enabled, ![r].rev = @ + 1]
    /\ UNCHANGED <<granular, users, gone, banned, role, assigned, perm, form, fixedVars>>

(* Slip: BumpRoleRevision forgotten. *)
SetGrantsUnrevised(a, r, keys) ==
    /\ withMutation(a, "roles.update")
    /\ Editable(r) /\ delegation(a, r, RoleGrantKeys(r) \cup keys) /\ grantIDs(keys)
    /\ approle' = [approle EXCEPT ![r].grants = keys]
    /\ UNCHANGED <<granular, users, gone, banned, role, assigned, perm, form, fixedVars>>

SetRolePermissions(a, r, keys) ==
    /\ withMutation(a, "roles.update")
    /\ Editable(r) /\ delegation(a, r, RoleGrantKeys(r) \cup keys) /\ grantIDs(keys)
    /\ approle' = [approle EXCEPT ![r].grants = keys, ![r].rev = @ + 1]
    /\ UNCHANGED <<granular, users, gone, banned, role, assigned, perm, form, fixedVars>>

DeleteRole(a, r) ==
    /\ withMutation(a, "roles.delete")
    /\ Editable(r) /\ delegation(a, r, RoleGrantKeys(r))
    /\ r # DefaultRole /\ \A u \in users : role[u] # r
    /\ approle' = [approle EXCEPT ![r] = [NoRole EXCEPT !.st = "gone"]]
    /\ UNCHANGED <<granular, users, gone, banned, role, assigned, perm, form, fixedVars>>

-----------------------------------------------------------------------------
(* Accounts and their roles.                                               *)
New(u) == u \notin users /\ u \notin gone
baselineRole == revision > 0 /\ approle[DefaultRole].enabled

Insert(u, r) ==
    /\ New(u) /\ users' = users \cup {u}
    /\ role' = [role EXCEPT ![u] = r]
    /\ assigned' = [assigned EXCEPT ![u] = IF granular THEN 1 ELSE 0]

(* A registration: AssignBaseline in the transaction of the insert.        *)
SignUp(u) ==
    /\ granular => baselineRole
    /\ Insert(u, IF granular THEN DefaultRole ELSE "user")
    /\ by' = [actor |-> u, op |-> "signup"]
    /\ UNCHANGED <<granular, gone, banned, appVars, form, fixedVars>>

(* An administrator loads an account and a role before deciding on them.   *)
OpenForm(a, u, r) ==
    /\ current(a) /\ form = NoForm /\ u \notin gone
    /\ approle[r].enabled
    /\ form' = [actor |-> a, user |-> u, role |-> r, rev |-> approle[r].rev,
                arev |-> assigned[u], old |-> role[u], seen |-> RoleGrantKeys(r)]
    /\ by' = [actor |-> a, op |-> "read"]
    /\ UNCHANGED <<granular, users, gone, banned, role, assigned, appVars, fixedVars>>

CloseForm ==
    /\ form # NoForm /\ form' = NoForm
    /\ by' = [actor |-> form.actor, op |-> "read"]
    /\ UNCHANGED <<granular, users, gone, banned, role, assigned, appVars, fixedVars>>

(* The role a form names, if it is still the one the form shows.           *)
Chosen(r) == form # NoForm /\ form.role = r /\ approle[r].enabled /\ approle[r].rev = form.rev

AssignCreatedRole(a, r) ==
    \/ r = DefaultRole /\ form = NoForm /\ baselineRole
    \/ /\ CheckPermission(a, KeyOf["roles.assign"]) /\ Chosen(r) /\ form.actor = a
       /\ r = "admin" => IsProtectedAdmin(a)
       /\ delegation(a, "none", RoleGrantKeys(r))

CreateUser(a, u, r) ==
    /\ withMutation(a, "users.create")
    /\ AssignCreatedRole(a, r) /\ (form # NoForm => form.user = u)
    /\ Insert(u, r) /\ form' = NoForm
    /\ UNCHANGED <<granular, gone, banned, approle, perm, fixedVars>>

SetUserRole(a, u, r) ==
    LET old == role[u]
    IN /\ withConditionalMutation(a, "roles.assign", old # r)
       /\ Chosen(r) /\ form.actor = a /\ form.user = u
       /\ u \in users /\ assigned[u] = form.arev
       /\ IsProtectedAdmin(a) \/ a # u
       /\ "admin" \in {old, r} => IsProtectedAdmin(a)
       /\ delegation(a, "none",
             RoleGrantKeys(r) \cup (IF old = "none" THEN {} ELSE RoleGrantKeys(old)))
       /\ old = "admin" /\ r # "admin" /\ u \notin banned =>
             Cardinality({o \in User : usableAdmin(o)}) > 1
       /\ role' = [role EXCEPT ![u] = r]
       /\ assigned' = [assigned EXCEPT ![u] = IF old = r THEN @ ELSE @ + 1]
       /\ form' = NoForm
       /\ UNCHANGED <<granular, users, gone, banned, approle, perm, fixedVars>>

(* What each operation does to an account, inside its transaction.         *)
BanWithAdminGuard(u) ==
    /\ adminReductionAllowed(u)
    /\ banned' = banned \cup {u} /\ UNCHANGED <<users, gone, role, assigned>>

SetBanStatus(u) ==
    /\ u \in users
    /\ banned' = banned \ {u} /\ UNCHANGED <<users, gone, role, assigned>>

DemoteWithAdminGuard(u, r) ==
    /\ u \in users /\ (r # "admin" => adminReductionAllowed(u))
    /\ role' = [role EXCEPT ![u] = r] /\ UNCHANGED <<users, gone, banned, assigned>>

DeleteWithAdminGuard(u) ==
    /\ adminReductionAllowed(u)
    /\ users' = users \ {u} /\ gone' = gone \cup {u} /\ banned' = banned \ {u}
    /\ role' = [role EXCEPT ![u] = "none"] /\ assigned' = [assigned EXCEPT ![u] = 0]

(* The account's owner deletes it.                                         *)
DeleteAccount(u) ==
    /\ u \notin banned /\ DeleteWithAdminGuard(u)
    /\ by' = [actor |-> u, op |-> "delete"]
    /\ UNCHANGED <<granular, appVars, form, fixedVars>>

BanUser(a, u) ==
    /\ withMutation(a, "users.ban") /\ u \notin banned /\ BanWithAdminGuard(u)
    /\ UNCHANGED <<granular, approle, perm, form, fixedVars>>

UnbanUser(a, u) ==
    /\ withMutation(a, "users.unban") /\ u \in banned /\ SetBanStatus(u)
    /\ UNCHANGED <<granular, approle, perm, form, fixedVars>>

DeleteUser(a, u) ==
    /\ withMutation(a, "users.delete") /\ DeleteWithAdminGuard(u)
    /\ UNCHANGED <<granular, approle, perm, form, fixedVars>>

-----------------------------------------------------------------------------
(* Fixed roles.                                                            *)
requireAdminRole(a) == a \in users /\ a \notin banned /\ role[a] = "admin"

(* One request or a bulk of them; an account that fails is left behind.    *)
Ask(q, a, op, ids) ==
    /\ ~granular /\ asked < MaxAsk /\ request[q] = NoRequest
    /\ requireAdminRole(a) /\ ids # {} /\ Cardinality(ids) <= MaxBulk
    /\ op \notin BulkOps => Cardinality(ids) = 1
    /\ request' = [request EXCEPT ![q] = [actor |-> a, op |-> op, left |-> ids, checked |-> {}]]
    /\ asked' = asked + 1 /\ by' = [actor |-> a, op |-> "read"]
    /\ UNCHANGED <<granular, users, gone, banned, role, assigned, appVars, form>>

(* requireOperation and the target's lookup, before the transaction.       *)
Judge(q, u) ==
    LET r == request[q]
    IN /\ r.checked = {} /\ u \in r.left
       /\ requireAdminRole(r.actor)
       /\ r.op \notin {"create", "createAdmin"} => u \in users
       /\ r.op = "ban" => u \notin banned
       /\ r.op = "unban" => u \in banned
       /\ request' = [request EXCEPT ![q].checked = {u}]
       /\ by' = [actor |-> r.actor, op |-> "read"]
       /\ UNCHANGED <<granular, users, gone, banned, role, assigned, appVars, form, asked>>

Shorter(q, u) ==
    LET left == request[q].left \ {u}
    IN [request EXCEPT ![q] = IF left = {} THEN NoRequest
                              ELSE [@ EXCEPT !.left = left, !.checked = {}]]

Refuse(q, u) ==
    /\ u \in request[q].left
    /\ request' = Shorter(q, u) /\ by' = [actor |-> request[q].actor, op |-> "read"]
    /\ UNCHANGED <<granular, users, gone, banned, role, assigned, appVars, form, asked>>

CommitRequest(q, u) ==
    LET op == request[q].op
    IN /\ u \in request[q].checked
       /\ op = "ban" => BanWithAdminGuard(u)
       /\ op = "unban" => SetBanStatus(u)
       /\ op = "delete" => DeleteWithAdminGuard(u)
       /\ op = "promote" => DemoteWithAdminGuard(u, "admin")
       /\ op = "demote" => DemoteWithAdminGuard(u, "user")
       /\ op = "create" => Insert(u, "user") /\ UNCHANGED <<gone, banned>>
       /\ op = "createAdmin" => Insert(u, "admin") /\ UNCHANGED <<gone, banned>>
       /\ request' = Shorter(q, u) /\ by' = [actor |-> request[q].actor, op |-> op]
       /\ UNCHANGED <<granular, appVars, form, asked>>

-----------------------------------------------------------------------------
(* What a request to the handlers may ask for.                             *)
Definitions(a) ==
    \/ \E create, delete \in SUBSET Library : updateLibraryPermissions(a, create, delete)
    \/ \E k \in Business :
        \/ CreatePermission(a, k) \/ DeletePermission(a, k)
        \/ \E st \in {"on", "off"} : UpdatePermission(a, k, st)
Roles(a) ==
    \E r \in Custom :
        \/ \E keys \in SUBSET Key : CreateRole(a, r, keys) \/ SetRolePermissions(a, r, keys)
        \/ \E enabled \in BOOLEAN : UpdateRole(a, r, enabled)
        \/ DeleteRole(a, r)
Accounts(a) ==
    \E u \in User :
        \/ \E r \in AppRole : OpenForm(a, u, r) \/ SetUserRole(a, u, r) \/ CreateUser(a, u, r)
        \/ BanUser(a, u) \/ UnbanUser(a, u) \/ DeleteUser(a, u)
Fixed(q) ==
    \/ \E a \in User, op \in Ops, ids \in SUBSET User : Ask(q, a, op, ids)
    \/ \E u \in User : Judge(q, u) \/ Refuse(q, u) \/ CommitRequest(q, u)

AdminNext ==
    \/ \E u \in User : Initialize(u) \/ SignUp(u) \/ DeleteAccount(u)
    \/ \E a \in User : Definitions(a) \/ Roles(a) \/ Accounts(a)
    \/ CloseForm
    \/ \E q \in Req : Fixed(q)

AdminSpec == AdminInit /\ [][AdminNext]_adminVars

-----------------------------------------------------------------------------
TypeOK ==
    /\ granular \in BOOLEAN /\ users \subseteq User /\ gone \subseteq User
    /\ users \cap gone = {} /\ banned \subseteq users
    /\ role \in [User -> AppRole \cup {"none"}] /\ assigned \in [User -> Nat]
    /\ approle \in [AppRole -> [st : {"none", "live", "gone"}, enabled : BOOLEAN,
                                rev : Nat, grants : SUBSET Key]]
    /\ perm \in [Key -> {"none", "on", "off"}] /\ revision \in 0..MaxRevision
    /\ \A r \in AppRole : \A k \in RoleGrantKeys(r) : perm[k] # "none"
    /\ \A u \in User : granular /\ role[u] # "none" => approle[role[u]].st = "live"

(* However the bans, demotions, deletions and assignments of several       *)
(* administrators interleave, one of them stays who can administer: each   *)
(* reduction counts the others under the lock of every account.            *)
UsableAdminRemains == (granular => revision > 0) => \E u \in User : usableAdmin(u)

(* The keys an account holds or will hold again when it is unbanned.       *)
Holds(u) ==
    IF u \notin users \/ role[u] = "none" \/ ~granular THEN {}
    ELSE IF role[u] = "admin" THEN Library \cup {k \in Business : perm[k] = "on"}
    ELSE IF approle[role[u]].enabled THEN RolePermissionKeys(role[u]) ELSE {}

(* Whoever is not an administrator gives nobody a key it does not hold,    *)
(* gives itself nothing, and takes an administrator's role from nobody,    *)
(* whichever of roles, grants, definitions and assignments it edits.  A    *)
(* new account may get what the default role grants.                       *)
NoEscalation ==
    [][\A u \in User :
        by'.actor \in User /\ ~IsProtectedAdmin(by'.actor) /\ granular =>
            /\ role[u] # "admin" => Holds(u)' \ Holds(u) \subseteq
                  (IF u \notin users THEN Holds(by'.actor) \cup RolePermissionKeys(DefaultRole)
                   ELSE IF u = by'.actor THEN {} ELSE Holds(by'.actor))
            /\ role[u] = "admin" /\ u \in users' => role'[u] = "admin"]_adminVars

(* An assignment gives an account the role as its author saw it, and over  *)
(* the assignment its author saw: an edit of the role, the removal of a    *)
(* permission and a competing assignment in between refuse it.             *)
AssignedAsSeen ==
    [][by'.op \in {"roles.assign", "users.create"} /\ form # NoForm =>
        LET u == form.user IN
            /\ RoleGrantKeys(role'[u]) = form.seen
            /\ u \in users => role[u] = form.old]_adminVars
=============================================================================
