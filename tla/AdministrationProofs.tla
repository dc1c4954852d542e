------------------------ MODULE AdministrationProofs ------------------------
(***************************************************************************)
(* Theorems about application administration and its audit trail.          *)
(* Administration (AdminAccess), for any users, roles and permissions,     *)
(* from AdminInv: the tables are typed, what is granted is installed, what *)
(* counts as a role is live, a form shows its role as it is or its         *)
(* revision is behind, and an administrator who is not banned is left.     *)
(* The audit outbox (AuditOutbox), for any events, workers, sinks and      *)
(* durations, from AuditInv: what an operation staged, what a batch has    *)
(* been acknowledged, what evidence a dead letter leaves and how old a     *)
(* record was when it was deleted.                                         *)
(***************************************************************************)
EXTENDS AdminAccess, AuditOutbox, FiniteSetTheorems, TLAPS

RoleIds == AppRole \cup {"none"}
RoleRow == [st : {"none", "live", "gone"}, enabled : BOOLEAN, rev : Nat, grants : SUBSET Key]
Bulk == [actor : User \cup {"none"}, op : Ops \cup {"none"}, left : SUBSET User, checked : SUBSET User]
Form == [actor : User, user : User, role : AppRole, rev : Nat \ {0}, arev : Nat,
         old : RoleIds, seen : SUBSET Key]

AccountsTyped ==
    /\ granular \in BOOLEAN /\ users \subseteq User /\ gone \subseteq User
    /\ users \cap gone = {} /\ banned \subseteq users
    /\ role \in [User -> RoleIds] /\ assigned \in [User -> Nat]
    /\ \A u \in User \ users : role[u] = "none" /\ assigned[u] = 0

RolesTyped ==
    /\ approle \in [AppRole -> RoleRow] /\ perm \in [Key -> {"none", "on", "off"}]
    /\ revision \in 0..MaxRevision

(* What is granted is installed, and what counts as a role is live. *)
RolesGranted ==
    \A r \in AppRole : /\ \A k \in approle[r].grants : perm[k] # "none"
                       /\ approle[r].st # "live" => ~approle[r].enabled /\ approle[r].grants = {}
                       /\ approle[r].st = "live" => approle[r].rev > 0

RolesLive == \A u \in User : granular /\ role[u] # "none" => approle[role[u]].st = "live"

(* Only one of the two modes is at work, and nothing before Initialize. *)
Modes ==
    /\ ~granular => revision = 0
    /\ revision = 0 => form = NoForm /\ \A r \in AppRole : approle[r] = NoRole
    /\ revision = 0 /\ granular => \A u \in User : role[u] = "none"

Requests ==
    /\ request \in [Req -> Bulk]
    /\ \A q \in Req : /\ request[q].left # {} => ~granular
                      /\ request[q].checked \subseteq request[q].left
                      /\ request[q].left # {} => request[q].op \in Ops

(* A form shows its role as it is, unless the role has been revised since,  *)
(* and its account with the role it has, unless that was assigned again.    *)
FormTrue ==
    form # NoForm =>
        /\ form \in Form
        /\ approle[form.role].st \in {"live", "gone"}
        /\ approle[form.role].st = "live" =>
             /\ form.rev <= approle[form.role].rev
             /\ form.rev = approle[form.role].rev => form.seen = approle[form.role].grants
        /\ form.user \in users =>
             /\ form.arev <= assigned[form.user]
             /\ form.arev = assigned[form.user] => form.old = role[form.user]
        /\ form.user \notin users \cup gone => form.arev = 0

AdminInv ==
    /\ AccountsTyped /\ RolesTyped /\ RolesGranted /\ RolesLive /\ Modes /\ Requests
    /\ FormTrue /\ UsableAdminRemains

USE AdminAccessAssumption DEF AppRole, BuiltIn
-----------------------------------------------------------------------------
LEMMA AdminFacts ==
    /\ "none" \notin AppRole /\ AppRole \subseteq RoleIds /\ "none" \in RoleIds
    /\ {"admin", "user", DefaultRole} \subseteq AppRole
    /\ MaxRevision \in Nat /\ MaxRevision >= 4 + Cardinality(Business)
    /\ Cardinality(Business) \in Nat
<1>1. Cardinality(Business) \in Nat
  BY FS_CardinalityType
<1>. QED
  BY <1>1 DEF RoleIds

(* Who is usable is finite, so of more than one there is another. *)
LEMMA Another ==
    ASSUME NEW u \in User, Cardinality({o \in User : usableAdmin(o)}) > 1
    PROVE  \E o \in User \ {u} : usableAdmin(o)
<1> DEFINE S == {o \in User : usableAdmin(o)}
<1>. SUFFICES ASSUME \A o \in User \ {u} : ~usableAdmin(o) PROVE FALSE
  OBVIOUS
<1>1. S = {} \/ S = {u}
  OBVIOUS
<1>2. Cardinality(S) \in {0, 1}
  BY <1>1, FS_EmptySet, FS_Singleton
<1>. QED
  BY <1>2

-----------------------------------------------------------------------------
(* A role edited: its state stays, its revision counts the edit. *)
Granting(row, G) == [row EXCEPT !.grants = G, !.rev = @ + 1]
Enabling(row, e) == [row EXCEPT !.enabled = e, !.rev = @ + 1]

LEMMA GrantsEdited ==
    ASSUME NEW row \in RoleRow, NEW G \in SUBSET Key
    PROVE  /\ Granting(row, G) \in RoleRow /\ Granting(row, G).st = row.st
           /\ Granting(row, G).enabled = row.enabled /\ Granting(row, G).grants = G
           /\ Granting(row, G).rev > row.rev /\ Granting(row, G).rev > 0
<1> DEFINE new == Granting(row, G)
<1>1. PICK n \in Nat : n = row.rev + 1 /\ row.rev \in Nat /\ n > row.rev
  BY DEF RoleRow
<1>2. new = [row EXCEPT !.grants = G, !.rev = n]
  BY <1>1 DEF Granting
<1> HIDE DEF new
<1>3. new \in RoleRow
  BY <1>2 DEF RoleRow
<1>4. new.st = row.st /\ new.enabled = row.enabled /\ new.grants = G /\ new.rev = n
  BY <1>2 DEF RoleRow
<1>5. QED
  BY <1>1, <1>3, <1>4 DEF new

LEMMA EnabledEdited ==
    ASSUME NEW row \in RoleRow, NEW e \in BOOLEAN
    PROVE  /\ Enabling(row, e) \in RoleRow /\ Enabling(row, e).st = row.st
           /\ Enabling(row, e).enabled = e /\ Enabling(row, e).grants = row.grants
           /\ Enabling(row, e).rev > row.rev /\ Enabling(row, e).rev > 0
<1> DEFINE new == Enabling(row, e)
<1>1. PICK n \in Nat : n = row.rev + 1 /\ row.rev \in Nat /\ n > row.rev
  BY DEF RoleRow
<1>2. new = [row EXCEPT !.enabled = e, !.rev = n]
  BY <1>1 DEF Enabling
<1> HIDE DEF new
<1>3. new \in RoleRow
  BY <1>2 DEF RoleRow
<1>4. new.st = row.st /\ new.enabled = e /\ new.grants = row.grants /\ new.rev = n
  BY <1>2 DEF RoleRow
<1>5. QED
  BY <1>1, <1>3, <1>4 DEF new

LEMMA RolesMade ==
    /\ \A keys \in SUBSET Key :
         /\ NewRole(keys) \in RoleRow
         /\ NewRole(keys).st = "live" /\ NewRole(keys).enabled = TRUE
         /\ NewRole(keys).grants = keys /\ NewRole(keys).rev = 1
    /\ NoRole \in RoleRow
    /\ NoRole.st = "none" /\ NoRole.enabled = FALSE /\ NoRole.grants = {}
    /\ [NoRole EXCEPT !.st = "gone"] \in RoleRow
    /\ [NoRole EXCEPT !.st = "gone"].st = "gone"
    /\ [NoRole EXCEPT !.st = "gone"].enabled = FALSE
    /\ [NoRole EXCEPT !.st = "gone"].grants = {}
<1>1. ASSUME NEW keys \in SUBSET Key
      PROVE  /\ NewRole(keys) \in RoleRow
             /\ NewRole(keys).st = "live" /\ NewRole(keys).enabled = TRUE
             /\ NewRole(keys).grants = keys /\ NewRole(keys).rev = 1
  <2>1. NewRole(keys) \in RoleRow
    BY DEF NewRole, RoleRow
  <2>. QED
    BY <2>1 DEF NewRole
<1>2. NoRole \in RoleRow /\ [NoRole EXCEPT !.st = "gone"] \in RoleRow
  BY DEF NoRole, RoleRow
<1>. QED
  BY <1>1, <1>2 DEF NoRole

-----------------------------------------------------------------------------
(* What becomes of a role in an edit of the roles. *)
Revised(r) ==
    \/ approle'[r] = approle[r]
    \/ approle[r].st = "none" /\ approle'[r].st = "live"
    \/ /\ approle[r].st = "live" /\ approle'[r].st = "live"
       /\ approle'[r].rev > approle[r].rev
    \/ approle[r].st = "live" /\ approle'[r].st = "gone" /\ \A u \in users : role[u] # r

LEMMA RolesChange ==
    ASSUME AdminInv, granular, Mutable, revision' \in {revision, revision + 1},
           approle' \in [AppRole -> RoleRow], perm' \in [Key -> {"none", "on", "off"}],
           RolesGranted', \A r \in AppRole : Revised(r),
           UNCHANGED <<granular, users, gone, banned, role, assigned, form, fixedVars>>
    PROVE  AdminInv'
<1>. USE DEF AdminInv
<1>1. AccountsTyped' /\ Requests'
  BY DEF AccountsTyped, Requests, fixedVars
<1>2. revision' \in 0..MaxRevision /\ revision' > 0
  BY AdminFacts DEF RolesTyped, Mutable
<1>3. RolesTyped' /\ Modes'
  BY <1>2 DEF RolesTyped, Modes
<1>4. RolesLive'
  <2>. SUFFICES ASSUME NEW u \in User, role[u] # "none" PROVE approle'[role[u]].st = "live"
    BY DEF RolesLive
  <2>1. role[u] \in AppRole /\ approle[role[u]].st = "live" /\ u \in users
    BY DEF RolesLive, AccountsTyped, RoleIds
  <2>. QED
    BY <2>1 DEF Revised
<1>5. FormTrue'
  <2>. SUFFICES ASSUME form # NoForm PROVE FormTrue'
    BY DEF FormTrue
  <2>1. form \in Form /\ form.role \in AppRole /\ form.rev \in Nat
    BY DEF FormTrue, Form
  <2>2. /\ approle[form.role] \in RoleRow /\ approle'[form.role] \in RoleRow
    BY <2>1 DEF RolesTyped
  <2>3. /\ approle'[form.role].st \in {"live", "gone"}
        /\ approle'[form.role].st = "live" =>
             /\ form.rev <= approle'[form.role].rev
             /\ form.rev = approle'[form.role].rev => form.seen = approle'[form.role].grants
    <3>1. Revised(form.role)
      BY <2>1
    <3>. QED
      BY <2>1, <2>2, <3>1 DEF FormTrue, Revised, RoleRow
  <2>. QED
    BY <2>1, <2>3 DEF FormTrue
<1>6. UsableAdminRemains'
  BY DEF UsableAdminRemains, usableAdmin, Mutable
<1>. QED
  BY <1>1, <1>3, <1>4, <1>5, <1>6

-----------------------------------------------------------------------------
(* The roles and their grants are edited. *)

LEMMA LibraryStep ==
    ASSUME AdminInv, NEW a \in User, NEW create \in SUBSET Library, NEW delete \in SUBSET Library,
           updateLibraryPermissions(a, create, delete)
    PROVE  AdminInv'
<1>. DEFINE old == {k \in delete : perm[k] # "none"}
            hit == {r \in AppRole : RoleGrantKeys(r) \cap old # {}}
<1>1. /\ granular /\ Mutable /\ revision' = revision + 1
      /\ \A k \in Key : /\ perm'[k] \in {"none", "on", "off"}
                        /\ perm[k] # "none" /\ k \notin old => perm'[k] # "none"
      /\ perm' \in [Key -> {"none", "on", "off"}]
      /\ approle' = [r \in AppRole |->
             IF r \notin hit THEN approle[r]
             ELSE [approle[r] EXCEPT !.grants = @ \ old, !.rev = @ + 1]]
      /\ UNCHANGED <<granular, users, gone, banned, role, assigned, form, fixedVars>>
  BY DEF updateLibraryPermissions, AdminInv, RolesTyped, Key
<1>. HIDE DEF old
<1>2. ASSUME NEW r \in AppRole
      PROVE  /\ approle'[r] \in RoleRow /\ Revised(r)
             /\ \A k \in approle'[r].grants : k \in approle[r].grants /\ k \notin old
             /\ approle'[r].st # "live" => ~approle'[r].enabled /\ approle'[r].grants = {}
             /\ approle'[r].st = "live" => approle'[r].rev > 0
  <2>1. approle[r] \in RoleRow
    BY DEF AdminInv, RolesTyped
  <2>2. CASE r \notin hit
    <3>1. approle'[r] = approle[r]
      BY <1>1, <2>2
    <3>2. \A k \in approle[r].grants : k \notin old
      BY <2>2 DEF RoleGrantKeys
    <3>. QED
      BY <2>1, <3>1, <3>2 DEF Revised, AdminInv, RolesGranted
  <2>3. CASE r \in hit
    <3>1. approle[r].st = "live"
      BY <2>3 DEF AdminInv, RolesGranted, RoleGrantKeys
    <3>2. approle'[r] = [approle[r] EXCEPT !.grants = @ \ old, !.rev = @ + 1]
      BY <1>1, <2>3
    <3>3. approle[r].grants \ old \in SUBSET Key
      BY <2>1 DEF RoleRow
    <3>4. approle'[r] = Granting(approle[r], approle[r].grants \ old)
      BY <3>2 DEF Granting
    <3>5. /\ approle'[r] \in RoleRow /\ approle'[r].st = "live"
          /\ approle'[r].grants = approle[r].grants \ old
          /\ approle'[r].rev > approle[r].rev /\ approle'[r].rev > 0
      BY <2>1, <3>1, <3>3, <3>4, GrantsEdited
    <3>. QED
      BY <3>1, <3>5 DEF Revised
  <2>. QED
    BY <2>2, <2>3
<1>3. approle' \in [AppRole -> RoleRow]
  BY <1>1, <1>2
<1>4. RolesGranted'
  <2>1. \A r \in AppRole : \A k \in approle[r].grants : k \in Key /\ perm[k] # "none"
    BY DEF AdminInv, RolesGranted, RolesTyped, RoleRow
  <2>. QED
    BY <1>1, <1>2, <2>1 DEF RolesGranted
<1>. QED
  BY <1>1, <1>2, <1>3, <1>4, RolesChange

LEMMA DefinitionsStep ==
    ASSUME AdminInv, NEW a \in User, Definitions(a)
    PROVE  AdminInv'
<1>1. CASE \E create, delete \in SUBSET Library : updateLibraryPermissions(a, create, delete)
  BY <1>1, LibraryStep
<1>2. ASSUME NEW k \in Business,
             CreatePermission(a, k) \/ DeletePermission(a, k)
             \/ \E st \in {"on", "off"} : UpdatePermission(a, k, st)
      PROVE  AdminInv'
  <2>1. /\ granular /\ Mutable /\ revision' \in {revision, revision + 1} /\ UNCHANGED approle
        /\ UNCHANGED <<granular, users, gone, banned, role, assigned, form, fixedVars>>
    BY <1>2 DEF CreatePermission, DeletePermission, UpdatePermission, withMutation,
                withConditionalMutation
  <2>2. PICK st \in {"none", "on", "off"} :
          /\ perm' = [perm EXCEPT ![k] = st]
          /\ st = "none" => \A r \in AppRole : k \notin RoleGrantKeys(r)
    BY <1>2 DEF CreatePermission, DeletePermission, UpdatePermission
  <2>3. k \in Key /\ perm' \in [Key -> {"none", "on", "off"}]
    BY <2>2 DEF Key, AdminInv, RolesTyped
  <2>4. RolesGranted'
    BY <2>1, <2>2, <2>3 DEF AdminInv, RolesGranted, RolesTyped, RoleGrantKeys, RoleRow
  <2>5. approle' \in [AppRole -> RoleRow] /\ \A r \in AppRole : Revised(r)
    BY <2>1 DEF AdminInv, RolesTyped, Revised
  <2>. QED
    BY <2>1, <2>3, <2>4, <2>5, RolesChange
<1>. QED
  BY <1>1, <1>2 DEF Definitions

LEMMA RolesStep ==
    ASSUME AdminInv, NEW a \in User, Roles(a)
    PROVE  AdminInv'
<1>1. PICK r \in Custom :
         \/ \E keys \in SUBSET Key : CreateRole(a, r, keys) \/ SetRolePermissions(a, r, keys)
         \/ \E enabled \in BOOLEAN : UpdateRole(a, r, enabled)
         \/ DeleteRole(a, r)
  BY DEF Roles
<1>2. /\ granular /\ Mutable /\ revision' \in {revision, revision + 1} /\ UNCHANGED perm
      /\ UNCHANGED <<granular, users, gone, banned, role, assigned, form, fixedVars>>
  BY <1>1 DEF CreateRole, SetRolePermissions, UpdateRole, DeleteRole, withMutation,
              withConditionalMutation
<1>3. /\ r \in AppRole /\ approle[r] \in RoleRow /\ approle[r].rev \in Nat
      /\ approle \in [AppRole -> RoleRow]
      /\ approle[r].grants \in SUBSET Key /\ approle[r].enabled \in BOOLEAN
  BY DEF AdminInv, RolesTyped, RoleRow
<1>. DEFINE Fits(row) ==
        /\ approle' = [approle EXCEPT ![r] = row]
        /\ \A k \in row.grants : perm[k] # "none"
        /\ row.st # "live" => ~row.enabled /\ row.grants = {}
        /\ row.st = "live" => row.rev > 0
        /\ \/ approle[r].st = "none" /\ row.st = "live"
           \/ approle[r].st = "live" /\ row.st = "live" /\ row.rev > approle[r].rev
           \/ approle[r].st = "live" /\ row.st = "gone" /\ \A u \in users : role[u] # r
<1>4. PICK row \in RoleRow : Fits(row)
  <2>1. ASSUME NEW keys \in SUBSET Key, CreateRole(a, r, keys)
        PROVE  \E row \in RoleRow : Fits(row)
    <3>1. /\ approle' = [approle EXCEPT ![r] = NewRole(keys)] /\ approle[r].st = "none"
          /\ \A k \in keys : perm[k] # "none"
      BY <2>1 DEF CreateRole, grantIDs
    <3>2. Fits(NewRole(keys)) /\ NewRole(keys) \in RoleRow
      BY <3>1, RolesMade
    <3>. QED
      BY <3>2
  <2>2. ASSUME NEW keys \in SUBSET Key, SetRolePermissions(a, r, keys)
        PROVE  \E row \in RoleRow : Fits(row)
    <3>. DEFINE new == Granting(approle[r], keys)
    <3>1. /\ approle' = [approle EXCEPT ![r] = new]
          /\ approle[r].st = "live" /\ \A k \in keys : perm[k] # "none"
      BY <1>3, <2>2 DEF SetRolePermissions, grantIDs, Editable, Granting
    <3>2. /\ new \in RoleRow /\ new.grants = keys /\ new.st = "live" /\ new.rev > approle[r].rev
          /\ new.rev > 0
      BY <1>3, <3>1, GrantsEdited
    <3>. HIDE DEF new
    <3>3. Fits(new)
      BY <3>1, <3>2
    <3>. QED
      BY <3>2, <3>3
  <2>3. ASSUME NEW enabled \in BOOLEAN, UpdateRole(a, r, enabled)
        PROVE  \E row \in RoleRow : Fits(row)
    <3>. DEFINE new == Enabling(approle[r], enabled)
    <3>1. /\ approle' = [approle EXCEPT ![r] = new] /\ approle[r].st = "live"
      BY <1>3, <2>3 DEF UpdateRole, Editable, Enabling
    <3>2. \A k \in approle[r].grants : perm[k] # "none"
      BY <1>3 DEF AdminInv, RolesGranted
    <3>3. /\ new \in RoleRow /\ new.grants = approle[r].grants /\ new.st = "live"
          /\ new.rev > approle[r].rev /\ new.rev > 0
      BY <1>3, <3>1, EnabledEdited
    <3>. HIDE DEF new
    <3>4. Fits(new)
      BY <3>1, <3>2, <3>3
    <3>. QED
      BY <3>3, <3>4
  <2>4. ASSUME DeleteRole(a, r) PROVE \E row \in RoleRow : Fits(row)
    <3>. DEFINE new == [NoRole EXCEPT !.st = "gone"]
    <3>1. /\ approle' = [approle EXCEPT ![r] = new] /\ approle[r].st = "live"
          /\ \A u \in users : role[u] # r
      BY <2>4 DEF DeleteRole, Editable
    <3>2. new \in RoleRow /\ new.st = "gone" /\ ~new.enabled /\ new.grants = {}
      BY RolesMade
    <3>. HIDE DEF new
    <3>3. Fits(new)
      BY <3>1, <3>2
    <3>. QED
      BY <3>2, <3>3
  <2>. HIDE DEF Fits
  <2>. QED
    BY <1>1, <2>1, <2>2, <2>3, <2>4
<1>5. \A x \in AppRole : approle'[x] = IF x = r THEN row ELSE approle[x]
  BY <1>3, <1>4
<1>6. approle' \in [AppRole -> RoleRow] /\ \A x \in AppRole : Revised(x)
  BY <1>3, <1>4, <1>5 DEF Revised
<1>7. RolesGranted'
  BY <1>2, <1>4, <1>5 DEF RolesGranted, AdminInv
<1>8. perm' \in [Key -> {"none", "on", "off"}]
  BY <1>2 DEF AdminInv, RolesTyped
<1>. QED
  BY <1>2, <1>6, <1>7, <1>8, RolesChange

-----------------------------------------------------------------------------
(* One account changes. *)

OthersKept(u) ==
    \A v \in User \ {u} :
        /\ role'[v] = role[v] /\ assigned'[v] = assigned[v]
        /\ (v \in users') = (v \in users) /\ (v \in gone') = (v \in gone)
        /\ (v \in banned') = (v \in banned)

StaysSeen(u) ==
    /\ u \in users' =>
         \/ u \in users /\ assigned'[u] > assigned[u]
         \/ u \in users /\ assigned'[u] = assigned[u] /\ role'[u] = role[u]
         \/ u \notin users \cup gone /\ assigned'[u] > 0
    /\ u \notin users' \cup gone' => u \notin users \cup gone

OneAccount(u) ==
    /\ users' \subseteq User /\ gone' \subseteq User /\ banned' \subseteq User
    /\ role' \in [User -> RoleIds] /\ assigned' \in [User -> Nat]
    /\ OthersKept(u)
    /\ u \in users' => u \notin gone'
    /\ u \in banned' => u \in users'
    /\ u \notin users' => role'[u] = "none" /\ assigned'[u] = 0
    /\ granular /\ role'[u] # "none" => revision > 0 /\ approle[role'[u]].st = "live"
    /\ usableAdmin(u) => \/ u \in users' /\ u \notin banned' /\ role'[u] = "admin"
                         \/ \E o \in User \ {u} : usableAdmin(o)
    /\ form' = NoForm \/ (form' = form /\ StaysSeen(u))

LEMMA AccountChange ==
    ASSUME AdminInv, NEW u \in User, OneAccount(u), Requests',
           UNCHANGED <<granular, approle, perm>>,
           revision' = revision \/ (Mutable /\ granular /\ revision' = revision + 1)
    PROVE  AdminInv'
<1>. USE DEF AdminInv
<1>1. AccountsTyped'
  BY DEF AccountsTyped, OneAccount, OthersKept
<1>2. /\ revision' \in 0..MaxRevision /\ (revision' = 0) = (revision = 0)
      /\ revision \in 0..MaxRevision
  BY AdminFacts DEF RolesTyped, Mutable
<1>3. RolesTyped' /\ RolesGranted'
  BY <1>2 DEF RolesTyped, RolesGranted
<1>4. RolesLive'
  BY DEF RolesLive, OneAccount, OthersKept
<1>5. Modes'
  <2>1. revision = 0 => form' = NoForm
    BY DEF Modes, OneAccount
  <2>2. revision = 0 /\ granular => \A v \in User : role'[v] = "none"
    BY DEF Modes, OneAccount, OthersKept
  <2>. QED
    BY <1>2, <2>1, <2>2 DEF Modes
<1>6. FormTrue'
  <2>. SUFFICES ASSUME form' # NoForm, form' = form, StaysSeen(u) PROVE FormTrue'
    BY DEF FormTrue, OneAccount
  <2>1. /\ form \in Form /\ form.user \in User /\ form.arev \in Nat /\ assigned \in [User -> Nat]
        /\ assigned' \in [User -> Nat]
    BY DEF FormTrue, Form, AccountsTyped, OneAccount
  <2>2. CASE form.user = u
    BY <2>1, <2>2 DEF FormTrue, StaysSeen
  <2>3. CASE form.user # u
    BY <2>1, <2>3 DEF FormTrue, OneAccount, OthersKept
  <2>. QED
    BY <2>2, <2>3
<1>7. UsableAdminRemains'
  <2>. SUFFICES ASSUME \E o \in User : usableAdmin(o) PROVE \E o \in User : usableAdmin(o)'
    BY <1>2 DEF UsableAdminRemains
  <2>1. \A o \in User \ {u} : usableAdmin(o) => usableAdmin(o)'
    BY DEF usableAdmin, OneAccount, OthersKept
  <2>2. usableAdmin(u) => usableAdmin(u)' \/ \E o \in User \ {u} : usableAdmin(o)
    BY DEF usableAdmin, OneAccount
  <2>. QED
    BY <2>1, <2>2
<1>. QED
  BY <1>1, <1>3, <1>4, <1>5, <1>6, <1>7

LEMMA Reduced ==
    ASSUME NEW u \in User, adminReductionAllowed(u)
    PROVE  u \in users /\ (usableAdmin(u) => \E o \in User \ {u} : usableAdmin(o))
BY DEF adminReductionAllowed

LEMMA RequestsKept == ASSUME AdminInv, UNCHANGED <<granular, request>> PROVE Requests'
BY DEF AdminInv, Requests

(* An account is created. *)
LEMMA Inserted ==
    ASSUME AdminInv, NEW u \in User, NEW r \in AppRole, Insert(u, r), UNCHANGED <<gone, banned>>,
           form' \in {form, NoForm},
           granular => revision > 0 /\ approle[r].st = "live",
           ~granular => form' = NoForm
    PROVE  OneAccount(u)
<1>1. AccountsTyped
  BY DEF AdminInv
<1>2. /\ users' = users \cup {u} /\ u \notin users /\ u \notin gone
      /\ role' \in [User -> RoleIds] /\ assigned' \in [User -> Nat]
      /\ role'[u] = r /\ assigned'[u] = IF granular THEN 1 ELSE 0
      /\ \A v \in User \ {u} : role'[v] = role[v] /\ assigned'[v] = assigned[v]
  BY <1>1, AdminFacts DEF Insert, New, AccountsTyped
<1>3. OthersKept(u)
  BY <1>2 DEF OthersKept
<1>4. granular => StaysSeen(u)
  BY <1>2 DEF StaysSeen
<1>5. ~usableAdmin(u)
  BY <1>2 DEF usableAdmin
<1>6. users' \subseteq User /\ gone' \subseteq User /\ banned' \subseteq User
  BY <1>1, <1>2 DEF AccountsTyped
<1>7. u \in users' /\ u \notin gone'
  BY <1>2
<1>8. granular /\ role'[u] # "none" => revision > 0 /\ approle[role'[u]].st = "live"
  BY <1>2
<1>. QED
  BY <1>2, <1>3, <1>4, <1>5, <1>6, <1>7, <1>8 DEF OneAccount

(* A ban, its end, a new role, a deletion. *)
LEMMA Banned ==
    ASSUME AdminInv, NEW u \in User, BanWithAdminGuard(u) \/ SetBanStatus(u), form' = form
    PROVE  OneAccount(u)
<1>1. AccountsTyped
  BY DEF AdminInv
<1>2. /\ banned' \subseteq User /\ UNCHANGED <<users, gone, role, assigned>> /\ u \in users
      /\ \A v \in User \ {u} : (v \in banned') = (v \in banned)
      /\ usableAdmin(u) => u \notin banned' \/ \E o \in User \ {u} : usableAdmin(o)
  BY <1>1, Reduced DEF BanWithAdminGuard, SetBanStatus, AccountsTyped
<1>3. OthersKept(u) /\ StaysSeen(u)
  BY <1>2 DEF OthersKept, StaysSeen
<1>4. granular /\ role[u] # "none" => revision > 0 /\ approle[role[u]].st = "live"
  BY DEF AdminInv, RolesLive, Modes, RolesTyped
<1>. QED
  BY <1>1, <1>2, <1>3, <1>4 DEF OneAccount, AccountsTyped, usableAdmin

LEMMA Deleted ==
    ASSUME AdminInv, NEW u \in User, DeleteWithAdminGuard(u), form' = form
    PROVE  OneAccount(u)
<1>1. AccountsTyped
  BY DEF AdminInv
<1>2. /\ users' = users \ {u} /\ gone' = gone \cup {u} /\ banned' = banned \ {u}
      /\ role' \in [User -> RoleIds] /\ assigned' \in [User -> Nat]
      /\ role'[u] = "none" /\ assigned'[u] = 0
      /\ \A v \in User \ {u} : role'[v] = role[v] /\ assigned'[v] = assigned[v]
      /\ usableAdmin(u) => \E o \in User \ {u} : usableAdmin(o)
  BY <1>1, Reduced, AdminFacts DEF DeleteWithAdminGuard, AccountsTyped
<1>3. OthersKept(u) /\ StaysSeen(u)
  BY <1>2 DEF OthersKept, StaysSeen
<1>. QED
  BY <1>1, <1>2, <1>3 DEF OneAccount, AccountsTyped

LEMMA Demoted ==
    ASSUME AdminInv, ~granular, NEW u \in User, NEW r \in {"admin", "user"},
           DemoteWithAdminGuard(u, r), form' = form
    PROVE  OneAccount(u)
<1>1. AccountsTyped /\ form = NoForm
  BY DEF AdminInv, Modes
<1>2. /\ UNCHANGED <<users, gone, banned, assigned>> /\ u \in users
      /\ role' \in [User -> RoleIds] /\ role'[u] = r
      /\ \A v \in User \ {u} : role'[v] = role[v]
      /\ r # "admin" /\ usableAdmin(u) => \E o \in User \ {u} : usableAdmin(o)
  BY <1>1, Reduced, AdminFacts DEF DemoteWithAdminGuard, AccountsTyped
<1>3. OthersKept(u)
  BY <1>2 DEF OthersKept
<1>4. users' \subseteq User /\ gone' \subseteq User /\ banned' \subseteq User /\ assigned' \in [User -> Nat]
  BY <1>1, <1>2 DEF AccountsTyped
<1>5. u \in users' /\ u \notin gone'
  BY <1>1, <1>2 DEF AccountsTyped
<1>6. usableAdmin(u) => \/ u \in users' /\ u \notin banned' /\ role'[u] = "admin"
                        \/ \E o \in User \ {u} : usableAdmin(o)
  BY <1>2 DEF usableAdmin
<1>. QED
  BY <1>1, <1>2, <1>3, <1>4, <1>5, <1>6 DEF OneAccount

-----------------------------------------------------------------------------
(* The first administrator of granular permissions. *)
LEMMA InitializeStep == ASSUME AdminInv, NEW u \in User, Initialize(u) PROVE AdminInv'
<1>. USE DEF AdminInv
<1>1. /\ granular /\ granular' = granular /\ revision = 0 /\ revision' = 1 /\ u \in users /\ u \notin banned
      /\ approle' = [r \in AppRole |-> IF r \in BuiltIn THEN NewRole({}) ELSE NoRole]
      /\ role' = [role EXCEPT ![u] = "admin"] /\ assigned' = [assigned EXCEPT ![u] = @ + 1]
      /\ UNCHANGED <<users, gone, banned, perm, form, request>>
  BY DEF Initialize, fixedVars
<1>2. AccountsTyped' /\ role'[u] = "admin" /\ \A v \in User \ {u} : role'[v] = "none"
  BY <1>1, AdminFacts DEF AccountsTyped, Modes
<1>3. approle' \in [AppRole -> RoleRow] /\ approle'["admin"] = NewRole({})
  BY <1>1, RolesMade
<1>4. RolesTyped'
  BY <1>1, <1>3, AdminFacts DEF RolesTyped
<1>5. RolesGranted'
  <2>1. \A r \in AppRole : approle'[r] \in {NewRole({}), NoRole}
    BY <1>1
  <2>. QED
    BY <2>1, RolesMade DEF RolesGranted
<1>6. RolesLive'
  BY <1>2, <1>3, RolesMade DEF RolesLive
<1>7. Modes' /\ FormTrue'
  BY <1>1 DEF Modes, FormTrue
<1>8. Requests' /\ UsableAdminRemains'
  BY <1>1, <1>2, RequestsKept DEF UsableAdminRemains, usableAdmin
<1>. QED
  BY <1>2, <1>4, <1>5, <1>6, <1>7, <1>8

LEMMA SignUpStep == ASSUME AdminInv, NEW u \in User, SignUp(u) PROVE AdminInv'
<1>. DEFINE r == IF granular THEN DefaultRole ELSE "user"
<1>1. /\ Insert(u, r) /\ r \in AppRole /\ UNCHANGED <<gone, banned, form>>
      /\ UNCHANGED <<granular, approle, perm, revision, request>>
      /\ granular => revision > 0 /\ approle[DefaultRole].enabled
  BY AdminFacts DEF SignUp, baselineRole, appVars, fixedVars
<1>2. granular => approle[r].st = "live"
  BY <1>1 DEF AdminInv, RolesGranted
<1>3. ~granular => form' = NoForm
  BY <1>1 DEF AdminInv, Modes
<1>. HIDE DEF r
<1>4. OneAccount(u)
  BY <1>1, <1>2, <1>3, Inserted
<1>. QED
  BY <1>1, <1>4, AccountChange, RequestsKept

LEMMA FormStep ==
    ASSUME AdminInv,
           \/ \E a, u \in User, r \in AppRole : OpenForm(a, u, r)
           \/ CloseForm
    PROVE  AdminInv'
<1>. USE DEF AdminInv
<1>1. UNCHANGED <<granular, users, gone, banned, role, assigned, appVars, fixedVars>>
  BY DEF OpenForm, CloseForm
<1>2. /\ AccountsTyped' /\ RolesTyped' /\ RolesGranted' /\ RolesLive' /\ Requests'
      /\ UsableAdminRemains'
  BY <1>1 DEF appVars, fixedVars, AccountsTyped, RolesTyped, RolesGranted, RolesLive, Requests,
              UsableAdminRemains, usableAdmin
<1>3. CASE CloseForm
  BY <1>1, <1>2, <1>3 DEF CloseForm, Modes, FormTrue, appVars
<1>4. ASSUME NEW a \in User, NEW u \in User, NEW r \in AppRole, OpenForm(a, u, r) PROVE AdminInv'
  <2>1. /\ granular /\ current(a) /\ u \notin gone /\ approle[r].enabled
        /\ form' = [actor |-> a, user |-> u, role |-> r, rev |-> approle[r].rev,
                    arev |-> assigned[u], old |-> role[u], seen |-> RoleGrantKeys(r)]
    BY <1>4 DEF OpenForm, current
  <2>2. /\ approle[r].st = "live" /\ approle[r].rev \in Nat \ {0} /\ RoleGrantKeys(r) \in SUBSET Key
        /\ role[u] \in RoleIds /\ assigned[u] \in Nat
    BY <2>1 DEF RolesTyped, RoleRow, RolesGranted, RoleGrantKeys, AccountsTyped
  <2>3. revision # 0
    <3>1. role[a] \in AppRole /\ approle[role[a]].enabled
      BY <2>1 DEF current
    <3>. QED
      BY <3>1, RolesMade DEF Modes
  <2>4. /\ form' \in Form /\ form'.user = u /\ form'.role = r /\ form'.rev = approle[r].rev
        /\ form'.arev = assigned[u] /\ form'.old = role[u] /\ form'.seen = approle[r].grants
    BY <2>1, <2>2 DEF Form, RoleGrantKeys
  <2>5. FormTrue'
    <3>1. /\ form'.role \in AppRole /\ approle'[form'.role] = approle[r]
          /\ form'.rev \in Nat /\ form'.arev \in Nat
      BY <1>1, <2>2, <2>4 DEF appVars
    <3>2. form'.user \notin users' \cup gone' => form'.arev = 0
      BY <1>1, <2>4 DEF AccountsTyped
    <3>3. form'.user \in users' => form'.arev = assigned'[form'.user] /\ form'.old = role'[form'.user]
      BY <1>1, <2>4
    <3>. QED
      BY <2>2, <2>4, <3>1, <3>2, <3>3 DEF FormTrue
  <2>6. Modes'
    BY <1>1, <2>1, <2>3 DEF Modes, appVars
  <2>. QED
    BY <1>2, <2>5, <2>6
<1>. QED
  BY <1>3, <1>4

(* The form fits what it is used for. *)
LEMMA FormFits ==
    ASSUME AdminInv, form # NoForm
    PROVE  form \in Form /\ form.actor \in User /\ form.user \in User /\ form.role \in AppRole
           /\ revision > 0
BY DEF AdminInv, FormTrue, Form, Modes, RolesTyped

LEMMA CreateUserStep ==
    ASSUME AdminInv, NEW a \in User, NEW u \in User, NEW r \in AppRole, CreateUser(a, u, r)
    PROVE  AdminInv'
<1>1. /\ granular /\ Mutable /\ revision' = revision + 1 /\ AssignCreatedRole(a, r)
      /\ Insert(u, r) /\ form' = NoForm
      /\ UNCHANGED <<granular, gone, banned, approle, perm, request>>
  BY DEF CreateUser, withMutation, withConditionalMutation, fixedVars
<1>2. revision > 0 /\ approle[r].enabled
  BY <1>1 DEF AssignCreatedRole, Mutable, baselineRole, Chosen
<1>3. approle[r].st = "live"
  BY <1>2 DEF AdminInv, RolesGranted
<1>4. OneAccount(u)
  BY <1>1, <1>2, <1>3, Inserted
<1>. QED
  BY <1>1, <1>4, AccountChange, RequestsKept

LEMMA SetUserRoleStep ==
    ASSUME AdminInv, NEW a \in User, NEW u \in User, NEW r \in AppRole, SetUserRole(a, u, r)
    PROVE  AdminInv'
<1>1. /\ granular /\ Mutable /\ revision' \in {revision, revision + 1} /\ Chosen(r) /\ u \in users
      /\ role' = [role EXCEPT ![u] = r]
      /\ assigned' = [assigned EXCEPT ![u] = IF role[u] = r THEN @ ELSE @ + 1]
      /\ form' = NoForm
      /\ role[u] = "admin" /\ r # "admin" /\ u \notin banned =>
           Cardinality({o \in User : usableAdmin(o)}) > 1
      /\ UNCHANGED <<granular, users, gone, banned, approle, perm, request>>
  BY DEF SetUserRole, withConditionalMutation, fixedVars
<1>2. AccountsTyped
  BY DEF AdminInv
<1>3. approle[r].st = "live" /\ revision > 0
  BY <1>1 DEF Chosen, AdminInv, RolesGranted, Mutable
<1>4. /\ role' \in [User -> RoleIds] /\ assigned' \in [User -> Nat] /\ role'[u] = r
      /\ \A v \in User \ {u} : role'[v] = role[v] /\ assigned'[v] = assigned[v]
  BY <1>1, <1>2, AdminFacts DEF AccountsTyped
<1>5. OthersKept(u)
  BY <1>1, <1>4 DEF OthersKept
<1>6. usableAdmin(u) => \/ u \in users' /\ u \notin banned' /\ role'[u] = "admin"
                        \/ \E o \in User \ {u} : usableAdmin(o)
  <2>. SUFFICES ASSUME usableAdmin(u), r # "admin" PROVE \E o \in User \ {u} : usableAdmin(o)
    BY <1>1, <1>4 DEF usableAdmin
  <2>1. Cardinality({o \in User : usableAdmin(o)}) > 1
    BY <1>1 DEF usableAdmin
  <2>. QED
    BY <2>1, Another
<1>7. OneAccount(u)
  BY <1>1, <1>2, <1>3, <1>4, <1>5, <1>6 DEF OneAccount, AccountsTyped
<1>. QED
  BY <1>1, <1>7, AccountChange, RequestsKept

LEMMA AccountStep ==
    ASSUME AdminInv, NEW a \in User, NEW u \in User,
           BanUser(a, u) \/ UnbanUser(a, u) \/ DeleteUser(a, u) \/ DeleteAccount(u)
    PROVE  AdminInv'
<1>1. /\ UNCHANGED <<granular, approle, perm, request, form>>
      /\ revision' = revision \/ (Mutable /\ granular /\ revision' = revision + 1)
      /\ BanWithAdminGuard(u) \/ SetBanStatus(u) \/ DeleteWithAdminGuard(u)
  BY DEF BanUser, UnbanUser, DeleteUser, DeleteAccount, withMutation, withConditionalMutation,
         appVars, fixedVars
<1>2. OneAccount(u)
  BY <1>1, Banned, Deleted
<1>. QED
  BY <1>1, <1>2, AccountChange, RequestsKept

-----------------------------------------------------------------------------
(* Fixed roles. *)
LEMMA FixedStep ==
    ASSUME AdminInv, NEW q \in Req, Fixed(q)
    PROVE  AdminInv'
<1>. USE DEF AdminInv
<1>0. request[q] \in Bulk /\ request \in [Req -> Bulk]
  BY DEF Requests
<1>1. ASSUME NEW b \in Bulk, request' = [request EXCEPT ![q] = b], granular' = granular,
             b.left # {} => ~granular /\ b.op \in Ops, b.checked \subseteq b.left
      PROVE  Requests'
  BY <1>0, <1>1 DEF Requests
<1>2. ASSUME NEW u \in User, request' = Shorter(q, u), ~granular, granular' = granular, request[q].left # {}
      PROVE  Requests'
  <2>. DEFINE left == request[q].left \ {u}
              b == [request[q] EXCEPT !.left = left, !.checked = {}]
  <2>1. /\ b \in Bulk /\ b.left = left /\ b.checked = {} /\ b.op = request[q].op
        /\ NoRequest \in Bulk /\ NoRequest.left = {} /\ NoRequest.checked = {}
    BY <1>0 DEF Bulk, NoRequest
  <2>2. \/ request' = [request EXCEPT ![q] = b]
        \/ request' = [request EXCEPT ![q] = NoRequest]
    BY <1>2 DEF Shorter
  <2>3. b.op \in Ops
    BY <1>2, <2>1 DEF Requests
  <2>. HIDE DEF b
  <2>. QED
    BY <1>1, <1>2, <2>1, <2>2, <2>3
<1>3. ASSUME Requests', UNCHANGED <<granular, users, gone, banned, role, assigned, appVars, form>>
      PROVE  AdminInv'
  BY <1>3 DEF appVars, AccountsTyped, RolesTyped, RolesGranted, RolesLive, Modes, FormTrue,
              UsableAdminRemains, usableAdmin
<1>4. ASSUME NEW a \in User, NEW o \in Ops, NEW ids \in SUBSET User, Ask(q, a, o, ids)
      PROVE  AdminInv'
  <2>. DEFINE b == [actor |-> a, op |-> o, left |-> ids, checked |-> {}]
  <2>1. b \in Bulk /\ b.left = ids /\ b.checked = {} /\ b.op = o
    BY DEF Bulk
  <2>2. request' = [request EXCEPT ![q] = b] /\ ~granular
        /\ UNCHANGED <<granular, users, gone, banned, role, assigned, appVars, form>>
    BY <1>4 DEF Ask
  <2>. HIDE DEF b
  <2>. QED
    BY <1>1, <1>3, <2>1, <2>2
<1>5. ASSUME NEW u \in User, Judge(q, u) PROVE AdminInv'
  <2>. DEFINE b == [request[q] EXCEPT !.checked = {u}]
  <2>1. /\ b \in Bulk /\ b.left = request[q].left /\ b.checked = {u} /\ b.op = request[q].op
    BY <1>0 DEF Bulk
  <2>2. /\ request' = [request EXCEPT ![q] = b] /\ u \in request[q].left
        /\ UNCHANGED <<granular, users, gone, banned, role, assigned, appVars, form>>
    BY <1>0, <1>5 DEF Judge
  <2>3. ~granular /\ b.op \in Ops
    BY <2>1, <2>2 DEF Requests
  <2>. HIDE DEF b
  <2>. QED
    BY <1>1, <1>3, <2>1, <2>2, <2>3
<1>6. ASSUME NEW u \in User, Refuse(q, u) PROVE AdminInv'
  <2>1. /\ request' = Shorter(q, u) /\ u \in request[q].left
        /\ UNCHANGED <<granular, users, gone, banned, role, assigned, appVars, form>>
    BY <1>6 DEF Refuse
  <2>. QED
    BY <1>2, <1>3, <2>1 DEF Requests
<1>7. ASSUME NEW u \in User, CommitRequest(q, u) PROVE AdminInv'
  <2>1. /\ request' = Shorter(q, u) /\ u \in request[q].checked
        /\ UNCHANGED <<granular, approle, perm, revision, form>>
    BY <1>7 DEF CommitRequest, appVars
  <2>2. ~granular /\ request[q].left # {} /\ request[q].op \in Ops /\ form' = NoForm
    BY <2>1 DEF Requests, Modes
  <2>3. Requests'
    BY <1>2, <2>1, <2>2
  <2>4. OneAccount(u)
    <3>1. CASE request[q].op \in {"ban", "unban"}
      BY <1>7, <2>1, <3>1, Banned DEF CommitRequest
    <3>2. CASE request[q].op = "delete"
      BY <1>7, <2>1, <3>2, Deleted DEF CommitRequest
    <3>3. CASE request[q].op = "promote"
      BY <1>7, <2>1, <2>2, <3>3, Demoted DEF CommitRequest
    <3>4. CASE request[q].op = "demote"
      BY <1>7, <2>1, <2>2, <3>4, Demoted DEF CommitRequest
    <3>5. CASE request[q].op \in {"create", "createAdmin"}
      <4>1. PICK r \in AppRole : Insert(u, r) /\ UNCHANGED <<gone, banned>>
        BY <1>7, <3>5, AdminFacts DEF CommitRequest
      <4>. QED
        BY <2>1, <2>2, <4>1, Inserted
    <3>. QED
      BY <2>2, <3>1, <3>2, <3>3, <3>4, <3>5 DEF Ops
  <2>. QED
    BY <2>1, <2>3, <2>4, AccountChange
<1>. QED
  BY <1>4, <1>5, <1>6, <1>7 DEF Fixed

-----------------------------------------------------------------------------
LEMMA AdminStarts == AdminInit => AdminInv
<1>. SUFFICES ASSUME AdminInit PROVE AdminInv
  OBVIOUS
<1>1. /\ users = Admins /\ gone = {} /\ banned = {} /\ form = NoForm
      /\ request = [q \in Req |-> NoRequest]
  BY DEF AdminInit
<1>2. Requests /\ FormTrue
  BY <1>1 DEF Requests, FormTrue, Bulk, NoRequest
<1>3. CASE Fresh
  <2>1. /\ AccountsTyped /\ approle = [r \in AppRole |-> NoRole] /\ perm = [k \in Key |-> "none"]
        /\ revision = 0
    BY <1>1, <1>3, AdminFacts DEF Fresh, AccountsTyped
  <2>2. RolesTyped /\ RolesGranted
    BY <2>1, RolesMade, AdminFacts DEF RolesTyped, RolesGranted
  <2>3. RolesLive /\ Modes /\ UsableAdminRemains
    BY <1>1, <1>3, <2>1 DEF Fresh, RolesLive, Modes, UsableAdminRemains, usableAdmin
  <2>. QED
    BY <1>2, <2>1, <2>2, <2>3 DEF AdminInv
<1>4. CASE Staffed
  <2>1. PICK u \in Admins, m \in Admins, r \in Custom :
          /\ u # m /\ granular = TRUE
          /\ role = [v \in User |-> IF v = u THEN "admin" ELSE IF v = m THEN r ELSE "none"]
          /\ assigned = [v \in User |-> IF v \in {u, m} THEN 1 ELSE 0]
          /\ approle = [x \in AppRole |-> IF x \in BuiltIn THEN NewRole({})
                                          ELSE IF x = r THEN NewRole(Library) ELSE NoRole]
          /\ perm = [k \in Key |-> "on"]
          /\ revision = 4 + Cardinality(Business)
    BY <1>4 DEF Staffed
  <2>2. revision \in 0..MaxRevision /\ revision > 0
    BY <2>1, AdminFacts
  <2>3. AccountsTyped
    BY <1>1, <2>1, AdminFacts DEF AccountsTyped
  <2>4. Library \in SUBSET Key
    BY DEF Key
  <2>5. /\ approle \in [AppRole -> RoleRow] /\ \A x \in AppRole : approle[x] \in {NewRole({}), NewRole(Library), NoRole}
        /\ approle["admin"].st = "live" /\ approle[r].st = "live"
    BY <2>1, <2>4, RolesMade
  <2>6. RolesTyped /\ RolesGranted
    BY <2>1, <2>2, <2>4, <2>5, RolesMade DEF RolesTyped, RolesGranted
  <2>7. RolesLive
    BY <2>1, <2>5 DEF RolesLive
  <2>8. Modes /\ UsableAdminRemains
    BY <1>1, <2>1, <2>2 DEF Modes, UsableAdminRemains, usableAdmin
  <2>. QED
    BY <1>2, <2>3, <2>6, <2>7, <2>8 DEF AdminInv
<1>. QED
  BY <1>3, <1>4 DEF AdminInit

LEMMA AdminStep == AdminInv /\ [AdminNext]_adminVars => AdminInv'
<1>. SUFFICES ASSUME AdminInv, [AdminNext]_adminVars PROVE AdminInv'
  OBVIOUS
<1>1. CASE UNCHANGED adminVars
  BY <1>1 DEF adminVars, appVars, fixedVars, AdminInv, AccountsTyped, RolesTyped, RolesGranted,
              RolesLive, Modes, Requests, FormTrue, UsableAdminRemains, usableAdmin
<1>2. ASSUME NEW a \in User, Accounts(a) PROVE AdminInv'
  BY <1>2, FormStep, SetUserRoleStep, CreateUserStep, AccountStep DEF Accounts
<1>. QED
  BY <1>1, <1>2, InitializeStep, SignUpStep, AccountStep, DefinitionsStep, RolesStep, FormStep, FixedStep
  DEF AdminNext

(* The tables, the request bodies and the form of AdminService stay well   *)
(* formed: an account's role is a live one, a role's keys are installed.   *)
THEOREM AdminTypeCorrect == AdminSpec => []TypeOK
<1>1. AdminInv => TypeOK
  BY DEF AdminInv, AccountsTyped, RolesTyped, RolesGranted, RolesLive, TypeOK, RoleIds, RoleRow, RoleGrantKeys
<1>. QED
  BY <1>1, AdminStarts, AdminStep, PTL DEF AdminSpec

(* However the bans, demotions, deletions and assignments of several       *)
(* administrators interleave, somebody who is not banned can administer:   *)
(* BanWithAdminGuard, the deletions and SetUserRole count the others first.*)
THEOREM SomebodyAdministers == AdminSpec => []UsableAdminRemains
<1>1. AdminInv => UsableAdminRemains
  BY DEF AdminInv
<1>. QED
  BY <1>1, AdminStarts, AdminStep, PTL DEF AdminSpec

-----------------------------------------------------------------------------
(* What is assigned is what was seen. *)

Assigning == by'.op \in {"roles.assign", "users.create"}

(* Who defined a permission, and how. *)
LEMMA DefinedBy ==
    ASSUME NEW a \in User, Definitions(a)
    PROVE  by'.actor = a /\ by'.op \in {"library", "permissions.create", "permissions.update",
                                      "permissions.delete"}
<1>1. CASE \E create, delete \in SUBSET Library : updateLibraryPermissions(a, create, delete)
  <2>1. by' = [actor |-> a, op |-> "library"]
    BY <1>1 DEF updateLibraryPermissions
  <2>. QED
    BY <2>1
<1>2. ASSUME NEW k \in Business, CreatePermission(a, k) \/ DeletePermission(a, k)
                                 \/ \E st \in {"on", "off"} : UpdatePermission(a, k, st)
      PROVE  by'.actor = a /\ by'.op \in {"permissions.create", "permissions.update", "permissions.delete"}
  <2>1. \E o \in {"permissions.create", "permissions.update", "permissions.delete"} : withMutation(a, o)
    BY <1>2 DEF CreatePermission, DeletePermission, UpdatePermission
  <2>. QED
    BY <2>1 DEF withMutation, withConditionalMutation
<1>. QED
  BY <1>1, <1>2 DEF Definitions

LEMMA RolesBy ==
    ASSUME NEW a \in User, Roles(a)
    PROVE  by'.actor = a /\ by'.op \in {"roles.create", "roles.update", "roles.delete"}
<1>1. PICK r \in Custom :
         \/ \E keys \in SUBSET Key : CreateRole(a, r, keys) \/ SetRolePermissions(a, r, keys)
         \/ \E enabled \in BOOLEAN : UpdateRole(a, r, enabled)
         \/ DeleteRole(a, r)
  BY DEF Roles
<1>2. \E o \in {"roles.create", "roles.update", "roles.delete"} : withMutation(a, o)
  BY <1>1 DEF CreateRole, SetRolePermissions, UpdateRole, DeleteRole
<1>. QED
  BY <1>2 DEF withMutation, withConditionalMutation

LEMMA AssignmentsOnly ==
    ASSUME AdminInv, AdminNext, Assigning
    PROVE  \E a, u \in User, r \in AppRole : SetUserRole(a, u, r) \/ CreateUser(a, u, r)
<1>1. ASSUME NEW u \in User, Initialize(u) \/ SignUp(u) \/ DeleteAccount(u) PROVE FALSE
  <2>1. by'.op \in {"initialize", "signup", "delete"}
    <3>1. CASE Initialize(u)
      BY <3>1 DEF Initialize
    <3>2. CASE SignUp(u)
      BY <3>2 DEF SignUp
    <3>3. CASE DeleteAccount(u)
      BY <3>3 DEF DeleteAccount
    <3>. QED
      BY <1>1, <3>1, <3>2, <3>3
  <2>. QED
    BY <2>1 DEF Assigning
<1>2. ASSUME NEW a \in User, Definitions(a) PROVE FALSE
  BY <1>2, DefinedBy DEF Assigning
<1>3. ASSUME NEW a \in User, Roles(a) PROVE FALSE
  BY <1>3, RolesBy DEF Assigning
<1>4. ASSUME CloseForm PROVE FALSE
  BY <1>4 DEF CloseForm, Assigning
<1>5. ASSUME NEW q \in Req, Fixed(q) PROVE FALSE
  <2>1. ASSUME NEW u \in User, CommitRequest(q, u) PROVE FALSE
    <3>1. u \in request[q].checked /\ by'.op = request[q].op
      BY <2>1 DEF CommitRequest
    <3>2. request[q].op \in Ops
      BY <3>1 DEF AdminInv, Requests
    <3>. QED
      BY <3>1, <3>2 DEF Ops, Assigning
  <2>. QED
    BY <1>5, <2>1 DEF Fixed, Ask, Judge, Refuse, Assigning
<1>6. ASSUME NEW a \in User, Accounts(a)
      PROVE  \E u \in User, r \in AppRole : SetUserRole(a, u, r) \/ CreateUser(a, u, r)
  BY <1>6 DEF Accounts, OpenForm, BanUser, UnbanUser, DeleteUser, withMutation,
              withConditionalMutation, Assigning
<1>. QED
  BY <1>1, <1>2, <1>3, <1>4, <1>5, <1>6 DEF AdminNext

LEMMA ChosenAsSeen ==
    ASSUME AdminInv, form # NoForm, NEW r \in AppRole, Chosen(r)
    PROVE  RoleGrantKeys(r) = form.seen /\ approle[r].st = "live"
BY DEF Chosen, AdminInv, FormTrue, RolesGranted, RoleGrantKeys

(* An assignment gives an account the role its author saw, in place of the *)
(* one its author saw (SetUserRole and CreateUser compare the revisions of *)
(* the role and of the assignment with the author's), for any accounts,    *)
(* roles and requests.                                                     *)
THEOREM AssignmentsAsSeen == AdminSpec => AssignedAsSeen
<1>. DEFINE Seen == Assigning /\ form # NoForm =>
                      LET u == form.user IN
                        /\ RoleGrantKeys(role'[u]) = form.seen
                        /\ u \in users => role[u] = form.old
<1>1. AdminInv /\ [AdminNext]_adminVars => [Seen]_adminVars
  <2>. SUFFICES ASSUME AdminInv, AdminNext, Assigning, form # NoForm
                PROVE  /\ RoleGrantKeys(role'[form.user]) = form.seen
                       /\ form.user \in users => role[form.user] = form.old
    OBVIOUS
  <2>1. PICK a \in User, u \in User, r \in AppRole : SetUserRole(a, u, r) \/ CreateUser(a, u, r)
    BY AssignmentsOnly
  <2>2. /\ Chosen(r) /\ form.user = u /\ role' = [role EXCEPT ![u] = r]
        /\ u \in users => assigned[u] = form.arev
    BY <2>1 DEF SetUserRole, CreateUser, AssignCreatedRole, Insert, New
  <2>3. role'[u] = r
    BY <2>2 DEF AdminInv, AccountsTyped
  <2>4. u \in users => role[u] = form.old
    BY <2>2 DEF AdminInv, FormTrue
  <2>. QED
    BY <2>2, <2>3, <2>4, ChosenAsSeen
<1>. QED
  BY <1>1, AdminStarts, AdminStep, PTL DEF AdminSpec, AssignedAsSeen, Assigning

-----------------------------------------------------------------------------
(* Nobody rises by the hand of somebody lower. *)

Below(a, u) ==
    /\ role[u] # "admin" =>
          Holds(u)' \ Holds(u) \subseteq
             (IF u \notin users THEN Holds(a) \cup RolePermissionKeys(DefaultRole)
              ELSE IF u = a THEN {} ELSE Holds(a))
    /\ role[u] = "admin" /\ u \in users' => role'[u] = "admin"

LEMMA Delegates ==
    ASSUME AdminInv, NEW a \in User, ~IsProtectedAdmin(a), NEW r, NEW keys, delegation(a, r, keys)
    PROVE  /\ keys \subseteq Holds(a) /\ role[a] # r /\ a \in users
           /\ \A k \in keys : perm[k] = "on"
<1>1. /\ current(a) /\ role[a] # r /\ keys \subseteq RolePermissionKeys(role[a])
      /\ role[a] # "admin"
  BY DEF delegation, IsProtectedAdmin
<1>2. Holds(a) = RolePermissionKeys(role[a])
  BY <1>1, AdminFacts DEF current, Holds
<1>. QED
  BY <1>1, <1>2 DEF current, RolePermissionKeys

LEMMA AccessKept ==
    ASSUME NEW a \in User, NEW u \in User, UNCHANGED <<granular, users, role, approle, perm>>
    PROVE  Below(a, u)
BY DEF Below, Holds, RolePermissionKeys

LEMMA DefinitionsBelow ==
    ASSUME AdminInv, NEW a \in User, ~IsProtectedAdmin(a), Definitions(a), NEW u \in User
    PROVE  Below(a, u)
<1>1. PICK k \in Business :
        CreatePermission(a, k) \/ DeletePermission(a, k)
        \/ \E st \in {"on", "off"} : UpdatePermission(a, k, st)
  BY DEF Definitions, updateLibraryPermissions
<1>2. UNCHANGED <<granular, users, role, approle>>
  BY <1>1 DEF CreatePermission, DeletePermission, UpdatePermission
<1>3. perm \in [Key -> {"none", "on", "off"}] /\ k \in Key
  BY DEF AdminInv, RolesTyped, Key
<1>4. \A x \in Key : perm'[x] = "on" => perm[x] = "on" \/ (x = k /\ perm[k] = "none")
  <2>1. ASSUME CreatePermission(a, k) PROVE <1>4
    BY <1>3, <2>1 DEF CreatePermission
  <2>2. ASSUME DeletePermission(a, k) PROVE <1>4
    BY <1>3, <2>2 DEF DeletePermission
  <2>3. ASSUME NEW st \in {"on", "off"}, UpdatePermission(a, k, st) PROVE <1>4
    <3>1. perm[k] = "on"
      BY <2>3, Delegates DEF UpdatePermission
    <3>. QED
      BY <1>3, <2>3, <3>1 DEF UpdatePermission
  <2>. QED
    BY <1>1, <2>1, <2>2, <2>3
<1>5. \A r \in AppRole : RolePermissionKeys(r)' \subseteq RolePermissionKeys(r)
  BY <1>2, <1>4 DEF RolePermissionKeys, AdminInv, RolesGranted, RolesTyped, RoleRow
<1>6. role[u] \in RoleIds
  BY DEF AdminInv, AccountsTyped
<1>7. role[u] # "admin" => Holds(u)' \subseteq Holds(u)
  BY <1>2, <1>5, <1>6 DEF Holds, RoleIds
<1>. QED
  BY <1>2, <1>7 DEF Below

LEMMA RolesBelow ==
    ASSUME AdminInv, NEW a \in User, ~IsProtectedAdmin(a), Roles(a), NEW u \in User
    PROVE  Below(a, u)
<1>1. PICK r \in Custom :
         \/ \E keys \in SUBSET Key : CreateRole(a, r, keys) \/ SetRolePermissions(a, r, keys)
         \/ \E enabled \in BOOLEAN : UpdateRole(a, r, enabled)
         \/ DeleteRole(a, r)
  BY DEF Roles
<1>2. UNCHANGED <<granular, users, role, perm>> /\ granular
  BY <1>1 DEF CreateRole, SetRolePermissions, UpdateRole, DeleteRole, withMutation, withConditionalMutation
<1>3. /\ approle \in [AppRole -> RoleRow] /\ approle[r] \in RoleRow /\ r \in AppRole
      /\ role[u] \in RoleIds
  BY DEF AdminInv, RolesTyped, AccountsTyped
<1>4. \A x \in AppRole \ {r} : approle'[x] = approle[x]
  BY <1>1, <1>3 DEF CreateRole, SetRolePermissions, UpdateRole, DeleteRole
<1>5. CASE role[u] # r \/ u \notin users
  <2>1. Holds(u)' = Holds(u)
    BY <1>2, <1>3, <1>4, <1>5 DEF Holds, RolePermissionKeys, RoleIds
  <2>. QED
    BY <1>2, <2>1 DEF Below
<1>6. CASE role[u] = r /\ u \in users
  <2>1. approle[r].st = "live"
    BY <1>2, <1>6, AdminFacts DEF AdminInv, RolesLive
  <2>2. role[a] # r /\ approle'[r].grants \subseteq Holds(a)
    <3>1. ASSUME NEW keys \in SUBSET Key, CreateRole(a, r, keys) PROVE FALSE
      BY <2>1, <3>1 DEF CreateRole
    <3>2. ASSUME NEW keys \in SUBSET Key, SetRolePermissions(a, r, keys) PROVE <2>2
      <4>1. approle'[r] = Granting(approle[r], keys) /\ delegation(a, r, RoleGrantKeys(r) \cup keys)
        BY <1>3, <3>2 DEF SetRolePermissions, Granting
      <4>. QED
        BY <1>3, <4>1, Delegates, GrantsEdited
    <3>3. ASSUME NEW enabled \in BOOLEAN, UpdateRole(a, r, enabled) PROVE <2>2
      <4>1. approle'[r] = Enabling(approle[r], enabled) /\ delegation(a, r, approle[r].grants)
        BY <1>3, <3>3 DEF UpdateRole, Enabling, RoleGrantKeys
      <4>. QED
        BY <1>3, <4>1, Delegates, EnabledEdited
    <3>4. ASSUME DeleteRole(a, r) PROVE FALSE
      BY <1>6, <3>4 DEF DeleteRole
    <3>. QED
      BY <1>1, <3>1, <3>2, <3>3, <3>4
  <2>3. r # "admin"
    OBVIOUS
  <2>4. Holds(u)' \subseteq Holds(a)
    BY <1>2, <1>6, <2>2, <2>3 DEF Holds, RolePermissionKeys
  <2>. QED
    BY <1>2, <1>6, <2>2, <2>3, <2>4 DEF Below
<1>. QED
  BY <1>5, <1>6

(* Somebody else's account is untouched. *)
LEMMA OthersBelow ==
    ASSUME AdminInv, NEW a \in User, NEW u \in User, NEW v \in User \ {u}, OthersKept(u),
           UNCHANGED <<granular, approle, perm>>
    PROVE  Below(a, v)
<1>1. role'[v] = role[v] /\ (v \in users' <=> v \in users)
  BY DEF OthersKept
<1>2. Holds(v)' = Holds(v)
  BY <1>1 DEF Holds, RolePermissionKeys
<1>. QED
  BY <1>1, <1>2 DEF Below

LEMMA BornBelow ==
    ASSUME AdminInv, NEW a \in User, NEW u \in User, NEW r \in AppRole \ {"admin"}, Insert(u, r),
           UNCHANGED <<granular, approle, perm, gone, banned>>, NEW v \in User,
           r = DefaultRole \/ approle[r].grants \subseteq Holds(a)
    PROVE  Below(a, v)
<1>1. /\ u \notin users /\ role[u] = "none" /\ role'[u] = r
      /\ \A x \in User \ {u} : role'[x] = role[x] /\ assigned'[x] = assigned[x]
      /\ users' = users \cup {u}
  BY DEF Insert, New, AdminInv, AccountsTyped
<1>2. CASE v # u
  <2>1. OthersKept(u)
    BY <1>1 DEF OthersKept
  <2>. QED
    BY <1>2, <2>1, OthersBelow
<1>3. CASE v = u
  <2>1. Holds(u)' \subseteq RolePermissionKeys(r)
    BY <1>1 DEF Holds, RolePermissionKeys
  <2>2. RolePermissionKeys(r) \subseteq Holds(a) \cup RolePermissionKeys(DefaultRole)
    BY DEF RolePermissionKeys
  <2>. QED
    BY <1>1, <1>3, <2>1, <2>2 DEF Below
<1>. QED
  BY <1>2, <1>3

LEMMA CreateUserBelow ==
    ASSUME AdminInv, NEW a \in User, ~IsProtectedAdmin(a), NEW u \in User, NEW r \in AppRole,
           CreateUser(a, u, r), NEW v \in User
    PROVE  Below(a, v)
<1>1. AssignCreatedRole(a, r) /\ Insert(u, r) /\ UNCHANGED <<granular, approle, perm, gone, banned>>
  BY DEF CreateUser
<1>2. r # "admin" /\ (r = DefaultRole \/ approle[r].grants \subseteq Holds(a))
  BY <1>1, Delegates DEF AssignCreatedRole, RoleGrantKeys
<1>. QED
  BY <1>1, <1>2, BornBelow

LEMMA SetUserRoleBelow ==
    ASSUME AdminInv, NEW a \in User, ~IsProtectedAdmin(a), NEW u \in User, NEW r \in AppRole,
           SetUserRole(a, u, r), NEW v \in User
    PROVE  Below(a, v)
<1>1. /\ a # u /\ u \in users /\ role[u] # "admin" /\ r # "admin"
      /\ role' = [role EXCEPT ![u] = r]
      /\ assigned' = [assigned EXCEPT ![u] = IF role[u] = r THEN @ ELSE @ + 1]
      /\ UNCHANGED <<granular, users, gone, banned, approle, perm>>
  BY DEF SetUserRole
<1>2. \E keys : delegation(a, "none", approle[r].grants \cup keys)
  BY DEF SetUserRole, RoleGrantKeys
<1>3. approle[r].grants \subseteq Holds(a)
  BY <1>2, Delegates
<1>4. role'[u] = r /\ \A x \in User \ {u} : role'[x] = role[x] /\ assigned'[x] = assigned[x]
  BY <1>1 DEF AdminInv, AccountsTyped
<1>5. CASE v # u
  <2>1. OthersKept(u)
    BY <1>1, <1>4 DEF OthersKept
  <2>. QED
    BY <1>1, <1>5, <2>1, OthersBelow
<1>6. CASE v = u
  <2>1. Holds(u)' \subseteq Holds(a)
    BY <1>1, <1>3, <1>4 DEF Holds, RolePermissionKeys
  <2>. QED
    BY <1>1, <1>6, <2>1 DEF Below
<1>. QED
  BY <1>5, <1>6

LEMMA DeletedBelow ==
    ASSUME AdminInv, NEW a \in User, NEW u \in User, DeleteWithAdminGuard(u),
           UNCHANGED <<granular, approle, perm>>, NEW v \in User
    PROVE  Below(a, v)
<1>1. /\ users' = users \ {u} /\ gone' = gone \cup {u} /\ banned' = banned \ {u}
      /\ \A x \in User \ {u} : role'[x] = role[x] /\ assigned'[x] = assigned[x]
  BY DEF DeleteWithAdminGuard, AdminInv, AccountsTyped
<1>2. OthersKept(u)
  BY <1>1 DEF OthersKept
<1>3. CASE v = u
  <2>1. Holds(u)' = {}
    BY <1>1 DEF Holds
  <2>. QED
    BY <1>1, <1>3, <2>1 DEF Below
<1>. QED
  BY <1>2, <1>3, OthersBelow

(* Whoever is not an administrator gives nobody a key it does not hold,    *)
(* gives itself nothing, and takes an administrator's role from nobody     *)
(* (delegation, AssignCreatedRole, SetUserRole, UpdatePermission), however *)
(* many accounts, roles and permissions there are.                         *)
THEOREM NobodyEscalates == AdminSpec => NoEscalation
<1>. DEFINE Kept ==
       \A u \in User :
        by'.actor \in User /\ ~IsProtectedAdmin(by'.actor) /\ granular =>
            /\ role[u] # "admin" => Holds(u)' \ Holds(u) \subseteq
                  (IF u \notin users THEN Holds(by'.actor) \cup RolePermissionKeys(DefaultRole)
                   ELSE IF u = by'.actor THEN {} ELSE Holds(by'.actor))
            /\ role[u] = "admin" /\ u \in users' => role'[u] = "admin"
<1>1. AdminInv /\ [AdminNext]_adminVars => [Kept]_adminVars
  <2>. SUFFICES ASSUME AdminInv, AdminNext, NEW u \in User,
                       by'.actor \in User, ~IsProtectedAdmin(by'.actor), granular
                PROVE  Below(by'.actor, u)
    BY DEF Kept, Below
  <2>1. ASSUME NEW v \in User, Initialize(v) PROVE FALSE
    BY <2>1 DEF Initialize
  <2>2. ASSUME NEW v \in User, SignUp(v) PROVE Below(by'.actor, u)
    <3>1. /\ Insert(v, DefaultRole) /\ DefaultRole \in AppRole \ {"admin"}
          /\ UNCHANGED <<granular, approle, perm, gone, banned>>
      BY <2>2 DEF SignUp, appVars
    <3>. QED
      BY <3>1, BornBelow
  <2>3. ASSUME NEW v \in User, DeleteAccount(v) PROVE Below(by'.actor, u)
    BY <2>3, DeletedBelow DEF DeleteAccount, appVars
  <2>4. CASE CloseForm
    BY <2>4, AccessKept DEF CloseForm, appVars
  <2>5. ASSUME NEW q \in Req, Fixed(q) PROVE Below(by'.actor, u)
    <3>1. request[q].left = {} /\ request[q].checked = {}
      BY DEF AdminInv, Requests
    <3>. QED
      BY <2>5, <3>1 DEF Fixed, Ask, Judge, Refuse, CommitRequest
  <2>6. ASSUME NEW a \in User, Definitions(a) \/ Roles(a) PROVE Below(by'.actor, u)
    <3>1. by'.actor = a
      BY <2>6, DefinedBy, RolesBy
    <3>. QED
      BY <2>6, <3>1, DefinitionsBelow, RolesBelow
  <2>7. ASSUME NEW a \in User, Accounts(a) PROVE Below(by'.actor, u)
    <3>1. PICK v \in User :
            \/ \E r \in AppRole : OpenForm(a, v, r) \/ SetUserRole(a, v, r) \/ CreateUser(a, v, r)
            \/ BanUser(a, v) \/ UnbanUser(a, v) \/ DeleteUser(a, v)
      BY <2>7 DEF Accounts
    <3>2. by'.actor = a
      <4>1. ASSUME NEW r \in AppRole, OpenForm(a, v, r) PROVE by'.actor = a
        BY <4>1 DEF OpenForm
      <4>2. ASSUME NEW r \in AppRole, SetUserRole(a, v, r) PROVE by'.actor = a
        BY <4>2 DEF SetUserRole, withConditionalMutation
      <4>3. ASSUME NEW r \in AppRole, CreateUser(a, v, r) PROVE by'.actor = a
        BY <4>3 DEF CreateUser, withMutation, withConditionalMutation
      <4>4. ASSUME BanUser(a, v) \/ UnbanUser(a, v) \/ DeleteUser(a, v) PROVE by'.actor = a
        <5>1. \E o \in {"users.ban", "users.unban", "users.delete"} : withMutation(a, o)
          BY <4>4 DEF BanUser, UnbanUser, DeleteUser
        <5>. QED
          BY <5>1 DEF withMutation, withConditionalMutation
      <4>. QED
        BY <3>1, <4>1, <4>2, <4>3, <4>4
    <3>3. ASSUME NEW r \in AppRole, OpenForm(a, v, r) PROVE Below(a, u)
      BY <3>3, AccessKept DEF OpenForm, appVars
    <3>4. CASE BanUser(a, v) \/ UnbanUser(a, v)
      BY <3>4, AccessKept DEF BanUser, UnbanUser, BanWithAdminGuard, SetBanStatus
    <3>5. CASE DeleteUser(a, v)
      BY <3>5, DeletedBelow DEF DeleteUser
    <3>. QED
      BY <3>1, <3>2, <3>3, <3>4, <3>5, SetUserRoleBelow, CreateUserBelow
  <2>. QED
    BY <2>1, <2>2, <2>3, <2>4, <2>5, <2>6, <2>7 DEF AdminNext
<1>. QED
  BY <1>1, AdminStarts, AdminStep, PTL DEF AdminSpec, NoEscalation

-----------------------------------------------------------------------------
(* The audit outbox. *)
HIDE AdminAccessAssumption DEF AppRole, BuiltIn

Reported(e) == \E r \in reported : r[2] = e
EventSets == UNION {[s -> Nat] : s \in SUBSET Event}

SettleState == [at : {"settle"}, failed : BOOLEAN, todo : SUBSET Event, attempts : EventSets]

WorkerState ==
  {Idle} \union SettleState
         \union [at : {"claim"}, todo : SUBSET Event, won : SUBSET Event]
         \union [at : {"deliver"}, sink : Nat, failed : BOOLEAN, todo : SUBSET Event, attempts : EventSets]
         \union [at : {"log"}, lost : Event, then : {Idle} \union {d \in SettleState : d.failed}]

(* What a janitor has selected; of an overflow nothing is known. *)
JanitorState ==
  {Idle} \union [at : {"sweep"}, todo : SUBSET Event, pending : SUBSET Event]
         \union [at : {"drop", "orphans"}, todo : SUBSET Event, lost : SUBSET Event]

JanitorShape(j) ==
  \/ j \in JanitorState
  \/ j = [at |-> "overflow", n |-> j.n]
  \/ j = [at |-> "dead", todo |-> j.todo, n |-> j.n] /\ j.todo \subseteq Event

JanitorTyped == janitor = [w \in Worker |-> janitor[w]] /\ \A w \in Worker : JanitorShape(janitor[w])

PipelineTyped ==
  /\ config \in Configs /\ ValidateConfig(config)
  /\ op \in [Event -> {"todo", "open", "committed", "aborted", "recorded", "record_lost", "delivery_missed", "done"}]
  /\ staged \in [Event -> SUBSET {"record", "obligation"}]
  /\ record \in [Event -> {"absent", "kept", "deleted"}]
  /\ outbox \in [Event -> OutboxRow \union {None}]
  /\ age \in [Event -> Nat]
  /\ worker \in [Worker -> WorkerState]
  /\ acked \in [Event -> SUBSET (1 .. config.sinks)]
  /\ JanitorTyped

(* What an operation has staged, or has reported instead. *)
Staging ==
  \A e \in Event :
    /\ "obligation" \in staged[e] => "record" \in staged[e]
    /\ op[e] = "open" => /\ "record" \in staged[e] \/ <<"record_lost", e>> \in reported
                         /\ "obligation" \in staged[e] \/ Reported(e)
    /\ op[e] = "recorded" => record[e] = "kept" /\ outbox[e] = None
    /\ op[e] \in {"todo", "open", "recorded"} => age[e] = 0

(* A batch that has not failed was acknowledged by the sinks it has seen. *)
Delivering ==
  \A w \in Worker : LET d == worker[w] IN
    /\ d.at = "deliver" => d.sink \in 1 .. config.sinks
    /\ d.at = "deliver" /\ ~ d.failed => \A e \in d.todo : 1 .. (d.sink - 1) \subseteq acked[e]
    /\ d.at = "settle" /\ ~ d.failed => \A e \in d.todo : acked[e] = 1 .. config.sinks

(* The first pass of the emergency valve sheds dead letters, whatever       *)
(* happens after it selected them: no obligation comes back.                *)
Shedding ==
  \A w \in Worker : janitor[w].at = "dead" =>
    \A e \in janitor[w].todo : op[e] \notin {"todo", "open", "recorded"} /\ (outbox[e] # None => Dead(e))

(* A dead letter is accounted for, and one that died within the retry       *)
(* window is younger than that window and the time it has been dead.        *)
Evidence ==
  \A e \in Rows : Dead(e) =>
    /\ AccountedFor(e)
    /\ config.retention > 0 /\ ~ outbox[e].late =>
         outbox[e].dead > config.deadLetterTTL \/ age[e] <= retryWindowFor(config.maxAttempts) + outbox[e].dead

(* Retention takes only what is older. *)
Retained == \A e \in Event : record[e] = "deleted" => config.retention > 0 /\ age[e] > config.retention

AuditInv ==
  /\ PipelineTyped /\ Staging /\ Delivering /\ Shedding
  /\ Evidence /\ Retained /\ NoSilentLoss /\ RecordOutlives
-----------------------------------------------------------------------------
LEMMA WindowNat == \A c \in Configs : retryWindowFor(c.maxAttempts) \in Nat
<1> TAKE c \in Configs
<1>1. c.maxAttempts \in Nat BY AuditConstants
<1>2. IsFiniteSet(0 .. c.maxAttempts - 1) /\ IsFiniteSet(1 .. 2)
  <2>1. 0 \in Int /\ 1 \in Int /\ 2 \in Int /\ c.maxAttempts - 1 \in Int BY <1>1
  <2> QED BY <2>1, FS_Interval, Zenon
<1>3. IsFiniteSet((0 .. c.maxAttempts - 1) \X (1 .. 2)) BY <1>2, FS_Product
<1> QED BY <1>3, FS_Subset, FS_CardinalityType DEF retryWindowFor

LEMMA ConfigTyped ==
  ASSUME PipelineTyped
  PROVE  /\ config.sinks \in Nat \ {0} /\ config.maxAttempts \in Nat \ {0} /\ config.lease \in Nat
         /\ config.outboxMaxAge \in Nat /\ config.deadLetterTTL \in Nat /\ config.retention \in Nat
         /\ retryWindowFor(config.maxAttempts) \in Nat
BY AuditConstants, WindowNat DEF PipelineTyped

LEMMA NoneIsNothing == None \notin Nat /\ None \notin Worker /\ None \notin OutboxRow
BY AuditConstants

LEMMA RowOrNone ==
  ASSUME PipelineTyped
  PROVE  \A e \in Event : (outbox[e] # None) <=> (outbox[e] \in OutboxRow)
BY AuditConstants DEF PipelineTyped

LEMMA AuditInitial == AuditInit => AuditInv
<1> SUFFICES ASSUME AuditInit PROVE AuditInv OBVIOUS
<1>1. PipelineTyped
  <2>1. JanitorTyped BY DEF AuditInit, JanitorTyped, JanitorShape, JanitorState
  <2> QED BY <2>1 DEF AuditInit, PipelineTyped, WorkerState
<1>2. Staging BY DEF AuditInit, Staging
<1>3. Delivering BY DEF AuditInit, Delivering, Idle
<1>4. Evidence /\ RecordOutlives BY DEF AuditInit, Evidence, RecordOutlives, Rows
<1>5. NoSilentLoss BY DEF AuditInit, NoSilentLoss, RecordIffCommit
<1>6. Retained /\ Shedding BY DEF AuditInit, Retained, Shedding, Idle
<1> QED BY <1>1, <1>2, <1>3, <1>4, <1>5, <1>6 DEF AuditInv

(* What a process has in hand it keeps, until it has logged it or is cut   *)
(* off.                                                                     *)
LEMMA HandsKept ==
  ASSUME \A v \in Worker : At(v, "log") => worker'[v] = worker[v],
         \A v \in Worker : janitor[v].at \in {"drop", "orphans"} =>
           janitor'[v].at \in {"drop", "orphans"} /\ janitor[v].lost \subseteq janitor'[v].lost
  PROVE  \A v \in Worker : \A e \in InHand(v) : e \in InHand(v)'
<1> SUFFICES ASSUME NEW v \in Worker, NEW e \in InHand(v) PROVE e \in InHand(v)' OBVIOUS
<1>1. CASE At(v, "log") /\ e = worker[v].lost BY <1>1 DEF InHand, At
<1>2. CASE janitor[v].at \in {"drop", "orphans"} /\ e \in janitor[v].lost BY <1>2 DEF InHand
<1> QED BY <1>1, <1>2 DEF InHand

LEMMA StillAccounted ==
  ASSUME reported \subseteq reported', untold \subseteq untold',
         \A v \in Worker : \A e \in InHand(v) : e \in InHand(v)' \/ e \in untold' \/ Reported(e)'
  PROVE  \A e \in Event : AccountedFor(e) => AccountedFor(e)'
BY DEF AccountedFor, Reported

(* What is said of dead letters and of records holds while they are left as *)
(* they are.                                                                *)
LEMMA LettersKept ==
  ASSUME Evidence, RecordOutlives, UNCHANGED <<config, record, age>>,
         \A e \in Rows' : e \in Event /\ e \in Rows /\ outbox'[e].dead = outbox[e].dead /\ outbox'[e].late = outbox[e].late,
         \A e \in Event : AccountedFor(e) => AccountedFor(e)'
  PROVE  Evidence' /\ RecordOutlives'
<1>1. Evidence'
  <2> SUFFICES ASSUME NEW e \in Rows', Dead(e)'
               PROVE /\ AccountedFor(e)'
                     /\ config.retention > 0 /\ ~ outbox'[e].late =>
                          outbox'[e].dead > config.deadLetterTTL
                          \/ age[e] <= retryWindowFor(config.maxAttempts) + outbox'[e].dead
    BY DEF Evidence, retryWindowFor
  <2>1. e \in Event /\ e \in Rows /\ Dead(e) BY DEF Dead
  <2>2. AccountedFor(e) BY <2>1 DEF Evidence
  <2> QED BY <2>1, <2>2 DEF Evidence
<1>2. RecordOutlives'
  <2> SUFFICES ASSUME NEW e \in Rows', record[e] = "deleted" PROVE e \in Expired' \/ (Dead(e)' /\ outbox'[e].late)
    BY DEF RecordOutlives
  <2>1. e \in Expired \/ (Dead(e) /\ outbox[e].late) BY DEF RecordOutlives
  <2>2. e \in Expired => e \in Expired' BY DEF Expired, Dead
  <2> QED BY <2>1, <2>2 DEF Dead
<1> QED BY <1>1, <1>2

(* A step of a dispatcher or a janitor that leaves dead letters as they are *)
(* and lets no obligation go before it is acknowledged or accounted for.    *)
LEMMA RowsKept ==
  ASSUME AuditInv, PipelineTyped', Delivering', UNCHANGED <<config, op, staged, record, age>>,
         reported \subseteq reported', \A e \in Event : acked[e] \subseteq acked'[e],
         \A e \in Event : AccountedFor(e) => AccountedFor(e)',
         \A v \in Worker : janitor'[v].at = "dead" =>
           \A e \in janitor'[v].todo : op[e] \notin {"todo", "open", "recorded"} /\ (outbox[e] # None => Dead(e)),
         \A e \in Event : outbox[e] = None => outbox'[e] = None,
         \A e \in Event : outbox[e] # None =>
            IF outbox'[e] = None THEN acked[e] = 1 .. config.sinks \/ AccountedFor(e)'
            ELSE outbox'[e].dead = outbox[e].dead /\ outbox'[e].late = outbox[e].late
  PROVE  AuditInv'
<1>0. PipelineTyped /\ Staging /\ Evidence /\ Retained /\ NoSilentLoss /\ RecordOutlives BY DEF AuditInv
<1>1. \A e \in Event : Reported(e) => Reported(e)' BY DEF Reported
<1>2. Staging' BY <1>0, <1>1 DEF Staging
<1>3. \A e \in Rows' : e \in Event /\ e \in Rows /\ outbox'[e].dead = outbox[e].dead /\ outbox'[e].late = outbox[e].late
  BY DEF Rows
<1>4. Evidence' /\ RecordOutlives'
  <2>1. UNCHANGED <<config, record, age>> OBVIOUS
  <2> QED BY <1>0, <1>3, <2>1, LettersKept
<1>6. Shedding'
  <2> SUFFICES ASSUME NEW v \in Worker, janitor'[v].at = "dead", NEW e \in janitor'[v].todo
               PROVE  op[e] \notin {"todo", "open", "recorded"} /\ (outbox'[e] # None => Dead(e)')
    BY DEF Shedding
  <2>0. JanitorShape(janitor'[v]) BY DEF PipelineTyped, JanitorTyped
  <2>1. e \in Event BY <2>0 DEF JanitorShape, JanitorState, Idle
  <2>2. op[e] \notin {"todo", "open", "recorded"} /\ (outbox[e] # None => Dead(e)) OBVIOUS
  <2>3. outbox'[e] # None => outbox[e] # None /\ outbox'[e].dead = outbox[e].dead BY <2>1
  <2> QED BY <2>2, <2>3 DEF Dead
<1>7. RecordIffCommit' BY <1>0 DEF RecordIffCommit, NoSilentLoss
<1>8. \A e \in Event : op'[e] \in {"committed", "done"} /\ outbox'[e] = None =>
         acked'[e] = 1 .. config.sinks \/ AccountedFor(e)'
  <2> TAKE e \in Event
  <2>1. acked'[e] \subseteq 1 .. config.sinks BY DEF PipelineTyped
  <2>2. CASE outbox[e] = None BY <1>0, <2>1, <2>2 DEF NoSilentLoss
  <2>3. CASE outbox[e] # None BY <2>1, <2>3
  <2> QED BY <2>2, <2>3
<1>9. NoSilentLoss' BY <1>7, <1>8 DEF NoSilentLoss
<1>10. Retained' BY <1>0 DEF Retained
<1> QED BY <1>2, <1>4, <1>6, <1>9, <1>10 DEF AuditInv

-----------------------------------------------------------------------------
(* Operations. *)

LEMMA ReportTyped ==
  ASSUME NEW m, NEW e \in Event, Report(m, e)
  PROVE  reported \subseteq reported' /\ Reported(e)' /\ <<m, e>> \in reported'
<1>1. reported \subseteq reported' /\ <<m, e>> \in reported' BY DEF Report
<1>2. <<m, e>>[2] = e OBVIOUS
<1> QED BY <1>1, <1>2, Zenon DEF Reported

(* An operation changes nothing but what belongs to its own event: it is    *)
(* enough that the invariant holds there again.                             *)
LEMMA OperationKeeps ==
  ASSUME AuditInv, NEW e \in Event, PipelineTyped', UNCHANGED <<config, age, worker, janitor, acked, untold>>,
         reported \subseteq reported', op[e] \in {"todo", "open", "recorded"},
         \A f \in Event \ {e} : op'[f] = op[f] /\ staged'[f] = staged[f] /\ record'[f] = record[f] /\ outbox'[f] = outbox[f],
         "obligation" \in staged'[e] => "record" \in staged'[e],
         op'[e] = "open" => "record" \in staged'[e] \/ <<"record_lost", e>> \in reported',
         op'[e] = "open" => "obligation" \in staged'[e] \/ Reported(e)',
         op'[e] = "recorded" => record'[e] = "kept" /\ outbox'[e] = None,
         op'[e] \in {"todo", "open", "recorded"} => age[e] = 0,
         record'[e] # "deleted",
         outbox'[e] # None => outbox'[e].dead = None,
         op'[e] = "committed" => record'[e] # "absent" \/ <<"record_lost", e>> \in reported',
         op'[e] \in {"todo", "open", "aborted"} => record'[e] = "absent" /\ outbox'[e] = None,
         outbox'[e] # None => record'[e] # "absent",
         op'[e] \in {"committed", "done"} /\ outbox'[e] = None => Reported(e)'
  PROVE  AuditInv'
<1>0. /\ PipelineTyped /\ Staging /\ Delivering /\ Shedding /\ Evidence
      /\ Retained /\ NoSilentLoss /\ RecordOutlives
  BY DEF AuditInv
<1>1. \A f \in Event : Reported(f) => Reported(f)' BY DEF Reported
<1>a. \A f \in Event : AccountedFor(f) => AccountedFor(f)'
  <2>1. \A v \in Worker : \A f \in InHand(v) : f \in InHand(v)' BY DEF InHand, At
  <2> QED BY <2>1, StillAccounted
<1>2. Staging'
  <2>1. \A f \in Event \ {e} :
          /\ "obligation" \in staged'[f] => "record" \in staged'[f]
          /\ op'[f] = "open" => /\ "record" \in staged'[f] \/ <<"record_lost", f>> \in reported'
                                /\ "obligation" \in staged'[f] \/ Reported(f)'
          /\ op'[f] = "recorded" => record'[f] = "kept" /\ outbox'[f] = None
          /\ op'[f] \in {"todo", "open", "recorded"} => age'[f] = 0
    BY <1>0, <1>1 DEF Staging
  <2> QED BY <2>1 DEF Staging
<1>3. Delivering' BY <1>0 DEF Delivering
<1>4. Evidence' /\ RecordOutlives'
  <2>1. \A f \in Rows' : Dead(f)' => f # e BY DEF Dead, Rows
  <2>2. \A f \in Rows' : f # e => f \in Rows /\ outbox'[f] = outbox[f] /\ record'[f] = record[f] BY DEF Rows
  <2>3. \A f \in Rows' : f = e => record'[f] # "deleted" OBVIOUS
  <2>4. Evidence' BY <1>0, <1>a, <2>1, <2>2 DEF Evidence, Dead, retryWindowFor, Rows
  <2>5. RecordOutlives'
    <3> SUFFICES ASSUME NEW f \in Rows', record'[f] = "deleted" PROVE f \in Expired' \/ (Dead(f)' /\ outbox'[f].late)
      BY DEF RecordOutlives
    <3>1. f \in Rows /\ record[f] = "deleted" /\ outbox'[f] = outbox[f] BY <2>2, <2>3
    <3>2. f \in Expired \/ (Dead(f) /\ outbox[f].late) BY <1>0, <3>1 DEF RecordOutlives
    <3>3. f \in Expired => f \in Expired' BY <3>1 DEF Expired, Dead
    <3> QED BY <3>1, <3>2, <3>3 DEF Dead
  <2> QED BY <2>4, <2>5
<1>b. Shedding'
  <2> SUFFICES ASSUME NEW v \in Worker, janitor[v].at = "dead", NEW f \in janitor[v].todo
               PROVE  op'[f] \notin {"todo", "open", "recorded"} /\ (outbox'[f] # None => Dead(f)')
    BY DEF Shedding
  <2>1. op[f] \notin {"todo", "open", "recorded"} /\ (outbox[f] # None => Dead(f)) BY <1>0 DEF Shedding
  <2>2. f \in Event BY <1>0 DEF PipelineTyped, JanitorTyped, JanitorShape, JanitorState, Idle
  <2> QED BY <2>1, <2>2 DEF Dead
<1>5. RecordIffCommit'
  <2>1. \A f \in Event \ {e} :
          /\ op'[f] = "committed" => record'[f] # "absent" \/ <<"record_lost", f>> \in reported'
          /\ op'[f] \in {"todo", "open", "aborted"} => record'[f] = "absent" /\ outbox'[f] = None
          /\ outbox'[f] # None => record'[f] # "absent"
    BY <1>0 DEF RecordIffCommit, NoSilentLoss
  <2> QED BY <2>1 DEF RecordIffCommit
<1>6. \A f \in Event : op'[f] \in {"committed", "done"} /\ outbox'[f] = None =>
         acked'[f] = 1 .. config'.sinks \/ AccountedFor(f)'
  <2>1. \A f \in Event \ {e} : op'[f] \in {"committed", "done"} /\ outbox'[f] = None =>
         acked'[f] = 1 .. config'.sinks \/ AccountedFor(f)
    BY <1>0 DEF NoSilentLoss
  <2>2. Reported(e)' => AccountedFor(e)' BY DEF Reported, AccountedFor
  <2> QED BY <1>a, <2>1, <2>2
<1>7. NoSilentLoss' BY <1>5, <1>6 DEF NoSilentLoss
<1>8. Retained'
  <2>1. \A f \in Event \ {e} : record'[f] = "deleted" => config'.retention > 0 /\ age'[f] > config'.retention
    BY <1>0 DEF Retained
  <2> QED BY <2>1 DEF Retained
<1> QED BY <1>2, <1>3, <1>4, <1>b, <1>7, <1>8 DEF AuditInv

(* What the invariant says of an event whose operation has not ended. *)
LEMMA Unfinished ==
  ASSUME AuditInv, NEW e \in Event, op[e] \in {"todo", "open", "recorded"}
  PROVE  /\ age[e] = 0 /\ outbox[e] = None
         /\ op[e] = "recorded" => record[e] = "kept"
         /\ op[e] # "recorded" => record[e] = "absent"
         /\ op[e] = "open" => /\ "record" \in staged[e] \/ <<"record_lost", e>> \in reported
                              /\ "obligation" \in staged[e] \/ Reported(e)
         /\ "obligation" \in staged[e] => "record" \in staged[e]
         /\ staged[e] \subseteq {"record", "obligation"}
BY DEF AuditInv, Staging, NoSilentLoss, RecordIffCommit, PipelineTyped

LEMMA ObligationRow ==
  /\ Obligation \in OutboxRow /\ Obligation.dead = None /\ Obligation # None
<1>1. Obligation \in OutboxRow /\ Obligation.dead = None BY DEF Obligation, OutboxRow
<1> QED BY <1>1, AuditConstants

LEMMA RecordKeeps ==
  ASSUME AuditInv, NEW e \in Event, NEW failClosed \in BOOLEAN, Record(e, failClosed)
  PROVE  AuditInv'
<1>0. PipelineTyped BY DEF AuditInv
<1>u. UNCHANGED <<config, record, outbox, age, worker, janitor, acked, untold>> /\ op[e] = "todo" BY DEF Record, queue
<1>r. reported \subseteq reported' BY DEF Record, Report
<1>1. PipelineTyped' BY <1>0, <1>u DEF PipelineTyped, JanitorTyped, Record
<1>2. \A f \in Event \ {e} : op'[f] = op[f] /\ staged'[f] = staged[f] BY <1>0 DEF Record, PipelineTyped
<1>3. age[e] = 0 /\ outbox[e] = None /\ record[e] = "absent" /\ staged[e] \subseteq {"record", "obligation"}
      /\ ("obligation" \in staged[e] => "record" \in staged[e])
  BY Unfinished DEF Record
<1>4. \/ op'[e] = "aborted" /\ staged'[e] = staged[e]
      \/ op'[e] = "open" /\ staged'[e] = {"record", "obligation"}
      \/ \E kept \in {{}, {"record"}} :
           /\ op'[e] = "open" /\ staged'[e] = kept
           /\ Report(IF kept = {} THEN "record_lost" ELSE "delivery_missed", e)
  BY <1>0 DEF Record, PipelineTyped
<1>5. CASE op'[e] = "aborted" /\ staged'[e] = staged[e] BY <1>u, <1>r, <1>1, <1>2, <1>3, <1>5, OperationKeeps
<1>6. CASE op'[e] = "open" /\ staged'[e] = {"record", "obligation"} BY <1>u, <1>r, <1>1, <1>2, <1>3, <1>6, OperationKeeps
<1>7. ASSUME NEW kept \in {{}, {"record"}}, op'[e] = "open", staged'[e] = kept,
             Report(IF kept = {} THEN "record_lost" ELSE "delivery_missed", e)
      PROVE  AuditInv'
  <2>1. Reported(e)' /\ "obligation" \notin staged'[e] BY <1>7, ReportTyped
  <2>2. "record" \in staged'[e] \/ <<"record_lost", e>> \in reported' BY <1>7, ReportTyped
  <2> QED BY <1>u, <1>r, <1>1, <1>2, <1>3, <1>7, <2>1, <2>2, OperationKeeps
<1> QED BY <1>4, <1>5, <1>6, <1>7

LEMMA CommitKeeps ==
  ASSUME AuditInv, NEW e \in Event, Commit(e)
  PROVE  AuditInv'
<1>0. PipelineTyped BY DEF AuditInv
<1>u. UNCHANGED <<config, age, worker, janitor, acked, untold, reported>> /\ op[e] = "open" BY DEF Commit, queue
<1>1. PipelineTyped' BY <1>0, <1>u, ObligationRow DEF PipelineTyped, JanitorTyped, Commit
<1>2. \A f \in Event \ {e} : op'[f] = op[f] /\ staged'[f] = staged[f] /\ record'[f] = record[f] /\ outbox'[f] = outbox[f]
  BY <1>0 DEF Commit, PipelineTyped
<1>3. /\ op'[e] = "committed" /\ staged'[e] = {}
      /\ record'[e] = (IF "record" \in staged[e] THEN "kept" ELSE record[e])
      /\ outbox'[e] = (IF "obligation" \in staged[e] THEN Obligation ELSE outbox[e])
  BY <1>0 DEF Commit, PipelineTyped
<1>4. \A f \in Event : Reported(f) => Reported(f)' BY <1>u DEF Reported
<1> QED BY <1>u, <1>1, <1>2, <1>3, <1>4, Unfinished, ObligationRow, OperationKeeps

LEMMA RollbackKeeps ==
  ASSUME AuditInv, NEW e \in Event, Rollback(e)
  PROVE  AuditInv'
<1>0. PipelineTyped BY DEF AuditInv
<1>u. UNCHANGED <<config, age, worker, janitor, acked, untold, reported, record, outbox>> /\ op[e] = "open" BY DEF Rollback, queue
<1>1. PipelineTyped' BY <1>0, <1>u DEF PipelineTyped, JanitorTyped, Rollback
<1>2. \A f \in Event \ {e} : op'[f] = op[f] /\ staged'[f] = staged[f] BY <1>0 DEF Rollback, PipelineTyped
<1>3. op'[e] = "aborted" /\ staged'[e] = {} BY <1>0 DEF Rollback, PipelineTyped
<1> QED BY <1>u, <1>1, <1>2, <1>3, Unfinished, OperationKeeps

LEMMA RecordAloneKeeps ==
  ASSUME AuditInv, NEW e \in Event, RecordAlone(e)
  PROVE  AuditInv'
<1>0. PipelineTyped BY DEF AuditInv
<1>u. UNCHANGED <<config, age, worker, janitor, acked, reported, untold, staged, outbox>> /\ op[e] = "todo"
  BY DEF RecordAlone, queue
<1>1. PipelineTyped' BY <1>0, <1>u DEF PipelineTyped, JanitorTyped, RecordAlone
<1>2. \A f \in Event \ {e} : op'[f] = op[f] /\ record'[f] = record[f] BY <1>0 DEF RecordAlone, PipelineTyped
<1>3. \/ op'[e] = "recorded" /\ record'[e] = "kept"
      \/ op'[e] = "record_lost" /\ record'[e] \in {"absent", "kept"}
  BY <1>0 DEF RecordAlone, PipelineTyped
<1> QED BY <1>u, <1>1, <1>2, <1>3, Unfinished, OperationKeeps

LEMMA ObligeAloneKeeps ==
  ASSUME AuditInv, NEW e \in Event, ObligeAlone(e)
  PROVE  AuditInv'
<1>0. PipelineTyped BY DEF AuditInv
<1>u. UNCHANGED <<config, age, worker, janitor, acked, reported, untold, staged, record>> /\ op[e] = "recorded"
  BY DEF ObligeAlone, queue
<1>1. PipelineTyped' BY <1>0, <1>u, ObligationRow DEF PipelineTyped, JanitorTyped, ObligeAlone
<1>2. \A f \in Event \ {e} : op'[f] = op[f] /\ outbox'[f] = outbox[f] BY <1>0 DEF ObligeAlone, PipelineTyped
<1>3. \/ op'[e] = "done" /\ outbox'[e] = Obligation
      \/ op'[e] = "delivery_missed" /\ outbox'[e] \in {None, Obligation}
  BY <1>0 DEF ObligeAlone, PipelineTyped
<1> QED BY <1>u, <1>1, <1>2, <1>3, Unfinished, ObligationRow, OperationKeeps

(* An operation that has nothing left to write ends. *)
LEMMA EndKeeps ==
  ASSUME AuditInv, NEW e \in Event, op[e] \notin {"todo", "open"}, op' = [op EXCEPT ![e] = "done"],
         UNCHANGED <<config, staged, record, outbox, age, worker, janitor, acked>>,
         reported \subseteq reported', untold \subseteq untold', Reported(e)' \/ e \in untold'
  PROVE  AuditInv'
<1>0. /\ PipelineTyped /\ Staging /\ Delivering /\ Shedding /\ Evidence
      /\ Retained /\ NoSilentLoss /\ RecordOutlives
  BY DEF AuditInv
<1>1. PipelineTyped' BY <1>0 DEF PipelineTyped, JanitorTyped
<1>2. \A f \in Event : op'[f] = IF f = e THEN "done" ELSE op[f] BY <1>0 DEF PipelineTyped
<1>3. \A f \in Event : AccountedFor(f) => AccountedFor(f)'
  <2>1. \A v \in Worker : \A f \in InHand(v) : f \in InHand(v)' BY DEF InHand, At
  <2> QED BY <2>1, StillAccounted
<1>4. AccountedFor(e)' BY DEF AccountedFor, Reported
<1>5. Staging'
  <2>1. \A f \in Event : Reported(f) => Reported(f)' BY DEF Reported
  <2> SUFFICES ASSUME NEW f \in Event
               PROVE  /\ "obligation" \in staged[f] => "record" \in staged[f]
                      /\ op'[f] = "open" => /\ "record" \in staged[f] \/ <<"record_lost", f>> \in reported'
                                            /\ "obligation" \in staged[f] \/ Reported(f)'
                      /\ op'[f] = "recorded" => record[f] = "kept" /\ outbox[f] = None
                      /\ op'[f] \in {"todo", "open", "recorded"} => age[f] = 0
    BY DEF Staging
  <2>2. op'[f] = op[f] \/ op'[f] = "done" BY <1>2
  <2>3. /\ "obligation" \in staged[f] => "record" \in staged[f]
        /\ op[f] = "open" => /\ "record" \in staged[f] \/ <<"record_lost", f>> \in reported
                             /\ "obligation" \in staged[f] \/ Reported(f)
        /\ op[f] = "recorded" => record[f] = "kept" /\ outbox[f] = None
        /\ op[f] \in {"todo", "open", "recorded"} => age[f] = 0
    BY <1>0 DEF Staging
  <2> QED BY <2>1, <2>2, <2>3
<1>6. Delivering' BY <1>0 DEF Delivering
<1>7. Shedding'
  <2>1. \A v \in Worker : janitor[v].at = "dead" => janitor[v].todo \subseteq Event
    BY <1>0 DEF PipelineTyped, JanitorTyped, JanitorShape, JanitorState, Idle
  <2> QED BY <1>0, <1>2, <2>1 DEF Shedding, Dead
<1>8. Evidence' BY <1>0, <1>3 DEF Evidence, Rows, Dead, retryWindowFor
<1>9. RecordOutlives' /\ Retained' BY <1>0 DEF RecordOutlives, Retained, Expired, Rows, Dead
<1>10. NoSilentLoss' BY <1>0, <1>2, <1>3, <1>4 DEF NoSilentLoss, RecordIffCommit
<1> QED BY <1>1, <1>5, <1>6, <1>7, <1>8, <1>9, <1>10 DEF AuditInv

LEMMA LogFailureKeeps ==
  ASSUME AuditInv, NEW e \in Event, LogFailure(e)
  PROVE  AuditInv'
<1>1. /\ op[e] \notin {"todo", "open"} /\ op' = [op EXCEPT ![e] = "done"]
      /\ UNCHANGED <<config, staged, record, outbox, age, worker, janitor, acked, untold>> /\ Report(op[e], e)
  BY DEF LogFailure, queue
<1>2. reported \subseteq reported' /\ Reported(e)' BY <1>1, ReportTyped
<1> QED BY <1>1, <1>2, EndKeeps

LEMMA CutShortKeeps ==
  ASSUME AuditInv, NEW e \in Event, CutShort(e)
  PROVE  AuditInv'
BY EndKeeps DEF CutShort

-----------------------------------------------------------------------------
(* Dispatchers. *)

LEMMA WorkerShapes ==
  ASSUME PipelineTyped, NEW w \in Worker
  PROVE  /\ At(w, "claim") => worker[w] \in [at : {"claim"}, todo : SUBSET Event, won : SUBSET Event]
         /\ At(w, "deliver") => worker[w] \in [at : {"deliver"}, sink : Nat, failed : BOOLEAN, todo : SUBSET Event,
                                               attempts : EventSets]
         /\ At(w, "settle") => worker[w] \in SettleState
         /\ At(w, "log") => worker[w].lost \in Event /\ worker[w].then \in {Idle} \union {d \in SettleState : d.failed}
BY DEF PipelineTyped, WorkerState, SettleState, Idle, At

(* Forgetting the owner of a claim changes nothing else. *)
LEMMA AbandonedRows ==
  ASSUME NEW w \in Worker, NEW rows \in [Event -> OutboxRow \union {None}]
  PROVE  /\ Abandon(w, rows) \in [Event -> OutboxRow \union {None}]
         /\ \A e \in Event : /\ rows[e] = None => Abandon(w, rows)[e] = None
                             /\ rows[e] # None => /\ Abandon(w, rows)[e] # None
                                                  /\ Abandon(w, rows)[e].dead = rows[e].dead
                                                  /\ Abandon(w, rows)[e].late = rows[e].late
<1>1. \A e \in Event : Abandon(w, rows)[e] = IF rows[e] # None /\ rows[e].owner = w
                                             THEN [rows[e] EXCEPT !.owner = None] ELSE rows[e]
  BY DEF Abandon
<1>2. \A r \in OutboxRow : LET s == [r EXCEPT !.owner = None]
                           IN s \in OutboxRow /\ s.dead = r.dead /\ s.late = r.late
  BY DEF OutboxRow
<1>3. Abandon(w, rows) \in [Event -> OutboxRow \union {None}] BY <1>1, <1>2 DEF Abandon
<1>4. \A e \in Event : rows[e] # None => rows[e] \in OutboxRow OBVIOUS
<1> QED BY <1>1, <1>2, <1>3, <1>4, NoneIsNothing

(* A worker that goes on to something that is no delivery. *)
LEMMA WorkerMoves ==
  ASSUME PipelineTyped, Delivering, NEW w \in Worker, NEW next \in WorkerState, Do(w, next),
         next.at \in {"deliver", "settle"} => next.at = "settle" /\ next.failed, UNCHANGED <<config, acked>>
  PROVE  worker' \in [Worker -> WorkerState] /\ Delivering' /\ \A v \in Worker : worker'[v] = IF v = w THEN next ELSE worker[v]
<1>1. \A v \in Worker : worker'[v] = IF v = w THEN next ELSE worker[v] BY DEF Do, PipelineTyped
<1>2. worker' \in [Worker -> WorkerState] BY DEF Do, PipelineTyped
<1> QED BY <1>1, <1>2 DEF Delivering

(* A step of a dispatcher that leaves dead letters as they are and lets no  *)
(* obligation go before every sink has acknowledged it.                     *)
LEMMA DispatchKeeps ==
  ASSUME AuditInv, NEW w \in Worker, ~ At(w, "log"),
         worker' \in [Worker -> WorkerState], \A v \in Worker \ {w} : worker'[v] = worker[v], Delivering',
         UNCHANGED <<config, op, staged, record, age, janitor, reported>>, untold \subseteq untold',
         acked' \in [Event -> SUBSET (1 .. config.sinks)], \A e \in Event : acked[e] \subseteq acked'[e],
         outbox' \in [Event -> OutboxRow \union {None}],
         \A e \in Event : outbox[e] = None => outbox'[e] = None,
         \A e \in Event : outbox[e] # None =>
            IF outbox'[e] = None THEN acked[e] = 1 .. config.sinks
            ELSE outbox'[e].dead = outbox[e].dead /\ outbox'[e].late = outbox[e].late
  PROVE  AuditInv'
<1>0. PipelineTyped /\ Shedding BY DEF AuditInv
<1>1. PipelineTyped' BY <1>0 DEF PipelineTyped, JanitorTyped
<1>2. \A v \in Worker : \A e \in InHand(v) : e \in InHand(v)'
  <2>1. \A v \in Worker : At(v, "log") => worker'[v] = worker[v] OBVIOUS
  <2> QED BY <2>1, HandsKept
<1>3. \A e \in Event : AccountedFor(e) => AccountedFor(e)' BY <1>2, StillAccounted
<1>4. \A v \in Worker : janitor'[v].at = "dead" =>
         \A e \in janitor'[v].todo : op[e] \notin {"todo", "open", "recorded"} /\ (outbox[e] # None => Dead(e))
  BY <1>0 DEF Shedding
<1> QED BY <1>1, <1>3, <1>4, RowsKept

LEMMA SelectCandidatesKeeps ==
  ASSUME AuditInv, NEW w \in Worker, SelectCandidates(w)
  PROVE  AuditInv'
<1>0. PipelineTyped /\ Delivering BY DEF AuditInv
<1>u. UNCHANGED <<config, op, staged, record, outbox, age, janitor, acked, reported, untold>> /\ ~ At(w, "log")
  BY DEF SelectCandidates, At
<1>1. PICK s \in Candidates \ {{}} : Do(w, [at |-> "claim", todo |-> s, won |-> {}]) BY DEF SelectCandidates
<1>2. s \subseteq Event BY DEF Candidates, Rows
<1>3. [at |-> "claim", todo |-> s, won |-> {}] \in WorkerState BY <1>2 DEF WorkerState
<1>4. worker' \in [Worker -> WorkerState] /\ Delivering' /\ \A v \in Worker \ {w} : worker'[v] = worker[v]
  BY <1>0, <1>u, <1>1, <1>3, WorkerMoves
<1> QED BY <1>0, <1>u, <1>4, DispatchKeeps DEF PipelineTyped

LEMMA ClaimKeeps ==
  ASSUME AuditInv, NEW w \in Worker, NEW e \in Event, Claim(w, e)
  PROVE  AuditInv'
<1>0. PipelineTyped /\ Delivering BY DEF AuditInv
<1>u. UNCHANGED <<config, op, staged, record, age, janitor, acked, reported, untold>> /\ ~ At(w, "log") BY DEF Claim, At
<1> DEFINE wins == outbox[e] # None /\ Claimable(e)
           next == [worker[w] EXCEPT !.todo = @ \ {e}, !.won = IF wins THEN @ \union {e} ELSE @]
           row == [Counted(outbox[e]) EXCEPT !.held = 0, !.owner = w]
<1>1. next \in WorkerState /\ next.at = "claim" BY <1>0, WorkerShapes DEF Claim, WorkerState
<1>2. Do(w, next) BY DEF Claim
<1>3. worker' \in [Worker -> WorkerState] /\ Delivering' /\ \A v \in Worker \ {w} : worker'[v] = worker[v]
  <2> HIDE DEF next
  <2> QED BY <1>0, <1>u, <1>1, <1>2, WorkerMoves
<1>4. outbox' = IF wins THEN [outbox EXCEPT ![e] = row] ELSE outbox BY DEF Claim
<1>5. wins => row \in OutboxRow /\ row.dead = outbox[e].dead /\ row.late = outbox[e].late
  <2> SUFFICES ASSUME wins PROVE row \in OutboxRow /\ row.dead = outbox[e].dead /\ row.late = outbox[e].late
    OBVIOUS
  <2>1. outbox[e] \in OutboxRow BY <1>0, RowOrNone
  <2>2. Least(outbox[e].attempts + 1, config.maxAttempts) \in Nat
    BY <1>0, <2>1, ConfigTyped DEF Least, OutboxRow
  <2> QED BY <2>1, <2>2 DEF OutboxRow, Counted
<1>6. outbox' \in [Event -> OutboxRow \union {None}] BY <1>0, <1>4, <1>5 DEF PipelineTyped
<1>7. \A f \in Event : IF outbox[f] = None THEN outbox'[f] = None
                       ELSE outbox'[f] # None /\ outbox'[f].dead = outbox[f].dead /\ outbox'[f].late = outbox[f].late
  BY <1>0, <1>4, <1>5, AuditConstants DEF PipelineTyped
<1> QED BY <1>0, <1>u, <1>3, <1>6, <1>7, DispatchKeeps DEF PipelineTyped

LEMMA ReadClaimedKeeps ==
  ASSUME AuditInv, NEW w \in Worker, ReadClaimed(w)
  PROVE  AuditInv'
<1>0. PipelineTyped /\ Delivering BY DEF AuditInv
<1>u. UNCHANGED <<config, op, staged, record, age, janitor, acked, reported, untold>> /\ ~ At(w, "log")
  BY DEF ReadClaimed, At
<1> DEFINE batch == {e \in Rows : outbox[e].owner = w /\ record[e] = "kept"}
           next == [at |-> "deliver", sink |-> 1, failed |-> FALSE, todo |-> batch,
                    attempts |-> [e \in batch |-> outbox[e].attempts]]
<1>1. CASE Do(w, Idle) /\ outbox' = Abandon(w, outbox)
  <2>1. worker' \in [Worker -> WorkerState] /\ Delivering' /\ \A v \in Worker \ {w} : worker'[v] = worker[v]
    BY <1>0, <1>1, <1>u, WorkerMoves DEF Idle, WorkerState
  <2> QED BY <1>0, <1>1, <1>u, <2>1, AbandonedRows, DispatchKeeps DEF PipelineTyped
<1>2. CASE Do(w, next) /\ outbox' = outbox
  <2>1. batch \in SUBSET Event /\ \A e \in batch : outbox[e].attempts \in Nat
    BY <1>0, RowOrNone DEF Rows, OutboxRow
  <2>2. [e \in batch |-> outbox[e].attempts] \in EventSets
    <3>1. [e \in batch |-> outbox[e].attempts] \in [batch -> Nat] BY <2>1
    <3> QED BY <2>1, <3>1, Zenon DEF EventSets
  <2>3. next \in WorkerState BY <2>1, <2>2 DEF WorkerState
  <2>4. worker' \in [Worker -> WorkerState] /\ \A v \in Worker : worker'[v] = IF v = w THEN next ELSE worker[v]
    BY <1>0, <1>2, <2>3 DEF Do, PipelineTyped
  <2>5. Delivering'
    <3>1. 1 \in 1 .. config.sinks BY <1>0, ConfigTyped
    <3>2. 1 .. (1 - 1) = {} OBVIOUS
    <3>3. next.at = "deliver" /\ next.sink = 1 OBVIOUS
    <3> HIDE DEF next
    <3> QED BY <1>0, <1>u, <2>4, <3>1, <3>2, <3>3 DEF Delivering
  <2> HIDE DEF next, batch
  <2> QED BY <1>0, <1>2, <1>u, <2>4, <2>5, DispatchKeeps DEF PipelineTyped
<1> QED BY <1>1, <1>2 DEF ReadClaimed

LEMMA NextSink ==
  \A d \in [at : {"deliver"}, sink : Nat, failed : BOOLEAN, todo : SUBSET Event, attempts : EventSets] :
    \A failed \in BOOLEAN :
      [d EXCEPT !.sink = @ + 1, !.failed = failed]
         \in [at : {"deliver"}, sink : Nat, failed : BOOLEAN, todo : SUBSET Event, attempts : EventSets]
<1> TAKE d \in [at : {"deliver"}, sink : Nat, failed : BOOLEAN, todo : SUBSET Event, attempts : EventSets]
<1> TAKE failed \in BOOLEAN
<1> DEFINE n == d.sink + 1
<1>1. n \in Nat OBVIOUS
<1>2. [d EXCEPT !.sink = @ + 1, !.failed = failed] = [d EXCEPT !.sink = n, !.failed = failed] OBVIOUS
<1> HIDE DEF n
<1>3. [d EXCEPT !.sink = n, !.failed = failed]
         \in [at : {"deliver"}, sink : Nat, failed : BOOLEAN, todo : SUBSET Event, attempts : EventSets]
  BY <1>1
<1> QED BY <1>2, <1>3

(* A batch that goes on to the next sink without a failure was acknowledged *)
(* by the one it leaves.                                                    *)
LEMMA HandleBatchKeeps ==
  ASSUME AuditInv, NEW w \in Worker, HandleBatch(w)
  PROVE  AuditInv'
<1>0. PipelineTyped /\ Delivering BY DEF AuditInv
<1>u. UNCHANGED <<config, op, staged, record, outbox, age, janitor, reported, untold>> /\ ~ At(w, "log")
  BY DEF HandleBatch, At
<1> DEFINE d == worker[w]
<1>d. /\ d \in [at : {"deliver"}, sink : Nat, failed : BOOLEAN, todo : SUBSET Event, attempts : EventSets]
      /\ d.sink \in 1 .. config.sinks /\ (~ d.failed => \A e \in d.todo : 1 .. (d.sink - 1) \subseteq acked[e])
  BY <1>0, WorkerShapes DEF HandleBatch, Delivering, At
<1>1. PICK ok \in BOOLEAN :
        /\ acked' = IF ok THEN [e \in Event |-> IF e \in d.todo THEN acked[e] \union {d.sink} ELSE acked[e]] ELSE acked
        /\ Do(w, IF d.sink < config.sinks /\ (ok \/ ~ config.closed)
                 THEN [d EXCEPT !.sink = @ + 1, !.failed = SomeFailed(d.failed, ok)]
                 ELSE [at |-> "settle", failed |-> SomeFailed(d.failed, ok), todo |-> d.todo, attempts |-> d.attempts])
  BY DEF HandleBatch
<1> DEFINE more == d.sink < config.sinks /\ (ok \/ ~ config.closed)
           failed == SomeFailed(d.failed, ok)
           next == IF more THEN [d EXCEPT !.sink = @ + 1, !.failed = failed]
                   ELSE [at |-> "settle", failed |-> failed, todo |-> d.todo, attempts |-> d.attempts]
<1>2. failed \in BOOLEAN /\ (~ failed => ~ d.failed /\ ok) BY <1>d DEF SomeFailed
<1>3. acked' \in [Event -> SUBSET (1 .. config.sinks)] /\ \A e \in Event : acked[e] \subseteq acked'[e]
  BY <1>0, <1>1, <1>d DEF PipelineTyped
<1>4. next \in WorkerState /\ next.todo = d.todo /\ next.failed = failed
      /\ (more => next.at = "deliver" /\ next.sink = d.sink + 1) /\ (~ more => next.at = "settle")
  <2>1. CASE more
    <3>1. next = [d EXCEPT !.sink = @ + 1, !.failed = failed] BY <2>1
    <3>2. failed \in BOOLEAN BY <1>2
    <3>3. d \in [at : {"deliver"}, sink : Nat, failed : BOOLEAN, todo : SUBSET Event, attempts : EventSets] BY <1>d
    <3> HIDE DEF next, more, failed, d
    <3>4. next \in [at : {"deliver"}, sink : Nat, failed : BOOLEAN, todo : SUBSET Event, attempts : EventSets]
      <4>1. [d EXCEPT !.sink = @ + 1, !.failed = failed]
              \in [at : {"deliver"}, sink : Nat, failed : BOOLEAN, todo : SUBSET Event, attempts : EventSets]
        BY <3>2, <3>3, NextSink, Zenon
      <4> QED BY <3>1, <4>1, Zenon
    <3>5. next.todo = d.todo /\ next.failed = failed /\ next.at = "deliver" /\ next.sink = d.sink + 1
      BY <3>1, <3>3
    <3> QED BY <2>1, <3>4, <3>5 DEF WorkerState
  <2>2. CASE ~ more
    <3>1. next = [at |-> "settle", failed |-> failed, todo |-> d.todo, attempts |-> d.attempts] BY <2>2
    <3> HIDE DEF next, more, failed, d
    <3> QED BY <1>d, <1>2, <2>2, <3>1 DEF WorkerState, SettleState
  <2> QED BY <2>1, <2>2
<1>5. worker' \in [Worker -> WorkerState] /\ \A v \in Worker : worker'[v] = IF v = w THEN next ELSE worker[v]
  BY <1>0, <1>1, <1>4 DEF Do, PipelineTyped
<1>6. ~ failed => \A e \in d.todo : 1 .. d.sink \subseteq acked'[e]
  <2> SUFFICES ASSUME ~ failed, NEW e \in d.todo, NEW i \in 1 .. d.sink PROVE i \in acked'[e] OBVIOUS
  <2>1. e \in Event /\ acked'[e] = acked[e] \union {d.sink} BY <1>0, <1>1, <1>2, <1>d DEF PipelineTyped
  <2>2. i = d.sink \/ i \in 1 .. (d.sink - 1) BY <1>d
  <2> QED BY <1>2, <1>d, <2>1, <2>2
<1>7. Delivering'
  <2>1. \A v \in Worker \ {w} : LET x == worker'[v] IN
          /\ x.at = "deliver" => x.sink \in 1 .. config'.sinks
          /\ x.at = "deliver" /\ ~ x.failed => \A e \in x.todo : 1 .. (x.sink - 1) \subseteq acked'[e]
          /\ x.at = "settle" /\ ~ x.failed => \A e \in x.todo : acked'[e] = 1 .. config'.sinks
    <3> SUFFICES ASSUME NEW v \in Worker \ {w}
                 PROVE  LET x == worker'[v] IN
                        /\ x.at = "deliver" => x.sink \in 1 .. config'.sinks
                        /\ x.at = "deliver" /\ ~ x.failed => \A e \in x.todo : 1 .. (x.sink - 1) \subseteq acked'[e]
                        /\ x.at = "settle" /\ ~ x.failed => \A e \in x.todo : acked'[e] = 1 .. config'.sinks
      OBVIOUS
    <3>1. worker'[v] = worker[v] /\ config' = config BY <1>5, <1>u
    <3>2. At(v, "deliver") \/ At(v, "settle") => worker[v].todo \subseteq Event
      BY <1>0, WorkerShapes DEF SettleState
    <3> QED BY <1>0, <1>3, <3>1, <3>2 DEF Delivering, At
  <2>2. CASE more
    <3>1. d.sink + 1 \in 1 .. config.sinks /\ (d.sink + 1) - 1 = d.sink BY <1>d, <2>2, <1>0, ConfigTyped
    <3> HIDE DEF next, more, failed
    <3> QED BY <1>4, <1>5, <1>6, <1>u, <2>1, <2>2, <3>1 DEF Delivering
  <2>3. CASE ~ more
    <3>1. ~ failed => d.sink = config.sinks BY <1>d, <1>2, <2>3, <1>0, ConfigTyped
    <3>2. ~ failed => \A e \in d.todo : acked'[e] = 1 .. config.sinks BY <1>3, <1>6, <1>d, <3>1
    <3> HIDE DEF next, more, failed
    <3> QED BY <1>4, <1>5, <1>u, <2>1, <2>3, <3>2 DEF Delivering
  <2> QED BY <2>2, <2>3
<1> HIDE DEF next, more, failed, d
<1> QED BY <1>0, <1>u, <1>3, <1>5, <1>7, DispatchKeeps DEF PipelineTyped

-----------------------------------------------------------------------------
(* Settling. *)

LEMMA SettledRows ==
  ASSUME PipelineTyped, NEW e \in Event, NEW row \in OutboxRow \union {None}
  PROVE  /\ Settle(e, row) \in [Event -> OutboxRow \union {None}]
         /\ \A f \in Event \ {e} : Settle(e, row)[f] = outbox[f]
         /\ outbox[e] = None => Settle(e, row)[e] = None
         /\ outbox[e] # None => Settle(e, row)[e] = row
BY DEF PipelineTyped, Settle

(* What is left of the batch is as it was, after a log line or at once.     *)
LEMMA BatchShrinks ==
  ASSUME AuditInv, NEW w \in Worker, NEW e \in Event, SettleBatch(w, e)
  PROVE  /\ worker' \in [Worker -> WorkerState] /\ Delivering'
         /\ \A v \in Worker \ {w} : worker'[v] = worker[v]
         /\ e \in worker[w].todo /\ ~ At(w, "log")
         /\ ~ worker[w].failed => acked[e] = 1 .. config.sinks
<1>0. PipelineTyped /\ Delivering BY DEF AuditInv
<1>u. UNCHANGED <<config, acked>> BY DEF SettleBatch
<1> DEFINE d == worker[w]
           rest == d.todo \ {e}
           left == IF rest = {} THEN Idle ELSE [d EXCEPT !.todo = rest]
           logs == [at |-> "log", lost |-> e, then |-> left]
<1>1. d.at = "settle" /\ e \in d.todo BY DEF SettleBatch, At
<1>2. d \in SettleState BY <1>0, <1>1, WorkerShapes DEF At
<1>3. PICK next : Do(w, next) /\ (next = left \/ (d.failed /\ next = logs))
  <2>1. CASE Do(w, left) BY <2>1
  <2>2. CASE d.failed /\ Do(w, logs) BY <2>2
  <2> QED BY <2>1, <2>2, Zenon DEF SettleBatch
<1>4. left = Idle \/ (left \in SettleState /\ left.failed = d.failed /\ left.todo = rest)
  BY <1>2 DEF SettleState
<1>5. left = Idle \/ left.at = "settle" BY <1>4 DEF SettleState
<1> HIDE DEF left
<1>a. d.failed => logs \in WorkerState /\ logs.at = "log" BY <1>4 DEF WorkerState
<1> HIDE DEF logs
<1>b. next \in WorkerState BY <1>3, <1>4, <1>a DEF WorkerState
<1>6. worker' \in [Worker -> WorkerState] /\ \A v \in Worker : worker'[v] = IF v = w THEN next ELSE worker[v]
  BY <1>0, <1>3, <1>b DEF Do, PipelineTyped
<1>7. ~ d.failed => \A f \in d.todo : acked[f] = 1 .. config.sinks BY <1>0, <1>1 DEF Delivering
<1>8. rest \subseteq d.todo OBVIOUS
<1>9. Delivering'
  <2> HIDE DEF rest, d
  <2>1. CASE next.at \notin {"deliver", "settle"} BY <1>0, <1>u, <1>6, <2>1 DEF Delivering
  <2>2. CASE next.at = "settle" /\ next.failed = d.failed /\ next.todo = rest
    BY <1>0, <1>u, <1>6, <1>7, <1>8, <2>2 DEF Delivering
  <2> QED BY <1>3, <1>4, <1>5, <1>a, <2>1, <2>2 DEF Idle
<1> QED BY <1>1, <1>6, <1>7, <1>9 DEF At

(* A row that is settled for any reason but a dead letter. *)
LEMMA SettledKeeps ==
  ASSUME AuditInv, NEW w \in Worker, NEW e \in Event, SettleBatch(w, e), NEW rows,
         rows \in [Event -> OutboxRow \union {None}],
         \A f \in Event : outbox[f] = None => rows[f] = None,
         \A f \in Event : outbox[f] # None =>
            IF rows[f] = None THEN acked[f] = 1 .. config.sinks
            ELSE rows[f].dead = outbox[f].dead /\ rows[f].late = outbox[f].late,
         outbox' = Abandon(w, rows) \/ outbox' = rows, untold' = untold
  PROVE  AuditInv'
<1>0. PipelineTyped BY DEF AuditInv
<1>u. UNCHANGED <<config, op, staged, record, age, janitor, acked, reported>> BY DEF SettleBatch
<1>1. /\ worker' \in [Worker -> WorkerState] /\ Delivering' /\ ~ At(w, "log")
      /\ \A v \in Worker \ {w} : worker'[v] = worker[v]
  BY BatchShrinks
<1>2. outbox' \in [Event -> OutboxRow \union {None}]
      /\ \A f \in Event : /\ rows[f] = None => outbox'[f] = None
                          /\ rows[f] # None => /\ outbox'[f] # None /\ outbox'[f].dead = rows[f].dead
                                               /\ outbox'[f].late = rows[f].late
  BY AbandonedRows
<1> QED BY <1>0, <1>u, <1>1, <1>2, DispatchKeeps DEF PipelineTyped

(* A row that dies has its log line ahead of it, or a fault cut it off.     *)
LEMMA DeadLetterKeeps ==
  ASSUME AuditInv, NEW w \in Worker, NEW e \in Event, SettleBatch(w, e),
         outbox' = Abandon(w, MarkDeadLetter(e)) \/ outbox' = MarkDeadLetter(e),
         untold \subseteq untold', e \in Rows => e \in InHand(w)' \/ e \in untold'
  PROVE  AuditInv'
<1>0. PipelineTyped /\ Staging /\ Shedding /\ Evidence /\ Retained /\ NoSilentLoss /\ RecordOutlives
  BY DEF AuditInv
<1>u. UNCHANGED <<config, op, staged, record, age, janitor, acked, reported>> BY DEF SettleBatch
<1>1. /\ worker' \in [Worker -> WorkerState] /\ Delivering' /\ ~ At(w, "log")
      /\ \A v \in Worker \ {w} : worker'[v] = worker[v]
  BY BatchShrinks
<1>r. (\A f \in Event : AccountedFor(f) => AccountedFor(f)') /\ (e \in Rows => AccountedFor(e)')
  <2>1. \A v \in Worker : At(v, "log") => worker'[v] = worker[v] BY <1>1
  <2>2. \A v \in Worker : \A f \in InHand(v) : f \in InHand(v)' BY <1>u, <2>1, HandsKept
  <2>3. \A f \in Event : AccountedFor(f) => AccountedFor(f)' BY <1>u, <2>2, StillAccounted
  <2> QED BY <2>3 DEF AccountedFor
<1> DEFINE late == age[e] > retryWindowFor(config.maxAttempts)
           row == [outbox[e] EXCEPT !.dead = 0, !.held = None, !.owner = None, !.late = late]
<1>2. outbox[e] # None => row \in OutboxRow /\ row.dead = 0 /\ row.late = late
  <2>1. late \in BOOLEAN OBVIOUS
  <2> HIDE DEF late
  <2> QED BY <1>0, <2>1, RowOrNone DEF OutboxRow
<1>3. MarkDeadLetter(e) \in [Event -> OutboxRow \union {None}]
      /\ \A f \in Event : /\ outbox[f] = None => MarkDeadLetter(e)[f] = None
                          /\ outbox[f] # None => MarkDeadLetter(e)[f] = IF f = e THEN row ELSE outbox[f]
  <2>1. MarkDeadLetter(e) = [outbox EXCEPT ![e] = IF @ = None THEN None ELSE row]
    BY DEF MarkDeadLetter, Settle
  <2> HIDE DEF row
  <2> QED BY <1>0, <1>2, <2>1 DEF PipelineTyped
<1>4. outbox' \in [Event -> OutboxRow \union {None}]
      /\ \A f \in Event : /\ MarkDeadLetter(e)[f] = None => outbox'[f] = None
                          /\ MarkDeadLetter(e)[f] # None => /\ outbox'[f] # None
                                                            /\ outbox'[f].dead = MarkDeadLetter(e)[f].dead
                                                            /\ outbox'[f].late = MarkDeadLetter(e)[f].late
  BY <1>3, AbandonedRows
<1>5. \A f \in Event : /\ outbox[f] = None => outbox'[f] = None
                       /\ outbox[f] # None /\ f # e => /\ outbox'[f] # None /\ outbox'[f].dead = outbox[f].dead
                                                       /\ outbox'[f].late = outbox[f].late
                       /\ outbox[f] # None /\ f = e => outbox'[f] # None /\ outbox'[f].dead = 0 /\ outbox'[f].late = late
  <2> HIDE DEF row, late
  <2> QED BY <1>2, <1>3, <1>4, NoneIsNothing
<1>a. outbox[e] # None => /\ late => outbox'[e].late
                          /\ ~ late => ~ outbox'[e].late
  <2> HIDE DEF late
  <2> QED BY <1>5
<1>6. PipelineTyped' BY <1>0, <1>u, <1>1, <1>4 DEF PipelineTyped, JanitorTyped
<1>7. Staging' BY <1>0, <1>u, <1>5 DEF Staging, Reported
<1>b. Shedding'
  <2> SUFFICES ASSUME NEW v \in Worker, janitor[v].at = "dead", NEW f \in janitor[v].todo
               PROVE  op[f] \notin {"todo", "open", "recorded"} /\ (outbox'[f] # None => Dead(f)')
    BY <1>u DEF Shedding
  <2>1. f \in Event BY <1>0 DEF PipelineTyped, JanitorTyped, JanitorShape, JanitorState, Idle
  <2> QED BY <1>0, <1>5, <2>1, NoneIsNothing DEF Shedding, Dead
<1>8. Evidence'
  <2> SUFFICES ASSUME NEW f \in Rows', Dead(f)'
               PROVE  /\ AccountedFor(f)'
                      /\ config.retention > 0 /\ ~ outbox'[f].late =>
                           outbox'[f].dead > config.deadLetterTTL
                           \/ age[f] <= retryWindowFor(config.maxAttempts) + outbox'[f].dead
    BY <1>u DEF Evidence, retryWindowFor
  <2>1. f \in Event /\ outbox[f] # None BY <1>5 DEF Rows
  <2>2. CASE f = e
    <3>1. age[f] \in Nat /\ retryWindowFor(config.maxAttempts) \in Nat BY <1>0, <2>1, ConfigTyped DEF PipelineTyped
    <3> QED BY <1>r, <1>5, <1>a, <2>1, <2>2, <3>1 DEF Rows
  <2>3. CASE f # e BY <1>0, <1>r, <1>5, <2>1, <2>3 DEF Evidence, Rows, Dead
  <2> QED BY <2>2, <2>3
<1>9. RecordOutlives'
  <2> SUFFICES ASSUME NEW f \in Rows', record[f] = "deleted" PROVE f \in Expired' \/ (Dead(f)' /\ outbox'[f].late)
    BY <1>u DEF RecordOutlives
  <2>1. f \in Event /\ outbox[f] # None /\ f \in Rows BY <1>5 DEF Rows
  <2>2. CASE f # e BY <1>0, <1>u, <1>5, <2>1, <2>2 DEF RecordOutlives, Dead, Expired
  <2>3. CASE f = e
    <3>1. config.retention > 0 /\ age[e] > config.retention BY <1>0, <2>1, <2>3 DEF Retained
    <3>2. age[e] > retryWindowFor(config.maxAttempts)
      BY <1>0, <2>1, <2>3, <3>1, ConfigTyped DEF PipelineTyped, ValidateConfig
    <3> QED BY <1>5, <1>a, <2>1, <2>3, <3>2, NoneIsNothing DEF Dead
  <2> QED BY <2>2, <2>3
<1>10. RecordIffCommit' BY <1>0, <1>u, <1>5 DEF RecordIffCommit, NoSilentLoss
<1>11. NoSilentLoss' BY <1>0, <1>u, <1>r, <1>5, <1>10 DEF NoSilentLoss
<1>12. Retained' BY <1>0, <1>u DEF Retained
<1> QED BY <1>1, <1>6, <1>7, <1>b, <1>8, <1>9, <1>11, <1>12 DEF AuditInv

LEMMA SettleBatchKeeps ==
  ASSUME AuditInv, NEW w \in Worker, NEW e \in Event, SettleBatch(w, e)
  PROVE  AuditInv'
<1>0. PipelineTyped BY DEF AuditInv
<1>o. outbox \in [Event -> OutboxRow \union {None}] BY <1>0 DEF PipelineTyped
<1> DEFINE d == worker[w]
           failure == [outbox[e] EXCEPT !.wait = nextBackoff(d.attempts[e]), !.held = None, !.owner = None]
           Leave(rows) == outbox' = Abandon(w, rows) \/ outbox' = rows
           next == IF d.todo \ {e} = {} THEN Idle ELSE [d EXCEPT !.todo = d.todo \ {e}]
           logs == [at |-> "log", lost |-> e, then |-> next]
<1>1. \/ /\ Leave(MarkDeadLetter(e))
         /\ \/ Do(w, logs) /\ untold' = untold
            \/ untold' = untold \union ({e} \intersect Rows)
      \/ Leave(MarkFailure(e, d.attempts[e])) /\ untold' = untold
      \/ ~ d.failed /\ Leave(MarkSuccess(e)) /\ untold' = untold
      \/ Leave(outbox) /\ untold' = untold
  BY Zenon DEF SettleBatch
<1>2. CASE Leave(MarkDeadLetter(e)) /\ ((Do(w, logs) /\ untold' = untold) \/ untold' = untold \union ({e} \intersect Rows))
  <2>1. CASE Do(w, logs) /\ untold' = untold
    <3>1. worker'[w] = logs BY <1>0, <2>1 DEF Do, PipelineTyped
    <3>2. logs.at = "log" /\ logs.lost = e OBVIOUS
    <3> HIDE DEF logs
    <3>3. e \in InHand(w)' BY <3>1, <3>2 DEF InHand, At
    <3> QED BY <1>2, <2>1, <3>3, DeadLetterKeeps
  <2>2. CASE untold' = untold \union ({e} \intersect Rows)
    <3>1. untold \subseteq untold' /\ (e \in Rows => e \in untold') BY <2>2
    <3> QED BY <1>2, <3>1, DeadLetterKeeps
  <2> QED BY <1>2, <2>1, <2>2
<1>3. CASE Leave(MarkFailure(e, d.attempts[e])) /\ untold' = untold
  <2>1. MarkFailure(e, d.attempts[e]) = [outbox EXCEPT ![e] = IF @ = None THEN None ELSE failure] BY DEF MarkFailure, Settle
  <2>2. outbox[e] # None => failure \in OutboxRow /\ failure.dead = outbox[e].dead /\ failure.late = outbox[e].late
    <3>1. nextBackoff(d.attempts[e]) \in Nat BY DEF nextBackoff
    <3> QED BY <1>0, <3>1, RowOrNone DEF OutboxRow
  <2> HIDE DEF failure
  <2>3. /\ MarkFailure(e, d.attempts[e]) \in [Event -> OutboxRow \union {None}]
        /\ \A f \in Event : outbox[f] = None => MarkFailure(e, d.attempts[e])[f] = None
        /\ \A f \in Event : outbox[f] # None =>
              IF MarkFailure(e, d.attempts[e])[f] = None THEN acked[f] = 1 .. config.sinks
              ELSE /\ MarkFailure(e, d.attempts[e])[f].dead = outbox[f].dead
                   /\ MarkFailure(e, d.attempts[e])[f].late = outbox[f].late
    BY <1>o, <2>1, <2>2, NoneIsNothing
  <2> QED BY <1>3, <2>3, SettledKeeps
<1>4. CASE ~ d.failed /\ Leave(MarkSuccess(e)) /\ untold' = untold
  <2>1. acked[e] = 1 .. config.sinks BY <1>4, BatchShrinks
  <2>2. MarkSuccess(e) = [outbox EXCEPT ![e] = None] BY DEF MarkSuccess, Settle
  <2>3. /\ MarkSuccess(e) \in [Event -> OutboxRow \union {None}]
        /\ \A f \in Event : outbox[f] = None => MarkSuccess(e)[f] = None
        /\ \A f \in Event : outbox[f] # None =>
              IF MarkSuccess(e)[f] = None THEN acked[f] = 1 .. config.sinks
              ELSE /\ MarkSuccess(e)[f].dead = outbox[f].dead
                   /\ MarkSuccess(e)[f].late = outbox[f].late
    BY <1>o, <2>1, <2>2
  <2> QED BY <1>4, <2>3, SettledKeeps
<1>5. CASE Leave(outbox) /\ untold' = untold BY <1>o, <1>5, SettledKeeps
<1> QED BY <1>1, <1>2, <1>3, <1>4, <1>5

(* The log line that follows a dead letter.  The batch it returns to has    *)
(* failed.                                                                  *)
LEMMA LogDeadLetterKeeps ==
  ASSUME AuditInv, NEW w \in Worker, LogDeadLetter(w)
  PROVE  AuditInv'
<1>0. PipelineTyped /\ Delivering /\ Shedding BY DEF AuditInv
<1>u. UNCHANGED <<config, op, staged, record, outbox, age, janitor, acked, untold>> /\ At(w, "log")
  BY DEF LogDeadLetter
<1>a. PICK e \in Event : e = worker[w].lost BY <1>0, <1>u, WorkerShapes
<1>b. PICK next : next = worker[w].then OBVIOUS
<1>1. next = Idle \/ (next \in SettleState /\ next.failed) BY <1>0, <1>u, <1>b, WorkerShapes
<1>2. Do(w, next) /\ Report("dead_lettered", e) BY <1>a, <1>b DEF LogDeadLetter
<1>e. InHand(w) \subseteq {e} \union InHand(w)'
  BY <1>u, <1>a DEF InHand
<1>3. next \in WorkerState /\ (next.at \in {"deliver", "settle"} => next.at = "settle" /\ next.failed)
  BY <1>1 DEF WorkerState, SettleState, Idle
<1>4. worker' \in [Worker -> WorkerState] /\ Delivering' /\ \A v \in Worker \ {w} : worker'[v] = worker[v]
  BY <1>0, <1>u, <1>2, <1>3, WorkerMoves
<1>5. PipelineTyped' BY <1>0, <1>u, <1>4 DEF PipelineTyped, JanitorTyped
<1>6. reported \subseteq reported' /\ Reported(e)'
  <2>1. reported \subseteq reported' /\ <<"dead_lettered", e>> \in reported' BY <1>2 DEF Report
  <2>2. <<"dead_lettered", e>>[2] = e OBVIOUS
  <2> QED BY <2>1, <2>2, Zenon DEF Reported
<1>7. \A v \in Worker : \A f \in InHand(v) : f \in InHand(v)' \/ f \in untold' \/ Reported(f)'
  <2>1. \A v \in Worker \ {w} : \A f \in InHand(v) : f \in InHand(v)' BY <1>u, <1>4 DEF InHand, At
  <2>2. ASSUME NEW f, f \in InHand(w) PROVE f \in InHand(w)' \/ Reported(f)'
    <3>1. CASE f = e BY <1>6, <3>1
    <3>2. CASE f # e BY <1>e, <2>2, <3>2
    <3> QED BY <3>1, <3>2
  <2> QED BY <2>1, <2>2
<1>8. \A f \in Event : AccountedFor(f) => AccountedFor(f)' BY <1>u, <1>6, <1>7, StillAccounted
<1>9. \A v \in Worker : janitor'[v].at = "dead" =>
         \A f \in janitor'[v].todo : op[f] \notin {"todo", "open", "recorded"} /\ (outbox[f] # None => Dead(f))
  BY <1>0, <1>u DEF Shedding
<1> QED BY <1>u, <1>4, <1>5, <1>6, <1>8, <1>9, RowsKept

LEMMA CrashKeeps ==
  ASSUME AuditInv, NEW w \in Worker, Crash(w)
  PROVE  AuditInv'
<1>0. PipelineTyped /\ Delivering /\ Shedding BY DEF AuditInv
<1>u. /\ UNCHANGED <<config, op, staged, record, age, acked, reported>> /\ Do(w, Idle) /\ outbox' = Abandon(w, outbox)
      /\ janitor' = [janitor EXCEPT ![w] = Idle] /\ untold' = untold \union InHand(w)
  BY DEF Crash
<1>1. worker' \in [Worker -> WorkerState] /\ Delivering' /\ \A v \in Worker \ {w} : worker'[v] = worker[v]
  BY <1>0, <1>u, WorkerMoves DEF Idle, WorkerState
<1>j. \A v \in Worker : janitor'[v] = IF v = w THEN Idle ELSE janitor[v] BY <1>0, <1>u DEF PipelineTyped, JanitorTyped
<1>t. JanitorTyped'
  <2>1. janitor' = [v \in Worker |-> janitor'[v]] BY <1>0, <1>u DEF PipelineTyped, JanitorTyped
  <2>2. JanitorShape(Idle) BY DEF JanitorShape, JanitorState
  <2> QED BY <1>0, <1>j, <2>1, <2>2 DEF PipelineTyped, JanitorTyped
<1>2. PipelineTyped' BY <1>0, <1>1, <1>t, <1>u, AbandonedRows DEF PipelineTyped
<1>3. \A v \in Worker : \A f \in InHand(v) : f \in InHand(v)' \/ f \in untold' \/ Reported(f)'
  <2>1. \A v \in Worker \ {w} : InHand(v)' = InHand(v) BY <1>1, <1>j DEF InHand, At
  <2> QED BY <1>u, <2>1
<1>4. \A f \in Event : AccountedFor(f) => AccountedFor(f)' BY <1>u, <1>3, StillAccounted
<1>5. \A v \in Worker : janitor'[v].at = "dead" =>
         \A f \in janitor'[v].todo : op[f] \notin {"todo", "open", "recorded"} /\ (outbox[f] # None => Dead(f))
  BY <1>0, <1>j DEF Shedding, Idle
<1>6. \A f \in Event : /\ outbox[f] = None => outbox'[f] = None
                       /\ outbox[f] # None => /\ outbox'[f] # None /\ outbox'[f].dead = outbox[f].dead
                                              /\ outbox'[f].late = outbox[f].late
  BY <1>0, <1>u, AbandonedRows DEF PipelineTyped
<1> QED BY <1>1, <1>2, <1>4, <1>5, <1>6, <1>u, RowsKept

-----------------------------------------------------------------------------
(* Janitors. *)

Held(j, e) == j.at \in {"drop", "orphans"} /\ e \in j.lost

(* A janitor loses nothing it has in hand, and what it removes is a dead    *)
(* letter, in its hand, or cut off by a fault.                              *)
LEMMA JanitorKeeps ==
  ASSUME AuditInv, NEW w \in Worker, UNCHANGED <<config, op, staged, record, age, worker, acked>>,
         NEW next, JanitorShape(next), Turn(w, next),
         NEW rows \in SUBSET Event, outbox' = outbox \/ Drop(rows),
         reported \subseteq reported', untold \subseteq untold',
         \A e : Held(janitor[w], e) => Held(next, e) \/ e \in untold' \/ Reported(e)',
         next.at = "dead" =>
           \A e \in next.todo : op[e] \notin {"todo", "open", "recorded"} /\ (outbox[e] # None => Dead(e)),
         \A e \in rows \intersect Rows : outbox' = outbox \/ Dead(e) \/ Held(next, e) \/ e \in untold'
  PROVE  AuditInv'
<1>0. PipelineTyped /\ Delivering /\ Shedding /\ Evidence BY DEF AuditInv
<1>1. \A v \in Worker : janitor'[v] = IF v = w THEN next ELSE janitor[v]
  BY <1>0 DEF PipelineTyped, JanitorTyped, Turn
<1>2. JanitorTyped'
  <2>1. janitor' = [v \in Worker |-> janitor'[v]] BY <1>0 DEF PipelineTyped, JanitorTyped, Turn
  <2> QED BY <1>0, <1>1, <2>1 DEF PipelineTyped, JanitorTyped
<1>3. \A e \in Event : outbox'[e] = IF outbox' # outbox /\ e \in rows THEN None ELSE outbox[e] BY DEF Drop
<1>4. outbox' \in [Event -> OutboxRow \union {None}] BY <1>0 DEF PipelineTyped, Drop
<1>5. PipelineTyped' /\ Delivering' BY <1>0, <1>2, <1>4 DEF PipelineTyped, Delivering
<1>6. \A v \in Worker : \A e \in InHand(v) : e \in InHand(v)' \/ e \in untold' \/ Reported(e)'
  <2>1. \A v \in Worker \ {w} : InHand(v)' = InHand(v) BY <1>1 DEF InHand, At
  <2>2. \A e \in InHand(w) : e \in InHand(w)' \/ e \in untold' \/ Reported(e)'
    <3> TAKE e \in InHand(w)
    <3>1. CASE At(w, "log") /\ e = worker[w].lost BY <3>1 DEF InHand, At
    <3>2. CASE Held(janitor[w], e) BY <1>1, <3>2 DEF Held, InHand
    <3> QED BY <3>1, <3>2 DEF InHand, Held
  <2> QED BY <2>1, <2>2
<1>7. \A e \in Event : AccountedFor(e) => AccountedFor(e)' BY <1>6, StillAccounted
<1>8. \A v \in Worker : janitor'[v].at = "dead" =>
         \A e \in janitor'[v].todo : op[e] \notin {"todo", "open", "recorded"} /\ (outbox[e] # None => Dead(e))
  BY <1>0, <1>1 DEF Shedding
<1>9. \A e \in Event : outbox[e] # None /\ outbox'[e] = None => AccountedFor(e)'
  <2> SUFFICES ASSUME NEW e \in Event, outbox[e] # None, outbox'[e] = None PROVE AccountedFor(e)' OBVIOUS
  <2>1. e \in Rows /\ (Dead(e) \/ Held(next, e) \/ e \in untold') BY <1>3 DEF Rows
  <2>2. CASE Dead(e) BY <1>0, <1>7, <2>1, <2>2 DEF Evidence
  <2>3. CASE Held(next, e)
    <3>1. e \in InHand(w)' BY <1>1, <2>3 DEF InHand, Held
    <3> QED BY <3>1 DEF AccountedFor
  <2>4. CASE e \in untold' BY <2>4 DEF AccountedFor
  <2> QED BY <2>1, <2>2, <2>3, <2>4
<1>10. \A e \in Event : outbox[e] = None => outbox'[e] = None BY <1>3
<1>11. \A e \in Event : outbox[e] # None =>
          IF outbox'[e] = None THEN acked[e] = 1 .. config.sinks \/ AccountedFor(e)'
          ELSE outbox'[e].dead = outbox[e].dead /\ outbox'[e].late = outbox[e].late
  BY <1>3, <1>9
<1> QED BY <1>5, <1>7, <1>8, <1>10, <1>11, RowsKept

LEMMA FailedDrops ==
  ASSUME NEW rows, NEW lost, FailedDrop(rows, lost)
  PROVE  /\ outbox' = outbox \/ Drop(rows)
         /\ untold \subseteq untold' /\ lost \subseteq untold'
         /\ \A e \in rows \intersect Rows : outbox' = outbox \/ Dead(e) \/ e \in untold'
BY DEF FailedDrop

(* A janitor that only reads.                                               *)
LEMMA JanitorReads ==
  ASSUME AuditInv, NEW w \in Worker, UNCHANGED <<config, op, staged, record, outbox, age, worker, acked, reported, untold>>,
         NEW next, JanitorShape(next), Turn(w, next), janitor[w].at \notin {"drop", "orphans"},
         next.at = "dead" =>
           \A e \in next.todo : op[e] \notin {"todo", "open", "recorded"} /\ (outbox[e] # None => Dead(e))
  PROVE  AuditInv'
<1> DEFINE none == {}
<1>1. none \in SUBSET Event /\ none \intersect Rows = {} OBVIOUS
<1>2. \A e : ~ Held(janitor[w], e) BY DEF Held
<1> HIDE DEF none
<1> QED BY <1>1, <1>2, JanitorKeeps

LEMMA JanitorAt ==
  ASSUME AuditInv, NEW w \in Worker
  PROVE  /\ janitor[w].at = "sweep" => janitor[w] \in [at : {"sweep"}, todo : SUBSET Event, pending : SUBSET Event]
         /\ janitor[w].at \in {"drop", "orphans"} =>
              janitor[w] \in [at : {"drop", "orphans"}, todo : SUBSET Event, lost : SUBSET Event]
         /\ janitor[w].at = "dead" =>
              janitor[w] = [at |-> "dead", todo |-> janitor[w].todo, n |-> janitor[w].n] /\ janitor[w].todo \subseteq Event
BY DEF AuditInv, PipelineTyped, JanitorTyped, JanitorShape, JanitorState, Idle

LEMMA CountExpiredKeeps ==
  ASSUME AuditInv, NEW w \in Worker, CountExpired(w)
  PROVE  AuditInv'
<1> DEFINE next == [at |-> "sweep", todo |-> Expired, pending |-> {e \in Expired : ~ Dead(e)}]
<1>1. Expired \subseteq Event BY DEF Expired, Rows
<1>2. JanitorShape(next) /\ next.at # "dead" BY <1>1 DEF JanitorShape, JanitorState
<1>3. Turn(w, next) /\ janitor[w].at \notin {"drop", "orphans"} BY DEF CountExpired, Rests, Idle
<1>4. UNCHANGED <<config, op, staged, record, outbox, age, worker, acked, reported, untold>> BY DEF CountExpired
<1> HIDE DEF next
<1> QED BY <1>2, <1>3, <1>4, JanitorReads

LEMMA SweepExpiredKeeps ==
  ASSUME AuditInv, NEW w \in Worker, SweepExpired(w)
  PROVE  AuditInv'
<1> DEFINE j == janitor[w]
           swept == {e \in j.todo \intersect Expired : Dead(e) <=> e \notin j.pending}
           next == [at |-> "drop", todo |-> {}, lost |-> j.pending]
<1>u. UNCHANGED <<config, op, staged, record, age, worker, acked, reported>> BY DEF SweepExpired
<1>1. j.at = "sweep" /\ j.pending \subseteq Event BY JanitorAt DEF SweepExpired
<1>2. swept \in SUBSET Event BY DEF Expired, Rows
<1>3. \A e \in swept : Dead(e) \/ e \in j.pending OBVIOUS
<1>4. \A e : ~ Held(j, e) BY <1>1 DEF Held
<1>5. JanitorShape(Idle) /\ Idle.at # "dead" BY DEF JanitorShape, JanitorState, Idle
<1>6. JanitorShape(next) /\ next.at # "dead" /\ \A e \in j.pending : Held(next, e)
  BY <1>1 DEF JanitorShape, JanitorState, Held
<1>7. \/ Drop(swept) /\ untold' = untold /\ Turn(w, next)
      \/ FailedDrop(swept, {}) /\ Turn(w, Idle)
  BY DEF SweepExpired
<1> HIDE DEF j, swept, next
<1>8. CASE Drop(swept) /\ untold' = untold /\ Turn(w, next)
  BY <1>u, <1>2, <1>3, <1>4, <1>6, <1>8, JanitorKeeps DEF j
<1>9. CASE FailedDrop(swept, {}) /\ Turn(w, Idle)
  BY <1>u, <1>2, <1>4, <1>5, <1>9, FailedDrops, JanitorKeeps DEF j
<1> QED BY <1>7, <1>8, <1>9

LEMMA CountTotalKeeps ==
  ASSUME AuditInv, NEW w \in Worker, CountTotal(w)
  PROVE  AuditInv'
<1> DEFINE next == [at |-> "overflow", n |-> Cardinality(Rows) - config.maxRows]
<1>1. JanitorShape(next) /\ next.at # "dead" BY DEF JanitorShape
<1>2. Turn(w, next) /\ janitor[w].at \notin {"drop", "orphans"} BY DEF CountTotal, Rests, Idle
<1>3. UNCHANGED <<config, op, staged, record, outbox, age, worker, acked, reported, untold>> BY DEF CountTotal
<1> HIDE DEF next
<1> QED BY <1>1, <1>2, <1>3, JanitorReads

(* What stands in the outbox was committed, so its operation has ended.     *)
LEMMA SelectDeadKeeps ==
  ASSUME AuditInv, NEW w \in Worker, SelectDead(w)
  PROVE  AuditInv'
<1>1. PICK s \in Oldest({e \in Rows : Dead(e)}, [e \in Rows |-> outbox[e].dead], janitor[w].n) :
        Turn(w, [at |-> "dead", todo |-> s, n |-> janitor[w].n])
  BY DEF SelectDead
<1> DEFINE next == [at |-> "dead", todo |-> s, n |-> janitor[w].n]
<1>2. s \subseteq Event /\ \A e \in s : e \in Rows /\ Dead(e) BY DEF Oldest, Rows
<1>3. \A e \in Rows : op[e] \notin {"todo", "open", "recorded"}
  BY DEF AuditInv, Staging, NoSilentLoss, RecordIffCommit, Rows
<1>4. JanitorShape(next) /\ next.todo = s BY <1>2 DEF JanitorShape
<1>5. Turn(w, next) /\ janitor[w].at \notin {"drop", "orphans"} BY <1>1 DEF SelectDead
<1>6. UNCHANGED <<config, op, staged, record, outbox, age, worker, acked, reported, untold>> BY DEF SelectDead
<1> HIDE DEF next
<1> QED BY <1>2, <1>3, <1>4, <1>5, <1>6, JanitorReads

LEMMA EvictDeadKeeps ==
  ASSUME AuditInv, NEW w \in Worker, NEW e \in Event, EvictDead(w, e)
  PROVE  AuditInv'
<1> DEFINE j == janitor[w]
           next == [at |-> "dead", todo |-> j.todo \ {e}, n |-> IF e \in Rows THEN j.n - 1 ELSE j.n]
           rows == {e}
<1>u. UNCHANGED <<config, op, staged, record, age, worker, acked, reported>> BY DEF EvictDead
<1>1. j.at = "dead" /\ e \in j.todo /\ j = [at |-> "dead", todo |-> j.todo, n |-> j.n] /\ j.todo \subseteq Event
  BY JanitorAt DEF EvictDead
<1>2. \A f \in j.todo : op[f] \notin {"todo", "open", "recorded"} /\ (outbox[f] # None => Dead(f))
  BY <1>1 DEF AuditInv, Shedding
<1>3. JanitorShape(next) /\ next.todo \subseteq j.todo BY <1>1 DEF JanitorShape
<1>4. \/ Drop(rows) /\ untold' = untold /\ Turn(w, next)
      \/ FailedDrop(rows, {}) /\ Turn(w, Idle)
  BY DEF EvictDead
<1>5. rows \in SUBSET Event /\ \A f \in rows \intersect Rows : Dead(f) BY <1>1, <1>2 DEF Rows
<1>6. \A f : ~ Held(j, f) BY <1>1 DEF Held
<1>7. JanitorShape(Idle) /\ Idle.at # "dead" BY DEF JanitorShape, JanitorState, Idle
<1> HIDE DEF next, rows, j
<1>8. CASE Drop(rows) /\ untold' = untold /\ Turn(w, next)
  BY <1>u, <1>2, <1>3, <1>5, <1>6, <1>8, JanitorKeeps DEF j
<1>9. CASE FailedDrop(rows, {}) /\ Turn(w, Idle)
  BY <1>u, <1>5, <1>6, <1>7, <1>9, FailedDrops, JanitorKeeps DEF j
<1> QED BY <1>4, <1>8, <1>9

LEMMA SelectOldestKeeps ==
  ASSUME AuditInv, NEW w \in Worker, SelectOldest(w)
  PROVE  AuditInv'
<1>u. UNCHANGED <<config, op, staged, record, outbox, age, worker, acked, reported, untold>> BY DEF SelectOldest
<1>1. janitor[w].at \notin {"drop", "orphans"} BY DEF SelectOldest
<1>2. CASE Turn(w, Idle)
  <2>1. JanitorShape(Idle) /\ Idle.at # "dead" BY DEF JanitorShape, JanitorState, Idle
  <2> QED BY <1>u, <1>1, <1>2, <2>1, JanitorReads
<1>3. ASSUME NEW s \in Oldest(Rows, age, janitor[w].n), Turn(w, [at |-> "drop", todo |-> s, lost |-> {}])
      PROVE  AuditInv'
  <2> DEFINE next == [at |-> "drop", todo |-> s, lost |-> {}]
  <2>1. s \subseteq Event BY DEF Oldest, Rows
  <2>2. JanitorShape(next) /\ next.at # "dead" BY <2>1 DEF JanitorShape, JanitorState
  <2>3. Turn(w, next) BY <1>3
  <2> HIDE DEF next
  <2> QED BY <1>u, <1>1, <2>2, <2>3, JanitorReads
<1> QED BY <1>2, <1>3 DEF SelectOldest

LEMMA EvictOldestKeeps ==
  ASSUME AuditInv, NEW w \in Worker, NEW e \in Event, EvictOldest(w, e)
  PROVE  AuditInv'
<1> DEFINE j == janitor[w]
           shed == [j EXCEPT !.todo = @ \ {e}, !.lost = @ \union ({e} \intersect Rows)]
           stop == [j EXCEPT !.todo = {}]
           rows == {e}
<1>u. UNCHANGED <<config, op, staged, record, age, worker, acked, reported>> BY DEF EvictOldest
<1>1. j.at = "drop" /\ j \in [at : {"drop", "orphans"}, todo : SUBSET Event, lost : SUBSET Event]
  BY JanitorAt DEF EvictOldest
<1>2. JanitorShape(shed) /\ shed.at = "drop" /\ shed.lost = j.lost \union ({e} \intersect Rows)
  BY <1>1 DEF JanitorShape, JanitorState
<1>3. JanitorShape(stop) /\ stop.at = "drop" /\ stop.lost = j.lost BY <1>1 DEF JanitorShape, JanitorState
<1>4. \/ Drop(rows) /\ untold' = untold /\ Turn(w, shed)
      \/ FailedDrop(rows, {}) /\ Turn(w, stop)
  BY DEF EvictOldest
<1>5. rows \in SUBSET Event OBVIOUS
<1>6. /\ \A f : Held(j, f) => Held(shed, f) /\ Held(stop, f)
      /\ \A f \in rows \intersect Rows : Held(shed, f)
  BY <1>2, <1>3 DEF Held
<1> HIDE DEF shed, stop, rows, j
<1>7. CASE Drop(rows) /\ untold' = untold /\ Turn(w, shed)
  BY <1>u, <1>2, <1>5, <1>6, <1>7, JanitorKeeps DEF j
<1>8. CASE FailedDrop(rows, {}) /\ Turn(w, stop)
  BY <1>u, <1>3, <1>5, <1>6, <1>8, FailedDrops, JanitorKeeps DEF j
<1> QED BY <1>4, <1>7, <1>8

LEMMA SelectOrphansKeeps ==
  ASSUME AuditInv, NEW w \in Worker, SelectOrphans(w)
  PROVE  AuditInv'
<1> DEFINE orphans == {e \in Rows : record[e] # "kept"}
           next == [at |-> "orphans", todo |-> orphans, lost |-> {}]
<1>1. orphans \subseteq Event BY DEF Rows
<1>2. JanitorShape(next) /\ next.at # "dead" BY <1>1 DEF JanitorShape, JanitorState
<1>3. Turn(w, next) /\ janitor[w].at \notin {"drop", "orphans"} BY DEF SelectOrphans, Rests, Idle
<1>4. UNCHANGED <<config, op, staged, record, outbox, age, worker, acked, reported, untold>> BY DEF SelectOrphans
<1> HIDE DEF next
<1> QED BY <1>2, <1>3, <1>4, JanitorReads

LEMMA PurgeOrphansKeeps ==
  ASSUME AuditInv, NEW w \in Worker, NEW e \in Event, PurgeOrphans(w, e)
  PROVE  AuditInv'
<1> DEFINE j == janitor[w]
           next == [j EXCEPT !.todo = @ \ {e}, !.lost = @ \union {e}]
           rows == {e}
<1>u. UNCHANGED <<config, op, staged, record, age, worker, acked, reported>> BY DEF PurgeOrphans
<1>1. j.at = "orphans" /\ j \in [at : {"drop", "orphans"}, todo : SUBSET Event, lost : SUBSET Event]
  BY JanitorAt DEF PurgeOrphans
<1>2. JanitorShape(next) /\ next.at = "orphans" /\ next.lost = j.lost \union {e}
  BY <1>1 DEF JanitorShape, JanitorState
<1>3. JanitorShape(Idle) /\ Idle.at # "dead" BY DEF JanitorShape, JanitorState, Idle
<1>4. \/ Drop(rows) /\ untold' = untold /\ Turn(w, next)
      \/ FailedDrop(rows, j.lost) /\ Turn(w, Idle)
  BY DEF PurgeOrphans
<1>5. rows \in SUBSET Event OBVIOUS
<1>6. /\ \A f : Held(j, f) => Held(next, f) /\ f \in j.lost
      /\ \A f \in rows \intersect Rows : Held(next, f)
  BY <1>2 DEF Held
<1> HIDE DEF next, rows, j
<1>7. CASE Drop(rows) /\ untold' = untold /\ Turn(w, next)
  BY <1>u, <1>2, <1>5, <1>6, <1>7, JanitorKeeps DEF j
<1>8. CASE FailedDrop(rows, j.lost) /\ Turn(w, Idle)
  <2>1. /\ outbox' = outbox \/ Drop(rows)
        /\ untold \subseteq untold' /\ j.lost \subseteq untold'
        /\ \A f \in rows \intersect Rows : outbox' = outbox \/ Dead(f) \/ f \in untold'
    BY <1>8, FailedDrops
  <2>2. \A f : Held(j, f) => f \in untold' BY <1>6, <2>1
  <2> QED BY <1>u, <1>3, <1>5, <1>8, <2>1, <2>2, JanitorKeeps DEF j
<1> QED BY <1>4, <1>7, <1>8

LEMMA LogLossesKeeps ==
  ASSUME AuditInv, NEW w \in Worker, LogLosses(w)
  PROVE  AuditInv'
<1> DEFINE j == janitor[w]
           marker == [drop |-> "delivery_dropped", orphans |-> "delivery_orphaned"][j.at]
           none == {}
<1>u. UNCHANGED <<config, op, staged, record, outbox, age, worker, acked, untold>> /\ Turn(w, Idle) BY DEF LogLosses
<1>1. reported' = reported \union {<<marker, e>> : e \in j.lost} BY DEF LogLosses
<1>2. reported \subseteq reported' /\ \A e : Held(j, e) => Reported(e)'
  <2> HIDE DEF marker, j
  <2> SUFFICES ASSUME NEW e, Held(j, e) PROVE Reported(e)' BY <1>1
  <2>1. <<marker, e>> \in reported' BY <1>1 DEF Held
  <2>2. <<marker, e>>[2] = e OBVIOUS
  <2> QED BY <2>1, <2>2, Zenon DEF Reported
<1>3. JanitorShape(Idle) /\ Idle.at # "dead" BY DEF JanitorShape, JanitorState, Idle
<1>4. none \in SUBSET Event /\ none \intersect Rows = {} OBVIOUS
<1> HIDE DEF marker, none
<1> QED BY <1>u, <1>2, <1>3, <1>4, JanitorKeeps

-----------------------------------------------------------------------------
(* Retention. *)

(* A row whose record retention takes is past its own clock, which is the   *)
(* shorter one, or a dead letter that died after the window.                *)
LEMMA CleanupKeeps ==
  ASSUME AuditInv, Cleanup
  PROVE  AuditInv'
<1>0. /\ PipelineTyped /\ Staging /\ Delivering /\ Shedding /\ Evidence
      /\ Retained /\ NoSilentLoss /\ RecordOutlives
  BY DEF AuditInv
<1>u. UNCHANGED <<config, op, staged, outbox, age, reported, worker, janitor, acked, untold>> BY DEF Cleanup, queue
<1>a. \A e \in Event : AccountedFor(e)' <=> AccountedFor(e) BY <1>u DEF AccountedFor, InHand, At
<1>1. /\ config.retention > 0
      /\ record' = [e \in Event |-> IF record[e] = "kept" /\ age[e] > config.retention THEN "deleted" ELSE record[e]]
  BY DEF Cleanup
<1>2. \A e \in Event : \/ record'[e] = record[e]
                       \/ record[e] = "kept" /\ age[e] > config.retention /\ record'[e] = "deleted"
  BY <1>1
<1>3. PipelineTyped' BY <1>0, <1>1, <1>u DEF PipelineTyped, JanitorTyped
<1>4. Staging'
  <2>1. \A e \in Event : op[e] = "recorded" => record'[e] = "kept"
    <3> SUFFICES ASSUME NEW e \in Event, op[e] = "recorded" PROVE record'[e] = "kept" OBVIOUS
    <3>1. record[e] = "kept" /\ age[e] = 0 BY <1>0 DEF Staging
    <3> QED BY <1>0, <1>2, <3>1, ConfigTyped
  <2> QED BY <1>0, <1>u, <2>1 DEF Staging, Reported
<1>5. Delivering' BY <1>0, <1>u DEF Delivering
<1>6. Evidence' BY <1>0, <1>a, <1>u DEF Evidence, Rows, Dead, retryWindowFor
<1>b. Shedding' BY <1>0, <1>u DEF Shedding, Dead
<1>7. Retained' BY <1>0, <1>1, <1>2, <1>u DEF Retained
<1>8. RecordOutlives'
  <2> SUFFICES ASSUME NEW e \in Rows, record'[e] = "deleted" PROVE e \in Expired \/ (Dead(e) /\ outbox[e].late)
    BY <1>u DEF RecordOutlives, Rows, Dead, Expired
  <2>0. e \in Event BY DEF Rows
  <2>1. CASE record[e] = "deleted" BY <1>0, <2>1 DEF RecordOutlives
  <2>2. CASE age[e] > config.retention
    <3>1. config.outboxMaxAge > 0 /\ config.deadLetterTTL > 0 /\ config.outboxMaxAge < config.retention
          /\ retryWindowFor(config.maxAttempts) + config.deadLetterTTL < config.retention
      BY <1>0, <1>1 DEF PipelineTyped, ValidateConfig
    <3>2. age[e] \in Nat /\ outbox[e] \in OutboxRow BY <1>0, <2>0, RowOrNone DEF PipelineTyped, Rows
    <3>3. CASE ~ Dead(e)
      <4>1. age[e] > config.outboxMaxAge BY <1>0, <2>2, <3>1, <3>2, ConfigTyped
      <4> QED BY <3>1, <3>3, <4>1 DEF Expired
    <3>4. CASE Dead(e) /\ ~ outbox[e].late
      <4>1. outbox[e].dead > config.deadLetterTTL \/ age[e] <= retryWindowFor(config.maxAttempts) + outbox[e].dead
        BY <1>0, <1>1, <3>4 DEF Evidence
      <4>2. outbox[e].dead \in Nat BY <3>2, <3>4 DEF Dead, OutboxRow
      <4>3. outbox[e].dead > config.deadLetterTTL BY <1>0, <2>2, <3>1, <3>2, <4>1, <4>2, ConfigTyped
      <4> QED BY <3>1, <3>4, <4>3 DEF Expired
    <3> QED BY <3>3, <3>4
  <2> QED BY <1>2, <2>0, <2>1, <2>2
<1>9. RecordIffCommit' BY <1>0, <1>2, <1>u DEF RecordIffCommit, NoSilentLoss
<1>10. NoSilentLoss' BY <1>0, <1>9, <1>a, <1>u DEF NoSilentLoss
<1> QED BY <1>3, <1>4, <1>5, <1>b, <1>6, <1>7, <1>8, <1>10 DEF AuditInv

-----------------------------------------------------------------------------
(* Time. *)

LEMMA TickedRows ==
  ASSUME PipelineTyped, Tick
  PROVE  /\ outbox' \in [Event -> OutboxRow \union {None}]
         /\ \A e \in Event : outbox[e] = None <=> outbox'[e] = None
         /\ \A e \in Rows : /\ outbox'[e].late = outbox[e].late
                            /\ outbox[e].dead = None <=> outbox'[e].dead = None
                            /\ outbox[e].dead # None /\ config.deadLetterTTL > 0 =>
                                 outbox'[e].dead = Older(outbox[e].dead, config.deadLetterTTL + 1)
<1> DEFINE wait(r) == IF r.wait = 0 THEN 0 ELSE r.wait - 1
           held(r) == IF r.held = None THEN None ELSE Older(r.held, config.lease + 1)
           dead(r) == IF r.dead = None \/ config.deadLetterTTL = 0 THEN r.dead
                      ELSE Older(r.dead, config.deadLetterTTL + 1)
           older(r) == [r EXCEPT !.wait = wait(r), !.held = held(r), !.dead = dead(r)]
<1>1. outbox' = [e \in Event |-> IF outbox[e] = None THEN None ELSE older(outbox[e])] BY DEF Tick
<1>2. ASSUME NEW r \in OutboxRow
      PROVE  wait(r) \in Nat /\ held(r) \in Nat \union {None} /\ dead(r) \in Nat \union {None} /\ (r.dead = None <=> dead(r) = None)
  BY ConfigTyped, NoneIsNothing DEF OutboxRow, Older, Least
<1>3. ASSUME NEW r \in OutboxRow
      PROVE  older(r) \in OutboxRow /\ older(r).late = r.late /\ older(r).dead = dead(r)
  <2> HIDE DEF wait, held, dead
  <2> QED BY <1>2 DEF OutboxRow
<1>4. ASSUME NEW r \in OutboxRow, r.dead # None, config.deadLetterTTL > 0
      PROVE  dead(r) = Older(r.dead, config.deadLetterTTL + 1)
  BY <1>4, ConfigTyped
<1> HIDE DEF older, dead
<1>5. \A e \in Event : outbox[e] = None \/ outbox[e] \in OutboxRow BY DEF PipelineTyped
<1> QED BY <1>1, <1>2, <1>3, <1>4, <1>5, NoneIsNothing DEF Rows

LEMMA TickKeeps ==
  ASSUME AuditInv, Tick
  PROVE  AuditInv'
<1>0. /\ PipelineTyped /\ Staging /\ Delivering /\ Shedding /\ Evidence
      /\ Retained /\ NoSilentLoss /\ RecordOutlives
  BY DEF AuditInv
<1>u. UNCHANGED <<config, op, staged, record, reported, worker, janitor, acked, untold>> BY DEF Tick, queue
<1>a. \A e \in Event : AccountedFor(e)' <=> AccountedFor(e) BY <1>u DEF AccountedFor, InHand, At
<1>1. /\ age' \in [Event -> Nat]
      /\ \A e \in Event : /\ age[e] <= age'[e] \/ (config.retention > 0 => age'[e] > config.retention)
                          /\ age'[e] <= age[e] + 1
                          /\ op[e] \in {"todo", "open", "recorded"} => age'[e] = age[e]
  <2> DEFINE L == 1 + IF config.retention > 0 THEN config.retention ELSE config.outboxMaxAge
  <2>1. L \in Nat /\ (config.retention > 0 => L > config.retention) BY <1>0, ConfigTyped
  <2>2. age' = [e \in Event |-> IF op[e] \in {"todo", "open", "recorded"} \/ config.outboxMaxAge = 0 THEN age[e]
                               ELSE Older(age[e], L)]
    BY DEF Tick
  <2> HIDE DEF L
  <2>3. \A a \in Nat : /\ Older(a, L) \in Nat /\ Older(a, L) <= a + 1
                       /\ a <= Older(a, L) \/ (config.retention > 0 => Older(a, L) > config.retention)
    BY <1>0, <2>1, ConfigTyped DEF Older, Least
  <2>4. \A e \in Event : age[e] \in Nat /\ age[e] <= age[e] + 1 BY <1>0 DEF PipelineTyped
  <2> QED BY <2>2, <2>3, <2>4
<1>2. PipelineTyped' BY <1>0, <1>1, <1>u, TickedRows DEF PipelineTyped, JanitorTyped
<1>3. \A e \in Event : outbox[e] = None <=> outbox'[e] = None BY <1>0, TickedRows
<1>4. Staging' BY <1>0, <1>1, <1>3, <1>u DEF Staging, Reported
<1>5. Delivering' BY <1>0, <1>u DEF Delivering
<1>6. Evidence'
  <2> SUFFICES ASSUME NEW e \in Rows', Dead(e)'
               PROVE  /\ AccountedFor(e)'
                      /\ config.retention > 0 /\ ~ outbox'[e].late =>
                           outbox'[e].dead > config.deadLetterTTL
                           \/ age'[e] <= retryWindowFor(config.maxAttempts) + outbox'[e].dead
    BY <1>u DEF Evidence, retryWindowFor
  <2>1. e \in Rows /\ Dead(e) /\ e \in Event /\ outbox'[e].late = outbox[e].late BY <1>0, <1>3, TickedRows DEF Rows, Dead
  <2>2. AccountedFor(e)' BY <1>0, <1>a, <2>1 DEF Evidence
  <2>3. ASSUME config.retention > 0, ~ outbox[e].late
        PROVE  outbox'[e].dead > config.deadLetterTTL
               \/ age'[e] <= retryWindowFor(config.maxAttempts) + outbox'[e].dead
    <3>1. config.deadLetterTTL > 0 BY <1>0, <2>3 DEF PipelineTyped, ValidateConfig
    <3>2. outbox'[e].dead = Older(outbox[e].dead, config.deadLetterTTL + 1) BY <1>0, <2>1, <3>1, TickedRows DEF Dead
    <3>3. outbox[e].dead \in Nat BY <1>0, <2>1, RowOrNone DEF Dead, OutboxRow, Rows
    <3>4. outbox[e].dead > config.deadLetterTTL \/ age[e] <= retryWindowFor(config.maxAttempts) + outbox[e].dead
      BY <1>0, <2>1, <2>3 DEF Evidence
    <3>5. age[e] \in Nat /\ age'[e] \in Nat /\ age'[e] <= age[e] + 1 BY <1>0, <1>1, <2>1 DEF PipelineTyped
    <3> QED BY <1>0, <3>1, <3>2, <3>3, <3>4, <3>5, ConfigTyped DEF Older, Least
  <2> QED BY <2>1, <2>2, <2>3
<1>7. Retained'
  <2> SUFFICES ASSUME NEW e \in Event, record[e] = "deleted" PROVE config.retention > 0 /\ age'[e] > config.retention
    BY <1>u DEF Retained
  <2>1. config.retention > 0 /\ age[e] > config.retention /\ age[e] \in Nat BY <1>0 DEF Retained, PipelineTyped
  <2>2. age'[e] \in Nat /\ (age[e] <= age'[e] \/ age'[e] > config.retention) BY <1>1, <2>1
  <2> QED BY <1>0, <2>1, <2>2, ConfigTyped
<1>b. Shedding'
  <2> SUFFICES ASSUME NEW v \in Worker, janitor[v].at = "dead", NEW f \in janitor[v].todo
               PROVE  op[f] \notin {"todo", "open", "recorded"} /\ (outbox'[f] # None => Dead(f)')
    BY <1>u DEF Shedding
  <2>1. f \in Event BY <1>0 DEF PipelineTyped, JanitorTyped, JanitorShape, JanitorState, Idle
  <2> QED BY <1>0, <1>3, <2>1, TickedRows DEF Shedding, Dead, Rows
<1>8. RecordOutlives'
  <2> SUFFICES ASSUME NEW e \in Rows', record[e] = "deleted" PROVE e \in Expired' \/ (Dead(e)' /\ outbox'[e].late)
    BY <1>u DEF RecordOutlives
  <2>1. e \in Rows /\ e \in Event /\ outbox'[e].late = outbox[e].late /\ (Dead(e)' <=> Dead(e))
    BY <1>0, <1>3, TickedRows DEF Rows, Dead
  <2>2. CASE Dead(e) /\ outbox[e].late BY <2>1, <2>2
  <2>3. CASE e \in Expired /\ Dead(e)
    <3>1. config.deadLetterTTL > 0 /\ outbox[e].dead > config.deadLetterTTL BY <2>3 DEF Expired
    <3>2. outbox[e].dead \in Nat BY <1>0, <2>1, <2>3, RowOrNone DEF Dead, OutboxRow, Rows
    <3>3. outbox'[e].dead = Older(outbox[e].dead, config.deadLetterTTL + 1) BY <1>0, <2>1, <2>3, <3>1, TickedRows DEF Dead
    <3>4. outbox'[e].dead > config.deadLetterTTL BY <1>0, <3>1, <3>2, <3>3, ConfigTyped DEF Older, Least
    <3> QED BY <1>u, <2>1, <2>3, <3>1, <3>4 DEF Expired
  <2>4. CASE e \in Expired /\ ~ Dead(e)
    <3>1. config.retention > 0 /\ age'[e] > config.retention BY <1>7, <1>u, <2>1 DEF Retained
    <3>2. config.outboxMaxAge > 0 /\ config.outboxMaxAge < config.retention
      BY <1>0, <3>1 DEF PipelineTyped, ValidateConfig
    <3>3. age'[e] > config.outboxMaxAge BY <1>0, <1>1, <2>1, <3>1, <3>2, ConfigTyped
    <3> QED BY <1>u, <2>1, <2>4, <3>2, <3>3 DEF Expired
  <2> QED BY <1>0, <2>1, <2>2, <2>3, <2>4 DEF RecordOutlives
<1>9. RecordIffCommit' BY <1>0, <1>3, <1>u DEF RecordIffCommit, NoSilentLoss
<1>10. NoSilentLoss' BY <1>0, <1>3, <1>9, <1>a, <1>u DEF NoSilentLoss
<1> QED BY <1>2, <1>4, <1>5, <1>b, <1>6, <1>7, <1>8, <1>10 DEF AuditInv

-----------------------------------------------------------------------------

LEMMA AuditStep ==
  ASSUME AuditInv, [AuditNext]_auditVars
  PROVE  AuditInv'
<1>1. ASSUME NEW e \in Event, Operate(e) PROVE AuditInv'
  BY <1>1, RecordKeeps, CommitKeeps, RollbackKeeps, RecordAloneKeeps, ObligeAloneKeeps, LogFailureKeeps, CutShortKeeps
     DEF Operate
<1>2. ASSUME NEW w \in Worker, dispatchOnce(w) PROVE AuditInv'
  BY <1>2, SelectCandidatesKeeps, ReadClaimedKeeps, HandleBatchKeeps, ClaimKeeps, SettleBatchKeeps, LogDeadLetterKeeps
     DEF dispatchOnce
<1>3. ASSUME NEW w \in Worker, janitorLoop(w) PROVE AuditInv'
  BY <1>3, CountExpiredKeeps, SweepExpiredKeeps, CountTotalKeeps, SelectDeadKeeps, SelectOldestKeeps, SelectOrphansKeeps,
     LogLossesKeeps, EvictDeadKeeps, EvictOldestKeeps, PurgeOrphansKeeps
     DEF janitorLoop
<1>4. ASSUME NEW w \in Worker, Crash(w) PROVE AuditInv' BY <1>4, CrashKeeps
<1>5. CASE Cleanup BY <1>5, CleanupKeeps
<1>6. CASE Tick BY <1>6, TickKeeps
<1>7. CASE UNCHANGED auditVars
  <2> USE <1>7 DEF auditVars
  <2>1. PipelineTyped' /\ Delivering' BY DEF AuditInv, PipelineTyped, JanitorTyped, Delivering
  <2>2. \A e \in Event : AccountedFor(e) => AccountedFor(e)' BY DEF AccountedFor, InHand, At
  <2>3. \A v \in Worker : janitor'[v].at = "dead" =>
          \A e \in janitor'[v].todo : op[e] \notin {"todo", "open", "recorded"} /\ (outbox[e] # None => Dead(e))
    BY DEF AuditInv, Shedding
  <2> QED BY <2>1, <2>2, <2>3, RowsKept
<1> QED BY <1>1, <1>2, <1>3, <1>4, <1>5, <1>6, <1>7 DEF AuditNext

LEMMA AuditInvariant == AuditSpec => []AuditInv
<1>1. AuditInit => AuditInv BY AuditInitial
<1>2. AuditInv /\ [AuditNext]_auditVars => AuditInv' BY AuditStep
<1> QED BY <1>1, <1>2, PTL DEF AuditSpec

(* No event disappears quietly: a transaction leaves its record exactly     *)
(* when it commits, and an obligation that is gone was acknowledged by      *)
(* every sink or its loss is in the log, or about to be logged by the       *)
(* process that caused it.  What a stop or a failed statement cuts off      *)
(* between the statement and its log line is the exception the property     *)
(* names.  For any number of dispatchers, janitors and faults.              *)
THEOREM NothingLostSilently == AuditSpec => []NoSilentLoss
<1>1. AuditInv => NoSilentLoss BY DEF AuditInv
<1> QED BY <1>1, AuditInvariant, PTL

(* Retention runs beside the sweep and never waits for it, and yet a record *)
(* it deletes belongs to no obligation, to one past its own clock and due   *)
(* to be swept, or to a dead letter that died after the retry window; for   *)
(* any retention, retry limit, lease and number of dispatchers.             *)
THEOREM RecordsOutlive == AuditSpec => []RecordOutlives
<1>1. AuditInv => RecordOutlives BY DEF AuditInv
<1> QED BY <1>1, AuditInvariant, PTL
=============================================================================
