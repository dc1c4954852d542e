--------------------------- MODULE OrgPermissions ---------------------------
(***************************************************************************)
(* Granular permissions of one organization and the invitations issued     *)
(* under them: internal/service/org_permission*.go, the permission paths   *)
(* of org.go, org_admin.go and org_invite.go.  Every mutation runs under   *)
(* the users-first guard and LockOrg and judges its actor again there, so  *)
(* it is one step; what is concurrent is what happens between the steps of *)
(* an invitation: offered, mailed, looked up, accepted.  A refused request *)
(* (of its grants, its session or its second factor) takes no step.        *)
(***************************************************************************)
EXTENDS Naturals, FiniteSets

CONSTANTS
    User,
    Founder,        \* the owner the organization starts with
    Custom,         \* ids of custom roles, never used twice
    Business,       \* permissions the application defines
    Grantable,      \* bound: keys that are installed and granted
    Moved,          \* bound: users whose memberships change
    Staffed,        \* bound: users whom the platform's staff touches
    Invited,        \* bound: users who receive invitations
    Invite,         \* ids of invitations, never used twice
    MaxRev,         \* bound: revisions of a role
    MaxCode         \* bound: codes of an invitation

(* The library's catalog, without its prefix "goauth.org.". *)
Library ==
    {"organization.delete", "organization.read", "organization.update",
     "invites.create", "invites.delete", "invites.read", "invites.resend",
     "members.create", "members.read", "members.remove",
     "permissions.create", "permissions.delete", "permissions.read", "permissions.update",
     "roles.assign", "roles.create", "roles.delete", "roles.read", "roles.update"}

ASSUME OrgPermissionsAssumption ==
    /\ Founder \in User /\ Moved \cup Staffed \cup Invited \subseteq User
    /\ Business \subseteq Grantable /\ Business \cap Library = {}
    /\ Grantable \subseteq Library \cup Business
    /\ {MaxRev, MaxCode} \subseteq Nat \ {0}

BuiltIn == {"owner", "admin", "member"}
(* Custom roles have ids of their own; "none" and "staff" are nobody's.    *)
ASSUME NamesAssumption ==
    Custom \cap (BuiltIn \cup {"none"}) = {} /\ "staff" \notin User /\ "none" \notin Invite
orgPreset ==
    [b \in BuiltIn |->
        CASE b = "owner"  -> Library
          [] b = "member" -> {"members.read", "organization.read"}
          [] b = "admin"  ->
                {"invites.create", "invites.delete", "invites.read", "invites.resend",
                 "members.create", "members.read", "members.remove",
                 "organization.read", "organization.update", "roles.assign"}]

VARIABLES
    ready,      \* org_authorization_state and the built-in roles exist
    banned,     \* banned users
    member,     \* organization_members: the base role, or none
    assigned,   \* org_member_roles: an explicit role, or none
    role,       \* custom org_roles with their grants
    perm,       \* org_permissions: "none", "on", "off"
    invite,     \* organization_invites with org_invite_roles
    ticket,     \* acceptances in flight: the invitation as looked up
    by          \* history: on whose authority the last step was taken

vars == <<ready, banned, member, assigned, role, perm, invite, ticket, by>>

NoRole == [st |-> "none", enabled |-> FALSE, rev |-> 0, grants |-> {}]
NoInvite == [st |-> "none"]
NoTicket == [id |-> "none", code |-> 0]

(* An invitation sent before the permissions were enabled names no role.   *)
Legacy(b, u) ==
    [st |-> "pending", base |-> b, role |-> "none", rev |-> 0, issuer |-> Founder,
     to |-> u, code |-> 1, offer |-> orgPreset[b]]

Init ==
    /\ ready = FALSE /\ banned = {}
    /\ member = [u \in User |-> IF u = Founder THEN "owner" ELSE "none"]
    /\ assigned = [u \in User |-> "none"]
    /\ role = [r \in Custom |-> NoRole]
    /\ perm = [k \in Grantable |-> "none"]
    /\ \/ invite = [i \in Invite |-> NoInvite]
       \/ \E i \in Invite, b \in BuiltIn, u \in Invited :
             invite = [j \in Invite |-> IF j = i THEN Legacy(b, u) ELSE NoInvite]
    /\ ticket = [u \in User |-> NoTicket] /\ by = "staff"

-----------------------------------------------------------------------------
(* Who may do what.                                                        *)
Usable(r) == r \notin BuiltIn => role[r].enabled
RoleOf(u) == IF assigned[u] # "none" THEN assigned[u] ELSE member[u]
(* orgRoleMatchesMembership                                                *)
BaseOf(r) == IF r \in BuiltIn THEN r ELSE "member"
On == {k \in Business : perm[k] = "on"}

explicitKeys(r) == IF r \in BuiltIn THEN orgPreset[r] ELSE role[r].grants
effectiveKeys(r) ==
    IF ~Usable(r) THEN {}
    ELSE IF r \in BuiltIn THEN orgPreset[r]
    ELSE {k \in role[r].grants : perm[k] = "on"}

current(u) ==
    /\ ready /\ u \notin banned /\ member[u] # "none"
    /\ Usable(RoleOf(u)) /\ BaseOf(RoleOf(u)) = member[u]
IsOwner(u) == current(u) /\ RoleOf(u) = "owner"

(* What ListEffectivePermissions shows of an unbanned member.              *)
KeysOf(u) ==
    IF member[u] = "none" \/ ~ready THEN {}
    ELSE effectiveKeys(RoleOf(u)) \cup (IF RoleOf(u) = "owner" THEN On ELSE {})
CheckPermission(u, k) ==
    /\ current(u)
    /\ LET r == RoleOf(u)
       IN k \in (IF r \in BuiltIn THEN orgPreset[r] ELSE effectiveKeys(r))

(* A non-owner passes on only keys it holds, and never edits its own role. *)
delegation(a, r, keys) ==
    ~IsOwner(a) => current(a) /\ RoleOf(a) # r /\ keys \subseteq effectiveKeys(RoleOf(a))

authorizeInviteRole(a, r) ==
    /\ r = "owner" => IsOwner(a)
    /\ delegation(a, "none", explicitKeys(r))

(* Slip: what the issuer still holds not compared with what it offered. *)
RequireMembershipOnly(a, r) ==
    CheckPermission(a, "invites.create")
requireInvitationAuthority(a, r) ==
    /\ CheckPermission(a, "invites.create")
    /\ r \notin BuiltIn => CheckPermission(a, "roles.assign")
    /\ authorizeInviteRole(a, r)

(* requireMemberMutation and authorizeFixedAssignment. *)
authorizeFixedAssignment(a, u, b) ==
    /\ ~IsOwner(a) => a # u /\ b # "owner" /\ member[u] # "owner"
    /\ delegation(a, "none",
            orgPreset[b] \cup (IF member[u] = "none" THEN {} ELSE explicitKeys(RoleOf(u))))

-----------------------------------------------------------------------------
Rows == <<ready, banned, member, assigned, role, perm, invite>>

(* Initialize, for an organization made before the feature was enabled.    *)
Initialize(a) ==
    /\ ~ready /\ a \notin banned /\ member[a] = "owner"
    /\ ready' = TRUE
    /\ UNCHANGED <<banned, member, assigned, role, perm, invite, ticket>>

(* Roles.  A revision counts every change of a role or of its grants.      *)
Grants(G) == G \subseteq Grantable /\ \A k \in G : perm[k] = "on"
Revisable(r) == role[r].st = "live" /\ role[r].rev < MaxRev

CreateRole(a, r, G) ==
    /\ CheckPermission(a, "roles.create") /\ role[r] = NoRole
    /\ Grants(G) /\ delegation(a, "none", G)
    /\ role' = [role EXCEPT ![r] = [st |-> "live", enabled |-> TRUE, rev |-> 1, grants |-> G]]
    /\ UNCHANGED <<ready, banned, member, assigned, perm, invite, ticket>>

UpdateRole(a, r, on) ==
    /\ CheckPermission(a, "roles.update") /\ Revisable(r)
    /\ delegation(a, r, role[r].grants)
    /\ role' = [role EXCEPT ![r].enabled = on, ![r].rev = @ + 1]
    /\ UNCHANGED <<ready, banned, member, assigned, perm, invite, ticket>>

(* Slip: the role's revision not bumped. *)
SetGrantsUnrevised(a, r, G) ==
    /\ CheckPermission(a, "roles.update") /\ Revisable(r)
    /\ Grants(G) /\ delegation(a, r, role[r].grants \cup G)
    /\ role' = [role EXCEPT ![r].grants = G]
    /\ UNCHANGED <<ready, banned, member, assigned, perm, invite, ticket>>
SetRolePermissions(a, r, G) ==
    /\ CheckPermission(a, "roles.update") /\ Revisable(r)
    /\ Grants(G) /\ delegation(a, r, role[r].grants \cup G)
    /\ role' = [role EXCEPT ![r].grants = G, ![r].rev = @ + 1]
    /\ UNCHANGED <<ready, banned, member, assigned, perm, invite, ticket>>

Pending(i) == invite[i].st \in {"pending", "expired"}
InUse(r) ==
    \/ \E u \in User : assigned[u] = r
    \/ \E i \in Invite : Pending(i) /\ invite[i].role = r

DeleteRole(a, r) ==
    /\ CheckPermission(a, "roles.delete") /\ role[r].st = "live"
    /\ delegation(a, r, role[r].grants) /\ ~InUse(r)
    /\ role' = [role EXCEPT ![r] = [NoRole EXCEPT !.st = "gone"]]
    /\ UNCHANGED <<ready, banned, member, assigned, perm, invite, ticket>>

-----------------------------------------------------------------------------
(* Definitions of permissions.                                             *)
CreatePermission(a, k) ==
    /\ CheckPermission(a, "permissions.create") /\ perm[k] = "none"
    /\ perm' = [perm EXCEPT ![k] = "on"]
    /\ UNCHANGED <<ready, banned, member, assigned, role, invite, ticket>>

UpdatePermission(a, k, st) ==
    /\ CheckPermission(a, "permissions.update") /\ perm[k] # "none"
    /\ delegation(a, "none", {k})
    /\ perm' = [perm EXCEPT ![k] = st]
    /\ UNCHANGED <<ready, banned, member, assigned, role, invite, ticket>>

DeletePermission(a, k) ==
    /\ CheckPermission(a, "permissions.delete") /\ perm[k] # "none"
    /\ delegation(a, "none", {k})
    /\ \A r \in Custom : k \notin role[r].grants
    /\ perm' = [perm EXCEPT ![k] = "none"]
    /\ UNCHANGED <<ready, banned, member, assigned, role, invite, ticket>>

(* Installing and removing library permissions; a removal takes them out   *)
(* of the roles and revises those.                                         *)
UpdateLibraryPermissions(a, create, delete) ==
    /\ IsOwner(a) /\ create \cap delete = {}
    /\ \A r \in Custom : role[r].grants \cap delete # {} => role[r].rev < MaxRev
    /\ perm' = [k \in DOMAIN perm |-> IF k \in create THEN "on"
                                      ELSE IF k \in delete THEN "none" ELSE perm[k]]
    /\ role' = [r \in Custom |->
                    IF role[r].grants \cap delete = {} THEN role[r]
                    ELSE [role[r] EXCEPT !.grants = @ \ delete, !.rev = @ + 1]]
    /\ UNCHANGED <<ready, banned, member, assigned, invite, ticket>>

-----------------------------------------------------------------------------
(* Memberships.  Removing one takes its assignment with it.                *)
Dispensable(u) == member[u] = "owner" => \E v \in User \ {u} : member[v] = "owner"
Member(u, b, r) ==
    /\ member' = [member EXCEPT ![u] = b]
    /\ assigned' = [assigned EXCEPT ![u] = r]

SetMemberRole(a, u, r) ==
    /\ CheckPermission(a, "roles.assign")
    /\ member[u] # "none" /\ Usable(r) /\ r # RoleOf(u)
    /\ ~IsOwner(a) => u # a /\ member[u] # "owner" /\ r # "owner"
    /\ delegation(a, "none", explicitKeys(RoleOf(u)) \cup explicitKeys(r))
    /\ BaseOf(r) # "owner" => Dispensable(u)
    /\ Member(u, BaseOf(r), r)
    /\ UNCHANGED <<ready, banned, role, perm, invite, ticket>>

(* resetBuiltinAssignment: the fixed-role API ends an explicit assignment, *)
(* and begins one for a real change of the implicit role.  Slip: an        *)
(* explicit assignment survives. *)
KeepAssignment(u, b) == assigned[u]
resetBuiltinAssignment(u, b) ==
    IF ~ready \/ (assigned[u] = "none" /\ b = member[u]) THEN assigned[u] ELSE b

ChangeRole(u, b) ==
    /\ member[u] # "none" /\ (b # "owner" => Dispensable(u))
    /\ Member(u, b, resetBuiltinAssignment(u, b))
    /\ UNCHANGED <<ready, banned, role, perm, invite, ticket>>
Join(u, b) ==
    /\ member[u] = "none" /\ Member(u, b, "none")
    /\ UNCHANGED <<ready, banned, role, perm, invite, ticket>>
Leave(u) ==
    /\ member[u] # "none" /\ Dispensable(u) /\ Member(u, "none", "none")
    /\ UNCHANGED <<ready, banned, role, perm, invite, ticket>>

UpdateMemberRole(a, u, b) ==
    /\ CheckPermission(a, "roles.assign") /\ authorizeFixedAssignment(a, u, b)
    /\ ChangeRole(u, b)
AddMember(a, u, b) ==
    /\ CheckPermission(a, "members.create") /\ authorizeFixedAssignment(a, u, b)
    /\ Join(u, b)
RemoveMember(a, u) ==
    /\ CheckPermission(a, "members.remove") /\ (member[u] = "owner" => IsOwner(a))
    /\ Leave(u)

(* The platform's staff.                                                   *)
Outside(u) ==
    \/ \E b \in BuiltIn : Join(u, b) \/ ChangeRole(u, b)
    \/ Leave(u)
    \/ /\ banned' = IF u \in banned THEN banned \ {u} ELSE banned \cup {u}
       /\ UNCHANGED <<ready, member, assigned, role, perm, invite, ticket>>

-----------------------------------------------------------------------------
(* Invitations.  offer: history, the keys of the role when it was offered. *)
CreateInvite(a, i, r, u) ==
    /\ CheckPermission(a, "invites.create")
    /\ r \notin BuiltIn => CheckPermission(a, "roles.assign")
    /\ Usable(r) /\ authorizeInviteRole(a, r) /\ invite[i] = NoInvite
    /\ invite' = [invite EXCEPT ![i] =
            [st |-> "pending", base |-> BaseOf(r), role |-> r,
             rev |-> IF r \in BuiltIn THEN 1 ELSE role[r].rev, issuer |-> a, to |-> u,
             code |-> 1, offer |-> explicitKeys(r)]]
    /\ UNCHANGED <<ready, banned, member, assigned, role, perm, ticket>>

(* The role an invitation grants, as long as nobody revised it.            *)
Offered(i) == IF invite[i].role = "none" THEN invite[i].base ELSE invite[i].role
Unrevised(i) ==
    Offered(i) \in Custom =>
        Usable(Offered(i)) /\ role[Offered(i)].rev = invite[i].rev

resendPermissionInvite(a, i) ==
    /\ CheckPermission(a, "invites.resend") /\ Pending(i) /\ invite[i].code < MaxCode
    /\ invite[i].role # "none" =>
            Unrevised(i) /\ requireInvitationAuthority(invite[i].issuer, invite[i].role)
    /\ invite' = [invite EXCEPT ![i].st = "pending", ![i].code = @ + 1]
    /\ UNCHANGED <<ready, banned, member, assigned, role, perm, ticket>>

DeleteOrgInvite(a, i) ==
    /\ CheckPermission(a, "invites.delete") /\ Pending(i)
    /\ invite' = [invite EXCEPT ![i] = [st |-> "gone"]]
    /\ UNCHANGED <<ready, banned, member, assigned, role, perm, ticket>>

Expire(i) ==
    /\ invite[i].st = "pending" /\ invite' = [invite EXCEPT ![i].st = "expired"]
    /\ UNCHANGED <<ready, banned, member, assigned, role, perm, ticket>>

(* AcceptInvite looks the code up before any transaction ...               *)
LookUp(u, i) ==
    /\ Pending(i) /\ invite[i].to = u
    /\ ticket' = [ticket EXCEPT ![u] = [id |-> i, code |-> invite[i].code]]
    /\ UNCHANGED Rows

(* ... and its transaction deletes the row with that very code.            *)
ClaimInvite(t) == invite[t.id].st = "pending" /\ invite[t.id].code = t.code

acceptPermissionInvite(u) ==
    LET t == ticket[u]
        r == Offered(t.id)
    IN /\ t # NoTicket /\ ready /\ u \notin banned /\ ClaimInvite(t)
       /\ Unrevised(t.id) /\ requireInvitationAuthority(invite[t.id].issuer, r)
       /\ member[u] = "none" /\ Member(u, BaseOf(r), r)
       /\ by' = invite[t.id].issuer /\ invite' = [invite EXCEPT ![t.id] = [st |-> "gone"]]
       /\ ticket' = [ticket EXCEPT ![u] = NoTicket]
       /\ UNCHANGED <<ready, banned, role, perm>>

-----------------------------------------------------------------------------
(* What a request of a may ask for: of roles, of the permissions, of       *)
(* members, of invitations.                                                *)
RoleRequest(a) ==
    \/ \E r \in Custom, G \in SUBSET Grantable : CreateRole(a, r, G) \/ SetRolePermissions(a, r, G)
    \/ \E r \in Custom, on \in BOOLEAN : UpdateRole(a, r, on)
    \/ \E r \in Custom : DeleteRole(a, r)

PermissionRequest(a) ==
    \/ \E k \in Business : CreatePermission(a, k) \/ DeletePermission(a, k)
    \/ \E k \in Business, st \in {"on", "off"} : UpdatePermission(a, k, st)

LibraryRequest(a) ==
    \E create, delete \in SUBSET (Grantable \cap Library) : UpdateLibraryPermissions(a, create, delete)

AssignRequest(a) ==
    \E u \in Moved, r \in BuiltIn \cup Custom : SetMemberRole(a, u, r)

MemberRequest(a) ==
    \/ \E u \in Moved, b \in BuiltIn : UpdateMemberRole(a, u, b) \/ AddMember(a, u, b)
    \/ \E u \in Moved \ {a} : RemoveMember(a, u)

InviteRequest(a) ==
    \E i \in Invite, r \in BuiltIn \cup Custom, u \in Invited : CreateInvite(a, i, r, u)

RenewRequest(a) ==
    \E i \in Invite : resendPermissionInvite(a, i) \/ DeleteOrgInvite(a, i)

Manage(a) ==
    \/ RoleRequest(a) \/ PermissionRequest(a) \/ LibraryRequest(a) \/ AssignRequest(a)
    \/ MemberRequest(a) \/ InviteRequest(a) \/ RenewRequest(a)

Next ==
    \/ \E a \in User : Manage(a) /\ by' = a
    \/ \E u \in User : acceptPermissionInvite(u)
    \/ /\ by' = "staff"
       /\ \/ \E a \in User : Initialize(a)
          \/ \E u \in Staffed : Outside(u)
          \/ \E u \in Moved : Leave(u)
          \/ \E i \in Invite : Expire(i)
          \/ \E u \in Invited, i \in Invite : LookUp(u, i)

Spec == Init /\ [][Next]_vars

-----------------------------------------------------------------------------
TypeOK ==
    /\ ready \in BOOLEAN /\ banned \subseteq User
    /\ member \in [User -> BuiltIn \cup {"none"}]
    /\ assigned \in [User -> BuiltIn \cup Custom \cup {"none"}]
    /\ role \in [Custom -> [st : {"none", "live", "gone"}, enabled : BOOLEAN,
                            rev : 0..MaxRev, grants : SUBSET Grantable]]
    /\ perm \in [Grantable -> {"none", "on", "off"}]
    /\ \A i \in Invite : Pending(i) => invite[i].rev <= MaxRev /\ invite[i].code \in 1..MaxCode
    /\ ticket \in [User -> {NoTicket} \cup [id : Invite, code : 1..MaxCode]]

(* Whatever the two role APIs, invitations, removals and library updates   *)
(* did, a member acts in one identity: its explicit role is a live role of *)
(* its base class, every grant of a role is installed, and a pending       *)
(* invitation names a live role ("A custom role cannot masquerade as an    *)
(* owner", currentMembership).                                             *)
OneIdentity ==
    /\ \A u \in User : assigned[u] # "none" =>
          BaseOf(assigned[u]) = member[u] /\ (assigned[u] \in Custom => role[assigned[u]].st = "live")
    /\ \A r \in Custom : \A k \in role[r].grants : perm[k] # "none"
    /\ \A i \in Invite : Pending(i) /\ invite[i].role \in Custom => role[invite[i].role].st = "live"

Gained(u) == KeysOf(u)' \ KeysOf(u)

(* Nobody grows beyond the grantor: a step of a member who is not an owner *)
(* gives no other member a key the grantor does not hold at that moment,   *)
(* and itself none (delegation); an accepted invitation gives no more than *)
(* its issuer holds when it is accepted, however long ago it was issued    *)
(* ("Changes to the role or inviter revoke the pending delegation").       *)
NoEscalation ==
    [][\A u \in User :
        Gained(u) # {} /\ by' \in User /\ ~(member[u] = "owner" /\ member'[u] = "owner") =>
            /\ current(by')
            /\ IsOwner(by') \/ Gained(u) \subseteq KeysOf(by')]_vars

(* An invitation is accepted at most once, by the code mailed last, and    *)
(* grants the role as it was when it was offered: an edit of the role in   *)
(* between revokes the offer, and so does a resend, a deletion or expiry.  *)
OfferKept ==
    [][\A u \in User : LET t == ticket[u] IN
        t # NoTicket /\ acceptPermissionInvite(u) =>
            /\ invite[t.id].st = "pending" /\ invite[t.id].code = t.code
            /\ explicitKeys(assigned'[u]) = invite[t.id].offer]_vars
=============================================================================
