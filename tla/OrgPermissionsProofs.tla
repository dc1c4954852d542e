------------------------ MODULE OrgPermissionsProofs ------------------------
(***************************************************************************)
(* Theorems about OrgPermissions: whoever has which roles, invitations and *)
(* permissions, for any users, custom roles, permissions and invitations.  *)
(*                                                                         *)
(* An invitation carries what it offers from one step to another.  The     *)
(* invariant says what a pending invitation still has to do with the role  *)
(* it names; everything else is judged and done in one step.               *)
(***************************************************************************)
EXTENDS OrgPermissions, TLAPS

RoleIds == BuiltIn \cup Custom \cup {"none"}
Keys == Library \cup Grantable
RoleRow == [st : {"none", "live", "gone"}, enabled : BOOLEAN, rev : 0..MaxRev,
            grants : SUBSET Grantable]
Offer == [st : {"pending", "expired"}, base : BuiltIn, role : RoleIds, rev : 0..MaxRev,
          issuer : User, to : User, code : 1..MaxCode, offer : SUBSET Keys]
Ticket == [id : Invite, code : 1..MaxCode]

Typed ==
    /\ ready \in BOOLEAN /\ banned \subseteq User
    /\ member \in [User -> BuiltIn \cup {"none"}] /\ assigned \in [User -> RoleIds]
    /\ role \in [Custom -> RoleRow] /\ perm \in [Grantable -> {"none", "on", "off"}]
    /\ invite \in [Invite -> {NoInvite, [st |-> "gone"]} \cup Offer]
    /\ ticket \in [User -> {NoTicket} \cup Ticket]

(* A member's explicit role is of its base class, live, and given under    *)
(* the permissions.                                                        *)
Assigned ==
    \A u \in User : assigned[u] # "none" =>
        /\ ready /\ BaseOf(assigned[u]) = member[u]
        /\ assigned[u] \in Custom => role[assigned[u]].st = "live"

(* A role that counts is live, and what it grants is installed. *)
Granted ==
    \A r \in Custom : /\ role[r].enabled => role[r].st = "live"
                      /\ \A k \in role[r].grants : perm[k] # "none"

(* A pending invitation offers a live role, as it was when it was offered  *)
(* unless the role has been revised since.                                 *)
Offering ==
    \A i \in Invite : Pending(i) =>
        /\ Offered(i) \in BuiltIn => invite[i].offer = orgPreset[Offered(i)]
        /\ Offered(i) \in Custom =>
             /\ role[Offered(i)].st = "live" /\ invite[i].rev <= role[Offered(i)].rev
             /\ invite[i].rev = role[Offered(i)].rev => invite[i].offer = role[Offered(i)].grants

IInv == Typed /\ Assigned /\ Granted /\ Offering

USE OrgPermissionsAssumption, NamesAssumption

-----------------------------------------------------------------------------
(* Roles, presets and invitations. *)

LEMMA Names ==
    /\ "none" \notin BuiltIn /\ "none" \notin Custom /\ BuiltIn \cap Custom = {}
    /\ BuiltIn \subseteq RoleIds /\ Custom \subseteq RoleIds /\ "none" \in RoleIds
BY DEF RoleIds, BuiltIn

LEMMA Presets ==
    /\ orgPreset \in [BuiltIn -> SUBSET Library]
    /\ \A b \in BuiltIn : orgPreset[b] \subseteq Keys
<1>1. ASSUME NEW b \in BuiltIn
      PROVE  (CASE b = "owner"  -> Library
                [] b = "member" -> {"members.read", "organization.read"}
                [] b = "admin"  ->
                      {"invites.create", "invites.delete", "invites.read", "invites.resend",
                       "members.create", "members.read", "members.remove",
                       "organization.read", "organization.update", "roles.assign"})
             \in SUBSET Library
  BY DEF BuiltIn, Library
<1>2. orgPreset \in [BuiltIn -> SUBSET Library]
  BY <1>1 DEF orgPreset
<1>3. QED
  BY <1>2 DEF Keys

(* A role edited: its state stays, its revision counts the edit. *)
Edited(row, e, G) == [row EXCEPT !.enabled = e, !.grants = G, !.rev = row.rev + 1]

LEMMA RowEdited ==
    ASSUME NEW row \in RoleRow, NEW e \in BOOLEAN, NEW G \in SUBSET Grantable, row.rev < MaxRev
    PROVE  /\ Edited(row, e, G) \in RoleRow /\ Edited(row, e, G).st = row.st
           /\ Edited(row, e, G).enabled = e /\ Edited(row, e, G).grants = G
           /\ Edited(row, e, G).rev = row.rev + 1 /\ row.rev \in Nat
           /\ Edited(row, e, G).rev > row.rev
<1> DEFINE new == Edited(row, e, G)
<1>1. row.rev \in 0..MaxRev /\ MaxRev \in Nat
  BY DEF RoleRow
<1>2. PICK n \in 0..MaxRev : n = row.rev + 1 /\ row.rev \in Nat /\ n > row.rev
  <2>1. PICK m \in 0..MaxRev : m = row.rev
    BY <1>1
  <2>2. m + 1 \in 0..MaxRev /\ m \in Nat /\ m + 1 > m
    <3>1. m < MaxRev
      BY <2>1
    <3>2. QED
      BY <1>1, <3>1
  <2>3. QED
    BY <2>1, <2>2
<1>3. new = [row EXCEPT !.enabled = e, !.grants = G, !.rev = n]
  BY <1>2 DEF Edited
<1> HIDE DEF new
<1>4. /\ new \in RoleRow /\ new.st = row.st /\ new.enabled = e /\ new.grants = G
      /\ new.rev = n
  BY <1>3 DEF RoleRow
<1>5. QED
  BY <1>2, <1>4 DEF new

LEMMA PendingOffer ==
    ASSUME Typed, NEW i \in Invite
    PROVE  /\ Pending(i) <=> invite[i] \in Offer
           /\ Pending(i) => /\ Offered(i) \in BuiltIn \cup Custom
                            /\ Offered(i) = "none" \/ invite[i].role = Offered(i)
                               \/ invite[i].role = "none"
                            /\ invite[i].role = "none" => Offered(i) \in BuiltIn
                            /\ invite[i].role # "none" => Offered(i) = invite[i].role
                            /\ invite[i].issuer \in User /\ invite[i].rev \in Nat
<1>1. invite[i] \in {NoInvite, [st |-> "gone"]} \cup Offer
  BY DEF Typed
<1>2. Pending(i) <=> invite[i] \in Offer
  BY <1>1 DEF Pending, NoInvite, Offer
<1>3. QED
  BY <1>2 DEF Offer, Offered, RoleIds

-----------------------------------------------------------------------------
(* Roles change. *)

LEMMA RoleChanges ==
    ASSUME IInv, NEW r \in Custom, NEW new \in RoleRow, role' = [role EXCEPT ![r] = new],
           UNCHANGED <<ready, banned, member, assigned, perm, invite, ticket>>,
           new.enabled => new.st = "live", \A k \in new.grants : perm[k] # "none",
           new.st # "live" => ~InUse(r),
           InUse(r) => new.rev > role[r].rev
    PROVE  IInv'
<1>1. Typed /\ Assigned /\ Granted /\ Offering
  BY DEF IInv
<1>2. /\ role' \in [Custom -> RoleRow] /\ role'[r] = new
      /\ \A q \in Custom : q # r => role'[q] = role[q]
  BY <1>1 DEF Typed
<1>3. Typed'
  BY <1>1, <1>2 DEF Typed
<1>4. Assigned'
  BY <1>1, <1>2 DEF Assigned, InUse
<1>5. Granted'
  BY <1>1, <1>2 DEF Granted
<1>6. Offering'
  <2> SUFFICES ASSUME NEW i \in Invite, Pending(i)
               PROVE  /\ Offered(i) \in BuiltIn => invite[i].offer = orgPreset[Offered(i)]
                      /\ Offered(i) \in Custom =>
                           /\ role'[Offered(i)].st = "live" /\ invite[i].rev <= role'[Offered(i)].rev
                           /\ invite[i].rev = role'[Offered(i)].rev =>
                                invite[i].offer = role'[Offered(i)].grants
    BY DEF Offering, Pending, Offered
  <2>1. /\ Offered(i) \in BuiltIn => invite[i].offer = orgPreset[Offered(i)]
        /\ Offered(i) \in Custom =>
             /\ role[Offered(i)].st = "live" /\ invite[i].rev <= role[Offered(i)].rev
             /\ invite[i].rev = role[Offered(i)].rev => invite[i].offer = role[Offered(i)].grants
    BY <1>1 DEF Offering
  <2>2. CASE Offered(i) = r
    <3>1. invite[i].role = r
      BY <1>1, <2>2, PendingOffer, Names
    <3>2. InUse(r)
      BY <3>1 DEF InUse
    <3>3. /\ new.st = "live" /\ new.rev > role[r].rev /\ new.rev \in Nat /\ role[r].rev \in Nat
          /\ invite[i].rev \in Nat
      BY <1>1, <3>2, PendingOffer DEF Typed, RoleRow
    <3>4. invite[i].rev <= role[r].rev
      BY <2>1, <2>2
    <3>5. invite[i].rev <= new.rev /\ invite[i].rev # new.rev
      BY <3>3, <3>4
    <3>6. QED
      BY <1>2, <2>2, <3>3, <3>5, Names
  <2>3. CASE Offered(i) # r
    BY <1>2, <2>1, <2>3
  <2>4. QED
    BY <2>2, <2>3
<1>7. QED
  BY <1>3, <1>4, <1>5, <1>6 DEF IInv

(* A role in use is live: nobody has one that does not exist (yet). *)
LEMMA InUseLive ==
    ASSUME IInv, NEW r \in Custom, InUse(r)
    PROVE  role[r].st = "live"
<1>1. Typed /\ Assigned /\ Offering
  BY DEF IInv
<1>2. CASE \E u \in User : assigned[u] = r
  BY <1>1, <1>2, Names DEF Assigned
<1>3. CASE \E i \in Invite : Pending(i) /\ invite[i].role = r
  <2>1. PICK i \in Invite : Pending(i) /\ invite[i].role = r
    BY <1>3
  <2>2. Offered(i) = r
    BY <1>1, <2>1, PendingOffer, Names
  <2>3. QED
    BY <1>1, <2>1, <2>2 DEF Offering
<1>4. QED
  BY <1>2, <1>3 DEF InUse

LEMMA RoleRequestKeeps ==
    ASSUME IInv, NEW a \in User, RoleRequest(a)
    PROVE  IInv'
<1>1. Typed /\ Granted /\ 0 \in 0..MaxRev /\ 1 \in 0..MaxRev
  BY DEF IInv
<1>2. ASSUME NEW r \in Custom, NEW G \in SUBSET Grantable, CreateRole(a, r, G) PROVE IInv'
  <2> DEFINE new == [st |-> "live", enabled |-> TRUE, rev |-> 1, grants |-> G]
  <2>1. /\ role' = [role EXCEPT ![r] = new] /\ role[r] = NoRole
        /\ UNCHANGED <<ready, banned, member, assigned, perm, invite, ticket>>
        /\ \A k \in G : perm[k] # "none"
    BY <1>2 DEF CreateRole, Grants
  <2>2. /\ new \in RoleRow /\ new.st = "live" /\ new.grants = G
    BY <1>1 DEF RoleRow
  <2> HIDE DEF new
  <2>3. ~InUse(r)
    BY <2>1, InUseLive DEF NoRole
  <2>4. QED
    BY <2>1, <2>2, <2>3, RoleChanges
<1>3. ASSUME NEW r \in Custom, NEW G \in SUBSET Grantable, NEW on \in BOOLEAN,
             SetRolePermissions(a, r, G) \/ UpdateRole(a, r, on)
      PROVE  IInv'
  <2>1. PICK e \in BOOLEAN, H \in SUBSET Grantable :
          /\ role' = [role EXCEPT ![r] = [role[r] EXCEPT !.enabled = e, !.grants = H,
                                                         !.rev = role[r].rev + 1]]
          /\ \A k \in H : perm[k] # "none"
    <3>1. CASE SetRolePermissions(a, r, G)
      <4>1. /\ role' = [role EXCEPT ![r].grants = G, ![r].rev = @ + 1]
            /\ \A k \in G : perm[k] # "none"
        BY <3>1 DEF SetRolePermissions, Grants
      <4>2. role[r] \in RoleRow /\ role[r].enabled \in BOOLEAN
        BY <1>1 DEF Typed, RoleRow
      <4>3. role' = [role EXCEPT ![r] = [role[r] EXCEPT !.enabled = role[r].enabled, !.grants = G,
                                                        !.rev = role[r].rev + 1]]
        BY <1>1, <4>1, <4>2 DEF Typed, RoleRow
      <4>4. QED
        BY <4>1, <4>2, <4>3
    <3>2. CASE UpdateRole(a, r, on)
      <4>1. role' = [role EXCEPT ![r].enabled = on, ![r].rev = @ + 1]
        BY <3>2 DEF UpdateRole
      <4>2. role[r] \in RoleRow /\ role[r].grants \in SUBSET Grantable
        BY <1>1 DEF Typed, RoleRow
      <4>3. role' = [role EXCEPT ![r] = [role[r] EXCEPT !.enabled = on, !.grants = role[r].grants,
                                                        !.rev = role[r].rev + 1]]
        BY <1>1, <4>1, <4>2 DEF Typed, RoleRow
      <4>4. QED
        BY <1>1, <4>2, <4>3 DEF Granted
    <3>3. QED
      BY <1>3, <3>1, <3>2
  <2> DEFINE new == Edited(role[r], e, H)
  <2>2. /\ role[r] \in RoleRow /\ role[r].st = "live" /\ role[r].rev < MaxRev
        /\ UNCHANGED <<ready, banned, member, assigned, perm, invite, ticket>>
    BY <1>1, <1>3 DEF Typed, SetRolePermissions, UpdateRole, Revisable
  <2>4. new \in RoleRow /\ new.st = "live" /\ new.grants = H /\ new.rev > role[r].rev
    BY <2>2, RowEdited
  <2>5. role' = [role EXCEPT ![r] = new]
    BY <2>1 DEF Edited
  <2> HIDE DEF new
  <2>6. QED
    BY <2>1, <2>2, <2>4, <2>5, RoleChanges
<1>4. ASSUME NEW r \in Custom, DeleteRole(a, r) PROVE IInv'
  <2> DEFINE new == [NoRole EXCEPT !.st = "gone"]
  <2>1. /\ role' = [role EXCEPT ![r] = new] /\ ~InUse(r)
        /\ UNCHANGED <<ready, banned, member, assigned, perm, invite, ticket>>
    BY <1>4 DEF DeleteRole
  <2>2. new \in RoleRow /\ ~new.enabled /\ new.grants = {}
    BY <1>1 DEF RoleRow, NoRole
  <2> HIDE DEF new
  <2>3. QED
    BY <2>1, <2>2, RoleChanges
<1>5. QED
  BY <1>2, <1>3, <1>4 DEF RoleRequest

-----------------------------------------------------------------------------
(* Permissions change. *)

LEMMA PermissionRequestKeeps ==
    ASSUME IInv, NEW a \in User, PermissionRequest(a)
    PROVE  IInv'
<1>1. Typed /\ Assigned /\ Granted /\ Offering
  BY DEF IInv
<1>2. PICK k \in Business, st \in {"none", "on", "off"} :
        /\ perm' = [perm EXCEPT ![k] = st]
        /\ st = "none" => \A r \in Custom : k \notin role[r].grants
        /\ UNCHANGED <<ready, banned, member, assigned, role, invite, ticket>>
  BY DEF PermissionRequest, CreatePermission, DeletePermission, UpdatePermission
<1>3. Typed'
  BY <1>1, <1>2 DEF Typed
<1>4. Granted'
  <2> SUFFICES ASSUME NEW r \in Custom, NEW h \in role[r].grants
               PROVE  perm'[h] # "none"
    BY <1>1, <1>2 DEF Granted
  <2>1. h \in Grantable /\ perm[h] # "none"
    BY <1>1 DEF Typed, RoleRow, Granted
  <2>2. QED
    BY <1>1, <1>2, <2>1 DEF Typed
<1>5. Assigned' /\ Offering'
  BY <1>1, <1>2 DEF Assigned, Offering, Pending, Offered
<1>6. QED
  BY <1>3, <1>4, <1>5 DEF IInv

LEMMA LibraryRequestKeeps ==
    ASSUME IInv, NEW a \in User, LibraryRequest(a)
    PROVE  IInv'
<1>1. Typed /\ Assigned /\ Granted /\ Offering
  BY DEF IInv
<1>2. PICK create \in SUBSET (Grantable \cap Library), delete \in SUBSET (Grantable \cap Library) :
        UpdateLibraryPermissions(a, create, delete)
  BY DEF LibraryRequest
<1>3. /\ create \cap delete = {}
      /\ \A r \in Custom : role[r].grants \cap delete # {} => role[r].rev < MaxRev
      /\ perm' = [k \in Grantable |-> IF k \in create THEN "on"
                                      ELSE IF k \in delete THEN "none" ELSE perm[k]]
      /\ role' = [r \in Custom |->
                    IF role[r].grants \cap delete = {} THEN role[r]
                    ELSE [role[r] EXCEPT !.grants = role[r].grants \ delete,
                                         !.rev = role[r].rev + 1]]
      /\ UNCHANGED <<ready, banned, member, assigned, invite, ticket>>
  BY <1>1, <1>2 DEF UpdateLibraryPermissions, Typed
<1>4. perm' \in [Grantable -> {"none", "on", "off"}]
  BY <1>1, <1>3 DEF Typed
<1>5. ASSUME NEW r \in Custom
      PROVE  /\ role'[r] \in RoleRow /\ role'[r].st = role[r].st
             /\ role'[r].enabled = role[r].enabled
             /\ role'[r].grants = role[r].grants \ delete
             /\ role'[r] = role[r] \/ role'[r].rev = role[r].rev + 1
             /\ role[r].rev \in Nat
  <2>1. role[r] \in RoleRow /\ role[r].rev \in Nat
    BY <1>1 DEF Typed, RoleRow
  <2>2. CASE role[r].grants \cap delete = {}
    <3>1. role'[r] = role[r] /\ role[r].grants \ delete = role[r].grants
      BY <1>3, <2>2
    <3>2. QED
      BY <2>1, <3>1
  <2>3. CASE role[r].grants \cap delete # {}
    <3>1. /\ role[r].rev < MaxRev /\ role[r].enabled \in BOOLEAN
          /\ role[r].grants \ delete \in SUBSET Grantable
      BY <1>3, <2>1, <2>3 DEF RoleRow
    <3>2. role'[r] = [role[r] EXCEPT !.grants = role[r].grants \ delete, !.rev = role[r].rev + 1]
      BY <1>3, <2>3
    <3>3. role'[r] = Edited(role[r], role[r].enabled, role[r].grants \ delete)
      BY <2>1, <3>2 DEF RoleRow, Edited
    <3>4. QED
      BY <2>1, <3>1, <3>3, RowEdited
  <2>4. QED
    BY <2>2, <2>3
<1>6. role' \in [Custom -> RoleRow]
  BY <1>3, <1>5
<1>7. Typed'
  BY <1>1, <1>3, <1>4, <1>6 DEF Typed
<1>8. Assigned'
  BY <1>1, <1>3, <1>5 DEF Assigned
<1>9. Granted'
  <2>1. ASSUME NEW r \in Custom, NEW k \in role'[r].grants
        PROVE  perm'[k] # "none"
    <3>1. k \in Grantable /\ k \notin delete /\ perm[k] # "none"
      BY <1>1, <1>5 DEF Typed, RoleRow, Granted
    <3>2. QED
      BY <1>3, <3>1
  <2>2. QED
    BY <1>1, <1>5, <2>1 DEF Granted
<1>10. Offering'
  <2> SUFFICES ASSUME NEW i \in Invite, Pending(i), Offered(i) \in Custom
               PROVE  /\ role'[Offered(i)].st = "live" /\ invite[i].rev <= role'[Offered(i)].rev
                      /\ invite[i].rev = role'[Offered(i)].rev =>
                            invite[i].offer = role'[Offered(i)].grants
    <3>1. UNCHANGED invite
      BY <1>3
    <3>2. QED
      BY <1>1, <3>1 DEF Offering, Pending, Offered
  <2> DEFINE r == Offered(i)
  <2>1. /\ role[r].st = "live" /\ invite[i].rev <= role[r].rev
        /\ invite[i].rev = role[r].rev => invite[i].offer = role[r].grants
    BY <1>1 DEF Offering
  <2>2. invite[i].rev \in Nat /\ r \in Custom
    BY <1>1, PendingOffer
  <2> HIDE DEF r
  <2>3. /\ role'[r].st = role[r].st
        /\ role'[r] = role[r] \/ role'[r].rev = role[r].rev + 1
        /\ role[r].rev \in Nat
    BY <1>5, <2>2
  <2>4. CASE role'[r] = role[r]
    BY <2>1, <2>4 DEF r
  <2>5. CASE role'[r].rev = role[r].rev + 1
    <3>1. invite[i].rev <= role'[r].rev /\ invite[i].rev # role'[r].rev
      <4>1. PICK m \in Nat, n \in Nat : m = invite[i].rev /\ n = role[r].rev /\ m <= n
        BY <2>1, <2>2, <2>3
      <4>2. m <= n + 1 /\ m # n + 1
        BY <4>1
      <4>3. QED
        BY <2>5, <4>1, <4>2
    <3>2. QED
      BY <2>1, <2>3, <3>1 DEF r
  <2>6. QED
    BY <2>3, <2>4, <2>5
<1>11. QED
  BY <1>7, <1>8, <1>9, <1>10 DEF IInv

-----------------------------------------------------------------------------
(* Memberships and invitations change. *)

LEMMA MemberChanges ==
    ASSUME Typed, Assigned, NEW u \in User, NEW b \in BuiltIn \cup {"none"}, NEW r \in RoleIds,
           Member(u, b, r), UNCHANGED <<ready, role>>,
           r # "none" => /\ ready /\ BaseOf(r) = b
                         /\ r \in Custom => role[r].st = "live"
    PROVE  /\ member' \in [User -> BuiltIn \cup {"none"}] /\ assigned' \in [User -> RoleIds]
           /\ Assigned'
<1>1. /\ member' = [member EXCEPT ![u] = b] /\ assigned' = [assigned EXCEPT ![u] = r]
      /\ member \in [User -> BuiltIn \cup {"none"}] /\ assigned \in [User -> RoleIds]
  BY DEF Member, Typed
<1>2. \A v \in User : IF v = u THEN member'[v] = b /\ assigned'[v] = r
                      ELSE member'[v] = member[v] /\ assigned'[v] = assigned[v]
  BY <1>1
<1>3. ASSUME NEW v \in User, assigned'[v] # "none"
      PROVE  /\ ready' /\ BaseOf(assigned'[v]) = member'[v]
             /\ assigned'[v] \in Custom => role'[assigned'[v]].st = "live"
  BY <1>2, <1>3 DEF Assigned
<1>4. Assigned'
  BY <1>3 DEF Assigned, BaseOf
<1>5. QED
  BY <1>1, <1>4

LEMMA OnlyMembers ==
    ASSUME IInv, NEW u \in User, NEW b \in BuiltIn \cup {"none"}, NEW r \in RoleIds,
           Member(u, b, r), UNCHANGED <<ready, banned, role, perm, invite, ticket>>,
           r # "none" => /\ ready /\ BaseOf(r) = b
                         /\ r \in Custom => role[r].st = "live"
    PROVE  IInv'
<1>1. Typed /\ Assigned /\ Granted /\ Offering
  BY DEF IInv
<1>2. /\ member' \in [User -> BuiltIn \cup {"none"}] /\ assigned' \in [User -> RoleIds]
      /\ Assigned'
  BY <1>1, MemberChanges
<1>3. Typed'
  BY <1>1, <1>2 DEF Typed
<1>4. Granted' /\ Offering'
  BY <1>1 DEF Granted, Offering, Pending, Offered
<1>5. QED
  BY <1>2, <1>3, <1>4 DEF IInv

LEMMA AssignRequestKeeps ==
    ASSUME IInv, NEW a \in User, AssignRequest(a)
    PROVE  IInv'
<1>1. PICK u \in Moved, r \in BuiltIn \cup Custom : SetMemberRole(a, u, r)
  BY DEF AssignRequest
<1>2. ready /\ Usable(r) /\ Member(u, BaseOf(r), r)
      /\ UNCHANGED <<ready, banned, role, perm, invite, ticket>>
  BY <1>1 DEF SetMemberRole, CheckPermission, current
<1>3. r \in Custom => role[r].st = "live"
  BY <1>2, Names DEF Usable, IInv, Granted
<1>4. u \in User /\ BaseOf(r) \in BuiltIn \cup {"none"} /\ r \in RoleIds
  BY DEF BaseOf, BuiltIn, RoleIds
<1>5. QED
  BY <1>2, <1>3, <1>4, OnlyMembers

(* The fixed-role API leaves its user in the role it names. *)
LEMMA ChangeRoleKeeps ==
    ASSUME IInv, NEW u \in User, NEW b \in BuiltIn, ChangeRole(u, b)
    PROVE  IInv'
<1>1. Typed /\ Assigned /\ u \in User
  BY DEF IInv
<1>2. /\ Member(u, b, resetBuiltinAssignment(u, b))
      /\ UNCHANGED <<ready, banned, role, perm, invite, ticket>>
  BY DEF ChangeRole
<1>3. PICK r \in {"none", b} : r = resetBuiltinAssignment(u, b) /\ (r # "none" => ready /\ r = b)
  BY <1>1 DEF resetBuiltinAssignment, Assigned
<1>4. r \in RoleIds /\ (r # "none" => ready /\ BaseOf(r) = b) /\ r \notin Custom
  BY <1>3, Names DEF BaseOf
<1>5. QED
  BY <1>2, <1>3, <1>4, OnlyMembers

LEMMA JoinLeaveKeeps ==
    ASSUME IInv, NEW u \in User, NEW b \in BuiltIn, Join(u, b) \/ Leave(u)
    PROVE  IInv'
<1>1. \/ Member(u, b, "none") /\ UNCHANGED <<ready, banned, role, perm, invite, ticket>>
      \/ Member(u, "none", "none") /\ UNCHANGED <<ready, banned, role, perm, invite, ticket>>
  BY DEF Join, Leave
<1>2. QED
  BY <1>1, Names, OnlyMembers

LEMMA MemberRequestKeeps ==
    ASSUME IInv, NEW a \in User, MemberRequest(a)
    PROVE  IInv'
<1>1. ASSUME NEW u \in Moved, NEW b \in BuiltIn,
             UpdateMemberRole(a, u, b) \/ AddMember(a, u, b) \/ RemoveMember(a, u)
      PROVE  IInv'
  <2>1. u \in User /\ (ChangeRole(u, b) \/ Join(u, b) \/ Leave(u))
    BY <1>1 DEF UpdateMemberRole, AddMember, RemoveMember
  <2>2. QED
    BY <2>1, ChangeRoleKeeps, JoinLeaveKeeps
<1>2. "owner" \in BuiltIn
  BY DEF BuiltIn
<1>3. QED
  BY <1>1, <1>2 DEF MemberRequest

(* An invitation is gone, or offers a role as it is. *)
OffersRole(row, r) ==
    /\ r = IF row.role = "none" THEN row.base ELSE row.role
    /\ r \in BuiltIn => row.offer = orgPreset[r]
    /\ r \in Custom => /\ role[r].st = "live" /\ row.rev <= role[r].rev
                       /\ row.rev = role[r].rev => row.offer = role[r].grants

LEMMA InviteChanges ==
    ASSUME Typed, Offering, NEW i \in Invite, NEW new \in {[st |-> "gone"]} \cup Offer,
           invite' = [invite EXCEPT ![i] = new], UNCHANGED role,
           NEW r \in BuiltIn \cup Custom, new \in Offer => OffersRole(new, r)
    PROVE  /\ invite' \in [Invite -> {NoInvite, [st |-> "gone"]} \cup Offer]
           /\ Offering'
<1>1. /\ invite' \in [Invite -> {NoInvite, [st |-> "gone"]} \cup Offer]
      /\ invite'[i] = new /\ \A j \in Invite : j # i => invite'[j] = invite[j]
  BY DEF Typed
<1>2. ASSUME NEW j \in Invite, Pending(j)'
      PROVE  /\ Offered(j)' \in BuiltIn => invite'[j].offer = orgPreset[Offered(j)']
             /\ Offered(j)' \in Custom =>
                  /\ role'[Offered(j)'].st = "live" /\ invite'[j].rev <= role'[Offered(j)'].rev
                  /\ invite'[j].rev = role'[Offered(j)'].rev =>
                        invite'[j].offer = role'[Offered(j)'].grants
  <2>1. CASE j = i
    <3>1. new \in Offer
      BY <1>1, <1>2, <2>1 DEF Pending, Offer
    <3>2. OffersRole(new, r) /\ Offered(j)' = r
      BY <1>1, <2>1, <3>1 DEF Offered, OffersRole
    <3>3. QED
      BY <1>1, <2>1, <3>2 DEF OffersRole
  <2>2. CASE j # i
    <3>1. Pending(j) /\ Offered(j)' = Offered(j)
      BY <1>1, <1>2, <2>2 DEF Pending, Offered
    <3>2. QED
      BY <1>1, <2>2, <3>1 DEF Offering
  <2>3. QED
    BY <2>1, <2>2
<1>3. Offering'
  BY <1>2 DEF Offering
<1>4. QED
  BY <1>1, <1>3

LEMMA OnlyInvites ==
    ASSUME IInv, UNCHANGED <<ready, banned, member, assigned, role, perm, ticket>>,
           invite' \in [Invite -> {NoInvite, [st |-> "gone"]} \cup Offer], Offering'
    PROVE  IInv'
<1>1. Typed'
  BY DEF IInv, Typed
<1>2. Assigned'
  BY DEF IInv, Assigned
<1>3. Granted'
  BY DEF IInv, Granted
<1>4. QED
  BY <1>1, <1>2, <1>3 DEF IInv

LEMMA InviteRequestKeeps ==
    ASSUME IInv, NEW a \in User, InviteRequest(a)
    PROVE  IInv'
<1>1. Typed /\ Granted /\ Offering
  BY DEF IInv
<1>2. PICK i \in Invite, r \in BuiltIn \cup Custom, u \in Invited : CreateInvite(a, i, r, u)
  BY DEF InviteRequest
<1> DEFINE rev == IF r \in BuiltIn THEN 1 ELSE role[r].rev
           new == [st |-> "pending", base |-> BaseOf(r), role |-> r, rev |-> rev,
                   issuer |-> a, to |-> u, code |-> 1, offer |-> explicitKeys(r)]
<1>3. /\ invite' = [invite EXCEPT ![i] = new] /\ Usable(r)
      /\ UNCHANGED <<ready, banned, member, assigned, role, perm, ticket>>
  BY <1>2 DEF CreateInvite
<1>4. /\ rev \in 0..MaxRev /\ (r \in Custom => rev = role[r].rev /\ rev \in Nat)
  BY <1>1, Names DEF Typed, RoleRow
<1>5. /\ explicitKeys(r) \in SUBSET Keys
      /\ r \in BuiltIn => explicitKeys(r) = orgPreset[r]
      /\ r \in Custom => explicitKeys(r) = role[r].grants
  <2>1. CASE r \in BuiltIn
    BY <2>1, Presets, Names DEF explicitKeys
  <2>2. CASE r \notin BuiltIn
    <3>1. r \in Custom /\ role[r] \in RoleRow /\ explicitKeys(r) = role[r].grants
      BY <1>1, <2>2 DEF Typed, explicitKeys
    <3>2. QED
      BY <2>2, <3>1 DEF RoleRow, Keys
  <2>3. QED
    BY <2>1, <2>2
<1>6. r \in Custom => role[r].st = "live"
  BY <1>1, <1>3, Names DEF Usable, Granted
<1>7. BaseOf(r) \in BuiltIn /\ r \in RoleIds /\ r # "none" /\ 1 \in 1..MaxCode /\ u \in User
  BY Names DEF BaseOf, BuiltIn, RoleIds
<1> HIDE DEF rev
<1>8. /\ new \in Offer /\ new.role = r /\ new.rev = rev /\ new.offer = explicitKeys(r)
  BY <1>4, <1>5, <1>7 DEF Offer
<1> HIDE DEF new
<1>9. r \in Custom => rev <= role[r].rev
  BY <1>4
<1>10. OffersRole(new, r)
  BY <1>4, <1>5, <1>6, <1>7, <1>8, <1>9 DEF OffersRole
<1>11. new \in {[st |-> "gone"]} \cup Offer
  BY <1>8
<1>12. /\ invite' \in [Invite -> {NoInvite, [st |-> "gone"]} \cup Offer]
       /\ Offering'
  BY <1>1, <1>3, <1>10, <1>11, InviteChanges
<1>13. QED
  BY <1>3, <1>12, OnlyInvites

(* A resend and the expiry leave the offer as it was. *)
LEMMA OfferStays ==
    ASSUME IInv, NEW i \in Invite, Pending(i), NEW st \in {"pending", "expired"},
           NEW c \in 1..MaxCode,
           invite' = [invite EXCEPT ![i] = [invite[i] EXCEPT !.st = st, !.code = c]],
           UNCHANGED <<ready, banned, member, assigned, role, perm, ticket>>
    PROVE  IInv'
<1> DEFINE new == [invite[i] EXCEPT !.st = st, !.code = c]
<1>1. Typed /\ Offering
  BY DEF IInv
<1>2. invite[i] \in Offer
  BY <1>1, PendingOffer
<1>3. /\ new \in Offer /\ new.role = invite[i].role /\ new.base = invite[i].base
      /\ new.rev = invite[i].rev /\ new.offer = invite[i].offer
  BY <1>2 DEF Offer
<1> HIDE DEF new
<1>4. PICK r \in BuiltIn \cup Custom : r = Offered(i)
  BY <1>1, PendingOffer
<1>5. OffersRole(new, r)
  <2>1. /\ r \in BuiltIn => invite[i].offer = orgPreset[r]
        /\ r \in Custom => /\ role[r].st = "live" /\ invite[i].rev <= role[r].rev
                           /\ invite[i].rev = role[r].rev => invite[i].offer = role[r].grants
    BY <1>1, <1>4 DEF Offering
  <2>2. r = IF new.role = "none" THEN new.base ELSE new.role
    BY <1>3, <1>4 DEF Offered
  <2>3. QED
    BY <1>3, <2>1, <2>2 DEF OffersRole
<1>6. invite' = [invite EXCEPT ![i] = new]
  BY DEF new
<1>7. /\ invite' \in [Invite -> {NoInvite, [st |-> "gone"]} \cup Offer]
      /\ Offering'
  <2>1. new \in {[st |-> "gone"]} \cup Offer
    BY <1>3
  <2>2. QED
    BY <1>1, <1>5, <1>6, <2>1, InviteChanges
<1>8. QED
  BY <1>7, OnlyInvites

LEMMA RenewRequestKeeps ==
    ASSUME IInv, NEW a \in User, RenewRequest(a)
    PROVE  IInv'
<1>1. Typed /\ Offering
  BY DEF IInv
<1>2. ASSUME NEW i \in Invite, resendPermissionInvite(a, i) PROVE IInv'
  <2>1. /\ invite' = [invite EXCEPT ![i].st = "pending", ![i].code = @ + 1]
        /\ Pending(i) /\ invite[i].code < MaxCode
        /\ UNCHANGED <<ready, banned, member, assigned, role, perm, ticket>>
    BY <1>2 DEF resendPermissionInvite
  <2>2. invite[i] \in Offer /\ invite[i].code \in 1..MaxCode
    BY <1>1, <2>1, PendingOffer DEF Offer
  <2>3. PICK c \in 1..MaxCode : c = invite[i].code + 1
    <3>1. PICK d \in 1..MaxCode : d = invite[i].code
      BY <2>2
    <3>2. d < MaxCode /\ MaxCode \in Nat
      BY <2>1, <3>1
    <3>3. d + 1 \in 1..MaxCode
      BY <3>2
    <3>4. QED
      BY <3>1, <3>3
  <2>4. invite' = [invite EXCEPT ![i] = [invite[i] EXCEPT !.st = "pending", !.code = c]]
    BY <1>1, <2>1, <2>2, <2>3 DEF Typed, Offer
  <2>5. QED
    BY <2>1, <2>4, OfferStays
<1>3. ASSUME NEW i \in Invite, DeleteOrgInvite(a, i) PROVE IInv'
  <2> DEFINE new == [st |-> "gone"]
  <2>1. /\ invite' = [invite EXCEPT ![i] = new] /\ "owner" \in BuiltIn
        /\ UNCHANGED <<ready, banned, member, assigned, role, perm, ticket>>
    BY <1>3 DEF DeleteOrgInvite, BuiltIn
  <2>2. new \in {[st |-> "gone"]} \cup Offer /\ new \notin Offer
    BY DEF Offer
  <2> HIDE DEF new
  <2>3. /\ invite' \in [Invite -> {NoInvite, [st |-> "gone"]} \cup Offer]
        /\ Offering'
    BY <1>1, <2>1, <2>2, InviteChanges
  <2>4. QED
    BY <2>1, <2>3, OnlyInvites
<1>4. QED
  BY <1>2, <1>3 DEF RenewRequest

LEMMA ExpireKeeps ==
    ASSUME IInv, NEW i \in Invite, Expire(i)
    PROVE  IInv'
<1>1. Typed /\ Pending(i)
  BY DEF IInv, Expire, Pending
<1>2. invite[i] \in Offer /\ invite[i].code \in 1..MaxCode
  BY <1>1, PendingOffer DEF Offer
<1>3. /\ invite' = [invite EXCEPT ![i].st = "expired"]
      /\ UNCHANGED <<ready, banned, member, assigned, role, perm, ticket>>
  BY DEF Expire
<1>4. invite' = [invite EXCEPT ![i] = [invite[i] EXCEPT !.st = "expired", !.code = invite[i].code]]
  BY <1>1, <1>2, <1>3 DEF Typed, Offer
<1>5. QED
  BY <1>1, <1>2, <1>3, <1>4, OfferStays

-----------------------------------------------------------------------------
(* The acceptance: a membership under the role offered, and no invitation. *)

LEMMA Accepted ==
    ASSUME IInv, NEW u \in User, acceptPermissionInvite(u)
    PROVE  \E i \in Invite, r \in BuiltIn \cup Custom :
              /\ i = ticket[u].id /\ Pending(i)
              /\ ready /\ (r \in Custom => role[r].st = "live")
              /\ Member(u, BaseOf(r), r) /\ BaseOf(r) \in BuiltIn
              /\ requireInvitationAuthority(invite[i].issuer, r) /\ by' = invite[i].issuer
              /\ invite[i].issuer \in User
              /\ invite' = [invite EXCEPT ![i] = [st |-> "gone"]]
              /\ ticket' = [ticket EXCEPT ![u] = NoTicket]
              /\ UNCHANGED <<ready, banned, role, perm>>
              /\ r \in Custom => invite[i].offer = role[r].grants
              /\ r \in BuiltIn => invite[i].offer = orgPreset[r]
<1>1. Typed /\ Offering
  BY DEF IInv
<1> DEFINE i == ticket[u].id
           r == Offered(i)
<1>2. /\ ticket[u] # NoTicket /\ ready /\ invite[i].st = "pending"
      /\ Unrevised(i) /\ requireInvitationAuthority(invite[i].issuer, r)
      /\ Member(u, BaseOf(r), r) /\ by' = invite[i].issuer
      /\ invite' = [invite EXCEPT ![i] = [st |-> "gone"]]
      /\ ticket' = [ticket EXCEPT ![u] = NoTicket]
      /\ UNCHANGED <<ready, banned, role, perm>>
  BY DEF acceptPermissionInvite, ClaimInvite
<1>3. i \in Invite /\ Pending(i)
  BY <1>1, <1>2 DEF Typed, Ticket, Pending
<1> HIDE DEF i
<1>4. r \in BuiltIn \cup Custom /\ invite[i].issuer \in User
  BY <1>1, <1>3, PendingOffer
<1>5. /\ r \in BuiltIn => invite[i].offer = orgPreset[r]
      /\ r \in Custom => role[r].st = "live" /\ invite[i].offer = role[r].grants
  BY <1>1, <1>2, <1>3 DEF Offering, Unrevised
<1> HIDE DEF r
<1>6. BaseOf(r) \in BuiltIn
  BY <1>4 DEF BaseOf, BuiltIn
<1>7. QED
  BY <1>2, <1>3, <1>4, <1>5, <1>6 DEF i, r

LEMMA AcceptKeeps ==
    ASSUME IInv, NEW u \in User, acceptPermissionInvite(u)
    PROVE  IInv'
<1>1. Typed /\ Assigned /\ Granted /\ Offering
  BY DEF IInv
<1>2. PICK i \in Invite, r \in BuiltIn \cup Custom :
        /\ ready /\ (r \in Custom => role[r].st = "live")
        /\ Member(u, BaseOf(r), r) /\ BaseOf(r) \in BuiltIn
        /\ invite' = [invite EXCEPT ![i] = [st |-> "gone"]]
        /\ ticket' = [ticket EXCEPT ![u] = NoTicket]
        /\ UNCHANGED <<ready, banned, role, perm>>
  BY Accepted
<1>3. r \in RoleIds
  BY DEF RoleIds
<1>4. /\ member' \in [User -> BuiltIn \cup {"none"}] /\ assigned' \in [User -> RoleIds]
      /\ Assigned'
  BY <1>1, <1>2, <1>3, MemberChanges
<1>5. /\ invite' \in [Invite -> {NoInvite, [st |-> "gone"]} \cup Offer]
      /\ Offering'
  <2> DEFINE new == [st |-> "gone"]
  <2>1. new \in {[st |-> "gone"]} \cup Offer /\ new \notin Offer
    BY DEF Offer
  <2>2. invite' = [invite EXCEPT ![i] = new]
    BY <1>2
  <2> HIDE DEF new
  <2>3. QED
    BY <1>1, <1>2, <2>1, <2>2, InviteChanges
<1>6. Typed'
  BY <1>1, <1>2, <1>4, <1>5 DEF Typed
<1>7. Granted'
  BY <1>1, <1>2 DEF Granted
<1>8. QED
  BY <1>4, <1>5, <1>6, <1>7 DEF IInv

-----------------------------------------------------------------------------
(* The other steps. *)

LEMMA OutsideKeeps ==
    ASSUME IInv, NEW u \in User, Outside(u)
    PROVE  IInv'
<1>1. ASSUME NEW b \in BuiltIn, Join(u, b) \/ ChangeRole(u, b) \/ Leave(u) PROVE IInv'
  BY <1>1, JoinLeaveKeeps, ChangeRoleKeeps
<1>2. ASSUME /\ banned' = IF u \in banned THEN banned \ {u} ELSE banned \cup {u}
             /\ UNCHANGED <<ready, member, assigned, role, perm, invite, ticket>>
      PROVE  IInv'
  <2>1. Typed'
    BY <1>2 DEF IInv, Typed
  <2>2. Assigned' /\ Granted'
    BY <1>2 DEF IInv, Assigned, Granted
  <2>3. Offering'
    BY <1>2 DEF IInv, Offering, Pending, Offered
  <2>4. QED
    BY <2>1, <2>2, <2>3 DEF IInv
<1>3. "owner" \in BuiltIn
  BY DEF BuiltIn
<1>4. QED
  BY <1>1, <1>2, <1>3 DEF Outside

LEMMA InitializeKeeps ==
    ASSUME IInv, NEW a \in User, Initialize(a)
    PROVE  IInv'
<1>1. ready' = TRUE /\ UNCHANGED <<banned, member, assigned, role, perm, invite, ticket>>
  BY DEF Initialize
<1>2. Typed'
  BY <1>1 DEF IInv, Typed
<1>3. Assigned' /\ Granted'
  BY <1>1 DEF IInv, Assigned, Granted
<1>4. Offering'
  BY <1>1 DEF IInv, Offering, Pending, Offered
<1>5. QED
  BY <1>2, <1>3, <1>4 DEF IInv

LEMMA LookUpKeeps ==
    ASSUME IInv, NEW u \in User, NEW i \in Invite, LookUp(u, i)
    PROVE  IInv'
<1>1. Typed
  BY DEF IInv
<1>2. /\ Pending(i) /\ ticket' = [ticket EXCEPT ![u] = [id |-> i, code |-> invite[i].code]]
      /\ UNCHANGED <<ready, banned, member, assigned, role, perm, invite>>
  BY DEF LookUp, Rows
<1>3. invite[i].code \in 1..MaxCode
  BY <1>1, <1>2, PendingOffer DEF Offer
<1>4. ticket' \in [User -> {NoTicket} \cup Ticket]
  BY <1>1, <1>2, <1>3 DEF Typed, Ticket
<1>5. Typed'
  BY <1>1, <1>2, <1>4 DEF Typed
<1>6. Assigned' /\ Granted'
  BY <1>2 DEF IInv, Assigned, Granted
<1>7. Offering'
  BY <1>2 DEF IInv, Offering, Pending, Offered
<1>8. QED
  BY <1>5, <1>6, <1>7 DEF IInv

LEMMA Stutters ==
    ASSUME IInv, UNCHANGED vars
    PROVE  IInv'
<1>1. Typed'
  BY DEF IInv, Typed, vars
<1>2. Assigned' /\ Granted'
  BY DEF IInv, Assigned, Granted, vars
<1>3. Offering'
  BY DEF IInv, Offering, Pending, Offered, vars
<1>4. QED
  BY <1>1, <1>2, <1>3 DEF IInv

LEMMA StepKeeps == IInv /\ [Next]_vars => IInv'
<1> SUFFICES ASSUME IInv, [Next]_vars PROVE IInv'
  OBVIOUS
<1>1. ASSUME NEW a \in User, Manage(a) PROVE IInv'
  BY <1>1, RoleRequestKeeps, PermissionRequestKeeps, LibraryRequestKeeps, AssignRequestKeeps,
     MemberRequestKeeps, InviteRequestKeeps, RenewRequestKeeps DEF Manage
<1>2. ASSUME NEW u \in User, acceptPermissionInvite(u) PROVE IInv'
  BY <1>2, AcceptKeeps
<1>3. ASSUME NEW a \in User, Initialize(a) PROVE IInv'
  BY <1>3, InitializeKeeps
<1>4. ASSUME NEW u \in User, Outside(u) \/ Leave(u) PROVE IInv'
  BY <1>4, OutsideKeeps DEF Outside
<1>5. ASSUME NEW i \in Invite, Expire(i) PROVE IInv'
  BY <1>5, ExpireKeeps
<1>6. ASSUME NEW u \in User, NEW i \in Invite, LookUp(u, i) PROVE IInv'
  BY <1>6, LookUpKeeps
<1>7. CASE UNCHANGED vars
  BY <1>7, Stutters
<1>8. CASE Next
  BY <1>1, <1>2, <1>3, <1>4, <1>5, <1>6, <1>8 DEF Next
<1>9. QED
  BY <1>7, <1>8

-----------------------------------------------------------------------------
(* The start. *)

LEMMA InitTrue == Init => IInv
<1> SUFFICES ASSUME Init PROVE IInv
  OBVIOUS
<1>1. /\ ready = FALSE /\ banned = {}
      /\ member = [u \in User |-> IF u = Founder THEN "owner" ELSE "none"]
      /\ assigned = [u \in User |-> "none"]
      /\ role = [r \in Custom |-> NoRole]
      /\ perm = [k \in Grantable |-> "none"]
      /\ ticket = [u \in User |-> NoTicket]
  BY DEF Init
<1>2. MaxRev \in Nat /\ MaxCode \in Nat /\ 0 \in 0..MaxRev /\ 1 \in 1..MaxCode
  OBVIOUS
<1>3. NoRole \in RoleRow
  BY <1>2 DEF NoRole, RoleRow
<1>4. ASSUME NEW b \in BuiltIn, NEW u \in Invited
      PROVE  Legacy(b, u) \in Offer /\ Legacy(b, u).role = "none" /\ Legacy(b, u).base = b
             /\ Legacy(b, u).offer = orgPreset[b]
  <2>1. orgPreset[b] \in SUBSET Keys
    BY Presets
  <2>2. u \in User /\ "none" \in RoleIds
    BY DEF RoleIds
  <2>3. QED
    BY <1>2, <2>1, <2>2 DEF Legacy, Offer
<1>5. ASSUME NEW i \in Invite
      PROVE  \/ invite[i] = NoInvite
             \/ /\ invite[i] \in Offer /\ Offered(i) \in BuiltIn
                /\ invite[i].offer = orgPreset[Offered(i)]
  <2>1. CASE invite = [j \in Invite |-> NoInvite]
    BY <2>1
  <2>2. CASE \E j \in Invite, b \in BuiltIn, u \in Invited :
               invite = [h \in Invite |-> IF h = j THEN Legacy(b, u) ELSE NoInvite]
    <3>1. PICK j \in Invite, b \in BuiltIn, u \in Invited :
             invite = [h \in Invite |-> IF h = j THEN Legacy(b, u) ELSE NoInvite]
      BY <2>2
    <3>2. CASE i = j
      <4>1. invite[i] = Legacy(b, u)
        BY <3>1, <3>2
      <4>2. QED
        BY <1>4, <4>1 DEF Offered
    <3>3. CASE i # j
      BY <3>1, <3>3
    <3>4. QED
      BY <3>2, <3>3
  <2>3. QED
    BY <2>1, <2>2 DEF Init
<1>6. invite \in [Invite -> {NoInvite, [st |-> "gone"]} \cup Offer]
  <2>1. invite = [i \in Invite |-> invite[i]]
    BY DEF Init
  <2>2. QED
    BY <1>5, <2>1
<1>7. Typed
  <2>1. member \in [User -> BuiltIn \cup {"none"}] /\ assigned \in [User -> RoleIds]
    BY <1>1 DEF BuiltIn, RoleIds
  <2>2. role \in [Custom -> RoleRow] /\ perm \in [Grantable -> {"none", "on", "off"}]
    BY <1>1, <1>3
  <2>3. ticket \in [User -> {NoTicket} \cup Ticket]
    BY <1>1
  <2>4. QED
    BY <1>1, <1>6, <2>1, <2>2, <2>3 DEF Typed
<1>8. Assigned /\ Granted
  BY <1>1 DEF Assigned, Granted, NoRole
<1>9. Offering
  BY <1>5, Names DEF Offering, Pending, NoInvite
<1>10. QED
  BY <1>7, <1>8, <1>9 DEF IInv

(* Memberships, roles, permissions, invitations and acceptances in flight  *)
(* have their types, whatever is requested in whatever order.              *)
THEOREM TypeCorrect == Spec => [](TypeOK /\ IInv)
<1>1. IInv /\ [Next]_vars => IInv'
  BY StepKeeps
<1>2. IInv => TypeOK
  <2> SUFFICES ASSUME IInv PROVE TypeOK
    OBVIOUS
  <2>1. Typed
    BY DEF IInv
  <2>2. ASSUME NEW i \in Invite, Pending(i)
        PROVE  invite[i].rev <= MaxRev /\ invite[i].code \in 1..MaxCode
    <3>1. invite[i] \in Offer
      BY <2>1, <2>2, PendingOffer
    <3>2. invite[i].rev \in 0..MaxRev /\ invite[i].code \in 1..MaxCode
      BY <3>1 DEF Offer
    <3>3. QED
      BY <3>2
  <2>3. QED
    BY <2>1, <2>2 DEF Typed, TypeOK, RoleIds, RoleRow, Ticket
<1>3. QED
  BY <1>1, <1>2, InitTrue, PTL DEF Spec

(* A member acts in one identity: an explicit role is a live role of its   *)
(* base class, every grant of a role is installed and a pending invitation *)
(* names a live role (currentMembership, DeleteRole's InUse).              *)
THEOREM ActsInOneIdentity == Spec => []OneIdentity
<1>1. IInv => OneIdentity
  <2> SUFFICES ASSUME IInv PROVE OneIdentity
    OBVIOUS
  <2>1. Typed /\ Assigned /\ Granted /\ Offering
    BY DEF IInv
  <2>2. ASSUME NEW i \in Invite, Pending(i), invite[i].role \in Custom
        PROVE  role[invite[i].role].st = "live"
    <3>1. Offered(i) = invite[i].role
      BY <2>1, <2>2, PendingOffer, Names
    <3>2. QED
      BY <2>1, <2>2, <3>1 DEF Offering
  <2>3. QED
    BY <2>1, <2>2 DEF Assigned, Granted, OneIdentity
<1>2. QED
  BY <1>1, TypeCorrect, PTL

(* An invitation is accepted by the code mailed last and grants the keys   *)
(* its role had when it was offered: a role revised since is refused       *)
(* (acceptPermissionInvite).                                               *)
THEOREM GrantsWhatItOffered == Spec => OfferKept
<1> DEFINE Kept ==
      \A u \in User : LET t == ticket[u] IN
        t # NoTicket /\ acceptPermissionInvite(u) =>
            /\ invite[t.id].st = "pending" /\ invite[t.id].code = t.code
            /\ explicitKeys(assigned'[u]) = invite[t.id].offer
<1>1. IInv /\ [Next]_vars => [Kept]_vars
  <2> SUFFICES ASSUME IInv, NEW u \in User, acceptPermissionInvite(u)
               PROVE  /\ invite[ticket[u].id].st = "pending"
                      /\ invite[ticket[u].id].code = ticket[u].code
                      /\ explicitKeys(assigned'[u]) = invite[ticket[u].id].offer
    BY DEF Kept
  <2>1. /\ invite[ticket[u].id].st = "pending"
        /\ invite[ticket[u].id].code = ticket[u].code
    BY DEF acceptPermissionInvite, ClaimInvite
  <2>2. PICK i \in Invite, r \in BuiltIn \cup Custom :
          /\ i = ticket[u].id /\ Member(u, BaseOf(r), r)
          /\ r \in Custom => invite[i].offer = role[r].grants
          /\ r \in BuiltIn => invite[i].offer = orgPreset[r]
    BY Accepted
  <2>3. assigned'[u] = r
    BY <2>2 DEF Member, IInv, Typed
  <2>4. explicitKeys(r) = invite[i].offer
    BY <2>2, Names DEF explicitKeys
  <2>5. QED
    BY <2>1, <2>2, <2>3, <2>4
<1>2. QED
  BY <1>1, TypeCorrect, PTL DEF Spec, OfferKept

-----------------------------------------------------------------------------
(* What a step gives to whom. *)

LEMMA Delegated ==
    ASSUME NEW a, NEW r, NEW K, delegation(a, r, K), ~IsOwner(a)
    PROVE  current(a) /\ K \subseteq KeysOf(a)
<1>1. current(a) /\ K \subseteq effectiveKeys(RoleOf(a))
  BY DEF delegation
<1>2. QED
  BY <1>1 DEF current, KeysOf

LEMMA RolesGiven ==
    ASSUME IInv, NEW r \in Custom, NEW new, role' = [role EXCEPT ![r] = new],
           UNCHANGED <<ready, member, assigned, perm>>, NEW u \in User
    PROVE  Gained(u) \subseteq new.grants
<1>1. /\ role'[r] = new /\ \A q \in Custom : q # r => role'[q] = role[q]
  BY DEF IInv, Typed
<1>2. RoleOf(u)' = RoleOf(u) /\ On' = On
  BY DEF RoleOf, On
<1>3. CASE RoleOf(u) = r
  <2>1. effectiveKeys(r)' \subseteq new.grants
    BY <1>1, Names DEF effectiveKeys
  <2>2. KeysOf(u)' \subseteq new.grants
    BY <1>2, <1>3, <2>1, Names DEF KeysOf, BuiltIn
  <2>3. QED
    BY <2>2 DEF Gained
<1>4. CASE RoleOf(u) # r /\ member[u] # "none"
  <2>1. RoleOf(u) \in BuiltIn \cup Custom
    BY <1>4 DEF RoleOf, IInv, Typed, RoleIds
  <2>2. PICK q \in BuiltIn \cup Custom : q = RoleOf(u) /\ q # r
    BY <1>4, <2>1
  <2>3. effectiveKeys(q)' = effectiveKeys(q)
    BY <1>1, <2>2 DEF effectiveKeys, Usable
  <2>4. KeysOf(u)' = KeysOf(u)
    BY <1>2, <2>2, <2>3 DEF KeysOf
  <2>5. QED
    BY <2>4 DEF Gained
<1>5. CASE member[u] = "none"
  BY <1>5 DEF Gained, KeysOf
<1>6. QED
  BY <1>3, <1>4, <1>5

LEMMA OwnerRole ==
    ASSUME IInv, NEW u \in User, RoleOf(u) = "owner"
    PROVE  member[u] = "owner"
BY DEF IInv, Assigned, RoleOf, BaseOf, BuiltIn

LEMMA PermissionsGiven ==
    ASSUME IInv, NEW k \in Business, NEW st, perm' = [perm EXCEPT ![k] = st],
           UNCHANGED <<ready, member, assigned, role>>, NEW u \in User
    PROVE  /\ Gained(u) \subseteq {k} /\ (st = "none" => Gained(u) = {})
           /\ perm[k] = "none" /\ Gained(u) # {} => member[u] = "owner"
<1>1. k \in Grantable /\ perm'[k] = st /\ \A h \in Grantable : h # k => perm'[h] = perm[h]
  BY DEF IInv, Typed
<1>2. RoleOf(u)' = RoleOf(u) /\ \A r : Usable(r)' = Usable(r)
  BY DEF RoleOf, Usable
<1>3. ASSUME NEW h \in Gained(u)
      PROVE  h = k /\ st # "none" /\ (perm[k] = "none" => member[u] = "owner")
  <2>1. /\ ready /\ member[u] # "none" /\ h \in KeysOf(u)' /\ h \notin KeysOf(u)
    BY <1>3 DEF Gained, KeysOf
  <2>2. RoleOf(u) \in BuiltIn \cup Custom
    BY <2>1 DEF RoleOf, IInv, Typed, RoleIds
  <2>3. CASE h \in effectiveKeys(RoleOf(u))'
    <3>1. RoleOf(u) \in Custom /\ h \in role[RoleOf(u)].grants /\ perm'[h] = "on"
          /\ Usable(RoleOf(u)) /\ perm[h] # "on"
      BY <1>2, <2>1, <2>2, <2>3 DEF effectiveKeys, KeysOf
    <3>2. h \in Grantable /\ perm[h] # "none"
      BY <3>1 DEF IInv, Typed, RoleRow, Granted
    <3>3. QED
      BY <1>1, <3>1, <3>2
  <2>4. CASE RoleOf(u) = "owner" /\ h \in On'
    <3>1. h \in Business /\ perm'[h] = "on" /\ perm[h] # "on" /\ h \in Grantable
      BY <2>1, <2>4 DEF On, KeysOf
    <3>2. QED
      BY <1>1, <2>4, <3>1, OwnerRole
  <2>5. QED
    BY <1>2, <2>1, <2>3, <2>4 DEF KeysOf
<1>4. QED
  BY <1>3

LEMMA MembersGiven ==
    ASSUME IInv, NEW u \in User, NEW b \in BuiltIn \cup {"none"}, NEW r \in RoleIds, Member(u, b, r),
           UNCHANGED <<ready, role, perm>>, NEW v \in User, NEW h \in Gained(v)
    PROVE  /\ v = u /\ b # "none"
           /\ r # "none" /\ r # "owner" => h \in explicitKeys(r)
           /\ r = "none" /\ b # "owner" => h \in orgPreset[b]
<1>1. \A w \in User : IF w = u THEN member'[w] = b /\ assigned'[w] = r
                      ELSE member'[w] = member[w] /\ assigned'[w] = assigned[w]
  BY DEF Member, IInv, Typed
<1>2. /\ h \in KeysOf(v)' /\ h \notin KeysOf(v) /\ member'[v] # "none" /\ ready
  BY DEF Gained, KeysOf
<1>3. v = u
  <2> SUFFICES ASSUME v # u PROVE FALSE
    OBVIOUS
  <2>1. member'[v] = member[v] /\ RoleOf(v)' = RoleOf(v) /\ On' = On
    BY <1>1 DEF RoleOf, On
  <2>2. \A q : effectiveKeys(q)' = effectiveKeys(q)
    BY DEF effectiveKeys, Usable
  <2>3. KeysOf(v)' = KeysOf(v)
    BY <2>1, <2>2 DEF KeysOf
  <2>4. QED
    BY <1>2, <2>3
<1>4. PICK q : q = RoleOf(u)' /\ q = IF r # "none" THEN r ELSE b
  BY <1>1 DEF RoleOf
<1>5. q # "owner" => h \in explicitKeys(q)
  <2> SUFFICES ASSUME q # "owner" PROVE h \in explicitKeys(q)
    OBVIOUS
  <2>1. h \in effectiveKeys(q)'
    BY <1>2, <1>3, <1>4 DEF KeysOf
  <2>2. QED
    BY <2>1 DEF effectiveKeys, explicitKeys
<1>6. b # "none"
  BY <1>1, <1>2, <1>3
<1>7. r = "none" /\ b # "owner" => explicitKeys(b) = orgPreset[b]
  BY <1>6 DEF explicitKeys
<1>8. QED
  BY <1>3, <1>4, <1>5, <1>6, <1>7

(* What the theorem asks of a step a member takes on its own authority. *)
Bounded(a, u) ==
    Gained(u) # {} /\ ~(member[u] = "owner" /\ member'[u] = "owner") =>
        current(a) /\ (IsOwner(a) \/ Gained(u) \subseteq KeysOf(a))

LEMMA RoleRequestBounded ==
    ASSUME IInv, NEW a \in User, RoleRequest(a), NEW u \in User
    PROVE  Bounded(a, u)
<1>1. ASSUME NEW r \in Custom, NEW K, NEW q, NEW new, role' = [role EXCEPT ![r] = new],
             UNCHANGED <<ready, member, assigned, perm>>,
             current(a), delegation(a, q, K), new.grants \subseteq K
      PROVE  Bounded(a, u)
  <2>1. Gained(u) \subseteq K
    BY <1>1, RolesGiven
  <2>2. IsOwner(a) \/ K \subseteq KeysOf(a)
    BY <1>1, Delegated
  <2>3. QED
    BY <1>1, <2>1, <2>2 DEF Bounded
<1>2. ASSUME NEW r \in Custom, NEW G \in SUBSET Grantable, CreateRole(a, r, G)
      PROVE  Bounded(a, u)
  <2> DEFINE new == [st |-> "live", enabled |-> TRUE, rev |-> 1, grants |-> G]
  <2>1. /\ role' = [role EXCEPT ![r] = new] /\ new.grants \subseteq G
        /\ current(a) /\ delegation(a, "none", G)
        /\ UNCHANGED <<ready, member, assigned, perm>>
    BY <1>2 DEF CreateRole, CheckPermission
  <2> HIDE DEF new
  <2>2. QED
    BY <1>1, <2>1
<1>3. ASSUME NEW r \in Custom, NEW G \in SUBSET Grantable, SetRolePermissions(a, r, G)
      PROVE  Bounded(a, u)
  <2> DEFINE new == [role[r] EXCEPT !.grants = G, !.rev = role[r].rev + 1]
  <2>1. /\ role' = [role EXCEPT ![r].grants = G, ![r].rev = @ + 1]
        /\ current(a) /\ delegation(a, r, role[r].grants \cup G)
        /\ UNCHANGED <<ready, member, assigned, perm>>
    BY <1>3 DEF SetRolePermissions, CheckPermission
  <2>2. role \in [Custom -> RoleRow] /\ role[r] \in RoleRow
    BY DEF IInv, Typed
  <2>3. role' = [role EXCEPT ![r] = new] /\ new.grants = G
    BY <2>1, <2>2 DEF RoleRow
  <2> HIDE DEF new
  <2>4. QED
    BY <1>1, <2>1, <2>3
<1>4. ASSUME NEW r \in Custom, NEW on \in BOOLEAN, UpdateRole(a, r, on)
      PROVE  Bounded(a, u)
  <2> DEFINE new == [role[r] EXCEPT !.enabled = on, !.rev = role[r].rev + 1]
  <2>1. /\ role' = [role EXCEPT ![r].enabled = on, ![r].rev = @ + 1]
        /\ current(a) /\ delegation(a, r, role[r].grants)
        /\ UNCHANGED <<ready, member, assigned, perm>>
    BY <1>4 DEF UpdateRole, CheckPermission
  <2>2. role \in [Custom -> RoleRow] /\ role[r] \in RoleRow
    BY DEF IInv, Typed
  <2>3. role' = [role EXCEPT ![r] = new] /\ new.grants = role[r].grants
    BY <2>1, <2>2 DEF RoleRow
  <2> HIDE DEF new
  <2>4. QED
    BY <1>1, <2>1, <2>3
<1>5. ASSUME NEW r \in Custom, DeleteRole(a, r)
      PROVE  Bounded(a, u)
  <2> DEFINE new == [NoRole EXCEPT !.st = "gone"]
  <2>1. /\ role' = [role EXCEPT ![r] = new] /\ new.grants = {}
        /\ current(a) /\ delegation(a, r, role[r].grants)
        /\ UNCHANGED <<ready, member, assigned, perm>>
    BY <1>5 DEF DeleteRole, CheckPermission, NoRole
  <2> HIDE DEF new
  <2>2. QED
    BY <1>1, <2>1
<1>6. QED
  BY <1>2, <1>3, <1>4, <1>5 DEF RoleRequest

LEMMA PermissionRequestBounded ==
    ASSUME IInv, NEW a \in User, PermissionRequest(a), NEW u \in User
    PROVE  Bounded(a, u)
<1>1. ASSUME NEW k \in Business, CreatePermission(a, k)
      PROVE  Bounded(a, u)
  <2>1. /\ perm' = [perm EXCEPT ![k] = "on"] /\ perm[k] = "none"
        /\ UNCHANGED <<ready, member, assigned, role>>
    BY <1>1 DEF CreatePermission
  <2>2. Gained(u) # {} => member[u] = "owner" /\ member'[u] = "owner"
    BY <2>1, PermissionsGiven
  <2>3. QED
    BY <2>2 DEF Bounded
<1>2. ASSUME NEW k \in Business, DeletePermission(a, k)
      PROVE  Bounded(a, u)
  <2>1. /\ perm' = [perm EXCEPT ![k] = "none"]
        /\ UNCHANGED <<ready, member, assigned, role>>
    BY <1>2 DEF DeletePermission
  <2>2. Gained(u) = {}
    BY <2>1, PermissionsGiven
  <2>3. QED
    BY <2>2 DEF Bounded
<1>3. ASSUME NEW k \in Business, NEW st \in {"on", "off"}, UpdatePermission(a, k, st)
      PROVE  Bounded(a, u)
  <2>1. /\ perm' = [perm EXCEPT ![k] = st] /\ current(a) /\ delegation(a, "none", {k})
        /\ UNCHANGED <<ready, member, assigned, role>>
    BY <1>3 DEF UpdatePermission, CheckPermission
  <2>2. Gained(u) \subseteq {k}
    BY <2>1, PermissionsGiven
  <2>3. IsOwner(a) \/ {k} \subseteq KeysOf(a)
    BY <2>1, Delegated
  <2>4. QED
    BY <2>1, <2>2, <2>3 DEF Bounded
<1>4. QED
  BY <1>1, <1>2, <1>3 DEF PermissionRequest

LEMMA AssignRequestBounded ==
    ASSUME IInv, NEW a \in User, AssignRequest(a), NEW v \in User
    PROVE  Bounded(a, v)
<1>1. PICK u \in User, r \in BuiltIn \cup Custom :
        /\ current(a) /\ (~IsOwner(a) => r # "owner")
        /\ delegation(a, "none", explicitKeys(RoleOf(u)) \cup explicitKeys(r))
        /\ Member(u, BaseOf(r), r) /\ UNCHANGED <<ready, role, perm>>
  BY DEF AssignRequest, SetMemberRole, CheckPermission
<1>2. BaseOf(r) \in BuiltIn \cup {"none"} /\ r \in RoleIds /\ r # "none"
  BY Names DEF BaseOf, BuiltIn, RoleIds
<1>3. ASSUME ~IsOwner(a), NEW h \in Gained(v)
      PROVE  h \in KeysOf(a)
  <2>1. h \in explicitKeys(r)
    BY <1>1, <1>2, <1>3, MembersGiven
  <2>2. explicitKeys(RoleOf(u)) \cup explicitKeys(r) \subseteq KeysOf(a)
    BY <1>1, <1>3, Delegated
  <2>3. QED
    BY <2>1, <2>2
<1>4. QED
  BY <1>1, <1>3 DEF Bounded

(* The fixed-role API: a base role, explicit or not, or none at all. *)
LEMMA FixedRole ==
    ASSUME IInv, NEW u \in User, NEW b \in BuiltIn, ChangeRole(u, b) \/ Join(u, b),
           NEW v \in User, NEW h \in Gained(v), b # "owner"
    PROVE  h \in orgPreset[b]
<1>1. PICK r \in {"none", b} : Member(u, b, r) /\ UNCHANGED <<ready, role, perm>>
  <2>1. CASE ChangeRole(u, b)
    <3>1. resetBuiltinAssignment(u, b) \in {"none", b}
      BY DEF resetBuiltinAssignment, IInv, Assigned
    <3>2. QED
      BY <2>1, <3>1 DEF ChangeRole
  <2>2. CASE Join(u, b)
    BY <2>2 DEF Join
  <2>3. QED
    BY <2>1, <2>2
<1>2. r \in RoleIds /\ b \in BuiltIn \cup {"none"} /\ explicitKeys(b) = orgPreset[b] /\ b # "none"
  BY Names DEF explicitKeys
<1>3. QED
  BY <1>1, <1>2, MembersGiven

LEMMA LeaveBounded ==
    ASSUME IInv, NEW u \in User, Leave(u), NEW v \in User
    PROVE  Gained(v) = {}
<1>1. Member(u, "none", "none") /\ UNCHANGED <<ready, role, perm>>
  BY DEF Leave
<1>2. "none" \in RoleIds
  BY DEF RoleIds
<1>3. QED
  BY <1>1, <1>2, MembersGiven

LEMMA MemberRequestBounded ==
    ASSUME IInv, NEW a \in User, MemberRequest(a), NEW v \in User
    PROVE  Bounded(a, v)
<1>1. ASSUME NEW u \in User, NEW b \in BuiltIn, current(a), authorizeFixedAssignment(a, u, b),
             ChangeRole(u, b) \/ Join(u, b)
      PROVE  Bounded(a, v)
  <2>1. ASSUME ~IsOwner(a), NEW h \in Gained(v)
        PROVE  h \in KeysOf(a)
    <3>1. b # "owner"
      BY <1>1, <2>1 DEF authorizeFixedAssignment
    <3>2. PICK K : delegation(a, "none", orgPreset[b] \cup K)
      BY <1>1 DEF authorizeFixedAssignment
    <3>3. orgPreset[b] \cup K \subseteq KeysOf(a)
      BY <2>1, <3>2, Delegated
    <3>4. h \in orgPreset[b]
      BY <1>1, <2>1, <3>1, FixedRole
    <3>5. QED
      BY <3>3, <3>4
  <2>2. QED
    BY <1>1, <2>1 DEF Bounded
<1>2. ASSUME NEW u \in User, Leave(u) PROVE Bounded(a, v)
  BY <1>2, LeaveBounded DEF Bounded
<1>3. PICK u \in User, b \in BuiltIn :
        \/ current(a) /\ authorizeFixedAssignment(a, u, b) /\ (ChangeRole(u, b) \/ Join(u, b))
        \/ Leave(u)
  BY DEF MemberRequest, UpdateMemberRole, AddMember, RemoveMember, CheckPermission, BuiltIn
<1>4. QED
  BY <1>1, <1>2, <1>3

(* Whoever keeps membership and assignment, under the same roles and       *)
(* permissions, keeps its keys.                                            *)
LEMMA NothingGiven ==
    ASSUME UNCHANGED <<ready, member, assigned, role, perm>>, NEW u \in User
    PROVE  Gained(u) = {}
<1>1. RoleOf(u)' = RoleOf(u) /\ On' = On /\ member'[u] = member[u]
  BY DEF RoleOf, On
<1>2. \A q : effectiveKeys(q)' = effectiveKeys(q)
  BY DEF effectiveKeys, Usable
<1>3. KeysOf(u)' = KeysOf(u)
  BY <1>1, <1>2 DEF KeysOf
<1>4. QED
  BY <1>3 DEF Gained

LEMMA ManageBounded ==
    ASSUME IInv, NEW a \in User, Manage(a), NEW u \in User
    PROVE  Bounded(a, u)
<1>1. CASE LibraryRequest(a)
  <2>1. IsOwner(a) /\ current(a)
    BY <1>1 DEF LibraryRequest, UpdateLibraryPermissions, IsOwner
  <2>2. QED
    BY <2>1 DEF Bounded
<1>2. CASE InviteRequest(a) \/ RenewRequest(a)
  <2>1. UNCHANGED <<ready, member, assigned, role, perm>>
    BY <1>2 DEF InviteRequest, CreateInvite, RenewRequest, resendPermissionInvite, DeleteOrgInvite
  <2>2. QED
    BY <2>1, NothingGiven DEF Bounded
<1>3. QED
  BY <1>1, <1>2, RoleRequestBounded, PermissionRequestBounded, AssignRequestBounded,
     MemberRequestBounded DEF Manage

LEMMA AcceptBounded ==
    ASSUME IInv, NEW u \in User, acceptPermissionInvite(u), NEW v \in User
    PROVE  \E a \in User : by' = a /\ Bounded(a, v)
<1>1. PICK i \in Invite, r \in BuiltIn \cup Custom :
        /\ Member(u, BaseOf(r), r) /\ BaseOf(r) \in BuiltIn
        /\ requireInvitationAuthority(invite[i].issuer, r) /\ by' = invite[i].issuer
        /\ invite[i].issuer \in User /\ UNCHANGED <<ready, role, perm>>
  BY Accepted
<1>2. PICK a \in User : a = by' /\ requireInvitationAuthority(a, r)
  BY <1>1
<1>3. current(a) /\ authorizeInviteRole(a, r)
  BY <1>2 DEF requireInvitationAuthority, CheckPermission
<1>4. r \in RoleIds /\ r # "none" /\ BaseOf(r) \in BuiltIn \cup {"none"}
  BY <1>1, Names
<1>5. ASSUME ~IsOwner(a), NEW h \in Gained(v)
      PROVE  h \in KeysOf(a)
  <2>1. r # "owner" /\ delegation(a, "none", explicitKeys(r))
    BY <1>3, <1>5 DEF authorizeInviteRole
  <2>2. h \in explicitKeys(r)
    BY <1>1, <1>4, <1>5, <2>1, MembersGiven
  <2>3. QED
    BY <1>5, <2>1, <2>2, Delegated
<1>6. Bounded(a, v)
  BY <1>3, <1>5 DEF Bounded
<1>7. QED
  BY <1>2, <1>6

(* No step taken on a member's authority, an acceptance on its issuer's    *)
(* included, gives anybody a key that member does not hold at that moment, *)
(* unless it is an owner (delegation, requireInvitationAuthority).         *)
THEOREM Delegation == Spec => NoEscalation
<1> DEFINE Kept ==
      \A u \in User :
        Gained(u) # {} /\ by' \in User /\ ~(member[u] = "owner" /\ member'[u] = "owner") =>
            /\ current(by')
            /\ IsOwner(by') \/ Gained(u) \subseteq KeysOf(by')
<1>1. IInv /\ [Next]_vars => [Kept]_vars
  <2> SUFFICES ASSUME IInv, Next, NEW u \in User, by' \in User,
                      Gained(u) # {}, ~(member[u] = "owner" /\ member'[u] = "owner")
               PROVE  /\ current(by')
                      /\ IsOwner(by') \/ Gained(u) \subseteq KeysOf(by')
    BY DEF Kept
  <2>1. PICK a \in User : by' = a /\ Bounded(a, u)
    BY ManageBounded, AcceptBounded DEF Next
  <2>2. current(a) /\ (IsOwner(a) \/ Gained(u) \subseteq KeysOf(a))
    BY <2>1 DEF Bounded
  <2>3. QED
    BY <2>1, <2>2
<1>2. QED
  BY <1>1, TypeCorrect, PTL DEF Spec, NoEscalation
=============================================================================
