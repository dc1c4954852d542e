--------------------------- MODULE OrgMembership ---------------------------
(***************************************************************************)
(* Organizations, their members and the counters kept beside them: the     *)
(* transactions of internal/service/org.go, org_admin.go, org_invite.go    *)
(* and account_deletion.go with fixed roles (granular permissions off).  A *)
(* transaction takes row locks in the order its statements do, sees the    *)
(* last committed rows (read committed), and publishes its writes when it  *)
(* commits; what it wrote before is locked, so the commit applies it all.  *)
(***************************************************************************)
EXTENDS Integers, FiniteSets

CONSTANTS
    Org, User,
    Txn,        \* transactions in flight
    Plans,      \* what clients do in one behaviour: see PlanAssumption
    MaxOrgs,    \* OrgServiceConfig.MaxOrgsPerUser
    NoUser      \* the actor of an operation of the platform's staff

Kind == {"add", "remove", "role", "admin_remove", "delete", "active", "close"}
ASSUME OrgAssumption == MaxOrgs \in Nat \ {0} /\ NoUser \notin User
(* Tables have finitely many rows, and "none" stands for NULL.             *)
ASSUME TableAssumption == IsFiniteSet(User) /\ IsFiniteSet(Org) /\ "none" \notin Org
(* The operations they call, the organizations they may found, how many    *)
(* accounts there are.                                                     *)
ASSUME PlanAssumption == Plans \subseteq [ops : SUBSET Kind, orgs : SUBSET Org, users : Nat]

VARIABLES
    plan,       \* the plan of this behaviour
    account,    \* the users there are
    org,        \* organizations with their counters
    member,     \* organization_members: the role, or none
    owned,      \* users.org_owner_count
    active,     \* the active organization and role of the user's session
    txn

vars == <<plan, account, org, member, owned, active, txn>>

Role == {"owner", "admin", "member"}
Weight(r) == CASE r = "owner" -> 3 [] r = "admin" -> 2 [] r = "member" -> 1 [] OTHER -> 0

NoActive == [org |-> "none", role |-> "none"]
Row == {<<"user", u>> : u \in User} \cup {<<"session", u>> : u \in User}
       \cup {<<"org", o>> : o \in Org} \cup {<<"key", o>> : o \in Org}
       \cup {<<"member", o, u>> : o \in Org, u \in User}

Idle == [pc |-> "idle", kind |-> "none", org |-> "none", actor |-> NoUser,
         user |-> NoUser, role |-> "none", was |-> "none", set |-> {}, held |-> {}]

Init ==
    /\ plan \in Plans /\ account \in {U \in SUBSET User : Cardinality(U) = plan.users}
    /\ org = [o \in Org |-> [st |-> "none", owners |-> 0, members |-> 0]]
    /\ member = [o \in Org |-> [u \in User |-> "none"]]
    /\ owned = [u \in User |-> 0]
    /\ active = [u \in User |-> NoActive]
    /\ txn = [t \in Txn |-> Idle]

-----------------------------------------------------------------------------
OwnersOf(o) == {u \in User : member[o][u] = "owner"}
MembershipsOf(u) == {o \in Org : member[o][u] # "none"}
MembersOf(o) == {u \in User : member[o][u] # "none"}
ActiveIn(o) == {u \in User : active[u].org = o}
MemberRows(o, U) == {<<"member", o, u>> : u \in U \cap MembersOf(o)}
UserRows(U) == {<<"user", u>> : u \in U \cap account}
SessionRows(U) == {<<"session", u>> : u \in U}

(* Every operation under WithAdminGuard begins by locking all users.       *)
(* Slip: the removal left out. *)
GuardRowsButRemoval(kind) ==
    IF kind \in {"add", "role", "close"} THEN UserRows(User) ELSE {}
GuardRows(kind) ==
    IF kind \in {"add", "remove", "role", "close"} THEN UserRows(User) ELSE {}

(* lockActorAndTarget; an admission locks its actor only.  Slip: the actor *)
(* read and not locked. *)
TargetRowOnly(x) == MemberRows(x.org, {x.user} \ {NoUser})
PairRows(x) ==
    MemberRows(x.org, (IF x.kind = "add" THEN {x.actor} ELSE {x.actor, x.user}) \ {NoUser})

(* The rows the next statement of a transaction locks.  <<"key", o>> is    *)
(* the key lock a foreign key takes on the organization: only deleting the *)
(* organization conflicts with it.                                         *)
Needs(t) ==
    LET x == txn[t] IN
    CASE x.pc = "members"  -> PairRows(x)
      [] x.pc = "unlink"   -> {<<"member", x.org, x.user>>}
      [] x.pc = "org"      -> {<<"org", x.org>>}
      [] x.pc = "user"     -> {<<"user", x.user>>}
      [] x.pc = "insert"   -> {<<"member", x.org, x.user>>, <<"key", x.org>>}
      [] x.pc = "session"  -> SessionRows(ActiveIn(x.org) \cap {x.user})
      [] x.pc = "owners"   -> {}
      [] x.pc = "decrement" -> UserRows(x.set)
      [] x.pc \in {"clear", "reclear"} -> SessionRows(ActiveIn(x.org))
      [] x.pc = "drop"     -> {<<"org", x.org>>, <<"key", x.org>>}
      [] x.pc = "cascade"  -> MemberRows(x.org, User)
      [] x.pc = "activate" -> {<<"session", x.user>>, <<"key", x.org>>}
      [] x.pc = "closing"  -> IF x.set = {} THEN SessionRows({x.user})
                              ELSE LET o == CHOOSE o \in x.set : TRUE
                                   IN {<<"member", o, x.user>>, <<"org", o>>}
      [] OTHER -> {}

Unheld(t, rows) == \A s \in Txn \ {t} : txn[s].held \cap rows = {}
Ready(t, pc) == txn[t].pc = pc /\ Unheld(t, Needs(t))

Advance(t, pc) == txn' = [txn EXCEPT ![t].pc = pc, ![t].held = @ \cup Needs(t)]
End(t) == txn' = [txn EXCEPT ![t] = Idle]
Tables == <<plan, account, org, member, owned, active>>

(* A statement fails, the audit record fails, the connection breaks, or    *)
(* the database makes the transaction a deadlock's victim: roll back.      *)
Abort(t) == txn[t].pc # "idle" /\ End(t) /\ UNCHANGED Tables

-----------------------------------------------------------------------------
(* CreateOrg: the user row, then rows nobody else can see yet.             *)
Create(o, u) ==
    /\ o \in plan.orgs /\ org[o].st = "none" /\ u \in account
    /\ \A s \in Txn : <<"user", u>> \notin txn[s].held
    /\ owned[u] < MaxOrgs
    /\ org' = [org EXCEPT ![o] = [st |-> "live", owners |-> 1, members |-> 1]]
    /\ member' = [member EXCEPT ![o][u] = "owner"]
    /\ owned' = [owned EXCEPT ![u] = @ + 1]
    /\ UNCHANGED <<plan, account, active, txn>>

Begin(t, kind, o, a, u, r) ==
    /\ txn[t].pc = "idle" /\ kind \in plan.ops /\ Unheld(t, GuardRows(kind))
    /\ txn' = [txn EXCEPT ![t] =
        [Idle EXCEPT !.pc = CASE kind \in {"add", "remove", "role"} -> "members"
                              [] kind = "admin_remove" -> "unlink"
                              [] kind = "delete" -> "owners"
                              [] kind = "active" -> "activate"
                              [] kind = "close" -> "closing",
                     !.kind = kind, !.org = o, !.actor = a, !.user = u,
                     !.role = r, !.was = IF u = NoUser THEN "none" ELSE member[o][u],
                     !.held = GuardRows(kind)]]
    /\ UNCHANGED Tables

(* AddMember, AdminAddMember (no actor) and AcceptInvite (the actor is the *)
(* issuer of the invitation); AdminUpdateMemberRole and UpdateMemberRole.  *)
StartChange(t, kind, o, a, u, r) ==
    /\ kind \in {"add", "role"} /\ org[o].st # "none" /\ u \in account
    /\ Begin(t, kind, o, a, u, r)

(* RemoveMember and LeaveOrg (a = u).                                      *)
StartRemove(t, o, a, u) ==
    /\ a # NoUser /\ org[o].st # "none"
    /\ Begin(t, "remove", o, a, u, "none")

(* What each mutation demands of its actor's role (requireMemberMutation). *)
Minimum(x, target) ==
    IF x.kind = "remove" /\ x.actor = x.user THEN "member"
    ELSE IF x.role = "owner" \/ target = "owner" THEN "owner"
    ELSE "admin"
Allowed(x) ==
    x.actor # NoUser => Weight(member[x.org][x.actor]) >=
                        Weight(Minimum(x, member[x.org][x.user]))

(* The memberships are locked and judged; addMemberTx wants none there,    *)
(* the others want one.  An unchanged role ends with nothing to do.        *)
LockMembers(t) ==
    LET x == txn[t]
        now == member[x.org][x.user]
    IN /\ Ready(t, "members")
       /\ IF ~Allowed(x) \/ (x.kind = "add") # (now = "none") \/ now = x.role
          THEN End(t)
          ELSE txn' = [txn EXCEPT ![t].held = @ \cup Needs(t), ![t].was = now,
                   ![t].pc = IF x.kind = "role" /\ "owner" \notin {now, x.role}
                             THEN "session" ELSE "org"]
       /\ UNCHANGED Tables

(* AdminRemoveMember runs without the guard: it reads the membership ...   *)
StartAdminRemove(t, o, u) ==
    /\ member[o][u] # "none"
    /\ Begin(t, "admin_remove", o, NoUser, u, "none")

(* ... and deletes it only in the role it read.  Slip: in any role. *)
UnlinkAnyRole(t) ==
    /\ Ready(t, "unlink")
    /\ IF member[txn[t].org][txn[t].user] = "none" THEN End(t) ELSE Advance(t, "org")
    /\ UNCHANGED Tables
Unlink(t) ==
    /\ Ready(t, "unlink")
    /\ IF member[txn[t].org][txn[t].user] # txn[t].was THEN End(t) ELSE Advance(t, "org")
    /\ UNCHANGED Tables

(* TryDecrementOrgOwnerCount.  Slip: any decrement succeeds. *)
AnyOwnerDispensable(o) == org[o].owners > 0
OwnerDispensable(o) == org[o].owners > 1
(* guardAndIncrementOwnerCount.                                            *)
MayOwn(u) == owned[u] < MaxOrgs

(* The counters of the organization, and their refusals.                   *)
LockOrg(t) ==
    LET x == txn[t] IN
    /\ Ready(t, "org")
    /\ IF \/ org[x.org].st # "live"
          \/ x.was = "owner" /\ ~OwnerDispensable(x.org)
          \/ x.role = "owner" /\ ~MayOwn(x.user)
       THEN End(t)
       ELSE Advance(t, IF x.kind = "add" THEN "insert"
                       ELSE IF x.was = "owner" THEN "user" ELSE "session")
    /\ UNCHANGED Tables

(* DecrementUserOrgOwnerCount: under the guard the row is already held.    *)
LockUser(t) ==
    Ready(t, "user") /\ Advance(t, "session") /\ UNCHANGED Tables

(* AddMember's INSERT meets the primary key, and commits.                  *)
CommitAdd(t) ==
    LET x == txn[t] IN
    /\ Ready(t, "insert")
    /\ IF member[x.org][x.user] # "none" THEN UNCHANGED Tables
       ELSE /\ member' = [member EXCEPT ![x.org][x.user] = x.role]
            /\ org' = [org EXCEPT ![x.org].members = @ + 1,
                         ![x.org].owners = IF x.role = "owner" THEN @ + 1 ELSE @]
            /\ owned' = [owned EXCEPT ![x.user] = IF x.role = "owner" THEN @ + 1 ELSE @]
            /\ UNCHANGED <<plan, account, active>>
    /\ End(t)

OneLess(n) == IF n > 0 THEN n - 1 ELSE n
(* The sessions a membership change reaches (active_org_id = $2).          *)
InOrg(u, o) == active[u].org = o

(* removeMemberTx: the membership, its counters, the active organization.  *)
(* Slip: the session keeps it. *)
CommitRemoveAlone(t) ==
    LET x == txn[t] IN
    /\ Ready(t, "session") /\ x.kind \in {"remove", "admin_remove"}
    /\ member' = [member EXCEPT ![x.org][x.user] = "none"]
    /\ org' = [org EXCEPT ![x.org].members = OneLess(@),
                 ![x.org].owners = IF x.was = "owner" THEN @ - 1 ELSE @]
    /\ owned' = [owned EXCEPT ![x.user] = IF x.was = "owner" THEN OneLess(@) ELSE @]
    /\ End(t) /\ UNCHANGED <<plan, account, active>>
CommitRemove(t) ==
    LET x == txn[t] IN
    /\ Ready(t, "session") /\ x.kind \in {"remove", "admin_remove"}
    /\ member' = [member EXCEPT ![x.org][x.user] = "none"]
    /\ org' = [org EXCEPT ![x.org].members = OneLess(@),
                 ![x.org].owners = IF x.was = "owner" THEN @ - 1 ELSE @]
    /\ owned' = [owned EXCEPT ![x.user] = IF x.was = "owner" THEN OneLess(@) ELSE @]
    /\ active' = [active EXCEPT ![x.user] = IF InOrg(x.user, x.org) THEN NoActive ELSE @]
    /\ End(t) /\ UNCHANGED <<plan, account>>

(* updateMemberRoleTx: the role, its counters, the session's copy.         *)
CommitRole(t) ==
    LET x == txn[t] IN
    /\ Ready(t, "session") /\ x.kind = "role"
    /\ member' = [member EXCEPT ![x.org][x.user] = x.role]
    /\ org' = [org EXCEPT ![x.org].owners = IF x.was = "owner" THEN @ - 1
                                            ELSE IF x.role = "owner" THEN @ + 1 ELSE @]
    /\ owned' = [owned EXCEPT ![x.user] = IF x.was = "owner" THEN OneLess(@)
                                          ELSE IF x.role = "owner" THEN @ + 1 ELSE @]
    /\ active' = [active EXCEPT ![x.user].role = IF InOrg(x.user, x.org) THEN x.role ELSE @]
    /\ End(t) /\ UNCHANGED <<plan, account>>

-----------------------------------------------------------------------------
(* DeleteOrg reads the actor's role outside any transaction, and           *)
(* AdminDeleteOrg reads none; both run deleteOrgTx without the guard.      *)
StartDelete(t, o, a) ==
    /\ org[o].st = "live" /\ member[o][a] = "owner"
    /\ Begin(t, "delete", o, a, NoUser, "none")
StartAdminDelete(t, o) ==
    org[o].st = "live" /\ Begin(t, "delete", o, NoUser, NoUser, "none")

(* DecrementOwnerCountForOrgOwners: the statement's snapshot names the     *)
(* owners; then it waits for their rows and decrements each as it finds it.*)
SnapshotOwners(t) ==
    /\ Ready(t, "owners")
    /\ txn' = [txn EXCEPT ![t].pc = "decrement", ![t].set = OwnersOf(txn[t].org)]
    /\ UNCHANGED Tables
DecrementOwners(t) ==
    /\ Ready(t, "decrement") /\ Advance(t, "clear") /\ UNCHANGED Tables

(* ClearActiveOrgForAllMembers, and again inside OrgRepository.Delete.     *)
ClearSessions(t) ==
    \/ Ready(t, "clear") /\ Advance(t, "reclear") /\ UNCHANGED Tables
    \/ Ready(t, "reclear") /\ Advance(t, "drop") /\ UNCHANGED Tables

(* The DELETE waits for the organization row.  It finds no row after a     *)
(* concurrent deletion, and fails the table's CHECK when a session became  *)
(* active in between.                                                      *)
DropOrg(t) ==
    LET x == txn[t] IN
    /\ Ready(t, "drop")
    /\ IF org[x.org].st # "live" \/ ~(SessionRows(ActiveIn(x.org)) \subseteq x.held)
       THEN End(t) ELSE Advance(t, "cascade")
    /\ UNCHANGED Tables

(* The memberships go with it, and the transaction commits.                *)
CommitDelete(t) ==
    LET x == txn[t] IN
    /\ Ready(t, "cascade")
    /\ org' = [org EXCEPT ![x.org] = [st |-> "gone", owners |-> 0, members |-> 0]]
    /\ member' = [member EXCEPT ![x.org] = [u \in User |-> "none"]]
    /\ owned' = [u \in User |-> IF u \in x.set \cap account THEN owned[u] - 1 ELSE owned[u]]
    /\ active' = [u \in User |-> IF InOrg(u, x.org) THEN NoActive ELSE active[u]]
    /\ End(t) /\ UNCHANGED <<plan, account>>

-----------------------------------------------------------------------------
(* SetActiveOrg locks the membership it copies the role of.                *)
StartActive(t, o, u) ==
    /\ "active" \in plan.ops /\ txn[t].pc = "idle"
    /\ member[o][u] # "none" /\ Unheld(t, {<<"member", o, u>>})
    /\ txn' = [txn EXCEPT ![t] = [Idle EXCEPT !.pc = "activate", !.kind = "active",
            !.org = o, !.actor = u, !.user = u, !.was = member[o][u],
            !.held = {<<"member", o, u>>}]]
    /\ UNCHANGED Tables
CommitActive(t) ==
    LET x == txn[t] IN
    /\ Ready(t, "activate") /\ org[x.org].st = "live" /\ x.user \in account
    /\ active' = [active EXCEPT ![x.user] = [org |-> x.org, role |-> x.was]]
    /\ End(t) /\ UNCHANGED <<plan, account, org, member, owned>>

ClearActive(u) ==
    /\ active[u] # NoActive /\ \A s \in Txn : <<"session", u>> \notin txn[s].held
    /\ active' = [active EXCEPT ![u] = NoActive]
    /\ UNCHANGED <<plan, account, org, member, owned, txn>>

-----------------------------------------------------------------------------
(* DeleteUserAndRecord: the guard, the user's memberships one by one, the  *)
(* sessions, the user.                                                     *)
StartClose(t, u) ==
    /\ "close" \in plan.ops /\ u \in account
    /\ txn[t].pc = "idle" /\ Unheld(t, GuardRows("close"))
    /\ txn' = [txn EXCEPT ![t] = [Idle EXCEPT !.pc = "closing", !.kind = "close",
            !.user = u, !.set = MembershipsOf(u),
            !.held = GuardRows("close")]]
    /\ UNCHANGED Tables
CloseMembership(t) ==
    LET x == txn[t]
        o == CHOOSE o \in x.set : TRUE
    IN /\ Ready(t, "closing") /\ x.set # {}
       /\ IF member[o][x.user] = "owner" /\ ~OwnerDispensable(o) THEN End(t)
          ELSE txn' = [txn EXCEPT ![t].set = @ \ {o},
                   ![t].held = IF member[o][x.user] = "none" THEN @ ELSE @ \cup Needs(t)]
       /\ UNCHANGED Tables

Left(x, o) == <<"member", o, x.user>> \in x.held
CommitClose(t) ==
    LET x == txn[t] IN
    /\ Ready(t, "closing") /\ x.set = {}
    /\ account' = account \ {x.user}
    /\ member' = [o \in Org |-> [member[o] EXCEPT ![x.user] = "none"]]
    /\ org' = [o \in Org |-> IF ~Left(x, o) THEN org[o] ELSE
                [org[o] EXCEPT !.members = OneLess(@),
                               !.owners = IF member[o][x.user] = "owner" THEN @ - 1 ELSE @]]
    /\ owned' = [owned EXCEPT ![x.user] = 0]
    /\ active' = [active EXCEPT ![x.user] = NoActive]
    /\ End(t) /\ UNCHANGED plan

-----------------------------------------------------------------------------
Step(t) ==
    \/ LockMembers(t) \/ Unlink(t) \/ LockOrg(t) \/ LockUser(t)
    \/ CommitAdd(t) \/ CommitRemove(t) \/ CommitRole(t)
    \/ SnapshotOwners(t) \/ DecrementOwners(t) \/ ClearSessions(t) \/ DropOrg(t)
    \/ CommitDelete(t) \/ CommitActive(t)
    \/ CloseMembership(t) \/ CommitClose(t)

(* What a request to the handlers may ask for: of the platform's staff, ...*)
StaffRequest(t) ==
    \E o \in Org, u \in User :
        \/ \E kind \in {"add", "role"}, r \in Role : StartChange(t, kind, o, NoUser, u, r)
        \/ StartAdminRemove(t, o, u)
        \/ StartAdminDelete(t, o)

(* ... of members about each other or themselves, ...                      *)
MemberRequest(t) ==
    \E o \in Org, a \in account :
        \/ \E u \in User : \/ \E r \in Role : StartChange(t, "role", o, a, u, r)
                          \/ StartRemove(t, o, a, u)
        \/ StartActive(t, o, a)
ClearRequest == \E u \in User : ClearActive(u)

(* ... of somebody invited by a,                                           *)
AcceptRequest(t) ==
    \E o \in Org, a \in account, u \in User, r \in Role : StartChange(t, "add", o, a, u, r)

(* founding and deleting an organization, and closing an account.          *)
FoundRequest == \E o \in Org, u \in User : Create(o, u)
DeleteRequest(t) == \E o \in Org, a \in account : StartDelete(t, o, a)
CloseRequest(t) == \E u \in User : StartClose(t, u)

Next ==
    \/ \E t \in Txn : \/ StaffRequest(t) \/ MemberRequest(t) \/ AcceptRequest(t)
                      \/ DeleteRequest(t) \/ CloseRequest(t)
                      \/ Step(t) \/ Abort(t)
    \/ FoundRequest \/ ClearRequest

Spec == Init /\ [][Next]_vars

-----------------------------------------------------------------------------
TypeOK ==
    /\ account \subseteq User
    /\ org \in [Org -> [st : {"none", "live", "gone"}, owners : Nat, members : Nat]]
    /\ member \in [Org -> [User -> Role \cup {"none"}]]
    /\ owned \in [User -> Int]
    /\ active \in [User -> {NoActive} \cup [org : Org, role : Role]]
    /\ \A t \in Txn : txn[t].held \subseteq Row

LiveOrgs == {o \in Org : org[o].st = "live"}

(* The counters are the numbers of their rows at every commit, whichever   *)
(* removals, role changes, deletions of organizations and of accounts      *)
(* interleave (AccountDeletion: "every surviving organization's            *)
(* member/owner counters stay correct").  Until an organization is deleted *)
(* users.org_owner_count is right too, and within MaxOrgsPerUser: deleting *)
(* subtracts from the owners of an earlier moment.                         *)
CountersExact ==
    /\ \A o \in LiveOrgs : /\ org[o].owners = Cardinality(OwnersOf(o))
                           /\ org[o].members = Cardinality(MembersOf(o))
    /\ (\A o \in Org : org[o].st # "gone") => \A u \in account :
          /\ owned[u] = Cardinality({o \in LiveOrgs : member[o][u] = "owner"})
          /\ owned[u] <= MaxOrgs

(* No sequence of members leaving, being removed or demoted, and accounts  *)
(* closing leaves an organization without an owner.                        *)
NeverOwnerless == \A o \in LiveOrgs : OwnersOf(o) # {}

(* A session is active in an organization only as what its user is there   *)
(* at that commit: SetActiveOrg never publishes a role it read before a    *)
(* concurrent demotion or removal.                                         *)
ActiveRoleCurrent ==
    \A u \in User : active[u] # NoActive => active[u].role = member[active[u].org][u]

(* A membership that somebody else changes is changed by someone who has   *)
(* the authority when the change commits, and not only when it was asked   *)
(* for (lockActorAndTarget "holds both memberships through the mutation"). *)
AuthorityHolds ==
    [][\A t \in Txn :
        LET x == txn[t] IN
        x.kind \in {"add", "remove", "role"} /\ x.actor \notin {NoUser, x.user}
            /\ txn'[t] = Idle /\ member' # member
        => Weight(member[x.org][x.actor]) >= Weight(Minimum(x, member[x.org][x.user]))]_vars

(* Transactions that wait for each other in a circle.                      *)
Waits(s, t) == txn[t].held \cap Needs(s) # {}
Circle(T) == T # {} /\ \A s \in T : \E t \in T \ {s} : Waits(s, t)

(* Operations under the users-first guard, and SetActiveOrg beside them,   *)
(* never wait in a circle (lockActorAndTarget: "Stable ordering avoids     *)
(* deadlocks for reciprocal member operations").                           *)
GuardAvoidsDeadlock ==
    \A T \in SUBSET {t \in Txn : txn[t].kind \in {"add", "remove", "role", "close", "active"}} :
        ~Circle(T)
=============================================================================
