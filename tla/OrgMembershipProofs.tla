------------------------ MODULE OrgMembershipProofs ------------------------
(***************************************************************************)
(* Theorems about OrgMembership: the counters, the last owner, the active  *)
(* role, the authority of whoever changes a membership and the order of    *)
(* the locks, for any users, organizations, transactions and limits.       *)
(*                                                                         *)
(* A transaction acts at its commit on what it read while it was taking    *)
(* its locks.  The invariant says, lock by lock, what it may still rely    *)
(* on; that no two transactions hold the same row is what keeps it true.   *)
(***************************************************************************)
EXTENDS OrgMembership, FiniteSetTheorems, TLAPS

Pcs == {"idle", "members", "unlink", "org", "user", "insert", "session", "owners", "decrement",
        "clear", "reclear", "drop", "cascade", "activate", "closing"}
Roles == Role \cup {"none"}
Txns == [pc : Pcs, kind : Kind \cup {"none"}, org : Org \cup {"none"}, actor : User \cup {NoUser},
         user : User \cup {NoUser}, role : Roles, was : Roles, set : SUBSET (User \cup Org),
         held : SUBSET Row]
OrgRow == [st : {"none", "live", "gone"}, owners : Nat, members : Nat]
Actives == [org : Org \cup {"none"}, role : Roles]

Typed ==
    /\ account \subseteq User /\ org \in [Org -> OrgRow]
    /\ member \in [Org -> [User -> Roles]] /\ owned \in [User -> Int]
    /\ active \in [User -> Actives] /\ txn \in [Txn -> Txns]

LocksExclusive == \A s, t \in Txn : s # t => txn[s].held \cap txn[t].held = {}

MembersLive ==
    \A o \in Org, u \in User : member[o][u] # "none" => org[o].st = "live" /\ u \in account

Counted ==
    \A o \in Org : org[o].st = "live" =>
        /\ org[o].owners = Cardinality(OwnersOf(o)) /\ org[o].owners > 0
        /\ org[o].members = Cardinality(MembersOf(o))

Owns(u) == {o \in Org : member[o][u] = "owner"}
OwnedTrue ==
    (\A o \in Org : org[o].st # "gone") =>
        \A u \in account : owned[u] = Cardinality(Owns(u)) /\ owned[u] <= MaxOrgs

ActiveTrue ==
    \A u \in User : active[u] = NoActive \/ /\ active[u].org \in Org /\ active[u].role # "none"
                                            /\ active[u].role = member[active[u].org][u]

-----------------------------------------------------------------------------
(* What a transaction may rely on. *)

Guarded == {"add", "remove", "role", "close"}

Flow(t) ==
    /\ txn[t].kind = "none" <=> txn[t].pc = "idle"
    /\ txn[t].kind = "add" => txn[t].pc \in {"members", "org", "insert"}
    /\ txn[t].kind \in {"remove", "role"} => txn[t].pc \in {"members", "org", "user", "session"}
    /\ txn[t].kind = "admin_remove" => txn[t].pc \in {"unlink", "org", "user", "session"}
    /\ txn[t].kind = "delete" =>
         txn[t].pc \in {"owners", "decrement", "clear", "reclear", "drop", "cascade"}
    /\ txn[t].kind = "active" => txn[t].pc = "activate"
    /\ txn[t].kind = "close" => txn[t].pc = "closing" /\ txn[t].set \subseteq Org
    /\ txn[t].kind \notin {"none", "close"} => txn[t].org \in Org
    /\ txn[t].kind \in {"remove", "admin_remove", "active"} => txn[t].user \in User
    /\ txn[t].kind \in {"add", "role", "close"} => txn[t].user \in account
    /\ txn[t].kind \in {"add", "role"} => txn[t].role \in Role
    /\ txn[t].kind \in {"remove", "admin_remove"} => txn[t].role = "none"

(* Under the guard it holds every account, and no session and no key. *)
Guards(t) ==
    /\ txn[t].kind \in Guarded =>
         /\ account # {} /\ UserRows(User) \subseteq txn[t].held
         /\ \A u \in User : <<"session", u>> \notin txn[t].held
         /\ \A o \in Org : <<"key", o>> \notin txn[t].held
    /\ txn[t].kind = "active" => txn[t].held = {<<"member", txn[t].org, txn[t].user>>}

(* It holds rows of organizations there are or were. *)
Existing(t) ==
    \A o \in Org : org[o].st = "none" =>
        <<"org", o>> \notin txn[t].held /\ \A u \in User : <<"member", o, u>> \notin txn[t].held

(* The membership it is about is as it read it. *)
Target(t) ==
    /\ txn[t].kind = "add" /\ txn[t].pc # "members" => txn[t].was = "none"
    /\ txn[t].kind = "role" /\ txn[t].pc # "members" => txn[t].role # txn[t].was
    /\ txn[t].kind = "admin_remove" => txn[t].was # "none"
    /\ \/ txn[t].pc \in {"user", "session", "activate"}
       \/ txn[t].pc = "org" /\ txn[t].kind # "add"
       => /\ txn[t].was # "none" /\ txn[t].was = member[txn[t].org][txn[t].user]
          /\ <<"member", txn[t].org, txn[t].user>> \in txn[t].held

(* So are the counters, where it changes an owner. *)
Limits(t) ==
    txn[t].pc \in {"user", "session", "insert"} =>
        \/ txn[t].kind = "role" /\ "owner" \notin {txn[t].was, txn[t].role}
        \/ /\ <<"org", txn[t].org>> \in txn[t].held /\ org[txn[t].org].st = "live"
           /\ txn[t].was = "owner" => org[txn[t].org].owners > 1
           /\ txn[t].role = "owner" => owned[txn[t].user] < MaxOrgs

(* It is entitled to what it does. *)
Entitled(t) ==
    txn[t].kind \in {"add", "remove", "role"} /\ txn[t].actor # NoUser /\ txn[t].pc # "members" =>
        /\ <<"member", txn[t].org, txn[t].actor>> \in txn[t].held
        /\ Weight(member[txn[t].org][txn[t].actor]) >= Weight(Minimum(txn[t], txn[t].was))

(* A deletion holds its organization when it goes. *)
Cascades(t) == txn[t].pc = "cascade" => <<"org", txn[t].org>> \in txn[t].held

(* An account's memberships are yet to be looked at, or can be left. *)
Closes(t) ==
    txn[t].kind = "close" => \A o \in Org :
        /\ member[o][txn[t].user] # "none" =>
             o \in txn[t].set \/ <<"member", o, txn[t].user>> \in txn[t].held
        /\ <<"member", o, txn[t].user>> \in txn[t].held =>
             /\ <<"org", o>> \in txn[t].held /\ member[o][txn[t].user] # "none"
             /\ member[o][txn[t].user] = "owner" => org[o].owners > 1

TxnTrue(t) ==
    /\ Flow(t) /\ Guards(t) /\ Existing(t) /\ Target(t) /\ Limits(t) /\ Entitled(t)
    /\ Cascades(t) /\ Closes(t)

Tabled == MembersLive /\ Counted /\ OwnedTrue /\ ActiveTrue

IInv == Typed /\ LocksExclusive /\ Tabled /\ \A t \in Txn : TxnTrue(t)

USE OrgAssumption, TableAssumption

-----------------------------------------------------------------------------
(* Rows and locks. *)
LEMMA RowTypes ==
    ASSUME Typed, NEW o \in Org, NEW u \in User, NEW U \in SUBSET User
    PROVE  /\ <<"member", o, u>> \in Row /\ <<"org", o>> \in Row /\ <<"key", o>> \in Row
           /\ <<"user", u>> \in Row /\ <<"session", u>> \in Row
           /\ UserRows(U) \subseteq Row /\ SessionRows(U) \subseteq Row
           /\ MemberRows(o, U) \subseteq Row
<1>1. /\ <<"member", o, u>> \in Row /\ <<"org", o>> \in Row /\ <<"key", o>> \in Row
      /\ <<"user", u>> \in Row /\ <<"session", u>> \in Row
  BY DEF Row
<1>2. UserRows(U) \subseteq Row /\ SessionRows(U) \subseteq Row
  BY DEF Row, UserRows, SessionRows
<1>3. MemberRows(o, U) \subseteq Row
  BY DEF Row, MemberRows
<1>4. QED
  BY <1>1, <1>2, <1>3

LEMMA IdleTyped ==
    /\ Idle \in Txns /\ Idle.pc = "idle" /\ Idle.kind = "none" /\ Idle.held = {}
<1>1. "none" \in Roles /\ "idle" \in Pcs
  BY DEF Roles, Pcs
<1>2. QED
  BY <1>1 DEF Idle, Txns

LEMMA IdleTrue ==
    ASSUME NEW t, txn'[t] = Idle
    PROVE  TxnTrue(t)'
<1>1. txn'[t].pc = "idle" /\ txn'[t].kind = "none" /\ txn'[t].held = {}
  BY IdleTyped
<1>2. Flow(t)' /\ Guards(t)' /\ Existing(t)'
  BY <1>1 DEF Flow, Guards, Existing, Guarded
<1>3. Target(t)' /\ Limits(t)' /\ Entitled(t)'
  BY <1>1 DEF Target, Limits, Entitled
<1>4. Cascades(t)' /\ Closes(t)'
  BY <1>1 DEF Cascades, Closes
<1>5. QED
  BY <1>2, <1>3, <1>4 DEF TxnTrue

(* What a transaction that does nothing may still rely on. *)
Steady(s) ==
    /\ account' \subseteq account /\ (txn[s].kind \in Guarded => account' = account)
    /\ \A o \in Org : org'[o].st = "none" => org[o].st = "none"
    /\ \A o \in Org, u \in User :
         /\ <<"member", o, u>> \in txn[s].held => member'[o][u] = member[o][u]
         /\ <<"user", u>> \in txn[s].held => member'[o][u] \in {member[o][u], "none"}
    /\ \A o \in Org : <<"org", o>> \in txn[s].held => org'[o] = org[o]
    /\ \A u \in User : <<"user", u>> \in txn[s].held => owned'[u] <= owned[u]

LEMMA KindOf ==
    ASSUME Typed, NEW s \in Txn, Flow(s)
    PROVE  /\ txn[s] \in Txns
           /\ txn[s].pc \in {"user", "session", "activate", "insert", "org"} =>
                txn[s].org \in Org /\ txn[s].user \in User
           /\ txn[s].role = "owner" /\ txn[s].pc \in {"user", "session", "insert"} /\ txn[s].kind # "active" =>
                txn[s].user \in account /\ txn[s].kind \in Guarded
<1>1. txn[s] \in Txns
  BY DEF Typed
<1>2. txn[s].kind \in Kind \cup {"none"}
  BY <1>1 DEF Txns
<1>3. account \subseteq User
  BY DEF Typed
<1>4. QED
  BY <1>1, <1>2, <1>3 DEF Flow, Kind, Guarded

LEMMA OtherStays ==
    ASSUME Typed, Typed', NEW s \in Txn, TxnTrue(s), txn'[s] = txn[s], Steady(s)
    PROVE  TxnTrue(s)'
<1>1. /\ Flow(s) /\ Guards(s) /\ Existing(s) /\ Target(s) /\ Limits(s) /\ Entitled(s)
      /\ Cascades(s) /\ Closes(s)
  BY DEF TxnTrue
<1>2. Flow(s)'
  BY <1>1 DEF Flow, Steady, Guarded
<1>3. Guards(s)'
  BY <1>1 DEF Guards, Steady, UserRows
<1>4. Existing(s)'
  BY <1>1 DEF Existing, Steady
<1>5. Target(s)'
  <2>1. ASSUME \/ txn[s].pc \in {"user", "session", "activate"}
               \/ txn[s].pc = "org" /\ txn[s].kind # "add"
        PROVE  /\ txn[s].was # "none" /\ txn[s].was = member'[txn[s].org][txn[s].user]
               /\ <<"member", txn[s].org, txn[s].user>> \in txn[s].held
    <3>1. txn[s].org \in Org /\ txn[s].user \in User
      BY <1>1, <2>1, KindOf
    <3>2. /\ txn[s].was # "none" /\ txn[s].was = member[txn[s].org][txn[s].user]
          /\ <<"member", txn[s].org, txn[s].user>> \in txn[s].held
      BY <1>1, <2>1 DEF Target
    <3>3. QED
      BY <3>1, <3>2 DEF Steady
  <2>2. QED
    BY <1>1, <2>1 DEF Target
<1>6. Limits(s)'
  <2> SUFFICES ASSUME txn[s].pc \in {"user", "session", "insert"},
                      ~(txn[s].kind = "role" /\ "owner" \notin {txn[s].was, txn[s].role})
               PROVE  /\ <<"org", txn[s].org>> \in txn[s].held /\ org'[txn[s].org].st = "live"
                      /\ txn[s].was = "owner" => org'[txn[s].org].owners > 1
                      /\ txn[s].role = "owner" => owned'[txn[s].user] < MaxOrgs
    BY DEF Limits
  <2>1. txn[s].org \in Org /\ txn[s].user \in User
    BY <1>1, KindOf
  <2>2. /\ <<"org", txn[s].org>> \in txn[s].held /\ org[txn[s].org].st = "live"
        /\ txn[s].was = "owner" => org[txn[s].org].owners > 1
        /\ txn[s].role = "owner" => owned[txn[s].user] < MaxOrgs
    BY <1>1 DEF Limits
  <2>3. org'[txn[s].org] = org[txn[s].org]
    BY <2>1, <2>2 DEF Steady
  <2>4. ASSUME txn[s].role = "owner" PROVE owned'[txn[s].user] < MaxOrgs
    <3>1. txn[s].user \in account /\ txn[s].kind \in Guarded
      BY <1>1, <2>4, KindOf DEF Flow
    <3>2. <<"user", txn[s].user>> \in txn[s].held
      BY <1>1, <2>1, <3>1 DEF Guards, UserRows
    <3>3. owned'[txn[s].user] <= owned[txn[s].user]
      BY <2>1, <3>2 DEF Steady
    <3>4. owned'[txn[s].user] \in Int /\ owned[txn[s].user] \in Int
      BY <2>1 DEF Typed
    <3>5. QED
      BY <2>2, <2>4, <3>3, <3>4
  <2>5. QED
    BY <2>2, <2>3, <2>4
<1>7. Entitled(s)'
  <2> SUFFICES ASSUME txn[s].kind \in {"add", "remove", "role"}, txn[s].actor # NoUser,
                      txn[s].pc # "members"
               PROVE  /\ <<"member", txn[s].org, txn[s].actor>> \in txn[s].held
                      /\ Weight(member'[txn[s].org][txn[s].actor])
                           >= Weight(Minimum(txn[s], txn[s].was))
    BY DEF Entitled
  <2>1. txn[s].org \in Org /\ txn[s].actor \in User
    BY <1>1, KindOf DEF Flow, Txns
  <2>2. /\ <<"member", txn[s].org, txn[s].actor>> \in txn[s].held
        /\ Weight(member[txn[s].org][txn[s].actor]) >= Weight(Minimum(txn[s], txn[s].was))
    BY <1>1 DEF Entitled
  <2>3. member'[txn[s].org][txn[s].actor] = member[txn[s].org][txn[s].actor]
    BY <2>1, <2>2 DEF Steady
  <2>4. QED
    BY <2>2, <2>3
<1>8. Cascades(s)'
  BY <1>1 DEF Cascades
<1>9. Closes(s)'
  <2> SUFFICES ASSUME txn[s].kind = "close", NEW o \in Org
               PROVE  /\ member'[o][txn[s].user] # "none" =>
                           o \in txn[s].set \/ <<"member", o, txn[s].user>> \in txn[s].held
                      /\ <<"member", o, txn[s].user>> \in txn[s].held =>
                           /\ <<"org", o>> \in txn[s].held /\ member'[o][txn[s].user] # "none"
                           /\ member'[o][txn[s].user] = "owner" => org'[o].owners > 1
    BY DEF Closes
  <2>1. txn[s].user \in account /\ txn[s].user \in User /\ txn[s].kind \in Guarded
    BY <1>1 DEF Flow, Typed, Guarded
  <2>2. <<"user", txn[s].user>> \in txn[s].held
    BY <1>1, <2>1 DEF Guards, UserRows
  <2>3. member'[o][txn[s].user] \in {member[o][txn[s].user], "none"}
    BY <2>1, <2>2 DEF Steady
  <2>4. <<"member", o, txn[s].user>> \in txn[s].held =>
          member'[o][txn[s].user] = member[o][txn[s].user]
    BY <2>1 DEF Steady
  <2>5. <<"org", o>> \in txn[s].held => org'[o] = org[o]
    BY DEF Steady
  <2>6. QED
    BY <1>1, <2>3, <2>4, <2>5 DEF Closes
<1>10. QED
  BY <1>2, <1>3, <1>4, <1>5, <1>6, <1>7, <1>8, <1>9 DEF TxnTrue

(* Two transactions are never under the guard at once. *)
LEMMA OneGuard ==
    ASSUME IInv, NEW s \in Txn, NEW t \in Txn, s # t, txn[s].kind \in Guarded
    PROVE  txn[t].kind \notin Guarded
<1> SUFFICES ASSUME txn[t].kind \in Guarded PROVE FALSE
  OBVIOUS
<1>1. Guards(s) /\ Guards(t)
  BY DEF IInv, TxnTrue
<1>2. PICK u \in account : TRUE
  BY <1>1 DEF Guards
<1>3. <<"user", u>> \in txn[s].held /\ <<"user", u>> \in txn[t].held
  BY <1>1 DEF Guards, UserRows, IInv, Typed
<1>4. QED
  BY <1>3 DEF IInv, LocksExclusive

-----------------------------------------------------------------------------
(* Steps that change nothing but a transaction. *)
LEMMA TxnMoves ==
    ASSUME IInv, UNCHANGED Tables, NEW t \in Txn, NEW next \in Txns,
           txn' = [txn EXCEPT ![t] = next], TxnTrue(t)',
           NEW rows, Unheld(t, rows), next.held \subseteq txn[t].held \cup rows
    PROVE  IInv'
<1>1. Typed'
  BY DEF IInv, Typed, Tables
<1>2. txn'[t] = next /\ \A s \in Txn : s # t => txn'[s] = txn[s]
  BY DEF IInv, Typed
<1>3. \A s \in Txn : s # t => next.held \cap txn[s].held = {}
  BY DEF IInv, LocksExclusive, Unheld
<1>4. LocksExclusive'
  BY <1>2, <1>3 DEF IInv, LocksExclusive
<1>5. Tabled'
  BY DEF IInv, Tabled, MembersLive, Counted, OwnedTrue, ActiveTrue, Tables, OwnersOf, MembersOf,
         Owns
<1>6. ASSUME NEW s \in Txn, s # t PROVE TxnTrue(s)'
  <2>1. Steady(s)
    BY DEF Steady, Tables, IInv, Typed
  <2>2. QED
    BY <1>1, <1>2, <1>6, <2>1, OtherStays DEF IInv
<1>7. QED
  BY <1>1, <1>4, <1>5, <1>6 DEF IInv

LEMMA Rollback ==
    ASSUME IInv, NEW t \in Txn, End(t), UNCHANGED Tables
    PROVE  IInv'
<1>1. txn' = [txn EXCEPT ![t] = Idle] /\ txn'[t] = Idle
  BY DEF End, IInv, Typed
<1>2. Unheld(t, {}) /\ Idle.held \subseteq txn[t].held \cup {}
  BY IdleTyped DEF Unheld
<1>3. QED
  BY <1>1, <1>2, IdleTyped, IdleTrue, TxnMoves

(* A transaction takes the rows of its statement and goes on to the next. *)
LEMMA AdvanceFields ==
    ASSUME Typed, NEW t \in Txn, NEW pc \in Pcs, Needs(t) \subseteq Row, Advance(t, pc)
    PROVE  /\ txn' = [txn EXCEPT ![t] = txn'[t]] /\ txn'[t] \in Txns
           /\ txn'[t].pc = pc /\ txn'[t].held = txn[t].held \cup Needs(t)
           /\ txn'[t].kind = txn[t].kind /\ txn'[t].org = txn[t].org
           /\ txn'[t].actor = txn[t].actor /\ txn'[t].user = txn[t].user
           /\ txn'[t].role = txn[t].role /\ txn'[t].was = txn[t].was
           /\ txn'[t].set = txn[t].set
           /\ \A target : Minimum(txn'[t], target) = Minimum(txn[t], target)
<1> DEFINE next == [txn[t] EXCEPT !.pc = pc, !.held = txn[t].held \cup Needs(t)]
<1>1. txn' = [txn EXCEPT ![t] = next] /\ txn'[t] = next
  BY DEF Advance, Typed
<1>2. txn[t] \in Txns
  BY DEF Typed
<1>3. next \in Txns
  BY <1>2 DEF Txns
<1>4. /\ next.pc = pc /\ next.held = txn[t].held \cup Needs(t)
      /\ next.kind = txn[t].kind /\ next.org = txn[t].org
      /\ next.actor = txn[t].actor /\ next.user = txn[t].user
      /\ next.role = txn[t].role /\ next.was = txn[t].was /\ next.set = txn[t].set
  BY <1>2 DEF Txns
<1> HIDE DEF next
<1>5. \A target : Minimum(next, target) = Minimum(txn[t], target)
  BY <1>4 DEF Minimum
<1>6. QED
  BY <1>1, <1>3, <1>4, <1>5

LEMMA Advances ==
    ASSUME IInv, UNCHANGED Tables, NEW t \in Txn, NEW pc \in Pcs, Needs(t) \subseteq Row,
           Unheld(t, Needs(t)), Advance(t, pc),
           txn[t].kind \notin {"none", "close", "active"}, txn[t].pc # "members", pc # "members",
           txn[t].kind \in Guarded =>
             /\ \A u \in User : <<"session", u>> \notin Needs(t)
             /\ \A o \in Org : <<"key", o>> \notin Needs(t),
           \A o \in Org : org[o].st = "none" =>
             <<"org", o>> \notin Needs(t) /\ \A u \in User : <<"member", o, u>> \notin Needs(t),
           Flow(t)', Target(t)', Limits(t)', Cascades(t)'
    PROVE  IInv'
<1>1. TxnTrue(t) /\ Typed
  BY DEF IInv
<1>2. /\ txn' = [txn EXCEPT ![t] = txn'[t]] /\ txn'[t] \in Txns
      /\ txn'[t].pc = pc /\ txn'[t].held = txn[t].held \cup Needs(t)
      /\ txn'[t].kind = txn[t].kind /\ txn'[t].org = txn[t].org
      /\ txn'[t].actor = txn[t].actor /\ txn'[t].was = txn[t].was
      /\ \A target : Minimum(txn'[t], target) = Minimum(txn[t], target)
  BY <1>1, AdvanceFields
<1>3. Guards(t)'
  BY <1>1, <1>2 DEF TxnTrue, Guards, Tables, UserRows
<1>4. Existing(t)'
  BY <1>1, <1>2 DEF TxnTrue, Existing, Tables
<1>5. Entitled(t)'
  BY <1>1, <1>2 DEF TxnTrue, Entitled, Tables
<1>6. Closes(t)'
  BY <1>2 DEF Closes
<1>7. TxnTrue(t)'
  BY <1>3, <1>4, <1>5, <1>6 DEF TxnTrue
<1>8. QED
  BY <1>2, <1>7, TxnMoves

(* The rows of each statement. *)
LEMMA NeedsOf ==
    ASSUME NEW t
    PROVE  /\ txn[t].pc = "members" => Needs(t) = PairRows(txn[t])
           /\ txn[t].pc = "unlink" => Needs(t) = {<<"member", txn[t].org, txn[t].user>>}
           /\ txn[t].pc = "org" => Needs(t) = {<<"org", txn[t].org>>}
           /\ txn[t].pc = "user" => Needs(t) = {<<"user", txn[t].user>>}
           /\ txn[t].pc = "insert" =>
                Needs(t) = {<<"member", txn[t].org, txn[t].user>>, <<"key", txn[t].org>>}
           /\ txn[t].pc = "session" => Needs(t) = SessionRows(ActiveIn(txn[t].org) \cap {txn[t].user})
           /\ txn[t].pc = "owners" => Needs(t) = {}
           /\ txn[t].pc = "decrement" => Needs(t) = UserRows(txn[t].set)
           /\ txn[t].pc \in {"clear", "reclear"} => Needs(t) = SessionRows(ActiveIn(txn[t].org))
           /\ txn[t].pc = "drop" => Needs(t) = {<<"org", txn[t].org>>, <<"key", txn[t].org>>}
           /\ txn[t].pc = "cascade" => Needs(t) = MemberRows(txn[t].org, User)
           /\ txn[t].pc = "activate" => Needs(t) = {<<"session", txn[t].user>>, <<"key", txn[t].org>>}
<1>1. /\ txn[t].pc = "members" => Needs(t) = PairRows(txn[t])
      /\ txn[t].pc = "unlink" => Needs(t) = {<<"member", txn[t].org, txn[t].user>>}
      /\ txn[t].pc = "org" => Needs(t) = {<<"org", txn[t].org>>}
      /\ txn[t].pc = "user" => Needs(t) = {<<"user", txn[t].user>>}
  BY DEF Needs
<1>2. /\ txn[t].pc = "insert" =>
           Needs(t) = {<<"member", txn[t].org, txn[t].user>>, <<"key", txn[t].org>>}
      /\ txn[t].pc = "session" => Needs(t) = SessionRows(ActiveIn(txn[t].org) \cap {txn[t].user})
      /\ txn[t].pc = "owners" => Needs(t) = {}
      /\ txn[t].pc = "decrement" => Needs(t) = UserRows(txn[t].set)
  BY DEF Needs
<1>3. /\ txn[t].pc \in {"clear", "reclear"} => Needs(t) = SessionRows(ActiveIn(txn[t].org))
      /\ txn[t].pc = "drop" => Needs(t) = {<<"org", txn[t].org>>, <<"key", txn[t].org>>}
      /\ txn[t].pc = "cascade" => Needs(t) = MemberRows(txn[t].org, User)
      /\ txn[t].pc = "activate" => Needs(t) = {<<"session", txn[t].user>>, <<"key", txn[t].org>>}
  BY DEF Needs
<1>4. QED
  BY <1>1, <1>2, <1>3

(* Which kinds of operation come to a statement. *)
LEMMA KindsAt ==
    ASSUME Typed, NEW t \in Txn, Flow(t)
    PROVE  /\ txn[t].pc = "members" => txn[t].kind \in {"add", "remove", "role"}
           /\ txn[t].pc = "unlink" => txn[t].kind = "admin_remove"
           /\ txn[t].pc = "org" => txn[t].kind \in {"add", "remove", "role", "admin_remove"}
           /\ txn[t].pc \in {"user", "session"} => txn[t].kind \in {"remove", "role", "admin_remove"}
           /\ txn[t].pc = "insert" => txn[t].kind = "add"
           /\ txn[t].pc \in {"owners", "decrement", "clear", "reclear", "drop", "cascade"} =>
                txn[t].kind = "delete"
           /\ txn[t].pc = "activate" => txn[t].kind = "active"
           /\ txn[t].pc = "closing" => txn[t].kind = "close"
           /\ txn[t].pc \notin {"idle", "closing"} => txn[t].org \in Org
           /\ txn[t].pc \in {"members", "unlink", "org", "user", "session", "insert", "activate"} =>
                txn[t].user \in User
<1>1. txn[t].kind \in Kind \cup {"none"} /\ account \subseteq User
  BY DEF Typed, Txns
<1>2. QED
  BY <1>1 DEF Flow, Kind

LEMMA UnlinkKeeps ==
    ASSUME IInv, NEW t \in Txn, Unlink(t)
    PROVE  IInv'
<1>1. /\ txn[t].pc = "unlink" /\ Unheld(t, Needs(t)) /\ UNCHANGED Tables
      /\ \/ End(t)
         \/ Advance(t, "org") /\ member[txn[t].org][txn[t].user] = txn[t].was
  BY DEF Unlink, Ready
<1>2. /\ Typed /\ Flow(t) /\ Target(t) /\ txn[t].kind = "admin_remove"
      /\ txn[t].org \in Org /\ txn[t].user \in User
  BY <1>1, KindsAt DEF IInv, TxnTrue
<1>3. Needs(t) = {<<"member", txn[t].org, txn[t].user>>}
  BY <1>1, NeedsOf
<1>4. Needs(t) \subseteq Row /\ "org" \in Pcs
  BY <1>2, <1>3, RowTypes DEF Pcs
<1>5. ASSUME Advance(t, "org"), member[txn[t].org][txn[t].user] = txn[t].was PROVE IInv'
  <2>1. /\ txn'[t].pc = "org" /\ txn'[t].held = txn[t].held \cup Needs(t)
        /\ txn'[t].kind = txn[t].kind /\ txn'[t].org = txn[t].org /\ txn'[t].set = txn[t].set
        /\ txn'[t].user = txn[t].user /\ txn'[t].role = txn[t].role /\ txn'[t].was = txn[t].was
    BY <1>2, <1>4, <1>5, AdvanceFields
  <2>2. txn[t].was # "none" /\ org[txn[t].org].st = "live"
    BY <1>2, <1>5 DEF Target, IInv, Tabled, MembersLive
  <2>3. Flow(t)'
    BY <1>1, <1>2, <2>1 DEF Flow, Tables
  <2>4. Target(t)'
    BY <1>1, <1>2, <1>3, <1>5, <2>1, <2>2 DEF Target, Tables
  <2>5. Limits(t)' /\ Cascades(t)'
    BY <2>1 DEF Limits, Cascades
  <2>6. \A o \in Org : org[o].st = "none" =>
          <<"org", o>> \notin Needs(t) /\ \A u \in User : <<"member", o, u>> \notin Needs(t)
    BY <1>3, <2>2
  <2>7. QED
    BY <1>1, <1>2, <1>4, <1>5, <2>3, <2>4, <2>5, <2>6, Advances DEF Guarded
<1>6. QED
  BY <1>1, <1>5, Rollback

LEMMA LockOrgKeeps ==
    ASSUME IInv, NEW t \in Txn, LockOrg(t)
    PROVE  IInv'
<1>1. txn[t].pc = "org" /\ Unheld(t, Needs(t)) /\ UNCHANGED Tables
  BY DEF LockOrg, Ready
<1>2. /\ Typed /\ Flow(t) /\ Target(t) /\ txn[t].kind \in {"add", "remove", "role", "admin_remove"}
      /\ txn[t].org \in Org /\ txn[t].user \in User
  BY <1>1, KindsAt DEF IInv, TxnTrue
<1>3. Needs(t) = {<<"org", txn[t].org>>}
  BY <1>1, NeedsOf
<1>4. Needs(t) \subseteq Row
  BY <1>2, <1>3, RowTypes
<1>5. ASSUME NEW pc, Advance(t, pc), org[txn[t].org].st = "live",
             txn[t].was = "owner" => org[txn[t].org].owners > 1,
             txn[t].role = "owner" => owned[txn[t].user] < MaxOrgs,
             \/ txn[t].kind = "add" /\ pc = "insert"
             \/ txn[t].kind # "add" /\ pc \in {"user", "session"}
      PROVE  IInv'
  <2>1. pc \in Pcs /\ pc \in {"user", "session", "insert"}
    BY <1>5 DEF Pcs
  <2>2. /\ txn'[t].pc = pc /\ txn'[t].held = txn[t].held \cup Needs(t)
        /\ txn'[t].kind = txn[t].kind /\ txn'[t].org = txn[t].org /\ txn'[t].set = txn[t].set
        /\ txn'[t].user = txn[t].user /\ txn'[t].role = txn[t].role /\ txn'[t].was = txn[t].was
    BY <1>2, <1>4, <1>5, <2>1, AdvanceFields
  <2>3. Flow(t)'
    BY <1>1, <1>2, <1>5, <2>2 DEF Flow, Tables
  <2>4. Target(t)'
    BY <1>1, <1>2, <1>5, <2>2 DEF Target, Tables
  <2>5. Limits(t)' /\ Cascades(t)'
    BY <1>1, <1>3, <1>5, <2>1, <2>2 DEF Limits, Cascades, Tables
  <2>6. /\ \A o \in Org : org[o].st = "none" =>
             <<"org", o>> \notin Needs(t) /\ \A u \in User : <<"member", o, u>> \notin Needs(t)
        /\ \A u \in User : <<"session", u>> \notin Needs(t)
        /\ \A o \in Org : <<"key", o>> \notin Needs(t)
    BY <1>3, <1>5
  <2>7. QED
    BY <1>1, <1>2, <1>4, <1>5, <2>1, <2>3, <2>4, <2>5, <2>6, Advances
<1>6. CASE End(t)
  BY <1>1, <1>6, Rollback
<1>7. CASE ~End(t)
  BY <1>2, <1>5, <1>7 DEF LockOrg, OwnerDispensable, MayOwn
<1>8. QED
  BY <1>6, <1>7

LEMMA LockUserKeeps ==
    ASSUME IInv, NEW t \in Txn, LockUser(t)
    PROVE  IInv'
<1>1. /\ txn[t].pc = "user" /\ Unheld(t, Needs(t)) /\ UNCHANGED Tables
      /\ Advance(t, "session")
  BY DEF LockUser, Ready
<1>2. /\ Typed /\ Flow(t) /\ Target(t) /\ Limits(t)
      /\ txn[t].kind \in {"remove", "role", "admin_remove"}
      /\ txn[t].org \in Org /\ txn[t].user \in User
  BY <1>1, KindsAt DEF IInv, TxnTrue
<1>3. Needs(t) = {<<"user", txn[t].user>>}
  BY <1>1, NeedsOf
<1>4. Needs(t) \subseteq Row /\ "session" \in Pcs
  BY <1>2, <1>3, RowTypes DEF Pcs
<1>5. /\ txn'[t].pc = "session" /\ txn'[t].held = txn[t].held \cup Needs(t)
      /\ txn'[t].kind = txn[t].kind /\ txn'[t].org = txn[t].org /\ txn'[t].set = txn[t].set
      /\ txn'[t].user = txn[t].user /\ txn'[t].role = txn[t].role /\ txn'[t].was = txn[t].was
  BY <1>1, <1>2, <1>4, AdvanceFields
<1>6. Flow(t)'
  BY <1>1, <1>2, <1>5 DEF Flow, Tables
<1>7. Target(t)'
  BY <1>1, <1>2, <1>5 DEF Target, Tables
<1>8. Limits(t)' /\ Cascades(t)'
  BY <1>1, <1>2, <1>5 DEF Limits, Cascades, Tables
<1>9. /\ \A o \in Org : <<"org", o>> \notin Needs(t) /\ \A u \in User : <<"member", o, u>> \notin Needs(t)
      /\ \A u \in User : <<"session", u>> \notin Needs(t)
      /\ \A o \in Org : <<"key", o>> \notin Needs(t)
  BY <1>3
<1>10. QED
  BY <1>1, <1>2, <1>4, <1>6, <1>7, <1>8, <1>9, Advances

(* The statements of a deletion that lock rows and decide nothing. *)
LEMMA DeletionAdvances ==
    ASSUME IInv, NEW t \in Txn, NEW pc \in {"clear", "reclear", "drop", "cascade"},
           txn[t].kind = "delete", UNCHANGED Tables, Unheld(t, Needs(t)), Advance(t, pc),
           \/ /\ pc \in {"clear", "reclear", "drop"}
              /\ \/ Needs(t) = UserRows(txn[t].set)
                 \/ Needs(t) = SessionRows(ActiveIn(txn[t].org))
           \/ /\ Needs(t) = {<<"org", txn[t].org>>, <<"key", txn[t].org>>}
              /\ org[txn[t].org].st = "live"
    PROVE  IInv'
<1>1. Typed /\ Flow(t) /\ Target(t) /\ txn[t].org \in Org /\ txn[t].pc # "members"
  BY DEF IInv, TxnTrue, Flow
<1>2. Needs(t) \subseteq Row
  <2>1. UserRows(txn[t].set) \subseteq Row
    BY <1>1 DEF Typed, Row, UserRows
  <2>2. ActiveIn(txn[t].org) \subseteq User /\ SessionRows(User) \subseteq Row
    BY DEF Row, SessionRows, ActiveIn
  <2>3. {<<"org", txn[t].org>>, <<"key", txn[t].org>>} \subseteq Row
    BY <1>1 DEF Row
  <2>4. SessionRows(ActiveIn(txn[t].org)) \subseteq SessionRows(User)
    BY <2>2 DEF SessionRows
  <2>5. QED
    BY <2>1, <2>2, <2>3, <2>4
<1>3. pc \in Pcs
  BY DEF Pcs
<1>4. /\ txn'[t].pc = pc /\ txn'[t].held = txn[t].held \cup Needs(t)
      /\ txn'[t].kind = "delete" /\ txn'[t].org = txn[t].org
  BY <1>1, <1>2, <1>3, AdvanceFields
<1>5. Flow(t)'
  BY <1>1, <1>4 DEF Flow
<1>6. Target(t)' /\ Limits(t)'
  BY <1>4 DEF Target, Limits
<1>7. Cascades(t)'
  BY <1>4 DEF Cascades
<1>8. \A o \in Org : org[o].st = "none" =>
        <<"org", o>> \notin Needs(t) /\ \A u \in User : <<"member", o, u>> \notin Needs(t)
  BY DEF UserRows, SessionRows
<1>9. QED
  BY <1>1, <1>2, <1>3, <1>5, <1>6, <1>7, <1>8, Advances DEF Guarded

LEMMA DeletionKeeps ==
    ASSUME IInv, NEW t \in Txn, DecrementOwners(t) \/ ClearSessions(t) \/ DropOrg(t)
    PROVE  IInv'
<1>1. Typed /\ Flow(t)
  BY DEF IInv, TxnTrue
<1>2. CASE DecrementOwners(t)
  <2>1. txn[t].pc = "decrement" /\ Unheld(t, Needs(t)) /\ Advance(t, "clear") /\ UNCHANGED Tables
    BY <1>2 DEF DecrementOwners, Ready
  <2>2. Needs(t) = UserRows(txn[t].set) /\ txn[t].kind = "delete"
    BY <1>1, <2>1, NeedsOf, KindsAt
  <2>3. QED
    BY <2>1, <2>2, DeletionAdvances
<1>3. CASE ClearSessions(t)
  <2>1. PICK pc \in {"reclear", "drop"} :
          /\ txn[t].pc \in {"clear", "reclear"} /\ Unheld(t, Needs(t)) /\ Advance(t, pc)
          /\ UNCHANGED Tables
    BY <1>3 DEF ClearSessions, Ready
  <2>2. Needs(t) = SessionRows(ActiveIn(txn[t].org)) /\ txn[t].kind = "delete"
    BY <1>1, <2>1, NeedsOf, KindsAt
  <2>3. QED
    BY <2>1, <2>2, DeletionAdvances
<1>4. CASE DropOrg(t)
  <2>1. /\ txn[t].pc = "drop" /\ Unheld(t, Needs(t)) /\ UNCHANGED Tables
        /\ \/ End(t)
           \/ Advance(t, "cascade") /\ org[txn[t].org].st = "live"
    BY <1>4 DEF DropOrg, Ready
  <2>2. Needs(t) = {<<"org", txn[t].org>>, <<"key", txn[t].org>>} /\ txn[t].kind = "delete"
    BY <1>1, <2>1, NeedsOf, KindsAt
  <2>3. QED
    BY <2>1, <2>2, DeletionAdvances, Rollback
<1>5. QED
  BY <1>2, <1>3, <1>4

LEMMA SnapshotKeeps ==
    ASSUME IInv, NEW t \in Txn, SnapshotOwners(t)
    PROVE  IInv'
<1> DEFINE next == [txn[t] EXCEPT !.pc = "decrement", !.set = OwnersOf(txn[t].org)]
<1>1. /\ txn[t].pc = "owners" /\ UNCHANGED Tables /\ Typed /\ TxnTrue(t) /\ Flow(t)
      /\ txn[t] \in Txns
  BY DEF SnapshotOwners, Ready, IInv, TxnTrue, Typed
<1>2. txn' = [txn EXCEPT ![t] = next] /\ txn'[t] = next
  BY <1>1 DEF SnapshotOwners, Typed
<1>3. OwnersOf(txn[t].org) \in SUBSET (User \cup Org) /\ "decrement" \in Pcs
  BY DEF OwnersOf, Pcs
<1>4. next \in Txns
  BY <1>1, <1>3 DEF Txns
<1>5. txn[t].kind = "delete"
  BY <1>1, KindsAt
<1>6. /\ next.pc = "decrement" /\ next.kind = "delete" /\ next.org = txn[t].org
      /\ next.held = txn[t].held
  BY <1>1, <1>5 DEF Txns
<1> HIDE DEF next
<1>7. Flow(t)'
  BY <1>1, <1>2, <1>5, <1>6 DEF Flow
<1>8. Guards(t)' /\ Target(t)' /\ Limits(t)' /\ Entitled(t)' /\ Cascades(t)' /\ Closes(t)'
  BY <1>2, <1>6 DEF Guards, Target, Limits, Entitled, Cascades, Closes, Guarded
<1>9. Existing(t)'
  BY <1>1, <1>2, <1>6 DEF Existing, TxnTrue, Tables
<1>10. TxnTrue(t)'
  BY <1>7, <1>8, <1>9 DEF TxnTrue
<1>11. Unheld(t, {}) /\ next.held \subseteq txn[t].held \cup {}
  BY <1>6 DEF Unheld
<1>12. QED
  BY <1>1, <1>2, <1>4, <1>10, <1>11, TxnMoves

(* The memberships an operation locks. *)
LEMMA PairsOf ==
    ASSUME Typed, MembersLive, NEW t \in Txn, txn[t].org \in Org, txn[t].user \in User
    PROVE  /\ PairRows(txn[t]) \subseteq Row
           /\ \A r \in PairRows(txn[t]) : \E u \in User :
                r = <<"member", txn[t].org, u>> /\ member[txn[t].org][u] # "none"
           /\ txn[t].actor # NoUser /\ member[txn[t].org][txn[t].actor] # "none" =>
                <<"member", txn[t].org, txn[t].actor>> \in PairRows(txn[t])
           /\ txn[t].kind # "add" /\ member[txn[t].org][txn[t].user] # "none" =>
                <<"member", txn[t].org, txn[t].user>> \in PairRows(txn[t])
<1>1. txn[t].actor \in User \cup {NoUser}
  BY DEF Typed, Txns
<1>2. \A r \in PairRows(txn[t]) : \E u \in User :
        r = <<"member", txn[t].org, u>> /\ member[txn[t].org][u] # "none"
  BY DEF PairRows, MemberRows, MembersOf
<1>3. PairRows(txn[t]) \subseteq Row
  BY <1>2, RowTypes
<1>4. QED
  BY <1>1, <1>2, <1>3 DEF PairRows, MemberRows, MembersOf

LEMMA LockMembersKeeps ==
    ASSUME IInv, NEW t \in Txn, LockMembers(t)
    PROVE  IInv'
<1> DEFINE now == member[txn[t].org][txn[t].user]
           pc == IF txn[t].kind = "role" /\ "owner" \notin {now, txn[t].role}
                 THEN "session" ELSE "org"
           next == [txn[t] EXCEPT !.held = txn[t].held \cup Needs(t), !.was = now, !.pc = pc]
<1>1. /\ txn[t].pc = "members" /\ Unheld(t, Needs(t)) /\ UNCHANGED Tables
      /\ Typed /\ MembersLive /\ TxnTrue(t) /\ Flow(t) /\ Guards(t) /\ txn[t] \in Txns
  BY DEF LockMembers, Ready, IInv, TxnTrue, Typed, Tabled
<1>2. /\ txn[t].kind \in {"add", "remove", "role"} /\ txn[t].org \in Org /\ txn[t].user \in User
      /\ Needs(t) = PairRows(txn[t]) /\ txn[t].user # NoUser
  BY <1>1, KindsAt, NeedsOf
<1>3. /\ Needs(t) \subseteq Row
      /\ \A r \in Needs(t) : \E u \in User :
           r = <<"member", txn[t].org, u>> /\ member[txn[t].org][u] # "none"
  BY <1>1, <1>2, PairsOf
<1>4. /\ \A u \in User : <<"session", u>> \notin Needs(t)
      /\ \A o \in Org : <<"key", o>> \notin Needs(t) /\ <<"org", o>> \notin Needs(t)
      /\ \A o \in Org, u \in User : <<"member", o, u>> \in Needs(t) => member[o][u] # "none"
  BY <1>3
<1>5. CASE End(t)
  BY <1>1, <1>5, Rollback
<1>6. CASE ~End(t)
  <2>1. /\ Allowed(txn[t]) /\ (txn[t].kind = "add") = (now = "none") /\ now # txn[t].role
        /\ txn' = [txn EXCEPT ![t].held = @ \cup Needs(t), ![t].was = now, ![t].pc = pc]
    BY <1>6 DEF LockMembers
  <2>2. txn' = [txn EXCEPT ![t] = next] /\ txn'[t] = next
    BY <1>1, <2>1 DEF Typed
  <2>3. now \in Roles /\ pc \in Pcs /\ Needs(t) \subseteq Row
    <3>1. now \in Roles
      BY <1>1, <1>2 DEF Typed
    <3>2. pc \in Pcs
      BY DEF Pcs
    <3>3. QED
      BY <1>2, <1>3, <3>1, <3>2
  <2>4. next \in Txns
    BY <1>1, <2>3 DEF Txns
  <2>5. /\ next.pc = pc /\ next.was = now /\ next.held = txn[t].held \cup Needs(t)
        /\ next.kind = txn[t].kind /\ next.org = txn[t].org /\ next.actor = txn[t].actor
        /\ next.user = txn[t].user /\ next.role = txn[t].role
    BY <1>1 DEF Txns
  <2>6. \A target : Minimum(next, target) = Minimum(txn[t], target)
    <3> HIDE DEF next
    <3>1. QED
      BY <2>5 DEF Minimum
  <2>7. /\ pc \in {"session", "org"}
        /\ pc = "session" => txn[t].kind = "role" /\ "owner" \notin {now, txn[t].role}
    OBVIOUS
  <2> HIDE DEF next, pc
  <2>8. Flow(t)'
    BY <1>1, <1>2, <2>2, <2>5, <2>7 DEF Flow, Tables
  <2>9. Guards(t)'
    BY <1>1, <1>2, <1>4, <2>2, <2>5 DEF Guards, Guarded, Tables, UserRows
  <2>10. Existing(t)'
    <3>1. \A o \in Org : org[o].st = "none" =>
            <<"org", o>> \notin Needs(t) /\ \A u \in User : <<"member", o, u>> \notin Needs(t)
      BY <1>1, <1>4 DEF MembersLive
    <3>2. QED
      BY <1>1, <2>2, <2>5, <3>1 DEF Existing, TxnTrue, Tables
  <2>11. Target(t)'
    BY <1>1, <1>2, <2>1, <2>2, <2>5, <2>7, PairsOf DEF Target, Tables
  <2>12. Limits(t)' /\ Cascades(t)' /\ Closes(t)'
    BY <1>2, <2>2, <2>5, <2>7 DEF Limits, Cascades, Closes
  <2>13. Entitled(t)'
    <3> SUFFICES ASSUME txn[t].actor # NoUser
                 PROVE  /\ <<"member", txn[t].org, txn[t].actor>> \in next.held
                        /\ Weight(member[txn[t].org][txn[t].actor]) >= Weight(Minimum(next, now))
      BY <1>1, <2>2, <2>5 DEF Entitled, Tables
    <3>1. Weight(member[txn[t].org][txn[t].actor]) >= Weight(Minimum(txn[t], now))
      BY <2>1 DEF Allowed
    <3>2. Weight(Minimum(txn[t], now)) \in {1, 2, 3} /\ Weight("none") = 0
      <4>1. Minimum(txn[t], now) \in Role
        BY DEF Minimum, Role
      <4>2. \A r \in Role : Weight(r) \in {1, 2, 3}
        BY DEF Weight, Role
      <4>3. Weight("none") = 0
        BY DEF Weight
      <4>4. QED
        BY <4>1, <4>2, <4>3
    <3>3. member[txn[t].org][txn[t].actor] # "none"
      <4>1. ~(0 >= Weight(Minimum(txn[t], now)))
        BY <3>2
      <4>2. QED
        BY <3>1, <3>2, <4>1
    <3>4. <<"member", txn[t].org, txn[t].actor>> \in Needs(t)
      BY <1>1, <1>2, <3>3, PairsOf
    <3>5. QED
      BY <2>5, <2>6, <3>1, <3>4
  <2>14. TxnTrue(t)'
    BY <2>8, <2>9, <2>10, <2>11, <2>12, <2>13 DEF TxnTrue
  <2>15. QED
    BY <1>1, <2>2, <2>4, <2>5, <2>14, TxnMoves
<1>7. QED
  BY <1>5, <1>6

LEMMA CloseMembershipKeeps ==
    ASSUME IInv, NEW t \in Txn, CloseMembership(t)
    PROVE  IInv'
<1> DEFINE o == CHOOSE o \in txn[t].set : TRUE
           u == txn[t].user
           more == IF member[o][u] = "none" THEN {} ELSE {<<"member", o, u>>, <<"org", o>>}
           next == [txn[t] EXCEPT !.set = txn[t].set \ {o}, !.held = txn[t].held \cup more]
<1>1. /\ txn[t].pc = "closing" /\ Unheld(t, Needs(t)) /\ UNCHANGED Tables /\ txn[t].set # {}
      /\ Typed /\ MembersLive /\ TxnTrue(t) /\ Flow(t) /\ Guards(t) /\ txn[t] \in Txns
  BY DEF CloseMembership, Ready, IInv, TxnTrue, Typed, Tabled
<1>2. /\ txn[t].kind = "close" /\ u \in account /\ u \in User /\ txn[t].set \subseteq Org
      /\ o \in txn[t].set /\ o \in Org
  BY <1>1, KindsAt DEF Flow, Typed
<1>3. Needs(t) = {<<"member", o, u>>, <<"org", o>>}
  BY <1>1 DEF Needs
<1>4. CASE End(t)
  BY <1>1, <1>4, Rollback
<1>5. CASE ~End(t)
  <2>1. /\ member[o][u] = "owner" => org[o].owners > 1
        /\ txn' = [txn EXCEPT ![t].set = @ \ {o},
                              ![t].held = IF member[o][u] = "none" THEN @ ELSE @ \cup Needs(t)]
    BY <1>5 DEF CloseMembership, OwnerDispensable
  <2>2. txn' = [txn EXCEPT ![t] = next] /\ txn'[t] = next
    BY <1>1, <1>3, <2>1 DEF Typed
  <2>3. more \subseteq Row /\ more \subseteq Needs(t)
    BY <1>1, <1>2, <1>3, RowTypes
  <2>4. /\ member[o][u] = "none" => more = {}
        /\ member[o][u] # "none" => more = {<<"member", o, u>>, <<"org", o>>}
    OBVIOUS
  <2> HIDE DEF more
  <2>5. next \in Txns
    BY <1>1, <2>3 DEF Txns
  <2>6. /\ next.pc = "closing" /\ next.held = txn[t].held \cup more /\ next.kind = "close"
        /\ next.user = u /\ next.set = txn[t].set \ {o}
    BY <1>1, <1>2 DEF Txns
  <2> HIDE DEF next, o, u
  <2>7. Flow(t)'
    BY <1>1, <1>2, <2>2, <2>6 DEF Flow, Tables
  <2>8. Guards(t)'
    BY <1>1, <1>2, <2>2, <2>4, <2>6 DEF Guards, Guarded, Tables, UserRows
  <2>9. Existing(t)'
    <3>1. member[o][u] # "none" => org[o].st # "none"
      BY <1>1, <1>2 DEF MembersLive
    <3>2. QED
      BY <1>1, <1>2, <2>2, <2>4, <2>6, <3>1 DEF Existing, TxnTrue, Tables
  <2>10. Target(t)' /\ Limits(t)' /\ Entitled(t)' /\ Cascades(t)'
    BY <2>2, <2>6 DEF Target, Limits, Entitled, Cascades
  <2>11. Closes(t)'
    <3> SUFFICES ASSUME NEW p \in Org
                 PROVE  /\ member[p][u] # "none" =>
                             p \in next.set \/ <<"member", p, u>> \in next.held
                        /\ <<"member", p, u>> \in next.held =>
                             /\ <<"org", p>> \in next.held /\ member[p][u] # "none"
                             /\ member[p][u] = "owner" => org[p].owners > 1
      BY <1>1, <2>2, <2>6 DEF Closes, Tables
    <3>1. /\ member[p][u] # "none" => p \in txn[t].set \/ <<"member", p, u>> \in txn[t].held
          /\ <<"member", p, u>> \in txn[t].held =>
               /\ <<"org", p>> \in txn[t].held /\ member[p][u] # "none"
               /\ member[p][u] = "owner" => org[p].owners > 1
      BY <1>1, <1>2 DEF TxnTrue, Closes, u
    <3>2. CASE p = o
      BY <2>1, <2>4, <2>6, <3>1, <3>2
    <3>3. CASE p # o
      BY <2>4, <2>6, <3>1, <3>3
    <3>4. QED
      BY <3>2, <3>3
  <2>12. TxnTrue(t)'
    BY <2>7, <2>8, <2>9, <2>10, <2>11 DEF TxnTrue
  <2>13. QED
    BY <1>1, <2>2, <2>3, <2>5, <2>6, <2>12, TxnMoves
<1>6. QED
  BY <1>4, <1>5

-----------------------------------------------------------------------------
(* Operations begin. *)
LEMMA GuardRowsOf ==
    ASSUME Typed, NEW kind
    PROVE  /\ GuardRows(kind) \subseteq UserRows(User) /\ GuardRows(kind) \subseteq Row
           /\ kind \in Guarded => GuardRows(kind) = UserRows(User)
           /\ \A u \in User : <<"session", u>> \notin GuardRows(kind)
           /\ \A o \in Org : <<"key", o>> \notin GuardRows(kind) /\ <<"org", o>> \notin GuardRows(kind)
           /\ \A o \in Org, u \in User : <<"member", o, u>> \notin GuardRows(kind)
<1>1. GuardRows(kind) \subseteq UserRows(User) /\ UserRows(User) \subseteq Row
  BY DEF GuardRows, UserRows, Row
<1>2. kind \in Guarded => GuardRows(kind) = UserRows(User)
  BY DEF GuardRows, Guarded
<1>3. \A r \in UserRows(User) : \E v \in User : r = <<"user", v>>
  BY DEF UserRows
<1>4. QED
  BY <1>1, <1>2, <1>3

LEMMA BeginFields ==
    ASSUME Typed, NEW t \in Txn, NEW kind \in {"add", "role", "remove", "admin_remove", "delete"},
           NEW o \in Org, NEW a \in User \cup {NoUser}, NEW u \in User \cup {NoUser},
           NEW r \in Roles, Begin(t, kind, o, a, u, r)
    PROVE  /\ txn' = [txn EXCEPT ![t] = txn'[t]] /\ txn'[t] \in Txns
           /\ txn'[t].kind = kind /\ txn'[t].org = o /\ txn'[t].actor = a /\ txn'[t].user = u
           /\ txn'[t].role = r /\ txn'[t].held = GuardRows(kind)
           /\ kind \in {"add", "remove", "role"} => txn'[t].pc = "members"
           /\ kind = "admin_remove" => txn'[t].pc = "unlink"
           /\ kind = "delete" => txn'[t].pc = "owners"
           /\ u \in User => txn'[t].was = member[o][u]
<1>1. PICK pc \in Pcs : /\ kind \in {"add", "remove", "role"} => pc = "members"
                        /\ kind = "admin_remove" => pc = "unlink"
                        /\ kind = "delete" => pc = "owners"
                        /\ pc = CASE kind \in {"add", "remove", "role"} -> "members"
                                  [] kind = "admin_remove" -> "unlink"
                                  [] kind = "delete" -> "owners"
                                  [] kind = "active" -> "activate"
                                  [] kind = "close" -> "closing"
  BY DEF Pcs
<1>2. PICK was \in Roles : /\ was = IF u = NoUser THEN "none" ELSE member[o][u]
                           /\ u \in User => was = member[o][u]
  BY DEF Typed, Roles
<1> DEFINE next == [Idle EXCEPT !.pc = pc, !.kind = kind, !.org = o, !.actor = a, !.user = u,
                                !.role = r, !.was = was, !.held = GuardRows(kind)]
<1>3. txn' = [txn EXCEPT ![t] = next]
  BY <1>1, <1>2 DEF Begin
<1>4. txn'[t] = next
  BY <1>3 DEF Typed
<1>5. kind \in Kind /\ GuardRows(kind) \subseteq Row
  BY GuardRowsOf DEF Kind
<1>6. next \in Txns
  BY <1>5, IdleTyped DEF Txns
<1>7. /\ next.pc = pc /\ next.kind = kind /\ next.org = o /\ next.actor = a /\ next.user = u
      /\ next.role = r /\ next.was = was /\ next.held = GuardRows(kind)
  BY DEF Idle
<1> HIDE DEF next
<1>8. QED
  BY <1>1, <1>2, <1>3, <1>4, <1>6, <1>7

LEMMA Begins ==
    ASSUME IInv, NEW t \in Txn, NEW kind \in {"add", "role", "remove", "admin_remove", "delete"},
           NEW o \in Org, NEW a \in User \cup {NoUser}, NEW u \in User \cup {NoUser},
           NEW r \in Roles, Begin(t, kind, o, a, u, r),
           kind \in {"add", "role"} => u \in account /\ r \in Role,
           kind = "remove" => u \in User /\ account # {} /\ r = "none",
           kind = "admin_remove" => u \in User /\ member[o][u] # "none" /\ r = "none"
    PROVE  IInv'
<1>1. UNCHANGED Tables /\ Unheld(t, GuardRows(kind)) /\ Typed
  BY DEF Begin, IInv
<1>2. /\ txn' = [txn EXCEPT ![t] = txn'[t]] /\ txn'[t] \in Txns
      /\ txn'[t].kind = kind /\ txn'[t].org = o /\ txn'[t].user = u
      /\ txn'[t].role = r /\ txn'[t].held = GuardRows(kind)
      /\ kind \in {"add", "remove", "role"} => txn'[t].pc = "members"
      /\ kind = "admin_remove" => txn'[t].pc = "unlink"
      /\ kind = "delete" => txn'[t].pc = "owners"
      /\ u \in User => txn'[t].was = member[o][u]
  BY <1>1, BeginFields
<1>3. Flow(t)'
  BY <1>1, <1>2 DEF Flow, Tables
<1>4. Guards(t)'
  BY <1>1, <1>2, GuardRowsOf DEF Guards, Guarded, Tables, UserRows
<1>5. Existing(t)'
  <2>1. /\ \A p \in Org : <<"org", p>> \notin GuardRows(kind)
        /\ \A p \in Org, v \in User : <<"member", p, v>> \notin GuardRows(kind)
    BY <1>1, GuardRowsOf
  <2>2. QED
    BY <1>2, <2>1 DEF Existing
<1>6. Target(t)' /\ Limits(t)' /\ Entitled(t)' /\ Cascades(t)' /\ Closes(t)'
  BY <1>2 DEF Target, Limits, Entitled, Cascades, Closes
<1>7. TxnTrue(t)'
  BY <1>3, <1>4, <1>5, <1>6 DEF TxnTrue
<1>8. QED
  BY <1>1, <1>2, <1>7, TxnMoves

LEMMA StartActiveKeeps ==
    ASSUME IInv, NEW t \in Txn, NEW o \in Org, NEW u \in User, StartActive(t, o, u)
    PROVE  IInv'
<1> DEFINE rows == {<<"member", o, u>>}
           next == [Idle EXCEPT !.pc = "activate", !.kind = "active", !.org = o, !.actor = u,
                                !.user = u, !.was = member[o][u], !.held = rows]
<1>1. /\ UNCHANGED Tables /\ Unheld(t, rows) /\ Typed /\ MembersLive
      /\ member[o][u] # "none" /\ txn' = [txn EXCEPT ![t] = next]
  BY DEF StartActive, IInv, Tabled
<1>2. txn'[t] = next
  BY <1>1 DEF Typed
<1>3. /\ "activate" \in Pcs /\ "active" \in Kind /\ member[o][u] \in Roles /\ rows \subseteq Row
  BY <1>1 DEF Pcs, Kind, Typed, Row
<1>4. next \in Txns
  BY <1>3, IdleTyped DEF Txns
<1>5. /\ next.pc = "activate" /\ next.kind = "active" /\ next.org = o /\ next.user = u
      /\ next.was = member[o][u] /\ next.held = rows
  BY DEF Idle
<1> HIDE DEF next
<1>6. Flow(t)' /\ Guards(t)'
  BY <1>2, <1>5 DEF Flow, Guards, Guarded
<1>7. Existing(t)' /\ Target(t)'
  BY <1>1, <1>2, <1>5 DEF Existing, Target, MembersLive, Tables
<1>8. Limits(t)' /\ Entitled(t)' /\ Cascades(t)' /\ Closes(t)'
  BY <1>2, <1>5 DEF Limits, Entitled, Cascades, Closes
<1>9. TxnTrue(t)'
  BY <1>6, <1>7, <1>8 DEF TxnTrue
<1>10. QED
  BY <1>1, <1>2, <1>4, <1>5, <1>9, TxnMoves

LEMMA StartCloseKeeps ==
    ASSUME IInv, NEW t \in Txn, NEW u \in User, StartClose(t, u)
    PROVE  IInv'
<1> DEFINE rows == GuardRows("close")
           next == [Idle EXCEPT !.pc = "closing", !.kind = "close", !.user = u,
                                !.set = MembershipsOf(u), !.held = rows]
<1>1. /\ UNCHANGED Tables /\ Unheld(t, rows) /\ Typed /\ u \in account
      /\ txn' = [txn EXCEPT ![t] = next]
  BY DEF StartClose, IInv
<1>2. txn'[t] = next
  BY <1>1 DEF Typed
<1>3. /\ rows \subseteq Row /\ rows = UserRows(User)
      /\ \A v \in User : <<"session", v>> \notin rows
      /\ \A o \in Org : <<"key", o>> \notin rows /\ <<"org", o>> \notin rows
      /\ \A o \in Org, v \in User : <<"member", o, v>> \notin rows
  BY <1>1, GuardRowsOf DEF Guarded
<1>4. "closing" \in Pcs /\ "close" \in Kind /\ MembershipsOf(u) \in SUBSET (User \cup Org)
  BY DEF Pcs, Kind, MembershipsOf
<1>5. next \in Txns
  BY <1>3, <1>4, IdleTyped DEF Txns
<1>6. /\ next.pc = "closing" /\ next.kind = "close" /\ next.user = u
      /\ next.set = MembershipsOf(u) /\ next.held = rows
  BY DEF Idle
<1> HIDE DEF next, rows
<1>7. Flow(t)'
  BY <1>1, <1>2, <1>6 DEF Flow, MembershipsOf, Tables
<1>8. Guards(t)' /\ Existing(t)'
  BY <1>1, <1>2, <1>3, <1>6 DEF Guards, Existing, Tables, UserRows
<1>9. Target(t)' /\ Limits(t)' /\ Entitled(t)' /\ Cascades(t)'
  BY <1>2, <1>6 DEF Target, Limits, Entitled, Cascades
<1>10. Closes(t)'
  BY <1>1, <1>2, <1>3, <1>6 DEF Closes, MembershipsOf, Tables
<1>11. TxnTrue(t)'
  BY <1>7, <1>8, <1>9, <1>10 DEF TxnTrue
<1>12. QED
  BY <1>1, <1>2, <1>5, <1>6, <1>11, TxnMoves

LEMMA StartsKeep ==
    ASSUME IInv, NEW t \in Txn,
           \/ StaffRequest(t) \/ MemberRequest(t) \/ AcceptRequest(t)
           \/ DeleteRequest(t) \/ CloseRequest(t)
    PROVE  IInv'
<1>1. account \subseteq User /\ Role \subseteq Roles /\ "none" \in Roles
  BY DEF IInv, Typed, Roles
<1>2. ASSUME NEW kind \in {"add", "role"}, NEW o \in Org, NEW a \in User \cup {NoUser},
             NEW u \in User, NEW r \in Role, StartChange(t, kind, o, a, u, r)
      PROVE  IInv'
  BY <1>1, <1>2, Begins DEF StartChange
<1>3. CASE StaffRequest(t)
  <2>1. PICK o \in Org, u \in User :
          \/ \E kind \in {"add", "role"}, r \in Role : StartChange(t, kind, o, NoUser, u, r)
          \/ StartAdminRemove(t, o, u)
          \/ StartAdminDelete(t, o)
    BY <1>3 DEF StaffRequest
  <2>2. CASE StartAdminRemove(t, o, u)
    BY <1>1, <2>2, Begins DEF StartAdminRemove
  <2>3. CASE StartAdminDelete(t, o)
    BY <1>1, <2>3, Begins DEF StartAdminDelete
  <2>4. QED
    BY <1>2, <2>1, <2>2, <2>3
<1>4. CASE MemberRequest(t)
  <2>1. PICK o \in Org, a \in account :
          \/ \E u \in User : \/ \E r \in Role : StartChange(t, "role", o, a, u, r)
                             \/ StartRemove(t, o, a, u)
          \/ StartActive(t, o, a)
    BY <1>4 DEF MemberRequest
  <2>2. ASSUME NEW u \in User, StartRemove(t, o, a, u) PROVE IInv'
    BY <1>1, <2>2, Begins DEF StartRemove
  <2>3. QED
    BY <1>1, <1>2, <2>1, <2>2, StartActiveKeeps
<1>5. CASE AcceptRequest(t)
  BY <1>1, <1>2, <1>5 DEF AcceptRequest
<1>6. CASE DeleteRequest(t)
  BY <1>1, <1>6, Begins DEF DeleteRequest, StartDelete
<1>7. CASE CloseRequest(t)
  BY <1>7, StartCloseKeeps DEF CloseRequest
<1>8. QED
  BY <1>3, <1>4, <1>5, <1>6, <1>7

-----------------------------------------------------------------------------
(* Transactions commit. *)
LEMMA Commits ==
    ASSUME IInv, Typed', Tabled',
           \A s \in Txn : \/ txn'[s] = Idle
                          \/ txn'[s] = txn[s] /\ Steady(s)
    PROVE  IInv'
<1>1. LocksExclusive'
  BY IdleTyped DEF IInv, LocksExclusive
<1>2. ASSUME NEW s \in Txn PROVE TxnTrue(s)'
  <2>1. CASE txn'[s] = Idle
    BY <2>1, IdleTrue
  <2>2. CASE txn'[s] = txn[s] /\ Steady(s)
    BY <2>2, OtherStays DEF IInv
  <2>3. QED
    BY <2>1, <2>2
<1>3. QED
  BY <1>1, <1>2 DEF IInv

LEMMA Ends ==
    ASSUME Typed, NEW t \in Txn, End(t)
    PROVE  /\ txn' \in [Txn -> Txns] /\ txn'[t] = Idle
           /\ \A s \in Txn : s # t => txn'[s] = txn[s]
<1>1. txn' = [txn EXCEPT ![t] = Idle]
  BY DEF End
<1>2. QED
  BY <1>1, IdleTyped DEF Typed

Bit(b) == IF b THEN 1 ELSE 0

LEMMA OneApart ==
    ASSUME NEW S, NEW T, NEW x, IsFiniteSet(S), S \ {x} = T \ {x}
    PROVE  /\ Cardinality(S) \in Nat /\ Cardinality(T) \in Nat
           /\ Cardinality(T) = Cardinality(S) + Bit(x \in T) - Bit(x \in S)
           /\ x \in T => Cardinality(T) > 0
<1> DEFINE R == S \ {x}
<1>1. IsFiniteSet(R) /\ Cardinality(R) \in Nat
  BY FS_Subset, FS_CardinalityType
<1>2. Cardinality(R \cup {x}) = Cardinality(R) + 1
  BY <1>1, FS_AddElement
<1>3. /\ S = (IF x \in S THEN R \cup {x} ELSE R)
      /\ T = (IF x \in T THEN R \cup {x} ELSE R)
  OBVIOUS
<1> HIDE DEF R
<1>4. Cardinality(S) = Cardinality(R) + Bit(x \in S)
  <2>1. CASE x \in S
    <3>1. S = R \cup {x} /\ Bit(x \in S) = 1
      BY <1>3, <2>1 DEF Bit
    <3>2. QED
      BY <1>2, <3>1
  <2>2. CASE x \notin S
    <3>1. S = R /\ Bit(x \in S) = 0
      BY <1>3, <2>2 DEF Bit
    <3>2. QED
      BY <1>1, <3>1
  <2>3. QED
    BY <2>1, <2>2
<1>5. Cardinality(T) = Cardinality(R) + Bit(x \in T)
  <2>1. CASE x \in T
    <3>1. T = R \cup {x} /\ Bit(x \in T) = 1
      BY <1>3, <2>1 DEF Bit
    <3>2. QED
      BY <1>2, <3>1
  <2>2. CASE x \notin T
    <3>1. T = R /\ Bit(x \in T) = 0
      BY <1>3, <2>2 DEF Bit
    <3>2. QED
      BY <1>1, <3>1
  <2>3. QED
    BY <2>1, <2>2
<1>6. /\ Bit(x \in S) \in {0, 1} /\ Bit(x \in T) \in {0, 1} /\ (x \in T => Bit(x \in T) = 1)
  BY DEF Bit
<1>7. QED
  BY <1>1, <1>4, <1>5, <1>6

LEMMA Finite ==
    ASSUME Typed, NEW o, NEW u
    PROVE  IsFiniteSet(OwnersOf(o)) /\ IsFiniteSet(MembersOf(o)) /\ IsFiniteSet(Owns(u))
<1>1. OwnersOf(o) \subseteq User /\ MembersOf(o) \subseteq User /\ Owns(u) \subseteq Org
  BY DEF OwnersOf, MembersOf, Owns
<1>2. QED
  BY <1>1, FS_Subset

LEMMA Counts ==
    ASSUME Typed, NEW o \in Org, NEW u \in User
    PROVE  /\ Cardinality(OwnersOf(o)) \in Nat /\ Cardinality(MembersOf(o)) \in Nat
           /\ Cardinality(Owns(u)) \in Nat
           /\ member[o][u] # "none" => Cardinality(MembersOf(o)) > 0
           /\ member[o][u] = "owner" => Cardinality(Owns(u)) > 0
<1>1. IsFiniteSet(OwnersOf(o)) /\ IsFiniteSet(MembersOf(o)) /\ IsFiniteSet(Owns(u))
  BY Finite
<1>2. /\ member[o][u] # "none" => u \in MembersOf(o)
      /\ member[o][u] = "owner" => o \in Owns(u)
  BY DEF MembersOf, Owns
<1>3. Cardinality(OwnersOf(o)) \in Nat
  BY <1>1, OneApart
<1>4. /\ Cardinality(MembersOf(o)) \in Nat
      /\ u \in MembersOf(o) => Cardinality(MembersOf(o)) > 0
  BY <1>1, OneApart
<1>5. /\ Cardinality(Owns(u)) \in Nat
      /\ o \in Owns(u) => Cardinality(Owns(u)) > 0
  BY <1>1, OneApart
<1>6. QED
  BY <1>2, <1>3, <1>4, <1>5

(* One membership changes. *)
LEMMA MemberSet ==
    ASSUME Typed, NEW o \in Org, NEW u \in User, NEW r \in Roles,
           member' = [member EXCEPT ![o][u] = r]
    PROVE  /\ Cardinality(OwnersOf(o)') = Cardinality(OwnersOf(o)) + Bit(r = "owner") - Bit(member[o][u] = "owner")
           /\ Cardinality(MembersOf(o)') = Cardinality(MembersOf(o)) + Bit(r # "none") - Bit(member[o][u] # "none")
           /\ Cardinality(Owns(u)') = Cardinality(Owns(u)) + Bit(r = "owner") - Bit(member[o][u] = "owner")
<1>1. /\ member' \in [Org -> [User -> Roles]]
      /\ \A p \in Org, v \in User :
           member'[p][v] = IF p = o /\ v = u THEN r ELSE member[p][v]
  BY DEF Typed
<1>3. /\ OwnersOf(o)' \ {u} = OwnersOf(o) \ {u} /\ MembersOf(o)' \ {u} = MembersOf(o) \ {u}
      /\ Owns(u)' \ {o} = Owns(u) \ {o}
  BY <1>1 DEF OwnersOf, MembersOf, Owns
<1>4. /\ (u \in OwnersOf(o)') = (r = "owner") /\ (u \in OwnersOf(o)) = (member[o][u] = "owner")
      /\ (u \in MembersOf(o)') = (r # "none") /\ (u \in MembersOf(o)) = (member[o][u] # "none")
      /\ (o \in Owns(u)') = (r = "owner") /\ (o \in Owns(u)) = (member[o][u] = "owner")
  BY <1>1 DEF OwnersOf, MembersOf, Owns
<1>5. IsFiniteSet(OwnersOf(o)) /\ IsFiniteSet(MembersOf(o)) /\ IsFiniteSet(Owns(u))
  BY Finite
<1>6. /\ Cardinality(OwnersOf(o)') = Cardinality(OwnersOf(o)) + Bit(r = "owner") - Bit(member[o][u] = "owner")
  BY <1>3, <1>4, <1>5, OneApart
<1>7. /\ Cardinality(MembersOf(o)') = Cardinality(MembersOf(o)) + Bit(r # "none") - Bit(member[o][u] # "none")
  BY <1>3, <1>4, <1>5, OneApart
<1>8. /\ Cardinality(Owns(u)') = Cardinality(Owns(u)) + Bit(r = "owner") - Bit(member[o][u] = "owner")
  BY <1>3, <1>4, <1>5, OneApart
<1>9. QED
  BY <1>6, <1>7, <1>8

LEMMA Reseated ==
    ASSUME IInv, NEW o \in Org, NEW u \in User, NEW r \in Roles,
           member' = [member EXCEPT ![o][u] = r], account' = account,
           \A p \in Org : p # o => org'[p] = org[p],
           org[o].st # "gone", org'[o].st = "live", org'[o].owners > 0,
           org'[o].owners = Cardinality(OwnersOf(o)) + Bit(r = "owner") - Bit(member[o][u] = "owner"),
           org'[o].members = Cardinality(MembersOf(o)) + Bit(r # "none") - Bit(member[o][u] # "none"),
           \A v \in User : v # u => owned'[v] = owned[v],
           (\A p \in Org : org[p].st # "gone") /\ u \in account =>
             /\ owned'[u] = owned[u] + Bit(r = "owner") - Bit(member[o][u] = "owner")
             /\ owned'[u] <= MaxOrgs,
           r # "none" => u \in account
    PROVE  MembersLive' /\ Counted' /\ OwnedTrue'
<1>1. Typed /\ MembersLive /\ Counted /\ OwnedTrue /\ account \subseteq User
  BY DEF IInv, Tabled, Typed
<1>2. \A p \in Org, v \in User : member'[p][v] = IF p = o /\ v = u THEN r ELSE member[p][v]
  BY <1>1 DEF Typed
<1>7. /\ \A p \in Org : p # o => OwnersOf(p)' = OwnersOf(p) /\ MembersOf(p)' = MembersOf(p)
      /\ \A v \in User : v # u => Owns(v)' = Owns(v)
  BY <1>2 DEF OwnersOf, MembersOf, Owns
<1>8. /\ Cardinality(OwnersOf(o)') = Cardinality(OwnersOf(o)) + Bit(r = "owner") - Bit(member[o][u] = "owner")
      /\ Cardinality(MembersOf(o)') = Cardinality(MembersOf(o)) + Bit(r # "none") - Bit(member[o][u] # "none")
      /\ Cardinality(Owns(u)') = Cardinality(Owns(u)) + Bit(r = "owner") - Bit(member[o][u] = "owner")
  BY <1>1, MemberSet
<1>3. MembersLive'
  BY <1>1, <1>2 DEF MembersLive
<1>4. Counted'
  <2> SUFFICES ASSUME NEW p \in Org, org'[p].st = "live"
               PROVE  /\ org'[p].owners = Cardinality(OwnersOf(p)') /\ org'[p].owners > 0
                      /\ org'[p].members = Cardinality(MembersOf(p)')
    BY DEF Counted
  <2>1. CASE p = o
    BY <1>8, <2>1
  <2>2. CASE p # o
    BY <1>1, <1>7, <2>2 DEF Counted
  <2>3. QED
    BY <2>1, <2>2
<1>5. OwnedTrue'
  <2> SUFFICES ASSUME \A p \in Org : org'[p].st # "gone", NEW v \in account
               PROVE  owned'[v] = Cardinality(Owns(v)') /\ owned'[v] <= MaxOrgs
    BY DEF OwnedTrue
  <2>1. \A p \in Org : org[p].st # "gone"
    OBVIOUS
  <2>2. owned[v] = Cardinality(Owns(v)) /\ owned[v] <= MaxOrgs /\ v \in User
    BY <1>1, <2>1 DEF OwnedTrue
  <2>3. CASE v = u
    BY <1>8, <2>1, <2>2, <2>3
  <2>4. CASE v # u
    BY <1>7, <2>2, <2>4
  <2>5. QED
    BY <2>3, <2>4
<1>6. QED
  BY <1>3, <1>4, <1>5

LEMMA SteadyReseat ==
    ASSUME Typed, NEW o \in Org, NEW u \in User, NEW r \in Roles, NEW s \in Txn,
           member' = [member EXCEPT ![o][u] = r], account' = account,
           \A p \in Org : p # o => org'[p] = org[p],
           org'[o].st # "none",
           \A v \in User : v # u => owned'[v] = owned[v],
           <<"member", o, u>> \notin txn[s].held,
           <<"org", o>> \in txn[s].held => org'[o] = org[o],
           <<"user", u>> \in txn[s].held => r \in {member[o][u], "none"} /\ owned'[u] <= owned[u]
    PROVE  Steady(s)
<1>1. \A p \in Org, v \in User : member'[p][v] = IF p = o /\ v = u THEN r ELSE member[p][v]
  BY DEF Typed
<1>2. \A v \in User : owned[v] \in Int
  BY DEF Typed
<1>3. QED
  BY <1>1, <1>2 DEF Steady

LEMMA CommitAddKeeps ==
    ASSUME IInv, NEW t \in Txn, CommitAdd(t)
    PROVE  IInv'
<1> DEFINE o == txn[t].org
           u == txn[t].user
           r == txn[t].role
<1>1. /\ txn[t].pc = "insert" /\ Unheld(t, Needs(t)) /\ End(t)
      /\ Typed /\ TxnTrue(t) /\ Flow(t) /\ Tabled
  BY DEF CommitAdd, Ready, IInv, TxnTrue
<1>2. /\ txn[t].kind = "add" /\ o \in Org /\ u \in account /\ u \in User /\ r \in Role /\ r \in Roles
      /\ r # "none" /\ Needs(t) = {<<"member", o, u>>, <<"key", o>>}
  BY <1>1, KindsAt, NeedsOf DEF Flow, Role, Roles
<1>3. /\ <<"org", o>> \in txn[t].held /\ org[o].st = "live"
      /\ r = "owner" => owned[u] < MaxOrgs
      /\ <<"user", u>> \in txn[t].held
  BY <1>1, <1>2 DEF TxnTrue, Limits, Guards, Guarded, UserRows
<1>4. CASE member[o][u] # "none"
  BY <1>1, <1>4, Rollback DEF CommitAdd
<1>5. CASE member[o][u] = "none"
  <2>1. /\ member' = [member EXCEPT ![o][u] = r]
        /\ org' = [org EXCEPT ![o].members = @ + 1,
                              ![o].owners = IF r = "owner" THEN @ + 1 ELSE @]
        /\ owned' = [owned EXCEPT ![u] = IF r = "owner" THEN @ + 1 ELSE @]
        /\ UNCHANGED <<plan, account, active>>
    BY <1>1, <1>5 DEF CommitAdd
  <2>2. org[o] \in OrgRow /\ owned[u] \in Int
    BY <1>1, <1>2 DEF Typed
  <2>3. /\ org' \in [Org -> OrgRow] /\ \A p \in Org : p # o => org'[p] = org[p]
        /\ org'[o].st = "live" /\ org'[o].members = org[o].members + 1
        /\ org'[o].owners = IF r = "owner" THEN org[o].owners + 1 ELSE org[o].owners
    <3>1. PICK n \in Nat : n = IF r = "owner" THEN org[o].owners + 1 ELSE org[o].owners
      BY <2>2 DEF OrgRow
    <3> DEFINE row == [org[o] EXCEPT !.members = org[o].members + 1, !.owners = n]
    <3>2. org' = [org EXCEPT ![o] = row]
      BY <1>1, <1>2, <2>1, <3>1 DEF Typed
    <3>3. row \in OrgRow /\ row.st = "live" /\ row.members = org[o].members + 1 /\ row.owners = n
      <4>1. org[o].members + 1 \in Nat
        BY <2>2 DEF OrgRow
      <4>2. QED
        BY <1>3, <2>2, <4>1 DEF OrgRow
    <3> HIDE DEF row
    <3>4. QED
      BY <1>1, <1>2, <3>1, <3>2, <3>3 DEF Typed
  <2>4. /\ owned' \in [User -> Int] /\ \A v \in User : v # u => owned'[v] = owned[v]
        /\ owned'[u] = IF r = "owner" THEN owned[u] + 1 ELSE owned[u]
    BY <1>1, <1>2, <2>1, <2>2 DEF Typed
  <2>5. /\ Bit(r = "owner") = (IF r = "owner" THEN 1 ELSE 0) /\ Bit(r # "none") = 1
        /\ Bit(member[o][u] = "owner") = 0 /\ Bit(member[o][u] # "none") = 0
    BY <1>2, <1>5 DEF Bit
  <2>6. /\ org[o].owners = Cardinality(OwnersOf(o)) /\ org[o].owners > 0 /\ org[o].owners \in Nat
        /\ org[o].members = Cardinality(MembersOf(o)) /\ org[o].members \in Nat
    BY <1>1, <1>2, <1>3, <2>2 DEF Tabled, Counted, OrgRow
  <2> HIDE DEF o, u, r
  <2>7. /\ org'[o].owners > 0
        /\ org'[o].owners = Cardinality(OwnersOf(o)) + Bit(r = "owner") - Bit(member[o][u] = "owner")
        /\ org'[o].members = Cardinality(MembersOf(o)) + Bit(r # "none") - Bit(member[o][u] # "none")
    BY <2>3, <2>5, <2>6
  <2>8. (\A p \in Org : org[p].st # "gone") =>
          /\ owned'[u] = owned[u] + Bit(r = "owner") - Bit(member[o][u] = "owner")
          /\ owned'[u] <= MaxOrgs
    BY <1>1, <1>2, <1>3, <2>2, <2>4, <2>5 DEF Tabled, OwnedTrue
  <2>9. MembersLive' /\ Counted' /\ OwnedTrue'
    BY <1>2, <1>3, <2>1, <2>3, <2>4, <2>7, <2>8, Reseated
  <2>10. /\ member' \in [Org -> [User -> Roles]]
         /\ \A p \in Org, v \in User :
              member'[p][v] = IF p = o /\ v = u THEN r ELSE member[p][v]
    BY <1>1, <1>2, <2>1 DEF Typed
  <2>11. ActiveTrue'
    BY <1>1, <1>2, <1>5, <2>1, <2>10 DEF Tabled, ActiveTrue
  <2>12. Typed'
    BY <1>1, <2>1, <2>3, <2>4, <2>10, Ends DEF Typed
  <2>13. ASSUME NEW s \in Txn, s # t PROVE txn'[s] = txn[s] /\ Steady(s)
    <3>1. /\ <<"member", o, u>> \notin txn[s].held /\ <<"org", o>> \notin txn[s].held
          /\ <<"user", u>> \notin txn[s].held
      BY <1>1, <1>2, <1>3, <2>13 DEF Unheld, IInv, LocksExclusive
    <3>2. QED
      BY <1>1, <1>2, <2>1, <2>3, <2>4, <2>13, <3>1, SteadyReseat, Ends
  <2>14. QED
    BY <1>1, <2>9, <2>11, <2>12, <2>13, Commits, Ends DEF Tabled
<1>6. QED
  BY <1>4, <1>5

LEMMA CommitRemoveKeeps ==
    ASSUME IInv, NEW t \in Txn, CommitRemove(t)
    PROVE  IInv'
<1> DEFINE o == txn[t].org
           u == txn[t].user
           was == txn[t].was
<1>1. /\ txn[t].pc = "session" /\ txn[t].kind \in {"remove", "admin_remove"} /\ End(t)
      /\ Typed /\ TxnTrue(t) /\ Flow(t) /\ Tabled
  BY DEF CommitRemove, Ready, IInv, TxnTrue
<1>2. o \in Org /\ u \in User /\ "none" \in Roles /\ txn[t].role = "none"
  BY <1>1, KindsAt DEF Flow, Roles
<1>3. /\ <<"org", o>> \in txn[t].held /\ org[o].st = "live"
      /\ was = "owner" => org[o].owners > 1
      /\ was # "none" /\ was = member[o][u] /\ <<"member", o, u>> \in txn[t].held
  BY <1>1, <1>2 DEF TxnTrue, Limits, Target
<1>4. /\ member' = [member EXCEPT ![o][u] = "none"]
      /\ org' = [org EXCEPT ![o].members = OneLess(@),
                            ![o].owners = IF was = "owner" THEN @ - 1 ELSE @]
      /\ owned' = [owned EXCEPT ![u] = IF was = "owner" THEN OneLess(@) ELSE @]
      /\ active' = [active EXCEPT ![u] = IF InOrg(u, o) THEN NoActive ELSE @]
      /\ UNCHANGED <<plan, account>>
  BY DEF CommitRemove
<1>5. /\ org[o] \in OrgRow /\ org[o].owners \in Nat /\ org[o].members \in Nat
      /\ owned[u] \in Int
  BY <1>1, <1>2 DEF Typed, OrgRow
<1>6. /\ org[o].owners = Cardinality(OwnersOf(o)) /\ org[o].owners > 0
      /\ org[o].members = Cardinality(MembersOf(o))
      /\ u \in account
  BY <1>1, <1>2, <1>3 DEF Tabled, Counted, MembersLive
<1>7. /\ Cardinality(MembersOf(o)) > 0 /\ Cardinality(Owns(u)) \in Nat
      /\ was = "owner" => Cardinality(Owns(u)) > 0
  BY <1>1, <1>2, <1>3, Counts
<1>8. /\ org' \in [Org -> OrgRow] /\ \A p \in Org : p # o => org'[p] = org[p]
      /\ org'[o].st = "live" /\ org'[o].members = org[o].members - 1
      /\ org'[o].owners = IF was = "owner" THEN org[o].owners - 1 ELSE org[o].owners
  <2>1. PICK n \in Nat : n = IF was = "owner" THEN org[o].owners - 1 ELSE org[o].owners
    BY <1>3, <1>5
  <2>2. org[o].members > 0 /\ OneLess(org[o].members) = org[o].members - 1
    BY <1>5, <1>6, <1>7 DEF OneLess
  <2>3. org[o].members - 1 \in Nat
    BY <1>5, <2>2
  <2> DEFINE row == [org[o] EXCEPT !.members = org[o].members - 1, !.owners = n]
  <2>4. org' = [org EXCEPT ![o] = row]
    BY <1>1, <1>2, <1>4, <2>1, <2>2 DEF Typed
  <2>5. row \in OrgRow /\ row.st = "live" /\ row.members = org[o].members - 1 /\ row.owners = n
    BY <1>3, <1>5, <2>3 DEF OrgRow
  <2> HIDE DEF row
  <2>6. QED
    BY <1>1, <1>2, <2>1, <2>4, <2>5 DEF Typed
<1>9. /\ owned' \in [User -> Int] /\ \A v \in User : v # u => owned'[v] = owned[v]
      /\ owned'[u] = IF was = "owner" THEN OneLess(owned[u]) ELSE owned[u]
  BY <1>1, <1>2, <1>4, <1>5 DEF Typed, OneLess
<1>10. /\ active' \in [User -> Actives] /\ \A v \in User : v # u => active'[v] = active[v]
       /\ active'[u] = IF active[u].org = o THEN NoActive ELSE active[u]
  <2>1. NoActive \in Actives
    BY <1>2 DEF NoActive, Actives
  <2>2. QED
    BY <1>1, <1>2, <1>4, <2>1 DEF Typed, InOrg
<1>11. /\ Bit("none" = "owner") = 0 /\ Bit("none" # "none") = 0
       /\ Bit(member[o][u] = "owner") = (IF was = "owner" THEN 1 ELSE 0)
       /\ Bit(member[o][u] # "none") = 1
  BY <1>3 DEF Bit
<1>12. \A p \in Org, v \in User : member'[p][v] = IF p = o /\ v = u THEN "none" ELSE member[p][v]
  BY <1>1, <1>2, <1>4 DEF Typed
<1>13. member' \in [Org -> [User -> Roles]]
  BY <1>1, <1>2, <1>4 DEF Typed
<1> HIDE DEF o, u, was
<1>14. /\ org'[o].owners > 0
       /\ org'[o].owners = Cardinality(OwnersOf(o)) + Bit("none" = "owner") - Bit(member[o][u] = "owner")
       /\ org'[o].members = Cardinality(MembersOf(o)) + Bit("none" # "none") - Bit(member[o][u] # "none")
  BY <1>3, <1>5, <1>6, <1>8, <1>11
<1>15. (\A p \in Org : org[p].st # "gone") =>
         /\ owned'[u] = owned[u] + Bit("none" = "owner") - Bit(member[o][u] = "owner")
         /\ owned'[u] <= MaxOrgs
  <2> SUFFICES ASSUME \A p \in Org : org[p].st # "gone"
               PROVE  /\ owned'[u] = owned[u] + Bit("none" = "owner") - Bit(member[o][u] = "owner")
                      /\ owned'[u] <= MaxOrgs
    OBVIOUS
  <2>1. owned[u] = Cardinality(Owns(u)) /\ owned[u] <= MaxOrgs
    BY <1>1, <1>6 DEF Tabled, OwnedTrue
  <2>2. was = "owner" => owned[u] > 0
    BY <1>7, <2>1
  <2>3. owned'[u] = IF was = "owner" THEN owned[u] - 1 ELSE owned[u]
    BY <1>9, <2>2 DEF OneLess
  <2>4. QED
    BY <1>5, <1>11, <2>1, <2>3
<1>16. MembersLive' /\ Counted' /\ OwnedTrue'
  BY <1>2, <1>3, <1>4, <1>8, <1>9, <1>14, <1>15, Reseated
<1>17. ActiveTrue'
  BY <1>1, <1>2, <1>10, <1>12 DEF Tabled, ActiveTrue
<1>18. Typed'
  BY <1>1, <1>4, <1>8, <1>9, <1>10, <1>13, Ends DEF Typed
<1>19. ASSUME NEW s \in Txn, s # t PROVE txn'[s] = txn[s] /\ Steady(s)
  <2>1. <<"member", o, u>> \notin txn[s].held /\ <<"org", o>> \notin txn[s].held
    BY <1>2, <1>3, <1>19 DEF IInv, LocksExclusive
  <2>2. owned'[u] <= owned[u]
    BY <1>5, <1>9 DEF OneLess
  <2>3. QED
    BY <1>1, <1>2, <1>4, <1>8, <1>9, <1>19, <2>1, <2>2, SteadyReseat, Ends
<1>20. QED
  BY <1>1, <1>16, <1>17, <1>18, <1>19, Commits, Ends DEF Tabled

LEMMA CommitRoleKeeps ==
    ASSUME IInv, NEW t \in Txn, CommitRole(t)
    PROVE  IInv'
<1> DEFINE o == txn[t].org
           u == txn[t].user
           r == txn[t].role
           was == txn[t].was
<1>1. /\ txn[t].pc = "session" /\ txn[t].kind = "role" /\ End(t)
      /\ Typed /\ TxnTrue(t) /\ Flow(t) /\ Tabled
  BY DEF CommitRole, Ready, IInv, TxnTrue
<1>2. /\ o \in Org /\ u \in User /\ u \in account /\ r \in Role /\ r \in Roles /\ r # "none"
  BY <1>1, KindsAt DEF Flow, Role, Roles
<1>3. /\ was # "none" /\ was = member[o][u] /\ <<"member", o, u>> \in txn[t].held /\ r # was
      /\ <<"user", u>> \in txn[t].held
      /\ "owner" \in {was, r} => <<"org", o>> \in txn[t].held
      /\ was = "owner" => org[o].owners > 1
      /\ r = "owner" => owned[u] < MaxOrgs
  BY <1>1, <1>2 DEF TxnTrue, Limits, Target, Guards, Guarded, UserRows
<1>4. /\ member' = [member EXCEPT ![o][u] = r]
      /\ org' = [org EXCEPT ![o].owners = IF was = "owner" THEN @ - 1
                                          ELSE IF r = "owner" THEN @ + 1 ELSE @]
      /\ owned' = [owned EXCEPT ![u] = IF was = "owner" THEN OneLess(@)
                                       ELSE IF r = "owner" THEN @ + 1 ELSE @]
      /\ active' = [active EXCEPT ![u].role = IF InOrg(u, o) THEN r ELSE @]
      /\ UNCHANGED <<plan, account>>
  BY <1>1 DEF CommitRole
<1>5. /\ org[o] \in OrgRow /\ org[o].owners \in Nat /\ org[o].members \in Nat
      /\ owned[u] \in Int /\ active[u] \in Actives
  BY <1>1, <1>2 DEF Typed, OrgRow
<1>6. /\ org[o].st = "live" /\ org[o].owners = Cardinality(OwnersOf(o)) /\ org[o].owners > 0
      /\ org[o].members = Cardinality(MembersOf(o))
  BY <1>1, <1>2, <1>3 DEF Tabled, Counted, MembersLive
<1>7. /\ Cardinality(Owns(u)) \in Nat
      /\ was = "owner" => Cardinality(Owns(u)) > 0
  BY <1>1, <1>2, <1>3, Counts
<1>8. /\ org' \in [Org -> OrgRow] /\ \A p \in Org : p # o => org'[p] = org[p]
      /\ org'[o].st = "live" /\ org'[o].members = org[o].members
      /\ org'[o].owners = IF was = "owner" THEN org[o].owners - 1
                          ELSE IF r = "owner" THEN org[o].owners + 1 ELSE org[o].owners
  <2>1. PICK n \in Nat : n = IF was = "owner" THEN org[o].owners - 1
                             ELSE IF r = "owner" THEN org[o].owners + 1 ELSE org[o].owners
    BY <1>3, <1>5
  <2> DEFINE row == [org[o] EXCEPT !.owners = n]
  <2>2. org' = [org EXCEPT ![o] = row]
    BY <1>1, <1>2, <1>4, <2>1 DEF Typed
  <2>3. row \in OrgRow /\ row.st = "live" /\ row.members = org[o].members /\ row.owners = n
    BY <1>6, <1>5 DEF OrgRow
  <2> HIDE DEF row
  <2>4. QED
    BY <1>1, <1>2, <2>1, <2>2, <2>3 DEF Typed
<1>9. /\ owned' \in [User -> Int] /\ \A v \in User : v # u => owned'[v] = owned[v]
      /\ owned'[u] = IF was = "owner" THEN OneLess(owned[u])
                     ELSE IF r = "owner" THEN owned[u] + 1 ELSE owned[u]
  BY <1>1, <1>2, <1>4, <1>5 DEF Typed, OneLess
<1>10. /\ active' \in [User -> Actives] /\ \A v \in User : v # u => active'[v] = active[v]
       /\ active'[u].org = active[u].org
       /\ active'[u].role = IF active[u].org = o THEN r ELSE active[u].role
       /\ active[u].org # o => active'[u] = active[u]
  <2>1. PICK role \in Roles : role = IF active[u].org = o THEN r ELSE active[u].role
    BY <1>2, <1>5 DEF Actives
  <2> DEFINE row == [active[u] EXCEPT !.role = role]
  <2>2. active' = [active EXCEPT ![u] = row]
    BY <1>1, <1>2, <1>4, <2>1 DEF Typed, InOrg
  <2>3. row \in Actives /\ row.org = active[u].org /\ row.role = role
    BY <1>5 DEF Actives
  <2>4. active[u].org # o => row = active[u]
    BY <1>5, <2>1 DEF Actives
  <2> HIDE DEF row
  <2>5. QED
    BY <1>1, <1>2, <2>1, <2>2, <2>3, <2>4 DEF Typed
<1>11. /\ Bit(r = "owner") = (IF r = "owner" THEN 1 ELSE 0) /\ Bit(r # "none") = 1
       /\ Bit(member[o][u] = "owner") = (IF was = "owner" THEN 1 ELSE 0)
       /\ Bit(member[o][u] # "none") = 1
  BY <1>2, <1>3 DEF Bit
<1>12. \A p \in Org, v \in User : member'[p][v] = IF p = o /\ v = u THEN r ELSE member[p][v]
  BY <1>1, <1>2, <1>4 DEF Typed
<1>13. member' \in [Org -> [User -> Roles]]
  BY <1>1, <1>2, <1>4 DEF Typed
<1> HIDE DEF o, u, was, r
<1>14. /\ org'[o].owners > 0
       /\ org'[o].owners = Cardinality(OwnersOf(o)) + Bit(r = "owner") - Bit(member[o][u] = "owner")
       /\ org'[o].members = Cardinality(MembersOf(o)) + Bit(r # "none") - Bit(member[o][u] # "none")
  BY <1>3, <1>5, <1>6, <1>8, <1>11
<1>15. (\A p \in Org : org[p].st # "gone") =>
         /\ owned'[u] = owned[u] + Bit(r = "owner") - Bit(member[o][u] = "owner")
         /\ owned'[u] <= MaxOrgs
  <2> SUFFICES ASSUME \A p \in Org : org[p].st # "gone"
               PROVE  /\ owned'[u] = owned[u] + Bit(r = "owner") - Bit(member[o][u] = "owner")
                      /\ owned'[u] <= MaxOrgs
    OBVIOUS
  <2>1. owned[u] = Cardinality(Owns(u)) /\ owned[u] <= MaxOrgs
    BY <1>1, <1>2 DEF Tabled, OwnedTrue
  <2>2. was = "owner" => owned[u] > 0
    BY <1>7, <2>1
  <2>3. owned'[u] = IF was = "owner" THEN owned[u] - 1
                    ELSE IF r = "owner" THEN owned[u] + 1 ELSE owned[u]
    BY <1>9, <2>2 DEF OneLess
  <2>4. QED
    BY <1>3, <1>5, <1>11, <2>1, <2>3
<1>16. MembersLive' /\ Counted' /\ OwnedTrue'
  BY <1>2, <1>4, <1>6, <1>8, <1>9, <1>14, <1>15, Reseated
<1>17. ActiveTrue'
  <2>1. ASSUME NEW v \in User, active'[v] # NoActive
        PROVE  /\ active'[v].org \in Org /\ active'[v].role # "none"
               /\ active'[v].role = member'[active'[v].org][v]
    <3>1. CASE active[v] = NoActive
      <4>1. active[v].org # o
        BY <1>2, <3>1 DEF NoActive
      <4>2. QED
        BY <1>10, <2>1, <3>1, <4>1
    <3>2. CASE active[v] # NoActive
      BY <1>1, <1>2, <1>10, <1>12, <3>2 DEF Tabled, ActiveTrue
    <3>3. QED
      BY <3>1, <3>2
  <2>2. QED
    BY <2>1 DEF ActiveTrue
<1>18. Typed'
  BY <1>1, <1>4, <1>8, <1>9, <1>10, <1>13, Ends DEF Typed
<1>19. ASSUME NEW s \in Txn, s # t PROVE txn'[s] = txn[s] /\ Steady(s)
  <2>1. /\ <<"member", o, u>> \notin txn[s].held /\ <<"user", u>> \notin txn[s].held
        /\ "owner" \in {was, r} => <<"org", o>> \notin txn[s].held
    BY <1>2, <1>3, <1>19 DEF IInv, LocksExclusive
  <2>2. "owner" \notin {was, r} => org'[o] = org[o]
    BY <1>2, <1>5, <1>6, <1>8 DEF OrgRow
  <2>3. QED
    BY <1>1, <1>2, <1>4, <1>8, <1>9, <1>19, <2>1, <2>2, SteadyReseat, Ends
<1>20. QED
  BY <1>1, <1>16, <1>17, <1>18, <1>19, Commits, Ends DEF Tabled

LEMMA CommitActiveKeeps ==
    ASSUME IInv, NEW t \in Txn, CommitActive(t)
    PROVE  IInv'
<1> DEFINE o == txn[t].org
           u == txn[t].user
           was == txn[t].was
<1>1. /\ txn[t].pc = "activate" /\ End(t) /\ Typed /\ TxnTrue(t) /\ Flow(t) /\ Tabled
      /\ active' = [active EXCEPT ![u] = [org |-> o, role |-> was]]
      /\ UNCHANGED <<plan, account, org, member, owned>>
  BY DEF CommitActive, Ready, IInv, TxnTrue
<1>2. /\ o \in Org /\ u \in User /\ was \in Roles
  BY <1>1, KindsAt DEF Typed, Txns
<1>3. was # "none" /\ was = member[o][u]
  BY <1>1 DEF TxnTrue, Target
<1>4. [org |-> o, role |-> was] \in Actives
  BY <1>2 DEF Actives
<1>5. /\ active' \in [User -> Actives] /\ \A v \in User : v # u => active'[v] = active[v]
      /\ active'[u].org = o /\ active'[u].role = was
  BY <1>1, <1>2, <1>4 DEF Typed
<1>6. MembersLive' /\ Counted' /\ OwnedTrue'
  BY <1>1 DEF Tabled, MembersLive, Counted, OwnedTrue, OwnersOf, MembersOf, Owns
<1>7. ActiveTrue'
  <2> HIDE DEF o, u, was
  <2>1. QED
    BY <1>1, <1>2, <1>3, <1>5 DEF Tabled, ActiveTrue
<1>8. Typed'
  BY <1>1, <1>5, Ends DEF Typed
<1>9. ASSUME NEW s \in Txn, s # t PROVE txn'[s] = txn[s] /\ Steady(s)
  BY <1>1, <1>9, Ends DEF Steady, Typed
<1>10. QED
  BY <1>1, <1>6, <1>7, <1>8, <1>9, Commits, Ends DEF Tabled

LEMMA ClearActiveKeeps ==
    ASSUME IInv, NEW u \in User, ClearActive(u)
    PROVE  IInv'
<1>1. /\ Typed /\ Tabled /\ active' = [active EXCEPT ![u] = NoActive]
      /\ UNCHANGED <<plan, account, org, member, owned, txn>>
  BY DEF ClearActive, IInv
<1>2. NoActive \in Actives
  BY DEF NoActive, Actives, Roles
<1>3. MembersLive' /\ Counted' /\ OwnedTrue'
  BY <1>1 DEF Tabled, MembersLive, Counted, OwnedTrue, OwnersOf, MembersOf, Owns
<1>4. Typed' /\ ActiveTrue'
  BY <1>1, <1>2 DEF Typed, Tabled, ActiveTrue
<1>5. ASSUME NEW s \in Txn PROVE txn'[s] = txn[s] /\ Steady(s)
  BY <1>1 DEF Steady, Typed
<1>6. QED
  BY <1>3, <1>4, <1>5, Commits DEF Tabled

LEMMA CreateKeeps ==
    ASSUME IInv, NEW o \in Org, NEW u \in User, Create(o, u)
    PROVE  IInv'
<1>1. /\ Typed /\ Tabled /\ org[o].st = "none" /\ u \in account /\ owned[u] < MaxOrgs
      /\ \A s \in Txn : <<"user", u>> \notin txn[s].held
      /\ org' = [org EXCEPT ![o] = [st |-> "live", owners |-> 1, members |-> 1]]
      /\ member' = [member EXCEPT ![o][u] = "owner"]
      /\ owned' = [owned EXCEPT ![u] = @ + 1]
      /\ UNCHANGED <<plan, account, active, txn>>
  BY DEF Create, IInv
<1>2. \A v \in User : member[o][v] = "none"
  BY <1>1 DEF Tabled, MembersLive
<1>3. Cardinality(OwnersOf(o)) = 0 /\ Cardinality(MembersOf(o)) = 0
  <2>1. OwnersOf(o) = {} /\ MembersOf(o) = {}
    BY <1>2 DEF OwnersOf, MembersOf
  <2>2. QED
    BY <2>1, FS_EmptySet
<1>4. /\ Bit("owner" = "owner") = 1 /\ Bit("owner" # "none") = 1
      /\ Bit(member[o][u] = "owner") = 0 /\ Bit(member[o][u] # "none") = 0
  BY <1>2 DEF Bit
<1>5. /\ org' \in [Org -> OrgRow] /\ \A p \in Org : p # o => org'[p] = org[p]
      /\ org'[o].st = "live" /\ org'[o].members = 1 /\ org'[o].owners = 1
  <2>1. [st |-> "live", owners |-> 1, members |-> 1] \in OrgRow
    BY DEF OrgRow
  <2>2. QED
    BY <1>1, <2>1 DEF Typed
<1>6. /\ owned' \in [User -> Int] /\ \A v \in User : v # u => owned'[v] = owned[v]
      /\ owned'[u] = owned[u] + 1 /\ owned[u] \in Int
  BY <1>1 DEF Typed
<1>7. /\ member' \in [Org -> [User -> Roles]]
      /\ \A p \in Org, v \in User :
           member'[p][v] = IF p = o /\ v = u THEN "owner" ELSE member[p][v]
  BY <1>1 DEF Typed, Roles, Role
<1>8. MembersLive' /\ Counted' /\ OwnedTrue'
  <2>1. /\ org'[o].owners = Cardinality(OwnersOf(o)) + Bit("owner" = "owner") - Bit(member[o][u] = "owner")
        /\ org'[o].members = Cardinality(MembersOf(o)) + Bit("owner" # "none") - Bit(member[o][u] # "none")
        /\ org'[o].owners > 0
    BY <1>3, <1>4, <1>5
  <2>2. /\ owned'[u] = owned[u] + Bit("owner" = "owner") - Bit(member[o][u] = "owner")
        /\ owned'[u] <= MaxOrgs
    BY <1>1, <1>4, <1>6
  <2>3. "owner" \in Roles
    BY DEF Roles, Role
  <2>4. QED
    BY <1>1, <1>5, <1>6, <2>1, <2>2, <2>3, Reseated
<1>9. ActiveTrue'
  BY <1>1, <1>2, <1>7 DEF Tabled, ActiveTrue
<1>10. Typed'
  BY <1>1, <1>5, <1>6, <1>7 DEF Typed
<1>11. ASSUME NEW s \in Txn PROVE txn'[s] = txn[s] /\ Steady(s)
  <2>1. <<"member", o, u>> \notin txn[s].held /\ <<"org", o>> \notin txn[s].held
    BY <1>1 DEF IInv, TxnTrue, Existing
  <2>2. "owner" \in Roles
    BY DEF Roles, Role
  <2>3. QED
    BY <1>1, <1>5, <1>6, <2>1, <2>2, SteadyReseat
<1>12. QED
  BY <1>8, <1>9, <1>10, <1>11, Commits DEF Tabled

LEMMA CommitDeleteKeeps ==
    ASSUME IInv, NEW t \in Txn, CommitDelete(t)
    PROVE  IInv'
<1>1. /\ txn[t].pc = "cascade" /\ Unheld(t, Needs(t)) /\ End(t)
      /\ Typed /\ TxnTrue(t) /\ Flow(t) /\ Tabled
  BY DEF CommitDelete, Ready, IInv, TxnTrue
<1>2. PICK o, set : o = txn[t].org /\ set = txn[t].set
  OBVIOUS
<1>3. /\ o \in Org /\ Needs(t) = MemberRows(o, User) /\ <<"org", o>> \in txn[t].held
  BY <1>1, <1>2, KindsAt, NeedsOf DEF TxnTrue, Cascades
<1>4. /\ org' = [org EXCEPT ![o] = [st |-> "gone", owners |-> 0, members |-> 0]]
      /\ member' = [member EXCEPT ![o] = [u \in User |-> "none"]]
      /\ owned' = [u \in User |-> IF u \in set \cap account THEN owned[u] - 1 ELSE owned[u]]
      /\ active' = [u \in User |-> IF InOrg(u, o) THEN NoActive ELSE active[u]]
      /\ UNCHANGED <<plan, account>>
  BY <1>2 DEF CommitDelete
<1>5. /\ org' \in [Org -> OrgRow] /\ \A p \in Org : p # o => org'[p] = org[p]
      /\ org'[o].st = "gone"
  <2>1. [st |-> "gone", owners |-> 0, members |-> 0] \in OrgRow
    BY DEF OrgRow
  <2>2. QED
    BY <1>1, <1>3, <1>4, <2>1 DEF Typed
<1>6. /\ member' \in [Org -> [User -> Roles]]
      /\ \A p \in Org : p # o => member'[p] = member[p]
      /\ \A u \in User : member'[o][u] = "none"
  <2>1. [u \in User |-> "none"] \in [User -> Roles]
    BY DEF Roles
  <2>2. QED
    BY <1>1, <1>3, <1>4, <2>1 DEF Typed
<1>7. /\ owned' \in [User -> Int] /\ \A u \in User : owned'[u] <= owned[u]
  BY <1>1, <1>4 DEF Typed
<1>8. /\ active' \in [User -> Actives]
      /\ \A u \in User : active'[u] = IF active[u].org = o THEN NoActive ELSE active[u]
  <2>1. NoActive \in Actives
    BY DEF NoActive, Actives, Roles
  <2>2. QED
    BY <1>1, <1>4, <2>1 DEF Typed, InOrg
<1>9. MembersLive'
  BY <1>1, <1>4, <1>5, <1>6 DEF Tabled, MembersLive
<1>10. Counted'
  <2>1. \A p \in Org : p # o => OwnersOf(p)' = OwnersOf(p) /\ MembersOf(p)' = MembersOf(p)
    BY <1>6 DEF OwnersOf, MembersOf
  <2>2. QED
    BY <1>1, <1>5, <2>1 DEF Tabled, Counted
<1>11. OwnedTrue'
  BY <1>3, <1>5 DEF OwnedTrue
<1>12. ActiveTrue'
  BY <1>1, <1>6, <1>8 DEF Tabled, ActiveTrue
<1>13. Typed'
  BY <1>1, <1>4, <1>5, <1>6, <1>7, <1>8, Ends DEF Typed
<1>14. ASSUME NEW s \in Txn, s # t PROVE txn'[s] = txn[s] /\ Steady(s)
  <2>1. <<"org", o>> \notin txn[s].held
    BY <1>3, <1>14 DEF IInv, LocksExclusive
  <2>2. \A u \in User : <<"member", o, u>> \in txn[s].held => member[o][u] = "none"
    BY <1>1, <1>3, <1>14 DEF Unheld, MemberRows, MembersOf
  <2>3. Steady(s)
    <3>1. \A p \in Org : /\ org'[p].st = "none" => org[p].st = "none"
                         /\ <<"org", p>> \in txn[s].held => org'[p] = org[p]
      BY <1>5, <2>1
    <3>2. \A p \in Org, u \in User :
            /\ <<"member", p, u>> \in txn[s].held => member'[p][u] = member[p][u]
            /\ member'[p][u] \in {member[p][u], "none"}
      BY <1>6, <2>2
    <3>3. QED
      BY <1>1, <1>4, <1>7, <3>1, <3>2 DEF Steady, Typed
  <2>4. QED
    BY <1>1, <1>14, <2>3, Ends
<1>15. QED
  BY <1>1, <1>9, <1>10, <1>11, <1>12, <1>13, <1>14, Commits, Ends DEF Tabled

LEMMA CommitCloseKeeps ==
    ASSUME IInv, NEW t \in Txn, CommitClose(t)
    PROVE  IInv'
<1>1. /\ txn[t].pc = "closing" /\ txn[t].set = {} /\ End(t)
      /\ Typed /\ TxnTrue(t) /\ Flow(t) /\ Tabled
  BY DEF CommitClose, Ready, IInv, TxnTrue
<1>2. PICK u : u = txn[t].user
  OBVIOUS
<1>3. /\ txn[t].kind = "close" /\ u \in account /\ u \in User /\ <<"user", u>> \in txn[t].held
  <2>1. txn[t].kind = "close"
    BY <1>1, KindsAt
  <2>2. u \in account /\ u \in User
    BY <1>1, <1>2, <2>1 DEF Flow, Typed
  <2>3. UserRows(User) \subseteq txn[t].held
    BY <1>1, <2>1 DEF TxnTrue, Guards, Guarded
  <2>4. QED
    BY <2>1, <2>2, <2>3 DEF UserRows
<1>4. \A o \in Org : /\ Left(txn[t], o) <=> member[o][u] # "none"
                     /\ Left(txn[t], o) <=> <<"member", o, u>> \in txn[t].held
                     /\ Left(txn[t], o) => <<"org", o>> \in txn[t].held
                     /\ member[o][u] = "owner" => org[o].owners > 1
  BY <1>1, <1>2, <1>3 DEF TxnTrue, Closes, Left
<1>5. /\ account' = account \ {u}
      /\ member' = [o \in Org |-> [member[o] EXCEPT ![u] = "none"]]
      /\ org' = [o \in Org |-> IF ~Left(txn[t], o) THEN org[o] ELSE
                  [org[o] EXCEPT !.members = OneLess(@),
                                 !.owners = IF member[o][u] = "owner" THEN @ - 1 ELSE @]]
      /\ owned' = [owned EXCEPT ![u] = 0]
      /\ active' = [active EXCEPT ![u] = NoActive]
      /\ plan' = plan
  BY <1>2 DEF CommitClose
<1>6. /\ member' \in [Org -> [User -> Roles]]
      /\ \A o \in Org, v \in User : member'[o][v] = IF v = u THEN "none" ELSE member[o][v]
  BY <1>1, <1>3, <1>5 DEF Typed, Roles
<1>7. \A o \in Org :
        /\ OwnersOf(o)' \ {u} = OwnersOf(o) \ {u} /\ u \notin OwnersOf(o)'
        /\ MembersOf(o)' \ {u} = MembersOf(o) \ {u} /\ u \notin MembersOf(o)'
        /\ (u \in OwnersOf(o)) = (member[o][u] = "owner")
        /\ (u \in MembersOf(o)) = (member[o][u] # "none")
  BY <1>3, <1>6 DEF OwnersOf, MembersOf
<1>8. ASSUME NEW o \in Org, Left(txn[t], o)
      PROVE  /\ org'[o] \in OrgRow /\ org'[o].st = "live" /\ org[o].st = "live"
             /\ org'[o].owners = Cardinality(OwnersOf(o)') /\ org'[o].owners > 0
             /\ org'[o].members = Cardinality(MembersOf(o)')
  <2>1. member[o][u] # "none" /\ (member[o][u] = "owner" => org[o].owners > 1)
    BY <1>4, <1>8
  <2>2. /\ org[o].st = "live" /\ org[o] \in OrgRow
        /\ org[o].owners \in Nat /\ org[o].members \in Nat /\ org[o].owners > 0
        /\ org[o].owners = Cardinality(OwnersOf(o)) /\ org[o].members = Cardinality(MembersOf(o))
    BY <1>1, <1>3, <2>1 DEF Tabled, MembersLive, Counted, Typed, OrgRow
  <2>3. IsFiniteSet(OwnersOf(o)) /\ IsFiniteSet(MembersOf(o))
    BY <1>1, Finite
  <2>4. /\ Cardinality(OwnersOf(o)') =
             Cardinality(OwnersOf(o)) + Bit(u \in OwnersOf(o)') - Bit(u \in OwnersOf(o))
    BY <1>7, <2>3, OneApart
  <2>5. /\ Cardinality(MembersOf(o)') =
             Cardinality(MembersOf(o)) + Bit(u \in MembersOf(o)') - Bit(u \in MembersOf(o))
    BY <1>7, <2>3, OneApart
  <2>6. /\ Bit(u \in OwnersOf(o)') = 0 /\ Bit(u \in MembersOf(o)') = 0
        /\ Bit(u \in OwnersOf(o)) = (IF member[o][u] = "owner" THEN 1 ELSE 0)
        /\ Bit(u \in MembersOf(o)) = 1
    BY <1>7, <2>1 DEF Bit
  <2>7. Cardinality(MembersOf(o)) > 0
    BY <1>1, <1>3, <2>1, Counts
  <2>8. OneLess(org[o].members) = org[o].members - 1 /\ org[o].members - 1 \in Nat
    BY <2>2, <2>7 DEF OneLess
  <2>9. PICK n \in Nat : n = IF member[o][u] = "owner" THEN org[o].owners - 1 ELSE org[o].owners
    BY <2>1, <2>2
  <2> DEFINE row == [org[o] EXCEPT !.members = org[o].members - 1, !.owners = n]
  <2>10. org'[o] = row
    BY <1>5, <1>8, <2>8, <2>9
  <2>11. row \in OrgRow /\ row.st = "live" /\ row.members = org[o].members - 1 /\ row.owners = n
    BY <2>2, <2>8 DEF OrgRow
  <2> HIDE DEF row
  <2>12. /\ org'[o] \in OrgRow /\ org'[o].st = "live" /\ org'[o].members = org[o].members - 1
         /\ org'[o].owners = n
    BY <2>10, <2>11
  <2>13. org'[o].owners = Cardinality(OwnersOf(o)') /\ org'[o].owners > 0
    BY <2>1, <2>2, <2>4, <2>6, <2>9, <2>12
  <2>14. org'[o].members = Cardinality(MembersOf(o)')
    BY <2>2, <2>5, <2>6, <2>12
  <2>15. QED
    BY <2>2, <2>12, <2>13, <2>14
<1>9. ASSUME NEW o \in Org, ~Left(txn[t], o)
      PROVE  /\ org'[o] = org[o] /\ OwnersOf(o)' = OwnersOf(o) /\ MembersOf(o)' = MembersOf(o)
  <2>1. org'[o] = org[o] /\ member[o][u] = "none"
    BY <1>4, <1>5, <1>9
  <2>2. \A v \in User : member'[o][v] = member[o][v]
    BY <1>6, <2>1
  <2>3. QED
    BY <2>1, <2>2 DEF OwnersOf, MembersOf
<1>10. MembersLive'
  <2> SUFFICES ASSUME NEW o \in Org, NEW v \in User, member'[o][v] # "none"
               PROVE  org'[o].st = "live" /\ v \in account'
    BY DEF MembersLive
  <2>1. v # u /\ member[o][v] # "none"
    BY <1>6
  <2>2. org[o].st = "live" /\ v \in account
    BY <1>1, <2>1 DEF Tabled, MembersLive
  <2>3. QED
    BY <1>5, <1>8, <1>9, <2>1, <2>2
<1>11. Counted'
  <2> SUFFICES ASSUME NEW o \in Org, org'[o].st = "live"
               PROVE  /\ org'[o].owners = Cardinality(OwnersOf(o)') /\ org'[o].owners > 0
                      /\ org'[o].members = Cardinality(MembersOf(o)')
    BY DEF Counted
  <2>1. CASE Left(txn[t], o)
    BY <1>8, <2>1
  <2>2. CASE ~Left(txn[t], o)
    BY <1>1, <1>9, <2>2 DEF Tabled, Counted
  <2>3. QED
    BY <2>1, <2>2
<1>12. OwnedTrue'
  <2> SUFFICES ASSUME \A o \in Org : org'[o].st # "gone", NEW v \in account'
               PROVE  owned'[v] = Cardinality(Owns(v)') /\ owned'[v] <= MaxOrgs
    BY DEF OwnedTrue
  <2>1. \A o \in Org : org[o].st # "gone"
    BY <1>8, <1>9
  <2>2. v \in account /\ v # u /\ v \in User
    BY <1>1, <1>5 DEF Typed
  <2>3. owned[v] = Cardinality(Owns(v)) /\ owned[v] <= MaxOrgs
    BY <1>1, <2>1, <2>2 DEF Tabled, OwnedTrue
  <2>4. Owns(v)' = Owns(v)
    BY <1>6, <2>2 DEF Owns
  <2>5. owned'[v] = owned[v]
    BY <1>1, <1>5, <2>2 DEF Typed
  <2>6. QED
    BY <2>3, <2>4, <2>5
<1>13. /\ active' \in [User -> Actives] /\ \A v \in User : v # u => active'[v] = active[v]
       /\ active'[u] = NoActive
  <2>1. NoActive \in Actives
    BY DEF NoActive, Actives, Roles
  <2>2. QED
    BY <1>1, <1>3, <1>5, <2>1 DEF Typed
<1>14. ActiveTrue'
  BY <1>1, <1>6, <1>13 DEF Tabled, ActiveTrue
<1>15. Typed'
  <2>1. org' \in [Org -> OrgRow]
    <3>1. \A o \in Org : org'[o] \in OrgRow
      BY <1>1, <1>8, <1>9 DEF Typed
    <3>2. org' = [o \in Org |-> org'[o]]
      BY <1>5
    <3>3. QED
      BY <3>1, <3>2
  <2>2. owned' \in [User -> Int]
    <3>1. owned \in [User -> Int] /\ owned' = [owned EXCEPT ![u] = 0]
      BY <1>1, <1>5 DEF Typed
    <3>2. u \in User /\ 0 \in Int
      BY <1>3
    <3>3. QED
      BY <3>1, <3>2
  <2>4. account' \subseteq User
    BY <1>1, <1>5 DEF Typed
  <2>3. QED
    BY <1>1, <1>6, <1>13, <2>1, <2>2, <2>4, Ends DEF Typed
<1>16. ASSUME NEW s \in Txn, s # t PROVE txn'[s] = txn[s] /\ Steady(s)
  <2>1. txn[s].kind \notin Guarded /\ txn[s].held \cap txn[t].held = {}
    BY <1>3, <1>16, OneGuard DEF IInv, LocksExclusive, Guarded
  <2>2. /\ account' \subseteq account
        /\ \A v \in User : <<"user", v>> \in txn[s].held => owned'[v] <= owned[v]
    <3>1. account' \subseteq account
      BY <1>5
    <3>4. <<"user", u>> \notin txn[s].held
      BY <1>3, <2>1
    <3>2. owned \in [User -> Int] /\ owned' = [owned EXCEPT ![u] = 0]
      BY <1>1, <1>5 DEF Typed
    <3>3. \A v \in User : v # u => owned'[v] = owned[v]
      BY <3>2
    <3>5. \A v \in User : owned[v] <= owned[v]
      BY <3>2
    <3>6. QED
      BY <3>1, <3>3, <3>4, <3>5
  <2>3. \A o \in Org : /\ org'[o].st = "none" => org[o].st = "none"
                       /\ <<"org", o>> \in txn[s].held => org'[o] = org[o]
    <3> SUFFICES ASSUME NEW o \in Org
                 PROVE  /\ org'[o].st = "none" => org[o].st = "none"
                        /\ <<"org", o>> \in txn[s].held => org'[o] = org[o]
      OBVIOUS
    <3>1. CASE Left(txn[t], o)
      BY <1>4, <1>8, <2>1, <3>1
    <3>2. CASE ~Left(txn[t], o)
      BY <1>9, <3>2
    <3>3. QED
      BY <3>1, <3>2
  <2>4. \A o \in Org, v \in User :
          /\ <<"member", o, v>> \in txn[s].held => member'[o][v] = member[o][v]
          /\ member'[o][v] \in {member[o][v], "none"}
    BY <1>4, <1>6, <2>1
  <2>5. Steady(s)
    BY <2>1, <2>2, <2>3, <2>4 DEF Steady
  <2>6. QED
    BY <1>1, <1>16, <2>5, Ends
<1>17. QED
  BY <1>1, <1>10, <1>11, <1>12, <1>14, <1>15, <1>16, Commits, Ends DEF Tabled

-----------------------------------------------------------------------------
(* The invariant. *)

LEMMA InitTrue == Init => IInv
<1> SUFFICES ASSUME Init PROVE IInv
  OBVIOUS
<1>1. Typed
  <2>1. [st |-> "none", owners |-> 0, members |-> 0] \in OrgRow
    BY DEF OrgRow
  <2>2. NoActive \in Actives /\ "none" \in Roles
    BY DEF NoActive, Actives, Roles
  <2>3. QED
    BY <2>1, <2>2, IdleTyped DEF Init, Typed
<1>2. LocksExclusive
  BY IdleTyped DEF Init, LocksExclusive
<1>3. MembersLive /\ Counted /\ ActiveTrue
  BY DEF Init, MembersLive, Counted, ActiveTrue
<1>4. OwnedTrue
  <2>1. \A u \in User : Owns(u) = {}
    BY DEF Init, Owns
  <2>2. \A u \in User : owned[u] = 0 /\ Cardinality(Owns(u)) = 0
    BY <2>1, FS_EmptySet DEF Init
  <2>3. account \subseteq User
    BY <1>1 DEF Typed
  <2>4. QED
    BY <2>2, <2>3 DEF OwnedTrue
<1>5. ASSUME NEW t \in Txn PROVE TxnTrue(t)
  <2>1. txn[t].pc = "idle" /\ txn[t].kind = "none" /\ txn[t].held = {}
    BY IdleTyped DEF Init
  <2>2. Flow(t) /\ Guards(t) /\ Existing(t)
    BY <2>1 DEF Flow, Guards, Existing, Guarded
  <2>3. Target(t) /\ Limits(t) /\ Entitled(t) /\ Cascades(t) /\ Closes(t)
    BY <2>1 DEF Target, Limits, Entitled, Cascades, Closes
  <2>4. QED
    BY <2>2, <2>3 DEF TxnTrue
<1>6. QED
  BY <1>1, <1>2, <1>3, <1>4, <1>5 DEF IInv, Tabled

LEMMA StepKeeps == IInv /\ [Next]_vars => IInv'
<1> SUFFICES ASSUME IInv, [Next]_vars PROVE IInv'
  OBVIOUS
<1>1. CASE UNCHANGED vars
  <2>1. UNCHANGED Tables /\ txn' = txn
    BY <1>1 DEF vars, Tables
  <2>2. Typed'
    BY <2>1 DEF IInv, Typed, Tables
  <2>5. Tabled'
    BY <2>1 DEF IInv, Tabled, MembersLive, Counted, OwnedTrue, ActiveTrue, Tables,
                OwnersOf, MembersOf, Owns
  <2>3. ASSUME NEW s \in Txn PROVE txn'[s] = txn[s] /\ Steady(s)
    BY <2>1 DEF Steady, Tables, IInv, Typed
  <2>4. QED
    BY <2>2, <2>3, <2>5, Commits
<1>2. ASSUME NEW t \in Txn, Step(t) PROVE IInv'
  <2>1. CASE LockMembers(t)
    BY <2>1, LockMembersKeeps
  <2>2. CASE Unlink(t)
    BY <2>2, UnlinkKeeps
  <2>3. CASE LockOrg(t)
    BY <2>3, LockOrgKeeps
  <2>4. CASE LockUser(t)
    BY <2>4, LockUserKeeps
  <2>5. CASE CommitAdd(t)
    BY <2>5, CommitAddKeeps
  <2>6. CASE CommitRemove(t)
    BY <2>6, CommitRemoveKeeps
  <2>7. CASE CommitRole(t)
    BY <2>7, CommitRoleKeeps
  <2>8. CASE SnapshotOwners(t)
    BY <2>8, SnapshotKeeps
  <2>9. CASE DecrementOwners(t) \/ ClearSessions(t) \/ DropOrg(t)
    BY <2>9, DeletionKeeps
  <2>10. CASE CommitDelete(t)
    BY <2>10, CommitDeleteKeeps
  <2>11. CASE CommitActive(t)
    BY <2>11, CommitActiveKeeps
  <2>12. CASE CloseMembership(t)
    BY <2>12, CloseMembershipKeeps
  <2>13. CASE CommitClose(t)
    BY <2>13, CommitCloseKeeps
  <2>14. QED
    BY <1>2, <2>1, <2>2, <2>3, <2>4, <2>5, <2>6, <2>7, <2>8, <2>9, <2>10, <2>11, <2>12, <2>13
       DEF Step
<1>3. ASSUME NEW t \in Txn, Abort(t) PROVE IInv'
  BY <1>3, Rollback DEF Abort
<1>4. CASE FoundRequest
  BY <1>4, CreateKeeps DEF FoundRequest
<1>5. CASE ClearRequest
  BY <1>5, ClearActiveKeeps DEF ClearRequest
<1>6. QED
  BY <1>1, <1>2, <1>3, <1>4, <1>5, StartsKeep DEF Next

(* The tables agree with each other at every commit, and every transaction *)
(* in flight may rely on what it has read under its locks.                 *)
THEOREM Invariant == Spec => []IInv
<1>1. IInv /\ [Next]_vars => IInv'
  BY StepKeeps
<1>2. QED
  BY <1>1, InitTrue, PTL DEF Spec

-----------------------------------------------------------------------------
(* What it shows. *)

(* The counters kept beside the memberships (try_decrement_org_owner_count *)
(* and its kin) are the numbers of their rows at every commit, and nobody  *)
(* owns more organizations than MaxOrgsPerUser.                            *)
THEOREM CountersAgree == Spec => []CountersExact
<1>1. IInv => CountersExact
  <2> SUFFICES ASSUME IInv PROVE CountersExact
    OBVIOUS
  <2>1. Typed /\ MembersLive /\ Counted /\ OwnedTrue
    BY DEF IInv, Tabled
  <2>2. ASSUME NEW u \in account PROVE {o \in LiveOrgs : member[o][u] = "owner"} = Owns(u)
    BY <2>1, <2>2 DEF Typed, MembersLive, LiveOrgs, Owns
  <2>3. ASSUME \A o \in Org : org[o].st # "gone", NEW u \in account
        PROVE  /\ owned[u] = Cardinality({o \in LiveOrgs : member[o][u] = "owner"})
               /\ owned[u] <= MaxOrgs
    BY <2>1, <2>2, <2>3 DEF OwnedTrue
  <2>4. QED
    BY <2>1, <2>3 DEF Counted, CountersExact, LiveOrgs
<1>2. QED
  BY <1>1, Invariant, PTL

(* Leaving, removing, demoting and closing an account never take the last  *)
(* owner of an organization that lives on (LastOwner's refusals).          *)
THEOREM OwnerRemains == Spec => []NeverOwnerless
<1>1. IInv => NeverOwnerless
  <2> SUFFICES ASSUME IInv, NEW o \in LiveOrgs PROVE OwnersOf(o) # {}
    BY DEF NeverOwnerless
  <2>1. Cardinality(OwnersOf(o)) > 0
    BY DEF IInv, Tabled, Counted, LiveOrgs
  <2>2. Cardinality({}) = 0
    BY FS_EmptySet
  <2>3. QED
    BY <2>1, <2>2
<1>2. QED
  BY <1>1, Invariant, PTL

(* A session is active in an organization as what its user is there:       *)
(* SetActiveOrg copies the role of a membership it holds.                  *)
THEOREM ActiveRoleTrue == Spec => []ActiveRoleCurrent
<1>1. IInv => ActiveRoleCurrent
  BY DEF IInv, Tabled, ActiveTrue, ActiveRoleCurrent
<1>2. QED
  BY <1>1, Invariant, PTL

(* Whoever changes another's membership may do so when the change commits: *)
(* lockActorAndTarget holds the actor's membership until then.             *)
THEOREM AuthorityKept == Spec => AuthorityHolds
<1> DEFINE Authorized ==
      \A t \in Txn :
        LET x == txn[t] IN
        x.kind \in {"add", "remove", "role"} /\ x.actor \notin {NoUser, x.user}
            /\ txn'[t] = Idle /\ member' # member
        => Weight(member[x.org][x.actor]) >= Weight(Minimum(x, member[x.org][x.user]))
<1>1. IInv /\ [Next]_vars => [Authorized]_vars
  <2> SUFFICES ASSUME IInv, Next, NEW t \in Txn,
                      txn[t].kind \in {"add", "remove", "role"}, txn[t].actor # NoUser,
                      txn'[t] = Idle, member' # member
               PROVE  Weight(member[txn[t].org][txn[t].actor])
                        >= Weight(Minimum(txn[t], member[txn[t].org][txn[t].user]))
    BY DEF Authorized
  <2>1. Typed /\ TxnTrue(t) /\ Flow(t)
    BY DEF IInv, TxnTrue
  <2>2. txn'[t] # txn[t]
    BY IdleTyped
  <2>3. CommitAdd(t) \/ CommitRemove(t) \/ CommitRole(t)
    <3>1. ~FoundRequest /\ ~ClearRequest
      BY <2>2 DEF FoundRequest, Create, ClearRequest, ClearActive
    <3>2. ASSUME NEW s \in Txn PROVE /\ ~StaffRequest(s) /\ ~MemberRequest(s) /\ ~AcceptRequest(s)
                                     /\ ~DeleteRequest(s) /\ ~CloseRequest(s) /\ ~Abort(s)
      <4>1. \A kind, o, a, u, r : ~Begin(s, kind, o, a, u, r)
        BY DEF Begin, Tables
      <4>2. ~StaffRequest(s)
        BY <4>1 DEF StaffRequest, StartChange, StartAdminRemove, StartAdminDelete
      <4>3. ~MemberRequest(s)
        BY <4>1 DEF MemberRequest, StartChange, StartRemove, StartActive, Tables
      <4>4. ~AcceptRequest(s) /\ ~DeleteRequest(s)
        BY <4>1 DEF AcceptRequest, DeleteRequest, StartChange, StartDelete
      <4>5. ~CloseRequest(s) /\ ~Abort(s)
        BY DEF CloseRequest, StartClose, Abort, Tables
      <4>6. QED
        BY <4>2, <4>3, <4>4, <4>5
    <3>3. PICK s \in Txn : Step(s)
      BY <3>1, <3>2 DEF Next
    <3>4. \/ CommitAdd(s) \/ CommitRemove(s) \/ CommitRole(s)
          \/ CommitDelete(s) \/ CommitClose(s)
      BY <3>3 DEF Step, LockMembers, Unlink, LockOrg, LockUser, SnapshotOwners, DecrementOwners,
                  ClearSessions, DropOrg, CommitActive, CloseMembership, Tables
    <3>5. End(s)
      BY <3>4 DEF CommitAdd, CommitRemove, CommitRole, CommitDelete, CommitClose
    <3>6. s = t
      BY <2>1, <2>2, <3>5, Ends
    <3>7. ~CommitDelete(t) /\ ~CommitClose(t)
      BY <2>1, KindsAt DEF CommitDelete, CommitClose, Ready
    <3>8. QED
      BY <3>4, <3>6, <3>7
  <2>4. txn[t].pc # "members" /\ txn[t].was = member[txn[t].org][txn[t].user]
    <3>1. CASE CommitAdd(t)
      <4>1. txn[t].pc = "insert" /\ member[txn[t].org][txn[t].user] = "none"
        BY <3>1 DEF CommitAdd, Ready, Tables
      <4>2. txn[t].was = "none"
        BY <2>1, <4>1, KindsAt DEF TxnTrue, Target
      <4>3. QED
        BY <4>1, <4>2
    <3>2. CASE CommitRemove(t) \/ CommitRole(t)
      <4>1. txn[t].pc = "session"
        BY <3>2 DEF CommitRemove, CommitRole, Ready
      <4>2. QED
        BY <2>1, <4>1 DEF TxnTrue, Target
    <3>3. QED
      BY <2>3, <3>1, <3>2
  <2>5. QED
    BY <2>1, <2>4 DEF TxnTrue, Entitled
<1>2. QED
  BY <1>1, Invariant, PTL DEF Spec, AuthorityHolds

(* Operations under the users-first guard, and SetActiveOrg beside them,   *)
(* never wait for each other in a circle (lockActorAndTarget's order).     *)
THEOREM NoCircle == Spec => []GuardAvoidsDeadlock
<1>1. IInv => GuardAvoidsDeadlock
  <2> SUFFICES ASSUME IInv,
                      NEW T \in SUBSET {t \in Txn : txn[t].kind \in Guarded \cup {"active"}},
                      Circle(T)
               PROVE  FALSE
    BY DEF GuardAvoidsDeadlock, Guarded
  <2>1. ASSUME NEW s \in T, NEW t \in T, txn[s].kind = "active" PROVE ~Waits(s, t)
    <3>1. /\ s \in Txn /\ t \in Txn /\ Typed /\ Flow(s) /\ Guards(t) /\ Flow(t)
          /\ txn[t].kind \in Guarded \cup {"active"}
      BY DEF IInv, TxnTrue
    <3>2. txn[s].pc = "activate" /\ txn[s].org \in Org /\ txn[s].user \in User
      BY <2>1, <3>1 DEF Flow
    <3>3. Needs(s) = {<<"session", txn[s].user>>, <<"key", txn[s].org>>}
      BY <3>1, <3>2, NeedsOf
    <3>4. <<"session", txn[s].user>> \notin txn[t].held /\ <<"key", txn[s].org>> \notin txn[t].held
      BY <3>1, <3>2 DEF Guards
    <3>5. QED
      BY <3>3, <3>4 DEF Waits
  <2>2. \A s \in T : txn[s].kind \in Guarded
    BY <2>1 DEF Circle
  <2>3. PICK s \in T, t \in T : s # t
    BY DEF Circle
  <2>4. QED
    BY <2>2, <2>3, OneGuard
<1>2. QED
  BY <1>1, Invariant, PTL
=============================================================================
