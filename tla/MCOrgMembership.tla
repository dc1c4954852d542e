-------------------------- MODULE MCOrgMembership --------------------------
(* A small instance of OrgMembership for TLC. *)
EXTENDS OrgMembership, TLC

CONSTANTS o1, o2

(* Three members of one organization; two users of two organizations who    *)
(* may close their accounts; closing beside deletion and active sessions.   *)
SmallPlans ==
    { [ops |-> {"add", "remove", "role", "admin_remove", "delete", "active"},
       orgs |-> {o1}, users |-> 3],
      [ops |-> {"add", "role", "close", "admin_remove"}, orgs |-> {o1, o2}, users |-> 2],
      [ops |-> {"add", "remove", "close", "delete", "active"}, orgs |-> {o1}, users |-> 2] }

(* Organizations are left out: an account closes them in a fixed order.     *)
Symmetry == Permutations(User) \cup Permutations(Txn)
=============================================================================
