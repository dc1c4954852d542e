CONSTANTS
    o1 = o1
    o2 = o2
    Org = {o1, o2}
    User = {u1, u2, u3}
    Txn = {t1, t2}
    Plans <- SmallPlans
    MaxOrgs = 1
    NoUser = nobody
SPECIFICATION Spec
SYMMETRY Symmetry
INVARIANTS CountersExact NeverOwnerless ActiveRoleCurrent GuardAvoidsDeadlock
PROPERTY AuthorityHolds
CHECK_DEADLOCK FALSE
