CONSTANTS
    User = {f, a, b}
    Founder = f
    Custom = {r1}
    Business = {"biz"}
    Grantable = {"roles.assign", "biz"}
    Moved = {a}
    Staffed = {a}
    Invited = {b}
    Invite = {i1}
    MaxRev = 3
    MaxCode = 2
VIEW View
SPECIFICATION Spec
INVARIANT OneIdentity
PROPERTIES NoEscalation OfferKept
CHECK_DEADLOCK FALSE
