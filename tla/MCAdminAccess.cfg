CONSTANTS
    User = {a, b, c}
    Admins = {a, b}
    Custom = {r1, r2}
    DefaultRole = "user"
    Business = {"biz"}
    Library = {"manage"}
    KeyOf <- Bundles
    Req = {q1, q2}
    MaxBulk = 2
    MaxRevision = 8
    MaxEarly = 3
    MaxAsk = 2
VIEW View
SYMMETRY Symmetry
SPECIFICATION AdminSpec
INVARIANT UsableAdminRemains
PROPERTIES NoEscalation AssignedAsSeen
CHECK_DEADLOCK FALSE
