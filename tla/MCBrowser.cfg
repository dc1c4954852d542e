CONSTANTS
    Sid = {s1}
    Tab = {t1, t2}
    Kinds = {"login", "page", "refresh", "logout"}
    Duration = 1
    IdleTTL = 1
    RefreshTTL = 4
    MaxLifetime = 0
    GraceWindow = 3
    TouchDebounce = 0
    Latency = 1
    MaxTime = 4
    MaxToken = 5
SPECIFICATION BrowserSpec
SYMMETRY Symmetry
INVARIANTS LoginSurvives LogoutEnds HonestNeverReused
CHECK_DEADLOCK FALSE
