CONSTANTS
    Req = {r1, r2}
    Plans <- SmallPlans
    Cap = 2
    Refreshes = 1
    MaxHash = 3
    MaxSession = 2
    MaxChallenge = 1
    MaxReset = 2
    MaxProof = 2
    MaxWrong = 2
SPECIFICATION AccountSpec
SYMMETRY Symmetry
INVARIANT PasswordInForce
PROPERTIES SecondFactorDemanded CodesHold ClosedByOwner
CHECK_DEADLOCK FALSE
