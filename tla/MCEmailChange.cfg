SPECIFICATION Spec
CONSTANTS
  Email = {a, b}
  Home = a
  Session = {s1, s2}
  Req = {q1, q2}
  Limits <- MCLimits
  None = None
SYMMETRY Symmetry
INVARIANTS BudgetsKept VerifiedIsProved
PROPERTY ChangeIsWanted
CHECK_DEADLOCK FALSE
