SPECIFICATION Spec
CONSTANTS
  github = github
  google = google
  hubber = hubber
  googler = googler
  Email = {a, b}
  Session = {s}
  Req = {q1, q2}
  Provider = {github, google}
  Identities = {hubber, googler}
  ProviderOf <- MCProviderOf
  Bounds <- MCBounds
  MaxTries = 1
  Admin = Admin
  None = None
SYMMETRY Symmetry
INVARIANTS AdmissionsMatch SignInMethodRemains
PROPERTIES InvitationEndsOnce LinkNeedsItsSession
CHECK_DEADLOCK FALSE
