------------------------- MODULE MCBrowserSessions -------------------------
(* Small instances of BrowserSessions for TLC. *)
EXTENDS BrowserSessions, TLC

Symmetry == Permutations(Tab) \cup Permutations(Sid)
=============================================================================
