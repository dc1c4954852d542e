--------------------------- MODULE MCEmailChange ---------------------------
EXTENDS EmailChange, TLC

(* Guesses, resends, starts and codes; whether the account begins verified  *)
(* and whether it begins with a password.                                   *)
Limit(g, r, n, c, v, p) ==
  [attempts |-> g, resends |-> r, starts |-> n, verifies |-> c, passwords |-> 1,
   verified |-> v, password |-> p]

(* A request that replaces another, and one that is resent; a request while *)
(* the first address is verified or a first password set; and these alone,  *)
(* with two codes outstanding.                                              *)
MCLimits ==
  {Limit(1, 0, 2, 0, TRUE, 1), Limit(2, 1, 1, 0, TRUE, 1), Limit(1, 0, 1, 1, FALSE, 0),
   Limit(1, 0, 0, 2, FALSE, 0), Limit(1, 0, 0, 2, FALSE, 1)}

Symmetry == Permutations(Req) \union Permutations(Session)
============================================================================
