--------------------------- MODULE MCCredentials ---------------------------
(* A small instance of Credentials with AccountProofs for TLC. *)
EXTENDS AccountProofs, TLC

(* What clients call in one behaviour: logins and passwords; the second     *)
(* factor switched by code; a first password; closing by password; closing  *)
(* by code.                                                                 *)
SmallPlans ==
    { {"login", "verify", "resend", "change", "ban", "settings"},
      {"login", "verify", "forgot", "reset", "ban", "settings"},
      {"login", "verify", "resend", "forgot", "reset", "change"},
      {"setcode", "settings", "ban"}, {"setcode", "readdress"},
      {"first", "readdress", "ban"},
      {"login", "close", "change", "ban", "settings"},
      {"closecode", "first", "readdress", "ban"} }

Symmetry == Permutations(Req)
=============================================================================
