---------------------------- MODULE MCMigrations ----------------------------
(* Two runs, two revisions of two statements.  Every configuration bounds   *)
(* what may happen in it: interrupted and repeated runs on an empty         *)
(* database, replays, operators, and releases of different age.             *)
EXTENDS Migrations

CONSTANTS r1, r2

MCRun == {r1, r2}

Latest == [r \in MCRun |-> 2]
Mixed == [r \in MCRun |-> IF r = r1 THEN 1 ELSE 2]

Plain(d) == [dialect |-> d, target |-> Latest, policy |-> d = "mysql", installed |-> 0, tracked |-> 0,
             operations |-> {"apply"}, runs |-> 2, touches |-> 0, faults |-> 1]

Dialects == {"postgres", "mysql", "sqlite"}

MCConfigs ==
  UNION {{[Plain(d) EXCEPT !.runs = IF d = "mysql" THEN 2 ELSE 3],
          [Plain(d) EXCEPT !.target = Mixed],
          [Plain(d) EXCEPT !.installed = 1, !.operations = {"apply", "adopt"}, !.touches = 1],
          [Plain(d) EXCEPT !.installed = 1, !.tracked = 1, !.operations = {"apply", "verify"}, !.touches = 1],
          [Plain(d) EXCEPT !.touches = 1, !.faults = 0]} : d \in Dialects}
  \union {[Plain("mysql") EXCEPT !.installed = 1, !.tracked = 1, !.runs = 3, !.touches = 1,
                                 !.operations = {"apply", "repair", "retry"}],
          [Plain("mysql") EXCEPT !.installed = 1, !.tracked = 1, !.policy = FALSE,
                                 !.operations = {"apply", "retry"}]}

=============================================================================
