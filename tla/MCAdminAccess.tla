--------------------------- MODULE MCAdminAccess ---------------------------
(* Small instances of AdminAccess for TLC. *)
EXTENDS AdminAccess, TLC

(* Every operation of the roles needs one key here, every operation on     *)
(* accounts another: the roles considered grant each bundle whole.         *)
Bundles ==
    [op \in {"roles.create", "roles.update", "roles.delete", "roles.assign",
             "permissions.create", "permissions.update", "permissions.delete",
             "users.create", "users.ban", "users.unban", "users.delete"} |-> "manage"]

(* No property tells the custom roles apart, nor the first administrators.  *)
Symmetry == Permutations(Custom) \cup Permutations(Admins)

(* Who took a step decides nothing that follows. *)
View == <<granular, users, gone, banned, role, assigned, approle, perm, revision, form,
          request, asked>>
=============================================================================
