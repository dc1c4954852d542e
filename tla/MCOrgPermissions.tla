------------------------- MODULE MCOrgPermissions -------------------------
(* Small instances of OrgPermissions for TLC. *)
EXTENDS OrgPermissions

(* On whose authority a state was reached decides nothing that follows.    *)
View == <<ready, banned, member, assigned, role, perm, invite, ticket>>
=============================================================================
