---------------------------- MODULE MCIdentity ----------------------------
EXTENDS Identity, TLC

CONSTANTS github, google, hubber, googler

MCProviderOf == hubber :> github @@ googler :> google

Bound(i, c, t, k) == [invites |-> i, codes |-> c, states |-> t, proofs |-> k]

(* Invitations in depth, admission through a provider, and linking in depth. *)
MCBounds == {Bound(2, 3, 0, 0), Bound(1, 2, 1, 1), Bound(0, 0, 2, 0)}

(* The providers are exchanged together with their identities.               *)
Exchanged == github :> google @@ google :> github @@ hubber :> googler @@ googler :> hubber

Symmetry == Permutations(Email) \union Permutations(Req) \union {Exchanged}
===========================================================================
