------------------------------ MODULE Identity ------------------------------
(***************************************************************************)
(* Signing in with an external provider, and linking one to an account     *)
(* (internal/service/oauth.go, oauth_link.go, oauth_invite.go and          *)
(* internal/sqlstore/provider_account_repo.go), composed with the          *)
(* invitations of Invitations.                                             *)
(*                                                                         *)
(* The browser leaves for the provider with a state token and comes back   *)
(* with it.  The callback spends the token, asks the provider who came     *)
(* (the Exchange call, outside any transaction), reads the invitation and  *)
(* the identity's owner, and only then writes.  In between the invitation, *)
(* the account, the session that asked for a link and the identity itself  *)
(* may all have changed.                                                   *)
(***************************************************************************)
EXTENDS Invitations

CONSTANTS Provider,      \* configured providers
          Identities,    \* accounts at the providers
          ProviderOf,    \* the provider of an identity
          MaxTries       \* wrong codes an address proof survives

ASSUME IdentityBounds == /\ MaxTries \in Nat
                         /\ ProviderOf \in [Identities -> Provider]

State == UpTo("states")
Proof == UpTo("proofs")

VARIABLES
  owner,      \* the account an identity is linked to, or None
  states,     \* state tokens: what they were issued for and whether they are used
  proofs,     \* challenges that prove the address of an invited identity
  unlinking   \* the request that holds an account's provider rows locked, or None

oauthVars == <<owner, states, proofs, unlinking>>
vars == <<inviteVars, oauthVars>>

Init ==
  /\ InviteInit
  /\ owner = [x \in Identities |-> None]
  /\ states = [t \in State |-> None]
  /\ proofs = [k \in Proof |-> None]
  /\ unlinking = [e \in Email |-> None]

Linked(e, p) == \E x \in Identities : owner[x] = e /\ ProviderOf[x] = p

----------------------------------------------------------------------------
(* Leaving for the provider.                                                *)

(* A state token remembers the provider, the invitation's code, if the      *)
(* visitor came with one, and the account and the session of a link.        *)
StateToken(p, c, e, s) ==
  [provider |-> p, code |-> c, user |-> e, session |-> s, used |-> FALSE, lapsed |-> FALSE]

(* The rows of the two tables. *)
StateTokens ==
  [provider : Provider, code : Code \union {None}, user : Email \union {None},
   session : Session \union {None}, used : BOOLEAN, lapsed : BOOLEAN]
Challenges == [code : Nat, email : Email, identity : Identities, tries : Nat]

ASSUME NoneIsNoToken == None \notin StateTokens /\ None \notin Challenges

IssueState(token) ==
  \E t \in State : /\ states[t] = None /\ t <= bounds.states
                   /\ \A u \in State : states[u] = None => t <= u
                   /\ states' = [states EXCEPT ![t] = token]

(* The callback's reading of an invitation; a lapsed one is refused here too. *)
PendingInvite(c) == \E i \in WithCode(c) : Pending(i)

Initiate(p) ==
  /\ IssueState(StateToken(p, None, None, None))
  /\ UNCHANGED <<inviteVars, owner, proofs, unlinking>>

(* The visitor shows the code from the mail. *)
InitiateInvite(p, c) ==
  /\ c \in mailed /\ PendingInvite(c)
  /\ IssueState(StateToken(p, c, None, None))
  /\ UNCHANGED <<inviteVars, owner, proofs, unlinking>>

InitiateLink(p, s) ==
  /\ session[s] \in Email
  /\ IssueState(StateToken(p, None, session[s], s))
  /\ UNCHANGED <<inviteVars, owner, proofs, unlinking>>

(* A state token lives ten minutes.  One that lapses before its callback is *)
(* refused there, as if nobody had come back; only a link looks again.      *)
StateLapses(t) ==
  /\ states[t] # None /\ ~ states[t].lapsed
  /\ states[t].used => \E r \in Req : At(r, "link") /\ req[r].state = t
  /\ states' = [states EXCEPT ![t].lapsed = TRUE]
  /\ UNCHANGED <<inviteVars, owner, proofs, unlinking>>

----------------------------------------------------------------------------
(* Coming back.                                                             *)

LinkAuthority(t) == states[t].user # None => session[states[t].session] = states[t].user

(* The token is unused and within its life, and a link comes back with the  *)
(* session that asked for it, still alive.                                  *)
Callback(r, t) ==
  /\ At(r, "idle")
  /\ states[t] # None /\ ~ states[t].used /\ ~ states[t].lapsed
  /\ LinkAuthority(t)
  /\ Go(r, [at |-> "spend", state |-> t])
  /\ UNCHANGED <<bounds, inviteOnly, account, invites, made, codes, mailed, session, oauthVars>>

(* MarkUsedIfUnused: one callback spends the token, the others are refused. *)
Unspent(t) == ~ states[t].used

SpendState(r) ==
  /\ At(r, "spend")
  /\ LET t == req[r].state
     IN IF Unspent(t)
          THEN /\ states' = [states EXCEPT ![t].used = TRUE]
               /\ Go(r, [at |-> "exchange", state |-> t])
          ELSE Finish(r) /\ UNCHANGED states
  /\ UNCHANGED <<bounds, inviteOnly, account, invites, made, codes, mailed, session,
                 owner, proofs, unlinking>>

(* What the provider's answer leads to, from what is read after it: x is    *)
(* who came, e the address of the profile, v whether the provider vouches   *)
(* for it.  An invitation must be pending and its address must be e.        *)
InvitedAs(t, e) ==
  states[t].code # None =>
    \E i \in WithCode(states[t].code) : Pending(i) /\ invites[i].email = e

(* Where the callback goes next; "idle" is a refusal.                       *)
NextStep(t, x, e, v) ==
  CASE states[t].user # None -> IF owner[x] = None THEN "link" ELSE "idle"
    [] states[t].user = None /\ owner[x] # None -> "login"
    [] OTHER -> IF states[t].code # None /\ ~ v THEN "challenge"
                ELSE IF (states[t].code # None \/ RegistrationOpen) /\ account[e] = None
                  THEN "register" ELSE "idle"

(* The exchange may fail; then the token is spent for nothing.              *)
Exchange(r) ==
  /\ At(r, "exchange")
  /\ LET t == req[r].state
     IN \/ Finish(r)
        \/ \E x \in Identities, e \in Email, v \in BOOLEAN :
             /\ ProviderOf[x] = states[t].provider
             /\ InvitedAs(t, e)
             /\ NextStep(t, x, e, v) # "idle"
             /\ Go(r, [at |-> NextStep(t, x, e, v), state |-> t, identity |-> x, email |-> e,
                       verified |-> v, code |-> states[t].code, user |-> owner[x]])
  /\ UNCHANGED <<bounds, inviteOnly, account, invites, made, codes, mailed, session, oauthVars>>

(* Slip: the session was alive when the browser came back. *)
AliveBefore(t) == TRUE

(* With the account and then the session locked: the session that asked for *)
(* the link still belongs to the account, and the token has not lapsed.     *)
AliveNow(t) == session[states[t].session] = states[t].user /\ ~ states[t].lapsed

(* The link is written if that holds and the identity's unique row is free. *)
FinalizeLink(r) ==
  /\ At(r, "link")
  /\ LET t == req[r].state  x == req[r].identity
     IN owner' = IF AliveNow(t) /\ owner[x] = None
                   THEN [owner EXCEPT ![x] = states[t].user] ELSE owner
  /\ Finish(r)
  /\ UNCHANGED <<bounds, inviteOnly, account, invites, made, codes, mailed, session,
                 states, proofs, unlinking>>

(* A known identity: an address the provider vouches for becomes verified   *)
(* if it is the account's, and the account found before signs in, whether   *)
(* or not the identity is still linked to it by then.                       *)
Login(r) ==
  /\ At(r, "login")
  /\ LET u == req[r].user
     IN /\ account' = [account EXCEPT ![u].verified = @ \/ (req[r].verified /\ req[r].email = u)]
        /\ Go(r, [at |-> "enter", email |-> u])
  /\ UNCHANGED <<bounds, inviteOnly, invites, made, codes, mailed, session, oauthVars>>

(* The account, the claim of the invitation and the link are one            *)
(* transaction: each of the three unique rows can refuse it as a whole.     *)
MayAdmit(c, e, x) ==
  /\ account[e] = None
  /\ owner[x] = None
  /\ c # None => \E i \in Invite : ClaimInvite(i, c)

Admit(c, e, x, v) ==
  \/ /\ c = None
     /\ account' = [account EXCEPT ![e] = Account(FALSE, v, None)]
     /\ owner' = [owner EXCEPT ![x] = e]
     /\ UNCHANGED invites
  \/ \E i \in Invite :
       /\ c # None /\ ClaimInvite(i, c)
       /\ account' = [account EXCEPT ![e] = Account(FALSE, v, i)]
       /\ owner' = [owner EXCEPT ![x] = e]
       /\ invites' = Accepted(i)

RegisterOAuth(r) ==
  /\ At(r, "register")
  /\ LET q == req[r]
     IN IF MayAdmit(q.code, q.email, q.identity)
          THEN /\ Admit(q.code, q.email, q.identity, q.verified)
               /\ Go(r, [at |-> "enter", email |-> q.email])
          ELSE Finish(r) /\ UNCHANGED <<account, invites, owner>>
  /\ UNCHANGED <<bounds, inviteOnly, made, codes, mailed, session, states, proofs, unlinking>>

(* The account is locked and read again; it may be banned, unverified or    *)
(* asked for a second factor, and then no session begins.  The identity is  *)
(* not looked at again.                                                     *)
CompleteOAuthLogin(r) ==
  /\ At(r, "enter")
  /\ session' \in {session} \union
       {[session EXCEPT ![s] = req[r].email] : s \in {s \in Session : session[s] = None}}
  /\ Finish(r)
  /\ UNCHANGED <<bounds, inviteOnly, account, invites, made, codes, mailed, oauthVars>>

----------------------------------------------------------------------------
(* The provider does not vouch for the invited address: a code mailed to    *)
(* it proves it, before the account is created.                             *)

(* The challenge keeps the profile and the invitation's code.  When the     *)
(* mail fails it is discarded, and only the slot is spent.                  *)
PrepareInviteVerification(r) ==
  /\ At(r, "challenge")
  /\ LET q == req[r]
     IN \/ UNCHANGED proofs
        \/ \E k \in Proof :
             /\ proofs[k] = None /\ k <= bounds.proofs
             /\ \A j \in Proof : proofs[j] = None => k <= j
             /\ proofs' = [proofs EXCEPT ![k] = [code |-> q.code, email |-> q.email,
                             identity |-> q.identity, tries |-> MaxTries]]
  /\ Finish(r)
  /\ UNCHANGED <<bounds, inviteOnly, account, invites, made, codes, mailed, session,
                 owner, states, unlinking>>

Live(k) == proofs[k] # None /\ proofs[k].tries > 0

(* A wrong code uses up a try. *)
WrongProof(k) ==
  /\ Live(k)
  /\ proofs' = [proofs EXCEPT ![k].tries = @ - 1]
  /\ UNCHANGED <<inviteVars, owner, states, unlinking>>

(* The right code: the invitation is read once more, *)
VerifyInviteEmail(r, k) ==
  /\ At(r, "idle") /\ Live(k)
  /\ \E i \in WithCode(proofs[k].code) : Pending(i) /\ invites[i].email = proofs[k].email
  /\ Go(r, [at |-> "prove", proof |-> k, code |-> proofs[k].code])
  /\ UNCHANGED <<bounds, inviteOnly, account, invites, made, codes, mailed, session, oauthVars>>

(* and the challenge, the invitation and the account change together: a     *)
(* refusal gives the challenge back.                                        *)
RedeemProof(r) ==
  /\ At(r, "prove")
  /\ LET k == req[r].proof  q == proofs[k]
     IN IF Live(k) /\ MayAdmit(q.code, q.email, q.identity)
          THEN /\ Admit(q.code, q.email, q.identity, TRUE)
               /\ proofs' = [proofs EXCEPT ![k].tries = 0]
               /\ Go(r, [at |-> "enter", email |-> q.email])
          ELSE Finish(r) /\ UNCHANGED <<account, invites, owner, proofs>>
  /\ UNCHANGED <<bounds, inviteOnly, made, codes, mailed, session, states, unlinking>>

----------------------------------------------------------------------------
(* Unlinking.                                                               *)

(* Every row of the provider goes, so only a password or another provider   *)
(* counts as a way left to sign in.                                         *)
RemainingMethod(e, p) ==
  account[e].password \/ \E x \in Identities : owner[x] = e /\ ProviderOf[x] # p

(* Slip: the rows are read without being locked. *)
NoRowLock(e) == TRUE

(* LockByUserID waits for whoever holds the account's provider rows.        *)
RowsFree(e) == unlinking[e] = None

(* The rows are locked, then read, *)
LockProviders(r, e, p) ==
  /\ At(r, "idle") /\ Linked(e, p) /\ RowsFree(e)
  /\ RemainingMethod(e, p)
  /\ unlinking' = [unlinking EXCEPT ![e] = r]
  /\ Go(r, [at |-> "unlink", email |-> e, provider |-> p])
  /\ UNCHANGED <<bounds, inviteOnly, account, invites, made, codes, mailed, session,
                 owner, states, proofs>>

(* and removed; the commit releases them.                                   *)
Unlink(r) ==
  /\ At(r, "unlink")
  /\ LET e == req[r].email
     IN /\ owner' = [x \in Identities |->
                       IF owner[x] = e /\ ProviderOf[x] = req[r].provider THEN None ELSE owner[x]]
        /\ unlinking' = [unlinking EXCEPT ![e] = None]
  /\ Finish(r)
  /\ UNCHANGED <<bounds, inviteOnly, account, invites, made, codes, mailed, session,
                 states, proofs>>

Leaving ==
  \E p \in Provider :
    \/ Initiate(p)
    \/ \E c \in Code : InitiateInvite(p, c)
    \/ \E s \in Session : InitiateLink(p, s)

Returning(r) ==
  \/ \E t \in State : Callback(r, t)
  \/ SpendState(r) \/ Exchange(r) \/ FinalizeLink(r) \/ Login(r) \/ RegisterOAuth(r)
  \/ CompleteOAuthLogin(r)

Proving(r) ==
  \/ PrepareInviteVerification(r) \/ RedeemProof(r)
  \/ \E k \in Proof : VerifyInviteEmail(r, k)

Unlinking(r) == Unlink(r) \/ \E e \in Email, p \in Provider : LockProviders(r, e, p)

(* What a request to the handlers may ask for, and what time may do. *)
OAuthNext ==
  \/ \E r \in Req : Returning(r) \/ Proving(r) \/ Unlinking(r)
  \/ Leaving
  \/ \E t \in State : StateLapses(t)
  \/ \E k \in Proof : WrongProof(k)

Next == (InviteNext /\ UNCHANGED oauthVars) \/ OAuthNext

Spec == Init /\ [][Next]_vars

----------------------------------------------------------------------------
(* Whatever requests run at the same time, an account can be signed in to:  *)
(* it has a password or an identity linked to it.  Two unlinks must not     *)
(* each count on the provider the other removes.                            *)
SignInMethodRemains ==
  \A e \in Email : account[e] # None =>
    account[e].password \/ \E x \in Identities : owner[x] = e

(* An identity is linked to an account that already exists only by the      *)
(* session that asked for it, still alive at that moment, through a token   *)
(* issued for that account: logging out in the middle stops the link.       *)
LinkNeedsItsSession ==
  [][\A x \in Identities :
       owner[x] = None /\ owner'[x] # None /\ account[owner'[x]] # None =>
         \E r \in Req : /\ At(r, "link") /\ req[r].identity = x /\ req'[r] # req[r]
                        /\ states[req[r].state].user = owner'[x]
                        /\ session[states[req[r].state].session] = owner'[x]]_vars
=============================================================================
