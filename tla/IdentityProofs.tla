--------------------------- MODULE IdentityProofs ---------------------------
(***************************************************************************)
(* Theorems about Identity, and so about the invitations it is composed    *)
(* with, for any addresses, sessions, requests, providers and identities.  *)
(*                                                                         *)
(* A request acts on what it read long ago.  The invariant says what of    *)
(* that is still true when it acts: a code names one address for ever      *)
(* (Names), an account that was there is there, a token keeps whom it was  *)
(* issued for, and the provider rows somebody locked stay as they were.    *)
(***************************************************************************)
EXTENDS Identity, TLAPS

Typed ==
  /\ inviteOnly \in BOOLEAN
  /\ account \in [Email -> Accounts \union {None}]
  /\ invites \in [Invite -> InviteRows \union {None}]
  /\ made \in Nat /\ codes \in Nat
  /\ session \in [Session -> Email \union {None, "ended"}]
  /\ owner \in [Identities -> Email \union {None}]
  /\ states \in [State -> StateTokens \union {None}]
  /\ proofs \in [Proof -> Challenges \union {None}]
  /\ unlinking \in [Email -> Req \union {None}]
  /\ req = [r \in Req |-> req[r]]

(* The invitations that exist have been made, each with a code of its own. *)
CodesTrue ==
  /\ \A i \in Invite : Exists(i) => i \in 1 .. made /\ invites[i].code \in 1 .. codes
  /\ \A i, j \in Invite :
       Exists(i) /\ Exists(j) /\ invites[i].code = invites[j].code => i = j

(* An account names an invitation that has been made. *)
AdmissionsMade ==
  \A e \in Email : account[e] # None /\ account[e].invite \in Invite =>
    account[e].invite \in 1 .. made

OwnersExist == \A x \in Identities : owner[x] # None => account[owner[x]] # None

SessionsTrue == \A s \in Session : session[s] \in Email => account[session[s]] # None

StatesTrue ==
  \A t \in State : states[t] # None /\ states[t].user # None => account[states[t].user] # None

(* A code names the address e, now and after. *)
Names(c, e) ==
  /\ c \in 1 .. codes
  /\ \A i \in Invite : Exists(i) /\ invites[i].code = c => invites[i].email = e

ProofsTrue ==
  \A k \in Proof : proofs[k] # None =>
    proofs[k].code # None /\ Names(proofs[k].code, proofs[k].email)

ReqTrue(r) ==
  LET q == req[r]
  IN /\ q.at = "insert" => q.email \in Email
     /\ q.at = "rotate" => q.invite \in Invite
     /\ q.at = "redeem" => q.invite \in Invite /\ q.email \in Email /\ Names(q.code, q.email)
     /\ q.at \in {"signin", "enter"} => q.email \in Email /\ account[q.email] # None
     /\ q.at \in {"spend", "exchange", "link"} => q.state \in State /\ states[q.state] # None
     /\ q.at = "link" => q.identity \in Identities /\ states[q.state].user # None
     /\ q.at = "login" => q.user \in Email /\ account[q.user] # None /\ q.verified \in BOOLEAN
     /\ q.at \in {"register", "challenge"} =>
          /\ q.email \in Email /\ q.identity \in Identities /\ q.verified \in BOOLEAN
          /\ q.code # None => Names(q.code, q.email)
     /\ q.at = "register" => q.code # None \/ ~ inviteOnly
     /\ q.at = "challenge" => q.code # None
     /\ q.at = "prove" => /\ q.proof \in Proof /\ proofs[q.proof] # None
                          /\ q.code = proofs[q.proof].code
     /\ q.at \in {"redeem", "register", "prove"} => "code" \in DOMAIN q
     /\ q.at = "unlink" => /\ q.email \in Email /\ unlinking[q.email] = r
                           /\ account[q.email] # None
                           /\ RemainingMethod(q.email, q.provider)

Core == CodesTrue /\ AdmissionsMade /\ AdmissionsMatch /\ OwnersExist /\ SignInMethodRemains

IInv ==
  /\ Typed /\ Core /\ SessionsTrue /\ StatesTrue /\ ProofsTrue
  /\ \A r \in Req : ReqTrue(r)

USE BoundsAssumption, NoneIsNothing, IdentityBounds, NoneIsNoToken

(* The state the invariant speaks of, without the requests. *)
shared == <<inviteOnly, account, invites, made, codes, session, owner, states, proofs, unlinking>>

----------------------------------------------------------------------------
(* What the steps of other requests leave of what a request has read.       *)

Steady ==
  /\ inviteOnly' = inviteOnly
  /\ codes' >= codes
  /\ \A e \in Email : account[e] # None =>
       account'[e] # None /\ account'[e].password = account[e].password
  /\ \A i \in Invite : invites'[i] # None =>
       \/ invites'[i].code > codes
       \/ /\ invites[i] # None
          /\ invites'[i].code = invites[i].code /\ invites'[i].email = invites[i].email
  /\ \A t \in State : states[t] # None =>
       states'[t] # None /\ states'[t].user = states[t].user
  /\ \A k \in Proof : proofs[k] # None =>
       /\ proofs'[k] # None
       /\ proofs'[k].code = proofs[k].code /\ proofs'[k].email = proofs[k].email

(* The rows the request v holds locked stay, and stay locked by it. *)
HeldBy(v) ==
  req[v].at = "unlink" =>
    /\ unlinking'[req[v].email] = unlinking[req[v].email]
    /\ \A x \in Identities : owner[x] = req[v].email /\ ProviderOf[x] # req[v].provider =>
         owner'[x] = owner[x]

(* Identities are only linked, provider rows only locked. *)
LinksGrow ==
  /\ \A x \in Identities : owner[x] # None => owner'[x] = owner[x]
  /\ \A e \in Email : unlinking[e] # None => unlinking'[e] = unlinking[e]

(* A code goes on naming its address: later codes are other codes. *)
LEMMA NamesStay ==
  ASSUME Typed, Typed', Steady, NEW c, NEW e, Names(c, e)
  PROVE  Names(c, e)'
<1>1. c \in 1 .. codes'
  BY DEF Names, Typed, Steady
<1>2. ASSUME NEW i \in Invite, invites'[i] # None, invites'[i].code = c
      PROVE  invites'[i].email = e
  BY <1>2 DEF Names, Steady, Exists, Typed
<1>3. QED
  BY <1>1, <1>2 DEF Names, Exists

(* What was true of a request stays true while it waits. *)
LEMMA WaitingStays ==
  ASSUME Typed, Typed', Steady, NEW v \in Req, ReqTrue(v), req'[v] = req[v], HeldBy(v)
  PROVE  ReqTrue(v)'
<1> DEFINE q == req[v]
<1>1. ASSUME NEW c, NEW e, Names(c, e) PROVE Names(c, e)'
  BY <1>1, NamesStay
<1>2. q.at = "redeem" => Names(q.code, q.email)'
  BY <1>1 DEF ReqTrue
<1>3. q.at \in {"register", "challenge"} /\ q.code # None => Names(q.code, q.email)'
  BY <1>1 DEF ReqTrue
<1>4. /\ q.at \in {"signin", "enter"} => account'[q.email] # None
      /\ q.at = "login" => account'[q.user] # None
  BY DEF ReqTrue, Steady
<1>5. /\ q.at \in {"spend", "exchange", "link"} => states'[q.state] # None
      /\ q.at = "link" => states'[q.state].user # None
  BY DEF ReqTrue, Steady
<1>6. q.at = "prove" => proofs'[q.proof] # None /\ q.code = proofs'[q.proof].code
  BY DEF ReqTrue, Steady
<1>7. q.at = "unlink" => /\ unlinking'[q.email] = v /\ account'[q.email] # None
                         /\ RemainingMethod(q.email, q.provider)'
  BY DEF ReqTrue, Steady, HeldBy, RemainingMethod
<1>8. q.at = "register" => q.code # None \/ ~ inviteOnly'
  BY DEF ReqTrue, Steady
<1>9. QED
  BY <1>2, <1>3, <1>4, <1>5, <1>6, <1>7, <1>8 DEF ReqTrue

LEMMA HeldWhenGrowing ==
  ASSUME Typed, LinksGrow, NEW v \in Req, ReqTrue(v)
  PROVE  HeldBy(v)
BY DEF Typed, LinksGrow, ReqTrue, HeldBy

(* What is left to show of a step, when it is steady. *)
LEMMA Preserved ==
  ASSUME IInv, Typed', Steady, Core',
         SessionsTrue' \/ UNCHANGED session,
         StatesTrue' \/ UNCHANGED states,
         ProofsTrue' \/ UNCHANGED proofs,
         \A v \in Req : ReqTrue(v)' \/ (req'[v] = req[v] /\ HeldBy(v))
  PROVE  IInv'
<1>1. SessionsTrue'
  BY DEF IInv, SessionsTrue, Steady
<1>2. StatesTrue'
  <2>1. CASE UNCHANGED states
    <3> SUFFICES ASSUME NEW t \in State, states[t] # None, states[t].user # None
                 PROVE  account'[states[t].user] # None
      BY <2>1 DEF StatesTrue
    <3>1. account[states[t].user] # None
      BY DEF IInv, StatesTrue
    <3>2. states[t].user \in Email
      BY DEF IInv, Typed, StateTokens
    <3>3. QED
      BY <3>1, <3>2 DEF Steady
  <2>2. QED
    BY <2>1
<1>3. ProofsTrue'
  <2>1. ASSUME NEW c, NEW e, Names(c, e) PROVE Names(c, e)'
    BY <2>1, NamesStay DEF IInv
  <2>2. QED
    BY <2>1 DEF IInv, ProofsTrue
<1>4. ASSUME NEW v \in Req PROVE ReqTrue(v)'
  BY WaitingStays DEF IInv
<1>5. QED
  BY <1>1, <1>2, <1>3, <1>4 DEF IInv

LEMMA CoreSame ==
  ASSUME Core, UNCHANGED <<inviteOnly, account, invites, made, codes, owner>>
  PROVE  Core'
BY DEF Core, CodesTrue, AdmissionsMade, AdmissionsMatch, OwnersExist, SignInMethodRemains, Exists

(* A request moves and nothing else does. *)
LEMMA ReqOnly ==
  ASSUME IInv, UNCHANGED shared, NEW r \in Req, NEW next, Go(r, next), ReqTrue(r)'
  PROVE  IInv'
<1>1. Typed'
  BY DEF IInv, Typed, Go, shared
<1>2. Steady /\ LinksGrow
  BY DEF Steady, LinksGrow, IInv, Typed, shared
<1>3. Core'
  BY CoreSame DEF IInv, shared
<1>4. ASSUME NEW v \in Req PROVE ReqTrue(v)' \/ (req'[v] = req[v] /\ HeldBy(v))
  BY <1>2, HeldWhenGrowing DEF Go, IInv, Typed
<1>5. QED
  BY <1>1, <1>2, <1>3, <1>4, Preserved DEF shared

LEMMA IdleTrue ==
  ASSUME NEW v, req'[v] = Idle
  PROVE  ReqTrue(v)'
BY DEF ReqTrue, Idle

(* A refusal. *)
LEMMA Refused ==
  ASSUME IInv, UNCHANGED shared, NEW r \in Req, Finish(r)
  PROVE  IInv'
<1>1. Go(r, Idle)
  BY DEF Finish, Go
<1>2. ReqTrue(r)'
  BY IdleTrue DEF Finish, IInv, Typed
<1>3. QED
  BY <1>1, <1>2, ReqOnly

(* How a request that moved and the ones that wait are put together. *)
LEMMA OneMoves ==
  ASSUME IInv, LinksGrow, NEW r \in Req, NEW next, Go(r, next), ReqTrue(r)'
  PROVE  \A v \in Req : ReqTrue(v)' \/ (req'[v] = req[v] /\ HeldBy(v))
BY HeldWhenGrowing DEF Go, IInv, Typed

LEMMA NoneMoves ==
  ASSUME IInv, LinksGrow, UNCHANGED req
  PROVE  \A v \in Req : ReqTrue(v)' \/ (req'[v] = req[v] /\ HeldBy(v))
BY HeldWhenGrowing DEF IInv

----------------------------------------------------------------------------
(* One lemma per action.  First the requests that only read. *)

LEMMA CreateInviteKeeps ==
  ASSUME IInv, NEW r \in Req, NEW e \in Email, CreateInvite(r, e), UNCHANGED oauthVars
  PROVE  IInv'
<1>1. UNCHANGED shared /\ Go(r, [at |-> "insert", email |-> e])
  BY DEF CreateInvite, shared, oauthVars
<1>2. ReqTrue(r)'
  <2>1. req'[r] = [at |-> "insert", email |-> e]
    BY <1>1 DEF Go, IInv, Typed
  <2>2. QED
    BY <2>1 DEF ReqTrue
<1>3. QED
  BY <1>1, <1>2, ReqOnly

LEMMA ResendInviteKeeps ==
  ASSUME IInv, NEW r \in Req, NEW i \in Invite, ResendInvite(r, i), UNCHANGED oauthVars
  PROVE  IInv'
<1> DEFINE next == [at |-> "rotate", invite |-> i, code |-> invites[i].code]
<1>1. UNCHANGED shared /\ Go(r, next)
  BY DEF ResendInvite, shared, oauthVars
<1>2. ReqTrue(r)'
  <2>1. req'[r] = next
    BY <1>1 DEF Go, IInv, Typed
  <2>2. QED
    BY <2>1 DEF ReqTrue
<1>3. QED
  BY <1>1, <1>2, ReqOnly

LEMMA MailInviteKeeps ==
  ASSUME IInv, NEW r \in Req, MailInvite(r), UNCHANGED oauthVars
  PROVE  IInv'
BY Refused DEF MailInvite, shared, oauthVars

(* A code names what it named. *)
LEMMA NamesSame ==
  ASSUME UNCHANGED shared, NEW c, NEW e, Names(c, e)
  PROVE  Names(c, e)'
BY DEF Names, shared, Exists

(* The invitation an opened code belongs to is the only one it opens. *)
LEMMA OpenInviteKeeps ==
  ASSUME IInv, NEW r \in Req, NEW c, OpenInvite(r, c), UNCHANGED oauthVars
  PROVE  IInv'
<1>1. PICK i \in WithCode(c) :
        Go(r, [at |-> "redeem", invite |-> i, code |-> c, email |-> invites[i].email])
  BY DEF OpenInvite
<1>2. UNCHANGED shared
  BY DEF OpenInvite, shared, oauthVars
<1>3. i \in Invite /\ Exists(i) /\ invites[i].code = c
  BY DEF WithCode
<1>4. PICK e \in Email : e = invites[i].email
  BY <1>3 DEF IInv, Typed, InviteRows, Exists
<1>5. Names(c, e)
  BY <1>3, <1>4 DEF IInv, Core, CodesTrue, Exists, Names
<1>6. Names(c, e)'
  BY <1>2, <1>5, NamesSame
<1>7. req'[r] = [at |-> "redeem", invite |-> i, code |-> c, email |-> e]
  BY <1>1, <1>4 DEF Go, IInv, Typed
<1>8. ReqTrue(r)'
  BY <1>3, <1>6, <1>7 DEF ReqTrue
<1>9. QED
  BY <1>1, <1>2, <1>8, ReqOnly

LEMMA CallbackKeeps ==
  ASSUME IInv, NEW r \in Req, NEW t \in State, Callback(r, t)
  PROVE  IInv'
<1>1. UNCHANGED shared /\ Go(r, [at |-> "spend", state |-> t]) /\ states[t] # None
  BY DEF Callback, shared, oauthVars
<1>2. ReqTrue(r)'
  <2>1. req'[r] = [at |-> "spend", state |-> t]
    BY <1>1 DEF Go, IInv, Typed
  <2>2. QED
    BY <1>1, <2>1 DEF ReqTrue, shared
<1>3. QED
  BY <1>1, <1>2, ReqOnly

LEMMA VerifyInviteEmailKeeps ==
  ASSUME IInv, NEW r \in Req, NEW k \in Proof, VerifyInviteEmail(r, k)
  PROVE  IInv'
<1> DEFINE next == [at |-> "prove", proof |-> k, code |-> proofs[k].code]
<1>1. UNCHANGED shared /\ Go(r, next) /\ proofs[k] # None
  BY DEF VerifyInviteEmail, shared, oauthVars, Live
<1>2. ReqTrue(r)'
  <2>1. req'[r] = next
    BY <1>1 DEF Go, IInv, Typed
  <2>2. QED
    BY <1>1, <2>1 DEF ReqTrue, shared
<1>3. QED
  BY <1>1, <1>2, ReqOnly

(* What the exchange read is true of whatever it leads to. *)
LEMMA ExchangeKeeps ==
  ASSUME IInv, NEW r \in Req, Exchange(r)
  PROVE  IInv'
<1>1. UNCHANGED shared
  BY DEF Exchange, shared, oauthVars
<1>2. CASE Finish(r)
  BY <1>1, <1>2, Refused
<1>3. PICK t : t = req[r].state
  OBVIOUS
<1>4. t \in State /\ states[t] # None
  BY <1>3 DEF Exchange, At, IInv, ReqTrue
<1>5. PICK c : c = states[t].code
  OBVIOUS
<1>6. ASSUME NEW x \in Identities, NEW e \in Email, NEW v \in BOOLEAN,
             InvitedAs(t, e), NextStep(t, x, e, v) # "idle",
             Go(r, [at |-> NextStep(t, x, e, v), state |-> t, identity |-> x, email |-> e,
                    verified |-> v, code |-> states[t].code, user |-> owner[x]])
      PROVE  IInv'
  <2>1. PICK a : a = NextStep(t, x, e, v)
    OBVIOUS
  <2>2. PICK u : u = owner[x]
    OBVIOUS
  <2>3. c # None => Names(c, e)
    <3> SUFFICES ASSUME c # None PROVE Names(c, e)
      OBVIOUS
    <3>1. PICK i \in WithCode(c) : invites[i].email = e
      BY <1>5, <1>6 DEF InvitedAs
    <3>2. i \in Invite /\ Exists(i) /\ invites[i].code = c
      BY DEF WithCode
    <3>3. QED
      BY <3>1, <3>2 DEF IInv, Core, CodesTrue, Names
  <2>4. c # None => Names(c, e)'
    BY <1>1, <2>3, NamesSame
  <2>5. /\ a \in {"link", "login", "challenge", "register"}
        /\ a = "link" => states[t].user # None
        /\ a = "login" => u # None
        /\ a = "challenge" => c # None
        /\ a = "register" => c # None \/ ~ inviteOnly
    BY <1>5, <1>6, <2>1, <2>2 DEF NextStep, RegistrationOpen
  <2>6. a = "login" => u \in Email /\ account[u] # None
    BY <2>2, <2>5 DEF IInv, Typed, Core, OwnersExist
  <2>7. req'[r] = [at |-> a, state |-> t, identity |-> x, email |-> e,
                   verified |-> v, code |-> c, user |-> u]
    BY <1>5, <1>6, <2>1, <2>2 DEF Go, IInv, Typed
  <2>8. /\ req'[r].at = a /\ req'[r].state = t /\ req'[r].identity = x /\ req'[r].email = e
        /\ req'[r].verified = v /\ req'[r].code = c /\ req'[r].user = u
        /\ "code" \in DOMAIN req'[r]
    BY <2>7
  <2>9. ReqTrue(r)'
    BY <1>1, <1>4, <2>4, <2>5, <2>6, <2>8 DEF ReqTrue, shared
  <2>10. QED
    BY <1>1, <1>6, <2>9, ReqOnly
<1>7. QED
  BY <1>2, <1>3, <1>6 DEF Exchange

----------------------------------------------------------------------------
(* The administrator's requests, and time.                                  *)

(* A row that is replaced keeps its address, is not accepted by it, and has *)
(* its code or the next one.                                                *)
LEMMA RowReplaced ==
  ASSUME IInv, NEW i \in Invite, Exists(i), NEW row \in InviteRows,
         invites' = [invites EXCEPT ![i] = row],
         row.email = invites[i].email,
         row.status = "accepted" <=> invites[i].status = "accepted",
         \/ row.code = invites[i].code /\ codes' = codes
         \/ row.code = codes + 1 /\ codes' = codes + 1,
         UNCHANGED <<inviteOnly, account, made, session, owner, states, proofs, unlinking>>,
         req' = [v \in Req |-> req'[v]]
  PROVE  Typed' /\ Core' /\ Steady /\ LinksGrow
<1>1. codes \in Nat /\ codes' \in Nat /\ invites[i] \in InviteRows /\ row # None
  BY DEF IInv, Typed, Exists
<1>2. Typed'
  BY <1>1 DEF IInv, Typed
<1>3. \A j \in Invite : invites'[j] = IF j = i THEN row ELSE invites[j]
  BY DEF IInv, Typed
<1>4. Steady
  BY <1>1, <1>3 DEF Steady, IInv, Typed, Exists
<1>5. LinksGrow
  BY DEF LinksGrow
<1>6. CodesTrue'
  <2>1. ASSUME NEW j \in Invite, Exists(j)'
        PROVE  /\ Exists(j) /\ j \in 1 .. made'
               /\ invites'[j].code \in 1 .. codes'
    <3>1. Exists(j) /\ j \in 1 .. made /\ invites[j].code \in 1 .. codes
      BY <1>3, <2>1 DEF Exists, IInv, Core, CodesTrue
    <3>2. QED
      BY <1>1, <1>3, <3>1 DEF IInv, Typed
  <2>2. ASSUME NEW j \in Invite, NEW k \in Invite, Exists(j)', Exists(k)',
               invites'[j].code = invites'[k].code
        PROVE  j = k
    <3>1. Exists(j) /\ Exists(k) /\ invites[j].code \in 1 .. codes /\ invites[k].code \in 1 .. codes
      BY <2>1, <2>2 DEF IInv, Core, CodesTrue
    <3>2. invites[j].code = invites[k].code => j = k
      BY <3>1 DEF IInv, Core, CodesTrue
    <3>3. QED
      BY <1>1, <1>3, <2>2, <3>1, <3>2
  <2>3. QED
    BY <2>1, <2>2 DEF CodesTrue
<1>7. AdmissionsMade' /\ OwnersExist' /\ SignInMethodRemains'
  BY DEF IInv, Core, AdmissionsMade, OwnersExist, SignInMethodRemains
<1>8. AdmissionsMatch'
  <2>1. \A j \in Invite :
          /\ Exists(j)' <=> Exists(j)
          /\ Exists(j) => /\ invites'[j].email = invites[j].email
                          /\ invites'[j].status = "accepted" <=> invites[j].status = "accepted"
    BY <1>1, <1>3 DEF Exists
  <2>2. QED
    BY <2>1 DEF IInv, Core, AdmissionsMatch
<1>9. QED
  BY <1>2, <1>4, <1>5, <1>6, <1>7, <1>8 DEF Core

LEMMA RevokeInviteKeeps ==
  ASSUME IInv, NEW i \in Invite, RevokeInvite(i), UNCHANGED oauthVars
  PROVE  IInv'
<1> DEFINE row == [invites[i] EXCEPT !.status = "revoked"]
<1>1. invites[i] \in InviteRows /\ Exists(i)
  BY DEF RevokeInvite, IInv, Typed, Exists
<1>2. row \in InviteRows
  BY <1>1 DEF InviteRows
<1>3. row.email = invites[i].email /\ row.code = invites[i].code /\ row.status = "revoked"
  BY <1>1 DEF InviteRows
<1>4. invites' = [invites EXCEPT ![i] = row]
  BY DEF RevokeInvite
<1> HIDE DEF row
<1>5. /\ row.status = "accepted" <=> invites[i].status = "accepted"
      /\ UNCHANGED <<inviteOnly, account, made, codes, session, owner, states, proofs,
                     unlinking, req>>
  BY <1>3 DEF RevokeInvite, oauthVars
<1>6. Typed' /\ Core' /\ Steady /\ LinksGrow
  BY <1>1, <1>2, <1>3, <1>4, <1>5, RowReplaced DEF IInv, Typed
<1>7. QED
  BY <1>5, <1>6, Preserved, NoneMoves

LEMMA LapseKeeps ==
  ASSUME IInv, NEW i \in Invite, Lapse(i), UNCHANGED oauthVars
  PROVE  IInv'
<1> DEFINE row == [invites[i] EXCEPT !.lapsed = TRUE]
<1>1. invites[i] \in InviteRows /\ Exists(i)
  BY DEF Lapse, Pending, IInv, Typed, Exists
<1>2. row \in InviteRows
  BY <1>1 DEF InviteRows
<1>3. row.email = invites[i].email /\ row.code = invites[i].code /\ row.status = invites[i].status
  BY <1>1 DEF InviteRows
<1>4. invites' = [invites EXCEPT ![i] = row]
  BY DEF Lapse
<1> HIDE DEF row
<1>5. Typed' /\ Core' /\ Steady /\ LinksGrow
  BY <1>1, <1>2, <1>3, <1>4, RowReplaced DEF Lapse, oauthVars, IInv, Typed
<1>6. QED
  BY <1>5, Preserved, NoneMoves DEF Lapse, oauthVars

LEMMA RotateCodeKeeps ==
  ASSUME IInv, NEW r \in Req, RotateCode(r), UNCHANGED oauthVars
  PROVE  IInv'
<1>1. PICK i : i = req[r].invite
  OBVIOUS
<1>2. i \in Invite
  BY <1>1 DEF RotateCode, At, IInv, ReqTrue
<1>3. CASE MayRotate(i, req[r].code)
  <2> DEFINE row == NewInvite(invites[i].email, codes + 1)
  <2>1. /\ Exists(i) /\ invites[i].status = "pending" /\ invites[i] \in InviteRows
        /\ codes \in Nat /\ codes + 1 \in Nat
    BY <1>2, <1>3 DEF MayRotate, IInv, Typed, Exists
  <2>2. row \in InviteRows
    BY <2>1 DEF InviteRows, NewInvite
  <2>3. row.email = invites[i].email /\ row.code = codes + 1 /\ row.status = "pending"
    BY DEF NewInvite
  <2>4. /\ invites' = [invites EXCEPT ![i] = row] /\ codes' = codes + 1
        /\ Go(r, [at |-> "mail", code |-> codes + 1])
        /\ UNCHANGED <<inviteOnly, account, made, session, owner, states, proofs, unlinking>>
    BY <1>1, <1>3 DEF RotateCode, oauthVars
  <2> HIDE DEF row
  <2>5. Typed' /\ Core' /\ Steady /\ LinksGrow
    BY <1>2, <2>1, <2>2, <2>3, <2>4, RowReplaced DEF IInv, Typed, Go
  <2>6. ReqTrue(r)'
    <3>1. req'[r] = [at |-> "mail", code |-> codes + 1]
      BY <2>4 DEF Go, IInv, Typed
    <3>2. QED
      BY <3>1 DEF ReqTrue
  <2>7. \A v \in Req : ReqTrue(v)' \/ (req'[v] = req[v] /\ HeldBy(v))
    BY <2>4, <2>5, <2>6, OneMoves
  <2>8. QED
    BY <2>4, <2>5, <2>7, Preserved
<1>4. CASE ~ MayRotate(i, req[r].code)
  BY <1>1, <1>4, Refused DEF RotateCode, shared, oauthVars
<1>5. QED
  BY <1>3, <1>4

(* A deleted row leaves the account it admitted. *)
LEMMA HardDeleteInviteKeeps ==
  ASSUME IInv, NEW i \in Invite, HardDeleteInvite(i), UNCHANGED oauthVars
  PROVE  IInv'
<1>1. /\ invites' = [invites EXCEPT ![i] = None]
      /\ UNCHANGED <<inviteOnly, account, made, codes, session, owner, states, proofs,
                     unlinking, req>>
  BY DEF HardDeleteInvite, oauthVars
<1>2. \A j \in Invite : /\ Exists(j)' => Exists(j) /\ invites'[j] = invites[j]
                        /\ invites'[j] = IF j = i THEN None ELSE invites[j]
  BY <1>1 DEF IInv, Typed, Exists
<1>3. Typed'
  BY <1>1 DEF IInv, Typed
<1>4. Steady /\ LinksGrow
  BY <1>1, <1>2 DEF Steady, LinksGrow, IInv, Typed, Exists
<1>5. CodesTrue'
  BY <1>1, <1>2 DEF IInv, Core, CodesTrue
<1>6. AdmissionsMade' /\ OwnersExist' /\ SignInMethodRemains'
  BY <1>1 DEF IInv, Core, AdmissionsMade, OwnersExist, SignInMethodRemains
<1>7. AdmissionsMatch'
  BY <1>1, <1>2 DEF IInv, Core, AdmissionsMatch, Exists
<1>8. Core'
  BY <1>5, <1>6, <1>7 DEF Core
<1>9. QED
  BY <1>1, <1>3, <1>4, <1>8, Preserved, NoneMoves

(* The row inserted has an id and a code nobody has used. *)
LEMMA InsertInviteKeeps ==
  ASSUME IInv, NEW r \in Req, InsertInvite(r), UNCHANGED oauthVars
  PROVE  IInv'
<1> DEFINE n == made + 1
           row == NewInvite(req[r].email, codes + 1)
<1>1. req[r].email \in Email
  BY DEF InsertInvite, At, IInv, ReqTrue
<1>2. made \in Nat /\ codes \in Nat /\ codes + 1 \in Nat /\ made + 1 \in Nat
  BY DEF IInv, Typed
<1>3. row \in InviteRows
  BY <1>1, <1>2 DEF NewInvite, InviteRows
<1>4. row.code = codes + 1 /\ row.status = "pending" /\ row # None
  BY <1>3 DEF NewInvite
<1>5. /\ invites' = [invites EXCEPT ![n] = row]
      /\ made' = made + 1 /\ codes' = codes + 1
      /\ Go(r, [at |-> "mail", code |-> codes + 1])
      /\ UNCHANGED <<inviteOnly, account, session, owner, states, proofs, unlinking>>
  BY DEF InsertInvite, oauthVars
<1> HIDE DEF row
<1>6. \A j \in Invite : invites'[j] = IF j = n THEN row ELSE invites[j]
  BY <1>5 DEF IInv, Typed
<1>7. n \in Invite => invites[n] = None
  BY <1>2 DEF IInv, Core, CodesTrue, Exists
<1>8. Typed'
  BY <1>2, <1>3, <1>5 DEF IInv, Typed, Go
<1>9. Steady /\ LinksGrow
  BY <1>2, <1>4, <1>5, <1>6 DEF Steady, LinksGrow, IInv, Typed
<1>10. CodesTrue'
  <2>1. ASSUME NEW j \in Invite, Exists(j)'
        PROVE  /\ j \in 1 .. made' /\ invites'[j].code \in 1 .. codes'
               /\ j # n => Exists(j) /\ invites[j].code \in 1 .. codes /\ invites'[j] = invites[j]
    <3>1. CASE j = n
      BY <1>2, <1>4, <1>5, <1>6, <3>1
    <3>2. CASE j # n
      <4>1. Exists(j) /\ invites'[j] = invites[j]
        BY <1>6, <2>1, <3>2 DEF Exists
      <4>2. j \in 1 .. made /\ invites[j].code \in 1 .. codes
        BY <4>1 DEF IInv, Core, CodesTrue
      <4>3. QED
        BY <1>2, <1>5, <4>1, <4>2
    <3>3. QED
      BY <3>1, <3>2
  <2>2. ASSUME NEW j \in Invite, NEW k \in Invite, Exists(j)', Exists(k)',
               invites'[j].code = invites'[k].code
        PROVE  j = k
    <3>1. j # n /\ k # n => j = k
      BY <2>1, <2>2 DEF IInv, Core, CodesTrue
    <3>2. QED
      BY <1>2, <1>4, <1>6, <2>1, <2>2, <3>1
  <2>3. QED
    BY <2>1, <2>2 DEF CodesTrue
<1>11. AdmissionsMade' /\ OwnersExist' /\ SignInMethodRemains'
  BY <1>2, <1>5 DEF IInv, Core, AdmissionsMade, OwnersExist, SignInMethodRemains
<1>12. AdmissionsMatch'
  <2>1. ASSUME NEW e \in Email, account[e] # None, account[e].invite \in Invite
        PROVE  account[e].invite # n
    BY <1>2, <2>1 DEF IInv, Core, AdmissionsMade
  <2>2. QED
    BY <1>4, <1>5, <1>6, <2>1 DEF IInv, Core, AdmissionsMatch, Exists
<1>13. Core'
  BY <1>10, <1>11, <1>12 DEF Core
<1>14. ReqTrue(r)'
  <2>1. req'[r] = [at |-> "mail", code |-> codes + 1]
    BY <1>5 DEF Go, IInv, Typed
  <2>2. QED
    BY <2>1 DEF ReqTrue
<1>15. \A v \in Req : ReqTrue(v)' \/ (req'[v] = req[v] /\ HeldBy(v))
  BY <1>5, <1>9, <1>14, OneMoves
<1>16. QED
  BY <1>5, <1>8, <1>9, <1>13, <1>15, Preserved

----------------------------------------------------------------------------
(* Accounts and sessions begin.                                             *)

(* A new account has a way to sign in, and the invitation that admits it,   *)
(* if any does, was pending for its address.                                *)
LEMMA Admitted ==
  ASSUME IInv, NEW e \in Email, account[e] = None, NEW row \in Accounts,
         account' = [account EXCEPT ![e] = row],
         \/ row.invite = None /\ ~ inviteOnly /\ invites' = invites
         \/ row.invite = Admin /\ invites' = invites
         \/ \E i \in Invite : /\ Pending(i) /\ invites[i].email = e
                              /\ row.invite = i /\ invites' = Accepted(i),
         \/ row.password = TRUE /\ owner' = owner
         \/ \E x \in Identities : owner[x] = None /\ owner' = [owner EXCEPT ![x] = e],
         proofs' \in [Proof -> Challenges \union {None}],
         \A k \in Proof : proofs[k] # None =>
           /\ proofs'[k] # None
           /\ proofs'[k].code = proofs[k].code /\ proofs'[k].email = proofs[k].email,
         UNCHANGED <<inviteOnly, made, codes, session, states, unlinking>>,
         req' = [v \in Req |-> req'[v]]
  PROVE  Typed' /\ Core' /\ Steady /\ LinksGrow
<1>1. row # None /\ None \notin Email
  OBVIOUS
<1>2. \A f \in Email : account'[f] = IF f = e THEN row ELSE account[f]
  BY DEF IInv, Typed
<1>3. /\ owner' \in [Identities -> Email \union {None}]
      /\ \A x \in Identities : owner[x] # None => owner'[x] = owner[x]
      /\ \A x \in Identities : owner'[x] # owner[x] => owner'[x] = e
      /\ row.password = TRUE \/ \E x \in Identities : owner'[x] = e
  <2>1. CASE row.password = TRUE /\ owner' = owner
    BY <2>1 DEF IInv, Typed
  <2>2. ASSUME NEW x \in Identities, owner[x] = None, owner' = [owner EXCEPT ![x] = e]
        PROVE  <1>3!1 /\ <1>3!2 /\ <1>3!3 /\ <1>3!4
    BY <2>2 DEF IInv, Typed
  <2>3. QED
    BY <2>1, <2>2
<1>4. /\ invites' \in [Invite -> InviteRows \union {None}]
      /\ \A i \in Invite :
           /\ Exists(i)' <=> Exists(i)
           /\ Exists(i) => invites'[i].email = invites[i].email /\ invites'[i].code = invites[i].code
  <2>1. CASE invites' = invites
    BY <2>1 DEF IInv, Typed, Exists
  <2>2. ASSUME NEW i \in Invite, Pending(i), invites' = Accepted(i)
        PROVE  <1>4!1 /\ <1>4!2
    <3> DEFINE new == [invites[i] EXCEPT !.status = "accepted"]
    <3>1. invites[i] \in InviteRows /\ Exists(i)
      BY <2>2 DEF IInv, Typed, Pending, Exists
    <3>2. new \in InviteRows
      BY <3>1 DEF InviteRows
    <3>3. new.email = invites[i].email /\ new.code = invites[i].code
      BY <3>1 DEF InviteRows
    <3>4. invites' = [invites EXCEPT ![i] = new]
      BY <2>2 DEF Accepted
    <3> HIDE DEF new
    <3>5. invites' \in [Invite -> InviteRows \union {None}]
      BY <3>2, <3>4 DEF IInv, Typed
    <3>6. QED
      BY <3>1, <3>2, <3>3, <3>4, <3>5 DEF IInv, Typed, Exists
  <2>3. QED
    BY <2>1, <2>2
<1>5. Typed'
  <2>1. account' \in [Email -> Accounts \union {None}]
    BY DEF IInv, Typed
  <2>2. QED
    BY <1>3, <1>4, <2>1 DEF IInv, Typed
<1>6. Steady /\ LinksGrow
  BY <1>1, <1>2, <1>3, <1>4 DEF Steady, LinksGrow, Exists, IInv, Typed
<1>7. CodesTrue'
  BY <1>4 DEF IInv, Core, CodesTrue
<1>8. row.invite \in Invite => row.invite \in 1 .. made
  BY DEF IInv, Core, CodesTrue, Pending
<1>9. AdmissionsMade'
  BY <1>2, <1>8 DEF IInv, Core, AdmissionsMade
<1>10. OwnersExist' /\ SignInMethodRemains'
  <2>1. OwnersExist'
    BY <1>1, <1>2, <1>3 DEF IInv, Typed, Core, OwnersExist
  <2>2. ASSUME NEW f \in Email, account'[f] # None
        PROVE  account'[f].password = TRUE \/ \E x \in Identities : owner'[x] = f
    <3>1. CASE f = e
      BY <1>2, <1>3, <3>1
    <3>2. CASE f # e
      <4>1. account[f] # None /\ account'[f] = account[f] /\ f # None
        BY <1>1, <1>2, <2>2, <3>2
      <4>2. account[f].password = TRUE \/ \E x \in Identities : owner[x] = f
        BY <4>1 DEF IInv, Core, SignInMethodRemains, Typed, Accounts
      <4>3. QED
        BY <1>3, <4>1, <4>2
    <3>3. QED
      BY <3>1, <3>2
  <2>3. QED
    BY <2>1, <2>2 DEF SignInMethodRemains
<1>11. AdmissionsMatch'
  <2>1. CASE row.invite = None /\ ~ inviteOnly /\ invites' = invites
    BY <1>1, <1>2, <2>1 DEF IInv, Core, AdmissionsMatch, Exists
  <2>2. ASSUME row.invite = Admin, invites' = invites PROVE AdmissionsMatch'
    BY <1>1, <1>2, <2>2 DEF IInv, Core, AdmissionsMatch, Exists
  <2>3. ASSUME NEW i \in Invite, Pending(i), invites[i].email = e,
               row.invite = i, invites' = Accepted(i)
        PROVE  AdmissionsMatch'
    <3>1. /\ invites'[i].status = "accepted" /\ invites'[i].email = e
          /\ invites[i].status = "pending"
          /\ \A j \in Invite : j # i => invites'[j] = invites[j]
      BY <1>4, <2>3 DEF IInv, Typed, Accepted, Pending, Exists, InviteRows
    <3>2. inviteOnly => \A f \in Email : account'[f] # None => account'[f].invite \in Invite \union {Admin}
      BY <1>2, <2>3 DEF IInv, Core, AdmissionsMatch
    <3>3. ASSUME NEW f \in Email, account'[f] # None, account'[f].invite \in Invite
          PROVE  \/ invites'[account'[f].invite] = None
                 \/ /\ invites'[account'[f].invite].status = "accepted"
                    /\ invites'[account'[f].invite].email = f
      <4>1. CASE f = e
        BY <1>2, <2>3, <3>1, <4>1
      <4>2. CASE f # e
        BY <1>2, <1>4, <2>3, <3>1, <3>3, <4>2 DEF IInv, Core, AdmissionsMatch, Pending, Exists
      <4>3. QED
        BY <4>1, <4>2
    <3>4. ASSUME NEW j \in Invite, Exists(j)', invites'[j].status = "accepted"
          PROVE  account'[invites'[j].email] # None /\ account'[invites'[j].email].invite = j
      <4>1. CASE j = i
        BY <1>1, <1>2, <2>3, <3>1, <4>1
      <4>2. CASE j # i
        <5>1. Exists(j) /\ invites[j].status = "accepted" /\ invites'[j] = invites[j]
          BY <1>4, <3>1, <3>4, <4>2
        <5>2. /\ account[invites[j].email] # None /\ account[invites[j].email].invite = j
              /\ invites[j].email \in Email
          BY <5>1 DEF IInv, Core, AdmissionsMatch, Typed, Exists, InviteRows
        <5>3. QED
          BY <1>2, <5>1, <5>2
      <4>3. QED
        BY <4>1, <4>2
    <3>5. QED
      BY <3>2, <3>3, <3>4 DEF AdmissionsMatch, Exists
  <2>4. QED
    BY <2>1, <2>2, <2>3
<1>12. QED
  BY <1>5, <1>6, <1>7, <1>9, <1>10, <1>11 DEF Core

(* Whoever signs in or enters next belongs to an account that is there. *)
LEMMA EntersTrue ==
  ASSUME NEW r \in Req, NEW e \in Email, account'[e] # None,
         req'[r] = [at |-> "signin", email |-> e] \/ req'[r] = [at |-> "enter", email |-> e]
  PROVE  ReqTrue(r)'
BY DEF ReqTrue

LEMMA RegisterKeeps ==
  ASSUME IInv, NEW r \in Req, NEW e \in Email, Register(r, e), UNCHANGED oauthVars
  PROVE  IInv'
<1> DEFINE row == Account(TRUE, FALSE, None)
<1>1. row \in Accounts /\ row.invite = None /\ row.password = TRUE
  BY DEF Account, Accounts
<1>2. /\ account[e] = None /\ ~ inviteOnly
      /\ account' = [account EXCEPT ![e] = row]
      /\ Go(r, [at |-> "signin", email |-> e])
      /\ UNCHANGED <<inviteOnly, invites, made, codes, session, owner, states, proofs, unlinking>>
  BY DEF Register, RegistrationOpen, oauthVars
<1> HIDE DEF row
<1>3. Typed' /\ Core' /\ Steady /\ LinksGrow
  BY <1>1, <1>2, Admitted DEF IInv, Typed, Go
<1>4. ReqTrue(r)'
  <2>1. req'[r] = [at |-> "signin", email |-> e]
    BY <1>2 DEF Go, IInv, Typed
  <2>2. account'[e] # None
    BY <1>1, <1>2 DEF IInv, Typed
  <2>3. QED
    BY <2>1, <2>2, EntersTrue
<1>5. \A v \in Req : ReqTrue(v)' \/ (req'[v] = req[v] /\ HeldBy(v))
  BY <1>2, <1>3, <1>4, OneMoves
<1>6. QED
  BY <1>2, <1>3, <1>5, Preserved

(* An account entered by hand has a password and no invitation. *)
LEMMA CreateUserKeeps ==
  ASSUME IInv, NEW e \in Email, CreateUser(e), UNCHANGED oauthVars
  PROVE  IInv'
<1> DEFINE row == Account(TRUE, TRUE, Admin)
<1>1. row \in Accounts /\ row.invite = Admin /\ row.password = TRUE
  BY DEF Account, Accounts
<1>2. /\ account[e] = None
      /\ account' = [account EXCEPT ![e] = row]
      /\ UNCHANGED <<inviteOnly, invites, made, codes, session, owner, states, proofs, unlinking,
                     req>>
  BY DEF CreateUser, oauthVars
<1> HIDE DEF row
<1>3. Typed' /\ Core' /\ Steady /\ LinksGrow
  BY <1>1, <1>2, Admitted DEF IInv, Typed
<1>4. QED
  BY <1>2, <1>3, Preserved, NoneMoves

LEMMA CompleteInviteRegistrationKeeps ==
  ASSUME IInv, NEW r \in Req, CompleteInviteRegistration(r), UNCHANGED oauthVars
  PROVE  IInv'
<1>1. PICK i, e : i = req[r].invite /\ e = req[r].email
  OBVIOUS
<1>2. i \in Invite /\ e \in Email /\ Names(req[r].code, e)
  BY <1>1 DEF CompleteInviteRegistration, At, IInv, ReqTrue
<1>3. CASE ClaimInvite(i, req[r].code) /\ account[e] = None
  <2> DEFINE row == Account(TRUE, TRUE, i)
  <2>1. row \in Accounts /\ row.invite = i /\ row.password = TRUE
    BY <1>2 DEF Account, Accounts
  <2>2. Pending(i) /\ invites[i].email = e
    BY <1>2, <1>3 DEF ClaimInvite, Names
  <2>3. /\ account' = [account EXCEPT ![e] = row] /\ invites' = Accepted(i)
        /\ Go(r, [at |-> "signin", email |-> e])
        /\ UNCHANGED <<inviteOnly, made, codes, session, owner, states, proofs, unlinking>>
    BY <1>1, <1>3 DEF CompleteInviteRegistration, oauthVars
  <2> HIDE DEF row
  <2>4. Typed' /\ Core' /\ Steady /\ LinksGrow
    BY <1>2, <1>3, <2>1, <2>2, <2>3, Admitted DEF IInv, Typed, Go
  <2>5. ReqTrue(r)'
    <3>1. req'[r] = [at |-> "signin", email |-> e]
      BY <2>3 DEF Go, IInv, Typed
    <3>2. account'[e] # None
      BY <1>2, <2>1, <2>3 DEF IInv, Typed
    <3>3. QED
      BY <1>2, <3>1, <3>2, EntersTrue
  <2>6. \A v \in Req : ReqTrue(v)' \/ (req'[v] = req[v] /\ HeldBy(v))
    BY <2>3, <2>4, <2>5, OneMoves
  <2>7. QED
    BY <2>3, <2>4, <2>6, Preserved
<1>4. CASE ~ (ClaimInvite(i, req[r].code) /\ account[e] = None)
  BY <1>1, <1>4, Refused DEF CompleteInviteRegistration, shared, oauthVars
<1>5. QED
  BY <1>3, <1>4

(* A session begins, if one does, for an account that is there. *)
LEMMA SessionBegins ==
  ASSUME IInv, NEW r \in Req, req[r].at \in {"signin", "enter"}, Finish(r),
         \/ session' = session
         \/ \E s \in Session : session' = [session EXCEPT ![s] = req[r].email],
         UNCHANGED <<inviteOnly, account, invites, made, codes, owner, states, proofs, unlinking>>
  PROVE  IInv'
<1>1. req[r].email \in Email /\ account[req[r].email] # None
  BY DEF IInv, ReqTrue
<1>2. Typed'
  <2>1. session' \in [Session -> Email \union {None, "ended"}]
    BY <1>1 DEF IInv, Typed
  <2>2. QED
    BY <2>1 DEF IInv, Typed, Finish
<1>3. Steady /\ LinksGrow
  BY DEF Steady, LinksGrow, IInv, Typed
<1>4. Core'
  BY CoreSame DEF IInv
<1>5. SessionsTrue'
  BY <1>1 DEF IInv, Typed, SessionsTrue
<1>6. ReqTrue(r)'
  BY IdleTrue DEF Finish, IInv, Typed
<1>7. \A v \in Req : ReqTrue(v)' \/ (req'[v] = req[v] /\ HeldBy(v))
  BY <1>3, <1>6, OneMoves DEF Finish, Go
<1>8. QED
  BY <1>2, <1>3, <1>4, <1>5, <1>7, Preserved

LEMMA SignInKeeps ==
  ASSUME IInv, NEW r \in Req, SignIn(r), UNCHANGED oauthVars
  PROVE  IInv'
BY SessionBegins DEF SignIn, At, oauthVars

LEMMA CompleteOAuthLoginKeeps ==
  ASSUME IInv, NEW r \in Req, CompleteOAuthLogin(r)
  PROVE  IInv'
BY SessionBegins DEF CompleteOAuthLogin, At, oauthVars

LEMMA EndSessionKeeps ==
  ASSUME IInv, NEW s \in Session, EndSession(s), UNCHANGED oauthVars
  PROVE  IInv'
<1>1. /\ session' = [session EXCEPT ![s] = "ended"]
      /\ UNCHANGED <<inviteOnly, account, invites, made, codes, owner, states, proofs,
                     unlinking, req>>
  BY DEF EndSession, oauthVars
<1>2. Typed'
  BY <1>1 DEF IInv, Typed
<1>3. Steady /\ LinksGrow
  BY <1>1 DEF Steady, LinksGrow, IInv, Typed
<1>4. Core'
  BY <1>1, CoreSame DEF IInv
<1>5. SessionsTrue'
  BY <1>1 DEF IInv, Typed, SessionsTrue
<1>6. QED
  BY <1>1, <1>2, <1>3, <1>4, <1>5, Preserved, NoneMoves

(* The account of a known identity may become verified, no more. *)
LEMMA LoginKeeps ==
  ASSUME IInv, NEW r \in Req, Login(r)
  PROVE  IInv'
<1>1. PICK u : u = req[r].user
  OBVIOUS
<1>2. PICK b \in BOOLEAN : b = (account[u].verified \/ (req[r].verified /\ req[r].email = u))
  OBVIOUS
<1>3. u \in Email /\ account[u] # None
  BY <1>1 DEF Login, At, IInv, ReqTrue
<1> DEFINE row == [account[u] EXCEPT !.verified = b]
<1>4. account[u] \in Accounts
  BY <1>3 DEF IInv, Typed
<1>5. row \in Accounts /\ row # None
  BY <1>4 DEF Accounts
<1>6. row.password = account[u].password /\ row.invite = account[u].invite
  BY <1>4 DEF Accounts
<1>7. /\ account' = [account EXCEPT ![u] = row]
      /\ Go(r, [at |-> "enter", email |-> u])
      /\ UNCHANGED <<inviteOnly, invites, made, codes, session, owner, states, proofs, unlinking>>
  BY <1>1, <1>2 DEF Login, oauthVars
<1> HIDE DEF row
<1>8. \A e \in Email :
        /\ account'[e] # None <=> account[e] # None
        /\ account'[e] = IF e = u THEN row ELSE account[e]
        /\ account[e] # None => /\ account'[e].password = account[e].password
                                /\ account'[e].invite = account[e].invite
  BY <1>3, <1>5, <1>6, <1>7 DEF IInv, Typed
<1>9. Typed'
  BY <1>5, <1>7 DEF IInv, Typed, Go
<1>10. Steady /\ LinksGrow
  BY <1>7, <1>8 DEF Steady, LinksGrow, IInv, Typed
<1>11. CodesTrue' /\ OwnersExist'
  BY <1>7, <1>8 DEF IInv, Typed, Core, CodesTrue, OwnersExist, Exists
<1>12. AdmissionsMade' /\ SignInMethodRemains'
  BY <1>7, <1>8 DEF IInv, Core, AdmissionsMade, SignInMethodRemains
<1>13. AdmissionsMatch'
  BY <1>7, <1>8 DEF IInv, Typed, InviteRows, Core, AdmissionsMatch, Exists
<1>14. ReqTrue(r)'
  <2>1. req'[r] = [at |-> "enter", email |-> u]
    BY <1>7 DEF Go, IInv, Typed
  <2>2. QED
    BY <1>3, <1>8, <2>1, EntersTrue
<1>15. \A v \in Req : ReqTrue(v)' \/ (req'[v] = req[v] /\ HeldBy(v))
  BY <1>7, <1>10, <1>14, OneMoves
<1>16. QED
  BY <1>7, <1>9, <1>10, <1>11, <1>12, <1>13, <1>15, Preserved DEF Core

(* A challenge that was there before still has a code that names its address. *)
LEMMA ProofsStay ==
  ASSUME IInv, Typed', Steady, \A k \in Proof : proofs'[k] # None => proofs[k] # None
  PROVE  ProofsTrue'
<1>1. ASSUME NEW c, NEW e, Names(c, e) PROVE Names(c, e)'
  BY <1>1, NamesStay DEF IInv
<1>2. QED
  BY <1>1 DEF IInv, ProofsTrue, Steady

(* The account, the claim and the link of one transaction. *)
LEMMA AdmitKeeps ==
  ASSUME IInv, NEW r \in Req, NEW c, NEW e \in Email, NEW x \in Identities, NEW v \in BOOLEAN,
         c # None => Names(c, e), c # None \/ ~ inviteOnly,
         MayAdmit(c, e, x), Admit(c, e, x, v),
         Go(r, [at |-> "enter", email |-> e]),
         proofs' \in [Proof -> Challenges \union {None}],
         \A k \in Proof : proofs'[k] # None => proofs[k] # None,
         \A k \in Proof : proofs[k] # None =>
           /\ proofs'[k] # None
           /\ proofs'[k].code = proofs[k].code /\ proofs'[k].email = proofs[k].email,
         UNCHANGED <<inviteOnly, made, codes, session, states, unlinking>>
  PROVE  IInv'
<1> DEFINE Admits(row) ==
             /\ account' = [account EXCEPT ![e] = row]
             /\ owner' = [owner EXCEPT ![x] = e]
             /\ \/ row.invite = None /\ ~ inviteOnly /\ invites' = invites
                \/ \E i \in Invite : /\ Pending(i) /\ invites[i].email = e
                                     /\ row.invite = i /\ invites' = Accepted(i)
<1>1. PICK row \in Accounts : Admits(row)
  <2>1. CASE c = None /\ account' = [account EXCEPT ![e] = Account(FALSE, v, None)]
             /\ owner' = [owner EXCEPT ![x] = e] /\ UNCHANGED invites
    <3>1. Account(FALSE, v, None) \in Accounts /\ Account(FALSE, v, None).invite = None
      BY DEF Account, Accounts
    <3>2. QED
      BY <2>1, <3>1
  <2>2. ASSUME NEW i \in Invite, c # None, ClaimInvite(i, c),
               account' = [account EXCEPT ![e] = Account(FALSE, v, i)],
               owner' = [owner EXCEPT ![x] = e], invites' = Accepted(i)
        PROVE  \E row \in Accounts : Admits(row)
    <3>1. Account(FALSE, v, i) \in Accounts /\ Account(FALSE, v, i).invite = i
      BY DEF Account, Accounts
    <3>2. Pending(i) /\ invites[i].email = e
      BY <2>2 DEF ClaimInvite, Names
    <3>3. QED
      BY <2>2, <3>1, <3>2
  <2>3. QED
    BY <2>1, <2>2 DEF Admit
<1>2. account[e] = None /\ owner[x] = None
  BY DEF MayAdmit
<1>3. Typed' /\ Core' /\ Steady /\ LinksGrow
  BY <1>1, <1>2, Admitted DEF IInv, Typed, Go
<1>4. ReqTrue(r)'
  <2>1. req'[r] = [at |-> "enter", email |-> e]
    BY DEF Go, IInv, Typed
  <2>2. account'[e] # None
    BY <1>1 DEF IInv, Typed
  <2>3. QED
    BY <2>1, <2>2, EntersTrue
<1>5. \A w \in Req : ReqTrue(w)' \/ (req'[w] = req[w] /\ HeldBy(w))
  BY <1>3, <1>4, OneMoves
<1>6. ProofsTrue'
  BY <1>3, ProofsStay
<1>7. QED
  BY <1>3, <1>5, <1>6, Preserved

LEMMA RegisterOAuthKeeps ==
  ASSUME IInv, NEW r \in Req, RegisterOAuth(r)
  PROVE  IInv'
<1>1. PICK c, e, x, v : /\ c = req[r].code /\ e = req[r].email
                        /\ x = req[r].identity /\ v = req[r].verified
  OBVIOUS
<1>2. /\ e \in Email /\ x \in Identities /\ v \in BOOLEAN
      /\ c # None => Names(c, e)
      /\ c # None \/ ~ inviteOnly
  BY <1>1 DEF RegisterOAuth, At, IInv, ReqTrue
<1>3. CASE MayAdmit(c, e, x)
  <2>1. /\ Admit(c, e, x, v) /\ Go(r, [at |-> "enter", email |-> e])
        /\ UNCHANGED <<inviteOnly, made, codes, session, states, proofs, unlinking>>
    BY <1>1, <1>3 DEF RegisterOAuth
  <2>2. /\ proofs' \in [Proof -> Challenges \union {None}]
        /\ \A k \in Proof : proofs'[k] = proofs[k]
    BY <2>1 DEF IInv, Typed
  <2>3. QED
    BY <1>2, <1>3, <2>1, <2>2, AdmitKeeps
<1>4. CASE ~ MayAdmit(c, e, x)
  BY <1>1, <1>4, Refused DEF RegisterOAuth, shared
<1>5. QED
  BY <1>3, <1>4

LEMMA RedeemProofKeeps ==
  ASSUME IInv, NEW r \in Req, RedeemProof(r)
  PROVE  IInv'
<1>1. PICK k : k = req[r].proof
  OBVIOUS
<1>2. k \in Proof /\ proofs[k] \in Challenges
  BY <1>1 DEF RedeemProof, At, IInv, ReqTrue, Typed
<1>3. PICK c, e, x : c = proofs[k].code /\ e = proofs[k].email /\ x = proofs[k].identity
  OBVIOUS
<1>4. e \in Email /\ x \in Identities
  BY <1>2, <1>3 DEF Challenges
<1>5. c # None /\ Names(c, e)
  BY <1>2, <1>3 DEF IInv, ProofsTrue
<1>6. CASE Live(k) /\ MayAdmit(c, e, x)
  <2> DEFINE spent == [proofs[k] EXCEPT !.tries = 0]
  <2>1. /\ Admit(c, e, x, TRUE) /\ Go(r, [at |-> "enter", email |-> e])
        /\ proofs' = [proofs EXCEPT ![k] = spent]
        /\ UNCHANGED <<inviteOnly, made, codes, session, states, unlinking>>
    BY <1>1, <1>3, <1>6 DEF RedeemProof
  <2>2. spent \in Challenges
    BY <1>2 DEF Challenges
  <2>3. spent.code = proofs[k].code /\ spent.email = proofs[k].email
    BY <1>2 DEF Challenges
  <2> HIDE DEF spent
  <2>4. /\ proofs' \in [Proof -> Challenges \union {None}]
        /\ \A j \in Proof : proofs'[j] # None <=> proofs[j] # None
        /\ \A j \in Proof : proofs'[j].code = proofs[j].code /\ proofs'[j].email = proofs[j].email
    BY <1>2, <2>1, <2>2, <2>3 DEF IInv, Typed
  <2>5. QED
    BY <1>4, <1>5, <1>6, <2>1, <2>4, AdmitKeeps
<1>7. CASE ~ (Live(k) /\ MayAdmit(c, e, x))
  BY <1>1, <1>3, <1>7, Refused DEF RedeemProof, shared
<1>8. QED
  BY <1>6, <1>7

----------------------------------------------------------------------------
(* State tokens and challenges. *)

(* A token is added, or marks of one change. *)
LEMMA StatesMove ==
  ASSUME IInv, states' \in [State -> StateTokens \union {None}], StatesTrue',
         \A t \in State : states[t] # None =>
           states'[t] # None /\ states'[t].user = states[t].user,
         UNCHANGED <<inviteOnly, account, invites, made, codes, session, owner, proofs, unlinking>>,
         req' = [v \in Req |-> req'[v]],
         \A v \in Req : ReqTrue(v)' \/ req'[v] = req[v]
  PROVE  IInv'
<1>1. Typed'
  BY DEF IInv, Typed
<1>2. Steady /\ LinksGrow
  BY DEF Steady, LinksGrow, IInv, Typed
<1>3. Core'
  BY CoreSame DEF IInv
<1>4. \A v \in Req : HeldBy(v)
  BY <1>2, HeldWhenGrowing DEF IInv
<1>5. QED
  BY <1>1, <1>2, <1>3, <1>4, Preserved

LEMMA IssueStateKeeps ==
  ASSUME IInv, NEW token \in StateTokens, IssueState(token),
         token.user # None => account[token.user] # None,
         UNCHANGED <<inviteVars, owner, proofs, unlinking>>
  PROVE  IInv'
<1>1. PICK t \in State : states[t] = None /\ states' = [states EXCEPT ![t] = token]
  BY DEF IssueState
<1>2. \A u \in State : states'[u] = IF u = t THEN token ELSE states[u]
  BY <1>1 DEF IInv, Typed
<1>3. states' \in [State -> StateTokens \union {None}]
  BY <1>1 DEF IInv, Typed
<1>4. StatesTrue'
  BY <1>2 DEF IInv, StatesTrue, inviteVars
<1>5. QED
  BY <1>1, <1>2, <1>3, <1>4, StatesMove DEF IInv, Typed, inviteVars

LEMMA LeavingKeeps ==
  ASSUME IInv, NEW p \in Provider,
         \/ Initiate(p)
         \/ \E c \in Code : InitiateInvite(p, c)
         \/ \E s \in Session : InitiateLink(p, s)
  PROVE  IInv'
<1>1. \A c, e, s : StateToken(p, c, e, s).user = e
  BY DEF StateToken
<1>2. \A c \in Code \union {None}, e \in Email \union {None}, s \in Session \union {None} :
        StateToken(p, c, e, s) \in StateTokens
  BY DEF StateToken, StateTokens
<1>3. CASE Initiate(p)
  BY <1>1, <1>2, <1>3, IssueStateKeeps DEF Initiate
<1>4. CASE \E c \in Code : InitiateInvite(p, c)
  BY <1>1, <1>2, <1>4, IssueStateKeeps DEF InitiateInvite
<1>5. ASSUME NEW s \in Session, InitiateLink(p, s) PROVE IInv'
  <2>1. session[s] \in Email /\ account[session[s]] # None
    BY <1>5 DEF InitiateLink, IInv, SessionsTrue
  <2>2. QED
    BY <1>1, <1>2, <1>5, <2>1, IssueStateKeeps DEF InitiateLink
<1>6. QED
  BY <1>3, <1>4, <1>5

(* A mark on a token leaves whom it was issued for. *)
LEMMA TokenMarked ==
  ASSUME IInv, NEW t \in State, states[t] # None, NEW token \in StateTokens,
         states' = [states EXCEPT ![t] = token], token.user = states[t].user,
         UNCHANGED account
  PROVE  /\ states' \in [State -> StateTokens \union {None}]
         /\ StatesTrue'
         /\ \A u \in State : states[u] # None =>
              states'[u] # None /\ states'[u].user = states[u].user
<1>1. \A u \in State : /\ states'[u] # None <=> states[u] # None
                       /\ states'[u].user = states[u].user
  BY DEF IInv, Typed
<1>2. StatesTrue'
  BY <1>1 DEF IInv, StatesTrue
<1>3. QED
  BY <1>1, <1>2 DEF IInv, Typed

LEMMA StateLapsesKeeps ==
  ASSUME IInv, NEW t \in State, StateLapses(t)
  PROVE  IInv'
<1> DEFINE token == [states[t] EXCEPT !.lapsed = TRUE]
<1>1. states[t] # None /\ states[t] \in StateTokens
  BY DEF StateLapses, IInv, Typed
<1>2. token \in StateTokens
  BY <1>1 DEF StateTokens
<1>3. token.user = states[t].user
  BY <1>1 DEF StateTokens
<1>4. /\ states' = [states EXCEPT ![t] = token]
      /\ UNCHANGED <<inviteOnly, account, invites, made, codes, session, owner, proofs,
                     unlinking, req>>
  BY DEF StateLapses, inviteVars
<1> HIDE DEF token
<1>5. QED
  BY <1>1, <1>2, <1>3, <1>4, TokenMarked, StatesMove DEF IInv, Typed

LEMMA SpendStateKeeps ==
  ASSUME IInv, NEW r \in Req, SpendState(r)
  PROVE  IInv'
<1>1. PICK t : t = req[r].state
  OBVIOUS
<1>2. t \in State /\ states[t] # None /\ states[t] \in StateTokens
  BY <1>1 DEF SpendState, At, IInv, ReqTrue, Typed
<1>3. CASE Unspent(t)
  <2> DEFINE token == [states[t] EXCEPT !.used = TRUE]
  <2>1. token \in StateTokens
    BY <1>2 DEF StateTokens
  <2>2. token.user = states[t].user
    BY <1>2 DEF StateTokens
  <2>3. /\ states' = [states EXCEPT ![t] = token]
        /\ Go(r, [at |-> "exchange", state |-> t])
        /\ UNCHANGED <<inviteOnly, account, invites, made, codes, session, owner, proofs,
                       unlinking>>
    BY <1>1, <1>3 DEF SpendState
  <2> HIDE DEF token
  <2>4. ReqTrue(r)'
    <3>1. req'[r] = [at |-> "exchange", state |-> t]
      BY <2>3 DEF Go, IInv, Typed
    <3>2. states'[t] # None
      BY <1>2, <2>1, <2>2, <2>3, TokenMarked
    <3>3. QED
      BY <1>2, <3>1, <3>2 DEF ReqTrue
  <2>5. /\ req' = [v \in Req |-> req'[v]]
        /\ \A v \in Req : ReqTrue(v)' \/ req'[v] = req[v]
    BY <2>3, <2>4 DEF Go, IInv, Typed
  <2>6. QED
    BY <1>2, <2>1, <2>2, <2>3, <2>5, TokenMarked, StatesMove
<1>4. CASE ~ Unspent(t)
  BY <1>1, <1>4, Refused DEF SpendState, shared
<1>5. QED
  BY <1>3, <1>4

(* A challenge is added or changed; its code and its address stay. *)
LEMMA ProofsMove ==
  ASSUME IInv, proofs' \in [Proof -> Challenges \union {None}], ProofsTrue',
         \A k \in Proof : proofs[k] # None =>
           /\ proofs'[k] # None
           /\ proofs'[k].code = proofs[k].code /\ proofs'[k].email = proofs[k].email,
         UNCHANGED <<inviteOnly, account, invites, made, codes, session, owner, states, unlinking>>,
         req' = [v \in Req |-> req'[v]],
         \A v \in Req : ReqTrue(v)' \/ req'[v] = req[v]
  PROVE  IInv'
<1>1. Typed'
  BY DEF IInv, Typed
<1>2. Steady /\ LinksGrow
  BY DEF Steady, LinksGrow, IInv, Typed
<1>3. Core'
  BY CoreSame DEF IInv
<1>4. \A v \in Req : HeldBy(v)
  BY <1>2, HeldWhenGrowing DEF IInv
<1>5. QED
  BY <1>1, <1>2, <1>3, <1>4, Preserved

LEMMA WrongProofKeeps ==
  ASSUME IInv, NEW k \in Proof, WrongProof(k)
  PROVE  IInv'
<1> DEFINE left == [proofs[k] EXCEPT !.tries = @ - 1]
<1>1. proofs[k] \in Challenges /\ proofs[k].tries > 0
  BY DEF WrongProof, Live, IInv, Typed
<1>2. proofs[k].tries \in Nat /\ proofs[k].tries - 1 \in Nat
  BY <1>1 DEF Challenges
<1>3. left \in Challenges
  BY <1>1, <1>2 DEF Challenges
<1>4. left.code = proofs[k].code /\ left.email = proofs[k].email
  BY <1>1 DEF Challenges
<1>5. /\ proofs' = [proofs EXCEPT ![k] = left]
      /\ UNCHANGED <<inviteOnly, account, invites, made, codes, session, owner, states,
                     unlinking, req>>
  BY DEF WrongProof, inviteVars
<1> HIDE DEF left
<1>6. /\ proofs' \in [Proof -> Challenges \union {None}]
      /\ \A j \in Proof : proofs'[j] # None <=> proofs[j] # None
      /\ \A j \in Proof : proofs'[j].code = proofs[j].code /\ proofs'[j].email = proofs[j].email
  BY <1>1, <1>3, <1>4, <1>5 DEF IInv, Typed
<1>7. ProofsTrue'
  <2>1. \A c, e : Names(c, e)' <=> Names(c, e)
    BY <1>5 DEF Names, Exists
  <2>2. QED
    BY <1>6, <2>1 DEF IInv, ProofsTrue
<1>8. QED
  BY <1>5, <1>6, <1>7, ProofsMove DEF IInv, Typed

LEMMA PrepareInviteVerificationKeeps ==
  ASSUME IInv, NEW r \in Req, PrepareInviteVerification(r)
  PROVE  IInv'
<1>1. PICK c, e, x : c = req[r].code /\ e = req[r].email /\ x = req[r].identity
  OBVIOUS
<1>2. e \in Email /\ x \in Identities /\ c # None /\ Names(c, e)
  BY <1>1 DEF PrepareInviteVerification, At, IInv, ReqTrue
<1>3. /\ Finish(r)
      /\ UNCHANGED <<inviteOnly, account, invites, made, codes, session, owner, states, unlinking>>
  BY DEF PrepareInviteVerification
<1>4. CASE UNCHANGED proofs
  BY <1>3, <1>4, Refused DEF shared
<1> DEFINE new == [code |-> c, email |-> e, identity |-> x, tries |-> MaxTries]
<1>5. ASSUME NEW k \in Proof, proofs[k] = None, proofs' = [proofs EXCEPT ![k] = new]
      PROVE  IInv'
  <2>1. c \in Nat
    BY <1>2 DEF Names, IInv, Typed
  <2>2. new \in Challenges
    BY <1>2, <2>1 DEF Challenges
  <2>3. new.code = c /\ new.email = e
    OBVIOUS
  <2> HIDE DEF new
  <2>4. \A j \in Proof : proofs'[j] = IF j = k THEN new ELSE proofs[j]
    BY <1>5 DEF IInv, Typed
  <2>5. proofs' \in [Proof -> Challenges \union {None}]
    BY <1>5, <2>2 DEF IInv, Typed
  <2>6. ProofsTrue'
    <3>1. \A d, f : Names(d, f)' <=> Names(d, f)
      BY <1>3 DEF Names, Exists
    <3>2. QED
      BY <1>2, <2>3, <2>4, <3>1 DEF IInv, ProofsTrue
  <2>7. ReqTrue(r)'
    BY <1>3, IdleTrue DEF Finish, IInv, Typed
  <2>8. QED
    BY <1>3, <1>5, <2>4, <2>5, <2>6, <2>7, ProofsMove DEF Finish, IInv, Typed
<1>6. QED
  BY <1>1, <1>4, <1>5 DEF PrepareInviteVerification

----------------------------------------------------------------------------
(* Identities are linked and unlinked. *)

(* The account a token was issued for is there. *)
LEMMA FinalizeLinkKeeps ==
  ASSUME IInv, NEW r \in Req, FinalizeLink(r)
  PROVE  IInv'
<1>1. PICK t, x : t = req[r].state /\ x = req[r].identity
  OBVIOUS
<1>2. PICK u : u = states[t].user
  OBVIOUS
<1>3. t \in State /\ x \in Identities /\ u \in Email /\ account[u] # None
  BY <1>1, <1>2 DEF FinalizeLink, At, IInv, ReqTrue, StatesTrue, Typed, StateTokens
<1>4. /\ Finish(r)
      /\ UNCHANGED <<inviteOnly, account, invites, made, codes, session, states, proofs, unlinking>>
  BY DEF FinalizeLink
<1>5. CASE owner' = owner
  BY <1>4, <1>5, Refused DEF shared
<1>6. CASE owner[x] = None /\ owner' = [owner EXCEPT ![x] = u]
  <2>1. \A y \in Identities : owner'[y] = IF y = x THEN u ELSE owner[y]
    BY <1>6 DEF IInv, Typed
  <2>2. Typed'
    BY <1>3, <1>4, <1>6 DEF IInv, Typed, Finish
  <2>3. Steady
    BY <1>4 DEF Steady, IInv, Typed
  <2>4. LinksGrow
    BY <1>4, <1>6, <2>1 DEF LinksGrow
  <2>5. CodesTrue' /\ AdmissionsMade' /\ AdmissionsMatch'
    BY <1>4 DEF IInv, Core, CodesTrue, AdmissionsMade, AdmissionsMatch, Exists
  <2>6. OwnersExist'
    BY <1>3, <1>4, <2>1 DEF IInv, Core, OwnersExist
  <2>7. SignInMethodRemains'
    <3>1. None \notin Email
      OBVIOUS
    <3>2. \A e \in Email, y \in Identities : owner[y] = e => owner'[y] = e
      BY <1>6, <2>1, <3>1
    <3>3. QED
      BY <1>4, <3>2 DEF IInv, Core, SignInMethodRemains
  <2>8. ReqTrue(r)'
    BY <1>4, IdleTrue DEF Finish, IInv, Typed
  <2>9. \A v \in Req : ReqTrue(v)' \/ (req'[v] = req[v] /\ HeldBy(v))
    BY <1>4, <2>4, <2>8, OneMoves DEF Finish, Go
  <2>10. QED
    BY <1>4, <2>2, <2>3, <2>5, <2>6, <2>7, <2>9, Preserved DEF Core
<1>7. QED
  BY <1>1, <1>2, <1>5, <1>6 DEF FinalizeLink

LEMMA LockProvidersKeeps ==
  ASSUME IInv, NEW r \in Req, NEW e \in Email, NEW p \in Provider, LockProviders(r, e, p)
  PROVE  IInv'
<1>1. /\ unlinking[e] = None /\ unlinking' = [unlinking EXCEPT ![e] = r]
      /\ Go(r, [at |-> "unlink", email |-> e, provider |-> p])
      /\ UNCHANGED <<inviteOnly, account, invites, made, codes, session, owner, states, proofs>>
  BY DEF LockProviders, RowsFree, oauthVars
<1>2. account[e] # None
  BY DEF LockProviders, Linked, IInv, Core, OwnersExist
<1>3. Typed'
  BY <1>1 DEF IInv, Typed, Go
<1>4. Steady
  BY <1>1 DEF Steady, IInv, Typed
<1>5. LinksGrow
  BY <1>1 DEF LinksGrow, IInv, Typed
<1>6. Core'
  BY <1>1, CoreSame DEF IInv
<1>7. ReqTrue(r)'
  <2>1. req'[r] = [at |-> "unlink", email |-> e, provider |-> p]
    BY <1>1 DEF Go, IInv, Typed
  <2>2. unlinking'[e] = r /\ account'[e] # None
    BY <1>1, <1>2 DEF IInv, Typed
  <2>3. \/ account'[e].password
        \/ \E x \in Identities : owner'[x] = e /\ ProviderOf[x] # p
    BY <1>1 DEF LockProviders, RemainingMethod
  <2>4. QED
    BY <2>1, <2>2, <2>3 DEF ReqTrue, RemainingMethod
<1>8. \A v \in Req : ReqTrue(v)' \/ (req'[v] = req[v] /\ HeldBy(v))
  BY <1>1, <1>5, <1>7, OneMoves
<1>9. QED
  BY <1>1, <1>3, <1>4, <1>6, <1>8, Preserved

(* Only one request holds an account's rows, and it removes no others. *)
LEMMA UnlinkKeeps ==
  ASSUME IInv, NEW r \in Req, Unlink(r)
  PROVE  IInv'
<1>1. PICK e, p : e = req[r].email /\ p = req[r].provider
  OBVIOUS
<1>2. e \in Email /\ unlinking[e] = r /\ account[e] # None /\ RemainingMethod(e, p)
  BY <1>1 DEF Unlink, At, IInv, ReqTrue
<1>3. /\ owner' = [x \in Identities |->
                     IF owner[x] = e /\ ProviderOf[x] = p THEN None ELSE owner[x]]
      /\ unlinking' = [unlinking EXCEPT ![e] = None]
      /\ Finish(r)
      /\ UNCHANGED <<inviteOnly, account, invites, made, codes, session, states, proofs>>
  BY <1>1 DEF Unlink
<1>4. Typed'
  BY <1>3 DEF IInv, Typed, Finish
<1>5. Steady
  BY <1>3 DEF Steady, IInv, Typed
<1>6. CodesTrue' /\ AdmissionsMade' /\ AdmissionsMatch'
  BY <1>3 DEF IInv, Core, CodesTrue, AdmissionsMade, AdmissionsMatch, Exists
<1>7. OwnersExist'
  BY <1>3 DEF IInv, Core, OwnersExist
<1>8. SignInMethodRemains'
  <2> SUFFICES ASSUME NEW f \in Email, account[f] # None
               PROVE  account[f].password \/ \E x \in Identities : owner'[x] = f
    BY <1>3 DEF SignInMethodRemains
  <2>1. CASE f = e
    BY <1>2, <1>3, <2>1 DEF RemainingMethod
  <2>2. CASE f # e
    BY <1>3, <2>2 DEF IInv, Core, SignInMethodRemains
  <2>3. QED
    BY <2>1, <2>2
<1>9. ASSUME NEW v \in Req PROVE ReqTrue(v)' \/ (req'[v] = req[v] /\ HeldBy(v))
  <2>1. CASE v = r
    BY <1>3, <2>1, IdleTrue DEF Finish, IInv, Typed
  <2>2. CASE v # r
    <3>1. req'[v] = req[v]
      BY <1>3, <2>2 DEF Finish, IInv, Typed
    <3>2. ASSUME req[v].at = "unlink"
          PROVE  req[v].email \in Email /\ req[v].email # e
      BY <1>2, <2>2, <3>2 DEF IInv, ReqTrue
    <3>3. HeldBy(v)
      BY <1>3, <3>2 DEF HeldBy, IInv, Typed
    <3>4. QED
      BY <3>1, <3>3
  <2>3. QED
    BY <2>1, <2>2
<1>10. QED
  BY <1>3, <1>4, <1>5, <1>6, <1>7, <1>8, <1>9, Preserved DEF Core

----------------------------------------------------------------------------
(* The invariant. *)

LEMMA InitTrue == Init => IInv
<1> SUFFICES ASSUME Init PROVE IInv
  OBVIOUS
<1>1. /\ inviteOnly \in BOOLEAN
      /\ account = [e \in Email |-> None] /\ invites = [i \in Invite |-> None]
      /\ made = 0 /\ codes = 0
      /\ session = [s \in Session |-> None] /\ req = [r \in Req |-> Idle]
      /\ owner = [x \in Identities |-> None] /\ states = [t \in State |-> None]
      /\ proofs = [k \in Proof |-> None] /\ unlinking = [e \in Email |-> None]
  BY DEF Init, InviteInit
<1>2. Typed
  BY <1>1 DEF Typed
<1>3. CodesTrue /\ AdmissionsMade /\ OwnersExist /\ SignInMethodRemains
  BY <1>1 DEF CodesTrue, AdmissionsMade, OwnersExist, SignInMethodRemains, Exists
<1>4. AdmissionsMatch
  BY <1>1 DEF AdmissionsMatch, Exists
<1>5. SessionsTrue /\ StatesTrue /\ ProofsTrue
  BY <1>1 DEF SessionsTrue, StatesTrue, ProofsTrue
<1>6. ASSUME NEW r \in Req PROVE ReqTrue(r)
  BY <1>1 DEF ReqTrue, Idle
<1>7. QED
  BY <1>2, <1>3, <1>4, <1>5, <1>6 DEF IInv, Core

LEMMA StepKeeps == IInv /\ [Next]_vars => IInv'
<1> SUFFICES ASSUME IInv, [Next]_vars PROVE IInv'
  OBVIOUS
<1>1. CASE InviteNext /\ UNCHANGED oauthVars
  <2>1. ASSUME NEW r \in Req, Sending(r) PROVE IInv'
    BY <1>1, <2>1, InsertInviteKeeps, RotateCodeKeeps, MailInviteKeeps, CreateInviteKeeps,
       ResendInviteKeeps DEF Sending
  <2>2. ASSUME NEW r \in Req, Joining(r) PROVE IInv'
    BY <1>1, <2>2, CompleteInviteRegistrationKeeps, SignInKeeps, OpenInviteKeeps, RegisterKeeps
       DEF Joining
  <2>3. ASSUME Withdrawing PROVE IInv'
    BY <1>1, <2>3, RevokeInviteKeeps, HardDeleteInviteKeeps DEF Withdrawing
  <2>4. QED
    BY <1>1, <2>1, <2>2, <2>3, LapseKeeps, EndSessionKeeps, CreateUserKeeps
       DEF InviteNext
<1>2. CASE OAuthNext
  <2>1. ASSUME NEW r \in Req, Returning(r) PROVE IInv'
    BY <2>1, CallbackKeeps, SpendStateKeeps, ExchangeKeeps, FinalizeLinkKeeps, LoginKeeps,
       RegisterOAuthKeeps, CompleteOAuthLoginKeeps DEF Returning
  <2>2. ASSUME NEW r \in Req, Proving(r) PROVE IInv'
    BY <2>2, PrepareInviteVerificationKeeps, RedeemProofKeeps, VerifyInviteEmailKeeps DEF Proving
  <2>3. ASSUME NEW r \in Req, Unlinking(r) PROVE IInv'
    BY <2>3, UnlinkKeeps, LockProvidersKeeps DEF Unlinking
  <2>4. ASSUME Leaving PROVE IInv'
    BY <2>4, LeavingKeeps DEF Leaving
  <2>5. QED
    BY <1>2, <2>1, <2>2, <2>3, <2>4, StateLapsesKeeps, WrongProofKeeps DEF OAuthNext
<1>3. CASE UNCHANGED vars
  <2>1. UNCHANGED shared /\ UNCHANGED req
    BY <1>3 DEF vars, inviteVars, oauthVars, shared
  <2>2. Typed'
    BY <2>1 DEF IInv, Typed, shared
  <2>3. Steady /\ LinksGrow
    BY <2>1 DEF Steady, LinksGrow, IInv, Typed, shared
  <2>4. Core'
    BY <2>1, CoreSame DEF IInv, shared
  <2>5. QED
    BY <2>1, <2>2, <2>3, <2>4, Preserved, NoneMoves DEF shared
<1>4. QED
  BY <1>1, <1>2, <1>3 DEF Next

(* Accounts, invitations, links, state tokens and what requests carry of   *)
(* them stay what the invariant says, whatever runs between the steps.     *)
THEOREM Invariant == Spec => []IInv
<1>1. QED
  BY InitTrue, StepKeeps, PTL DEF Spec

(* An account and the invitation that admitted it tell the same story, and  *)
(* where invitations are required every account has one, whichever of the   *)
(* registrations created it and whatever was revoked, resent or deleted     *)
(* between its reading and its writing, unless an administrator entered it. *)
THEOREM AdmissionsAgree == Spec => []AdmissionsMatch
<1>1. IInv => AdmissionsMatch
  BY DEF IInv, Core
<1>2. QED
  BY <1>1, Invariant, PTL

(* No unlink, alone or beside others, takes an account's last way to sign   *)
(* in: the rows it counted on are locked until it commits.                  *)
THEOREM MethodRemains == Spec => []SignInMethodRemains
<1>1. IInv => SignInMethodRemains
  BY DEF IInv, Core
<1>2. QED
  BY <1>1, Invariant, PTL

----------------------------------------------------------------------------
(* What a step may never do. *)

(* A request that finishes or goes on to sign in is not where it was. *)
LEMMA Moved ==
  ASSUME IInv, NEW r \in Req, NEW next, Go(r, next), next.at # req[r].at
  PROVE  req'[r] # req[r]
<1>1. req'[r] = next
  BY DEF Go, IInv, Typed
<1>2. QED
  BY <1>1

(* What InvitationEndsOnce says of one invitation. *)
EndsOnce(i) ==
  Exists(i) /\ invites[i] # invites'[i] /\ invites'[i] # None =>
    /\ invites[i].status = "pending"
    /\ invites'[i].status = "accepted" =>
         /\ ~ invites[i].lapsed
         /\ \E r \in Req : /\ "code" \in DOMAIN req[r] /\ req[r].code = invites[i].code
                           /\ req'[r] # req[r]

LEMMA AcceptEndsOnce ==
  ASSUME IInv, NEW r \in Req, NEW i \in Invite, ClaimInvite(i, req[r].code),
         "code" \in DOMAIN req[r], invites' = Accepted(i), req'[r] # req[r],
         NEW j \in Invite
  PROVE  EndsOnce(j)
BY DEF IInv, Typed, ClaimInvite, Pending, Accepted, EndsOnce

LEMMA AdmitEndsOnce ==
  ASSUME IInv, NEW r \in Req, "code" \in DOMAIN req[r], req'[r] # req[r],
         NEW e, NEW x, NEW v, Admit(req[r].code, e, x, v), NEW j \in Invite
  PROVE  EndsOnce(j)
<1>1. CASE UNCHANGED invites
  BY <1>1 DEF EndsOnce
<1>2. ASSUME NEW i \in Invite, ClaimInvite(i, req[r].code), invites' = Accepted(i)
      PROVE  EndsOnce(j)
  BY <1>2, AcceptEndsOnce
<1>3. QED
  BY <1>1, <1>2 DEF Admit

LEMMA InviteStepEndsOnce ==
  ASSUME IInv, InviteNext, NEW j \in Invite
  PROVE  EndsOnce(j)
<1>1. ASSUME NEW r \in Req, InsertInvite(r) PROVE EndsOnce(j)
  BY <1>1 DEF InsertInvite, IInv, Typed, Core, CodesTrue, EndsOnce
<1>2. ASSUME NEW r \in Req, RotateCode(r) PROVE EndsOnce(j)
  <2>1. CASE UNCHANGED invites
    BY <2>1 DEF EndsOnce
  <2>2. CASE /\ MayRotate(req[r].invite, req[r].code)
             /\ invites' = [invites EXCEPT ![req[r].invite] = NewInvite(@.email, codes + 1)]
    BY <2>2 DEF MayRotate, NewInvite, EndsOnce, IInv, Typed
  <2>3. QED
    BY <1>2, <2>1, <2>2 DEF RotateCode
<1>3. ASSUME NEW r \in Req, CompleteInviteRegistration(r) PROVE EndsOnce(j)
  <2>1. CASE UNCHANGED invites
    BY <2>1 DEF EndsOnce
  <2>2. CASE /\ ClaimInvite(req[r].invite, req[r].code) /\ invites' = Accepted(req[r].invite)
             /\ Go(r, [at |-> "signin", email |-> req[r].email])
    <3>1. /\ req[r].at = "redeem" /\ "code" \in DOMAIN req[r] /\ req[r].invite \in Invite
      BY <1>3 DEF CompleteInviteRegistration, At, IInv, ReqTrue
    <3>2. req'[r] # req[r]
      BY <2>2, <3>1, Moved
    <3>3. QED
      BY <2>2, <3>1, <3>2, AcceptEndsOnce
  <2>3. QED
    BY <1>3, <2>1, <2>2 DEF CompleteInviteRegistration
<1>4. ASSUME NEW i \in Invite, RevokeInvite(i) \/ HardDeleteInvite(i) \/ Lapse(i)
      PROVE  EndsOnce(j)
  <2>1. CASE RevokeInvite(i)
    <3>1. invites[i].status = "pending" /\ [invites[i] EXCEPT !.status = "revoked"].status # "accepted"
      BY <2>1 DEF RevokeInvite, IInv, Typed, InviteRows, Exists
    <3>2. invites'[j] = IF j = i THEN [invites[i] EXCEPT !.status = "revoked"] ELSE invites[j]
      BY <2>1 DEF RevokeInvite, IInv, Typed
    <3>3. QED
      BY <3>1, <3>2 DEF EndsOnce
  <2>2. CASE HardDeleteInvite(i)
    BY <2>2 DEF HardDeleteInvite, IInv, Typed, EndsOnce
  <2>3. CASE Lapse(i)
    <3>1. invites[i].status = "pending" /\ [invites[i] EXCEPT !.lapsed = TRUE].status # "accepted"
      BY <2>3 DEF Lapse, Pending, IInv, Typed, InviteRows, Exists
    <3>2. invites'[j] = IF j = i THEN [invites[i] EXCEPT !.lapsed = TRUE] ELSE invites[j]
      BY <2>3 DEF Lapse, IInv, Typed
    <3>3. QED
      BY <3>1, <3>2 DEF EndsOnce
  <2>4. QED
    BY <1>4, <2>1, <2>2, <2>3
<1>5. CASE UNCHANGED invites
  BY <1>5 DEF EndsOnce
<1>6. QED
  BY <1>1, <1>2, <1>3, <1>4, <1>5
     DEF InviteNext, Sending, Joining, Withdrawing, MailInvite, CreateInvite, ResendInvite,
         SignIn, OpenInvite, Register, EndSession, CreateUser

LEMMA OAuthStepEndsOnce ==
  ASSUME IInv, OAuthNext, NEW j \in Invite
  PROVE  EndsOnce(j)
<1>1. CASE UNCHANGED invites
  BY <1>1 DEF EndsOnce
<1>2. ASSUME NEW r \in Req, RegisterOAuth(r), ~ UNCHANGED invites PROVE EndsOnce(j)
  <2>1. /\ Admit(req[r].code, req[r].email, req[r].identity, req[r].verified)
        /\ Go(r, [at |-> "enter", email |-> req[r].email])
    BY <1>2 DEF RegisterOAuth
  <2>2. req[r].at = "register" /\ "code" \in DOMAIN req[r]
    BY <1>2 DEF RegisterOAuth, At, IInv, ReqTrue
  <2>3. req'[r] # req[r]
    BY <2>1, <2>2, Moved
  <2>4. QED
    BY <2>1, <2>2, <2>3, AdmitEndsOnce
<1>3. ASSUME NEW r \in Req, RedeemProof(r), ~ UNCHANGED invites PROVE EndsOnce(j)
  <2>1. PICK k : k = req[r].proof
    OBVIOUS
  <2>2. /\ Admit(proofs[k].code, proofs[k].email, proofs[k].identity, TRUE)
        /\ Go(r, [at |-> "enter", email |-> proofs[k].email])
    BY <1>3, <2>1 DEF RedeemProof
  <2>3. req[r].at = "prove" /\ "code" \in DOMAIN req[r] /\ req[r].code = proofs[k].code
    BY <1>3, <2>1 DEF RedeemProof, At, IInv, ReqTrue
  <2>4. req'[r] # req[r]
    BY <2>2, <2>3, Moved
  <2>5. QED
    BY <2>2, <2>3, <2>4, AdmitEndsOnce
<1>4. QED
  BY <1>1, <1>2, <1>3
     DEF OAuthNext, Returning, Proving, Unlinking, Leaving, Callback, SpendState, Exchange,
         FinalizeLink, Login, CompleteOAuthLogin, PrepareInviteVerification, VerifyInviteEmail,
         Unlink, LockProviders, Initiate, InitiateInvite, InitiateLink, StateLapses, WrongProof,
         inviteVars

(* An invitation that was accepted or revoked stays so, and it is accepted  *)
(* within its life and with the code it holds at that moment, whether the   *)
(* invited person registers with a password, an identity or a mailed proof. *)
THEOREM InvitationsEndOnce == Spec => InvitationEndsOnce
<1>1. ASSUME IInv, [Next]_vars
      PROVE  [\A i \in Invite : EndsOnce(i)]_inviteVars
  BY <1>1, InviteStepEndsOnce, OAuthStepEndsOnce DEF Next, vars
<1>2. QED
  BY <1>1, Invariant, PTL DEF Spec, InvitationEndsOnce, EndsOnce

(* An identity comes to an existing account only from the session that      *)
(* asked for the link, alive when the link is written.                      *)
THEOREM LinksAreAsked == Spec => LinkNeedsItsSession
<1> DEFINE Asked == \A x \in Identities :
             owner[x] = None /\ owner'[x] # None /\ account[owner'[x]] # None =>
               \E r \in Req : /\ At(r, "link") /\ req[r].identity = x /\ req'[r] # req[r]
                              /\ states[req[r].state].user = owner'[x]
                              /\ session[states[req[r].state].session] = owner'[x]
<1>1. ASSUME IInv, [Next]_vars
      PROVE  [Asked]_vars
  <2>1. CASE UNCHANGED owner
    BY <2>1
  <2>2. ASSUME NEW r \in Req, FinalizeLink(r) PROVE Asked
    <3>1. Go(r, Idle) /\ req[r].at = "link"
      BY <2>2 DEF FinalizeLink, Finish, Go, At
    <3>2. Idle.at # req[r].at
      BY <3>1 DEF Idle
    <3>3. req'[r] # req[r]
      BY <1>1, <3>1, <3>2, Moved
    <3>4. QED
      BY <1>1, <2>2, <3>3 DEF FinalizeLink, AliveNow, IInv, Typed
  <2>3. ASSUME NEW r \in Req, NEW c, NEW e, NEW x, NEW v, MayAdmit(c, e, x), Admit(c, e, x, v)
        PROVE  Asked
    <3>1. owner' = [owner EXCEPT ![x] = e] /\ account[e] = None
      BY <2>3 DEF Admit, MayAdmit
    <3>2. QED
      BY <1>1, <3>1 DEF IInv, Typed
  <2>4. ASSUME NEW r \in Req, RegisterOAuth(r) \/ RedeemProof(r) PROVE Asked
    BY <2>1, <2>3, <2>4 DEF RegisterOAuth, RedeemProof
  <2>5. ASSUME NEW r \in Req, Unlink(r) PROVE Asked
    BY <1>1, <2>5 DEF Unlink, IInv, Typed
  <2>6. CASE InviteNext /\ UNCHANGED oauthVars
    BY <2>1, <2>6 DEF oauthVars
  <2>7. CASE OAuthNext
    <3> HIDE DEF Asked
    <3>1. QED
      BY <2>1, <2>2, <2>4, <2>5, <2>7
         DEF OAuthNext, Returning, Proving, Unlinking, Leaving, Callback, SpendState, Exchange,
             Login, CompleteOAuthLogin, PrepareInviteVerification, VerifyInviteEmail,
             LockProviders, Initiate, InitiateInvite, InitiateLink, StateLapses, WrongProof,
             oauthVars
  <2>8. QED
    BY <1>1, <2>6, <2>7 DEF Next
<1>2. QED
  BY <1>1, Invariant, PTL DEF Spec, LinkNeedsItsSession
=============================================================================
