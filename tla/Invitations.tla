---------------------------- MODULE Invitations ----------------------------
(***************************************************************************)
(* Platform invitations and the accounts they create                       *)
(* (internal/service/invite.go, internal/sqlstore/invite_*.go, and         *)
(* registration with a password in internal/service/auth.go).              *)
(*                                                                         *)
(* An invitation is a row that names an address and holds the hash of one  *)
(* code.  The code leaves the server in a mail, sent after the row has     *)
(* been committed, so a mail may be lost while its row stays.  Every       *)
(* request reads the row first and writes it later; between the two the    *)
(* invitation may be accepted, revoked, resent with a new code, deleted,   *)
(* or lapse.  What decides is the condition of the writing statement.      *)
(*                                                                         *)
(* An account is known by its address: the table holds one row per         *)
(* address, and no action here deletes a row of it.                        *)
(***************************************************************************)
EXTENDS Naturals, FiniteSets

CONSTANTS Email,        \* addresses
          Session,      \* sessions that may be created
          Req,          \* requests that run at the same time
          Bounds,       \* how much may be created in a behaviour, one bound per kind
          Admin,        \* stands where an account has no invitation but an administrator
          None

ASSUME BoundsAssumption ==
  Bounds \subseteq [invites : Nat, codes : Nat, states : Nat, proofs : Nat] /\ IsFiniteSet(Bounds)

(* The largest bound on a kind gives its ids; a behaviour keeps to one      *)
(* element of Bounds throughout.                                            *)
UpTo(kind) == 1 .. CHOOSE n \in {b[kind] : b \in Bounds} : \A b \in Bounds : b[kind] <= n

Invite == UpTo("invites")
Code == UpTo("codes")

VARIABLES
  bounds,      \* the bounds of this behaviour
  inviteOnly,  \* the deployment's InviteOnly setting
  account,     \* the account of an address, or None
  invites,     \* invitation rows; None before creation and after deletion
  made,        \* invitations created so far: ids, and their order of creation
  codes,       \* codes generated so far
  mailed,      \* codes that reached the inbox they were sent to
  session,     \* the address a session belongs to, or None, or "ended"
  req          \* what each request has read and is about to do

inviteVars == <<bounds, inviteOnly, account, invites, made, codes, mailed, session, req>>

Idle == [at |-> "idle"]

(* An account as far as it matters here: whether it has a password, whether *)
(* its address counts as verified, and what admitted it: an invitation,     *)
(* an administrator, or None where anybody may register.                    *)
Account(password, verified, i) == [password |-> password, verified |-> verified, invite |-> i]

NewInvite(e, c) == [email |-> e, code |-> c, status |-> "pending", lapsed |-> FALSE]

(* The rows. *)
Accounts == [password : BOOLEAN, verified : BOOLEAN, invite : Invite \union {Admin, None}]
InviteRows ==
  [email : Email, code : Nat, status : {"pending", "accepted", "revoked"}, lapsed : BOOLEAN]

ASSUME NoneIsNothing ==
  /\ Admin \notin Invite \union {None}
  /\ None \notin Invite \union Email \union Req /\ "ended" \notin Email
  /\ None \notin Accounts /\ None \notin InviteRows

Exists(i) == invites[i] # None

Pending(i) == Exists(i) /\ invites[i].status = "pending" /\ ~ invites[i].lapsed

(* The invitation a code opens, as GetByCode finds it. *)
WithCode(c) == {i \in Invite : Exists(i) /\ invites[i].code = c}

(* GetByEmail returns the invitation created last. *)
LiveNewest(e) ==
  \E i \in Invite : /\ Exists(i) /\ invites[i].email = e
                    /\ \A j \in Invite : Exists(j) /\ invites[j].email = e => j <= i
                    /\ Pending(i)

At(r, where) == req[r].at = where
Finish(r) == req' = [req EXCEPT ![r] = Idle]
Go(r, next) == req' = [req EXCEPT ![r] = next]

InviteInit ==
  /\ bounds \in Bounds
  /\ inviteOnly \in BOOLEAN
  /\ account = [e \in Email |-> None]
  /\ invites = [i \in Invite |-> None]
  /\ made = 0 /\ codes = 0 /\ mailed = {}
  /\ session = [s \in Session |-> None]
  /\ req = [r \in Req |-> Idle]

----------------------------------------------------------------------------
(* An administrator creates and sends an invitation.                         *)

(* The address has no account and its newest invitation is not live.        *)
CreateInvite(r, e) ==
  /\ At(r, "idle") /\ made < bounds.invites
  /\ account[e] = None
  /\ ~ LiveNewest(e)
  /\ Go(r, [at |-> "insert", email |-> e])
  /\ UNCHANGED <<bounds, inviteOnly, account, invites, made, codes, mailed, session>>

(* The row is inserted with no condition: what was read may be stale.       *)
InsertInvite(r) ==
  /\ At(r, "insert") /\ made < bounds.invites /\ codes < bounds.codes
  /\ invites' = [invites EXCEPT ![made + 1] = NewInvite(req[r].email, codes + 1)]
  /\ made' = made + 1
  /\ codes' = codes + 1
  /\ Go(r, [at |-> "mail", code |-> codes + 1])
  /\ UNCHANGED <<bounds, inviteOnly, account, mailed, session>>

(* A resend reads the row, *)
ResendInvite(r, i) ==
  /\ At(r, "idle")
  /\ Exists(i) /\ invites[i].status = "pending"
  /\ Go(r, [at |-> "rotate", invite |-> i, code |-> invites[i].code])
  /\ UNCHANGED <<bounds, inviteOnly, account, invites, made, codes, mailed, session>>

(* Slip: the new code is written without asking what became of the row. *)
RotateAnyway(i, c) == Exists(i)

(* The row still holds the code that was read and may still be accepted.    *)
MayRotate(i, c) == Exists(i) /\ invites[i].code = c /\ invites[i].status = "pending"

(* and replaces its code and lifetime if nothing happened in between.       *)
RotateCode(r) ==
  /\ At(r, "rotate") /\ codes < bounds.codes
  /\ LET i == req[r].invite
     IN IF MayRotate(i, req[r].code)
          THEN /\ invites' = [invites EXCEPT ![i] = NewInvite(@.email, codes + 1)]
               /\ codes' = codes + 1
               /\ Go(r, [at |-> "mail", code |-> codes + 1])
          ELSE Finish(r) /\ UNCHANGED <<invites, codes>>
  /\ UNCHANGED <<bounds, inviteOnly, account, made, mailed, session>>

(* The mail is sent after the commit; when it fails the row stays.          *)
MailInvite(r) ==
  /\ At(r, "mail")
  /\ mailed' \in {mailed, mailed \union {req[r].code}}
  /\ Finish(r)
  /\ UNCHANGED <<bounds, inviteOnly, account, invites, made, codes, session>>

(* A revocation changes a row only while it is pending, in the statement    *)
(* itself; what was read before only words the answer.                      *)
RevokeInvite(i) ==
  /\ Exists(i) /\ invites[i].status = "pending"
  /\ invites' = [invites EXCEPT ![i].status = "revoked"]
  /\ UNCHANGED <<bounds, inviteOnly, account, made, codes, mailed, session, req>>

HardDeleteInvite(i) ==
  /\ Exists(i)
  /\ invites' = [invites EXCEPT ![i] = None]
  /\ UNCHANGED <<bounds, inviteOnly, account, made, codes, mailed, session, req>>

(* The lifetime of an invitation ends; nothing is written.                  *)
Lapse(i) ==
  /\ Pending(i)
  /\ invites' = [invites EXCEPT ![i].lapsed = TRUE]
  /\ UNCHANGED <<bounds, inviteOnly, account, made, codes, mailed, session, req>>

----------------------------------------------------------------------------
(* The invited person registers with a password.                            *)

(* The code was mailed to the address and its invitation is pending.        *)
OpenInvite(r, c) ==
  /\ At(r, "idle") /\ c \in mailed
  /\ \E i \in WithCode(c) : /\ Pending(i)
                            /\ Go(r, [at |-> "redeem", invite |-> i, code |-> c,
                                      email |-> invites[i].email])
  /\ UNCHANGED <<bounds, inviteOnly, account, invites, made, codes, mailed, session>>

(* ClaimInvite: the code is still the row's, pending and within its life.   *)
ClaimInvite(i, c) == Exists(i) /\ invites[i].code = c /\ Pending(i)

Accepted(i) == [invites EXCEPT ![i].status = "accepted"]

(* The claim and the new account commit together or not at all; the address *)
(* that won its unique row elsewhere refuses the account, and so the claim. *)
CompleteInviteRegistration(r) ==
  /\ At(r, "redeem")
  /\ LET i == req[r].invite  e == req[r].email
     IN IF ClaimInvite(i, req[r].code) /\ account[e] = None
          THEN /\ account' = [account EXCEPT ![e] = Account(TRUE, TRUE, i)]
               /\ invites' = Accepted(i)
               /\ Go(r, [at |-> "signin", email |-> e])
          ELSE Finish(r) /\ UNCHANGED <<account, invites>>
  /\ UNCHANGED <<bounds, inviteOnly, made, codes, mailed, session>>

(* The session is created in a transaction of its own; it is refused, and   *)
(* the account stays, when a second factor is asked for first.              *)
SignIn(r) ==
  /\ At(r, "signin")
  /\ \/ UNCHANGED session
     \/ \E s \in Session : session[s] = None /\ session' = [session EXCEPT ![s] = req[r].email]
  /\ Finish(r)
  /\ UNCHANGED <<bounds, inviteOnly, account, invites, made, codes, mailed>>

(* Slip: the invitation-only setting is not consulted. *)
OpenToAll == TRUE

(* Anyone may register where invitations are not required. *)
RegistrationOpen == ~ inviteOnly

(* Registration with a password: the address is unproved until it is        *)
(* verified, and two requests for one address meet at its unique row.       *)
Register(r, e) ==
  /\ At(r, "idle") /\ RegistrationOpen
  /\ account[e] = None
  /\ account' = [account EXCEPT ![e] = Account(TRUE, FALSE, None)]
  /\ Go(r, [at |-> "signin", email |-> e])
  /\ UNCHANGED <<bounds, inviteOnly, invites, made, codes, mailed, session>>

(* An administrator enters an account by hand, with a password and verified *)
(* at once, and so does the command that seeds the first administrator:     *)
(* neither asks whether invitations are required, and a pending invitation  *)
(* for the address stays as it is.                                          *)
CreateUser(e) ==
  /\ account[e] = None
  /\ account' = [account EXCEPT ![e] = Account(TRUE, TRUE, Admin)]
  /\ UNCHANGED <<bounds, inviteOnly, invites, made, codes, mailed, session, req>>

(* A session is logged out, revoked or ended by a change of credentials. *)
EndSession(s) ==
  /\ session[s] \in Email
  /\ session' = [session EXCEPT ![s] = "ended"]
  /\ UNCHANGED <<bounds, inviteOnly, account, invites, made, codes, mailed, req>>

(* Invitations sent and resent: a bulk request fans out into such requests, *)
(* eight at a time, that read and write in any order.                       *)
Sending(r) ==
  \/ InsertInvite(r) \/ RotateCode(r) \/ MailInvite(r)
  \/ \E e \in Email : CreateInvite(r, e)
  \/ \E i \in Invite : ResendInvite(r, i)

(* Invitations revoked and deleted: a bulk request does so one by one, each *)
(* in a transaction of its own.                                             *)
Withdrawing == \E i \in Invite : RevokeInvite(i) \/ HardDeleteInvite(i)

(* The invited person, or a visitor who registers. *)
Joining(r) ==
  \/ CompleteInviteRegistration(r) \/ SignIn(r)
  \/ \E c \in Code : OpenInvite(r, c)
  \/ \E e \in Email : Register(r, e)

(* What a request to the handlers may ask for, and what time may do. *)
InviteNext ==
  \/ \E r \in Req : Sending(r) \/ Joining(r)
  \/ Withdrawing
  \/ \E i \in Invite : Lapse(i)
  \/ \E s \in Session : EndSession(s)
  \/ \E e \in Email : CreateUser(e)

----------------------------------------------------------------------------
(* An invitation and the account it admitted tell the same story: an        *)
(* account names the invitation that was accepted for its address, and an   *)
(* accepted invitation has its account.  Where invitations are required,    *)
(* every account has one, whichever registration created it, unless an      *)
(* administrator or the seed command did: nobody admits himself.            *)
AdmissionsMatch ==
  /\ inviteOnly => \A e \in Email : account[e] # None => account[e].invite \in Invite \union {Admin}
  /\ \A e \in Email : account[e] # None /\ account[e].invite \in Invite =>
       \/ ~ Exists(account[e].invite)
       \/ /\ invites[account[e].invite].status = "accepted"
          /\ invites[account[e].invite].email = e
  /\ \A i \in Invite : Exists(i) /\ invites[i].status = "accepted" =>
       account[invites[i].email] # None /\ account[invites[i].email].invite = i

(* What is over stays over: an accepted or revoked invitation never changes *)
(* again, and it is accepted only within its life and with the code it      *)
(* holds then, never with one that a resend has replaced.                   *)
InvitationEndsOnce ==
  [][\A i \in Invite : Exists(i) /\ invites[i] # invites'[i] /\ invites'[i] # None =>
       /\ invites[i].status = "pending"
       /\ invites'[i].status = "accepted" =>
            /\ ~ invites[i].lapsed
            /\ \E r \in Req : /\ "code" \in DOMAIN req[r] /\ req[r].code = invites[i].code
                              /\ req'[r] # req[r]]_inviteVars

=============================================================================
