---------------------------- MODULE EmailChange ----------------------------
(***************************************************************************)
(* Changing an account's address (internal/service/email.go,               *)
(* internal/sqlstore/email_change.go) and verifying the one it has, by a    *)
(* mailed code (internal/service/verification.go), by the code that sets a *)
(* first password (internal/service/password.go), or on the word of a      *)
(* provider (internal/service/oauth.go).                                   *)
(*                                                                         *)
(* A change is a row of the account, replaced by the next request: it      *)
(* holds one code for the current mailbox and one for the new mailbox, and *)
(* both must come back through the session that asked, while the account   *)
(* is still what it was.  A transaction locks the user, then the session,  *)
(* then the row, and writes the whole row back; the mails leave after the  *)
(* commit, and a mail that fails withdraws the version it belonged to.     *)
(*                                                                         *)
(* One account is modelled, from the moment it was created; the addresses  *)
(* of all other accounts are a set.                                        *)
(***************************************************************************)
EXTENDS Naturals, FiniteSets

CONSTANTS Email, Home,   \* addresses, and the account's first one
          Session,       \* sessions of the account
          Req,           \* requests that run at the same time
          Limits,        \* how a behaviour begins and what it is limited to
          None

ASSUME EmailBounds ==
  /\ Home \in Email
  /\ Limits \subseteq [attempts : Nat \ {0}, resends : Nat, starts : Nat,
                       verifies : Nat, passwords : Nat,
                       verified : BOOLEAN, password : {0, 1}]

Box == {"current", "new"}

(* Codes are fresh: one is told from all others by what it was made for,    *)
(* the n-th code of a request for one mailbox, or the n-th verification.    *)
NoCode == <<>>
ChangeCode(i, b, n) == <<i, b, n>>
VerifyCode(n) == <<n>>
Codes == {NoCode} \union (Nat \X Box \X Nat)

(* What a request is bound to: the password, 0 for none, and whether the    *)
(* address counts as verified.  Both change it.                             *)
Identity == [password : Nat, verified : BOOLEAN]
identity(u) == [password |-> u.password, verified |-> u.verified]

(* The row: the addresses, the two codes, the credential state they are     *)
(* bound to, and the counters.                                              *)
EmailChangeRequest ==
  [id : Nat \ {0}, starts : Nat \ {0}, session : Session,
   email : [current : Email, new : Email], code : [Box -> Codes], resends : [Box -> Nat],
   attempts : Nat, identity : Identity, compared : Identity,
   status : {"pending", "cancelled", "used"}]

ASSUME NoneIsNothing == None \notin Req \union Identity \union EmailChangeRequest

VARIABLES
  limit,     \* the limits: wrong guesses a request survives (5), resends to each mailbox (3),
             \* requests in a budget window (3), how often codes are sent and passwords change,
             \* and whether the account begins verified and with a password
  user,      \* the account: address, whether it is verified, generation of its password
  others,    \* addresses other accounts hold
  session,   \* the account's live sessions
  change,    \* the account's email change row, or None
  overdue,   \* requests whose lifetime has ended
  tokens,    \* unused codes of the account, with what they are for and the address they name
  verifies,  \* such codes generated so far
  mailbox,   \* pairs of an address and a code delivered to it
  lock,      \* the request whose transaction holds the account's rows, or None
  req,       \* what each request has read and is about to do
  guesses,   \* wrong guesses committed for each request id (history)
  proved,    \* addresses whose mailed code came back (history)
  vouched    \* addresses somebody else answers for: a provider, or who created the account (history)

vars == <<limit, user, others, session, change, overdue, tokens, verifies, mailbox, lock, req,
          guesses, proved, vouched>>

Idle == [at |-> "idle"]
At(r, where) == req[r].at = where
Go(r, next) == req' = [req EXCEPT ![r] = next]
Finish(r) == Go(r, Idle)

(* An account registers unverified, or begins verified: an administrator or *)
(* the seed command entered it, its invitation was mailed to the address,   *)
(* or the provider it came from vouched for it, and then it has no password.*)
Init ==
  /\ limit \in Limits
  /\ user = [email |-> Home, verified |-> limit.verified, password |-> limit.password]
  /\ vouched = IF limit.verified THEN {Home} ELSE {}
  /\ others = {}
  /\ session = Session
  /\ change = None /\ overdue = {}
  /\ tokens = {}
  /\ verifies = 0 /\ mailbox = {}
  /\ lock = None
  /\ req = [r \in Req |-> Idle]
  /\ guesses = [i \in 1 .. limit.starts |-> 0]
  /\ proved = {}

----------------------------------------------------------------------------
(* Asking.                                                                  *)

Asked(op, s) ==
  [at |-> "wait", op |-> op, session |-> s, id |-> 0, email |-> None, expected |-> None,
   current |-> NoCode, new |-> NoCode, row |-> None]

(* A request compares the password, if there is one, with the account read  *)
(* outside any transaction; what was compared goes with it.                 *)
RequestEmailChange(r, s, e) ==
  /\ At(r, "idle") /\ s \in session
  /\ Go(r, [Asked("request", s) EXCEPT !.email = e, !.expected = identity(user)])
  /\ UNCHANGED <<limit, user, others, session, change, tokens, verifies, mailbox, lock, guesses,
                 proved, overdue, vouched>>

(* The other operations name the request they mean. *)
AskAbout(r, s, op) ==
  /\ At(r, "idle") /\ s \in session /\ change # None
  /\ Go(r, [Asked(op, s) EXCEPT !.id = change.id])
  /\ UNCHANGED <<limit, user, others, session, change, tokens, verifies, mailbox, lock, guesses,
                 proved, overdue, vouched>>

(* What a confirmation may bring for a mailbox: the code that is there, or  *)
(* a wrong one.  A code a resend has replaced is as wrong as any other.     *)
Answers(b) ==
  {NoCode} \union
    (IF change = None THEN {} ELSE {c \in {change.code[b]} : <<change.email[b], c>> \in mailbox})

ConfirmEmailChange(r, s, c, d) ==
  /\ At(r, "idle") /\ s \in session /\ change # None
  /\ Go(r, [Asked("confirm", s) EXCEPT !.id = change.id, !.current = c, !.new = d])
  /\ UNCHANGED <<limit, user, others, session, change, tokens, verifies, mailbox, lock, guesses,
                 proved, overdue, vouched>>

(* Slip: the rows are read without being locked. *)
NoLock == TRUE

(* GetByIDForUpdate and Load wait for the transaction that has the rows.    *)
LockFree == lock = None

(* The transaction begins: the user is locked, the session must still be    *)
(* alive, and the row is read.                                              *)
Enter(r) ==
  /\ At(r, "wait") /\ LockFree
  /\ IF req[r].session \in session
       THEN lock' = r /\ Go(r, [req[r] EXCEPT !.at = req[r].op, !.row = change])
       ELSE UNCHANGED lock /\ Finish(r)
  /\ UNCHANGED <<limit, user, others, session, change, tokens, verifies, mailbox, guesses, proved,
                 overdue, vouched>>

----------------------------------------------------------------------------
(* The four transactions.                                                   *)

(* Slip: the password compared before may be an old one by now. *)
SameAsLocked(q) == TRUE

(* The account is still the one whose password was compared.                *)
SameAsRead(q) == identity(user) = q.expected

Starts == IF change = None THEN 0 ELSE change.starts

(* A new row replaces the old one and keeps its budget; ids count the       *)
(* requests, which all fall into one budget window.                         *)
NewRow(q) ==
  [id |-> Starts + 1, starts |-> Starts + 1, session |-> q.session,
   email |-> [current |-> user.email, new |-> q.email],
   code |-> [b \in Box |-> ChangeCode(Starts + 1, b, 0)],
   resends |-> [b \in Box |-> 0], attempts |-> 0,
   identity |-> identity(user), compared |-> q.expected, status |-> "pending"]

Request(r) ==
  /\ At(r, "request")
  /\ lock' = None
  /\ LET q == req[r]
     IN IF SameAsRead(q) /\ q.email # user.email /\ Starts < limit.starts
          THEN /\ change' = NewRow(q)
               /\ Go(r, [at |-> "deliver", row |-> NewRow(q), boxes |-> Box])
          ELSE Finish(r) /\ UNCHANGED change
  /\ UNCHANGED <<limit, user, others, session, tokens, verifies, mailbox, guesses, proved,
                 overdue, vouched>>

(* The request that is meant, asked for by this session, still pending for  *)
(* this very account, within its life and its budget of guesses.            *)
Pending(q) ==
  LET v == q.row
  IN /\ v # None /\ v.id = q.id /\ v.status = "pending" /\ v.session = q.session
     /\ v.email.current = user.email /\ v.identity = identity(user)
     /\ v.id \notin overdue /\ v.attempts < limit.attempts

(* Slip: the code from one of the two mailboxes is enough. *)
OneProof(q) == q.row.code.current = q.current \/ q.row.code.new = q.new

BothProofs(q) == q.row.code.current = q.current /\ q.row.code.new = q.new

NoCodes == [b \in Box |-> NoCode]

(* A wrong pair is committed as a guess; the last one destroys the codes.   *)
(* A right one changes the address, verified by its own code, unless        *)
(* another account has taken it, and with it ends every session and every   *)
(* code and link state of the account.                                      *)
Confirm(r) ==
  /\ At(r, "confirm")
  /\ LET q == req[r]  v == q.row
         w == [v EXCEPT !.attempts = @ + 1]
     IN \/ /\ Pending(q) /\ ~ BothProofs(q)
           /\ change' = IF w.attempts = limit.attempts THEN [w EXCEPT !.code = NoCodes] ELSE w
           /\ guesses' = [guesses EXCEPT ![v.id] = @ + 1]
           /\ UNCHANGED <<user, session, tokens, proved>>
        \/ /\ Pending(q) /\ BothProofs(q) /\ v.email.new \notin others
           /\ user' = [user EXCEPT !.email = v.email.new, !.verified = TRUE]
           /\ change' = [v EXCEPT !.status = "used", !.code = NoCodes]
           /\ session' = {} /\ tokens' = {}
           /\ proved' = proved \union {e \in Email : \E c \in {q.current, q.new} : <<e, c>> \in mailbox}
           /\ UNCHANGED guesses
        \/ /\ ~ Pending(q) \/ (BothProofs(q) /\ v.email.new \in others)
           /\ UNCHANGED <<user, change, session, tokens, guesses, proved>>
  /\ lock' = None /\ Finish(r)
  /\ UNCHANGED <<limit, others, verifies, mailbox, overdue, vouched>>

(* A new code for one mailbox; lifetime and guesses stay. *)
Resend(r) ==
  /\ At(r, "resend")
  /\ lock' = None
  /\ LET q == req[r]  v == q.row
     IN \/ /\ ~ Pending(q) \/ \E b \in Box : v.resends[b] = limit.resends
           /\ Finish(r) /\ UNCHANGED change
        \/ \E b \in Box :
             /\ Pending(q) /\ v.resends[b] < limit.resends
             /\ change' = [v EXCEPT !.code[b] = ChangeCode(v.id, b, v.resends[b] + 1), !.resends[b] = @ + 1]
             /\ Go(r, [at |-> "deliver", row |-> change', boxes |-> {b}])
  /\ UNCHANGED <<limit, user, others, session, tokens, verifies, mailbox, guesses, proved,
                 overdue, vouched>>

(* Cancelling is possible after expiry and after the last guess. *)
Cancel(r) ==
  /\ At(r, "cancel")
  /\ LET q == req[r]  v == q.row
     IN change' = IF v # None /\ v.id = q.id /\ v.session = q.session /\ v.status = "pending"
                    THEN [v EXCEPT !.status = "cancelled", !.code = NoCodes] ELSE change
  /\ lock' = None /\ Finish(r)
  /\ UNCHANGED <<limit, user, others, session, tokens, verifies, mailbox, guesses, proved,
                 overdue, vouched>>

----------------------------------------------------------------------------
(* After the commit.                                                        *)

(* The current mailbox is written to first; a mail that fails ends the      *)
(* delivery.                                                                *)
Deliver(r) ==
  /\ At(r, "deliver")
  /\ LET v == req[r].row
         b == IF "current" \in req[r].boxes THEN "current" ELSE "new"
         rest == req[r].boxes \ {b}
     IN \/ /\ mailbox' = mailbox \union {<<v.email[b], v.code[b]>>}
           /\ IF rest = {} THEN Finish(r) ELSE Go(r, [req[r] EXCEPT !.boxes = rest])
        \/ UNCHANGED mailbox /\ Go(r, [at |-> "discard", row |-> v])
  /\ UNCHANGED <<limit, user, others, session, change, tokens, verifies, lock, guesses, proved,
                 overdue, vouched>>

(* DiscardVersion: only the very version whose mail failed is withdrawn,    *)
(* neither a replacement nor a newer resend.                                *)
DiscardVersion(r) ==
  /\ At(r, "discard") /\ LockFree
  /\ LET v == req[r].row
     IN change' = IF change.id = v.id /\ change.code = v.code /\ change.status = "pending"
                    THEN [change EXCEPT !.status = "cancelled", !.code = NoCodes] ELSE change
  /\ Finish(r)
  /\ UNCHANGED <<limit, user, others, session, tokens, verifies, mailbox, lock, guesses, proved,
                 overdue, vouched>>

(* The lifetime of a request ends, in the middle of a transaction or not, *)
Lapse ==
  /\ change # None /\ change.status = "pending"
  /\ overdue' = overdue \union {change.id} /\ overdue' # overdue
  /\ UNCHANGED <<limit, user, others, session, change, tokens, verifies, mailbox, lock, req,
                 guesses, proved, vouched>>

(* and its codes are pruned; the budget stays. *)
PruneExpired ==
  /\ change # None /\ change.status = "pending" /\ change.id \in overdue /\ LockFree
  /\ change.code # NoCodes
  /\ change' = [change EXCEPT !.code = NoCodes]
  /\ UNCHANGED <<limit, user, others, session, tokens, verifies, mailbox, lock, req, guesses,
                 proved, overdue, vouched>>

----------------------------------------------------------------------------
(* What else happens to the account, each in one transaction on its rows.   *)

Withdrawn(v) ==
  IF v # None /\ v.status = "pending" THEN [v EXCEPT !.status = "cancelled", !.code = NoCodes] ELSE v

(* A changed password keeps the session that changed it, a reset password   *)
(* keeps none; either needs a password and withdraws a pending change.      *)
ChangePassword(kept) ==
  /\ LockFree /\ user.password # 0 /\ user.password <= limit.passwords
  /\ user' = [user EXCEPT !.password = @ + 1]
  /\ session' = session \intersect kept
  /\ change' = Withdrawn(change)
  /\ UNCHANGED <<limit, others, tokens, verifies, mailbox, lock, req, guesses, proved, overdue,
                 vouched>>

EndSession(s) ==
  /\ LockFree /\ s \in session
  /\ session' = session \ {s}
  /\ UNCHANGED <<limit, user, others, change, tokens, verifies, mailbox, lock, req, guesses,
                 proved, overdue, vouched>>

(* Somebody else registers with an address that is free. *)
Taken(e) ==
  /\ e \notin others /\ e # user.email
  /\ others' = others \union {e}
  /\ UNCHANGED <<limit, user, session, change, tokens, verifies, mailbox, lock, req, guesses,
                 proved, overdue, vouched>>

----------------------------------------------------------------------------
(* Verifying the address the account has.                                   *)

(* Every code names the address of the account that was read, and is used   *)
(* only while the account has that address.                                 *)
CodeFor(kind, e, n) == [kind |-> kind, email |-> e, code |-> VerifyCode(n)]

Outstanding(kind) == {t \in tokens : t.kind = kind}

(* Nothing is sent to a verified account, nor while a code is outstanding,  *)
(* except when the queue tries once more.                                   *)
SendVerification(r, retry) ==
  /\ At(r, "idle") /\ ~ user.verified
  /\ retry \/ Outstanding("verify") = {}
  /\ Go(r, [at |-> "mint", kind |-> "verify", email |-> user.email])
  /\ UNCHANGED <<limit, user, others, session, change, tokens, verifies, mailbox, lock, guesses,
                 proved, overdue, vouched>>

(* An account without a password asks for the code that sets one: codes     *)
(* sent before are deleted first.                                           *)
RequestSetPassword(r) ==
  /\ At(r, "idle") /\ user.password = 0
  /\ Go(r, [at |-> "clear", kind |-> "setpass", email |-> user.email])
  /\ UNCHANGED <<limit, user, others, session, change, tokens, verifies, mailbox, lock, guesses,
                 proved, overdue, vouched>>

ClearTokens(r) ==
  /\ At(r, "clear")
  /\ tokens' = tokens \ Outstanding(req[r].kind)
  /\ Go(r, [req[r] EXCEPT !.at = "mint"])
  /\ UNCHANGED <<limit, user, others, session, change, verifies, mailbox, lock, guesses, proved,
                 overdue, vouched>>

(* The code is stored with the address that was read, *)
MintToken(r) ==
  /\ At(r, "mint") /\ verifies < limit.verifies
  /\ LET t == CodeFor(req[r].kind, req[r].email, verifies + 1)
     IN /\ tokens' = tokens \union {t}
        /\ Go(r, [at |-> "mail", email |-> t.email, code |-> t.code])
  /\ verifies' = verifies + 1
  /\ UNCHANGED <<limit, user, others, session, change, mailbox, lock, guesses, proved, overdue,
                 vouched>>

(* and mailed; a code that cannot be mailed is deleted again.               *)
MailToken(r) ==
  /\ At(r, "mail")
  /\ \/ mailbox' = mailbox \union {<<req[r].email, req[r].code>>} /\ UNCHANGED tokens
     \/ tokens' = {t \in tokens : t.code # req[r].code} /\ UNCHANGED mailbox
  /\ Finish(r)
  /\ UNCHANGED <<limit, user, others, session, change, verifies, lock, guesses, proved, overdue,
                 vouched>>

TokenLapses(t) ==
  /\ tokens' = tokens \ {t}
  /\ UNCHANGED <<limit, user, others, session, change, verifies, mailbox, lock, req, guesses,
                 proved, overdue, vouched>>

(* A mailed code is looked up, *)
VerifyEmail(r, t) ==
  /\ At(r, "idle") /\ t.kind = "verify" /\ <<t.email, t.code>> \in mailbox
  /\ Go(r, [at |-> "verify", token |-> t])
  /\ UNCHANGED <<limit, user, others, session, change, tokens, verifies, mailbox, lock, guesses,
                 proved, overdue, vouched>>

(* and consumed together with the verification; both need the code to be    *)
(* there still, and the account to have the address it names.               *)
ConsumeToken(r) ==
  /\ At(r, "verify") /\ LockFree
  /\ LET t == req[r].token
     IN IF t \in tokens /\ t.email = user.email
          THEN /\ tokens' = tokens \ {t}
               /\ user' = [user EXCEPT !.verified = TRUE]
               /\ proved' = proved \union {t.email}
          ELSE UNCHANGED <<tokens, user, proved>>
  /\ Finish(r)
  /\ UNCHANGED <<limit, others, session, change, verifies, mailbox, lock, guesses, overdue,
                 vouched>>

(* The newest code that sets a password, mailed, is compared and the new    *)
(* password hashed,                                                         *)
ConfirmSetPassword(r, t) ==
  /\ At(r, "idle") /\ user.password = 0
  /\ t.kind = "setpass" /\ <<t.email, t.code>> \in mailbox
  /\ \A u \in Outstanding("setpass") : u.code[1] <= t.code[1]
  /\ Go(r, [at |-> "setpass", token |-> t])
  /\ UNCHANGED <<limit, user, others, session, change, tokens, verifies, mailbox, lock, guesses,
                 proved, overdue, vouched>>

(* and, if the account still has none and the address the code names, the   *)
(* password is set and the address verified as the code is consumed.        *)
SetPasswordAndVerify(r) ==
  /\ At(r, "setpass") /\ LockFree
  /\ LET t == req[r].token
     IN IF user.password = 0 /\ t \in tokens /\ t.email = user.email
          THEN /\ tokens' = tokens \ {t}
               /\ user' = [user EXCEPT !.password = 1, !.verified = TRUE]
               /\ proved' = proved \union {t.email}
          ELSE UNCHANGED <<tokens, user, proved>>
  /\ Finish(r)
  /\ UNCHANGED <<limit, others, session, change, verifies, mailbox, lock, guesses, overdue,
                 vouched>>

(* Who comes from a provider is signed in to the account the identity is    *)
(* linked to; the provider may vouch for the address the account has,       *)
ProviderVouches(r) ==
  /\ At(r, "idle") /\ ~ user.verified
  /\ vouched' = vouched \union {user.email}
  /\ Go(r, [at |-> "vouch", email |-> user.email])
  /\ UNCHANGED <<limit, user, others, session, change, overdue, tokens, verifies, mailbox, lock,
                 guesses, proved>>

(* which becomes verified if it is the account's in the statement too.      *)
VerifyEmailIfMatches(r) ==
  /\ At(r, "vouch") /\ LockFree
  /\ user' = [user EXCEPT !.verified = @ \/ user.email = req[r].email]
  /\ Finish(r)
  /\ UNCHANGED <<limit, others, session, change, tokens, verifies, mailbox, lock, guesses, proved,
                 overdue, vouched>>

(* What a request to the handlers may ask for. *)
Changing(r) ==
  \/ Enter(r) \/ Request(r) \/ Confirm(r) \/ Resend(r) \/ Cancel(r) \/ Deliver(r) \/ DiscardVersion(r)
  \/ \E s \in Session :
       \/ \E e \in Email \ {user.email} : RequestEmailChange(r, s, e)
       \/ \E op \in {"resend", "cancel"} : AskAbout(r, s, op)
       \/ \E c \in Answers("current"), d \in Answers("new") : ConfirmEmailChange(r, s, c, d)

Verifying(r) ==
  \/ RequestSetPassword(r) \/ ClearTokens(r) \/ MintToken(r) \/ MailToken(r)
  \/ ConsumeToken(r) \/ SetPasswordAndVerify(r)
  \/ ProviderVouches(r) \/ VerifyEmailIfMatches(r)
  \/ \E retry \in BOOLEAN : SendVerification(r, retry)
  \/ \E t \in tokens : VerifyEmail(r, t) \/ ConfirmSetPassword(r, t)

Next ==
  \/ \E r \in Req : Changing(r) \/ Verifying(r)
  \/ Lapse \/ PruneExpired
  \/ ChangePassword({}) \/ \E s \in Session : ChangePassword({s}) \/ EndSession(s)
  \/ \E e \in Email : Taken(e)
  \/ \E t \in tokens : TokenLapses(t)

Spec == Init /\ [][Next]_vars

----------------------------------------------------------------------------
(* An address changes only as long as it is wanted: the request was never   *)
(* withdrawn, replaced, used up or overdue, the session that asked is       *)
(* alive, and the password and the standing compared when it was asked for  *)
(* are the account's to this moment, whatever ran in between.  A withdrawn  *)
(* or used request stays so: no transaction that read the row before writes *)
(* it back to life.                                                         *)
ChangeIsWanted ==
  [][/\ user.email # user'.email =>
          /\ change.status = "pending" /\ change.email.new = user'.email
          /\ change.id \notin overdue /\ change.attempts < limit.attempts
          /\ change.session \in session
          /\ change.compared = identity(user)
     /\ change # None /\ change.status # "pending" =>
          change' = change \/ change'.id > change.id]_vars

(* Guesses and starts are counted whatever happens in between: resends keep *)
(* the budget of guesses, cancellations and new requests keep that of       *)
(* starts.                                                                  *)
BudgetsKept ==
  /\ \A i \in DOMAIN guesses : guesses[i] <= limit.attempts
  /\ change # None => /\ change.starts <= limit.starts
                      /\ guesses[change.id] = change.attempts

(* A verified address was proved by a code that had been mailed to it, or   *)
(* somebody answers for it: a provider that vouched for this very address,  *)
(* or who created the account, verified, with it.                           *)
VerifiedIsProved == user.verified => user.email \in proved \union vouched

=============================================================================
