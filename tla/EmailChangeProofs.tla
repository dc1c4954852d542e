------------------------- MODULE EmailChangeProofs -------------------------
(***************************************************************************)
(* Theorems about EmailChange for any addresses, sessions and requests and *)
(* any limits.  The transaction that holds the account's rows has read the *)
(* row as it is and its session is alive (Holding): that carries the       *)
(* action property and the budget.  That a verified address was proved     *)
(* rests on where a code can be: in the mailbox it was made for only       *)
(* (MailTrue), and in a confirmation only if it was in a mailbox.          *)
(***************************************************************************)
EXTENDS EmailChange, TLAPS

Working == {"request", "confirm", "resend", "cancel"}
Asking ==
  [at : Working \cup {"wait"}, op : Working, session : Session, id : Nat,
   email : Email \cup {None}, expected : Identity \cup {None}, current : Codes, new : Codes,
   row : EmailChangeRequest \cup {None}]
Delivering ==
  [at : {"deliver"}, row : EmailChangeRequest, boxes : (SUBSET Box) \ {{}}]

Limiting ==
  [attempts : Nat \ {0}, resends : Nat, starts : Nat, verifies : Nat, passwords : Nat,
   verified : BOOLEAN, password : {0, 1}]

Typed ==
  /\ limit \in Limiting
  /\ user \in [email : Email, verified : BOOLEAN, password : Nat]
  /\ session \subseteq Session
  /\ change \in EmailChangeRequest \cup {None} /\ verifies \in Nat
  /\ req = [r \in Req |-> req[r]]
  /\ guesses \in [1 .. limit.starts -> Nat]

StartsOf(v) == IF v = None THEN 0 ELSE v.starts

(* The row counts its own guesses, was asked for under the password it is   *)
(* bound to, and has its codes for as long as they may be used.             *)
RowTrue ==
  change # None =>
    /\ change.id = change.starts /\ change.starts <= limit.starts
    /\ change.compared = change.identity
    /\ guesses[change.id] = change.attempts
    /\ change.status = "pending" /\ change.id \notin overdue /\ change.attempts < limit.attempts =>
         \A b \in Box : change.code[b] = ChangeCode(change.id, b, change.resends[b])

GuessesTrue ==
  \A i \in 1 .. limit.starts : /\ guesses[i] <= limit.attempts
                               /\ i > StartsOf(change) => guesses[i] = 0

(* A confirmation brings a code only if it is in some mailbox, m.           *)
AskTrue(q, m) ==
  q.at \in Working \cup {"wait"} =>
    /\ q \in Asking
    /\ q.op = "request" => q.email \in Email /\ q.expected \in Identity
    /\ q.new # NoCode => \E e \in Email : <<e, q.new>> \in m

(* A transaction at work has the lock l, the row v and a session of S.      *)
Holding(q, r, l, v, S) ==
  q.at \in Working => l = r /\ q.op = q.at /\ q.row = v /\ q.session \in S

(* A delivery is about the row v, or about one it has replaced.             *)
SendTrue(q, v) ==
  /\ q.at \in {"deliver", "discard"} =>
       /\ q.row \in EmailChangeRequest /\ q.row.id <= StartsOf(v)
       /\ q.row.id = StartsOf(v) => q.row.email = v.email
  /\ q.at = "deliver" =>
       /\ q \in Delivering
       /\ \A b \in q.boxes : q.row.code[b] = ChangeCode(q.row.id, b, q.row.resends[b])

(* What verifies the present address is no code of a change.               *)
VerifyTrue(q) == q.at = "mail" => \E n \in Nat : q.code = VerifyCode(n)

ReqTrue(r) ==
  /\ AskTrue(req[r], mailbox) /\ VerifyTrue(req[r])
  /\ Holding(req[r], r, lock, change, session)
  /\ SendTrue(req[r], change)

(* A code made for a mailbox of a request is nowhere else.                  *)
MailTrue ==
  \A e \in Email, i \in Nat, b \in Box, n \in Nat :
    <<e, ChangeCode(i, b, n)>> \in mailbox =>
      i <= StartsOf(change) /\ (i = StartsOf(change) => e = change.email[b])

IInv ==
  /\ Typed /\ RowTrue /\ GuessesTrue
  /\ \A r \in Req : ReqTrue(r)
  /\ MailTrue /\ VerifiedIsProved

(* An address is verified on a provider's word only if the word was given.  *)
VouchTrue == \A r \in Req : req[r].at = "vouch" => req[r].email \in vouched

USE EmailBounds, NoneIsNothing
----------------------------------------------------------------------------
Onward ==
  \/ StartsOf(change') > StartsOf(change)
  \/ StartsOf(change') = StartsOf(change) /\ change'.email = change.email

LEMMA IdentityTyped == ASSUME Typed PROVE identity(user) \in Identity
<1>1. user.password \in Nat /\ user.verified \in BOOLEAN
  BY DEF Typed
<1>. QED
  BY <1>1 DEF identity, Identity

LEMMA StartsNat ==
  ASSUME NEW v \in EmailChangeRequest \cup {None}
  PROVE  StartsOf(v) \in Nat /\ (v # None => StartsOf(v) = v.starts)
BY DEF StartsOf, EmailChangeRequest

(* What one request knows stays true while others move, if the row it      *)
(* works on stays.                                                         *)
LEMMA ReqKept ==
  ASSUME IInv, Typed', NEW v \in Req, req'[v] = req[v], mailbox \subseteq mailbox', Onward,
         req[v].at \in Working =>
           UNCHANGED <<lock, change>> /\ session \subseteq session'
  PROVE  ReqTrue(v)'
<1>1. ReqTrue(v)
  BY DEF IInv
<1>2. AskTrue(req'[v], mailbox') /\ VerifyTrue(req'[v])
  BY <1>1 DEF ReqTrue, AskTrue, VerifyTrue
<1>3. Holding(req'[v], v, lock', change', session')
  BY <1>1 DEF ReqTrue, Holding
<1>4. SendTrue(req'[v], change')
  <2>1. StartsOf(change) \in Nat /\ StartsOf(change') \in Nat
    BY StartsNat DEF IInv, Typed
  <2>2. SendTrue(req[v], change)
    BY <1>1 DEF ReqTrue
  <2>3. \A x \in EmailChangeRequest : x.id \in Nat
    BY DEF EmailChangeRequest
  <2>. QED
    BY <2>1, <2>2, <2>3 DEF SendTrue, Onward
<1>. QED
  BY <1>2, <1>3, <1>4 DEF ReqTrue

LEMMA OneRequestMoves ==
  ASSUME IInv, Typed', NEW r \in Req, NEW q, req' = [req EXCEPT ![r] = q],
         mailbox \subseteq mailbox', Onward,
         \A v \in Req \ {r} : req[v].at \in Working =>
           UNCHANGED <<lock, change>> /\ session \subseteq session',
         AskTrue(q, mailbox'), VerifyTrue(q),
         Holding(q, r, lock', change', session'), SendTrue(q, change')
  PROVE  \A v \in Req : ReqTrue(v)'
<1>1. req = [v \in Req |-> req[v]]
  BY DEF IInv, Typed
<1>. HIDE DEF IInv
<1>2. req'[r] = q /\ \A v \in Req : v # r => req'[v] = req[v]
  BY <1>1
<1>3. ReqTrue(r)'
  BY <1>2 DEF ReqTrue
<1>4. ASSUME NEW v \in Req, v # r PROVE ReqTrue(v)'
  BY <1>2, <1>4, ReqKept
<1>. QED
  BY <1>3, <1>4

LEMMA ReqFunction ==
  ASSUME IInv, NEW r \in Req, NEW q, req' = [req EXCEPT ![r] = q]
  PROVE  req' = [v \in Req |-> req'[v]]
BY DEF IInv, Typed

(* A request moves and nothing of what it shares with others does.         *)
LEMMA OnlyRequest ==
  ASSUME IInv, NEW r \in Req, NEW q, req' = [req EXCEPT ![r] = q],
         UNCHANGED <<limit, user, session, change, lock, guesses, mailbox, proved, overdue, vouched>>,
         verifies' \in Nat,
         AskTrue(q, mailbox), VerifyTrue(q), Holding(q, r, lock, change, session),
         SendTrue(q, change)
  PROVE  IInv'
<1>1. Typed'
  BY ReqFunction DEF IInv, Typed
<1>2. Onward
  BY DEF Onward
<1>3. \A v \in Req : ReqTrue(v)'
  BY <1>1, <1>2, OneRequestMoves
<1>4. RowTrue' /\ GuessesTrue' /\ MailTrue' /\ VerifiedIsProved'
  BY DEF IInv, RowTrue, GuessesTrue, MailTrue, VerifiedIsProved
<1>. QED
  BY <1>1, <1>3, <1>4 DEF IInv

(* A request that is neither asking, at work, mailing nor delivering owes  *)
(* nothing.                                                                *)
LEMMA Elsewhere ==
  ASSUME NEW q, NEW r, NEW m, NEW l, NEW v, NEW S,
         q.at \notin Working \cup {"wait", "mail", "deliver", "discard"}
  PROVE  AskTrue(q, m) /\ VerifyTrue(q) /\ Holding(q, r, l, v, S) /\ SendTrue(q, v)
BY DEF AskTrue, VerifyTrue, Holding, SendTrue

LEMMA IdleIsElsewhere == Idle.at \notin Working \cup {"wait", "mail", "deliver", "discard"}
BY DEF Idle, Working

(* Only the request that has the lock is at work.                          *)
LEMMA NobodyWorks ==
  ASSUME IInv, LockFree, NEW v \in Req
  PROVE  req[v].at \notin Working
BY DEF IInv, ReqTrue, Holding, LockFree

LEMMA AtWork ==
  ASSUME IInv, NEW r \in Req, req[r].at \in Working
  PROVE  /\ req[r] \in Asking /\ lock = r /\ req[r].op = req[r].at
         /\ req[r].row = change /\ req[r].session \in session
         /\ \A v \in Req \ {r} : req[v].at \notin Working
BY DEF IInv, ReqTrue, AskTrue, Holding

----------------------------------------------------------------------------
(* Asking and verifying leave the account's rows alone.                    *)
LEMMA AskedIsAsking ==
  ASSUME NEW op \in Working, NEW s \in Session
  PROVE  /\ Asked(op, s) \in Asking /\ Asked(op, s).at = "wait"
         /\ Asked(op, s).op = op /\ Asked(op, s).new = NoCode
BY DEF Asked, Asking, Codes, Working

LEMMA WaitIsQuiet ==
  ASSUME NEW q, NEW r, NEW l, NEW v, NEW S, q.at = "wait"
  PROVE  VerifyTrue(q) /\ Holding(q, r, l, v, S) /\ SendTrue(q, v)
BY DEF VerifyTrue, Holding, SendTrue, Working

LEMMA AskSteps ==
  ASSUME IInv, NEW r \in Req, NEW s \in Session,
         \/ \E e \in Email \ {user.email} : RequestEmailChange(r, s, e)
         \/ \E op \in {"resend", "cancel"} : AskAbout(r, s, op)
         \/ \E c \in Answers("current"), d \in Answers("new") : ConfirmEmailChange(r, s, c, d)
  PROVE  IInv'
<1>0. /\ identity(user) \in Identity /\ verifies \in Nat
      /\ change \in EmailChangeRequest \cup {None}
  BY IdentityTyped DEF IInv, Typed
<1>1. ASSUME NEW e \in Email, RequestEmailChange(r, s, e) PROVE IInv'
  <2>. DEFINE a == Asked("request", s)
              q == [a EXCEPT !.email = e, !.expected = identity(user)]
  <2>1. a \in Asking /\ a.at = "wait" /\ a.op = "request" /\ a.new = NoCode
    BY AskedIsAsking DEF Working
  <2>2. /\ req' = [req EXCEPT ![r] = q] /\ verifies' = verifies
        /\ UNCHANGED <<limit, user, session, change, lock, guesses, mailbox, proved, overdue, vouched>>
    BY <1>1 DEF RequestEmailChange, Go
  <2>. HIDE DEF a
  <2>3. q \in Asking
    BY <1>0, <2>1 DEF Asking
  <2>4. q.at = "wait" /\ q.email = e /\ q.expected = identity(user) /\ q.new = NoCode
    BY <2>1 DEF Asking
  <2>. HIDE DEF q
  <2>5. AskTrue(q, mailbox)
    BY <1>0, <2>3, <2>4 DEF AskTrue
  <2>. QED
    BY <1>0, <2>2, <2>4, <2>5, WaitIsQuiet, OnlyRequest
<1>2. ASSUME NEW op \in {"resend", "cancel"}, AskAbout(r, s, op) PROVE IInv'
  <2>. DEFINE a == Asked(op, s)
              q == [a EXCEPT !.id = change.id]
  <2>1. a \in Asking /\ a.at = "wait" /\ a.op = op /\ a.new = NoCode
    BY AskedIsAsking DEF Working
  <2>2. /\ req' = [req EXCEPT ![r] = q] /\ verifies' = verifies /\ change # None
        /\ UNCHANGED <<limit, user, session, change, lock, guesses, mailbox, proved, overdue, vouched>>
    BY <1>2 DEF AskAbout, Go
  <2>3. change.id \in Nat
    BY <1>0, <2>2 DEF EmailChangeRequest
  <2>. HIDE DEF a
  <2>4. q \in Asking
    BY <2>1, <2>3 DEF Asking
  <2>5. q.at = "wait" /\ q.op = op /\ q.new = NoCode
    BY <2>1 DEF Asking
  <2>. HIDE DEF q
  <2>6. AskTrue(q, mailbox)
    BY <2>4, <2>5 DEF AskTrue
  <2>. QED
    BY <1>0, <2>2, <2>5, <2>6, WaitIsQuiet, OnlyRequest
<1>3. ASSUME NEW c \in Answers("current"), NEW d \in Answers("new"),
             ConfirmEmailChange(r, s, c, d)
      PROVE  IInv'
  <2>. DEFINE a == Asked("confirm", s)
              q == [a EXCEPT !.id = change.id, !.current = c, !.new = d]
  <2>1. a \in Asking /\ a.at = "wait" /\ a.op = "confirm"
    BY AskedIsAsking DEF Working
  <2>2. /\ req' = [req EXCEPT ![r] = q] /\ verifies' = verifies /\ change # None
        /\ UNCHANGED <<limit, user, session, change, lock, guesses, mailbox, proved, overdue, vouched>>
    BY <1>3 DEF ConfirmEmailChange, Go
  <2>3. /\ change.id \in Nat /\ change.code["current"] \in Codes /\ change.code["new"] \in Codes
        /\ change.email["new"] \in Email
    BY <1>0, <2>2 DEF EmailChangeRequest, Box
  <2>4. /\ c \in Codes /\ d \in Codes
        /\ d # NoCode => <<change.email["new"], d>> \in mailbox
    BY <2>2, <2>3 DEF Answers, Codes
  <2>. HIDE DEF a
  <2>5. q \in Asking
    BY <2>1, <2>3, <2>4 DEF Asking
  <2>6. q.at = "wait" /\ q.op = "confirm" /\ q.new = d
    BY <2>1 DEF Asking
  <2>. HIDE DEF q
  <2>7. AskTrue(q, mailbox)
    BY <2>3, <2>4, <2>5, <2>6 DEF AskTrue
  <2>. QED
    BY <1>0, <2>2, <2>6, <2>7, WaitIsQuiet, OnlyRequest
<1>. QED
  BY <1>1, <1>2, <1>3

LEMMA VerifySteps ==
  ASSUME IInv, NEW r \in Req,
         \/ \E retry \in BOOLEAN : SendVerification(r, retry)
         \/ RequestSetPassword(r) \/ ClearTokens(r) \/ MintToken(r)
         \/ \E t \in tokens : VerifyEmail(r, t) \/ ConfirmSetPassword(r, t)
  PROVE  IInv'
<1>0. verifies \in Nat
  BY DEF IInv, Typed
<1>1. ASSUME NEW q, req' = [req EXCEPT ![r] = q],
             q.at \in {"mint", "clear", "verify", "setpass"}, verifies' = verifies,
             UNCHANGED <<limit, user, session, change, lock, guesses, mailbox, proved, overdue, vouched>>
      PROVE  IInv'
  <2>1. q.at \notin Working \cup {"wait", "mail", "deliver", "discard"}
    BY <1>1 DEF Working
  <2>. QED
    BY <1>0, <1>1, <2>1, Elsewhere, OnlyRequest
<1>2. ASSUME NEW retry \in BOOLEAN, SendVerification(r, retry) PROVE IInv'
  BY <1>1, <1>2 DEF SendVerification, Go
<1>3. CASE RequestSetPassword(r)
  BY <1>1, <1>3 DEF RequestSetPassword, Go
<1>4. CASE ClearTokens(r)
  <2>. DEFINE q == [req[r] EXCEPT !.at = "mint"]
  <2>1. q.at = "mint"
    BY <1>4 DEF ClearTokens, At
  <2>. QED
    BY <1>1, <1>4, <2>1 DEF ClearTokens, Go
<1>5. CASE MintToken(r)
  <2>. DEFINE t == CodeFor(req[r].kind, req[r].email, verifies + 1)
              q == [at |-> "mail", email |-> t.email, code |-> t.code]
  <2>1. /\ req' = [req EXCEPT ![r] = q] /\ verifies' \in Nat /\ verifies + 1 \in Nat
        /\ UNCHANGED <<limit, user, session, change, lock, guesses, mailbox, proved, overdue, vouched>>
    BY <1>0, <1>5 DEF MintToken, Go
  <2>2. q.at = "mail" /\ q.code = VerifyCode(verifies + 1)
    BY DEF CodeFor
  <2>. HIDE DEF q
  <2>3. /\ AskTrue(q, mailbox) /\ VerifyTrue(q) /\ SendTrue(q, change)
        /\ Holding(q, r, lock, change, session)
    BY <2>1, <2>2 DEF AskTrue, VerifyTrue, SendTrue, Holding, Working
  <2>. QED
    BY <2>1, <2>3, OnlyRequest
<1>6. ASSUME NEW t \in tokens, VerifyEmail(r, t) PROVE IInv'
  BY <1>1, <1>6 DEF VerifyEmail, Go
<1>7. ASSUME NEW t \in tokens, ConfirmSetPassword(r, t) PROVE IInv'
  BY <1>1, <1>7 DEF ConfirmSetPassword, Go
<1>. QED
  BY <1>2, <1>3, <1>4, <1>5, <1>6, <1>7

(* What verifies the present address reaches a mailbox, and is no code of  *)
(* a change.                                                               *)
LEMMA MailTokenStep == ASSUME IInv, NEW r \in Req, MailToken(r) PROVE IInv'
<1>1. /\ req' = [req EXCEPT ![r] = Idle]
      /\ UNCHANGED <<limit, user, session, change, lock, guesses, verifies, proved, overdue, vouched>>
      /\ mailbox' = mailbox \/ mailbox' = mailbox \union {<<req[r].email, req[r].code>>}
  BY DEF MailToken, Finish, Go
<1>2. Typed'
  BY <1>1, ReqFunction DEF IInv, Typed
<1>3. /\ AskTrue(Idle, mailbox') /\ VerifyTrue(Idle) /\ SendTrue(Idle, change')
      /\ Holding(Idle, r, lock', change', session')
  BY IdleIsElsewhere, Elsewhere
<1>4. \A v \in Req : ReqTrue(v)'
  BY <1>1, <1>2, <1>3, OneRequestMoves DEF Onward
<1>5. PICK n \in Nat : req[r].code = VerifyCode(n)
  BY DEF MailToken, At, IInv, ReqTrue, VerifyTrue
<1>6. MailTrue'
  <2>. SUFFICES ASSUME NEW e \in Email, NEW i \in Nat, NEW b \in Box, NEW k \in Nat,
                       <<e, ChangeCode(i, b, k)>> \in mailbox'
                PROVE  <<e, ChangeCode(i, b, k)>> \in mailbox
    BY <1>1 DEF MailTrue, IInv
  <2>1. <<n>> # <<i, b, k>>
    OBVIOUS
  <2>2. <<e, ChangeCode(i, b, k)>> # <<req[r].email, req[r].code>>
    BY <1>5, <2>1 DEF ChangeCode, VerifyCode
  <2>. QED
    BY <1>1, <2>2
<1>7. RowTrue' /\ GuessesTrue' /\ VerifiedIsProved'
  BY <1>1 DEF IInv, RowTrue, GuessesTrue, VerifiedIsProved
<1>. QED
  BY <1>2, <1>4, <1>6, <1>7 DEF IInv

(* A consumed code proves the address it names, and the provider's word is *)
(* taken only for an address it was given for.                             *)
LEMMA StandingSteps ==
  ASSUME IInv, VouchTrue, NEW r \in Req,
         ConsumeToken(r) \/ SetPasswordAndVerify(r) \/ VerifyEmailIfMatches(r)
  PROVE  IInv'
<1>1. /\ req' = [req EXCEPT ![r] = Idle] /\ LockFree
      /\ UNCHANGED <<limit, session, change, lock, guesses, verifies, mailbox, overdue, vouched>>
  BY DEF ConsumeToken, SetPasswordAndVerify, VerifyEmailIfMatches, Finish, Go
<1>0. /\ user'.email = user.email
      /\ user' \in [email : Email, verified : BOOLEAN, password : Nat]
  <2>0. user \in [email : Email, verified : BOOLEAN, password : Nat]
    BY DEF IInv, Typed
  <2>1. CASE ConsumeToken(r) \/ SetPasswordAndVerify(r)
    <3>1. \/ user' = user
          \/ user' = [user EXCEPT !.verified = TRUE]
          \/ user' = [user EXCEPT !.password = 1, !.verified = TRUE]
      BY <2>1 DEF ConsumeToken, SetPasswordAndVerify
    <3>2. ASSUME NEW v \in BOOLEAN, user' = [user EXCEPT !.verified = v]
          PROVE  <1>0!1 /\ <1>0!2
      BY <2>0, <3>2
    <3>3. CASE user' = [user EXCEPT !.password = 1, !.verified = TRUE]
      <4>1. user'.email = user.email
        BY <2>0, <3>3
      <4>. DEFINE w == [user EXCEPT !.password = 1]
      <4>2. w \in [email : Email, verified : BOOLEAN, password : Nat]
        BY <2>0
      <4>3. user' = [w EXCEPT !.verified = TRUE]
        BY <3>3
      <4>. HIDE DEF w
      <4>4. user' \in [email : Email, verified : BOOLEAN, password : Nat]
        BY <4>2, <4>3
      <4>. QED
        BY <4>1, <4>4
    <3>. QED
      BY <2>0, <3>1, <3>2, <3>3
  <2>2. CASE VerifyEmailIfMatches(r)
    <3>1. PICK v \in BOOLEAN : v = (user.verified \/ user.email = req[r].email)
      OBVIOUS
    <3>2. user' = [user EXCEPT !.verified = v]
      BY <2>2, <3>1 DEF VerifyEmailIfMatches
    <3>. QED
      BY <2>0, <3>2
  <2>. QED
    BY <2>1, <2>2
<1>2. Typed'
  BY <1>1, <1>0, ReqFunction DEF IInv, Typed
<1>3. /\ AskTrue(Idle, mailbox') /\ VerifyTrue(Idle) /\ SendTrue(Idle, change')
      /\ Holding(Idle, r, lock', change', session')
  BY IdleIsElsewhere, Elsewhere
<1>4. \A v \in Req : ReqTrue(v)'
  BY <1>1, <1>0, <1>2, <1>3, OneRequestMoves DEF Onward
<1>5. VerifiedIsProved'
  <2>1. CASE ConsumeToken(r) \/ SetPasswordAndVerify(r)
    <3>1. proved \subseteq proved' /\ (user' = user \/ user.email \in proved')
      BY <2>1 DEF ConsumeToken, SetPasswordAndVerify
    <3>. QED
      BY <1>1, <1>0, <3>1 DEF IInv, VerifiedIsProved
  <2>2. CASE VerifyEmailIfMatches(r)
    <3>1. /\ proved' = proved /\ req[r].email \in vouched
          /\ user' = [user EXCEPT !.verified = @ \/ user.email = req[r].email]
      BY <2>2 DEF VerifyEmailIfMatches, At, VouchTrue
    <3>2. user'.verified => user.verified \/ user.email = req[r].email
      BY <3>1 DEF IInv, Typed
    <3>. QED
      BY <1>1, <1>0, <3>1, <3>2 DEF IInv, VerifiedIsProved
  <2>. QED
    BY <2>1, <2>2
<1>6. RowTrue' /\ GuessesTrue' /\ MailTrue'
  BY <1>1, <1>0 DEF IInv, RowTrue, GuessesTrue, MailTrue
<1>. QED
  BY <1>2, <1>4, <1>5, <1>6 DEF IInv

(* The lock is taken, and the row read, by one whose session is alive.     *)
LEMMA EnterStep == ASSUME IInv, NEW r \in Req, Enter(r) PROVE IInv'
<1>0. /\ req[r].at = "wait" /\ AskTrue(req[r], mailbox)
      /\ UNCHANGED <<limit, user, session, change, guesses, verifies, mailbox, proved, overdue, vouched>>
      /\ \A v \in Req : req[v].at \notin Working
  BY NobodyWorks DEF Enter, At, IInv, ReqTrue
<1>1. req[r] \in Asking /\ change \in EmailChangeRequest \cup {None}
  BY <1>0 DEF AskTrue, IInv, Typed
<1>. DEFINE q == [req[r] EXCEPT !.at = req[r].op, !.row = change]
<1>2. CASE req[r].session \notin session
  <2>1. req' = [req EXCEPT ![r] = Idle] /\ lock' = lock /\ verifies' \in Nat
    BY <1>0, <1>2 DEF Enter, Finish, Go, IInv, Typed
  <2>. QED
    BY <1>0, <2>1, IdleIsElsewhere, Elsewhere, OnlyRequest
<1>3. CASE req[r].session \in session
  <2>1. req' = [req EXCEPT ![r] = q] /\ lock' = r
    BY <1>3 DEF Enter, Go
  <2>2. q \in Asking
    BY <1>1 DEF Asking
  <2>3. q.at = req[r].op /\ q.op = req[r].op /\ q.row = change /\ req[r].op \in Working
    BY <1>1 DEF Asking
  <2>4. /\ q.session = req[r].session /\ q.new = req[r].new
        /\ q.email = req[r].email /\ q.expected = req[r].expected
    BY <1>1 DEF Asking
  <2>. HIDE DEF q
  <2>5. AskTrue(q, mailbox') /\ Holding(q, r, lock', change', session')
    BY <1>0, <1>3, <2>1, <2>2, <2>3, <2>4 DEF AskTrue, Holding
  <2>6. VerifyTrue(q) /\ SendTrue(q, change')
    BY <2>3 DEF VerifyTrue, SendTrue, Working
  <2>7. Typed'
    BY <1>0, <2>1, ReqFunction DEF IInv, Typed
  <2>8. \A v \in Req : ReqTrue(v)'
    BY <1>0, <2>1, <2>5, <2>6, <2>7, OneRequestMoves DEF Onward
  <2>9. RowTrue' /\ GuessesTrue' /\ MailTrue' /\ VerifiedIsProved'
    BY <1>0 DEF IInv, RowTrue, GuessesTrue, MailTrue, VerifiedIsProved
  <2>. QED
    BY <2>7, <2>8, <2>9 DEF IInv
<1>. QED
  BY <1>2, <1>3

----------------------------------------------------------------------------
(* The row changes, but not what it counts or where its codes go.          *)
LEMMA RowAltered ==
  ASSUME IInv, change # None, NEW w \in EmailChangeRequest, change' = w,
         w.id = change.id, w.starts = change.starts, w.email = change.email,
         w.attempts = change.attempts, w.identity = change.identity,
         w.compared = change.compared,
         w.status = "pending" /\ w.id \notin overdue =>
           /\ change.status = "pending" /\ w.code = change.code /\ w.resends = change.resends,
         UNCHANGED <<limit, guesses, mailbox, overdue>>
  PROVE  RowTrue' /\ GuessesTrue' /\ MailTrue' /\ Onward
<1>1. StartsOf(change') = StartsOf(change)
  BY DEF StartsOf
<1>2. RowTrue'
  BY DEF IInv, RowTrue
<1>3. GuessesTrue' /\ MailTrue' /\ Onward
  BY <1>1 DEF IInv, GuessesTrue, MailTrue, Onward
<1>. QED
  BY <1>2, <1>3

LEMMA CancelledRow ==
  ASSUME NEW v \in EmailChangeRequest
  PROVE  LET w == [v EXCEPT !.status = "cancelled", !.code = NoCodes]
         IN  /\ w \in EmailChangeRequest /\ w.status = "cancelled"
             /\ w.id = v.id /\ w.starts = v.starts /\ w.email = v.email
             /\ w.attempts = v.attempts /\ w.identity = v.identity /\ w.compared = v.compared
<1>. DEFINE w == [v EXCEPT !.status = "cancelled", !.code = NoCodes]
<1>1. NoCodes \in [Box -> Codes]
  BY DEF NoCodes, Codes
<1>2. w \in EmailChangeRequest
  BY <1>1 DEF EmailChangeRequest
<1>3. w.status = "cancelled" /\ w.id = v.id /\ w.starts = v.starts /\ w.email = v.email
  BY DEF EmailChangeRequest
<1>4. w.attempts = v.attempts /\ w.identity = v.identity /\ w.compared = v.compared
  BY DEF EmailChangeRequest
<1>. QED
  BY <1>2, <1>3, <1>4

(* Nobody is at work but the request that moves, if any: the rest of the   *)
(* invariant follows from what happens to the rows.                        *)
LEMMA RowsMove ==
  ASSUME IInv, Typed', RowTrue', GuessesTrue', MailTrue', Onward, VerifiedIsProved',
         UNCHANGED req, mailbox \subseteq mailbox', LockFree
  PROVE  IInv'
<1>1. \A v \in Req : ReqTrue(v)'
  BY NobodyWorks, ReqKept
<1>. QED
  BY <1>1 DEF IInv

LEMMA LapseStep == ASSUME IInv, Lapse PROVE IInv'
<1>1. /\ UNCHANGED <<limit, user, session, change, verifies, mailbox, lock, req, guesses, proved, vouched>>
      /\ overdue \subseteq overdue'
  BY DEF Lapse
<1>2. Typed' /\ GuessesTrue' /\ MailTrue' /\ VerifiedIsProved' /\ Onward
  BY <1>1 DEF IInv, Typed, GuessesTrue, MailTrue, VerifiedIsProved, Onward
<1>3. RowTrue'
  BY <1>1 DEF IInv, RowTrue
<1>4. \A v \in Req : ReqTrue(v)'
  BY <1>1, <1>2, ReqKept
<1>. QED
  BY <1>1, <1>2, <1>3, <1>4 DEF IInv

LEMMA PruneStep == ASSUME IInv, PruneExpired PROVE IInv'
<1>. DEFINE w == [change EXCEPT !.code = NoCodes]
<1>1. /\ change # None /\ change' = w /\ LockFree /\ change.id \in overdue
      /\ UNCHANGED <<limit, user, session, verifies, mailbox, lock, req, guesses, proved, overdue, vouched>>
  BY DEF PruneExpired
<1>2. change \in EmailChangeRequest /\ NoCodes \in [Box -> Codes]
  BY <1>1 DEF IInv, Typed, NoCodes, Codes
<1>3. w \in EmailChangeRequest
  BY <1>2 DEF EmailChangeRequest
<1>4. /\ w.id = change.id /\ w.starts = change.starts /\ w.email = change.email
      /\ w.attempts = change.attempts
  BY <1>2 DEF EmailChangeRequest
<1>5. w.identity = change.identity /\ w.compared = change.compared
  BY <1>2 DEF EmailChangeRequest
<1>. HIDE DEF w
<1>6. RowTrue' /\ GuessesTrue' /\ MailTrue' /\ Onward
  BY <1>1, <1>3, <1>4, <1>5, RowAltered
<1>7. Typed' /\ VerifiedIsProved'
  BY <1>1, <1>3 DEF IInv, Typed, VerifiedIsProved
<1>. QED
  BY <1>1, <1>6, <1>7, RowsMove

LEMMA WithdrawnStep ==
  ASSUME IInv, change' = Withdrawn(change), UNCHANGED <<limit, guesses, mailbox, overdue>>
  PROVE  /\ change' \in EmailChangeRequest \cup {None}
         /\ RowTrue' /\ GuessesTrue' /\ MailTrue' /\ Onward
<1>1. CASE change' = change
  BY <1>1 DEF IInv, Typed, RowTrue, GuessesTrue, MailTrue, Onward
<1>2. CASE change # None /\ change' = [change EXCEPT !.status = "cancelled", !.code = NoCodes]
  <2>1. change \in EmailChangeRequest
    BY <1>2 DEF IInv, Typed
  <2>. DEFINE w == [change EXCEPT !.status = "cancelled", !.code = NoCodes]
  <2>2. /\ w \in EmailChangeRequest /\ w.status = "cancelled"
        /\ w.id = change.id /\ w.starts = change.starts /\ w.email = change.email
        /\ w.attempts = change.attempts /\ w.identity = change.identity
        /\ w.compared = change.compared
    BY <2>1, CancelledRow
  <2>3. change' = w
    BY <1>2
  <2>. HIDE DEF w
  <2>. QED
    BY <1>2, <2>2, <2>3, RowAltered
<1>. QED
  BY <1>1, <1>2 DEF Withdrawn

LEMMA PasswordStep == ASSUME IInv, NEW kept, ChangePassword(kept) PROVE IInv'
<1>1. /\ change' = Withdrawn(change) /\ LockFree
      /\ UNCHANGED <<limit, verifies, mailbox, lock, req, guesses, proved, overdue, vouched>>
      /\ session' \subseteq session
  BY DEF ChangePassword
<1>2. /\ change' \in EmailChangeRequest \cup {None}
      /\ RowTrue' /\ GuessesTrue' /\ MailTrue' /\ Onward
  BY <1>1, WithdrawnStep
<1>3. /\ user' \in [email : Email, verified : BOOLEAN, password : Nat]
      /\ user'.email = user.email /\ user'.verified = user.verified
  BY DEF ChangePassword, IInv, Typed
<1>4. Typed' /\ VerifiedIsProved'
  BY <1>1, <1>2, <1>3 DEF IInv, Typed, VerifiedIsProved
<1>. QED
  BY <1>1, <1>2, <1>4, RowsMove

LEMMA OutsideSteps ==
  ASSUME IInv,
         \/ \E s \in Session : EndSession(s)
         \/ \E e \in Email : Taken(e)
         \/ \E t \in tokens : TokenLapses(t)
         \/ UNCHANGED vars
  PROVE  IInv'
<1>1. /\ UNCHANGED <<limit, user, change, verifies, mailbox, lock, req, guesses, proved, overdue, vouched>>
      /\ \/ session' = session
         \/ LockFree /\ session' \subseteq session
  BY DEF EndSession, Taken, TokenLapses, vars
<1>2. Typed' /\ RowTrue' /\ GuessesTrue' /\ MailTrue' /\ VerifiedIsProved' /\ Onward
  BY <1>1 DEF IInv, Typed, RowTrue, GuessesTrue, MailTrue, VerifiedIsProved, Onward
<1>3. \A v \in Req : ReqTrue(v)'
  BY <1>1, <1>2, NobodyWorks, ReqKept
<1>. QED
  BY <1>2, <1>3 DEF IInv

----------------------------------------------------------------------------
(* The transactions: the rows, and the request that had the lock.          *)
LEMMA WorkEnds ==
  ASSUME IInv, NEW r \in Req, req[r].at \in Working, NEW q,
         req' = [req EXCEPT ![r] = q], lock' = None,
         limit' \in Limiting,
         user' \in [email : Email, verified : BOOLEAN, password : Nat],
         session' \subseteq Session, verifies' \in Nat,
         change' \in EmailChangeRequest \cup {None},
         guesses' \in [1 .. limit'.starts -> Nat],
         RowTrue', GuessesTrue', MailTrue', Onward, VerifiedIsProved', mailbox' = mailbox,
         AskTrue(q, mailbox'), VerifyTrue(q), SendTrue(q, change'),
         q.at \notin Working
  PROVE  IInv'
<1>1. Typed'
  BY ReqFunction DEF Typed
<1>2. Holding(q, r, lock', change', session')
  BY DEF Holding
<1>3. \A v \in Req \ {r} : req[v].at \notin Working
  BY AtWork
<1>4. \A v \in Req : ReqTrue(v)'
  BY <1>1, <1>2, <1>3, OneRequestMoves
<1>. QED
  BY <1>1, <1>4 DEF IInv

LEMMA NewRowTrue ==
  ASSUME IInv, NEW q \in Asking, q.email \in Email, q.expected \in Identity
  PROVE  LET w == NewRow(q)
         IN  /\ w \in EmailChangeRequest /\ w.id = Starts + 1 /\ w.starts = Starts + 1
             /\ w.attempts = 0 /\ w.identity = identity(user) /\ w.compared = q.expected
             /\ \A b \in Box : w.code[b] = ChangeCode(w.id, b, w.resends[b])
<1>. DEFINE w == NewRow(q)
            n == Starts + 1
            mails == [current |-> user.email, new |-> q.email]
            codes == [b \in Box |-> ChangeCode(n, b, 0)]
            none == [b \in Box |-> 0]
<1>1. n \in Nat \ {0}
  BY DEF Starts, IInv, Typed, EmailChangeRequest
<1>2. codes \in [Box -> Codes] /\ none \in [Box -> Nat]
  BY <1>1 DEF Codes, ChangeCode
<1>3. mails \in [current : Email, new : Email]
  BY DEF IInv, Typed
<1>4. identity(user) \in Identity /\ q.session \in Session
  BY IdentityTyped DEF IInv, Asking
<1>5. \A b \in Box : codes[b] = ChangeCode(n, b, none[b])
  OBVIOUS
<1>6. w = [id |-> n, starts |-> n, session |-> q.session, email |-> mails, code |-> codes,
           resends |-> none, attempts |-> 0, identity |-> identity(user),
           compared |-> q.expected, status |-> "pending"]
  BY DEF NewRow
<1>. HIDE DEF n, mails, codes, none, w
<1>7. w \in EmailChangeRequest
  BY <1>1, <1>2, <1>3, <1>4, <1>6 DEF EmailChangeRequest
<1>8. /\ w.id = n /\ w.starts = n /\ w.code = codes /\ w.resends = none
      /\ w.attempts = 0 /\ w.identity = identity(user) /\ w.compared = q.expected
  BY <1>6
<1>. QED
  BY <1>5, <1>7, <1>8 DEF n, w

LEMMA FinishQuiet ==
  ASSUME NEW m, NEW v
  PROVE  AskTrue(Idle, m) /\ VerifyTrue(Idle) /\ SendTrue(Idle, v) /\ Idle.at \notin Working
BY IdleIsElsewhere, Elsewhere

LEMMA RequestStep == ASSUME IInv, NEW r \in Req, Request(r) PROVE IInv'
<1>0. /\ req[r].at = "request" /\ lock' = None
      /\ UNCHANGED <<limit, user, session, verifies, mailbox, guesses, proved, overdue, vouched>>
  BY DEF Request, At
<1>1. /\ req[r] \in Asking /\ req[r].email \in Email /\ req[r].expected \in Identity
      /\ req[r].at \in Working
  <2>1. req[r].at \in Working
    BY <1>0 DEF Working
  <2>2. req[r].op = "request" /\ req[r] \in Asking
    BY <1>0, <2>1, AtWork
  <2>. QED
    BY <2>1, <2>2 DEF IInv, ReqTrue, AskTrue
<1>t. /\ limit' \in Limiting
      /\ user' \in [email : Email, verified : BOOLEAN, password : Nat]
      /\ session' \subseteq Session /\ verifies' \in Nat
      /\ guesses' \in [1 .. limit'.starts -> Nat]
  BY <1>0 DEF IInv, Typed
<1>v. VerifiedIsProved'
  BY <1>0 DEF IInv, VerifiedIsProved
<1>2. CASE req' = [req EXCEPT ![r] = Idle] /\ change' = change
  <2>1. /\ RowTrue' /\ GuessesTrue' /\ MailTrue' /\ Onward
        /\ change' \in EmailChangeRequest \cup {None}
    BY <1>0, <1>2 DEF IInv, Typed, RowTrue, GuessesTrue, MailTrue, Onward
  <2>. QED
    BY <1>0, <1>1, <1>t, <1>v, <1>2, <2>1, FinishQuiet, WorkEnds
<1>3. CASE /\ identity(user) = req[r].expected /\ Starts < limit.starts
           /\ change' = NewRow(req[r])
           /\ req' = [req EXCEPT ![r] = [at |-> "deliver", row |-> NewRow(req[r]), boxes |-> Box]]
  <2>. DEFINE w == NewRow(req[r])
              q == [at |-> "deliver", row |-> w, boxes |-> Box]
  <2>1. /\ w \in EmailChangeRequest /\ w.id = Starts + 1 /\ w.starts = Starts + 1
        /\ w.attempts = 0 /\ w.identity = identity(user) /\ w.compared = req[r].expected
        /\ \A b \in Box : w.code[b] = ChangeCode(w.id, b, w.resends[b])
    BY <1>1, NewRowTrue
  <2>2. /\ Starts \in Nat /\ limit.starts \in Nat /\ limit.attempts \in Nat
        /\ Starts = StartsOf(change) /\ Starts + 1 \in 1 .. limit.starts
    BY <1>3, StartsNat DEF Starts, StartsOf, IInv, Typed, Limiting
  <2>3. change' = w /\ w # None
    BY <1>3, <2>1
  <2>. HIDE DEF w
  <2>4. StartsOf(change') = Starts + 1 /\ Onward
    BY <2>1, <2>2, <2>3 DEF StartsOf, Onward
  <2>5. RowTrue'
    <3>1. guesses[Starts + 1] = 0
      BY <2>2 DEF IInv, GuessesTrue
    <3>. QED
      BY <1>0, <1>3, <2>1, <2>2, <2>3, <3>1 DEF RowTrue
  <2>6. GuessesTrue'
    BY <1>0, <2>2, <2>4 DEF IInv, GuessesTrue
  <2>7. MailTrue'
    <3>. SUFFICES ASSUME NEW e \in Email, NEW i \in Nat, NEW b \in Box, NEW n \in Nat,
                         <<e, ChangeCode(i, b, n)>> \in mailbox
                  PROVE  i < Starts + 1
      BY <1>0, <2>2, <2>4 DEF MailTrue
    <3>1. i <= StartsOf(change)
      BY DEF IInv, MailTrue
    <3>. QED
      BY <2>2, <3>1
  <2>8. q \in Delivering
    BY <2>1 DEF Delivering, Box
  <2>9. q.at = "deliver" /\ q.row = w /\ q.boxes = Box
    OBVIOUS
  <2>10. req' = [req EXCEPT ![r] = q]
    BY <1>3 DEF w
  <2>. HIDE DEF q
  <2>11. AskTrue(q, mailbox') /\ VerifyTrue(q) /\ q.at \notin Working
    BY <2>9 DEF AskTrue, VerifyTrue, Working
  <2>12. SendTrue(q, change')
    BY <2>1, <2>2, <2>3, <2>4, <2>8, <2>9 DEF SendTrue
  <2>13. change' \in EmailChangeRequest \cup {None}
    BY <2>1, <2>3
  <2>. QED
    BY <1>0, <1>1, <1>t, <1>v, <2>4, <2>5, <2>6, <2>7, <2>10, <2>11, <2>12, <2>13, WorkEnds
<1>. QED
  BY <1>2, <1>3 DEF Request, Finish, Go, SameAsRead

(* What a pending request is, to the transaction that has read it.         *)
LEMMA PendingFacts ==
  ASSUME IInv, NEW r \in Req, req[r].at \in Working, Pending(req[r])
  PROVE  /\ req[r].row = change /\ change \in EmailChangeRequest /\ change # None
         /\ change.status = "pending" /\ change.id \notin overdue /\ change.attempts < limit.attempts
         /\ change.session = req[r].session /\ change.session \in session
         /\ change.identity = identity(user) /\ change.compared = identity(user)
         /\ change.id = StartsOf(change) /\ change.id \in 1 .. limit.starts
         /\ guesses[change.id] = change.attempts
         /\ \A b \in Box : change.code[b] = ChangeCode(change.id, b, change.resends[b])
<1>1. req[r].row = change /\ req[r].session \in session
  BY AtWork
<1>2. /\ change # None /\ change.status = "pending" /\ change.id \notin overdue
      /\ change.attempts < limit.attempts /\ change.session = req[r].session
      /\ change.identity = identity(user)
  BY <1>1 DEF Pending
<1>3. change \in EmailChangeRequest /\ change.id \in Nat \ {0}
  BY <1>2 DEF IInv, Typed, EmailChangeRequest
<1>4. /\ change.id = change.starts /\ change.starts <= limit.starts
      /\ change.compared = change.identity
      /\ guesses[change.id] = change.attempts
      /\ \A b \in Box : change.code[b] = ChangeCode(change.id, b, change.resends[b])
  BY <1>2 DEF IInv, RowTrue
<1>5. limit.starts \in Nat
  BY DEF IInv, Typed, Limiting
<1>. QED
  BY <1>1, <1>2, <1>3, <1>4, <1>5 DEF StartsOf

LEMMA Quiet ==
  ASSUME IInv, UNCHANGED <<limit, user, session, verifies, guesses, proved, overdue, vouched>>
  PROVE  /\ limit' \in Limiting
         /\ user' \in [email : Email, verified : BOOLEAN, password : Nat]
         /\ session' \subseteq Session /\ verifies' \in Nat
         /\ guesses' \in [1 .. limit'.starts -> Nat]
         /\ VerifiedIsProved'
BY DEF IInv, Typed, VerifiedIsProved

LEMMA SameRow ==
  ASSUME IInv, UNCHANGED <<limit, change, guesses, mailbox, overdue>>
  PROVE  /\ RowTrue' /\ GuessesTrue' /\ MailTrue' /\ Onward
         /\ change' \in EmailChangeRequest \cup {None}
BY DEF IInv, Typed, RowTrue, GuessesTrue, MailTrue, Onward

LEMMA CancelStep == ASSUME IInv, NEW r \in Req, Cancel(r) PROVE IInv'
<1>1. /\ req[r].at = "cancel" /\ lock' = None /\ req' = [req EXCEPT ![r] = Idle]
      /\ UNCHANGED <<limit, user, session, verifies, mailbox, guesses, proved, overdue, vouched>>
  BY DEF Cancel, At, Finish, Go
<1>2. req[r].at \in Working /\ req[r].row = change
  BY <1>1, AtWork DEF Working
<1>3. \/ change' = change
      \/ /\ change # None
         /\ change' = [change EXCEPT !.status = "cancelled", !.code = NoCodes]
  BY <1>2 DEF Cancel
<1>4. /\ RowTrue' /\ GuessesTrue' /\ MailTrue' /\ Onward
      /\ change' \in EmailChangeRequest \cup {None}
  <2>1. CASE change' = change
    BY <1>1, <2>1, SameRow
  <2>2. CASE /\ change # None
             /\ change' = [change EXCEPT !.status = "cancelled", !.code = NoCodes]
    <3>. DEFINE w == [change EXCEPT !.status = "cancelled", !.code = NoCodes]
    <3>1. change \in EmailChangeRequest
      BY <2>2 DEF IInv, Typed
    <3>2. /\ w \in EmailChangeRequest /\ w.status = "cancelled"
          /\ w.id = change.id /\ w.starts = change.starts /\ w.email = change.email
          /\ w.attempts = change.attempts /\ w.identity = change.identity
          /\ w.compared = change.compared
      BY <3>1, CancelledRow
    <3>3. change' = w
      BY <2>2
    <3>. HIDE DEF w
    <3>. QED
      BY <1>1, <2>2, <3>2, <3>3, RowAltered
  <2>. QED
    BY <1>3, <2>1, <2>2
<1>. QED
  BY <1>1, <1>2, <1>4, Quiet, FinishQuiet, WorkEnds

(* A resend gives one mailbox a new code and leaves the guesses.           *)
LEMMA ResendStep == ASSUME IInv, NEW r \in Req, Resend(r) PROVE IInv'
<1>1. /\ req[r].at = "resend" /\ lock' = None
      /\ UNCHANGED <<limit, user, session, verifies, mailbox, guesses, proved, overdue, vouched>>
  BY DEF Resend, At
<1>2. req[r].at \in Working /\ req[r].row = change
  BY <1>1, AtWork DEF Working
<1>3. CASE req' = [req EXCEPT ![r] = Idle] /\ change' = change
  BY <1>1, <1>2, <1>3, SameRow, Quiet, FinishQuiet, WorkEnds
<1>4. ASSUME NEW b \in Box, Pending(req[r]),
             change' = [change EXCEPT !.code[b] = ChangeCode(change.id, b, change.resends[b] + 1),
                                      !.resends[b] = @ + 1],
             req' = [req EXCEPT ![r] = [at |-> "deliver", row |-> change', boxes |-> {b}]]
      PROVE  IInv'
  <2>. DEFINE n == change.resends[b] + 1
              codes == [change.code EXCEPT ![b] = ChangeCode(change.id, b, n)]
              sends == [change.resends EXCEPT ![b] = n]
              w == [change EXCEPT !.code = codes, !.resends = sends]
  <2>1. /\ change \in EmailChangeRequest /\ change # None
        /\ change.code \in [Box -> Codes] /\ change.resends \in [Box -> Nat]
        /\ change.id \in Nat /\ n \in Nat
    BY <1>2, <1>4, PendingFacts DEF EmailChangeRequest
  <2>2. /\ change.status = "pending" /\ change.id \notin overdue /\ change.attempts < limit.attempts
        /\ change.id = StartsOf(change)
        /\ \A c \in Box : change.code[c] = ChangeCode(change.id, c, change.resends[c])
    BY <1>2, <1>4, PendingFacts
  <2>3. ChangeCode(change.id, b, n) \in Codes
    BY <2>1 DEF ChangeCode, Codes
  <2>4. codes \in [Box -> Codes] /\ sends \in [Box -> Nat]
    BY <2>1, <2>3
  <2>5. \A c \in Box : codes[c] = ChangeCode(change.id, c, sends[c])
    BY <2>1, <2>2
  <2>6. change' = w
    BY <1>4, <2>1
  <2>. HIDE DEF codes, sends, n
  <2>7. w \in EmailChangeRequest
    BY <2>1, <2>4 DEF EmailChangeRequest
  <2>8. /\ w.code = codes /\ w.resends = sends /\ w.id = change.id
        /\ w.starts = change.starts /\ w.email = change.email
    BY <2>1 DEF EmailChangeRequest
  <2>9. /\ w.attempts = change.attempts /\ w.identity = change.identity
        /\ w.compared = change.compared
    BY <2>1 DEF EmailChangeRequest
  <2>. HIDE DEF w
  <2>10. w # None
    BY <2>7
  <2>11. StartsOf(change') = StartsOf(change) /\ Onward
    BY <2>1, <2>6, <2>8, <2>10 DEF StartsOf, Onward
  <2>12. RowTrue'
    BY <1>1, <2>1, <2>5, <2>6, <2>8, <2>9 DEF IInv, RowTrue
  <2>13. GuessesTrue' /\ MailTrue'
    BY <1>1, <2>6, <2>8, <2>11 DEF IInv, GuessesTrue, MailTrue
  <2>. DEFINE q == [at |-> "deliver", row |-> w, boxes |-> {b}]
  <2>14. q \in Delivering
    BY <2>7 DEF Delivering
  <2>15. q.at = "deliver" /\ q.row = w /\ q.boxes = {b}
    OBVIOUS
  <2>16. req' = [req EXCEPT ![r] = q]
    BY <1>4, <2>6
  <2>. HIDE DEF q
  <2>17. AskTrue(q, mailbox') /\ VerifyTrue(q) /\ q.at \notin Working
    BY <2>15 DEF AskTrue, VerifyTrue, Working
  <2>18. SendTrue(q, change')
    <3>1. w.id <= StartsOf(change')
      BY <2>1, <2>2, <2>8, <2>11
    <3>. QED
      BY <2>5, <2>6, <2>7, <2>8, <2>14, <2>15, <3>1 DEF SendTrue
  <2>19. change' \in EmailChangeRequest \cup {None}
    BY <2>6, <2>7
  <2>. QED
    BY <1>1, <1>2, <2>11, <2>12, <2>13, <2>16, <2>17, <2>18, <2>19, Quiet, WorkEnds
<1>5. \/ req' = [req EXCEPT ![r] = Idle] /\ change' = change
      \/ \E b \in Box :
           /\ Pending(req[r])
           /\ change' = [change EXCEPT !.code[b] = ChangeCode(change.id, b, change.resends[b] + 1),
                                       !.resends[b] = @ + 1]
           /\ req' = [req EXCEPT ![r] = [at |-> "deliver", row |-> change', boxes |-> {b}]]
  BY <1>2 DEF Resend, Finish, Go
<1>. QED
  BY <1>3, <1>4, <1>5

(* A wrong pair costs a guess; the codes outlive all but the last one.     *)
LEMMA GuessStep ==
  ASSUME IInv, NEW r \in Req, Confirm(r), Pending(req[r]),
         LET w == [change EXCEPT !.attempts = @ + 1]
         IN  change' = IF w.attempts = limit.attempts THEN [w EXCEPT !.code = NoCodes] ELSE w,
         guesses' = [guesses EXCEPT ![change.id] = @ + 1],
         UNCHANGED <<limit, user, session, verifies, mailbox, proved, overdue, vouched>>
  PROVE  IInv'
<1>. DEFINE w == [change EXCEPT !.attempts = @ + 1]
            x == change'
<1>1. /\ req[r].at \in Working /\ lock' = None /\ req' = [req EXCEPT ![r] = Idle]
  BY DEF Confirm, At, Working, Finish, Go
<1>2. /\ change \in EmailChangeRequest /\ change # None /\ change.attempts < limit.attempts
      /\ change.id = StartsOf(change) /\ change.id \in 1 .. limit.starts
      /\ change.compared = change.identity /\ guesses[change.id] = change.attempts
      /\ change.status = "pending" /\ change.id \notin overdue
      /\ \A b \in Box : change.code[b] = ChangeCode(change.id, b, change.resends[b])
  BY <1>1, PendingFacts
<1>3. /\ limit.attempts \in Nat /\ limit.starts \in Nat /\ change.attempts \in Nat
      /\ guesses \in [1 .. limit.starts -> Nat] /\ NoCodes \in [Box -> Codes]
  BY <1>2 DEF IInv, Typed, Limiting, EmailChangeRequest, NoCodes, Codes
<1>4. w \in EmailChangeRequest
  <2>1. change \in EmailChangeRequest /\ change.attempts + 1 \in Nat
    BY <1>2, <1>3
  <2>. QED
    BY <2>1 DEF EmailChangeRequest
<1>5. w.attempts = change.attempts + 1 /\ w.id = change.id /\ w.starts = change.starts
  BY <1>2 DEF EmailChangeRequest
<1>6. /\ w.email = change.email /\ w.identity = change.identity
      /\ w.compared = change.compared /\ w.code = change.code /\ w.resends = change.resends
  BY <1>2 DEF EmailChangeRequest
<1>7. x = IF w.attempts = limit.attempts THEN [w EXCEPT !.code = NoCodes] ELSE w
  OBVIOUS
<1>. HIDE DEF w
<1>8. x \in EmailChangeRequest
  BY <1>3, <1>4, <1>7 DEF EmailChangeRequest
<1>9. /\ x.attempts = change.attempts + 1 /\ x.id = change.id /\ x.starts = change.starts
      /\ x.email = change.email
  BY <1>4, <1>5, <1>6, <1>7 DEF EmailChangeRequest
<1>10. /\ x.identity = change.identity /\ x.compared = change.compared
       /\ x.resends = change.resends
       /\ x.attempts < limit.attempts => x.code = change.code
  BY <1>4, <1>5, <1>6, <1>7, <1>9 DEF EmailChangeRequest
<1>11. x # None
  BY <1>8
<1>12. /\ guesses' \in [1 .. limit.starts -> Nat] /\ guesses'[change.id] = change.attempts + 1
       /\ \A i \in 1 .. limit.starts : i # change.id => guesses'[i] = guesses[i]
  BY <1>2, <1>3
<1>13. StartsOf(change') = StartsOf(change) /\ Onward
  BY <1>2, <1>9, <1>11 DEF StartsOf, Onward
<1>14. RowTrue'
  BY <1>2, <1>9, <1>10, <1>12 DEF IInv, RowTrue
<1>15. GuessesTrue'
  <2>. SUFFICES ASSUME NEW i \in 1 .. limit.starts
                PROVE  /\ guesses'[i] <= limit.attempts
                       /\ i > StartsOf(change) => guesses'[i] = 0
    BY <1>13 DEF GuessesTrue
  <2>1. CASE i = change.id
    BY <1>2, <1>3, <1>12, <2>1
  <2>2. CASE i # change.id
    BY <1>12, <2>2 DEF IInv, GuessesTrue
  <2>. QED
    BY <2>1, <2>2
<1>16. MailTrue'
  BY <1>9, <1>13 DEF IInv, MailTrue
<1>17. /\ limit' \in Limiting
       /\ user' \in [email : Email, verified : BOOLEAN, password : Nat]
       /\ session' \subseteq Session /\ verifies' \in Nat /\ VerifiedIsProved'
  BY DEF IInv, Typed, VerifiedIsProved
<1>18. guesses' \in [1 .. limit'.starts -> Nat]
  BY <1>12
<1>. QED
  BY <1>1, <1>8, <1>13, <1>14, <1>15, <1>16, <1>17, <1>18, FinishQuiet, WorkEnds

(* A right pair: the code for the new mailbox was in a mailbox, and can    *)
(* only have been in that one.                                             *)
LEMMA ChangeProves ==
  ASSUME IInv, NEW r \in Req, req[r].at \in Working, Pending(req[r]), BothProofs(req[r])
  PROVE  change.email.new \in Email /\ <<change.email.new, req[r].new>> \in mailbox
<1>. DEFINE n == change.resends["new"]
<1>1. /\ req[r].row = change /\ change \in EmailChangeRequest /\ change.id = StartsOf(change)
      /\ \A b \in Box : change.code[b] = ChangeCode(change.id, b, change.resends[b])
  BY PendingFacts
<1>2. /\ n \in Nat /\ change.id \in Nat /\ "new" \in Box
      /\ change.email.new \in Email /\ change.email["new"] = change.email.new
  BY <1>1 DEF EmailChangeRequest, Box
<1>3. req[r].new = change.code["new"]
  BY <1>1 DEF BothProofs
<1>4. req[r].new = ChangeCode(change.id, "new", n)
  BY <1>1, <1>2, <1>3
<1>5. req[r].new # NoCode
  <2>1. <<change.id, "new", n>> # <<>>
    OBVIOUS
  <2>. QED
    BY <1>4, <2>1, Zenon DEF ChangeCode, NoCode
<1>6. PICK e \in Email : <<e, req[r].new>> \in mailbox
  BY <1>5 DEF IInv, ReqTrue, AskTrue
<1>7. e = change.email["new"]
  BY <1>1, <1>2, <1>4, <1>6 DEF IInv, MailTrue
<1>. QED
  BY <1>2, <1>6, <1>7

LEMMA ProvedStep ==
  ASSUME IInv, NEW r \in Req, Confirm(r), Pending(req[r]), BothProofs(req[r]),
         user' = [user EXCEPT !.email = change.email.new, !.verified = TRUE],
         change' = [change EXCEPT !.status = "used", !.code = NoCodes],
         session' = {},
         proved' = proved \union {e \in Email : \E c \in {req[r].current, req[r].new} :
                                                 <<e, c>> \in mailbox},
         UNCHANGED <<limit, verifies, mailbox, guesses, overdue, vouched>>
  PROVE  IInv'
<1>. DEFINE w == [change EXCEPT !.status = "used", !.code = NoCodes]
<1>1. req[r].at \in Working /\ lock' = None /\ req' = [req EXCEPT ![r] = Idle]
  BY DEF Confirm, At, Working, Finish, Go
<1>2. change \in EmailChangeRequest /\ change # None /\ NoCodes \in [Box -> Codes]
  BY <1>1, PendingFacts DEF NoCodes, Codes
<1>3. w \in EmailChangeRequest
  BY <1>2 DEF EmailChangeRequest
<1>4. w.status = "used" /\ w.id = change.id /\ w.starts = change.starts /\ w.email = change.email
  BY <1>2 DEF EmailChangeRequest
<1>5. /\ w.attempts = change.attempts /\ w.identity = change.identity
      /\ w.compared = change.compared
  BY <1>2 DEF EmailChangeRequest
<1>6. change' = w
  OBVIOUS
<1>. HIDE DEF w
<1>7. RowTrue' /\ GuessesTrue' /\ MailTrue' /\ Onward
  BY <1>2, <1>3, <1>4, <1>5, <1>6, RowAltered
<1>8. change.email.new \in Email /\ <<change.email.new, req[r].new>> \in mailbox
  BY <1>1, ChangeProves
<1>9. /\ user' \in [email : Email, verified : BOOLEAN, password : Nat]
      /\ user'.email = change.email.new
  BY <1>8 DEF IInv, Typed
<1>10. VerifiedIsProved'
  BY <1>8, <1>9 DEF VerifiedIsProved
<1>11. /\ limit' \in Limiting
       /\ session' \subseteq Session /\ verifies' \in Nat
       /\ guesses' \in [1 .. limit'.starts -> Nat]
  BY DEF IInv, Typed
<1>12. change' \in EmailChangeRequest \cup {None}
  BY <1>3, <1>6
<1>. QED
  BY <1>1, <1>7, <1>9, <1>10, <1>11, <1>12, FinishQuiet, WorkEnds

LEMMA ConfirmStep == ASSUME IInv, NEW r \in Req, Confirm(r) PROVE IInv'
<1>1. /\ req[r].at \in Working /\ lock' = None /\ req' = [req EXCEPT ![r] = Idle]
      /\ UNCHANGED <<limit, verifies, mailbox, overdue, vouched>>
  BY DEF Confirm, At, Working, Finish, Go
<1>2. req[r].row = change
  BY <1>1, AtWork
<1>. DEFINE w == [change EXCEPT !.attempts = @ + 1]
<1>3. CASE /\ Pending(req[r])
           /\ change' = IF w.attempts = limit.attempts THEN [w EXCEPT !.code = NoCodes] ELSE w
           /\ guesses' = [guesses EXCEPT ![change.id] = @ + 1]
           /\ UNCHANGED <<user, session, proved>>
  BY <1>1, <1>3, GuessStep
<1>4. CASE /\ Pending(req[r]) /\ BothProofs(req[r])
           /\ user' = [user EXCEPT !.email = change.email.new, !.verified = TRUE]
           /\ change' = [change EXCEPT !.status = "used", !.code = NoCodes]
           /\ session' = {}
           /\ proved' = proved \union {e \in Email : \E c \in {req[r].current, req[r].new} :
                                                      <<e, c>> \in mailbox}
           /\ guesses' = guesses
  BY <1>1, <1>4, ProvedStep
<1>5. CASE UNCHANGED <<user, change, session, guesses, proved>>
  BY <1>1, <1>5, SameRow, Quiet, FinishQuiet, WorkEnds
<1>. QED
  BY <1>2, <1>3, <1>4, <1>5 DEF Confirm

----------------------------------------------------------------------------
(* A code is delivered to the mailbox it was made for, or the delivery is  *)
(* given up.                                                               *)
LEMMA DeliverStep == ASSUME IInv, NEW r \in Req, Deliver(r) PROVE IInv'
<1>. DEFINE v == req[r].row
            b == IF "current" \in req[r].boxes THEN "current" ELSE "new"
            rest == req[r].boxes \ {b}
<1>1. /\ req[r].at = "deliver" /\ req[r] \in Delivering /\ v \in EmailChangeRequest
      /\ v.id <= StartsOf(change) /\ (v.id = StartsOf(change) => v.email = change.email)
      /\ \A c \in req[r].boxes : v.code[c] = ChangeCode(v.id, c, v.resends[c])
      /\ UNCHANGED <<limit, user, session, change, verifies, lock, guesses, proved, overdue, vouched>>
  BY DEF Deliver, At, IInv, ReqTrue, SendTrue
<1>2. /\ b \in req[r].boxes /\ b \in Box /\ req[r].boxes \in SUBSET Box
      /\ v.email[b] \in Email /\ v.id \in Nat /\ v.resends[b] \in Nat
  BY <1>1 DEF Delivering, Box, EmailChangeRequest
<1>3. /\ mailbox' = mailbox \/ mailbox' = mailbox \union {<<v.email[b], v.code[b]>>}
      /\ \/ req' = [req EXCEPT ![r] = Idle]
         \/ req' = [req EXCEPT ![r] = [req[r] EXCEPT !.boxes = rest]] /\ rest # {}
         \/ req' = [req EXCEPT ![r] = [at |-> "discard", row |-> v]]
  BY DEF Deliver, Finish, Go
<1>4. v.code[b] = ChangeCode(v.id, b, v.resends[b])
  BY <1>1, <1>2
<1>5. MailTrue'
  <2>. SUFFICES ASSUME NEW e \in Email, NEW i \in Nat, NEW c \in Box, NEW n \in Nat,
                       <<e, ChangeCode(i, c, n)>> \in mailbox'
                PROVE  i <= StartsOf(change) /\ (i = StartsOf(change) => e = change.email[c])
    BY <1>1 DEF MailTrue
  <2>1. CASE <<e, ChangeCode(i, c, n)>> \in mailbox
    BY <2>1 DEF IInv, MailTrue
  <2>2. CASE <<e, ChangeCode(i, c, n)>> = <<v.email[b], v.code[b]>>
    <3>1. <<e, <<i, c, n>> >> = <<v.email[b], <<v.id, b, v.resends[b]>> >>
      BY <1>4, <2>2, Zenon DEF ChangeCode
    <3>2. e = v.email[b] /\ i = v.id /\ c = b
      BY <3>1
    <3>. QED
      BY <1>1, <3>2
  <2>. QED
    BY <1>3, <2>1, <2>2
<1>6. Typed'
  BY <1>1, <1>3, ReqFunction DEF IInv, Typed
<1>7. ASSUME NEW q, req' = [req EXCEPT ![r] = q], AskTrue(q, mailbox'), VerifyTrue(q),
             SendTrue(q, change'), q.at \notin Working
      PROVE  IInv'
  <2>1. Holding(q, r, lock', change', session')
    BY <1>7 DEF Holding
  <2>2. mailbox \subseteq mailbox'
    BY <1>3
  <2>3. \A u \in Req : ReqTrue(u)'
    BY <1>1, <1>6, <1>7, <2>1, <2>2, OneRequestMoves DEF Onward
  <2>4. RowTrue' /\ GuessesTrue' /\ VerifiedIsProved'
    BY <1>1 DEF IInv, RowTrue, GuessesTrue, VerifiedIsProved
  <2>. QED
    BY <1>5, <1>6, <2>3, <2>4 DEF IInv
<1>8. CASE req' = [req EXCEPT ![r] = Idle]
  BY <1>7, <1>8, FinishQuiet
<1>9. CASE req' = [req EXCEPT ![r] = [req[r] EXCEPT !.boxes = rest]] /\ rest # {}
  <2>. DEFINE q == [req[r] EXCEPT !.boxes = rest]
  <2>1. q \in Delivering
    BY <1>1, <1>2, <1>9 DEF Delivering
  <2>2. q.at = "deliver" /\ q.row = v /\ q.boxes = rest
    BY <1>1 DEF Delivering
  <2>3. req' = [req EXCEPT ![r] = q]
    BY <1>9
  <2>. HIDE DEF q
  <2>4. AskTrue(q, mailbox') /\ VerifyTrue(q) /\ q.at \notin Working
    BY <2>2 DEF AskTrue, VerifyTrue, Working
  <2>5. SendTrue(q, change')
    BY <1>1, <2>1, <2>2 DEF SendTrue
  <2>. QED
    BY <1>7, <2>3, <2>4, <2>5
<1>10. CASE req' = [req EXCEPT ![r] = [at |-> "discard", row |-> v]]
  <2>. DEFINE q == [at |-> "discard", row |-> v]
  <2>1. q.at = "discard" /\ q.row = v
    OBVIOUS
  <2>. HIDE DEF q
  <2>2. AskTrue(q, mailbox') /\ VerifyTrue(q) /\ q.at \notin Working
    BY <2>1 DEF AskTrue, VerifyTrue, Working
  <2>3. SendTrue(q, change')
    BY <1>1, <2>1 DEF SendTrue
  <2>. QED
    BY <1>7, <1>10, <2>2, <2>3 DEF q
<1>. QED
  BY <1>3, <1>8, <1>9, <1>10

LEMMA DiscardStep == ASSUME IInv, NEW r \in Req, DiscardVersion(r) PROVE IInv'
<1>1. /\ req[r].at = "discard" /\ LockFree /\ req' = [req EXCEPT ![r] = Idle]
      /\ UNCHANGED <<limit, user, session, verifies, mailbox, lock, guesses, proved, overdue, vouched>>
  BY DEF DiscardVersion, At, Finish, Go
<1>2. change # None
  <2>1. req[r].row \in EmailChangeRequest /\ req[r].row.id <= StartsOf(change)
    BY <1>1 DEF IInv, ReqTrue, SendTrue
  <2>2. req[r].row.id \in Nat \ {0}
    BY <2>1 DEF EmailChangeRequest
  <2>. QED
    BY <2>1, <2>2 DEF StartsOf
<1>3. change \in EmailChangeRequest
  BY <1>2 DEF IInv, Typed
<1>4. /\ RowTrue' /\ GuessesTrue' /\ MailTrue' /\ Onward
      /\ change' \in EmailChangeRequest \cup {None}
  <2>1. CASE change' = change
    BY <1>1, <2>1, SameRow
  <2>2. CASE change' = [change EXCEPT !.status = "cancelled", !.code = NoCodes]
    <3>. DEFINE w == [change EXCEPT !.status = "cancelled", !.code = NoCodes]
    <3>1. /\ w \in EmailChangeRequest /\ w.status = "cancelled"
          /\ w.id = change.id /\ w.starts = change.starts /\ w.email = change.email
          /\ w.attempts = change.attempts /\ w.identity = change.identity
          /\ w.compared = change.compared
      BY <1>3, CancelledRow
    <3>2. change' = w
      BY <2>2
    <3>. HIDE DEF w
    <3>. QED
      BY <1>1, <1>2, <3>1, <3>2, RowAltered
  <2>. QED
    BY <2>1, <2>2 DEF DiscardVersion
<1>5. Typed' /\ VerifiedIsProved'
  BY <1>1, <1>4, ReqFunction DEF IInv, Typed, VerifiedIsProved
<1>6. Holding(Idle, r, lock', change', session')
  BY FinishQuiet DEF Holding
<1>7. \A v \in Req : ReqTrue(v)'
  BY <1>1, <1>4, <1>5, <1>6, FinishQuiet, NobodyWorks, OneRequestMoves
<1>. QED
  BY <1>4, <1>5, <1>7 DEF IInv

----------------------------------------------------------------------------
(* A provider vouches; nobody else takes its word.                         *)
LEMMA ProviderStep == ASSUME IInv, NEW r \in Req, ProviderVouches(r) PROVE IInv'
<1>. DEFINE q == [at |-> "vouch", email |-> user.email]
<1>1. /\ req' = [req EXCEPT ![r] = q] /\ vouched \subseteq vouched'
      /\ UNCHANGED <<limit, user, session, change, overdue, verifies, mailbox, lock, guesses, proved>>
  BY DEF ProviderVouches, Go
<1>2. q.at \notin Working \cup {"wait", "mail", "deliver", "discard"}
  BY DEF Working
<1>. HIDE DEF q
<1>3. Typed'
  BY <1>1, ReqFunction DEF IInv, Typed
<1>4. \A v \in Req : ReqTrue(v)'
  BY <1>1, <1>2, <1>3, Elsewhere, OneRequestMoves DEF Onward
<1>5. RowTrue' /\ GuessesTrue' /\ MailTrue' /\ VerifiedIsProved'
  BY <1>1 DEF IInv, RowTrue, GuessesTrue, MailTrue, VerifiedIsProved
<1>. QED
  BY <1>3, <1>4, <1>5 DEF IInv

LEMMA OthersDoNotVouch ==
  ASSUME IInv, VouchTrue, NEW r \in Req, NEW q, req' = [req EXCEPT ![r] = q],
         q.at # "vouch", vouched' = vouched
  PROVE  VouchTrue'
<1>1. \A v \in Req : req'[v] = IF v = r THEN q ELSE req[v]
  BY DEF IInv, Typed
<1>. QED
  BY <1>1 DEF VouchTrue

LEMMA StepVouch == ASSUME IInv, VouchTrue, [Next]_vars PROVE VouchTrue'
<1>1. ASSUME NEW r \in Req, ProviderVouches(r) PROVE VouchTrue'
  <2>. DEFINE q == [at |-> "vouch", email |-> user.email]
  <2>1. req' = [req EXCEPT ![r] = q] /\ vouched' = vouched \union {user.email}
    BY <1>1 DEF ProviderVouches, Go
  <2>2. \A v \in Req : req'[v] = IF v = r THEN q ELSE req[v]
    BY <2>1 DEF IInv, Typed
  <2>. QED
    BY <2>1, <2>2 DEF VouchTrue
<1>2. ASSUME NEW r \in Req, Changing(r) PROVE VouchTrue'
  <2>1. vouched' = vouched
    BY <1>2 DEF Changing, Enter, Request, Confirm, Resend, Cancel, Deliver, DiscardVersion,
       RequestEmailChange, AskAbout, ConfirmEmailChange
  <2>2. CASE Enter(r)
    <3>1. req[r] \in Asking
      BY <2>2 DEF Enter, At, IInv, ReqTrue, AskTrue
    <3>. DEFINE q == [req[r] EXCEPT !.at = req[r].op, !.row = change]
    <3>2. q.at # "vouch"
      BY <3>1 DEF Asking, Working
    <3>3. req' = [req EXCEPT ![r] = q] \/ req' = [req EXCEPT ![r] = Idle]
      BY <2>2 DEF Enter, Finish, Go
    <3>. HIDE DEF q
    <3>. QED
      BY <2>1, <3>2, <3>3, IdleIsElsewhere, OthersDoNotVouch DEF Idle
  <2>3. CASE Request(r) \/ Confirm(r) \/ Cancel(r) \/ DiscardVersion(r)
    <3>. DEFINE q == [at |-> "deliver", row |-> NewRow(req[r]), boxes |-> Box]
    <3>1. req' = [req EXCEPT ![r] = q] \/ req' = [req EXCEPT ![r] = Idle]
      BY <2>3 DEF Request, Confirm, Cancel, DiscardVersion, Finish, Go
    <3>2. q.at # "vouch" /\ Idle.at # "vouch"
      BY DEF Idle
    <3>. HIDE DEF q
    <3>. QED
      BY <2>1, <3>1, <3>2, OthersDoNotVouch
  <2>4. CASE Resend(r)
    <3>1. \/ req' = [req EXCEPT ![r] = Idle]
          \/ \E b \in Box : req' = [req EXCEPT ![r] = [at |-> "deliver", row |-> change', boxes |-> {b}]]
      BY <2>4 DEF Resend, Finish, Go
    <3>2. Idle.at # "vouch" /\ \A b \in Box : [at |-> "deliver", row |-> change', boxes |-> {b}].at # "vouch"
      BY DEF Idle
    <3>. QED
      BY <2>1, <3>1, <3>2, OthersDoNotVouch
  <2>5. CASE Deliver(r)
    <3>. DEFINE q == [req[r] EXCEPT !.boxes = req'[r].boxes]
                d == [at |-> "discard", row |-> req[r].row]
    <3>1. req[r].at = "deliver" /\ req[r] \in Delivering
      BY <2>5 DEF Deliver, At, IInv, ReqTrue, SendTrue
    <3>2. PICK rest : \/ req' = [req EXCEPT ![r] = Idle]
                      \/ req' = [req EXCEPT ![r] = [req[r] EXCEPT !.boxes = rest]]
                      \/ req' = [req EXCEPT ![r] = d]
      BY <2>5 DEF Deliver, Finish, Go
    <3>3. [req[r] EXCEPT !.boxes = rest].at # "vouch" /\ d.at # "vouch" /\ Idle.at # "vouch"
      BY <3>1 DEF Delivering, Idle
    <3>. QED
      BY <2>1, <3>2, <3>3, OthersDoNotVouch
  <2>6. ASSUME NEW s \in Session,
               \/ \E e \in Email \ {user.email} : RequestEmailChange(r, s, e)
               \/ \E op \in {"resend", "cancel"} : AskAbout(r, s, op)
               \/ \E c \in Answers("current"), d \in Answers("new") : ConfirmEmailChange(r, s, c, d)
        PROVE  VouchTrue'
    <3>. DEFINE Moves(q) == req' = [req EXCEPT ![r] = q] /\ q.at = "wait"
    <3>1. ASSUME NEW e, RequestEmailChange(r, s, e) PROVE \E q : Moves(q)
      <4>1. Moves([Asked("request", s) EXCEPT !.email = e, !.expected = identity(user)])
        BY <3>1 DEF RequestEmailChange, Asked, Go
      <4>. QED
        BY <4>1
    <3>2. ASSUME NEW op, AskAbout(r, s, op) PROVE \E q : Moves(q)
      <4>1. Moves([Asked(op, s) EXCEPT !.id = change.id])
        BY <3>2 DEF AskAbout, Asked, Go
      <4>. QED
        BY <4>1
    <3>3. ASSUME NEW c, NEW d, ConfirmEmailChange(r, s, c, d) PROVE \E q : Moves(q)
      <4>1. Moves([Asked("confirm", s) EXCEPT !.id = change.id, !.current = c, !.new = d])
        BY <3>3 DEF ConfirmEmailChange, Asked, Go
      <4>. QED
        BY <4>1
    <3>4. PICK q : Moves(q)
      BY <2>6, <3>1, <3>2, <3>3
    <3>. QED
      BY <2>1, <3>4, OthersDoNotVouch
  <2>. QED
    BY <1>2, <2>2, <2>3, <2>4, <2>5, <2>6 DEF Changing
<1>3. ASSUME NEW r \in Req, Verifying(r), ~ ProviderVouches(r) PROVE VouchTrue'
  <2>1. vouched' = vouched
    BY <1>3 DEF Verifying, SendVerification, RequestSetPassword, ClearTokens, MintToken, MailToken,
       VerifyEmail, ConsumeToken, ConfirmSetPassword, SetPasswordAndVerify, VerifyEmailIfMatches
  <2>2. PICK q : req' = [req EXCEPT ![r] = q] /\ q.at # "vouch"
    <3>. DEFINE Moves(q) == req' = [req EXCEPT ![r] = q] /\ q.at # "vouch"
    <3>1. CASE ClearTokens(r)
      <4>1. Moves([req[r] EXCEPT !.at = "mint"])
        <5>1. req[r].at = "clear" /\ req' = [req EXCEPT ![r] = [req[r] EXCEPT !.at = "mint"]]
          BY <3>1 DEF ClearTokens, At, Go
        <5>. QED
          BY <5>1
      <4>. QED
        BY <4>1
    <3>2. CASE MintToken(r)
      <4>. DEFINE t == CodeFor(req[r].kind, req[r].email, verifies + 1)
      <4>1. Moves([at |-> "mail", email |-> t.email, code |-> t.code])
        BY <3>2 DEF MintToken, Go
      <4>. QED
        BY <4>1
    <3>3. CASE \/ MailToken(r) \/ ConsumeToken(r) \/ SetPasswordAndVerify(r)
               \/ VerifyEmailIfMatches(r)
      <4>1. Moves(Idle)
        BY <3>3 DEF MailToken, ConsumeToken, SetPasswordAndVerify, VerifyEmailIfMatches,
           Finish, Go, Idle
      <4>. QED
        BY <4>1
    <3>4. CASE RequestSetPassword(r) \/ \E retry \in BOOLEAN : SendVerification(r, retry)
      <4>1. \/ Moves([at |-> "mint", kind |-> "verify", email |-> user.email])
            \/ Moves([at |-> "clear", kind |-> "setpass", email |-> user.email])
        BY <3>4 DEF RequestSetPassword, SendVerification, Go
      <4>. QED
        BY <4>1
    <3>5. ASSUME NEW t, VerifyEmail(r, t) \/ ConfirmSetPassword(r, t) PROVE \E q : Moves(q)
      <4>1. Moves([at |-> "verify", token |-> t]) \/ Moves([at |-> "setpass", token |-> t])
        BY <3>5 DEF VerifyEmail, ConfirmSetPassword, Go
      <4>. QED
        BY <4>1
    <3>. QED
      BY <1>3, <3>1, <3>2, <3>3, <3>4, <3>5 DEF Verifying
  <2>. QED
    BY <2>1, <2>2, OthersDoNotVouch
<1>4. ASSUME NEW kept, ChangePassword(kept) PROVE VouchTrue'
  BY <1>4 DEF ChangePassword, VouchTrue
<1>5. CASE \/ Lapse \/ PruneExpired \/ UNCHANGED vars
           \/ \E s \in Session : EndSession(s)
           \/ \E e \in Email : Taken(e)
           \/ \E t \in tokens : TokenLapses(t)
  BY <1>5 DEF Lapse, PruneExpired, EndSession, Taken, TokenLapses, vars, VouchTrue
<1>. QED
  BY <1>1, <1>2, <1>3, <1>4, <1>5 DEF Next

LEMMA InitInv == Init => IInv /\ VouchTrue
<1>. SUFFICES ASSUME Init PROVE IInv /\ VouchTrue
  OBVIOUS
<1>0. limit \in Limiting
  BY DEF Init, Limiting
<1>1. Typed
  BY <1>0 DEF Init, Typed, Limiting
<1>2. \A r \in Req : ReqTrue(r)
  BY IdleIsElsewhere, Elsewhere DEF Init, ReqTrue
<1>3. RowTrue /\ GuessesTrue /\ MailTrue
  BY <1>1 DEF Init, Typed, Limiting, RowTrue, GuessesTrue, MailTrue
<1>4. VerifiedIsProved
  BY DEF Init, VerifiedIsProved
<1>5. VouchTrue
  BY DEF Init, VouchTrue, Idle
<1>. QED
  BY <1>1, <1>2, <1>3, <1>4, <1>5 DEF IInv

LEMMA StepInv == IInv /\ VouchTrue /\ [Next]_vars => IInv' /\ VouchTrue'
<1>. SUFFICES ASSUME IInv, VouchTrue, [Next]_vars PROVE IInv'
  BY StepVouch
<1>1. ASSUME NEW r \in Req, Changing(r) PROVE IInv'
  BY <1>1, EnterStep, RequestStep, ConfirmStep, ResendStep, CancelStep, DeliverStep,
     DiscardStep, AskSteps DEF Changing
<1>2. ASSUME NEW r \in Req, Verifying(r) PROVE IInv'
  BY <1>2, VerifySteps, MailTokenStep, StandingSteps, ProviderStep DEF Verifying
<1>3. CASE Lapse \/ PruneExpired
  BY <1>3, LapseStep, PruneStep
<1>4. CASE ChangePassword({}) \/ \E s \in Session : ChangePassword({s})
  BY <1>4, PasswordStep
<1>5. CASE \/ \E s \in Session : EndSession(s)
           \/ \E e \in Email : Taken(e)
           \/ \E t \in tokens : TokenLapses(t)
           \/ UNCHANGED vars
  BY <1>5, OutsideSteps
<1>. QED
  BY <1>1, <1>2, <1>3, <1>4, <1>5 DEF Next

LEMMA SpecInv == Spec => []IInv
BY InitInv, StepInv, PTL DEF Spec

(* Neither resends nor cancellations nor new requests refill the budgets:  *)
(* five wrong guesses for a request, three requests for a window, whatever *)
(* transactions meet at the row (email.go: Attempts, Starts).              *)
THEOREM GuessesAreBounded == Spec => []BudgetsKept
<1>1. IInv => BudgetsKept
  <2>. SUFFICES ASSUME IInv PROVE BudgetsKept
    OBVIOUS
  <2>1. DOMAIN guesses = 1 .. limit.starts
    BY DEF IInv, Typed
  <2>. QED
    BY <2>1 DEF IInv, RowTrue, GuessesTrue, BudgetsKept
<1>. QED
  BY SpecInv, <1>1, PTL

(* An account is verified for its address only by a code that was mailed   *)
(* there (ConfirmEmailChange, VerifyEmail, ConfirmSetPassword), on the word *)
(* of a provider that named this address, or because whoever created it so *)
(* answers for it.                                                         *)
THEOREM AddressIsProved == Spec => []VerifiedIsProved
<1>1. IInv => VerifiedIsProved
  BY DEF IInv
<1>. QED
  BY SpecInv, <1>1, PTL

(* What a transaction writes: the address only if the change is wanted to  *)
(* this moment, and a settled request never again.                         *)
Wanted ==
  user.email # user'.email =>
    /\ change.status = "pending" /\ change.email.new = user'.email
    /\ change.id \notin overdue /\ change.attempts < limit.attempts
    /\ change.session \in session /\ change.compared = identity(user)
Settled ==
  change # None /\ change.status # "pending" => change' = change \/ change'.id > change.id

LEMMA StepWanted == ASSUME IInv, [Next]_vars PROVE Wanted
<1>1. CASE user'.email = user.email
  BY <1>1 DEF Wanted
<1>2. ASSUME NEW r \in Req, Confirm(r) PROVE Wanted
  <2>1. req[r].at \in Working /\ user.email \in Email
    BY <1>2 DEF Confirm, At, Working, IInv, Typed
  <2>2. req[r].row = change
    BY <2>1, AtWork
  <2>3. \/ user' = user
        \/ Pending(req[r]) /\ user' = [user EXCEPT !.email = change.email.new, !.verified = TRUE]
    BY <1>2, <2>2 DEF Confirm
  <2>4. user \in [email : Email, verified : BOOLEAN, password : Nat]
    BY DEF IInv, Typed
  <2>5. CASE Pending(req[r]) /\ user' = [user EXCEPT !.email = change.email.new, !.verified = TRUE]
    <3>1. user'.email = change.email.new
      BY <2>4, <2>5
    <3>. QED
      BY <2>1, <2>5, <3>1, PendingFacts DEF Wanted
  <2>. QED
    BY <1>1, <2>3, <2>5
<1>3. user'.email = user.email \/ \E r \in Req : Confirm(r)
  <2>0. user \in [email : Email, verified : BOOLEAN, password : Nat]
    BY DEF IInv, Typed
  <2>1. ASSUME NEW r \in Req, Changing(r) PROVE user' = user \/ Confirm(r)
    BY <2>1 DEF Changing, Enter, Request, Resend, Cancel, Deliver, DiscardVersion,
       RequestEmailChange, AskAbout, ConfirmEmailChange
  <2>2. ASSUME NEW r \in Req, Verifying(r) PROVE user'.email = user.email
    BY <2>0, <2>2 DEF Verifying, SendVerification, MintToken, MailToken, ConsumeToken, VerifyEmail,
       RequestSetPassword, ClearTokens, ConfirmSetPassword, SetPasswordAndVerify, ProviderVouches,
       VerifyEmailIfMatches
  <2>3. ASSUME NEW kept, ChangePassword(kept) PROVE user'.email = user.email
    BY <2>0, <2>3 DEF ChangePassword
  <2>. QED
    BY <2>1, <2>2, <2>3 DEF Next, vars, Lapse, PruneExpired, EndSession, Taken, TokenLapses
<1>. QED
  BY <1>1, <1>2, <1>3

LEMMA StepSettled == ASSUME IInv, [Next]_vars PROVE Settled
<1>. SUFFICES ASSUME change # None, change.status # "pending"
              PROVE  change' = change \/ change'.id > change.id
  BY DEF Settled
<1>1. change \in EmailChangeRequest /\ change.id = change.starts
  BY DEF IInv, Typed, RowTrue
<1>2. ASSUME NEW r \in Req, Request(r) PROVE change' = change \/ change'.id > change.id
  <2>1. change' = change \/ change' = NewRow(req[r])
    BY <1>2 DEF Request
  <2>2. NewRow(req[r]).id = Starts + 1
    BY DEF NewRow
  <2>3. Starts = change.id /\ change.id \in Nat
    BY <1>1 DEF Starts, EmailChangeRequest
  <2>. QED
    BY <2>1, <2>2, <2>3
<1>3. ASSUME NEW r \in Req, Confirm(r) \/ Resend(r) \/ Cancel(r) PROVE change' = change
  <2>1. req[r].at \in Working
    BY <1>3 DEF Confirm, Resend, Cancel, At, Working
  <2>2. req[r].row = change
    BY <2>1, AtWork
  <2>3. ~ Pending(req[r])
    BY <2>2 DEF Pending
  <2>. QED
    BY <1>3, <2>2, <2>3 DEF Confirm, Resend, Cancel
<1>4. ASSUME NEW r \in Req, Changing(r), ~ Request(r), ~ Confirm(r), ~ Resend(r), ~ Cancel(r)
      PROVE  change' = change
  BY <1>4 DEF Changing, Enter, Deliver, DiscardVersion, RequestEmailChange, AskAbout,
     ConfirmEmailChange
<1>5. ASSUME NEW r \in Req, Verifying(r) PROVE change' = change
  BY <1>5 DEF Verifying, SendVerification, MintToken, MailToken, ConsumeToken, VerifyEmail,
       RequestSetPassword, ClearTokens, ConfirmSetPassword, SetPasswordAndVerify, ProviderVouches,
       VerifyEmailIfMatches
<1>6. ASSUME NEW kept, ChangePassword(kept) PROVE change' = change
  BY <1>6 DEF ChangePassword, Withdrawn
<1>. QED
  BY <1>2, <1>3, <1>4, <1>5, <1>6
  DEF Next, vars, Lapse, PruneExpired, EndSession, Taken, TokenLapses

(* The address changes only while its change is pending, in time, within   *)
(* its guesses, asked for by a live session and under the present password;*)
(* and no transaction that read the row before revives a settled request.  *)
THEOREM ChangesAreWanted == Spec => ChangeIsWanted
<1>1. IInv /\ [Next]_vars => Wanted /\ Settled
  BY StepWanted, StepSettled
<1>2. Wanted /\ Settled <=>
        /\ user.email # user'.email =>
             /\ change.status = "pending" /\ change.email.new = user'.email
             /\ change.id \notin overdue /\ change.attempts < limit.attempts
             /\ change.session \in session
             /\ change.compared = identity(user)
        /\ change # None /\ change.status # "pending" =>
             change' = change \/ change'.id > change.id
  BY DEF Wanted, Settled
<1>. QED
  BY SpecInv, <1>1, <1>2, PTL DEF Spec, ChangeIsWanted
============================================================================
