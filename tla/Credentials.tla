---------------------------- MODULE Credentials ----------------------------
(***************************************************************************)
(* One account's password and the requests that check or replace it:       *)
(* login with rehash-on-login (internal/service/auth.go), the e-mailed     *)
(* second factor (twofactor.go), password reset and change (password.go),  *)
(* bans (admin_users.go).  A request reads the account, works on the       *)
(* password without any lock, and returns with a transaction that begins   *)
(* by locking the user's row: such a transaction is one step, what other   *)
(* requests commit between a request's steps is its hazard.                *)
(***************************************************************************)
EXTENDS Naturals, FiniteSets

CONSTANTS
    Req,            \* requests in flight
    Plans,          \* sets of operations clients call, one per behaviour: see Kind
    Cap,            \* maxAttemptsPerChallenge
    Refreshes,      \* maxCodeRefreshesPerChallenge
    MaxHash,        \* bound: password hashes written
    MaxSession,     \* bound: sessions created
    MaxChallenge,   \* bound: challenges created
    MaxReset,       \* bound: reset tokens created
    MaxWrong        \* bound: wrong codes presented

Kind == {"login", "verify", "resend", "forgot", "reset", "change", "ban", "settings",
         "setcode", "first", "close", "closecode", "readdress"}
ASSUME CredentialsAssumption ==
    /\ Plans \subseteq SUBSET Kind /\ {Cap, MaxHash} \subseteq Nat \ {0}
    /\ {Refreshes, MaxSession, MaxChallenge, MaxReset, MaxWrong} \subseteq Nat

VARIABLES
    ops,        \* the plan of this behaviour
    user,       \* the account's row
    session,    \* its live sessions
    challenge,  \* its 2fa_login tokens
    reset,      \* its reset_password tokens
    req,
    minted,     \* generators of hashes and session ids
    chosen,     \* history: the password of the last reset or change
    wrong,      \* history: wrong codes whose count was executed, per challenge
    proven      \* history: sessions a challenge was exchanged for

vars == <<ops, user, session, challenge, reset, req, minted, chosen, wrong, proven>>

(* hash: every write stores a freshly salted hash, 0 is none; pw: the      *)
(* password it is of, numbered as they are chosen; stale: hashed under an  *)
(* older pepper, algorithm or cost than the configured one; email: the     *)
(* address, 0 and then 1; gone: the row is deleted, and has no hash.       *)
User == [hash : 0..MaxHash, pw : Nat, stale : BOOLEAN, banned : BOOLEAN, twofa : BOOLEAN,
         email : 0..1, gone : BOOLEAN]

(* pw of a session: the password whose check let it in.                    *)
Session == [id : 1..MaxSession, pw : Nat]
Challenges == 1..MaxChallenge
Resets == 1..MaxReset
Status == {"none", "live", "expired", "used", "gone"}
(* pw of a token: the password there was when it was issued (history).     *)
Challenge == [st : Status, code : Nat, attempts : 0..Cap, resends : 0..Refreshes, pw : Nat]
NoChallenge == [st |-> "none", code |-> 0, attempts |-> 0, resends |-> 0, pw |-> 0]
ResetToken == [st : Status, pw : Nat]
NoReset == [st |-> "none", pw |-> 0]

(* snap: the row as the request read it (a replacement keeps its hash      *)
(* only); tok, code: the token it presents.                                *)
NoSnap == [hash |-> 0, pw |-> 0, stale |-> FALSE, banned |-> FALSE, twofa |-> FALSE,
           email |-> 0, gone |-> FALSE]
Idle == [pc |-> "idle", snap |-> NoSnap, tok |-> 0, code |-> 0]

(* Where no login is made, the account begins signed in, one without a     *)
(* password through its provider.                                          *)
Passwordless == ops \cap {"first", "closecode"} # {}

Init ==
    /\ ops \in Plans
    /\ user \in [hash : {IF Passwordless THEN 0 ELSE 1}, pw : {0}, banned : {FALSE},
                 stale : IF Passwordless THEN {FALSE} ELSE BOOLEAN,
                 twofa : IF Passwordless THEN {FALSE} ELSE BOOLEAN,
                 email : {0}, gone : {FALSE}]
    /\ session = IF "login" \in ops THEN {} ELSE [id : 1..MaxSession, pw : {0}]
    /\ challenge = [c \in Challenges |-> NoChallenge]
    /\ reset = [k \in Resets |-> NoReset]
    /\ req = [r \in Req |-> Idle]
    /\ minted = [hash |-> user.hash, session |-> Cardinality(session)]
    /\ chosen = 0
    /\ wrong = [c \in Challenges |-> 0]
    /\ proven = [c \in Challenges |-> 0]

-----------------------------------------------------------------------------
Unused(t) == t.st \in {"live", "expired"}
Revoked(tokens, none) ==
    [t \in DOMAIN tokens |-> IF Unused(tokens[t]) THEN [none EXCEPT !.st = "gone"] ELSE tokens[t]]
Fresh(tokens, t) == tokens[t].st = "none" /\ \A s \in DOMAIN tokens : s < t => tokens[s].st # "none"

Hashed == [NoSnap EXCEPT !.hash = user.hash, !.pw = user.pw, !.email = user.email]
Done(r) == req' = [req EXCEPT ![r] = Idle]
At(r, pc) == req[r].pc = pc

(* A statement, the hash, the audit record or the process fails.           *)
Fail(r) ==
    /\ ~At(r, "idle") /\ Done(r)
    /\ UNCHANGED <<ops, user, session, challenge, reset, minted, chosen, wrong, proven>>

NewSession(pw) ==
    /\ minted.session < MaxSession
    /\ minted' = [minted EXCEPT !.session = @ + 1]
    /\ session' = session \cup {[id |-> minted.session + 1, pw |-> pw]}

-----------------------------------------------------------------------------
(* authenticate: the row is read and the password compared with its hash.  *)
(* A wrong password, or a banned account, ends the request at once.        *)
StartLogin(r) ==
    /\ "login" \in ops /\ At(r, "idle") /\ user.hash # 0 /\ ~user.banned
    /\ req' = [req EXCEPT ![r] = [Idle EXCEPT !.snap = [user EXCEPT !.stale = FALSE],
                                 !.pc = IF user.stale THEN "rehash" ELSE "issue"]]
    /\ UNCHANGED <<ops, user, session, challenge, reset, minted, chosen, wrong, proven>>

(* The compare-and-swap every replacement goes through.                    *)
SameHash(snap) == user.hash = snap.hash

(* rehashIfNeeded is best effort: without room for the work, or after a    *)
(* lost swap, the login goes on with the row as it read it.                *)
RehashSucceeds(r) ==
    LET new == [req[r].snap EXCEPT !.hash = minted.hash + 1] IN
    /\ At(r, "rehash") /\ SameHash(req[r].snap) /\ minted.hash < MaxHash
    /\ minted' = [minted EXCEPT !.hash = @ + 1]
    /\ user' = [user EXCEPT !.hash = new.hash, !.pw = new.pw, !.stale = FALSE]
    /\ req' = [req EXCEPT ![r].pc = "issue", ![r].snap = new]
    /\ UNCHANGED <<ops, session, challenge, reset, chosen, wrong, proven>>
RehashSkipped(r) ==
    /\ At(r, "rehash")
    /\ req' = [req EXCEPT ![r].pc = "issue"]
    /\ UNCHANGED <<ops, user, session, challenge, reset, minted, chosen, wrong, proven>>

(* lockPasswordIdentity.  Slip: the second factor not compared. *)
IdentityByHash(snap) == user.hash = snap.hash /\ user.email = snap.email /\ ~user.banned
Identity(snap) ==
    /\ user.hash = snap.hash /\ user.email = snap.email
    /\ ~user.banned /\ user.twofa = snap.twofa

RefuseLogin(r) ==
    /\ At(r, "issue") /\ ~Identity(req[r].snap) /\ Done(r)
    /\ UNCHANGED <<ops, user, session, challenge, reset, minted, chosen, wrong, proven>>

(* createAuditedLoginSession.                                              *)
LoginSession(r) ==
    LET snap == req[r].snap IN
    /\ At(r, "issue") /\ ~snap.twofa /\ Identity(snap)
    /\ NewSession(snap.pw) /\ Done(r)
    /\ UNCHANGED <<ops, user, challenge, reset, chosen, wrong, proven>>

(* challenge: the pending lineage is used again while it has guesses and   *)
(* resends left; otherwise it is replaced, and its code mailed after the   *)
(* commit.                                                                 *)
Pending(c) == /\ challenge[c].st = "live"
              /\ challenge[c].attempts < Cap /\ challenge[c].resends < Refreshes
LoginChallenge(r) ==
    LET snap == req[r].snap IN
    /\ At(r, "issue") /\ snap.twofa /\ Identity(snap)
    /\ IF \E c \in Challenges : Pending(c) THEN Done(r) /\ UNCHANGED challenge
       ELSE \E c \in Challenges :
            /\ Fresh(challenge, c)
            /\ challenge' = [Revoked(challenge, NoChallenge) EXCEPT ![c].st = "live", ![c].code = 1,
                                                        ![c].pw = snap.pw]
            /\ req' = [req EXCEPT ![r] = [Idle EXCEPT !.pc = "mail", !.tok = c]]
    /\ UNCHANGED <<ops, user, session, reset, minted, chosen, wrong, proven>>

(* An undelivered code is marked used.                                     *)
MailSent(r) ==
    /\ At(r, "mail") /\ Done(r)
    /\ UNCHANGED <<ops, user, session, challenge, reset, minted, chosen, wrong, proven>>
MailFails(r) ==
    LET c == req[r].tok IN
    /\ At(r, "mail") /\ Done(r)
    /\ challenge' = [challenge EXCEPT ![c].st = IF Unused(challenge[c]) THEN "used" ELSE @]
    /\ UNCHANGED <<ops, user, session, reset, minted, chosen, wrong, proven>>

-----------------------------------------------------------------------------
(* Verify reads the challenge and compares the code with what it read;     *)
(* 0 is a code never sent.                                                 *)
StartVerify(r, c, code) ==
    /\ "verify" \in ops /\ At(r, "idle")
    /\ challenge[c].st = "live" /\ code \in 0..challenge[c].code
    /\ req' = [req EXCEPT ![r] = [Idle EXCEPT !.tok = c, !.code = code,
            !.pc = IF code = challenge[c].code THEN "claim" ELSE "guess"]]
    /\ UNCHANGED <<ops, user, session, challenge, reset, minted, chosen, wrong, proven>>

(* A wrong code is counted by a statement of its own; when that statement  *)
(* fails (Fail) the guess is answered all the same and never counted.      *)
CountGuess(r) ==
    LET c == req[r].tok IN
    /\ At(r, "guess") /\ Done(r) /\ wrong[c] < MaxWrong
    /\ challenge' = [challenge EXCEPT ![c].attempts =
            IF challenge[c].st \notin {"none", "gone"} /\ @ < Cap THEN @ + 1 ELSE @]
    /\ wrong' = [wrong EXCEPT ![c] = @ + 1]
    /\ UNCHANGED <<ops, user, session, reset, minted, chosen, proven>>

(* ConsumeIfValidUnderCap.                                                 *)
Claimable(c, code) ==
    /\ challenge[c].st = "live" /\ challenge[c].code = code
    /\ challenge[c].attempts < Cap

(* The right code is exchanged for a session under the user's lock.  The   *)
(* session rests on the password the challenge was issued for.             *)
Claim(r) ==
    LET c == req[r].tok IN
    /\ At(r, "claim") /\ ~user.banned /\ ~user.gone /\ Claimable(c, req[r].code)
    /\ challenge' = [challenge EXCEPT ![c].st = "used"]
    /\ NewSession(challenge[c].pw) /\ Done(r)
    /\ proven' = [proven EXCEPT ![c] = @ + 1]
    /\ UNCHANGED <<ops, user, reset, chosen, wrong>>

ClaimRefused(r) ==
    /\ At(r, "claim") /\ (user.banned \/ user.gone \/ ~Claimable(req[r].tok, req[r].code)) /\ Done(r)
    /\ UNCHANGED <<ops, user, session, challenge, reset, minted, chosen, wrong, proven>>

(* Resend renews the code of the same row, an expired one included.        *)
Resend(c) ==
    /\ "resend" \in ops /\ Unused(challenge[c])
    /\ challenge[c].resends < Refreshes /\ challenge[c].attempts < Cap
    /\ challenge' = [challenge EXCEPT ![c].st = "live", ![c].code = @ + 1,
                                      ![c].resends = @ + 1]
    /\ UNCHANGED <<ops, user, session, reset, req, minted, chosen, wrong, proven>>

-----------------------------------------------------------------------------
(* sendPasswordReset, of the recovery worker: the account is read ...      *)
StartForgot(r) ==
    /\ "forgot" \in ops /\ At(r, "idle") /\ user.hash # 0
    /\ req' = [req EXCEPT ![r] = [Idle EXCEPT !.pc = "forgot", !.snap = Hashed]]
    /\ UNCHANGED <<ops, user, session, challenge, reset, minted, chosen, wrong, proven>>

(* ... and its token replaces the ones before, unless the password changed *)
(* since: then nothing is issued.                                          *)
IssueReset(r) ==
    /\ At(r, "forgot") /\ Done(r)
    /\ IF ~SameHash(req[r].snap) \/ user.email # req[r].snap.email THEN UNCHANGED reset
       ELSE \E k \in Resets :
            /\ Fresh(reset, k)
            /\ reset' = [Revoked(reset, NoReset) EXCEPT ![k] = [st |-> "live", pw |-> req[r].snap.pw]]
    /\ UNCHANGED <<ops, user, session, challenge, minted, chosen, wrong, proven>>

(* What a new password brings with it in its transaction: the hash, the    *)
(* end of the sessions not kept, of pending challenges and reset tokens.   *)
(* Slip: the challenges forgotten. *)
ReplaceKeepingChallenges(keep, tokens) ==
    /\ minted.hash < MaxHash
    /\ minted' = [minted EXCEPT !.hash = @ + 1]
    /\ chosen' = chosen + 1
    /\ user' = [user EXCEPT !.hash = minted.hash + 1, !.pw = chosen + 1, !.stale = FALSE]
    /\ session' = {[s EXCEPT !.pw = chosen + 1] : s \in {s \in session : s.id = keep}}
    /\ reset' = Revoked(tokens, NoReset) /\ UNCHANGED challenge
Replace(keep, tokens) ==
    /\ minted.hash < MaxHash
    /\ minted' = [minted EXCEPT !.hash = @ + 1]
    /\ chosen' = chosen + 1
    /\ user' = [user EXCEPT !.hash = minted.hash + 1, !.pw = chosen + 1, !.stale = FALSE]
    /\ session' = {[s EXCEPT !.pw = chosen + 1] : s \in {s \in session : s.id = keep}}
    /\ challenge' = Revoked(challenge, NoChallenge)
    /\ reset' = Revoked(tokens, NoReset)

(* ResetPassword reads the token and the account ...                       *)
StartReset(r, k) ==
    /\ "reset" \in ops /\ At(r, "idle") /\ reset[k].st = "live"
    /\ req' = [req EXCEPT ![r] = [Idle EXCEPT !.pc = "reset", !.snap = Hashed, !.tok = k]]
    /\ UNCHANGED <<ops, user, session, challenge, reset, minted, chosen, wrong, proven>>

(* ... and claims the one and replaces the other, both or neither.         *)
CommitReset(r) ==
    LET k == req[r].tok IN
    /\ At(r, "reset") /\ reset[k].st = "live" /\ SameHash(req[r].snap)
    /\ Replace(0, [reset EXCEPT ![k] = [NoReset EXCEPT !.st = "used"]])
    /\ Done(r) /\ UNCHANGED <<ops, wrong, proven>>

(* ChangePassword, with the old password and a session, which it may keep. *)
StartChange(r, keep) ==
    /\ "change" \in ops /\ At(r, "idle") /\ session # {} /\ user.hash # 0
    /\ keep \in {0} \cup {s.id : s \in session}
    /\ req' = [req EXCEPT ![r] = [Idle EXCEPT !.pc = "change", !.snap = Hashed, !.tok = keep]]
    /\ UNCHANGED <<ops, user, session, challenge, reset, minted, chosen, wrong, proven>>
CommitChange(r) ==
    /\ At(r, "change") /\ SameHash(req[r].snap)
    /\ Replace(req[r].tok, reset)
    /\ Done(r) /\ UNCHANGED <<ops, wrong, proven>>

(* Either one finds the account or the token changed: a conflict.          *)
Conflict(r) ==
    /\ \/ At(r, "change") /\ ~SameHash(req[r].snap)
       \/ At(r, "reset") /\ (reset[req[r].tok].st # "live" \/ ~SameHash(req[r].snap))
    /\ Done(r)
    /\ UNCHANGED <<ops, user, session, challenge, reset, minted, chosen, wrong, proven>>

-----------------------------------------------------------------------------
(* BanUser revokes the sessions with the ban.                              *)
Ban ==
    /\ "ban" \in ops /\ ~user.banned /\ ~user.gone
    /\ user' = [user EXCEPT !.banned = TRUE] /\ session' = {}
    /\ UNCHANGED <<ops, challenge, reset, req, minted, chosen, wrong, proven>>
Unban ==
    /\ user.banned /\ ~user.gone
    /\ user' = [user EXCEPT !.banned = FALSE]
    /\ UNCHANGED <<ops, session, challenge, reset, req, minted, chosen, wrong, proven>>

(* Enable and Disable check the password under the user's lock; enabling   *)
(* ends the other sessions unless it is told to keep them.                 *)
Enable(s, keepOthers) ==
    /\ "settings" \in ops /\ s \in session /\ user.hash # 0 /\ ~user.banned /\ ~user.twofa
    /\ user' = [user EXCEPT !.twofa = TRUE]
    /\ session' = IF keepOthers THEN session ELSE {s}
    /\ UNCHANGED <<ops, challenge, reset, req, minted, chosen, wrong, proven>>
Disable(s) ==
    /\ "settings" \in ops /\ s \in session /\ user.hash # 0 /\ ~user.banned /\ user.twofa
    /\ user' = [user EXCEPT !.twofa = FALSE]
    /\ UNCHANGED <<ops, session, challenge, reset, req, minted, chosen, wrong, proven>>

(* Logout or the end of a session's life; the end of a code's.  A reset    *)
(* link's is a link that is not followed, or a transaction that fails.     *)
EndSession(s) ==
    /\ session' = session \ {s}
    /\ UNCHANGED <<ops, user, challenge, reset, req, minted, chosen, wrong, proven>>
Expire(c) ==
    /\ challenge[c].st = "live"
    /\ challenge' = [challenge EXCEPT ![c].st = "expired"]
    /\ UNCHANGED <<ops, user, session, reset, req, minted, chosen, wrong, proven>>

-----------------------------------------------------------------------------
Login(r) ==
    \/ StartLogin(r) \/ RehashSucceeds(r) \/ RehashSkipped(r) \/ RefuseLogin(r)
    \/ LoginSession(r) \/ LoginChallenge(r) \/ MailSent(r) \/ MailFails(r)
SecondFactor(r) ==
    \/ \E c \in Challenges, code \in 0..(Refreshes + 1) : StartVerify(r, c, code)
    \/ CountGuess(r) \/ Claim(r) \/ ClaimRefused(r)
Replacement(r) ==
    \/ StartForgot(r) \/ IssueReset(r) \/ \E k \in Resets : StartReset(r, k)
    \/ \E keep \in 0..MaxSession : StartChange(r, keep)
    \/ CommitReset(r) \/ CommitChange(r) \/ Conflict(r)

Next ==
    \/ \E r \in Req : Login(r) \/ SecondFactor(r) \/ Replacement(r) \/ Fail(r)
    \/ \E c \in Challenges : Resend(c) \/ Expire(c)
    \/ \E s \in session : EndSession(s) \/ Disable(s) \/ \E keep \in BOOLEAN : Enable(s, keep)
    \/ Ban \/ Unban

Spec == Init /\ [][Next]_vars

-----------------------------------------------------------------------------
TypeOK ==
    /\ user \in User
    /\ session \subseteq Session
    /\ challenge \in [Challenges -> Challenge]
    /\ reset \in [Resets -> ResetToken]
    /\ \A r \in Req : req[r].snap \in User
    /\ minted \in [hash : 0..MaxHash, session : 0..MaxSession]

(* A banned account has no session, not even from a login or a code that   *)
(* was right before the ban.                                               *)
BannedLoggedOut == user.banned => session = {}

(* The last reset, change or first choice decides the password, and what   *)
(* was let in or issued for the one before is over: no rehash of a login   *)
(* that began earlier brings it back (docs/security.mdx: "a concurrent     *)
(* password reset or change wins instead of being overwritten"), no        *)
(* session outlives it (ResetPassword: "a reset cannot commit while a      *)
(* stolen pre-reset session remains valid"; the one a change keeps counts  *)
(* as renewed), and the one reset link that may work is for the present.   *)
PasswordInForce ==
    LET usable == {k \in Resets : reset[k].st = "live"}
    IN /\ user.pw = chosen /\ \A s \in session : s.pw = chosen
       /\ Cardinality(usable) <= 1 /\ \A k \in usable : reset[k].pw = chosen
       /\ BannedLoggedOut

(* While the second factor is on, a new session comes from a challenge: a  *)
(* login that began before it was switched on does not slip past it        *)
(* (lockPasswordIdentity: "rather than completing a decision made before   *)
(* that change").                                                          *)
SecondFactorDemanded ==
    [][user.twofa /\ minted'.session # minted.session => proven' # proven]_vars
=============================================================================
