--------------------------- MODULE AccountProofs ---------------------------
(***************************************************************************)
(* Codes mailed to an account for something else than a login, beside all  *)
(* that Credentials does to the account meanwhile: switching the second    *)
(* factor (internal/service/twofactor_settings.go), the first password of  *)
(* an account that has none (password.go), and closing the account, by a   *)
(* code or by the password (auth.go, account_deletion_code.go).  A code is *)
(* issued by one request and spent by another; what the account has become *)
(* in between decides whether it still counts.                             *)
(***************************************************************************)
EXTENDS Credentials

CONSTANT MaxProof   \* bound: codes mailed
ASSUME ProofAssumption == MaxProof \in Nat

VARIABLES
    proof,      \* the account's codes, in the order they were stored
    tried,      \* history: wrong codes answered, per code
    effect      \* history: how often a code had its effect

proofVars == <<proof, tried, effect>>
accountVars == <<ops, user, session, challenge, reset, req, minted, chosen, wrong, proven,
                 proof, tried, effect>>

account == <<user, session, challenge, reset>>
log == <<ops, minted, chosen, wrong, proven>>

Proofs == 1..MaxProof
Setting == {"enable", "disable"}
(* session: the one a setting's code is bound to; email: where it was sent.*)
NoProof == [st |-> "none", kind |-> "none", session |-> 0, email |-> 0, attempts |-> 0]
Issued(kind, s, email) ==
    [st |-> "live", kind |-> kind, session |-> s, email |-> email, attempts |-> 0]

AccountInit ==
    /\ Init
    /\ proof = [k \in Proofs |-> NoProof]
    /\ tried = [k \in Proofs |-> 0]
    /\ effect = [k \in Proofs |-> 0]

(* GetLastByUserAndType: rows of the kind there are, and the newest one.   *)
Rows(kind) == {k \in Proofs : proof[k].kind = kind /\ proof[k].st \notin {"none", "gone"}}
IsLast(k, kind) == k \in Rows(kind) /\ \A j \in Rows(kind) : j <= k
Go(r, pc) == req' = [req EXCEPT ![r].pc = pc]
Deleted(tokens) ==
    [t \in DOMAIN tokens |->
        IF tokens[t].st = "none" THEN tokens[t] ELSE [tokens[t] EXCEPT !.st = "gone"]]

(* The mail of a stored code leaves after its transaction; when it fails,  *)
(* the code is deleted unless it was used (discardUndeliveredToken).       *)
ProofSent(r) ==
    /\ At(r, "proofmail") /\ Done(r)
    /\ UNCHANGED <<account, log, proof, tried, effect>>
ProofUndelivered(r) ==
    LET k == req[r].tok IN
    /\ At(r, "proofmail") /\ Done(r)
    /\ proof' = [proof EXCEPT ![k].st = IF Unused(proof[k]) THEN "gone" ELSE @]
    /\ UNCHANGED <<account, log, tried, effect>>

Store(r, token) ==
    \E k \in Proofs :
        /\ Fresh(proof, k)
        /\ proof' = [proof EXCEPT ![k] = token]
        /\ req' = [req EXCEPT ![r] = [Idle EXCEPT !.pc = "proofmail", !.tok = k]]

-----------------------------------------------------------------------------
(* RequestSettingsChallenge, under the user's lock.  The session's own     *)
(* newest code is used again while it is good, with the guesses it has     *)
(* left, whatever became of them.                                          *)
RequestSetting(r, s, kind) ==
    LET good(k) == proof[k].st = "live" /\ proof[k].session = s.id /\ proof[k].email = user.email
    IN /\ "setcode" \in ops /\ At(r, "idle") /\ s \in session /\ ~user.banned
       /\ ~\E k \in Proofs : IsLast(k, kind) /\ good(k)
       /\ Store(r, Issued(kind, s.id, user.email))
       /\ UNCHANGED <<account, log, tried, effect>>

(* What a code must be to switch the setting.                              *)
Counts(k, s) ==
    /\ proof[k].st = "live" /\ proof[k].session = s.id
    /\ proof[k].email = user.email

(* A wrong code commits its count and nothing else (settingsTransaction).  *)
(* Slip: the transaction rolls back with the error. *)
WrongSettingRolledBack(s, k) ==
    /\ s \in session /\ ~user.banned /\ proof[k].kind \in Setting /\ Counts(k, s)
    /\ tried[k] < MaxWrong
    /\ tried' = [tried EXCEPT ![k] = @ + 1]
    /\ UNCHANGED <<account, req, log, proof, effect>>
WrongSetting(s, k) ==
    /\ s \in session /\ ~user.banned /\ proof[k].kind \in Setting /\ Counts(k, s)
    /\ tried[k] < MaxWrong
    /\ proof' = [proof EXCEPT ![k].attempts = IF @ < Cap THEN @ + 1 ELSE @]
    /\ tried' = [tried EXCEPT ![k] = @ + 1]
    /\ UNCHANGED <<account, req, log, effect>>

(* Enable and Disable by code: it is claimed under its cap with the change;*)
(* a setting that is already so ends no session.                           *)
ConfirmSetting(s, k, keepOthers) ==
    LET on == proof[k].kind = "enable" IN
    /\ s \in session /\ ~user.banned /\ proof[k].kind \in Setting
    /\ Counts(k, s) /\ proof[k].attempts < Cap
    /\ proof' = [proof EXCEPT ![k].st = "used"]
    /\ effect' = [effect EXCEPT ![k] = @ + 1]
    /\ user' = [user EXCEPT !.twofa = on]
    /\ session' = IF on /\ ~user.twofa /\ ~keepOthers THEN {s} ELSE session
    /\ UNCHANGED <<ops, challenge, reset, req, minted, chosen, wrong, proven, tried>>

-----------------------------------------------------------------------------
(* RequestSetPassword has no transaction: it reads the account, deletes    *)
(* the unused codes, stores its own.                                       *)
StartFirst(r) ==
    /\ "first" \in ops /\ At(r, "idle") /\ session # {} /\ user.hash = 0
    /\ req' = [req EXCEPT ![r] = [Idle EXCEPT !.pc = "clear", !.snap = Hashed]]
    /\ UNCHANGED <<account, log, proof, tried, effect>>
ClearFirst(r) ==
    /\ At(r, "clear") /\ Go(r, "issuefirst")
    /\ proof' = [k \in Proofs |-> IF proof[k].kind = "first" /\ Unused(proof[k])
                                  THEN [proof[k] EXCEPT !.st = "gone"] ELSE proof[k]]
    /\ UNCHANGED <<account, log, tried, effect>>
IssueFirst(r) ==
    /\ At(r, "issuefirst") /\ ~user.gone
    /\ Store(r, Issued("first", 0, req[r].snap.email))
    /\ UNCHANGED <<account, log, tried, effect>>

(* ConfirmSetPassword names the account, not a session; it compares the    *)
(* newest code and hashes the password before any lock ...                 *)
StartConfirmFirst(r, k) ==
    /\ "first" \in ops /\ At(r, "idle") /\ user.hash = 0 /\ ~user.gone
    /\ IsLast(k, "first") /\ proof[k].st = "live"
    /\ req' = [req EXCEPT ![r] = [Idle EXCEPT !.pc = "first", !.tok = k]]
    /\ UNCHANGED <<account, log, proof, tried, effect>>

(* ... and SetPasswordAndVerify looks at all of it again.                  *)
MayChoose(k) ==
    /\ user.hash = 0 /\ ~user.gone /\ ~user.banned
    /\ user.email = proof[k].email

(* The sessions of the account stay: they rest on its provider.            *)
CommitFirst(r) ==
    LET k == req[r].tok IN
    /\ At(r, "first") /\ MayChoose(k) /\ proof[k].st = "live"
    /\ minted.hash < MaxHash
    /\ minted' = [minted EXCEPT !.hash = @ + 1]
    /\ chosen' = chosen + 1
    /\ user' = [user EXCEPT !.hash = minted.hash + 1, !.pw = chosen + 1]
    /\ session' = {[s EXCEPT !.pw = chosen + 1] : s \in session}
    /\ proof' = [proof EXCEPT ![k].st = "used"]
    /\ effect' = [effect EXCEPT ![k] = @ + 1]
    /\ Done(r) /\ UNCHANGED <<ops, challenge, reset, wrong, proven, tried>>
RefuseFirst(r) ==
    /\ At(r, "first") /\ ~(MayChoose(req[r].tok) /\ proof[req[r].tok].st = "live") /\ Done(r)
    /\ UNCHANGED <<account, log, proof, tried, effect>>

-----------------------------------------------------------------------------
(* The row goes, with its sessions and, by cascade, its tokens.            *)
CloseAccount(tokens) ==
    /\ user' = [user EXCEPT !.gone = TRUE, !.hash = 0]
    /\ session' = {}
    /\ challenge' = Deleted(challenge) /\ reset' = Deleted(reset)
    /\ proof' = Deleted(tokens)

(* DeleteAccount compares the password before any lock ...                 *)
StartClose(r) ==
    /\ "close" \in ops /\ At(r, "idle") /\ session # {} /\ user.hash # 0
    /\ req' = [req EXCEPT ![r] = [Idle EXCEPT !.pc = "close", !.snap = [user EXCEPT !.stale = FALSE]]]
    /\ UNCHANGED <<account, log, proof, tried, effect>>
(* ... and closes the account it compared it with.                         *)
CommitClose(r) ==
    /\ At(r, "close") /\ Identity(req[r].snap)
    /\ CloseAccount(proof)
    /\ Done(r) /\ UNCHANGED <<ops, minted, chosen, wrong, proven, tried, effect>>
RefuseClose(r) ==
    /\ At(r, "close") /\ ~Identity(req[r].snap) /\ Done(r)
    /\ UNCHANGED <<account, log, proof, tried, effect>>

(* RequestDeleteAccount, of an account without a password: a good code is  *)
(* left to be used, otherwise one is stored, in statements of their own.   *)
StartCloseCode(r) ==
    /\ "closecode" \in ops /\ At(r, "idle") /\ session # {} /\ user.hash = 0
    /\ req' = [req EXCEPT ![r] = [Idle EXCEPT !.pc = "closecode", !.snap = Hashed]]
    /\ UNCHANGED <<account, log, proof, tried, effect>>
CheckCloseCode(r) ==
    /\ At(r, "closecode")
    /\ IF \E k \in Rows("close") : proof[k].st = "live" THEN Done(r) ELSE Go(r, "issueclose")
    /\ UNCHANGED <<account, log, proof, tried, effect>>
IssueCloseCode(r) ==
    /\ At(r, "issueclose") /\ ~user.gone
    /\ Store(r, Issued("close", 0, req[r].snap.email))
    /\ UNCHANGED <<account, log, tried, effect>>

(* ConfirmDeleteAccount, from a session: the newest code is compared, then *)
(* claimed in the transaction that deletes (deleteWithCode).  Slip: used   *)
(* by whoever read it. *)
StartConfirmClose(r, k) ==
    /\ "closecode" \in ops /\ At(r, "idle") /\ session # {}
    /\ IsLast(k, "close") /\ proof[k].st = "live"
    /\ req' = [req EXCEPT ![r] = [Idle EXCEPT !.pc = "claimclose", !.tok = k]]
    /\ UNCHANGED <<account, log, proof, tried, effect>>
CloseClaimed(k) == ~user.gone
CloseClaimable(k) == proof[k].st = "live"
CommitConfirmClose(r) ==
    LET k == req[r].tok IN
    /\ At(r, "claimclose") /\ CloseClaimable(k)
    /\ CloseAccount(proof)
    /\ effect' = [effect EXCEPT ![k] = @ + 1]
    /\ Done(r) /\ UNCHANGED <<ops, minted, chosen, wrong, proven, tried>>
RefuseConfirmClose(r) ==
    /\ At(r, "claimclose") /\ ~CloseClaimable(req[r].tok) /\ Done(r)
    /\ UNCHANGED <<account, log, proof, tried, effect>>

-----------------------------------------------------------------------------
(* The address changes (the module EmailChange): the sessions and every    *)
(* token of the account go in that transaction.                            *)
Readdress ==
    /\ "readdress" \in ops /\ user.email = 0 /\ ~user.gone
    /\ user' = [user EXCEPT !.email = 1]
    /\ session' = {}
    /\ challenge' = Deleted(challenge) /\ reset' = Deleted(reset) /\ proof' = Deleted(proof)
    /\ UNCHANGED <<ops, req, minted, chosen, wrong, proven, tried, effect>>

ExpireProof(k) ==
    /\ proof[k].st = "live"
    /\ proof' = [proof EXCEPT ![k].st = "expired"]
    /\ UNCHANGED <<account, req, log, tried, effect>>

-----------------------------------------------------------------------------
(* What a request to the handlers may ask for. *)
Settings ==
    \E s \in session :
        \/ \E r \in Req, kind \in Setting : RequestSetting(r, s, kind)
        \/ \E k \in Proofs : WrongSetting(s, k) \/ \E keep \in BOOLEAN : ConfirmSetting(s, k, keep)
FirstPassword(r) ==
    \/ StartFirst(r) \/ ClearFirst(r) \/ IssueFirst(r)
    \/ \E k \in Proofs : StartConfirmFirst(r, k)
    \/ CommitFirst(r) \/ RefuseFirst(r)
Closing(r) ==
    \/ StartClose(r) \/ CommitClose(r) \/ RefuseClose(r)
    \/ StartCloseCode(r) \/ CheckCloseCode(r) \/ IssueCloseCode(r)
    \/ \E k \in Proofs : StartConfirmClose(r, k)
    \/ CommitConfirmClose(r) \/ RefuseConfirmClose(r)

AccountNext ==
    \/ Next /\ UNCHANGED proofVars
    \/ \E r \in Req : FirstPassword(r) \/ Closing(r) \/ ProofSent(r) \/ ProofUndelivered(r)
    \/ Settings
    \/ Readdress
    \/ \E k \in Proofs : ExpireProof(k)

AccountSpec == AccountInit /\ [][AccountNext]_accountVars

-----------------------------------------------------------------------------
(* A code has its effect once, and before Cap wrong ones were answered for *)
(* it: a login's over all its resends and however the guesses overlapped   *)
(* (Resend: "attempts live on that row and are never reset"; a guess whose *)
(* count failed is outside this promise), a setting's although the guess   *)
(* is refused (settingsTransaction: "Failed guesses must commit their      *)
(* counter without committing any setting change").  A setting is switched *)
(* by the session that asked, still alive; a first password replaces none  *)
(* (ConfirmSetPassword: "Concurrent requests can leave distinct live codes;*)
(* the guarded password write still permits only one winner"); and neither *)
(* comes from a code in a mailbox the account has left.                    *)
CodesHold ==
    [][/\ \A c \in Challenges : proven'[c] # proven[c] => wrong[c] < Cap /\ proven[c] = 0
       /\ \A k \in Proofs : effect'[k] # effect[k] =>
            /\ effect[k] = 0
            /\ proof[k].kind \in Setting =>
                 tried[k] < Cap /\ \E s \in session : s.id = proof[k].session
            /\ proof[k].kind = "first" => user.hash = 0
            /\ proof[k].kind # "close" => proof[k].email = user.email]_accountVars

(* An account closes for the password it has at that moment, unbanned, or  *)
(* for a code that is still good: not for a password replaced, nor a code  *)
(* used up or withdrawn, since it was compared (docs/security.mdx, of the  *)
(* password: "authentication-state change that wins that race rejects the  *)
(* stale deletion").                                                       *)
ClosedByOwner ==
    [][user'.gone /\ ~user.gone =>
        \E r \in Req :
            /\ req'[r] # req[r]
            /\ \/ At(r, "close") /\ req[r].snap.pw = chosen /\ ~user.banned
               \/ At(r, "claimclose") /\ proof[req[r].tok].st = "live"]_accountVars
=============================================================================
