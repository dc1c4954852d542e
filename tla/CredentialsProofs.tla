------------------------- MODULE CredentialsProofs -------------------------
(***************************************************************************)
(* Theorems about AccountProofs, and so about the logins and passwords of  *)
(* Credentials it adds to, for any requests, plans of operations and       *)
(* bounds.                                                                 *)
(*                                                                         *)
(* A request holds a snapshot of the account.  What makes the comparison   *)
(* of hashes enough is that every hash written is new: the hash a request  *)
(* read is the account's own only while the password is the one it read.   *)
(***************************************************************************)
EXTENDS AccountProofs, FiniteSetTheorems, TLAPS

Steps == {"idle", "rehash", "issue", "mail", "guess", "claim", "forgot", "reset", "change",
          "proofmail", "clear", "issuefirst", "first", "close", "closecode", "issueclose",
          "claimclose"}
Requests == [pc : Steps, snap : User, tok : Nat, code : Nat]
Codes == [st : Status, kind : Setting \cup {"none", "first", "close"}, session : Nat,
          email : 0..1, attempts : 0..Cap]

Typed ==
    /\ user \in User /\ session \subseteq Session
    /\ challenge \in [Challenges -> Challenge] /\ reset \in [Resets -> ResetToken]
    /\ req \in [Req -> Requests]
    /\ minted \in [hash : 0..MaxHash, session : 0..MaxSession] /\ chosen \in Nat
    /\ wrong \in [Challenges -> Nat] /\ proven \in [Challenges -> Nat]
    /\ proof \in [Proofs -> Codes] /\ tried \in [Proofs -> Nat] /\ effect \in [Proofs -> Nat]

(* The account and its sessions rest on the password chosen last. *)
AccountTrue ==
    /\ user.pw = chosen /\ user.hash <= minted.hash
    /\ \A s \in session : s.pw = chosen
    /\ BannedLoggedOut

(* A challenge that may still be answered was issued for that password, has *)
(* let nobody in, and counts what was guessed wrong.                        *)
ChallengesTrue ==
    \A c \in Challenges :
        /\ challenge[c].st = "none" =>
             challenge[c] = NoChallenge /\ wrong[c] = 0 /\ proven[c] = 0
        /\ Unused(challenge[c]) =>
             /\ challenge[c].pw = chosen /\ user.hash # 0 /\ proven[c] = 0
             /\ challenge[c].attempts < Cap => wrong[c] <= challenge[c].attempts

(* One reset link at most may be followed, and it is for that password. *)
ResetsTrue ==
    /\ \A k \in Resets : Unused(reset[k]) => reset[k].pw = chosen /\ user.hash # 0
    /\ \A j, k \in Resets : Unused(reset[j]) /\ Unused(reset[k]) => j = k

ProofsTrue ==
    \A k \in Proofs :
        /\ proof[k].st = "none" => proof[k] = NoProof /\ tried[k] = 0 /\ effect[k] = 0
        /\ Unused(proof[k]) =>
             effect[k] = 0 /\ (proof[k].attempts < Cap => tried[k] <= proof[k].attempts)

(* A snapshot whose hash is still the account's tells its password. *)
ReqTrue(r) ==
    /\ req[r].snap.hash <= minted.hash
    /\ req[r].snap.hash # 0 /\ req[r].snap.hash = user.hash => req[r].snap.pw = user.pw
    /\ req[r].pc \in {"rehash", "issue", "forgot", "close"} => req[r].snap.hash # 0
    /\ req[r].pc \in {"guess", "claim"} =>
         req[r].tok \in Challenges /\ challenge[req[r].tok].st # "none"
    /\ req[r].pc = "first" => req[r].tok \in Proofs /\ proof[req[r].tok].kind = "first"
    /\ req[r].pc = "claimclose" => req[r].tok \in Proofs /\ proof[req[r].tok].kind = "close"

IInv ==
    /\ Typed /\ AccountTrue /\ ChallengesTrue /\ ResetsTrue /\ ProofsTrue
    /\ \A r \in Req : ReqTrue(r)

USE CredentialsAssumption, ProofAssumption

-----------------------------------------------------------------------------
(* What the steps of other requests leave of what a request knows. *)

Steady ==
    /\ minted.hash <= minted'.hash
    /\ \/ user'.hash = user.hash /\ user'.pw = user.pw
       \/ user'.hash = 0
       \/ user'.hash > minted.hash
    /\ \A c \in Challenges : challenge[c].st # "none" => challenge'[c].st # "none"
    /\ \A k \in Proofs : proof[k].kind # "none" => proof'[k].kind = proof[k].kind

LEMMA WaitingStays ==
    ASSUME Typed, Typed', Steady, NEW r \in Req, ReqTrue(r), req'[r] = req[r]
    PROVE  ReqTrue(r)'
<1>1. /\ req[r].snap.hash \in Nat /\ minted.hash \in Nat /\ minted'.hash \in Nat
      /\ user.hash \in Nat /\ user'.hash \in Nat
  BY DEF Typed, Requests, User
<1>2. req[r].snap.hash <= minted'.hash
  BY <1>1 DEF ReqTrue, Steady
<1>3. req[r].snap.hash # 0 /\ req[r].snap.hash = user'.hash => req[r].snap.pw = user'.pw
  BY <1>1 DEF ReqTrue, Steady
<1>4. req[r].pc \in {"guess", "claim"} => challenge'[req[r].tok].st # "none"
  BY DEF ReqTrue, Steady
<1>5. /\ req[r].pc = "first" => proof'[req[r].tok].kind = "first"
      /\ req[r].pc = "claimclose" => proof'[req[r].tok].kind = "close"
  BY DEF ReqTrue, Steady
<1>6. QED
  BY <1>2, <1>3, <1>4, <1>5 DEF ReqTrue

(* What is left to show of a step, when it is steady. *)
LEMMA Preserved ==
    ASSUME IInv, Typed', Steady, AccountTrue', ChallengesTrue', ResetsTrue', ProofsTrue',
           \A r \in Req : ReqTrue(r)' \/ req'[r] = req[r]
    PROVE  IInv'
<1>1. ASSUME NEW r \in Req PROVE ReqTrue(r)'
  BY WaitingStays DEF IInv
<1>2. QED
  BY <1>1 DEF IInv

LEMMA ChallengesLeft ==
    ASSUME ChallengesTrue, UNCHANGED <<challenge, wrong, proven, chosen>>,
           user.hash # 0 => user'.hash # 0
    PROVE  ChallengesTrue'
BY DEF ChallengesTrue, Unused

LEMMA ResetsLeft ==
    ASSUME ResetsTrue, UNCHANGED <<reset, chosen>>, user.hash # 0 => user'.hash # 0
    PROVE  ResetsTrue'
BY DEF ResetsTrue, Unused

LEMMA ProofsLeft ==
    ASSUME ProofsTrue, UNCHANGED proofVars
    PROVE  ProofsTrue'
BY DEF ProofsTrue, Unused, proofVars

LEMMA BoundsTyped ==
    /\ Cap \in Nat \ {0} /\ MaxHash \in Nat \ {0} /\ Refreshes \in Nat /\ MaxSession \in Nat
    /\ MaxChallenge \in Nat /\ MaxReset \in Nat /\ MaxWrong \in Nat
OBVIOUS

LEMMA IdleTyped == Idle \in Requests /\ NoSnap \in User
<1>1. NoSnap \in User
  BY BoundsTyped DEF NoSnap, User
<1>2. "idle" \in Steps
  BY DEF Steps
<1>3. QED
  BY <1>1, <1>2 DEF Idle, Requests

LEMMA IdleTrue ==
    ASSUME Typed', NEW r, req'[r] = Idle
    PROVE  ReqTrue(r)'
<1>1. minted'.hash \in Nat
  BY DEF Typed
<1>2. QED
  BY <1>1 DEF ReqTrue, Idle, NoSnap

(* All but the requests. *)
others == <<user, session, challenge, reset, minted, chosen, wrong, proven, proof, tried, effect>>

(* A request moves and nothing else does. *)
LEMMA ReqOnly ==
    ASSUME IInv, UNCHANGED others, NEW r \in Req, NEW next \in Requests,
           req' = [req EXCEPT ![r] = next], ReqTrue(r)'
    PROVE  IInv'
<1>1. Typed'
  BY DEF IInv, Typed, others
<1>2. Steady
  BY DEF Steady, IInv, Typed, User, others
<1>3. AccountTrue'
  BY DEF IInv, AccountTrue, BannedLoggedOut, others
<1>4. ChallengesTrue' /\ ResetsTrue' /\ ProofsTrue'
  BY ChallengesLeft, ResetsLeft, ProofsLeft DEF IInv, others, proofVars
<1>5. \A v \in Req : ReqTrue(v)' \/ req'[v] = req[v]
  BY DEF IInv, Typed
<1>6. QED
  BY <1>1, <1>2, <1>3, <1>4, <1>5, Preserved

(* A refusal, a failure, or a mail. *)
LEMMA Refused ==
    ASSUME IInv, UNCHANGED others, NEW r \in Req, Done(r)
    PROVE  IInv'
<1>1. Typed'
  BY IdleTyped DEF IInv, Typed, others, Done
<1>2. ReqTrue(r)'
  BY <1>1, IdleTrue DEF Done, IInv, Typed
<1>3. QED
  BY <1>2, IdleTyped, ReqOnly DEF Done

(* A request reads the account. *)
LEMMA Snapped ==
    ASSUME IInv, UNCHANGED others, NEW r \in Req, NEW next \in Requests,
           next.snap.hash = user.hash, next.snap.pw = user.pw,
           next.pc \notin {"guess", "claim", "first", "claimclose"},
           next.pc \in {"rehash", "issue", "forgot", "close"} => user.hash # 0,
           req' = [req EXCEPT ![r] = next]
    PROVE  IInv'
<1>1. req'[r] = next
  BY DEF IInv, Typed
<1>2. user.hash <= minted.hash /\ UNCHANGED <<user, minted>>
  BY DEF IInv, AccountTrue, others
<1>3. ReqTrue(r)'
  BY <1>1, <1>2 DEF ReqTrue
<1>4. QED
  BY <1>3, ReqOnly

(* A request takes a step with what it has read. *)
LEMMA Advanced ==
    ASSUME IInv, UNCHANGED others, NEW r \in Req, NEW pc \in Steps,
           pc \notin {"guess", "claim", "first", "claimclose"},
           pc \in {"rehash", "issue", "forgot", "close"} => req[r].snap.hash # 0,
           req' = [req EXCEPT ![r].pc = pc]
    PROVE  IInv'
<1> DEFINE next == [req[r] EXCEPT !.pc = pc]
<1>1. req[r] \in Requests
  BY DEF IInv, Typed
<1>2. next \in Requests
  BY <1>1 DEF Requests
<1>3. next.pc = pc /\ next.snap = req[r].snap
  BY <1>1 DEF Requests
<1>4. req' = [req EXCEPT ![r] = next] /\ req'[r] = next
  BY DEF IInv, Typed
<1> HIDE DEF next
<1>5. ReqTrue(r)'
  BY <1>3, <1>4 DEF ReqTrue, IInv, others
<1>6. QED
  BY <1>2, <1>4, <1>5, ReqOnly

(* A request holds a token to answer. *)
LEMMA Presented ==
    ASSUME IInv, UNCHANGED others, NEW r \in Req, NEW next \in Requests, next.snap = NoSnap,
           next.pc \notin {"rehash", "issue", "forgot", "close"},
           next.pc \in {"guess", "claim"} =>
             next.tok \in Challenges /\ challenge[next.tok].st # "none",
           next.pc = "first" => next.tok \in Proofs /\ proof[next.tok].kind = "first",
           next.pc = "claimclose" => next.tok \in Proofs /\ proof[next.tok].kind = "close",
           req' = [req EXCEPT ![r] = next]
    PROVE  IInv'
<1>1. req'[r] = next
  BY DEF IInv, Typed
<1>2. minted'.hash \in Nat /\ UNCHANGED <<challenge, proof>>
  BY DEF IInv, Typed, others
<1>3. ReqTrue(r)'
  BY <1>1, <1>2 DEF ReqTrue, NoSnap
<1>4. QED
  BY <1>3, ReqOnly

-----------------------------------------------------------------------------
(* The steps that change a request only. *)

LEMMA Snapshots ==
    ASSUME Typed
    PROVE  /\ Hashed \in User /\ Hashed.hash = user.hash /\ Hashed.pw = user.pw
           /\ [user EXCEPT !.stale = FALSE] \in User
           /\ [user EXCEPT !.stale = FALSE].hash = user.hash
           /\ [user EXCEPT !.stale = FALSE].pw = user.pw
<1>1. user \in User
  BY DEF Typed
<1>2. Hashed \in User
  BY <1>1, BoundsTyped DEF Hashed, NoSnap, User
<1>3. Hashed.hash = user.hash /\ Hashed.pw = user.pw
  BY DEF Hashed, NoSnap
<1>4. [user EXCEPT !.stale = FALSE] \in User
  BY <1>1 DEF User
<1>5. QED
  BY <1>1, <1>2, <1>3, <1>4 DEF User

(* The account is read, for one thing or another. *)
LEMMA StartKeeps ==
    ASSUME IInv, UNCHANGED others, NEW r \in Req, NEW pc \in Steps, NEW snap \in User,
           NEW tok \in Nat, NEW next,
           \/ next = [Idle EXCEPT !.pc = pc, !.snap = snap]
           \/ next = [Idle EXCEPT !.snap = snap, !.pc = pc]
           \/ next = [Idle EXCEPT !.pc = pc, !.snap = snap, !.tok = tok],
           snap.hash = user.hash, snap.pw = user.pw,
           pc \notin {"guess", "claim", "first", "claimclose"},
           pc \in {"rehash", "issue", "forgot", "close"} => user.hash # 0,
           req' = [req EXCEPT ![r] = next]
    PROVE  IInv'
<1>1. next.pc = pc /\ next.snap = snap
  BY DEF Idle
<1>2. next \in Requests
  BY IdleTyped DEF Idle, Requests
<1>3. QED
  BY <1>1, <1>2, Snapped

LEMMA StartLoginKeeps ==
    ASSUME IInv, NEW r \in Req, StartLogin(r), UNCHANGED proofVars
    PROVE  IInv'
<1> DEFINE pc == IF user.stale THEN "rehash" ELSE "issue"
           snap == [user EXCEPT !.stale = FALSE]
<1>1. pc \in Steps /\ pc \notin {"guess", "claim", "first", "claimclose"}
  BY DEF Steps
<1>2. snap \in User /\ snap.hash = user.hash /\ snap.pw = user.pw
  BY Snapshots DEF IInv
<1>3. req' = [req EXCEPT ![r] = [Idle EXCEPT !.snap = snap, !.pc = pc]] /\ user.hash # 0
  BY DEF StartLogin
<1>4. UNCHANGED others /\ 0 \in Nat
  BY DEF StartLogin, proofVars, others
<1> HIDE DEF pc, snap
<1>5. QED
  BY <1>1, <1>2, <1>3, <1>4, StartKeeps

LEMMA StartCloseKeeps ==
    ASSUME IInv, NEW r \in Req, StartClose(r)
    PROVE  IInv'
<1> DEFINE snap == [user EXCEPT !.stale = FALSE]
<1>1. snap \in User /\ snap.hash = user.hash /\ snap.pw = user.pw
  BY Snapshots DEF IInv
<1>2. req' = [req EXCEPT ![r] = [Idle EXCEPT !.pc = "close", !.snap = snap]] /\ user.hash # 0
  BY DEF StartClose
<1>3. UNCHANGED others /\ 0 \in Nat /\ "close" \in Steps
  BY DEF StartClose, account, log, others, Steps
<1> HIDE DEF snap
<1>4. QED
  BY <1>1, <1>2, <1>3, StartKeeps

(* The starts that read the hash only. *)
LEMMA HashedKeeps ==
    ASSUME IInv, UNCHANGED others, NEW r \in Req, NEW tok \in Nat,
           NEW pc \in {"forgot", "reset", "change", "clear", "closecode"},
           pc = "forgot" => user.hash # 0,
           \/ req' = [req EXCEPT ![r] = [Idle EXCEPT !.pc = pc, !.snap = Hashed]]
           \/ req' = [req EXCEPT ![r] = [Idle EXCEPT !.pc = pc, !.snap = Hashed, !.tok = tok]]
    PROVE  IInv'
<1>1. pc \in Steps
  BY DEF Steps
<1>2. Hashed \in User /\ Hashed.hash = user.hash /\ Hashed.pw = user.pw
  BY Snapshots DEF IInv
<1>3. PICK next :
        /\ req' = [req EXCEPT ![r] = next]
        /\ \/ next = [Idle EXCEPT !.pc = pc, !.snap = Hashed]
           \/ next = [Idle EXCEPT !.pc = pc, !.snap = Hashed, !.tok = tok]
  OBVIOUS
<1>4. QED
  BY <1>1, <1>2, <1>3, StartKeeps

LEMMA HashedStartsKeep ==
    ASSUME IInv, NEW r \in Req,
           \/ /\ \/ StartForgot(r) \/ \E k \in Resets : StartReset(r, k)
                 \/ \E keep \in 0..MaxSession : StartChange(r, keep)
              /\ UNCHANGED proofVars
           \/ StartFirst(r) \/ StartCloseCode(r)
    PROVE  IInv'
<1>1. UNCHANGED others
  BY DEF StartForgot, StartReset, StartChange, StartFirst, StartCloseCode, proofVars, account,
         log, others
<1>2. 0 \in Nat /\ \A k \in Resets \cup 0..MaxSession : k \in Nat
  BY BoundsTyped DEF Resets
<1>3. CASE StartForgot(r)
  BY <1>1, <1>2, <1>3, HashedKeeps DEF StartForgot
<1>4. CASE \E k \in Resets : StartReset(r, k)
  BY <1>1, <1>2, <1>4, HashedKeeps DEF StartReset
<1>5. CASE \E keep \in 0..MaxSession : StartChange(r, keep)
  BY <1>1, <1>2, <1>5, HashedKeeps DEF StartChange
<1>6. CASE StartFirst(r) \/ StartCloseCode(r)
  BY <1>1, <1>2, <1>6, HashedKeeps DEF StartFirst, StartCloseCode
<1>7. QED
  BY <1>3, <1>4, <1>5, <1>6

LEMMA StartVerifyKeeps ==
    ASSUME IInv, NEW r \in Req, NEW c \in Challenges, NEW code \in 0..(Refreshes + 1),
           StartVerify(r, c, code), UNCHANGED proofVars
    PROVE  IInv'
<1> DEFINE pc == IF code = challenge[c].code THEN "claim" ELSE "guess"
           next == [Idle EXCEPT !.tok = c, !.code = code, !.pc = pc]
<1>1. pc \in Steps /\ pc \in {"claim", "guess"}
  BY DEF Steps
<1>2. req' = [req EXCEPT ![r] = next] /\ challenge[c].st # "none"
  BY DEF StartVerify
<1>3. UNCHANGED others
  BY DEF StartVerify, proofVars, others
<1>4. c \in Nat /\ code \in Nat
  BY BoundsTyped DEF Challenges
<1> HIDE DEF pc
<1>5. next.pc = pc /\ next.tok = c /\ next.snap = NoSnap
  BY DEF Idle
<1>6. next \in Requests
  BY <1>1, <1>4, IdleTyped DEF Idle, Requests
<1> HIDE DEF next
<1>7. QED
  BY <1>1, <1>2, <1>3, <1>5, <1>6, Presented

LEMMA StartConfirmKeeps ==
    ASSUME IInv, NEW r \in Req, NEW k \in Proofs,
           StartConfirmFirst(r, k) \/ StartConfirmClose(r, k)
    PROVE  IInv'
<1>1. UNCHANGED others /\ k \in Nat /\ 0 \in Nat
  BY ProofAssumption DEF StartConfirmFirst, StartConfirmClose, account, log, others, Proofs
<1>2. PICK pc \in {"first", "claimclose"} :
        /\ req' = [req EXCEPT ![r] = [Idle EXCEPT !.pc = pc, !.tok = k]]
        /\ proof[k].kind = IF pc = "first" THEN "first" ELSE "close"
  BY DEF StartConfirmFirst, StartConfirmClose, IsLast, Rows
<1>3. pc \in Steps
  BY DEF Steps
<1> DEFINE next == [Idle EXCEPT !.pc = pc, !.tok = k]
<1>4. next.pc = pc /\ next.tok = k /\ next.snap = NoSnap
  BY DEF Idle
<1>5. next \in Requests
  BY <1>1, <1>3, IdleTyped DEF Idle, Requests
<1>6. req' = [req EXCEPT ![r] = next]
  BY <1>2
<1> HIDE DEF next
<1>7. QED
  BY <1>1, <1>2, <1>4, <1>5, <1>6, Presented

LEMMA RehashSkippedKeeps ==
    ASSUME IInv, NEW r \in Req, RehashSkipped(r), UNCHANGED proofVars
    PROVE  IInv'
<1>1. UNCHANGED others /\ req' = [req EXCEPT ![r].pc = "issue"] /\ req[r].pc = "rehash"
  BY DEF RehashSkipped, At, proofVars, others
<1>2. req[r].snap.hash # 0
  BY <1>1 DEF IInv, ReqTrue
<1>3. QED
  BY <1>1, <1>2, Advanced DEF Steps

LEMMA CheckCloseCodeKeeps ==
    ASSUME IInv, NEW r \in Req, CheckCloseCode(r)
    PROVE  IInv'
<1>1. UNCHANGED others
  BY DEF CheckCloseCode, account, log, others
<1>2. Done(r) \/ req' = [req EXCEPT ![r].pc = "issueclose"]
  BY DEF CheckCloseCode, Go
<1>3. QED
  BY <1>1, <1>2, Refused, Advanced DEF Steps

(* A request ends and leaves everything as it was. *)
LEMMA EndsKeep ==
    ASSUME IInv, NEW r \in Req,
           \/ /\ RefuseLogin(r) \/ MailSent(r) \/ ClaimRefused(r) \/ Conflict(r) \/ Fail(r)
              /\ UNCHANGED proofVars
           \/ ProofSent(r) \/ RefuseFirst(r) \/ RefuseClose(r) \/ RefuseConfirmClose(r)
    PROVE  IInv'
<1>1. Done(r) /\ UNCHANGED others
  BY DEF RefuseLogin, MailSent, ClaimRefused, Conflict, Fail, ProofSent, RefuseFirst, RefuseClose,
         RefuseConfirmClose, account, log, proofVars, others
<1>2. QED
  BY <1>1, Refused

-----------------------------------------------------------------------------
(* The steps that change challenges. *)

LEMMA ChallengesMove ==
    ASSUME IInv, challenge' \in [Challenges -> Challenge], wrong' \in [Challenges -> Nat],
           ChallengesTrue',
           \A c \in Challenges : challenge[c].st # "none" => challenge'[c].st # "none",
           UNCHANGED <<user, session, reset, minted, chosen, proven, proof, tried, effect>>,
           req' \in [Req -> Requests],
           \A r \in Req : ReqTrue(r)' \/ req'[r] = req[r]
    PROVE  IInv'
<1>1. Typed'
  BY DEF IInv, Typed
<1>2. Steady
  BY DEF Steady, IInv, Typed, User
<1>3. AccountTrue'
  BY DEF IInv, AccountTrue, BannedLoggedOut
<1>4. ResetsTrue' /\ ProofsTrue'
  BY ResetsLeft, ProofsLeft DEF IInv, proofVars
<1>5. QED
  BY <1>1, <1>2, <1>3, <1>4, Preserved

(* A request that ends, among the others. *)
LEMMA OneEnds ==
    ASSUME IInv, NEW r \in Req, Done(r), minted'.hash \in Nat
    PROVE  req' \in [Req -> Requests] /\ \A v \in Req : ReqTrue(v)' \/ req'[v] = req[v]
<1>1. req' \in [Req -> Requests]
  BY IdleTyped DEF IInv, Typed, Done
<1>2. req'[r] = Idle
  BY DEF IInv, Typed, Done
<1>3. ReqTrue(r)'
  BY <1>2 DEF ReqTrue, Idle, NoSnap
<1>4. QED
  BY <1>1, <1>3 DEF IInv, Typed, Done

(* One row changes its state, and not its password or its count. *)
LEMMA ChallengeEnds ==
    ASSUME IInv, NEW c, NEW st \in Status \ {"none"},
           c \in Challenges => challenge[c].st # "none",
           c \in Challenges /\ st \in {"live", "expired"} => Unused(challenge[c]),
           challenge' = [challenge EXCEPT ![c].st = st],
           UNCHANGED <<user, wrong, chosen, proven>>
    PROVE  /\ challenge' \in [Challenges -> Challenge] /\ ChallengesTrue'
           /\ \A d \in Challenges : challenge[d].st # "none" => challenge'[d].st # "none"
<1>1. \A d \in Challenges : challenge[d] \in Challenge
  BY DEF IInv, Typed
<1>2. \A d \in Challenges :
        /\ challenge'[d].st = IF d = c THEN st ELSE challenge[d].st
        /\ challenge'[d].pw = challenge[d].pw /\ challenge'[d].attempts = challenge[d].attempts
        /\ d # c => challenge'[d] = challenge[d]
  BY <1>1 DEF IInv, Typed, Challenge
<1>3. challenge' \in [Challenges -> Challenge]
  BY <1>1 DEF IInv, Typed, Challenge
<1>4. ChallengesTrue'
  BY <1>2 DEF IInv, ChallengesTrue, Unused
<1>5. QED
  BY <1>2, <1>3, <1>4

LEMMA MailFailsKeeps ==
    ASSUME IInv, NEW r \in Req, MailFails(r), UNCHANGED proofVars
    PROVE  IInv'
<1>1. /\ Done(r)
      /\ UNCHANGED <<user, session, reset, minted, chosen, wrong, proven, proof, tried, effect>>
  BY DEF MailFails, proofVars
<1>2. PICK c : c = req[r].tok
  OBVIOUS
<1>3. challenge' = [challenge EXCEPT ![c].st = IF Unused(challenge[c]) THEN "used" ELSE @]
  BY <1>2 DEF MailFails
<1>4. CASE Unused(challenge[c])
  <2>1. challenge' = [challenge EXCEPT ![c].st = "used"] /\ challenge[c].st # "none"
    BY <1>3, <1>4 DEF Unused
  <2>2. "used" \in Status \ {"none"} /\ minted'.hash \in Nat /\ wrong' \in [Challenges -> Nat]
    BY <1>1 DEF Status, IInv, Typed
  <2>3. QED
    BY <1>1, <2>1, <2>2, ChallengeEnds, OneEnds, ChallengesMove
<1>5. CASE ~Unused(challenge[c])
  <2>1. UNCHANGED challenge
    BY <1>3, <1>5 DEF IInv, Typed, Challenge
  <2>2. QED
    BY <1>1, <2>1, Refused DEF others
<1>6. QED
  BY <1>4, <1>5

LEMMA ExpireKeeps ==
    ASSUME IInv, NEW c \in Challenges, Expire(c), UNCHANGED proofVars
    PROVE  IInv'
<1>1. /\ challenge' = [challenge EXCEPT ![c].st = "expired"] /\ challenge[c].st = "live"
      /\ UNCHANGED <<user, session, reset, req, minted, chosen, wrong, proven, proof, tried,
                     effect>>
  BY DEF Expire, proofVars
<1>2. "expired" \in Status \ {"none"} /\ Unused(challenge[c])
  BY <1>1 DEF Status, Unused
<1>3. req' \in [Req -> Requests] /\ wrong' \in [Challenges -> Nat]
  BY <1>1 DEF IInv, Typed
<1>4. QED
  BY <1>1, <1>2, <1>3, ChallengeEnds, ChallengesMove

LEMMA ResendKeeps ==
    ASSUME IInv, NEW c \in Challenges, Resend(c), UNCHANGED proofVars
    PROVE  IInv'
<1> DEFINE new == [challenge[c] EXCEPT !.st = "live", !.code = challenge[c].code + 1,
                                       !.resends = challenge[c].resends + 1]
<1>1. /\ challenge' = [challenge EXCEPT ![c] = new]
      /\ Unused(challenge[c]) /\ challenge[c].resends < Refreshes
      /\ UNCHANGED <<user, session, reset, req, minted, chosen, wrong, proven, proof, tried,
                     effect>>
  <2>1. challenge' = [challenge EXCEPT ![c] = new]
    <3>1. [challenge EXCEPT ![c].st = "live", ![c].code = @ + 1, ![c].resends = @ + 1]
            = [challenge EXCEPT ![c] = new]
      BY DEF IInv, Typed, Challenge
    <3>2. QED
      BY <3>1 DEF Resend
  <2>2. QED
    BY <2>1 DEF Resend, proofVars
<1>2. challenge[c] \in Challenge
  BY DEF IInv, Typed
<1>3. challenge[c].code + 1 \in Nat /\ challenge[c].resends + 1 \in 0..Refreshes
  BY <1>1, <1>2, BoundsTyped DEF Challenge
<1>4. new \in Challenge
  BY <1>2, <1>3 DEF Challenge, Status
<1>5. new.st = "live" /\ new.attempts = challenge[c].attempts /\ new.pw = challenge[c].pw
  BY <1>2 DEF Challenge
<1> HIDE DEF new
<1>6. /\ challenge' \in [Challenges -> Challenge] /\ req' \in [Req -> Requests]
      /\ wrong' \in [Challenges -> Nat]
  BY <1>1, <1>4 DEF IInv, Typed
<1>7. \A d \in Challenges : challenge'[d] = IF d = c THEN new ELSE challenge[d]
  BY <1>1 DEF IInv, Typed
<1>8. ChallengesTrue'
  BY <1>1, <1>5, <1>7 DEF IInv, ChallengesTrue, Unused
<1>9. QED
  BY <1>1, <1>5, <1>6, <1>7, <1>8, ChallengesMove

LEMMA CountGuessKeeps ==
    ASSUME IInv, NEW r \in Req, CountGuess(r), UNCHANGED proofVars
    PROVE  IInv'
<1>1. PICK c : c = req[r].tok
  OBVIOUS
<1>2. c \in Challenges /\ challenge[c].st # "none" /\ challenge[c] \in Challenge
  BY <1>1 DEF CountGuess, At, IInv, ReqTrue, Typed
<1>3. PICK n : n = IF challenge[c].st \notin {"none", "gone"} /\ challenge[c].attempts < Cap
                     THEN challenge[c].attempts + 1 ELSE challenge[c].attempts
  OBVIOUS
<1> DEFINE new == [challenge[c] EXCEPT !.attempts = n]
<1>4. /\ challenge' = [challenge EXCEPT ![c] = new] /\ wrong' = [wrong EXCEPT ![c] = @ + 1]
      /\ Done(r)
      /\ UNCHANGED <<user, session, reset, minted, chosen, proven, proof, tried, effect>>
  BY <1>1, <1>3 DEF CountGuess, proofVars
<1>5. challenge[c].attempts \in 0..Cap /\ n \in 0..Cap
  BY <1>2, <1>3, BoundsTyped DEF Challenge
<1>6. new \in Challenge
  BY <1>2, <1>5 DEF Challenge
<1>7. new.st = challenge[c].st /\ new.pw = challenge[c].pw /\ new.attempts = n
  BY <1>2 DEF Challenge
<1> HIDE DEF new
<1>8. wrong[c] \in Nat /\ wrong[c] + 1 \in Nat /\ minted'.hash \in Nat
  BY <1>2, <1>4 DEF IInv, Typed
<1>9. /\ challenge' \in [Challenges -> Challenge] /\ wrong' \in [Challenges -> Nat]
      /\ \A d \in Challenges : /\ challenge'[d] = IF d = c THEN new ELSE challenge[d]
                               /\ wrong'[d] = IF d = c THEN wrong[c] + 1 ELSE wrong[d]
  BY <1>4, <1>6, <1>8 DEF IInv, Typed
<1>10. Unused(new) =>
         /\ new.pw = chosen /\ user.hash # 0 /\ proven[c] = 0
         /\ new.attempts < Cap => wrong[c] + 1 <= new.attempts
  <2> SUFFICES ASSUME Unused(new)
               PROVE  /\ new.pw = chosen /\ user.hash # 0 /\ proven[c] = 0
                      /\ new.attempts < Cap => wrong[c] + 1 <= new.attempts
    OBVIOUS
  <2>1. Unused(challenge[c]) /\ challenge[c].st \notin {"none", "gone"}
    BY <1>7 DEF Unused
  <2>2. /\ challenge[c].pw = chosen /\ user.hash # 0 /\ proven[c] = 0
        /\ challenge[c].attempts < Cap => wrong[c] <= challenge[c].attempts
    BY <1>2, <2>1 DEF IInv, ChallengesTrue
  <2>3. new.attempts < Cap => wrong[c] + 1 <= new.attempts
    BY <1>3, <1>5, <1>7, <1>8, <2>1, <2>2, BoundsTyped
  <2>4. QED
    BY <1>7, <2>2, <2>3
<1>11. ChallengesTrue'
  <2>1. ASSUME NEW d \in Challenges, d # c
        PROVE  /\ challenge'[d] = challenge[d] /\ wrong'[d] = wrong[d] /\ proven'[d] = proven[d]
    BY <1>4, <1>9, <2>1
  <2>2. challenge'[c] = new /\ wrong'[c] = wrong[c] + 1 /\ proven'[c] = proven[c]
    BY <1>2, <1>4, <1>9
  <2>3. user' = user /\ chosen' = chosen
    BY <1>4
  <2>4. QED
    BY <1>2, <1>7, <1>10, <2>1, <2>2, <2>3 DEF IInv, ChallengesTrue
<1>12. QED
  BY <1>2, <1>4, <1>7, <1>8, <1>9, <1>11, OneEnds, ChallengesMove

-----------------------------------------------------------------------------
(* A reset link is issued: it replaces the ones before. *)

LEMMA IssueResetKeeps ==
    ASSUME IInv, NEW r \in Req, IssueReset(r), UNCHANGED proofVars
    PROVE  IInv'
<1>1. /\ Done(r)
      /\ UNCHANGED <<user, session, challenge, minted, chosen, wrong, proven, proof, tried,
                     effect>>
  BY DEF IssueReset, proofVars
<1>2. CASE UNCHANGED reset
  BY <1>1, <1>2, Refused DEF others
<1>3. ASSUME NEW k \in Resets, SameHash(req[r].snap),
             reset' = [Revoked(reset, NoReset) EXCEPT ![k] = [st |-> "live", pw |-> req[r].snap.pw]]
      PROVE  IInv'
  <2> DEFINE new == [st |-> "live", pw |-> req[r].snap.pw]
             gone == [NoReset EXCEPT !.st = "gone"]
  <2>1. req[r].snap \in User /\ user \in User
    BY DEF IInv, Typed, Requests
  <2>2. req[r].snap.hash # 0 /\ user.hash = req[r].snap.hash /\ req[r].snap.pw = chosen
    BY <1>3 DEF IssueReset, At, IInv, ReqTrue, SameHash, AccountTrue
  <2>3. new \in ResetToken /\ new.pw = chosen
    BY <2>1, <2>2 DEF ResetToken, Status, User
  <2>4. gone \in ResetToken /\ ~Unused(gone)
    BY DEF NoReset, ResetToken, Status, Unused
  <2> HIDE DEF new, gone
  <2>5. Revoked(reset, NoReset) = [t \in Resets |-> IF Unused(reset[t]) THEN gone ELSE reset[t]]
    BY DEF Revoked, gone, IInv, Typed
  <2>6. reset' = [Revoked(reset, NoReset) EXCEPT ![k] = new]
    BY <1>3 DEF new
  <2>7. \A t \in Resets :
          reset'[t] = IF t = k THEN new ELSE IF Unused(reset[t]) THEN gone ELSE reset[t]
    BY <2>5, <2>6
  <2>8. reset' \in [Resets -> ResetToken]
    BY <2>3, <2>4, <2>5, <2>6 DEF IInv, Typed
  <2>9. \A t \in Resets : Unused(reset'[t]) => t = k
    BY <2>4, <2>7
  <2>10. ResetsTrue'
    <3>1. \A t \in Resets : Unused(reset'[t]) => reset'[t].pw = chosen'
      BY <1>1, <2>3, <2>7, <2>9
    <3>2. user'.hash # 0
      BY <1>1, <2>2
    <3>3. QED
      BY <2>9, <3>1, <3>2 DEF ResetsTrue, Unused
  <2>11. Typed'
    BY <1>1, <2>8, IdleTyped DEF IInv, Typed, Done
  <2>12. Steady
    BY <1>1 DEF Steady, IInv, Typed, User
  <2>13. AccountTrue' /\ ChallengesTrue' /\ ProofsTrue'
    BY <1>1, ChallengesLeft, ProofsLeft DEF IInv, AccountTrue, BannedLoggedOut, proofVars
  <2>14. \A v \in Req : ReqTrue(v)' \/ req'[v] = req[v]
    BY <1>1, <2>11, OneEnds DEF Typed
  <2>15. QED
    BY <2>10, <2>11, <2>12, <2>13, <2>14, Preserved
<1>4. QED
  BY <1>2, <1>3 DEF IssueReset

-----------------------------------------------------------------------------
(* The steps that change mailed codes. *)

LEMMA ProofsMove ==
    ASSUME IInv, proof' \in [Proofs -> Codes], tried' \in [Proofs -> Nat], ProofsTrue',
           \A k \in Proofs : proof[k].kind # "none" => proof'[k].kind = proof[k].kind,
           UNCHANGED <<user, session, challenge, reset, minted, chosen, wrong, proven, effect>>,
           req' \in [Req -> Requests],
           \A r \in Req : ReqTrue(r)' \/ req'[r] = req[r]
    PROVE  IInv'
<1>1. Typed'
  BY DEF IInv, Typed
<1>2. Steady
  BY DEF Steady, IInv, Typed, User
<1>3. AccountTrue' /\ ChallengesTrue' /\ ResetsTrue'
  BY ChallengesLeft, ResetsLeft DEF IInv, AccountTrue, BannedLoggedOut
<1>4. QED
  BY <1>1, <1>2, <1>3, Preserved

(* A code is withdrawn, expires or is used up. *)
LEMMA CodeEnds ==
    ASSUME IInv, NEW k, NEW st \in Status \ {"none", "live"},
           k \in Proofs => proof[k].st # "none",
           k \in Proofs /\ st = "expired" => Unused(proof[k]),
           proof' = [proof EXCEPT ![k].st = st], UNCHANGED <<tried, effect>>
    PROVE  /\ proof' \in [Proofs -> Codes] /\ ProofsTrue'
           /\ \A j \in Proofs : proof[j].kind # "none" => proof'[j].kind = proof[j].kind
<1>1. \A j \in Proofs : proof[j] \in Codes
  BY DEF IInv, Typed
<1>2. \A j \in Proofs :
        /\ proof'[j].st = IF j = k THEN st ELSE proof[j].st
        /\ proof'[j].kind = proof[j].kind /\ proof'[j].attempts = proof[j].attempts
        /\ j # k => proof'[j] = proof[j]
  BY <1>1 DEF IInv, Typed, Codes
<1>3. proof' \in [Proofs -> Codes]
  BY <1>1 DEF IInv, Typed, Codes
<1>4. ProofsTrue'
  BY <1>2 DEF IInv, ProofsTrue, Unused
<1>5. QED
  BY <1>2, <1>3, <1>4

LEMMA ProofUndeliveredKeeps ==
    ASSUME IInv, NEW r \in Req, ProofUndelivered(r)
    PROVE  IInv'
<1>1. /\ Done(r)
      /\ UNCHANGED <<user, session, challenge, reset, minted, chosen, wrong, proven, tried, effect>>
  BY DEF ProofUndelivered, account, log
<1>2. PICK k : k = req[r].tok
  OBVIOUS
<1>3. proof' = [proof EXCEPT ![k].st = IF Unused(proof[k]) THEN "gone" ELSE @]
  BY <1>2 DEF ProofUndelivered
<1>4. CASE Unused(proof[k])
  <2>1. proof' = [proof EXCEPT ![k].st = "gone"] /\ proof[k].st # "none"
    BY <1>3, <1>4 DEF Unused
  <2>2. "gone" \in Status \ {"none", "live"} /\ minted'.hash \in Nat /\ tried' \in [Proofs -> Nat]
    BY <1>1 DEF Status, IInv, Typed
  <2>3. QED
    BY <1>1, <2>1, <2>2, CodeEnds, OneEnds, ProofsMove
<1>5. CASE ~Unused(proof[k])
  <2>1. UNCHANGED proof
    BY <1>3, <1>5 DEF IInv, Typed, Codes
  <2>2. QED
    BY <1>1, <2>1, Refused DEF others
<1>6. QED
  BY <1>4, <1>5

LEMMA ExpireProofKeeps ==
    ASSUME IInv, NEW k \in Proofs, ExpireProof(k)
    PROVE  IInv'
<1>1. /\ proof' = [proof EXCEPT ![k].st = "expired"] /\ proof[k].st = "live"
      /\ UNCHANGED <<user, session, challenge, reset, req, minted, chosen, wrong, proven, tried,
                     effect>>
  BY DEF ExpireProof, account, log
<1>2. "expired" \in Status \ {"none", "live"} /\ Unused(proof[k])
  BY <1>1 DEF Status, Unused
<1>3. req' \in [Req -> Requests] /\ tried' \in [Proofs -> Nat]
  BY <1>1 DEF IInv, Typed
<1>4. QED
  BY <1>1, <1>2, <1>3, CodeEnds, ProofsMove

(* A code is stored where there was none. *)
LEMMA StoreKeeps ==
    ASSUME IInv, NEW r \in Req, NEW token \in Codes, token.st = "live", token.attempts = 0,
           Store(r, token),
           UNCHANGED <<user, session, challenge, reset, minted, chosen, wrong, proven, tried, effect>>
    PROVE  IInv'
<1>1. PICK k \in Proofs :
        /\ proof[k].st = "none" /\ proof' = [proof EXCEPT ![k] = token]
        /\ req' = [req EXCEPT ![r] = [Idle EXCEPT !.pc = "proofmail", !.tok = k]]
  BY DEF Store, Fresh
<1> DEFINE next == [Idle EXCEPT !.pc = "proofmail", !.tok = k]
<1>2. k \in Nat
  BY ProofAssumption DEF Proofs
<1>3. next \in Requests
  BY <1>2, IdleTyped DEF Idle, Requests, Steps
<1>4. next.pc = "proofmail" /\ next.snap = NoSnap
  BY DEF Idle
<1>5. req' = [req EXCEPT ![r] = next]
  BY <1>1
<1> HIDE DEF next
<1>6. req' \in [Req -> Requests] /\ req'[r] = next /\ \A v \in Req : v # r => req'[v] = req[v]
  BY <1>3, <1>5 DEF IInv, Typed
<1>7. minted'.hash \in Nat /\ tried' \in [Proofs -> Nat]
  BY DEF IInv, Typed
<1>8. ReqTrue(r)'
  BY <1>4, <1>6, <1>7 DEF ReqTrue, NoSnap
<1>9. \A j \in Proofs : proof'[j] = IF j = k THEN token ELSE proof[j]
  BY <1>1 DEF IInv, Typed
<1>10. proof' \in [Proofs -> Codes]
  BY <1>1 DEF IInv, Typed
<1>11. proof[k].kind = "none" /\ tried[k] = 0 /\ effect[k] = 0
  BY <1>1 DEF IInv, ProofsTrue, NoProof
<1>12. ProofsTrue'
  BY <1>9, <1>11 DEF IInv, ProofsTrue, Unused
<1>13. QED
  BY <1>6, <1>7, <1>8, <1>9, <1>10, <1>11, <1>12, ProofsMove

LEMMA StoringKeeps ==
    ASSUME IInv, NEW r \in Req,
           \/ \E s \in session, kind \in Setting : RequestSetting(r, s, kind)
           \/ IssueFirst(r) \/ IssueCloseCode(r)
    PROVE  IInv'
<1>1. ASSUME NEW kind \in Setting \cup {"first", "close"}, NEW s \in Nat, NEW email \in 0..1
      PROVE  /\ Issued(kind, s, email) \in Codes
             /\ Issued(kind, s, email).st = "live" /\ Issued(kind, s, email).attempts = 0
  BY BoundsTyped DEF Issued, Codes, Status
<1>2. UNCHANGED <<user, session, challenge, reset, minted, chosen, wrong, proven, tried, effect>>
  BY DEF RequestSetting, IssueFirst, IssueCloseCode, account, log
<1>3. req[r].snap.email \in 0..1 /\ user.email \in 0..1 /\ \A s \in session : s.id \in Nat
  BY BoundsTyped DEF IInv, Typed, Requests, User, Session
<1>4. CASE \E s \in session, kind \in Setting : RequestSetting(r, s, kind)
  BY <1>1, <1>2, <1>3, <1>4, StoreKeeps DEF RequestSetting
<1>5. CASE IssueFirst(r) \/ IssueCloseCode(r)
  BY <1>1, <1>2, <1>3, <1>5, StoreKeeps DEF IssueFirst, IssueCloseCode
<1>6. QED
  BY <1>4, <1>5

LEMMA ClearFirstKeeps ==
    ASSUME IInv, NEW r \in Req, ClearFirst(r)
    PROVE  IInv'
<1>1. /\ req' = [req EXCEPT ![r].pc = "issuefirst"]
      /\ proof' = [k \in Proofs |-> IF proof[k].kind = "first" /\ Unused(proof[k])
                                    THEN [proof[k] EXCEPT !.st = "gone"] ELSE proof[k]]
      /\ UNCHANGED <<user, session, challenge, reset, minted, chosen, wrong, proven, tried, effect>>
  BY DEF ClearFirst, Go, account, log
<1>2. \A k \in Proofs : proof[k] \in Codes
  BY DEF IInv, Typed
<1>3. \A k \in Proofs :
        /\ proof'[k] \in Codes
        /\ proof'[k].kind = proof[k].kind
        /\ proof'[k] = proof[k] \/ proof'[k].st = "gone"
  BY <1>1, <1>2 DEF Codes, Status
<1>4. ProofsTrue'
  BY <1>1, <1>3 DEF IInv, ProofsTrue, Unused
<1> DEFINE next == [req[r] EXCEPT !.pc = "issuefirst"]
<1>5. req[r] \in Requests
  BY DEF IInv, Typed
<1>6. next \in Requests
  BY <1>5 DEF Requests, Steps
<1>7. next.pc = "issuefirst" /\ next.snap = req[r].snap
  BY <1>5 DEF Requests
<1>8. req' = [req EXCEPT ![r] = next]
  BY <1>1
<1> HIDE DEF next
<1>9. req' \in [Req -> Requests] /\ req'[r] = next /\ \A v \in Req : v # r => req'[v] = req[v]
  BY <1>6, <1>8 DEF IInv, Typed
<1>10. ReqTrue(r)'
  BY <1>1, <1>7, <1>9 DEF ReqTrue, IInv
<1>11. proof' \in [Proofs -> Codes] /\ tried' \in [Proofs -> Nat]
  BY <1>1, <1>3 DEF IInv, Typed
<1>12. QED
  BY <1>1, <1>3, <1>4, <1>9, <1>10, <1>11, ProofsMove

LEMMA WrongSettingKeeps ==
    ASSUME IInv, NEW s, NEW k \in Proofs, WrongSetting(s, k)
    PROVE  IInv'
<1>1. PICK n : n = IF proof[k].attempts < Cap THEN proof[k].attempts + 1 ELSE proof[k].attempts
  OBVIOUS
<1> DEFINE new == [proof[k] EXCEPT !.attempts = n]
<1>2. /\ proof' = [proof EXCEPT ![k] = new] /\ tried' = [tried EXCEPT ![k] = @ + 1]
      /\ proof[k].st = "live"
      /\ UNCHANGED <<user, session, challenge, reset, req, minted, chosen, wrong, proven, effect>>
  BY <1>1 DEF WrongSetting, Counts, account, log
<1>3. proof[k] \in Codes /\ proof[k].attempts \in 0..Cap
  BY DEF IInv, Typed, Codes
<1>4. n \in 0..Cap
  BY <1>1, <1>3, BoundsTyped
<1>5. new \in Codes
  BY <1>3, <1>4 DEF Codes
<1>6. new.st = "live" /\ new.kind = proof[k].kind /\ new.attempts = n
  BY <1>2, <1>3 DEF Codes
<1> HIDE DEF new
<1>7. tried[k] \in Nat /\ tried[k] + 1 \in Nat
  BY DEF IInv, Typed
<1>8. /\ proof' \in [Proofs -> Codes] /\ tried' \in [Proofs -> Nat] /\ req' \in [Req -> Requests]
      /\ \A j \in Proofs : /\ proof'[j] = IF j = k THEN new ELSE proof[j]
                           /\ tried'[j] = IF j = k THEN tried[k] + 1 ELSE tried[j]
  BY <1>2, <1>5, <1>7 DEF IInv, Typed
<1>9. effect[k] = 0 /\ (n < Cap => tried[k] + 1 <= n)
  <2>1. effect[k] = 0 /\ (proof[k].attempts < Cap => tried[k] <= proof[k].attempts)
    BY <1>2 DEF IInv, ProofsTrue, Unused
  <2>2. QED
    BY <1>1, <1>3, <1>7, <2>1, BoundsTyped
<1>10. ProofsTrue'
  <2>1. ASSUME NEW j \in Proofs, j # k
        PROVE  proof'[j] = proof[j] /\ tried'[j] = tried[j] /\ effect'[j] = effect[j]
    BY <1>2, <1>8, <2>1
  <2>2. proof'[k] = new /\ tried'[k] = tried[k] + 1 /\ effect'[k] = effect[k]
    BY <1>2, <1>8
  <2>3. QED
    BY <1>6, <1>9, <2>1, <2>2 DEF IInv, ProofsTrue, Unused
<1>11. QED
  BY <1>2, <1>6, <1>8, <1>10, ProofsMove

-----------------------------------------------------------------------------
(* The steps that change the account's settings and sessions. *)

(* Neither the hash nor the password changes, and sessions only end. *)
LEMMA FlagsMove ==
    ASSUME IInv, user' \in User, user'.hash = user.hash, user'.pw = user.pw,
           session' \subseteq session, user'.banned => session' = {},
           proof' \in [Proofs -> Codes], effect' \in [Proofs -> Nat], ProofsTrue',
           \A k \in Proofs : proof[k].kind # "none" => proof'[k].kind = proof[k].kind,
           UNCHANGED <<challenge, reset, req, minted, chosen, wrong, proven, tried>>
    PROVE  IInv'
<1>1. Typed'
  BY DEF IInv, Typed
<1>2. Steady
  BY DEF Steady, IInv, Typed, User
<1>3. AccountTrue'
  BY DEF IInv, AccountTrue, BannedLoggedOut
<1>4. ChallengesTrue' /\ ResetsTrue'
  BY ChallengesLeft, ResetsLeft DEF IInv
<1>5. QED
  BY <1>1, <1>2, <1>3, <1>4, Preserved

LEMMA SettingsKeep ==
    ASSUME IInv, UNCHANGED proofVars,
           \/ Ban \/ Unban
           \/ \E s \in session : EndSession(s) \/ Disable(s) \/ \E keep \in BOOLEAN : Enable(s, keep)
    PROVE  IInv'
<1>1. /\ UNCHANGED <<challenge, reset, req, minted, chosen, wrong, proven, proof, tried, effect>>
      /\ session' \subseteq session
  BY DEF Ban, Unban, EndSession, Disable, Enable, proofVars
<1>2. user \in User
  BY DEF IInv, Typed
<1>3. /\ \/ user' = user /\ ~(Ban \/ Unban)
         \/ user' = [user EXCEPT !.banned = TRUE] /\ session' = {}
         \/ user' = [user EXCEPT !.banned = FALSE]
         \/ user' = [user EXCEPT !.twofa = TRUE] /\ ~user.banned
         \/ user' = [user EXCEPT !.twofa = FALSE] /\ ~user.banned
  BY DEF Ban, Unban, EndSession, Disable, Enable
<1>4. user' \in User
  BY <1>2, <1>3 DEF User
<1>5. user'.hash = user.hash /\ user'.pw = user.pw
  BY <1>2, <1>3 DEF User
<1>6. user'.banned => session' = {}
  <2>1. user.banned => session = {}
    BY DEF IInv, AccountTrue, BannedLoggedOut
  <2>2. QED
    BY <1>1, <1>2, <1>3, <2>1 DEF User
<1>7. proof' \in [Proofs -> Codes] /\ effect' \in [Proofs -> Nat] /\ ProofsTrue'
  BY <1>1, ProofsLeft DEF IInv, Typed, proofVars
<1>8. QED
  BY <1>1, <1>4, <1>5, <1>6, <1>7, FlagsMove

(* A code has its effect and is used up. *)
LEMMA CodeUsed ==
    ASSUME IInv, NEW k \in Proofs, proof[k].st = "live",
           proof' = [proof EXCEPT ![k].st = "used"], effect' = [effect EXCEPT ![k] = @ + 1],
           UNCHANGED tried
    PROVE  /\ proof' \in [Proofs -> Codes] /\ effect' \in [Proofs -> Nat] /\ ProofsTrue'
           /\ \A j \in Proofs : proof[j].kind # "none" => proof'[j].kind = proof[j].kind
<1>1. \A j \in Proofs : proof[j] \in Codes
  BY DEF IInv, Typed
<1>2. \A j \in Proofs :
        /\ proof'[j].st = IF j = k THEN "used" ELSE proof[j].st
        /\ proof'[j].kind = proof[j].kind
        /\ j # k => proof'[j] = proof[j] /\ effect'[j] = effect[j]
  BY <1>1 DEF IInv, Typed, Codes
<1>3. proof' \in [Proofs -> Codes]
  BY <1>1 DEF IInv, Typed, Codes, Status
<1>4. effect' \in [Proofs -> Nat]
  BY DEF IInv, Typed
<1>5. ProofsTrue'
  BY <1>2 DEF IInv, ProofsTrue, Unused
<1>6. QED
  BY <1>2, <1>3, <1>4, <1>5

LEMMA ConfirmSettingKeeps ==
    ASSUME IInv, NEW s \in session, NEW k \in Proofs, NEW keep \in BOOLEAN,
           ConfirmSetting(s, k, keep)
    PROVE  IInv'
<1>1. /\ proof[k].st = "live" /\ proof' = [proof EXCEPT ![k].st = "used"]
      /\ effect' = [effect EXCEPT ![k] = @ + 1]
      /\ session' \subseteq session /\ ~user.banned
      /\ UNCHANGED <<challenge, reset, req, minted, chosen, wrong, proven, tried>>
  BY DEF ConfirmSetting, Counts
<1>2. PICK on \in BOOLEAN : user' = [user EXCEPT !.twofa = on]
  <2>1. (proof[k].kind = "enable") \in BOOLEAN
    OBVIOUS
  <2>2. QED
    BY <2>1, Zenon DEF ConfirmSetting
<1>3. user \in User
  BY DEF IInv, Typed
<1>4. user' \in User
  BY <1>2, <1>3 DEF User
<1>5. user'.hash = user.hash /\ user'.pw = user.pw /\ user'.banned = user.banned
  BY <1>2, <1>3 DEF User
<1>6. QED
  BY <1>1, <1>4, <1>5, CodeUsed, FlagsMove

(* A session is made for the password the account has, unbanned. *)
LEMMA SessionMade ==
    ASSUME IInv, NEW pw, pw = chosen, NewSession(pw), ~user.banned, UNCHANGED <<user, chosen>>
    PROVE  /\ session' \subseteq Session /\ minted' \in [hash : 0..MaxHash, session : 0..MaxSession]
           /\ minted'.hash = minted.hash
           /\ AccountTrue'
<1> DEFINE new == [id |-> minted.session + 1, pw |-> pw]
<1>1. minted.session + 1 \in 1..MaxSession /\ minted.session + 1 \in 0..MaxSession /\ pw \in Nat
  BY BoundsTyped DEF NewSession, IInv, Typed
<1>2. new \in Session /\ new.pw = chosen
  BY <1>1 DEF Session
<1>3. session' = session \cup {new} /\ minted' = [minted EXCEPT !.session = @ + 1]
  BY DEF NewSession
<1> HIDE DEF new
<1>4. session' \subseteq Session
  BY <1>2, <1>3 DEF IInv, Typed
<1>5. minted' \in [hash : 0..MaxHash, session : 0..MaxSession] /\ minted'.hash = minted.hash
  BY <1>1, <1>3 DEF IInv, Typed
<1>6. AccountTrue'
  BY <1>2, <1>3, <1>5 DEF IInv, AccountTrue, BannedLoggedOut
<1>7. QED
  BY <1>4, <1>5, <1>6

LEMMA LoginSessionKeeps ==
    ASSUME IInv, NEW r \in Req, LoginSession(r), UNCHANGED proofVars
    PROVE  IInv'
<1>1. /\ NewSession(req[r].snap.pw) /\ Done(r)
      /\ UNCHANGED <<user, challenge, reset, chosen, wrong, proven, proof, tried, effect>>
      /\ ~user.banned /\ user.hash = req[r].snap.hash /\ req[r].pc = "issue"
  BY DEF LoginSession, Identity, At, proofVars
<1>2. req[r].snap.pw = chosen
  BY <1>1 DEF IInv, ReqTrue, AccountTrue
<1>3. /\ session' \subseteq Session /\ minted' \in [hash : 0..MaxHash, session : 0..MaxSession]
      /\ minted'.hash = minted.hash /\ AccountTrue'
  BY <1>1, <1>2, SessionMade
<1>4. Typed'
  BY <1>1, <1>3, IdleTyped DEF IInv, Typed, Done
<1>5. Steady
  BY <1>1, <1>3 DEF Steady, IInv, Typed, User
<1>6. ChallengesTrue' /\ ResetsTrue' /\ ProofsTrue'
  BY <1>1, ChallengesLeft, ResetsLeft, ProofsLeft DEF IInv, proofVars
<1>7. \A v \in Req : ReqTrue(v)' \/ req'[v] = req[v]
  BY <1>1, <1>4, OneEnds DEF Typed
<1>8. QED
  BY <1>3, <1>4, <1>5, <1>6, <1>7, Preserved

LEMMA ClaimKeeps ==
    ASSUME IInv, NEW r \in Req, Claim(r), UNCHANGED proofVars
    PROVE  IInv'
<1>1. PICK c : c = req[r].tok
  OBVIOUS
<1>2. /\ ~user.banned /\ challenge[c].st = "live" /\ req[r].pc = "claim"
      /\ challenge' = [challenge EXCEPT ![c].st = "used"] /\ proven' = [proven EXCEPT ![c] = @ + 1]
      /\ NewSession(challenge[c].pw) /\ Done(r)
      /\ UNCHANGED <<user, reset, chosen, wrong, proof, tried, effect>>
  BY <1>1 DEF Claim, Claimable, At, proofVars
<1>3. c \in Challenges /\ challenge[c].pw = chosen
  BY <1>1, <1>2 DEF IInv, ReqTrue, ChallengesTrue, Unused
<1>4. /\ session' \subseteq Session /\ minted' \in [hash : 0..MaxHash, session : 0..MaxSession]
      /\ minted'.hash = minted.hash /\ AccountTrue'
  BY <1>2, <1>3, SessionMade
<1>5. \A d \in Challenges : challenge[d] \in Challenge
  BY DEF IInv, Typed
<1>6. \A d \in Challenges :
        /\ challenge'[d].st = IF d = c THEN "used" ELSE challenge[d].st
        /\ d # c => challenge'[d] = challenge[d] /\ proven'[d] = proven[d]
  BY <1>2, <1>5 DEF IInv, Typed, Challenge
<1>7. challenge' \in [Challenges -> Challenge] /\ proven' \in [Challenges -> Nat]
  <2>1. challenge' \in [Challenges -> Challenge]
    BY <1>2, <1>5 DEF IInv, Typed, Challenge, Status
  <2>2. proven' \in [Challenges -> Nat]
    <3>1. proven \in [Challenges -> Nat] /\ proven[c] + 1 \in Nat
      BY <1>3 DEF IInv, Typed
    <3>2. proven' = [proven EXCEPT ![c] = proven[c] + 1]
      BY <1>2
    <3>3. QED
      BY <3>1, <3>2
  <2>3. QED
    BY <2>1, <2>2
<1>8. ChallengesTrue'
  BY <1>2, <1>6 DEF IInv, ChallengesTrue, Unused
<1>9. Typed'
  BY <1>2, <1>4, <1>7, IdleTyped DEF IInv, Typed, Done
<1>10. Steady
  <2>1. /\ user'.hash = user.hash /\ user'.pw = user.pw /\ minted.hash <= minted'.hash
        /\ UNCHANGED proof
    BY <1>2, <1>4 DEF IInv, Typed
  <2>2. QED
    BY <1>6, <2>1 DEF Steady
<1>11. ResetsTrue' /\ ProofsTrue'
  BY <1>2, ResetsLeft, ProofsLeft DEF IInv, proofVars
<1>12. \A v \in Req : ReqTrue(v)' \/ req'[v] = req[v]
  BY <1>2, <1>9, OneEnds DEF Typed
<1>13. QED
  BY <1>4, <1>8, <1>9, <1>10, <1>11, <1>12, Preserved

(* A new login's challenge takes the place of the ones before. *)
LEMMA LoginChallengeKeeps ==
    ASSUME IInv, NEW r \in Req, LoginChallenge(r), UNCHANGED proofVars
    PROVE  IInv'
<1>1. /\ user.hash = req[r].snap.hash /\ req[r].pc = "issue"
      /\ UNCHANGED <<user, session, reset, minted, chosen, wrong, proven, proof, tried, effect>>
  BY DEF LoginChallenge, Identity, At, proofVars
<1>2. user.hash # 0 /\ req[r].snap.pw = chosen
  BY <1>1 DEF IInv, ReqTrue, AccountTrue
<1>3. CASE Done(r) /\ UNCHANGED challenge
  BY <1>1, <1>3, Refused DEF others
<1>4. ASSUME NEW c \in Challenges, challenge[c].st = "none",
             challenge' = [Revoked(challenge, NoChallenge) EXCEPT ![c].st = "live", ![c].code = 1,
                                                         ![c].pw = req[r].snap.pw],
             req' = [req EXCEPT ![r] = [Idle EXCEPT !.pc = "mail", !.tok = c]]
      PROVE  IInv'
  <2> DEFINE gone == [NoChallenge EXCEPT !.st = "gone"]
             new == [NoChallenge EXCEPT !.st = "live", !.code = 1, !.pw = req[r].snap.pw]
             next == [Idle EXCEPT !.pc = "mail", !.tok = c]
  <2>1. NoChallenge \in Challenge /\ gone \in Challenge /\ gone.st = "gone"
    <3>1. NoChallenge \in Challenge
      BY BoundsTyped DEF NoChallenge, Challenge, Status
    <3>2. QED
      BY <3>1 DEF Challenge, Status
  <2>2. new \in Challenge /\ new.st = "live" /\ new.pw = chosen /\ new.attempts = 0
    <3>1. chosen \in Nat /\ 1 \in Nat
      BY DEF IInv, Typed
    <3>2. new.st = "live" /\ new.pw = chosen /\ new.attempts = 0
      BY <1>2 DEF NoChallenge
    <3>3. new \in Challenge
      BY <1>2, <2>1, <3>1 DEF Challenge, Status
    <3>4. QED
      BY <3>2, <3>3
  <2>3. challenge[c] = NoChallenge /\ wrong[c] = 0 /\ proven[c] = 0
    BY <1>4 DEF IInv, ChallengesTrue
  <2>4. Revoked(challenge, NoChallenge) =
          [d \in Challenges |-> IF Unused(challenge[d]) THEN gone ELSE challenge[d]]
    BY DEF Revoked, IInv, Typed
  <2>5. Revoked(challenge, NoChallenge)[c] = NoChallenge
    BY <1>4, <2>3, <2>4 DEF Unused
  <2>6. challenge' = [Revoked(challenge, NoChallenge) EXCEPT ![c] = new]
    <3> HIDE DEF gone
    <3>1. [Revoked(challenge, NoChallenge) EXCEPT ![c].st = "live", ![c].code = 1,
                                                  ![c].pw = req[r].snap.pw]
            = [Revoked(challenge, NoChallenge) EXCEPT ![c] = new]
      BY <2>1, <2>4, <2>5 DEF Challenge
    <3>2. QED
      BY <1>4, <3>1
  <2> HIDE DEF gone, new
  <2>7. \A d \in Challenges :
          challenge'[d] = IF d = c THEN new
                          ELSE IF Unused(challenge[d]) THEN gone ELSE challenge[d]
    BY <2>4, <2>6
  <2>8. challenge' \in [Challenges -> Challenge]
    BY <2>1, <2>2, <2>4, <2>6 DEF IInv, Typed
  <2>9. ChallengesTrue'
    BY <1>1, <1>2, <2>1, <2>2, <2>3, <2>7 DEF IInv, ChallengesTrue, Unused
  <2>10. c \in Nat
    BY BoundsTyped DEF Challenges
  <2>11. next \in Requests
    BY <2>10, IdleTyped DEF Idle, Requests, Steps
  <2>12. next.pc = "mail" /\ next.snap = NoSnap
    BY DEF Idle
  <2>13. req' = [req EXCEPT ![r] = next]
    BY <1>4
  <2> HIDE DEF next
  <2>14. req' \in [Req -> Requests] /\ req'[r] = next /\ \A v \in Req : v # r => req'[v] = req[v]
    BY <2>11, <2>13 DEF IInv, Typed
  <2>15. minted'.hash \in Nat /\ wrong' \in [Challenges -> Nat]
    BY <1>1 DEF IInv, Typed
  <2>16. ReqTrue(r)'
    BY <2>12, <2>14, <2>15 DEF ReqTrue, NoSnap
  <2>17. \A d \in Challenges : challenge[d].st # "none" => challenge'[d].st # "none"
    BY <2>1, <2>2, <2>7
  <2>18. QED
    BY <1>1, <2>8, <2>9, <2>14, <2>15, <2>16, <2>17, ChallengesMove
<1>5. QED
  BY <1>3, <1>4 DEF LoginChallenge, Fresh

-----------------------------------------------------------------------------
(* A password is written, a new hash with it. *)

(* The hash is one nobody has read. *)
LEMMA NewHash ==
    ASSUME IInv, minted.hash < MaxHash, minted' = [minted EXCEPT !.hash = @ + 1],
           NEW pw \in Nat, NEW stale \in BOOLEAN,
           user' = [user EXCEPT !.hash = minted.hash + 1, !.pw = pw, !.stale = stale]
    PROVE  /\ user' \in User /\ user'.hash = minted.hash + 1 /\ user'.pw = pw
           /\ user'.banned = user.banned /\ user'.hash # 0
           /\ minted' \in [hash : 0..MaxHash, session : 0..MaxSession]
           /\ minted'.hash = minted.hash + 1 /\ minted.hash \in Nat
<1>1. minted.hash \in Nat /\ minted.hash + 1 \in 0..MaxHash
  BY BoundsTyped DEF IInv, Typed
<1>2. user \in User
  BY DEF IInv, Typed
<1>3. user' \in User
  BY <1>1, <1>2 DEF User
<1>4. user'.hash = minted.hash + 1 /\ user'.pw = pw /\ user'.banned = user.banned
  BY <1>2 DEF User
<1>5. minted' \in [hash : 0..MaxHash, session : 0..MaxSession] /\ minted'.hash = minted.hash + 1
  BY <1>1 DEF IInv, Typed
<1>6. QED
  BY <1>1, <1>3, <1>4, <1>5

(* A rehash keeps the password, and the request that did it goes on. *)
LEMMA RehashSucceedsKeeps ==
    ASSUME IInv, NEW r \in Req, RehashSucceeds(r), UNCHANGED proofVars
    PROVE  IInv'
<1> DEFINE new == [req[r].snap EXCEPT !.hash = minted.hash + 1]
           next == [req[r] EXCEPT !.pc = "issue", !.snap = new]
<1>1. req[r] \in Requests /\ req[r].snap \in User /\ user \in User
  BY DEF IInv, Typed, Requests
<1>2. new.hash = minted.hash + 1 /\ new.pw = req[r].snap.pw
  BY <1>1 DEF User
<1>3. /\ req[r].pc = "rehash" /\ user.hash = req[r].snap.hash /\ minted.hash < MaxHash
      /\ minted' = [minted EXCEPT !.hash = @ + 1]
      /\ user' = [user EXCEPT !.hash = minted.hash + 1, !.pw = req[r].snap.pw, !.stale = FALSE]
      /\ req' = [req EXCEPT ![r].pc = "issue", ![r].snap = new]
      /\ UNCHANGED <<session, challenge, reset, chosen, wrong, proven, proof, tried, effect>>
  <2>1. user' = [user EXCEPT !.hash = new.hash, !.pw = new.pw, !.stale = FALSE]
    BY DEF RehashSucceeds
  <2> HIDE DEF new
  <2>2. user' = [user EXCEPT !.hash = minted.hash + 1, !.pw = req[r].snap.pw, !.stale = FALSE]
    BY <1>2, <2>1
  <2>3. QED
    BY <2>2 DEF RehashSucceeds, SameHash, At, proofVars, new
<1>4. req[r].snap.pw = chosen /\ user.hash # 0 /\ req[r].snap.pw \in Nat
  BY <1>1, <1>3 DEF IInv, ReqTrue, AccountTrue, User
<1>5. /\ user' \in User /\ user'.hash = minted.hash + 1 /\ user'.pw = chosen
      /\ user'.banned = user.banned /\ user'.hash # 0
      /\ minted' \in [hash : 0..MaxHash, session : 0..MaxSession]
      /\ minted'.hash = minted.hash + 1 /\ minted.hash \in Nat
  BY <1>3, <1>4, NewHash
<1>6. new \in User
  BY <1>1, <1>5 DEF User
<1>7. next \in Requests
  BY <1>1, <1>6 DEF Requests, Steps
<1>8. next.pc = "issue" /\ next.snap = new
  BY <1>1 DEF Requests
<1>9. req' = [req EXCEPT ![r] = next]
  BY <1>1, <1>3 DEF IInv, Typed
<1> HIDE DEF new, next
<1>10. req' \in [Req -> Requests] /\ req'[r] = next /\ \A v \in Req : v # r => req'[v] = req[v]
  BY <1>7, <1>9 DEF IInv, Typed
<1>11. Typed'
  BY <1>3, <1>5, <1>10 DEF IInv, Typed
<1>12. Steady
  BY <1>3, <1>5 DEF Steady
<1>13. AccountTrue'
  BY <1>3, <1>5 DEF IInv, AccountTrue, BannedLoggedOut
<1>14. ChallengesTrue' /\ ResetsTrue' /\ ProofsTrue'
  BY <1>3, <1>5, ChallengesLeft, ResetsLeft, ProofsLeft DEF IInv, proofVars
<1>15. ReqTrue(r)'
  BY <1>2, <1>4, <1>5, <1>8, <1>10 DEF ReqTrue
<1>16. QED
  BY <1>10, <1>11, <1>12, <1>13, <1>14, <1>15, Preserved

(* No token issued before is good any more. *)
LEMMA AllRevoked ==
    ASSUME IInv
    PROVE  /\ Revoked(challenge, NoChallenge) \in [Challenges -> Challenge]
           /\ \A c \in Challenges :
                \/ Revoked(challenge, NoChallenge)[c] = challenge[c] /\ ~Unused(challenge[c])
                \/ Revoked(challenge, NoChallenge)[c].st = "gone"
           /\ \A tokens \in [Resets -> ResetToken] :
                /\ Revoked(tokens, NoReset) \in [Resets -> ResetToken]
                /\ \A k \in Resets : ~Unused(Revoked(tokens, NoReset)[k])
<1>1. NoChallenge \in Challenge /\ NoReset \in ResetToken
  BY BoundsTyped DEF NoChallenge, NoReset, Challenge, ResetToken, Status
<1> DEFINE c0 == [NoChallenge EXCEPT !.st = "gone"]
           k0 == [NoReset EXCEPT !.st = "gone"]
<1>2. c0 \in Challenge /\ c0.st = "gone" /\ k0 \in ResetToken /\ k0.st = "gone"
  BY <1>1 DEF Challenge, ResetToken, Status
<1>3. Revoked(challenge, NoChallenge) =
        [c \in Challenges |-> IF Unused(challenge[c]) THEN c0 ELSE challenge[c]]
  BY DEF Revoked, IInv, Typed
<1>4. ASSUME NEW tokens \in [Resets -> ResetToken]
      PROVE  Revoked(tokens, NoReset) =
               [k \in Resets |-> IF Unused(tokens[k]) THEN k0 ELSE tokens[k]]
  BY DEF Revoked
<1> HIDE DEF c0, k0
<1>5. Revoked(challenge, NoChallenge) \in [Challenges -> Challenge]
  BY <1>2, <1>3 DEF IInv, Typed
<1>6. \A c \in Challenges :
        \/ Revoked(challenge, NoChallenge)[c] = challenge[c] /\ ~Unused(challenge[c])
        \/ Revoked(challenge, NoChallenge)[c].st = "gone"
  BY <1>2, <1>3
<1>7. ASSUME NEW tokens \in [Resets -> ResetToken]
      PROVE  /\ Revoked(tokens, NoReset) \in [Resets -> ResetToken]
             /\ \A k \in Resets : ~Unused(Revoked(tokens, NoReset)[k])
  BY <1>2, <1>4 DEF Unused
<1>8. QED
  BY <1>5, <1>6, <1>7

(* A reset or a change. *)
LEMMA ReplaceKeeps ==
    ASSUME IInv, NEW r \in Req, NEW keep, NEW tokens \in [Resets -> ResetToken],
           Replace(keep, tokens), Done(r), UNCHANGED <<wrong, proven, proof, tried, effect>>
    PROVE  IInv'
<1>1. /\ minted.hash < MaxHash /\ minted' = [minted EXCEPT !.hash = @ + 1]
      /\ chosen' = chosen + 1
      /\ user' = [user EXCEPT !.hash = minted.hash + 1, !.pw = chosen + 1, !.stale = FALSE]
      /\ session' = {[s EXCEPT !.pw = chosen + 1] : s \in {s \in session : s.id = keep}}
      /\ challenge' = Revoked(challenge, NoChallenge) /\ reset' = Revoked(tokens, NoReset)
  BY DEF Replace
<1>2. chosen \in Nat /\ chosen + 1 \in Nat
  BY DEF IInv, Typed
<1>3. /\ user' \in User /\ user'.hash = minted.hash + 1 /\ user'.pw = chosen + 1
      /\ user'.banned = user.banned /\ user'.hash # 0
      /\ minted' \in [hash : 0..MaxHash, session : 0..MaxSession]
      /\ minted'.hash = minted.hash + 1 /\ minted.hash \in Nat
  BY <1>1, <1>2, NewHash
<1>4. ASSUME NEW s \in session'
      PROVE  s \in Session /\ s.pw = chosen + 1
  <2>1. PICK t \in session : s = [t EXCEPT !.pw = chosen + 1]
    BY <1>1
  <2>2. t \in Session
    BY DEF IInv, Typed
  <2>3. QED
    BY <1>2, <2>1, <2>2 DEF Session
<1>5. session = {} => session' = {}
  BY <1>1
<1>6. /\ challenge' \in [Challenges -> Challenge]
      /\ \A c \in Challenges : \/ challenge'[c] = challenge[c] /\ ~Unused(challenge[c])
                               \/ challenge'[c].st = "gone"
  BY <1>1, AllRevoked
<1>7. reset' \in [Resets -> ResetToken] /\ \A k \in Resets : ~Unused(reset'[k])
  BY <1>1, AllRevoked
<1>8. Typed'
  BY <1>1, <1>2, <1>3, <1>4, <1>6, <1>7, IdleTyped DEF IInv, Typed, Done
<1>9. Steady
  BY <1>3, <1>6 DEF Steady
<1>10. AccountTrue'
  BY <1>1, <1>3, <1>4, <1>5 DEF IInv, AccountTrue, BannedLoggedOut
<1>11. ChallengesTrue'
  BY <1>6 DEF IInv, ChallengesTrue, Unused
<1>12. ResetsTrue' /\ ProofsTrue'
  BY <1>7, ProofsLeft DEF IInv, ResetsTrue, Unused, proofVars
<1>13. \A v \in Req : ReqTrue(v)' \/ req'[v] = req[v]
  BY <1>8, OneEnds DEF Typed
<1>14. QED
  BY <1>8, <1>9, <1>10, <1>11, <1>12, <1>13, Preserved

LEMMA CommitResetKeeps ==
    ASSUME IInv, NEW r \in Req, CommitReset(r), UNCHANGED proofVars
    PROVE  IInv'
<1> DEFINE used == [NoReset EXCEPT !.st = "used"]
<1>1. used \in ResetToken
  BY DEF NoReset, ResetToken, Status
<1> HIDE DEF used
<1>2. [reset EXCEPT ![req[r].tok] = used] \in [Resets -> ResetToken]
  BY <1>1 DEF IInv, Typed
<1>3. QED
  BY <1>2, ReplaceKeeps DEF CommitReset, proofVars, used

LEMMA CommitChangeKeeps ==
    ASSUME IInv, NEW r \in Req, CommitChange(r), UNCHANGED proofVars
    PROVE  IInv'
<1>1. reset \in [Resets -> ResetToken]
  BY DEF IInv, Typed
<1>2. QED
  BY <1>1, ReplaceKeeps DEF CommitChange, proofVars

(* An account without a password has issued nothing for one. *)
LEMMA CommitFirstKeeps ==
    ASSUME IInv, NEW r \in Req, CommitFirst(r)
    PROVE  IInv'
<1>1. PICK k : k = req[r].tok
  OBVIOUS
<1>2. /\ req[r].pc = "first" /\ proof[k].st = "live" /\ user.hash = 0 /\ minted.hash < MaxHash
      /\ minted' = [minted EXCEPT !.hash = @ + 1] /\ chosen' = chosen + 1
      /\ user' = [user EXCEPT !.hash = minted.hash + 1, !.pw = chosen + 1]
      /\ session' = {[s EXCEPT !.pw = chosen + 1] : s \in session}
      /\ proof' = [proof EXCEPT ![k].st = "used"] /\ effect' = [effect EXCEPT ![k] = @ + 1]
      /\ Done(r) /\ UNCHANGED <<challenge, reset, wrong, proven, tried>>
  BY <1>1 DEF CommitFirst, MayChoose, At
<1>3. k \in Proofs
  BY <1>1, <1>2 DEF IInv, ReqTrue
<1>4. chosen \in Nat /\ chosen + 1 \in Nat /\ user \in User /\ user.stale \in BOOLEAN
  BY DEF IInv, Typed, User
<1>5. user' = [user EXCEPT !.hash = minted.hash + 1, !.pw = chosen + 1, !.stale = user.stale]
  BY <1>2, <1>4 DEF User
<1>6. /\ user' \in User /\ user'.hash = minted.hash + 1 /\ user'.pw = chosen + 1
      /\ user'.banned = user.banned /\ user'.hash # 0
      /\ minted' \in [hash : 0..MaxHash, session : 0..MaxSession]
      /\ minted'.hash = minted.hash + 1 /\ minted.hash \in Nat
  BY <1>2, <1>4, <1>5, NewHash
<1>7. ASSUME NEW s \in session'
      PROVE  s \in Session /\ s.pw = chosen + 1
  <2>1. PICK t \in session : s = [t EXCEPT !.pw = chosen + 1]
    BY <1>2
  <2>2. t \in Session
    BY DEF IInv, Typed
  <2>3. QED
    BY <1>4, <2>1, <2>2 DEF Session
<1>8. session = {} => session' = {}
  BY <1>2
<1>9. /\ proof' \in [Proofs -> Codes] /\ effect' \in [Proofs -> Nat] /\ ProofsTrue'
      /\ \A j \in Proofs : proof[j].kind # "none" => proof'[j].kind = proof[j].kind
  BY <1>2, <1>3, CodeUsed
<1>10. Typed'
  BY <1>2, <1>4, <1>6, <1>7, <1>9, IdleTyped DEF IInv, Typed, Done
<1>11. Steady
  BY <1>2, <1>6, <1>9 DEF Steady
<1>12. AccountTrue'
  BY <1>2, <1>6, <1>7, <1>8 DEF IInv, AccountTrue, BannedLoggedOut
<1>13. ChallengesTrue'
  BY <1>2 DEF IInv, ChallengesTrue, Unused
<1>14. ResetsTrue'
  BY <1>2 DEF IInv, ResetsTrue, Unused
<1>15. \A v \in Req : ReqTrue(v)' \/ req'[v] = req[v]
  BY <1>2, <1>10, OneEnds DEF Typed
<1>16. QED
  BY <1>9, <1>10, <1>11, <1>12, <1>13, <1>14, <1>15, Preserved

-----------------------------------------------------------------------------
(* Everything issued goes: with the account, or with its address. *)

LEMMA AllDeleted ==
    ASSUME IInv
    PROVE  /\ Deleted(challenge) \in [Challenges -> Challenge]
           /\ \A c \in Challenges : \/ Deleted(challenge)[c] = challenge[c] /\ challenge[c].st = "none"
                                    \/ Deleted(challenge)[c].st = "gone"
           /\ Deleted(reset) \in [Resets -> ResetToken]
           /\ \A k \in Resets : ~Unused(Deleted(reset)[k])
           /\ Deleted(proof) \in [Proofs -> Codes]
           /\ \A k \in Proofs : /\ Deleted(proof)[k].kind = proof[k].kind
                                /\ \/ Deleted(proof)[k] = proof[k] /\ proof[k].st = "none"
                                   \/ Deleted(proof)[k].st = "gone"
<1>1. /\ \A c \in Challenges : challenge[c] \in Challenge
      /\ \A k \in Resets : reset[k] \in ResetToken
      /\ \A k \in Proofs : proof[k] \in Codes
  BY DEF IInv, Typed
<1>2. ASSUME NEW c \in Challenges
      PROVE  /\ [challenge[c] EXCEPT !.st = "gone"] \in Challenge
             /\ [challenge[c] EXCEPT !.st = "gone"].st = "gone"
  BY <1>1 DEF Challenge, Status
<1>3. ASSUME NEW k \in Resets
      PROVE  /\ [reset[k] EXCEPT !.st = "gone"] \in ResetToken
             /\ [reset[k] EXCEPT !.st = "gone"].st = "gone"
  BY <1>1 DEF ResetToken, Status
<1>4. ASSUME NEW k \in Proofs
      PROVE  /\ [proof[k] EXCEPT !.st = "gone"] \in Codes
             /\ [proof[k] EXCEPT !.st = "gone"].st = "gone"
             /\ [proof[k] EXCEPT !.st = "gone"].kind = proof[k].kind
  BY <1>1 DEF Codes, Status
<1>5. /\ Deleted(challenge) =
           [c \in Challenges |-> IF challenge[c].st = "none" THEN challenge[c]
                                 ELSE [challenge[c] EXCEPT !.st = "gone"]]
      /\ Deleted(reset) =
           [k \in Resets |-> IF reset[k].st = "none" THEN reset[k]
                             ELSE [reset[k] EXCEPT !.st = "gone"]]
      /\ Deleted(proof) =
           [k \in Proofs |-> IF proof[k].st = "none" THEN proof[k]
                             ELSE [proof[k] EXCEPT !.st = "gone"]]
  BY DEF Deleted, IInv, Typed
<1>6. /\ Deleted(challenge) \in [Challenges -> Challenge]
      /\ \A c \in Challenges : \/ Deleted(challenge)[c] = challenge[c] /\ challenge[c].st = "none"
                               \/ Deleted(challenge)[c].st = "gone"
  BY <1>1, <1>2, <1>5
<1>7. Deleted(reset) \in [Resets -> ResetToken] /\ \A k \in Resets : ~Unused(Deleted(reset)[k])
  BY <1>1, <1>3, <1>5 DEF Unused
<1>8. /\ Deleted(proof) \in [Proofs -> Codes]
      /\ \A k \in Proofs : /\ Deleted(proof)[k].kind = proof[k].kind
                           /\ \/ Deleted(proof)[k] = proof[k] /\ proof[k].st = "none"
                              \/ Deleted(proof)[k].st = "gone"
  BY <1>1, <1>4, <1>5
<1>9. QED
  BY <1>6, <1>7, <1>8

LEMMA WipeKeeps ==
    ASSUME IInv, user' \in User, user'.hash \in {0, user.hash}, user'.pw = user.pw,
           session' = {}, challenge' = Deleted(challenge), reset' = Deleted(reset),
           proof' = Deleted(proof), effect' \in [Proofs -> Nat],
           \A k \in Proofs : proof[k].st = "none" => effect'[k] = effect[k],
           req' \in [Req -> Requests], \A r \in Req : req'[r] = Idle \/ req'[r] = req[r],
           UNCHANGED <<minted, chosen, wrong, proven, tried>>
    PROVE  IInv'
<1>1. Typed'
  BY AllDeleted DEF IInv, Typed
<1>2. /\ \A c \in Challenges : \/ challenge'[c] = challenge[c] /\ challenge[c].st = "none"
                               \/ challenge'[c].st = "gone"
      /\ \A k \in Resets : ~Unused(reset'[k])
      /\ \A k \in Proofs : /\ proof'[k].kind = proof[k].kind
                           /\ \/ proof'[k] = proof[k] /\ proof[k].st = "none"
                              \/ proof'[k].st = "gone"
  BY AllDeleted
<1>3. Steady
  BY <1>2 DEF Steady, IInv, Typed
<1>4. AccountTrue'
  <2>1. user'.hash <= minted'.hash
    BY DEF IInv, AccountTrue, Typed
  <2>2. QED
    BY <2>1 DEF IInv, AccountTrue, BannedLoggedOut
<1>5. ChallengesTrue' /\ ResetsTrue' /\ ProofsTrue'
  <2>1. ChallengesTrue'
    BY <1>2 DEF IInv, ChallengesTrue, Unused
  <2>2. ResetsTrue'
    BY <1>2 DEF ResetsTrue, Unused
  <2>3. ProofsTrue'
    BY <1>2 DEF IInv, ProofsTrue, Unused
  <2>4. QED
    BY <2>1, <2>2, <2>3
<1>6. \A r \in Req : ReqTrue(r)' \/ req'[r] = req[r]
  BY <1>1, IdleTrue
<1>7. QED
  BY <1>1, <1>3, <1>4, <1>5, <1>6, Preserved

LEMMA CommitCloseKeeps ==
    ASSUME IInv, NEW r \in Req, CommitClose(r)
    PROVE  IInv'
<1>1. /\ user' = [user EXCEPT !.gone = TRUE, !.hash = 0]
      /\ session' = {} /\ challenge' = Deleted(challenge) /\ reset' = Deleted(reset)
      /\ proof' = Deleted(proof) /\ Done(r)
      /\ UNCHANGED <<minted, chosen, wrong, proven, tried, effect>>
  BY DEF CommitClose, CloseAccount
<1>2. user \in User /\ 0 \in 0..MaxHash
  BY BoundsTyped DEF IInv, Typed
<1>3. user' \in User
  BY <1>1, <1>2 DEF User
<1>4. user'.hash = 0 /\ user'.pw = user.pw
  BY <1>1, <1>2 DEF User
<1>5. req' \in [Req -> Requests] /\ \A v \in Req : req'[v] = Idle \/ req'[v] = req[v]
  BY <1>1, IdleTyped DEF Done, IInv, Typed
<1>6. effect' \in [Proofs -> Nat]
  BY <1>1 DEF IInv, Typed
<1>7. QED
  BY <1>1, <1>3, <1>4, <1>5, <1>6, WipeKeeps

LEMMA CommitConfirmCloseKeeps ==
    ASSUME IInv, NEW r \in Req, CommitConfirmClose(r)
    PROVE  IInv'
<1>1. PICK k : k = req[r].tok
  OBVIOUS
<1>2. /\ user' = [user EXCEPT !.gone = TRUE, !.hash = 0]
      /\ session' = {} /\ challenge' = Deleted(challenge) /\ reset' = Deleted(reset)
      /\ proof' = Deleted(proof) /\ Done(r)
      /\ effect' = [effect EXCEPT ![k] = @ + 1] /\ proof[k].st = "live"
      /\ UNCHANGED <<minted, chosen, wrong, proven, tried>>
  BY <1>1 DEF CommitConfirmClose, CloseClaimable, CloseAccount
<1>3. user \in User /\ 0 \in 0..MaxHash
  BY BoundsTyped DEF IInv, Typed
<1>4. user' \in User
  BY <1>2, <1>3 DEF User
<1>5. user'.hash = 0 /\ user'.pw = user.pw
  BY <1>2, <1>3 DEF User
<1>6. req' \in [Req -> Requests] /\ \A v \in Req : req'[v] = Idle \/ req'[v] = req[v]
  BY <1>2, IdleTyped DEF Done, IInv, Typed
<1>7. /\ effect' \in [Proofs -> Nat]
      /\ \A j \in Proofs : proof[j].st = "none" => effect'[j] = effect[j]
  <2>1. effect \in [Proofs -> Nat]
    BY DEF IInv, Typed
  <2>2. effect' \in [Proofs -> Nat]
    <3>1. effect' = [effect EXCEPT ![k] = effect[k] + 1]
      BY <1>2
    <3>2. k \in Proofs => effect[k] + 1 \in Nat
      BY <2>1
    <3>3. QED
      BY <2>1, <3>1, <3>2
  <2>3. ASSUME NEW j \in Proofs, proof[j].st = "none"
        PROVE  effect'[j] = effect[j]
    <3>1. j # k
      BY <1>2, <2>3
    <3>2. QED
      BY <1>2, <2>1, <3>1
  <2>4. QED
    BY <2>2, <2>3
<1>8. QED
  BY <1>2, <1>4, <1>5, <1>6, <1>7, WipeKeeps

LEMMA ReaddressKeeps ==
    ASSUME IInv, Readdress
    PROVE  IInv'
<1>1. /\ user' = [user EXCEPT !.email = 1]
      /\ session' = {} /\ challenge' = Deleted(challenge) /\ reset' = Deleted(reset)
      /\ proof' = Deleted(proof)
      /\ UNCHANGED <<req, minted, chosen, wrong, proven, tried, effect>>
  BY DEF Readdress
<1>2. user \in User
  BY DEF IInv, Typed
<1>3. user' \in User
  BY <1>1, <1>2 DEF User
<1>4. user'.hash = user.hash /\ user'.pw = user.pw
  BY <1>1, <1>2 DEF User
<1>5. req' \in [Req -> Requests] /\ effect' \in [Proofs -> Nat]
  BY <1>1 DEF IInv, Typed
<1>6. QED
  BY <1>1, <1>3, <1>4, <1>5, WipeKeeps

-----------------------------------------------------------------------------
(* Every behaviour. *)

LEMMA InitTrue == AccountInit => IInv
<1> SUFFICES ASSUME AccountInit PROVE IInv
  OBVIOUS
<1> DEFINE fresh == [id : 1..MaxSession, pw : {0}]
<1>1. user.hash \in 0..1 /\ user.pw = 0 /\ user \in User /\ user.banned = FALSE
  <2>1. PICK hashes, flags :
          /\ hashes = {IF Passwordless THEN 0 ELSE 1}
          /\ flags = IF Passwordless THEN {FALSE} ELSE BOOLEAN
    OBVIOUS
  <2>2. user \in [hash : hashes, pw : {0}, banned : {FALSE}, stale : flags, twofa : flags,
                  email : {0}, gone : {FALSE}]
    BY <2>1 DEF AccountInit, Init
  <2>3. hashes \subseteq 0..1
    BY <2>1
  <2>4. flags \subseteq BOOLEAN
    BY <2>1
  <2>5. 0..1 \subseteq 0..MaxHash /\ 0 \in Nat /\ 0 \in 0..1
    BY BoundsTyped
  <2>6. QED
    BY <2>2, <2>3, <2>4, <2>5 DEF User
<1>2. \A s \in session : s \in Session /\ s.pw = 0
  BY BoundsTyped DEF AccountInit, Init, Session
<1>3. Cardinality(session) \in 0..MaxSession
  <2>1. 1..MaxSession = {} \/ 1 <= MaxSession
    BY BoundsTyped
  <2>2. IsFiniteSet(1..MaxSession) /\ Cardinality(1..MaxSession) = MaxSession
    BY BoundsTyped, FS_Interval
  <2>3. IsFiniteSet(fresh) /\ Cardinality(fresh) <= Cardinality(1..MaxSession)
    <3> DEFINE f == [i \in 1..MaxSession |-> [id |-> i, pw |-> 0]]
    <3>1. f \in Surjection(1..MaxSession, fresh)
      BY DEF Surjection
    <3>2. QED
      BY <2>2, <3>1, FS_Surjection
  <2>4. Cardinality(fresh) \in Nat /\ Cardinality({}) = 0
    BY <2>3, FS_CardinalityType, FS_EmptySet
  <2>5. session = {} \/ session = fresh
    BY DEF AccountInit, Init
  <2> HIDE DEF fresh
  <2>6. Cardinality(session) \in Nat /\ Cardinality(session) <= MaxSession
    <3>1. CASE session = {}
      <4>1. Cardinality(session) = 0
        BY <2>4, <3>1, Zenon
      <4>2. QED
        BY <4>1, BoundsTyped
    <3>2. CASE session = fresh
      <4>1. Cardinality(session) = Cardinality(fresh)
        BY <3>2, Zenon
      <4>2. QED
        BY <2>2, <2>3, <2>4, <4>1, BoundsTyped
    <3>3. QED
      BY <2>5, <3>1, <3>2
  <2>7. QED
    BY <2>6, BoundsTyped
<1>4. minted \in [hash : 0..MaxHash, session : 0..MaxSession] /\ minted.hash = user.hash
  BY <1>1, <1>3, BoundsTyped DEF AccountInit, Init
<1>5. /\ NoChallenge \in Challenge /\ NoChallenge.st = "none" /\ NoReset \in ResetToken
      /\ NoReset.st = "none" /\ NoProof \in Codes /\ NoProof.st = "none"
  BY BoundsTyped DEF NoChallenge, Challenge, NoReset, ResetToken, NoProof, Codes, Status
<1>6. Typed
  BY <1>1, <1>2, <1>4, <1>5, IdleTyped DEF AccountInit, Init, Typed
<1>7. AccountTrue
  BY <1>1, <1>2, <1>4 DEF AccountInit, Init, AccountTrue, BannedLoggedOut
<1>8. ChallengesTrue /\ ResetsTrue /\ ProofsTrue
  BY <1>5 DEF AccountInit, Init, ChallengesTrue, ResetsTrue, ProofsTrue, Unused
<1>9. \A r \in Req : ReqTrue(r)
  BY <1>1, <1>4 DEF AccountInit, Init, ReqTrue, Idle, NoSnap
<1>10. QED
  BY <1>6, <1>7, <1>8, <1>9 DEF IInv

LEMMA StepKeeps == IInv /\ [AccountNext]_accountVars => IInv'
<1> SUFFICES ASSUME IInv, [AccountNext]_accountVars PROVE IInv'
  OBVIOUS
<1>1. ASSUME NEW r \in Req, Login(r), UNCHANGED proofVars PROVE IInv'
  BY <1>1, StartLoginKeeps, RehashSucceedsKeeps, RehashSkippedKeeps, EndsKeep, LoginSessionKeeps,
     LoginChallengeKeeps, MailFailsKeeps DEF Login
<1>2. ASSUME NEW r \in Req, SecondFactor(r), UNCHANGED proofVars PROVE IInv'
  BY <1>2, StartVerifyKeeps, CountGuessKeeps, ClaimKeeps, EndsKeep DEF SecondFactor
<1>3. ASSUME NEW r \in Req, Replacement(r), UNCHANGED proofVars PROVE IInv'
  BY <1>3, HashedStartsKeep, IssueResetKeeps, CommitResetKeeps, CommitChangeKeeps, EndsKeep
     DEF Replacement
<1>4. ASSUME Next, UNCHANGED proofVars PROVE IInv'
  BY <1>1, <1>2, <1>3, <1>4, EndsKeep, ResendKeeps, ExpireKeeps, SettingsKeep DEF Next
<1>5. ASSUME NEW r \in Req, FirstPassword(r) PROVE IInv'
  BY <1>5, HashedStartsKeep, ClearFirstKeeps, StoringKeeps, StartConfirmKeeps, CommitFirstKeeps,
     EndsKeep DEF FirstPassword
<1>6. ASSUME NEW r \in Req, Closing(r) PROVE IInv'
  BY <1>6, StartCloseKeeps, CommitCloseKeeps, EndsKeep, HashedStartsKeep, CheckCloseCodeKeeps,
     StoringKeeps, StartConfirmKeeps, CommitConfirmCloseKeeps DEF Closing
<1>7. ASSUME Settings PROVE IInv'
  BY <1>7, StoringKeeps, WrongSettingKeeps, ConfirmSettingKeeps DEF Settings
<1>8. ASSUME UNCHANGED accountVars PROVE IInv'
  <2>1. UNCHANGED others /\ UNCHANGED req
    BY <1>8 DEF accountVars, others
  <2>2. Typed'
    BY <2>1 DEF IInv, Typed, others
  <2>3. Steady
    BY <2>1 DEF Steady, IInv, Typed, User, others
  <2>4. AccountTrue' /\ ChallengesTrue' /\ ResetsTrue' /\ ProofsTrue'
    BY <2>1, ChallengesLeft, ResetsLeft, ProofsLeft
       DEF IInv, AccountTrue, BannedLoggedOut, others, proofVars
  <2>5. QED
    BY <2>1, <2>2, <2>3, <2>4, Preserved
<1>9. QED
  BY <1>4, <1>5, <1>6, <1>7, <1>8, EndsKeep, ProofUndeliveredKeeps, ReaddressKeeps, ExpireProofKeeps
     DEF AccountNext

(* Whatever a request has read of the account, by the time it commits the  *)
(* account, its sessions, challenges, links and codes are what the         *)
(* invariant says of them.                                                 *)
THEOREM Invariant == AccountSpec => []IInv
<1>1. QED
  BY InitTrue, StepKeeps, PTL DEF AccountSpec

-----------------------------------------------------------------------------
(* What was let in or issued for a password that was replaced is over: the *)
(* account, its sessions and the one reset link that may work rest on the  *)
(* last password chosen, and a banned account has no session.              *)
THEOREM PasswordDecides == AccountSpec => []PasswordInForce
<1>1. IInv => PasswordInForce
  <2> SUFFICES ASSUME IInv PROVE PasswordInForce
    OBVIOUS
  <2> DEFINE usable == {k \in Resets : reset[k].st = "live"}
  <2>1. \A k \in usable : reset[k].pw = chosen
    BY DEF IInv, ResetsTrue, Unused
  <2>2. \A j, k \in usable : j = k
    BY DEF IInv, ResetsTrue, Unused
  <2> HIDE DEF usable
  <2>3. Cardinality(usable) <= 1
    <3>1. CASE usable = {}
      BY <3>1, FS_EmptySet
    <3>2. ASSUME NEW k \in usable PROVE Cardinality(usable) <= 1
      <4>1. usable = {k}
        BY <2>2
      <4>2. Cardinality({k}) = 1
        BY FS_Singleton
      <4>3. Cardinality(usable) = 1
        BY <4>1, <4>2, Zenon
      <4>4. QED
        BY <4>3
    <3>3. QED
      BY <3>1, <3>2
  <2>4. QED
    BY <2>1, <2>3 DEF PasswordInForce, IInv, AccountTrue, usable
<1>2. QED
  BY <1>1, Invariant, PTL

(* Which steps make a session, spend a challenge, spend a code and close   *)
(* the account.                                                            *)
Quiet ==
    /\ minted'.session = minted.session /\ proven' = proven /\ effect' = effect
    /\ user'.gone = user.gone

LEMMA QuietFields ==
    ASSUME Typed, proven' = proven, effect' = effect,
           minted' = minted,
           \/ user' = user
           \/ \E b : user' = [user EXCEPT !.banned = b] \/ user' = [user EXCEPT !.twofa = b]
           \/ \E e : user' = [user EXCEPT !.email = e]
    PROVE  Quiet
<1>1. minted'.session = minted.session
  BY DEF Typed
<1>2. user'.gone = user.gone
  BY DEF Typed, User
<1>3. QED
  BY <1>1, <1>2 DEF Quiet

LEMMA LoginQuiet ==
    ASSUME IInv, NEW r \in Req, UNCHANGED proofVars,
           Login(r) \/ SecondFactor(r) \/ Replacement(r) \/ Fail(r)
    PROVE  Quiet \/ LoginSession(r) \/ Claim(r)
<1>1. Typed /\ effect' = effect
  BY DEF IInv, proofVars
<1>2. CASE \/ StartLogin(r) \/ RehashSkipped(r) \/ RefuseLogin(r) \/ LoginChallenge(r)
           \/ MailSent(r) \/ MailFails(r) \/ CountGuess(r) \/ ClaimRefused(r) \/ Fail(r)
           \/ \E c \in Challenges, code \in 0..(Refreshes + 1) : StartVerify(r, c, code)
  <2>1. minted' = minted /\ user' = user /\ proven' = proven
    BY <1>2 DEF StartLogin, RehashSkipped, RefuseLogin, LoginChallenge, MailSent, MailFails,
                CountGuess, ClaimRefused, Fail, StartVerify
  <2>2. QED
    BY <1>1, <2>1 DEF Quiet
<1>3. CASE \/ StartForgot(r) \/ IssueReset(r) \/ Conflict(r)
           \/ \E k \in Resets : StartReset(r, k)
           \/ \E keep \in 0..MaxSession : StartChange(r, keep)
  <2>1. minted' = minted /\ user' = user /\ proven' = proven
    BY <1>3 DEF StartForgot, IssueReset, Conflict, StartReset, StartChange
  <2>2. QED
    BY <1>1, <2>1 DEF Quiet
<1>4. CASE RehashSucceeds(r)
  <2>1. PICK new : new = [req[r].snap EXCEPT !.hash = minted.hash + 1]
    OBVIOUS
  <2>2. /\ minted' = [minted EXCEPT !.hash = minted.hash + 1] /\ proven' = proven
        /\ user' = [user EXCEPT !.hash = new.hash, !.pw = new.pw, !.stale = FALSE]
    BY <1>4, <2>1 DEF RehashSucceeds
  <2>3. minted'.session = minted.session
    BY <1>1, <2>2 DEF Typed
  <2>4. user'.gone = user.gone
    BY <1>1, <2>2 DEF Typed, User
  <2>5. QED
    BY <1>1, <2>2, <2>3, <2>4 DEF Quiet
<1>5. CASE CommitReset(r) \/ CommitChange(r)
  <2>1. /\ minted' = [minted EXCEPT !.hash = minted.hash + 1] /\ proven' = proven
        /\ user' = [user EXCEPT !.hash = minted.hash + 1, !.pw = chosen + 1, !.stale = FALSE]
    BY <1>5 DEF CommitReset, CommitChange, Replace
  <2>2. minted'.session = minted.session
    BY <1>1, <2>1 DEF Typed
  <2>3. user'.gone = user.gone
    BY <1>1, <2>1 DEF Typed, User
  <2>4. QED
    BY <1>1, <2>1, <2>2, <2>3 DEF Quiet
<1>6. QED
  BY <1>2, <1>3, <1>4, <1>5 DEF Login, SecondFactor, Replacement

LEMMA NextQuiet ==
    ASSUME IInv, Next, UNCHANGED proofVars
    PROVE  Quiet \/ \E r \in Req : LoginSession(r) \/ Claim(r)
<1>1. Typed /\ effect' = effect
  BY DEF IInv, proofVars
<1>2. CASE \E c \in Challenges : Resend(c) \/ Expire(c)
  BY <1>1, <1>2 DEF Resend, Expire, Quiet
<1>3. CASE \E s \in session : EndSession(s) \/ Disable(s) \/ \E keep \in BOOLEAN : Enable(s, keep)
  <2>1. /\ minted' = minted /\ proven' = proven
        /\ \/ user' = user \/ user' = [user EXCEPT !.twofa = TRUE]
           \/ user' = [user EXCEPT !.twofa = FALSE]
    BY <1>3 DEF EndSession, Disable, Enable
  <2>2. QED
    BY <1>1, <2>1, QuietFields
<1>4. CASE Ban \/ Unban
  <2>1. /\ minted' = minted /\ proven' = proven
        /\ \/ user' = [user EXCEPT !.banned = TRUE] \/ user' = [user EXCEPT !.banned = FALSE]
    BY <1>4 DEF Ban, Unban
  <2>2. QED
    BY <1>1, <2>1, QuietFields
<1>5. QED
  BY <1>2, <1>3, <1>4, LoginQuiet DEF Next

LEMMA CodesQuiet ==
    ASSUME IInv,
           \/ \E r \in Req : \/ FirstPassword(r) \/ Closing(r)
                             \/ ProofSent(r) \/ ProofUndelivered(r)
           \/ Settings \/ Readdress \/ \E k \in Proofs : ExpireProof(k)
    PROVE  \/ Quiet
           \/ \E r \in Req : CommitFirst(r) \/ CommitClose(r) \/ CommitConfirmClose(r)
           \/ \E s \in session, k \in Proofs, keep \in BOOLEAN : ConfirmSetting(s, k, keep)
<1>1. Typed
  BY DEF IInv
<1>2. ASSUME NEW r \in Req,
             \/ StartFirst(r) \/ ClearFirst(r) \/ IssueFirst(r) \/ RefuseFirst(r)
             \/ \E k \in Proofs : StartConfirmFirst(r, k) \/ StartConfirmClose(r, k)
             \/ StartClose(r) \/ RefuseClose(r) \/ StartCloseCode(r) \/ CheckCloseCode(r)
             \/ IssueCloseCode(r) \/ RefuseConfirmClose(r) \/ ProofSent(r) \/ ProofUndelivered(r)
      PROVE  Quiet
  <2>1. minted' = minted /\ user' = user /\ proven' = proven /\ effect' = effect
    BY <1>2 DEF StartFirst, ClearFirst, IssueFirst, RefuseFirst, StartConfirmFirst,
                StartConfirmClose, StartClose, RefuseClose, StartCloseCode, CheckCloseCode,
                IssueCloseCode, RefuseConfirmClose, ProofSent, ProofUndelivered, account, log
  <2>2. QED
    BY <2>1 DEF Quiet
<1>3. CASE Settings
  <2>1. PICK s \in session :
          \/ \E r \in Req, kind \in Setting : RequestSetting(r, s, kind)
          \/ \E k \in Proofs : WrongSetting(s, k) \/ \E keep \in BOOLEAN : ConfirmSetting(s, k, keep)
    BY <1>3 DEF Settings
  <2>2. CASE \/ \E r \in Req, kind \in Setting : RequestSetting(r, s, kind)
             \/ \E k \in Proofs : WrongSetting(s, k)
    <3>1. minted' = minted /\ user' = user /\ proven' = proven /\ effect' = effect
      BY <2>2 DEF RequestSetting, WrongSetting, account, log
    <3>2. QED
      BY <3>1 DEF Quiet
  <2>3. QED
    BY <2>1, <2>2
<1>4. CASE Readdress
  BY <1>1, <1>4, QuietFields DEF Readdress
<1>5. CASE \E k \in Proofs : ExpireProof(k)
  BY <1>5 DEF ExpireProof, account, log, Quiet
<1>6. QED
  BY <1>2, <1>3, <1>4, <1>5 DEF FirstPassword, Closing

LEMMA StepsQuiet ==
    ASSUME IInv, [AccountNext]_accountVars
    PROVE  \/ Quiet
           \/ (\E r \in Req : LoginSession(r) \/ Claim(r)) /\ UNCHANGED proofVars
           \/ \E r \in Req : CommitFirst(r) \/ CommitClose(r) \/ CommitConfirmClose(r)
           \/ \E s \in session, k \in Proofs, keep \in BOOLEAN : ConfirmSetting(s, k, keep)
<1>1. CASE UNCHANGED accountVars
  BY <1>1 DEF accountVars, Quiet
<1>2. CASE AccountNext
  BY <1>2, NextQuiet, CodesQuiet DEF AccountNext
<1>3. QED
  BY <1>1, <1>2

LEMMA FactorStep ==
    ASSUME IInv, [AccountNext]_accountVars
    PROVE  user.twofa /\ minted'.session # minted.session => proven' # proven
<1>1. ASSUME NEW r \in Req, LoginSession(r) PROVE ~user.twofa
  BY <1>1 DEF LoginSession, Identity
<1>2. ASSUME NEW r \in Req, Claim(r) PROVE proven' # proven
  <2>1. PICK c : c = req[r].tok
    OBVIOUS
  <2>2. c \in Challenges /\ proven' = [proven EXCEPT ![c] = @ + 1]
    BY <1>2, <2>1 DEF Claim, At, IInv, ReqTrue
  <2>3. proven \in [Challenges -> Nat]
    BY DEF IInv, Typed
  <2>4. proven'[c] = proven[c] + 1 /\ proven[c] \in Nat
    BY <2>2, <2>3
  <2>5. QED
    BY <2>4
<1>3. ASSUME NEW r \in Req, CommitFirst(r) \/ CommitClose(r) \/ CommitConfirmClose(r)
      PROVE  minted'.session = minted.session
  <2>1. minted' = minted \/ minted' = [minted EXCEPT !.hash = minted.hash + 1]
    BY <1>3 DEF CommitFirst, CommitClose, CommitConfirmClose
  <2>2. QED
    BY <2>1 DEF IInv, Typed
<1>4. ASSUME NEW s, NEW k, NEW keep, ConfirmSetting(s, k, keep)
      PROVE  minted'.session = minted.session
  BY <1>4 DEF ConfirmSetting
<1>5. QED
  BY <1>1, <1>2, <1>3, <1>4, StepsQuiet DEF Quiet

(* A login that read the account before its second factor was switched on  *)
(* does not get a session past it.                                         *)
THEOREM FactorDemanded == AccountSpec => SecondFactorDemanded
<1>1. IInv /\ [AccountNext]_accountVars =>
        [user.twofa /\ minted'.session # minted.session => proven' # proven]_vars
  BY FactorStep
<1>2. QED
  BY <1>1, Invariant, PTL DEF AccountSpec, SecondFactorDemanded

CodesStep ==
    /\ \A c \in Challenges : proven'[c] # proven[c] => wrong[c] < Cap /\ proven[c] = 0
    /\ \A k \in Proofs : effect'[k] # effect[k] =>
         /\ effect[k] = 0
         /\ proof[k].kind \in Setting =>
              tried[k] < Cap /\ \E s \in session : s.id = proof[k].session
         /\ proof[k].kind = "first" => user.hash = 0
         /\ proof[k].kind # "close" => proof[k].email = user.email

LEMMA CodeSpent ==
    ASSUME IInv, [AccountNext]_accountVars
    PROVE  CodesStep
<1>1. ASSUME NEW r \in Req, LoginSession(r), UNCHANGED proofVars PROVE CodesStep
  BY <1>1 DEF LoginSession, proofVars, CodesStep
<1>2. ASSUME NEW r \in Req, Claim(r), UNCHANGED proofVars PROVE CodesStep
  <2>1. PICK c : c = req[r].tok
    OBVIOUS
  <2>2. /\ proven' = [proven EXCEPT ![c] = @ + 1] /\ effect' = effect
        /\ challenge[c].st = "live" /\ challenge[c].attempts < Cap /\ req[r].pc = "claim"
    BY <1>2, <2>1 DEF Claim, Claimable, At, proofVars
  <2>3. c \in Challenges /\ proven[c] = 0 /\ wrong[c] <= challenge[c].attempts
    BY <2>1, <2>2 DEF IInv, ReqTrue, ChallengesTrue, Unused
  <2>4. wrong[c] \in Nat /\ challenge[c].attempts \in Nat
    BY <2>3, BoundsTyped DEF IInv, Typed, Challenge
  <2>5. wrong[c] < Cap
    BY <2>2, <2>3, <2>4, BoundsTyped
  <2>6. \A d \in Challenges : d # c => proven'[d] = proven[d]
    BY <2>2 DEF IInv, Typed
  <2>7. QED
    BY <2>2, <2>3, <2>5, <2>6 DEF CodesStep
<1>3. ASSUME NEW k \in Proofs, proof[k].st = "live", proven' = proven,
             effect' = [effect EXCEPT ![k] = @ + 1],
             proof[k].kind \in Setting =>
               proof[k].attempts < Cap /\ \E s \in session : s.id = proof[k].session,
             proof[k].kind = "first" => user.hash = 0,
             proof[k].kind # "close" => proof[k].email = user.email
      PROVE  CodesStep
  <2>1. effect[k] = 0 /\ (proof[k].attempts < Cap => tried[k] <= proof[k].attempts)
    BY <1>3 DEF IInv, ProofsTrue, Unused
  <2>2. tried[k] \in Nat /\ proof[k].attempts \in Nat
    BY BoundsTyped DEF IInv, Typed, Codes
  <2>3. proof[k].attempts < Cap => tried[k] < Cap
    BY <2>1, <2>2, BoundsTyped
  <2>4. \A j \in Proofs : j # k => effect'[j] = effect[j]
    BY <1>3 DEF IInv, Typed
  <2>5. QED
    BY <1>3, <2>1, <2>3, <2>4 DEF CodesStep
<1>4. ASSUME NEW r \in Req, CommitFirst(r) PROVE CodesStep
  <2>1. PICK k : k = req[r].tok
    OBVIOUS
  <2>2. /\ req[r].pc = "first" /\ proof[k].st = "live" /\ proven' = proven
        /\ effect' = [effect EXCEPT ![k] = @ + 1]
        /\ user.hash = 0 /\ user.email = proof[k].email
    BY <1>4, <2>1 DEF CommitFirst, MayChoose, At
  <2>3. k \in Proofs /\ proof[k].kind = "first" /\ "first" \notin Setting
    BY <2>1, <2>2 DEF IInv, ReqTrue, Setting
  <2>4. QED
    BY <1>3, <2>2, <2>3
<1>5. ASSUME NEW r \in Req, CommitConfirmClose(r) PROVE CodesStep
  <2>1. PICK k : k = req[r].tok
    OBVIOUS
  <2>2. /\ req[r].pc = "claimclose" /\ proof[k].st = "live" /\ proven' = proven
        /\ effect' = [effect EXCEPT ![k] = @ + 1]
    BY <1>5, <2>1 DEF CommitConfirmClose, CloseClaimable, At
  <2>3. k \in Proofs /\ proof[k].kind = "close" /\ "close" \notin Setting
    BY <2>1, <2>2 DEF IInv, ReqTrue, Setting
  <2>4. QED
    BY <1>3, <2>2, <2>3
<1>6. ASSUME NEW r \in Req, CommitClose(r) PROVE CodesStep
  BY <1>6 DEF CommitClose, CodesStep
<1>7. ASSUME NEW s \in session, NEW k \in Proofs, NEW keep, ConfirmSetting(s, k, keep)
      PROVE  CodesStep
  <2>1. /\ proof[k].st = "live" /\ proof[k].attempts < Cap /\ proven' = proven
        /\ effect' = [effect EXCEPT ![k] = @ + 1]
        /\ s.id = proof[k].session /\ proof[k].email = user.email /\ proof[k].kind \in Setting
    BY <1>7 DEF ConfirmSetting, Counts
  <2>2. proof[k].kind # "first"
    BY <2>1 DEF Setting
  <2>3. QED
    BY <1>3, <2>1, <2>2
<1>8. Quiet => CodesStep
  BY DEF Quiet, CodesStep
<1>9. QED
  BY <1>1, <1>2, <1>4, <1>5, <1>6, <1>7, <1>8, StepsQuiet

(* A mailed code has its effect once, before Cap wrong guesses, for the    *)
(* session and the address it was issued to, and only where what it is for *)
(* still holds.                                                            *)
THEOREM CodesCount == AccountSpec => CodesHold
<1>1. IInv /\ [AccountNext]_accountVars => [CodesStep]_accountVars
  BY CodeSpent
<1>2. [][CodesStep]_accountVars => CodesHold
  BY PTL DEF CodesHold, CodesStep
<1>3. QED
  BY <1>1, <1>2, Invariant, PTL DEF AccountSpec

ClosingStep ==
    user'.gone /\ ~user.gone =>
        \E r \in Req :
            /\ req'[r] # req[r]
            /\ \/ At(r, "close") /\ req[r].snap.pw = chosen /\ ~user.banned
               \/ At(r, "claimclose") /\ proof[req[r].tok].st = "live"

LEMMA ClosingStepTrue ==
    ASSUME IInv, [AccountNext]_accountVars
    PROVE  ClosingStep
<1>1. ASSUME NEW r \in Req, Done(r), ~At(r, "idle") PROVE req'[r] # req[r]
  <2>1. req'[r].pc = "idle"
    BY <1>1 DEF Done, Idle, IInv, Typed
  <2>2. QED
    BY <1>1, <2>1 DEF At
<1>2. ASSUME NEW r \in Req, CommitClose(r) PROVE ClosingStep
  <2>1. Done(r) /\ At(r, "close") /\ ~user.banned /\ user.hash = req[r].snap.hash
    BY <1>2 DEF CommitClose, Identity
  <2>2. req[r].snap.pw = chosen
    BY <2>1 DEF At, IInv, ReqTrue, AccountTrue
  <2>3. ~At(r, "idle")
    BY <2>1 DEF At
  <2>4. QED
    BY <1>1, <2>1, <2>2, <2>3 DEF ClosingStep
<1>3. ASSUME NEW r \in Req, CommitConfirmClose(r) PROVE ClosingStep
  <2>1. Done(r) /\ At(r, "claimclose") /\ proof[req[r].tok].st = "live"
    BY <1>3 DEF CommitConfirmClose, CloseClaimable
  <2>2. ~At(r, "idle")
    BY <2>1 DEF At
  <2>3. QED
    BY <1>1, <2>1, <2>2 DEF ClosingStep
<1>4. ASSUME NEW r \in Req, LoginSession(r) \/ Claim(r) PROVE user'.gone = user.gone
  BY <1>4 DEF LoginSession, Claim
<1>5. ASSUME NEW r \in Req, CommitFirst(r) PROVE user'.gone = user.gone
  BY <1>5 DEF CommitFirst, IInv, Typed, User
<1>6. ASSUME NEW s, NEW k, NEW keep, ConfirmSetting(s, k, keep) PROVE user'.gone = user.gone
  BY <1>6 DEF ConfirmSetting, IInv, Typed, User
<1>7. QED
  BY <1>2, <1>3, <1>4, <1>5, <1>6, StepsQuiet DEF Quiet, ClosingStep

(* An account closes for the password it has at that moment or for a code  *)
(* still good, whatever was decided about either since they were compared. *)
THEOREM OwnerCloses == AccountSpec => ClosedByOwner
<1>1. IInv /\ [AccountNext]_accountVars => [ClosingStep]_accountVars
  BY ClosingStepTrue
<1>2. [][ClosingStep]_accountVars => ClosedByOwner
  BY PTL DEF ClosedByOwner, ClosingStep
<1>3. QED
  BY <1>1, <1>2, Invariant, PTL DEF AccountSpec
=============================================================================
