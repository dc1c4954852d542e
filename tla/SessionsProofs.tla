--------------------------- MODULE SessionsProofs ---------------------------
(***************************************************************************)
(* Theorems about sessions, in three parts, each for any number of actors  *)
(* and any durations.                                                      *)
(* The store (Sessions).  The invariant is IInv: a minted token that no    *)
(* row holds yet belongs to one request in flight, a token once exchanged  *)
(* is never current again, and a rotating request owns the lock of a row   *)
(* that still holds the token it presented.                                *)
(* The browsers above the store (BrowserSessions), from BrowserInv.        *)
(* The cache of rows (SnapshotCache), which implements AtomicReads, from   *)
(* CacheInv.                                                               *)
(***************************************************************************)
EXTENDS Sessions, BrowserSessions, SnapshotCache, FiniteSetTheorems,
        WellFoundedInduction, TLAPS

Minting == {r \in Req : req[r].pc \in {"update", "rotating"}}

(* What a request's step lets one assume of its fields. *)
StepsFormed ==
    \A r \in Req :
        /\ req[r].pc \in RefreshSteps => req[r].tok \in Token
        /\ r \in Minting => req[r].new \in Token
        /\ req[r].pc \in {"rotating", "reuse", "report"} => req[r].sid \in Sid

(* Nothing in the system mentions a token before the generator issued it. *)
MintedOnly ==
    /\ \A s \in Sid : row[s].cur < nextToken /\ row[s].prev < nextToken
    /\ \A r \in Req : req[r].tok < nextToken /\ req[r].new < nextToken
    /\ \A e \in exchanged : e.old < nextToken /\ e.new < nextToken

(* The pair a request has minted and not yet stored is nobody else's. *)
PendingUnused ==
    \A r \in Minting :
        /\ \A s \in Sid : req[r].new # row[s].cur /\ req[r].new # row[s].prev
        /\ \A e \in exchanged : req[r].new # e.old
        /\ \A q \in Minting : q # r => req[q].new # req[r].new

(* An exchanged token is no row's current token. *)
ExchangedSuperseded ==
    \A e \in exchanged : \A s \in LiveSids : row[s].cur # e.old

(* Between its UPDATE and its commit a rotation owns its row. *)
RotatingOwnsRow ==
    \A r \in Req : req[r].pc = "rotating" =>
        /\ lock[req[r].sid] = r
        /\ row[req[r].sid].st = "live"
        /\ row[req[r].sid].cur = req[r].tok

IInv ==
    /\ TypeOK
    /\ StepsFormed
    /\ MintedOnly
    /\ PendingUnused
    /\ ExchangedSuperseded
    /\ RotatingOwnsRow
    /\ TokensNameOneSession
    /\ OneSuccessor

USE BoundsAssumption, DurationsAssumption, FreeAssumption

-----------------------------------------------------------------------------
(* A request record that holds no unstored pair. *)
QuietRequest(q) ==
    /\ q \in Request
    /\ q.pc \notin {"update", "rotating"}
    /\ q.pc \in RefreshSteps => q.tok \in Token
    /\ q.pc \in {"reuse", "report"} => q.sid \in Sid
    /\ q.tok < nextToken /\ q.new < nextToken

Answered(r, out) == [IdleRequest EXCEPT !.tok = req[r].tok, !.at = req[r].at,
                        !.sid = req[r].sid, !.snap = req[r].snap, !.out = out]

(* The empty row, the deleted row and the request not yet made are well    *)
(* formed (the zero values Init and DELETE leave).                         *)
LEMMA Shapes == NoRow \in Row /\ Ended \in Row /\ IdleRequest \in Request
BY DEF NoRow, Ended, Row, IdleRequest, Request, Token, NoToken, Outcome

(* A token is a positive number within the generator's bound. *)
LEMMA TokensAreNumbers == Token \subseteq Nat /\ \A tok \in Token : tok # NoToken
BY DEF Token, NoToken

(* What a finished request leaves behind is quiet. *)
LEMMA AnsweredQuiet ==
    ASSUME IInv, NEW r \in Req, NEW out \in Outcome
    PROVE  QuietRequest(Answered(r, out))
<1>1. req[r] \in Request
  BY DEF IInv, TypeOK
<1>2. 0 < nextToken /\ req[r].tok < nextToken
  BY DEF IInv, TypeOK, MintedOnly
<1>. QED
  BY <1>1, <1>2, Shapes DEF QuietRequest, Answered, IdleRequest, Request,
     RefreshSteps, NoToken

(* Replacing one request's record by a quiet one keeps every request       *)
(* typed and formed, and every pair still pending where it was.            *)
LEMMA RequestMoves ==
    ASSUME IInv, NEW r \in Req, NEW q, QuietRequest(q),
           req' = [req EXCEPT ![r] = q], UNCHANGED nextToken
    PROVE  /\ req' \in [Req -> Request]
           /\ StepsFormed'
           /\ \A p \in Req : req'[p].tok < nextToken /\ req'[p].new < nextToken
           /\ r \notin Minting'
           /\ \A p \in Req : p # r => req'[p] = req[p]
<1>1. /\ req \in [Req -> Request] /\ StepsFormed
      /\ \A p \in Req : req[p].tok < nextToken /\ req[p].new < nextToken
  BY DEF IInv, TypeOK, MintedOnly
<1>2. q \in Request /\ req' \in [Req -> Request]
  BY <1>1 DEF QuietRequest
<1>3. req'[r] = q /\ \A p \in Req : p # r => req'[p] = req[p]
  BY <1>1
<1>4. \A p \in Req : req'[p].tok < nextToken /\ req'[p].new < nextToken
  BY <1>1, <1>3 DEF QuietRequest
<1>5. r \notin Minting'
  BY <1>3 DEF Minting, QuietRequest
<1>6. StepsFormed'
  BY <1>1, <1>3 DEF StepsFormed, Minting, QuietRequest
<1>. QED
  BY <1>2, <1>3, <1>4, <1>5, <1>6

(* A step that mints nothing and exchanges nothing, and on the rows only   *)
(* ends unlocked ones or touches what is not a token, keeps the invariant. *)
LEMMA QuietStep ==
    ASSUME IInv, TypeOK', StepsFormed',
           UNCHANGED <<nextToken, exchanged>>,
           \A p \in Req : req'[p].tok < nextToken /\ req'[p].new < nextToken,
           \A p \in Minting' : req'[p] = req[p],
           \A s \in Sid : lock'[s] = lock[s] \/ lock[s] \notin Minting',
           \A s \in Sid : \/ /\ row'[s].st = row[s].st
                             /\ row'[s].cur = row[s].cur
                             /\ row'[s].prev = row[s].prev
                          \/ lock[s] = Free /\ row'[s] = Ended
    PROVE  IInv'
<1>1. \A s \in Sid : /\ row'[s].cur \in {row[s].cur, NoToken}
                     /\ row'[s].prev \in {row[s].prev, NoToken}
  BY DEF Ended, NoRow
<1>2. Minting' \subseteq Minting
  BY DEF Minting
<1>3. LiveSids' \subseteq LiveSids
      /\ \A s \in LiveSids' : row'[s].cur = row[s].cur /\ row'[s].prev = row[s].prev
  BY DEF LiveSids, Ended, NoRow
<1>4. \A r \in Minting' : req'[r].new \in Token
  BY DEF StepsFormed, Minting
<1>5. MintedOnly'
  BY <1>1 DEF IInv, TypeOK, MintedOnly, NoToken
<1>6. PendingUnused'
  <2> SUFFICES ASSUME NEW r \in Minting'
               PROVE  /\ \A s \in Sid : /\ req'[r].new # row'[s].cur
                                       /\ req'[r].new # row'[s].prev
                      /\ \A e \in exchanged' : req'[r].new # e.old
                      /\ \A q \in Minting' : q # r => req'[q].new # req'[r].new
    BY DEF PendingUnused
  <2>1. r \in Minting /\ req'[r] = req[r] /\ req'[r].new # NoToken
    BY <1>2, <1>4, TokensAreNumbers
  <2>2. /\ \A s \in Sid : req[r].new # row[s].cur /\ req[r].new # row[s].prev
        /\ \A e \in exchanged : req[r].new # e.old
        /\ \A q \in Minting : q # r => req[q].new # req[r].new
    BY <2>1 DEF IInv, PendingUnused
  <2>3. \A s \in Sid : req'[r].new # row'[s].cur /\ req'[r].new # row'[s].prev
    BY <1>1, <2>1, <2>2
  <2>4. \A q \in Minting' : q # r => req'[q].new # req'[r].new
    BY <1>2, <2>1, <2>2
  <2>. QED
    BY <2>1, <2>2, <2>3, <2>4
<1>7. ExchangedSuperseded'
  BY <1>3 DEF IInv, ExchangedSuperseded
<1>8. RotatingOwnsRow'
  <2> SUFFICES ASSUME NEW r \in Req, req'[r].pc = "rotating"
               PROVE  /\ lock'[req'[r].sid] = r
                      /\ row'[req'[r].sid].st = "live"
                      /\ row'[req'[r].sid].cur = req'[r].tok
    BY DEF RotatingOwnsRow
  <2>1. r \in Minting' /\ req'[r] = req[r]
    BY DEF Minting
  <2>2. req[r].sid \in Sid
    BY <2>1 DEF IInv, StepsFormed
  <2>3. /\ lock[req[r].sid] = r /\ row[req[r].sid].st = "live"
        /\ row[req[r].sid].cur = req[r].tok
    BY <2>1 DEF IInv, RotatingOwnsRow
  <2>4. lock[req[r].sid] # Free
    BY <2>3
  <2>. QED
    BY <2>1, <2>2, <2>3, <2>4
<1>9. TokensNameOneSession'
  BY <1>3 DEF IInv, TokensNameOneSession
<1>10. OneSuccessor'
  BY DEF IInv, OneSuccessor
<1>. QED
  BY <1>5, <1>6, <1>7, <1>8, <1>9, <1>10 DEF IInv

(* The same for a step of request r that leaves a quiet record behind and  *)
(* frees at most the row r itself had locked.                              *)
LEMMA QuietRequestStep ==
    ASSUME IInv, NEW r \in Req, NEW q, QuietRequest(q),
           req' = [req EXCEPT ![r] = q],
           UNCHANGED <<now, nextToken, exchanged, condemned>>,
           row' \in [Sid -> Row], lock' \in [Sid -> Req \cup {Free}],
           reported' \subseteq Sid,
           \A s \in Sid : lock'[s] = lock[s] \/ lock[s] = r,
           \A s \in Sid : \/ /\ row'[s].st = row[s].st
                             /\ row'[s].cur = row[s].cur
                             /\ row'[s].prev = row[s].prev
                          \/ lock[s] = Free /\ row'[s] = Ended
    PROVE  IInv'
<1>1. /\ req' \in [Req -> Request]
      /\ StepsFormed'
      /\ \A p \in Req : req'[p].tok < nextToken /\ req'[p].new < nextToken
      /\ r \notin Minting'
      /\ \A p \in Req : p # r => req'[p] = req[p]
  BY RequestMoves
<1>2. TypeOK'
  BY <1>1 DEF IInv, TypeOK
<1>3. \A p \in Minting' : req'[p] = req[p]
  BY <1>1 DEF Minting
<1>4. \A s \in Sid : lock'[s] = lock[s] \/ lock[s] \notin Minting'
  BY <1>1
<1>. QED
  BY <1>1, <1>2, <1>3, <1>4, QuietStep

(* And for a step of the table or the clock that no request takes. *)
LEMMA TableStep ==
    ASSUME IInv, UNCHANGED <<lock, req, nextToken, exchanged, reported>>,
           now' \in Time, row' \in [Sid -> Row], condemned' \subseteq Sid,
           \A s \in Sid : row'[s] = row[s] \/ (lock[s] = Free /\ row'[s] = Ended)
    PROVE  IInv'
<1>1. TypeOK'
  BY DEF IInv, TypeOK
<1>2. StepsFormed'
  BY DEF IInv, StepsFormed, Minting
<1>3. \A p \in Req : req'[p].tok < nextToken /\ req'[p].new < nextToken
  BY DEF IInv, MintedOnly
<1>. QED
  BY <1>1, <1>2, <1>3, QuietStep

-----------------------------------------------------------------------------
(* The steps of a refresh that neither mint nor exchange a token. *)
LEMMA RotateMissStep == ASSUME IInv, NEW r \in Req, RotateMiss(r) PROVE IInv'
<1>. DEFINE q == [req[r] EXCEPT !.pc = "current"]
<1>1. /\ req[r] \in Request /\ req[r].tok \in Token
      /\ req[r].tok < nextToken /\ req[r].new < nextToken
  BY DEF IInv, TypeOK, StepsFormed, MintedOnly, RotateMiss, RefreshSteps
<1>2. QuietRequest(q)
  BY <1>1 DEF QuietRequest, Request, RefreshSteps
<1>3. /\ req' = [req EXCEPT ![r] = q]
      /\ UNCHANGED <<now, row, lock, nextToken, exchanged, reported, condemned>>
  BY DEF RotateMiss, Goto, IInv, TypeOK
<1>. QED
  BY <1>2, <1>3, QuietRequestStep DEF IInv, TypeOK

LEMMA ClassifyCurrentStep == ASSUME IInv, NEW r \in Req, ClassifyCurrent(r) PROVE IInv'
<1>1. UNCHANGED <<now, row, lock, nextToken, exchanged, reported, condemned>>
  BY DEF ClassifyCurrent
<1>2. CASE Goto(r, "previous")
  <2>. DEFINE q == [req[r] EXCEPT !.pc = "previous"]
  <2>1. /\ req[r] \in Request /\ req[r].tok \in Token
        /\ req[r].tok < nextToken /\ req[r].new < nextToken
    BY DEF IInv, TypeOK, StepsFormed, MintedOnly, ClassifyCurrent, RefreshSteps
  <2>2. QuietRequest(q)
    BY <2>1 DEF QuietRequest, Request, RefreshSteps
  <2>3. req' = [req EXCEPT ![r] = q]
    BY <1>2 DEF Goto, IInv, TypeOK
  <2>. QED
    BY <1>1, <2>2, <2>3, QuietRequestStep DEF IInv, TypeOK
<1>3. CASE \E out \in Outcome : Finish(r, out)
  <2>. PICK out \in Outcome : Finish(r, out)
    BY <1>3
  <2>1. req' = [req EXCEPT ![r] = Answered(r, out)]
    BY DEF Finish, Answered
  <2>. QED
    BY <1>1, <2>1, AnsweredQuiet, QuietRequestStep DEF IInv, TypeOK
<1>. QED
  BY <1>2, <1>3 DEF ClassifyCurrent, RefusalOfCurrent, Outcome

LEMMA ClassifyPreviousStep == ASSUME IInv, NEW r \in Req, ClassifyPrevious(r) PROVE IInv'
<1>1. UNCHANGED <<now, row, lock, nextToken, exchanged, reported, condemned>>
  BY DEF ClassifyPrevious
<1>2. CASE \E out \in Outcome : Finish(r, out)
  <2>. PICK out \in Outcome : Finish(r, out)
    BY <1>2
  <2>1. req' = [req EXCEPT ![r] = Answered(r, out)]
    BY DEF Finish, Answered
  <2>. QED
    BY <1>1, <2>1, AnsweredQuiet, QuietRequestStep DEF IInv, TypeOK
<1>3. ASSUME NEW s \in Sid,
             req' = [req EXCEPT ![r].pc = "reuse", ![r].sid = s, ![r].snap = row[s]]
      PROVE  IInv'
  <2>. DEFINE q == [req[r] EXCEPT !.pc = "reuse", !.sid = s, !.snap = row[s]]
  <2>1. /\ req[r] \in Request /\ req[r].tok \in Token /\ row[s] \in Row
        /\ req[r].tok < nextToken /\ req[r].new < nextToken
    BY DEF IInv, TypeOK, StepsFormed, MintedOnly, ClassifyPrevious, RefreshSteps
  <2>2. QuietRequest(q)
    BY <2>1 DEF QuietRequest, Request, RefreshSteps
  <2>3. req' = [req EXCEPT ![r] = q]
    BY <1>3 DEF IInv, TypeOK
  <2>. QED
    BY <1>1, <2>2, <2>3, QuietRequestStep DEF IInv, TypeOK
<1>. QED
  BY <1>2, <1>3 DEF ClassifyPrevious, Outcome, WithPrevious

LEMMA ReuseDeleteStep == ASSUME IInv, NEW r \in Req, ReuseDelete(r) PROVE IInv'
<1>. DEFINE q == [req[r] EXCEPT !.pc = "report"]
<1>1. /\ req[r] \in Request /\ req[r].tok \in Token /\ req[r].sid \in Sid
      /\ req[r].tok < nextToken /\ req[r].new < nextToken
  BY DEF IInv, TypeOK, StepsFormed, MintedOnly, ReuseDelete, RefreshSteps
<1>2. QuietRequest(q)
  BY <1>1 DEF QuietRequest, Request, RefreshSteps
<1>3. /\ req' = [req EXCEPT ![r] = q]
      /\ lock[req[r].sid] = Free /\ row' = [row EXCEPT ![req[r].sid] = Ended]
      /\ UNCHANGED <<now, lock, nextToken, exchanged, reported, condemned>>
  BY DEF ReuseDelete, Goto, IInv, TypeOK
<1>4. row' \in [Sid -> Row]
  BY <1>3, Shapes DEF IInv, TypeOK
<1>5. \A s \in Sid : row'[s] = row[s] \/ (lock[s] = Free /\ row'[s] = Ended)
  BY <1>3 DEF IInv, TypeOK
<1>. QED
  BY <1>2, <1>3, <1>4, <1>5, QuietRequestStep DEF IInv, TypeOK

LEMMA ReuseReportStep == ASSUME IInv, NEW r \in Req, ReuseReport(r) PROVE IInv'
<1>1. "reused" \in Outcome /\ req[r].sid \in Sid
  BY DEF Outcome, IInv, StepsFormed, ReuseReport
<1>2. /\ req' = [req EXCEPT ![r] = Answered(r, "reused")]
      /\ UNCHANGED <<now, row, lock, nextToken, exchanged, condemned>>
      /\ reported' \subseteq Sid
  BY <1>1 DEF ReuseReport, Finish, Answered, IInv, TypeOK
<1>. QED
  BY <1>1, <1>2, AnsweredQuiet, QuietRequestStep DEF IInv, TypeOK

LEMMA RefreshFailStep == ASSUME IInv, NEW r \in Req, RefreshFail(r) PROVE IInv'
<1>1. "failed" \in Outcome
  BY DEF Outcome
<1>2. /\ req' = [req EXCEPT ![r] = Answered(r, "failed")]
      /\ UNCHANGED <<now, row, nextToken, exchanged, reported, condemned>>
      /\ lock' \in [Sid -> Req \cup {Free}]
      /\ \A s \in Sid : lock'[s] = lock[s] \/ lock[s] = r
  BY DEF RefreshFail, Finish, Answered, IInv, TypeOK
<1>. QED
  BY <1>1, <1>2, AnsweredQuiet, QuietRequestStep DEF IInv, TypeOK

-----------------------------------------------------------------------------
(* Validation, which reads a row, judges it, and touches it. *)
LEMMA ValidateReadStep ==
    ASSUME IInv, NEW r \in Req, NEW tok \in Token, tok < nextToken, ValidateRead(r, tok)
    PROVE  IInv'
<1>. DEFINE miss == [IdleRequest EXCEPT !.tok = tok, !.at = now, !.out = "not_found"]
            hit(s) == [IdleRequest EXCEPT !.pc = "check", !.tok = tok, !.at = now,
                                          !.sid = s, !.snap = row[s]]
<1>1. UNCHANGED <<now, row, lock, nextToken, exchanged, reported, condemned>>
  BY DEF ValidateRead
<1>2. now \in Nat /\ 0 < nextToken /\ row \in [Sid -> Row]
  BY DEF IInv, TypeOK, Time
<1>3. QuietRequest(miss)
  BY <1>2, Shapes DEF QuietRequest, IdleRequest, Request, RefreshSteps, Outcome, NoToken
<1>4. ASSUME NEW s \in Sid PROVE QuietRequest(hit(s))
  BY <1>2, Shapes DEF QuietRequest, IdleRequest, Request, RefreshSteps,
     ValidateSteps, NoToken
<1>5. CASE WithCurrent(tok) = {}
  <2>1. req' = [req EXCEPT ![r] = miss]
    BY <1>5 DEF ValidateRead
  <2>. QED
    BY <1>1, <1>3, <2>1, QuietRequestStep DEF IInv, TypeOK
<1>6. CASE WithCurrent(tok) # {}
  <2>. DEFINE s == CHOOSE s \in WithCurrent(tok) : TRUE
  <2>1. s \in Sid
    BY <1>6 DEF WithCurrent
  <2>2. req' = [req EXCEPT ![r] = hit(s)]
    BY <1>6 DEF ValidateRead
  <2>3. QuietRequest(hit(s))
    BY <1>4, <2>1
  <2>. QED
    BY <1>1, <2>2, <2>3, QuietRequestStep DEF IInv, TypeOK
<1>. QED
  BY <1>5, <1>6

LEMMA ValidateCheckStep == ASSUME IInv, NEW r \in Req, ValidateCheck(r) PROVE IInv'
<1>. DEFINE q == [req[r] EXCEPT !.pc = "touch", !.at = now, !.out = "accepted"]
            out == CheckSession(req[r].snap, now)
<1>1. UNCHANGED <<now, row, lock, nextToken, exchanged, reported, condemned>>
  BY DEF ValidateCheck
<1>2. out \in Outcome
  BY DEF CheckSession, Outcome
<1>3. CASE out = "accepted"
  <2>1. req' = [req EXCEPT ![r] = q]
    BY <1>3 DEF ValidateCheck, IInv, TypeOK
  <2>2. /\ req[r] \in Request /\ now \in Nat
        /\ req[r].tok < nextToken /\ req[r].new < nextToken
    BY DEF IInv, TypeOK, MintedOnly, Time
  <2>3. QuietRequest(q)
    BY <2>2 DEF QuietRequest, Request, RefreshSteps, ValidateSteps, Outcome
  <2>. QED
    BY <1>1, <2>1, <2>3, QuietRequestStep DEF IInv, TypeOK
<1>4. CASE out # "accepted"
  <2>1. req' = [req EXCEPT ![r] = Answered(r, out)]
    BY <1>4 DEF ValidateCheck, Finish, Answered
  <2>2. QuietRequest(Answered(r, out))
    BY <1>2, AnsweredQuiet
  <2>. QED
    BY <1>1, <2>1, <2>2, QuietRequestStep DEF IInv, TypeOK
<1>. QED
  BY <1>3, <1>4

LEMMA TouchStep == ASSUME IInv, NEW r \in Req, Touch(r) PROVE IInv'
<1>1. "accepted" \in Outcome
  BY DEF Outcome
<1>2. /\ req' = [req EXCEPT ![r] = Answered(r, "accepted")]
      /\ UNCHANGED <<now, lock, nextToken, exchanged, reported, condemned>>
  BY DEF Touch, Finish, Answered
<1>3. /\ \A s \in Sid : row'[s] \in {row[s], [row[s] EXCEPT !.lastActive = now]}
      /\ row' \in [Sid -> Row]
  <2>1. /\ now \in Nat
        /\ row \in [Sid -> Row]
        /\ \A s \in Sid : [row[s] EXCEPT !.lastActive = now] \in Row
    BY DEF IInv, TypeOK, Time, Row
  <2>. QED
    BY <2>1 DEF Touch
<1>4. \A s \in Sid : /\ row'[s].st = row[s].st
                     /\ row'[s].cur = row[s].cur
                     /\ row'[s].prev = row[s].prev
  BY <1>3 DEF IInv, TypeOK, Row
<1>5. QuietRequest(Answered(r, "accepted"))
  BY <1>1, AnsweredQuiet
<1>6. lock' \in [Sid -> Req \cup {Free}] /\ reported' \subseteq Sid
  BY <1>2 DEF IInv, TypeOK
<1>. QED
  BY <1>2, <1>3, <1>4, <1>5, <1>6, QuietRequestStep

-----------------------------------------------------------------------------
(* Deletions and the clock. *)
LEMMA DeleteStep ==
    ASSUME IInv, NEW S, \A s \in S \cap Sid : lock[s] = Free, Delete(S),
           UNCHANGED <<now, lock, req, nextToken, exchanged, reported>>,
           condemned' \subseteq Sid
    PROVE  IInv'
<1>1. \A s \in Sid : row'[s] = row[s] \/ (lock[s] = Free /\ row'[s] = Ended)
  BY DEF Delete
<1>2. row' \in [Sid -> Row]
  BY Shapes DEF Delete, IInv, TypeOK
<1>. QED
  BY <1>1, <1>2, TableStep DEF IInv, TypeOK

LEMMA RevokeStep == ASSUME IInv, NEW S, Revoke(S) PROVE IInv'
BY DeleteStep DEF Revoke, IInv, TypeOK

LEMMA RevokeByTokenStep == ASSUME IInv, NEW tok, RevokeByToken(tok) PROVE IInv'
BY DeleteStep DEF RevokeByToken, IInv, TypeOK

LEMMA PruneDeleteStep == ASSUME IInv, PruneDelete PROVE IInv'
BY DeleteStep DEF PruneDelete, IInv, TypeOK

LEMMA PruneSelectStep == ASSUME IInv, PruneSelect PROVE IInv'
BY TableStep DEF PruneSelect, IInv, TypeOK

LEMMA TickStep == ASSUME IInv, Tick PROVE IInv'
BY TableStep DEF Tick, IInv, TypeOK, Time

-----------------------------------------------------------------------------
(* SessionService.create: the pair it stores is new to everyone. *)
LEMMA CreateStep == ASSUME IInv, NEW s \in Sid, Create(s) PROVE IInv'
<1>. DEFINE born == Born(nextToken, now)
<1>1. /\ row' = [row EXCEPT ![s] = born] /\ nextToken' = nextToken + 1
      /\ row[s].st = "none" /\ nextToken \in Token
      /\ UNCHANGED <<now, lock, req, exchanged, reported, condemned>>
  BY DEF Create, IInv, TypeOK, Token
<1>2. /\ born \in Row
      /\ born.st = "live" /\ born.cur = nextToken /\ born.prev = NoToken
  BY <1>1 DEF IInv, TypeOK, Time, Born, Row
<1>. HIDE DEF born
<1>3. TypeOK'
  BY <1>1, <1>2 DEF IInv, TypeOK, Token
<1>4. StepsFormed'
  BY <1>1 DEF IInv, StepsFormed, Minting
<1>5. MintedOnly'
  BY <1>1, <1>2 DEF IInv, TypeOK, Row, Request, Token, MintedOnly, NoToken
<1>6. PendingUnused'
  <2>1. Minting' = Minting
    BY <1>1 DEF Minting
  <2>2. \A r \in Minting : req[r].new < nextToken /\ req[r].new \in Token
    BY DEF IInv, MintedOnly, StepsFormed, Minting
  <2>3. ASSUME NEW r \in Minting
        PROVE  req[r].new # nextToken /\ req[r].new # NoToken
    BY <1>1, <2>2 DEF Token, NoToken
  <2>. QED
    BY <1>1, <1>2, <2>1, <2>3 DEF IInv, TypeOK, PendingUnused
<1>7. ExchangedSuperseded'
  <2>1. \A e \in exchanged : e.old < nextToken /\ e.old \in Token
    BY DEF IInv, TypeOK, MintedOnly
  <2>2. \A e \in exchanged : e.old # nextToken
    BY <1>1, <2>1, TokensAreNumbers
  <2>. QED
    BY <1>1, <1>2, <2>2 DEF IInv, TypeOK, ExchangedSuperseded, LiveSids
<1>8. RotatingOwnsRow'
  BY <1>1 DEF IInv, TypeOK, StepsFormed, RotatingOwnsRow
<1>9. TokensNameOneSession'
  <2>1. \A t \in Sid : row[t].cur # nextToken /\ row[t].prev # nextToken
    BY <1>1 DEF IInv, TypeOK, Row, Token, NoToken, MintedOnly
  <2>. QED
    BY <1>1, <1>2, <2>1 DEF IInv, TypeOK, TokensNameOneSession, LiveSids
<1>10. OneSuccessor'
  BY <1>1 DEF IInv, OneSuccessor
<1>. QED
  BY <1>3, <1>4, <1>5, <1>6, <1>7, <1>8, <1>9, <1>10 DEF IInv

(* RefreshSession mints: the pending pair is above every token in use. *)
LEMMA RefreshStartStep ==
    ASSUME IInv, NEW r \in Req, NEW tok \in Token, tok < nextToken, RefreshStart(r, tok)
    PROVE  IInv'
<1>. DEFINE q == [IdleRequest EXCEPT !.pc = "update", !.tok = tok,
                                     !.new = nextToken, !.at = now]
<1>1. /\ req' = [req EXCEPT ![r] = q] /\ nextToken' = nextToken + 1
      /\ req[r].pc = "idle" /\ nextToken \in Token
      /\ UNCHANGED <<now, row, lock, exchanged, reported, condemned>>
  BY DEF RefreshStart, IInv, TypeOK, Token
<1>2. /\ q.pc = "update" /\ q.tok = tok /\ q.new = nextToken
      /\ q \in Request
  <2>1. now \in Nat
    BY DEF IInv, TypeOK, Time
  <2>2. q = [IdleRequest EXCEPT !.pc = "update", !.tok = tok, !.new = nextToken,
                                !.at = now]
    OBVIOUS
  <2>. HIDE DEF q
  <2>. QED
    BY <1>1, <2>1, <2>2, Shapes DEF Request, RefreshSteps
<1>. HIDE DEF q
<1>3. /\ req' \in [Req -> Request]
      /\ req'[r] = q
      /\ \A p \in Req : p # r => req'[p] = req[p]
  BY <1>1, <1>2 DEF IInv, TypeOK
<1>4. Minting' = Minting \cup {r} /\ r \notin Minting
  BY <1>1, <1>2, <1>3 DEF Minting
<1>5. TypeOK'
  BY <1>1, <1>3 DEF IInv, TypeOK, Token
<1>6. StepsFormed'
  BY <1>1, <1>2, <1>3, <1>4 DEF IInv, StepsFormed
<1>7. MintedOnly'
  <2>1. \A p \in Req : req'[p].tok < nextToken' /\ req'[p].new < nextToken'
    BY <1>1, <1>2, <1>3 DEF IInv, TypeOK, MintedOnly, Request, Token, NoToken
  <2>. QED
    BY <1>1, <2>1 DEF IInv, TypeOK, MintedOnly, Row, Token, NoToken
<1>8. PendingUnused'
  <2>1. /\ \A s \in Sid : nextToken # row[s].cur /\ nextToken # row[s].prev
        /\ \A e \in exchanged : nextToken # e.old
        /\ \A p \in Minting : nextToken # req[p].new
    BY DEF IInv, TypeOK, MintedOnly, Minting, Row, Request, Token, NoToken
  <2>2. \A p \in Minting : p # r /\ req'[p] = req[p]
    BY <1>3, <1>4 DEF Minting
  <2>3. \A p \in Minting :
           /\ \A s \in Sid : req[p].new # row[s].cur /\ req[p].new # row[s].prev
           /\ \A e \in exchanged : req[p].new # e.old
           /\ \A o \in Minting : o # p => req[o].new # req[p].new
    BY DEF IInv, PendingUnused
  <2>. QED
    BY <1>1, <1>2, <1>3, <1>4, <2>1, <2>2, <2>3 DEF PendingUnused
<1>9. ExchangedSuperseded'
  BY <1>1 DEF IInv, ExchangedSuperseded, LiveSids
<1>10. RotatingOwnsRow'
  BY <1>1, <1>2, <1>3 DEF IInv, RotatingOwnsRow
<1>11. TokensNameOneSession'
  BY <1>1 DEF IInv, TokensNameOneSession, LiveSids
<1>12. OneSuccessor'
  BY <1>1 DEF IInv, OneSuccessor
<1>. QED
  BY <1>5, <1>6, <1>7, <1>8, <1>9, <1>10, <1>11, <1>12 DEF IInv

(* The guarded UPDATE takes the lock of the row it matched. *)
LEMMA RotateRowStep == ASSUME IInv, NEW r \in Req, RotateRow(r) PROVE IInv'
<1>1. PICK s \in Sid :
        /\ Rotatable(row[s], req[r].tok, req[r].at)
        /\ lock[s] = Free
        /\ lock' = [lock EXCEPT ![s] = r]
        /\ req' = [req EXCEPT ![r].pc = "rotating", ![r].sid = s]
  BY DEF RotateRow
<1>2. /\ req[r].pc = "update"
      /\ UNCHANGED <<now, row, nextToken, exchanged, reported, condemned>>
  BY DEF RotateRow
<1>3. /\ req' \in [Req -> Request]
      /\ req'[r] = [req[r] EXCEPT !.pc = "rotating", !.sid = s]
      /\ \A p \in Req : p # r => req'[p] = req[p]
  <2>. DEFINE q == [req[r] EXCEPT !.pc = "rotating", !.sid = s]
  <2>1. req[r] \in Request /\ req \in [Req -> Request]
    BY DEF IInv, TypeOK
  <2>2. q \in Request
    BY <2>1 DEF Request, RefreshSteps
  <2>3. req' = [req EXCEPT ![r] = q]
    BY <1>1, <2>1
  <2>. HIDE DEF q
  <2>4. req' \in [Req -> Request] /\ req'[r] = q
    BY <2>1, <2>2, <2>3
  <2>5. \A p \in Req : p # r => req'[p] = req[p]
    BY <2>1, <2>3
  <2>. QED
    BY <2>4, <2>5 DEF q
<1>4. /\ req'[r].pc = "rotating" /\ req'[r].sid = s
      /\ \A p \in Req : req'[p].tok = req[p].tok /\ req'[p].new = req[p].new
  <2>1. req[r] \in Request
    BY DEF IInv, TypeOK
  <2>2. /\ req'[r].pc = "rotating" /\ req'[r].sid = s
        /\ req'[r].tok = req[r].tok /\ req'[r].new = req[r].new
    BY <1>3, <2>1 DEF Request
  <2>. QED
    BY <1>3, <2>2
<1>5. Minting' = Minting /\ r \in Minting
  BY <1>2, <1>3, <1>4 DEF Minting
<1>6. TypeOK'
  BY <1>1, <1>2, <1>3 DEF IInv, TypeOK
<1>7. StepsFormed'
  <2>1. req[r].tok \in Token /\ req[r].new \in Token
    BY <1>2, <1>5 DEF IInv, StepsFormed, RefreshSteps
  <2>. QED
    BY <1>3, <1>4, <1>5, <2>1 DEF IInv, StepsFormed
<1>8. MintedOnly'
  BY <1>2, <1>4 DEF IInv, MintedOnly
<1>9. PendingUnused'
  BY <1>2, <1>4, <1>5 DEF IInv, PendingUnused, Minting
<1>10. ExchangedSuperseded'
  BY <1>2 DEF IInv, ExchangedSuperseded, LiveSids
<1>11. RotatingOwnsRow'
  <2>1. lock'[s] = r /\ row[s].st = "live" /\ row[s].cur = req[r].tok
    BY <1>1 DEF IInv, TypeOK, Rotatable
  <2>2. ASSUME NEW p \in Req, p # r, req[p].pc = "rotating"
        PROVE  /\ lock'[req[p].sid] = p
               /\ row[req[p].sid].st = "live" /\ row[req[p].sid].cur = req[p].tok
    <3>1. req[p].sid \in Sid /\ lock[req[p].sid] = p /\ p # Free
      BY <2>2 DEF IInv, StepsFormed, RotatingOwnsRow
    <3>2. req[p].sid # s
      BY <1>1, <3>1
    <3>. QED
      BY <1>1, <2>2, <3>1, <3>2 DEF IInv, TypeOK, RotatingOwnsRow
  <2>. SUFFICES ASSUME NEW p \in Req, req'[p].pc = "rotating"
                PROVE  /\ lock'[req'[p].sid] = p
                       /\ row'[req'[p].sid].st = "live"
                       /\ row'[req'[p].sid].cur = req'[p].tok
    BY DEF RotatingOwnsRow
  <2>3. CASE p = r
    BY <1>2, <1>4, <2>1, <2>3
  <2>4. CASE p # r
    BY <1>2, <1>3, <2>2, <2>4
  <2>. QED
    BY <2>3, <2>4
<1>12. TokensNameOneSession'
  BY <1>2 DEF IInv, TokensNameOneSession, LiveSids
<1>13. OneSuccessor'
  BY <1>2 DEF IInv, OneSuccessor
<1>. QED
  BY <1>6, <1>7, <1>8, <1>9, <1>10, <1>11, <1>12, <1>13 DEF IInv

(* The commit: the presented token is the row's own and never exchanged    *)
(* before, and the new one is in no row, so the chain grows by one link.   *)
LEMMA RotateCommitStep == ASSUME IInv, NEW r \in Req, RotateCommit(r) PROVE IInv'
<1>. DEFINE s == req[r].sid
            tok == req[r].tok
            new == req[r].new
            after == Rotated(row[s], new, req[r].at)
            link == [sid |-> s, old |-> tok, new |-> new]
            q == [IdleRequest EXCEPT !.tok = tok, !.at = req[r].at,
                                     !.sid = s, !.snap = after, !.out = "rotated"]
<1>1. /\ row' = [row EXCEPT ![s] = after]
      /\ lock' = [lock EXCEPT ![s] = Free]
      /\ exchanged' = exchanged \cup {link}
      /\ req' = [req EXCEPT ![r] = q]
      /\ UNCHANGED <<now, nextToken, reported, condemned>>
  BY DEF RotateCommit
<1>2. r \in Minting /\ req[r].pc = "rotating"
  BY DEF RotateCommit, Minting
<1>3. s \in Sid /\ tok \in Token /\ new \in Token /\ req[r] \in Request
  BY <1>2 DEF IInv, TypeOK, StepsFormed, RefreshSteps
<1>4. lock[s] = r /\ row[s].st = "live" /\ row[s].cur = tok /\ row[s] \in Row
  BY <1>2, <1>3 DEF IInv, TypeOK, RotatingOwnsRow
<1>5. /\ after \in Row /\ after.st = "live" /\ after.cur = new /\ after.prev = tok
  <2>1. req[r].at \in Nat /\ Duration \in Nat
    BY <1>3 DEF Request
  <2>2. after = [row[s] EXCEPT !.cur = new, !.prev = row[s].cur,
                    !.rotatedAt = req[r].at, !.expires = req[r].at + Duration]
    BY DEF Rotated
  <2>. HIDE DEF after, s, tok, new
  <2>3. /\ after.st = "live" /\ after.cur = new /\ after.prev = tok
        /\ after.rotatedAt \in Nat /\ after.expires \in Nat
    BY <1>4, <2>1, <2>2 DEF Row
  <2>. QED
    BY <1>3, <1>4, <2>1, <2>2, <2>3 DEF Row
<1>6. /\ \A t \in Sid : new # row[t].cur /\ new # row[t].prev
      /\ \A e \in exchanged : new # e.old
      /\ \A p \in Minting : p # r => req[p].new # new
  BY <1>2 DEF IInv, PendingUnused
<1>7. tok < nextToken /\ new < nextToken /\ 0 < nextToken
  BY DEF IInv, TypeOK, MintedOnly
<1>. HIDE DEF s, tok, new, after
<1>8. QuietRequest(q)
  <2>1. req[r].at \in Nat
    BY <1>3 DEF Request
  <2>2. /\ IdleRequest.pc = "idle" /\ IdleRequest.new = NoToken
        /\ IdleRequest \in Request /\ "rotated" \in Outcome
    BY Shapes DEF IdleRequest, Outcome
  <2>3. q \in Request
    BY <1>3, <1>5, <2>1, <2>2 DEF Request
  <2>. QED
    BY <1>7, <2>2, <2>3 DEF QuietRequest, RefreshSteps, NoToken, Request
<1>. HIDE DEF q
<1>9. /\ req' \in [Req -> Request]
      /\ StepsFormed'
      /\ \A p \in Req : req'[p].tok < nextToken /\ req'[p].new < nextToken
      /\ r \notin Minting'
      /\ \A p \in Req : p # r => req'[p] = req[p]
  BY <1>1, <1>8, RequestMoves
<1>10. Minting' \subseteq Minting \ {r}
  BY <1>9 DEF Minting
<1>11. /\ row' \in [Sid -> Row] /\ row'[s] = after
       /\ \A t \in Sid : t # s => row'[t] = row[t]
       /\ LiveSids' = LiveSids /\ s \in LiveSids
  BY <1>1, <1>3, <1>4, <1>5 DEF IInv, TypeOK, LiveSids
<1>12. ASSUME NEW t \in LiveSids, t # s PROVE tok \notin {row[t].cur, row[t].prev}
  <2>1. {row[s].cur, row[s].prev} \cap {row[t].cur, row[t].prev} \subseteq {NoToken}
    BY <1>11, <1>12 DEF IInv, TokensNameOneSession
  <2>2. tok # NoToken
    BY <1>3, TokensAreNumbers
  <2>. QED
    BY <1>4, <2>1, <2>2
<1>13. TypeOK'
  BY <1>1, <1>3, <1>9, <1>11 DEF IInv, TypeOK
<1>14. MintedOnly'
  <2>1. \A t \in Sid : row'[t].cur < nextToken /\ row'[t].prev < nextToken
    BY <1>5, <1>7, <1>11 DEF IInv, MintedOnly
  <2>. QED
    BY <1>1, <1>7, <1>9, <2>1 DEF IInv, MintedOnly
<1>15. PendingUnused'
  <2>1. ASSUME NEW p \in Minting'
        PROVE  /\ p # r /\ req'[p].new = req[p].new
               /\ req[p].new # new /\ req[p].new # tok
    BY <1>3, <1>4, <1>6, <1>9, <1>10 DEF IInv, PendingUnused, Minting
  <2>2. ASSUME NEW p \in Minting'
        PROVE  /\ \A t \in Sid : req[p].new # row[t].cur /\ req[p].new # row[t].prev
               /\ \A e \in exchanged : req[p].new # e.old
               /\ \A o \in Minting : o # p => req[o].new # req[p].new
    BY <1>10 DEF IInv, PendingUnused
  <2>. QED
    BY <1>1, <1>5, <1>10, <1>11, <2>1, <2>2 DEF PendingUnused
<1>16. ExchangedSuperseded'
  <2>1. ASSUME NEW e \in exchanged, NEW t \in LiveSids PROVE row'[t].cur # e.old
    BY <1>5, <1>6, <1>11 DEF IInv, ExchangedSuperseded, LiveSids
  <2>2. ASSUME NEW t \in LiveSids PROVE row'[t].cur # tok
    <3>1. CASE t = s
      BY <1>3, <1>4, <1>5, <1>6, <1>11, <3>1
    <3>2. CASE t # s
      BY <1>11, <1>12, <3>2 DEF LiveSids
    <3>. QED
      BY <3>1, <3>2
  <2>. QED
    BY <1>1, <1>11, <2>1, <2>2 DEF ExchangedSuperseded
<1>17. RotatingOwnsRow'
  <2>1. ASSUME NEW p \in Req, p # r, req[p].pc = "rotating"
        PROVE  /\ req[p].sid \in Sid /\ req[p].sid # s /\ lock[req[p].sid] = p
               /\ row[req[p].sid].st = "live" /\ row[req[p].sid].cur = req[p].tok
    BY <1>4, <2>1 DEF IInv, StepsFormed, RotatingOwnsRow
  <2>2. \A t \in Sid : t # s => lock'[t] = lock[t]
    BY <1>1, <1>3 DEF IInv, TypeOK
  <2>. QED
    BY <1>9, <1>11, <2>1, <2>2 DEF RotatingOwnsRow, Minting
<1>18. TokensNameOneSession'
  <2>1. ASSUME NEW t \in LiveSids, t # s
        PROVE  {new, tok} \cap {row[t].cur, row[t].prev} = {}
    BY <1>6, <1>12, <2>1 DEF LiveSids
  <2>. QED
    BY <1>5, <1>11, <2>1 DEF IInv, TokensNameOneSession, LiveSids
<1>19. OneSuccessor'
  <2>1. \A e \in exchanged : e.old # tok
    BY <1>4, <1>11 DEF IInv, ExchangedSuperseded
  <2>. QED
    BY <1>1, <2>1 DEF IInv, OneSuccessor
<1>. QED
  BY <1>9, <1>13, <1>14, <1>15, <1>16, <1>17, <1>18, <1>19 DEF IInv

-----------------------------------------------------------------------------
(* The program starts with an empty table and no request. *)
LEMMA InitInv == Init => IInv
BY Shapes DEF Init, IInv, TypeOK, StepsFormed, MintedOnly, PendingUnused,
   ExchangedSuperseded, RotatingOwnsRow, TokensNameOneSession, OneSuccessor,
   Minting, LiveSids, Time, NoRow, IdleRequest, NoToken, RefreshSteps

(* The invariant is inductive. *)
LEMMA StepInv == IInv /\ [Next]_vars => IInv'
<1>. SUFFICES ASSUME IInv, [Next]_vars PROVE IInv'
  OBVIOUS
<1>1. CASE \E s \in Sid : Create(s)
  BY <1>1, CreateStep
<1>2. CASE \E r \in Req, tok \in Token :
               tok < nextToken /\ (RefreshStart(r, tok) \/ ValidateRead(r, tok))
  BY <1>2, RefreshStartStep, ValidateReadStep
<1>3. CASE \E r \in Req : RequestStep(r) \/ RefreshFail(r)
  BY <1>3, RotateRowStep, RotateMissStep, RotateCommitStep, ClassifyCurrentStep,
     ClassifyPreviousStep, ReuseDeleteStep, ReuseReportStep, RefreshFailStep,
     ValidateCheckStep, TouchStep DEF RequestStep, RefreshStep
<1>4. CASE \E S \in SUBSET LiveSids : Revoke(S)
  BY <1>4, RevokeStep
<1>5. CASE \E tok \in Token : RevokeByToken(tok)
  BY <1>5, RevokeByTokenStep
<1>6. CASE PruneSelect \/ PruneDelete \/ Tick
  BY <1>6, PruneSelectStep, PruneDeleteStep, TickStep
<1>7. CASE UNCHANGED vars
  BY <1>7 DEF vars, IInv, TypeOK, StepsFormed, MintedOnly, PendingUnused,
     ExchangedSuperseded, RotatingOwnsRow, TokensNameOneSession, OneSuccessor,
     Minting, LiveSids
<1>. QED
  BY <1>1, <1>2, <1>3, <1>4, <1>5, <1>6, <1>7 DEF Next

LEMMA SpecInv == Spec => []IInv
BY InitInv, StepInv, PTL DEF Spec

(* The sessions table, the requests and the history stay well formed       *)
(* whatever the durations and however many requests run.                   *)
THEOREM TypeSafe == Spec => []TypeOK
<1>1. IInv => TypeOK
  BY DEF IInv
<1>. QED
  BY SpecInv, <1>1, PTL

(* A refresh token buys at most one successor, however many requests       *)
(* present it concurrently (UpdateRefreshToken's guarded UPDATE).          *)
THEOREM RotationIsAChain == Spec => []OneSuccessor
<1>1. IInv => OneSuccessor
  BY DEF IInv
<1>. QED
  BY SpecInv, <1>1, PTL

(* No two live sessions answer to one token, so a lookup by current or     *)
(* previous hash finds at most one row.                                    *)
THEOREM LookupIsUnique == Spec => []TokensNameOneSession
<1>1. IInv => TokensNameOneSession
  BY DEF IInv
<1>. QED
  BY SpecInv, <1>1, PTL
-----------------------------------------------------------------------------
(* What any step may do to one row: nothing, an insert, a deletion, the    *)
(* rotation of the request that has it locked, or a touch.                 *)
Inserted(s) == row[s].st = "none" /\ row'[s] = Born(nextToken, now)
RotatedBy(r, s) ==
    /\ req[r].pc = "rotating" /\ req[r].sid = s
    /\ row'[s] = Rotated(row[s], req[r].new, req[r].at)
Touched(s) == row[s].st = "live" /\ row'[s] = [row[s] EXCEPT !.lastActive = now]

LEMMA RowHistory ==
    ASSUME IInv, [Next]_vars, NEW s \in Sid
    PROVE  \/ row'[s] = row[s]
           \/ Inserted(s)
           \/ row'[s] = Ended
           \/ \E r \in Req : RotatedBy(r, s)
           \/ Touched(s)
<1>1. row \in [Sid -> Row]
  BY DEF IInv, TypeOK
<1>2. ASSUME NEW t \in Sid, Create(t) PROVE row'[s] = row[s] \/ Inserted(s)
  BY <1>1, <1>2 DEF Create, Inserted
<1>3. ASSUME NEW r \in Req, RotateCommit(r) PROVE row'[s] = row[s] \/ RotatedBy(r, s)
  BY <1>1, <1>3 DEF RotateCommit, RotatedBy
<1>4. ASSUME NEW r \in Req, ReuseDelete(r) PROVE row'[s] = row[s] \/ row'[s] = Ended
  BY <1>1, <1>4 DEF ReuseDelete
<1>5. ASSUME NEW r \in Req, Touch(r) PROVE row'[s] = row[s] \/ Touched(s)
  BY <1>1, <1>5 DEF Touch, Touched, WithCurrent
<1>6. ASSUME NEW S, Delete(S) PROVE row'[s] = row[s] \/ row'[s] = Ended
  BY <1>6 DEF Delete
<1>7. CASE \E t \in Sid : Create(t)
  BY <1>2, <1>7
<1>8. CASE \E r \in Req, tok \in Token :
               tok < nextToken /\ (RefreshStart(r, tok) \/ ValidateRead(r, tok))
  BY <1>8 DEF RefreshStart, ValidateRead
<1>9. CASE \E r \in Req : RequestStep(r) \/ RefreshFail(r)
  BY <1>3, <1>4, <1>5, <1>9 DEF RequestStep, RefreshStep, RotateRow, RotateMiss,
     ClassifyCurrent, ClassifyPrevious, ReuseReport, RefreshFail, ValidateCheck
<1>10. CASE \/ \E S \in SUBSET LiveSids : Revoke(S)
            \/ \E tok \in Token : RevokeByToken(tok)
            \/ PruneDelete
  BY <1>6, <1>10 DEF Revoke, RevokeByToken, PruneDelete
<1>11. CASE PruneSelect \/ Tick \/ UNCHANGED vars
  BY <1>11 DEF PruneSelect, Tick, vars
<1>. QED
  BY <1>7, <1>8, <1>9, <1>10, <1>11 DEF Next

(* A row once deleted is never live again. *)
LEMMA EndedIsFinal ==
    ASSUME IInv, [Next]_vars, NEW s \in Sid, row[s].st = "ended"
    PROVE  row'[s].st = "ended"
<1>1. ASSUME NEW r \in Req PROVE ~RotatedBy(r, s)
  BY DEF IInv, RotatingOwnsRow, RotatedBy
<1>2. Ended.st = "ended"
  BY DEF Ended, NoRow
<1>. QED
  BY RowHistory, <1>1, <1>2 DEF Inserted, Touched

-----------------------------------------------------------------------------
(* The answer "reused", and the report that precedes it, name a session    *)
(* that exists and is over.                                                *)
Condemning(q) == q.pc = "report" \/ q.out = "reused"
ReusedIsOver ==
    \A r \in Req : Condemning(req[r]) =>
        req[r].sid \in Sid /\ row[req[r].sid].st = "ended"

(* A request still under way has not been answered "reused". *)
AnsweredAtRest == \A r \in Req : req[r].out = "reused" => req[r].pc = "idle"

LEMMA AnsweredAtRestStep ==
    ASSUME IInv, AnsweredAtRest, [Next]_vars
    PROVE  AnsweredAtRest'
<1>. SUFFICES ASSUME NEW r \in Req, req'[r].out = "reused" PROVE req'[r].pc = "idle"
  BY DEF AnsweredAtRest
<1>1. req \in [Req -> Request]
  BY DEF IInv, TypeOK
<1>2. ASSUME NEW q \in Req, NEW out, Finish(q, out) PROVE req'[r].pc = "idle"
  BY <1>1, <1>2 DEF Finish, IdleRequest, AnsweredAtRest
<1>3. ASSUME NEW q \in Req, req[q].pc # "idle", NEW pc, Goto(q, pc)
      PROVE  req'[r].pc = "idle"
  BY <1>1, <1>3 DEF Goto, AnsweredAtRest, Request
<1>4. ASSUME NEW q \in Req, RefreshStep(q) PROVE req'[r].pc = "idle"
  <2>1. CASE RotateRow(q)
    BY <1>1, <2>1 DEF RotateRow, AnsweredAtRest, Request
  <2>2. CASE RotateMiss(q) \/ ClassifyCurrent(q) \/ ReuseDelete(q) \/ ReuseReport(q)
    BY <1>2, <1>3, <2>2 DEF RotateMiss, ClassifyCurrent, ReuseDelete, ReuseReport
  <2>3. CASE RotateCommit(q)
    BY <1>1, <2>3 DEF RotateCommit, IdleRequest, AnsweredAtRest
  <2>4. CASE ClassifyPrevious(q)
    <3>1. ASSUME NEW s \in Sid,
                 req' = [req EXCEPT ![q].pc = "reuse", ![q].sid = s, ![q].snap = row[s]]
          PROVE  req'[r].pc = "idle"
      <4>1. req[q].pc = "previous"
        BY <2>4 DEF ClassifyPrevious
      <4>2. req'[q].out = req[q].out /\ (r # q => req'[r] = req[r])
        BY <1>1, <3>1 DEF Request
      <4>. QED
        BY <4>1, <4>2 DEF AnsweredAtRest
    <3>. QED
      BY <1>2, <2>4, <3>1 DEF ClassifyPrevious, WithPrevious
  <2>. QED
    BY <1>4, <2>1, <2>2, <2>3, <2>4 DEF RefreshStep
<1>5. ASSUME NEW q \in Req, RefreshFail(q) \/ ValidateCheck(q) \/ Touch(q)
      PROVE  req'[r].pc = "idle"
  <2>1. CASE req' = [req EXCEPT ![q].pc = "touch", ![q].at = now, ![q].out = "accepted"]
    BY <1>1, <2>1 DEF AnsweredAtRest, Request
  <2>. QED
    BY <1>2, <1>5, <2>1 DEF RefreshFail, ValidateCheck, Touch
<1>6. ASSUME NEW q \in Req, NEW tok \in Token, RefreshStart(q, tok) \/ ValidateRead(q, tok)
      PROVE  req'[r].pc = "idle"
  <2>1. req'[q].out # "reused" /\ (r # q => req'[r] = req[r])
    BY <1>1, <1>6 DEF RefreshStart, ValidateRead, IdleRequest
  <2>. QED
    BY <2>1 DEF AnsweredAtRest
<1>7. CASE UNCHANGED req
  BY <1>7 DEF AnsweredAtRest
<1>. QED
  BY <1>4, <1>5, <1>6, <1>7 DEF Next, RequestStep, Create, Revoke, RevokeByToken,
     PruneSelect, PruneDelete, Tick, vars

(* A step makes no request report a reuse but the one that has just        *)
(* deleted the session, and a report becomes an answer for that session.   *)
LEMMA OnlyDeletionCondemns ==
    ASSUME IInv, AnsweredAtRest, [Next]_vars, NEW r \in Req, Condemning(req'[r])
    PROVE  \/ Condemning(req[r]) /\ req'[r].sid = req[r].sid
           \/ ReuseDelete(r) /\ req'[r].sid = req[r].sid
<1>1. req \in [Req -> Request]
  BY DEF IInv, TypeOK
<1>2. ASSUME NEW q \in Req, NEW out, out # "reused", Finish(q, out)
      PROVE  Condemning(req[r]) /\ req'[r].sid = req[r].sid
  <2>1. req' = [req EXCEPT ![q] = Answered(q, out)]
    BY <1>2 DEF Finish, Answered
  <2>2. Answered(q, out).pc = "idle" /\ Answered(q, out).out = out
    BY DEF Answered, IdleRequest
  <2>3. q # r
    BY <1>1, <1>2, <2>1, <2>2 DEF Condemning
  <2>. QED
    BY <1>1, <2>1, <2>3
<1>3. ASSUME NEW q \in Req, NEW pc, pc # "report", Goto(q, pc)
      PROVE  Condemning(req[r]) /\ req'[r].sid = req[r].sid
  BY <1>1, <1>3 DEF Goto, Condemning, Request
<1>4. ASSUME NEW q \in Req, RefreshStep(q) \/ RefreshFail(q) \/ ValidateCheck(q) \/ Touch(q)
      PROVE  \/ Condemning(req[r]) /\ req'[r].sid = req[r].sid
             \/ ReuseDelete(r) /\ req'[r].sid = req[r].sid
  <2>1. CASE RotateRow(q)
    BY <1>1, <2>1 DEF RotateRow, Condemning, Request
  <2>2. CASE RotateMiss(q)
    BY <1>3, <2>2 DEF RotateMiss
  <2>3. CASE RotateCommit(q)
    BY <1>1, <2>3 DEF RotateCommit, Condemning, IdleRequest
  <2>4. CASE ClassifyCurrent(q)
    BY <1>2, <1>3, <2>4 DEF ClassifyCurrent, RefusalOfCurrent
  <2>5. CASE ClassifyPrevious(q)
    <3>1. CASE \E out \in {"invalid_refresh", "already_rotated"} : Finish(q, out)
      BY <1>2, <3>1
    <3>2. CASE \E s \in Sid :
                 req' = [req EXCEPT ![q].pc = "reuse", ![q].sid = s, ![q].snap = row[s]]
      <4>1. req[q].pc = "previous"
        BY <2>5 DEF ClassifyPrevious
      <4>2. PICK s \in Sid :
                 req' = [req EXCEPT ![q].pc = "reuse", ![q].sid = s, ![q].snap = row[s]]
        BY <3>2
      <4>3. req'[q].pc = "reuse" /\ req'[q].out = req[q].out
            /\ (r # q => req'[r] = req[r])
        BY <1>1, <4>2 DEF Request
      <4>. QED
        BY <4>1, <4>3 DEF Condemning, AnsweredAtRest
    <3>. QED
      BY <2>5, <3>1, <3>2 DEF ClassifyPrevious, WithPrevious
  <2>6. CASE ReuseDelete(q)
    BY <1>1, <2>6 DEF ReuseDelete, Goto, Condemning, Request
  <2>7. CASE ReuseReport(q)
    BY <1>1, <2>7 DEF ReuseReport, Finish, Condemning, IdleRequest
  <2>8. CASE RefreshFail(q)
    BY <1>2, <2>8 DEF RefreshFail
  <2>9. CASE ValidateCheck(q)
    <3>1. CheckSession(req[q].snap, now) # "reused"
      BY DEF CheckSession
    <3>2. CASE req' = [req EXCEPT ![q].pc = "touch", ![q].at = now, ![q].out = "accepted"]
      BY <1>1, <3>2 DEF Condemning, Request
    <3>. QED
      BY <1>2, <2>9, <3>1, <3>2 DEF ValidateCheck
  <2>10. CASE Touch(q)
    BY <1>2, <2>10 DEF Touch
  <2>. QED
    BY <1>4, <2>1, <2>2, <2>3, <2>4, <2>5, <2>6, <2>7, <2>8, <2>9, <2>10 DEF RefreshStep
<1>5. ASSUME NEW q \in Req, NEW tok \in Token, RefreshStart(q, tok) \/ ValidateRead(q, tok)
      PROVE  Condemning(req[r]) /\ req'[r].sid = req[r].sid
  <2>1. req'[q].out # "reused" /\ (r # q => req'[r] = req[r])
    BY <1>1, <1>5 DEF RefreshStart, ValidateRead, IdleRequest
  <2>2. req'[q].pc # "report"
    BY <1>1, <1>5 DEF RefreshStart, ValidateRead, IdleRequest
  <2>. QED
    BY <2>1, <2>2 DEF Condemning
<1>6. CASE UNCHANGED req
  BY <1>6
<1>. QED
  BY <1>4, <1>5, <1>6 DEF Next, RequestStep, Create, Revoke, RevokeByToken,
     PruneSelect, PruneDelete, Tick, vars

LEMMA ReusedIsOverStep ==
    ASSUME IInv, AnsweredAtRest, ReusedIsOver, [Next]_vars
    PROVE  ReusedIsOver'
<1>. SUFFICES ASSUME NEW r \in Req, Condemning(req'[r])
              PROVE  req'[r].sid \in Sid /\ row'[req'[r].sid].st = "ended"
  BY DEF ReusedIsOver
<1>1. CASE Condemning(req[r]) /\ req'[r].sid = req[r].sid
  BY <1>1, EndedIsFinal DEF ReusedIsOver
<1>2. CASE ReuseDelete(r) /\ req'[r].sid = req[r].sid
  <2>1. req[r].sid \in Sid
    BY <1>2 DEF ReuseDelete, IInv, StepsFormed
  <2>. QED
    BY <1>2, <2>1 DEF ReuseDelete, IInv, TypeOK, Ended, NoRow
<1>. QED
  BY <1>1, <1>2, OnlyDeletionCondemns

(* A replayed token answered "reused" has ended its session for good: a    *)
(* rotation that raced the deletion cannot have kept it alive.             *)
THEOREM ReuseIsFinal == Spec => []ReuseEndsSession
<1>1. Init => AnsweredAtRest /\ ReusedIsOver
  BY DEF Init, AnsweredAtRest, ReusedIsOver, Condemning, IdleRequest
<1>2. ReusedIsOver => ReuseEndsSession
  BY DEF ReusedIsOver, ReuseEndsSession, Condemning
<1>. QED
  BY SpecInv, AnsweredAtRestStep, ReusedIsOverStep, <1>1, <1>2, PTL DEF Spec
-----------------------------------------------------------------------------
(* The clocks of the requests in flight.                                   *)
Punctual ==
    \A r \in Req : req[r].pc # "idle" => req[r].at <= now /\ now <= req[r].at + Latency

(* A rotation began before its refresh chain ran out.                      *)
RotatingInTime ==
    \A r \in Req : req[r].pc = "rotating" => req[r].at < row[req[r].sid].refreshExpires

(* A row the janitor has condemned is gone, or was dead on both clocks     *)
(* long enough ago and has stayed so.                                      *)
CondemnedDead ==
    \A s \in condemned :
        /\ row[s].st # "none"
        /\ row[s].st = "live" => /\ row[s].expires < now
                                 /\ row[s].refreshExpires + PruneGrace < now

(* A step leaves a request's clock alone or sets it to the present, and a  *)
(* rotation starts only with the guarded UPDATE.                           *)
ClockStep(r) ==
    \/ req'[r] = req[r]
    \/ req'[r].pc = "idle"
    \/ now' = now /\ req'[r].at = now /\ req'[r].pc # "rotating"
    \/ /\ now' = now /\ req[r].pc # "idle" /\ req'[r].at = req[r].at
       /\ req'[r].pc = "rotating" => RotateRow(r)

LEMMA RequestClocks ==
    ASSUME IInv, [Next]_vars, NEW r \in Req
    PROVE  ClockStep(r)
<1>1. req \in [Req -> Request]
  BY DEF IInv, TypeOK
<1>2. ASSUME NEW q \in Req, NEW out, Finish(q, out) PROVE ClockStep(r)
  BY <1>1, <1>2 DEF Finish, IdleRequest, ClockStep
<1>3. ASSUME NEW q \in Req, NEW pc, pc # "rotating", Goto(q, pc), req[q].pc # "idle",
             now' = now
      PROVE  ClockStep(r)
  BY <1>1, <1>3 DEF Goto, Request, ClockStep
<1>4. ASSUME NEW q \in Req, RefreshStep(q) PROVE ClockStep(r)
  <2>1. CASE RotateRow(q)
    <3>1. PICK s \in Sid : req' = [req EXCEPT ![q].pc = "rotating", ![q].sid = s]
      BY <2>1 DEF RotateRow
    <3>2. req'[q].at = req[q].at /\ (r # q => req'[r] = req[r])
      BY <1>1, <3>1 DEF Request
    <3>. QED
      BY <2>1, <3>2 DEF RotateRow, ClockStep
  <2>2. CASE RotateMiss(q) \/ ReuseDelete(q) \/ ReuseReport(q)
    BY <1>2, <1>3, <2>2 DEF RotateMiss, ReuseDelete, ReuseReport
  <2>3. CASE ClassifyCurrent(q)
    BY <1>2, <1>3, <2>3 DEF ClassifyCurrent
  <2>4. CASE RotateCommit(q)
    BY <1>1, <2>4 DEF RotateCommit, IdleRequest, ClockStep
  <2>5. CASE ClassifyPrevious(q)
    <3>1. ASSUME NEW s \in Sid,
                 req' = [req EXCEPT ![q].pc = "reuse", ![q].sid = s, ![q].snap = row[s]]
          PROVE  ClockStep(r)
      <4>1. now' = now /\ req[q].pc = "previous"
        BY <2>5 DEF ClassifyPrevious
      <4>2. /\ req'[q].pc = "reuse" /\ req'[q].at = req[q].at
            /\ r # q => req'[r] = req[r]
        BY <1>1, <3>1 DEF Request
      <4>. QED
        BY <4>1, <4>2 DEF ClockStep
    <3>. QED
      BY <1>2, <2>5, <3>1 DEF ClassifyPrevious, WithPrevious
  <2>. QED
    BY <1>4, <2>1, <2>2, <2>3, <2>4, <2>5 DEF RefreshStep
<1>5. ASSUME NEW q \in Req, RefreshFail(q) \/ ValidateCheck(q) \/ Touch(q)
      PROVE  ClockStep(r)
  <2>1. ASSUME now' = now,
               req' = [req EXCEPT ![q].pc = "touch", ![q].at = now, ![q].out = "accepted"]
        PROVE  ClockStep(r)
    BY <1>1, <2>1 DEF ClockStep, Request
  <2>. QED
    BY <1>2, <1>5, <2>1 DEF RefreshFail, ValidateCheck, Touch
<1>6. ASSUME NEW q \in Req, NEW tok \in Token, RefreshStart(q, tok) \/ ValidateRead(q, tok)
      PROVE  ClockStep(r)
  <2>1. now' = now /\ (r # q => req'[r] = req[r])
    BY <1>1, <1>6 DEF RefreshStart, ValidateRead
  <2>2. req'[q].at = now
    BY <1>1, <1>6 DEF RefreshStart, ValidateRead, IdleRequest
  <2>3. req'[q].pc # "rotating"
    BY <1>1, <1>6 DEF RefreshStart, ValidateRead, IdleRequest
  <2>. QED
    BY <2>1, <2>2, <2>3 DEF ClockStep
<1>7. CASE UNCHANGED req
  BY <1>7 DEF ClockStep
<1>. QED
  BY <1>4, <1>5, <1>6, <1>7 DEF Next, RequestStep, Create, Revoke, RevokeByToken,
     PruneSelect, PruneDelete, Tick, vars

(* Only Tick moves the clock, and not past a request's latency.            *)
LEMMA ClockAdvances ==
    ASSUME IInv, [Next]_vars
    PROVE  \/ now' = now
           \/ /\ now' = now + 1 /\ UNCHANGED <<row, req, condemned>>
              /\ \A r \in Req : req[r].pc # "idle" => now < req[r].at + Latency
BY DEF Next, RequestStep, RefreshStep, RotateRow, RotateMiss, RotateCommit,
   ClassifyCurrent, ClassifyPrevious, ReuseDelete, ReuseReport, RefreshFail,
   ValidateCheck, Touch, RefreshStart, ValidateRead, Create, Revoke, RevokeByToken,
   PruneSelect, PruneDelete, Tick, vars

LEMMA PunctualStep == ASSUME IInv, Punctual, [Next]_vars PROVE Punctual'
<1>. SUFFICES ASSUME NEW r \in Req, req'[r].pc # "idle"
              PROVE  req'[r].at <= now' /\ now' <= req'[r].at + Latency
  BY DEF Punctual
<1>1. now \in Nat /\ req[r].at \in Nat /\ Latency \in Nat
  BY DEF IInv, TypeOK, Time, Request
<1>2. CASE now' = now
  BY <1>1, <1>2, RequestClocks DEF ClockStep, Punctual
<1>3. CASE /\ now' = now + 1 /\ UNCHANGED <<row, req, condemned>>
           /\ \A q \in Req : req[q].pc # "idle" => now < req[q].at + Latency
  <2>1. req[r].pc # "idle" /\ req'[r].at = req[r].at /\ now < req[r].at + Latency
    BY <1>3
  <2>. QED
    BY <1>1, <1>3, <2>1 DEF Punctual
<1>. QED
  BY <1>2, <1>3, ClockAdvances

(* A row the rotation has locked keeps the life of its refresh chain.      *)
LEMMA RotatingInTimeStep ==
    ASSUME IInv, IInv', RotatingInTime, [Next]_vars
    PROVE  RotatingInTime'
<1>. SUFFICES ASSUME NEW r \in Req, req'[r].pc = "rotating"
              PROVE  req'[r].at < row'[req'[r].sid].refreshExpires
  BY DEF RotatingInTime
<1>1. CASE req'[r] = req[r]
  <2>. DEFINE s == req[r].sid
  <2>1. s \in Sid /\ row[s].st = "live" /\ row'[s].st = "live" /\ row[s] \in Row
    BY <1>1 DEF IInv, TypeOK, StepsFormed, RotatingOwnsRow
  <2>2. Ended.st = "ended"
    BY DEF Ended, NoRow
  <2>3. row'[s].refreshExpires = row[s].refreshExpires
    BY <2>1, <2>2, RowHistory DEF Inserted, RotatedBy, Rotated, Touched, Row
  <2>. QED
    BY <1>1, <2>3 DEF RotatingInTime
<1>2. CASE RotateRow(r)
  <2>1. PICK s \in Sid :
            /\ Rotatable(row[s], req[r].tok, req[r].at)
            /\ req' = [req EXCEPT ![r].pc = "rotating", ![r].sid = s]
    BY <1>2 DEF RotateRow
  <2>2. req'[r].sid = s /\ req'[r].at = req[r].at /\ row' = row
    BY <1>2, <2>1 DEF RotateRow, IInv, TypeOK, Request
  <2>. QED
    BY <2>1, <2>2 DEF Rotatable
<1>. QED
  BY <1>1, <1>2, RequestClocks DEF ClockStep

(* The statement that selects finds dead rows; until the statement that    *)
(* deletes, only a rotation could revive one.  One that is still open      *)
(* began before the chain ended, so more than a grace period ago: either   *)
(* it cannot be open any more, or the life it grants is over.              *)
LEMMA CondemnedDeadStep ==
    ASSUME IInv, Punctual, RotatingInTime, CondemnedDead, [Next]_vars,
           Latency <= PruneGrace + 1 \/ Duration <= PruneGrace + 1
    PROVE  CondemnedDead'
<1>1. now \in Nat /\ Latency \in Nat /\ PruneGrace \in Nat /\ row \in [Sid -> Row]
      /\ condemned \subseteq Sid
  BY DEF IInv, TypeOK, Time
<1>2. CASE PruneSelect
  BY <1>1, <1>2 DEF PruneSelect, CondemnedDead, Prunable, Row
<1>3. ASSUME condemned' \subseteq condemned, NEW s \in condemned',
             row[s].st # "none", now' \in Nat, now <= now',
             row[s].st = "live" => /\ row[s].expires < now
                                   /\ row[s].refreshExpires + PruneGrace < now
      PROVE  /\ row'[s].st # "none"
             /\ row'[s].st = "live" => /\ row'[s].expires < now'
                                       /\ row'[s].refreshExpires + PruneGrace < now'
  <2>1. s \in Sid /\ row[s] \in Row /\ Ended.st = "ended"
    BY <1>1, <1>3 DEF Ended, NoRow
  <2>2. ASSUME NEW r \in Req, RotatedBy(r, s)
        PROVE  /\ row'[s].st # "none"
               /\ row'[s].expires < now'
               /\ row'[s].refreshExpires + PruneGrace < now'
    <3>1. /\ req[r].at < row[s].refreshExpires /\ now <= req[r].at + Latency
          /\ row[s].st = "live" /\ req[r].at \in Nat
      BY <2>2 DEF RotatedBy, RotatingInTime, Punctual, IInv, TypeOK, Request,
         RotatingOwnsRow
    <3>2. /\ row'[s].st = "live" /\ row'[s].refreshExpires = row[s].refreshExpires
          /\ row'[s].expires = req[r].at + Duration
      BY <2>1, <2>2, <3>1 DEF RotatedBy, Rotated, Row
    <3>3. row[s].refreshExpires \in Nat /\ Duration \in Nat
      BY <2>1 DEF Row
    <3>. QED
      BY <1>1, <1>3, <3>1, <3>2, <3>3
  <2>3. CASE row'[s] = row[s]
    BY <1>1, <1>3, <2>1, <2>3 DEF Row
  <2>4. CASE Touched(s)
    <3>1. /\ row'[s].st = row[s].st /\ row'[s].expires = row[s].expires
          /\ row'[s].refreshExpires = row[s].refreshExpires
      BY <2>1, <2>4 DEF Touched, Row
    <3>. QED
      BY <1>1, <1>3, <2>1, <3>1 DEF Row
  <2>. QED
    BY <1>3, <2>1, <2>2, <2>3, <2>4, RowHistory DEF Inserted
<1>4. CASE ~PruneSelect
  <2>1. condemned' \subseteq condemned
    BY <1>4 DEF Next, RequestStep, RefreshStep, RotateRow, RotateMiss, RotateCommit,
       ClassifyCurrent, ClassifyPrevious, ReuseDelete, ReuseReport, RefreshFail,
       ValidateCheck, Touch, RefreshStart, ValidateRead, Create, Revoke, RevokeByToken,
       PruneDelete, Tick, vars
  <2>2. now' \in Nat /\ now <= now'
    BY <1>1, ClockAdvances
  <2>. QED
    BY <1>3, <2>1, <2>2 DEF CondemnedDead
<1>. QED
  BY <1>2, <1>4

(* The janitor deletes no login a request could still use, whatever runs   *)
(* between the statement that selects rows and the one that deletes them,  *)
(* if rows are kept beyond their life (24 hours unless configured          *)
(* otherwise) for longer than a refresh takes or than a refresh grants.    *)
THEOREM JanitorSparesLogins ==
    ASSUME Latency <= PruneGrace + 1 \/ Duration <= PruneGrace + 1
    PROVE  Spec => PruneSparesUsable
<1>. DEFINE Alive == Punctual /\ RotatingInTime /\ CondemnedDead
<1>1. Init => Alive
  BY DEF Init, Punctual, RotatingInTime, CondemnedDead, IdleRequest
<1>2. IInv /\ IInv' /\ Alive /\ [Next]_vars => Alive'
  BY PunctualStep, RotatingInTimeStep, CondemnedDeadStep
<1>3. IInv /\ Alive =>
        [condemned # {} /\ condemned' = {} => \A s \in condemned : ~Usable(row[s], now)]_vars
  <2>. SUFFICES ASSUME IInv, Alive, NEW s \in condemned PROVE ~Usable(row[s], now)
    OBVIOUS
  <2>1. /\ row[s].st = "live" => /\ row[s].expires < now
                                 /\ row[s].refreshExpires + PruneGrace < now
        /\ now \in Nat /\ PruneGrace \in Nat /\ row[s] \in Row
    BY DEF CondemnedDead, IInv, TypeOK, Time
  <2>. QED
    BY <2>1 DEF Usable, CheckSession, Rotatable, Row
<1>. HIDE DEF Alive
<1>. QED
  BY SpecInv, <1>1, <1>2, <1>3, PTL DEF Spec, PruneSparesUsable
-----------------------------------------------------------------------------
(* The browsers have tabs, a jar and a history of what went wrong; table,  *)
(* clock and generator have the names they have above.                     *)
(* The invariant of the browsers.  A pair on its way to the browser is      *)
(* nobody else's, and no request or row has it as an old one (Carries);    *)
(* the jar has a pair that was exchanged only while the response with the  *)
(* new one is on its way (Overtaken); so the last pair of a session is     *)
(* always in hand (Kept).                                                  *)
BrowserRow == [st : {"none", "live", "ended"}, cur : Nat, prev : Nat, created : Nat,
               lastActive : Nat, rotatedAt : Nat, expires : Nat, refreshExpires : Nat]
SomeRequest == [pc : {"idle", "login", "auth", "refresh", "serve", "answered"},
               kind : Kinds \cup {"none"}, at : Nat, access : Nat, refresh : Nat,
               sid : Sid \cup {0}, seen : Nat, cookies : {"keep", "set", "clear"},
               minted : Nat, status : Status]

Surfing ==
    /\ now \in Nat /\ nextToken \in Nat /\ nextToken > 0 /\ row \in [Sid -> BrowserRow]
    /\ jar \in [tok : Nat, accessUntil : Nat, refreshUntil : Nat]
    /\ tab \in [Tab -> SomeRequest] /\ faults \subseteq {"lost", "failed", "cleared"}

(* Where a request is and what it carries.                                 *)
Stage(q) ==
    /\ q.pc = "idle" => q.refresh = 0 /\ q.cookies = "keep"
    /\ q.pc \in {"login", "auth", "refresh"} => q.cookies = "keep"
    /\ q.pc # "answered" => q.status = "none"
    /\ q.pc = "login" => q.kind = "login"
    /\ q.pc = "auth" => q.kind \notin {"login", "refresh"}
    /\ q.pc = "refresh" => q.kind # "login"
    /\ q.pc = "serve" => q.kind \notin {"login", "refresh"} /\ q.sid \in Sid
InTime(q) == q.pc # "idle" => q.at <= now /\ now <= q.at + Latency
Staged == \A t \in Tab : Stage(tab[t]) /\ InTime(tab[t])

(* Tokens come from the generator; a rotation replaces one by another.     *)
Drawn ==
    /\ jar.tok < nextToken /\ \A t \in Tab : tab[t].refresh < nextToken
    /\ \A s \in Sid :
         /\ row[s].cur < nextToken /\ row[s].prev < nextToken
         /\ row[s].st = "live" => row[s].refreshExpires <= now + RefreshTTL

(* A response that sets cookies brings the current pair of its session, or *)
(* that session is over; and nothing else in the system has that pair.     *)
InFlight(t) == tab[t].cookies = "set"
Carries(t) ==
    InFlight(t) =>
        /\ tab[t].minted > 0 /\ tab[t].minted < nextToken /\ tab[t].sid \in Sid
        /\ \/ row[tab[t].sid].st = "ended"
           \/ row[tab[t].sid].st = "live" /\ row[tab[t].sid].cur = tab[t].minted
        /\ jar.tok # tab[t].minted /\ \A s \in Sid : row[s].prev # tab[t].minted
        /\ \A q \in Tab : tab[q].refresh # tab[t].minted
        /\ \A q \in Tab : q # t /\ InFlight(q) => tab[q].minted # tab[t].minted

(* What a response says has happened has happened.                         *)
Over(t) == tab[t].sid \in Sid /\ row[tab[t].sid].st = "ended"
Done(t) ==
    /\ tab[t].pc = "serve" => row[tab[t].sid].st # "none"
    /\ tab[t].kind = "logout" /\ tab[t].status = "ok" => Over(t)
    /\ tab[t].cookies = "clear" => "cleared" \in faults \/ Over(t)

InHands == \A t \in Tab : Carries(t)
Told == \A t \in Tab : Done(t)

(* Without a lost response the old pair is sent for a flight at most.      *)
Overtaken ==
    "lost" \notin faults =>
        \A s \in Sid : row[s].st = "live" /\ row[s].prev > 0 =>
            /\ jar.tok = row[s].prev =>
                 \E t \in Tab : /\ InFlight(t) /\ tab[t].sid = s
                                /\ tab[t].minted = row[s].cur /\ tab[t].at <= row[s].rotatedAt
            /\ \A t \in Tab :
                 tab[t].refresh = row[s].prev => tab[t].at <= row[s].rotatedAt + Latency

(* Without a refused refresh the last pair is in hand for as long as it    *)
(* may be used.                                                            *)
Single == \A s, r \in Sid : row[s].st # "none" /\ row[r].st # "none" => s = r
Kept ==
    faults \subseteq {"failed"} /\ Single => \A s \in Sid : row[s].st = "live" =>
        \/ jar.tok = row[s].cur /\ row[s].refreshExpires <= jar.refreshUntil
        \/ \E t \in Tab : InFlight(t) /\ tab[t].sid = s /\ tab[t].minted = row[s].cur

Used == {s \in Sid : row[s].st # "none"}

BrowserInv ==
    /\ Surfing /\ Staged /\ Drawn /\ InHands /\ Told
    /\ Overtaken /\ HonestNeverReused /\ Kept
    /\ IsFiniteSet(Used)

-----------------------------------------------------------------------------
(* What a step that moves no pair to the browser does to a row and to a    *)
(* request: a row ends or keeps its tokens; a request keeps what it sent   *)
(* and what it carries, unless the session it carries for is over.         *)
RowQuiet(s) ==
    \/ /\ row[s].st # "none" /\ row'[s].st = "ended"
       /\ row'[s].cur = 0 /\ row'[s].prev = 0
    \/ /\ row'[s].st = row[s].st /\ row'[s].cur = row[s].cur
       /\ row'[s].prev = row[s].prev /\ row'[s].rotatedAt = row[s].rotatedAt
       /\ row'[s].refreshExpires = row[s].refreshExpires
TabQuiet(t) ==
    /\ tab'[t].refresh \in {tab[t].refresh, 0}
    /\ tab'[t].refresh # 0 => tab'[t].at = tab[t].at
    /\ InFlight(t)' => InFlight(t) /\ tab'[t].minted = tab[t].minted /\ tab'[t].sid = tab[t].sid
    /\ InFlight(t) => \/ InFlight(t)' /\ tab'[t].at = tab[t].at
                      \/ row'[tab[t].sid].st = "ended" \/ "lost" \in faults'

(* Steps of that kind keep the invariant.                                  *)
LEMMA BrowserQuietStep ==
    ASSUME BrowserInv, Surfing', Staged', Told', HonestNeverReused',
           UNCHANGED <<now, jar, nextToken>>, faults \subseteq faults',
           \A s \in Sid : RowQuiet(s), \A t \in Tab : TabQuiet(t)
    PROVE  BrowserInv'
<1>1. /\ now \in Nat /\ nextToken \in Nat /\ nextToken > 0 /\ jar.tok \in Nat
      /\ \A t \in Tab : /\ tab[t].refresh \in Nat /\ tab[t].minted \in Nat /\ tab[t].at \in Nat
                        /\ tab'[t].minted \in Nat
      /\ \A s \in Sid : /\ row[s].cur \in Nat /\ row[s].prev \in Nat
                        /\ row[s].rotatedAt \in Nat /\ row[s].refreshExpires \in Nat
  BY DEF BrowserInv, Surfing, SomeRequest, BrowserRow
<1>2. Drawn'
  BY <1>1 DEF BrowserInv, Drawn, RowQuiet, TabQuiet
<1>3. InHands'
  <2> SUFFICES ASSUME NEW t \in Tab, InFlight(t)'
               PROVE  Carries(t)'
    BY DEF InHands, Carries
  <2>1. InFlight(t) /\ tab'[t].minted = tab[t].minted /\ tab'[t].sid = tab[t].sid
    BY DEF TabQuiet
  <2>2. /\ tab[t].minted > 0 /\ tab[t].minted < nextToken /\ tab[t].sid \in Sid
        /\ \/ row[tab[t].sid].st = "ended"
           \/ row[tab[t].sid].st = "live" /\ row[tab[t].sid].cur = tab[t].minted
        /\ jar.tok # tab[t].minted /\ \A s \in Sid : row[s].prev # tab[t].minted
        /\ \A q \in Tab : tab[q].refresh # tab[t].minted
        /\ \A q \in Tab : q # t /\ InFlight(q) => tab[q].minted # tab[t].minted
    BY <2>1 DEF BrowserInv, InHands, Carries
  <2>3. \/ row'[tab[t].sid].st = "ended"
        \/ row'[tab[t].sid].st = "live" /\ row'[tab[t].sid].cur = tab[t].minted
    BY <2>2 DEF RowQuiet
  <2>4. \A s \in Sid : row'[s].prev # tab[t].minted
    BY <1>1, <2>2 DEF RowQuiet
  <2>5. \A q \in Tab : tab'[q].refresh # tab[t].minted
    BY <1>1, <2>2 DEF TabQuiet
  <2>6. \A q \in Tab : q # t /\ InFlight(q)' => tab'[q].minted # tab[t].minted
    BY <2>2 DEF TabQuiet
  <2>. QED
    BY <2>1, <2>2, <2>3, <2>4, <2>5, <2>6 DEF Carries
<1>4. Overtaken'
  <2> SUFFICES ASSUME "lost" \notin faults', NEW s \in Sid, row'[s].st = "live", row'[s].prev > 0
               PROVE  /\ jar'.tok = row'[s].prev =>
                           \E t \in Tab : /\ InFlight(t)' /\ tab'[t].sid = s
                                          /\ tab'[t].minted = row'[s].cur
                                          /\ tab'[t].at <= row'[s].rotatedAt
                      /\ \A t \in Tab : tab'[t].refresh = row'[s].prev =>
                                            tab'[t].at <= row'[s].rotatedAt + Latency
    BY DEF Overtaken
  <2>1. /\ row[s].st = "live" /\ row'[s].cur = row[s].cur /\ row'[s].prev = row[s].prev
        /\ row'[s].rotatedAt = row[s].rotatedAt /\ row[s].prev > 0
    BY DEF RowQuiet
  <2>2. /\ jar.tok = row[s].prev =>
             \E t \in Tab : /\ InFlight(t) /\ tab[t].sid = s
                            /\ tab[t].minted = row[s].cur /\ tab[t].at <= row[s].rotatedAt
        /\ \A t \in Tab : tab[t].refresh = row[s].prev => tab[t].at <= row[s].rotatedAt + Latency
    BY <2>1 DEF BrowserInv, Overtaken
  <2>3. ASSUME NEW t \in Tab, InFlight(t), tab[t].sid = s
        PROVE  /\ InFlight(t)' /\ tab'[t].at = tab[t].at
               /\ tab'[t].minted = tab[t].minted /\ tab'[t].sid = tab[t].sid
    BY <2>3 DEF TabQuiet
  <2>4. ASSUME NEW t \in Tab, tab'[t].refresh = row'[s].prev
        PROVE  tab'[t].at = tab[t].at /\ tab[t].refresh = row[s].prev
    BY <1>1, <2>1, <2>4 DEF TabQuiet
  <2>. QED
    BY <2>1, <2>2, <2>3, <2>4
<1>5. Used' = Used
  BY DEF RowQuiet, Used
<1>6. Kept'
  <2> SUFFICES ASSUME faults' \subseteq {"failed"}, Single', NEW s \in Sid, row'[s].st = "live"
               PROVE  \/ jar'.tok = row'[s].cur /\ row'[s].refreshExpires <= jar'.refreshUntil
                      \/ \E t \in Tab : /\ InFlight(t)' /\ tab'[t].sid = s
                                        /\ tab'[t].minted = row'[s].cur
    BY DEF Kept
  <2>1. /\ row[s].st = "live" /\ row'[s].cur = row[s].cur
        /\ row'[s].refreshExpires = row[s].refreshExpires
    BY DEF RowQuiet
  <2>2. Single /\ faults \subseteq {"failed"}
    BY <1>5 DEF Single, Used
  <2>3. \/ jar.tok = row[s].cur /\ row[s].refreshExpires <= jar.refreshUntil
        \/ \E t \in Tab : InFlight(t) /\ tab[t].sid = s /\ tab[t].minted = row[s].cur
    BY <2>1, <2>2 DEF BrowserInv, Kept
  <2>4. ASSUME NEW t \in Tab, InFlight(t), tab[t].sid = s
        PROVE  InFlight(t)' /\ tab'[t].minted = tab[t].minted /\ tab'[t].sid = tab[t].sid
    BY <2>4 DEF TabQuiet
  <2>. QED
    BY <2>1, <2>3, <2>4
<1>. QED
  BY <1>2, <1>3, <1>4, <1>5, <1>6 DEF BrowserInv

(* Such a step by one request, which replaces its record by q.             *)
Follows(q, t) ==
    /\ q \in SomeRequest /\ Stage(q) /\ InTime(q)
    /\ q.refresh = tab[t].refresh /\ q.at = tab[t].at
    /\ q.cookies = "set" => InFlight(t) /\ q.minted = tab[t].minted /\ q.sid = tab[t].sid

LEMMA BrowserRequestStep ==
    ASSUME BrowserInv, NEW t \in Tab, NEW q, Follows(q, t),
           tab' = [tab EXCEPT ![t] = q], UNCHANGED <<now, jar, nextToken>>,
           row' \in [Sid -> BrowserRow], \A s \in Sid : RowQuiet(s),
           faults \subseteq faults', faults' \subseteq {"lost", "failed", "cleared"},
           InFlight(t) => q.cookies = "set" \/ row'[tab[t].sid].st = "ended",
           Done(t)',
           q.status = "reused" => "lost" \in faults' \/ ~(GraceWindow > 2 * Latency)
    PROVE  BrowserInv'
<1>1. tab'[t] = q /\ \A p \in Tab : p # t => tab'[p] = tab[p]
  BY DEF BrowserInv, Surfing
<1>2. Surfing'
  BY DEF BrowserInv, Surfing, Follows
<1>3. Staged'
  BY <1>1 DEF BrowserInv, Staged, Follows, InTime
<1>4. Told'
  <2> SUFFICES ASSUME NEW p \in Tab, p # t PROVE Done(p)'
    BY DEF Told
  <2>1. Done(p) /\ tab'[p] = tab[p] /\ Stage(tab[p])
    BY <1>1 DEF BrowserInv, Told, Staged
  <2>2. Over(p) => Over(p)'
    BY <2>1 DEF Over, RowQuiet
  <2>3. tab[p].pc = "serve" => row'[tab[p].sid].st # "none"
    BY <2>1 DEF Done, Stage, RowQuiet
  <2>. QED
    BY <2>1, <2>2, <2>3 DEF Done
<1>5. HonestNeverReused'
  BY <1>1 DEF BrowserInv, HonestNeverReused
<1>6. \A p \in Tab : TabQuiet(p)
  BY <1>1 DEF TabQuiet, Follows, InFlight
<1>. QED
  BY <1>2, <1>3, <1>4, <1>5, <1>6, BrowserQuietStep

-----------------------------------------------------------------------------
(* What an operation that answers leaves: the request with its status.     *)
LEMMA AnswerFollows ==
    ASSUME BrowserInv, NEW t \in Tab, NEW st \in Status, tab[t].pc # "idle"
    PROVE  /\ Follows(WithAnswer(t, st), t)
           /\ Follows([WithAnswer(t, st) EXCEPT !.cookies = "clear"], t)
<1>1. tab[t] \in SomeRequest /\ Stage(tab[t]) /\ InTime(tab[t])
  BY DEF BrowserInv, Surfing, Staged
<1>. QED
  BY <1>1 DEF Follows, WithAnswer, SomeRequest, Stage, InTime, InFlight

(* An answer that leaves the cookies and the rows alone, of a request that *)
(* logs nobody out.                                                        *)
LEMMA PlainAnswer ==
    ASSUME BrowserInv, NEW t \in Tab, NEW st \in Status, tab[t].pc # "idle",
           st = "ok" => tab[t].kind # "logout", Answer(t, st),
           UNCHANGED <<now, jar, nextToken>>,
           row' \in [Sid -> BrowserRow], \A s \in Sid : RowQuiet(s),
           faults \subseteq faults', faults' \subseteq {"lost", "failed", "cleared"},
           st = "reused" => "lost" \in faults' \/ ~(GraceWindow > 2 * Latency)
    PROVE  BrowserInv'
<1>1. /\ Follows(WithAnswer(t, st), t)
      /\ WithAnswer(t, st).cookies = tab[t].cookies
      /\ WithAnswer(t, st).kind = tab[t].kind /\ WithAnswer(t, st).sid = tab[t].sid
      /\ WithAnswer(t, st).pc = "answered" /\ WithAnswer(t, st).status = st
  <2>1. tab[t] \in SomeRequest
    BY DEF BrowserInv, Surfing
  <2>2. Follows(WithAnswer(t, st), t)
    BY AnswerFollows
  <2>. QED
    BY <2>1, <2>2 DEF WithAnswer, SomeRequest
<1>2. tab' = [tab EXCEPT ![t] = WithAnswer(t, st)] /\ tab'[t] = WithAnswer(t, st)
  BY DEF Answer, BrowserInv, Surfing
<1>3. Over(t) => Over(t)'
  BY <1>1, <1>2 DEF Over, RowQuiet
<1>4. Done(t)'
  BY <1>1, <1>2, <1>3 DEF Done, BrowserInv, Told
<1>. QED
  BY <1>1, <1>2, <1>4, BrowserRequestStep DEF InFlight

(* An answer that clears them: by a logout, which ends the session the     *)
(* request acts for, or by the refresh handler, which is on the record.    *)
LEMMA ClearingAnswer ==
    ASSUME BrowserInv, NEW t \in Tab, NEW st \in Status, tab[t].pc # "idle",
           st = "ok" => tab[t].sid \in Sid /\ row'[tab[t].sid].st = "ended",
           st # "ok" => tab[t].pc = "refresh" /\ "cleared" \in faults',
           AnswerClearing(t, st), UNCHANGED <<now, jar, nextToken>>,
           row' \in [Sid -> BrowserRow], \A s \in Sid : RowQuiet(s),
           faults \subseteq faults', faults' \subseteq {"lost", "failed", "cleared"},
           st = "reused" => "lost" \in faults' \/ ~(GraceWindow > 2 * Latency)
    PROVE  BrowserInv'
<1>. DEFINE q == [WithAnswer(t, st) EXCEPT !.cookies = "clear"]
<1>1. /\ Follows(q, t) /\ q.cookies = "clear" /\ q.kind = tab[t].kind /\ q.sid = tab[t].sid
      /\ q.pc = "answered" /\ q.status = st
  <2>1. tab[t] \in SomeRequest
    BY DEF BrowserInv, Surfing
  <2>. QED
    BY <2>1, AnswerFollows DEF WithAnswer, SomeRequest
<1>2. tab' = [tab EXCEPT ![t] = q] /\ tab'[t] = q
  BY DEF AnswerClearing, BrowserInv, Surfing
<1>3. st = "ok" => Over(t)'
  BY <1>1, <1>2 DEF Over
<1>4. Done(t)'
  BY <1>1, <1>2, <1>3 DEF Done
<1>5. InFlight(t) => row'[tab[t].sid].st = "ended"
  <2>1. Stage(tab[t])
    BY DEF BrowserInv, Staged
  <2>. QED
    BY <2>1 DEF InFlight, Stage
<1>. HIDE DEF q
<1>. QED
  BY <1>1, <1>2, <1>4, <1>5, BrowserRequestStep

-----------------------------------------------------------------------------
(* The requests that ask and are answered.                                 *)
LEMMA AuthenticateStep ==
    ASSUME BrowserInv, NEW t \in Tab, Authenticate(t) PROVE BrowserInv'
<1>1. /\ UNCHANGED <<now, row, jar, nextToken, faults>> /\ row \in [Sid -> BrowserRow]
      /\ faults \subseteq {"lost", "failed", "cleared"}
      /\ \A s \in Sid : RowQuiet(s)
      /\ tab[t] \in SomeRequest /\ tab[t].pc = "auth" /\ Stage(tab[t]) /\ InTime(tab[t])
  BY DEF Authenticate, BrowserInv, Surfing, Staged, RowQuiet
<1>2. ASSUME NEW st \in {"no_cookie", "invalid", "expired"}, Answer(t, st) PROVE BrowserInv'
  <2>1. st \in Status /\ st # "ok" /\ st # "reused"
    BY DEF Status
  <2>. QED
    BY <1>1, <1>2, <2>1, PlainAnswer
<1>3. ASSUME NEW s \in Sid, s \in WithCurrent(tab[t].access),
             tab' = [tab EXCEPT ![t].pc = "serve", ![t].sid = s, ![t].seen = row[s].lastActive]
      PROVE  BrowserInv'
  <2>. DEFINE q == [tab[t] EXCEPT !.pc = "serve", !.sid = s, !.seen = row[s].lastActive]
  <2>1. tab' = [tab EXCEPT ![t] = q] /\ tab'[t] = q
    BY <1>3 DEF BrowserInv, Surfing
  <2>2. row[s].st = "live" /\ row[s].lastActive \in Nat
    BY <1>1, <1>3 DEF WithCurrent, BrowserRow
  <2>3. Follows(q, t) /\ q.status = "none" /\ q.cookies = "keep" /\ q.sid = s
    BY <1>1, <2>2 DEF Follows, SomeRequest, Stage, InTime
  <2>4. Done(t)' /\ ~InFlight(t)
    BY <1>1, <2>1, <2>2, <2>3 DEF Done, Stage, InFlight
  <2>. HIDE DEF q
  <2>. QED
    BY <1>1, <2>1, <2>3, <2>4, BrowserRequestStep
<1>4. ASSUME tab' = [tab EXCEPT ![t].pc = "refresh"]
      PROVE  BrowserInv'
  <2>. DEFINE q == [tab[t] EXCEPT !.pc = "refresh"]
  <2>1. tab' = [tab EXCEPT ![t] = q] /\ tab'[t] = q
    BY <1>4 DEF BrowserInv, Surfing
  <2>2. Follows(q, t) /\ q.status = "none" /\ q.cookies = "keep" /\ q.pc = "refresh"
    BY <1>1 DEF Follows, SomeRequest, Stage, InTime
  <2>3. Done(t)' /\ ~InFlight(t)
    BY <1>1, <2>1, <2>2 DEF Done, Stage, InFlight
  <2>. HIDE DEF q
  <2>. QED
    BY <1>1, <2>1, <2>2, <2>3, BrowserRequestStep
<1>. QED
  BY <1>2, <1>3, <1>4 DEF Authenticate, WithCurrent

(* Refusals: a row one of whose old tokens comes back ends; an old token   *)
(* from an honest browser is at most a flight behind and in the window.    *)
LEMMA InTheWindow ==
    ASSUME BrowserInv, NEW t \in Tab, tab[t].pc # "idle", tab[t].refresh # NoToken,
           RefreshOutcome(tab[t].refresh) = "reused"
    PROVE  "lost" \in faults \/ ~(GraceWindow > 2 * Latency)
<1>. SUFFICES ASSUME "lost" \notin faults, GraceWindow > 2 * Latency PROVE FALSE
  OBVIOUS
<1>. DEFINE s == CHOOSE s \in WithPrevious(tab[t].refresh) : TRUE
<1>1. WithPrevious(tab[t].refresh) # {} /\ ~InGrace(row[s], now)
  BY DEF RefreshOutcome, RefusalOfCurrent
<1>2. s \in Sid /\ row[s].st = "live" /\ row[s].prev = tab[t].refresh
  BY <1>1 DEF WithPrevious
<1>3. /\ now \in Nat /\ tab[t].at \in Nat /\ row[s].rotatedAt \in Nat /\ tab[t].refresh > 0
      /\ now <= tab[t].at + Latency
  BY <1>2 DEF BrowserInv, Surfing, BrowserRow, SomeRequest, Staged, InTime, NoToken
<1>4. tab[t].at <= row[s].rotatedAt + Latency
  BY <1>2, <1>3 DEF BrowserInv, Overtaken
<1>5. Latency \in Nat /\ GraceWindow \in Nat
  OBVIOUS
<1>. HIDE DEF s
<1>. QED
  BY <1>1, <1>3, <1>4, <1>5 DEF InGrace

(* What a refresh may be answered, and what a deleted row holds.           *)
LEMMA Outcomes ==
    ASSUME NEW tok
    PROVE  /\ RefreshOutcome(tok) \in Status \cup {"rotated"}
           /\ RefreshOutcome(tok) # "ok"
BY DEF RefreshOutcome, RefusalOfCurrent, Status

LEMMA EndedIsBlank ==
    /\ Ended \in BrowserRow /\ Ended.st = "ended"
    /\ Ended.cur = 0 /\ Ended.prev = 0
BY DEF Ended, NoRow, NoToken, BrowserRow

LEMMA RefuseStep == ASSUME BrowserInv, NEW t \in Tab, Refuse(t) PROVE BrowserInv'
<1>1. /\ UNCHANGED <<now, jar, nextToken>> /\ row \in [Sid -> BrowserRow]
      /\ tab \in [Tab -> SomeRequest]
      /\ faults \subseteq {"lost", "failed", "cleared"}
      /\ tab[t].pc = "refresh" /\ tab[t].cookies = "keep"
      /\ faults' = IF tab'[t].cookies = "clear" THEN faults \cup {"cleared"} ELSE faults
  BY DEF Refuse, BrowserInv, Surfing, Staged, Stage
<1>2. CASE tab[t].refresh = NoToken
  <2>1. Answer(t, "invalid_refresh") /\ UNCHANGED row
    BY <1>2 DEF Refuse
  <2>2. \A s \in Sid : RowQuiet(s)
    BY <2>1 DEF RowQuiet
  <2>3. "invalid_refresh" \in Status
    BY DEF Status
  <2>. QED
    BY <1>1, <2>1, <2>2, <2>3, PlainAnswer
<1>3. CASE tab[t].refresh # NoToken
  <2>. DEFINE out == RefreshOutcome(tab[t].refresh)
  <2>1. /\ out # "rotated"
        /\ IF tab[t].kind = "refresh" THEN AnswerClearing(t, out)
           ELSE Answer(t, out)
        /\ row' = IF out # "reused" THEN row
                  ELSE [s \in Sid |-> IF s \in WithPrevious(tab[t].refresh)
                                      THEN Ended ELSE row[s]]
    BY <1>3 DEF Refuse
  <2>2. out \in Status /\ out # "ok"
    BY <2>1, Outcomes
  <2>3. row' \in [Sid -> BrowserRow] /\ \A s \in Sid : RowQuiet(s)
    BY <1>1, <2>1, EndedIsBlank DEF RowQuiet, WithPrevious
  <2>4. out = "reused" => "lost" \in faults \/ ~(GraceWindow > 2 * Latency)
    BY <1>1, <1>3, InTheWindow
  <2>. HIDE DEF out
  <2>5. CASE tab[t].kind = "refresh"
    <3>1. AnswerClearing(t, out)
      BY <2>1, <2>5
    <3>2. tab'[t].cookies = "clear"
      BY <1>1, <3>1 DEF AnswerClearing, WithAnswer, SomeRequest
    <3>. QED
      BY <1>1, <2>2, <2>3, <2>4, <3>1, <3>2, ClearingAnswer
  <2>6. CASE tab[t].kind # "refresh"
    <3>1. Answer(t, out)
      BY <2>1, <2>6
    <3>2. faults \subseteq faults' /\ faults' \subseteq {"lost", "failed", "cleared"}
      BY <1>1
    <3>. QED
      BY <1>1, <2>2, <2>3, <2>4, <3>1, <3>2, PlainAnswer
  <2>. QED
    BY <2>5, <2>6
<1>. QED
  BY <1>2, <1>3

(* Failures, pages, logouts, lost responses and revocations.               *)
LEMMA FailStep == ASSUME BrowserInv, NEW t \in Tab, Fail(t) PROVE BrowserInv'
<1>1. /\ UNCHANGED <<now, row, jar, nextToken>> /\ row \in [Sid -> BrowserRow]
      /\ faults \subseteq {"lost", "failed", "cleared"}
      /\ \A s \in Sid : RowQuiet(s)
      /\ tab[t].pc \in {"login", "auth", "refresh", "serve"} /\ Stage(tab[t])
      /\ "failed" \in Status
      /\ faults' = faults \cup {"failed"}
                        \cup IF tab[t].kind = "refresh" THEN {"cleared"} ELSE {}
  BY DEF Fail, CallsBackend, BrowserInv, Surfing, Staged, RowQuiet, Status
<1>2. faults \subseteq faults' /\ faults' \subseteq {"lost", "failed", "cleared"}
  BY <1>1
<1>3. CASE tab[t].kind = "refresh"
  <2>1. AnswerClearing(t, "failed") /\ "cleared" \in faults' /\ tab[t].pc = "refresh"
    BY <1>1, <1>3 DEF Fail, Stage
  <2>. QED
    BY <1>1, <1>2, <2>1, ClearingAnswer
<1>4. CASE tab[t].kind # "refresh"
  <2>1. Answer(t, "failed")
    BY <1>4 DEF Fail
  <2>. QED
    BY <1>1, <1>2, <2>1, PlainAnswer
<1>. QED
  BY <1>3, <1>4

LEMMA ServePageStep == ASSUME BrowserInv, NEW t \in Tab, ServePage(t) PROVE BrowserInv'
<1>1. /\ UNCHANGED <<now, jar, nextToken, faults>> /\ row \in [Sid -> BrowserRow]
      /\ faults \subseteq {"lost", "failed", "cleared"} /\ now \in Nat
      /\ Answer(t, "ok") /\ tab[t].kind = "page" /\ tab[t].pc # "idle"
      /\ "ok" \in Status
  BY DEF ServePage, BrowserInv, Surfing, Status
<1>2. row' \in [Sid -> BrowserRow] /\ \A s \in Sid : RowQuiet(s)
  BY <1>1 DEF ServePage, TouchedByPage, BrowserRow, RowQuiet
<1>. QED
  BY <1>1, <1>2, PlainAnswer

LEMMA ServeLogoutStep ==
    ASSUME BrowserInv, NEW t \in Tab, ServeLogout(t) PROVE BrowserInv'
<1>1. /\ UNCHANGED <<now, jar, nextToken, faults>> /\ row \in [Sid -> BrowserRow]
      /\ faults \subseteq {"lost", "failed", "cleared"}
      /\ AnswerClearing(t, "ok") /\ tab[t].pc # "idle" /\ "ok" \in Status
      /\ tab[t].sid \in Sid /\ row[tab[t].sid].st # "none"
      /\ row' = [row EXCEPT ![tab[t].sid] = Ended]
  BY DEF ServeLogout, LoggedOut, BrowserInv, Surfing,
     Status, Staged, Stage, Told, Done
<1>2. /\ row' \in [Sid -> BrowserRow] /\ \A s \in Sid : RowQuiet(s)
      /\ row'[tab[t].sid].st = "ended"
  BY <1>1, EndedIsBlank DEF RowQuiet
<1>. QED
  BY <1>1, <1>2, ClearingAnswer

LEMMA LoseStep == ASSUME BrowserInv, NEW t \in Tab, Lose(t) PROVE BrowserInv'
<1>1. /\ UNCHANGED <<now, row, jar, nextToken>> /\ tab \in [Tab -> SomeRequest]
      /\ tab' = [tab EXCEPT ![t] = Idle] /\ faults' = faults \cup {"lost"}
      /\ \A s \in Sid : RowQuiet(s)
  BY DEF Lose, BrowserInv, Surfing, RowQuiet
<1>2. /\ Idle \in SomeRequest /\ Stage(Idle) /\ InTime(Idle)
      /\ Idle.refresh = 0 /\ Idle.cookies = "keep"
      /\ Idle.status = "none" /\ Idle.pc = "idle"
  BY DEF Idle, SomeRequest, Stage, InTime, NoToken, Status
<1>3. tab'[t] = Idle /\ \A p \in Tab : p # t => tab'[p] = tab[p]
  BY <1>1
<1>4. Surfing'
  BY <1>1, <1>2 DEF BrowserInv, Surfing
<1>5. Staged'
  BY <1>1, <1>2, <1>3 DEF BrowserInv, Staged, InTime
<1>6. Told'
  BY <1>1, <1>2, <1>3 DEF BrowserInv, Told, Done, Over
<1>7. HonestNeverReused'
  BY <1>1 DEF HonestNeverReused
<1>8. \A p \in Tab : TabQuiet(p)
  BY <1>1, <1>2, <1>3 DEF TabQuiet, InFlight
<1>. QED
  BY <1>1, <1>4, <1>5, <1>6, <1>7, <1>8, BrowserQuietStep

LEMMA BrowserRevokeStep == ASSUME BrowserInv, NEW s \in Sid, RevokeElsewhere(s) PROVE BrowserInv'
<1>1. /\ UNCHANGED <<now, jar, tab, nextToken, faults>> /\ row \in [Sid -> BrowserRow]
      /\ row[s].st = "live" /\ row' = [row EXCEPT ![s] = Ended]
  BY DEF RevokeElsewhere, BrowserInv, Surfing
<1>2. Surfing'
  BY <1>1, EndedIsBlank DEF BrowserInv, Surfing
<1>3. Staged' /\ HonestNeverReused'
  BY <1>1 DEF BrowserInv, Staged, InTime, HonestNeverReused
<1>4. \A r \in Sid : RowQuiet(r)
  BY <1>1, EndedIsBlank DEF RowQuiet
<1>5. Told'
  <2> SUFFICES ASSUME NEW p \in Tab PROVE Done(p)'
    BY DEF Told
  <2>1. Done(p) /\ Stage(tab[p])
    BY DEF BrowserInv, Told, Staged
  <2>. QED
    BY <1>1, <1>4, <2>1 DEF Done, Stage, Over, RowQuiet
<1>6. \A p \in Tab : TabQuiet(p)
  BY <1>1 DEF TabQuiet, InFlight
<1>. QED
  BY <1>1, <1>2, <1>3, <1>4, <1>5, <1>6, BrowserQuietStep

-----------------------------------------------------------------------------
(* The clock: a pair is sent back, or a response under way, for a flight.  *)
LEMMA BrowserTickStep == ASSUME BrowserInv, BrowserTick PROVE BrowserInv'
<1>1. /\ UNCHANGED <<row, jar, tab, nextToken, faults>> /\ now' = now + 1 /\ now \in Nat
      /\ \A t \in Tab : tab[t].pc # "idle" => now < tab[t].at + Latency
      /\ \A t \in Tab : tab[t].at \in Nat
      /\ \A s \in Sid : row[s].refreshExpires \in Nat
  BY DEF BrowserTick, Busy, BrowserInv, Surfing, SomeRequest, BrowserRow
<1>2. Surfing'
  BY <1>1 DEF BrowserInv, Surfing
<1>3. Staged'
  BY <1>1 DEF BrowserInv, Staged, InTime
<1>4. Drawn'
  BY <1>1 DEF BrowserInv, Drawn
<1>5. InHands' /\ Told'
  BY <1>1 DEF BrowserInv, InHands, Carries, InFlight, Told, Done, Over
<1>6. Overtaken' /\ Kept'
  BY <1>1 DEF BrowserInv, Overtaken, Kept, InFlight, Single
<1>7. HonestNeverReused' /\ IsFiniteSet(Used)'
  BY <1>1 DEF BrowserInv, HonestNeverReused, Used
<1>. QED
  BY <1>2, <1>3, <1>4, <1>5, <1>6, <1>7 DEF BrowserInv

(* A tab sends an old pair only if the jar has it, so while the response   *)
(* with the new one is still on its way.                                   *)
LEMMA SendStep ==
    ASSUME BrowserInv, NEW t \in Tab, NEW kind \in Kinds, Send(t, kind) PROVE BrowserInv'
<1>. DEFINE pair == Holds(jar.refreshUntil, jar.tok)
            q == [Idle EXCEPT
                    !.pc = IF kind \in {"login", "refresh"} THEN kind ELSE "auth",
                    !.kind = kind, !.at = now,
                    !.access = Holds(jar.accessUntil, jar.tok), !.refresh = pair]
<1>1. /\ UNCHANGED <<now, row, jar, nextToken, faults>> /\ tab \in [Tab -> SomeRequest]
      /\ now \in Nat /\ jar.tok \in Nat /\ nextToken \in Nat /\ nextToken > 0
      /\ tab[t].pc = "idle" /\ Stage(tab[t])
      /\ tab' = [tab EXCEPT ![t] = q]
      /\ \A p \in Tab : tab[p].at \in Nat
      /\ \A s \in Sid : row[s].rotatedAt \in Nat
  BY DEF Send, BrowserInv, Surfing, Staged, SomeRequest, BrowserRow
<1>2. /\ q \in SomeRequest /\ Stage(q) /\ InTime(q)
      /\ q.cookies = "keep" /\ q.status = "none" /\ q.refresh = pair /\ q.at = now
      /\ q.pc # "serve"
  <2>1. pair \in Nat /\ Holds(jar.accessUntil, jar.tok) \in Nat
    BY <1>1 DEF Holds, NoToken
  <2>. DEFINE pc == IF kind \in {"login", "refresh"} THEN kind ELSE "auth"
  <2>2. /\ pc \in {"login", "refresh", "auth"}
        /\ pc = "login" => kind = "login"
        /\ pc = "auth" => kind \notin {"login", "refresh"}
        /\ pc = "refresh" => kind = "refresh"
    OBVIOUS
  <2>. HIDE DEF pair, pc
  <2>3. /\ q.pc = pc /\ q.kind = kind /\ q.at = now /\ q.refresh = pair
        /\ q.cookies = "keep" /\ q.status = "none"
    BY DEF Idle, pc
  <2>4. Stage(q) /\ InTime(q)
    BY <1>1, <2>2, <2>3 DEF Stage, InTime
  <2>5. q \in SomeRequest
    BY <1>1, <2>1, <2>2 DEF Idle, pc, NoToken, Status, SomeRequest
  <2>. QED
    BY <2>2, <2>3, <2>4, <2>5
<1>3. pair \in {jar.tok, 0}
  BY DEF Holds, NoToken
<1>. HIDE DEF q, pair
<1>4. tab'[t] = q /\ \A p \in Tab : p # t => tab'[p] = tab[p]
  BY <1>1
<1>5. Surfing'
  BY <1>1, <1>2 DEF BrowserInv, Surfing
<1>6. Staged'
  BY <1>1, <1>2, <1>4 DEF BrowserInv, Staged, InTime
<1>7. Drawn'
  BY <1>1, <1>2, <1>3, <1>4 DEF BrowserInv, Drawn
<1>8. ~InFlight(t) /\ ~InFlight(t)'
  BY <1>1, <1>2, <1>4 DEF InFlight, Stage
<1>9. InHands'
  <2> SUFFICES ASSUME NEW p \in Tab, p # t, InFlight(p) PROVE Carries(p)'
    BY <1>4, <1>8 DEF InHands, Carries, InFlight
  <2>1. Carries(p) /\ tab'[p] = tab[p]
    BY <1>4 DEF BrowserInv, InHands
  <2>2. \A r \in Tab : tab'[r].refresh # tab[p].minted
    BY <1>2, <1>3, <1>4, <2>1 DEF Carries
  <2>3. \A r \in Tab : r # p /\ InFlight(r)' => tab'[r].minted # tab[p].minted
    BY <1>4, <1>8, <2>1 DEF Carries, InFlight
  <2>. QED
    BY <1>1, <2>1, <2>2, <2>3 DEF Carries, InFlight
<1>10. Told'
  BY <1>1, <1>2, <1>4 DEF BrowserInv, Told, Done, Over
<1>11. Overtaken'
  <2> SUFFICES ASSUME "lost" \notin faults, NEW s \in Sid, row[s].st = "live", row[s].prev > 0
               PROVE  /\ jar.tok = row[s].prev =>
                           \E p \in Tab : /\ InFlight(p)' /\ tab'[p].sid = s
                                          /\ tab'[p].minted = row[s].cur
                                          /\ tab'[p].at <= row[s].rotatedAt
                      /\ \A p \in Tab : tab'[p].refresh = row[s].prev =>
                                            tab'[p].at <= row[s].rotatedAt + Latency
    BY <1>1 DEF Overtaken
  <2>1. /\ jar.tok = row[s].prev =>
             \E p \in Tab : /\ InFlight(p) /\ tab[p].sid = s
                            /\ tab[p].minted = row[s].cur /\ tab[p].at <= row[s].rotatedAt
        /\ \A p \in Tab : tab[p].refresh = row[s].prev => tab[p].at <= row[s].rotatedAt + Latency
    BY DEF BrowserInv, Overtaken
  <2>2. ASSUME NEW p \in Tab, InFlight(p)
        PROVE  tab'[p] = tab[p] /\ InFlight(p)' /\ now <= tab[p].at + Latency
    <3>1. p # t /\ Stage(tab[p]) /\ InTime(tab[p])
      BY <1>8, <2>2 DEF BrowserInv, Staged
    <3>. QED
      BY <1>4, <2>2, <3>1 DEF InFlight, Stage, InTime
  <2>3. jar.tok = row[s].prev => now <= row[s].rotatedAt + Latency
    BY <1>1, <2>1, <2>2
  <2>4. q.refresh = row[s].prev => q.at <= row[s].rotatedAt + Latency
    BY <1>2, <1>3, <2>3
  <2>. QED
    BY <1>4, <2>1, <2>2, <2>4
<1>12. HonestNeverReused' /\ IsFiniteSet(Used)'
  BY <1>1, <1>2, <1>4 DEF BrowserInv, HonestNeverReused, Used
<1>13. Kept'
  BY <1>1, <1>4, <1>8 DEF BrowserInv, Kept, InFlight, Single
<1>. QED
  BY <1>5, <1>6, <1>7, <1>9, <1>10, <1>11, <1>12, <1>13 DEF BrowserInv

(* A request that has not been made carries nothing.                       *)
LEMMA IdleIsBlank ==
    /\ Idle \in SomeRequest /\ Stage(Idle) /\ InTime(Idle)
    /\ Idle.refresh = 0 /\ Idle.cookies = "keep" /\ Idle.status = "none"
    /\ Idle.pc = "idle" /\ Idle.kind = "none"
BY DEF Idle, SomeRequest, Stage, InTime, NoToken, Status

(* The browser takes the pair of a response: nobody's old one, and the     *)
(* current one of its session if that is still alive.                      *)
LEMMA ReceiveStep == ASSUME BrowserInv, NEW t \in Tab, Receive(t) PROVE BrowserInv'
<1>1. /\ UNCHANGED <<now, row, nextToken, faults>> /\ tab' = [tab EXCEPT ![t] = Idle]
      /\ now \in Nat /\ jar \in [tok : Nat, accessUntil : Nat, refreshUntil : Nat]
      /\ tab \in [Tab -> SomeRequest] /\ row \in [Sid -> BrowserRow]
      /\ nextToken \in Nat /\ nextToken > 0
      /\ tab[t].minted \in Nat /\ tab[t].cookies \in {"keep", "set", "clear"}
  BY DEF Receive, BrowserInv, Surfing, SomeRequest
<1>2. tab'[t] = Idle /\ \A p \in Tab : p # t => tab'[p] = tab[p]
  BY <1>1
<1>3. ~InFlight(t)' /\ \A p \in Tab : p # t => InFlight(p)' = InFlight(p)
  BY <1>2, IdleIsBlank DEF InFlight
<1>4. /\ tab[t].cookies = "set" => /\ InFlight(t) /\ jar'.tok = tab[t].minted
                                   /\ jar'.refreshUntil = now + RefreshTTL
      /\ tab[t].cookies = "clear" => jar'.tok = 0
      /\ tab[t].cookies = "keep" => jar' = jar /\ ~InFlight(t)
      /\ jar' \in [tok : Nat, accessUntil : Nat, refreshUntil : Nat]
  BY <1>1 DEF Receive, EmptyJar, NoToken, InFlight
<1>5. Surfing'
  BY <1>1, <1>4, IdleIsBlank DEF BrowserInv, Surfing
<1>6. Staged'
  BY <1>1, <1>2, IdleIsBlank DEF BrowserInv, Staged, InTime
<1>7. Carries(t)
  BY DEF BrowserInv, InHands
<1>8. Drawn'
  <2>1. jar'.tok < nextToken
    BY <1>1, <1>4, <1>7 DEF BrowserInv, Drawn, Carries
  <2>. QED
    BY <1>1, <1>2, <2>1, IdleIsBlank DEF BrowserInv, Drawn
<1>9. InHands'
  <2> SUFFICES ASSUME NEW p \in Tab, p # t, InFlight(p) PROVE Carries(p)'
    BY <1>3 DEF InHands, Carries
  <2>1. Carries(p) /\ tab'[p] = tab[p] /\ tab[p].minted \in Nat
    BY <1>1, <1>2 DEF BrowserInv, InHands, SomeRequest
  <2>2. \A r \in Tab : tab'[r].refresh # tab[p].minted
    BY <1>2, <2>1, IdleIsBlank DEF Carries
  <2>3. \A r \in Tab : r # p /\ InFlight(r)' => tab'[r].minted # tab[p].minted
    BY <1>2, <1>3, <2>1 DEF Carries
  <2>4. jar'.tok # tab[p].minted
    BY <1>1, <1>4, <2>1 DEF Carries
  <2>. QED
    BY <1>1, <2>1, <2>2, <2>3, <2>4 DEF Carries
<1>10. Told'
  BY <1>1, <1>2, IdleIsBlank DEF BrowserInv, Told, Done, Over
<1>11. Overtaken'
  <2> SUFFICES ASSUME "lost" \notin faults, NEW s \in Sid, row[s].st = "live", row[s].prev > 0
               PROVE  /\ jar'.tok = row[s].prev =>
                           \E p \in Tab : /\ InFlight(p)' /\ tab'[p].sid = s
                                          /\ tab'[p].minted = row[s].cur
                                          /\ tab'[p].at <= row[s].rotatedAt
                      /\ \A p \in Tab : tab'[p].refresh = row[s].prev =>
                                            tab'[p].at <= row[s].rotatedAt + Latency
    BY <1>1 DEF Overtaken
  <2>1. /\ jar.tok = row[s].prev =>
             \E p \in Tab : /\ InFlight(p) /\ tab[p].sid = s
                            /\ tab[p].minted = row[s].cur /\ tab[p].at <= row[s].rotatedAt
        /\ \A p \in Tab : tab[p].refresh = row[s].prev => tab[p].at <= row[s].rotatedAt + Latency
    BY DEF BrowserInv, Overtaken
  <2>2. jar'.tok = row[s].prev => jar' = jar /\ ~InFlight(t)
    <3>1. InFlight(t) => row[s].prev # tab[t].minted
      BY <1>7 DEF Carries
    <3>. QED
      BY <1>1, <1>4, <3>1 DEF BrowserRow
  <2>. QED
    BY <1>2, <1>3, <2>1, <2>2, IdleIsBlank
<1>12. HonestNeverReused' /\ IsFiniteSet(Used)'
  BY <1>1, <1>2, IdleIsBlank DEF BrowserInv, HonestNeverReused, Used
<1>13. Kept'
  <2> SUFFICES ASSUME faults \subseteq {"failed"}, Single, NEW s \in Sid, row[s].st = "live"
               PROVE  \/ jar'.tok = row[s].cur /\ row[s].refreshExpires <= jar'.refreshUntil
                      \/ \E p \in Tab : /\ InFlight(p)' /\ tab'[p].sid = s
                                        /\ tab'[p].minted = row[s].cur
    BY <1>1 DEF Kept, Single
  <2>1. \/ jar.tok = row[s].cur /\ row[s].refreshExpires <= jar.refreshUntil
        \/ \E p \in Tab : InFlight(p) /\ tab[p].sid = s /\ tab[p].minted = row[s].cur
    BY DEF BrowserInv, Kept
  <2>2. CASE tab[t].cookies = "set"
    <3>1. tab[t].sid = s
      BY <1>4, <1>7, <2>2 DEF Carries, Single
    <3>2. tab[t].minted = row[s].cur
      BY <1>4, <1>7, <2>2, <3>1 DEF Carries
    <3>3. row[s].refreshExpires <= now + RefreshTTL
      BY DEF BrowserInv, Drawn
    <3>. QED
      BY <1>4, <2>2, <3>2, <3>3
  <2>3. CASE tab[t].cookies = "clear"
    <3>1. Over(t)
      BY <2>3 DEF BrowserInv, Told, Done
    <3>. QED
      BY <3>1 DEF Over, Single
  <2>4. CASE tab[t].cookies = "keep"
    BY <1>2, <1>3, <1>4, <2>1, <2>4
  <2>. QED
    BY <1>1, <2>2, <2>3, <2>4
<1>. QED
  BY <1>5, <1>6, <1>8, <1>9, <1>10, <1>11, <1>12, <1>13 DEF BrowserInv

-----------------------------------------------------------------------------
(* A login and a rotation: request t leaves with a new pair, which is the  *)
(* current one of session s; the pair it replaces, if any, is the one the  *)
(* request came with.                                                      *)
Mints(t, s, q, new) ==
    /\ q \in SomeRequest /\ Stage(q) /\ q.at = tab[t].at /\ q.refresh = tab[t].refresh
    /\ q.cookies = "set" /\ q.minted = nextToken /\ q.sid = s
    /\ q.status \in {"none", "ok"} /\ (q.status = "ok" => q.kind # "logout")
    /\ new \in BrowserRow /\ new.st = "live" /\ new.cur = nextToken
    /\ new.refreshExpires <= now + RefreshTTL
    /\ \/ row[s].st = "none" /\ new.prev = 0
       \/ /\ row[s].st = "live" /\ row[s].cur = tab[t].refresh
          /\ new.prev = tab[t].refresh /\ new.rotatedAt = now

(* Such a step keeps the invariant: the old pair stays in jar and requests *)
(* only with the new one on its way, and nobody had the new one.           *)
LEMMA MintStep ==
    ASSUME BrowserInv, NEW t \in Tab, NEW s \in Sid, NEW q, NEW new, Mints(t, s, q, new),
           tab[t].pc # "idle", tab[t].cookies = "keep",
           tab' = [tab EXCEPT ![t] = q], row' = [row EXCEPT ![s] = new],
           nextToken' = nextToken + 1, UNCHANGED <<now, jar, faults>>
    PROVE  BrowserInv'
<1>1. /\ now \in Nat /\ jar.tok \in Nat /\ nextToken \in Nat /\ nextToken > 0
      /\ tab \in [Tab -> SomeRequest] /\ row \in [Sid -> BrowserRow]
      /\ \A p \in Tab : tab[p].refresh \in Nat /\ tab[p].minted \in Nat /\ tab[p].at \in Nat
      /\ \A r \in Sid : /\ row[r].cur \in Nat /\ row[r].prev \in Nat
                        /\ row[r].rotatedAt \in Nat /\ row[r].refreshExpires \in Nat
      /\ InTime(tab[t])
      /\ jar.tok < nextToken /\ \A p \in Tab : tab[p].refresh < nextToken
      /\ \A r \in Sid : row[r].cur < nextToken /\ row[r].prev < nextToken
      /\ \A r \in Sid : row[r].st = "live" => row[r].refreshExpires <= now + RefreshTTL
  BY DEF BrowserInv, Surfing, SomeRequest, BrowserRow, Staged, Drawn
<1>2. /\ tab'[t] = q /\ \A p \in Tab : p # t => tab'[p] = tab[p]
      /\ row'[s] = new /\ \A r \in Sid : r # s => row'[r] = row[r]
  BY <1>1
<1>3. /\ ~InFlight(t) /\ InFlight(t)'
      /\ \A p \in Tab : p # t => InFlight(p)' = InFlight(p)
  BY <1>2 DEF InFlight, Mints
<1>4. Surfing'
  BY <1>1 DEF BrowserInv, Surfing, Mints
<1>5. Staged'
  BY <1>1, <1>2 DEF BrowserInv, Staged, InTime, Mints
<1>6. new.prev < nextToken /\ new.prev \in Nat /\ new.rotatedAt \in Nat
  BY <1>1 DEF Mints, BrowserRow
<1>7. Drawn'
  BY <1>1, <1>2, <1>6 DEF Drawn, Mints
<1>8. InHands'
  <2>1. Carries(t)'
    <3>1. \A r \in Sid : row'[r].prev # nextToken
      BY <1>1, <1>2, <1>6
    <3>2. \A p \in Tab : tab'[p].refresh # nextToken
      BY <1>1, <1>2 DEF Mints
    <3>3. \A p \in Tab : p # t /\ InFlight(p) => tab[p].minted # nextToken
      BY <1>1 DEF BrowserInv, InHands, Carries
    <3>. QED
      BY <1>1, <1>2, <1>3, <3>1, <3>2, <3>3 DEF Carries, Mints
  <2>2. ASSUME NEW p \in Tab, p # t, InFlight(p) PROVE Carries(p)'
    <3>1. Carries(p) /\ tab'[p] = tab[p] /\ tab[p].minted # nextToken
      BY <1>1, <1>2, <2>2 DEF BrowserInv, InHands, Carries
    <3>2. tab[p].sid # s \/ row[tab[p].sid].st = "ended"
      BY <2>2, <3>1 DEF Carries, Mints
    <3>3. tab[p].sid # s
      BY <3>2 DEF Mints
    <3>4. \A r \in Sid : row'[r].prev # tab[p].minted
      BY <1>2, <2>2, <3>1 DEF Carries, Mints
    <3>5. \A r \in Tab : tab'[r].refresh # tab[p].minted
      BY <1>2, <2>2, <3>1 DEF Carries, Mints
    <3>6. \A r \in Tab : r # p /\ InFlight(r)' => tab'[r].minted # tab[p].minted
      BY <1>2, <1>3, <2>2, <3>1 DEF Carries, Mints
    <3>. QED
      BY <1>1, <1>2, <2>2, <3>1, <3>3, <3>4, <3>5, <3>6 DEF Carries
  <2>. QED
    BY <1>3, <2>1, <2>2 DEF InHands, Carries
<1>9. Told'
  <2>1. Done(t)'
    BY <1>2 DEF Mints, Done
  <2>2. ASSUME NEW p \in Tab, p # t PROVE Done(p)'
    <3>1. Done(p) /\ tab'[p] = tab[p] /\ Stage(tab[p])
      BY <1>2, <2>2 DEF BrowserInv, Told, Staged
    <3>2. Over(p) => Over(p)'
      BY <1>2, <3>1 DEF Over, Mints
    <3>3. tab[p].pc = "serve" => row'[tab[p].sid].st # "none"
      BY <1>2, <3>1 DEF Done, Stage, Mints
    <3>. QED
      BY <3>1, <3>2, <3>3 DEF Done
  <2>. QED
    BY <2>1, <2>2 DEF Told
<1>10. Overtaken'
  <2>1. SUFFICES ASSUME "lost" \notin faults, NEW r \in Sid, row'[r].st = "live", row'[r].prev > 0
                 PROVE  /\ jar.tok = row'[r].prev =>
                             \E p \in Tab : /\ InFlight(p)' /\ tab'[p].sid = r
                                            /\ tab'[p].minted = row'[r].cur
                                            /\ tab'[p].at <= row'[r].rotatedAt
                        /\ \A p \in Tab : tab'[p].refresh = row'[r].prev =>
                                              tab'[p].at <= row'[r].rotatedAt + Latency
    BY DEF Overtaken
  <2>2. CASE r = s
    <3>1. new.rotatedAt = now /\ new.cur = nextToken
      BY <1>2, <2>1, <2>2 DEF Mints
    <3>2. /\ tab'[t].sid = r /\ tab'[t].minted = row'[r].cur
          /\ tab'[t].at <= row'[r].rotatedAt
      BY <1>1, <1>2, <2>2, <3>1 DEF Mints, InTime
    <3>3. ASSUME NEW p \in Tab, tab'[p].refresh = row'[r].prev
          PROVE  tab'[p].at <= now
      <4>1. tab[p].refresh > 0 /\ tab[p].at = tab'[p].at
        BY <1>2, <2>1, <3>3 DEF Mints
      <4>. QED
        BY <4>1 DEF BrowserInv, Staged, Stage, InTime
    <3>4. \A p \in Tab : tab'[p].at \in Nat
      BY <1>1, <1>2 DEF Mints
    <3>. QED
      BY <1>1, <1>2, <1>3, <2>2, <3>1, <3>2, <3>3, <3>4
  <2>3. CASE r # s
    <3>1. row'[r] = row[r]
      BY <1>2, <2>3
    <3>2. /\ jar.tok = row[r].prev =>
                \E p \in Tab : /\ InFlight(p) /\ tab[p].sid = r
                               /\ tab[p].minted = row[r].cur /\ tab[p].at <= row[r].rotatedAt
          /\ \A p \in Tab : tab[p].refresh = row[r].prev => tab[p].at <= row[r].rotatedAt + Latency
      BY <2>1, <3>1 DEF BrowserInv, Overtaken
    <3>3. \A p \in Tab : tab'[p].refresh = tab[p].refresh /\ tab'[p].at = tab[p].at
      BY <1>2 DEF Mints
    <3>. QED
      BY <1>2, <1>3, <3>1, <3>2, <3>3
  <2>. QED
    BY <2>2, <2>3
<1>11. HonestNeverReused'
  BY <1>1, <1>2 DEF BrowserInv, HonestNeverReused, Mints
<1>12. IsFiniteSet(Used)'
  <2>1. Used' = Used \cup {s}
    BY <1>2 DEF Used, Mints
  <2>. QED
    BY <2>1, FS_AddElement DEF BrowserInv
<1>13. Kept'
  <2>1. SUFFICES ASSUME faults \subseteq {"failed"}, Single', NEW r \in Sid, row'[r].st = "live"
                 PROVE  \E p \in Tab : /\ InFlight(p)' /\ tab'[p].sid = r
                                       /\ tab'[p].minted = row'[r].cur
    BY DEF Kept
  <2>2. r = s
    BY <1>2, <2>1 DEF Single, Mints
  <2>. QED
    BY <1>2, <1>3, <2>2 DEF Mints
<1>. QED
  BY <1>4, <1>5, <1>7, <1>8, <1>9, <1>10, <1>11, <1>12, <1>13 DEF BrowserInv

(* The two steps that mint are of that kind.                               *)
LEMMA LoginStep ==
    ASSUME BrowserInv, NEW t \in Tab, NEW s \in Sid, Login(t, s) PROVE BrowserInv'
<1>. DEFINE q == [WithAnswer(t, "ok") EXCEPT !.sid = s, !.cookies = "set",
                                                   !.minted = nextToken]
            new == Born(nextToken, now)
<1>1. /\ tab[t] \in SomeRequest /\ tab[t].pc = "login" /\ Stage(tab[t])
      /\ row[s].st = "none" /\ now \in Nat /\ nextToken \in Nat
  BY DEF Login, BrowserInv, Surfing, Staged
<1>2. /\ q \in SomeRequest /\ Stage(q) /\ q.at = tab[t].at /\ q.refresh = tab[t].refresh
      /\ q.cookies = "set" /\ q.minted = nextToken /\ q.sid = s
      /\ q.status = "ok" /\ q.kind # "logout"
  BY <1>1 DEF WithAnswer, SomeRequest, Stage, Status
<1>3. /\ new \in BrowserRow /\ new.st = "live" /\ new.cur = nextToken
      /\ new.refreshExpires <= now + RefreshTTL /\ new.prev = 0
  BY <1>1 DEF Born, BrowserRow, NoToken
<1>4. tab[t].pc # "idle" /\ tab[t].cookies = "keep"
  BY <1>1 DEF Stage
<1>5. /\ tab' = [tab EXCEPT ![t] = q] /\ row' = [row EXCEPT ![s] = new]
      /\ nextToken' = nextToken + 1 /\ UNCHANGED <<now, jar, faults>>
  BY DEF Login
<1>. HIDE DEF q, new
<1>6. Mints(t, s, q, new)
  BY <1>1, <1>2, <1>3 DEF Mints
<1>. QED
  BY <1>4, <1>5, <1>6, MintStep

LEMMA RotateStep == ASSUME BrowserInv, NEW t \in Tab, Rotate(t) PROVE BrowserInv'
<1>1. PICK s \in WithCurrent(tab[t].refresh) :
        LET carried == [tab[t] EXCEPT !.sid = s, !.seen = row[s].lastActive,
                            !.cookies = "set", !.minted = nextToken, !.access = nextToken]
        IN /\ row' = [row EXCEPT ![s] = Rotated(row[s], nextToken, now)]
           /\ tab' = [tab EXCEPT ![t] =
                IF tab[t].kind = "refresh"
                THEN [carried EXCEPT !.pc = "answered", !.status = "ok"]
                ELSE [carried EXCEPT !.pc = "serve"]]
  BY DEF Rotate
<1>. DEFINE carried == [tab[t] EXCEPT !.sid = s, !.seen = row[s].lastActive,
                            !.cookies = "set", !.minted = nextToken, !.access = nextToken]
            q == IF tab[t].kind = "refresh"
                 THEN [carried EXCEPT !.pc = "answered", !.status = "ok"]
                 ELSE [carried EXCEPT !.pc = "serve"]
            new == Rotated(row[s], nextToken, now)
<1>2. /\ tab[t] \in SomeRequest /\ tab[t].pc = "refresh" /\ Stage(tab[t])
      /\ s \in Sid /\ row[s] \in BrowserRow /\ row[s].st = "live"
      /\ row[s].cur = tab[t].refresh /\ now \in Nat /\ nextToken \in Nat
      /\ row[s].refreshExpires <= now + RefreshTTL
  BY DEF Rotate, WithCurrent, BrowserInv, Surfing, Staged, Drawn
<1>3. /\ q \in SomeRequest /\ Stage(q) /\ q.at = tab[t].at /\ q.refresh = tab[t].refresh
      /\ q.cookies = "set" /\ q.minted = nextToken /\ q.sid = s
      /\ q.status \in {"none", "ok"} /\ (q.status = "ok" => q.kind # "logout")
  BY <1>2 DEF SomeRequest, BrowserRow, Stage, Status
<1>4. /\ new \in BrowserRow /\ new.st = "live" /\ new.cur = nextToken
      /\ new.refreshExpires <= now + RefreshTTL
      /\ new.prev = tab[t].refresh /\ new.rotatedAt = now
  <2>1. now + Duration \in Nat
    BY <1>2
  <2>2. new \in BrowserRow
    BY <1>2, <2>1 DEF Rotated, BrowserRow
  <2>3. /\ new.st = row[s].st /\ new.cur = nextToken /\ new.prev = row[s].cur
        /\ new.refreshExpires = row[s].refreshExpires /\ new.rotatedAt = now
    BY <1>2 DEF Rotated, BrowserRow
  <2>. HIDE DEF new
  <2>. QED
    BY <1>2, <2>2, <2>3
<1>5. tab[t].pc # "idle" /\ tab[t].cookies = "keep"
  BY <1>2 DEF Stage
<1>6. /\ tab' = [tab EXCEPT ![t] = q] /\ row' = [row EXCEPT ![s] = new]
      /\ nextToken' = nextToken + 1 /\ UNCHANGED <<now, jar, faults>>
  BY <1>1 DEF Rotate
<1>. HIDE DEF q, new
<1>7. Mints(t, s, q, new)
  BY <1>2, <1>3, <1>4 DEF Mints
<1>. QED
  BY <1>2, <1>5, <1>6, <1>7, MintStep

-----------------------------------------------------------------------------
(* BrowserInv is inductive, so it holds of every behaviour.                *)
LEMMA BrowserInitial == BrowserInit => BrowserInv
<1>. SUFFICES ASSUME BrowserInit PROVE BrowserInv
  OBVIOUS
<1>1. /\ NoRow \in BrowserRow /\ NoRow.st = "none"
      /\ NoRow.cur = 0 /\ NoRow.prev = 0
  BY DEF NoRow, NoToken, BrowserRow
<1>2. /\ now = 0 /\ row = [s \in Sid |-> NoRow] /\ tab = [t \in Tab |-> Idle]
      /\ nextToken = 1 /\ faults = {}
      /\ jar \in [tok : Nat, accessUntil : Nat, refreshUntil : Nat] /\ jar.tok = 0
  BY DEF BrowserInit, EmptyJar, NoToken
<1>3. Used = {}
  BY <1>1, <1>2 DEF Used
<1>4. Surfing /\ Staged /\ Drawn
  BY <1>1, <1>2, IdleIsBlank DEF Surfing, Staged, Drawn
<1>5. InHands /\ Told /\ HonestNeverReused
  BY <1>2, IdleIsBlank DEF InHands, Carries, InFlight, Told, Done, HonestNeverReused
<1>6. Overtaken /\ Kept
  BY <1>1, <1>2 DEF Overtaken, Kept
<1>. QED
  BY <1>3, <1>4, <1>5, <1>6, FS_EmptySet DEF BrowserInv

LEMMA BrowserStep == BrowserInv /\ [BrowserNext]_browserVars => BrowserInv'
<1>. SUFFICES ASSUME BrowserInv, [BrowserNext]_browserVars PROVE BrowserInv'
  OBVIOUS
<1>1. CASE UNCHANGED browserVars
  BY <1>1 DEF browserVars, BrowserInv, Surfing, Staged, InTime, Drawn, InHands, Carries, InFlight,
     Told, Done, Over, Overtaken, HonestNeverReused, Kept, Single, Used
<1>2. CASE BrowserNext
  BY <1>2, SendStep, LoginStep, AuthenticateStep, RotateStep, RefuseStep, FailStep,
     ServePageStep, ServeLogoutStep, ReceiveStep, LoseStep, BrowserRevokeStep, BrowserTickStep
     DEF BrowserNext
<1>. QED
  BY <1>1, <1>2

LEMMA BrowserInvariant == BrowserSpec => []BrowserInv
BY BrowserInitial, BrowserStep, PTL DEF BrowserSpec

(* A logout that was answered "ok" has ended its session, whatever other   *)
(* tabs rotated while it ran: Logout revokes by the session's id.          *)
THEOREM LogoutIsFinal == BrowserSpec => []LogoutEnds
<1>1. BrowserInv => LogoutEnds
  BY DEF BrowserInv, Told, Done, Over, LogoutEnds
<1>. QED
  BY BrowserInvariant, <1>1, PTL

(* With a grace window longer than two flights, and as long as no response *)
(* is lost, no race of the tabs makes RefreshSession report a theft.       *)
THEOREM HonestBrowsers == BrowserSpec => []HonestNeverReused
<1>1. BrowserInv => HonestNeverReused
  BY DEF BrowserInv
<1>. QED
  BY BrowserInvariant, <1>1, PTL

(* The one session of a browser: of two sessions there would be two.       *)
LEMMA OneLoginSingle == ASSUME BrowserInv, OneLogin PROVE Single
<1>1. IsFiniteSet(Used) /\ Cardinality(Used) = 1
  BY DEF BrowserInv, OneLogin, Used
<1>2. \E x : Used = {x}
  BY <1>1, FS_Singleton
<1>. QED
  BY <1>2 DEF Single, Used

(* As long as no response is lost and no POST /auth/refresh is refused,    *)
(* the browser holds, or is about to receive, the pair that renews its     *)
(* session: neither racing tabs nor backend failures strand a login.       *)
THEOREM LoginsSurvive == BrowserSpec => []LoginSurvives
<1>1. BrowserInv => LoginSurvives
  <2> SUFFICES ASSUME BrowserInv, faults \subseteq {"failed"}, OneLogin,
                      NEW s \in Sid, Renewable(s)
               PROVE  InHand(s)
    BY DEF LoginSurvives
  <2>1. row[s].st = "live" /\ now < row[s].refreshExpires /\ now \in Nat
        /\ row[s].refreshExpires \in Nat /\ jar.refreshUntil \in Nat
    BY DEF Renewable, Rotatable, BrowserInv, Surfing, BrowserRow
  <2>2. \/ jar.tok = row[s].cur /\ row[s].refreshExpires <= jar.refreshUntil
        \/ \E t \in Tab : InFlight(t) /\ tab[t].sid = s /\ tab[t].minted = row[s].cur
    BY <2>1, OneLoginSingle DEF BrowserInv, Kept
  <2>. QED
    BY <2>1, <2>2 DEF InHand, InFlight
<1>. QED
  BY BrowserInvariant, <1>1, PTL

-----------------------------------------------------------------------------
(***************************************************************************)
(* SnapshotCache implements AtomicReads, for any number of readers, rows,  *)
(* versions and changes of the user.  A version is drawn once and names    *)
(* one state of each row it was given to: whatever the row, the cache or a *)
(* reader's answer says under a version is what was written under it.  So  *)
(* a reader that has located a version has seen its answer already.        *)
(***************************************************************************)
Answers == [id : Nat, data : Data, user : Nat]
Reading == [pc : {"idle", "asked", "located", "filled", "told"},
            q : Questions \cup {None}, id : Nat, ver : Nat, user : Nat,
            out : Answers \cup {None}]

CacheTyped ==
    /\ data \in [Ids -> Data] /\ version \in [Ids -> Versions]
    /\ user \in 0..MaxUser /\ next \in Nat \ {0}
    /\ reader \in [Reader -> Reading]

(* A row still is what was written with its version.                       *)
RowsTrue ==
    \A i \in Ids : /\ version[i] < next
                   /\ data[i].st = "live" => data[i] = written[<<i, version[i]>>]

(* An entry that verifies is what was written under its key.               *)
EntryTrue(k) ==
    /\ k \in Keys /\ k[2] < next
    /\ cache[k] # Bad => cache[k] \in Live /\ cache[k] = written[k]
EntriesTrue == \A k \in DOMAIN cache : EntryTrue(k)

(* A reader holds a version drawn before, and what it will cache under     *)
(* that version is what was written under it.                              *)
ReaderTrue(x) ==
    /\ x.pc = "idle" => x.q = None
    /\ x.pc # "idle" => x.q \in Questions
    /\ x.pc = "located" =>
         x.id \in Ids /\ x.ver \in Versions /\ x.ver < next
    /\ x.pc = "filled" =>
         /\ x.out.id \in Ids /\ x.ver \in Versions /\ x.ver < next
         /\ x.out.data \in Live
         /\ x.out.data = written[<<x.out.id, x.ver>>]
ReadersTrue == \A r \in Reader : ReaderTrue(reader[r])

CacheInv == CacheTyped /\ RowsTrue /\ EntriesTrue /\ ReadersTrue

USE CacheAssumption
-----------------------------------------------------------------------------
(* A nonempty set of row ids has a greatest one: the row Found chooses.    *)
LEMMA Greatest ==
    ASSUME NEW n \in Nat, NEW T \in SUBSET (1..n), T # {}
    PROVE  \E m \in T : \A i \in T : i <= m
<1>. DEFINE U == {u \in Nat : \E i \in T : u = n - i}
<1>1. U \subseteq Nat
  OBVIOUS
<1>2. U # {}
  <2>1. PICK i \in T : TRUE
    OBVIOUS
  <2>2. n - i \in Nat
    BY <2>1
  <2>. QED
    BY <2>2
<1>3. PICK u \in U : \A v \in U : <<v, u>> \notin OpToRel(<, Nat)
  BY <1>1, <1>2, WFMin, NatLessThanWellFounded, Zenon
<1>4. \A v \in U : ~(v < u)
  BY <1>1, <1>3, Zenon DEF OpToRel
<1>5. PICK m \in T : u = n - m
  OBVIOUS
<1>6. ASSUME NEW i \in T PROVE i <= m
  <2>1. n - i \in U
    OBVIOUS
  <2>2. ~(n - i < n - m)
    BY <1>4, <1>5, <2>1, Zenon
  <2>3. i \in Nat /\ m \in Nat
    OBVIOUS
  <2>. QED
    BY <2>2, <2>3
<1>. QED
  BY <1>6

(* What one statement finds: nothing, or a live row and the user beside it.*)
LEMMA LookupFinds ==
    ASSUME CacheTyped, NEW q \in Questions
    PROVE  LET found == Lookup(tables, q)
           IN  /\ found \in Answers
               /\ found # Missing =>
                    /\ found.id \in Ids /\ data[found.id].st = "live"
                    /\ found = [id |-> found.id, data |-> data[found.id], user |-> found.user]
<1>. DEFINE M == Matches(data, q)
<1>1. tables[1] = data /\ tables[2] = user
  BY DEF tables
<1>2. CASE M = {}
  BY <1>1, <1>2 DEF Lookup, Missing, Answers, Data
<1>3. CASE M # {}
  <2>. DEFINE i == Found(data, q)
              u == IF q.joined THEN user ELSE 0
  <2>1. M \in SUBSET (1..Rows) /\ Rows \in Nat
    BY DEF Matches, Ids
  <2>2. i \in M
    <3>1. \E j \in M : \A k \in M : k <= j
      BY <1>3, <2>1, Greatest
    <3>. QED
      BY <3>1, Zenon DEF Found
  <2>3. i \in Ids /\ data[i].st = "live"
    BY <2>2 DEF Matches
  <2>4. Lookup(tables, q) = [id |-> i, data |-> data[i], user |-> u]
    BY <1>1, <1>3, Zenon DEF Lookup
  <2>5. i \in Nat /\ data[i] \in Data /\ u \in Nat
    BY <2>3 DEF CacheTyped, Ids
  <2>. HIDE DEF i, u
  <2>. QED
    BY <2>3, <2>4, <2>5 DEF Answers
<1>. QED
  BY <1>2, <1>3

LEMMA LiveTyped ==
    ASSUME CacheTyped, NEW i \in Ids, data[i].st = "live" PROVE data[i] \in Live
BY DEF CacheTyped, Data, None

LEMMA Distinct ==
    /\ None \notin Questions /\ Missing # None /\ Missing \in Answers
    /\ Bad \notin Live /\ Resting \in Reading /\ Resting.pc = "idle" /\ Resting.q = None
<1>1. None \notin Questions
  BY DEF None, Questions
<1>2. Missing # None
  BY DEF None, Missing
<1>3. Missing \in Answers
  BY DEF Missing, Answers, Data
<1>4. Bad \notin Live
  BY DEF Bad, Live
<1>5. Resting \in Reading /\ Resting.pc = "idle" /\ Resting.q = None
  BY DEF Resting, Reading, Legacy
<1>. QED
  BY <1>1, <1>2, <1>3, <1>4, <1>5

-----------------------------------------------------------------------------
(* An UPDATE gives the rows it touches a version never drawn before, so    *)
(* nothing that was written under an earlier version changes.              *)
LEMMA VersionedStep ==
    ASSUME CacheInv, NEW S \in SUBSET Ids, NEW d \in [Ids -> Data],
           \A i \in Ids \ S : d[i] = data[i],
           Versioned(S, d), UNCHANGED <<user, cache, reader>>
    PROVE  CacheInv'
<1>1. /\ data' = d /\ next' = next + 1 /\ next \in Versions /\ next # Legacy
      /\ version' = [i \in Ids |-> IF i \in S THEN next ELSE version[i]]
  BY DEF Versioned, CacheInv, CacheTyped, Versions, Legacy
<1>2. \A k \in Keys : /\ k[2] < next => written'[k] = written[k]
                      /\ k[1] \in S /\ k[2] = next => written'[k] = d[k[1]]
  <2>1. next \in Nat /\ \A k \in Keys : k[2] \in Nat
    BY DEF CacheInv, CacheTyped, Keys, Versions
  <2>2. written' = [k \in Keys |-> IF k[1] \in S /\ k[2] = next THEN d[k[1]] ELSE written[k]]
    BY DEF Versioned
  <2>. QED
    BY <2>1, <2>2
<1>3. \A i \in Ids, v \in Versions : <<i, v>> \in Keys /\ <<i, v>>[1] = i /\ <<i, v>>[2] = v
  BY DEF Keys
<1>4. CacheTyped'
  BY <1>1 DEF CacheInv, CacheTyped
<1>5. RowsTrue'
  <2>. SUFFICES ASSUME NEW i \in Ids
                PROVE  /\ version'[i] < next'
                       /\ data'[i].st = "live" => data'[i] = written'[<<i, version'[i]>>]
    BY DEF RowsTrue
  <2>0. next \in Nat /\ version[i] \in Versions /\ version[i] \in Nat
    BY DEF CacheInv, CacheTyped, Versions
  <2>1. CASE i \in S
    <3>1. version'[i] = next /\ data'[i] = d[i] /\ written'[<<i, next>>] = d[i]
      BY <1>1, <1>2, <1>3, <2>1
    <3>. QED
      BY <1>1, <2>0, <3>1
  <2>2. CASE i \notin S
    <3>1. version'[i] = version[i] /\ data'[i] = data[i]
      BY <1>1, <2>2
    <3>2. version[i] < next /\ (data[i].st = "live" => data[i] = written[<<i, version[i]>>])
      BY DEF CacheInv, RowsTrue
    <3>3. written'[<<i, version[i]>>] = written[<<i, version[i]>>]
      BY <1>2, <1>3, <2>0, <3>2
    <3>. QED
      BY <1>1, <2>0, <3>1, <3>2, <3>3
  <2>. QED
    BY <2>1, <2>2
<1>6. EntriesTrue'
  <2>. SUFFICES ASSUME NEW k \in DOMAIN cache PROVE EntryTrue(k)'
    BY DEF EntriesTrue
  <2>1. EntryTrue(k) /\ next \in Nat
    BY DEF CacheInv, CacheTyped, EntriesTrue
  <2>2. k \in Keys /\ k[2] < next /\ k[2] \in Nat
    BY <2>1 DEF EntryTrue, Keys, Versions
  <2>. QED
    BY <1>1, <1>2, <2>1, <2>2 DEF EntryTrue
<1>7. ReadersTrue'
  <2>. SUFFICES ASSUME NEW r \in Reader PROVE ReaderTrue(reader[r])'
    BY DEF ReadersTrue
  <2>1. ReaderTrue(reader[r]) /\ next \in Nat
    BY DEF CacheInv, CacheTyped, ReadersTrue
  <2>2. \A i \in Ids, v \in Versions : v < next =>
          v < next' /\ written'[<<i, v>>] = written[<<i, v>>]
    BY <1>1, <1>2, <1>3, <2>1 DEF Versions
  <2>. QED
    BY <2>1, <2>2 DEF ReaderTrue
<1>. QED
  BY <1>4, <1>5, <1>6, <1>7 DEF CacheInv

LEMMA WriteStep == ASSUME CacheInv, Write PROVE CacheInv'
<1>0. data \in [Ids -> Data] /\ next \in Nat
  BY DEF CacheInv, CacheTyped
<1>1. ASSUME NEW i \in Ids, Insert(i) PROVE CacheInv'
  <2>. DEFINE x == [st |-> "live", hash |-> i, rev |-> 0]
  <2>1. x \in Data
    BY DEF Data, Live, Ids
  <2>. HIDE DEF x
  <2>2. [data EXCEPT ![i] = x] \in [Ids -> Data]
    BY <1>0, <2>1
  <2>3. Versioned({i}, [data EXCEPT ![i] = x]) /\ UNCHANGED <<user, cache, reader>>
    BY <1>1 DEF Insert, x
  <2>. QED
    BY <1>0, <2>2, <2>3, VersionedStep
<1>2. ASSUME NEW i \in Ids, Rehash(i) PROVE CacheInv'
  <2>. DEFINE x == [data[i] EXCEPT !.hash = Rows + next]
  <2>1. data[i] \in Live /\ Rows + next \in Nat
    BY <1>0, <1>2, LiveTyped DEF Rehash, CacheInv
  <2>2. x \in Data
    BY <2>1 DEF Data, Live
  <2>3. Versioned({i}, [data EXCEPT ![i] = x]) /\ UNCHANGED <<user, cache, reader>>
    BY <1>2 DEF Rehash
  <2>. HIDE DEF x
  <2>4. [data EXCEPT ![i] = x] \in [Ids -> Data]
    BY <1>0, <2>2
  <2>. QED
    BY <1>0, <2>3, <2>4, VersionedStep
<1>3. ASSUME NEW S \in SUBSET Ids, Revise(S) PROVE CacheInv'
  <2>. DEFINE x(i) == [data[i] EXCEPT !.rev = @ + 1]
              d == [i \in Ids |-> IF i \in S THEN x(i) ELSE data[i]]
  <2>1. ASSUME NEW i \in S PROVE x(i) \in Data
    <3>1. data[i] \in Live
      BY <1>3, LiveTyped DEF Revise, CacheInv
    <3>. QED
      BY <3>1 DEF Data, Live
  <2>2. Versioned(S, d) /\ UNCHANGED <<user, cache, reader>>
    BY <1>3 DEF Revise
  <2>. HIDE DEF x
  <2>3. d \in [Ids -> Data] /\ \A i \in Ids \ S : d[i] = data[i]
    BY <1>0, <2>1
  <2>. HIDE DEF d
  <2>. QED
    BY <2>2, <2>3, VersionedStep
<1>4. ASSUME NEW revoke \in BOOLEAN, ChangeUser(revoke) PROVE CacheInv'
  <2>1. UNCHANGED <<version, next, cache, reader, written>>
    BY <1>4 DEF ChangeUser
  <2>2. /\ data' \in [Ids -> Data]
        /\ \A i \in Ids : data'[i].st = "live" => data'[i] = data[i]
    BY <1>0, <1>4 DEF ChangeUser, Data
  <2>3. user' \in 0..MaxUser
    BY <1>4 DEF ChangeUser, CacheInv, CacheTyped
  <2>4. CacheTyped' /\ RowsTrue'
    BY <2>1, <2>2, <2>3 DEF CacheInv, CacheTyped, RowsTrue
  <2>5. EntriesTrue' /\ ReadersTrue'
    BY <2>1 DEF CacheInv, EntriesTrue, EntryTrue, ReadersTrue, ReaderTrue
  <2>. QED
    BY <2>4, <2>5 DEF CacheInv
<1>. QED
  BY <1>1, <1>2, <1>3, <1>4 DEF Write

-----------------------------------------------------------------------------
(* A reader moves to a true state and the tables stay.                     *)
LEMMA ReaderMoves ==
    ASSUME CacheInv, NEW r \in Reader, NEW x \in Reading, ReaderTrue(x),
           reader' = [reader EXCEPT ![r] = x],
           UNCHANGED <<data, version, user, next, cache, written>>
    PROVE  CacheInv'
<1>1. CacheTyped' /\ RowsTrue'
  BY DEF CacheInv, CacheTyped, RowsTrue
<1>2. EntriesTrue'
  BY DEF CacheInv, EntriesTrue, EntryTrue
<1>3. ReadersTrue'
  <2>. SUFFICES ASSUME NEW v \in Reader PROVE ReaderTrue(reader[v])'
    BY DEF ReadersTrue
  <2>1. ReaderTrue(reader[v]) /\ reader'[v] = IF v = r THEN x ELSE reader[v]
    BY DEF CacheInv, CacheTyped, ReadersTrue
  <2>. QED
    BY <2>1 DEF ReaderTrue
<1>. QED
  BY <1>1, <1>2, <1>3 DEF CacheInv

(* The steps of one reader under the mapping.                              *)
LEMMA Mapped ==
    ASSUME reader \in [Reader -> Reading], NEW r \in Reader, NEW x \in Reading,
           reader' = [reader EXCEPT ![r] = x], UNCHANGED <<data, user, written>>
    PROVE  /\ reader[r].q \in Questions /\ x.q = reader[r].q
                /\ Seen(r)' = Lookup(tables, reader[r].q) => Atomic!Look(r)
           /\ x.q = reader[r].q /\ Seen(r)' = Seen(r) => UNCHANGED Atomic!vars
           /\ reader[r].q \in Questions /\ x = Resting => Atomic!Refuse(r)
           /\ \A q \in Questions :
                reader[r].q = None /\ x.q = q /\ x.pc = "asked" => Atomic!Ask(r, q)
<1>. DEFINE A == [v \in Reader |-> reader[v].q]
            S == [v \in Reader |-> Seen(v)]
<1>1. reader'[r] = x /\ \A v \in Reader : v # r => reader'[v] = reader[v]
  OBVIOUS
<1>2. \A v \in Reader : v # r => Seen(v)' = Seen(v)
  BY <1>1 DEF Seen
<1>3. A' = [A EXCEPT ![r] = x.q] /\ S' = [S EXCEPT ![r] = Seen(r)']
  BY <1>1, <1>2
<1>4. tables' = tables /\ A[r] = reader[r].q /\ S[r] = Seen(r)
  BY DEF tables
<1>5. ASSUME reader[r].q \in Questions, x.q = reader[r].q,
             Seen(r)' = Lookup(tables, reader[r].q)
      PROVE  Atomic!Look(r)
  <2>1. A' = A /\ S' = [S EXCEPT ![r] = Lookup(tables, A[r])] /\ A[r] # None
    BY <1>3, <1>4, <1>5, Distinct
  <2>. QED
    BY <1>4, <2>1 DEF Atomic!Look
<1>6. ASSUME x.q = reader[r].q, Seen(r)' = Seen(r) PROVE UNCHANGED Atomic!vars
  <2>1. A' = A /\ S' = S
    BY <1>3, <1>4, <1>6
  <2>. QED
    BY <1>4, <2>1 DEF Atomic!vars
<1>7. ASSUME reader[r].q \in Questions, x = Resting PROVE Atomic!Refuse(r)
  <2>1. x.q = None /\ Seen(r)' = None
    BY <1>1, <1>7, Distinct DEF Seen
  <2>2. A' = [A EXCEPT ![r] = None] /\ S' = [S EXCEPT ![r] = None] /\ A[r] # None
    BY <1>3, <1>4, <1>7, <2>1, Distinct
  <2>. QED
    BY <1>4, <2>2 DEF Atomic!Refuse
<1>8. ASSUME NEW q \in Questions, reader[r].q = None, x.q = q, x.pc = "asked"
      PROVE  Atomic!Ask(r, q)
  <2>1. Seen(r)' = None
    BY <1>1, <1>8 DEF Seen
  <2>2. A' = [A EXCEPT ![r] = q] /\ S' = [S EXCEPT ![r] = None] /\ A[r] = None
    BY <1>3, <1>4, <1>8, <2>1
  <2>. QED
    BY <1>4, <2>2 DEF Atomic!Ask
<1>. QED
  BY <1>5, <1>6, <1>7, <1>8

LEMMA ReaderFacts ==
    ASSUME CacheInv, NEW r \in Reader
    PROVE  /\ reader[r] \in Reading /\ ReaderTrue(reader[r])
           /\ reader \in [Reader -> Reading] /\ CacheTyped
BY DEF CacheInv, CacheTyped, ReadersTrue

LEMMA AskStep ==
    ASSUME CacheInv, NEW r \in Reader, NEW q \in Questions, Ask(r, q)
    PROVE  CacheInv' /\ Atomic!Ask(r, q)
<1>. DEFINE x == [Resting EXCEPT !.pc = "asked", !.q = q]
<1>1. x \in Reading
  BY Distinct DEF Reading
<1>2. x.pc = "asked" /\ x.q = q
  BY Distinct DEF Reading
<1>3. /\ reader[r].pc = "idle" /\ reader' = [reader EXCEPT ![r] = x]
      /\ UNCHANGED <<data, version, user, next, cache, written>>
  BY DEF Ask
<1>. HIDE DEF x
<1>4. reader[r].q = None
  BY <1>3, ReaderFacts DEF ReaderTrue
<1>5. ReaderTrue(x)
  BY <1>2 DEF ReaderTrue
<1>. QED
  BY <1>1, <1>2, <1>3, <1>4, <1>5, ReaderFacts, ReaderMoves, Mapped

LEMMA EndStep ==
    ASSUME CacheInv, NEW r \in Reader, Return(r) \/ ReadFails(r)
    PROVE  CacheInv' /\ Atomic!Refuse(r)
<1>1. /\ reader[r].pc # "idle" /\ reader' = [reader EXCEPT ![r] = Resting]
      /\ UNCHANGED <<data, version, user, next, cache, written>>
  BY DEF Return, ReadFails
<1>2. reader[r].q \in Questions
  BY <1>1, ReaderFacts DEF ReaderTrue
<1>3. ReaderTrue(Resting) /\ Resting \in Reading
  BY Distinct DEF ReaderTrue
<1>. QED
  BY <1>1, <1>2, <1>3, ReaderFacts, ReaderMoves, Mapped

(* One statement is one look.                                              *)
LEMMA ReadDirectStep ==
    ASSUME CacheInv, NEW r \in Reader, ReadDirect(r)
    PROVE  CacheInv' /\ Atomic!Look(r)
<1>. DEFINE found == Lookup(tables, reader[r].q)
            x == [reader[r] EXCEPT !.pc = "told", !.out = found]
<1>1. /\ reader[r].pc = "asked" /\ reader' = [reader EXCEPT ![r] = x]
      /\ UNCHANGED <<data, version, user, next, cache, written>>
  BY ReaderFacts DEF ReadDirect
<1>2. reader[r].q \in Questions
  BY <1>1, ReaderFacts DEF ReaderTrue
<1>3. found \in Answers
  BY <1>2, LookupFinds, ReaderFacts
<1>. HIDE DEF found
<1>4. x \in Reading
  BY <1>3, ReaderFacts DEF Reading
<1>5. x.pc = "told" /\ x.out = found /\ x.q = reader[r].q
  BY ReaderFacts DEF Reading
<1>. HIDE DEF x
<1>6. ReaderTrue(x)
  BY <1>2, <1>5 DEF ReaderTrue
<1>7. Seen(r)' = found
  BY <1>1, <1>5, ReaderFacts DEF Seen
<1>. QED
  BY <1>1, <1>2, <1>4, <1>5, <1>6, <1>7, ReaderFacts, ReaderMoves, Mapped DEF found

(* A reader that locates a version has seen what was written under it; one *)
(* that finds a row older than the cache has still to look.                *)
LEMMA LocateStep ==
    ASSUME CacheInv, NEW r \in Reader, Locate(r)
    PROVE  CacheInv' /\ (Atomic!Look(r) \/ UNCHANGED Atomic!vars)
<1>. DEFINE found == Lookup(tables, reader[r].q)
<1>1. /\ reader[r].pc = "asked"
      /\ UNCHANGED <<data, version, user, next, cache, written>>
  BY DEF Locate
<1>2. reader[r].q \in Questions
  BY <1>1, ReaderFacts DEF ReaderTrue
<1>3. /\ found \in Answers
      /\ found # Missing =>
            /\ found.id \in Ids /\ data[found.id].st = "live"
            /\ found = [id |-> found.id, data |-> data[found.id], user |-> found.user]
  BY <1>2, LookupFinds, ReaderFacts
<1>4. CASE found = Missing
  <2>. DEFINE x == [reader[r] EXCEPT !.pc = "told", !.out = Missing]
  <2>1. reader' = [reader EXCEPT ![r] = x]
    BY <1>4, ReaderFacts DEF Locate
  <2>2. x \in Reading
    BY ReaderFacts, Distinct DEF Reading
  <2>3. x.pc = "told" /\ x.out = Missing /\ x.q = reader[r].q
    BY ReaderFacts DEF Reading
  <2>. HIDE DEF x
  <2>4. ReaderTrue(x)
    BY <1>2, <2>3 DEF ReaderTrue
  <2>5. Seen(r)' = found
    BY <1>4, <2>1, <2>3, ReaderFacts DEF Seen
  <2>. QED
    BY <1>1, <1>2, <2>1, <2>2, <2>3, <2>4, <2>5, ReaderFacts, ReaderMoves, Mapped
<1>5. CASE found # Missing
  <2>. DEFINE ver == version[found.id]
              x == [reader[r] EXCEPT !.pc = "located", !.id = found.id,
                                     !.ver = version[found.id], !.user = found.user]
  <2>1. reader' = [reader EXCEPT ![r] = x]
    BY <1>5, ReaderFacts DEF Locate
  <2>2. /\ found.id \in Nat /\ found.user \in Nat /\ ver \in Versions /\ ver \in Nat
        /\ ver < next /\ data[found.id] = written[<<found.id, ver>>]
    BY <1>3, <1>5 DEF Answers, CacheInv, CacheTyped, RowsTrue, Versions
  <2>. HIDE DEF found
  <2>3. x \in Reading
    BY <2>2, ReaderFacts DEF Reading
  <2>4. x.pc = "located" /\ x.id = found.id /\ x.ver = ver /\ x.user = found.user
    BY ReaderFacts DEF Reading
  <2>5. x.q = reader[r].q
    BY ReaderFacts DEF Reading
  <2>. HIDE DEF x
  <2>6. ReaderTrue(x)
    BY <1>2, <1>3, <1>5, <2>2, <2>4, <2>5 DEF ReaderTrue
  <2>7. Seen(r) = None
    BY <1>1 DEF Seen
  <2>8. ver # Legacy => Seen(r)' = found
    <3>1. reader'[r] = x /\ written' = written
      BY <1>1, <2>1, ReaderFacts
    <3>2. ver # Legacy => Seen(r)' =
            [id |-> found.id, data |-> written[<<found.id, ver>>], user |-> found.user]
      BY <2>4, <3>1 DEF Seen
    <3>. QED
      BY <1>3, <1>5, <2>2, <3>2, Zenon
  <2>9. ver = Legacy => Seen(r)' = Seen(r)
    BY <2>1, <2>4, <2>7, ReaderFacts DEF Seen
  <2>. QED
    BY <1>1, <1>2, <2>1, <2>3, <2>5, <2>6, <2>8, <2>9, ReaderFacts, ReaderMoves, Mapped
    DEF found
<1>. QED
  BY <1>4, <1>5

(* The cache can only answer what the reader has seen already.             *)
LEMMA HitStep ==
    ASSUME CacheInv, NEW r \in Reader, Hit(r)
    PROVE  CacheInv' /\ UNCHANGED Atomic!vars
<1>. DEFINE k == <<reader[r].id, reader[r].ver>>
            answer == [id |-> reader[r].id, data |-> cache[k], user |-> reader[r].user]
            x == [reader[r] EXCEPT !.pc = "told", !.out = answer]
<1>1. /\ reader[r].pc = "located" /\ reader[r].ver # Legacy
      /\ k \in DOMAIN cache /\ cache[k] # Bad
      /\ reader' = [reader EXCEPT ![r] = x]
      /\ UNCHANGED <<data, version, user, next, cache, written>>
  BY ReaderFacts DEF Hit, HasSnapshot
<1>2. cache[k] \in Live /\ cache[k] = written[k]
  BY <1>1 DEF CacheInv, EntriesTrue, EntryTrue
<1>3. /\ reader[r].q \in Questions /\ reader[r].id \in Nat /\ reader[r].user \in Nat
      /\ Seen(r) = [id |-> reader[r].id, data |-> written[k], user |-> reader[r].user]
  BY <1>1, ReaderFacts DEF ReaderTrue, Reading, Seen
<1>4. answer \in Answers /\ answer = Seen(r)
  BY <1>2, <1>3 DEF Answers, Data
<1>. HIDE DEF answer
<1>5. x \in Reading
  BY <1>4, ReaderFacts DEF Reading
<1>6. x.pc = "told" /\ x.out = answer /\ x.q = reader[r].q
  BY ReaderFacts DEF Reading
<1>. HIDE DEF x, k
<1>7. ReaderTrue(x)
  BY <1>3, <1>6 DEF ReaderTrue
<1>8. Seen(r)' = answer
  BY <1>1, <1>6, ReaderFacts DEF Seen
<1>. QED
  BY <1>1, <1>4, <1>5, <1>6, <1>7, <1>8, ReaderFacts, ReaderMoves, Mapped

(* A miss is another look, and what it found is cached under its version.  *)
LEMMA FillStep ==
    ASSUME CacheInv, NEW r \in Reader, Fill(r)
    PROVE  CacheInv' /\ Atomic!Look(r)
<1>. DEFINE found == Lookup(tables, reader[r].q)
<1>1. /\ reader[r].pc = "located"
      /\ UNCHANGED <<data, version, user, next, cache, written>>
  BY DEF Fill, FillAs
<1>2. reader[r].q \in Questions
  BY <1>1, ReaderFacts DEF ReaderTrue
<1>3. /\ found \in Answers
      /\ found # Missing =>
            /\ found.id \in Ids /\ data[found.id].st = "live"
            /\ found = [id |-> found.id, data |-> data[found.id], user |-> found.user]
  BY <1>2, LookupFinds, ReaderFacts
<1>4. CASE found = Missing
  <2>. DEFINE x == [reader[r] EXCEPT !.pc = "told", !.out = Missing]
  <2>1. reader' = [reader EXCEPT ![r] = x]
    BY <1>4, ReaderFacts DEF Fill, FillAs
  <2>2. x \in Reading
    BY ReaderFacts, Distinct DEF Reading
  <2>3. x.pc = "told" /\ x.out = Missing /\ x.q = reader[r].q
    BY ReaderFacts DEF Reading
  <2>. HIDE DEF x
  <2>4. ReaderTrue(x)
    BY <1>2, <2>3 DEF ReaderTrue
  <2>5. Seen(r)' = found
    BY <1>4, <2>1, <2>3, ReaderFacts DEF Seen
  <2>. QED
    BY <1>1, <1>2, <2>1, <2>2, <2>3, <2>4, <2>5, ReaderFacts, ReaderMoves, Mapped
<1>5. CASE found # Missing
  <2>. DEFINE ver == version[found.id]
              x == [reader[r] EXCEPT !.pc = "filled", !.out = found, !.ver = ver]
  <2>1. reader' = [reader EXCEPT ![r] = x]
    BY <1>5, ReaderFacts DEF Fill, FillAs
  <2>2. /\ ver \in Versions /\ ver \in Nat /\ ver < next
        /\ data[found.id] = written[<<found.id, ver>>] /\ data[found.id] \in Live
        /\ found.data = data[found.id]
    BY <1>3, <1>5, LiveTyped DEF CacheInv, CacheTyped, RowsTrue, Versions
  <2>. HIDE DEF found
  <2>3. x \in Reading
    BY <1>3, <2>2, ReaderFacts DEF Reading
  <2>4. x.pc = "filled" /\ x.out = found /\ x.ver = ver /\ x.q = reader[r].q
    BY ReaderFacts DEF Reading
  <2>. HIDE DEF x
  <2>5. ReaderTrue(x)
    BY <1>2, <1>3, <1>5, <2>2, <2>4 DEF ReaderTrue
  <2>6. Seen(r)' = found
    BY <2>1, <2>4, ReaderFacts DEF Seen
  <2>. QED
    BY <1>1, <1>2, <2>1, <2>3, <2>4, <2>5, <2>6, ReaderFacts, ReaderMoves, Mapped
    DEF found
<1>. QED
  BY <1>4, <1>5

-----------------------------------------------------------------------------
(* Whatever happens to the store, the entries it is left with are true.    *)
LEMMA CacheMoves ==
    ASSUME CacheInv, \A k \in DOMAIN cache' : EntryTrue(k)',
           UNCHANGED <<data, version, user, next, reader, written>>
    PROVE  CacheInv' /\ UNCHANGED Atomic!vars
<1>1. CacheTyped' /\ RowsTrue' /\ EntriesTrue'
  BY DEF CacheInv, CacheTyped, RowsTrue, EntriesTrue
<1>2. ReadersTrue'
  BY DEF CacheInv, ReadersTrue, ReaderTrue
<1>3. tables' = tables /\ \A r \in Reader : Seen(r)' = Seen(r)
  BY DEF tables, Seen
<1>. QED
  BY <1>1, <1>2, <1>3 DEF CacheInv, Atomic!vars

LEMMA StoreStep == ASSUME CacheInv, Evict \/ Spoil PROVE CacheInv' /\ UNCHANGED Atomic!vars
<1>1. UNCHANGED <<data, version, user, next, reader, written>>
  BY DEF Evict, Spoil
<1>2. ASSUME NEW k \in DOMAIN cache' PROVE EntryTrue(k)'
  <2>1. k \in DOMAIN cache /\ (cache'[k] = cache[k] \/ cache'[k] = Bad)
    BY <1>2 DEF Evict, Spoil, Restrict
  <2>2. EntryTrue(k)
    BY <2>1 DEF CacheInv, EntriesTrue
  <2>. QED
    BY <1>1, <2>1, <2>2 DEF EntryTrue
<1>. QED
  BY <1>1, <1>2, CacheMoves

(* Only what was written under a version is cached under it.               *)
LEMMA PutStep ==
    ASSUME CacheInv, NEW r \in Reader, Put(r)
    PROVE  CacheInv' /\ UNCHANGED Atomic!vars
<1>. DEFINE k == <<reader[r].out.id, reader[r].ver>>
            d == reader[r].out.data
            x == [reader[r] EXCEPT !.pc = "told"]
<1>1. /\ reader[r].pc = "filled" /\ reader' = [reader EXCEPT ![r] = x]
      /\ UNCHANGED <<data, version, user, next, written>>
      /\ cache' = Entered(k, d) \/ cache' = cache
  BY ReaderFacts DEF Put
<1>2. /\ reader[r].out.id \in Ids /\ reader[r].ver \in Versions /\ reader[r].ver < next
      /\ d \in Live /\ d = written[k] /\ reader[r].q \in Questions
  BY <1>1, ReaderFacts DEF ReaderTrue
<1>3. k \in Keys /\ k[2] < next
  BY <1>2 DEF Keys
<1>. HIDE DEF k, d
<1>4. ASSUME NEW j \in DOMAIN cache' PROVE EntryTrue(j)'
  <2>1. \/ j \in DOMAIN cache /\ cache'[j] = cache[j]
        \/ j = k /\ cache'[j] = d
    BY <1>1, <1>4 DEF Entered
  <2>2. j \in DOMAIN cache => EntryTrue(j)
    BY DEF CacheInv, EntriesTrue
  <2>. QED
    BY <1>1, <1>2, <1>3, <2>1, <2>2 DEF EntryTrue
<1>5. x \in Reading
  BY ReaderFacts DEF Reading
<1>6. x.pc = "told" /\ x.out = reader[r].out /\ x.q = reader[r].q
  BY ReaderFacts DEF Reading
<1>. HIDE DEF x
<1>7. CacheTyped' /\ RowsTrue' /\ EntriesTrue'
  BY <1>1, <1>4, <1>5 DEF CacheInv, CacheTyped, RowsTrue, EntriesTrue
<1>8. ReadersTrue'
  <2>. SUFFICES ASSUME NEW v \in Reader PROVE ReaderTrue(reader[v])'
    BY DEF ReadersTrue
  <2>1. ReaderTrue(reader[v]) /\ reader'[v] = IF v = r THEN x ELSE reader[v]
    BY <1>1, ReaderFacts
  <2>. QED
    BY <1>1, <1>2, <1>6, <2>1 DEF ReaderTrue
<1>9. Seen(r)' = Seen(r)
  <2>1. reader'[r] = x
    BY <1>1, ReaderFacts
  <2>. QED
    BY <1>1, <1>6, <2>1 DEF Seen
<1>. QED
  BY <1>1, <1>5, <1>6, <1>7, <1>8, <1>9, ReaderFacts, Mapped DEF CacheInv

(* What a reader has seen stays seen while the tables change under it.     *)
LEMMA ChangeStep == ASSUME CacheInv, Write PROVE Atomic!Change
<1>1. CacheInv' /\ UNCHANGED reader
  BY WriteStep DEF Write, Insert, Rehash, Revise, ChangeUser
<1>2. tables' \in [Ids -> Data] \X (0..MaxUser)
  BY <1>1 DEF CacheInv, CacheTyped, tables
<1>3. ASSUME NEW r \in Reader PROVE Seen(r)' = Seen(r)
  <2>1. reader[r].pc = "located" =>
          written'[<<reader[r].id, reader[r].ver>>] = written[<<reader[r].id, reader[r].ver>>]
    <3>. SUFFICES ASSUME reader[r].pc = "located"
                  PROVE  written'[<<reader[r].id, reader[r].ver>>]
                         = written[<<reader[r].id, reader[r].ver>>]
      OBVIOUS
    <3>. DEFINE k == <<reader[r].id, reader[r].ver>>
    <3>0. /\ reader[r].id \in Ids /\ reader[r].ver \in Versions
          /\ reader[r].ver < next /\ next \in Nat
      BY ReaderFacts DEF ReaderTrue, CacheTyped
    <3>1. k \in Keys /\ k[2] < next /\ k[2] \in Nat /\ next \in Nat
      BY <3>0 DEF Keys, Versions
    <3>. HIDE DEF k
    <3>2. ASSUME NEW S, NEW d, Versioned(S, d) PROVE written'[k] = written[k]
      BY <3>1, <3>2 DEF Versioned
    <3>3. written' = written \/ \E S, d : Versioned(S, d)
      BY DEF Write, Insert, Rehash, Revise, ChangeUser
    <3>. QED
      BY <3>2, <3>3 DEF k
  <2>. QED
    BY <1>1, <2>1 DEF Seen
<1>. QED
  BY <1>1, <1>2, <1>3 DEF Atomic!Change

-----------------------------------------------------------------------------
LEMMA CacheInitial == CacheInit => CacheInv
<1>. SUFFICES ASSUME CacheInit PROVE CacheInv
  OBVIOUS
<1>. DEFINE x == [st |-> "live", hash |-> 1, rev |-> 0]
<1>1. x \in Live /\ x \in Data /\ None \in Data /\ None.st = "none"
  BY DEF Live, Data, None
<1>. HIDE DEF x
<1>2. /\ data = [i \in Ids |-> IF i = 1 THEN x ELSE None] /\ 1 \in Ids
      /\ \A i \in Ids : version[i] = Legacy /\ <<i, Legacy>> \in Keys
  BY DEF CacheInit, Ids, Keys, Versions, Legacy, x
<1>3. CacheTyped
  BY <1>1, <1>2, Distinct DEF CacheInit, CacheTyped, Versions, Legacy
<1>4. RowsTrue
  <2>. SUFFICES ASSUME NEW i \in Ids
                PROVE  /\ version[i] < next
                       /\ data[i].st = "live" => data[i] = written[<<i, version[i]>>]
    BY DEF RowsTrue
  <2>1. version[i] < next
    BY <1>2 DEF CacheInit, Legacy
  <2>2. ASSUME data[i].st = "live" PROVE data[i] = written[<<i, version[i]>>]
    <3>1. i = 1
      BY <1>1, <1>2, <2>2
    <3>2. written[<<1, Legacy>>] = data[1]
      BY <1>2 DEF CacheInit
    <3>. QED
      BY <1>2, <3>1, <3>2
  <2>. QED
    BY <2>1, <2>2
<1>5. EntriesTrue
  BY DEF CacheInit, EntriesTrue
<1>6. ReadersTrue
  BY Distinct DEF CacheInit, ReadersTrue, ReaderTrue
<1>. QED
  BY <1>3, <1>4, <1>5, <1>6 DEF CacheInv

(* Every step of the cache is a step of the abstract reads, or none.       *)
LEMMA CacheStepImplements == CacheInv /\ [CacheNext]_cacheVars => CacheInv' /\ [Atomic!Next]_Atomic!vars
<1>. SUFFICES ASSUME CacheInv, [CacheNext]_cacheVars PROVE CacheInv' /\ [Atomic!Next]_Atomic!vars
  OBVIOUS
<1>1. CASE Write
  BY <1>1, WriteStep, ChangeStep DEF Atomic!Next
<1>2. CASE Evict \/ Spoil
  BY <1>2, StoreStep
<1>3. ASSUME NEW r \in Reader, Read(r) PROVE CacheInv' /\ [Atomic!Next]_Atomic!vars
  <2>1. CASE ReadDirect(r) \/ Fill(r)
    BY <2>1, ReadDirectStep, FillStep DEF Atomic!Next
  <2>2. CASE Locate(r)
    BY <2>2, LocateStep DEF Atomic!Next
  <2>3. CASE Hit(r) \/ Put(r)
    BY <2>3, HitStep, PutStep
  <2>4. CASE Return(r) \/ ReadFails(r)
    BY <2>4, EndStep DEF Atomic!Next
  <2>. QED
    BY <1>3, <2>1, <2>2, <2>3, <2>4 DEF Read
<1>4. ASSUME NEW r \in Reader, NEW q \in Questions, Ask(r, q)
      PROVE  CacheInv' /\ [Atomic!Next]_Atomic!vars
  BY <1>4, AskStep DEF Atomic!Next
<1>5. CASE UNCHANGED cacheVars
  <2>1. \A k \in DOMAIN cache' : EntryTrue(k)'
    BY <1>5 DEF cacheVars, CacheInv, EntriesTrue, EntryTrue
  <2>. QED
    BY <1>5, <2>1, CacheMoves DEF cacheVars
<1>. QED
  BY <1>1, <1>2, <1>3, <1>4, <1>5 DEF CacheNext

LEMMA CacheInitImplements == CacheInit => Atomic!Init
<1>. SUFFICES ASSUME CacheInit PROVE Atomic!Init
  OBVIOUS
<1>1. CacheInv /\ \A r \in Reader : reader[r] = Resting
  BY CacheInitial DEF CacheInit
<1>2. tables \in [Ids -> Data] \X (0..MaxUser)
  BY <1>1 DEF CacheInv, CacheTyped, tables
<1>3. \A r \in Reader : reader[r].q = None /\ Seen(r) = None
  BY <1>1, Distinct DEF Seen
<1>. QED
  BY <1>2, <1>3 DEF Atomic!Init

(* Reads through the snapshot cache are atomic: sessionRepo.GetByTokenHash,*)
(* GetByID and the token reads answer what one statement would have found  *)
(* between the question and the answer, whatever the shared store keeps,   *)
(* drops or spoils.                                                        *)
THEOREM CacheIsTransparent == CacheSpec => ReadsAreAtomic
<1>1. CacheInit => CacheInv /\ Atomic!Init
  BY CacheInitial, CacheInitImplements
<1>2. CacheInv /\ [CacheNext]_cacheVars => CacheInv' /\ [Atomic!Next]_Atomic!vars
  BY CacheStepImplements
<1>. QED
  BY <1>1, <1>2, PTL DEF CacheSpec, ReadsAreAtomic, Atomic!Spec

=============================================================================
