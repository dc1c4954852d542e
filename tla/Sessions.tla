------------------------------ MODULE Sessions ------------------------------
(***************************************************************************)
(* The session store of one account: the rows of the sessions table, the   *)
(* statements internal/sqlstore/session_repo.go runs on them, and the      *)
(* handlers of internal/service/session.go as processes made of those      *)
(* statements.  A row that a transaction has written stays locked until it *)
(* ends; readers see the last committed row (read committed), writers wait.*)
(***************************************************************************)
EXTENDS SessionRules, FiniteSets

CONSTANTS
    Req,            \* concurrent requests
    PruneGrace,     \* MaintenanceConfig.Grace
    Free            \* no request holds the row lock

ASSUME BoundsAssumption == PruneGrace \in Nat
ASSUME FreeAssumption == Free \notin Req

VARIABLES
    lock,       \* which request's open transaction has written the row
    req,        \* the requests
    exchanged,  \* history: the rotations that committed
    reported,   \* reuse-detected audit records
    condemned   \* ids the janitor has selected and not yet deleted

vars == <<now, row, lock, req, nextToken, exchanged, reported, condemned>>

Time == 0..MaxTime

RefreshSteps == {"update", "rotating", "current", "previous", "reuse", "report"}
ValidateSteps == {"check", "touch"}
Outcome == {"none", "rotated", "already_rotated", "reused", "invalid_refresh",
            "refresh_expired", "max_lifetime", "expired", "internal",
            "accepted", "not_found", "failed"}

Request == [pc : {"idle"} \cup RefreshSteps \cup ValidateSteps,
            tok : Token \cup {NoToken},     \* the token presented
            new : Token \cup {NoToken},     \* the pair minted to replace it
            at : Nat,                       \* the clock when it began
            sid : Sid \cup {NoToken},       \* the row found
            snap : Row,                     \* the row as it was read
            out : Outcome]

IdleRequest == [pc |-> "idle", tok |-> NoToken, new |-> NoToken, at |-> 0,
                sid |-> NoToken, snap |-> NoRow, out |-> "none"]

Init ==
    /\ now = 0
    /\ row = [s \in Sid |-> NoRow]
    /\ lock = [s \in Sid |-> Free]
    /\ req = [r \in Req |-> IdleRequest]
    /\ nextToken = 1
    /\ exchanged = {}
    /\ reported = {}
    /\ condemned = {}

-----------------------------------------------------------------------------
Finish(r, out) == req' = [req EXCEPT ![r] = [IdleRequest EXCEPT
                            !.tok = req[r].tok, !.at = req[r].at,
                            !.sid = req[r].sid, !.snap = req[r].snap, !.out = out]]
Goto(r, pc) == req' = [req EXCEPT ![r].pc = pc]

-----------------------------------------------------------------------------
(* Slip: a generator that repeats itself. *)
CreateReusing(s) ==
    /\ row[s].st = "none" /\ nextToken <= MaxToken
    /\ row' = [row EXCEPT ![s] = Born(nextToken, now)]
    /\ UNCHANGED <<now, lock, req, nextToken, exchanged, reported, condemned>>

(* SessionService.create: one transaction inserts the row and its record.  *)
Create(s) ==
    /\ row[s].st = "none" /\ nextToken <= MaxToken
    /\ row' = [row EXCEPT ![s] = Born(nextToken, now)]
    /\ nextToken' = nextToken + 1
    /\ UNCHANGED <<now, lock, req, exchanged, reported, condemned>>

(* SessionService.RefreshSession mints the new pair and reads the clock    *)
(* before its transaction; tok is any token ever minted.                   *)
RefreshStart(r, tok) ==
    /\ req[r].pc = "idle" /\ nextToken <= MaxToken
    /\ req' = [req EXCEPT ![r] = [IdleRequest EXCEPT !.pc = "update",
                  !.tok = tok, !.new = nextToken, !.at = now]]
    /\ nextToken' = nextToken + 1
    /\ UNCHANGED <<now, row, lock, exchanged, reported, condemned>>

(* updateRefreshTokenReturning: the guarded UPDATE takes the row lock ...  *)
RotateRow(r) ==
    /\ req[r].pc = "update"
    /\ \E s \in Sid :
        /\ Rotatable(row[s], req[r].tok, req[r].at)
        /\ lock[s] = Free
        /\ lock' = [lock EXCEPT ![s] = r]
        /\ req' = [req EXCEPT ![r].pc = "rotating", ![r].sid = s]
    /\ UNCHANGED <<now, row, nextToken, exchanged, reported, condemned>>

(* ... or matches no row, and the failure is classified.                   *)
RotateMiss(r) ==
    /\ req[r].pc = "update"
    /\ \A s \in Sid : ~Rotatable(row[s], req[r].tok, req[r].at)
    /\ Goto(r, "current")
    /\ UNCHANGED <<now, row, lock, nextToken, exchanged, reported, condemned>>

(* The rotation and its session.refreshed record commit together.          *)
RotateCommit(r) ==
    /\ req[r].pc = "rotating"
    /\ LET s == req[r].sid
           after == Rotated(row[s], req[r].new, req[r].at)
       IN /\ row' = [row EXCEPT ![s] = after]
          /\ lock' = [lock EXCEPT ![s] = Free]
          /\ exchanged' = exchanged \cup
                {[sid |-> s, old |-> req[r].tok, new |-> req[r].new]}
          /\ req' = [req EXCEPT ![r] = [IdleRequest EXCEPT !.tok = req[r].tok,
                        !.at = req[r].at, !.sid = s, !.snap = after, !.out = "rotated"]]
    /\ UNCHANGED <<now, nextToken, reported, condemned>>

(* classifyRefreshFailure, first read: the presented hash is still current.*)
(* The last branch is the one its log line calls INVARIANT VIOLATION.      *)
ClassifyCurrent(r) ==
    /\ req[r].pc = "current"
    /\ IF WithCurrent(req[r].tok) = {} THEN Goto(r, "previous")
       ELSE \E s \in WithCurrent(req[r].tok) :
            Finish(r, RefusalOfCurrent(row[s], req[r].at))
    /\ UNCHANGED <<now, row, lock, nextToken, exchanged, reported, condemned>>

(* Second read: the previous generation, inside the grace window or not.   *)
ClassifyPrevious(r) ==
    /\ req[r].pc = "previous"
    /\ \/ /\ WithPrevious(req[r].tok) = {}
          /\ Finish(r, "invalid_refresh")
       \/ \E s \in WithPrevious(req[r].tok) :
            IF InGrace(row[s], req[r].at) THEN Finish(r, "already_rotated")
            ELSE req' = [req EXCEPT ![r].pc = "reuse", ![r].sid = s, ![r].snap = row[s]]
    /\ UNCHANGED <<now, row, lock, nextToken, exchanged, reported, condemned>>

(* Slip: the error returned from the transaction rolls the deletion back.  *)
ReuseRolledBack(r) ==
    /\ req[r].pc = "reuse"
    /\ lock[req[r].sid] = Free
    /\ Goto(r, "report")
    /\ UNCHANGED <<now, row, lock, nextToken, exchanged, reported, condemned>>

(* Reuse: DeleteByID, and RefreshSession commits the deletion ...          *)
ReuseDelete(r) ==
    /\ req[r].pc = "reuse"
    /\ lock[req[r].sid] = Free
    /\ row' = [row EXCEPT ![req[r].sid] = Ended]
    /\ Goto(r, "report")
    /\ UNCHANGED <<now, lock, nextToken, exchanged, reported, condemned>>

(* ... and records session.reuse_detected after the transaction.           *)
ReuseReport(r) ==
    /\ req[r].pc = "report"
    /\ reported' = reported \cup {req[r].sid}
    /\ Finish(r, "reused")
    /\ UNCHANGED <<now, row, lock, nextToken, exchanged, condemned>>

(* A statement, the audit write or the process fails: the transaction      *)
(* rolls back.  After the reuse commit only the record is lost.            *)
RefreshFail(r) ==
    /\ req[r].pc \in RefreshSteps
    /\ lock' = [s \in Sid |-> IF lock[s] = r THEN Free ELSE lock[s]]
    /\ Finish(r, "failed")
    /\ UNCHANGED <<now, row, nextToken, exchanged, reported, condemned>>

-----------------------------------------------------------------------------
(* SessionService.Validate reads the row by its access token ...           *)
ValidateRead(r, tok) ==
    /\ req[r].pc = "idle"
    /\ req' = [req EXCEPT ![r] =
            IF WithCurrent(tok) = {}
            THEN [IdleRequest EXCEPT !.tok = tok, !.at = now, !.out = "not_found"]
            ELSE LET s == CHOOSE s \in WithCurrent(tok) : TRUE
                 IN [IdleRequest EXCEPT !.pc = "check", !.tok = tok, !.at = now,
                                        !.sid = s, !.snap = row[s]]]
    /\ UNCHANGED <<now, row, lock, nextToken, exchanged, reported, condemned>>

(* ... and checkSession judges that snapshot by a later clock.             *)
ValidateCheck(r) ==
    /\ req[r].pc = "check"
    /\ LET out == CheckSession(req[r].snap, now)
       IN IF out = "accepted"
          THEN req' = [req EXCEPT ![r].pc = "touch", ![r].at = now, ![r].out = out]
          ELSE Finish(r, out)
    /\ UNCHANGED <<now, row, lock, nextToken, exchanged, reported, condemned>>

(* SessionService.Touch: debounced by the snapshot, then an UPDATE by      *)
(* access token that finds nothing when the pair was replaced meanwhile.   *)
Touch(r) ==
    /\ req[r].pc = "touch"
    /\ IF now < req[r].snap.lastActive + TouchDebounce THEN row' = row
       ELSE /\ \A s \in WithCurrent(req[r].tok) : lock[s] = Free
            /\ row' = [s \in Sid |-> IF s \in WithCurrent(req[r].tok)
                                     THEN [row[s] EXCEPT !.lastActive = now] ELSE row[s]]
    /\ Finish(r, "accepted")
    /\ UNCHANGED <<now, lock, nextToken, exchanged, reported, condemned>>

-----------------------------------------------------------------------------
Delete(S) == row' = [s \in Sid |-> IF s \in S THEN Ended ELSE row[s]]
LiveSids == {s \in Sid : row[s].st = "live"}

(* Logout, RevokeByID, RevokeByIDForUser, RevokeManyForUser, RevokeAll and *)
(* RevokeAllExcept delete the rows of a set of ids.                        *)
Revoke(S) ==
    /\ S # {} /\ \A s \in S : lock[s] = Free
    /\ Delete(S)
    /\ UNCHANGED <<now, lock, req, nextToken, exchanged, reported, condemned>>

(* SessionService.Revoke deletes by access token: a no-op once replaced.   *)
RevokeByToken(tok) ==
    /\ WithCurrent(tok) # {} /\ \A s \in WithCurrent(tok) : lock[s] = Free
    /\ Delete(WithCurrent(tok))
    /\ UNCHANGED <<now, lock, req, nextToken, exchanged, reported, condemned>>

(* Slip: rows are dead as soon as they expire, and a refresh that is still *)
(* under way revives one between the two statements.                       *)
PrunableAtOnce(s, t) ==
    /\ s.st = "live"
    /\ s.expires < t /\ s.refreshExpires < t

(* DeleteExpiredBatch selects ids dead on both clocks past the grace ...   *)
Prunable(s, t) ==
    /\ s.st = "live"
    /\ s.expires + PruneGrace < t /\ s.refreshExpires + PruneGrace < t

PruneSelect ==
    /\ condemned = {}
    /\ condemned' = {s \in Sid : Prunable(row[s], now)}
    /\ condemned' # {}
    /\ UNCHANGED <<now, row, lock, req, nextToken, exchanged, reported>>

(* ... and deletes exactly those rows in a second statement.               *)
PruneDelete ==
    /\ condemned # {} /\ \A s \in condemned : lock[s] = Free
    /\ Delete(condemned)
    /\ condemned' = {}
    /\ UNCHANGED <<now, lock, req, nextToken, exchanged, reported>>

Tick ==
    /\ now < MaxTime
    /\ \A r \in Req : req[r].pc # "idle" => now < req[r].at + Latency
    /\ now' = now + 1
    /\ UNCHANGED <<row, lock, req, nextToken, exchanged, reported, condemned>>

-----------------------------------------------------------------------------
RefreshStep(r) ==
    \/ RotateRow(r) \/ RotateMiss(r) \/ RotateCommit(r)
    \/ ClassifyCurrent(r) \/ ClassifyPrevious(r)
    \/ ReuseDelete(r) \/ ReuseReport(r)

RequestStep(r) == RefreshStep(r) \/ ValidateCheck(r) \/ Touch(r)

Next ==
    \/ \E s \in Sid : Create(s)
    \/ \E r \in Req, tok \in Token :
        tok < nextToken /\ (RefreshStart(r, tok) \/ ValidateRead(r, tok))
    \/ \E r \in Req : RequestStep(r) \/ RefreshFail(r)
    \/ \E S \in SUBSET LiveSids : Revoke(S)
    \/ \E tok \in Token : RevokeByToken(tok)
    \/ PruneSelect \/ PruneDelete
    \/ Tick

Spec == Init /\ [][Next]_vars

-----------------------------------------------------------------------------
TypeOK ==
    /\ now \in Time
    /\ row \in [Sid -> Row]
    /\ lock \in [Sid -> Req \cup {Free}]
    /\ req \in [Req -> Request]
    /\ nextToken \in 1..(MaxToken + 1)
    /\ exchanged \subseteq [sid : Sid, old : Token, new : Token]
    /\ reported \subseteq Sid
    /\ condemned \subseteq Sid

(* A refresh token buys at most one successor, however many requests       *)
(* present it at once: the session's tokens form a chain, never a tree     *)
(* (the guarded UPDATE of session_queries.go).                             *)
OneSuccessor ==
    \A e, f \in exchanged : e.old = f.old => e = f

(* Two live sessions never answer to one token, current or previous, so    *)
(* every lookup by hash finds at most one row (session_repo.go).           *)
TokensNameOneSession ==
    \A s, t \in LiveSids : s # t =>
        {row[s].cur, row[s].prev} \cap {row[t].cur, row[t].prev} \subseteq {NoToken}

(* A replayed token that is answered "reused" has ended its session for    *)
(* good: no rotation that raced the deletion kept it alive.                *)
ReuseEndsSession ==
    \A r \in Req : req[r].pc = "report" \/ req[r].out = "reused" =>
        row[req[r].sid].st = "ended"

(* Maintenance never removes a login that a request could still use, its   *)
(* two statements notwithstanding (config_maintenance.go: "No live         *)
(* credential is ever removed").                                           *)
Usable(s, t) ==
    s.st = "live" /\ (CheckSession(s, t) = "accepted" \/ Rotatable(s, s.cur, t))
PruneSparesUsable ==
    [][condemned # {} /\ condemned' = {} =>
        \A s \in condemned : ~Usable(row[s], now)]_vars
=============================================================================
