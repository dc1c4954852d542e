---------------------------- MODULE SessionRules ----------------------------
(***************************************************************************)
(* What a row of the sessions table is and when it is alive: the rules     *)
(* checkSession applies to a loaded row, the WHERE clause of the rotation  *)
(* and the janitor's selection, shared by the models of the table and of   *)
(* the browsers, with the table itself, the clock and the generator of     *)
(* tokens.  Access and refresh token of one issue are always minted,       *)
(* stored and replaced together, so one token stands for the pair.         *)
(***************************************************************************)
EXTENDS Naturals

CONSTANTS
    Sid,            \* session ids; an id names at most one session ever
    Duration,       \* SessionConfig.Duration: life of one access token
    IdleTTL,
    RefreshTTL,     \* life of the refresh chain, fixed at creation
    MaxLifetime,    \* 0 = no limit
    GraceWindow,
    TouchDebounce,
    Latency,        \* bound: a request in flight ends within this many ticks
    MaxTime,        \* bound on the clock
    MaxToken        \* bound on the tokens minted

(* What SessionConfig's validation lets through. *)
ASSUME DurationsAssumption ==
    /\ {Duration, IdleTTL, RefreshTTL} \subseteq Nat \ {0}
    /\ {MaxLifetime, GraceWindow, MaxToken} \subseteq Nat
    /\ IdleTTL <= Duration /\ Duration <= RefreshTTL
    /\ MaxLifetime = 0 \/ Duration <= MaxLifetime
    /\ {TouchDebounce, Latency, MaxTime} \subseteq Nat

VARIABLES
    now,        \* the clock
    row,        \* the committed sessions table
    nextToken   \* the random generator, as a counter: tokens never repeat

NoToken == 0
Token == 1..MaxToken

(* domain.Session; st is none before INSERT and ended after DELETE.  No    *)
(* statement of the program ever sets is_revoked: revoking is deleting.    *)
Row == [st : {"none", "live", "ended"},
        cur : Token \cup {NoToken}, prev : Token \cup {NoToken},
        created : Nat, lastActive : Nat, rotatedAt : Nat,
        expires : Nat, refreshExpires : Nat]

NoRow == [st |-> "none", cur |-> NoToken, prev |-> NoToken, created |-> 0,
          lastActive |-> 0, rotatedAt |-> 0, expires |-> 0, refreshExpires |-> 0]
Ended == [NoRow EXCEPT !.st = "ended"]

(* SessionService.create *)
Born(tok, t) == [st |-> "live", cur |-> tok, prev |-> NoToken, created |-> t,
                 lastActive |-> t, rotatedAt |-> t,
                 expires |-> t + Duration, refreshExpires |-> t + RefreshTTL]

(* The sessions a lookup by token hash finds.                              *)
WithCurrent(tok) == {s \in Sid : row[s].st = "live" /\ row[s].cur = tok}
WithPrevious(tok) == {s \in Sid : row[s].st = "live" /\ row[s].prev = tok}

LifetimeOver(s, t) == MaxLifetime > 0 /\ t >= s.created + MaxLifetime
IdleOver(s, t) == t >= s.lastActive + IdleTTL

CheckSession(s, t) ==
    IF t > s.expires \/ IdleOver(s, t) THEN "expired"
    ELSE IF LifetimeOver(s, t) THEN "max_lifetime"
    ELSE "accepted"

(* Slip: the rotation honours the previous generation as the current one.  *)
RotatableByEither(s, tok, t) ==
    /\ s.st = "live" /\ tok \in {s.cur, s.prev}
    /\ t < s.refreshExpires /\ ~LifetimeOver(s, t) /\ ~IdleOver(s, t)

(* The WHERE clause of the rotating UPDATE, and its SET. *)
Rotatable(s, tok, t) ==
    /\ s.st = "live" /\ s.cur = tok
    /\ t < s.refreshExpires
    /\ ~LifetimeOver(s, t)
    /\ ~IdleOver(s, t)

Rotated(s, new, t) == [s EXCEPT !.cur = new, !.prev = s.cur, !.rotatedAt = t,
                                !.expires = t + Duration]

(* classifyRefreshFailure on a row whose current token was presented, and  *)
(* on one whose previous generation was.                                   *)
RefusalOfCurrent(s, t) ==
    IF t >= s.refreshExpires THEN "refresh_expired"
    ELSE IF LifetimeOver(s, t) THEN "max_lifetime"
    ELSE IF IdleOver(s, t) THEN "expired"
    ELSE "internal"

(* Slip: the window counted from the login and not from the rotation. *)
InGraceOfLogin(s, t) == GraceWindow > 0 /\ t < s.created + GraceWindow
InGrace(s, t) == GraceWindow > 0 /\ t < s.rotatedAt + GraceWindow
=============================================================================
