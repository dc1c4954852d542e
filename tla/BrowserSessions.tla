-------------------------- MODULE BrowserSessions --------------------------
(***************************************************************************)
(* Browsers against the session store: one cookie jar shared by the tabs   *)
(* of a browser, each with a request in flight, the auth middleware that   *)
(* refreshes an expired session on the way in, the handlers of             *)
(* POST /auth/refresh, login and logout, and the network between them,     *)
(* which delays and loses responses.  Each store operation is one step     *)
(* here; Sessions has the statements they are made of.  Session and        *)
(* refresh cookie are set and cleared together but expire apart.           *)
(***************************************************************************)
EXTENDS SessionRules, FiniteSets

CONSTANTS
    Tab,            \* requests the browser has in flight at once, Latency ticks at most
    Kinds           \* what the client sends: see Kind

Kind == {"login", "page", "refresh", "logout"}
ASSUME ClientAssumption == Kinds \subseteq Kind

VARIABLES
    jar,        \* the browser's credential cookies
    tab,        \* its requests
    faults      \* history: "lost" a response, a backend call "failed",
                \* the refresh handler "cleared" the cookies

browserVars == <<now, row, jar, tab, nextToken, faults>>

Status == {"none", "ok", "no_cookie", "invalid", "expired", "failed",
           "already_rotated", "reused", "invalid_refresh", "refresh_expired",
           "max_lifetime", "internal"}

(* The two cookies hold one pair; each is sent until its own Max-Age ends. *)
Jar == [tok : Token \cup {NoToken}, accessUntil : Nat, refreshUntil : Nat]
EmptyJar == [tok |-> NoToken, accessUntil |-> 0, refreshUntil |-> 0]

TabRequest == [pc : {"idle", "login", "auth", "refresh", "serve", "answered"},
            kind : Kind \cup {"none"},
            at : Nat,                           \* the clock at sending
            access : Token \cup {NoToken},      \* the cookies sent
            refresh : Token \cup {NoToken},
            sid : Sid \cup {NoToken},           \* the session it acts for
            seen : Nat,                         \* lastActive of that session as read
            cookies : {"keep", "set", "clear"}, \* Set-Cookie headers so far
            minted : Token \cup {NoToken},      \* ... and the pair they carry
            status : Status]
Idle == [pc |-> "idle", kind |-> "none", at |-> 0, access |-> NoToken,
         refresh |-> NoToken, sid |-> NoToken, seen |-> 0, cookies |-> "keep",
         minted |-> NoToken, status |-> "none"]

BrowserInit ==
    /\ now = 0
    /\ row = [s \in Sid |-> NoRow]
    /\ jar = EmptyJar
    /\ tab = [t \in Tab |-> Idle]
    /\ nextToken = 1
    /\ faults = {}

-----------------------------------------------------------------------------
Holds(until, tok) == IF now < until THEN tok ELSE NoToken
Busy == {t \in Tab : tab[t].pc # "idle"}

(* How RefreshSession answers a refresh token, in one transaction.         *)
RefreshOutcome(tok) ==
    IF \E s \in Sid : Rotatable(row[s], tok, now) THEN "rotated"
    ELSE IF WithCurrent(tok) # {}
    THEN RefusalOfCurrent(row[CHOOSE s \in WithCurrent(tok) : TRUE], now)
    ELSE IF WithPrevious(tok) = {} THEN "invalid_refresh"
    ELSE IF InGrace(row[CHOOSE s \in WithPrevious(tok) : TRUE], now)
    THEN "already_rotated" ELSE "reused"

(* The response leaves the server with the Set-Cookie headers gathered.    *)
WithAnswer(t, status) == [tab[t] EXCEPT !.pc = "answered", !.status = status]
Answer(t, status) == tab' = [tab EXCEPT ![t] = WithAnswer(t, status)]
AnswerClearing(t, status) ==
    tab' = [tab EXCEPT ![t] = [WithAnswer(t, status) EXCEPT !.cookies = "clear"]]

-----------------------------------------------------------------------------
(* The browser sends whatever cookies have not expired.                    *)
Send(t, kind) ==
    /\ tab[t].pc = "idle"
    /\ nextToken + Cardinality(Busy) <= MaxToken
    /\ tab' = [tab EXCEPT ![t] = [Idle EXCEPT
            !.pc = IF kind \in {"login", "refresh"} THEN kind ELSE "auth",
            !.kind = kind, !.at = now,
            !.access = Holds(jar.accessUntil, jar.tok),
            !.refresh = Holds(jar.refreshUntil, jar.tok)]]
    /\ UNCHANGED <<now, row, jar, nextToken, faults>>

(* A login that succeeds: create, then issueSessionCookies.                *)
Login(t, s) ==
    /\ tab[t].pc = "login" /\ row[s].st = "none"
    /\ row' = [row EXCEPT ![s] = Born(nextToken, now)]
    /\ tab' = [tab EXCEPT ![t] = [WithAnswer(t, "ok") EXCEPT
                    !.sid = s, !.cookies = "set", !.minted = nextToken]]
    /\ nextToken' = nextToken + 1
    /\ UNCHANGED <<now, jar, faults>>

(* resolveSession: without a session cookie it answers 401 at once; with   *)
(* one it validates, and only an expired session goes on to the refresh.   *)
Authenticate(t) ==
    /\ tab[t].pc = "auth"
    /\ IF tab[t].access = NoToken THEN Answer(t, "no_cookie")
       ELSE IF WithCurrent(tab[t].access) = {} THEN Answer(t, "invalid")
       ELSE \E s \in WithCurrent(tab[t].access) :
            CASE CheckSession(row[s], now) = "accepted" ->
                    tab' = [tab EXCEPT ![t].pc = "serve", ![t].sid = s,
                                       ![t].seen = row[s].lastActive]
              [] CheckSession(row[s], now) = "expired" ->
                    IF tab[t].refresh = NoToken THEN Answer(t, "expired")
                    ELSE tab' = [tab EXCEPT ![t].pc = "refresh"]
              [] OTHER -> Answer(t, "invalid")
    /\ UNCHANGED <<now, row, jar, nextToken, faults>>

(* A rotation: the handler answers with the new pair; the middleware adds  *)
(* it to the response and goes on to look the user up and serve.           *)
Rotate(t) ==
    /\ tab[t].pc = "refresh" /\ tab[t].refresh # NoToken
    /\ RefreshOutcome(tab[t].refresh) = "rotated"
    /\ \E s \in WithCurrent(tab[t].refresh) :
        LET carried == [tab[t] EXCEPT !.sid = s, !.seen = row[s].lastActive,
                            !.cookies = "set", !.minted = nextToken,
                            !.access = nextToken]
        IN /\ row' = [row EXCEPT ![s] = Rotated(row[s], nextToken, now)]
           /\ tab' = [tab EXCEPT ![t] =
                IF tab[t].kind = "refresh"
                THEN [carried EXCEPT !.pc = "answered", !.status = "ok"]
                ELSE [carried EXCEPT !.pc = "serve"]]
    /\ nextToken' = nextToken + 1
    /\ UNCHANGED <<now, jar, faults>>

(* A refusal: the handler clears both cookies on any error, unless there   *)
(* was no refresh cookie to try; the middleware leaves them alone.         *)
Refuse(t) ==
    /\ tab[t].pc = "refresh"
    /\ IF tab[t].refresh = NoToken
       THEN Answer(t, "invalid_refresh") /\ UNCHANGED row
       ELSE LET out == RefreshOutcome(tab[t].refresh)
            IN /\ out # "rotated"
               /\ IF tab[t].kind = "refresh"
                  THEN AnswerClearing(t, out) ELSE Answer(t, out)
               /\ row' = IF out # "reused" THEN row
                         ELSE [s \in Sid |-> IF s \in WithPrevious(tab[t].refresh)
                                             THEN Ended ELSE row[s]]
    /\ faults' = IF tab'[t].cookies = "clear" THEN faults \cup {"cleared"} ELSE faults
    /\ UNCHANGED <<now, jar, nextToken>>

(* A backend call fails: 500.  A rotation that has committed still         *)
(* delivers its pair (the middleware's user lookup failed after it).       *)
CallsBackend(t) ==
    \/ tab[t].pc \in {"login", "serve"}
    \/ tab[t].pc = "auth" /\ tab[t].access # NoToken
    \/ tab[t].pc = "refresh" /\ tab[t].refresh # NoToken
(* Slip: a 500 that drops the cookies of the rotation that committed. *)
FailDropping(t) ==
    /\ CallsBackend(t)
    /\ tab' = [tab EXCEPT ![t] = [WithAnswer(t, "failed") EXCEPT !.cookies = "keep"]]
    /\ faults' = faults \cup {"failed"}
    /\ UNCHANGED <<now, row, jar, nextToken>>
Fail(t) ==
    /\ CallsBackend(t)
    /\ IF tab[t].kind = "refresh" THEN AnswerClearing(t, "failed")
       ELSE Answer(t, "failed")
    /\ faults' = faults \cup {"failed"}
                        \cup IF tab[t].kind = "refresh" THEN {"cleared"} ELSE {}
    /\ UNCHANGED <<now, row, jar, nextToken>>

TouchedByPage(t) == [s \in Sid |->
    IF s \in WithCurrent(tab[t].access) /\ now >= tab[t].seen + TouchDebounce
    THEN [row[s] EXCEPT !.lastActive = now] ELSE row[s]]

(* AuthMiddleware touches the session and runs the handler.                *)
ServePage(t) ==
    /\ tab[t].pc = "serve" /\ tab[t].kind = "page"
    /\ row' = TouchedByPage(t)
    /\ Answer(t, "ok")
    /\ UNCHANGED <<now, jar, nextToken, faults>>

(* Logout revokes the session by its id, then clears the cookies.          *)
(* Slip: by the token the request came with. *)
LoggedOutByToken(t) ==
    [s \in Sid |-> IF s \in WithCurrent(tab[t].access) THEN Ended ELSE row[s]]
LoggedOut(t) == [row EXCEPT ![tab[t].sid] = Ended]
ServeLogout(t) ==
    /\ tab[t].pc = "serve" /\ tab[t].kind = "logout"
    /\ row' = LoggedOut(t)
    /\ AnswerClearing(t, "ok")
    /\ UNCHANGED <<now, jar, nextToken, faults>>

(* The browser applies the Set-Cookie headers; Max-Age counts from here.   *)
Receive(t) ==
    /\ tab[t].pc = "answered"
    /\ jar' = CASE tab[t].cookies = "set" ->
                     [tok |-> tab[t].minted, accessUntil |-> now + Duration,
                      refreshUntil |-> now + RefreshTTL]
                [] tab[t].cookies = "clear" -> EmptyJar
                [] OTHER -> jar
    /\ tab' = [tab EXCEPT ![t] = Idle]
    /\ UNCHANGED <<now, row, nextToken, faults>>

(* The connection breaks: neither response nor cookies arrive.             *)
Lose(t) ==
    /\ tab[t].pc = "answered"
    /\ tab' = [tab EXCEPT ![t] = Idle]
    /\ faults' = faults \cup {"lost"}
    /\ UNCHANGED <<now, row, jar, nextToken>>

(* Another device, an administrator or a password change ends the session. *)
RevokeElsewhere(s) ==
    /\ row[s].st = "live"
    /\ row' = [row EXCEPT ![s] = Ended]
    /\ UNCHANGED <<now, jar, tab, nextToken, faults>>

BrowserTick ==
    /\ now < MaxTime
    /\ \A t \in Busy : now < tab[t].at + Latency
    /\ now' = now + 1
    /\ UNCHANGED <<row, jar, tab, nextToken, faults>>

BrowserNext ==
    \/ \E t \in Tab, kind \in Kinds : Send(t, kind)
    \/ \E t \in Tab, s \in Sid : Login(t, s)
    \/ \E t \in Tab : \/ Authenticate(t) \/ Rotate(t) \/ Refuse(t) \/ Fail(t)
                      \/ ServePage(t) \/ ServeLogout(t)
                      \/ Receive(t) \/ Lose(t)
    \/ \E s \in Sid : RevokeElsewhere(s)
    \/ BrowserTick

BrowserSpec == BrowserInit /\ [][BrowserNext]_browserVars

-----------------------------------------------------------------------------
BrowserTypeOK ==
    /\ now \in 0..MaxTime
    /\ row \in [Sid -> Row]
    /\ jar \in Jar
    /\ tab \in [Tab -> TabRequest]
    /\ nextToken \in 1..(MaxToken + 1)
    /\ faults \subseteq {"lost", "failed", "cleared"}

(* The pair that would keep session s alive is in the jar or on its way.   *)
InHand(s) ==
    \/ jar.tok = row[s].cur /\ now < jar.refreshUntil
    \/ \E t \in Tab : tab[t].cookies = "set" /\ tab[t].minted = row[s].cur

OneLogin == Cardinality({s \in Sid : row[s].st # "none"}) = 1
Renewable(s) == Rotatable(row[s], row[s].cur, now)

(* While responses arrive and no POST /auth/refresh is refused, no race of *)
(* the tabs and no backend failure strands a session: as long as the store *)
(* would renew it, the browser holds the token that renews it              *)
(* (resolveSession sets the cookies before anything else can fail, and a   *)
(* refusal leaves them alone).                                             *)
LoginSurvives ==
    faults \subseteq {"failed"} /\ OneLogin => \A s \in Sid : Renewable(s) => InHand(s)

(* A browser that loses no response is never taken for a thief: a grace    *)
(* window longer than two flights covers every tab that still sends the    *)
(* token a sister tab has just exchanged (GraceWindow, RefreshSession).    *)
HonestNeverReused ==
    "lost" \notin faults /\ GraceWindow > 2 * Latency =>
        \A t \in Tab : tab[t].status # "reused"

(* A logout that was answered has ended its session, whatever refreshes    *)
(* rotated its tokens meanwhile (Logout revokes by id, not by token).      *)
LogoutEnds ==
    \A t \in Tab : tab[t].kind = "logout" /\ tab[t].status = "ok" =>
        row[tab[t].sid].st = "ended"
=============================================================================
