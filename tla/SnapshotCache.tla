--------------------------- MODULE SnapshotCache ---------------------------
(***************************************************************************)
(* Reads of sessions and one-time tokens through the optional snapshot     *)
(* cache of internal/sqlstore (snapshot_cache.go, session_cache.go,        *)
(* token_cache.go) and a shared store such as redisstore.  A read locates  *)
(* the row in SQL (its id and cache_version), asks the cache for that      *)
(* version, and on a miss reads the row again and fills the cache.  Every  *)
(* UPDATE gives the rows it touches a fresh version (cache_version.go).    *)
(***************************************************************************)
EXTENDS Naturals, Functions

CONSTANTS
    Reader,
    Rows,           \* rows, created in this order
    MaxVersion,     \* bound: versions ever drawn
    MaxUser         \* bound: changes of the user row

ASSUME CacheAssumption == {Rows, MaxVersion, MaxUser} \subseteq Nat \ {0}

Ids == 1..Rows
Legacy == 0         \* the column default: rows older than the cache
Versions == 0..MaxVersion
Keys == Ids \X Versions
None == [st |-> "none"]

(* A row: the hash it is found by, what else its UPDATEs change (rev), and *)
(* its version.  "gone" rows are deleted, "none" not yet inserted.         *)
Live == [st : {"live"}, hash : Nat, rev : Nat]
Data == Live \cup {[st |-> "gone"], None}

(* By token hash (of a session: with its user), by id, or the newest.      *)
Questions ==
    [by : {"hash"}, key : 1..(Rows + MaxVersion), joined : BOOLEAN]
    \cup [by : {"id"}, key : Ids, joined : {FALSE}]
    \cup {[by |-> "newest", key |-> 1, joined |-> FALSE]}
Missing == [id |-> 0, data |-> None, user |-> 0]

VARIABLES
    data,       \* the committed rows
    version,    \* their cache_version
    user,       \* the user the sessions belong to: a revision number
    next,       \* generator of versions (UUIDs)
    cache,      \* entries by key; "bad" ones fail authentication
    reader,
    written     \* history: the rows as each version was written

cacheVars == <<data, version, user, next, cache, reader, written>>
tables == <<data, user>>

Resting == [pc |-> "idle", q |-> None, id |-> 0, ver |-> Legacy, user |-> 0,
            out |-> None]
Bad == [st |-> "bad"]

CacheInit ==
    /\ data = [i \in Ids |-> IF i = 1 THEN [st |-> "live", hash |-> 1, rev |-> 0] ELSE None]
    /\ version \in [Ids -> {Legacy}]
    /\ user = 0 /\ next = 1
    /\ cache = [k \in {} |-> Bad]
    /\ reader = [r \in Reader |-> Resting]
    /\ written = [k \in Keys |-> IF k = <<1, Legacy>> THEN data[1] ELSE None]

-----------------------------------------------------------------------------
(* What a SELECT finds.  Hashes are unique among live rows.                *)
Matches(d, q) ==
    {i \in Ids : /\ d[i].st = "live"
                 /\ q.by = "hash" => d[i].hash = q.key
                 /\ q.by = "id" => i = q.key}
Found(d, q) ==
    CHOOSE i \in Matches(d, q) : \A j \in Matches(d, q) : j <= i
Lookup(t, q) ==
    IF Matches(t[1], q) = {} THEN Missing
    ELSE LET i == Found(t[1], q)
         IN [id |-> i, data |-> t[1][i], user |-> IF q.joined THEN t[2] ELSE 0]

-----------------------------------------------------------------------------
(* The writers.  S: the rows of one UPDATE, which get one fresh version.   *)
Versioned(S, d) ==
    /\ next <= MaxVersion
    /\ data' = d
    /\ version' = [i \in Ids |-> IF i \in S THEN next ELSE version[i]]
    /\ written' = [k \in Keys |-> IF k[1] \in S /\ k[2] = next THEN d[k[1]]
                                  ELSE written[k]]
    /\ next' = next + 1

(* SessionRepository.Create, TokenRepository.Create. *)
Insert(i) ==
    /\ data[i] = None /\ (i > 1 => data[i - 1] # None)
    /\ Versioned({i}, [data EXCEPT ![i] = [st |-> "live", hash |-> i, rev |-> 0]])
    /\ UNCHANGED <<user, cache, reader>>

(* Rotation, resend: another hash.  Fresh hashes never repeat.             *)
Rehash(i) ==
    /\ data[i].st = "live"
    /\ Versioned({i}, [data EXCEPT ![i].hash = Rows + next])
    /\ UNCHANGED <<user, cache, reader>>

(* Touch, active organization, attempts, consumption: one statement over   *)
(* one row or over several.                                                *)
Revise(S) ==
    /\ S # {} /\ \A i \in S : data[i].st = "live"
    /\ Versioned(S, [i \in Ids |-> IF i \in S THEN [data[i] EXCEPT !.rev = @ + 1]
                                   ELSE data[i]])
    /\ UNCHANGED <<user, cache, reader>>

(* Ban, password change: the user changes and the sessions go, in one      *)
(* transaction; or the user alone (role, profile).                         *)
ChangeUser(revoke) ==
    /\ user < MaxUser
    /\ user' = user + 1
    /\ data' = [i \in Ids |-> IF revoke /\ data[i].st = "live" THEN [st |-> "gone"]
                              ELSE data[i]]
    /\ UNCHANGED <<version, next, cache, reader, written>>

-----------------------------------------------------------------------------
(* A read inside a transaction, or without a cache, is one statement.      *)
ReadDirect(r) ==
    /\ reader[r].pc = "asked"
    /\ reader' = [reader EXCEPT ![r].pc = "told", ![r].out = Lookup(tables, reader[r].q)]
    /\ UNCHANGED <<data, version, user, next, cache, written>>

Ask(r, q) ==
    /\ reader[r].pc = "idle"
    /\ reader' = [reader EXCEPT ![r] = [Resting EXCEPT !.pc = "asked", !.q = q]]
    /\ UNCHANGED <<data, version, user, next, cache, written>>

(* The locator: id and version, and for a joined read the user.            *)
Locate(r) ==
    LET q == reader[r].q
        found == Lookup(tables, q)
    IN /\ reader[r].pc = "asked"
       /\ reader' = [reader EXCEPT ![r] =
            IF found = Missing THEN [@ EXCEPT !.pc = "told", !.out = Missing]
            ELSE [@ EXCEPT !.pc = "located", !.id = found.id,
                           !.ver = version[found.id], !.user = found.user]]
       /\ UNCHANGED <<data, version, user, next, cache, written>>

HasSnapshot(r) ==
    LET k == <<reader[r].id, reader[r].ver>>
    IN reader[r].ver # Legacy /\ k \in DOMAIN cache /\ cache[k] # Bad

(* readSnapshot finds it, and the session is the one asked for.            *)
Hit(r) ==
    LET k == <<reader[r].id, reader[r].ver>>
        q == reader[r].q
    IN /\ reader[r].pc = "located" /\ HasSnapshot(r)
       /\ q.joined => cache[k].hash = q.key
       /\ reader' = [reader EXCEPT ![r].pc = "told",
              ![r].out = [id |-> reader[r].id, data |-> cache[k], user |-> reader[r].user]]
       /\ UNCHANGED <<data, version, user, next, cache, written>>

(* A miss, a cache error or a snapshot that does not verify: the whole     *)
(* read again, user included, with the version it is cached under.         *)
(* Slip: under the version located, not the one read. *)
FillAs(r, found, ver) ==
    /\ reader[r].pc = "located"
    /\ reader' = [reader EXCEPT ![r] =
         IF found = Missing THEN [@ EXCEPT !.pc = "told", !.out = Missing]
         ELSE [@ EXCEPT !.pc = "filled", !.out = found, !.ver = ver]]
    /\ UNCHANGED <<data, version, user, next, cache, written>>
FillLocated(r) == FillAs(r, Lookup(tables, reader[r].q), reader[r].ver)
Fill(r) ==
    LET found == Lookup(tables, reader[r].q)
    IN FillAs(r, found, version[IF found = Missing THEN 1 ELSE found.id])

(* writeSnapshot: SET NX, so an entry that is there stays.  Only the       *)
(* session goes in, never the joined user.  It may fail, unnoticed.        *)
Entered(k, d) ==
    [j \in DOMAIN cache \cup {k} |-> IF j \in DOMAIN cache THEN cache[j] ELSE d]
Put(r) ==
    LET k == <<reader[r].out.id, reader[r].ver>>
    IN /\ reader[r].pc = "filled"
       /\ reader' = [reader EXCEPT ![r].pc = "told"]
       /\ \/ k[2] # Legacy /\ cache' = Entered(k, reader[r].out.data)
          \/ UNCHANGED cache
       /\ UNCHANGED <<data, version, user, next, written>>

Return(r) ==
    /\ reader[r].pc = "told"
    /\ reader' = [reader EXCEPT ![r] = Resting]
    /\ UNCHANGED <<data, version, user, next, cache, written>>

(* A statement fails: the caller gets an error. *)
ReadFails(r) ==
    /\ reader[r].pc \in {"asked", "located"}
    /\ reader' = [reader EXCEPT ![r] = Resting]
    /\ UNCHANGED <<data, version, user, next, cache, written>>

(* The store drops entries (TTL, eviction, restart) and may hold entries   *)
(* this process cannot authenticate (another key, codec or writer).        *)
Evict ==
    \E k \in DOMAIN cache :
        /\ cache' = Restrict(cache, DOMAIN cache \ {k})
        /\ UNCHANGED <<data, version, user, next, reader, written>>
Spoil ==
    \E k \in DOMAIN cache :
        /\ cache[k] # Bad
        /\ cache' = [cache EXCEPT ![k] = Bad]
        /\ UNCHANGED <<data, version, user, next, reader, written>>

Write ==
    \/ \E i \in Ids : Insert(i) \/ Rehash(i)
    \/ \E S \in SUBSET Ids : Revise(S)
    \/ \E revoke \in BOOLEAN : ChangeUser(revoke)
Read(r) ==
    \/ ReadDirect(r) \/ Locate(r) \/ Hit(r) \/ Fill(r)
    \/ Put(r) \/ Return(r) \/ ReadFails(r)

CacheNext ==
    \/ Write \/ Evict \/ Spoil
    \/ \E r \in Reader : Read(r) \/ \E q \in Questions : Ask(r, q)

CacheSpec == CacheInit /\ [][CacheNext]_cacheVars
-----------------------------------------------------------------------------
CacheTypeOK ==
    /\ data \in [Ids -> Data] /\ version \in [Ids -> Versions]
    /\ user \in 0..MaxUser /\ next \in 1..(MaxVersion + 1)
    /\ IsInjective([i \in {j \in Ids : data[j].st = "live"} |-> data[i].hash])
    /\ DOMAIN cache \subseteq Ids \X (Versions \ {Legacy})
    /\ \A k \in DOMAIN cache : cache[k] \in Live \cup {Bad}
    /\ \A r \in Reader : /\ reader[r].pc \in {"idle", "asked", "located", "filled", "told"}
                         /\ reader[r].pc # "idle" => reader[r].q \in Questions
                         /\ reader[r].pc = "told" => reader[r].out # None

(* Refinement.  What a reader will answer if the cache has the version it  *)
(* located is already decided when it locates the row.                     *)
Seen(r) ==
    LET x == reader[r]
    IN CASE x.pc \in {"filled", "told"} -> x.out
         [] x.pc = "located" /\ x.ver # Legacy ->
                [id |-> x.id, data |-> written[<<x.id, x.ver>>], user |-> x.user]
         [] OTHER -> None
Atomic == INSTANCE AtomicReads WITH
    State <- [Ids -> Data] \X (0..MaxUser), Question <- Questions, Nothing <- None,
    asked <- [r \in Reader |-> reader[r].q], seen <- [r \in Reader |-> Seen(r)]

(* Read through the cache, a session with its user, a token or nothing is  *)
(* still what one statement would have found between question and answer:  *)
(* never a revoked session, an older role or a session of one moment with  *)
(* the user of another.                                                    *)
ReadsAreAtomic == Atomic!Spec
=============================================================================
