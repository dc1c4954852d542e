------------------------------ MODULE Migrations ------------------------------
(***************************************************************************)
(* The standalone migration executor (internal/migrations).                *)
(*                                                                         *)
(* A run takes one connection out of a borrowed pool, takes the database's *)
(* migration lock on it, reads the journal, verifies the schema the        *)
(* journal speaks of and then applies, adopts, repairs, retries or         *)
(* verifies.  PostgreSQL commits step by step, MySQL statement by          *)
(* statement, SQLite the whole run at its end.  Whatever goes wrong, close *)
(* ends the run: it settles SQLite's transaction, restores the session,    *)
(* unlocks, and gives the connection back or destroys it.                  *)
(*                                                                         *)
(* A schema is what became of every change the published catalog makes.    *)
(* Operators touch schema and data by hand, but not while a run holds the  *)
(* lock.                                                                   *)
(***************************************************************************)
EXTENDS Naturals, Sequences, FiniteSets

CONSTANTS Run,         \* processes that run migrations, of one release each
          Steps,       \* the revisions the latest release publishes: 1 .. Steps
          Statements,  \* the statements of a step
          Configs,     \* the databases and releases to start from
          None

Step == 1 .. Steps
Change == Step \X (1 .. Statements)
Operation == {"apply", "adopt", "repair", "retry", "verify"}

(* In what an installed change may differ from the published one. *)
Aspect == {"columns", "constraints", "indexes", "orphans"}

(* The journal holds a record per step, the run that wrote it, and whether  *)
(* the step is complete.                                                    *)
Record == [state : {"started", "complete"}, by : Nat \union {None}]
Database == [schema : [Change -> SUBSET (Aspect \union {"missing"})], touched : SUBSET Change, journal : Seq(Record)]

ASSUME MigrationConstants ==
  /\ None \notin {"ghost", "pool"} \union Database
  /\ Run \intersect {None, "ghost", "pool"} = {}
  /\ \A c \in Configs : c.tracked <= c.installed
  /\ Steps \in Nat \ {0} /\ Statements \in Nat \ {0}
  /\ Configs \subseteq [dialect : {"postgres", "mysql", "sqlite"}, target : [Run -> Step], policy : BOOLEAN,
                        installed : 0 .. Steps, tracked : 0 .. Steps, operations : SUBSET Operation,
                        runs : Nat, touches : Nat, faults : Nat]

VARIABLES
  config,    \* dialect, releases, whether upgrades publish a retry policy, what is installed and
             \* tracked at the start, and the bounds on runs, operators and faults
  db,        \* what is committed: the schema, the journal, and the changes operators touched
             \* since they were last verified
  tx,        \* what the open transaction of each run makes of it, or None
  lock,      \* the session that holds the lock: a run's, the ghost's, one in the pool, or None
  session,   \* the dedicated connection of each run
  ghost,     \* a server session whose client is gone: what its last statement makes of db
  pooled,    \* connections that went back to the pool (history)
  run,       \* what each run is doing
  said,      \* what each run returned last
  used       \* runs started, changes touched and faults so far

migrationVars == <<config, db, tx, lock, session, ghost, pooled, run, said, used>>
server == <<db, tx, lock, ghost>>

dialect == config.dialect
Catalog(r) == 1 .. config.target[r]
Owned(r) == {o \in Change : o[1] \in Catalog(r)}

(* What the snapshot of a revision defines, as far as it is installed and   *)
(* as it should be: nothing differs.                                        *)
Missing == {"missing"}
Published(revision) == [o \in Change |-> IF o[1] <= revision THEN {} ELSE Missing]

Idle == [at |-> "idle"]
Count(what) == used[what] < config[what] /\ used' = [used EXCEPT ![what] = @ + 1]
Fault == Count("faults")

MigrationInit ==
  /\ config \in Configs
  /\ db = [schema |-> Published(config.installed),
           touched |-> {o \in Change : config.tracked < o[1] /\ o[1] <= config.installed},
           journal |-> [n \in 1 .. config.tracked |-> [state |-> "complete", by |-> None]]]
  /\ tx = [r \in Run |-> None] /\ lock = None /\ ghost = None
  /\ session = [r \in Run |-> "none"] /\ pooled = {}
  /\ run = [r \in Run |-> Idle] /\ said = [r \in Run |-> None]
  /\ used = [runs |-> 0, touches |-> 0, faults |-> 0]

----------------------------------------------------------------------------
(* Reading the schema.                                                      *)

(* The first statement of a step makes a table or an index, a name of its   *)
(* own; the others alter what is there.                                     *)
Named(o) == o[2] = 1

objectExists(d, o) == d.schema[o] # Missing

(* No release of the catalog finds one of its names taken. *)
requireUnused(d, r) == \A o \in Owned(r) : Named(o) => ~ objectExists(d, o)

(* Names of other revisions, pending or retired, have to be absent. *)
verifyOwnedAbsence(d, r, revision) ==
  \A o \in Owned(r) : Named(o) /\ o[1] > revision => ~ objectExists(d, o)

Differs(d, aspects, revision) == \E o \in Change : o[1] <= revision /\ d.schema[o] \intersect aspects # {}

(* Alterations of later revisions show as unexpected columns. *)
verifyColumns(d, r, revision) ==
  /\ ~ Differs(d, Missing \union {"columns"}, revision)
  /\ \A o \in Owned(r) : ~ Named(o) /\ o[1] > revision => d.schema[o] = Missing
postgresConstraints(d, revision) == ~ Differs(d, {"constraints"}, revision)
mysqlConstraints(d, revision) == ~ Differs(d, {"constraints"}, revision)
verifyIndexes(d, revision) == ~ Differs(d, {"indexes"}, revision)

(* Constraints say nothing of rows written while they were bypassed. *)
verifyForeignKeyData(d, revision) == ~ Differs(d, {"orphans"}, revision)

(* SQLite keeps the whole definitions: they are compared as they are. *)
verifySQLite(d, r, revision) ==
  /\ verifyColumns(d, r, revision)
  /\ ~ Differs(d, {"constraints", "indexes"}, revision)

(* Slip: constraints in force are taken for constraints that hold. *)
verifyDefinitions(d, r, revision) ==
  /\ verifyOwnedAbsence(d, r, revision)
  /\ verifyColumns(d, r, revision) /\ verifyIndexes(d, revision) /\ mysqlConstraints(d, revision)

verifyStep(d, r, revision) ==
  /\ verifyOwnedAbsence(d, r, revision)
  /\ IF dialect = "sqlite" THEN verifySQLite(d, r, revision)
     ELSE /\ verifyColumns(d, r, revision) /\ verifyIndexes(d, revision)
          /\ IF dialect = "postgres" THEN postgresConstraints(d, revision) ELSE mysqlConstraints(d, revision)
  /\ verifyForeignKeyData(d, revision)

(* The journal: a prefix of the catalog of which only the last record may   *)
(* be incomplete.                                                           *)
Dirty(d) == d.journal # <<>> /\ d.journal[Len(d.journal)].state = "started"
Revision(d) == IF Dirty(d) THEN Len(d.journal) - 1 ELSE Len(d.journal)
KnownHistory(d, r) == Len(d.journal) <= config.target[r]

startRecord(d, r) == [d EXCEPT !.journal = Append(@, [state |-> "started", by |-> run[r].n])]

(* What is completed has just been verified. *)
completeRecord(d, r) ==
  [d EXCEPT !.journal[Len(d.journal)].state = "complete", !.touched = @ \ Owned(r)]

----------------------------------------------------------------------------
(* A run and its statements.                                                *)

At(r, where) == run[r].at = where
Goto(r, where) == [run EXCEPT ![r].at = where]
View(r) == IF tx[r] = None THEN db ELSE tx[r]
Changed(r, d) == IF tx[r] = None THEN [db |-> d, tx |-> tx] ELSE [db |-> db, tx |-> [tx EXCEPT ![r] = d]]

(* The run goes on to close with an error; a deferred Rollback takes back a *)
(* transaction of its own, and close that of SQLite.                        *)
Fails(r, flags) ==
  /\ run' = [run EXCEPT ![r].at = "close", ![r].flags = flags \union {"failed"}]
  /\ tx' = [tx EXCEPT ![r] = IF dialect = "sqlite" /\ session[r] = "alive" THEN @ ELSE None]

(* A statement succeeds; or it fails or times out; or the connection breaks *)
(* and the server goes on alone; or the connection had been lost before.    *)
Send(r, new, next, flags) ==
  /\ \/ /\ session[r] = "alive"
        /\ db' = new.db /\ tx' = new.tx /\ run' = next
        /\ UNCHANGED <<lock, ghost, session, used>>
     \/ /\ session[r] = "alive" /\ Fault /\ Fails(r, flags)
        /\ UNCHANGED <<db, lock, ghost, session>>
     \/ /\ session[r] = "alive" /\ dialect # "sqlite" /\ ghost = None /\ Fault
        /\ Fails(r, flags)
        /\ session' = [session EXCEPT ![r] = "dead"]
        /\ ghost' = new.db /\ lock' = "ghost"
        /\ UNCHANGED db
     \/ /\ session[r] = "dead" /\ Fails(r, flags)
        /\ UNCHANGED <<db, lock, ghost, session, used>>
  /\ UNCHANGED <<config, pooled, said>>

Reads(r, holds, next, flags) ==
  IF holds THEN Send(r, [db |-> db, tx |-> tx], next, flags)
  ELSE Fails(r, flags) /\ UNCHANGED <<config, db, lock, ghost, session, pooled, said, used>>

(* A server session without its client ends with or without the effect of   *)
(* its last statement, and only then gives up the lock.                     *)
GhostEnds ==
  /\ ghost # None
  /\ db' \in {db, ghost}
  /\ ghost' = None /\ lock' = None
  /\ UNCHANGED <<config, tx, session, pooled, run, said, used>>

(* The session dies: its lock goes with it, and what its transaction has    *)
(* done is lost.  The run finds out with its next statement.                *)
SessionLost(r) ==
  /\ session[r] = "alive" /\ Fault
  /\ session' = [session EXCEPT ![r] = "dead"]
  /\ lock' = IF lock = r THEN None ELSE lock
  /\ UNCHANGED <<config, db, tx, ghost, pooled, run, said>>

Crash(r) ==
  /\ run[r] # Idle /\ Fault
  /\ run' = [run EXCEPT ![r] = Idle]
  /\ session' = [session EXCEPT ![r] = "none"]
  /\ lock' = IF lock = r THEN None ELSE lock
  /\ tx' = [tx EXCEPT ![r] = None]
  /\ UNCHANGED <<config, db, ghost, pooled, said>>

----------------------------------------------------------------------------
(* Taking the lock.                                                         *)

acquire(r, op, id) ==
  /\ run[r] = Idle /\ Count("runs") /\ op \in config.operations
  /\ op \in {"repair", "retry"} \/ id = config.target[r]
  /\ run' = [run EXCEPT ![r] = [at |-> "lock", n |-> used.runs, op |-> op, id |-> id,
                                acquired |-> FALSE, flags |-> {}, k |-> 0]]
  /\ session' = [session EXCEPT ![r] = "alive"]
  /\ said' = [said EXCEPT ![r] = None]
  /\ UNCHANGED <<config, server, pooled>>

(* BEGIN IMMEDIATE is SQLite's lock and begins its transaction. *)
Locked(r) ==
  /\ lock' = r
  /\ tx' = IF dialect = "sqlite" THEN [tx EXCEPT ![r] = db] ELSE tx

(* The lock is tried again and again until LockTimeout.  The reply that it  *)
(* was taken may come too late for the deadline.                            *)
try(r) ==
  /\ At(r, "lock")
  /\ \/ /\ session[r] = "alive" /\ lock = None /\ Locked(r)
        /\ run' = [run EXCEPT ![r].acquired = TRUE, ![r].at = "configure"]
        /\ UNCHANGED used
     \/ /\ session[r] = "alive" /\ lock = None /\ Fault /\ Locked(r)
        /\ run' = [run EXCEPT ![r].flags = {"failed"}, ![r].at = "close"]
     \/ /\ lock # None \/ session[r] = "dead"
        /\ run' = [run EXCEPT ![r].flags = {"failed"}, ![r].at = "close"]
        /\ UNCHANGED <<lock, tx, used>>
  /\ UNCHANGED <<config, db, session, ghost, pooled, said>>

(* The session may be set up so that the run refuses it. *)
configure(r) ==
  /\ At(r, "configure")
  /\ \E supported \in BOOLEAN : Reads(r, supported, Goto(r, "history"), {})

(* Slip: only a failed cleanup makes a session uncertain. *)
KeepUnlessFailed(r, cleanupErr) == ~ cleanupErr

Keep(r, cleanupErr) == ~ cleanupErr /\ run[r].acquired

(* Close settles the transaction of SQLite, restores the settings and       *)
(* releases the lock, as far as that succeeds; an uncertain session is      *)
(* destroyed, and what it held goes with it.                                *)
Release(r, cleanupErr, committed, unlocked) ==
  /\ db' = IF committed THEN tx[r] ELSE db
  /\ tx' = [tx EXCEPT ![r] = None]
  /\ lock' = IF lock # r THEN lock
             ELSE IF unlocked \/ ~ Keep(r, cleanupErr) THEN None ELSE "pool"
  /\ pooled' = IF Keep(r, cleanupErr) THEN pooled \union {[locked |-> lock = r /\ ~ unlocked]} ELSE pooled

Outcome(r, cleanupErr) == run[r].flags \union IF cleanupErr THEN {"failed", "uncertain"} ELSE {}

Returns(r, cleanupErr) ==
  said' = [said EXCEPT ![r] = [n |-> run[r].n, op |-> run[r].op, id |-> run[r].id, flags |-> Outcome(r, cleanupErr)]]

close(r) ==
  /\ At(r, "close")
  /\ \/ /\ session[r] = "alive"
        /\ Release(r, FALSE, tx[r] # None /\ run[r].flags = {}, run[r].acquired)
        /\ Returns(r, FALSE)
        /\ UNCHANGED used
     \/ \E committed, unlocked \in BOOLEAN :
          /\ committed => session[r] = "alive" /\ tx[r] # None /\ run[r].flags = {}
          /\ unlocked => run[r].acquired
          /\ IF session[r] = "alive" THEN Fault ELSE UNCHANGED used
          /\ Release(r, TRUE, committed, unlocked)
          /\ Returns(r, TRUE)
  /\ run' = [run EXCEPT ![r] = Idle] /\ session' = [session EXCEPT ![r] = "none"]
  /\ UNCHANGED <<config, ghost>>

(* The caller gives up just before a successful run would commit. *)
Cancelled(r) ==
  /\ At(r, "close") /\ run[r].flags = {} /\ Fault
  /\ run' = [run EXCEPT ![r].flags = {"failed"}]
  /\ UNCHANGED <<config, server, session, pooled, said>>

----------------------------------------------------------------------------
(* The operations.                                                          *)

(* The journal is read and validated at the start, and again after every    *)
(* step.  A run that finds its work done ends.                              *)
readHistory(r) ==
  /\ At(r, "history")
  /\ Reads(r, KnownHistory(View(r), r), Goto(r, run[r].op), {})

Incomplete(r, id) == Dirty(View(r)) /\ id = Len(View(r).journal)

Verify(r) ==
  /\ At(r, "verify")
  /\ Reads(r, /\ ~ Dirty(View(r)) /\ Revision(View(r)) = config.target[r]
              /\ verifyStep(View(r), r, config.target[r]), Goto(r, "close"), {})

(* The exact incomplete step, verified from schema to data, is marked       *)
(* complete.                                                                *)
RepairComplete(r) ==
  /\ At(r, "repair")
  /\ Reads(r, Incomplete(r, run[r].id) /\ verifyStep(View(r), r, run[r].id), Goto(r, "finish"), {"dirty"})

(* Slip: partial DDL is replayed as it is found. *)
retryBlindly(r) ==
  /\ At(r, "retry")
  /\ Reads(r, Incomplete(r, run[r].id) /\ run[r].id > 1 /\ dialect = "mysql" /\ config.policy,
           [run EXCEPT ![r].at = "statement", ![r].k = 1], {"dirty"})

(* The exact incomplete upgrade is replayed once its starting schema is     *)
(* verified; the data checks may still refuse.                              *)
retryStep(r) ==
  /\ At(r, "retry")
  /\ \E ready \in BOOLEAN :
       Reads(r, /\ Incomplete(r, run[r].id) /\ run[r].id > 1 /\ dialect = "mysql" /\ config.policy
                /\ verifyStep(View(r), r, run[r].id - 1) /\ ready,
             [run EXCEPT ![r].at = "statement", ![r].k = 1],
             IF Dirty(View(r)) THEN {"dirty"} ELSE {})

(* An untracked installation is adopted as the baseline: one transaction    *)
(* writes the record, started and complete.                                 *)
Adopt(r) ==
  /\ At(r, "adopt")
  /\ IF View(r).journal = <<>> /\ verifyStep(View(r), r, 1)
       THEN Send(r, Changed(r, completeRecord(startRecord(View(r), r), r)), Goto(r, "close"), {"uncertain"})
       ELSE Reads(r, FALSE, run, {})

(* A clean journal, and under it no name taken or the schema it speaks of.  *)
(* A missing journal is created; nothing tells it from an empty one.        *)
Preflight(r) ==
  /\ At(r, "apply")
  /\ Reads(r, /\ ~ Dirty(View(r))
              /\ IF View(r).journal = <<>> THEN requireUnused(View(r), r)
                 ELSE verifyStep(View(r), r, Len(View(r).journal)),
           Goto(r, "next"), IF Dirty(View(r)) THEN {"dirty"} ELSE {})

(* MySQL has left a step incomplete when it fails: nothing rolls it back. *)
Partial == IF dialect = "mysql" THEN {"dirty", "uncertain"} ELSE {}

(* The next pending step begins, in a transaction where the dialect has     *)
(* one: its preconditions are checked and its record is written before its  *)
(* first statement.                                                         *)
startStep(r) ==
  /\ At(r, "next")
  /\ IF Revision(View(r)) = config.target[r] THEN Reads(r, TRUE, Goto(r, "close"), {})
     ELSE \E ready \in BOOLEAN :
            IF ready
              THEN LET new == startRecord(View(r), r)
                   IN Send(r, IF dialect = "postgres" THEN [db |-> db, tx |-> [tx EXCEPT ![r] = new]]
                              ELSE Changed(r, new), [run EXCEPT ![r].at = "statement", ![r].k = 1], Partial)
              ELSE Reads(r, FALSE, run, {})

Current(r) == Len(View(r).journal)

(* Each statement makes its change, and fails where it is already there. *)
executeStatement(r) ==
  /\ At(r, "statement")
  /\ LET o == <<Current(r), run[r].k>>
         last == run[r].k = Statements
     IN IF View(r).schema[o] # Missing THEN Reads(r, FALSE, run, Partial)
        ELSE Send(r, Changed(r, [View(r) EXCEPT !.schema[o] = {}]),
                  [run EXCEPT ![r].at = IF last THEN "verified" ELSE "statement", ![r].k = @ + 1], Partial)

Postconditions(r) ==
  /\ At(r, "verified")
  /\ Reads(r, verifyStep(View(r), r, Current(r)), Goto(r, "finish"), Partial)

After(r) == IF run[r].op = "apply" THEN "reread" ELSE "close"

(* The record is completed, and PostgreSQL commits the step. *)
finishStep(r) ==
  /\ At(r, "finish")
  /\ Send(r, Changed(r, completeRecord(View(r), r)),
          Goto(r, IF tx[r] # None /\ dialect = "postgres" THEN "commit" ELSE After(r)),
          IF run[r].op = "repair" THEN {"dirty", "uncertain"} ELSE Partial)

commitStep(r) ==
  /\ At(r, "commit")
  /\ Send(r, [db |-> tx[r], tx |-> [tx EXCEPT ![r] = None]], Goto(r, After(r)), {"uncertain"})

rereadHistory(r) ==
  /\ At(r, "reread")
  /\ Reads(r, KnownHistory(View(r), r), Goto(r, "next"), {})

runCatalog(r) ==
  \/ try(r) \/ configure(r) \/ readHistory(r)
  \/ Verify(r) \/ RepairComplete(r) \/ retryStep(r) \/ Adopt(r) \/ Preflight(r)
  \/ startStep(r) \/ executeStatement(r) \/ Postconditions(r) \/ finishStep(r) \/ commitStep(r) \/ rereadHistory(r)
  \/ close(r) \/ Cancelled(r)

----------------------------------------------------------------------------
(* Operators and applications, while no run holds the lock.                 *)

Touch(o, what) ==
  /\ lock = None /\ Count("touches")
  /\ db' = [db EXCEPT !.schema[o] = what, !.touched = @ \union {o}]
  /\ UNCHANGED <<config, tx, lock, session, ghost, pooled, run, said>>

(* Somebody takes a published name, alters a change or loses its rows'      *)
(* parents; or undoes or finishes by hand what a failed step left.          *)
Squat(o) == Named(o) /\ db.schema[o] = Missing /\ Touch(o, {"columns"})
Drift(o, aspect) == db.schema[o] = {} /\ Touch(o, {aspect})
Undo(o) == Dirty(db) /\ o[1] = Len(db.journal) /\ db.schema[o] = {} /\ Touch(o, Missing)
Finish(o) == Dirty(db) /\ o[1] = Len(db.journal) /\ db.schema[o] = Missing /\ Touch(o, {})

MigrationNext ==
  \/ \E r \in Run : runCatalog(r) \/ SessionLost(r) \/ Crash(r)
  \/ \E r \in Run, op \in Operation, id \in Step : acquire(r, op, id)
  \/ \E o \in Change : Squat(o) \/ Undo(o) \/ Finish(o)
  \/ \E o \in Change, aspect \in Aspect : Drift(o, aspect)
  \/ GhostEnds

MigrationSpec == MigrationInit /\ [][MigrationNext]_migrationVars

----------------------------------------------------------------------------
(* No connection goes back to the pool with the migration lock on its       *)
(* session, though the reply that granted the lock, or the one that         *)
(* released it, was lost: nobody could ever migrate again.                  *)
LockNeverPooled == \A c \in pooled : ~ c.locked

(* A statement is only ever sent to the schema it was written for: the      *)
(* published one before its step with the statements before it, of its own  *)
(* catalog as far as it goes.  It holds across concurrent runs, lost locks, *)
(* replays and whatever operators did before the run.                       *)
StatementFitsSchema ==
  \A r \in Run :
    At(r, "statement") /\ session[r] = "alive" =>
      \A o \in Owned(r) :
        View(r).schema[o] = IF o[1] < Current(r) \/ (o[1] = Current(r) /\ o[2] < run[r].k) THEN {} ELSE Missing

(* What a run returns can be relied on.  A success is committed: the        *)
(* release's revision, the baseline, or the step that was named.  And an    *)
(* error that warns neither of an incomplete step nor of an uncertain       *)
(* outcome has left no step of that run incomplete.                         *)
ReportHonest ==
  \A r \in Run :
    said[r] # None =>
      IF said[r].flags = {}
        THEN Revision(db) >= IF said[r].op = "adopt" THEN 1 ELSE said[r].id
        ELSE said[r].flags = {"failed"} =>
               \A n \in DOMAIN db.journal : db.journal[n].by = said[r].n => db.journal[n].state = "complete"

(* The journal tells the truth about everything operators left alone: what  *)
(* it calls complete is installed and exact, down to the rows, what it does *)
(* not speak of is absent, and the one step in between is on record as      *)
(* incomplete - at every moment, whatever was interrupted.                  *)
JournalMatches ==
  \A o \in Change \ db.touched :
    IF Dirty(db) /\ o[1] = Len(db.journal) THEN db.schema[o] \in {{}, Missing}
    ELSE db.schema[o] = Published(Revision(db))[o]

(* What is on record can be relied upon by the next operator: the journal   *)
(* and what the runs returned.                                              *)
JournalTruthful == JournalMatches /\ ReportHonest
=============================================================================
