---------------------------- MODULE AuditOutbox ----------------------------
(***************************************************************************)
(* The durable audit pipeline (audit/, internal/sqlstore/audit_*.go).      *)
(*                                                                         *)
(* An operation writes its audit record, and the obligation to deliver it, *)
(* in its own transaction.  The dispatchers of all instances drain the     *)
(* obligations: one statement selects candidates, one compare-and-swap per *)
(* candidate claims it for the length of a lease, the batch goes to every  *)
(* sink in turn, and every row is settled on its own.  Rows are settled by *)
(* their id, whoever has claimed them by then.  Janitors abandon rows that *)
(* are too old or too many, and retention deletes the records.  What is    *)
(* lost on the way is logged by a step that follows the statement.         *)
(*                                                                         *)
(* A tick is the unit of all durations.  Ages stop counting where nothing  *)
(* can tell them apart, so behaviours go on for ever in finitely many      *)
(* states.                                                                 *)
(***************************************************************************)
EXTENDS Naturals, FiniteSets

CONSTANTS Event,        \* audited operations, one event each
          BestEffort,   \* events of the low delivery priority
          Worker,       \* dispatchers, each with a janitor, in instances of their own
          Configs,      \* the configurations an instance may be started with
          None

(* A row of audit_outbox: how long it waits, the age of its claim and whose *)
(* claim it is, its attempts, the age of a dead letter and whether it died  *)
(* after the retry window.                                                  *)
OutboxRow == [wait : Nat, held : Nat \union {None}, owner : Worker \union {None}, attempts : Nat,
              dead : Nat \union {None}, late : BOOLEAN]

ASSUME AuditConstants ==
  /\ BestEffort \subseteq Event
  /\ None \notin Nat \union Worker \union OutboxRow
  /\ Configs \subseteq [events : SUBSET Event, dispatchers : SUBSET Worker, janitors : SUBSET Worker,
                        maxAttempts : Nat \ {0}, lease : Nat, batch : Nat \ {0}, sinks : Nat \ {0}, closed : BOOLEAN,
                        outboxMaxAge : Nat, deadLetterTTL : Nat,
                        retention : Nat, maxRows : Nat, faults : Nat]

VARIABLES
  config,    \* the configuration, where 0 disables a clock or the cap, with the operations,
             \* dispatchers and janitors that run and a bound on crashes and failed statements
  op,        \* where each operation is
  staged,    \* what each operation's transaction will commit
  record,    \* audit_log: whether each event's record is absent, kept or deleted by retention
  outbox,    \* audit_outbox: the delivery obligation of each event, or None
  age,       \* time since each event was created
  worker,    \* what each dispatcher is doing
  janitor,   \* what each janitor is doing
  acked,     \* per event, the sinks that acknowledged it (history)
  reported,  \* losses the log reports, by marker and event (history)
  untold,    \* losses whose report a fault has cut off (history)
  faults     \* crashes and lost statements so far

auditVars == <<config, op, staged, record, outbox, age, worker, janitor, acked, reported, untold, faults>>
queue == <<worker, janitor, acked, untold>>

(* A statement fails, its reply is lost, or an instance stops. *)
Fault == faults < config.faults /\ faults' = faults + 1

Least(a, b) == IF a < b THEN a ELSE b

----------------------------------------------------------------------------
(* Configuration.                                                           *)

(* The delay doubles with every attempt, up to a ceiling, here of two. *)
nextBackoff(attempts) == IF attempts = 0 THEN 1 ELSE 2

(* The sum of the delays of all attempts: their ticks are counted. *)
retryWindowFor(attempts) ==
  Cardinality({t \in (0 .. attempts - 1) \X (1 .. 2) : t[2] <= nextBackoff(t[1])})

(* Slip: only the clock of pending rows is compared with retention. *)
PendingClockOnly(c) == c.retention > 0 => c.outboxMaxAge > 0 /\ c.outboxMaxAge < c.retention

(* A finite retention needs finite clocks, and has to be longer than the    *)
(* life of a pending row and than the retries and the evidence window.      *)
ValidateConfig(c) ==
  c.retention > 0 =>
    /\ c.outboxMaxAge > 0 /\ c.deadLetterTTL > 0
    /\ c.outboxMaxAge < c.retention
    /\ retryWindowFor(c.maxAttempts) + c.deadLetterTTL < c.retention

Idle == [at |-> "idle"]

(* An instance starts only with a valid configuration. *)
AuditInit ==
  /\ config \in {c \in Configs : ValidateConfig(c)}
  /\ op = [e \in Event |-> "todo"] /\ staged = [e \in Event |-> {}]
  /\ record = [e \in Event |-> "absent"]
  /\ outbox = [e \in Event |-> None]
  /\ age = [e \in Event |-> 0]
  /\ worker = [w \in Worker |-> Idle] /\ janitor = [w \in Worker |-> Idle]
  /\ acked = [e \in Event |-> {}]
  /\ reported = {} /\ untold = {} /\ faults = 0

----------------------------------------------------------------------------
(* Recording.                                                               *)

Report(marker, e) == reported' = reported \union {<<marker, e>>}

(* A new obligation: due at once, never claimed. *)
Obligation == [wait |-> 0, held |-> None, owner |-> None, attempts |-> 0, dead |-> None, late |-> FALSE]

(* Record, called in a transaction: the record and the obligation each have *)
(* a savepoint, so that a failed insert leaves the transaction usable.      *)
(* Fail-open reports what is lost and goes on, fail-closed aborts.          *)
Record(e, failClosed) ==
  /\ op[e] = "todo" /\ e \in config.events
  /\ \/ /\ op' = [op EXCEPT ![e] = "open"]
        /\ staged' = [staged EXCEPT ![e] = {"record", "obligation"}]
        /\ UNCHANGED <<reported, faults>>
     \/ \E kept \in {{}, {"record"}} :
          /\ Fault
          /\ IF failClosed
               THEN op' = [op EXCEPT ![e] = "aborted"] /\ UNCHANGED <<staged, reported>>
               ELSE /\ op' = [op EXCEPT ![e] = "open"]
                    /\ staged' = [staged EXCEPT ![e] = kept]
                    /\ Report(IF kept = {} THEN "record_lost" ELSE "delivery_missed", e)
  /\ UNCHANGED <<config, record, outbox, age, queue>>

Commit(e) ==
  /\ op[e] = "open"
  /\ op' = [op EXCEPT ![e] = "committed"] /\ staged' = [staged EXCEPT ![e] = {}]
  /\ record' = [record EXCEPT ![e] = IF "record" \in staged[e] THEN "kept" ELSE @]
  /\ outbox' = [outbox EXCEPT ![e] = IF "obligation" \in staged[e] THEN Obligation ELSE @]
  /\ UNCHANGED <<config, age, reported, queue, faults>>

Rollback(e) ==
  /\ op[e] = "open"
  /\ op' = [op EXCEPT ![e] = "aborted"] /\ staged' = [staged EXCEPT ![e] = {}]
  /\ UNCHANGED <<config, record, outbox, age, reported, queue, faults>>

(* Outside a transaction nothing can be aborted: the two inserts commit one *)
(* after the other, fail-closed is fail-open, and an insert that fails, or  *)
(* whose reply is lost, is logged.                                          *)
RecordAlone(e) ==
  /\ op[e] = "todo" /\ e \in config.events
  /\ \/ /\ record' = [record EXCEPT ![e] = "kept"]
        /\ op' = [op EXCEPT ![e] = "recorded"] /\ UNCHANGED faults
     \/ /\ Fault /\ op' = [op EXCEPT ![e] = "record_lost"]
        /\ \E landed \in {"absent", "kept"} : record' = [record EXCEPT ![e] = landed]
  /\ UNCHANGED <<config, staged, outbox, age, reported, queue>>

ObligeAlone(e) ==
  /\ op[e] = "recorded"
  /\ \/ /\ outbox' = [outbox EXCEPT ![e] = Obligation]
        /\ op' = [op EXCEPT ![e] = "done"] /\ UNCHANGED faults
     \/ /\ Fault /\ op' = [op EXCEPT ![e] = "delivery_missed"]
        /\ \E landed \in {None, Obligation} : outbox' = [outbox EXCEPT ![e] = landed]
  /\ UNCHANGED <<config, staged, record, age, reported, queue>>

LogFailure(e) ==
  /\ op[e] \in {"record_lost", "delivery_missed"}
  /\ Report(op[e], e) /\ op' = [op EXCEPT ![e] = "done"]
  /\ UNCHANGED <<config, staged, record, outbox, age, queue, faults>>

(* The process stops between the two inserts, or before it logs. *)
CutShort(e) ==
  /\ op[e] \in {"recorded", "record_lost", "delivery_missed"} /\ Fault
  /\ op' = [op EXCEPT ![e] = "done"] /\ untold' = untold \union {e}
  /\ UNCHANGED <<config, staged, record, outbox, age, worker, janitor, acked, reported>>

----------------------------------------------------------------------------
(* Dispatching.                                                             *)

At(w, where) == worker[w].at = where
Do(w, next) == worker' = [worker EXCEPT ![w] = next]

(* A claim token belongs to one batch; what a batch leaves claimed when it  *)
(* ends nobody owns.                                                        *)
Abandon(w, rows) ==
  [e \in Event |-> IF rows[e] # None /\ rows[e].owner = w THEN [rows[e] EXCEPT !.owner = None] ELSE rows[e]]

Rows == {e \in Event : outbox[e] # None}
Dead(e) == outbox[e].dead # None

(* Slip: a claim never gives way, whatever became of its holder. *)
UnclaimedOnly(e) == ~ Dead(e) /\ outbox[e].wait = 0 /\ outbox[e].held = None

(* Due, alive, and not claimed within the lease. *)
Claimable(e) ==
  /\ ~ Dead(e) /\ outbox[e].wait = 0
  /\ outbox[e].held # None => outbox[e].held > config.lease

(* A batch of what is claimable, the high priority first. *)
Candidates ==
  LET due == {e \in Rows : Claimable(e)}
  IN {s \in SUBSET due : /\ Cardinality(s) = Least(config.batch, Cardinality(due))
                         /\ \A e \in s \intersect BestEffort : due \ BestEffort \subseteq s}

SelectCandidates(w) ==
  /\ At(w, "idle") /\ w \in config.dispatchers
  /\ \E s \in Candidates \ {{}} : Do(w, [at |-> "claim", todo |-> s, won |-> {}])
  /\ UNCHANGED <<config, op, staged, record, outbox, age, janitor, acked, reported, untold, faults>>

(* An attempt is counted when it is claimed, so that a crash counts too. *)
Counted(r) == [r EXCEPT !.attempts = Least(@ + 1, config.maxAttempts)]

(* The compare-and-swap checks again what made the row a candidate. *)
Claim(w, e) ==
  /\ At(w, "claim") /\ e \in worker[w].todo
  /\ LET wins == outbox[e] # None /\ Claimable(e)
     IN /\ outbox' = IF wins THEN [outbox EXCEPT ![e] = [Counted(@) EXCEPT !.held = 0, !.owner = w]] ELSE outbox
        /\ Do(w, [worker[w] EXCEPT !.todo = @ \ {e}, !.won = IF wins THEN @ \union {e} ELSE @])
  /\ UNCHANGED <<config, op, staged, record, age, janitor, acked, reported, untold, faults>>

(* The rows that still carry the token are read with their records and the  *)
(* attempts they count; a row without its record stays claimed.             *)
ReadClaimed(w) ==
  /\ At(w, "claim") /\ worker[w].todo = {}
  /\ LET batch == {e \in Rows : outbox[e].owner = w /\ record[e] = "kept"}
     IN IF batch = {}
          THEN Do(w, Idle) /\ outbox' = Abandon(w, outbox)
          ELSE /\ Do(w, [at |-> "deliver", sink |-> 1, failed |-> FALSE, todo |-> batch,
                         attempts |-> [e \in batch |-> outbox[e].attempts]])
               /\ UNCHANGED outbox
  /\ UNCHANGED <<config, op, staged, record, age, janitor, acked, reported, untold, faults>>

(* A batch has failed if any of its sinks has. *)
SomeFailed(before, ok) == before \/ ~ ok

(* The batch goes to one sink after the other; after a failure the rest of  *)
(* the sinks is left out when delivery is fail-closed.                      *)
HandleBatch(w) ==
  /\ At(w, "deliver")
  /\ \E ok \in BOOLEAN :
       LET d == worker[w]
           more == d.sink < config.sinks /\ (ok \/ ~ config.closed)
           failed == SomeFailed(d.failed, ok)
       IN /\ acked' = IF ok THEN [e \in Event |-> IF e \in d.todo THEN acked[e] \union {d.sink} ELSE acked[e]] ELSE acked
          /\ Do(w, IF more THEN [d EXCEPT !.sink = @ + 1, !.failed = failed]
                   ELSE [at |-> "settle", failed |-> failed, todo |-> d.todo, attempts |-> d.attempts])
  /\ UNCHANGED <<config, op, staged, record, outbox, age, janitor, reported, untold, faults>>

(* The statements that settle a row name it by its id alone. *)
Settle(e, row) == [outbox EXCEPT ![e] = IF @ = None THEN None ELSE row]

MarkSuccess(e) == Settle(e, None)

MarkFailure(e, attempts) ==
  Settle(e, [outbox[e] EXCEPT !.wait = nextBackoff(attempts), !.held = None, !.owner = None])

MarkDeadLetter(e) ==
  Settle(e, [outbox[e] EXCEPT !.dead = 0, !.held = None, !.owner = None,
                              !.late = age[e] > retryWindowFor(config.maxAttempts)])

(* Rows are settled one by one, by what the batch knows of them; a row      *)
(* whose statement fails stays claimed.  A dead letter is logged after the  *)
(* statement that marks it, unless the reply of that statement is lost.     *)
SettleBatch(w, e) ==
  /\ At(w, "settle") /\ e \in worker[w].todo
  /\ LET d == worker[w]
         rest == d.todo \ {e}
         next == IF rest = {} THEN Idle ELSE [d EXCEPT !.todo = rest]
         last == d.attempts[e] >= config.maxAttempts
         Leave(rows) == outbox' = IF rest = {} THEN Abandon(w, rows) ELSE rows
     IN \/ d.failed /\ last /\ Leave(MarkDeadLetter(e))
           /\ \/ Do(w, [at |-> "log", lost |-> e, then |-> next]) /\ UNCHANGED <<untold, faults>>
              \/ Do(w, next) /\ Fault /\ untold' = untold \union ({e} \intersect Rows)
        \/ d.failed /\ ~ last /\ Leave(MarkFailure(e, d.attempts[e])) /\ Do(w, next) /\ UNCHANGED <<untold, faults>>
        \/ ~ d.failed /\ Leave(MarkSuccess(e)) /\ Do(w, next) /\ UNCHANGED <<untold, faults>>
        \/ Fault /\ Leave(outbox) /\ Do(w, next) /\ UNCHANGED untold
  /\ UNCHANGED <<config, op, staged, record, age, janitor, acked, reported>>

LogDeadLetter(w) ==
  /\ At(w, "log")
  /\ Report("dead_lettered", worker[w].lost) /\ Do(w, worker[w].then)
  /\ UNCHANGED <<config, op, staged, record, outbox, age, janitor, acked, untold, faults>>

(* What a process has taken out of the outbox, or marked dead, and not yet  *)
(* logged.                                                                  *)
InHand(w) ==
  (IF At(w, "log") THEN {worker[w].lost} ELSE {})
    \union (IF janitor[w].at \in {"drop", "orphans"} THEN janitor[w].lost ELSE {})

(* The instance stops, or the database fails, in the middle of a batch:     *)
(* its claims stay, and nobody hears of what it had in hand.                *)
Crash(w) ==
  /\ worker[w] # Idle \/ janitor[w] # Idle
  /\ Fault
  /\ Do(w, Idle) /\ outbox' = Abandon(w, outbox)
  /\ janitor' = [janitor EXCEPT ![w] = Idle]
  /\ untold' = untold \union InHand(w)
  /\ UNCHANGED <<config, op, staged, record, age, acked, reported>>

----------------------------------------------------------------------------
(* The janitors.  Each step is one statement, or the log lines at the end.  *)

Rests(w) == janitor[w] = Idle /\ w \in config.janitors
Turn(w, next) == janitor' = [janitor EXCEPT ![w] = next]

Drop(rows) == outbox' = [e \in Event |-> IF e \in rows THEN None ELSE outbox[e]]

(* A statement fails: it had no effect, or its reply is lost. *)
FailedDrop(rows, lost) ==
  /\ Fault
  /\ \/ UNCHANGED outbox /\ untold' = untold \union lost
     \/ Drop(rows) /\ untold' = untold \union lost \union {e \in rows \intersect Rows : ~ Dead(e)}

(* Pending rows past their age, and dead letters past their evidence window. *)
Expired ==
  {e \in Rows : IF Dead(e) THEN config.deadLetterTTL > 0 /\ outbox[e].dead > config.deadLetterTTL
                           ELSE config.outboxMaxAge > 0 /\ age[e] > config.outboxMaxAge}

(* The sweep counts what has expired, deletes by the same cutoffs what      *)
(* still has, and logs the pending rows of the count.                       *)
CountExpired(w) ==
  /\ Rests(w) /\ Expired # {}
  /\ Turn(w, [at |-> "sweep", todo |-> Expired, pending |-> {e \in Expired : ~ Dead(e)}])
  /\ UNCHANGED <<config, op, staged, record, outbox, age, worker, acked, reported, untold, faults>>

SweepExpired(w) ==
  /\ janitor[w].at = "sweep"
  /\ LET j == janitor[w]
         gone == {e \in j.todo \intersect Expired : Dead(e) <=> e \notin j.pending}
     IN \/ /\ Drop(gone) /\ UNCHANGED <<untold, faults>>
           /\ Turn(w, [at |-> "drop", todo |-> {}, lost |-> j.pending])
        \/ FailedDrop(gone, {}) /\ Turn(w, Idle)
  /\ UNCHANGED <<config, op, staged, record, age, worker, acked, reported>>

(* The first n rows in the order of a counter that runs up. *)
Oldest(rows, counter, n) ==
  {s \in SUBSET rows : /\ Cardinality(s) = Least(n, Cardinality(rows))
                       /\ \A e \in s, f \in rows \ s : counter[e] >= counter[f]}

(* The emergency valve: the overflow is counted, dead letters are shed      *)
(* first, and then the oldest rows for what remains.  Rows are selected and *)
(* then deleted one by one; the outbox may change in between.               *)
CountTotal(w) ==
  /\ Rests(w) /\ config.maxRows > 0 /\ Cardinality(Rows) > config.maxRows
  /\ Turn(w, [at |-> "overflow", n |-> Cardinality(Rows) - config.maxRows])
  /\ UNCHANGED <<config, op, staged, record, outbox, age, worker, acked, reported, untold, faults>>

SelectDead(w) ==
  /\ janitor[w].at = "overflow"
  /\ \E s \in Oldest({e \in Rows : Dead(e)}, [e \in Rows |-> outbox[e].dead], janitor[w].n) :
       Turn(w, [at |-> "dead", todo |-> s, n |-> janitor[w].n])
  /\ UNCHANGED <<config, op, staged, record, outbox, age, worker, acked, reported, untold, faults>>

EvictDead(w, e) ==
  /\ janitor[w].at = "dead" /\ e \in janitor[w].todo
  /\ \/ /\ Drop({e}) /\ UNCHANGED <<untold, faults>>
        /\ LET j == janitor[w]
           IN Turn(w, [at |-> "dead", todo |-> j.todo \ {e}, n |-> IF e \in Rows THEN j.n - 1 ELSE j.n])
     \/ FailedDrop({e}, {}) /\ Turn(w, Idle)
  /\ UNCHANGED <<config, op, staged, record, age, worker, acked, reported>>

SelectOldest(w) ==
  /\ janitor[w].at = "dead" /\ janitor[w].todo = {}
  /\ \/ janitor[w].n <= 0 /\ Turn(w, Idle)
     \/ /\ janitor[w].n > 0
        /\ \E s \in Oldest(Rows, age, janitor[w].n) : Turn(w, [at |-> "drop", todo |-> s, lost |-> {}])
  /\ UNCHANGED <<config, op, staged, record, outbox, age, worker, acked, reported, untold, faults>>

(* Slip: what the second pass sheds is counted with the dead letters, of    *)
(* which nothing is logged.                                                 *)
ShedQuietly(w, e) ==
  /\ janitor[w].at = "drop" /\ e \in janitor[w].todo
  /\ Drop({e}) /\ Turn(w, [janitor[w] EXCEPT !.todo = @ \ {e}])
  /\ UNCHANGED <<config, op, staged, record, age, worker, acked, reported, untold, faults>>

(* After a failed statement the valve logs what it has shed so far. *)
EvictOldest(w, e) ==
  /\ janitor[w].at = "drop" /\ e \in janitor[w].todo
  /\ \/ /\ Drop({e}) /\ UNCHANGED <<untold, faults>>
        /\ Turn(w, [janitor[w] EXCEPT !.todo = @ \ {e}, !.lost = @ \union ({e} \intersect Rows)])
     \/ FailedDrop({e}, {}) /\ Turn(w, [janitor[w] EXCEPT !.todo = {}])
  /\ UNCHANGED <<config, op, staged, record, age, worker, acked, reported>>

(* An obligation without its record cannot be delivered.  After a failed    *)
(* statement the scan forgets what it has purged.                           *)
SelectOrphans(w) ==
  /\ Rests(w)
  /\ LET orphans == {e \in Rows : record[e] # "kept"}
     IN orphans # {} /\ Turn(w, [at |-> "orphans", todo |-> orphans, lost |-> {}])
  /\ UNCHANGED <<config, op, staged, record, outbox, age, worker, acked, reported, untold, faults>>

PurgeOrphans(w, e) ==
  /\ janitor[w].at = "orphans" /\ e \in janitor[w].todo
  /\ \/ /\ Drop({e}) /\ UNCHANGED <<untold, faults>>
        /\ Turn(w, [janitor[w] EXCEPT !.todo = @ \ {e}, !.lost = @ \union {e}])
     \/ FailedDrop({e}, janitor[w].lost) /\ Turn(w, Idle)
  /\ UNCHANGED <<config, op, staged, record, age, worker, acked, reported>>

LogLosses(w) ==
  /\ janitor[w].at \in {"drop", "orphans"} /\ janitor[w].todo = {}
  /\ LET marker == [drop |-> "delivery_dropped", orphans |-> "delivery_orphaned"][janitor[w].at]
     IN reported' = reported \union {<<marker, e>> : e \in janitor[w].lost}
  /\ Turn(w, Idle)
  /\ UNCHANGED <<config, op, staged, record, outbox, age, worker, acked, untold, faults>>

(* Retention deletes by age alone, on a timer of its own, in every instance *)
(* whether or not it has sinks to serve.                                    *)
Cleanup ==
  /\ config.retention > 0
  /\ \E e \in Event : record[e] = "kept" /\ age[e] > config.retention
  /\ record' = [e \in Event |-> IF record[e] = "kept" /\ age[e] > config.retention THEN "deleted" ELSE record[e]]
  /\ UNCHANGED <<config, op, staged, outbox, age, reported, queue, faults>>

(* Time passes for everything that is waiting.  A claim and the statement   *)
(* that reads it back are milliseconds apart, and the shortest lease is a   *)
(* minute; an operation is short against the clocks, which count in days.   *)
Older(t, limit) == Least(t + 1, limit)

Tick ==
  /\ \A w \in Worker : At(w, "claim") => worker[w].won = {}
  /\ age' = [e \in Event |-> IF op[e] \in {"todo", "open", "recorded"} \/ config.outboxMaxAge = 0 THEN age[e]
                             ELSE Older(age[e], 1 + IF config.retention > 0 THEN config.retention
                                                                           ELSE config.outboxMaxAge)]
  /\ outbox' = [e \in Event |-> IF outbox[e] = None THEN None ELSE
                  [outbox[e] EXCEPT !.wait = IF @ = 0 THEN 0 ELSE @ - 1,
                                    !.held = IF @ = None THEN None ELSE Older(@, config.lease + 1),
                                    !.dead = IF @ = None \/ config.deadLetterTTL = 0 THEN @
                                             ELSE Older(@, config.deadLetterTTL + 1)]]
  /\ UNCHANGED <<config, op, staged, record, reported, queue, faults>>

----------------------------------------------------------------------------

Operate(e) ==
  \/ \E failClosed \in BOOLEAN : Record(e, failClosed)
  \/ Commit(e) \/ Rollback(e)
  \/ RecordAlone(e) \/ ObligeAlone(e) \/ LogFailure(e) \/ CutShort(e)

dispatchOnce(w) ==
  \/ SelectCandidates(w) \/ ReadClaimed(w) \/ HandleBatch(w) \/ LogDeadLetter(w)
  \/ \E e \in Event : Claim(w, e) \/ SettleBatch(w, e)

janitorLoop(w) ==
  \/ CountExpired(w) \/ SweepExpired(w)
  \/ CountTotal(w) \/ SelectDead(w) \/ SelectOldest(w)
  \/ SelectOrphans(w) \/ LogLosses(w)
  \/ \E e \in Event : EvictDead(w, e) \/ EvictOldest(w, e) \/ PurgeOrphans(w, e)

AuditNext ==
  \/ \E e \in Event : Operate(e)
  \/ \E w \in Worker : dispatchOnce(w) \/ janitorLoop(w) \/ Crash(w)
  \/ Cleanup \/ Tick

(* Dispatchers and janitors act on a timer and time passes; operations,     *)
(* retention and faults owe nothing.                                        *)
AuditFairness ==
  /\ WF_auditVars(Tick)
  /\ \A w \in Worker : WF_auditVars(dispatchOnce(w)) /\ WF_auditVars(janitorLoop(w))

AuditSpec == AuditInit /\ [][AuditNext]_auditVars /\ AuditFairness

----------------------------------------------------------------------------
(* A transaction that commits leaves a record, or a report that the record  *)
(* was lost; one that does not leaves neither a record nor an obligation;   *)
(* and where there is an obligation there is its record.                    *)
RecordIffCommit ==
  \A e \in Event :
    /\ op[e] = "committed" => record[e] # "absent" \/ <<"record_lost", e>> \in reported
    /\ op[e] \in {"todo", "open", "aborted"} => record[e] = "absent" /\ outbox[e] = None
    /\ outbox[e] # None => record[e] # "absent"

(* The loss of e is in the log, or the process that caused it has yet to    *)
(* log it, or a fault struck in between.                                    *)
AccountedFor(e) ==
  \/ \E r \in reported : r[2] = e
  \/ \E w \in Worker : e \in InHand(w)
  \/ e \in untold

(* No event disappears quietly.  Its record stands or falls with the        *)
(* transaction, and its obligation was acknowledged by every sink, or the   *)
(* log says that it never existed, was given up, dropped or orphaned, as    *)
(* soon as the process that gave it up has logged it; whoever else claimed, *)
(* settled or deleted the row in the meantime.  The exceptions: a process   *)
(* stops, or loses the reply of its statement, before it logs, and an       *)
(* orphan scan forgets what it had purged when a statement fails.           *)
NoSilentLoss ==
  /\ RecordIffCommit
  /\ \A e \in Event :
       op[e] \in {"committed", "done"} /\ outbox[e] = None =>
         acked[e] = 1 .. config.sinks \/ AccountedFor(e)

(* Retention and the outbox have clocks of their own, and nothing orders    *)
(* them.  Whatever the retries, crashes and leases, the record of an        *)
(* obligation goes only when the obligation is past its own clock and due   *)
(* to be swept, or is a dead letter that died after the retry window,       *)
(* behind a backlog, and so outlives its record.                            *)
RecordOutlives ==
  \A e \in Rows : record[e] = "deleted" => e \in Expired \/ (Dead(e) /\ outbox[e].late)

(* Every obligation is settled in the end, however often dispatchers crash, *)
(* stall beyond their lease or settle each other's rows: it is delivered or *)
(* dead-lettered, or a janitor takes it.                                    *)
EverySettled ==
  \A e \in Event : (outbox[e] # None /\ outbox[e].dead = None) ~> (outbox[e] = None \/ outbox[e].dead # None)

=============================================================================
