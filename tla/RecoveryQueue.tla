--------------------------- MODULE RecoveryQueue ---------------------------
(***************************************************************************)
(* The durable queue behind the public password-reset and verification     *)
(* endpoints: the recovery_requests table, the statements of               *)
(* internal/sqlstore/recovery.go, and the workers of                       *)
(* internal/service/recovery.go, one per instance, that claim a request    *)
(* under a lease, send, and acknowledge.  A worker may crash, be stopped   *)
(* or lose a statement anywhere; its claim then waits for its lease.       *)
(***************************************************************************)
EXTENDS Naturals, FiniteSets

CONSTANTS
    Job,            \* request ids
    Worker,         \* instances
    MaxAttempts,    \* 5
    Lease,          \* 2 minutes
    Work,           \* longest ProcessOne: claim, send and complete deadlines
    BackoffUnit,    \* 10 seconds
    Retention,      \* 24 hours: then a request is no longer eligible
    DeadRetention,  \* 7 days
    SubmitBy,       \* bound: requests arrive by this time
    MaxTime         \* bound on the clock

ASSUME QueueAssumption ==
    /\ {MaxAttempts, Lease, BackoffUnit, Retention} \subseteq Nat \ {0}
    /\ {Work, DeadRetention, SubmitBy, MaxTime} \subseteq Nat
    /\ Retention <= DeadRetention

VARIABLES
    now,
    job,        \* the table
    worker,
    nextClaim,  \* generator of claim owners
    sent,       \* history: deliveries begun, per request
    delivered   \* history: requests whose delivery succeeded

vars == <<now, job, worker, nextClaim, sent, delivered>>

NoClaim == 0
Request == [st : {"none", "queued", "gone"}, attempts : Nat, availableAt : Nat,
            leaseUntil : Nat, owner : Nat, dead : BOOLEAN, created : Nat]
NotSubmitted == [st |-> "none", attempts |-> 0, availableAt |-> 0, leaseUntil |-> 0,
                 owner |-> NoClaim, dead |-> FALSE, created |-> 0]

(* at: the clock the worker read before claiming; job: what it claims.     *)
Processing == [pc : {"idle", "claim", "readback", "sending", "complete"},
               job : Job \cup {NoClaim}, claim : Nat, attempts : Nat,
               at : Nat, ok : BOOLEAN]
Resting == [pc |-> "idle", job |-> NoClaim, claim |-> NoClaim, attempts |-> 0,
            at |-> 0, ok |-> FALSE]

Init ==
    /\ now = 0
    /\ job = [j \in Job |-> NotSubmitted]
    /\ worker = [w \in Worker |-> Resting]
    /\ nextClaim = 1
    /\ sent = [j \in Job |-> 0]
    /\ delivered = {}

-----------------------------------------------------------------------------
(* Ten-second exponential backoff: 1 << (attempts - 1), the exponent kept   *)
(* between zero and four.                                                  *)
Backoff(attempts) ==
    BackoffUnit * (CASE attempts <= 1 -> 1 [] attempts = 2 -> 2 [] attempts = 3 -> 4
                     [] attempts = 4 -> 8 [] OTHER -> 16)

(* The guard of the claiming UPDATE, and what the SELECT before it adds.   *)
Claimable(r, t) ==
    r.st = "queued" /\ ~r.dead /\ r.availableAt <= t /\ r.leaseUntil <= t
Eligible(r, t) == Claimable(r, t) /\ t < r.created + Retention

Holds(w, j) == job[j].st = "queued" /\ job[j].owner = worker[w].claim

Rest(w) == worker' = [worker EXCEPT ![w] = Resting]

(* Enqueue writes the caller's input without looking an account up.        *)
Enqueue(j) ==
    /\ job[j].st = "none" /\ now <= SubmitBy
    /\ job' = [job EXCEPT ![j] = [NotSubmitted EXCEPT !.st = "queued",
                                    !.availableAt = now, !.created = now]]
    /\ UNCHANGED <<now, worker, nextClaim, sent, delivered>>

(* Claim, first statement: the eligible request that waited longest.       *)
SelectOldest(w) ==
    /\ worker[w].pc = "idle"
    /\ \E j \in Job :
        /\ Eligible(job[j], now)
        /\ \A i \in Job : Eligible(job[i], now) => job[j].availableAt <= job[i].availableAt
        /\ worker' = [worker EXCEPT ![w] =
                        [Resting EXCEPT !.pc = "claim", !.job = j, !.at = now]]
    /\ UNCHANGED <<now, job, nextClaim, sent, delivered>>

(* ... second: the guarded UPDATE, which a rival may have beaten.          *)
ClaimSelected(w) ==
    LET j == worker[w].job
        t == worker[w].at
    IN /\ worker[w].pc = "claim"
       /\ IF Claimable(job[j], t)
          THEN /\ job' = [job EXCEPT ![j].owner = nextClaim,
                              ![j].leaseUntil = t + Lease, ![j].attempts = @ + 1]
               /\ worker' = [worker EXCEPT ![w].pc = "readback",
                                           ![w].claim = nextClaim]
               /\ nextClaim' = nextClaim + 1
          ELSE Rest(w) /\ UNCHANGED <<job, nextClaim>>
       /\ UNCHANGED <<now, sent, delivered>>

(* Slip: the budget is not looked at after a reclaim. *)
ReadBackUnchecked(w) ==
    LET j == worker[w].job
    IN /\ worker[w].pc = "readback"
       /\ IF ~Holds(w, j) THEN Rest(w) /\ UNCHANGED sent
          ELSE /\ worker' = [worker EXCEPT ![w].pc = "sending",
                                           ![w].attempts = job[j].attempts]
               /\ sent' = [sent EXCEPT ![j] = @ + 1]
       /\ UNCHANGED <<now, job, nextClaim, delivered>>

(* ... third: the counter is read back under the claim.  A request above   *)
(* its budget is completed as a failure without being sent.                *)
ReadBack(w) ==
    LET j == worker[w].job
        spent == job[j].attempts
    IN /\ worker[w].pc = "readback"
       /\ IF ~Holds(w, j) THEN Rest(w) /\ UNCHANGED sent
          ELSE IF spent > MaxAttempts
          THEN /\ worker' = [worker EXCEPT ![w].pc = "complete", ![w].attempts = spent]
               /\ UNCHANGED sent
          ELSE /\ worker' = [worker EXCEPT ![w].pc = "sending", ![w].attempts = spent]
               /\ sent' = [sent EXCEPT ![j] = @ + 1]
       /\ UNCHANGED <<now, job, nextClaim, delivered>>

(* The delivery succeeds, or fails or runs into its deadline.              *)
SendSucceeds(w) ==
    /\ worker[w].pc = "sending"
    /\ worker' = [worker EXCEPT ![w].pc = "complete", ![w].ok = TRUE]
    /\ delivered' = delivered \cup {worker[w].job}
    /\ UNCHANGED <<now, job, nextClaim, sent>>

SendFails(w) ==
    /\ worker[w].pc = "sending"
    /\ worker' = [worker EXCEPT ![w].pc = "complete"]
    /\ UNCHANGED <<now, job, nextClaim, sent, delivered>>

(* Complete acknowledges under the claim only: success deletes the row,    *)
(* failure backs it off, and kills it when the budget is spent.            *)
Retried(r, attempts) ==
    [r EXCEPT !.availableAt = now + Backoff(attempts), !.leaseUntil = 0,
              !.owner = NoClaim, !.dead = attempts >= MaxAttempts]
(* Slip: acknowledging whoever holds the claim. *)
CompleteUnowned(w) ==
    LET j == worker[w].job
    IN /\ worker[w].pc = "complete"
       /\ job' = IF job[j].st # "queued" THEN job
                 ELSE IF worker[w].ok THEN [job EXCEPT ![j].st = "gone"]
                 ELSE [job EXCEPT ![j] = Retried(@, worker[w].attempts)]
       /\ Rest(w)
       /\ UNCHANGED <<now, nextClaim, sent, delivered>>
Complete(w) ==
    LET j == worker[w].job
    IN /\ worker[w].pc = "complete"
       /\ job' = IF ~Holds(w, j) THEN job
                 ELSE IF worker[w].ok THEN [job EXCEPT ![j].st = "gone"]
                 ELSE [job EXCEPT ![j] = Retried(@, worker[w].attempts)]
       /\ Rest(w)
       /\ UNCHANGED <<now, nextClaim, sent, delivered>>

(* Crash, Stop, or a statement that fails or times out.                    *)
Abandon(w) ==
    /\ worker[w].pc # "idle"
    /\ Rest(w)
    /\ UNCHANGED <<now, job, nextClaim, sent, delivered>>

(* The worker prunes between two requests: never a live lease, undelivered *)
(* requests after Retention, dead ones after DeadRetention.                *)
(* Slips: one retention for all; only dead letters pruned. *)
PrunableAlike(r) ==
    r.st = "queued" /\ r.leaseUntil <= now /\ r.created + Retention <= now
PrunableDead(r) ==
    r.st = "queued" /\ r.leaseUntil <= now /\ r.dead /\ r.created + DeadRetention <= now
Prunable(r) ==
    /\ r.st = "queued" /\ r.leaseUntil <= now
    /\ r.created + (IF r.dead THEN DeadRetention ELSE Retention) <= now
Prune(w) ==
    /\ worker[w].pc = "idle"
    /\ \E j \in Job : Prunable(job[j])
    /\ job' = [j \in Job |-> IF Prunable(job[j]) THEN [job[j] EXCEPT !.st = "gone"]
                             ELSE job[j]]
    /\ UNCHANGED <<now, worker, nextClaim, sent, delivered>>

Tick ==
    /\ now < MaxTime
    /\ \A w \in Worker : worker[w].pc # "idle" => now < worker[w].at + Work
    /\ now' = now + 1
    /\ UNCHANGED <<job, worker, nextClaim, sent, delivered>>

ProcessStep(w) ==
    \/ SelectOldest(w) \/ ClaimSelected(w) \/ ReadBack(w)
    \/ SendSucceeds(w) \/ SendFails(w) \/ Complete(w)

Next ==
    \/ \E j \in Job : Enqueue(j)
    \/ \E w \in Worker : ProcessStep(w) \/ Abandon(w) \/ Prune(w)
    \/ Tick

Spec == Init /\ [][Next]_vars

(* Time passes, and every instance keeps polling and pruning on its        *)
(* tickers; neither delivery nor survival is promised.                     *)
FairSpec ==
    /\ Spec /\ WF_vars(Tick)
    /\ \A w \in Worker : WF_vars(ProcessStep(w)) /\ WF_vars(Prune(w))

-----------------------------------------------------------------------------
TypeOK ==
    /\ now \in 0..MaxTime
    /\ job \in [Job -> Request]
    /\ worker \in [Worker -> Processing]
    /\ nextClaim \in Nat \ {0}
    /\ sent \in [Job -> Nat]
    /\ delivered \subseteq Job

Delivering(w) == worker[w].pc \in {"sending", "complete"}
WithinLease(w) == now < worker[w].at + Lease
(* A worker whose lease still runs owns the row: neither a rival, nor a    *)
(* late completion of the claim before, nor the pruning takes it away      *)
(* (RecoveryStore: "an expired worker cannot acknowledge a request         *)
(* reclaimed by another instance"), and no two workers send one request at *)
(* the same time ("so competing instances cannot both own a live lease").  *)
HolderOwnsRow ==
    \A w \in Worker : Delivering(w) /\ WithinLease(w) =>
        Holds(w, worker[w].job)

(* Five attempts and no more, crashes between claim and send included:     *)
(* "attempts above the budget are never sent".                             *)
BudgetKept == \A j \in Job : sent[j] <= MaxAttempts

(* A request leaves the table only delivered or out of retention, and a    *)
(* dead letter stays as evidence its full time (Prune).                    *)
NothingLost ==
    \A j \in Job : job[j].st = "gone" /\ j \notin delivered =>
        now >= job[j].created + (IF job[j].dead THEN DeadRetention ELSE Retention)

(* Every request is settled in the end: delivered, dead, or pruned; a      *)
(* claim no worker will ever complete is not left behind.                  *)
Settles ==
    \A j \in Job : job[j].st = "queued" ~> job[j].st = "gone" \/ job[j].dead
=============================================================================
