-------------------------- MODULE DurableWorkProofs --------------------------
(***************************************************************************)
(* Theorems about work that must survive crashes, in two parts.            *)
(* The recovery queue (RecoveryQueue), for any number of requests and      *)
(* instances, any lease, backoff, retention and budget of attempts, from   *)
(* IInv: a claim number belongs to one worker, a row that still carries it *)
(* carries the lease that worker computed, and every attempt counted on a  *)
(* row pays for one delivery begun or about to begin.                      *)
(* The schema migrations (Migrations), for any number of runs, operators   *)
(* and faults and any initial schema, from MigrationInv: what a run knows  *)
(* of lock, session and transaction, and how journal and schema agree,     *)
(* committed, in each open transaction and in each warning returned.       *)
(***************************************************************************)
EXTENDS RecoveryQueue, Migrations, SequenceTheorems, TLAPS

Claiming(w) == worker[w].pc \in {"readback", "sending", "complete"}

(* Where a worker is, it knows which request it is about, and since when.  *)
Working ==
    \A w \in Worker :
        /\ worker[w].pc # "idle" => worker[w].job \in Job /\ worker[w].at <= now
        /\ Claiming(w) => worker[w].claim # NoClaim

(* Claim numbers are drawn once, and two workers never hold the same one.  *)
ClaimsDistinct ==
    /\ \A j \in Job : job[j].owner < nextClaim
    /\ \A w \in Worker : worker[w].claim < nextClaim
    /\ \A v, w \in Worker :
         Claiming(v) /\ Claiming(w) /\ worker[v].claim = worker[w].claim => v = w

(* A row that carries a worker's claim runs on the lease of that claim.    *)
ClaimCarriesLease ==
    \A w \in Worker : Claiming(w) /\ Holds(w, worker[w].job) =>
        job[worker[w].job].leaseUntil = worker[w].at + Lease

(* While the lease of a claim runs, the row carries the claim.             *)
LeaseKeepsClaim ==
    \A w \in Worker : Claiming(w) /\ WithinLease(w) => Holds(w, worker[w].job)

(* Attempts pay for deliveries, the one a holder has not begun included.   *)
AttemptsPay ==
    /\ \A j \in Job : /\ sent[j] <= job[j].attempts
                      /\ job[j].st = "none" => sent[j] = 0
    /\ \A w \in Worker : worker[w].pc = "readback" /\ Holds(w, worker[w].job) =>
         sent[worker[w].job] < job[worker[w].job].attempts

(* A worker that will report a success has delivered.                      *)
SuccessDelivered ==
    \A w \in Worker : worker[w].ok => worker[w].pc = "complete" /\ worker[w].job \in delivered

IInv ==
    /\ TypeOK
    /\ Working
    /\ ClaimsDistinct
    /\ ClaimCarriesLease
    /\ LeaseKeepsClaim
    /\ AttemptsPay
    /\ BudgetKept
    /\ SuccessDelivered
    /\ NothingLost

USE QueueAssumption
-----------------------------------------------------------------------------
(* What the invariant and the state at hand say about one worker.          *)
LEMMA WorkerFacts ==
    ASSUME IInv, NEW w \in Worker
    PROVE  /\ worker[w] \in Processing /\ worker \in [Worker -> Processing]
           /\ job \in [Job -> Request] /\ sent \in [Job -> Nat] /\ delivered \subseteq Job
           /\ now \in 0..MaxTime /\ now \in Nat
           /\ worker[w].at \in Nat /\ worker[w].claim \in Nat
BY DEF IInv, TypeOK, Processing

LEMMA RestingTyped ==
    /\ Resting \in Processing /\ NotSubmitted \in Request
    /\ Resting.pc = "idle" /\ Resting.ok = FALSE /\ Resting.claim = NoClaim
BY DEF Resting, Processing, NotSubmitted, Request, NoClaim

(* A worker at rest, or that has only selected, owes nothing: the invariant*)
(* survives a step that makes one worker so and leaves the table alone.    *)
LEMMA WorkerRests ==
    ASSUME IInv, NEW w \in Worker, NEW q \in Processing,
           worker' = [worker EXCEPT ![w] = q],
           q.pc \in {"idle", "claim"}, q.ok = FALSE, q.claim = NoClaim,
           q.pc # "idle" => q.job \in Job /\ q.at <= now,
           UNCHANGED <<now, job, nextClaim, sent, delivered>>
    PROVE  IInv'
<1>1. /\ worker \in [Worker -> Processing] /\ worker' \in [Worker -> Processing]
      /\ worker'[w] = q
      /\ \A v \in Worker : v # w => worker'[v] = worker[v]
  BY DEF IInv, TypeOK
<1>2. \A v \in Worker : Claiming(v)' => v # w /\ Claiming(v) /\ worker'[v] = worker[v]
  BY <1>1 DEF Claiming
<1>3. TypeOK'
  BY <1>1 DEF IInv, TypeOK
<1>4. Working'
  BY <1>1, <1>2 DEF IInv, Working
<1>5. ClaimsDistinct'
  <2>1. 0 < nextClaim
    BY DEF IInv, TypeOK
  <2>. QED
    BY <1>1, <1>2, <2>1 DEF IInv, ClaimsDistinct, NoClaim
<1>6. ClaimCarriesLease' /\ LeaseKeepsClaim'
  BY <1>2 DEF IInv, ClaimCarriesLease, LeaseKeepsClaim, Holds, WithinLease
<1>7. AttemptsPay' /\ BudgetKept' /\ NothingLost'
  BY <1>2 DEF IInv, AttemptsPay, BudgetKept, NothingLost, Holds, Claiming
<1>8. SuccessDelivered'
  BY <1>1 DEF IInv, SuccessDelivered
<1>. QED
  BY <1>3, <1>4, <1>5, <1>6, <1>7, <1>8 DEF IInv

LEMMA AbandonStep == ASSUME IInv, NEW w \in Worker, Abandon(w) PROVE IInv'
BY RestingTyped, WorkerRests DEF Abandon, Rest, Resting, NoClaim

LEMMA SelectStep == ASSUME IInv, NEW w \in Worker, SelectOldest(w) PROVE IInv'
<1>1. PICK j \in Job :
        worker' = [worker EXCEPT ![w] = [Resting EXCEPT !.pc = "claim", !.job = j, !.at = now]]
  BY DEF SelectOldest
<1>. DEFINE q == [Resting EXCEPT !.pc = "claim", !.job = j, !.at = now]
<1>2. now \in Nat
  BY WorkerFacts
<1>3. /\ q.pc = "claim" /\ q.ok = FALSE /\ q.claim = NoClaim
      /\ q.job = j /\ q.at = now /\ now <= now
  BY <1>2, RestingTyped DEF Resting
<1>4. q \in Processing
  BY <1>2, RestingTyped DEF Processing
<1>. HIDE DEF q
<1>5. worker' = [worker EXCEPT ![w] = q]
  BY <1>1 DEF q
<1>. QED
  BY <1>3, <1>4, <1>5, WorkerRests DEF SelectOldest

-----------------------------------------------------------------------------
(* Time only takes leases away.                                            *)
LEMMA TickStep == ASSUME IInv, Tick PROVE IInv'
<1>1. /\ now' = now + 1 /\ now \in Nat /\ now' \in 0..MaxTime
      /\ UNCHANGED <<job, worker, nextClaim, sent, delivered>>
  BY DEF Tick, IInv, TypeOK
<1>2. \A w \in Worker : worker[w].at \in Nat
  BY WorkerFacts
<1>3. TypeOK'
  BY <1>1 DEF IInv, TypeOK
<1>4. Working' /\ ClaimsDistinct' /\ ClaimCarriesLease' /\ AttemptsPay' /\ BudgetKept'
      /\ SuccessDelivered'
  BY <1>1, <1>2 DEF IInv, Working, ClaimsDistinct, ClaimCarriesLease, AttemptsPay,
     BudgetKept, SuccessDelivered, Claiming, Holds
<1>5. LeaseKeepsClaim'
  BY <1>1, <1>2 DEF IInv, LeaseKeepsClaim, Claiming, Holds, WithinLease
<1>6. NothingLost'
  <2>1. \A j \in Job : job[j].created \in Nat
    BY DEF IInv, TypeOK, Request
  <2>. QED
    BY <1>1, <2>1 DEF IInv, NothingLost
<1>. QED
  BY <1>3, <1>4, <1>5, <1>6 DEF IInv

(* A submission touches a row nobody has a claim on.                       *)
LEMMA EnqueueStep == ASSUME IInv, NEW j \in Job, Enqueue(j) PROVE IInv'
<1>. DEFINE r == [NotSubmitted EXCEPT !.st = "queued", !.availableAt = now, !.created = now]
<1>1. /\ job[j].st = "none" /\ job' = [job EXCEPT ![j] = r] /\ now \in Nat
      /\ job \in [Job -> Request]
      /\ UNCHANGED <<now, worker, nextClaim, sent, delivered>>
  BY DEF Enqueue, IInv, TypeOK
<1>2. r \in Request /\ r.st = "queued" /\ r.owner = NoClaim /\ r.attempts = 0
  BY <1>1 DEF NotSubmitted, Request, NoClaim
<1>. HIDE DEF r
<1>3. /\ job'[j] = r /\ job' \in [Job -> Request]
      /\ \A i \in Job : i # j => job'[i] = job[i]
  BY <1>1, <1>2
<1>4. \A w \in Worker : Claiming(w) /\ Holds(w, worker[w].job)' =>
         worker[w].job # j /\ Holds(w, worker[w].job)
  BY <1>1, <1>2, <1>3 DEF IInv, Working, Holds, Claiming, NoClaim
<1>5. TypeOK'
  BY <1>1, <1>3 DEF IInv, TypeOK
<1>6. Working' /\ SuccessDelivered' /\ BudgetKept'
  BY <1>1 DEF IInv, Working, SuccessDelivered, BudgetKept, Claiming
<1>7. ClaimsDistinct'
  <2>1. 0 < nextClaim
    BY DEF IInv, TypeOK
  <2>. QED
    BY <1>1, <1>2, <1>3, <2>1 DEF IInv, ClaimsDistinct, Claiming, NoClaim
<1>8. ClaimCarriesLease'
  BY <1>1, <1>3, <1>4 DEF IInv, ClaimCarriesLease, Working, Claiming
<1>9. LeaseKeepsClaim'
  BY <1>1, <1>3 DEF IInv, LeaseKeepsClaim, Working, Holds, WithinLease, Claiming
<1>10. AttemptsPay'
  BY <1>1, <1>2, <1>3, <1>4 DEF IInv, AttemptsPay, Working, Claiming
<1>11. NothingLost'
  BY <1>1, <1>2, <1>3 DEF IInv, NothingLost
<1>. QED
  BY <1>5, <1>6, <1>7, <1>8, <1>9, <1>10, <1>11 DEF IInv

(* A pruned row has no lease left that a worker could rely on, and is past *)
(* its retention.                                                          *)
LEMMA PruneStep == ASSUME IInv, NEW p \in Worker, Prune(p) PROVE IInv'
<1>1. /\ \A j \in Job : \/ job'[j] = job[j] /\ ~Prunable(job[j])
                        \/ Prunable(job[j]) /\ job'[j] = [job[j] EXCEPT !.st = "gone"]
      /\ UNCHANGED <<now, worker, nextClaim, sent, delivered>>
      /\ job \in [Job -> Request] /\ now \in Nat /\ job' \in [Job -> Request]
  <2>1. \A j \in Job : job[j] \in Request /\ [job[j] EXCEPT !.st = "gone"] \in Request
    BY DEF IInv, TypeOK, Request
  <2>. QED
    BY <2>1 DEF Prune, IInv, TypeOK
<1>2. \A j \in Job : /\ job'[j].owner = job[j].owner /\ job'[j].attempts = job[j].attempts
                     /\ job'[j].leaseUntil = job[j].leaseUntil
                     /\ job'[j].created = job[j].created /\ job'[j].dead = job[j].dead
                     /\ job'[j].st = job[j].st \/ (Prunable(job[j]) /\ job'[j].st = "gone")
  <2>. TAKE j \in Job
  <2>1. job[j] \in Request
    BY <1>1
  <2>2. CASE job'[j] = job[j]
    BY <2>2
  <2>3. CASE Prunable(job[j]) /\ job'[j] = [job[j] EXCEPT !.st = "gone"]
    BY <2>1, <2>3 DEF Request
  <2>. QED
    BY <1>1, <2>2, <2>3
<1>3. \A w \in Worker : Claiming(w) /\ Holds(w, worker[w].job)' =>
         Holds(w, worker[w].job)
  BY <1>1, <1>2 DEF IInv, Working, Holds, Claiming
<1>4. TypeOK'
  BY <1>1 DEF IInv, TypeOK
<1>5. Working' /\ SuccessDelivered' /\ BudgetKept'
  BY <1>1 DEF IInv, Working, SuccessDelivered, BudgetKept, Claiming
<1>6. ClaimsDistinct'
  BY <1>1, <1>2 DEF IInv, ClaimsDistinct, Claiming
<1>7. ClaimCarriesLease'
  BY <1>1, <1>2, <1>3 DEF IInv, ClaimCarriesLease, Working, Claiming
<1>8. LeaseKeepsClaim'
  <2>. SUFFICES ASSUME NEW w \in Worker, Claiming(w), WithinLease(w)
                PROVE  job'[worker[w].job].st = "queued"
                       /\ job'[worker[w].job].owner = worker[w].claim
    BY <1>1 DEF LeaseKeepsClaim, Claiming, WithinLease, Holds
  <2>. DEFINE j == worker[w].job
  <2>1. j \in Job /\ Holds(w, j) /\ job[j].leaseUntil = worker[w].at + Lease
    BY DEF IInv, Working, LeaseKeepsClaim, ClaimCarriesLease, Claiming
  <2>2. worker[w].at \in Nat
    BY WorkerFacts
  <2>3. ~Prunable(job[j])
    BY <1>1, <2>1, <2>2 DEF Prunable, WithinLease
  <2>. QED
    BY <1>1, <2>1, <2>3 DEF Holds
<1>9. AttemptsPay'
  BY <1>1, <1>2, <1>3 DEF IInv, AttemptsPay, Working, Claiming
<1>10. NothingLost'
  <2>. SUFFICES ASSUME NEW j \in Job, job'[j].st = "gone", j \notin delivered
                PROVE  now >= job[j].created + (IF job[j].dead THEN DeadRetention ELSE Retention)
    BY <1>1, <1>2 DEF NothingLost
  <2>1. CASE Prunable(job[j])
    BY <1>1, <2>1 DEF Prunable, Request
  <2>2. CASE ~Prunable(job[j])
    BY <1>2, <2>2 DEF IInv, NothingLost
  <2>. QED
    BY <2>1, <2>2
<1>. QED
  BY <1>4, <1>5, <1>6, <1>7, <1>8, <1>9, <1>10 DEF IInv

-----------------------------------------------------------------------------
(* The guarded UPDATE: a row whose lease has run out, or that has none,    *)
(* passes to a claim never drawn before.                                   *)
LEMMA ClaimStep == ASSUME IInv, NEW w \in Worker, ClaimSelected(w) PROVE IInv'
<1>. DEFINE j == worker[w].job
            t == worker[w].at
            r == [job[j] EXCEPT !.owner = nextClaim, !.leaseUntil = t + Lease, !.attempts = @ + 1]
            q == [worker[w] EXCEPT !.pc = "readback", !.claim = nextClaim]
<1>1. CASE ~Claimable(job[j], t)
  BY <1>1, RestingTyped, WorkerRests DEF ClaimSelected, Rest
<1>2. CASE Claimable(job[j], t)
  <2>1. /\ worker[w].pc = "claim" /\ j \in Job /\ t \in Nat /\ t <= now /\ now \in Nat
        /\ job \in [Job -> Request] /\ worker \in [Worker -> Processing]
        /\ sent \in [Job -> Nat] /\ nextClaim \in Nat \ {0}
    BY DEF ClaimSelected, IInv, TypeOK, Working, Processing
  <2>2. /\ job' = [job EXCEPT ![j] = r] /\ worker' = [worker EXCEPT ![w] = q]
        /\ nextClaim' = nextClaim + 1 /\ UNCHANGED <<now, sent, delivered>>
    BY <1>2, <2>1 DEF ClaimSelected
  <2>3. /\ r \in Request /\ r.st = "queued" /\ r.owner = nextClaim
        /\ r.leaseUntil = t + Lease /\ r.attempts = job[j].attempts + 1
        /\ r.created = job[j].created /\ r.dead = job[j].dead
    <3>1. job[j] \in Request /\ job[j].attempts \in Nat /\ job[j].st = "queued"
      BY <1>2, <2>1 DEF Request, Claimable
    <3>2. t + Lease \in Nat /\ job[j].attempts + 1 \in Nat /\ nextClaim \in Nat
      BY <2>1, <3>1
    <3>3. r \in Request
      BY <3>1, <3>2 DEF Request
    <3>4. r.st = "queued" /\ r.owner = nextClaim /\ r.leaseUntil = t + Lease
      BY <3>1 DEF Request
    <3>5. r.attempts = job[j].attempts + 1
      BY <3>1 DEF Request
    <3>6. r.created = job[j].created /\ r.dead = job[j].dead
      BY <3>1 DEF Request
    <3>. QED
      BY <3>3, <3>4, <3>5, <3>6
  <2>4. /\ q \in Processing /\ q.pc = "readback" /\ q.claim = nextClaim
        /\ q.job = j /\ q.at = t /\ q.ok = worker[w].ok
    BY <2>1 DEF Processing
  <2>5. job[j].st = "queued" /\ job[j].leaseUntil <= t
    BY <1>2 DEF Claimable
  <2>. HIDE DEF r, q
  <2>6. /\ job'[j] = r /\ \A i \in Job : i # j => job'[i] = job[i]
        /\ worker'[w] = q /\ \A v \in Worker : v # w => worker'[v] = worker[v]
        /\ job' \in [Job -> Request] /\ worker' \in [Worker -> Processing]
    BY <2>1, <2>2, <2>3, <2>4
  <2>7. \A v \in Worker : v # w =>
          /\ Claiming(v)' = Claiming(v)
          /\ Claiming(v) => worker[v].claim # nextClaim /\ worker[v].job \in Job
    BY <2>1, <2>6 DEF Claiming, IInv, ClaimsDistinct, Working, Processing
  <2>8. \A v \in Worker : v # w /\ Claiming(v) /\ Holds(v, worker[v].job)' =>
          worker[v].job # j /\ Holds(v, worker[v].job)
    BY <2>3, <2>6, <2>7 DEF Holds
  <2>9. TypeOK'
    BY <2>1, <2>2, <2>6 DEF IInv, TypeOK
  <2>10. Working'
    BY <2>1, <2>2, <2>4, <2>6, <2>7 DEF IInv, Working, NoClaim
  <2>11. ClaimsDistinct'
    <3>1. \A i \in Job : job'[i].owner < nextClaim'
      BY <2>1, <2>2, <2>3, <2>6 DEF IInv, ClaimsDistinct, Request
    <3>2. \A v \in Worker : worker'[v].claim < nextClaim'
      BY <2>1, <2>2, <2>4, <2>6 DEF IInv, ClaimsDistinct, Processing
    <3>3. ASSUME NEW u \in Worker, NEW v \in Worker, Claiming(u)', Claiming(v)',
                 worker'[u].claim = worker'[v].claim
          PROVE  u = v
      BY <2>4, <2>6, <2>7, <3>3 DEF IInv, ClaimsDistinct
    <3>. QED
      BY <3>1, <3>2, <3>3 DEF ClaimsDistinct
  <2>12. ClaimCarriesLease'
    BY <2>3, <2>4, <2>6, <2>7, <2>8 DEF IInv, ClaimCarriesLease
  <2>13. LeaseKeepsClaim'
    <3>. SUFFICES ASSUME NEW v \in Worker, Claiming(v)', WithinLease(v)'
                  PROVE  Holds(v, worker[v].job)'
      BY DEF LeaseKeepsClaim
    <3>1. CASE v = w
      BY <2>3, <2>4, <2>6, <3>1 DEF Holds
    <3>2. CASE v # w
      <4>1. Claiming(v) /\ WithinLease(v) /\ Holds(v, worker[v].job)
        BY <2>2, <2>6, <2>7, <3>2 DEF IInv, LeaseKeepsClaim, WithinLease
      <4>2. job[worker[v].job].leaseUntil = worker[v].at + Lease
        BY <4>1 DEF IInv, ClaimCarriesLease
      <4>3. worker[v].job # j
        BY <2>1, <2>5, <4>1, <4>2, WorkerFacts DEF WithinLease
      <4>. QED
        BY <2>6, <2>7, <3>2, <4>1, <4>3 DEF Holds
    <3>. QED
      BY <3>1, <3>2
  <2>14. AttemptsPay' /\ BudgetKept'
    <3>1. job[j].attempts \in Nat /\ sent[j] \in Nat /\ sent[j] <= job[j].attempts
      BY <2>1 DEF IInv, AttemptsPay, Request
    <3>2. \A i \in Job : /\ sent'[i] <= job'[i].attempts
                         /\ job'[i].st = "none" => sent'[i] = 0
      BY <2>1, <2>2, <2>3, <2>6, <3>1 DEF IInv, AttemptsPay
    <3>3. ASSUME NEW v \in Worker, worker'[v].pc = "readback", Holds(v, worker[v].job)'
          PROVE  sent'[worker'[v].job] < job'[worker'[v].job].attempts
      <4>1. CASE v = w
        BY <2>2, <2>3, <2>4, <2>6, <3>1, <4>1
      <4>2. CASE v # w
        BY <2>2, <2>6, <2>7, <2>8, <3>3, <4>2 DEF IInv, AttemptsPay, Claiming
      <4>. QED
        BY <4>1, <4>2
    <3>. QED
      BY <2>2, <3>2, <3>3 DEF IInv, AttemptsPay, BudgetKept
  <2>15. SuccessDelivered'
    BY <2>1, <2>2, <2>4, <2>6 DEF IInv, SuccessDelivered
  <2>16. NothingLost'
    BY <2>2, <2>3, <2>6 DEF IInv, NothingLost
  <2>. QED
    BY <2>9, <2>10, <2>11, <2>12, <2>13, <2>14, <2>15, <2>16 DEF IInv
<1>. QED
  BY <1>1, <1>2

(* A worker goes on with the request it has claimed: the row and the other *)
(* workers stay as they are, and a delivery is begun only on a claim that  *)
(* still holds and has attempts to pay for it.                             *)
LEMMA ClaimGoesOn ==
    ASSUME IInv, NEW w \in Worker, Claiming(w), NEW q \in Processing,
           worker' = [worker EXCEPT ![w] = q],
           q.pc \in {"sending", "complete"}, q.job = worker[w].job,
           q.claim = worker[w].claim, q.at = worker[w].at,
           UNCHANGED <<now, job, nextClaim>>,
           delivered \subseteq delivered', delivered' \subseteq Job,
           q.ok => q.pc = "complete" /\ q.job \in delivered',
           \/ sent' = sent
           \/ /\ worker[w].pc = "readback" /\ Holds(w, worker[w].job)
              /\ job[worker[w].job].attempts <= MaxAttempts
              /\ sent' = [sent EXCEPT ![worker[w].job] = @ + 1]
    PROVE  IInv'
<1>. DEFINE j == worker[w].job
<1>1. /\ worker \in [Worker -> Processing] /\ worker' \in [Worker -> Processing]
      /\ worker'[w] = q /\ \A v \in Worker : v # w => worker'[v] = worker[v]
      /\ j \in Job /\ sent \in [Job -> Nat] /\ job \in [Job -> Request]
  BY DEF IInv, TypeOK, Working, Claiming
<1>2. \A v \in Worker : /\ Claiming(v)' = Claiming(v)
                        /\ worker'[v].job = worker[v].job
                        /\ worker'[v].claim = worker[v].claim
                        /\ worker'[v].at = worker[v].at
                        /\ worker'[v].pc # "idle" => worker[v].pc # "idle"
  BY <1>1 DEF Claiming
<1>3. \A v \in Worker : /\ Holds(v, worker[v].job)' = Holds(v, worker[v].job)
                        /\ WithinLease(v)' = WithinLease(v)
  BY <1>2 DEF Holds, WithinLease
<1>4. \A i \in Job : sent'[i] = sent[i] \/
        (/\ i = j /\ worker[w].pc = "readback" /\ Holds(w, j)
         /\ job[j].attempts <= MaxAttempts /\ sent'[j] = sent[j] + 1)
  BY <1>1
<1>5. sent' \in [Job -> Nat]
  BY <1>1
<1>6. TypeOK'
  BY <1>1, <1>5 DEF IInv, TypeOK
<1>7. Working' /\ ClaimsDistinct'
  BY <1>2 DEF IInv, Working, ClaimsDistinct
<1>8. ClaimCarriesLease' /\ LeaseKeepsClaim'
  BY <1>2, <1>3 DEF IInv, ClaimCarriesLease, LeaseKeepsClaim
<1>9. AttemptsPay'
  <2>1. ASSUME NEW i \in Job
        PROVE  sent'[i] <= job[i].attempts /\ (job[i].st = "none" => sent'[i] = 0)
    BY <1>1, <1>4 DEF IInv, AttemptsPay, Holds, Request
  <2>2. ASSUME NEW v \in Worker, worker'[v].pc = "readback", Holds(v, worker[v].job)
        PROVE  sent'[worker[v].job] < job[worker[v].job].attempts
    <3>1. v # w /\ worker[v].pc = "readback" /\ Claiming(v) /\ worker[v].job \in Job
      BY <1>1, <2>2 DEF Claiming, IInv, Working
    <3>2. sent[worker[v].job] < job[worker[v].job].attempts
      BY <2>2, <3>1 DEF IInv, AttemptsPay
    <3>3. worker[v].job = j => ~Holds(w, j)
      BY <2>2, <3>1 DEF IInv, ClaimsDistinct, Holds
    <3>. QED
      BY <1>4, <3>1, <3>2, <3>3
  <2>. QED
    BY <1>2, <1>3, <2>1, <2>2 DEF AttemptsPay
<1>10. BudgetKept'
  BY <1>1, <1>4 DEF IInv, AttemptsPay, BudgetKept, Request
<1>11. SuccessDelivered' /\ NothingLost'
  BY <1>1 DEF IInv, SuccessDelivered, NothingLost
<1>. QED
  BY <1>6, <1>7, <1>8, <1>9, <1>10, <1>11 DEF IInv

(* The read-back under the claim decides whether the request is sent.      *)
LEMMA ReadBackStep == ASSUME IInv, NEW w \in Worker, ReadBack(w) PROVE IInv'
<1>. DEFINE j == worker[w].job
            spent == job[j].attempts
<1>1. /\ worker[w].pc = "readback" /\ Claiming(w) /\ j \in Job
      /\ worker[w] \in Processing /\ spent \in Nat /\ worker[w].ok = FALSE
      /\ UNCHANGED <<now, job, nextClaim, delivered>> /\ delivered \subseteq Job
  <2>1. worker[w].pc = "readback" /\ j \in Job
    BY DEF ReadBack, IInv, Working
  <2>. QED
    BY <2>1 DEF ReadBack, Claiming, IInv, TypeOK, SuccessDelivered, Request, Processing
<1>2. CASE ~Holds(w, j)
  BY <1>1, <1>2, RestingTyped, WorkerRests DEF ReadBack, Rest
<1>3. ASSUME NEW pc \in {"sending", "complete"},
             worker' = [worker EXCEPT ![w].pc = pc, ![w].attempts = spent],
             \/ sent' = sent
             \/ /\ Holds(w, j) /\ spent <= MaxAttempts
                /\ sent' = [sent EXCEPT ![j] = @ + 1]
      PROVE  IInv'
  <2>. DEFINE q == [worker[w] EXCEPT !.pc = pc, !.attempts = spent]
  <2>1. /\ q \in Processing /\ q.pc = pc /\ q.job = j /\ q.ok = FALSE
        /\ q.claim = worker[w].claim /\ q.at = worker[w].at
    BY <1>1 DEF Processing
  <2>2. worker' = [worker EXCEPT ![w] = q]
    BY <1>3 DEF IInv, TypeOK
  <2>. HIDE DEF q
  <2>. QED
    BY <1>1, <1>3, <2>1, <2>2, ClaimGoesOn
<1>. QED
  BY <1>1, <1>2, <1>3 DEF ReadBack

LEMMA SendStep ==
    ASSUME IInv, NEW w \in Worker, SendSucceeds(w) \/ SendFails(w)
    PROVE  IInv'
<1>. DEFINE j == worker[w].job
<1>1. /\ worker[w].pc = "sending" /\ Claiming(w) /\ j \in Job
      /\ worker[w] \in Processing /\ worker[w].ok = FALSE
      /\ UNCHANGED <<now, job, nextClaim, sent>> /\ delivered \subseteq Job
  BY DEF SendSucceeds, SendFails, Claiming, IInv, TypeOK, Working, SuccessDelivered,
     Processing
<1>2. CASE SendSucceeds(w)
  <2>. DEFINE q == [worker[w] EXCEPT !.pc = "complete", !.ok = TRUE]
  <2>1. /\ q \in Processing /\ q.pc = "complete" /\ q.job = j
        /\ q.claim = worker[w].claim /\ q.at = worker[w].at
    BY <1>1 DEF Processing
  <2>2. worker' = [worker EXCEPT ![w] = q]
    BY <1>2 DEF SendSucceeds, IInv, TypeOK
  <2>3. delivered' = delivered \cup {j}
    BY <1>2 DEF SendSucceeds
  <2>. HIDE DEF q
  <2>. QED
    BY <1>1, <2>1, <2>2, <2>3, ClaimGoesOn
<1>3. CASE SendFails(w)
  <2>. DEFINE q == [worker[w] EXCEPT !.pc = "complete"]
  <2>1. /\ q \in Processing /\ q.pc = "complete" /\ q.job = j /\ q.ok = FALSE
        /\ q.claim = worker[w].claim /\ q.at = worker[w].at
    BY <1>1 DEF Processing
  <2>2. worker' = [worker EXCEPT ![w] = q] /\ delivered' = delivered
    BY <1>3 DEF SendFails, IInv, TypeOK
  <2>. HIDE DEF q
  <2>. QED
    BY <1>1, <2>1, <2>2, ClaimGoesOn
<1>. QED
  BY <1>2, <1>3

(* The acknowledgement reaches the row only under the claim, so it is the  *)
(* last word of the one worker that holds it.                              *)
LEMMA CompleteStep == ASSUME IInv, NEW w \in Worker, Complete(w) PROVE IInv'
<1>. DEFINE j == worker[w].job
<1>1. /\ worker[w].pc = "complete" /\ Claiming(w) /\ j \in Job
      /\ worker' = [worker EXCEPT ![w] = Resting]
      /\ job \in [Job -> Request] /\ now \in Nat
      /\ UNCHANGED <<now, nextClaim, sent, delivered>>
  BY DEF Complete, Rest, Claiming, IInv, TypeOK, Working
<1>2. CASE ~Holds(w, j)
  BY <1>1, <1>2, RestingTyped, WorkerRests, WorkerFacts DEF Complete
<1>3. ASSUME Holds(w, j), NEW r \in Request, job' = [job EXCEPT ![j] = r],
             r.attempts = job[j].attempts, r.created = job[j].created,
             r.owner \in {NoClaim, job[j].owner},
             r.st # "none",
             r.st = "gone" => j \in delivered
      PROVE  IInv'
  <2>1. /\ job'[j] = r /\ \A i \in Job : i # j => job'[i] = job[i]
        /\ job' \in [Job -> Request]
        /\ worker'[w] = Resting /\ \A v \in Worker : v # w => worker'[v] = worker[v]
        /\ worker' \in [Worker -> Processing]
    BY <1>1, <1>3, RestingTyped DEF IInv, TypeOK
  <2>2. \A v \in Worker : Claiming(v)' => /\ v # w /\ Claiming(v)
                                          /\ worker'[v] = worker[v]
                                          /\ worker[v].job \in Job
    BY <2>1, RestingTyped DEF Claiming, IInv, Working
  <2>3. \A v \in Worker : Claiming(v) /\ v # w => ~(worker[v].job = j /\ Holds(v, j))
    BY <1>1, <1>3 DEF Holds, IInv, ClaimsDistinct
  <2>4. \A v \in Worker : Claiming(v) /\ v # w /\ worker[v].job = j =>
          worker[v].claim # r.owner
    BY <1>1, <1>3, <2>3 DEF Holds, IInv, Working
  <2>5. \A v \in Worker : Claiming(v)' => /\ (worker[v].job # j \/ ~Holds(v, worker[v].job)')
                                          /\ Holds(v, worker[v].job)' <=> Holds(v, worker[v].job)
    BY <2>1, <2>2, <2>3, <2>4 DEF Holds
  <2>6. TypeOK'
    BY <1>1, <2>1 DEF IInv, TypeOK
  <2>7. Working'
    BY <1>1, <2>1, <2>2, RestingTyped DEF IInv, Working
  <2>8. ClaimsDistinct'
    <3>1. 0 < nextClaim
      BY DEF IInv, TypeOK
    <3>. QED
      BY <1>1, <1>3, <2>1, <2>2, <3>1, RestingTyped DEF IInv, ClaimsDistinct, NoClaim
  <2>9. ClaimCarriesLease'
    BY <2>1, <2>2, <2>5 DEF IInv, ClaimCarriesLease
  <2>10. LeaseKeepsClaim'
    BY <1>1, <2>2, <2>5 DEF IInv, LeaseKeepsClaim, WithinLease
  <2>11. AttemptsPay'
    <3>1. \A i \in Job : /\ sent'[i] <= job'[i].attempts
                         /\ job'[i].st = "none" => sent'[i] = 0
      BY <1>1, <1>3, <2>1 DEF IInv, AttemptsPay
    <3>2. ASSUME NEW v \in Worker, worker'[v].pc = "readback", Holds(v, worker[v].job)'
          PROVE  sent'[worker'[v].job] < job'[worker'[v].job].attempts
      BY <1>1, <2>1, <2>2, <2>5, <3>2 DEF IInv, AttemptsPay, Claiming
    <3>. QED
      BY <3>1, <3>2 DEF AttemptsPay
  <2>12. BudgetKept' /\ SuccessDelivered'
    BY <1>1, <2>1, RestingTyped DEF IInv, BudgetKept, SuccessDelivered
  <2>13. NothingLost'
    BY <1>1, <1>3, <2>1 DEF IInv, NothingLost
  <2>. QED
    BY <2>6, <2>7, <2>8, <2>9, <2>10, <2>11, <2>12, <2>13 DEF IInv
<1>4. CASE Holds(w, j) /\ worker[w].ok
  <2>. DEFINE r == [job[j] EXCEPT !.st = "gone"]
  <2>1. /\ r \in Request /\ r.attempts = job[j].attempts /\ r.created = job[j].created
        /\ r.owner = job[j].owner /\ r.st = "gone" /\ j \in delivered
    BY <1>1, <1>4 DEF Request, IInv, SuccessDelivered
  <2>2. job' = [job EXCEPT ![j] = r]
    BY <1>1, <1>4 DEF Complete
  <2>. HIDE DEF r
  <2>. QED
    BY <1>3, <1>4, <2>1, <2>2
<1>5. CASE Holds(w, j) /\ ~worker[w].ok
  <2>. DEFINE r == Retried(job[j], worker[w].attempts)
  <2>1. worker[w].attempts \in Nat /\ job[j] \in Request
    BY <1>1 DEF IInv, TypeOK, Processing
  <2>2. now + Backoff(worker[w].attempts) \in Nat
    BY <1>1, <2>1 DEF Backoff
  <2>3. /\ r \in Request /\ r.attempts = job[j].attempts /\ r.created = job[j].created
        /\ r.owner = NoClaim /\ r.st = "queued"
    <3>1. NoClaim \in Nat /\ (worker[w].attempts >= MaxAttempts) \in BOOLEAN
      BY DEF NoClaim
    <3>2. r \in Request
      BY <2>1, <2>2, <3>1 DEF Retried, Request
    <3>3. job[j].st = "queued"
      BY <1>5 DEF Holds
    <3>4. r.owner = NoClaim /\ r.st = "queued"
      BY <2>1, <3>3 DEF Retried, Request
    <3>5. r.attempts = job[j].attempts /\ r.created = job[j].created
      BY <2>1 DEF Retried, Request
    <3>. QED
      BY <3>2, <3>4, <3>5
  <2>4. job' = [job EXCEPT ![j] = r]
    BY <1>1, <1>5 DEF Complete
  <2>. HIDE DEF r
  <2>. QED
    BY <1>3, <1>5, <2>3, <2>4
<1>. QED
  BY <1>2, <1>4, <1>5

-----------------------------------------------------------------------------
LEMMA InitInv == Init => IInv
BY RestingTyped DEF Init, IInv, TypeOK, Working, ClaimsDistinct, ClaimCarriesLease,
   LeaseKeepsClaim, AttemptsPay, BudgetKept, SuccessDelivered, NothingLost, Claiming,
   NotSubmitted, NoClaim

LEMMA StepInv == IInv /\ [Next]_vars => IInv'
<1>. SUFFICES ASSUME IInv, [Next]_vars PROVE IInv'
  OBVIOUS
<1>1. CASE UNCHANGED vars
  BY <1>1 DEF vars, IInv, TypeOK, Working, ClaimsDistinct, ClaimCarriesLease,
     LeaseKeepsClaim, AttemptsPay, BudgetKept, SuccessDelivered, NothingLost,
     Claiming, Holds, WithinLease
<1>2. CASE Next
  BY <1>2, EnqueueStep, SelectStep, ClaimStep, ReadBackStep, SendStep, CompleteStep,
     AbandonStep, PruneStep, TickStep DEF Next, ProcessStep
<1>. QED
  BY <1>1, <1>2

LEMMA SpecInv == Spec => []IInv
BY InitInv, StepInv, PTL DEF Spec

(* A worker whose lease still runs owns the row it is delivering, for any  *)
(* number of instances: no rival, late acknowledgement or pruning takes it *)
(* (the lease of ClaimNext, and Complete's WHERE on the claim owner).      *)
THEOREM LeaseIsOwnership == Spec => []HolderOwnsRow
<1>1. IInv => HolderOwnsRow
  BY DEF IInv, LeaseKeepsClaim, HolderOwnsRow, Delivering, Claiming
<1>. QED
  BY SpecInv, <1>1, PTL

(* No request is sent more often than its budget of attempts allows,       *)
(* however often its workers crash or are overtaken.                       *)
THEOREM BudgetIsKept == Spec => []BudgetKept
<1>1. IInv => BudgetKept
  BY DEF IInv
<1>. QED
  BY SpecInv, <1>1, PTL

(* A request leaves the table delivered, or after its full retention.      *)
THEOREM NothingIsLost == Spec => []NothingLost
<1>1. IInv => NothingLost
  BY DEF IInv
<1>. QED
  BY SpecInv, <1>1, PTL

-----------------------------------------------------------------------------
(* The schema migrations. *)
HIDE QueueAssumption

Where == {"lock", "configure", "history", "next", "statement", "verified", "finish", "commit", "reread", "close"}
            \union Operation
Flag == {"failed", "dirty", "uncertain"}
Running == [at : Where, n : Nat, op : Operation, id : Step, acquired : BOOLEAN, flags : SUBSET Flag, k : Nat]
Returned == [n : Nat, op : Operation, id : Step, flags : SUBSET Flag]

RunsTyped ==
  /\ config \in Configs
  /\ run \in [Run -> {Idle} \union Running]
  /\ session \in [Run -> {"none", "alive", "dead"}]
  /\ tx \in [Run -> Database \union {None}]
  /\ said \in [Run -> Returned \union {None}]
  /\ used \in [{"runs", "touches", "faults"} -> Nat]
  /\ lock \in Run \union {None, "ghost"}
  /\ \A r \in Run : /\ run[r] = Idle <=> session[r] = "none"
                    /\ run[r] # Idle => said[r] = None /\ run[r].n < used.runs
                    /\ run[r] # Idle /\ ~ At(r, "close") => run[r].flags = {}
                    /\ run[r] # Idle /\ At(r, "close") => run[r].flags = {} \/ "failed" \in run[r].flags
                    /\ run[r] # Idle /\ run[r].op \notin {"repair", "retry"} => run[r].id = config.target[r]
                    /\ said[r] # None => said[r].n < used.runs
                    /\ said[r] # None => said[r].flags = {} \/ "failed" \in said[r].flags

(* No two runs have the same number. *)
Numbered ==
  \A r, q \in Run : r # q =>
    /\ run[r] # Idle /\ run[q] # Idle => run[r].n # run[q].n
    /\ run[r] # Idle /\ said[q] # None => run[r].n # said[q].n

(* Who holds the lock, and what only the holder has. *)
Holding ==
  /\ ghost # None <=> lock = "ghost"
  /\ \A r \in Run :
       /\ lock = r => session[r] = "alive" /\ ~ At(r, "lock")
       /\ session[r] = "alive" /\ run[r].at \notin {"lock", "close"} => lock = r
       /\ session[r] = "alive" /\ At(r, "close") /\ run[r].flags = {} => lock = r
       /\ run[r] = Idle \/ At(r, "lock") => tx[r] = None
       /\ dialect = "mysql" => tx[r] = None
       /\ dialect = "sqlite" /\ lock = r => tx[r] # None

-----------------------------------------------------------------------------
(* What a database is like at every moment. *)

Matches(d) ==
  \A o \in Change \ d.touched :
    IF Dirty(d) /\ o[1] = Len(d.journal) THEN d.schema[o] \in {{}, Missing}
    ELSE d.schema[o] = Published(Revision(d))[o]

Sound(d, runs) ==
  /\ d \in Database
  /\ Len(d.journal) <= Steps
  /\ \A n \in 1 .. Len(d.journal) - 1 : d.journal[n].state = "complete"
  /\ Dirty(d) => d.journal[Len(d.journal)].by \in Nat /\ d.journal[Len(d.journal)].by < runs
  /\ Matches(d)
  /\ d.journal = <<>> => \A o \in Change : d.schema[o] # Missing => d.schema[<<o[1], 1>>] # Missing

DatabasesSound ==
  /\ Sound(db, used.runs)
  /\ ghost # None => Sound(ghost, used.runs) /\ Revision(ghost) >= Revision(db)
  /\ \A r \in Run : lock = r => Sound(View(r), used.runs) /\ Revision(View(r)) >= Revision(db)

(* The schema of a revision, as far as a release knows it, and in the       *)
(* middle of a step.                                                        *)
Exact(d, target, revision) ==
  \A o \in Change : /\ o[1] <= revision => d.schema[o] = {}
                    /\ o[1] \in 1 .. target /\ o[1] > revision => d.schema[o] = Missing

Fits(d, target, k) ==
  \A o \in Change : o[1] \in 1 .. target =>
     d.schema[o] = IF o[1] < Len(d.journal) \/ (o[1] = Len(d.journal) /\ o[2] < k) THEN {} ELSE Missing

Goal(x) == IF x.op = "adopt" THEN 1 ELSE x.id

(* What a run that holds the lock knows of the database it sees. *)
Knows(x, d, target) ==
  LET length == Len(d.journal)
  IN /\ x.at \notin {"lock", "configure", "history", "close"} => length <= target
     /\ x.at \in Operation => x.at = x.op
     /\ x.at \in {"next", "reread"} => x.op = "apply" /\ ~ Dirty(d) /\ Exact(d, target, length)
     /\ x.at \in {"statement", "verified", "finish", "commit"} =>
          /\ x.op \in {"apply", "repair", "retry"}
          /\ x.op # "apply" => length = x.id
     /\ x.at = "statement" => Dirty(d) /\ x.k \in 1 .. Statements /\ Fits(d, target, x.k)
     /\ x.at = "verified" => Dirty(d)
     /\ x.at = "finish" => Dirty(d) /\ Exact(d, target, length)
     /\ x.at = "commit" => ~ Dirty(d) /\ Exact(d, target, length)
     /\ x.at = "close" /\ x.flags = {} => ~ Dirty(d) /\ Revision(d) >= Goal(x)

HoldersKnow ==
  \A r \in Run : lock = r =>
    /\ Knows(run[r], View(r), config.target[r])
    /\ At(r, "commit") => dialect = "postgres" /\ tx[r] # None

(* A run has left a step incomplete. *)
Opened(d, n) == Dirty(d) /\ d.journal[Len(d.journal)].by = n

(* It is still at work on it, on MySQL, or it warns. *)
Warned ==
  \A r \in Run :
    /\ run[r] # Idle /\ (Opened(db, run[r].n) \/ (ghost # None /\ Opened(ghost, run[r].n))) =>
         /\ dialect = "mysql"
         /\ run[r].at \in {"statement", "verified", "finish"} \/ run[r].flags \intersect {"dirty", "uncertain"} # {}
    /\ said[r] # None /\ said[r].flags = {"failed"} =>
         ~ Opened(db, said[r].n) /\ (ghost # None => ~ Opened(ghost, said[r].n))
    /\ said[r] # None /\ said[r].flags = {} => Revision(db) >= Goal(said[r])

MigrationInv ==
  /\ RunsTyped /\ Numbered /\ Holding /\ DatabasesSound /\ HoldersKnow /\ Warned /\ LockNeverPooled
-----------------------------------------------------------------------------
(* Databases. *)

LEMMA ConstantFacts ==
  /\ Steps \in Nat \ {0} /\ Statements \in Nat \ {0}
  /\ None # "ghost" /\ None # "pool" /\ None \notin Database
  /\ None \notin Run /\ "ghost" \notin Run /\ "pool" \notin Run
  /\ \A c \in Configs : /\ c.target \in [Run -> Step] /\ c.installed \in 0 .. Steps /\ c.tracked \in 0 .. Steps
                        /\ c.tracked <= c.installed /\ c.dialect \in {"postgres", "mysql", "sqlite"}
BY MigrationConstants

LEMMA ChangeFacts ==
  ASSUME NEW o \in Change
  PROVE  o[1] \in Nat /\ o[1] \in 1 .. Steps /\ o[2] \in Nat /\ o[2] \in 1 .. Statements /\ <<o[1], 1>> \in Change
BY ConstantFacts DEF Change, Step

LEMMA DatabaseFacts ==
  ASSUME NEW d \in Database
  PROVE  /\ Len(d.journal) \in Nat /\ Revision(d) \in Nat
         /\ d.journal = <<>> <=> Len(d.journal) = 0
         /\ Dirty(d) => Len(d.journal) > 0 /\ Revision(d) = Len(d.journal) - 1
         /\ ~ Dirty(d) => Revision(d) = Len(d.journal)
         /\ \A n \in 1 .. Len(d.journal) : d.journal[n] \in Record
<1>1. d.journal \in Seq(Record) BY DEF Database
<1>2. Len(d.journal) \in Nat /\ (d.journal = <<>> <=> Len(d.journal) = 0) BY <1>1
<1> QED BY <1>1, <1>2 DEF Dirty, Revision

(* What two databases have in common when their journals are the same. *)
LEMMA SameJournal ==
  ASSUME NEW d, NEW e, d.journal = e.journal
  PROVE  /\ (Dirty(d) <=> Dirty(e)) /\ Revision(d) = Revision(e)
         /\ \A n : Opened(d, n) <=> Opened(e, n)
BY DEF Dirty, Revision, Opened

LEMMA SoundLater ==
  ASSUME NEW d, NEW m \in Nat, NEW n \in Nat, m <= n, Sound(d, m)
  PROVE  Sound(d, n)
<1>1. Dirty(d) => d.journal[Len(d.journal)].by \in Nat /\ d.journal[Len(d.journal)].by < n BY DEF Sound
<1> QED BY <1>1 DEF Sound

LEMMA Starts ==
  ASSUME NEW d, NEW runs \in Nat, Sound(d, runs), ~ Dirty(d), Len(d.journal) < Steps,
         NEW r \in Run, run[r].n \in Nat, run[r].n < runs
  PROVE  LET new == startRecord(d, r)
         IN /\ Sound(new, runs) /\ Dirty(new) /\ Len(new.journal) = Len(d.journal) + 1 /\ new.schema = d.schema
            /\ Revision(new) = Revision(d) /\ \A n : Opened(new, n) => n = run[r].n
<1> DEFINE new == startRecord(d, r)
           last == [state |-> "started", by |-> run[r].n]
<1>0. d \in Database BY DEF Sound
<1>1. d.journal \in Seq(Record) /\ last \in Record BY <1>0 DEF Database, Record
<1>2. new = [d EXCEPT !.journal = Append(@, last)] BY DEF startRecord
<1> HIDE DEF new, last
<1>3. new.journal = Append(d.journal, last) /\ new.schema = d.schema /\ new.touched = d.touched BY <1>0, <1>2 DEF Database
<1>4. new \in Database
  <2>1. Append(d.journal, last) \in Seq(Record) BY <1>1
  <2> QED BY <1>0, <1>2, <2>1 DEF Database
<1>5. Len(new.journal) = Len(d.journal) + 1 /\ new.journal[Len(d.journal) + 1] = last
      /\ \A n \in 1 .. Len(d.journal) : new.journal[n] = d.journal[n]
  BY <1>1, <1>3
<1>6. Dirty(new) /\ \A n : Opened(new, n) => n = run[r].n
  <2>1. last.state = "started" /\ last.by = run[r].n BY DEF last
  <2>2. new.journal # <<>> BY <1>4, <1>5, <1>0, DatabaseFacts
  <2> QED BY <1>5, <2>1, <2>2 DEF Dirty, Opened
<1>7. Revision(new) = Revision(d) /\ Revision(d) = Len(d.journal) BY <1>0, <1>4, <1>5, <1>6, DatabaseFacts
<1>8. Matches(new)
  <2> SUFFICES ASSUME NEW o \in Change \ new.touched
               PROVE  IF o[1] = Len(new.journal) THEN new.schema[o] \in {{}, Missing}
                      ELSE new.schema[o] = Published(Revision(new))[o]
    BY <1>6 DEF Matches
  <2>1. d.schema[o] = Published(Revision(d))[o] BY <1>3 DEF Sound, Matches
  <2> QED BY <1>3, <1>7, <2>1 DEF Published
<1>9. \A n \in 1 .. Len(new.journal) - 1 : new.journal[n].state = "complete"
  <2> SUFFICES ASSUME NEW n \in 1 .. Len(new.journal) - 1 PROVE new.journal[n].state = "complete" OBVIOUS
  <2>1. n \in 1 .. Len(d.journal) /\ new.journal[n] = d.journal[n] BY <1>0, <1>5, DatabaseFacts
  <2>2. CASE n = Len(d.journal)
    <3>1. d.journal[n] \in Record /\ d.journal # <<>> BY <1>0, <2>1, DatabaseFacts
    <3> QED BY <2>1, <2>2, <3>1 DEF Dirty, Record
  <2>3. CASE n # Len(d.journal) BY <1>0, <2>1, <2>3, DatabaseFacts DEF Sound
  <2> QED BY <2>2, <2>3
<1>10. Len(new.journal) <= Steps BY <1>0, <1>5, DatabaseFacts, ConstantFacts
<1>11. new.journal[Len(new.journal)].by \in Nat /\ new.journal[Len(new.journal)].by < runs BY <1>5 DEF last
<1>12. new.journal # <<>> BY <1>0, <1>4, <1>5, DatabaseFacts
<1> QED BY <1>3, <1>4, <1>5, <1>6, <1>7, <1>8, <1>9, <1>10, <1>11, <1>12 DEF Sound, new

(* A statement of the open step. *)
LEMMA Executes ==
  ASSUME NEW d, NEW runs \in Nat, Sound(d, runs), Dirty(d), NEW k \in 1 .. Statements
  PROVE  LET new == [d EXCEPT !.schema[<<Len(d.journal), k>>] = {}]
         IN /\ <<Len(d.journal), k>> \in Change
            /\ Sound(new, runs) /\ new.journal = d.journal
            /\ \A o \in Change : new.schema[o] = IF o = <<Len(d.journal), k>> THEN {} ELSE d.schema[o]
<1> DEFINE o == <<Len(d.journal), k>>
           new == [d EXCEPT !.schema[o] = {}]
<1>0. d \in Database BY DEF Sound
<1>1. o \in Change BY <1>0, DatabaseFacts DEF Sound, Change, Step
<1>2. d.schema \in [Change -> SUBSET (Aspect \union {"missing"})] BY <1>0 DEF Database
<1>3. new.journal = d.journal /\ new.touched = d.touched /\ new.schema = [d.schema EXCEPT ![o] = {}] BY <1>0 DEF Database
<1>4. new \in Database
  <2> DEFINE schema == [d.schema EXCEPT ![o] = {}]
  <2>1. schema \in [Change -> SUBSET (Aspect \union {"missing"})] BY <1>1, <1>2
  <2>2. new = [d EXCEPT !.schema = schema] BY <1>0 DEF Database
  <2> HIDE DEF new, schema, o
  <2> QED BY <1>0, <2>1, <2>2 DEF Database
<1>5. \A p \in Change : new.schema[p] = IF p = o THEN {} ELSE d.schema[p] BY <1>1, <1>2, <1>3
<1> HIDE DEF new
<1>6. (Dirty(new) <=> Dirty(d)) /\ Revision(new) = Revision(d) BY <1>3, SameJournal
<1>7. Matches(new)
  <2> SUFFICES ASSUME NEW p \in Change \ new.touched
               PROVE  IF p[1] = Len(new.journal) THEN new.schema[p] \in {{}, Missing}
                      ELSE new.schema[p] = Published(Revision(new))[p]
    BY <1>6 DEF Matches
  <2>1. IF p[1] = Len(d.journal) THEN d.schema[p] \in {{}, Missing} ELSE d.schema[p] = Published(Revision(d))[p]
    BY <1>3 DEF Sound, Matches
  <2>2. p[1] # Len(d.journal) => p # o OBVIOUS
  <2> QED BY <1>3, <1>5, <1>6, <2>1, <2>2
<1>8. new.journal # <<>> BY <1>3 DEF Dirty
<1> QED BY <1>1, <1>3, <1>4, <1>5, <1>6, <1>7, <1>8 DEF Sound, new

(* The open step is completed over a schema that is exact. *)
LEMMA Completes ==
  ASSUME NEW d, NEW runs \in Nat, Sound(d, runs), Dirty(d), NEW r \in Run, config.target[r] \in Step,
         Exact(d, config.target[r], Len(d.journal)), Len(d.journal) <= config.target[r]
  PROVE  LET new == completeRecord(d, r)
         IN /\ Sound(new, runs) /\ ~ Dirty(new) /\ Len(new.journal) = Len(d.journal) /\ new.schema = d.schema
            /\ Revision(new) = Len(d.journal) /\ Revision(d) < Revision(new) /\ \A n : ~ Opened(new, n)
<1> DEFINE L == Len(d.journal)
           record == [d.journal[L] EXCEPT !.state = "complete"]
           journal == [d.journal EXCEPT ![L] = record]
           touched == d.touched \ Owned(r)
           new == completeRecord(d, r)
<1>0. d \in Database /\ L \in Nat /\ L > 0 /\ L \in 1 .. L /\ Revision(d) = L - 1 BY DatabaseFacts DEF Sound
<1>1. d.journal \in Seq(Record) /\ d.journal[L] \in Record BY <1>0, DatabaseFacts DEF Database
<1>2. record \in Record /\ record.state = "complete" BY <1>1 DEF Record
<1>3. new = [d EXCEPT !.journal = journal, !.touched = touched] BY <1>0 DEF completeRecord, Database
<1> HIDE DEF new, record
<1>4. journal \in Seq(Record) /\ Len(journal) = L /\ journal[L] = record
      /\ \A n \in 1 .. L : n # L => journal[n] = d.journal[n]
  BY <1>0, <1>1, <1>2
<1>5. touched \subseteq Change BY <1>0 DEF Database
<1> HIDE DEF journal, touched
<1>6. new \in Database /\ new.journal = journal /\ new.touched = touched /\ new.schema = d.schema
  BY <1>0, <1>3, <1>4, <1>5 DEF Database
<1>7. ~ Dirty(new) /\ new.journal # <<>> BY <1>0, <1>2, <1>4, <1>6, DatabaseFacts DEF Dirty
<1>8. Revision(new) = L BY <1>4, <1>6, <1>7, DatabaseFacts
<1>9. \A n \in 1 .. Len(new.journal) - 1 : new.journal[n].state = "complete"
  <2> SUFFICES ASSUME NEW n \in 1 .. L - 1 PROVE journal[n].state = "complete" BY <1>4, <1>6
  <2>1. n \in 1 .. L /\ n # L BY <1>0
  <2> QED BY <1>4, <2>1 DEF Sound
<1>10. Matches(new)
  <2> SUFFICES ASSUME NEW o \in Change \ touched PROVE d.schema[o] = IF o[1] <= L THEN {} ELSE Missing
    BY <1>6, <1>7, <1>8 DEF Matches, Published
  <2>0. o \in Change OBVIOUS
  <2>1. o[1] \in Nat /\ o[1] > 0 /\ config.target[r] \in Nat
    <3>1. o[1] \in Nat /\ o[1] \in 1 .. Steps BY <2>0, ChangeFacts
    <3> QED BY <3>1, ConstantFacts DEF Step
  <2>2. CASE o[1] \in 1 .. config.target[r]
    <3>1. (o[1] <= L => d.schema[o] = {}) /\ (o[1] > L => d.schema[o] = Missing) BY <2>0, <2>2 DEF Exact
    <3>2. o[1] <= L \/ (o[1] > L /\ ~ (o[1] <= L)) BY <1>0, <2>1
    <3> QED BY <3>1, <3>2
  <2>3. CASE o[1] \notin 1 .. config.target[r]
    <3>1. o \notin d.touched BY <2>3 DEF touched, Owned, Catalog
    <3>2. o[1] > config.target[r] /\ o[1] > L BY <1>0, <2>1, <2>3
    <3>3. d.schema[o] = Published(Revision(d))[o] BY <1>0, <3>1, <3>2, <2>1 DEF Sound, Matches
    <3> QED BY <1>0, <2>1, <3>2, <3>3 DEF Published
  <2> QED BY <2>2, <2>3
<1>11. \A n : ~ Opened(new, n) BY <1>7 DEF Opened
<1> QED BY <1>0, <1>4, <1>6, <1>7, <1>8, <1>9, <1>10, <1>11 DEF Sound, new

(* Something is changed by hand: what was there stays, or a step is open. *)
LEMMA Touches ==
  ASSUME NEW d, NEW runs \in Nat, Sound(d, runs), NEW o \in Change, NEW what \in SUBSET (Aspect \union {"missing"}),
         d.journal = <<>> => \/ Named(o) /\ what # Missing
                             \/ what # Missing /\ d.schema[o] # Missing
  PROVE  LET new == [d EXCEPT !.schema[o] = what, !.touched = @ \union {o}]
         IN Sound(new, runs) /\ new.journal = d.journal
<1> DEFINE schema == [d.schema EXCEPT ![o] = what]
           touched == d.touched \union {o}
           new == [d EXCEPT !.schema[o] = what, !.touched = @ \union {o}]
<1>0. d \in Database BY DEF Sound
<1>1. schema \in [Change -> SUBSET (Aspect \union {"missing"})] /\ touched \subseteq Change BY <1>0 DEF Database
<1>2. new = [d EXCEPT !.schema = schema, !.touched = touched] BY <1>0 DEF Database
<1>3. \A p \in Change : schema[p] = IF p = o THEN what ELSE d.schema[p] BY <1>0 DEF Database
<1> HIDE DEF new, schema
<1>4. new \in Database /\ new.journal = d.journal /\ new.schema = schema /\ new.touched = touched
  BY <1>0, <1>1, <1>2 DEF Database
<1>5. (Dirty(new) <=> Dirty(d)) /\ Revision(new) = Revision(d) BY <1>4, SameJournal
<1>6. Matches(new)
  <2> SUFFICES ASSUME NEW p \in Change \ touched
               PROVE  IF Dirty(d) /\ p[1] = Len(d.journal) THEN schema[p] \in {{}, Missing}
                      ELSE schema[p] = Published(Revision(d))[p]
    BY <1>4, <1>5 DEF Matches
  <2>1. p # o /\ p \in Change \ d.touched OBVIOUS
  <2> QED BY <1>3, <2>1 DEF Sound, Matches
<1>7. d.journal = <<>> => \A p \in Change : schema[p] # Missing => schema[<<p[1], 1>>] # Missing
  <2> SUFFICES ASSUME d.journal = <<>>, NEW p \in Change, schema[p] # Missing PROVE schema[<<p[1], 1>>] # Missing
    OBVIOUS
  <2> DEFINE q == <<p[1], 1>>
  <2>1. q \in Change /\ p = <<p[1], p[2]>> BY ChangeFacts DEF Change
  <2>2. d.schema[p] # Missing => d.schema[q] # Missing BY DEF Sound
  <2>3. CASE q = o BY <1>3, <2>1, <2>3
  <2>4. CASE q # o /\ p # o BY <1>3, <2>1, <2>2, <2>4
  <2>5. CASE q # o /\ p = o BY <1>3, <2>1, <2>2, <2>5 DEF Named
  <2> QED BY <2>3, <2>4, <2>5
<1> QED BY <1>4, <1>5, <1>6, <1>7 DEF Sound, new

(* What the checks of a revision find is exact. *)
LEMMA VerifiedExact ==
  ASSUME NEW d \in Database, NEW r \in Run, NEW revision \in Nat, verifyStep(d, r, revision),
         dialect \in {"postgres", "mysql", "sqlite"}
  PROVE  Exact(d, config.target[r], revision)
<1>1. verifyColumns(d, r, revision) /\ verifyOwnedAbsence(d, r, revision)
      /\ ~ Differs(d, {"constraints"}, revision) /\ ~ Differs(d, {"indexes"}, revision) /\ ~ Differs(d, {"orphans"}, revision)
  <2>1. ~ Differs(d, {"constraints", "indexes"}, revision) =>
           ~ Differs(d, {"constraints"}, revision) /\ ~ Differs(d, {"indexes"}, revision)
    BY DEF Differs
  <2> QED BY <2>1 DEF verifyStep, verifySQLite, verifyIndexes, verifyForeignKeyData, postgresConstraints, mysqlConstraints
<1>2. ASSUME NEW o \in Change, o[1] <= revision PROVE d.schema[o] = {}
  <2>1. d.schema[o] \subseteq {"columns", "constraints", "indexes", "orphans", "missing"} BY DEF Database, Aspect
  <2>2. d.schema[o] \intersect {"constraints"} = {} /\ d.schema[o] \intersect {"indexes"} = {}
        /\ d.schema[o] \intersect {"orphans"} = {} /\ d.schema[o] \intersect (Missing \union {"columns"}) = {}
    BY <1>1, <1>2 DEF Differs, verifyColumns
  <2> QED BY <2>1, <2>2 DEF Missing
<1>3. ASSUME NEW o \in Change, o[1] \in 1 .. config.target[r], o[1] > revision PROVE d.schema[o] = Missing
  <2>1. o \in Owned(r) BY <1>3 DEF Owned, Catalog
  <2> QED BY <1>1, <1>3, <2>1 DEF verifyColumns, verifyOwnedAbsence, objectExists
<1> QED BY <1>2, <1>3 DEF Exact

(* Where no name is taken nothing is there: what is altered has a name.    *)
LEMMA UnusedExact ==
  ASSUME NEW d, NEW runs, Sound(d, runs), d.journal = <<>>, NEW r \in Run, requireUnused(d, r)
  PROVE  Exact(d, config.target[r], 0)
<1>1. ASSUME NEW o \in Change, o[1] \in 1 .. config.target[r] PROVE d.schema[o] = Missing
  <2>1. <<o[1], 1>> \in Owned(r) /\ Named(<<o[1], 1>>) BY <1>1, ChangeFacts DEF Owned, Catalog, Named
  <2>2. d.schema[<<o[1], 1>>] = Missing BY <2>1 DEF requireUnused, objectExists
  <2> QED BY <2>2 DEF Sound
<1>2. ASSUME NEW o \in Change PROVE ~ (o[1] <= 0)
  <2>1. o[1] \in Nat /\ o[1] \in 1 .. Steps BY ChangeFacts
  <2> QED BY <2>1, ConstantFacts
<1> QED BY <1>1, <1>2 DEF Exact
-----------------------------------------------------------------------------
(* Runs and their statements. *)

LEMMA RunFacts ==
  ASSUME RunsTyped, NEW r \in Run
  PROVE  /\ dialect \in {"postgres", "mysql", "sqlite"} /\ config.target[r] \in Step
         /\ used.runs \in Nat /\ (run[r] = Idle \/ run[r] \in Running)
         /\ run[r].at # "idle" => run[r] \in Running /\ run[r] # Idle
         /\ run[r] # Idle => run[r] \in Running
BY ConstantFacts DEF RunsTyped, dialect, Idle

LEMMA RunningIsNotIdle == \A x \in Running : x # Idle /\ x.at # "idle"
BY DEF Running, Idle, Where, Operation

LEMMA FaultCounts ==
  ASSUME RunsTyped, Fault
  PROVE  used' \in [{"runs", "touches", "faults"} -> Nat] /\ used'.runs = used.runs
BY DEF RunsTyped, Fault, Count

(* The run fails: it has kept nothing to itself unless it warns of it. *)
LEMMA FailingKeeps ==
  ASSUME MigrationInv, NEW r \in Run, NEW flags \in SUBSET Flag, run[r] \in Running, ~ At(r, "close"), ~ At(r, "lock"),
         Fails(r, flags), UNCHANGED <<config, db, lock, ghost, session, pooled, said>>, UNCHANGED used \/ Fault,
         dialect = "mysql" /\ run[r].at \in {"statement", "verified", "finish"} =>
            flags \intersect {"dirty", "uncertain"} # {}
  PROVE  MigrationInv'
<1>0. RunsTyped /\ Numbered /\ Holding /\ DatabasesSound /\ HoldersKnow /\ Warned /\ LockNeverPooled BY DEF MigrationInv
<1> DEFINE x == [run[r] EXCEPT !.at = "close", !.flags = flags \union {"failed"}]
<1>1. used' \in [{"runs", "touches", "faults"} -> Nat] /\ used'.runs = used.runs BY <1>0, FaultCounts DEF RunsTyped
<1>2. /\ x \in Running /\ x.at = "close" /\ x.flags = flags \union {"failed"}
      /\ x.n = run[r].n /\ x.op = run[r].op /\ x.id = run[r].id
  BY DEF Running, Where, Flag
<1>3. run' \in [Run -> {Idle} \union Running] /\ run'[r] = x /\ \A q \in Run : q # r => run'[q] = run[q]
  <2>1. run' = [run EXCEPT ![r] = x] BY <1>0 DEF Fails, RunsTyped
  <2> HIDE DEF x
  <2> QED BY <1>0, <1>2, <2>1 DEF RunsTyped
<1>4. /\ tx' \in [Run -> Database \union {None}] /\ \A q \in Run : q # r => tx'[q] = tx[q]
      /\ tx'[r] = None \/ tx'[r] = tx[r]
      /\ dialect = "sqlite" /\ session[r] = "alive" => tx'[r] = tx[r]
  BY <1>0 DEF Fails, RunsTyped
<1>5. x # Idle /\ run[r] # Idle BY <1>2, RunningIsNotIdle
<1> HIDE DEF x
<1>6. RunsTyped'
  <2>1. \A q \in Run : q # r => (At(q, "close") <=> At(q, "close")') BY <1>3 DEF At
  <2>2. /\ run'[r] # Idle /\ session'[r] # "none" /\ said'[r] = None /\ run'[r].n < used'.runs
        /\ At(r, "close")' /\ "failed" \in run'[r].flags
        /\ run'[r].op \notin {"repair", "retry"} => run'[r].id = config'.target[r]
    BY <1>0, <1>1, <1>2, <1>3, <1>5 DEF RunsTyped, At
  <2> QED BY <1>0, <1>1, <1>3, <1>4, <2>1, <2>2 DEF RunsTyped
<1>7. Numbered' BY <1>0, <1>2, <1>3, <1>5 DEF Numbered
<1>8. Holding'
  <2>1. session[r] = "alive" => lock = r BY <1>0 DEF Holding, At
  <2>2. \A q \in Run : q # r => (At(q, "close") <=> At(q, "close")') /\ (At(q, "lock") <=> At(q, "lock")') BY <1>3 DEF At
  <2>3. /\ lock' = r => session'[r] = "alive" /\ ~ At(r, "lock")'
        /\ session'[r] = "alive" => lock' = r
        /\ ~ (run'[r] = Idle \/ At(r, "lock")')
        /\ dialect' = "mysql" => tx'[r] = None
        /\ dialect' = "sqlite" /\ lock' = r => tx'[r] # None
    BY <1>0, <1>2, <1>3, <1>4, <1>5, <2>1 DEF Holding, At, dialect
  <2> QED BY <1>0, <1>3, <1>4, <2>2, <2>3 DEF Holding, dialect
<1>9. DatabasesSound'
  <2>1. ASSUME NEW q \in Run, lock = q PROVE View(q)' = View(q) \/ View(q)' = db
    BY <1>4 DEF View
  <2>2. Revision(db) >= Revision(db) BY <1>0, DatabaseFacts DEF DatabasesSound, Sound
  <2> QED BY <1>0, <1>1, <2>1, <2>2 DEF DatabasesSound
<1>10. HoldersKnow'
  <2> SUFFICES ASSUME NEW q \in Run, lock = q
               PROVE  Knows(run'[q], View(q)', config.target[q]) /\ (At(q, "commit")' => dialect = "postgres" /\ tx'[q] # None)
    BY DEF HoldersKnow, dialect
  <2>1. CASE q = r
    <3>1. run'[r].at = "close" /\ run'[r].flags # {} BY <1>2, <1>3
    <3> QED BY <2>1, <3>1 DEF Knows, At, Operation
  <2>2. CASE q # r
    <3>1. run'[q] = run[q] /\ tx'[q] = tx[q] /\ View(q)' = View(q) BY <1>3, <1>4, <2>2 DEF View
    <3> QED BY <1>0, <3>1 DEF HoldersKnow, At
  <2> QED BY <2>1, <2>2
<1>11. Warned'
  <2> SUFFICES ASSUME NEW q \in Run, q = r, Opened(db, run[r].n) \/ (ghost # None /\ Opened(ghost, run[r].n))
               PROVE  dialect = "mysql" /\ run'[r].flags \intersect {"dirty", "uncertain"} # {}
    BY <1>0, <1>2, <1>3 DEF Warned, dialect
  <2>1. run[r].flags = {} BY <1>0, <1>5 DEF RunsTyped
  <2>2. dialect = "mysql" /\ run[r].at \in {"statement", "verified", "finish"} BY <1>0, <1>5, <2>1 DEF Warned
  <2> QED BY <1>2, <1>3, <2>2
<1>12. LockNeverPooled' BY <1>0 DEF LockNeverPooled
<1> QED BY <1>6, <1>7, <1>8, <1>9, <1>10, <1>11, <1>12 DEF MigrationInv

(* The connection breaks: the server goes on alone, with the lock, to new.  *)
LEMMA BreakingKeeps ==
  ASSUME MigrationInv, NEW r \in Run, NEW flags \in SUBSET Flag, run[r] \in Running, ~ At(r, "close"), ~ At(r, "lock"),
         session[r] = "alive", dialect # "sqlite", Fails(r, flags), Fault,
         UNCHANGED <<config, db, pooled, said>>, session' = [session EXCEPT ![r] = "dead"], lock' = "ghost",
         NEW new, ghost' = new, Sound(new, used.runs), Revision(new) >= Revision(db),
         \A n : Opened(new, n) => Opened(db, n) \/ n = run[r].n,
         Opened(new, run[r].n) \/ Opened(db, run[r].n) =>
            dialect = "mysql" /\ flags \intersect {"dirty", "uncertain"} # {}
  PROVE  MigrationInv'
<1>0. RunsTyped /\ Numbered /\ Holding /\ DatabasesSound /\ HoldersKnow /\ Warned /\ LockNeverPooled BY DEF MigrationInv
<1> DEFINE x == [run[r] EXCEPT !.at = "close", !.flags = flags \union {"failed"}]
<1>1. used' \in [{"runs", "touches", "faults"} -> Nat] /\ used'.runs = used.runs BY <1>0, FaultCounts
<1>2. /\ x \in Running /\ x.at = "close" /\ x.flags = flags \union {"failed"}
      /\ x.n = run[r].n /\ x.op = run[r].op /\ x.id = run[r].id
  BY DEF Running, Where, Flag
<1>3. run' \in [Run -> {Idle} \union Running] /\ run'[r] = x /\ \A q \in Run : q # r => run'[q] = run[q]
  <2>1. run' = [run EXCEPT ![r] = x] BY <1>0 DEF Fails, RunsTyped
  <2> HIDE DEF x
  <2> QED BY <1>0, <1>2, <2>1 DEF RunsTyped
<1>4. tx' \in [Run -> Database \union {None}] /\ tx'[r] = None /\ \A q \in Run : q # r => tx'[q] = tx[q]
  BY <1>0 DEF Fails, RunsTyped
<1>5. x # Idle /\ run[r] # Idle BY <1>2, RunningIsNotIdle
<1> HIDE DEF x
<1>6. session' \in [Run -> {"none", "alive", "dead"}] /\ session'[r] = "dead" /\ \A q \in Run : q # r => session'[q] = session[q]
  BY <1>0 DEF RunsTyped
<1>7. lock = r /\ \A q \in Run : lock' # q BY <1>0, ConstantFacts DEF Holding, At
<1>8. RunsTyped'
  <2>1. \A q \in Run : q # r => (At(q, "close") <=> At(q, "close")') BY <1>3 DEF At
  <2>2. /\ run'[r] # Idle /\ session'[r] # "none" /\ said'[r] = None /\ run'[r].n < used'.runs
        /\ At(r, "close")' /\ "failed" \in run'[r].flags
        /\ run'[r].op \notin {"repair", "retry"} => run'[r].id = config'.target[r]
    BY <1>0, <1>1, <1>2, <1>3, <1>5, <1>6 DEF RunsTyped, At
  <2> QED BY <1>0, <1>1, <1>3, <1>4, <1>6, <2>1, <2>2 DEF RunsTyped
<1>9. Numbered' BY <1>0, <1>2, <1>3, <1>5 DEF Numbered
<1>10. Holding'
  <2>1. \A q \in Run : q # r => (At(q, "close") <=> At(q, "close")') /\ (At(q, "lock") <=> At(q, "lock")') BY <1>3 DEF At
  <2>2. ghost' # None BY ConstantFacts DEF Sound
  <2>3. \A q \in Run : q # r => lock # q BY <1>7
  <2> QED BY <1>0, <1>2, <1>3, <1>4, <1>5, <1>6, <1>7, <2>1, <2>2, <2>3 DEF Holding, dialect, At
<1>11. DatabasesSound' BY <1>0, <1>1, <1>7 DEF DatabasesSound
<1>12. HoldersKnow' BY <1>7 DEF HoldersKnow
<1>13. Warned'
  <2>1. lock # "ghost" /\ ghost = None BY <1>0, <1>7, ConstantFacts DEF Holding
  <2>2. ASSUME NEW q \in Run, q # r, run[q] # Idle, Opened(db, run[q].n) \/ Opened(new, run[q].n)
        PROVE  dialect = "mysql" /\ (run[q].at \in {"statement", "verified", "finish"}
                                     \/ run[q].flags \intersect {"dirty", "uncertain"} # {})
    BY <1>0, <1>5, <2>2 DEF Warned, Numbered
  <2>3. ASSUME NEW q \in Run, said[q] # None, said[q].flags = {"failed"}
        PROVE  ~ Opened(db, said[q].n) /\ ~ Opened(new, said[q].n)
    <3>1. q # r BY <1>0, <1>5, <2>3 DEF RunsTyped
    <3> QED BY <1>0, <1>5, <2>3, <3>1 DEF Warned, Numbered
  <2>4. ASSUME Opened(db, run[r].n) \/ Opened(new, run[r].n)
        PROVE  dialect = "mysql" /\ run'[r].flags \intersect {"dirty", "uncertain"} # {}
    BY <1>2, <1>3, <2>4
  <2> QED BY <1>0, <1>2, <1>3, <2>2, <2>3, <2>4 DEF Warned, dialect
<1>14. LockNeverPooled' BY <1>0 DEF LockNeverPooled
<1> QED BY <1>8, <1>9, <1>10, <1>11, <1>12, <1>13, <1>14 DEF MigrationInv

(* A statement succeeds: the run goes on as x, with d committed and t in    *)
(* its transaction.                                                         *)
LEMMA SucceedingKeeps ==
  ASSUME MigrationInv, NEW r \in Run, run[r] \in Running, ~ At(r, "close"), ~ At(r, "lock"), session[r] = "alive",
         NEW x \in Running, x.n = run[r].n, x.op = run[r].op, x.id = run[r].id, x.flags = {}, x.at # "lock",
         NEW d, NEW t \in Database \union {None},
         db' = d, tx' = [tx EXCEPT ![r] = t], run' = [run EXCEPT ![r] = x],
         UNCHANGED <<config, lock, ghost, session, used, pooled, said>>,
         Sound(d, used.runs), Revision(d) >= Revision(db),
         Sound(IF t = None THEN d ELSE t, used.runs), Revision(IF t = None THEN d ELSE t) >= Revision(d),
         Knows(x, IF t = None THEN d ELSE t, config.target[r]),
         x.at = "commit" => dialect = "postgres" /\ t # None,
         dialect = "mysql" => t = None, dialect = "sqlite" => t # None,
         \A n : Opened(d, n) => Opened(db, n) \/ n = run[r].n,
         Opened(d, run[r].n) => dialect = "mysql" /\ x.at \in {"statement", "verified", "finish"}
  PROVE  MigrationInv'
<1>0. RunsTyped /\ Numbered /\ Holding /\ DatabasesSound /\ HoldersKnow /\ Warned /\ LockNeverPooled BY DEF MigrationInv
<1>1. run' \in [Run -> {Idle} \union Running] /\ run'[r] = x /\ \A q \in Run : q # r => run'[q] = run[q] BY <1>0 DEF RunsTyped
<1>2. tx' \in [Run -> Database \union {None}] /\ tx'[r] = t /\ \A q \in Run : q # r => tx'[q] = tx[q] BY <1>0 DEF RunsTyped
<1>3. x # Idle /\ run[r] # Idle /\ x.at # "idle" BY RunningIsNotIdle
<1>4. lock = r /\ ghost = None BY <1>0, ConstantFacts DEF Holding, At
<1>5. RunsTyped'
  <2>1. \A q \in Run : q # r => (At(q, "close") <=> At(q, "close")') BY <1>1 DEF At
  <2>2. /\ run'[r] # Idle /\ session'[r] # "none" /\ said'[r] = None /\ run'[r].n < used'.runs /\ run'[r].flags = {}
        /\ run'[r].op \notin {"repair", "retry"} => run'[r].id = config'.target[r]
    BY <1>0, <1>1, <1>3 DEF RunsTyped
  <2> QED BY <1>0, <1>1, <1>2, <2>1, <2>2 DEF RunsTyped
<1>6. Numbered' BY <1>0, <1>1, <1>3 DEF Numbered
<1>7. Holding'
  <2>1. \A q \in Run : q # r => (At(q, "close") <=> At(q, "close")') /\ (At(q, "lock") <=> At(q, "lock")') BY <1>1 DEF At
  <2>2. ~ At(r, "lock")' /\ run'[r] # Idle BY <1>1, <1>3 DEF At
  <2> QED BY <1>0, <1>1, <1>2, <1>4, <2>1, <2>2 DEF Holding, dialect
<1>8. View(r)' = (IF t = None THEN d ELSE t) /\ \A q \in Run : q # r => lock' # q BY <1>2, <1>4 DEF View
<1>9. DatabasesSound' BY <1>4, <1>8 DEF DatabasesSound
<1>10. HoldersKnow' BY <1>1, <1>2, <1>8 DEF HoldersKnow, At, dialect
<1>11. Warned'
  <2>1. ASSUME NEW q \in Run, q # r, run[q] # Idle, Opened(d, run[q].n)
        PROVE  dialect = "mysql" /\ (run[q].at \in {"statement", "verified", "finish"}
                                     \/ run[q].flags \intersect {"dirty", "uncertain"} # {})
    BY <1>0, <1>3, <2>1 DEF Warned, Numbered
  <2>2. ASSUME NEW q \in Run, said[q] # None, said[q].flags = {"failed"} PROVE ~ Opened(d, said[q].n)
    <3>1. q # r BY <1>0, <1>3, <2>2 DEF RunsTyped
    <3> QED BY <1>0, <1>3, <2>2, <3>1 DEF Warned, Numbered
  <2>3. ASSUME NEW q \in Run, said[q] # None, said[q].flags = {} PROVE Revision(d) >= Goal(said[q])
    <3>1. Revision(db) >= Goal(said[q]) BY <1>0, <2>3 DEF Warned
    <3>2. Revision(db) \in Nat /\ Revision(d) \in Nat /\ Goal(said[q]) \in Nat
      <4>1. said[q] \in Returned BY <1>0, <2>3 DEF RunsTyped
      <4>2. Goal(said[q]) \in Nat BY <4>1, ConstantFacts DEF Returned, Goal, Step
      <4> QED BY <1>0, <4>2, DatabaseFacts DEF Sound, DatabasesSound
    <3> QED BY <3>1, <3>2
  <2> QED BY <1>1, <1>4, <2>1, <2>2, <2>3 DEF Warned, dialect
<1>12. LockNeverPooled' BY <1>0 DEF LockNeverPooled
<1> QED BY <1>5, <1>6, <1>7, <1>9, <1>10, <1>11, <1>12 DEF MigrationInv

(* What a statement has to be for the invariant to hold after it, however   *)
(* it ends.                                                                 *)
LEMMA SendKeeps ==
  ASSUME MigrationInv, NEW r \in Run, NEW flags \in SUBSET Flag, run[r] \in Running, ~ At(r, "close"), ~ At(r, "lock"),
         NEW x \in Running, x.n = run[r].n, x.op = run[r].op, x.id = run[r].id, x.flags = {}, x.at # "lock",
         NEW d, NEW t, NEW new, new.db = d, new.tx = [tx EXCEPT ![r] = t],
         Send(r, new, [run EXCEPT ![r] = x], flags),
         dialect = "mysql" /\ run[r].at \in {"statement", "verified", "finish"} =>
            flags \intersect {"dirty", "uncertain"} # {},
         session[r] = "alive" =>
           /\ t \in Database \union {None}
           /\ Sound(d, used.runs) /\ Revision(d) >= Revision(db)
           /\ Sound(IF t = None THEN d ELSE t, used.runs) /\ Revision(IF t = None THEN d ELSE t) >= Revision(d)
           /\ Knows(x, IF t = None THEN d ELSE t, config.target[r])
           /\ x.at = "commit" => dialect = "postgres" /\ t # None
           /\ dialect = "mysql" => t = None
           /\ dialect = "sqlite" => t # None
           /\ \A n : Opened(d, n) => Opened(db, n) \/ n = run[r].n
           /\ Opened(d, run[r].n) => /\ dialect = "mysql" /\ x.at \in {"statement", "verified", "finish"}
                                     /\ flags \intersect {"dirty", "uncertain"} # {}
  PROVE  MigrationInv'
<1>1. UNCHANGED <<config, pooled, said>> BY DEF Send
<1>2. CASE /\ session[r] = "alive" /\ db' = new.db /\ tx' = new.tx /\ run' = [run EXCEPT ![r] = x]
           /\ UNCHANGED <<lock, ghost, session, used>>
  BY <1>1, <1>2, SucceedingKeeps
<1>3. CASE /\ Fails(r, flags) /\ UNCHANGED <<db, lock, ghost, session>> /\ (UNCHANGED used \/ Fault)
  BY <1>1, <1>3, FailingKeeps
<1>4. CASE /\ session[r] = "alive" /\ dialect # "sqlite" /\ ghost = None /\ Fault
           /\ Fails(r, flags)
           /\ session' = [session EXCEPT ![r] = "dead"]
           /\ ghost' = new.db /\ lock' = "ghost"
           /\ UNCHANGED db
  <2>1. Opened(db, run[r].n) => dialect = "mysql" /\ flags \intersect {"dirty", "uncertain"} # {}
    <3>1. run[r] # Idle /\ run[r].flags = {} BY RunningIsNotIdle DEF MigrationInv, RunsTyped
    <3> QED BY <3>1 DEF MigrationInv, Warned
  <2> QED BY <1>1, <1>4, <2>1, BreakingKeeps
<1> QED BY <1>2, <1>3, <1>4 DEF Send

(* A run that reads does not change what it sees. *)
LEMMA ReadsKeeps ==
  ASSUME MigrationInv, NEW r \in Run, NEW flags \in SUBSET Flag, run[r] \in Running, ~ At(r, "close"), ~ At(r, "lock"),
         NEW x \in Running, x.n = run[r].n, x.op = run[r].op, x.id = run[r].id, x.flags = {}, x.at # "lock",
         NEW holds, NEW next, Reads(r, holds, next, flags), holds => next = [run EXCEPT ![r] = x],
         dialect = "mysql" /\ run[r].at \in {"statement", "verified", "finish"} =>
            flags \intersect {"dirty", "uncertain"} # {},
         session[r] = "alive" /\ lock = r /\ holds =>
           /\ Knows(x, View(r), config.target[r])
           /\ x.at = "commit" => dialect = "postgres" /\ tx[r] # None
           /\ run[r].at \in {"statement", "verified", "finish"} => x.at \in {"statement", "verified", "finish"}
  PROVE  MigrationInv'
<1>0. RunsTyped /\ Holding /\ DatabasesSound /\ HoldersKnow /\ Warned BY DEF MigrationInv
<1>1. CASE ~ holds
  <2>1. Fails(r, flags) /\ UNCHANGED <<config, db, lock, ghost, session, pooled, said, used>> BY <1>1 DEF Reads
  <2> QED BY <2>1, FailingKeeps
<1>2. CASE holds
  <2> DEFINE new == [db |-> db, tx |-> tx]
  <2>1. Send(r, new, [run EXCEPT ![r] = x], flags) BY <1>2 DEF Reads
  <2>2. tx[r] \in Database \union {None} /\ new.db = db /\ new.tx = [tx EXCEPT ![r] = tx[r]] BY <1>0 DEF RunsTyped
  <2>3. ASSUME session[r] = "alive"
        PROVE  /\ Sound(db, used.runs) /\ Revision(db) >= Revision(db)
               /\ Sound(View(r), used.runs) /\ Revision(View(r)) >= Revision(db)
               /\ Knows(x, View(r), config.target[r])
               /\ x.at = "commit" => dialect = "postgres" /\ tx[r] # None
               /\ dialect = "mysql" => tx[r] = None
               /\ dialect = "sqlite" => tx[r] # None
               /\ Opened(db, run[r].n) => /\ dialect = "mysql" /\ x.at \in {"statement", "verified", "finish"}
                                          /\ flags \intersect {"dirty", "uncertain"} # {}
    <3>1. lock = r BY <1>0, <2>3 DEF Holding, At
    <3>2. run[r] # Idle /\ run[r].flags = {} BY <1>0, RunningIsNotIdle DEF RunsTyped
    <3>3. Opened(db, run[r].n) => dialect = "mysql" /\ run[r].at \in {"statement", "verified", "finish"} BY <1>0, <3>2 DEF Warned
    <3>4. Revision(db) \in Nat BY <1>0, DatabaseFacts DEF DatabasesSound, Sound
    <3> QED BY <1>0, <1>2, <2>3, <3>1, <3>3, <3>4 DEF DatabasesSound, Holding
  <2> HIDE DEF new
  <2>4. View(r) = IF tx[r] = None THEN db ELSE tx[r] BY DEF View
  <2> DEFINE t == tx[r]
  <2>5. /\ new.db = db /\ new.tx = [tx EXCEPT ![r] = t] /\ t \in Database \union {None}
        /\ View(r) = IF t = None THEN db ELSE t BY <2>2, <2>4
  <2>6. ASSUME session[r] = "alive"
        PROVE  /\ Sound(db, used.runs) /\ Revision(db) >= Revision(db)
               /\ Sound(IF t = None THEN db ELSE t, used.runs) /\ Revision(IF t = None THEN db ELSE t) >= Revision(db)
               /\ Knows(x, IF t = None THEN db ELSE t, config.target[r])
               /\ x.at = "commit" => dialect = "postgres" /\ t # None
               /\ dialect = "mysql" => t = None
               /\ dialect = "sqlite" => t # None
               /\ Opened(db, run[r].n) => /\ dialect = "mysql" /\ x.at \in {"statement", "verified", "finish"}
                                          /\ flags \intersect {"dirty", "uncertain"} # {} BY <2>3, <2>4, <2>6
  <2> HIDE DEF t
  <2> QED BY <2>1, <2>5, <2>6, SendKeeps
<1> QED BY <1>1, <1>2
-----------------------------------------------------------------------------
(* The operations. *)

(* Where a run is, and what goes with it. *)
LEMMA PlaceFacts ==
  ASSUME MigrationInv, NEW r \in Run, NEW where \in Where, At(r, where), where \notin {"lock", "close"}
  PROVE  /\ run[r] \in Running /\ ~ At(r, "close") /\ ~ At(r, "lock") /\ run[r].flags = {}
         /\ run[r].op \notin {"repair", "retry"} => run[r].id = config.target[r]
         /\ config.target[r] \in Step /\ config.target[r] \in Nat /\ dialect \in {"postgres", "mysql", "sqlite"}
         /\ used.runs \in Nat /\ run[r].n \in Nat /\ run[r].n < used.runs
         /\ run[r].at = where
         /\ session[r] = "alive" => lock = r
         /\ lock = r => /\ Knows(run[r], View(r), config.target[r])
                        /\ Sound(View(r), used.runs) /\ View(r) \in Database /\ Revision(View(r)) >= Revision(db)
                        /\ Sound(db, used.runs) /\ db \in Database
                        /\ Revision(db) \in Nat /\ Revision(View(r)) \in Nat /\ Len(View(r).journal) \in Nat
<1>0. RunsTyped /\ Holding /\ DatabasesSound /\ HoldersKnow BY DEF MigrationInv
<1>1. run[r].at = where /\ where # "idle" BY DEF At, Where, Operation
<1>2. run[r] \in Running /\ run[r] # Idle BY <1>0, <1>1, RunFacts
<1>3. ~ At(r, "close") /\ ~ At(r, "lock") /\ run[r].flags = {} BY <1>0, <1>1, <1>2 DEF RunsTyped, At
<1>4. config.target[r] \in Step /\ config.target[r] \in Nat BY <1>0, RunFacts, ConstantFacts DEF Step
<1>5. session[r] = "alive" => lock = r BY <1>0, <1>1 DEF Holding
<1>6. lock = r => /\ Sound(View(r), used.runs) /\ View(r) \in Database /\ Revision(View(r)) >= Revision(db)
                  /\ Sound(db, used.runs) /\ db \in Database
                  /\ Revision(db) \in Nat /\ Revision(View(r)) \in Nat /\ Len(View(r).journal) \in Nat
  BY <1>0, DatabaseFacts DEF DatabasesSound, Sound
<1>7. lock = r => Knows(run[r], View(r), config.target[r]) BY <1>0 DEF HoldersKnow
<1>8. dialect \in {"postgres", "mysql", "sqlite"} /\ used.runs \in Nat /\ run[r].n \in Nat /\ run[r].n < used.runs
      /\ (run[r].op \notin {"repair", "retry"} => run[r].id = config.target[r])
  BY <1>0, <1>2, RunFacts DEF RunsTyped, Running
<1> QED BY <1>1, <1>2, <1>3, <1>4, <1>5, <1>6, <1>7, <1>8

LEMMA GotoFacts ==
  ASSUME RunsTyped, NEW r \in Run, run[r] \in Running, NEW where \in Where
  PROVE  LET x == [run[r] EXCEPT !.at = where]
         IN /\ Goto(r, where) = [run EXCEPT ![r] = x]
            /\ x \in Running /\ x.at = where /\ x.n = run[r].n /\ x.op = run[r].op /\ x.id = run[r].id
            /\ x.flags = run[r].flags /\ x.k = run[r].k
BY DEF RunsTyped, Goto, Running

LEMMA FirstStatement ==
  ASSUME RunsTyped, NEW r \in Run, run[r] \in Running
  PROVE  LET x == [run[r] EXCEPT !.at = "statement", !.k = 1]
         IN /\ [run EXCEPT ![r].at = "statement", ![r].k = 1] = [run EXCEPT ![r] = x]
            /\ x \in Running /\ x.at = "statement" /\ x.n = run[r].n /\ x.op = run[r].op /\ x.id = run[r].id
            /\ x.flags = run[r].flags /\ x.k = 1
BY DEF RunsTyped, Running, Where

LEMMA RefusesKeeps ==
  ASSUME MigrationInv, NEW r \in Run, NEW flags \in SUBSET Flag, NEW next, Reads(r, FALSE, next, flags),
         run[r] \in Running, ~ At(r, "close"), ~ At(r, "lock"),
         dialect = "mysql" /\ run[r].at \in {"statement", "verified", "finish"} =>
            flags \intersect {"dirty", "uncertain"} # {}
  PROVE  MigrationInv'
<1>1. Fails(r, flags) /\ UNCHANGED <<config, db, lock, ghost, session, pooled, said, used>> BY DEF Reads
<1> QED BY <1>1, FailingKeeps

(* A run that only reads and goes on somewhere. *)
LEMMA LooksKeeps ==
  ASSUME MigrationInv, NEW r \in Run, NEW flags \in SUBSET Flag, NEW from \in Where \ {"lock", "close"}, At(r, from),
         NEW where \in Where \ {"lock", "commit"}, NEW holds, Reads(r, holds, Goto(r, where), flags),
         dialect = "mysql" /\ from \in {"statement", "verified", "finish"} => flags \intersect {"dirty", "uncertain"} # {},
         from \in {"statement", "verified", "finish"} => where \in {"statement", "verified", "finish"},
         session[r] = "alive" /\ lock = r /\ holds =>
           Knows([run[r] EXCEPT !.at = where], View(r), config.target[r])
  PROVE  MigrationInv'
<1>1. run[r] \in Running /\ ~ At(r, "close") /\ ~ At(r, "lock") /\ run[r].flags = {} /\ run[r].at = from BY PlaceFacts
<1> DEFINE x == [run[r] EXCEPT !.at = where]
<1>2. /\ Goto(r, where) = [run EXCEPT ![r] = x]
      /\ x \in Running /\ x.at = where /\ x.n = run[r].n /\ x.op = run[r].op /\ x.id = run[r].id /\ x.flags = {}
  BY <1>1, GotoFacts DEF MigrationInv
<1> HIDE DEF x
<1>3. session[r] = "alive" /\ lock = r /\ holds => Knows(x, View(r), config.target[r]) BY DEF x
<1> QED BY <1>1, <1>2, <1>3, ReadsKeeps

LEMMA configureKeeps ==
  ASSUME MigrationInv, NEW r \in Run, configure(r)
  PROVE  MigrationInv'
<1>1. At(r, "configure") /\ "configure" \in Where \ {"lock", "close"} /\ "history" \in Where \ {"lock", "commit"}
  BY DEF configure, Where
<1>2. PICK supported \in BOOLEAN : Reads(r, supported, Goto(r, "history"), {}) BY DEF configure
<1>3. run[r] \in Running BY <1>1, PlaceFacts
<1>4. Knows([run[r] EXCEPT !.at = "history"], View(r), config.target[r])
  <2>1. [run[r] EXCEPT !.at = "history"].at = "history" BY <1>3 DEF Running
  <2> QED BY <2>1 DEF Knows, Operation
<1> QED BY <1>1, <1>2, <1>4, LooksKeeps

LEMMA readHistoryKeeps ==
  ASSUME MigrationInv, NEW r \in Run, readHistory(r)
  PROVE  MigrationInv'
<1>1. At(r, "history") /\ "history" \in Where \ {"lock", "close"} BY DEF readHistory, Where
<1>2. run[r] \in Running BY <1>1, PlaceFacts
<1>3. run[r].op \in Where \ {"lock", "commit"} BY <1>2 DEF Running, Where, Operation
<1>4. Reads(r, KnownHistory(View(r), r), Goto(r, run[r].op), {}) BY DEF readHistory
<1>5. KnownHistory(View(r), r) => Knows([run[r] EXCEPT !.at = run[r].op], View(r), config.target[r])
  <2> DEFINE x == [run[r] EXCEPT !.at = run[r].op]
  <2>1. x.at = x.op /\ x.op \in Operation BY <1>2 DEF Running
  <2> HIDE DEF x
  <2>2. KnownHistory(View(r), r) => Knows(x, View(r), config.target[r]) BY <2>1 DEF Knows, KnownHistory, Operation
  <2> QED BY <2>2 DEF x
<1> QED BY <1>1, <1>3, <1>4, <1>5, LooksKeeps

LEMMA VerifyKeeps ==
  ASSUME MigrationInv, NEW r \in Run, Verify(r)
  PROVE  MigrationInv'
<1>1. At(r, "verify") /\ "verify" \in Where \ {"lock", "close"} /\ "close" \in Where \ {"lock", "commit"}
  BY DEF Verify, Where, Operation
<1> DEFINE holds == /\ ~ Dirty(View(r)) /\ Revision(View(r)) = config.target[r]
                    /\ verifyStep(View(r), r, config.target[r])
           x == [run[r] EXCEPT !.at = "close"]
<1>2. Reads(r, holds, Goto(r, "close"), {}) BY DEF Verify
<1>3. ASSUME lock = r, holds PROVE Knows(x, View(r), config.target[r])
  <2>1. run[r].op = "verify" BY <1>1, <1>3, PlaceFacts DEF Knows, Operation
  <2>2. run[r].id = config.target[r] /\ run[r] \in Running /\ config.target[r] \in Nat BY <1>1, <2>1, PlaceFacts
  <2>3. x.at = "close" /\ Goal(x) = config.target[r] BY <2>1, <2>2 DEF Running, Goal
  <2> QED BY <1>3, <2>2, <2>3 DEF Knows, Operation
<1> HIDE DEF holds
<1> QED BY <1>1, <1>2, <1>3, LooksKeeps

LEMMA RepairCompleteKeeps ==
  ASSUME MigrationInv, NEW r \in Run, RepairComplete(r)
  PROVE  MigrationInv'
<1>1. At(r, "repair") /\ "repair" \in Where \ {"lock", "close"} /\ "finish" \in Where \ {"lock", "commit"}
  BY DEF RepairComplete, Where, Operation
<1> DEFINE holds == Incomplete(r, run[r].id) /\ verifyStep(View(r), r, run[r].id)
           x == [run[r] EXCEPT !.at = "finish"]
<1>2. Reads(r, holds, Goto(r, "finish"), {"dirty"}) BY DEF RepairComplete
<1>3. ASSUME lock = r, holds PROVE Knows(x, View(r), config.target[r])
  <2>1. run[r].op = "repair" /\ Len(View(r).journal) <= config.target[r] BY <1>1, <1>3, PlaceFacts DEF Knows, Operation
  <2>2. run[r] \in Running /\ View(r) \in Database /\ Len(View(r).journal) \in Nat
        /\ dialect \in {"postgres", "mysql", "sqlite"}
    BY <1>1, <1>3, PlaceFacts
  <2>3. Dirty(View(r)) /\ run[r].id = Len(View(r).journal) BY <1>3 DEF Incomplete
  <2>4. Exact(View(r), config.target[r], Len(View(r).journal)) BY <1>3, <2>2, <2>3, VerifiedExact
  <2>5. x.at = "finish" /\ x.op = "repair" /\ x.id = run[r].id BY <2>1, <2>2 DEF Running
  <2> QED BY <2>1, <2>3, <2>4, <2>5 DEF Knows, Operation
<1> HIDE DEF holds
<1>4. {"dirty"} \in SUBSET Flag BY DEF Flag
<1> QED BY <1>1, <1>2, <1>3, <1>4, LooksKeeps

LEMMA PartialFlags ==
  /\ Partial \in SUBSET Flag
  /\ dialect = "mysql" => Partial \intersect {"dirty", "uncertain"} # {}
BY DEF Partial, Flag

(* The schema before a step is what its first statement is written for.    *)
LEMMA FitsFirst ==
  ASSUME NEW d, NEW target, NEW e, Exact(d, target, Len(e.journal) - 1), e.schema = d.schema, Len(e.journal) \in Nat
  PROVE  Fits(e, target, 1)
<1> SUFFICES ASSUME NEW o \in Change, o[1] \in 1 .. target
             PROVE  d.schema[o] = IF o[1] < Len(e.journal) \/ (o[1] = Len(e.journal) /\ o[2] < 1) THEN {} ELSE Missing
  BY DEF Fits
<1>1. o[1] \in Nat /\ o[2] \in Nat /\ o[2] \in 1 .. Statements BY ChangeFacts
<1>2. ~ (o[2] < 1) BY <1>1, ConstantFacts
<1>3. o[1] <= Len(e.journal) - 1 <=> o[1] < Len(e.journal) BY <1>1
<1>4. o[1] > Len(e.journal) - 1 <=> ~ (o[1] < Len(e.journal)) BY <1>1
<1> QED BY <1>2, <1>3, <1>4 DEF Exact

LEMMA retryStepKeeps ==
  ASSUME MigrationInv, NEW r \in Run, retryStep(r)
  PROVE  MigrationInv'
<1>1. At(r, "retry") /\ "retry" \in Where \ {"lock", "close"} BY DEF retryStep, Where, Operation
<1> DEFINE flags == IF Dirty(View(r)) THEN {"dirty"} ELSE {}
           x == [run[r] EXCEPT !.at = "statement", !.k = 1]
<1>2. PICK ready \in BOOLEAN :
        Reads(r, /\ Incomplete(r, run[r].id) /\ run[r].id > 1 /\ dialect = "mysql" /\ config.policy
                 /\ verifyStep(View(r), r, run[r].id - 1) /\ ready,
              [run EXCEPT ![r].at = "statement", ![r].k = 1], flags)
  BY DEF retryStep
<1> DEFINE holds == /\ Incomplete(r, run[r].id) /\ run[r].id > 1 /\ dialect = "mysql" /\ config.policy
                    /\ verifyStep(View(r), r, run[r].id - 1) /\ ready
<1>3. run[r] \in Running /\ ~ At(r, "close") /\ ~ At(r, "lock") /\ run[r].flags = {} /\ run[r].at = "retry"
  BY <1>1, PlaceFacts
<1>4. /\ [run EXCEPT ![r].at = "statement", ![r].k = 1] = [run EXCEPT ![r] = x]
      /\ x \in Running /\ x.at = "statement" /\ x.n = run[r].n /\ x.op = run[r].op /\ x.id = run[r].id
      /\ x.flags = {} /\ x.k = 1
  BY <1>3, FirstStatement DEF MigrationInv
<1>5. Reads(r, holds, [run EXCEPT ![r] = x], flags) BY <1>2, <1>4
<1> HIDE DEF x
<1>6. ASSUME lock = r, holds PROVE Knows(x, View(r), config.target[r])
  <2>1. run[r].op = "retry" /\ Len(View(r).journal) <= config.target[r] BY <1>1, <1>6, PlaceFacts DEF Knows, Operation
  <2>2. View(r) \in Database /\ Len(View(r).journal) \in Nat /\ dialect \in {"postgres", "mysql", "sqlite"}
    BY <1>1, <1>6, PlaceFacts
  <2>3. Dirty(View(r)) /\ run[r].id = Len(View(r).journal) /\ run[r].id > 1 BY <1>6 DEF Incomplete
  <2>4. run[r].id - 1 \in Nat /\ verifyStep(View(r), r, run[r].id - 1) BY <1>6, <2>2, <2>3
  <2>5. Exact(View(r), config.target[r], Len(View(r).journal) - 1) BY <2>2, <2>3, <2>4, VerifiedExact
  <2>6. Fits(View(r), config.target[r], 1) BY <2>2, <2>5, FitsFirst
  <2>7. 1 \in 1 .. Statements BY ConstantFacts
  <2> QED BY <1>4, <2>1, <2>3, <2>6, <2>7 DEF Knows, Operation
<1>7. flags \in SUBSET Flag BY DEF Flag
<1> HIDE DEF holds, flags
<1> QED BY <1>3, <1>4, <1>5, <1>6, <1>7, ReadsKeeps

LEMMA PreflightKeeps ==
  ASSUME MigrationInv, NEW r \in Run, Preflight(r)
  PROVE  MigrationInv'
<1>1. At(r, "apply") /\ "apply" \in Where \ {"lock", "close"} /\ "next" \in Where \ {"lock", "commit"}
  BY DEF Preflight, Where, Operation
<1> DEFINE flags == IF Dirty(View(r)) THEN {"dirty"} ELSE {}
           holds == /\ ~ Dirty(View(r))
                    /\ IF View(r).journal = <<>> THEN requireUnused(View(r), r)
                       ELSE verifyStep(View(r), r, Len(View(r).journal))
           x == [run[r] EXCEPT !.at = "next"]
<1>2. Reads(r, holds, Goto(r, "next"), flags) BY DEF Preflight
<1>3. ASSUME lock = r, holds PROVE Knows(x, View(r), config.target[r])
  <2>1. run[r].op = "apply" /\ Len(View(r).journal) <= config.target[r] BY <1>1, <1>3, PlaceFacts DEF Knows, Operation
  <2>2. /\ run[r] \in Running /\ View(r) \in Database /\ Sound(View(r), used.runs) /\ Len(View(r).journal) \in Nat
        /\ dialect \in {"postgres", "mysql", "sqlite"}
    BY <1>1, <1>3, PlaceFacts
  <2>3. Exact(View(r), config.target[r], Len(View(r).journal))
    <3>1. CASE View(r).journal = <<>>
      <4>1. Len(View(r).journal) = 0 /\ requireUnused(View(r), r) BY <1>3, <2>2, <3>1, DatabaseFacts
      <4> QED BY <2>2, <3>1, <4>1, UnusedExact
    <3>2. CASE View(r).journal # <<>> BY <1>3, <2>2, <3>2, VerifiedExact
    <3> QED BY <3>1, <3>2
  <2>4. x.at = "next" /\ x.op = "apply" BY <2>1, <2>2 DEF Running
  <2> QED BY <1>3, <2>1, <2>3, <2>4 DEF Knows, Operation
<1>4. flags \in SUBSET Flag BY DEF Flag
<1> HIDE DEF holds, flags
<1> QED BY <1>1, <1>2, <1>3, <1>4, LooksKeeps

LEMMA PostconditionsKeeps ==
  ASSUME MigrationInv, NEW r \in Run, Postconditions(r)
  PROVE  MigrationInv'
<1>1. At(r, "verified") /\ "verified" \in Where \ {"lock", "close"} /\ "finish" \in Where \ {"lock", "commit"}
  BY DEF Postconditions, Where
<1> DEFINE holds == verifyStep(View(r), r, Current(r))
           x == [run[r] EXCEPT !.at = "finish"]
<1>2. Reads(r, holds, Goto(r, "finish"), Partial) BY DEF Postconditions
<1>3. ASSUME lock = r, holds PROVE Knows(x, View(r), config.target[r])
  <2>1. /\ Dirty(View(r)) /\ Len(View(r).journal) <= config.target[r]
        /\ run[r].op \in {"apply", "repair", "retry"} /\ (run[r].op # "apply" => Len(View(r).journal) = run[r].id)
    BY <1>1, <1>3, PlaceFacts DEF Knows, Operation
  <2>2. run[r] \in Running /\ View(r) \in Database /\ Len(View(r).journal) \in Nat
        /\ dialect \in {"postgres", "mysql", "sqlite"}
    BY <1>1, <1>3, PlaceFacts
  <2>3. Exact(View(r), config.target[r], Len(View(r).journal)) BY <1>3, <2>2, VerifiedExact DEF Current
  <2>4. x.at = "finish" /\ x.op = run[r].op /\ x.id = run[r].id BY <2>2 DEF Running
  <2> QED BY <2>1, <2>3, <2>4 DEF Knows, Operation
<1> HIDE DEF holds
<1> QED BY <1>1, <1>2, <1>3, PartialFlags, LooksKeeps

LEMMA rereadHistoryKeeps ==
  ASSUME MigrationInv, NEW r \in Run, rereadHistory(r)
  PROVE  MigrationInv'
<1>1. At(r, "reread") /\ "reread" \in Where \ {"lock", "close"} /\ "next" \in Where \ {"lock", "commit"}
  BY DEF rereadHistory, Where
<1> DEFINE x == [run[r] EXCEPT !.at = "next"]
<1>2. Reads(r, KnownHistory(View(r), r), Goto(r, "next"), {}) BY DEF rereadHistory
<1>3. ASSUME lock = r PROVE Knows(x, View(r), config.target[r])
  <2>1. run[r].op = "apply" /\ ~ Dirty(View(r)) /\ Exact(View(r), config.target[r], Len(View(r).journal))
        /\ Len(View(r).journal) <= config.target[r]
    BY <1>1, <1>3, PlaceFacts DEF Knows, Operation
  <2>2. run[r] \in Running BY <1>1, PlaceFacts
  <2>3. x.at = "next" /\ x.op = "apply" BY <2>1, <2>2 DEF Running
  <2> QED BY <2>1, <2>3 DEF Knows, Operation
<1> QED BY <1>1, <1>2, <1>3, LooksKeeps

LEMMA startStepKeeps ==
  ASSUME MigrationInv, NEW r \in Run, startStep(r)
  PROVE  MigrationInv'
<1>1. At(r, "next") /\ "next" \in Where \ {"lock", "close"} /\ "close" \in Where \ {"lock", "commit"} BY DEF startStep, Where
<1>2. /\ run[r] \in Running /\ ~ At(r, "close") /\ ~ At(r, "lock") /\ run[r].flags = {} /\ run[r].at = "next"
      /\ run[r].n \in Nat /\ run[r].n < used.runs /\ used.runs \in Nat
      /\ config.target[r] \in Step /\ config.target[r] \in Nat /\ dialect \in {"postgres", "mysql", "sqlite"}
  BY <1>1, PlaceFacts
<1>3. lock = r =>
        /\ run[r].op = "apply" /\ ~ Dirty(View(r)) /\ Len(View(r).journal) <= config.target[r]
        /\ Exact(View(r), config.target[r], Len(View(r).journal))
        /\ run[r].id = config.target[r] /\ Len(View(r).journal) \in Nat /\ Revision(View(r)) = Len(View(r).journal)
        /\ Sound(View(r), used.runs) /\ Sound(db, used.runs) /\ Revision(db) \in Nat /\ Revision(View(r)) >= Revision(db)
  BY <1>1, PlaceFacts, DatabaseFacts DEF Knows, Operation
<1>4. CASE Revision(View(r)) = config.target[r] /\ Reads(r, TRUE, Goto(r, "close"), {})
  <2> DEFINE x == [run[r] EXCEPT !.at = "close"]
  <2>1. ASSUME lock = r PROVE Knows(x, View(r), config.target[r])
    <3>1. x.at = "close" /\ Goal(x) = config.target[r] BY <1>2, <1>3, <2>1 DEF Running, Goal
    <3> QED BY <1>2, <1>3, <1>4, <2>1, <3>1 DEF Knows, Operation
  <2> QED BY <1>1, <1>4, <2>1, LooksKeeps
<1>5. CASE Reads(r, FALSE, run, {}) BY <1>2, <1>5, RefusesKeeps
<1> DEFINE e == startRecord(View(r), r)
           new == IF dialect = "postgres" THEN [db |-> db, tx |-> [tx EXCEPT ![r] = e]] ELSE Changed(r, e)
<1>6. CASE Revision(View(r)) # config.target[r] /\ Send(r, new, [run EXCEPT ![r].at = "statement", ![r].k = 1], Partial)
  <2> DEFINE x == [run[r] EXCEPT !.at = "statement", !.k = 1]
             inTx == dialect = "postgres" \/ tx[r] # None
             d == IF inTx THEN db ELSE e
             t == IF inTx THEN e ELSE None
  <2>1. /\ [run EXCEPT ![r].at = "statement", ![r].k = 1] = [run EXCEPT ![r] = x]
        /\ x \in Running /\ x.at = "statement" /\ x.n = run[r].n /\ x.op = run[r].op /\ x.id = run[r].id
        /\ x.flags = {} /\ x.k = 1
    BY <1>2, FirstStatement DEF MigrationInv
  <2>2. new.db = d /\ new.tx = [tx EXCEPT ![r] = t]
    <3>1. tx \in [Run -> Database \union {None}] BY DEF MigrationInv, RunsTyped
    <3>2. tx[r] = None => [tx EXCEPT ![r] = None] = tx BY <3>1
    <3> QED BY <1>2, <3>2 DEF Changed
  <2> HIDE DEF x, new
  <2>3. ASSUME session[r] = "alive"
        PROVE  /\ t \in Database \union {None}
               /\ Sound(d, used.runs) /\ Revision(d) >= Revision(db)
               /\ Sound(IF t = None THEN d ELSE t, used.runs) /\ Revision(IF t = None THEN d ELSE t) >= Revision(d)
               /\ Knows(x, IF t = None THEN d ELSE t, config.target[r])
               /\ x.at = "commit" => dialect = "postgres" /\ t # None
               /\ dialect = "mysql" => t = None
               /\ dialect = "sqlite" => t # None
               /\ \A n : Opened(d, n) => Opened(db, n) \/ n = run[r].n
               /\ Opened(d, run[r].n) => /\ dialect = "mysql" /\ x.at \in {"statement", "verified", "finish"}
                                         /\ Partial \intersect {"dirty", "uncertain"} # {}
    <3>1. lock = r BY <1>1, <2>3, PlaceFacts
    <3>2. Len(View(r).journal) < config.target[r] /\ Len(View(r).journal) < Steps BY <1>2, <1>3, <1>6, <3>1, ConstantFacts DEF Step
    <3>3. /\ Sound(e, used.runs) /\ Dirty(e) /\ Len(e.journal) = Len(View(r).journal) + 1 /\ e.schema = View(r).schema
          /\ Revision(e) = Revision(View(r)) /\ \A n : Opened(e, n) => n = run[r].n
      BY <1>2, <1>3, <3>1, <3>2, Starts
    <3> HIDE DEF e
    <3>4. e \in Database /\ e # None /\ (IF t = None THEN d ELSE t) = e BY <3>3, ConstantFacts DEF Sound
    <3>5. Knows(x, e, config.target[r])
      <4>1. Len(e.journal) \in Nat /\ Len(e.journal) - 1 = Len(View(r).journal) BY <1>3, <3>1, <3>3
      <4>2. Fits(e, config.target[r], 1) BY <1>3, <3>1, <3>3, <4>1, FitsFirst
      <4>3. 1 \in 1 .. Statements /\ Len(e.journal) <= config.target[r] BY <1>2, <1>3, <3>1, <3>2, <3>3, ConstantFacts
      <4> QED BY <1>3, <2>1, <3>1, <3>3, <4>2, <4>3 DEF Knows, Operation
    <3>6. (dialect = "mysql" => tx[r] = None) /\ (dialect = "sqlite" => tx[r] # None) BY <3>1 DEF MigrationInv, Holding
    <3>7. Opened(db, run[r].n) => FALSE
      <4>1. run[r] # Idle BY <1>2, RunningIsNotIdle
      <4> QED BY <1>2, <4>1 DEF MigrationInv, Warned
    <3> QED BY <1>2, <1>3, <2>1, <3>1, <3>3, <3>4, <3>5, <3>6, <3>7, PartialFlags
  <2>4. Send(r, new, [run EXCEPT ![r] = x], Partial) BY <1>6, <2>1
  <2> HIDE DEF d, t
  <2>5. run[r] \in Running /\ ~ At(r, "close") /\ ~ At(r, "lock") /\ run[r].at = "next" BY <1>2
  <2>6. x \in Running /\ x.n = run[r].n /\ x.op = run[r].op /\ x.id = run[r].id /\ x.flags = {} /\ x.at # "lock" BY <2>1
  <2> QED BY <2>2, <2>3, <2>4, <2>5, <2>6, PartialFlags, SendKeeps
<1> QED BY <1>4, <1>5, <1>6 DEF startStep

(* Changed keeps what a run makes of its view where the view is.            *)
LEMMA ChangedFacts ==
  ASSUME RunsTyped, NEW r \in Run, NEW e
  PROVE  LET d == IF tx[r] = None THEN e ELSE db
             t == IF tx[r] = None THEN None ELSE e
         IN Changed(r, e).db = d /\ Changed(r, e).tx = [tx EXCEPT ![r] = t]
<1>1. tx \in [Run -> Database \union {None}] BY DEF RunsTyped
<1>2. tx[r] = None => [tx EXCEPT ![r] = None] = tx BY <1>1
<1> QED BY <1>2 DEF Changed

(* A run changes what it sees, without an open step that is new. *)
LEMMA ChangesKeeps ==
  ASSUME MigrationInv, NEW r \in Run, NEW flags \in SUBSET Flag,
         NEW from \in Where \ {"lock", "close"}, At(r, from),
         NEW x \in Running, x.n = run[r].n, x.op = run[r].op, x.id = run[r].id, x.flags = {}, x.at # "lock",
         NEW e, Send(r, Changed(r, e), [run EXCEPT ![r] = x], flags),
         dialect = "mysql" /\ from \in {"statement", "verified", "finish"} => flags \intersect {"dirty", "uncertain"} # {},
         session[r] = "alive" /\ lock = r =>
           /\ Sound(e, used.runs) /\ Revision(e) >= Revision(View(r))
           /\ Knows(x, e, config.target[r])
           /\ x.at = "commit" => dialect = "postgres" /\ tx[r] # None
           /\ \A n : Opened(e, n) => /\ Opened(View(r), n)
                                     /\ from \in {"statement", "verified", "finish"}
                                     /\ x.at \in {"statement", "verified", "finish"}
  PROVE  MigrationInv'
<1> DEFINE d == IF tx[r] = None THEN e ELSE db
           t == IF tx[r] = None THEN None ELSE e
<1>0. RunsTyped /\ Holding /\ DatabasesSound /\ Warned BY DEF MigrationInv
<1>1. run[r] \in Running /\ ~ At(r, "close") /\ ~ At(r, "lock") /\ run[r].flags = {} /\ run[r].at = from BY PlaceFacts
<1>2. Changed(r, e).db = d /\ Changed(r, e).tx = [tx EXCEPT ![r] = t] BY <1>0, ChangedFacts
<1>3. ASSUME session[r] = "alive"
      PROVE  /\ t \in Database \union {None}
             /\ Sound(d, used.runs) /\ Revision(d) >= Revision(db)
             /\ Sound(IF t = None THEN d ELSE t, used.runs) /\ Revision(IF t = None THEN d ELSE t) >= Revision(d)
             /\ Knows(x, IF t = None THEN d ELSE t, config.target[r])
             /\ x.at = "commit" => dialect = "postgres" /\ t # None
             /\ dialect = "mysql" => t = None
             /\ dialect = "sqlite" => t # None
             /\ \A n : Opened(d, n) => Opened(db, n) \/ n = run[r].n
             /\ Opened(d, run[r].n) => /\ dialect = "mysql" /\ x.at \in {"statement", "verified", "finish"}
                                       /\ flags \intersect {"dirty", "uncertain"} # {}
  <2>1. lock = r BY <1>3, PlaceFacts
  <2>2. /\ Sound(e, used.runs) /\ e \in Database /\ e # None /\ Revision(e) >= Revision(View(r)) /\ Revision(e) \in Nat
        /\ Sound(db, used.runs) /\ Revision(View(r)) >= Revision(db) /\ Revision(db) \in Nat /\ Revision(View(r)) \in Nat
    BY <1>3, <2>1, PlaceFacts, ConstantFacts, DatabaseFacts DEF Sound
  <2>3. (IF t = None THEN d ELSE t) = e /\ (t = None <=> tx[r] = None) BY <2>2
  <2>4. (dialect = "mysql" => tx[r] = None) /\ (dialect = "sqlite" => tx[r] # None) BY <1>0, <2>1 DEF Holding
  <2>5. run[r] # Idle BY <1>1, RunningIsNotIdle
  <2>6. Opened(db, run[r].n) => dialect = "mysql" /\ from \in {"statement", "verified", "finish"}
    BY <1>0, <1>1, <2>5 DEF Warned
  <2>7. CASE tx[r] = None
    <3>1. View(r) = db /\ d = e BY <2>7 DEF View
    <3>2. \A n : Opened(d, n) => /\ Opened(db, n) /\ from \in {"statement", "verified", "finish"}
                                 /\ x.at \in {"statement", "verified", "finish"}
      BY <1>3, <2>1, <3>1
    <3>3. Opened(d, run[r].n) => /\ dialect = "mysql" /\ x.at \in {"statement", "verified", "finish"}
                                 /\ flags \intersect {"dirty", "uncertain"} # {}
      BY <2>6, <3>2
    <3>4. Sound(d, used.runs) /\ Revision(d) >= Revision(db) /\ Revision(e) >= Revision(d) BY <2>2, <3>1
    <3> HIDE DEF d, t
    <3> QED BY <1>3, <2>1, <2>2, <2>3, <2>4, <2>7, <3>2, <3>3, <3>4
  <2>8. CASE tx[r] # None
    <3>1. d = db /\ dialect # "mysql" BY <2>4, <2>8
    <3>2. Revision(e) >= Revision(d) BY <2>2, <3>1
    <3> HIDE DEF d, t
    <3> QED BY <1>3, <2>1, <2>2, <2>3, <2>4, <2>6, <2>8, <3>1, <3>2
  <2> QED BY <2>7, <2>8
<1> HIDE DEF d, t
<1> QED BY <1>1, <1>2, <1>3, SendKeeps

LEMMA executeStatementKeeps ==
  ASSUME MigrationInv, NEW r \in Run, executeStatement(r)
  PROVE  MigrationInv'
<1>1. At(r, "statement") /\ "statement" \in Where \ {"lock", "close"} BY DEF executeStatement, Where
<1>2. /\ run[r] \in Running /\ ~ At(r, "close") /\ ~ At(r, "lock") /\ run[r].flags = {} /\ run[r].at = "statement"
      /\ used.runs \in Nat
  BY <1>1, PlaceFacts
<1> DEFINE o == <<Current(r), run[r].k>>
           last == run[r].k = Statements
           e == [View(r) EXCEPT !.schema[o] = {}]
           where == IF last THEN "verified" ELSE "statement"
           x == [run[r] EXCEPT !.at = where, !.k = @ + 1]
<1>3. CASE View(r).schema[o] # Missing /\ Reads(r, FALSE, run, Partial) BY <1>2, <1>3, PartialFlags, RefusesKeeps
<1>4. CASE Send(r, Changed(r, e), [run EXCEPT ![r].at = where, ![r].k = @ + 1], Partial)
  <2>1. where \in Where /\ run[r].k + 1 \in Nat BY <1>2 DEF Where, Running
  <2>2. [run EXCEPT ![r].at = where, ![r].k = @ + 1] = [run EXCEPT ![r] = x]
    <3>1. run \in [Run -> {Idle} \union Running] BY DEF MigrationInv, RunsTyped
    <3> HIDE DEF where
    <3> QED BY <1>2, <3>1 DEF Running
  <2>3. /\ x \in Running /\ x.at = where /\ x.n = run[r].n /\ x.op = run[r].op /\ x.id = run[r].id
        /\ x.flags = {} /\ x.k = run[r].k + 1
    <3> DEFINE n == run[r].k + 1
    <3>1. x = [run[r] EXCEPT !.at = where, !.k = n] OBVIOUS
    <3>2. n \in Nat BY <2>1
    <3> HIDE DEF where, n, x
    <3> QED BY <1>2, <2>1, <3>1, <3>2 DEF Running, n
  <2>4. ASSUME lock = r
        PROVE  /\ Sound(e, used.runs) /\ Revision(e) >= Revision(View(r))
               /\ Knows(x, e, config.target[r])
               /\ \A n : Opened(e, n) => Opened(View(r), n)
    <3>1. /\ Sound(View(r), used.runs) /\ Dirty(View(r)) /\ run[r].k \in 1 .. Statements
          /\ Fits(View(r), config.target[r], run[r].k) /\ Len(View(r).journal) <= config.target[r]
          /\ run[r].op \in {"apply", "repair", "retry"} /\ (run[r].op # "apply" => Len(View(r).journal) = run[r].id)
          /\ Revision(View(r)) \in Nat /\ Len(View(r).journal) \in Nat
      BY <1>1, <2>4, PlaceFacts DEF Knows, Operation
    <3>2. /\ o \in Change /\ Sound(e, used.runs) /\ e.journal = View(r).journal
          /\ \A p \in Change : e.schema[p] = IF p = o THEN {} ELSE View(r).schema[p]
      BY <1>2, <3>1, Executes DEF Current
    <3> HIDE DEF e, where, x
    <3>3. (Dirty(e) <=> Dirty(View(r))) /\ Revision(e) = Revision(View(r)) /\ \A n : Opened(e, n) <=> Opened(View(r), n)
      BY <3>2, SameJournal
    <3>4. ~ last => run[r].k + 1 \in 1 .. Statements BY <3>1, ConstantFacts
    <3>5. Fits(e, config.target[r], run[r].k + 1)
      <4> SUFFICES ASSUME NEW p \in Change, p[1] \in 1 .. config.target[r]
                   PROVE  e.schema[p] = IF p[1] < Len(e.journal) \/ (p[1] = Len(e.journal) /\ p[2] < run[r].k + 1)
                                        THEN {} ELSE Missing
        BY DEF Fits
      <4>1. View(r).schema[p] = IF p[1] < Len(e.journal) \/ (p[1] = Len(e.journal) /\ p[2] < run[r].k) THEN {} ELSE Missing
        BY <3>1, <3>2 DEF Fits
      <4>2. p[1] \in Nat /\ p[2] \in Nat /\ p = <<p[1], p[2]>> /\ run[r].k \in Nat BY <3>1, ChangeFacts DEF Change
      <4>3. p = o <=> p[1] = Len(e.journal) /\ p[2] = run[r].k BY <3>2, <4>2 DEF Current
      <4>4. p[2] < run[r].k + 1 <=> p[2] < run[r].k \/ p[2] = run[r].k BY <4>2
      <4>5. CASE p = o BY <3>2, <4>3, <4>4, <4>5
      <4>6. CASE p # o BY <3>2, <4>1, <4>3, <4>4, <4>6
      <4> QED BY <4>5, <4>6
    <3>6. where \in {"statement", "verified"} /\ (where = "statement" => ~ last) BY DEF where
    <3>7. Knows(x, e, config.target[r]) BY <2>3, <3>1, <3>2, <3>3, <3>4, <3>5, <3>6 DEF Knows, Operation
    <3> QED BY <3>1, <3>2, <3>3, <3>7
  <2>5. where \in {"statement", "verified"} OBVIOUS
  <2> HIDE DEF e, x, where
  <2>6. Send(r, Changed(r, e), [run EXCEPT ![r] = x], Partial) BY <1>4, <2>2
  <2> QED BY <1>1, <2>3, <2>4, <2>5, <2>6, PartialFlags, ChangesKeeps
<1> QED BY <1>3, <1>4 DEF executeStatement

LEMMA AfterFacts ==
  ASSUME NEW r
  PROVE  After(r) \in {"reread", "close"} /\ (After(r) = "reread" <=> run[r].op = "apply")
BY DEF After

LEMMA finishStepKeeps ==
  ASSUME MigrationInv, NEW r \in Run, finishStep(r)
  PROVE  MigrationInv'
<1>1. At(r, "finish") /\ "finish" \in Where \ {"lock", "close"} BY DEF finishStep, Where
<1>2. /\ run[r] \in Running /\ ~ At(r, "close") /\ ~ At(r, "lock") /\ run[r].flags = {} /\ run[r].at = "finish"
      /\ used.runs \in Nat /\ config.target[r] \in Step
  BY <1>1, PlaceFacts
<1> DEFINE e == completeRecord(View(r), r)
           where == IF tx[r] # None /\ dialect = "postgres" THEN "commit" ELSE After(r)
           flags == IF run[r].op = "repair" THEN {"dirty", "uncertain"} ELSE Partial
           x == [run[r] EXCEPT !.at = where]
<1>3. Send(r, Changed(r, e), Goto(r, where), flags) BY DEF finishStep
<1>4. flags \in SUBSET Flag /\ (dialect = "mysql" => flags \intersect {"dirty", "uncertain"} # {}) BY PartialFlags DEF Flag
<1>5. where \in {"commit", "reread", "close"} /\ (where = "commit" => tx[r] # None /\ dialect = "postgres")
      /\ (where = "reread" => run[r].op = "apply") /\ (where = "close" => run[r].op # "apply")
  BY AfterFacts
<1> HIDE DEF where, flags
<1>6. where \in Where BY <1>5 DEF Where
<1>7. /\ Goto(r, where) = [run EXCEPT ![r] = x]
      /\ x \in Running /\ x.at = where /\ x.n = run[r].n /\ x.op = run[r].op /\ x.id = run[r].id /\ x.flags = {}
  BY <1>2, <1>6, GotoFacts DEF MigrationInv
<1> HIDE DEF x
<1>8. ASSUME lock = r
      PROVE  /\ Sound(e, used.runs) /\ Revision(e) >= Revision(View(r))
             /\ Knows(x, e, config.target[r]) /\ \A n : ~ Opened(e, n)
  <2>1. /\ Sound(View(r), used.runs) /\ Dirty(View(r)) /\ Exact(View(r), config.target[r], Len(View(r).journal))
        /\ Len(View(r).journal) <= config.target[r] /\ Len(View(r).journal) \in Nat /\ Revision(View(r)) \in Nat
        /\ run[r].op \in {"apply", "repair", "retry"} /\ (run[r].op # "apply" => Len(View(r).journal) = run[r].id)
    BY <1>1, <1>8, PlaceFacts DEF Knows, Operation
  <2>2. /\ Sound(e, used.runs) /\ ~ Dirty(e) /\ Len(e.journal) = Len(View(r).journal) /\ e.schema = View(r).schema
        /\ Revision(e) = Len(View(r).journal) /\ Revision(View(r)) < Revision(e) /\ \A n : ~ Opened(e, n)
    BY <1>2, <2>1, Completes
  <2> HIDE DEF e
  <2>3. Exact(e, config.target[r], Len(e.journal)) BY <2>1, <2>2 DEF Exact
  <2>4. where = "close" => Revision(e) >= Goal(x) BY <1>5, <1>7, <2>1, <2>2 DEF Goal
  <2>5. Knows(x, e, config.target[r]) BY <1>5, <1>7, <2>1, <2>2, <2>3, <2>4 DEF Knows, Operation
  <2> QED BY <2>1, <2>2, <2>5
<1>9. Send(r, Changed(r, e), [run EXCEPT ![r] = x], flags) BY <1>3, <1>7
<1> HIDE DEF e
<1> QED BY <1>1, <1>4, <1>5, <1>7, <1>8, <1>9, ChangesKeeps

LEMMA AdoptKeeps ==
  ASSUME MigrationInv, NEW r \in Run, Adopt(r)
  PROVE  MigrationInv'
<1>1. At(r, "adopt") /\ "adopt" \in Where \ {"lock", "close"} BY DEF Adopt, Where, Operation
<1>2. /\ run[r] \in Running /\ ~ At(r, "close") /\ ~ At(r, "lock") /\ run[r].flags = {} /\ run[r].at = "adopt"
      /\ used.runs \in Nat /\ run[r].n \in Nat /\ run[r].n < used.runs
      /\ config.target[r] \in Step /\ config.target[r] \in Nat /\ dialect \in {"postgres", "mysql", "sqlite"}
  BY <1>1, PlaceFacts
<1>3. CASE Reads(r, FALSE, run, {}) BY <1>2, <1>3, RefusesKeeps
<1> DEFINE s == startRecord(View(r), r)
           e == completeRecord(s, r)
           x == [run[r] EXCEPT !.at = "close"]
<1>4. CASE View(r).journal = <<>> /\ verifyStep(View(r), r, 1) /\ Send(r, Changed(r, e), Goto(r, "close"), {"uncertain"})
  <2>1. /\ Goto(r, "close") = [run EXCEPT ![r] = x]
        /\ x \in Running /\ x.at = "close" /\ x.n = run[r].n /\ x.op = run[r].op /\ x.id = run[r].id /\ x.flags = {}
    BY <1>2, GotoFacts DEF MigrationInv, Where
  <2> HIDE DEF x
  <2>2. ASSUME lock = r
        PROVE  /\ Sound(e, used.runs) /\ Revision(e) >= Revision(View(r))
               /\ Knows(x, e, config.target[r]) /\ \A n : ~ Opened(e, n)
    <3>1. /\ Sound(View(r), used.runs) /\ View(r) \in Database /\ Len(View(r).journal) = 0 /\ ~ Dirty(View(r))
          /\ run[r].op = "adopt" /\ Revision(View(r)) = 0
      <4>1. Sound(View(r), used.runs) /\ View(r) \in Database /\ Knows(run[r], View(r), config.target[r])
        BY <1>1, <2>2, PlaceFacts
      <4>2. ~ Dirty(View(r)) BY <1>4 DEF Dirty
      <4>3. Len(View(r).journal) = 0 /\ Revision(View(r)) = Len(View(r).journal) BY <1>4, <4>1, <4>2, DatabaseFacts
      <4>4. run[r].op = "adopt" BY <1>2, <4>1 DEF Knows, Operation
      <4> QED BY <4>1, <4>2, <4>3, <4>4
    <3>2. /\ Sound(s, used.runs) /\ Dirty(s) /\ Len(s.journal) = 0 + 1 /\ s.schema = View(r).schema
      <4> DEFINE v == View(r)
      <4>1. s = startRecord(v, r) OBVIOUS
      <4>2. Sound(v, used.runs) /\ ~ Dirty(v) /\ Len(v.journal) = 0 /\ Len(v.journal) < Steps BY <3>1, ConstantFacts
      <4> HIDE DEF v, s
      <4>3. Sound(s, used.runs) /\ Dirty(s) /\ Len(s.journal) = Len(v.journal) + 1 /\ s.schema = v.schema
        BY <1>2, <4>1, <4>2, Starts
      <4> QED BY <4>2, <4>3 DEF v
    <3>3. Exact(View(r), config.target[r], 1) BY <1>2, <1>4, <3>1, VerifiedExact
    <3>4. Exact(s, config.target[r], 1) /\ Len(s.journal) = 1 /\ Len(s.journal) <= config.target[r]
      BY <1>2, <3>2, <3>3, ConstantFacts DEF Exact, Step
    <3> HIDE DEF s
    <3>5. /\ Sound(e, used.runs) /\ ~ Dirty(e) /\ Revision(e) = 1 /\ \A n : ~ Opened(e, n)
      BY <1>2, <3>2, <3>4, Completes
    <3> HIDE DEF e
    <3>6. Goal(x) = 1 BY <2>1, <3>1 DEF Goal
    <3>7. Knows(x, e, config.target[r]) BY <2>1, <3>5, <3>6 DEF Knows, Operation
    <3> QED BY <3>1, <3>5, <3>7
  <2>3. Send(r, Changed(r, e), [run EXCEPT ![r] = x], {"uncertain"}) BY <1>4, <2>1
  <2>4. {"uncertain"} \in SUBSET Flag BY DEF Flag
  <2> HIDE DEF e, s
  <2> QED BY <1>1, <2>1, <2>2, <2>3, <2>4, ChangesKeeps
<1> QED BY <1>3, <1>4 DEF Adopt

LEMMA commitStepKeeps ==
  ASSUME MigrationInv, NEW r \in Run, commitStep(r)
  PROVE  MigrationInv'
<1>1. At(r, "commit") /\ "commit" \in Where \ {"lock", "close"} BY DEF commitStep, Where
<1>2. /\ run[r] \in Running /\ ~ At(r, "close") /\ ~ At(r, "lock") /\ run[r].flags = {} /\ run[r].at = "commit"
  BY <1>1, PlaceFacts
<1> DEFINE x == [run[r] EXCEPT !.at = After(r)]
           d == tx[r]
           new == [db |-> d, tx |-> [tx EXCEPT ![r] = None]]
<1>3. After(r) \in Where /\ After(r) \in {"reread", "close"} /\ (After(r) = "reread" <=> run[r].op = "apply")
  BY AfterFacts DEF Where
<1>4. /\ Goto(r, After(r)) = [run EXCEPT ![r] = x]
      /\ x \in Running /\ x.at = After(r) /\ x.n = run[r].n /\ x.op = run[r].op /\ x.id = run[r].id /\ x.flags = {}
  BY <1>2, <1>3, GotoFacts DEF MigrationInv
<1>5. Send(r, new, [run EXCEPT ![r] = x], {"uncertain"}) BY <1>4 DEF commitStep
<1>6. new.db = d /\ new.tx = [tx EXCEPT ![r] = None] OBVIOUS
<1> HIDE DEF x, new
<1>7. ASSUME session[r] = "alive"
      PROVE  /\ Sound(d, used.runs) /\ Revision(d) >= Revision(db) /\ Revision(d) >= Revision(d)
             /\ Knows(x, d, config.target[r])
             /\ x.at # "commit" /\ dialect = "postgres" /\ \A n : ~ Opened(d, n)
  <2>1. lock = r BY <1>1, <1>7, PlaceFacts
  <2>2. dialect = "postgres" /\ tx[r] # None BY <1>1, <2>1 DEF MigrationInv, HoldersKnow
  <2>3. View(r) = d BY <2>2 DEF View
  <2>4. /\ Sound(d, used.runs) /\ Revision(d) >= Revision(db) /\ Revision(d) \in Nat /\ d \in Database
        /\ ~ Dirty(d) /\ Exact(d, config.target[r], Len(d.journal)) /\ Len(d.journal) <= config.target[r]
        /\ run[r].op \in {"apply", "repair", "retry"} /\ (run[r].op # "apply" => Len(d.journal) = run[r].id)
    BY <1>1, <2>1, <2>3, PlaceFacts DEF Knows, Operation
  <2>5. Revision(d) = Len(d.journal) BY <2>4, DatabaseFacts
  <2>6. After(r) = "close" => Revision(d) >= Goal(x) BY <1>3, <1>4, <2>4, <2>5 DEF Goal
  <2> HIDE DEF d
  <2>7. Knows(x, d, config.target[r]) BY <1>3, <1>4, <2>4, <2>5, <2>6 DEF Knows, Operation
  <2>8. \A n : ~ Opened(d, n) BY <2>4 DEF Opened
  <2> QED BY <1>3, <1>4, <2>2, <2>4, <2>7, <2>8
<1> HIDE DEF d
<1>9. x.at # "lock" BY <1>3, <1>4
<1> DEFINE t == None
           flags == {"uncertain"}
<1>10. t \in Database \union {None} /\ (IF t = None THEN d ELSE t) = d /\ new.tx = [tx EXCEPT ![r] = t] BY <1>6
<1>11. session[r] = "alive" =>
         /\ t \in Database \union {None}
         /\ Sound(d, used.runs) /\ Revision(d) >= Revision(db)
         /\ Sound(IF t = None THEN d ELSE t, used.runs) /\ Revision(IF t = None THEN d ELSE t) >= Revision(d)
         /\ Knows(x, IF t = None THEN d ELSE t, config.target[r])
         /\ x.at = "commit" => dialect = "postgres" /\ t # None
         /\ dialect = "mysql" => t = None
         /\ dialect = "sqlite" => t # None
         /\ \A n : Opened(d, n) => Opened(db, n) \/ n = run[r].n
         /\ Opened(d, run[r].n) => /\ dialect = "mysql" /\ x.at \in {"statement", "verified", "finish"}
                                   /\ flags \intersect {"dirty", "uncertain"} # {}
  <2> HIDE DEF t
  <2> QED BY <1>7, <1>10
<1>12. flags \in SUBSET Flag /\ flags \intersect {"dirty", "uncertain"} # {} BY DEF Flag
<1>13. x \in Running /\ x.n = run[r].n /\ x.op = run[r].op /\ x.id = run[r].id /\ x.flags = {} /\ x.at # "lock"
  BY <1>4, <1>9
<1>14. Send(r, new, [run EXCEPT ![r] = x], flags) BY <1>5
<1>15. new.db = d BY <1>6
<1> HIDE DEF t, flags
<1> QED BY <1>2, <1>10, <1>11, <1>12, <1>13, <1>14, <1>15, SendKeeps
-----------------------------------------------------------------------------
(* Taking and giving up the lock. *)

LEMMA OpenedFacts ==
  ASSUME NEW d, NEW runs, Sound(d, runs), NEW n, Opened(d, n)
  PROVE  n \in Nat /\ n < runs /\ Dirty(d)
BY DEF Sound, Opened

LEMMA acquireKeeps ==
  ASSUME MigrationInv, NEW r \in Run, NEW op \in Operation, NEW id \in Step, acquire(r, op, id)
  PROVE  MigrationInv'
<1>0. RunsTyped /\ Numbered /\ Holding /\ DatabasesSound /\ HoldersKnow /\ Warned /\ LockNeverPooled BY DEF MigrationInv
<1> DEFINE x == [at |-> "lock", n |-> used.runs, op |-> op, id |-> id, acquired |-> FALSE, flags |-> {}, k |-> 0]
<1>1. /\ run[r] = Idle /\ run' = [run EXCEPT ![r] = x] /\ session' = [session EXCEPT ![r] = "alive"]
      /\ said' = [said EXCEPT ![r] = None] /\ UNCHANGED <<config, db, tx, lock, ghost, pooled>>
      /\ op \in {"repair", "retry"} \/ id = config.target[r]
  BY DEF acquire, server
<1>2. used' \in [{"runs", "touches", "faults"} -> Nat] /\ used'.runs = used.runs + 1 /\ used.runs \in Nat
  BY <1>0 DEF acquire, Count, RunsTyped
<1>3. x \in Running /\ x.at = "lock" /\ x.n = used.runs /\ x.op = op /\ x.id = id /\ x.flags = {}
  BY <1>2 DEF Running, Where, Flag
<1>4. x # Idle BY <1>3, RunningIsNotIdle
<1> HIDE DEF x
<1>5. /\ run' \in [Run -> {Idle} \union Running] /\ run'[r] = x /\ \A q \in Run : q # r => run'[q] = run[q]
      /\ said' \in [Run -> Returned \union {None}] /\ said'[r] = None /\ \A q \in Run : q # r => said'[q] = said[q]
      /\ session' \in [Run -> {"none", "alive", "dead"}] /\ session'[r] = "alive"
      /\ \A q \in Run : q # r => session'[q] = session[q]
  BY <1>0, <1>1, <1>3 DEF RunsTyped
<1>6. lock # r /\ tx[r] = None /\ session[r] = "none" BY <1>0, <1>1 DEF RunsTyped, Holding
<1>7. \A q \in Run : /\ run[q] # Idle => run[q].n \in Nat /\ run[q].n < used.runs
                     /\ said[q] # None => said[q].n \in Nat /\ said[q].n < used.runs
  BY <1>0 DEF RunsTyped, Running, Returned
<1>8. RunsTyped'
  <2>1. \A q \in Run : q # r => (At(q, "close") <=> At(q, "close")') BY <1>5 DEF At
  <2>2. \A q \in Run : /\ run[q] # Idle => run[q].n < used'.runs
                       /\ said[q] # None => said[q].n < used'.runs
    BY <1>2, <1>7
  <2>3. /\ ~ At(r, "close")' /\ run'[r] # Idle /\ run'[r].n < used'.runs /\ run'[r].flags = {}
        /\ run'[r].op \notin {"repair", "retry"} => run'[r].id = config.target[r]
    BY <1>1, <1>2, <1>3, <1>4, <1>5 DEF At
  <2> QED BY <1>0, <1>1, <1>2, <1>5, <2>1, <2>2, <2>3 DEF RunsTyped
<1>9. Numbered'
  <2>1. \A q \in Run : (run[q] # Idle => run[q].n # used.runs) /\ (said[q] # None => said[q].n # used.runs) BY <1>2, <1>7
  <2> QED BY <1>0, <1>3, <1>5, <2>1 DEF Numbered
<1>10. Holding'
  <2>1. \A q \in Run : q # r => (At(q, "close") <=> At(q, "close")') /\ (At(q, "lock") <=> At(q, "lock")') BY <1>5 DEF At
  <2>2. At(r, "lock")' /\ run'[r].at = "lock" /\ ~ At(r, "close")' BY <1>3, <1>5 DEF At
  <2> QED BY <1>0, <1>1, <1>5, <1>6, <2>1, <2>2 DEF Holding, dialect
<1>11. DatabasesSound'
  <2>1. \A d : Sound(d, used.runs) => Sound(d, used'.runs) BY <1>2, SoundLater
  <2>2. \A q \in Run : View(q)' = View(q) BY <1>1 DEF View
  <2> QED BY <1>0, <1>1, <2>1, <2>2 DEF DatabasesSound
<1>12. HoldersKnow'
  <2>1. \A q \in Run : View(q)' = View(q) BY <1>1 DEF View
  <2> QED BY <1>0, <1>1, <1>5, <1>6, <2>1 DEF HoldersKnow, At, dialect
<1>13. Warned'
  <2>1. ~ Opened(db, used.runs) /\ (ghost # None => ~ Opened(ghost, used.runs))
    BY <1>0, <1>2, OpenedFacts DEF DatabasesSound
  <2> QED BY <1>0, <1>1, <1>3, <1>5, <2>1 DEF Warned, dialect
<1>14. LockNeverPooled' BY <1>0, <1>1 DEF LockNeverPooled
<1> QED BY <1>8, <1>9, <1>10, <1>11, <1>12, <1>13, <1>14 DEF MigrationInv

(* The lock is taken, or the run gives up. *)
LEMMA tryKeeps ==
  ASSUME MigrationInv, NEW r \in Run, try(r)
  PROVE  MigrationInv'
<1>0. RunsTyped /\ Numbered /\ Holding /\ DatabasesSound /\ HoldersKnow /\ Warned /\ LockNeverPooled BY DEF MigrationInv
<1>1. At(r, "lock") /\ UNCHANGED <<config, db, session, ghost, pooled, said>> BY DEF try
<1>2. run[r] \in Running /\ run[r].at = "lock" /\ run[r] # Idle /\ run[r].flags = {} /\ lock # r /\ tx[r] = None
  <2>1. run[r].at = "lock" BY <1>1 DEF At
  <2>2. run[r] \in Running /\ run[r] # Idle BY <1>0, <2>1, RunFacts
  <2> QED BY <1>0, <1>1, <2>1, <2>2 DEF RunsTyped, Holding, At
<1>3. used' \in [{"runs", "touches", "faults"} -> Nat] /\ used'.runs = used.runs
  <2>1. UNCHANGED used \/ Fault BY DEF try
  <2> QED BY <1>0, <2>1, FaultCounts DEF RunsTyped
<1>4. PICK x \in Running :
        /\ run' = [run EXCEPT ![r] = x] /\ x.n = run[r].n /\ x.op = run[r].op /\ x.id = run[r].id
        /\ (x.at = "configure" /\ x.flags = {}) \/ (x.at = "close" /\ x.flags = {"failed"})
        /\ \/ session[r] = "alive" /\ lock = None /\ Locked(r)
           \/ UNCHANGED <<lock, tx>> /\ x.at = "close"
  <2> DEFINE taken == [run[r] EXCEPT !.acquired = TRUE, !.at = "configure"]
             refused == [run[r] EXCEPT !.flags = {"failed"}, !.at = "close"]
  <2>1. /\ taken \in Running /\ taken.n = run[r].n /\ taken.op = run[r].op /\ taken.id = run[r].id
        /\ taken.at = "configure" /\ taken.flags = {}
    BY <1>2 DEF Running, Where
  <2>2. /\ refused \in Running /\ refused.n = run[r].n /\ refused.op = run[r].op /\ refused.id = run[r].id
        /\ refused.at = "close" /\ refused.flags = {"failed"}
    BY <1>2 DEF Running, Where, Flag
  <2>3. CASE /\ session[r] = "alive" /\ lock = None /\ Locked(r)
             /\ run' = [run EXCEPT ![r].acquired = TRUE, ![r].at = "configure"]
    <3>1. run' = [run EXCEPT ![r] = taken] BY <1>0, <2>3 DEF RunsTyped
    <3> HIDE DEF taken
    <3> QED BY <2>1, <2>3, <3>1
  <2>4. CASE /\ (session[r] = "alive" /\ lock = None /\ Locked(r)) \/ UNCHANGED <<lock, tx>>
             /\ run' = [run EXCEPT ![r].flags = {"failed"}, ![r].at = "close"]
    <3>1. run' = [run EXCEPT ![r] = refused] BY <1>0, <2>4 DEF RunsTyped
    <3> HIDE DEF refused
    <3> QED BY <2>2, <2>4, <3>1
  <2> QED BY <2>3, <2>4 DEF try
<1>5. run' \in [Run -> {Idle} \union Running] /\ run'[r] = x /\ \A q \in Run : q # r => run'[q] = run[q] BY <1>0, <1>4 DEF RunsTyped
<1>6. x # Idle BY RunningIsNotIdle
<1>7. /\ lock' \in Run \union {None, "ghost"} /\ tx' \in [Run -> Database \union {None}]
      /\ \A q \in Run : q # r => tx'[q] = tx[q]
      /\ \/ /\ lock = None /\ lock' = r /\ ghost = None /\ session[r] = "alive"
            /\ tx'[r] = IF dialect = "sqlite" THEN db ELSE None
         \/ lock' = lock /\ tx'[r] = None /\ x.at = "close"
  <2>1. db \in Database BY <1>0 DEF DatabasesSound, Sound
  <2>2. lock = None => ghost = None BY <1>0, ConstantFacts DEF Holding
  <2> QED BY <1>0, <1>2, <1>4, <2>1, <2>2 DEF RunsTyped, Locked
<1>8. RunsTyped'
  <2>1. \A q \in Run : q # r => (At(q, "close") <=> At(q, "close")') BY <1>5 DEF At
  <2>2. /\ run'[r] # Idle /\ session'[r] # "none" /\ said'[r] = None /\ run'[r].n < used'.runs
        /\ At(r, "close")' => "failed" \in run'[r].flags
        /\ ~ At(r, "close")' => run'[r].flags = {}
        /\ run'[r].op \notin {"repair", "retry"} => run'[r].id = config'.target[r]
    BY <1>0, <1>1, <1>2, <1>3, <1>4, <1>5, <1>6 DEF RunsTyped, At
  <2> QED BY <1>0, <1>1, <1>3, <1>5, <1>7, <2>1, <2>2 DEF RunsTyped
<1>9. Numbered' BY <1>0, <1>1, <1>2, <1>4, <1>5, <1>6 DEF Numbered
<1>10. Holding'
  <2>1. \A q \in Run : q # r => (At(q, "close") <=> At(q, "close")') /\ (At(q, "lock") <=> At(q, "lock")') BY <1>5 DEF At
  <2>2. ~ At(r, "lock")' /\ run'[r] # Idle /\ (At(r, "close")' <=> x.at = "close") BY <1>4, <1>5, <1>6 DEF At
  <2>3. db # None BY <1>0, ConstantFacts DEF DatabasesSound, Sound
  <2>4. \A q \in Run : q # r => (lock' = q <=> lock = q) \/ (lock = None /\ lock' = r) BY <1>7
  <2>5. CASE lock = None /\ lock' = r /\ ghost = None /\ session[r] = "alive" /\ tx'[r] = IF dialect = "sqlite" THEN db ELSE None
    BY <1>0, <1>1, <1>5, <1>7, <2>1, <2>2, <2>3, <2>5, ConstantFacts DEF Holding, dialect
  <2>6. CASE lock' = lock /\ tx'[r] = None /\ x.at = "close"
    BY <1>0, <1>1, <1>2, <1>4, <1>5, <1>7, <2>1, <2>2, <2>6 DEF Holding, dialect
  <2> QED BY <1>7, <2>5, <2>6
<1>11. lock' = r => View(r)' = db BY <1>1, <1>2, <1>7 DEF View
<1>12. \A q \in Run : q # r /\ lock' = q => lock = q /\ View(q)' = View(q) BY <1>1, <1>7 DEF View
<1>13. DatabasesSound'
  <2>1. Revision(db) >= Revision(db) BY <1>0, DatabaseFacts DEF DatabasesSound, Sound
  <2> QED BY <1>0, <1>1, <1>3, <1>11, <1>12, <2>1 DEF DatabasesSound
<1>14. HoldersKnow'
  <2>1. Knows(x, db, config.target[r]) /\ x.at # "commit" BY <1>4 DEF Knows, Operation
  <2> QED BY <1>0, <1>1, <1>5, <1>7, <1>11, <1>12, <2>1 DEF HoldersKnow, At, dialect
<1>15. Warned'
  <2>1. ~ Opened(db, run[r].n) /\ (ghost # None => ~ Opened(ghost, run[r].n)) BY <1>0, <1>2 DEF Warned
  <2> QED BY <1>0, <1>1, <1>4, <1>5, <2>1 DEF Warned, dialect
<1>16. LockNeverPooled' BY <1>0, <1>1 DEF LockNeverPooled
<1> QED BY <1>8, <1>9, <1>10, <1>13, <1>14, <1>15, <1>16 DEF MigrationInv

(* However a run ends, its session keeps no lock: it is unlocked or         *)
(* destroyed.                                                               *)
LEMMA ReleaseFacts ==
  ASSUME MigrationInv, NEW r \in Run, close(r)
  PROVE  /\ run[r] \in Running /\ run[r] # Idle /\ At(r, "close")
         /\ lock' = (IF lock = r THEN None ELSE lock) /\ LockNeverPooled'
         /\ tx' = [tx EXCEPT ![r] = None] /\ run' = [run EXCEPT ![r] = Idle]
         /\ session' = [session EXCEPT ![r] = "none"] /\ UNCHANGED <<config, ghost>>
         /\ UNCHANGED used \/ Fault
         /\ \E flags \in {run[r].flags, run[r].flags \union {"failed", "uncertain"}} :
               /\ said' = [said EXCEPT ![r] = [n |-> run[r].n, op |-> run[r].op, id |-> run[r].id, flags |-> flags]]
               /\ flags = {} => db' = View(r) /\ session[r] = "alive"
         /\ \/ db' = db
            \/ db' = tx[r] /\ tx[r] # None /\ run[r].flags = {} /\ session[r] = "alive"
<1>0. RunsTyped /\ Holding /\ LockNeverPooled BY DEF MigrationInv
<1>1. At(r, "close") /\ run[r] \in Running /\ run[r] # Idle BY <1>0, RunFacts DEF close, At
<1>2. /\ run' = [run EXCEPT ![r] = Idle] /\ session' = [session EXCEPT ![r] = "none"] /\ UNCHANGED <<config, ghost>>
      /\ UNCHANGED used \/ Fault
  BY DEF close
<1>3. CASE /\ session[r] = "alive"
           /\ Release(r, FALSE, tx[r] # None /\ run[r].flags = {}, run[r].acquired)
           /\ Returns(r, FALSE)
  <2>1. Keep(r, FALSE) <=> run[r].acquired BY DEF Keep
  <2>2. lock' = IF lock = r THEN None ELSE lock BY <1>3, <2>1 DEF Release
  <2>3. LockNeverPooled'
    <3>1. pooled' = pooled \/ (pooled' = pooled \union {[locked |-> lock = r /\ ~ run[r].acquired]} /\ run[r].acquired)
      BY <1>3, <2>1 DEF Release
    <3>2. CASE pooled' = pooled BY <1>0, <3>2 DEF LockNeverPooled
    <3>3. CASE pooled' = pooled \union {[locked |-> lock = r /\ ~ run[r].acquired]} /\ run[r].acquired
      <4>1. ~ [locked |-> lock = r /\ ~ run[r].acquired].locked BY <3>3
      <4> QED BY <1>0, <3>3, <4>1 DEF LockNeverPooled
    <3> QED BY <3>1, <3>2, <3>3
  <2>4. tx' = [tx EXCEPT ![r] = None] /\ db' = IF tx[r] # None /\ run[r].flags = {} THEN tx[r] ELSE db
    BY <1>3 DEF Release
  <2>5. said' = [said EXCEPT ![r] = [n |-> run[r].n, op |-> run[r].op, id |-> run[r].id, flags |-> run[r].flags]]
    BY <1>3 DEF Returns, Outcome
  <2>6. run[r].flags = {} => db' = View(r) BY <2>4 DEF View
  <2> QED BY <1>1, <1>2, <1>3, <2>2, <2>3, <2>4, <2>5, <2>6
<1>4. ASSUME NEW committed \in BOOLEAN, NEW unlocked \in BOOLEAN,
             committed => session[r] = "alive" /\ tx[r] # None /\ run[r].flags = {},
             Release(r, TRUE, committed, unlocked), Returns(r, TRUE)
      PROVE  /\ lock' = (IF lock = r THEN None ELSE lock) /\ LockNeverPooled' /\ tx' = [tx EXCEPT ![r] = None]
             /\ said' = [said EXCEPT ![r] = [n |-> run[r].n, op |-> run[r].op, id |-> run[r].id,
                                             flags |-> run[r].flags \union {"failed", "uncertain"}]]
             /\ \/ db' = db
                \/ db' = tx[r] /\ tx[r] # None /\ run[r].flags = {} /\ session[r] = "alive"
  <2>1. ~ Keep(r, TRUE) BY DEF Keep
  <2>2. lock' = (IF lock = r THEN None ELSE lock) /\ pooled' = pooled BY <1>4, <2>1 DEF Release
  <2>3. LockNeverPooled' BY <1>0, <2>2 DEF LockNeverPooled
  <2>4. tx' = [tx EXCEPT ![r] = None] /\ db' = IF committed THEN tx[r] ELSE db BY <1>4 DEF Release
  <2>5. said' = [said EXCEPT ![r] = [n |-> run[r].n, op |-> run[r].op, id |-> run[r].id,
                                     flags |-> run[r].flags \union {"failed", "uncertain"}]]
    BY <1>4 DEF Returns, Outcome
  <2> QED BY <1>4, <2>2, <2>3, <2>4, <2>5
<1>5. CASE \E committed, unlocked \in BOOLEAN :
             /\ committed => session[r] = "alive" /\ tx[r] # None /\ run[r].flags = {}
             /\ Release(r, TRUE, committed, unlocked) /\ Returns(r, TRUE)
  <2>1. PICK committed \in BOOLEAN, unlocked \in BOOLEAN :
             /\ committed => session[r] = "alive" /\ tx[r] # None /\ run[r].flags = {}
             /\ Release(r, TRUE, committed, unlocked) /\ Returns(r, TRUE)
    BY <1>5
  <2>2. /\ lock' = (IF lock = r THEN None ELSE lock) /\ LockNeverPooled' /\ tx' = [tx EXCEPT ![r] = None]
        /\ said' = [said EXCEPT ![r] = [n |-> run[r].n, op |-> run[r].op, id |-> run[r].id,
                                        flags |-> run[r].flags \union {"failed", "uncertain"}]]
        /\ \/ db' = db
           \/ db' = tx[r] /\ tx[r] # None /\ run[r].flags = {} /\ session[r] = "alive"
    BY <1>4, <2>1
  <2>3. run[r].flags \union {"failed", "uncertain"} # {} OBVIOUS
  <2> QED BY <1>1, <1>2, <2>2, <2>3
<1> QED BY <1>3, <1>5 DEF close

LEMMA closeKeeps ==
  ASSUME MigrationInv, NEW r \in Run, close(r)
  PROVE  MigrationInv'
<1>0. RunsTyped /\ Numbered /\ Holding /\ DatabasesSound /\ HoldersKnow /\ Warned /\ LockNeverPooled BY DEF MigrationInv
<1>1. /\ run[r] \in Running /\ run[r] # Idle /\ run[r].at = "close"
      /\ lock' = (IF lock = r THEN None ELSE lock) /\ LockNeverPooled'
      /\ tx' = [tx EXCEPT ![r] = None] /\ run' = [run EXCEPT ![r] = Idle]
      /\ session' = [session EXCEPT ![r] = "none"] /\ UNCHANGED <<config, ghost>>
      /\ UNCHANGED used \/ Fault
      /\ \/ db' = db
         \/ db' = tx[r] /\ tx[r] # None /\ run[r].flags = {} /\ session[r] = "alive"
  BY ReleaseFacts DEF At
<1>2. PICK flags \in {run[r].flags, run[r].flags \union {"failed", "uncertain"}} :
        /\ said' = [said EXCEPT ![r] = [n |-> run[r].n, op |-> run[r].op, id |-> run[r].id, flags |-> flags]]
        /\ flags = {} => db' = View(r) /\ session[r] = "alive"
  BY ReleaseFacts
<1> DEFINE y == [n |-> run[r].n, op |-> run[r].op, id |-> run[r].id, flags |-> flags]
<1>3. y \in Returned /\ y.n = run[r].n /\ y.op = run[r].op /\ y.id = run[r].id /\ y.flags = flags
  BY <1>1, <1>2 DEF Running, Returned, Flag
<1>4. /\ flags = {} \/ "failed" \in flags
      /\ flags = {} => run[r].flags = {}
      /\ flags = {"failed"} => run[r].flags = {"failed"}
  <2>1. run[r].flags = {} \/ "failed" \in run[r].flags BY <1>0, <1>1 DEF RunsTyped, At
  <2>2. flags = run[r].flags \/ "uncertain" \in flags BY <1>2
  <2>3. "uncertain" \notin {"failed"} OBVIOUS
  <2> QED BY <1>2, <2>1, <2>2, <2>3
<1>5. said' = [said EXCEPT ![r] = y] BY <1>2
<1> HIDE DEF y
<1>7. /\ run' \in [Run -> {Idle} \union Running] /\ run'[r] = Idle /\ \A q \in Run : q # r => run'[q] = run[q]
      /\ session' \in [Run -> {"none", "alive", "dead"}] /\ session'[r] = "none"
      /\ \A q \in Run : q # r => session'[q] = session[q]
      /\ tx' \in [Run -> Database \union {None}] /\ tx'[r] = None /\ \A q \in Run : q # r => tx'[q] = tx[q]
      /\ said' \in [Run -> Returned \union {None}] /\ said'[r] = y /\ \A q \in Run : q # r => said'[q] = said[q]
      /\ lock' \in Run \union {None, "ghost"}
  BY <1>0, <1>1, <1>3, <1>5 DEF RunsTyped
<1>8. used' \in [{"runs", "touches", "faults"} -> Nat] /\ used'.runs = used.runs BY <1>0, <1>1, FaultCounts DEF RunsTyped
<1>9. session[r] = "alive" /\ run[r].flags = {} =>
        /\ lock = r /\ ghost = None /\ lock' = None
        /\ Sound(View(r), used.runs) /\ Revision(View(r)) >= Revision(db)
        /\ ~ Dirty(View(r)) /\ Revision(View(r)) >= Goal(run[r])
  <2> SUFFICES ASSUME session[r] = "alive", run[r].flags = {}
               PROVE  /\ lock = r /\ ghost = None /\ lock' = None
                      /\ Sound(View(r), used.runs) /\ Revision(View(r)) >= Revision(db)
                      /\ ~ Dirty(View(r)) /\ Revision(View(r)) >= Goal(run[r])
    OBVIOUS
  <2>1. lock = r BY <1>0, <1>1 DEF Holding, At
  <2>2. ghost = None /\ lock' = None BY <1>0, <1>1, <2>1, ConstantFacts DEF Holding
  <2>3. Sound(View(r), used.runs) /\ Revision(View(r)) >= Revision(db) BY <1>0, <2>1 DEF DatabasesSound
  <2>4. ~ Dirty(View(r)) /\ Revision(View(r)) >= Goal(run[r]) BY <1>0, <1>1, <2>1 DEF HoldersKnow, Knows
  <2> QED BY <2>1, <2>2, <2>3, <2>4
<1>10. \/ db' = db
       \/ db' = View(r) /\ lock' = None /\ ghost = None /\ Sound(db', used.runs) /\ Revision(db') >= Revision(db) /\ ~ Dirty(db')
  <2>1. tx[r] # None => View(r) = tx[r] BY DEF View
  <2> QED BY <1>1, <1>9, <2>1
<1>11. RunsTyped'
  <2>1. \A q \in Run : q # r => (At(q, "close") <=> At(q, "close")') BY <1>7 DEF At
  <2>2. run[r].n < used.runs BY <1>0, <1>1 DEF RunsTyped
  <2> QED BY <1>0, <1>1, <1>3, <1>4, <1>7, <1>8, <2>1, <2>2 DEF RunsTyped
<1>12. Numbered' BY <1>0, <1>1, <1>3, <1>7 DEF Numbered
<1>13. \A q \in Run : lock' = q => q # r /\ lock = q /\ lock' # None BY <1>1, ConstantFacts
<1>14. Holding'
  <2>1. \A q \in Run : q # r => (At(q, "close") <=> At(q, "close")') /\ (At(q, "lock") <=> At(q, "lock")') BY <1>7 DEF At
  <2>2. \A q \in Run : q # r => (lock' = q <=> lock = q) BY <1>1, ConstantFacts
  <2>3. lock' = "ghost" <=> lock = "ghost" BY <1>1, ConstantFacts
  <2> QED BY <1>0, <1>1, <1>7, <1>13, <2>1, <2>2, <2>3 DEF Holding, dialect
<1>15. DatabasesSound'
  <2>1. CASE db' = db
    <3>1. \A q \in Run : lock' = q => View(q)' = View(q) BY <1>7, <1>13, <2>1 DEF View
    <3> QED BY <1>0, <1>1, <1>8, <1>13, <2>1, <3>1 DEF DatabasesSound
  <2>2. CASE lock' = None /\ ghost = None /\ Sound(db', used.runs)
    BY <1>1, <1>8, <1>13, <2>2 DEF DatabasesSound
  <2> QED BY <1>10, <2>1, <2>2
<1>16. HoldersKnow'
  <2>1. CASE db' = db
    <3>1. \A q \in Run : lock' = q => View(q)' = View(q) BY <1>7, <1>13, <2>1 DEF View
    <3> QED BY <1>0, <1>1, <1>7, <1>13, <3>1 DEF HoldersKnow, At, dialect
  <2>2. CASE lock' = None BY <1>13, <2>2 DEF HoldersKnow
  <2> QED BY <1>10, <2>1, <2>2
<1>17. Warned'
  <2>1. \A n : Opened(db', n) => db' = db BY <1>10 DEF Opened
  <2>2. Revision(db') >= Revision(db) /\ Revision(db') \in Nat /\ Revision(db) \in Nat
    BY <1>0, <1>10, DatabaseFacts DEF DatabasesSound, Sound
  <2>3. ASSUME NEW q \in Run, q # r, said[q] # None, said[q].flags = {} PROVE Revision(db') >= Goal(said[q])
    <3>1. Revision(db) >= Goal(said[q]) BY <1>0, <2>3 DEF Warned
    <3>2. said[q] \in Returned BY <1>0, <2>3 DEF RunsTyped
    <3>3. Goal(said[q]) \in Nat BY <3>2, ConstantFacts DEF Returned, Goal, Step
    <3> QED BY <2>2, <3>1, <3>3
  <2>4. ASSUME flags = {"failed"} PROVE ~ Opened(db', y.n) /\ (ghost # None => ~ Opened(ghost, y.n))
    <3>1. run[r].flags \intersect {"dirty", "uncertain"} = {} /\ run[r].at \notin {"statement", "verified", "finish"}
      BY <1>1, <1>4, <2>4
    <3>2. ~ Opened(db, run[r].n) /\ (ghost # None => ~ Opened(ghost, run[r].n)) BY <1>0, <1>1, <3>1 DEF Warned
    <3> QED BY <1>3, <2>1, <3>2
  <2>5. ASSUME flags = {} PROVE Revision(db') >= Goal(y)
    <3>1. Goal(y) = Goal(run[r]) BY <1>3 DEF Goal
    <3> QED BY <1>2, <1>4, <1>9, <2>5, <3>1
  <2>6. ASSUME NEW q \in Run, q # r, run[q] # Idle, Opened(db', run[q].n) \/ (ghost # None /\ Opened(ghost, run[q].n))
        PROVE  /\ dialect = "mysql"
               /\ run[q].at \in {"statement", "verified", "finish"} \/ run[q].flags \intersect {"dirty", "uncertain"} # {}
    BY <1>0, <2>1, <2>6 DEF Warned
  <2>7. ASSUME NEW q \in Run, q # r, said[q] # None, said[q].flags = {"failed"}
        PROVE  ~ Opened(db', said[q].n) /\ (ghost # None => ~ Opened(ghost, said[q].n))
    BY <1>0, <2>1, <2>7 DEF Warned
  <2> QED BY <1>1, <1>3, <1>7, <2>3, <2>4, <2>5, <2>6, <2>7 DEF Warned, dialect
<1> QED BY <1>1, <1>11, <1>12, <1>14, <1>15, <1>16, <1>17 DEF MigrationInv

LEMMA CancelledKeeps ==
  ASSUME MigrationInv, NEW r \in Run, Cancelled(r)
  PROVE  MigrationInv'
<1>0. RunsTyped /\ Numbered /\ Holding /\ DatabasesSound /\ HoldersKnow /\ Warned /\ LockNeverPooled BY DEF MigrationInv
<1>1. /\ At(r, "close") /\ run[r].flags = {} /\ run' = [run EXCEPT ![r].flags = {"failed"}] /\ Fault
      /\ UNCHANGED <<config, db, tx, lock, ghost, session, pooled, said>>
  BY DEF Cancelled, server
<1>2. run[r] \in Running /\ run[r] # Idle /\ run[r].at = "close" BY <1>0, <1>1, RunFacts DEF At
<1>3. used' \in [{"runs", "touches", "faults"} -> Nat] /\ used'.runs = used.runs BY <1>0, <1>1, FaultCounts
<1> DEFINE x == [run[r] EXCEPT !.flags = {"failed"}]
<1>4. x \in Running /\ x.at = "close" /\ x.n = run[r].n /\ x.op = run[r].op /\ x.id = run[r].id /\ x.flags = {"failed"}
  BY <1>2 DEF Running, Flag
<1>5. run' = [run EXCEPT ![r] = x] BY <1>0, <1>1 DEF RunsTyped
<1> HIDE DEF x
<1>6. run' \in [Run -> {Idle} \union Running] /\ run'[r] = x /\ \A q \in Run : q # r => run'[q] = run[q]
  BY <1>0, <1>4, <1>5 DEF RunsTyped
<1>7. x # Idle BY <1>4, RunningIsNotIdle
<1>8. /\ \A q \in Run : (At(q, "close") <=> At(q, "close")') /\ (At(q, "lock") <=> At(q, "lock")')
      /\ \A q \in Run : View(q)' = View(q) /\ run'[q].at = run[q].at /\ run'[q].n = run[q].n
      /\ \A q \in Run : (run'[q] = Idle <=> run[q] = Idle)
  BY <1>1, <1>2, <1>4, <1>6, <1>7 DEF At, View
<1>9. RunsTyped'
  <2>1. /\ said'[r] = None /\ run'[r].n < used'.runs /\ "failed" \in run'[r].flags /\ At(r, "close")'
        /\ run'[r].op \notin {"repair", "retry"} => run'[r].id = config'.target[r]
    BY <1>0, <1>1, <1>2, <1>3, <1>4, <1>6, <1>8 DEF RunsTyped
  <2> QED BY <1>0, <1>1, <1>3, <1>6, <1>8, <2>1 DEF RunsTyped
<1>10. Numbered' BY <1>0, <1>1, <1>8 DEF Numbered
<1>11. Holding' BY <1>0, <1>1, <1>4, <1>6, <1>8 DEF Holding, dialect
<1>12. DatabasesSound' BY <1>0, <1>1, <1>3, <1>8 DEF DatabasesSound
<1>13. HoldersKnow'
  <2>1. Knows(x, View(r), config.target[r]) /\ x.at # "commit" BY <1>4 DEF Knows, Operation
  <2> QED BY <1>0, <1>1, <1>6, <1>8, <2>1 DEF HoldersKnow, At, dialect
<1>14. Warned'
  <2>1. ~ Opened(db, run[r].n) /\ (ghost # None => ~ Opened(ghost, run[r].n)) BY <1>0, <1>1, <1>2 DEF Warned
  <2> QED BY <1>0, <1>1, <1>4, <1>6, <2>1 DEF Warned, dialect
<1>15. LockNeverPooled' BY <1>0, <1>1 DEF LockNeverPooled
<1> QED BY <1>9, <1>10, <1>11, <1>12, <1>13, <1>14, <1>15 DEF MigrationInv

(* The lock of a session that dies goes with it. *)
LEMMA SessionLostKeeps ==
  ASSUME MigrationInv, NEW r \in Run, SessionLost(r)
  PROVE  MigrationInv'
<1>0. RunsTyped /\ Numbered /\ Holding /\ DatabasesSound /\ HoldersKnow /\ Warned /\ LockNeverPooled BY DEF MigrationInv
<1>1. /\ session[r] = "alive" /\ Fault /\ session' = [session EXCEPT ![r] = "dead"]
      /\ lock' = (IF lock = r THEN None ELSE lock) /\ UNCHANGED <<config, db, tx, ghost, pooled, run, said>>
  BY DEF SessionLost
<1>2. used' \in [{"runs", "touches", "faults"} -> Nat] /\ used'.runs = used.runs BY <1>0, <1>1, FaultCounts
<1>3. /\ session' \in [Run -> {"none", "alive", "dead"}] /\ session'[r] = "dead"
      /\ \A q \in Run : q # r => session'[q] = session[q]
      /\ lock' \in Run \union {None, "ghost"}
  BY <1>0, <1>1 DEF RunsTyped
<1>4. \A q \in Run : /\ lock' = q => q # r /\ lock = q
                     /\ q # r => (lock' = q <=> lock = q)
                     /\ View(q)' = View(q) /\ (At(q, "close") <=> At(q, "close")') /\ (At(q, "lock") <=> At(q, "lock")')
  BY <1>1, ConstantFacts DEF View, At
<1>5. lock' = "ghost" <=> lock = "ghost" BY <1>1, ConstantFacts
<1>6. RunsTyped' BY <1>0, <1>1, <1>2, <1>3, <1>4 DEF RunsTyped
<1>7. Numbered' BY <1>0, <1>1 DEF Numbered
<1>8. Holding' BY <1>0, <1>1, <1>3, <1>4, <1>5 DEF Holding, dialect
<1>9. DatabasesSound' BY <1>0, <1>1, <1>2, <1>4 DEF DatabasesSound
<1>10. HoldersKnow' BY <1>0, <1>1, <1>4 DEF HoldersKnow, At, dialect
<1>11. Warned' BY <1>0, <1>1 DEF Warned, dialect
<1>12. LockNeverPooled' BY <1>0, <1>1 DEF LockNeverPooled
<1> QED BY <1>6, <1>7, <1>8, <1>9, <1>10, <1>11, <1>12 DEF MigrationInv

LEMMA CrashKeeps ==
  ASSUME MigrationInv, NEW r \in Run, Crash(r)
  PROVE  MigrationInv'
<1>0. RunsTyped /\ Numbered /\ Holding /\ DatabasesSound /\ HoldersKnow /\ Warned /\ LockNeverPooled BY DEF MigrationInv
<1>1. /\ run[r] # Idle /\ Fault /\ run' = [run EXCEPT ![r] = Idle] /\ session' = [session EXCEPT ![r] = "none"]
      /\ lock' = (IF lock = r THEN None ELSE lock) /\ tx' = [tx EXCEPT ![r] = None]
      /\ UNCHANGED <<config, db, ghost, pooled, said>>
  BY DEF Crash
<1>2. used' \in [{"runs", "touches", "faults"} -> Nat] /\ used'.runs = used.runs BY <1>0, <1>1, FaultCounts
<1>3. /\ run' \in [Run -> {Idle} \union Running] /\ run'[r] = Idle /\ \A q \in Run : q # r => run'[q] = run[q]
      /\ session' \in [Run -> {"none", "alive", "dead"}] /\ session'[r] = "none"
      /\ \A q \in Run : q # r => session'[q] = session[q]
      /\ tx' \in [Run -> Database \union {None}] /\ tx'[r] = None /\ \A q \in Run : q # r => tx'[q] = tx[q]
      /\ lock' \in Run \union {None, "ghost"} /\ said[r] = None
  BY <1>0, <1>1 DEF RunsTyped
<1>4. \A q \in Run : /\ lock' = q => q # r /\ lock = q
                     /\ q # r => (lock' = q <=> lock = q)
                     /\ q # r => /\ View(q)' = View(q) /\ (At(q, "close") <=> At(q, "close")')
                                 /\ (At(q, "lock") <=> At(q, "lock")')
  BY <1>1, <1>3, ConstantFacts DEF View, At
<1>5. lock' = "ghost" <=> lock = "ghost" BY <1>1, ConstantFacts
<1>6. RunsTyped' BY <1>0, <1>1, <1>2, <1>3, <1>4 DEF RunsTyped
<1>7. Numbered' BY <1>0, <1>1, <1>3 DEF Numbered
<1>8. Holding' BY <1>0, <1>1, <1>3, <1>4, <1>5 DEF Holding, dialect
<1>9. DatabasesSound' BY <1>0, <1>1, <1>2, <1>4 DEF DatabasesSound
<1>10. HoldersKnow' BY <1>0, <1>1, <1>3, <1>4 DEF HoldersKnow, At, dialect
<1>11. Warned' BY <1>0, <1>1, <1>3 DEF Warned, dialect
<1>12. LockNeverPooled' BY <1>0, <1>1 DEF LockNeverPooled
<1> QED BY <1>6, <1>7, <1>8, <1>9, <1>10, <1>11, <1>12 DEF MigrationInv

(* What the ghost makes of the database is sound, and no older. *)
LEMMA GhostEndsKeeps ==
  ASSUME MigrationInv, GhostEnds
  PROVE  MigrationInv'
<1>0. RunsTyped /\ Numbered /\ Holding /\ DatabasesSound /\ HoldersKnow /\ Warned /\ LockNeverPooled BY DEF MigrationInv
<1>1. /\ ghost # None /\ db' \in {db, ghost} /\ ghost' = None /\ lock' = None
      /\ UNCHANGED <<config, tx, session, pooled, run, said, used>>
  BY DEF GhostEnds
<1>2. lock = "ghost" /\ \A q \in Run : lock # q /\ lock' # q BY <1>0, <1>1, ConstantFacts DEF Holding
<1>3. Sound(db', used.runs) /\ Revision(db') >= Revision(db) /\ Revision(db') \in Nat /\ Revision(db) \in Nat
  <2>1. Sound(db, used.runs) /\ Sound(ghost, used.runs) /\ Revision(ghost) >= Revision(db) BY <1>0, <1>1 DEF DatabasesSound
  <2>2. Revision(db) \in Nat /\ Revision(ghost) \in Nat BY <2>1, DatabaseFacts DEF Sound
  <2>3. CASE db' = db BY <2>1, <2>2, <2>3
  <2>4. CASE db' = ghost BY <2>1, <2>2, <2>4
  <2> QED BY <1>1, <2>3, <2>4
<1>4. \A q \in Run : (At(q, "close") <=> At(q, "close")') /\ (At(q, "lock") <=> At(q, "lock")') BY <1>1 DEF At
<1>5. RunsTyped' BY <1>0, <1>1, <1>4 DEF RunsTyped
<1>6. Numbered' BY <1>0, <1>1 DEF Numbered
<1>7. Holding' BY <1>0, <1>1, <1>2, <1>4, ConstantFacts DEF Holding, dialect
<1>8. DatabasesSound' BY <1>1, <1>2, <1>3 DEF DatabasesSound
<1>9. HoldersKnow' BY <1>2 DEF HoldersKnow
<1>10. Warned'
  <2>1. ASSUME NEW q \in Run, said[q] # None, said[q].flags = {} PROVE Revision(db') >= Goal(said[q])
    <3>1. Revision(db) >= Goal(said[q]) BY <1>0, <2>1 DEF Warned
    <3>2. said[q] \in Returned BY <1>0, <2>1 DEF RunsTyped
    <3>3. Goal(said[q]) \in Nat BY <3>2, ConstantFacts DEF Returned, Goal, Step
    <3> QED BY <1>3, <3>1, <3>3
  <2>2. \A n : Opened(db', n) => Opened(db, n) \/ Opened(ghost, n) BY <1>1
  <2> QED BY <1>0, <1>1, <2>1, <2>2 DEF Warned, dialect
<1>11. LockNeverPooled' BY <1>0, <1>1 DEF LockNeverPooled
<1> QED BY <1>5, <1>6, <1>7, <1>8, <1>9, <1>10, <1>11 DEF MigrationInv

(* Operators change the schema, never the journal, while nobody migrates.  *)
LEMMA TouchKeeps ==
  ASSUME MigrationInv, NEW o \in Change, NEW what \in SUBSET (Aspect \union {"missing"}), Touch(o, what),
         db.journal = <<>> => \/ Named(o) /\ what # Missing
                              \/ what # Missing /\ db.schema[o] # Missing
  PROVE  MigrationInv'
<1>0. RunsTyped /\ Numbered /\ Holding /\ DatabasesSound /\ HoldersKnow /\ Warned /\ LockNeverPooled BY DEF MigrationInv
<1>1. /\ lock = None /\ UNCHANGED <<config, tx, lock, session, ghost, pooled, run, said>>
      /\ db' = [db EXCEPT !.schema[o] = what, !.touched = @ \union {o}]
  BY DEF Touch
<1>2. used' \in [{"runs", "touches", "faults"} -> Nat] /\ used'.runs = used.runs /\ used.runs \in Nat
  BY <1>0 DEF Touch, Count, RunsTyped
<1>3. Sound(db', used.runs) /\ db'.journal = db.journal
  <2>1. Sound(db, used.runs) BY <1>0 DEF DatabasesSound
  <2> QED BY <1>1, <1>2, <2>1, Touches
<1>4. Revision(db') = Revision(db) /\ \A n : Opened(db', n) <=> Opened(db, n) BY <1>3, SameJournal
<1>5. ghost = None /\ \A q \in Run : lock' # q BY <1>0, <1>1, ConstantFacts DEF Holding
<1>6. \A q \in Run : (At(q, "close") <=> At(q, "close")') /\ (At(q, "lock") <=> At(q, "lock")') BY <1>1 DEF At
<1>7. RunsTyped' BY <1>0, <1>1, <1>2, <1>6 DEF RunsTyped
<1>8. Numbered' BY <1>0, <1>1 DEF Numbered
<1>9. Holding' BY <1>0, <1>1, <1>6 DEF Holding, dialect
<1>10. DatabasesSound' BY <1>1, <1>2, <1>3, <1>5 DEF DatabasesSound
<1>11. HoldersKnow' BY <1>5 DEF HoldersKnow
<1>12. Warned' BY <1>0, <1>1, <1>4, <1>5 DEF Warned, dialect
<1>13. LockNeverPooled' BY <1>0, <1>1 DEF LockNeverPooled
<1> QED BY <1>7, <1>8, <1>9, <1>10, <1>11, <1>12, <1>13 DEF MigrationInv

LEMMA OperatorsKeep ==
  ASSUME MigrationInv, NEW o \in Change, NEW aspect \in Aspect, Squat(o) \/ Drift(o, aspect) \/ Undo(o) \/ Finish(o)
  PROVE  MigrationInv'
<1>0. db \in Database BY DEF MigrationInv, DatabasesSound, Sound
<1>1. CASE Squat(o)
  <2>1. {"columns"} \in SUBSET (Aspect \union {"missing"}) /\ {"columns"} # Missing BY DEF Aspect, Missing
  <2> QED BY <1>1, <2>1, TouchKeeps DEF Squat
<1>2. CASE Drift(o, aspect)
  <2>1. {aspect} \in SUBSET (Aspect \union {"missing"}) /\ {aspect} # Missing /\ {} # Missing BY DEF Aspect, Missing
  <2> QED BY <1>2, <2>1, TouchKeeps DEF Drift
<1>3. CASE Undo(o)
  <2>1. Missing \in SUBSET (Aspect \union {"missing"}) BY DEF Missing
  <2> QED BY <1>3, <2>1, TouchKeeps DEF Undo, Dirty
<1>4. CASE Finish(o)
  <2>1. {} \in SUBSET (Aspect \union {"missing"}) OBVIOUS
  <2> QED BY <1>4, <2>1, TouchKeeps DEF Finish, Dirty
<1> QED BY <1>1, <1>2, <1>3, <1>4
-----------------------------------------------------------------------------
LEMMA InitialDatabase ==
  ASSUME MigrationInit
  PROVE  Sound(db, used.runs) /\ used.runs \in Nat
<1> DEFINE journal == [n \in 1 .. config.tracked |-> [state |-> "complete", by |-> None]]
<1>1. config.tracked \in Nat /\ config.installed \in Nat /\ config.tracked <= config.installed /\ config.installed <= Steps
      /\ Steps \in Nat
  BY ConstantFacts DEF MigrationInit
<1>2. journal \in Seq(Record) /\ Len(journal) = config.tracked /\ \A n \in 1 .. config.tracked : journal[n].state = "complete"
  <2>1. [state |-> "complete", by |-> None] \in Record BY DEF Record
  <2> QED BY <1>1, <2>1
<1>3. db.journal = journal /\ db.schema = Published(config.installed)
      /\ db.touched = {o \in Change : config.tracked < o[1] /\ o[1] <= config.installed} /\ used.runs = 0
  BY DEF MigrationInit
<1> HIDE DEF journal
<1>4. db \in Database
  <2>1. Published(config.installed) \in [Change -> SUBSET (Aspect \union {"missing"})] BY DEF Published, Missing
  <2>2. db = [schema |-> db.schema, touched |-> db.touched, journal |-> db.journal] BY DEF MigrationInit
  <2>3. db.touched \in SUBSET Change BY <1>3
  <2> QED BY <1>2, <1>3, <2>1, <2>2, <2>3 DEF Database
<1>5. ~ Dirty(db) /\ Revision(db) = config.tracked
  <2>1. Len(db.journal) = 0 \/ Len(db.journal) \in 1 .. config.tracked BY <1>1, <1>2, <1>3
  <2>2. ~ Dirty(db)
    <3>1. CASE Len(db.journal) = 0 BY <1>4, <3>1, DatabaseFacts DEF Dirty
    <3>2. CASE Len(db.journal) \in 1 .. config.tracked
      <4>1. db.journal[Len(db.journal)].state = "complete" BY <1>2, <1>3, <3>2
      <4> QED BY <4>1 DEF Dirty
    <3> QED BY <2>1, <3>1, <3>2
  <2> QED BY <1>2, <1>3, <1>4, <2>2, DatabaseFacts
<1>6. Matches(db)
  <2> SUFFICES ASSUME NEW o \in Change \ db.touched PROVE db.schema[o] = Published(config.tracked)[o] BY <1>5 DEF Matches
  <2>1. o[1] \in Nat BY ChangeFacts
  <2>2. ~ (config.tracked < o[1] /\ o[1] <= config.installed) BY <1>3
  <2>3. o[1] <= config.installed <=> o[1] <= config.tracked BY <1>1, <2>1, <2>2
  <2> QED BY <1>3, <2>3 DEF Published
<1>7. \A o \in Change : db.schema[o] # Missing => db.schema[<<o[1], 1>>] # Missing
  <2> SUFFICES ASSUME NEW o \in Change, db.schema[o] # Missing PROVE db.schema[<<o[1], 1>>] # Missing OBVIOUS
  <2>1. <<o[1], 1>> \in Change BY ChangeFacts
  <2> QED BY <1>3, <2>1 DEF Published
<1>8. \A n \in 1 .. Len(db.journal) - 1 : db.journal[n].state = "complete"
  <2> SUFFICES ASSUME NEW n \in 1 .. Len(db.journal) - 1 PROVE db.journal[n].state = "complete" OBVIOUS
  <2>1. n \in 1 .. config.tracked BY <1>1, <1>2, <1>3
  <2> QED BY <1>2, <1>3, <2>1
<1>9. Len(db.journal) <= Steps BY <1>1, <1>2, <1>3
<1> QED BY <1>3, <1>4, <1>5, <1>6, <1>7, <1>8, <1>9 DEF Sound

LEMMA MigrationInitial == MigrationInit => MigrationInv
<1> SUFFICES ASSUME MigrationInit PROVE MigrationInv OBVIOUS
<1>1. /\ config \in Configs /\ tx = [r \in Run |-> None] /\ lock = None /\ ghost = None
      /\ session = [r \in Run |-> "none"] /\ pooled = {}
      /\ run = [r \in Run |-> Idle] /\ said = [r \in Run |-> None]
      /\ used = [runs |-> 0, touches |-> 0, faults |-> 0]
  BY DEF MigrationInit
<1>2. Sound(db, used.runs) BY InitialDatabase
<1>3. \A r \in Run : run[r] = Idle /\ session[r] = "none" /\ said[r] = None /\ tx[r] = None /\ lock # r BY <1>1, ConstantFacts
<1>4. used \in [{"runs", "touches", "faults"} -> Nat]
  <2>1. used.runs \in Nat /\ used.touches \in Nat /\ used.faults \in Nat BY <1>1
  <2>2. used = [what \in {"runs", "touches", "faults"} |-> used[what]] BY <1>1
  <2> QED BY <2>1, <2>2
<1>5. RunsTyped BY <1>1, <1>3, <1>4 DEF RunsTyped
<1>6. Numbered BY <1>3 DEF Numbered
<1>7. Holding BY <1>1, <1>3, ConstantFacts DEF Holding, At, Idle
<1>8. DatabasesSound BY <1>1, <1>2, <1>3 DEF DatabasesSound
<1>9. HoldersKnow BY <1>3 DEF HoldersKnow
<1>10. Warned BY <1>3 DEF Warned
<1>11. LockNeverPooled BY <1>1 DEF LockNeverPooled
<1> QED BY <1>5, <1>6, <1>7, <1>8, <1>9, <1>10, <1>11 DEF MigrationInv

LEMMA MigrationStutters ==
  ASSUME MigrationInv, UNCHANGED migrationVars
  PROVE  MigrationInv'
<1>0. UNCHANGED <<config, db, tx, lock, session, ghost, pooled, run, said, used>> BY DEF migrationVars
<1>1. \A r \in Run : View(r)' = View(r) /\ \A where : At(r, where)' <=> At(r, where) BY <1>0 DEF View, At
<1>2. RunsTyped' BY <1>0, <1>1 DEF MigrationInv, RunsTyped
<1>3. Numbered' BY <1>0 DEF MigrationInv, Numbered
<1>4. Holding' BY <1>0, <1>1 DEF MigrationInv, Holding, dialect
<1>5. DatabasesSound' BY <1>0, <1>1 DEF MigrationInv, DatabasesSound
<1>6. HoldersKnow' BY <1>0, <1>1 DEF MigrationInv, HoldersKnow, dialect
<1>7. Warned' BY <1>0 DEF MigrationInv, Warned, dialect
<1>8. LockNeverPooled' BY <1>0 DEF MigrationInv, LockNeverPooled
<1> QED BY <1>2, <1>3, <1>4, <1>5, <1>6, <1>7, <1>8 DEF MigrationInv

LEMMA MigrationStep == MigrationInv /\ [MigrationNext]_migrationVars => MigrationInv'
<1> SUFFICES ASSUME MigrationInv, [MigrationNext]_migrationVars PROVE MigrationInv' OBVIOUS
<1>1. ASSUME NEW r \in Run, runCatalog(r) PROVE MigrationInv'
  <2>1. CASE try(r) BY <2>1, tryKeeps
  <2>2. CASE configure(r) BY <2>2, configureKeeps
  <2>3. CASE readHistory(r) BY <2>3, readHistoryKeeps
  <2>4. CASE Verify(r) BY <2>4, VerifyKeeps
  <2>5. CASE RepairComplete(r) BY <2>5, RepairCompleteKeeps
  <2>6. CASE retryStep(r) BY <2>6, retryStepKeeps
  <2>7. CASE Adopt(r) BY <2>7, AdoptKeeps
  <2>8. CASE Preflight(r) BY <2>8, PreflightKeeps
  <2>9. CASE startStep(r) BY <2>9, startStepKeeps
  <2>10. CASE executeStatement(r) BY <2>10, executeStatementKeeps
  <2>11. CASE Postconditions(r) BY <2>11, PostconditionsKeeps
  <2>12. CASE finishStep(r) BY <2>12, finishStepKeeps
  <2>13. CASE commitStep(r) BY <2>13, commitStepKeeps
  <2>14. CASE rereadHistory(r) BY <2>14, rereadHistoryKeeps
  <2>15. CASE close(r) BY <2>15, closeKeeps
  <2>16. CASE Cancelled(r) BY <2>16, CancelledKeeps
  <2> QED BY <1>1, <2>1, <2>2, <2>3, <2>4, <2>5, <2>6, <2>7, <2>8, <2>9, <2>10, <2>11, <2>12, <2>13, <2>14, <2>15, <2>16
          DEF runCatalog
<1>2. ASSUME NEW r \in Run, SessionLost(r) PROVE MigrationInv' BY <1>2, SessionLostKeeps
<1>3. ASSUME NEW r \in Run, Crash(r) PROVE MigrationInv' BY <1>3, CrashKeeps
<1>4. ASSUME NEW r \in Run, NEW op \in Operation, NEW id \in Step, acquire(r, op, id) PROVE MigrationInv'
  BY <1>4, acquireKeeps
<1>5. ASSUME NEW o \in Change, Squat(o) \/ Undo(o) \/ Finish(o) PROVE MigrationInv'
  <2>1. "columns" \in Aspect BY DEF Aspect
  <2> QED BY <1>5, <2>1, OperatorsKeep
<1>6. ASSUME NEW o \in Change, NEW aspect \in Aspect, Drift(o, aspect) PROVE MigrationInv' BY <1>6, OperatorsKeep
<1>7. CASE GhostEnds BY <1>7, GhostEndsKeeps
<1>8. CASE UNCHANGED migrationVars BY <1>8, MigrationStutters
<1> QED BY <1>1, <1>2, <1>3, <1>4, <1>5, <1>6, <1>7, <1>8 DEF MigrationNext

LEMMA MigrationInvariant == MigrationSpec => []MigrationInv
BY MigrationInitial, MigrationStep, PTL DEF MigrationSpec

(* No connection goes back to the pool with the migration lock on its       *)
(* session, however close ends and whichever reply was lost before it.      *)
THEOREM LockComesBack == MigrationSpec => []LockNeverPooled
<1>1. MigrationInv => LockNeverPooled BY DEF MigrationInv
<1> QED BY <1>1, MigrationInvariant, PTL

(* executeStatement only ever meets the schema its statement was written    *)
(* for, whatever concurrent runs, lost locks, replays and operators did.    *)
THEOREM StatementsFit == MigrationSpec => []StatementFitsSchema
<1>1. MigrationInv => StatementFitsSchema
  <2> SUFFICES ASSUME MigrationInv, NEW r \in Run, At(r, "statement"), session[r] = "alive", NEW o \in Owned(r)
               PROVE  View(r).schema[o] = IF o[1] < Current(r) \/ (o[1] = Current(r) /\ o[2] < run[r].k) THEN {} ELSE Missing
    BY DEF StatementFitsSchema
  <2>1. "statement" \in Where \ {"lock", "close"} BY DEF Where
  <2>2. lock = r BY <2>1, PlaceFacts
  <2>3. Fits(View(r), config.target[r], run[r].k) BY <2>1, <2>2, PlaceFacts DEF Knows, Operation
  <2>4. o \in Change /\ o[1] \in 1 .. config.target[r] BY DEF Owned, Catalog
  <2> QED BY <2>3, <2>4 DEF Fits, Current
<1> QED BY <1>1, MigrationInvariant, PTL

(* The journal tells the truth about the schema at every moment, and what a *)
(* run returned about the journal: success is committed, and a failure that *)
(* warns of nothing has left no step of that run incomplete.                *)
THEOREM JournalRelied == MigrationSpec => []JournalTruthful
<1>1. MigrationInv => JournalTruthful
  <2> SUFFICES ASSUME MigrationInv PROVE JournalTruthful OBVIOUS
  <2>0. Sound(db, used.runs) /\ db \in Database BY DEF MigrationInv, DatabasesSound, Sound
  <2>1. JournalMatches BY <2>0 DEF Sound, Matches, JournalMatches
  <2>2. ASSUME NEW r \in Run, said[r] # None, said[r].flags = {}
        PROVE  Revision(db) >= IF said[r].op = "adopt" THEN 1 ELSE said[r].id
    BY <2>2 DEF MigrationInv, Warned, Goal
  <2>3. ASSUME NEW r \in Run, said[r] # None, said[r].flags = {"failed"}, NEW n \in DOMAIN db.journal,
               db.journal[n].by = said[r].n
        PROVE  db.journal[n].state = "complete"
    <3>1. ~ Opened(db, said[r].n) BY <2>3 DEF MigrationInv, Warned
    <3>2. n \in 1 .. Len(db.journal) /\ Len(db.journal) \in Nat BY <2>0, DatabaseFacts DEF Database
    <3>3. CASE n = Len(db.journal)
      <4>1. db.journal[n] \in Record /\ db.journal # <<>> BY <2>0, <3>2, DatabaseFacts
      <4> QED BY <2>3, <3>1, <3>3, <4>1 DEF Opened, Dirty, Record
    <3>4. CASE n # Len(db.journal)
      <4>1. n \in 1 .. Len(db.journal) - 1 BY <3>2, <3>4
      <4> QED BY <2>0, <4>1 DEF Sound
    <3> QED BY <3>3, <3>4
  <2>4. ReportHonest BY <2>2, <2>3 DEF ReportHonest
  <2> QED BY <2>1, <2>4 DEF JournalTruthful
<1> QED BY <1>1, MigrationInvariant, PTL
=============================================================================
