---------------------------- MODULE OutboxLease ----------------------------
(***************************************************************************)
(* The transactional outbox and the three workers that consume it: the     *)
(* embedding worker, the sealed-content purge worker and the candidate     *)
(* lifecycle worker.  A job row is claimed under a lease with a fresh      *)
(* token; every later write to the row is guarded by that token and by a   *)
(* clock stamp the worker reads before it sends the guarded statement.     *)
(*                                                                         *)
(* Time is relative: a row keeps the ticks left of its lease and of its    *)
(* retry delay, and Tick lets one tick pass for everyone.                  *)
(***************************************************************************)
EXTENDS Naturals, Sequences, FiniteSets, Functions

CONSTANTS
  Jobs,          \* rows of outbox_jobs of the worker's job type
  Workers,       \* worker processes of that type
  Kinds,         \* which of "embed", "purge" and "lifecycle" the workers may be
  MaxAttempts,   \* OutboxJob.max_attempts
  BatchSize,     \* limit of one claim
  Lease,         \* lease_seconds, in ticks
  RetryDelay,    \* retry_delay_seconds, in ticks
  MaxCrashes     \* bound: process crashes in one behaviour

ASSUME ConstantsAssumption ==
  /\ Kinds \subseteq {"embed", "purge", "lifecycle"}
  /\ MaxAttempts \in Nat \ {0}
  /\ BatchSize \in Nat \ {0}
  /\ Lease \in Nat \ {0}
  /\ RetryDelay \in Nat \ {0}
  /\ MaxCrashes \in Nat
  /\ IsFiniteSet(Jobs)

VARIABLES
  kind,       \* whose run_once the workers of this job type execute
  job,        \* the row: state, attempts, owner token, lease and delay left, error
  nextToken,  \* the next unused lease token
  phase,      \* where each worker is in run_once
  batch,      \* the claimed jobs a worker still has to process, with tokens
  stamp,      \* the clock stamp read for the next guarded statement
  err,        \* the error code the worker is about to record
  runs,       \* how many times a handler's effect on a job was committed
  crashes     \* crashes so far

vars == <<kind, job, nextToken, phase, batch, stamp, err, runs, crashes>>

None == 0
States == {"pending", "leased", "succeeded", "dead"}
Terminal == {"succeeded", "dead"}
Errors == {"none", "lease_expired", "retryable", "invalid_job"}
Phases == {"poll", "beat", "beating", "handle", "settle", "ack",
           "failing", "fail", "down"}

\* A stamp: whether the lease outlives it, and the ticks since it was read.
StampAt(fresh) == [fresh |-> fresh, age |-> 0]
NoStamp == StampAt(FALSE)
Older(st) == IF st.age < Lease THEN [st EXCEPT !.age = @ + 1] ELSE st

Rows == [state: States, attempts: 0..MaxAttempts, owner: Nat,
         lease: 0..Lease, delay: 0..RetryDelay, error: Errors]
Stamps == [fresh: BOOLEAN, age: 0..Lease]
Items == [job: Jobs, token: Nat]

\* Embedding and purge handlers share the acknowledgement's transaction.
OneTransaction == kind # "lifecycle"
FirstPhase == IF kind = "embed" THEN "handle" ELSE "beat"

Init ==
  /\ kind \in Kinds
  /\ job \in [Jobs -> [state: {"pending"}, attempts: {0}, owner: {None},
                       lease: {0}, delay: {0, RetryDelay}, error: {"none"}]]
  /\ nextToken = 1
  /\ phase = [w \in Workers |-> "poll"]
  /\ batch = [w \in Workers |-> <<>>]
  /\ stamp = [w \in Workers |-> NoStamp]
  /\ err = [w \in Workers |-> "none"]
  /\ runs = [j \in Jobs |-> 0]
  /\ crashes = 0

----------------------------------------------------------------------------
(* The statements of outbox_worker.py on one row.                           *)

\* The guard of heartbeat, acknowledge and fail: still leased to this token,
\* and the lease outlived the stamp that was read before the statement.
StillOwned(w) ==
  LET item == Head(batch[w]) IN
  /\ job[item.job].state = "leased"
  /\ job[item.job].owner = item.token
  /\ stamp[w].fresh

\* Faulty variants of Released, for the sensitivity of the properties: a delay that
\* grows with the attempts, and an off-by-one in the attempt limit.
ReleasedBackoff(row, code, retryable) ==
  [state |-> IF ~retryable \/ row.attempts >= MaxAttempts THEN "dead" ELSE "pending",
   attempts |-> row.attempts, owner |-> None, lease |-> 0,
   delay |-> RetryDelay * row.attempts, error |-> code]
ReleasedOffByOne(row, code, retryable) ==
  [state |-> IF ~retryable \/ row.attempts > MaxAttempts THEN "dead" ELSE "pending",
   attempts |-> row.attempts, owner |-> None, lease |-> 0, delay |-> RetryDelay,
   error |-> code]

\* A row given back: dead when its attempts are used up or nothing can help.
Released(row, code, retryable) ==
  [state |-> IF ~retryable \/ row.attempts >= MaxAttempts THEN "dead" ELSE "pending",
   attempts |-> row.attempts, owner |-> None, lease |-> 0, delay |-> RetryDelay,
   error |-> code]

\* Faulty variants of Recovered: the expiry test is dropped; nothing is recovered.
RecoveredEarly ==
  [j \in Jobs |-> IF job[j].state = "leased"
                    THEN Released(job[j], "lease_expired", TRUE) ELSE job[j]]
RecoveredNever == job

\* recover_expired_outbox_leases over all rows.
Recovered ==
  [j \in Jobs |-> IF job[j].state = "leased" /\ job[j].lease = 0
                    THEN Released(job[j], "lease_expired", TRUE) ELSE job[j]]

Claimable(rows) ==
  {j \in Jobs : /\ rows[j].state = "pending"
                /\ rows[j].delay = 0
                /\ rows[j].attempts < MaxAttempts}

\* The rows a claim may return: as many as the batch admits, in some order.
Batches(rows) ==
  LET n == Cardinality(Claimable(rows))
      k == IF n < BatchSize THEN n ELSE BatchSize
  IN Injection(1..k, Claimable(rows))

\* Faulty variant of Token: one token for the whole batch.
TokenPerBatch(i) == nextToken

\* The heartbeat's write: a lease counted from the stamp.
Extended(row, age) == [row EXCEPT !.lease = Lease - age]

Less(n) == IF n = 0 THEN 0 ELSE n - 1

\* A row one tick later.
Aged(row) == [row EXCEPT !.lease = Less(@), !.delay = Less(@)]

\* Every claimed row gets its own token.
Token(i) == nextToken + i - 1

Leased(row, token) ==
  [state |-> "leased", attempts |-> row.attempts + 1, owner |-> token,
   lease |-> Lease, delay |-> row.delay, error |-> row.error]

Succeeded(row) ==
  [state |-> "succeeded", attempts |-> row.attempts, owner |-> None,
   lease |-> 0, delay |-> row.delay, error |-> "none"]

----------------------------------------------------------------------------
(* One worker's run_once.                                                   *)

\* The worker is done with the first job of its batch.
NextItem(w) ==
  /\ batch' = [batch EXCEPT ![w] = Tail(@)]
  /\ phase' = [phase EXCEPT ![w] = IF Len(batch[w]) = 1 THEN "poll" ELSE FirstPhase]
  /\ stamp' = [stamp EXCEPT ![w] = NoStamp]
  /\ err' = [err EXCEPT ![w] = "none"]

\* The process ends: what it held in memory is gone, its leases stay.
ProcessEnds(w) ==
  /\ batch' = [batch EXCEPT ![w] = <<>>]
  /\ phase' = [phase EXCEPT ![w] = "down"]
  /\ stamp' = [stamp EXCEPT ![w] = NoStamp]
  /\ err' = [err EXCEPT ![w] = "none"]

\* The rows of s are leased and become the worker's batch.
ClaimBatch(w, s) ==
  /\ job' = [j \in Jobs |->
               IF \E i \in DOMAIN s : s[i] = j
                 THEN Leased(Recovered[j], Token(CHOOSE i \in DOMAIN s : s[i] = j))
                 ELSE Recovered[j]]
  /\ batch' = [batch EXCEPT ![w] =
                 [i \in DOMAIN s |-> [job |-> s[i], token |-> Token(i)]]]
  /\ nextToken' = nextToken + Len(s)
  /\ phase' = [phase EXCEPT ![w] = IF s = <<>> THEN "poll" ELSE FirstPhase]

\* Recover expired leases and claim a batch, in one transaction.
RunOnce(w) ==
  /\ phase[w] = "poll"
  /\ \E s \in Batches(Recovered) : ClaimBatch(w, s)
  /\ UNCHANGED <<stamp, err, runs, crashes, kind>>

\* The clock is read before the statement that uses it is sent.
Stamp(w) ==
  /\ phase[w] \in {"beat", "settle", "failing"}
  /\ phase' = [phase EXCEPT ![w] = CASE @ = "beat" -> "beating"
                                     [] @ = "settle" -> "ack"
                                     [] @ = "failing" -> "fail"]
  /\ stamp' = [stamp EXCEPT ![w] =
                 StampAt(job[Head(batch[w]).job].lease > 0)]
  /\ UNCHANGED <<job, nextToken, batch, err, runs, crashes, kind>>

\* heartbeat_outbox_job in a transaction of its own; LeaseLost skips the job.
Heartbeat(w) ==
  /\ phase[w] = "beating"
  /\ IF StillOwned(w)
       THEN /\ job' = [job EXCEPT ![Head(batch[w]).job] = Extended(@, stamp[w].age)]
            /\ phase' = [phase EXCEPT ![w] = "handle"]
            /\ stamp' = [stamp EXCEPT ![w] = NoStamp]
            /\ UNCHANGED <<batch, err>>
       ELSE NextItem(w) /\ UNCHANGED job
  /\ UNCHANGED <<nextToken, runs, crashes, kind>>

\* The heartbeat's transaction errors, committed or not: the job is failed.
HeartbeatErrors(w) ==
  /\ phase[w] = "beating"
  /\ \/ UNCHANGED job
     \/ /\ StillOwned(w)
        /\ job' = [job EXCEPT ![Head(batch[w]).job] = Extended(@, stamp[w].age)]
  /\ phase' = [phase EXCEPT ![w] = "failing"]
  /\ err' = [err EXCEPT ![w] = "retryable"]
  /\ stamp' = [stamp EXCEPT ![w] = NoStamp]
  /\ UNCHANGED <<nextToken, batch, runs, crashes, kind>>

\* Faulty variant of Handle: every handler commits before the acknowledgement.
HandleCommitting(w) ==
  /\ phase[w] = "handle"
  /\ phase' = [phase EXCEPT ![w] = "settle"]
  /\ runs' = [runs EXCEPT ![Head(batch[w]).job] = @ + 1]
  /\ UNCHANGED <<job, nextToken, batch, stamp, err, crashes, kind>>

\* The handler succeeds.  The lifecycle engine commits by itself; the other
\* two leave their writes in the transaction of the acknowledgement.
Handle(w) ==
  /\ phase[w] = "handle"
  /\ phase' = [phase EXCEPT ![w] = "settle"]
  /\ runs' = IF OneTransaction THEN runs
             ELSE [runs EXCEPT ![Head(batch[w]).job] = @ + 1]
  /\ UNCHANGED <<job, nextToken, batch, stamp, err, crashes, kind>>

\* Faulty variant of HandleFails: the error is swallowed.
HandleFailsSwallowed(w) ==
  /\ phase[w] = "handle"
  /\ phase' = [phase EXCEPT ![w] = "settle"]
  /\ UNCHANGED <<job, nextToken, batch, stamp, err, runs, crashes, kind>>

\* The handler raises; a lifecycle commit may have been applied all the same.
HandleFails(w) ==
  /\ phase[w] = "handle"
  /\ \E code \in {"retryable", "invalid_job"} :
       err' = [err EXCEPT ![w] = code]
  /\ phase' = [phase EXCEPT ![w] = "failing"]
  /\ \/ UNCHANGED runs
     \/ /\ ~OneTransaction /\ err'[w] = "retryable"
        /\ runs' = [runs EXCEPT ![Head(batch[w]).job] = @ + 1]
  /\ UNCHANGED <<job, nextToken, batch, stamp, crashes, kind>>

\* The rows after an acknowledgement that commits, with the handler's writes.
Acknowledged(w) ==
  LET j == Head(batch[w]).job IN
  /\ job' = [job EXCEPT ![j] = Succeeded(@)]
  /\ runs' = IF OneTransaction THEN [runs EXCEPT ![j] = @ + 1] ELSE runs

\* acknowledge_outbox_job; LeaseLost rolls the handler's writes back.
Acknowledge(w) ==
  /\ phase[w] = "ack"
  /\ IF StillOwned(w) THEN Acknowledged(w) ELSE UNCHANGED <<job, runs>>
  /\ NextItem(w)
  /\ UNCHANGED <<nextToken, crashes, kind>>

\* The acknowledging transaction errors; its commit may have been applied.
\* Purge and lifecycle workers go on to fail the job, the embedding worker ends.
AcknowledgeErrors(w) ==
  /\ phase[w] = "ack"
  /\ \/ UNCHANGED <<job, runs>>
     \/ StillOwned(w) /\ Acknowledged(w)
  /\ IF kind = "embed"
       THEN ProcessEnds(w)
       ELSE /\ phase' = [phase EXCEPT ![w] = "failing"]
            /\ err' = [err EXCEPT ![w] = "retryable"]
            /\ stamp' = [stamp EXCEPT ![w] = NoStamp]
            /\ UNCHANGED batch
  /\ UNCHANGED <<nextToken, crashes, kind>>

\* fail_outbox_job.  Purge and lifecycle workers swallow LeaseLost here; the
\* embedding worker does not, so its process ends.
Fail(w) ==
  /\ phase[w] = "fail"
  /\ IF StillOwned(w)
       THEN /\ job' = [job EXCEPT ![Head(batch[w]).job] =
                         Released(@, err[w], err[w] # "invalid_job")]
            /\ NextItem(w)
       ELSE /\ UNCHANGED job
            /\ IF kind = "embed" THEN ProcessEnds(w) ELSE NextItem(w)
  /\ UNCHANGED <<nextToken, runs, crashes, kind>>

Crash(w) ==
  /\ phase[w] # "down"
  /\ crashes < MaxCrashes
  /\ crashes' = crashes + 1
  /\ ProcessEnds(w)
  /\ UNCHANGED <<job, nextToken, runs, kind>>

\* The service manager starts the process again.
Restart(w) ==
  /\ phase[w] = "down"
  /\ phase' = [phase EXCEPT ![w] = "poll"]
  /\ UNCHANGED <<job, nextToken, batch, stamp, err, runs, crashes, kind>>

\* One tick passes for every lease, delay and stamp.
Tick ==
  /\ job' = [j \in Jobs |-> Aged(job[j])]
  /\ stamp' = [w \in Workers |->
                 IF phase[w] = "beating" THEN Older(stamp[w]) ELSE stamp[w]]
  /\ UNCHANGED <<nextToken, phase, batch, err, runs, crashes, kind>>

Step(w) ==
  \/ RunOnce(w) \/ Stamp(w) \/ Heartbeat(w) \/ HeartbeatErrors(w)
  \/ Handle(w) \/ HandleFails(w) \/ Acknowledge(w) \/ AcknowledgeErrors(w)
  \/ Fail(w) \/ Restart(w)

Next ==
  \/ \E w \in Workers : Step(w) \/ Crash(w)
  \/ Tick

Spec == Init /\ [][Next]_vars

\* Processes keep running (or are restarted) and time passes; nothing else.
FairSpec == Spec /\ (\A w \in Workers : WF_vars(Step(w))) /\ WF_vars(Tick)

----------------------------------------------------------------------------
(* Properties.                                                              *)

\* Shape of the rows and of the workers' local state.
TypeOK ==
  /\ kind \in Kinds
  /\ job \in [Jobs -> Rows]
  /\ nextToken \in Nat \ {0}
  /\ phase \in [Workers -> Phases]
  /\ batch \in [Workers -> Seq(Items)]
  /\ stamp \in [Workers -> Stamps]
  /\ err \in [Workers -> Errors]
  /\ runs \in [Jobs -> Nat]
  /\ crashes \in Nat

\* The lease token fences: a row's current token is held by at most one worker,
\* for that row only, whatever stale batches other workers still carry
\* (claim_outbox_jobs gives every claimed row a fresh token).
LeaseFence ==
  \A w1, w2 \in Workers :
    \A i1 \in DOMAIN batch[w1], i2 \in DOMAIN batch[w2] :
      /\ batch[w1][i1].token = batch[w2][i2].token => w1 = w2 /\ i1 = i2
      /\ \A j \in Jobs :
           job[j].state = "leased" /\ job[j].owner = batch[w1][i1].token
             => batch[w1][i1].job = j

\* Exactly once: the writes of an embedding or purge handler are committed once
\* for a job that succeeded and never for one that is pending, leased or dead,
\* across crashes, expired leases, duplicate claims and lost commit replies
\* (the handler shares the acknowledgement's transaction).
EffectIffSucceeded ==
  OneTransaction =>
    \A j \in Jobs : runs[j] = IF job[j].state = "succeeded" THEN 1 ELSE 0

\* At least once: a lifecycle job that succeeded has had its handler commit, and
\* no handler commits more often than the row was claimed.
AtLeastOnce ==
  kind = "lifecycle" =>
    \A j \in Jobs : /\ job[j].state = "succeeded" => runs[j] >= 1
                    /\ runs[j] <= job[j].attempts

\* No job is stranded: a pending row always has an attempt left (claiming skips
\* rows without one), and a row dies only when its attempts are used up or a
\* handler called the job invalid.
NothingStranded ==
  \A j \in Jobs :
    /\ job[j].state = "pending" => job[j].attempts < MaxAttempts
    /\ job[j].state = "dead" => \/ job[j].attempts = MaxAttempts
                                \/ job[j].error = "invalid_job"

\* A late worker never resurrects a settled job, and a running lease is ended
\* only by its holder: while a lease has time left no other worker's recovery
\* takes the row (recover_expired_outbox_leases looks at expired ones only).
LeaseRespected ==
  [][\A j \in Jobs :
       /\ job[j].state \in Terminal => job'[j].state = job[j].state
       /\ job[j].state = "leased" /\ job[j].lease > 0 /\ job'[j].owner # job[j].owner
            => \E w \in Workers :
                 /\ batch[w] # <<>> /\ Head(batch[w]).token = job[j].owner
                 /\ batch'[w] # batch[w] \/ phase'[w] = "failing"]_vars

\* In the end every job is settled, although workers crash, lose leases and see
\* their statements fail.
EventuallySettled == <>(\A j \in Jobs : job[j].state \in Terminal)
=============================================================================
