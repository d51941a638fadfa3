---------------------------- MODULE MCDelivered ----------------------------
(***************************************************************************)
(* What is asked for is done.  Components that share no state stand side   *)
(* by side, and a behaviour runs one of them, "which": the export of the   *)
(* log into the archive, the destruction of two keys, or the jobs of the   *)
(* outbox.                                                                 *)
(***************************************************************************)
EXTENDS ArchiveExport

VARIABLES
  which, provider, requests, stray, ledger, anchor, custody, backup, api, worker, broker,
  kdb, attempts, crashes, restores,
  kind, job, nextToken, phase, batch, stamp, err, runs, ends

keys == <<provider, requests, stray, ledger, anchor, custody, backup, api, worker, broker,
          kdb, attempts, crashes, restores>>
jobs == <<kind, job, nextToken, phase, batch, stamp, err, runs, ends>>
all == <<which, vars, keys, jobs>>

\* One attempt at the purge of each of two memories, and nothing is restored.
K == INSTANCE KeyDestruction WITH
       Keys <- {1, 2}, MaxAttempts <- 1, MaxRequests <- 2, MaxWork <- 1, MaxCrashes <- 1,
       MaxRestores <- 0, TornCrash <- FALSE, db <- kdb

\* Two embedding jobs, two workers, two attempts, leases of one tick and a crash.
O == INSTANCE OutboxLease WITH
       Jobs <- {1, 2}, Workers <- {1, 2}, Kinds <- {"embed"}, MaxAttempts <- 2,
       BatchSize <- 2, Lease <- 1, RetryDelay <- 1, MaxCrashes <- 1, crashes <- ends

Init3 ==
  /\ which \in {"archive", "keys", "outbox"}
  /\ Init /\ (which # "archive" => local = <<>>)
  /\ K!Init
  /\ O!Init /\ (which # "outbox" => \A j \in {1, 2} : job[j].delay = 0)

Next3 ==
  \/ which = "archive" /\ Next /\ UNCHANGED <<which, keys, jobs>>
  \/ which = "keys" /\ K!Next /\ UNCHANGED <<which, vars, jobs>>
  \/ which = "outbox" /\ O!Next /\ UNCHANGED <<which, vars, keys>>

\* The fairness of ArchiveExport, of the broker in KeyDestruction and of OutboxLease.
Spec3 ==
  /\ Init3 /\ [][Next3]_all
  /\ WF_vars(which = "archive" /\ Export) /\ WF_vars(which = "archive" /\ Reap)
  /\ WF_keys(which = "keys" /\ K!BrokerRuns) /\ WF_keys(which = "keys" /\ K!WorkerPublished)
  /\ \A w \in {1, 2} : WF_jobs(which = "outbox" /\ O!Step(w))
  /\ WF_jobs(which = "outbox" /\ O!Tick)

----------------------------------------------------------------------------
\* As long as nothing fails, every event of the tenant reaches the remote branch and its
\* checkpoint says so, once the branch has its first commit (export_archive_target,
\* run_archive_service).
EventsExported == which = "archive" => KeepsUp

\* Two forgets at once keep the order of facts, files and requests: a fact, a request or
\* a tombstone of one memory's key is never made for the other's.
KeysSafe == which = "keys" => K!KeysSafe

\* Both published requests are carried out: the broker destroys the keys although it dies
\* and starts again and takes only MaxWork requests in a run.
RequestsServed == K!RequestsServed

\* Both jobs end up succeeded or dead, although workers crash, lose their leases and see
\* their statements fail (run_once, recover_expired_outbox_leases).
EventuallySettled == which = "outbox" => O!EventuallySettled
=============================================================================
