--------------------------- MODULE ArchiveExport ---------------------------
(***************************************************************************)
(* The signed archive: one exporter service copies the event log, batch by *)
(* batch, into a Git worktree and pushes it to a remote repository, while  *)
(* writers append events and operators register clients.  The database     *)
(* transaction of an export (advisory lock, lock on the event counter,     *)
(* checkpoint row) stays open over every Git call; the Git side is not     *)
(* transactional, so an export that dies leaves its commit, its push or    *)
(* half a worktree behind for the next attempt to reconcile.               *)
(*                                                                         *)
(* Hashes are collision free: a manifest is the batch it describes with    *)
(* the manifest before it, a commit the sequence of batches it ends.       *)
(***************************************************************************)
EXTENDS Naturals, Sequences, SequencesExt

CONSTANTS
  Tenants,        \* whose events share the global sequence
  Owner,          \* the tenant of the archive target
  WholeSeconds,   \* whether an event may, or may not, be created on a whole second
  UnbornExit,     \* what git rev-parse --verify exits with on an unborn branch
  MaxEvents,      \* bound: length of the event log
  MaxClients,     \* bound: client registrations
  MaxFaults,      \* bound: crashes, failed calls and lost connections
  MaxRollbacks    \* bound: times the remote is restored from an older copy

ASSUME ExportAssumption ==
  /\ Owner \in Tenants
  /\ WholeSeconds \subseteq BOOLEAN
  /\ UnbornExit \in Nat
  /\ MaxEvents \in Nat \ {0} /\ MaxClients \in Nat
  /\ MaxFaults \in Nat /\ MaxRollbacks \in Nat

VARIABLES
  log,          \* the committed events: tenant, and whether created_at is a whole second
  clients,      \* registered clients, each with its transport binding
  checkpoints,  \* pushed rows of archive_export_checkpoints
  lock,         \* the export transaction's locks: free, live, or kept by a dead session
  local,        \* the worktree's branch: the batches committed
  dirty,        \* the worktree or its index differs from the branch head
  remote,       \* the remote branch
  exporter,     \* the exporter process
  faults,       \* faults so far
  rollbacks     \* rollbacks of the remote so far

vars == <<log, clients, checkpoints, lock, local, dirty, remote, exporter, faults, rollbacks>>

database == <<log, clients, checkpoints>>
repository == <<local, dirty, remote>>
limits == <<faults, rollbacks>>

Events == [tenant: Tenants, whole: WholeSeconds]

NoBatch == [first |-> 0, last |-> 0, events |-> {}, prev |-> <<>>, clients |-> 0, bindings |-> 0]

Steps ==
  {"down", "idle", "loading", "built", "emptied", "staged", "committed",
   "pushing", "confirming", "pushed"}

Idle == [step |-> "idle", clients |-> 0, batch |-> NoBatch, parent |-> <<>>, seen |-> <<>>]
Down == [Idle EXCEPT !.step = "down"]

\* The archive of the first event.
Genesis == [NoBatch EXCEPT !.first = 1, !.last = 1, !.events = {1}]

\* A new target: an empty worktree and an empty remote.
Unborn == log = <<>> /\ checkpoints = <<>> /\ local = <<>>

\* A target whose branch was begun for the exporter and whose first batch is published.
\* The operator promotes a recovered history before the exporter is activated, which
\* then makes "exactly one normal first-parent append" (forgejo-recovery.md, step 10).
Begun ==
  /\ log \in {<<e>> : e \in {f \in Events : f.tenant = Owner}}
  /\ checkpoints = <<[batch |-> Genesis, commit |-> <<Genesis>>]>>
  /\ local = <<Genesis>>

Init ==
  /\ Unborn \/ Begun
  /\ remote = local
  /\ clients = 0 /\ lock = "free" /\ dirty = FALSE
  /\ exporter = Idle
  /\ faults = 0 /\ rollbacks = 0

----------------------------------------------------------------------------
(* Everyone else.                                                           *)

\* A command commits an event.  It needs the row of the event counter.
AppendEvent ==
  /\ lock = "free"
  /\ Len(log) < MaxEvents
  /\ \E e \in Events : log' = Append(log, e)
  /\ UNCHANGED <<clients, checkpoints, lock, repository, exporter, limits>>

\* A client and its transport binding are registered in one transaction; that
\* appends no event and waits for no lock of the exporter.
RegisterClient ==
  /\ clients < MaxClients
  /\ clients' = clients + 1
  /\ UNCHANGED <<log, checkpoints, lock, repository, exporter, limits>>

\* The remote's operator restores an older copy of the branch.
RollBackRemote ==
  /\ rollbacks < MaxRollbacks
  /\ \E n \in 0..(Len(remote) - 1) : remote' = SubSeq(remote, 1, n)
  /\ rollbacks' = rollbacks + 1
  /\ UNCHANGED <<database, lock, local, dirty, exporter, faults>>

----------------------------------------------------------------------------
(* load_archive_batch_source and the builder.                               *)

\* The newest pushed checkpoint, as far as an export reads it.
Published == IF checkpoints = <<>> THEN <<>> ELSE Last(checkpoints).commit
PreviousManifest == IF checkpoints = <<>> THEN <<>> ELSE <<Last(checkpoints).batch>>
PreviousLast == IF checkpoints = <<>> THEN 0 ELSE Last(checkpoints).batch.last

\* The sequences of m..n that row-level security shows the tenant's exporter.
OwnEvents(m, n) == {i \in m..n : log[i].tenant = Owner}

\* Faulty variant of OwnsPrefix: the tenant of an event is not looked at.
OwnsPrefixUnchecked == TRUE

\* _require_single_tenant_global_prefix: the tenant owns 1..high-water.
OwnsPrefix == OwnEvents(1, Len(log)) = 1..Len(log)

Working == exporter.step \notin {"down", "idle"}

\* Faulty variant of Load: a poll without new events makes an empty batch.
LoadWithoutNews ==
  /\ exporter.step = "idle"
  /\ lock = "free"
  /\ OwnsPrefix
  /\ lock' = "live"
  /\ exporter' = [Idle EXCEPT !.step = "loading", !.clients = clients]
  /\ UNCHANGED <<database, repository, limits>>

\* Faulty variant of Load: a single new event is taken for none.
LoadOffByOne ==
  /\ exporter.step = "idle"
  /\ lock = "free"
  /\ OwnsPrefix
  /\ Len(log) > PreviousLast + 1
  /\ lock' = "live"
  /\ exporter' = [Idle EXCEPT !.step = "loading", !.clients = clients]
  /\ UNCHANGED <<database, repository, limits>>

\* A poll with something to export takes both locks, and reads the prefix and the
\* first of the recovery tables.  Otherwise a poll changes nothing: while the locks
\* are held it is busy, and without new events there is no source.
Load ==
  /\ exporter.step = "idle"
  /\ lock = "free"
  /\ OwnsPrefix
  /\ Len(log) > PreviousLast
  /\ lock' = "live"
  /\ exporter' = [Idle EXCEPT !.step = "loading", !.clients = clients]
  /\ UNCHANGED <<database, repository, limits>>

\* Faulty variant of Batch: the batch starts with the last event of the one before.
BatchOverlapping(bindings) ==
  [first |-> IF PreviousLast = 0 THEN 1 ELSE PreviousLast, last |-> Len(log),
   events |-> OwnEvents(PreviousLast + 1, Len(log)), prev |-> PreviousManifest,
   clients |-> exporter.clients, bindings |-> bindings]

\* What the deterministic builder makes of the source.
Batch(bindings) ==
  [first |-> PreviousLast + 1, last |-> Len(log),
   events |-> OwnEvents(PreviousLast + 1, Len(log)), prev |-> PreviousManifest,
   clients |-> exporter.clients, bindings |-> bindings]

\* The other tables are read by later statements of the same READ COMMITTED
\* transaction.  Then the archive is built and its checkpoint row is inserted.
Build ==
  /\ exporter.step = "loading"
  /\ lock = "live"
  /\ exporter' = [exporter EXCEPT !.step = "built", !.batch = Batch(clients),
                                  !.parent = Published]
  /\ UNCHANGED <<database, lock, repository, limits>>

----------------------------------------------------------------------------
(* The Git worktree.                                                        *)

\* _local_head: an unborn branch is the exit code 1, any other failure an error.
LocalHeadReadable == local # <<>> \/ UnbornExit = 1

\* _reconcile up to _empty_worktree: clean worktree, both heads, nothing tracked.
ReadHeads ==
  /\ exporter.step = "built"
  /\ ~dirty
  /\ LocalHeadReadable
  /\ exporter' = [exporter EXCEPT !.step = "emptied", !.seen = remote]
  /\ dirty' = TRUE
  /\ UNCHANGED <<database, lock, local, remote, limits>>

\* The branch head, if it is a commit: its tree is the last batch.
HeadTree == IF local = <<>> THEN NoBatch ELSE Last(local)

\* Nothing to adopt, and the remote agrees.
FreshExport == local = exporter.parent /\ exporter.seen = exporter.parent

\* Faulty variant of CommitMatches: the parent identifies the commit.
CommitMatchesParent == local # <<>> /\ Front(local) = exporter.parent

\* The export timestamp, that of the last event, has no microseconds.  A Git commit
\* stores whole seconds.
WholeSecond == log[exporter.batch.last].whole

\* _commit_matches: the commit an earlier attempt left is this very archive.  Its
\* tree, parents and message must agree, and its timestamp in every digit.
CommitMatches ==
  /\ local # <<>>
  /\ Front(local) = exporter.parent
  /\ Last(local) = exporter.batch
  /\ WholeSecond

Adoptable ==
  /\ local # exporter.parent
  /\ CommitMatches
  /\ exporter.seen \in {exporter.parent, local}

\* The rest of _reconcile: the new tree is materialized and the heads compared.
Materialize ==
  /\ exporter.step = "emptied"
  /\ FreshExport \/ Adoptable
  /\ exporter' = [exporter EXCEPT !.step = IF FreshExport THEN "staged" ELSE "committed"]
  /\ dirty' = (HeadTree # exporter.batch)
  /\ UNCHANGED <<database, lock, local, remote, limits>>

\* _commit: sign, verify and move the branch from its expected head.
Commit ==
  /\ exporter.step = "staged"
  /\ local = exporter.parent
  /\ local' = Append(local, exporter.batch)
  /\ dirty' = FALSE
  /\ exporter' = [exporter EXCEPT !.step = "committed"]
  /\ UNCHANGED <<database, lock, remote, limits>>

\* Faulty variant of RecordCommit: the push is taken for granted.
RecordCommitAsPushed ==
  /\ exporter.step = "committed"
  /\ lock = "live"
  /\ exporter' = [exporter EXCEPT !.step = "pushed"]
  /\ UNCHANGED <<database, lock, repository, limits>>

\* commit_archive_checkpoint; a commit seen on the remote is not pushed again.
RecordCommit ==
  /\ exporter.step = "committed"
  /\ lock = "live"
  /\ exporter' = [exporter EXCEPT !.step = IF exporter.seen = local THEN "pushed"
                                           ELSE "pushing"]
  /\ UNCHANGED <<database, lock, repository, limits>>

\* _push: a plain push, which the remote accepts as a fast-forward only.
Push ==
  /\ exporter.step = "pushing"
  /\ IsPrefix(remote, local)
  /\ remote' = local
  /\ exporter' = [exporter EXCEPT !.step = "confirming"]
  /\ UNCHANGED <<database, lock, local, dirty, limits>>

\* The remote head is read back and must be the commit.
Confirm ==
  /\ exporter.step = "confirming"
  /\ remote = local
  /\ exporter' = [exporter EXCEPT !.step = "pushed"]
  /\ UNCHANGED <<database, lock, repository, limits>>

\* push_archive_checkpoint and the commit of the transaction.
Finish ==
  /\ exporter.step = "pushed"
  /\ lock = "live"
  /\ checkpoints' = Append(checkpoints, [batch |-> exporter.batch, commit |-> local])
  /\ lock' = "free"
  /\ exporter' = Idle
  /\ UNCHANGED <<log, clients, repository, limits>>

----------------------------------------------------------------------------
(* Failure.  run_once lets every error but a busy lock through: the process *)
(* exits and systemd starts it again.                                       *)

\* The code raises at this point of the export.
Raises ==
  \/ exporter.step = "idle" /\ lock = "free" /\ ~OwnsPrefix
  \/ exporter.step \in {"loading", "committed", "pushed"} /\ lock # "live"
  \/ exporter.step = "built" /\ (dirty \/ ~LocalHeadReadable)
  \/ exporter.step = "emptied" /\ ~FreshExport /\ ~Adoptable
  \/ exporter.step = "staged" /\ local # exporter.parent
  \/ exporter.step = "pushing" /\ ~IsPrefix(remote, local)
  \/ exporter.step = "confirming" /\ remote # local

\* The transaction is rolled back.  The tree a refused reconcile has materialized
\* stays in the worktree.
Refuse ==
  /\ Raises
  /\ exporter' = Down
  /\ lock' = IF lock = "live" THEN "free" ELSE lock
  /\ dirty' = IF exporter.step = "emptied" THEN HeadTree # exporter.batch ELSE dirty
  /\ UNCHANGED <<database, local, remote, limits>>

\* A crash, or a Git or database call that fails.  Git files stay as they are; the
\* server may keep the transaction open until it notices.
Die ==
  /\ Working
  /\ faults < MaxFaults
  /\ faults' = faults + 1
  /\ exporter' = Down
  /\ lock' \in (IF lock = "live" THEN {"free", "zombie"} ELSE {lock})
  /\ UNCHANGED <<database, repository, rollbacks>>

\* The connection is lost during a Git call: the call goes on without the locks.
Disconnect ==
  /\ lock = "live"
  /\ faults < MaxFaults
  /\ faults' = faults + 1
  /\ lock' \in {"free", "zombie"}
  /\ UNCHANGED <<database, repository, exporter, rollbacks>>

\* The server ends a session whose client is gone.
Reap ==
  /\ lock = "zombie"
  /\ lock' = "free"
  /\ UNCHANGED <<database, repository, exporter, limits>>

\* Restart=on-failure
Restart ==
  /\ exporter.step = "down"
  /\ exporter' = Idle
  /\ UNCHANGED <<database, lock, repository, limits>>

Export ==
  \/ Load \/ Build \/ ReadHeads \/ Materialize \/ Commit \/ RecordCommit
  \/ Push \/ Confirm \/ Finish \/ Refuse \/ Restart

Next ==
  \/ AppendEvent \/ RegisterClient \/ RollBackRemote
  \/ Export \/ Die \/ Disconnect \/ Reap

\* The service is restarted and keeps polling; the server ends dead sessions.
Spec == Init /\ [][Next]_vars
FairSpec == Spec /\ WF_vars(Export) /\ WF_vars(Reap)

----------------------------------------------------------------------------
(* The restore of a history: verification.py, restore.py, archive.py.       *)

\* verify_archive_batch: the events are exactly the range the manifest claims.
BatchVerifies(b) == b.events = b.first..b.last

\* verify_manifest_chain: from genesis, each batch continues the one before it.
ChainVerifies(h) ==
  /\ h[1].prev = <<>> /\ h[1].first = 1
  /\ \A i \in 1..(Len(h) - 1) :
       /\ h[i + 1].prev = <<h[i]>>
       /\ h[i + 1].first = h[i].last + 1
       /\ h[i + 1].last > h[i].last

\* verify_signed_archive
Verifies(h) == h # <<>> /\ (\A i \in 1..Len(h) : BatchVerifies(h[i])) /\ ChainVerifies(h)

\* build_restore_plan takes the newest snapshot, the one of the last batch, and
\* restore_archive_rows inserts its tables: every binding refers to its client.
Restores(h) == Verifies(h) /\ Last(h).bindings <= Last(h).clients

----------------------------------------------------------------------------
IsBatch(b) ==
  /\ DOMAIN b = DOMAIN NoBatch
  /\ b.last \in 1..Len(log) /\ b.first \in 1..b.last
  /\ b.events \subseteq b.first..b.last
  /\ Len(b.prev) <= 1
  /\ b.clients \in 0..clients /\ b.bindings \in b.clients..clients

\* The log, the checkpoints, both branches and the exporter have the declared
\* shapes: the columns of archive_export_checkpoints, their check constraints
\* (event_range, high_water_covers_range) and the state of an export.
TypeOK ==
  /\ log \in Seq(Events) /\ Len(log) <= MaxEvents
  /\ clients \in 0..MaxClients
  /\ \A c \in Range(checkpoints) : IsBatch(c.batch) /\ \A b \in Range(c.commit) : IsBatch(b)
  /\ lock \in {"free", "live", "zombie"}
  /\ \A b \in Range(local) \cup Range(remote) : IsBatch(b)
  /\ dirty \in BOOLEAN
  /\ exporter.step \in Steps
  /\ exporter.batch = NoBatch \/ IsBatch(exporter.batch)
  /\ faults \in 0..MaxFaults /\ rollbacks \in 0..MaxRollbacks

\* However exports die, are retried and adopt what an earlier one left: the commits of
\* the worktree's branch are the batches of the pushed checkpoints, one for one, with
\* at most one more, and the remote branch is a prefix of it.  No attempt forks,
\* amends or duplicates history, or publishes a commit its checkpoint misdescribes.
OneCommitAhead ==
  /\ Published = [i \in DOMAIN checkpoints |-> checkpoints[i].batch]
  /\ IsPrefix(Published, local)
  /\ Len(local) <= Len(Published) + 1
  /\ IsPrefix(remote, local)

\* Batches and checkpoints have the shapes the code gives them, and the worktree's branch
\* is the published history and at most one commit more, however exports die and are
\* retried (export_archive_target, _commit_matches).
BranchConsistent == TypeOK /\ OneCommitAhead

\* What the remote holds always passes the verification of a restore: genesis
\* first, no gap, no overlap, no foreign event, each manifest naming the one before.
RemoteVerifies == remote # <<>> => Verifies(remote)

\* A checkpoint in state pushed vouches for the remote: its commit is there, unless
\* the remote itself was rolled back.
PushedIsRemote == rollbacks = 0 => IsPrefix(Published, remote)

\* As long as nothing fails, the remote keeps what it was given and the log is one
\* tenant's, the exporter catches up with the log: when no more is written (the log is
\* bounded), every event is exported in the end.
Exported ==
  [](faults = 0 /\ rollbacks = 0 /\ OwnsPrefix) => []<>(PreviousLast = Len(log))

\* The exporter keeps up with the log once the branch has its first commit, which it
\* never makes itself where Git answers UnbornExit # 1 (_local_head).
KeepsUp == local # <<>> => Exported

----------------------------------------------------------------------------
(* Statements of the documentation that the code does not keep; Exported,   *)
(* from a new target on, is another.                                        *)

\* ADR 0015: a crash after commit but before the checkpoint update is reconciled.
CrashReconciled == Len(local) > Len(Published) ~> Published = local

\* ADR 0015: the snapshot contains the recovery rows required to reconstruct the
\* tenant identities: what was pushed can be restored.
RemoteRestores == remote # <<>> => Restores(remote)
=============================================================================
