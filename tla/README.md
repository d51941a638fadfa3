# ScaleVault: a TLA+ model of the memory node

ScaleVault keeps a person's long-lived memories for their assistants.  The memory
node (`src/services/memory-node`) stores every change as an immutable event in
PostgreSQL, keeps live projections of the events for retrieval, and hands slow or
external work to workers through a transactional outbox.  Memories come in through
an API, through proposals in a Git repository and through one import of older
records; they go out to readers and into a signed archive.  A relay in Go, and an
agent beside the node, carry streams to it.  This directory models the parts whose
correctness depends on the order of things, checks them on small instances with TLC
and proves the most important facts for all instances with TLAPS.

## The system and its parts

| Part | Code (`kivra_memory/`) | Here |
|---|---|---|
| Canonical reducer | `domain/folding.py`, `domain/events.py` | `MemoryFold` |
| Live projection | `storage/live_projection.py`, `storage/models/projections.py` | `MemoryFold` |
| Commands of the mutation engine | `application/mutations.py`, `domain/commands.py` | `MemoryCommands` |
| Nominations and promotions | `application/selection.py`, `runtime/nomination.py` | `MemoryCommands`, `CandidateSelection` |
| Expiry of candidates | `application/candidate_lifecycle.py` | `MemoryCommands`, `CandidateSelection` |
| Selection policy | `policy/`, `domain/constraints.py` | `SelectionPolicy` |
| Selection decisions and their pages | `storage/selection_history.py`, `application/queries.py` | `SelectionHistory` |
| Purge of sealed payloads, database side | `workers/sealed_content.py` | `MemoryCommands` |
| Rebuild of the projection | `domain/folding.py`, `storage/projector.py` | `MemoryProjection`, `PointInTime` |
| Drill of a recovery to a point in time | `tools/postgres_pitr_verify.py` | `PointInTime` |
| Serializable transactions, locks, counters, receipts | `storage/transactions.py`, `storage/locks.py`, `storage/event_store.py`, `storage/selection_history.py` | `SerializableWriters` |
| What all writers promise together | the same | `CommandLog` |
| Key provider, purge requester, destruction broker and ledger | `security/local_key_provider.py`, `security/destruction_*.py`, `workers/sealed_content.py` | `KeyDestruction` |
| Archive exporter, Git worktree, verification of a history | `workers/archive_*.py`, `storage/archive.py`, `archive/adapters.py`, `archive/verification.py` | `ArchiveExport` |
| What a recovery accepts, signer epochs | `archive/trust.py`, `archive/recovery.py`, `archive/restore.py` | `ArchiveTrust` |
| Bundles, restore and continuation of an archive | `tools/archive_recovery.py`, `archive/bundle.py`, `archive/continuation.py`, `workers/archive_restore.py` | `ArchiveRecovery` |
| Outbox, leases and the three worker loops | `storage/outbox_worker.py`, `workers/*main.py` | `OutboxLease` |
| Reads, embeddings, ranking | `application/queries.py`, `storage/retrieval.py`, `retrieval/`, `workers/embedding_jobs.py` | `Retrieval` |
| Budgeted context packs | `retrieval/context_pack.py`, `retrieval/budgeting.py` | `ContextPack` |
| GitHub proposals | `ingress/`, `storage/github_*.py`, `workers/github_ingress*.py` | `GithubIngress` |
| Planning of the genesis import | `application/genesis_plan.py`, `ingress/snapshot.py`, `ingress/processor.py` | `GenesisPlan` |
| Applying it | `application/genesis_apply.py`, `application/genesis_import.py`, `storage/genesis_import.py` | `GenesisImport` |
| Credentials | `admin/`, `storage/credentials.py`, `application/authentication.py`, `runtime/` | `Credentials` |
| Enrolment of node agents | `services/memory-relay/internal/installations`, `services/memory-node-agent/internal` | `RelayInstallations` |
| Probe of a relayed stream | `internal/streams/probe.go`, `internal/tunnel/probe.go` | `RelayProbe` |

A command travels through them like this.  An engine opens a SERIALIZABLE
transaction, takes an advisory lock on the idempotency key and looks for a receipt.
It takes the locks of the fingerprints and rows it means to change, checks the
command, appends an event under the singleton counter row, folds the event into
the loaded part of the projection, writes the difference back, enqueues outbox
jobs and writes its receipt.  Serialization failures repeat all of this, at most
four times.  Workers later claim the jobs under leases.  Two of the workers write
events themselves: the lifecycle worker expires candidates, the sealed-content
worker records that a key was destroyed.

## Modules

**`MemoryFold`** is the reducer and the live projection as operators.  A projection
has memories, evidence, links and conflicts.  A row keeps its status, revision,
subject, fingerprint, protection and whether it has a deadline: what the checks of
`fold_event` tell apart.  `FoldAccepts` and `FoldEvent` are `_fold_event` for the
operations that some writer emits.  `LoadProjection` and `StageProjection` are
`load_projection_state_for_update` and `stage_live_projection`; `Storable` is what
the table's constraints accept.

**`MemoryCommands`** has one `Prepare...` operator per command, with its refusals in
the order of the code, and `Answer` and `Staged`, which put prepare, fold, constraint
and staging together.  The verdict of the selection policy (outcome, promotion,
expiry due) is part of the command: any verdict is possible.

**`MemoryProjection`** runs these commands one at a time.  `tables` is what the
database holds and `replay` is what `rebuild` makes of the log.  A refused command
rolls back and is not a step.

**`SerializableWriters`** runs a few calls concurrently, each at the statement its
transaction has reached: `preflight`, `begin`, `key`, `locks`, `counter`, `select`,
`commit`, or `omit` and `record` for a transaction that only records a decision.
`snap` is the snapshot taken by the first statement, which is *before* any lock.
PostgreSQL itself is modelled from how the code uses it: locking a row that has
changed since the snapshot fails with 40001 (`ChangedSince`, `Behind`), and any
statement may fail with 40001 for reasons the model does not look into
(`SerializationFailure`).  A commit's reply may be lost.  The purge worker runs under
READ COMMITTED and holds its row from its first read to its commit, so it is one
step.

**`CommandLog`** is the abstract specification: commands take effect one at a time on
the current tables, at most once for a key.  `SerializableWriters` instantiates it
with the committed database (`L == INSTANCE CommandLog WITH ...`).

**`OutboxLease`** has the job rows and the workers at their place in `run_once`.
`kind`, fixed at the start, says which worker it is: `embed` (handler and
acknowledgement in one transaction, no heartbeat; the process ends when a failure cannot
be recorded), `purge` (a heartbeat first, then one transaction) or `lifecycle` (the
handler commits by itself).  Leases and delays are ticks left; a worker reads the clock (`Stamp`)
before it sends the statement that uses the reading.

**`KeyDestruction`** follows a hard forget out of the database.  It has the provider's
files, the request directory, the ledger of destruction facts and its anchor, the
anchor in the operator's custody, and three processes at their place in the code: the
API (`provision_key`, `get_key`), the purge worker (`destroy_key` of the requester) and
the broker (`reconcile_destruction_requests`).  Each file operation of the broker is a
step; a process may die between two of them or inside `_publish_once`, which leaves a
"torn" file or a temporary name (`stray`).  An anchor commits to the facts it covers by
a hash chain and is modelled as their sequence; identity and receipt of a key never
change, so a fact is its key.  Accepting an anchor, backups, restores and the rollback
of a ledger are the operator's, taken from the runbooks; restore reconciliation is the
code's and runs while everything else is stopped.  The database is reduced to the
state of each key.

**`ArchiveExport`** has the exporter service at its place in `export_archive_target`, the
worktree's branch (`local`), whether the worktree is clean, the remote branch and the
pushed checkpoints.  The database transaction of an export is open over all Git calls,
so its locks are the variable `lock`: writers wait for it (`AppendEvent` needs the event
counter), registrations of clients do not, and a dead exporter may leave it to the
server for a while (`zombie`).  A step is a statement or a Git call.  Every error ends
the process (`Refuse`), and systemd starts it again.  A manifest is the batch it
describes together with the previous manifest, a commit the sequence of batches it
ends.  Two conversions are kept: Git cuts the commit's timestamp to whole seconds, so an
event says whether it was created on one; and `UnbornExit` is the exit code of
`git rev-parse --verify` on a branch without commits.  The code takes 1 for "no commit
yet"; Git gives 128, and so do all runs.  An exporter on a new target (`Unborn`) is
therefore refused for ever.  What it does beyond is seen on a target whose branch has its
first commit (`Begun`), the state from which `docs/runbooks/forgejo-recovery.md`, step 10,
activates an exporter; the promotion that leads there is a procedure outside the source.
`Verifies` and `Restores` say what a restore demands of a history.

**`ArchiveTrust`** says as operators what a recovery accepts: a history that ends at the
operator's anchor, whose commits are signed by the key of their epoch, with signed
transitions between the epochs, and, for a compromised signer, the last commit still
trusted.  A history is the sequence of its commits; a commit carries the check its
objects fail, if any.

**`ArchiveRecovery`** runs the four commands of the recovery tool that change something,
by two operators at once.  Every Git call, rename and transaction is a step, so that the
source branch may move, a bundle be swapped or a target directory be made anew between a
check and its use, while services already write to the restored database.

**`SelectionPolicy`** is the pinned profile, `evaluate_selection` and the rules for
promotion and expiry, as operators.  **`CandidateSelection`** runs nominations, revisions
and the expiry job over it, one transaction a step: the resolver of each transport says
what authority and evidence a nomination has, an observation by another client promotes,
and jobs may be delivered late or again.  **`SelectionHistory`** has the transactions that
record decisions under a locked counter and a reader that follows the cursor from page to
page.

**`Retrieval`** makes each SQL statement of a read a step, because the session is READ
COMMITTED; revisions, disputes, forgets, embedding jobs and key destructions happen in
between.  What a text scores is an input; hard predicates, channels, rank fusion,
eligibility, the expansion of conflicts and the hydration of sealed payloads are the
code's.  `past` collects what was committed during the read, to state that an answer was
true at some moment of it.  **`ContextPack`** is the assembly of a pack within a budget.

**`GithubIngress`** has the repository, pollers at their place in a poll, the item rows,
receipts and the provider head.  One transaction is one step; a poller may die between
two, lose an answer or meet a push by somebody else.  The installation may be revoked and
enrolled again, which starts a new epoch.

**`GenesisPlan`** turns a tree into the records that will be staged; every function that
can raise is a Boolean operator beside the one for its value.  **`GenesisImport`** runs
`stage`, `apply` and `verify` by operators that may die, use other configurations or run
at the same time.

**`Credentials`** has the six commands of the credential tool at their place between
reading the artifact, reserving and publishing a file and the serializable transaction,
and requests between the lookup of a secret and the record of its use.  A snapshot that
another commit has outdated (`Outdates`) ends in a serialization failure or a unique
violation.

**`RelayInstallations`** and **`RelayProbe`** are the Go side.  In the first a pairing is
found, a certificate signed and the store entered in separate steps; the node gets its
answer late, in another order or not at all.  In the second relay and agent exchange
frames through two queues of `window` frames that may break anywhere.

**`PointInTime`** adds the provenance columns to the rows: the writers set them row by row,
`build_projection_rows` derives them from the whole log.  Then it runs the drill: markers, a
manifest recorded at the restore point, a recovered server whose replay is paused there, not
yet there or past it, and the verifier that reads it statement by statement.  PostgreSQL's
recovery is external; a replay that is paused is taken to stay where it is, so the verifier
is checked against servers it should have refused at first sight, not against one that
resumes between two of its statements.  No service of the node creates a branch;
`CreateBranch` does what the verifier's own tests do to provision one.

### Instances

**`MCMemoryProjection`**, **`MCWriters`** and **`MCOutboxLease`** give
TLC one component each.  **`MCDelivered`**, **`MCContents`** and **`MCBoundary`** are hosts:
components that share no state stand side by side and a behaviour runs one of them,
`which`, while the others rest in an initial state.  A host joins the properties of a
component that belong together under one name and restricts them to where it runs.  **`MCHistories`**, **`MCTrees`**, **`MCReads`** and
**`MCScripts`** hold the data of `MCContents`: archive histories and recovery settings, trees
to import, the corpus and the requests, the commands before a drill.

The proofs are in **`OutboxLeaseProofs`**, **`SerializableWritersProofs`**,
**`KeyDestructionProofs`**, **`ArchiveExportProofs`**, **`MemoryProjectionProofs`**,
**`GithubIngressProofs`**, **`RelayInstallationsProofs`** and **`CredentialsProofs`**, each of
which extends the module it is about.

Several components take a set of budgets, each a record of bounds, instead of one bound:
a behaviour has many commands of few kinds or few commands of many kinds, many faults or
many commits, never all of it at once.

Definitions named as a "faulty variant" are not part of the model: each is a
plausible mistake in the code, kept to show that a property would notice it.
`PROJECT.json` lists one for every property of a run; where a property joins several, the
modules keep variants for the others as well.

## What the runs show

| Run | Instance | Checks |
|---|---|---|
| `projection` | 2 memories, 2 conflicts, 2 subjects, 2 fingerprints, 2 pieces of evidence, revisions to 3 | the live tables equal a rebuild; disputed memories are exactly the members of one open conflict; duplicate checks keep clear of the unique index; content keys follow forget and purge; nothing comes back to life |
| `writers_retry` | 4 calls: a revision and its repetition, a nomination under the same key, a creation with the revision's fingerprint | one effect per key, truthful replies, implementation of `CommandLog` |
| `outbox` | all three kinds of worker, 2 jobs, 2 workers, 2 attempts, batches of 2, leases of 2 ticks, a crash | fencing by token, nothing stranded, running leases respected; exactly-once or at-least-once effects |
| `answered` | two conflicts over the same members named in opposite order and a purge, 4 attempts, with fairness | what is committed was read on the committed tables; every call is answered |
| `archive` | a new target or one that is begun, 2 tenants, 3 events, 1 registration, 2 faults anywhere, a rollback of the remote; or 2 keys, 1 request a run, a death between steps; or the embedding worker, 2 jobs, 2 workers, leases of 1 tick, a crash; with fairness | the branch is the published history and at most one commit more; the remote always verifies; a pushed checkpoint tells the truth; from a begun target and without faults every event is exported; both keys are destroyed, neither in place of the other; every job ends succeeded or dead |
| `contents` | see below | key destruction under restores, recovery, import, candidates, decisions, reads, the drill |
| `boundary` | see below | ingress, credentials, enrolment, probe |

`contents` runs one of these:

* keys: 1 key, 2 attempts, a death anywhere, 2 restores of provider files or ledger.  An
  erased key is returned to nobody (`NoResurrection`) and is erased only under the
  operator's anchor (`ErasedIsAccepted`).
* recovery: 2 operators, histories of up to 3 commits signed under 2 epochs, swapped
  bundles and directories (`RecoveredAsAnchored`).  What is materialized, restored,
  continued or proved is a history the operator's settings anchor (`AnchoredCopies`); a
  restore leaves exactly its events (`RestoredExactly`); a checkpoint is true of database
  and repository and stays so (`CheckpointBinds`); two continuations never bind one
  repository (`OneTargetPerRepository`).
* import: trees of up to 3 records with supersessions, episodes, exclusions and the frozen
  file, deaths, two operators, other writers.  One decision per record (`DecidedOnce`), what
  the source may not assert stays out (`WithheldStaysOut`), the staged graph is whole and
  acyclic (`StagedGraph`): together `ImportedOnce`.  A completed import was verified under
  its own run, and nothing the importer did blocks it (`CompletionIsDue`).
* lifecycle: 2 direct clients, GitHub and genesis over 2 memories, 3 decisions, deadlines
  that pass.  Only two different clients promote; the ledger explains every status; an
  untouched candidate keeps its expiry job.  And policy: every request of a small space with
  every set of signals.  A further signal never accepts what was declined and never
  activates a candidate.  Together `CandidatesAccounted`.
* history: 4 sequences, pages of one decision.  Pages are complete and sequences dense
  (`PagesComplete`).
* reads: 4 memories, 1 conflict, 2 commands beside the read (`AnswersAreTrue`).  Answers
  were true at a moment of the read, groups are whole, what is served is eligible, packs
  fit, and whatever order embedding jobs run in, they leave the vectors of the current
  statements.
* drill: 3 scripts of 8 to 11 commands, which between them create, promote, revise, link,
  dispute, resolve, retire, expire, forget and purge, with forks; a sound copy and faulty ones.  The rebuilt rows are the live ones, provenance
  included, and the verifier reports success exactly for a sound copy that stands at the
  restore point (`RebuiltExactly`).

`boundary` runs one of these:

* ingress: 2 pollers, up to 3 commits, 2 proposals that agree or use one key twice, faults, a
  renewed enrolment.  A proposal is accepted once and decided by its own receipt
  (`ProposalsDecidedOnce`); everything below the head has its row, a changed object is
  recorded, and a poll moves the head only when the proposals it did not know are terminal
  (`HeadCovers`); a poll of an earlier enrolment writes nothing (`EpochFence`).
* credentials: 2 operators, 2 or 3 commands, 2 paths, 3 ids, a clock that steps back, a
  death or lost answer, a request.  One line of succession per binding, a committed tunnel
  secret is on disk, audit columns agree (`OneSuccession`); only active credentials are
  served (`ServedOnlyIfActive`).
* enrolment: 3 attempts, 2 pairings, 3 ticks (`EnrolledOnce`).  A code gives one certificate,
  a revoked installation has none, one certificate is preferred, the node publishes only
  what was committed for its latest key.
* probe: 3 agents, windows of 1 and 2 frames, up to 3 chunks or a cancellation
  (`ProbeAgrees`).  A probe that succeeds saw its own bytes and was served by an agent of its
  installation; nobody waits for ever while the frames fit.

`NothingGoesBack` joins what no step of the first three may undo: the verified tree and
terminal items, credential rows, revocations and published secrets, retired certificates.

Five runs show where the code departs from its documentation.

* `forget_commits`: ADR 0010 says that logical forget commits a tombstone.  A memory
  created by a nomination carries evidence; the reducer refuses a tombstone while
  evidence is active, and no writer ever redacts evidence.  Such a memory cannot be
  forgotten.
* `archive_genesis`: with the exit code Git really gives, the first export fails in
  `_local_head`, and so does every repetition: the exporter never catches up with the log.
* `ingress_head`: ADR 0004 says that the provider head advances only after every proposal
  at the new head is terminal.  `_known_objects` takes a row in any state for known.  A poll
  registers a proposal and dies, or leaves it for a retry; the next one finds nothing new
  and advances the head over it.  One poller is enough for that.
* `archive_crash`: ADR 0015 says that a crash after the commit is reconciled.  The commit
  left behind is compared with the rebuilt archive, timestamp included.  Git has cut the
  microseconds off, so it is recognised only if the last event was created on a whole
  second; otherwise every later export is refused.  No history is lost or forked by this
  (`BranchConsistent`); the archive stops.
* `archive_snapshot`: ADR 0015 says that the snapshot contains the rows required to
  reconstruct the tenant's identities.  The tables are read one after the other in a READ
  COMMITTED transaction; a client registered in between appears with its binding and
  without itself, and the restore fails on the foreign key.

### Further observations

The models brought out more of this kind.  They have no run of their own; most are places
where the code refuses or stops rather than does something wrong.

Archive.  A commit left by a crash is also not recognised once another event was appended,
since the rebuilt batch is then a different one.  Every commit must name the release that
verifies it as its exporter.  `materialize` publishes its output before it verifies it a
last time, and a repetition refuses the existing output; a copy that dies leaves a target
that is not empty.  It also ignores further refs, though the runbook on secondary bundles
lists an extra ref as a reason to stop.  A reconstructed checkpoint is `committed`, the
exporter only reads `pushed` ones, and no command promotes it (step 10 of
`docs/runbooks/forgejo-recovery.md`).

Key destruction.  A broker that dies inside `_publish_once`, after the link and before the
temporary name goes, leaves a name that `_records` refuses, so no later run recovers the
append.  Each claim of a purge job before the operator has accepted the new anchor is a
failed attempt; a job that has used them all is dead, and the memory cannot be forgotten
again (`outbox_worker.py:234`).

Candidates.  Revising a nominated candidate uses the version 1 payload, which has no
deadline, so the row loses its own and can neither expire nor be promoted (ADR 0013 has
every new candidate record one).  The evidence of a nomination that does not promote is
dropped.  A forced lifetime replaces the one of the basis and may be the longer one.  A
nomination the policy accepts and `validate_memory_constraints` refuses leaves no decision,
where ADR 0013 says that every evaluation appends one.  No resolver in the source gives a
nomination the user's own authority, and no worker calls `promote`.

Ingress.  Two pollers at different heads record an append-only violation that was none, because the comparison includes the
commit.  More than 100 commits or 256 proposals behind, a poll fails for good.

Credentials.  `ROTATION.md:107` says that the exact command may be repeated if the new
artifact exists.  An artifact that was reserved and is still empty is refused
(`credential_io.py:136`).  Revocation stamps are taken before the transaction.  `rotate`
accepts a tunnel's credential and emits its secret only after the commit.

Import.  A global scene of the ontology `fictional_or_roleplayed_scene` is staged and then
refused by every execution (`domain/constraints.py:177`).  The schema allows memory types
`_TYPE_CATEGORY` does not have, which refuses the whole plan.  A candidate that is
promoted, expired or forgotten before `verify`, a plan without nominations, and a tenant
that keeps writing between the two replays cannot complete.  Two completions at once end in
a key violation.

Reads.  The final pack of a narrowed request has one more reason than the one that was
measured, so it may be refused where a smaller one fits (ADR 0011: `budget_too_small` is for
a minimum that cannot fit); `PackFits` excepts such requests, so it says nothing of this edge.  Depth
limits apply before the policy.  A conflict resolved during a read, or more than 64 hits of
a section, is an internal error.  Tombstones do not appear in a timeline, and a timeline
does not evaluate eligibility.

Relay.  `RedeemedAt` comes from the caller, so two certificates may be preferred when times
arrive out of order (`disorder`).  The relay sends all frames before it reads one, and the
agent echoes each at once: with more than twice the window and one frame both wait for
ever, which is why `NoStandoff` has its bound.

### Bounds

The reducer's checks compare at most two memories and one conflict, so two memories and
two conflicts reach every check; with revisions up to 3 a memory goes through create,
dispute or revise, and forget.  Two pieces of evidence tell an attached one from a new one.
A stale expected revision is represented by one value, because every check is an equality
with the current one.  In `SerializableWriters` two attempts distinguish "repeat" from
"give up" (`answered` has the four of the code), and three or four calls are enough for two to conflict while another repeats.
`MaxCrashes` and `MaxAttempts` in `OutboxLease` bound the behaviours; two workers with two
jobs have overlapping batches, stale tokens and late acknowledgements.  `projection` does
not check for deadlock, because a tenant whose memories have reached the last revision has
nothing left to do.  In `KeyDestruction` the keys interact only through the order of the
facts and of the requests, for which two are enough; one key with two restores has an old
provider copy and an old ledger in either order.  `MaxRequests` and `MaxWork` are small so
that a run meets them.  In `ArchiveExport` three events make two batches after the first commit and an event
between a crash and its retry, two faults let the retry of an interrupted export be
interrupted itself; deadlock is not checked because an exported log needs nothing more.

`CommandScripts` fixes the commands of a drill, because the rebuild depends on which
operations the log has and not on who raced for them; `FirstMarkers` says after how many
events marker A is set.

The budgets of the hosts (`Recoveries`, `Imports`, `Pollings`, `Administrations`) name the
commits, commands, deaths and swaps of a behaviour.  Two operators or pollers are enough
for a race, three commands for one that prepares what the other two race over, one fault
for a repetition.  Limits of the code that are large numbers are small here, so that they
are met: 2 commits of verified history and 2 new proposals in a poll, 2 attempts of an item,
2 tries of a transaction, pages of one decision, a pack of 9 units.  Lifetimes and the
clock are counted in days or ticks, as far as the deadlines.  A host does not check for
deadlock: a ledger that was rolled back or torn stops every process, as the code intends,
and a finished import, probe or budget has nothing left to do.

### Fairness

`OutboxLease!FairSpec` assumes that a worker process takes its next step, that systemd
restarts it (`Restart=on-failure`) and that time passes.  It does not assume that
handlers succeed or that leases are kept.  `SerializableWriters!FairSpec` assumes that
a call whose next statement can run does run; `Ready` spells out when that is, a lock
being free.  Serialization failures and disconnections are never forced.
`KeyDestruction!BrokerSpec` assumes that the broker's path unit starts it while requests
are there, that a started run goes on, and that the worker finishes a publication.
`ArchiveExport!FairSpec` assumes that the exporter's loop goes on, that systemd restarts
it and that the server ends dead sessions.  `MCDelivered!Spec3` has those of outbox, broker
and exporter together, each for the behaviours that run its component.

## What is proved

All theorems hold for every value of the constants that satisfies the named `ASSUME`s of the
modules, which TLC evaluates in the runs.  The theorems about enrolment and credentials, whose
modules the host of `boundary` instantiates, state their assumption on the constants
themselves, as `Sensible`: ids and times are numbers, a certificate's lifetimes are positive, a
label is a host's or a tunnel's; the instances of the run satisfy it.  The inductive invariants of
`CommittedAtLeastOnce`, the archive, the ingress, enrolment and the credentials were first
checked by TLC on small instances.  Type correctness, the
gapless log (`GaplessLog`) and the price of a conflict (`ConflictsPaid`) are settled by proof
alone and are not repeated in a run.  `KeysSafe` of the run `archive` joins `TypeOK`,
`FactFirst`, `OnlyForgotten` and `PendingIsAuthorized` for two keys; each of the four has a
theorem of its own.

`OutboxLeaseProofs` proves `TypeCorrect`, `ExactlyOnce` (`EffectIffSucceeded`),
`NeverStranded` (`NothingStranded`), `Fenced` (`LeaseFence`), `Respected`
(`LeaseRespected`) and `CommittedAtLeastOnce` (`AtLeastOnce`).  Type correctness
needs that a busy worker has a batch (`BusyHasWork`).  `ExactlyOnce`, `NeverStranded` and
`Respected` follow from one description of what any step does to one row (`RowStep`,
`EveryRowStep`): a settled row does not move, and a row with time left on its lease moves only
by its token.  `Fenced` strengthens the property with: every token in a batch or on a row is
older than `nextToken`.  `CommittedAtLeastOnce` needs `CountInv`, which counts: every
handler commit of a row, past or to come, has a claim of its own, and a worker that settles a
job has seen the handler commit.

`SerializableWritersProofs` proves `TypeCorrect`, `Serializable` (`CommitFence`),
`Gapless`, `Idempotent`, `Truthful`, `Paid` and `Refinement` (`ImplementsLog`).
`CommitFence` is not inductive: it speaks of the moment before the commit.  The
inductive invariant `IInv` adds three facts.  `Fence`: a snapshot never runs ahead of
the database, and as long as the event counter has not moved the tables have not
either.  `Holders`: a request past the counter has an unmoved counter and a snapshot
on which its command is accepted.  `Exclusive`: at most one request is past each
counter.  Together they say why reading before locking is safe: the counter row is a
fence that every event passes, and a transaction that finds it moved starts again.
`Refinement` then maps each commit to `TakeEffect`, each recorded decision to `Omit`,
and everything else to stuttering.

`KeyDestructionProofs` proves `TypeCorrect`, `NoneResurrected` (`NoResurrection`),
`Accepted` (`ErasedIsAccepted`), `Authorized` (`PendingIsAuthorized`), `Forgotten`
(`OnlyForgotten`) and `FactsFirst` (`FactFirst`), for any keys and any number of deaths
and restores.  `NoResurrection` follows from `CustodyInv`: while any process runs that
has checked the ledger, the anchor in custody is a prefix of the ledger (`Vouched`),
the worker's own anchor is a prefix of custody, and whatever is erased is in custody.
A rollback breaks the first only while everything is stopped, and then nothing starts.
`AppendInv` describes the interrupted append: the broker works on requests that are
still there, and ledger and anchor agree except between the append and the anchor's
replacement.  `ForgottenInv` and `FactInv` rest on it.

`ArchiveExportProofs` proves `BranchAlwaysConsistent` (`BranchConsistent`),
`RemoteAlwaysVerifies` (`RemoteVerifies`) and `PushedAlwaysRemote` (`PushedIsRemote`), for any
tenants, events and faults.  The three properties say nothing of the middle of an export.
The inductive invariant does: while an exporter carries an archive it has built nobody else
publishes (`Carrying`), so the batch built at the start is still the next one when it is
committed; the branch is the history of the published checkpoints and at most one commit more;
and as long as nobody has rolled the remote back, a push only extends what the exporter saw
there (`Sees`).  An exporter that died leaves the extra commit, and the next one either
recognises it or refuses.  The invariant holds of a new target and of one that is begun
(`GoodUnborn`, `GoodBegun`), and for any exit code of Git.

`MemoryProjectionProofs` proves `RebuildAlwaysMatches` (`LiveMatchesRebuild`),
`AlwaysConsistent` (`ConflictsConsistent`), `ChecksAlwaysSuffice` (`DuplicateChecksSuffice`),
`KeysAlwaysFollow` (`KeysFollowForget`) and `NeverRevived` (`NoRevival`), for any memories,
conflicts, subjects, fingerprints and revisions.  The first rests on two lemmas about the
operators.  `LoadSuffices`: what `load_projection_state_for_update` loads contains every row
that `fold_event` looks at, so the partial state accepts an event exactly when the whole one
does.  `StageIsFold`: what `stage_live_projection` writes back makes the tables the fold of
the whole state.  The other four need, besides, that the tables satisfy their constraints
(`Storable`), that a tombstone has no fingerprint, that what is erased is a tombstone, and who
may be a member of an open conflict (`RowsInv`, `DisputedInv`).  Each command is reduced to
the one event it emits (`Step`), and each event to what it does to one row (`TargetRow`).

`GithubIngressProofs` proves `AlwaysDecidedOnce` (`ProposalsDecidedOnce`), `HeadAlwaysCovers`
(`HeadCovers`), `AlwaysFenced` (`EpochFence`) and `TerminalStays` (`KeepsTerminal`), for any
number of pollers, proposals, pushes, enrolments and crashes.  The argument is one of rely and
guarantee.  Rows only grow (`Grows`): a row keeps its commit and blob, a terminal one does not
change at all.  Each poller knows something about the rows of its batch that no growth takes
away (`Knows`, `OthersKnow`): what it took for known is recorded with that blob, an item past
`register` has the row of this very object, and what has left the batch is settled.  Hence a
poll whose batch is empty has settled what it did not know when it advances the head
(`AdvanceSettles`), everything below the head has its row (`Below`), and decisions agree with receipts, memories and events
(`Decided`), because the transaction that decides a row finds its key free, and the trigger
lets an event in only for a row that is still validated.

`RelayInstallationsProofs` proves `CodesRedeemedOnce` (`PairingRedeemedOnce`), `OneIsPreferred`
(`OnePreferred`), `RevokedStaysOut` (`RevokedHasNone`), `PublishedAlwaysCommitted`
(`PublishedIsCommitted`) and `NothingComesBack` (`KeepsCertificates`), for any attempts,
installations, pairings and lifetimes.  `OnePreferred` says that of two active certificates one
has expired by now, as long as certificates are accepted in the order of their times.  That is not inductive, since a renewal is accepted on what the certificate
was when it was looked at.  The invariant says it of the time at which the last certificate was
accepted (`Apart`, `newest`), which lies before the clock's (`Times`).  `CodesUsed` says that a
consumed pairing gave exactly one certificate and any other none, `Carried` what an attempt
brings to the store's transaction.

`CredentialsProofs` proves `OneLineOfSuccession` (`Succession`), `SecretsAreKept`
(`SecretKept`), `AuditAgrees` (`AuditInOrder`), `OnlyActiveServed` (`ServesOnlyActive`),
`NothingGoesBack` (`KeepsRowsAndSecrets`) and type correctness, for any operators, requests,
ids, paths and labels, and a clock that may step back.  The invariant says of two rows of a
binding that one was revoked by the time the other was created, and that at most one has no
predecessor (`Lines`).  A rotation keeps this because the row it replaces is the only one not
revoked, and the trigger refuses to revoke it before its creation; a first credential because
a binding without identity rows has no row (`Closed`), and a reissue because revoked rows
occupy a binding too.  `SecretKept` needs two facts about the files: a tunnel command is in its
transaction only with an id that a published artifact carries (`Fit`), and a path about to be
written is a reservation of one process (`Reservations`), so nothing that is published is
written over.

The proofs of these two components are about the modules `RelayInstallations` and
`Credentials`; the run checks the same properties where they are hosted, joined as
`EnrolledOnce`, `OneSuccession`, `ServedOnlyIfActive` and `NothingGoesBack`.

## What is only model-checked

Liveness (`EventuallySettled`, `AllAnswered`, `EventsExported`, `RequestsServed`) is out of
the prover's reach.  That the verified tree only grows (`GrowsCheckpoint`) is an induction
along the chain of commits which `verify_additive_history` walks; what the search for cycles
(`GenesisPlan!Visit`), the assembly of a pack (`ContextPack`) and the rebuild of a whole log
(`PointInTime`) compute for every input would be inductions over data as well, which the
installed provers cannot do.  The other components of `contents` and `boundary` (recovery,
import, candidates, decisions, reads, the probe) are checked on the instances above and not
proved.

## What is not modelled

* Canonical encoding, hashing, signatures and encryption are taken as what they are meant
  to be: equal exactly when the contents are, and readable with the key only.
* The shape of requests (schemas, contracts, MCP tools and HTTP routes) is validated before
  any state is touched.  A model's inputs have the right shape.
* Authorization by tenant and scope is modelled where a read or a command depends on stored
  rows; the middleware that establishes a principal is not, beyond the credential.
* The relay's server and routing, the agent's upgrade of a connection and the query socket
  carry bytes.  Only the probe, which has a protocol of its own, is modelled.
* The loader of configuration and secrets, command line parsing, observability, evaluation
  tools and generated code keep no state that outlives a command.
* Migrations run once while everything is stopped.  Their constraints and triggers are
  modelled where the code relies on them; the triggers on GitHub items that repeat what
  `register` and `terminalize` check are second layers and are left out.
* The reducer's operations without an emitter (visibility, supersession, attaching and
  redacting evidence, unlinking, branches) are left out: no behaviour reaches them.
* Replacement of the pepper and of the tenant's state, and a completion that commits between
  the trigger's check and another commit at READ COMMITTED.

`PROJECT.json` lists every part with its status, and the hazards of each.  The next steps
would be proofs about the import and the recovery of an archive.
