--------------------------- MODULE GithubIngress ---------------------------
\* The GitHub proposal ingress of the memory node: a create-only client puts
\* proposals into a Git repository, pollers verify that its history only grew,
\* and every new proposal is registered, validated, nominated and made terminal,
\* one database transaction each.
\*
\* A commit is a number, its tree a function from paths to blobs. GitHub, the
\* operator and the selection policy are external: they act nondeterministically.
EXTENDS Integers, Sequences, FiniteSets

CONSTANTS
  Pollers,      \* processes of kivra-memory-github-ingress
  Paths,        \* valid proposal paths inside the pinned ingress root
  Foreign,      \* a path of the repository outside that root
  Payload,      \* what a blob holds: [Blobs -> [kind, key, fingerprint]]
  Forged,       \* blobs that others than the client push
  MaxVerified,  \* _MAX_VERIFIED_COMMITS
  MaxNew,       \* MAX_NEW_PROPOSALS_PER_POLL
  MaxAttempts,  \* max_process_attempts
  Budgets       \* bounds of a behaviour: the client's [path, blob] proposals, the
                \* commits of the repository, the enrolments of the installation, and
                \* the faults (crashes, lost answers, transient errors, pushes)

None == "none"
Bootstrap == 1
Blobs == DOMAIN Payload
Keys == {Payload[b].key : b \in Blobs}
Fingerprints == {Payload[b].fingerprint : b \in Blobs}
Terminal == {"accepted", "duplicate", "conflict", "rejected", "quarantined"}

ASSUME BoundsAreNaturals ==
  /\ {MaxVerified, MaxNew, MaxAttempts} \subseteq Nat \ {0}
  /\ \A b \in Budgets : {b.commits, b.epochs} \subseteq Nat \ {0} /\ b.faults \in Nat

\* A proposal path is a real path and lies inside the root, and what is pushed has bytes.
ASSUME PathsAndBlobs ==
  /\ None \notin Paths /\ Foreign \notin Paths
  /\ Blobs # {} /\ Forged \subseteq Blobs
  /\ \A b \in Budgets : b.proposals \subseteq [path : Paths, blob : Blobs]

VARIABLES
  budget,        \* the bounds of this behaviour
  commits,       \* GitHub: sequence of [parents, tree]
  tip,           \* GitHub: the branch head
  submitted,     \* the client's knowledge of each proposal
  installation,  \* transport_installations: [epoch, revoked]
  head,          \* ingress_provider_heads: [commit, etag], or NoHead
  items,         \* ingress_items by path, or Absent
  violations,    \* ingress_provider_violations: <<path, commit, blob>> observed
  receipts,      \* command_receipts by key: <<path, commit, blob>>, or <<>>
  memories,      \* live memories by fingerprint: the path of their event
  events,        \* memory_events with an ingress identity: <<path, fingerprint>>
  poll,          \* each poller's local state
  faults         \* faults so far

provider == <<commits, tip>>
client == <<budget, submitted>>
durable == <<head, items, violations, receipts, memories, events>>
vars == <<provider, client, installation, durable, poll, faults>>

Tree(c) == commits[c].tree
Extend(tree, path, blob) ==
  [q \in DOMAIN tree \cup {path} |-> IF q \in DOMAIN tree THEN tree[q] ELSE blob]

Idle == [pc |-> "idle", epoch |-> 0, trusted |-> Bootstrap, etag |-> 0,
         known |-> << >>, commit |-> Bootstrap, work |-> << >>, attempt |-> 0]

NoHead == [commit |-> 0, etag |-> 0]
Absent == [state |-> "absent", commit |-> 0, blob |-> None, key |-> None]
Row(commit, blob) == [state |-> "discovered", commit |-> commit, blob |-> blob, key |-> None]

Fault == faults < budget.faults /\ faults' = faults + 1

Init ==
  /\ budget \in Budgets
  /\ commits = <<[parents |-> {}, tree |-> [q \in {Foreign} |-> CHOOSE b \in Blobs : TRUE]]>>
  /\ tip = Bootstrap
  /\ submitted = [s \in budget.proposals |-> "unsent"]
  /\ installation = [epoch |-> 1, revoked |-> FALSE]
  /\ head = NoHead
  /\ items = [q \in Paths |-> Absent]
  /\ violations = {}
  /\ receipts = [k \in Keys |-> << >>]
  /\ memories = [f \in Fingerprints |-> None]
  /\ events = {}
  /\ poll = [p \in Pollers |-> Idle]
  /\ faults = 0
-----------------------------------------------------------------------------
\* The create-only client: create_unique.

\* create_file answers 201, or the path exists (409, 422) and read_file decides.
\* The answer can be lost: github_create_ambiguous, and the caller may repeat the
\* call with the same bytes, whose path is the same.
CreateUnique(s) ==
  /\ submitted[s] \in {"unsent", "ambiguous"}
  /\ \/ /\ s.path \notin DOMAIN Tree(tip)
        /\ Len(commits) < budget.commits
        /\ commits' = Append(commits, [parents |-> {tip},
                                       tree |-> Extend(Tree(tip), s.path, s.blob)])
        /\ tip' = Len(commits')
        /\ \/ submitted' = [submitted EXCEPT ![s] = "referenced"] /\ UNCHANGED faults
           \/ submitted' = [submitted EXCEPT ![s] = "ambiguous"] /\ Fault
     \/ /\ s.path \in DOMAIN Tree(tip)
        /\ submitted' = [submitted EXCEPT ![s] =
             IF Tree(tip)[s.path] = s.blob THEN "referenced" ELSE "collision"]
        /\ UNCHANGED <<provider, faults>>
  /\ UNCHANGED <<budget, installation, durable, poll>>

\* GitHub: somebody with write permission commits what a create-only client
\* never would, on the head or on the bootstrap commit (a forced push).
Irregular(tree) ==
  {Extend(tree, q, b) : q \in Paths \ DOMAIN tree, b \in Forged}
    \cup {[q \in DOMAIN tree \ {r} |-> tree[q]] : r \in DOMAIN tree}
    \cup {[tree EXCEPT ![r] = b] : r \in DOMAIN tree, b \in Forged}

Rewrite ==
  /\ Len(commits) < budget.commits
  /\ Fault
  /\ \E base \in {tip, Bootstrap} : \E tree \in Irregular(Tree(base)) :
       \E parents \in {{base}, {Bootstrap, tip}} :
         commits' = Append(commits, [parents |-> parents, tree |-> tree])
  /\ tip' = Len(commits')
  /\ UNCHANGED <<client, installation, durable, poll>>

\* The operator revokes the installation, or enrols it anew.
Revoke ==
  /\ ~installation.revoked /\ installation.epoch < budget.epochs
  /\ installation' = [installation EXCEPT !.revoked = TRUE]
  /\ UNCHANGED <<provider, client, durable, poll, faults>>

Enrol ==
  /\ installation.revoked
  /\ installation' = [epoch |-> installation.epoch + 1, revoked |-> FALSE]
  /\ UNCHANGED <<provider, client, durable, poll, faults>>
-----------------------------------------------------------------------------
\* History verification: GitHubProposalClient.

\* _validate_proposal_path: canonical, inside the pinned root, named by an id.
ProposalPath(q) == q \in Paths

\* _verify_additive_tree_delta: nothing changed or removed, something added, and
\* only regular proposals inside the root.
AdditiveDelta(previous, current) ==
  LET added == DOMAIN current \ DOMAIN previous
  IN /\ \A q \in DOMAIN previous : q \in DOMAIN current /\ current[q] = previous[q]
     /\ added # {}
     /\ \A q \in added : ProposalPath(q)

\* The verified chain from each commit back to the trusted one, as its length;
\* MaxVerified + 1 when there is none within the limit.
ChainLength(trusted) ==
  LET length[c \in 1..Len(commits)] ==
        IF c = trusted THEN 0
        ELSE IF Cardinality(commits[c].parents) # 1 THEN MaxVerified + 1
        ELSE LET parent == CHOOSE x \in commits[c].parents : TRUE
             IN IF length[parent] >= MaxVerified \/ ~AdditiveDelta(Tree(parent), Tree(c))
                  THEN MaxVerified + 1 ELSE length[parent] + 1
  IN length

VerifyAdditiveHistory(trusted, commit) == ChainLength(trusted)[commit] <= MaxVerified

\* Faulty variant: only the number of additions is looked at.
SnapshotSmall(known, tree) ==
  Cardinality((DOMAIN tree \cap Paths) \ DOMAIN known) <= MaxNew

\* poll: what was recorded under a known path is still there, and the additions
\* are few enough.
SnapshotAccepted(known, tree) ==
  /\ \A q \in DOMAIN known : q \in DOMAIN tree /\ tree[q] = known[q]
  /\ Cardinality((DOMAIN tree \cap Paths) \ DOMAIN known) <= MaxNew
-----------------------------------------------------------------------------
\* One poll: GitHubIngressPollLoop.poll_once.

\* The poll is over, and the next one starts from the durable state.
Rest(p) == poll' = [poll EXCEPT ![p] = Idle]

\* Faulty variant: a revoked installation that was enrolled again passes.
FencedAnyEpoch(p) == ~installation.revoked

\* require_active_github_installation: the row lock that fences each transaction.
Fenced(p) == ~installation.revoked /\ installation.epoch = poll[p].epoch

\* The process ends and systemd starts it again; revoked, it stops for good.
Fail(p) == Rest(p)
Stop(p) == poll' = [poll EXCEPT ![p] = [Idle EXCEPT !.pc = "stopped"]]

\* _installation_epoch
CaptureEpoch(p) ==
  /\ poll[p].pc = "idle"
  /\ IF installation.revoked THEN Stop(p)
     ELSE poll' = [poll EXCEPT ![p].pc = "captured", ![p].epoch = installation.epoch]
  /\ UNCHANGED <<provider, client, installation, durable, faults>>

\* _provider_head: load_or_create
LoadHead(p) ==
  /\ poll[p].pc = "captured"
  /\ IF ~Fenced(p) THEN Stop(p) /\ UNCHANGED head
     ELSE /\ head' = IF head = NoHead THEN [commit |-> Bootstrap, etag |-> 0] ELSE head
          /\ poll' = [poll EXCEPT ![p].pc = "loaded", ![p].trusted = head'.commit,
                                  ![p].etag = head'.etag]
  /\ UNCHANGED <<provider, client, installation, items, violations, receipts,
                 memories, events, faults>>

\* The paths _known_objects reads: every row, whatever its state.
Recorded == {q \in Paths : items[q] # Absent}

LoadKnown(p) ==
  /\ poll[p].pc = "loaded"
  /\ IF ~Fenced(p) THEN Stop(p)
     ELSE poll' = [poll EXCEPT ![p].pc = "known",
                               ![p].known = [q \in Recorded |-> items[q].blob]]
  /\ UNCHANGED <<provider, client, installation, durable, faults>>

\* resolve_head: the conditional request is not answered "not modified".
TipChanged(p) == poll[p].etag # tip

\* GitHubSnapshotPoller.poll: not modified, refused, unreachable, or a batch.
Snapshot(p) ==
  /\ poll[p].pc = "known"
  /\ \/ Rest(p)
     \/ /\ TipChanged(p)
        /\ VerifyAdditiveHistory(poll[p].trusted, tip)
        /\ SnapshotAccepted(poll[p].known, Tree(tip))
        /\ poll' = [poll EXCEPT ![p].pc = "fetched", ![p].commit = tip]
  /\ UNCHANGED <<provider, client, installation, durable, faults>>

\* _check_installation_epoch, and work_item_from_proposal for each addition.
BeginBatch(p) ==
  /\ poll[p].pc = "fetched"
  /\ IF ~Fenced(p) THEN Stop(p)
     ELSE LET new == (DOMAIN Tree(poll[p].commit) \cap Paths) \ DOMAIN poll[p].known
          IN poll' = [poll EXCEPT ![p].pc = "batch", ![p].attempt = 1,
                                  ![p].work = [q \in new |-> "register"]]
  /\ UNCHANGED <<provider, client, installation, durable, faults>>
-----------------------------------------------------------------------------
\* One item: GitHubIngressOrchestrator.process. The stages of an item are
\* register, validate, quarantine, select and refresh, and then settled or retry.

Blob(p, q) == Tree(poll[p].commit)[q]
Same(p, q) == items[q].commit = poll[p].commit /\ items[q].blob = Blob(p, q)
At(p, q, stage) == /\ poll[p].pc = "batch" /\ q \in DOMAIN poll[p].work
                   /\ poll[p].work[q] = stage
Stage(p, q, stage) == poll' = [poll EXCEPT ![p].work[q] = stage]
SetState(q, state) == items' = [items EXCEPT ![q].state = state]

\* An exception in one task of the group ends the whole process.
FencedOff(p) ==
  /\ ~Fenced(p)
  /\ Fail(p)
  /\ UNCHANGED durable

\* _record_provider_violation: once for each observed provenance.
RecordViolation(p, q) == violations' = violations \cup {<<q, poll[p].commit, Blob(p, q)>>}

\* register: a new row, the row of the same object, or a changed object.
Register(p, q) ==
  /\ At(p, q, "register")
  /\ \/ FencedOff(p)
     \/ /\ Fenced(p)
        /\ \/ /\ items[q] = Absent
              /\ items' = [items EXCEPT ![q] = Row(poll[p].commit, Blob(p, q))]
              /\ Stage(p, q, "validate")
              /\ UNCHANGED violations
           \/ /\ items[q] # Absent /\ Same(p, q)
              /\ Stage(p, q, IF items[q].state \in Terminal THEN "settled" ELSE "validate")
              /\ UNCHANGED <<items, violations>>
           \/ /\ items[q] # Absent /\ ~Same(p, q)
              /\ RecordViolation(p, q)
              /\ IF items[q].state \in Terminal THEN UNCHANGED items
                                                ELSE SetState(q, "quarantined")
              /\ Stage(p, q, "settled")
        /\ UNCHANGED <<head, receipts, memories, events>>
  /\ UNCHANGED <<provider, client, installation, faults>>

\* validate_ingress and adapt_live_proposal on the bytes, then validate; bytes
\* that are no live proposal go to quarantine.
Validate(p, q) ==
  /\ At(p, q, "validate")
  /\ \/ /\ Payload[Blob(p, q)].kind = "malformed"
        /\ Stage(p, q, "quarantine")
        /\ UNCHANGED durable
     \/ /\ Payload[Blob(p, q)].kind # "malformed"
        /\ \/ FencedOff(p)
           \/ /\ Fenced(p)
              /\ IF items[q].state \in Terminal
                   THEN Stage(p, q, "settled") /\ UNCHANGED items
                   ELSE /\ items' = [items EXCEPT ![q].state = "validated",
                                                  ![q].key = Payload[Blob(p, q)].key]
                        /\ Stage(p, q, "select")
              /\ UNCHANGED <<head, violations, receipts, memories, events>>
  /\ UNCHANGED <<provider, client, installation, faults>>

\* The state quarantine leaves: terminal rows are returned as they are.
Quarantined(state) == IF state \in Terminal THEN state ELSE "quarantined"

Quarantine(p, q) ==
  /\ At(p, q, "quarantine")
  /\ \/ FencedOff(p)
     \/ /\ Fenced(p)
        /\ SetState(q, Quarantined(items[q].state))
        /\ Stage(p, q, "settled")
        /\ UNCHANGED <<head, violations, receipts, memories, events>>
  /\ UNCHANGED <<provider, client, installation, faults>>
-----------------------------------------------------------------------------
\* The nomination: SelectionEngine.execute with the ingress row as participant.

\* The receipt of this very object (the digest covers its commit and blob).
OwnReceipt(p, q) == receipts[items[q].key] = <<q, poll[p].commit, Blob(p, q)>>

\* Errors the orchestrator takes for transient. An object outside the pinned
\* trust profile is one: the resolver's refusal is authority_unavailable.
Transient(p, q) ==
  \/ Payload[Blob(p, q)].kind = "out_of_profile" /\ UNCHANGED faults
  \/ Fault

\* Faulty variant: the decision overwrites a terminal row.
StagesOver(state, outcome) == outcome

\* terminalize, in the selection transaction: a terminal row is left alone.
Stages(state, outcome) == IF state \in Terminal THEN state ELSE outcome

\* Faulty variant: events are inserted whatever the row's state.
ProvenanceUnchecked(q) == TRUE

\* scalevault_enforce_event_provenance: the row an event names is validated.
Provenance(q) == items[q].state = "validated"

\* _find_duplicate_link: a live memory has the fingerprint.
Covered(fingerprint) == memories[fingerprint] # None

Receive(p, q) ==
  receipts' = [receipts EXCEPT ![items[q].key] = <<q, poll[p].commit, Blob(p, q)>>]

\* The policy's decision commits with its receipt and the terminal row. A new
\* memory needs an event, which the provenance trigger refuses unless the row is
\* still validated: dependency_unavailable, hence a retry.
Commit(p, q) ==
  LET fingerprint == Payload[Blob(p, q)].fingerprint
  IN \/ /\ ~Covered(fingerprint) /\ ~Provenance(q)
        /\ Stage(p, q, "retry")
        /\ UNCHANGED <<items, receipts, memories, events>>
     \/ /\ ~Covered(fingerprint) /\ Provenance(q)
        /\ memories' = [memories EXCEPT ![fingerprint] = q]
        /\ events' = events \cup {<<q, fingerprint>>}
        /\ Receive(p, q)
        /\ SetState(q, Stages(items[q].state, "accepted"))
        /\ Stage(p, q, "refresh")
     \/ /\ Receive(p, q)
        /\ SetState(q, Stages(items[q].state,
             IF Covered(fingerprint) THEN "duplicate" ELSE "rejected"))
        /\ Stage(p, q, "refresh")
        /\ UNCHANGED <<memories, events>>

\* Faulty variant: the receipt of another object under the same key is ignored.
TakenNever(key) == FALSE

\* _attempt finds a receipt under the key.
Taken(key) == receipts[key] # << >>

Select(p, q) ==
  /\ At(p, q, "select")
  /\ \/ FencedOff(p) /\ UNCHANGED faults
     \/ /\ Fenced(p)
        /\ \/ /\ Taken(items[q].key)
              /\ Stage(p, q, IF OwnReceipt(p, q) THEN "refresh" ELSE "quarantine")
              /\ UNCHANGED <<durable, faults>>
           \/ /\ ~Taken(items[q].key)
              /\ Transient(p, q)
              /\ Stage(p, q, "retry")
              /\ UNCHANGED durable
           \/ /\ ~Taken(items[q].key)
              /\ Payload[Blob(p, q)].kind = "proposal"
              /\ Commit(p, q)
              /\ UNCHANGED <<head, violations, faults>>
  /\ UNCHANGED <<provider, client, installation>>

\* process registers once more to read what was committed.
Refresh(p, q) ==
  /\ At(p, q, "refresh")
  /\ \/ FencedOff(p)
     \/ /\ Fenced(p)
        /\ Stage(p, q, IF items[q].state \in Terminal THEN "settled" ELSE "retry")
        /\ UNCHANGED durable
  /\ UNCHANGED <<provider, client, installation, faults>>
-----------------------------------------------------------------------------
\* The end of a batch: process_batch's retries, and the checkpoint.

Finished(p) ==
  /\ poll[p].pc = "batch"
  /\ \A q \in DOMAIN poll[p].work : poll[p].work[q] \in {"settled", "retry"}

\* Faulty variant: an exhausted item counts as settled.
RetriesIgnored(p) == {}

Retries(p) == {q \in DOMAIN poll[p].work : poll[p].work[q] = "retry"}

\* Faulty variant: one attempt too many.
MayRetryOnceMore(p) == poll[p].attempt <= MaxAttempts

MayRetry(p) == poll[p].attempt < MaxAttempts

RetryBatch(p) ==
  /\ Finished(p) /\ Retries(p) # {} /\ MayRetry(p)
  /\ poll' = [poll EXCEPT ![p].attempt = @ + 1,
                          ![p].work = [q \in Retries(p) |-> "register"]]
  /\ UNCHANGED <<provider, client, installation, durable, faults>>

\* Retries are exhausted: the checkpoint stays and the poll is over.
GiveUp(p) ==
  /\ Finished(p) /\ Retries(p) # {} /\ ~MayRetry(p)
  /\ Fail(p)
  /\ UNCHANGED <<provider, client, installation, durable, faults>>

\* Faulty variant: the compare-and-swap compares nothing.
HeadRacesNever(p) == FALSE

\* verified_head_race: another poller moved the checkpoint meanwhile.
HeadRaces(p) == head.commit # poll[p].trusted

Advance(p) ==
  /\ Finished(p) /\ Retries(p) = {}
  /\ IF ~Fenced(p) \/ (head.commit # poll[p].commit /\ HeadRaces(p))
       THEN Fail(p) /\ UNCHANGED head
       ELSE /\ head' = [commit |-> poll[p].commit, etag |-> poll[p].commit]
            /\ Rest(p)
  /\ UNCHANGED <<provider, client, installation, items, violations, receipts,
                 memories, events, faults>>

\* The process dies anywhere, or the operator starts a stopped one.
Crash(p) ==
  /\ poll[p].pc \notin {"idle", "stopped"}
  /\ Fault
  /\ Fail(p)
  /\ UNCHANGED <<provider, client, installation, durable>>

Start(p) ==
  /\ poll[p].pc = "stopped" /\ ~installation.revoked
  /\ Rest(p)
  /\ UNCHANGED <<provider, client, installation, durable, faults>>
-----------------------------------------------------------------------------
Item(p) == \E q \in Paths :
  \/ Register(p, q) \/ Validate(p, q) \/ Quarantine(p, q) \/ Select(p, q) \/ Refresh(p, q)

Poller(p) ==
  \/ CaptureEpoch(p) \/ LoadHead(p) \/ LoadKnown(p) \/ Snapshot(p) \/ BeginBatch(p)
  \/ Item(p) \/ RetryBatch(p) \/ GiveUp(p) \/ Advance(p)

Next ==
  \/ \E s \in budget.proposals : CreateUnique(s)
  \/ Rewrite \/ Revoke \/ Enrol
  \/ \E p \in Pollers : Poller(p) \/ Crash(p) \/ Start(p)

Spec == Init /\ [][Next]_vars
-----------------------------------------------------------------------------
\* Properties

Rows == [state : Terminal \cup {"discovered", "validated"}, commit : 1..budget.commits,
         blob : Blobs, key : Keys \cup {None}]

\* The rows and the pollers keep the shapes of their tables and objects.
TypeOK ==
  /\ tip \in 1..Len(commits) /\ Len(commits) <= budget.commits
  /\ installation \in [epoch : 1..budget.epochs, revoked : BOOLEAN]
  /\ head = NoHead \/ head.commit \in 1..Len(commits)
  /\ \A q \in Paths : items[q] = Absent \/ items[q] \in Rows
  /\ \A p \in Pollers : /\ DOMAIN poll[p].work \subseteq Paths
                         /\ poll[p].attempt \in 0..MaxAttempts
                         /\ poll[p].pc \in {"idle", "captured", "loaded", "known", "fetched",
                                           "batch", "stopped"}

\* Whatever pollers race and whatever is pushed, the checkpoint of advance only
\* moves to a tree that keeps every entry of the last one and adds proposals.
GrowsCheckpoint ==
  head # NoHead =>
    LET old == Tree(head.commit)  new == commits'[head'.commit].tree
    IN /\ \A q \in DOMAIN old : q \in DOMAIN new /\ new[q] = old[q]
       /\ DOMAIN new \ DOMAIN old \subseteq Paths

\* Everything below the checkpoint has its row, and an object that differs from what
\* register once recorded under its path is there only with a row in
\* ingress_provider_violations.
RegisteredBelow ==
  head # NoHead =>
    \A q \in DOMAIN Tree(head.commit) \cap Paths :
      /\ items[q] # Absent
      /\ items[q].blob = Tree(head.commit)[q] \/ \E v \in violations : v[1] = q

\* A poll moves the checkpoint only when every proposal of the new tree that it did not
\* know, the ones settled in an earlier attempt included, is terminal.
SettlesItsBatch ==
  \A p \in Pollers :
    head # NoHead /\ head' # head /\ poll'[p] # poll[p] =>
      \A q \in (DOMAIN Tree(head'.commit) \cap Paths) \ DOMAIN poll[p].known :
        items[q] # Absent /\ items[q].state \in Terminal

\* A row is accepted exactly when the event of its memory is in the log, one event
\* for a path and one for a fingerprint, however often and by how many pollers the
\* object was processed.
AcceptedOnce ==
  /\ \A q \in Paths :
       (items[q] # Absent /\ items[q].state = "accepted") <=> (\E e \in events : e[1] = q)
  /\ \A e, f \in events : e[1] = f[1] \/ e[2] = f[2] => e = f

\* Every row that selection decided is the one the receipt of its idempotency key
\* is bound to: no two objects are decided under one key.
DecidedByItsReceipt ==
  \A q \in Paths :
    items[q] # Absent /\ items[q].state \in {"accepted", "duplicate", "rejected"}
      => receipts[items[q].key] = <<q, items[q].commit, items[q].blob>>

\* Once terminal, a row never changes: no late decision, quarantine or second
\* poller rewrites it.
KeepsTerminal ==
  \A q \in Paths :
    items[q] # Absent /\ items[q].state \in Terminal => items'[q] = items[q]

\* No poller changes anything durable once the enrolment it captured is revoked or
\* replaced, at whatever point of its poll that happened.
EpochFence ==
  [][\A p \in Pollers :
       durable' # durable /\ poll'[p] # poll[p]
         => ~installation.revoked /\ poll[p].epoch = installation.epoch]_vars

\* A proposal is decided once: its row is accepted exactly when its event is in the log,
\* one for a path and one for a fingerprint, and the receipt of its key is bound to it
\* and to no other object, however often, by how many pollers and under which paths it
\* was processed (register, terminalize, the provenance trigger).
ProposalsDecidedOnce == AcceptedOnce /\ DecidedByItsReceipt

\* The provider head hides nothing from the tables: everything below it is registered, as
\* it is or with a recorded violation, although pollers race, die and retry; and a poll
\* moves it only over proposals that it knew from their rows or that have become
\* terminal, whoever made them so (poll_once, process_batch, advance).
HeadCovers == []RegisteredBelow /\ [][SettlesItsBatch]_vars

-----------------------------------------------------------------------------
\* A statement of the documentation that the code does not keep.

\* ADR 0004: the head advances only after every proposal discovered at the new head is
\* terminal.  Terminal rows stay, so everything below the head is terminal.
EverythingBelowIsTerminal ==
  head # NoHead =>
    \A q \in DOMAIN Tree(head.commit) \cap Paths :
      items[q] # Absent /\ items[q].state \in Terminal
=============================================================================
