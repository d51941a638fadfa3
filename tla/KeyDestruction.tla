--------------------------- MODULE KeyDestruction ---------------------------
(***************************************************************************)
(* Destruction of a sealed memory's content key: the key provider used by  *)
(* the API, the purge worker that requests a destruction, the broker that  *)
(* carries it out, the append-only ledger of destruction facts with its    *)
(* anchor, and the accepted copy of the anchor kept by the operator        *)
(* (security/local_key_provider.py, destruction_ledger.py,                 *)
(* destruction_broker.py, workers/sealed_content.py).                      *)
(*                                                                         *)
(* A process may die between any two file operations.  A file published by *)
(* _publish_once is linked under its name before its temporary name goes:  *)
(* a process that dies in between leaves the file "torn" (two links), and  *)
(* every reader refuses it.  The hash chain makes an anchor as good as the *)
(* sequence of facts it covers, and stands for that sequence here; identity *)
(* and receipt of a key never change, so a fact is its key.                *)
(***************************************************************************)
EXTENDS Naturals, Sequences, FiniteSets, Functions

CONSTANTS
  Keys,          \* content keys: naturals, in the order of their file names
  MaxAttempts,   \* claims of one purge job
  MaxRequests,   \* _MAX_REQUESTS
  MaxWork,       \* _MAX_WORK_PER_RUN
  MaxCrashes,    \* bound: processes that die
  MaxRestores,   \* bound: restores from a backup
  TornCrash      \* whether a process may die inside _publish_once

ASSUME KeysAssumption ==
  /\ Keys \subseteq Nat
  /\ MaxAttempts \in Nat /\ MaxRequests \in Nat /\ MaxWork \in Nat
  /\ MaxCrashes \in Nat /\ MaxRestores \in Nat
  /\ TornCrash \in BOOLEAN

VARIABLES
  provider,   \* the provider's files: active and destroyed records, key material
  requests,   \* the files of the request directory
  stray,      \* directories in which a dead process left a temporary file
  ledger,     \* the facts, oldest first
  anchor,     \* the anchor beside the ledger
  custody,    \* the anchor the operator has accepted
  backup,     \* a copy of the provider's files
  api,        \* the API process and the anchor it was started with
  worker,     \* the purge worker, its anchor and the job it works on
  broker,     \* the broker (or the restore reconciliation)
  db,         \* memory_content_keys: the committed state of each key
  attempts,   \* claims of each key's purge job
  crashes, restores

processes == <<api, worker, broker>>
facts == <<ledger, anchor, custody>>
bounds == <<crashes, restores>>
vars == <<provider, requests, stray, facts, backup, processes, db, attempts, bounds>>

Files == {"none", "file", "torn"}
DbStates == {"none", "active", "requested", "erased"}

KeyFiles == [active: [Keys -> Files], tomb: [Keys -> Files], material: [Keys -> Files]]

Working == {"called", "publish", "check"}
Workers == [pc: {"down", "idle"} \cup Working, key: Keys \cup {0}, cred: Seq(Keys)]

Destroying == {"record", "anchor", "tomb", "unlink", "finish"}
Brokers == [pc: {"idle", "listed", "apply", "work", "answer"} \cup Destroying,
            todo: SUBSET Keys, key: Keys \cup {0}, cred: Seq(Keys), restoring: BOOLEAN]

Facts == Range(ledger)
NewestFact == ledger[Len(ledger)]

\* An anchor's hash chain leads to t: t begins with s.
IsPrefix(s, t) == Len(s) <= Len(t) /\ \A i \in 1..Len(s) : s[i] = t[i]
Requested == {k \in Keys : requests[k] # "none"}

NoFiles == [k \in Keys |-> "none"]
NoKeys == [active |-> NoFiles, tomb |-> NoFiles, material |-> NoFiles]
NoBroker == [pc |-> "idle", todo |-> {}, key |-> 0, cred |-> <<>>, restoring |-> FALSE]

Init ==
  /\ provider = NoKeys /\ backup = NoKeys
  /\ requests = NoFiles
  /\ stray = {}
  /\ ledger = <<>> /\ anchor = <<>> /\ custody = <<>>
  /\ api = [up |-> FALSE, cred |-> <<>>]
  /\ worker = [pc |-> "down", key |-> 0, cred |-> <<>>]
  /\ broker = NoBroker
  /\ db = [k \in Keys |-> "none"]
  /\ attempts = [k \in Keys |-> 0]
  /\ crashes = 0 /\ restores = 0

----------------------------------------------------------------------------
(* Locks and checks.                                                        *)

\* The broker holds the ledger exclusively while it appends, and the control
\* directory while it destroys a key.  Everyone else's use of them is one step.
LedgerFree == broker.pc # "anchor"
ControlFree == broker.pc \notin Destroying

\* A ledger directory that _records can read: every name in it is a fact.
Legible == "ledger" \notin stray

\* Faulty variant of Trusted: the accepted anchor is not compared.
TrustedLocally(c) == LedgerFree /\ Legible /\ anchor = ledger

\* _require_current_anchor_locked, for a process started with anchor c.
Trusted(c) ==
  /\ LedgerFree
  /\ Legible
  /\ anchor = ledger
  /\ IsPrefix(c, ledger)

\* _validate_provider_destruction_consistency
Consistent ==
  \A k \in Keys : provider.tomb[k] # "none" => provider.tomb[k] = "file" /\ k \in Facts

\* Faulty variant of GetKey: the ledger is not looked up.
GetKeyFromFiles(k, c) == provider.active[k] = "file" /\ provider.material[k] = "file"

\* What get_key needs to return the key to a process started with anchor c.
GetKey(k, c) ==
  /\ Trusted(c)
  /\ k \notin Facts
  /\ provider.tomb[k] = "none"
  /\ provider.active[k] = "file"
  /\ provider.material[k] = "file"

\* First of a set of numbers: records and requests are taken in order.
IsFirst(i, S) == i \in S /\ \A j \in S : i <= j

Dies == crashes < MaxCrashes /\ crashes' = crashes + 1

----------------------------------------------------------------------------
(* The API: provider construction, provision_key, the forget command.       *)

ApiStart ==
  /\ ~api.up
  /\ Trusted(custody)
  /\ Consistent
  /\ api' = [up |-> TRUE, cred |-> custody]
  /\ UNCHANGED <<provider, requests, stray, facts, backup, worker, broker, db, attempts, bounds>>

ApiStop ==
  /\ api.up
  /\ api' = [api EXCEPT !.up = FALSE]
  /\ UNCHANGED <<provider, requests, stray, facts, backup, worker, broker, db, attempts, bounds>>

ProvisionAccepts(k) ==
  /\ api.up
  /\ db[k] = "none"
  /\ ControlFree
  /\ Trusted(api.cred)
  /\ k \notin Facts
  /\ provider.tomb[k] = "none"

\* Both files exist and are whole before the nomination's transaction commits or rolls
\* back.  A record or material that is there already is kept.
Provision(k) ==
  /\ ProvisionAccepts(k)
  /\ provider.active[k] # "torn" /\ provider.material[k] # "torn"
  /\ provider' = [provider EXCEPT !.active[k] = "file", !.material[k] = "file"]
  /\ db' \in {db, [db EXCEPT ![k] = "active"]}
  /\ UNCHANGED <<requests, stray, facts, backup, processes, attempts, bounds>>

\* The files an interrupted provision_key can leave: the record first, then the material.
HalfProvisioned(k) ==
  LET recorded == [provider EXCEPT !.active[k] = "file"] IN
  {recorded} \cup
  {p \in {[provider EXCEPT !.active[k] = "torn"]} : TornCrash /\ provider.active[k] = "none"}
  \cup {p \in {[recorded EXCEPT !.material[k] = "torn"]} :
           TornCrash /\ provider.material[k] = "none"}

ProvisionDies(k) ==
  /\ ProvisionAccepts(k)
  /\ provider.active[k] # "torn"
  /\ provider' \in HalfProvisioned(k)
  /\ api' = [api EXCEPT !.up = FALSE]
  /\ Dies
  /\ UNCHANGED <<requests, stray, facts, backup, worker, broker, db, attempts, restores>>

\* A hard forget commits the tombstone, the requested destruction and the purge job.
Forget(k) ==
  /\ db[k] = "active"
  /\ db' = [db EXCEPT ![k] = "requested"]
  /\ UNCHANGED <<provider, requests, stray, facts, backup, processes, attempts, bounds>>

----------------------------------------------------------------------------
(* The purge worker: handle_purge_payload_job and the requester it calls.   *)

WorkerStart ==
  /\ worker.pc = "down"
  /\ Trusted(custody)
  /\ worker' = [pc |-> "idle", key |-> 0, cred |-> custody]
  /\ UNCHANGED <<provider, requests, stray, facts, backup, api, broker, db, attempts, bounds>>

WorkerStop ==
  /\ worker.pc = "idle"
  /\ worker' = [worker EXCEPT !.pc = "down"]
  /\ UNCHANGED <<provider, requests, stray, facts, backup, api, broker, db, attempts, bounds>>

\* Faulty variant of WorkerClaim: claims are not counted against a limit.
WorkerClaimForever(k) ==
  /\ worker.pc = "idle"
  /\ db[k] = "requested"
  /\ worker' = [worker EXCEPT !.pc = "called", !.key = k]
  /\ attempts' = [attempts EXCEPT ![k] = @ + 1]
  /\ UNCHANGED <<provider, requests, stray, facts, backup, api, broker, db, bounds>>

\* Faulty variant of WorkerClaim: the state of the key is not checked.
WorkerClaimAny(k) ==
  /\ worker.pc = "idle"
  /\ db[k] # "none"
  /\ attempts[k] < MaxAttempts
  /\ worker' = [worker EXCEPT !.pc = "called", !.key = k]
  /\ attempts' = [attempts EXCEPT ![k] = @ + 1]
  /\ UNCHANGED <<provider, requests, stray, facts, backup, api, broker, db, bounds>>

\* A claim counts as an attempt whatever becomes of it.
WorkerClaim(k) ==
  /\ worker.pc = "idle"
  /\ db[k] = "requested"
  /\ attempts[k] < MaxAttempts
  /\ worker' = [worker EXCEPT !.pc = "called", !.key = k]
  /\ attempts' = [attempts EXCEPT ![k] = @ + 1]
  /\ UNCHANGED <<provider, requests, stray, facts, backup, api, broker, db, bounds>>

\* _require_completed
Completed(k) ==
  /\ provider.active[k] = "none"
  /\ provider.tomb[k] = "file"
  /\ provider.material[k] = "none"

\* Faulty variant of Acknowledged: a fact of the ledger is enough.
AcknowledgedLocally(k, c) == k \in Facts /\ Completed(k)

\* The requester answers with the receipt only for a fact the operator has accepted:
\* require_anchor wants the worker's own anchor to be the whole ledger.
Acknowledged(k, c) ==
  /\ k \in Facts
  /\ ledger = c
  /\ Completed(k)

\* First lookup, no fact yet: a request will be published from the active record.
WorkerPublish ==
  LET k == worker.key IN
  /\ worker.pc = "called"
  /\ ControlFree
  /\ Trusted(worker.cred) /\ k \notin Facts /\ provider.active[k] = "file"
  /\ worker' = [worker EXCEPT !.pc = "publish"]
  /\ UNCHANGED <<provider, requests, stray, facts, backup, api, broker, db, attempts, bounds>>

WorkerPublished ==
  LET k == worker.key IN
  /\ worker.pc = "publish"
  /\ requests' = [requests EXCEPT ![k] = IF @ = "none" THEN "file" ELSE @]
  /\ worker' = [worker EXCEPT !.pc = "check"]
  /\ UNCHANGED <<provider, stray, facts, backup, api, broker, db, attempts, bounds>>

\* A destroyed key: the transaction records the erasure, or fails to commit.
WorkerComplete ==
  LET k == worker.key IN
  /\ worker.pc \in {"called", "check"}
  /\ ControlFree
  /\ Trusted(worker.cred) /\ Acknowledged(k, worker.cred)
  /\ db' \in {db, [db EXCEPT ![k] = "erased"]}
  /\ worker' = [worker EXCEPT !.pc = "idle"]
  /\ UNCHANGED <<provider, requests, stray, facts, backup, api, broker, attempts, bounds>>

\* Every other outcome is dependency_unavailable: the job waits for another claim.
WorkerFail ==
  LET k == worker.key IN
  /\ worker.pc \in {"called", "check"}
  /\ ControlFree
  /\ ~(Trusted(worker.cred) /\ Acknowledged(k, worker.cred))
  /\ worker.pc = "called" =>
       ~(Trusted(worker.cred) /\ k \notin Facts /\ provider.active[k] = "file")
  /\ worker' = [worker EXCEPT !.pc = "idle"]
  /\ UNCHANGED <<provider, requests, stray, facts, backup, api, broker, db, attempts, bounds>>

\* Death of the worker; while it publishes, its temporary file stays behind and the
\* request may be torn.
WorkerDies ==
  /\ worker.pc \in Working
  /\ IF worker.pc = "publish" THEN
       /\ TornCrash
       /\ stray' = stray \cup {"requests"}
       /\ requests' \in {requests, [requests EXCEPT ![worker.key] =
                                      IF @ = "none" THEN "torn" ELSE @]}
     ELSE UNCHANGED <<stray, requests>>
  /\ worker' = [worker EXCEPT !.pc = "down"]
  /\ Dies
  /\ UNCHANGED <<provider, facts, backup, api, broker, db, attempts, restores>>

----------------------------------------------------------------------------
(* The broker: reconcile_destruction_requests.  A run that meets anything   *)
(* it does not expect ends; the path unit starts another.                   *)

BrokerStep(pc) == broker' = [broker EXCEPT !.pc = pc]
Abort == broker' = NoBroker

\* The run reads all requests first.  Any other file in the directory, a temporary one
\* included, ends it.
BrokerStart ==
  /\ broker.pc = "idle"
  /\ "requests" \notin stray /\ worker.pc # "publish"
  /\ \A k \in Requested : requests[k] = "file"
  /\ Cardinality(Requested) <= MaxRequests
  /\ broker' = [NoBroker EXCEPT !.pc = "listed", !.todo = Requested, !.cred = custody]
  /\ UNCHANGED <<provider, requests, stray, facts, backup, api, worker, db, attempts, bounds>>

\* Faulty variant of Recoverable: a pending fact is not adopted.
RecoverableNever == anchor = ledger

\* recover_authorized_pending_append: the anchor is current, or behind by one fact that
\* some request authorizes.
Recoverable ==
  \/ anchor = ledger
  \/ /\ Len(ledger) = Len(anchor) + 1
     /\ IsPrefix(anchor, ledger)
     /\ NewestFact \in broker.todo

BrokerRecover ==
  /\ broker.pc = "listed"
  /\ IF Legible /\ IsPrefix(broker.cred, ledger) /\ Recoverable
     THEN anchor' = ledger /\ BrokerStep("apply")
     ELSE Abort /\ UNCHANGED anchor
  /\ UNCHANGED <<provider, requests, stray, ledger, custody, backup, api, worker,
                 db, attempts, bounds>>

\* _reconcile_destruction_ledger: every fact in turn is applied to the provider's files.
Unapplied == {i \in DOMAIN ledger : ~Completed(ledger[i])}

\* One file operation of _apply_ledger_entry: material, tombstone, active record.
Apply(k) ==
  CASE provider.material[k] # "none" ->
         provider' = [provider EXCEPT !.material[k] = "none"] /\ UNCHANGED broker
    [] provider.material[k] = "none" /\ "torn" \in {provider.active[k], provider.tomb[k]} ->
         Abort /\ UNCHANGED provider
    [] provider.material[k] = "none" /\ provider.tomb[k] = "none"
       /\ provider.active[k] # "torn" ->
         provider' = [provider EXCEPT !.tomb[k] = "file"] /\ UNCHANGED broker
    [] OTHER ->
         provider' = [provider EXCEPT !.active[k] = "none"] /\ UNCHANGED broker

BrokerApply ==
  /\ broker.pc = "apply"
  /\ \E i \in Unapplied : IsFirst(i, Unapplied) /\ Apply(ledger[i])
  /\ UNCHANGED <<requests, stray, facts, backup, api, worker, db, attempts, bounds>>

\* The lowest n members of a set of keys: requests are taken in the order of names.
Lowest(S, n) == {k \in S : Cardinality({l \in S : l < k}) < n}

\* With every fact applied the run checks the tombstones and every request before it
\* destroys anything.
BrokerValidate ==
  /\ broker.pc = "apply"
  /\ Unapplied = {}
  /\ IF Consistent /\ ~broker.restoring
        /\ \A k \in broker.todo \ Facts : provider.active[k] = "file"
     THEN broker' = [broker EXCEPT !.pc = "work", !.todo = Lowest(@, MaxWork)]
     ELSE Abort
  /\ UNCHANGED <<provider, requests, stray, facts, backup, api, worker, db, attempts, bounds>>

\* Faulty variant of BrokerTake: the tombstone is published before the fact.
BrokerTakeTombFirst ==
  /\ broker.pc = "work"
  /\ \E k \in broker.todo :
     /\ IsFirst(k, broker.todo) /\ k \notin Facts
     /\ provider' = [provider EXCEPT !.tomb[k] = "file"]
     /\ broker' = [broker EXCEPT !.pc = "record", !.key = k]
  /\ UNCHANGED <<requests, stray, facts, backup, api, worker, db, attempts, bounds>>

\* Faulty variant of BrokerTake: the request goes when it is taken.
BrokerTakeConsumes ==
  /\ broker.pc = "work"
  /\ \E k \in broker.todo :
     /\ IsFirst(k, broker.todo) /\ k \notin Facts
     /\ requests' = [requests EXCEPT ![k] = "none"]
     /\ broker' = [broker EXCEPT !.pc = "record", !.key = k]
  /\ UNCHANGED <<provider, stray, facts, backup, api, worker, db, attempts, bounds>>

\* destroy_requested_key under the control lock, unless the fact is there already.
BrokerTake ==
  /\ broker.pc = "work"
  /\ \E k \in broker.todo :
       /\ IsFirst(k, broker.todo)
       /\ IF k \in Facts THEN broker' = [broker EXCEPT !.pc = "answer", !.key = k]
          ELSE IF provider.tomb[k] = "none" /\ provider.active[k] = "file"
          THEN broker' = [broker EXCEPT !.pc = "record", !.key = k]
          ELSE Abort
  /\ UNCHANGED <<provider, requests, stray, facts, backup, api, worker, db, attempts, bounds>>

BrokerRecord ==
  /\ broker.pc = "record"
  /\ ledger' = Append(ledger, broker.key)
  /\ BrokerStep("anchor")
  /\ UNCHANGED <<provider, requests, stray, anchor, custody, backup, api, worker,
                 db, attempts, bounds>>

BrokerAnchor ==
  /\ broker.pc = "anchor"
  /\ anchor' = ledger
  /\ BrokerStep("tomb")
  /\ UNCHANGED <<provider, requests, stray, ledger, custody, backup, api, worker,
                 db, attempts, bounds>>

\* Faulty variant of BrokerTomb: every request at hand is finished with the first fact.
BrokerTombBatch ==
  /\ broker.pc = "tomb"
  /\ provider' = [provider EXCEPT !.tomb = [k \in Keys |-> IF k \in Requested THEN "file" ELSE @[k]]]
  /\ BrokerStep("unlink")
  /\ UNCHANGED <<requests, stray, facts, backup, api, worker, db, attempts, bounds>>

BrokerTomb ==
  /\ broker.pc = "tomb"
  /\ provider' = [provider EXCEPT !.tomb[broker.key] = "file"]
  /\ BrokerStep("unlink")
  /\ UNCHANGED <<requests, stray, facts, backup, api, worker, db, attempts, bounds>>

BrokerUnlink ==
  /\ broker.pc = "unlink"
  /\ provider' = [provider EXCEPT !.material[broker.key] = "none"]
  /\ BrokerStep("finish")
  /\ UNCHANGED <<requests, stray, facts, backup, api, worker, db, attempts, bounds>>

BrokerFinish ==
  /\ broker.pc = "finish"
  /\ provider' = [provider EXCEPT !.active[broker.key] = "none"]
  /\ BrokerStep("answer")
  /\ UNCHANGED <<requests, stray, facts, backup, api, worker, db, attempts, bounds>>

\* The request goes once the ledger vouches for it.
BrokerAnswer ==
  /\ broker.pc = "answer"
  /\ IF Trusted(broker.cred)
     THEN /\ requests' = [requests EXCEPT ![broker.key] = "none"]
          /\ broker' = [broker EXCEPT !.pc = "work", !.todo = @ \ {broker.key}]
     ELSE Abort /\ UNCHANGED requests
  /\ UNCHANGED <<provider, stray, facts, backup, api, worker, db, attempts, bounds>>

BrokerDone ==
  /\ broker.pc = "work" /\ broker.todo = {}
  /\ Abort
  /\ UNCHANGED <<provider, requests, stray, facts, backup, api, worker, db, attempts, bounds>>

\* What a broker that dies inside _publish_once leaves: in the ledger a temporary file
\* beside the fact or without it, in the control directory a torn tombstone.
TornLedger ==
  /\ broker.pc = "record"
  /\ stray' = stray \cup {"ledger"}
  /\ ledger' \in {ledger, Append(ledger, broker.key)}
  /\ UNCHANGED provider

TornTomb ==
  /\ UNCHANGED <<stray, ledger>>
  /\ \E k \in Facts :
       /\ \/ broker.pc = "tomb" /\ k = broker.key
          \/ /\ broker.pc = "apply"
             /\ \E i \in Unapplied : IsFirst(i, Unapplied) /\ k = ledger[i]
             /\ provider.material[k] = "none" /\ provider.active[k] # "torn"
       /\ provider.tomb[k] = "none"
       /\ provider' = [provider EXCEPT !.tomb[k] = "torn"]

BrokerDies ==
  /\ broker.pc # "idle"
  /\ \/ UNCHANGED <<provider, stray, ledger>>
     \/ TornCrash /\ (TornLedger \/ TornTomb)
  /\ Abort
  /\ Dies
  /\ UNCHANGED <<requests, anchor, custody, backup, api, worker, db, attempts, restores>>

----------------------------------------------------------------------------
(* Operator: custody of the anchor, backups and restores.  No process runs  *)
(* while files are restored.                                                *)

\* The operator verifies the ledger and installs its anchor as the accepted one.
AcceptAnchor ==
  /\ Trusted(custody)
  /\ custody # anchor
  /\ custody' = anchor
  /\ UNCHANGED <<provider, requests, stray, ledger, anchor, backup, processes,
                 db, attempts, bounds>>

BackUp ==
  /\ broker.pc = "idle"
  /\ backup # provider /\ restores < MaxRestores
  /\ \A k \in Keys : "torn" \notin {provider.active[k], provider.tomb[k], provider.material[k]}
  /\ backup' = provider
  /\ UNCHANGED <<provider, requests, stray, facts, processes, db, attempts, bounds>>

Stopped == ~api.up /\ worker.pc = "down" /\ broker.pc = "idle"

\* A provider backup comes back; the ledger is a separate object.
RestoreProvider ==
  /\ Stopped
  /\ restores < MaxRestores /\ restores' = restores + 1
  /\ provider' = backup
  /\ UNCHANGED <<requests, stray, facts, backup, processes, db, attempts, crashes>>

\* An old copy of ledger and anchor comes back; the operator's anchor is kept apart.
RollBackLedger ==
  /\ Stopped
  /\ restores < MaxRestores /\ restores' = restores + 1
  /\ \E n \in 0..Len(anchor) :
       ledger' = SubSeq(anchor, 1, n) /\ anchor' = ledger'
  /\ stray' = stray \ {"ledger"}
  /\ UNCHANGED <<provider, requests, custody, backup, processes, db, attempts, crashes>>

\* reconcile_restored_local_key_provider, after a restore and with nothing else running.
RestoreReconcile ==
  /\ Stopped /\ restores > 0
  /\ Trusted(custody)
  /\ broker' = [NoBroker EXCEPT !.pc = "apply", !.cred = custody, !.restoring = TRUE]
  /\ UNCHANGED <<provider, requests, stray, facts, backup, api, worker, db, attempts, bounds>>

----------------------------------------------------------------------------
Api == ApiStart \/ ApiStop \/ \E k \in Keys : Provision(k) \/ ProvisionDies(k) \/ Forget(k)

WorkerRuns ==
  \/ WorkerPublish \/ WorkerPublished \/ WorkerComplete \/ WorkerFail
  \/ \E k \in Keys : WorkerClaim(k)

BrokerRuns ==
  \/ BrokerStart \/ BrokerRecover \/ BrokerApply \/ BrokerValidate \/ BrokerTake
  \/ BrokerRecord \/ BrokerAnchor \/ BrokerTomb \/ BrokerUnlink \/ BrokerFinish
  \/ BrokerAnswer \/ BrokerDone

Operator == AcceptAnchor \/ BackUp \/ RestoreProvider \/ RollBackLedger \/ RestoreReconcile

Next ==
  \/ Api \/ WorkerStart \/ WorkerStop \/ WorkerRuns \/ WorkerDies
  \/ BrokerRuns \/ BrokerDies \/ Operator

Spec == Init /\ [][Next]_vars

\* The path unit restarts the broker as long as there are requests, and a started run
\* goes on; a running worker finishes the publication it is in.
BrokerFairness == WF_vars(BrokerRuns) /\ WF_vars(WorkerPublished)

BrokerSpec == Spec /\ BrokerFairness

----------------------------------------------------------------------------
\* Files, facts and processes have the shapes the code gives them.
TypeOK ==
  /\ provider \in KeyFiles /\ backup \in KeyFiles
  /\ requests \in [Keys -> Files]
  /\ stray \subseteq {"ledger", "requests"}
  /\ ledger \in Seq(Keys) /\ anchor \in Seq(Keys) /\ custody \in Seq(Keys)
  /\ api \in [up: BOOLEAN, cred: Seq(Keys)]
  /\ worker \in Workers
  /\ broker \in Brokers
  /\ db \in [Keys -> DbStates]
  /\ attempts \in [Keys -> 0..MaxAttempts]
  /\ crashes \in 0..MaxCrashes /\ restores \in 0..MaxRestores

\* ADR 0028, "it cannot make the DEK readable": once a memory is recorded as erased,
\* get_key returns its key to nobody, neither to the running API nor to one started
\* now, whatever died, whichever provider files or ledger copy were restored.
NoResurrection ==
  \A k \in Keys : db[k] = "erased" =>
    /\ api.up => ~GetKey(k, api.cred)
    /\ ~GetKey(k, custody)

\* An erasure is recorded only for a fact under the operator's own anchor: a fact that
\* the local files alone vouch for never completes a purge.
ErasedIsAccepted ==
  \A k \in Keys : db[k] = "erased" => k \in Range(custody)

\* ADR 0028, ordering: the fact is durable before key material or active record goes,
\* and no tombstone stands without its fact, at whatever point a process dies.
FactFirst ==
  restores = 0 =>
    \A k \in Keys \ Facts :
      /\ provider.tomb[k] = "none"
      /\ db[k] # "none" => provider.active[k] = "file" /\ provider.material[k] = "file"

\* Only what was forgotten is destroyed: a fact or a request exists for no other key.
OnlyForgotten ==
  \A k \in Keys : k \in Facts \cup Requested => db[k] \in {"requested", "erased"}

\* An interrupted append is always one that recovery may adopt: the ledger is ahead of
\* its anchor by at most one fact, and that fact's request is still there.
PendingIsAuthorized ==
  anchor # ledger =>
    /\ Len(ledger) = Len(anchor) + 1
    /\ IsPrefix(anchor, ledger)
    /\ requests[NewestFact] # "none"

\* Several forgets at once keep the order of facts, files and requests: a fact, a request
\* or a tombstone of one memory's key is never made for another's.
KeysSafe == TypeOK /\ FactFirst /\ OnlyForgotten /\ PendingIsAuthorized

\* A published request is carried out: the broker destroys the key although it dies and
\* starts again and takes only MaxWork requests in a run.
RequestsServed ==
  \A k \in Keys : requests[k] = "file" ~> requests[k] = "none" /\ Completed(k) /\ k \in Facts
=============================================================================
