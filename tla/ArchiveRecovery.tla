-------------------------- MODULE ArchiveRecovery --------------------------
(***************************************************************************)
(* kivra-memory-archive-recovery: the operator's commands bundle-create,   *)
(* bundle-materialize, restore-database and continue-new-target, run by    *)
(* several operators at once, while the source branch moves, files and     *)
(* directories are replaced, commands die, and services already write to   *)
(* the restored database.  The command verify changes nothing: it is the   *)
(* guard Verified that the others start with.  A command that raises exits *)
(* with 2 and what it had done on disk stays.                              *)
(***************************************************************************)
EXTENDS ArchiveTrust

CONSTANTS
  Operators,
  Branches,    \* histories the source branch may be at
  Settings,    \* recovery configurations operators hold
  TargetIds,   \* the target ids operators pass, each with its own target name
  Budgets      \* bounds per behaviour: the kinds and number of commands, moves, swaps, writes

VARIABLES
  source,    \* the recovery clone: the branch, and every history whose objects it has
  bundle,    \* the encrypted bundle at its destination path: its history, or <<>>
  output,    \* the materialized repository at its path, or <<>>
  target,    \* the bare target: its directory's inode, objects, and branch or <<>>
  db,        \* the recovery database: events, next sequence, embedding jobs
  targets,   \* rows of archive_targets with their reconstructed checkpoint
  proved,    \* histories accepted by append_and_prove_continuation, with their base
  op,        \* the command each operator runs
  budget     \* what is left of the bounds

vars == <<source, bundle, output, target, db, targets, proved, op, budget>>

Reachable(h) == {SubSeq(h, 1, i) : i \in DOMAIN h}

EmptyTarget(inode) == [inode |-> inode, objects |-> {}, ref |-> <<>>]

Idle == [pc |-> "idle", s |-> <<>>, held |-> <<>>, inode |-> 0, id |-> 0]

Init ==
  /\ source \in {[branch |-> b, objects |-> Reachable(b)] : b \in Branches}
  /\ bundle = <<>> /\ output = <<>>
  /\ target = EmptyTarget(1)
  /\ db = [events |-> <<>>, next |-> 1, jobs |-> {}]
  /\ targets = {} /\ proved = {}
  /\ op = [o \in Operators |-> Idle]
  /\ budget \in Budgets

\* A bounded step.
Spend(what) == budget[what] > 0 /\ budget' = [budget EXCEPT ![what] = @ - 1]

Exit(o) == op' = [op EXCEPT ![o] = Idle]
Goto(o, pc) == op' = [op EXCEPT ![o].pc = pc]

files == <<source, bundle, output, target>>
database == <<db, targets>>

\* main: a command whose settings load and whose source verifies begins.
Begin(o, pc, s) ==
  /\ op[o].pc = "idle"
  /\ pc \in budget.kinds /\ Spend("commands")
  /\ Loads(s) /\ Verified(source.branch, s)
  /\ op' = [op EXCEPT ![o] = [Idle EXCEPT !.pc = pc, !.s = s]]
  /\ UNCHANGED <<files, database, proved>>

----------------------------------------------------------------------------
(* bundle-create and bundle-materialize.                                    *)

\* _require_new_output, and the second read of the source.
BundleStage(o) ==
  /\ op[o].pc = "create"
  /\ bundle = <<>>
  /\ ReadsArchive(source.branch, op[o].s)
  /\ VerifiesEpochs(source.branch, op[o].s.epochs)
  /\ Goto(o, "fetch")
  /\ UNCHANGED <<files, database, proved, budget>>

\* The exact head is fetched, bundled, verified and encrypted in scratch.
BundleFetch(o) ==
  /\ op[o].pc = "fetch"
  /\ op[o].s.head \in source.objects
  /\ op' = [op EXCEPT ![o].pc = "publish", ![o].held = op[o].s.head]
  /\ UNCHANGED <<files, database, proved, budget>>

\* _publish_new_file: the complete file is linked to a name that must be free.
Publish(o) ==
  /\ op[o].pc = "publish"
  /\ bundle' = IF bundle = <<>> THEN op[o].held ELSE bundle
  /\ Exit(o)
  /\ UNCHANGED <<source, output, target, database, proved, budget>>

\* bundle-materialize starts with the digest the operator was given; the source of
\* its settings is not read.
HashBundle(o, s) ==
  /\ op[o].pc = "idle"
  /\ Spend("commands")
  /\ Loads(s)
  /\ bundle # <<>> /\ output = <<>>
  /\ op' = [op EXCEPT ![o] = [Idle EXCEPT !.pc = "decrypt", !.s = s]]
  /\ UNCHANGED <<files, database, proved>>

\* Faulty variant of Decrypt: what was decrypted is not read back.
DecryptUnread(o) ==
  /\ op[o].pc = "decrypt"
  /\ bundle # <<>>
  /\ op' = [op EXCEPT ![o].pc = "rename", ![o].held = bundle]
  /\ UNCHANGED <<files, database, proved, budget>>

\* age reads the file again, by its path.  The clone must be at the anchored head and
\* its history signed.
Decrypt(o) ==
  /\ op[o].pc = "decrypt"
  /\ bundle # <<>>
  /\ ReadsArchive(bundle, op[o].s)
  /\ VerifiesEpochs(bundle, op[o].s.epochs)
  /\ op' = [op EXCEPT ![o].pc = "rename", ![o].held = bundle]
  /\ UNCHANGED <<files, database, proved, budget>>

\* os.rename to the output path, which fails on a directory with something in it.  The
\* full verification of the settings follows: its failure leaves the output there.
Rename(o) ==
  /\ op[o].pc = "rename"
  /\ output' = IF output = <<>> THEN op[o].held ELSE output
  /\ Exit(o)
  /\ UNCHANGED <<source, bundle, target, database, proved, budget>>

----------------------------------------------------------------------------
(* restore-database: one transaction at READ COMMITTED.                     *)

\* _require_clean_database and assert_clean_restore_destination
RequireClean(o) ==
  /\ op[o].pc = "restore"
  /\ PlansRestore(op[o].s.head)
  /\ db.events = <<>> /\ db.next = 1
  /\ Goto(o, "insert")
  /\ UNCHANGED <<files, database, proved, budget>>

\* CoreRestoreDecoder.decode: the rows of the snapshot, then the later events.
DecodedEvents(h) == SnapshotEvents(h) \o LaterEvents(h)

\* Faulty variant of RestoreRows: only what is replayed is queued.
RestoreRowsUnqueued(h) ==
  [events |-> DecodedEvents(h), next |-> Last(h).last + 1,
   jobs |-> {e[1] : e \in ToSet(LaterEvents(h))}]

\* Faulty variant of RestoreRows: the counter is one too far.
RestoreRowsSkipping(h) ==
  [events |-> DecodedEvents(h), next |-> Last(h).last + 2,
   jobs |-> 1..Last(h).last]

\* restore_archive_rows, the rebuilt projections and their embedding jobs: the
\* events are about one memory each.
RestoreRows(h) ==
  [events |-> DecodedEvents(h), next |-> Last(h).last + 1,
   jobs |-> 1..Last(h).last]

\* _HighWaterVerifier: as many events as the last one's sequence.
HighWaterHolds(rows, h) ==
  Len(rows.events) = Last(h).last /\ Last(rows.events)[1] = Last(h).last

\* restore_validated_archive: another transaction's rows make the inserts fail;
\* otherwise the restored prefix is counted and the transaction commits.
RestoreDatabase(o) ==
  /\ op[o].pc = "insert"
  /\ LET rows == RestoreRows(op[o].s.head) IN
       db' = IF db.events = <<>> /\ HighWaterHolds(rows, op[o].s.head) THEN rows ELSE db
  /\ Exit(o)
  /\ UNCHANGED <<files, targets, proved, budget>>

----------------------------------------------------------------------------
(* continue-new-target.  Every Git call is made between two looks at the    *)
(* directory's identity: one replaced in between gets the call's effect,    *)
(* and the command stops.                                                   *)

Pinned(o) == target.inode = op[o].inode
Proceed(o, pc) == op' = [op EXCEPT ![o] = IF Pinned(o) THEN [op[o] EXCEPT !.pc = pc] ELSE Idle]

\* _require_safe_directory and _require_empty_bare_target
RequireEmpty(o) ==
  /\ op[o].pc = "continue"
  /\ target.ref = <<>> /\ target.objects = {}
  /\ op' = [op EXCEPT ![o].pc = "copy", ![o].inode = target.inode]
  /\ UNCHANGED <<files, database, proved, budget>>

\* fetch and fsck of the exact head
CopyObjects(o) ==
  /\ op[o].pc = "copy"
  /\ op[o].s.head \in source.objects
  /\ target' = [target EXCEPT !.objects = @ \cup Reachable(op[o].s.head)]
  /\ Proceed(o, "ref")
  /\ UNCHANGED <<source, bundle, output, database, proved, budget>>

\* Faulty variant of UpdateRef: a branch already at the head is fine too.
UpdateRefAgain(o) ==
  /\ op[o].pc = "ref"
  /\ target.ref \in {<<>>, op[o].s.head}
  /\ target' = [target EXCEPT !.ref = op[o].s.head]
  /\ Proceed(o, "check")
  /\ UNCHANGED <<source, bundle, output, database, proved, budget>>

\* update-ref expects that there is no such reference yet.
UpdateRef(o) ==
  /\ op[o].pc = "ref"
  /\ target.ref = <<>>
  /\ target' = [target EXCEPT !.ref = op[o].s.head]
  /\ Proceed(o, "check")
  /\ UNCHANGED <<source, bundle, output, database, proved, budget>>

\* The reference, the object closure, no other object; then copy_and_verify_new_target
\* reads the copy back, verifies it and compares it with the source.
CheckCopy(o) ==
  /\ op[o].pc = "check"
  /\ Pinned(o)
  /\ target.objects = Reachable(op[o].s.head)
  /\ ReadsArchive(target.ref, op[o].s)
  /\ VerifiesEpochs(target.ref, op[o].s.epochs)
  /\ Goto(o, "database")
  /\ UNCHANGED <<files, database, proved, budget>>

\* try_acquire_archive_target_lock: held to the end of the transaction.
TargetLocked(id) == \E p \in Operators : op[p].pc = "reconstruct" /\ op[p].id = id

\* _require_restored_database, the target's lock, and no target of the same id, name
\* or repository.
DatabasePreflight(o, id) ==
  /\ op[o].pc = "database"
  /\ PlansRestore(op[o].s.head)
  /\ db.next = op[o].s.high + 1
  /\ ~TargetLocked(id)
  /\ targets = {}
  /\ op' = [op EXCEPT ![o].pc = "reconstruct", ![o].id = id]
  /\ UNCHANGED <<files, database, proved, budget>>

\* Faulty variant of MatchesPrefix: the count of the events is enough.
MatchesCount(h) == Len(db.events) >= Last(h).last

\* The locked counter, and every event, byte for byte.
MatchesPrefix(h) == db.next = Last(h).last + 1 /\ db.events = Events(h)

\* Under the lock on the event counter the prefix is compared again; the target is
\* inserted, disabled, and its checkpoint prepared and committed.
ReconstructCheckpoint(o) ==
  /\ op[o].pc = "reconstruct"
  /\ MatchesPrefix(op[o].s.head)
  /\ \A t \in targets : t.id # op[o].id
  /\ targets' = targets \cup
       {[id |-> op[o].id, inode |-> op[o].inode, head |-> op[o].s.head,
         high |-> Len(db.events), state |-> "disabled"]}
  /\ Exit(o)
  /\ UNCHANGED <<files, db, proved, budget>>

\* prove_one_normal_append
OneNormalAppend(before, after) ==
  /\ Len(after) = Len(before) + 1
  /\ Front(after) = before
  /\ Last(after).first = Last(before).last + 1

\* append_and_prove_continuation, after the appender has returned.
ProveAppend(s) ==
  /\ \E t \in targets : t.head = s.head
  /\ target.ref # <<>>
  /\ ReadsArchive(target.ref, [s EXCEPT !.head = target.ref])
  /\ VerifiesEpochs(target.ref, s.epochs)
  /\ OneNormalAppend(s.head, target.ref)
  /\ proved' = proved \cup {[base |-> s.head, head |-> target.ref]}
  /\ UNCHANGED <<files, database, op, budget>>

----------------------------------------------------------------------------
(* Everything else.                                                         *)

\* The command raises, or is killed.
Stop(o) ==
  /\ op[o].pc # "idle"
  /\ Exit(o)
  /\ UNCHANGED <<files, database, proved, budget>>

\* The source branch moves: a push, an older copy, another history.
MoveBranch(b) ==
  /\ Spend("moves")
  /\ b # source.branch
  /\ source' = [branch |-> b, objects |-> source.objects \cup Reachable(b)]
  /\ UNCHANGED <<bundle, output, target, database, proved, op>>

\* The file at the bundle's path is replaced by another bundle.
SwapBundle(b) ==
  /\ Spend("swaps")
  /\ bundle # <<>>
  /\ bundle' = b
  /\ UNCHANGED <<source, output, target, database, proved, op>>

\* The target directory is replaced by a new empty repository.
RecreateTarget ==
  /\ Spend("swaps")
  /\ target' = EmptyTarget(target.inode + 1)
  /\ UNCHANGED <<source, bundle, output, database, proved, op>>

\* A service commits an event to the restored database; a taken sequence is refused.
Write ==
  /\ Spend("writes")
  /\ db.events # <<>> /\ db.next > Len(db.events)
  /\ db' = [db EXCEPT !.events = Append(@, <<db.next, "live">>), !.next = @ + 1]
  /\ UNCHANGED <<files, targets, proved, op>>

\* The appender of a continuation: the branch of the target is set to a new head.
AppendOnce(b) ==
  /\ Spend("moves")
  /\ targets # {} /\ target.ref # <<>>
  /\ target' = [target EXCEPT !.ref = b, !.objects = @ \cup Reachable(b)]
  /\ UNCHANGED <<source, bundle, output, database, proved, op>>

Next ==
  \/ \E o \in Operators, s \in Settings, pc \in {"create", "restore", "continue"} : Begin(o, pc, s)
  \/ \E o \in Operators : BundleStage(o) \/ BundleFetch(o) \/ Publish(o)
  \/ \E o \in Operators, s \in Settings : HashBundle(o, s)
  \/ \E o \in Operators : Decrypt(o) \/ Rename(o)
  \/ \E o \in Operators : RequireClean(o) \/ RestoreDatabase(o)
  \/ \E o \in Operators : RequireEmpty(o) \/ CopyObjects(o) \/ UpdateRef(o) \/ CheckCopy(o)
  \/ \E o \in Operators, id \in TargetIds : DatabasePreflight(o, id)
  \/ \E o \in Operators : ReconstructCheckpoint(o) \/ Stop(o)
  \/ \E s \in Settings : ProveAppend(s)
  \/ \E b \in Branches : MoveBranch(b) \/ SwapBundle(b) \/ AppendOnce(b)
  \/ RecreateTarget \/ Write

Spec == Init /\ [][Next]_vars

----------------------------------------------------------------------------
\* The commands, the files and the rows have the shapes the code gives them: a copy is
\* nothing or a history that exists, and the events are numbered up to the counter.
TypeOK ==
  /\ source.branch \in Branches /\ source.objects \subseteq UNION {Reachable(b) : b \in Branches}
  /\ {bundle, output, target.ref} \subseteq Branches \cup {<<>>} \cup {s.head : s \in Settings}
  /\ target.objects \subseteq UNION {Reachable(b) : b \in Branches}
  /\ \A n \in DOMAIN db.events : db.events[n][1] = n
  /\ db.next = Len(db.events) + 1
  /\ \A o \in Operators : op[o].pc \in
       {"idle", "create", "fetch", "publish", "decrypt", "rename", "restore", "insert",
        "continue", "copy", "ref", "check", "database", "reconstruct"}
  /\ \A o \in Operators : op[o].pc # "idle" => op[o].s \in Settings

\* A history is trusted under an epoch map when it falls into one run of commits per
\* epoch, in order, each run signed by its epoch's key and inside its range, all
\* objects intact and all events numbered from 1 on, and when the run of a
\* compromised signer ends with the very commit of the cutoff.
Trusted(h, epochs) ==
  \E run \in [DOMAIN h -> DOMAIN epochs] :
    /\ \A i \in DOMAIN h :
         /\ h[i].flaw = "none" /\ h[i].key = epochs[run[i]].key
         /\ h[i].first >= epochs[run[i]].first
         /\ epochs[run[i]].last # 0 => h[i].last <= epochs[run[i]].last
         /\ i > 1 => run[i - 1] <= run[i]
    /\ \A n \in DOMAIN Events(h) : Events(h)[n][1] = n
    /\ \A j \in DOMAIN epochs : epochs[j].cutoff # <<>> =>
         \E i \in DOMAIN h : /\ run[i] = j
                             /\ i < Len(h) => run[i + 1] # j
                             /\ SubSeq(h, 1, i) = epochs[j].cutoff

\* Whatever moves or is replaced between the verification and the use of a source, a
\* bundle or a target: a materialized repository, the head of a reconstructed target
\* and a proved continuation are histories an operator's settings anchor or extend by
\* one commit, and the signer epochs of those settings make them trusted.
AnchoredCopies ==
  /\ output # <<>> => \E s \in Settings : output = s.head /\ Trusted(output, s.epochs)
  /\ \A t \in targets : \E s \in Settings : t.head = s.head /\ Trusted(t.head, s.epochs)
  /\ \A p \in proved : \E s \in Settings :
       p.base = s.head /\ Front(p.head) = p.base /\ Trusted(p.head, s.epochs)

\* A restore leaves exactly the events of one fully verified history, each once and in
\* its place and each with its embedding job, whether it came with the snapshot or was
\* replayed after it; two restores at once never mix, and what services write goes
\* behind it.
RestoredExactly ==
  db.events # <<>> =>
    \E s \in Settings :
      /\ Verified(s.head, s)
      /\ IsPrefix(Events(s.head), db.events) /\ db.jobs = 1..s.high
      /\ \A n \in (s.high + 1)..Len(db.events) : db.events[n][2] = "live"

\* A reconstructed checkpoint tells the truth about both sides when it is made and
\* later: the database starts with exactly the events of its head and ends there or
\* goes on, no event was written before the checkpoint that its head lacks, and the
\* target repository it was made for still holds the head.
CheckpointBinds ==
  \A t \in targets :
    /\ t.high = Last(t.head).last
    /\ IsPrefix(Events(t.head), db.events)
    /\ t.inode = target.inode => t.head \in target.objects

\* Two continuations that race, under different target ids, never both bind the same
\* repository: archive_targets has no unique repository_reference, the reference in the
\* new repository is what decides.
OneTargetPerRepository == \A t, u \in targets : t.inode = u.inode => t = u
=============================================================================
