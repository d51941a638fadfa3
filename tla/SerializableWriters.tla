------------------------ MODULE SerializableWriters ------------------------
(***************************************************************************)
(* The writers of the event log as concurrent transactions: MutationEngine *)
(* (application/mutations.py), SelectionEngine (application/selection.py)  *)
(* and CandidateLifecycleEngine (application/candidate_lifecycle.py), each *)
(* under run_serializable_transaction (storage/transactions.py), and the   *)
(* purge worker's read-committed transaction beside them.                  *)
(*                                                                         *)
(* A transaction reads from the snapshot of its first statement, taken     *)
(* before any lock.  Locks only make it wait; what has changed since the   *)
(* snapshot shows when a row is locked for update, and then the database   *)
(* answers with a serialization failure and the attempt is repeated.       *)
(***************************************************************************)
EXTENDS MemoryCommands, Sequences, FiniteSetsExt

CONSTANTS
  Requests,        \* calls of clients and workers
  Keys,            \* idempotency keys
  NoKey,           \* what a worker's call has instead
  Command,         \* the command of each request
  KeyOf,           \* its idempotency key
  InitialTables,   \* the tables the writers start from
  MaxAttempts      \* run_serializable_transaction's max_attempts

ASSUME WritersAssumption ==
  /\ KeyOf \in [Requests -> Keys \cup {NoKey}]
  /\ NoKey \notin Keys
  /\ \A r \in Requests : Command[r].kind = "purge" => KeyOf[r] = NoKey
  /\ MaxAttempts \in Nat \ {0}

VARIABLES
  db,          \* what is committed
  snap,        \* by request: the snapshot its transaction reads
  pc,          \* where the request is
  held,        \* the locks its transaction holds
  attempt,     \* the number of its current attempt
  conflicts,   \* serialization failures that other commits have caused it
  reply        \* the answer its caller got

vars == <<db, snap, pc, held, attempt, conflicts, reply>>

\* The tables, receipts and log are CommandLog's; the two counters are the rows
\* that hand out event and decision sequences.
L == INSTANCE CommandLog WITH
       tables <- db.tables, receipts <- db.receipts, log <- db.log

InitialDb ==
  [tables |-> InitialTables, receipts |-> {}, log |-> <<>>,
   counter |-> 1, selections |-> 1]

NoSnapshot ==
  [tables |-> EmptyTables, receipts |-> {}, log |-> <<>>, counter |-> 0, selections |-> 0]

NoReply == [code |-> "none", seq |-> 0]

\* From "select" on a transaction carries an event; "omit" and "record" lead to the
\* commit of one that only records a decision.
InTransaction == {"key", "locks", "counter", "select", "commit", "omit", "record"}
Places == InTransaction \cup {"preflight", "begin", "done"}

\* The writer a command belongs to.
Selects(r) == Command[r].kind = "nominate"
Purges(r) == Command[r].kind = "purge"
Decides(r) == Command[r].kind \in {"nominate", "expire"}

Init ==
  /\ db = InitialDb
  /\ snap = [r \in Requests |-> NoSnapshot]
  /\ pc = [r \in Requests |-> IF Selects(r) THEN "preflight" ELSE "begin"]
  /\ held = [r \in Requests |-> {}]
  /\ attempt = [r \in Requests |-> 1]
  /\ conflicts = [r \in Requests |-> 0]
  /\ reply = [r \in Requests |-> NoReply]

----------------------------------------------------------------------------
(* Locks.  Advisory locks on keys and fingerprints, and rows FOR UPDATE.     *)

KeyLock(r) == <<"key", KeyOf[r]>>
RowLock(m) == <<"row", m>>
ConflictLock(c) == <<"conflict", c>>

\* The aggregate lock of a memory: by its fingerprint or, when it is sealed, by
\* its identity.
AggregateLock(t, m) ==
  LET row == t.live.memories[m] IN
  IF row.fingerprint = None THEN <<"sealed", m>>
  ELSE <<"fingerprint", row.subject, row.fingerprint>>

\* ordered_lock_keys: one order of the advisory locks for every process.
AdvisoryLocks ==
  {<<"fingerprint", s, f>> : s \in Subjects, f \in Fingerprints}
  \cup {<<"digest", s, f>> : s \in Subjects, f \in Fingerprints}
  \cup {<<"sealed", m>> : m \in MemoryIds}

SortedLocks == FoldSet(LAMBDA l, s : Append(s, l), <<>>, AdvisoryLocks)

SortedIds ==
  CHOOSE s \in [1..Cardinality(MemoryIds) -> MemoryIds] :
    \A i, j \in DOMAIN s : i < j => s[i] < s[j]

Ordered(locks) == SelectSeq(SortedLocks, LAMBDA l : l \in locks)
RowLocks(ids) ==
  LET s == SelectSeq(SortedIds, LAMBDA m : m \in ids)
  IN [i \in DOMAIN s |-> RowLock(s[i])]

\* The locks a transaction takes before it reaches the counters, in order: the
\* advisory locks, then the rows it means to change.
LockPlan(t, c) ==
  CASE c.kind \in {"observe", "remember"} -> <<<<"fingerprint", c.subject, c.fingerprint>>>>
    [] c.kind = "nominate" ->
         <<<<IF c.sealed THEN "digest" ELSE "fingerprint", c.subject, c.fingerprint>>>>
         \o (IF c.outcome = "reject" THEN <<>> ELSE RowLocks(Duplicates(t, c)))
    [] c.kind = "expire" -> RowLocks({c.memory})
    [] \E m \in Named(c) : ~Exists(t.live, m) \/ ~Lockable(t.live.memories[m]) -> <<>>
    [] OTHER ->
         Ordered({AggregateLock(t, m) : m \in Named(c)}
                 \cup IF c.kind # "revise" THEN {}
                      ELSE {<<"fingerprint", t.live.memories[c.memory].subject,
                              c.fingerprint>>})
         \o RowLocks(Named(c))
         \o IF c.kind = "resolve_conflict" THEN <<ConflictLock(c.conflict)>> ELSE <<>>

Free(r, lock) == \A q \in Requests \ {r} : lock \notin held[q]

\* The two counter rows are held until the commit.
EventCounterFree(r) == \A q \in Requests \ {r} : pc[q] \notin {"select", "commit"}
SelectionCounterFree(r) ==
  \A q \in Requests \ {r} : pc[q] # "record" /\ ~(pc[q] = "commit" /\ Decides(q))

Missing(r) ==
  SelectSeq(LockPlan(snap[r].tables, Command[r]), LAMBDA l : l \notin held[r])

\* A row or conflict that was changed and committed since the snapshot.
ChangedSince(d, lock) ==
  \/ lock[1] = "row" /\ db.tables.live.memories[lock[2]] # d.tables.live.memories[lock[2]]
  \/ lock[1] = "conflict"
     /\ db.tables.live.conflicts[lock[2]] # d.tables.live.conflicts[lock[2]]

----------------------------------------------------------------------------
(* How an attempt ends.                                                      *)

\* The transaction is over: its locks are released, its snapshot is gone.
Leave(r) ==
  /\ held' = [held EXCEPT ![r] = {}]
  /\ snap' = [snap EXCEPT ![r] = NoSnapshot]

Respond(r, code, seq) ==
  /\ pc' = [pc EXCEPT ![r] = "done"]
  /\ reply' = [reply EXCEPT ![r] = [code |-> code, seq |-> seq]]
  /\ Leave(r)

\* Faulty variants of Repeat: one attempt too many; attempts not counted.
RepeatOffByOne(r) ==
  IF attempt[r] > MaxAttempts
    THEN Respond(r, "serialization_exhausted", 0) /\ UNCHANGED attempt
    ELSE /\ pc' = [pc EXCEPT ![r] = "begin"]
         /\ attempt' = [attempt EXCEPT ![r] = @ + 1]
         /\ Leave(r)
         /\ UNCHANGED reply
RepeatUncounted(r) ==
  /\ pc' = [pc EXCEPT ![r] = "begin"]
  /\ Leave(r)
  /\ UNCHANGED <<attempt, reply>>

\* SQLSTATE 40001: the next attempt, or the end of the attempts.
Repeat(r) ==
  IF attempt[r] = MaxAttempts
    THEN Respond(r, "serialization_exhausted", 0) /\ UNCHANGED attempt
    ELSE /\ pc' = [pc EXCEPT ![r] = "begin"]
         /\ attempt' = [attempt EXCEPT ![r] = @ + 1]
         /\ Leave(r)
         /\ UNCHANGED reply

\* A serialization failure that a commit since the snapshot has caused.
Conflict(r) ==
  /\ Repeat(r)
  /\ conflicts' = [conflicts EXCEPT ![r] = @ + 1]
  /\ UNCHANGED db

\* The transaction rolls back, or had nothing to write, and the caller is told.
Refused(r, code) ==
  Respond(r, code, 0) /\ UNCHANGED <<db, attempt, conflicts>>

\* The transaction goes on, with one more lock or with the ones it has.
Proceed(r, place, locks) ==
  /\ pc' = [pc EXCEPT ![r] = place]
  /\ held' = [held EXCEPT ![r] = @ \cup locks]
  /\ UNCHANGED <<db, snap, attempt, conflicts, reply>>

Goto(r, place) == Proceed(r, place, {})

----------------------------------------------------------------------------
(* The steps of a request.                                                   *)

\* Faulty variant of ReceiptAnswer: the digests are not compared.
ReceiptAnswerUnbound(receipt, r) == [code |-> "ok", seq |-> receipt.seq]

\* What a receipt found under the request's key says.
ReceiptAnswer(receipt, r) ==
  IF receipt.command = Command[r] THEN [code |-> "ok", seq |-> receipt.seq]
  ELSE [code |-> "idempotency_key_reused", seq |-> 0]

FromReceipt(r, rows) ==
  LET receipt == CHOOSE x \in L!ReceiptsOf(rows, r) : TRUE IN
  /\ pc' = [pc EXCEPT ![r] = "done"]
  /\ reply' = [reply EXCEPT ![r] = ReceiptAnswer(receipt, r)]
  /\ Leave(r)
  /\ UNCHANGED <<db, attempt, conflicts>>

\* SelectionEngine.execute looks for a receipt in a transaction of its own.
Preflight(r) ==
  /\ pc[r] = "preflight"
  /\ IF L!ReceiptsOf(db.receipts, r) # {} THEN FromReceipt(r, db.receipts)
     ELSE Goto(r, "begin")

\* Faulty variant of Snapshot: a retry keeps an old one.
SnapshotOnce(r) == IF attempt[r] = 1 THEN db ELSE InitialDb

Snapshot(r) == db

\* The first statement fixes the snapshot.
Begin(r) ==
  /\ pc[r] = "begin"
  /\ ~Purges(r)
  /\ snap' = [snap EXCEPT ![r] = Snapshot(r)]
  /\ pc' = [pc EXCEPT ![r] = IF L!Keyed(r) THEN "key" ELSE "locks"]
  /\ UNCHANGED <<db, held, attempt, conflicts, reply>>

\* The key's lock serializes calls with one key; the receipt is still read from
\* the snapshot.
LockKey(r) ==
  /\ pc[r] = "key"
  /\ Free(r, KeyLock(r))
  /\ IF L!ReceiptsOf(snap[r].receipts, r) # {} THEN FromReceipt(r, snap[r].receipts)
     ELSE Proceed(r, "locks", {KeyLock(r)})

LockNext(r) ==
  /\ pc[r] = "locks"
  /\ Missing(r) # <<>>
  /\ LET lock == Head(Missing(r)) IN
     /\ Free(r, lock)
     /\ IF ChangedSince(snap[r], lock) THEN Conflict(r)
        ELSE Proceed(r, "locks", {lock})

\* The command is prepared on the snapshot.  An omitted nomination and an expiry
\* that is not due still record their decision.
PrepareStep(r) ==
  /\ pc[r] = "locks"
  /\ Missing(r) = <<>>
  /\ LET prepared == Prepare(snap[r].tables, Command[r]) IN
     CASE prepared.code = "ok" -> Goto(r, "counter")
       [] prepared.code = "omitted" -> Goto(r, "omit")
       [] OTHER -> Refused(r, prepared.code)

\* Faulty variant of Behind: the counter's row is locked without FOR UPDATE's check.
BehindNever(r) == FALSE

\* The counter row has moved since the snapshot.
Behind(r) == db.counter # snap[r].counter

\* append_memory_event and the fold: the singleton counter row is locked, then
\* the event is folded and staged.
LockCounter(r) ==
  /\ pc[r] = "counter"
  /\ EventCounterFree(r)
  /\ LET answer == Answer(snap[r].tables, Command[r]) IN
     IF Behind(r) THEN Conflict(r)
     ELSE IF answer.code # "ok" THEN Refused(r, answer.code)
     ELSE Goto(r, IF Decides(r) THEN "select" ELSE "commit")

\* append_selection_decision locks the decisions' counter the same way.
LockSelection(r) ==
  /\ pc[r] \in {"select", "omit"}
  /\ SelectionCounterFree(r)
  /\ IF db.selections # snap[r].selections THEN Conflict(r)
     ELSE Goto(r, IF pc[r] = "select" THEN "commit" ELSE "record")

\* Faulty variant of KeyTaken: receipts without their unique constraint.
KeyTakenNever(r) == FALSE

\* command_receipts_tenant_client_idempotency
KeyTaken(r) == L!ReceiptsOf(db.receipts, r) # {}

\* Faulty variant of NextSequence: the sequence is taken but the counter stays.
NextSequenceStuck(d) == d.counter

NextSequence(d) == d.counter + 1

\* The committed state after a transaction with an event.
Committed(r) ==
  LET e == Answer(snap[r].tables, Command[r]).event IN
  [tables     |-> Staged(db.tables, Command[r], e),
   receipts   |-> L!Receipted(db.receipts, r, db.counter),
   log        |-> Append(db.log, L!Entry(r, db.counter, e)),
   counter    |-> NextSequence(db),
   selections |-> IF Decides(r) THEN db.selections + 1 ELSE db.selections]

\* ... and after one that only records a decision.
Recorded(r) ==
  [tables |-> db.tables, receipts |-> L!Receipted(db.receipts, r, 0), log |-> db.log,
   counter |-> db.counter, selections |-> db.selections + 1]

\* The receipt is flushed and the transaction commits; the caller may not learn
\* of it.  A receipt that another call has left under the key since the snapshot
\* is a serialization failure or a unique violation.
Commit(r) ==
  /\ pc[r] = "commit"
  /\ ~KeyTaken(r)
  /\ db' = Committed(r)
  /\ Respond(r, "ok", db.counter) \/ Respond(r, "dependency_unavailable", 0)
  /\ UNCHANGED <<attempt, conflicts>>

Record(r) ==
  /\ pc[r] = "record"
  /\ ~KeyTaken(r)
  /\ db' = Recorded(r)
  /\ Respond(r, "ok", 0) \/ Respond(r, "dependency_unavailable", 0)
  /\ UNCHANGED <<attempt, conflicts>>

CommitRefused(r) ==
  /\ pc[r] \in {"commit", "record"}
  /\ KeyTaken(r)
  /\ Conflict(r) \/ Refused(r, "dependency_unavailable")

\* The database may find a serialization failure at any statement.
SerializationFailure(r) ==
  /\ pc[r] \in InTransaction
  /\ Repeat(r)
  /\ UNCHANGED <<db, conflicts>>

\* The connection breaks or another statement fails: rolled back, not repeated.
Disconnect(r) ==
  /\ pc[r] \in InTransaction \cup {"preflight"}
  /\ Refused(r, "dependency_unavailable")

\* The committed state after a purge.
Purged(r, e) ==
  [tables |-> Staged(db.tables, Command[r], e), receipts |-> db.receipts,
   log |-> Append(db.log, L!Entry(r, db.counter, e)),
   counter |-> NextSequence(db), selections |-> db.selections]

\* The purge worker's transaction: read committed, its rows locked from its first
\* read to its commit, so it is one step that waits for the locks it needs.
Purge(r) ==
  /\ pc[r] = "begin"
  /\ Purges(r)
  /\ Free(r, RowLock(Command[r].memory))
  /\ EventCounterFree(r)
  /\ LET answer == Answer(db.tables, Command[r]) IN
     IF answer.code # "ok" THEN Refused(r, answer.code)
     ELSE /\ db' = Purged(r, answer.event)
          /\ Respond(r, "ok", db.counter)
          /\ UNCHANGED <<attempt, conflicts>>

Step(r) ==
  \/ Preflight(r) \/ Begin(r) \/ LockKey(r) \/ LockNext(r) \/ PrepareStep(r)
  \/ LockCounter(r) \/ LockSelection(r) \/ Commit(r) \/ Record(r)
  \/ CommitRefused(r) \/ Purge(r)

\* Every request has its answer: nothing more happens.
Finished == (\A r \in Requests : pc[r] = "done") /\ UNCHANGED vars

Next ==
  \/ \E r \in Requests : Step(r) \/ SerializationFailure(r) \/ Disconnect(r)
  \/ Finished

Spec == Init /\ [][Next]_vars

\* Step(r) is enabled: the lock it is at, if any, is free.
Ready(r) ==
  CASE pc[r] = "done"    -> FALSE
    [] pc[r] = "begin"   -> Purges(r) => /\ Free(r, RowLock(Command[r].memory))
                                         /\ EventCounterFree(r)
    [] pc[r] = "key"     -> Free(r, KeyLock(r))
    [] pc[r] = "locks"   -> Missing(r) # <<>> => Free(r, Head(Missing(r)))
    [] pc[r] = "counter" -> EventCounterFree(r)
    [] pc[r] \in {"select", "omit"} -> SelectionCounterFree(r)
    [] OTHER             -> TRUE

\* Weak fairness of each request's Step, its enabling condition written out: a
\* process that can go on does, and a wait ends when the lock is released.
FairSpec ==
  Spec /\ \A r \in Requests : []<>~Ready(r) \/ []<><<Step(r)>>_vars

----------------------------------------------------------------------------
(* Properties.                                                               *)

\* Shape of the counters, of the receipts and of what a request keeps.
TypeOK ==
  /\ db.counter \in Nat \ {0}
  /\ db.selections \in Nat \ {0}
  /\ \A x \in db.receipts : x.key \in Keys /\ x.seq \in Nat
  /\ DOMAIN snap = Requests
  /\ DOMAIN held = Requests
  /\ pc \in [Requests -> Places]
  /\ attempt \in [Requests -> 1..MaxAttempts]
  /\ conflicts \in [Requests -> Nat]
  /\ DOMAIN reply = Requests /\ \A r \in Requests : reply[r].seq \in Nat

\* Serializability of the log: a transaction about to commit an event has read
\* exactly the tables it commits on, so its revision, duplicate and conflict
\* checks still hold, although it read them before it held any lock.
CommitFence ==
  \A r \in Requests :
    pc[r] = "commit" =>
      snap[r].tables = db.tables /\ snap[r].counter = db.counter

\* The log has no gap and no sequence twice: the singleton counter is one ahead
\* of it (append_memory_event), whatever rolled back in between.
GaplessLog ==
  /\ db.counter = Len(db.log) + 1
  /\ \A i \in DOMAIN db.log : db.log[i].seq = i

\* An idempotency key takes effect at most once: one receipt per key, and the
\* events under a key are exactly those of its receipt, across retries of the
\* client, repeated attempts, lost replies and keys used for another command.
IdempotentKeys ==
  /\ \A x, y \in db.receipts : x.key = y.key => x = y
  /\ \A i \in DOMAIN db.log :
       db.log[i].key # NoKey => \E x \in db.receipts : x.key = db.log[i].key /\ x.seq = i

\* A caller told of success gets the sequence that its own command has under its
\* key, from whichever call made it: never the result of another command.
TruthfulReplies ==
  \A r \in Requests :
    reply[r].code = "ok" /\ L!Keyed(r) =>
      \E x \in db.receipts : /\ x.key = KeyOf[r]
                             /\ x.command = Command[r]
                             /\ x.seq = reply[r].seq

\* The commits the database has seen since the start.
Commits == (db.counter - 1) + (db.selections - 1)

\* No attempt is wasted: each serialization failure that the code's own locking
\* causes is paid for by a commit since the snapshot, and no commit is charged
\* twice to a request, because every attempt starts from a fresh snapshot.  So
\* contention alone exhausts a call's attempts only when others got through.
ConflictsPaid == \A r \in Requests : conflicts[r] <= Commits

\* The transactions implement the atomic, idempotent log of commands.
ImplementsLog == L!LogSpec

\* Every call is answered: no cycle of lock waits, no endless retry.
AllAnswered == \A r \in Requests : <>(pc[r] = "done")
=============================================================================
