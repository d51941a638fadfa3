----------------------------- MODULE CommandLog -----------------------------
(***************************************************************************)
(* What the writers of the event log promise together: commands take       *)
(* effect one at a time, each on the tables all earlier ones left, and a   *)
(* command with an idempotency key takes effect at most once for that key. *)
(* SerializableWriters implements this with concurrent transactions.       *)
(***************************************************************************)
EXTENDS Naturals, Sequences

CONSTANTS
  Answer(_, _),      \* what a command says on some tables: a code and an event
  Staged(_, _, _),   \* the tables once its event is staged
  Requests,          \* calls of clients and workers
  Keys,              \* idempotency keys
  NoKey,             \* what a worker's call has instead
  Command,           \* the command of each request
  KeyOf,             \* its idempotency key
  InitialTables      \* the tables the writers start from

VARIABLES
  tables,     \* live projection, content keys, selection decisions
  receipts,   \* rows: an idempotency key, its command, the sequence of its event
  log         \* the events, in order

logVars == <<tables, receipts, log>>

Keyed(r) == KeyOf[r] \in Keys
Entry(r, seq, e) == [seq |-> seq, key |-> KeyOf[r], event |-> e]
Receipt(r, seq) == [key |-> KeyOf[r], command |-> Command[r], seq |-> seq]

\* The receipts under a request's key, and the rows once it has committed.
ReceiptsOf(rows, r) == {x \in rows : x.key = KeyOf[r]}
Receipted(rows, r, seq) == IF Keyed(r) THEN rows \cup {Receipt(r, seq)} ELSE rows

LogInit ==
  /\ tables = InitialTables
  /\ receipts = {}
  /\ log = <<>>

\* A command takes effect on the tables as they are now.
TakeEffect(r) ==
  LET answer == Answer(tables, Command[r]) IN
  /\ ReceiptsOf(receipts, r) = {}
  /\ answer.code = "ok"
  /\ tables' = Staged(tables, Command[r], answer.event)
  /\ log' = Append(log, Entry(r, Len(log) + 1, answer.event))
  /\ receipts' = Receipted(receipts, r, Len(log) + 1)

\* A nomination is omitted: only its receipt remains.
Omit(r) ==
  /\ Keyed(r)
  /\ ReceiptsOf(receipts, r) = {}
  /\ receipts' = Receipted(receipts, r, 0)
  /\ UNCHANGED <<tables, log>>

LogNext == \E r \in Requests : TakeEffect(r) \/ Omit(r)

LogSpec == LogInit /\ [][LogNext]_logVars
=============================================================================
