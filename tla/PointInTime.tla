---------------------------- MODULE PointInTime ----------------------------
(***************************************************************************)
(* Rebuilding the projection rows from the event log (storage/projector)   *)
(* and the drill that relies on it: a database recovered to a point in     *)
(* time is verified against the manifest recorded at that point            *)
(* (tools/postgres_pitr_verify).                                           *)
(*                                                                         *)
(* A projection row carries, besides the state the reducer knows, the      *)
(* events it came from: last_event_id, source_event_id, created_event_id,  *)
(* opened_event_id, resolution_event_id.  The writers set these columns    *)
(* row by row; a rebuild derives them from the whole log.  An event's      *)
(* identity is its place in the log.                                       *)
(***************************************************************************)
EXTENDS MemoryCommands, Sequences

LOCAL INSTANCE SequencesExt

CONSTANTS
  Scripts,      \* bound: the commands that reach the writers, each a finite sequence
  FirstMarkers  \* bound: the sequences tried as marker A

VARIABLES
  script,     \* commands still to come
  db,         \* log, tables, columns and branches of the node's database
  manifest,   \* what the operator recorded at the restore point
  copy,       \* the recovered server: its database, its replay position, its fault
  verifier    \* the verifier: how far it is, what it read, its report

vars == <<script, db, manifest, copy, verifier>>

Main == "main"
NoBranch == <<>>

\* A row of memory_events.
Entry(sequence, branch, forked, e) ==
  [sequence |-> sequence, branch |-> branch, forked |-> forked, event |-> e]

----------------------------------------------------------------------------
(* The two ways the provenance columns come about.                          *)

\* The dictionaries of _Provenance.
NoColumns ==
  [last |-> <<>>, source |-> <<>>, created |-> <<>>, opened |-> <<>>,
   resolved |-> <<>>, member |-> <<>>]

Put(f, keys, id) == [k \in DOMAIN f \cup keys |-> IF k \in keys THEN id ELSE f[k]]

Members(e) == {e.conflict} \X Targets(e)
Opens(e) == IF e.op = "conflict_opened" THEN {e.conflict} ELSE {}
Resolves(e) == IF e.op = "conflict_resolved" THEN {e.conflict} ELSE {}
LinkOf(e) == IF e.link = NoLink THEN {} ELSE {e.link}

\* One round of the loop of _derive_provenance.
DeriveOne(columns, e, id) ==
  [last     |-> Put(columns.last, Targets(e), id),
   source   |-> Put(columns.source, e.evidence, id),
   created  |-> Put(columns.created, LinkOf(e), id),
   opened   |-> Put(columns.opened, Opens(e), id),
   resolved |-> Put(columns.resolved, Resolves(e), id),
   member   |-> Put(columns.member, IF e.op \in Conflicting THEN Members(e) ELSE {}, id)]

\* Faulty variant of StageColumns: an update leaves last_event_id as it was.
StageColumnsOnce(columns, before, after, e, id) ==
  [DeriveOne(columns, e, id) EXCEPT
     !.last = Put(columns.last, Targets(e) \ DOMAIN columns.last, id)]

\* stage_live_projection: the columns of the rows it inserts or updates.  A memory row
\* is written only when the fold changed it.
StageColumns(columns, before, after, e, id) ==
  LET changed == {m \in Targets(e) : after.memories[m] # before.memories[m]} IN
  [last     |-> Put(columns.last, changed, id),
   source   |-> Put(columns.source,
                    IF e.op \in Creates \cup Lifecycle THEN e.evidence ELSE {}, id),
   created  |-> Put(columns.created, after.links \ before.links, id),
   opened   |-> Put(columns.opened, Opens(e), id),
   resolved |-> Put(columns.resolved, Resolves(e), id),
   member   |-> Put(columns.member, IF e.op \in Conflicting THEN Members(e) ELSE {}, id)]

----------------------------------------------------------------------------
(* rebuild and build_projection_rows.                                       *)

Empty == [sequence |-> 0, projection |-> EmptyProjection, columns |-> NoColumns,
          branches |-> <<>>, scopes |-> <<>>, refused |-> FALSE]

\* _create_branch: a fork names an event that lies on its parent.
CreatesBranch(s, entry) ==
  /\ entry.branch \notin DOMAIN s.branches
  /\ entry.forked # NoBranch =>
       LET parent == entry.forked[1]
           fork == entry.forked[2]
       IN /\ parent \in DOMAIN s.branches
          /\ fork \in DOMAIN s.scopes /\ s.scopes[fork] = parent

\* fold_event over one row of the log, and the provenance that goes with it.
FoldRow(s, entry) ==
  LET e == entry.event
      id == entry.sequence
      creates == e.op = "branch_created"
      accepted == IF creates THEN CreatesBranch(s, entry)
                  ELSE entry.branch \in DOMAIN s.branches /\ FoldAccepts(s.projection, e)
  IN IF s.refused \/ id # s.sequence + 1 \/ ~accepted THEN [s EXCEPT !.refused = TRUE]
     ELSE [sequence   |-> id,
           projection |-> IF creates THEN s.projection ELSE FoldEvent(s.projection, e),
           columns    |-> DeriveOne(s.columns, e, id),
           branches   |-> IF creates THEN Put(s.branches, {entry.branch}, entry.forked)
                          ELSE s.branches,
           scopes     |-> Append(s.scopes, entry.branch),
           refused    |-> FALSE]

\* load_verified_events and rebuild.
Rebuild(log) == FoldLeft(FoldRow, Empty, log)

\* _memory_row, _evidence_row, _link_row and the rows built in place: the state the
\* projection has and the columns that say where it came from.
RowsOf(p, columns, branches) ==
  [memories  |-> {<<m, p.memories[m], columns.last[m]>> : m \in {n \in MemoryIds : Exists(p, n)}},
   evidence  |-> {<<item, columns.source[item]>> : item \in p.evidence},
   links     |-> {<<link, columns.created[link]>> : link \in p.links},
   conflicts |-> {<<c, p.conflicts[c].status, columns.opened[c],
                    IF c \in DOMAIN columns.resolved THEN columns.resolved[c] ELSE NoId>> :
                    c \in {d \in ConflictIds : p.conflicts[d].status # "absent"}},
   members   |-> {<<c, m, columns.member[<<c, m>>]>> :
                    <<c, m>> \in {<<d, n>> \in ConflictIds \X MemoryIds :
                                    n \in p.conflicts[d].members}},
   branches  |-> branches]

\* build_projection_rows raises unless every row has its provenance (_required) and a
\* conflict has a resolution event exactly when it is resolved.
Buildable(p, columns) ==
  /\ \A m \in MemoryIds : Exists(p, m) => m \in DOMAIN columns.last
  /\ p.evidence \subseteq DOMAIN columns.source
  /\ p.links \subseteq DOMAIN columns.created
  /\ \A c \in ConflictIds : p.conflicts[c].status # "absent" =>
       /\ c \in DOMAIN columns.opened
       /\ p.conflicts[c].status = "resolved" <=> c \in DOMAIN columns.resolved
       /\ {c} \X p.conflicts[c].members \subseteq DOMAIN columns.member

Builds(s) == ~s.refused /\ Buildable(s.projection, s.columns)
BuiltRows(s) == RowsOf(s.projection, s.columns, s.branches)

----------------------------------------------------------------------------
(* The writers.                                                             *)

Persisted(d) == RowsOf(d.tables.live, d.columns, d.branches)

Commit(d) ==
  /\ db' = d
  /\ manifest' = IF manifest.count > 0 /\ manifest.c = 0
                   THEN [manifest EXCEPT !.c = Len(d.log)] ELSE manifest

\* _missing_branch_rows: the rows that exist are rows the log explains.
BranchesAgree(existing, expected) ==
  \A b \in DOMAIN existing : b \in DOMAIN expected /\ expected[b] = existing[b]

\* One command of a writer on the main branch.
Write(c) ==
  LET answer == Answer(db.tables, c)
      id == Len(db.log) + 1
      staged == Staged(db.tables, c, answer.event)
  IN IF Main \in DOMAIN db.branches /\ answer.code = "ok"
       THEN Commit([log      |-> Append(db.log, Entry(id, Main, NoBranch, answer.event)),
                    tables   |-> staged,
                    columns  |-> StageColumns(db.columns, db.tables.live, staged.live,
                                              answer.event, id),
                    branches |-> db.branches])
     ELSE UNCHANGED <<db, manifest>>

\* rebuild_semantic_projections in the caller's transaction: missing branches are added
\* and every row is replaced, or it raises and the transaction is rolled back.
RebuildProjections(log) ==
  LET s == Rebuild(log) IN
  IF Builds(s) /\ BranchesAgree(db.branches, s.branches)
    THEN Commit([log |-> log, tables |-> [db.tables EXCEPT !.live = s.projection],
                 columns |-> s.columns, branches |-> s.branches])
  ELSE UNCHANGED <<db, manifest>>

\* A branch is provisioned, its event appended and the rows rebuilt in one transaction.
\* No service does this; the databases of the verifier's tests get their branch so
\* (_seed_projected_memory).
CreateBranch(c) ==
  RebuildProjections(Append(db.log, Entry(Len(db.log) + 1, c.branch, c.forked,
                                          Event("branch_created", <<>>, <<>>))))

Step ==
  /\ script # <<>>
  /\ script' = Tail(script)
  /\ IF Head(script).kind = "branch" THEN CreateBranch(Head(script)) ELSE Write(Head(script))
  /\ UNCHANGED <<copy, verifier>>

----------------------------------------------------------------------------
(* The drill: marker A, marker B and the restore point, marker C, recovery. *)

NoManifest == [count |-> 0, a |-> 0, c |-> 0, prefix |-> <<>>, rows |-> <<>>, synthetic |-> NoId]

\* The restore point: what the manifest binds is read from the node's own database.
Mark(a, m) ==
  /\ manifest.count = 0
  /\ 0 < a /\ a < Len(db.log)
  /\ db.tables.live.memories[m].protection = "envelope_encrypted"
  /\ manifest' = [count |-> Len(db.log), a |-> a, c |-> 0, prefix |-> db.log,
                  rows |-> Persisted(db), synthetic |-> m]
  /\ UNCHANGED <<script, db, copy, verifier>>

\* What may be wrong with a recovered server, one thing at a time.
ServerFaults == {"runtime", "isolation", "replaying", "target"}
AuthorityFaults == {"ledger", "attachment"}
DataFaults == {"hole", "tail", "row", "column", "key"}
OtherFaults == {"compatibility", "late"}
Faults == {"none"} \cup ServerFaults \cup AuthorityFaults \cup DataFaults \cup OtherFaults

NoCopy == [at |-> 0, fault |-> "none", log |-> <<>>, rows |-> <<>>]

\* PostgreSQL: replay up to a commit gives the database as that commit left it.
Replayed(n, fault) ==
  LET log == SubSeq(db.log, 1, n)
      rows == BuiltRows(Rebuild(log))
      first == CHOOSE row \in rows.memories : TRUE
      damaged == IF fault = "row" THEN {} ELSE {<<first[1], first[2], first[3] + 1>>}
  IN [at |-> n, fault |-> fault,
      log |-> IF fault = "hole" THEN Tail(log)
              ELSE IF fault = "tail" THEN SubSeq(log, 1, n - 1) ELSE log,
      rows |-> IF fault \in {"row", "column"} /\ rows.memories # {}
                 THEN [rows EXCEPT !.memories = (@ \ {first}) \cup damaged] ELSE rows]

Recover(n, fault) ==
  /\ manifest.c > 0
  /\ copy.at = 0
  /\ copy' = Replayed(n, fault)
  /\ UNCHANGED <<script, db, manifest, verifier>>

\* A server that has not paused replays one more commit.
Advance ==
  /\ copy.fault = "replaying" /\ copy.at < Len(db.log)
  /\ copy' = Replayed(copy.at + 1, copy.fault)
  /\ UNCHANGED <<script, db, manifest, verifier>>

----------------------------------------------------------------------------
(* verify_pitr, statement by statement.                                     *)

Unread == [log |-> <<>>, rows |-> <<>>]
Ready == [pc |-> "server", read |-> Unread, report |-> "none"]

Finish(report) == verifier' = [verifier EXCEPT !.pc = "done", !.report = report]

\* _server_decisions: runtime, isolation with replay paused, recovery target.
ServerDecisions(fault) == fault \notin ServerFaults

ReadServer ==
  /\ verifier.pc = "server" /\ copy.at > 0
  /\ IF ServerDecisions(copy.fault) THEN verifier' = [verifier EXCEPT !.pc = "authority"]
     ELSE Finish("failed")
  /\ UNCHANGED <<script, db, manifest, copy>>

\* _verify_destruction_authority and _provider_attachments_absent, before any
\* application relation is read.
CheckAuthority ==
  /\ verifier.pc = "authority"
  /\ IF copy.fault \notin AuthorityFaults THEN verifier' = [verifier EXCEPT !.pc = "events"]
     ELSE Finish("failed")
  /\ UNCHANGED <<script, db, manifest, copy>>

\* application_snapshot: the events are loaded, folded and turned into rows.
ReadEvents ==
  /\ verifier.pc = "events"
  /\ IF Builds(Rebuild(copy.log))
       THEN verifier' = [verifier EXCEPT !.pc = "rows", !.read.log = copy.log]
     ELSE Finish("raised")
  /\ UNCHANGED <<script, db, manifest, copy>>

\* _load_projection_rows
ReadRows ==
  /\ verifier.pc = "rows"
  /\ verifier' = [verifier EXCEPT !.pc = "synthetic", !.read.rows = copy.rows]
  /\ UNCHANGED <<script, db, manifest, copy>>

\* _synthetic_correlation raises unless the drill's sealed memory and its key are there.
Correlates(m) ==
  /\ copy.fault # "key"
  /\ \E row \in copy.rows.memories : row[1] = m /\ row[2].protection = "envelope_encrypted"

\* _embedding_plan: one job per memory, bound to its revision and last event.
EmbeddingPlan(rows) == {<<row[1], row[2].revision, row[3]>> : row \in rows.memories}

\* verify_snapshots: compatibility, events, projections, markers, requeue, objectives.
VerifySnapshots(log, rows, rebuilt) ==
  /\ copy.fault \notin OtherFaults
  /\ Len(log) = manifest.count /\ log = manifest.prefix
  /\ rows = manifest.rows /\ rebuilt = manifest.rows
  /\ {manifest.a, manifest.count} \subseteq DOMAIN log /\ manifest.c \notin DOMAIN log
  /\ EmbeddingPlan(rebuilt) = EmbeddingPlan(manifest.rows)

Conclude ==
  /\ verifier.pc = "synthetic"
  /\ LET read == verifier.read IN
     IF ~Correlates(manifest.synthetic) THEN Finish("raised")
     ELSE IF VerifySnapshots(read.log, read.rows, BuiltRows(Rebuild(read.log)))
       THEN Finish("verified")
     ELSE Finish("failed")
  /\ UNCHANGED <<script, db, manifest, copy>>

\* _run: a statement fails, and the report says that the database is unavailable.
Disconnect ==
  /\ copy.at > 0
  /\ verifier.pc \in {"server", "events", "rows", "synthetic"}
  /\ Finish("unavailable")
  /\ UNCHANGED <<script, db, manifest, copy>>

Verify == ReadServer \/ CheckAuthority \/ ReadEvents \/ ReadRows \/ Conclude \/ Disconnect

----------------------------------------------------------------------------
Init ==
  /\ script \in Scripts
  /\ db = [log |-> <<>>, tables |-> EmptyTables, columns |-> NoColumns, branches |-> <<>>]
  /\ manifest = NoManifest
  /\ copy = NoCopy
  /\ verifier = Ready

Next ==
  \/ Step
  \/ \E a \in FirstMarkers, m \in MemoryIds : Mark(a, m)
  \/ \E n \in 1..Len(db.log), fault \in Faults : Recover(n, fault)
  \/ Advance
  \/ Verify

Spec == Init /\ [][Next]_vars

----------------------------------------------------------------------------
\* The log is numbered without gaps and the drill's parts have their shapes: the manifest
\* binds markers in the order A, B, C (require_order), the copy is at a commit.
TypeOK ==
  /\ \A i \in DOMAIN db.log : db.log[i].sequence = i
  /\ manifest.count > 0 => /\ manifest.a \in 1..(manifest.count - 1)
                           /\ manifest.c \in {0, manifest.count + 1}
  /\ copy.at \in 0..Len(db.log) /\ copy.fault \in Faults
  /\ verifier.pc \in {"server", "authority", "events", "rows", "synthetic", "done"}
  /\ verifier.report \in {"none", "verified", "failed", "raised", "unavailable"}

\* Whatever the writers did, the log rebuilds, and build_projection_rows gives exactly
\* the rows they left, every provenance column included: replacing the rows by a
\* rebuild changes nothing.
RowsRebuild ==
  LET s == Rebuild(db.log) IN Builds(s) /\ BuiltRows(s) = Persisted(db)

\* A report that comes says "verified" exactly for a sound server that stands at the restore
\* point with every event and every row of it, with A and B and without C, and still
\* stands there; and no application relation was read before the destruction ledger
\* was checked (verify_pitr).
VerifiedExactly ==
  /\ verifier.report \notin {"none", "unavailable"} =>
       (verifier.report = "verified" <=> copy.fault = "none" /\ copy.at = manifest.count)
  /\ verifier.read # Unread => copy.fault \notin ServerFaults \cup AuthorityFaults
=============================================================================
