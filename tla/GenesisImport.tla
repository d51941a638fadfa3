---------------------------- MODULE GenesisImport ----------------------------
(***************************************************************************)
(* Applying the Genesis first import: operators run `stage`, `apply` and   *)
(* `verify` of scripts/apply_genesis_import.py, possibly at the same time  *)
(* and with different configurations, and any of them may die anywhere.    *)
(*                                                                         *)
(*   application/genesis_apply.py, application/genesis_import.py,          *)
(*   storage/genesis_import.py, migrations 0004,                           *)
(*   application/selection.py as the importer uses it                      *)
(*                                                                         *)
(* One step is one database transaction.  Staging, status and the replay   *)
(* snapshots run at READ COMMITTED; each nomination is one SERIALIZABLE    *)
(* transaction of the selection engine.  A decision is numbered by its     *)
(* place in `decisions`; a candidate's event and memory have that number.  *)
(***************************************************************************)
EXTENDS GenesisPlan

CONSTANTS
  Operators,    \* the importer processes
  Configs,      \* operator configurations: approved, run, backup, mappings
  Budgets       \* records [commands, touches, revokes, trees]: bounds and trees

VARIABLES
  tree,         \* the Git tree of the pinned commit
  plan,         \* what planning that tree yields, the same for every command
  sound,        \* the importer's identity graph is intact
  run,          \* genesis_import_runs: the one stored run, or NoRun
  rows,         \* genesis_import_records of that run, by nomination key
  decisions,    \* selection_decisions of the importer
  receipts,     \* command_receipts of the importer, by idempotency key
  memories,     \* memories by number: status, last event, subject, text
  others,       \* rows other writers added to the counted tables
  result,       \* genesis_import_run_results: the counts, or NoResult
  op,           \* each operator's progress
  budget        \* what may still happen

vars == <<tree, plan, sound, run, rows, decisions, receipts, memories, others,
          result, op, budget>>

NoRun == [id |-> 0]
NoResult == [candidate |-> 0, omit |-> 0, reject |-> 0, by |-> <<>>]
Idle == [pc |-> "idle", mode |-> "none", config |-> <<>>, i |-> 1,
         before |-> <<>>]

Init ==
  /\ budget \in Budgets
  /\ tree \in budget.trees
  /\ plan = PlanGenesisImport(tree)
  /\ sound = TRUE
  /\ run = NoRun
  /\ rows = <<>>
  /\ decisions = <<>>
  /\ receipts = <<>>
  /\ memories = <<>>
  /\ others = 0
  /\ result = NoResult
  /\ op = [o \in Operators |-> Idle]

Goto(o, pc) == op' = [op EXCEPT ![o].pc = pc]
Exit(o) == op' = [op EXCEPT ![o] = Idle]

\* The database as one operator step may leave it alone.
Stored == <<run, rows, decisions, receipts, memories, result>>
World == <<tree, plan, sound, others, budget>>

(***************************************************************************)
(* Starting a command: plan again, prepare, check the identity graph       *)
(***************************************************************************)
Start(o, mode, config) ==
  /\ op[o].pc = "idle"
  /\ budget.commands > 0
  /\ budget' = [budget EXCEPT !.commands = @ - 1]
  /\ IF Prepares(plan, config)
       THEN op' = [op EXCEPT ![o] = [Idle EXCEPT !.pc = "preflight",
                                      !.mode = mode, !.config = config]]
       ELSE UNCHANGED op
  /\ UNCHANGED <<tree, plan, sound, others, Stored>>

\* A scene subject needs the session its reference maps to.
PreflightSubjects(mappings) ==
  \A s \in mappings.subjects : s[1] = "scene" => s[2] \in mappings.sessions

Preflight(o) ==
  /\ op[o].pc = "preflight"
  /\ IF sound /\ PreflightSubjects(op[o].config.mappings)
       THEN Goto(o, IF op[o].mode = "verify" THEN "status" ELSE "stage")
       ELSE Exit(o)
  /\ UNCHANGED <<World, Stored>>

(***************************************************************************)
(* Staging                                                                 *)
(***************************************************************************)
ManifestMaterial(stored, r) ==
  [sources        |-> r.sources,
   records        |-> {<<k, stored[k].owner>> : k \in DOMAIN stored},
   exclusions     |-> r.exclusions,
   candidateEdges |-> r.candidateEdges,
   exclusionEdges |-> r.exclusionEdges]

RunRow(config) ==
  [id |-> config.run, plan |-> plan.manifest, backup |-> config.backup,
   mappings |-> config.mappings, sources |-> plan.sources,
   exclusions |-> plan.exclusions, candidateEdges |-> plan.candidateEdges,
   exclusionEdges |-> plan.exclusionEdges]

VerifyPlanDigest(r, stored) == ManifestMaterial(stored, r) = r.plan

\* The corrected file must bring the one candidate and both exclusions.
CompatibilityIdentity(r, stored) ==
  plan.corrected # {} =>
    /\ \E k \in DOMAIN stored : k[1] \in plan.corrected /\ stored[k].id = "shared"
    /\ {"not1", "not2"} \subseteq r.exclusions

Frozen(stored) ==
  [k \in DOMAIN stored |-> [stored[k] EXCEPT !.state = "planned",
                                             !.decision = 0, !.memory = 0]]

VerifiedExistingPlan(r, fresh) ==
  /\ run = r
  /\ VerifyPlanDigest(run, rows)
  /\ Frozen(rows) = fresh

InsertPlan(r, fresh) ==
  /\ run' = r
  /\ rows' = fresh
  /\ UNCHANGED <<decisions, receipts, memories, result>>

Staged(o) ==
  IF op[o].mode = "apply" /\ plan.nominations # <<>>
    THEN Goto(o, "execute") ELSE Exit(o)

\* A concurrent stage meets the unique constraints and reads the winner's run.
Stage(o) ==
  /\ op[o].pc = "stage"
  /\ LET r     == RunRow(op[o].config)
         fresh == PreparedRows(plan, op[o].config.mappings)
     IN \/ /\ VerifyPlanDigest(r, fresh) /\ CompatibilityIdentity(r, fresh)
           /\ run = NoRun
           /\ InsertPlan(r, fresh)
           /\ Staged(o)
        \/ /\ run # NoRun /\ VerifiedExistingPlan(r, fresh)
           /\ Staged(o)
           /\ UNCHANGED Stored
        \/ /\ IF run = NoRun
                THEN ~(VerifyPlanDigest(r, fresh) /\ CompatibilityIdentity(r, fresh))
                ELSE ~VerifiedExistingPlan(r, fresh)
           /\ Exit(o)
           /\ UNCHANGED Stored
  /\ UNCHANGED World

(***************************************************************************)
(* One nomination through the selection engine                             *)
(***************************************************************************)
Command(n, config) ==
  [key |-> n.key, run |-> config.run, target |-> ResolveTarget(n, config.mappings),
   reason |-> TerminalReason(n, config.mappings)]

Resolve(c) == IF c.reason = "none" THEN "imported_legacy_memory" ELSE "external_source"

EvaluateSelection(authority) ==
  IF authority = "imported_legacy_memory" THEN "candidate" ELSE "reject"

Duplicate(n, c) ==
  \E m \in DOMAIN memories :
    /\ memories[m].subject = c.target /\ memories[m].text = n.text
    /\ memories[m].status \in {"candidate", "active"}

Outcome(n, c) ==
  IF EvaluateSelection(Resolve(c)) = "candidate" /\ Duplicate(n, c)
    THEN "omit" ELSE EvaluateSelection(Resolve(c))

\* The event store refuses a global memory of a fictional scene.
AfterImage(n, outcome) ==
  ~(outcome = "candidate" /\ n.scope = "global" /\ n.fiction)

VerifyPlannedRecord(c) ==
  /\ run # NoRun /\ run.id = c.run
  /\ c.key \in DOMAIN rows
  /\ rows[c.key].state = "planned"
  /\ rows[c.key].target = c.target /\ rows[c.key].reason = c.reason

ParticipantStages(c, outcome) ==
  /\ c.reason # "none" => outcome = "reject"
  /\ VerifyPlannedRecord(c)

\* The links are written but the record stays planned.
TerminalizeLater(c, outcome, d, m) ==
  rows' = [rows EXCEPT ![c.key].decision = d, ![c.key].memory = m]

Terminalize(c, outcome, d, m) ==
  rows' = [rows EXCEPT ![c.key] = [@ EXCEPT !.state = outcome,
                                            !.decision = d, !.memory = m]]

\* Only a candidate has an event and a memory.
LinkedMemory(outcome, d) == IF outcome = "candidate" THEN d ELSE 0

Decide(n, c, outcome) ==
  LET d == Len(decisions) + 1
      m == LinkedMemory(outcome, d)
  IN /\ decisions' = Append(decisions, [key |-> c.key, outcome |-> outcome, memory |-> m])
     /\ receipts' = [k \in DOMAIN receipts \union {c.key} |->
                       IF k = c.key THEN [command |-> c, outcome |-> outcome,
                                          decision |-> d, memory |-> m]
                       ELSE receipts[k]]
     /\ memories' = IF m = 0 THEN memories
                    ELSE [k \in DOMAIN memories \union {m} |->
                            IF k = m THEN [status |-> "candidate", last |-> m,
                                           subject |-> c.target, text |-> n.text]
                            ELSE memories[k]]
     /\ Terminalize(c, outcome, d, m)

\* A receipt answers, and is checked against the command that made it.
Replays(c) == c.key \in DOMAIN receipts /\ receipts[c.key].command = c

Attempts(n, c) ==
  /\ c.key \notin DOMAIN receipts
  /\ sound
  /\ AfterImage(n, Outcome(n, c))
  /\ ParticipantStages(c, Outcome(n, c))

MatchesBefore(o, c) ==
  LET b == op[o].before IN
    /\ c.key \in DOMAIN b.expected
    /\ b.expected[c.key] = receipts[c.key]

Advance(o) ==
  IF op[o].i < Len(plan.nominations)
    THEN op' = [op EXCEPT ![o].i = @ + 1]
    ELSE IF op[o].mode = "verify" THEN Goto(o, "after") ELSE Exit(o)

Execute(o) ==
  /\ op[o].pc = "execute"
  /\ LET n == plan.nominations[op[o].i]
         c == Command(n, op[o].config)
     IN \/ /\ Replays(c)
           /\ IF op[o].mode = "verify" => MatchesBefore(o, c)
                THEN Advance(o) ELSE Exit(o)
           /\ UNCHANGED Stored
        \/ /\ Attempts(n, c)
           /\ Decide(n, c, Outcome(n, c))
           /\ IF op[o].mode = "verify" THEN Exit(o) ELSE Advance(o)
           /\ UNCHANGED <<run, result>>
        \/ /\ ~Replays(c) /\ ~Attempts(n, c)
           /\ Exit(o)
           /\ UNCHANGED Stored
  /\ UNCHANGED World

(***************************************************************************)
(* Verifying and completing                                                *)
(***************************************************************************)
PlannedKeys == {k \in DOMAIN rows : rows[k].state = "planned"}

RunStatus == run # NoRun /\ run.plan = plan.manifest

Status(o) ==
  /\ op[o].pc = "status"
  /\ IF RunStatus /\ PlannedKeys = {} /\ result = NoResult
       THEN Goto(o, "before") ELSE Exit(o)
  /\ UNCHANGED <<World, Stored>>

\* Rows are read by the configured run id; counts are the whole tenant's.
ReplayEvidence(config) ==
  LET keys == IF run.id = config.run THEN DOMAIN rows ELSE {} IN
    /\ \A k \in keys :
         /\ k \in DOMAIN receipts
         /\ rows[k].state # "planned"
         /\ receipts[k].decision = rows[k].decision
         /\ receipts[k].memory = rows[k].memory
    /\ Cardinality(keys) = Len(plan.nominations)

ReplaySnapshot ==
  [expected |-> receipts, counts |-> <<Len(decisions), Cardinality(DOMAIN memories), others>>]

Before(o) ==
  /\ op[o].pc = "before"
  /\ IF ReplayEvidence(op[o].config)
       THEN op' = [op EXCEPT ![o].before = ReplaySnapshot, ![o].i = 1,
                             ![o].pc = IF plan.nominations = <<>> THEN "after"
                                       ELSE "execute"]
       ELSE Exit(o)
  /\ UNCHANGED <<World, Stored>>

After(o) ==
  /\ op[o].pc = "after"
  /\ IF ReplayEvidence(op[o].config) /\ ReplaySnapshot = op[o].before
       THEN Goto(o, "complete") ELSE Exit(o)
  /\ UNCHANGED <<World, Stored>>

\* A check that expects a memory behind every terminal record.
VerifiedWithMemory(k) ==
  /\ rows[k].decision \in DOMAIN decisions
  /\ rows[k].memory \in DOMAIN memories
  /\ memories[rows[k].memory].status = "candidate"

\* One record's links, as complete_run and the insert trigger both check them.
VerifiedRecord(k) ==
  LET r == rows[k] IN
    /\ r.decision \in DOMAIN decisions
    /\ decisions[r.decision].outcome = r.state
    /\ decisions[r.decision].memory = r.memory
    /\ {q \in DOMAIN receipts : receipts[q].decision = r.decision} = {k}
    /\ receipts[k].memory = r.memory
    /\ r.state = "candidate" =>
         /\ r.memory \in DOMAIN memories
         /\ memories[r.memory].status = "candidate"
         /\ memories[r.memory].last = r.memory

VerifiedCompletionCounts ==
  /\ DOMAIN rows # {}
  /\ PlannedKeys = {}
  /\ \A k \in DOMAIN rows : VerifiedRecord(k)

InState(s) == Cardinality({k \in DOMAIN rows : rows[k].state = s})

Counts(config) ==
  [candidate |-> InState("candidate"), omit |-> InState("omit"),
   reject |-> InState("reject"), by |-> config]

RecoveryUnchecked(config) == TRUE

RecoveryEvidence(config) == run.backup = config.backup

CompletesRun(config) ==
  /\ run.id = config.run /\ run.plan = plan.manifest
  /\ RecoveryEvidence(config)
  /\ VerifiedCompletionCounts

Complete(o) ==
  /\ op[o].pc = "complete"
  /\ IF CompletesRun(op[o].config) /\ result = NoResult
       THEN Goto(o, "insert") ELSE Exit(o)
  /\ UNCHANGED <<World, Stored>>

\* The trigger checks again; the primary key admits one result.
RunCompletion == PlannedKeys = {} /\ \A k \in DOMAIN rows : VerifiedRecord(k)

Insert(o) ==
  /\ op[o].pc = "insert"
  /\ result' = IF RunCompletion /\ result = NoResult
                 THEN Counts(op[o].config) ELSE result
  /\ Exit(o)
  /\ UNCHANGED <<World, run, rows, decisions, receipts, memories>>

(***************************************************************************)
(* Faults and the rest of the system                                       *)
(***************************************************************************)
\* The process dies, or its database session does: nothing half-written stays.
Die(o) ==
  /\ op[o].pc # "idle"
  /\ Exit(o)
  /\ UNCHANGED <<World, Stored>>

\* A reviewer, the expiry worker or a forget moves an imported memory on.
Touch(m, status) ==
  /\ budget.touches > 0
  /\ m \in DOMAIN memories /\ memories[m].status = "candidate"
  /\ memories' = [memories EXCEPT ![m].status = status, ![m].last = 0]
  /\ others' = others + 1
  /\ budget' = [budget EXCEPT !.touches = @ - 1]
  /\ UNCHANGED <<tree, plan, sound, run, rows, decisions, receipts, result, op>>

\* Some other client of the tenant writes.
OtherWrite ==
  /\ budget.touches > 0
  /\ others' = others + 1
  /\ budget' = [budget EXCEPT !.touches = @ - 1]
  /\ UNCHANGED <<tree, plan, sound, op, Stored>>

Revoke ==
  /\ budget.revokes > 0 /\ sound
  /\ sound' = FALSE
  /\ budget' = [budget EXCEPT !.revokes = @ - 1]
  /\ UNCHANGED <<tree, plan, others, op, Stored>>

Next ==
  \/ \E o \in Operators, mode \in {"stage", "apply", "verify"}, c \in Configs :
       Start(o, mode, c)
  \/ \E o \in Operators : Preflight(o)
  \/ \E o \in Operators : Stage(o)
  \/ \E o \in Operators : Execute(o)
  \/ \E o \in Operators : Status(o)
  \/ \E o \in Operators : Before(o)
  \/ \E o \in Operators : After(o)
  \/ \E o \in Operators : Complete(o)
  \/ \E o \in Operators : Insert(o)
  \/ \E o \in Operators : Die(o)
  \/ \E m \in DOMAIN memories, s \in {"active", "withdrawn"} : Touch(m, s)
  \/ OtherWrite
  \/ Revoke

Spec == Init /\ [][Next]_vars

(***************************************************************************)
(* Properties                                                              *)
(***************************************************************************)
Outcomes == {"candidate", "omit", "reject"}

\* Types: every stored row and every operator's progress is well formed, and
\* an operator only ever holds the index of a nomination of the plan.
TypeOK ==
  /\ sound \in BOOLEAN /\ others \in Nat
  /\ \A k \in DOMAIN rows :
       /\ rows[k].state \in Outcomes \union {"planned"}
       /\ rows[k].decision \in 0 .. Len(decisions)
  /\ \A i \in DOMAIN decisions : decisions[i].outcome \in Outcomes
  /\ \A k \in DOMAIN receipts : receipts[k].decision \in DOMAIN decisions
  /\ \A o \in Operators :
       /\ op[o].mode \in {"none", "stage", "apply", "verify"}
       /\ op[o].pc = "execute" => op[o].i \in DOMAIN plan.nominations

\* One decision per record, however often the import is interrupted, resumed
\* or run twice at once: a record is terminal exactly when one receipt and one
\* decision exist for its key, all three name the same outcome and memory, and
\* only a candidate has a memory (SelectionEngine._attempt with
\* _GenesisTerminalParticipant.stage, one transaction).
DecidedOnce ==
  /\ DOMAIN receipts \subseteq DOMAIN rows
  /\ \A k \in DOMAIN rows :
       LET mine == {i \in DOMAIN decisions : decisions[i].key = k} IN
         IF rows[k].state = "planned"
           THEN mine = {} /\ k \notin DOMAIN receipts
           ELSE /\ mine = {rows[k].decision}
                /\ k \in DOMAIN receipts /\ receipts[k].decision = rows[k].decision
                /\ {decisions[rows[k].decision].outcome, receipts[k].outcome}
                      = {rows[k].state}
                /\ {decisions[rows[k].decision].memory, receipts[k].memory}
                      = {rows[k].memory}
                /\ rows[k].state = "candidate" <=> rows[k].memory # 0

\* What the source may not assert on its own never becomes a memory: a legacy
\* proposal (no actor), a version 1 candidate that is relational in scope or in
\* disposition, an episode, and a scene whose session nobody mapped.
WithheldStaysOut ==
  \A i \in DOMAIN tree : \A j \in DOMAIN tree[i].candidates :
    LET e == tree[i]
        c == e.candidates[j]
        ref == IF e.form = "v2" /\ c.interaction # "" THEN c.interaction ELSE c.id
    IN (/\ <<e.path, c.id>> \in DOMAIN rows
        /\ \/ e.form = "proposal"
           \/ e.form = "v1" /\ Relational(c)
           \/ c.scope = "episodic"
           \/ c.scope = "scene_local" /\ ref \notin run.mappings.sessions)
       => rows[<<e.path, c.id>>].memory = 0

Reaches(edges) ==
  LET nodes == {e[1] : e \in edges} \union {e[2] : e \in edges}
      step[n \in Nat] == IF n = 0 THEN edges
                         ELSE step[n - 1] \union
                              {<<p[1][1], p[2][2]>> :
                                 p \in {q \in step[n - 1] \X edges : q[1][2] = q[2][1]}}
  IN step[Cardinality(nodes)]

\* What is staged is the whole authorized tree and nothing that could not be
\* replayed in order: every eligible file is a stored source, only the one
\* frozen file was forgiven its vocabulary, and both supersession graphs are
\* closed and have no cycle (_validate_supersession_graph against reachability).
StagedGraph ==
  run # NoRun =>
    /\ run.sources = {tree[i].path : i \in {j \in DOMAIN tree : tree[j].form # "outside"}}
    /\ \A i \in DOMAIN tree :
         tree[i].form # "outside" /\ tree[i].errors = "federation" => tree[i].frozen
    /\ \A x \in Reaches(run.candidateEdges) \union Reaches(run.exclusionEdges) : x[1] # x[2]
    /\ \A x \in run.candidateEdges : \E k \in DOMAIN rows : rows[k].id = x[2]
    /\ \A x \in run.exclusionEdges : x[2] \in run.exclusions

\* A completed import was verified under its own run: the command that completed
\* it named the run id and recovery evidence that were staged, and its mappings
\* derive for every record the command the record was decided by; no record is
\* left planned, and the recorded counts are those of the records (complete_run
\* and the completion trigger of migration 0004).
CompletedByItsRun ==
  result # NoResult =>
    /\ result.by.run = run.id /\ result.by.backup = run.backup
    /\ \A i \in DOMAIN plan.nominations :
         LET n == plan.nominations[i] IN
           receipts[n.key].command = Command(n, result.by)
    /\ PlannedKeys = {}
    /\ result.candidate = InState("candidate")
    /\ result.omit = InState("omit")
    /\ result.reject = InState("reject")

\* Nothing the importer itself did can block it: with the identity graph intact,
\* a planned record can still be decided by the stored run's own configuration
\* (a global scene excepted, see AfterImage), and once every record is terminal
\* and no other writer moved an imported memory, completion would be granted.
NothingBlocks ==
  run # NoRun =>
    LET config == [run |-> run.id, backup |-> run.backup, mappings |-> run.mappings]
        mine   == {rows[k].memory : k \in DOMAIN rows} \ {0}
    IN /\ \A i \in DOMAIN plan.nominations :
            LET n == plan.nominations[i] IN
              \/ Replays(Command(n, config))
              \/ ~sound
              \/ n.scope = "global" /\ n.fiction
              \/ Attempts(n, Command(n, config))
       /\ \/ PlannedKeys # {} \/ DOMAIN rows = {}
          \/ \E m \in mine : memories[m].status # "candidate"
          \/ CompletesRun(config) /\ ReplayEvidence(config) /\ RunCompletion
=============================================================================
