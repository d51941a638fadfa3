-------------------------- MODULE MemoryProjection --------------------------
(***************************************************************************)
(* The life of a tenant's memories under every writer of the event log,    *)
(* one command at a time: what the commands, the reducer and the live      *)
(* projection guarantee together.  Each action is one accepted command     *)
(* with all it writes; SerializableWriters adds the transactions.          *)
(***************************************************************************)
EXTENDS MemoryCommands

CONSTANT MaxRevision   \* bound: a memory at this revision changes no more

ASSUME RevisionAssumption == MaxRevision \in Nat

VARIABLES
  tables,   \* live projection, content keys, selection decisions
  replay    \* what a rebuild from the log so far yields

vars == <<tables, replay>>

live == tables.live

\* A rebuild that met an event the reducer refuses.
Broken == [EmptyProjection EXCEPT !.links = {"refused"}]

Rows ==
  [status: Statuses, revision: 0..MaxRevision, subject: Subjects \cup {None},
   fingerprint: Fingerprints \cup {None}, protection: Protections, deadline: BOOLEAN]

Init ==
  /\ tables = EmptyTables
  /\ replay = EmptyProjection

----------------------------------------------------------------------------
\* The revisions a caller may expect: the current one or a stale one.  Every check is
\* an equality with the current revision, so one stale value stands for all.
Stale == 0
Seen(m) == {Stale, live.memories[m].revision}

\* The bound: no after-image beyond the last revision.
WithinBound(e) == \A m \in Targets(e) : e.after[m].revision <= MaxRevision

\* A fresh identity: new_uuid7 never repeats.
FreshMemory(m) == m \in MemoryIds /\ ~Exists(live, m)
                  /\ \A n \in MemoryIds : ~Exists(live, n) => m <= n
FreshConflict(c) == c \in ConflictIds /\ live.conflicts[c].status = "absent"
                    /\ \A d \in ConflictIds : live.conflicts[d].status = "absent" => c <= d

\* One step of rebuild over the complete projection.
Rebuilt(e) == IF FoldAccepts(replay, e) THEN FoldEvent(replay, e) ELSE Broken

\* An accepted command: its event is staged live and joins the log.  A refused one
\* rolls its transaction back and leaves all this as it was.
Execute(c) ==
  LET answer == Answer(tables, c) IN
  /\ answer.code = "ok"
  /\ WithinBound(answer.event)
  /\ tables' = Staged(tables, c, answer.event)
  /\ replay' = Rebuilt(answer.event)

Observe ==
  \E m \in MemoryIds, s \in Subjects, f \in Fingerprints, k \in {"observe", "remember"} :
    /\ FreshMemory(m)
    /\ Execute([kind |-> k, memory |-> m, subject |-> s, fingerprint |-> f])

Revise ==
  \E m \in MemoryIds, f \in Fingerprints : \E r \in Seen(m) :
    Execute([kind |-> "revise", memory |-> m, revision |-> r, fingerprint |-> f])

Link ==
  \E m, n \in MemoryIds : \E r \in Seen(m), q \in Seen(n) :
    /\ m # n
    /\ Execute([kind |-> "link", source |-> m, target |-> n,
                sourceRevision |-> r, targetRevision |-> q])

\* Two or more members, each with the revision the caller saw; one stale member
\* stands for any number, because the members are compared one by one.
Expectations ==
  UNION {{[m \in ids |-> IF m = late THEN Stale ELSE live.memories[m].revision] :
            late \in ids \cup {NoId}} :
           ids \in {x \in SUBSET MemoryIds : Cardinality(x) > 1}}

OpenConflict ==
  \E c \in ConflictIds, x \in Expectations, s \in Subjects :
    /\ FreshConflict(c)
    /\ Execute([kind |-> "open_conflict", conflict |-> c, expected |-> x, subject |-> s])

ResolveConflict ==
  \E c \in {d \in ConflictIds : live.conflicts[d].status # "absent"},
     x \in Expectations, ok \in BOOLEAN :
    \E results \in [DOMAIN x -> {"active"} \cup Settled] :
      Execute([kind |-> "resolve_conflict", conflict |-> c, expected |-> x,
               result |-> results, confirmed |-> ok])

Retire ==
  \E m \in MemoryIds : \E r \in Seen(m) :
    Execute([kind |-> "retire", memory |-> m, revision |-> r])

Forget ==
  \E m \in MemoryIds, mode \in {"logical", "hard"} : \E r \in Seen(m) :
    Execute([kind |-> "forget", memory |-> m, revision |-> r, mode |-> mode])

\* A nomination, with the policy's verdicts as inputs.  A rejected one changes none
\* of the tables, and a sealed one must be active.
Verdicts == {<<"candidate", FALSE>>, <<"active", FALSE>>, <<"active", TRUE>>}

Nominate ==
  \E m \in MemoryIds, s \in Subjects, f \in Fingerprints, verdict \in Verdicts :
    LET c == [kind |-> "nominate", memory |-> m, subject |-> s, fingerprint |-> f,
              evidence |-> None, outcome |-> verdict[1], sealed |-> verdict[2],
              promotes |-> FALSE]
    IN /\ FreshMemory(m) \/ Duplicates(tables, c) # {}
       /\ \E v \in Sources, promotes \in BOOLEAN :
            Execute([c EXCEPT !.evidence = v, !.promotes = promotes])

\* The expiry job carries the revision its candidate was created with.
Expire ==
  \E m \in MemoryIds, due \in BOOLEAN :
    Execute([kind |-> "expire", memory |-> m, revision |-> 1, due |-> due])

\* The purge job carries the revision of the tombstone.
Purge ==
  \E m \in MemoryIds : \E r \in Seen(m) :
    Execute([kind |-> "purge", memory |-> m, revision |-> r])

Next ==
  \/ Observe \/ Revise \/ Link \/ OpenConflict \/ ResolveConflict
  \/ Retire \/ Forget \/ Nominate \/ Expire \/ Purge

Spec == Init /\ [][Next]_vars

----------------------------------------------------------------------------
\* The tables hold rows, evidence, links, conflicts, keys and decisions of the
\* declared shapes: the columns of memories, memory_evidence, memory_links,
\* memory_conflicts, memory_content_keys and selection_decisions.
TypeOK ==
  /\ live.memories \in [MemoryIds -> Rows]
  /\ live.evidence \subseteq MemoryIds \X Sources
  /\ live.links \subseteq MemoryIds \X MemoryIds
  /\ live.conflicts \in [ConflictIds -> [status: {"absent", "open", "resolved"},
                                         members: SUBSET MemoryIds]]
  /\ tables.keys \in [MemoryIds -> KeyStates]
  /\ tables.decisions \in [MemoryIds -> [outcome: {"none", "candidate", "active"},
                                         input: Fingerprints \cup {None}]]

\* rebuild() over the log gives exactly the live tables: the partial load of
\* load_projection_state_for_update accepts no event that the reducer refuses on
\* the complete projection, and stage_live_projection writes all it changes.
LiveMatchesRebuild == live = replay

\* A memory is disputed exactly when it is a member of an open conflict, and then
\* of one only: no command retires, forgets, expires or revives a member behind
\* the conflict's back, so every open conflict can be resolved.
DisputedIffOpenConflict ==
  \A m \in MemoryIds :
    LET open == {c \in ConflictIds : /\ live.conflicts[c].status = "open"
                                     /\ m \in live.conflicts[c].members}
    IN IF live.memories[m].status = "disputed" THEN Cardinality(open) = 1 ELSE open = {}

\* The rows have the shapes of their tables, and a memory is disputed exactly when it is
\* a member of one open conflict: no command retires, forgets, expires or revives a
\* member behind the conflict's back (_reject_disputed_terminal_mutation, fold_event).
ConflictsConsistent == TypeOK /\ DisputedIffOpenConflict

\* The duplicate checks of observe, remember and revise are enough by themselves:
\* no such command that passes them runs into the unique index
\* uq_memories_live_fingerprint, in any state the writers can produce.
DuplicateChecksSuffice ==
  \A f \in Fingerprints, m \in MemoryIds :
    LET row == live.memories[m]
        create == [kind |-> "observe", memory |-> m, subject |-> row.subject,
                   fingerprint |-> f]
        revise == [kind |-> "revise", memory |-> m, revision |-> row.revision,
                   fingerprint |-> f]
    IN /\ ~Exists(live, m) =>
            \A s \in Subjects :
              Answer(tables, [create EXCEPT !.subject = s]).code # "dependency_unavailable"
       /\ Answer(tables, revise).code # "dependency_unavailable"

\* A content key is destroyed only after a hard forget, and the memory says so: an
\* encrypted memory that is not forgotten has its active key, a requested
\* destruction belongs to a tombstone still waiting for its purge, and a destroyed
\* key to a memory recorded as erased.
KeysFollowForget ==
  \A m \in MemoryIds :
    LET row == live.memories[m] IN
    /\ row.protection = "envelope_encrypted" /\ row.status \in Live =>
         tables.keys[m] = "active"
    /\ tables.keys[m] = "destruction_requested" =>
         row.status = "tombstoned" /\ row.protection = "envelope_encrypted"
    /\ tables.keys[m] = "destroyed" <=> row.protection = "cryptographically_erased"

\* What a row may do in one step: its revision grows by exactly one whenever it
\* changes, a settled memory never becomes live again, a tombstone stays one, its
\* fingerprint gone for good.
RowStep(before, after) ==
  \/ after = before
  \/ before.status = "absent" /\ after.revision = 1
  \/ /\ after.revision = before.revision + 1
     /\ after.subject = before.subject
     /\ before.status \in Settled => after.status = "tombstoned"
     /\ before.status = "tombstoned" =>
          after.status = "tombstoned" /\ after.fingerprint = None
     /\ after.status = "candidate" => before.status = "candidate"

\* Every command, by whichever writer, moves every memory along RowStep.
NoRevival ==
  [][\A m \in MemoryIds : RowStep(live.memories[m], live.memories[m]')]_vars

----------------------------------------------------------------------------
(* A statement of the documentation that the code does not keep.            *)

\* ADR 0010: "Logical forget commits a tombstone".  A logical forget of a current,
\* undisputed memory at its current revision is accepted.
LogicalForgetCommits ==
  \A m \in MemoryIds :
    live.memories[m].status \in {"candidate", "active"} =>
      Answer(tables, [kind |-> "forget", memory |-> m, mode |-> "logical",
                      revision |-> live.memories[m].revision]).code = "ok"
=============================================================================
