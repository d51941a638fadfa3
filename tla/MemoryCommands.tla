--------------------------- MODULE MemoryCommands ---------------------------
(***************************************************************************)
(* What each writer of the event log does with one command, as a function  *)
(* of the tenant's tables: MutationEngine (application/mutations.py), the  *)
(* SelectionEngine's nominations (application/selection.py), the candidate *)
(* lifecycle engine and the sealed-content purge.  A writer reads the      *)
(* tables, refuses or prepares an event, and the event is folded and       *)
(* staged.  Transactions and locks are in SerializableWriters.             *)
(*                                                                         *)
(* t has the live projection, the content keys by memory and, by memory,   *)
(* the selection decision that created it.                                 *)
(***************************************************************************)
EXTENDS MemoryFold

CONSTANT ConfirmSubjects   \* subjects of persona or relationship scope

ASSUME ConfirmAssumption == ConfirmSubjects \subseteq Subjects

KeyStates == {"none", "active", "destruction_requested", "destroyed"}

NoDecision == [outcome |-> "none", input |-> None]

EmptyTables ==
  [live      |-> EmptyProjection,
   keys      |-> [m \in MemoryIds |-> "none"],
   decisions |-> [m \in MemoryIds |-> NoDecision]]

Refuse(code) == [code |-> code, event |-> NoEvent]
Propose(e) == [code |-> "ok", event |-> e]

One(m, value) == [x \in {m} |-> value]

\* Faulty variant of Matches: disputed memories are overlooked.
MatchesUndisputed(p, subject, fingerprint, statuses) ==
  {m \in MemoryIds : /\ p.memories[m].status \in statuses \ {"disputed"}
                     /\ p.memories[m].subject = subject
                     /\ p.memories[m].fingerprint = fingerprint}

\* The memory a query by subject and fingerprint finds among the given statuses.
Matches(p, subject, fingerprint, statuses) ==
  {m \in MemoryIds : /\ p.memories[m].status \in statuses
                     /\ p.memories[m].subject = subject
                     /\ p.memories[m].fingerprint = fingerprint}

\* Plaintext without a fingerprint cannot be locked: a tombstone is out of reach.
Lockable(row) == row.fingerprint # None \/ row.protection # "plaintext"

\* _updated_memory, as the v1 payload carries it: that contract has no deadline.
Updated(row, status) ==
  [row EXCEPT !.status = status, !.revision = @ + 1, !.deadline = FALSE]

\* _revised_memory: same status, new content.
Revised(row, fingerprint) ==
  [Updated(row, row.status) EXCEPT !.fingerprint = fingerprint]

Tombstone(row) == [Updated(row, "tombstoned") EXCEPT !.fingerprint = None]

Transition(op, m, before, after) == Event(op, One(m, before.revision), One(m, after))

----------------------------------------------------------------------------
(* MutationEngine._prepare_payload                                          *)

\* observe and remember
PrepareCreate(t, c) ==
  IF Matches(t.live, c.subject, c.fingerprint, Live) # {} THEN Refuse("invalid_input")
  ELSE LET observes == c.kind = "observe"
       IN Propose(Event(IF observes THEN "observed" ELSE "remembered", <<>>,
            One(c.memory, Row(IF observes THEN "candidate" ELSE "active", 1, c.subject,
                              c.fingerprint, "plaintext", FALSE))))

\* The memories a command names, in the commands that name existing ones.
Named(c) ==
  CASE c.kind = "link" -> {c.source, c.target}
    [] c.kind \in {"open_conflict", "resolve_conflict"} -> DOMAIN c.expected
    [] c.kind \in {"revise", "retire", "forget", "expire", "purge"} -> {c.memory}
    [] OTHER -> {}

PrepareRevise(t, c) ==
  LET row == t.live.memories[c.memory] IN
  IF row.revision # c.revision THEN Refuse("stale_revision")
  ELSE IF Matches(t.live, row.subject, c.fingerprint, Live) \ {c.memory} # {}
    THEN Refuse("invalid_input")
  ELSE Propose(Transition("revised", c.memory, row, Revised(row, c.fingerprint)))

PrepareLink(t, c) ==
  IF \/ t.live.memories[c.source].revision # c.sourceRevision
     \/ t.live.memories[c.target].revision # c.targetRevision
    THEN Refuse("stale_revision")
  ELSE IF <<c.source, c.target>> \in t.live.links THEN Refuse("invalid_input")
  ELSE Propose([Event("linked", <<>>, <<>>) EXCEPT !.link = <<c.source, c.target>>])

\* Every member at its expected revision.
Current(t, expected) ==
  \A m \in DOMAIN expected : t.live.memories[m].revision = expected[m]

PrepareOpenConflict(t, c) ==
  IF \E m \in DOMAIN c.expected : t.live.memories[m].subject # c.subject
    THEN Refuse("invalid_input")
  ELSE IF ~Current(t, c.expected) THEN Refuse("stale_revision")
  ELSE Propose([Event("conflict_opened", c.expected,
                      [m \in DOMAIN c.expected |-> Updated(t.live.memories[m], "disputed")])
                EXCEPT !.conflict = c.conflict])

PrepareResolveConflict(t, c) ==
  LET conflict == t.live.conflicts[c.conflict] IN
  IF /\ ~c.confirmed
     /\ \E m \in DOMAIN c.expected : t.live.memories[m].subject \in ConfirmSubjects
    THEN Refuse("invalid_input")
  ELSE IF conflict.status = "absent" THEN Refuse("not_found")
  ELSE IF conflict.status # "open" \/ conflict.members # DOMAIN c.expected
    THEN Refuse("conflict_state_changed")
  ELSE IF ~Current(t, c.expected) THEN Refuse("stale_revision")
  ELSE Propose([Event("conflict_resolved", c.expected,
                      [m \in DOMAIN c.expected |->
                         Updated(t.live.memories[m], c.result[m])])
                EXCEPT !.conflict = c.conflict])

\* Faulty variant of RejectsDisputed: the guard on disputed memories is missing.
RejectsNothing(row) == FALSE

\* _reject_disputed_terminal_mutation
RejectsDisputed(row) == row.status = "disputed"

PrepareRetire(t, c) ==
  LET row == t.live.memories[c.memory] IN
  IF row.revision # c.revision THEN Refuse("stale_revision")
  ELSE IF RejectsDisputed(row) THEN Refuse("conflict_state_changed")
  ELSE Propose(Transition("retired", c.memory, row, Updated(row, "retired")))

PrepareForget(t, c) ==
  LET row == t.live.memories[c.memory] IN
  IF row.revision # c.revision THEN Refuse("stale_revision")
  ELSE IF RejectsDisputed(row) THEN Refuse("conflict_state_changed")
  ELSE IF /\ c.mode = "hard"
          /\ \/ row.protection # "envelope_encrypted"
             \/ t.keys[c.memory] # "active"
    THEN Refuse("hard_forget_unavailable")
  ELSE Propose([Transition("tombstoned", c.memory, row, Tombstone(row))
                EXCEPT !.mode = c.mode])

----------------------------------------------------------------------------
(* The other writers.                                                       *)

\* The memory a nomination duplicates.  A sealed one is found by the input digest
\* of the decision that created it, the others by fingerprint.
Duplicates(t, c) ==
  IF c.sealed
    THEN {m \in MemoryIds : /\ t.live.memories[m].status = "active"
                            /\ t.live.memories[m].subject = c.subject
                            /\ t.live.memories[m].protection = "envelope_encrypted"
                            /\ t.decisions[m].outcome = "active"
                            /\ t.decisions[m].input = c.fingerprint}
  ELSE Matches(t.live, c.subject, c.fingerprint, {"candidate", "active"})

\* A second nomination of a candidate: omitted, or promoted when it brings new
\* evidence and the policy says so.
PreparePromotion(t, c, m) ==
  LET row == t.live.memories[m]
      item == <<m, c.evidence>>
  IN IF \/ t.decisions[m].outcome # "candidate"
        \/ item \in t.live.evidence
        \/ ~c.promotes
       THEN Refuse("omitted")
     ELSE IF ~row.deadline THEN Refuse("invalid_input")
     ELSE Propose([Transition("candidate_promoted", m, row, Updated(row, "active"))
                   EXCEPT !.evidence = {item}])

\* The memory a nomination creates, with its evidence unless it is sealed.
PrepareSelected(c) ==
  LET row == Row(c.outcome, 1, c.subject, IF c.sealed THEN None ELSE c.fingerprint,
                 IF c.sealed THEN "envelope_encrypted" ELSE "plaintext",
                 c.outcome = "candidate")
  IN Propose([Event(IF c.outcome = "candidate" THEN "observed" ELSE "remembered",
                    <<>>, One(c.memory, row))
              EXCEPT !.evidence = IF c.sealed THEN {} ELSE {<<c.memory, c.evidence>>}])

\* SelectionEngine._attempt
PrepareNominate(t, c) ==
  IF c.sealed /\ c.outcome # "active" THEN Refuse("invalid_input")
  ELSE IF c.outcome = "reject" THEN Refuse("omitted")
  ELSE IF Duplicates(t, c) = {} THEN PrepareSelected(c)
  ELSE LET m == CHOOSE d \in Duplicates(t, c) : TRUE
       IN IF t.live.memories[m].status = "active" THEN Refuse("omitted")
          ELSE PreparePromotion(t, c, m)

\* CandidateLifecycleEngine._attempt for an expiry
PrepareExpire(t, c) ==
  LET row == t.live.memories[c.memory] IN
  IF \/ row.status # "candidate"
     \/ row.revision # c.revision
     \/ t.decisions[c.memory].outcome # "candidate"
    THEN Refuse("no_op")
  ELSE IF ~row.deadline THEN Refuse("validation_failed")
  ELSE IF ~c.due THEN Refuse("omitted")
  ELSE Propose(Transition("candidate_expired", c.memory, row, Updated(row, "retired")))

\* handle_purge_payload_job, the key being destroyed
PreparePurge(t, c) ==
  LET row == t.live.memories[c.memory] IN
  IF row.protection = "cryptographically_erased" THEN Refuse("already_purged")
  ELSE IF \/ row.revision # c.revision
          \/ row.status # "tombstoned"
          \/ row.protection # "envelope_encrypted"
          \/ t.keys[c.memory] # "destruction_requested"
    THEN Refuse("invalid_job")
  ELSE Propose(Transition("payload_purge_completed", c.memory, row,
                 [Updated(row, "tombstoned") EXCEPT !.protection = "cryptographically_erased"]))

----------------------------------------------------------------------------
(* A command applied to the tables in one go.                               *)

\* Commands on named memories fail early when one is missing or out of reach.
Prepare(t, c) ==
  IF c.kind \notin {"expire", "purge"} /\ \E m \in Named(c) : ~Exists(t.live, m)
    THEN Refuse("not_found")
  ELSE IF /\ c.kind \notin {"expire", "purge"}
          /\ \E m \in Named(c) : ~Lockable(t.live.memories[m])
    THEN Refuse("invalid_input")
  ELSE CASE c.kind \in {"observe", "remember"} -> PrepareCreate(t, c)
         [] c.kind = "revise"           -> PrepareRevise(t, c)
         [] c.kind = "link"             -> PrepareLink(t, c)
         [] c.kind = "open_conflict"    -> PrepareOpenConflict(t, c)
         [] c.kind = "resolve_conflict" -> PrepareResolveConflict(t, c)
         [] c.kind = "retire"           -> PrepareRetire(t, c)
         [] c.kind = "forget"           -> PrepareForget(t, c)
         [] c.kind = "nominate"         -> PrepareNominate(t, c)
         [] c.kind = "expire"           -> PrepareExpire(t, c)
         [] c.kind = "purge"            -> PreparePurge(t, c)

\* Faulty variant of KeysAfter: hard forget leaves the key active.
KeysKept(t, c, e) == t.keys

\* The content key rows: provisioned by a sealed creation, marked by a hard forget,
\* destroyed by the purge.
KeysAfter(t, c, e) ==
  [m \in MemoryIds |->
     IF m \notin Targets(e) THEN t.keys[m]
     ELSE CASE e.op = "tombstoned" /\ e.mode = "hard" -> "destruction_requested"
            [] e.op = "payload_purge_completed" -> "destroyed"
            [] e.op \in Creates /\ e.after[m].protection = "envelope_encrypted" -> "active"
            [] OTHER -> t.keys[m]]

DecisionsAfter(t, c, e) ==
  [m \in MemoryIds |->
     IF c.kind = "nominate" /\ e.op \in Creates /\ m \in Targets(e)
       THEN [outcome |-> c.outcome, input |-> c.fingerprint]
     ELSE t.decisions[m]]

Staged(t, c, e) ==
  [live      |-> StageProjection(t.live, e),
   keys      |-> KeysAfter(t, c, e),
   decisions |-> DecisionsAfter(t, c, e)]

\* The answer to a command: its own refusal, the reducer's or the table's.
Answer(t, c) ==
  LET prepared == Prepare(t, c)
      e == prepared.event
  IN IF prepared.code # "ok" THEN prepared
     ELSE IF ~FoldAccepts(LoadProjection(t.live, e), e) THEN Refuse("invalid_input")
     ELSE IF ~Storable(StageProjection(t.live, e)) THEN Refuse("dependency_unavailable")
     ELSE prepared
=============================================================================
