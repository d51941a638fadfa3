----------------------------- MODULE MemoryFold -----------------------------
(***************************************************************************)
(* The canonical reducer (domain/folding.py) and the live projection that  *)
(* stages its result (storage/live_projection.py), as pure operators on a  *)
(* projection.  An event carries complete after-images; the reducer checks *)
(* them against the projection and installs them.                          *)
(*                                                                         *)
(* A projection p has memories, the active evidence of each memory, the    *)
(* active links and the conflicts.  A row keeps what the reducer's checks  *)
(* tell apart; content is abstracted to its subject and fingerprint.       *)
(***************************************************************************)
EXTENDS Naturals, FiniteSets

CONSTANTS
  MemoryIds,      \* identities a memory may be created with
  ConflictIds,    \* identities a conflict may be opened with
  Subjects,       \* what a memory is about
  Fingerprints,   \* exact content fingerprints
  Sources         \* distinct pieces of evidence

None == "none"
NoLink == <<>>
NoId == 0          \* memory and conflict identities are positive

Live == {"candidate", "active", "disputed"}
Settled == {"superseded", "retired"}
Statuses == {"absent", "tombstoned"} \cup Live \cup Settled
Protections == {"plaintext", "envelope_encrypted", "cryptographically_erased"}

Row(status, revision, subject, fingerprint, protection, deadline) ==
  [status |-> status, revision |-> revision, subject |-> subject,
   fingerprint |-> fingerprint, protection |-> protection, deadline |-> deadline]

Absent == Row("absent", 0, None, None, "plaintext", FALSE)

NoConflict == [status |-> "absent", members |-> {}]

EmptyProjection ==
  [memories  |-> [m \in MemoryIds |-> Absent],
   evidence  |-> {},
   links     |-> {},
   conflicts |-> [c \in ConflictIds |-> NoConflict]]

Exists(p, m) == p.memories[m].status # "absent"
EvidenceOf(p, m) == {item \in p.evidence : item[1] = m}

\* An event: after-images and the revisions they replace, by memory.
Event(op, previous, after) ==
  [op |-> op, previous |-> previous, after |-> after, evidence |-> {},
   link |-> NoLink, conflict |-> NoId, mode |-> None]

NoEvent == Event("none", <<>>, <<>>)

Creates == {"observed", "remembered"}
Lifecycle == {"candidate_promoted", "candidate_expired"}
Conflicting == {"conflict_opened", "conflict_resolved"}
Targets(e) == DOMAIN e.after

----------------------------------------------------------------------------
(* The checks of fold_event.                                                *)

\* _check_revision: the exact successor of the row the event was built on.  A
\* sealed row changes only by a tombstone or by the completion of its purge.
CheckRevision(p, e, m) ==
  /\ Exists(p, m)
  /\ p.memories[m].revision = e.previous[m]
  /\ e.after[m].revision = e.previous[m] + 1
  /\ e.after[m].subject = p.memories[m].subject
  /\ p.memories[m].protection # "plaintext" =>
       e.op \in {"tombstoned", "payload_purge_completed"}

\* Faulty variant of RevisedTransitions: settled memories may be revised.
RevisedTransitionsOfAll(status) == {status}

\* _REVISED_TRANSITIONS
RevisedTransitions(status) ==
  CASE status = "candidate" -> Live
    [] status \in {"active", "disputed"} -> {"active", "disputed"}
    [] OTHER -> {}

\* The status a row must have for an operation, and the one it must get.
CheckLifecycle(op, current, after) ==
  CASE op = "observed"              -> after = "candidate"
    [] op = "remembered"            -> after \in {"candidate", "active"}
    [] op = "candidate_promoted"    -> current = "candidate" /\ after = "active"
    [] op = "candidate_expired"     -> current = "candidate" /\ after = "retired"
    [] op = "revised"               -> after \in RevisedTransitions(current)
    [] op = "retired"               -> current \in Live /\ after = "retired"
    [] op = "tombstoned"            -> current # "tombstoned" /\ after = "tombstoned"
    [] op = "conflict_opened"       -> current \in {"candidate", "active"}
                                       /\ after = "disputed"
    [] op = "conflict_resolved"     -> current = "disputed"
                                       /\ after \in {"active"} \cup Settled
    [] op = "payload_purge_completed" -> current = "tombstoned" /\ after = "tombstoned"

CreateAccepted(p, e) ==
  \A m \in Targets(e) : ~Exists(p, m) /\ e.after[m].revision = 1

CheckProtection(p, e, m) ==
  CASE e.op = "tombstoned" /\ e.mode = "hard" ->
         /\ p.memories[m].protection = "envelope_encrypted"
         /\ e.after[m].protection = "envelope_encrypted"
    [] e.op = "payload_purge_completed" ->
         /\ p.memories[m].protection = "envelope_encrypted"
         /\ e.after[m].protection = "cryptographically_erased"
    [] OTHER -> TRUE

\* The conflict side: a new conflict over one subject, or an open conflict
\* resolved for exactly its members.
CheckConflict(p, e) ==
  CASE e.op = "conflict_opened" ->
         /\ p.conflicts[e.conflict].status = "absent"
         /\ \A m, n \in Targets(e) : p.memories[m].subject = p.memories[n].subject
    [] e.op = "conflict_resolved" ->
         /\ p.conflicts[e.conflict].status = "open"
         /\ p.conflicts[e.conflict].members = Targets(e)
    [] OTHER -> TRUE

CheckEvidence(p, e) ==
  CASE e.op = "tombstoned" -> \A m \in Targets(e) : EvidenceOf(p, m) = {}
    [] OTHER -> e.evidence \cap p.evidence = {}

FoldAccepts(p, e) ==
  /\ IF e.op \in Creates THEN CreateAccepted(p, e)
     ELSE \A m \in Targets(e) : CheckRevision(p, e, m)
  /\ \A m \in Targets(e) :
       /\ CheckLifecycle(e.op, p.memories[m].status, e.after[m].status)
       /\ CheckProtection(p, e, m)
       /\ e.op \in Lifecycle => ~e.after[m].deadline
  /\ CheckConflict(p, e)
  /\ CheckEvidence(p, e)
  /\ e.link # NoLink => Exists(p, e.link[1]) /\ Exists(p, e.link[2])

\* Faulty variant of ConflictStatus: the operation is stored in its place.
ConflictStatusRaw(op) == op

ConflictStatus(op) == IF op = "conflict_opened" THEN "open" ELSE "resolved"

\* The projection after an accepted event.
FoldEvent(p, e) ==
  [memories  |-> [m \in MemoryIds |->
                    IF m \in Targets(e) THEN e.after[m] ELSE p.memories[m]],
   evidence  |-> p.evidence \cup e.evidence,
   links     |-> IF e.link = NoLink THEN p.links ELSE p.links \cup {e.link},
   conflicts |-> [c \in ConflictIds |->
                    IF e.op \notin Conflicting \/ c # e.conflict THEN p.conflicts[c]
                    ELSE [status |-> ConflictStatus(e.op), members |-> Targets(e)]]]

----------------------------------------------------------------------------
(* The live path loads only what the event needs, folds that and writes the *)
(* difference back.                                                         *)

\* Faulty variant of LoadedEvidence: evidence is loaded for creations only.
LoadedEvidenceNever(p, e) == p.evidence \cap e.evidence

\* The evidence rows load_projection_state_for_update reads.
LoadedEvidence(p, e) ==
  IF e.op = "tombstoned" THEN {item \in p.evidence : item[1] \in Targets(e)}
  ELSE p.evidence \cap e.evidence

\* load_projection_state_for_update
LoadProjection(p, e) ==
  LET ids == Targets(e) \cup (IF e.link = NoLink THEN {} ELSE {e.link[1], e.link[2]})
  IN [memories  |-> [m \in MemoryIds |-> IF m \in ids THEN p.memories[m] ELSE Absent],
      evidence  |-> LoadedEvidence(p, e),
      links     |-> {},
      conflicts |-> [c \in ConflictIds |->
                       IF c = e.conflict THEN p.conflicts[c] ELSE NoConflict]]

StagedEvidence(p, e) ==
  p.evidence \cup (IF e.op \in Creates \cup Lifecycle THEN e.evidence ELSE {})

\* stage_live_projection: p with the loaded part's changes written back.
StageProjection(p, e) ==
  LET after == FoldEvent(LoadProjection(p, e), e)
  IN [memories  |-> [m \in MemoryIds |->
                       IF m \in Targets(e) THEN after.memories[m] ELSE p.memories[m]],
      evidence  |-> StagedEvidence(p, e),
      links     |-> p.links \cup after.links,
      conflicts |-> [c \in ConflictIds |->
                       IF c = e.conflict THEN after.conflicts[c] ELSE p.conflicts[c]]]

\* What the memories table accepts: one live row per subject and fingerprint
\* (uq_memories_live_fingerprint), a deadline on candidates only.
Storable(p) ==
  /\ \A m, n \in MemoryIds :
       /\ p.memories[m].status \in Live
       /\ p.memories[n].status \in Live
       /\ p.memories[m].fingerprint # None
       /\ p.memories[m].fingerprint = p.memories[n].fingerprint
       /\ p.memories[m].subject = p.memories[n].subject
       => m = n
  /\ \A m \in MemoryIds : p.memories[m].deadline => p.memories[m].status = "candidate"
=============================================================================
