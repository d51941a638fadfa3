----------------------- MODULE MemoryProjectionProofs -----------------------
(***************************************************************************)
(* What the commands, the reducer and the live projection guarantee, for   *)
(* any number of memories, conflicts, subjects, fingerprints and pieces of *)
(* evidence.                                                               *)
(*                                                                         *)
(* The argument has three layers.  The partial load is enough: for an      *)
(* event of the shape the writers make (Wellformed), the reducer accepts   *)
(* the loaded rows exactly if it accepts the whole projection, and what is *)
(* staged is the whole fold.  Every accepted command makes such an event,  *)
(* with after-images of a known form (Made).  From the two, each action    *)
(* preserves the invariants.                                               *)
(***************************************************************************)
EXTENDS MemoryProjection, FiniteSetTheorems, TLAPS

\* What the writers put into an event, as far as the partial load depends on it.
Wellformed(e) ==
  /\ Targets(e) \subseteq MemoryIds
  /\ e.evidence \subseteq Targets(e) \X Sources
  /\ e.op \notin Creates \cup Lifecycle => e.evidence = {}
  /\ e.link # NoLink => e.link \in MemoryIds \X MemoryIds
  /\ e.op \in Conflicting => e.conflict \in ConflictIds

----------------------------------------------------------------------------
(* The partial load.                                                        *)

\* The rows, the conflict and the evidence an event is about are loaded as they are.
LEMMA LoadedRows ==
  ASSUME NEW p, NEW e, Wellformed(e)
  PROVE  /\ \A m \in Targets(e) :
              /\ LoadProjection(p, e).memories[m] = p.memories[m]
              /\ e.op = "tombstoned" =>
                   EvidenceOf(LoadProjection(p, e), m) = EvidenceOf(p, m)
         /\ e.op # "tombstoned" =>
              e.evidence \cap LoadProjection(p, e).evidence = e.evidence \cap p.evidence
         /\ e.op \in Conflicting =>
              LoadProjection(p, e).conflicts[e.conflict] = p.conflicts[e.conflict]
         /\ e.link # NoLink =>
              /\ LoadProjection(p, e).memories[e.link[1]] = p.memories[e.link[1]]
              /\ LoadProjection(p, e).memories[e.link[2]] = p.memories[e.link[2]]
<1> DEFINE q == LoadProjection(p, e)
<1>1. \A m \in Targets(e) : q.memories[m] = p.memories[m]
  BY DEF Wellformed, LoadProjection
<1>2. e.op = "tombstoned" => \A m \in Targets(e) : EvidenceOf(q, m) = EvidenceOf(p, m)
  BY DEF LoadProjection, LoadedEvidence, EvidenceOf
<1>3. e.op # "tombstoned" => e.evidence \cap q.evidence = e.evidence \cap p.evidence
  BY Zenon DEF LoadProjection, LoadedEvidence
<1>4. e.op \in Conflicting => q.conflicts[e.conflict] = p.conflicts[e.conflict]
  BY Zenon DEF Wellformed, LoadProjection
<1>5. ASSUME e.link # NoLink
      PROVE  q.memories[e.link[1]] = p.memories[e.link[1]]
             /\ q.memories[e.link[2]] = p.memories[e.link[2]]
  <2>1. e.link[1] \in MemoryIds /\ e.link[2] \in MemoryIds
    BY Zenon, <1>5 DEF Wellformed
  <2> QED BY Zenon, <1>5, <2>1 DEF LoadProjection
<1> QED BY Zenon, <1>1, <1>2, <1>3, <1>4, <1>5

\* load_projection_state_for_update loads enough: what the reducer accepts on the loaded
\* part it accepts on the complete projection, as a rebuild would.
LEMMA LoadSuffices ==
  ASSUME NEW p, NEW e, Wellformed(e), FoldAccepts(LoadProjection(p, e), e)
  PROVE  FoldAccepts(p, e)
<1> DEFINE q == LoadProjection(p, e)
<1>0. /\ \A m \in Targets(e) : q.memories[m] = p.memories[m]
      /\ e.op = "tombstoned" => \A m \in Targets(e) : EvidenceOf(q, m) = EvidenceOf(p, m)
      /\ e.op # "tombstoned" => e.evidence \cap q.evidence = e.evidence \cap p.evidence
      /\ e.op \in Conflicting => q.conflicts[e.conflict] = p.conflicts[e.conflict]
      /\ e.link # NoLink => /\ q.memories[e.link[1]] = p.memories[e.link[1]]
                            /\ q.memories[e.link[2]] = p.memories[e.link[2]]
  BY LoadedRows
<1>a. FoldAccepts(q, e)
  BY Zenon
<1> HIDE DEF q
<1>1. IF e.op \in Creates THEN CreateAccepted(p, e)
      ELSE \A m \in Targets(e) : CheckRevision(p, e, m)
  BY ZenonT(60), <1>0, <1>a DEF FoldAccepts, CreateAccepted, CheckRevision, Exists
<1>2. ASSUME NEW m \in Targets(e)
      PROVE  /\ CheckLifecycle(e.op, p.memories[m].status, e.after[m].status)
             /\ CheckProtection(p, e, m)
             /\ e.op \in Lifecycle => ~e.after[m].deadline
  <2>1. CheckLifecycle(e.op, q.memories[m].status, e.after[m].status)
        /\ CheckProtection(q, e, m) /\ (e.op \in Lifecycle => ~e.after[m].deadline)
    BY Zenon, <1>a DEF FoldAccepts
  <2>2. q.memories[m] = p.memories[m]
    BY Zenon, <1>0
  <2>3. CheckProtection(p, e, m)
    BY Zenon, <2>1, <2>2 DEF CheckProtection
  <2> QED BY Zenon, <2>1, <2>2, <2>3
<1>3. CheckConflict(p, e)
  BY ZenonT(60), <1>0, <1>a DEF FoldAccepts, CheckConflict, Conflicting
<1>4. CheckEvidence(p, e)
  BY Zenon, <1>0, <1>a DEF FoldAccepts, CheckEvidence
<1>5. e.link # NoLink => Exists(p, e.link[1]) /\ Exists(p, e.link[2])
  BY Zenon, <1>0, <1>a DEF FoldAccepts, Exists
<1> QED BY Zenon, <1>1, <1>2, <1>3, <1>4, <1>5 DEF FoldAccepts

\* stage_live_projection writes everything the reducer changes: the staged tables are
\* the fold of the complete projection.
LEMMA StageIsFold ==
  ASSUME NEW p, NEW e, Wellformed(e)
  PROVE  StageProjection(p, e) = FoldEvent(p, e)
<1> DEFINE q == LoadProjection(p, e)
           after == FoldEvent(q, e)
<1>1. [m \in MemoryIds |-> IF m \in Targets(e) THEN after.memories[m] ELSE p.memories[m]]
      = FoldEvent(p, e).memories
  BY DEF FoldEvent
<1>2. StagedEvidence(p, e) = FoldEvent(p, e).evidence
  BY DEF FoldEvent, StagedEvidence, Wellformed
<1>3. p.links \cup after.links = FoldEvent(p, e).links
  BY DEF FoldEvent, LoadProjection
<1>4. [c \in ConflictIds |-> IF c = e.conflict THEN after.conflicts[c] ELSE p.conflicts[c]]
      = FoldEvent(p, e).conflicts
  BY DEF FoldEvent, LoadProjection
<1> QED BY Zenon, <1>1, <1>2, <1>3, <1>4 DEF StageProjection, FoldEvent

----------------------------------------------------------------------------
(* The events the writers make.                                             *)

\* The operations that carry after-images.
RowOperations ==
  Creates \cup Lifecycle \cup Conflicting
    \cup {"revised", "retired", "tombstoned", "payload_purge_completed"}

\* The row a creation carries, and the row any other operation makes of a present one.
CreatedRows ==
  [status: {"candidate", "active"}, revision: {1}, subject: Subjects,
   fingerprint: Fingerprints \cup {None},
   protection: {"plaintext", "envelope_encrypted"}, deadline: BOOLEAN]

Successors(row) ==
  [status: Statuses \ {"absent"}, revision: {row.revision + 1}, subject: {row.subject},
   fingerprint: Fingerprints \cup {None}, protection: Protections, deadline: {FALSE}]

\* The after-image an operation carries for a row.
MadeRow(op, row, after) ==
  /\ op \in RowOperations
  /\ op \in Creates => after \in CreatedRows
  /\ op \notin Creates => after \in Successors(row)
  /\ op = "revised" => after.status = row.status
  /\ op = "tombstoned" => after.fingerprint = None
  /\ op = "payload_purge_completed" => after.fingerprint = row.fingerprint
  /\ op \notin Creates \cup {"payload_purge_completed"} => after.protection = row.protection
  /\ op \in {"retired", "tombstoned"} => row.status # "disputed"

Made(e) == \A m \in Targets(e) : MadeRow(e.op, live.memories[m], e.after[m])

\* What a typed row becomes by _updated_memory, with the status given.
LEMMA UpdatedRow ==
  ASSUME NEW row \in Rows, NEW status \in Statuses \ {"absent"}
  PROVE  /\ Updated(row, status) \in Successors(row)
         /\ Updated(row, status).status = status
         /\ Updated(row, status).fingerprint = row.fingerprint
         /\ Updated(row, status).protection = row.protection
BY Zenon DEF Updated, Successors, Rows

\* An event about one memory, with or without evidence or a mode.
LEMMA OneTarget ==
  ASSUME NEW m \in MemoryIds, NEW op, NEW previous, NEW after,
         NEW evidence \in SUBSET ({m} \X Sources),
         op \in Creates \cup Lifecycle \/ evidence = {},
         op \notin Conflicting,
         NEW e, e.op = op, e.after = One(m, after), e.evidence = evidence, e.link = NoLink,
         MadeRow(op, live.memories[m], after)
  PROVE  Wellformed(e) /\ Made(e)
<1>1. Targets(e) = {m} /\ e.after[m] = after
  BY DEF Targets, One
<1>2. Made(e)
  BY <1>1 DEF Made
<1>3. Wellformed(e)
  BY <1>1 DEF Wellformed
<1> QED BY <1>2, <1>3

\* What an accepted command with event e does to the tables and to the rebuild.
Step(c, e) ==
  /\ Wellformed(e) /\ Made(e) /\ WithinBound(e)
  /\ FoldAccepts(live, e)
  /\ Storable(FoldEvent(live, e))
  /\ tables' = [live |-> FoldEvent(live, e), keys |-> KeysAfter(tables, c, e),
                decisions |-> DecisionsAfter(tables, c, e)]
  /\ replay' = Rebuilt(e)
  /\ c.kind = "nominate" => c.outcome \in {"candidate", "active"}
                            /\ c.fingerprint \in Fingerprints

\* An accepted command was prepared, and its event passed the reducer and the table.
LEMMA Executed ==
  ASSUME NEW c, Execute(c), NEW e, e = Prepare(tables, c).event,
         Prepare(tables, c).code = "ok" => Wellformed(e) /\ Made(e),
         c.kind = "nominate" => c.outcome \in {"candidate", "active"}
                                /\ c.fingerprint \in Fingerprints
  PROVE  Step(c, e)
<1> DEFINE a == Answer(tables, c)
           p == Prepare(tables, c)
<1>1. p.code = "ok" /\ a = p /\ FoldAccepts(LoadProjection(live, e), e)
      /\ Storable(StageProjection(live, e))
  <2>1. a.code = "ok"
    BY Zenon DEF Execute
  <2>2. a = IF p.code # "ok" THEN p
            ELSE IF ~FoldAccepts(LoadProjection(live, e), e) THEN Refuse("invalid_input")
            ELSE IF ~Storable(StageProjection(live, e)) THEN Refuse("dependency_unavailable")
            ELSE p
    BY Zenon DEF Answer, live
  <2>3. Refuse("invalid_input").code # "ok" /\ Refuse("dependency_unavailable").code # "ok"
    BY Zenon DEF Refuse
  <2> HIDE DEF a, p
  <2> QED BY <2>1, <2>2, <2>3
<1>2. WithinBound(e) /\ tables' = Staged(tables, c, e) /\ replay' = Rebuilt(e)
  BY Zenon, <1>1 DEF Execute
<1>3. Wellformed(e) /\ Made(e)
  BY Zenon, <1>1
<1>4. FoldAccepts(live, e) /\ StageProjection(live, e) = FoldEvent(live, e)
  BY Zenon, <1>1, <1>3, LoadSuffices, StageIsFold
<1> QED BY <1>1, <1>2, <1>3, <1>4 DEF Step, Staged, live

----------------------------------------------------------------------------
(* Each action is such a step.                                              *)

\* observe and remember refuse a live duplicate and create one plaintext memory.
LEMMA CreateFits ==
  ASSUME NEW c, c.kind = "observe" \/ c.kind = "remember", c.memory \in MemoryIds,
         c.subject \in Subjects, c.fingerprint \in Fingerprints
  PROVE  LET e == Prepare(tables, c).event
             m == c.memory
         IN /\ Prepare(tables, c).code # "dependency_unavailable"
            /\ Prepare(tables, c).code = "ok" =>
                 /\ Wellformed(e) /\ Made(e)
                 /\ Matches(live, c.subject, c.fingerprint, Live) = {}
                 /\ Targets(e) = {m}
                 /\ e.after[m].subject = c.subject /\ e.after[m].fingerprint = c.fingerprint
                 /\ e.after[m].deadline = FALSE
<1> DEFINE e == Prepare(tables, c).event
           m == c.memory
           s == c.subject
           f == c.fingerprint
           k == c.kind
           op == IF k = "observe" THEN "observed" ELSE "remembered"
           row == Row(IF k = "observe" THEN "candidate" ELSE "active", 1, s, f,
                      "plaintext", FALSE)
<1>1. PrepareCreate(tables, c) =
        IF Matches(live, s, f, Live) # {} THEN Refuse("invalid_input")
        ELSE Propose(Event(op, <<>>, One(m, row)))
  BY Zenon DEF PrepareCreate, live
<1>2. Prepare(tables, c) \in {Refuse("not_found"), Refuse("invalid_input"),
                              PrepareCreate(tables, c)}
  BY Zenon DEF Prepare
<1>3. MadeRow(op, live.memories[m], row) /\ row.subject = s /\ row.fingerprint = f
      /\ row.deadline = FALSE
  BY Zenon DEF MadeRow, Row, RowOperations, CreatedRows, Creates
<1>4. op \in Creates /\ op \notin Conflicting
  BY Zenon DEF Creates, Conflicting
<1> HIDE DEF op, row
<1>5. Prepare(tables, c).code # "dependency_unavailable"
  BY <1>1, <1>2 DEF Refuse, Propose
<1>6. ASSUME Prepare(tables, c).code = "ok"
      PROVE  Matches(live, s, f, Live) = {} /\ e = Event(op, <<>>, One(m, row))
  BY <1>1, <1>2, <1>6 DEF Refuse, Propose
<1>7. ASSUME Prepare(tables, c).code = "ok"
      PROVE  /\ Wellformed(e) /\ Made(e)
             /\ Targets(e) = {m} /\ e.after[m] = row
  <2>1. e.op = op /\ e.after = One(m, row) /\ e.evidence = {} /\ e.link = NoLink
    BY <1>6, <1>7 DEF Event
  <2>2. Wellformed(e) /\ Made(e)
    BY Zenon, <1>3, <1>4, <2>1, OneTarget
  <2> QED BY Zenon, <2>1, <2>2 DEF Targets, One
<1> QED BY ZenonT(60), <1>3, <1>5, <1>6, <1>7

\* Observe is a step of one command with one event.
LEMMA ObserveStep == TypeOK /\ Observe => \E c, e : Step(c, e)
<1> SUFFICES ASSUME TypeOK, NEW m \in MemoryIds, NEW s \in Subjects, NEW f \in Fingerprints,
                    NEW k \in {"observe", "remember"},
                    Execute([kind |-> k, memory |-> m, subject |-> s, fingerprint |-> f])
             PROVE  \E c, e : Step(c, e)
  BY Zenon DEF Observe
<1> DEFINE c == [kind |-> k, memory |-> m, subject |-> s, fingerprint |-> f]
           e == Prepare(tables, c).event
<1>1. /\ Execute(c) /\ c.kind # "nominate"
      /\ c.kind = "observe" \/ c.kind = "remember"
      /\ c.memory \in MemoryIds
      /\ c.subject \in Subjects /\ c.fingerprint \in Fingerprints
      /\ e = Prepare(tables, c).event
  OBVIOUS
<1> HIDE DEF e, c
<1>2. Prepare(tables, c).code = "ok" => Wellformed(e) /\ Made(e)
  BY Zenon, <1>1, CreateFits
<1>3. Step(c, e)
  BY <1>1, <1>2, Executed DEF e
<1> QED BY <1>3

\* revise refuses a stale revision and a live duplicate, and gives one memory new content.
LEMMA ReviseFits ==
  ASSUME TypeOK, NEW c, c.kind = "revise", c.memory \in MemoryIds,
         c.fingerprint \in Fingerprints
  PROVE  LET e == Prepare(tables, c).event
             m == c.memory
         IN /\ Prepare(tables, c).code # "dependency_unavailable"
            /\ Prepare(tables, c).code = "ok" =>
                 /\ Wellformed(e) /\ Made(e)
                 /\ Matches(live, live.memories[m].subject, c.fingerprint, Live) \ {m} = {}
                 /\ Targets(e) = {m} /\ e.after[m].fingerprint = c.fingerprint
                 /\ e.after[m].subject = live.memories[m].subject
                 /\ e.after[m].deadline = FALSE
<1> DEFINE e == Prepare(tables, c).event
           m == c.memory
           f == c.fingerprint
           r == c.revision
           row == live.memories[m]
           u == Updated(row, row.status)
           after == Revised(row, f)
           others == Matches(live, row.subject, f, Live) \ {m}
<1>1. /\ Prepare(tables, c) \in {Refuse("not_found"), Refuse("invalid_input"),
                                 PrepareRevise(tables, c)}
      /\ Exists(live, m) \/ Prepare(tables, c) = Refuse("not_found")
  BY DEF Prepare, Named, live
<1>2. PrepareRevise(tables, c) =
        IF row.revision # r THEN Refuse("stale_revision")
        ELSE IF others # {} THEN Refuse("invalid_input")
        ELSE Propose(Transition("revised", m, row, after))
  BY DEF PrepareRevise, live
<1> HIDE DEF others, after
<1>3. Prepare(tables, c).code # "dependency_unavailable"
  BY <1>1, <1>2 DEF Refuse, Propose
<1>4. ASSUME Prepare(tables, c).code = "ok"
      PROVE  /\ Exists(live, m) /\ others = {}
             /\ e = Transition("revised", m, row, after)
  BY <1>1, <1>2, <1>4 DEF Refuse, Propose
<1>5. ASSUME Prepare(tables, c).code = "ok"
      PROVE  after \in Successors(row) /\ after.status = row.status
             /\ after.protection = row.protection /\ after.fingerprint = f
  <2>1. row \in Rows /\ row.status \in Statuses \ {"absent"}
    BY <1>4, <1>5 DEF TypeOK, Exists, Rows
  <2>2. u \in Successors(row) /\ u.status = row.status /\ u.protection = row.protection
    BY <2>1, UpdatedRow
  <2>3. after = [u EXCEPT !.fingerprint = f]
    BY DEF Revised, after
  <2> HIDE DEF u
  <2> QED BY Zenon, <2>2, <2>3 DEF Successors
<1>6. ASSUME Prepare(tables, c).code = "ok"
      PROVE  Wellformed(e) /\ Made(e) /\ Targets(e) = {m} /\ e.after[m] = after
  <2>1. MadeRow("revised", row, after)
    BY <1>5, <1>6 DEF MadeRow, RowOperations, Creates
  <2>2. e.op = "revised" /\ e.after = One(m, after) /\ e.evidence = {} /\ e.link = NoLink
    BY <1>4, <1>6 DEF Event, Transition
  <2>3. "revised" \notin Conflicting
    BY Zenon DEF Conflicting
  <2>4. Wellformed(e) /\ Made(e)
    BY Zenon, <2>1, <2>2, <2>3, OneTarget
  <2> QED BY <2>2, <2>4 DEF Targets, One
<1>7. ASSUME Prepare(tables, c).code = "ok"
      PROVE  after.subject = row.subject /\ after.deadline = FALSE
  BY Zenon, <1>5, <1>7 DEF Successors
<1> QED BY Zenon, <1>3, <1>4, <1>5, <1>6, <1>7 DEF others

\* So is Revise,
LEMMA ReviseStep == TypeOK /\ Revise => \E c, e : Step(c, e)
<1> SUFFICES ASSUME TypeOK, NEW m \in MemoryIds, NEW f \in Fingerprints, NEW r,
                    Execute([kind |-> "revise", memory |-> m, revision |-> r,
                             fingerprint |-> f])
             PROVE  \E c, e : Step(c, e)
  BY Zenon DEF Revise
<1> DEFINE c == [kind |-> "revise", memory |-> m, revision |-> r, fingerprint |-> f]
           e == Prepare(tables, c).event
<1>1. /\ Execute(c) /\ c.kind # "nominate"
      /\ c.kind = "revise" /\ c.memory = m /\ c.revision = r /\ c.fingerprint = f
      /\ e = Prepare(tables, c).event
  BY Zenon
<1> HIDE DEF e, c
<1>2. Prepare(tables, c).code = "ok" => Wellformed(e) /\ Made(e)
  BY Zenon, <1>1, ReviseFits
<1>3. Step(c, e)
  BY <1>1, <1>2, Executed DEF e
<1> QED BY <1>3

\* and Link,
LEMMA LinkStep == TypeOK /\ Link => \E c, e : Step(c, e)
<1> SUFFICES ASSUME TypeOK, NEW m \in MemoryIds, NEW n \in MemoryIds, NEW r, NEW q,
                    Execute([kind |-> "link", source |-> m, target |-> n,
                             sourceRevision |-> r, targetRevision |-> q])
             PROVE  \E c, e : Step(c, e)
  BY DEF Link
<1> DEFINE c == [kind |-> "link", source |-> m, target |-> n,
                 sourceRevision |-> r, targetRevision |-> q]
           e == Prepare(tables, c).event
<1>1. ASSUME Prepare(tables, c).code = "ok" PROVE Wellformed(e) /\ Made(e)
  <2>1. Prepare(tables, c) = PrepareLink(tables, c)
    BY <1>1 DEF Prepare, Refuse
  <2>2. e = [Event("linked", <<>>, <<>>) EXCEPT !.link = <<m, n>>]
    BY <1>1, <2>1 DEF PrepareLink, Refuse, Propose
  <2>3. e.op = "linked" /\ e.after = <<>> /\ e.evidence = {} /\ e.link = <<m, n>>
    BY Zenon, <2>2 DEF Event
  <2>4. Targets(e) = {}
    BY <2>3 DEF Targets
  <2>5. "linked" \notin Conflicting
    BY Zenon DEF Conflicting
  <2> HIDE DEF e
  <2> QED BY <2>3, <2>4, <2>5 DEF Wellformed, Made
<1>2. c.kind # "nominate"
  BY Zenon
<1> HIDE DEF e
<1>3. Step(c, e)
  BY Zenon, <1>1, <1>2, Executed DEF e
<1> QED BY <1>3

\* OpenConflict,
LEMMA OpenConflictStep == TypeOK /\ OpenConflict => \E c, e : Step(c, e)
<1> SUFFICES ASSUME TypeOK, NEW k \in ConflictIds, NEW x \in Expectations, NEW s \in Subjects,
                    Execute([kind |-> "open_conflict", conflict |-> k, expected |-> x,
                             subject |-> s])
             PROVE  \E c, e : Step(c, e)
  BY Zenon DEF OpenConflict
<1> DEFINE c == [kind |-> "open_conflict", conflict |-> k, expected |-> x, subject |-> s]
           e == Prepare(tables, c).event
           after == [m \in DOMAIN x |-> Updated(live.memories[m], "disputed")]
<1>0. DOMAIN x \subseteq MemoryIds
  BY DEF Expectations
<1>1. ASSUME Prepare(tables, c).code = "ok" PROVE Wellformed(e) /\ Made(e)
  <2>1. Prepare(tables, c) = PrepareOpenConflict(tables, c)
    BY Zenon, <1>1 DEF Prepare, Refuse
  <2>2. e = [Event("conflict_opened", x, after) EXCEPT !.conflict = k]
    BY <1>1, <2>1 DEF PrepareOpenConflict, Refuse, Propose, live
  <2>3. e.op = "conflict_opened" /\ e.after = after /\ e.evidence = {} /\ e.link = NoLink
        /\ e.conflict = k
    BY Zenon, <2>2 DEF Event
  <2> HIDE DEF e
  <2>4. Targets(e) = DOMAIN x
    BY <2>3 DEF Targets
  <2>5. Wellformed(e)
    BY <1>0, <2>3, <2>4 DEF Wellformed
  <2>6. ASSUME NEW m \in DOMAIN x PROVE MadeRow(e.op, live.memories[m], e.after[m])
    <3>1. live.memories[m] \in Rows /\ "disputed" \in Statuses \ {"absent"}
      BY <1>0 DEF TypeOK, Statuses, Live
    <3>2. e.after[m] = Updated(live.memories[m], "disputed")
      BY Zenon, <2>3
    <3> QED BY <2>3, <3>1, <3>2, UpdatedRow DEF MadeRow, RowOperations, Creates, Conflicting
  <2> QED BY Zenon, <2>4, <2>5, <2>6 DEF Made
<1>2. c.kind # "nominate"
  BY Zenon
<1> HIDE DEF e
<1>3. Step(c, e)
  BY Zenon, <1>1, <1>2, Executed DEF e
<1> QED BY Zenon, <1>3

\* ResolveConflict,
LEMMA ResolveConflictStep == TypeOK /\ ResolveConflict => \E c, e : Step(c, e)
<1> SUFFICES ASSUME TypeOK, NEW k \in ConflictIds, NEW x \in Expectations, NEW ok \in BOOLEAN,
                    NEW results \in [DOMAIN x -> {"active"} \cup Settled],
                    Execute([kind |-> "resolve_conflict", conflict |-> k, expected |-> x,
                             result |-> results, confirmed |-> ok])
             PROVE  \E c, e : Step(c, e)
  BY Zenon DEF ResolveConflict
<1> DEFINE c == [kind |-> "resolve_conflict", conflict |-> k, expected |-> x,
                 result |-> results, confirmed |-> ok]
           e == Prepare(tables, c).event
           after == [m \in DOMAIN x |-> Updated(live.memories[m], results[m])]
<1>0. DOMAIN x \subseteq MemoryIds
  BY DEF Expectations
<1>1. ASSUME Prepare(tables, c).code = "ok" PROVE Wellformed(e) /\ Made(e)
  <2>1. Prepare(tables, c) = PrepareResolveConflict(tables, c)
    BY Zenon, <1>1 DEF Prepare, Refuse
  <2>2. e = [Event("conflict_resolved", x, after) EXCEPT !.conflict = k]
    BY <1>1, <2>1 DEF PrepareResolveConflict, Refuse, Propose, live
  <2>3. e.op = "conflict_resolved" /\ e.after = after /\ e.evidence = {} /\ e.link = NoLink
        /\ e.conflict = k
    BY Zenon, <2>2 DEF Event
  <2> HIDE DEF e
  <2>4. Targets(e) = DOMAIN x
    BY <2>3 DEF Targets
  <2>5. Wellformed(e)
    BY <1>0, <2>3, <2>4 DEF Wellformed
  <2>6. ASSUME NEW m \in DOMAIN x PROVE MadeRow(e.op, live.memories[m], e.after[m])
    <3>1. live.memories[m] \in Rows /\ results[m] \in Statuses \ {"absent"}
      BY Zenon, <1>0 DEF TypeOK, Statuses, Live, Settled
    <3>2. e.after[m] = Updated(live.memories[m], results[m])
      BY Zenon, <2>3
    <3> QED BY <2>3, <3>1, <3>2, UpdatedRow DEF MadeRow, RowOperations, Creates, Conflicting
  <2> QED BY Zenon, <2>4, <2>5, <2>6 DEF Made
<1>2. c.kind # "nominate"
  BY Zenon
<1> HIDE DEF e
<1>3. Step(c, e)
  BY Zenon, <1>1, <1>2, Executed DEF e
<1> QED BY Zenon, <1>3

\* Retire,
LEMMA RetireStep == TypeOK /\ Retire => \E c, e : Step(c, e)
<1> SUFFICES ASSUME TypeOK, NEW m \in MemoryIds, NEW r,
                    Execute([kind |-> "retire", memory |-> m, revision |-> r])
             PROVE  \E c, e : Step(c, e)
  BY Zenon DEF Retire
<1> DEFINE c == [kind |-> "retire", memory |-> m, revision |-> r]
           e == Prepare(tables, c).event
           row == live.memories[m]
           after == Updated(row, "retired")
<1>1. ASSUME Prepare(tables, c).code = "ok" PROVE Wellformed(e) /\ Made(e)
  <2>1. Prepare(tables, c) = PrepareRetire(tables, c)
    BY Zenon, <1>1 DEF Prepare, Refuse
  <2>2. e = Transition("retired", m, row, after) /\ row.status # "disputed"
    BY <1>1, <2>1 DEF PrepareRetire, Refuse, Propose, live, RejectsDisputed
  <2>3. row \in Rows /\ "retired" \in Statuses \ {"absent"}
    BY Zenon DEF TypeOK, Statuses, Settled
  <2>4. MadeRow("retired", row, after)
    BY Zenon, <2>2, <2>3, UpdatedRow DEF MadeRow, RowOperations, Creates
  <2>5. e.op = "retired" /\ e.after = One(m, after) /\ e.evidence = {} /\ e.link = NoLink
    BY <2>2 DEF Event, Transition
  <2>6. "retired" \notin Conflicting
    BY Zenon DEF Conflicting
  <2> HIDE DEF e
  <2> QED BY Zenon, <2>4, <2>5, <2>6, OneTarget
<1>2. c.kind # "nominate"
  BY Zenon
<1> HIDE DEF e
<1>3. Step(c, e)
  BY Zenon, <1>1, <1>2, Executed DEF e
<1> QED BY Zenon, <1>3

\* Forget,
LEMMA ForgetStep == TypeOK /\ Forget => \E c, e : Step(c, e)
<1> SUFFICES ASSUME TypeOK, NEW m \in MemoryIds, NEW mode \in {"logical", "hard"}, NEW r,
                    Execute([kind |-> "forget", memory |-> m, revision |-> r, mode |-> mode])
             PROVE  \E c, e : Step(c, e)
  BY Zenon DEF Forget
<1> DEFINE c == [kind |-> "forget", memory |-> m, revision |-> r, mode |-> mode]
           e == Prepare(tables, c).event
           row == live.memories[m]
           u == Updated(row, "tombstoned")
           after == Tombstone(row)
<1>1. ASSUME Prepare(tables, c).code = "ok" PROVE Wellformed(e) /\ Made(e)
  <2>1. Prepare(tables, c) = PrepareForget(tables, c)
    BY <1>1 DEF Prepare, Refuse
  <2>2. e = [Transition("tombstoned", m, row, after) EXCEPT !.mode = mode]
        /\ row.status # "disputed"
    BY <1>1, <2>1 DEF PrepareForget, Refuse, Propose, live, RejectsDisputed
  <2>3. row \in Rows /\ "tombstoned" \in Statuses \ {"absent"}
    BY Zenon DEF TypeOK, Statuses
  <2>4. u \in Successors(row) /\ u.protection = row.protection
    BY Zenon, <2>3, UpdatedRow
  <2>5. after = [u EXCEPT !.fingerprint = None]
    BY Zenon DEF Tombstone
  <2>6. e.op = "tombstoned" /\ e.after = One(m, after) /\ e.evidence = {} /\ e.link = NoLink
    BY Zenon, <2>2 DEF Event, Transition
  <2> HIDE DEF u, after, e
  <2>7. MadeRow("tombstoned", row, after)
    <3>1. after \in Successors(row) /\ after.fingerprint = None
          /\ after.protection = row.protection
      BY Zenon, <2>4, <2>5 DEF Successors
    <3> QED BY Zenon, <2>2, <3>1 DEF MadeRow, RowOperations, Creates
  <2>8. "tombstoned" \notin Conflicting
    BY DEF Conflicting
  <2> QED BY Zenon, <2>6, <2>7, <2>8, OneTarget
<1>2. c.kind # "nominate"
  OBVIOUS
<1> HIDE DEF e
<1>3. Step(c, e)
  BY <1>1, <1>2, Executed DEF e
<1> QED BY Zenon, <1>3

\* Expire,
LEMMA ExpireStep == TypeOK /\ Expire => \E c, e : Step(c, e)
<1> SUFFICES ASSUME TypeOK, NEW m \in MemoryIds, NEW due \in BOOLEAN,
                    Execute([kind |-> "expire", memory |-> m, revision |-> 1, due |-> due])
             PROVE  \E c, e : Step(c, e)
  BY DEF Expire
<1> DEFINE c == [kind |-> "expire", memory |-> m, revision |-> 1, due |-> due]
           e == Prepare(tables, c).event
           row == live.memories[m]
           after == Updated(row, "retired")
<1>1. ASSUME Prepare(tables, c).code = "ok" PROVE Wellformed(e) /\ Made(e)
  <2>1. Prepare(tables, c) = PrepareExpire(tables, c)
    BY Zenon, <1>1 DEF Prepare, Refuse
  <2>2. e = Transition("candidate_expired", m, row, after)
    BY <1>1, <2>1 DEF PrepareExpire, Refuse, Propose, live
  <2>3. row \in Rows /\ "retired" \in Statuses \ {"absent"}
    BY Zenon DEF TypeOK, Statuses, Settled
  <2>4. MadeRow("candidate_expired", row, after)
    BY Zenon, <2>2, <2>3, UpdatedRow DEF MadeRow, RowOperations, Creates, Lifecycle
  <2>5. /\ e.op = "candidate_expired" /\ e.after = One(m, after)
        /\ e.evidence = {} /\ e.link = NoLink
    BY <2>2 DEF Event, Transition
  <2>6. "candidate_expired" \notin Conflicting
    BY Zenon DEF Conflicting
  <2> HIDE DEF e
  <2> QED BY Zenon, <2>4, <2>5, <2>6, OneTarget
<1>2. c.kind # "nominate"
  BY Zenon
<1> HIDE DEF e
<1>3. Step(c, e)
  BY Zenon, <1>1, <1>2, Executed DEF e
<1> QED BY <1>3

\* Purge
LEMMA PurgeStep == TypeOK /\ Purge => \E c, e : Step(c, e)
<1> SUFFICES ASSUME TypeOK, NEW m \in MemoryIds, NEW r,
                    Execute([kind |-> "purge", memory |-> m, revision |-> r])
             PROVE  \E c, e : Step(c, e)
  BY Zenon DEF Purge
<1> DEFINE c == [kind |-> "purge", memory |-> m, revision |-> r]
           e == Prepare(tables, c).event
           row == live.memories[m]
           u == Updated(row, "tombstoned")
           after == [u EXCEPT !.protection = "cryptographically_erased"]
<1>1. ASSUME Prepare(tables, c).code = "ok" PROVE Wellformed(e) /\ Made(e)
  <2>1. Prepare(tables, c) = PreparePurge(tables, c)
    BY Zenon, <1>1 DEF Prepare, Refuse
  <2>2. e = Transition("payload_purge_completed", m, row, after)
    BY <1>1, <2>1 DEF PreparePurge, Refuse, Propose, live
  <2>3. row \in Rows /\ "tombstoned" \in Statuses \ {"absent"}
    BY Zenon DEF TypeOK, Statuses
  <2>4. u \in Successors(row) /\ u.fingerprint = row.fingerprint
    BY Zenon, <2>3, UpdatedRow
  <2>5. /\ e.op = "payload_purge_completed" /\ e.after = One(m, after)
        /\ e.evidence = {} /\ e.link = NoLink
    BY <2>2 DEF Event, Transition
  <2> HIDE DEF u, e
  <2>6. MadeRow("payload_purge_completed", row, after)
    <3>1. after \in Successors(row) /\ after.fingerprint = row.fingerprint
      BY Zenon, <2>4 DEF Successors, Protections
    <3> HIDE DEF after
    <3> QED BY Zenon, <3>1 DEF MadeRow, RowOperations, Creates
  <2>7. "payload_purge_completed" \notin Conflicting
    BY DEF Conflicting
  <2> HIDE DEF after
  <2> QED BY Zenon, <2>5, <2>6, <2>7, OneTarget
<1>2. c.kind # "nominate"
  OBVIOUS
<1> HIDE DEF e
<1>3. Step(c, e)
  BY <1>1, <1>2, Executed DEF e
<1> QED BY Zenon, <1>3

\* A nomination creates its memory with its evidence.
LEMMA SelectedFits ==
  ASSUME NEW m \in MemoryIds, NEW s \in Subjects, NEW f \in Fingerprints, NEW v \in Sources,
         NEW c, c.memory = m, c.subject = s, c.fingerprint = f, c.evidence = v,
         c.outcome \in {"candidate", "active"}, c.sealed \in BOOLEAN,
         c.sealed => c.outcome = "active",
         NEW e, e = PrepareSelected(c).event
  PROVE  Wellformed(e) /\ Made(e)
<1> DEFINE row == Row(c.outcome, 1, s, IF c.sealed THEN None ELSE f,
                      IF c.sealed THEN "envelope_encrypted" ELSE "plaintext",
                      c.outcome = "candidate")
           op == IF c.outcome = "candidate" THEN "observed" ELSE "remembered"
           evidence == IF c.sealed THEN {} ELSE {<<m, v>>}
<1>1. e = [Event(op, <<>>, One(m, row)) EXCEPT !.evidence = evidence]
  BY Zenon DEF PrepareSelected, Propose
<1>2. row \in CreatedRows
  BY Zenon DEF Row, CreatedRows
<1>3. op \in Creates /\ op \notin Conflicting
  BY Zenon DEF Creates, Conflicting
<1>4. evidence \in SUBSET ({m} \X Sources)
  OBVIOUS
<1> HIDE DEF row, op, evidence
<1>5. e.op = op /\ e.after = One(m, row) /\ e.evidence = evidence /\ e.link = NoLink
  BY Zenon, <1>1 DEF Event
<1>6. MadeRow(op, live.memories[m], row)
  BY Zenon, <1>2, <1>3 DEF MadeRow, RowOperations, Creates
<1> QED BY Zenon, <1>3, <1>4, <1>5, <1>6, OneTarget

\* A nomination of a candidate that is already there promotes it.
LEMMA PromotionFits ==
  ASSUME TypeOK, NEW m \in MemoryIds, NEW v \in Sources, NEW c, c.evidence = v,
         PreparePromotion(tables, c, m).code = "ok",
         NEW e, e = PreparePromotion(tables, c, m).event
  PROVE  Wellformed(e) /\ Made(e)
<1> DEFINE row == live.memories[m]
           after == Updated(row, "active")
<1>1. e = [Transition("candidate_promoted", m, row, after) EXCEPT !.evidence = {<<m, v>>}]
  BY DEF PreparePromotion, Refuse, Propose, live
<1>2. row \in Rows /\ "active" \in Statuses \ {"absent"}
  BY DEF TypeOK, Statuses, Live
<1>3. MadeRow("candidate_promoted", row, after)
  BY Zenon, <1>2, UpdatedRow DEF MadeRow, RowOperations, Creates, Lifecycle
<1>4. /\ e.op = "candidate_promoted" /\ e.after = One(m, after)
      /\ e.evidence = {<<m, v>>} /\ e.link = NoLink
  BY Zenon, <1>1 DEF Event, Transition
<1>5. "candidate_promoted" \in Lifecycle /\ "candidate_promoted" \notin Conflicting
  BY Zenon DEF Lifecycle, Conflicting
<1>6. {<<m, v>>} \in SUBSET ({m} \X Sources)
  OBVIOUS
<1> HIDE DEF after
<1> QED BY Zenon, <1>3, <1>4, <1>5, <1>6, OneTarget

\* and Nominate.
LEMMA NominateStep == TypeOK /\ Nominate => \E c, e : Step(c, e)
<1> SUFFICES ASSUME TypeOK, Nominate PROVE \E c, e : Step(c, e)
  BY Zenon
<1> DEFINE nomination(m, s, f, verdict) ==
             [kind |-> "nominate", memory |-> m, subject |-> s, fingerprint |-> f,
              evidence |-> None, outcome |-> verdict[1], sealed |-> verdict[2],
              promotes |-> FALSE]
<1>a. PICK m \in MemoryIds, s \in Subjects, f \in Fingerprints, verdict \in Verdicts :
        \E v \in Sources, promotes \in BOOLEAN :
          Execute([nomination(m, s, f, verdict) EXCEPT !.evidence = v, !.promotes = promotes])
  BY Zenon DEF Nominate
<1>b. PICK v \in Sources, promotes \in BOOLEAN :
        Execute([nomination(m, s, f, verdict) EXCEPT !.evidence = v, !.promotes = promotes])
  BY Zenon, <1>a
<1> DEFINE c == [nomination(m, s, f, verdict) EXCEPT !.evidence = v, !.promotes = promotes]
           e == Prepare(tables, c).event
           d == CHOOSE x \in Duplicates(tables, c) : TRUE
<1>0. /\ c.kind = "nominate" /\ c.memory = m /\ c.subject = s /\ c.fingerprint = f
      /\ c.evidence = v /\ c.outcome \in {"candidate", "active"} /\ c.sealed \in BOOLEAN
      /\ c.sealed => c.outcome = "active"
  <2>1. /\ verdict[1] \in {"candidate", "active"} /\ verdict[2] \in BOOLEAN
        /\ verdict[2] => verdict[1] = "active"
    <3>1. CASE verdict = <<"candidate", FALSE>> BY <3>1
    <3>2. CASE verdict = <<"active", FALSE>> BY <3>2
    <3>3. CASE verdict = <<"active", TRUE>> BY <3>3
    <3> QED BY Zenon, <3>1, <3>2, <3>3 DEF Verdicts
  <2> QED BY Zenon, <2>1
<1> HIDE DEF c
<1>1. ASSUME Prepare(tables, c).code = "ok" PROVE Wellformed(e) /\ Made(e)
  <2>1. Prepare(tables, c) = PrepareNominate(tables, c)
    BY <1>0, <1>1 DEF Prepare, Refuse
  <2>2. \/ Prepare(tables, c) = PrepareSelected(c)
        \/ Duplicates(tables, c) # {} /\ Prepare(tables, c) = PreparePromotion(tables, c, d)
    BY <1>0, <1>1, <2>1 DEF PrepareNominate, Refuse
  <2>3. CASE Prepare(tables, c) = PrepareSelected(c)
    BY Zenon, <1>0, <2>3, SelectedFits
  <2>4. CASE Duplicates(tables, c) # {} /\ Prepare(tables, c) = PreparePromotion(tables, c, d)
    <3>1. d \in MemoryIds
      BY Zenon, <2>4 DEF Duplicates, Matches
    <3> HIDE DEF d
    <3> QED BY Zenon, <1>0, <1>1, <2>4, <3>1, PromotionFits
  <2> QED BY <2>2, <2>3, <2>4
<1> HIDE DEF e
<1>2. Step(c, e)
  BY Zenon, <1>0, <1>1, <1>b, Executed DEF c, e
<1> QED BY Zenon, <1>2

\* Every action is an accepted command of some writer.
LEMMA NextIsStep == TypeOK /\ Next => \E c, e : Step(c, e)
BY ObserveStep, ReviseStep, LinkStep, OpenConflictStep, ResolveConflictStep, RetireStep,
   ForgetStep, NominateStep, ExpireStep, PurgeStep
DEF Next

----------------------------------------------------------------------------
(* What a step does to the rows, the keys and the conflicts.                *)

\* The rows, evidence, links and conflicts after a step.
LEMMA LiveAfter ==
  ASSUME NEW c, NEW e, Step(c, e)
  PROVE  /\ live' = FoldEvent(live, e)
         /\ \A m \in MemoryIds :
              live.memories[m]' = IF m \in Targets(e) THEN e.after[m] ELSE live.memories[m]
         /\ \A k \in ConflictIds :
              live.conflicts[k]' =
                IF e.op \notin Conflicting \/ k # e.conflict THEN live.conflicts[k]
                ELSE [status |-> ConflictStatus(e.op), members |-> Targets(e)]
         /\ tables'.keys = KeysAfter(tables, c, e)
         /\ tables'.decisions = DecisionsAfter(tables, c, e)
<1>1. tables'.live = FoldEvent(live, e) /\ tables'.keys = KeysAfter(tables, c, e)
      /\ tables'.decisions = DecisionsAfter(tables, c, e)
  BY Zenon DEF Step
<1>2. live' = FoldEvent(live, e)
  BY Zenon, <1>1 DEF live
<1>3. \A m \in MemoryIds : FoldEvent(live, e).memories[m] =
        IF m \in Targets(e) THEN e.after[m] ELSE live.memories[m]
  BY Zenon DEF FoldEvent
<1>4. \A k \in ConflictIds : FoldEvent(live, e).conflicts[k] =
        IF e.op \notin Conflicting \/ k # e.conflict THEN live.conflicts[k]
        ELSE [status |-> ConflictStatus(e.op), members |-> Targets(e)]
  BY Zenon DEF FoldEvent
<1> QED BY <1>1, <1>2, <1>3, <1>4

\* What the reducer's checks and the writers' after-images say of one target.
LEMMA TargetRow ==
  ASSUME TypeOK, NEW c, NEW e, Step(c, e), NEW m \in Targets(e)
  PROVE  /\ m \in MemoryIds /\ live.memories[m] \in Rows
         /\ MadeRow(e.op, live.memories[m], e.after[m])
         /\ CheckLifecycle(e.op, live.memories[m].status, e.after[m].status)
         /\ CheckProtection(live, e, m)
         /\ e.op \in Creates <=> live.memories[m].status = "absent"
         /\ e.op \notin Creates /\ live.memories[m].protection # "plaintext" =>
              e.op \in {"tombstoned", "payload_purge_completed"}
         /\ e.after[m].revision <= MaxRevision
<1>1. m \in MemoryIds /\ MadeRow(e.op, live.memories[m], e.after[m])
  BY Zenon DEF Step, Wellformed, Made
<1>2. live.memories[m] \in Rows
  BY Zenon, <1>1 DEF TypeOK
<1>3. e.after[m].revision <= MaxRevision
  BY Zenon DEF Step, WithinBound
<1>4. FoldAccepts(live, e)
  BY Zenon DEF Step
<1> QED BY Zenon, <1>1, <1>2, <1>3, <1>4 DEF FoldAccepts, CreateAccepted, CheckRevision, Exists

\* The shapes of the tables survive a step.
LEMMA TypeStep ==
  ASSUME TypeOK, NEW c, NEW e, Step(c, e)
  PROVE  TypeOK'
<1>0. Wellformed(e)
  BY Zenon DEF Step
<1>l. live' = FoldEvent(live, e)
  BY Zenon, LiveAfter
<1>a. live.memories' = [m \in MemoryIds |->
        IF m \in Targets(e) THEN e.after[m] ELSE live.memories[m]]
  BY <1>l DEF FoldEvent
<1>b. live.evidence' = live.evidence \cup e.evidence
      /\ live.links' = IF e.link = NoLink THEN live.links ELSE live.links \cup {e.link}
  BY <1>l DEF FoldEvent
<1>c. live.conflicts' = [k \in ConflictIds |->
        IF e.op \notin Conflicting \/ k # e.conflict THEN live.conflicts[k]
        ELSE [status |-> ConflictStatus(e.op), members |-> Targets(e)]]
  BY <1>l DEF FoldEvent
<1>d. tables'.keys = KeysAfter(tables, c, e)
      /\ tables'.decisions = DecisionsAfter(tables, c, e)
  BY ZenonT(60), LiveAfter
<1>1. live.memories' \in [MemoryIds -> Rows]
  <2>1. ASSUME NEW m \in Targets(e) PROVE e.after[m] \in Rows
    <3>1. MadeRow(e.op, live.memories[m], e.after[m]) /\ live.memories[m] \in Rows
          /\ e.after[m].revision <= MaxRevision
      BY TargetRow
    <3>2. CASE e.op \in Creates
      <4>1. e.after[m] \in CreatedRows
        BY Zenon, <3>1, <3>2 DEF MadeRow
      <4>2. 1 \in 0..MaxRevision
        BY <3>1, <4>1, RevisionAssumption DEF CreatedRows
      <4> QED BY <4>1, <4>2 DEF CreatedRows, Rows, Statuses, Live, Protections
    <3>3. CASE e.op \notin Creates
      <4>1. e.after[m] \in Successors(live.memories[m])
        BY <3>1, <3>3 DEF MadeRow
      <4>2. live.memories[m].revision + 1 \in 0..MaxRevision
        <5>1. e.after[m].revision = live.memories[m].revision + 1
          BY Zenon, <4>1 DEF Successors
        <5>2. live.memories[m].revision \in 0..MaxRevision
          BY <3>1 DEF Rows
        <5> QED BY <3>1, <5>1, <5>2, RevisionAssumption
      <4> QED BY Zenon, <3>1, <4>1, <4>2 DEF Successors, Rows
    <3> QED BY <3>2, <3>3
  <2>2. \A m \in MemoryIds : live.memories[m] \in Rows
    BY DEF TypeOK
  <2> QED BY <1>a, <2>1, <2>2
<1>2. live.evidence' \subseteq MemoryIds \X Sources
  BY <1>0, <1>b DEF TypeOK, Wellformed
<1>3. live.links' \subseteq MemoryIds \X MemoryIds
  BY <1>0, <1>b DEF TypeOK, Wellformed
<1>4. live.conflicts' \in [ConflictIds -> [status: {"absent", "open", "resolved"},
                                           members: SUBSET MemoryIds]]
  <2>1. [status |-> ConflictStatus(e.op), members |-> Targets(e)]
        \in [status: {"absent", "open", "resolved"}, members: SUBSET MemoryIds]
    BY Zenon, <1>0 DEF ConflictStatus, Wellformed
  <2> QED BY ZenonT(60), <1>c, <2>1 DEF TypeOK
<1>5. tables'.keys \in [MemoryIds -> KeyStates]
  <2>1. \A m \in MemoryIds : KeysAfter(tables, c, e)[m] \in KeyStates
    BY Zenon DEF KeysAfter, TypeOK, KeyStates
  <2>2. KeysAfter(tables, c, e) = [m \in MemoryIds |-> KeysAfter(tables, c, e)[m]]
    BY DEF KeysAfter
  <2> QED BY Zenon, <1>d, <2>1, <2>2
<1>6. tables'.decisions \in [MemoryIds -> [outcome: {"none", "candidate", "active"},
                                           input: Fingerprints \cup {None}]]
  BY Zenon, <1>d DEF DecisionsAfter, TypeOK, Step
<1> QED BY ZenonT(60), <1>1, <1>2, <1>3, <1>4, <1>5, <1>6 DEF TypeOK

\* A tombstone has no fingerprint, and what is erased is a tombstone.
RowsInv ==
  \A m \in MemoryIds :
    LET row == live.memories[m] IN
    /\ row.status = "tombstoned" => row.fingerprint = None
    /\ row.protection = "cryptographically_erased" => row.status = "tombstoned"

\* A step moves each row along RowStep and keeps RowsInv.
LEMMA RowsStep ==
  ASSUME TypeOK, RowsInv, NEW c, NEW e, Step(c, e), NEW m \in MemoryIds
  PROVE  /\ RowStep(live.memories[m], live.memories[m]')
         /\ live.memories[m]'.status = "tombstoned" => live.memories[m]'.fingerprint = None
         /\ live.memories[m]'.protection = "cryptographically_erased" =>
              live.memories[m]'.status = "tombstoned"
<1> DEFINE row == live.memories[m]
           after == e.after[m]
<1>1. CASE m \notin Targets(e)
  <2>1. live.memories[m]' = row
    BY Zenon, <1>1, LiveAfter
  <2>2. /\ row.status = "tombstoned" => row.fingerprint = None
        /\ row.protection = "cryptographically_erased" => row.status = "tombstoned"
    BY DEF RowsInv
  <2> QED BY Zenon, <2>1, <2>2 DEF RowStep
<1>2. CASE m \in Targets(e)
  <2>1. live.memories[m]' = after
    BY Zenon, <1>2, LiveAfter
  <2>2. /\ row \in Rows /\ MadeRow(e.op, row, after)
        /\ CheckLifecycle(e.op, row.status, after.status) /\ CheckProtection(live, e, m)
        /\ e.op \in Creates <=> row.status = "absent"
        /\ e.op \notin Creates /\ row.protection # "plaintext" =>
             e.op \in {"tombstoned", "payload_purge_completed"}
    BY <1>2, TargetRow
  <2>3. /\ row.status = "tombstoned" => row.fingerprint = None
        /\ row.protection = "cryptographically_erased" => row.status = "tombstoned"
    BY DEF RowsInv
  <2>4. CASE e.op \in Creates
    <3>1. after \in CreatedRows /\ row.status = "absent"
      BY Zenon, <2>2, <2>4 DEF MadeRow
    <3>2. RowStep(row, after) /\ after.status # "tombstoned"
          /\ after.protection # "cryptographically_erased"
      <4> HIDE DEF row, after
      <4> QED BY Zenon, <3>1 DEF CreatedRows, RowStep
    <3> QED BY <2>1, <3>2
  <2>5. CASE e.op \notin Creates
    <3>1. after \in Successors(row)
      BY Zenon, <2>2, <2>5 DEF MadeRow
    <3>2. after.revision = row.revision + 1 /\ after.subject = row.subject
      BY Zenon, <3>1 DEF Successors
    <3>3. /\ row.status \in Settled => after.status = "tombstoned"
          /\ row.status = "tombstoned" =>
               e.op = "payload_purge_completed" /\ after.status = "tombstoned"
          /\ after.status = "candidate" => row.status = "candidate"
          /\ after.status = "tombstoned" => e.op \in {"tombstoned", "payload_purge_completed"}
          /\ e.op \in {"tombstoned", "payload_purge_completed"} => after.status = "tombstoned"
          /\ e.op = "payload_purge_completed" => row.status = "tombstoned"
      <4> HIDE DEF row, after
      <4> QED BY Zenon, <2>2, <2>5 DEF CheckLifecycle, MadeRow, RowOperations, Creates, Lifecycle,
                               Conflicting, RevisedTransitions, Settled, Live
    <3>4. after.status = "tombstoned" => after.fingerprint = None
      BY <2>2, <2>3, <3>3 DEF MadeRow
    <3>5. after.protection = "cryptographically_erased" => after.status = "tombstoned"
      BY Zenon, <2>2, <2>3, <2>5, <3>3 DEF MadeRow
    <3>6. RowStep(row, after)
      <4> HIDE DEF row, after
      <4> QED BY Zenon, <3>2, <3>3, <3>4 DEF RowStep
    <3> QED BY Zenon, <2>1, <3>4, <3>5, <3>6
  <2> QED BY <2>4, <2>5
<1> QED BY Zenon, <1>1, <1>2

\* A step moves the key of each memory along with its row.
LEMMA KeysStep ==
  ASSUME TypeOK, RowsInv, KeysFollowForget, NEW c, NEW e, Step(c, e)
  PROVE  KeysFollowForget'
<1> SUFFICES ASSUME NEW m \in MemoryIds
             PROVE  LET row == live.memories[m]'
                    IN /\ row.protection = "envelope_encrypted" /\ row.status \in Live =>
                            tables'.keys[m] = "active"
                       /\ tables'.keys[m] = "destruction_requested" =>
                            row.status = "tombstoned" /\ row.protection = "envelope_encrypted"
                       /\ tables'.keys[m] = "destroyed" <=>
                            row.protection = "cryptographically_erased"
  BY Zenon DEF KeysFollowForget
<1> DEFINE row == live.memories[m]
           after == e.after[m]
           key == tables.keys[m]
<1>1. /\ row.protection = "envelope_encrypted" /\ row.status \in Live => key = "active"
      /\ key = "destruction_requested" =>
           row.status = "tombstoned" /\ row.protection = "envelope_encrypted"
      /\ key = "destroyed" <=> row.protection = "cryptographically_erased"
  BY Zenon DEF KeysFollowForget
<1>2. row.protection = "cryptographically_erased" => row.status = "tombstoned"
  BY Zenon DEF RowsInv
<1>k. tables'.keys[m] =
        IF m \notin Targets(e) THEN key
        ELSE IF e.op = "tombstoned" /\ e.mode = "hard" THEN "destruction_requested"
        ELSE IF e.op = "payload_purge_completed" THEN "destroyed"
        ELSE IF e.op \in Creates /\ after.protection = "envelope_encrypted" THEN "active"
        ELSE key
  <2>1. tables'.keys = KeysAfter(tables, c, e)
    BY Zenon, LiveAfter
  <2> QED BY Zenon, <2>1 DEF KeysAfter, Creates
<1>3. CASE m \notin Targets(e)
  <2>1. live.memories[m]' = row
    BY Zenon, <1>3, LiveAfter
  <2> QED BY <1>1, <1>3, <1>k, <2>1
<1>4. CASE m \in Targets(e)
  <2>1. live.memories[m]' = after
    BY Zenon, <1>4, LiveAfter
  <2>2. /\ row \in Rows /\ MadeRow(e.op, row, after)
        /\ CheckLifecycle(e.op, row.status, after.status) /\ CheckProtection(live, e, m)
        /\ e.op \in Creates <=> row.status = "absent"
        /\ e.op \notin Creates /\ row.protection # "plaintext" =>
             e.op \in {"tombstoned", "payload_purge_completed"}
    BY <1>4, TargetRow
  <2>3. CASE e.op \in Creates
    <3>1. after \in CreatedRows /\ row.status = "absent"
      BY Zenon, <2>2, <2>3 DEF MadeRow
    <3>2. after.protection \in {"plaintext", "envelope_encrypted"}
      BY Zenon, <3>1 DEF CreatedRows
    <3>3. key # "destruction_requested" /\ key # "destroyed"
      BY Zenon, <1>1, <1>2, <3>1
    <3> HIDE DEF after, key, row
    <3>4. tables'.keys[m] = IF after.protection = "envelope_encrypted" THEN "active" ELSE key
      BY Zenon, <1>4, <1>k, <2>3 DEF Creates
    <3> QED BY Zenon, <2>1, <3>2, <3>3, <3>4
  <2>4. CASE e.op = "payload_purge_completed"
    <3>1. after.protection = "cryptographically_erased" /\ tables'.keys[m] = "destroyed"
      BY Zenon, <1>4, <1>k, <2>2, <2>4 DEF CheckProtection, Creates
    <3> QED BY Zenon, <2>1, <3>1
  <2>5. CASE e.op = "tombstoned"
    <3>1. row.status # "tombstoned" /\ after.status = "tombstoned"
          /\ after.protection = row.protection
      BY Zenon, <2>2, <2>5 DEF CheckLifecycle, MadeRow, Creates
    <3>2. row.protection # "cryptographically_erased"
      BY Zenon, <1>2, <3>1
    <3>3. e.mode = "hard" => row.protection = "envelope_encrypted"
      BY Zenon, <2>2, <2>5 DEF CheckProtection
    <3>4. tables'.keys[m] = IF e.mode = "hard" THEN "destruction_requested" ELSE key
      BY ZenonT(60), <1>4, <1>k, <2>5 DEF Creates
    <3> HIDE DEF after, key, row
    <3> QED BY ZenonT(60), <1>1, <2>1, <3>1, <3>2, <3>3, <3>4 DEF Live
  <2>6. CASE e.op \notin Creates \cup {"payload_purge_completed", "tombstoned"}
    <3>1. row.protection = "plaintext" /\ after.protection = row.protection
      BY Zenon, <2>2, <2>6 DEF MadeRow
    <3>2. tables'.keys[m] = key
      BY Zenon, <1>4, <1>k, <2>6
    <3> HIDE DEF after, key, row
    <3> QED BY Zenon, <1>1, <2>1, <3>1, <3>2
  <2> QED BY <2>3, <2>4, <2>5, <2>6
<1> QED BY Zenon, <1>3, <1>4

\* Memory m is a member of the open conflict k.
OpenIn(k, m) == live.conflicts[k].status = "open" /\ m \in live.conflicts[k].members

\* DisputedIffOpenConflict without counting.
DisputedInv ==
  \A m \in MemoryIds :
    /\ live.memories[m].status = "disputed" =>
         \E k \in ConflictIds : \A j \in ConflictIds : OpenIn(j, m) <=> j = k
    /\ live.memories[m].status # "disputed" => \A k \in ConflictIds : ~OpenIn(k, m)

\* A step keeps disputed memories and open conflicts together.
LEMMA DisputedStep ==
  ASSUME TypeOK, DisputedInv, NEW c, NEW e, Step(c, e)
  PROVE  DisputedInv'
<1>1. \A k \in ConflictIds, m \in MemoryIds :
        OpenIn(k, m)' <=> IF e.op \notin Conflicting \/ k # e.conflict THEN OpenIn(k, m)
                          ELSE e.op = "conflict_opened" /\ m \in Targets(e)
  <2> SUFFICES ASSUME NEW k \in ConflictIds, NEW m \in MemoryIds
               PROVE  OpenIn(k, m)' <=>
                        IF e.op \notin Conflicting \/ k # e.conflict THEN OpenIn(k, m)
                        ELSE e.op = "conflict_opened" /\ m \in Targets(e)
    BY Zenon
  <2>1. live.conflicts[k]' =
          IF e.op \notin Conflicting \/ k # e.conflict THEN live.conflicts[k]
          ELSE [status |-> ConflictStatus(e.op), members |-> Targets(e)]
    BY Zenon, LiveAfter
  <2> QED BY <2>1 DEF OpenIn, ConflictStatus
<1>2. e.op \in Conflicting =>
        /\ e.conflict \in ConflictIds
        /\ \A m \in MemoryIds : OpenIn(e.conflict, m) <=> e.op = "conflict_resolved"
                                                         /\ m \in Targets(e)
  <2>1. CheckConflict(live, e) /\ Wellformed(e)
    BY Zenon DEF Step, FoldAccepts
  <2> QED BY Zenon, <2>1 DEF CheckConflict, Wellformed, OpenIn, Conflicting
<1>3. ASSUME NEW m \in MemoryIds
      PROVE  /\ live.memories[m]'.status = "disputed" <=>
                  IF e.op \in Conflicting /\ m \in Targets(e) THEN e.op = "conflict_opened"
                  ELSE live.memories[m].status = "disputed"
             /\ m \in Targets(e) /\ e.op = "conflict_opened" =>
                  live.memories[m].status # "disputed"
  <2>1. CASE m \notin Targets(e)
    <3>1. live.memories[m]' = live.memories[m]
      BY Zenon, <2>1, LiveAfter
    <3> QED BY Zenon, <2>1, <3>1
  <2>2. CASE m \in Targets(e)
    <3> DEFINE row == live.memories[m]
               after == e.after[m]
    <3>1. live.memories[m]' = after
      BY Zenon, <2>2, LiveAfter
    <3>2. /\ MadeRow(e.op, row, after) /\ CheckLifecycle(e.op, row.status, after.status)
          /\ e.op \in Creates <=> row.status = "absent"
      BY <2>2, TargetRow
    <3>3. /\ after.status = "disputed" <=>
               IF e.op \in Conflicting THEN e.op = "conflict_opened"
               ELSE row.status = "disputed"
          /\ e.op = "conflict_opened" => row.status # "disputed"
      <4> HIDE DEF row, after
      <4> QED BY Zenon, <3>2 DEF CheckLifecycle, MadeRow, RowOperations, Creates, Lifecycle,
                          Conflicting, CreatedRows, Settled
    <3> QED BY <2>2, <3>1, <3>3
  <2> QED BY Zenon, <2>1, <2>2
<1>4. ASSUME NEW m \in MemoryIds
      PROVE  /\ live.memories[m]'.status = "disputed" =>
                  \E k \in ConflictIds : \A j \in ConflictIds : OpenIn(j, m)' <=> j = k
             /\ live.memories[m]'.status # "disputed" => \A k \in ConflictIds : ~OpenIn(k, m)'
  <2>0. /\ live.memories[m].status = "disputed" =>
             \E k \in ConflictIds : \A j \in ConflictIds : OpenIn(j, m) <=> j = k
        /\ live.memories[m].status # "disputed" => \A k \in ConflictIds : ~OpenIn(k, m)
    BY DEF DisputedInv
  <2>1. CASE e.op \notin Conflicting \/ m \notin Targets(e)
    <3>1. \A k \in ConflictIds : OpenIn(k, m)' <=> OpenIn(k, m)
      BY Zenon, <1>1, <1>2, <2>1
    <3>2. live.memories[m]'.status = "disputed" <=> live.memories[m].status = "disputed"
      BY Zenon, <1>3, <2>1
    <3> QED BY Zenon, <2>0, <3>1, <3>2
  <2>2. CASE e.op = "conflict_opened" /\ m \in Targets(e)
    <3>1. \A k \in ConflictIds : OpenIn(k, m)' <=> k = e.conflict
      BY ZenonT(60), <1>1, <1>3, <2>0, <2>2 DEF Conflicting
    <3>2. live.memories[m]'.status = "disputed" /\ e.conflict \in ConflictIds
      BY ZenonT(60), <1>2, <1>3, <2>2 DEF Conflicting
    <3> QED BY Zenon, <3>1, <3>2
  <2>3. CASE e.op = "conflict_resolved" /\ m \in Targets(e)
    <3>1. e.conflict \in ConflictIds /\ OpenIn(e.conflict, m)
      BY Zenon, <1>2, <2>3 DEF Conflicting
    <3>2. \A j \in ConflictIds : OpenIn(j, m) => j = e.conflict
      BY Zenon, <2>0, <3>1
    <3>3. \A k \in ConflictIds : ~OpenIn(k, m)'
      BY Zenon, <1>1, <2>3, <3>2 DEF Conflicting
    <3>4. live.memories[m]'.status # "disputed"
      BY Zenon, <1>3, <2>3 DEF Conflicting
    <3> QED BY Zenon, <3>3, <3>4
  <2> QED BY <2>1, <2>2, <2>3 DEF Conflicting
<1> QED BY Zenon, <1>4 DEF DisputedInv

----------------------------------------------------------------------------
(* The duplicate checks.                                                    *)

\* One new row that no other live memory equals keeps the table storable.
LEMMA OneRowStorable ==
  ASSUME Storable(live), NEW m \in MemoryIds, NEW e, Targets(e) = {m},
         e.after[m].deadline = FALSE,
         \A n \in MemoryIds \ {m} :
           ~(/\ live.memories[n].status \in Live
             /\ live.memories[n].subject = e.after[m].subject
             /\ live.memories[n].fingerprint = e.after[m].fingerprint)
  PROVE  Storable(FoldEvent(live, e))
<1> DEFINE p == FoldEvent(live, e)
<1>1. p.memories[m] = e.after[m]
  BY Zenon DEF FoldEvent
<1>2. \A n \in MemoryIds \ {m} : p.memories[n] = live.memories[n]
  BY Zenon DEF FoldEvent
<1> HIDE DEF p
<1>3. Storable(p)
  BY <1>1, <1>2 DEF Storable
<1> QED BY Zenon, <1>3 DEF p

\* An answer is the index's refusal only if a prepared event cannot be stored.
LEMMA UnavailableOnlyByIndex ==
  ASSUME NEW c, NEW e, e = Prepare(tables, c).event,
         Prepare(tables, c).code # "dependency_unavailable",
         Prepare(tables, c).code = "ok" => Wellformed(e) /\ Storable(FoldEvent(live, e))
  PROVE  Answer(tables, c).code # "dependency_unavailable"
<1> DEFINE p == Prepare(tables, c)
<1>1. Answer(tables, c) =
        IF p.code # "ok" THEN p
        ELSE IF ~FoldAccepts(LoadProjection(live, e), e) THEN Refuse("invalid_input")
        ELSE IF ~Storable(StageProjection(live, e)) THEN Refuse("dependency_unavailable")
        ELSE p
  BY Zenon DEF Answer, live
<1>2. p.code = "ok" => Storable(StageProjection(live, e))
  BY Zenon, StageIsFold
<1>3. Refuse("invalid_input").code # "dependency_unavailable"
  BY Zenon DEF Refuse
<1> HIDE DEF p
<1> QED BY Zenon, <1>1, <1>2, <1>3 DEF p

\* In a storable table the duplicate checks leave nothing to the unique index.
LEMMA ChecksSuffice == TypeOK /\ Storable(live) => DuplicateChecksSuffice
<1> SUFFICES ASSUME TypeOK, Storable(live), NEW f \in Fingerprints, NEW m \in MemoryIds
             PROVE  LET row == live.memories[m]
                        create == [kind |-> "observe", memory |-> m, subject |-> row.subject,
                                   fingerprint |-> f]
                        revise == [kind |-> "revise", memory |-> m, revision |-> row.revision,
                                   fingerprint |-> f]
                    IN /\ \A s \in Subjects :
                            Answer(tables, [create EXCEPT !.subject = s]).code
                              # "dependency_unavailable"
                       /\ Answer(tables, revise).code # "dependency_unavailable"
  BY Zenon DEF DuplicateChecksSuffice
<1> DEFINE row == live.memories[m]
<1>1. ASSUME NEW s \in Subjects, NEW c,
             c = [kind |-> "observe", memory |-> m, subject |-> s, fingerprint |-> f]
      PROVE  Answer(tables, c).code # "dependency_unavailable"
  <2> DEFINE e == Prepare(tables, c).event
  <2>0. /\ c.kind = "observe" /\ c.memory = m /\ c.subject = s
        /\ c.fingerprint = f
    BY Zenon, <1>1
  <2>1. Prepare(tables, c).code # "dependency_unavailable"
    BY Zenon, <2>0, CreateFits
  <2>2. ASSUME Prepare(tables, c).code = "ok"
        PROVE  Wellformed(e) /\ Storable(FoldEvent(live, e))
    <3>1. /\ Wellformed(e)
          /\ Matches(live, s, f, Live) = {}
          /\ Targets(e) = {m} /\ e.after[m].subject = s /\ e.after[m].fingerprint = f
          /\ e.after[m].deadline = FALSE
      BY Zenon, <2>0, <2>2, CreateFits
    <3> HIDE DEF e
    <3> QED BY Zenon, <3>1, OneRowStorable DEF Matches
  <2> HIDE DEF e
  <2> QED BY Zenon, <2>1, <2>2, UnavailableOnlyByIndex DEF e
<1>2. ASSUME NEW c, c = [kind |-> "revise", memory |-> m, revision |-> row.revision,
                         fingerprint |-> f]
      PROVE  Answer(tables, c).code # "dependency_unavailable"
  <2> DEFINE e == Prepare(tables, c).event
             r == row.revision
  <2>0. c.kind = "revise" /\ c.memory = m /\ c.revision = r /\ c.fingerprint = f
    BY Zenon, <1>2
  <2> HIDE DEF r
  <2>1. Prepare(tables, c).code # "dependency_unavailable"
    BY Zenon, <2>0, ReviseFits
  <2>2. ASSUME Prepare(tables, c).code = "ok"
        PROVE  Wellformed(e) /\ Storable(FoldEvent(live, e))
    <3>1. /\ Wellformed(e)
          /\ Matches(live, row.subject, f, Live) \ {m} = {}
          /\ Targets(e) = {m} /\ e.after[m].fingerprint = f
          /\ e.after[m].subject = row.subject
          /\ e.after[m].deadline = FALSE
      BY Zenon, <2>0, <2>2, ReviseFits
    <3> HIDE DEF e
    <3> QED BY Zenon, <3>1, OneRowStorable DEF Matches
  <2> HIDE DEF e
  <2> QED BY Zenon, <2>1, <2>2, UnavailableOnlyByIndex DEF e
<1>3. \A s \in Subjects :
        [[kind |-> "observe", memory |-> m, subject |-> row.subject, fingerprint |-> f]
         EXCEPT !.subject = s]
        = [kind |-> "observe", memory |-> m, subject |-> s, fingerprint |-> f]
  OBVIOUS
<1> QED BY Zenon, <1>1, <1>2, <1>3

----------------------------------------------------------------------------
(* The inductive invariant and the theorems.                                *)

\* The live tables are typed, equal to the rebuild and storable, and rows, conflicts and
\* keys agree.  None of these is inductive alone: every step needs the types, the keys
\* need RowsInv, and the rebuild accepts an event only where it equals the live tables.
IInv ==
  /\ TypeOK
  /\ LiveMatchesRebuild
  /\ Storable(live)
  /\ RowsInv
  /\ DisputedInv
  /\ KeysFollowForget

\* The invariant holds of the empty tables,
LEMMA InitIInv == Init => IInv
<1> SUFFICES ASSUME Init PROVE IInv
  BY Zenon
<1>1. /\ live = EmptyProjection /\ replay = EmptyProjection
      /\ tables.keys = [m \in MemoryIds |-> "none"]
      /\ tables.decisions = [m \in MemoryIds |-> NoDecision]
  BY Zenon DEF Init, EmptyTables, live
<1>2. /\ \A m \in MemoryIds : live.memories[m] = Absent
      /\ \A k \in ConflictIds : live.conflicts[k] = NoConflict
      /\ live.memories = [m \in MemoryIds |-> Absent]
      /\ live.conflicts = [k \in ConflictIds |-> NoConflict]
      /\ live.evidence = {} /\ live.links = {}
  BY Zenon, <1>1 DEF EmptyProjection
<1>3. Absent \in Rows
  BY RevisionAssumption DEF Absent, Row, Rows, Statuses, Protections
<1>4. NoConflict \in [status: {"absent", "open", "resolved"}, members: SUBSET MemoryIds]
  BY Zenon DEF NoConflict
<1>5. NoDecision \in [outcome: {"none", "candidate", "active"},
                      input: Fingerprints \cup {None}]
  BY Zenon DEF NoDecision
<1>6. TypeOK
  BY <1>1, <1>2, <1>3, <1>4, <1>5 DEF TypeOK, KeyStates
<1>7. LiveMatchesRebuild
  BY Zenon, <1>1 DEF LiveMatchesRebuild
<1>8. Absent.status = "absent" /\ Absent.protection = "plaintext" /\ Absent.deadline = FALSE
  BY Zenon DEF Absent, Row
<1>9. Storable(live) /\ RowsInv
  BY Zenon, <1>2, <1>8 DEF Storable, RowsInv, Live
<1>10. DisputedInv
  BY <1>2, <1>8 DEF DisputedInv, OpenIn, NoConflict
<1>11. KeysFollowForget
  BY Zenon, <1>1, <1>2, <1>8 DEF KeysFollowForget
<1> QED BY Zenon, <1>6, <1>7, <1>9, <1>10, <1>11 DEF IInv

\* An accepted command keeps the rebuild equal to the live tables.
LEMMA RebuildStep ==
  ASSUME LiveMatchesRebuild, NEW c, NEW e, Step(c, e)
  PROVE  LiveMatchesRebuild'
<1>1. live' = FoldEvent(live, e)
  BY Zenon, LiveAfter
<1>2. replay' = Rebuilt(e) /\ FoldAccepts(live, e) /\ live = replay
  BY Zenon DEF Step, LiveMatchesRebuild
<1> QED BY Zenon, <1>1, <1>2 DEF Rebuilt, LiveMatchesRebuild

\* every step keeps it,
LEMMA NextIInv == IInv /\ [Next]_vars => IInv'
<1> SUFFICES ASSUME IInv, [Next]_vars PROVE IInv'
  BY Zenon
<1>1. CASE Next
  <2>1. PICK c, e : Step(c, e)
    BY Zenon, <1>1, NextIsStep DEF IInv
  <2>2. TypeOK' /\ LiveMatchesRebuild' /\ DisputedInv' /\ KeysFollowForget'
    BY Zenon, <2>1, TypeStep, RebuildStep, DisputedStep, KeysStep DEF IInv
  <2>3. RowsInv'
    BY Zenon, <2>1, RowsStep DEF IInv, RowsInv
  <2>4. Storable(live)'
    <3>1. live' = FoldEvent(live, e) /\ Storable(FoldEvent(live, e))
      BY Zenon, <2>1, LiveAfter DEF Step
    <3> QED BY Zenon, <3>1 DEF Storable
  <2> QED BY Zenon, <2>2, <2>3, <2>4 DEF IInv
<1>2. CASE UNCHANGED vars
  <2>1. tables' = tables /\ replay' = replay /\ live' = live
    BY Zenon, <1>2 DEF vars, live
  <2>2. TypeOK'
    BY Zenon, <2>1 DEF IInv, TypeOK
  <2>3. LiveMatchesRebuild' /\ Storable(live)'
    BY Zenon, <2>1 DEF IInv, LiveMatchesRebuild, Storable
  <2>4. RowsInv'
    BY Zenon, <2>1 DEF IInv, RowsInv
  <2>5. DisputedInv'
    <3>1. \A k, m : OpenIn(k, m)' <=> OpenIn(k, m)
      BY Zenon, <2>1 DEF OpenIn
    <3> QED BY Zenon, <2>1, <3>1 DEF IInv, DisputedInv
  <2>6. KeysFollowForget'
    BY Zenon, <2>1 DEF IInv, KeysFollowForget
  <2> QED BY Zenon, <2>2, <2>3, <2>4, <2>5, <2>6 DEF IInv
<1> QED BY Zenon, <1>1, <1>2

\* and so it always holds.
LEMMA AlwaysIInv == Spec => []IInv
BY InitIInv, NextIInv, PTL DEF Spec

\* For any memories, conflicts and contents: a rebuild of the log gives exactly the live
\* tables after every accepted command of every writer, so the partial load and the
\* partial write-back of the live path lose nothing.
THEOREM RebuildAlwaysMatches == Spec => []LiveMatchesRebuild
<1>1. IInv => LiveMatchesRebuild
  BY DEF IInv
<1> QED BY <1>1, AlwaysIInv, PTL

\* For any memories, conflicts and contents: the tables keep their shapes, and a memory is
\* disputed exactly as long as one open conflict has it as a member.
THEOREM AlwaysConsistent == Spec => []ConflictsConsistent
<1>1. TypeOK /\ DisputedInv => ConflictsConsistent
  <2> SUFFICES ASSUME TypeOK, DisputedInv, NEW m \in MemoryIds
               PROVE  LET open == {c \in ConflictIds : /\ live.conflicts[c].status = "open"
                                                       /\ m \in live.conflicts[c].members}
                      IN IF live.memories[m].status = "disputed" THEN Cardinality(open) = 1
                         ELSE open = {}
    BY DEF ConflictsConsistent, DisputedIffOpenConflict
  <2> DEFINE open == {c \in ConflictIds : /\ live.conflicts[c].status = "open"
                                          /\ m \in live.conflicts[c].members}
  <2>1. ASSUME live.memories[m].status = "disputed" PROVE Cardinality(open) = 1
    <3>1. PICK k \in ConflictIds : \A j \in ConflictIds : OpenIn(j, m) <=> j = k
      BY <2>1 DEF DisputedInv
    <3>2. open = {k}
      BY Zenon, <3>1 DEF OpenIn
    <3> HIDE DEF open
    <3> QED BY <3>2, FS_Singleton
  <2>2. ASSUME live.memories[m].status # "disputed" PROVE open = {}
    BY Zenon, <2>2 DEF DisputedInv, OpenIn
  <2> HIDE DEF open
  <2> QED BY <2>1, <2>2 DEF open
<1>2. IInv => TypeOK /\ DisputedInv
  BY Zenon DEF IInv
<1> QED BY <1>1, <1>2, AlwaysIInv, PTL

\* For any memories, subjects and fingerprints: a create or a revision that passes its
\* duplicate check is never refused by the unique index on live fingerprints.
THEOREM ChecksAlwaysSuffice == Spec => []DuplicateChecksSuffice
<1>1. IInv => DuplicateChecksSuffice
  BY Zenon, ChecksSuffice DEF IInv
<1> QED BY <1>1, AlwaysIInv, PTL

\* For any memories: a content key is destroyed only after a hard forget of its memory,
\* and exactly when the memory is recorded as erased.
THEOREM KeysAlwaysFollow == Spec => []KeysFollowForget
<1>1. IInv => KeysFollowForget
  BY Zenon DEF IInv
<1> QED BY <1>1, AlwaysIInv, PTL

\* For any writers and any number of revisions: revisions grow by one, a settled memory
\* never becomes live again, and a tombstone stays one without its fingerprint.
THEOREM NeverRevived == Spec => NoRevival
<1>1. IInv /\ [Next]_vars =>
        [\A m \in MemoryIds : RowStep(live.memories[m], live.memories[m]')]_vars
  <2> SUFFICES ASSUME IInv, Next, NEW m \in MemoryIds
               PROVE  RowStep(live.memories[m], live.memories[m]')
    BY Zenon
  <2>1. PICK c, e : Step(c, e)
    BY NextIsStep DEF IInv
  <2> QED BY Zenon, <2>1, RowsStep DEF IInv
<1> QED BY <1>1, AlwaysIInv, PTL DEF Spec, NoRevival
=============================================================================
