-------------------------- MODULE CandidateSelection --------------------------
(***************************************************************************)
(* Nominations and the life of the candidates they create                  *)
(* (application/selection.py, application/candidate_lifecycle.py): the     *)
(* resolvers that establish a nomination's authority and evidence, the     *)
(* policy's decision, the duplicate that is promoted instead, and the      *)
(* expire_candidate job.  Each command is one SERIALIZABLE transaction and *)
(* one step here: SerializableWriters is about their concurrency and their *)
(* receipts.  Sealed nominations are not in this module: the policy must   *)
(* make them active at once, which no resolver below allows.               *)
(***************************************************************************)
EXTENDS SelectionPolicy

CONSTANTS
  Clients,        \* authenticated principals that nominate
  Transport,      \* client -> "direct", "github" or "genesis"
  Proposals,      \* what they may nominate
  Memories,       \* memory identifiers, 1..n, taken in order
  Day,            \* days that pass at once
  MaxTime,        \* bound on the clock, in days
  MaxDecisions    \* bound on the ledger

VARIABLES
  clock,
  mem,       \* the projection rows, with their active evidence
  ledger,    \* selection decisions, in sequence
  jobs       \* pending expire_candidate jobs

vars == <<clock, mem, ledger, jobs>>

None == 0

Absent == [status |-> "absent", revision |-> 0, statement |-> "none", deadline |-> None,
           evidence |-> {}]

Row(status, statement, deadline, evidence) ==
  [status |-> status, revision |-> 1, statement |-> statement, deadline |-> deadline,
   evidence |-> evidence]

Init ==
  /\ clock = 1
  /\ mem = [m \in Memories |-> Absent]
  /\ ledger = <<>>
  /\ jobs = {}

Used == {m \in Memories : mem[m] # Absent}
Fresh == Min(Memories \ Used)

\* A ledger entry.  "by" is the nominating client; an omission names no memory.
Entry(outcome, m, by, basis, rules, reason) ==
  [outcome |-> outcome, memory |-> m, by |-> by, basis |-> basis, rules |-> rules,
   reason |-> reason]

-----------------------------------------------------------------------------
(* The resolvers                                                           *)

Item(key, kind, by) == [key |-> key, kind |-> kind, trust |-> "trusted", by |-> by]

\* Faulty variant of SourceKey: the key covers the nomination as well.
SourceKeyOfProposal(c, p) == <<c, p>>

\* _direct_observation_evidence_key, _github_proposal_evidence_key: one per client, so
\* that repeating a claim adds no evidence.
SourceKey(c, p) == <<c>>

\* DirectNominationResolver.resolve: candidate-grade observations only.
DirectObservation(p) ==
  /\ p.basis = "assistant_observation"
  /\ p.category \in {"relationship_pattern", "emergent_tendency", "episodic_anchor"}
  /\ p.ontology = "observed_assistant_behavior"
  /\ p.scope \in {"persona", "relationship", "episodic"}
  /\ p.visibility \in {"private_root", "restricted"}

\* The nominations a resolver answers; the others end as authority_unavailable.
Resolvable(c, p) ==
  CASE Transport[c] = "direct"  -> TRUE
    [] Transport[c] = "github"  -> /\ p.basis = "assistant_observation"
                                   /\ p.category = "emergent_tendency"
    [] Transport[c] = "genesis" -> /\ p.basis = "imported_legacy"
                                   /\ p.qualifiers = {"imported_source_unreconciled"}

ResolvedEvidence(c, p) ==
  CASE Transport[c] = "genesis" -> {Item(<<"manifest", p.statement>>, "import_manifest", c)}
    [] Transport[c] = "direct" /\ ~DirectObservation(p) -> {}
    [] OTHER -> {Item(SourceKey(c, p), "assistant_observation", c)}

ResolvedAuthority(c) ==
  IF Transport[c] = "genesis" THEN "imported_legacy_memory" ELSE "assistant_observation"

\* _selection_request; no resolver establishes content signals.
SelectionRequest(c, p) ==
  [basis |-> p.basis, category |-> p.category, ontology |-> p.ontology, scope |-> p.scope,
   visibility |-> p.visibility, authority |-> ResolvedAuthority(c), signals |-> {},
   qualifiers |-> p.qualifiers, limits |-> p.limits, reason |-> TRUE,
   evidence |-> ResolvedEvidence(c, p)]

-----------------------------------------------------------------------------
(* SelectionEngine._attempt                                                *)

\* The memories with the nomination's fingerprint that still count.
Duplicates(p) ==
  {m \in Used : mem[m].statement = p.statement /\ mem[m].status \in {"candidate", "active"}}

\* The decision a candidate comes from.
Sources(m) == {i \in DOMAIN ledger : ledger[i].memory = m /\ ledger[i].outcome = "candidate"}

\* The after-image the event store validates.
AfterImage(c, p, status) ==
  [category |-> p.category, ontology |-> p.ontology, scope |-> p.scope,
   visibility |-> p.visibility, subject |-> p.subject, sensitivity |-> p.sensitivity,
   origin |-> p.origin, authority |-> ResolvedAuthority(c), status |-> status,
   approved |-> FALSE]

\* Faulty variant of ExpiryJobs: without available_at the job may run at once.
ExpiryJobsNow(m, deadline) == {[memory |-> m, revision |-> 1, available |-> clock]}

\* _enqueue_creation_jobs, the expiry of a candidate.
ExpiryJobs(m, deadline) == {[memory |-> m, revision |-> 1, available |-> deadline]}

\* The omission or rejection of a nomination.
Declines(c, p, outcome, rules, reason) ==
  /\ ledger' = Append(ledger, Entry(outcome, None, c, p.basis, rules, reason))
  /\ UNCHANGED <<mem, jobs>>

Creates(c, p, d) ==
  LET deadline == IF d.outcome = "candidate" THEN clock + d.ttl ELSE None
  IN /\ mem' = [mem EXCEPT ![Fresh] = Row(d.outcome, p.statement, deadline,
                                          ResolvedEvidence(c, p))]
     /\ ledger' = Append(ledger, Entry(d.outcome, Fresh, c, p.basis, d.rules, d.reason))
     /\ jobs' = jobs \cup (IF deadline # None THEN ExpiryJobs(Fresh, deadline) ELSE {})

\* A candidate nominated again: evidence with new keys is weighed with what is stored,
\* and kept only if the candidate is promoted.  The lifecycle state is rebuilt from the
\* decision that made it a candidate; the promotion needs its deadline.
Reconsiders(c, p, m) ==
  LET source == ledger[Max(Sources(m))]
      new == {e \in ResolvedEvidence(c, p) : \A s \in mem[m].evidence : s.key # e.key}
      reason == EvaluatePromotion(source.basis, source.rules, mem[m].evidence \cup new)
  IN IF Sources(m) # {} /\ new # {} /\ Promotes(reason)
       THEN /\ mem[m].deadline # None
            /\ mem' = [mem EXCEPT ![m] = [@ EXCEPT !.status = "active",
                                                   !.revision = @ + 1,
                                                   !.deadline = None,
                                                   !.evidence = @ \cup new]]
            /\ ledger' = Append(ledger, Entry("promoted", m, c, source.basis, {}, reason))
            /\ UNCHANGED jobs
     ELSE Declines(c, p, "omit", {}, "already_candidate")

\* SelectionEngine.execute.  A nomination the event store refuses, or a promotion of a
\* candidate without a deadline, ends in an error and changes nothing.
Nominate(c, p) ==
  LET d == EvaluateSelection(SelectionRequest(c, p)) IN
  /\ Resolvable(c, p) /\ Len(ledger) < MaxDecisions
  /\ IF d.outcome \notin {"candidate", "active"}
       THEN Declines(c, p, d.outcome, d.rules, d.reason)
     ELSE IF Duplicates(p) # {}
       THEN LET m == CHOOSE x \in Duplicates(p) : TRUE
            IN IF mem[m].status = "active"
                 THEN Declines(c, p, "omit", d.rules, "already_covered")
                 ELSE Reconsiders(c, p, m)
     ELSE /\ Used # Memories
          /\ ValidateMemoryConstraints(AfterImage(c, p, d.outcome), Transport[c])
          /\ Creates(c, p, d)
  /\ UNCHANGED clock

-----------------------------------------------------------------------------
(* CandidateLifecycleEngine                                                *)

\* Faulty variant of CurrentCandidate: any memory that was a candidate once.
OnceCandidate(m, revision) == Sources(m) # {}

\* The command names a candidate at its current revision, with the deadline that
\* MemoryStateV2 demands of it.
CurrentCandidate(m, revision) ==
  /\ mem[m].revision = revision /\ mem[m].status = "candidate" /\ Sources(m) # {}
  /\ mem[m].deadline # None

\* _attempt's end: either the row in its last status, the deadline cleared, and the
\* decision that names it, or _record_policy_noop.
Concludes(m, conclusive, status, outcome, reason) ==
  /\ mem' = IF conclusive
              THEN [mem EXCEPT ![m] = [@ EXCEPT !.status = status, !.revision = @ + 1,
                                                !.deadline = None]]
              ELSE mem
  /\ ledger' = Append(ledger, Entry(IF conclusive THEN outcome ELSE "omit",
                                    IF conclusive THEN m ELSE None, "service",
                                    ledger[Max(Sources(m))].basis, {}, reason))

\* CandidateLifecycleEngine.expire, for a claimed job.  The worker acknowledges it after
\* the transaction, or dies and the job is delivered again.
Expire(j, acknowledged) ==
  LET m == j.memory
      reason == EvaluateExpiry(mem[m].deadline, clock)
  IN /\ j.available <= clock /\ Len(ledger) < MaxDecisions
     /\ IF CurrentCandidate(m, j.revision)
          THEN Concludes(m, reason = "candidate_expired", "retired", "expired", reason)
          ELSE UNCHANGED <<mem, ledger>>
     /\ jobs' = IF acknowledged THEN jobs \ {j} ELSE jobs
     /\ UNCHANGED clock

\* CandidateLifecycleEngine.promote, on the evidence the candidate has.
Promote(m) ==
  LET source == ledger[Max(Sources(m))]
      reason == EvaluatePromotion(source.basis, source.rules, mem[m].evidence)
  IN /\ CurrentCandidate(m, mem[m].revision) /\ Len(ledger) < MaxDecisions
     /\ Concludes(m, Promotes(reason), "active", "promoted", reason)
     /\ UNCHANGED <<clock, jobs>>

\* A revision by the mutation commands, to a statement no other memory has: the v1
\* after-image has no deadline.
Revise(m) ==
  /\ mem[m].status \in {"candidate", "active"} /\ mem[m].revision < 3
  /\ \A x \in Duplicates([statement |-> "revised"]) : x = m
  /\ mem' = [mem EXCEPT ![m] = [@ EXCEPT !.revision = @ + 1, !.deadline = None,
                                         !.statement = "revised"]]
  /\ UNCHANGED <<clock, ledger, jobs>>

Retire(m) ==
  /\ mem[m].status \in {"candidate", "active"}
  /\ mem' = [mem EXCEPT ![m] = [@ EXCEPT !.status = "retired", !.revision = @ + 1,
                                         !.deadline = None]]
  /\ UNCHANGED <<clock, ledger, jobs>>

Tick ==
  /\ clock + Day <= MaxTime
  /\ clock' = clock + Day
  /\ UNCHANGED <<mem, ledger, jobs>>

Next ==
  \/ \E c \in Clients, p \in Proposals : Nominate(c, p)
  \/ \E j \in jobs, acknowledged \in BOOLEAN : Expire(j, acknowledged)
  \/ \E m \in Used : Promote(m) \/ Revise(m) \/ Retire(m)
  \/ Tick

Spec == Init /\ [][Next]_vars

-----------------------------------------------------------------------------
(* Properties                                                              *)

\* Rows and jobs have their types; a row has a deadline while it is the candidate a
\* nomination created, and at no other time.
TypeOK ==
  /\ clock \in 1..MaxTime
  /\ \A m \in Memories :
       /\ mem[m].status \in {"absent", "candidate", "active", "retired"}
       /\ mem[m].revision \in 0..4
       /\ (mem[m].deadline # None) <=> (mem[m].status = "candidate" /\ mem[m].revision = 1)
  /\ \A j \in jobs : j.memory \in Used /\ j.available \in Nat

\* A candidate becomes active only when two different clients have observed it: however
\* often one of them nominates it, by itself it corroborates nothing
\* (_new_candidate_evidence, the resolvers' keys).
PromotionIsCorroborated ==
  \A i \in DOMAIN ledger :
    ledger[i].outcome = "promoted" =>
      Cardinality({e.by : e \in {x \in mem[ledger[i].memory].evidence :
                                   x.kind = "assistant_observation"}}) >= 2

Outcomes(m) ==
  LET linked == SelectSeq(ledger, LAMBDA d : d.memory = m)
  IN [i \in DOMAIN linked |-> linked[i].outcome]

\* The ledger tells each memory's life: one decision created it, at most one ended its
\* candidacy, and its status is what the last of them left unless a command changed it
\* since, although jobs are delivered again and nominations repeat.
LedgerExplains ==
  \A m \in Used :
    /\ Outcomes(m) \in {<<"candidate">>, <<"candidate", "promoted">>,
                        <<"candidate", "expired">>, <<"active">>}
    /\ mem[m].status \in {"retired"} \cup
         (CASE Last(Outcomes(m)) = "expired"   -> {}
            [] Last(Outcomes(m)) = "candidate" -> {"candidate"}
            [] OTHER                           -> {"active"})

\* A candidate that nothing has changed still has the job that will expire it: no run of
\* the job may complete it and leave the candidate behind (_enqueue_creation_jobs,
\* available_at; CandidateLifecycleEngine._attempt).
CandidateHasExpiry ==
  \A m \in Used :
    mem[m].status = "candidate" /\ mem[m].revision = 1 =>
      \E j \in jobs : j.memory = m /\ j.revision = 1

=============================================================================
