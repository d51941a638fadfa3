--------------------------- MODULE SelectionPolicy ---------------------------
(***************************************************************************)
(* The selection policy as pure functions: the checked-in profile          *)
(* selection-v1, evaluate_selection (policy/evaluator.py), the promotion   *)
(* and expiry of candidates (policy/lifecycle.py) and the structural rules *)
(* every stored memory meets (domain/constraints.py).                      *)
(***************************************************************************)
EXTENDS Integers, FiniteSets, FiniteSetsExt, SequencesExt

Ontologies ==
  {"literal_user_fact", "literal_technical_fact", "assistant_self_description",
   "observed_assistant_behavior", "interaction_convention",
   "fictional_or_roleplayed_scene", "hypothesis", "uncertain"}

Patterns == {"assistant_self_description", "observed_assistant_behavior", "hypothesis",
             "uncertain"}

\* CATEGORY_ONTOLOGY_COMPATIBILITY
CategoryOntology ==
  [stable_fact |-> {"literal_user_fact", "literal_technical_fact"},
   user_preference |-> {"literal_user_fact", "uncertain"},
   assistant_preference_like_pattern |-> Patterns,
   boundary_or_permission |-> {"literal_user_fact", "interaction_convention", "uncertain"},
   interaction_convention |-> {"interaction_convention", "literal_user_fact", "uncertain"},
   relationship_pattern |->
     {"observed_assistant_behavior", "interaction_convention", "hypothesis", "uncertain"},
   emergent_tendency |-> Patterns,
   episodic_anchor |-> Ontologies \ {"hypothesis"},
   project_decision |-> {"literal_technical_fact", "uncertain"},
   project_state |-> {"literal_technical_fact", "uncertain"},
   procedure |-> {"literal_technical_fact", "interaction_convention", "uncertain"},
   open_question |-> {"hypothesis", "uncertain"},
   interpretation |-> {"hypothesis", "uncertain"},
   external_fact |-> {"literal_technical_fact", "hypothesis", "uncertain"}]

Categories == DOMAIN CategoryOntology

-----------------------------------------------------------------------------
(* selection-v1.json                                                       *)

\* A rule for a basis.  No required authority is "any", no lifetime is 0, and a basis
\* that asks for no evidence has minimum 0.  The rules that require qualifiers are the
\* ones that require interpretation limits.
Rule(outcome, categories, authority, kinds, trusts, qualifiers, ttl) ==
  [outcome |-> outcome, categories |-> categories, authority |-> authority,
   kinds |-> kinds, trusts |-> trusts, minimum |-> IF kinds = {} THEN 0 ELSE 1,
   qualifiers |-> qualifiers, limits |-> qualifiers # {}, ttl |-> ttl]

Verified == {"trusted", "corroborated"}

BasisRules ==
  [routine_banter |-> Rule("omit", Categories, "any", {}, {}, {}, 0),
   explicit_user_correction |->
     Rule("active", {"stable_fact", "user_preference", "boundary_or_permission",
                     "interaction_convention", "project_decision", "project_state",
                     "procedure"},
          "explicit_user_correction", {"user_correction"}, {"trusted"}, {}, 0),
   explicit_user_preference |->
     Rule("active", {"user_preference"}, "explicit_user_statement", {"user_statement"},
          {"trusted"}, {}, 0),
   explicit_user_permission |->
     Rule("active", {"boundary_or_permission"}, "explicit_user_statement",
          {"user_statement"}, {"trusted"}, {}, 0),
   verified_project_decision |->
     Rule("active", {"project_decision"}, "verified_project_source", {"project_source"},
          Verified, {}, 0),
   assistant_observation |->
     Rule("candidate", {"assistant_preference_like_pattern", "relationship_pattern",
                        "emergent_tendency", "episodic_anchor", "interpretation"},
          "assistant_observation", {"assistant_observation", "conversation_episode"},
          Verified, {}, 180),
   assistant_interpretation |->
     Rule("candidate", {"assistant_preference_like_pattern", "relationship_pattern",
                        "emergent_tendency", "episodic_anchor", "open_question",
                        "interpretation"},
          "assistant_interpretation", {"conversation_episode"}, Verified,
          {"single_episode_not_stable_pattern"}, 90),
   imported_legacy |->
     Rule("candidate", Categories, "imported_legacy_memory", {"import_manifest"}, Verified,
          {"imported_source_unreconciled"}, 365),
   meaningful_episodic_anchor |->
     Rule("candidate", {"episodic_anchor"}, "any", {"conversation_episode"}, Verified,
          {}, 365),
   explicit_user_request |->
     Rule("active", Categories, "explicit_user_statement", {"user_statement"},
          {"trusted"}, {}, 0)]

Guardrail(signal, categories, ontologies, scopes, visibilities, qualifier, ttl, codes) ==
  [signal |-> signal, categories |-> categories, ontologies |-> ontologies,
   scopes |-> scopes, visibilities |-> visibilities, qualifier |-> qualifier,
   ttl |-> ttl, codes |-> codes]

\* The guardrails in the profile's order; each asks for interpretation limits and forces
\* a candidate.  "codes" are its answers to a wrong category or ontology, scope and
\* visibility: the last two are _guardrail_violation's own for a roleplayed scene.
Guardrails ==
  << Guardrail("roleplayed_scene", {"episodic_anchor"}, {"fictional_or_roleplayed_scene"},
       {"episodic", "scene_local"}, {"private_root", "restricted"},
       "roleplay_not_literal", 180,
       <<"roleplay_literalization", "roleplay_scope_forbidden",
         "roleplay_visibility_forbidden">>),
     Guardrail("assistant_preference_like", {"assistant_preference_like_pattern"}, Patterns,
       {"persona", "relationship", "episodic", "scene_local"},
       {"private_root", "restricted", "shareable"},
       "assistant_pattern_not_subjective_experience", 180,
       [i \in 1..3 |-> "epistemic_qualification_required"]),
     Guardrail("subjective_experience_claim",
       {"assistant_preference_like_pattern", "open_question", "interpretation"},
       {"hypothesis", "uncertain"},
       {"persona", "relationship", "episodic", "scene_local"},
       {"private_root", "restricted"},
       "subjective_experience_unresolved", 90,
       [i \in 1..3 |-> "sentience_overclaim"]) >>

Signals == {Guardrails[i].signal : i \in DOMAIN Guardrails}

-----------------------------------------------------------------------------
(* evaluate_selection                                                      *)

\* A decision; "rules" names the guardrails among its matched_rule_ids by their signals.
Decision(outcome, reason, rules, ttl) ==
  [outcome |-> outcome, reason |-> reason, rules |-> rules, ttl |-> ttl]

\* A gate: what a request must meet, and the reason it is rejected with otherwise.
Gate(meets, reason) == [meets |-> meets, reason |-> reason]

\* _guardrail_violation
GuardrailGates(r, g) ==
  << Gate(r.category \in g.categories /\ r.ontology \in g.ontologies, g.codes[1]),
     Gate(r.scope \in g.scopes, g.codes[2]),
     Gate(r.visibility \in g.visibilities, g.codes[3]) >>

Applicable(r) == SelectSeq(Guardrails, LAMBDA g : g.signal \in r.signals)

\* _evidence_satisfies: distinct keys of the kinds and trusts the rule accepts.
EvidenceSatisfies(r, rule) ==
  Cardinality({i.key : i \in {e \in r.evidence : e.kind \in rule.kinds
                                                 /\ e.trust \in rule.trusts}})
    >= rule.minimum

\* The gates after the structural one, in the order evaluate_selection tries them.
Gates(r, rule, rails) ==
  FlattenSeq([i \in DOMAIN rails |-> GuardrailGates(r, rails[i])])
    \o << Gate(rule.authority \in {"any", r.authority}, "authority_not_established"),
          Gate(EvidenceSatisfies(r, rule), "evidence_required"),
          Gate(r.category \in rule.categories, "basis_category_incompatible"),
          Gate(r.reason, "reason_required"),
          Gate(/\ rule.qualifiers \cup {rails[i].qualifier : i \in DOMAIN rails}
                    \subseteq r.qualifiers
               /\ (rule.limits \/ rails # <<>>) => r.limits,
               "epistemic_qualification_required") >>

\* What passes: every applicable guardrail forces a candidate, with the shortest of the
\* forced lifetimes in place of the basis rule's.
Accepted(r, rule, rails) ==
  IF rails = <<>> THEN Decision(rule.outcome, r.basis, r.signals, rule.ttl)
  ELSE Decision("candidate", r.basis, r.signals,
                Min({rails[i].ttl : i \in DOMAIN rails}))

\* Faulty variant of EvaluateSelection: guardrails force a candidate before the gates.
EvaluateForcingFirst(r) ==
  LET rule == BasisRules[r.basis]
      rails == Applicable(r)
      failed == SelectSeq(Gates(r, rule, rails), LAMBDA g : ~g.meets)
  IN IF r.ontology \notin CategoryOntology[r.category]
       THEN Decision("reject", "category_ontology_incompatible", {}, 0)
     ELSE IF rule.outcome = "omit" THEN Decision("omit", r.basis, {}, 0)
     ELSE IF rails = <<>> /\ failed # <<>>
       THEN Decision("reject", failed[1].reason, r.signals, 0)
     ELSE Accepted(r, rule, rails)

\* An omission stores no content, so no gate but the structural one applies to it.
EvaluateSelection(r) ==
  LET rule == BasisRules[r.basis]
      rails == Applicable(r)
      failed == SelectSeq(Gates(r, rule, rails), LAMBDA g : ~g.meets)
  IN IF r.ontology \notin CategoryOntology[r.category]
       THEN Decision("reject", "category_ontology_incompatible", {}, 0)
     ELSE IF rule.outcome = "omit" THEN Decision("omit", r.basis, {}, 0)
     ELSE IF failed # <<>> THEN Decision("reject", failed[1].reason, r.signals, 0)
     ELSE Accepted(r, rule, rails)

Rank == [reject |-> 0, omit |-> 1, candidate |-> 2, active |-> 3]

\* A further content signal never makes evaluate_selection accept what it declined, nor
\* make active what was a candidate: guardrails and their forced candidacy only restrict.
SignalsOnlyRestrict(r) ==
  \A s \in Signals :
    Rank[EvaluateSelection([r EXCEPT !.signals = @ \cup {s}]).outcome]
      <= Rank[EvaluateSelection(r).outcome]

-----------------------------------------------------------------------------
(* Candidates, and the structural rules                                    *)

\* evaluate_promotion of a candidate of the current profile.
EvaluatePromotion(basis, signals, evidence) ==
  LET observed == {e \in evidence : e.kind = "assistant_observation" /\ e.trust = "trusted"}
  IN IF \E e \in evidence : e.kind = "user_confirmation" /\ e.trust = "trusted"
       THEN "trusted_user_confirmation"
     ELSE IF \/ basis = "imported_legacy"
             \/ signals \cap {"roleplayed_scene", "subjective_experience_claim"} # {}
       THEN "protected_candidate"
     ELSE IF Cardinality({e.key : e \in observed}) >= 2 THEN "independent_observations"
     ELSE "insufficient_evidence"

Promotes(reason) == reason \in {"trusted_user_confirmation", "independent_observations"}

\* evaluate_expiry of a candidate of the current profile.
EvaluateExpiry(deadline, now) ==
  IF deadline > now THEN "expiry_not_due" ELSE "candidate_expired"

ScopedSubjectKind ==
  [global |-> "global", persona |-> "persona", relationship |-> "relationship",
   project |-> "project", episodic |-> "episode", scene_local |-> "scene"]

\* validate_memory_constraints, with the anchors and the branch's ceiling that
\* _validate_after_image_constraints takes as met.
ValidateMemoryConstraints(m, transport) ==
  /\ m.ontology \in CategoryOntology[m.category]
  /\ m.subject = ScopedSubjectKind[m.scope]
  /\ ~(m.scope = "global" /\ m.ontology = "fictional_or_roleplayed_scene")
  /\ m.scope = "episodic" => m.origin \/ m.authority = "imported_legacy_memory"
  /\ m.scope = "scene_local" =>
       m.origin /\ m.visibility \notin {"shareable", "public_seed"}
  /\ m.visibility = "shareable" => m.sensitivity <= 1
  /\ m.visibility = "public_seed" => m.status = "active" /\ m.sensitivity = 0 /\ m.approved
  /\ ~(transport = "github" /\ m.scope \in {"global", "scene_local"})
  /\ ~(transport = "relay" /\ m.sensitivity = 4)

=============================================================================
