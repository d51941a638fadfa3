----------------------------- MODULE GenesisPlan -----------------------------
(***************************************************************************)
(* Planning the Genesis first import: from a pinned Git tree to the exact  *)
(* nominations, exclusions and supersession edges that will be staged.     *)
(*                                                                         *)
(*   ingress/snapshot.py, ingress/validator.py, ingress/processor.py,      *)
(*   application/genesis_plan.py, application/genesis_apply.py             *)
(*                                                                         *)
(* Planning is pure: no operator of this module reads the database.  Every *)
(* function of the code that can raise is a Boolean operator here (FALSE   *)
(* when it raises) beside the operator for the value it returns.           *)
(*                                                                         *)
(* A tree is a sequence of entries in path order.  An entry is a record    *)
(*   path, form        the path and the shape its path pattern gives it:   *)
(*                     "proposal", "v1", "v2" (checkpoints), "unknown"     *)
(*                     (under ingress/, no pattern) or "outside"           *)
(*   regular, intact   a 100644 blob; bytes that hash to the blob id       *)
(*   version, errors   the payload's schema_version, and which errors the  *)
(*                     schema finds: "none", "federation" (the known five) *)
(*                     or "other"                                          *)
(*   frozen, located   the one corrected file; path and payload agree      *)
(*   project           the source conversation's project                   *)
(*   candidates, exclusions   sequences of the records below               *)
(* A proposal has one candidate, the one its own fields describe.          *)
(*   candidate: id, type, scope, local, owner, perspective, relationship,  *)
(*              member, interaction, fiction, text, supersedes             *)
(*   exclusion: id, supersedes                                             *)
(* "" stands for None in every field that may be absent.                   *)
(***************************************************************************)
EXTENDS Naturals, Sequences, FiniteSets, SequencesExt

Genesis == "kivra:genesis"

(***************************************************************************)
(* Reading the tree                                                        *)
(***************************************************************************)
SourceContract(e) == e.form \in {"proposal", "v1", "v2"}

ListTree(tree) ==
  \A i \in DOMAIN tree : tree[i].form # "outside" => tree[i].regular

Enumerates(tree) ==
  /\ ListTree(tree)
  /\ \A i \in DOMAIN tree :
       /\ tree[i].form # "unknown"
       /\ SourceContract(tree[i]) => tree[i].intact

Enumerate(tree) == SelectSeq(tree, SourceContract)

(***************************************************************************)
(* Validating one source against the contract its path selects             *)
(***************************************************************************)
\* The federation vocabulary is forgiven to one exact file and to no other.
ValidateSchema(e) ==
  \/ e.errors = "none"
  \/ e.form = "v2" /\ e.frozen /\ e.errors = "federation"

Compatible(e) == e.errors = "federation"

Relational(c) == c.scope = "relationship" \/ c.local

V2Semantics(e) ==
  \A i \in DOMAIN e.candidates :
    LET c == e.candidates[i] IN
      /\ c.owner = Genesis
      /\ Relational(c) => c.member

SchemaVersion(e) == e.version = e.form

RequirePathIdentity(e) == e.located

ValidateIngress(e) ==
  /\ SchemaVersion(e)
  /\ ValidateSchema(e)
  /\ RequirePathIdentity(e)
  /\ e.form = "v2" => V2Semantics(e)

\* Version 1 has no bindings: its relational candidates stay unresolved.
Unresolved(e, c) ==
  /\ e.form \in {"proposal", "v1"}
  /\ c.scope = "relationship" \/ (e.form = "v1" /\ c.local)

(***************************************************************************)
(* Mapping one candidate to a nomination                                   *)
(***************************************************************************)
MappableTypes == {"convention", "decision", "anchor"}

SafeCategory(c) == c.type \in MappableTypes

MapsScope(e, c) == c.scope = "federation" => Compatible(e)

MappedScope(c) ==
  IF c.scope \in {"federation", "lineage"} THEN "persona" ELSE c.scope

ProposalBinding(e, c) ==
  [owner |-> "", perspective |-> "", relationship |-> "", interaction |-> "",
   held |-> Unresolved(e, c)]

Binding(e, c) ==
  CASE e.form = "proposal" -> ProposalBinding(e, c)
    [] e.form = "v1" ->
         [owner |-> Genesis, perspective |-> Genesis, relationship |-> "",
          interaction |-> "", held |-> Unresolved(e, c)]
    [] e.form = "v2" ->
         [owner |-> c.owner, perspective |-> c.perspective,
          relationship |-> c.relationship, interaction |-> c.interaction,
          held |-> FALSE]

SubjectOf(e, c) ==
  LET scope == MappedScope(c)
      b     == Binding(e, c)
  IN CASE scope = "global"       -> <<"global", "global">>
       [] scope = "persona"      -> <<"persona", b.owner>>
       [] scope = "relationship" -> <<"relationship", b.relationship>>
       [] scope = "project"      ->
            <<"project", IF e.form = "proposal" THEN "" ELSE e.project>>
       [] scope = "episodic"     ->
            <<"episode", IF b.interaction # "" THEN b.interaction ELSE c.id>>
       [] scope = "scene_local"  ->
            <<"scene", IF b.interaction # "" THEN b.interaction ELSE c.id>>

\* Its key is a digest of source and semantics: equal input, equal key.
Nomination(e, c) ==
  [key |-> <<e.path, c.id>>, id |-> c.id, source |-> e.path,
   kind |-> IF e.form = "proposal" THEN "proposal" ELSE "candidate",
   owner |-> Binding(e, c).owner, perspective |-> Binding(e, c).perspective,
   held |-> Binding(e, c).held, scope |-> MappedScope(c),
   subject |-> SubjectOf(e, c), text |-> c.text, fiction |-> c.fiction]

Processes(e) ==
  \A i \in DOMAIN e.candidates :
    SafeCategory(e.candidates[i]) /\ MapsScope(e, e.candidates[i])

Process(e) ==
  [i \in DOMAIN e.candidates |-> Nomination(e, e.candidates[i])]

(***************************************************************************)
(* The supersession graphs                                                 *)
(***************************************************************************)
AppendSupersessions(items) ==
  UNION {{items[i].id} \X items[i].supersedes : i \in DOMAIN items}

RECURSIVE Visit(_, _, _, _)
RECURSIVE VisitAll(_, _, _, _)

\* visit(): the depth-first search; a result is [cycle, visited].
Visit(edges, id, visiting, visited) ==
  IF id \in visiting THEN [cycle |-> TRUE, visited |-> visited]
  ELSE IF id \in visited THEN [cycle |-> FALSE, visited |-> visited]
  ELSE LET below == VisitAll(edges, {e[2] : e \in {f \in edges : f[1] = id}},
                             visiting \union {id}, visited)
       IN [cycle |-> below.cycle, visited |-> below.visited \union {id}]

VisitAll(edges, targets, visiting, visited) ==
  IF targets = {} THEN [cycle |-> FALSE, visited |-> visited]
  ELSE LET t     == CHOOSE x \in targets : TRUE
           first == Visit(edges, t, visiting, visited)
       IN IF first.cycle THEN first
          ELSE VisitAll(edges, targets \ {t}, visiting, first.visited)

\* A search from the first record only misses the cycles it cannot reach.
GraphWithoutSearch(ids, edges) ==
  /\ IsInjective(ids)
  /\ \A e \in edges : e[1] # e[2]
  /\ \A e \in edges : {e[1], e[2]} \subseteq ToSet(ids)
  /\ ~VisitAll(edges, {ids[i] : i \in DOMAIN ids \intersect {1}}, {}, {}).cycle

ValidateSupersessionGraph(ids, edges) ==
  /\ IsInjective(ids)
  /\ \A e \in edges : e[1] # e[2]
  /\ \A e \in edges : {e[1], e[2]} \subseteq ToSet(ids)
  /\ ~VisitAll(edges, ToSet(ids), {}, {}).cycle

(***************************************************************************)
(* The plan                                                                *)
(***************************************************************************)
Gather(sources, F(_)) ==
  FlattenSeq([i \in DOMAIN sources |-> F(sources[i])])

CandidatesOf(e) == IF e.form = "proposal" THEN <<>> ELSE e.candidates

ExclusionsOf(e) == e.exclusions

Ids(items) == [i \in DOMAIN items |-> items[i].id]

ValidateSupersessionGraphs(sources) ==
  /\ ValidateSupersessionGraph(
       Ids(Gather(sources, Process)),
       AppendSupersessions(Gather(sources, CandidatesOf)))
  /\ ValidateSupersessionGraph(
       Ids(Gather(sources, ExclusionsOf)),
       AppendSupersessions(Gather(sources, ExclusionsOf)))

PlansImport(tree) ==
  LET sources == Enumerate(tree) IN
    /\ Enumerates(tree)
    /\ \A i \in DOMAIN sources :
         ValidateIngress(sources[i]) /\ Processes(sources[i])
    /\ ValidateSupersessionGraphs(sources)

\* The content-free manifest; its digest is injective, so it is the digest.
Manifest(sources) ==
  [sources        |-> {sources[i].path : i \in DOMAIN sources},
   records        |-> {<<n.key, n.owner>> : n \in ToSet(Gather(sources, Process))},
   exclusions     |-> ToSet(Ids(Gather(sources, ExclusionsOf))),
   candidateEdges |-> AppendSupersessions(Gather(sources, CandidatesOf)),
   exclusionEdges |-> AppendSupersessions(Gather(sources, ExclusionsOf))]

\* A refused tree has no plan; its fields are then never read.
PlanGenesisImport(tree) ==
  LET sources == IF PlansImport(tree) THEN Enumerate(tree) ELSE <<>> IN
    [manifest    |-> Manifest(sources),
     nominations |-> Gather(sources, Process),
     sources     |-> {sources[i].path : i \in DOMAIN sources},
     exclusions  |-> ToSet(Ids(Gather(sources, ExclusionsOf))),
     candidateEdges |-> AppendSupersessions(Gather(sources, CandidatesOf)),
     exclusionEdges |-> AppendSupersessions(Gather(sources, ExclusionsOf)),
     planned     |-> PlansImport(tree),
     corrected   |-> {sources[i].path : i \in {j \in DOMAIN sources :
                                                Compatible(sources[j])}}]

(***************************************************************************)
(* Resolving a nomination against the operator's mappings                  *)
(*   mappings: subjects, a set of <<kind, reference>>; sessions, a set of  *)
(*   references                                                            *)
(***************************************************************************)
TerminalSubject == <<"global", "terminal">>

ResolvesSubject(n, mappings) == n.subject \in mappings.subjects

ResolvesSession(n, mappings) == n.subject[2] \in mappings.sessions

\* An unresolved binding that is treated as an ordinary candidate.
TerminalReasonLax(n, mappings) ==
  CASE n.owner = "" \/ n.perspective = "" -> "source_identity_unresolved"
    [] n.scope = "episodic" -> "source_session_unresolved"
    [] n.scope = "scene_local" /\ ~ResolvesSession(n, mappings) ->
         "source_session_unresolved"
    [] OTHER -> "none"

TerminalReason(n, mappings) ==
  CASE n.owner = "" \/ n.perspective = "" -> "source_identity_unresolved"
    [] n.held -> "unresolved_legacy_binding"
    [] n.scope = "episodic" -> "source_session_unresolved"
    [] n.scope = "scene_local" /\ ~ResolvesSession(n, mappings) ->
         "source_session_unresolved"
    [] OTHER -> "none"

ResolvesTarget(n, mappings) ==
  TerminalReason(n, mappings) = "none" => ResolvesSubject(n, mappings)

ResolveTarget(n, mappings) ==
  IF TerminalReason(n, mappings) = "none" THEN n.subject ELSE TerminalSubject

(***************************************************************************)
(* Preparing the rows of one run                                           *)
(***************************************************************************)
PreparesRecord(n, mappings) ==
  /\ <<n.owner, n.perspective>> \in {<<"", "">>, <<Genesis, Genesis>>}
  /\ ResolvesTarget(n, mappings)

\* GenesisOperatorConfig: exactly one terminal subject is mapped.
OperatorConfig(config) == TerminalSubject \in config.mappings.subjects

\* config.approved: the expected digest is this plan's.
Prepares(plan, config) ==
  /\ OperatorConfig(config)
  /\ plan.planned
  /\ config.approved
  /\ \A n \in ToSet(plan.nominations) : PreparesRecord(n, config.mappings)

Planned(n, mappings) ==
  [state |-> "planned", decision |-> 0, memory |-> 0, id |-> n.id,
   source |-> n.source, owner |-> n.owner,
   target |-> ResolveTarget(n, mappings),
   reason |-> TerminalReason(n, mappings)]

PreparedRows(plan, mappings) ==
  LET N == ToSet(plan.nominations) IN
    [k \in {n.key : n \in N} |->
       Planned(CHOOSE n \in N : n.key = k, mappings)]
=============================================================================
