----------------------------- MODULE MCContents -----------------------------
(***************************************************************************)
(* What comes in, what becomes of it, what is read and what is destroyed.  *)
(* Components that share no state stand side by side, and a behaviour runs *)
(* one of them, "which", while the others rest in an initial state: key    *)
(* destruction with restores of old files, the recovery of an archive, the *)
(* genesis import, the lifecycle of candidates, the history of selection   *)
(* decisions, the reads, and the rebuild of the rows with the drill that   *)
(* recovers them to a point in time.                                       *)
(***************************************************************************)
EXTENDS KeyDestruction, TLC, MCHistories, MCTrees, MCReads, MCScripts

CONSTANTS
  Release, Operators, Branches, Settings, TargetIds, RecoveryBudgets,
  Configs, ImportBudgets,
  c1, c2, hub, importer, Transport, Proposals,
  Deciders,
  Sections, Size, Attr, Principal, Starts, Score, Weight

VARIABLES
  which,
  source, bundle, output, target, rdb, targets, proved, rop, rbudget,
  tree, plan, sound, run, rows, decisions, receipts, memories, others, result, op, budget,
  clock, cmem, cledger, cjobs,
  counter, log, staged, pages, first,
  mem, conflict, emb, jobs, key, held, writes, request, q, past,
  script, pdb, manifest, copy, verifier

recovery == <<source, bundle, output, target, rdb, targets, proved, rop, rbudget>>
import ==
  <<tree, plan, sound, run, rows, decisions, receipts, memories, others, result, op, budget>>
lifecycle == <<clock, cmem, cledger, cjobs>>
history == <<counter, log, staged, pages, first>>
reads == <<mem, conflict, emb, jobs, key, held, writes, request, q, past>>
drill == <<script, pdb, manifest, copy, verifier>>

A == INSTANCE ArchiveRecovery WITH
       Budgets <- RecoveryBudgets, db <- rdb, op <- rop, budget <- rbudget
G == INSTANCE GenesisImport WITH Budgets <- ImportBudgets
L == INSTANCE CandidateSelection WITH
       Clients <- {c1, c2, hub, importer}, Memories <- {1, 2}, Day <- 180, MaxTime <- 200,
       MaxDecisions <- 3, mem <- cmem, ledger <- cledger, jobs <- cjobs
H == INSTANCE SelectionHistory WITH Limit <- 1, MaxSequence <- 4
R == INSTANCE Retrieval WITH
       SectionCap <- 1, Envelope <- 2, Ceiling <- 9, Memories <- 1..4, Conflicts <- {1},
       Now <- 1, Depth <- 4, K <- 60, MaxWrites <- 2

P == INSTANCE PointInTime WITH
       MemoryIds <- 1..3, ConflictIds <- {1}, Subjects <- {"s"}, ConfirmSubjects <- {},
       Fingerprints <- {"f", "g"}, Sources <- {"v", "w"},
       Scripts <- CommandScripts, FirstMarkers <- {2}, db <- pdb

----------------------------------------------------------------------------
(* Two clients of the public API, the GitHub proposals and the import.     *)
Transports ==
  [c \in {c1, c2, hub, importer} |->
     IF c = hub THEN "github" ELSE IF c = importer THEN "genesis" ELSE "direct"]
Observation ==
  [statement |-> "s", basis |-> "assistant_observation", category |-> "emergent_tendency",
   ontology |-> "observed_assistant_behavior", scope |-> "persona",
   visibility |-> "private_root", qualifiers |-> {"imported_source_unreconciled"},
   limits |-> TRUE, subject |-> "persona", sensitivity |-> 1, origin |-> FALSE]
Nominations ==
  {Observation, [Observation EXCEPT !.basis = "imported_legacy"],
   [Observation EXCEPT !.basis = "routine_banter"],
   [Observation EXCEPT !.visibility = "restricted"]}

\* What a caller may ask the policy, with every set of content signals.
Requests ==
  [basis : DOMAIN L!BasisRules,
   category : {"episodic_anchor", "user_preference", "assistant_preference_like_pattern"},
   ontology : {"fictional_or_roleplayed_scene", "uncertain"}, scope : {"episodic", "global"},
   visibility : {"private_root", "shareable"},
   authority : {"explicit_user_statement", "assistant_observation"},
   signals : SUBSET L!Signals,
   qualifiers : {{}, {"roleplay_not_literal", "subjective_experience_unresolved"}},
   limits : BOOLEAN, reason : {TRUE},
   evidence : {{}} \cup {{[key |-> 1, kind |-> kind, trust |-> "trusted"]} :
                           kind \in {"user_statement", "conversation_episode"}}]

----------------------------------------------------------------------------
all == <<which, vars, recovery, import, lifecycle, history, reads, drill>>

Rests(component) == which # component

Init7 ==
  /\ which \in {"keys", "recovery", "import", "lifecycle", "policy", "history", "reads",
               "drill"}
  /\ Init /\ L!Init /\ H!Init
  /\ \/ ~Rests("drill")
     \/ Rests("drill") /\ script = CHOOSE commands \in CommandScripts : TRUE
  /\ P!Init
  /\ \/ ~Rests("recovery")
     \/ Rests("recovery") /\ rbudget = Bound({"create"}, 3, 1, 0, 0)
          /\ source = [branch |-> A2, objects |-> {A1, A2}]
  /\ A!Init
  /\ \/ ~Rests("import")
     \/ Rests("import") /\ budget = Import({<<>>}, 1, 0, 0)
  /\ G!Init
  /\ \/ ~Rests("reads")
     \/ Rests("reads") /\ request = Lineage
  /\ R!Init

Next7 ==
  \/ /\ which = "keys" /\ Next
     /\ UNCHANGED <<which, recovery, import, lifecycle, history, reads, drill>>
  \/ /\ which = "recovery" /\ A!Next
     /\ UNCHANGED <<which, vars, import, lifecycle, history, reads, drill>>
  \/ /\ which = "import" /\ G!Next
     /\ UNCHANGED <<which, vars, recovery, lifecycle, history, reads, drill>>
  \/ /\ which = "lifecycle" /\ L!Next
     /\ UNCHANGED <<which, vars, recovery, import, history, reads, drill>>
  \/ /\ which = "history" /\ H!Next
     /\ UNCHANGED <<which, vars, recovery, import, lifecycle, reads, drill>>
  \/ /\ which = "reads" /\ R!Next
     /\ UNCHANGED <<which, vars, recovery, import, lifecycle, history, drill>>
  \/ /\ which = "drill" /\ P!Next
     /\ UNCHANGED <<which, vars, recovery, import, lifecycle, history, reads>>

Spec7 == Init7 /\ [][Next7]_all

----------------------------------------------------------------------------
(* What the components promise, each where it runs.                        *)

\* The log explains every row: rebuild and build_projection_rows give exactly what the
\* writers left, each provenance column included, and verify_pitr reports a recovered
\* server as verified exactly when it is sound and stands, to stay, at the restore point.
RebuiltExactly ==
  which = "drill" => P!TypeOK /\ P!RowsRebuild /\ P!VerifiedExactly

\* Recovery yields what the operator anchored, whatever is moved or replaced between a
\* check and its use: a materialized, continued or proved history is trusted under the
\* settings of some operator, a restored database has exactly the events of one such
\* history and their embedding jobs, a reconstructed checkpoint is and stays true of
\* database and target, and no repository is bound by two targets (materialize,
\* restore_archive_rows, reconstruct_checkpoint, prove_one_normal_append).
RecoveredAsAnchored ==
  which = "recovery" =>
    /\ A!TypeOK /\ A!AnchoredCopies /\ A!RestoredExactly
    /\ A!CheckpointBinds /\ A!OneTargetPerRepository

\* One decision per record of the import, however often it is interrupted, resumed or
\* run twice at once; what is staged is the whole authorized tree, closed and without a
\* cycle; and what the source may not assert on its own never becomes a memory
\* (_GenesisTerminalParticipant.stage, _validate_supersession_graph,
\* resolve_genesis_mapping_metadata).
ImportedOnce ==
  which = "import" => G!TypeOK /\ G!DecidedOnce /\ G!StagedGraph /\ G!WithheldStaysOut

\* An import is completed only by a command that verified it under its own run, mappings
\* and recovery evidence, and nothing the importer itself did can block that (complete_run
\* and the completion trigger; a global scene excepted, see AfterImage).
CompletionIsDue == which = "import" => G!CompletedByItsRun /\ G!NothingBlocks

\* The life of a candidate is accounted for, although nominations repeat and jobs come
\* late or again: only observations of two different clients make it active, one decision
\* created it, at most one ended its candidacy, and as long as nothing changed it the job
\* that will expire it is there.  A further content signal never makes evaluate_selection
\* accept what it declined or activate what was a candidate (_new_candidate_evidence,
\* CandidateLifecycleEngine._attempt, _enqueue_creation_jobs).
CandidatesAccounted ==
  /\ which = "lifecycle" =>
       L!TypeOK /\ L!PromotionIsCorroborated /\ L!LedgerExplains /\ L!CandidateHasExpiry
  /\ which = "policy" => \A r \in Requests : L!SignalsOnlyRestrict(r)

\* A reader that follows the cursor to the end has every decision it might see when it
\* began, each once and newest first, and none that was committed later, whatever is
\* recorded or rolled back between its pages: sequences are committed in order and
\* without gaps (append_selection_decision, list_decisions).
PagesComplete == which = "history" => H!TypeOK /\ H!PagesComplete /\ H!SequencesDense

\* A read answers with what was true while it ran: each memory in one version that was
\* committed and readable then, each conflict group open and with all of its members or
\* none, nothing the policy withholds, in a pack that fits its budget; and whatever order
\* embedding jobs run in, with the one for the current revision done a live memory has the
\* vector of its statement and any other none (_dispatch, evaluate_eligibility,
\* assemble_context_pack, handle_embed_memory_job).
AnswersAreTrue ==
  which = "reads" =>
    /\ R!TypeOK /\ R!AnswersWereCurrent /\ R!GroupsAreWhole /\ R!ServedIsEligible
    /\ R!PackFits /\ R!VectorsSettle
=============================================================================
