------------------------------- MODULE MCTrees -------------------------------
(***************************************************************************)
(* Hypothetical contents of the pinned genesis commit: trees with every    *)
(* kind of record, one for every supersession graph over three candidates, *)
(* and one for each way a tree can be refused; and the import's settings.  *)
(***************************************************************************)
EXTENDS Integers, Sequences

LOCAL INSTANCE GenesisPlan

Candidate(id) == [id |-> id, type |-> "convention", scope |-> "persona", local |-> FALSE,
          owner |-> Genesis, perspective |-> Genesis, relationship |-> "",
          member |-> TRUE, interaction |-> "", fiction |-> FALSE, text |-> id,
          supersedes |-> {}]
Exclusion(id) == [id |-> id, supersedes |-> {}]
Entry(path, form) ==
  [path |-> path, form |-> form, regular |-> TRUE, intact |-> TRUE,
   version |-> form, errors |-> "none", frozen |-> FALSE, located |-> TRUE,
   project |-> "", candidates |-> <<>>, exclusions |-> <<>>]
TwoFiles(c, d) ==
  <<[Entry("a", "v2") EXCEPT !.candidates = <<c>>],
    [Entry("b", "v1") EXCEPT !.candidates = <<d>>]>>

\* A persona memory, its duplicate and a legacy proposal.
Duplicated ==
  <<[Entry("a", "v2") EXCEPT !.candidates =
       <<Candidate("c1"), [Candidate("c2") EXCEPT !.text = "c1"]>>],
    [Entry("p", "proposal") EXCEPT !.candidates = <<Candidate("q")>>]>>
\* A mapped scene, an unmapped scene, and a relational version 1 candidate.
Scenes ==
  <<[Entry("a", "v2") EXCEPT !.candidates =
       <<[Candidate("c1") EXCEPT !.scope = "scene_local", !.interaction = "s1"],
         [Candidate("c2") EXCEPT !.scope = "scene_local", !.interaction = "s2"]>>],
    [Entry("b", "v1") EXCEPT !.candidates = <<[Candidate("d") EXCEPT !.local = TRUE]>>],
    [Entry("doc", "outside") EXCEPT !.regular = FALSE]>>
\* The corrected file, an episode, a relationship and a project.
Corrected ==
  <<[Entry("f", "v2") EXCEPT !.errors = "federation", !.frozen = TRUE,
       !.candidates = <<[Candidate("shared") EXCEPT !.scope = "federation"]>>,
       !.exclusions = <<[Exclusion("not1") EXCEPT !.supersedes = {"not2"}], Exclusion("not2")>>],
    [Entry("g", "v2") EXCEPT !.project = "proj", !.candidates =
       <<[Candidate("c3") EXCEPT !.scope = "episodic"],
         [Candidate("c4") EXCEPT !.scope = "relationship", !.relationship = "rel"]>>],
    [Entry("h", "v1") EXCEPT !.candidates = <<[Candidate("c5") EXCEPT !.scope = "relationship"]>>]>>
Fiction ==
  TwoFiles([Candidate("c1") EXCEPT !.scope = "global", !.fiction = TRUE], Candidate("d"))
Projects ==
  <<[Entry("a", "v2") EXCEPT !.project = "proj",
       !.candidates = <<[Candidate("c1") EXCEPT !.scope = "project"],
                        [Candidate("c2") EXCEPT !.scope = "global"]>>],
    [Entry("b", "v1") EXCEPT !.candidates = <<[Candidate("d") EXCEPT !.scope = "lineage"]>>]>>

Superseding(g) ==
  <<[Entry("a", "v2") EXCEPT !.candidates = <<[Candidate("x") EXCEPT !.supersedes = g["x"]],
                                          [Candidate("y") EXCEPT !.supersedes = g["y"]]>>],
    [Entry("b", "v2") EXCEPT !.candidates = <<[Candidate("z") EXCEPT !.supersedes = g["z"]]>>]>>
SupersessionTrees ==
  {Superseding(g) : g \in {f \in [{"x", "y", "z"} -> SUBSET {"x", "y", "z"}] :
                       /\ "y" \notin f["y"] /\ "z" \notin f["z"]
                       /\ "x" \in f["x"] => f["y"] \union f["z"] = {}}}

RefusedTrees ==
  {TwoFiles([Candidate("c1") EXCEPT !.owner = "other"], Candidate("d")),
   TwoFiles([Candidate("c1") EXCEPT !.perspective = "other"], Candidate("d")),
   TwoFiles([Candidate("c1") EXCEPT !.local = TRUE, !.member = FALSE], Candidate("d")),
   TwoFiles([Candidate("c1") EXCEPT !.type = "unlisted"], Candidate("d")),
   TwoFiles([Candidate("c1") EXCEPT !.scope = "federation"], Candidate("d")),
   TwoFiles([Candidate("c1") EXCEPT !.scope = "project"], Candidate("d")),
   TwoFiles([Candidate("c1") EXCEPT !.supersedes = {"gone"}], Candidate("d")),
   TwoFiles(Candidate("d"), Candidate("d")),
   <<>>}
  \union {<<[Entry("a", "v2") EXCEPT !.candidates = <<Candidate("c1")>>], bad>> : bad \in
     {Entry("k", "unknown"), [Entry("b", "v1") EXCEPT !.regular = FALSE],
      [Entry("b", "v1") EXCEPT !.intact = FALSE], [Entry("b", "v1") EXCEPT !.version = "v2"],
      [Entry("b", "v1") EXCEPT !.located = FALSE], [Entry("b", "v1") EXCEPT !.errors = "other"],
      [Entry("b", "v2") EXCEPT !.errors = "federation"],
      [Entry("b", "v2") EXCEPT !.errors = "federation", !.frozen = TRUE],
      [Entry("b", "v2") EXCEPT !.exclusions = <<Exclusion("n"), Exclusion("n")>>],
      [Entry("b", "v2") EXCEPT !.exclusions = <<[Exclusion("n") EXCEPT !.supersedes = {"n2"}],
                                            [Exclusion("n2") EXCEPT !.supersedes = {"n"}]>>]}}

Mapped == [subjects |-> {TerminalSubject, <<"persona", Genesis>>, <<"scene", "s1">>,
                         <<"relationship", "rel">>, <<"project", "proj">>,
                         <<"global", "global">>},
           sessions |-> {"s1"}]
Config == [approved |-> TRUE, run |-> 1, backup |-> "b1",
           mappings |-> Mapped]
ImportConfigs ==
  {Config, [Config EXCEPT !.approved = FALSE], [Config EXCEPT !.run = 2],
   [Config EXCEPT !.backup = "b2"], [Config EXCEPT !.mappings.sessions = {}],
   [Config EXCEPT !.mappings.subjects = @ \ {<<"scene", "s1">>}, !.mappings.sessions = {}],
   [Config EXCEPT !.mappings.subjects = @ \ {TerminalSubject}]}

Import(trees, commands, touches, revokes) ==
  [trees |-> trees, commands |-> commands, touches |-> touches, revokes |-> revokes]
Imports ==
  {Import({Duplicated}, 3, 0, 0), Import({Duplicated}, 2, 1, 0), Import({Scenes}, 2, 0, 1)}
    \union {Import({t}, 2, 0, 0) : t \in {Corrected, Fiction, Projects}}
    \union {Import({t}, 1, 0, 0) : t \in SupersessionTrees \union RefusedTrees}
==============================================================================
