------------------------------- MODULE MCReads -------------------------------
(* A small corpus and the reads of it: two persona memories in dispute or   *)
(* not, an episode of a session that becomes valid later, and a sealed      *)
(* memory.                                                                  *)
EXTENDS Integers, Sequences

Attributes(scope, subject, topic, session, valid, sealed, section, modifiers) ==
  [scope |-> scope, subject |-> subject, visibility |-> "user", sensitivity |-> 1,
   topic |-> topic, session |-> session, subjectSession |-> session, valid |-> valid,
   sealed |-> sealed, section |-> section, modifiers |-> modifiers]
Corpus ==
  <<Attributes("persona", 1, 1, 0, {1, 2}, FALSE, "persona", 30000),
    Attributes("persona", 1, 2, 0, {1, 2}, FALSE, "persona", 10000),
    Attributes("episodic", 2, 1, 1, {2}, FALSE, "boundaries", 20000),
    Attributes("global", 1, 1, 0, {1, 2}, TRUE, "persona", 0)>>
Reader ==
  [operations |-> {"search", "pack", "get", "conflicts", "timeline"},
   scopes |-> {"persona", "global", "episodic"}, visibilities |-> {"user"},
   sensitivity |-> 2, candidates |-> FALSE, sessions |-> {1}]

Row(status, rev, text) == [status |-> status, rev |-> rev, text |-> text]
NoRow == Row("absent", 0, 0)
Plain == <<Row("active", 1, 1), Row("active", 1, 1), Row("active", 1, 1), NoRow>>
Disputed == <<Row("disputed", 2, 1), Row("disputed", 2, 1), Row("active", 1, 1), NoRow>>
Sealed == <<NoRow, NoRow, NoRow, Row("active", 1, 0)>>

Search ==
  [kind |-> "search", scopes |-> {}, visibilities |-> {}, subjects |-> {}, topics |-> {},
   candidates |-> FALSE, at |-> 0, projects |-> {}, relationships |-> {}, session |-> 1,
   query |-> TRUE, about |-> {}, memory |-> 1, conflicts |-> TRUE, limit |-> 2, budget |-> 8]
Lineage == [Search EXCEPT !.kind = "lineage"]
From(rows, open, read, bound) ==
  [rows |-> rows, open |-> open, request |-> read, writes |-> bound]
Reads ==
  {From(Plain, {}, [Search EXCEPT !.limit = 1], 1),
   From(Disputed, {1, 2}, [Search EXCEPT !.at = 2, !.limit = 5], 2),
   From(Disputed, {1, 2}, [Search EXCEPT !.kind = "conflicts", !.about = {1}], 1),
   From(Plain, {}, [Search EXCEPT !.kind = "conflicts", !.query = FALSE, !.about = {1}], 1),
   From(Disputed, {1, 2}, [Search EXCEPT !.kind = "get"], 1),
   From(Sealed, {}, [Search EXCEPT !.kind = "get", !.memory = 4, !.conflicts = FALSE], 1),
   From(Plain, {}, [Search EXCEPT !.kind = "timeline"], 1),
   From(Plain, {}, Lineage, 0),
   From(Plain, {}, [Search EXCEPT !.session = 2], 0),
   From(Plain, {}, [Search EXCEPT !.scopes = {"relationship"}], 0)}
  \cup {From(IF d THEN Disputed ELSE Plain, IF d THEN {1, 2} ELSE {},
             [Search EXCEPT !.kind = "pack", !.at = 2, !.budget = b, !.scopes = s],
             IF d /\ b = 9 /\ s = {} THEN 1 ELSE 0)
          : d \in BOOLEAN, b \in {1, 3, 6, 9}, s \in {{}, {"persona", "episodic"}}}

Scores ==
  [lexical |-> <<<<2, 1>>, <<1, 2>>, <<1, 0>>, <<0, 0>>>>,
   trigram |-> <<<<1, 0>>, <<1, 1>>, <<2, 1>>, <<0, 0>>>>,
   semantic |-> <<<<3, 1>>, <<2, 2>>, <<1, 3>>, <<0, 0>>>>]
Weights == [lexical |-> 10, trigram |-> 7, semantic |-> 10]
PackSections == <<"boundaries", "persona">>
Sizes == <<2, 2, 1, 1>>
==============================================================================
