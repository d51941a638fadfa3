----------------------------- MODULE Retrieval -----------------------------
(***************************************************************************)
(* Reads of the memory node (application/queries.py, storage/retrieval.py, *)
(* retrieval/) while commands write.  A read holds one READ COMMITTED      *)
(* session: each of its SQL statements sees what is committed when it      *)
(* starts.  So each statement is a step, and commands, the embedding       *)
(* worker and the destruction of keys run between them.                    *)
(*                                                                         *)
(* A memory row is its status, its revision and its text (0 when it is     *)
(* sealed or erased); the attributes no command changes are constants.     *)
(* What a text scores in a channel is a constant function, and a memory's  *)
(* score modifiers are one number.                                         *)
(***************************************************************************)
EXTENDS ContextPack

CONSTANTS
  Memories,       \* memory identifiers: numbers, so that they break ties
  Conflicts,      \* conflict identifiers
  Attr,           \* per memory: scope, subject, visibility, sensitivity, topic, session,
                  \* the instants it is valid at, whether it is sealed, section, modifiers
  Principal,      \* the reader's grant: operations, scopes, visibilities, sensitivity,
                  \* candidates, own sessions
  Now,            \* evaluated_at
  Score,          \* per channel, memory and text: 0 is no match
  Depth,          \* candidates a channel returns at most
  K, Weight,      \* the profile rrf-v1: the constant, and the weight of each channel
  Starts,         \* what a read may start from: the rows, the members of conflict 1 if
                  \* it is open, the read, and a bound on the commands beside it
  MaxWrites       \* the largest of those bounds

VARIABLES
  mem,        \* memories
  conflict,   \* memory_conflicts with their members
  emb,        \* memory_embeddings_v1 of the approved model: revision and text embedded
  jobs,       \* unfinished embed_memory jobs: memory and revision
  key,        \* per sealed memory: state of its content key
  held,       \* memories whose key the provider holds
  writes,     \* commands that may still run
  request,    \* the read
  q,          \* its local state
  past        \* what was committed at some moment since the read began

store == <<mem, conflict, emb, jobs, key, held, writes>>
vars == <<mem, conflict, emb, jobs, key, held, writes, request, q, past>>

Absent == [status |-> "absent", rev |-> 0, text |-> 0]
Statuses == {"absent", "candidate", "active", "disputed", "superseded", "retired", "tombstoned"}
Live == {"candidate", "active", "disputed"}
Unembedded == [rev |-> 0, text |-> 0]
Texts == {1, 2}
Unsealed == 3    \* the text of a sealed memory once it is opened

NoAnswer == [code |-> "none", hits |-> {}, groups |-> {}, items |-> <<>>]
Idle == [pc |-> "idle", lex |-> <<>>, tri |-> <<>>, vec |-> <<>>, hits |-> {},
         subjects |-> {}, seeds |-> {}, todo |-> {}, whole |-> {}, groups |-> {},
         answer |-> NoAnswer]

\* What the embedding worker stores, and for which rows.
Embeddable(row) == row.status \in Live /\ row.text # 0
Vector(row) == [rev |-> row.rev, text |-> row.text]

Init ==
  \E s \in Starts :
    /\ mem = s.rows
    /\ conflict = [c \in Conflicts |->
         IF c = 1 /\ s.open # {} THEN [status |-> "open", members |-> s.open]
         ELSE [status |-> "absent", members |-> {}]]
    /\ emb = [m \in Memories |-> IF Embeddable(s.rows[m]) THEN Vector(s.rows[m])
                                  ELSE Unembedded]
    /\ jobs = {}
    /\ key = [m \in Memories |-> IF Attr[m].sealed THEN "active" ELSE "none"]
    /\ held = {m \in Memories : Attr[m].sealed}
    /\ writes = s.writes
    /\ request = s.request
    /\ q = Idle
    /\ past = {}

----------------------------------------------------------------------------
(* Commands, the embedding worker and the broker.                           *)

\* Faulty variant of EmbedJobs: the jobs are for the revisions to come.
EmbedJobsAhead(rows) == {<<m, rows[m].rev + 1>> : m \in DOMAIN rows}

EmbedJobs(rows) == {<<m, rows[m].rev>> : m \in DOMAIN rows}

\* Commit of a command that replaces rows: an embed_memory job for each after-image.
\* Commands before and after the read are left out: it starts from any of Starts.
Commit(rows, confs, keys) ==
  LET after == [m \in Memories |-> IF m \in DOMAIN rows THEN rows[m] ELSE mem[m]] IN
  /\ writes > 0 /\ q.pc \notin {"idle", "done"}
  /\ writes' = writes - 1
  /\ mem' = after
  /\ conflict' = confs
  /\ key' = keys
  /\ jobs' = jobs \cup EmbedJobs(rows)
  /\ past' = past \cup {[mem |-> after, conflict |-> confs]}
  /\ UNCHANGED <<emb, held, request, q>>

Update(m, status, text) == [status |-> status, rev |-> mem[m].rev + 1, text |-> text]

Remember(m, text) ==
  /\ mem[m] = Absent /\ ~Attr[m].sealed
  /\ Commit(m :> [status |-> "active", rev |-> 1, text |-> text], conflict, key)

Revise(m, text) ==
  /\ mem[m].status \in Live /\ ~Attr[m].sealed /\ text # mem[m].text
  /\ Commit(m :> Update(m, mem[m].status, text), conflict, key)

Retire(m) ==
  /\ mem[m].status \in {"candidate", "active"} /\ ~Attr[m].sealed
  /\ Commit(m :> Update(m, "retired", mem[m].text), conflict, key)

\* A sealed memory is forgotten with its key, another one by its row.
Forget(m) ==
  /\ mem[m].status \notin {"absent", "disputed", "tombstoned"}
  /\ Commit(m :> Update(m, "tombstoned", 0), conflict,
            [key EXCEPT ![m] = IF Attr[m].sealed THEN "destruction_pending" ELSE "none"])

OpenConflict(c, members) ==
  /\ conflict[c].status = "absent"
  /\ \A m \in members : /\ mem[m].status \in {"candidate", "active"} /\ ~Attr[m].sealed
                        /\ \A n \in members : Attr[m].subject = Attr[n].subject
  /\ Commit([m \in members |-> Update(m, "disputed", mem[m].text)],
            [conflict EXCEPT ![c] = [status |-> "open", members |-> members]], key)

ResolveConflict(c, superseded) ==
  /\ conflict[c].status = "open"
  /\ superseded \subseteq conflict[c].members
  /\ Commit([m \in conflict[c].members |->
               Update(m, IF m \in superseded THEN "superseded" ELSE "active", mem[m].text)],
            [conflict EXCEPT ![c].status = "resolved"], key)

Destroy(m) ==
  /\ key[m] = "destruction_pending" /\ m \in held
  /\ held' = held \ {m}
  /\ UNCHANGED <<mem, conflict, emb, jobs, key, writes, request, q, past>>

\* Faulty variant of AfterJob: the vector of a memory that is no longer live is kept.
AfterJobKept(m, rev) ==
  IF mem[m].rev > rev \/ ~Embeddable(mem[m]) THEN emb[m] ELSE Vector(mem[m])

\* A stale job does nothing; a vector replaces one of an older revision only.
AfterJob(m, rev) ==
  IF mem[m].rev > rev THEN emb[m]
  ELSE IF ~Embeddable(mem[m]) THEN Unembedded
  ELSE IF mem[m].rev > emb[m].rev THEN Vector(mem[m]) ELSE emb[m]

\* handle_embed_memory_job, in one transaction that locks the memory row
HandleEmbedJob(m, rev) ==
  /\ <<m, rev>> \in jobs
  /\ jobs' = jobs \ {<<m, rev>>}
  /\ emb' = [emb EXCEPT ![m] = AfterJob(m, rev)]
  /\ UNCHANGED <<mem, conflict, key, held, writes, request, q, past>>

----------------------------------------------------------------------------
(* Who may read what.                                                       *)

\* A caller's filter narrows the grant.
Narrowed(asked, granted) == IF asked = {} THEN granted ELSE granted \cap asked

AllowedStatuses ==
  {"active", "disputed"}
    \cup IF Principal.candidates /\ request.candidates THEN {"candidate"} ELSE {}

\* _hard_predicates with _storage_filters.  The session's subjects are the ones that
\* originate in it.
HardPredicates(m, row, searchable) ==
  LET a == Attr[m] IN
  /\ row.status \in AllowedStatuses
  /\ a.scope \in Narrowed(request.scopes, Principal.scopes)
  /\ a.visibility \in Narrowed(request.visibilities, Principal.visibilities)
  /\ a.sensitivity <= Principal.sensitivity
  /\ \/ a.scope \in {"global", "persona"}
     \/ a.scope = "project" /\ a.subject \in request.projects
     \/ a.scope = "relationship" /\ a.subject \in request.relationships
     \/ a.scope \in {"episodic", "scene_local"} /\ a.subjectSession = request.session
  /\ searchable => ~a.sealed /\ row.text # 0
  /\ request.subjects # {} => a.subject \in request.subjects
  /\ request.topics # {} => a.topic \in request.topics
  /\ request.at # 0 => request.at \in a.valid

\* evaluate_eligibility: the same policy on the hydrated row, with the validity now
\* and the memory's own session.
Eligible(m, row) ==
  LET a == Attr[m] IN
  /\ request.kind \in Principal.operations
  /\ row.status \notin {"superseded", "retired", "tombstoned"}
  /\ row.status = "candidate" => Principal.candidates /\ request.candidates
  /\ a.scope \in Principal.scopes
  /\ request.scopes # {} => a.scope \in request.scopes
  /\ a.visibility \in Principal.visibilities
  /\ request.visibilities # {} => a.visibility \in request.visibilities
  /\ a.sensitivity <= Principal.sensitivity
  /\ request.subjects # {} => a.subject \in request.subjects
  /\ request.topics # {} => a.topic \in request.topics
  /\ a.scope = "project" => request.projects = {a.subject}
  /\ a.scope = "relationship" => request.relationships = {a.subject}
  /\ a.scope \in {"episodic", "scene_local"} =>
       request.session # 0 /\ a.session = request.session
  /\ (IF request.at # 0 THEN request.at ELSE Now) \in a.valid

\* resolve_context: the anchors of the request are the reader's and unambiguous.
Resolves ==
  /\ request.session \in Principal.sessions \cup {0}
  /\ Cardinality(request.projects) <= 1 /\ Cardinality(request.relationships) <= 1

Readable(searchable) == {m \in Memories : HardPredicates(m, mem[m], searchable)}

----------------------------------------------------------------------------
(* Ranking.                                                                 *)

Scale == 100000

\* The best of a channel: by score, then by identifier.
Ranked(S, score) ==
  LET sorted == SetToSortSeq({m \in S : score[m] > 0},
                  LAMBDA m, n : score[m] > score[n] \/ (score[m] = score[n] /\ m < n))
  IN SubSeq(sorted, 1, Min({Len(sorted), Depth}))

\* score_modifiers_v1: authority, confidence, salience and recency, weighted
Modifiers(m) == Attr[m].modifiers

\* weighted_rrf_v1 over the channels that returned something, with the modifiers.
WeightedRRF(channels, m) ==
  LET used == {c \in DOMAIN channels : channels[c] # <<>>}
      total == MapThenSumSet(LAMBDA c : Weight[c], used)
      Share(c) == (Weight[c] * (K + 1) * Scale)
                    \div ((K + CHOOSE i \in DOMAIN channels[c] : channels[c][i] = m) * total)
  IN MapThenSumSet(Share, {c \in used : m \in ToSet(channels[c])}) + Modifiers(m)

\* section_for_hit, from the category and the scope
SectionOf(m) == Attr[m].section

Hit(m, row, score) ==
  [id |-> m, rev |-> row.rev, status |-> row.status,
   text |-> IF Attr[m].sealed THEN Unsealed ELSE row.text,
   section |-> SectionOf(m), score |-> score]

Channels == [lexical |-> q.lex, trigram |-> q.tri, semantic |-> q.vec]

\* The score of a memory that is ranked without a query, at a place of a list.
OwnScore(list, m) == WeightedRRF([lexical |-> list], m)

----------------------------------------------------------------------------
(* The read, a statement at a time.                                         *)

Goto(pc) == q' = [q EXCEPT !.pc = pc]

Answered(a) == [Idle EXCEPT !.pc = "done", !.answer = a]

Reply(a) == q' = Answered(a)

Error(code) == [NoAnswer EXCEPT !.code = code]

Step(pc) == q.pc = pc /\ UNCHANGED <<store, request>>

\* _dispatch, up to the first statement
Dispatch ==
  CASE request.kind \in {"search", "pack"} -> Goto("lexical")
    [] request.kind = "conflicts" ->
         q' = [q EXCEPT !.pc = IF request.query THEN "lexical" ELSE "subjects",
                        !.subjects = request.about]
    [] OTHER -> Goto(request.kind)

\* execute
Begin ==
  /\ q.pc = "idle"
  /\ UNCHANGED <<store, request>>
  /\ past' = {[mem |-> mem, conflict |-> conflict]}
  /\ CASE request.kind \notin Principal.operations -> Reply(Error("forbidden"))
       [] request.kind \in Principal.operations /\ ~Resolves -> Reply(Error("not_found"))
       [] OTHER ->
            IF \/ Narrowed(request.scopes, Principal.scopes) = {}
               \/ Narrowed(request.visibilities, Principal.visibilities) = {}
            THEN Reply(Error("forbidden"))
            ELSE Dispatch

Lexical ==
  /\ Step("lexical") /\ UNCHANGED past
  /\ q' = [q EXCEPT !.pc = "trigram",
            !.lex = Ranked(Readable(TRUE),
                           [m \in Readable(TRUE) |-> Score.lexical[m][mem[m].text]])]

Trigram ==
  /\ Step("trigram") /\ UNCHANGED past
  /\ q' = [q EXCEPT !.pc = IF request.kind = "conflicts" THEN "hydrate" ELSE "vector",
            !.tri = Ranked(Readable(TRUE),
                           [m \in Readable(TRUE) |-> Score.trigram[m][mem[m].text]])]

\* The join of vector_candidates: the vector of the current revision and statement.
Fresh(m) == emb[m] = Vector(mem[m])

\* The embedder answers and the vectors are searched, or the channel is left out.
Semantic ==
  /\ Step("vector") /\ UNCHANGED past
  /\ \/ LET S == {m \in Readable(TRUE) : Fresh(m)}
        IN q' = [q EXCEPT !.pc = "hydrate",
                 !.vec = Ranked(S, [m \in S |-> Score.semantic[m][emb[m].text]])]
     \/ Goto("hydrate")

\* hydrate_memories
Hydrated(ids) == {m \in ids : HardPredicates(m, mem[m], TRUE)}

\* Faulty variant of Admitted: the policy is not asked again.
AdmittedAll(ids) == Hydrated(ids)

Admitted(ids) == {m \in Hydrated(ids) : Eligible(m, mem[m])}

Candidates == ToSet(q.lex) \cup ToSet(q.tri) \cup ToSet(q.vec)

\* The end of _ranked_hits
Hydrate ==
  LET hits == {Hit(m, mem[m], WeightedRRF(Channels, m)) : m \in Admitted(Candidates)} IN
  /\ Step("hydrate") /\ UNCHANGED past
  /\ request.kind # "conflicts"
  /\ q' = [q EXCEPT !.pc = "ids", !.lex = <<>>, !.tri = <<>>, !.vec = <<>>,
            !.hits = hits, !.seeds = {h.id : h \in hits}]

\* A conflicts query is about the subjects of what its words find.
HydrateSubjects ==
  /\ Step("hydrate") /\ UNCHANGED past
  /\ request.kind = "conflicts"
  /\ q' = [q EXCEPT !.pc = "subjects", !.lex = <<>>, !.tri = <<>>,
            !.subjects = @ \cup {Attr[m].subject : m \in Admitted(Candidates)}]

RankedHits == Lexical \/ Trigram \/ Semantic \/ Hydrate

\* find_open_conflicts for one of the subjects
FindOpenConflicts ==
  /\ Step("subjects") /\ UNCHANGED past
  /\ IF q.subjects = {} THEN Goto("groups")
     ELSE \E s \in q.subjects :
            q' = [q EXCEPT !.pc = "ids", !.subjects = @ \ {s},
                  !.seeds = {m \in Readable(TRUE) :
                               /\ Attr[m].subject = s
                               /\ \E c \in Conflicts : /\ conflict[c].status = "open"
                                                       /\ m \in conflict[c].members}]

\* open_conflict_members: the open conflicts of the seeds, then the visible members of
\* each; the number of members never changes.
OpenConflictIds ==
  /\ Step("ids") /\ UNCHANGED past
  /\ q' = [q EXCEPT !.pc = "members", !.seeds = {},
            !.todo = {c \in Conflicts : /\ conflict[c].status = "open"
                                        /\ conflict[c].members \cap q.seeds # {}}]

VisibleMembers ==
  /\ Step("members") /\ UNCHANGED past
  /\ IF q.todo = {} THEN Goto(IF request.kind = "conflicts" THEN "subjects" ELSE "groups")
     ELSE \E c \in q.todo :
            q' = [q EXCEPT !.todo = @ \ {c},
                  !.whole = IF conflict[c].members \subseteq Readable(TRUE)
                            THEN @ \cup {c} ELSE @ \ {c}]

\* conflict_group_eligible, and that no member has left since it was listed.
GroupEligible(c, rows) ==
  rows = conflict[c].members /\ Cardinality(rows) >= 2 /\ \A m \in rows : Eligible(m, mem[m])

GroupHits(rows) ==
  {Hit(m, mem[m], OwnScore(SetToSortSeq(rows, <), m)) : m \in rows}

\* _hydrate_conflict_groups, a group at a time.  A group whose members are no longer
\* disputed does not fit the response model, and the read fails.
HydrateGroup ==
  /\ Step("groups") /\ UNCHANGED past
  /\ \E c \in q.whole :
       LET rows == Hydrated(conflict[c].members) IN
       IF ~GroupEligible(c, rows) THEN q' = [q EXCEPT !.whole = @ \ {c}]
       ELSE IF \E m \in rows : mem[m].status # "disputed" THEN Reply(Error("internal_error"))
       ELSE q' = [q EXCEPT !.whole = @ \ {c},
                  !.groups = @ \cup {[conflict |-> c, members |-> GroupHits(rows)]}]

MembersIn(groups) == UNION {g.members : g \in groups}

\* Faulty variant of WithoutPartial: a group may be cut by the limit.
WithoutPartialNever(page, groups) == page

\* A group that the limit cut leaves the page.
WithoutPartial(page, groups) ==
  {h \in page : \A g \in groups : h \in g.members => g.members \subseteq page}

\* Faulty variant of Expanded: a hit stays beside the group member it became.
ExpandedBoth(hits, groups) == hits \cup MembersIn(groups)

\* The hits, with the members of the groups in place of their own hits.
Expanded(hits, groups) ==
  LET grouped == {h.id : h \in MembersIn(groups)}
  IN {h \in hits : h.id \notin grouped} \cup MembersIn(groups)

SearchPage(hits, groups, limit) ==
  LET ordered == SetToSortSeq(Expanded(hits, groups), Before)
  IN WithoutPartial({ordered[i] : i \in 1..Min({limit, Len(ordered)})}, groups)

\* The end of _dispatch
Answer ==
  LET pack == Assemble(q.hits, q.groups, request.budget, request.scopes # {}) IN
  /\ Step("groups") /\ UNCHANGED past
  /\ q.whole = {}
  /\ CASE request.kind = "search" ->
            Reply([NoAnswer EXCEPT !.code = "ok", !.groups = q.groups,
                   !.hits = SearchPage(q.hits, q.groups, request.limit)])
       [] request.kind = "pack" ->
            Reply([NoAnswer EXCEPT !.code = IF pack.outcome = "pack" THEN "ok" ELSE pack.outcome,
                   !.items = pack.items, !.hits = MembersOf(pack.items), !.groups = q.groups])
       [] OTHER -> Reply([NoAnswer EXCEPT !.code = "ok", !.hits = q.hits, !.groups = q.groups])

GetMemory(m) == HardPredicates(m, mem[m], FALSE)

\* A plain memory is the answer, with its conflicts if asked; a sealed one is opened.
Get ==
  LET m == request.memory IN
  /\ Step("get") /\ UNCHANGED past
  /\ IF ~(GetMemory(m) /\ Eligible(m, mem[m])) THEN Reply(Error("not_found"))
     ELSE q' = [q EXCEPT !.hits = {Hit(m, mem[m], OwnScore(<<m>>, m))},
                         !.seeds = IF request.conflicts THEN {m} ELSE {},
                         !.pc = IF Attr[m].sealed THEN "binding" ELSE "ids"]

\* sealed_content_binding: the creation event, which no command changes
SealedContentBinding == Step("binding") /\ UNCHANGED past /\ Goto("key")

\* content_key_reference: the key must still be active.
ContentKeyReference ==
  /\ Step("key") /\ UNCHANGED past
  /\ IF key[request.memory] = "active" THEN Goto("decrypt") ELSE Reply(Error("not_found"))

\* decrypt_memory_state: the provider must still hold it.
Decrypt ==
  /\ Step("decrypt") /\ UNCHANGED past
  /\ IF request.memory \in held THEN Goto("ids") ELSE Reply(Error("not_found"))

OpenSealedMemory == SealedContentBinding \/ ContentKeyReference \/ Decrypt

\* timeline and selection_events: the memories whose events are listed
Timeline ==
  /\ Step("timeline") /\ UNCHANGED past
  /\ Reply([NoAnswer EXCEPT !.code = "ok",
            !.hits = {Hit(m, mem[m], 0) : m \in Readable(TRUE)}])

Command ==
  \/ \E m \in Memories, t \in Texts : Remember(m, t) \/ Revise(m, t)
  \/ \E m \in Memories : Retire(m) \/ Forget(m)
  \/ \E c \in Conflicts, members \in SUBSET Memories :
       \/ Cardinality(members) = 2 /\ OpenConflict(c, members)
       \/ ResolveConflict(c, members)

ConflictGroups == OpenConflictIds \/ VisibleMembers \/ HydrateGroup

Read ==
  \/ Begin \/ RankedHits \/ HydrateSubjects \/ FindOpenConflicts \/ ConflictGroups
  \/ Answer \/ Get \/ OpenSealedMemory \/ Timeline

Next ==
  \/ Command
  \/ \E m \in Memories : Destroy(m) \/ (\E rev \in 1..MaxWrites + 2 : HandleEmbedJob(m, rev))
  \/ Read

Spec == Init /\ [][Next]_vars

----------------------------------------------------------------------------

TypeOK ==
  /\ \A m \in Memories : mem[m].status \in Statuses /\ mem[m].rev \in 0..MaxWrites + 2
  /\ \A m \in Memories : emb[m].rev <= mem[m].rev
  /\ \A j \in jobs : j[1] \in Memories /\ j[2] \in 1..mem[j[1]].rev
  /\ held \subseteq Memories
  /\ q.pc \in {"idle", "lexical", "trigram", "vector", "hydrate", "subjects", "ids", "members",
               "groups", "get", "binding", "key", "decrypt", "timeline", "done"}
  /\ q.answer.code \in {"none", "ok", "forbidden", "not_found", "budget_too_small",
                        "internal_error"}

Done == q.pc = "done" /\ q.answer.code = "ok"

RowOf(h) == [status |-> h.status, rev |-> h.rev,
             text |-> IF h.text = Unsealed THEN 0 ELSE h.text]

\* Hits that were all stored at one moment of the read, each readable as it was.
Together(hits) ==
  /\ \E p \in past : \A h \in hits : p.mem[h.id] = RowOf(h)
  /\ \A h \in hits : HardPredicates(h.id, RowOf(h), FALSE)

\* A read answers with what was committed and readable while it ran, each memory in one
\* version: the hits outside conflict groups are of one moment, and so are the members of
\* each group, which take the place of their own hits (_dispatch, hydrate_memories).
AnswersWereCurrent ==
  Done =>
    /\ Together(q.answer.hits \ MembersIn(q.answer.groups))
    /\ \A g \in q.answer.groups : Together(g.members)
    /\ \A h, g \in q.answer.hits : h.id = g.id => h = g

\* A conflict group in an answer is a conflict that was open during the read, with all of
\* its members, every one disputed; and a page or a pack has all of them or none
\* ("A complete eligible group is either included together or omitted together").
GroupsAreWhole ==
  Done => \A g \in q.answer.groups :
    /\ \E p \in past : /\ p.conflict[g.conflict].status = "open"
                       /\ p.conflict[g.conflict].members = {h.id : h \in g.members}
    /\ \A h \in g.members : h.status = "disputed"
    /\ request.kind \in {"search", "pack"} =>
         \/ g.members \subseteq q.answer.hits
         \/ {h.id : h \in g.members} \cap {h.id : h \in q.answer.hits} = {}

\* The policy has the last word on what is served: nothing outside its validity, another
\* session's or another subject's is in a search, a pack, a get or a group
\* (evaluate_eligibility after the hard predicates).
ServedIsEligible ==
  Done /\ request.kind # "timeline" =>
    \A h \in q.answer.hits \cup MembersIn(q.answer.groups) : Eligible(h.id, RowOf(h))

\* Every job but the one for the current revision is moot: with that one done, a live
\* memory has the vector of its current statement and any other memory has none
\* (handle_embed_memory_job discards stale jobs in whatever order they come).
VectorsSettle ==
  \A m \in Memories : <<m, mem[m].rev>> \notin jobs =>
    emb[m] = IF Embeddable(mem[m]) THEN Vector(mem[m]) ELSE Unembedded

\* A pack stays within the budget that was asked for, and a budget is too small only when
\* it does not fit the response that says everything was omitted, unless the request
\* narrows the scopes (assemble_context_pack).
PackFits ==
  q.pc = "done" /\ request.kind = "pack" =>
    /\ q.answer.code = "ok" => Measure(q.answer.items, 0) <= Min({request.budget, Ceiling})
    /\ q.answer.code = "budget_too_small" =>
         request.scopes # {} \/ Envelope + TruncationCodes > Min({request.budget, Ceiling})

=============================================================================
