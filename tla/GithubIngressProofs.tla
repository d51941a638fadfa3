------------------------ MODULE GithubIngressProofs ------------------------
(***************************************************************************)
(* What the pollers of the GitHub ingress guarantee, for any number of     *)
(* pollers, proposals, commits, enrolments and faults.                     *)
(*                                                                         *)
(* The rows only grow: what register recorded under a path stays, and what *)
(* is terminal stays as it is (Grows).  Each poller knows something about  *)
(* the rows of its batch that no growth takes away (Knows).  From the two, *)
(* everything below the provider head has its row (Below), and a decision  *)
(* has its receipt and its event (Decided).                                *)
(***************************************************************************)
EXTENDS GithubIngress, TLAPS

\* The functions from some of the elements of one set into another.
Partial(D, R) == UNION {[E -> R] : E \in SUBSET D}

Trees == Partial(Paths \cup {Foreign}, Blobs)
ItemStages == {"register", "validate", "quarantine", "select", "refresh", "settled", "retry"}

ItemRows ==
  [state : Terminal \cup {"discovered", "validated"}, commit : Nat, blob : Blobs,
   key : Keys \cup {None}]

Polls ==
  [pc : {"idle", "captured", "loaded", "known", "fetched", "batch", "stopped"},
   epoch : Nat, trusted : Nat, etag : Nat, known : Partial(Paths, Blobs), commit : Nat,
   work : Partial(Paths, ItemStages), attempt : Nat]

\* The shapes the argument needs.
Shapes ==
  /\ budget \in Budgets
  /\ commits \in Seq([parents : SUBSET Nat, tree : Trees])
  /\ tip \in 1..Len(commits)
  /\ installation \in [epoch : Nat, revoked : BOOLEAN]
  /\ head \in [commit : Nat, etag : Nat]
  /\ items \in [Paths -> ItemRows \cup {Absent}]
  /\ receipts \in [Keys -> {<< >>} \cup (Paths \X Nat \X Blobs)]
  /\ memories \in [Fingerprints -> Paths \cup {None}]
  /\ events \subseteq Paths \X Fingerprints
  /\ poll \in [Pollers -> Polls]

Present(q) == items[q] # Absent
Settled(q) == Present(q) /\ items[q].state \in Terminal

\* The row of a path is that of the blob, or the difference is recorded.
Recognised(q, blob) == items[q].blob = blob \/ \E v \in violations : v[1] = q

\* The additions of a batch.
Additions(p) == (DOMAIN Tree(poll[p].commit) \cap Paths) \ DOMAIN poll[p].known

\* What poller p knows of the rows, by the stage of each item in its batch.
Knows(p) ==
  /\ poll[p].commit \in 1..Len(commits)
  /\ \A q \in DOMAIN poll[p].known : Present(q) /\ items[q].blob = poll[p].known[q]
  /\ poll[p].pc \in {"fetched", "batch"} =>
       \A q \in DOMAIN poll[p].known :
         q \in DOMAIN Tree(poll[p].commit) /\ Tree(poll[p].commit)[q] = poll[p].known[q]
  /\ poll[p].pc # "batch" => DOMAIN poll[p].work = {}
  /\ poll[p].pc = "batch" =>
       /\ DOMAIN poll[p].work \subseteq Additions(p)
       /\ \A q \in Additions(p) \ DOMAIN poll[p].work :
            Settled(q) /\ Recognised(q, Blob(p, q))
  /\ \A q \in DOMAIN poll[p].work :
       /\ poll[p].work[q] \in {"validate", "quarantine", "select", "refresh"} =>
            Present(q) /\ Same(p, q)
       /\ poll[p].work[q] = "select" => items[q].key = Payload[items[q].blob].key
       /\ poll[p].work[q] = "settled" => Settled(q) /\ Recognised(q, Blob(p, q))

\* The bootstrap commit holds no proposal, and everything below the provider head has
\* its row.
Below ==
  /\ DOMAIN Tree(Bootstrap) \cap Paths = {}
  /\ head # NoHead =>
       /\ head.commit \in 1..Len(commits)
       /\ \A q \in DOMAIN Tree(head.commit) \cap Paths :
            Present(q) /\ Recognised(q, Tree(head.commit)[q])

\* A row that selection decided has the key of a proposal.
DecidedIsKeyed ==
  \A q \in Paths :
    items[q] # Absent /\ items[q].state \in {"accepted", "duplicate", "rejected"}
      => items[q].key \in Keys

\* An event has its memory, an accepted row its event, a decided row its receipt.
Decided ==
  /\ DecidedIsKeyed
  /\ \A e \in events : memories[e[2]] # None
  /\ AcceptedOnce
  /\ DecidedByItsReceipt

IInv == Shapes /\ (\A p \in Pollers : Knows(p)) /\ Below /\ Decided
-----------------------------------------------------------------------------
\* Functions on a part of a set.

\* A sequence over S has its elements in S.
LEMMA ElementOfSequence ==
  ASSUME NEW S, NEW s \in Seq(S), NEW i \in 1..Len(s)
  PROVE  s[i] \in S
OBVIOUS

\* A function from a part of D into R is one of Partial(D, R).
LEMMA PartialIntro ==
  ASSUME NEW D, NEW R, NEW E \in SUBSET D, NEW f \in [E -> R]
  PROVE  f \in Partial(D, R)
BY DEF Partial

\* And there are no others.
LEMMA PartialElim ==
  ASSUME NEW D, NEW R, NEW f \in Partial(D, R)
  PROVE  DOMAIN f \subseteq D /\ f \in [DOMAIN f -> R]
BY DEF Partial

\* The empty function is one of them.
LEMMA PartialEmpty ==
  ASSUME NEW D, NEW R
  PROVE  << >> \in Partial(D, R) /\ DOMAIN << >> = {}
<1>1. << >> \in [{} -> R]
  OBVIOUS
<1> QED
  BY Zenon, <1>1, PartialIntro

\* Changing a value keeps the domain.
LEMMA PartialExcept ==
  ASSUME NEW D, NEW R, NEW f \in Partial(D, R), NEW x \in DOMAIN f, NEW v \in R
  PROVE  [f EXCEPT ![x] = v] \in Partial(D, R)
<1>1. f \in [DOMAIN f -> R] /\ DOMAIN f \in SUBSET D
  BY PartialElim
<1>2. [f EXCEPT ![x] = v] \in [DOMAIN f -> R]
  BY <1>1
<1> QED
  BY Zenon, <1>1, <1>2, PartialIntro
-----------------------------------------------------------------------------
\* What a poller's step does to the pollers' local states.

\* Only poller p moves.
Alone(p) ==
  /\ poll' \in [Pollers -> Polls]
  /\ \A r \in Pollers \ {p} : poll'[r] = poll[r]

\* A poller at rest has the shape of one.
LEMMA IdleShape == Idle \in Polls /\ [Idle EXCEPT !.pc = "stopped"] \in Polls
BY PartialEmpty DEF Idle, Polls, Bootstrap

\* Rest and Fail put the poller to rest, with an empty batch.
LEMMA RestEffect ==
  ASSUME Shapes, NEW p \in Pollers, Rest(p)
  PROVE  Alone(p) /\ poll'[p] = Idle /\ DOMAIN poll'[p].work = {}
           /\ DOMAIN poll'[p].known = {} /\ poll'[p].commit = 1 /\ poll'[p].pc = "idle"
<1>1. poll' = [poll EXCEPT ![p] = Idle] /\ poll \in [Pollers -> Polls]
  BY DEF Rest, Shapes
<1>2. Alone(p) /\ poll'[p] = Idle
  BY <1>1, IdleShape DEF Alone
<1> QED
  BY <1>2, PartialEmpty DEF Idle, Bootstrap

\* Stop does the same, and the poller stays stopped.
LEMMA StopEffect ==
  ASSUME Shapes, NEW p \in Pollers, Stop(p)
  PROVE  Alone(p) /\ DOMAIN poll'[p].work = {}
           /\ DOMAIN poll'[p].known = {} /\ poll'[p].commit = 1 /\ poll'[p].pc = "stopped"
<1>1. poll' = [poll EXCEPT ![p] = [Idle EXCEPT !.pc = "stopped"]]
        /\ poll \in [Pollers -> Polls]
  BY DEF Stop, Shapes
<1>2. Alone(p) /\ poll'[p] = [Idle EXCEPT !.pc = "stopped"]
  BY <1>1, IdleShape DEF Alone
<1> QED
  BY <1>2, PartialEmpty DEF Idle, Bootstrap

\* Stage moves one item of one batch to its next stage.
LEMMA StageEffect ==
  ASSUME Shapes, NEW p \in Pollers, NEW q \in DOMAIN poll[p].work, NEW stage \in ItemStages,
         Stage(p, q, stage)
  PROVE  /\ Alone(p)
         /\ poll'[p].pc = poll[p].pc /\ poll'[p].commit = poll[p].commit
         /\ poll'[p].known = poll[p].known /\ poll'[p].epoch = poll[p].epoch
         /\ DOMAIN poll'[p].work = DOMAIN poll[p].work
         /\ poll'[p].work[q] = stage
         /\ \A r \in DOMAIN poll[p].work \ {q} : poll'[p].work[r] = poll[p].work[r]
<1> DEFINE work == [poll[p].work EXCEPT ![q] = stage]
           row == [poll[p] EXCEPT !.work = work]
<1>1. poll \in [Pollers -> Polls] /\ poll[p] \in Polls
  BY DEF Shapes
<1>2. poll[p].work \in Partial(Paths, ItemStages)
  BY <1>1 DEF Polls
<1>3. work \in Partial(Paths, ItemStages)
  BY <1>2, PartialExcept
<1>4. DOMAIN work = DOMAIN poll[p].work /\ work[q] = stage
        /\ \A r \in DOMAIN poll[p].work \ {q} : work[r] = poll[p].work[r]
  BY <1>2, PartialElim
<1>5. poll' = [poll EXCEPT ![p] = row]
  BY Zenon DEF Stage
<1> HIDE DEF work
<1>6. row \in Polls /\ row.work = work /\ row.pc = poll[p].pc /\ row.commit = poll[p].commit
        /\ row.known = poll[p].known /\ row.epoch = poll[p].epoch
  BY <1>1, <1>3 DEF Polls
<1> HIDE DEF row
<1>7. Alone(p) /\ poll'[p] = row
  BY <1>1, <1>5, <1>6 DEF Alone
<1> QED
  BY <1>4, <1>6, <1>7
-----------------------------------------------------------------------------
\* The rows only grow.

Grows(q) ==
  Present(q) =>
    /\ Present(q)'
    /\ items'[q].commit = items[q].commit /\ items'[q].blob = items[q].blob
    /\ items[q].state \in Terminal => items'[q] = items[q]
    /\ items'[q].key = items[q].key \/ items'[q].key = Payload[items[q].blob].key

\* GitHub's commits and the durable tables grow.
Grown ==
  /\ \A q \in Paths : Grows(q)
  /\ violations \subseteq violations'
  /\ Len(commits) <= Len(commits')
  /\ \A c \in 1..Len(commits) : commits'[c] = commits[c]

\* When no row and no commit changes, they have grown.
LEMMA StillGrown ==
  ASSUME UNCHANGED <<provider, items, violations>>, Shapes
  PROVE  Grown
<1>1. items' = items /\ violations' = violations /\ commits' = commits
  BY DEF provider
<1>2. Len(commits) \in Nat
  BY DEF Shapes
<1> QED
  BY <1>1, <1>2 DEF Grown, Grows, Present

\* When GitHub has the same commits and every row has grown, all has grown.
LEMMA RowsGrown ==
  ASSUME Shapes, commits' = commits, violations \subseteq violations', \A r \in Paths : Grows(r)
  PROVE  Grown
<1>1. Len(commits) \in Nat
  BY DEF Shapes
<1> QED
  BY <1>1 DEF Grown

\* What is settled and recognised stays so.
LEMMA SettledStays ==
  ASSUME Grown, NEW q \in Paths, NEW blob, Settled(q), Recognised(q, blob)
  PROVE  Settled(q)' /\ (items'[q].blob = blob \/ \E v \in violations' : v[1] = q)
BY Zenon DEF Grown, Grows, Settled, Recognised, Present

\* What a poller knows survives the steps of the others.
LEMMA OthersKnow ==
  ASSUME Shapes, Grown, NEW r \in Pollers, Knows(r), poll'[r] = poll[r]
  PROVE  Knows(r)'
<1> DEFINE known == poll[r].known
           work == poll[r].work
           c == poll[r].commit
<1>1. poll[r] \in Polls
  BY DEF Shapes
<1>2. DOMAIN known \subseteq Paths /\ DOMAIN work \subseteq Paths
  BY <1>1, PartialElim DEF Polls
<1>3. c \in 1..Len(commits) /\ c \in 1..Len(commits') /\ commits'[c] = commits[c]
        /\ Len(commits) \in Nat
  <2>1. c \in 1..Len(commits) /\ Len(commits) \in Nat
    BY DEF Knows, Shapes
  <2>2. Len(commits) <= Len(commits') /\ commits'[c] = commits[c]
    BY <2>1 DEF Grown
  <2> QED
    BY <2>1, <2>2
<1>4. Tree(c)' = Tree(c) /\ \A q : Blob(r, q)' = Blob(r, q)
  BY <1>3 DEF Tree, Blob
<1>5. Additions(r)' = Additions(r)
  BY <1>4 DEF Additions
<1>6. \A q \in Paths : Present(q) =>
        /\ Present(q)'
        /\ items'[q].blob = items[q].blob /\ items'[q].commit = items[q].commit
        /\ items[q].key = Payload[items[q].blob].key =>
             items'[q].key = Payload[items'[q].blob].key
  BY DEF Grown, Grows
<1>7. \A q \in Paths : Present(q) /\ Same(r, q) => Same(r, q)'
  BY <1>4, <1>6 DEF Same
<1>8. \A q \in Paths : Settled(q) /\ Recognised(q, Blob(r, q)) =>
        Settled(q)' /\ Recognised(q, Blob(r, q))'
  BY <1>4, SettledStays DEF Recognised
<1>9. (poll[r].commit \in 1..Len(commits))'
  BY <1>3
<1>10. (\A q \in DOMAIN known : Present(q) /\ items[q].blob = known[q])'
  BY <1>2, <1>6 DEF Knows
<1>11. (poll[r].pc \in {"fetched", "batch"} =>
         \A q \in DOMAIN known : q \in DOMAIN Tree(c) /\ Tree(c)[q] = known[q])'
  BY Zenon, <1>4 DEF Knows
<1>12. (poll[r].pc = "batch" =>
         /\ DOMAIN work \subseteq Additions(r)
         /\ \A q \in Additions(r) \ DOMAIN work : Settled(q) /\ Recognised(q, Blob(r, q)))'
  <2>1. Additions(r) \subseteq Paths
    BY Zenon DEF Additions
  <2> QED
    BY <1>5, <1>8, <2>1 DEF Knows
<1>13. (\A q \in DOMAIN work :
         /\ work[q] \in {"validate", "quarantine", "select", "refresh"} =>
              Present(q) /\ Same(r, q)
         /\ work[q] = "select" => items[q].key = Payload[items[q].blob].key
         /\ work[q] = "settled" => Settled(q) /\ Recognised(q, Blob(r, q)))'
  BY <1>2, <1>6, <1>7, <1>8 DEF Knows
<1> QED
  BY <1>9, <1>10, <1>11, <1>12, <1>13 DEF Knows
-----------------------------------------------------------------------------
\* What each part of the invariant needs of a step.

\* What the pollers know, when one of them moves and the rows grow.
LEMMA AllKnow ==
  ASSUME Shapes, Grown, NEW p \in Pollers, Alone(p), \A r \in Pollers : Knows(r), Knows(p)'
  PROVE  (\A r \in Pollers : Knows(r))'
<1>1. ASSUME NEW r \in Pollers PROVE Knows(r)'
  <2>1. CASE r = p
    BY <2>1
  <2>2. CASE r # p
    BY <2>2, OthersKnow DEF Alone
  <2> QED
    BY <2>1, <2>2
<1> QED
  BY <1>1

\* What lies below a commit keeps its rows.
LEMMA RowsBelow ==
  ASSUME Shapes, Grown, NEW c \in 1..Len(commits),
         \A q \in DOMAIN Tree(c) \cap Paths : Present(q) /\ Recognised(q, Tree(c)[q])
  PROVE  commits'[c] = commits[c] /\ c \in 1..Len(commits')
         /\ \A q \in DOMAIN Tree(c)' \cap Paths :
              /\ Present(q)'
              /\ items'[q].blob = commits'[c].tree[q] \/ \E v \in violations' : v[1] = q
<1>1. Len(commits) \in Nat /\ Len(commits) <= Len(commits') /\ commits'[c] = commits[c]
  BY DEF Grown, Shapes
<1>2. c \in 1..Len(commits')
  BY <1>1
<1>3. Tree(c)' = Tree(c)
  BY <1>1 DEF Tree
<1> QED
  BY <1>1, <1>2, <1>3 DEF Grown, Grows, Recognised, Tree

\* The provider head that stays hides nothing that it did not hide.
LEMMA BelowKept ==
  ASSUME Shapes, Grown, Below, head' = head
  PROVE  Below'
<1>1. 1 \in 1..Len(commits)
  BY DEF Shapes
<1>2. commits'[1] = commits[1]
  BY <1>1 DEF Grown
<1>3. (DOMAIN Tree(Bootstrap) \cap Paths = {})'
  BY <1>2 DEF Below, Tree, Bootstrap
<1>4. CASE head = NoHead
  BY <1>3, <1>4 DEF Below, NoHead
<1>5. CASE head # NoHead
  <2>1. head.commit \in 1..Len(commits)
        /\ \A q \in DOMAIN Tree(head.commit) \cap Paths :
             Present(q) /\ Recognised(q, Tree(head.commit)[q])
    BY <1>5 DEF Below
  <2> QED
    BY <1>3, <2>1, RowsBelow DEF Below, Recognised, Tree
<1> QED
  BY <1>4, <1>5

\* The row is not one that selection decided.
Undecided(row) == row = Absent \/ row.state \notin {"accepted", "duplicate", "rejected"}

\* Decisions stay when receipts, memories and events do and only undecided rows change.
LEMMA DecidedKept ==
  ASSUME Decided, UNCHANGED <<receipts, memories, events>>,
         \A q \in Paths : items'[q] = items[q] \/ (Undecided(items[q]) /\ Undecided(items'[q]))
  PROVE  Decided'
<1>1. receipts' = receipts /\ memories' = memories /\ events' = events
  OBVIOUS
<1>2. (\A e \in events : memories[e[2]] # None)'
  BY <1>1 DEF Decided
<1>3. AcceptedOnce'
  BY <1>1 DEF Decided, AcceptedOnce, Undecided
<1>4. DecidedByItsReceipt'
  BY <1>1 DEF Decided, DecidedByItsReceipt, Undecided
<1>5. DecidedIsKeyed'
  BY DEF Decided, DecidedIsKeyed, Undecided
<1> QED
  BY <1>2, <1>3, <1>4, <1>5 DEF Decided

\* A step of one poller that leaves the tables and GitHub alone.
LEMMA QuietStep ==
  ASSUME IInv, NEW p \in Pollers, Alone(p), Knows(p)',
         UNCHANGED <<provider, client, installation, durable>>
  PROVE  IInv'
<1>1. /\ commits' = commits /\ tip' = tip /\ budget' = budget /\ installation' = installation
      /\ head' = head /\ items' = items /\ violations' = violations /\ receipts' = receipts
      /\ memories' = memories /\ events' = events
  BY DEF provider, client, durable
<1>2. Shapes'
  BY <1>1 DEF IInv, Shapes, Alone
<1>3. Grown
  BY <1>1, StillGrown DEF provider, IInv
<1>4. (\A r \in Pollers : Knows(r))'
  BY <1>3, AllKnow DEF IInv
<1>5. Below'
  BY <1>1, <1>3, BelowKept DEF IInv
<1>6. Decided'
  BY Zenon, <1>1, DecidedKept DEF IInv
<1> QED
  BY <1>2, <1>4, <1>5, <1>6 DEF IInv

\* A poller with nothing in hand knows what it has to.
LEMMA EmptyHanded ==
  ASSUME NEW p \in Pollers, Shapes, commits' = commits, DOMAIN poll'[p].work = {},
         DOMAIN poll'[p].known = {}, poll'[p].commit = 1, poll'[p].pc # "batch"
  PROVE  Knows(p)'
<1>1. 1 \in 1..Len(commits)
  BY DEF Shapes
<1> QED
  BY <1>1 DEF Knows

\* A poller before its batch knows the rows it loaded, and that the tree it fetched
\* has them.
LEMMA BeforeBatch ==
  ASSUME NEW p \in Pollers, items' = items, commits' = commits,
         poll'[p].commit \in 1..Len(commits), poll'[p].pc # "batch", DOMAIN poll'[p].work = {},
         \A q \in DOMAIN poll'[p].known : Present(q) /\ items[q].blob = poll'[p].known[q],
         poll'[p].pc = "fetched" =>
           \A q \in DOMAIN poll'[p].known : /\ q \in DOMAIN Tree(poll'[p].commit)
                                           /\ Tree(poll'[p].commit)[q] = poll'[p].known[q]
  PROVE  Knows(p)'
<1>1. Tree(poll[p].commit)' = Tree(poll'[p].commit)
  BY DEF Tree
<1>2. \A q \in DOMAIN poll'[p].known : Present(q)' /\ items'[q].blob = poll'[p].known[q]
  BY DEF Present
<1> QED
  BY Zenon, <1>1, <1>2 DEF Knows
-----------------------------------------------------------------------------
\* GitHub, the client and the operator.

\* GitHub has a tree for each of its commits.
LEMMA CommitShapes ==
  ASSUME Shapes
  PROVE  /\ \A c \in 1..Len(commits) : Tree(c) \in Trees
         /\ tip \in Nat /\ tip \in 1..Len(commits) /\ Tree(tip) \in Trees
         /\ Bootstrap \in Nat /\ Bootstrap \in 1..Len(commits) /\ Tree(Bootstrap) \in Trees
<1>1. commits \in Seq([parents : SUBSET Nat, tree : Trees])
  BY DEF Shapes
<1>2. tip \in 1..Len(commits) /\ Len(commits) \in Nat
  BY <1>1 DEF Shapes
<1>3. ASSUME NEW c \in 1..Len(commits) PROVE Tree(c) \in Trees
  <2>1. commits[c] \in [parents : SUBSET Nat, tree : Trees]
    BY <1>1, ElementOfSequence, Zenon
  <2> QED
    BY <2>1 DEF Tree
<1>4. tip \in Nat /\ 1 \in 1..Len(commits)
  BY <1>2
<1> QED
  BY <1>2, <1>3, <1>4 DEF Bootstrap

\* A tree to which a proposal is added, or in which one is removed or changed, is a tree.
LEMMA TreeShapes ==
  ASSUME NEW tree \in Trees
  PROVE  /\ \A q \in Paths, b \in Blobs : Extend(tree, q, b) \in Trees
         /\ \A other \in Irregular(tree) : other \in Trees
<1> DEFINE All == Paths \cup {Foreign}
<1>1. DOMAIN tree \subseteq All /\ tree \in [DOMAIN tree -> Blobs]
  BY PartialElim DEF Trees
<1>2. ASSUME NEW q \in Paths, NEW b \in Blobs PROVE Extend(tree, q, b) \in Trees
  <2>1. Extend(tree, q, b) \in [DOMAIN tree \cup {q} -> Blobs]
    BY <1>1 DEF Extend
  <2>2. DOMAIN tree \cup {q} \in SUBSET All
    BY <1>1
  <2> QED
    BY <2>1, <2>2, PartialIntro DEF Trees
<1>3. ASSUME NEW r \in DOMAIN tree PROVE [q \in DOMAIN tree \ {r} |-> tree[q]] \in Trees
  <2>1. [q \in DOMAIN tree \ {r} |-> tree[q]] \in [DOMAIN tree \ {r} -> Blobs]
    BY <1>1
  <2>2. DOMAIN tree \ {r} \in SUBSET All
    BY <1>1
  <2> QED
    BY Zenon, <2>1, <2>2, PartialIntro DEF Trees
<1>4. ASSUME NEW r \in DOMAIN tree, NEW b \in Blobs PROVE [tree EXCEPT ![r] = b] \in Trees
  BY PartialExcept DEF Trees
<1>5. Forged \subseteq Blobs
  BY PathsAndBlobs
<1>6. \A other \in Irregular(tree) : other \in Trees
  <2> SUFFICES ASSUME NEW other \in Irregular(tree) PROVE other \in Trees
    OBVIOUS
  <2> DEFINE Added == {Extend(tree, q, b) : q \in Paths \ DOMAIN tree, b \in Forged}
             Removed == {[q \in DOMAIN tree \ {r} |-> tree[q]] : r \in DOMAIN tree}
             Changed == {[tree EXCEPT ![r] = b] : r \in DOMAIN tree, b \in Forged}
  <2>1. CASE other \in Added
    BY <1>2, <1>5, <2>1
  <2>2. CASE other \in Removed
    <3>1. PICK r \in DOMAIN tree : other = [q \in DOMAIN tree \ {r} |-> tree[q]]
      BY <2>2, Zenon
    <3> QED
      BY <1>3, <3>1, Zenon
  <2>3. CASE other \in Changed
    BY <1>4, <1>5, <2>3
  <2>4. Irregular(tree) = Added \cup Removed \cup Changed
    BY DEF Irregular
  <2> HIDE DEF Added, Removed, Changed
  <2> QED
    BY <2>1, <2>2, <2>3, <2>4
<1> QED
  BY <1>2, <1>6

\* A new commit, or none, and nothing else.
Committed ==
  \/ UNCHANGED provider
  \/ \E parents \in SUBSET Nat, tree \in Trees :
       /\ commits' = Append(commits, [parents |-> parents, tree |-> tree])
       /\ tip' = Len(commits')

\* A step of GitHub keeps the invariant.
LEMMA ProviderStep ==
  ASSUME IInv, Committed, UNCHANGED <<budget, durable, poll>>,
         installation' \in [epoch : Nat, revoked : BOOLEAN]
  PROVE  IInv'
<1>1. /\ budget' = budget /\ poll' = poll
      /\ head' = head /\ items' = items /\ violations' = violations /\ receipts' = receipts
      /\ memories' = memories /\ events' = events
  BY DEF durable
<1>2. /\ commits' \in Seq([parents : SUBSET Nat, tree : Trees])
      /\ tip' \in 1..Len(commits')
      /\ Len(commits) <= Len(commits')
      /\ \A c \in 1..Len(commits) : commits'[c] = commits[c]
  <2>1. commits \in Seq([parents : SUBSET Nat, tree : Trees]) /\ tip \in 1..Len(commits)
    BY DEF IInv, Shapes
  <2>2. CASE UNCHANGED provider
    BY <2>1, <2>2 DEF provider
  <2>3. ASSUME NEW parents \in SUBSET Nat, NEW tree \in Trees,
               commits' = Append(commits, [parents |-> parents, tree |-> tree]),
               tip' = Len(commits')
        PROVE  /\ commits' \in Seq([parents : SUBSET Nat, tree : Trees])
               /\ tip' \in 1..Len(commits')
               /\ Len(commits) <= Len(commits')
               /\ \A c \in 1..Len(commits) : commits'[c] = commits[c]
    <3> DEFINE new == [parents |-> parents, tree |-> tree]
    <3>1. new \in [parents : SUBSET Nat, tree : Trees]
      OBVIOUS
    <3> HIDE DEF new
    <3>2. commits' = Append(commits, new)
      BY <2>3 DEF new
    <3>3. commits' \in Seq([parents : SUBSET Nat, tree : Trees])
          /\ Len(commits') = Len(commits) + 1
      BY <2>1, <3>1, <3>2
    <3>4. \A c \in 1..Len(commits) : commits'[c] = commits[c]
      BY <2>1, <3>1, <3>2
    <3> QED
      BY <2>1, <2>3, <3>3, <3>4
  <2> QED
    BY Zenon, <2>2, <2>3 DEF Committed
<1>3. Shapes'
  BY Zenon, <1>1, <1>2 DEF IInv, Shapes
<1>4. Grown
  BY <1>1, <1>2 DEF Grown, Grows, Present
<1>5. (\A r \in Pollers : Knows(r))'
  BY <1>1, <1>4, OthersKnow DEF IInv
<1>6. Below'
  BY Zenon, <1>1, <1>4, BelowKept DEF IInv
<1>7. Decided'
  BY Zenon, <1>1, DecidedKept DEF IInv
<1> QED
  BY Zenon, <1>3, <1>5, <1>6, <1>7 DEF IInv

\* create_file adds the client's proposal to the tree of the head, or nothing.
LEMMA CreateStep ==
  ASSUME IInv, NEW s \in budget.proposals, CreateUnique(s)
  PROVE  IInv'
<1>1. s.path \in Paths /\ s.blob \in Blobs
  BY ZenonT(60), PathsAndBlobs DEF IInv, Shapes
<1>2. tip \in Nat /\ Tree(tip) \in Trees
  BY CommitShapes DEF IInv
<1>3. UNCHANGED <<budget, installation, durable, poll>>
  BY DEF CreateUnique
<1>4. Committed
  <2>1. Extend(Tree(tip), s.path, s.blob) \in Trees /\ {tip} \in SUBSET Nat
    BY <1>1, <1>2, TreeShapes
  <2> QED
    BY Zenon, <2>1 DEF CreateUnique, Committed
<1>5. installation' \in [epoch : Nat, revoked : BOOLEAN]
  BY <1>3 DEF IInv, Shapes
<1> QED
  BY Zenon, <1>3, <1>4, <1>5, ProviderStep

\* Whatever is pushed is one more commit.
LEMMA RewriteStep ==
  ASSUME IInv, Rewrite
  PROVE  IInv'
<1>1. tip \in Nat /\ Bootstrap \in Nat /\ Tree(tip) \in Trees /\ Tree(Bootstrap) \in Trees
  BY CommitShapes DEF IInv
<1>2. UNCHANGED <<client, installation, durable, poll>>
  BY DEF Rewrite
<1>3. Committed
  <2>1. PICK base \in {tip, Bootstrap} : \E tree \in Irregular(Tree(base)) :
          \E parents \in {{base}, {Bootstrap, tip}} :
            commits' = Append(commits, [parents |-> parents, tree |-> tree])
    BY Zenon DEF Rewrite
  <2>2. PICK tree \in Irregular(Tree(base)) :
          \E parents \in {{base}, {Bootstrap, tip}} :
            commits' = Append(commits, [parents |-> parents, tree |-> tree])
    BY Zenon, <2>1
  <2>3. PICK parents \in {{base}, {Bootstrap, tip}} :
          commits' = Append(commits, [parents |-> parents, tree |-> tree])
    BY Zenon, <2>2
  <2>4. tree \in Trees
    BY Zenon, <1>1, TreeShapes
  <2>5. parents \in SUBSET Nat
    BY <1>1
  <2>6. tip' = Len(commits')
    BY Zenon DEF Rewrite
  <2> QED
    BY Zenon, <2>3, <2>4, <2>5, <2>6 DEF Committed
<1>4. installation' \in [epoch : Nat, revoked : BOOLEAN]
  BY Zenon, <1>2 DEF IInv, Shapes
<1> QED
  BY <1>2, <1>3, <1>4, ProviderStep DEF client

\* The operator touches the installation only.
LEMMA OperatorStep ==
  ASSUME IInv, Revoke \/ Enrol
  PROVE  IInv'
<1>1. UNCHANGED <<provider, client, durable, poll>>
  BY Zenon DEF Revoke, Enrol
<1>2. installation \in [epoch : Nat, revoked : BOOLEAN]
  BY Zenon DEF IInv, Shapes
<1>3. installation' \in [epoch : Nat, revoked : BOOLEAN]
  <2>1. CASE Revoke
    BY ZenonT(60), <1>2, <2>1 DEF Revoke
  <2>2. CASE Enrol
    <3>1. installation' = [epoch |-> installation.epoch + 1, revoked |-> FALSE]
            /\ installation.epoch \in Nat
      BY Zenon, <1>2, <2>2 DEF Enrol
    <3> QED
      BY <3>1
  <2> QED
    BY Zenon, <2>1, <2>2
<1> QED
  BY Zenon, <1>1, <1>3, ProviderStep DEF Committed, client
-----------------------------------------------------------------------------
\* The steps of a poller outside its items.

\* A poll that fails drops its batch and keeps the rows.
LEMMA FailStep ==
  ASSUME IInv, NEW p \in Pollers, Fail(p), UNCHANGED <<provider, client, installation, durable>>
  PROVE  IInv'
<1>1. Shapes /\ commits' = commits /\ items' = items
  BY Zenon DEF IInv, provider, durable
<1>2. Alone(p) /\ Knows(p)'
  BY Zenon, <1>1, RestEffect, EmptyHanded DEF Fail
<1> QED
  BY Zenon, <1>2, QuietStep

\* A poller without a batch may rest or stop.
LEMMA RestStep ==
  ASSUME IInv, NEW p \in Pollers, Rest(p) \/ Stop(p), poll[p].pc # "batch",
         UNCHANGED <<provider, client, installation, durable>>
  PROVE  IInv'
<1>1. Shapes /\ commits' = commits /\ Knows(p)
  BY Zenon DEF IInv, provider
<1>2. Alone(p) /\ Knows(p)'
  BY Zenon, <1>1, RestEffect, StopEffect, EmptyHanded
<1> QED
  BY Zenon, <1>2, QuietStep

\* _installation_epoch
LEMMA CaptureStep ==
  ASSUME IInv, NEW p \in Pollers, CaptureEpoch(p)
  PROVE  IInv'
<1>1. poll[p].pc = "idle" /\ UNCHANGED <<provider, client, installation, durable>>
  BY Zenon DEF CaptureEpoch
<1>2. CASE installation.revoked
  BY Zenon, <1>1, <1>2, RestStep DEF CaptureEpoch
<1>3. CASE ~installation.revoked
  <2>1. poll \in [Pollers -> Polls] /\ poll[p] \in Polls /\ installation.epoch \in Nat
    BY Zenon DEF IInv, Shapes
  <2>2. poll' = [poll EXCEPT ![p].pc = "captured", ![p].epoch = installation.epoch]
    BY Zenon, <1>3 DEF CaptureEpoch
  <2>3. /\ Alone(p) /\ poll'[p].pc = "captured" /\ poll'[p].commit = poll[p].commit
        /\ poll'[p].known = poll[p].known /\ poll'[p].work = poll[p].work
    BY Zenon, <2>1, <2>2 DEF Alone, Polls
  <2>4. Knows(p)'
    <3>1. items' = items /\ commits' = commits
      BY Zenon, <1>1 DEF provider, durable
    <3>2. Knows(p)
      BY Zenon DEF IInv
    <3>3. /\ poll[p].commit \in 1..Len(commits) /\ DOMAIN poll[p].work = {}
          /\ \A q \in DOMAIN poll[p].known : Present(q) /\ items[q].blob = poll[p].known[q]
      BY Zenon, <1>1, <3>2 DEF Knows
    <3> QED
      BY Zenon, <2>3, <3>1, <3>3, BeforeBatch
  <2> QED
    BY Zenon, <1>1, <2>3, <2>4, QuietStep
<1> QED
  BY Zenon, <1>2, <1>3

\* _known_objects: the poller takes the blobs of all rows.
LEMMA LoadKnownStep ==
  ASSUME IInv, NEW p \in Pollers, LoadKnown(p)
  PROVE  IInv'
<1>1. poll[p].pc = "loaded" /\ UNCHANGED <<provider, client, installation, durable>>
  BY Zenon DEF LoadKnown
<1>2. CASE ~Fenced(p)
  BY Zenon, <1>1, <1>2, RestStep DEF LoadKnown
<1>3. CASE Fenced(p)
  <2> DEFINE known == [q \in Recorded |-> items[q].blob]
  <2>1. poll \in [Pollers -> Polls] /\ poll[p] \in Polls
    BY Zenon DEF IInv, Shapes
  <2>2. known \in Partial(Paths, Blobs)
    <3>1. Recorded \in SUBSET Paths /\ known \in [Recorded -> Blobs]
      BY Zenon DEF IInv, Shapes, Recorded, ItemRows
    <3> QED
      BY Zenon, <3>1, PartialIntro
  <2>3. DOMAIN known = Recorded /\ \A q \in Recorded : known[q] = items[q].blob
    BY Zenon
  <2>4. poll' = [poll EXCEPT ![p].pc = "known", ![p].known = known]
    BY Zenon, <1>3 DEF LoadKnown
  <2> HIDE DEF known
  <2>5. /\ Alone(p) /\ poll'[p].pc = "known" /\ poll'[p].commit = poll[p].commit
        /\ poll'[p].known = known /\ poll'[p].work = poll[p].work
    BY Zenon, <2>1, <2>2, <2>4 DEF Alone, Polls
  <2>6. Knows(p)'
    <3>1. items' = items /\ commits' = commits
      BY Zenon, <1>1 DEF provider, durable
    <3>2. Knows(p)
      BY Zenon DEF IInv
    <3>3. \A q \in DOMAIN known : Present(q) /\ items[q].blob = known[q]
      BY Zenon, <2>3 DEF Present, Recorded
    <3> QED
      BY Zenon, <1>1, <2>5, <3>1, <3>2, <3>3, BeforeBatch DEF Knows
  <2> QED
    BY Zenon, <1>1, <2>5, <2>6, QuietStep
<1> QED
  BY Zenon, <1>2, <1>3

\* GitHubSnapshotPoller.poll: a snapshot keeps what the poller knows.
LEMMA SnapshotStep ==
  ASSUME IInv, NEW p \in Pollers, Snapshot(p)
  PROVE  IInv'
<1>1. poll[p].pc = "known" /\ UNCHANGED <<provider, client, installation, durable>>
  BY Zenon DEF Snapshot
<1>2. CASE Rest(p)
  BY Zenon, <1>1, <1>2, RestStep
<1>3. CASE /\ SnapshotAccepted(poll[p].known, Tree(tip))
           /\ poll' = [poll EXCEPT ![p].pc = "fetched", ![p].commit = tip]
  <2>1. poll \in [Pollers -> Polls] /\ poll[p] \in Polls
    BY DEF IInv, Shapes
  <2>2. tip \in Nat /\ tip \in 1..Len(commits)
    BY Zenon, CommitShapes DEF IInv
  <2>3. /\ Alone(p) /\ poll'[p].pc = "fetched" /\ poll'[p].commit = tip
        /\ poll'[p].known = poll[p].known /\ poll'[p].work = poll[p].work
    BY Zenon, <1>3, <2>1, <2>2 DEF Alone, Polls
  <2>4. Tree(tip)' = Tree(tip) /\ tip' = tip /\ commits' = commits /\ items' = items
    BY Zenon, <1>1 DEF Tree, provider, durable
  <2>5. \A q \in DOMAIN poll[p].known :
          q \in DOMAIN Tree(tip) /\ Tree(tip)[q] = poll[p].known[q]
    BY Zenon, <1>3 DEF SnapshotAccepted
  <2>6. Knows(p)'
    <3>1. Knows(p)
      BY Zenon DEF IInv
    <3>2. /\ DOMAIN poll[p].work = {}
          /\ \A q \in DOMAIN poll[p].known : Present(q) /\ items[q].blob = poll[p].known[q]
      BY Zenon, <1>1, <3>1 DEF Knows
    <3> QED
      BY Zenon, <2>2, <2>3, <2>4, <2>5, <3>2, BeforeBatch
  <2> QED
    BY Zenon, <1>1, <2>3, <2>6, QuietStep
<1> QED
  BY Zenon, <1>2, <1>3 DEF Snapshot

\* work_item_from_proposal: the batch is what the tree adds to what is known.
LEMMA BeginBatchStep ==
  ASSUME IInv, NEW p \in Pollers, BeginBatch(p)
  PROVE  IInv'
<1>1. poll[p].pc = "fetched" /\ UNCHANGED <<provider, client, installation, durable>>
  BY Zenon DEF BeginBatch
<1>2. CASE ~Fenced(p)
  BY Zenon, <1>1, <1>2, RestStep DEF BeginBatch
<1>3. CASE Fenced(p)
  <2> DEFINE work == [q \in Additions(p) |-> "register"]
  <2>1. poll \in [Pollers -> Polls] /\ poll[p] \in Polls
    BY DEF IInv, Shapes
  <2>2. work \in Partial(Paths, ItemStages)
    <3>1. Additions(p) \in SUBSET Paths /\ work \in [Additions(p) -> ItemStages]
      BY Zenon DEF Additions, ItemStages
    <3> QED
      BY Zenon, <3>1, PartialIntro
  <2>3. DOMAIN work = Additions(p) /\ \A q \in Additions(p) : work[q] = "register"
    BY Zenon
  <2>4. poll' = [poll EXCEPT ![p].pc = "batch", ![p].attempt = 1, ![p].work = work]
    BY Zenon, <1>3 DEF BeginBatch, Additions
  <2> HIDE DEF work
  <2>5. /\ Alone(p) /\ poll'[p].pc = "batch" /\ poll'[p].commit = poll[p].commit
        /\ poll'[p].known = poll[p].known /\ poll'[p].work = work
    BY Zenon, <2>1, <2>2, <2>4 DEF Alone, Polls
  <2>6. Additions(p)' = Additions(p) /\ Tree(poll[p].commit)' = Tree(poll[p].commit)
    BY Zenon, <1>1, <2>5 DEF Additions, Tree, provider
  <2>7. Knows(p)
    BY DEF IInv
  <2>8. Knows(p)'
    BY ZenonT(60), <1>1, <2>3, <2>5, <2>6, <2>7 DEF Knows, provider, durable, Present
  <2> QED
    BY Zenon, <1>1, <2>5, <2>8, QuietStep
<1> QED
  BY <1>2, <1>3

\* process_batch repeats the transient items; the others are settled.
LEMMA RetryStep ==
  ASSUME IInv, NEW p \in Pollers, RetryBatch(p)
  PROVE  IInv'
<1> DEFINE work == [q \in Retries(p) |-> "register"]
<1>1. /\ poll[p].pc = "batch" /\ UNCHANGED <<provider, client, installation, durable>>
      /\ \A q \in DOMAIN poll[p].work : poll[p].work[q] \in {"settled", "retry"}
  BY Zenon DEF RetryBatch, Finished
<1>2. poll \in [Pollers -> Polls] /\ poll[p] \in Polls /\ Knows(p)
  BY Zenon DEF IInv, Shapes
<1>3. DOMAIN poll[p].work \subseteq Paths
  BY Zenon, <1>2, PartialElim DEF Polls
<1>4. work \in Partial(Paths, ItemStages)
  <2>1. Retries(p) \in SUBSET Paths /\ work \in [Retries(p) -> ItemStages]
    BY Zenon, <1>3 DEF Retries, ItemStages
  <2> QED
    BY Zenon, <2>1, PartialIntro
<1>5. DOMAIN work = Retries(p) /\ \A q \in Retries(p) : work[q] = "register"
  BY Zenon
<1>6. PICK n \in Nat : poll' = [poll EXCEPT ![p].attempt = n, ![p].work = work]
  <2>1. poll' = [poll EXCEPT ![p].attempt = poll[p].attempt + 1, ![p].work = work]
    BY Zenon DEF RetryBatch
  <2>2. poll[p].attempt + 1 \in Nat
    BY <1>2 DEF Polls
  <2> QED
    BY Zenon, <2>1, <2>2
<1> HIDE DEF work
<1>7. /\ Alone(p) /\ poll'[p].pc = "batch" /\ poll'[p].commit = poll[p].commit
      /\ poll'[p].known = poll[p].known /\ poll'[p].work = work
  BY ZenonT(60), <1>1, <1>2, <1>4, <1>6 DEF Alone, Polls
<1>8. /\ Additions(p)' = Additions(p) /\ Tree(poll[p].commit)' = Tree(poll[p].commit)
      /\ items' = items /\ violations' = violations /\ commits' = commits
  BY Zenon, <1>1, <1>7 DEF Additions, Tree, provider, durable
<1>9. \A q : (Settled(q) /\ Recognised(q, Blob(p, q))) =>
        (Settled(q)' /\ Recognised(q, Blob(p, q))')
  BY Zenon, <1>7, <1>8 DEF Settled, Present, Recognised, Blob
<1>10. \A q \in DOMAIN poll[p].work \ Retries(p) : Settled(q) /\ Recognised(q, Blob(p, q))
  BY Zenon, <1>1, <1>2 DEF Retries, Knows
<1>11. DOMAIN work \subseteq DOMAIN poll[p].work
  BY Zenon, <1>5 DEF Retries
<1>12. (\A q \in Additions(p) \ DOMAIN poll[p].work :
         Settled(q) /\ Recognised(q, Blob(p, q)))'
  <2>1. \A q \in Additions(p) \ Retries(p) : Settled(q) /\ Recognised(q, Blob(p, q))
    BY Zenon, <1>1, <1>2, <1>10 DEF Knows
  <2> QED
    BY ZenonT(60), <1>5, <1>7, <1>8, <1>9, <2>1
<1>13. Knows(p)'
  BY ZenonT(60), <1>1, <1>2, <1>5, <1>7, <1>8, <1>11, <1>12 DEF Knows, Present
<1> QED
  BY Zenon, <1>1, <1>7, <1>13, QuietStep

\* load_or_create: the first provider head is the bootstrap commit, which holds no proposal.
LEMMA LoadHeadStep ==
  ASSUME IInv, NEW p \in Pollers, LoadHead(p)
  PROVE  IInv'
<1>1. /\ poll[p].pc = "captured" /\ UNCHANGED <<provider, client, installation>>
      /\ UNCHANGED <<items, violations, receipts, memories, events>>
  BY DEF LoadHead
<1>2. CASE ~Fenced(p)
  BY <1>1, <1>2, RestStep DEF LoadHead, durable
<1>3. CASE Fenced(p)
  <2>1. /\ poll \in [Pollers -> Polls] /\ poll[p] \in Polls
        /\ head \in [commit : Nat, etag : Nat]
    BY DEF IInv, Shapes
  <2>2. head' = IF head = NoHead THEN [commit |-> Bootstrap, etag |-> 0] ELSE head
    BY Zenon, <1>3 DEF LoadHead
  <2>3. head' \in [commit : Nat, etag : Nat]
    BY Zenon, <2>1, <2>2 DEF Bootstrap
  <2>4. poll' = [poll EXCEPT ![p].pc = "loaded", ![p].trusted = head'.commit,
                              ![p].etag = head'.etag]
    BY Zenon, <1>3 DEF LoadHead
  <2>5. /\ Alone(p) /\ poll'[p].pc = "loaded" /\ poll'[p].commit = poll[p].commit
        /\ poll'[p].known = poll[p].known /\ poll'[p].work = poll[p].work
    BY Zenon, <2>1, <2>3, <2>4 DEF Alone, Polls
  <2>6. Shapes'
    BY Zenon, <1>1, <2>3, <2>5 DEF IInv, Shapes, Alone, provider, client
  <2>7. Grown
    BY Zenon, <1>1, StillGrown DEF IInv
  <2>8. Knows(p)'
    <3>1. items' = items /\ commits' = commits
      BY Zenon, <1>1 DEF provider
    <3>2. Knows(p)
      BY Zenon DEF IInv
    <3>3. /\ poll[p].commit \in 1..Len(commits) /\ DOMAIN poll[p].work = {}
          /\ \A q \in DOMAIN poll[p].known : Present(q) /\ items[q].blob = poll[p].known[q]
      BY Zenon, <1>1, <3>2 DEF Knows
    <3> QED
      BY Zenon, <2>5, <3>1, <3>3, BeforeBatch
  <2>9. (\A r \in Pollers : Knows(r))'
    BY Zenon, <2>5, <2>7, <2>8, AllKnow DEF IInv
  <2>10. Below'
    <3>1. CASE head' = head
      BY Zenon, <2>7, <3>1, BelowKept DEF IInv
    <3>2. CASE head' # head
      <4>1. head'.commit = Bootstrap
        BY Zenon, <2>2, <3>2
      <4>2. (DOMAIN Tree(Bootstrap) \cap Paths = {})'
        BY Zenon, <1>1 DEF IInv, Below, Tree, provider
      <4>3. Bootstrap \in 1..Len(commits')
        BY Zenon, <1>1, CommitShapes DEF IInv, provider
      <4> QED
        BY Zenon, <4>1, <4>2, <4>3 DEF Below, Tree
    <3> QED
      BY Zenon, <3>1, <3>2
  <2>11. Decided'
    BY Zenon, <1>1, DecidedKept DEF IInv
  <2> QED
    BY <2>6, <2>9, <2>10, <2>11 DEF IInv
<1> QED
  BY <1>2, <1>3

\* advance: all of the batch is settled, so the rows below its commit are all there.
LEMMA AdvanceStep ==
  ASSUME IInv, NEW p \in Pollers, Advance(p)
  PROVE  IInv'
<1>1. /\ poll[p].pc = "batch" /\ Retries(p) = {}
      /\ \A q \in DOMAIN poll[p].work : poll[p].work[q] \in {"settled", "retry"}
      /\ UNCHANGED <<provider, client, installation>>
      /\ UNCHANGED <<items, violations, receipts, memories, events>>
  BY Zenon DEF Advance, Finished
<1>2. CASE Fail(p) /\ UNCHANGED head
  BY ZenonT(60), <1>1, <1>2, FailStep DEF durable
<1>3. CASE /\ head' = [commit |-> poll[p].commit, etag |-> poll[p].commit]
           /\ Rest(p)
  <2>1. Shapes /\ Knows(p) /\ poll[p] \in Polls /\ commits' = commits
    BY Zenon, <1>1 DEF IInv, Shapes, provider
  <2>2. Alone(p) /\ Knows(p)'
    BY Zenon, <1>3, <2>1, RestEffect, EmptyHanded
  <2>3. \A q \in DOMAIN poll[p].work : Settled(q) /\ Recognised(q, Blob(p, q))
    BY ZenonT(60), <1>1, <2>1 DEF Retries, Knows
  <2>4. \A q \in Additions(p) : Settled(q) /\ Recognised(q, Blob(p, q))
    BY ZenonT(60), <1>1, <2>1, <2>3 DEF Knows
  <2>5. \A q \in DOMAIN Tree(poll[p].commit) \cap Paths :
          Present(q) /\ Recognised(q, Tree(poll[p].commit)[q])
    <3> SUFFICES ASSUME NEW q \in DOMAIN Tree(poll[p].commit) \cap Paths
                 PROVE  Present(q) /\ Recognised(q, Tree(poll[p].commit)[q])
      BY Zenon
    <3>1. CASE q \in DOMAIN poll[p].known
      BY ZenonT(60), <1>1, <2>1, <3>1 DEF Knows, Recognised
    <3>2. CASE q \notin DOMAIN poll[p].known
      BY Zenon, <2>4, <3>2 DEF Additions, Settled, Blob
    <3> QED
      BY Zenon, <3>1, <3>2
  <2>6. poll[p].commit \in Nat /\ poll[p].commit \in 1..Len(commits)
    BY Zenon, <2>1 DEF Polls, Knows
  <2>7. head' \in [commit : Nat, etag : Nat] /\ head'.commit = poll[p].commit
    BY Zenon, <1>3, <2>6
  <2>8. Shapes'
    BY Zenon, <1>1, <2>2, <2>7 DEF IInv, Shapes, Alone, provider, client
  <2>9. Grown
    BY Zenon, <1>1, StillGrown DEF IInv
  <2>10. (\A r \in Pollers : Knows(r))'
    BY Zenon, <2>2, <2>9, AllKnow DEF IInv
  <2>11. Below'
    <3>1. (DOMAIN Tree(Bootstrap) \cap Paths = {})'
      BY ZenonT(60), <1>1 DEF IInv, Below, Tree, provider
    <3> QED
      BY ZenonT(60), <1>1, <2>1, <2>5, <2>6, <2>7, <3>1 DEF Below, Tree, Present, Recognised
  <2>12. Decided'
    BY Zenon, <1>1, DecidedKept DEF IInv
  <2> QED
    BY <2>8, <2>10, <2>11, <2>12 DEF IInv
<1> QED
  BY Zenon, <1>2, <1>3 DEF Advance
-----------------------------------------------------------------------------
\* The steps of one item.

\* A poller whose item moves on knows what it has to, if it does so of that item.
LEMMA StageKnows ==
  ASSUME Shapes, Grown, NEW p \in Pollers, Knows(p), NEW q \in DOMAIN poll[p].work,
         NEW stage \in ItemStages, Stage(p, q, stage), commits' = commits,
         stage \in {"validate", "quarantine", "select", "refresh"} =>
           Present(q)' /\ items'[q].commit = poll[p].commit /\ items'[q].blob = Blob(p, q),
         stage = "select" => items'[q].key = Payload[items'[q].blob].key,
         stage = "settled" =>
           Settled(q)' /\ (items'[q].blob = Blob(p, q) \/ \E v \in violations' : v[1] = q)
  PROVE  Knows(p)'
<1>1. /\ poll'[p].pc = poll[p].pc /\ poll'[p].commit = poll[p].commit
      /\ poll'[p].known = poll[p].known
      /\ DOMAIN poll'[p].work = DOMAIN poll[p].work /\ poll'[p].work[q] = stage
      /\ \A r \in DOMAIN poll[p].work \ {q} : poll'[p].work[r] = poll[p].work[r]
  BY ZenonT(60), StageEffect
<1>2. poll[p] \in Polls
  BY Zenon DEF Shapes
<1>3. DOMAIN poll[p].known \subseteq Paths /\ DOMAIN poll[p].work \subseteq Paths
  BY Zenon, <1>2, PartialElim DEF Polls
<1>4. /\ Tree(poll[p].commit)' = Tree(poll[p].commit) /\ Additions(p)' = Additions(p)
      /\ \A r : Blob(p, r)' = Blob(p, r)
  BY Zenon, <1>1 DEF Tree, Additions, Blob
<1>5. \A r \in Paths : Present(r) =>
        /\ Present(r)'
        /\ items'[r].blob = items[r].blob /\ items'[r].commit = items[r].commit
        /\ items[r].key = Payload[items[r].blob].key =>
             items'[r].key = Payload[items'[r].blob].key
  BY ZenonT(60) DEF Grown, Grows
<1>6. \A r \in Paths : Settled(r) /\ Recognised(r, Blob(p, r)) =>
        Settled(r)' /\ Recognised(r, Blob(p, r))'
  BY Zenon, <1>4, SettledStays DEF Recognised
<1>7. (\A r \in DOMAIN poll[p].known : Present(r) /\ items[r].blob = poll[p].known[r])'
  BY ZenonT(60), <1>1, <1>3, <1>5 DEF Knows
<1>8. (poll[p].pc = "batch" =>
        /\ DOMAIN poll[p].work \subseteq Additions(p)
        /\ \A r \in Additions(p) \ DOMAIN poll[p].work :
             Settled(r) /\ Recognised(r, Blob(p, r)))'
  <2>1. Additions(p) \subseteq Paths
    BY ZenonT(60) DEF Additions
  <2> QED
    BY ZenonT(60), <1>1, <1>4, <1>6, <2>1 DEF Knows
<1>9. ASSUME NEW r \in DOMAIN poll'[p].work
      PROVE  /\ poll'[p].work[r] \in {"validate", "quarantine", "select", "refresh"} =>
                  Present(r)' /\ Same(p, r)'
             /\ poll'[p].work[r] = "select" => items'[r].key = Payload[items'[r].blob].key
             /\ poll'[p].work[r] = "settled" => Settled(r)' /\ Recognised(r, Blob(p, r))'
  <2>1. CASE r = q
    BY ZenonT(60), <1>1, <1>4, <2>1 DEF Same, Recognised
  <2>2. CASE r # q
    <3>1. r \in Paths /\ r \in DOMAIN poll[p].work /\ poll'[p].work[r] = poll[p].work[r]
      BY ZenonT(60), <1>1, <1>3, <2>2
    <3>2. Present(r) /\ Same(p, r) => Present(r)' /\ Same(p, r)'
      BY ZenonT(60), <1>1, <1>4, <1>5, <3>1 DEF Same
    <3> QED
      BY ZenonT(60), <1>5, <1>6, <3>1, <3>2 DEF Knows
  <2> QED
    BY ZenonT(60), <2>1, <2>2
<1>10. (poll[p].commit \in 1..Len(commits))'
  BY ZenonT(60), <1>1 DEF Knows
<1>11. (poll[p].pc \in {"fetched", "batch"} => \A r \in DOMAIN poll[p].known :
         r \in DOMAIN Tree(poll[p].commit) /\ Tree(poll[p].commit)[r] = poll[p].known[r])'
  BY ZenonT(60), <1>1, <1>4 DEF Knows
<1>12. (poll[p].pc # "batch" => DOMAIN poll[p].work = {})'
  BY ZenonT(60), <1>1 DEF Knows
<1> QED
  BY ZenonT(60), <1>7, <1>8, <1>9, <1>10, <1>11, <1>12 DEF Knows

\* The item steps: one row at most changes, and its item moves on.
LEMMA ItemStep ==
  ASSUME IInv, NEW p \in Pollers, NEW q \in DOMAIN poll[p].work, NEW stage \in ItemStages,
         Stage(p, q, stage), UNCHANGED <<provider, client, installation, head>>,
         items' \in [Paths -> ItemRows \cup {Absent}],
         receipts' \in [Keys -> {<< >>} \cup (Paths \X Nat \X Blobs)],
         memories' \in [Fingerprints -> Paths \cup {None}],
         events' \subseteq Paths \X Fingerprints,
         \A r \in Paths \ {q} : items'[r] = items[r], Grows(q),
         violations \subseteq violations',
         stage \in {"validate", "quarantine", "select", "refresh"} =>
           Present(q)' /\ items'[q].commit = poll[p].commit /\ items'[q].blob = Blob(p, q),
         stage = "select" => items'[q].key = Payload[items'[q].blob].key,
         stage = "settled" =>
           Settled(q)' /\ (items'[q].blob = Blob(p, q) \/ \E v \in violations' : v[1] = q),
         Decided'
  PROVE  IInv'
<1>1. /\ Shapes /\ Knows(p) /\ commits' = commits /\ tip' = tip /\ budget' = budget
      /\ installation' = installation /\ head' = head
  BY ZenonT(60) DEF IInv, provider, client
<1>2. Alone(p) /\ DOMAIN poll'[p].work = DOMAIN poll[p].work
  BY ZenonT(60), <1>1, StageEffect
<1>3. Shapes'
  BY ZenonT(60), <1>1, <1>2 DEF Shapes, Alone
<1>4. Grown
  <2>1. \A r \in Paths : Grows(r)
    BY ZenonT(60) DEF Grows, Present
  <2> QED
    BY Zenon, <1>1, <2>1, RowsGrown
<1>5. Knows(p)'
  BY Zenon, <1>1, <1>4, StageKnows
<1>6. (\A r \in Pollers : Knows(r))'
  BY ZenonT(60), <1>2, <1>4, <1>5, AllKnow DEF IInv
<1>7. Below'
  BY ZenonT(60), <1>1, <1>4, BelowKept DEF IInv
<1> QED
  BY Zenon, <1>3, <1>6, <1>7 DEF IInv

\* What an item's handler finds: a proposal of the snapshot, with or without a row.
LEMMA ItemFacts ==
  ASSUME IInv, NEW p \in Pollers, NEW q, NEW stage, At(p, q, stage)
  PROVE  /\ q \in DOMAIN poll[p].work /\ q \in Paths
         /\ Blob(p, q) \in Blobs /\ poll[p].commit \in Nat
         /\ Payload[Blob(p, q)].key \in Keys /\ Payload[Blob(p, q)].fingerprint \in Fingerprints
         /\ items[q] \in ItemRows \cup {Absent}
         /\ items \in [Paths -> ItemRows \cup {Absent}]
         /\ receipts \in [Keys -> {<< >>} \cup (Paths \X Nat \X Blobs)]
         /\ memories \in [Fingerprints -> Paths \cup {None}]
         /\ events \subseteq Paths \X Fingerprints
<1>1. Shapes /\ Knows(p) /\ poll[p] \in Polls
  BY Zenon DEF IInv, Shapes
<1>2. q \in DOMAIN poll[p].work /\ poll[p].pc = "batch"
  BY Zenon DEF At
<1>3. q \in DOMAIN Tree(poll[p].commit) /\ q \in Paths /\ poll[p].commit \in 1..Len(commits)
  BY ZenonT(60), <1>1, <1>2 DEF Knows, Additions
<1>4. Tree(poll[p].commit) \in Trees
  BY Zenon, <1>1, <1>3, CommitShapes
<1>5. Blob(p, q) \in Blobs
  BY <1>3, <1>4, PartialElim DEF Trees, Blob
<1>6. poll[p].commit \in Nat
  BY Zenon, <1>1 DEF Polls
<1> QED
  BY ZenonT(60), <1>1, <1>2, <1>3, <1>5, <1>6 DEF Shapes, Keys, Fingerprints

\* A terminal row is not absent, and a row is a row.
LEMMA RowFacts ==
  ASSUME NEW row \in ItemRows
  PROVE  /\ row # Absent /\ row.commit \in Nat /\ row.blob \in Blobs
         /\ \A s \in Terminal \cup {"discovered", "validated"} :
              LET new == [row EXCEPT !.state = s]
              IN /\ new \in ItemRows /\ new.state = s /\ new.commit = row.commit
                 /\ new.blob = row.blob /\ new.key = row.key
BY DEF ItemRows, Absent, Terminal

\* A row that is replaced by a row, the others as they are.
LEMMA RowChange ==
  ASSUME items \in [Paths -> ItemRows \cup {Absent}], NEW q \in Paths, NEW row \in ItemRows,
         items' = [items EXCEPT ![q] = row]
  PROVE  /\ items' \in [Paths -> ItemRows \cup {Absent}] /\ items'[q] = row
         /\ \A r \in Paths \ {q} : items'[r] = items[r]
BY Zenon

\* Losing the fence ends the poll of the whole process.
LEMMA FencedOffStep ==
  ASSUME IInv, NEW p \in Pollers, FencedOff(p), UNCHANGED <<provider, client, installation>>
  PROVE  IInv'
BY Zenon, FailStep DEF FencedOff

\* process reads the row once more: terminal, or another attempt.
LEMMA RefreshStep ==
  ASSUME IInv, NEW p \in Pollers, NEW q \in Paths, Refresh(p, q)
  PROVE  IInv'
<1>1. At(p, q, "refresh") /\ UNCHANGED <<provider, client, installation>>
  BY Zenon DEF Refresh
<1>2. CASE FencedOff(p)
  BY Zenon, <1>1, <1>2, FencedOffStep
<1>3. CASE ~FencedOff(p)
  <2> DEFINE stage == IF items[q].state \in Terminal THEN "settled" ELSE "retry"
  <2>1. Stage(p, q, stage) /\ UNCHANGED durable
    BY Zenon, <1>3 DEF Refresh
  <2>2. /\ items' = items /\ violations' = violations /\ receipts' = receipts
        /\ memories' = memories /\ events' = events /\ head' = head
    BY Zenon, <2>1 DEF durable
  <2>3. Present(q) /\ Same(p, q)
    BY Zenon, <1>1 DEF IInv, Knows, At
  <2>4. stage \in ItemStages /\ stage \in {"settled", "retry"}
          /\ (stage = "settled" => items[q].state \in Terminal)
    BY Zenon DEF ItemStages
  <2>5. Decided'
    BY Zenon, <2>2, DecidedKept DEF IInv
  <2> HIDE DEF stage
  <2> QED
    BY Zenon, <1>1, <2>1, <2>2, <2>3, <2>4, <2>5, ItemFacts, ItemStep
    DEF Grows, Present, Same, Settled
<1> QED
  BY Zenon, <1>2, <1>3

\* register: the first row of a path, the row of the same object, or a recorded violation.
LEMMA RegisterStep ==
  ASSUME IInv, NEW p \in Pollers, NEW q \in Paths, Register(p, q)
  PROVE  IInv'
<1>1. At(p, q, "register") /\ UNCHANGED <<provider, client, installation>>
  BY Zenon DEF Register
<1> DEFINE Unheaded == UNCHANGED <<head, receipts, memories, events>>
<1>2. /\ q \in DOMAIN poll[p].work /\ Blob(p, q) \in Blobs /\ poll[p].commit \in Nat
      /\ items[q] \in ItemRows \cup {Absent} /\ items \in [Paths -> ItemRows \cup {Absent}]
      /\ receipts \in [Keys -> {<< >>} \cup (Paths \X Nat \X Blobs)]
      /\ memories \in [Fingerprints -> Paths \cup {None}] /\ events \subseteq Paths \X Fingerprints
  BY Zenon, <1>1, ItemFacts
<1>3. Decided
  BY Zenon DEF IInv
<1>4. CASE FencedOff(p)
  BY Zenon, <1>1, <1>4, FencedOffStep
<1>5. CASE /\ items[q] = Absent
           /\ items' = [items EXCEPT ![q] = Row(poll[p].commit, Blob(p, q))]
           /\ Stage(p, q, "validate")
           /\ UNCHANGED violations
           /\ Unheaded
  <2> DEFINE row == Row(poll[p].commit, Blob(p, q))
  <2>1. row \in ItemRows /\ row # Absent /\ row.commit = poll[p].commit /\ row.blob = Blob(p, q)
          /\ row.state = "discovered"
    BY Zenon, <1>2 DEF Row, ItemRows, Absent
  <2> HIDE DEF row
  <2>2. items' \in [Paths -> ItemRows \cup {Absent}] /\ items'[q] = row
          /\ \A r \in Paths \ {q} : items'[r] = items[r]
    BY Zenon, <1>2, <1>5, <2>1, RowChange DEF row
  <2>3. Decided'
    BY Zenon, <1>3, <1>5, <2>1, <2>2, DecidedKept DEF Undecided
  <2>4. Grows(q)
    BY Zenon, <1>5 DEF Grows, Present
  <2>5. "validate" \in ItemStages
    BY Zenon DEF ItemStages
  <2> QED
    BY ZenonT(60), <1>1, <1>2, <1>5, <2>1, <2>2, <2>3, <2>4, <2>5, ItemStep DEF Present
<1>6. CASE /\ items[q] # Absent /\ Same(p, q)
           /\ Stage(p, q, IF items[q].state \in Terminal THEN "settled" ELSE "validate")
           /\ UNCHANGED <<items, violations>>
           /\ Unheaded
  <2> DEFINE stage == IF items[q].state \in Terminal THEN "settled" ELSE "validate"
  <2>1. stage \in ItemStages /\ stage \in {"settled", "validate"}
          /\ (stage = "settled" => items[q].state \in Terminal)
    BY Zenon DEF ItemStages
  <2>2. Stage(p, q, stage)
    BY Zenon, <1>6
  <2>3. Decided'
    BY Zenon, <1>3, <1>6, DecidedKept
  <2> HIDE DEF stage
  <2> QED
    BY Zenon, <1>1, <1>2, <1>6, <2>1, <2>2, <2>3, ItemStep DEF Grows, Present, Same, Settled
<1>7. CASE /\ items[q] # Absent /\ ~Same(p, q)
           /\ RecordViolation(p, q)
           /\ IF items[q].state \in Terminal THEN UNCHANGED items
                                             ELSE SetState(q, "quarantined")
           /\ Stage(p, q, "settled")
           /\ Unheaded
  <2>1. violations' = violations \cup {<<q, poll[p].commit, Blob(p, q)>>}
    BY Zenon, <1>7 DEF RecordViolation
  <2>2. violations \subseteq violations' /\ \E v \in violations' : v[1] = q
    <3>1. <<q, poll[p].commit, Blob(p, q)>>[1] = q
      BY Zenon
    <3> QED
      BY Zenon, <2>1, <3>1
  <2>3. /\ items' \in [Paths -> ItemRows \cup {Absent}] /\ Settled(q)' /\ Grows(q)
        /\ \A r \in Paths \ {q} : items'[r] = items[r]
        /\ items'[q] = items[q] \/ (Undecided(items[q]) /\ Undecided(items'[q]))
    <3>1. CASE items[q].state \in Terminal
      BY Zenon, <1>2, <1>7, <3>1 DEF Grows, Present, Settled
    <3>2. CASE items[q].state \notin Terminal
      <4> DEFINE row == [items[q] EXCEPT !.state = "quarantined"]
      <4>1. items[q] \in ItemRows
        BY Zenon, <1>2, <1>7
      <4>2. row \in ItemRows /\ row # Absent /\ row.state = "quarantined"
              /\ row.commit = items[q].commit /\ row.blob = items[q].blob /\ row.key = items[q].key
        BY ZenonT(60), <4>1, RowFacts DEF Terminal
      <4>3. items' = [items EXCEPT ![q] = row]
        BY <1>7, <3>2, Zenon DEF SetState
      <4> HIDE DEF row
      <4>4. items' \in [Paths -> ItemRows \cup {Absent}] /\ items'[q] = row
              /\ \A r \in Paths \ {q} : items'[r] = items[r]
        BY Zenon, <1>2, <4>2, <4>3, RowChange
      <4> QED
        BY Zenon, <3>2, <4>2, <4>4 DEF Grows, Present, Settled, Undecided, Terminal
    <3> QED
      BY Zenon, <3>1, <3>2
  <2>4. Decided'
    BY Zenon, <1>3, <1>7, <2>3, DecidedKept
  <2>5. "settled" \in ItemStages
    BY Zenon DEF ItemStages
  <2> QED
    BY Zenon, <1>1, <1>2, <1>7, <2>2, <2>3, <2>4, <2>5, ItemStep
<1> QED
  BY Zenon, <1>4, <1>5, <1>6, <1>7 DEF Register

\* quarantine: a terminal row is returned as it is, any other becomes quarantined.
LEMMA QuarantineStep ==
  ASSUME IInv, NEW p \in Pollers, NEW q \in Paths, Quarantine(p, q)
  PROVE  IInv'
<1>1. At(p, q, "quarantine") /\ UNCHANGED <<provider, client, installation>>
  BY Zenon DEF Quarantine
<1>2. CASE FencedOff(p)
  BY Zenon, <1>1, <1>2, FencedOffStep
<1>3. CASE ~FencedOff(p)
  <2> DEFINE state == Quarantined(items[q].state)
             row == [items[q] EXCEPT !.state = state]
  <2>1. /\ Stage(p, q, "settled") /\ items' = [items EXCEPT ![q] = row]
        /\ UNCHANGED <<head, violations, receipts, memories, events>>
    BY <1>3, Zenon DEF Quarantine, SetState
  <2>2. Present(q) /\ Same(p, q) /\ Decided
    BY Zenon, <1>1 DEF IInv, Knows, At
  <2>3. items[q] \in ItemRows
    BY Zenon, <1>1, <2>2, ItemFacts DEF Present
  <2>4. state \in Terminal /\ (items[q].state \in Terminal => state = items[q].state)
          /\ (items[q].state \notin Terminal => state = "quarantined")
    BY Zenon DEF Quarantined, Terminal
  <2> HIDE DEF state
  <2>5. /\ row \in ItemRows /\ row # Absent /\ row.state = state /\ row.commit = items[q].commit
        /\ row.blob = items[q].blob /\ row.key = items[q].key
    BY ZenonT(60), <2>3, <2>4, RowFacts
  <2>6. items[q].state \in Terminal => row = items[q]
    BY Zenon, <2>3, <2>4 DEF ItemRows
  <2> HIDE DEF row
  <2>7. items' \in [Paths -> ItemRows \cup {Absent}] /\ items'[q] = row
          /\ \A r \in Paths \ {q} : items'[r] = items[r]
    BY Zenon, <1>1, <2>1, <2>5, RowChange, ItemFacts
  <2>8. Grows(q) /\ Settled(q)' /\ items'[q].blob = Blob(p, q)
    BY Zenon, <2>2, <2>4, <2>5, <2>6, <2>7 DEF Grows, Present, Settled, Same
  <2>9. items'[q] = items[q] \/ (Undecided(items[q]) /\ Undecided(items'[q]))
    BY Zenon, <2>4, <2>5, <2>6, <2>7 DEF Undecided, Terminal
  <2>10. Decided'
    BY Zenon, <2>1, <2>2, <2>7, <2>9, DecidedKept
  <2>11. "settled" \in ItemStages
    BY DEF ItemStages
  <2> QED
    BY Zenon, <1>1, <2>1, <2>7, <2>8, <2>10, <2>11, ItemStep, ItemFacts
<1> QED
  BY <1>2, <1>3

\* validate: the row of a live proposal takes its key; bytes that are none go on to
\* quarantine.
LEMMA ValidateStep ==
  ASSUME IInv, NEW p \in Pollers, NEW q \in Paths, Validate(p, q)
  PROVE  IInv'
<1>1. At(p, q, "validate") /\ UNCHANGED <<provider, client, installation>>
  BY Zenon DEF Validate
<1>2. /\ q \in DOMAIN poll[p].work /\ Payload[Blob(p, q)].key \in Keys
      /\ items[q] \in ItemRows \cup {Absent} /\ items \in [Paths -> ItemRows \cup {Absent}]
      /\ receipts \in [Keys -> {<< >>} \cup (Paths \X Nat \X Blobs)]
      /\ memories \in [Fingerprints -> Paths \cup {None}] /\ events \subseteq Paths \X Fingerprints
  BY Zenon, <1>1, ItemFacts
<1>3. Present(q) /\ Same(p, q) /\ Decided
  BY Zenon, <1>1 DEF IInv, Knows, At
<1>4. /\ items[q].commit = poll[p].commit /\ items[q].blob = Blob(p, q)
      /\ items[q] # Absent /\ items[q] \in ItemRows
  BY Zenon, <1>2, <1>3 DEF Same, Present
<1>5. {"quarantine", "settled", "select"} \subseteq ItemStages
  BY Zenon DEF ItemStages
<1>6. CASE FencedOff(p)
  BY Zenon, <1>1, <1>6, FencedOffStep
<1>7. CASE Stage(p, q, "quarantine") /\ UNCHANGED durable
  <2>1. UNCHANGED <<head, items, violations, receipts, memories, events>>
    BY Zenon, <1>7 DEF durable
  <2>2. Decided'
    BY Zenon, <1>3, <2>1, DecidedKept
  <2> QED
    BY ZenonT(60), <1>1, <1>2, <1>4, <1>5, <1>7, <2>1, <2>2, ItemStep DEF Grows, Present
<1>8. CASE /\ IF items[q].state \in Terminal
                THEN Stage(p, q, "settled") /\ UNCHANGED items
                ELSE /\ items' = [items EXCEPT ![q].state = "validated",
                                               ![q].key = Payload[Blob(p, q)].key]
                     /\ Stage(p, q, "select")
           /\ UNCHANGED <<head, violations, receipts, memories, events>>
  <2>1. CASE items[q].state \in Terminal
    <3>1. Stage(p, q, "settled") /\ UNCHANGED items
      BY Zenon, <1>8, <2>1
    <3>2. Decided'
      BY Zenon, <1>3, <1>8, <3>1, DecidedKept
    <3> QED
      BY ZenonT(60), <1>1, <1>2, <1>4, <1>5, <1>8, <2>1, <3>1, <3>2, ItemStep
         DEF Grows, Present, Settled
  <2>2. CASE items[q].state \notin Terminal
    <3> DEFINE row == [items[q] EXCEPT !.state = "validated", !.key = Payload[Blob(p, q)].key]
    <3>1. /\ row \in ItemRows /\ row.state = "validated" /\ row.commit = items[q].commit
          /\ row.blob = items[q].blob /\ row.key = Payload[Blob(p, q)].key
      BY Zenon, <1>2, <1>4 DEF ItemRows
    <3>2. items' = [items EXCEPT ![q] = row] /\ Stage(p, q, "select")
      BY Zenon, <1>2, <1>4, <1>8, <2>2 DEF ItemRows
    <3> HIDE DEF row
    <3>3. items' \in [Paths -> ItemRows \cup {Absent}] /\ items'[q] = row
            /\ \A r \in Paths \ {q} : items'[r] = items[r]
      BY Zenon, <1>2, <3>1, <3>2, RowChange
    <3>4. row # Absent
      BY <3>1 DEF Absent
    <3>5. Grows(q)
      BY Zenon, <1>4, <2>2, <3>1, <3>3, <3>4 DEF Grows, Present
    <3>6. Decided'
      BY Zenon, <1>3, <1>8, <2>2, <3>1, <3>3, DecidedKept DEF Undecided, Terminal
    <3>7. Present(q)' /\ items'[q].commit = poll[p].commit /\ items'[q].blob = Blob(p, q)
      BY Zenon, <1>4, <3>1, <3>3, <3>4 DEF Present
    <3>8. items'[q].key = Payload[items'[q].blob].key
      BY Zenon, <1>4, <3>1, <3>3
    <3> QED
      BY ZenonT(60), <1>1, <1>2, <1>5, <1>8, <3>2, <3>3, <3>5, <3>6, <3>7, <3>8, ItemStep
  <2> QED
    BY Zenon, <2>1, <2>2
<1> QED
  BY Zenon, <1>6, <1>7, <1>8 DEF Validate
-----------------------------------------------------------------------------
\* The nomination.

\* The key of a decided row is taken.
LEMMA KeyTaken ==
  ASSUME DecidedByItsReceipt, NEW q \in Paths, items[q] # Absent,
         items[q].state \in {"accepted", "duplicate", "rejected"}
  PROVE  receipts[items[q].key] # << >>
<1>1. receipts[items[q].key] = <<q, items[q].commit, items[q].blob>>
  BY Zenon DEF DecidedByItsReceipt
<1> QED
  BY <1>1

\* A decision under a free key, whatever it is, keeps the receipts of the decided rows.
\* A row that is validated and whose fingerprint no memory has may get its event.
LEMMA DecisionKept ==
  ASSUME Decided, NEW q \in Paths, NEW key, NEW row, NEW state,
         items[q] # Absent, items[q].key = key, receipts[key] = << >>,
         key \in Keys, receipts \in [Keys -> {<< >>} \cup (Paths \X Nat \X Blobs)],
         items \in [Paths -> ItemRows \cup {Absent}],
         receipts' = [receipts EXCEPT ![key] = <<q, items[q].commit, items[q].blob>>],
         items'[q] = row, row # Absent, row.state = state, row.key = key,
         row.commit = items[q].commit, row.blob = items[q].blob,
         \A r \in Paths \ {q} : items'[r] = items[r]
  PROVE  /\ DecidedIsKeyed' /\ DecidedByItsReceipt'
         /\ items[q].state \notin {"accepted", "duplicate", "rejected"}
         /\ \A e \in events : e[1] # q
<1>1. items[q].commit \in Nat /\ items[q].blob \in Blobs
  BY Zenon DEF ItemRows
<1>2. receipts'[key] = <<q, items[q].commit, items[q].blob>>
        /\ \A k \in Keys \ {key} : receipts'[k] = receipts[k]
  BY Zenon
<1>3. items[q].state \notin {"accepted", "duplicate", "rejected"}
  BY Zenon, KeyTaken DEF Decided
<1>4. \A e \in events : e[1] # q
  BY <1>3 DEF Decided, AcceptedOnce
<1>5. ASSUME NEW r \in Paths, items'[r] # Absent,
             items'[r].state \in {"accepted", "duplicate", "rejected"}
      PROVE  receipts'[items'[r].key] = <<r, items'[r].commit, items'[r].blob>>
  <2>1. CASE r = q
    BY Zenon, <1>2, <2>1
  <2>2. CASE r # q
    <3>1. items'[r] = items[r]
      BY Zenon, <2>2
    <3>2. receipts[items[r].key] = <<r, items[r].commit, items[r].blob>>
      BY Zenon, <1>5, <3>1 DEF Decided, DecidedByItsReceipt
    <3>3. items[r].key # key /\ items[r].key \in Keys
      <4>1. receipts[items[r].key] # << >>
        BY Zenon, <1>5, <3>1, KeyTaken DEF Decided
      <4> QED
        BY Zenon, <1>5, <3>1, <4>1 DEF Decided, DecidedIsKeyed
    <3> QED
      BY Zenon, <1>2, <3>1, <3>2, <3>3
  <2> QED
    BY Zenon, <2>1, <2>2
<1>6. DecidedIsKeyed'
  BY Zenon DEF Decided, DecidedIsKeyed
<1> QED
  BY Zenon, <1>3, <1>4, <1>5, <1>6 DEF DecidedByItsReceipt

\* The decision of the policy keeps the invariant, with and without a new memory.
LEMMA CommitStep ==
  ASSUME IInv, NEW p \in Pollers, NEW q \in Paths, At(p, q, "select"), ~Taken(items[q].key),
         Commit(p, q), UNCHANGED <<provider, client, installation, head, violations>>
  PROVE  IInv'
<1> DEFINE fingerprint == Payload[Blob(p, q)].fingerprint
           key == items[q].key
<1>1. /\ q \in DOMAIN poll[p].work /\ Payload[Blob(p, q)].key \in Keys
      /\ Blob(p, q) \in Blobs /\ poll[p].commit \in Nat
      /\ fingerprint \in Fingerprints
      /\ items[q] \in ItemRows \cup {Absent} /\ items \in [Paths -> ItemRows \cup {Absent}]
      /\ receipts \in [Keys -> {<< >>} \cup (Paths \X Nat \X Blobs)]
      /\ memories \in [Fingerprints -> Paths \cup {None}] /\ events \subseteq Paths \X Fingerprints
  BY Zenon, ItemFacts
<1>2. Present(q) /\ Same(p, q) /\ Decided /\ key = Payload[items[q].blob].key
  BY Zenon DEF IInv, Knows, At
<1>3. /\ items[q].commit = poll[p].commit /\ items[q].blob = Blob(p, q)
      /\ items[q] # Absent /\ items[q] \in ItemRows /\ key \in Keys /\ receipts[key] = << >>
  BY Zenon, <1>1, <1>2 DEF Same, Present, Taken
<1>4. {"retry", "refresh"} \subseteq ItemStages
  BY Zenon DEF ItemStages
<1> HIDE DEF fingerprint, key
<1>5. CASE Stage(p, q, "retry") /\ UNCHANGED <<items, receipts, memories, events>>
  <2>1. Decided'
    BY Zenon, <1>2, <1>5, DecidedKept
  <2> QED
    BY Zenon, <1>1, <1>3, <1>4, <1>5, <2>1, ItemStep DEF Grows, Present
<1>6. ASSUME NEW outcome \in {"accepted", "duplicate", "rejected"},
             Receive(p, q), SetState(q, Stages(items[q].state, outcome)),
             Stage(p, q, "refresh"),
             \/ outcome # "accepted" /\ UNCHANGED <<memories, events>>
             \/ /\ outcome = "accepted" /\ memories[fingerprint] = None
                /\ items[q].state = "validated"
                /\ memories' = [memories EXCEPT ![fingerprint] = q]
                /\ events' = events \cup {<<q, fingerprint>>}
      PROVE  IInv'
  <2> DEFINE state == Stages(items[q].state, outcome)
             row == [items[q] EXCEPT !.state = state]
  <2>1. /\ state \in Terminal
        /\ items[q].state \in Terminal => state = items[q].state
        /\ items[q].state \notin Terminal => state = outcome
    BY Zenon, <1>6 DEF Stages, Terminal
  <2>2. items' = [items EXCEPT ![q] = row]
    BY <1>6, Zenon DEF SetState
  <2> HIDE DEF state
  <2>3. /\ row \in ItemRows /\ row # Absent /\ row.state = state /\ row.commit = items[q].commit
        /\ row.blob = items[q].blob /\ row.key = key
    BY Zenon, <1>3, <2>1, RowFacts DEF key
  <2>4. items[q].state \in Terminal => row = items[q]
    BY Zenon, <1>3, <2>1 DEF ItemRows
  <2> HIDE DEF row
  <2>5. items' \in [Paths -> ItemRows \cup {Absent}] /\ items'[q] = row
          /\ \A r \in Paths \ {q} : items'[r] = items[r]
    BY Zenon, <1>1, <2>2, <2>3, RowChange
  <2>6. receipts' = [receipts EXCEPT ![key] = <<q, items[q].commit, items[q].blob>>]
    BY Zenon, <1>3, <1>6 DEF Receive, key
  <2>7. receipts' \in [Keys -> {<< >>} \cup (Paths \X Nat \X Blobs)]
    <3>1. <<q, items[q].commit, items[q].blob>> \in Paths \X Nat \X Blobs
      BY Zenon, <1>1, <1>3
    <3> QED
      BY Zenon, <1>1, <1>3, <2>6, <3>1
  <2>8. /\ DecidedIsKeyed' /\ DecidedByItsReceipt'
        /\ items[q].state \notin {"accepted", "duplicate", "rejected"}
        /\ \A e \in events : e[1] # q
    BY ZenonT(60), <1>1, <1>2, <1>3, <2>3, <2>5, <2>6, DecisionKept DEF key
  <2>9. /\ memories' \in [Fingerprints -> Paths \cup {None}]
        /\ events' \subseteq Paths \X Fingerprints
        /\ \A e \in events' : memories'[e[2]] # None
        /\ AcceptedOnce'
    <3>1. \A e \in events : e[2] \in Fingerprints /\ memories[e[2]] # None
      BY ZenonT(60), <1>1, <1>2 DEF Decided
    <3>2. AcceptedOnce
      BY Zenon, <1>2 DEF Decided
    <3>3. CASE outcome # "accepted" /\ UNCHANGED <<memories, events>>
      <4>1. state # "accepted"
        BY Zenon, <2>1, <2>8, <3>3
      <4>2. \A r \in Paths : items'[r] # Absent /\ items'[r].state = "accepted"
                            <=> items[r] # Absent /\ items[r].state = "accepted"
        BY Zenon, <2>3, <2>5, <2>8, <4>1
      <4>3. AcceptedOnce'
        BY Zenon, <3>2, <3>3, <4>2 DEF AcceptedOnce
      <4> QED
        BY Zenon, <1>1, <3>1, <3>3, <4>3
    <3>4. CASE /\ outcome = "accepted" /\ memories[fingerprint] = None
               /\ items[q].state = "validated"
               /\ memories' = [memories EXCEPT ![fingerprint] = q]
               /\ events' = events \cup {<<q, fingerprint>>}
      <4> DEFINE new == <<q, fingerprint>>
      <4>1. new \in Paths \X Fingerprints /\ new[1] = q /\ new[2] = fingerprint
        BY Zenon, <1>1
      <4> HIDE DEF new
      <4>2. events' = events \cup {new}
        BY Zenon, <3>4 DEF new
      <4>3. memories' \in [Fingerprints -> Paths \cup {None}]
              /\ memories'[fingerprint] = q
              /\ \A f \in Fingerprints \ {fingerprint} : memories'[f] = memories[f]
        BY Zenon, <1>1, <3>4
      <4>4. q # None
        BY Zenon, PathsAndBlobs
      <4>5. \A e \in events : e[1] # new[1] /\ e[2] # new[2]
        BY ZenonT(60), <2>8, <3>1, <3>4, <4>1
      <4>6. state = "accepted"
        BY Zenon, <2>1, <3>4 DEF Terminal
      <4>7. \A e \in events' : memories'[e[2]] # None
        BY ZenonT(60), <3>1, <4>1, <4>2, <4>3, <4>4, <4>5
      <4>8. AcceptedOnce'
        <5>1. \A r \in Paths :
                (items'[r] # Absent /\ items'[r].state = "accepted")
                  <=> (\E e \in events' : e[1] = r)
          BY SMTT(40), <2>3, <2>5, <3>2, <4>1, <4>2, <4>6 DEF AcceptedOnce
        <5>2. \A e, f \in events' : e[1] = f[1] \/ e[2] = f[2] => e = f
          BY ZenonT(60), <3>2, <4>2, <4>5 DEF AcceptedOnce
        <5> QED
          BY ZenonT(60), <5>1, <5>2 DEF AcceptedOnce
      <4> QED
        BY Zenon, <1>1, <4>1, <4>2, <4>3, <4>7, <4>8
    <3> QED
      BY Zenon, <1>6, <3>3, <3>4
  <2>10. Decided'
    BY Zenon, <2>8, <2>9 DEF Decided
  <2>11. Grows(q)
    BY Zenon, <2>3, <2>4, <2>5 DEF Grows, Present, key
  <2> QED
    BY ZenonT(60), <1>1, <1>3, <1>4, <1>6, <2>3, <2>5, <2>7, <2>9, <2>10, <2>11,
       ItemStep DEF Present
<1>7. CASE /\ ~Covered(fingerprint) /\ Provenance(q)
           /\ memories' = [memories EXCEPT ![fingerprint] = q]
           /\ events' = events \cup {<<q, fingerprint>>}
           /\ Receive(p, q)
           /\ SetState(q, Stages(items[q].state, "accepted"))
           /\ Stage(p, q, "refresh")
  BY Zenon, <1>6, <1>7 DEF Covered, Provenance
<1>8. CASE /\ Receive(p, q)
           /\ SetState(q, Stages(items[q].state,
                IF Covered(fingerprint) THEN "duplicate" ELSE "rejected"))
           /\ Stage(p, q, "refresh")
           /\ UNCHANGED <<memories, events>>
  BY Zenon, <1>6, <1>8
<1> QED
  BY Zenon, <1>5, <1>7, <1>8 DEF Commit, fingerprint

\* SelectionEngine.execute with the row as participant.
LEMMA SelectStep ==
  ASSUME IInv, NEW p \in Pollers, NEW q \in Paths, Select(p, q)
  PROVE  IInv'
<1>1. At(p, q, "select") /\ UNCHANGED <<provider, client, installation>>
  BY Zenon DEF Select
<1>2. CASE FencedOff(p)
  BY Zenon, <1>1, <1>2, FencedOffStep
<1>3. ASSUME NEW stage \in {"refresh", "quarantine", "retry"}, Stage(p, q, stage),
             UNCHANGED durable
      PROVE  IInv'
  <2>1. UNCHANGED <<head, items, violations, receipts, memories, events>>
    BY Zenon, <1>3 DEF durable
  <2>2. Present(q) /\ items[q].commit = poll[p].commit /\ items[q].blob = Blob(p, q) /\ Decided
    BY Zenon, <1>1 DEF IInv, Knows, At, Same
  <2>3. Decided'
    BY Zenon, <2>1, <2>2, DecidedKept
  <2>4. stage \in ItemStages /\ stage # "settled" /\ stage # "select"
    BY Zenon DEF ItemStages
  <2> QED
    BY ZenonT(60), <1>1, <1>3, <2>1, <2>2, <2>3, <2>4, ItemFacts, ItemStep DEF Grows, Present
<1>4. CASE /\ Taken(items[q].key)
           /\ Stage(p, q, IF OwnReceipt(p, q) THEN "refresh" ELSE "quarantine")
           /\ UNCHANGED durable
  BY Zenon, <1>3, <1>4
<1>5. CASE Stage(p, q, "retry") /\ UNCHANGED durable
  BY Zenon, <1>3, <1>5
<1>6. CASE /\ ~Taken(items[q].key) /\ Commit(p, q)
           /\ UNCHANGED <<head, violations>>
  BY Zenon, <1>1, <1>6, CommitStep
<1> QED
  BY Zenon, <1>2, <1>4, <1>5, <1>6 DEF Select

\* One of the steps of a poller keeps the invariant.
LEMMA PollerStep ==
  ASSUME IInv, NEW p \in Pollers, Poller(p) \/ Crash(p) \/ Start(p)
  PROVE  IInv'
<1>1. CASE Item(p)
  BY Zenon, <1>1, RegisterStep, ValidateStep, QuarantineStep, SelectStep, RefreshStep DEF Item
<1>2. CASE GiveUp(p)
  BY Zenon, <1>2, FailStep DEF GiveUp
<1>3. CASE Crash(p)
  BY Zenon, <1>3, FailStep DEF Crash
<1>4. CASE Start(p)
  BY Zenon, <1>4, RestStep DEF Start
<1> QED
  BY Zenon, <1>1, <1>2, <1>3, <1>4, CaptureStep, LoadHeadStep, LoadKnownStep, SnapshotStep,
     BeginBatchStep, RetryStep, AdvanceStep
  DEF Poller

\* The inductive step.
LEMMA NextIInv == IInv /\ [Next]_vars => IInv'
<1> SUFFICES ASSUME IInv, [Next]_vars PROVE IInv'
  BY Zenon
<1>1. CASE \E s \in budget.proposals : CreateUnique(s)
  BY Zenon, <1>1, CreateStep
<1>2. CASE Rewrite
  BY Zenon, <1>2, RewriteStep
<1>3. CASE Revoke \/ Enrol
  BY Zenon, <1>3, OperatorStep
<1>4. CASE \E p \in Pollers : Poller(p) \/ Crash(p) \/ Start(p)
  BY Zenon, <1>4, PollerStep
<1>5. CASE UNCHANGED vars
  <2>1. UNCHANGED <<provider, budget, durable, poll, installation>>
    BY Zenon, <1>5 DEF vars, client
  <2> QED
    BY Zenon, <2>1, ProviderStep DEF Committed, IInv, Shapes
<1> QED
  BY Zenon, <1>1, <1>2, <1>3, <1>4, <1>5 DEF Next

\* The empty tables and the bootstrap commit.
LEMMA InitIInv == Init => IInv
<1> SUFFICES ASSUME Init PROVE IInv
  BY Zenon
<1> DEFINE tree == [q \in {Foreign} |-> CHOOSE b \in Blobs : TRUE]
           first == [parents |-> {}, tree |-> tree]
<1>1. tree \in Trees /\ DOMAIN tree \cap Paths = {}
  <2>1. (CHOOSE b \in Blobs : TRUE) \in Blobs
    BY Zenon, PathsAndBlobs
  <2>2. tree \in [{Foreign} -> Blobs] /\ {Foreign} \in SUBSET (Paths \cup {Foreign})
    BY Zenon, <2>1
  <2>3. DOMAIN tree = {Foreign}
    BY Zenon
  <2> HIDE DEF tree
  <2> QED
    BY Zenon, <2>2, <2>3, PartialIntro, PathsAndBlobs DEF Trees
<1>2. commits = <<first>>
  BY Zenon DEF Init
<1> HIDE DEF tree
<1>3. first \in [parents : SUBSET Nat, tree : Trees] /\ first.tree = tree
  BY Zenon, <1>1
<1> HIDE DEF first
<1>4. /\ commits \in Seq([parents : SUBSET Nat, tree : Trees])
      /\ Len(commits) = 1 /\ commits[1] = first
  BY <1>2, <1>3
<1>5. Shapes
  <2>1. tip \in 1..Len(commits)
    <3>1. tip = 1
      BY Zenon DEF Init, Bootstrap
    <3> QED
      BY <1>4, <3>1
  <2>2. installation \in [epoch : Nat, revoked : BOOLEAN] /\ head \in [commit : Nat, etag : Nat]
    BY Zenon DEF Init, NoHead
  <2>3. poll \in [Pollers -> Polls]
    BY Zenon, IdleShape DEF Init
  <2>4. /\ items \in [Paths -> ItemRows \cup {Absent}]
        /\ receipts \in [Keys -> {<< >>} \cup (Paths \X Nat \X Blobs)]
        /\ memories \in [Fingerprints -> Paths \cup {None}]
        /\ events \subseteq Paths \X Fingerprints /\ budget \in Budgets
    BY Zenon DEF Init
  <2> QED
    BY Zenon, <1>4, <2>1, <2>2, <2>3, <2>4 DEF Shapes
<1>6. \A p \in Pollers : Knows(p)
  <2> SUFFICES ASSUME NEW p \in Pollers PROVE Knows(p)
    BY Zenon
  <2>1. poll[p] = Idle
    BY ZenonT(60) DEF Init
  <2>2. poll[p].commit = 1 /\ DOMAIN poll[p].known = {} /\ DOMAIN poll[p].work = {}
          /\ poll[p].pc = "idle"
    BY <2>1, PartialEmpty DEF Idle, Bootstrap
  <2>3. 1 \in 1..Len(commits)
    BY <1>4
  <2> QED
    BY Zenon, <2>2, <2>3 DEF Knows
<1>7. \A q \in Paths : items[q] = Absent
  BY Zenon DEF Init
<1>8. Below
  BY Zenon, <1>1, <1>3, <1>4 DEF Below, Init, Tree, Bootstrap
<1>9. Decided
  BY Zenon, <1>7 DEF Init, Decided, DecidedIsKeyed, AcceptedOnce, DecidedByItsReceipt
<1> QED
  BY Zenon, <1>5, <1>6, <1>8, <1>9 DEF IInv

\* The invariant holds throughout.
THEOREM AlwaysIInv == Spec => []IInv
BY InitIInv, NextIInv, PTL DEF Spec

\* Proposals are decided once: the row is accepted exactly when its event is in the log, one
\* for a path and one for a fingerprint, and a key's receipt is bound to the one object that
\* was decided under it (register, terminalize, the provenance trigger), for any number of
\* pollers, proposals, pushes and crashes.
THEOREM AlwaysDecidedOnce == Spec => []ProposalsDecidedOnce
<1>1. IInv => ProposalsDecidedOnce
  BY Zenon DEF IInv, Decided, ProposalsDecidedOnce
<1> QED
  BY <1>1, AlwaysIInv, PTL
-----------------------------------------------------------------------------
\* What a step may not do.

\* A poller's step moves no other poller, and changes the tables only within the enrolment
\* that the poller captured.
LEMMA PollerFenced ==
  ASSUME Shapes, NEW p \in Pollers, Poller(p) \/ Crash(p) \/ Start(p)
  PROVE  /\ \A r \in Pollers \ {p} : poll'[r] = poll[r]
         /\ durable' # durable => Fenced(p)
<1> DEFINE Others == \A r \in Pollers \ {p} : poll'[r] = poll[r]
<1>1. poll \in [Pollers -> Polls]
  BY Zenon DEF Shapes
<1>2. Rest(p) \/ Stop(p) => Others
  BY Zenon, <1>1 DEF Rest, Stop
<1>3. \A q, stage : Stage(p, q, stage) => Others
  BY Zenon, <1>1 DEF Stage
<1>4. Fail(p) => Others
  BY Zenon, <1>2 DEF Fail
<1>5. CASE CaptureEpoch(p) \/ LoadKnown(p) \/ Snapshot(p) \/ BeginBatch(p)
  <2>1. durable' = durable
    BY Zenon, <1>5 DEF CaptureEpoch, LoadKnown, Snapshot, BeginBatch
  <2>2. Others
    BY Zenon, <1>1, <1>2, <1>5 DEF CaptureEpoch, LoadKnown, Snapshot, BeginBatch
  <2> QED
    BY Zenon, <2>1, <2>2
<1>6. CASE LoadHead(p)
  BY Zenon, <1>1, <1>2, <1>6 DEF LoadHead, durable
<1>7. CASE RetryBatch(p) \/ GiveUp(p) \/ Crash(p) \/ Start(p)
  <2>1. durable' = durable
    BY Zenon, <1>7 DEF RetryBatch, GiveUp, Crash, Start
  <2>2. Others
    BY Zenon, <1>1, <1>2, <1>4, <1>7 DEF RetryBatch, GiveUp, Crash, Start
  <2> QED
    BY Zenon, <2>1, <2>2
<1>8. CASE Advance(p)
  BY ZenonT(60), <1>2, <1>4, <1>8 DEF Advance, durable
<1>9. ASSUME NEW q \in Paths, Register(p, q) \/ Quarantine(p, q) \/ Refresh(p, q)
      PROVE  Others /\ (durable' # durable => Fenced(p))
  BY ZenonT(60), <1>3, <1>4, <1>9 DEF Register, Quarantine, Refresh, FencedOff
<1>10. ASSUME NEW q \in Paths, Validate(p, q) \/ Select(p, q)
       PROVE  Others /\ (durable' # durable => Fenced(p))
  <2>1. CASE FencedOff(p)
    BY Zenon, <1>4, <2>1 DEF FencedOff
  <2>2. CASE ~FencedOff(p)
    <3>1. durable' = durable \/ Fenced(p)
      BY Zenon, <1>10, <2>2 DEF Validate, Select
    <3>2. \E stage : Stage(p, q, stage)
      BY ZenonT(60), <1>10, <2>2 DEF Validate, Select, Commit
    <3> QED
      BY Zenon, <1>3, <3>1, <3>2
  <2> QED
    BY Zenon, <2>1, <2>2
<1> QED
  BY Zenon, <1>5, <1>6, <1>7, <1>8, <1>9, <1>10 DEF Poller, Item

\* No poller changes anything durable outside the enrolment it captured, wherever in its poll
\* the installation is revoked or enrolled anew (require_active_github_installation).
THEOREM AlwaysFenced == Spec => EpochFence
<1> DEFINE Fence ==
      \A p \in Pollers : durable' # durable /\ poll'[p] # poll[p]
        => ~installation.revoked /\ poll[p].epoch = installation.epoch
<1>1. IInv /\ [Next]_vars => [Fence]_vars
  <2> SUFFICES ASSUME IInv, Next PROVE Fence
    BY Zenon
  <2>1. CASE (\E s \in budget.proposals : CreateUnique(s)) \/ Rewrite \/ Revoke \/ Enrol
    <3>1. poll' = poll
      BY Zenon, <2>1 DEF CreateUnique, Rewrite, Revoke, Enrol
    <3> QED
      BY Zenon, <3>1
  <2>2. CASE \E p \in Pollers : Poller(p) \/ Crash(p) \/ Start(p)
    BY Zenon, <2>2, PollerFenced DEF IInv, Fenced
  <2> QED
    BY ZenonT(60), <2>1, <2>2 DEF Next
<1> QED
  BY <1>1, AlwaysIInv, PTL DEF Spec, EpochFence

\* advance: the batch is finished without retries, so what it did not know is settled.
LEMMA AdvanceSettles ==
  ASSUME IInv, NEW p \in Pollers, Advance(p), head' # head
  PROVE  head'.commit = poll[p].commit /\ \A q \in Additions(p) : Settled(q)
<1>1. /\ poll[p].pc = "batch" /\ Retries(p) = {}
      /\ \A q \in DOMAIN poll[p].work : poll[p].work[q] \in {"settled", "retry"}
      /\ head' = [commit |-> poll[p].commit, etag |-> poll[p].commit]
  BY Zenon DEF Advance, Finished
<1>2. Knows(p)
  BY Zenon DEF IInv
<1>3. \A q \in DOMAIN poll[p].work : Settled(q)
  BY ZenonT(60), <1>1, <1>2 DEF Retries, Knows
<1>4. \A q \in Additions(p) : Settled(q)
  BY ZenonT(60), <1>1, <1>2, <1>3 DEF Knows
<1> QED
  BY Zenon, <1>1, <1>4

\* Only advance moves a provider head that exists.
LEMMA HeadMoves ==
  ASSUME NEW p \in Pollers, Poller(p) \/ Crash(p) \/ Start(p), head # NoHead, head' # head
  PROVE  Advance(p)
<1>1. CASE CaptureEpoch(p) \/ LoadKnown(p) \/ Snapshot(p) \/ BeginBatch(p) \/ RetryBatch(p)
             \/ GiveUp(p) \/ Crash(p) \/ Start(p)
  BY Zenon, <1>1
  DEF CaptureEpoch, LoadKnown, Snapshot, BeginBatch, RetryBatch, GiveUp, Crash, Start, durable
<1>2. CASE LoadHead(p)
  BY Zenon, <1>2 DEF LoadHead
<1>3. ASSUME NEW q \in Paths, Register(p, q) \/ Validate(p, q) \/ Quarantine(p, q)
      PROVE  head' = head
  BY Zenon, <1>3 DEF Register, Validate, Quarantine, FencedOff, durable
<1>4. ASSUME NEW q \in Paths, Select(p, q) \/ Refresh(p, q)
      PROVE  head' = head
  BY Zenon, <1>4 DEF Select, Refresh, FencedOff, durable
<1> QED
  BY Zenon, <1>1, <1>2, <1>3, <1>4 DEF Poller, Item

\* The provider head hides nothing from the tables: everything below it is registered, as it
\* is or with a violation on record, and a poll moves it only over proposals that it knew
\* from their rows or that have become terminal (poll_once, process_batch, advance), for any
\* number of pollers, attempts, crashes and pushes.
THEOREM HeadAlwaysCovers == Spec => HeadCovers
<1>1. IInv => RegisteredBelow
  BY Zenon DEF IInv, RegisteredBelow, Below, Present, Recognised
<1>2. IInv /\ [Next]_vars => [SettlesItsBatch]_vars
  <2> SUFFICES ASSUME IInv, Next, head # NoHead, head' # head,
                      NEW r \in Pollers, poll'[r] # poll[r],
                      NEW q \in (DOMAIN Tree(head'.commit) \cap Paths) \ DOMAIN poll[r].known
               PROVE  items[q] # Absent /\ items[q].state \in Terminal
    BY Zenon DEF SettlesItsBatch
  <2>1. CASE (\E s \in budget.proposals : CreateUnique(s)) \/ Rewrite \/ Revoke \/ Enrol
    BY Zenon, <2>1 DEF CreateUnique, Rewrite, Revoke, Enrol
  <2>2. ASSUME NEW p \in Pollers, Poller(p) \/ Crash(p) \/ Start(p)
        PROVE  items[q] # Absent /\ items[q].state \in Terminal
    <3>1. r = p
      BY Zenon, <2>2, PollerFenced DEF IInv
    <3>2. Advance(p)
      BY Zenon, <2>2, HeadMoves
    <3> QED
      BY Zenon, <3>1, <3>2, AdvanceSettles DEF Additions, Settled, Present
  <2> QED
    BY ZenonT(60), <2>1, <2>2 DEF Next
<1> QED
  BY <1>1, <1>2, AlwaysIInv, PTL DEF Spec, HeadCovers

\* A change of state that leaves a terminal row its state leaves it as it is.
LEMMA StateKept ==
  ASSUME IInv, NEW q \in Paths, NEW state, SetState(q, state),
         items[q] # Absent /\ items[q].state \in Terminal => state = items[q].state
  PROVE  KeepsTerminal
<1>1. items \in [Paths -> ItemRows \cup {Absent}] /\ items[q] \in ItemRows \cup {Absent}
  BY Zenon DEF IInv, Shapes
<1>2. items' = [items EXCEPT ![q] = [items[q] EXCEPT !.state = state]]
  BY Zenon DEF SetState
<1>3. \A r \in Paths \ {q} : items'[r] = items[r]
  BY Zenon, <1>1, <1>2
<1>4. ASSUME items[q] # Absent, items[q].state \in Terminal PROVE items'[q] = items[q]
  <2>1. [items[q] EXCEPT !.state = items[q].state] = items[q]
    BY Zenon, <1>1, <1>4 DEF ItemRows
  <2> QED
    BY Zenon, <1>1, <1>2, <1>4, <2>1
<1> QED
  BY Zenon, <1>3, <1>4 DEF KeepsTerminal

\* Once terminal, a row never changes: neither a late decision nor a quarantine nor another
\* poller rewrites it (register, validate, quarantine, terminalize).
THEOREM TerminalStays == Spec => [][KeepsTerminal]_vars
<1>1. IInv /\ [Next]_vars => [KeepsTerminal]_vars
  <2> SUFFICES ASSUME IInv, Next PROVE KeepsTerminal
    BY Zenon
  <2>1. items' = items => KeepsTerminal
    BY Zenon DEF KeepsTerminal
  <2>2. CASE (\E s \in budget.proposals : CreateUnique(s)) \/ Rewrite \/ Revoke \/ Enrol
    BY ZenonT(60), <2>1, <2>2 DEF CreateUnique, Rewrite, Revoke, Enrol, durable
  <2>3. ASSUME NEW p \in Pollers, Poller(p) \/ Crash(p) \/ Start(p), ~Item(p)
        PROVE  KeepsTerminal
    BY Zenon, <2>1, <2>3
    DEF Poller, CaptureEpoch, LoadHead, LoadKnown, Snapshot, BeginBatch, RetryBatch, GiveUp,
        Advance, Crash, Start, durable
  <2>4. ASSUME NEW p \in Pollers, NEW q \in Paths, Register(p, q) PROVE KeepsTerminal
    <3>1. CASE items' = [items EXCEPT ![q] = Row(poll[p].commit, Blob(p, q))]
                 /\ items[q] = Absent
      BY Zenon, <3>1 DEF KeepsTerminal, IInv, Shapes
    <3>2. CASE items[q].state \notin Terminal /\ SetState(q, "quarantined")
      BY Zenon, <3>2, StateKept
    <3> QED
      BY Zenon, <2>1, <2>4, <3>1, <3>2 DEF Register, FencedOff, durable
  <2>5. ASSUME NEW p \in Pollers, NEW q \in Paths, Validate(p, q) PROVE KeepsTerminal
    <3>1. CASE items[q].state \notin Terminal
                 /\ items' = [items EXCEPT ![q].state = "validated",
                                           ![q].key = Payload[Blob(p, q)].key]
      BY Zenon, <3>1 DEF KeepsTerminal, IInv, Shapes
    <3> QED
      BY Zenon, <2>1, <2>5, <3>1 DEF Validate, FencedOff, durable
  <2>6. ASSUME NEW p \in Pollers, NEW q \in Paths, Quarantine(p, q) PROVE KeepsTerminal
    BY Zenon, <2>1, <2>6, StateKept DEF Quarantine, FencedOff, durable, Quarantined
  <2>7. ASSUME NEW p \in Pollers, NEW q \in Paths, Select(p, q) PROVE KeepsTerminal
    <3>1. ASSUME NEW outcome, SetState(q, Stages(items[q].state, outcome))
          PROVE  KeepsTerminal
      BY Zenon, <3>1, StateKept DEF Stages
    <3> QED
      BY ZenonT(60), <2>1, <2>7, <3>1 DEF Select, Commit, FencedOff, durable
  <2>8. ASSUME NEW p \in Pollers, NEW q \in Paths, Refresh(p, q) PROVE KeepsTerminal
    BY Zenon, <2>1, <2>8 DEF Refresh, FencedOff, durable
  <2> QED
    BY Zenon, <2>2, <2>3, <2>4, <2>5, <2>6, <2>7, <2>8 DEF Next, Item
<1> QED
  BY <1>1, AlwaysIInv, PTL DEF Spec
=============================================================================
