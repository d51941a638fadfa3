------------------------ MODULE ArchiveExportProofs ------------------------
(***************************************************************************)
(* Proofs about ArchiveExport for any tenants, any number of events,       *)
(* clients, faults and rollbacks, and any exit code of Git on an unborn    *)
(* branch, from a new target and from one whose branch was begun.          *)
(***************************************************************************)
EXTENDS ArchiveExport, SequenceTheorems, TLAPS

\* The steps of an export whose archive is built.
Exporting == {"built", "emptied", "staged", "committed", "pushing", "confirming", "pushed"}

\* The batch b continues the history h, without a gap and with every event.
Continues(h, b) ==
  /\ b.prev = IF h = <<>> THEN <<>> ELSE <<Last(h)>>
  /\ b.first = IF h = <<>> THEN 1 ELSE Last(h).last + 1
  /\ b.last >= b.first
  /\ b.events = b.first..b.last

\* All batches that occur anywhere come from a set S of well-formed ones.
Shape(S) ==
  /\ log \in Seq(Events) /\ Len(log) <= MaxEvents
  /\ clients \in 0..MaxClients
  /\ lock \in {"free", "live", "zombie"}
  /\ dirty \in BOOLEAN
  /\ faults \in 0..MaxFaults /\ rollbacks \in 0..MaxRollbacks
  /\ checkpoints \in Seq([batch: S, commit: Seq(S)])
  /\ local \in Seq(S) /\ remote \in Seq(S)
  /\ exporter \in [step: Steps, clients: Nat, batch: S \cup {NoBatch},
                   parent: Seq(S), seen: Seq(S)]
  /\ exporter.step \in Exporting => exporter.batch \in S
  /\ \A b \in S : IsBatch(b)

\* Between the two reads of an export the log still is what the first one saw, as
\* long as the transaction lives.
Loaded ==
  exporter.step = "loading" =>
    /\ exporter.clients <= clients
    /\ lock = "live" => OwnsPrefix /\ Len(log) > PreviousLast

\* A built archive continues the published history, for as long as it is carried.
Carrying ==
  exporter.step \in Exporting =>
    exporter.parent = Published /\ Continues(Published, exporter.batch)

\* Once committed or adopted, the branch is the published history and this archive.
Committed ==
  exporter.step \in {"committed", "pushing", "confirming", "pushed"}
    => local = Append(Published, exporter.batch)

\* While nobody rolls the remote back, it holds what was published and what the
\* exporter saw.
Sees ==
  rollbacks = 0 =>
    /\ IsPrefix(Published, remote)
    /\ exporter.step \in {"emptied", "staged", "committed"} => exporter.seen = remote
    /\ exporter.step = "pushed" => remote = local

LocalVerifies == local # <<>> => Verifies(local)

IInv(S) ==
  /\ Shape(S) /\ OneCommitAhead /\ Loaded /\ Carrying /\ Committed /\ Sees
  /\ LocalVerifies

----------------------------------------------------------------------------
(* Prefixes, and histories that verify.                                     *)

\* A prefix agrees with the longer sequence, place by place.
LEMMA PrefixPointwise ==
  ASSUME NEW S, NEW s \in Seq(S), NEW t \in Seq(S)
  PROVE  IsPrefix(s, t) <=> Len(s) <= Len(t) /\ \A i \in 1..Len(s) : s[i] = t[i]
<1>1. Len(s) \in Nat /\ Len(t) \in Nat /\ SubSeq(s, 1, Len(s)) = s
  BY SubSeqFull, LenProperties
<1> SUFFICES ASSUME Len(s) <= Len(t)
             PROVE  s = SubSeq(t, 1, Len(s)) <=> \A i \in 1..Len(s) : s[i] = t[i]
  BY <1>1 DEF IsPrefix
<1> DEFINE u == SubSeq(t, 1, Len(s))
<1>2. \A i \in 1..Len(s) : t[i] \in S
  BY <1>1, ElementOfSeq
<1>3. u \in Seq(S) /\ Len(u) = Len(s) /\ \A i \in 1..Len(s) : u[i] = t[i]
  <2>1. /\ u \in Seq(S) /\ Len(u) = IF 1 <= Len(s) THEN Len(s) - 1 + 1 ELSE 0
        /\ \A i \in 1..(Len(s) - 1 + 1) : u[i] = t[1 + i - 1]
    BY <1>1, <1>2, SubSeqProperties
  <2> HIDE DEF u
  <2> QED
    BY <1>1, <2>1
<1> HIDE DEF u
<1>4. ASSUME \A i \in 1..Len(s) : s[i] = t[i]
      PROVE  s = u
  BY <1>3, <1>4, SeqEqual
<1>5. s = u => \A i \in 1..Len(s) : s[i] = t[i]
  BY <1>3
<1> QED
  BY <1>4, <1>5 DEF u

\* A prefix stays one when the longer sequence grows.
LEMMA PrefixAppend ==
  ASSUME NEW S, NEW s \in Seq(S), NEW t \in Seq(S), NEW e \in S, IsPrefix(s, t)
  PROVE  IsPrefix(s, Append(t, e))
<1>1. /\ Append(t, e) \in Seq(S) /\ Len(Append(t, e)) = Len(t) + 1
      /\ \A i \in 1..Len(t) : Append(t, e)[i] = t[i]
  BY AppendProperties
<1>2. Len(s) \in Nat /\ Len(t) \in Nat /\ Len(s) <= Len(t)
      /\ \A i \in 1..Len(s) : s[i] = t[i]
  BY PrefixPointwise, LenProperties
<1>3. Len(s) <= Len(Append(t, e)) /\ \A i \in 1..Len(s) : s[i] = Append(t, e)[i]
  BY <1>1, <1>2
<1> QED
  BY <1>1, <1>3, PrefixPointwise

\* A non-empty prefix of a history that verifies verifies (verify_manifest_chain looks
\* at each batch and at its predecessor only).
LEMMA PrefixVerifies ==
  ASSUME NEW S, NEW g \in Seq(S), NEW h \in Seq(S), IsPrefix(g, h), g # <<>>, Verifies(h)
  PROVE  Verifies(g)
<1>1. /\ Len(g) \in Nat /\ Len(h) \in Nat /\ Len(g) <= Len(h) /\ Len(g) # 0
      /\ \A i \in 1..Len(g) : g[i] = h[i]
  BY PrefixPointwise, LenProperties, EmptySeq
<1>2. \A i \in 1..Len(g) : BatchVerifies(g[i])
  BY <1>1 DEF Verifies
<1>3. ChainVerifies(g)
  <2>1. g[1] = h[1]
    BY <1>1
  <2>2. ASSUME NEW i \in 1..(Len(g) - 1)
        PROVE  /\ g[i + 1].prev = <<g[i]>> /\ g[i + 1].first = g[i].last + 1
               /\ g[i + 1].last > g[i].last
    <3>1. i \in 1..(Len(h) - 1) /\ g[i] = h[i] /\ g[i + 1] = h[i + 1]
      BY <1>1
    <3> QED
      BY <3>1 DEF Verifies, ChainVerifies
  <2> QED
    BY <2>1, <2>2 DEF Verifies, ChainVerifies
<1> QED
  BY <1>2, <1>3 DEF Verifies

\* A history that verifies still does when a batch that continues it is added.
LEMMA AppendVerifies ==
  ASSUME NEW S, NEW h \in Seq(S), NEW b \in S, h # <<>> => Verifies(h), Continues(h, b),
         \A e \in S : e.first \in Nat /\ e.last \in Nat
  PROVE  Verifies(Append(h, b))
<1> DEFINE g == Append(h, b)
           n == Len(h)
<1>1. /\ g \in Seq(S) /\ g # <<>> /\ Len(g) = n + 1 /\ g[n + 1] = b
      /\ \A i \in 1..n : g[i] = h[i]
  BY AppendProperties
<1>2. n \in Nat /\ (h = <<>> <=> n = 0) /\ \A i \in 1..n : h[i] \in S
  BY LenProperties, EmptySeq, ElementOfSeq
<1> HIDE DEF g, n
<1>3. \A i \in 1..n : BatchVerifies(g[i])
  BY <1>1, <1>2 DEF Verifies, n
<1>4. BatchVerifies(b)
  BY DEF Continues, BatchVerifies
<1>5. \A i \in 1..(n + 1) : BatchVerifies(g[i])
  <2> SUFFICES ASSUME NEW i \in 1..(n + 1)
               PROVE  BatchVerifies(g[i])
    OBVIOUS
  <2>1. CASE i = n + 1
    BY <1>1, <1>4, <2>1
  <2>2. CASE i # n + 1
    <3>1. i \in 1..n
      BY <1>2, <2>2
    <3> QED
      BY <1>3, <3>1
  <2> QED
    BY <2>1, <2>2
<1>6. g[1].prev = <<>> /\ g[1].first = 1
  <2>1. CASE n = 0
    BY <1>1, <1>2, <2>1 DEF Continues
  <2>2. CASE n # 0
    <3>1. g[1] = h[1] /\ h # <<>>
      BY <1>1, <1>2, <2>2
    <3> QED
      BY <3>1 DEF Verifies, ChainVerifies
  <2> QED
    BY <2>1, <2>2
<1>7. ASSUME NEW i \in 1..n
      PROVE  /\ g[i + 1].prev = <<g[i]>> /\ g[i + 1].first = g[i].last + 1
             /\ g[i + 1].last > g[i].last
  <2>0. h # <<>> /\ g[i] = h[i] /\ h[i] \in S
    BY <1>1, <1>2
  <2>1. CASE i = n
    <3>1. g[i + 1] = b /\ Last(h) = h[i]
      BY <1>1, <2>1 DEF Last, n
    <3>2. b.prev = <<h[i]>> /\ b.first = h[i].last + 1 /\ b.last >= b.first
      BY <2>0, <3>1 DEF Continues
    <3>3. h[i].last \in Nat /\ b.last \in Nat
      BY <2>0
    <3> QED
      BY <2>0, <3>1, <3>2, <3>3
  <2>2. CASE i # n
    <3>1. i \in 1..(n - 1) /\ i + 1 \in 1..n
      BY <1>2, <2>2
    <3>2. g[i + 1] = h[i + 1]
      BY <1>1, <3>1
    <3> QED
      BY <2>0, <3>1, <3>2 DEF Verifies, ChainVerifies, n
  <2> QED
    BY <2>1, <2>2
<1>8. ChainVerifies(g)
  <2>1. 1..(Len(g) - 1) = 1..n
    BY <1>1, <1>2
  <2> QED
    BY <1>6, <1>7, <2>1 DEF ChainVerifies
<1>9. Verifies(g)
  BY <1>1, <1>5, <1>8 DEF Verifies
<1> QED
  BY <1>9 DEF g

\* Intervals from 1 determine their ends.
LEMMA IntervalEnds ==
  ASSUME NEW m \in Nat, NEW n \in Nat, 1..m = 1..n
  PROVE  m = n
<1>1. m > n => m \in 1..m /\ m \notin 1..n
  OBVIOUS
<1>2. n > m => n \in 1..n /\ n \notin 1..m
  OBVIOUS
<1> QED
  BY <1>1, <1>2

----------------------------------------------------------------------------
(* What the published history is.                                           *)

\* The fields of a batch of the set.
LEMMA BatchFields ==
  ASSUME NEW S, Shape(S), NEW b \in S
  PROVE  /\ b.first \in Nat /\ b.last \in Nat /\ b.last <= Len(log)
         /\ b.last >= 1 /\ b.first >= 1 /\ b.first <= b.last
<1>1. IsBatch(b) /\ Len(log) \in Nat
  BY LenProperties DEF Shape
<1> QED
  BY <1>1 DEF IsBatch

\* The published history is the sequence of the checkpoints' batches; its last batch
\* is the one the next export continues.
LEMMA PublishedIs ==
  ASSUME NEW S, Shape(S), OneCommitAhead
  PROVE  /\ Published \in Seq(S) /\ Len(Published) = Len(checkpoints)
         /\ Published = <<>> <=> checkpoints = <<>>
         /\ checkpoints # <<>> => /\ Last(Published) = Last(checkpoints).batch
                                  /\ Last(Published) \in S
<1>1. checkpoints \in Seq([batch: S, commit: Seq(S)])
  BY DEF Shape
<1>2. /\ Len(checkpoints) \in Nat /\ DOMAIN checkpoints = 1..Len(checkpoints)
      /\ \A i \in 1..Len(checkpoints) : checkpoints[i] \in [batch: S, commit: Seq(S)]
      /\ checkpoints = <<>> <=> Len(checkpoints) = 0
  BY <1>1, LenProperties, EmptySeq, ElementOfSeq
<1>3. Published \in Seq(S)
  <2>1. CASE checkpoints = <<>>
    BY <2>1, EmptySeq DEF Published
  <2>2. CASE checkpoints # <<>>
    <3>1. Last(checkpoints) \in [batch: S, commit: Seq(S)]
      BY <1>2, <2>2 DEF Last
    <3> QED
      BY <2>2, <3>1 DEF Published
  <2> QED
    BY <2>1, <2>2
<1>4. /\ DOMAIN Published = 1..Len(Published) /\ Len(Published) \in Nat
      /\ Published = <<>> <=> Len(Published) = 0
  BY <1>3, LenProperties, EmptySeq
<1>5. /\ DOMAIN Published = 1..Len(checkpoints)
      /\ \A i \in 1..Len(checkpoints) : Published[i] = checkpoints[i].batch
  BY <1>2 DEF OneCommitAhead
<1>6. Len(Published) = Len(checkpoints)
  BY <1>2, <1>4, <1>5, IntervalEnds
<1>7. ASSUME checkpoints # <<>>
      PROVE  Last(Published) = Last(checkpoints).batch /\ Last(Published) \in S
  BY <1>2, <1>5, <1>6, <1>7 DEF Last
<1> QED
  BY <1>2, <1>3, <1>4, <1>6, <1>7

----------------------------------------------------------------------------
(* The steps.                                                               *)

\* What an export reads of the checkpoints is a function of them.
LEMMA SameCheckpoints ==
  ASSUME UNCHANGED checkpoints
  PROVE  UNCHANGED <<Published, PreviousLast, PreviousManifest>>
BY DEF Published, PreviousLast, PreviousManifest

\* A batch stays well formed while the log and the registered clients grow.
LEMMA StaysBatch ==
  ASSUME NEW S, Shape(S), Len(log') \in Nat, Len(log') >= Len(log),
         clients' \in Nat, clients' >= clients
  PROVE  \A b \in S : IsBatch(b)'
<1>1. Len(log) \in Nat /\ clients \in Nat
  BY LenProperties, ExportAssumption DEF Shape
<1> SUFFICES ASSUME NEW b \in S
             PROVE  IsBatch(b)'
  OBVIOUS
<1>2. IsBatch(b)
  BY DEF Shape
<1>3. /\ b.last \in 1..Len(log') /\ b.clients \in 0..clients'
      /\ b.bindings \in b.clients..clients'
  BY <1>1, <1>2 DEF IsBatch
<1> QED
  BY <1>2, <1>3 DEF IsBatch

\* A process that is idle has its type.
LEMMA IdleType ==
  ASSUME NEW S
  PROVE  {Idle, Down} \subseteq [step: Steps, clients: Nat, batch: S \cup {NoBatch},
                                parent: Seq(S), seen: Seq(S)]
<1>1. <<>> \in Seq(S)
  BY EmptySeq
<1>2. Down = [step |-> "down", clients |-> 0, batch |-> NoBatch, parent |-> <<>>, seen |-> <<>>]
  BY DEF Idle, Down
<1>3. Down \in [step: Steps, clients: Nat, batch: S \cup {NoBatch},
               parent: Seq(S), seen: Seq(S)]
  BY <1>1, <1>2 DEF Steps
<1>4. Idle \in [step: Steps, clients: Nat, batch: S \cup {NoBatch},
               parent: Seq(S), seen: Seq(S)]
  BY <1>1 DEF Idle, Steps
<1> QED
  BY <1>3, <1>4

\* An exporter that stops, starts or is without its transaction keeps everything.
LEMMA Stops ==
  ASSUME NEW S, IInv(S), UNCHANGED <<log, clients, checkpoints, local, remote, rollbacks>>,
         dirty' \in BOOLEAN, lock' \in {"free", "live", "zombie"}, faults' \in 0..MaxFaults,
         \/ exporter' \in {Idle, Down}
         \/ exporter' = exporter /\ (lock' = "live" => lock = "live")
  PROVE  IInv(S)'
<1>1. UNCHANGED <<Published, PreviousLast, PreviousManifest>>
  BY SameCheckpoints
<1>2. exporter' \in {Idle, Down} =>
        /\ exporter'.step \notin Exporting \cup {"loading"}
        /\ exporter' \in [step: Steps, clients: Nat, batch: S \cup {NoBatch},
                          parent: Seq(S), seen: Seq(S)]
  <2>1. Idle.step = "idle" /\ Down.step = "down"
    BY DEF Idle, Down
  <2> QED
    BY <2>1, IdleType DEF Exporting
<1>3. \A b \in S : IsBatch(b)'
  BY DEF IInv, Shape, IsBatch
<1>4. Shape(S)'
  BY <1>2, <1>3 DEF IInv, Shape
<1>5. OneCommitAhead'
  BY <1>1 DEF IInv, OneCommitAhead
<1>6. Loaded'
  BY <1>1, <1>2 DEF IInv, Loaded, OwnsPrefix, OwnEvents
<1>7. Carrying'
  BY <1>1, <1>2 DEF IInv, Carrying
<1>8. Committed' /\ Sees'
  BY <1>1, <1>2 DEF IInv, Committed, Sees, Exporting
<1>9. LocalVerifies'
  BY DEF IInv, LocalVerifies
<1> QED
  BY <1>4, <1>5, <1>6, <1>7, <1>8, <1>9 DEF IInv

\* The world around the exporter: writers, operators and the remote's keeper.
LEMMA OthersStep ==
  ASSUME NEW S, IInv(S), AppendEvent \/ RegisterClient
  PROVE  IInv(S)'
<1>t. /\ log \in Seq(Events) /\ Len(log) \in Nat /\ clients \in Nat
      /\ Len(log) <= MaxEvents
  BY LenProperties, ExportAssumption DEF IInv, Shape
<1>u. /\ UNCHANGED <<checkpoints, lock, local, dirty, remote, exporter, faults, rollbacks>>
      /\ UNCHANGED <<Published, PreviousLast, PreviousManifest>>
  BY SameCheckpoints DEF AppendEvent, RegisterClient, repository, limits
<1>1. /\ log' \in Seq(Events) /\ Len(log') \in Nat /\ Len(log') <= MaxEvents
      /\ Len(log') >= Len(log)
      /\ clients' \in 0..MaxClients /\ clients' >= clients
  <2>1. CASE AppendEvent
    <3>1. PICK e \in Events : log' = Append(log, e)
      BY <2>1 DEF AppendEvent
    <3>2. log' \in Seq(Events) /\ Len(log') = Len(log) + 1
      BY <1>t, <3>1, AppendProperties
    <3>3. clients' = clients /\ Len(log) < MaxEvents /\ clients \in 0..MaxClients
      BY <2>1 DEF AppendEvent, IInv, Shape
    <3> QED
      BY <1>t, <3>2, <3>3, ExportAssumption
  <2>2. CASE RegisterClient
    BY <1>t, <2>2, ExportAssumption DEF RegisterClient
  <2> QED
    BY <2>1, <2>2
<1>2. Shape(S)'
  <2>1. \A b \in S : IsBatch(b)'
    BY <1>1, StaysBatch DEF IInv
  <2> QED
    BY <1>u, <1>1, <2>1 DEF IInv, Shape
<1>3. OneCommitAhead' /\ LocalVerifies'
  BY <1>u DEF IInv, OneCommitAhead, LocalVerifies
<1>4. Loaded'
  <2>1. CASE AppendEvent
    <3>1. lock' = "free" /\ clients' = clients
      BY <2>1 DEF AppendEvent
    <3> QED
      BY <1>u, <3>1 DEF IInv, Loaded
  <2>2. CASE RegisterClient
    <3>1. log' = log
      BY <2>2 DEF RegisterClient
    <3>2. exporter.clients \in Nat
      BY DEF IInv, Shape
    <3>3. OwnsPrefix' = OwnsPrefix
      BY <3>1 DEF OwnsPrefix, OwnEvents
    <3> QED
      BY <1>t, <1>u, <1>1, <3>1, <3>2, <3>3 DEF IInv, Loaded
  <2> QED
    BY <2>1, <2>2
<1>5. Carrying' /\ Committed' /\ Sees'
  BY <1>u DEF IInv, Carrying, Committed, Sees
<1> QED
  BY <1>2, <1>3, <1>4, <1>5 DEF IInv

\* A restored older copy is a prefix of what the remote held.
LEMMA RollBackStep ==
  ASSUME NEW S, IInv(S), RollBackRemote
  PROVE  IInv(S)'
<1>u. /\ UNCHANGED <<log, clients, checkpoints, lock, local, dirty, exporter, faults>>
      /\ UNCHANGED <<Published, PreviousLast, PreviousManifest>>
  BY SameCheckpoints DEF RollBackRemote, database
<1>t. local \in Seq(S) /\ remote \in Seq(S) /\ Len(remote) \in Nat /\ IsPrefix(remote, local)
  BY LenProperties DEF IInv, Shape, OneCommitAhead
<1>1. PICK n \in 0..(Len(remote) - 1) : remote' = SubSeq(remote, 1, n)
  BY DEF RollBackRemote
<1>2. rollbacks' \in 0..MaxRollbacks /\ rollbacks' # 0
  BY ExportAssumption DEF RollBackRemote, IInv, Shape
<1>3. /\ remote' \in Seq(S) /\ Len(remote') = n
      /\ \A i \in 1..n : remote'[i] = remote[i]
  <2>1. \A i \in 1..n : remote[i] \in S
    BY <1>t, <1>1, ElementOfSeq
  <2>2. /\ remote' \in Seq(S) /\ Len(remote') = IF 1 <= n THEN n - 1 + 1 ELSE 0
        /\ \A i \in 1..(n - 1 + 1) : remote'[i] = remote[1 + i - 1]
    BY <1>1, <2>1, SubSeqProperties
  <2> QED
    BY <2>2
<1>4. IsPrefix(remote', local)
  <2>1. Len(remote) <= Len(local) /\ \A i \in 1..Len(remote) : remote[i] = local[i]
    BY <1>t, PrefixPointwise
  <2>2. Len(remote') <= Len(local) /\ \A i \in 1..Len(remote') : remote'[i] = local[i]
    BY <1>t, <1>1, <1>3, <2>1, LenProperties
  <2> QED
    BY <1>t, <1>3, <2>2, PrefixPointwise
<1>5. Shape(S)'
  <2>1. \A b \in S : IsBatch(b)'
    BY <1>u DEF IInv, Shape, IsBatch
  <2> QED
    BY <1>u, <1>2, <1>3, <2>1 DEF IInv, Shape
<1>6. OneCommitAhead' /\ LocalVerifies'
  BY <1>u, <1>4 DEF IInv, OneCommitAhead, LocalVerifies
<1>7. Loaded'
  BY <1>u DEF IInv, Loaded, OwnsPrefix, OwnEvents
<1>8. Carrying' /\ Committed' /\ Sees'
  BY <1>u, <1>2 DEF IInv, Carrying, Committed, Sees
<1> QED
  BY <1>5, <1>6, <1>7, <1>8 DEF IInv

\* The exporter moves on inside its export, and nothing else of the invariant moves.
LEMMA Proceeds ==
  ASSUME NEW S, IInv(S), UNCHANGED <<log, clients, checkpoints, lock, local, remote>>,
         UNCHANGED <<faults, rollbacks>>, dirty' \in BOOLEAN,
         exporter.step \in Exporting, NEW p \in Exporting, NEW q \in Seq(S),
         exporter' = [exporter EXCEPT !.step = p, !.seen = q],
         p \in {"committed", "pushing", "confirming", "pushed"}
            => local = Append(Published, exporter.batch),
         rollbacks = 0 =>
           /\ p \in {"emptied", "staged", "committed"} => q = remote
           /\ p = "pushed" => remote = local
  PROVE  IInv(S)'
<1>1. UNCHANGED <<Published, PreviousLast, PreviousManifest>>
  BY SameCheckpoints
<1>t. exporter \in [step: Steps, clients: Nat, batch: S \cup {NoBatch},
                   parent: Seq(S), seen: Seq(S)]
  BY DEF IInv, Shape
<1>2. /\ exporter'.step = p /\ exporter'.seen = q /\ exporter'.batch = exporter.batch
      /\ exporter'.parent = exporter.parent
      /\ exporter' \in [step: Steps, clients: Nat, batch: S \cup {NoBatch},
                        parent: Seq(S), seen: Seq(S)]
  <2> HIDE DEF NoBatch
  <2>1. p \in Steps
    BY DEF Exporting, Steps
  <2> QED
    BY <1>t, <2>1
<1>3. Shape(S)'
  <2>1. \A b \in S : IsBatch(b)'
    BY DEF IInv, Shape, IsBatch
  <2>2. exporter'.batch \in S
    BY <1>2 DEF IInv, Shape
  <2> QED
    BY <1>2, <2>1, <2>2 DEF IInv, Shape
<1>4. OneCommitAhead' /\ LocalVerifies'
  BY <1>1 DEF IInv, OneCommitAhead, LocalVerifies
<1>5. Loaded'
  BY <1>2 DEF Loaded, Exporting
<1>6. Carrying'
  BY <1>1, <1>2 DEF IInv, Carrying
<1>7. Committed'
  BY <1>1, <1>2 DEF Committed
<1>8. Sees'
  BY <1>1, <1>2 DEF IInv, Sees
<1> QED
  BY <1>3, <1>4, <1>5, <1>6, <1>7, <1>8 DEF IInv

\* Moving on without looking at the remote.
LEMMA SeenKept ==
  ASSUME NEW S, Shape(S), NEW p
  PROVE  /\ [exporter EXCEPT !.step = p] = [exporter EXCEPT !.step = p, !.seen = exporter.seen]
         /\ exporter.seen \in Seq(S)
BY DEF Shape

\* The worktree and the remote's head are read, the tree is materialized over a head
\* that is published or is this very archive, and the checkpoint becomes "committed".
LEMMA ReconcileStep ==
  ASSUME NEW S, IInv(S), ReadHeads \/ Materialize \/ RecordCommit \/ Confirm
  PROVE  IInv(S)'
<1>s. Shape(S) /\ exporter.seen \in Seq(S) /\ remote \in Seq(S) /\ local \in Seq(S)
  BY SeenKept DEF IInv, Shape
<1>1. CASE ReadHeads
  <2>1. /\ UNCHANGED <<log, clients, checkpoints, lock, local, remote, faults, rollbacks>>
        /\ dirty' \in BOOLEAN /\ exporter.step \in Exporting
        /\ exporter' = [exporter EXCEPT !.step = "emptied", !.seen = remote]
    BY <1>1 DEF ReadHeads, database, limits, Exporting
  <2>2. "emptied" \in Exporting
    BY DEF Exporting
  <2> QED
    BY <1>s, <2>1, <2>2, Proceeds
<1>2. CASE Materialize
  <2> DEFINE p == IF FreshExport THEN "staged" ELSE "committed"
  <2>1. /\ UNCHANGED <<log, clients, checkpoints, lock, local, remote, faults, rollbacks>>
        /\ dirty' \in BOOLEAN /\ exporter.step = "emptied"
        /\ exporter' = [exporter EXCEPT !.step = p]
    BY <1>2 DEF Materialize, database, limits
  <2>2. exporter' = [exporter EXCEPT !.step = p, !.seen = exporter.seen]
    BY <1>s, <2>1, SeenKept, Zenon
  <2>3. exporter.step \in Exporting /\ p \in Exporting /\ p \in {"staged", "committed"}
    BY <2>1 DEF Exporting
  <2>4. ASSUME p = "committed"
        PROVE  local = Append(Published, exporter.batch)
    <3>1. Adoptable
      BY <1>2, <2>4 DEF Materialize
    <3>2. local # <<>> /\ Front(local) = Published /\ Last(local) = exporter.batch
      BY <2>3, <3>1 DEF Adoptable, CommitMatches, IInv, Carrying
    <3>3. local = Append(Front(local), Last(local))
      <4>1. PICK h \in Seq(S), e \in S : local = Append(h, e)
        BY <1>s, <3>2, SequenceEmptyOrAppend
      <4>2. /\ Len(local) = Len(h) + 1 /\ Len(h) \in Nat /\ local[Len(h) + 1] = e
            /\ \A i \in 1..Len(h) : local[i] = h[i] /\ h[i] \in S
        BY <4>1, AppendProperties, LenProperties, ElementOfSeq
      <4>3. SubSeq(local, 1, Len(h)) = h
        <5>1. /\ SubSeq(local, 1, Len(h)) \in Seq(S)
              /\ Len(SubSeq(local, 1, Len(h))) = IF 1 <= Len(h) THEN Len(h) - 1 + 1 ELSE 0
              /\ \A i \in 1..(Len(h) - 1 + 1) : SubSeq(local, 1, Len(h))[i] = local[1 + i - 1]
          BY <4>2, SubSeqProperties
        <5>2. /\ Len(SubSeq(local, 1, Len(h))) = Len(h)
              /\ \A i \in 1..Len(h) : SubSeq(local, 1, Len(h))[i] = h[i]
          BY <4>2, <5>1
        <5> QED
          BY <5>1, <5>2, SeqEqual
      <4>4. Len(local) - 1 = Len(h)
        BY <4>2
      <4> QED
        BY <4>1, <4>2, <4>3, <4>4 DEF Front, Last
    <3> QED
      BY <3>2, <3>3
  <2>5. rollbacks = 0 => exporter.seen = remote
    BY <2>1 DEF IInv, Sees
  <2> HIDE DEF p
  <2> QED
    BY <1>s, <2>1, <2>2, <2>3, <2>4, <2>5, Proceeds
<1>3. CASE RecordCommit
  <2> DEFINE p == IF exporter.seen = local THEN "pushed" ELSE "pushing"
  <2>1. /\ UNCHANGED <<log, clients, checkpoints, lock, local, remote, faults, rollbacks>>
        /\ dirty' = dirty /\ exporter.step = "committed"
        /\ exporter' = [exporter EXCEPT !.step = p]
    BY <1>3 DEF RecordCommit, database, repository, limits
  <2>2. exporter' = [exporter EXCEPT !.step = p, !.seen = exporter.seen]
    BY <1>s, <2>1, SeenKept, Zenon
  <2>3. /\ exporter.step \in Exporting /\ p \in Exporting
        /\ p \notin {"emptied", "staged", "committed"} /\ dirty' \in BOOLEAN
    BY <2>1 DEF Exporting, IInv, Shape
  <2>4. local = Append(Published, exporter.batch)
    BY <2>1 DEF IInv, Committed
  <2>5. rollbacks = 0 => (p = "pushed" => remote = local)
    BY <2>1 DEF IInv, Sees
  <2> HIDE DEF p
  <2> QED
    BY <1>s, <2>1, <2>2, <2>3, <2>4, <2>5, Proceeds
<1>4. CASE Confirm
  <2>1. /\ UNCHANGED <<log, clients, checkpoints, lock, local, remote, faults, rollbacks>>
        /\ dirty' = dirty /\ exporter.step = "confirming" /\ remote = local
        /\ exporter' = [exporter EXCEPT !.step = "pushed"]
    BY <1>4 DEF Confirm, database, repository, limits
  <2>2. exporter' = [exporter EXCEPT !.step = "pushed", !.seen = exporter.seen]
    BY <1>s, <2>1, SeenKept, Zenon
  <2>3. exporter.step \in Exporting /\ "pushed" \in Exporting /\ dirty' \in BOOLEAN
    BY <2>1 DEF Exporting, IInv, Shape
  <2>4. local = Append(Published, exporter.batch)
    BY <2>1 DEF IInv, Committed
  <2> QED
    BY <1>s, <2>1, <2>2, <2>3, <2>4, Proceeds
<1> QED
  BY <1>1, <1>2, <1>3, <1>4

\* A poll finds new events, all of them the tenant's, and takes the locks.
LEMMA LoadStep ==
  ASSUME NEW S, IInv(S), Load
  PROVE  IInv(S)'
<1>u. /\ UNCHANGED <<log, clients, checkpoints, local, dirty, remote, faults, rollbacks>>
      /\ UNCHANGED <<Published, PreviousLast, PreviousManifest>>
      /\ lock' = "live" /\ OwnsPrefix /\ Len(log) > PreviousLast
  BY SameCheckpoints DEF Load, database, repository, limits
<1>1. exporter' = [step |-> "loading", clients |-> clients, batch |-> NoBatch,
                   parent |-> <<>>, seen |-> <<>>]
  BY DEF Load, Idle
<1>2. <<>> \in Seq(S) /\ clients \in Nat
  BY EmptySeq, ExportAssumption DEF IInv, Shape
<1>3. /\ exporter'.step = "loading" /\ exporter'.clients = clients
      /\ exporter' \in [step: Steps, clients: Nat, batch: S \cup {NoBatch},
                        parent: Seq(S), seen: Seq(S)]
  BY <1>1, <1>2 DEF Steps
<1>4. Shape(S)'
  <2>1. \A b \in S : IsBatch(b)'
    BY <1>u DEF IInv, Shape, IsBatch
  <2> QED
    BY <1>u, <1>3, <2>1 DEF IInv, Shape, Exporting
<1>5. OneCommitAhead' /\ LocalVerifies'
  BY <1>u DEF IInv, OneCommitAhead, LocalVerifies
<1>6. Loaded'
  <2>1. OwnsPrefix'
    BY <1>u DEF OwnsPrefix, OwnEvents
  <2> QED
    BY <1>u, <1>2, <1>3, <2>1 DEF Loaded
<1>7. Carrying' /\ Committed' /\ Sees'
  BY <1>u, <1>3 DEF IInv, Carrying, Committed, Sees, Exporting
<1> QED
  BY <1>4, <1>5, <1>6, <1>7 DEF IInv

\* The builder's batch is well formed and continues the published history: the log
\* did not move since the prefix was read, for the transaction lives.
LEMMA BuiltBatch ==
  ASSUME NEW S, IInv(S), Build
  PROVE  IsBatch(Batch(clients)) /\ Continues(Published, Batch(clients))
<1> DEFINE b == Batch(clients)
<1>t. /\ log \in Seq(Events) /\ Len(log) \in Nat /\ clients \in Nat
      /\ exporter.clients \in Nat /\ exporter.clients <= clients
      /\ OwnsPrefix /\ Len(log) > PreviousLast
  BY LenProperties, ExportAssumption DEF IInv, Shape, Loaded, Build
<1>1. /\ PreviousLast \in Nat
      /\ PreviousLast + 1 = IF Published = <<>> THEN 1 ELSE Last(Published).last + 1
      /\ PreviousManifest = IF Published = <<>> THEN <<>> ELSE <<Last(Published)>>
  <2>1. /\ Published = <<>> <=> checkpoints = <<>>
        /\ checkpoints # <<>> => /\ Last(Published) = Last(checkpoints).batch
                                 /\ Last(Published) \in S
    BY PublishedIs DEF IInv
  <2>2. Last(Published) \in S => Last(Published).last \in Nat
    BY BatchFields DEF IInv
  <2> QED
    BY <2>1, <2>2 DEF PreviousLast, PreviousManifest
<1>2. OwnEvents(PreviousLast + 1, Len(log)) = (PreviousLast + 1)..Len(log)
  <2>1. \A i \in 1..Len(log) : log[i].tenant = Owner
    BY <1>t DEF OwnsPrefix, OwnEvents
  <2>2. \A i \in (PreviousLast + 1)..Len(log) : i \in 1..Len(log)
    BY <1>t, <1>1
  <2> QED
    BY <2>1, <2>2 DEF OwnEvents
<1>3. /\ b.first = PreviousLast + 1 /\ b.last = Len(log)
      /\ b.events = (PreviousLast + 1)..Len(log) /\ b.prev = PreviousManifest
      /\ b.clients = exporter.clients /\ b.bindings = clients
      /\ DOMAIN b = DOMAIN NoBatch
  BY <1>2 DEF Batch, NoBatch
<1> HIDE DEF b
<1>4. Len(b.prev) <= 1
  <2>1. Len(<<>>) = 0 /\ Len(<<Last(Published)>>) = 1
    OBVIOUS
  <2> QED
    BY <1>1, <1>3, <2>1
<1>5. IsBatch(b)
  BY <1>t, <1>1, <1>3, <1>4 DEF IsBatch
<1>6. Continues(Published, b)
  BY <1>t, <1>1, <1>3 DEF Continues
<1> QED
  BY <1>5, <1>6 DEF b

\* The built batch joins the batches there are.
LEMMA BuildStep ==
  ASSUME NEW S, IInv(S), Build
  PROVE  \E T : IInv(T)'
<1>0. PICK b, T : b = Batch(clients) /\ T = S \cup {b}
  OBVIOUS
<1>u. /\ UNCHANGED <<log, clients, checkpoints, lock, local, dirty, remote, faults, rollbacks>>
      /\ UNCHANGED <<Published, PreviousLast, PreviousManifest>>
      /\ exporter' = [exporter EXCEPT !.step = "built", !.batch = b, !.parent = Published]
  BY <1>0, SameCheckpoints DEF Build, database, repository, limits
<1>b. IsBatch(b) /\ Continues(Published, b)
  BY <1>0, BuiltBatch
<1>1. S \subseteq T /\ b \in T
  BY <1>0
<1>2. \A s \in Seq(S) : s \in Seq(T)
  BY <1>1, SeqMonotonic
<1>3. /\ local \in Seq(T) /\ remote \in Seq(T) /\ Published \in Seq(T)
      /\ checkpoints \in Seq([batch: T, commit: Seq(T)])
  <2>1. [batch: S, commit: Seq(S)] \subseteq [batch: T, commit: Seq(T)]
    BY <1>1, <1>2
  <2>2. checkpoints \in Seq([batch: S, commit: Seq(S)])
    BY DEF IInv, Shape
  <2>3. checkpoints \in Seq([batch: T, commit: Seq(T)])
    BY <2>1, <2>2, SeqMonotonic
  <2>4. Published \in Seq(S)
    BY PublishedIs DEF IInv
  <2> QED
    BY <1>2, <2>3, <2>4 DEF IInv, Shape
<1>4. /\ exporter'.step = "built" /\ exporter'.batch = b /\ exporter'.parent = Published
      /\ exporter' \in [step: Steps, clients: Nat, batch: T \cup {NoBatch},
                        parent: Seq(T), seen: Seq(T)]
  <2>1. exporter \in [step: Steps, clients: Nat, batch: S \cup {NoBatch},
                     parent: Seq(S), seen: Seq(S)]
    BY DEF IInv, Shape
  <2>2. "built" \in Steps /\ exporter.seen \in Seq(T)
    BY <1>2, <2>1 DEF Steps
  <2> QED
    BY <1>u, <1>1, <1>3, <2>1, <2>2
<1>5. Shape(T)'
  <2>1. \A e \in T : IsBatch(e)'
    <3>1. \A e \in T : IsBatch(e)
      BY <1>0, <1>b DEF IInv, Shape
    <3> QED
      BY <1>u, <3>1 DEF IsBatch
  <2> QED
    BY <1>u, <1>1, <1>3, <1>4, <2>1 DEF IInv, Shape
<1>6. OneCommitAhead' /\ LocalVerifies'
  BY <1>u DEF IInv, OneCommitAhead, LocalVerifies
<1>7. Loaded' /\ Committed' /\ Sees'
  BY <1>u, <1>4 DEF IInv, Loaded, Committed, Sees
<1>8. Carrying'
  BY <1>u, <1>b, <1>4 DEF Carrying
<1>9. IInv(T)'
  BY <1>5, <1>6, <1>7, <1>8 DEF IInv
<1> QED
  BY <1>9

\* A sequence is a prefix of itself.
LEMMA PrefixReflexive ==
  ASSUME NEW S, NEW s \in Seq(S)
  PROVE  IsPrefix(s, s)
BY PrefixPointwise, LenProperties

\* The branch moves from the published history to it and this archive.
LEMMA CommitStep ==
  ASSUME NEW S, IInv(S), Commit
  PROVE  IInv(S)'
<1>u. /\ UNCHANGED <<log, clients, checkpoints, lock, remote, faults, rollbacks>>
      /\ UNCHANGED <<Published, PreviousLast, PreviousManifest>>
      /\ dirty' = FALSE /\ exporter.step = "staged" /\ local = exporter.parent
      /\ local' = Append(local, exporter.batch)
      /\ exporter' = [exporter EXCEPT !.step = "committed"]
  BY SameCheckpoints DEF Commit, database, limits
<1>t. /\ exporter \in [step: Steps, clients: Nat, batch: S \cup {NoBatch},
                      parent: Seq(S), seen: Seq(S)]
      /\ exporter.batch \in S /\ local \in Seq(S) /\ remote \in Seq(S)
  BY <1>u DEF IInv, Shape, Exporting
<1>1. local = Published /\ Continues(local, exporter.batch)
  BY <1>u DEF IInv, Carrying, Exporting
<1>2. /\ local' \in Seq(S) /\ local' # <<>> /\ Len(local') = Len(local) + 1
      /\ Len(local) \in Nat
  BY <1>u, <1>t, AppendProperties, LenProperties
<1>3. /\ exporter'.step = "committed" /\ exporter'.seen = exporter.seen
      /\ exporter'.batch = exporter.batch /\ exporter'.parent = exporter.parent
      /\ exporter' \in [step: Steps, clients: Nat, batch: S \cup {NoBatch},
                        parent: Seq(S), seen: Seq(S)]
  <2>1. "committed" \in Steps
    BY DEF Steps
  <2> QED
    BY <1>u, <1>t, <2>1
<1>4. Shape(S)'
  <2>1. \A b \in S : IsBatch(b)'
    BY <1>u DEF IInv, Shape, IsBatch
  <2> QED
    BY <1>u, <1>t, <1>2, <1>3, <2>1 DEF IInv, Shape
<1>5. OneCommitAhead'
  <2>1. IsPrefix(Published, local') /\ IsPrefix(remote, local')
    BY <1>u, <1>t, <1>1, PrefixReflexive, PrefixAppend DEF IInv, OneCommitAhead
  <2>2. Published = [i \in DOMAIN checkpoints |-> checkpoints[i].batch]
    BY DEF IInv, OneCommitAhead
  <2> QED
    BY <1>u, <1>1, <1>2, <2>1, <2>2 DEF OneCommitAhead
<1>6. LocalVerifies'
  <2>1. \A e \in S : e.first \in Nat /\ e.last \in Nat
    BY BatchFields DEF IInv
  <2>2. Verifies(local')
    BY <1>u, <1>t, <1>1, <2>1, AppendVerifies DEF IInv, LocalVerifies
  <2> QED
    BY <2>2 DEF LocalVerifies, Verifies, BatchVerifies, ChainVerifies
<1>7. Loaded' /\ Committed' /\ Sees'
  BY <1>u, <1>1, <1>3 DEF IInv, Loaded, Committed, Sees
<1>8. Carrying'
  BY <1>u, <1>3 DEF IInv, Carrying, Exporting
<1> QED
  BY <1>4, <1>5, <1>6, <1>7, <1>8 DEF IInv

\* The remote takes the branch as a fast-forward.
LEMMA PushStep ==
  ASSUME NEW S, IInv(S), Push
  PROVE  IInv(S)'
<1>u. /\ UNCHANGED <<log, clients, checkpoints, lock, local, dirty, faults, rollbacks>>
      /\ UNCHANGED <<Published, PreviousLast, PreviousManifest>>
      /\ exporter.step = "pushing" /\ remote' = local
      /\ exporter' = [exporter EXCEPT !.step = "confirming"]
  BY SameCheckpoints DEF Push, database, limits
<1>t. /\ exporter \in [step: Steps, clients: Nat, batch: S \cup {NoBatch},
                      parent: Seq(S), seen: Seq(S)]
      /\ exporter.batch \in S /\ local \in Seq(S)
  BY <1>u DEF IInv, Shape, Exporting
<1>1. /\ exporter'.step = "confirming"
      /\ exporter'.batch = exporter.batch /\ exporter'.parent = exporter.parent
      /\ exporter' \in [step: Steps, clients: Nat, batch: S \cup {NoBatch},
                        parent: Seq(S), seen: Seq(S)]
  <2>1. "confirming" \in Steps
    BY DEF Steps
  <2> QED
    BY <1>u, <1>t, <2>1
<1>2. Shape(S)'
  <2>1. \A b \in S : IsBatch(b)'
    BY <1>u DEF IInv, Shape, IsBatch
  <2> QED
    BY <1>u, <1>t, <1>1, <2>1 DEF IInv, Shape
<1>3. OneCommitAhead' /\ LocalVerifies'
  <2>1. IsPrefix(local, local)
    BY <1>t, PrefixReflexive
  <2> QED
    BY <1>u, <2>1 DEF IInv, OneCommitAhead, LocalVerifies
<1>4. Loaded' /\ Committed'
  BY <1>u, <1>1 DEF IInv, Loaded, Committed
<1>5. Sees'
  BY <1>u, <1>1 DEF IInv, OneCommitAhead, Sees
<1>6. Carrying'
  BY <1>u, <1>1 DEF IInv, Carrying, Exporting
<1> QED
  BY <1>2, <1>3, <1>4, <1>5, <1>6 DEF IInv

\* The checkpoint is recorded as pushed and describes the branch.
LEMMA FinishStep ==
  ASSUME NEW S, IInv(S), Finish
  PROVE  IInv(S)'
<1> DEFINE c == [batch |-> exporter.batch, commit |-> local]
           C == [batch: S, commit: Seq(S)]
<1>u. /\ UNCHANGED <<log, clients, local, dirty, remote, faults, rollbacks>>
      /\ exporter.step = "pushed" /\ lock' = "free" /\ exporter' = Idle
      /\ checkpoints' = Append(checkpoints, c)
  BY DEF Finish, repository, limits
<1>t. /\ exporter.batch \in S /\ local \in Seq(S) /\ remote \in Seq(S)
      /\ checkpoints \in Seq(C) /\ c \in C
  BY <1>u DEF IInv, Shape, Exporting
<1>1. c.batch = exporter.batch /\ c.commit = local
  OBVIOUS
<1> HIDE DEF c, C
<1>2. /\ checkpoints' \in Seq(C) /\ checkpoints' # <<>>
      /\ Len(checkpoints') = Len(checkpoints) + 1 /\ Len(checkpoints) \in Nat
      /\ checkpoints'[Len(checkpoints) + 1] = c
      /\ \A i \in 1..Len(checkpoints) : checkpoints'[i] = checkpoints[i]
      /\ DOMAIN checkpoints' = 1..Len(checkpoints')
  BY <1>u, <1>t, AppendProperties, LenProperties
<1>3. Published' = local
  BY <1>1, <1>2 DEF Published, Last
<1>4. local = Append(Published, exporter.batch)
  BY <1>u DEF IInv, Committed
<1>5. /\ Published \in Seq(S) /\ Len(Published) = Len(checkpoints)
      /\ \A i \in 1..Len(checkpoints) : Published[i] = checkpoints[i].batch
  <2>1. DOMAIN checkpoints = 1..Len(checkpoints)
    BY <1>t, LenProperties
  <2> QED
    BY <2>1, PublishedIs DEF IInv, OneCommitAhead
<1>6. local = [i \in DOMAIN checkpoints' |-> checkpoints'[i].batch]
  <2>1. /\ Len(local) = Len(checkpoints) + 1 /\ DOMAIN local = 1..Len(local)
        /\ local[Len(checkpoints) + 1] = exporter.batch
        /\ \A i \in 1..Len(checkpoints) : local[i] = Published[i]
    BY <1>t, <1>4, <1>5, AppendProperties, LenProperties
  <2>2. ASSUME NEW i \in 1..(Len(checkpoints) + 1)
        PROVE  local[i] = checkpoints'[i].batch
    <3>1. CASE i = Len(checkpoints) + 1
      BY <1>1, <1>2, <2>1, <3>1
    <3>2. CASE i # Len(checkpoints) + 1
      <4>1. i \in 1..Len(checkpoints)
        BY <1>2, <3>2
      <4> QED
        BY <1>2, <1>5, <2>1, <4>1
    <3> QED
      BY <3>1, <3>2
  <2>3. local = [i \in DOMAIN local |-> local[i]]
    BY <1>t, LenProperties
  <2> QED
    BY <1>2, <2>1, <2>2, <2>3
<1>7. OneCommitAhead'
  <2>1. IsPrefix(local, local) /\ IsPrefix(remote, local) /\ Len(local) \in Nat
    BY <1>t, PrefixReflexive, LenProperties DEF IInv, OneCommitAhead
  <2>2. Len(local) <= Len(local) + 1
    BY <2>1
  <2> QED
    BY <1>u, <1>3, <1>6, <2>1, <2>2 DEF OneCommitAhead
<1>8. /\ exporter'.step = "idle"
      /\ exporter' \in [step: Steps, clients: Nat, batch: S \cup {NoBatch},
                        parent: Seq(S), seen: Seq(S)]
  <2>1. Idle.step = "idle"
    BY DEF Idle
  <2> QED
    BY <1>u, <2>1, IdleType
<1>9. Shape(S)'
  <2>1. \A b \in S : IsBatch(b)'
    BY <1>u DEF IInv, Shape, IsBatch
  <2>2. checkpoints' \in Seq([batch: S, commit: Seq(S)])
    BY <1>2 DEF C
  <2> QED
    BY <1>u, <1>t, <1>8, <2>1, <2>2 DEF IInv, Shape, Exporting
<1>10. Loaded' /\ Carrying' /\ Committed' /\ LocalVerifies'
  BY <1>u, <1>8 DEF IInv, Loaded, Carrying, Committed, LocalVerifies, Exporting
<1>11. Sees'
  <2>1. rollbacks = 0 => remote = local
    BY <1>u DEF IInv, Sees
  <2>2. IsPrefix(local, local)
    BY <1>t, PrefixReflexive
  <2> QED
    BY <1>u, <1>3, <1>8, <2>1, <2>2 DEF Sees
<1> QED
  BY <1>7, <1>9, <1>10, <1>11 DEF IInv

\* A refused or dead export, a lost connection, a reaped session and a restart.
LEMMA FailureStep ==
  ASSUME NEW S, IInv(S), Refuse \/ Die \/ Disconnect \/ Reap \/ Restart
  PROVE  IInv(S)'
<1>t. /\ lock \in {"free", "live", "zombie"} /\ dirty \in BOOLEAN
      /\ faults \in 0..MaxFaults /\ MaxFaults \in Nat
  BY ExportAssumption DEF IInv, Shape
<1>1. CASE Refuse
  <2>1. /\ UNCHANGED <<log, clients, checkpoints, local, remote, faults, rollbacks>>
        /\ exporter' = Down /\ lock' \in {"free", "live", "zombie"}
    BY <1>t, <1>1 DEF Refuse, database, limits
  <2>2. dirty' \in BOOLEAN
    BY <1>t, <1>1 DEF Refuse
  <2> QED
    BY <1>t, <2>1, <2>2, Stops
<1>2. CASE Die
  <2>1. /\ UNCHANGED <<log, clients, checkpoints, local, remote, dirty, rollbacks>>
        /\ exporter' = Down /\ lock' \in {"free", "live", "zombie"}
    BY <1>t, <1>2 DEF Die, database, repository
  <2>2. faults' \in 0..MaxFaults
    BY <1>t, <1>2 DEF Die
  <2> QED
    BY <1>t, <2>1, <2>2, Stops
<1>3. CASE Disconnect
  <2>1. /\ UNCHANGED <<log, clients, checkpoints, local, remote, dirty, rollbacks, exporter>>
        /\ lock' \in {"free", "zombie"}
    BY <1>3 DEF Disconnect, database, repository
  <2>2. faults' \in 0..MaxFaults
    BY <1>t, <1>3 DEF Disconnect
  <2> QED
    BY <1>t, <2>1, <2>2, Stops
<1>4. CASE Reap
  <2>1. /\ UNCHANGED <<log, clients, checkpoints, local, remote, dirty, rollbacks, exporter>>
        /\ lock' = "free" /\ faults' = faults
    BY <1>4 DEF Reap, database, repository, limits
  <2> QED
    BY <1>t, <2>1, Stops
<1>5. CASE Restart
  <2>1. /\ UNCHANGED <<log, clients, checkpoints, local, remote, dirty, lock, faults, rollbacks>>
        /\ exporter' = Idle
    BY <1>5 DEF Restart, database, repository, limits
  <2> QED
    BY <1>t, <2>1, Stops
<1> QED
  BY <1>1, <1>2, <1>3, <1>4, <1>5

----------------------------------------------------------------------------
(* The theorems.                                                            *)

Good == \E S : IInv(S)

\* The invariant holds of a new target,
LEMMA GoodUnborn == Init /\ Unborn => IInv({})
<1> SUFFICES ASSUME Init, Unborn
             PROVE  IInv({})
  OBVIOUS
<1>1. /\ <<>> \in Seq(Events) /\ <<>> \in Seq({}) /\ Len(<<>>) = 0
      /\ <<>> \in Seq([batch: {}, commit: Seq({})])
  BY EmptySeq
<1>2. Shape({})
  <2>1. exporter = Idle /\ exporter.step = "idle"
    BY DEF Init, Idle
  <2>2. exporter \in [step: Steps, clients: Nat, batch: {} \cup {NoBatch},
                     parent: Seq({}), seen: Seq({})]
    BY <2>1, IdleType
  <2>3. /\ Len(log) <= MaxEvents /\ clients \in 0..MaxClients
        /\ faults \in 0..MaxFaults /\ rollbacks \in 0..MaxRollbacks
    BY <1>1, ExportAssumption DEF Init, Unborn
  <2>4. exporter.step \notin Exporting
    BY <2>1 DEF Exporting
  <2>5. /\ log \in Seq(Events) /\ lock \in {"free", "live", "zombie"} /\ dirty \in BOOLEAN
        /\ checkpoints \in Seq([batch: {}, commit: Seq({})])
        /\ local \in Seq({}) /\ remote \in Seq({})
    BY <1>1 DEF Init, Unborn
  <2> QED
    BY <2>2, <2>3, <2>4, <2>5, Zenon DEF Shape
<1>3. Published = <<>>
  BY DEF Unborn, Published
<1>4. IsPrefix(<<>>, <<>>)
  BY <1>1, PrefixReflexive
<1>5. OneCommitAhead
  BY <1>1, <1>3, <1>4 DEF Init, Unborn, OneCommitAhead
<1>6. Loaded /\ Carrying /\ Committed /\ Sees /\ LocalVerifies
  BY <1>3, <1>4
  DEF Init, Unborn, Idle, Loaded, Carrying, Committed, Sees, LocalVerifies, Exporting
<1> QED
  BY <1>2, <1>5, <1>6 DEF IInv

\* and of a branch that has its first commit, the only batch anywhere;
LEMMA GoodBegun == Init /\ Begun => IInv({Genesis})
<1> SUFFICES ASSUME Init, Begun
             PROVE  IInv({Genesis})
  OBVIOUS
<1> DEFINE S == {Genesis}
           c == [batch |-> Genesis, commit |-> <<Genesis>>]
<1>1. /\ Genesis.first = 1 /\ Genesis.last = 1 /\ Genesis.events = {1} /\ Genesis.prev = <<>>
      /\ Genesis.clients = 0 /\ Genesis.bindings = 0 /\ DOMAIN Genesis = DOMAIN NoBatch
  BY DEF Genesis, NoBatch
<1>2. /\ local = <<Genesis>> /\ remote = <<Genesis>> /\ checkpoints = <<c>>
      /\ exporter = Idle /\ exporter.step = "idle" /\ clients = 0
  BY DEF Init, Begun, Idle
<1>3. PICK e \in Events : log = <<e>>
  BY DEF Begun
<1>4. /\ <<Genesis>> \in Seq(S) /\ Len(<<Genesis>>) = 1 /\ <<Genesis>>[1] = Genesis
      /\ <<Genesis>> # <<>>
  OBVIOUS
<1>5. log \in Seq(Events) /\ Len(log) = 1
  BY <1>3
<1>6. Published = <<Genesis>>
  BY <1>2 DEF Published, Last
<1>7. IsPrefix(<<Genesis>>, <<Genesis>>)
  BY <1>4, PrefixReflexive
<1>8. Shape(S)
  <2>1. exporter \in [step: Steps, clients: Nat, batch: S \cup {NoBatch},
                     parent: Seq(S), seen: Seq(S)]
    BY <1>2, IdleType
  <2>2. /\ Len(log) <= MaxEvents /\ clients \in 0..MaxClients
        /\ faults \in 0..MaxFaults /\ rollbacks \in 0..MaxRollbacks
    BY <1>5, ExportAssumption DEF Init
  <2>3. exporter.step \notin Exporting
    BY <1>2 DEF Exporting
  <2>4. checkpoints \in Seq([batch: S, commit: Seq(S)])
    <3>1. c \in [batch: S, commit: Seq(S)]
      BY <1>4
    <3> QED
      BY <1>2, <3>1
  <2>5. lock \in {"free", "live", "zombie"} /\ dirty \in BOOLEAN
    BY DEF Init
  <2>6. local \in Seq(S) /\ remote \in Seq(S)
    BY <1>2, <1>4
  <2>7. IsBatch(Genesis)
    BY <1>1, <1>2, <1>5 DEF IsBatch
  <2> QED
    BY <1>5, <2>1, <2>2, <2>3, <2>4, <2>5, <2>6, <2>7, Zenon DEF Shape
<1>9. OneCommitAhead
  <2>1. Published = [i \in DOMAIN checkpoints |-> checkpoints[i].batch]
    BY <1>2, <1>6
  <2> QED
    BY <1>2, <1>4, <1>6, <1>7, <2>1 DEF OneCommitAhead
<1>10. Verifies(<<Genesis>>)
  <2> DEFINE h == <<Genesis>>
  <2>1. BatchVerifies(Genesis)
    BY <1>1 DEF BatchVerifies
  <2>2. h # <<>> /\ Len(h) = 1 /\ h[1] = Genesis
    BY <1>4
  <2> HIDE DEF h
  <2>3. \A i \in 1..Len(h) : BatchVerifies(h[i])
    BY <2>1, <2>2
  <2>4. ChainVerifies(h)
    BY <1>1, <2>2 DEF ChainVerifies
  <2>5. Verifies(h)
    BY <2>2, <2>3, <2>4 DEF Verifies
  <2> QED
    BY <2>5 DEF h
<1>11. Loaded /\ Carrying /\ Committed /\ Sees /\ LocalVerifies
  BY <1>2, <1>6, <1>7, <1>10
  DEF Loaded, Carrying, Committed, Sees, LocalVerifies, Exporting
<1> QED
  BY <1>8, <1>9, <1>11 DEF IInv

\* so it holds at the start,
LEMMA GoodInit == Init => Good
<1>1. Init => Unborn \/ Begun
  BY DEF Init
<1> QED
  BY <1>1, GoodUnborn, GoodBegun DEF Good

\* every step keeps it,
LEMMA GoodNext == Good /\ [Next]_vars => Good'
<1> SUFFICES ASSUME NEW S, IInv(S), [Next]_vars
             PROVE  \E T : IInv(T)'
  BY DEF Good
<1>1. CASE AppendEvent \/ RegisterClient
  BY <1>1, OthersStep
<1>2. CASE RollBackRemote
  BY <1>2, RollBackStep
<1>3. CASE Load
  BY <1>3, LoadStep
<1>4. CASE Build
  BY <1>4, BuildStep
<1>5. CASE ReadHeads \/ Materialize \/ RecordCommit \/ Confirm
  BY <1>5, ReconcileStep
<1>6. CASE Commit
  BY <1>6, CommitStep
<1>7. CASE Push
  BY <1>7, PushStep
<1>8. CASE Finish
  BY <1>8, FinishStep
<1>9. CASE Refuse \/ Die \/ Disconnect \/ Reap \/ Restart
  BY <1>9, FailureStep
<1>10. CASE UNCHANGED vars
  <2>1. /\ UNCHANGED <<log, clients, checkpoints, local, remote, dirty, lock, faults, rollbacks>>
        /\ exporter' = exporter
    BY <1>10 DEF vars
  <2>2. dirty \in BOOLEAN /\ lock \in {"free", "live", "zombie"} /\ faults \in 0..MaxFaults
    BY DEF IInv, Shape
  <2> QED
    BY <2>1, <2>2, Stops
<1> QED
  BY <1>1, <1>2, <1>3, <1>4, <1>5, <1>6, <1>7, <1>8, <1>9, <1>10 DEF Next, Export

\* and so it always holds.
LEMMA GoodAlways == Spec => []Good
BY GoodInit, GoodNext, PTL DEF Spec

\* For every tenant set, log length and number of faults and rollbacks: batches and
\* checkpoints keep their shapes, the worktree's branch is the published history and at
\* most one commit more, and the remote is a prefix of it, however exports die and retry.
THEOREM BranchAlwaysConsistent == Spec => []BranchConsistent
<1>1. Good => BranchConsistent
  <2> SUFFICES ASSUME NEW S, IInv(S)
               PROVE  TypeOK
    BY DEF Good, BranchConsistent, IInv
  <2>1. Shape(S)
    BY DEF IInv
  <2>2. \A b \in Range(local) \cup Range(remote) : IsBatch(b)
    BY <2>1, RangeOfSeq DEF Shape
  <2>3. \A c \in Range(checkpoints) :
          IsBatch(c.batch) /\ \A b \in Range(c.commit) : IsBatch(b)
    <3> SUFFICES ASSUME NEW c \in Range(checkpoints)
                 PROVE  IsBatch(c.batch) /\ \A b \in Range(c.commit) : IsBatch(b)
      OBVIOUS
    <3>1. c \in [batch: S, commit: Seq(S)]
      BY <2>1, RangeOfSeq DEF Shape
    <3>2. c.batch \in S /\ c.commit \in Seq(S)
      BY <3>1
    <3> QED
      BY <2>1, <3>2, RangeOfSeq DEF Shape
  <2>4. exporter.step \in Steps /\ (exporter.batch = NoBatch \/ IsBatch(exporter.batch))
    BY <2>1 DEF Shape
  <2> QED
    BY <2>1, <2>2, <2>3, <2>4 DEF Shape, TypeOK
<1> QED
  BY <1>1, GoodAlways, PTL

\* Whatever is on the remote passes the verification of a restore, in every instance:
\* one tenant's events from genesis on, no gap, no overlap, an unbroken manifest chain.
THEOREM RemoteAlwaysVerifies == Spec => []RemoteVerifies
<1>1. Good => RemoteVerifies
  <2> SUFFICES ASSUME NEW S, IInv(S), remote # <<>>
               PROVE  Verifies(remote)
    BY DEF Good, RemoteVerifies
  <2>1. remote \in Seq(S) /\ local \in Seq(S) /\ IsPrefix(remote, local)
    BY DEF IInv, Shape, OneCommitAhead
  <2>2. local # <<>>
    <3>1. Len(remote) <= Len(local)
      BY <2>1, PrefixPointwise
    <3>2. Len(remote) \in Nat \ {0}
      BY <2>1, EmptySeq
    <3> QED
      BY <3>1, <3>2, EmptySeq
  <2> QED
    BY <2>1, <2>2, PrefixVerifies DEF IInv, LocalVerifies
<1> QED
  BY <1>1, GoodAlways, PTL

\* A checkpoint in state "pushed" tells the truth in every instance: until somebody rolls
\* the remote back, its commit and all before it are on the remote branch.
THEOREM PushedAlwaysRemote == Spec => []PushedIsRemote
<1>1. Good => PushedIsRemote
  BY DEF Good, IInv, Sees, PushedIsRemote
<1> QED
  BY <1>1, GoodAlways, PTL
=============================================================================
