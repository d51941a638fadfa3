---------------------------- MODULE ArchiveTrust ----------------------------
(***************************************************************************)
(* What the recovery of a signed archive accepts.  The operator keeps the  *)
(* settings outside the archive: the exact head, its high-water sequence,  *)
(* the signer epochs with the transition records between them, and the     *)
(* last trusted commit of a compromised signer.                            *)
(*                                                                         *)
(* A history is the sequence of commits from genesis to a head.  Hashes    *)
(* are collision free: the identity of a commit is the history it ends.    *)
(* A commit is [first, last: its event range, content: its events,         *)
(* snap: whether it carries a snapshot, key: who signed it, version: the   *)
(* release that made it, flaw: the check its objects fail, or "none"].     *)
(***************************************************************************)
EXTENDS Naturals, Sequences, SequencesExt, FiniteSetsExt

CONSTANT
  Release   \* the application release that runs the recovery

----------------------------------------------------------------------------
(* ReadOnlyGitArchive and the verification of one commit.                   *)

\* _read_commit: regular files of the closed layout, with a manifest.
ReadsCommit(c) == c.flaw # "layout"

\* read: the branch is at the anchor, and every tree down to genesis is read.
ReadsArchive(branch, s) ==
  /\ branch = s.head
  /\ branch # <<>>
  /\ \A i \in DOMAIN branch : ReadsCommit(branch[i])

\* _parse_commit_object: one tree, at most one parent, one signature.
ParsesCommit(c) == c.flaw # "merge"

\* verify_commit: the one good signature is of the pinned principal and key.
VerifiesSigner(c, key) == c.key = key

\* verify_archive_commit: signature, structure, message and exact tree.
VerifiesArchiveCommit(c, key) ==
  /\ VerifiesSigner(c, key)
  /\ ParsesCommit(c)
  /\ c.flaw \notin {"message", "tree"}

\* verify_manifest_chain: from genesis, without gap or overlap.
ChainVerifies(h) ==
  /\ h[1].first = 1
  /\ \A i \in 1..(Len(h) - 1) : h[i + 1].first = h[i].last + 1

----------------------------------------------------------------------------
(* Signer epochs.  An epoch is [first, last: its event range, last 0 when   *)
(* open, key, cutoff: the last trusted history of a compromised signer, or  *)
(* <<>>].                                                                   *)

\* _validate_epoch_settings, and again in verify_signed_archive_epochs.
GapFree(epochs) ==
  /\ epochs # <<>>
  /\ epochs[1].first = 1
  /\ \A i \in 1..(Len(epochs) - 1) :
       epochs[i].last # 0 /\ epochs[i + 1].first = epochs[i].last + 1

\* ArchiveSignerEpoch.__post_init__: the range, and a cutoff inside it.
IsEpoch(e) ==
  /\ e.first >= 1
  /\ e.last # 0 => e.last >= e.first
  /\ e.cutoff # <<>> =>
       /\ Last(e.cutoff).last >= e.first
       /\ e.last # 0 => Last(e.cutoff).last <= e.last

\* Faulty variant of Covering: the batch may end after the epoch.
CoveringStart(c, epochs) ==
  {i \in DOMAIN epochs : epochs[i].first <= c.first /\
     (i = Len(epochs) \/ c.first < epochs[i + 1].first)}

\* The epochs whose range holds the whole batch.
Covering(c, epochs) ==
  {i \in DOMAIN epochs : epochs[i].first <= c.first /\
     (epochs[i].last = 0 \/ c.last <= epochs[i].last)}

\* No commit of a compromised signer beyond the cutoff, and at the cutoff that commit.
WithinCutoff(h, i, e) ==
  e.cutoff # <<>> =>
    /\ h[i].last <= Last(e.cutoff).last
    /\ h[i].last = Last(e.cutoff).last => SubSeq(h, 1, i) = e.cutoff

\* Every cutoff the policy names is a commit of the history.
ObservedCutoffs(h, epochs) ==
  \A j \in DOMAIN epochs : epochs[j].cutoff # <<>> =>
    \E i \in DOMAIN h : j \in Covering(h[i], epochs) /\ h[i].last = Last(epochs[j].cutoff).last

VerifiesEpochs(h, epochs) ==
  /\ h # <<>> /\ GapFree(epochs)
  /\ \A i \in DOMAIN h :
       /\ Cardinality(Covering(h[i], epochs)) = 1
       /\ LET e == epochs[CHOOSE j \in Covering(h[i], epochs) : TRUE] IN
            WithinCutoff(h, i, e) /\ VerifiesArchiveCommit(h[i], e.key)
  /\ ChainVerifies(h)
  /\ ObservedCutoffs(h, epochs)

----------------------------------------------------------------------------
(* Transition records between epochs: [old, new: the keys, last: the last   *)
(* old sequence, first: the first new one, head: the last old head,         *)
(* signed: the keys whose detached signatures verify].                      *)

\* ArchiveSignerTransition.__post_init__
IsTransition(t) == t.old # t.new /\ t.last >= 1 /\ t.first = t.last + 1

\* DetachedTransitionVerifier.verify
VerifiesDetached(t, key) == key \in t.signed

\* The record is about this boundary, and the commit that ends the old epoch.
MatchesBoundary(t, h, old, new) ==
  /\ t.old = old.key /\ t.new = new.key
  /\ old.last = t.last /\ new.first = t.first
  /\ \E i \in DOMAIN h : h[i].last = t.last /\ SubSeq(h, 1, i) = t.head

VerifiesTransitions(h, s) ==
  /\ Len(s.transitions) = Len(s.epochs) - 1
  /\ \A i \in DOMAIN s.transitions :
       LET t == s.transitions[i] IN
         /\ s.epochs[i].key # s.epochs[i + 1].key
         /\ IsTransition(t)
         /\ MatchesBoundary(t, h, s.epochs[i], s.epochs[i + 1])
         /\ VerifiesDetached(t, t.old) /\ VerifiesDetached(t, t.new)

----------------------------------------------------------------------------
\* ArchiveRecoverySettings.load
Loads(s) ==
  /\ GapFree(s.epochs)
  /\ \A i \in DOMAIN s.epochs : IsEpoch(s.epochs[i])
  /\ Len(s.transitions) = Len(s.epochs) - 1
  /\ s.high >= 1

\* _verified, on a repository whose branch is at the history.
Verified(branch, s) ==
  /\ ReadsArchive(branch, s)
  /\ VerifiesEpochs(branch, s.epochs)
  /\ VerifiesTransitions(branch, s)
  /\ \A i \in DOMAIN branch : branch[i].version = s.version
  /\ Last(branch).last = s.high
  /\ s.version = Release

----------------------------------------------------------------------------
(* build_restore_plan.                                                      *)

\* The events of a commit, and of a history.
EventsOf(c) == [n \in 1..(c.last - c.first + 1) |-> <<c.first + n - 1, c.content>>]
Events(h) == FlattenSeq([i \in DOMAIN h |-> EventsOf(h[i])])

\* The newest snapshot's high-water sequence.
SnapshotHigh(h) == Max({h[i].last : i \in {j \in DOMAIN h : h[j].snap}})

\* Only the events that follow the snapshot.
LaterEvents(h) == SelectSeq(Events(h), LAMBDA e : e[1] > SnapshotHigh(h))

\* The memory_events rows of the snapshot.
SnapshotEvents(h) == SelectSeq(Events(h), LAMBDA e : e[1] <= SnapshotHigh(h))

\* A snapshot to start from, and later events that go on from it, gap-free, to the
\* final sequence: RestorePlan.__post_init__.
PlansRestore(h) ==
  /\ \E i \in DOMAIN h : h[i].snap
  /\ [n \in DOMAIN LaterEvents(h) |-> LaterEvents(h)[n][1]]
       = [n \in 1..(Last(h).last - SnapshotHigh(h)) |-> SnapshotHigh(h) + n]
=============================================================================
