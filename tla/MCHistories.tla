----------------------------- MODULE MCHistories -----------------------------
(* Archive histories around a rotation of the signing key after the third   *)
(* event, behind, ahead, rewritten or damaged, and the settings of the      *)
(* operators who anchor them.                                               *)
EXTENDS Integers, Sequences

LOCAL INSTANCE SequencesExt

CONSTANTS k1, k2

Commit(first, last, key, snap) ==
  [first |-> first, last |-> last, content |-> "log", snap |-> snap, key |-> key,
   version |-> 1, flaw |-> "none"]

A1 == <<Commit(1, 1, k1, TRUE)>>
A2 == Append(A1, Commit(2, 3, k1, FALSE))
A3 == Append(A2, Commit(4, 4, k2, TRUE))
\* The old key signs beyond its epoch; another log; the same log in one commit; a
\* batch over the boundary; damaged objects.
B3 == Append(A2, Commit(4, 4, k1, TRUE))
R2 == Append(A1, [Commit(2, 3, k1, TRUE) EXCEPT !.content = "other"])
O1 == <<Commit(1, 3, k1, TRUE)>>
W2 == Append(A1, Commit(2, 4, k1, TRUE))
X2 == Append(A1, [Commit(2, 3, k1, TRUE) EXCEPT !.flaw = "tree"])

Histories == {A2, A3, B3, R2, O1, W2, X2}

Epoch(first, last, key, cutoff) ==
  [first |-> first, last |-> last, key |-> key, cutoff |-> cutoff]
Transition(signed) ==
  [old |-> k1, new |-> k2, last |-> 3, first |-> 4, head |-> A2, signed |-> signed]

OneEpoch(head, cutoff) ==
  [head |-> head, high |-> Last(head).last, epochs |-> <<Epoch(1, 0, k1, cutoff)>>,
   transitions |-> <<>>, version |-> 1]
TwoEpochs(head, cutoff, signed) ==
  [head |-> head, high |-> Last(head).last,
   epochs |-> <<Epoch(1, 3, k1, cutoff), Epoch(4, 0, k2, <<>>)>>,
   transitions |-> <<Transition(signed)>>, version |-> 1]

Anchorings ==
  {OneEpoch(A2, <<>>), OneEpoch(B3, A2), OneEpoch(R2, A2), OneEpoch(X2, <<>>),
   OneEpoch(O1, <<>>),
   TwoEpochs(A3, A2, {k1, k2}), TwoEpochs(A3, <<>>, {k2}), TwoEpochs(B3, <<>>, {k1, k2}),
   TwoEpochs(W2, <<>>, {k1, k2})}

Bound(kinds, commands, moves, swaps, writes) ==
  [kinds |-> kinds, commands |-> commands, moves |-> moves, swaps |-> swaps, writes |-> writes]

Recoveries ==
  {Bound({"create"}, 3, 1, 0, 0), Bound({"create"}, 3, 0, 1, 0), Bound({"create"}, 2, 1, 1, 0),
   Bound({"restore", "continue"}, 3, 1, 0, 1), Bound({"restore", "continue"}, 3, 0, 1, 1)}
==============================================================================
