------------------------------ MODULE MCWriters ------------------------------
(* Small instances of SerializableWriters: a few calls that meet on the same  *)
(* memories, fingerprints and idempotency keys.                              *)
EXTENDS SerializableWriters, TLC

CONSTANTS f1, f2, f3, v1, v2, k1, k2, r1, r2, r3, r4

Remember(m, f) == [kind |-> "remember", memory |-> m, subject |-> "project", fingerprint |-> f]
Revise(m, r, f) == [kind |-> "revise", memory |-> m, revision |-> r, fingerprint |-> f]
OpenConflict(c, m, n) ==
  [kind |-> "open_conflict", conflict |-> c, expected |-> [x \in {m, n} |-> 1],
   subject |-> "project"]
Nominate(m, f, v, outcome) ==
  [kind |-> "nominate", memory |-> m, subject |-> "project", fingerprint |-> f,
   evidence |-> v, outcome |-> outcome, sealed |-> FALSE, promotes |-> TRUE]
NominateSealed(m, f) ==
  [kind |-> "nominate", memory |-> m, subject |-> "project", fingerprint |-> f,
   evidence |-> v1, outcome |-> "active", sealed |-> TRUE, promotes |-> FALSE]
HardForget(m) == [kind |-> "forget", memory |-> m, revision |-> 1, mode |-> "hard"]
PurgeOf(m) == [kind |-> "purge", memory |-> m, revision |-> 2]

\* The tables after a command.
Apply(t, c) ==
  IF Answer(t, c).code = "ok" THEN Staged(t, c, Answer(t, c).event) ELSE t

\* An active memory 1, then a nominated candidate 2.
TwoMemories == Apply(Apply(EmptyTables, Remember(1, f1)), Nominate(2, f2, v1, "candidate"))

\* A sealed memory 3 whose hard forget has been accepted, besides.
WithForgotten == Apply(Apply(TwoMemories, NominateSealed(3, f3)), HardForget(3))

\* A client repeats its call, a nomination that will be omitted was given the same
\* key, and another client creates what the first would revise to.
RetryCommand == [r \in Requests |->
  CASE r = r1 -> Revise(1, 1, f3)
    [] r = r2 -> Revise(1, 1, f3)
    [] r = r3 -> Nominate(3, f1, v1, "active")
    [] r = r4 -> Remember(3, f3)]
RetryKey == [r \in Requests |->
  CASE r = r1 -> k1 [] r = r2 -> k1 [] r = r3 -> k1 [] r = r4 -> k2]

\* The repetition is the same call under the same key.
Repetition == Permutations({r1, r2})

\* Two conflicts over the same members, named in opposite orders, and a purge.
DisputeCommand == [r \in Requests |->
  CASE r = r1 -> OpenConflict(11, 1, 2)
    [] r = r2 -> OpenConflict(12, 2, 1)
    [] r = r3 -> PurgeOf(3)]
DisputeKey == [r \in Requests |->
  CASE r = r1 -> k1 [] r = r2 -> k2 [] r = r3 -> NoKey]
==============================================================================
