----------------------------- MODULE MCScripts -----------------------------
(* The commands that reach a node before and during a recovery drill.      *)

LOCAL Nominated(m, f, v, outcome, promotes) ==
  [kind |-> "nominate", memory |-> m, subject |-> "s", fingerprint |-> f, evidence |-> v,
   outcome |-> outcome, sealed |-> FALSE, promotes |-> promotes]
LOCAL Candidate(v, promotes) == Nominated(2, "g", v, "candidate", promotes)
LOCAL Sealed == [Nominated(1, "f", "v", "active", FALSE) EXCEPT !.sealed = TRUE]
LOCAL Remembered ==
  [kind |-> "remember", memory |-> 3, subject |-> "s", fingerprint |-> "f"]
LOCAL Forget(m, mode) == [kind |-> "forget", memory |-> m, revision |-> 1, mode |-> mode]
LOCAL Provisioned(b, forked) == [kind |-> "branch", branch |-> b, forked |-> forked]
LOCAL Main == Provisioned("main", <<>>)
LOCAL Both(r) == [m \in {2, 3} |-> r]

\* A conflict opened and resolved, with a link and a fork.
LOCAL Disputed ==
  <<Main, Sealed, Candidate("v", FALSE), Remembered,
    [kind |-> "link", source |-> 2, target |-> 3, sourceRevision |-> 1, targetRevision |-> 1],
    [kind |-> "open_conflict", conflict |-> 1, expected |-> Both(1), subject |-> "s"],
    [kind |-> "resolve_conflict", conflict |-> 1, expected |-> Both(2),
     result |-> [m \in {2, 3} |-> IF m = 2 THEN "active" ELSE "retired"], confirmed |-> TRUE],
    Provisioned("side", <<"main", 4>>)>>

\* Commands before their branch, a promotion, a hard forget and its purge.
LOCAL Purged ==
  <<Remembered, Provisioned("side", <<"main", 1>>), Main, Candidate("v", FALSE), Sealed,
    Provisioned("side", <<"main", 1>>), Candidate("w", TRUE),
    [kind |-> "revise", memory |-> 2, revision |-> 2, fingerprint |-> "f"], Forget(1, "hard"),
    [kind |-> "purge", memory |-> 1, revision |-> 2],
    [kind |-> "retire", memory |-> 2, revision |-> 3]>>

\* Forks of forks, one at an event of another branch; an expiry and a logical forget.
LOCAL Forked ==
  <<Main, Provisioned("side", <<"main", 1>>), Provisioned("leaf", <<"side", 1>>),
    Provisioned("leaf", <<"side", 2>>), Candidate("v", FALSE),
    [kind |-> "expire", memory |-> 2, revision |-> 1, due |-> TRUE], Sealed, Remembered,
    Forget(3, "logical")>>

CommandScripts == {Disputed, Purged, Forked}
=============================================================================
