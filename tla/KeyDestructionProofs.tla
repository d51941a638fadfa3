------------------------ MODULE KeyDestructionProofs ------------------------
(***************************************************************************)
(* What the destruction protocol guarantees for any set of keys and any    *)
(* number of requests, attempts, deaths and restores.                      *)
(*                                                                         *)
(* The argument rests on the anchor in custody: while any process runs     *)
(* that has checked the ledger, custody is a prefix of the ledger, and a   *)
(* key is recorded as erased only when custody covers its fact.            *)
(***************************************************************************)
EXTENDS KeyDestruction, SequenceTheorems, TLAPS

----------------------------------------------------------------------------
(* Prefixes.                                                                *)

\* A ledger is a prefix of itself.
LEMMA PrefixReflexive ==
  ASSUME NEW S, NEW s \in Seq(S)
  PROVE  IsPrefix(s, s)
BY Len(s) \in Nat DEF IsPrefix

\* Prefixes compose.
LEMMA PrefixTransitive ==
  ASSUME NEW S, NEW s \in Seq(S), NEW t \in Seq(S), NEW u \in Seq(S),
         IsPrefix(s, t), IsPrefix(t, u)
  PROVE  IsPrefix(s, u)
<1>1. Len(s) \in Nat /\ Len(t) \in Nat /\ Len(u) \in Nat
  OBVIOUS
<1>2. /\ Len(s) <= Len(t) /\ \A i \in 1..Len(s) : s[i] = t[i]
      /\ Len(t) <= Len(u) /\ \A i \in 1..Len(t) : t[i] = u[i]
  BY DEF IsPrefix
<1>3. Len(s) <= Len(u) /\ \A i \in 1..Len(s) : s[i] = u[i]
  BY <1>1, <1>2
<1> QED BY <1>3 DEF IsPrefix

\* A sequence that grows keeps its prefixes.
LEMMA PrefixAppend ==
  ASSUME NEW S, NEW s \in Seq(S), NEW t \in Seq(S), NEW e \in S, IsPrefix(s, t)
  PROVE  IsPrefix(s, Append(t, e))
<1> DEFINE u == Append(t, e)
<1>1. u \in Seq(S) /\ Len(u) = Len(t) + 1 /\ \A i \in 1..Len(t) : u[i] = t[i]
  BY AppendProperties
<1> HIDE DEF u
<1>2. Len(t) <= Len(u)
  BY <1>1, Len(t) \in Nat
<1>3. IsPrefix(t, u)
  BY <1>1, <1>2 DEF IsPrefix
<1>4. IsPrefix(s, u)
  BY Zenon, <1>1, <1>3, PrefixTransitive
<1> QED BY <1>4 DEF u

\* What a prefix contains, the whole contains.
LEMMA PrefixContains ==
  ASSUME NEW S, NEW s \in Seq(S), NEW t \in Seq(S), IsPrefix(s, t)
  PROVE  Range(s) \subseteq Range(t)
<1>1. Len(s) \in Nat /\ Len(t) \in Nat /\ DOMAIN s = 1..Len(s) /\ DOMAIN t = 1..Len(t)
  OBVIOUS
<1>2. Len(s) <= Len(t) /\ \A i \in 1..Len(s) : s[i] = t[i]
  BY DEF IsPrefix
<1> QED BY <1>1, <1>2 DEF Range

\* An appended ledger has one fact more.
LEMMA AppendContains ==
  ASSUME NEW S, NEW s \in Seq(S), NEW e \in S
  PROVE  Range(Append(s, e)) = Range(s) \cup {e}
<1>1. /\ Append(s, e) \in Seq(S) /\ Len(Append(s, e)) = Len(s) + 1
      /\ \A i \in 1..Len(s) : Append(s, e)[i] = s[i]
      /\ Append(s, e)[Len(s) + 1] = e
  BY AppendProperties
<1>2. /\ Len(s) \in Nat /\ DOMAIN s = 1..Len(s)
      /\ DOMAIN Append(s, e) = 1..(Len(s) + 1)
  BY <1>1
<1>3. 1..(Len(s) + 1) = (1..Len(s)) \cup {Len(s) + 1}
  BY <1>2
<1> QED BY <1>1, <1>2, <1>3 DEF Range

\* A ledger rolled back to n facts has no other fact.
LEMMA SubSeqContains ==
  ASSUME NEW S, NEW s \in Seq(S), NEW n \in 0..Len(s)
  PROVE  SubSeq(s, 1, n) \in Seq(S) /\ Range(SubSeq(s, 1, n)) \subseteq Range(s)
<1>1. Len(s) \in Nat /\ n \in Int /\ DOMAIN s = 1..Len(s) /\ \A i \in 1..n : s[i] \in S
  OBVIOUS
<1>2. /\ SubSeq(s, 1, n) \in Seq(S)
      /\ Len(SubSeq(s, 1, n)) = n
      /\ \A i \in 1..n : SubSeq(s, 1, n)[i] = s[i]
  BY <1>1, SubSeqProperties
<1>3. DOMAIN SubSeq(s, 1, n) = 1..n
  BY <1>2
<1> QED BY <1>1, <1>2, <1>3 DEF Range

----------------------------------------------------------------------------
(* Types.                                                                   *)

\* _apply_ledger_entry ends the run or changes one file of its key, never to "torn".
LEMMA ApplyOneFile ==
  ASSUME NEW k \in Keys, Apply(k)
  PROVE  \/ provider' = provider /\ broker' = NoBroker
         \/ /\ broker' = broker
            /\ \/ provider' = [provider EXCEPT !.material[k] = "none"]
               \/ provider' = [provider EXCEPT !.tomb[k] = "file"]
               \/ provider' = [provider EXCEPT !.active[k] = "none"]
BY Zenon DEF Apply, Abort

\* Whoever works on a key has one: the broker one it was asked for.
Keyed ==
  /\ worker.pc \in Working => worker.key \in Keys
  /\ broker.pc \in Destroying \cup {"answer"} => broker.key \in broker.todo

\* An attempt below the bound may be counted.
LEMMA NextAttempt ==
  ASSUME NEW n \in 0..MaxAttempts, n < MaxAttempts
  PROVE  n + 1 \in 0..MaxAttempts
BY KeysAssumption

\* A crash stays within the bound on crashes.
LEMMA CrashCounted ==
  ASSUME crashes \in 0..MaxCrashes, Dies
  PROVE  crashes' \in 0..MaxCrashes
BY KeysAssumption DEF Dies

\* Every step keeps the shapes.
LEMMA TypeStep ==
  TypeOK /\ Keyed /\ [Next]_vars => TypeOK'
<1> SUFFICES ASSUME TypeOK, Keyed, [Next]_vars PROVE TypeOK'
  OBVIOUS
<1> USE DEF TypeOK, facts, processes, bounds
<1>a1. CASE ApiStart BY <1>a1 DEF ApiStart
<1>a2. CASE ApiStop BY Zenon, <1>a2 DEF ApiStop
<1>a3. ASSUME NEW k \in Keys, Provision(k) PROVE TypeOK'
  <2>1. provider' \in KeyFiles
    BY Zenon, <1>a3 DEF Provision, KeyFiles, Files
  <2>2. db' \in [Keys -> DbStates]
    BY Zenon, <1>a3 DEF Provision, DbStates
  <2> QED BY Zenon, <1>a3, <2>1, <2>2 DEF Provision
<1>a4. ASSUME NEW k \in Keys, ProvisionDies(k) PROVE TypeOK'
  <2>1. provider' \in KeyFiles
    <3> DEFINE recorded == [provider EXCEPT !.active[k] = "file"]
    <3>1. recorded \in KeyFiles
      BY Zenon DEF KeyFiles, Files
    <3>2. [provider EXCEPT !.active[k] = "torn"] \in KeyFiles
      BY Zenon DEF KeyFiles, Files
    <3> HIDE DEF recorded
    <3>3. [recorded EXCEPT !.material[k] = "torn"] \in KeyFiles
      BY Zenon, <3>1 DEF KeyFiles, Files
    <3>4. provider' \in {recorded, [provider EXCEPT !.active[k] = "torn"],
                         [recorded EXCEPT !.material[k] = "torn"]}
      BY <1>a4 DEF ProvisionDies, HalfProvisioned, recorded
    <3> QED BY Zenon, <3>1, <3>2, <3>3, <3>4
  <2>2. api' \in [up: BOOLEAN, cred: Seq(Keys)]
    BY Zenon, <1>a4 DEF ProvisionDies
  <2>3. crashes' \in 0..MaxCrashes
    BY Zenon, <1>a4, CrashCounted DEF ProvisionDies
  <2> QED BY Zenon, <1>a4, <2>1, <2>2, <2>3 DEF ProvisionDies
<1>a5. ASSUME NEW k \in Keys, Forget(k) PROVE TypeOK'
  BY Zenon, <1>a5 DEF Forget, DbStates
<1>w1. CASE WorkerStart BY Zenon, <1>w1 DEF WorkerStart, Workers
<1>w2. CASE WorkerStop BY Zenon, <1>w2 DEF WorkerStop, Workers
<1>w3. ASSUME NEW k \in Keys, WorkerClaim(k) PROVE TypeOK'
  <2>1. worker' \in Workers
    BY Zenon, <1>w3 DEF WorkerClaim, Workers, Working
  <2>2. attempts' \in [Keys -> 0..MaxAttempts]
    BY Zenon, <1>w3, NextAttempt DEF WorkerClaim
  <2> QED BY Zenon, <1>w3, <2>1, <2>2 DEF WorkerClaim
<1>w4. CASE WorkerPublish BY Zenon, <1>w4 DEF WorkerPublish, Workers, Working
<1>w5. CASE WorkerPublished
  <2>1. worker' \in Workers
    BY Zenon, <1>w5 DEF WorkerPublished, Workers, Working
  <2>2. requests' \in [Keys -> Files]
    BY Zenon, <1>w5 DEF WorkerPublished, Files
  <2> QED BY Zenon, <1>w5, <2>1, <2>2 DEF WorkerPublished
<1>w6. CASE WorkerComplete
  <2>1. worker' \in Workers
    BY Zenon, <1>w6 DEF WorkerComplete, Workers, Working
  <2>2. db' \in [Keys -> DbStates]
    BY Zenon, <1>w6 DEF WorkerComplete, DbStates
  <2> QED BY Zenon, <1>w6, <2>1, <2>2 DEF WorkerComplete
<1>w7. CASE WorkerFail BY Zenon, <1>w7 DEF WorkerFail, Workers
<1>w8. CASE WorkerDies
  <2>1. worker' \in Workers
    BY Zenon, <1>w8 DEF WorkerDies, Workers
  <2>2. requests' \in [Keys -> Files] /\ stray' \subseteq {"ledger", "requests"}
    BY ZenonT(60), <1>w8 DEF WorkerDies, Files
  <2>3. crashes' \in 0..MaxCrashes
    BY Zenon, <1>w8, CrashCounted DEF WorkerDies
  <2> QED BY Zenon, <1>w8, <2>1, <2>2, <2>3 DEF WorkerDies
<1>n. NoBroker \in Brokers BY DEF NoBroker, Brokers
<1>k. broker.pc \in Destroying \cup {"answer"} => broker.key \in Keys
  BY DEF Keyed, Brokers
<1>b1. CASE BrokerStart BY Zenon, <1>b1, <1>n DEF BrokerStart, Requested, Brokers
<1>b2. CASE BrokerRecover
  <2>1. broker' \in Brokers
    BY ZenonT(60), <1>b2, <1>n DEF BrokerRecover, BrokerStep, Abort, Brokers
  <2> QED BY Zenon, <1>b2, <2>1 DEF BrokerRecover
<1>b3. CASE BrokerApply
  <2>1. PICK i \in Unapplied : Apply(ledger[i])
    BY <1>b3 DEF BrokerApply
  <2>2. ledger[i] \in Keys
    BY <2>1 DEF Unapplied
  <2>3. broker' \in Brokers
    BY Zenon, <1>n, <2>1, <2>2, ApplyOneFile
  <2>4. /\ [provider EXCEPT !.material[ledger[i]] = "none"] \in KeyFiles
        /\ [provider EXCEPT !.tomb[ledger[i]] = "file"] \in KeyFiles
        /\ [provider EXCEPT !.active[ledger[i]] = "none"] \in KeyFiles
    BY Zenon, <2>2 DEF KeyFiles, Files
  <2>5. provider' \in KeyFiles
    BY Zenon, <2>1, <2>2, <2>4, ApplyOneFile
  <2> QED BY Zenon, <1>b3, <2>3, <2>5 DEF BrokerApply
<1>b4. CASE BrokerValidate
  <2>1. broker' \in Brokers
    <3>1. Lowest(broker.todo, MaxWork) \in SUBSET Keys
      BY DEF Lowest, Brokers
    <3>2. broker' \in {NoBroker, [broker EXCEPT !.pc = "work", !.todo = Lowest(@, MaxWork)]}
      BY <1>b4 DEF BrokerValidate, Abort
    <3> QED BY Zenon, <1>n, <3>1, <3>2 DEF Brokers
  <2> QED BY Zenon, <1>b4, <2>1 DEF BrokerValidate
<1>b5. CASE BrokerTake
  <2>1. broker' \in Brokers
    <3>1. PICK k \in broker.todo :
            broker' \in {NoBroker, [broker EXCEPT !.pc = "answer", !.key = k],
                         [broker EXCEPT !.pc = "record", !.key = k]}
      BY Zenon, <1>b5 DEF BrokerTake, Abort
    <3>2. k \in Keys
      BY DEF Brokers
    <3> QED BY ZenonT(60), <1>n, <3>1, <3>2 DEF Brokers, Destroying
  <2> QED BY Zenon, <1>b5, <2>1 DEF BrokerTake
<1>b6. CASE BrokerRecord
  <2>1. broker' \in Brokers
    BY Zenon, <1>b6 DEF BrokerRecord, BrokerStep, Brokers, Destroying
  <2>2. ledger' \in Seq(Keys)
    BY <1>b6, <1>k DEF BrokerRecord, Destroying
  <2> QED BY Zenon, <1>b6, <2>1, <2>2 DEF BrokerRecord
<1>b7. CASE BrokerAnchor
  <2>1. broker' \in Brokers
    BY Zenon, <1>b7 DEF BrokerAnchor, BrokerStep, Brokers, Destroying
  <2> QED BY Zenon, <1>b7, <2>1 DEF BrokerAnchor
<1>b8. CASE BrokerTomb
  <2>1. broker' \in Brokers
    BY Zenon, <1>b8 DEF BrokerTomb, BrokerStep, Brokers, Destroying
  <2>2. provider' \in KeyFiles
    BY Zenon, <1>b8 DEF BrokerTomb, KeyFiles, Files
  <2> QED BY Zenon, <1>b8, <2>1, <2>2 DEF BrokerTomb
<1>b9. CASE BrokerUnlink
  <2>1. broker' \in Brokers
    BY Zenon, <1>b9 DEF BrokerUnlink, BrokerStep, Brokers, Destroying
  <2>2. provider' \in KeyFiles
    BY Zenon, <1>b9 DEF BrokerUnlink, KeyFiles, Files
  <2> QED BY Zenon, <1>b9, <2>1, <2>2 DEF BrokerUnlink
<1>b10. CASE BrokerFinish
  <2>1. broker' \in Brokers
    BY Zenon, <1>b10 DEF BrokerFinish, BrokerStep, Brokers, Destroying
  <2>2. provider' \in KeyFiles
    BY Zenon, <1>b10 DEF BrokerFinish, KeyFiles, Files
  <2> QED BY Zenon, <1>b10, <2>1, <2>2 DEF BrokerFinish
<1>b11. CASE BrokerAnswer
  <2>1. broker' \in Brokers
    <3>1. broker.todo \ {broker.key} \in SUBSET Keys
      BY DEF Brokers
    <3>2. broker' \in {NoBroker, [broker EXCEPT !.pc = "work", !.todo = @ \ {broker.key}]}
      BY <1>b11 DEF BrokerAnswer, Abort
    <3> QED BY Zenon, <1>n, <3>1, <3>2 DEF Brokers
  <2>2. requests' \in [Keys -> Files]
    BY Zenon, <1>b11 DEF BrokerAnswer, Files
  <2> QED BY Zenon, <1>b11, <2>1, <2>2 DEF BrokerAnswer
<1>b12. CASE BrokerDone BY Zenon, <1>b12, <1>n DEF BrokerDone, Abort
<1>b13. CASE BrokerDies
  <2>1. provider' \in KeyFiles
    <3>1. CASE UNCHANGED provider BY Zenon, <3>1
    <3>2. CASE TornTomb
      <4>1. PICK k \in Facts : provider' = [provider EXCEPT !.tomb[k] = "torn"]
        BY Zenon, <3>2 DEF TornTomb
      <4>2. k \in Keys
        BY DEF Facts, Range
      <4> QED BY Zenon, <4>1, <4>2 DEF KeyFiles, Files
    <3> QED BY Zenon, <1>b13, <3>1, <3>2 DEF BrokerDies, TornLedger
  <2>2. ledger' \in Seq(Keys) /\ stray' \subseteq {"ledger", "requests"}
    <3>1. CASE UNCHANGED <<stray, ledger>> BY Zenon, <3>1
    <3>2. CASE TornLedger
      <4>1. broker.key \in Keys
        BY <1>k, <3>2 DEF TornLedger, Destroying
      <4>2. Append(ledger, broker.key) \in Seq(Keys)
        BY <4>1
      <4> QED BY Zenon, <3>2, <4>2 DEF TornLedger
    <3> QED BY <1>b13, <3>1, <3>2 DEF BrokerDies, TornTomb
  <2>3. crashes' \in 0..MaxCrashes
    BY Zenon, <1>b13, CrashCounted DEF BrokerDies
  <2> QED BY Zenon, <1>b13, <1>n, <2>1, <2>2, <2>3 DEF BrokerDies, Abort
<1>o1. CASE AcceptAnchor BY Zenon, <1>o1 DEF AcceptAnchor
<1>o2. CASE BackUp BY Zenon, <1>o2 DEF BackUp
<1>o3. CASE RestoreProvider BY <1>o3, KeysAssumption DEF RestoreProvider
<1>o4. CASE RollBackLedger
  <2>1. PICK n \in 0..Len(anchor) : ledger' = SubSeq(anchor, 1, n) /\ anchor' = ledger'
    BY Zenon, <1>o4 DEF RollBackLedger
  <2>2. ledger' \in Seq(Keys)
    BY Zenon, <2>1, SubSeqContains
  <2>3. restores' \in 0..MaxRestores /\ stray' \subseteq {"ledger", "requests"}
    BY <1>o4, KeysAssumption DEF RollBackLedger
  <2> QED BY Zenon, <1>o4, <2>1, <2>2, <2>3 DEF RollBackLedger
<1>o5. CASE RestoreReconcile BY Zenon, <1>o5, <1>n DEF RestoreReconcile, Brokers
<1>u. CASE UNCHANGED vars BY Zenon, <1>u DEF vars
<1> QED
  BY ZenonT(60), <1>a1, <1>a2, <1>a3, <1>a4, <1>a5, <1>w1, <1>w2, <1>w3, <1>w4, <1>w5, <1>w6, <1>w7,
     <1>w8, <1>b1, <1>b2, <1>b3, <1>b4, <1>b5, <1>b6, <1>b7, <1>b8, <1>b9, <1>b10, <1>b11,
     <1>b12, <1>b13, <1>o1, <1>o2, <1>o3, <1>o4, <1>o5, <1>u
  DEF Next, Api, WorkerRuns, BrokerRuns, Operator

\* The fields of a process after an assignment to some of them.
LEMMA BrokerFields ==
  ASSUME NEW b \in Brokers, NEW x, NEW y
  PROVE  /\ [b EXCEPT !.pc = x].pc = x
         /\ [b EXCEPT !.pc = x].todo = b.todo
         /\ [b EXCEPT !.pc = x].key = b.key
         /\ [b EXCEPT !.pc = x].cred = b.cred
         /\ [b EXCEPT !.pc = x, !.todo = y].pc = x
         /\ [b EXCEPT !.pc = x, !.todo = y].todo = y
         /\ [b EXCEPT !.pc = x, !.todo = y].key = b.key
         /\ [b EXCEPT !.pc = x, !.todo = y].cred = b.cred
         /\ [b EXCEPT !.pc = x, !.key = y].pc = x
         /\ [b EXCEPT !.pc = x, !.key = y].todo = b.todo
         /\ [b EXCEPT !.pc = x, !.key = y].key = y
         /\ [b EXCEPT !.pc = x, !.key = y].cred = b.cred
BY DEF Brokers

\* A broker that ended works on nothing.
LEMMA IdleFields == NoBroker.pc = "idle" /\ NoBroker.todo = {}
BY DEF NoBroker

\* How each step of the broker moves it: what the other invariants need of its record.
LEMMA BrokerMoves ==
  ASSUME broker \in Brokers
  PROVE  /\ BrokerRecover => \/ broker' = NoBroker
                             \/ /\ broker'.pc = "apply" /\ broker'.todo = broker.todo
                                /\ broker'.cred = broker.cred
         /\ BrokerApply => broker' = broker \/ broker' = NoBroker
         /\ BrokerValidate => \/ broker' = NoBroker
                              \/ /\ broker'.pc = "work" /\ broker'.todo \subseteq broker.todo
                                 /\ broker'.cred = broker.cred
         /\ BrokerTake => \/ broker' = NoBroker
                          \/ /\ broker'.pc \in {"answer", "record"} /\ broker'.todo = broker.todo
                             /\ broker'.key \in broker.todo /\ broker'.cred = broker.cred
         /\ \A pc : BrokerStep(pc) => /\ broker'.pc = pc /\ broker'.todo = broker.todo
                                      /\ broker'.key = broker.key /\ broker'.cred = broker.cred
         /\ BrokerAnswer => \/ broker' = NoBroker
                            \/ /\ broker'.pc = "work" /\ broker'.todo = broker.todo \ {broker.key}
                               /\ broker'.cred = broker.cred
<1>1. \A pc : BrokerStep(pc) => /\ broker'.pc = pc /\ broker'.todo = broker.todo
                               /\ broker'.key = broker.key /\ broker'.cred = broker.cred
  BY BrokerFields DEF BrokerStep
<1>2. ASSUME BrokerRecover
      PROVE  \/ broker' = NoBroker
             \/ broker'.pc = "apply" /\ broker'.todo = broker.todo /\ broker'.cred = broker.cred
  BY <1>1, <1>2 DEF BrokerRecover, Abort
<1>3. ASSUME BrokerApply PROVE broker' = broker \/ broker' = NoBroker
  BY <1>3 DEF BrokerApply, Apply, Abort
<1>4. ASSUME BrokerValidate
      PROVE  \/ broker' = NoBroker
             \/ /\ broker'.pc = "work" /\ broker'.todo \subseteq broker.todo
                /\ broker'.cred = broker.cred
  <2>1. broker' = NoBroker \/ broker' = [broker EXCEPT !.pc = "work", !.todo = Lowest(@, MaxWork)]
    BY Zenon, <1>4 DEF BrokerValidate, Abort
  <2>2. Lowest(broker.todo, MaxWork) \subseteq broker.todo
    BY DEF Lowest
  <2>3. CASE broker' = [broker EXCEPT !.pc = "work", !.todo = Lowest(@, MaxWork)]
    BY Zenon, <2>2, <2>3 DEF Brokers
  <2> QED BY <2>1, <2>3
<1>5. ASSUME BrokerTake
      PROVE  \/ broker' = NoBroker
             \/ /\ broker'.pc \in {"answer", "record"} /\ broker'.todo = broker.todo
                /\ broker'.key \in broker.todo /\ broker'.cred = broker.cred
  <2>1. PICK k \in broker.todo :
          \/ broker' = NoBroker
          \/ broker' = [broker EXCEPT !.pc = "answer", !.key = k]
          \/ broker' = [broker EXCEPT !.pc = "record", !.key = k]
    BY Zenon, <1>5 DEF BrokerTake, Abort
  <2>2. CASE broker' = [broker EXCEPT !.pc = "answer", !.key = k]
    BY Zenon, <2>2 DEF Brokers
  <2>3. CASE broker' = [broker EXCEPT !.pc = "record", !.key = k]
    BY Zenon, <2>3 DEF Brokers
  <2> QED BY Zenon, <2>1, <2>2, <2>3
<1>6. ASSUME BrokerAnswer
      PROVE  \/ broker' = NoBroker
             \/ /\ broker'.pc = "work" /\ broker'.todo = broker.todo \ {broker.key}
                /\ broker'.cred = broker.cred
  <2>1. \/ broker' = NoBroker
        \/ broker' = [broker EXCEPT !.pc = "work", !.todo = @ \ {broker.key}]
    BY Zenon, <1>6 DEF BrokerAnswer, Abort
  <2>2. CASE broker' = [broker EXCEPT !.pc = "work", !.todo = @ \ {broker.key}]
    BY Zenon, <2>2 DEF Brokers
  <2> QED BY Zenon, <2>1, <2>2
<1> QED BY <1>1, <1>2, <1>3, <1>4, <1>5, <1>6

\* Only a claim, a start and a taken request bring a process to a new key.
LEMMA KeyedStep ==
  TypeOK /\ Keyed /\ [Next]_vars => Keyed'
<1> SUFFICES ASSUME TypeOK, Keyed, [Next]_vars PROVE Keyed'
  OBVIOUS
<1>1. worker \in Workers /\ broker \in Brokers
  BY Zenon DEF TypeOK
<1> USE DEF Keyed, Working, Destroying, processes
<1>a1. CASE ApiStart BY <1>a1 DEF ApiStart
<1>a2. CASE ApiStop BY Zenon, <1>a2 DEF ApiStop
<1>a3. ASSUME NEW k \in Keys, Provision(k) PROVE Keyed' BY Zenon, <1>a3 DEF Provision
<1>a4. ASSUME NEW k \in Keys, ProvisionDies(k) PROVE Keyed' BY Zenon, <1>a4 DEF ProvisionDies
<1>a5. ASSUME NEW k \in Keys, Forget(k) PROVE Keyed' BY Zenon, <1>a5 DEF Forget
<1>w1. CASE WorkerStart BY Zenon, <1>w1 DEF WorkerStart
<1>w2. CASE WorkerStop BY Zenon, <1>1, <1>w2 DEF WorkerStop, Workers
<1>w3. ASSUME NEW k \in Keys, WorkerClaim(k) PROVE Keyed' BY Zenon, <1>1, <1>w3 DEF WorkerClaim, Workers
<1>w4. CASE WorkerPublish BY Zenon, <1>1, <1>w4 DEF WorkerPublish, Workers
<1>w5. CASE WorkerPublished BY Zenon, <1>1, <1>w5 DEF WorkerPublished, Workers
<1>w6. CASE WorkerComplete BY Zenon, <1>1, <1>w6 DEF WorkerComplete, Workers
<1>w7. CASE WorkerFail BY Zenon, <1>1, <1>w7 DEF WorkerFail, Workers
<1>w8. CASE WorkerDies BY Zenon, <1>1, <1>w8 DEF WorkerDies, Workers
<1>b1. CASE BrokerStart BY Zenon, <1>b1 DEF BrokerStart, NoBroker
<1>b2. CASE BrokerRecover BY Zenon, <1>1, <1>b2, BrokerMoves, IdleFields DEF BrokerRecover
<1>b3. CASE BrokerApply BY Zenon, <1>1, <1>b3, BrokerMoves, IdleFields DEF BrokerApply
<1>b4. CASE BrokerValidate BY Zenon, <1>1, <1>b4, BrokerMoves, IdleFields DEF BrokerValidate
<1>b5. CASE BrokerTake BY Zenon, <1>1, <1>b5, BrokerMoves, IdleFields DEF BrokerTake
<1>b6. CASE BrokerRecord BY Zenon, <1>1, <1>b6, BrokerMoves DEF BrokerRecord
<1>b7. CASE BrokerAnchor BY Zenon, <1>1, <1>b7, BrokerMoves DEF BrokerAnchor
<1>b8. CASE BrokerTomb BY Zenon, <1>1, <1>b8, BrokerMoves DEF BrokerTomb
<1>b9. CASE BrokerUnlink BY Zenon, <1>1, <1>b9, BrokerMoves DEF BrokerUnlink
<1>b10. CASE BrokerFinish BY Zenon, <1>1, <1>b10, BrokerMoves DEF BrokerFinish
<1>b11. CASE BrokerAnswer BY Zenon, <1>1, <1>b11, BrokerMoves, IdleFields DEF BrokerAnswer
<1>b12. CASE BrokerDone BY Zenon, <1>b12, IdleFields DEF BrokerDone, Abort
<1>b13. CASE BrokerDies BY Zenon, <1>b13, IdleFields DEF BrokerDies, Abort
<1>o1. CASE AcceptAnchor BY Zenon, <1>o1 DEF AcceptAnchor
<1>o2. CASE BackUp BY Zenon, <1>o2 DEF BackUp
<1>o3. CASE RestoreProvider BY Zenon, <1>o3 DEF RestoreProvider
<1>o4. CASE RollBackLedger BY Zenon, <1>o4 DEF RollBackLedger
<1>o5. CASE RestoreReconcile BY Zenon, <1>o5 DEF RestoreReconcile, NoBroker
<1>u. CASE UNCHANGED vars BY Zenon, <1>u DEF vars
<1> QED
  BY ZenonT(60), <1>a1, <1>a2, <1>a3, <1>a4, <1>a5, <1>w1, <1>w2, <1>w3, <1>w4, <1>w5, <1>w6, <1>w7,
     <1>w8, <1>b1, <1>b2, <1>b3, <1>b4, <1>b5, <1>b6, <1>b7, <1>b8, <1>b9, <1>b10, <1>b11,
     <1>b12, <1>b13, <1>o1, <1>o2, <1>o3, <1>o4, <1>o5, <1>u
  DEF Next, Api, WorkerRuns, BrokerRuns, Operator

\* Types and keys hold together.
LEMMA AlwaysTyped == Spec => [](TypeOK /\ Keyed)
<1>1. Init => TypeOK /\ Keyed
  BY KeysAssumption
  DEF Init, TypeOK, Keyed, NoKeys, NoFiles, NoBroker, KeyFiles, Files, DbStates, Workers, Brokers,
      Working, Destroying
<1>2. TypeOK /\ Keyed /\ [Next]_vars => (TypeOK /\ Keyed)'
  BY Zenon, TypeStep, KeyedStep
<1> QED BY <1>1, <1>2, PTL DEF Spec

\* The files, the facts and the processes keep the shapes the code gives them, the
\* attempts of a purge job within max_attempts.
THEOREM TypeCorrect == Spec => []TypeOK
BY AlwaysTyped, PTL
----------------------------------------------------------------------------
(* Custody.                                                                 *)

\* Who has checked the ledger against the accepted anchor keeps it checked, and the
\* worker's own anchor is one the operator once accepted.
Vouched ==
  /\ api.up \/ worker.pc # "down" \/ broker.pc \notin {"idle", "listed"} =>
       IsPrefix(custody, ledger)
  /\ broker.pc = "listed" => broker.cred = custody \/ IsPrefix(custody, ledger)
  /\ worker.pc # "down" => IsPrefix(worker.cred, custody)

CustodyInv == Vouched /\ ErasedIsAccepted

\* Steps that leave the three anchors, the table and everyone's standing alone, or
\* only give standing up.
LEMMA CustodyUntouched ==
  ASSUME CustodyInv, UNCHANGED <<custody, ledger, db>>,
         api'.up => api.up,
         worker'.pc # "down" => worker.pc # "down" /\ worker'.cred = worker.cred,
         \/ broker'.pc = "idle"
         \/ broker'.pc = broker.pc /\ broker'.cred = broker.cred
         \/ broker.pc \notin {"idle", "listed"} /\ broker'.pc \notin {"idle", "listed"}
  PROVE  CustodyInv'
BY Zenon DEF CustodyInv, Vouched, ErasedIsAccepted

\* The ledger grows under the broker.
LEMMA CustodyGrows ==
  ASSUME TypeOK, Keyed, CustodyInv, UNCHANGED <<custody, db, api, worker>>,
         broker.pc = "record", ledger' = Append(ledger, broker.key)
  PROVE  CustodyInv'
<1>1. broker.key \in Keys /\ ledger \in Seq(Keys) /\ custody \in Seq(Keys)
  BY Zenon DEF TypeOK, Keyed, Brokers, Destroying
<1>2. IsPrefix(custody, ledger)
  BY Zenon DEF CustodyInv, Vouched
<1>3. IsPrefix(custody', ledger')
  BY Zenon, <1>1, <1>2, PrefixAppend
<1> QED BY Zenon, <1>3 DEF CustodyInv, Vouched, ErasedIsAccepted

\* Every step keeps the operator's anchor vouched for.
LEMMA CustodyStep ==
  TypeOK /\ Keyed /\ CustodyInv /\ [Next]_vars => CustodyInv'
<1> SUFFICES ASSUME TypeOK, Keyed, CustodyInv, [Next]_vars PROVE CustodyInv'
  BY Zenon
<1>1. /\ worker \in Workers /\ broker \in Brokers
      /\ ledger \in Seq(Keys) /\ anchor \in Seq(Keys) /\ custody \in Seq(Keys)
  BY Zenon DEF TypeOK
<1> USE DEF facts, processes
<1>a1. CASE ApiStart BY Zenon, <1>a1 DEF ApiStart, Trusted, CustodyInv, Vouched, ErasedIsAccepted
<1>a2. CASE ApiStop BY Zenon, <1>a2, CustodyUntouched DEF ApiStop, TypeOK
<1>a3. ASSUME NEW k \in Keys, Provision(k) PROVE CustodyInv'
  <2>1. ErasedIsAccepted'
    BY ZenonT(60), <1>a3 DEF Provision, CustodyInv, ErasedIsAccepted, TypeOK
  <2> QED BY Zenon, <1>a3, <2>1 DEF Provision, CustodyInv, Vouched
<1>a4. ASSUME NEW k \in Keys, ProvisionDies(k) PROVE CustodyInv'
  BY Zenon, <1>a4, CustodyUntouched DEF ProvisionDies, TypeOK
<1>a5. ASSUME NEW k \in Keys, Forget(k) PROVE CustodyInv'
  <2>1. ErasedIsAccepted'
    BY Zenon, <1>a5 DEF Forget, CustodyInv, ErasedIsAccepted, TypeOK
  <2> QED BY Zenon, <1>a5, <2>1 DEF Forget, CustodyInv, Vouched
<1>w1. CASE WorkerStart
  <2>1. IsPrefix(custody, ledger) /\ IsPrefix(custody, custody)
    BY Zenon, <1>1, <1>w1, PrefixReflexive DEF WorkerStart, Trusted
  <2> QED BY Zenon, <1>w1, <2>1 DEF WorkerStart, CustodyInv, Vouched, ErasedIsAccepted
<1>w2. CASE WorkerStop BY Zenon, <1>1, <1>w2, CustodyUntouched DEF WorkerStop, Workers
<1>w3. ASSUME NEW k \in Keys, WorkerClaim(k) PROVE CustodyInv'
  <2>1. worker'.cred = worker.cred /\ worker.pc = "idle"
    BY Zenon, <1>1, <1>w3 DEF WorkerClaim, Workers
  <2> QED BY Zenon, <1>w3, <2>1, CustodyUntouched DEF WorkerClaim
<1>w4. CASE WorkerPublish
  <2>1. worker'.cred = worker.cred /\ worker.pc = "called"
    BY Zenon, <1>1, <1>w4 DEF WorkerPublish, Workers
  <2> QED BY Zenon, <1>w4, <2>1, CustodyUntouched DEF WorkerPublish
<1>w5. CASE WorkerPublished
  <2>1. worker'.cred = worker.cred /\ worker.pc = "publish"
    BY Zenon, <1>1, <1>w5 DEF WorkerPublished, Workers
  <2> QED BY Zenon, <1>w5, <2>1, CustodyUntouched DEF WorkerPublished
<1>w6. CASE WorkerComplete
  <2>1. worker'.cred = worker.cred /\ worker.pc # "down"
    BY Zenon, <1>1, <1>w6 DEF WorkerComplete, Workers
  <2>2. ledger = worker.cred /\ worker.key \in Range(ledger)
    BY Zenon, <1>w6 DEF WorkerComplete, Acknowledged, Facts
  <2>3. worker.key \in Range(custody)
    BY Zenon, <1>1, <2>1, <2>2, PrefixContains DEF CustodyInv, Vouched
  <2>4. ErasedIsAccepted'
    BY Zenon, <1>w6, <2>3 DEF WorkerComplete, CustodyInv, ErasedIsAccepted, TypeOK
  <2> QED BY Zenon, <1>w6, <2>1, <2>4 DEF WorkerComplete, CustodyInv, Vouched
<1>w7. CASE WorkerFail
  <2>1. worker'.cred = worker.cred /\ worker.pc # "down"
    BY Zenon, <1>1, <1>w7 DEF WorkerFail, Workers
  <2> QED BY <1>w7, <2>1, CustodyUntouched DEF WorkerFail
<1>w8. CASE WorkerDies BY Zenon, <1>1, <1>w8, CustodyUntouched DEF WorkerDies, Workers
<1>b1. CASE BrokerStart BY Zenon, <1>b1 DEF BrokerStart, NoBroker, CustodyInv, Vouched, ErasedIsAccepted
<1>b2. CASE BrokerRecover
  <2>1. CASE broker' = NoBroker
    BY Zenon, <1>b2, <2>1, IdleFields, CustodyUntouched DEF BrokerRecover
  <2>2. CASE broker' # NoBroker
    <3>1. IsPrefix(broker.cred, ledger) /\ broker.pc = "listed"
      BY Zenon, <1>b2, <2>2 DEF BrokerRecover, Abort
    <3>2. broker'.pc = "apply"
      BY Zenon, <1>1, <1>b2, <2>2, BrokerMoves
    <3> QED BY Zenon, <1>b2, <3>1, <3>2 DEF BrokerRecover, CustodyInv, Vouched, ErasedIsAccepted
  <2> QED BY Zenon, <2>1, <2>2
<1>b3. CASE BrokerApply
  BY Zenon, <1>1, <1>b3, BrokerMoves, IdleFields, CustodyUntouched DEF BrokerApply
<1>b4. CASE BrokerValidate
  <2>1. broker'.pc = "idle" \/ broker'.pc = "work"
    BY Zenon, <1>1, <1>b4, BrokerMoves, IdleFields
  <2>2. broker.pc = "apply" /\ UNCHANGED <<custody, ledger, db, api, worker>>
    BY Zenon, <1>b4 DEF BrokerValidate
  <2> QED BY Zenon, <2>1, <2>2, CustodyUntouched
<1>b5. CASE BrokerTake
  <2>1. broker'.pc \in {"idle", "answer", "record"}
    BY Zenon, <1>1, <1>b5, BrokerMoves, IdleFields
  <2>2. broker.pc = "work" /\ UNCHANGED <<custody, ledger, db, api, worker>>
    BY Zenon, <1>b5 DEF BrokerTake
  <2> QED BY Zenon, <2>1, <2>2, CustodyUntouched
<1>b6. CASE BrokerRecord BY Zenon, <1>b6, CustodyGrows DEF BrokerRecord
<1>b7. CASE BrokerAnchor BY Zenon, <1>1, <1>b7, BrokerMoves, CustodyUntouched DEF BrokerAnchor
<1>b8. CASE BrokerTomb BY Zenon, <1>1, <1>b8, BrokerMoves, CustodyUntouched DEF BrokerTomb
<1>b9. CASE BrokerUnlink BY Zenon, <1>1, <1>b9, BrokerMoves, CustodyUntouched DEF BrokerUnlink
<1>b10. CASE BrokerFinish BY Zenon, <1>1, <1>b10, BrokerMoves, CustodyUntouched DEF BrokerFinish
<1>b11. CASE BrokerAnswer
  <2>1. broker'.pc = "idle" \/ broker'.pc = "work"
    BY Zenon, <1>1, <1>b11, BrokerMoves, IdleFields
  <2>2. broker.pc = "answer" /\ UNCHANGED <<custody, ledger, db, api, worker>>
    BY Zenon, <1>b11 DEF BrokerAnswer
  <2> QED BY Zenon, <2>1, <2>2, CustodyUntouched
<1>b12. CASE BrokerDone BY Zenon, <1>b12, IdleFields, CustodyUntouched DEF BrokerDone, Abort
<1>b13. CASE BrokerDies
  <2>1. CASE UNCHANGED ledger
    BY Zenon, <1>b13, <2>1, IdleFields, CustodyUntouched DEF BrokerDies, Abort
  <2>2. CASE ~UNCHANGED ledger
    BY Zenon, <1>b13, <2>2, CustodyGrows DEF BrokerDies, TornLedger, TornTomb
  <2> QED BY Zenon, <2>1, <2>2
<1>o1. CASE AcceptAnchor
  <2>1. IsPrefix(custody, ledger) /\ anchor = ledger /\ custody' = ledger
    BY Zenon, <1>o1 DEF AcceptAnchor, Trusted
  <2>2. IsPrefix(custody', ledger') /\ Range(custody) \subseteq Range(custody')
    BY Zenon, <1>1, <1>o1, <2>1, PrefixReflexive, PrefixContains DEF AcceptAnchor
  <2>3. worker.pc # "down" => IsPrefix(worker.cred, custody')
    BY Zenon, <1>1, <2>1, PrefixTransitive DEF CustodyInv, Vouched, Workers
  <2> QED BY Zenon, <1>o1, <2>2, <2>3 DEF AcceptAnchor, CustodyInv, Vouched, ErasedIsAccepted
<1>o2. CASE BackUp BY Zenon, <1>o2, CustodyUntouched DEF BackUp
<1>o3. CASE RestoreProvider BY Zenon, <1>o3, CustodyUntouched DEF RestoreProvider
<1>o4. CASE RollBackLedger
  BY Zenon, <1>o4 DEF RollBackLedger, Stopped, CustodyInv, Vouched, ErasedIsAccepted
<1>o5. CASE RestoreReconcile
  BY Zenon, <1>o5 DEF RestoreReconcile, Trusted, NoBroker, CustodyInv, Vouched, ErasedIsAccepted
<1>u. CASE UNCHANGED vars BY Zenon, <1>u, CustodyUntouched DEF vars
<1> QED
  BY ZenonT(60), <1>a1, <1>a2, <1>a3, <1>a4, <1>a5, <1>w1, <1>w2, <1>w3, <1>w4, <1>w5, <1>w6, <1>w7,
     <1>w8, <1>b1, <1>b2, <1>b3, <1>b4, <1>b5, <1>b6, <1>b7, <1>b8, <1>b9, <1>b10, <1>b11,
     <1>b12, <1>b13, <1>o1, <1>o2, <1>o3, <1>o4, <1>o5, <1>u
  DEF Next, Api, WorkerRuns, BrokerRuns, Operator

\* Whoever runs was started under the operator's anchor, and erasures are accepted under it.
LEMMA AlwaysVouched == Spec => []CustodyInv
<1>1. Init => CustodyInv
  BY DEF Init, CustodyInv, Vouched, ErasedIsAccepted, NoBroker
<1>2. TypeOK /\ Keyed /\ CustodyInv /\ [Next]_vars => CustodyInv'
  BY CustodyStep
<1> QED BY <1>1, <1>2, AlwaysTyped, PTL DEF Spec

\* For any keys, deaths and restores: a purge completes only under the operator's own
\* anchor.
THEOREM Accepted == Spec => []ErasedIsAccepted
<1>1. CustodyInv => ErasedIsAccepted
  BY DEF CustodyInv
<1> QED BY <1>1, AlwaysVouched, PTL

\* For any keys, deaths and restores: an erased key is never returned again, because a
\* process that reads keys has checked that the ledger extends the accepted anchor.
THEOREM NoneResurrected == Spec => []NoResurrection
<1>1. TypeOK /\ CustodyInv => NoResurrection
  <2> SUFFICES ASSUME TypeOK, CustodyInv, NEW k \in Keys, db[k] = "erased"
               PROVE  /\ api.up => ~GetKey(k, api.cred)
                      /\ ~GetKey(k, custody)
    BY Zenon DEF NoResurrection
  <2>1. k \in Range(custody) /\ custody \in Seq(Keys) /\ ledger \in Seq(Keys)
    BY Zenon DEF TypeOK, CustodyInv, ErasedIsAccepted
  <2>2. IsPrefix(custody, ledger) => k \in Facts
    BY Zenon, <2>1, PrefixContains DEF Facts
  <2> QED BY Zenon, <2>2 DEF GetKey, Trusted, CustodyInv, Vouched
<1> QED BY <1>1, AlwaysVouched, TypeCorrect, PTL
----------------------------------------------------------------------------
(* Requests, facts and the interrupted append.                              *)

\* The broker works on requests that are still there, and anchor and ledger differ
\* only from the append until the anchor is replaced or recovery adopts the fact.
AppendInv ==
  /\ broker.todo \subseteq Requested
  /\ broker.pc \in {"apply", "work", "record", "tomb", "unlink", "finish", "answer"} =>
       anchor = ledger
  /\ broker.pc = "anchor" => ledger = Append(anchor, broker.key)
  /\ anchor # ledger => \E k \in Requested : ledger = Append(anchor, k)

\* Steps that leave the ledger and its anchor alone and lose no request: the broker
\* stays where it is, goes on while they agree, or ends.
LEMMA AppendUntouched ==
  ASSUME AppendInv, UNCHANGED <<ledger, anchor>>, Requested \subseteq Requested',
         \/ broker' = broker
         \/ broker' = NoBroker
         \/ /\ broker'.todo \subseteq broker.todo /\ anchor = ledger
            /\ broker'.pc # "anchor"
  PROVE  AppendInv'
BY Zenon, IdleFields DEF AppendInv

\* A ledger ahead of its anchor by a requested fact.
LEMMA AppendShows ==
  TypeOK /\ AppendInv => PendingIsAuthorized
<1> SUFFICES ASSUME TypeOK, AppendInv, anchor # ledger
             PROVE  /\ Len(ledger) = Len(anchor) + 1
                    /\ IsPrefix(anchor, ledger)
                    /\ requests[NewestFact] # "none"
  BY Zenon DEF PendingIsAuthorized
<1>1. PICK k \in Requested : ledger = Append(anchor, k)
  BY Zenon DEF AppendInv
<1>2. k \in Keys /\ anchor \in Seq(Keys) /\ requests[k] # "none"
  BY Zenon DEF TypeOK, Requested
<1>3. Len(Append(anchor, k)) = Len(anchor) + 1 /\ Append(anchor, k)[Len(anchor) + 1] = k
  BY ZenonT(60), <1>2, AppendProperties
<1>4. IsPrefix(anchor, Append(anchor, k))
  BY Zenon, <1>2, PrefixReflexive, PrefixAppend
<1>5. ledger[Len(ledger)] = k
  BY Zenon, <1>1, <1>3
<1> QED BY Zenon, <1>1, <1>2, <1>3, <1>4, <1>5 DEF NewestFact

\* Every step keeps anchor and ledger together but for one append under way.
LEMMA AppendStep ==
  TypeOK /\ Keyed /\ AppendInv /\ [Next]_vars => AppendInv'
<1> SUFFICES ASSUME TypeOK, Keyed, AppendInv, [Next]_vars PROVE AppendInv'
  OBVIOUS
<1>1. worker \in Workers /\ broker \in Brokers /\ requests \in [Keys -> Files]
  BY DEF TypeOK
<1>2. UNCHANGED requests => Requested \subseteq Requested'
  BY Zenon DEF Requested
<1> USE DEF facts, processes
<1>a1. CASE ApiStart BY Zenon, <1>2, <1>a1, AppendUntouched DEF ApiStart
<1>a2. CASE ApiStop BY Zenon, <1>2, <1>a2, AppendUntouched DEF ApiStop
<1>a3. ASSUME NEW k \in Keys, Provision(k) PROVE AppendInv'
  BY Zenon, <1>2, <1>a3, AppendUntouched DEF Provision
<1>a4. ASSUME NEW k \in Keys, ProvisionDies(k) PROVE AppendInv'
  BY Zenon, <1>2, <1>a4, AppendUntouched DEF ProvisionDies
<1>a5. ASSUME NEW k \in Keys, Forget(k) PROVE AppendInv'
  BY Zenon, <1>2, <1>a5, AppendUntouched DEF Forget
<1>w1. CASE WorkerStart BY Zenon, <1>2, <1>w1, AppendUntouched DEF WorkerStart
<1>w2. CASE WorkerStop BY Zenon, <1>2, <1>w2, AppendUntouched DEF WorkerStop
<1>w3. ASSUME NEW k \in Keys, WorkerClaim(k) PROVE AppendInv'
  BY Zenon, <1>2, <1>w3, AppendUntouched DEF WorkerClaim
<1>w4. CASE WorkerPublish BY Zenon, <1>2, <1>w4, AppendUntouched DEF WorkerPublish
<1>w5. CASE WorkerPublished
  <2>1. Requested \subseteq Requested'
    BY Zenon, <1>1, <1>w5 DEF WorkerPublished, Requested
  <2> QED BY Zenon, <1>w5, <2>1, AppendUntouched DEF WorkerPublished
<1>w6. CASE WorkerComplete BY Zenon, <1>2, <1>w6, AppendUntouched DEF WorkerComplete
<1>w7. CASE WorkerFail BY Zenon, <1>2, <1>w7, AppendUntouched DEF WorkerFail
<1>w8. CASE WorkerDies
  <2>1. Requested \subseteq Requested'
    BY Zenon, <1>1, <1>w8 DEF WorkerDies, Requested
  <2> QED BY Zenon, <1>w8, <2>1, AppendUntouched DEF WorkerDies
<1>b1. CASE BrokerStart
  <2>1. broker'.todo = Requested /\ broker'.pc = "listed"
    BY Zenon, <1>b1 DEF BrokerStart, NoBroker
  <2> QED BY Zenon, <1>2, <1>b1, <2>1 DEF BrokerStart, AppendInv, Requested
<1>b2. CASE BrokerRecover
  <2>1. CASE broker' = NoBroker
    <3>1. anchor' = anchor \/ anchor' = ledger
      BY Zenon, <1>b2 DEF BrokerRecover
    <3>2. UNCHANGED <<requests, ledger>>
      BY Zenon, <1>b2 DEF BrokerRecover
    <3> QED BY Zenon, <2>1, <3>1, <3>2, IdleFields DEF AppendInv, Requested
  <2>2. CASE broker' # NoBroker
    <3>1. anchor' = ledger /\ UNCHANGED <<requests, ledger>>
      BY Zenon, <1>b2, <2>2 DEF BrokerRecover, Abort
    <3>2. broker'.pc = "apply" /\ broker'.todo = broker.todo
      BY Zenon, <1>1, <1>b2, <2>2, BrokerMoves
    <3> QED BY Zenon, <3>1, <3>2 DEF AppendInv, Requested
  <2> QED BY <2>1, <2>2
<1>b3. CASE BrokerApply BY Zenon, <1>1, <1>2, <1>b3, BrokerMoves, AppendUntouched DEF BrokerApply
<1>b4. CASE BrokerValidate
  <2>1. broker.pc = "apply" /\ UNCHANGED <<requests, ledger, anchor>>
    BY Zenon, <1>b4 DEF BrokerValidate
  <2>2. broker' = NoBroker \/ (broker'.pc = "work" /\ broker'.todo \subseteq broker.todo)
    BY Zenon, <1>1, <1>b4, BrokerMoves
  <2> QED BY Zenon, <1>2, <2>1, <2>2, AppendUntouched DEF AppendInv
<1>b5. CASE BrokerTake
  <2>1. broker.pc = "work" /\ UNCHANGED <<requests, ledger, anchor>>
    BY Zenon, <1>b5 DEF BrokerTake
  <2>2. \/ broker' = NoBroker
        \/ broker'.pc \in {"answer", "record"} /\ broker'.todo = broker.todo
    BY Zenon, <1>1, <1>b5, BrokerMoves
  <2> QED BY Zenon, <1>2, <2>1, <2>2, AppendUntouched DEF AppendInv
<1>b6. CASE BrokerRecord
  <2>1. /\ broker.pc = "record" /\ broker'.pc = "anchor"
        /\ broker'.todo = broker.todo /\ broker'.key = broker.key
    BY Zenon, <1>1, <1>b6, BrokerMoves DEF BrokerRecord
  <2>2. anchor = ledger /\ broker.key \in Requested
    BY Zenon, <2>1 DEF AppendInv, Keyed, Destroying
  <2> QED BY Zenon, <1>b6, <2>1, <2>2 DEF BrokerRecord, AppendInv, Requested
<1>b7. CASE BrokerAnchor
  <2>1. broker'.pc = "tomb" /\ broker'.todo = broker.todo
    BY Zenon, <1>1, <1>b7, BrokerMoves DEF BrokerAnchor
  <2> QED BY Zenon, <1>b7, <2>1 DEF BrokerAnchor, AppendInv, Requested
<1>b8. CASE BrokerTomb
  BY <1>1, <1>2, <1>b8, BrokerMoves, AppendUntouched DEF BrokerTomb, AppendInv
<1>b9. CASE BrokerUnlink
  BY <1>1, <1>2, <1>b9, BrokerMoves, AppendUntouched DEF BrokerUnlink, AppendInv
<1>b10. CASE BrokerFinish
  BY <1>1, <1>2, <1>b10, BrokerMoves, AppendUntouched DEF BrokerFinish, AppendInv
<1>b11. CASE BrokerAnswer
  <2>1. broker.pc = "answer" /\ UNCHANGED <<ledger, anchor>>
    BY Zenon, <1>b11 DEF BrokerAnswer
  <2>2. anchor = ledger
    BY Zenon, <2>1 DEF AppendInv
  <2>3. CASE broker' = NoBroker
    BY Zenon, <2>1, <2>2, <2>3, IdleFields DEF AppendInv
  <2>4. CASE broker' # NoBroker
    <3>1. requests' = [requests EXCEPT ![broker.key] = "none"]
      BY Zenon, <1>b11, <2>4 DEF BrokerAnswer, Abort
    <3>2. Requested \ {broker.key} \subseteq Requested'
      BY Zenon, <1>1, <3>1 DEF Requested
    <3>3. broker'.pc = "work" /\ broker'.todo = broker.todo \ {broker.key}
      BY Zenon, <1>1, <1>b11, <2>4, BrokerMoves
    <3> QED BY Zenon, <2>1, <2>2, <3>2, <3>3 DEF AppendInv
  <2> QED BY <2>3, <2>4
<1>b12. CASE BrokerDone BY Zenon, <1>2, <1>b12, AppendUntouched DEF BrokerDone, Abort
<1>b13. CASE BrokerDies
  <2>1. CASE UNCHANGED ledger
    BY Zenon, <1>2, <1>b13, <2>1, AppendUntouched DEF BrokerDies, Abort
  <2>2. CASE ~UNCHANGED ledger
    <3>1. broker.pc = "record" /\ ledger' = Append(ledger, broker.key) /\ broker' = NoBroker
      BY Zenon, <1>b13, <2>2 DEF BrokerDies, TornLedger, TornTomb, Abort
    <3>2. anchor = ledger /\ broker.key \in Requested
      BY Zenon, <3>1 DEF AppendInv, Keyed, Destroying
    <3> QED BY Zenon, <1>b13, <3>1, <3>2, IdleFields DEF BrokerDies, AppendInv, Requested
  <2> QED BY <2>1, <2>2
<1>o1. CASE AcceptAnchor BY Zenon, <1>2, <1>o1, AppendUntouched DEF AcceptAnchor
<1>o2. CASE BackUp BY Zenon, <1>2, <1>o2, AppendUntouched DEF BackUp
<1>o3. CASE RestoreProvider BY Zenon, <1>2, <1>o3, AppendUntouched DEF RestoreProvider
<1>o4. CASE RollBackLedger
  <2>1. anchor' = ledger' /\ broker.pc = "idle" /\ UNCHANGED <<requests, broker>>
    BY Zenon, <1>o4 DEF RollBackLedger, Stopped
  <2> QED BY Zenon, <2>1 DEF AppendInv, Requested
<1>o5. CASE RestoreReconcile
  <2>1. anchor = ledger /\ UNCHANGED <<requests, ledger, anchor>>
    BY Zenon, <1>o5 DEF RestoreReconcile, Trusted
  <2>2. broker'.todo = {} /\ broker'.pc = "apply"
    BY Zenon, <1>o5 DEF RestoreReconcile, NoBroker
  <2> QED BY Zenon, <2>1, <2>2 DEF AppendInv
<1>u. CASE UNCHANGED vars BY Zenon, <1>2, <1>u, AppendUntouched DEF vars
<1> QED
  BY <1>a1, <1>a2, <1>a3, <1>a4, <1>a5, <1>w1, <1>w2, <1>w3, <1>w4, <1>w5, <1>w6, <1>w7,
     <1>w8, <1>b1, <1>b2, <1>b3, <1>b4, <1>b5, <1>b6, <1>b7, <1>b8, <1>b9, <1>b10, <1>b11,
     <1>b12, <1>b13, <1>o1, <1>o2, <1>o3, <1>o4, <1>o5, <1>u
  DEF Next, Api, WorkerRuns, BrokerRuns, Operator

\* Anchor and ledger are apart only by the append of a request that is still there.
LEMMA AlwaysAppended == Spec => []AppendInv
<1>1. Init => AppendInv
  BY DEF Init, AppendInv, NoBroker, Requested
<1>2. TypeOK /\ Keyed /\ AppendInv /\ [Next]_vars => AppendInv'
  BY AppendStep
<1> QED BY <1>1, <1>2, AlwaysTyped, PTL DEF Spec

\* For any keys, deaths and restores: a fact the anchor does not cover yet is the only
\* one, and its request is still there, so recovery is entitled to adopt it.
THEOREM Authorized == Spec => []PendingIsAuthorized
BY AppendShows, AlwaysAppended, TypeCorrect, PTL
----------------------------------------------------------------------------
(* What is destroyed was forgotten.                                         *)

\* The worker's job belongs to a forgotten key too.
ForgottenInv ==
  /\ OnlyForgotten
  /\ worker.pc \in Working => db[worker.key] \in {"requested", "erased"}

\* Steps that leave the table alone, add neither fact nor request, and give the worker
\* no new job.
LEMMA ForgottenUntouched ==
  ASSUME ForgottenInv, UNCHANGED db, Facts' \cup Requested' \subseteq Facts \cup Requested,
         worker'.pc \in Working => worker.pc \in Working /\ worker'.key = worker.key
  PROVE  ForgottenInv'
BY Zenon DEF ForgottenInv, OnlyForgotten

\* Steps that add the fact or the request of a forgotten key.
LEMMA ForgottenGrows ==
  ASSUME ForgottenInv, UNCHANGED db, NEW k, db[k] \in {"requested", "erased"},
         Facts' \cup Requested' \subseteq Facts \cup Requested \cup {k},
         worker'.pc \in Working => worker.pc \in Working /\ worker'.key = worker.key
  PROVE  ForgottenInv'
BY Zenon DEF ForgottenInv, OnlyForgotten

\* Every step keeps requests, facts and the worker's job to forgotten keys.
LEMMA ForgottenStep ==
  TypeOK /\ Keyed /\ AppendInv /\ ForgottenInv /\ [Next]_vars => ForgottenInv'
<1> SUFFICES ASSUME TypeOK, Keyed, AppendInv, ForgottenInv, [Next]_vars PROVE ForgottenInv'
  BY Zenon
<1>1. /\ worker \in Workers /\ broker \in Brokers /\ requests \in [Keys -> Files]
      /\ ledger \in Seq(Keys) /\ anchor \in Seq(Keys) /\ db \in [Keys -> DbStates]
  BY Zenon DEF TypeOK
<1>2. UNCHANGED <<requests, ledger>> => Facts' \cup Requested' \subseteq Facts \cup Requested
  BY Zenon DEF Requested, Facts
<1>3. ASSUME broker.pc = "record", ledger' = Append(ledger, broker.key), UNCHANGED requests
      PROVE  /\ db[broker.key] \in {"requested", "erased"}
             /\ Facts' \cup Requested' \subseteq Facts \cup Requested \cup {broker.key}
  <2>1. broker.key \in Requested /\ broker.key \in Keys
    BY Zenon, <1>3 DEF Keyed, Destroying, AppendInv, Requested
  <2>2. Facts' = Facts \cup {broker.key}
    BY <1>1, <1>3, <2>1, AppendContains DEF Facts
  <2> QED BY Zenon, <1>3, <2>1, <2>2 DEF ForgottenInv, OnlyForgotten, Requested
<1> USE DEF facts, processes
<1>a1. CASE ApiStart BY Zenon, <1>2, <1>a1, ForgottenUntouched DEF ApiStart
<1>a2. CASE ApiStop BY Zenon, <1>2, <1>a2, ForgottenUntouched DEF ApiStop
<1>a3. ASSUME NEW k \in Keys, Provision(k) PROVE ForgottenInv'
  <2>1. UNCHANGED <<requests, ledger, worker>> /\ db[k] = "none"
    BY Zenon, <1>a3 DEF Provision, ProvisionAccepts
  <2>2. \A l \in Keys : db[l] \in {"requested", "erased"} => db'[l] = db[l]
    BY Zenon, <1>1, <1>a3, <2>1 DEF Provision
  <2>3. Facts' = Facts /\ Requested' = Requested
    BY Zenon, <2>1 DEF Facts, Requested
  <2> QED BY Zenon, <2>1, <2>2, <2>3 DEF ForgottenInv, OnlyForgotten, Keyed
<1>a4. ASSUME NEW k \in Keys, ProvisionDies(k) PROVE ForgottenInv'
  BY Zenon, <1>2, <1>a4, ForgottenUntouched DEF ProvisionDies
<1>a5. ASSUME NEW k \in Keys, Forget(k) PROVE ForgottenInv'
  <2>1. UNCHANGED <<requests, ledger, worker>> /\ db[k] = "active"
    BY Zenon, <1>a5 DEF Forget
  <2>2. \A l \in Keys : db[l] \in {"requested", "erased"} => db'[l] = db[l]
    BY Zenon, <1>1, <1>a5, <2>1 DEF Forget
  <2>3. Facts' = Facts /\ Requested' = Requested
    BY Zenon, <2>1 DEF Facts, Requested
  <2> QED BY Zenon, <2>1, <2>2, <2>3 DEF ForgottenInv, OnlyForgotten, Keyed
<1>w1. CASE WorkerStart BY Zenon, <1>2, <1>w1, ForgottenUntouched DEF WorkerStart, Working
<1>w2. CASE WorkerStop BY Zenon, <1>1, <1>2, <1>w2, ForgottenUntouched DEF WorkerStop, Working, Workers
<1>w3. ASSUME NEW k \in Keys, WorkerClaim(k) PROVE ForgottenInv'
  <2>1. worker'.key = k /\ db[k] = "requested" /\ UNCHANGED <<requests, ledger, db>>
    BY Zenon, <1>1, <1>w3 DEF WorkerClaim, Workers
  <2> QED BY Zenon, <2>1 DEF ForgottenInv, OnlyForgotten, Facts, Requested
<1>w4. CASE WorkerPublish
  BY Zenon, <1>1, <1>2, <1>w4, ForgottenUntouched DEF WorkerPublish, Working, Workers
<1>w5. CASE WorkerPublished
  <2>1. worker.pc \in Working /\ worker'.key = worker.key
    BY Zenon, <1>1, <1>w5 DEF WorkerPublished, Working, Workers
  <2>2. Facts' \cup Requested' \subseteq Facts \cup Requested \cup {worker.key}
    BY Zenon, <1>1, <1>w5 DEF WorkerPublished, Facts, Requested
  <2>3. db[worker.key] \in {"requested", "erased"} /\ UNCHANGED db
    BY Zenon, <1>w5, <2>1 DEF WorkerPublished, ForgottenInv
  <2> QED BY <2>1, <2>2, <2>3, ForgottenGrows
<1>w6. CASE WorkerComplete
  <2>1. UNCHANGED <<requests, ledger>> /\ worker'.pc = "idle"
    BY Zenon, <1>1, <1>w6 DEF WorkerComplete, Workers
  <2>2. \A l \in Keys : db[l] \in {"requested", "erased"} => db'[l] \in {"requested", "erased"}
    BY Zenon, <1>1, <1>w6 DEF WorkerComplete
  <2>3. Facts' = Facts /\ Requested' = Requested
    BY Zenon, <2>1 DEF Facts, Requested
  <2> QED BY Zenon, <2>1, <2>2, <2>3 DEF ForgottenInv, OnlyForgotten, Working
<1>w7. CASE WorkerFail BY Zenon, <1>1, <1>2, <1>w7, ForgottenUntouched DEF WorkerFail, Working, Workers
<1>w8. CASE WorkerDies
  <2>1. worker.pc \in Working /\ worker'.pc = "down" /\ UNCHANGED <<ledger, db>>
    BY Zenon, <1>1, <1>w8 DEF WorkerDies, Workers
  <2>2. Facts' \cup Requested' \subseteq Facts \cup Requested \cup {worker.key}
    BY Zenon, <1>1, <1>w8 DEF WorkerDies, Facts, Requested
  <2>3. db[worker.key] \in {"requested", "erased"}
    BY Zenon, <2>1 DEF ForgottenInv
  <2> QED BY <2>1, <2>2, <2>3, ForgottenGrows DEF Working
<1>b1. CASE BrokerStart BY Zenon, <1>2, <1>b1, ForgottenUntouched DEF BrokerStart
<1>b2. CASE BrokerRecover BY Zenon, <1>2, <1>b2, ForgottenUntouched DEF BrokerRecover
<1>b3. CASE BrokerApply BY Zenon, <1>2, <1>b3, ForgottenUntouched DEF BrokerApply
<1>b4. CASE BrokerValidate BY Zenon, <1>2, <1>b4, ForgottenUntouched DEF BrokerValidate
<1>b5. CASE BrokerTake BY Zenon, <1>2, <1>b5, ForgottenUntouched DEF BrokerTake
<1>b6. CASE BrokerRecord BY <1>3, <1>b6, ForgottenGrows DEF BrokerRecord
<1>b7. CASE BrokerAnchor BY Zenon, <1>2, <1>b7, ForgottenUntouched DEF BrokerAnchor
<1>b8. CASE BrokerTomb BY Zenon, <1>2, <1>b8, ForgottenUntouched DEF BrokerTomb
<1>b9. CASE BrokerUnlink BY Zenon, <1>2, <1>b9, ForgottenUntouched DEF BrokerUnlink
<1>b10. CASE BrokerFinish BY Zenon, <1>2, <1>b10, ForgottenUntouched DEF BrokerFinish
<1>b11. CASE BrokerAnswer
  <2>1. Requested' \subseteq Requested
    BY Zenon, <1>1, <1>b11 DEF BrokerAnswer, Requested
  <2> QED BY Zenon, <1>b11, <2>1, ForgottenUntouched DEF BrokerAnswer, Facts
<1>b12. CASE BrokerDone BY Zenon, <1>2, <1>b12, ForgottenUntouched DEF BrokerDone
<1>b13. CASE BrokerDies
  <2>1. CASE UNCHANGED ledger BY Zenon, <1>2, <1>b13, <2>1, ForgottenUntouched DEF BrokerDies
  <2>2. CASE ~UNCHANGED ledger
    BY <1>3, <1>b13, <2>2, ForgottenGrows DEF BrokerDies, TornLedger, TornTomb
  <2> QED BY Zenon, <2>1, <2>2
<1>o1. CASE AcceptAnchor BY Zenon, <1>2, <1>o1, ForgottenUntouched DEF AcceptAnchor
<1>o2. CASE BackUp BY Zenon, <1>2, <1>o2, ForgottenUntouched DEF BackUp
<1>o3. CASE RestoreProvider BY Zenon, <1>2, <1>o3, ForgottenUntouched DEF RestoreProvider
<1>o4. CASE RollBackLedger
  <2>1. PICK n \in 0..Len(anchor) : ledger' = SubSeq(anchor, 1, n)
    BY Zenon, <1>o4 DEF RollBackLedger
  <2>2. Range(ledger') \subseteq Range(anchor)
    BY Zenon, <1>1, <2>1, SubSeqContains
  <2>3. anchor = ledger \/ IsPrefix(anchor, ledger)
    BY Zenon, AppendShows DEF PendingIsAuthorized
  <2>4. Facts' \subseteq Facts
    BY Zenon, <1>1, <2>2, <2>3, PrefixContains DEF Facts
  <2> QED BY Zenon, <1>o4, <2>4, ForgottenUntouched DEF RollBackLedger, Requested
<1>o5. CASE RestoreReconcile BY Zenon, <1>2, <1>o5, ForgottenUntouched DEF RestoreReconcile
<1>u. CASE UNCHANGED vars BY Zenon, <1>u, <1>2, ForgottenUntouched DEF vars
<1> QED
  BY ZenonT(60), <1>a1, <1>a2, <1>a3, <1>a4, <1>a5, <1>w1, <1>w2, <1>w3, <1>w4, <1>w5, <1>w6, <1>w7,
     <1>w8, <1>b1, <1>b2, <1>b3, <1>b4, <1>b5, <1>b6, <1>b7, <1>b8, <1>b9, <1>b10, <1>b11,
     <1>b12, <1>b13, <1>o1, <1>o2, <1>o3, <1>o4, <1>o5, <1>u
  DEF Next, Api, WorkerRuns, BrokerRuns, Operator

\* Only forgotten keys are ever requested, recorded or worked on.
LEMMA AlwaysForgotten == Spec => []ForgottenInv
<1>1. Init => ForgottenInv
  BY DEF Init, ForgottenInv, OnlyForgotten, Facts, Requested, NoFiles, Range, Working
<1>2. TypeOK /\ Keyed /\ AppendInv /\ ForgottenInv /\ [Next]_vars => ForgottenInv'
  BY Zenon, ForgottenStep
<1> QED BY <1>1, <1>2, AlwaysTyped, AlwaysAppended, PTL DEF Spec

\* For any keys, deaths and restores: no key is requested or destroyed whose memory was
\* not forgotten.
THEOREM Forgotten == Spec => []OnlyForgotten
<1>1. ForgottenInv => OnlyForgotten
  BY Zenon DEF ForgottenInv
<1> QED BY <1>1, AlwaysForgotten, PTL
----------------------------------------------------------------------------
(* The fact comes before the destruction.                                   *)

\* The broker destroys a key only after the ledger has its fact.
Unlinking == {"anchor", "tomb", "unlink", "finish"}

FactInv == FactFirst /\ (broker.pc \in Unlinking => broker.key \in Facts)

\* Files of the keys without a fact.
SameElsewhere(S) ==
  \A k \in Keys \ S : /\ provider'.tomb[k] = provider.tomb[k]
                      /\ provider'.active[k] = provider.active[k]
                      /\ provider'.material[k] = provider.material[k]

\* Steps that lose no fact and change no file but those of keys with a fact.
LEMMA FactUntouched ==
  ASSUME FactInv, UNCHANGED <<db, restores>>, Facts \subseteq Facts', SameElsewhere(Facts),
         \/ broker'.pc \notin Unlinking
         \/ broker.pc \in Unlinking /\ broker'.key = broker.key
  PROVE  FactInv'
BY ZenonT(60) DEF FactInv, FactFirst, SameElsewhere

\* Every step keeps the fact of a key in the ledger before its files go.
LEMMA FactStep ==
  TypeOK /\ Keyed /\ FactInv /\ [Next]_vars => FactInv'
<1> SUFFICES ASSUME TypeOK, Keyed, FactInv, [Next]_vars PROVE FactInv'
  OBVIOUS
<1>1. /\ broker \in Brokers /\ provider \in KeyFiles /\ ledger \in Seq(Keys)
      /\ db \in [Keys -> DbStates] /\ restores \in Nat
  BY KeysAssumption DEF TypeOK
<1>2. UNCHANGED ledger => Facts \subseteq Facts'
  BY Zenon DEF Facts
<1>3. UNCHANGED provider => SameElsewhere(Facts)
  BY Zenon DEF SameElsewhere
<1>4. UNCHANGED broker => \/ broker'.pc \notin Unlinking
                          \/ broker.pc \in Unlinking /\ broker'.key = broker.key
  BY Zenon
<1>5. broker' = NoBroker => broker'.pc \notin Unlinking
  BY Zenon, IdleFields DEF Unlinking
<1>6. ASSUME ledger' = Append(ledger, broker.key), broker.pc = "record"
      PROVE  Facts \subseteq Facts' /\ broker.key \in Facts'
  <2>1. broker.key \in Keys
    BY Zenon, <1>1, <1>6 DEF Keyed, Destroying, Brokers
  <2> QED BY <1>1, <1>6, <2>1, AppendContains DEF Facts
<1> USE DEF facts, processes, bounds
<1>a1. CASE ApiStart BY Zenon, <1>2, <1>3, <1>4, <1>a1, FactUntouched DEF ApiStart
<1>a2. CASE ApiStop BY ZenonT(60), <1>2, <1>3, <1>4, <1>a2, FactUntouched DEF ApiStop
<1>a3. ASSUME NEW k \in Keys, Provision(k) PROVE FactInv'
  <2>1. /\ provider'.tomb = provider.tomb
        /\ provider'.active[k] = "file" /\ provider'.material[k] = "file"
        /\ SameElsewhere({k})
    BY Zenon, <1>1, <1>a3 DEF Provision, KeyFiles, SameElsewhere
  <2>2. \A l \in Keys \ {k} : db'[l] = db[l]
    BY Zenon, <1>1, <1>a3 DEF Provision
  <2>3. UNCHANGED <<ledger, broker, restores>>
    BY Zenon, <1>a3 DEF Provision
  <2>4. FactFirst'
    BY ZenonT(60), <2>1, <2>2, <2>3 DEF FactInv, FactFirst, SameElsewhere, Facts
  <2> QED BY Zenon, <2>3, <2>4 DEF FactInv, Facts
<1>a4. ASSUME NEW k \in Keys, ProvisionDies(k) PROVE FactInv'
  <2>1. provider'.tomb = provider.tomb /\ SameElsewhere({k})
    <3> DEFINE recorded == [provider EXCEPT !.active[k] = "file"]
    <3>1. \/ provider' = recorded
          \/ provider' = [provider EXCEPT !.active[k] = "torn"]
          \/ provider' = [recorded EXCEPT !.material[k] = "torn"]
      BY <1>a4 DEF ProvisionDies, HalfProvisioned
    <3> QED BY ZenonT(60), <1>1, <3>1 DEF KeyFiles, SameElsewhere
  <2>2. db[k] = "none" /\ UNCHANGED <<db, ledger, broker, restores>>
    BY <1>a4 DEF ProvisionDies, ProvisionAccepts
  <2>3. FactFirst'
    BY <2>1, <2>2 DEF FactInv, FactFirst, SameElsewhere, Facts
  <2> QED BY Zenon, <2>2, <2>3 DEF FactInv, Facts
<1>a5. ASSUME NEW k \in Keys, Forget(k) PROVE FactInv'
  <2>1. \A l \in Keys : db'[l] # "none" => db[l] # "none"
    BY <1>1, <1>a5 DEF Forget
  <2>2. UNCHANGED <<provider, ledger, broker, restores>>
    BY <1>a5 DEF Forget
  <2> QED BY <2>1, <2>2 DEF FactInv, FactFirst, Facts
<1>w1. CASE WorkerStart BY Zenon, <1>2, <1>3, <1>4, <1>w1, FactUntouched DEF WorkerStart
<1>w2. CASE WorkerStop BY Zenon, <1>2, <1>3, <1>4, <1>w2, FactUntouched DEF WorkerStop
<1>w3. ASSUME NEW k \in Keys, WorkerClaim(k) PROVE FactInv'
  BY Zenon, <1>2, <1>3, <1>4, <1>w3, FactUntouched DEF WorkerClaim
<1>w4. CASE WorkerPublish BY Zenon, <1>2, <1>3, <1>4, <1>w4, FactUntouched DEF WorkerPublish
<1>w5. CASE WorkerPublished BY Zenon, <1>2, <1>3, <1>4, <1>w5, FactUntouched DEF WorkerPublished
<1>w6. CASE WorkerComplete
  <2>1. worker.key \in Facts
    BY Zenon, <1>w6 DEF WorkerComplete, Acknowledged
  <2>2. \A l \in Keys \ Facts : db'[l] = db[l]
    BY Zenon, <1>1, <1>w6, <2>1 DEF WorkerComplete
  <2>3. UNCHANGED <<provider, ledger, broker, restores>>
    BY Zenon, <1>w6 DEF WorkerComplete
  <2> QED BY Zenon, <2>2, <2>3 DEF FactInv, FactFirst, Facts
<1>w7. CASE WorkerFail BY Zenon, <1>2, <1>3, <1>4, <1>w7, FactUntouched DEF WorkerFail
<1>w8. CASE WorkerDies BY Zenon, <1>2, <1>3, <1>4, <1>w8, FactUntouched DEF WorkerDies
<1>b1. CASE BrokerStart
  BY Zenon, <1>2, <1>3, <1>b1, FactUntouched DEF BrokerStart, NoBroker, Unlinking
<1>b2. CASE BrokerRecover
  <2>1. broker'.pc \notin Unlinking
    BY Zenon, <1>1, <1>5, <1>b2, BrokerMoves DEF Unlinking
  <2> QED BY Zenon, <1>2, <1>3, <1>b2, <2>1, FactUntouched DEF BrokerRecover
<1>b3. CASE BrokerApply
  <2>1. PICK i \in Unapplied : Apply(ledger[i])
    BY Zenon, <1>b3 DEF BrokerApply
  <2>2. ledger[i] \in Facts /\ ledger[i] \in Keys
    BY <1>1, <2>1 DEF Unapplied, Facts, Range
  <2>3. SameElsewhere(Facts)
    <3>1. CASE provider' = provider BY Zenon, <1>3, <3>1
    <3>2. CASE provider' = [provider EXCEPT !.material[ledger[i]] = "none"]
      BY Zenon, <1>1, <2>2, <3>2 DEF KeyFiles, SameElsewhere
    <3>3. CASE provider' = [provider EXCEPT !.tomb[ledger[i]] = "file"]
      BY Zenon, <1>1, <2>2, <3>3 DEF KeyFiles, SameElsewhere
    <3>4. CASE provider' = [provider EXCEPT !.active[ledger[i]] = "none"]
      BY Zenon, <1>1, <2>2, <3>4 DEF KeyFiles, SameElsewhere
    <3> QED BY Zenon, <2>1, <2>2, <3>1, <3>2, <3>3, <3>4, ApplyOneFile
  <2>4. broker'.pc \notin Unlinking
    BY Zenon, <1>1, <1>5, <1>b3, BrokerMoves DEF BrokerApply, Unlinking
  <2> QED BY Zenon, <1>2, <1>b3, <2>3, <2>4, FactUntouched DEF BrokerApply
<1>b4. CASE BrokerValidate
  <2>1. broker'.pc \notin Unlinking
    BY Zenon, <1>1, <1>5, <1>b4, BrokerMoves DEF Unlinking
  <2> QED BY Zenon, <1>2, <1>3, <1>b4, <2>1, FactUntouched DEF BrokerValidate
<1>b5. CASE BrokerTake
  <2>1. broker'.pc \notin Unlinking
    BY Zenon, <1>1, <1>5, <1>b5, BrokerMoves DEF Unlinking
  <2> QED BY Zenon, <1>2, <1>3, <1>b5, <2>1, FactUntouched DEF BrokerTake
<1>b6. CASE BrokerRecord
  <2>1. broker'.key = broker.key /\ UNCHANGED <<provider, db, restores>>
    BY Zenon, <1>1, <1>b6, BrokerMoves DEF BrokerRecord
  <2>2. Facts \subseteq Facts' /\ broker.key \in Facts'
    BY Zenon, <1>6, <1>b6 DEF BrokerRecord
  <2> QED BY Zenon, <2>1, <2>2 DEF FactInv, FactFirst
<1>b7. CASE BrokerAnchor
  BY Zenon, <1>1, <1>2, <1>3, <1>b7, BrokerMoves, FactUntouched DEF BrokerAnchor, Unlinking
<1>b8. CASE BrokerTomb
  <2>1. broker.pc \in Unlinking /\ broker.key \in Facts
    BY Zenon, <1>b8 DEF BrokerTomb, Unlinking, FactInv
  <2>2. SameElsewhere(Facts)
    BY Zenon, <1>1, <1>b8, <2>1 DEF BrokerTomb, KeyFiles, SameElsewhere
  <2>3. broker'.key = broker.key
    BY Zenon, <1>1, <1>b8, BrokerMoves DEF BrokerTomb
  <2> QED BY Zenon, <1>2, <1>b8, <2>1, <2>2, <2>3, FactUntouched DEF BrokerTomb
<1>b9. CASE BrokerUnlink
  <2>1. broker.pc \in Unlinking /\ broker.key \in Facts
    BY Zenon, <1>b9 DEF BrokerUnlink, Unlinking, FactInv
  <2>2. SameElsewhere(Facts)
    BY Zenon, <1>1, <1>b9, <2>1 DEF BrokerUnlink, KeyFiles, SameElsewhere
  <2>3. broker'.key = broker.key
    BY Zenon, <1>1, <1>b9, BrokerMoves DEF BrokerUnlink
  <2> QED BY Zenon, <1>2, <1>b9, <2>1, <2>2, <2>3, FactUntouched DEF BrokerUnlink
<1>b10. CASE BrokerFinish
  <2>1. broker.pc \in Unlinking /\ broker.key \in Facts
    BY Zenon, <1>b10 DEF BrokerFinish, Unlinking, FactInv
  <2>2. SameElsewhere(Facts)
    BY Zenon, <1>1, <1>b10, <2>1 DEF BrokerFinish, KeyFiles, SameElsewhere
  <2>3. broker'.key = broker.key
    BY Zenon, <1>1, <1>b10, BrokerMoves DEF BrokerFinish
  <2> QED BY Zenon, <1>2, <1>b10, <2>1, <2>2, <2>3, FactUntouched DEF BrokerFinish
<1>b11. CASE BrokerAnswer
  <2>1. broker'.pc \notin Unlinking
    BY Zenon, <1>1, <1>5, <1>b11, BrokerMoves DEF Unlinking
  <2> QED BY Zenon, <1>2, <1>3, <1>b11, <2>1, FactUntouched DEF BrokerAnswer
<1>b12. CASE BrokerDone BY Zenon, <1>2, <1>3, <1>5, <1>b12, FactUntouched DEF BrokerDone, Abort
<1>b13. CASE BrokerDies
  <2>1. SameElsewhere(Facts)
    <3>1. CASE UNCHANGED provider BY Zenon, <1>3, <3>1
    <3>2. CASE TornTomb BY ZenonT(60), <1>1, <3>2 DEF TornTomb, KeyFiles, SameElsewhere
    <3> QED BY Zenon, <1>b13, <3>1, <3>2 DEF BrokerDies, TornLedger
  <2>2. Facts \subseteq Facts'
    BY Zenon, <1>2, <1>6, <1>b13 DEF BrokerDies, TornLedger, TornTomb
  <2> QED BY Zenon, <1>5, <1>b13, <2>1, <2>2, FactUntouched DEF BrokerDies, Abort
<1>o1. CASE AcceptAnchor BY Zenon, <1>2, <1>3, <1>4, <1>o1, FactUntouched DEF AcceptAnchor
<1>o2. CASE BackUp BY Zenon, <1>2, <1>3, <1>4, <1>o2, FactUntouched DEF BackUp
<1>o3. CASE RestoreProvider
  BY <1>1, <1>o3 DEF RestoreProvider, Stopped, FactInv, FactFirst, Unlinking
<1>o4. CASE RollBackLedger
  BY <1>1, <1>o4 DEF RollBackLedger, Stopped, FactInv, FactFirst, Unlinking
<1>o5. CASE RestoreReconcile
  BY Zenon, <1>2, <1>3, <1>o5, FactUntouched DEF RestoreReconcile, NoBroker, Unlinking
<1>u. CASE UNCHANGED vars BY Zenon, <1>2, <1>3, <1>4, <1>u, FactUntouched DEF vars
<1> QED
  BY <1>a1, <1>a2, <1>a3, <1>a4, <1>a5, <1>w1, <1>w2, <1>w3, <1>w4, <1>w5, <1>w6, <1>w7,
     <1>w8, <1>b1, <1>b2, <1>b3, <1>b4, <1>b5, <1>b6, <1>b7, <1>b8, <1>b9, <1>b10, <1>b11,
     <1>b12, <1>b13, <1>o1, <1>o2, <1>o3, <1>o4, <1>o5, <1>u
  DEF Next, Api, WorkerRuns, BrokerRuns, Operator

\* For any keys and deaths: as long as nothing is restored from a backup, a tombstone
\* has its fact and a key without a fact has all its files.
THEOREM FactsFirst == Spec => []FactFirst
<1>1. Init => FactInv
  BY DEF Init, FactInv, FactFirst, NoBroker, NoKeys, NoFiles, Unlinking
<1>2. TypeOK /\ Keyed /\ FactInv /\ [Next]_vars => FactInv'
  BY FactStep
<1>3. FactInv => FactFirst
  BY DEF FactInv
<1> QED BY <1>1, <1>2, <1>3, AlwaysTyped, PTL DEF Spec
=============================================================================
