------------------------- MODULE OutboxLeaseProofs -------------------------
(***************************************************************************)
(* Proofs about OutboxLease for any number of jobs, workers, attempts and  *)
(* ticks, and for each of the three worker disciplines.                    *)
(***************************************************************************)
EXTENDS OutboxLease, FiniteSetTheorems, TLAPS

\* A worker between a claim and its next poll has a job in hand.
BusyHasWork ==
  \A w \in Workers : phase[w] \notin {"poll", "down"} => batch[w] # <<>>

TInv == TypeOK /\ BusyHasWork

----------------------------------------------------------------------------
(* What the row operators return.                                           *)

\* Giving a row back (fail_outbox_job, recovery) yields a well-formed row.
LEMMA ReleasedType ==
  ASSUME NEW row \in Rows, NEW code \in Errors, NEW r \in BOOLEAN
  PROVE  Released(row, code, r) \in Rows
<1>1. CASE ~r \/ row.attempts >= MaxAttempts
  BY <1>1, ConstantsAssumption DEF Rows, Released, None, States
<1>2. CASE ~(~r \/ row.attempts >= MaxAttempts)
  BY <1>2, ConstantsAssumption DEF Rows, Released, None, States
<1> QED
  BY Zenon, <1>1, <1>2

\* A heartbeat, a tick and an acknowledgement yield well-formed rows.
LEMMA RowsType ==
  ASSUME NEW row \in Rows
  PROVE  /\ \A age \in 0..Lease : Extended(row, age) \in Rows
         /\ Aged(row) \in Rows
         /\ Succeeded(row) \in Rows
<1>1. \A age \in 0..Lease : Extended(row, age) \in Rows
  BY ConstantsAssumption DEF Rows, Extended
<1>2. Aged(row) \in Rows
  <2> DEFINE l == Less(row.lease)
             d == Less(row.delay)
  <2>1. l \in 0..Lease /\ d \in 0..RetryDelay
    BY ConstantsAssumption DEF Rows, Less
  <2>2. Aged(row) = [row EXCEPT !.lease = l, !.delay = d]
    BY Zenon DEF Aged
  <2> HIDE DEF l, d
  <2> QED
    BY <2>1, <2>2, Zenon DEF Rows
<1>3. Succeeded(row) \in Rows
  BY ConstantsAssumption DEF Rows, Succeeded, None, States, Errors
<1> QED
  BY Zenon, <1>1, <1>2, <1>3

\* Every stamp a worker reads or carries is well formed.
LEMMA StampsType ==
  /\ NoStamp \in Stamps
  /\ \A b \in BOOLEAN : StampAt(b) \in Stamps
  /\ \A st \in Stamps : st.age \in 0..Lease /\ Older(st) \in Stamps
<1>1. 0 \in 0..Lease
  BY ConstantsAssumption
<1>2. \A b \in BOOLEAN : StampAt(b) \in Stamps
  BY <1>1, Zenon DEF StampAt, Stamps
<1>3. NoStamp \in Stamps
  BY <1>2, Zenon DEF NoStamp
<1>4. ASSUME NEW st \in Stamps
      PROVE  st.age \in 0..Lease /\ Older(st) \in Stamps
  <2>1. st.age \in 0..Lease
    BY <1>4 DEF Stamps
  <2>2. CASE st.age < Lease
    <3>1. st.age + 1 \in 0..Lease
      BY <2>1, <2>2, ConstantsAssumption
    <3>2. [st EXCEPT !.age = st.age + 1] \in Stamps
      BY <3>1, Zenon DEF Stamps
    <3> QED
      BY Zenon, <2>1, <2>2, <3>2 DEF Older
  <2>3. CASE ~(st.age < Lease)
    BY Zenon, <2>1, <2>3 DEF Older
  <2> QED
    BY <2>2, <2>3
<1> QED
  BY Zenon, <1>2, <1>3, <1>4

\* Recovery over all rows yields well-formed rows.
LEMMA RecoveredType ==
  ASSUME TypeOK
  PROVE  Recovered \in [Jobs -> Rows]
BY ReleasedType, Zenon DEF TypeOK, Recovered, Errors

\* A claim returns a sequence of distinct claimable jobs.
LEMMA BatchesType ==
  ASSUME NEW rows, NEW s \in Batches(rows)
  PROVE  /\ s \in Seq(Claimable(rows))
         /\ Len(s) \in Nat /\ DOMAIN s = 1..Len(s)
         /\ \A a, b \in DOMAIN s : s[a] = s[b] => a = b
<1> DEFINE n == Cardinality(Claimable(rows))
           k == IF n < BatchSize THEN n ELSE BatchSize
<1>1. IsFiniteSet(Claimable(rows))
  BY Zenon, ConstantsAssumption, FS_Subset DEF Claimable
<1>2. n \in Nat
  BY Zenon, <1>1, FS_CardinalityType
<1>3. k \in Nat
  BY Zenon, <1>2, ConstantsAssumption
<1>4. s \in Injection(1..k, Claimable(rows))
  BY DEF Batches
<1>5. s \in [1..k -> Claimable(rows)] /\ \A a, b \in DOMAIN s : s[a] = s[b] => a = b
  BY <1>4 DEF Injection, IsInjective
<1> HIDE DEF n, k
<1>6. s \in Seq(Claimable(rows)) /\ Len(s) = k
  BY <1>3, <1>5
<1> QED
  BY Zenon, <1>3, <1>5, <1>6

----------------------------------------------------------------------------
(* Type correctness.                                                        *)

\* Rewriting one entry of a table over the jobs.
LEMMA Update ==
  ASSUME NEW S, NEW f \in [Jobs -> S], NEW j \in Jobs, NEW e \in S
  PROVE  [f EXCEPT ![j] = e] \in [Jobs -> S]
BY Zenon

\* The job in hand is one of the jobs.
LEMMA HeadType ==
  ASSUME TInv, NEW w \in Workers, phase[w] \notin {"poll", "down"}
  PROVE  Head(batch[w]).job \in Jobs /\ Head(batch[w]).token \in Nat
<1>1. batch[w] \in Seq(Items) /\ batch[w] # <<>>
  BY Zenon DEF TInv, TypeOK, BusyHasWork
<1>2. Head(batch[w]) \in Items
  BY <1>1
<1> QED
  BY Zenon, <1>2 DEF Items

\* Dropping the first job leaves well-formed worker state.
LEMMA NextItemType ==
  ASSUME TInv, NEW w \in Workers, phase[w] \notin {"poll", "down"}, NextItem(w)
  PROVE  /\ batch' \in [Workers -> Seq(Items)]
         /\ phase' \in [Workers -> Phases]
         /\ stamp' \in [Workers -> Stamps]
         /\ err' \in [Workers -> Errors]
         /\ BusyHasWork'
<1>1. batch[w] \in Seq(Items) /\ batch[w] # <<>>
  BY Zenon DEF TInv, TypeOK, BusyHasWork
<1>2. Tail(batch[w]) \in Seq(Items) /\ Len(batch[w]) \in Nat \ {0}
  BY <1>1
<1>3. batch' \in [Workers -> Seq(Items)]
  BY Zenon, <1>2 DEF TInv, TypeOK, NextItem
<1>4. phase' \in [Workers -> Phases]
  BY Zenon DEF TInv, TypeOK, NextItem, Phases, FirstPhase
<1>5. stamp' \in [Workers -> Stamps] /\ err' \in [Workers -> Errors]
  BY Zenon, StampsType DEF TInv, TypeOK, NextItem, Errors
<1>6. ASSUME NEW v \in Workers, phase'[v] \notin {"poll", "down"}
      PROVE  batch'[v] # <<>>
  <2>1. CASE v = w
    <3>1. Len(batch[w]) # 1
      BY Zenon, <2>1, <1>6 DEF TInv, TypeOK, NextItem
    <3>2. Len(Tail(batch[w])) = Len(batch[w]) - 1
      BY <1>1
    <3>3. Len(<<>>) = 0
      BY Zenon
    <3>4. Len(Tail(batch[w])) # 0
      BY <1>2, <3>1, <3>2
    <3>5. Tail(batch[w]) # <<>>
      BY <3>3, <3>4, Zenon
    <3> QED
      BY Zenon, <2>1, <3>5 DEF TInv, TypeOK, NextItem
  <2>2. CASE v # w
    BY Zenon, <2>2, <1>6 DEF TInv, TypeOK, NextItem, BusyHasWork
  <2> QED
    BY Zenon, <2>1, <2>2
<1> QED
  BY Zenon, <1>3, <1>4, <1>5, <1>6 DEF BusyHasWork

\* A process that ends leaves well-formed worker state.
LEMMA ProcessEndsType ==
  ASSUME TInv, NEW w \in Workers, ProcessEnds(w)
  PROVE  /\ batch' \in [Workers -> Seq(Items)]
         /\ phase' \in [Workers -> Phases]
         /\ stamp' \in [Workers -> Stamps]
         /\ err' \in [Workers -> Errors]
         /\ BusyHasWork'
<1>1. batch' \in [Workers -> Seq(Items)] /\ phase' \in [Workers -> Phases]
  BY DEF TInv, TypeOK, ProcessEnds, Phases
<1>2. stamp' \in [Workers -> Stamps] /\ err' \in [Workers -> Errors]
  BY Zenon, StampsType DEF TInv, TypeOK, ProcessEnds, Errors
<1>3. BusyHasWork'
  BY Zenon DEF TInv, TypeOK, ProcessEnds, BusyHasWork
<1> QED
  BY Zenon, <1>1, <1>2, <1>3

\* The initial state is well formed.
LEMMA InitType == Init => TInv
BY ConstantsAssumption, StampsType
   DEF Init, TInv, TypeOK, BusyHasWork, Rows, States, Phases, Errors, None

\* Claiming and recovering keeps everything well formed.
LEMMA RunOnceType ==
  ASSUME TInv, NEW w \in Workers, RunOnce(w)
  PROVE  TInv'
<1>1. PICK s \in Batches(Recovered) : ClaimBatch(w, s)
  BY Zenon DEF RunOnce
<1>2. /\ s \in Seq(Claimable(Recovered)) /\ Len(s) \in Nat /\ DOMAIN s = 1..Len(s)
      /\ \A i \in DOMAIN s : s[i] \in Claimable(Recovered)
  BY BatchesType
<1>3. Recovered \in [Jobs -> Rows]
  BY Zenon, RecoveredType DEF TInv
<1>4. \A i \in DOMAIN s : Token(i) \in Nat
  BY <1>2 DEF Token, TInv, TypeOK
<1>5. ASSUME NEW j \in Jobs
      PROVE  job'[j] \in Rows
  <2>1. CASE \E i \in DOMAIN s : s[i] = j
    <3> DEFINE i == CHOOSE i \in DOMAIN s : s[i] = j
    <3>1. i \in DOMAIN s /\ s[i] = j
      BY Zenon, <2>1
    <3>2. Recovered[j] \in Rows /\ Recovered[j].attempts < MaxAttempts
      BY Zenon, <1>2, <1>3, <3>1 DEF Claimable
    <3>3. job'[j] = Leased(Recovered[j], Token(i))
      BY Zenon, <1>1, <2>1 DEF ClaimBatch
    <3>4. Token(i) \in Nat
      BY Zenon, <1>4, <3>1
    <3> HIDE DEF i
    <3> QED
      BY <3>2, <3>3, <3>4, ConstantsAssumption DEF Leased, Rows, States
  <2>2. CASE ~ \E i \in DOMAIN s : s[i] = j
    BY Zenon, <1>1, <1>3, <2>2 DEF ClaimBatch
  <2> QED
    BY Zenon, <2>1, <2>2
<1>6. job' \in [Jobs -> Rows]
  BY Zenon, <1>1, <1>5 DEF ClaimBatch
<1>7. nextToken' \in Nat \ {0}
  BY <1>1, <1>2 DEF ClaimBatch, TInv, TypeOK
<1>8. batch' \in [Workers -> Seq(Items)]
  <2>1. [i \in DOMAIN s |-> [job |-> s[i], token |-> Token(i)]] \in Seq(Items)
    <3>1. \A i \in 1..Len(s) : [job |-> s[i], token |-> Token(i)] \in Items
      BY Zenon, <1>2, <1>4 DEF Items, Claimable
    <3> QED
      BY <1>2, <3>1
  <2> QED
    BY Zenon, <1>1, <2>1 DEF ClaimBatch, TInv, TypeOK
<1>9. phase' \in [Workers -> Phases]
  BY Zenon, <1>1 DEF ClaimBatch, TInv, TypeOK, Phases, FirstPhase
<1>10. BusyHasWork'
  <2> SUFFICES ASSUME NEW v \in Workers, phase'[v] \notin {"poll", "down"}
               PROVE  batch'[v] # <<>>
    BY DEF BusyHasWork
  <2>1. CASE v = w
    <3>1. s # <<>>
      BY Zenon, <1>1, <2>1 DEF ClaimBatch, TInv, TypeOK
    <3>2. Len(s) # 0
      BY <1>2, <3>1
    <3>3. 1 \in DOMAIN s
      BY <1>2, <3>2
    <3>4. DOMAIN batch'[v] = DOMAIN s
      BY Zenon, <1>1, <2>1 DEF ClaimBatch, TInv, TypeOK
    <3>5. DOMAIN <<>> = {}
      OBVIOUS
    <3> QED
      BY <3>3, <3>4, <3>5, Zenon
  <2>2. CASE v # w
    BY Zenon, <1>1, <2>2 DEF ClaimBatch, TInv, TypeOK, BusyHasWork
  <2> QED
    BY Zenon, <2>1, <2>2
<1> QED
  BY Zenon, <1>6, <1>7, <1>8, <1>9, <1>10 DEF RunOnce, TInv, TypeOK, Rows

\* Every step keeps everything well formed.
LEMMA NextType == TInv /\ [Next]_vars => TInv'
<1> SUFFICES ASSUME TInv, [Next]_vars
             PROVE  TInv'
  BY Zenon
<1>1. ASSUME NEW w \in Workers, RunOnce(w)
      PROVE  TInv'
  BY Zenon, <1>1, RunOnceType
<1>2. ASSUME NEW w \in Workers, Stamp(w)
      PROVE  TInv'
  <2>1. phase' \in [Workers -> Phases]
    BY <1>2 DEF Stamp, TInv, TypeOK, Phases
  <2>2. stamp' \in [Workers -> Stamps]
    <3>1. (job[Head(batch[w]).job].lease > 0) \in BOOLEAN
      OBVIOUS
    <3> QED
      BY <1>2, <3>1, StampsType, Zenon DEF Stamp, TInv, TypeOK
  <2>3. BusyHasWork'
    BY Zenon, <1>2 DEF Stamp, TInv, TypeOK, BusyHasWork
  <2> QED
    BY Zenon, <1>2, <2>1, <2>2, <2>3 DEF Stamp, TInv, TypeOK
<1>3. ASSUME NEW w \in Workers, Heartbeat(w)
      PROVE  TInv'
  <2>1. CASE StillOwned(w)
    <3>1. job' \in [Jobs -> Rows]
      <4> DEFINE j == Head(batch[w]).job
      <4>1. j \in Jobs /\ stamp[w].age \in 0..Lease /\ job \in [Jobs -> Rows]
        BY Zenon, <1>3, HeadType, StampsType DEF Heartbeat, TInv, TypeOK
      <4>2. job' = [job EXCEPT ![j] = Extended(job[j], stamp[w].age)]
        BY <1>3, <2>1, Zenon DEF Heartbeat
      <4> HIDE DEF j
      <4> QED
        BY Zenon, <4>1, <4>2, RowsType, Update
    <3>2. phase' \in [Workers -> Phases] /\ BusyHasWork'
      BY <1>3, <2>1, Zenon DEF Heartbeat, TInv, TypeOK, Phases, BusyHasWork
    <3>3. stamp' \in [Workers -> Stamps]
      BY <1>3, <2>1, StampsType, Zenon DEF Heartbeat, TInv, TypeOK
    <3> QED
      BY <1>3, <2>1, <3>1, <3>2, <3>3 DEF Heartbeat, TInv, TypeOK
  <2>2. CASE ~StillOwned(w)
    <3>1. phase[w] \notin {"poll", "down"} /\ NextItem(w)
      BY <1>3, <2>2 DEF Heartbeat
    <3> QED
      BY Zenon, <1>3, <2>2, <3>1, NextItemType DEF Heartbeat, TInv, TypeOK
  <2> QED
    BY <2>1, <2>2
<1>4. ASSUME NEW w \in Workers, HeartbeatErrors(w)
      PROVE  TInv'
  <2>1. job' \in [Jobs -> Rows]
    <3> DEFINE j == Head(batch[w]).job
    <3>1. j \in Jobs /\ stamp[w].age \in 0..Lease /\ job \in [Jobs -> Rows]
      BY <1>4, HeadType, StampsType, Zenon DEF HeartbeatErrors, TInv, TypeOK
    <3>2. job' = job \/ job' = [job EXCEPT ![j] = Extended(job[j], stamp[w].age)]
      BY <1>4, Zenon DEF HeartbeatErrors
    <3> HIDE DEF j
    <3> QED
      BY <3>1, <3>2, RowsType, Update
  <2>2. phase' \in [Workers -> Phases] /\ BusyHasWork'
    BY Zenon, <1>4 DEF HeartbeatErrors, TInv, TypeOK, Phases, BusyHasWork
  <2>3. /\ stamp' \in [Workers -> Stamps]
        /\ err' \in [Workers -> Errors]
    BY Zenon, <1>4, StampsType DEF HeartbeatErrors, TInv, TypeOK, Errors
  <2> QED
    BY <1>4, <2>1, <2>2, <2>3 DEF HeartbeatErrors, TInv, TypeOK
<1>5. ASSUME NEW w \in Workers, Handle(w)
      PROVE  TInv'
  <2>1. runs' \in [Jobs -> Nat]
    <3> DEFINE j == Head(batch[w]).job
    <3>1. j \in Jobs /\ runs \in [Jobs -> Nat]
      BY <1>5, HeadType, Zenon DEF Handle, TInv, TypeOK
    <3>2. runs' = runs \/ runs' = [runs EXCEPT ![j] = runs[j] + 1]
      BY <1>5, Zenon DEF Handle
    <3> HIDE DEF j
    <3> QED
      BY <3>1, <3>2
  <2>2. phase' \in [Workers -> Phases] /\ BusyHasWork'
    BY Zenon, <1>5 DEF Handle, TInv, TypeOK, Phases, BusyHasWork
  <2> QED
    BY Zenon, <1>5, <2>1, <2>2 DEF Handle, TInv, TypeOK
<1>6. ASSUME NEW w \in Workers, HandleFails(w)
      PROVE  TInv'
  <2>1. runs' \in [Jobs -> Nat]
    <3> DEFINE j == Head(batch[w]).job
    <3>1. j \in Jobs /\ runs \in [Jobs -> Nat]
      BY <1>6, HeadType, Zenon DEF HandleFails, TInv, TypeOK
    <3>2. runs' = runs \/ runs' = [runs EXCEPT ![j] = runs[j] + 1]
      BY <1>6, Zenon DEF HandleFails
    <3> HIDE DEF j
    <3> QED
      BY <3>1, <3>2
  <2>2. phase' \in [Workers -> Phases] /\ BusyHasWork'
    BY Zenon, <1>6 DEF HandleFails, TInv, TypeOK, Phases, BusyHasWork
  <2>3. err' \in [Workers -> Errors]
    BY Zenon, <1>6 DEF HandleFails, TInv, TypeOK, Errors
  <2> QED
    BY Zenon, <1>6, <2>1, <2>2, <2>3 DEF HandleFails, TInv, TypeOK
<1>7. ASSUME NEW w \in Workers, Acknowledge(w)
      PROVE  TInv'
  <2>1. phase[w] \notin {"poll", "down"} /\ NextItem(w)
    BY Zenon, <1>7 DEF Acknowledge
  <2>2. job' \in [Jobs -> Rows] /\ runs' \in [Jobs -> Nat]
    <3> DEFINE j == Head(batch[w]).job
    <3>1. j \in Jobs /\ job \in [Jobs -> Rows] /\ runs \in [Jobs -> Nat]
      BY <1>7, HeadType, Zenon DEF Acknowledge, TInv, TypeOK
    <3>2. job' = job \/ job' = [job EXCEPT ![j] = Succeeded(job[j])]
      BY <1>7, Zenon DEF Acknowledge, Acknowledged
    <3>3. runs' = runs \/ runs' = [runs EXCEPT ![j] = runs[j] + 1]
      BY <1>7, Zenon DEF Acknowledge, Acknowledged
    <3> HIDE DEF j
    <3> QED
      BY <3>1, <3>2, <3>3, RowsType, Update
  <2> QED
    BY <1>7, <2>1, <2>2, NextItemType, Zenon DEF Acknowledge, TInv, TypeOK
<1>8. ASSUME NEW w \in Workers, AcknowledgeErrors(w)
      PROVE  TInv'
  <2>1. job' \in [Jobs -> Rows] /\ runs' \in [Jobs -> Nat]
    <3> DEFINE j == Head(batch[w]).job
    <3>1. j \in Jobs /\ job \in [Jobs -> Rows] /\ runs \in [Jobs -> Nat]
      BY <1>8, HeadType, Zenon DEF AcknowledgeErrors, TInv, TypeOK
    <3>2. job' = job \/ job' = [job EXCEPT ![j] = Succeeded(job[j])]
      BY <1>8, Zenon DEF AcknowledgeErrors, Acknowledged
    <3>3. runs' = runs \/ runs' = [runs EXCEPT ![j] = runs[j] + 1]
      BY <1>8, Zenon DEF AcknowledgeErrors, Acknowledged
    <3> HIDE DEF j
    <3> QED
      BY <3>1, <3>2, <3>3, RowsType, Update
  <2>2. CASE kind = "embed"
    <3>1. ProcessEnds(w)
      BY Zenon, <1>8, <2>2 DEF AcknowledgeErrors
    <3> QED
      BY Zenon, <1>8, <2>1, <3>1, ProcessEndsType DEF AcknowledgeErrors, TInv, TypeOK
  <2>3. CASE kind # "embed"
    <3>1. phase' \in [Workers -> Phases] /\ BusyHasWork'
      BY <1>8, <2>3, Zenon DEF AcknowledgeErrors, TInv, TypeOK, Phases, BusyHasWork
    <3>2. /\ stamp' \in [Workers -> Stamps]
          /\ err' \in [Workers -> Errors]
      BY <1>8, <2>3, StampsType, Zenon DEF AcknowledgeErrors, TInv, TypeOK, Errors
    <3> QED
      BY Zenon, <1>8, <2>1, <2>3, <3>1, <3>2 DEF AcknowledgeErrors, TInv, TypeOK
  <2> QED
    BY Zenon, <2>2, <2>3
<1>9. ASSUME NEW w \in Workers, Fail(w)
      PROVE  TInv'
  <2>1. phase[w] \notin {"poll", "down"}
    BY Zenon, <1>9 DEF Fail
  <2>2. job' \in [Jobs -> Rows]
    <3>1. err[w] \in Errors /\ (err[w] # "invalid_job") \in BOOLEAN
      BY Zenon DEF TInv, TypeOK
    <3>2. \A row \in Rows : Released(row, err[w], err[w] # "invalid_job") \in Rows
      BY <3>1, ReleasedType, Zenon
    <3> DEFINE j == Head(batch[w]).job
    <3>3. j \in Jobs /\ job \in [Jobs -> Rows]
      BY Zenon, <2>1, HeadType DEF TInv, TypeOK
    <3>4. \/ job' = job
          \/ job' = [job EXCEPT ![j] = Released(job[j], err[w], err[w] # "invalid_job")]
      BY <1>9, Zenon DEF Fail
    <3> HIDE DEF j
    <3> QED
      BY <3>2, <3>3, <3>4, Update
  <2>3. NextItem(w) \/ ProcessEnds(w)
    BY Zenon, <1>9 DEF Fail
  <2> QED
    BY <1>9, <2>1, <2>2, <2>3, NextItemType, ProcessEndsType, Zenon DEF Fail, TInv, TypeOK
<1>10. ASSUME NEW w \in Workers, Crash(w)
       PROVE  TInv'
  <2>1. ProcessEnds(w)
    BY Zenon, <1>10 DEF Crash
  <2> QED
    BY <1>10, <2>1, ProcessEndsType DEF Crash, TInv, TypeOK
<1>11. ASSUME NEW w \in Workers, Restart(w)
       PROVE  TInv'
  BY Zenon, <1>11 DEF Restart, TInv, TypeOK, Phases, BusyHasWork
<1>12. CASE Tick
  <2>1. job' \in [Jobs -> Rows]
    BY Zenon, <1>12, RowsType DEF Tick, TInv, TypeOK
  <2>2. stamp' \in [Workers -> Stamps]
    BY Zenon, <1>12, StampsType DEF Tick, TInv, TypeOK
  <2> QED
    BY Zenon, <1>12, <2>1, <2>2 DEF Tick, TInv, TypeOK, BusyHasWork
<1>13. CASE UNCHANGED vars
  BY <1>13 DEF vars, TInv, TypeOK, BusyHasWork
<1> QED
  BY ZenonT(60), <1>1, <1>2, <1>3, <1>4, <1>5, <1>6, <1>7, <1>8, <1>9, <1>10, <1>11, <1>12, <1>13
  DEF Next, Step

\* The invariant behind type correctness.
LEMMA TInvAlways == Spec => []TInv
BY InitType, NextType, PTL DEF Spec

\* The rows, the batches and the stamps are well formed in every state of every
\* instance (any set of jobs and workers, any attempt limit and lease length).
THEOREM TypeCorrect == Spec => []TypeOK
<1>1. TInv => TypeOK
  BY DEF TInv
<1> QED
  BY <1>1, TInvAlways, PTL

----------------------------------------------------------------------------
(* What one step can do to one row and to its count of handler commits.     *)

Kept(j) ==
  \/ job'[j] = job[j]
  \/ job'[j] = Aged(job[j])
  \/ \E age \in 0..Lease : job'[j] = Extended(job[j], age)

GivenBack(j) ==
  /\ job[j].state = "leased"
  /\ \E code \in Errors : job'[j] = Released(job[j], code, code # "invalid_job")

\* A claim takes a row that was pending, or that this very step gave back.
Taken(j) ==
  /\ Recovered[j].attempts < MaxAttempts
  /\ \E t \in Nat : job'[j] = Leased(Recovered[j], t)
  /\ job[j].state \in {"pending", "leased"}

Done(j) == job[j].state = "leased" /\ job'[j] = Succeeded(job[j])

RowStep(j) ==
  \/ (Kept(j) \/ GivenBack(j) \/ Taken(j)) /\ runs'[j] = runs[j]
  \/ Done(j) /\ runs'[j] = IF OneTransaction THEN runs[j] + 1 ELSE runs[j]
  \/ job'[j] = job[j] /\ ~OneTransaction /\ runs'[j] = runs[j] + 1

\* Recovery leaves a row alone or gives an expired lease back.
LEMMA RecoveredRow ==
  ASSUME TInv, NEW j \in Jobs
  PROVE  \/ Recovered[j] = job[j]
         \/ /\ job[j].state = "leased"
            /\ Recovered[j] = Released(job[j], "lease_expired", "lease_expired" # "invalid_job")
<1>1. Recovered[j] = IF job[j].state = "leased" /\ job[j].lease = 0
                       THEN Released(job[j], "lease_expired", TRUE) ELSE job[j]
  BY DEF Recovered
<1>2. ("lease_expired" # "invalid_job") = TRUE
  OBVIOUS
<1>3. Released(job[j], "lease_expired", TRUE)
        = Released(job[j], "lease_expired", "lease_expired" # "invalid_job")
  BY <1>2, Zenon
<1> QED
  BY <1>1, <1>3, Zenon

\* Every step of the system is one of these for every row.
LEMMA EveryRowStep ==
  ASSUME TInv, [Next]_vars, NEW j \in Jobs
  PROVE  RowStep(j)
<1>t. job \in [Jobs -> Rows] /\ runs \in [Jobs -> Nat]
  BY Zenon DEF TInv, TypeOK
<1>1. ASSUME NEW w \in Workers, RunOnce(w)
      PROVE  RowStep(j)
  <2>1. PICK s \in Batches(Recovered) : ClaimBatch(w, s)
    BY Zenon, <1>1 DEF RunOnce
  <2>2. /\ DOMAIN s = 1..Len(s) /\ Len(s) \in Nat
        /\ \A i \in DOMAIN s : s[i] \in Claimable(Recovered)
    BY BatchesType
  <2>3. runs'[j] = runs[j]
    BY Zenon, <1>1 DEF RunOnce
  <2>4. CASE \E i \in DOMAIN s : s[i] = j
    <3> DEFINE i == CHOOSE i \in DOMAIN s : s[i] = j
    <3>1. i \in DOMAIN s /\ s[i] = j
      BY Zenon, <2>4
    <3>2. job'[j] = Leased(Recovered[j], Token(i))
      BY Zenon, <2>1, <2>4 DEF ClaimBatch
    <3>3. Recovered[j].attempts < MaxAttempts /\ Recovered[j].state = "pending"
      BY Zenon, <2>2, <3>1 DEF Claimable
    <3>4. Token(i) \in Nat
      BY <2>2, <3>1 DEF Token, TInv, TypeOK
    <3>5. job[j].state \in {"pending", "leased"}
      BY Zenon, <3>3, RecoveredRow
    <3> HIDE DEF i
    <3> QED
      BY Zenon, <2>3, <3>2, <3>3, <3>4, <3>5 DEF RowStep, Taken
  <2>5. CASE ~ \E i \in DOMAIN s : s[i] = j
    <3>1. job'[j] = Recovered[j]
      BY Zenon, <2>1, <2>5 DEF ClaimBatch
    <3>2. "lease_expired" \in Errors
      BY Zenon DEF Errors
    <3> QED
      BY <2>3, <3>1, <3>2, RecoveredRow, Zenon DEF RowStep, Kept, GivenBack
  <2> QED
    BY Zenon, <2>4, <2>5
<1>2. ASSUME NEW w \in Workers, Heartbeat(w) \/ HeartbeatErrors(w)
      PROVE  RowStep(j)
  <2> DEFINE x == Head(batch[w]).job
  <2>1. \/ job' = job
        \/ job' = [job EXCEPT ![x] = Extended(job[x], stamp[w].age)]
    BY <1>2, Zenon DEF Heartbeat, HeartbeatErrors
  <2>2. stamp[w].age \in 0..Lease /\ runs' = runs
    BY Zenon, <1>2, StampsType DEF Heartbeat, HeartbeatErrors, TInv, TypeOK
  <2> HIDE DEF x
  <2> QED
    BY Zenon, <1>t, <2>1, <2>2 DEF RowStep, Kept
<1>3. ASSUME NEW w \in Workers, Handle(w) \/ HandleFails(w)
      PROVE  RowStep(j)
  <2> DEFINE x == Head(batch[w]).job
  <2>1. \/ runs' = runs
        \/ ~OneTransaction /\ runs' = [runs EXCEPT ![x] = runs[x] + 1]
    BY <1>3, Zenon DEF Handle, HandleFails
  <2>2. job' = job
    BY Zenon, <1>3 DEF Handle, HandleFails
  <2> HIDE DEF x
  <2> QED
    BY Zenon, <1>t, <2>1, <2>2 DEF RowStep, Kept
<1>4. ASSUME NEW w \in Workers, Acknowledge(w) \/ AcknowledgeErrors(w)
      PROVE  RowStep(j)
  <2> DEFINE x == Head(batch[w]).job
  <2>1. \/ job' = job /\ runs' = runs
        \/ /\ job[x].state = "leased"
           /\ job' = [job EXCEPT ![x] = Succeeded(job[x])]
           /\ runs' = IF OneTransaction THEN [runs EXCEPT ![x] = runs[x] + 1] ELSE runs
    BY <1>4, Zenon DEF Acknowledge, AcknowledgeErrors, Acknowledged, StillOwned
  <2> HIDE DEF x
  <2> QED
    BY Zenon, <1>t, <2>1 DEF RowStep, Kept, Done
<1>5. ASSUME NEW w \in Workers, Fail(w)
      PROVE  RowStep(j)
  <2> DEFINE x == Head(batch[w]).job
  <2>1. \/ job' = job
        \/ /\ job[x].state = "leased"
           /\ job' = [job EXCEPT ![x] = Released(job[x], err[w], err[w] # "invalid_job")]
    BY <1>5, Zenon DEF Fail, StillOwned
  <2>2. runs' = runs /\ err[w] \in Errors
    BY Zenon, <1>5 DEF Fail, TInv, TypeOK
  <2> HIDE DEF x
  <2>3. \/ job'[j] = job[j]
        \/ /\ job[j].state = "leased"
           /\ job'[j] = Released(job[j], err[w], err[w] # "invalid_job")
    BY <1>t, <2>1, Zenon
  <2> QED
    BY <2>2, <2>3, Zenon DEF RowStep, Kept, GivenBack
<1>6. ASSUME NEW w \in Workers, Stamp(w) \/ Crash(w) \/ Restart(w)
      PROVE  RowStep(j)
  BY Zenon, <1>6 DEF Stamp, Crash, Restart, RowStep, Kept
<1>7. CASE Tick
  BY Zenon, <1>7 DEF Tick, RowStep, Kept
<1>8. CASE UNCHANGED vars
  BY Zenon, <1>8 DEF vars, RowStep, Kept
<1> QED
  BY ZenonT(60), <1>1, <1>2, <1>3, <1>4, <1>5, <1>6, <1>7, <1>8 DEF Next, Step

----------------------------------------------------------------------------
(* Exactly once.                                                            *)

\* A worker executes one run_once for good.
LEMMA KindFixed == [Next]_vars => kind' = kind
<1>1. CASE Tick
  BY Zenon, <1>1 DEF Tick
<1>2. ASSUME NEW w \in Workers, Crash(w) PROVE kind' = kind
  BY Zenon, <1>2 DEF Crash
<1>3. ASSUME NEW w \in Workers, Step(w) PROVE kind' = kind
  BY Zenon, <1>3 DEF Step, RunOnce, Stamp, Heartbeat, HeartbeatErrors, Handle, HandleFails,
              Acknowledge, AcknowledgeErrors, Fail, Restart
<1>4. CASE UNCHANGED vars
  BY Zenon, <1>4 DEF vars
<1> QED
  BY Zenon, <1>1, <1>2, <1>3, <1>4 DEF Next

\* For embedding and purge jobs the handler's writes are committed exactly once
\* when the job succeeded and not at all otherwise, in every instance: no crash,
\* expired lease, second claim or lost reply can commit them twice or lose them.
THEOREM ExactlyOnce == Spec => []EffectIffSucceeded
<1>1. Init => EffectIffSucceeded
  BY Zenon DEF Init, EffectIffSucceeded
<1>2. TInv /\ EffectIffSucceeded /\ [Next]_vars => EffectIffSucceeded'
  <2> SUFFICES ASSUME TInv, EffectIffSucceeded, [Next]_vars, OneTransaction, NEW j \in Jobs
               PROVE  runs'[j] = IF job'[j].state = "succeeded" THEN 1 ELSE 0
    BY Zenon, KindFixed DEF EffectIffSucceeded, OneTransaction
  <2>1. RowStep(j)
    BY Zenon, EveryRowStep
  <2>2. /\ job[j] \in Rows /\ runs[j] \in Nat
        /\ runs[j] = IF job[j].state = "succeeded" THEN 1 ELSE 0
    BY Zenon DEF TInv, TypeOK, EffectIffSucceeded
  <2>3. CASE Kept(j) /\ runs'[j] = runs[j]
    <3>1. job'[j].state = job[j].state
      BY <2>2, <2>3, Zenon DEF Kept, Aged, Extended, Rows
    <3> QED
      BY Zenon, <2>2, <2>3, <3>1
  <2>4. CASE GivenBack(j) /\ runs'[j] = runs[j]
    <3>1. job'[j].state \in {"dead", "pending"} /\ job[j].state = "leased"
      BY <2>4 DEF GivenBack, Released
    <3> QED
      BY Zenon, <2>2, <2>4, <3>1
  <2>5. CASE Taken(j) /\ runs'[j] = runs[j]
    <3>1. job'[j].state = "leased" /\ job[j].state # "succeeded"
      BY <2>5 DEF Taken, Leased
    <3> QED
      BY Zenon, <2>2, <2>5, <3>1
  <2>6. CASE Done(j) /\ runs'[j] = runs[j] + 1
    <3>1. job'[j].state = "succeeded" /\ job[j].state = "leased"
      BY <2>6 DEF Done, Succeeded
    <3> QED
      BY <2>2, <2>6, <3>1
  <2> QED
    BY Zenon, <2>1, <2>3, <2>4, <2>5, <2>6 DEF RowStep
<1> QED
  BY <1>1, <1>2, TInvAlways, PTL DEF Spec

----------------------------------------------------------------------------
(* No job is stranded.                                                      *)

\* In every instance a pending job has an attempt left, and a dead one used its
\* attempts up or was called invalid by its handler.
THEOREM NeverStranded == Spec => []NothingStranded
<1>1. Init => NothingStranded
  BY ConstantsAssumption DEF Init, NothingStranded
<1>2. TInv /\ NothingStranded /\ [Next]_vars => NothingStranded'
  <2> DEFINE Good(row) == /\ row.state = "pending" => row.attempts < MaxAttempts
                          /\ row.state = "dead" => \/ row.attempts = MaxAttempts
                                                   \/ row.error = "invalid_job"
  <2> SUFFICES ASSUME TInv, NothingStranded, [Next]_vars, NEW j \in Jobs
               PROVE  Good(job'[j])
    BY Zenon DEF NothingStranded
  <2>1. RowStep(j)
    BY Zenon, EveryRowStep
  <2>2. job[j] \in Rows /\ Good(job[j])
    BY Zenon DEF TInv, TypeOK, NothingStranded
  <2>3. CASE Kept(j)
    BY <2>2, <2>3, Zenon DEF Kept, Aged, Extended, Rows
  <2>4. CASE GivenBack(j)
    <3>1. PICK code \in Errors : job'[j] = Released(job[j], code, code # "invalid_job")
      BY Zenon, <2>4 DEF GivenBack
    <3>2. CASE code # "invalid_job"
      BY <2>2, <3>1, <3>2, ConstantsAssumption DEF Released, Rows
    <3>3. CASE code = "invalid_job"
      BY <2>2, <3>1, <3>3 DEF Released, Rows
    <3> QED
      BY Zenon, <3>2, <3>3
  <2>5. CASE Taken(j) \/ Done(j)
    <3>1. Taken(j) => job'[j].state = "leased"
      BY DEF Taken, Leased
    <3>2. Done(j) => job'[j].state = "succeeded"
      BY DEF Done, Succeeded
    <3> QED
      BY Zenon, <2>5, <3>1, <3>2
  <2> QED
    BY Zenon, <2>1, <2>2, <2>3, <2>4, <2>5 DEF RowStep
<1> QED
  BY <1>1, <1>2, TInvAlways, PTL DEF Spec

----------------------------------------------------------------------------
(* The lease token fences.                                                  *)

\* Tokens in batches and on leased rows were all handed out before.
TokensUsed ==
  /\ \A w \in Workers : \A i \in DOMAIN batch[w] : batch[w][i].token < nextToken
  /\ \A j \in Jobs : job[j].state = "leased" => job[j].owner < nextToken

TokenInv == TokensUsed /\ LeaseFence

\* A step that claims nothing: no new lease, and batches only shrink.
Quiet ==
  /\ nextToken' = nextToken
  /\ \A j \in Jobs : job'[j].state = "leased"
        => job[j].state = "leased" /\ job'[j].owner = job[j].owner
  /\ \A w \in Workers : \/ batch'[w] = batch[w]
                        \/ batch[w] # <<>> /\ batch'[w] = Tail(batch[w])
                        \/ batch'[w] = <<>>

\* Ticks and heartbeats keep state and owner of a row.
LEMMA OwnerKept ==
  ASSUME NEW row \in Rows
  PROVE  /\ Aged(row).state = row.state /\ Aged(row).owner = row.owner
         /\ \A age : /\ Extended(row, age).state = row.state
                     /\ Extended(row, age).owner = row.owner
BY Zenon DEF Rows, Aged, Extended

\* A row given back or done is leased to nobody.
LEMMA NoNewLease ==
  ASSUME NEW row
  PROVE  /\ \A code, r : Released(row, code, r).state # "leased"
         /\ Succeeded(row).state # "leased"
BY Zenon DEF Released, Succeeded

\* Every step but a claim is quiet.
LEMMA QuietStep ==
  ASSUME TInv, [Next]_vars
  PROVE  Quiet \/ \E w \in Workers : RunOnce(w)
<1>t. job \in [Jobs -> Rows] /\ batch \in [Workers -> Seq(Items)]
  BY Zenon DEF TInv, TypeOK
<1>1. ASSUME NEW w \in Workers, Heartbeat(w) \/ HeartbeatErrors(w)
      PROVE  Quiet
  <2> DEFINE x == Head(batch[w]).job
  <2>1. \/ job' = job
        \/ job' = [job EXCEPT ![x] = Extended(job[x], stamp[w].age)]
    BY <1>1, Zenon DEF Heartbeat, HeartbeatErrors
  <2>2. batch' = batch \/ batch' = [batch EXCEPT ![w] = Tail(batch[w])]
    BY Zenon, <1>1 DEF Heartbeat, HeartbeatErrors, NextItem
  <2>3. batch[w] # <<>> /\ nextToken' = nextToken
    BY Zenon, <1>1 DEF Heartbeat, HeartbeatErrors, TInv, BusyHasWork
  <2> HIDE DEF x
  <2>4. ASSUME NEW j \in Jobs
        PROVE  job'[j].state = job[j].state /\ job'[j].owner = job[j].owner
    BY <1>t, <2>1, OwnerKept
  <2> QED
    BY Zenon, <1>t, <2>2, <2>3, <2>4 DEF Quiet
<1>2. ASSUME NEW w \in Workers, Acknowledge(w) \/ AcknowledgeErrors(w)
      PROVE  Quiet
  <2> DEFINE x == Head(batch[w]).job
  <2>1. job' = job \/ job' = [job EXCEPT ![x] = Succeeded(job[x])]
    BY <1>2, Zenon DEF Acknowledge, AcknowledgeErrors, Acknowledged
  <2>2. \/ batch' = batch \/ batch' = [batch EXCEPT ![w] = Tail(batch[w])]
        \/ batch' = [batch EXCEPT ![w] = <<>>]
    BY <1>2 DEF Acknowledge, AcknowledgeErrors, NextItem, ProcessEnds
  <2>3. batch[w] # <<>> /\ nextToken' = nextToken
    BY <1>2 DEF Acknowledge, AcknowledgeErrors, TInv, BusyHasWork
  <2> HIDE DEF x
  <2> QED
    BY ZenonT(60), <1>t, <2>1, <2>2, <2>3, NoNewLease DEF Quiet
<1>3. ASSUME NEW w \in Workers, Fail(w)
      PROVE  Quiet
  <2> DEFINE x == Head(batch[w]).job
             rel == Released(job[x], err[w], err[w] # "invalid_job")
  <2>1. job' = job \/ job' = [job EXCEPT ![x] = rel]
    BY <1>3, Zenon DEF Fail
  <2>2. \/ batch' = [batch EXCEPT ![w] = Tail(batch[w])]
        \/ batch' = [batch EXCEPT ![w] = <<>>]
    BY Zenon, <1>3 DEF Fail, NextItem, ProcessEnds
  <2>3. batch[w] # <<>> /\ nextToken' = nextToken
    BY Zenon, <1>3 DEF Fail, TInv, BusyHasWork
  <2>4. rel.state # "leased"
    BY Zenon DEF Released
  <2> HIDE DEF x, rel
  <2> QED
    BY Zenon, <1>t, <2>1, <2>2, <2>3, <2>4 DEF Quiet
<1>4. ASSUME NEW w \in Workers, Handle(w) \/ HandleFails(w) \/ Stamp(w) \/ Restart(w)
      PROVE  Quiet
  BY Zenon, <1>4 DEF Handle, HandleFails, Stamp, Restart, Quiet
<1>5. ASSUME NEW w \in Workers, Crash(w)
      PROVE  Quiet
  BY Zenon, <1>t, <1>5 DEF Crash, ProcessEnds, Quiet
<1>6. CASE Tick
  BY Zenon, <1>t, <1>6, OwnerKept DEF Tick, Quiet
<1>7. CASE UNCHANGED vars
  BY Zenon, <1>7 DEF vars, Quiet
<1> QED
  BY ZenonT(60), <1>1, <1>2, <1>3, <1>4, <1>5, <1>6, <1>7 DEF Next, Step

\* Shrinking a batch keeps its items, at most one place further to the front.
LEMMA ShrunkBatch ==
  ASSUME TInv, Quiet, NEW w \in Workers
  PROVE  \E d \in {0, 1} : \A i \in DOMAIN batch'[w] :
           i + d \in DOMAIN batch[w] /\ batch'[w][i] = batch[w][i + d]
<1>1. batch[w] \in Seq(Items)
  BY Zenon DEF TInv, TypeOK
<1>2. CASE batch'[w] = batch[w]
  <2>1. \A i \in DOMAIN batch[w] : i + 0 = i
    BY <1>1
  <2> QED
    BY Zenon, <1>2, <2>1
<1>3. CASE batch[w] # <<>> /\ batch'[w] = Tail(batch[w])
  BY <1>1, <1>3
<1>4. CASE batch'[w] = <<>>
  BY <1>4
<1> QED
  BY Zenon, <1>2, <1>3, <1>4 DEF Quiet

\* Quiet steps keep the fence.
LEMMA QuietKeepsFence ==
  ASSUME TInv, TokenInv, Quiet
  PROVE  TokenInv'
<1>1. TokensUsed'
  BY Zenon, ShrunkBatch DEF Quiet, TokenInv, TokensUsed
<1>2. LeaseFence'
  <2> SUFFICES ASSUME NEW w1 \in Workers, NEW w2 \in Workers,
                      NEW i1 \in DOMAIN batch'[w1], NEW i2 \in DOMAIN batch'[w2]
               PROVE  /\ batch'[w1][i1].token = batch'[w2][i2].token => w1 = w2 /\ i1 = i2
                      /\ \A j \in Jobs :
                           job'[j].state = "leased" /\ job'[j].owner = batch'[w1][i1].token
                             => batch'[w1][i1].job = j
    BY Zenon DEF LeaseFence
  <2>1. PICK d1 \in {0, 1} : \A i \in DOMAIN batch'[w1] :
               i + d1 \in DOMAIN batch[w1] /\ batch'[w1][i] = batch[w1][i + d1]
    BY Zenon, ShrunkBatch
  <2>2. PICK d2 \in {0, 1} : \A i \in DOMAIN batch'[w2] :
               i + d2 \in DOMAIN batch[w2] /\ batch'[w2][i] = batch[w2][i + d2]
    BY Zenon, ShrunkBatch
  <2>3. CASE w1 = w2
    <3>1. batch'[w2][i2] = batch[w2][i2 + d1] /\ i2 + d1 \in DOMAIN batch[w2]
      BY Zenon, <2>1, <2>3
    <3>2. DOMAIN batch'[w1] \subseteq Int
      <4>1. batch[w1] \in Seq(Items)
        BY Zenon DEF TInv, TypeOK
      <4>2. batch[w1] # <<>> => Tail(batch[w1]) \in Seq(Items)
        BY <4>1
      <4>3. <<>> \in Seq(Items)
        OBVIOUS
      <4>4. batch'[w1] \in Seq(Items)
        BY <4>1, <4>2, <4>3, Zenon DEF Quiet
      <4> QED
        BY <4>4
    <3> QED
      BY <2>1, <2>3, <3>1, <3>2 DEF TokenInv, LeaseFence, Quiet
  <2>4. CASE w1 # w2
    BY <2>1, <2>2, <2>4 DEF TokenInv, LeaseFence, Quiet
  <2> QED
    BY Zenon, <2>3, <2>4
<1> QED
  BY Zenon, <1>1, <1>2 DEF TokenInv

\* A claim keeps the fence: its tokens are new and each goes with one row.
LEMMA ClaimKeepsFence ==
  ASSUME TInv, TokenInv, NEW w \in Workers, RunOnce(w)
  PROVE  TokenInv'
<1>t. job \in [Jobs -> Rows] /\ batch \in [Workers -> Seq(Items)] /\ nextToken \in Nat
  BY Zenon DEF TInv, TypeOK
<1>1. PICK s \in Batches(Recovered) : ClaimBatch(w, s)
  BY Zenon DEF RunOnce
<1>2. /\ DOMAIN s = 1..Len(s) /\ Len(s) \in Nat
      /\ \A a, b \in DOMAIN s : s[a] = s[b] => a = b
      /\ \A i \in DOMAIN s : s[i] \in Jobs
  <2>1. /\ s \in Seq(Claimable(Recovered)) /\ DOMAIN s = 1..Len(s) /\ Len(s) \in Nat
        /\ \A a, b \in DOMAIN s : s[a] = s[b] => a = b
    BY Zenon, BatchesType
  <2>2. Claimable(Recovered) \subseteq Jobs
    BY Zenon DEF Claimable
  <2>3. \A i \in DOMAIN s : s[i] \in Claimable(Recovered)
    BY <2>1
  <2> QED
    BY Zenon, <2>1, <2>2, <2>3
<1>3. nextToken' = nextToken + Len(s)
  BY Zenon, <1>1 DEF ClaimBatch
<1>4. /\ DOMAIN batch'[w] = DOMAIN s
      /\ \A i \in DOMAIN s : batch'[w][i].job = s[i] /\ batch'[w][i].token = Token(i)
      /\ \A v \in Workers \ {w} : batch'[v] = batch[v]
  BY Zenon, <1>t, <1>1 DEF ClaimBatch
<1>5. \A i \in DOMAIN s : /\ Token(i) \in Nat /\ Token(i) >= nextToken
                         /\ Token(i) < nextToken'
  BY <1>t, <1>2, <1>3 DEF Token
<1>6. \A a, b \in DOMAIN s : Token(a) = Token(b) => a = b
  BY <1>t, <1>2 DEF Token
<1>7. ASSUME NEW j \in Jobs, job'[j].state = "leased"
      PROVE  \/ job[j].state = "leased" /\ job'[j].owner = job[j].owner
             \/ \E i \in DOMAIN s : s[i] = j /\ job'[j].owner = Token(i)
  <2>1. CASE \E i \in DOMAIN s : s[i] = j
    <3> DEFINE i == CHOOSE i \in DOMAIN s : s[i] = j
    <3>1. i \in DOMAIN s /\ s[i] = j
      BY Zenon, <2>1
    <3>2. job'[j] = Leased(Recovered[j], Token(i))
      BY Zenon, <1>1, <2>1 DEF ClaimBatch
    <3> HIDE DEF i
    <3>3. job'[j].owner = Token(i)
      BY <3>2 DEF Leased
    <3> QED
      BY Zenon, <3>1, <3>3
  <2>2. CASE ~ \E i \in DOMAIN s : s[i] = j
    <3>1. job'[j] = Recovered[j]
      BY Zenon, <1>1, <2>2 DEF ClaimBatch
    <3>2. Released(job[j], "lease_expired", "lease_expired" # "invalid_job").state # "leased"
      BY Zenon, NoNewLease
    <3>3. Recovered[j] = job[j]
      BY <1>7, <3>1, <3>2, RecoveredRow, Zenon
    <3> QED
      BY Zenon, <1>7, <3>1, <3>3
  <2> QED
    BY Zenon, <2>1, <2>2
<1>8. TokensUsed'
  <2>1. ASSUME NEW v \in Workers, NEW i \in DOMAIN batch'[v]
        PROVE  batch'[v][i].token < nextToken'
    <3>1. CASE v = w
      BY Zenon, <1>4, <1>5, <3>1
    <3>2. CASE v # w
      <4>1. batch'[v][i] = batch[v][i] /\ i \in DOMAIN batch[v] /\ batch[v] \in Seq(Items)
        BY ZenonT(60), <1>t, <1>4, <3>2, <2>1
      <4>2. batch[v][i] \in Items
        BY <4>1
      <4>3. batch[v][i].token \in Nat /\ batch[v][i].token < nextToken
        BY Zenon, <4>1, <4>2 DEF Items, TokenInv, TokensUsed
      <4> QED
        BY <1>t, <1>2, <1>3, <4>1, <4>3
    <3> QED
      BY Zenon, <3>1, <3>2
  <2>2. ASSUME NEW j \in Jobs, job'[j].state = "leased"
        PROVE  job'[j].owner < nextToken'
    <3>1. CASE job[j].state = "leased" /\ job'[j].owner = job[j].owner
      <4>1. job[j].owner \in Nat /\ job[j].owner < nextToken
        BY Zenon, <1>t, <3>1 DEF Rows, TokenInv, TokensUsed
      <4> QED
        BY <1>t, <1>2, <1>3, <3>1, <4>1
    <3>2. CASE \E i \in DOMAIN s : s[i] = j /\ job'[j].owner = Token(i)
      BY Zenon, <1>5, <3>2
    <3> QED
      BY ZenonT(60), <1>7, <2>2, <3>1, <3>2
  <2> QED
    BY Zenon, <2>1, <2>2 DEF TokensUsed
<1>9. ASSUME NEW v \in Workers \ {w}, NEW i \in DOMAIN batch[v]
      PROVE  batch[v][i].token \in Nat /\ batch[v][i].token < nextToken
  <2>1. batch[v] \in Seq(Items)
    BY Zenon, <1>t
  <2>2. batch[v][i] \in Items
    BY <1>9, <2>1
  <2> QED
    BY Zenon, <1>9, <2>2 DEF Items, TokenInv, TokensUsed
<1>f. \A v \in Workers : \A i \in DOMAIN batch[v] : \A j \in Jobs :
        job[j].state = "leased" /\ job[j].owner = batch[v][i].token => batch[v][i].job = j
  BY DEF TokenInv, LeaseFence
<1>10. LeaseFence'
  <2> SUFFICES ASSUME NEW w1 \in Workers, NEW w2 \in Workers,
                      NEW i1 \in DOMAIN batch'[w1], NEW i2 \in DOMAIN batch'[w2]
               PROVE  /\ batch'[w1][i1].token = batch'[w2][i2].token => w1 = w2 /\ i1 = i2
                      /\ \A j \in Jobs :
                           job'[j].state = "leased" /\ job'[j].owner = batch'[w1][i1].token
                             => batch'[w1][i1].job = j
    BY Zenon DEF LeaseFence
  <2>1. batch'[w1][i1].token = batch'[w2][i2].token => w1 = w2 /\ i1 = i2
    <3>1. CASE w1 = w /\ w2 = w
      BY <1>4, <1>6, <3>1
    <3>2. CASE w1 = w /\ w2 # w
      BY <1>t, <1>4, <1>5, <1>9, <3>2
    <3>3. CASE w1 # w /\ w2 = w
      BY <1>t, <1>4, <1>5, <1>9, <3>3
    <3>4. CASE w1 # w /\ w2 # w
      BY <1>4, <3>4 DEF TokenInv, LeaseFence
    <3> QED
      BY ZenonT(60), <3>1, <3>2, <3>3, <3>4
  <2>2. ASSUME NEW j \in Jobs, job'[j].state = "leased", job'[j].owner = batch'[w1][i1].token
        PROVE  batch'[w1][i1].job = j
    <3>1. CASE job[j].state = "leased" /\ job'[j].owner = job[j].owner
      <4>1. job[j].owner \in Nat /\ job[j].owner < nextToken
        BY Zenon, <1>t, <3>1 DEF Rows, TokenInv, TokensUsed
      <4>2. ASSUME w1 = w
            PROVE  FALSE
        <5>1. i1 \in DOMAIN s /\ job[j].owner = Token(i1)
          BY <1>4, <2>2, <3>1, <4>2, Zenon
        <5> QED
          BY <1>t, <1>5, <4>1, <5>1
      <4>3. batch'[w1] = batch[w1]
        BY Zenon, <1>4, <4>2
      <4>4. i1 \in DOMAIN batch[w1] /\ job[j].owner = batch[w1][i1].token
        BY <2>2, <3>1, <4>3, Zenon
      <4>5. batch[w1][i1].job = j
        BY Zenon, <1>f, <3>1, <4>4
      <4> QED
        BY ZenonT(60), <4>3, <4>5
    <3>2. CASE \E i \in DOMAIN s : s[i] = j /\ job'[j].owner = Token(i)
      <4>1. PICK i \in DOMAIN s : s[i] = j /\ job'[j].owner = Token(i)
        BY Zenon, <3>2
      <4>2. ASSUME w1 # w
            PROVE  FALSE
        <5>1. i1 \in DOMAIN batch[w1] /\ batch[w1][i1].token = Token(i)
          BY <1>4, <2>2, <4>1, <4>2, Zenon
        <5>2. batch[w1][i1].token \in Nat /\ batch[w1][i1].token < nextToken
          BY ZenonT(60), <1>9, <4>2, <5>1
        <5> QED
          BY <1>t, <1>5, <4>1, <5>1, <5>2
      <4>3. i1 \in DOMAIN s /\ Token(i1) = Token(i)
        BY <1>4, <2>2, <4>1, <4>2, Zenon
      <4> QED
        BY Zenon, <1>4, <1>6, <4>1, <4>2, <4>3
    <3> QED
      BY ZenonT(60), <1>7, <2>2, <3>1, <3>2
  <2> QED
    BY Zenon, <2>1, <2>2
<1> QED
  BY Zenon, <1>8, <1>10 DEF TokenInv

\* The fence and the freshness of tokens, along every behaviour.
LEMMA TokenInvAlways == Spec => []TokenInv
<1>1. Init => TokenInv
  BY DEF Init, TokenInv, TokensUsed, LeaseFence
<1>2. TInv /\ TokenInv /\ [Next]_vars => TokenInv'
  BY Zenon, QuietStep, QuietKeepsFence, ClaimKeepsFence
<1> QED
  BY <1>1, <1>2, TInvAlways, PTL DEF Spec

\* In every instance a row's current token is held by at most one worker and for
\* that row only, so a worker that lost its lease can no longer write to the row.
THEOREM Fenced == Spec => []LeaseFence
<1>1. TokenInv => LeaseFence
  BY Zenon DEF TokenInv
<1> QED
  BY <1>1, TokenInvAlways, PTL

----------------------------------------------------------------------------
(* A lease is ended by its holder or by time.                               *)

\* A sequence without its first element is another sequence.
LEMMA TailDiffers ==
  ASSUME NEW S, NEW s \in Seq(S), s # <<>>
  PROVE  Tail(s) # s
<1>1. Len(s) \in Nat /\ Len(s) # 0
  OBVIOUS
<1>2. Len(Tail(s)) = Len(s) - 1
  BY <1>1
<1>3. Len(s) - 1 # Len(s)
  BY <1>1
<1> QED
  BY Zenon, <1>2, <1>3

\* A row that changes hands while its lease runs was leased to the token that the
\* worker taking the step holds for the job in hand, and that worker moves on.
LEMMA HolderMoves ==
  ASSUME TInv, [Next]_vars, NEW j \in Jobs,
         job[j].state = "leased", job[j].lease > 0, job'[j].owner # job[j].owner
  PROVE  \E w \in Workers : /\ batch[w] # <<>> /\ Head(batch[w]).token = job[j].owner
                            /\ batch'[w] # batch[w] \/ phase'[w] = "failing"
<1> DEFINE Moves(w) == /\ batch[w] # <<>> /\ Head(batch[w]).token = job[j].owner
                       /\ batch'[w] # batch[w] \/ phase'[w] = "failing"
<1> SUFFICES \E w \in Workers : Moves(w)
  BY Zenon
<1>t. /\ job \in [Jobs -> Rows] /\ batch \in [Workers -> Seq(Items)]
      /\ phase \in [Workers -> Phases]
  BY Zenon DEF TInv, TypeOK
<1>1. ASSUME NEW w \in Workers, RunOnce(w)
      PROVE  FALSE
  <2>1. PICK s \in Batches(Recovered) : ClaimBatch(w, s)
    BY Zenon, <1>1 DEF RunOnce
  <2>2. \A i \in DOMAIN s : s[i] \in Claimable(Recovered)
    BY BatchesType
  <2>3. Recovered[j] = job[j]
    <3>1. job[j].lease # 0
      BY <1>t DEF Rows
    <3> QED
      BY Zenon, <3>1 DEF Recovered
  <2>4. ~ \E i \in DOMAIN s : s[i] = j
    BY <2>2, <2>3 DEF Claimable
  <2>5. job'[j] = job[j]
    BY Zenon, <2>1, <2>3, <2>4 DEF ClaimBatch
  <2> QED
    BY Zenon, <2>5
<1>2. ASSUME NEW w \in Workers, Heartbeat(w) \/ HeartbeatErrors(w)
      PROVE  FALSE
  <2> DEFINE x == Head(batch[w]).job
  <2>1. \/ job' = job
        \/ job' = [job EXCEPT ![x] = Extended(job[x], stamp[w].age)]
    BY <1>2, Zenon DEF Heartbeat, HeartbeatErrors
  <2> HIDE DEF x
  <2> QED
    BY <1>t, <2>1, OwnerKept
<1>3. ASSUME NEW w \in Workers, Acknowledge(w) \/ AcknowledgeErrors(w)
      PROVE  Moves(w)
  <2> DEFINE x == Head(batch[w]).job
  <2>1. \/ job' = job
        \/ /\ job[x].owner = Head(batch[w]).token
           /\ job' = [job EXCEPT ![x] = Succeeded(job[x])]
    BY <1>3, Zenon DEF Acknowledge, AcknowledgeErrors, Acknowledged, StillOwned
  <2>2. batch[w] # <<>>
    BY Zenon, <1>3 DEF Acknowledge, AcknowledgeErrors, TInv, BusyHasWork
  <2>3. \/ batch'[w] = Tail(batch[w]) \/ batch'[w] = <<>>
        \/ phase'[w] = "failing"
    BY Zenon, <1>t, <1>3 DEF Acknowledge, AcknowledgeErrors, NextItem, ProcessEnds
  <2>4. Tail(batch[w]) # batch[w]
    BY Zenon, <1>t, <2>2, TailDiffers
  <2> HIDE DEF x
  <2>5. j = x
    BY Zenon, <1>t, <2>1
  <2>6. job[j].owner = Head(batch[w]).token
    BY Zenon, <2>1, <2>5
  <2> QED
    BY <2>2, <2>3, <2>4, <2>6, Zenon
<1>4. ASSUME NEW w \in Workers, Fail(w)
      PROVE  Moves(w)
  <2> DEFINE x == Head(batch[w]).job
             rel == Released(job[x], err[w], err[w] # "invalid_job")
  <2>1. \/ job' = job
        \/ /\ job[x].owner = Head(batch[w]).token
           /\ job' = [job EXCEPT ![x] = rel]
    BY <1>4, Zenon DEF Fail, StillOwned
  <2>2. batch[w] # <<>>
    BY Zenon, <1>4 DEF Fail, TInv, BusyHasWork
  <2>3. batch'[w] = Tail(batch[w]) \/ batch'[w] = <<>>
    BY Zenon, <1>t, <1>4 DEF Fail, NextItem, ProcessEnds
  <2>4. Tail(batch[w]) # batch[w]
    BY <1>t, <2>2, TailDiffers
  <2> HIDE DEF x, rel
  <2>5. j = x
    BY Zenon, <1>t, <2>1
  <2>6. job[j].owner = Head(batch[w]).token
    BY Zenon, <2>1, <2>5
  <2> QED
    BY <2>2, <2>3, <2>4, <2>6, Zenon
<1>5. ASSUME NEW w \in Workers,
             Handle(w) \/ HandleFails(w) \/ Stamp(w) \/ Restart(w) \/ Crash(w)
      PROVE  FALSE
  BY Zenon, <1>5 DEF Handle, HandleFails, Stamp, Restart, Crash
<1>6. CASE Tick
  BY Zenon, <1>t, <1>6, OwnerKept DEF Tick
<1>7. CASE UNCHANGED vars
  BY Zenon, <1>7 DEF vars
<1> HIDE DEF Moves
<1> QED
  BY ZenonT(60), <1>1, <1>2, <1>3, <1>4, <1>5, <1>6, <1>7 DEF Next, Step

\* In every instance a settled job stays settled, and a lease that has time left is
\* ended by nobody but the worker whose token the row carries.
THEOREM Respected == Spec => LeaseRespected
<1> DEFINE Respects(j) ==
      /\ job[j].state \in Terminal => job'[j].state = job[j].state
      /\ job[j].state = "leased" /\ job[j].lease > 0 /\ job'[j].owner # job[j].owner
           => \E w \in Workers :
                /\ batch[w] # <<>> /\ Head(batch[w]).token = job[j].owner
                /\ batch'[w] # batch[w] \/ phase'[w] = "failing"
<1>1. TInv /\ [Next]_vars => [\A j \in Jobs : Respects(j)]_vars
  <2> SUFFICES ASSUME TInv, [Next]_vars, NEW j \in Jobs
               PROVE  Respects(j)
    BY Zenon
  <2>1. ASSUME job[j].state \in Terminal
        PROVE  job'[j].state = job[j].state
    <3>1. RowStep(j) /\ job[j] \in Rows
      BY Zenon, EveryRowStep DEF TInv, TypeOK
    <3>2. ~GivenBack(j) /\ ~Taken(j) /\ ~Done(j)
      BY Zenon, <2>1 DEF GivenBack, Taken, Done, Terminal
    <3>3. Kept(j)
      BY Zenon, <3>1, <3>2 DEF RowStep, Kept
    <3> QED
      BY <3>1, <3>3, OwnerKept DEF Kept
  <2> QED
    BY Zenon, <2>1, HolderMoves
<1> QED
  BY <1>1, TInvAlways, PTL DEF Spec, LeaseRespected

----------------------------------------------------------------------------
(* At least once, and no more often than claimed.                           *)

\* The phases in which the handler has not yet run for the job in hand.
Ahead == {"beat", "beating", "handle"}

\* The tokens under which some worker will still run the handler of row j.
Open(j) ==
  {t \in Nat : \E w \in Workers : \E i \in DOMAIN batch[w] :
     /\ batch[w][i].token = t /\ batch[w][i].job = j
     /\ i = 1 => phase[w] \in Ahead}

\* Every handler commit of row j, past or to come, has a claim of its own.
Accounted(j) ==
  /\ IsFiniteSet(Open(j))
  /\ runs[j] + Cardinality(Open(j)) <= job[j].attempts

\* A worker that settles a job has seen the handler commit.
SettlesRun ==
  \A w \in Workers :
    phase[w] \in {"settle", "ack"} => runs[Head(batch[w]).job] >= 1

CountInv ==
  kind = "lifecycle" =>
    /\ \A j \in Jobs : Accounted(j) /\ (job[j].state = "succeeded" => runs[j] >= 1)
    /\ SettlesRun

\* A worker that claims nothing has no more handlers ahead of it than before.
Recedes(w) ==
  \/ batch'[w] = batch[w] /\ (phase'[w] \in Ahead => phase[w] \in Ahead)
  \/ batch[w] # <<>> /\ batch'[w] = Tail(batch[w])
  \/ batch'[w] = <<>>

\* No step lowers the attempts of a row or its count of handler commits.
LEMMA CountsGrow ==
  ASSUME TInv, TInv', [Next]_vars, NEW j \in Jobs
  PROVE  /\ job[j].attempts \in Nat /\ job'[j].attempts \in Nat
         /\ job'[j].attempts >= job[j].attempts
         /\ runs[j] \in Nat /\ runs'[j] \in Nat /\ runs'[j] >= runs[j]
<1>1. job[j] \in Rows /\ job'[j] \in Rows /\ runs[j] \in Nat /\ runs'[j] \in Nat
  BY Zenon DEF TInv, TypeOK
<1>2. job[j].attempts \in Nat /\ job'[j].attempts \in Nat
  BY <1>1, ConstantsAssumption DEF Rows
<1>3. RowStep(j)
  BY Zenon, EveryRowStep
<1>4. runs'[j] >= runs[j]
  BY <1>1, <1>3 DEF RowStep
<1>5. /\ Aged(job[j]).attempts = job[j].attempts
      /\ \A age : Extended(job[j], age).attempts = job[j].attempts
      /\ \A code, r : Released(job[j], code, r).attempts = job[j].attempts
      /\ Succeeded(job[j]).attempts = job[j].attempts
  BY Zenon, <1>1 DEF Rows, Aged, Extended, Released, Succeeded
<1>6. Recovered[j].attempts = job[j].attempts
  BY <1>5, RecoveredRow, Zenon
<1>7. Taken(j) => job'[j].attempts = job[j].attempts + 1
  BY <1>6 DEF Taken, Leased
<1>8. Kept(j) \/ GivenBack(j) \/ Done(j) => job'[j].attempts = job[j].attempts
  BY Zenon, <1>5 DEF Kept, GivenBack, Done
<1>9. job'[j].attempts >= job[j].attempts
  BY <1>2, <1>3, <1>7, <1>8 DEF RowStep
<1> QED
  BY Zenon, <1>1, <1>2, <1>4, <1>9

\* Workers whose handlers recede open no token.
LEMMA OpenShrinks ==
  ASSUME TInv, NEW j \in Jobs, \A w \in Workers : Recedes(w)
  PROVE  Open(j)' \subseteq Open(j)
<1> SUFFICES ASSUME NEW t \in Nat, NEW w \in Workers, NEW i \in DOMAIN batch'[w],
                    batch'[w][i].token = t, batch'[w][i].job = j,
                    i = 1 => phase'[w] \in Ahead
             PROVE  t \in Open(j)
  BY Zenon DEF Open
<1>t. batch[w] \in Seq(Items)
  BY Zenon DEF TInv, TypeOK
<1>1. CASE batch'[w] = batch[w] /\ (phase'[w] \in Ahead => phase[w] \in Ahead)
  BY Zenon, <1>1 DEF Open
<1>2. CASE batch[w] # <<>> /\ batch'[w] = Tail(batch[w])
  <2>1. i + 1 \in DOMAIN batch[w] /\ batch'[w][i] = batch[w][i + 1] /\ i + 1 # 1
    BY <1>t, <1>2
  <2> HIDE DEF Ahead
  <2> QED
    BY Zenon, <2>1 DEF Open
<1>3. CASE batch'[w] = <<>>
  BY <1>3
<1> QED
  BY Zenon, <1>1, <1>2, <1>3 DEF Recedes

\* A handler of worker w commits for the job in hand.
Runs(w) ==
  /\ phase[w] = "handle" /\ batch' = batch
  /\ phase' = [phase EXCEPT ![w] = phase'[w]] /\ phase'[w] \notin Ahead
  /\ runs' = [runs EXCEPT ![Head(batch[w]).job] = runs[Head(batch[w]).job] + 1]

\* A lifecycle worker's step claims, or commits its handler once, or neither.
LEMMA ClaimRunOrRecede ==
  ASSUME TInv, [Next]_vars, kind = "lifecycle"
  PROVE  \/ \E w \in Workers : RunOnce(w)
         \/ \E w \in Workers : Runs(w)
         \/ runs' = runs /\ \A w \in Workers : Recedes(w)
<1> DEFINE Rests == runs' = runs /\ \A v \in Workers : Recedes(v)
<1>t. /\ batch \in [Workers -> Seq(Items)] /\ phase \in [Workers -> Phases]
      /\ runs \in [Jobs -> Nat]
  BY Zenon DEF TInv, TypeOK
<1>k. kind # "embed" /\ ~OneTransaction
  BY Zenon DEF OneTransaction
<1>1. ASSUME NEW w \in Workers, NextItem(w), batch[w] # <<>>
      PROVE  \A v \in Workers : Recedes(v)
  BY Zenon, <1>t, <1>1 DEF NextItem, Recedes
<1>2. ASSUME NEW w \in Workers, ProcessEnds(w)
      PROVE  \A v \in Workers : Recedes(v)
  BY Zenon, <1>t, <1>2 DEF ProcessEnds, Recedes
<1>3. ASSUME NEW w \in Workers, batch' = batch, NEW p,
             phase' = [phase EXCEPT ![w] = p], p \in Ahead => phase[w] \in Ahead
      PROVE  \A v \in Workers : Recedes(v)
  BY Zenon, <1>t, <1>3 DEF Recedes
<1>4. ASSUME NEW w \in Workers, Heartbeat(w) \/ HeartbeatErrors(w)
      PROVE  Rests
  <2>1. phase[w] = "beating" /\ runs' = runs /\ batch[w] # <<>>
    BY Zenon, <1>4 DEF Heartbeat, HeartbeatErrors, TInv, BusyHasWork
  <2>2. \/ NextItem(w)
        \/ \E p : batch' = batch /\ phase' = [phase EXCEPT ![w] = p]
    BY <1>4, Zenon DEF Heartbeat, HeartbeatErrors
  <2> QED
    BY ZenonT(60), <1>1, <1>3, <2>1, <2>2 DEF Ahead
<1>5. ASSUME NEW w \in Workers, Acknowledge(w) \/ AcknowledgeErrors(w) \/ Fail(w)
      PROVE  Rests
  <2>1. batch[w] # <<>>
    BY Zenon, <1>5 DEF Acknowledge, AcknowledgeErrors, Fail, TInv, BusyHasWork
  <2>2. runs' = runs
    BY <1>5, <1>k, Zenon DEF Acknowledge, AcknowledgeErrors, Fail, Acknowledged
  <2>3. \/ NextItem(w)
        \/ batch' = batch /\ phase' = [phase EXCEPT ![w] = "failing"]
    BY <1>5, <1>k, Zenon DEF Acknowledge, AcknowledgeErrors, Fail
  <2>4. "failing" \notin Ahead
    BY Zenon DEF Ahead
  <2> QED
    BY ZenonT(60), <1>1, <1>3, <2>1, <2>2, <2>3, <2>4
<1>6. ASSUME NEW w \in Workers, Handle(w) \/ HandleFails(w)
      PROVE  Rests \/ Runs(w)
  <2>1. PICK p \in {"settle", "failing"} : phase' = [phase EXCEPT ![w] = p]
    BY Zenon, <1>6 DEF Handle, HandleFails
  <2>2. phase[w] = "handle" /\ batch' = batch /\ p \notin Ahead /\ phase'[w] = p
    BY Zenon, <1>6, <1>t, <2>1 DEF Handle, HandleFails, Ahead
  <2>3. \/ runs' = runs
        \/ runs' = [runs EXCEPT ![Head(batch[w]).job] = runs[Head(batch[w]).job] + 1]
    BY <1>6, <1>k, Zenon DEF Handle, HandleFails
  <2>4. \A v \in Workers : Recedes(v)
    BY Zenon, <1>3, <2>1, <2>2
  <2> QED
    BY <2>1, <2>2, <2>3, <2>4, Zenon DEF Runs
<1>7. ASSUME NEW w \in Workers, Stamp(w) \/ Restart(w)
      PROVE  Rests
  <2>1. runs' = runs /\ batch' = batch
    BY <1>7 DEF Stamp, Restart
  <2>2. CASE Restart(w)
    <3>1. phase' = [phase EXCEPT ![w] = "poll"] /\ "poll" \notin Ahead
      BY <2>2 DEF Restart, Ahead
    <3> QED
      BY Zenon, <1>3, <2>1, <3>1
  <2>3. CASE Stamp(w)
    <3> DEFINE p == CASE phase[w] = "beat" -> "beating"
                      [] phase[w] = "settle" -> "ack"
                      [] phase[w] = "failing" -> "fail"
    <3>1. phase' = [phase EXCEPT ![w] = p] /\ phase[w] \in {"beat", "settle", "failing"}
      BY <2>3, Zenon DEF Stamp
    <3>2. p \in Ahead => phase[w] \in Ahead
      BY <3>1 DEF Ahead
    <3> HIDE DEF p
    <3> QED
      BY ZenonT(60), <1>3, <2>1, <3>1, <3>2
  <2> QED
    BY <1>7, <2>2, <2>3
<1>8. ASSUME NEW w \in Workers, Crash(w)
      PROVE  Rests
  BY <1>2, <1>8 DEF Crash
<1>9. ASSUME Tick \/ UNCHANGED vars
      PROVE  Rests
  BY <1>9 DEF Tick, vars, Recedes
<1> HIDE DEF Rests
<1>10. \/ \E w \in Workers : RunOnce(w) \/ Runs(w)
       \/ Rests
  BY ZenonT(60), <1>4, <1>5, <1>6, <1>7, <1>8, <1>9 DEF Next, Step
<1> QED
  BY Zenon, <1>10 DEF Rests

\* A claim opens one new token for every row it takes, and raises its attempts.
LEMMA ClaimAccounted ==
  ASSUME TInv, TInv', [Next]_vars, NEW w \in Workers, RunOnce(w),
         NEW j \in Jobs, Accounted(j)
  PROVE  Accounted(j)'
<1>t. job[j] \in Rows /\ batch \in [Workers -> Seq(Items)] /\ phase \in [Workers -> Phases]
  BY Zenon DEF TInv, TypeOK
<1>1. PICK s \in Batches(Recovered) : ClaimBatch(w, s)
  BY Zenon DEF RunOnce
<1>2. /\ DOMAIN s = 1..Len(s) /\ Len(s) \in Nat
      /\ \A a, b \in DOMAIN s : s[a] = s[b] => a = b
  BY Zenon, BatchesType
<1>3. /\ DOMAIN batch'[w] = DOMAIN s
      /\ \A i \in DOMAIN s : batch'[w][i].job = s[i] /\ batch'[w][i].token = Token(i)
      /\ \A v \in Workers \ {w} : batch'[v] = batch[v] /\ phase'[v] = phase[v]
  BY Zenon, <1>t, <1>1 DEF ClaimBatch
<1>4. runs'[j] = runs[j]
  BY Zenon DEF RunOnce
<1>g. /\ job[j].attempts \in Nat /\ job'[j].attempts \in Nat
      /\ job'[j].attempts >= job[j].attempts /\ runs[j] \in Nat
  BY Zenon, CountsGrow
<1>c. Cardinality(Open(j)) \in Nat
  BY Zenon, FS_CardinalityType DEF Accounted
<1>5. CASE \E i \in DOMAIN s : s[i] = j
  <2> DEFINE i == CHOOSE i \in DOMAIN s : s[i] = j
  <2>1. i \in DOMAIN s /\ s[i] = j
    BY Zenon, <1>5
  <2>2. job'[j] = Leased(Recovered[j], Token(i))
    BY Zenon, <1>1, <1>5 DEF ClaimBatch
  <2> HIDE DEF i
  <2>3. Recovered[j].attempts = job[j].attempts
    BY Zenon, <1>t DEF Recovered, Released
  <2>4. job'[j].attempts = job[j].attempts + 1
    BY <2>2, <2>3 DEF Leased
  <2>5. Open(j)' \subseteq Open(j) \cup {Token(i)}
    <3> SUFFICES ASSUME NEW t \in Nat, NEW v \in Workers, NEW k \in DOMAIN batch'[v],
                        batch'[v][k].token = t, batch'[v][k].job = j,
                        k = 1 => phase'[v] \in Ahead
                 PROVE  t \in Open(j) \cup {Token(i)}
      BY Zenon DEF Open
    <3>1. CASE v = w
      BY ZenonT(60), <1>2, <1>3, <2>1, <3>1
    <3>2. CASE v # w
      BY Zenon, <1>3, <3>2 DEF Open
    <3> QED
      BY Zenon, <3>1, <3>2
  <2>6. /\ IsFiniteSet(Open(j) \cup {Token(i)})
        /\ Cardinality(Open(j) \cup {Token(i)}) <= Cardinality(Open(j)) + 1
        /\ Cardinality(Open(j) \cup {Token(i)}) \in Nat
    <3> DEFINE S == Open(j)
               t == Token(i)
    <3>1. IsFiniteSet(S) /\ Cardinality(S) \in Nat
      BY Zenon, <1>c DEF Accounted
    <3> HIDE DEF S, t
    <3>2. /\ IsFiniteSet(S \cup {t})
          /\ Cardinality(S \cup {t}) = IF t \in S THEN Cardinality(S) ELSE Cardinality(S) + 1
      BY Zenon, <3>1, FS_AddElement
    <3>3. Cardinality(S \cup {t}) <= Cardinality(S) + 1 /\ Cardinality(S \cup {t}) \in Nat
      BY <3>1, <3>2
    <3> QED
      BY Zenon, <3>2, <3>3 DEF S, t
  <2>7. /\ IsFiniteSet(Open(j)')
        /\ Cardinality(Open(j)') <= Cardinality(Open(j) \cup {Token(i)})
        /\ Cardinality(Open(j)') \in Nat
    <3> DEFINE old == Open(j) \cup {Token(i)}
               new == Open(j)'
    <3>1. new \in SUBSET old /\ IsFiniteSet(old)
      BY Zenon, <2>5, <2>6
    <3> HIDE DEF old, new
    <3>2. IsFiniteSet(new) /\ Cardinality(new) <= Cardinality(old)
      BY Zenon, <3>1, FS_Subset
    <3>3. Cardinality(new) \in Nat
      BY Zenon, <3>2, FS_CardinalityType
    <3> QED
      BY Zenon, <3>2, <3>3 DEF old, new
  <2>8. runs[j] + Cardinality(Open(j)) <= job[j].attempts
    BY Zenon DEF Accounted
  <2>9. runs'[j] + Cardinality(Open(j)') <= job'[j].attempts
    BY <1>4, <1>g, <1>c, <2>4, <2>6, <2>7, <2>8
  <2> QED
    BY Zenon, <2>7, <2>9 DEF Accounted
<1>6. CASE ~ \E i \in DOMAIN s : s[i] = j
  <2>1. Open(j)' \subseteq Open(j)
    <3> SUFFICES ASSUME NEW t \in Nat, NEW v \in Workers, NEW k \in DOMAIN batch'[v],
                        batch'[v][k].token = t, batch'[v][k].job = j,
                        k = 1 => phase'[v] \in Ahead
                 PROVE  t \in Open(j)
      BY Zenon DEF Open
    <3>1. v # w
      BY Zenon, <1>3, <1>6
    <3>2. batch'[v] = batch[v] /\ phase'[v] = phase[v]
      BY Zenon, <1>3, <3>1
    <3> QED
      BY Zenon, <3>2 DEF Open
  <2>2. /\ IsFiniteSet(Open(j)') /\ Cardinality(Open(j)') <= Cardinality(Open(j))
        /\ Cardinality(Open(j)') \in Nat
    BY <2>1, FS_Subset, FS_CardinalityType DEF Accounted
  <2>3. runs[j] + Cardinality(Open(j)) <= job[j].attempts
    BY DEF Accounted
  <2>4. runs'[j] + Cardinality(Open(j)') <= job'[j].attempts
    BY <1>4, <1>g, <1>c, <2>2, <2>3
  <2> QED
    BY ZenonT(60), <2>2, <2>4 DEF Accounted
<1> QED
  BY Zenon, <1>5, <1>6

\* A handler's commit closes the token it ran under; a step that neither claims nor
\* runs a handler closes tokens or leaves them.
LEMMA RunAccounted ==
  ASSUME TInv, TInv', TokenInv, [Next]_vars, NEW j \in Jobs, Accounted(j),
         \/ \E w \in Workers : Runs(w)
         \/ runs' = runs /\ \A w \in Workers : Recedes(w)
  PROVE  Accounted(j)'
<1>g. /\ job[j].attempts \in Nat /\ job'[j].attempts \in Nat
      /\ job'[j].attempts >= job[j].attempts /\ runs[j] \in Nat
  BY Zenon, CountsGrow
<1>a. /\ IsFiniteSet(Open(j)) /\ Cardinality(Open(j)) \in Nat
      /\ runs[j] + Cardinality(Open(j)) <= job[j].attempts
  BY Zenon, FS_CardinalityType DEF Accounted
<1>1. ASSUME NEW S \in SUBSET Nat, IsFiniteSet(S), Open(j)' \subseteq S,
             runs'[j] \in Nat, runs'[j] + Cardinality(S) <= job[j].attempts
      PROVE  Accounted(j)'
  <2> DEFINE new == Open(j)'
  <2>1. new \in SUBSET S
    BY Zenon, <1>1
  <2> HIDE DEF new
  <2>2. IsFiniteSet(new) /\ Cardinality(new) <= Cardinality(S)
    BY Zenon, <1>1, <2>1, FS_Subset
  <2>3. Cardinality(new) \in Nat /\ Cardinality(S) \in Nat
    BY <1>1, <2>2, FS_CardinalityType
  <2>4. runs'[j] + Cardinality(new) <= job'[j].attempts
    BY <1>g, <1>1, <2>2, <2>3
  <2> QED
    BY Zenon, <2>2, <2>4 DEF Accounted, new
<1>2. ASSUME runs' = runs, \A w \in Workers : Recedes(w)
      PROVE  Accounted(j)'
  <2>1. Open(j)' \subseteq Open(j) /\ Open(j) \in SUBSET Nat
    BY Zenon, <1>2, OpenShrinks DEF Open
  <2> QED
    BY ZenonT(60), <1>g, <1>a, <1>1, <1>2, <2>1
<1>3. ASSUME NEW w \in Workers, Runs(w)
      PROVE  Accounted(j)'
  <2> DEFINE x == Head(batch[w])
  <2>t. /\ batch \in [Workers -> Seq(Items)] /\ phase \in [Workers -> Phases]
        /\ runs \in [Jobs -> Nat]
    BY Zenon DEF TInv, TypeOK
  <2>1. batch[w] # <<>> /\ x = batch[w][1] /\ 1 \in DOMAIN batch[w] /\ x \in Items
    <3>1. batch[w] # <<>>
      BY Zenon, <1>3 DEF Runs, TInv, BusyHasWork
    <3> DEFINE s == batch[w]
    <3>2. s \in Seq(Items) /\ s # <<>> /\ x = Head(s)
      BY Zenon, <2>t, <3>1
    <3> HIDE DEF s, x
    <3>3. x = s[1] /\ 1 \in DOMAIN s /\ x \in Items
      BY <3>2
    <3> QED
      BY Zenon, <3>1, <3>3 DEF s
  <2>2. \A v \in Workers : Recedes(v)
    BY Zenon, <1>3, <2>t DEF Runs, Recedes
  <2>3. Open(j)' \subseteq Open(j) /\ Open(j) \in SUBSET Nat
    BY <2>2, OpenShrinks DEF Open
  <2>4. CASE x.job # j
    <3>1. runs'[j] = runs[j]
      BY Zenon, <1>3, <2>t, <2>4 DEF Runs
    <3> QED
      BY Zenon, <1>g, <1>a, <1>1, <2>3, <3>1
  <2>5. CASE x.job = j
    <3>1. runs'[j] = runs[j] + 1
      BY Zenon, <1>3, <2>t, <2>5 DEF Runs
    <3>2. x.token \in Open(j)
      <4>1. x.token \in Nat
        BY Zenon, <2>1 DEF Items
      <4>2. phase[w] \in Ahead
        BY Zenon, <1>3 DEF Runs, Ahead
      <4> HIDE DEF x
      <4> QED
        BY Zenon, <2>1, <2>5, <4>1, <4>2 DEF Open
    <3>3. x.token \notin Open(j)'
      <4> SUFFICES ASSUME NEW v \in Workers, NEW i \in DOMAIN batch[v],
                          batch[v][i].token = x.token,
                          i = 1 => phase'[v] \in Ahead
                   PROVE  FALSE
        BY Zenon, <1>3 DEF Open, Runs
      <4>1. v = w /\ i = 1
        BY <2>1 DEF TokenInv, LeaseFence
      <4> QED
        BY Zenon, <1>3, <4>1 DEF Runs
    <3> DEFINE S == Open(j) \ {x.token}
    <3>4. Open(j)' \subseteq S /\ S \in SUBSET Nat
      BY Zenon, <2>3, <3>3
    <3>5. IsFiniteSet(S) /\ Cardinality(S) = Cardinality(Open(j)) - 1
      BY ZenonT(60), <1>a, <3>2, FS_RemoveElement
    <3> HIDE DEF S, x
    <3>6. runs'[j] \in Nat /\ runs'[j] + Cardinality(S) <= job[j].attempts
      BY <1>g, <1>a, <3>1, <3>5
    <3> QED
      BY Zenon, <1>1, <3>4, <3>5, <3>6
  <2> QED
    BY Zenon, <2>4, <2>5
<1> QED
  BY Zenon, <1>2, <1>3

\* Only the acknowledgement settles a job as succeeded, for the job in hand.
LEMMA SucceedsByAck ==
  ASSUME TInv, [Next]_vars, NEW j \in Jobs, job'[j].state = "succeeded"
  PROVE  \/ job[j].state = "succeeded"
         \/ \E w \in Workers : phase[w] = "ack" /\ Head(batch[w]).job = j
<1>t. job \in [Jobs -> Rows]
  BY Zenon DEF TInv, TypeOK
<1>1. CASE \E w \in Workers : Acknowledge(w) \/ AcknowledgeErrors(w)
  <2>1. PICK w \in Workers : Acknowledge(w) \/ AcknowledgeErrors(w)
    BY Zenon, <1>1
  <2> DEFINE x == Head(batch[w]).job
  <2>2. job' = job \/ job' = [job EXCEPT ![x] = Succeeded(job[x])]
    BY <2>1, Zenon DEF Acknowledge, AcknowledgeErrors, Acknowledged
  <2>3. phase[w] = "ack"
    BY Zenon, <2>1 DEF Acknowledge, AcknowledgeErrors
  <2> HIDE DEF x
  <2>4. job'[j] = job[j] \/ j = x
    BY Zenon, <1>t, <2>2
  <2> QED
    BY Zenon, <2>3, <2>4 DEF x
<1>2. ASSUME NEW w \in Workers, Fail(w)
      PROVE  job[j].state = "succeeded"
  <2> DEFINE x == Head(batch[w]).job
             rel == Released(job[x], err[w], err[w] # "invalid_job")
  <2>1. job' = job \/ job' = [job EXCEPT ![x] = rel]
    BY <1>2, Zenon DEF Fail
  <2>2. rel.state # "succeeded"
    BY Zenon DEF Released
  <2> HIDE DEF x, rel
  <2> QED
    BY Zenon, <1>t, <2>1, <2>2
<1>3. ASSUME NEW w \in Workers, Heartbeat(w) \/ HeartbeatErrors(w)
      PROVE  job[j].state = "succeeded"
  <2> DEFINE x == Head(batch[w]).job
  <2>1. \/ job' = job
        \/ job' = [job EXCEPT ![x] = Extended(job[x], stamp[w].age)]
    BY <1>3, Zenon DEF Heartbeat, HeartbeatErrors
  <2> HIDE DEF x
  <2> QED
    BY <1>t, <2>1, OwnerKept
<1>4. ASSUME NEW w \in Workers, RunOnce(w)
      PROVE  job[j].state = "succeeded"
  <2>1. PICK s \in Batches(Recovered) : ClaimBatch(w, s)
    BY Zenon, <1>4 DEF RunOnce
  <2>2. job'[j] = Recovered[j] \/ \E t : job'[j] = Leased(Recovered[j], t)
    BY Zenon, <2>1 DEF ClaimBatch
  <2>3. \A t : Leased(Recovered[j], t).state = "leased"
    BY Zenon DEF Leased
  <2>4. job'[j] = Recovered[j]
    BY Zenon, <2>2, <2>3
  <2>5. Released(job[j], "lease_expired", TRUE).state \in {"dead", "pending"}
    BY Zenon DEF Released
  <2>6. Recovered[j] = job[j] \/ Recovered[j] = Released(job[j], "lease_expired", TRUE)
    BY Zenon DEF Recovered
  <2> QED
    BY Zenon, <2>4, <2>5, <2>6
<1>5. ASSUME NEW w \in Workers,
             Handle(w) \/ HandleFails(w) \/ Stamp(w) \/ Restart(w) \/ Crash(w)
      PROVE  job[j].state = "succeeded"
  BY Zenon, <1>5 DEF Handle, HandleFails, Stamp, Restart, Crash
<1>6. ASSUME Tick \/ UNCHANGED vars
      PROVE  job[j].state = "succeeded"
  BY Zenon, <1>t, <1>6, OwnerKept DEF Tick, vars
<1> QED
  BY ZenonT(60), <1>1, <1>2, <1>3, <1>4, <1>5, <1>6 DEF Next, Step

\* A worker comes to settle a job only by running its handler.
LEMMA SettlesAfterRun ==
  ASSUME TInv, [Next]_vars, kind = "lifecycle", NEW w \in Workers,
         phase'[w] \in {"settle", "ack"}
  PROVE  /\ batch'[w] = batch[w]
         /\ phase[w] \in {"settle", "ack"} \/ Runs(w)
<1>t. /\ batch \in [Workers -> Seq(Items)] /\ phase \in [Workers -> Phases]
      /\ runs \in [Jobs -> Nat]
  BY Zenon DEF TInv, TypeOK
<1>k. FirstPhase = "beat" /\ kind # "embed" /\ ~OneTransaction
  BY Zenon DEF FirstPhase, OneTransaction
<1> DEFINE Goal == /\ batch'[w] = batch[w]
                   /\ phase[w] \in {"settle", "ack"} \/ Runs(w)
<1>1. ASSUME NEW v \in Workers, NextItem(v) \/ ProcessEnds(v)
      PROVE  Goal
  BY Zenon, <1>t, <1>k, <1>1 DEF NextItem, ProcessEnds
<1>2. ASSUME NEW v \in Workers, batch' = batch, NEW p,
             phase' = [phase EXCEPT ![v] = p],
             p \in {"settle", "ack"} => phase[v] \in {"settle", "ack"}
      PROVE  Goal
  BY Zenon, <1>t, <1>2
<1>3. ASSUME NEW v \in Workers, RunOnce(v)
      PROVE  Goal
  <2>1. PICK s \in Batches(Recovered) : ClaimBatch(v, s)
    BY Zenon, <1>3 DEF RunOnce
  <2> QED
    BY Zenon, <1>t, <1>k, <2>1 DEF ClaimBatch
<1>4. ASSUME NEW v \in Workers, Stamp(v)
      PROVE  Goal
  <2> DEFINE p == CASE phase[v] = "beat" -> "beating"
                    [] phase[v] = "settle" -> "ack"
                    [] phase[v] = "failing" -> "fail"
  <2>1. /\ phase' = [phase EXCEPT ![v] = p] /\ batch' = batch
        /\ phase[v] \in {"beat", "settle", "failing"}
    BY <1>4, Zenon DEF Stamp
  <2>2. p \in {"settle", "ack"} => phase[v] \in {"settle", "ack"}
    BY Zenon, <2>1
  <2> HIDE DEF p
  <2> QED
    BY Zenon, <1>2, <2>1, <2>2
<1>5. ASSUME NEW v \in Workers, Heartbeat(v) \/ HeartbeatErrors(v) \/ Acknowledge(v)
                                \/ AcknowledgeErrors(v) \/ Fail(v) \/ Crash(v)
      PROVE  Goal
  <2>1. \/ NextItem(v) \/ ProcessEnds(v)
        \/ \E p \in {"handle", "failing"} :
             batch' = batch /\ phase' = [phase EXCEPT ![v] = p]
    BY <1>5, Zenon DEF Heartbeat, HeartbeatErrors, Acknowledge, AcknowledgeErrors, Fail, Crash
  <2> QED
    BY Zenon, <1>1, <1>2, <2>1
<1>6. ASSUME NEW v \in Workers, HandleFails(v) \/ Restart(v)
      PROVE  Goal
  <2>1. \E p \in {"failing", "poll"} :
          batch' = batch /\ phase' = [phase EXCEPT ![v] = p]
    BY <1>6, Zenon DEF HandleFails, Restart
  <2> QED
    BY Zenon, <1>2, <2>1
<1>7. ASSUME NEW v \in Workers, Handle(v)
      PROVE  Goal
  <2>1. /\ batch' = batch /\ phase' = [phase EXCEPT ![v] = "settle"]
        /\ phase[v] = "handle"
        /\ runs' = [runs EXCEPT ![Head(batch[v]).job] = runs[Head(batch[v]).job] + 1]
    BY <1>7, <1>k, Zenon DEF Handle
  <2>2. v = w \/ phase[w] = phase'[w]
    BY Zenon, <1>t, <2>1
  <2>3. Runs(v)
    BY Zenon, <1>t, <2>1 DEF Runs, Ahead
  <2> QED
    BY Zenon, <2>1, <2>2, <2>3
<1>8. ASSUME Tick \/ UNCHANGED vars
      PROVE  Goal
  BY Zenon, <1>8 DEF Tick, vars
<1> HIDE DEF Goal
<1>9. Goal
  BY ZenonT(60), <1>3, <1>4, <1>5, <1>6, <1>7, <1>8 DEF Next, Step
<1> QED
  BY Zenon, <1>9 DEF Goal

\* In every instance a lifecycle job that succeeded had its handler commit, and the
\* handler never commits more often than the row was claimed: although several
\* workers may hold the row under old tokens, each claim pays for one commit.
THEOREM CommittedAtLeastOnce == Spec => []AtLeastOnce
<1>1. Init => CountInv
  <2> SUFFICES ASSUME Init
               PROVE  CountInv
    BY Zenon
  <2>1. \A j \in Jobs : Open(j) = {}
    BY DEF Init, Open
  <2>2. \A j \in Jobs : runs[j] = 0 /\ job[j].attempts = 0 /\ job[j].state = "pending"
    BY Zenon DEF Init
  <2>3. \A j \in Jobs : Accounted(j)
    BY <2>1, <2>2, FS_EmptySet DEF Accounted
  <2>4. SettlesRun
    BY Zenon DEF Init, SettlesRun
  <2> QED
    BY Zenon, <2>2, <2>3, <2>4 DEF CountInv
<1>2. TInv /\ TInv' /\ TokenInv /\ CountInv /\ [Next]_vars => CountInv'
  <2> SUFFICES ASSUME TInv, TInv', TokenInv, CountInv, [Next]_vars
               PROVE  CountInv'
    BY Zenon
  <2>k. kind' = kind
    BY Zenon, KindFixed
  <2>n. CASE kind # "lifecycle"
    BY Zenon, <2>k, <2>n DEF CountInv
  <2> SUFFICES ASSUME kind = "lifecycle"
               PROVE  CountInv'
    BY Zenon, <2>n
  <2>1. ASSUME NEW j \in Jobs
        PROVE  Accounted(j)'
    BY Zenon, ClaimRunOrRecede, ClaimAccounted, RunAccounted DEF CountInv
  <2>2. ASSUME NEW j \in Jobs, job'[j].state = "succeeded"
        PROVE  runs'[j] >= 1
    <3>1. runs[j] >= 1
      BY Zenon, <2>2, SucceedsByAck DEF CountInv, SettlesRun
    <3> QED
      BY <3>1, CountsGrow
  <2>3. ASSUME NEW w \in Workers, phase'[w] \in {"settle", "ack"}
        PROVE  runs'[Head(batch'[w]).job] >= 1
    <3> DEFINE x == Head(batch[w]).job
    <3>1. /\ batch'[w] = batch[w]
          /\ phase[w] \in {"settle", "ack"} \/ Runs(w)
      BY Zenon, <2>3, SettlesAfterRun
    <3>2. phase[w] \notin {"poll", "down"}
      BY Zenon, <3>1 DEF Runs
    <3>3. x \in Jobs
      BY Zenon, <3>2, HeadType DEF TInv, BusyHasWork, Items
    <3>4. runs \in [Jobs -> Nat]
      BY Zenon DEF TInv, TypeOK
    <3>5. CASE phase[w] \in {"settle", "ack"}
      <4>1. runs[x] >= 1
        BY Zenon, <3>5 DEF CountInv, SettlesRun
      <4> HIDE DEF x
      <4>2. runs'[x] >= 1
        BY <3>3, <4>1, CountsGrow
      <4> QED
        BY Zenon, <3>1, <4>2 DEF x
    <3>6. CASE Runs(w)
      <4>1. runs' = [runs EXCEPT ![x] = runs[x] + 1]
        BY Zenon, <3>6 DEF Runs
      <4> HIDE DEF x
      <4>2. runs'[x] >= 1
        BY <3>3, <3>4, <4>1
      <4> QED
        BY <3>1, <4>2 DEF x
    <3> QED
      BY Zenon, <3>1, <3>5, <3>6
  <2>4. SettlesRun'
    BY Zenon, <2>3 DEF SettlesRun
  <2> QED
    BY Zenon, <2>1, <2>2, <2>4 DEF CountInv
<1>3. TInv /\ CountInv => AtLeastOnce
  <2> SUFFICES ASSUME TInv, CountInv, kind = "lifecycle", NEW j \in Jobs
               PROVE  runs[j] <= job[j].attempts
    BY Zenon DEF AtLeastOnce, CountInv
  <2>1. Accounted(j)
    BY Zenon DEF CountInv
  <2>2. Cardinality(Open(j)) \in Nat
    BY Zenon, <2>1, FS_CardinalityType DEF Accounted
  <2>3. job[j] \in Rows /\ runs[j] \in Nat
    BY Zenon DEF TInv, TypeOK
  <2>4. job[j].attempts \in Nat
    BY <2>3, ConstantsAssumption DEF Rows
  <2> QED
    BY <2>1, <2>2, <2>3, <2>4 DEF Accounted
<1> QED
  BY <1>1, <1>2, <1>3, TInvAlways, TokenInvAlways, PTL DEF Spec
=============================================================================
