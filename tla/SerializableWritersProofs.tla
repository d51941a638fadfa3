--------------------- MODULE SerializableWritersProofs ---------------------
(***************************************************************************)
(* The writers' transactions are serializable, idempotent and implement    *)
(* CommandLog, for any requests, keys, commands and number of attempts.    *)
(* What a command does to the tables (Prepare, Answer, Staged) and which   *)
(* locks it plans (LockPlan) are never opened: the argument rests on the   *)
(* snapshot, the two counter rows and the receipts alone.                  *)
(***************************************************************************)
EXTENDS SerializableWriters, SequenceTheorems, TLAPS

\* Two databases the second of which has only grown: the same event counter means
\* the same tables, the same two counters mean the same receipts.
Grown(old, new) ==
  /\ old.counter <= new.counter
  /\ old.selections <= new.selections
  /\ old.receipts \subseteq new.receipts
  /\ old.counter = new.counter => old.tables = new.tables
  /\ old.counter = new.counter /\ old.selections = new.selections =>
       old.receipts = new.receipts

\* What a transaction's snapshot still says about the database.
Fence ==
  \A r \in Requests : pc[r] \in InTransaction =>
    /\ snap[r].counter \in Nat \ {0}
    /\ snap[r].selections \in Nat \ {0}
    /\ Grown(snap[r], db)
    /\ conflicts[r] <= (snap[r].counter - 1) + (snap[r].selections - 1)
    /\ pc[r] # "key" => L!ReceiptsOf(snap[r].receipts, r) = {}

\* The holder of a counter row has seen its current value.
HasEvents(r) == pc[r] \in {"select", "commit"}
HasSelections(r) == pc[r] = "record" \/ (pc[r] = "commit" /\ Decides(r))

Holders ==
  \A r \in Requests :
    /\ HasEvents(r) => /\ snap[r].counter = db.counter
                       /\ Answer(snap[r].tables, Command[r]).code = "ok"
    /\ HasSelections(r) => snap[r].selections = db.selections

Exclusive ==
  \A r, q \in Requests :
    r # q => ~(HasEvents(r) /\ HasEvents(q)) /\ ~(HasSelections(r) /\ HasSelections(q))

\* The log is a sequence, of whatever its entries are.
IsSequence(s) == s \in Seq({s[i] : i \in DOMAIN s})
LogShape == IsSequence(db.log)

IInv ==
  /\ TypeOK /\ LogShape /\ Fence /\ Holders /\ Exclusive
  /\ GaplessLog /\ IdempotentKeys /\ TruthfulReplies /\ ConflictsPaid

----------------------------------------------------------------------------
\* A database that has grown twice has grown.
LEMMA GrownTrans ==
  ASSUME NEW a, NEW b, NEW c,
         a.counter \in Nat, b.counter \in Nat, c.counter \in Nat,
         a.selections \in Nat, b.selections \in Nat, c.selections \in Nat,
         Grown(a, b), Grown(b, c)
  PROVE  Grown(a, c)
BY DEF Grown

\* Commits only add to what has been paid.
LEMMA MorePays ==
  ASSUME NEW n \in Nat, NEW c \in Nat, NEW d \in Nat, NEW x \in Nat, NEW y \in Nat,
         n <= (c - 1) + (d - 1), c <= x, d <= y
  PROVE  n <= (x - 1) + (y - 1)
OBVIOUS

\* Appending to a sequence.
LEMMA Appending ==
  ASSUME NEW s, NEW e, IsSequence(s)
  PROVE  /\ IsSequence(Append(s, e))
         /\ Len(s) \in Nat /\ DOMAIN s = 1..Len(s)
         /\ Len(Append(s, e)) = Len(s) + 1
         /\ DOMAIN Append(s, e) = 1..(Len(s) + 1)
         /\ \A i \in 1..Len(s) : Append(s, e)[i] = s[i]
         /\ Append(s, e)[Len(s) + 1] = e
<1> DEFINE S == {s[i] : i \in DOMAIN s}
           T == {Append(s, e)[i] : i \in DOMAIN Append(s, e)}
<1>1. s \in Seq(S \cup {e}) /\ Append(s, e) \in Seq(S \cup {e})
  BY DEF IsSequence
<1>2. /\ Len(s) \in Nat /\ DOMAIN s = 1..Len(s)
      /\ Len(Append(s, e)) = Len(s) + 1
      /\ DOMAIN Append(s, e) = 1..(Len(s) + 1)
      /\ \A i \in 1..Len(s) : Append(s, e)[i] = s[i]
      /\ Append(s, e)[Len(s) + 1] = e
  BY <1>1
<1>3. Append(s, e) \in Seq(T)
  <2>1. Append(s, e) \in [1..Len(Append(s, e)) -> S \cup {e}]
    BY <1>1, LenProperties, Zenon
  <2> HIDE DEF S
  <2>2. \A i \in 1..Len(Append(s, e)) : Append(s, e)[i] \in T
    BY <2>1
  <2> HIDE DEF T
  <2>3. Append(s, e) \in [1..Len(Append(s, e)) -> T]
    BY <2>1, <2>2, Zenon
  <2>4. Append(s, e) \in UNION {[1..n -> T] : n \in Nat}
    BY <1>2, <2>3
  <2> QED
    BY <2>4, SeqDef, Zenon
<1> QED
  BY Zenon, <1>2, <1>3 DEF IsSequence

\* Init establishes the inductive invariant.
LEMMA InitIInv == Init => IInv
<1> SUFFICES ASSUME Init PROVE IInv
  BY Zenon
<1>1. TypeOK
  BY WritersAssumption DEF Init, TypeOK, InitialDb, Places, NoReply
<1>2. LogShape
  BY DEF Init, LogShape, IsSequence, InitialDb
<1>3. Fence /\ Holders /\ Exclusive
  BY Zenon DEF Init, Fence, Holders, Exclusive, HasEvents, HasSelections, InTransaction
<1>4. GaplessLog /\ IdempotentKeys /\ TruthfulReplies /\ ConflictsPaid
  BY DEF Init, GaplessLog, IdempotentKeys, TruthfulReplies, ConflictsPaid, Commits,
         InitialDb, NoReply
<1> QED
  BY Zenon, <1>1, <1>2, <1>3, <1>4 DEF IInv

----------------------------------------------------------------------------
(* One request moves; the others keep their fences.                          *)

\* Request r ends its attempt, with or without a commit of its own: the fences of
\* the others survive if the database has only grown and no counter row that
\* another request holds has moved.
LEMMA LeaveFences ==
  ASSUME IInv, NEW r \in Requests, NEW p \in {"done", "begin"},
         pc' = [pc EXCEPT ![r] = p],
         \A q \in Requests \ {r} : snap'[q] = snap[q],
         conflicts' \in [Requests -> Nat],
         \A q \in Requests \ {r} : conflicts'[q] = conflicts[q],
         Grown(db, db'), db'.counter \in Nat \ {0}, db'.selections \in Nat \ {0},
         \A q \in Requests \ {r} :
           /\ HasEvents(q) => db'.counter = db.counter
           /\ HasSelections(q) => db'.selections = db.selections
  PROVE  Fence' /\ Holders' /\ Exclusive'
<1> USE DEF IInv, TypeOK
<1>1. pc'[r] = p /\ p \notin InTransaction
  BY Zenon DEF InTransaction
<1>2. \A q \in Requests \ {r} : pc'[q] = pc[q] /\ snap'[q] = snap[q]
  BY Zenon
<1>3. ASSUME NEW q \in Requests \ {r}, pc[q] \in InTransaction
      PROVE  Grown(snap[q], db')
  BY Zenon, <1>3, GrownTrans DEF Fence
<1>4. Fence'
  BY <1>1, <1>2, <1>3, Zenon DEF Fence
<1>5. Holders'
  BY <1>1, <1>2 DEF Holders, HasEvents, HasSelections, InTransaction, Decides
<1>6. Exclusive'
  BY <1>1, <1>2 DEF Exclusive, HasEvents, HasSelections, InTransaction, Decides
<1> QED
  BY Zenon, <1>4, <1>5, <1>6

\* Request r goes on within its transaction.
LEMMA ProceedFences ==
  ASSUME IInv, NEW r \in Requests, NEW p \in InTransaction,
         pc[r] \in InTransaction,
         pc' = [pc EXCEPT ![r] = p], UNCHANGED <<db, snap, conflicts>>,
         p # "key" => L!ReceiptsOf(snap[r].receipts, r) = {},
         p \in {"select", "commit"} =>
           /\ snap[r].counter = db.counter
           /\ Answer(snap[r].tables, Command[r]).code = "ok"
           /\ \A q \in Requests \ {r} : ~HasEvents(q),
         p = "record" \/ (p = "commit" /\ Decides(r)) =>
           /\ snap[r].selections = db.selections
           /\ \A q \in Requests \ {r} : ~HasSelections(q)
  PROVE  Fence' /\ Holders' /\ Exclusive'
<1> USE DEF IInv, TypeOK
<1>1. pc'[r] = p
  BY Zenon
<1>2. \A q \in Requests \ {r} : pc'[q] = pc[q]
  OBVIOUS
<1>4. Fence'
  BY <1>1, <1>2, Zenon DEF Fence
<1>5. Holders'
  BY ZenonT(60), <1>1, <1>2 DEF Holders, HasEvents, HasSelections, Decides
<1>6. Exclusive'
  BY ZenonT(60), <1>1, <1>2 DEF Exclusive, HasEvents, HasSelections, Decides
<1> QED
  BY Zenon, <1>4, <1>5, <1>6

\* What a step that leaves the database alone keeps by itself.
LEMMA SameDb ==
  ASSUME IInv, UNCHANGED db,
         conflicts' \in [Requests -> Nat], ConflictsPaid',
         DOMAIN snap' = Requests, DOMAIN held' = Requests,
         pc' \in [Requests -> Places], attempt' \in [Requests -> 1..MaxAttempts],
         DOMAIN reply' = Requests, \A r \in Requests : reply'[r].seq \in Nat,
         TruthfulReplies',
         Fence' /\ Holders' /\ Exclusive'
  PROVE  IInv'
BY Zenon DEF IInv, TypeOK, LogShape, GaplessLog, IdempotentKeys

\* The database has moved since the snapshot: there is a commit to pay with.
LEMMA MovedPays ==
  ASSUME IInv, NEW r \in Requests, pc[r] \in InTransaction,
         \/ snap[r].counter # db.counter
         \/ snap[r].selections # db.selections
         \/ snap[r].tables # db.tables
         \/ snap[r].receipts # db.receipts
  PROVE  conflicts[r] + 1 <= Commits
BY DEF IInv, TypeOK, Fence, Grown, Commits

----------------------------------------------------------------------------
(* The ways a step ends.                                                     *)

\* A refusal.
LEMMA RefusedInv ==
  ASSUME IInv, NEW r \in Requests, NEW code, code # "ok", Refused(r, code)
  PROVE  IInv'
<1> USE DEF Refused, Respond, Leave
<1>1. Grown(db, db')
  BY DEF Grown, IInv, TypeOK
<1>2. Fence' /\ Holders' /\ Exclusive'
  BY <1>1, LeaveFences, Zenon DEF IInv, TypeOK
<1>3. TruthfulReplies'
  BY Zenon DEF IInv, TypeOK, TruthfulReplies
<1>4. ConflictsPaid'
  BY Zenon DEF IInv, ConflictsPaid, Commits
<1> QED
  BY <1>2, <1>3, <1>4, SameDb DEF IInv, TypeOK, Places

\* A serialization failure.
LEMMA RepeatInv ==
  ASSUME IInv, NEW r \in Requests, Repeat(r), UNCHANGED db,
         conflicts' \in [Requests -> Nat],
         \A q \in Requests \ {r} : conflicts'[q] = conflicts[q],
         conflicts'[r] <= Commits
  PROVE  IInv'
<1> USE DEF Respond, Leave
<1>1. Grown(db, db')
  BY DEF Grown, IInv, TypeOK
<1>2. PICK p \in {"done", "begin"} : pc' = [pc EXCEPT ![r] = p]
  BY DEF Repeat
<1>3. Fence' /\ Holders' /\ Exclusive'
  BY <1>1, <1>2, LeaveFences, Zenon DEF IInv, TypeOK, Repeat
<1>4. TruthfulReplies'
  BY DEF IInv, TypeOK, TruthfulReplies, Repeat
<1>5. ConflictsPaid'
  <2>1. Commits' = Commits
    BY Zenon DEF Commits
  <2>2. \A q \in Requests : conflicts[q] <= Commits
    BY Zenon DEF IInv, ConflictsPaid
  <2> QED
    BY Zenon, <2>1, <2>2 DEF ConflictsPaid
<1>6. attempt' \in [Requests -> 1..MaxAttempts]
  <2>1. attempt \in [Requests -> 1..MaxAttempts] /\ MaxAttempts \in Nat
    BY Zenon, WritersAssumption DEF IInv, TypeOK
  <2>2. CASE attempt' = attempt
    BY Zenon, <2>1, <2>2
  <2>3. CASE attempt[r] # MaxAttempts /\ attempt' = [attempt EXCEPT ![r] = @ + 1]
    BY <2>1, <2>3
  <2> QED
    BY Zenon, <2>2, <2>3 DEF Repeat
<1>7. /\ DOMAIN snap' = Requests /\ DOMAIN held' = Requests /\ DOMAIN reply' = Requests
      /\ \A q \in Requests : reply'[q].seq \in Nat
      /\ pc' \in [Requests -> Places]
  BY <1>2 DEF Repeat, IInv, TypeOK, Places
<1> QED
  BY ZenonT(60), <1>3, <1>4, <1>5, <1>6, <1>7, SameDb

\* A serialization failure that a commit has caused.
LEMMA ConflictInv ==
  ASSUME IInv, NEW r \in Requests, Conflict(r), conflicts[r] + 1 <= Commits
  PROVE  IInv'
BY RepeatInv DEF Conflict, IInv, TypeOK

\* An answer from a receipt.
LEMMA FromReceiptInv ==
  ASSUME IInv, NEW r \in Requests, NEW rows, rows \subseteq db.receipts,
         L!ReceiptsOf(rows, r) # {}, FromReceipt(r, rows)
  PROVE  IInv'
<1> USE DEF Leave
<1>1. Grown(db, db')
  BY DEF Grown, IInv, TypeOK, FromReceipt
<1>2. Fence' /\ Holders' /\ Exclusive'
  BY <1>1, LeaveFences, Zenon DEF IInv, TypeOK, FromReceipt
<1>3. PICK x \in db.receipts : x.key = KeyOf[r] /\ reply'[r] = ReceiptAnswer(x, r)
  BY Zenon DEF FromReceipt, L!ReceiptsOf, IInv, TypeOK
<1>4. TruthfulReplies'
  BY ZenonT(60), <1>3 DEF IInv, TypeOK, TruthfulReplies, FromReceipt, ReceiptAnswer
<1>5. ConflictsPaid'
  BY DEF IInv, ConflictsPaid, Commits, FromReceipt
<1>6. \A q \in Requests : reply'[q].seq \in Nat
  BY <1>3 DEF IInv, TypeOK, FromReceipt, ReceiptAnswer
<1> QED
  BY Zenon, <1>2, <1>4, <1>5, <1>6, SameDb DEF IInv, TypeOK, Places, FromReceipt

\* A step within the transaction.
LEMMA ProceedInv ==
  ASSUME IInv, NEW r \in Requests, NEW p \in InTransaction, NEW locks,
         pc[r] \in InTransaction, Proceed(r, p, locks),
         p # "key" => L!ReceiptsOf(snap[r].receipts, r) = {},
         p \in {"select", "commit"} =>
           /\ snap[r].counter = db.counter
           /\ Answer(snap[r].tables, Command[r]).code = "ok"
           /\ \A q \in Requests \ {r} : ~HasEvents(q),
         p = "record" \/ (p = "commit" /\ Decides(r)) =>
           /\ snap[r].selections = db.selections
           /\ \A q \in Requests \ {r} : ~HasSelections(q)
  PROVE  IInv'
<1>1. Fence' /\ Holders' /\ Exclusive'
  BY ProceedFences, Zenon DEF Proceed
<1>2. TruthfulReplies' /\ ConflictsPaid'
  BY Zenon DEF IInv, TruthfulReplies, ConflictsPaid, Commits, Proceed
<1> QED
  BY Zenon, <1>1, <1>2, SameDb DEF IInv, TypeOK, Places, Proceed

\* A commit, with an event or without: the database has grown by what the steps
\* below say, and the request is answered.
LEMMA CommitInv ==
  ASSUME IInv, NEW r \in Requests, NEW seq \in Nat, NEW code,
         pc' = [pc EXCEPT ![r] = "done"],
         reply' = [reply EXCEPT ![r] = [code |-> code, seq |-> IF code = "ok" THEN seq ELSE 0]],
         Leave(r), UNCHANGED <<attempt, conflicts>>,
         L!Keyed(r) => L!ReceiptsOf(db.receipts, r) = {},
         db'.receipts = L!Receipted(db.receipts, r, seq),
         \/ /\ db'.counter = db.counter /\ db'.log = db.log /\ db'.tables = db.tables
            /\ db'.selections = db.selections + 1
         \/ /\ db'.counter = db.counter + 1 /\ seq = db.counter
            /\ \E e : db'.log = Append(db.log, L!Entry(r, db.counter, e))
            /\ db'.selections \in {db.selections, db.selections + 1},
         db'.counter # db.counter =>
           \A q \in Requests \ {r} : ~HasEvents(q),
         db'.selections # db.selections =>
           \A q \in Requests \ {r} : ~HasSelections(q)
  PROVE  IInv'
<1>1. /\ Grown(db, db') /\ db'.counter \in Nat \ {0} /\ db'.selections \in Nat \ {0}
      /\ db.receipts \subseteq db'.receipts
  <2>1. db.receipts \subseteq db'.receipts
    BY Zenon DEF L!Receipted
  <2>2. db.counter \in Nat \ {0} /\ db.selections \in Nat \ {0}
    BY Zenon DEF IInv, TypeOK
  <2>3. CASE /\ db'.counter = db.counter /\ db'.tables = db.tables
             /\ db'.selections = db.selections + 1
    BY <2>1, <2>2, <2>3 DEF Grown
  <2>4. CASE /\ db'.counter = db.counter + 1
             /\ db'.selections \in {db.selections, db.selections + 1}
    BY <2>1, <2>2, <2>4 DEF Grown
  <2> QED
    BY Zenon, <2>3, <2>4
<1>2. Fence' /\ Holders' /\ Exclusive'
  <2>1. /\ \A q \in Requests \ {r} : snap'[q] = snap[q]
        /\ conflicts' = conflicts /\ conflicts \in [Requests -> Nat]
    BY Zenon DEF IInv, TypeOK, Leave
  <2>2. \A q \in Requests \ {r} :
          /\ HasEvents(q) => db'.counter = db.counter
          /\ HasSelections(q) => db'.selections = db.selections
    BY Zenon
  <2> QED
    BY <1>1, <2>1, <2>2, LeaveFences, Zenon
<1>3. TypeOK'
  <2>1. \A x \in db'.receipts : x.key \in Keys /\ x.seq \in Nat
    BY DEF IInv, TypeOK, L!Receipted, L!Receipt, L!Keyed
  <2> QED
    BY Zenon, <1>1, <2>1 DEF IInv, TypeOK, Places, Leave
<1>4. LogShape' /\ GaplessLog' /\ IdempotentKeys'
  <2>1. \A x, y \in db'.receipts : x.key = y.key => x = y
    BY DEF IInv, IdempotentKeys, L!Receipted, L!Receipt, L!Keyed, L!ReceiptsOf
  <2>2. CASE db'.log = db.log /\ db'.counter = db.counter
    BY <1>1, <2>1, <2>2 DEF IInv, LogShape, GaplessLog, IdempotentKeys
  <2>3. CASE /\ db'.counter = db.counter + 1 /\ seq = db.counter
             /\ \E e : db'.log = Append(db.log, L!Entry(r, db.counter, e))
    <3>1. PICK e : db'.log = Append(db.log, L!Entry(r, db.counter, e))
      BY Zenon, <2>3
    <3>2. /\ IsSequence(db'.log)
          /\ Len(db.log) \in Nat /\ DOMAIN db.log = 1..Len(db.log)
          /\ Len(db'.log) = Len(db.log) + 1
          /\ DOMAIN db'.log = 1..(Len(db.log) + 1)
          /\ \A i \in 1..Len(db.log) : db'.log[i] = db.log[i]
          /\ db'.log[Len(db.log) + 1] = L!Entry(r, db.counter, e)
      BY <3>1, Appending DEF IInv, LogShape
    <3>3. GaplessLog'
      BY <2>3, <3>2 DEF IInv, GaplessLog, L!Entry
    <3>4. ASSUME NEW i \in DOMAIN db'.log, db'.log[i].key # NoKey
          PROVE  \E x \in db'.receipts : x.key = db'.log[i].key /\ x.seq = i
      <4>1. CASE i \in 1..Len(db.log)
        <5>1. i \in DOMAIN db.log /\ db'.log[i] = db.log[i] /\ db.log[i].key # NoKey
          BY Zenon, <3>2, <3>4, <4>1
        <5>2. PICK x \in db.receipts : x.key = db.log[i].key /\ x.seq = i
          BY Zenon, <5>1 DEF IInv, IdempotentKeys
        <5> QED
          BY Zenon, <1>1, <5>1, <5>2
      <4>2. CASE i = Len(db.log) + 1
        <5>1. db.counter = i /\ db'.log[i].key = KeyOf[r] /\ KeyOf[r] \in Keys
          BY <3>2, <3>4, <4>2, WritersAssumption DEF IInv, GaplessLog, L!Entry
        <5>2. L!Receipt(r, seq) \in db'.receipts
          BY Zenon, <5>1 DEF L!Receipted, L!Keyed
        <5>3. L!Receipt(r, seq).key = KeyOf[r] /\ L!Receipt(r, seq).seq = i
          BY Zenon, <2>3, <5>1 DEF L!Receipt
        <5> QED
          BY Zenon, <5>1, <5>2, <5>3, SMTT(30)
      <4> QED
        BY <3>2, <4>1, <4>2
    <3> QED
      BY Zenon, <2>1, <3>2, <3>3, <3>4 DEF LogShape, IdempotentKeys
  <2> QED
    BY Zenon, <2>2, <2>3
<1>5. TruthfulReplies'
  <2> SUFFICES ASSUME NEW q \in Requests, reply'[q].code = "ok", L!Keyed(q)
               PROVE  \E x \in db'.receipts : /\ x.key = KeyOf[q]
                                              /\ x.command = Command[q]
                                              /\ x.seq = reply'[q].seq
    BY Zenon DEF TruthfulReplies, L!Keyed
  <2>1. CASE q = r
    <3>1. L!Receipt(r, seq) \in db'.receipts
      BY Zenon, <2>1 DEF L!Receipted
    <3>2. reply'[r] = [code |-> code, seq |-> IF code = "ok" THEN seq ELSE 0]
      BY Zenon DEF IInv, TypeOK
    <3>3. reply'[r].seq = seq
      BY <2>1, <3>2
    <3>4. /\ L!Receipt(r, seq).key = KeyOf[r] /\ L!Receipt(r, seq).command = Command[r]
          /\ L!Receipt(r, seq).seq = seq
      BY Zenon DEF L!Receipt
    <3> QED
      BY Zenon, <2>1, <3>1, <3>3, <3>4
  <2>2. CASE q # r
    BY Zenon, <1>1, <2>2 DEF IInv, TypeOK, TruthfulReplies
  <2> QED
    BY Zenon, <2>1, <2>2
<1>6. ConflictsPaid'
  <2> SUFFICES ASSUME NEW q \in Requests PROVE conflicts'[q] <= Commits'
    BY Zenon DEF ConflictsPaid
  <2>1. conflicts'[q] \in Nat /\ conflicts'[q] <= Commits
    BY Zenon DEF IInv, TypeOK, ConflictsPaid
  <2>2. db.counter <= db'.counter /\ db.selections <= db'.selections
    BY Zenon, <1>1 DEF Grown
  <2>3. db.counter \in Nat /\ db.selections \in Nat
    BY Zenon DEF IInv, TypeOK
  <2>4. conflicts'[q] <= (db.counter - 1) + (db.selections - 1)
    BY Zenon, <2>1 DEF Commits
  <2>5. conflicts'[q] <= (db'.counter - 1) + (db'.selections - 1)
    BY <1>1, <2>1, <2>2, <2>3, <2>4, MorePays, Zenon
  <2> QED
    BY Zenon, <2>5 DEF Commits
<1> QED
  BY ZenonT(60), <1>2, <1>3, <1>4, <1>5, <1>6 DEF IInv

----------------------------------------------------------------------------
(* The steps.                                                                *)

\* The answer of a receipt before any transaction keeps the invariant.
LEMMA PreflightInv ==
  ASSUME IInv, NEW r \in Requests, Preflight(r) PROVE IInv'
<1>1. CASE L!ReceiptsOf(db.receipts, r) # {}
  BY Zenon, <1>1, FromReceiptInv DEF Preflight
<1>2. CASE L!ReceiptsOf(db.receipts, r) = {}
  <2>1. /\ pc' = [pc EXCEPT ![r] = "begin"]
        /\ UNCHANGED <<db, snap, attempt, conflicts, reply>>
        /\ DOMAIN held' = Requests
    BY Zenon, <1>2 DEF Preflight, Goto, Proceed, IInv, TypeOK
  <2>2. Grown(db, db')
    BY <2>1 DEF Grown, IInv, TypeOK
  <2>3. Fence' /\ Holders' /\ Exclusive'
    BY <2>1, <2>2, LeaveFences, Zenon DEF IInv, TypeOK
  <2>4. TruthfulReplies' /\ ConflictsPaid'
    BY Zenon, <2>1 DEF IInv, TruthfulReplies, ConflictsPaid, Commits
  <2> QED
    BY Zenon, <2>1, <2>3, <2>4, SameDb DEF IInv, TypeOK, Places
<1> QED
  BY Zenon, <1>1, <1>2

\* A request takes its snapshot.
LEMMA BeginInv ==
  ASSUME IInv, NEW r \in Requests, Begin(r) PROVE IInv'
<1>1. PICK p \in {"key", "locks"} :
        pc' = [pc EXCEPT ![r] = p] /\ (p # "key" => KeyOf[r] \notin Keys)
  BY Zenon DEF Begin, L!Keyed
<1>2. /\ UNCHANGED <<db, held, attempt, conflicts, reply>>
      /\ snap' = [snap EXCEPT ![r] = db]
  BY Zenon DEF Begin, Snapshot
<1>3. /\ pc'[r] = p /\ snap'[r] = db
      /\ \A q \in Requests \ {r} : pc'[q] = pc[q] /\ snap'[q] = snap[q]
  <2>1. DOMAIN snap = Requests /\ pc \in [Requests -> Places]
    BY Zenon DEF IInv, TypeOK
  <2>2. pc'[r] = p /\ \A q \in Requests \ {r} : pc'[q] = pc[q]
    BY Zenon, <1>1, <2>1
  <2>3. snap'[r] = db /\ \A q \in Requests \ {r} : snap'[q] = snap[q]
    BY ZenonT(60), <1>2, <2>1
  <2> QED
    BY Zenon, <2>2, <2>3
<1>4. Grown(db, db)
  BY DEF Grown, IInv, TypeOK
<1>5. p # "key" => L!ReceiptsOf(db.receipts, r) = {}
  <2>1. \A x \in db.receipts : x.key \in Keys
    BY Zenon DEF IInv, TypeOK
  <2>2. KeyOf[r] \notin Keys => L!ReceiptsOf(db.receipts, r) = {}
    BY Zenon, <2>1 DEF L!ReceiptsOf
  <2> QED
    BY Zenon, <1>1, <2>2
<1>6. Fence'
  BY <1>2, <1>3, <1>4, <1>5, Zenon DEF Fence, IInv, TypeOK, ConflictsPaid, Commits
<1>7. Holders' /\ Exclusive'
  BY <1>2, <1>3 DEF Holders, Exclusive, HasEvents, HasSelections, Decides, IInv
<1>8. TruthfulReplies' /\ ConflictsPaid'
  BY Zenon, <1>2 DEF IInv, TruthfulReplies, ConflictsPaid, Commits
<1>9. /\ pc' \in [Requests -> Places]
      /\ DOMAIN snap' = Requests
  BY Zenon, <1>1, <1>2 DEF IInv, TypeOK, Places, InTransaction
<1> QED
  BY <1>2, <1>6, <1>7, <1>8, <1>9, SameDb, Zenon DEF IInv, TypeOK

\* It locks its key,
LEMMA LockKeyInv ==
  ASSUME IInv, NEW r \in Requests, LockKey(r) PROVE IInv'
<1>1. pc[r] \in InTransaction /\ snap[r].receipts \subseteq db.receipts
  BY Zenon DEF LockKey, InTransaction, IInv, Fence, Grown
<1>2. CASE L!ReceiptsOf(snap[r].receipts, r) # {}
  BY ZenonT(60), <1>1, <1>2, FromReceiptInv DEF LockKey
<1>3. CASE L!ReceiptsOf(snap[r].receipts, r) = {}
  BY <1>1, <1>3, ProceedInv DEF LockKey, InTransaction
<1> QED
  BY ZenonT(60), <1>2, <1>3

\* then its aggregates, one by one and in order.
LEMMA LockNextInv ==
  ASSUME IInv, NEW r \in Requests, LockNext(r) PROVE IInv'
<1> DEFINE lock == Head(Missing(r))
<1> HIDE DEF lock
<1>1. /\ pc[r] = "locks" /\ pc[r] \in InTransaction
      /\ IF ChangedSince(snap[r], lock) THEN Conflict(r) ELSE Proceed(r, "locks", {lock})
  BY Zenon DEF LockNext, InTransaction, lock
<1>2. CASE ChangedSince(snap[r], lock)
  <2>1. snap[r].tables # db.tables
    BY Zenon, <1>2 DEF ChangedSince
  <2> QED
    BY ZenonT(60), <1>1, <1>2, <2>1, MovedPays, ConflictInv
<1>3. CASE ~ChangedSince(snap[r], lock)
  <2>1. L!ReceiptsOf(snap[r].receipts, r) = {}
    BY Zenon, <1>1 DEF IInv, Fence
  <2> QED
    BY <1>1, <1>3, <2>1, ProceedInv DEF InTransaction
<1> QED
  BY Zenon, <1>2, <1>3

\* The handler prepares on its snapshot.
LEMMA PrepareStepInv ==
  ASSUME IInv, NEW r \in Requests, PrepareStep(r) PROVE IInv'
<1> DEFINE code == Prepare(snap[r].tables, Command[r]).code
<1> HIDE DEF code
<1>1. /\ pc[r] = "locks" /\ pc[r] \in InTransaction
      /\ \/ Goto(r, "counter") \/ Goto(r, "omit")
         \/ code # "ok" /\ Refused(r, code)
  BY Zenon DEF PrepareStep, InTransaction, code
<1>2. L!ReceiptsOf(snap[r].receipts, r) = {}
  BY Zenon, <1>1 DEF IInv, Fence
<1>3. CASE \E p \in {"counter", "omit"} : Goto(r, p)
  BY <1>1, <1>2, <1>3, ProceedInv DEF Goto, InTransaction
<1>4. CASE code # "ok" /\ Refused(r, code)
  BY Zenon, <1>4, RefusedInv
<1> QED
  BY Zenon, <1>1, <1>3, <1>4

\* It locks the tenant counter,
LEMMA LockCounterInv ==
  ASSUME IInv, NEW r \in Requests, LockCounter(r) PROVE IInv'
<1> DEFINE code == Answer(snap[r].tables, Command[r]).code
<1>1. /\ pc[r] = "counter" /\ pc[r] \in InTransaction
      /\ \A q \in Requests \ {r} : ~HasEvents(q)
  BY Zenon DEF LockCounter, InTransaction, EventCounterFree, HasEvents
<1>2. CASE Behind(r)
  <2>1. snap[r].counter # db.counter /\ Conflict(r)
    BY Zenon, <1>2 DEF Behind, LockCounter
  <2> QED
    BY Zenon, <1>1, <2>1, MovedPays, ConflictInv
<1>3. CASE ~Behind(r) /\ code # "ok"
  <2>1. Refused(r, code)
    BY Zenon, <1>3 DEF LockCounter
  <2> HIDE DEF code
  <2> QED
    BY Zenon, <1>3, <2>1, RefusedInv
<1>4. CASE ~Behind(r) /\ code = "ok"
  <2>1. PICK p \in {"select", "commit"} :
          Proceed(r, p, {}) /\ (p = "commit" => ~Decides(r))
    BY Zenon, <1>4 DEF LockCounter, Goto
  <2>2. L!ReceiptsOf(snap[r].receipts, r) = {} /\ snap[r].counter = db.counter
    BY Zenon, <1>1, <1>4 DEF IInv, Fence, Behind
  <2> QED
    BY <1>1, <1>4, <2>1, <2>2, ProceedInv DEF InTransaction
<1> QED
  BY Zenon, <1>2, <1>3, <1>4

\* and the selection fence.
LEMMA LockSelectionInv ==
  ASSUME IInv, NEW r \in Requests, LockSelection(r) PROVE IInv'
<1>1. /\ pc[r] \in {"select", "omit"} /\ pc[r] \in InTransaction
      /\ \A q \in Requests \ {r} : ~HasSelections(q)
  BY Zenon DEF LockSelection, InTransaction, SelectionCounterFree, HasSelections
<1>2. CASE db.selections # snap[r].selections
  BY Zenon, <1>1, <1>2, MovedPays, ConflictInv DEF LockSelection
<1>3. CASE db.selections = snap[r].selections
  <2>1. L!ReceiptsOf(snap[r].receipts, r) = {}
    BY <1>1, Zenon DEF IInv, Fence
  <2>2. CASE pc[r] = "select"
    <3>1. Proceed(r, "commit", {})
      BY Zenon, <1>3, <2>2 DEF LockSelection, Goto
    <3>2. /\ snap[r].counter = db.counter
          /\ Answer(snap[r].tables, Command[r]).code = "ok"
          /\ \A q \in Requests \ {r} : ~HasEvents(q)
      BY Zenon, <2>2 DEF IInv, Holders, Exclusive, HasEvents
    <3> QED
      BY <1>1, <1>3, <2>1, <3>1, <3>2, ProceedInv DEF InTransaction
  <2>3. CASE pc[r] = "omit"
    <3>1. Proceed(r, "record", {})
      BY Zenon, <1>3, <2>3 DEF LockSelection, Goto
    <3> QED
      BY <1>1, <1>3, <2>1, <3>1, ProceedInv DEF InTransaction
  <2> QED
    BY Zenon, <1>1, <2>2, <2>3
<1> QED
  BY Zenon, <1>2, <1>3

\* It commits its event and its receipt,
LEMMA CommitStepInv ==
  ASSUME IInv, NEW r \in Requests, Commit(r) PROVE IInv'
<1>1. /\ pc[r] = "commit" /\ L!ReceiptsOf(db.receipts, r) = {}
      /\ UNCHANGED <<attempt, conflicts>> /\ db.counter \in Nat
  BY Zenon DEF Commit, KeyTaken, IInv, TypeOK
<1>2. PICK e : /\ db'.receipts = L!Receipted(db.receipts, r, db.counter)
               /\ db'.log = Append(db.log, L!Entry(r, db.counter, e))
               /\ db'.counter = db.counter + 1
               /\ db'.selections = IF Decides(r) THEN db.selections + 1 ELSE db.selections
  BY Zenon DEF Commit, Committed, NextSequence
<1>3. PICK code : /\ pc' = [pc EXCEPT ![r] = "done"] /\ Leave(r)
                  /\ reply' = [reply EXCEPT ![r] =
                       [code |-> code, seq |-> IF code = "ok" THEN db.counter ELSE 0]]
  BY Zenon DEF Commit, Respond
<1>4. \A q \in Requests \ {r} : ~HasEvents(q)
  BY Zenon, <1>1 DEF IInv, Exclusive, HasEvents
<1>5. db'.selections # db.selections => \A q \in Requests \ {r} : ~HasSelections(q)
  BY Zenon, <1>1, <1>2 DEF IInv, Exclusive, HasSelections
<1>6. db'.selections \in {db.selections, db.selections + 1}
  BY Zenon, <1>2
<1>7. \E x : db'.log = Append(db.log, L!Entry(r, db.counter, x))
  BY Zenon, <1>2
<1> QED
  BY <1>1, <1>2, <1>3, <1>4, <1>5, <1>6, <1>7, CommitInv, Zenon

\* or a receipt alone,
LEMMA RecordInv ==
  ASSUME IInv, NEW r \in Requests, Record(r) PROVE IInv'
<1>1. /\ pc[r] = "record" /\ L!ReceiptsOf(db.receipts, r) = {}
      /\ UNCHANGED <<attempt, conflicts>> /\ 0 \in Nat
  BY Zenon DEF Record, KeyTaken
<1>2. /\ db'.receipts = L!Receipted(db.receipts, r, 0)
      /\ db'.log = db.log /\ db'.counter = db.counter /\ db'.tables = db.tables
      /\ db'.selections = db.selections + 1
  BY Zenon DEF Record, Recorded
<1>3. PICK code : /\ pc' = [pc EXCEPT ![r] = "done"] /\ Leave(r)
                  /\ reply' = [reply EXCEPT ![r] =
                       [code |-> code, seq |-> IF code = "ok" THEN 0 ELSE 0]]
  BY Zenon DEF Record, Respond
<1>4. \A q \in Requests \ {r} : ~HasSelections(q)
  BY Zenon, <1>1 DEF IInv, Exclusive, HasSelections
<1> QED
  BY <1>1, <1>2, <1>3, <1>4, CommitInv, Zenon

\* or is refused, because another wrote its receipt.
LEMMA CommitRefusedInv ==
  ASSUME IInv, NEW r \in Requests, CommitRefused(r) PROVE IInv'
<1>1. /\ pc[r] \in {"commit", "record"} /\ pc[r] \in InTransaction
      /\ L!ReceiptsOf(db.receipts, r) # {}
  BY Zenon DEF CommitRefused, KeyTaken, InTransaction
<1>2. snap[r].receipts # db.receipts
  BY Zenon, <1>1 DEF IInv, Fence
<1>3. CASE Conflict(r)
  BY ZenonT(60), <1>1, <1>2, <1>3, MovedPays, ConflictInv
<1>4. CASE Refused(r, "dependency_unavailable")
  BY Zenon, <1>4, RefusedInv
<1> QED
  BY Zenon, <1>3, <1>4 DEF CommitRefused

\* A purge commits past the snapshots of others.
LEMMA PurgeInv ==
  ASSUME IInv, NEW r \in Requests, Purge(r) PROVE IInv'
<1> DEFINE answer == Answer(db.tables, Command[r])
<1> HIDE DEF answer
<1>1. CASE answer.code # "ok"
  BY Zenon, <1>1, RefusedInv DEF Purge, answer
<1>2. CASE answer.code = "ok"
  <2>1. ~L!Keyed(r) /\ db.counter \in Nat
    BY Zenon, WritersAssumption DEF Purge, Purges, L!Keyed, IInv, TypeOK
  <2>p. db' = Purged(r, answer.event)
    BY Zenon, <1>2 DEF Purge, answer
  <2>r. L!Receipted(db.receipts, r, db.counter) = db.receipts
    BY Zenon, <2>1 DEF L!Receipted
  <2>2. /\ db'.receipts = L!Receipted(db.receipts, r, db.counter)
        /\ db'.log = Append(db.log, L!Entry(r, db.counter, answer.event))
        /\ db'.counter = db.counter + 1
        /\ db'.selections = db.selections
    BY Zenon, <2>p, <2>r DEF Purged, NextSequence
  <2>3. /\ pc' = [pc EXCEPT ![r] = "done"] /\ Leave(r)
        /\ reply' = [reply EXCEPT ![r] =
             [code |-> "ok", seq |-> IF "ok" = "ok" THEN db.counter ELSE 0]]
        /\ UNCHANGED <<attempt, conflicts>>
    BY Zenon, <1>2, SMTT(30) DEF Purge, Respond, answer
  <2>4. \A q \in Requests \ {r} : ~HasEvents(q)
    BY Zenon DEF Purge, EventCounterFree, HasEvents
  <2>5. \E x : db'.log = Append(db.log, L!Entry(r, db.counter, x))
    BY Zenon, <2>2
  <2> QED
    BY <2>1, <2>2, <2>3, <2>4, <2>5, CommitInv, Zenon
<1> QED
  BY Zenon, <1>1, <1>2

\* Every step keeps the inductive invariant.
LEMMA NextIInv == IInv /\ [Next]_vars => IInv'
<1> SUFFICES ASSUME IInv, [Next]_vars PROVE IInv'
  BY Zenon
<1>1. CASE UNCHANGED vars
  <2>1. Fence' /\ Holders' /\ Exclusive' /\ TruthfulReplies' /\ ConflictsPaid'
    BY <1>1, Zenon DEF vars, IInv, Fence, Holders, Exclusive, HasEvents, HasSelections,
                TruthfulReplies, ConflictsPaid, Commits
  <2> QED
    BY Zenon, <1>1, <2>1, SameDb DEF vars, IInv, TypeOK
<1>2. ASSUME NEW r \in Requests, Step(r) PROVE IInv'
  BY <1>2, PreflightInv, BeginInv, LockKeyInv, LockNextInv, PrepareStepInv,
     LockCounterInv, LockSelectionInv, CommitStepInv, RecordInv, CommitRefusedInv,
     PurgeInv DEF Step
<1>3. ASSUME NEW r \in Requests, SerializationFailure(r) PROVE IInv'
  <2>1. Repeat(r) /\ UNCHANGED <<db, conflicts>>
    BY Zenon, <1>3 DEF SerializationFailure
  <2>2. conflicts[r] <= Commits /\ conflicts \in [Requests -> Nat]
    BY Zenon DEF IInv, TypeOK, ConflictsPaid
  <2> QED
    BY ZenonT(60), <2>1, <2>2, RepeatInv
<1>4. ASSUME NEW r \in Requests, Disconnect(r) PROVE IInv'
  BY Zenon, <1>4, RefusedInv DEF Disconnect
<1> QED
  BY Zenon, <1>1, <1>2, <1>3, <1>4 DEF Next, Finished

----------------------------------------------------------------------------
(* The theorems.                                                             *)

\* The inductive invariant holds of every reachable state.
THEOREM Inductive == Spec => []IInv
<1>1. Init => IInv
  BY Zenon, InitIInv
<1>2. IInv /\ [Next]_vars => IInv'
  BY Zenon, NextIInv
<1> QED
  BY <1>1, <1>2, PTL DEF Spec

\* Counters, receipts, places and attempts keep their shape; the number of attempts
\* never passes run_serializable_transaction's max_attempts.
THEOREM TypeCorrect == Spec => []TypeOK
<1>1. IInv => TypeOK
  BY Zenon DEF IInv
<1> QED
  BY <1>1, Inductive, PTL

\* run_serializable_transaction, append_memory_event and append_selection_decision:
\* a transaction that is about to commit its event has read exactly the tables it
\* commits on, although it read them before it held any lock.
THEOREM Serializable == Spec => []CommitFence
<1>1. IInv => CommitFence
  BY Zenon DEF IInv, CommitFence, Holders, HasEvents, Fence, InTransaction, Grown
<1> QED
  BY <1>1, Inductive, PTL

\* append_memory_event: sequences have no gap and no repetition, whatever attempts
\* fail in between.
THEOREM Gapless == Spec => []GaplessLog
<1>1. IInv => GaplessLog
  BY Zenon DEF IInv
<1> QED
  BY <1>1, Inductive, PTL

\* MutationEngine._attempt and SelectionEngine._attempt: an idempotency key takes
\* effect at most once.
THEOREM Idempotent == Spec => []IdempotentKeys
<1>1. IInv => IdempotentKeys
  BY Zenon DEF IInv
<1> QED
  BY <1>1, Inductive, PTL

\* A caller told of success has the result of its own command under its own key.
THEOREM Truthful == Spec => []TruthfulReplies
<1>1. IInv => TruthfulReplies
  BY Zenon DEF IInv
<1> QED
  BY <1>1, Inductive, PTL

\* run_serializable_transaction: every conflict a request's attempts have met is
\* paid for by a commit of another.
THEOREM Paid == Spec => []ConflictsPaid
<1>1. IInv => ConflictsPaid
  BY Zenon DEF IInv
<1> QED
  BY <1>1, Inductive, PTL

\* A commit is one step of the abstract log.
LEMMA CommitRefines ==
  ASSUME IInv, NEW r \in Requests, Commit(r) PROVE L!TakeEffect(r)
<1>1. pc[r] = "commit" /\ L!ReceiptsOf(db.receipts, r) = {} /\ db' = Committed(r)
  BY Zenon DEF Commit, KeyTaken
<1>2. snap[r].tables = db.tables /\ Answer(snap[r].tables, Command[r]).code = "ok"
  BY Zenon, <1>1 DEF IInv, Holders, HasEvents, Fence, InTransaction, Grown
<1>3. db.counter = Len(db.log) + 1
  BY Zenon DEF IInv, GaplessLog
<1> DEFINE e == Answer(db.tables, Command[r]).event
<1>4. /\ db'.tables = Staged(db.tables, Command[r], e)
      /\ db'.receipts = L!Receipted(db.receipts, r, db.counter)
      /\ db'.log = Append(db.log, L!Entry(r, db.counter, e))
  BY Zenon, <1>1, <1>2 DEF Committed
<1> HIDE DEF e
<1>5. /\ db'.receipts = L!Receipted(db.receipts, r, Len(db.log) + 1)
      /\ db'.log = Append(db.log, L!Entry(r, Len(db.log) + 1, e))
  BY <1>3, <1>4, Zenon
<1> QED
  BY Zenon, <1>1, <1>2, <1>4, <1>5 DEF L!TakeEffect, e

\* So is a purge that completes.
LEMMA PurgeRefines ==
  ASSUME IInv, NEW r \in Requests, Purge(r)
  PROVE  L!TakeEffect(r) \/ UNCHANGED db
<1>1. CASE Answer(db.tables, Command[r]).code # "ok"
  BY Zenon, <1>1 DEF Purge, Refused
<1>2. CASE Answer(db.tables, Command[r]).code = "ok"
  <2>1. ~L!Keyed(r)
    BY Zenon, WritersAssumption DEF Purge, Purges, L!Keyed
  <2>2. L!ReceiptsOf(db.receipts, r) = {}
    BY Zenon, <2>1, SMTT(30) DEF IInv, TypeOK, L!ReceiptsOf, L!Keyed
  <2>3. db.counter = Len(db.log) + 1
    BY DEF IInv, GaplessLog
  <2> DEFINE e == Answer(db.tables, Command[r]).event
  <2>p. db' = Purged(r, e)
    BY Zenon, <1>2 DEF Purge
  <2>4. /\ db'.tables = Staged(db.tables, Command[r], e)
        /\ db'.receipts = db.receipts
        /\ db'.log = Append(db.log, L!Entry(r, db.counter, e))
    BY Zenon, <2>p DEF Purged
  <2> HIDE DEF e
  <2>5. /\ db'.receipts = L!Receipted(db.receipts, r, Len(db.log) + 1)
        /\ db'.log = Append(db.log, L!Entry(r, Len(db.log) + 1, e))
    BY <2>1, <2>3, <2>4, Zenon DEF L!Receipted
  <2> QED
    BY Zenon, <1>2, <2>2, <2>4, <2>5 DEF L!TakeEffect, e
<1> QED
  BY Zenon, <1>1, <1>2, SMTT(30)

\* A decision without an event leaves a receipt or nothing the log knows of.
LEMMA RecordRefines ==
  ASSUME IInv, NEW r \in Requests, Record(r)
  PROVE  L!Omit(r) \/ UNCHANGED L!logVars
<1>1. L!ReceiptsOf(db.receipts, r) = {} /\ db' = Recorded(r)
  BY Zenon DEF Record, KeyTaken
<1> QED
  BY Zenon, <1>1 DEF L!Omit, L!logVars, Recorded, L!Receipted

\* The concurrent transactions implement the atomic log: commands take effect one
\* at a time, each on the tables the earlier ones left, at most once per key.
THEOREM Refinement == Spec => ImplementsLog
<1>1. Init => L!LogInit
  BY DEF Init, InitialDb, L!LogInit
<1>2. IInv /\ [Next]_vars => [L!LogNext]_(L!logVars)
  <2> SUFFICES ASSUME IInv, [Next]_vars PROVE [L!LogNext]_(L!logVars)
    BY Zenon
  <2>1. UNCHANGED db => UNCHANGED L!logVars
    BY Zenon DEF L!logVars
  <2>2. ASSUME NEW r \in Requests, Step(r)
        PROVE  L!TakeEffect(r) \/ L!Omit(r) \/ UNCHANGED L!logVars
    <3>1. CASE Commit(r)
      BY Zenon, <3>1, CommitRefines
    <3>2. CASE Record(r)
      BY Zenon, <3>2, RecordRefines
    <3>3. CASE Purge(r)
      BY ZenonT(60), <2>1, <3>3, PurgeRefines
    <3>4. CASE ~Commit(r) /\ ~Record(r) /\ ~Purge(r)
      <4>1. UNCHANGED db
        BY ZenonT(60), <2>2, <3>4 DEF Step, Preflight, Begin, LockKey, LockNext, PrepareStep,
             LockCounter, LockSelection, CommitRefused, FromReceipt, Goto, Proceed,
             Conflict, Refused
      <4> QED
        BY Zenon, <2>1, <4>1
    <3> QED
      BY Zenon, <3>1, <3>2, <3>3, <3>4
  <2>3. ASSUME NEW r \in Requests, SerializationFailure(r) \/ Disconnect(r)
        PROVE  UNCHANGED L!logVars
    BY Zenon, <2>1, <2>3 DEF SerializationFailure, Disconnect, Refused
  <2> QED
    BY Zenon, <2>1, <2>2, <2>3 DEF Next, Finished, vars, L!LogNext
<1> QED
  BY <1>1, <1>2, Inductive, PTL DEF Spec, ImplementsLog, L!LogSpec
=============================================================================
