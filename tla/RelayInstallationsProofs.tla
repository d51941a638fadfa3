---------------------- MODULE RelayInstallationsProofs ----------------------
(***************************************************************************)
(* What the relay's store guarantees about pairing codes and certificates, *)
(* for any number of attempts, installations and pairings and any          *)
(* lifetimes, overlaps and lead.                                           *)
(***************************************************************************)
EXTENDS RelayInstallations, FiniteSetTheorems, TLAPS

\* What the proofs assume of the constants: attempts and pairings are numbered, no name
\* is None, and lifetimes are positive (PairingIssuer.Issue, NodeCertificateIssuer.Issue).
Sensible ==
  /\ Attempts \subseteq Nat /\ Pairings \subseteq Nat
  /\ None \notin Attempts /\ None \notin Pairings /\ None \notin Installations
  /\ PairingLives \subseteq Nat \ {0} /\ Lives \subseteq Nat \ {0}
  /\ Overlaps \subseteq Nat /\ Lead \in Nat /\ MaxTime \in Nat

----------------------------------------------------------------------------
(* The inductive invariant.                                                 *)

Owners == Installations \cup {None}

PairingRows ==
  [inst: Owners, created: Nat, expires: Nat, state: {"none", "pending", "consumed"}]

CertRows ==
  [inst: Owners, before: Nat, after: Nat, state: {"none", "active", "retiring", "revoked"},
   retire: Nat, pairing: Pairings \cup {None}]

AttemptRows ==
  [pc: {"idle", "signed", "stamped", "answered", "over"}, pairing: Pairings \cup {None},
   current: Attempts \cup {None}, inst: Owners, cert: CertRows, at: Nat]

NodeRows == [waits: Attempts \cup {None}, cert: Attempts \cup {None}]

Shapes ==
  /\ clock \in Nat /\ newest \in Nat /\ disorder \in BOOLEAN
  /\ pairings \in [Pairings -> PairingRows]
  /\ certs \in [Attempts -> CertRows]
  /\ revoked \in SUBSET Installations
  /\ attempt \in [Attempts -> AttemptRows]
  /\ node \in [Installations -> NodeRows]

\* What is true of an attempt t at the time now from its signature to its answer.
Signed(t, now) ==
  /\ t.inst \in Installations /\ t.cert.inst = t.inst
  /\ t.cert.state = "active" /\ t.cert.before < t.cert.after
  /\ t.cert.pairing = t.pairing
  /\ t.pairing # None => t.current = None
  /\ t.at <= now

\* An attempt under way carries a sound certificate, and one that was answered has its
\* certificate in the store.
Carried ==
  \A a \in Attempts : attempt[a].pc \in {"signed", "stamped", "answered"} =>
    /\ Signed(attempt[a], clock)
    /\ attempt[a].pc = "answered" => certs[a] # NoCert /\ certs[a].inst = attempt[a].inst

\* A pairing that is not consumed gave no certificate; a consumed one gave one.
CodesUsed ==
  \A p \in Pairings :
    /\ \A a \in Attempts : certs[a].pairing = p => certs[a].inst = pairings[p].inst
    /\ IF pairings[p].state = "consumed"
         THEN \E a \in Attempts : \A b \in Attempts : certs[b].pairing = p <=> b = a
         ELSE \A a \in Attempts : certs[a].pairing # p

\* The store's times lie before the clock.
Times == newest <= clock /\ \A a \in Attempts : certs[a].before <= newest

\* Of two active certificates of an installation one had expired when the last one was
\* accepted.  (That it has expired by now would not be inductive: a rotation may carry
\* a time from before that.)
Apart ==
  ~disorder => \A a, b \in Attempts :
    a # b /\ certs[a].inst = certs[b].inst /\ certs[a].state = "active" /\ certs[b].state = "active"
      => certs[a].after <= newest \/ certs[b].after <= newest

IInv ==
  /\ Shapes /\ TypeOK /\ Carried /\ CodesUsed /\ Times /\ Apart
  /\ RevokedHasNone /\ PublishedIsCommitted

----------------------------------------------------------------------------
(* The initial state, and steps that leave the store alone.                 *)

\* The constants of the records are of their shapes.
LEMMA EmptyRows ==
  ASSUME Sensible
  PROVE  /\ NoPairing \in PairingRows /\ NoCert \in CertRows /\ Idle \in AttemptRows
         /\ [Idle EXCEPT !.pc = "over"] \in AttemptRows
<1>1. NoPairing \in PairingRows
  BY Zenon DEF NoPairing, PairingRows, Owners
<1>2. NoCert \in CertRows
  BY DEF NoCert, CertRows, Owners
<1>3. Idle \in AttemptRows
  BY <1>2 DEF Idle, AttemptRows, Owners
<1> QED
  BY Zenon, <1>1, <1>2, <1>3 DEF AttemptRows

\* The invariant holds before anything was issued.
LEMMA InitIInv ==
  ASSUME Sensible, Init
  PROVE  IInv
<1>1. Shapes
  <2>1. node \in [Installations -> NodeRows]
    BY DEF Init, NodeRows
  <2> QED
    BY Zenon, <2>1, EmptyRows DEF Init, Shapes
<1>2. TypeOK /\ Carried
  BY DEF Init, TypeOK, Carried, Idle
<1>3. CodesUsed /\ Times /\ Apart
  BY DEF Init, CodesUsed, Times, Apart, NoCert, NoPairing, Sensible
<1>4. RevokedHasNone /\ PublishedIsCommitted
  BY DEF Init, RevokedHasNone, PublishedIsCommitted
<1> QED
  BY Zenon, <1>1, <1>2, <1>3, <1>4 DEF IInv

\* A step that leaves the store alone keeps what is said of the store.
LEMMA StoreAlone ==
  ASSUME IInv, Shapes', Carried', PublishedIsCommitted', clock' >= clock,
         UNCHANGED <<pairings, certs, revoked, newest, disorder>>
  PROVE  IInv'
<1>1. TypeOK'
  BY DEF IInv, TypeOK, Shapes, AttemptRows
<1>2. CodesUsed' /\ Apart' /\ RevokedHasNone'
  BY DEF IInv, CodesUsed, Apart, RevokedHasNone
<1>3. Times'
  BY DEF IInv, Times, Shapes
<1> QED
  BY <1>1, <1>2, <1>3 DEF IInv

\* An attempt that is over has nothing more to do, and no published certificate depends
\* on another one's end.
LEMMA OverStep ==
  ASSUME Sensible, IInv, NEW a \in Attempts, Done(a),
         UNCHANGED <<clock, pairings, certs, revoked, node, newest, disorder>>
  PROVE  IInv'
<1>1. Shapes'
  BY Zenon, EmptyRows DEF IInv, Shapes, Done
<1>2. attempt'[a].pc = "over" /\ \A b \in Attempts \ {a} : attempt'[b] = attempt[b]
  BY Zenon DEF IInv, Shapes, Done, Idle
<1>3. Carried'
  BY Zenon, <1>2 DEF IInv, Carried
<1>4. PublishedIsCommitted'
  BY Zenon, <1>2 DEF IInv, PublishedIsCommitted, Shapes, NodeRows
<1> QED
  BY <1>1, <1>3, <1>4, StoreAlone DEF IInv, Shapes

\* The next attempt is idle: it is neither under way nor published.
LEMMA NextIsIdle ==
  ASSUME Sensible, NEW a \in Attempts, GeneratesKey(a)
  PROVE  attempt[a] = Idle
BY DEF GeneratesKey, Sensible

\* An attempt that starts with a sound certificate.
LEMMA StartStep ==
  ASSUME Sensible, IInv, NEW a \in Attempts, attempt[a] = Idle,
         NEW t \in AttemptRows, t.pc = "signed", Signed(t, clock),
         NEW i \in Installations,
         attempt' = [attempt EXCEPT ![a] = t],
         node' = [node EXCEPT ![i].waits = a],
         UNCHANGED <<clock, pairings, certs, revoked, newest, disorder>>
  PROVE  IInv'
<1>1. Shapes'
  BY DEF IInv, Shapes, NodeRows
<1>2. attempt'[a] = t /\ \A b \in Attempts \ {a} : attempt'[b] = attempt[b]
  BY Zenon DEF IInv, Shapes
<1>3. Carried'
  BY ZenonT(60), <1>2 DEF IInv, Carried
<1>4. \A j \in Installations : node'[j].cert = node[j].cert
  BY Zenon DEF IInv, Shapes, NodeRows
<1>5. attempt[a].pc # "over"
  BY DEF Idle
<1>6. PublishedIsCommitted'
  BY <1>2, <1>4, <1>5 DEF IInv, PublishedIsCommitted, Shapes, NodeRows
<1> QED
  BY <1>1, <1>3, <1>6, StoreAlone DEF IInv, Shapes

----------------------------------------------------------------------------
(* The actions.                                                             *)

\* A new pairing code gave no certificate yet.
LEMMA CreatePairingStep ==
  ASSUME Sensible, IInv, NEW p \in Pairings, NEW i \in Installations, NEW life \in PairingLives,
         CreatePairing(p, i, life)
  PROVE  IInv'
<1>1. pairings[p] = NoPairing /\ pairings' = [pairings EXCEPT ![p] = NewPairing(i, life)]
  BY DEF CreatePairing, Sensible
<1>2. UNCHANGED <<clock, certs, revoked, attempt, node, newest, disorder>>
  BY Zenon DEF CreatePairing
<1>3. clock \in Nat /\ life \in Nat \ {0} /\ pairings \in [Pairings -> PairingRows]
  BY Zenon DEF Sensible, IInv, Shapes
<1>4. /\ NewPairing(i, life) \in PairingRows
      /\ NewPairing(i, life).inst = i /\ NewPairing(i, life).state = "pending"
      /\ NewPairing(i, life).created < NewPairing(i, life).expires
  BY <1>3 DEF NewPairing, PairingRows, Owners
<1>5. pairings'[p] = NewPairing(i, life) /\ \A q \in Pairings \ {p} : pairings'[q] = pairings[q]
  BY Zenon, <1>1, <1>3
<1>6. Shapes'
  BY Zenon, <1>1, <1>2, <1>4 DEF IInv, Shapes
<1>7. TypeOK'
  BY ZenonT(60), <1>2, <1>4, <1>5 DEF IInv, TypeOK
<1>8. CodesUsed'
  <2>1. CodesUsed /\ pairings[p].state = "none"
    BY <1>1 DEF IInv, NoPairing
  <2>2. \A a \in Attempts : certs[a].pairing # p
    BY Zenon, <2>1 DEF CodesUsed
  <2> QED
    BY <1>2, <1>4, <1>5, <2>1, <2>2 DEF CodesUsed
<1>9. Carried' /\ Times' /\ Apart' /\ RevokedHasNone' /\ PublishedIsCommitted'
  BY ZenonT(60), <1>2 DEF IInv, Carried, Times, Apart, RevokedHasNone, PublishedIsCommitted
<1> QED
  BY Zenon, <1>6, <1>7, <1>8, <1>9 DEF IInv

\* What the signer returns.
LEMMA IssuedRow ==
  ASSUME Sensible, IInv, NEW i \in Installations, NEW life \in Lives,
         NEW p \in Pairings \cup {None}
  PROVE  LET c == Issued(i, life, p) IN
         /\ c \in CertRows /\ c.inst = i /\ c.state = "active"
         /\ c.before < c.after /\ c.pairing = p
<1>1. clock \in Nat /\ life \in Nat \ {0}
  BY Zenon DEF Sensible, IInv, Shapes
<1> QED
  BY <1>1 DEF Issued, CertRows, Owners

\* An attempt that found its code carries a sound certificate and nothing else changes.
LEMMA FindPairingStep ==
  ASSUME Sensible, IInv, NEW a \in Attempts, NEW p \in Pairings, NEW life \in Lives,
         FindPairing(a, p, life)
  PROVE  IInv'
<1> DEFINE i == pairings[p].inst
           c == Issued(i, life, p)
           t == [Idle EXCEPT !.pc = "signed", !.pairing = p, !.inst = i, !.cert = c]
<1>1. i \in Installations
  BY DEF FindPairing, Pending, IInv, TypeOK, NoPairing
<1>2. c \in CertRows /\ c.inst = i /\ c.state = "active" /\ c.before < c.after /\ c.pairing = p
  BY <1>1, IssuedRow
<1>3. attempt[a] = Idle
  BY NextIsIdle DEF FindPairing
<1>4. /\ attempt' = [attempt EXCEPT ![a] = t] /\ node' = [node EXCEPT ![i].waits = a]
      /\ UNCHANGED <<clock, pairings, certs, revoked, newest, disorder>>
  BY DEF FindPairing
<1> HIDE DEF c, i
<1>5. /\ t.pc = "signed" /\ t.pairing = p /\ t.current = None /\ t.inst = i /\ t.cert = c
      /\ t.at = 0
  BY DEF Idle
<1>6. t \in AttemptRows
  BY ZenonT(60), <1>1, <1>2, EmptyRows DEF AttemptRows, Owners
<1> HIDE DEF t
<1>7. t.pc = "signed" /\ Signed(t, clock)
  <2>1. clock \in Nat
    BY DEF IInv, Shapes
  <2> QED
    BY <1>1, <1>2, <1>5, <2>1 DEF Signed
<1> QED
  BY Zenon, <1>1, <1>3, <1>4, <1>6, <1>7, StartStep

\* A renewal carries a sound certificate for the installation of the one it presents.
LEMMA PresentStep ==
  ASSUME Sensible, IInv, NEW a \in Attempts, NEW i \in Installations, NEW life \in Lives,
         Present(a, i, life)
  PROVE  IInv'
<1> DEFINE n == node[i].cert
           c == Issued(i, life, None)
           t == [Idle EXCEPT !.pc = "signed", !.current = n, !.inst = i, !.cert = c]
<1>1. n \in Attempts \cup {None}
  BY Zenon DEF IInv, Shapes, NodeRows
<1>2. c \in CertRows /\ c.inst = i /\ c.state = "active" /\ c.before < c.after /\ c.pairing = None
  BY IssuedRow
<1>3. attempt[a] = Idle
  BY Zenon, NextIsIdle DEF Present
<1>4. /\ attempt' = [attempt EXCEPT ![a] = t] /\ node' = [node EXCEPT ![i].waits = a]
      /\ UNCHANGED <<clock, pairings, certs, revoked, newest, disorder>>
  BY Zenon DEF Present
<1> HIDE DEF c, n
<1>5. /\ t.pc = "signed" /\ t.pairing = None /\ t.current = n /\ t.inst = i /\ t.cert = c
      /\ t.at = 0
  BY Zenon DEF Idle
<1>6. t \in AttemptRows
  BY ZenonT(60), <1>1, <1>2, EmptyRows DEF AttemptRows, Owners
<1> HIDE DEF t
<1>7. t.pc = "signed" /\ Signed(t, clock)
  <2>1. clock \in Nat
    BY DEF IInv, Shapes
  <2> QED
    BY <1>1, <1>2, <1>5, <2>1 DEF Signed
<1> QED
  BY Zenon, <1>3, <1>4, <1>6, <1>7, StartStep

\* Reading the clock gives an attempt a time that is not ahead of it.
LEMMA StampStep ==
  ASSUME Sensible, IInv, NEW a \in Attempts, Stamp(a)
  PROVE  IInv'
<1> DEFINE t == attempt[a]
           u == [t EXCEPT !.pc = "stamped", !.at = clock]
<1>1. t \in AttemptRows /\ clock \in Nat /\ t.pc = "signed" /\ Signed(t, clock)
  BY DEF Stamp, IInv, Shapes, Carried
<1>2. /\ attempt' = [attempt EXCEPT ![a] = u]
      /\ UNCHANGED <<clock, pairings, certs, revoked, node, newest, disorder>>
  BY Zenon DEF Stamp, IInv, Shapes, AttemptRows
<1> HIDE DEF t
<1>3. u \in AttemptRows /\ u.pc = "stamped" /\ Signed(u, clock)
  <2>1. /\ u \in AttemptRows /\ u.pc = "stamped" /\ u.at = clock
        /\ u.inst = t.inst /\ u.cert = t.cert /\ u.pairing = t.pairing /\ u.current = t.current
    BY Zenon, <1>1 DEF AttemptRows
  <2> QED
    BY <1>1, <2>1 DEF Signed
<1> HIDE DEF u
<1>4. attempt'[a] = u /\ \A b \in Attempts \ {a} : attempt'[b] = attempt[b]
  BY <1>2 DEF IInv, Shapes
<1>5. Shapes'
  BY <1>2, <1>3 DEF IInv, Shapes
<1>6. Carried'
  BY <1>2, <1>3, <1>4 DEF IInv, Carried
<1>7. PublishedIsCommitted'
  BY <1>1, <1>2, <1>4 DEF IInv, PublishedIsCommitted, Shapes, NodeRows, t
<1> QED
  BY <1>2, <1>5, <1>6, <1>7, StoreAlone DEF IInv, Shapes

\* What the store accepts at a time t.at: the certificate goes in under the attempt's
\* name, newest and disorder follow.
Takes(a, t) ==
  /\ certs[a] = NoCert /\ t = attempt[a] /\ t.pc = "stamped"
  /\ ActiveAt(t.cert, t.at) /\ t.inst \notin revoked
  /\ attempt' = [attempt EXCEPT ![a].pc = "answered"]
  /\ Accepted(t.at)
  /\ UNCHANGED <<clock, revoked, node>>

\* The times after it.
LEMMA AcceptedTimes ==
  ASSUME IInv, NEW a \in Attempts, NEW t, Takes(a, t)
  PROVE  /\ t \in AttemptRows /\ Signed(t, clock) /\ t.at \in Nat /\ t.cert \in CertRows
         /\ newest' \in Nat /\ newest <= newest' /\ newest' <= clock' /\ t.at <= newest'
         /\ disorder' \in BOOLEAN /\ t.cert.before <= t.at
         /\ ~disorder' => ~disorder /\ newest <= t.at /\ newest' = t.at
<1>1. t \in AttemptRows /\ clock \in Nat /\ newest \in Nat /\ disorder \in BOOLEAN
  BY Zenon DEF Takes, IInv, Shapes
<1>2. t.at \in Nat /\ t.cert \in CertRows
  BY Zenon, <1>1 DEF AttemptRows
<1>3. Signed(t, clock) /\ newest <= clock
  BY Zenon DEF Takes, IInv, Carried, Times
<1>4. t.at <= clock /\ clock' = clock /\ t.cert.before <= t.at
  BY Zenon, <1>3 DEF Takes, Signed, ActiveAt
<1>5. newest' = IF t.at > newest THEN t.at ELSE newest
  BY Zenon DEF Takes, Accepted
<1>6. newest' \in Nat /\ newest <= newest' /\ newest' <= clock' /\ t.at <= newest'
  BY <1>1, <1>2, <1>3, <1>4, <1>5
<1>7. disorder' = (disorder \/ t.at < newest)
  BY DEF Takes, Accepted
<1>8. disorder' \in BOOLEAN /\ (~disorder' => ~disorder /\ ~(t.at < newest))
  BY <1>7, Zenon
<1>9. ~(t.at < newest) => newest <= t.at /\ newest' = t.at
  BY <1>1, <1>2, <1>5
<1> QED
  BY <1>1, <1>2, <1>3, <1>4, <1>6, <1>8, <1>9

\* What else does not depend on how the other certificates change, as long as they keep
\* their names and their revocation.
LEMMA TakesKeeps ==
  ASSUME Sensible, IInv, NEW a \in Attempts, NEW t, Takes(a, t),
         certs' \in [Attempts -> CertRows], certs'[a] = t.cert,
         \A b \in Attempts \ {a} :
           /\ certs'[b].inst = certs[b].inst
           /\ certs'[b].before = certs[b].before
           /\ certs'[b] = NoCert <=> certs[b] = NoCert
           /\ certs[b].state = "revoked" => certs'[b].state = "revoked",
         pairings' \in [Pairings -> PairingRows]
  PROVE  Shapes' /\ Carried' /\ Times' /\ RevokedHasNone' /\ PublishedIsCommitted'
<1> DEFINE u == [t EXCEPT !.pc = "answered"]
<1>1. /\ t \in AttemptRows /\ Signed(t, clock) /\ t.at \in Nat /\ t.cert \in CertRows
      /\ newest' \in Nat /\ newest <= newest' /\ newest' <= clock' /\ t.at <= newest'
      /\ disorder' \in BOOLEAN /\ t.cert.before <= t.at
  BY Zenon, AcceptedTimes
<1>2. attempt' = [attempt EXCEPT ![a] = u] /\ attempt[a].pc = "stamped"
  BY Zenon DEF Takes, IInv, Shapes, AttemptRows
<1>3. u \in AttemptRows /\ u.pc = "answered" /\ Signed(u, clock) /\ u.inst = t.inst
  BY Zenon, <1>1 DEF AttemptRows, Signed
<1> HIDE DEF u
<1>4. attempt'[a] = u /\ \A b \in Attempts \ {a} : attempt'[b] = attempt[b]
  BY Zenon, <1>2 DEF IInv, Shapes
<1>5. UNCHANGED <<clock, revoked, node>> /\ t.inst \notin revoked /\ certs[a] = NoCert
  BY Zenon DEF Takes
<1>6. Shapes'
  BY Zenon, <1>1, <1>2, <1>3, <1>5 DEF IInv, Shapes
<1>7. certs'[a] # NoCert /\ certs'[a].inst = u.inst
  BY <1>1, <1>3 DEF Signed, NoCert
<1>8. Carried'
  BY ZenonT(60), <1>3, <1>4, <1>5, <1>7 DEF IInv, Carried
<1>9. Times'
  <2>1. \A b \in Attempts : certs[b].before \in Nat /\ certs[b].before <= newest
    BY Zenon DEF IInv, Shapes, Times, CertRows
  <2>2. t.cert.before \in Nat /\ newest \in Nat
    BY Zenon, <1>1 DEF CertRows, IInv, Shapes
  <2>3. \A b \in Attempts : certs'[b].before <= newest'
    BY <1>1, <2>1, <2>2
  <2> QED
    BY Zenon, <1>1, <2>3 DEF Times
<1>10. RevokedHasNone'
  BY ZenonT(60), <1>1, <1>5 DEF IInv, RevokedHasNone, Signed
<1>11. PublishedIsCommitted'
  BY <1>2, <1>4, <1>5 DEF IInv, PublishedIsCommitted, Shapes, NodeRows
<1> QED
  BY Zenon, <1>6, <1>8, <1>9, <1>10, <1>11

\* A redemption consumes its pairing and finds no certificate that is still good.
LEMMA RedeemStep ==
  ASSUME Sensible, IInv, NEW a \in Attempts, RedeemPairing(a)
  PROVE  IInv'
<1> DEFINE t == attempt[a]
           p == t.pairing
<1>1. CASE ~Redeemable(a)
  <2>1. Done(a) /\ UNCHANGED <<clock, pairings, certs, revoked, node, newest, disorder>>
    BY Zenon, <1>1 DEF RedeemPairing
  <2> QED
    BY Zenon, <2>1, OverStep
<1>2. CASE Redeemable(a)
  <2>1. /\ Takes(a, t) /\ p # None
        /\ Pending(p, t.at) /\ pairings[p].inst = t.inst /\ ~HasActive(t.inst, t.at)
        /\ pairings' = [pairings EXCEPT ![p].state = "consumed"]
        /\ certs' = [certs EXCEPT ![a] = t.cert]
    BY Zenon, <1>2 DEF RedeemPairing, Redeemable, Takes
  <2>2. /\ t \in AttemptRows /\ Signed(t, clock) /\ t.at \in Nat /\ t.cert \in CertRows
        /\ ~disorder' => ~disorder /\ newest <= t.at /\ newest' = t.at
    BY Zenon, <2>1, AcceptedTimes
  <2>3. p \in Pairings /\ pairings[p].state = "pending" /\ certs[a] = NoCert
    BY Zenon, <2>1, <2>2 DEF AttemptRows, Pending, Takes
  <2>4. /\ t.cert.pairing = p /\ t.cert.inst = t.inst /\ t.inst \in Installations
        /\ t.cert.state = "active" /\ t.cert.before < t.cert.after
    BY Zenon, <2>2 DEF Signed
  <2>5. /\ certs \in [Attempts -> CertRows] /\ pairings \in [Pairings -> PairingRows]
        /\ newest \in Nat
    BY Zenon DEF IInv, Shapes
  <2> HIDE DEF p, t
  <2>6. /\ certs' \in [Attempts -> CertRows] /\ certs'[a] = t.cert
        /\ \A b \in Attempts \ {a} : certs'[b] = certs[b]
    BY Zenon, <2>1, <2>2, <2>5
  <2>7. /\ pairings'[p].state = "consumed" /\ pairings'[p].inst = pairings[p].inst
        /\ pairings'[p].created = pairings[p].created
        /\ pairings'[p].expires = pairings[p].expires
        /\ \A q \in Pairings \ {p} : pairings'[q] = pairings[q]
        /\ pairings' \in [Pairings -> PairingRows]
    BY ZenonT(60), <2>1, <2>3, <2>5 DEF PairingRows
  <2>8. Shapes' /\ Carried' /\ Times' /\ RevokedHasNone' /\ PublishedIsCommitted'
    BY Zenon, <2>1, <2>6, <2>7, TakesKeeps
  <2>9. TypeOK'
    <3>1. TypeOK /\ pairings[p] # NoPairing
      BY <2>3 DEF IInv, NoPairing
    <3>2. attempt' \in [Attempts -> AttemptRows]
      BY Zenon, <2>8 DEF Shapes
    <3> QED
      BY <2>3, <2>4, <2>6, <2>7, <3>1, <3>2 DEF TypeOK, AttemptRows
  <2>10. CodesUsed'
    <3>1. CodesUsed
      BY Zenon DEF IInv
    <3>2. \A b \in Attempts : certs[b].pairing # p
      BY Zenon, <2>3, <3>1 DEF CodesUsed
    <3>3. certs[a].pairing = None
      BY <2>3 DEF NoCert
    <3>4. \A b \in Attempts : certs'[b].pairing = p <=> b = a
      BY Zenon, <2>4, <2>6, <3>2
    <3>5. \A q \in Pairings \ {p} : \A b \in Attempts :
            certs'[b].pairing = q <=> certs[b].pairing = q /\ b # a
      BY Zenon, <2>4, <2>6, <3>3 DEF Sensible
    <3>6. \A q \in Pairings \ {p} : certs[a].pairing # q
      BY Zenon, <3>3 DEF Sensible
    <3>7. ASSUME NEW q \in Pairings \ {p}
          PROVE  /\ \A b \in Attempts : certs'[b].pairing = q => certs'[b].inst = pairings'[q].inst
                 /\ IF pairings'[q].state = "consumed"
                      THEN \E x \in Attempts : \A b \in Attempts : certs'[b].pairing = q <=> b = x
                      ELSE \A b \in Attempts : certs'[b].pairing # q
      <4>1. pairings'[q] = pairings[q] /\ \A b \in Attempts : certs'[b].pairing = q <=> certs[b].pairing = q
        BY Zenon, <2>7, <3>5, <3>6
      <4>2. \A b \in Attempts : certs[b].pairing = q => certs'[b].inst = certs[b].inst
        BY Zenon, <2>6, <3>6
      <4> QED
        BY <3>1, <4>1, <4>2 DEF CodesUsed
    <3>8. \A b \in Attempts : certs'[b].pairing = p => certs'[b].inst = pairings'[p].inst
      BY ZenonT(60), <2>1, <2>4, <2>6, <2>7, <3>4
    <3> QED
      BY <2>7, <3>4, <3>7, <3>8 DEF CodesUsed
  <2>11. Apart'
    <3> SUFFICES ASSUME ~disorder'
                 PROVE  \A b, c \in Attempts :
                          b # c /\ certs'[b].inst = certs'[c].inst
                          /\ certs'[b].state = "active" /\ certs'[c].state = "active"
                            => certs'[b].after <= newest' \/ certs'[c].after <= newest'
      BY Zenon DEF Apart
    <3>1. ~disorder /\ newest <= t.at /\ newest' = t.at
      BY Zenon, <2>2
    <3>2. ASSUME NEW b \in Attempts \ {a}, certs[b].inst = t.inst, certs[b].state = "active"
          PROVE  certs[b].after <= t.at
      <4>1. certs[b].before <= newest /\ certs[b].before \in Nat /\ certs[b].after \in Nat
        BY Zenon, <2>5 DEF IInv, Times, CertRows
      <4>2. ~ActiveAt(certs[b], t.at)
        BY Zenon, <2>1, <3>2 DEF HasActive
      <4> QED
        BY <2>2, <2>5, <3>1, <3>2, <4>1, <4>2 DEF ActiveAt
    <3>3. \A b, c \in Attempts \ {a} :
            b # c /\ certs[b].inst = certs[c].inst
            /\ certs[b].state = "active" /\ certs[c].state = "active"
              => certs[b].after <= newest' \/ certs[c].after <= newest'
      <4>1. \A b \in Attempts : certs[b].after \in Nat
        BY Zenon, <2>5 DEF CertRows
      <4> QED
        BY <2>2, <2>5, <3>1, <4>1 DEF IInv, Apart
    <3> QED
      BY <2>4, <2>6, <3>1, <3>2, <3>3
  <2> QED
    BY Zenon, <2>8, <2>9, <2>10, <2>11 DEF IInv
<1> QED
  BY Zenon, <1>1, <1>2

\* A rotation replaces the one certificate that may still be good.
LEMMA RotateStep ==
  ASSUME Sensible, IInv, NEW a \in Attempts, NEW overlap \in Overlaps,
         RotateCertificate(a, overlap)
  PROVE  IInv'
<1> DEFINE t == attempt[a]
           n == t.current
           old == certs[n]
<1>1. CASE ~Rotatable(a, overlap)
  <2>1. Done(a) /\ UNCHANGED <<clock, pairings, certs, revoked, node, newest, disorder>>
    BY Zenon, <1>1 DEF RotateCertificate
  <2> QED
    BY Zenon, <2>1, OverStep
<1>2. CASE Rotatable(a, overlap)
  <2>1. /\ Takes(a, t) /\ n # None
        /\ old.state = "active" /\ old.inst = t.inst /\ ActiveAt(old, t.at)
        /\ t.at + overlap < old.after
        /\ certs' = [certs EXCEPT ![a] = t.cert, ![n].state = "retiring",
                                  ![n].retire = t.at + overlap]
        /\ pairings' = pairings
    BY Zenon, <1>2 DEF RotateCertificate, Rotatable, Takes
  <2>2. /\ t \in AttemptRows /\ Signed(t, clock) /\ t.at \in Nat /\ t.cert \in CertRows
        /\ newest' \in Nat /\ newest <= newest'
        /\ ~disorder' => ~disorder /\ newest <= t.at /\ newest' = t.at
    BY Zenon, <2>1, AcceptedTimes
  <2>3. n \in Attempts /\ certs[a] = NoCert /\ n # a
    BY <2>1, <2>2 DEF AttemptRows, Takes, NoCert
  <2>4. /\ t.cert.pairing = None /\ t.cert.inst = t.inst /\ t.inst \in Installations
        /\ t.cert.state = "active" /\ t.cert.before < t.cert.after
    BY Zenon, <2>1, <2>2 DEF Signed
  <2>5. /\ certs \in [Attempts -> CertRows] /\ pairings \in [Pairings -> PairingRows]
        /\ newest \in Nat /\ overlap \in Nat /\ t.at + overlap \in Nat
    BY <2>2 DEF IInv, Shapes, Sensible
  <2>6. PICK r \in Nat : r = t.at + overlap
    BY Zenon, <2>5
  <2> HIDE DEF n, t
  <2>7. certs' = [certs EXCEPT ![a] = t.cert, ![n] = [old EXCEPT !.state = "retiring", !.retire = r]]
    BY Zenon, <2>1, <2>3, <2>5, <2>6 DEF CertRows
  <2>8. old \in CertRows
    BY <2>3, <2>5
  <2> HIDE DEF old
  <2>9. /\ certs' \in [Attempts -> CertRows] /\ certs'[a] = t.cert
        /\ \A b \in Attempts \ {a, n} : certs'[b] = certs[b]
        /\ certs'[n] = [old EXCEPT !.state = "retiring", !.retire = r]
    BY Zenon, <2>2, <2>3, <2>5, <2>7, <2>8 DEF CertRows
  <2>10. /\ certs'[n].state = "retiring" /\ certs'[n].retire = r
         /\ certs'[n].inst = old.inst /\ certs'[n].pairing = old.pairing
         /\ certs'[n].before = old.before /\ certs'[n].after = old.after
         /\ certs[n] = old /\ old # NoCert /\ certs'[n] # NoCert
    <3>1. certs[n] = old
      BY Zenon DEF old
    <3>2. old # NoCert
      BY <2>1 DEF NoCert
    <3>3. /\ certs'[n].state = "retiring" /\ certs'[n].retire = r
          /\ certs'[n].inst = old.inst /\ certs'[n].pairing = old.pairing
          /\ certs'[n].before = old.before /\ certs'[n].after = old.after
      BY Zenon, <2>8, <2>9 DEF CertRows
    <3>4. certs'[n] # NoCert
      BY <3>3 DEF NoCert
    <3> QED
      BY <3>1, <3>2, <3>3, <3>4
  <2>11. Shapes' /\ Carried' /\ Times' /\ RevokedHasNone' /\ PublishedIsCommitted'
    <3>1. \A b \in Attempts \ {a} :
            /\ certs'[b].inst = certs[b].inst
            /\ certs'[b].before = certs[b].before
            /\ certs'[b] = NoCert <=> certs[b] = NoCert
            /\ certs[b].state = "revoked" => certs'[b].state = "revoked"
      BY ZenonT(60), <2>1, <2>9, <2>10
    <3> QED
      BY Zenon, <2>1, <2>5, <2>9, <3>1, TakesKeeps
  <2>12. TypeOK'
    <3>1. TypeOK
      BY DEF IInv
    <3>2. attempt' \in [Attempts -> AttemptRows]
      BY <2>11 DEF Shapes
    <3>3. old.inst \in Installations /\ old.before < old.after
      BY <2>3, <2>10, <3>1 DEF TypeOK
    <3>4. r \in old.before..(old.after - 1)
      BY <2>1, <2>2, <2>5, <2>6, <2>8 DEF ActiveAt, CertRows
    <3>5. \A b \in Attempts : certs'[b] = NoCert \/
            /\ certs'[b].inst \in Installations /\ certs'[b].before < certs'[b].after
            /\ certs'[b].state \in {"active", "retiring", "revoked"}
            /\ certs'[b].state = "retiring"
                 => certs'[b].retire \in certs'[b].before..(certs'[b].after - 1)
      <4> TAKE b \in Attempts
      <4>1. CASE b = a
        BY Zenon, <2>4, <2>9, <4>1
      <4>2. CASE b = n
        BY Zenon, <2>10, <3>3, <3>4, <4>2
      <4>3. CASE b \notin {a, n}
        BY Zenon, <2>9, <3>1, <4>3 DEF TypeOK
      <4> QED
        BY Zenon, <4>1, <4>2, <4>3
    <3> QED
      BY ZenonT(60), <2>1, <3>1, <3>2, <3>5 DEF TypeOK, AttemptRows
  <2>13. CodesUsed'
    <3>1. CodesUsed /\ certs[a].pairing = None
      BY <2>3 DEF IInv, NoCert
    <3>2. \A b \in Attempts : certs'[b].pairing = certs[b].pairing
      BY ZenonT(60), <2>4, <2>9, <2>10, <3>1
    <3>3. \A b \in Attempts \ {a} : certs'[b].inst = certs[b].inst
      BY Zenon, <2>9, <2>10
    <3> QED
      <4> SUFFICES ASSUME NEW p \in Pairings
                   PROVE  /\ \A b \in Attempts :
                               certs'[b].pairing = p => certs'[b].inst = pairings'[p].inst
                          /\ IF pairings'[p].state = "consumed"
                               THEN \E x \in Attempts : \A b \in Attempts :
                                      certs'[b].pairing = p <=> b = x
                               ELSE \A b \in Attempts : certs'[b].pairing # p
        BY Zenon DEF CodesUsed
      <4>1. certs[a].pairing # p /\ pairings' = pairings
        BY Zenon, <2>1, <3>1 DEF Sensible
      <4>2. /\ \A b \in Attempts : certs[b].pairing = p => certs[b].inst = pairings[p].inst
            /\ IF pairings[p].state = "consumed"
                 THEN \E x \in Attempts : \A b \in Attempts : certs[b].pairing = p <=> b = x
                 ELSE \A b \in Attempts : certs[b].pairing # p
        BY Zenon, <3>1 DEF CodesUsed
      <4>3. \A b \in Attempts : certs'[b].pairing = p => certs'[b].inst = pairings'[p].inst
        BY Zenon, <3>2, <3>3, <4>1, <4>2
      <4> QED
        BY <3>2, <4>1, <4>2, <4>3
  <2>14. Apart'
    <3> SUFFICES ASSUME ~disorder'
                 PROVE  \A b, c \in Attempts :
                          b # c /\ certs'[b].inst = certs'[c].inst
                          /\ certs'[b].state = "active" /\ certs'[c].state = "active"
                            => certs'[b].after <= newest' \/ certs'[c].after <= newest'
      BY DEF Apart
    <3>1. ~disorder /\ newest <= t.at /\ newest' = t.at
      BY <2>2
    <3>2. \A b \in Attempts : certs[b].after \in Nat
      BY <2>5 DEF CertRows
    <3>3. \A b, c \in Attempts :
            b # c /\ certs[b].inst = certs[c].inst
            /\ certs[b].state = "active" /\ certs[c].state = "active"
              => certs[b].after <= newest' \/ certs[c].after <= newest'
      BY <2>2, <2>5, <3>1, <3>2 DEF IInv, Apart
    <3>4. ~(certs[n].after <= newest')
      BY <2>1, <2>2, <2>3, <2>5, <2>6, <2>10, <3>1, <3>2
    <3>5. \A b \in Attempts \ {a, n} :
            certs[b].inst = t.inst /\ certs[b].state = "active" => certs[b].after <= newest'
      BY Zenon, <2>1, <2>3, <2>10, <3>3, <3>4
    <3>6. \A b \in Attempts \ {a} : certs'[b].state = "active" => b # n /\ certs'[b] = certs[b]
      BY Zenon, <2>9, <2>10
    <3> TAKE b, c \in Attempts
    <3> HAVE b # c /\ certs'[b].inst = certs'[c].inst
             /\ certs'[b].state = "active" /\ certs'[c].state = "active"
    <3>7. CASE b = a
      BY <2>4, <2>9, <3>5, <3>6, <3>7
    <3>8. CASE c = a
      BY <2>4, <2>9, <3>5, <3>6, <3>8
    <3>9. CASE b # a /\ c # a
      BY <3>3, <3>6, <3>9
    <3> QED
      BY <3>7, <3>8, <3>9
  <2> QED
    BY Zenon, <2>11, <2>12, <2>13, <2>14 DEF IInv
<1> QED
  BY Zenon, <1>1, <1>2

\* Certificates, of some attempts, that become revoked and change in nothing else.
LEMMA WithdrawnStep ==
  ASSUME Sensible, IInv, NEW R \in SUBSET Attempts,
         \A a \in R : certs[a] # NoCert,
         certs' = [a \in Attempts |->
           IF a \in R THEN [certs[a] EXCEPT !.state = "revoked"] ELSE certs[a]],
         revoked' \in SUBSET Installations,
         \A a \in Attempts : certs[a].inst \in revoked' => certs'[a].state = "revoked",
         UNCHANGED <<clock, pairings, attempt, node, newest, disorder>>
  PROVE  IInv'
<1>1. /\ certs \in [Attempts -> CertRows] /\ Shapes /\ TypeOK
  BY Zenon DEF IInv, Shapes
<1>2. \A a \in Attempts :
        /\ certs'[a] \in CertRows
        /\ certs'[a].inst = certs[a].inst /\ certs'[a].pairing = certs[a].pairing
        /\ certs'[a].before = certs[a].before /\ certs'[a].after = certs[a].after
        /\ certs'[a] = NoCert <=> certs[a] = NoCert
        /\ certs'[a] = certs[a] \/ certs'[a].state = "revoked"
  BY ZenonT(60), <1>1 DEF CertRows, NoCert
<1>3. Shapes'
  BY <1>1, <1>2 DEF Shapes
<1>4. TypeOK'
  BY ZenonT(60), <1>1, <1>2 DEF TypeOK
<1>5. Carried'
  BY ZenonT(60), <1>2 DEF IInv, Carried
<1>6. CodesUsed'
  BY <1>2 DEF IInv, CodesUsed
<1>7. Times'
  BY ZenonT(60), <1>2 DEF IInv, Times
<1>8. Apart'
  BY <1>2 DEF IInv, Apart
<1>9. RevokedHasNone'
  BY Zenon, <1>2 DEF RevokedHasNone
<1>10. PublishedIsCommitted'
  BY <1>2 DEF IInv, PublishedIsCommitted, Shapes, NodeRows
<1> QED
  BY Zenon, <1>3, <1>4, <1>5, <1>6, <1>7, <1>8, <1>9, <1>10 DEF IInv

\* Revoking one certificate keeps the invariant.
LEMMA RevokeCertificateStep ==
  ASSUME Sensible, IInv, NEW a \in Attempts, NEW at, RevokeCertificate(a, at)
  PROVE  IInv'
<1>1. certs \in [Attempts -> CertRows]
  BY DEF IInv, Shapes
<1>2. certs' = [b \in Attempts |->
        IF b \in {a} THEN [certs[b] EXCEPT !.state = "revoked"] ELSE certs[b]]
  BY Zenon, <1>1 DEF RevokeCertificate
<1>3. \A b \in Attempts : certs[b].inst \in revoked => certs'[b].state = "revoked"
  BY <1>1, <1>2 DEF IInv, RevokedHasNone, CertRows
<1>4. /\ {a} \in SUBSET Attempts /\ \A b \in {a} : certs[b] # NoCert
      /\ revoked' = revoked /\ revoked \in SUBSET Installations
      /\ UNCHANGED <<clock, pairings, attempt, node, newest, disorder>>
  BY DEF RevokeCertificate, IInv, Shapes
<1> QED
  BY Zenon, <1>2, <1>3, <1>4, WithdrawnStep

\* Revoking an installation revokes all its certificates, so none is left active.
LEMMA RevokeInstallationStep ==
  ASSUME Sensible, IInv, NEW i \in Installations, NEW at, RevokeInstallation(i, at)
  PROVE  IInv'
<1> DEFINE R == {b \in Attempts : certs[b].inst = i}
<1>1. certs \in [Attempts -> CertRows]
  BY DEF IInv, Shapes
<1>2. certs' = [b \in Attempts |->
        IF b \in R THEN [certs[b] EXCEPT !.state = "revoked"] ELSE certs[b]]
  BY <1>1 DEF RevokeInstallation
<1>3. /\ R \in SUBSET Attempts /\ \A b \in R : certs[b] # NoCert
      /\ revoked' = revoked \cup {i} /\ revoked' \in SUBSET Installations
      /\ UNCHANGED <<clock, pairings, attempt, node, newest, disorder>>
  BY DEF RevokeInstallation, IInv, Shapes, NoCert, Sensible
<1>4. \A b \in Attempts : certs[b].inst \in revoked' => certs'[b].state = "revoked"
  BY <1>1, <1>2, <1>3 DEF IInv, RevokedHasNone, CertRows
<1> HIDE DEF R
<1> QED
  BY Zenon, <1>2, <1>3, <1>4, WithdrawnStep

\* An answer is published only for the key the node waits with; the store has it.
LEMMA AnswerStep ==
  ASSUME Sensible, IInv, NEW a \in Attempts, Answer(a)
  PROVE  IInv'
<1> DEFINE i == attempt[a].inst
<1>1. /\ attempt[a].pc = "answered" /\ Done(a)
      /\ UNCHANGED <<clock, pairings, certs, revoked, newest, disorder>>
      /\ node' = IF ValidateResponse(a, i) THEN [node EXCEPT ![i].cert = node[i].waits] ELSE node
  BY DEF Answer
<1>2. CASE ~ValidateResponse(a, i)
  BY <1>1, <1>2, OverStep
<1>3. CASE ValidateResponse(a, i)
  <2>1. node[i].waits = a /\ node' = [node EXCEPT ![i].cert = a]
    BY Zenon, <1>1, <1>3 DEF ValidateResponse
  <2>2. i \in Installations /\ certs[a] # NoCert /\ certs[a].inst = i
    BY Zenon, <1>1 DEF IInv, Carried, Signed
  <2>3. node \in [Installations -> NodeRows]
    BY Zenon DEF IInv, Shapes
  <2> HIDE DEF i
  <2>4. /\ node' \in [Installations -> NodeRows] /\ node'[i].cert = a
        /\ \A j \in Installations \ {i} : node'[j] = node[j]
    BY Zenon, <2>1, <2>2, <2>3 DEF NodeRows
  <2>5. Shapes'
    BY Zenon, <1>1, <2>4, EmptyRows DEF IInv, Shapes, Done
  <2>6. attempt'[a].pc = "over" /\ \A b \in Attempts \ {a} : attempt'[b] = attempt[b]
    BY Zenon, <1>1 DEF IInv, Shapes, Done, Idle
  <2>7. Carried'
    BY Zenon, <1>1, <2>6 DEF IInv, Carried
  <2>8. PublishedIsCommitted'
    BY <1>1, <2>2, <2>3, <2>4, <2>6 DEF IInv, PublishedIsCommitted, NodeRows
  <2> QED
    BY <1>1, <2>5, <2>7, <2>8, StoreAlone DEF IInv, Shapes
<1> QED
  BY <1>2, <1>3

\* Time passing only moves the clock away from the store's times.
LEMMA TickStep ==
  ASSUME IInv, Tick
  PROVE  IInv'
<1>1. /\ clock \in Nat /\ clock' = clock + 1
      /\ UNCHANGED <<pairings, certs, revoked, attempt, node, newest, disorder>>
  BY Zenon DEF Tick, IInv, Shapes
<1>2. Shapes'
  BY <1>1 DEF IInv, Shapes
<1>3. Carried'
  <2>1. \A a \in Attempts : attempt[a].at \in Nat
    BY Zenon DEF IInv, Shapes, AttemptRows
  <2>2. \A a \in Attempts : Signed(attempt[a], clock) => Signed(attempt[a], clock + 1)
    BY <1>1, <2>1 DEF Signed
  <2> QED
    BY Zenon, <1>1, <2>2 DEF IInv, Carried
<1>4. PublishedIsCommitted'
  BY Zenon, <1>1 DEF IInv, PublishedIsCommitted
<1> QED
  BY <1>1, <1>2, <1>3, <1>4, StoreAlone

\* The invariant is inductive: one step per action of the store, the node and the network.
LEMMA NextIInv ==
  ASSUME Sensible, IInv, [Next]_vars
  PROVE  IInv'
<1>1. ASSUME NEW p \in Pairings, NEW i \in Installations, NEW life \in PairingLives,
             CreatePairing(p, i, life)
      PROVE  IInv'
  BY Zenon, <1>1, CreatePairingStep
<1>2. ASSUME NEW a \in Attempts, NEW p \in Pairings, NEW life \in Lives, FindPairing(a, p, life)
      PROVE  IInv'
  BY Zenon, <1>2, FindPairingStep
<1>3. ASSUME NEW a \in Attempts, NEW i \in Installations, NEW life \in Lives, Present(a, i, life)
      PROVE  IInv'
  BY <1>3, PresentStep
<1>4. ASSUME NEW a \in Attempts, Stamp(a) PROVE IInv'
  BY Zenon, <1>4, StampStep
<1>5. ASSUME NEW a \in Attempts, RedeemPairing(a) PROVE IInv'
  BY Zenon, <1>5, RedeemStep
<1>6. ASSUME NEW a \in Attempts, Answer(a) PROVE IInv'
  BY <1>6, AnswerStep
<1>7. ASSUME NEW a \in Attempts, Lose(a) PROVE IInv'
  BY Zenon, <1>7, OverStep DEF Lose
<1>8. ASSUME NEW a \in Attempts, NEW overlap \in Overlaps, RotateCertificate(a, overlap)
      PROVE  IInv'
  BY Zenon, <1>8, RotateStep
<1>9. ASSUME NEW a \in Attempts, NEW at, RevokeCertificate(a, at) PROVE IInv'
  BY Zenon, <1>9, RevokeCertificateStep
<1>10. ASSUME NEW i \in Installations, NEW at, RevokeInstallation(i, at) PROVE IInv'
  BY Zenon, <1>10, RevokeInstallationStep
<1>11. ASSUME Tick PROVE IInv'
  BY Zenon, <1>11, TickStep
<1>12. ASSUME UNCHANGED vars PROVE IInv'
  <2>1. /\ clock' = clock /\ pairings' = pairings /\ certs' = certs /\ revoked' = revoked
        /\ attempt' = attempt /\ node' = node /\ newest' = newest /\ disorder' = disorder
    BY Zenon, <1>12 DEF vars
  <2>2. Shapes'
    BY Zenon, <2>1 DEF IInv, Shapes
  <2>3. TypeOK'
    BY Zenon, <2>1 DEF IInv, TypeOK
  <2>4. Carried'
    BY Zenon, <2>1 DEF IInv, Carried
  <2>5. CodesUsed'
    <3>1. CodesUsed
      BY Zenon DEF IInv
    <3> QED
      BY <2>1, <3>1 DEF CodesUsed
  <2>6. Times' /\ Apart'
    BY Zenon, <2>1 DEF IInv, Times, Apart
  <2>7. RevokedHasNone' /\ PublishedIsCommitted'
    BY Zenon, <2>1 DEF IInv, RevokedHasNone, PublishedIsCommitted
  <2> QED
    BY Zenon, <2>2, <2>3, <2>4, <2>5, <2>6, <2>7 DEF IInv
<1> QED
  BY ZenonT(60), <1>1, <1>2, <1>3, <1>4, <1>5, <1>6, <1>7, <1>8, <1>9, <1>10, <1>11, <1>12 DEF Next

----------------------------------------------------------------------------
(* The theorems.                                                            *)

\* The invariant holds in every state of every enrolment.
THEOREM AlwaysIInv ==
  ASSUME Sensible
  PROVE  Spec => []IInv
<1>1. Init => IInv
  BY InitIInv
<1>2. IInv /\ [Next]_vars => IInv'
  BY NextIInv
<1> QED
  BY <1>1, <1>2, PTL DEF Spec

\* A pairing code gives one certificate, for its own installation: of all the attempts
\* that found it pending, RedeemPairing lets one in.
THEOREM CodesRedeemedOnce ==
  ASSUME Sensible
  PROVE  Spec => []PairingRedeemedOnce
<1>1. ASSUME CodesUsed, NEW p \in Pairings
      PROVE  LET given == {a \in Attempts : certs[a].pairing = p} IN
             /\ Cardinality(given) = (IF pairings[p].state = "consumed" THEN 1 ELSE 0)
             /\ \A a \in given : certs[a].inst = pairings[p].inst
  <2> DEFINE given == {a \in Attempts : certs[a].pairing = p}
  <2>1. \A a \in given : certs[a].inst = pairings[p].inst
    BY <1>1 DEF CodesUsed
  <2>2. CASE pairings[p].state = "consumed"
    <3>1. PICK a \in Attempts : \A b \in Attempts : certs[b].pairing = p <=> b = a
      BY <1>1, <2>2 DEF CodesUsed
    <3>2. given = {a}
      BY <3>1
    <3> HIDE DEF given
    <3>3. Cardinality(given) = 1
      BY <3>2, FS_Singleton
    <3> QED
      BY <2>1, <2>2, <3>3 DEF given
  <2>3. CASE pairings[p].state # "consumed"
    <3>1. given = {}
      BY Zenon, <1>1, <2>3 DEF CodesUsed
    <3> HIDE DEF given
    <3>2. Cardinality(given) = 0
      BY Zenon, <3>1, FS_EmptySet
    <3> QED
      BY <2>1, <2>3, <3>2 DEF given
  <2> QED
    BY <2>2, <2>3
<1>2. IInv => PairingRedeemedOnce
  BY Zenon, <1>1 DEF IInv, PairingRedeemedOnce
<1> QED
  BY <1>2, AlwaysIInv, PTL

\* An installation has one certificate that is active and not retiring, unless a
\* redemption or a rotation carried an earlier time than one accepted before it.
THEOREM OneIsPreferred ==
  ASSUME Sensible
  PROVE  Spec => []OnePreferred
<1>1. ASSUME IInv, ~disorder, NEW i \in Installations
      PROVE  Cardinality({a \in Attempts : certs[a].inst = i /\ certs[a].state = "active"
                                           /\ ActiveAt(certs[a], clock)}) <= 1
  <2> DEFINE good == {a \in Attempts : certs[a].inst = i /\ certs[a].state = "active"
                                       /\ ActiveAt(certs[a], clock)}
  <2>1. /\ newest <= clock /\ newest \in Nat /\ clock \in Nat
        /\ \A a \in Attempts : certs[a].after \in Nat
    BY Zenon, <1>1 DEF IInv, Shapes, Times, CertRows
  <2>2. \A a \in good : ~(certs[a].after <= newest)
    BY <2>1 DEF ActiveAt
  <2>3. \A a, b \in good : a = b
    BY Zenon, <1>1, <2>2 DEF IInv, Apart
  <2> HIDE DEF good
  <2>4. ASSUME good = {} PROVE Cardinality(good) <= 1
    BY <2>4, FS_EmptySet
  <2>5. ASSUME good # {} PROVE Cardinality(good) <= 1
    <3>1. PICK a : a \in good
      BY Zenon, <2>5
    <3>2. good = {a}
      BY Zenon, <2>3, <3>1
    <3>3. Cardinality(good) = 1
      BY <3>2, FS_Singleton, Zenon
    <3> QED
      BY <3>3
  <2>6. Cardinality(good) <= 1
    BY Zenon, <2>4, <2>5
  <2> QED
    BY Zenon, <2>6 DEF good
<1>2. IInv => OnePreferred
  BY Zenon, <1>1 DEF OnePreferred
<1> QED
  BY <1>2, AlwaysIInv, PTL

\* Nothing that was signed or found before a revocation gets in after it: a revoked
\* installation has only revoked certificates.
THEOREM RevokedStaysOut ==
  ASSUME Sensible
  PROVE  Spec => []RevokedHasNone
BY AlwaysIInv, PTL DEF IInv

\* A node publishes only what the store committed for it, whatever becomes of the
\* answers to its other attempts.
THEOREM PublishedAlwaysCommitted ==
  ASSUME Sensible
  PROVE  Spec => []PublishedIsCommitted
BY AlwaysIInv, PTL DEF IInv

\* No step brings back what was revoked or has retired, and only a revocation takes an
\* active certificate out of service early.
THEOREM NothingComesBack ==
  ASSUME Sensible
  PROVE  Spec => [][KeepsCertificates]_vars
<1>1. IInv /\ [Next]_vars => [KeepsCertificates]_vars
  <2> SUFFICES ASSUME IInv, Next PROVE KeepsCertificates
    BY Zenon DEF KeepsCertificates
  <2>1. certs \in [Attempts -> CertRows]
    BY Zenon DEF IInv, Shapes
  <2>2. CASE UNCHANGED <<certs, revoked>>
    BY Zenon, <2>2 DEF KeepsCertificates
  <2>3. ASSUME NEW a \in Attempts, RedeemPairing(a), Redeemable(a) PROVE KeepsCertificates
    <3>1. certs[a] = NoCert /\ certs' = [certs EXCEPT ![a] = attempt[a].cert] /\ revoked' = revoked
      BY Zenon, <2>3 DEF RedeemPairing, Redeemable
    <3>2. \A b \in Attempts \ {a} : certs'[b] = certs[b]
      BY Zenon, <2>1, <3>1
    <3>3. certs[a].state = "none"
      BY <3>1 DEF NoCert
    <3> QED
      BY Zenon, <3>1, <3>2, <3>3 DEF KeepsCertificates
  <2>4. ASSUME NEW a \in Attempts, NEW overlap \in Overlaps,
               RotateCertificate(a, overlap), Rotatable(a, overlap)
        PROVE  KeepsCertificates
    <3> DEFINE t == attempt[a]
               n == t.current
    <3>1. /\ certs[a] = NoCert /\ revoked' = revoked /\ t.pc = "stamped" /\ n # None
          /\ certs[n].state = "active" /\ certs[n].inst = t.inst
          /\ certs' = [certs EXCEPT ![a] = t.cert, ![n].state = "retiring",
                                    ![n].retire = t.at + overlap]
      BY <2>4 DEF RotateCertificate, Rotatable
    <3>2. /\ t \in AttemptRows /\ t.cert.inst = t.inst /\ t.cert.state = "active"
      BY <3>1 DEF IInv, Shapes, Carried, Signed
    <3>3. n \in Attempts
      BY Zenon, <3>1, <3>2 DEF AttemptRows
    <3>4. certs[a].state = "none" /\ n # a
      BY <3>1 DEF NoCert
    <3> HIDE DEF n, t
    <3>5. certs'[a] = t.cert /\ \A b \in Attempts \ {a, n} : certs'[b] = certs[b]
      BY Zenon, <2>1, <3>1, <3>3, <3>4
    <3> QED
      BY ZenonT(60), <3>1, <3>2, <3>3, <3>4, <3>5 DEF KeepsCertificates
  <2>5. ASSUME NEW a \in Attempts, NEW at, RevokeCertificate(a, at) PROVE KeepsCertificates
    <3>1. /\ \A b \in Attempts \ {a} : certs'[b] = certs[b]
          /\ certs'[a].state = "revoked" /\ certs'[a].retire = certs[a].retire
          /\ revoked' = revoked
      BY Zenon, <2>1, <2>5 DEF RevokeCertificate, CertRows
    <3> QED
      BY Zenon, <3>1 DEF KeepsCertificates
  <2>6. ASSUME NEW i \in Installations, NEW at, RevokeInstallation(i, at)
        PROVE  KeepsCertificates
    <3>1. /\ \A b \in Attempts :
               \/ certs'[b] = certs[b]
               \/ certs'[b].state = "revoked" /\ certs'[b].retire = certs[b].retire
          /\ revoked \subseteq revoked'
      BY Zenon, <2>1, <2>6 DEF RevokeInstallation, CertRows
    <3> QED
      BY Zenon, <3>1 DEF KeepsCertificates
  <2>7. ASSUME NEW a \in Attempts, RedeemPairing(a), ~Redeemable(a) PROVE UNCHANGED <<certs, revoked>>
    BY Zenon, <2>7 DEF RedeemPairing
  <2>8. ASSUME NEW a \in Attempts, NEW overlap \in Overlaps,
               RotateCertificate(a, overlap), ~Rotatable(a, overlap)
        PROVE  UNCHANGED <<certs, revoked>>
    BY Zenon, <2>8 DEF RotateCertificate
  <2>9. ASSUME NEW a \in Attempts, Stamp(a) \/ Answer(a) \/ Lose(a) PROVE UNCHANGED <<certs, revoked>>
    BY Zenon, <2>9 DEF Stamp, Answer, Lose
  <2>10. ASSUME NEW p \in Pairings, NEW i \in Installations, NEW life, CreatePairing(p, i, life)
         PROVE  UNCHANGED <<certs, revoked>>
    BY Zenon, <2>10 DEF CreatePairing
  <2>11. ASSUME NEW a \in Attempts, NEW x, NEW life, FindPairing(a, x, life) \/ Present(a, x, life)
         PROVE  UNCHANGED <<certs, revoked>>
    BY Zenon, <2>11 DEF FindPairing, Present
  <2>12. Tick => UNCHANGED <<certs, revoked>>
    BY DEF Tick
  <2> QED
    BY ZenonT(60), <2>2, <2>3, <2>4, <2>5, <2>6, <2>7, <2>8, <2>9, <2>10, <2>11, <2>12 DEF Next
<1> QED
  BY <1>1, AlwaysIInv, PTL DEF Spec
=============================================================================
