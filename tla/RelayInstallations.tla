------------------------- MODULE RelayInstallations -------------------------
(***************************************************************************)
(* Enrolment of node agents at the relay: one-use pairing codes, node      *)
(* certificates, their rotation and revocation in MemoryStore, and the     *)
(* node's check of the answer.  An attempt finds a pairing (or presents a  *)
(* current certificate) and has a certificate signed, reads the clock and  *)
(* only then enters the store: each step may be overtaken by other         *)
(* attempts, by revocations and by time.  (Finding and signing are one     *)
(* step: the store checks all of it again.)  Every attempt has its own key *)
(* and gets at most one certificate, both named after it.                  *)
(*                                                                         *)
(* Time is counted in ticks.  The tenant, serial numbers and the encoding  *)
(* of tokens, requests and certificates are left out: an attempt's         *)
(* request is well formed, and the signer returns what it was given.       *)
(***************************************************************************)
EXTENDS Naturals, FiniteSets

CONSTANTS
  Attempts,        \* enrolments and rotations, with their keys, numbered as they come
  Installations,
  Pairings,        \* pairing verifiers, numbered as they are issued
  None,
  MaxTime,         \* bound on the clock
  PairingLives,    \* lifetimes of pairings, at most MaxPairingLifetime
  Lives,           \* lifetimes of certificates, at most MaxCertificateLifetime
  Overlaps,        \* overlaps of rotations, at most RotationMaxOverlap
  Lead             \* RotationDefaultLead

VARIABLES
  clock,
  pairings,   \* the store's pairing records
  certs,      \* the store's certificate records, by fingerprint
  revoked,    \* the installations of installationRevokedAt
  attempt,    \* what each attempt does
  node,       \* per installation: the attempt it waits for and the certificate it has
  newest,     \* the latest time of an accepted redemption or rotation
  disorder    \* whether one was accepted with an earlier time than another before it

vars == <<clock, pairings, certs, revoked, attempt, node, newest, disorder>>

NoPairing == [inst |-> None, created |-> 0, expires |-> 0, state |-> "none"]
NoCert == [inst |-> None, before |-> 0, after |-> 0, state |-> "none", retire |-> 0, pairing |-> None]
Idle == [pc |-> "idle", pairing |-> None, current |-> None, inst |-> None, cert |-> NoCert, at |-> 0]

Init ==
  /\ clock = 1
  /\ pairings = [p \in Pairings |-> NoPairing]
  /\ certs = [a \in Attempts |-> NoCert]
  /\ revoked = {}
  /\ attempt = [a \in Attempts |-> Idle]
  /\ node = [i \in Installations |-> [waits |-> None, cert |-> None]]
  /\ newest = 0 /\ disorder = FALSE

\* The attempt is over, with or without a certificate.
Done(a) == attempt' = [attempt EXCEPT ![a] = [Idle EXCEPT !.pc = "over"]]

\* CertificateRecord.ActiveAt
ActiveAt(c, now) ==
  /\ c.before <= now /\ now < c.after
  /\ \/ c.state = "active"
     \/ c.state = "retiring" /\ now < c.retire

\* CertificateActive
CertificateActive(a, i, now) == i \notin revoked /\ certs[a].inst = i /\ ActiveAt(certs[a], now)

----------------------------------------------------------------------------
(* Pairings and certificates.                                               *)

\* PairingIssuer.Issue
NewPairing(i, life) ==
  [inst |-> i, created |-> clock, expires |-> clock + life, state |-> "pending"]

\* CreatePairing
CreatePairing(p, i, life) ==
  /\ \A o \in Pairings : (pairings[o] = NoPairing) = (p <= o)
  /\ i \notin revoked
  /\ pairings' = [pairings EXCEPT ![p] = NewPairing(i, life)]
  /\ UNCHANGED <<clock, certs, revoked, attempt, node, newest, disorder>>

\* A pairing that may still be used at the time.
Pending(p, at) ==
  /\ pairings[p].state = "pending"
  /\ pairings[p].created <= at /\ at < pairings[p].expires

\* NodeCertificateIssuer.Issue, the signer's certificate accepted: its identity is
\* the installation's, its validity starts now.
Issued(i, life, p) ==
  [inst |-> i, before |-> clock, after |-> clock + life, state |-> "active", retire |-> 0,
   pairing |-> p]

\* GenerateIdentity: the next attempt, with a key of its own.
GeneratesKey(a) == \A b \in Attempts : (attempt[b] = Idle) = (a <= b)

\* The node generates a fresh key and asks with its token: GenerateIdentity,
\* NewRedemptionRequest, VerifyToken and FindPairing; a certificate is signed.
FindPairing(a, p, life) ==
  LET i == pairings[p].inst IN
  /\ GeneratesKey(a)
  /\ Pending(p, clock)
  /\ attempt' = [attempt EXCEPT ![a] =
       [Idle EXCEPT !.pc = "signed", !.pairing = p, !.inst = i, !.cert = Issued(i, life, p)]]
  /\ node' = [node EXCEPT ![i].waits = a]
  /\ UNCHANGED <<clock, pairings, certs, revoked, newest, disorder>>

\* Rotation starts with the certificate the node has, over mutual TLS.
Present(a, i, life) ==
  /\ GeneratesKey(a)
  /\ node[i].cert # None
  /\ CertificateActive(node[i].cert, i, clock)
  /\ attempt' = [attempt EXCEPT ![a] =
       [Idle EXCEPT !.pc = "signed", !.current = node[i].cert, !.inst = i,
                    !.cert = Issued(i, life, None)]]
  /\ node' = [node EXCEPT ![i].waits = a]
  /\ UNCHANGED <<clock, pairings, certs, revoked, newest, disorder>>

----------------------------------------------------------------------------
(* The store.                                                               *)

\* The caller reads the time it will pass to the store.
Stamp(a) ==
  /\ attempt[a].pc = "signed"
  /\ attempt' = [attempt EXCEPT ![a].pc = "stamped", ![a].at = clock]
  /\ UNCHANGED <<clock, pairings, certs, revoked, node, newest, disorder>>

\* Faulty variant of HasActive: only a certificate that was just issued counts.
HasActiveFresh(i, now) == \E b \in Attempts : certs[b].inst = i /\ certs[b].before = now

\* hasActiveCertificateLocked
HasActive(i, now) == \E b \in Attempts : certs[b].inst = i /\ ActiveAt(certs[b], now)

\* Faulty variant of Redeemable: the installation's revocation is not looked up.
RedeemableRevoked(a) ==
  LET t == attempt[a] IN
    Pending(t.pairing, t.at) /\ ActiveAt(t.cert, t.at) /\ ~HasActive(t.inst, t.at)

\* Faulty variant of Redeemable: what FindPairing saw is not checked again.
RedeemableFound(a) ==
  LET t == attempt[a] IN
    ActiveAt(t.cert, t.at) /\ t.inst \notin revoked /\ ~HasActive(t.inst, t.at)

\* RedeemPairing, up to its assignments
Redeemable(a) ==
  LET t == attempt[a] IN
    /\ Pending(t.pairing, t.at)
    /\ pairings[t.pairing].inst = t.inst
    /\ ActiveAt(t.cert, t.at)
    /\ t.inst \notin revoked
    /\ ~HasActive(t.inst, t.at)
    /\ certs[a] = NoCert

Accepted(at) == newest' = (IF at > newest THEN at ELSE newest) /\ disorder' = (disorder \/ at < newest)

\* RedeemPairing: consumes the code and inserts the certificate, or refuses.
RedeemPairing(a) ==
  LET t == attempt[a] IN
  /\ t.pc = "stamped" /\ t.pairing # None
  /\ \/ /\ Redeemable(a)
        /\ pairings' = [pairings EXCEPT ![t.pairing].state = "consumed"]
        /\ certs' = [certs EXCEPT ![a] = t.cert]
        /\ attempt' = [attempt EXCEPT ![a].pc = "answered"]
        /\ Accepted(t.at)
     \/ /\ ~Redeemable(a)
        /\ Done(a)
        /\ UNCHANGED <<pairings, certs, newest, disorder>>
  /\ UNCHANGED <<clock, revoked, node>>

\* Faulty variant of Rotatable: a certificate revoked meanwhile may still be rotated.
RotatableRevoked(a, overlap) ==
  LET t == attempt[a]
      current == certs[t.current]
  IN /\ t.inst \notin revoked /\ current.state # "retiring"
     /\ t.at + Lead >= current.after
     /\ ActiveAt(t.cert, t.at) /\ t.at + overlap < current.after

\* Faulty variant of Rotatable: the overlap may outlast the certificate.
RotatablePast(a, overlap) ==
  LET t == attempt[a]
      current == certs[t.current]
  IN /\ t.inst \notin revoked
     /\ current.state = "active" /\ ActiveAt(current, t.at) /\ t.at + Lead >= current.after
     /\ ActiveAt(t.cert, t.at)

\* RotateCertificate, up to its assignments
Rotatable(a, overlap) ==
  LET t == attempt[a]
      current == certs[t.current]
  IN /\ t.inst \notin revoked
     /\ current.state = "active" /\ current.inst = t.inst
     /\ ActiveAt(current, t.at)
     /\ t.at + Lead >= current.after
     /\ ActiveAt(t.cert, t.at)
     /\ t.at + overlap < current.after
     /\ certs[a] = NoCert

\* RotateCertificate: retires the current one and activates the replacement, or refuses.
RotateCertificate(a, overlap) ==
  LET t == attempt[a] IN
  /\ t.pc = "stamped" /\ t.current # None
  /\ \/ /\ Rotatable(a, overlap)
        /\ certs' = [certs EXCEPT ![a] = t.cert, ![t.current].state = "retiring",
                                  ![t.current].retire = t.at + overlap]
        /\ attempt' = [attempt EXCEPT ![a].pc = "answered"]
        /\ Accepted(t.at)
     \/ /\ ~Rotatable(a, overlap)
        /\ Done(a)
        /\ UNCHANGED <<certs, newest, disorder>>
  /\ UNCHANGED <<clock, pairings, revoked, node>>

\* RevokeCertificate, with a time the operator read before; again changes nothing.
RevokeCertificate(a, at) ==
  /\ certs[a] # NoCert /\ certs[a].before <= at
  /\ certs' = [certs EXCEPT ![a].state = "revoked"]
  /\ UNCHANGED <<clock, pairings, revoked, attempt, node, newest, disorder>>

\* RevokeInstallation: for good, with all its certificates.
RevokeInstallation(i, at) ==
  /\ i \notin revoked
  /\ \A a \in Attempts : certs[a].inst = i => certs[a].before <= at
  /\ revoked' = revoked \cup {i}
  /\ certs' = [a \in Attempts |->
       IF certs[a].inst = i THEN [certs[a] EXCEPT !.state = "revoked"] ELSE certs[a]]
  /\ UNCHANGED <<clock, pairings, attempt, node, newest, disorder>>

----------------------------------------------------------------------------
(* The node.                                                                *)

\* VerifyProfile: the parts that time decides.
VerifyProfile(c, i) == c.inst = i /\ c.before <= clock /\ clock < c.after

\* Faulty variant of ValidateResponse: whose key the certificate is for is not checked.
ValidateAnyKey(a, i) == VerifyProfile(attempt[a].cert, i)

\* ValidateResponse: of this installation, for the key the node holds, currently valid.
ValidateResponse(a, i) == VerifyProfile(attempt[a].cert, i) /\ node[i].waits = a

\* An answer arrives, late or not: it is published or thrown away.
Answer(a) ==
  LET i == attempt[a].inst IN
  /\ attempt[a].pc = "answered"
  /\ node' = IF ValidateResponse(a, i) THEN [node EXCEPT ![i].cert = node[i].waits] ELSE node
  /\ Done(a)
  /\ UNCHANGED <<clock, pairings, certs, revoked, newest, disorder>>

\* The attempt dies, the signer fails, or the answer is lost.
Lose(a) ==
  /\ attempt[a].pc \in {"signed", "stamped", "answered"}
  /\ Done(a)
  /\ UNCHANGED <<clock, pairings, certs, revoked, node, newest, disorder>>

Tick ==
  /\ clock < MaxTime
  /\ clock' = clock + 1
  /\ UNCHANGED <<pairings, certs, revoked, attempt, node, newest, disorder>>

Next ==
  \/ \E p \in Pairings, i \in Installations, life \in PairingLives : CreatePairing(p, i, life)
  \/ \E a \in Attempts, p \in Pairings, life \in Lives : FindPairing(a, p, life)
  \/ \E a \in Attempts, i \in Installations, life \in Lives : Present(a, i, life)
  \/ \E a \in Attempts : Stamp(a) \/ RedeemPairing(a) \/ Answer(a) \/ Lose(a)
  \/ \E a \in Attempts, overlap \in Overlaps : RotateCertificate(a, overlap)
  \/ \E a \in Attempts, at \in (clock - 1)..clock : RevokeCertificate(a, at)
  \/ \E i \in Installations, at \in (clock - 1)..clock : RevokeInstallation(i, at)
  \/ Tick

Spec == Init /\ [][Next]_vars

----------------------------------------------------------------------------
\* The records have the states and the order of times that validPairingRecord and
\* validCertificateRecord ask for, and a retirement lies inside the validity.
TypeOK ==
  /\ \A p \in Pairings : pairings[p] = NoPairing \/
       /\ pairings[p].inst \in Installations /\ pairings[p].created < pairings[p].expires
       /\ pairings[p].state \in {"pending", "consumed"}
  /\ \A a \in Attempts : certs[a] = NoCert \/
       /\ certs[a].inst \in Installations /\ certs[a].before < certs[a].after
       /\ certs[a].state \in {"active", "retiring", "revoked"}
       /\ certs[a].state = "retiring" => certs[a].retire \in certs[a].before..(certs[a].after - 1)
  /\ \A a \in Attempts : attempt[a].pc \in
       {"idle", "signed", "stamped", "answered", "over"}

\* A pairing code gives exactly one certificate, for its own installation, however many
\* nodes found it while it was pending; a code that gave none is still pending, though
\* certificates may have been signed for it.
PairingRedeemedOnce ==
  \A p \in Pairings :
    LET given == {a \in Attempts : certs[a].pairing = p} IN
      /\ Cardinality(given) = (IF pairings[p].state = "consumed" THEN 1 ELSE 0)
      /\ \A a \in given : certs[a].inst = pairings[p].inst

\* RedeemPairing and RotateCertificate together keep one certificate per installation
\* that is active and not retiring, whatever was signed meanwhile - as long as they
\* reach the store in the order of the times they carry.  (A redemption that read its
\* clock before another one was accepted does not see that one's certificate.)
OnePreferred ==
  ~disorder => \A i \in Installations :
    Cardinality({a \in Attempts :
      certs[a].inst = i /\ certs[a].state = "active" /\ ActiveAt(certs[a], clock)}) <= 1

\* A revoked installation has no certificate that is not revoked: one that was signed
\* before the revocation, or whose pairing was found before it, does not get in after.
RevokedHasNone ==
  \A a \in Attempts : certs[a].inst \in revoked => certs[a].state = "revoked"

\* The node only ever publishes a certificate that the store committed, for its own
\* installation and for the key it generated last, also when answers come late, in
\* another order or not at all.
PublishedIsCommitted ==
  \A i \in Installations : node[i].cert # None =>
    /\ certs[node[i].cert] # NoCert /\ certs[node[i].cert].inst = i
    /\ attempt[node[i].cert].pc = "over"

\* No step brings back what was revoked or retired, and none takes an active
\* certificate out of service early except a revocation: a rotation leaves the old one
\* its overlap.
KeepsCertificates ==
  /\ \A a \in Attempts :
       /\ certs[a].state = "revoked" => certs'[a].state = "revoked"
       /\ certs[a].state = "retiring" => certs'[a].state \in {"retiring", "revoked"}
                                         /\ certs'[a].retire = certs[a].retire
       /\ certs[a].state = "active" => certs'[a] = certs[a] \/ certs'[a].state = "revoked"
            \/ \E b \in Attempts : certs[b] = NoCert /\ certs'[b].inst = certs[a].inst
                                   /\ certs'[b].state = "active"
  /\ revoked \subseteq revoked'
=============================================================================
