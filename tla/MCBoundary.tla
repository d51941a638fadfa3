----------------------------- MODULE MCBoundary -----------------------------
(***************************************************************************)
(* Where others reach the node: proposals through GitHub, credentials of   *)
(* callers, certificates of node agents, the probe of a relayed stream.    *)
(* Components that share no state stand side by side, and a behaviour runs *)
(* one of them, "which", while the others rest in an initial state.        *)
(***************************************************************************)
EXTENDS GithubIngress, TLC

CONSTANTS
  p1, p2, q1, q2,
  r1, host, tunnel, CredentialBudgets,
  i1, i2, NoOne,
  g1, g2, g3, Home, Exchanges

VARIABLES
  which,
  now, bindings, creds, files, drawn, admin, request, cbudget, commands, cfaults,
  clock, pairings, certs, revoked, attempt, node, newest, disorder,
  exchange, window, connected, handler, server, up, down, link, outcome, await

credentials ==
  <<now, bindings, creds, files, drawn, admin, request, cbudget, commands, cfaults>>
enrolment == <<clock, pairings, certs, revoked, attempt, node, newest, disorder>>
probe == <<exchange, window, connected, handler, server, up, down, link, outcome, await>>

C == INSTANCE Credentials WITH
       Admins <- {1, 2}, Requests <- {r1}, Ids <- 1..3, Paths <- {1, 2}, Hosts <- {host},
       Tunnels <- {tunnel}, MaxTries <- 2, Budgets <- CredentialBudgets,
       budget <- cbudget, faults <- cfaults
E == INSTANCE RelayInstallations WITH
       Attempts <- 1..3, Installations <- {i1}, Pairings <- {1, 2}, None <- NoOne,
       MaxTime <- 3, PairingLives <- {1}, Lives <- {2}, Overlaps <- {1}, Lead <- 2
P == INSTANCE RelayProbe WITH
       Agents <- {g1, g2, g3}, Target <- i1, Requests <- Exchanges, Windows <- {1, 2},
       request <- exchange, node <- server

----------------------------------------------------------------------------
(* Proposals: two of one memory, another one under the key of the first,   *)
(* bytes that are no proposal, and one outside the pinned trust profile.   *)

Proposal(key, fingerprint) == [kind |-> "proposal", key |-> key, fingerprint |-> fingerprint]
Other(kind, key) == [kind |-> kind, key |-> key, fingerprint |-> "f"]
Payloads ==
  "a" :> Proposal("k", "f") @@ "b" :> Proposal("l", "f") @@ "c" :> Proposal("k", "g")
    @@ "m" :> Other("malformed", "k") @@ "o" :> Other("out_of_profile", "k")

First == [path |-> q1, blob |-> "a"]
Second == [path |-> q2, blob |-> "b"]
Third == [path |-> q2, blob |-> "c"]
Unprofiled == [path |-> q1, blob |-> "o"]

\* Pollers that race over a growing repository, polls that outlive their
\* enrolment, and faults around one proposal.
Polling(new, size, enrolments, failing) ==
  [proposals |-> new, commits |-> size, epochs |-> enrolments, faults |-> failing]
Pollings ==
  {Polling({First, Second}, 2, 1, 0), Polling({First, Third}, 3, 1, 0),
   Polling({First}, 2, 2, 0), Polling({}, 2, 2, 1), Polling({Unprofiled}, 2, 2, 0),
   Polling({First}, 3, 1, 1)}

----------------------------------------------------------------------------
(* Two operators at a time, with two or three commands.                    *)

Administration(kinds, number, time, failing, lifetimes) ==
  [kinds |-> kinds, commands |-> number, time |-> time, faults |-> failing,
   lifetimes |-> lifetimes]
Bearer == {"create", "rotate", "revoke"}
SecureTunnel == {"create_tunnel", "rotate_tunnel", "reissue"}
Administrations ==
  {Administration(Bearer \cup SecureTunnel, 2, 1, 1, {0}),
   Administration(Bearer, 2, 2, 1, {0}),
   Administration({"create", "rotate"}, 2, 2, 0, {0, 1}),
   Administration({"create_tunnel", "rotate_tunnel"}, 3, 1, 0, {0}),
   Administration(SecureTunnel, 2, 1, 0, {0, 1}),
   Administration({"reissue", "revoke"}, 3, 2, 0, {0})}

----------------------------------------------------------------------------
(* Two agents of the installation that is probed and one of another; a     *)
(* stream, a short stream and a cancelled one.                             *)

Homes == g1 :> i1 @@ g2 :> i1 @@ g3 :> i2
Streams ==
  {[chunks |-> <<"x", "y", "x">>, code |-> "unspecified"],
   [chunks |-> <<"x">>, code |-> "unspecified"],
   [chunks |-> <<>>, code |-> "client_closed"]}

----------------------------------------------------------------------------
all == <<which, vars, credentials, enrolment, probe>>

Init4 ==
  /\ which \in {"ingress", "credentials", "enrolment", "probe"}
  /\ \/ which = "ingress"
     \/ which # "ingress" /\ budget = Polling({}, 2, 2, 1)
  /\ Init
  /\ \/ which = "credentials"
     \/ /\ which # "credentials"
        /\ cbudget = Administration({"reissue", "revoke"}, 3, 2, 0, {0})
        /\ bindings = [l \in {host, tunnel} |-> "absent"]
  /\ C!Init
  /\ E!Init
  /\ \/ which = "probe"
     \/ which # "probe" /\ exchange = [chunks |-> <<>>, code |-> "client_closed"] /\ window = 2
  /\ P!Init

Next4 ==
  \/ which = "ingress" /\ Next /\ UNCHANGED <<which, credentials, enrolment, probe>>
  \/ which = "credentials" /\ C!Next /\ UNCHANGED <<which, vars, enrolment, probe>>
  \/ which = "enrolment" /\ E!Next /\ UNCHANGED <<which, vars, credentials, probe>>
  \/ which = "probe" /\ P!Next /\ UNCHANGED <<which, vars, credentials, enrolment>>

Spec4 == Init4 /\ [][Next4]_all

----------------------------------------------------------------------------
(* What the components promise, each where it runs.                        *)

\* The rows, files, processes, certificates and streams of every component have the
\* shapes the code gives them.
AllTypeOK ==
  CASE which = "ingress" -> TypeOK
    [] which = "credentials" -> C!TypeOK
    [] which = "enrolment" -> E!TypeOK
    [] which = "probe" -> P!TypeOK

\* One line of succession per binding, whatever commands race, retry or die: every
\* credential but one was created by the transaction that revoked its predecessor, a
\* tunnel verifier that is committed has its secret in a protected file, and the audit
\* columns agree although each writer reads its own clock
\* (rotate_or_load_secure_tunnel_credential, load_or_create_authorization).
OneSuccession ==
  which = "credentials" => C!Succession /\ C!SecretKept /\ C!AuditInOrder

\* record_successful_use lets a request through only while its credential,
\* its identity rows and the listener allow it, although the lookup that
\* verified the secret may be older than a revocation, an expiry or a
\* withdrawal; a tunnel's credential never carries command authority,
\* whichever listener it is shown to.
ServedOnlyIfActive == [][C!ServesOnlyActive]_all

\* A pairing code gives one certificate, for its own installation, however many nodes
\* found it while it was pending; an installation prefers one certificate as long as
\* times reach the store in order, and has none once it is revoked; and the node only
\* publishes one that the store committed for its latest key, whatever answers come late
\* or never (RedeemPairing, RotateCertificate, ValidateResponse).
EnrolledOnce ==
  which = "enrolment" =>
    E!PairingRedeemedOnce /\ E!OnePreferred /\ E!RevokedHasNone /\ E!PublishedIsCommitted

\* Relay and agent agree on a probe: one that succeeds saw exactly its own chunks or the
\* acknowledgement of its own cancellation, and was served to the end by one agent of its
\* installation; and neither waits for ever in Send as long as the frames fit into both
\* windows and the agent's hand (ProbeServer.Connect, ServeProbe).
ProbeAgrees == which = "probe" => P!EchoIsExact /\ P!Agreement /\ P!NoStandoff

\* Nothing goes back: the tree below the provider head is only extended and a terminal
\* item stays (advance, terminalize); a credential row is never removed, its revocation
\* never changed and a published secret never replaced; what was revoked or retired of a
\* certificate stays so, and only a revocation ends one before its overlap.
NothingGoesBack ==
  [][GrowsCheckpoint /\ KeepsTerminal /\ C!KeepsRowsAndSecrets /\ E!KeepsCertificates]_all
=============================================================================
