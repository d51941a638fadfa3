---------------------------- MODULE Credentials ----------------------------
(***************************************************************************)
(* The bearer credentials of the memory node: the operator's commands      *)
(* (admin/credentials_main.py, admin/credentials.py), the protected        *)
(* artifact a tunnel secret is published to before its verifier is         *)
(* committed (admin/credential_io.py), the tables (storage/credentials.py, *)
(* migration 0008) and the two-phase authentication of a request           *)
(* (application/authentication.py, runtime/chatgpt.py).                    *)
(*                                                                         *)
(* A credential id stands for the id, the secret drawn with it and the     *)
(* verifier: a token is authentic, and a wrong secret is refused before    *)
(* any state changes.  A binding stands for the actor, the client, the     *)
(* transport binding and, for a tunnel, the installation a create command  *)
(* makes together; they never change afterwards, except that they may be   *)
(* withdrawn (revoked, or their tenant suspended).  There is one pepper.   *)
(***************************************************************************)
EXTENDS Integers, FiniteSets

CONSTANTS Admins,       \* runs of kivra-memory-credential-admin at a time, numbered
          Requests,     \* requests in flight at a time
          Ids,          \* the credential ids new_uuid7 may draw, numbered from 1
          Paths,        \* --secret-output paths, numbered
          Hosts,        \* labels of direct-private installations
          Tunnels,      \* labels of ChatGPT secure tunnels
          MaxTries,     \* run_serializable_transaction: max_attempts
          Budgets       \* bounds, one chosen per behaviour: which commands may be
                        \* started (kinds), how many (commands), for how long
                        \* a credential may be asked (lifetimes; None is for
                        \* good), the highest clock reading (time), and how
                        \* many deaths, lost answers, I/O errors, clock steps
                        \* back and withdrawals may happen (faults)

None == 0
NoId == 0
NoTunnel == "none"

Bindings == Hosts \cup Tunnels
ArtifactCommands == {"create_tunnel", "rotate_tunnel", "reissue"}
Commands == ArtifactCommands \cup {"create", "rotate", "revoke"}

\* What may be at a path: nothing, an empty mode-000 reservation, an
\* "Authorization" artifact of a tunnel command, or a bare token.
Absent == [kind |-> "absent", id |-> NoId]
Reserved == [kind |-> "reserved", id |-> NoId]
Content(command, c) ==
  [kind |-> IF command \in ArtifactCommands THEN "authorization" ELSE "token", id |-> c]

VARIABLES
  now,       \* the database clock, also the local operator's
  bindings,  \* identity rows: "absent", "live" or "withdrawn"
  creds,     \* client_credentials, by id
  files,     \* what is at a path
  drawn,     \* ids given out by new_uuid7
  admin,     \* the operator's processes
  request,   \* the requests being authenticated or served
  budget, commands, faults

tables == <<bindings, creds>>
bounds == <<budget, commands, faults>>
vars == <<now, tables, files, drawn, admin, request, bounds>>

Idle == [pc |-> "idle"]

Init ==
  /\ now = 1
  /\ bindings \in {f \in [Bindings -> {"absent", "live"}] :
                     \A b \in Hosts : f[b] = "absent"}
  /\ creds = <<>>
  /\ files = [p \in Paths |-> Absent]
  /\ drawn = {}
  /\ admin = [a \in Admins |-> Idle]
  /\ request = [q \in Requests |-> Idle]
  /\ budget \in Budgets
  /\ commands = 0
  /\ faults = 0

----------------------------------------------------------------------------
(* The rows.                                                               *)

Rows == DOMAIN creds
ActiveOn(table, b) ==
  {c \in DOMAIN table : table[c].binding = b /\ table[c].revoked = None}
Occupancy(b) == {c \in Rows : creds[c].binding = b}
Identity(c) == bindings[creds[c].binding]

\* uq_client_credentials_active_binding
ActiveBindingUnique(table) ==
  \A b \in Bindings : Cardinality(ActiveOn(table, b)) <= 1

\* scalevault_enforce_client_credential_lifecycle, on an update
LifecycleUnchecked(old, new) == TRUE
Lifecycle(old, new) ==
  \/ new.used = old.used /\ new.revoked = old.revoked
  \/ /\ old.revoked = None
     /\ old.used # None => new.used # None /\ new.used >= old.used
     /\ new.used # None => new.used >= new.created
     /\ new.revoked # None =>
          new.revoked >= new.created /\ (new.used # None => new.revoked >= new.used)

RevokedAt(c, stamp) == [creds[c] EXCEPT !.revoked = stamp]
MayRevoke(c, stamp) == Lifecycle(creds[c], RevokedAt(c, stamp))

NewRow(a, b) ==
  [binding |-> b, created |-> admin[a].stamp, expires |-> admin[a].expiry,
   used |-> None, revoked |-> None,
   staged |-> admin[a].command \in ArtifactCommands]

Inserted(table, id, row) ==
  [c \in DOMAIN table \cup {id} |-> IF c \in DOMAIN table THEN table[c] ELSE row]

WithRow(a, b) == Inserted(creds, admin[a].id, NewRow(a, b))

\* the old row revoked and the replacement inserted, in one transaction
Replaced(a, c) ==
  Inserted([creds EXCEPT ![c] = RevokedAt(c, admin[a].stamp)],
           admin[a].id, NewRow(a, creds[c].binding))

----------------------------------------------------------------------------
(* A command: its arguments, its stamp and the id it proposes.             *)

Expiries == {IF l = None THEN None ELSE now + l : l \in budget.lifetimes}

Proposal(command, target, path, id, expiry) ==
  [pc |-> IF command \in ArtifactCommands THEN "read" ELSE "begin",
   command |-> command, target |-> target, path |-> path, id |-> id,
   stamp |-> now, expiry |-> expiry, tries |-> 0, collided |-> FALSE, stale |-> FALSE]

\* new_uuid7: an id nobody has drawn; no check orders ids, so it is the next one
NewUuid7 == {c \in Ids \ drawn : \A d \in Ids \ drawn : c <= d}

\* Paths that nobody uses are interchangeable, and so are idle processes: the first is
\* taken.
InUse(p) == files[p] # Absent \/ \E a \in Admins : admin[a].pc # "idle" /\ admin[a].path = p
Offered == {p \in Paths : \A o \in Paths : o < p => InUse(o)}

Proposals(command, targets) ==
  {Proposal(command, target, p, c, expiry) :
     target \in targets, p \in Offered, c \in NewUuid7, expiry \in Expiries}

\* what list-metadata shows the operator, and an id it does not
ListMetadata == Rows \cup {NoId}

\* CredentialAdminService: what each method asks of the repository
Create == Proposals("create", Hosts)
CreateSecureTunnel == Proposals("create_tunnel", Tunnels)
RotateSecureTunnel == Proposals("rotate_tunnel", ListMetadata)
ReissueSecureTunnel == Proposals("reissue", Tunnels)
Rotate == Proposals("rotate", ListMetadata)
Revoke == {Proposal("revoke", c, NoId, NoId, None) : c \in ListMetadata}

Asked(command) ==
  CASE command = "create" -> Create
    [] command = "create_tunnel" -> CreateSecureTunnel
    [] command = "rotate_tunnel" -> RotateSecureTunnel
    [] command = "reissue" -> ReissueSecureTunnel
    [] command = "rotate" -> Rotate
    [] command = "revoke" -> Revoke

Start(a) ==
  /\ admin[a].pc = "idle" /\ \A o \in Admins : o < a => admin[o].pc # "idle"
  /\ commands < budget.commands
  /\ \E command \in budget.kinds : \E r \in Asked(command) :
       /\ admin' = [admin EXCEPT ![a] = r]
       /\ drawn' = drawn \cup ({r.id} \ {NoId})
  /\ commands' = commands + 1
  /\ UNCHANGED <<now, tables, files, request, budget, faults>>

Goto(a, pc) == admin' = [admin EXCEPT ![a].pc = pc]
Ends(a) == admin' = [admin EXCEPT ![a] = Idle]

----------------------------------------------------------------------------
(* The protected artifact.                                                 *)

AdoptNothing(a) == [admin EXCEPT ![a].pc = "begin"]
Adopt(a) == [admin EXCEPT ![a].id = files[admin[a].path].id, ![a].pc = "begin"]

\* load_or_create_authorization: an artifact that is there decides the id;
\* anything else at the path ends the command
ReadUnchecked(a) ==
  /\ admin[a].pc = "read"
  /\ IF files[admin[a].path] = Absent THEN Goto(a, "reserve") ELSE admin' = Adopt(a)
  /\ UNCHANGED <<now, tables, files, drawn, request, bounds>>
ReadArtifact(a) ==
  LET kind == files[admin[a].path].kind IN
  /\ admin[a].pc = "read"
  /\ \/ kind = "absent" /\ Goto(a, "reserve")
     \/ kind \in {"reserved", "token"} /\ Ends(a)
     \/ kind = "authorization" /\ admin' = Adopt(a)
  /\ UNCHANGED <<now, tables, files, drawn, request, bounds>>

\* O_CREAT | O_EXCL: whoever comes second reads what the first one wrote,
\* or, when it is about to print its own secret, fails
ReserveOver(a) ==
  /\ admin[a].pc = "reserve"
  /\ files' = [files EXCEPT ![admin[a].path] = Reserved]
  /\ Goto(a, "publish")
  /\ UNCHANGED <<now, tables, drawn, request, bounds>>
Reserve(a) ==
  LET p == admin[a].path IN
  /\ admin[a].pc = "reserve"
  /\ \/ /\ files[p] = Absent
        /\ files' = [files EXCEPT ![p] = Reserved]
        /\ Goto(a, "publish")
     \/ /\ files[p] # Absent
        /\ IF admin[a].command \in ArtifactCommands THEN Goto(a, "reread") ELSE Ends(a)
        /\ UNCHANGED files
  /\ UNCHANGED <<now, tables, drawn, request, bounds>>

\* the temporary file renamed over the reservation
Publish(a) ==
  /\ admin[a].pc = "publish"
  /\ files' = [files EXCEPT ![admin[a].path] = Content(admin[a].command, admin[a].id)]
  /\ IF admin[a].command \in ArtifactCommands THEN Goto(a, "reread") ELSE Ends(a)
  /\ UNCHANGED <<now, tables, drawn, request, bounds>>

\* an I/O error before the rename: the reservation is unlinked
PublishFails(a) ==
  /\ admin[a].pc = "publish"
  /\ faults < budget.faults
  /\ files' = [files EXCEPT ![admin[a].path] = Absent]
  /\ IF admin[a].command \in ArtifactCommands THEN Goto(a, "reread") ELSE Ends(a)
  /\ faults' = faults + 1
  /\ UNCHANGED <<now, tables, drawn, request, budget, commands>>

RereadArtifact(a) ==
  /\ admin[a].pc = "reread"
  /\ IF files[admin[a].path].kind = "authorization" THEN admin' = Adopt(a) ELSE Ends(a)
  /\ UNCHANGED <<now, tables, files, drawn, request, bounds>>

----------------------------------------------------------------------------
(* The transaction of a command.                                           *)

\* BEGIN and set_config fix the snapshot, before any advisory lock is held
Begin(a) ==
  /\ admin[a].pc = "begin"
  /\ admin' = [admin EXCEPT ![a].pc = "txn", ![a].stale = FALSE]
  /\ UNCHANGED <<now, tables, files, drawn, request, bounds>>

\* a commit on binding b makes older snapshots of b stale
Outdates(procs, b) ==
  [x \in Admins |->
     IF /\ procs[x].pc = "txn"
        /\ \/ procs[x].target = b
           \/ procs[x].target \in Rows /\ creds[procs[x].target].binding = b
           \/ procs[x].id \in Rows /\ creds[procs[x].id].binding = b
     THEN [procs[x] EXCEPT !.stale = TRUE] ELSE procs[x]]

\* the answer arrives, or is lost with the transaction committed
After(a) == IF admin[a].command \in {"create", "rotate"}
            THEN [admin[a] EXCEPT !.pc = "reserve"] ELSE Idle
Commits(a, b, table) ==
  /\ creds' = table
  /\ \/ admin' = Outdates([admin EXCEPT ![a] = After(a)], b) /\ UNCHANGED faults
     \/ /\ faults < budget.faults
        /\ admin' = Outdates([admin EXCEPT ![a] = Idle], b)
        /\ faults' = faults + 1

Loads(a) == Ends(a) /\ UNCHANGED <<creds, faults>>
Refuses(a) == Ends(a) /\ UNCHANGED <<creds, faults>>

InTransaction(a, command) ==
  admin[a].pc = "txn" /\ ~admin[a].stale /\ admin[a].command = command

\* create_codex_installation; a label in use violates a unique constraint
CreateCodex(a) ==
  LET b == admin[a].target IN
  /\ InTransaction(a, "create")
  /\ \/ /\ bindings[b] = "absent"
        /\ bindings' = [bindings EXCEPT ![b] = "live"]
        /\ Commits(a, b, WithRow(a, b))
     \/ bindings[b] # "absent" /\ Refuses(a) /\ UNCHANGED bindings
  /\ UNCHANGED <<now, files, drawn, request, budget, commands>>

\* _load_secure_tunnel_admin_state joins the installation: tunnels only
TunnelRow(c) == c \in Rows /\ creds[c].binding \in Tunnels

\* _require_matching_secure_tunnel_state
MatchesIssuance(a, b) ==
  LET row == creds[admin[a].id] IN
  /\ row.binding = b
  /\ Identity(admin[a].id) = "live"
  /\ row.expires = admin[a].expiry
  /\ row.revoked = None

CreateOrLoadTunnel(a) ==
  LET b == admin[a].target IN
  /\ InTransaction(a, "create_tunnel")
  /\ \/ /\ admin[a].id \in Rows
        /\ IF MatchesIssuance(a, b) THEN Loads(a) ELSE Refuses(a)
        /\ UNCHANGED bindings
     \/ /\ admin[a].id \notin Rows
        /\ bindings[b] = "absent"
        /\ bindings' = [bindings EXCEPT ![b] = "live"]
        /\ Commits(a, b, WithRow(a, b))
     \/ /\ admin[a].id \notin Rows
        /\ bindings[b] # "absent"
        /\ Refuses(a)
        /\ UNCHANGED bindings
  /\ UNCHANGED <<now, files, drawn, request, budget, commands>>

\* revoke_bearer_credential: the first revocation stays
RevokeBearer(a) ==
  LET c == admin[a].target IN
  /\ InTransaction(a, "revoke")
  /\ \/ c \notin Rows /\ Refuses(a)
     \/ c \in Rows /\ creds[c].revoked # None /\ Loads(a)
     \/ /\ c \in Rows
        /\ creds[c].revoked = None
        /\ IF MayRevoke(c, admin[a].stamp)
           THEN Commits(a, creds[c].binding,
                        [creds EXCEPT ![c] = RevokedAt(c, admin[a].stamp)])
           ELSE Refuses(a)
  /\ UNCHANGED <<now, bindings, files, drawn, request, budget, commands>>

\* rotate_bearer_credential: the secret leaves the process after the commit
RotateBearer(a) ==
  LET c == admin[a].target IN
  /\ InTransaction(a, "rotate")
  /\ \/ /\ c \in Rows
        /\ creds[c].revoked = None
        /\ MayRevoke(c, admin[a].stamp)
        /\ ActiveBindingUnique(Replaced(a, c))
        /\ Commits(a, creds[c].binding, Replaced(a, c))
     \/ /\ c \in Rows => creds[c].revoked # None \/ ~MayRevoke(c, admin[a].stamp)
        /\ Refuses(a)
  /\ UNCHANGED <<now, bindings, files, drawn, request, budget, commands>>

\* _require_secure_tunnel_rotation_state, of a row that must be active
RotationState(c) == TunnelRow(c) /\ Identity(c) = "live" /\ creds[c].revoked = None
MatchesReplacement(a) == creds[admin[a].id].expires = admin[a].expiry

RotateOrLoadTunnel(a) ==
  LET c == admin[a].target
      new == admin[a].id
      loads == /\ RotationState(new)
               /\ MatchesReplacement(a)
               /\ c \in Rows
               /\ creds[c].revoked # None
               /\ creds[c].binding = creds[new].binding
      rotates == /\ c \in Rows
                 /\ RotationState(c)
                 /\ MayRevoke(c, admin[a].stamp)
                 /\ ActiveBindingUnique(Replaced(a, c))
  IN
  /\ InTransaction(a, "rotate_tunnel")
  /\ \/ new \in Rows /\ new # c /\ IF loads THEN Loads(a) ELSE Refuses(a)
     \/ new = c /\ Refuses(a)
     \/ /\ new \notin Rows
        /\ IF rotates THEN Commits(a, creds[c].binding, Replaced(a, c)) ELSE Refuses(a)
  /\ UNCHANGED <<now, bindings, files, drawn, request, budget, commands>>

\* _credential_reissue_occupancy_statement: revoked rows occupy too
HoleOfActive(b) == ActiveOn(creds, b) = {}
Hole(b) == Occupancy(b) = {}

\* reissue_secure_tunnel_credential: fills an identity restored without one
ReissueTunnel(a) ==
  LET b == admin[a].target
      new == admin[a].id
      loads == /\ RotationState(new)
               /\ MatchesReplacement(a)
               /\ Occupancy(b) = {new}
  IN
  /\ InTransaction(a, "reissue")
  /\ \/ new \in Rows /\ IF loads THEN Loads(a) ELSE Refuses(a)
     \/ /\ new \notin Rows
        /\ IF Hole(b) /\ bindings[b] = "live"
           THEN Commits(a, b, WithRow(a, b)) ELSE Refuses(a)
  /\ UNCHANGED <<now, bindings, files, drawn, request, budget, commands>>

\* run_serializable_transaction: 40001 is retried, boundedly
SerializationFailure(a) ==
  /\ admin[a].pc = "txn"
  /\ admin[a].stale
  /\ IF admin[a].tries + 1 < MaxTries
     THEN admin' = [admin EXCEPT ![a].pc = "begin", ![a].tries = @ + 1]
     ELSE Ends(a)
  /\ UNCHANGED <<now, tables, files, drawn, request, bounds>>

\* a stale snapshot may meet 23505 instead; _admin_reissue_transaction reads
\* again once, the other commands give up
UniqueViolation(a) ==
  /\ admin[a].pc = "txn"
  /\ admin[a].stale
  /\ IF admin[a].command = "reissue" /\ ~admin[a].collided
     THEN admin' = [admin EXCEPT ![a].pc = "begin", ![a].tries = 0, ![a].collided = TRUE]
     ELSE Ends(a)
  /\ UNCHANGED <<now, tables, files, drawn, request, bounds>>

\* the process dies: a reservation stays, an unprinted secret is lost
Dies(a) ==
  /\ admin[a].pc # "idle"
  /\ faults < budget.faults
  /\ Ends(a)
  /\ faults' = faults + 1
  /\ UNCHANGED <<now, tables, files, drawn, request, budget, commands>>

----------------------------------------------------------------------------
(* Requests.                                                               *)

\* _credential_lookup_statement
Usable(c) ==
  /\ c \in Rows
  /\ creds[c].revoked = None
  /\ creds[c].created <= now
  /\ creds[c].expires = None \/ creds[c].expires > now

\* _state_is_active; the tunnel listener is pinned to one installation
DirectActive(c) ==
  Usable(c) /\ Identity(c) = "live" /\ creds[c].binding \in Hosts
TunnelActive(c, pinned) ==
  Usable(c) /\ Identity(c) = "live" /\ creds[c].binding = pinned

\* _principals and _query_principal: what a listener lets a request do
DirectPrincipals == {"command", "query"}
TunnelPrincipals == {"query"}

\* authenticate: lookup in one transaction, then the HMAC
Verified(id, pinned) == [pc |-> "verified", id |-> id, pinned |-> pinned]

PresentDirect(q) ==
  /\ request[q].pc = "idle"
  /\ \E p \in Paths :
       /\ Usable(files[p].id)
       /\ request' = [request EXCEPT ![q] = Verified(files[p].id, NoTunnel)]
  /\ UNCHANGED <<now, tables, files, drawn, admin, bounds>>

PresentTunnel(q) ==
  /\ request[q].pc = "idle"
  /\ \E p \in Paths, b \in Tunnels :
       /\ Usable(files[p].id)
       /\ request' = [request EXCEPT ![q] = Verified(files[p].id, b)]
  /\ UNCHANGED <<now, tables, files, drawn, admin, bounds>>

\* _monotonic_audit_timestamp
AuditAt(c) == IF creds[c].used = None \/ creds[c].used < now THEN now ELSE creds[c].used

\* record_successful_use: the row locked and everything checked again
StaleUse(q) == TRUE
StillActive(q) ==
  IF request[q].pinned = NoTunnel THEN DirectActive(request[q].id)
                                ELSE TunnelActive(request[q].id, request[q].pinned)
Principals(q) ==
  IF request[q].pinned = NoTunnel THEN DirectPrincipals ELSE TunnelPrincipals
RecordUse(q) ==
  LET c == request[q].id
      used == [creds EXCEPT ![c].used = AuditAt(c)] IN
  /\ request[q].pc = "verified"
  /\ \/ /\ StillActive(q)
        /\ Lifecycle(creds[c], used[c])
        /\ creds' = used
        /\ admin' = IF used = creds THEN admin ELSE Outdates(admin, creds[c].binding)
        /\ request' = [request EXCEPT ![q] =
             [pc |-> "served", id |-> c, authority |-> Principals(q)]]
     \/ /\ StillActive(q) => ~Lifecycle(creds[c], used[c])
        /\ request' = [request EXCEPT ![q] = Idle]
        /\ UNCHANGED <<creds, admin>>
  /\ UNCHANGED <<now, bindings, files, drawn, bounds>>

\* authenticated_request_context ends with the response
Respond(q) ==
  /\ request[q].pc = "served"
  /\ request' = [request EXCEPT ![q] = Idle]
  /\ UNCHANGED <<now, tables, files, drawn, admin, bounds>>

----------------------------------------------------------------------------
(* The surroundings.                                                       *)

\* an actor, client or installation revoked, or the tenant suspended
Withdraw(b) ==
  /\ bindings[b] = "live"
  /\ faults < budget.faults
  /\ bindings' = [bindings EXCEPT ![b] = "withdrawn"]
  /\ admin' = Outdates(admin, b)
  /\ faults' = faults + 1
  /\ UNCHANGED <<now, creds, files, drawn, request, budget, commands>>

Tick ==
  /\ now < budget.time
  /\ now' = now + 1
  /\ UNCHANGED <<tables, files, drawn, admin, request, bounds>>

ClockStepsBack ==
  /\ now > 1
  /\ faults < budget.faults
  /\ now' = now - 1
  /\ faults' = faults + 1
  /\ UNCHANGED <<tables, files, drawn, admin, request, budget, commands>>

Next ==
  \/ \E a \in Admins :
       \/ Start(a) \/ ReadArtifact(a) \/ Reserve(a) \/ Publish(a) \/ PublishFails(a)
       \/ RereadArtifact(a) \/ Begin(a) \/ CreateCodex(a) \/ CreateOrLoadTunnel(a)
       \/ RevokeBearer(a) \/ RotateBearer(a) \/ RotateOrLoadTunnel(a) \/ ReissueTunnel(a)
       \/ SerializationFailure(a) \/ UniqueViolation(a) \/ Dies(a)
  \/ \E q \in Requests : PresentDirect(q) \/ PresentTunnel(q) \/ RecordUse(q) \/ Respond(q)
  \/ \E b \in Bindings : Withdraw(b)
  \/ Tick \/ ClockStepsBack

Spec == Init /\ [][Next]_vars

----------------------------------------------------------------------------
(* Properties.                                                             *)

Time == 0 .. budget.time
Row == [binding : Bindings, created : Time \ {None}, expires : Nat,
        used : Time, revoked : Time, staged : BOOLEAN]

\* The tables, the files and the processes have their types, and only ids
\* that were drawn are stored or published.
TypeOK ==
  /\ now \in Time \ {None}
  /\ bindings \in [Bindings -> {"absent", "live", "withdrawn"}]
  /\ Rows \subseteq drawn /\ drawn \subseteq Ids
  /\ \A c \in Rows : creds[c] \in Row
  /\ files \in [Paths -> {Absent, Reserved}
                          \cup [kind : {"authorization", "token"}, id : drawn]]
  /\ \A a \in Admins : admin[a].pc \in
       {"idle", "read", "reserve", "publish", "reread", "begin", "txn"}
  /\ \A q \in Requests : request[q].pc \in {"idle", "verified", "served"}

\* One line of succession per binding: whatever commands race, retry or die,
\* every credential but one was created at the instant, and by the
\* transaction, that revoked its predecessor; so lifetimes never overlap, a
\* binding never has two active credentials, and one whose last credential
\* was revoked stays closed (rotate_bearer_credential,
\* rotate_or_load_secure_tunnel_credential, reissue_secure_tunnel_credential).
Succession ==
  \A b \in Bindings :
    /\ \A c, d \in Occupancy(b) : c # d =>
         \/ creds[c].revoked # None /\ creds[c].revoked <= creds[d].created
         \/ creds[d].revoked # None /\ creds[d].revoked <= creds[c].created
    /\ Cardinality({c \in Occupancy(b) :
         ~\E d \in Occupancy(b) : d # c /\ creds[d].revoked = creds[c].created}) <= 1

\* A verifier committed by a tunnel command always has its secret in a
\* protected file: load_or_create_authorization publishes before the
\* transaction, so no death, lost answer or race of two runs on one path
\* leaves a tunnel whose only live secret is lost.
SecretKept ==
  \A c \in Rows : creds[c].staged => \E p \in Paths : files[p] = Content("reissue", c)

\* The audit columns agree with each other whatever clock each writer read:
\* a use lies between creation and revocation, although the operator's stamp
\* is taken before its transaction and the database clock may step back.
AuditInOrder ==
  \A c \in Rows :
    /\ creds[c].used # None => creds[c].created <= creds[c].used
    /\ creds[c].revoked # None =>
         creds[c].created <= creds[c].revoked /\ creds[c].used <= creds[c].revoked

\* record_successful_use lets a request through only while its credential,
\* its identity rows and the listener allow it, although the lookup that
\* verified the secret may be older than a revocation, an expiry or a
\* withdrawal; a tunnel's credential never carries command authority,
\* whichever listener it is shown to.
ServesOnlyActive ==
  \A q \in Requests :
    request'[q].pc = "served" /\ request[q].pc # "served" =>
      LET c == request[q].id IN
      /\ c \in Rows /\ creds[c].revoked = None /\ bindings[creds[c].binding] = "live"
      /\ creds[c].expires # None => now < creds[c].expires
      /\ creds[c].binding \in Tunnels => "command" \notin request'[q].authority

\* Nothing goes back: a row is never removed or its revocation changed, its
\* last use never moves backwards, and a published secret is never replaced.
KeepsRowsAndSecrets ==
  /\ \A c \in Rows :
       /\ c \in DOMAIN creds'
       /\ creds[c].revoked # None => creds'[c] = creds[c]
       /\ creds'[c].used >= creds[c].used
  /\ \A p \in Paths : files[p].id # NoId => files'[p] = files[p]
============================================================================
