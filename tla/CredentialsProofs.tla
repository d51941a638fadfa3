------------------------- MODULE CredentialsProofs -------------------------
(***************************************************************************)
(* What the credential commands and the authentication of requests         *)
(* guarantee, for any number of processes, requests, paths, labels and     *)
(* ids and any clock.                                                      *)
(*                                                                         *)
(* The rows of a binding form one line (Lines), which only the transaction *)
(* that closes its last row extends; a binding without identity rows has   *)
(* no line yet (Closed).  A tunnel command enters its transaction with an  *)
(* id that a protected file carries (Fit), and a published file stays,     *)
(* because a path is only written by the one process that reserved it      *)
(* (Reservations).                                                         *)
(***************************************************************************)
EXTENDS Credentials, FiniteSetTheorems, TLAPS

\* What the theorems ask of the constants: ids are positive numbers, a label is a host's
\* or a tunnel's, and the bounds are bounds.
Sensible ==
  /\ Ids \subseteq Nat \ {NoId}
  /\ Hosts \cap Tunnels = {}
  /\ \A bound \in Budgets :
       bound.time \in Nat \ {0} /\ bound.lifetimes \subseteq Nat /\ bound.kinds \subseteq Commands

Stages == {"read", "reserve", "publish", "reread", "begin", "txn"}
Process(ids, times) ==
  [pc : Stages, command : Commands, target : Bindings \cup Ids \cup {NoId},
   path : Paths \cup {NoId}, id : ids \cup {NoId}, stamp : times, expiry : Nat,
   tries : Nat, collided : BOOLEAN, stale : BOOLEAN]
Processes == {Idle} \cup Process(drawn, Time \ {None})

Authentications ==
  {Idle} \cup [pc : {"verified"}, id : Ids, pinned : Tunnels \cup {NoTunnel}]
         \cup [pc : {"served"}, id : Ids, authority : SUBSET {"command", "query"}]

\* The types, with those of the processes and the requests.
Shapes ==
  /\ TypeOK
  /\ budget \in Budgets
  /\ admin \in [Admins -> Processes]
  /\ request \in [Requests -> Authentications]

\* What process a relies on: only a revocation has no path and no id, a command that
\* names a label names one, and a tunnel command that is past its artifact has the id
\* of one.
Labelled == {"create", "create_tunnel", "reissue"}
Published(c) == \E p \in Paths : files[p] = Content("reissue", c)
Fit(a) ==
  admin[a] # Idle =>
    /\ admin[a].command # "revoke" => admin[a].path \in Paths /\ admin[a].id \in drawn
    /\ admin[a].command \in Labelled => admin[a].target \in Bindings
    /\ admin[a].pc \in {"read", "reserve", "publish", "reread"} => admin[a].command # "revoke"
    /\ admin[a].command \in ArtifactCommands /\ admin[a].pc \in {"begin", "txn"} =>
         Published(admin[a].id)

\* A path that is about to be written is reserved, for one process.
Reservations ==
  \A a \in Admins : admin[a].pc = "publish" =>
    /\ files[admin[a].path] = Reserved
    /\ \A o \in Admins \ {a} : admin[o].pc = "publish" => admin[o].path # admin[a].path

\* A binding without identity rows has no credential.
Closed == \A b \in Bindings : bindings[b] = "absent" => Occupancy(b) = {}

\* Of two credentials of a binding one was revoked when the other was created, and only
\* one of them has no predecessor.
Follows(c, d) == creds[c].revoked # None /\ creds[c].revoked <= creds[d].created
Succeeds(c) ==
  \E d \in Rows : /\ creds[d].binding = creds[c].binding /\ d # c
                  /\ creds[d].revoked = creds[c].created
Lines ==
  \A c, d \in Rows : creds[c].binding = creds[d].binding /\ c # d =>
    /\ Follows(c, d) \/ Follows(d, c)
    /\ Succeeds(c) \/ Succeeds(d)

IInv ==
  /\ Shapes
  /\ \A a \in Admins : Fit(a)
  /\ Reservations
  /\ Closed /\ Lines /\ AuditInOrder /\ SecretKept
-----------------------------------------------------------------------------
\* The rows.

\* One line per binding is what Succession says.
LEMMA LinesSucceed ==
  ASSUME Lines
  PROVE  Succession
<1> SUFFICES ASSUME NEW b \in Bindings
             PROVE  /\ \A c, d \in Occupancy(b) : c # d => Follows(c, d) \/ Follows(d, c)
                    /\ Cardinality({c \in Occupancy(b) :
                         ~\E d \in Occupancy(b) : d # c /\ creds[d].revoked = creds[c].created}) <= 1
  BY Zenon DEF Succession, Follows
<1> DEFINE roots == {c \in Occupancy(b) :
                      ~\E d \in Occupancy(b) : d # c /\ creds[d].revoked = creds[c].created}
<1>1. \A c, d \in Occupancy(b) : c # d => Follows(c, d) \/ Follows(d, c)
  BY Zenon DEF Lines, Occupancy
<1>2. \A c, d \in roots : c = d
  BY DEF Lines, Succeeds, Occupancy
<1>3. Cardinality(roots) <= 1
  <2>1. CASE roots = {}
    <3>1. Cardinality(roots) = 0
      BY Zenon, <2>1, FS_EmptySet
    <3> QED
      BY <3>1
  <2>2. CASE roots # {}
    <3>1. PICK c : c \in roots
      BY Zenon, <2>2
    <3>2. roots = {c}
      BY Zenon, <1>2, <3>1
    <3>3. Cardinality(roots) = 1
      BY Zenon, <3>2, FS_Singleton
    <3> QED
      BY <3>3
  <2> QED
    BY Zenon, <2>1, <2>2
<1> QED
  BY Zenon, <1>1, <1>3

\* A step of the table: no row goes, none changes its binding, its creation or its
\* revocation, and one may come.
Extends(id) ==
  /\ \A c \in Rows :
       /\ c \in Rows' /\ creds'[c].binding = creds[c].binding
       /\ creds'[c].created = creds[c].created /\ creds'[c].staged = creds[c].staged
       /\ creds[c].revoked # None => creds'[c].revoked = creds[c].revoked
  /\ Rows' \subseteq Rows \cup {id}

\* Such a step keeps the lines when the new row follows all others of its binding.
LEMMA LinesKept ==
  ASSUME Lines, NEW id, Extends(id), \A c \in Rows : creds[c].created # None,
         id \in Rows' \ Rows =>
           /\ \A c \in Rows : creds[c].binding = creds'[id].binding => Follows(c, id)'
           /\ (\E c \in Rows : creds[c].binding = creds'[id].binding) => Succeeds(id)'
  PROVE  Lines'
<1>1. \A c, d \in Rows : Follows(c, d) => Follows(c, d)'
  BY Zenon DEF Extends, Follows
<1>2. \A c \in Rows : Succeeds(c) => Succeeds(c)'
  BY Zenon DEF Extends, Succeeds
<1>3. SUFFICES ASSUME NEW c \in Rows', NEW d \in Rows', c # d,
                      creds'[c].binding = creds'[d].binding
               PROVE  /\ Follows(c, d)' \/ Follows(d, c)'
                      /\ Succeeds(c)' \/ Succeeds(d)'
  BY Zenon DEF Lines
<1>4. CASE c \in Rows /\ d \in Rows
  <2>1. creds[c].binding = creds[d].binding
    BY Zenon, <1>3, <1>4 DEF Extends
  <2> QED
    BY Zenon, <1>1, <1>2, <1>3, <1>4, <2>1 DEF Lines
<1>5. CASE c \in Rows /\ d \notin Rows
  <2>1. d = id /\ creds[c].binding = creds'[id].binding
    BY Zenon, <1>3, <1>5 DEF Extends
  <2> QED
    BY Zenon, <1>5, <2>1
<1>6. CASE c \notin Rows /\ d \in Rows
  <2>1. c = id /\ creds[d].binding = creds'[id].binding
    BY Zenon, <1>3, <1>6 DEF Extends
  <2> QED
    BY Zenon, <1>6, <2>1
<1>7. c \in Rows \/ d \in Rows
  BY Zenon, <1>3 DEF Extends
<1> QED
  BY Zenon, <1>4, <1>5, <1>6, <1>7

\* What a row that is inserted and the others are.
LEMMA InsertedRows ==
  ASSUME NEW table, NEW id, NEW row
  PROVE  /\ DOMAIN Inserted(table, id, row) = DOMAIN table \cup {id}
         /\ \A c \in DOMAIN table : Inserted(table, id, row)[c] = table[c]
         /\ id \notin DOMAIN table => Inserted(table, id, row)[id] = row
BY Zenon DEF Inserted

\* A row that may be revoked at a time was created by then, and not used after.
LEMMA RevocationInOrder ==
  ASSUME NEW c \in Rows, creds[c] \in Row, creds[c].revoked = None, budget.time \in Nat,
         NEW stamp \in Time \ {None}, MayRevoke(c, stamp)
  PROVE  /\ RevokedAt(c, stamp) \in Row /\ RevokedAt(c, stamp).revoked = stamp
         /\ RevokedAt(c, stamp).used = creds[c].used
         /\ RevokedAt(c, stamp).created = creds[c].created
         /\ RevokedAt(c, stamp).binding = creds[c].binding
         /\ RevokedAt(c, stamp).staged = creds[c].staged
         /\ creds[c].created <= stamp /\ creds[c].used <= stamp
<1>1. /\ RevokedAt(c, stamp) \in Row /\ RevokedAt(c, stamp).revoked = stamp
      /\ RevokedAt(c, stamp).used = creds[c].used
      /\ RevokedAt(c, stamp).created = creds[c].created
      /\ RevokedAt(c, stamp).binding = creds[c].binding
      /\ RevokedAt(c, stamp).staged = creds[c].staged
  BY Zenon DEF Row, RevokedAt
<1>2. creds[c].created <= stamp /\ (creds[c].used # None => creds[c].used <= stamp)
  <2>1. creds[c].created \in Nat /\ creds[c].used \in Nat /\ stamp \in Nat /\ stamp # None
    BY DEF Row, Time
  <2>2. /\ stamp >= creds[c].created
        /\ creds[c].used # None => stamp >= creds[c].used
    BY Zenon, <1>1 DEF MayRevoke, Lifecycle
  <2> QED
    BY <2>1, <2>2
<1>3. creds[c].used = None => creds[c].used <= stamp
  BY DEF Time, None
<1> QED
  BY Zenon, <1>1, <1>2, <1>3
-----------------------------------------------------------------------------
\* The processes.

\* The parts of process x that others depend on are as before.
Alike(x) ==
  \/ admin'[x] = admin[x]
  \/ /\ admin[x] # Idle /\ admin'[x] # Idle
     /\ admin'[x].pc = admin[x].pc /\ admin'[x].command = admin[x].command
     /\ admin'[x].target = admin[x].target /\ admin'[x].path = admin[x].path
     /\ admin'[x].id = admin[x].id

\* The stage of an idle process.
LEMMA IdleStage ==
  Idle.pc = "idle" /\ "idle" \notin Stages
BY DEF Idle, Stages

\* A process that runs is not idle, and knows its fields.
LEMMA Runs ==
  ASSUME Shapes, NEW a \in Admins, admin[a].pc # "idle"
  PROVE  admin[a] # Idle /\ admin[a] \in Process(drawn, Time \ {None})
<1>1. admin[a] \in Processes
  BY Zenon DEF Shapes
<1> QED
  BY Zenon, <1>1, IdleStage DEF Processes

\* Ids that are drawn later and times that stay leave the processes their types.
LEMMA MoreIds ==
  ASSUME drawn \subseteq drawn', budget' = budget
  PROVE  Processes \subseteq Processes'
BY DEF Processes, Process, Time

\* An artifact that is published is not written again.
LEMMA StillPublished ==
  ASSUME NEW c, Published(c),
         \A p \in Paths : files[p].kind = "authorization" => files'[p] = files[p]
  PROVE  Published(c)'
<1>1. Content("reissue", c).kind = "authorization"
  BY DEF Content, ArtifactCommands
<1> QED
  BY Zenon, <1>1 DEF Published

\* When no file changes, it is enough that the processes that do are fit, and do not
\* write.
LEMMA ProcessesKept ==
  ASSUME \A a \in Admins : Fit(a), Reservations, files' = files, drawn \subseteq drawn',
         \A x \in Admins : Alike(x) \/ (Fit(x)' /\ admin'[x].pc # "publish")
  PROVE  (\A a \in Admins : Fit(a))' /\ Reservations'
<1>1. ASSUME NEW x \in Admins, Alike(x)
      PROVE  Fit(x)'
  <2>1. \A c : Published(c)' = Published(c)
    BY Zenon DEF Published
  <2>2. CASE admin'[x] = admin[x]
    BY Zenon, <2>1, <2>2 DEF Fit
  <2>3. CASE admin'[x] # admin[x]
    BY Zenon, <1>1, <2>1, <2>3 DEF Fit, Alike
  <2> QED
    BY Zenon, <2>2, <2>3
<1>2. \A x \in Admins : admin'[x].pc = "publish" =>
        admin[x].pc = "publish" /\ admin'[x].path = admin[x].path
  BY Zenon DEF Alike
<1>3. Reservations'
  BY ZenonT(60), <1>2 DEF Reservations
<1> QED
  BY Zenon, <1>1, <1>3

\* A commit makes snapshots stale, and changes nothing else of a process.
LEMMA Outdated ==
  ASSUME NEW procs \in [Admins -> Processes], NEW b
  PROVE  /\ Outdates(procs, b) \in [Admins -> Processes]
         /\ \A x \in Admins :
              LET new == Outdates(procs, b)[x] IN
              \/ new = procs[x]
              \/ /\ procs[x] # Idle /\ new # Idle /\ new.pc = procs[x].pc
                 /\ new.command = procs[x].command /\ new.path = procs[x].path
                 /\ new.target = procs[x].target /\ new.id = procs[x].id
<1> DEFINE new == Outdates(procs, b)
<1>1. ASSUME NEW x \in Admins
      PROVE  \/ new[x] = procs[x]
             \/ procs[x].pc = "txn" /\ new[x] = [procs[x] EXCEPT !.stale = TRUE]
  BY Zenon DEF Outdates
<1>2. ASSUME NEW x \in Admins, procs[x].pc = "txn"
      PROVE  LET next == [procs[x] EXCEPT !.stale = TRUE] IN
             /\ procs[x] # Idle /\ next \in Processes /\ next # Idle /\ next.pc = procs[x].pc
             /\ next.command = procs[x].command /\ next.path = procs[x].path
             /\ next.target = procs[x].target /\ next.id = procs[x].id
  <2>1. procs[x] \in Process(drawn, Time \ {None}) /\ procs[x] # Idle
    <3>1. procs[x] \in Processes /\ "txn" # "idle"
      BY Zenon
    <3> QED
      BY Zenon, <1>2, <3>1, IdleStage DEF Processes
  <2> DEFINE next == [procs[x] EXCEPT !.stale = TRUE]
  <2>2. /\ next \in Process(drawn, Time \ {None}) /\ next.pc = procs[x].pc
        /\ next.command = procs[x].command /\ next.path = procs[x].path
        /\ next.target = procs[x].target /\ next.id = procs[x].id
    BY Zenon, <2>1 DEF Process
  <2>3. next # Idle
    BY Zenon, <1>2, <2>2, IdleStage
  <2> QED
    BY Zenon, <2>1, <2>2, <2>3 DEF Processes
<1>3. \A x \in Admins : new[x] \in Processes
  BY Zenon, <1>1, <1>2
<1>4. new \in [Admins -> Processes]
  BY Zenon, <1>3 DEF Outdates
<1>5. ASSUME NEW x \in Admins
      PROVE  \/ new[x] = procs[x]
             \/ /\ procs[x] # Idle /\ new[x] # Idle /\ new[x].pc = procs[x].pc
                /\ new[x].command = procs[x].command /\ new[x].path = procs[x].path
                /\ new[x].target = procs[x].target /\ new[x].id = procs[x].id
  <2>1. CASE new[x] # procs[x]
    <3>1. procs[x].pc = "txn" /\ new[x] = [procs[x] EXCEPT !.stale = TRUE]
      BY Zenon, <1>1, <2>1
    <3> HIDE DEF new
    <3> QED
      BY Zenon, <1>2, <3>1
  <2> QED
    BY Zenon, <2>1
<1> HIDE DEF new
<1> QED
  BY Zenon, <1>4, <1>5 DEF new
-----------------------------------------------------------------------------
\* Steps that leave the tables alone.

\* What IInv says of the tables.
Tables ==
  /\ bindings \in [Bindings -> {"absent", "live", "withdrawn"}]
  /\ Rows \subseteq drawn
  /\ \A c \in Rows : creds[c] \in Row
  /\ Closed /\ Lines /\ AuditInOrder /\ SecretKept

\* What may be at a path.
Contents(ids) == {Absent, Reserved} \cup [kind : {"authorization", "token"}, id : ids]

\* IInv, by what it says of the clock, the tables, the files, the processes and the
\* requests.
LEMMA IInvParts ==
  ASSUME IInv
  PROVE  /\ budget \in Budgets /\ now \in Time \ {None} /\ drawn \subseteq Ids
         /\ files \in [Paths -> Contents(drawn)] /\ Tables
         /\ admin \in [Admins -> Processes] /\ request \in [Requests -> Authentications]
         /\ Reservations /\ \A a \in Admins : Fit(a)
BY Zenon DEF IInv, Shapes, TypeOK, Tables, Contents

\* The same of the next state.
LEMMA IInvAgain ==
  ASSUME (budget \in Budgets)', (now \in Time \ {None})', (drawn \subseteq Ids)',
         (files \in [Paths -> Contents(drawn)])', Tables',
         (admin \in [Admins -> Processes])', (request \in [Requests -> Authentications])',
         Reservations', (\A a \in Admins : Fit(a))'
  PROVE  IInv'
<1>1. ASSUME NEW a \in Admins
      PROVE  admin'[a].pc \in {"idle", "read", "reserve", "publish", "reread", "begin", "txn"}
  <2>1. admin'[a] \in Processes'
    BY Zenon
  <2>2. admin'[a].pc = "idle" \/ admin'[a].pc \in Stages
    BY Zenon, <2>1, IdleStage DEF Processes, Process
  <2> QED
    BY Zenon, <2>2 DEF Stages
<1>2. ASSUME NEW q \in Requests
      PROVE  request'[q].pc \in {"idle", "verified", "served"}
  <2>1. request'[q] \in Authentications
    BY Zenon
  <2>2. CASE request'[q] = Idle
    BY Zenon, <2>2, IdleStage
  <2>3. CASE request'[q] # Idle
    BY Zenon, <2>1, <2>3 DEF Authentications
  <2> QED
    BY Zenon, <2>2, <2>3
<1>3. TypeOK'
  BY Zenon, <1>1, <1>2 DEF TypeOK, Tables, Contents
<1> QED
  BY Zenon, <1>3 DEF IInv, Shapes, Tables

\* The numbers in a row.
LEMMA RowNumbers ==
  ASSUME budget.time \in Nat, NEW row \in Row
  PROVE  /\ row.created \in Nat /\ row.created # None /\ row.used \in Nat /\ row.revoked \in Nat
         /\ row.expires \in Nat
BY DEF Row, Time

\* What a file holds.
LEMMA Holds ==
  ASSUME NEW c
  PROVE  /\ Content("reissue", c).id = c /\ Content("reissue", c).kind = "authorization"
         /\ \A command : Content(command, c).id = c
         /\ \A command \in ArtifactCommands : Content(command, c) = Content("reissue", c)
BY DEF Content, ArtifactCommands

\* What a path without a secret holds.
LEMMA HoldsNothing ==
  /\ Absent.id = NoId /\ Reserved.id = NoId /\ Absent.kind = "absent"
  /\ Reserved.kind = "reserved"
BY DEF Absent, Reserved

\* A step that touches neither the tables nor what is published keeps both.
LEMMA TablesKept ==
  ASSUME Sensible, budget \in Budgets, Tables, drawn \subseteq Ids,
         creds' = creds, bindings' = bindings, budget' = budget, drawn \subseteq drawn',
         \A p \in Paths : files[p].id # NoId => files'[p] = files[p]
  PROVE  Tables' /\ KeepsRowsAndSecrets
<1>1. budget.time \in Nat
  BY Zenon DEF Sensible
<1>2. \A c \in Rows : c # NoId
  BY Zenon DEF Sensible, Tables
<1>3. SecretKept'
  <2>1. SUFFICES ASSUME NEW c \in Rows, creds[c].staged
                 PROVE  \E p \in Paths : files'[p] = Content("reissue", c)
    BY Zenon DEF SecretKept, Rows
  <2>2. PICK p \in Paths : files[p] = Content("reissue", c)
    BY Zenon, <2>1 DEF Tables, SecretKept
  <2>3. files[p].id # NoId
    BY Zenon, <1>2, <2>2, Holds
  <2> QED
    BY Zenon, <2>2, <2>3
<1>4. \A b \in Bindings : Occupancy(b)' = Occupancy(b)
  BY Zenon DEF Occupancy, Rows
<1>5. Closed'
  BY Zenon, <1>4 DEF Tables, Closed
<1>6. Lines'
  <2>1. \A c, d : Follows(c, d) => Follows(c, d)'
    BY Zenon DEF Follows
  <2>2. \A c : Succeeds(c) => Succeeds(c)'
    BY Zenon DEF Succeeds, Rows
  <2> QED
    BY Zenon, <2>1, <2>2 DEF Tables, Lines, Rows
<1>7. AuditInOrder'
  BY Zenon DEF Tables, AuditInOrder, Rows
<1>8. (Rows \subseteq drawn)' /\ (\A c \in Rows : creds[c] \in Row)'
  BY Zenon DEF Tables, Row, Time, Rows
<1>9. ASSUME NEW c \in Rows
      PROVE  creds'[c].used >= creds[c].used
  <2>1. creds[c].used \in Nat
    BY Zenon, <1>1, RowNumbers DEF Tables
  <2> QED
    BY <2>1
<1> QED
  BY Zenon, <1>3, <1>5, <1>6, <1>7, <1>8, <1>9 DEF Tables, KeepsRowsAndSecrets, Rows

\* A step of process a alone that does not write, and may draw an id.
LEMMA ProcessStep ==
  ASSUME Sensible, IInv, NEW a \in Admins, NEW p \in Processes', admin' = [admin EXCEPT ![a] = p],
         Fit(a)', p.pc # "publish", drawn \subseteq drawn', drawn' \subseteq Ids,
         UNCHANGED <<now, tables, files, request, budget>>
  PROVE  IInv' /\ KeepsRowsAndSecrets
<1>1. /\ now' = now /\ creds' = creds /\ bindings' = bindings /\ files' = files
      /\ request' = request /\ budget' = budget
  BY Zenon DEF tables
<1>2. Tables' /\ KeepsRowsAndSecrets
  BY Zenon, <1>1, IInvParts, TablesKept
<1>3. (\A x \in Admins : Fit(x))' /\ Reservations'
  <2>1. \A x \in Admins : Alike(x) \/ (Fit(x)' /\ admin'[x].pc # "publish")
    BY Zenon, IInvParts DEF Alike
  <2> QED
    BY Zenon, <1>1, <2>1, IInvParts, ProcessesKept
<1>4. (admin \in [Admins -> Processes])'
  BY Zenon, <1>1, IInvParts, MoreIds
<1>5. (files \in [Paths -> Contents(drawn)])'
  <2>1. Contents(drawn) \subseteq Contents(drawn')
    BY Zenon DEF Contents
  <2> QED
    BY Zenon, <1>1, <2>1, IInvParts
<1>6. /\ (budget \in Budgets)' /\ (now \in Time \ {None})'
      /\ (request \in [Requests -> Authentications])'
  BY Zenon, <1>1, IInvParts DEF Time, Authentications
<1> QED
  BY Zenon, <1>2, <1>3, <1>4, <1>5, <1>6, IInvAgain

\* The end of a process.
LEMMA EndStep ==
  ASSUME Sensible, IInv, NEW a \in Admins, Ends(a), drawn' = drawn,
         UNCHANGED <<now, tables, files, request, budget>>
  PROVE  IInv' /\ KeepsRowsAndSecrets
<1>1. Idle \in Processes' /\ Idle.pc # "publish"
  BY Zenon, IdleStage DEF Processes
<1>2. admin'[a] = Idle
  BY Zenon, IInvParts DEF Ends
<1>3. Fit(a)'
  BY Zenon, <1>2 DEF Fit
<1>4. drawn' \subseteq Ids /\ drawn \subseteq drawn'
  BY Zenon, IInvParts
<1> QED
  BY Zenon, <1>1, <1>3, <1>4, ProcessStep DEF Ends

\* A step in which process a, not yet idle, changes its stage, and perhaps its id.
LEMMA MoveStep ==
  ASSUME Sensible, IInv, NEW a \in Admins, admin[a] # Idle, NEW p \in Process(drawn, Time \ {None}),
         admin' = [admin EXCEPT ![a] = p], p.command = admin[a].command,
         p.target = admin[a].target, p.path = admin[a].path,
         p.pc # "publish", p.command # "revoke" => p.id \in drawn,
         p.pc \in {"read", "reserve", "reread"} => p.command # "revoke",
         p.command \in ArtifactCommands /\ p.pc \in {"begin", "txn"} => Published(p.id),
         UNCHANGED <<now, tables, files, drawn, request, budget>>
  PROVE  IInv' /\ KeepsRowsAndSecrets
<1>1. drawn' = drawn /\ budget' = budget /\ files' = files
  BY Zenon
<1>2. p \in Processes'
  BY Zenon, <1>1 DEF Processes, Time
<1>3. admin'[a] = p /\ p.pc # "idle"
  BY Zenon, IInvParts, IdleStage DEF Process
<1>4. Fit(a)'
  <2>1. Published(p.id) => Published(p.id)'
    BY Zenon, <1>1 DEF Published
  <2>2. /\ p.command # "revoke" => p.path \in Paths
        /\ p.command \in Labelled => p.target \in Bindings
    BY Zenon, IInvParts DEF Fit
  <2> QED
    BY Zenon, <1>1, <1>3, <2>1, <2>2 DEF Fit
<1>5. drawn' \subseteq Ids /\ drawn \subseteq drawn'
  BY Zenon, <1>1, IInvParts
<1>6. UNCHANGED <<now, tables, files, request, budget>>
  BY Zenon
<1> QED
  BY Zenon, <1>2, <1>4, <1>5, <1>6, ProcessStep

\* What a command line asks for.
LEMMA AskedProposal ==
  ASSUME NEW command \in Commands, NEW r \in Asked(command), Rows \subseteq Ids
  PROVE  \E target \in Bindings \cup Ids \cup {NoId}, p \in Paths \cup {NoId},
            c \in (Ids \ drawn) \cup {NoId}, expiry \in Expiries \cup {None} :
           /\ r = Proposal(command, target, p, c, expiry)
           /\ command # "revoke" => p \in Paths /\ c \in Ids
           /\ command \in Labelled => target \in Bindings
<1>1. \/ command = "revoke" /\ Asked(command) = Revoke
      \/ command # "revoke" /\ \E targets \in {Hosts, Tunnels, ListMetadata} :
                                  /\ Asked(command) = Proposals(command, targets)
                                  /\ command \in Labelled => targets \in {Hosts, Tunnels}
  BY DEF Asked, Commands, ArtifactCommands, Create, CreateSecureTunnel, RotateSecureTunnel,
         ReissueSecureTunnel, Rotate, Labelled
<1>2. CASE command = "revoke" /\ Asked(command) = Revoke
  <2>1. PICK target \in ListMetadata : r = Proposal("revoke", target, NoId, NoId, None)
    BY Zenon, <1>2 DEF Revoke
  <2> QED
    BY Zenon, <1>2, <2>1 DEF ListMetadata, Labelled
<1>3. ASSUME command # "revoke", NEW targets \in {Hosts, Tunnels, ListMetadata},
             Asked(command) = Proposals(command, targets),
             command \in Labelled => targets \in {Hosts, Tunnels}
      PROVE  \E target \in Bindings \cup Ids \cup {NoId}, p \in Paths \cup {NoId},
                c \in (Ids \ drawn) \cup {NoId}, expiry \in Expiries \cup {None} :
               /\ r = Proposal(command, target, p, c, expiry)
               /\ command # "revoke" => p \in Paths /\ c \in Ids
               /\ command \in Labelled => target \in Bindings
  <2>1. PICK target \in targets, p \in Offered, c \in NewUuid7, expiry \in Expiries :
          r = Proposal(command, target, p, c, expiry)
    BY <1>3 DEF Proposals
  <2>2. /\ target \in Bindings \cup Ids \cup {NoId}
        /\ command \in Labelled => target \in Bindings
    BY Zenon, <1>3 DEF Bindings, ListMetadata
  <2>3. p \in Paths /\ c \in Ids \ drawn
    BY Zenon DEF Offered, NewUuid7
  <2> QED
    BY Zenon, <2>1, <2>2, <2>3
<1> QED
  BY Zenon, <1>1, <1>2, <1>3

\* A lifetime that is asked for ends at some time.
LEMMA ExpiriesAreTimes ==
  ASSUME Sensible, IInv
  PROVE  Expiries \subseteq Nat
<1>1. now \in Nat /\ budget.lifetimes \subseteq Nat
  <2>1. now \in Time /\ budget \in Budgets
    BY Zenon, IInvParts
  <2> QED
    BY <2>1 DEF Time, Sensible
<1> QED
  BY <1>1 DEF Expiries, None

\* A command that starts.
LEMMA StartStep ==
  ASSUME Sensible, IInv, NEW a \in Admins, Start(a)
  PROVE  IInv' /\ KeepsRowsAndSecrets
<1>1. PICK command \in budget.kinds : \E r \in Asked(command) :
        /\ admin' = [admin EXCEPT ![a] = r]
        /\ drawn' = drawn \cup ({r.id} \ {NoId})
  BY Zenon DEF Start
<1> PICK r \in Asked(command) :
        /\ admin' = [admin EXCEPT ![a] = r]
        /\ drawn' = drawn \cup ({r.id} \ {NoId})
  BY Zenon, <1>1
<1>2. command \in Commands
  BY Zenon, IInvParts DEF Sensible
<1>3. Rows \subseteq Ids
  BY Zenon, IInvParts DEF Tables
<1>4. PICK target \in Bindings \cup Ids \cup {NoId}, p \in Paths \cup {NoId},
           c \in (Ids \ drawn) \cup {NoId}, expiry \in Expiries \cup {None} :
         /\ r = Proposal(command, target, p, c, expiry)
         /\ command # "revoke" => p \in Paths /\ c \in Ids
         /\ command \in Labelled => target \in Bindings
  BY Zenon, <1>1, <1>2, <1>3, AskedProposal
<1>5. expiry \in Nat
  BY <1>4, ExpiriesAreTimes DEF None
<1>6. drawn' = drawn \cup ({c} \ {NoId})
  <2>1. r.id = c
    BY Zenon, <1>4 DEF Proposal
  <2> QED
    BY Zenon, <1>1, <2>1
<1>7. UNCHANGED <<now, tables, files, request, budget>>
  BY Zenon DEF Start
<1>8. /\ r \in Process(drawn', (Time \ {None})') /\ r.command = command /\ r.path = p /\ r.id = c
      /\ r.target = target
      /\ r.pc = IF command \in ArtifactCommands THEN "read" ELSE "begin"
  <2> DEFINE ids == drawn'
             times == (Time \ {None})'
  <2>1. now \in times
    BY Zenon, <1>7, IInvParts DEF Time
  <2>2. c \in ids \cup {NoId}
    BY Zenon, <1>6
  <2> HIDE DEF ids, times
  <2>3. r \in Process(ids, times)
    BY <1>2, <1>4, <1>5, <2>1, <2>2 DEF Proposal, Process, Stages
  <2>4. /\ r.command = command /\ r.target = target /\ r.path = p /\ r.id = c
        /\ r.pc = IF command \in ArtifactCommands THEN "read" ELSE "begin"
    BY <1>4 DEF Proposal
  <2> QED
    BY Zenon, <2>3, <2>4 DEF ids, times
<1>9. r \in Processes'
  BY Zenon, <1>8 DEF Processes
<1>10. Fit(a)'
  <2>1. command # "revoke" => c \in drawn'
    <3>1. NoId \notin Ids
      BY Zenon DEF Sensible
    <3> QED
      BY Zenon, <1>4, <1>6, <3>1
  <2>2. admin'[a] = r
    BY Zenon, <1>1, IInvParts
  <2>3. /\ command \in ArtifactCommands => r.pc = "read" /\ command # "revoke"
        /\ command \notin ArtifactCommands => r.pc = "begin"
    BY Zenon, <1>8 DEF ArtifactCommands
  <2> QED
    BY Zenon, <1>4, <1>8, <2>1, <2>2, <2>3 DEF Fit
<1>11. r.pc # "publish"
  BY Zenon, <1>8
<1>12. drawn \subseteq drawn' /\ drawn' \subseteq Ids
  BY Zenon, <1>6, IInvParts
<1> QED
  BY Zenon, <1>1, <1>7, <1>9, <1>10, <1>11, <1>12, ProcessStep

\* The id in an artifact.
LEMMA ArtifactId ==
  ASSUME IInv, NEW p \in Paths, files[p].kind = "authorization"
  PROVE  files[p].id \in drawn /\ Published(files[p].id)
<1>1. files[p] \in Contents(drawn)
  BY Zenon, IInvParts
<1>2. files[p] \in [kind : {"authorization", "token"}, id : drawn]
  BY Zenon, <1>1, HoldsNothing DEF Contents
<1>3. files[p] = [kind |-> "authorization", id |-> files[p].id]
  BY <1>2
<1>4. files[p] = Content("reissue", files[p].id)
  BY Zenon, <1>3 DEF Content, ArtifactCommands
<1> QED
  BY Zenon, <1>2, <1>4 DEF Published

\* A process that takes the id of the artifact at its path.
LEMMA AdoptStep ==
  ASSUME Sensible, IInv, NEW a \in Admins, admin[a].pc \in {"read", "reread"},
         files[admin[a].path].kind = "authorization", admin' = Adopt(a),
         UNCHANGED <<now, tables, files, drawn, request, bounds>>
  PROVE  IInv' /\ KeepsRowsAndSecrets
<1> DEFINE c == files[admin[a].path].id
           p == [admin[a] EXCEPT !.id = c, !.pc = "begin"]
<1>1. admin[a] # Idle /\ admin[a] \in Process(drawn, Time \ {None})
  BY Zenon, Runs DEF IInv
<1>2. admin[a].command # "revoke" /\ admin[a].path \in Paths
  BY Zenon, <1>1, IInvParts DEF Fit
<1>3. c \in drawn /\ Published(c)
  BY Zenon, <1>2, ArtifactId
<1>4. /\ p \in Process(drawn, Time \ {None}) /\ p.command = admin[a].command
      /\ p.target = admin[a].target /\ p.path = admin[a].path /\ p.id = c /\ p.pc = "begin"
  BY Zenon, <1>1, <1>3 DEF Process, Stages
<1>5. admin' = [admin EXCEPT ![a] = p]
  BY Zenon, IInvParts DEF Adopt
<1>6. UNCHANGED <<now, tables, files, drawn, request, budget>>
  BY Zenon DEF bounds
<1> HIDE DEF p, c
<1> QED
  BY Zenon, <1>1, <1>3, <1>4, <1>5, <1>6, MoveStep

\* load_or_create_authorization looks at the path.
LEMMA ReadStep ==
  ASSUME Sensible, IInv, NEW a \in Admins, ReadArtifact(a)
  PROVE  IInv' /\ KeepsRowsAndSecrets
<1>1. UNCHANGED <<now, tables, files, drawn, request, bounds>> /\ admin[a].pc = "read"
  BY Zenon DEF ReadArtifact
<1>2. UNCHANGED <<now, tables, files, drawn, request, budget>>
  BY Zenon, <1>1 DEF bounds
<1>3. CASE Goto(a, "reserve")
  <2> DEFINE p == [admin[a] EXCEPT !.pc = "reserve"]
  <2>1. admin[a] # Idle /\ admin[a] \in Process(drawn, Time \ {None})
    BY Zenon, <1>1, Runs DEF IInv
  <2>2. admin[a].command # "revoke" /\ admin[a].id \in drawn
    BY Zenon, <1>1, <2>1, IInvParts DEF Fit
  <2>3. /\ p \in Process(drawn, Time \ {None}) /\ p.command = admin[a].command
        /\ p.target = admin[a].target /\ p.path = admin[a].path
        /\ p.id = admin[a].id /\ p.pc = "reserve"
    BY <2>1 DEF Process, Stages
  <2>4. admin' = [admin EXCEPT ![a] = p]
    BY Zenon, <1>3, IInvParts DEF Goto
  <2> HIDE DEF p
  <2> QED
    BY Zenon, <1>2, <2>1, <2>2, <2>3, <2>4, MoveStep
<1>4. CASE Ends(a)
  <2>1. drawn' = drawn /\ UNCHANGED <<now, tables, files, request, budget>>
    BY Zenon, <1>2
  <2> QED
    BY Zenon, <1>4, <2>1, EndStep
<1>5. CASE files[admin[a].path].kind = "authorization" /\ admin' = Adopt(a)
  BY Zenon, <1>1, <1>5, AdoptStep
<1> QED
  BY Zenon, <1>3, <1>4, <1>5 DEF ReadArtifact

\* load_or_create_authorization looks again.
LEMMA RereadStep ==
  ASSUME Sensible, IInv, NEW a \in Admins, RereadArtifact(a)
  PROVE  IInv' /\ KeepsRowsAndSecrets
<1>1. UNCHANGED <<now, tables, files, drawn, request, bounds>> /\ admin[a].pc = "reread"
  BY Zenon DEF RereadArtifact
<1>2. CASE files[admin[a].path].kind = "authorization"
  <2>1. admin' = Adopt(a)
    BY Zenon, <1>2 DEF RereadArtifact
  <2> QED
    BY Zenon, <1>1, <1>2, <2>1, AdoptStep
<1>3. CASE files[admin[a].path].kind # "authorization"
  <2>1. Ends(a)
    BY Zenon, <1>3 DEF RereadArtifact
  <2>2. drawn' = drawn /\ UNCHANGED <<now, tables, files, request, budget>>
    BY Zenon, <1>1 DEF bounds
  <2> QED
    BY Zenon, <2>1, <2>2, EndStep
<1> QED
  BY Zenon, <1>2, <1>3

\* A process that begins, or begins again, its transaction.
LEMMA TransactionStep ==
  ASSUME Sensible, IInv, NEW a \in Admins, admin[a].pc \in {"begin", "txn"},
         NEW p \in Process(drawn, Time \ {None}), admin' = [admin EXCEPT ![a] = p],
         p.command = admin[a].command, p.target = admin[a].target, p.path = admin[a].path,
         p.id = admin[a].id,
         p.pc \in {"begin", "txn"}, UNCHANGED <<now, tables, files, drawn, request, bounds>>
  PROVE  IInv' /\ KeepsRowsAndSecrets
<1>1. admin[a] # Idle
  BY Zenon, Runs DEF IInv
<1>2. /\ p.command # "revoke" => p.id \in drawn
      /\ p.command \in ArtifactCommands => Published(p.id)
  BY Zenon, <1>1, IInvParts DEF Fit
<1>3. UNCHANGED <<now, tables, files, drawn, request, budget>>
  BY Zenon DEF bounds
<1> QED
  BY Zenon, <1>1, <1>2, <1>3, MoveStep

\* BEGIN.
LEMMA BeginStep ==
  ASSUME Sensible, IInv, NEW a \in Admins, Begin(a)
  PROVE  IInv' /\ KeepsRowsAndSecrets
<1> DEFINE p == [admin[a] EXCEPT !.pc = "txn", !.stale = FALSE]
<1>1. admin[a].pc = "begin" /\ UNCHANGED <<now, tables, files, drawn, request, bounds>>
  BY Zenon DEF Begin
<1>2. admin[a] \in Process(drawn, Time \ {None})
  BY Zenon, <1>1, Runs DEF IInv
<1>3. /\ p \in Process(drawn, Time \ {None}) /\ p.command = admin[a].command
      /\ p.target = admin[a].target /\ p.path = admin[a].path
      /\ p.id = admin[a].id /\ p.pc = "txn"
  BY Zenon, <1>2 DEF Process, Stages
<1>4. admin' = [admin EXCEPT ![a] = p]
  BY Zenon, IInvParts DEF Begin
<1> HIDE DEF p
<1> QED
  BY Zenon, <1>1, <1>3, <1>4, TransactionStep

\* A serialization failure is retried, or ends the command.
LEMMA SerializationFailureStep ==
  ASSUME Sensible, IInv, NEW a \in Admins, SerializationFailure(a)
  PROVE  IInv' /\ KeepsRowsAndSecrets
<1> DEFINE tries == admin[a].tries + 1
           p == [admin[a] EXCEPT !.pc = "begin", !.tries = tries]
<1>1. admin[a].pc = "txn" /\ UNCHANGED <<now, tables, files, drawn, request, bounds>>
  BY Zenon DEF SerializationFailure
<1>2. CASE Ends(a)
  <2>1. drawn' = drawn /\ UNCHANGED <<now, tables, files, request, budget>>
    BY Zenon, <1>1 DEF bounds
  <2> QED
    BY Zenon, <1>2, <2>1, EndStep
<1>3. CASE admin' = [admin EXCEPT ![a].pc = "begin", ![a].tries = @ + 1]
  <2>1. admin[a] \in Process(drawn, Time \ {None})
    BY Zenon, <1>1, Runs DEF IInv
  <2>2. /\ p \in Process(drawn, Time \ {None}) /\ p.command = admin[a].command
        /\ p.target = admin[a].target /\ p.path = admin[a].path
        /\ p.id = admin[a].id /\ p.pc = "begin"
    <3>1. tries \in Nat
      BY <2>1 DEF Process
    <3> HIDE DEF tries
    <3> QED
      BY Zenon, <2>1, <3>1 DEF Process, Stages
  <2>3. admin' = [admin EXCEPT ![a] = p]
    BY Zenon, <1>3, IInvParts
  <2> HIDE DEF p
  <2> QED
    BY Zenon, <1>1, <2>2, <2>3, TransactionStep
<1> QED
  BY Zenon, <1>2, <1>3 DEF SerializationFailure

\* So is, once and for a reissue, a unique violation.
LEMMA UniqueViolationStep ==
  ASSUME Sensible, IInv, NEW a \in Admins, UniqueViolation(a)
  PROVE  IInv' /\ KeepsRowsAndSecrets
<1> DEFINE p == [admin[a] EXCEPT !.pc = "begin", !.tries = 0, !.collided = TRUE]
<1>1. admin[a].pc = "txn" /\ UNCHANGED <<now, tables, files, drawn, request, bounds>>
  BY Zenon DEF UniqueViolation
<1>2. CASE Ends(a)
  <2>1. drawn' = drawn /\ UNCHANGED <<now, tables, files, request, budget>>
    BY Zenon, <1>1 DEF bounds
  <2> QED
    BY Zenon, <1>2, <2>1, EndStep
<1>3. CASE admin' = [admin EXCEPT ![a].pc = "begin", ![a].tries = 0, ![a].collided = TRUE]
  <2>1. admin[a] \in Process(drawn, Time \ {None})
    BY Zenon, <1>1, Runs DEF IInv
  <2>2. /\ p \in Process(drawn, Time \ {None}) /\ p.command = admin[a].command
        /\ p.target = admin[a].target /\ p.path = admin[a].path
        /\ p.id = admin[a].id /\ p.pc = "begin"
    BY Zenon, <2>1 DEF Process, Stages
  <2>3. admin' = [admin EXCEPT ![a] = p]
    BY Zenon, <1>3, IInvParts
  <2> HIDE DEF p
  <2> QED
    BY Zenon, <1>1, <2>2, <2>3, TransactionStep
<1> QED
  BY Zenon, <1>2, <1>3 DEF UniqueViolation

\* A process that dies.
LEMMA DiesStep ==
  ASSUME Sensible, IInv, NEW a \in Admins, Dies(a)
  PROVE  IInv' /\ KeepsRowsAndSecrets
<1>1. Ends(a) /\ drawn' = drawn /\ UNCHANGED <<now, tables, files, request, budget>>
  BY Zenon DEF Dies
<1> QED
  BY Zenon, <1>1, EndStep
-----------------------------------------------------------------------------
\* Steps that write a file.

\* Process a writes at its path, where no secret is, and nobody else is about to.
LEMMA WriteStep ==
  ASSUME Sensible, IInv, NEW a \in Admins, NEW f \in Contents(drawn), NEW p \in Processes,
         admin[a].path \in Paths, files[admin[a].path] \in {Absent, Reserved},
         \A o \in Admins \ {a} : admin[o].pc = "publish" => admin[o].path # admin[a].path,
         files' = [files EXCEPT ![admin[a].path] = f], admin' = [admin EXCEPT ![a] = p],
         p.pc = "publish" => p.path = admin[a].path /\ f = Reserved, Fit(a)',
         UNCHANGED <<now, tables, drawn, request, budget>>
  PROVE  IInv' /\ KeepsRowsAndSecrets
<1>1. /\ now' = now /\ creds' = creds /\ bindings' = bindings /\ drawn' = drawn
      /\ request' = request /\ budget' = budget
  BY Zenon DEF tables
<1>2. \A o \in Paths \ {admin[a].path} : files'[o] = files[o]
  BY Zenon, IInvParts
<1>3. Tables' /\ KeepsRowsAndSecrets
  <2>1. \A o \in Paths : files[o].id # NoId => files'[o] = files[o]
    BY Zenon, <1>2, HoldsNothing
  <2>2. drawn \subseteq drawn'
    BY Zenon, <1>1
  <2> QED
    BY Zenon, <1>1, <2>1, <2>2, IInvParts, TablesKept
<1>4. (\A x \in Admins : Fit(x))'
  <2>1. SUFFICES ASSUME NEW x \in Admins \ {a}
                 PROVE  Fit(x)'
    BY Zenon
  <2>2. admin'[x] = admin[x]
    BY Zenon, IInvParts
  <2>3. \A o \in Paths : files[o].kind = "authorization" => files'[o] = files[o]
    <3>1. Absent.kind # "authorization" /\ Reserved.kind # "authorization"
      BY HoldsNothing
    <3> QED
      BY Zenon, <1>2, <3>1
  <2>4. \A c : Published(c) => Published(c)'
    BY Zenon, <2>3, StillPublished
  <2> QED
    BY Zenon, <1>1, <2>2, <2>4, IInvParts DEF Fit
<1>5. Reservations'
  <2>1. admin'[a] = p /\ \A x \in Admins \ {a} : admin'[x] = admin[x]
    BY Zenon, IInvParts
  <2>2. files'[admin[a].path] = f
    BY Zenon, IInvParts
  <2>3. ASSUME NEW x \in Admins \ {a}, admin[x].pc = "publish"
        PROVE  files'[admin[x].path] = Reserved /\ admin[x].path # admin[a].path
    <3>1. files[admin[x].path] = Reserved /\ admin[x].path # admin[a].path
      BY Zenon, <2>3, IInvParts DEF Reservations
    <3>2. admin[x] # Idle
      BY Zenon, <2>3, Runs DEF IInv
    <3>3. admin[x].path \in Paths
      BY Zenon, <2>3, <3>2, IInvParts DEF Fit
    <3> QED
      BY Zenon, <1>2, <3>1, <3>3
  <2>4. ASSUME NEW x \in Admins \ {a}, admin[x].pc = "publish", NEW o \in Admins \ {x},
               admin'[o].pc = "publish"
        PROVE  admin'[o].path # admin[x].path
    <3>1. CASE o = a
      BY ZenonT(60), <2>1, <2>3, <2>4, <3>1
    <3>2. CASE o # a
      BY Zenon, <2>1, <2>4, <3>2, IInvParts DEF Reservations
    <3> QED
      BY Zenon, <3>1, <3>2
  <2>5. ASSUME p.pc = "publish", NEW o \in Admins \ {a}, admin'[o].pc = "publish"
        PROVE  admin'[o].path # p.path
    BY Zenon, <2>1, <2>5
  <2>6. ASSUME NEW x \in Admins, admin'[x].pc = "publish"
        PROVE  /\ files'[admin'[x].path] = Reserved
               /\ \A o \in Admins \ {x} : admin'[o].pc = "publish" => admin'[o].path # admin'[x].path
    <3>1. CASE x = a
      BY Zenon, <2>1, <2>2, <2>5, <2>6, <3>1
    <3>2. CASE x # a
      BY ZenonT(60), <2>1, <2>3, <2>4, <2>6, <3>2
    <3> QED
      BY Zenon, <3>1, <3>2
  <2> QED
    BY Zenon, <2>6 DEF Reservations
<1>6. (admin \in [Admins -> Processes])'
  BY Zenon, <1>1, IInvParts DEF Processes, Time
<1>7. (files \in [Paths -> Contents(drawn)])'
  BY Zenon, <1>1, IInvParts
<1>8. /\ (budget \in Budgets)' /\ (now \in Time \ {None})' /\ (drawn \subseteq Ids)'
      /\ (request \in [Requests -> Authentications])'
  BY Zenon, <1>1, IInvParts DEF Time, Authentications
<1> QED
  BY Zenon, <1>3, <1>4, <1>5, <1>6, <1>7, <1>8, IInvAgain

\* The path of a process that has one.
LEMMA Located ==
  ASSUME IInv, NEW a \in Admins, admin[a].pc \in {"read", "reserve", "publish", "reread"}
  PROVE  /\ admin[a] # Idle /\ admin[a] \in Process(drawn, Time \ {None})
         /\ admin[a].path \in Paths /\ admin[a].command # "revoke" /\ admin[a].id \in drawn
         /\ admin[a].command \in Labelled => admin[a].target \in Bindings
<1>1. admin[a] # Idle /\ admin[a] \in Process(drawn, Time \ {None})
  BY Zenon, Runs DEF IInv
<1> QED
  BY Zenon, <1>1, IInvParts DEF Fit

\* A process that goes to another stage of its artifact.
LEMMA Moved ==
  ASSUME IInv, NEW a \in Admins, admin[a].pc \in {"reserve", "publish"},
         NEW pc \in {"publish", "reread"}
  PROVE  LET p == [admin[a] EXCEPT !.pc = pc] IN
         /\ p \in Process(drawn, Time \ {None}) /\ p.command = admin[a].command
         /\ p.target = admin[a].target /\ p.path = admin[a].path
         /\ p.id = admin[a].id /\ p.pc = pc
<1>1. admin[a] \in Process(drawn, Time \ {None})
  BY Zenon, Located
<1>2. pc \in Stages
  BY Zenon DEF Stages
<1> QED
  BY Zenon, <1>1, <1>2 DEF Process

\* A command creates its reservation, or finds something at the path.
LEMMA ReserveStep ==
  ASSUME Sensible, IInv, NEW a \in Admins, Reserve(a)
  PROVE  IInv' /\ KeepsRowsAndSecrets
<1>1. admin[a].pc = "reserve" /\ UNCHANGED <<now, tables, drawn, request, bounds>>
  BY Zenon DEF Reserve
<1>2. UNCHANGED <<now, tables, drawn, request, budget>>
  BY Zenon, <1>1 DEF bounds
<1>3. /\ admin[a] # Idle /\ admin[a].path \in Paths /\ admin[a].command # "revoke"
      /\ admin[a].id \in drawn /\ (admin[a].command \in Labelled => admin[a].target \in Bindings)
  BY Zenon, <1>1, Located
<1>4. CASE /\ files[admin[a].path] = Absent /\ Goto(a, "publish")
           /\ files' = [files EXCEPT ![admin[a].path] = Reserved]
  <2> DEFINE p == [admin[a] EXCEPT !.pc = "publish"]
  <2>1. /\ p \in Process(drawn, Time \ {None}) /\ p.command = admin[a].command
        /\ p.target = admin[a].target /\ p.path = admin[a].path
        /\ p.id = admin[a].id /\ p.pc = "publish"
    BY Zenon, <1>1, Moved
  <2>2. admin' = [admin EXCEPT ![a] = p]
    BY Zenon, <1>4, IInvParts DEF Goto
  <2> HIDE DEF p
  <2>3. admin'[a] = p /\ drawn' = drawn
    BY Zenon, <1>2, <2>2, IInvParts
  <2>4. Fit(a)'
    BY Zenon, <1>3, <2>1, <2>3 DEF Fit
  <2>5. p \in Processes /\ Reserved \in Contents(drawn)
    BY Zenon, <2>1 DEF Processes, Contents
  <2>6. \A o \in Admins \ {a} : admin[o].pc = "publish" => admin[o].path # admin[a].path
    <3>1. Absent # Reserved
      BY HoldsNothing
    <3> QED
      BY Zenon, <1>4, <3>1, IInvParts DEF Reservations
  <2> QED
    BY Zenon, <1>2, <1>3, <1>4, <2>1, <2>2, <2>4, <2>5, <2>6, WriteStep
<1>5. CASE /\ IF admin[a].command \in ArtifactCommands THEN Goto(a, "reread") ELSE Ends(a)
           /\ UNCHANGED files
  <2>1. UNCHANGED <<now, tables, files, drawn, request, budget>>
    BY Zenon, <1>2, <1>5
  <2>2. CASE Ends(a)
    <3>1. drawn' = drawn /\ UNCHANGED <<now, tables, files, request, budget>>
      BY Zenon, <2>1
    <3> QED
      BY Zenon, <2>2, <3>1, EndStep
  <2>3. CASE Goto(a, "reread")
    <3> DEFINE p == [admin[a] EXCEPT !.pc = "reread"]
    <3>1. /\ p \in Process(drawn, Time \ {None}) /\ p.command = admin[a].command
          /\ p.target = admin[a].target /\ p.path = admin[a].path
          /\ p.id = admin[a].id /\ p.pc = "reread"
      BY Zenon, <1>1, Moved
    <3>2. admin' = [admin EXCEPT ![a] = p]
      BY Zenon, <2>3, IInvParts DEF Goto
    <3> HIDE DEF p
    <3> QED
      BY Zenon, <1>3, <2>1, <3>1, <3>2, MoveStep
  <2> QED
    BY Zenon, <1>5, <2>2, <2>3
<1> QED
  BY Zenon, <1>4, <1>5 DEF Reserve

\* A command that has written, or failed to, at the path it reserved.
LEMMA WrittenStep ==
  ASSUME Sensible, IInv, NEW a \in Admins, admin[a].pc = "publish", NEW f \in Contents(drawn),
         files' = [files EXCEPT ![admin[a].path] = f],
         IF admin[a].command \in ArtifactCommands THEN Goto(a, "reread") ELSE Ends(a),
         UNCHANGED <<now, tables, drawn, request, budget>>
  PROVE  IInv' /\ KeepsRowsAndSecrets
<1>1. /\ admin[a] # Idle /\ admin[a].path \in Paths /\ admin[a].command # "revoke"
      /\ admin[a].id \in drawn /\ (admin[a].command \in Labelled => admin[a].target \in Bindings)
  BY Zenon, Located
<1>2. /\ files[admin[a].path] = Reserved
      /\ \A o \in Admins \ {a} : admin[o].pc = "publish" => admin[o].path # admin[a].path
  BY Zenon, IInvParts DEF Reservations
<1>3. PICK p \in Processes : /\ admin' = [admin EXCEPT ![a] = p] /\ p.pc # "publish"
                             /\ p # Idle => /\ p.pc = "reread" /\ p.command = admin[a].command
                                            /\ p.target = admin[a].target /\ p.path = admin[a].path
                                            /\ p.id = admin[a].id
  <2>1. CASE Ends(a)
    <3>1. Idle \in Processes /\ Idle.pc # "publish"
      BY Zenon, IdleStage DEF Processes
    <3> QED
      BY Zenon, <2>1, <3>1 DEF Ends
  <2>2. CASE Goto(a, "reread")
    <3> DEFINE p == [admin[a] EXCEPT !.pc = "reread"]
    <3>1. /\ p \in Processes /\ p.command = admin[a].command
          /\ p.target = admin[a].target /\ p.path = admin[a].path
          /\ p.id = admin[a].id /\ p.pc = "reread"
      BY Zenon, Moved DEF Processes
    <3>2. admin' = [admin EXCEPT ![a] = p]
      BY Zenon, <2>2, IInvParts DEF Goto
    <3> HIDE DEF p
    <3> QED
      BY Zenon, <3>1, <3>2
  <2> QED
    BY Zenon, <2>1, <2>2
<1>4. Fit(a)'
  <2>1. admin'[a] = p /\ drawn' = drawn
    BY Zenon, <1>3, IInvParts
  <2> QED
    BY Zenon, <1>1, <1>3, <2>1 DEF Fit
<1> QED
  BY Zenon, <1>1, <1>2, <1>3, <1>4, WriteStep

\* The secret is published.
LEMMA PublishStep ==
  ASSUME Sensible, IInv, NEW a \in Admins, Publish(a)
  PROVE  IInv' /\ KeepsRowsAndSecrets
<1> DEFINE f == Content(admin[a].command, admin[a].id)
<1>1. admin[a].pc = "publish"
  BY Zenon DEF Publish
<1>2. f \in Contents(drawn)
  <2>1. admin[a].id \in drawn
    BY Zenon, <1>1, Located
  <2> QED
    BY Zenon, <2>1 DEF Content, Contents
<1>3. /\ files' = [files EXCEPT ![admin[a].path] = f]
      /\ IF admin[a].command \in ArtifactCommands THEN Goto(a, "reread") ELSE Ends(a)
      /\ UNCHANGED <<now, tables, drawn, request, budget>>
  BY Zenon DEF Publish, bounds
<1> QED
  BY Zenon, <1>1, <1>2, <1>3, WrittenStep

\* The write fails, and the reservation is removed.
LEMMA PublishFailsStep ==
  ASSUME Sensible, IInv, NEW a \in Admins, PublishFails(a)
  PROVE  IInv' /\ KeepsRowsAndSecrets
<1>1. /\ admin[a].pc = "publish" /\ files' = [files EXCEPT ![admin[a].path] = Absent]
      /\ IF admin[a].command \in ArtifactCommands THEN Goto(a, "reread") ELSE Ends(a)
      /\ UNCHANGED <<now, tables, drawn, request, budget>>
  BY Zenon DEF PublishFails
<1>2. Absent \in Contents(drawn)
  BY Zenon DEF Contents
<1> QED
  BY Zenon, <1>1, <1>2, WrittenStep
-----------------------------------------------------------------------------
\* Steps that commit.

\* The audit columns of a row agree.
Ordered(row) ==
  /\ row.used # None => row.created <= row.used
  /\ row.revoked # None => row.created <= row.revoked /\ row.used <= row.revoked

\* What a transaction may do to the tables: rows stay, with their bindings and times, a
\* revoked row does not change, and a row that comes follows the others of its binding.
LEMMA TablesStep ==
  ASSUME Sensible, IInv, NEW id, Extends(id), files' = files, drawn' = drawn, budget' = budget,
         Rows' \subseteq drawn, \A c \in Rows' : creds'[c] \in Row /\ Ordered(creds'[c]),
         \A c \in Rows : /\ creds[c].revoked # None => creds'[c] = creds[c]
                         /\ creds'[c].used >= creds[c].used,
         id \in Rows' \ Rows =>
           /\ \A c \in Rows : creds[c].binding = creds'[id].binding => Follows(c, id)'
           /\ (\E c \in Rows : creds[c].binding = creds'[id].binding) => Succeeds(id)'
           /\ creds'[id].staged => Published(id)
           /\ bindings'[creds'[id].binding] # "absent",
         bindings' \in [Bindings -> {"absent", "live", "withdrawn"}],
         \A b \in Bindings : bindings'[b] = "absent" => bindings[b] = "absent"
  PROVE  Tables' /\ KeepsRowsAndSecrets
<1>1. Lines'
  <2>1. \A c \in Rows : creds[c].created # None
    <3>1. budget.time \in Nat
      BY Zenon, IInvParts DEF Sensible
    <3> QED
      BY Zenon, <3>1, IInvParts, RowNumbers DEF Tables
  <2> QED
    BY Zenon, <2>1, IInvParts, LinesKept DEF Tables
<1>2. Closed'
  <2>1. SUFFICES ASSUME NEW b \in Bindings, bindings'[b] = "absent", NEW c \in Rows',
                        creds'[c].binding = b
                 PROVE  FALSE
    BY Zenon DEF Closed, Occupancy
  <2>2. CASE c \in Rows
    <3>1. c \in Occupancy(b) /\ bindings[b] = "absent"
      BY Zenon, <2>1, <2>2 DEF Extends, Occupancy
    <3> QED
      BY Zenon, <3>1, IInvParts DEF Tables, Closed
  <2>3. CASE c \notin Rows
    BY Zenon, <2>1, <2>3 DEF Extends
  <2> QED
    BY Zenon, <2>2, <2>3
<1>3. AuditInOrder'
  BY Zenon DEF AuditInOrder, Ordered
<1>4. SecretKept'
  <2>1. SUFFICES ASSUME NEW c \in Rows', creds'[c].staged
                 PROVE  Published(c)
    BY Zenon DEF SecretKept, Published
  <2>2. CASE c \in Rows
    BY Zenon, <2>1, <2>2, IInvParts DEF Extends, Tables, SecretKept, Published
  <2>3. CASE c \notin Rows
    BY Zenon, <2>1, <2>3 DEF Extends
  <2> QED
    BY Zenon, <2>2, <2>3
<1>5. (\A c \in Rows : creds[c] \in Row)'
  BY Zenon DEF Row, Time
<1>6. KeepsRowsAndSecrets
  BY Zenon DEF KeepsRowsAndSecrets, Extends, Rows
<1> QED
  BY Zenon, <1>1, <1>2, <1>3, <1>4, <1>5, <1>6 DEF Tables

\* The whole step, when the processes and the requests are in order.
LEMMA CommitStep ==
  ASSUME IInv, Tables', UNCHANGED <<now, files, drawn, budget>>,
         admin' \in [Admins -> Processes], request' \in [Requests -> Authentications],
         \A x \in Admins : Alike(x) \/ (Fit(x)' /\ admin'[x].pc # "publish")
  PROVE  IInv'
<1>1. now' = now /\ files' = files /\ drawn' = drawn /\ budget' = budget
  BY Zenon
<1>2. (\A x \in Admins : Fit(x))' /\ Reservations'
  BY Zenon, <1>1, IInvParts, ProcessesKept
<1>3. (admin \in [Admins -> Processes])'
  BY Zenon, <1>1 DEF Processes, Time
<1>4. /\ (budget \in Budgets)' /\ (now \in Time \ {None})' /\ (drawn \subseteq Ids)'
      /\ (request \in [Requests -> Authentications])' /\ (files \in [Paths -> Contents(drawn)])'
  BY Zenon, <1>1, IInvParts DEF Time, Authentications
<1> QED
  BY Zenon, <1>2, <1>3, <1>4, IInvAgain

\* The processes after the commit of process a.
LEMMA Committed ==
  ASSUME IInv, NEW a \in Admins, admin[a].pc = "txn", NEW b, NEW table, Commits(a, b, table),
         drawn' = drawn
  PROVE  /\ creds' = table /\ admin' \in [Admins -> Processes]
         /\ \A x \in Admins : Alike(x) \/ (Fit(x)' /\ admin'[x].pc # "publish")
<1>1. admin[a] # Idle /\ admin[a] \in Process(drawn, Time \ {None})
  BY Zenon, Runs DEF IInv
<1>2. PICK p \in {After(a), Idle} : admin' = Outdates([admin EXCEPT ![a] = p], b)
  BY Zenon DEF Commits
<1>3. p = Idle \/ /\ p \in Process(drawn, Time \ {None}) /\ p.pc = "reserve"
                  /\ p.command = admin[a].command /\ p.command \in {"create", "rotate"}
                  /\ p.target = admin[a].target /\ p.path = admin[a].path
                  /\ p.id = admin[a].id
  <2>1. SUFFICES ASSUME admin[a].command \in {"create", "rotate"},
                        p = [admin[a] EXCEPT !.pc = "reserve"]
                 PROVE  /\ p \in Process(drawn, Time \ {None}) /\ p.pc = "reserve"
                        /\ p.command = admin[a].command
                        /\ p.target = admin[a].target /\ p.path = admin[a].path
                        /\ p.id = admin[a].id
    BY Zenon, <1>2 DEF After
  <2>2. "reserve" \in Stages
    BY Zenon DEF Stages
  <2> QED
    BY Zenon, <1>1, <2>1, <2>2 DEF Process
<1> DEFINE procs == [admin EXCEPT ![a] = p]
<1>4. procs \in [Admins -> Processes] /\ procs[a] = p /\ \A x \in Admins \ {a} : procs[x] = admin[x]
  BY Zenon, <1>3, IInvParts DEF Processes
<1>5. admin' = Outdates(procs, b)
  BY Zenon, <1>2
<1> HIDE DEF procs
<1>6. /\ admin' \in [Admins -> Processes]
      /\ \A x \in Admins :
           \/ admin'[x] = procs[x]
           \/ /\ procs[x] # Idle /\ admin'[x] # Idle /\ admin'[x].pc = procs[x].pc
              /\ admin'[x].command = procs[x].command /\ admin'[x].path = procs[x].path
              /\ admin'[x].target = procs[x].target /\ admin'[x].id = procs[x].id
  BY <1>4, <1>5, Outdated
<1>7. ASSUME NEW x \in Admins \ {a}
      PROVE  Alike(x)
  BY Zenon, <1>4, <1>6 DEF Alike
<1>8. Fit(a)' /\ admin'[a].pc # "publish"
  <2>1. CASE p = Idle
    <3>1. admin'[a] = Idle
      BY Zenon, <1>4, <1>6, <2>1
    <3> QED
      BY Zenon, <3>1, IdleStage DEF Fit
  <2>2. CASE p # Idle
    <3>1. /\ admin'[a].pc = "reserve" /\ admin'[a].command = p.command
          /\ admin'[a].path = admin[a].path /\ admin'[a].id = admin[a].id
          /\ admin'[a].target = admin[a].target
      BY Zenon, <1>3, <1>4, <1>6, <2>2
    <3>2. p.command # "revoke" /\ p.command \notin ArtifactCommands
      BY <1>3, <2>2 DEF ArtifactCommands
    <3>3. /\ admin[a].path \in Paths /\ admin[a].id \in drawn
          /\ p.command \in Labelled => admin[a].target \in Bindings
      BY Zenon, <1>1, <1>3, <2>2, <3>2, IInvParts DEF Fit
    <3> QED
      BY Zenon, <3>1, <3>2, <3>3 DEF Fit
  <2> QED
    BY Zenon, <2>1, <2>2
<1>9. creds' = table
  BY Zenon DEF Commits
<1> QED
  BY Zenon, <1>6, <1>7, <1>8, <1>9

\* A process in its transaction has an id and times that are good for a row.
LEMMA GoodRow ==
  ASSUME Sensible, IInv, NEW a \in Admins, admin[a].pc = "txn", admin[a].command # "revoke",
         NEW b \in Bindings
  PROVE  LET row == NewRow(a, b) IN
         /\ admin[a].id \in drawn /\ row \in Row /\ Ordered(row) /\ row.binding = b
         /\ row.created = admin[a].stamp /\ row.revoked = None
         /\ row.staged => Published(admin[a].id)
<1>1. admin[a] # Idle /\ admin[a] \in Process(drawn, Time \ {None})
  BY Zenon, Runs DEF IInv
<1>2. admin[a].stamp \in Time \ {None} /\ admin[a].expiry \in Nat
  BY Zenon, <1>1 DEF Process
<1>3. None \in Time
  <2>1. budget.time \in Nat
    BY Zenon, IInvParts DEF Sensible
  <2> QED
    BY <2>1 DEF Time, None
<1> DEFINE row == NewRow(a, b)
<1>4. row \in Row
  BY <1>2, <1>3 DEF NewRow, Row
<1>5. /\ row.binding = b /\ row.created = admin[a].stamp /\ row.used = None /\ row.revoked = None
      /\ row.staged = (admin[a].command \in ArtifactCommands)
  BY DEF NewRow
<1> HIDE DEF row
<1>6. Ordered(row)
  BY Zenon, <1>5 DEF Ordered
<1>7. admin[a].id \in drawn /\ (row.staged => Published(admin[a].id))
  BY Zenon, <1>1, <1>5, IInvParts DEF Fit
<1> QED
  BY Zenon, <1>4, <1>5, <1>6, <1>7 DEF row

\* The rows there are.
LEMMA RowFacts ==
  ASSUME Sensible, IInv
  PROVE  /\ budget.time \in Nat
         /\ \A c \in Rows :
              /\ creds[c] \in Row /\ Ordered(creds[c]) /\ c \in drawn
              /\ creds[c].binding \in Bindings
              /\ creds[c].created \in Nat /\ creds[c].used \in Nat /\ creds[c].revoked \in Nat
              /\ creds[c].expires \in Nat
<1>1. budget.time \in Nat
  BY Zenon, IInvParts DEF Sensible
<1>2. ASSUME NEW c \in Rows
      PROVE  creds[c] \in Row /\ Ordered(creds[c]) /\ c \in drawn
  BY Zenon, IInvParts DEF Tables, AuditInOrder, Ordered
<1>3. ASSUME NEW c \in Rows
      PROVE  creds[c].binding \in Bindings
  BY Zenon, <1>2 DEF Row
<1> QED
  BY Zenon, <1>1, <1>2, <1>3, RowNumbers

\* A first credential is inserted for a binding that has none.
LEMMA InsertTables ==
  ASSUME Sensible, IInv, NEW a \in Admins, admin[a].pc = "txn", admin[a].command # "revoke",
         NEW b \in Bindings, Occupancy(b) = {}, creds' = WithRow(a, b),
         files' = files, drawn' = drawn, budget' = budget,
         bindings' \in [Bindings -> {"absent", "live", "withdrawn"}], bindings'[b] # "absent",
         \A x \in Bindings : bindings'[x] = "absent" => bindings[x] = "absent"
  PROVE  Tables' /\ KeepsRowsAndSecrets
<1>0. PICK id : id = admin[a].id
  BY Zenon
<1> DEFINE row == NewRow(a, b)
<1>1. /\ id \in drawn /\ row \in Row /\ Ordered(row) /\ row.binding = b
      /\ row.staged => Published(id)
  BY Zenon, <1>0, GoodRow
<1>2. creds' = Inserted(creds, id, row)
  BY Zenon, <1>0 DEF WithRow
<1> HIDE DEF row
<1>3. /\ Rows' = Rows \cup {id} /\ \A c \in Rows : creds'[c] = creds[c]
      /\ id \notin Rows => creds'[id] = row
  <2>1. /\ DOMAIN Inserted(creds, id, row) = DOMAIN creds \cup {id}
        /\ \A c \in DOMAIN creds : Inserted(creds, id, row)[c] = creds[c]
        /\ id \notin DOMAIN creds => Inserted(creds, id, row)[id] = row
    BY Zenon, InsertedRows
  <2> QED
    BY Zenon, <1>2, <2>1 DEF Rows
<1>4. Extends(id)
  BY Zenon, <1>3 DEF Extends
<1>5. Rows' \subseteq drawn
  BY Zenon, <1>1, <1>3, IInvParts DEF Tables
<1>6. \A c \in Rows' : creds'[c] \in Row /\ Ordered(creds'[c])
  BY Zenon, <1>1, <1>3, RowFacts
<1>7. \A c \in Rows : creds'[c].used >= creds[c].used
  <2>1. \A c \in Rows : creds[c].used \in Nat
    BY Zenon, RowFacts
  <2> QED
    BY <1>3, <2>1
<1>8. id \in Rows' \ Rows =>
        /\ creds'[id].binding = b /\ \A c \in Rows : creds[c].binding # creds'[id].binding
        /\ creds'[id].staged => Published(id)
  BY ZenonT(60), <1>1, <1>3 DEF Occupancy
<1> QED
  BY Zenon, <1>3, <1>4, <1>5, <1>6, <1>7, <1>8, TablesStep

\* A row that is not revoked yet is, and nothing else changes.
LEMMA RevokeTables ==
  ASSUME Sensible, IInv, NEW c \in Rows, creds[c].revoked = None, NEW stamp \in Time \ {None},
         MayRevoke(c, stamp), creds' = [creds EXCEPT ![c] = RevokedAt(c, stamp)],
         files' = files, drawn' = drawn, budget' = budget, bindings' = bindings
  PROVE  Tables' /\ KeepsRowsAndSecrets
<1> DEFINE row == RevokedAt(c, stamp)
<1>1. /\ row \in Row /\ row.revoked = stamp /\ row.used = creds[c].used
      /\ row.created = creds[c].created /\ row.binding = creds[c].binding
      /\ row.staged = creds[c].staged
      /\ creds[c].created <= stamp /\ creds[c].used <= stamp
  BY Zenon, RowFacts, RevocationInOrder
<1>2. Rows' = Rows /\ creds'[c] = row /\ \A d \in Rows \ {c} : creds'[d] = creds[d]
  BY Zenon DEF Rows
<1> HIDE DEF row
<1>3. Extends(c)
  BY Zenon, <1>1, <1>2 DEF Extends
<1>4. \A d \in Rows' : creds'[d] \in Row /\ Ordered(creds'[d])
  BY ZenonT(60), <1>1, <1>2, RowFacts DEF Ordered
<1>5. \A d \in Rows : creds'[d].used >= creds[d].used
  <2>1. \A d \in Rows : creds'[d].used = creds[d].used /\ creds[d].used \in Nat
    BY Zenon, <1>1, <1>2, RowFacts
  <2> QED
    BY <2>1
<1>6. \A d \in Rows : creds[d].revoked # None => creds'[d] = creds[d]
  BY Zenon, <1>2
<1>7. Rows' \subseteq drawn /\ c \notin Rows' \ Rows
  BY Zenon, <1>2, RowFacts
<1>8. bindings' \in [Bindings -> {"absent", "live", "withdrawn"}]
  BY Zenon, IInvParts DEF Tables
<1> QED
  BY Zenon, <1>3, <1>4, <1>5, <1>6, <1>7, <1>8, TablesStep

\* An active row is revoked, and a row follows it.
LEMMA ReplaceTables ==
  ASSUME Sensible, IInv, NEW a \in Admins, admin[a].pc = "txn", admin[a].command # "revoke",
         NEW c \in Rows, creds[c].revoked = None, MayRevoke(c, admin[a].stamp),
         creds' = Replaced(a, c),
         files' = files, drawn' = drawn, budget' = budget, bindings' = bindings
  PROVE  Tables' /\ KeepsRowsAndSecrets
<1>0. PICK id, stamp : id = admin[a].id /\ stamp = admin[a].stamp
  BY Zenon
<1> DEFINE closed == RevokedAt(c, stamp)
           row == NewRow(a, creds[c].binding)
           table == [creds EXCEPT ![c] = closed]
<1>1. stamp \in Time \ {None}
  <2>1. admin[a] \in Process(drawn, Time \ {None})
    BY Zenon, Runs DEF IInv
  <2> QED
    BY Zenon, <1>0, <2>1 DEF Process
<1>2. /\ closed \in Row /\ closed.revoked = stamp /\ closed.used = creds[c].used
      /\ closed.created = creds[c].created /\ closed.binding = creds[c].binding
      /\ closed.staged = creds[c].staged
      /\ creds[c].created <= stamp /\ creds[c].used <= stamp
  BY Zenon, <1>0, <1>1, RowFacts, RevocationInOrder
<1>3. /\ id \in drawn /\ row \in Row /\ Ordered(row) /\ row.binding = creds[c].binding
      /\ row.created = stamp /\ (row.staged => Published(id))
  BY Zenon, <1>0, RowFacts, GoodRow
<1>4. creds' = Inserted(table, id, row)
  BY Zenon, <1>0 DEF Replaced
<1>5. DOMAIN table = Rows /\ table[c] = closed /\ \A d \in Rows \ {c} : table[d] = creds[d]
  BY Zenon DEF Rows
<1> HIDE DEF closed, row, table
<1>6. /\ Rows' = Rows \cup {id} /\ \A d \in Rows : creds'[d] = table[d]
      /\ id \notin Rows => creds'[id] = row
  <2>1. /\ DOMAIN Inserted(table, id, row) = DOMAIN table \cup {id}
        /\ \A d \in DOMAIN table : Inserted(table, id, row)[d] = table[d]
        /\ id \notin DOMAIN table => Inserted(table, id, row)[id] = row
    BY Zenon, InsertedRows
  <2> QED
    BY Zenon, <1>4, <1>5, <2>1 DEF Rows
<1>7. creds'[c] = closed /\ \A d \in Rows \ {c} : creds'[d] = creds[d]
  BY Zenon, <1>5, <1>6
<1>8. Extends(id)
  BY Zenon, <1>2, <1>6, <1>7 DEF Extends
<1>9. \A d \in Rows' : creds'[d] \in Row /\ Ordered(creds'[d])
  <2>1. Ordered(closed)
    BY Zenon, <1>2, RowFacts DEF Ordered
  <2> QED
    BY Zenon, <1>2, <1>3, <1>6, <1>7, <2>1, RowFacts
<1>10. \A d \in Rows : creds'[d].used >= creds[d].used
  <2>1. \A d \in Rows : creds'[d].used = creds[d].used /\ creds[d].used \in Nat
    BY Zenon, <1>2, <1>7, RowFacts
  <2> QED
    BY <2>1
<1>11. \A d \in Rows : creds[d].revoked # None => creds'[d] = creds[d]
  BY Zenon, <1>7
<1>12. Rows' \subseteq drawn
  BY Zenon, <1>3, <1>6, RowFacts
<1>13. ASSUME id \in Rows' \ Rows
       PROVE  /\ \A d \in Rows : creds[d].binding = creds'[id].binding => Follows(d, id)'
              /\ Succeeds(id)'
              /\ creds'[id].staged => Published(id)
              /\ bindings'[creds'[id].binding] # "absent"
  <2>1. creds'[id] = row /\ id # c
    BY Zenon, <1>6, <1>13
  <2>2. Succeeds(id)'
    BY Zenon, <1>2, <1>3, <1>6, <1>7, <2>1 DEF Succeeds
  <2>3. bindings'[creds'[id].binding] # "absent"
    <3>1. c \in Occupancy(creds[c].binding) /\ creds[c].binding \in Bindings
      BY Zenon, RowFacts DEF Occupancy
    <3> QED
      BY Zenon, <1>3, <2>1, <3>1, IInvParts DEF Tables, Closed
  <2>4. ASSUME NEW d \in Rows, creds[d].binding = creds[c].binding
        PROVE  creds'[d].revoked # None /\ creds'[d].revoked <= stamp
    <3>1. stamp \in Nat /\ stamp # None
      BY <1>1, RowFacts DEF Time
    <3>2. CASE d = c
      BY <1>2, <1>7, <3>1, <3>2
    <3>3. CASE d # c
      <4>1. Follows(d, c)
        BY Zenon, <2>4, <3>3, IInvParts DEF Tables, Lines, Follows
      <4>2. /\ creds[d].revoked # None /\ creds[d].revoked <= creds[c].created
            /\ creds[d].revoked \in Nat /\ creds[c].created \in Nat
        BY Zenon, <4>1, RowFacts DEF Follows
      <4>3. creds'[d].revoked = creds[d].revoked
        BY Zenon, <1>7, <3>3
      <4> QED
        BY <1>2, <3>1, <4>2, <4>3
    <3> QED
      BY Zenon, <3>2, <3>3
  <2>5. \A d \in Rows : creds[d].binding = creds'[id].binding => Follows(d, id)'
    BY Zenon, <1>3, <2>1, <2>4 DEF Follows
  <2> QED
    BY Zenon, <1>3, <2>1, <2>2, <2>3, <2>5
<1>14. bindings' \in [Bindings -> {"absent", "live", "withdrawn"}]
  BY Zenon, IInvParts DEF Tables
<1> QED
  BY Zenon, <1>8, <1>9, <1>10, <1>11, <1>12, <1>13, <1>14, TablesStep

\* The last use of a row that is not revoked moves on.
LEMMA UseTables ==
  ASSUME Sensible, IInv, NEW c \in Rows, creds[c].revoked = None,
         creds' = [creds EXCEPT ![c].used = AuditAt(c)],
         Lifecycle(creds[c], [creds[c] EXCEPT !.used = AuditAt(c)]),
         files' = files, drawn' = drawn, budget' = budget, bindings' = bindings
  PROVE  Tables' /\ KeepsRowsAndSecrets
<1>0. PICK at : at = AuditAt(c)
  BY Zenon
<1> DEFINE row == [creds[c] EXCEPT !.used = at]
<1>1. /\ now \in Nat /\ now # None /\ now \in Time
      /\ creds[c].created \in Nat /\ creds[c].used \in Nat /\ creds[c].used \in Time
  <2>1. now \in Time \ {None} /\ budget.time \in Nat /\ creds[c] \in Row
    BY Zenon, IInvParts, RowFacts
  <2> QED
    BY <2>1 DEF Row, Time
<1>2. at \in Time /\ at # None /\ at >= creds[c].used
  BY <1>0, <1>1 DEF AuditAt, None
<1>3. /\ row \in Row /\ row.used = at /\ row.revoked = None
      /\ row.created = creds[c].created /\ row.binding = creds[c].binding
      /\ row.staged = creds[c].staged
  <2>1. creds[c] \in Row
    BY Zenon, RowFacts
  <2> QED
    BY Zenon, <1>2, <2>1 DEF Row
<1>4. Ordered(row)
  <2>1. CASE row.used = creds[c].used
    BY Zenon, <1>3, <2>1, RowFacts DEF Ordered
  <2>2. CASE row.used # creds[c].used
    <3>1. row.used >= row.created
      BY Zenon, <1>0, <1>2, <1>3, <2>2 DEF Lifecycle
    <3>2. row.used \in Nat /\ row.created \in Nat
      BY <1>1, <1>2, <1>3, RowFacts DEF Time
    <3>3. row.created <= row.used
      BY <3>1, <3>2
    <3> QED
      BY Zenon, <1>3, <3>3 DEF Ordered
  <2> QED
    BY Zenon, <2>1, <2>2
<1>5. Rows' = Rows /\ creds'[c] = row /\ \A d \in Rows \ {c} : creds'[d] = creds[d]
  BY Zenon, <1>0 DEF Rows
<1> HIDE DEF row
<1>6. Extends(c)
  BY Zenon, <1>3, <1>5 DEF Extends
<1>7. \A d \in Rows' : creds'[d] \in Row /\ Ordered(creds'[d])
  BY Zenon, <1>3, <1>4, <1>5, RowFacts
<1>8. \A d \in Rows : creds'[d].used >= creds[d].used
  <2>1. \A d \in Rows : creds[d].used \in Nat
    BY Zenon, RowFacts
  <2>2. creds'[c].used = at
    BY Zenon, <1>3, <1>5
  <2>3. \A d \in Rows \ {c} : creds'[d].used = creds[d].used
    BY Zenon, <1>5
  <2> QED
    BY <1>2, <2>1, <2>2, <2>3
<1>9. \A d \in Rows : creds[d].revoked # None => creds'[d] = creds[d]
  BY Zenon, <1>5
<1>10. Rows' \subseteq drawn /\ c \notin Rows' \ Rows
  BY Zenon, <1>5, RowFacts
<1>11. bindings' \in [Bindings -> {"absent", "live", "withdrawn"}]
  BY Zenon, IInvParts DEF Tables
<1> QED
  BY Zenon, <1>6, <1>7, <1>8, <1>9, <1>10, <1>11, TablesStep

\* A transaction that commits what it may.
LEMMA CommitsStep ==
  ASSUME Sensible, IInv, NEW a \in Admins, admin[a].pc = "txn", NEW b, NEW table,
         Commits(a, b, table), Tables', KeepsRowsAndSecrets,
         UNCHANGED <<now, files, drawn, request, budget, commands>>
  PROVE  IInv' /\ KeepsRowsAndSecrets
<1>1. drawn' = drawn /\ request' = request /\ UNCHANGED <<now, files, drawn, budget>>
  BY Zenon
<1>2. /\ admin' \in [Admins -> Processes]
      /\ \A x \in Admins : Alike(x) \/ (Fit(x)' /\ admin'[x].pc # "publish")
  BY Zenon, <1>1, Committed
<1>3. request' \in [Requests -> Authentications]
  BY Zenon, <1>1, IInvParts
<1> QED
  BY Zenon, <1>1, <1>2, <1>3, CommitStep

\* A transaction that loads or refuses ends its command.
LEMMA LoadsStep ==
  ASSUME Sensible, IInv, NEW a \in Admins, Loads(a) \/ Refuses(a), UNCHANGED bindings,
         UNCHANGED <<now, files, drawn, request, budget, commands>>
  PROVE  IInv' /\ KeepsRowsAndSecrets
<1>1. Ends(a) /\ drawn' = drawn /\ UNCHANGED <<now, tables, files, request, budget>>
  BY Zenon DEF Loads, Refuses, tables
<1> QED
  BY Zenon, <1>1, EndStep

\* A label gets its identity rows and its first credential.
LEMMA FirstStep ==
  ASSUME Sensible, IInv, NEW a \in Admins, admin[a].pc = "txn", admin[a].command # "revoke",
         NEW b \in Bindings, bindings[b] = "absent", bindings' = [bindings EXCEPT ![b] = "live"],
         Commits(a, b, WithRow(a, b)), UNCHANGED <<now, files, drawn, request, budget, commands>>
  PROVE  IInv' /\ KeepsRowsAndSecrets
<1>1. creds' = WithRow(a, b) /\ files' = files /\ drawn' = drawn /\ budget' = budget
  BY Zenon DEF Commits
<1>2. Occupancy(b) = {}
  BY Zenon, IInvParts DEF Tables, Closed
<1>3. /\ bindings' \in [Bindings -> {"absent", "live", "withdrawn"}] /\ bindings'[b] # "absent"
      /\ \A x \in Bindings : bindings'[x] = "absent" => bindings[x] = "absent"
  BY Zenon, IInvParts DEF Tables
<1>4. Tables' /\ KeepsRowsAndSecrets
  BY Zenon, <1>1, <1>2, <1>3, InsertTables
<1> QED
  BY Zenon, <1>4, CommitsStep

\* A row is replaced.
LEMMA ReplacedStep ==
  ASSUME Sensible, IInv, NEW a \in Admins, admin[a].pc = "txn", admin[a].command # "revoke",
         NEW c \in Rows, creds[c].revoked = None, MayRevoke(c, admin[a].stamp),
         Commits(a, creds[c].binding, Replaced(a, c)), UNCHANGED bindings,
         UNCHANGED <<now, files, drawn, request, budget, commands>>
  PROVE  IInv' /\ KeepsRowsAndSecrets
<1>1. creds' = Replaced(a, c) /\ files' = files /\ drawn' = drawn /\ budget' = budget
  BY Zenon DEF Commits
<1>2. Tables' /\ KeepsRowsAndSecrets
  BY Zenon, <1>1, ReplaceTables
<1> QED
  BY Zenon, <1>2, CommitsStep

\* The label of a command that names one.
LEMMA LabelOf ==
  ASSUME IInv, NEW a \in Admins, admin[a].pc = "txn", admin[a].command \in Labelled
  PROVE  admin[a].target \in Bindings
<1>1. admin[a] # Idle
  BY Zenon, Runs DEF IInv
<1> QED
  BY Zenon, <1>1, IInvParts DEF Fit

\* create_codex_installation.
LEMMA CreateCodexStep ==
  ASSUME Sensible, IInv, NEW a \in Admins, CreateCodex(a)
  PROVE  IInv' /\ KeepsRowsAndSecrets
<1>1. /\ admin[a].pc = "txn" /\ admin[a].command # "revoke"
      /\ UNCHANGED <<now, files, drawn, request, budget, commands>>
  BY Zenon DEF CreateCodex, InTransaction
<1>2. admin[a].target \in Bindings
  BY Zenon, <1>1, LabelOf DEF CreateCodex, InTransaction, Labelled
<1> QED
  BY Zenon, <1>1, <1>2, FirstStep, LoadsStep DEF CreateCodex

\* create_or_load_secure_tunnel_credential.
LEMMA CreateOrLoadTunnelStep ==
  ASSUME Sensible, IInv, NEW a \in Admins, CreateOrLoadTunnel(a)
  PROVE  IInv' /\ KeepsRowsAndSecrets
<1>1. /\ admin[a].pc = "txn" /\ admin[a].command # "revoke"
      /\ UNCHANGED <<now, files, drawn, request, budget, commands>>
  BY Zenon DEF CreateOrLoadTunnel, InTransaction
<1>2. admin[a].target \in Bindings
  BY Zenon, <1>1, LabelOf DEF CreateOrLoadTunnel, InTransaction, Labelled
<1> QED
  BY Zenon, <1>1, <1>2, FirstStep, LoadsStep DEF CreateOrLoadTunnel

\* revoke_bearer_credential.
LEMMA RevokeBearerStep ==
  ASSUME Sensible, IInv, NEW a \in Admins, RevokeBearer(a)
  PROVE  IInv' /\ KeepsRowsAndSecrets
<1>1. /\ admin[a].pc = "txn" /\ UNCHANGED bindings
      /\ UNCHANGED <<now, files, drawn, request, budget, commands>>
  BY Zenon DEF RevokeBearer, InTransaction
<1>2. CASE Loads(a) \/ Refuses(a)
  BY Zenon, <1>1, <1>2, LoadsStep
<1>3. ASSUME NEW c, c = admin[a].target, c \in Rows, creds[c].revoked = None,
             MayRevoke(c, admin[a].stamp),
             Commits(a, creds[c].binding, [creds EXCEPT ![c] = RevokedAt(c, admin[a].stamp)])
      PROVE  IInv' /\ KeepsRowsAndSecrets
  <2>1. admin[a].stamp \in Time \ {None}
    <3>1. admin[a] \in Process(drawn, Time \ {None})
      BY Zenon, <1>1, Runs DEF IInv
    <3> QED
      BY Zenon, <3>1 DEF Process
  <2>2. /\ creds' = [creds EXCEPT ![c] = RevokedAt(c, admin[a].stamp)]
        /\ files' = files /\ drawn' = drawn /\ budget' = budget
    BY Zenon, <1>1, <1>3 DEF Commits
  <2>3. Tables' /\ KeepsRowsAndSecrets
    BY Zenon, <1>1, <1>3, <2>1, <2>2, RevokeTables
  <2> QED
    BY Zenon, <1>1, <1>3, <2>3, CommitsStep
<1> QED
  BY Zenon, <1>2, <1>3 DEF RevokeBearer

\* rotate_bearer_credential.
LEMMA RotateBearerStep ==
  ASSUME Sensible, IInv, NEW a \in Admins, RotateBearer(a)
  PROVE  IInv' /\ KeepsRowsAndSecrets
<1>1. /\ admin[a].pc = "txn" /\ admin[a].command # "revoke" /\ UNCHANGED bindings
      /\ UNCHANGED <<now, files, drawn, request, budget, commands>>
  BY Zenon DEF RotateBearer, InTransaction
<1> QED
  BY Zenon, <1>1, ReplacedStep, LoadsStep DEF RotateBearer

\* rotate_or_load_secure_tunnel_credential.
LEMMA RotateOrLoadTunnelStep ==
  ASSUME Sensible, IInv, NEW a \in Admins, RotateOrLoadTunnel(a)
  PROVE  IInv' /\ KeepsRowsAndSecrets
<1>1. /\ admin[a].pc = "txn" /\ admin[a].command # "revoke" /\ UNCHANGED bindings
      /\ UNCHANGED <<now, files, drawn, request, budget, commands>>
  BY Zenon DEF RotateOrLoadTunnel, InTransaction
<1>2. CASE Loads(a) \/ Refuses(a)
  BY Zenon, <1>1, <1>2, LoadsStep
<1>3. CASE \E c \in Rows : /\ creds[c].revoked = None /\ MayRevoke(c, admin[a].stamp)
                           /\ Commits(a, creds[c].binding, Replaced(a, c))
  BY Zenon, <1>1, <1>3, ReplacedStep
<1> QED
  BY Zenon, <1>2, <1>3 DEF RotateOrLoadTunnel, RotationState

\* reissue_secure_tunnel_credential.
LEMMA ReissueTunnelStep ==
  ASSUME Sensible, IInv, NEW a \in Admins, ReissueTunnel(a)
  PROVE  IInv' /\ KeepsRowsAndSecrets
<1>1. /\ admin[a].pc = "txn" /\ admin[a].command # "revoke" /\ UNCHANGED bindings
      /\ UNCHANGED <<now, files, drawn, request, budget, commands>>
  BY Zenon DEF ReissueTunnel, InTransaction
<1>2. admin[a].target \in Bindings
  BY Zenon, <1>1, LabelOf DEF ReissueTunnel, InTransaction, Labelled
<1>3. CASE Loads(a) \/ Refuses(a)
  BY Zenon, <1>1, <1>3, LoadsStep
<1>4. ASSUME NEW b, b = admin[a].target, Hole(b), bindings[b] = "live", Commits(a, b, WithRow(a, b))
      PROVE  IInv' /\ KeepsRowsAndSecrets
  <2>1. creds' = WithRow(a, b) /\ files' = files /\ drawn' = drawn /\ budget' = budget
    BY Zenon, <1>1, <1>4 DEF Commits
  <2>2. /\ bindings' \in [Bindings -> {"absent", "live", "withdrawn"}] /\ bindings'[b] # "absent"
        /\ \A x \in Bindings : bindings'[x] = "absent" => bindings[x] = "absent"
    BY Zenon, <1>1, <1>4, <1>2, IInvParts DEF Tables
  <2>3. Tables' /\ KeepsRowsAndSecrets
    BY Zenon, <1>1, <1>4, <1>2, <2>1, <2>2, InsertTables DEF Hole
  <2> QED
    BY Zenon, <1>1, <1>4, <2>3, CommitsStep
<1> QED
  BY Zenon, <1>3, <1>4 DEF ReissueTunnel
-----------------------------------------------------------------------------
\* Requests and the surroundings.

\* A step of the requests alone.
LEMMA RequestStep ==
  ASSUME Sensible, IInv, request' \in [Requests -> Authentications],
         UNCHANGED <<now, tables, files, drawn, admin, bounds>>
  PROVE  IInv' /\ KeepsRowsAndSecrets
<1>1. /\ now' = now /\ creds' = creds /\ bindings' = bindings /\ files' = files /\ drawn' = drawn
      /\ admin' = admin /\ budget' = budget
  BY Zenon DEF tables, bounds
<1>2. Tables' /\ KeepsRowsAndSecrets
  BY Zenon, <1>1, IInvParts, TablesKept
<1>3. admin' \in [Admins -> Processes] /\ \A x \in Admins : Alike(x)
  BY Zenon, <1>1, IInvParts DEF Alike
<1>4. UNCHANGED <<now, files, drawn, budget>>
  BY Zenon, <1>1
<1> QED
  BY Zenon, <1>2, <1>3, <1>4, CommitStep

\* A request idle again, or verified, has its type.
LEMMA RequestKept ==
  ASSUME IInv, NEW q \in Requests, NEW r \in Authentications
  PROVE  [request EXCEPT ![q] = r] \in [Requests -> Authentications]
BY Zenon, IInvParts

\* A token is shown to a listener.
LEMMA PresentStep ==
  ASSUME Sensible, IInv, NEW q \in Requests, PresentDirect(q) \/ PresentTunnel(q)
  PROVE  IInv' /\ KeepsRowsAndSecrets
<1>1. UNCHANGED <<now, tables, files, drawn, admin, bounds>>
  BY Zenon DEF PresentDirect, PresentTunnel
<1>2. PICK p \in Paths, b \in Tunnels \cup {NoTunnel} :
        /\ Usable(files[p].id)
        /\ request' = [request EXCEPT ![q] = Verified(files[p].id, b)]
  BY Zenon DEF PresentDirect, PresentTunnel
<1>3. files[p].id \in Ids
  BY Zenon, <1>2, IInvParts, RowFacts DEF Usable
<1>4. Verified(files[p].id, b) \in Authentications
  BY Zenon, <1>3 DEF Verified, Authentications
<1> QED
  BY Zenon, <1>1, <1>2, <1>4, RequestKept, RequestStep

\* A response ends its request.
LEMMA RespondStep ==
  ASSUME Sensible, IInv, NEW q \in Requests, Respond(q)
  PROVE  IInv' /\ KeepsRowsAndSecrets
<1>1. UNCHANGED <<now, tables, files, drawn, admin, bounds>> /\ request' = [request EXCEPT ![q] = Idle]
  BY Zenon DEF Respond
<1>2. Idle \in Authentications
  BY Zenon DEF Authentications
<1> QED
  BY Zenon, <1>1, <1>2, RequestKept, RequestStep

\* record_successful_use: the use is recorded, or the request refused.
LEMMA RecordUseStep ==
  ASSUME Sensible, IInv, NEW q \in Requests, RecordUse(q)
  PROVE  IInv' /\ KeepsRowsAndSecrets
<1>0. PICK c : c = request[q].id
  BY Zenon
<1> DEFINE used == [creds EXCEPT ![c].used = AuditAt(c)]
<1>1. request[q].pc = "verified" /\ UNCHANGED <<now, bindings, files, drawn, bounds>>
  BY Zenon DEF RecordUse
<1>2. CASE request' = [request EXCEPT ![q] = Idle] /\ UNCHANGED <<creds, admin>>
  <2>1. UNCHANGED <<now, tables, files, drawn, admin, bounds>>
    BY Zenon, <1>1, <1>2 DEF tables
  <2>2. Idle \in Authentications
    BY Zenon DEF Authentications
  <2> QED
    BY Zenon, <1>2, <2>1, <2>2, RequestKept, RequestStep
<1>3. CASE /\ StillActive(q) /\ Lifecycle(creds[c], used[c]) /\ creds' = used
           /\ admin' = IF used = creds THEN admin ELSE Outdates(admin, creds[c].binding)
           /\ request' = [request EXCEPT ![q] =
                [pc |-> "served", id |-> c, authority |-> Principals(q)]]
  <2>1. c \in Rows /\ creds[c].revoked = None
    BY Zenon, <1>0, <1>3 DEF StillActive, DirectActive, TunnelActive, Usable
  <2>2. used[c] = [creds[c] EXCEPT !.used = AuditAt(c)]
    BY Zenon, <2>1 DEF Rows
  <2>3. files' = files /\ drawn' = drawn /\ budget' = budget /\ bindings' = bindings
    BY Zenon, <1>1 DEF bounds
  <2>4. Tables' /\ KeepsRowsAndSecrets
    BY Zenon, <1>3, <2>1, <2>2, <2>3, UseTables
  <2>5. /\ admin' \in [Admins -> Processes] /\ \A x \in Admins : Alike(x)
    <3>1. CASE admin' = admin
      BY Zenon, <3>1, IInvParts DEF Alike
    <3>2. CASE admin' = Outdates(admin, creds[c].binding)
      <4>1. admin \in [Admins -> Processes]
        BY Zenon, IInvParts
      <4> QED
        BY <3>2, <4>1, Outdated DEF Alike
    <3> QED
      BY Zenon, <1>3, <3>1, <3>2
  <2>6. request' \in [Requests -> Authentications]
    <3>1. c \in Ids
      BY Zenon, <2>1, IInvParts, RowFacts
    <3>2. Principals(q) \in SUBSET {"command", "query"}
      BY Zenon DEF Principals, DirectPrincipals, TunnelPrincipals
    <3>3. [pc |-> "served", id |-> c, authority |-> Principals(q)] \in Authentications
      BY Zenon, <3>1, <3>2 DEF Authentications
    <3> QED
      BY Zenon, <1>3, <3>3, RequestKept
  <2>7. UNCHANGED <<now, files, drawn, budget>>
    BY Zenon, <1>1 DEF bounds
  <2> QED
    BY Zenon, <2>4, <2>5, <2>6, <2>7, CommitStep
<1> QED
  BY Zenon, <1>0, <1>2, <1>3 DEF RecordUse

\* Identity rows are withdrawn.
LEMMA WithdrawStep ==
  ASSUME Sensible, IInv, NEW b \in Bindings, Withdraw(b)
  PROVE  IInv' /\ KeepsRowsAndSecrets
<1>1. /\ creds' = creds /\ files' = files /\ drawn' = drawn /\ budget' = budget
      /\ request' = request /\ bindings' = [bindings EXCEPT ![b] = "withdrawn"]
      /\ admin' = Outdates(admin, b) /\ UNCHANGED <<now, files, drawn, budget>>
  BY Zenon DEF Withdraw
<1>2. /\ bindings' \in [Bindings -> {"absent", "live", "withdrawn"}]
      /\ \A x \in Bindings : bindings'[x] = "absent" => bindings[x] = "absent"
  BY Zenon, <1>1, IInvParts DEF Tables
<1>3. Rows' = Rows
  BY Zenon, <1>1 DEF Rows
<1>4. Extends(NoId)
  BY Zenon, <1>1, <1>3 DEF Extends
<1>5. NoId \notin Rows' \ Rows /\ Rows' \subseteq drawn
  BY Zenon, <1>3, RowFacts
<1>6. \A c \in Rows' : creds'[c] \in Row /\ Ordered(creds'[c])
  BY Zenon, <1>1, <1>3, RowFacts
<1>7. \A c \in Rows : creds'[c] = creds[c] /\ creds'[c].used >= creds[c].used
  <2>1. \A c \in Rows : creds[c].used \in Nat
    BY Zenon, RowFacts
  <2> QED
    BY <1>1, <2>1
<1>8. Tables' /\ KeepsRowsAndSecrets
  BY Zenon, <1>1, <1>2, <1>4, <1>5, <1>6, <1>7, TablesStep
<1>9. admin' \in [Admins -> Processes] /\ \A x \in Admins : Alike(x)
  <2>1. admin \in [Admins -> Processes]
    BY Zenon, IInvParts
  <2> QED
    BY <1>1, <2>1, Outdated DEF Alike
<1>10. request' \in [Requests -> Authentications]
  BY Zenon, <1>1, IInvParts
<1> QED
  BY Zenon, <1>1, <1>8, <1>9, <1>10, CommitStep

\* The clock moves, forward or back.
LEMMA ClockStep ==
  ASSUME Sensible, IInv, Tick \/ ClockStepsBack
  PROVE  IInv' /\ KeepsRowsAndSecrets
<1>1. /\ creds' = creds /\ bindings' = bindings /\ files' = files /\ drawn' = drawn
      /\ admin' = admin /\ request' = request /\ budget' = budget
  BY Zenon DEF Tick, ClockStepsBack, tables, bounds
<1>2. (now \in Time \ {None})'
  <2>1. now \in Time \ {None} /\ budget.time \in Nat
    BY Zenon, IInvParts, RowFacts
  <2>2. \/ now < budget.time /\ now' = now + 1
        \/ now > 1 /\ now' = now - 1
    BY Zenon DEF Tick, ClockStepsBack
  <2>3. now' \in 1 .. budget.time
    BY <2>1, <2>2 DEF Time, None
  <2> QED
    BY <1>1, <2>3 DEF Time, None
<1>3. Tables' /\ KeepsRowsAndSecrets
  BY Zenon, <1>1, IInvParts, TablesKept
<1>4. (\A x \in Admins : Fit(x))' /\ Reservations'
  <2>1. \A x \in Admins : Alike(x)
    BY Zenon, <1>1 DEF Alike
  <2> QED
    BY Zenon, <1>1, <2>1, IInvParts, ProcessesKept
<1>5. (admin \in [Admins -> Processes])'
  BY Zenon, <1>1, IInvParts DEF Processes, Time
<1>6. /\ (budget \in Budgets)' /\ (drawn \subseteq Ids)' /\ (files \in [Paths -> Contents(drawn)])'
      /\ (request \in [Requests -> Authentications])'
  BY Zenon, <1>1, IInvParts DEF Authentications
<1> QED
  BY Zenon, <1>2, <1>3, <1>4, <1>5, <1>6, IInvAgain

\* A step in which nothing happens.
LEMMA StutterStep ==
  ASSUME Sensible, IInv, UNCHANGED vars
  PROVE  IInv' /\ KeepsRowsAndSecrets
<1>1. request' = request /\ UNCHANGED <<now, tables, files, drawn, admin, bounds>>
  BY Zenon DEF vars
<1>2. request' \in [Requests -> Authentications]
  BY Zenon, <1>1, IInvParts
<1> QED
  BY Zenon, <1>1, <1>2, RequestStep
-----------------------------------------------------------------------------
\* The results.

\* The invariant holds before anything happens.
LEMMA InitIInv ==
  ASSUME Sensible, Init
  PROVE  IInv
<1>1. /\ now = 1 /\ creds = << >> /\ drawn = {} /\ budget \in Budgets
      /\ files = [p \in Paths |-> Absent] /\ admin = [a \in Admins |-> Idle]
      /\ request = [q \in Requests |-> Idle]
  BY Zenon DEF Init
<1>2. Rows = {}
  BY <1>1 DEF Rows
<1>3. now \in Time \ {None}
  <2>1. budget.time \in Nat \ {0}
    BY Zenon, <1>1 DEF Sensible
  <2> QED
    BY <1>1, <2>1 DEF Time, None
<1>4. bindings \in [Bindings -> {"absent", "live", "withdrawn"}]
  BY DEF Init
<1>5. Idle \in Processes /\ Idle \in Authentications
  BY Zenon DEF Processes, Authentications
<1>6. TypeOK
  BY Zenon, <1>1, <1>2, <1>3, <1>4, IdleStage DEF TypeOK
<1>7. Shapes
  BY Zenon, <1>1, <1>5, <1>6 DEF Shapes
<1>8. \A a \in Admins : Fit(a)
  BY Zenon, <1>1 DEF Fit
<1>9. Reservations
  <2>1. \A a \in Admins : admin[a].pc = "idle"
    BY Zenon, <1>1, IdleStage
  <2> QED
    BY Zenon, <2>1 DEF Reservations
<1>10. Closed /\ Lines /\ AuditInOrder /\ SecretKept
  BY Zenon, <1>2 DEF Closed, Lines, AuditInOrder, SecretKept, Occupancy
<1> QED
  BY Zenon, <1>7, <1>8, <1>9, <1>10 DEF IInv

\* Every step keeps the invariant, the rows and the published secrets.
LEMMA NextIInv ==
  ASSUME Sensible, IInv, [Next]_vars
  PROVE  IInv' /\ KeepsRowsAndSecrets
<1>1. ASSUME NEW a \in Admins,
             \/ Start(a) \/ ReadArtifact(a) \/ Reserve(a) \/ Publish(a) \/ PublishFails(a)
             \/ RereadArtifact(a) \/ Begin(a)
      PROVE  IInv' /\ KeepsRowsAndSecrets
  BY Zenon, <1>1, StartStep, ReadStep, ReserveStep, PublishStep, PublishFailsStep, RereadStep,
     BeginStep
<1>2. ASSUME NEW a \in Admins,
             \/ CreateCodex(a) \/ CreateOrLoadTunnel(a) \/ RevokeBearer(a) \/ RotateBearer(a)
             \/ RotateOrLoadTunnel(a) \/ ReissueTunnel(a)
      PROVE  IInv' /\ KeepsRowsAndSecrets
  BY Zenon, <1>2, CreateCodexStep, CreateOrLoadTunnelStep, RevokeBearerStep, RotateBearerStep,
     RotateOrLoadTunnelStep, ReissueTunnelStep
<1>3. ASSUME NEW a \in Admins, SerializationFailure(a) \/ UniqueViolation(a) \/ Dies(a)
      PROVE  IInv' /\ KeepsRowsAndSecrets
  BY Zenon, <1>3, SerializationFailureStep, UniqueViolationStep, DiesStep
<1>4. ASSUME NEW q \in Requests, PresentDirect(q) \/ PresentTunnel(q) \/ RecordUse(q) \/ Respond(q)
      PROVE  IInv' /\ KeepsRowsAndSecrets
  BY Zenon, <1>4, PresentStep, RecordUseStep, RespondStep
<1>5. ASSUME NEW b \in Bindings, Withdraw(b)
      PROVE  IInv' /\ KeepsRowsAndSecrets
  BY Zenon, <1>5, WithdrawStep
<1>6. CASE Tick \/ ClockStepsBack
  BY Zenon, <1>6, ClockStep
<1>7. CASE UNCHANGED vars
  BY Zenon, <1>7, StutterStep
<1> QED
  BY ZenonT(60), <1>1, <1>2, <1>3, <1>4, <1>5, <1>6, <1>7 DEF Next

\* record_successful_use lets a request through only when the row, the identity rows and
\* the listener allow it.
LEMMA NextServes ==
  ASSUME Sensible, IInv, [Next]_vars
  PROVE  ServesOnlyActive
<1>1. SUFFICES ASSUME NEW q \in Requests, request'[q].pc = "served", request[q].pc # "served",
                      NEW c, c = request[q].id
               PROVE  /\ c \in Rows /\ creds[c].revoked = None /\ bindings[creds[c].binding] = "live"
                      /\ creds[c].expires # None => now < creds[c].expires
                      /\ creds[c].binding \in Tunnels => "command" \notin request'[q].authority
  BY Zenon DEF ServesOnlyActive
<1>2. request' # request
  BY Zenon, <1>1
<1>3. PICK x \in Requests : PresentDirect(x) \/ PresentTunnel(x) \/ RecordUse(x) \/ Respond(x)
  <2>1. ASSUME NEW a \in Admins,
               \/ Start(a) \/ ReadArtifact(a) \/ Reserve(a) \/ Publish(a) \/ PublishFails(a)
               \/ RereadArtifact(a) \/ Begin(a)
        PROVE  FALSE
    BY Zenon, <1>2, <2>1 DEF Start, ReadArtifact, Reserve, Publish, PublishFails, RereadArtifact, Begin
  <2>2. ASSUME NEW a \in Admins,
               \/ CreateCodex(a) \/ CreateOrLoadTunnel(a) \/ RevokeBearer(a) \/ RotateBearer(a)
               \/ RotateOrLoadTunnel(a) \/ ReissueTunnel(a)
        PROVE  FALSE
    <3>1. ~CreateCodex(a) /\ ~RevokeBearer(a) /\ ~RotateBearer(a)
      BY Zenon, <1>2 DEF CreateCodex, RevokeBearer, RotateBearer
    <3>2. ~CreateOrLoadTunnel(a)
      BY Zenon, <1>2 DEF CreateOrLoadTunnel
    <3>3. ~RotateOrLoadTunnel(a) /\ ~ReissueTunnel(a)
      BY Zenon, <1>2 DEF RotateOrLoadTunnel, ReissueTunnel
    <3> QED
      BY Zenon, <2>2, <3>1, <3>2, <3>3
  <2>3. ASSUME NEW a \in Admins, SerializationFailure(a) \/ UniqueViolation(a) \/ Dies(a)
        PROVE  FALSE
    BY Zenon, <1>2, <2>3 DEF SerializationFailure, UniqueViolation, Dies
  <2>4. ASSUME NEW b \in Bindings, Withdraw(b)
        PROVE  FALSE
    BY Zenon, <1>2, <2>4 DEF Withdraw
  <2>5. ~(Tick \/ ClockStepsBack \/ UNCHANGED vars)
    BY Zenon, <1>2 DEF Tick, ClockStepsBack, vars
  <2> QED
    BY Zenon, <2>1, <2>2, <2>3, <2>4, <2>5 DEF Next
<1>4. request \in [Requests -> Authentications] /\ Idle.pc # "served"
  BY Zenon, IInvParts, IdleStage
<1>5. x = q
  BY Zenon, <1>1, <1>3, <1>4 DEF PresentDirect, PresentTunnel, RecordUse, Respond
<1>6. ~(PresentDirect(q) \/ PresentTunnel(q))
  <2>1. \A id, b : Verified(id, b).pc # "served"
    BY DEF Verified
  <2>2. SUFFICES ASSUME NEW p \in Paths, NEW b,
                        request' = [request EXCEPT ![q] = Verified(files[p].id, b)]
                 PROVE  FALSE
    BY Zenon DEF PresentDirect, PresentTunnel
  <2>3. request'[q] = Verified(files[p].id, b)
    BY Zenon, <1>4, <2>2
  <2> QED
    BY Zenon, <1>1, <2>1, <2>3
<1>7. /\ StillActive(q)
      /\ request' = [request EXCEPT ![q] = [pc |-> "served", id |-> c, authority |-> Principals(q)]]
  <2>1. ~Respond(q) /\ request' # [request EXCEPT ![q] = Idle]
    BY Zenon, <1>1, <1>4 DEF Respond
  <2>2. RecordUse(q)
    BY Zenon, <1>3, <1>5, <1>6, <2>1
  <2>3. /\ StillActive(q)
        /\ request' = [request EXCEPT ![q] =
             [pc |-> "served", id |-> request[q].id, authority |-> Principals(q)]]
    BY Zenon, <2>1, <2>2 DEF RecordUse
  <2> QED
    BY Zenon, <1>1, <2>3
<1>8. Usable(c) /\ bindings[creds[c].binding] = "live"
  BY Zenon, <1>1, <1>7 DEF StillActive, DirectActive, TunnelActive, Identity
<1>9. creds[c].expires # None => now < creds[c].expires
  <2>1. now \in Nat /\ creds[c].expires \in Nat
    <3>1. now \in Time /\ c \in Rows
      BY Zenon, <1>8, IInvParts DEF Usable
    <3>2. creds[c].expires \in Nat
      BY Zenon, <3>1, RowFacts
    <3> QED
      BY <3>1, <3>2, RowFacts DEF Time
  <2>2. creds[c].expires # None => creds[c].expires > now
    BY Zenon, <1>8 DEF Usable
  <2> QED
    BY <2>1, <2>2
<1>10. creds[c].binding \in Tunnels => "command" \notin request'[q].authority
  <2>1. request'[q].authority = Principals(q)
    BY Zenon, <1>4, <1>7
  <2>2. CASE request[q].pinned = NoTunnel
    BY Zenon, <1>1, <1>7, <2>2 DEF StillActive, DirectActive, Sensible
  <2>3. CASE request[q].pinned # NoTunnel
    <3>1. request'[q].authority = {"query"}
      BY Zenon, <2>1, <2>3 DEF Principals, TunnelPrincipals
    <3> QED
      BY <3>1
  <2> QED
    BY Zenon, <2>2, <2>3
<1> QED
  BY Zenon, <1>8, <1>9, <1>10 DEF Usable

\* The inductive invariant: what the tables, the artifacts and the processes of the
\* credential commands rely on holds at every moment.
THEOREM AlwaysIInv ==
  ASSUME Sensible
  PROVE  Spec => []IInv
<1>1. Init => IInv
  BY Zenon, InitIInv
<1>2. IInv /\ [Next]_vars => IInv'
  BY Zenon, NextIInv
<1> QED
  BY <1>1, <1>2, PTL DEF Spec

\* The tables, the files and the processes keep their types, and only ids that were
\* drawn are stored or published.
THEOREM AlwaysTypeOK ==
  ASSUME Sensible
  PROVE  Spec => []TypeOK
<1>1. IInv => TypeOK
  BY Zenon DEF IInv, Shapes
<1> QED
  BY <1>1, AlwaysIInv, PTL

\* Whatever commands race, retry or die, the credentials of a binding form one line of
\* succession: rotate_bearer_credential, rotate_or_load_secure_tunnel_credential and
\* reissue_secure_tunnel_credential never leave two that are active at a time, nor open
\* a second line.
THEOREM OneLineOfSuccession ==
  ASSUME Sensible
  PROVE  Spec => []Succession
<1>1. IInv => Succession
  BY Zenon, LinesSucceed DEF IInv
<1> QED
  BY <1>1, AlwaysIInv, PTL

\* load_or_create_authorization publishes before the transaction: the verifier a tunnel
\* command commits always has its secret in a protected file.
THEOREM SecretsAreKept ==
  ASSUME Sensible
  PROVE  Spec => []SecretKept
<1>1. IInv => SecretKept
  BY Zenon DEF IInv
<1> QED
  BY <1>1, AlwaysIInv, PTL

\* The audit columns agree whatever clock each writer read.
THEOREM AuditAgrees ==
  ASSUME Sensible
  PROVE  Spec => []AuditInOrder
<1>1. IInv => AuditInOrder
  BY Zenon DEF IInv
<1> QED
  BY <1>1, AlwaysIInv, PTL

\* record_successful_use lets a request through only while its credential, its identity
\* rows and its listener allow it.
THEOREM OnlyActiveServed ==
  ASSUME Sensible
  PROVE  Spec => [][ServesOnlyActive]_vars
<1>1. IInv /\ [Next]_vars => ServesOnlyActive
  BY Zenon, NextServes
<1> QED
  BY <1>1, AlwaysIInv, PTL DEF Spec

\* No row is removed, no revocation changes, no last use moves backwards, and no
\* published secret is replaced.
THEOREM NothingGoesBack ==
  ASSUME Sensible
  PROVE  Spec => [][KeepsRowsAndSecrets]_vars
<1>1. IInv /\ [Next]_vars => KeepsRowsAndSecrets
  BY Zenon, NextIInv
<1> QED
  BY <1>1, AlwaysIInv, PTL DEF Spec
=============================================================================
