---------------------------- MODULE Connections ----------------------------
(***************************************************************************)
(* The connection endpoints (routers/connections.py) over the tenant       *)
(* scoped repositories: connections, their versioned secrets and their     *)
(* schema snapshots.                                                       *)
(*                                                                         *)
(* A request is a number, taken in the order requests arrive.  Between two *)
(* awaits that read or commit, other requests run; a request whose process *)
(* dies stops where it is.  A deployment enforces foreign keys (PostgreSQL)*)
(* or does not (SQLite as the engine is created), and serves at most limit *)
(* requests at a time: limit 1 is a tenant that never overlaps requests.   *)
(* Names, configuration and ciphertexts are left out: a secret is the      *)
(* request that stored it.  verify-config, the lists and get only read.    *)
(***************************************************************************)
EXTENDS Naturals, FiniteSets, FiniteSetsExt

CONSTANTS
    Conns,          \* connection ids, numbers in the order they are drawn
    Tenants,
    MaxRequests,    \* bound: requests of a behaviour
    Limits          \* values of limit

ASSUME ConnectionsAssumption ==
    /\ Conns \subseteq Nat /\ Conns # {} /\ Tenants # {}
    /\ MaxRequests \in Nat \ {0}
    /\ Limits \subseteq Nat \ {0}

VARIABLES
    foreignKeys, limit,     \* the deployment
    \* the database
    status,     \* of each connection: absent, healthy, degraded, disabled, deleted
    owner,      \* its tenant_id
    secrets,    \* rows [conn, version, by]
    snapshots,  \* rows [id, conn, version, baseline]
    \* the requests
    arrived,    \* how many have arrived
    pc, conn, tenant,
    loaded,     \* status of the connection as loaded
    version,    \* version to store, or what the request asks for
    first,      \* no baseline was found
    \* history
    died,       \* a request died, or was answered 409 or 500
    borrowed    \* a baseline was set to another connection's snapshot

dbVars  == <<status, owner, secrets, snapshots>>
history == <<died, borrowed>>
fixed   == <<foreignKeys, limit>>
vars == <<fixed, dbVars, arrived, pc, conn, tenant, loaded, version, first, history>>

Requests == 1..MaxRequests
Status == {"absent", "healthy", "degraded", "disabled", "deleted"}
Labels ==
    {"idle", "done", "audit", "create.secret", "toggle.commit", "rotate.insert", "rotate.purge",
     "test.commit", "discover.look", "discover.store", "drift.store", "baseline.commit"}

Exists(c) == status[c] \notin {"absent", "deleted"}

\* Versions start at 1; 0 stands for None.
Versions == 0..MaxRequests

Secret   == [conn : Conns, version : Versions \ {0}, by : Requests]
Snapshot == [id : Requests, conn : Conns, version : Versions \ {0}, baseline : BOOLEAN]

TypeOK ==
    /\ foreignKeys \in BOOLEAN /\ limit \in Limits
    /\ status \in [Conns -> Status] /\ owner \in [Conns -> Tenants]
    /\ secrets \subseteq Secret /\ snapshots \subseteq Snapshot
    /\ arrived \in 0..MaxRequests
    /\ pc \in [Requests -> Labels] /\ conn \in [Requests -> Conns]
    /\ tenant \in [Requests -> Tenants]
    /\ loaded \in [Requests -> Status] /\ version \in [Requests -> Versions]
    /\ first \in [Requests -> BOOLEAN]
    /\ died \in BOOLEAN /\ borrowed \in BOOLEAN

Init ==
    /\ foreignKeys \in BOOLEAN /\ limit \in Limits
    /\ status = [c \in Conns |-> "absent"]
    /\ owner = [c \in Conns |-> CHOOSE t \in Tenants : TRUE]
    /\ secrets = {} /\ snapshots = {}
    /\ arrived = 0
    /\ pc = [q \in Requests |-> "idle"]
    /\ conn = [q \in Requests |-> CHOOSE c \in Conns : TRUE]
    /\ tenant = [q \in Requests |-> CHOOSE t \in Tenants : TRUE]
    /\ loaded = [q \in Requests |-> "absent"]
    /\ version = [q \in Requests |-> 0]
    /\ first = [q \in Requests |-> FALSE]
    /\ died = FALSE /\ borrowed = FALSE
-----------------------------------------------------------------------------
(* The repositories *)

\* Mutant: the tenant is not part of the query.
GetByIdAnyTenant(c, t) == Exists(c)

\* TenantScopedRepository.get_by_id
GetById(c, t) == Exists(c) /\ owner[c] = t

\* Rows of a query scoped to a tenant and a connection.  A row carries the
\* tenant of the request that wrote it.
RowsOf(table, c, t) == {r \in table : r.conn = c /\ owner[c] = t}

\* get_latest_for_connection and get_latest: the highest version, or None
Latest(table, c, t) == Max({0} \cup {r.version : r \in RowsOf(table, c, t)})

GetBaseline(c, t) == {s \in RowsOf(snapshots, c, t) : s.baseline}

\* Mutant: every other version is purged, newer ones too.
PurgeOthers(c, t, keep) == secrets \ {s \in RowsOf(secrets, c, t) : s.version # keep}

\* purge_previous_versions
PurgePreviousVersions(c, t, keep) == secrets \ {s \in RowsOf(secrets, c, t) : s.version < keep}

\* Mutant: the old baseline is not cleared.
SetOnly(c, t, id) ==
    {IF s.id = id THEN [s EXCEPT !.baseline = TRUE] ELSE s : s \in snapshots}

\* set_baseline: clears the flag of the connection, then sets it on the
\* snapshot with that id, whatever its connection.
SetBaseline(c, t, id) ==
    {IF s.id = id THEN [s EXCEPT !.baseline = TRUE]
     ELSE IF s \in RowsOf(snapshots, c, t) THEN [s EXCEPT !.baseline = FALSE] ELSE s : s \in snapshots}
-----------------------------------------------------------------------------
(* Requests *)

InFlight == {q \in 1..arrived : pc[q] # "done"}

\* Request q arrives for connection c of tenant t and goes on at label.
Arrive(q, c, t, label, number) ==
    /\ arrived < MaxRequests
    /\ Cardinality(InFlight) < limit
    /\ q = arrived + 1
    /\ arrived' = q
    /\ pc' = [pc EXCEPT ![q] = label]
    /\ conn' = [conn EXCEPT ![q] = c]
    /\ tenant' = [tenant EXCEPT ![q] = t]
    /\ loaded' = [loaded EXCEPT ![q] = status[c]]
    /\ version' = [version EXCEPT ![q] = number]
    /\ UNCHANGED <<fixed, first>>

\* What a request no longer reads is forgotten.
GoTo(q, label) ==
    LET ends == label \in {"audit", "done"} IN
    /\ pc' = [pc EXCEPT ![q] = label]
    /\ loaded' = [loaded EXCEPT ![q] = IF ends THEN "absent" ELSE @]
    /\ version' = [version EXCEPT ![q] = IF ends THEN 0 ELSE @]
    /\ first' = [first EXCEPT ![q] = FALSE]
    /\ UNCHANGED <<fixed, arrived, conn, tenant>>

\* AuditRepository.record: the last commit of a request, then it is answered.
RecordAudit(q) ==
    /\ pc[q] = "audit"
    /\ GoTo(q, "done")
    /\ UNCHANGED <<dbVars, died, borrowed>>

\* The process dies, or the client goes away and the handler is cancelled.
Die(q) ==
    /\ pc[q] \notin {"idle", "done"}
    /\ GoTo(q, "done")
    /\ died' = TRUE
    /\ UNCHANGED <<dbVars, borrowed>>

\* create_connection and exchange_oauth_code: the row first; credentials, which
\* the latter always has, in a commit of their own.
CreateConnection(q, c, t, credentials) ==
    /\ status[c] = "absent"
    /\ \A d \in Conns : d < c => status[d] # "absent"
    /\ Arrive(q, c, t, IF credentials THEN "create.secret" ELSE "audit", 1)
    /\ status' = [status EXCEPT ![c] = "healthy"]
    /\ owner' = [owner EXCEPT ![c] = t]
    /\ UNCHANGED <<secrets, snapshots, history>>

\* INSERT of a secret: uq_conn_secret_version and, where they are enforced,
\* foreign keys can refuse it.
InsertRefused(q) ==
    \/ \E s \in secrets : s.conn = conn[q] /\ s.version = version[q]
    \/ foreignKeys /\ ~ Exists(conn[q])
InsertSecret(q, next) ==
    IF InsertRefused(q)
    THEN GoTo(q, "done") /\ died' = TRUE /\ UNCHANGED secrets
    ELSE /\ GoTo(q, next)
         /\ secrets' = secrets \cup {[conn |-> conn[q], version |-> version[q], by |-> q]}
         /\ UNCHANGED died

StoreFirstSecret(q) ==
    /\ pc[q] = "create.secret"
    /\ InsertSecret(q, "audit")
    /\ UNCHANGED <<status, owner, snapshots, borrowed>>

\* toggle_connection, enable_connection and disable_connection
ToggleRead(q, c, t, enabled) ==
    /\ GetById(c, t)
    /\ Arrive(q, c, t, "toggle.commit", IF enabled THEN 1 ELSE 0)
    /\ UNCHANGED <<dbVars, history>>

\* The session writes status only when it differs from what was loaded, and
\* fails when the row is gone.
WriteStatus(q, new) ==
    IF new = loaded[q] THEN GoTo(q, "audit") /\ UNCHANGED <<status, died>>
    ELSE IF Exists(conn[q])
    THEN GoTo(q, "audit") /\ status' = [status EXCEPT ![conn[q]] = new] /\ UNCHANGED died
    ELSE GoTo(q, "done") /\ died' = TRUE /\ UNCHANGED status

\* Mutant: a status the table does not know.
ToggleCommitEnabled(q) ==
    /\ pc[q] = "toggle.commit"
    /\ WriteStatus(q, IF version[q] = 1 THEN "enabled" ELSE "disabled")
    /\ UNCHANGED <<owner, secrets, snapshots, borrowed>>

ToggleCommit(q) ==
    /\ pc[q] = "toggle.commit"
    /\ WriteStatus(q, IF version[q] = 1 THEN "healthy" ELSE "disabled")
    /\ UNCHANGED <<owner, secrets, snapshots, borrowed>>

\* rotate_credentials
RotateRead(q, c, t) ==
    /\ GetById(c, t)
    /\ Arrive(q, c, t, "rotate.insert", Latest(secrets, c, t) + 1)
    /\ UNCHANGED <<dbVars, history>>

RotateInsert(q) ==
    /\ pc[q] = "rotate.insert"
    /\ InsertSecret(q, "rotate.purge")
    /\ UNCHANGED <<status, owner, snapshots, borrowed>>

\* Mutant: the rotation leaves out the purge.
RotateKeeps(q) ==
    /\ pc[q] = "rotate.purge"
    /\ GoTo(q, "audit")
    /\ UNCHANGED <<dbVars, history>>

RotatePurge(q) ==
    /\ pc[q] = "rotate.purge"
    /\ secrets' = PurgePreviousVersions(conn[q], tenant[q], version[q])
    /\ GoTo(q, "audit")
    /\ UNCHANGED <<status, owner, snapshots, history>>

\* Mutant: a disabled connection is tested too.
TestEvenDisabled(q, c, t) ==
    /\ GetById(c, t)
    /\ Arrive(q, c, t, "test.commit", 0)
    /\ UNCHANGED <<dbVars, history>>

\* test_connection: loads the connection, decrypts the latest secret, awaits
\* the connector and writes what it said.
TestRead(q, c, t) ==
    /\ GetById(c, t)
    /\ status[c] # "disabled"
    /\ Arrive(q, c, t, "test.commit", 0)
    /\ UNCHANGED <<dbVars, history>>

TestCommit(q, success) ==
    /\ pc[q] = "test.commit"
    /\ WriteStatus(q, IF success THEN "healthy" ELSE "degraded")
    /\ UNCHANGED <<owner, secrets, snapshots, borrowed>>

\* discover_connection_schema: after the connector's answer it reads baseline
\* and latest, then commits the snapshot.  It leaves no audit event.
DiscoverRead(q, c, t) ==
    /\ GetById(c, t)
    /\ status[c] # "disabled"
    /\ Arrive(q, c, t, "discover.look", 0)
    /\ UNCHANGED <<dbVars, history>>

DiscoverLook(q) ==
    /\ pc[q] = "discover.look"
    /\ pc' = [pc EXCEPT ![q] = "discover.store"]
    /\ first' = [first EXCEPT ![q] = GetBaseline(conn[q], tenant[q]) = {}]
    /\ version' = [version EXCEPT ![q] = Latest(snapshots, conn[q], tenant[q]) + 1]
    /\ UNCHANGED <<fixed, dbVars, arrived, conn, tenant, loaded, history>>

StoreSnapshot(q, baseline) ==
    /\ GoTo(q, "done")
    /\ IF foreignKeys /\ ~ Exists(conn[q])
       THEN died' = TRUE /\ UNCHANGED snapshots
       ELSE /\ snapshots' = snapshots \cup
                  {[id |-> q, conn |-> conn[q], version |-> version[q], baseline |-> baseline]}
            /\ UNCHANGED died
    /\ UNCHANGED <<status, owner, secrets, borrowed>>

DiscoverStore(q) == pc[q] = "discover.store" /\ StoreSnapshot(q, first[q])

\* get_connection_schema_drift stores a baseline, version 1, when there is no
\* baseline or no snapshot; otherwise it only reads.
DriftRead(q, c, t) ==
    /\ GetById(c, t)
    /\ GetBaseline(c, t) = {}
    /\ Arrive(q, c, t, "drift.store", 1)
    /\ UNCHANGED <<dbVars, history>>

DriftStore(q) == pc[q] = "drift.store" /\ StoreSnapshot(q, TRUE)

\* set_connection_schema_baseline: the latest snapshot, or the one named,
\* which need not be of this connection.  version holds its id.
BaselineRead(q, c, t, named) ==
    /\ \E s \in snapshots :
        /\ IF named THEN owner[s.conn] = t
           ELSE s \in RowsOf(snapshots, c, t) /\ s.version = Latest(snapshots, c, t)
        /\ Arrive(q, c, t, "baseline.commit", s.id)
        /\ borrowed' = (borrowed \/ s.conn # c)
    /\ UNCHANGED <<dbVars, died>>

BaselineCommit(q) ==
    /\ pc[q] = "baseline.commit"
    /\ snapshots' = SetBaseline(conn[q], tenant[q], version[q])
    /\ GoTo(q, "audit")
    /\ UNCHANGED <<status, owner, secrets, history>>

\* Mutant: the snapshots' foreign key does not cascade.
DeleteRowOnly(q, c, t) ==
    /\ GetById(c, t)
    /\ Arrive(q, c, t, "audit", 0)
    /\ status' = [status EXCEPT ![c] = "deleted"]
    /\ secrets' = IF foreignKeys THEN {s \in secrets : s.conn # c} ELSE secrets
    /\ UNCHANGED <<owner, snapshots, history>>

\* delete_connection: one DELETE; the rest of the rows only by ON DELETE CASCADE
DeleteConnection(q, c, t) ==
    /\ GetById(c, t)
    /\ Arrive(q, c, t, "audit", 0)
    /\ status' = [status EXCEPT ![c] = "deleted"]
    /\ secrets' = IF foreignKeys THEN {s \in secrets : s.conn # c} ELSE secrets
    /\ snapshots' = IF foreignKeys THEN {s \in snapshots : s.conn # c} ELSE snapshots
    /\ UNCHANGED <<owner, history>>

Next ==
    \E q \in Requests :
        \/ \E c \in Conns, t \in Tenants :
            \/ \E credentials \in BOOLEAN : CreateConnection(q, c, t, credentials)
            \/ \E enabled \in BOOLEAN : ToggleRead(q, c, t, enabled)
            \/ RotateRead(q, c, t)
            \/ TestRead(q, c, t)
            \/ DiscoverRead(q, c, t)
            \/ DriftRead(q, c, t)
            \/ \E named \in BOOLEAN : BaselineRead(q, c, t, named)
            \/ DeleteConnection(q, c, t)
        \/ StoreFirstSecret(q)
        \/ ToggleCommit(q)
        \/ RotateInsert(q)
        \/ RotatePurge(q)
        \/ \E success \in BOOLEAN : TestCommit(q, success)
        \/ DiscoverLook(q)
        \/ DiscoverStore(q)
        \/ DriftStore(q)
        \/ BaselineCommit(q)
        \/ RecordAudit(q)
        \/ Die(q)

Spec == Init /\ [][Next]_vars
-----------------------------------------------------------------------------
(* Properties *)

\* The newest version of a connection's secret never goes back while the
\* connection exists: a rotation that was overtaken by others, and whose
\* version number was freed by their purge, may store its secret but destroys
\* none newer (purge_previous_versions deletes what is older only).
NewestSecretStays ==
    [][\A c \in Conns : Exists(c) /\ Exists(c)' =>
          Latest(secrets, c, owner[c])' >= Latest(secrets, c, owner[c])]_vars

\* For a tenant that never overlaps requests a later rotation has the higher
\* version, so its credentials are the ones in use, even after requests that
\* died half way; and as long as none died no older ciphertext is left.
RotationTakesEffect ==
    limit = 1 => \A c \in Conns : LET rows == RowsOf(secrets, c, owner[c]) IN
        /\ \A s, u \in rows : s.by < u.by => s.version < u.version
        /\ ~ died /\ InFlight = {} => Cardinality(rows) <= 1

\* Where foreign keys are enforced no secret or snapshot outlives its
\* connection, whatever is in flight when it is deleted.
NoOrphans ==
    foreignKeys => \A r \in secrets \cup snapshots : Exists(r.conn)

\* Without overlapping requests, and unless a baseline was borrowed from
\* another connection, a connection has at most one baseline and its snapshot
\* versions are distinct, also when drift is asked for before any discovery.
OneBaseline ==
    limit = 1 /\ ~ borrowed => \A c \in Conns :
        /\ Cardinality(GetBaseline(c, owner[c])) <= 1
        /\ \A s, u \in RowsOf(snapshots, c, owner[c]) : s.version = u.version => s = u

\* A disabled connection is enabled by toggle alone; a test in flight since
\* before it was disabled undoes that only when its verdict differs from the
\* status it had loaded.
DisabledStays ==
    [][\A c \in Conns : status[c] = "disabled" /\ status'[c] \in {"healthy", "degraded"} =>
          \E q \in Requests : conn[q] = c /\ pc'[q] = "audit" /\
              \/ pc[q] = "toggle.commit"
              \/ pc[q] = "test.commit" /\ limit > 1 /\ loaded[q] \notin {"disabled", status'[c]}]_vars

\* A request reads and changes rows of its own tenant only.
TenantIsolation ==
    [][\A c \in Conns :
          (status'[c] # status[c]
           \/ {r \in secrets' : r.conn = c} # {r \in secrets : r.conn = c}
           \/ {r \in snapshots' : r.conn = c} # {r \in snapshots : r.conn = c})
          => \E q \in Requests : pc'[q] # pc[q] /\ tenant'[q] = owner'[c]]_vars
=============================================================================
