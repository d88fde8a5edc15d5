-------------------------- MODULE ConnectionsProofs --------------------------
(***************************************************************************)
(* Proofs about the connection endpoints, for any number of connections,   *)
(* tenants and requests in flight, with and without foreign keys: type     *)
(* correctness, tenant isolation, orphans, and what rotations, tests and   *)
(* baselines keep.                                                         *)
(***************************************************************************)
EXTENDS Connections, Extrema, FiniteSetTheorems, TLAPS

\* Where a request has looked its connection up under its own tenant.
OwnLabels ==
    {"create.secret", "toggle.commit", "rotate.insert", "rotate.purge", "test.commit",
     "discover.look", "discover.store", "drift.store"}

\* Requests are numbered as they arrive.
Numbered == \A q \in Requests : q <= arrived <=> pc[q] # "idle"

\* A request and the rows it reads belong to one tenant.  A snapshot is known
\* by the request that stored it, which is over.
Scoped ==
    /\ \A q \in Requests : pc[q] \in OwnLabels =>
          status[conn[q]] # "absent" /\ owner[conn[q]] = tenant[q]
    /\ \A q \in Requests : pc[q] = "baseline.commit" =>
          /\ version[q] \in Requests /\ pc[version[q]] = "done"
          /\ status[conn[version[q]]] # "absent" /\ owner[conn[version[q]]] = tenant[q]
    /\ \A s \in secrets : status[s.conn] # "absent"
    /\ \A s \in snapshots :
          status[s.conn] # "absent" /\ pc[s.id] = "done" /\ s.conn = conn[s.id]
    /\ \A s, u \in snapshots : s.id = u.id => s = u

\* Requests that no longer ask for a version of a snapshot.
Looked == {q \in 1..arrived : pc[q] # "discover.look"}

\* Versions: a secret's is at most its request's number, a snapshot's at most
\* the number of requests that have looked.
Bounded ==
    /\ \A q \in Requests : pc[q] \in {"create.secret", "rotate.insert", "rotate.purge"} =>
          version[q] \in 1..q
    /\ \A s \in secrets :
          /\ s.version <= s.by /\ s.by <= arrived
          /\ pc[s.by] \notin {"create.secret", "rotate.insert"}
    /\ \A q \in Requests : pc[q] \in {"discover.store", "drift.store"} =>
          version[q] \in 1..Cardinality(Looked)
    /\ \A s \in snapshots : s.version <= Cardinality(Looked)

\* A rotation about to purge has its version, or a newer one, stored; a test
\* did not load a disabled connection.
Kept ==
    \A q \in Requests :
        /\ pc[q] = "rotate.purge" /\ Exists(conn[q]) =>
              \E s \in secrets : s.conn = conn[q] /\ s.version >= version[q]
        /\ pc[q] = "test.commit" => loaded[q] # "disabled"

\* Without overlapping requests what a request has read is still so.
Alone ==
    limit = 1 => \A q \in Requests :
        /\ pc[q] \notin {"idle", "done"} => q = arrived
        /\ pc[q] = "test.commit" => loaded[q] = status[conn[q]]
        /\ pc[q] = "create.secret" => \A s \in secrets : s.conn # conn[q]
        /\ pc[q] = "rotate.insert" =>
              \A s \in secrets : s.conn = conn[q] => s.version < version[q]
        /\ pc[q] = "rotate.purge" =>
              \A s \in secrets : s.conn = conn[q] /\ s.version >= version[q] =>
                  s.version = version[q] /\ s.by = q

Rotated ==
    limit = 1 =>
        /\ \A s, u \in secrets : s.conn = u.conn /\ s.by < u.by => s.version < u.version
        /\ \A s, u \in secrets : s.conn = u.conn /\ s # u =>
              died \/ \E q \in Requests : pc[q] = "rotate.purge" /\ conn[q] = s.conn

Baselined ==
    limit = 1 /\ ~ borrowed =>
        /\ \A s, u \in snapshots : s.conn = u.conn /\ s # u =>
              s.version # u.version /\ ~ (s.baseline /\ u.baseline)
        /\ \A s \in snapshots : \E u \in snapshots : u.conn = s.conn /\ u.baseline
        /\ \A q \in Requests : pc[q] = "discover.store" =>
              /\ \A s \in snapshots : s.conn = conn[q] => s.version < version[q] /\ ~ first[q]
              /\ first[q] \/ \E u \in snapshots : u.conn = conn[q] /\ u.baseline
        /\ \A q \in Requests : pc[q] = "drift.store" => \A s \in snapshots : s.conn # conn[q]
        /\ \A q \in Requests : pc[q] = "baseline.commit" =>
              /\ owner[conn[q]] = tenant[q]
              /\ \E s \in snapshots : s.id = version[q] /\ s.conn = conn[q]

ConnInv ==
    /\ TypeOK /\ Numbered /\ Scoped /\ Bounded /\ Kept /\ NoOrphans
    /\ Alone /\ Rotated /\ Baselined
-----------------------------------------------------------------------------
(* What the operators of the model do, pointwise *)

LEMMA Constants ==
  /\ Conns \subseteq Nat /\ Conns # {} /\ Tenants # {}
  /\ MaxRequests \in Nat /\ MaxRequests # 0
  /\ Limits \subseteq Nat \ {0}
  BY ConnectionsAssumption

\* The variables of every request but q stay.
Others(q) ==
    \A p \in Requests : p # q =>
        /\ pc'[p] = pc[p] /\ conn'[p] = conn[p] /\ tenant'[p] = tenant[p]
        /\ loaded'[p] = loaded[p] /\ version'[p] = version[p] /\ first'[p] = first[p]

RequestType ==
    /\ arrived \in 0..MaxRequests
    /\ pc \in [Requests -> Labels] /\ conn \in [Requests -> Conns]
    /\ tenant \in [Requests -> Tenants]
    /\ loaded \in [Requests -> Status] /\ version \in [Requests -> Versions]
    /\ first \in [Requests -> BOOLEAN]

LEMMA ArriveEffect ==
  ASSUME TypeOK, NEW q \in Requests, NEW c \in Conns, NEW t \in Tenants, NEW label \in Labels,
         NEW number \in Versions, Arrive(q, c, t, label, number)
  PROVE  /\ RequestType' /\ Others(q) /\ q = arrived + 1 /\ arrived' = q
         /\ pc'[q] = label /\ conn'[q] = c /\ tenant'[q] = t
         /\ loaded'[q] = status[c] /\ version'[q] = number
         /\ foreignKeys' = foreignKeys /\ limit' = limit
  <1>1. /\ q = arrived + 1 /\ arrived' = q /\ arrived' \in 0..MaxRequests
        /\ first' = first /\ foreignKeys' = foreignKeys /\ limit' = limit
    BY Constants DEF Arrive, TypeOK, fixed, Requests
  <1>2. pc' \in [Requests -> Labels] /\ conn' \in [Requests -> Conns] /\ tenant' \in [Requests -> Tenants]
    BY DEF Arrive, TypeOK
  <1>3. loaded' \in [Requests -> Status] /\ version' \in [Requests -> Versions]
    <2>1. status[c] \in Status
      BY DEF TypeOK
    <2> QED
      BY <2>1 DEF Arrive, TypeOK
  <1>4. first' \in [Requests -> BOOLEAN]
    BY <1>1, Zenon DEF TypeOK
  <1>5. Others(q)
    BY <1>1 DEF Others, Arrive, TypeOK
  <1>6. /\ pc'[q] = label /\ conn'[q] = c /\ tenant'[q] = t
        /\ loaded'[q] = status[c] /\ version'[q] = number
    BY DEF Arrive, TypeOK
  <1> QED
    BY <1>1, <1>2, <1>3, <1>4, <1>5, <1>6 DEF RequestType

LEMMA GoToEffect ==
  ASSUME TypeOK, NEW q \in Requests, NEW label \in Labels, GoTo(q, label)
  PROVE  /\ RequestType' /\ Others(q)
         /\ pc'[q] = label /\ conn'[q] = conn[q] /\ tenant'[q] = tenant[q]
         /\ label \notin {"audit", "done"} => loaded'[q] = loaded[q] /\ version'[q] = version[q]
         /\ arrived' = arrived /\ foreignKeys' = foreignKeys /\ limit' = limit
  <1> DEFINE ends == label \in {"audit", "done"}
  <1>1. /\ pc' = [pc EXCEPT ![q] = label]
        /\ loaded' = [loaded EXCEPT ![q] = IF ends THEN "absent" ELSE loaded[q]]
        /\ version' = [version EXCEPT ![q] = IF ends THEN 0 ELSE version[q]]
        /\ first' = [first EXCEPT ![q] = FALSE]
        /\ conn' = conn /\ tenant' = tenant
        /\ arrived' = arrived /\ foreignKeys' = foreignKeys /\ limit' = limit
    BY DEF GoTo, fixed, TypeOK
  <1>2. pc' \in [Requests -> Labels] /\ conn' \in [Requests -> Conns] /\ tenant' \in [Requests -> Tenants]
    BY <1>1 DEF TypeOK
  <1>3. loaded' \in [Requests -> Status]
    <2>1. (IF ends THEN "absent" ELSE loaded[q]) \in Status
      BY DEF TypeOK, Status
    <2> QED
      BY <1>1, <2>1 DEF TypeOK
  <1>4. version' \in [Requests -> Versions]
    <2>1. (IF ends THEN 0 ELSE version[q]) \in Versions
      BY Constants DEF TypeOK, Versions
    <2> QED
      BY <1>1, <2>1 DEF TypeOK
  <1>5. first' \in [Requests -> BOOLEAN]
    BY <1>1 DEF TypeOK
  <1>6. Others(q)
    BY <1>1 DEF Others, TypeOK
  <1>7. /\ pc'[q] = label
        /\ label \notin {"audit", "done"} => loaded'[q] = loaded[q] /\ version'[q] = version[q]
    BY <1>1 DEF TypeOK
  <1>8. arrived' \in 0..MaxRequests
    BY <1>1 DEF TypeOK
  <1> QED
    BY <1>1, <1>2, <1>3, <1>4, <1>5, <1>6, <1>7, <1>8 DEF RequestType

\* The latest version of a query is one of its rows', or 0, and no less than any.
LEMMA LatestVersion ==
  ASSUME NEW table, \A r \in table : r.version \in Versions, NEW c, NEW t
  PROVE  /\ Latest(table, c, t) \in Versions
         /\ \A r \in RowsOf(table, c, t) : r.version <= Latest(table, c, t)
         /\ Latest(table, c, t) = 0 \/ \E r \in RowsOf(table, c, t) : r.version = Latest(table, c, t)
  <1> DEFINE S == {0} \cup {r.version : r \in RowsOf(table, c, t)}
  <1>1. S \in SUBSET (0..MaxRequests) /\ S # {}
    BY Constants DEF RowsOf, Versions
  <1>2. Latest(table, c, t) = Max(S)
    BY DEF Latest
  <1>3. \A r \in RowsOf(table, c, t) : r.version \in S
    OBVIOUS
  <1>4. \A x \in S : x = 0 \/ \E r \in RowsOf(table, c, t) : r.version = x
    OBVIOUS
  <1> HIDE DEF S
  <1>5. Max(S) \in S /\ \A y \in S : Max(S) >= y
    BY <1>1, Constants, MaxElement
  <1>6. \A r \in RowsOf(table, c, t) : r.version <= Max(S)
    <2> SUFFICES ASSUME NEW r \in RowsOf(table, c, t) PROVE r.version <= Max(S)
      OBVIOUS
    <2>1. r.version \in S /\ Max(S) >= r.version /\ Max(S) \in 0..MaxRequests /\ r.version \in 0..MaxRequests
      BY <1>1, <1>3, <1>5
    <2> QED
      BY <2>1, Constants
  <1>7. Max(S) \in Versions
    BY <1>1, <1>5 DEF Versions
  <1> QED
    BY <1>2, <1>4, <1>5, <1>6, <1>7

\* Where requests never overlap, a request arrives when none is under way.
LEMMA NoneInFlight ==
  ASSUME TypeOK, Numbered, limit = 1, Cardinality(InFlight) < limit
  PROVE  \A p \in Requests : pc[p] \in {"idle", "done"}
  <1>1. IsFiniteSet(1..arrived)
    BY Constants, FS_Interval DEF TypeOK
  <1>2. IsFiniteSet(InFlight)
    BY <1>1, FS_Subset DEF InFlight
  <1>3. Cardinality(InFlight) = 0
    BY <1>2, FS_CardinalityType
  <1>4. InFlight = {}
    BY <1>2, <1>3, FS_EmptySet
  <1>5. \A p \in Requests : pc[p] # "idle" => p \in 1..arrived
    BY Constants DEF Numbered, Requests, TypeOK
  <1> QED
    BY <1>4, <1>5 DEF InFlight

\* How many requests have looked.
LEMMA LookedSize ==
  ASSUME TypeOK
  PROVE  IsFiniteSet(Looked) /\ Cardinality(Looked) \in Nat /\ Cardinality(Looked) <= arrived
  <1>1. arrived \in Nat /\ IsFiniteSet(1..arrived) /\ Cardinality(1..arrived) = arrived
    BY Constants, FS_Interval DEF TypeOK
  <1>2. Looked \subseteq 1..arrived
    BY DEF Looked
  <1>3. IsFiniteSet(Looked) /\ Cardinality(Looked) <= Cardinality(1..arrived)
    BY <1>1, <1>2, FS_Subset
  <1> QED
    BY <1>1, <1>3, FS_CardinalityType

\* It never falls, and rises when a request looks.
LEMMA LookedGrows ==
  ASSUME TypeOK, RequestType', arrived <= arrived',
         \A p \in 1..arrived : pc'[p] = "discover.look" => pc[p] = "discover.look"
  PROVE  /\ Cardinality(Looked)' \in Nat /\ Cardinality(Looked) <= Cardinality(Looked)'
         /\ Cardinality(Looked)' <= arrived'
         /\ \A q \in 1..arrived' : pc'[q] # "discover.look" /\ q \notin Looked
                => Cardinality(Looked) + 1 <= Cardinality(Looked)'
  <1>1. /\ arrived' \in Nat /\ IsFiniteSet(1..arrived') /\ Cardinality(1..arrived') = arrived'
    <2>1. arrived' \in Nat
      BY Constants DEF RequestType
    <2> QED
      BY <2>1, FS_Interval
  <1> DEFINE L == {q \in 1..arrived' : pc'[q] # "discover.look"}
  <1>2. Looked' = L
    BY DEF Looked
  <1>3. L \subseteq 1..arrived'
    OBVIOUS
  <1>4. Looked \subseteq L
    BY <1>1, Constants DEF Looked, TypeOK
  <1>5. \A q \in 1..arrived' : pc'[q] # "discover.look" => q \in L
    OBVIOUS
  <1> HIDE DEF L
  <1>6. IsFiniteSet(L) /\ Cardinality(L) <= arrived' /\ Cardinality(L) \in Nat
    BY <1>1, <1>3, FS_Subset, FS_CardinalityType
  <1>7. Cardinality(Looked) <= Cardinality(L)
    BY <1>4, <1>6, FS_Subset
  <1>8. ASSUME NEW q \in 1..arrived', pc'[q] # "discover.look", q \notin Looked
        PROVE  Cardinality(Looked) + 1 <= Cardinality(L)
    <2>1. Cardinality(Looked \cup {q}) = Cardinality(Looked) + 1
      BY <1>8, LookedSize, FS_AddElement
    <2>2. Looked \cup {q} \subseteq L
      BY <1>4, <1>5, <1>8
    <2>3. Cardinality(Looked \cup {q}) <= Cardinality(L)
      BY <2>2, <1>6, FS_Subset
    <2> QED
      BY <2>1, <2>3
  <1>9. Cardinality(Looked)' = Cardinality(L)
    BY <1>2
  <1> QED
    BY <1>6, <1>7, <1>8, <1>9
-----------------------------------------------------------------------------
(* Requests that arrive *)

\* Requests stay numbered.
LEMMA ArriveNumbered ==
  ASSUME TypeOK, Numbered, NEW q \in Requests, RequestType', Others(q), q = arrived + 1, arrived' = q,
         pc'[q] # "idle"
  PROVE  Numbered'
  BY Constants DEF Numbered, Others, TypeOK, Requests

LEMMA GoToNumbered ==
  ASSUME TypeOK, Numbered, NEW q \in Requests, RequestType', Others(q), arrived' = arrived,
         pc[q] # "idle", pc'[q] # "idle"
  PROVE  Numbered'
  BY Constants DEF Numbered, Others, TypeOK, Requests

\* What a step of request q leaves of Scoped: connections are never forgotten.
LEMMA StaysScoped ==
  ASSUME TypeOK, Scoped, NEW q \in Requests, Others(q), pc[q] # "done",
         \A c \in Conns : status[c] # "absent" => status'[c] # "absent" /\ owner'[c] = owner[c]
  PROVE  /\ \A p \in Requests : p # q /\ pc'[p] \in OwnLabels =>
               status'[conn'[p]] # "absent" /\ owner'[conn'[p]] = tenant'[p]
         /\ \A p \in Requests : p # q /\ pc'[p] = "baseline.commit" =>
               /\ version'[p] \in Requests /\ pc'[version'[p]] = "done"
               /\ status'[conn'[version'[p]]] # "absent" /\ owner'[conn'[version'[p]]] = tenant'[p]
         /\ \A s \in secrets : status'[s.conn] # "absent"
         /\ \A s \in snapshots : status'[s.conn] # "absent" /\ pc'[s.id] = "done" /\ s.conn = conn'[s.id]
  <1>1. \A p \in Requests : conn[p] \in Conns
    BY DEF TypeOK
  <1>2. \A p \in Requests : pc[p] = "done" => pc'[p] = "done" /\ conn'[p] = conn[p]
    BY DEF Others
  <1>3. ASSUME NEW p \in Requests, p # q, pc'[p] \in OwnLabels
        PROVE  status'[conn'[p]] # "absent" /\ owner'[conn'[p]] = tenant'[p]
    <2>1. pc'[p] = pc[p] /\ conn'[p] = conn[p] /\ tenant'[p] = tenant[p]
      BY <1>3 DEF Others
    <2> QED
      BY <1>1, <1>3, <2>1 DEF Scoped
  <1>4. ASSUME NEW p \in Requests, p # q, pc'[p] = "baseline.commit"
        PROVE  /\ version'[p] \in Requests /\ pc'[version'[p]] = "done"
               /\ status'[conn'[version'[p]]] # "absent" /\ owner'[conn'[version'[p]]] = tenant'[p]
    <2>1. pc[p] = "baseline.commit" /\ version'[p] = version[p] /\ tenant'[p] = tenant[p]
      BY <1>4 DEF Others
    <2>2. /\ version[p] \in Requests /\ pc[version[p]] = "done"
          /\ status[conn[version[p]]] # "absent" /\ owner[conn[version[p]]] = tenant[p]
      BY <2>1 DEF Scoped
    <2>3. pc'[version[p]] = "done" /\ conn'[version[p]] = conn[version[p]] /\ conn[version[p]] \in Conns
      BY <1>1, <1>2, <2>2
    <2> QED
      BY <2>1, <2>2, <2>3
  <1>5. \A s \in secrets : s.conn \in Conns
    BY DEF TypeOK, Secret
  <1>6. \A s \in snapshots : s.conn \in Conns /\ s.id \in Requests
    BY DEF TypeOK, Snapshot
  <1>7. \A s \in secrets : status'[s.conn] # "absent"
    BY <1>5 DEF Scoped
  <1>8. \A s \in snapshots : status'[s.conn] # "absent" /\ pc'[s.id] = "done" /\ s.conn = conn'[s.id]
    BY <1>2, <1>6 DEF Scoped
  <1> QED
    BY <1>3, <1>4, <1>7, <1>8

\* What it leaves of Bounded.
LEMMA StaysBounded ==
  ASSUME TypeOK, Bounded, NEW q \in Requests, Others(q), RequestType', arrived <= arrived',
         pc'[q] = "discover.look" => pc[q] \in {"idle", "discover.look"},
         pc'[q] \in {"create.secret", "rotate.insert"} => \A s \in secrets : s.by # q, Numbered
  PROVE  /\ \A p \in Requests : p # q /\ pc'[p] \in {"create.secret", "rotate.insert", "rotate.purge"} =>
               version'[p] \in 1..p
         /\ \A s \in secrets : /\ s.version <= s.by /\ s.by <= arrived'
                                /\ pc'[s.by] \notin {"create.secret", "rotate.insert"}
         /\ \A p \in Requests : p # q /\ pc'[p] \in {"discover.store", "drift.store"} =>
               version'[p] \in 1..(Cardinality(Looked)')
         /\ \A s \in snapshots : s.version <= Cardinality(Looked)'
         /\ Cardinality(Looked)' \in Nat /\ Cardinality(Looked)' <= arrived'
         /\ Cardinality(Looked) \in Nat /\ Cardinality(Looked) <= Cardinality(Looked)'
         /\ q \in 1..arrived' /\ pc'[q] # "discover.look" /\ q \notin Looked =>
               Cardinality(Looked) + 1 <= Cardinality(Looked)'
  <1>1. arrived \in Nat /\ arrived <= MaxRequests /\ arrived' \in Nat
    BY Constants DEF TypeOK, RequestType
  <1>2. \A p \in 1..arrived : p \in Requests /\ pc[p] # "idle"
    BY <1>1, Constants DEF Numbered, Requests
  <1>3. \A p \in 1..arrived : pc'[p] = "discover.look" => pc[p] = "discover.look"
    BY <1>2 DEF Others
  <1>4. /\ Cardinality(Looked)' \in Nat /\ Cardinality(Looked) <= Cardinality(Looked)'
        /\ Cardinality(Looked)' <= arrived'
        /\ q \in 1..arrived' /\ pc'[q] # "discover.look" /\ q \notin Looked
               => Cardinality(Looked) + 1 <= Cardinality(Looked)'
    BY <1>3, LookedGrows
  <1>5. Cardinality(Looked) \in Nat
    BY LookedSize
  <1>6. \A p \in Requests : p # q /\ pc'[p] \in {"create.secret", "rotate.insert", "rotate.purge"} =>
               version'[p] \in 1..p
    BY DEF Bounded, Others
  <1>7. ASSUME NEW s \in secrets
        PROVE  s.version <= s.by /\ s.by <= arrived' /\ pc'[s.by] \notin {"create.secret", "rotate.insert"}
    <2>1. s.by \in Requests /\ s.by \in Nat
      BY Constants DEF TypeOK, Secret, Requests
    <2>2. s.version <= s.by /\ s.by <= arrived /\ pc[s.by] \notin {"create.secret", "rotate.insert"}
      BY DEF Bounded
    <2> QED
      BY <1>1, <2>1, <2>2 DEF Others
  <1>8. ASSUME NEW p \in Requests, p # q, pc'[p] \in {"discover.store", "drift.store"}
        PROVE  version'[p] \in 1..(Cardinality(Looked)')
    <2>1. version'[p] \in 1..Cardinality(Looked)
      BY <1>8 DEF Bounded, Others
    <2> QED
      BY <1>4, <1>5, <2>1
  <1>9. ASSUME NEW s \in snapshots PROVE s.version <= Cardinality(Looked)'
    <2>1. s.version \in Nat /\ s.version <= Cardinality(Looked)
      BY Constants DEF Bounded, TypeOK, Snapshot, Versions
    <2> QED
      BY <1>4, <1>5, <2>1
  <1> QED
    BY <1>4, <1>5, <1>6, <1>7, <1>8, <1>9

\* A request that arrives is new: nothing refers to it.
LEMMA NewRequest ==
  ASSUME ConnInv, NEW q \in Requests, q = arrived + 1
  PROVE  /\ pc[q] = "idle" /\ q \notin Looked
         /\ \A s \in secrets : s.by # q
         /\ \A s \in snapshots : s.id # q
         /\ \A p \in Requests : pc[p] = "baseline.commit" => version[p] # q
  <1>1. arrived \in Nat /\ q \in Nat
    BY Constants DEF ConnInv, TypeOK, Requests
  <1>2. pc[q] = "idle"
    BY <1>1 DEF ConnInv, Numbered
  <1>3. q \notin Looked
    BY <1>1 DEF Looked
  <1>4. \A s \in secrets : s.by # q
    BY <1>1 DEF ConnInv, Bounded, TypeOK, Secret, Requests
  <1> QED
    BY <1>2, <1>3, <1>4 DEF ConnInv, Scoped

\* The version a rotation draws.
LEMMA RotationNumber ==
  ASSUME ConnInv, NEW c \in Conns, NEW t \in Tenants, arrived < MaxRequests
  PROVE  /\ Latest(secrets, c, t) + 1 \in Versions
         /\ Latest(secrets, c, t) + 1 \in 1 .. arrived + 1
  <1>1. \A r \in secrets : r.version \in Versions /\ r.version <= arrived
    BY Constants DEF ConnInv, TypeOK, Bounded, Secret, Versions, Requests
  <1>2. /\ Latest(secrets, c, t) \in Versions
        /\ Latest(secrets, c, t) = 0 \/ \E r \in RowsOf(secrets, c, t) : r.version = Latest(secrets, c, t)
    BY <1>1, LatestVersion
  <1>3. Latest(secrets, c, t) <= arrived
    BY <1>1, <1>2, Constants DEF RowsOf, ConnInv, TypeOK
  <1> QED
    BY <1>2, <1>3, Constants DEF Versions, ConnInv, TypeOK

\* The endpoints that read on arrival and change nothing yet.
LEMMA Reads ==
  ASSUME ConnInv, NEW q \in Requests, NEW c \in Conns, NEW t \in Tenants,
         NEW label \in (OwnLabels \ {"create.secret", "rotate.purge", "discover.store"}) \cup {"baseline.commit"},
         NEW number \in Versions, Arrive(q, c, t, label, number),
         UNCHANGED <<dbVars, died>>, borrowed' \in BOOLEAN, borrowed => borrowed',
         label \in OwnLabels => GetById(c, t),
         label = "test.commit" => status[c] # "disabled",
         label = "rotate.insert" => number = Latest(secrets, c, t) + 1,
         label = "drift.store" => number = 1 /\ GetBaseline(c, t) = {},
         label = "baseline.commit" => \E s \in snapshots :
             s.id = number /\ owner[s.conn] = t /\ (s.conn # c => borrowed')
  PROVE  ConnInv'
  <1> USE DEF ConnInv
  <1>1. /\ RequestType' /\ Others(q) /\ q = arrived + 1 /\ arrived' = q
        /\ pc'[q] = label /\ conn'[q] = c /\ tenant'[q] = t
        /\ loaded'[q] = status[c] /\ version'[q] = number
        /\ foreignKeys' = foreignKeys /\ limit' = limit
    <2>1. label \in Labels
      BY DEF OwnLabels, Labels
    <2> QED
      BY <2>1, ArriveEffect
  <1>2. /\ status' = status /\ owner' = owner /\ secrets' = secrets /\ snapshots' = snapshots
        /\ died' = died
    BY DEF dbVars
  <1>3. arrived < MaxRequests /\ Cardinality(InFlight) < limit
    BY DEF Arrive
  <1>4. /\ pc[q] = "idle" /\ q \notin Looked
        /\ \A s \in secrets : s.by # q
        /\ \A s \in snapshots : s.id # q
        /\ \A p \in Requests : pc[p] = "baseline.commit" => version[p] # q
    BY <1>1, NewRequest
  <1>5. TypeOK'
    <2>1. foreignKeys' \in BOOLEAN /\ died' \in BOOLEAN /\ borrowed' \in BOOLEAN
      BY <1>1, <1>2, Zenon DEF TypeOK
    <2>2. /\ limit' \in Limits /\ status' \in [Conns -> Status] /\ owner' \in [Conns -> Tenants]
          /\ secrets' \subseteq Secret /\ snapshots' \subseteq Snapshot
      BY <1>1, <1>2 DEF TypeOK
    <2> QED
      BY <1>1, <2>1, <2>2 DEF TypeOK, RequestType
  <1>6. Numbered'
    <2>1. label # "idle"
      BY DEF OwnLabels
    <2> QED
      BY <1>1, <2>1, ArriveNumbered
  <1>7. Scoped'
    <2>1. \A d \in Conns : status[d] # "absent" => status'[d] # "absent" /\ owner'[d] = owner[d]
      BY <1>2
    <2>2. /\ \A p \in Requests : p # q /\ pc'[p] \in OwnLabels =>
               status'[conn'[p]] # "absent" /\ owner'[conn'[p]] = tenant'[p]
          /\ \A p \in Requests : p # q /\ pc'[p] = "baseline.commit" =>
               /\ version'[p] \in Requests /\ pc'[version'[p]] = "done"
               /\ status'[conn'[version'[p]]] # "absent" /\ owner'[conn'[version'[p]]] = tenant'[p]
          /\ \A s \in secrets : status'[s.conn] # "absent"
          /\ \A s \in snapshots : status'[s.conn] # "absent" /\ pc'[s.id] = "done" /\ s.conn = conn'[s.id]
      BY <1>1, <1>4, <2>1, StaysScoped
    <2>3. pc'[q] \in OwnLabels => status'[conn'[q]] # "absent" /\ owner'[conn'[q]] = tenant'[q]
      BY <1>1, <1>2 DEF GetById, Exists
    <2>4. ASSUME label = "baseline.commit"
          PROVE  /\ version'[q] \in Requests /\ pc'[version'[q]] = "done"
                 /\ status'[conn'[version'[q]]] # "absent" /\ owner'[conn'[version'[q]]] = tenant'[q]
      <3>1. PICK s \in snapshots : s.id = number /\ owner[s.conn] = t
        BY <2>4
      <3>2. s.id \in Requests /\ status'[s.conn] # "absent" /\ pc'[s.id] = "done" /\ s.conn = conn'[s.id]
        BY <2>2 DEF TypeOK, Snapshot
      <3> QED
        BY <1>1, <1>2, <3>1, <3>2
    <2>5. \A s, u \in snapshots : s.id = u.id => s = u
      BY DEF Scoped
    <2> QED
      BY <1>1, <1>2, <2>2, <2>3, <2>4, <2>5 DEF Scoped
  <1>8. Bounded'
    <2>1. q \in 1..arrived' /\ arrived <= arrived'
      BY <1>1, Constants DEF TypeOK, Requests
    <2>2. /\ \A p \in Requests : p # q /\ pc'[p] \in {"create.secret", "rotate.insert", "rotate.purge"} =>
               version'[p] \in 1..p
          /\ \A s \in secrets : /\ s.version <= s.by /\ s.by <= arrived'
                                 /\ pc'[s.by] \notin {"create.secret", "rotate.insert"}
          /\ \A p \in Requests : p # q /\ pc'[p] \in {"discover.store", "drift.store"} =>
               version'[p] \in 1..(Cardinality(Looked)')
          /\ \A s \in snapshots : s.version <= Cardinality(Looked)'
          /\ Cardinality(Looked)' \in Nat /\ Cardinality(Looked) \in Nat
          /\ label # "discover.look" => Cardinality(Looked) + 1 <= Cardinality(Looked)'
      BY <1>1, <1>4, <2>1, StaysBounded
    <2>3. label = "rotate.insert" => version'[q] \in 1..q
      BY <1>1, <1>3, RotationNumber
    <2>4. label = "drift.store" => version'[q] \in 1..(Cardinality(Looked)')
      BY <1>1, <2>2
    <2>5. label \notin {"create.secret", "rotate.purge", "discover.store"}
      BY DEF OwnLabels
    <2> QED
      BY <1>1, <1>2, <2>2, <2>3, <2>4, <2>5 DEF Bounded
  <1>9. Kept'
    <2> SUFFICES ASSUME NEW p \in Requests
                 PROVE  /\ pc'[p] = "rotate.purge" /\ Exists(conn'[p]) =>
                              \E s \in secrets : s.conn = conn'[p] /\ s.version >= version'[p]
                        /\ pc'[p] = "test.commit" => loaded'[p] # "disabled"
      BY <1>2 DEF Kept, Exists
    <2>1. CASE p = q
      BY <1>1, <2>1 DEF OwnLabels
    <2>2. CASE p # q
      BY <1>1, <2>2 DEF Kept, Others
    <2> QED
      BY <2>1, <2>2
  <1>10. NoOrphans'
    BY <1>1, <1>2 DEF NoOrphans, Exists
  <1>11. ASSUME limit = 1 PROVE \A p \in Requests : p # q => pc'[p] \in {"idle", "done"} /\ pc[p] = pc'[p]
    BY <1>1, <1>3, <1>11, NoneInFlight DEF Others
  <1>12. Alone'
    <2> SUFFICES ASSUME limit = 1, NEW p \in Requests
                 PROVE  /\ pc'[p] \notin {"idle", "done"} => p = arrived'
                        /\ pc'[p] = "test.commit" => loaded'[p] = status[conn'[p]]
                        /\ pc'[p] = "create.secret" => \A s \in secrets : s.conn # conn'[p]
                        /\ pc'[p] = "rotate.insert" =>
                              \A s \in secrets : s.conn = conn'[p] => s.version < version'[p]
                        /\ pc'[p] = "rotate.purge" =>
                              \A s \in secrets : s.conn = conn'[p] /\ s.version >= version'[p] =>
                                  s.version = version'[p] /\ s.by = p
      BY <1>1, <1>2 DEF Alone
    <2>1. CASE p # q
      BY <1>11, <2>1
    <2>2. CASE p = q
      <3>1. label # "create.secret" /\ label # "rotate.purge"
        BY DEF OwnLabels
      <3>2. ASSUME label = "rotate.insert", NEW s \in secrets, s.conn = c PROVE s.version < number
        <4>1. \A r \in secrets : r.version \in Versions
          BY DEF TypeOK, Secret
        <4>2. s \in RowsOf(secrets, c, t)
          BY <3>2 DEF RowsOf, GetById, OwnLabels
        <4>3. s.version <= Latest(secrets, c, t) /\ Latest(secrets, c, t) \in Versions
          BY <4>1, <4>2, LatestVersion
        <4> QED
          BY <3>2, <4>1, <4>3, Constants DEF Versions
      <3> QED
        BY <1>1, <2>2, <3>1, <3>2
    <2> QED
      BY <2>1, <2>2
  <1>13. Rotated'
    <2> SUFFICES ASSUME limit = 1
                 PROVE  /\ \A s, u \in secrets : s.conn = u.conn /\ s.by < u.by => s.version < u.version
                        /\ \A s, u \in secrets : s.conn = u.conn /\ s # u => died
      BY <1>1, <1>2 DEF Rotated
    <2>1. \A p \in Requests : pc[p] # "rotate.purge"
      BY <1>4, <1>11
    <2> QED
      BY <2>1 DEF Rotated
  <1>14. Baselined'
    <2> SUFFICES ASSUME limit = 1, ~ borrowed' PROVE Baselined'
      BY <1>1 DEF Baselined
    <2>1. ~ borrowed
      OBVIOUS
    <2>2. /\ \A s, u \in snapshots : s.conn = u.conn /\ s # u =>
              s.version # u.version /\ ~ (s.baseline /\ u.baseline)
          /\ \A s \in snapshots : \E u \in snapshots : u.conn = s.conn /\ u.baseline
      BY <2>1 DEF Baselined
    <2>3. \A p \in Requests : pc'[p] # "discover.store"
      BY <1>1, <1>11 DEF OwnLabels
    <2>4. ASSUME NEW p \in Requests, pc'[p] = "drift.store" PROVE \A s \in snapshots : s.conn # conn'[p]
      <3>1. p = q /\ label = "drift.store"
        BY <1>1, <1>11, <2>4
      <3>2. owner[c] = t /\ GetBaseline(c, t) = {}
        BY <3>1 DEF GetById, OwnLabels
      <3>3. \A u \in snapshots : ~ (u.conn = c /\ u.baseline)
        BY <3>2 DEF GetBaseline, RowsOf
      <3> QED
        BY <1>1, <2>2, <3>1, <3>3
    <2>5. ASSUME NEW p \in Requests, pc'[p] = "baseline.commit"
          PROVE  /\ owner[conn'[p]] = tenant'[p]
                 /\ \E s \in snapshots : s.id = version'[p] /\ s.conn = conn'[p]
      <3>1. p = q /\ label = "baseline.commit"
        BY <1>1, <1>11, <2>5
      <3>2. \E s \in snapshots : s.id = number /\ owner[s.conn] = t /\ s.conn = c
        BY <3>1
      <3> QED
        BY <1>1, <3>1, <3>2
    <2> QED
      BY <1>2, <2>2, <2>3, <2>4, <2>5 DEF Baselined
  <1> QED
    BY <1>5, <1>6, <1>7, <1>8, <1>9, <1>10, <1>12, <1>13, <1>14

LEMMA Creates ==
  ASSUME ConnInv, NEW q \in Requests, NEW c \in Conns, NEW t \in Tenants, NEW credentials \in BOOLEAN,
         CreateConnection(q, c, t, credentials)
  PROVE  ConnInv'
  <1> USE DEF ConnInv
  <1> DEFINE label == IF credentials THEN "create.secret" ELSE "audit"
  <1>0. label \in {"create.secret", "audit"} /\ 1 \in Versions
    BY Constants DEF Versions
  <1>1. /\ RequestType' /\ Others(q) /\ q = arrived + 1 /\ arrived' = q
        /\ pc'[q] = label /\ conn'[q] = c /\ tenant'[q] = t /\ version'[q] = 1
        /\ foreignKeys' = foreignKeys /\ limit' = limit
    <2>1. label \in Labels
      BY <1>0 DEF Labels
    <2>2. Arrive(q, c, t, label, 1)
      BY DEF CreateConnection
    <2> HIDE DEF label
    <2> QED
      BY <1>0, <2>1, <2>2, ArriveEffect
  <1>2. /\ status[c] = "absent" /\ status' = [status EXCEPT ![c] = "healthy"]
        /\ owner' = [owner EXCEPT ![c] = t]
        /\ secrets' = secrets /\ snapshots' = snapshots /\ died' = died /\ borrowed' = borrowed
        /\ Cardinality(InFlight) < limit
    BY DEF CreateConnection, Arrive, history
  <1> HIDE DEF label
  <1>3. /\ pc[q] = "idle" /\ \A s \in secrets : s.by # q
    BY <1>1, NewRequest
  <1>4. /\ status'[c] = "healthy" /\ owner'[c] = t
        /\ \A d \in Conns : d # c => status'[d] = status[d] /\ owner'[d] = owner[d]
    BY <1>2 DEF TypeOK
  <1>5. /\ \A s \in secrets : s.conn \in Conns /\ s.conn # c
        /\ \A s \in snapshots : s.conn \in Conns /\ s.conn # c
    BY <1>2 DEF Scoped, TypeOK, Secret, Snapshot
  <1>6. TypeOK'
    <2>1. foreignKeys' \in BOOLEAN /\ died' \in BOOLEAN /\ borrowed' \in BOOLEAN
      BY <1>1, <1>2, Zenon DEF TypeOK
    <2>2. /\ limit' \in Limits /\ status' \in [Conns -> Status] /\ owner' \in [Conns -> Tenants]
          /\ secrets' \subseteq Secret /\ snapshots' \subseteq Snapshot
      BY <1>1, <1>2 DEF TypeOK, Status
    <2> QED
      BY <1>1, <2>1, <2>2 DEF TypeOK, RequestType
  <1>7. Numbered'
    BY <1>0, <1>1, ArriveNumbered
  <1>8. Scoped'
    <2>1. \A d \in Conns : status[d] # "absent" => status'[d] # "absent" /\ owner'[d] = owner[d]
      BY <1>2, <1>4
    <2>2. /\ \A p \in Requests : p # q /\ pc'[p] \in OwnLabels =>
               status'[conn'[p]] # "absent" /\ owner'[conn'[p]] = tenant'[p]
          /\ \A p \in Requests : p # q /\ pc'[p] = "baseline.commit" =>
               /\ version'[p] \in Requests /\ pc'[version'[p]] = "done"
               /\ status'[conn'[version'[p]]] # "absent" /\ owner'[conn'[version'[p]]] = tenant'[p]
          /\ \A s \in secrets : status'[s.conn] # "absent"
          /\ \A s \in snapshots : status'[s.conn] # "absent" /\ pc'[s.id] = "done" /\ s.conn = conn'[s.id]
      BY <1>1, <1>3, <2>1, StaysScoped
    <2>3. \A s, u \in snapshots : s.id = u.id => s = u
      BY DEF Scoped
    <2> QED
      BY <1>0, <1>1, <1>2, <1>4, <2>2, <2>3 DEF Scoped
  <1>9. Bounded'
    <2>1. q \in 1..arrived' /\ arrived <= arrived'
      BY <1>1, Constants DEF TypeOK, Requests
    <2>2. /\ \A p \in Requests : p # q /\ pc'[p] \in {"create.secret", "rotate.insert", "rotate.purge"} =>
               version'[p] \in 1..p
          /\ \A s \in secrets : /\ s.version <= s.by /\ s.by <= arrived'
                                 /\ pc'[s.by] \notin {"create.secret", "rotate.insert"}
          /\ \A p \in Requests : p # q /\ pc'[p] \in {"discover.store", "drift.store"} =>
               version'[p] \in 1..(Cardinality(Looked)')
          /\ \A s \in snapshots : s.version <= Cardinality(Looked)'
      BY <1>0, <1>1, <1>3, <2>1, StaysBounded
    <2>3. version'[q] \in 1..q
      BY <1>1, <2>1
    <2> QED
      BY <1>0, <1>1, <1>2, <2>2, <2>3 DEF Bounded
  <1>10. Kept'
    <2> SUFFICES ASSUME NEW p \in Requests
                 PROVE  /\ pc'[p] = "rotate.purge" /\ Exists(conn[p])' =>
                              \E s \in secrets : s.conn = conn'[p] /\ s.version >= version'[p]
                        /\ pc'[p] = "test.commit" => loaded'[p] # "disabled"
      BY <1>2 DEF Kept, Exists
    <2>1. CASE p = q
      BY <1>0, <1>1, <2>1
    <2>2. CASE p # q
      <3>1. pc'[p] = pc[p] /\ conn'[p] = conn[p] /\ loaded'[p] = loaded[p] /\ version'[p] = version[p]
        BY <1>1, <2>2 DEF Others
      <3>2. pc[p] = "rotate.purge" => conn[p] \in Conns /\ conn[p] # c
        BY <1>2 DEF Scoped, OwnLabels, TypeOK
      <3> QED
        BY <1>4, <3>1, <3>2 DEF Kept, Exists
    <2> QED
      BY <2>1, <2>2
  <1>11. NoOrphans'
    BY <1>1, <1>2, <1>4, <1>5 DEF NoOrphans, Exists
  <1>12. ASSUME limit = 1 PROVE \A p \in Requests : p # q => pc'[p] \in {"idle", "done"} /\ pc[p] = pc'[p]
    BY <1>1, <1>2, <1>12, NoneInFlight DEF Others
  <1>13. Alone'
    BY <1>0, <1>1, <1>2, <1>5, <1>12 DEF Alone
  <1>14. Rotated'
    <2> SUFFICES ASSUME limit = 1
                 PROVE  /\ \A s, u \in secrets : s.conn = u.conn /\ s.by < u.by => s.version < u.version
                        /\ \A s, u \in secrets : s.conn = u.conn /\ s # u => died
      BY <1>1, <1>2 DEF Rotated
    <2>1. \A p \in Requests : pc[p] # "rotate.purge"
      BY <1>3, <1>12
    <2> QED
      BY <2>1 DEF Rotated
  <1>15. Baselined'
    BY <1>0, <1>1, <1>2, <1>12 DEF Baselined
  <1> QED
    BY <1>6, <1>7, <1>8, <1>9, <1>10, <1>11, <1>13, <1>14, <1>15

LEMMA Deletes ==
  ASSUME ConnInv, NEW q \in Requests, NEW c \in Conns, NEW t \in Tenants, DeleteConnection(q, c, t)
  PROVE  ConnInv'
  <1> USE DEF ConnInv
  <1>1. /\ RequestType' /\ Others(q) /\ q = arrived + 1 /\ arrived' = q
        /\ pc'[q] = "audit" /\ conn'[q] = c /\ tenant'[q] = t
        /\ foreignKeys' = foreignKeys /\ limit' = limit
    <2>1. "audit" \in Labels /\ 0 \in Versions
      BY Constants DEF Labels, Versions
    <2>2. Arrive(q, c, t, "audit", 0)
      BY DEF DeleteConnection
    <2> QED
      BY <2>1, <2>2, ArriveEffect
  <1>2. /\ status[c] # "absent" /\ status' = [status EXCEPT ![c] = "deleted"]
        /\ owner' = owner /\ died' = died /\ borrowed' = borrowed
        /\ Cardinality(InFlight) < limit
    BY DEF DeleteConnection, Arrive, history, GetById, Exists
  <1>3. /\ secrets' \subseteq secrets
        /\ \A s \in secrets : s.conn # c => s \in secrets'
        /\ foreignKeys => \A s \in secrets' : s.conn # c
    BY DEF DeleteConnection
  <1>4. /\ snapshots' \subseteq snapshots
        /\ \A s \in snapshots : s.conn # c => s \in snapshots'
        /\ foreignKeys => \A s \in snapshots' : s.conn # c
        /\ ~ foreignKeys => snapshots' = snapshots
    BY DEF DeleteConnection
  <1>5. /\ pc[q] = "idle" /\ \A s \in secrets : s.by # q
    BY <1>1, NewRequest
  <1>6. /\ status'[c] = "deleted"
        /\ \A d \in Conns : d # c => status'[d] = status[d]
    BY <1>2 DEF TypeOK
  <1>7. TypeOK'
    <2>1. foreignKeys' \in BOOLEAN /\ died' \in BOOLEAN /\ borrowed' \in BOOLEAN
      BY <1>1, <1>2, Zenon DEF TypeOK
    <2>2. limit' \in Limits /\ status' \in [Conns -> Status] /\ owner' \in [Conns -> Tenants]
      BY <1>1, <1>2 DEF TypeOK, Status
    <2>3. secrets' \subseteq Secret /\ snapshots' \subseteq Snapshot
      BY <1>3, <1>4 DEF TypeOK
    <2> QED
      BY <1>1, <2>1, <2>2, <2>3 DEF TypeOK, RequestType
  <1>8. Numbered'
    BY <1>1, ArriveNumbered
  <1>9. Scoped'
    <2>1. \A d \in Conns : status[d] # "absent" => status'[d] # "absent" /\ owner'[d] = owner[d]
      BY <1>2, <1>6
    <2>2. /\ \A p \in Requests : p # q /\ pc'[p] \in OwnLabels =>
               status'[conn'[p]] # "absent" /\ owner'[conn'[p]] = tenant'[p]
          /\ \A p \in Requests : p # q /\ pc'[p] = "baseline.commit" =>
               /\ version'[p] \in Requests /\ pc'[version'[p]] = "done"
               /\ status'[conn'[version'[p]]] # "absent" /\ owner'[conn'[version'[p]]] = tenant'[p]
          /\ \A s \in secrets : status'[s.conn] # "absent"
          /\ \A s \in snapshots : status'[s.conn] # "absent" /\ pc'[s.id] = "done" /\ s.conn = conn'[s.id]
      BY <1>1, <1>5, <2>1, StaysScoped
    <2>3. \A s, u \in snapshots : s.id = u.id => s = u
      BY DEF Scoped
    <2>4. "audit" \notin OwnLabels
      BY DEF OwnLabels
    <2> QED
      BY <1>1, <1>3, <1>4, <2>2, <2>3, <2>4 DEF Scoped
  <1>10. Bounded'
    <2>1. arrived <= arrived'
      BY <1>1, Constants DEF TypeOK, Requests
    <2>2. /\ \A p \in Requests : p # q /\ pc'[p] \in {"create.secret", "rotate.insert", "rotate.purge"} =>
               version'[p] \in 1..p
          /\ \A s \in secrets : /\ s.version <= s.by /\ s.by <= arrived'
                                 /\ pc'[s.by] \notin {"create.secret", "rotate.insert"}
          /\ \A p \in Requests : p # q /\ pc'[p] \in {"discover.store", "drift.store"} =>
               version'[p] \in 1..(Cardinality(Looked)')
          /\ \A s \in snapshots : s.version <= Cardinality(Looked)'
      BY <1>1, <1>5, <2>1, StaysBounded
    <2> QED
      BY <1>1, <1>3, <1>4, <2>2 DEF Bounded
  <1>11. Kept'
    <2> SUFFICES ASSUME NEW p \in Requests
                 PROVE  /\ pc'[p] = "rotate.purge" /\ Exists(conn[p])' =>
                              \E s \in secrets' : s.conn = conn'[p] /\ s.version >= version'[p]
                        /\ pc'[p] = "test.commit" => loaded'[p] # "disabled"
      BY DEF Kept, Exists
    <2>1. CASE p = q
      BY <1>1, <2>1
    <2>2. CASE p # q
      <3>1. /\ pc'[p] = pc[p] /\ conn'[p] = conn[p] /\ loaded'[p] = loaded[p] /\ version'[p] = version[p]
            /\ conn[p] \in Conns
        BY <1>1, <2>2 DEF Others, TypeOK
      <3>2. Exists(conn[p])' => conn[p] # c /\ Exists(conn[p])
        BY <1>6, <3>1 DEF Exists
      <3>3. pc[p] = "rotate.purge" /\ Exists(conn[p]) =>
              \E s \in secrets : s.conn = conn[p] /\ s.version >= version[p]
        BY DEF Kept
      <3>4. pc[p] = "test.commit" => loaded[p] # "disabled"
        BY DEF Kept
      <3> QED
        BY <1>3, <3>1, <3>2, <3>3, <3>4
    <2> QED
      BY <2>1, <2>2
  <1>12. NoOrphans'
    <2> SUFFICES ASSUME foreignKeys, NEW r \in secrets' \cup snapshots' PROVE Exists(r.conn)'
      BY <1>1 DEF NoOrphans, Exists
    <2>1. r \in secrets \cup snapshots /\ r.conn # c /\ r.conn \in Conns
      BY <1>3, <1>4 DEF TypeOK, Secret, Snapshot
    <2> QED
      BY <1>6, <2>1 DEF NoOrphans, Exists
  <1>13. ASSUME limit = 1 PROVE \A p \in Requests : p # q => pc'[p] \in {"idle", "done"} /\ pc[p] = pc'[p]
    BY <1>1, <1>2, <1>13, NoneInFlight DEF Others
  <1>14. Alone'
    BY <1>1, <1>13 DEF Alone
  <1>15. Rotated'
    <2> SUFFICES ASSUME limit = 1
                 PROVE  /\ \A s, u \in secrets : s.conn = u.conn /\ s.by < u.by => s.version < u.version
                        /\ \A s, u \in secrets : s.conn = u.conn /\ s # u => died
      BY <1>1, <1>2, <1>3 DEF Rotated
    <2>1. \A p \in Requests : pc[p] # "rotate.purge"
      BY <1>5, <1>13
    <2> QED
      BY <2>1 DEF Rotated
  <1>16. Baselined'
    <2> SUFFICES ASSUME limit = 1, ~ borrowed
                 PROVE  /\ \A s, u \in snapshots' : s.conn = u.conn /\ s # u =>
                            s.version # u.version /\ ~ (s.baseline /\ u.baseline)
                        /\ \A s \in snapshots' : \E u \in snapshots' : u.conn = s.conn /\ u.baseline
      BY <1>1, <1>2, <1>13 DEF Baselined
    <2>1. /\ \A s, u \in snapshots : s.conn = u.conn /\ s # u =>
              s.version # u.version /\ ~ (s.baseline /\ u.baseline)
          /\ \A s \in snapshots : \E u \in snapshots : u.conn = s.conn /\ u.baseline
      BY DEF Baselined
    <2> QED
      BY <1>4, <2>1
  <1> QED
    BY <1>7, <1>8, <1>9, <1>10, <1>11, <1>12, <1>14, <1>15, <1>16
-----------------------------------------------------------------------------
(* Requests that go on *)

\* Where requests never overlap, the one that goes on is the only one.
LEMMA OnlyOne ==
  ASSUME ConnInv, limit = 1, NEW q \in Requests, pc[q] \notin {"idle", "done"}
  PROVE  q = arrived /\ \A p \in Requests : p # q => pc[p] \in {"idle", "done"}
  BY DEF ConnInv, Alone

\* What a request that goes on keeps of Numbered, Scoped and Bounded.
LEMMA GoesOn ==
  ASSUME ConnInv, NEW q \in Requests, NEW label \in Labels \ {"idle", "discover.look"}, GoTo(q, label),
         pc[q] \notin {"idle", "done"}, label \notin {"create.secret", "rotate.insert"},
         \A c \in Conns : status[c] # "absent" => status'[c] # "absent" /\ owner'[c] = owner[c]
  PROVE  /\ Numbered'
         /\ \A p \in Requests : p # q /\ pc'[p] \in OwnLabels =>
               status'[conn'[p]] # "absent" /\ owner'[conn'[p]] = tenant'[p]
         /\ \A p \in Requests : p # q /\ pc'[p] = "baseline.commit" =>
               /\ version'[p] \in Requests /\ pc'[version'[p]] = "done"
               /\ status'[conn'[version'[p]]] # "absent" /\ owner'[conn'[version'[p]]] = tenant'[p]
         /\ \A s \in secrets : status'[s.conn] # "absent"
         /\ \A s \in snapshots : status'[s.conn] # "absent" /\ pc'[s.id] = "done" /\ s.conn = conn'[s.id]
         /\ \A s, u \in snapshots : s.id = u.id => s = u
         /\ \A p \in Requests : p # q /\ pc'[p] \in {"create.secret", "rotate.insert", "rotate.purge"} =>
               version'[p] \in 1..p
         /\ \A s \in secrets : /\ s.version <= s.by /\ s.by <= arrived'
                               /\ pc'[s.by] \notin {"create.secret", "rotate.insert"}
         /\ \A p \in Requests : p # q /\ pc'[p] \in {"discover.store", "drift.store"} =>
               version'[p] \in 1..(Cardinality(Looked)')
         /\ \A s \in snapshots : s.version <= Cardinality(Looked)'
         /\ Cardinality(Looked)' \in Nat
         /\ Cardinality(Looked) \in Nat /\ Cardinality(Looked) <= Cardinality(Looked)'
  <1> USE DEF ConnInv
  <1>1. RequestType' /\ Others(q) /\ pc'[q] = label /\ arrived' = arrived
    BY GoToEffect
  <1>2. Numbered'
    BY <1>1, GoToNumbered
  <1>3. arrived <= arrived'
    BY <1>1, Constants DEF TypeOK
  <1>4. \A s, u \in snapshots : s.id = u.id => s = u
    BY DEF Scoped
  <1> HIDE DEF ConnInv
  <1>5. TypeOK /\ Numbered /\ Scoped /\ Bounded
    BY DEF ConnInv
  <1> QED
    BY <1>1, <1>2, <1>3, <1>4, <1>5, StaysScoped, StaysBounded

\* A request that ends, or goes to its audit event, without a change.
LEMMA Ends ==
  ASSUME ConnInv, NEW q \in Requests, NEW label \in {"audit", "done"}, GoTo(q, label),
         pc[q] \notin {"idle", "done"}, UNCHANGED <<dbVars, borrowed>>,
         died' \in BOOLEAN, died => died', pc[q] = "rotate.purge" => died'
  PROVE  ConnInv'
  <1> USE DEF ConnInv
  <1>1. /\ RequestType' /\ Others(q) /\ pc'[q] = label
        /\ arrived' = arrived /\ foreignKeys' = foreignKeys /\ limit' = limit
    <2>1. label \in Labels
      BY DEF Labels
    <2> QED
      BY <2>1, GoToEffect
  <1>2. /\ status' = status /\ owner' = owner /\ secrets' = secrets /\ snapshots' = snapshots
        /\ borrowed' = borrowed
    BY DEF dbVars
  <1>3. TypeOK'
    <2>1. foreignKeys' \in BOOLEAN /\ died' \in BOOLEAN /\ borrowed' \in BOOLEAN
      BY <1>1, <1>2, Zenon DEF TypeOK
    <2>2. /\ limit' \in Limits /\ status' \in [Conns -> Status] /\ owner' \in [Conns -> Tenants]
          /\ secrets' \subseteq Secret /\ snapshots' \subseteq Snapshot
      BY <1>1, <1>2 DEF TypeOK
    <2> QED
      BY <1>1, <2>1, <2>2 DEF TypeOK, RequestType
  <1>4. Numbered' /\ Scoped' /\ Bounded'
    <2>1. \A d \in Conns : status[d] # "absent" => status'[d] # "absent" /\ owner'[d] = owner[d]
      BY <1>2
    <2>2. label \in Labels \ {"idle", "discover.look"} /\ label \notin {"create.secret", "rotate.insert"}
      BY DEF Labels
    <2>3. label \notin OwnLabels
      BY DEF OwnLabels
    <2> HIDE DEF ConnInv
    <2>4. Numbered' /\ Scoped'
      BY <1>1, <1>2, <2>1, <2>2, <2>3, GoesOn DEF Scoped
    <2>5. Bounded'
      BY <1>1, <1>2, <2>1, <2>2, GoesOn DEF Bounded
    <2> QED
      BY <2>4, <2>5
  <1>5. Kept'
    BY <1>1, <1>2 DEF Kept, Others, Exists
  <1>6. NoOrphans'
    BY <1>1, <1>2 DEF NoOrphans, Exists
  <1>7. Alone'
    <2> SUFFICES ASSUME limit = 1
                 PROVE  q = arrived /\ \A p \in Requests : pc'[p] \in {"idle", "done"} \/ (p = q /\ pc'[p] \in {"audit", "done"})
      BY <1>1 DEF Alone
    <2>1. q = arrived /\ \A p \in Requests : p # q => pc[p] \in {"idle", "done"}
      BY OnlyOne
    <2> QED
      BY <1>1, <2>1 DEF Others
  <1>8. Rotated'
    <2> SUFFICES ASSUME limit = 1
                 PROVE  /\ \A s, u \in secrets : s.conn = u.conn /\ s.by < u.by => s.version < u.version
                        /\ \A s, u \in secrets : s.conn = u.conn /\ s # u =>
                            died' \/ \E p \in Requests : pc'[p] = "rotate.purge" /\ conn'[p] = s.conn
      BY <1>1, <1>2 DEF Rotated
    <2>1. \A p \in Requests : pc[p] = "rotate.purge" => died' \/ (pc'[p] = "rotate.purge" /\ conn'[p] = conn[p])
      BY <1>1 DEF Others
    <2> QED
      BY <2>1 DEF Rotated
  <1>9. Baselined'
    <2> SUFFICES ASSUME limit = 1, ~ borrowed PROVE Baselined'
      BY <1>1, <1>2 DEF Baselined
    <2>1. \A p \in Requests : pc'[p] \in {"idle", "done", "audit"}
      BY <1>1, OnlyOne DEF Others
    <2>2. /\ \A s, u \in snapshots : s.conn = u.conn /\ s # u =>
              s.version # u.version /\ ~ (s.baseline /\ u.baseline)
          /\ \A s \in snapshots : \E u \in snapshots : u.conn = s.conn /\ u.baseline
      BY DEF Baselined
    <2> QED
      BY <1>2, <2>1, <2>2 DEF Baselined
  <1> QED
    BY <1>3, <1>4, <1>5, <1>6, <1>7, <1>8, <1>9

\* A toggle or a test writes the status of an existing connection.
LEMMA WritesStatus ==
  ASSUME ConnInv, NEW q \in Requests, pc[q] \in {"toggle.commit", "test.commit"},
         NEW new \in {"healthy", "degraded", "disabled"}, WriteStatus(q, new),
         UNCHANGED <<owner, secrets, snapshots, borrowed>>
  PROVE  ConnInv'
  <1> USE DEF ConnInv
  <1>1. CASE new = loaded[q] \/ ~ Exists(conn[q])
    <2>1. UNCHANGED <<dbVars, borrowed>> /\ died' \in BOOLEAN /\ (died => died')
      BY <1>1, Zenon DEF WriteStatus, dbVars, TypeOK
    <2>2. \E label \in {"audit", "done"} : GoTo(q, label)
      BY <1>1 DEF WriteStatus
    <2> QED
      BY <2>1, <2>2, Ends
  <1>2. CASE ~ (new = loaded[q] \/ ~ Exists(conn[q]))
    <2>1. GoTo(q, "audit") /\ status' = [status EXCEPT ![conn[q]] = new] /\ died' = died
      BY <1>2 DEF WriteStatus
    <2>2. /\ RequestType' /\ Others(q) /\ pc'[q] = "audit"
          /\ arrived' = arrived /\ foreignKeys' = foreignKeys /\ limit' = limit
      <3>1. "audit" \in Labels
        BY DEF Labels
      <3> QED
        BY <2>1, <3>1, GoToEffect
    <2>3. /\ owner' = owner /\ secrets' = secrets /\ snapshots' = snapshots /\ borrowed' = borrowed
          /\ conn[q] \in Conns
      BY DEF TypeOK
    <2>4. \A d \in Conns : status'[d] = IF d = conn[q] THEN new ELSE status[d]
      BY <2>1, <2>3 DEF TypeOK
    <2>5. \A d \in Conns : status[d] \notin {"absent", "deleted"} <=> status'[d] \notin {"absent", "deleted"}
      BY <1>2, <2>4 DEF Exists
    <2>6. TypeOK'
      <3>1. foreignKeys' \in BOOLEAN /\ died' \in BOOLEAN /\ borrowed' \in BOOLEAN
        BY <2>1, <2>2, <2>3, Zenon DEF TypeOK
      <3>2. status' \in [Conns -> Status]
        BY <2>1, <2>3 DEF TypeOK, Status
      <3>3. /\ limit' \in Limits /\ owner' \in [Conns -> Tenants]
            /\ secrets' \subseteq Secret /\ snapshots' \subseteq Snapshot
        BY <2>2, <2>3 DEF TypeOK
      <3> QED
        BY <2>2, <3>1, <3>2, <3>3 DEF TypeOK, RequestType
    <2>7. Numbered' /\ Scoped' /\ Bounded'
      <3>1. \A d \in Conns : status[d] # "absent" => status'[d] # "absent" /\ owner'[d] = owner[d]
        BY <2>3, <2>4
      <3>2. /\ "audit" \in Labels \ {"idle", "discover.look"} /\ "audit" \notin OwnLabels
            /\ pc[q] \notin {"idle", "done"}
        BY DEF Labels, OwnLabels
      <3> HIDE DEF ConnInv
      <3>3. Numbered' /\ Scoped'
        BY <2>1, <2>2, <2>3, <3>1, <3>2, GoesOn DEF Scoped
      <3>4. Bounded'
        BY <2>1, <2>2, <2>3, <3>1, <3>2, GoesOn DEF Bounded
      <3> QED
        BY <3>3, <3>4
    <2>8. Kept'
      <3>1. ASSUME NEW p \in Requests
            PROVE  /\ pc'[p] = "rotate.purge" /\ Exists(conn[p])' =>
                        \E s \in secrets : s.conn = conn'[p] /\ s.version >= version'[p]
                   /\ pc'[p] = "test.commit" => loaded'[p] # "disabled"
        <4>1. CASE p = q
          BY <2>2, <4>1
        <4>2. CASE p # q
          <5>1. /\ pc'[p] = pc[p] /\ conn'[p] = conn[p] /\ loaded'[p] = loaded[p]
                /\ version'[p] = version[p] /\ conn[p] \in Conns
            BY <2>2, <4>2 DEF Others, TypeOK
          <5>2. Exists(conn[p])' => Exists(conn[p])
            BY <2>5, <5>1 DEF Exists
          <5> QED
            BY <5>1, <5>2 DEF Kept
        <4> QED
          BY <4>1, <4>2
      <3> QED
        BY <2>3, <3>1 DEF Kept
    <2>9. NoOrphans'
      <3>1. \A r \in secrets \cup snapshots : r.conn \in Conns
        BY DEF TypeOK, Secret, Snapshot
      <3> QED
        BY <2>2, <2>3, <2>5, <3>1 DEF NoOrphans, Exists
    <2>10. ASSUME limit = 1 PROVE q = arrived /\ \A p \in Requests : pc'[p] \in {"idle", "done"} \/ (p = q /\ pc'[p] = "audit")
      <3>1. q = arrived /\ \A p \in Requests : p # q => pc[p] \in {"idle", "done"}
        BY <2>10, OnlyOne
      <3> QED
        BY <2>2, <3>1 DEF Others
    <2>11. Alone'
      BY <2>2, <2>10 DEF Alone
    <2>12. Rotated'
      <3> SUFFICES ASSUME limit = 1 PROVE Rotated'
        BY <2>2 DEF Rotated
      <3>1. \A p \in Requests : pc[p] # "rotate.purge"
        BY OnlyOne
      <3> QED
        BY <2>1, <2>3, <3>1 DEF Rotated
    <2>13. Baselined'
      <3> SUFFICES ASSUME limit = 1, ~ borrowed PROVE Baselined'
        BY <2>2, <2>3 DEF Baselined
      <3>1. /\ \A s, u \in snapshots : s.conn = u.conn /\ s # u =>
                s.version # u.version /\ ~ (s.baseline /\ u.baseline)
            /\ \A s \in snapshots : \E u \in snapshots : u.conn = s.conn /\ u.baseline
        BY DEF Baselined
      <3>2. \A p \in Requests : pc'[p] \in {"idle", "done", "audit"}
        BY <2>10
      <3> QED
        BY <2>3, <3>1, <3>2 DEF Baselined
    <2> QED
      BY <2>6, <2>7, <2>8, <2>9, <2>11, <2>12, <2>13
  <1> QED
    BY <1>1, <1>2

\* A secret is stored, with a version no other secret of the connection has.
LEMMA Inserts ==
  ASSUME ConnInv, NEW q \in Requests, NEW next,
         \/ pc[q] = "create.secret" /\ next = "audit"
         \/ pc[q] = "rotate.insert" /\ next = "rotate.purge",
         InsertSecret(q, next), UNCHANGED <<status, owner, snapshots, borrowed>>
  PROVE  ConnInv'
  <1> USE DEF ConnInv
  <1>1. CASE InsertRefused(q)
    <2>1. GoTo(q, "done") /\ died' = TRUE /\ UNCHANGED <<dbVars, borrowed>>
      BY <1>1 DEF InsertSecret, dbVars
    <2>2. died' \in BOOLEAN /\ (died => died')
      BY <2>1
    <2> QED
      BY <2>1, <2>2, Ends
  <1>2. CASE ~ InsertRefused(q)
    <2> DEFINE row == [conn |-> conn[q], version |-> version[q], by |-> q]
    <2>1. GoTo(q, next) /\ secrets' = secrets \cup {row} /\ died' = died
      BY <1>2 DEF InsertSecret
    <2>2. next \in Labels \ {"idle", "discover.look"} /\ next \notin {"create.secret", "rotate.insert", "done"}
      BY DEF Labels
    <2>3. /\ RequestType' /\ Others(q) /\ pc'[q] = next /\ conn'[q] = conn[q] /\ tenant'[q] = tenant[q]
          /\ next = "rotate.purge" => version'[q] = version[q]
          /\ arrived' = arrived /\ foreignKeys' = foreignKeys /\ limit' = limit
      BY <2>1, <2>2, GoToEffect
    <2>4. status' = status /\ owner' = owner /\ snapshots' = snapshots /\ borrowed' = borrowed
      OBVIOUS
    <2>5. /\ row \in Secret /\ row.conn = conn[q] /\ row.version = version[q] /\ row.by = q
          /\ version[q] \in 1..q
      <3>1. version[q] \in 1..q /\ version[q] \in Versions /\ conn[q] \in Conns
        BY DEF Bounded, TypeOK
      <3>2. version[q] \in Versions \ {0}
        BY <3>1
      <3> QED
        BY <3>1, <3>2 DEF Secret
    <2> HIDE DEF row
    <2>6. pc[q] \in OwnLabels /\ pc[q] \notin {"idle", "done"}
      BY DEF OwnLabels
    <2>7. status[conn[q]] # "absent" /\ owner[conn[q]] = tenant[q] /\ conn[q] \in Conns
      BY <2>6 DEF Scoped, TypeOK
    <2>8. q <= arrived /\ arrived \in Nat /\ q \in Nat
      BY <2>6, Constants DEF Numbered, TypeOK, Requests
    <2>9. TypeOK'
      <3>1. foreignKeys' \in BOOLEAN /\ died' \in BOOLEAN /\ borrowed' \in BOOLEAN
        BY <2>1, <2>3, <2>4, Zenon DEF TypeOK
      <3>2. secrets' \subseteq Secret
        BY <2>1, <2>5 DEF TypeOK
      <3>3. /\ limit' \in Limits /\ status' \in [Conns -> Status] /\ owner' \in [Conns -> Tenants]
            /\ snapshots' \subseteq Snapshot
        BY <2>3, <2>4 DEF TypeOK
      <3> QED
        BY <2>3, <3>1, <3>2, <3>3 DEF TypeOK, RequestType
    <2>10. Numbered' /\ Scoped' /\ Bounded'
      <3>1. \A d \in Conns : status[d] # "absent" => status'[d] # "absent" /\ owner'[d] = owner[d]
        BY <2>4
      <3>2. next # "baseline.commit" /\ next \notin {"discover.store", "drift.store"}
        OBVIOUS
      <3> HIDE DEF ConnInv
      <3>3. Numbered' /\ Scoped'
        BY <2>1, <2>2, <2>3, <2>4, <2>5, <2>6, <2>7, <3>1, <3>2, GoesOn DEF Scoped
      <3>4. Bounded'
        BY <2>1, <2>2, <2>3, <2>4, <2>5, <2>6, <2>8, <3>1, <3>2, GoesOn DEF Bounded
      <3> QED
        BY <3>3, <3>4
    <2>11. Kept'
      <3>1. ASSUME NEW p \in Requests
            PROVE  /\ pc'[p] = "rotate.purge" /\ Exists(conn[p])' =>
                        \E s \in secrets' : s.conn = conn'[p] /\ s.version >= version'[p]
                   /\ pc'[p] = "test.commit" => loaded'[p] # "disabled"
        <4>1. CASE p = q
          <5>1. row \in secrets' /\ version[q] >= version[q]
            BY <2>1, <2>5
          <5> QED
            BY <2>3, <2>5, <4>1, <5>1
        <4>2. CASE p # q
          <5>1. /\ pc'[p] = pc[p] /\ conn'[p] = conn[p] /\ loaded'[p] = loaded[p]
                /\ version'[p] = version[p] /\ (Exists(conn[p])' <=> Exists(conn[p]))
            BY <2>3, <2>4, <4>2 DEF Others, Exists
          <5> QED
            BY <2>1, <5>1 DEF Kept
        <4> QED
          BY <4>1, <4>2
      <3> QED
        BY <3>1 DEF Kept
    <2>12. NoOrphans'
      <3>1. foreignKeys => Exists(conn[q])
        BY <1>2 DEF InsertRefused
      <3> QED
        BY <2>1, <2>3, <2>4, <2>5, <3>1 DEF NoOrphans, Exists
    <2>13. ASSUME limit = 1
           PROVE  /\ q = arrived
                  /\ \A p \in Requests : p # q => pc'[p] \in {"idle", "done"} /\ pc[p] \in {"idle", "done"}
                  /\ \A s \in secrets : s.conn = conn[q] => s.version < version[q]
                  /\ \A s \in secrets : s.conn = conn[q] => pc[q] = "rotate.insert"
      <3>1. q = arrived /\ \A p \in Requests : p # q => pc[p] \in {"idle", "done"}
        BY <2>6, <2>13, OnlyOne
      <3> QED
        BY <2>3, <2>13, <3>1 DEF Others, Alone
    <2>14. Alone'
      <3> SUFFICES ASSUME limit = 1
                   PROVE  next = "rotate.purge" =>
                              \A s \in secrets' : s.conn = conn[q] /\ s.version >= version[q] =>
                                  s.version = version[q] /\ s.by = q
        BY <2>2, <2>3, <2>13 DEF Alone
      <3> SUFFICES ASSUME NEW s \in secrets', s.conn = conn[q], s.version >= version[q]
                   PROVE  s.version = version[q] /\ s.by = q
        OBVIOUS
      <3>1. CASE s = row
        BY <2>5, <3>1
      <3>2. CASE s \in secrets
        <4>1. s.version < version[q] /\ s.version \in Nat /\ version[q] \in Nat
          BY <2>5, <2>13, <3>2, Constants DEF TypeOK, Secret, Versions
        <4> QED
          BY <4>1
      <3> QED
        BY <2>1, <3>1, <3>2
    <2>15. Rotated'
      <3> SUFFICES ASSUME limit = 1 PROVE Rotated'
        BY <2>3 DEF Rotated
      <3>1. /\ \A s, u \in secrets : s.conn = u.conn /\ s.by < u.by => s.version < u.version
            /\ \A s, u \in secrets : s.conn = u.conn /\ s # u => died
        <4>1. \A p \in Requests : pc[p] # "rotate.purge"
          BY <2>13
        <4> QED
          BY <4>1 DEF Rotated
      <3>2. \A s \in secrets : s.by \in Nat /\ s.by <= q
        BY <2>13, Constants DEF Bounded, TypeOK, Secret, Requests
      <3>3. ASSUME NEW s \in secrets', NEW u \in secrets', s.conn = u.conn, s.by < u.by
            PROVE  s.version < u.version
        <4>1. s # row
          BY <2>1, <2>5, <2>8, <3>2, <3>3
        <4>2. CASE u = row
          BY <2>1, <2>5, <2>13, <3>3, <4>1, <4>2
        <4>3. CASE u # row
          BY <2>1, <3>1, <3>3, <4>1, <4>3
        <4> QED
          BY <4>2, <4>3
      <3>4. ASSUME NEW s \in secrets', NEW u \in secrets', s.conn = u.conn, s # u
            PROVE  died' \/ \E p \in Requests : pc'[p] = "rotate.purge" /\ conn'[p] = s.conn
        <4>1. CASE s # row /\ u # row
          BY <2>1, <3>1, <3>4, <4>1
        <4>2. CASE s = row \/ u = row
          <5>1. s.conn = conn[q] /\ \E r \in secrets : r.conn = conn[q]
            BY <2>1, <2>5, <3>4, <4>2
          <5>2. next = "rotate.purge"
            BY <2>13, <5>1
          <5> QED
            BY <2>3, <5>1, <5>2
        <4> QED
          BY <4>1, <4>2
      <3> QED
        BY <3>3, <3>4 DEF Rotated
    <2>16. Baselined'
      <3> SUFFICES ASSUME limit = 1, ~ borrowed PROVE Baselined'
        BY <2>3, <2>4 DEF Baselined
      <3>1. /\ \A s, u \in snapshots : s.conn = u.conn /\ s # u =>
                s.version # u.version /\ ~ (s.baseline /\ u.baseline)
            /\ \A s \in snapshots : \E u \in snapshots : u.conn = s.conn /\ u.baseline
        BY DEF Baselined
      <3>2. \A p \in Requests : pc'[p] \in {"idle", "done", "audit", "rotate.purge"}
        BY <2>3, <2>13
      <3> QED
        BY <2>4, <3>1, <3>2 DEF Baselined
    <2> QED
      BY <2>9, <2>10, <2>11, <2>12, <2>14, <2>15, <2>16
  <1> QED
    BY <1>1, <1>2

\* A rotation purges what is older than its own secret.
LEMMA Purges ==
  ASSUME ConnInv, NEW q \in Requests, RotatePurge(q)
  PROVE  ConnInv'
  <1> USE DEF ConnInv
  <1>1. /\ pc[q] = "rotate.purge" /\ GoTo(q, "audit")
        /\ status' = status /\ owner' = owner /\ snapshots' = snapshots /\ died' = died /\ borrowed' = borrowed
    BY DEF RotatePurge, history
  <1>2. /\ RequestType' /\ Others(q) /\ pc'[q] = "audit"
        /\ arrived' = arrived /\ foreignKeys' = foreignKeys /\ limit' = limit
    <2>1. "audit" \in Labels
      BY DEF Labels
    <2> QED
      BY <1>1, <2>1, GoToEffect
  <1>3. owner[conn[q]] = tenant[q]
    BY <1>1 DEF Scoped, OwnLabels
  <1>4. secrets' = {s \in secrets : ~ (s.conn = conn[q] /\ s.version < version[q])}
    BY <1>3 DEF RotatePurge, PurgePreviousVersions, RowsOf
  <1>5. TypeOK'
    <2>1. foreignKeys' \in BOOLEAN /\ died' \in BOOLEAN /\ borrowed' \in BOOLEAN
      BY <1>1, <1>2, Zenon DEF TypeOK
    <2>2. secrets' \subseteq Secret
      BY <1>4 DEF TypeOK
    <2>3. /\ limit' \in Limits /\ status' \in [Conns -> Status] /\ owner' \in [Conns -> Tenants]
          /\ snapshots' \subseteq Snapshot
      BY <1>1, <1>2 DEF TypeOK
    <2> QED
      BY <1>2, <2>1, <2>2, <2>3 DEF TypeOK, RequestType
  <1>6. Numbered' /\ Scoped' /\ Bounded'
    <2>1. \A d \in Conns : status[d] # "absent" => status'[d] # "absent" /\ owner'[d] = owner[d]
      BY <1>1
    <2>2. "audit" \in Labels \ {"idle", "discover.look"} /\ "audit" \notin OwnLabels
      BY DEF Labels, OwnLabels
    <2> HIDE DEF ConnInv
    <2>3. Numbered' /\ Scoped'
      BY <1>1, <1>2, <1>4, <2>1, <2>2, GoesOn DEF Scoped
    <2>4. Bounded'
      BY <1>1, <1>2, <1>4, <2>1, <2>2, GoesOn DEF Bounded
    <2> QED
      BY <2>3, <2>4
  <1>7. Kept'
    <2>1. ASSUME NEW p \in Requests
          PROVE  /\ pc'[p] = "rotate.purge" /\ Exists(conn[p])' =>
                      \E s \in secrets' : s.conn = conn'[p] /\ s.version >= version'[p]
                 /\ pc'[p] = "test.commit" => loaded'[p] # "disabled"
      <3>1. CASE p = q
        BY <1>2, <3>1
      <3>2. CASE p # q
        <4>1. /\ pc'[p] = pc[p] /\ conn'[p] = conn[p] /\ loaded'[p] = loaded[p]
              /\ version'[p] = version[p] /\ (Exists(conn[p])' <=> Exists(conn[p]))
          BY <1>1, <1>2, <3>2 DEF Others, Exists
        <4>2. ASSUME pc[p] = "rotate.purge", Exists(conn[p])
              PROVE  \E s \in secrets' : s.conn = conn[p] /\ s.version >= version[p]
          <5>1. PICK s \in secrets : s.conn = conn[p] /\ s.version >= version[p]
            BY <4>2 DEF Kept
          <5>2. CASE s \in secrets'
            BY <5>1, <5>2
          <5>3. CASE s \notin secrets'
            <6>1. s.conn = conn[q] /\ s.version < version[q]
              BY <1>4, <5>3
            <6>2. PICK u \in secrets : u.conn = conn[q] /\ u.version >= version[q]
              BY <1>1, <4>2, <5>1, <6>1 DEF Kept
            <6>3. u.version \in Nat /\ s.version \in Nat /\ version[p] \in Nat /\ version[q] \in Nat
              BY Constants DEF TypeOK, Secret, Versions
            <6>4. u \in secrets'
              BY <1>4, <6>2, <6>3
            <6>5. u.version >= version[p]
              BY <5>1, <6>1, <6>2, <6>3
            <6> QED
              BY <5>1, <6>1, <6>2, <6>4, <6>5
          <5> QED
            BY <5>2, <5>3
        <4> QED
          BY <4>1, <4>2 DEF Kept
      <3> QED
        BY <3>1, <3>2
    <2> QED
      BY <2>1 DEF Kept
  <1>8. NoOrphans'
    BY <1>1, <1>2, <1>4 DEF NoOrphans, Exists
  <1>9. ASSUME limit = 1
        PROVE  q = arrived /\ \A p \in Requests : p # q => pc'[p] \in {"idle", "done"} /\ pc[p] \in {"idle", "done"}
    <2>1. q = arrived /\ \A p \in Requests : p # q => pc[p] \in {"idle", "done"}
      BY <1>1, <1>9, OnlyOne
    <2> QED
      BY <1>2, <2>1 DEF Others
  <1>10. Alone'
    BY <1>2, <1>9 DEF Alone
  <1>11. Rotated'
    <2> SUFFICES ASSUME limit = 1 PROVE Rotated'
      BY <1>2 DEF Rotated
    <2>1. \A s, u \in secrets : s.conn = u.conn /\ s.by < u.by => s.version < u.version
      BY DEF Rotated
    <2>2. ASSUME NEW s \in secrets', NEW u \in secrets', s.conn = u.conn, s # u PROVE died
      <3>1. s \in secrets /\ u \in secrets
        BY <1>4
      <3>2. CASE s.conn # conn[q]
        BY <1>9, <2>2, <3>1, <3>2 DEF Rotated
      <3>3. CASE s.conn = conn[q]
        <4>1. \A r \in secrets : r.version \in Nat
          BY Constants DEF TypeOK, Secret, Versions
        <4>2. version[q] \in Nat
          BY Constants DEF TypeOK, Versions
        <4>3. \A r \in secrets : r.conn = conn[q] /\ r.version >= version[q] => r.version = version[q] /\ r.by = q
          BY <1>1 DEF Alone
        <4>4. \A r \in secrets' : r.conn = conn[q] => r \in secrets /\ r.version >= version[q]
          BY <1>4, <4>1, <4>2
        <4>5. s.version = version[q] /\ s.by = q /\ u.version = version[q] /\ u.by = q
          BY <2>2, <3>3, <4>3, <4>4
        <4>6. s \in Secret /\ u \in Secret
          BY <3>1 DEF TypeOK
        <4>7. s = u
          BY <2>2, <4>5, <4>6 DEF Secret
        <4> QED
          BY <2>2, <4>7
      <3> QED
        BY <3>2, <3>3
    <2> QED
      BY <1>1, <1>4, <2>1, <2>2 DEF Rotated
  <1>12. Baselined'
    <2> SUFFICES ASSUME limit = 1, ~ borrowed PROVE Baselined'
      BY <1>1, <1>2 DEF Baselined
    <2>1. /\ \A s, u \in snapshots : s.conn = u.conn /\ s # u =>
              s.version # u.version /\ ~ (s.baseline /\ u.baseline)
          /\ \A s \in snapshots : \E u \in snapshots : u.conn = s.conn /\ u.baseline
      BY DEF Baselined
    <2>2. \A p \in Requests : pc'[p] \in {"idle", "done", "audit"}
      BY <1>2, <1>9
    <2> QED
      BY <1>1, <2>1, <2>2 DEF Baselined
  <1> QED
    BY <1>5, <1>6, <1>7, <1>8, <1>10, <1>11, <1>12

\* A discovery reads baseline and latest version.
LEMMA Looks ==
  ASSUME ConnInv, NEW q \in Requests, DiscoverLook(q)
  PROVE  ConnInv'
  <1> USE DEF ConnInv
  <1> DEFINE number == Latest(snapshots, conn[q], tenant[q]) + 1
             none == GetBaseline(conn[q], tenant[q]) = {}
  <1>1. /\ pc[q] = "discover.look" /\ pc' = [pc EXCEPT ![q] = "discover.store"]
        /\ first' = [first EXCEPT ![q] = none] /\ version' = [version EXCEPT ![q] = number]
        /\ status' = status /\ owner' = owner /\ secrets' = secrets /\ snapshots' = snapshots
        /\ arrived' = arrived /\ conn' = conn /\ tenant' = tenant /\ loaded' = loaded
        /\ foreignKeys' = foreignKeys /\ limit' = limit /\ died' = died /\ borrowed' = borrowed
    BY DEF DiscoverLook, fixed, dbVars, history
  <1>2. /\ owner[conn[q]] = tenant[q] /\ status[conn[q]] # "absent"
        /\ conn[q] \in Conns /\ tenant[q] \in Tenants
    BY <1>1 DEF Scoped, OwnLabels, TypeOK
  <1>3. q \in 1..arrived /\ q \notin Looked /\ arrived <= MaxRequests /\ arrived \in Nat
    BY <1>1, Constants DEF Numbered, Looked, Requests, TypeOK
  <1>4. \A r \in snapshots : r.version \in Versions
    BY DEF TypeOK, Snapshot
  <1>5. /\ Latest(snapshots, conn[q], tenant[q]) \in Versions
        /\ \A r \in snapshots : r.conn = conn[q] => r.version <= Latest(snapshots, conn[q], tenant[q])
        /\ \/ Latest(snapshots, conn[q], tenant[q]) = 0
           \/ \E r \in snapshots : r.version = Latest(snapshots, conn[q], tenant[q])
    BY <1>2, <1>4, LatestVersion DEF RowsOf
  <1>6. Cardinality(Looked) \in Nat /\ Latest(snapshots, conn[q], tenant[q]) <= Cardinality(Looked)
    <2>1. Cardinality(Looked) \in Nat
      BY LookedSize
    <2>2. \A r \in snapshots : r.version <= Cardinality(Looked)
      BY DEF Bounded
    <2> QED
      BY <1>5, <2>1, <2>2
  <1>7. number \in Nat /\ number >= 1 /\ number <= Cardinality(Looked) + 1
    BY <1>5, <1>6, Constants DEF Versions
  <1>8. none <=> \A s \in snapshots : ~ (s.conn = conn[q] /\ s.baseline)
    BY <1>2 DEF GetBaseline, RowsOf
  <1>9. \A s \in snapshots : s.conn = conn[q] => s.version < number
    BY <1>4, <1>5, Constants DEF Versions
  <1>10. none \in BOOLEAN
    OBVIOUS
  <1> HIDE DEF number, none
  \* the new state of the requests: as for a request that goes on
  <1>11. /\ pc'[q] = "discover.store" /\ version'[q] = number /\ first'[q] = none /\ Others(q)
    <2>1. pc'[q] = "discover.store" /\ version'[q] = number /\ first'[q] = none
      BY <1>1 DEF TypeOK
    <2>2. Others(q)
      BY <1>1 DEF TypeOK, Others
    <2> QED
      BY <2>1, <2>2
  <1>12. number \in Versions
    <2>1. \A p \in 1..arrived : p \in Requests
      BY <1>3, Constants DEF Requests
    <2>2. \A p \in 1..arrived : pc'[p] = "discover.look" => pc[p] = "discover.look"
      BY <1>11, <2>1 DEF Others
    <2>3. Looked \cup {q} \subseteq 1..arrived
      BY <1>3 DEF Looked
    <2>4. Cardinality(Looked) + 1 <= arrived
      <3>1. Cardinality(Looked \cup {q}) = Cardinality(Looked) + 1
        BY <1>3, LookedSize, FS_AddElement
      <3>2. IsFiniteSet(1..arrived) /\ Cardinality(1..arrived) = arrived
        BY <1>3, FS_Interval
      <3> QED
        BY <2>3, <3>1, <3>2, FS_Subset
    <2> QED
      BY <1>3, <1>6, <1>7, <2>4, Constants DEF Versions
  <1>13. RequestType'
    <2>1. pc' \in [Requests -> Labels] /\ version' \in [Requests -> Versions] /\ arrived' \in 0..MaxRequests
      BY <1>1, <1>12 DEF TypeOK, Labels
    <2>2. conn' \in [Requests -> Conns] /\ tenant' \in [Requests -> Tenants] /\ loaded' \in [Requests -> Status]
      BY <1>1 DEF TypeOK
    <2>3. first' \in [Requests -> BOOLEAN]
      BY <1>1, <1>10 DEF TypeOK
    <2> QED
      BY <2>1, <2>2, <2>3 DEF RequestType
  <1>14. TypeOK'
    <2>1. foreignKeys' \in BOOLEAN /\ died' \in BOOLEAN /\ borrowed' \in BOOLEAN
      BY <1>1, Zenon DEF TypeOK
    <2>2. /\ limit' \in Limits /\ status' \in [Conns -> Status] /\ owner' \in [Conns -> Tenants]
          /\ secrets' \subseteq Secret /\ snapshots' \subseteq Snapshot
      BY <1>1 DEF TypeOK
    <2> QED
      BY <1>13, <2>1, <2>2 DEF TypeOK, RequestType
  <1>15. Numbered'
    BY <1>1, <1>11, <1>13, GoToNumbered
  <1>16. Scoped'
    <2>1. \A d \in Conns : status[d] # "absent" => status'[d] # "absent" /\ owner'[d] = owner[d]
      BY <1>1
    <2>2. /\ \A p \in Requests : p # q /\ pc'[p] \in OwnLabels =>
               status'[conn'[p]] # "absent" /\ owner'[conn'[p]] = tenant'[p]
          /\ \A p \in Requests : p # q /\ pc'[p] = "baseline.commit" =>
               /\ version'[p] \in Requests /\ pc'[version'[p]] = "done"
               /\ status'[conn'[version'[p]]] # "absent" /\ owner'[conn'[version'[p]]] = tenant'[p]
          /\ \A s \in secrets : status'[s.conn] # "absent"
          /\ \A s \in snapshots : status'[s.conn] # "absent" /\ pc'[s.id] = "done" /\ s.conn = conn'[s.id]
      BY <1>1, <1>11, <2>1, StaysScoped
    <2>3. \A s, u \in snapshots : s.id = u.id => s = u
      BY DEF Scoped
    <2> QED
      BY <1>1, <1>2, <1>11, <2>2, <2>3 DEF Scoped
  <1>17. Bounded'
    <2>1. arrived <= arrived' /\ q \in 1..arrived'
      BY <1>1, <1>3
    <2>2. /\ \A p \in Requests : p # q /\ pc'[p] \in {"create.secret", "rotate.insert", "rotate.purge"} =>
               version'[p] \in 1..p
          /\ \A s \in secrets : /\ s.version <= s.by /\ s.by <= arrived'
                                 /\ pc'[s.by] \notin {"create.secret", "rotate.insert"}
          /\ \A p \in Requests : p # q /\ pc'[p] \in {"discover.store", "drift.store"} =>
               version'[p] \in 1..(Cardinality(Looked)')
          /\ \A s \in snapshots : s.version <= Cardinality(Looked)'
          /\ Cardinality(Looked)' \in Nat /\ Cardinality(Looked) + 1 <= Cardinality(Looked)'
      BY <1>3, <1>11, <1>13, <2>1, StaysBounded
    <2>3. version'[q] \in 1..(Cardinality(Looked)')
      BY <1>6, <1>7, <1>11, <2>2
    <2> QED
      BY <1>1, <1>11, <2>2, <2>3 DEF Bounded
  <1>18. Kept'
    BY <1>1, <1>11 DEF Kept, Others, Exists
  <1>19. NoOrphans'
    BY <1>1 DEF NoOrphans, Exists
  <1>20. ASSUME limit = 1
         PROVE  q = arrived /\ \A p \in Requests : p # q => pc'[p] \in {"idle", "done"} /\ pc[p] \in {"idle", "done"}
    <2>1. q = arrived /\ \A p \in Requests : p # q => pc[p] \in {"idle", "done"}
      BY <1>1, <1>20, OnlyOne
    <2> QED
      BY <1>11, <2>1 DEF Others
  <1>21. Alone'
    BY <1>1, <1>11, <1>20 DEF Alone
  <1>22. Rotated'
    <2> SUFFICES ASSUME limit = 1 PROVE Rotated'
      BY <1>1 DEF Rotated
    <2>1. \A p \in Requests : pc[p] # "rotate.purge"
      BY <1>1, <1>20
    <2> QED
      BY <1>1, <2>1 DEF Rotated
  <1>23. Baselined'
    <2> SUFFICES ASSUME limit = 1, ~ borrowed PROVE Baselined'
      BY <1>1 DEF Baselined
    <2>1. /\ \A s, u \in snapshots : s.conn = u.conn /\ s # u =>
              s.version # u.version /\ ~ (s.baseline /\ u.baseline)
          /\ \A s \in snapshots : \E u \in snapshots : u.conn = s.conn /\ u.baseline
      BY DEF Baselined
    <2>2. none => \A s \in snapshots : s.conn # conn[q]
      BY <1>8, <2>1
    <2>3. \A p \in Requests : pc'[p] \in {"idle", "done", "discover.store"} /\ (pc'[p] = "discover.store" => p = q)
      BY <1>11, <1>20
    <2>4. /\ \A s \in snapshots : s.conn = conn'[q] => s.version < version'[q] /\ ~ first'[q]
          /\ first'[q] \/ \E u \in snapshots : u.conn = conn'[q] /\ u.baseline
      BY <1>1, <1>8, <1>9, <1>11, <2>2
    <2> QED
      BY <1>1, <2>1, <2>3, <2>4 DEF Baselined
  <1> QED
    BY <1>14, <1>15, <1>16, <1>17, <1>18, <1>19, <1>21, <1>22, <1>23

\* A snapshot is stored, as the baseline or not.
LEMMA Snapshots ==
  ASSUME ConnInv, NEW q \in Requests, NEW baseline \in BOOLEAN, StoreSnapshot(q, baseline),
         \/ pc[q] = "discover.store" /\ baseline = first[q]
         \/ pc[q] = "drift.store" /\ baseline = TRUE
  PROVE  ConnInv'
  <1> USE DEF ConnInv
  <1>0. pc[q] \notin {"idle", "done", "rotate.purge"}
    OBVIOUS
  <1>1. CASE foreignKeys /\ ~ Exists(conn[q])
    <2>1. GoTo(q, "done") /\ died' = TRUE /\ UNCHANGED <<dbVars, borrowed>>
      BY <1>1 DEF StoreSnapshot, dbVars
    <2>2. died' \in BOOLEAN /\ (died => died')
      BY <2>1
    <2> QED
      BY <1>0, <2>1, <2>2, Ends
  <1>2. CASE ~ (foreignKeys /\ ~ Exists(conn[q]))
    <2> DEFINE row == [id |-> q, conn |-> conn[q], version |-> version[q], baseline |-> baseline]
    <2>1. /\ GoTo(q, "done") /\ snapshots' = snapshots \cup {row} /\ died' = died
          /\ status' = status /\ owner' = owner /\ secrets' = secrets /\ borrowed' = borrowed
      BY <1>2 DEF StoreSnapshot
    <2>2. /\ RequestType' /\ Others(q) /\ pc'[q] = "done" /\ conn'[q] = conn[q]
          /\ arrived' = arrived /\ foreignKeys' = foreignKeys /\ limit' = limit
      <3>1. "done" \in Labels
        BY DEF Labels
      <3> QED
        BY <2>1, <3>1, GoToEffect
    <2>3. /\ row \in Snapshot
          /\ row.id = q /\ row.conn = conn[q] /\ row.version = version[q] /\ row.baseline = baseline
      <3>1. version[q] \in 1..Cardinality(Looked) /\ version[q] \in Versions /\ conn[q] \in Conns
        BY DEF Bounded, TypeOK
      <3>2. version[q] \in Versions \ {0}
        BY <3>1, LookedSize
      <3> QED
        BY <3>1, <3>2 DEF Snapshot
    <2> HIDE DEF row
    <2>4. pc[q] \in OwnLabels
      BY DEF OwnLabels
    <2>5. /\ status[conn[q]] # "absent" /\ owner[conn[q]] = tenant[q] /\ conn[q] \in Conns
          /\ version[q] \in 1..Cardinality(Looked)
      BY <2>4 DEF Scoped, TypeOK, Bounded
    <2>6. \A s \in snapshots : s.id # q
      BY <1>0 DEF Scoped
    <2>7. TypeOK'
      <3>1. foreignKeys' \in BOOLEAN /\ died' \in BOOLEAN /\ borrowed' \in BOOLEAN
        BY <2>1, <2>2, Zenon DEF TypeOK
      <3>2. snapshots' \subseteq Snapshot
        BY <2>1, <2>3 DEF TypeOK
      <3>3. /\ limit' \in Limits /\ status' \in [Conns -> Status] /\ owner' \in [Conns -> Tenants]
            /\ secrets' \subseteq Secret
        BY <2>1, <2>2 DEF TypeOK
      <3> QED
        BY <2>2, <3>1, <3>2, <3>3 DEF TypeOK, RequestType
    <2>8. Numbered' /\ Scoped' /\ Bounded'
      <3>1. \A d \in Conns : status[d] # "absent" => status'[d] # "absent" /\ owner'[d] = owner[d]
        BY <2>1
      <3>2. "done" \in Labels \ {"idle", "discover.look"} /\ "done" \notin OwnLabels
        BY DEF Labels, OwnLabels
      <3> HIDE DEF ConnInv
      <3>3. Numbered' /\ Scoped'
        BY <1>0, <2>1, <2>2, <2>3, <2>5, <2>6, <3>1, <3>2, GoesOn DEF Scoped
      <3>4. /\ Cardinality(Looked)' \in Nat
            /\ Cardinality(Looked) \in Nat /\ Cardinality(Looked) <= Cardinality(Looked)'
        BY <1>0, <2>1, <3>1, <3>2, GoesOn
      <3>5. row.version <= Cardinality(Looked)'
        BY <2>3, <2>5, <3>4
      <3>6. Bounded'
        BY <1>0, <2>1, <2>2, <3>1, <3>2, <3>5, GoesOn DEF Bounded
      <3> QED
        BY <3>3, <3>6
    <2>9. Kept'
      BY <2>1, <2>2 DEF Kept, Others, Exists
    <2>10. NoOrphans'
      BY <1>2, <2>1, <2>2, <2>3 DEF NoOrphans, Exists
    <2>11. ASSUME limit = 1
           PROVE  \A p \in Requests : pc'[p] \in {"idle", "done"} /\ pc[p] # "rotate.purge"
      <3>1. \A p \in Requests : p # q => pc[p] \in {"idle", "done"}
        BY <1>0, <2>11, OnlyOne
      <3> QED
        BY <1>0, <2>2, <3>1 DEF Others
    <2>12. Alone'
      BY <2>2, <2>11 DEF Alone
    <2>13. Rotated'
      <3> SUFFICES ASSUME limit = 1 PROVE Rotated'
        BY <2>2 DEF Rotated
      <3> QED
        BY <2>1, <2>11 DEF Rotated
    <2>14. Baselined'
      <3> SUFFICES ASSUME limit = 1, ~ borrowed PROVE Baselined'
        BY <2>1, <2>2 DEF Baselined
      <3>1. /\ \A s, u \in snapshots : s.conn = u.conn /\ s # u =>
                s.version # u.version /\ ~ (s.baseline /\ u.baseline)
            /\ \A s \in snapshots : \E u \in snapshots : u.conn = s.conn /\ u.baseline
        BY DEF Baselined
      <3>2. /\ \A s \in snapshots : s.conn = conn[q] => s.version < version[q] /\ ~ baseline
            /\ baseline \/ \E u \in snapshots : u.conn = conn[q] /\ u.baseline
        BY DEF Baselined
      <3>3. \A s \in snapshots : s.version \in Nat
        BY Constants DEF TypeOK, Snapshot, Versions
      <3>4. version[q] \in Nat
        BY <2>5, LookedSize
      <3>5. \A s \in snapshots : s.conn = conn[q] => s.version # version[q]
        BY <3>2, <3>3, <3>4
      <3>6. /\ \A s, u \in snapshots' : s.conn = u.conn /\ s # u =>
                s.version # u.version /\ ~ (s.baseline /\ u.baseline)
            /\ \A s \in snapshots' : \E u \in snapshots' : u.conn = s.conn /\ u.baseline
        BY <2>1, <2>3, <3>1, <3>2, <3>5
      <3> QED
        BY <2>11, <3>6 DEF Baselined
    <2> QED
      BY <2>7, <2>8, <2>9, <2>10, <2>12, <2>13, <2>14
  <1> QED
    BY <1>1, <1>2

\* set_baseline changes the baseline flag of rows and nothing else of them.
LEMMA Flags ==
  ASSUME TypeOK, NEW c \in Conns, NEW t \in Tenants, NEW id \in Versions, owner[c] = t
  PROVE  /\ \A s \in SetBaseline(c, t, id) :
               /\ s \in Snapshot
               /\ \E u \in snapshots :
                   /\ s.id = u.id /\ s.conn = u.conn /\ s.version = u.version
                   /\ s.baseline <=> u.id = id \/ (u.conn # c /\ u.baseline)
         /\ \A u \in snapshots : \E s \in SetBaseline(c, t, id) :
               /\ s.id = u.id /\ s.conn = u.conn /\ s.version = u.version
               /\ s.baseline <=> u.id = id \/ (u.conn # c /\ u.baseline)
  <1> DEFINE F(s) == IF s.id = id THEN [s EXCEPT !.baseline = TRUE]
                     ELSE IF s \in RowsOf(snapshots, c, t) THEN [s EXCEPT !.baseline = FALSE] ELSE s
  <1>1. SetBaseline(c, t, id) = {F(s) : s \in snapshots}
    BY DEF SetBaseline
  <1>2. ASSUME NEW u \in snapshots
        PROVE  /\ F(u) \in Snapshot
               /\ F(u).id = u.id /\ F(u).conn = u.conn /\ F(u).version = u.version
               /\ F(u).baseline <=> u.id = id \/ (u.conn # c /\ u.baseline)
    <2>1. u \in Snapshot
      BY DEF TypeOK
    <2>2. u \in RowsOf(snapshots, c, t) <=> u.conn = c
      BY DEF RowsOf
    <2>3. CASE u.id = id
      BY <2>1, <2>3 DEF Snapshot
    <2>4. CASE u.id # id /\ u.conn = c
      BY <2>1, <2>2, <2>4 DEF Snapshot
    <2>5. CASE u.id # id /\ u.conn # c
      BY <2>1, <2>2, <2>5 DEF Snapshot
    <2> QED
      BY <2>3, <2>4, <2>5
  <1> HIDE DEF F
  <1> QED
    BY <1>1, <1>2

LEMMA Baselines ==
  ASSUME ConnInv, NEW q \in Requests, BaselineCommit(q)
  PROVE  ConnInv'
  <1> USE DEF ConnInv
  <1>1. /\ pc[q] = "baseline.commit" /\ GoTo(q, "audit")
        /\ snapshots' = SetBaseline(conn[q], tenant[q], version[q])
        /\ status' = status /\ owner' = owner /\ secrets' = secrets /\ died' = died /\ borrowed' = borrowed
    BY DEF BaselineCommit, history
  <1>2. /\ RequestType' /\ Others(q) /\ pc'[q] = "audit"
        /\ arrived' = arrived /\ foreignKeys' = foreignKeys /\ limit' = limit
    <2>1. "audit" \in Labels
      BY DEF Labels
    <2> QED
      BY <1>1, <2>1, GoToEffect
  <1>3. \A s \in snapshots' :
            s \in Snapshot /\ \E u \in snapshots : s.id = u.id /\ s.conn = u.conn /\ s.version = u.version
    <2>1. ASSUME NEW u \in snapshots
          PROVE  /\ [u EXCEPT !.baseline = TRUE] \in Snapshot /\ [u EXCEPT !.baseline = FALSE] \in Snapshot
                 /\ [u EXCEPT !.baseline = TRUE].id = u.id /\ [u EXCEPT !.baseline = FALSE].id = u.id
                 /\ [u EXCEPT !.baseline = TRUE].conn = u.conn /\ [u EXCEPT !.baseline = FALSE].conn = u.conn
                 /\ [u EXCEPT !.baseline = TRUE].version = u.version
                 /\ [u EXCEPT !.baseline = FALSE].version = u.version
                 /\ u \in Snapshot
      BY DEF TypeOK, Snapshot
    <2> QED
      BY <1>1, <2>1 DEF SetBaseline
  <1>4. \A s, u \in snapshots' : s.id = u.id => s = u
    <2> DEFINE F(s) == IF s.id = version[q] THEN [s EXCEPT !.baseline = TRUE]
                       ELSE IF s \in RowsOf(snapshots, conn[q], tenant[q])
                       THEN [s EXCEPT !.baseline = FALSE] ELSE s
    <2>1. snapshots' = {F(s) : s \in snapshots}
      BY <1>1 DEF SetBaseline
    <2>2. \A s \in snapshots : F(s).id = s.id
      <3> SUFFICES ASSUME NEW s \in snapshots PROVE F(s).id = s.id
        OBVIOUS
      <3>1. s \in Snapshot
        BY DEF TypeOK
      <3> QED
        BY <3>1 DEF Snapshot
    <2>3. \A s, u \in snapshots : s.id = u.id => s = u
      BY DEF Scoped
    <2> HIDE DEF F
    <2> QED
      BY <2>1, <2>2, <2>3
  <1>5. TypeOK'
    <2>1. foreignKeys' \in BOOLEAN /\ died' \in BOOLEAN /\ borrowed' \in BOOLEAN
      BY <1>1, <1>2, Zenon DEF TypeOK
    <2>2. snapshots' \subseteq Snapshot
      BY <1>3
    <2>3. /\ limit' \in Limits /\ status' \in [Conns -> Status] /\ owner' \in [Conns -> Tenants]
          /\ secrets' \subseteq Secret
      BY <1>1, <1>2 DEF TypeOK
    <2> QED
      BY <1>2, <2>1, <2>2, <2>3 DEF TypeOK, RequestType
  <1>6. Numbered' /\ Scoped' /\ Bounded'
    <2>1. \A d \in Conns : status[d] # "absent" => status'[d] # "absent" /\ owner'[d] = owner[d]
      BY <1>1
    <2>2. /\ "audit" \in Labels \ {"idle", "discover.look"} /\ "audit" \notin OwnLabels
          /\ pc[q] \notin {"idle", "done"}
      BY <1>1 DEF Labels, OwnLabels
    <2> HIDE DEF ConnInv
    <2>3. \A s \in snapshots' : status'[s.conn] # "absent" /\ pc'[s.id] = "done" /\ s.conn = conn'[s.id]
      BY <1>1, <1>3, <2>1, <2>2, GoesOn
    <2>4. \A s \in snapshots' : s.version <= Cardinality(Looked)'
      BY <1>1, <1>3, <2>1, <2>2, GoesOn
    <2>5. Numbered' /\ Scoped'
      BY <1>1, <1>2, <1>4, <2>1, <2>2, <2>3, GoesOn DEF Scoped
    <2>6. Bounded'
      BY <1>1, <1>2, <2>1, <2>2, <2>4, GoesOn DEF Bounded
    <2> QED
      BY <2>5, <2>6
  <1>7. Kept'
    BY <1>1, <1>2 DEF Kept, Others, Exists
  <1>8. NoOrphans'
    <2>1. foreignKeys => \A s \in snapshots' : Exists(s.conn)
      BY <1>3 DEF NoOrphans
    <2> QED
      BY <1>1, <1>2, <2>1 DEF NoOrphans, Exists
  <1>9. ASSUME limit = 1
        PROVE  q = arrived /\ \A p \in Requests : p # q => pc'[p] \in {"idle", "done"} /\ pc[p] \in {"idle", "done"}
    <2>1. q = arrived /\ \A p \in Requests : p # q => pc[p] \in {"idle", "done"}
      BY <1>1, <1>9, OnlyOne
    <2> QED
      BY <1>2, <2>1 DEF Others
  <1>10. Alone'
    BY <1>2, <1>9 DEF Alone
  <1>11. Rotated'
    <2> SUFFICES ASSUME limit = 1 PROVE Rotated'
      BY <1>2 DEF Rotated
    <2>1. \A p \in Requests : pc[p] # "rotate.purge"
      BY <1>1, <1>9
    <2> QED
      BY <1>1, <2>1 DEF Rotated
  <1>12. Baselined'
    <2> SUFFICES ASSUME limit = 1, ~ borrowed PROVE Baselined'
      BY <1>1, <1>2 DEF Baselined
    <2> DEFINE c == conn[q]
    <2>1. owner[c] = tenant[q] /\ c \in Conns /\ \E s \in snapshots : s.id = version[q] /\ s.conn = c
      BY <1>1 DEF Baselined, TypeOK
    <2>2. /\ \A s, u \in snapshots : s.conn = u.conn /\ s # u =>
              s.version # u.version /\ ~ (s.baseline /\ u.baseline)
          /\ \A s \in snapshots : \E u \in snapshots : u.conn = s.conn /\ u.baseline
          /\ \A s, u \in snapshots : s.id = u.id => s = u
      BY DEF Baselined, Scoped
    <2> HIDE DEF ConnInv
    <2>3. TypeOK /\ tenant[q] \in Tenants /\ version[q] \in Versions
      BY DEF ConnInv, TypeOK
    <2>4. \A s \in snapshots' : \E u \in snapshots :
              /\ s.id = u.id /\ s.conn = u.conn /\ s.version = u.version
              /\ s.baseline <=> u.id = version[q] \/ (u.conn # c /\ u.baseline)
      BY <1>1, <2>1, <2>3, Flags
    <2>5. \A u \in snapshots : \E s \in snapshots' :
              /\ s.id = u.id /\ s.conn = u.conn /\ s.version = u.version
              /\ s.baseline <=> u.id = version[q] \/ (u.conn # c /\ u.baseline)
      BY <1>1, <2>1, <2>3, Flags
    <2> HIDE DEF c
    <2>6. ASSUME NEW s \in snapshots', NEW u \in snapshots', s.conn = u.conn, s # u
          PROVE  s.version # u.version /\ ~ (s.baseline /\ u.baseline)
      <3>1. PICK s0 \in snapshots :
              /\ s.id = s0.id /\ s.conn = s0.conn /\ s.version = s0.version
              /\ s.baseline <=> s0.id = version[q] \/ (s0.conn # c /\ s0.baseline)
        BY <2>4
      <3>2. PICK u0 \in snapshots :
              /\ u.id = u0.id /\ u.conn = u0.conn /\ u.version = u0.version
              /\ u.baseline <=> u0.id = version[q] \/ (u0.conn # c /\ u0.baseline)
        BY <2>4
      <3>3. s0 # u0 /\ s0.id # u0.id
        BY <1>4, <2>2, <2>6, <3>1, <3>2
      <3>4. s.version # u.version
        BY <2>2, <2>6, <3>1, <3>2, <3>3
      <3>5. \A x \in snapshots : x.id = version[q] => x.conn = c
        BY <2>1, <2>2
      <3>6. ~ (s.baseline /\ u.baseline)
        BY <2>2, <2>6, <3>1, <3>2, <3>3, <3>5
      <3> QED
        BY <3>4, <3>6
    <2>7. ASSUME NEW s \in snapshots' PROVE \E u \in snapshots' : u.conn = s.conn /\ u.baseline
      <3>1. PICK s0 \in snapshots : s.conn = s0.conn
        BY <2>4
      <3>2. PICK u0 \in snapshots : u0.conn = s.conn /\ (u0.id = version[q] \/ (u0.conn # c /\ u0.baseline))
        <4>1. CASE s.conn = c
          BY <2>1, <4>1
        <4>2. CASE s.conn # c
          BY <2>2, <3>1, <4>2
        <4> QED
          BY <4>1, <4>2
      <3> QED
        BY <2>5, <3>2
    <2>8. \A p \in Requests : pc'[p] \in {"idle", "done", "audit"}
      BY <1>2, <1>9
    <2> QED
      BY <2>6, <2>7, <2>8 DEF Baselined
  <1> QED
    BY <1>5, <1>6, <1>7, <1>8, <1>10, <1>11, <1>12
-----------------------------------------------------------------------------
(* Invariants *)

LEMMA InitConn == Init => ConnInv
  <1> SUFFICES ASSUME Init PROVE ConnInv
    OBVIOUS
  <1>1. TypeOK
    <2>1. foreignKeys \in BOOLEAN /\ died \in BOOLEAN /\ borrowed \in BOOLEAN
      BY Zenon DEF Init
    <2>2. (CHOOSE t \in Tenants : TRUE) \in Tenants /\ (CHOOSE c \in Conns : TRUE) \in Conns
      BY Constants
    <2>3. /\ status \in [Conns -> Status] /\ owner \in [Conns -> Tenants]
          /\ conn \in [Requests -> Conns] /\ tenant \in [Requests -> Tenants]
      BY <2>2 DEF Init, Status
    <2>4. /\ pc \in [Requests -> Labels] /\ loaded \in [Requests -> Status]
          /\ version \in [Requests -> Versions] /\ arrived \in 0..MaxRequests
      BY Constants DEF Init, Labels, Status, Versions
    <2>5. first \in [Requests -> BOOLEAN]
      BY DEF Init
    <2>6. limit \in Limits /\ secrets \subseteq Secret /\ snapshots \subseteq Snapshot
      BY DEF Init
    <2> QED
      BY <2>1, <2>3, <2>4, <2>5, <2>6 DEF TypeOK
  <1>2. \A q \in Requests : pc[q] = "idle"
    BY DEF Init
  <1>3. Numbered
    BY <1>2, Constants DEF Init, Numbered, Requests
  <1>4. Scoped /\ Bounded /\ Kept /\ NoOrphans
    BY <1>2 DEF Init, Scoped, OwnLabels, Bounded, Kept, NoOrphans
  <1>5. Alone /\ Rotated /\ Baselined
    BY <1>2 DEF Init, Alone, Rotated, Baselined
  <1> QED
    BY <1>1, <1>3, <1>4, <1>5 DEF ConnInv

LEMMA NextConn == ConnInv /\ [Next]_vars => ConnInv'
  <1> SUFFICES ASSUME ConnInv, [Next]_vars PROVE ConnInv'
    OBVIOUS
  <1>1. CASE UNCHANGED vars
    <2>1. TypeOK' /\ Numbered' /\ Scoped' /\ Bounded'
      BY <1>1 DEF ConnInv, vars, fixed, dbVars, history, TypeOK, Numbered, Scoped, Bounded, Looked
    <2>2. Kept' /\ NoOrphans'
      BY <1>1 DEF ConnInv, vars, fixed, dbVars, history, Kept, NoOrphans, Exists
    <2>3. Alone' /\ Rotated' /\ Baselined'
      BY <1>1 DEF ConnInv, vars, fixed, dbVars, history, Alone, Rotated, Baselined
    <2> QED
      BY <2>1, <2>2, <2>3 DEF ConnInv
  <1>2. ASSUME NEW q \in Requests, NEW c \in Conns, NEW t \in Tenants,
               \/ \E credentials \in BOOLEAN : CreateConnection(q, c, t, credentials)
               \/ DeleteConnection(q, c, t)
        PROVE  ConnInv'
    BY <1>2, Creates, Deletes
  <1>3. ASSUME NEW q \in Requests, NEW c \in Conns, NEW t \in Tenants,
               \/ \E enabled \in BOOLEAN : ToggleRead(q, c, t, enabled)
               \/ RotateRead(q, c, t)
               \/ TestRead(q, c, t)
               \/ DiscoverRead(q, c, t)
               \/ DriftRead(q, c, t)
        PROVE  ConnInv'
    <2>1. PICK label \in {"toggle.commit", "rotate.insert", "test.commit", "discover.look", "drift.store"},
               number \in Nat :
            /\ Arrive(q, c, t, label, number) /\ GetById(c, t) /\ UNCHANGED <<dbVars, history>>
            /\ label = "test.commit" => status[c] # "disabled"
            /\ label = "rotate.insert" => number = Latest(secrets, c, t) + 1
            /\ label # "rotate.insert" => number \in {0, 1}
            /\ label = "drift.store" => number = 1 /\ GetBaseline(c, t) = {}
      <3>1. CASE \E enabled \in BOOLEAN : ToggleRead(q, c, t, enabled)
        <4>1. PICK enabled \in BOOLEAN : ToggleRead(q, c, t, enabled)
          BY <3>1
        <4>2. PICK n \in {0, 1} : n = IF enabled THEN 1 ELSE 0
          OBVIOUS
        <4>3. Arrive(q, c, t, "toggle.commit", n) /\ GetById(c, t) /\ UNCHANGED <<dbVars, history>>
          BY <4>1, <4>2 DEF ToggleRead
        <4>4. n \in Nat
          OBVIOUS
        <4> QED
          BY <4>3, <4>4
      <3>2. CASE RotateRead(q, c, t)
        <4>1. arrived < MaxRequests
          BY <3>2 DEF RotateRead, Arrive
        <4>2. Latest(secrets, c, t) + 1 \in Nat
          BY <4>1, RotationNumber, Constants DEF Versions
        <4> QED
          BY <3>2, <4>2 DEF RotateRead
      <3>3. CASE TestRead(q, c, t)
        BY <3>3 DEF TestRead
      <3>4. CASE DiscoverRead(q, c, t)
        BY <3>4 DEF DiscoverRead
      <3>5. CASE DriftRead(q, c, t)
        BY <3>5 DEF DriftRead
      <3> QED
        BY <1>3, <3>1, <3>2, <3>3, <3>4, <3>5
    <2>2. number \in Versions
      <3>1. arrived < MaxRequests
        BY <2>1 DEF Arrive
      <3>2. CASE label = "rotate.insert"
        BY <2>1, <3>1, <3>2, RotationNumber
      <3>3. CASE label # "rotate.insert"
        BY <2>1, <3>3, Constants DEF Versions
      <3> QED
        BY <3>2, <3>3
    <2>3. label \in (OwnLabels \ {"create.secret", "rotate.purge", "discover.store"}) \cup {"baseline.commit"}
      BY DEF OwnLabels
    <2>4. UNCHANGED <<dbVars, died>> /\ borrowed' = borrowed
      BY <2>1 DEF history
    <2>5. borrowed' \in BOOLEAN /\ (borrowed => borrowed')
      BY <2>4, Zenon DEF ConnInv, TypeOK
    <2>6. label # "baseline.commit"
      OBVIOUS
    <2> QED
      BY <2>1, <2>2, <2>3, <2>4, <2>5, <2>6, Reads
  <1>4. ASSUME NEW q \in Requests, NEW c \in Conns, NEW t \in Tenants, NEW named \in BOOLEAN,
               BaselineRead(q, c, t, named)
        PROVE  ConnInv'
    <2>1. PICK s \in snapshots :
            /\ IF named THEN owner[s.conn] = t
               ELSE s \in RowsOf(snapshots, c, t) /\ s.version = Latest(snapshots, c, t)
            /\ Arrive(q, c, t, "baseline.commit", s.id)
            /\ borrowed' = (borrowed \/ s.conn # c)
      BY <1>4 DEF BaselineRead
    <2>2. owner[s.conn] = t
      BY <2>1 DEF RowsOf
    <2>3. s.id \in Versions
      BY Constants DEF ConnInv, TypeOK, Snapshot, Requests, Versions
    <2>4. borrowed' \in BOOLEAN /\ (borrowed => borrowed') /\ (s.conn # c => borrowed')
      BY <2>1
    <2>5. UNCHANGED <<dbVars, died>>
      BY <1>4 DEF BaselineRead
    <2>6. "baseline.commit" \notin OwnLabels
      BY DEF OwnLabels
    <2> QED
      BY <2>1, <2>2, <2>3, <2>4, <2>5, <2>6, Reads
  <1>5. ASSUME NEW q \in Requests, StoreFirstSecret(q) \/ RotateInsert(q) PROVE ConnInv'
    BY <1>5, Inserts DEF StoreFirstSecret, RotateInsert
  <1>6. ASSUME NEW q \in Requests, ToggleCommit(q) \/ \E success \in BOOLEAN : TestCommit(q, success)
        PROVE  ConnInv'
    <2>1. CASE ToggleCommit(q)
      <3>1. (IF version[q] = 1 THEN "healthy" ELSE "disabled") \in {"healthy", "degraded", "disabled"}
        OBVIOUS
      <3> QED
        BY <2>1, <3>1, WritesStatus DEF ToggleCommit
    <2>2. ASSUME NEW success \in BOOLEAN, TestCommit(q, success) PROVE ConnInv'
      <3>1. (IF success THEN "healthy" ELSE "degraded") \in {"healthy", "degraded", "disabled"}
        OBVIOUS
      <3> QED
        BY <2>2, <3>1, WritesStatus DEF TestCommit
    <2> QED
      BY <1>6, <2>1, <2>2
  <1>7. ASSUME NEW q \in Requests, RecordAudit(q) \/ Die(q) PROVE ConnInv'
    <2>1. pc[q] \notin {"idle", "done"} /\ GoTo(q, "done") /\ UNCHANGED <<dbVars, borrowed>>
      BY <1>7 DEF RecordAudit, Die
    <2>2. /\ died' \in BOOLEAN /\ (died => died')
      BY <1>7, Zenon DEF RecordAudit, Die, ConnInv, TypeOK
    <2>3. pc[q] = "rotate.purge" => died'
      BY <1>7 DEF RecordAudit, Die
    <2> QED
      BY <2>1, <2>2, <2>3, Ends
  <1>8. ASSUME NEW q \in Requests, DiscoverStore(q) \/ DriftStore(q) PROVE ConnInv'
    <2>1. first[q] \in BOOLEAN
      BY DEF ConnInv, TypeOK
    <2> QED
      BY <1>8, <2>1, Snapshots DEF DiscoverStore, DriftStore
  <1>9. ASSUME NEW q \in Requests, RotatePurge(q) \/ DiscoverLook(q) \/ BaselineCommit(q) PROVE ConnInv'
    BY <1>9, Purges, Looks, Baselines
  <1> QED
    BY <1>1, <1>2, <1>3, <1>4, <1>5, <1>6, <1>7, <1>8, <1>9 DEF Next

\* The invariant of the endpoints.
LEMMA ConnInvariant == Spec => []ConnInv
  BY InitConn, NextConn, PTL DEF Spec

LEMMA AtMostOne ==
  ASSUME NEW S, \A x, y \in S : x = y
  PROVE  Cardinality(S) <= 1
  <1>1. CASE S = {}
    BY <1>1, FS_EmptySet
  <1>2. ASSUME NEW x \in S PROVE Cardinality(S) <= 1
    <2>1. S = {x}
      OBVIOUS
    <2> QED
      BY <2>1, FS_Singleton
  <1> QED
    BY <1>1, <1>2

\* Whatever is in flight, the endpoints keep to the types of their tables and
\* requests; no version exceeds the number of requests.
THEOREM TypeCorrect == Spec => []TypeOK
  <1>1. ConnInv => TypeOK
    BY DEF ConnInv
  <1> QED
    BY <1>1, ConnInvariant, PTL

\* Where foreign keys are enforced no secret or snapshot outlives its
\* connection (create_connection, rotate_credentials, delete_connection and
\* the schema endpoints, interleaved in any way and dying anywhere).
THEOREM OrphanFree == Spec => []NoOrphans
  <1>1. ConnInv => NoOrphans
    BY DEF ConnInv
  <1> QED
    BY <1>1, ConnInvariant, PTL

\* For a tenant that never overlaps requests the latest rotation has the
\* highest version, and unless a request died no older ciphertext is left
\* (rotate_credentials, purge_previous_versions).
THEOREM RotationsApply == Spec => []RotationTakesEffect
  <1>1. ConnInv => RotationTakesEffect
    <2> SUFFICES ASSUME ConnInv, limit = 1, NEW c \in Conns
                 PROVE  /\ \A s, u \in RowsOf(secrets, c, owner[c]) : s.by < u.by => s.version < u.version
                        /\ ~ died /\ InFlight = {} => Cardinality(RowsOf(secrets, c, owner[c])) <= 1
      BY DEF RotationTakesEffect
    <2>1. \A s \in RowsOf(secrets, c, owner[c]) : s \in secrets /\ s.conn = c
      BY DEF RowsOf
    <2>2. \A s, u \in RowsOf(secrets, c, owner[c]) : s.by < u.by => s.version < u.version
      BY <2>1 DEF ConnInv, Rotated
    <2>3. ASSUME ~ died, InFlight = {} PROVE Cardinality(RowsOf(secrets, c, owner[c])) <= 1
      <3>1. \A p \in Requests : p <= arrived => p \in 1..arrived
        BY Constants DEF ConnInv, TypeOK, Requests
      <3>2. \A p \in Requests : pc[p] \in {"idle", "done"}
        BY <2>3, <3>1 DEF InFlight, ConnInv, Numbered
      <3>3. \A s, u \in RowsOf(secrets, c, owner[c]) : s = u
        BY <2>1, <2>3, <3>2 DEF ConnInv, Rotated
      <3> QED
        BY <3>3, AtMostOne
    <2> QED
      BY <2>2, <2>3
  <1> QED
    BY <1>1, ConnInvariant, PTL

\* Without overlapping requests a connection has at most one baseline and its
\* snapshot versions are distinct, unless a baseline was borrowed from another
\* connection (discover, drift, set_baseline).
THEOREM SingleBaseline == Spec => []OneBaseline
  <1>1. ConnInv => OneBaseline
    <2> SUFFICES ASSUME ConnInv, limit = 1, ~ borrowed, NEW c \in Conns
                 PROVE  /\ Cardinality(GetBaseline(c, owner[c])) <= 1
                        /\ \A s, u \in RowsOf(snapshots, c, owner[c]) : s.version = u.version => s = u
      BY DEF OneBaseline
    <2>1. \A s, u \in snapshots : s.conn = u.conn /\ s # u =>
              s.version # u.version /\ ~ (s.baseline /\ u.baseline)
      BY DEF ConnInv, Baselined
    <2>2. \A s, u \in GetBaseline(c, owner[c]) : s = u
      BY <2>1 DEF GetBaseline, RowsOf
    <2> QED
      BY <2>1, <2>2, AtMostOne DEF RowsOf
  <1> QED
    BY <1>1, ConnInvariant, PTL
-----------------------------------------------------------------------------
(* Action properties *)

\* What a step does to the tables: one request, of the owner's tenant.
LEMMA OwnRowsOnly ==
  ASSUME ConnInv, Next
  PROVE  \E q \in Requests : pc'[q] # pc[q] /\ \A c \in Conns :
            (status'[c] # status[c]
             \/ {r \in secrets' : r.conn = c} # {r \in secrets : r.conn = c}
             \/ {r \in snapshots' : r.conn = c} # {r \in snapshots : r.conn = c})
            => tenant'[q] = owner'[c]
  <1> DEFINE Good(q) == pc'[q] # pc[q] /\ \A c \in Conns :
            (status'[c] # status[c]
             \/ {r \in secrets' : r.conn = c} # {r \in secrets : r.conn = c}
             \/ {r \in snapshots' : r.conn = c} # {r \in snapshots : r.conn = c})
            => tenant'[q] = owner'[c]
  <1>1. ASSUME NEW q \in Requests, NEW c \in Conns, NEW t \in Tenants, NEW label, NEW number,
               Arrive(q, c, t, label, number), label # "idle"
        PROVE  pc'[q] # pc[q] /\ tenant'[q] = t
    <2>1. q = arrived + 1
      BY <1>1 DEF Arrive
    <2>2. pc[q] = "idle"
      BY <2>1, NewRequest
    <2>3. pc'[q] = label /\ tenant'[q] = t
      BY <1>1 DEF Arrive, ConnInv, TypeOK
    <2> QED
      BY <1>1, <2>2, <2>3
  <1>2. ASSUME NEW q \in Requests, NEW label, GoTo(q, label), label # pc[q]
        PROVE  pc'[q] # pc[q] /\ tenant'[q] = tenant[q]
    BY <1>2 DEF GoTo, ConnInv, TypeOK
  <1>3. ASSUME NEW q \in Requests, NEW c \in Conns, NEW t \in Tenants, NEW credentials \in BOOLEAN,
               CreateConnection(q, c, t, credentials)
        PROVE  Good(q)
    <2>1. pc'[q] # pc[q] /\ tenant'[q] = t
      <3>1. PICK label \in {"create.secret", "audit"} : label = IF credentials THEN "create.secret" ELSE "audit"
        OBVIOUS
      <3> QED
        BY <1>1, <1>3, <3>1 DEF CreateConnection
    <2>2. /\ owner'[c] = t /\ secrets' = secrets /\ snapshots' = snapshots
          /\ \A d \in Conns : d # c => status'[d] = status[d]
      BY <1>3 DEF CreateConnection, ConnInv, TypeOK
    <2> QED
      BY <2>1, <2>2
  <1>4. ASSUME NEW q \in Requests, NEW c \in Conns, NEW t \in Tenants, DeleteConnection(q, c, t)
        PROVE  Good(q)
    <2>1. pc'[q] # pc[q] /\ tenant'[q] = t
      BY <1>1, <1>4 DEF DeleteConnection
    <2>2. owner'[c] = t /\ \A d \in Conns : d # c => status'[d] = status[d]
      BY <1>4 DEF DeleteConnection, GetById, ConnInv, TypeOK
    <2>3. /\ secrets' \subseteq secrets /\ \A r \in secrets : r.conn # c => r \in secrets'
          /\ snapshots' \subseteq snapshots /\ \A r \in snapshots : r.conn # c => r \in snapshots'
      BY <1>4 DEF DeleteConnection
    <2>4. \A d \in Conns : d # c => /\ {r \in secrets' : r.conn = d} = {r \in secrets : r.conn = d}
                                    /\ {r \in snapshots' : r.conn = d} = {r \in snapshots : r.conn = d}
      BY <2>3
    <2> QED
      BY <2>1, <2>2, <2>4
  <1>5. ASSUME NEW q \in Requests, NEW c \in Conns, NEW t \in Tenants,
               \/ \E enabled \in BOOLEAN : ToggleRead(q, c, t, enabled)
               \/ RotateRead(q, c, t)
               \/ TestRead(q, c, t)
               \/ DiscoverRead(q, c, t)
               \/ DriftRead(q, c, t)
               \/ \E named \in BOOLEAN : BaselineRead(q, c, t, named)
        PROVE  Good(q)
    <2>1. status' = status /\ secrets' = secrets /\ snapshots' = snapshots
      BY <1>5 DEF ToggleRead, RotateRead, TestRead, DiscoverRead, DriftRead, BaselineRead, dbVars
    <2>2. \E number : \E label \in {"toggle.commit", "rotate.insert", "test.commit", "discover.look",
                                    "drift.store", "baseline.commit"} : Arrive(q, c, t, label, number)
      BY <1>5 DEF ToggleRead, RotateRead, TestRead, DiscoverRead, DriftRead, BaselineRead
    <2>3. pc'[q] # pc[q]
      BY <1>1, <2>2
    <2> QED
      BY <2>1, <2>3
  <1>6. ASSUME NEW q \in Requests, StoreFirstSecret(q) \/ RotateInsert(q) PROVE Good(q)
    <2>1. /\ pc[q] \in OwnLabels /\ owner' = owner /\ status' = status /\ snapshots' = snapshots
          /\ secrets' = secrets \/ \E v : secrets' = secrets \cup {[conn |-> conn[q], version |-> v, by |-> q]}
      BY <1>6 DEF StoreFirstSecret, RotateInsert, InsertSecret, OwnLabels
    <2>2. pc'[q] # pc[q] /\ tenant'[q] = tenant[q]
      BY <1>2, <1>6 DEF StoreFirstSecret, RotateInsert, InsertSecret
    <2>3. owner[conn[q]] = tenant[q]
      BY <2>1 DEF ConnInv, Scoped
    <2>4. \A c \in Conns : c # conn[q] => {r \in secrets' : r.conn = c} = {r \in secrets : r.conn = c}
      BY <2>1
    <2> QED
      BY <2>1, <2>2, <2>3, <2>4
  <1>7. ASSUME NEW q \in Requests, ToggleCommit(q) \/ \E success \in BOOLEAN : TestCommit(q, success)
        PROVE  Good(q)
    <2>1. /\ pc[q] \in {"toggle.commit", "test.commit"} /\ \E new : WriteStatus(q, new)
          /\ owner' = owner /\ secrets' = secrets /\ snapshots' = snapshots
      BY <1>7 DEF ToggleCommit, TestCommit
    <2>2. \E label \in {"audit", "done"} : GoTo(q, label)
      BY <2>1 DEF WriteStatus
    <2>3. pc'[q] # pc[q] /\ tenant'[q] = tenant[q]
      BY <1>2, <2>1, <2>2
    <2>4. owner[conn[q]] = tenant[q]
      BY <2>1 DEF ConnInv, Scoped, OwnLabels
    <2>5. \A c \in Conns : c # conn[q] => status'[c] = status[c]
      BY <2>1 DEF WriteStatus, ConnInv, TypeOK
    <2> QED
      BY <2>1, <2>3, <2>4, <2>5
  <1>8. ASSUME NEW q \in Requests, RotatePurge(q) PROVE Good(q)
    <2>1. /\ pc[q] = "rotate.purge" /\ GoTo(q, "audit") /\ owner' = owner /\ status' = status
          /\ snapshots' = snapshots /\ secrets' \subseteq secrets
          /\ \A r \in secrets : r.conn # conn[q] => r \in secrets'
      BY <1>8 DEF RotatePurge, PurgePreviousVersions, RowsOf
    <2>2. pc'[q] # pc[q] /\ tenant'[q] = tenant[q]
      BY <1>2, <2>1
    <2>3. owner[conn[q]] = tenant[q]
      BY <2>1 DEF ConnInv, Scoped, OwnLabels
    <2>4. \A c \in Conns : c # conn[q] => {r \in secrets' : r.conn = c} = {r \in secrets : r.conn = c}
      BY <2>1
    <2> QED
      BY <2>1, <2>2, <2>3, <2>4
  <1>9. ASSUME NEW q \in Requests, DiscoverStore(q) \/ DriftStore(q) PROVE Good(q)
    <2>1. /\ pc[q] \in {"discover.store", "drift.store"} /\ GoTo(q, "done")
          /\ owner' = owner /\ status' = status /\ secrets' = secrets
          /\ snapshots' = snapshots \/ \E b : snapshots' = snapshots \cup
                  {[id |-> q, conn |-> conn[q], version |-> version[q], baseline |-> b]}
      BY <1>9 DEF DiscoverStore, DriftStore, StoreSnapshot
    <2>2. pc'[q] # pc[q] /\ tenant'[q] = tenant[q]
      BY <1>2, <2>1
    <2>3. owner[conn[q]] = tenant[q]
      BY <2>1 DEF ConnInv, Scoped, OwnLabels
    <2>4. \A c \in Conns : c # conn[q] => {r \in snapshots' : r.conn = c} = {r \in snapshots : r.conn = c}
      BY <2>1
    <2> QED
      BY <2>1, <2>2, <2>3, <2>4
  <1>10. ASSUME NEW q \in Requests, BaselineCommit(q) PROVE Good(q)
    <2> DEFINE F(s) == IF s.id = version[q] THEN [s EXCEPT !.baseline = TRUE]
                       ELSE IF s \in RowsOf(snapshots, conn[q], tenant[q])
                       THEN [s EXCEPT !.baseline = FALSE] ELSE s
    <2>1. /\ pc[q] = "baseline.commit" /\ GoTo(q, "audit") /\ owner' = owner /\ status' = status
          /\ secrets' = secrets /\ snapshots' = {F(s) : s \in snapshots}
      BY <1>10 DEF BaselineCommit, SetBaseline
    <2>2. pc'[q] # pc[q] /\ tenant'[q] = tenant[q]
      BY <1>2, <2>1
    <2>3. \A s \in snapshots : s.id = version[q] => owner[s.conn] = tenant[q]
      BY <2>1 DEF ConnInv, Scoped
    <2>4. \A s \in snapshots : F(s).conn = s.conn /\ (F(s) # s => owner[s.conn] = tenant[q])
      <3> SUFFICES ASSUME NEW s \in snapshots
                   PROVE  F(s).conn = s.conn /\ (F(s) # s => owner[s.conn] = tenant[q])
        OBVIOUS
      <3>1. s \in Snapshot
        BY DEF ConnInv, TypeOK
      <3>2. F(s).conn = s.conn
        BY <3>1 DEF Snapshot
      <3>3. F(s) # s => owner[s.conn] = tenant[q]
        BY <2>3 DEF RowsOf
      <3> QED
        BY <3>2, <3>3
    <2> HIDE DEF F
    <2>5. ASSUME NEW c \in Conns, owner[c] # tenant[q]
          PROVE  {r \in snapshots' : r.conn = c} = {r \in snapshots : r.conn = c}
      <3>1. \A s \in snapshots : s.conn = c => F(s) = s
        BY <2>4, <2>5
      <3> QED
        BY <2>1, <2>4, <3>1
    <2> QED
      BY <2>1, <2>2, <2>5
  <1>11. ASSUME NEW q \in Requests, DiscoverLook(q) \/ RecordAudit(q) \/ Die(q) PROVE Good(q)
    <2>1. status' = status /\ secrets' = secrets /\ snapshots' = snapshots
      BY <1>11 DEF DiscoverLook, RecordAudit, Die, dbVars
    <2>2. pc'[q] # pc[q]
      BY <1>2, <1>11 DEF DiscoverLook, RecordAudit, Die, ConnInv, TypeOK
    <2> QED
      BY <2>1, <2>2
  <1> HIDE DEF Good
  <1>12. \E q \in Requests : Good(q)
    BY <1>3, <1>4, <1>5, <1>6, <1>7, <1>8, <1>9, <1>10, <1>11 DEF Next
  <1> QED
    BY <1>12 DEF Good

\* A request changes rows of its own tenant only, also when it sets as
\* baseline a snapshot of another connection (tenant_scoped.py).
THEOREM Isolation == Spec => TenantIsolation
  <1>1. ConnInv /\ [Next]_vars =>
          [\A c \in Conns :
              (status'[c] # status[c]
               \/ {r \in secrets' : r.conn = c} # {r \in secrets : r.conn = c}
               \/ {r \in snapshots' : r.conn = c} # {r \in snapshots : r.conn = c})
              => \E q \in Requests : pc'[q] # pc[q] /\ tenant'[q] = owner'[c]]_vars
    BY OwnRowsOnly
  <1> QED
    BY <1>1, ConnInvariant, PTL DEF Spec, TenantIsolation

\* What enables a disabled connection.
LEMMA EnabledBy ==
  ASSUME ConnInv, Next, NEW c \in Conns, status[c] = "disabled", status'[c] \in {"healthy", "degraded"}
  PROVE  \E q \in Requests : conn[q] = c /\ pc'[q] = "audit" /\
            \/ pc[q] = "toggle.commit"
            \/ pc[q] = "test.commit" /\ limit > 1 /\ loaded[q] \notin {"disabled", status'[c]}
  <1>1. ASSUME NEW q \in Requests, NEW d \in Conns, NEW t \in Tenants,
               \/ \E credentials \in BOOLEAN : CreateConnection(q, d, t, credentials)
               \/ DeleteConnection(q, d, t)
        PROVE  FALSE
    BY <1>1 DEF CreateConnection, DeleteConnection, ConnInv, TypeOK
  <1>2. ASSUME NEW q \in Requests,
               \/ \E d \in Conns, t \in Tenants :
                   \/ \E enabled \in BOOLEAN : ToggleRead(q, d, t, enabled)
                   \/ RotateRead(q, d, t) \/ TestRead(q, d, t) \/ DiscoverRead(q, d, t) \/ DriftRead(q, d, t)
                   \/ \E named \in BOOLEAN : BaselineRead(q, d, t, named)
               \/ StoreFirstSecret(q) \/ RotateInsert(q) \/ RotatePurge(q) \/ DiscoverLook(q)
               \/ DiscoverStore(q) \/ DriftStore(q) \/ BaselineCommit(q) \/ RecordAudit(q) \/ Die(q)
        PROVE  FALSE
    <2>1. status' = status
      BY <1>2 DEF ToggleRead, RotateRead, TestRead, DiscoverRead, DriftRead, BaselineRead, dbVars,
                  StoreFirstSecret, RotateInsert, RotatePurge, DiscoverLook, DiscoverStore, DriftStore,
                  StoreSnapshot, BaselineCommit, RecordAudit, Die
    <2> QED
      BY <2>1
  <1>3. ASSUME NEW q \in Requests, NEW new, WriteStatus(q, new)
        PROVE  conn[q] = c /\ pc'[q] = "audit" /\ status'[c] = new /\ new # loaded[q]
    <2>1. status' # status
      OBVIOUS
    <2>2. new # loaded[q] /\ GoTo(q, "audit") /\ status' = [status EXCEPT ![conn[q]] = new]
      BY <1>3, <2>1 DEF WriteStatus
    <2>3. conn[q] = c /\ status'[c] = new
      BY <2>2 DEF ConnInv, TypeOK
    <2>4. pc'[q] = "audit"
      BY <2>2 DEF GoTo, ConnInv, TypeOK
    <2> QED
      BY <2>2, <2>3, <2>4
  <1>4. ASSUME NEW q \in Requests, ToggleCommit(q)
        PROVE  conn[q] = c /\ pc'[q] = "audit" /\ pc[q] = "toggle.commit"
    BY <1>3, <1>4 DEF ToggleCommit
  <1>5. ASSUME NEW q \in Requests, NEW success \in BOOLEAN, TestCommit(q, success)
        PROVE  /\ conn[q] = c /\ pc'[q] = "audit"
               /\ pc[q] = "test.commit" /\ limit > 1 /\ loaded[q] \notin {"disabled", status'[c]}
    <2>1. conn[q] = c /\ pc'[q] = "audit" /\ status'[c] # loaded[q] /\ pc[q] = "test.commit"
      BY <1>3, <1>5 DEF TestCommit
    <2>2. loaded[q] # "disabled"
      BY <2>1 DEF ConnInv, Kept
    <2>3. limit # 1
      BY <2>1, <2>2 DEF ConnInv, Alone
    <2>4. limit \in Nat \ {0}
      BY Constants DEF ConnInv, TypeOK
    <2>5. limit > 1
      BY <2>3, <2>4
    <2> QED
      BY <2>1, <2>2, <2>5
  <1> QED
    BY <1>1, <1>2, <1>4, <1>5 DEF Next

\* A disabled connection is enabled by toggle alone, or by a test that was in
\* flight since before it was disabled and whose verdict differs from the
\* status it had loaded (toggle_connection, test_connection).
THEOREM DisabledByToggle == Spec => DisabledStays
  <1>1. ConnInv /\ [Next]_vars =>
          [\A c \in Conns : status[c] = "disabled" /\ status'[c] \in {"healthy", "degraded"} =>
              \E q \in Requests : conn[q] = c /\ pc'[q] = "audit" /\
                  \/ pc[q] = "toggle.commit"
                  \/ pc[q] = "test.commit" /\ limit > 1 /\ loaded[q] \notin {"disabled", status'[c]}]_vars
    BY EnabledBy
  <1> QED
    BY <1>1, ConnInvariant, PTL DEF Spec, DisabledStays

\* Of an existing connection a step deletes only secrets older than one it keeps.
LEMMA NewerKept ==
  ASSUME ConnInv, Next, NEW c \in Conns, Exists(c), Exists(c)'
  PROVE  /\ owner'[c] = owner[c]
         /\ \A s \in secrets : s.conn = c => \E u \in secrets' : u.conn = c /\ u.version >= s.version
  <1>0. \A s \in secrets : s.version \in Nat /\ s.version >= s.version
    BY Constants DEF ConnInv, TypeOK, Secret, Versions
  <1>1. ASSUME NEW q \in Requests, NEW d \in Conns, NEW t \in Tenants, NEW credentials \in BOOLEAN,
               CreateConnection(q, d, t, credentials)
        PROVE  owner'[c] = owner[c] /\ secrets \subseteq secrets'
    BY <1>1 DEF CreateConnection, Exists, ConnInv, TypeOK
  <1>2. ASSUME NEW q \in Requests, NEW d \in Conns, NEW t \in Tenants, DeleteConnection(q, d, t)
        PROVE  owner'[c] = owner[c] /\ \A s \in secrets : s.conn = c => s \in secrets'
    <2>1. c # d
      BY <1>2 DEF DeleteConnection, Exists, ConnInv, TypeOK
    <2> QED
      BY <1>2, <2>1 DEF DeleteConnection
  <1>3. ASSUME NEW q \in Requests,
               \/ \E d \in Conns, t \in Tenants :
                   \/ \E enabled \in BOOLEAN : ToggleRead(q, d, t, enabled)
                   \/ RotateRead(q, d, t) \/ TestRead(q, d, t) \/ DiscoverRead(q, d, t) \/ DriftRead(q, d, t)
                   \/ \E named \in BOOLEAN : BaselineRead(q, d, t, named)
               \/ StoreFirstSecret(q) \/ RotateInsert(q) \/ ToggleCommit(q)
               \/ (\E success \in BOOLEAN : TestCommit(q, success)) \/ DiscoverLook(q)
               \/ DiscoverStore(q) \/ DriftStore(q) \/ BaselineCommit(q) \/ RecordAudit(q) \/ Die(q)
        PROVE  owner' = owner /\ secrets \subseteq secrets'
    BY <1>3 DEF ToggleRead, RotateRead, TestRead, DiscoverRead, DriftRead, BaselineRead, dbVars,
                StoreFirstSecret, RotateInsert, InsertSecret, ToggleCommit, TestCommit, DiscoverLook,
                DiscoverStore, DriftStore, StoreSnapshot, BaselineCommit, RecordAudit, Die
  <1>4. ASSUME NEW q \in Requests, RotatePurge(q)
        PROVE  /\ owner' = owner
               /\ \A s \in secrets : s.conn = c => \E u \in secrets' : u.conn = c /\ u.version >= s.version
    <2>1. /\ owner' = owner /\ pc[q] = "rotate.purge"
          /\ secrets' = secrets \ {s \in RowsOf(secrets, conn[q], tenant[q]) : s.version < version[q]}
      BY <1>4 DEF RotatePurge, PurgePreviousVersions
    <2>2. version[q] \in Nat
      BY Constants DEF ConnInv, TypeOK, Versions
    <2>3. ASSUME NEW s \in secrets, s.conn = c PROVE \E u \in secrets' : u.conn = c /\ u.version >= s.version
      <3>1. CASE s \in secrets'
        BY <1>0, <2>3, <3>1
      <3>2. CASE s \notin secrets'
        <4>1. conn[q] = c /\ s.version < version[q]
          BY <2>1, <2>3, <3>2 DEF RowsOf
        <4>2. PICK u \in secrets : u.conn = c /\ u.version >= version[q]
          BY <2>1, <4>1 DEF ConnInv, Kept
        <4>3. u \in secrets'
          BY <1>0, <2>1, <2>2, <4>2
        <4>4. u.version >= s.version
          BY <1>0, <2>2, <4>1, <4>2
        <4> QED
          BY <4>2, <4>3, <4>4
      <3> QED
        BY <3>1, <3>2
    <2> QED
      BY <2>1, <2>3
  <1> QED
    BY <1>0, <1>1, <1>2, <1>3, <1>4 DEF Next

\* The newest version of a connection's secret never goes back while the
\* connection exists (purge_previous_versions), whatever rotations overlap.
THEOREM NewestStays == Spec => NewestSecretStays
  <1>1. ASSUME ConnInv, ConnInv', Next, NEW c \in Conns, Exists(c), Exists(c)'
        PROVE  Latest(secrets, c, owner[c])' >= Latest(secrets, c, owner[c])
    <2> DEFINE S == {0} \cup {r.version : r \in {s \in secrets : s.conn = c}}
               T == {0} \cup {r.version : r \in {s \in secrets' : s.conn = c}}
    <2>1. Latest(secrets, c, owner[c]) = Max(S)
      <3>1. RowsOf(secrets, c, owner[c]) = {s \in secrets : s.conn = c}
        BY DEF RowsOf
      <3> QED
        BY <3>1 DEF Latest
    <2>2. Latest(secrets, c, owner[c])' = Max(T)
      <3>1. RowsOf(secrets, c, owner[c])' = {s \in secrets' : s.conn = c}
        BY DEF RowsOf
      <3>2. Latest(secrets, c, owner[c])' = Max({0} \cup {r.version : r \in RowsOf(secrets, c, owner[c])'})
        BY DEF Latest
      <3> QED
        BY <3>1, <3>2
    <2>3. S \in SUBSET (0..MaxRequests) /\ S # {}
      BY <1>1, Constants DEF ConnInv, TypeOK, Secret, Versions
    <2>4. T \in SUBSET (0..MaxRequests) /\ T # {}
      BY <1>1, Constants DEF ConnInv, TypeOK, Secret, Versions
    <2>5. \A x \in S : \E y \in T : y >= x
      <3>1. \A s \in secrets : s.conn = c => \E u \in secrets' : u.conn = c /\ u.version >= s.version
        BY <1>1, NewerKept
      <3>2. \A s \in secrets : s.conn = c => \E y \in T : y >= s.version
        BY <3>1
      <3>3. 0 \in T /\ 0 >= 0
        OBVIOUS
      <3>4. \A x \in S : x = 0 \/ \E s \in secrets : s.conn = c /\ x = s.version
        OBVIOUS
      <3> HIDE DEF S, T
      <3> QED
        BY <3>2, <3>3, <3>4
    <2> HIDE DEF S, T
    <2>6. Max(S) \in S
      BY <2>3, Constants, MaxElement
    <2>7. Max(T) \in T /\ \A y \in T : Max(T) >= y
      BY <2>4, Constants, MaxElement
    <2>8. PICK y \in T : y >= Max(S)
      BY <2>5, <2>6
    <2>9. Max(S) \in Nat /\ Max(T) \in Nat /\ y \in Nat
      <3>1. Max(S) \in 0..MaxRequests /\ Max(T) \in 0..MaxRequests /\ y \in 0..MaxRequests
        BY <2>3, <2>4, <2>6, <2>7
      <3> QED
        BY <3>1, Constants
    <2>10. Max(T) >= Max(S)
      BY <2>7, <2>8, <2>9
    <2> QED
      BY <2>1, <2>2, <2>10
  <1>2. ConnInv /\ ConnInv' /\ [Next]_vars =>
          [\A c \in Conns : Exists(c) /\ Exists(c)' =>
              Latest(secrets, c, owner[c])' >= Latest(secrets, c, owner[c])]_vars
    BY <1>1
  <1> QED
    BY <1>2, ConnInvariant, PTL DEF Spec, NewestSecretStays
=============================================================================
