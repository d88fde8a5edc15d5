# FlowMesh: TLA+ models, checks and proofs

FlowMesh runs declarative workflows: a run is a traversal of a graph of nodes,
each of which calls a connector, queues a command for an edge agent or waits for
an operator. What makes it hard is not the traversal but everything around it:
runs survive crashes through database rows, several API replicas act on the same
rows, operators approve, reject and replay while a run is in flight, and one
circuit breaker per connection is shared by all of them. Around the engine are
connections whose secrets rotate while they are used, connectors that decide what
a lost or refused request is reported as, an edge agent that spools results while
it is cut off, and a Java worker with a lock-free limiter and an outbox. This
directory models those parts and checks them with TLC. TLAPS proves every safety
property of the passing runs for all values of the constants: every graph and connector,
any number of commands, connections, tenants, threads and crashes, and of requests
except where a theorem says "one at a time".

## 1. Inventory

| Component | State | Operations | Hard behaviour | Correct when |
|---|---|---|---|---|
| Workflow engine (`services/workflow-engine/flowmesh_engine/engine.py`) | `RunRecord`, `RunStepRecord`, per-request queue, visited set, context | `execute`, `resume_approval`, `_execute_node`, `_park_approval_step`, `_route_to_dlq` | one commit per step, crash between commits, requests on the same run, sessions with stale rows | gates hold, failures are dead-lettered, success means complete, resumed runs follow the graph |
| Run, approval and dead letter endpoints (`routers/runs.py`, `routers/incidents.py`) | dead letter records | trigger, approve, reject, replay, replay-all | check then act on rows read earlier | a decision lands on a parked step, a replay executes what failed |
| Repositories (`repositories/tenant_scoped.py`) | SQLAlchemy session over the rows | `get_by_id`, `record_step`, `update_step`, `update_run_status`, `mark_replayed` | identity map keeps old values | writes match what was decided on |
| Error classification (`flowmesh_engine/errors.py`) | none | `categorize_error`, `calculate_backoff` | last attempt, unknown errors | attempts bounded |
| Circuit breaker (`packages/state-store`) | state, failure count, opening time per connection | `get_circuit_breaker_state`, `record_circuit_failure`, `record_circuit_success` | shared by all replicas; three commands in Redis; late answers | keys agree, cooldown kept, never stuck open |
| Incident manager (`services/incident-manager`) | incident rows | report trip, report recovery, resolve | reported after the store changed | an outage is visible |
| State store locks, Java lock and cache services | lock keys with TTL | acquire, release | expiry while held, release of somebody else's lock | at most one holder |
| Workflow versions (`routers/workflows.py`) | workflows, versions, current pointer | create, deploy, rollback, list | two commits, stale loads, runs in flight across a deploy | versions immutable, pointer agrees, a run finishes on its version |
| Webhook ingress (`routers/webhooks.py`) | idempotency keys on runs | receive | check then act | one run per key |
| Agent control plane (`routers/agents.py`) | agent record, command rows | token, enroll, heartbeat, dispatch, poll, result | a poll commits row by row and outlives its client; lost answers | a command is handed out once, a result is the agent's |
| Edge agent (`apps/agent`) | identity in memory, SQLite spool | enroll, heartbeat, poll, process, report, buffer, drain | reconnects, crashes, partial drains | a command runs at most once, a buffered result arrives |
| Connection endpoints (`routers/connections.py`) | connections, versioned secrets, schema snapshots | create, OAuth exchange, toggle, rotate, test, discover, drift, baseline, delete | several commits per request, the connector awaited in between, deletion in flight | secrets move forward, disabling holds, no orphans, one baseline, tenants apart |
| Connectors (`connectors/*`) and SDK (`packages/connector-sdk`) | sockets | `test`, `discover`, `execute` | refused, lost and unanswered requests, sandbox fallbacks, retries around them | success means served |
| Scheduler (`flowmesh_engine/scheduler.py`) | jobs in memory | register, `check_due_jobs` | several replicas | one trigger per due time |
| Schema, validation (`packages/workflow-schema`, `validation.py`) | none | cycle detection, reachability | | agrees with the definition |
| Event router, policies, rate limiter, drift | in-memory maps | | | |
| Enterprise worker (Java) | token bucket, tenant stripes, transaction and outbox rows | `tryAcquire`, `processTransaction`, `processPendingEvents` | compare-and-set loops, two commits, repeated publication | no over-spend, order kept, no lost event |
| Web console, assistant, observability, .NET worker | | | user interface, text, metrics | not modelled |

How they interact: the endpoints call the engine with a session of the request;
the engine writes rows through the repositories, asks and feeds the state store's
breaker around every dispatch of a connected node, and reports trips and
recoveries to the incident manager. A node either calls a connector with the
connection's newest secret or queues a command row that an agent polls for. Replicas
share the database and (with Redis) the state store and nothing else. The Java worker
has a database of its own.

## 2. Modules

| Module | What it is |
|---|---|
| `WorkflowEngine` | one run, its rows, and any number of requests acting on it |
| `WorkflowEngineProps` | the properties of `WorkflowEngine` |
| `WorkflowEngineProofs` | TLAPS: type correctness, approval gates, dead letters; with one request at a time completed steps, edges, completeness, dispatch counts, parked rows |
| `MCWorkflowEngine` | workflow graphs for TLC |
| `CircuitBreaker` | one connection's breaker, its callers and its incidents |
| `CircuitBreakerProofs` | TLAPS: type correctness; keys and cooldown of the memory store; reported trips |
| `MCCircuitBreaker` | symmetry for TLC |
| `WorkflowVersions` | workflows, their versions, and the runs started from them |
| `WorkflowVersionsProofs` | TLAPS: type correctness, immutability, agreement of workflow and versions, idempotency keys |
| `MCWorkflowVersions` | definitions for TLC |
| `EdgeAgent`, `MCEdgeAgent` | one agent, its spool, and the control plane's command rows and poll handlers |
| `ConnectorSuite` | every connector as decisions: what is sent, what is reported when it goes wrong |
| `ConnectorCalls`, `MCConnectorCalls` | one call of a connector and the engine's retries against a system that can fail |
| `Connections`, `MCConnections` | connections, secrets and snapshots of several tenants under interleaved requests |
| `EnterpriseWorker`, `MCEnterpriseWorker` | threads of the Java worker: limiter, stripe, transactions, outbox |
| `TokenBudget` | what a token bucket promises; `EnterpriseWorker` is shown to implement it |
| `EdgeAgentProofs`, `ConnectorCallsProofs`, `ConnectionsProofs`, `EnterpriseWorkerProofs` | TLAPS: all safety properties of the component, and the refinement of `TokenBudget` |
| `Extrema` | lemmas: least and greatest elements of sets of naturals, which the induction arguments rest on |

The models meet at a few interfaces. `WorkflowEngine` takes the breaker's answer
as given, `CircuitBreaker` says which answers there are. `WorkflowVersions` executes a
run in one step and says with which definition, `WorkflowEngine` takes a definition
(the constants `Nodes`, `Out`) and says how it is executed. One `Dispatch` of
`WorkflowEngine` is one attempt of `ConnectorCalls`, or the `DispatchCommand` of
`EdgeAgent`, which succeeds as soon as the row is there. `ConnectorCalls` takes the
connection as configured; `Connections` says which secret it has.

### WorkflowEngine

`status`, `steps` and `dlq` are the rows of one run; rows of different runs never
meet. A worker is one HTTP request with its own session. Every commit of the code
is one action, so the interleavings are those of the awaits that matter and
`Crash` may fall between any two commits. The per-request variables are the local
variables of `execute` and `_execute_node` (`queue`, `visited`, `ctx`, `cur`,
`attempt`), and what the session remembers (`seen`, `view`):

* The session factory has `expire_on_commit=False`, so a second `get_by_id` in a
  session returns the objects already loaded with their old column values and only
  adds rows it has not seen (`Reread`). Decisions are made on these views
  (`DecideStep`), writes go to the rows.
* `run.status = "RUNNING"` reaches the database only when the session's old value
  differs (`MarkRunning`).
* `Dispatch` is one attempt. Breaker and incident bookkeeping is inside the same
  `try` block, so a store error after the call has succeeded counts as a failed
  attempt; a store error at the guard or in the `except` branch ends the request
  (`StoreOutage`).
* An approval is committed before the definition to resume with is looked up. With
  `LookupFaults` the lookup may fail (`ResumeFails`), which ends the request.
* Nothing restarts a run: there is no recovery at start-up, so `Crash` leaves the
  row as it is.

Data is abstracted to what edges can tell apart: an output snapshot is a member of
`Outputs`, a condition names the node whose output is tested (`Holds`). Error
wording, audit entries, metrics and traces are left out; an error is retried or
not (`Failed`). The breaker's answer at the guard is nondeterministic here and
exact in `CircuitBreaker`. `Gated[a]` is the set of nodes dominated by approval `a`;
its assumption is just the closure under edges that the proof needs, and TLC
evaluates it with the real dominators (`Dominated`).

`replay_dead_letter` falls back to another workflow, or to only marking the
record, when the run or the workflow does not exist; only the demo reset, which is
disabled in production, deletes runs. The other workflow is in `WorkflowVersions`.

### CircuitBreaker

`state`, `failures`, `openedAge` are the three keys. With `Remote = FALSE` every
operation of the store is one step of the event loop; with `Remote = TRUE` a caller
reads its clock, the script runs later (`delay`), and `record_circuit_success` is
three commands. Timestamps are kept as ages capped at `Cooldown + MaxDelay`, beyond
which no comparison changes; the failure count is capped at `Threshold` for the
same reason. Clock skew between replicas is not modelled. Callers go through the
retry loop of `_execute_node`, which asks the breaker once and not again on a
retry. `incidents` are the connection's incident rows; trip and recovery reports
read and write in separate steps. `trippedAge` is history.

### WorkflowVersions

`wf` is the workflows table, `rows` the versions table, `runs` the runs with their
workflow id, version number and idempotency key; `newest` is the workflow with the
latest `created_at`. A session is one request (`job`): it loads, and commits in a
later step, so other sessions commit in between and `Crash` loses what is not
committed. What a flush writes is modelled exactly (`Written`): only the columns whose
new value differs from the one the session loaded. Deactivating the other versions and
inserting the new one are one transaction, which the unique index on (workflow, version)
may refuse. `pinned` and `used` of a run are history: the definition it was started
with and those it was executed with.

`create_workflow` gives out random ids, so no workflow ever has the default id
`wf_order_processing` unless the demo data is loaded (not modelled). A run gets the
id inside its definition, if there is one, and that default otherwise; where the
database enforces foreign keys (`ForeignKeys`, PostgreSQL) a run of a workflow that
does not exist is refused, with SQLite it is not. Definitions are taken to pass
validation and policy: a refused request changes nothing. Which active workflow matches
the path of a delivery is nondeterministic. The isolation level of PostgreSQL inside one
transaction is not modelled: a commit is one step.

### EdgeAgent

`agentRow` and `cmds` are the control plane's rows, `handler` its poll handlers in
flight, `proc` the position of the agent's loop, `known` and `keyed` whether it has
the id and the public key of an enrollment, `inbox` and `result` its local variables,
`spool` the SQLite table. The agent is one goroutine (`agent.go`, `Start`): a tick runs a
heartbeat, a poll or a drain to its end. A poll handler commits one `DISPATCHED` row per
command (`MarkDispatched`) and does not notice that the client gave up (`PollTimeout`),
so handlers overlap. Every request can be lost before it is handled, or its answer
afterwards (`LosePoll`, `EnrollFails`, `SpoolHeartbeat`, `BufferResult`, `DrainFails`).
`Crash` keeps the spool only. Rows are read, marked, answered and processed in
`created_at` order, which is the order of the command numbers, so a handler's work and
the inbox are sets whose least element is next; a drain deletes the posted rows and
keeps the others in their order (`Kept`).

Verification is modelled by what is signed: the key order of the two canonical
encodings (`CanonicalizePython`, `CanonicalizeGo`). Policy evaluation is exact up to
letter case, with the rules `main` installs. What a connector of the agent returns is
a status. The model has one tenant and one agent. `config` is a deployment: the environment (which decides whether the drain's posts,
without tenant header, are accepted), the flags, and whether faults happen at all.

### ConnectorSuite and ConnectorCalls

`ConnectorSuite` states for every connector which operations it advertises, under which
configuration an operation sends a request (`live`), and which values
`OperationResult.success` may take when the request is refused, lost, cannot be sent or is not sent at
all; and what its `test` and `discover` ask. It holds no state. `ConnectorCalls` makes a call of it:
the other system serves, refuses, or loses request or answer, PostgreSQL's `insert` is
one autocommitted request per record, and for node types the engine reaches without a connection
the retry loop goes round. `served`, `lost` and `open` are history.

Rows, documents, formatting and timings are left out; placeholder keys, hosts and URLs
are one flag (`example`). The retries inside `FlowMeshHttpClient` are part of one request.

### Connections

`status`, `owner`, `secrets` and `snapshots` are the tables. A request is a number, in
order of arrival; its label is the await it is at. One action is what happens between
two awaits that read or commit, so `test_connection` loads, waits for the connector and
writes in a later step. A flush writes `status` only when it differs from what was
loaded (`WriteStatus`). `Die` stops a request anywhere. `foreignKeys` tells PostgreSQL
from SQLite as the engine is created, `limit` how many requests are in flight at most:
what holds only without overlap is stated for `limit = 1`. A secret is the request that
stored it; encryption, names and configuration are left out. A refused request (404,
disabled) changes nothing and is left out.

### EnterpriseWorker and TokenBudget

The limiter is modelled read by read and compare-and-set by compare-and-set; `now`,
`last`, `toAdd` and `current` are local variables of `refillTokens` and `tryConsume`.
`processTransaction` runs under the tenant's stripe; its two saves are two commits,
since `persistTransaction` is called on `this`. A processor reads a batch, publishes
event by event, the oldest first (`batch` is a set of outbox positions), and commits all
marks at the end, or rolls them back. `publish` returns
true whether or not the broker took the message (`swallowed`). `Crash` resets
everything but the database and the broker.

`TokenBudget` is the abstract specification: tokens are granted when there are any,
never exceed the capacity, and every tick of the clock pays for tokens at most once; a
restart fills the bucket. The refinement mapping takes as unpaid the ticks since `lastRefill` and those threads have
claimed with their compare-and-set and not yet added. `LimiterKeepsBudget` is `Budget!Spec`, and that nothing but `Crash` maps to a restart.

## 3. Runs

| Run | Instance | Shows |
|---|---|---|
| `EngineSequential` | one worker, trigger, connected step, conditional gate, connected step; 2 attempts, 5 requests, crashes and store faults | resumed runs never take a SUCCESS row back, start a node only along an edge that holds, and report SUCCESS only when complete |
| `EngineConcurrent` | two workers, same graph, 4 requests, crashes and store faults | no interleaving passes an unapproved gate or leaves FAILED without a dead letter |
| `EngineFaultless` | one worker, 5 requests, no faults, fair | each node at most once, a parked run can be decided, every run settles |
| `EngineJoin` | violation | a join runs before its slower predecessor |
| `BreakerMemory` | three callers, threshold 2, cooldown 2, 2 attempts, restarts | keys agree, cooldown kept, trips reported |
| `BreakerRedisLive` | two callers, Redis, delay 1, crashes, fair | never stuck open |
| `VersionsSequential` | one session, two workflows, three definitions, 5 requests, crashes | active workflow and versions table agree, versions never change, one run per key |
| `VersionsPinning` | violation, foreign keys enforced | an approved run continues with another definition |
| `AgentDelivery` | two commands, two poll handlers, three deployments, one crash, fair | a command runs at most once, its status is what the agent computed, a buffered result arrives where the drain is accepted, without faults every queued command is decided |
| `ConnectorCalls` | every connector and operation, configurations with at most one requirement missing, 3 records, 3 attempts | in production a checked operation that reports success was served, requests repeat only after lost answers, connections are closed, tests that ask notice |
| `Connections` | two connections, two tenants, four requests, one and two at a time, with and without foreign keys | secrets only move forward, a rotation takes effect, a disabled connection stays so up to one race, no orphans, one baseline, tenants apart |
| `EnterpriseWorker` | two threads, 2 tokens, 3 tokens per 2 ticks, 2 ticks, 3 transactions, batches of 2, thread symmetry | the limiter implements `TokenBudget`, the outbox follows the commits, nothing is marked that was not handed to the producer, an answered request has its event |

**Bounds.** `MaxRequests` bounds the requests of a behaviour: three (trigger, replay,
replay) are needed for a doubly replayed node, five let a run park, be approved,
fail behind the gate, be replayed and be replayed again. Two workers suffice for a
race between two requests; the proofs cover any number. Threshold 2 separates
"below", "at" and "above", cooldown 2 separates "early" and "late" with a delayed
clock in between. `MaxIncidents` only stops operators from resolving for ever;
`BreakerMemory` sets it to 0, so that nobody resolves and `TripIsReported` is about
the reports alone. In `WorkflowVersions` three versions allow two deployments and a
rollback between them, two runs show a duplicate, and five requests are create,
deploy, deliver, deploy and replay. The definition "carries" has its workflow's id and
schema version 2 inside, the others have the defaults.

In `AgentDelivery` two commands (one the policy allows at its limit, one it refuses) and
two handlers let a late handler overlap the next poll; peeking two of up to three
spooled events leaves one for the next drain; one heartbeat makes the spool mixed. Of the
deployments one has faults; the two strict ones are without. In `ConnectorCalls` three
records and three attempts let an insert fail at the second record twice. Four requests
of `Connections` are create, two overlapping rotations and a third, or create, discover,
drift and delete. In `EnterpriseWorker` one tick pays one and a half tokens, so rounding
loses credit; two ticks more than fill the bucket; three transactions fill more than a batch.

**Deadlock.** Engine, version, connection and connector runs end when no requests are left, so
deadlock is not checked there; the breaker's clock, the agent's heartbeat and the
worker's restart always go on, and deadlock is checked.

**Fairness.** `FairSpec` of the engine assumes only that a request in flight keeps
being scheduled: the event loop resumes every ready coroutine, and the database and
connectors have timeouts. No request is ever forced to arrive. The breaker also
assumes that time passes. Both are weak fairness. The agent's loop and the control
plane's handlers in flight are weakly fair; systemd restarts the agent
(`infra/systemd/flowmesh-agent.service:29`, `Restart=always`). Polls, drains and the posts of a drain
are strongly fair: each ticker fires again and again between the others, and a post that is repeated for
ever gets through some time. No fault, heartbeat, command or crash is forced.

**What the violations say.** `EngineJoin`: a join runs before its slower predecessor.
`VersionsPinning`: an approved run continues with another definition than the one it
was started with. Each quotes the sentence it contradicts in `PROJECT.json`.

### Observations

Behaviour met while modelling that a reader of the properties should know. Variants of
the models show the first groups; the connectors' are their decisions as
`ConnectorSuite` states them.

Engine, breaker, versions:

* A crash between a call and its SUCCESS row (engine.py:511) makes recovery call again,
  against engine.py:15. With store faults a call that succeeded is made again within
  one request; with two workers two replays of one record both execute the failed node.
  A replay of an old record reopens a completed run; a crashed run stays RUNNING.
* replay-all (incidents.py:290) marks records and executes nothing (its docstring, :284,
  says it replays).
* A success on Redis is three commands (state store interface.py:246), so an open
  breaker can lose its opening time; ARCHITECTURE.md:466 speaks of atomic scripts. A
  caller admitted before a trip closes the breaker when it succeeds; a second trip
  reuses the RECOVERED incident, which stays RECOVERED.
* After a rollback the next deployment takes a version number that exists and is refused
  (tenant_scoped.py:251 against ADR-0004:14). With two sessions a deployment racing a rollback leaves two
  active rows, and two deliveries of one key start two runs.
* With `LookupFaults` an approved run stays parked without a parked step.
* A condition may name any step. It is evaluated when its edge's source is done, so an edge
  that tests a step which completes later is not taken, and the run ends SUCCESS although
  the condition holds on its outputs (hence `LocalConditions`, section 4).
* `_dispatch_node_type` (engine.py:710) calls `sec_repo.get_by_connection_id`, which the
  repository does not define: a node with a connection fails before its connector.
* A node sent to an edge agent is COMPLETED when its command is queued (engine.py:688).

Edge agent:

* The control plane signs JSON with sorted keys, the agent verifies the struct's field
  order (`signing.py:11` claims cross-language canonicalisation, `crypto.go:11`), so an
  enrolled agent refuses every command.
* A poll answer that is lost leaves its commands DISPATCHED for ever. A late handler puts
  a command back to DISPATCHED after its result was recorded.
* The drain posts without `X-Tenant-ID`; outside development and test the answer is 401,
  which counts as delivered (agent.go:458), and the result is gone (GLOBAL_DEPLOYMENT.md:275
  and ARCHITECTURE.md:542 promise otherwise).
* The identity of an enrollment is not persisted and its token is spent. The spool has no
  caps (threat-model.md:58 says it has). Spooled heartbeats are deleted unsent.

Connectors:

* Outside production the SQL connectors replace an error by sample rows. In every environment refused
  ServiceNow reads, Airflow triggers, Azure tokens, AWX jobs and PowerShell queries end as
  success, as do REST requests without answer to test domains, a failing Lambda function, an unknown MongoDB
  operation and a notification that raised.
* Every live ServiceNow creation fails (`json=` where `FlowMeshHttpClient.post` takes
  `json_data`). `dynamodb.query` is advertised and simulated. `ibmmq` is not registered.
* Early returns of PostgreSQL's `execute` leave the connection open; its insert commits
  record by record, so a retry inserts the first records again.

Connections:

* Overlapping rotations can draw a version number that a purge has freed; an older
  ciphertext then stays behind the newest. A test that started before a connection was
  disabled can enable it. Two first discoveries store two baselines, and a baseline
  can be borrowed from another connection. A GET of the drift stores a baseline.
* SQLite, as configured, enforces no foreign keys: deletion leaves secrets and snapshots
  (connections.py:798 says they are purged).

Enterprise worker:

* Transaction and outbox event are two commits (ORM_JPA_HIBERNATE_DATA_PLATFORM.md:152,
  REQUIREMENTS_SYSTEM_DESIGN.md:24 and ARCHITECTURE.md:560 say one); a broker's failure is
  swallowed and the event marked; only `POST /outbox/process` drives the outbox; a restart
  fills the limiter. The Java lock service releases with GET then DEL and falls back to a
  local map. The Python scheduler is never run (README.md:484 describes its locking).

## 4. Proofs

Each theorem holds for all values of the constants under the named assumptions; TLC
checked every inductive invariant on the runs' instances before it was proved.

**Engine** (`WorkflowEngineProofs`), any number of concurrent requests:

* `TypeCorrect`, `GateCorrect`. `GateSafety` is not inductive:
  what prevents an effect behind a gate is what requests hold in their sessions. The
  inductive invariant `IInv` adds that parked rows belong to approvals (`ParkedInv`),
  that a session's view is a prefix of the rows with the right nodes (`ViewInv`), that
  a worker's own row exists and is no approval's (`OwnRowInv`), and that while `a` is
  not approved nothing leads past it: no row, queue entry or context of any request
  (`GateInv`). The proof classifies for each variable how a step can change it
  (`RowShapes`, `ViewShapes`, `OwnShapes`, `QueueShapes`, `ContextShapes`,
  `EffectShapes`) and shows preservation from the shapes.
* `FailuresLettered`. `FailInv` adds that no two workers execute the same row, so nobody
  else moves the row a worker has failed before its dead letter is written, and that only
  parked rows, never failed ones, are decided upon.

One request at a time (`Solo`: the next one starts when the last has ended or crashed).
All five properties are violated when requests overlap. TLC shows it for four of them on the
instance of `EngineConcurrent` with the properties of the sequential runs; `ParkedRunHasGate`
takes three overlapping requests (two decisions land between another request's parked row and
its status write):

* `SoloInv` says that the session is not stale: the rows a request loaded are the rows
  (`SessionInv`), and the context of the traversal is what `ContextOf` computes from the
  table. The lemmas `ContextUpdate` and `ContextAppend` say what one write to the table does
  to `ContextOf`. `SoloKinds` sorts the steps into eleven kinds, and `SoloGrows` shows that
  each only grows the table: completed rows stay, and a condition that held still holds.
  `SoloStepsStay` follows.
* `SoloFollowsEdges`: every row, and everything in the queue that was not visited, is a
  start node or a completed row that comes before leads to it (`SupportInv`).
* `SuccessComplete`, for definitions whose conditions test the edge's own source
  (`LocalConditions`; without it the property is false, see Observations): start nodes and
  what visited nodes lead to are visited or queued (`CoverInv`). When the queue is empty the
  first completed row that was not visited contradicts `SupportInv`, so there is none.
* `RecordedOnce`, without crashes and store faults (`Recorded`): a node that took effect
  has its SUCCESS row or a worker about to write it (`OnceInv`), and the worker's own node
  has no output in its context.
* `ParkedHasGate`, without crashes and lookup faults (`CarriesOn`): a parked run has its
  row, or a request is carrying on from the decision (`GateRowInv`).

**Breaker** (`CircuitBreakerProofs`): `TypeCorrect` for both stores; `MemoryKeysAgree` and
`MemoryCooldown` for the memory store (`~ Remote`), whose invariant adds that the opening
time never is older than the last trip (`MemoryInv`). On Redis both fail: a success is
three commands there. `TripsReported` for both stores while nobody resolves incidents and
no caller of the shared store dies (`Unattended`): the breaker is closed, or has an
incident, or a caller has yet to report (`ReportInv`).

**Versions** (`WorkflowVersionsProofs`): `TypeCorrect` and `ImmutableVersions` for any
number of sessions. The invariant adds what sessions in flight rely on (`JobInv`): a loaded
workflow still exists, and the row a rollback is about to restore still holds the
definition it loaded, which is immutability itself, so the two are proved together.
`SoloPointer` and `SoloKeys` for one session at a time (`Solo`): what the session loaded is
what the tables hold (`SoloInv`), and a delivery about to start a run has found none with
its key (`KeyInv`). With two sessions both are false.

**Edge agent** (`EdgeAgentProofs`): `TypeCorrect`, `ExecutedOnce`, `GenuineResults`, for any
number of commands, handlers and crashes and any deployment. The agent waits for one
handler at most (`Waiting`); what that handler has in hand, and what is in the inbox, is
undecided (`Fresh`), so overlapping late handlers hand over nothing that was executed; a
result in the loop or the spool is the one computed (`Genuine`); a decided command is
never queued again (`Decided`).

**Connector calls** (`ConnectorCallsProofs`): `TypeCorrect`, `ServedSuccess`,
`ExplainedRepeats`, `ConnectionsClosed`, `TestsNotice`, for all configurations, records and
attempts. First every connector's decision is shown well formed, and honest for its checked
operations (`Honest`: nothing refused or lost is reported as a success); `CallInv` then
counts per attempt what was served, lost and opened (`Progress`, `InOrder`).

**Connections** (`ConnectionsProofs`): `TypeCorrect`, `OrphanFree`, `Isolation`,
`DisabledByToggle`, `NewestStays` for any number of overlapping requests; `RotationsApply`
and `SingleBaseline`, which are about `limit = 1`. `ConnInv` says that a request works on its
own tenant's rows (`Scoped`), bounds version numbers by the requests that drew them
(`Bounded`), that a rotation about to purge finds its version or a newer one (`Kept`), and
for `limit = 1` that what was read is still so (`Alone`, `Rotated`, `Baselined`).

**Enterprise worker** (`EnterpriseWorkerProofs`): `TypeCorrect`, `OutboxOrder`,
`PublishedBeforeProcessed`, `AnsweredEvents`, and `LimiterRefines`, the refinement of
`TokenBudget`, for any number of threads, capacity, rate, batch size and crashes. The
invariant says that claims won by compare-and-set lie before `lastRefill` and do not overlap
(`LimiterInv`), that only the holder of the stripe records, and its transaction is newer
than every event (`StripeInv`), and that what is marked was handed to the producer
(`MarkedInv`). For the refinement every action but `Crash` is shown to be `Elapse`, `Grant`, `Pay`
or a stutter of the budget under the mapping of section 2 (`NextServes`), and `Crash` to be
`Restart`.

Assumptions: `NodesAssumption` (the graph's types), `GateAssumption` (an edge into a
guarded node comes from the gate or from a guarded node), `BoundsAssumption`,
`BreakerAssumption`, `VersionsAssumption`, `AbsentAssumption` (the marker of a missing
row is no row), `CommandsAssumption` (commands are numbered), `LimitsAssumption`,
`CallsAssumption`, `ConnectionsAssumption` (there is a connection and a tenant),
`WorkerAssumption`. TLC evaluates all of them on every run. `Solo`, `Recorded`,
`CarriesOn`, `LocalConditions`, `Unattended` and `~ Remote` are hypotheses of the theorems that
name them. The instances of the corresponding runs satisfy them.

Only model-checked: the liveness properties `RunSettles`, `NeverStuckOpen`, `ResultArrives`
and `QueuedRuns`, since liveness under fairness and `ENABLED` are out of the prover's reach.
Induction over data is, too; where an argument needs the first or the last of something, it
takes the least or greatest element of a set (`Extrema`), and recursion is avoided in the
models that are proved about. `DependenciesMet` and `PinnedDefinition` are false, as their runs
show.

## 5. Plan

1. An abstract specification of a run as an operator sees it (which status may follow
   which) that `WorkflowEngine` implements with one request at a time, and what of it is
   left when requests overlap.
2. `GateSafety` carried through to a statement about rows: a guarded node has no row
   before its approval.
3. On Redis, what remains of the breaker's agreement and cooldown between commands.
4. Graph algorithms of schema and validation against reference definitions.

## 6. Not modelled

* Ed25519, AES and key storage: taken to accept exactly what was signed or encrypted.
* State store locks, the Java lock and cache services: nothing in the repository does work
  under them, so there is no critical section to state a property of. The scheduler: nothing
  calls `check_due_jobs`.
* Schema validation, drift comparison, cron matching, backoff arithmetic, ledger
  reconciliation: pure functions of one input, which decide no interleaving.
* Policy engine, RBAC and rate limiter of the API: they refuse a request before the
  first step of the models, and a refused request changes nothing.
* Demo seeding and reset (disabled in production), the event bus (no subscriber that
  changes state), the web console, assistant, scripting, search and transformation packages (text and
  display), metrics, deployment files and the .NET worker (a thin adapter).
