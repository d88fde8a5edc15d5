------------------------------ MODULE EdgeAgent ------------------------------
(***************************************************************************)
(* One edge agent (apps/agent, Go) and the control plane endpoints it      *)
(* calls (routers/agents.py).  The agent enrolls, sends heartbeats, polls  *)
(* for signed commands, executes and reports them, and keeps what it could *)
(* not deliver in a SQLite spool it drains later.                          *)
(*                                                                         *)
(* The agent is one goroutine: a ticker starts a heartbeat, a poll or a    *)
(* drain and the loop waits for it.  The control plane is not: a poll      *)
(* handler commits one row per command and goes on when the agent's HTTP   *)
(* client has given up on it, so handlers of several polls overlap.  Every *)
(* request may be lost before the control plane sees it, or its answer may *)
(* be lost after the control plane has committed.                          *)
(***************************************************************************)
EXTENDS Naturals, Sequences, SequencesExt

CONSTANTS
    Commands,    \* 1 .. n: command ids, in created_at order
    Params,      \* Params[c]: what command c asks for
    Handlers,    \* poll handlers the control plane may have in flight
    Configs,     \* deployments to be considered
    PollLimit,   \* commands handed out by one poll
    PeekLimit,   \* spooled events looked at by one drain
    MaxBeats,    \* bound: heartbeats in the spool
    MaxCrashes   \* bound: times the agent process dies

None == 0

\* A deployment.  strict: settings.environment is neither development nor test.
\* flagId: the agent is started with -id of its record.  token: with -token.
\* faults: requests get lost, the agent's client times out, processes die.

ASSUME CommandsAssumption ==
    /\ Commands \subseteq Nat \ {None}
    /\ Params \in [Commands -> [connector : STRING, connection : STRING,
                                operation : STRING, resource : Seq(STRING), limit : Nat]]
    /\ Handlers # {}
    /\ Configs \subseteq [strict : BOOLEAN, flagId : BOOLEAN, token : BOOLEAN, faults : BOOLEAN]
ASSUME LimitsAssumption ==
    /\ PollLimit \in Nat \ {0}
    /\ PeekLimit \in Nat \ {0}
    /\ MaxBeats \in Nat
    /\ MaxCrashes \in Nat

VARIABLES
    config,     \* fixed at start: environment, flags, whether faults happen
    agentRow,   \* the AgentRecord
    cmds,       \* cmds[c]: status of the AgentCommandRecord
    handler,    \* handler[h]: a poll handler of the control plane; rows are read, marked
                \* and answered in created_at order, so sets of commands stand for lists
    proc,       \* what the agent's loop is doing
    known,      \* is cfg.ID the id of agentRow?
    keyed,      \* has the agent a control plane public key?
    inbox,      \* commands of the last poll still to be processed, the oldest first
    result,     \* ExecutionResult to be reported
    spool,      \* offline_buffer, oldest first
    drained,    \* positions of peeked events to delete
    cursor,     \* next position a drain looks at
    executed,   \* history: executed[c], dispatches to the local connector
    outcome,    \* history: outcome[c], the status the agent computed
    recorded,   \* history: commands a result was recorded for
    crashes     \* history: crashes so far

agentVars == <<proc, known, keyed, inbox, result, drained, cursor>>
vars == <<config, agentRow, cmds, handler, agentVars, spool, executed, outcome, recorded, crashes>>

Final == {"COMPLETED", "FAILED", "REJECTED_SIGNATURE", "REJECTED_POLICY"}
CommandStatus == {"NONE", "QUEUED", "DISPATCHED"} \cup Final
ProcState == {"down", "idle", "polling", "working", "reporting", "draining"}

AgentRow == [token : {"none", "live", "used"}, status : {"OFFLINE", "ONLINE"}]
Event    == [kind : {"heartbeat", "command_result"}, cmd : Commands \cup {None},
             status : Final \cup {"NONE"}]
Idle     == [busy |-> FALSE, waited |-> FALSE, todo |-> {}, answer |-> {}]
NoResult == [cmd |-> None, status |-> "NONE"]

TypeOK ==
    /\ config \in Configs
    /\ agentRow \in AgentRow
    /\ cmds \in [Commands -> CommandStatus]
    /\ handler \in [Handlers -> [busy : BOOLEAN, waited : BOOLEAN,
                                 todo : SUBSET Commands, answer : SUBSET Commands]]
    /\ proc \in ProcState
    /\ known \in BOOLEAN /\ keyed \in BOOLEAN
    /\ inbox \subseteq Commands
    /\ result \in [cmd : Commands, status : Final] \cup {NoResult}
    /\ spool \in Seq(Event)
    /\ drained \subseteq 1 .. PeekLimit
    /\ cursor \in 1 .. PeekLimit + 1
    /\ executed \in [Commands -> Nat]
    /\ outcome \in [Commands -> Final \cup {"NONE"}]
    /\ recorded \subseteq Commands
    /\ crashes \in 0 .. MaxCrashes

Init ==
    /\ config \in Configs
    /\ agentRow = [token |-> "none", status |-> "OFFLINE"]
    /\ cmds = [c \in Commands |-> "NONE"]
    /\ handler = [h \in Handlers |-> Idle]
    /\ proc = "down" /\ known = FALSE /\ keyed = FALSE
    /\ inbox = {} /\ result = NoResult
    /\ spool = <<>> /\ drained = {} /\ cursor = 1
    /\ executed = [c \in Commands |-> 0]
    /\ outcome = [c \in Commands |-> "NONE"]
    /\ recorded = {}
    /\ crashes = 0
-----------------------------------------------------------------------------
(* The agent's checks *)

\* The declarative rules main adds: operations and resource patterns per
\* connector and connection; an open pattern ends in "*".
Rules ==
    [k \in {<<"postgres", "orders-db">>, <<"rest", "warehouse-api">>} |->
        IF k[1] = "postgres"
        THEN [operations |-> {"read", "query"}, max |-> 500,
              resources |-> {[path |-> <<r>>, open |-> FALSE] :
                                r \in {"orders", "customers", "order_items"}}]
        ELSE [operations |-> {"get", "post"}, max |-> 100,
              resources |-> {[path |-> <<"shipments">>, open |-> FALSE],
                             [path |-> <<"inventory">>, open |-> FALSE],
                             [path |-> <<"shipments">>, open |-> TRUE]}]]

Matches(pattern, resource) ==
    \/ pattern.path = resource /\ ~ pattern.open
    \/ pattern.open /\ IsStrictPrefix(pattern.path, resource)

\* policy.Engine.Evaluate: deny by default.  Names compare without case; the
\* model's are lower case.  An empty resource and a zero limit are not checked.
Evaluate(cmd) ==
    /\ cmd.connector # "" /\ cmd.operation # ""
    /\ <<cmd.connector, cmd.connection>> \in DOMAIN Rules
    /\ LET rule == Rules[<<cmd.connector, cmd.connection>>] IN
         /\ cmd.operation \in rule.operations \/ "*" \in rule.operations
         /\ (cmd.resource # <<>> /\ rule.resources # {})
              => \E p \in rule.resources : Matches(p, cmd.resource)
         /\ (cmd.limit > 0 /\ rule.max > 0) => cmd.limit <= rule.max

\* The bytes the control plane signs: json.dumps with sort_keys.
CanonicalizePython(cmd) ==
    <<"connection_id", "connector", "id", "limit", "operation", "payload", "resource", "type">>

\* The bytes the agent verifies: json.Marshal of the struct, its fields in
\* declaration order and a zero limit left out.
CanonicalizeGo(cmd) ==
    <<"id", "type", "connector", "connection_id", "operation", "resource">>
      \o (IF cmd.limit = 0 THEN <<>> ELSE <<"limit">>) \o <<"payload">>

VerifyCommandPayload(cmd) == CanonicalizeGo(cmd) = CanonicalizePython(cmd)

\* ProcessCommand: the statuses it may return.  Only a REST call can end as
\* FAILED; a failing shell command is COMPLETED with an exit code.
Refused(cmd) ==
    IF keyed /\ ~ VerifyCommandPayload(cmd) THEN {"REJECTED_SIGNATURE"}
    ELSE IF ~ Evaluate(cmd) THEN {"REJECTED_POLICY"} ELSE {}
Outcomes(cmd) ==
    IF Refused(cmd) # {} THEN Refused(cmd)
    ELSE IF cmd.connector \in {"http", "rest"} THEN {"COMPLETED", "FAILED"} ELSE {"COMPLETED"}
-----------------------------------------------------------------------------
(* Control plane *)

\* generate_enrollment_token: creates the record, OFFLINE, with a live token.
GenerateEnrollmentToken ==
    /\ agentRow.token = "none"
    /\ agentRow' = [agentRow EXCEPT !.token = "live"]
    /\ UNCHANGED <<config, cmds, handler, agentVars, spool, executed, outcome, recorded, crashes>>

\* dispatch_command and the engine's _dispatch_edge_agent: sign the command
\* and queue it, whether or not the agent is online.  Commands arrive in order.
DispatchCommand(c) ==
    /\ agentRow.token # "none"
    /\ cmds[c] = "NONE"
    /\ \A d \in Commands : d < c => cmds[d] # "NONE"
    /\ cmds' = [cmds EXCEPT ![c] = "QUEUED"]
    /\ UNCHANGED <<config, agentRow, handler, agentVars, spool, executed, outcome, recorded, crashes>>

\* get_pending_commands: the oldest QUEUED rows, at most PollLimit.
GetPendingCommands ==
    LET queued == {c \in Commands : cmds[c] = "QUEUED"}
    IN  {c \in queued : Cardinality({d \in queued : d < c}) < PollLimit}

\* Mutant: a poll hands commands out without marking them.
MarkNothing(h) ==
    /\ handler[h].todo # {}
    /\ LET c == Min(handler[h].todo) IN
         handler' = [handler EXCEPT ![h].todo = @ \ {c}, ![h].answer = @ \cup {c}]
    /\ UNCHANGED <<config, agentRow, cmds, agentVars, spool, executed, outcome, recorded, crashes>>

\* The loop of poll_commands: mark_dispatched commits row by row, whatever
\* status the row has by then, and adds the command to the answer.
MarkDispatched(h) ==
    /\ handler[h].todo # {}
    /\ LET c == Min(handler[h].todo) IN
         /\ cmds' = [cmds EXCEPT ![c] = "DISPATCHED"]
         /\ handler' = [handler EXCEPT ![h].todo = @ \ {c}, ![h].answer = @ \cup {c}]
    /\ UNCHANGED <<config, agentRow, agentVars, spool, executed, outcome, recorded, crashes>>

EndPoll(h) ==
    /\ handler' = [handler EXCEPT ![h] = Idle]
    /\ UNCHANGED <<config, agentRow, cmds, known, keyed, result, drained, cursor,
                   spool, executed, outcome, recorded, crashes>>

\* The handler returns to an agent that no longer waits.
AnswerNobody(h) ==
    /\ handler[h].busy /\ ~ handler[h].waited
    /\ handler[h].todo = {}
    /\ EndPoll(h)
    /\ UNCHANGED <<proc, inbox>>

\* The replica dies between two commits, or the answer is lost on its way:
\* nobody receives the commands the handler has marked.
LosePoll(h) ==
    /\ config.faults
    /\ handler[h].busy
    /\ proc' = IF handler[h].waited THEN "idle" ELSE proc
    /\ EndPoll(h)
    /\ UNCHANGED inbox

\* record_command_result: the row takes the reported status.
RecordResult(c, status) ==
    /\ cmds' = [cmds EXCEPT ![c] = status]
    /\ recorded' = recorded \cup {c}
-----------------------------------------------------------------------------
(* The agent *)

Start(isKnown, hasKey) ==
    /\ proc' = "idle" /\ known' = isKnown /\ keyed' = hasKey

\* main without -token: the flags are the identity.
Boot ==
    /\ proc = "down"
    /\ ~ config.token
    /\ config.flagId => agentRow.token # "none"
    /\ Start(config.flagId, FALSE)
    /\ UNCHANGED <<config, agentRow, cmds, handler, inbox, result, drained, cursor,
                   spool, executed, outcome, recorded, crashes>>

\* Mutant: the id of the answer is not taken over.
EnrollKeepsId ==
    /\ proc = "down"
    /\ config.token
    /\ agentRow.token = "live"
    /\ agentRow' = [token |-> "used", status |-> "ONLINE"]
    /\ Start(config.flagId, TRUE)
    /\ UNCHANGED <<config, cmds, handler, inbox, result, drained, cursor,
                   spool, executed, outcome, recorded, crashes>>

\* main with -token: Enroll exchanges a live token for id, tenant and key.
Enroll ==
    /\ proc = "down"
    /\ config.token
    /\ agentRow.token = "live"
    /\ agentRow' = [token |-> "used", status |-> "ONLINE"]
    /\ Start(TRUE, TRUE)
    /\ UNCHANGED <<config, cmds, handler, inbox, result, drained, cursor,
                   spool, executed, outcome, recorded, crashes>>

\* Enrollment fails: the answer is lost after the token was spent, or the
\* request, or the token was spent before.  The agent goes on with its flags.
EnrollFails ==
    /\ proc = "down"
    /\ config.token
    /\ agentRow.token # "none"
    /\ \/ config.faults /\ agentRow.token = "live"
          /\ agentRow' = [token |-> "used", status |-> "ONLINE"]
       \/ config.faults /\ UNCHANGED agentRow
       \/ agentRow.token = "used" /\ UNCHANGED agentRow
    /\ Start(config.flagId, FALSE)
    /\ UNCHANGED <<config, cmds, handler, inbox, result, drained, cursor,
                   spool, executed, outcome, recorded, crashes>>

\* update_heartbeat of a known agent; 404 otherwise.
UpdateHeartbeat == IF known THEN [agentRow EXCEPT !.status = "ONLINE"] ELSE agentRow

SendHeartbeat ==
    /\ proc = "idle"
    /\ agentRow' = UpdateHeartbeat
    /\ UNCHANGED <<config, cmds, handler, agentVars, spool, executed, outcome, recorded, crashes>>

\* No answer or a 5xx: the telemetry is spooled (handleOfflineTelemetry),
\* also when the control plane has recorded it.
SpoolHeartbeat ==
    /\ proc = "idle"
    /\ config.faults
    /\ Len(SelectSeq(spool, LAMBDA e : e.kind = "heartbeat")) < MaxBeats
    /\ agentRow' \in {agentRow, UpdateHeartbeat}
    /\ spool' = Append(spool, [kind |-> "heartbeat", cmd |-> None, status |-> "NONE"])
    /\ UNCHANGED <<config, cmds, handler, agentVars, executed, outcome, recorded, crashes>>

\* PollAndExecute sends the poll and a handler reads what is pending.  A poll
\* under an unknown id, or one that is lost, changes nothing.
PollCommands(h) ==
    /\ proc = "idle"
    /\ known
    /\ ~ handler[h].busy
    /\ handler' = [handler EXCEPT ![h] = [busy |-> TRUE, waited |-> TRUE,
                                          todo |-> GetPendingCommands, answer |-> {}]]
    /\ proc' = "polling"
    /\ UNCHANGED <<config, agentRow, cmds, known, keyed, inbox, result, drained, cursor,
                   spool, executed, outcome, recorded, crashes>>

\* The client's ten seconds are over; the handler knows nothing of it.
PollTimeout(h) ==
    /\ config.faults
    /\ handler[h].waited
    /\ handler' = [handler EXCEPT ![h].waited = FALSE]
    /\ proc' = "idle"
    /\ UNCHANGED <<config, agentRow, cmds, known, keyed, inbox, result, drained, cursor,
                   spool, executed, outcome, recorded, crashes>>

AfterCommand(rest) == IF rest = {} THEN "idle" ELSE "working"

\* Every pending command is marked: the answer reaches the agent.
PollAnswer(h) ==
    /\ handler[h].busy /\ handler[h].waited
    /\ handler[h].todo = {}
    /\ inbox' = handler[h].answer
    /\ proc' = AfterCommand(handler[h].answer)
    /\ EndPoll(h)

\* ProcessCommand for the oldest command of the answer: verify, evaluate, execute.
ProcessCommand ==
    /\ proc = "working"
    /\ LET c == Min(inbox) IN
         \E s \in Outcomes(Params[c]) :
            /\ result' = [cmd |-> c, status |-> s]
            /\ outcome' = [outcome EXCEPT ![c] = s]
            /\ executed' = [executed EXCEPT ![c] = IF Refused(Params[c]) = {} THEN @ + 1 ELSE @]
    /\ inbox' = inbox \ {Min(inbox)}
    /\ proc' = "reporting"
    /\ UNCHANGED <<config, agentRow, cmds, handler, known, keyed, drained, cursor, spool, recorded, crashes>>

Reported ==
    /\ proc = "reporting"
    /\ proc' = AfterCommand(inbox)
    /\ result' = NoResult
    /\ UNCHANGED <<config, agentRow, handler, known, keyed, inbox, drained, cursor,
                   executed, outcome, crashes>>

\* ReportResult carries the tenant header, so it is accepted everywhere.
ReportResult ==
    /\ RecordResult(result.cmd, result.status)
    /\ UNCHANGED spool
    /\ Reported

\* Mutant: an undelivered result is spooled as a success.
BufferSuccess ==
    /\ config.faults
    /\ UNCHANGED <<cmds, recorded>>
    /\ spool' = Append(spool, [kind |-> "command_result", cmd |-> result.cmd,
                               status |-> "COMPLETED"])
    /\ Reported

\* No answer or a 5xx: bufferResult, also when the result was recorded.
BufferResult ==
    /\ config.faults
    /\ RecordResult(result.cmd, result.status) \/ UNCHANGED <<cmds, recorded>>
    /\ spool' = Append(spool, [kind |-> "command_result", cmd |-> result.cmd,
                               status |-> result.status])
    /\ Reported

\* DrainBuffer: Peek the oldest events, go through them one by one.
DrainBuffer ==
    /\ proc = "idle"
    /\ spool # <<>>
    /\ proc' = "draining"
    /\ cursor' = 1 /\ drained' = {}
    /\ UNCHANGED <<config, agentRow, cmds, handler, known, keyed, inbox, result,
                   spool, executed, outcome, recorded, crashes>>

\* Mutant: a drain looks at the whole spool.
DrainAll == proc = "draining" /\ cursor <= Len(spool)

DrainMore == proc = "draining" /\ cursor <= Len(spool) /\ cursor <= PeekLimit

DrainStep(delete) ==
    /\ cursor' = cursor + 1
    /\ drained' = IF delete THEN drained \cup {cursor} ELSE drained
    /\ UNCHANGED <<config, agentRow, handler, proc, known, keyed, inbox, result,
                   spool, executed, outcome, crashes>>

\* A heartbeat is deleted without being sent.
DrainHeartbeat ==
    /\ DrainMore
    /\ spool[cursor].kind = "heartbeat"
    /\ UNCHANGED <<cmds, recorded>>
    /\ DrainStep(TRUE)

\* The result is posted without tenant header: outside development and test
\* the control plane answers 401, under an unknown id 404, and both count as
\* delivered.
DrainResult ==
    /\ DrainMore
    /\ spool[cursor].kind = "command_result"
    /\ IF config.strict \/ ~ known THEN UNCHANGED <<cmds, recorded>>
       ELSE RecordResult(spool[cursor].cmd, spool[cursor].status)
    /\ DrainStep(TRUE)

\* Mutant: an event is deleted although its post failed.
DrainForgets ==
    /\ DrainMore
    /\ config.faults
    /\ spool[cursor].kind = "command_result"
    /\ UNCHANGED <<cmds, recorded>>
    /\ DrainStep(TRUE)

\* The post or its answer is lost: the event stays.
DrainFails ==
    /\ DrainMore
    /\ config.faults
    /\ spool[cursor].kind = "command_result"
    /\ \/ UNCHANGED <<cmds, recorded>>
       \/ ~ config.strict /\ known /\ RecordResult(spool[cursor].cmd, spool[cursor].status)
    /\ DrainStep(FALSE)

\* The rows that stay, in their order: position i of the new spool is
\* position at[i] of the old one.
Kept ==
    LET keep == (1 .. Len(spool)) \ drained
        new  == 1 .. Cardinality(keep)
    IN  {at \in [new -> keep] : \A i, j \in new : i < j => at[i] < at[j]}

\* Delete removes the processed rows in one transaction.
DeleteDrained ==
    /\ proc = "draining"
    /\ ~ DrainMore
    /\ \E at \in Kept : spool' = [i \in DOMAIN at |-> spool[at[i]]]
    /\ proc' = "idle"
    /\ drained' = {} /\ cursor' = 1
    /\ UNCHANGED <<config, agentRow, cmds, handler, known, keyed, inbox, result,
                   executed, outcome, recorded, crashes>>

\* The process dies: the spool is all that survives.
Crash ==
    /\ config.faults
    /\ proc # "down"
    /\ crashes < MaxCrashes
    /\ proc' = "down" /\ known' = FALSE /\ keyed' = FALSE
    /\ inbox' = {} /\ result' = NoResult /\ drained' = {} /\ cursor' = 1
    /\ handler' = [h \in Handlers |-> [handler[h] EXCEPT !.waited = FALSE]]
    /\ crashes' = crashes + 1
    /\ UNCHANGED <<config, agentRow, cmds, spool, executed, outcome, recorded>>

Serve(h) == MarkDispatched(h) \/ PollAnswer(h) \/ AnswerNobody(h)
AgentLoop == Boot \/ Enroll \/ EnrollFails \/ ProcessCommand \/ ReportResult
             \/ DrainHeartbeat \/ DrainResult \/ DeleteDrained

Next ==
    \/ GenerateEnrollmentToken
    \/ \E c \in Commands : DispatchCommand(c)
    \/ \E h \in Handlers : \/ PollCommands(h) \/ MarkDispatched(h) \/ AnswerNobody(h) \/ LosePoll(h)
                           \/ PollTimeout(h) \/ PollAnswer(h)
    \/ Boot \/ Enroll \/ EnrollFails
    \/ SendHeartbeat \/ SpoolHeartbeat
    \/ ProcessCommand \/ ReportResult \/ BufferResult
    \/ DrainBuffer \/ DrainHeartbeat \/ DrainResult \/ DrainFails \/ DeleteDrained
    \/ Crash

Spec == Init /\ [][Next]_vars

\* Each ticker of Start's loop fires again and again, so what it starts is
\* taken again and again however often the others fire first; a request that
\* is repeated for ever gets through some time; systemd restarts the agent
\* (Restart=always); handlers in flight go on.
Fairness ==
    /\ WF_vars(AgentLoop)
    /\ \A h \in Handlers : WF_vars(Serve(h))
    /\ SF_vars(\E h \in Handlers : PollCommands(h))
    /\ SF_vars(DrainBuffer)
    /\ SF_vars(DrainResult)

FairSpec == Spec /\ Fairness
-----------------------------------------------------------------------------
(* Properties *)

\* A command reaches the local connector at most once, whatever polls overlap,
\* answers get lost, results are sent twice or the agent restarts.
AtMostOnce == \A c \in Commands : executed[c] <= 1

\* A result the control plane shows is the one the agent computed for that
\* command: neither the spool nor a repeated report changes or swaps it.
ResultIsGenuine ==
    \A c \in Commands : cmds[c] \in Final => cmds[c] = outcome[c]

Spooled(c) == \E i \in 1 .. Len(spool) : spool[i].cmd = c

\* A buffered result reaches the control plane once the network recovers, if
\* the agent still has its id and the environment accepts it without tenant.
ResultArrives ==
    \A c \in Commands :
        (Spooled(c) /\ ~ config.strict /\ config.flagId) ~> (c \in recorded)

\* Without faults every queued command is decided by the agent.
QueuedRuns ==
    \A c \in Commands :
        (cmds[c] = "QUEUED" /\ ~ config.faults /\ (config.token \/ config.flagId))
            ~> (cmds[c] \in Final)
=============================================================================
