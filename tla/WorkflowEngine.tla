---------------------------- MODULE WorkflowEngine ----------------------------
(***************************************************************************)
(* One run of the resumable workflow engine                                *)
(* (services/workflow-engine/flowmesh_engine/engine.py) and the requests   *)
(* that act on it: the trigger that creates it, an operator's approve and  *)
(* reject (routers/runs.py), and the dead letter replays                   *)
(* (routers/incidents.py).  Rows of different runs are disjoint, so one    *)
(* run is the whole story; the breaker the runs share is CircuitBreaker.   *)
(*                                                                         *)
(* A worker is one HTTP request served by some API replica, with its own   *)
(* database session.  Every database commit is one action, so workers      *)
(* interleave at exactly the points where the code awaits a commit, and a  *)
(* crash loses everything a worker has not committed.                      *)
(***************************************************************************)
EXTENDS Naturals, Sequences

CONSTANTS
    Workers,        \* requests in flight, each with a session of its own
    Nodes,          \* node ids of the workflow definition
    Out,            \* Out[n]: the outgoing edges of n, in definition order
    StartNodes,     \* the nodes without incoming edge, in definition order
    Approvals,      \* nodes of type action.approval
    Triggers,       \* trigger.* nodes: their handler returns a constant
    Connected,      \* nodes with a connection_id (guarded by a breaker)
    Gated,          \* Gated[a]: the nodes reachable only through approval a
    Outputs,        \* output snapshots, as far as edge conditions tell apart
    Truthy,         \* the outputs evaluate_condition takes for true
    NoOutput,       \* context holds no output for the node
    Always,         \* the empty edge condition
    MaxAttempts,    \* retry.max_attempts
    MaxRequests,    \* bound: requests made in one behaviour
    CrashAllowed,   \* may the replica serving a request die?
    StoreFaults,    \* may a call to the state store raise?
    LookupFaults    \* may the workflow a run names be missing on resume?

Edges == [target : Nodes, cond : Nodes \cup {Always}]

ASSUME NodesAssumption ==
    /\ Out \in [Nodes -> Seq(Edges)]
    /\ StartNodes \in Seq(Nodes)
    /\ Approvals \subseteq Nodes
    /\ Triggers \subseteq Nodes
    /\ Connected \subseteq Nodes \ Triggers
    /\ Truthy \subseteq Outputs
    /\ Truthy # {}
    /\ NoOutput \notin Outputs

ASSUME BoundsAssumption ==
    /\ MaxAttempts \in Nat \ {0}
    /\ MaxRequests \in Nat
    /\ CrashAllowed \in BOOLEAN
    /\ StoreFaults \in BOOLEAN
    /\ LookupFaults \in BOOLEAN

\* An edge into a node guarded by approval a starts at a or at another node
\* a guards, and no start node is guarded.
ASSUME GateAssumption ==
    /\ Gated \in [Approvals -> SUBSET Nodes]
    /\ \A a \in Approvals :
         /\ a \notin Gated[a]
         /\ \A i \in 1 .. Len(StartNodes) : StartNodes[i] \notin Gated[a]
         /\ \A n \in Nodes : \A i \in 1 .. Len(Out[n]) :
               Out[n][i].target \in Gated[a] => n = a \/ n \in Gated[a]

VARIABLES
    \* the database
    status,     \* RunRecord.status, "NONE" before the row exists
    steps,      \* RunStepRecord rows of the run, in started_at order
    dlq,        \* DeadLetterRecord rows of the run
    \* one request each
    pc,         \* where the request is
    seen,       \* the run status as its session last loaded or wrote it
    view,       \* the step rows as its session loaded them
    queue,      \* the traversal queue
    visited,    \* nodes taken from the queue
    ctx,        \* context["steps"]: outputs by node
    cur,        \* index of the step row being executed
    attempt,    \* attempt counter of the retry loop
    item,       \* dead letter being replayed, 0 if none
    \* history
    effects,    \* effects[n]: completed dispatches of n
    approved,   \* approval nodes an operator has approved
    requests    \* requests made so far

dbVars  == <<status, steps, dlq>>
travVars == <<queue, visited, ctx>>
nodeVars == <<cur, attempt>>
reqVars == <<pc, seen, view, item>>
histVars == <<effects, approved, requests>>
vars    == <<dbVars, travVars, nodeVars, reqVars, histVars>>

RunStatus  == {"NONE", "RUNNING", "WAITING_APPROVAL", "SUCCESS", "FAILED", "REJECTED"}
StepStatus == {"RUNNING", "WAITING_APPROVAL", "SUCCESS", "FAILED", "REJECTED"}
DlqStatus  == {"PENDING", "REPLAYED"}
Step       == [node : Nodes, status : StepStatus, output : Outputs \cup {NoOutput}]
DeadLetter == [node : Nodes, status : DlqStatus]
Context    == [Nodes -> Outputs \cup {NoOutput}]
Labels     == {"idle", "approve", "reject", "rejectRun", "reload", "mark", "loop",
               "parkRun", "guard", "dispatch", "snapshot", "failStep",
               "deadLetter", "failRun", "markReplayed"}

ApprovedOutput == CHOOSE o \in Truthy : TRUE
EmptyContext == [n \in Nodes |-> NoOutput]
-----------------------------------------------------------------------------
(* Pure helpers of execute *)

\* evaluate_condition: an empty condition holds; otherwise the template names
\* the output of a step and the value it resolves to is tested for truth (a
\* step without output resolves to None, which is false).
Holds(edge, context) == edge.cond = Always \/ context[edge.cond] \in Truthy

\* Mutant: edge conditions are not evaluated.
EveryTarget(n, context) == [i \in 1 .. Len(Out[n]) |-> Out[n][i].target]

\* The targets appended after n: one entry per outgoing edge.  An edge whose
\* condition is false contributes n itself, which is visited by then and is
\* dropped when it is taken from the queue.
Successors(n, context) ==
    [i \in 1 .. Len(Out[n]) |->
        IF Holds(Out[n][i], context) THEN Out[n][i].target ELSE n]

\* RunRepository.get_by_id in a session that already holds rows v: rows it has
\* not loaded yet are read from the database, loaded ones keep their values
\* (expire_on_commit is off and the identity map wins over the row).
Reread(v) == [i \in 1 .. Len(steps) |-> IF i \in 1 .. Len(v) THEN v[i] ELSE steps[i]]

\* Row i holds the output that counts for n: later SUCCESS rows overwrite
\* earlier ones in the context.
IsLastSuccess(v, n, i) ==
    /\ i \in 1 .. Len(v)
    /\ v[i].node = n /\ v[i].status = "SUCCESS"
    /\ \A j \in 1 .. Len(v) : v[j].node = n /\ v[j].status = "SUCCESS" => j <= i

\* Mutant: a resumed execution starts from nothing.
ForgetCompleted(v) == EmptyContext

\* The context a resumed execution starts from: outputs of SUCCESS rows.
ContextOf(v) ==
    [n \in Nodes |-> IF \E i \in 1 .. Len(v) : IsLastSuccess(v, n, i)
                     THEN v[CHOOSE i \in 1 .. Len(v) : IsLastSuccess(v, n, i)].output
                     ELSE NoOutput]

\* Mutant: the first row is decided, whatever its status.
IsFirstRow(v, i) == i = 1 /\ i <= Len(v)

\* resume_approval decides the first parked row in started_at order.
IsFirstWaiting(v, i) ==
    /\ i \in 1 .. Len(v)
    /\ v[i].status = "WAITING_APPROVAL"
    /\ \A j \in 1 .. Len(v) : v[j].status = "WAITING_APPROVAL" => i <= j

Current(w) == steps[cur[w]].node
-----------------------------------------------------------------------------
Goto(w, label) == pc' = [pc EXCEPT ![w] = label]

\* The request ends, or its process dies: nothing of the session survives.
EndRequest(w) ==
    /\ pc' = [pc EXCEPT ![w] = "idle"]
    /\ seen' = [seen EXCEPT ![w] = "NONE"]
    /\ view' = [view EXCEPT ![w] = <<>>]
    /\ queue' = [queue EXCEPT ![w] = <<>>]
    /\ visited' = [visited EXCEPT ![w] = {}]
    /\ ctx' = [ctx EXCEPT ![w] = EmptyContext]
    /\ cur' = [cur EXCEPT ![w] = 0]
    /\ attempt' = [attempt EXCEPT ![w] = 1]
    /\ item' = [item EXCEPT ![w] = 0]

NewRequest(w) ==
    /\ pc[w] = "idle"
    /\ requests < MaxRequests
    /\ requests' = requests + 1

\* Enter the traversal with the given context.
Traverse(w, context) ==
    /\ Goto(w, "loop")
    /\ queue' = [queue EXCEPT ![w] = StartNodes]
    /\ visited' = [visited EXCEPT ![w] = {}]
    /\ ctx' = [ctx EXCEPT ![w] = context]

\* A trigger (webhook, manual, run replay) executes under a fresh run id: the
\* row is created RUNNING.
ExecuteNewRun(w) ==
    /\ NewRequest(w)
    /\ status = "NONE"
    /\ status' = "RUNNING"
    /\ seen' = [seen EXCEPT ![w] = "RUNNING"]
    /\ Traverse(w, EmptyContext)
    /\ UNCHANGED <<steps, dlq, nodeVars, view, item, effects, approved>>

\* approve_run and reject_run load the run and refuse (HTTP 400) unless it is
\* parked.  resume_approval repeats the test on the object already loaded.
LoadForDecision(w) ==
    /\ NewRequest(w)
    /\ status = "WAITING_APPROVAL"
    /\ \E decision \in {"approve", "reject"} : Goto(w, decision)
    /\ seen' = [seen EXCEPT ![w] = status]
    /\ view' = [view EXCEPT ![w] = steps]
    /\ UNCHANGED <<dbVars, travVars, nodeVars, item, effects, approved>>

\* replay_dead_letter loads the record and its run; neither status is tested.
LoadForReplay(w) ==
    /\ NewRequest(w)
    /\ \E d \in 1 .. Len(dlq) : item' = [item EXCEPT ![w] = d]
    /\ Goto(w, "reload")
    /\ seen' = [seen EXCEPT ![w] = status]
    /\ view' = [view EXCEPT ![w] = steps]
    /\ UNCHANGED <<dbVars, travVars, nodeVars, effects, approved>>

\* replay_all_dead_letters marks PENDING records, newest first, and executes
\* nothing.  It takes at most 100 of all runs' records and commits each mark, so
\* it may not get to this run's older ones; nobody reads the marks in between.
ReplayAll(w) ==
    /\ NewRequest(w)
    /\ \E oldest \in 1 .. Len(dlq) :
          dlq' = [d \in 1 .. Len(dlq) |->
                    IF d >= oldest THEN [dlq[d] EXCEPT !.status = "REPLAYED"] ELSE dlq[d]]
    /\ UNCHANGED <<status, steps, travVars, nodeVars, reqVars, effects, approved>>
-----------------------------------------------------------------------------
(* resume_approval *)

\* Write the decision into the first parked row the session sees, if there is
\* one; an approval's output snapshot, {"approved": true}, counts as true.
DecideStep(w, decision, next) ==
    LET v == Reread(view[w])
        row(i) == [node |-> v[i].node, status |-> decision,
                   output |-> IF decision = "SUCCESS" THEN ApprovedOutput ELSE NoOutput] IN
    /\ \/ \E i \in 1 .. Len(v) :
            /\ IsFirstWaiting(v, i)
            /\ steps' = [steps EXCEPT ![i] = row(i)]
            /\ view' = [view EXCEPT ![w] = [v EXCEPT ![i] = row(i)]]
            /\ approved' = IF decision = "SUCCESS" THEN approved \cup {v[i].node}
                                                   ELSE approved
       \/ /\ \A i \in 1 .. Len(v) : ~ IsFirstWaiting(v, i)
          /\ view' = [view EXCEPT ![w] = v]
          /\ UNCHANGED <<steps, approved>>
    /\ Goto(w, next)
    /\ UNCHANGED <<status, dlq, travVars, nodeVars, seen, item, effects, requests>>

ApproveStep(w) == pc[w] = "approve" /\ DecideStep(w, "SUCCESS", "reload")

\* No version row and no workflow with the run's workflow id: the request ends
\* with an error, after the approval has been committed.
ResumeFails(w) ==
    /\ LookupFaults
    /\ pc[w] = "reload"
    /\ item[w] = 0
    /\ EndRequest(w)
    /\ UNCHANGED <<dbVars, histVars>>

RejectStep(w) == pc[w] = "reject" /\ DecideStep(w, "REJECTED", "rejectRun")

RejectRun(w) ==
    /\ pc[w] = "rejectRun"
    /\ status' = "REJECTED"
    /\ EndRequest(w)
    /\ UNCHANGED <<steps, dlq, histVars>>
-----------------------------------------------------------------------------
(* execute on an existing run *)

Reload(w) ==
    /\ pc[w] = "reload"
    /\ view' = [view EXCEPT ![w] = Reread(view[w])]
    /\ Goto(w, "mark")
    /\ UNCHANGED <<dbVars, travVars, nodeVars, seen, item, histVars>>

\* run.status = "RUNNING": the flush writes the column only when it differs
\* from the value the session holds.
MarkRunning(w) ==
    /\ pc[w] = "mark"
    /\ status' = IF seen[w] = "RUNNING" THEN status ELSE "RUNNING"
    /\ seen' = [seen EXCEPT ![w] = "RUNNING"]
    /\ view' = [view EXCEPT ![w] = <<>>]
    /\ Traverse(w, ContextOf(view[w]))
    /\ UNCHANGED <<steps, dlq, nodeVars, item, histVars>>
-----------------------------------------------------------------------------
(* The traversal loop *)

AtHead(w, n) == pc[w] = "loop" /\ queue[w] # <<>> /\ n = Head(queue[w])

SkipVisited(w) ==
    /\ \E n \in visited[w] : AtHead(w, n)
    /\ queue' = [queue EXCEPT ![w] = Tail(@)]
    /\ UNCHANGED <<dbVars, visited, ctx, nodeVars, reqVars, histVars>>

\* Mutant: the edges of a skipped node are not followed.
SkipWithoutSuccessors(w) ==
    \E n \in Nodes \ visited[w] :
    /\ AtHead(w, n)
    /\ ctx[w][n] # NoOutput
    /\ visited' = [visited EXCEPT ![w] = @ \cup {n}]
    /\ queue' = [queue EXCEPT ![w] = Tail(@)]
    /\ UNCHANGED <<dbVars, ctx, nodeVars, reqVars, histVars>>

\* A node the loaded rows show as SUCCESS is not executed again.
SkipCompleted(w) ==
    \E n \in Nodes \ visited[w] :
    /\ AtHead(w, n)
    /\ ctx[w][n] # NoOutput
    /\ visited' = [visited EXCEPT ![w] = @ \cup {n}]
    /\ queue' = [queue EXCEPT ![w] = Tail(@) \o Successors(n, ctx[w])]
    /\ UNCHANGED <<dbVars, ctx, nodeVars, reqVars, histVars>>

\* Take n off the queue and insert a row for it.
RecordStep(w, n, initial) ==
    /\ AtHead(w, n)
    /\ ctx[w][n] = NoOutput
    /\ visited' = [visited EXCEPT ![w] = @ \cup {n}]
    /\ queue' = [queue EXCEPT ![w] = Tail(@)]
    /\ steps' = Append(steps, [node |-> n, status |-> initial, output |-> NoOutput])
    /\ UNCHANGED <<status, dlq, ctx, seen, view, item, histVars>>

\* Mutant: the parked row is not recorded.
ParkWithoutRow(w) ==
    \E n \in Approvals \ visited[w] :
    /\ AtHead(w, n)
    /\ ctx[w][n] = NoOutput
    /\ Goto(w, "parkRun")
    /\ UNCHANGED <<dbVars, travVars, nodeVars, seen, view, item, histVars>>

ParkApprovalStep(w) ==
    \E n \in Approvals \ visited[w] :
    /\ RecordStep(w, n, "WAITING_APPROVAL")
    /\ Goto(w, "parkRun")
    /\ UNCHANGED nodeVars

ParkRun(w) ==
    /\ pc[w] = "parkRun"
    /\ status' = "WAITING_APPROVAL"
    /\ EndRequest(w)
    /\ UNCHANGED <<steps, dlq, histVars>>

\* Mutant: the node's type is not tested, approvals are dispatched like others.
BeginAnyStep(w) ==
    \E n \in Nodes \ visited[w] :
    /\ RecordStep(w, n, "RUNNING")
    /\ cur' = [cur EXCEPT ![w] = Len(steps) + 1]
    /\ attempt' = [attempt EXCEPT ![w] = 1]
    /\ Goto(w, IF n \in Connected THEN "guard" ELSE "dispatch")

BeginStep(w) ==
    \E n \in Nodes \ (Approvals \cup visited[w]) :
    /\ RecordStep(w, n, "RUNNING")
    /\ cur' = [cur EXCEPT ![w] = Len(steps) + 1]
    /\ attempt' = [attempt EXCEPT ![w] = 1]
    /\ Goto(w, IF n \in Connected THEN "guard" ELSE "dispatch")

\* The queue is exhausted; a replay request then marks its dead letter.
CompleteRun(w) ==
    /\ pc[w] = "loop"
    /\ queue[w] = <<>>
    /\ status' = "SUCCESS"
    /\ \/ /\ item[w] = 0
          /\ EndRequest(w)
       \/ /\ item[w] # 0
          /\ Goto(w, "markReplayed")
          /\ UNCHANGED <<travVars, nodeVars, seen, view, item>>
    /\ UNCHANGED <<steps, dlq, histVars>>

MarkReplayed(w) ==
    /\ pc[w] = "markReplayed"
    /\ dlq' = [dlq EXCEPT ![item[w]].status = "REPLAYED"]
    /\ EndRequest(w)
    /\ UNCHANGED <<status, steps, histVars>>
-----------------------------------------------------------------------------
(* _execute_node *)

SetStep(w, s) == steps' = [steps EXCEPT ![cur[w]].status = s]

\* Mutant: the fast-failed step is not routed to the dead letter queue.
FastFailUnrouted(w) ==
    /\ pc[w] = "guard"
    /\ \/ Goto(w, "dispatch") /\ UNCHANGED steps
       \/ Goto(w, "failRun") /\ SetStep(w, "FAILED")
    /\ UNCHANGED <<status, dlq, travVars, nodeVars, seen, view, item, histVars>>

\* The breaker is asked once, before the retry loop; OPEN fails the step fast.
BreakerGuard(w) ==
    /\ pc[w] = "guard"
    /\ \/ Goto(w, "dispatch") /\ UNCHANGED steps
       \/ Goto(w, "deadLetter") /\ SetStep(w, "FAILED")
    /\ UNCHANGED <<status, dlq, travVars, nodeVars, seen, view, item, histVars>>

\* Mutant: one retry too many.
FailedOffByOne(w) ==
    \/ /\ attempt[w] <= MaxAttempts
       /\ attempt' = [attempt EXCEPT ![w] = @ + 1]
       /\ UNCHANGED pc
    \/ /\ Goto(w, "failStep")
       /\ UNCHANGED attempt

\* The attempt raised: a transient error is retried while attempts remain, a
\* permanent one (and the last transient one) leaves the loop.
Failed(w) ==
    \/ /\ attempt[w] < MaxAttempts
       /\ attempt' = [attempt EXCEPT ![w] = @ + 1]
       /\ UNCHANGED pc
    \/ /\ Goto(w, "failStep")
       /\ UNCHANGED attempt

\* _dispatch_node_type: a trigger's handler returns its payload, every other
\* handler reaches a connector, an agent queue or a template that may raise.
MayRaise(n) == n \notin Triggers

\* One attempt.  The connector's call succeeds or raises; after a success the
\* breaker and incident bookkeeping runs inside the same try block, so an error
\* it raises is handled as if the dispatch had failed.
Dispatch(w) ==
    /\ pc[w] = "dispatch"
    /\ \/ /\ Goto(w, "snapshot")
          /\ effects' = [effects EXCEPT ![Current(w)] = @ + 1]
          /\ UNCHANGED attempt
       \/ /\ MayRaise(Current(w))
          /\ Failed(w)
          /\ UNCHANGED effects
       \/ /\ StoreFaults
          /\ Current(w) \in Connected
          /\ effects' = [effects EXCEPT ![Current(w)] = @ + 1]
          /\ Failed(w)
    /\ UNCHANGED <<dbVars, travVars, cur, seen, view, item, approved, requests>>

\* The state store raises where nothing catches it: at the breaker question, or
\* when the handler of a failed attempt counts the failure.  The request ends
\* with an error and the rows stay as they are.
StoreOutage(w) ==
    /\ StoreFaults
    /\ \/ pc[w] = "guard" /\ UNCHANGED effects
       \/ /\ pc[w] = "dispatch"
          /\ Current(w) \in Connected
          /\ \/ UNCHANGED effects
             \/ effects' = [effects EXCEPT ![Current(w)] = @ + 1]
    /\ EndRequest(w)
    /\ UNCHANGED <<dbVars, approved, requests>>

\* update_step SUCCESS with the output, then follow the outgoing edges.
Snapshot(w) ==
    \E out \in Outputs :
    LET n == Current(w)
        context == [ctx[w] EXCEPT ![n] = out] IN
    /\ pc[w] = "snapshot"
    /\ steps' = [steps EXCEPT ![cur[w]] = [node |-> n, status |-> "SUCCESS", output |-> out]]
    /\ ctx' = [ctx EXCEPT ![w] = context]
    /\ queue' = [queue EXCEPT ![w] = @ \o Successors(n, context)]
    /\ Goto(w, "loop")
    /\ UNCHANGED <<status, dlq, visited, nodeVars, seen, view, item, histVars>>

FailStep(w) ==
    /\ pc[w] = "failStep"
    /\ SetStep(w, "FAILED")
    /\ Goto(w, "deadLetter")
    /\ UNCHANGED <<status, dlq, travVars, nodeVars, seen, view, item, histVars>>

RouteToDlq(w) ==
    /\ pc[w] = "deadLetter"
    /\ dlq' = Append(dlq, [node |-> Current(w), status |-> "PENDING"])
    /\ Goto(w, "failRun")
    /\ UNCHANGED <<status, steps, travVars, nodeVars, seen, view, item, histVars>>

\* Mutant: the terminal status is not written.
FailSilently(w) ==
    /\ pc[w] = "failRun"
    /\ EndRequest(w)
    /\ UNCHANGED <<dbVars, histVars>>

FailRun(w) ==
    /\ pc[w] = "failRun"
    /\ status' = "FAILED"
    /\ EndRequest(w)
    /\ UNCHANGED <<steps, dlq, histVars>>

\* The replica dies between two commits.  Nothing restarts the run: no code
\* looks for RUNNING rows at start-up.
Crash(w) ==
    /\ CrashAllowed
    /\ pc[w] # "idle"
    /\ EndRequest(w)
    /\ UNCHANGED <<dbVars, histVars>>
-----------------------------------------------------------------------------
Init ==
    /\ status = "NONE"
    /\ steps = <<>>
    /\ dlq = <<>>
    /\ pc = [w \in Workers |-> "idle"]
    /\ seen = [w \in Workers |-> "NONE"]
    /\ view = [w \in Workers |-> <<>>]
    /\ queue = [w \in Workers |-> <<>>]
    /\ visited = [w \in Workers |-> {}]
    /\ ctx = [w \in Workers |-> EmptyContext]
    /\ cur = [w \in Workers |-> 0]
    /\ attempt = [w \in Workers |-> 1]
    /\ item = [w \in Workers |-> 0]
    /\ effects = [n \in Nodes |-> 0]
    /\ approved = {}
    /\ requests = 0

Request(w) == ExecuteNewRun(w) \/ LoadForDecision(w) \/ LoadForReplay(w) \/ ReplayAll(w)

\* What a request does once it has started: the part the event loop drives.
Progress(w) ==
    \/ ApproveStep(w) \/ ResumeFails(w) \/ RejectStep(w) \/ RejectRun(w)
    \/ Reload(w) \/ MarkRunning(w)
    \/ SkipVisited(w) \/ SkipCompleted(w)
    \/ ParkApprovalStep(w) \/ ParkRun(w)
    \/ BeginStep(w) \/ CompleteRun(w) \/ MarkReplayed(w)
    \/ BreakerGuard(w) \/ Dispatch(w) \/ StoreOutage(w) \/ Snapshot(w)
    \/ FailStep(w) \/ RouteToDlq(w) \/ FailRun(w)

Next == \E w \in Workers : Request(w) \/ Progress(w) \/ Crash(w)

Spec == Init /\ [][Next]_vars

\* Every request in flight keeps being scheduled; requests are never forced.
FairSpec == Spec /\ \A w \in Workers : WF_vars(Progress(w))
=============================================================================
