------------------------- MODULE WorkflowEngineProofs -------------------------
(***************************************************************************)
(* Approval gates hold, and failures have dead letters, for every workflow *)
(* graph, any number of concurrent requests, and any pattern of crashes,   *)
(* retries, replays and state store faults.  When requests are served one  *)
(* at a time, completed steps stay, rows follow the edges, a run that      *)
(* succeeds is complete, no node takes effect twice and a parked run can   *)
(* be decided.                                                             *)
(*                                                                         *)
(* GateSafety is not inductive: an effect of a guarded node is prevented by *)
(* what requests hold in their sessions (queues, contexts, stale views of  *)
(* the step rows), so the invariant below says that nothing a request holds *)
(* leads past a gate that has not been approved.                           *)
(***************************************************************************)
EXTENDS WorkflowEngineProps, Extrema, TLAPS

\* Labels at which the worker owns the step row cur points to.
Busy == {"guard", "dispatch", "snapshot", "failStep", "deadLetter"}

\* Only approval nodes have parked rows, in the table and in every session.
ParkedInv ==
    /\ \A i \in 1 .. Len(steps) :
          steps[i].status = "WAITING_APPROVAL" => steps[i].node \in Approvals
    /\ \A w \in Workers : \A i \in 1 .. Len(view[w]) :
          view[w][i].status = "WAITING_APPROVAL" => view[w][i].node \in Approvals

\* A session holds a prefix of the rows; statuses may be stale, nodes are not.
ViewInv ==
    \A w \in Workers :
      /\ Len(view[w]) <= Len(steps)
      /\ \A i \in 1 .. Len(view[w]) : view[w][i].node = steps[i].node

\* The row a worker executes exists and is not an approval's.
OwnRowInv ==
    \A w \in Workers : pc[w] \in Busy =>
      /\ cur[w] \in 1 .. Len(steps)
      /\ steps[cur[w]].node \notin Approvals

\* Nothing leads past gate a.
Closed(a) ==
    /\ \A i \in 1 .. Len(steps) :
          /\ steps[i].node \notin Gated[a]
          /\ steps[i].node = a => steps[i].status # "SUCCESS"
    /\ \A w \in Workers :
          /\ \A i \in 1 .. Len(view[w]) :
                view[w][i].node = a => view[w][i].status # "SUCCESS"
          /\ \A i \in 1 .. Len(queue[w]) : queue[w][i] \notin Gated[a]
          /\ \A n \in Gated[a] \cup {a} : ctx[w][n] = NoOutput
    /\ \A n \in Gated[a] : effects[n] = 0

GateInv == \A a \in Approvals \ approved : Closed(a)

IInv == TypeOK /\ ParkedInv /\ ViewInv /\ OwnRowInv /\ GateInv
-----------------------------------------------------------------------------
(* What the helpers of execute return *)

\* A context in which no node has an output is a context.
LEMMA EmptyContextType == EmptyContext \in Context
  BY DEF EmptyContext, Context

\* The entries queued after n are nodes, one per outgoing edge.
LEMMA SuccessorsType ==
  ASSUME NEW n \in Nodes, NEW c
  PROVE  /\ Successors(n, c) \in Seq(Nodes)
         /\ Len(Successors(n, c)) = Len(Out[n])
         /\ \A i \in 1 .. Len(Out[n]) :
               Successors(n, c)[i] = n \/ Successors(n, c)[i] = Out[n][i].target
  <1>1. Out[n] \in Seq(Edges)
    BY NodesAssumption
  <1>2. \A i \in 1 .. Len(Out[n]) : Out[n][i].target \in Nodes
    <2>1. \A i \in 1 .. Len(Out[n]) : Out[n][i] \in Edges
      BY <1>1
    <2>2. \A e \in Edges : e.target \in Nodes
      BY DEF Edges
    <2>3. QED
      BY <2>1, <2>2
  <1>3. Successors(n, c) \in [1 .. Len(Out[n]) -> Nodes]
    BY <1>2 DEF Successors
  <1>4. Len(Out[n]) \in Nat
    BY <1>1
  <1>5. QED
    BY <1>3, <1>4 DEF Successors

\* Rereading the rows keeps the values the session holds and adds the new rows.
LEMMA RereadFacts ==
  ASSUME steps \in Seq(Step), NEW v \in Seq(Step)
  PROVE  /\ Reread(v) \in Seq(Step)
         /\ Len(Reread(v)) = Len(steps)
         /\ \A i \in 1 .. Len(steps) :
               Reread(v)[i] = IF i \in 1 .. Len(v) THEN v[i] ELSE steps[i]
  <1>1. Len(steps) \in Nat
    OBVIOUS
  <1>2. \A i \in 1 .. Len(steps) : (IF i \in 1 .. Len(v) THEN v[i] ELSE steps[i]) \in Step
    OBVIOUS
  <1>3. Reread(v) \in [1 .. Len(steps) -> Step]
    BY <1>2 DEF Reread
  <1>4. QED
    BY <1>1, <1>3 DEF Reread

\* A resumed execution's context holds outputs, and only for nodes with a
\* SUCCESS row.
LEMMA ContextOfFacts ==
  ASSUME NEW v \in Seq(Step)
  PROVE  /\ ContextOf(v) \in Context
         /\ \A n \in Nodes :
               ContextOf(v)[n] # NoOutput =>
                 \E i \in 1 .. Len(v) : v[i].node = n /\ v[i].status = "SUCCESS"
  <1>1. ASSUME NEW n \in Nodes
        PROVE  /\ ContextOf(v)[n] \in Outputs \cup {NoOutput}
               /\ ContextOf(v)[n] # NoOutput =>
                    \E i \in 1 .. Len(v) : v[i].node = n /\ v[i].status = "SUCCESS"
    <2>1. CASE \E i \in 1 .. Len(v) : IsLastSuccess(v, n, i)
      <3> DEFINE k == CHOOSE i \in 1 .. Len(v) : IsLastSuccess(v, n, i)
      <3>1. k \in 1 .. Len(v) /\ IsLastSuccess(v, n, k)
        BY <2>1
      <3>2. ContextOf(v)[n] = v[k].output
        BY <2>1 DEF ContextOf
      <3>3. v[k] \in Step
        BY <3>1
      <3>4. v[k].node = n /\ v[k].status = "SUCCESS"
        BY <3>1 DEF IsLastSuccess
      <3> HIDE DEF k
      <3>5. QED
        BY <3>1, <3>2, <3>3, <3>4 DEF Step
    <2>2. CASE ~ \E i \in 1 .. Len(v) : IsLastSuccess(v, n, i)
      BY <2>2 DEF ContextOf
    <2>3. QED
      BY <2>1, <2>2
  <1>2. ContextOf(v) = [n \in Nodes |-> ContextOf(v)[n]]
    BY DEF ContextOf
  <1>3. QED
    BY <1>1, <1>2 DEF Context
-----------------------------------------------------------------------------
(* Type correctness *)

LocalTypeOK ==
    /\ pc \in [Workers -> Labels]
    /\ seen \in [Workers -> RunStatus]
    /\ view \in [Workers -> Seq(Step)]
    /\ queue \in [Workers -> Seq(Nodes)]
    /\ visited \in [Workers -> SUBSET Nodes]
    /\ ctx \in [Workers -> Context]
    /\ cur \in [Workers -> Nat]
    /\ attempt \in [Workers -> 1 .. MaxAttempts]
    /\ item \in [Workers -> Nat]

\* Clearing a session leaves well-typed locals.
LEMMA EndRequestType ==
  ASSUME TypeOK, NEW w \in Workers, EndRequest(w)
  PROVE  LocalTypeOK'
  <1>1. EmptyContext \in Context
    BY EmptyContextType
  <1>2. 1 \in 1 .. MaxAttempts
    BY BoundsAssumption
  <1>3. <<>> \in Seq(Step) /\ <<>> \in Seq(Nodes)
    OBVIOUS
  <1>4. "idle" \in Labels /\ "NONE" \in RunStatus
    BY DEF Labels, RunStatus
  <1>5. QED
    BY <1>1, <1>2, <1>3, <1>4 DEF EndRequest, TypeOK, LocalTypeOK

\* Requests are well typed.
LEMMA RequestType ==
  ASSUME TypeOK, NEW w \in Workers, Request(w)
  PROVE  TypeOK'
  <1>1. CASE ExecuteNewRun(w)
    BY <1>1, EmptyContextType, NodesAssumption, BoundsAssumption
    DEF ExecuteNewRun, NewRequest, Traverse, Goto, TypeOK, RunStatus, Labels, nodeVars
  <1>2. CASE LoadForDecision(w)
    BY <1>2, BoundsAssumption
    DEF LoadForDecision, NewRequest, Goto, TypeOK, Labels, nodeVars, dbVars, travVars
  <1>3. CASE LoadForReplay(w)
    BY <1>3, BoundsAssumption
    DEF LoadForReplay, NewRequest, Goto, TypeOK, Labels, nodeVars, dbVars, travVars
  <1>4. CASE ReplayAll(w)
    <2>1. dlq' \in Seq(DeadLetter)
      <3>1. Len(dlq) \in Nat /\ \A d \in 1 .. Len(dlq) : dlq[d] \in DeadLetter
        BY DEF TypeOK
      <3>2. \A d \in 1 .. Len(dlq) : [dlq[d] EXCEPT !.status = "REPLAYED"] \in DeadLetter
        BY <3>1 DEF DeadLetter, DlqStatus
      <3>3. dlq' \in [1 .. Len(dlq) -> DeadLetter]
        BY <1>4, <3>1, <3>2 DEF ReplayAll
      <3>4. QED
        BY <3>1, <3>3
    <2>2. requests' \in 0 .. MaxRequests
      BY <1>4, BoundsAssumption DEF ReplayAll, NewRequest, TypeOK
    <2>3. UNCHANGED <<status, steps, pc, seen, view, queue, visited, ctx, cur,
                      attempt, item, effects, approved>>
      BY <1>4 DEF ReplayAll, nodeVars, travVars, reqVars
    <2>4. QED
      BY <2>1, <2>2, <2>3 DEF TypeOK
  <1>5. QED
    BY <1>1, <1>2, <1>3, <1>4 DEF Request

\* What a request does after it started keeps everything well typed.
LEMMA ProgressType ==
  ASSUME TypeOK, ParkedInv, OwnRowInv, NEW w \in Workers, Progress(w)
  PROVE  TypeOK'
  <1>1. ASSUME NEW d \in {"SUCCESS", "REJECTED"}, NEW l \in Labels, DecideStep(w, d, l)
        PROVE  TypeOK'
    <2> DEFINE v == Reread(view[w])
               o == IF d = "SUCCESS" THEN ApprovedOutput ELSE NoOutput
    <2>1. steps \in Seq(Step) /\ view[w] \in Seq(Step)
      BY DEF TypeOK
    <2>2. /\ v \in Seq(Step)
          /\ Len(v) = Len(steps)
          /\ \A i \in 1 .. Len(steps) :
                v[i] = IF i \in 1 .. Len(view[w]) THEN view[w][i] ELSE steps[i]
      BY <2>1, RereadFacts
    <2>3. \A i \in 1 .. Len(v) : v[i].status = "WAITING_APPROVAL" => v[i].node \in Approvals
      BY <2>2 DEF ParkedInv
    <2>4. o \in Outputs \cup {NoOutput}
      BY NodesAssumption DEF ApprovedOutput
    <2>5. UNCHANGED <<status, dlq, queue, visited, ctx, cur, attempt, seen, item, effects, requests>>
      BY <1>1 DEF DecideStep, travVars, nodeVars
    <2>6. pc' \in [Workers -> Labels]
      BY <1>1 DEF DecideStep, Goto, TypeOK
    <2>7. \/ \E i \in 1 .. Len(v) :
               LET row == [node |-> v[i].node, status |-> d, output |-> o] IN
               /\ v[i].status = "WAITING_APPROVAL"
               /\ steps' = [steps EXCEPT ![i] = row]
               /\ view' = [view EXCEPT ![w] = [v EXCEPT ![i] = row]]
               /\ approved' \subseteq approved \cup {v[i].node}
          \/ view' = [view EXCEPT ![w] = v] /\ UNCHANGED <<steps, approved>>
      BY <1>1 DEF DecideStep, IsFirstWaiting
    <2> HIDE DEF v, o
    <2>8. steps' \in Seq(Step) /\ view' \in [Workers -> Seq(Step)] /\ approved' \subseteq Approvals
      <3>1. CASE view' = [view EXCEPT ![w] = v] /\ UNCHANGED <<steps, approved>>
        BY <3>1, <2>2 DEF TypeOK
      <3>2. ASSUME NEW i \in 1 .. Len(v),
                   NEW row, row = [node |-> v[i].node, status |-> d, output |-> o],
                   v[i].status = "WAITING_APPROVAL",
                   steps' = [steps EXCEPT ![i] = row],
                   view' = [view EXCEPT ![w] = [v EXCEPT ![i] = row]],
                   approved' \subseteq approved \cup {v[i].node}
            PROVE  steps' \in Seq(Step) /\ view' \in [Workers -> Seq(Step)] /\ approved' \subseteq Approvals
        <4>1. v[i] \in Step
          BY <2>2, <3>2
        <4>2. v[i].node \in Nodes
          BY <4>1 DEF Step
        <4>3. row \in Step
          BY <4>2, <2>4, <3>2 DEF Step, StepStatus
        <4>4. [v EXCEPT ![i] = row] \in Seq(Step)
          BY <4>3, <2>2
        <4>5. steps' \in Seq(Step)
          BY <3>2, <4>3, <2>1, <2>2
        <4>6. view' \in [Workers -> Seq(Step)]
          BY <3>2, <4>4 DEF TypeOK
        <4>7. approved' \subseteq Approvals
          BY <3>2, <2>3 DEF TypeOK
        <4>8. QED
          BY <4>5, <4>6, <4>7
      <3>3. QED
        BY <2>7, <3>1, <3>2
    <2>9. QED
      BY <2>5, <2>6, <2>8 DEF TypeOK
  <1>2. CASE ApproveStep(w)
    BY <1>1, <1>2 DEF ApproveStep, Labels
  <1>a. CASE ResumeFails(w)
    BY <1>a, EndRequestType DEF ResumeFails, TypeOK, LocalTypeOK, dbVars, histVars
  <1>3. CASE RejectStep(w)
    BY <1>1, <1>3 DEF RejectStep, Labels
  <1>4. CASE RejectRun(w)
    BY <1>4, EndRequestType DEF RejectRun, TypeOK, LocalTypeOK, RunStatus, histVars
  <1>5. CASE Reload(w)
    <2>1. Reread(view[w]) \in Seq(Step)
      BY RereadFacts DEF TypeOK
    <2>2. view' \in [Workers -> Seq(Step)]
      BY <1>5, <2>1 DEF Reload, TypeOK
    <2>3. pc' \in [Workers -> Labels]
      BY <1>5 DEF Reload, Goto, TypeOK, Labels
    <2>4. QED
      BY <1>5, <2>2, <2>3 DEF Reload, TypeOK, dbVars, travVars, nodeVars, histVars
  <1>6. CASE MarkRunning(w)
    <2>1. ContextOf(view[w]) \in Context
      BY ContextOfFacts DEF TypeOK
    <2>2. QED
      BY <1>6, <2>1, NodesAssumption
      DEF MarkRunning, Traverse, Goto, TypeOK, RunStatus, Labels, nodeVars, histVars
  <1>7. ASSUME NEW n, AtHead(w, n)
        PROVE  /\ n \in Nodes
               /\ Tail(queue[w]) \in Seq(Nodes)
               /\ \A c : Tail(queue[w]) \o Successors(n, c) \in Seq(Nodes)
    <2>1. n \in Nodes /\ Tail(queue[w]) \in Seq(Nodes)
      BY <1>7 DEF AtHead, TypeOK
    <2>2. \A c : Successors(n, c) \in Seq(Nodes)
      BY <2>1, SuccessorsType
    <2>3. QED
      BY <2>1, <2>2
  <1>8. CASE SkipVisited(w)
    BY <1>8, <1>7 DEF SkipVisited, TypeOK, dbVars, nodeVars, reqVars, histVars
  <1>9. CASE SkipCompleted(w)
    <2>1. PICK n \in Nodes \ visited[w] :
            /\ AtHead(w, n)
            /\ visited' = [visited EXCEPT ![w] = @ \cup {n}]
            /\ queue' = [queue EXCEPT ![w] = Tail(@) \o Successors(n, ctx[w])]
            /\ UNCHANGED <<dbVars, ctx, nodeVars, reqVars, histVars>>
      BY <1>9 DEF SkipCompleted
    <2>2. queue' \in [Workers -> Seq(Nodes)]
      BY <2>1, <1>7 DEF TypeOK
    <2>3. QED
      BY <2>1, <2>2 DEF TypeOK, dbVars, nodeVars, reqVars, histVars
  <1>10. ASSUME NEW n \in Nodes, NEW s \in StepStatus, RecordStep(w, n, s)
         PROVE  /\ status' \in RunStatus /\ steps' \in Seq(Step) /\ dlq' \in Seq(DeadLetter)
                /\ seen' \in [Workers -> RunStatus] /\ view' \in [Workers -> Seq(Step)]
                /\ queue' \in [Workers -> Seq(Nodes)]
                /\ visited' \in [Workers -> SUBSET Nodes]
                /\ ctx' \in [Workers -> Context]
                /\ item' \in [Workers -> Nat]
                /\ effects' \in [Nodes -> Nat] /\ approved' \subseteq Approvals
                /\ requests' \in 0 .. MaxRequests
    <2>1. [node |-> n, status |-> s, output |-> NoOutput] \in Step
      BY DEF Step
    <2>2. steps' \in Seq(Step)
      BY <1>10, <2>1 DEF RecordStep, TypeOK
    <2>3. QED
      BY <1>10, <1>7, <2>2 DEF RecordStep, TypeOK, histVars
  <1>11. CASE ParkApprovalStep(w)
    <2>1. PICK n \in Approvals : RecordStep(w, n, "WAITING_APPROVAL")
      BY <1>11 DEF ParkApprovalStep
    <2>2. n \in Nodes /\ "WAITING_APPROVAL" \in StepStatus
      BY NodesAssumption DEF StepStatus
    <2>3. pc' \in [Workers -> Labels] /\ UNCHANGED <<cur, attempt>>
      BY <1>11 DEF ParkApprovalStep, Goto, Labels, TypeOK, nodeVars
    <2>4. QED
      BY <2>1, <2>2, <2>3, <1>10 DEF TypeOK
  <1>12. CASE ParkRun(w)
    BY <1>12, EndRequestType DEF ParkRun, TypeOK, LocalTypeOK, RunStatus, histVars
  <1>13. CASE BeginStep(w)
    <2>1. PICK n \in Nodes :
            /\ RecordStep(w, n, "RUNNING")
            /\ cur' = [cur EXCEPT ![w] = Len(steps) + 1]
            /\ attempt' = [attempt EXCEPT ![w] = 1]
            /\ Goto(w, IF n \in Connected THEN "guard" ELSE "dispatch")
      BY <1>13 DEF BeginStep
    <2>2. "RUNNING" \in StepStatus
      BY DEF StepStatus
    <2>3. Len(steps) + 1 \in Nat
      BY DEF TypeOK
    <2>4. cur' \in [Workers -> Nat] /\ attempt' \in [Workers -> 1 .. MaxAttempts]
      BY <2>1, <2>3, BoundsAssumption DEF TypeOK
    <2>5. pc' \in [Workers -> Labels]
      BY <2>1 DEF Goto, Labels, TypeOK
    <2>6. QED
      BY <2>1, <2>2, <2>4, <2>5, <1>10 DEF TypeOK
  <1>14. CASE CompleteRun(w)
    <2>1. status' \in RunStatus /\ UNCHANGED <<steps, dlq, effects, approved, requests>>
      BY <1>14 DEF CompleteRun, RunStatus, histVars
    <2>2. CASE EndRequest(w)
      BY <2>1, <2>2, EndRequestType DEF TypeOK, LocalTypeOK
    <2>3. CASE /\ Goto(w, "markReplayed")
               /\ UNCHANGED <<travVars, nodeVars, seen, view, item>>
      BY <2>1, <2>3 DEF Goto, Labels, TypeOK, travVars, nodeVars
    <2>4. QED
      BY <1>14, <2>2, <2>3 DEF CompleteRun
  <1>15. CASE MarkReplayed(w)
    <2>1. dlq' \in Seq(DeadLetter)
      <3>1. CASE item[w] \in 1 .. Len(dlq)
        <4>1. dlq[item[w]] \in DeadLetter
          BY <3>1 DEF TypeOK
        <4>2. [dlq[item[w]] EXCEPT !.status = "REPLAYED"] \in DeadLetter
          BY <4>1 DEF DeadLetter, DlqStatus
        <4>3. dlq' = [dlq EXCEPT ![item[w]] = [dlq[item[w]] EXCEPT !.status = "REPLAYED"]]
          BY <1>15 DEF MarkReplayed
        <4>4. QED
          BY <3>1, <4>2, <4>3 DEF TypeOK
      <3>2. CASE item[w] \notin 1 .. Len(dlq)
        <4>1. dlq \in [1 .. Len(dlq) -> DeadLetter] /\ Len(dlq) \in Nat
          BY DEF TypeOK
        <4>2. dlq' \in [1 .. Len(dlq) -> DeadLetter]
          BY <1>15, <3>2, <4>1 DEF MarkReplayed
        <4>3. QED
          BY <4>1, <4>2
      <3>3. QED
        BY <3>1, <3>2
    <2>2. QED
      BY <1>15, <2>1, EndRequestType DEF MarkReplayed, TypeOK, LocalTypeOK, histVars
  <1>16. ASSUME NEW s \in StepStatus, pc[w] \in Busy, SetStep(w, s)
         PROVE  steps' \in Seq(Step)
    <2>1. cur[w] \in 1 .. Len(steps)
      BY <1>16 DEF OwnRowInv
    <2>2. steps[cur[w]] \in Step
      BY <2>1 DEF TypeOK
    <2>3. [steps[cur[w]] EXCEPT !.status = s] \in Step
      BY <2>2 DEF Step
    <2>4. steps' = [steps EXCEPT ![cur[w]] = [steps[cur[w]] EXCEPT !.status = s]]
      BY <1>16 DEF SetStep
    <2>5. QED
      BY <2>1, <2>3, <2>4 DEF TypeOK
  <1>17. "FAILED" \in StepStatus
    BY DEF StepStatus
  <1>18. CASE BreakerGuard(w)
    <2>1. steps' \in Seq(Step)
      BY <1>18, <1>16, <1>17 DEF BreakerGuard, TypeOK, Busy
    <2>2. pc' \in [Workers -> Labels]
      BY <1>18 DEF BreakerGuard, Goto, Labels, TypeOK
    <2>3. QED
      BY <1>18, <2>1, <2>2 DEF BreakerGuard, TypeOK, travVars, nodeVars, histVars
  <1>19. ASSUME pc[w] \in Busy
         PROVE  /\ Current(w) \in Nodes
                /\ [effects EXCEPT ![Current(w)] = @ + 1] \in [Nodes -> Nat]
    <2>1. steps[cur[w]] \in Step
      BY <1>19 DEF OwnRowInv, TypeOK
    <2>2. Current(w) \in Nodes
      BY <2>1 DEF Current, Step
    <2>3. QED
      BY <2>2 DEF TypeOK
  <1>20. CASE Dispatch(w)
    <2>1. effects' \in [Nodes -> Nat]
      BY <1>20, <1>19 DEF Dispatch, Busy, TypeOK
    <2>2. pc' \in [Workers -> Labels] /\ attempt' \in [Workers -> 1 .. MaxAttempts]
      <3>1. CASE Goto(w, "snapshot") /\ UNCHANGED attempt
        BY <3>1 DEF Goto, Labels, TypeOK
      <3>2. CASE Failed(w)
        <4>1. pc' \in [Workers -> Labels]
          BY <3>2 DEF Failed, Goto, Labels, TypeOK
        <4>2. attempt[w] \in 1 .. MaxAttempts /\ MaxAttempts \in Nat
          BY BoundsAssumption DEF TypeOK
        <4>3. attempt[w] < MaxAttempts => attempt[w] + 1 \in 1 .. MaxAttempts
          BY <4>2
        <4>4. attempt' \in [Workers -> 1 .. MaxAttempts]
          BY <3>2, <4>3 DEF Failed, TypeOK
        <4>5. QED
          BY <4>1, <4>4
      <3>3. QED
        BY <1>20, <3>1, <3>2 DEF Dispatch
    <2>3. QED
      BY <1>20, <2>1, <2>2 DEF Dispatch, TypeOK, dbVars, travVars
  <1>21. CASE StoreOutage(w)
    <2>1. effects' \in [Nodes -> Nat]
      BY <1>21, <1>19 DEF StoreOutage, Busy, TypeOK
    <2>2. QED
      BY <1>21, <2>1, EndRequestType DEF StoreOutage, TypeOK, LocalTypeOK, dbVars
  <1>22. CASE Snapshot(w)
    <2> DEFINE n == Current(w)
               c(out) == [ctx[w] EXCEPT ![n] = out]
    <2>1. PICK out \in Outputs :
            /\ pc[w] = "snapshot"
            /\ steps' = [steps EXCEPT ![cur[w]] = [node |-> n, status |-> "SUCCESS", output |-> out]]
            /\ ctx' = [ctx EXCEPT ![w] = c(out)]
            /\ queue' = [queue EXCEPT ![w] = @ \o Successors(n, c(out))]
            /\ Goto(w, "loop")
            /\ UNCHANGED <<status, dlq, visited, nodeVars, seen, view, item, histVars>>
      BY <1>22 DEF Snapshot
    <2>2. n \in Nodes /\ cur[w] \in 1 .. Len(steps)
      BY <2>1, <1>19 DEF Busy, OwnRowInv
    <2> HIDE DEF n
    <2>3. [node |-> n, status |-> "SUCCESS", output |-> out] \in Step
      BY <2>2 DEF Step, StepStatus
    <2>4. steps' \in Seq(Step)
      BY <2>1, <2>2, <2>3 DEF TypeOK
    <2>5. ctx' \in [Workers -> Context]
      BY <2>1, <2>2 DEF TypeOK, Context
    <2>6. Successors(n, c(out)) \in Seq(Nodes)
      BY <2>2, SuccessorsType
    <2>7. queue' \in [Workers -> Seq(Nodes)]
      BY <2>1, <2>6 DEF TypeOK
    <2>8. pc' \in [Workers -> Labels]
      BY <2>1 DEF Goto, Labels, TypeOK
    <2>9. UNCHANGED <<status, dlq, visited, cur, attempt, seen, view, item, effects, approved, requests>>
      BY <2>1 DEF nodeVars, histVars
    <2>10. QED
      BY <2>4, <2>5, <2>7, <2>8, <2>9 DEF TypeOK
  <1>23. CASE FailStep(w)
    <2>1. steps' \in Seq(Step)
      BY <1>23, <1>16, <1>17 DEF FailStep, Busy
    <2>2. QED
      BY <1>23, <2>1 DEF FailStep, Goto, Labels, TypeOK, travVars, nodeVars, histVars
  <1>24. CASE RouteToDlq(w)
    <2>1. Current(w) \in Nodes
      BY <1>24, <1>19 DEF RouteToDlq, Busy
    <2>2. [node |-> Current(w), status |-> "PENDING"] \in DeadLetter
      BY <2>1 DEF DeadLetter, DlqStatus
    <2>3. dlq' \in Seq(DeadLetter)
      BY <1>24, <2>2 DEF RouteToDlq, TypeOK
    <2>4. QED
      BY <1>24, <2>3 DEF RouteToDlq, Goto, Labels, TypeOK, travVars, nodeVars, histVars
  <1>25. CASE FailRun(w)
    BY <1>25, EndRequestType DEF FailRun, TypeOK, LocalTypeOK, RunStatus, histVars
  <1>26. QED
    BY <1>2, <1>a, <1>3, <1>4, <1>5, <1>6, <1>8, <1>9, <1>11, <1>12, <1>13, <1>14, <1>15,
       <1>18, <1>20, <1>21, <1>22, <1>23, <1>24, <1>25 DEF Progress
-----------------------------------------------------------------------------
(* The shapes a step can have, as far as the gates are concerned *)

AnyStep(w) == Request(w) \/ Progress(w) \/ Crash(w)

\* Row i is rewritten, for the same node, with a status that is not parked; an
\* approval's row turns SUCCESS only when that approval has been given.
RowUpdate(i, row) ==
    /\ row.node = steps[i].node
    /\ row.status \in {"SUCCESS", "FAILED", "REJECTED"}
    /\ row.status = "SUCCESS" /\ row.node \in Approvals => row.node \in approved'
    /\ steps' = [steps EXCEPT ![i] = row]

\* The node at the head of w's queue gets a row, parked only if an approval's.
RowInsert(w, n, s) ==
    /\ AtHead(w, n)
    /\ s \in {"WAITING_APPROVAL", "RUNNING"}
    /\ s = "WAITING_APPROVAL" => n \in Approvals
    /\ steps' = Append(steps, [node |-> n, status |-> s, output |-> NoOutput])

RowShape(w) ==
    /\ approved \subseteq approved'
    /\ \/ UNCHANGED steps
       \/ \E n \in Nodes : \E s \in StepStatus : RowInsert(w, n, s)
       \/ \E i \in 1 .. Len(steps) : \E row \in Step : RowUpdate(i, row)

ViewShape(w) ==
    \/ UNCHANGED view
    \/ view' = [view EXCEPT ![w] = <<>>]
    \/ view' = [view EXCEPT ![w] = steps] /\ UNCHANGED steps
    \/ view' = [view EXCEPT ![w] = Reread(view[w])] /\ UNCHANGED steps
    \/ \E i \in 1 .. Len(steps) : \E row \in Step :
          RowUpdate(i, row) /\ view' = [view EXCEPT ![w] = [Reread(view[w]) EXCEPT ![i] = row]]

OwnShape(w) ==
    /\ \A u \in Workers \ {w} : pc'[u] = pc[u] /\ cur'[u] = cur[u]
    /\ pc'[w] \in Busy =>
         \/ pc[w] \in Busy /\ cur'[w] = cur[w]
         \/ /\ cur'[w] = Len(steps) + 1
            /\ \E n \in Nodes \ Approvals :
                  steps' = Append(steps, [node |-> n, status |-> "RUNNING", output |-> NoOutput])

QueueShape(w) ==
    \/ UNCHANGED queue
    \/ queue' = [queue EXCEPT ![w] = <<>>]
    \/ queue' = [queue EXCEPT ![w] = StartNodes]
    \/ queue[w] # <<>> /\ queue' = [queue EXCEPT ![w] = Tail(queue[w])]
    \/ \E n \in Nodes : \E c :
          /\ AtHead(w, n) /\ ctx[w][n] # NoOutput
          /\ queue' = [queue EXCEPT ![w] = Tail(queue[w]) \o Successors(n, c)]
    \/ \E c : /\ pc[w] \in Busy
              /\ queue' = [queue EXCEPT ![w] = queue[w] \o Successors(Current(w), c)]

ContextShape(w) ==
    \/ UNCHANGED ctx
    \/ ctx' = [ctx EXCEPT ![w] = EmptyContext]
    \/ ctx' = [ctx EXCEPT ![w] = ContextOf(view[w])]
    \/ \E out \in Outputs : /\ pc[w] \in Busy
                            /\ ctx' = [ctx EXCEPT ![w] = [ctx[w] EXCEPT ![Current(w)] = out]]

EffectShape(w) ==
    \/ UNCHANGED effects
    \/ pc[w] \in Busy /\ effects' = [effects EXCEPT ![Current(w)] = @ + 1]

\* A decision rewrites one parked row, in the table and in the session.
LEMMA DecideShape ==
  ASSUME TypeOK, ParkedInv, ViewInv, NEW w \in Workers,
         NEW d \in {"SUCCESS", "REJECTED"}, NEW l, DecideStep(w, d, l)
  PROVE  RowShape(w) /\ ViewShape(w)
  <1> DEFINE v == Reread(view[w])
             o == IF d = "SUCCESS" THEN ApprovedOutput ELSE NoOutput
             row(i) == [node |-> v[i].node, status |-> d, output |-> o]
  <1>1. /\ v \in Seq(Step)
        /\ Len(v) = Len(steps)
        /\ \A i \in 1 .. Len(steps) :
              v[i] = IF i \in 1 .. Len(view[w]) THEN view[w][i] ELSE steps[i]
    BY RereadFacts DEF TypeOK
  <1>2. o \in Outputs \cup {NoOutput}
    BY NodesAssumption DEF ApprovedOutput
  <1>3. \/ \E i \in 1 .. Len(v) :
             /\ v[i].status = "WAITING_APPROVAL"
             /\ steps' = [steps EXCEPT ![i] = row(i)]
             /\ view' = [view EXCEPT ![w] = [v EXCEPT ![i] = row(i)]]
             /\ approved' = IF d = "SUCCESS" THEN approved \cup {v[i].node} ELSE approved
        \/ view' = [view EXCEPT ![w] = v] /\ UNCHANGED <<steps, approved>>
    BY DEF DecideStep, IsFirstWaiting
  <1> HIDE DEF v, o
  <1>4. CASE view' = [view EXCEPT ![w] = v] /\ UNCHANGED <<steps, approved>>
    BY <1>4 DEF RowShape, ViewShape, v
  <1>5. ASSUME NEW i \in 1 .. Len(v),
               v[i].status = "WAITING_APPROVAL",
               steps' = [steps EXCEPT ![i] = row(i)],
               view' = [view EXCEPT ![w] = [v EXCEPT ![i] = row(i)]],
               approved' = IF d = "SUCCESS" THEN approved \cup {v[i].node} ELSE approved
        PROVE  RowShape(w) /\ ViewShape(w)
    <2>1. v[i] \in Step /\ i \in 1 .. Len(steps)
      BY <1>1
    <2>2. v[i].node \in Nodes
      BY <2>1 DEF Step
    <2>3. row(i) \in Step
      BY <2>2, <1>2 DEF Step, StepStatus
    <2>4. v[i].node = steps[i].node
      BY <1>1, <2>1 DEF ViewInv
    <2>5. RowUpdate(i, row(i))
      BY <1>5, <2>4 DEF RowUpdate
    <2>6. approved \subseteq approved'
      BY <1>5
    <2>7. RowShape(w)
      BY <2>1, <2>3, <2>5, <2>6 DEF RowShape
    <2>8. view' = [view EXCEPT ![w] = [Reread(view[w]) EXCEPT ![i] = row(i)]]
      BY <1>5 DEF v
    <2>9. ViewShape(w)
      BY <2>1, <2>3, <2>5, <2>8 DEF ViewShape
    <2>10. QED
      BY <2>7, <2>9
  <1>6. QED
    BY <1>3, <1>4, <1>5

\* How a step changes the rows.
LEMMA RowShapes ==
  ASSUME TypeOK, ParkedInv, ViewInv, OwnRowInv, NEW w \in Workers, AnyStep(w)
  PROVE  RowShape(w)
  <1>1. CASE \/ ExecuteNewRun(w) \/ LoadForDecision(w) \/ LoadForReplay(w) \/ ReplayAll(w)
             \/ RejectRun(w) \/ Reload(w) \/ MarkRunning(w) \/ SkipVisited(w) \/ SkipCompleted(w)
             \/ ParkRun(w) \/ CompleteRun(w) \/ MarkReplayed(w) \/ Dispatch(w)
             \/ StoreOutage(w) \/ RouteToDlq(w) \/ FailRun(w) \/ Crash(w) \/ ResumeFails(w)
    <2>1. UNCHANGED <<steps, approved>>
      BY <1>1 DEF ExecuteNewRun, LoadForDecision, LoadForReplay, ReplayAll, RejectRun, Reload,
         MarkRunning, SkipVisited, SkipCompleted, ParkRun, CompleteRun, MarkReplayed, Dispatch,
         StoreOutage, RouteToDlq, FailRun, Crash, ResumeFails, dbVars, histVars
    <2>2. QED
      BY <2>1 DEF RowShape
  <1>2. CASE ApproveStep(w) \/ RejectStep(w)
    BY <1>2, DecideShape DEF ApproveStep, RejectStep
  <1>3. CASE ParkApprovalStep(w)
    <2>1. PICK n \in Approvals : RecordStep(w, n, "WAITING_APPROVAL")
      BY <1>3 DEF ParkApprovalStep
    <2>2. RowInsert(w, n, "WAITING_APPROVAL") /\ UNCHANGED approved
      BY <2>1 DEF RecordStep, RowInsert, histVars
    <2>3. n \in Nodes /\ "WAITING_APPROVAL" \in StepStatus
      BY NodesAssumption DEF StepStatus
    <2>4. QED
      BY <2>2, <2>3 DEF RowShape
  <1>4. CASE BeginStep(w)
    <2>1. PICK n \in Nodes : RecordStep(w, n, "RUNNING")
      BY <1>4 DEF BeginStep
    <2>2. RowInsert(w, n, "RUNNING") /\ UNCHANGED approved
      BY <2>1 DEF RecordStep, RowInsert, histVars
    <2>3. "RUNNING" \in StepStatus
      BY DEF StepStatus
    <2>4. QED
      BY <2>2, <2>3 DEF RowShape
  <1>5. ASSUME pc[w] \in Busy
        PROVE  /\ cur[w] \in 1 .. Len(steps)
               /\ steps[cur[w]] \in Step
               /\ steps[cur[w]].node \notin Approvals
    BY <1>5 DEF OwnRowInv, TypeOK
  <1>6. ASSUME pc[w] \in Busy, SetStep(w, "FAILED"), UNCHANGED approved
        PROVE  RowShape(w)
    <2> DEFINE row == [steps[cur[w]] EXCEPT !.status = "FAILED"]
    <2>1. steps' = [steps EXCEPT ![cur[w]] = row]
      BY <1>6 DEF SetStep
    <2>2. row \in Step /\ row.node = steps[cur[w]].node /\ row.status = "FAILED"
      BY <1>5, <1>6 DEF Step, StepStatus
    <2> HIDE DEF row
    <2>3. RowUpdate(cur[w], row)
      BY <2>1, <2>2 DEF RowUpdate
    <2>4. QED
      BY <2>2, <2>3, <1>5, <1>6 DEF RowShape
  <1>7. CASE BreakerGuard(w)
    <2>1. UNCHANGED approved /\ pc[w] \in Busy
      BY <1>7 DEF BreakerGuard, histVars, Busy
    <2>2. CASE UNCHANGED steps
      BY <2>1, <2>2 DEF RowShape
    <2>3. CASE SetStep(w, "FAILED")
      BY <2>1, <2>3, <1>6
    <2>4. QED
      BY <1>7, <2>2, <2>3 DEF BreakerGuard
  <1>8. CASE FailStep(w)
    BY <1>8, <1>6 DEF FailStep, histVars, Busy
  <1>9. CASE Snapshot(w)
    <2>1. pc[w] \in Busy /\ UNCHANGED approved
      BY <1>9 DEF Snapshot, Busy, histVars
    <2>2. PICK out \in Outputs :
            steps' = [steps EXCEPT ![cur[w]] =
                        [node |-> steps[cur[w]].node, status |-> "SUCCESS", output |-> out]]
      BY <1>9 DEF Snapshot, Current
    <2> DEFINE row == [node |-> steps[cur[w]].node, status |-> "SUCCESS", output |-> out]
    <2>3. row \in Step
      BY <1>5, <2>1 DEF Step, StepStatus
    <2>4. RowUpdate(cur[w], row)
      BY <1>5, <2>1, <2>2 DEF RowUpdate
    <2>5. QED
      BY <2>1, <2>3, <2>4, <1>5 DEF RowShape
  <1>10. QED
    BY <1>1, <1>2, <1>3, <1>4, <1>7, <1>8, <1>9 DEF AnyStep, Request, Progress

\* How a step changes what the sessions hold of the rows.
LEMMA ViewShapes ==
  ASSUME TypeOK, ParkedInv, ViewInv, NEW w \in Workers, AnyStep(w)
  PROVE  ViewShape(w)
  <1>1. CASE \/ ExecuteNewRun(w) \/ ReplayAll(w) \/ SkipVisited(w) \/ SkipCompleted(w)
             \/ BreakerGuard(w) \/ Dispatch(w) \/ Snapshot(w) \/ FailStep(w) \/ RouteToDlq(w)
    <2>1. UNCHANGED view
      BY <1>1 DEF ExecuteNewRun, ReplayAll, SkipVisited, SkipCompleted, BreakerGuard, Dispatch,
         Snapshot, FailStep, RouteToDlq, reqVars
    <2>2. QED
      BY <2>1 DEF ViewShape
  <1>2. CASE ParkApprovalStep(w) \/ BeginStep(w)
    <2>1. UNCHANGED view
      BY <1>2 DEF ParkApprovalStep, BeginStep, RecordStep
    <2>2. QED
      BY <2>1 DEF ViewShape
  <1>3. CASE \/ RejectRun(w) \/ MarkRunning(w) \/ ParkRun(w) \/ MarkReplayed(w)
             \/ StoreOutage(w) \/ FailRun(w) \/ Crash(w) \/ ResumeFails(w)
    <2>1. view' = [view EXCEPT ![w] = <<>>]
      BY <1>3 DEF RejectRun, MarkRunning, ParkRun, MarkReplayed, StoreOutage, FailRun, Crash, ResumeFails,
         EndRequest
    <2>2. QED
      BY <2>1 DEF ViewShape
  <1>4. CASE CompleteRun(w)
    BY <1>4 DEF CompleteRun, EndRequest, ViewShape
  <1>5. CASE LoadForDecision(w) \/ LoadForReplay(w)
    BY <1>5 DEF LoadForDecision, LoadForReplay, ViewShape, dbVars
  <1>6. CASE Reload(w)
    BY <1>6 DEF Reload, ViewShape, dbVars
  <1>7. CASE ApproveStep(w) \/ RejectStep(w)
    BY <1>7, DecideShape DEF ApproveStep, RejectStep
  <1>8. QED
    BY <1>1, <1>2, <1>3, <1>4, <1>5, <1>6, <1>7 DEF AnyStep, Request, Progress

\* A worker comes to execute a row only by inserting it.
LEMMA OwnShapes ==
  ASSUME TypeOK, NEW w \in Workers, AnyStep(w)
  PROVE  OwnShape(w)
  <1>1. \A u \in Workers \ {w} : pc'[u] = pc[u] /\ cur'[u] = cur[u]
    <2>1. \/ UNCHANGED pc
          \/ \E l : pc' = [pc EXCEPT ![w] = l]
      BY DEF AnyStep, Request, Progress, ExecuteNewRun, Traverse, LoadForDecision,
         LoadForReplay, ReplayAll, ApproveStep, RejectStep, DecideStep, RejectRun, Reload,
         MarkRunning, SkipVisited, SkipCompleted, ParkApprovalStep, ParkRun, BeginStep,
         CompleteRun, MarkReplayed, BreakerGuard, Dispatch, Failed, StoreOutage, Snapshot,
         FailStep, RouteToDlq, FailRun, Crash, ResumeFails, EndRequest, Goto, reqVars
    <2>2. \/ UNCHANGED cur
          \/ \E k : cur' = [cur EXCEPT ![w] = k]
      BY DEF AnyStep, Request, Progress, ExecuteNewRun, LoadForDecision,
         LoadForReplay, ReplayAll, ApproveStep, RejectStep, DecideStep, RejectRun, Reload,
         MarkRunning, SkipVisited, SkipCompleted, ParkApprovalStep, ParkRun, BeginStep,
         CompleteRun, MarkReplayed, BreakerGuard, Dispatch, StoreOutage, Snapshot,
         FailStep, RouteToDlq, FailRun, Crash, ResumeFails, EndRequest, nodeVars
    <2>3. QED
      BY <2>1, <2>2 DEF TypeOK
  <1>2. CASE BeginStep(w)
    BY <1>1, <1>2 DEF BeginStep, RecordStep, OwnShape, TypeOK
  <1>3. CASE \/ SkipVisited(w) \/ SkipCompleted(w) \/ ReplayAll(w)
             \/ BreakerGuard(w) \/ Dispatch(w) \/ FailStep(w) \/ RouteToDlq(w)
    <2>1. pc[w] \in Busy \/ UNCHANGED pc
      BY <1>3 DEF SkipVisited, SkipCompleted, ReplayAll, BreakerGuard, Dispatch, FailStep,
         RouteToDlq, reqVars, Busy
    <2>2. UNCHANGED cur
      BY <1>3 DEF SkipVisited, SkipCompleted, ReplayAll, BreakerGuard, Dispatch, FailStep,
         RouteToDlq, nodeVars
    <2>3. QED
      BY <1>1, <2>1, <2>2 DEF OwnShape
  <1>4. CASE \/ ExecuteNewRun(w) \/ LoadForDecision(w) \/ LoadForReplay(w)
             \/ ApproveStep(w) \/ RejectStep(w) \/ RejectRun(w) \/ Reload(w) \/ MarkRunning(w)
             \/ ParkApprovalStep(w) \/ ParkRun(w) \/ CompleteRun(w) \/ MarkReplayed(w)
             \/ StoreOutage(w) \/ Snapshot(w) \/ FailRun(w) \/ Crash(w) \/ ResumeFails(w)
    <2>1. pc'[w] \notin Busy
      BY <1>4 DEF ExecuteNewRun, Traverse, LoadForDecision,
         LoadForReplay, ApproveStep, RejectStep, DecideStep, RejectRun, Reload,
         MarkRunning, ParkApprovalStep, ParkRun, CompleteRun, MarkReplayed, StoreOutage,
         Snapshot, FailRun, Crash, ResumeFails, EndRequest, Goto, TypeOK, Busy
    <2>2. QED
      BY <1>1, <2>1 DEF OwnShape
  <1>5. QED
    BY <1>2, <1>3, <1>4 DEF AnyStep, Request, Progress

\* How a step changes the queues.
LEMMA QueueShapes ==
  ASSUME TypeOK, NEW w \in Workers, AnyStep(w)
  PROVE  QueueShape(w)
  <1>1. CASE \/ LoadForDecision(w) \/ LoadForReplay(w) \/ ReplayAll(w)
             \/ ApproveStep(w) \/ RejectStep(w) \/ Reload(w) \/ BreakerGuard(w) \/ Dispatch(w)
             \/ FailStep(w) \/ RouteToDlq(w)
    <2>1. UNCHANGED queue
      BY <1>1 DEF LoadForDecision, LoadForReplay, ReplayAll, ApproveStep, RejectStep, DecideStep,
         Reload, BreakerGuard, Dispatch, FailStep, RouteToDlq, travVars
    <2>2. QED
      BY <2>1 DEF QueueShape
  <1>2. CASE \/ RejectRun(w) \/ ParkRun(w) \/ MarkReplayed(w)
             \/ StoreOutage(w) \/ FailRun(w) \/ Crash(w) \/ ResumeFails(w)
    <2>1. queue' = [queue EXCEPT ![w] = <<>>]
      BY <1>2 DEF RejectRun, ParkRun, MarkReplayed, StoreOutage, FailRun, Crash, ResumeFails, EndRequest
    <2>2. QED
      BY <2>1 DEF QueueShape
  <1>3. CASE ExecuteNewRun(w) \/ MarkRunning(w)
    BY <1>3 DEF ExecuteNewRun, MarkRunning, Traverse, QueueShape
  <1>4. CASE CompleteRun(w)
    BY <1>4 DEF CompleteRun, EndRequest, QueueShape, travVars
  <1>5. CASE SkipVisited(w)
    BY <1>5 DEF SkipVisited, AtHead, QueueShape
  <1>6. CASE ParkApprovalStep(w) \/ BeginStep(w)
    <2>1. queue[w] # <<>> /\ queue' = [queue EXCEPT ![w] = Tail(queue[w])]
      BY <1>6 DEF ParkApprovalStep, BeginStep, RecordStep, AtHead
    <2>2. QED
      BY <2>1 DEF QueueShape
  <1>7. CASE SkipCompleted(w)
    BY <1>7 DEF SkipCompleted, QueueShape
  <1>8. CASE Snapshot(w)
    <2>1. \E c : queue' = [queue EXCEPT ![w] = queue[w] \o Successors(Current(w), c)]
      BY <1>8 DEF Snapshot
    <2>2. pc[w] \in Busy
      BY <1>8 DEF Snapshot, Busy
    <2>3. QED
      BY <2>1, <2>2 DEF QueueShape
  <1>9. QED
    BY <1>1, <1>2, <1>3, <1>4, <1>5, <1>6, <1>7, <1>8 DEF AnyStep, Request, Progress

\* How a step changes the contexts.
LEMMA ContextShapes ==
  ASSUME TypeOK, NEW w \in Workers, AnyStep(w)
  PROVE  ContextShape(w)
  <1>1. CASE \/ LoadForDecision(w) \/ LoadForReplay(w) \/ ReplayAll(w)
             \/ ApproveStep(w) \/ RejectStep(w) \/ Reload(w) \/ BreakerGuard(w) \/ Dispatch(w)
             \/ FailStep(w) \/ RouteToDlq(w) \/ SkipVisited(w) \/ SkipCompleted(w)
             \/ ParkApprovalStep(w) \/ BeginStep(w)
    <2>1. UNCHANGED ctx
      BY <1>1 DEF LoadForDecision, LoadForReplay, ReplayAll, ApproveStep, RejectStep, DecideStep,
         Reload, BreakerGuard, Dispatch, FailStep, RouteToDlq, SkipVisited, SkipCompleted,
         ParkApprovalStep, BeginStep, RecordStep, travVars
    <2>2. QED
      BY <2>1 DEF ContextShape
  <1>2. CASE \/ ExecuteNewRun(w) \/ RejectRun(w) \/ ParkRun(w) \/ MarkReplayed(w)
             \/ StoreOutage(w) \/ FailRun(w) \/ Crash(w) \/ ResumeFails(w)
    <2>1. ctx' = [ctx EXCEPT ![w] = EmptyContext]
      BY <1>2 DEF ExecuteNewRun, Traverse, RejectRun, ParkRun, MarkReplayed, StoreOutage,
         FailRun, Crash, ResumeFails, EndRequest
    <2>2. QED
      BY <2>1 DEF ContextShape
  <1>3. CASE MarkRunning(w)
    BY <1>3 DEF MarkRunning, Traverse, ContextShape
  <1>4. CASE CompleteRun(w)
    BY <1>4 DEF CompleteRun, EndRequest, ContextShape, travVars
  <1>5. CASE Snapshot(w)
    BY <1>5 DEF Snapshot, Busy, ContextShape
  <1>6. QED
    BY <1>1, <1>2, <1>3, <1>4, <1>5 DEF AnyStep, Request, Progress

\* An effect is the effect of the row the worker executes.
LEMMA EffectShapes ==
  ASSUME TypeOK, NEW w \in Workers, AnyStep(w)
  PROVE  EffectShape(w)
  <1>1. CASE Dispatch(w)
    BY <1>1 DEF Dispatch, Busy, EffectShape
  <1>2. CASE StoreOutage(w)
    BY <1>2 DEF StoreOutage, Busy, EffectShape
  <1>3. CASE ~ Dispatch(w) /\ ~ StoreOutage(w)
    <2>1. UNCHANGED effects
      BY <1>3 DEF AnyStep, Request, Progress, ExecuteNewRun, LoadForDecision,
         LoadForReplay, ReplayAll, ApproveStep, RejectStep, DecideStep, RejectRun, Reload,
         MarkRunning, SkipVisited, SkipCompleted, ParkApprovalStep, ParkRun, BeginStep,
         RecordStep, CompleteRun, MarkReplayed, BreakerGuard, Snapshot,
         FailStep, RouteToDlq, FailRun, Crash, ResumeFails, histVars
    <2>2. QED
      BY <2>1 DEF EffectShape
  <1>4. QED
    BY <1>1, <1>2, <1>3
-----------------------------------------------------------------------------
(* The invariant is preserved *)

\* Rows are never removed and never change their node; every row of the next
\* state is an old row, an inserted one or a rewritten one.
LEMMA RowFacts ==
  ASSUME TypeOK, NEW w \in Workers, RowShape(w)
  PROVE  /\ Len(steps') \in Nat /\ Len(steps) <= Len(steps')
         /\ \A i \in 1 .. Len(steps) : steps'[i].node = steps[i].node
         /\ \A i \in 1 .. Len(steps') :
              \/ i \in 1 .. Len(steps) /\ steps'[i] = steps[i]
              \/ /\ i \in 1 .. Len(steps)
                 /\ steps'[i].status # "WAITING_APPROVAL"
                 /\ steps'[i].status = "SUCCESS" /\ steps'[i].node \in Approvals
                      => steps'[i].node \in approved'
              \/ /\ i = Len(steps) + 1
                 /\ steps'[i].status # "SUCCESS"
                 /\ steps'[i].status = "WAITING_APPROVAL" => steps'[i].node \in Approvals
                 /\ AtHead(w, steps'[i].node)
  <1>1. Len(steps) \in Nat /\ steps \in Seq(Step)
    BY DEF TypeOK
  <1>2. CASE UNCHANGED steps
    BY <1>1, <1>2
  <1>3. ASSUME NEW n \in Nodes, NEW s \in StepStatus, RowInsert(w, n, s)
        PROVE  /\ Len(steps') = Len(steps) + 1
               /\ \A i \in 1 .. Len(steps) : steps'[i] = steps[i]
               /\ steps'[Len(steps) + 1] = [node |-> n, status |-> s, output |-> NoOutput]
    BY <1>1, <1>3 DEF RowInsert
  <1>4. ASSUME NEW i \in 1 .. Len(steps), NEW row \in Step, RowUpdate(i, row)
        PROVE  /\ Len(steps') = Len(steps)
               /\ \A j \in 1 .. Len(steps) : j # i => steps'[j] = steps[j]
               /\ steps'[i] = row
    BY <1>1, <1>4 DEF RowUpdate
  <1>5. CASE \E n \in Nodes : \E s \in StepStatus : RowInsert(w, n, s)
    <2>1. PICK n \in Nodes, s \in StepStatus : RowInsert(w, n, s)
      BY <1>5
    <2> DEFINE k == Len(steps) + 1
    <2>2. /\ steps'[k].node = n /\ steps'[k].status = s
          /\ s # "SUCCESS" /\ (s = "WAITING_APPROVAL" => n \in Approvals) /\ AtHead(w, n)
      BY <1>3, <2>1 DEF RowInsert
    <2>3. k = Len(steps) + 1 /\ Len(steps') = k /\ \A i \in 1 .. Len(steps) : steps'[i] = steps[i]
      BY <1>3, <2>1
    <2> HIDE DEF k
    <2>4. k \in Nat /\ Len(steps) <= k /\ \A i \in 1 .. k : i \in 1 .. Len(steps) \/ i = k
      BY <1>1, <2>3
    <2>5. QED
      BY <1>1, <2>2, <2>3, <2>4
  <1>6. CASE \E i \in 1 .. Len(steps) : \E row \in Step : RowUpdate(i, row)
    <2>1. PICK i \in 1 .. Len(steps), row \in Step : RowUpdate(i, row)
      BY <1>6
    <2>2. /\ row.node = steps[i].node /\ row.status # "WAITING_APPROVAL"
          /\ row.status = "SUCCESS" /\ row.node \in Approvals => row.node \in approved'
      BY <2>1 DEF RowUpdate
    <2>3. QED
      BY <1>1, <1>4, <2>1, <2>2
  <1>7. QED
    BY <1>2, <1>5, <1>6 DEF RowShape

\* Every row a session holds is one it held, one of the table, or the one it
\* has just rewritten.
LEMMA ViewFacts ==
  ASSUME TypeOK, ViewInv, NEW w \in Workers, RowShape(w), ViewShape(w), NEW u \in Workers
  PROVE  /\ Len(view'[u]) <= Len(steps')
         /\ \A i \in 1 .. Len(view'[u]) :
              /\ view'[u][i].node = steps'[i].node
              /\ \/ i \in 1 .. Len(view[u]) /\ view'[u][i] = view[u][i]
                 \/ i \in 1 .. Len(steps') /\ view'[u][i] = steps'[i]
  <1>1. /\ Len(steps) \in Nat /\ Len(view[u]) \in Nat /\ view[w] \in Seq(Step)
        /\ steps \in Seq(Step) /\ view[u] \in Seq(Step)
    BY DEF TypeOK
  <1>2. /\ Len(steps') \in Nat /\ Len(steps) <= Len(steps')
        /\ \A i \in 1 .. Len(steps) : steps'[i].node = steps[i].node
    BY RowFacts
  <1>3. /\ Len(view[u]) <= Len(steps)
        /\ \A i \in 1 .. Len(view[u]) : view[u][i].node = steps[i].node
    BY DEF ViewInv
  <1>4. CASE view'[u] = view[u]
    BY <1>1, <1>2, <1>3, <1>4
  <1>5. CASE view'[u] = <<>>
    BY <1>1, <1>2, <1>5
  <1>6. CASE view'[u] = steps /\ UNCHANGED steps
    BY <1>1, <1>6
  <1>7. CASE view'[u] = Reread(view[u]) /\ UNCHANGED steps
    BY <1>1, <1>3, <1>7, RereadFacts
  <1>8. ASSUME NEW i \in 1 .. Len(steps), NEW row \in Step, RowUpdate(i, row),
               view'[u] = [Reread(view[u]) EXCEPT ![i] = row]
        PROVE  /\ Len(view'[u]) <= Len(steps')
               /\ \A j \in 1 .. Len(view'[u]) :
                    /\ view'[u][j].node = steps'[j].node
                    /\ \/ j \in 1 .. Len(view[u]) /\ view'[u][j] = view[u][j]
                       \/ j \in 1 .. Len(steps') /\ view'[u][j] = steps'[j]
    <2>1. /\ Len(steps') = Len(steps) /\ steps'[i] = row
          /\ \A j \in 1 .. Len(steps) : j # i => steps'[j] = steps[j]
      BY <1>1, <1>8 DEF RowUpdate
    <2>2. /\ Reread(view[u]) \in Seq(Step)
          /\ Len(Reread(view[u])) = Len(steps)
          /\ \A j \in 1 .. Len(steps) :
                Reread(view[u])[j] = IF j \in 1 .. Len(view[u]) THEN view[u][j] ELSE steps[j]
      BY <1>1, RereadFacts
    <2>3. /\ Len(view'[u]) = Len(steps) /\ view'[u][i] = row
          /\ \A j \in 1 .. Len(steps) : j # i => view'[u][j] = Reread(view[u])[j]
      BY <1>8, <2>2
    <2>4. QED
      BY <1>1, <1>2, <1>3, <2>1, <2>2, <2>3
  <1>9. QED
    <2>1. CASE u # w
      <3>1. view'[u] = view[u]
        BY <2>1 DEF ViewShape, TypeOK
      <3>2. QED
        BY <3>1, <1>4
    <2>2. CASE u = w
      <3>1. CASE \E i \in 1 .. Len(steps) : \E row \in Step :
                   RowUpdate(i, row) /\ view' = [view EXCEPT ![w] = [Reread(view[w]) EXCEPT ![i] = row]]
        <4>1. PICK i \in 1 .. Len(steps), row \in Step :
                RowUpdate(i, row) /\ view' = [view EXCEPT ![w] = [Reread(view[w]) EXCEPT ![i] = row]]
          BY <3>1
        <4>2. view'[u] = [Reread(view[u]) EXCEPT ![i] = row]
          BY <2>2, <4>1 DEF TypeOK
        <4>3. QED
          BY <4>1, <4>2, <1>8
      <3>2. CASE ~ \E i \in 1 .. Len(steps) : \E row \in Step :
                   RowUpdate(i, row) /\ view' = [view EXCEPT ![w] = [Reread(view[w]) EXCEPT ![i] = row]]
        <4>1. \/ view'[u] = view[u] \/ view'[u] = <<>>
              \/ view'[u] = steps /\ UNCHANGED steps
              \/ view'[u] = Reread(view[u]) /\ UNCHANGED steps
          BY <2>2, <3>2 DEF ViewShape, TypeOK
        <4>2. QED
          BY <4>1, <1>4, <1>5, <1>6, <1>7
      <3>3. QED
        BY <3>1, <3>2
    <2>3. QED
      BY <2>1, <2>2

\* Parked rows stay rows of approvals, and sessions keep a prefix of the rows.
LEMMA RowInvariants ==
  ASSUME TypeOK, ParkedInv, ViewInv, NEW w \in Workers, RowShape(w), ViewShape(w)
  PROVE  ParkedInv' /\ ViewInv'
  <1>1. \A i \in 1 .. Len(steps') :
          steps'[i].status = "WAITING_APPROVAL" => steps'[i].node \in Approvals
    BY RowFacts DEF ParkedInv
  <1>2. ASSUME NEW u \in Workers
        PROVE  /\ Len(view'[u]) <= Len(steps')
               /\ \A i \in 1 .. Len(view'[u]) :
                    /\ view'[u][i].node = steps'[i].node
                    /\ view'[u][i].status = "WAITING_APPROVAL" => view'[u][i].node \in Approvals
    <2>1. /\ Len(view'[u]) <= Len(steps')
          /\ \A i \in 1 .. Len(view'[u]) :
               /\ view'[u][i].node = steps'[i].node
               /\ \/ i \in 1 .. Len(view[u]) /\ view'[u][i] = view[u][i]
                  \/ i \in 1 .. Len(steps') /\ view'[u][i] = steps'[i]
      BY ViewFacts
    <2>2. QED
      BY <1>1, <2>1 DEF ParkedInv
  <1>3. ViewInv'
    BY <1>2 DEF ViewInv
  <1>4. QED
    BY <1>1, <1>2, <1>3 DEF ParkedInv

\* The row a worker executes stays in place and is never an approval's.
LEMMA OwnRowStep ==
  ASSUME TypeOK, OwnRowInv, NEW w \in Workers, RowShape(w), OwnShape(w)
  PROVE  OwnRowInv'
  <1> SUFFICES ASSUME NEW u \in Workers, pc'[u] \in Busy
               PROVE  cur'[u] \in 1 .. Len(steps') /\ steps'[cur'[u]].node \notin Approvals
    BY DEF OwnRowInv
  <1>1. /\ Len(steps) \in Nat /\ Len(steps') \in Nat /\ Len(steps) <= Len(steps')
        /\ \A i \in 1 .. Len(steps) : steps'[i].node = steps[i].node
    <2>1. Len(steps) \in Nat
      BY DEF TypeOK
    <2>2. QED
      BY <2>1, RowFacts
  <1>2. CASE pc[u] \in Busy /\ cur'[u] = cur[u]
    BY <1>1, <1>2 DEF OwnRowInv
  <1>3. ASSUME NEW n \in Nodes \ Approvals, cur'[u] = Len(steps) + 1,
               steps' = Append(steps, [node |-> n, status |-> "RUNNING", output |-> NoOutput])
        PROVE  cur'[u] \in 1 .. Len(steps') /\ steps'[cur'[u]].node \notin Approvals
    <2>1. /\ Len(steps') = Len(steps) + 1
          /\ steps'[Len(steps) + 1] = [node |-> n, status |-> "RUNNING", output |-> NoOutput]
      BY <1>3 DEF TypeOK
    <2>2. QED
      BY <1>1, <1>3, <2>1
  <1>4. QED
    BY <1>2, <1>3 DEF OwnShape

\* Entries queued after a node that does not lie behind gate a, and is not a,
\* do not lie behind gate a.
LEMMA SuccessorsStayOutside ==
  ASSUME NEW a \in Approvals, NEW n \in Nodes, n # a, n \notin Gated[a], NEW c
  PROVE  \A i \in 1 .. Len(Successors(n, c)) : Successors(n, c)[i] \notin Gated[a]
  <1>1. /\ Len(Successors(n, c)) = Len(Out[n])
        /\ \A i \in 1 .. Len(Out[n]) :
              Successors(n, c)[i] = n \/ Successors(n, c)[i] = Out[n][i].target
    BY SuccessorsType
  <1>2. \A i \in 1 .. Len(Out[n]) : Out[n][i].target \notin Gated[a]
    BY GateAssumption
  <1>3. QED
    BY <1>1, <1>2

\* Concatenation keeps a sequence outside a set.
LEMMA ConcatOutside ==
  ASSUME NEW G, NEW s \in Seq(Nodes), NEW t \in Seq(Nodes),
         \A i \in 1 .. Len(s) : s[i] \notin G,
         \A i \in 1 .. Len(t) : t[i] \notin G
  PROVE  \A i \in 1 .. Len(s \o t) : (s \o t)[i] \notin G
  <1> SUFFICES ASSUME NEW i \in 1 .. Len(s \o t) PROVE (s \o t)[i] \notin G
    OBVIOUS
  <1>1. Len(s) \in Nat /\ Len(t) \in Nat /\ Len(s \o t) = Len(s) + Len(t)
    OBVIOUS
  <1>2. CASE i <= Len(s)
    <2>1. i \in 1 .. Len(s) /\ (s \o t)[i] = s[i]
      BY <1>1, <1>2
    <2>2. QED
      BY <2>1
  <1>3. CASE i > Len(s)
    <2>1. i - Len(s) \in 1 .. Len(t) /\ (s \o t)[i] = t[i - Len(s)]
      BY <1>1, <1>3
    <2>2. QED
      BY <2>1
  <1>4. QED
    BY <1>1, <1>2, <1>3

\* Dropping the head keeps a sequence outside a set.
LEMMA TailOutside ==
  ASSUME NEW G, NEW s \in Seq(Nodes), s # <<>>, \A i \in 1 .. Len(s) : s[i] \notin G
  PROVE  Tail(s) \in Seq(Nodes) /\ \A i \in 1 .. Len(Tail(s)) : Tail(s)[i] \notin G
  <1>1. /\ Tail(s) \in Seq(Nodes) /\ Len(s) \in Nat /\ Len(Tail(s)) = Len(s) - 1
        /\ \A i \in 1 .. Len(Tail(s)) : Tail(s)[i] = s[i + 1]
    OBVIOUS
  <1>2. \A i \in 1 .. Len(Tail(s)) : i + 1 \in 1 .. Len(s)
    BY <1>1
  <1>3. QED
    BY <1>1, <1>2

\* A closed gate stays closed unless its approval is given.
LEMMA GateStep ==
  ASSUME TypeOK, ParkedInv, ViewInv, OwnRowInv, GateInv, NEW w \in Workers,
         RowShape(w), ViewShape(w), QueueShape(w), ContextShape(w), EffectShape(w)
  PROVE  GateInv'
  <1> SUFFICES ASSUME NEW a \in Approvals, a \notin approved'
               PROVE  Closed(a)'
    BY DEF GateInv
  <1>1. a \notin approved /\ Closed(a)
    BY DEF RowShape, GateInv
  <1>2. a \in Nodes /\ a \notin Gated[a] /\ Gated[a] \subseteq Nodes
    BY GateAssumption, NodesAssumption
  <1>3. ASSUME NEW n, AtHead(w, n)
        PROVE  n \notin Gated[a]
    <2>1. queue[w] \in Seq(Nodes) /\ queue[w] # <<>> /\ n = queue[w][1]
      BY <1>3 DEF AtHead, TypeOK
    <2>2. 1 \in 1 .. Len(queue[w])
      BY <2>1
    <2>3. QED
      BY <1>1, <2>1, <2>2 DEF Closed
  <1>4. ASSUME pc[w] \in Busy
        PROVE  Current(w) \in Nodes /\ Current(w) # a /\ Current(w) \notin Gated[a]
    <2>1. cur[w] \in 1 .. Len(steps) /\ Current(w) \notin Approvals
      BY <1>4 DEF OwnRowInv, Current
    <2>2. steps[cur[w]] \in Step
      BY <2>1 DEF TypeOK
    <2>3. Current(w) \in Nodes
      BY <2>2 DEF Step, Current
    <2>4. QED
      BY <1>1, <2>1, <2>3 DEF Closed, Current
  <1>5. \A i \in 1 .. Len(steps') :
          /\ steps'[i].node \notin Gated[a]
          /\ steps'[i].node = a => steps'[i].status # "SUCCESS"
    <2>1. SUFFICES ASSUME NEW i \in 1 .. Len(steps')
                   PROVE  /\ steps'[i].node \notin Gated[a]
                          /\ steps'[i].node = a => steps'[i].status # "SUCCESS"
      OBVIOUS
    <2>2. /\ \A j \in 1 .. Len(steps) : steps'[j].node = steps[j].node
          /\ \/ i \in 1 .. Len(steps) /\ steps'[i] = steps[i]
             \/ /\ i \in 1 .. Len(steps)
                /\ steps'[i].status = "SUCCESS" /\ steps'[i].node \in Approvals
                     => steps'[i].node \in approved'
             \/ steps'[i].status # "SUCCESS" /\ AtHead(w, steps'[i].node)
      BY RowFacts
    <2>3. QED
      BY <1>1, <1>3, <2>2 DEF Closed
  <1>6. ASSUME NEW u \in Workers
        PROVE  \A i \in 1 .. Len(view'[u]) :
                 view'[u][i].node = a => view'[u][i].status # "SUCCESS"
    <2>1. \A i \in 1 .. Len(view'[u]) :
            \/ i \in 1 .. Len(view[u]) /\ view'[u][i] = view[u][i]
            \/ i \in 1 .. Len(steps') /\ view'[u][i] = steps'[i]
      BY ViewFacts
    <2>2. QED
      BY <1>1, <1>5, <2>1 DEF Closed
  <1>7. ASSUME NEW u \in Workers
        PROVE  \A i \in 1 .. Len(queue'[u]) : queue'[u][i] \notin Gated[a]
    <2>1. /\ queue[u] \in Seq(Nodes)
          /\ \A i \in 1 .. Len(queue[u]) : queue[u][i] \notin Gated[a]
      BY <1>1 DEF Closed, TypeOK
    <2>2. CASE queue'[u] = queue[u]
      BY <2>1, <2>2
    <2>3. CASE queue'[u] = <<>>
      BY <2>3
    <2>4. CASE queue'[u] = StartNodes
      BY <2>4, GateAssumption
    <2>5. CASE queue[u] # <<>> /\ queue'[u] = Tail(queue[u])
      BY <2>1, <2>5, TailOutside
    <2>6. ASSUME NEW n \in Nodes, NEW c, n # a, n \notin Gated[a],
                 \/ queue[u] # <<>> /\ queue'[u] = Tail(queue[u]) \o Successors(n, c)
                 \/ queue'[u] = queue[u] \o Successors(n, c)
          PROVE  \A i \in 1 .. Len(queue'[u]) : queue'[u][i] \notin Gated[a]
      <3> DEFINE t == Successors(n, c)
      <3>1. t \in Seq(Nodes) /\ \A i \in 1 .. Len(t) : t[i] \notin Gated[a]
        BY <2>6, SuccessorsType, SuccessorsStayOutside
      <3> HIDE DEF t
      <3>2. CASE queue'[u] = queue[u] \o t
        BY <2>1, <3>1, <3>2, ConcatOutside
      <3>3. CASE queue[u] # <<>> /\ queue'[u] = Tail(queue[u]) \o t
        <4>1. /\ Tail(queue[u]) \in Seq(Nodes)
              /\ \A i \in 1 .. Len(Tail(queue[u])) : Tail(queue[u])[i] \notin Gated[a]
          BY <2>1, <3>3, TailOutside
        <4>2. QED
          BY <3>1, <3>3, <4>1, ConcatOutside
      <3>4. QED
        BY <2>6, <3>2, <3>3 DEF t
    <2>7. CASE u # w
      <3>1. queue'[u] = queue[u]
        BY <2>7 DEF QueueShape, TypeOK
      <3>2. QED
        BY <3>1, <2>2
    <2>8. CASE u = w
      <3>1. CASE UNCHANGED queue
        BY <2>2, <3>1
      <3>2. CASE queue' = [queue EXCEPT ![w] = <<>>]
        BY <2>3, <2>8, <3>2 DEF TypeOK
      <3>3. CASE queue' = [queue EXCEPT ![w] = StartNodes]
        BY <2>4, <2>8, <3>3 DEF TypeOK
      <3>4. CASE queue[w] # <<>> /\ queue' = [queue EXCEPT ![w] = Tail(queue[w])]
        BY <2>5, <2>8, <3>4 DEF TypeOK
      <3>5. ASSUME NEW n \in Nodes, NEW c, AtHead(w, n), ctx[w][n] # NoOutput,
                   queue' = [queue EXCEPT ![w] = Tail(queue[w]) \o Successors(n, c)]
            PROVE  \A i \in 1 .. Len(queue'[u]) : queue'[u][i] \notin Gated[a]
        <4>1. n # a /\ n \notin Gated[a]
          BY <1>1, <3>5 DEF Closed
        <4>2. queue[u] # <<>> /\ queue'[u] = Tail(queue[u]) \o Successors(n, c)
          BY <2>8, <3>5 DEF AtHead, TypeOK
        <4>3. QED
          BY <2>6, <4>1, <4>2
      <3>6. ASSUME NEW c, pc[w] \in Busy,
                   queue' = [queue EXCEPT ![w] = queue[w] \o Successors(Current(w), c)]
            PROVE  \A i \in 1 .. Len(queue'[u]) : queue'[u][i] \notin Gated[a]
        <4>1. Current(w) \in Nodes /\ Current(w) # a /\ Current(w) \notin Gated[a]
          BY <1>4, <3>6
        <4>2. queue'[u] = queue[u] \o Successors(Current(w), c)
          BY <2>8, <3>6 DEF TypeOK
        <4>3. QED
          BY <2>6, <4>1, <4>2
      <3>7. QED
        BY <3>1, <3>2, <3>3, <3>4, <3>5, <3>6 DEF QueueShape
    <2>9. QED
      BY <2>7, <2>8
  <1>8. ASSUME NEW u \in Workers, NEW n \in Gated[a] \cup {a}
        PROVE  ctx'[u][n] = NoOutput
    <2>1. n \in Nodes /\ ctx[u][n] = NoOutput /\ ctx \in [Workers -> Context]
      BY <1>1, <1>2 DEF Closed, TypeOK
    <2>2. ContextOf(view[w])[n] = NoOutput
      <3>1. \A i \in 1 .. Len(view[w]) : ~ (view[w][i].node = n /\ view[w][i].status = "SUCCESS")
        BY <1>1 DEF Closed, ViewInv, TypeOK
      <3>2. view[w] \in Seq(Step)
        BY DEF TypeOK
      <3>3. QED
        BY <2>1, <3>1, <3>2, ContextOfFacts
    <2>3. EmptyContext[n] = NoOutput
      BY <2>1 DEF EmptyContext
    <2>4. CASE UNCHANGED ctx
      BY <2>1, <2>4
    <2>5. CASE ctx' = [ctx EXCEPT ![w] = EmptyContext]
      BY <2>1, <2>3, <2>5
    <2>6. CASE ctx' = [ctx EXCEPT ![w] = ContextOf(view[w])]
      BY <2>1, <2>2, <2>6
    <2>7. ASSUME NEW out \in Outputs, pc[w] \in Busy,
                 ctx' = [ctx EXCEPT ![w] = [ctx[w] EXCEPT ![Current(w)] = out]]
          PROVE  ctx'[u][n] = NoOutput
      <3>1. n # Current(w)
        BY <1>4, <2>7
      <3>2. QED
        BY <2>1, <2>7, <3>1 DEF Context
    <2>8. QED
      BY <2>4, <2>5, <2>6, <2>7 DEF ContextShape
  <1>9. \A n \in Gated[a] : effects'[n] = 0
    <2>1. CASE UNCHANGED effects
      BY <1>1, <2>1 DEF Closed
    <2>2. CASE pc[w] \in Busy /\ effects' = [effects EXCEPT ![Current(w)] = @ + 1]
      BY <1>1, <1>2, <1>4, <2>2 DEF Closed, TypeOK
    <2>3. QED
      BY <2>1, <2>2 DEF EffectShape
  <1>10. QED
    BY <1>5, <1>6, <1>7, <1>8, <1>9 DEF Closed

\* The initial state satisfies the invariant.
LEMMA InitInv == Init => IInv
  <1> SUFFICES ASSUME Init PROVE IInv
    OBVIOUS
  <1>1. TypeOK
    <2>1. "NONE" \in RunStatus /\ "idle" \in Labels
      BY DEF RunStatus, Labels
    <2>2. 1 \in 1 .. MaxAttempts /\ 0 \in 0 .. MaxRequests
      BY BoundsAssumption
    <2>3. QED
      BY <2>1, <2>2, EmptyContextType DEF Init, TypeOK
  <1>2. ParkedInv /\ ViewInv
    BY DEF Init, ParkedInv, ViewInv
  <1>3. OwnRowInv
    BY DEF Init, OwnRowInv, Busy
  <1>4. GateInv
    <2> SUFFICES ASSUME NEW a \in Approvals PROVE Closed(a)
      BY DEF GateInv
    <2>1. a \in Nodes /\ Gated[a] \subseteq Nodes
      BY GateAssumption, NodesAssumption
    <2>2. QED
      BY <2>1 DEF Init, Closed, EmptyContext
  <1>5. QED
    BY <1>1, <1>2, <1>3, <1>4 DEF IInv

\* Every step preserves the invariant.
LEMMA NextInv == IInv /\ [Next]_vars => IInv'
  <1> SUFFICES ASSUME IInv, [Next]_vars PROVE IInv'
    OBVIOUS
  <1> USE DEF IInv
  <1>1. ASSUME NEW w \in Workers, AnyStep(w)
        PROVE  IInv'
    <2>1. TypeOK'
      <3>1. CASE Crash(w)
        BY <3>1, EndRequestType DEF Crash, TypeOK, LocalTypeOK, dbVars, histVars
      <3>2. QED
        BY <1>1, <3>1, RequestType, ProgressType DEF AnyStep
    <2>2. /\ RowShape(w) /\ ViewShape(w) /\ OwnShape(w)
          /\ QueueShape(w) /\ ContextShape(w) /\ EffectShape(w)
      BY <1>1, RowShapes, ViewShapes, OwnShapes, QueueShapes, ContextShapes, EffectShapes
    <2>3. ParkedInv' /\ ViewInv'
      BY <2>2, RowInvariants
    <2>4. OwnRowInv'
      BY <2>2, OwnRowStep
    <2>5. GateInv'
      BY <2>2, GateStep
    <2>6. QED
      BY <2>1, <2>3, <2>4, <2>5
  <1>2. CASE Next
    BY <1>1, <1>2 DEF Next, AnyStep
  <1>3. CASE UNCHANGED vars
    <2>1. UNCHANGED <<status, steps, dlq, pc, seen, view, queue, visited, ctx, cur, attempt,
                      item, effects, approved, requests>>
      BY <1>3 DEF vars, dbVars, travVars, nodeVars, reqVars, histVars
    <2>2. TypeOK' /\ ParkedInv' /\ ViewInv' /\ OwnRowInv'
      BY <2>1 DEF TypeOK, ParkedInv, ViewInv, OwnRowInv
    <2>3. GateInv'
      BY <2>1 DEF GateInv, Closed
    <2>4. QED
      BY <2>2, <2>3
  <1>4. QED
    BY <1>2, <1>3

\* A closed gate has no effect behind it.
LEMMA InvGate == IInv => GateSafety
  <1> SUFFICES ASSUME IInv, NEW a \in Approvals, NEW n \in Gated[a], effects[n] > 0
               PROVE  a \in approved
    BY DEF GateSafety
  <1>1. CASE a \notin approved
    BY <1>1 DEF IInv, GateInv, Closed
  <1>2. QED
    BY <1>1

\* Every behaviour of the engine is well typed: step rows hold nodes of the
\* definition, attempts stay within retry.max_attempts, contexts hold outputs.
THEOREM TypeCorrect == Spec => []TypeOK
  <1>1. IInv => TypeOK
    BY DEF IInv
  <1>2. QED
    BY InitInv, NextInv, <1>1, PTL DEF Spec

\* Approval gates hold for every workflow graph, any number of requests, and any
\* interleaving of decisions, replays, crashes and state store faults.
THEOREM GateCorrect == Spec => []GateSafety
  BY InitInv, NextInv, InvGate, PTL DEF Spec
-----------------------------------------------------------------------------
(* Failed runs and their dead letters *)

\* Labels at which the row a worker executes has no outcome yet.
Owning == Busy \ {"deadLetter"}

\* Some dead letter is that of a node with a FAILED row.
Lettered ==
    \E d \in 1 .. Len(dlq), i \in 1 .. Len(steps) :
       steps[i].node = dlq[d].node /\ steps[i].status = "FAILED"

\* Every worker executes a row of its own, which is RUNNING until the worker has
\* written its outcome; only executed rows fail; a run fails after its letter.
FailInv ==
    /\ \A i \in 1 .. Len(steps) : steps[i].status = "FAILED" => steps[i].node \notin Approvals
    /\ \A u, w \in Workers : pc[u] \in Busy /\ pc[w] \in Busy /\ cur[u] = cur[w] => u = w
    /\ \A w \in Workers : pc[w] \in Owning => steps[cur[w]].status = "RUNNING"
    /\ \A w \in Workers : pc[w] = "deadLetter" => steps[cur[w]].status = "FAILED"
    /\ status = "FAILED" \/ (\E w \in Workers : pc[w] = "failRun") => Lettered

\* Who writes which row: a worker inserts a row at the head of its queue, decides
\* an approval's row, or writes the outcome of the row it executes.
WriterShape(w) ==
    \/ UNCHANGED steps
    \/ \E n \in Nodes : \E s \in StepStatus : RowInsert(w, n, s)
    \/ \E i \in 1 .. Len(steps) : \E row \in Step :
          /\ RowUpdate(i, row) /\ steps[i].node \in Approvals
          /\ row.status # "FAILED" /\ pc'[w] \notin Busy
    \/ \E row \in Step :
          /\ pc[w] \in Owning /\ RowUpdate(cur[w], row)
          /\ \/ row.status = "FAILED" /\ pc'[w] = "deadLetter" /\ cur'[w] = cur[w]
             \/ row.status = "SUCCESS" /\ pc'[w] \notin Busy

\* A worker gets from one label of an execution to the next with its own row.
PhaseShape(w) ==
    \/ pc'[w] \notin Busy
    \/ /\ pc'[w] \in Owning /\ cur'[w] = Len(steps) + 1
       /\ \E n \in Nodes \ Approvals : RowInsert(w, n, "RUNNING")
    \/ pc[w] \in Owning /\ pc'[w] \in Owning /\ cur'[w] = cur[w] /\ UNCHANGED steps
    \/ /\ pc[w] \in Owning /\ pc'[w] = "deadLetter" /\ cur'[w] = cur[w]
       /\ \E row \in Step : RowUpdate(cur[w], row) /\ row.status = "FAILED"

\* Dead letters stay, and the run fails only after its letter was written.
LetterShape(w) ==
    /\ Len(dlq) <= Len(dlq') /\ \A d \in 1 .. Len(dlq) : dlq'[d].node = dlq[d].node
    /\ status' = "FAILED" => status = "FAILED" \/ pc[w] = "failRun"
    /\ pc'[w] = "failRun" =>
         /\ pc[w] = "deadLetter" /\ UNCHANGED steps
         /\ \E s : dlq' = Append(dlq, [node |-> Current(w), status |-> s])

\* A decision is written into the row of an approval.
LEMMA DecideWriter ==
  ASSUME TypeOK, ParkedInv, ViewInv, NEW w \in Workers,
         NEW d \in {"SUCCESS", "REJECTED"}, NEW l, DecideStep(w, d, l)
  PROVE  \/ UNCHANGED steps
         \/ \E i \in 1 .. Len(steps) : \E row \in Step :
               RowUpdate(i, row) /\ steps[i].node \in Approvals /\ row.status = d
  <1> DEFINE v == Reread(view[w])
             o == IF d = "SUCCESS" THEN ApprovedOutput ELSE NoOutput
             row(i) == [node |-> v[i].node, status |-> d, output |-> o]
  <1>1. /\ v \in Seq(Step)
        /\ Len(v) = Len(steps)
        /\ \A i \in 1 .. Len(steps) :
              v[i] = IF i \in 1 .. Len(view[w]) THEN view[w][i] ELSE steps[i]
    BY RereadFacts DEF TypeOK
  <1>2. o \in Outputs \cup {NoOutput}
    BY NodesAssumption DEF ApprovedOutput
  <1>3. \/ \E i \in 1 .. Len(v) :
             /\ v[i].status = "WAITING_APPROVAL"
             /\ steps' = [steps EXCEPT ![i] = row(i)]
             /\ approved' = IF d = "SUCCESS" THEN approved \cup {v[i].node} ELSE approved
        \/ UNCHANGED steps
    BY DEF DecideStep, IsFirstWaiting
  <1> HIDE DEF v, o
  <1>4. ASSUME NEW i \in 1 .. Len(v),
               v[i].status = "WAITING_APPROVAL",
               steps' = [steps EXCEPT ![i] = row(i)],
               approved' = IF d = "SUCCESS" THEN approved \cup {v[i].node} ELSE approved
        PROVE  \E k \in 1 .. Len(steps) : \E r \in Step :
                 RowUpdate(k, r) /\ steps[k].node \in Approvals /\ r.status = d
    <2>1. v[i] \in Step /\ i \in 1 .. Len(steps)
      BY <1>1
    <2>2. v[i].node \in Nodes
      BY <2>1 DEF Step
    <2>3. row(i) \in Step /\ row(i).status = d
      BY <2>2, <1>2 DEF Step, StepStatus
    <2>4. v[i].node = steps[i].node
      BY <1>1, <2>1 DEF ViewInv
    <2>5. RowUpdate(i, row(i))
      BY <1>4, <2>4 DEF RowUpdate
    <2>6. steps[i].node \in Approvals
      BY <1>1, <1>4, <2>1, <2>4 DEF ParkedInv
    <2>7. QED
      BY <2>1, <2>3, <2>5, <2>6
  <1>5. QED
    BY <1>3, <1>4

\* Every step has these shapes.
LEMMA OutcomeShapes ==
  ASSUME TypeOK, ParkedInv, ViewInv, OwnRowInv, NEW w \in Workers, AnyStep(w)
  PROVE  WriterShape(w) /\ PhaseShape(w)
  <1>1. CASE \/ ExecuteNewRun(w) \/ LoadForDecision(w) \/ LoadForReplay(w) \/ ReplayAll(w)
             \/ RejectRun(w) \/ Reload(w) \/ MarkRunning(w) \/ SkipVisited(w) \/ SkipCompleted(w)
             \/ ParkRun(w) \/ CompleteRun(w) \/ MarkReplayed(w)
             \/ StoreOutage(w) \/ RouteToDlq(w) \/ FailRun(w) \/ Crash(w) \/ ResumeFails(w)
    <2>1. UNCHANGED steps
      BY <1>1 DEF ExecuteNewRun, LoadForDecision, LoadForReplay, ReplayAll, RejectRun, Reload,
         MarkRunning, SkipVisited, SkipCompleted, ParkRun, CompleteRun, MarkReplayed,
         StoreOutage, RouteToDlq, FailRun, Crash, ResumeFails, dbVars
    <2>2. pc'[w] \notin Busy
      BY <1>1 DEF ExecuteNewRun, LoadForDecision, LoadForReplay, ReplayAll, RejectRun, Reload,
         MarkRunning, SkipVisited, SkipCompleted, ParkRun, CompleteRun, MarkReplayed,
         StoreOutage, RouteToDlq, FailRun, Crash, ResumeFails, EndRequest, Traverse, NewRequest,
         AtHead, Goto, reqVars, TypeOK, Busy
    <2>3. QED
      BY <2>1, <2>2 DEF WriterShape, PhaseShape
  <1>2. CASE ApproveStep(w) \/ RejectStep(w)
    <2>1. PICK d \in {"SUCCESS", "REJECTED"}, l \in {"reload", "rejectRun"} : DecideStep(w, d, l)
      BY <1>2 DEF ApproveStep, RejectStep
    <2>2. pc'[w] \notin Busy
      BY <2>1 DEF DecideStep, Goto, TypeOK, Busy
    <2>3. \/ UNCHANGED steps
          \/ \E i \in 1 .. Len(steps) : \E row \in Step :
                RowUpdate(i, row) /\ steps[i].node \in Approvals /\ row.status = d
      BY <2>1, DecideWriter
    <2>4. d # "FAILED"
      OBVIOUS
    <2>5. QED
      BY <2>2, <2>3, <2>4 DEF WriterShape, PhaseShape
  <1>3. CASE ParkApprovalStep(w)
    <2>1. PICK n \in Approvals : RecordStep(w, n, "WAITING_APPROVAL")
      BY <1>3 DEF ParkApprovalStep
    <2>2. RowInsert(w, n, "WAITING_APPROVAL")
      BY <2>1 DEF RecordStep, RowInsert
    <2>3. n \in Nodes /\ "WAITING_APPROVAL" \in StepStatus
      BY NodesAssumption DEF StepStatus
    <2>4. pc'[w] \notin Busy
      BY <1>3 DEF ParkApprovalStep, Goto, TypeOK, Busy
    <2>5. QED
      BY <2>2, <2>3, <2>4 DEF WriterShape, PhaseShape
  <1>4. CASE BeginStep(w)
    <2>1. PICK n \in Nodes \ Approvals :
            /\ RecordStep(w, n, "RUNNING") /\ cur' = [cur EXCEPT ![w] = Len(steps) + 1]
            /\ Goto(w, IF n \in Connected THEN "guard" ELSE "dispatch")
      BY <1>4 DEF BeginStep
    <2>2. RowInsert(w, n, "RUNNING")
      BY <2>1 DEF RecordStep, RowInsert
    <2>3. "RUNNING" \in StepStatus
      BY DEF StepStatus
    <2>4. pc'[w] \in Owning /\ cur'[w] = Len(steps) + 1
      BY <2>1 DEF Goto, TypeOK, Busy, Owning
    <2>5. QED
      BY <2>1, <2>2, <2>3, <2>4 DEF WriterShape, PhaseShape
  <1>5. ASSUME pc[w] \in Busy
        PROVE  /\ cur[w] \in 1 .. Len(steps)
               /\ steps[cur[w]] \in Step
               /\ steps[cur[w]].node \notin Approvals
    BY <1>5 DEF OwnRowInv, TypeOK
  <1>6. ASSUME pc[w] \in Owning, SetStep(w, "FAILED"), Goto(w, "deadLetter"), UNCHANGED cur
        PROVE  WriterShape(w) /\ PhaseShape(w)
    <2> DEFINE row == [steps[cur[w]] EXCEPT !.status = "FAILED"]
    <2>0. pc[w] \in Busy
      BY <1>6 DEF Owning
    <2>1. steps' = [steps EXCEPT ![cur[w]] = row]
      BY <1>6 DEF SetStep
    <2>2. row \in Step /\ row.node = steps[cur[w]].node /\ row.status = "FAILED"
      BY <1>5, <2>0 DEF Step, StepStatus
    <2> HIDE DEF row
    <2>3. RowUpdate(cur[w], row)
      BY <2>1, <2>2 DEF RowUpdate
    <2>4. pc'[w] = "deadLetter" /\ cur'[w] = cur[w]
      BY <1>6 DEF Goto, TypeOK
    <2>5. QED
      BY <1>6, <2>2, <2>3, <2>4 DEF WriterShape, PhaseShape
  <1>7. CASE BreakerGuard(w)
    <2>1. UNCHANGED cur /\ pc[w] \in Owning
      BY <1>7 DEF BreakerGuard, nodeVars, Busy, Owning
    <2>2. CASE UNCHANGED steps /\ Goto(w, "dispatch")
      <3>1. pc'[w] \in Owning
        BY <2>2 DEF Goto, TypeOK, Owning, Busy
      <3>2. QED
        BY <2>1, <2>2, <3>1 DEF WriterShape, PhaseShape
    <2>3. CASE SetStep(w, "FAILED") /\ Goto(w, "deadLetter")
      BY <2>1, <2>3, <1>6
    <2>4. QED
      BY <1>7, <2>2, <2>3 DEF BreakerGuard
  <1>8. CASE Dispatch(w)
    <2>1. UNCHANGED <<steps, cur>> /\ pc[w] \in Owning
      BY <1>8 DEF Dispatch, dbVars, Busy, Owning
    <2>2. pc'[w] \in {"dispatch", "snapshot", "failStep"}
      BY <1>8 DEF Dispatch, Failed, Goto, TypeOK
    <2>3. pc'[w] \in Owning
      BY <2>2 DEF Busy, Owning
    <2>4. QED
      BY <2>1, <2>3 DEF WriterShape, PhaseShape
  <1>9. CASE FailStep(w)
    BY <1>9, <1>6 DEF FailStep, nodeVars, Busy, Owning
  <1>10. CASE Snapshot(w)
    <2>1. pc[w] \in Busy /\ pc[w] \in Owning /\ Goto(w, "loop")
      BY <1>10 DEF Snapshot, Busy, Owning
    <2>2. PICK out \in Outputs :
            steps' = [steps EXCEPT ![cur[w]] =
                        [node |-> steps[cur[w]].node, status |-> "SUCCESS", output |-> out]]
      BY <1>10 DEF Snapshot, Current
    <2> DEFINE row == [node |-> steps[cur[w]].node, status |-> "SUCCESS", output |-> out]
    <2>3. row \in Step
      BY <1>5, <2>1 DEF Step, StepStatus
    <2>4. RowUpdate(cur[w], row)
      BY <1>5, <2>1, <2>2 DEF RowUpdate
    <2>5. pc'[w] \notin Busy
      BY <2>1 DEF Goto, TypeOK, Busy
    <2>6. row.status = "SUCCESS"
      OBVIOUS
    <2> HIDE DEF row
    <2>7. QED
      BY <2>1, <2>3, <2>4, <2>5, <2>6 DEF WriterShape, PhaseShape
  <1>11. QED
    BY <1>1, <1>2, <1>3, <1>4, <1>7, <1>8, <1>9, <1>10 DEF AnyStep, Request, Progress

\* How a step changes the dead letters and the run's status.
LEMMA LetterShapes ==
  ASSUME TypeOK, TypeOK', NEW w \in Workers, AnyStep(w)
  PROVE  LetterShape(w)
  <1>0. dlq \in Seq(DeadLetter) /\ Len(dlq) \in Nat
    BY DEF TypeOK
  <1>1. CASE RouteToDlq(w)
    <2>1. dlq' = Append(dlq, [node |-> Current(w), status |-> "PENDING"])
          /\ pc[w] = "deadLetter" /\ UNCHANGED <<status, steps>>
      BY <1>1 DEF RouteToDlq
    <2>2. Len(dlq') = Len(dlq) + 1 /\ \A d \in 1 .. Len(dlq) : dlq'[d] = dlq[d]
      BY <1>0, <2>1
    <2>3. Len(dlq) <= Len(dlq') /\ \A d \in 1 .. Len(dlq) : dlq'[d].node = dlq[d].node
      BY <1>0, <2>2
    <2>4. \E s : dlq' = Append(dlq, [node |-> Current(w), status |-> s])
      BY <2>1
    <2>5. QED
      BY <2>1, <2>3, <2>4 DEF LetterShape
  <1>2. ASSUME ~ RouteToDlq(w) PROVE pc'[w] # "failRun"
    BY <1>2 DEF AnyStep, Request, Progress, ExecuteNewRun, Traverse, LoadForDecision, NewRequest,
         LoadForReplay, ReplayAll, ApproveStep, RejectStep, DecideStep, RejectRun, Reload,
         MarkRunning, SkipVisited, SkipCompleted, ParkApprovalStep, ParkRun, BeginStep, AtHead,
         CompleteRun, MarkReplayed, BreakerGuard, Dispatch, Failed, StoreOutage, Snapshot,
         FailStep, FailRun, Crash, ResumeFails, EndRequest, Goto, reqVars, TypeOK
  <1>3. ASSUME ~ FailRun(w) PROVE status' = "FAILED" => status = "FAILED"
    BY <1>3 DEF AnyStep, Request, Progress, ExecuteNewRun, LoadForDecision,
         LoadForReplay, ReplayAll, ApproveStep, RejectStep, DecideStep, RejectRun, Reload,
         MarkRunning, SkipVisited, SkipCompleted, ParkApprovalStep, ParkRun, BeginStep, RecordStep,
         CompleteRun, MarkReplayed, BreakerGuard, Dispatch, StoreOutage, Snapshot,
         FailStep, RouteToDlq, Crash, ResumeFails, dbVars
  <1>4. FailRun(w) => pc[w] = "failRun"
    BY DEF FailRun
  <1>5. CASE ReplayAll(w)
    <2>1. PICK oldest \in 1 .. Len(dlq) :
            dlq' = [d \in 1 .. Len(dlq) |->
                      IF d >= oldest THEN [dlq[d] EXCEPT !.status = "REPLAYED"] ELSE dlq[d]]
      BY <1>5 DEF ReplayAll
    <2>2. Len(dlq') = Len(dlq)
      BY <1>0, <2>1
    <2>3. \A d \in 1 .. Len(dlq) : dlq[d] \in DeadLetter
      BY <1>0
    <2>4. \A d \in 1 .. Len(dlq) : [dlq[d] EXCEPT !.status = "REPLAYED"].node = dlq[d].node
      BY <2>3 DEF DeadLetter
    <2>5. \A d \in 1 .. Len(dlq) : dlq'[d].node = dlq[d].node
      BY <2>1, <2>4
    <2>6. ~ RouteToDlq(w) /\ ~ FailRun(w)
      BY <1>5 DEF ReplayAll, NewRequest, RouteToDlq, FailRun
    <2>7. QED
      BY <1>0, <1>2, <1>3, <2>2, <2>5, <2>6 DEF LetterShape
  <1>6. CASE MarkReplayed(w)
    <2>1. dlq' = [dlq EXCEPT ![item[w]].status = "REPLAYED"] /\ pc[w] = "markReplayed"
      BY <1>6 DEF MarkReplayed
    <2>2. Len(dlq') = Len(dlq)
      <3>1. dlq \in [1 .. Len(dlq) -> DeadLetter]
        BY <1>0
      <3>2. DOMAIN dlq' = 1 .. Len(dlq)
        BY <2>1, <3>1
      <3>3. dlq' \in Seq(DeadLetter)
        BY DEF TypeOK
      <3>4. QED
        BY <1>0, <3>2, <3>3
    <2>3. \A d \in 1 .. Len(dlq) : dlq[d] \in DeadLetter
      BY <1>0
    <2>4. \A d \in 1 .. Len(dlq) : dlq'[d].node = dlq[d].node
      BY <1>0, <2>1, <2>3 DEF DeadLetter
    <2>5. ~ RouteToDlq(w) /\ ~ FailRun(w)
      BY <2>1 DEF RouteToDlq, FailRun
    <2>6. QED
      BY <1>0, <1>2, <1>3, <2>2, <2>4, <2>5 DEF LetterShape
  <1>7. CASE ~ RouteToDlq(w) /\ ~ ReplayAll(w) /\ ~ MarkReplayed(w)
    <2>1. UNCHANGED dlq
      BY <1>7 DEF AnyStep, Request, Progress, ExecuteNewRun, LoadForDecision,
         LoadForReplay, ApproveStep, RejectStep, DecideStep, RejectRun, Reload,
         MarkRunning, SkipVisited, SkipCompleted, ParkApprovalStep, ParkRun, BeginStep, RecordStep,
         CompleteRun, BreakerGuard, Dispatch, StoreOutage, Snapshot,
         FailStep, FailRun, Crash, ResumeFails, dbVars
    <2>2. QED
      BY <1>0, <1>2, <1>3, <1>4, <1>7, <2>1 DEF LetterShape
  <1>8. QED
    BY <1>1, <1>5, <1>6, <1>7

\* What a step leaves of the rows other workers execute and of the failed rows.
LEMMA OthersRows ==
  ASSUME TypeOK, OwnRowInv, FailInv, NEW w \in Workers, WriterShape(w)
  PROVE  /\ Len(steps) <= Len(steps')
         /\ \A i \in 1 .. Len(steps) :
               /\ steps'[i].node = steps[i].node
               /\ steps[i].status = "FAILED" => steps'[i].status = "FAILED"
         /\ \A u \in Workers \ {w} : pc[u] \in Busy => steps'[cur[u]] = steps[cur[u]]
         /\ \A i \in 1 .. Len(steps') : steps'[i].status = "FAILED" => steps'[i].node \notin Approvals
  <1>0. steps \in Seq(Step) /\ Len(steps) \in Nat
    BY DEF TypeOK
  <1>1. ASSUME NEW u \in Workers, pc[u] \in Busy
        PROVE  cur[u] \in 1 .. Len(steps) /\ steps[cur[u]].node \notin Approvals
    BY <1>1 DEF OwnRowInv
  <1>2. CASE UNCHANGED steps
    BY <1>0, <1>2 DEF FailInv
  <1>3. ASSUME NEW n \in Nodes, NEW s \in StepStatus, RowInsert(w, n, s)
        PROVE  /\ Len(steps) <= Len(steps')
               /\ \A i \in 1 .. Len(steps) :
                     /\ steps'[i].node = steps[i].node
                     /\ steps[i].status = "FAILED" => steps'[i].status = "FAILED"
               /\ \A u \in Workers \ {w} : pc[u] \in Busy => steps'[cur[u]] = steps[cur[u]]
               /\ \A i \in 1 .. Len(steps') : steps'[i].status = "FAILED" => steps'[i].node \notin Approvals
    <2>1. /\ Len(steps') = Len(steps) + 1
          /\ \A i \in 1 .. Len(steps) : steps'[i] = steps[i]
          /\ steps'[Len(steps) + 1].status # "FAILED"
      BY <1>0, <1>3 DEF RowInsert
    <2>2. \A i \in 1 .. Len(steps') : i \in 1 .. Len(steps) \/ i = Len(steps) + 1
      BY <1>0, <2>1
    <2>3. QED
      BY <1>0, <1>1, <2>1, <2>2 DEF FailInv
  <1>4. ASSUME NEW i \in 1 .. Len(steps), NEW row \in Step, RowUpdate(i, row),
               steps[i].status # "FAILED",
               row.status = "FAILED" => steps[i].node \notin Approvals,
               \A u \in Workers \ {w} : pc[u] \in Busy => cur[u] # i
        PROVE  /\ Len(steps) <= Len(steps')
               /\ \A k \in 1 .. Len(steps) :
                     /\ steps'[k].node = steps[k].node
                     /\ steps[k].status = "FAILED" => steps'[k].status = "FAILED"
               /\ \A u \in Workers \ {w} : pc[u] \in Busy => steps'[cur[u]] = steps[cur[u]]
               /\ \A k \in 1 .. Len(steps') : steps'[k].status = "FAILED" => steps'[k].node \notin Approvals
    <2>1. /\ Len(steps') = Len(steps) /\ steps'[i] = row /\ row.node = steps[i].node
          /\ \A j \in 1 .. Len(steps) : j # i => steps'[j] = steps[j]
      BY <1>0, <1>4 DEF RowUpdate
    <2>2. QED
      BY <1>0, <1>1, <1>4, <2>1 DEF FailInv
  <1>5. CASE \E i \in 1 .. Len(steps) : \E row \in Step :
               RowUpdate(i, row) /\ steps[i].node \in Approvals /\ row.status # "FAILED"
    <2>1. PICK i \in 1 .. Len(steps), row \in Step :
            RowUpdate(i, row) /\ steps[i].node \in Approvals /\ row.status # "FAILED"
      BY <1>5
    <2>2. steps[i].status # "FAILED" /\ \A u \in Workers \ {w} : pc[u] \in Busy => cur[u] # i
      BY <1>1, <2>1 DEF FailInv
    <2>3. QED
      BY <1>4, <2>1, <2>2
  <1>6. CASE \E row \in Step : pc[w] \in Owning /\ RowUpdate(cur[w], row)
    <2>1. PICK row \in Step : pc[w] \in Owning /\ RowUpdate(cur[w], row)
      BY <1>6
    <2>2. pc[w] \in Busy
      BY <2>1 DEF Owning
    <2>3. /\ steps[cur[w]].status # "FAILED" /\ steps[cur[w]].node \notin Approvals
          /\ cur[w] \in 1 .. Len(steps)
      BY <1>1, <2>1, <2>2 DEF FailInv
    <2>4. \A u \in Workers \ {w} : pc[u] \in Busy => cur[u] # cur[w]
      BY <2>2 DEF FailInv
    <2>5. QED
      BY <1>4, <2>1, <2>3, <2>4
  <1>7. QED
    BY <1>2, <1>3, <1>5, <1>6 DEF WriterShape

\* Every step keeps the rows' owners and the letters of failed runs.
LEMMA FailKept ==
  ASSUME TypeOK, TypeOK', OwnRowInv, FailInv, NEW w \in Workers,
         OwnShape(w), WriterShape(w), PhaseShape(w), LetterShape(w)
  PROVE  FailInv'
  <1>0. steps \in Seq(Step) /\ Len(steps) \in Nat /\ dlq \in Seq(DeadLetter) /\ Len(dlq) \in Nat
    BY DEF TypeOK
  <1>1. /\ Len(steps) <= Len(steps')
        /\ \A i \in 1 .. Len(steps) :
              /\ steps'[i].node = steps[i].node
              /\ steps[i].status = "FAILED" => steps'[i].status = "FAILED"
        /\ \A u \in Workers \ {w} : pc[u] \in Busy => steps'[cur[u]] = steps[cur[u]]
        /\ \A i \in 1 .. Len(steps') : steps'[i].status = "FAILED" => steps'[i].node \notin Approvals
    BY OthersRows
  <1>2. \A u \in Workers \ {w} : pc'[u] = pc[u] /\ cur'[u] = cur[u]
    BY DEF OwnShape
  <1>3. \A u \in Workers : pc[u] \in Busy => cur[u] \in 1 .. Len(steps)
    BY DEF OwnRowInv
  <1>4. \/ pc'[w] \notin Busy
        \/ /\ pc'[w] \in Owning /\ cur'[w] = Len(steps) + 1
           /\ steps'[cur'[w]].status = "RUNNING"
        \/ pc[w] \in Busy /\ cur'[w] = cur[w]
           /\ \/ pc'[w] \in Owning /\ steps'[cur'[w]].status = "RUNNING"
              \/ pc'[w] = "deadLetter" /\ steps'[cur'[w]].status = "FAILED"
    <2>1. CASE pc'[w] \notin Busy
      BY <2>1
    <2>2. CASE /\ pc'[w] \in Owning /\ cur'[w] = Len(steps) + 1
               /\ \E n \in Nodes \ Approvals : RowInsert(w, n, "RUNNING")
      <3>1. PICK n \in Nodes : steps' = Append(steps, [node |-> n, status |-> "RUNNING", output |-> NoOutput])
        BY <2>2 DEF RowInsert
      <3>2. steps'[Len(steps) + 1].status = "RUNNING"
        BY <1>0, <3>1
      <3>3. QED
        BY <2>2, <3>2
    <2>3. CASE pc[w] \in Owning /\ pc'[w] \in Owning /\ cur'[w] = cur[w] /\ UNCHANGED steps
      BY <2>3 DEF FailInv, Owning
    <2>4. CASE /\ pc[w] \in Owning /\ pc'[w] = "deadLetter" /\ cur'[w] = cur[w]
               /\ \E row \in Step : RowUpdate(cur[w], row) /\ row.status = "FAILED"
      <3>1. PICK row \in Step : RowUpdate(cur[w], row) /\ row.status = "FAILED"
        BY <2>4
      <3>2. pc[w] \in Busy /\ cur[w] \in 1 .. Len(steps)
        BY <1>3, <2>4 DEF Owning
      <3>3. steps'[cur[w]] = row
        BY <1>0, <3>1, <3>2 DEF RowUpdate
      <3>4. QED
        BY <2>4, <3>1, <3>2, <3>3
    <2>5. QED
      BY <2>1, <2>2, <2>3, <2>4 DEF PhaseShape
  <1>5. \A u, v \in Workers : pc'[u] \in Busy /\ pc'[v] \in Busy /\ cur'[u] = cur'[v] => u = v
    <2> SUFFICES ASSUME NEW u \in Workers, NEW v \in Workers, pc'[u] \in Busy, pc'[v] \in Busy,
                        cur'[u] = cur'[v], u # v
                 PROVE  FALSE
      OBVIOUS
    <2>1. CASE u # w /\ v # w
      BY <1>2, <2>1 DEF FailInv
    <2>2. ASSUME NEW t \in Workers \ {w}, pc'[t] \in Busy, pc'[w] \in Busy, cur'[t] = cur'[w]
          PROVE  FALSE
      <3>1. pc[t] \in Busy /\ cur[t] = cur'[w] /\ cur[t] \in 1 .. Len(steps)
        BY <1>2, <1>3, <2>2
      <3>2. cur'[w] # Len(steps) + 1
        BY <1>0, <3>1
      <3>3. pc[w] \in Busy /\ cur'[w] = cur[w]
        BY <1>4, <2>2, <3>2
      <3>4. QED
        BY <3>1, <3>3 DEF FailInv
    <2>3. QED
      BY <2>1, <2>2
  <1>6. ASSUME NEW u \in Workers
        PROVE  /\ pc'[u] \in Owning => steps'[cur'[u]].status = "RUNNING"
               /\ pc'[u] = "deadLetter" => steps'[cur'[u]].status = "FAILED"
    <2>1. CASE u # w
      BY <1>1, <1>2, <2>1 DEF FailInv, Owning, Busy
    <2>2. CASE u = w
      BY <1>4, <2>2 DEF Owning, Busy
    <2>3. QED
      BY <2>1, <2>2
  <1>7. Lettered => Lettered'
    <2> SUFFICES ASSUME Lettered PROVE Lettered'
      OBVIOUS
    <2>1. PICK d \in 1 .. Len(dlq), i \in 1 .. Len(steps) :
            steps[i].node = dlq[d].node /\ steps[i].status = "FAILED"
      BY DEF Lettered
    <2>2. /\ Len(dlq) <= Len(dlq') /\ \A e \in 1 .. Len(dlq) : dlq'[e].node = dlq[e].node
      BY DEF LetterShape
    <2>3. Len(dlq') \in Nat /\ Len(steps') \in Nat
      BY DEF TypeOK
    <2>4. d \in 1 .. Len(dlq') /\ i \in 1 .. Len(steps')
      BY <1>0, <1>1, <2>2, <2>3
    <2>5. QED
      BY <1>1, <2>1, <2>2, <2>4 DEF Lettered
  <1>8. ASSUME pc'[w] = "failRun" PROVE Lettered'
    <2>1. PICK s : /\ pc[w] = "deadLetter" /\ UNCHANGED steps
                   /\ dlq' = Append(dlq, [node |-> Current(w), status |-> s])
      BY <1>8 DEF LetterShape
    <2>2. Len(dlq') = Len(dlq) + 1 /\ dlq'[Len(dlq) + 1].node = Current(w)
      BY <1>0, <2>1
    <2>3. pc[w] \in Busy
      BY <2>1 DEF Busy
    <2>4. cur[w] \in 1 .. Len(steps) /\ steps[cur[w]].status = "FAILED" /\ steps[cur[w]].node = Current(w)
      BY <1>3, <2>1, <2>3 DEF FailInv, Current
    <2>5. Len(dlq) + 1 \in 1 .. Len(dlq')
      BY <1>0, <2>2
    <2>6. QED
      BY <2>1, <2>2, <2>4, <2>5 DEF Lettered
  <1>9. status' = "FAILED" \/ (\E u \in Workers : pc'[u] = "failRun") => Lettered'
    <2>1. CASE status' = "FAILED"
      BY <1>7, <2>1 DEF LetterShape, FailInv
    <2>2. ASSUME NEW u \in Workers, pc'[u] = "failRun" PROVE Lettered'
      <3>1. CASE u = w
        BY <1>8, <2>2, <3>1
      <3>2. CASE u # w
        BY <1>2, <1>7, <2>2, <3>2 DEF FailInv
      <3>3. QED
        BY <3>1, <3>2
    <2>3. QED
      BY <2>1, <2>2
  <1>10. QED
    BY <1>1, <1>5, <1>6, <1>9 DEF FailInv

\* The invariant of the engine with the outcome of its rows.
LEMMA NextFail == IInv /\ FailInv /\ [Next]_vars => FailInv'
  <1> SUFFICES ASSUME IInv, FailInv, [Next]_vars PROVE FailInv'
    OBVIOUS
  <1>0. TypeOK'
    BY NextInv DEF IInv
  <1>1. CASE Next
    <2>1. PICK w \in Workers : AnyStep(w)
      BY <1>1 DEF Next, AnyStep
    <2>2. OwnShape(w) /\ WriterShape(w) /\ PhaseShape(w) /\ LetterShape(w)
      BY <1>0, <2>1, OwnShapes, OutcomeShapes, LetterShapes DEF IInv
    <2>3. QED
      BY <1>0, <2>2, FailKept DEF IInv
  <1>2. CASE UNCHANGED vars
    BY <1>2 DEF vars, dbVars, nodeVars, reqVars, FailInv, Lettered
  <1>3. QED
    BY <1>1, <1>2

LEMMA InitFail == Init => FailInv
  BY DEF Init, FailInv, Owning, Busy

\* A run never ends FAILED without a dead letter of a failed step for the
\* operator, for every workflow graph, any number of concurrent requests, and any
\* pattern of crashes, replays and state store faults.
THEOREM FailuresLettered == Spec => []FailureIsDeadLettered
  <1>1. FailInv => FailureIsDeadLettered
    BY DEF FailInv, Lettered, FailureIsDeadLettered
  <1>2. QED
    BY InitInv, InitFail, NextInv, NextFail, <1>1, PTL DEF Spec
-----------------------------------------------------------------------------
(* What the context of a resumed execution holds *)

Succeeds(v, n, i) == i \in 1 .. Len(v) /\ v[i].node = n /\ v[i].status = "SUCCESS"

\* The output of the last SUCCESS row counts.
LEMMA ContextValue ==
  ASSUME NEW v \in Seq(Step), NEW n \in Nodes, NEW i, IsLastSuccess(v, n, i)
  PROVE  ContextOf(v)[n] = v[i].output
  <1> DEFINE k == CHOOSE j \in 1 .. Len(v) : IsLastSuccess(v, n, j)
  <1>1. i \in 1 .. Len(v)
    BY DEF IsLastSuccess
  <1>2. k \in 1 .. Len(v) /\ IsLastSuccess(v, n, k)
    BY <1>1
  <1>3. ContextOf(v)[n] = v[k].output
    BY <1>1 DEF ContextOf
  <1> HIDE DEF k
  <1>4. k <= i /\ i <= k
    BY <1>1, <1>2 DEF IsLastSuccess
  <1>5. Len(v) \in Nat
    OBVIOUS
  <1>6. k = i
    BY <1>1, <1>2, <1>4, <1>5
  <1>7. QED
    BY <1>3, <1>6

\* A node with a SUCCESS row has a last one.
LEMMA LastExists ==
  ASSUME NEW v \in Seq(Step), NEW n \in Nodes, NEW i, Succeeds(v, n, i)
  PROVE  \E k \in 1 .. Len(v) : IsLastSuccess(v, n, k)
  <1> DEFINE S == {j \in 1 .. Len(v) : Succeeds(v, n, j)}
  <1>1. Len(v) \in Nat /\ S \in SUBSET (0 .. Len(v)) /\ S # {}
    BY DEF Succeeds
  <1>2. \A j \in S : j \in 1 .. Len(v) /\ v[j].node = n /\ v[j].status = "SUCCESS"
    BY DEF Succeeds
  <1>3. \A j \in 1 .. Len(v) : v[j].node = n /\ v[j].status = "SUCCESS" => j \in S
    BY DEF Succeeds
  <1> HIDE DEF S
  <1>4. PICK k \in S : \A j \in S : k >= j
    BY <1>1, GreatestNatural
  <1>5. \A j \in S : j <= k
    BY <1>1, <1>4
  <1>6. QED
    BY <1>2, <1>3, <1>4, <1>5 DEF IsLastSuccess

\* A node without SUCCESS row has no output.
LEMMA ContextNone ==
  ASSUME NEW v \in Seq(Step), NEW n \in Nodes, \A i : ~ Succeeds(v, n, i)
  PROVE  ContextOf(v)[n] = NoOutput
  BY DEF ContextOf, IsLastSuccess, Succeeds

\* Outputs of the SUCCESS rows of v are outputs.
Filled(v) == \A i \in 1 .. Len(v) : v[i].status = "SUCCESS" => v[i].output \in Outputs

\* The context holds an output for exactly the nodes with a SUCCESS row.
LEMMA ContextHolds ==
  ASSUME NEW v \in Seq(Step), Filled(v), NEW n \in Nodes
  PROVE  ContextOf(v)[n] # NoOutput <=> \E i \in 1 .. Len(v) : Succeeds(v, n, i)
  <1>1. ASSUME NEW i \in 1 .. Len(v), Succeeds(v, n, i) PROVE ContextOf(v)[n] # NoOutput
    <2>1. PICK k \in 1 .. Len(v) : IsLastSuccess(v, n, k)
      BY <1>1, LastExists
    <2>2. ContextOf(v)[n] = v[k].output
      BY <2>1, ContextValue
    <2>3. v[k].output \in Outputs
      BY <2>1 DEF IsLastSuccess, Filled
    <2>4. QED
      BY <2>2, <2>3, NodesAssumption
  <1>2. ASSUME ContextOf(v)[n] # NoOutput PROVE \E i \in 1 .. Len(v) : Succeeds(v, n, i)
    BY <1>2, ContextNone DEF Succeeds
  <1>3. QED
    BY <1>1, <1>2

\* The SUCCESS rows of n are the same in v and u.
SameFor(n, v, u) ==
    /\ \A i : Succeeds(v, n, i) <=> Succeeds(u, n, i)
    /\ \A i : Succeeds(v, n, i) => u[i].output = v[i].output

LEMMA ContextSameFor ==
  ASSUME NEW v \in Seq(Step), NEW u \in Seq(Step), NEW n \in Nodes, SameFor(n, v, u)
  PROVE  ContextOf(u)[n] = ContextOf(v)[n]
  <1>1. CASE \E i : Succeeds(v, n, i)
    <2>1. PICK k \in 1 .. Len(v) : IsLastSuccess(v, n, k)
      BY <1>1, LastExists
    <2>2. Succeeds(v, n, k) /\ \A j : Succeeds(v, n, j) => j <= k
      BY <2>1 DEF IsLastSuccess, Succeeds
    <2>3. Succeeds(u, n, k) /\ (\A j : Succeeds(u, n, j) => j <= k) /\ u[k].output = v[k].output
      BY <2>2 DEF SameFor
    <2>4. IsLastSuccess(u, n, k)
      BY <2>3 DEF IsLastSuccess, Succeeds
    <2>5. QED
      BY <2>1, <2>3, <2>4, ContextValue
  <1>2. CASE ~ \E i : Succeeds(v, n, i)
    <2>1. \A i : ~ Succeeds(v, n, i) /\ ~ Succeeds(u, n, i)
      BY <1>2 DEF SameFor
    <2>2. QED
      BY <2>1, ContextNone
  <1>3. QED
    BY <1>1, <1>2

\* Contexts that agree on every node are equal.
LEMMA ContextExt ==
  ASSUME NEW v \in Seq(Step), NEW c, c = [n \in Nodes |-> c[n]],
         \A n \in Nodes : ContextOf(v)[n] = c[n]
  PROVE  ContextOf(v) = c
  BY DEF ContextOf

\* Row k of v becomes row: what a decision or an outcome does to the table.
LEMMA ContextUpdate ==
  ASSUME NEW v \in Seq(Step), NEW u \in Seq(Step), NEW k \in 1 .. Len(v), NEW row \in Step,
         row.node = v[k].node, v[k].status # "SUCCESS", Len(u) = Len(v), u[k] = row,
         \A i \in 1 .. Len(v) : i # k => u[i] = v[i]
  PROVE  /\ row.status # "SUCCESS" => \A n \in Nodes : ContextOf(u)[n] = ContextOf(v)[n]
         /\ row.status = "SUCCESS" =>
              /\ \A n \in Nodes \ {row.node} : ContextOf(u)[n] = ContextOf(v)[n]
              /\ \/ ContextOf(u)[row.node] = row.output
                 \/ ContextOf(u)[row.node] = ContextOf(v)[row.node]
              /\ (\A i : ~ Succeeds(v, row.node, i)) => ContextOf(u)[row.node] = row.output
  <1>1. Len(v) \in Nat /\ row.node \in Nodes
    BY DEF Step
  <1>2. ASSUME NEW n \in Nodes, row.status # "SUCCESS" \/ n # row.node
        PROVE  ContextOf(u)[n] = ContextOf(v)[n]
    <2>1. SameFor(n, v, u)
      BY <1>1, <1>2 DEF SameFor, Succeeds
    <2>2. QED
      BY <2>1, ContextSameFor
  <1>3. ASSUME row.status = "SUCCESS"
        PROVE  /\ \/ ContextOf(u)[row.node] = row.output
                  \/ ContextOf(u)[row.node] = ContextOf(v)[row.node]
               /\ (\A i : ~ Succeeds(v, row.node, i)) => ContextOf(u)[row.node] = row.output
    <2>1. Succeeds(u, row.node, k)
      BY <1>1, <1>3 DEF Succeeds
    <2>2. PICK m \in 1 .. Len(u) : IsLastSuccess(u, row.node, m)
      BY <1>1, <2>1, LastExists
    <2>3. ContextOf(u)[row.node] = u[m].output
      BY <1>1, <2>2, ContextValue
    <2>4. CASE m = k
      BY <1>1, <2>3, <2>4
    <2>5. CASE m # k
      <3>1. Succeeds(v, row.node, m) /\ u[m] = v[m]
        BY <1>1, <2>2, <2>5 DEF IsLastSuccess, Succeeds
      <3>2. IsLastSuccess(v, row.node, m)
        BY <1>1, <1>3, <2>2, <3>1 DEF IsLastSuccess, Succeeds
      <3>3. ContextOf(v)[row.node] = v[m].output
        BY <1>1, <3>2, ContextValue
      <3>4. QED
        BY <2>3, <3>1, <3>3
    <2>6. QED
      BY <2>4, <2>5
  <1>4. QED
    BY <1>1, <1>2, <1>3

\* A new row that has no outcome yet changes no output.
LEMMA ContextAppend ==
  ASSUME NEW v \in Seq(Step), NEW u \in Seq(Step), NEW row \in Step,
         row.status # "SUCCESS", u = Append(v, row)
  PROVE  /\ Len(u) = Len(v) + 1 /\ u[Len(v) + 1] = row /\ \A i \in 1 .. Len(v) : u[i] = v[i]
         /\ \A n \in Nodes : ContextOf(u)[n] = ContextOf(v)[n]
  <1>1. /\ Len(u) = Len(v) + 1 /\ u[Len(v) + 1] = row /\ \A i \in 1 .. Len(v) : u[i] = v[i]
        /\ Len(v) \in Nat
    OBVIOUS
  <1>2. \A i \in 1 .. Len(u) : i \in 1 .. Len(v) \/ i = Len(v) + 1
    BY <1>1
  <1>3. \A i \in 1 .. Len(v) : i \in 1 .. Len(u)
    BY <1>1
  <1>4. ASSUME NEW n \in Nodes PROVE ContextOf(u)[n] = ContextOf(v)[n]
    <2>1. SameFor(n, v, u)
      BY <1>1, <1>2, <1>3 DEF SameFor, Succeeds
    <2>2. QED
      BY <2>1, ContextSameFor
  <1>5. QED
    BY <1>1, <1>4
-----------------------------------------------------------------------------
(* One request at a time *)

\* There is one worker: requests for the run are served one after the other,
\* each to its end or to its crash.
Solo == \A u, w \in Workers : u = w

Traversing == {"loop", "parkRun", "failRun"} \cup Busy
Deciding   == {"approve", "reject", "reload", "mark"}

\* A run without row has no steps, and every SUCCESS row has an output.
TableInv ==
    /\ status = "NONE" => steps = <<>>
    /\ Filled(steps)

\* What a session holds is what the database holds: before the traversal the
\* rows and the status, during it the outputs.
SessionInv ==
    \A w \in Workers :
      /\ pc[w] \in {"approve", "reject", "rejectRun"} => status = "WAITING_APPROVAL"
      /\ pc[w] \in Deciding => view[w] = steps /\ seen[w] = status
      /\ pc[w] \in Traversing => status = "RUNNING" /\ ctx[w] = ContextOf(steps)
      /\ pc[w] \in Owning => ctx[w][Current(w)] = NoOutput

SoloInv == IInv /\ FailInv /\ TableInv /\ SessionInv

\* The kinds of steps one worker takes.
Ends(w) ==
    /\ pc'[w] \in {"idle", "markReplayed"}
    /\ UNCHANGED steps
    /\ \/ UNCHANGED status /\ (CrashAllowed \/ LookupFaults \/ StoreFaults
                                \/ pc[w] \in {"idle", "markReplayed"})
       \/ status' = "REJECTED" /\ pc[w] = "rejectRun"
       \/ status' = "WAITING_APPROVAL" /\ pc[w] = "parkRun"
       \/ status' = "FAILED" /\ pc[w] = "failRun"
       \/ status' = "SUCCESS" /\ pc[w] = "loop" /\ queue[w] = <<>>
    /\ (CrashAllowed \/ LookupFaults \/ pc[w] \notin Deciding \cup {"rejectRun"}
          \/ status' = "REJECTED")
    /\ (UNCHANGED effects /\ (CrashAllowed \/ pc[w] # "snapshot")) \/ StoreFaults

Loads(w) ==
    /\ pc[w] = "idle"
    /\ pc'[w] \in {"approve", "reject", "reload"}
    /\ pc'[w] \in {"approve", "reject"} => status = "WAITING_APPROVAL"
    /\ UNCHANGED <<status, steps, effects>>
    /\ view'[w] = steps /\ seen'[w] = status

\* Row i, which is parked, is decided.
DecidedRow(w, i, row) ==
    /\ i \in 1 .. Len(steps) /\ row \in Step /\ row.node = steps[i].node
    /\ steps[i].status = "WAITING_APPROVAL"
    /\ \/ pc[w] = "approve" /\ row.status = "SUCCESS" /\ row.output \in Truthy
       \/ pc[w] = "reject" /\ row.status = "REJECTED"
    /\ steps' = [steps EXCEPT ![i] = row]

Decides(w) ==
    /\ \/ pc[w] = "approve" /\ pc'[w] = "reload"
       \/ pc[w] = "reject" /\ pc'[w] = "rejectRun"
    /\ UNCHANGED <<status, seen, effects>>
    /\ view'[w] = steps'
    /\ UNCHANGED steps \/ \E i, row : DecidedRow(w, i, row)

Rereads(w) ==
    /\ pc[w] = "reload" /\ pc'[w] = "mark"
    /\ UNCHANGED <<status, steps, seen, effects>>
    /\ view'[w] = steps

Enters(w) ==
    /\ pc[w] \in {"idle", "mark"} /\ pc'[w] = "loop"
    /\ status' = "RUNNING"
    /\ UNCHANGED <<steps, effects>>
    /\ queue'[w] = StartNodes /\ visited'[w] = {} /\ ctx'[w] = ContextOf(steps)

Skips(w) ==
    /\ pc[w] = "loop" /\ pc'[w] = "loop" /\ queue[w] # <<>>
    /\ UNCHANGED <<status, steps, ctx, effects>>
    /\ \/ /\ Head(queue[w]) \in visited[w]
          /\ visited'[w] = visited[w] /\ queue'[w] = Tail(queue[w])
       \/ /\ Head(queue[w]) \in Nodes \ visited[w] /\ ctx[w][Head(queue[w])] # NoOutput
          /\ visited'[w] = visited[w] \cup {Head(queue[w])}
          /\ queue'[w] = Tail(queue[w]) \o Successors(Head(queue[w]), ctx[w])

Inserts(w, n) ==
    /\ AtHead(w, n) /\ n \in Nodes \ visited[w] /\ ctx[w][n] = NoOutput
    /\ visited'[w] = visited[w] \cup {n} /\ queue'[w] = Tail(queue[w])
    /\ UNCHANGED <<status, ctx, effects>>
    /\ \/ /\ pc'[w] = "parkRun"
          /\ steps' = Append(steps, [node |-> n, status |-> "WAITING_APPROVAL", output |-> NoOutput])
       \/ /\ pc'[w] \in {"guard", "dispatch"} /\ cur'[w] = Len(steps) + 1
          /\ steps' = Append(steps, [node |-> n, status |-> "RUNNING", output |-> NoOutput])

Works(w) ==
    /\ pc[w] \in {"guard", "dispatch"} /\ pc'[w] \in Owning
    /\ UNCHANGED <<status, steps, queue, visited, ctx, cur>>
    /\ \/ UNCHANGED effects /\ pc'[w] # "snapshot"
       \/ pc'[w] = "snapshot" /\ effects' = [effects EXCEPT ![Current(w)] = @ + 1]
       \/ StoreFaults

Fails(w, row) ==
    /\ pc[w] \in {"guard", "failStep"} /\ pc'[w] = "deadLetter"
    /\ UNCHANGED <<status, queue, visited, ctx, cur, effects>>
    /\ row \in Step /\ row.node = Current(w) /\ row.status = "FAILED"
    /\ steps' = [steps EXCEPT ![cur[w]] = row]

Letters(w) ==
    /\ pc[w] = "deadLetter" /\ pc'[w] = "failRun"
    /\ UNCHANGED <<status, steps, queue, visited, ctx, cur, effects>>

Succeeded(w, row) ==
    /\ pc[w] = "snapshot" /\ pc'[w] = "loop"
    /\ UNCHANGED <<status, visited, effects>>
    /\ row \in Step /\ row.node = Current(w) /\ row.status = "SUCCESS" /\ row.output \in Outputs
    /\ steps' = [steps EXCEPT ![cur[w]] = row]
    /\ ctx'[w] = [ctx[w] EXCEPT ![Current(w)] = row.output]
    /\ queue'[w] = queue[w] \o Successors(Current(w), ctx'[w])

SoloStep(w) ==
    \/ Ends(w) \/ Loads(w) \/ Decides(w) \/ Rereads(w) \/ Enters(w) \/ Skips(w)
    \/ (\E n : Inserts(w, n)) \/ Works(w) \/ (\E row : Fails(w, row)) \/ Letters(w)
    \/ (\E row : Succeeded(w, row))

\* A session that holds the rows of the table reads them again.
LEMMA RereadSame ==
  ASSUME steps \in Seq(Step)
  PROVE  Reread(steps) = steps
  <1>1. Reread(steps) \in Seq(Step) /\ Len(Reread(steps)) = Len(steps)
        /\ \A i \in 1 .. Len(steps) : Reread(steps)[i] = steps[i]
    BY RereadFacts
  <1>2. QED
    BY <1>1

\* Nothing is in the context of a run without rows.
LEMMA ContextEmpty == ContextOf(<<>>) = EmptyContext
  BY DEF ContextOf, EmptyContext, IsLastSuccess

\* A decision changes a row the database still shows as parked.
LEMMA SoloDecides ==
  ASSUME SoloInv, NEW w \in Workers, ApproveStep(w) \/ RejectStep(w)
  PROVE  Decides(w)
  <1>0. TypeOK /\ steps \in Seq(Step) /\ ParkedInv
    BY DEF SoloInv, IInv, TypeOK
  <1>1. PICK d \in {"SUCCESS", "REJECTED"} :
          \/ pc[w] = "approve" /\ d = "SUCCESS" /\ DecideStep(w, d, "reload")
          \/ pc[w] = "reject" /\ d = "REJECTED" /\ DecideStep(w, d, "rejectRun")
    BY DEF ApproveStep, RejectStep
  <1>2. view[w] = steps
    BY <1>1 DEF SoloInv, SessionInv, Deciding
  <1>3. Reread(view[w]) = steps
    BY <1>0, <1>2, RereadSame
  <1>4. /\ \/ pc[w] = "approve" /\ pc'[w] = "reload"
           \/ pc[w] = "reject" /\ pc'[w] = "rejectRun"
        /\ UNCHANGED <<status, seen, effects>>
    BY <1>0, <1>1 DEF DecideStep, Goto, TypeOK
  <1> DEFINE row(i) == [node |-> steps[i].node, status |-> d,
                        output |-> IF d = "SUCCESS" THEN ApprovedOutput ELSE NoOutput]
  <1>5. \/ \E i \in 1 .. Len(steps) :
             /\ steps[i].status = "WAITING_APPROVAL"
             /\ steps' = [steps EXCEPT ![i] = row(i)]
             /\ view' = [view EXCEPT ![w] = [steps EXCEPT ![i] = row(i)]]
        \/ view' = [view EXCEPT ![w] = steps] /\ UNCHANGED steps
    BY <1>1, <1>3 DEF DecideStep, IsFirstWaiting
  <1>6. ApprovedOutput \in Truthy /\ Truthy \subseteq Outputs
    BY NodesAssumption DEF ApprovedOutput
  <1>7. ASSUME NEW i \in 1 .. Len(steps), steps[i].status = "WAITING_APPROVAL",
               steps' = [steps EXCEPT ![i] = row(i)]
        PROVE  DecidedRow(w, i, row(i))
    <2>1. steps[i] \in Step
      BY <1>0
    <2>2. steps[i].node \in Nodes
      BY <2>1 DEF Step
    <2>3. row(i) \in Step
      BY <1>6, <2>2 DEF Step, StepStatus
    <2>4. row(i).node = steps[i].node /\ row(i).status = d
          /\ (d = "SUCCESS" => row(i).output \in Truthy)
      BY <1>6
    <2> HIDE DEF row
    <2>5. QED
      BY <1>1, <1>7, <2>3, <2>4 DEF DecidedRow
  <1>8. view'[w] = steps'
    BY <1>0, <1>5 DEF TypeOK
  <1>9. UNCHANGED steps \/ \E i, r : DecidedRow(w, i, r)
    BY <1>5, <1>7
  <1>10. QED
    BY <1>4, <1>8, <1>9 DEF Decides

\* Every step of the one worker is of one of the kinds.
LEMMA SoloKinds ==
  ASSUME SoloInv, NEW w \in Workers, AnyStep(w)
  PROVE  SoloStep(w)
  <1>0. TypeOK /\ TableInv /\ SessionInv /\ steps \in Seq(Step)
    BY DEF SoloInv, IInv, TypeOK
  <1>1. CASE \/ ReplayAll(w) \/ RejectRun(w) \/ ParkRun(w) \/ MarkReplayed(w) \/ FailRun(w)
             \/ Crash(w) \/ ResumeFails(w) \/ StoreOutage(w)
    <2>1. pc'[w] \in {"idle", "markReplayed"} /\ UNCHANGED steps
      BY <1>0, <1>1 DEF ReplayAll, RejectRun, ParkRun, MarkReplayed, FailRun, Crash, ResumeFails,
         StoreOutage, EndRequest, NewRequest, TypeOK, dbVars, reqVars
    <2>2. \/ UNCHANGED status /\ (CrashAllowed \/ LookupFaults \/ StoreFaults
                                    \/ pc[w] \in {"idle", "markReplayed"})
          \/ status' = "REJECTED" /\ pc[w] = "rejectRun"
          \/ status' = "WAITING_APPROVAL" /\ pc[w] = "parkRun"
          \/ status' = "FAILED" /\ pc[w] = "failRun"
      BY <1>1 DEF ReplayAll, RejectRun, ParkRun, MarkReplayed, FailRun, Crash, ResumeFails,
         StoreOutage, NewRequest, dbVars
    <2>3. CrashAllowed \/ LookupFaults \/ pc[w] \notin Deciding \cup {"rejectRun"} \/ status' = "REJECTED"
      BY <1>1 DEF ReplayAll, RejectRun, ParkRun, MarkReplayed, FailRun, Crash, ResumeFails,
         StoreOutage, NewRequest, Deciding
    <2>4. (UNCHANGED effects /\ (CrashAllowed \/ pc[w] # "snapshot")) \/ StoreFaults
      BY <1>1 DEF ReplayAll, RejectRun, ParkRun, MarkReplayed, FailRun, Crash, ResumeFails,
         StoreOutage, NewRequest, histVars
    <2>5. Ends(w)
      BY <2>1, <2>2, <2>3, <2>4 DEF Ends
    <2>6. QED
      BY <2>5 DEF SoloStep
  <1>2. CASE CompleteRun(w)
    <2>1. /\ pc[w] = "loop" /\ queue[w] = <<>> /\ status' = "SUCCESS" /\ UNCHANGED <<steps, effects>>
          /\ pc'[w] \in {"idle", "markReplayed"}
      BY <1>0, <1>2 DEF CompleteRun, EndRequest, Goto, TypeOK, histVars
    <2>2. Ends(w)
      BY <2>1 DEF Ends, Deciding
    <2>3. QED
      BY <2>2 DEF SoloStep
  <1>3. CASE LoadForDecision(w) \/ LoadForReplay(w)
    <2>1. Loads(w)
      BY <1>0, <1>3 DEF LoadForDecision, LoadForReplay, NewRequest, Goto, Loads, TypeOK, dbVars
    <2>2. QED
      BY <2>1 DEF SoloStep
  <1>4. CASE ApproveStep(w) \/ RejectStep(w)
    BY <1>4, SoloDecides DEF SoloStep
  <1>5. CASE Reload(w)
    <2>1. view[w] = steps
      BY <1>0, <1>5 DEF Reload, SessionInv, Deciding
    <2>2. Reread(view[w]) = steps
      BY <1>0, <2>1, RereadSame
    <2>3. Rereads(w)
      BY <1>0, <1>5, <2>2 DEF Reload, Goto, Rereads, TypeOK, dbVars, histVars
    <2>4. QED
      BY <2>3 DEF SoloStep
  <1>6. CASE ExecuteNewRun(w)
    <2>1. steps = <<>>
      BY <1>0, <1>6 DEF ExecuteNewRun, TableInv
    <2>2. ContextOf(steps) = EmptyContext
      BY <2>1, ContextEmpty
    <2>3. Enters(w)
      BY <1>0, <1>6, <2>2 DEF ExecuteNewRun, NewRequest, Traverse, Goto, Enters, TypeOK
    <2>4. QED
      BY <2>3 DEF SoloStep
  <1>7. CASE MarkRunning(w)
    <2>1. view[w] = steps /\ seen[w] = status
      BY <1>0, <1>7 DEF MarkRunning, SessionInv, Deciding
    <2>2. status' = "RUNNING"
      BY <1>7, <2>1 DEF MarkRunning
    <2>3. Enters(w)
      BY <1>0, <1>7, <2>1, <2>2 DEF MarkRunning, Traverse, Goto, Enters, TypeOK, histVars
    <2>4. QED
      BY <2>3 DEF SoloStep
  <1>8. CASE SkipVisited(w)
    <2>1. Skips(w)
      BY <1>0, <1>8 DEF SkipVisited, AtHead, Skips, TypeOK, dbVars, reqVars, histVars
    <2>2. QED
      BY <2>1 DEF SoloStep
  <1>9. CASE SkipCompleted(w)
    <2>1. Skips(w)
      BY <1>0, <1>9 DEF SkipCompleted, AtHead, Skips, TypeOK, dbVars, reqVars, histVars
    <2>2. QED
      BY <2>1 DEF SoloStep
  <1>10. CASE ParkApprovalStep(w)
    <2>1. PICK n \in Approvals \ visited[w] : RecordStep(w, n, "WAITING_APPROVAL") /\ Goto(w, "parkRun")
      BY <1>10 DEF ParkApprovalStep
    <2>2. Inserts(w, n)
      BY <1>0, <2>1, NodesAssumption DEF RecordStep, Goto, Inserts, TypeOK, histVars
    <2>3. QED
      BY <2>2 DEF SoloStep
  <1>11. CASE BeginStep(w)
    <2>1. PICK n \in Nodes \ (Approvals \cup visited[w]) :
            /\ RecordStep(w, n, "RUNNING") /\ cur' = [cur EXCEPT ![w] = Len(steps) + 1]
            /\ Goto(w, IF n \in Connected THEN "guard" ELSE "dispatch")
      BY <1>11 DEF BeginStep
    <2>2. Inserts(w, n)
      BY <1>0, <2>1 DEF RecordStep, Goto, Inserts, TypeOK, histVars
    <2>3. QED
      BY <2>2 DEF SoloStep
  <1>12. ASSUME pc[w] \in Busy
         PROVE  cur[w] \in 1 .. Len(steps) /\ steps[cur[w]] \in Step /\ Current(w) = steps[cur[w]].node
    BY <1>0, <1>12 DEF SoloInv, IInv, OwnRowInv, TypeOK, Current
  <1>13. ASSUME pc[w] \in {"guard", "failStep"}, SetStep(w, "FAILED"), Goto(w, "deadLetter"),
                UNCHANGED <<status, queue, visited, ctx, cur, effects>>
         PROVE  SoloStep(w)
    <2> DEFINE row == [steps[cur[w]] EXCEPT !.status = "FAILED"]
    <2>1. pc[w] \in Busy
      BY <1>13 DEF Busy
    <2>2. row \in Step /\ row.node = Current(w) /\ row.status = "FAILED"
      BY <1>12, <2>1 DEF Step, StepStatus
    <2>3. steps' = [steps EXCEPT ![cur[w]] = row]
      BY <1>13 DEF SetStep
    <2>4. pc'[w] = "deadLetter"
      BY <1>0, <1>13 DEF Goto, TypeOK
    <2> HIDE DEF row
    <2>5. Fails(w, row)
      BY <1>13, <2>2, <2>3, <2>4 DEF Fails
    <2>6. QED
      BY <2>5 DEF SoloStep
  <1>14. CASE BreakerGuard(w)
    <2>1. pc[w] = "guard" /\ UNCHANGED <<status, queue, visited, ctx, cur, effects>>
      BY <1>14 DEF BreakerGuard, travVars, nodeVars, histVars
    <2>2. CASE Goto(w, "dispatch") /\ UNCHANGED steps
      <3>1. pc'[w] = "dispatch"
        BY <1>0, <2>2 DEF Goto, TypeOK
      <3>2. Works(w)
        BY <2>1, <2>2, <3>1 DEF Works, Owning, Busy
      <3>3. QED
        BY <3>2 DEF SoloStep
    <2>3. CASE Goto(w, "deadLetter") /\ SetStep(w, "FAILED")
      BY <1>13, <2>1, <2>3
    <2>4. QED
      BY <1>14, <2>2, <2>3 DEF BreakerGuard
  <1>15. CASE FailStep(w)
    BY <1>13, <1>15 DEF FailStep, travVars, nodeVars, histVars
  <1>16. CASE Dispatch(w)
    <2>1. pc[w] = "dispatch" /\ UNCHANGED <<status, steps, queue, visited, ctx, cur>>
      BY <1>16 DEF Dispatch, dbVars, travVars
    <2>2. \/ pc'[w] \in {"dispatch", "failStep"} /\ (UNCHANGED effects \/ StoreFaults)
          \/ pc'[w] = "snapshot" /\ effects' = [effects EXCEPT ![Current(w)] = @ + 1]
      BY <1>0, <1>16, <2>1 DEF Dispatch, Failed, Goto, TypeOK
    <2>3. Works(w)
      BY <2>1, <2>2 DEF Works, Owning, Busy
    <2>4. QED
      BY <2>3 DEF SoloStep
  <1>17. CASE RouteToDlq(w)
    <2>1. Letters(w)
      BY <1>0, <1>17 DEF RouteToDlq, Letters, Goto, TypeOK, travVars, nodeVars, histVars
    <2>2. QED
      BY <2>1 DEF SoloStep
  <1>18. CASE Snapshot(w)
    <2>1. PICK out \in Outputs :
            /\ pc[w] = "snapshot" /\ Goto(w, "loop")
            /\ steps' = [steps EXCEPT ![cur[w]] =
                           [node |-> Current(w), status |-> "SUCCESS", output |-> out]]
            /\ ctx' = [ctx EXCEPT ![w] = [ctx[w] EXCEPT ![Current(w)] = out]]
            /\ queue' = [queue EXCEPT ![w] =
                           @ \o Successors(Current(w), [ctx[w] EXCEPT ![Current(w)] = out])]
            /\ UNCHANGED <<status, visited, effects>>
      BY <1>18 DEF Snapshot, histVars
    <2> DEFINE row == [node |-> Current(w), status |-> "SUCCESS", output |-> out]
    <2>2. pc[w] \in Busy
      BY <2>1 DEF Busy
    <2>3. Current(w) \in Nodes
      BY <1>12, <2>2 DEF Step
    <2>4. row \in Step /\ row.node = Current(w) /\ row.status = "SUCCESS" /\ row.output = out
      BY <2>3 DEF Step, StepStatus
    <2>5. steps' = [steps EXCEPT ![cur[w]] = row]
      BY <2>1
    <2> HIDE DEF row
    <2>6. pc'[w] = "loop" /\ ctx'[w] = [ctx[w] EXCEPT ![Current(w)] = out]
      BY <1>0, <2>1 DEF Goto, TypeOK
    <2>7. queue'[w] = queue[w] \o Successors(Current(w), ctx'[w])
      BY <1>0, <2>1, <2>6 DEF TypeOK
    <2>8. Succeeded(w, row)
      BY <2>1, <2>4, <2>5, <2>6, <2>7 DEF Succeeded
    <2>9. QED
      BY <2>8 DEF SoloStep
  <1>19. QED
    BY <1>1, <1>2, <1>3, <1>4, <1>5, <1>6, <1>7, <1>8, <1>9, <1>10, <1>11, <1>14, <1>15, <1>16,
       <1>17, <1>18 DEF AnyStep, Request, Progress
\* What a step does to the table: rows stay, completed ones with their output,
\* and what an edge condition took for true stays true.
Grows ==
    /\ Len(steps) <= Len(steps')
    /\ \A i \in 1 .. Len(steps) :
          /\ steps'[i].node = steps[i].node
          /\ steps[i].status = "SUCCESS" => steps'[i] = steps[i]
    /\ Filled(steps')
    /\ \A n \in Nodes : ContextOf(steps)[n] \in Truthy => ContextOf(steps')[n] \in Truthy

\* A new row is not completed.
LEMMA InsertGrows ==
  ASSUME SoloInv, TypeOK', NEW w \in Workers, NEW n, Inserts(w, n)
  PROVE  /\ Grows /\ ContextOf(steps') = ContextOf(steps)
         /\ Len(steps') = Len(steps) + 1 /\ steps'[Len(steps) + 1].node = n
         /\ steps'[Len(steps) + 1].status # "SUCCESS"
         /\ pc'[w] = "parkRun" => steps'[Len(steps) + 1].status = "WAITING_APPROVAL"
         /\ \A i \in 1 .. Len(steps) : steps'[i] = steps[i]
  <1>0. steps \in Seq(Step) /\ steps' \in Seq(Step) /\ Len(steps) \in Nat /\ Filled(steps)
    BY DEF SoloInv, IInv, TypeOK, TableInv
  <1>1. PICK s \in {"WAITING_APPROVAL", "RUNNING"} :
          /\ steps' = Append(steps, [node |-> n, status |-> s, output |-> NoOutput])
          /\ pc'[w] = "parkRun" => s = "WAITING_APPROVAL"
    BY DEF Inserts
  <1> DEFINE row == [node |-> n, status |-> s, output |-> NoOutput]
  <1>2. row \in Step /\ row.status = s /\ row.node = n /\ row.status # "SUCCESS"
    BY DEF Inserts, Step, StepStatus
  <1>3. steps' = Append(steps, row)
    BY <1>1
  <1> HIDE DEF row
  <1>4. /\ Len(steps') = Len(steps) + 1 /\ steps'[Len(steps) + 1] = row
        /\ \A i \in 1 .. Len(steps) : steps'[i] = steps[i]
        /\ \A m \in Nodes : ContextOf(steps')[m] = ContextOf(steps)[m]
    BY <1>0, <1>2, <1>3, ContextAppend
  <1>5. ContextOf(steps') = ContextOf(steps)
    BY <1>4 DEF ContextOf
  <1>6. \A i \in 1 .. Len(steps') : i \in 1 .. Len(steps) \/ i = Len(steps) + 1
    BY <1>0, <1>4
  <1>7. Filled(steps')
    BY <1>0, <1>2, <1>4, <1>6 DEF Filled
  <1>8. QED
    BY <1>0, <1>1, <1>2, <1>4, <1>5, <1>7 DEF Grows

\* The row of the worker: RUNNING, of a node without output.
LEMMA OwnRow ==
  ASSUME SoloInv, NEW w \in Workers, pc[w] \in Owning
  PROVE  /\ cur[w] \in 1 .. Len(steps) /\ steps[cur[w]].node = Current(w)
         /\ steps[cur[w]].status = "RUNNING" /\ Current(w) \in Nodes
         /\ ctx[w] = ContextOf(steps) /\ status = "RUNNING"
         /\ \A i : ~ Succeeds(steps, Current(w), i)
  <1>0. steps \in Seq(Step) /\ Filled(steps)
    BY DEF SoloInv, IInv, TypeOK, TableInv
  <1>1. pc[w] \in Busy /\ pc[w] \in Traversing
    BY DEF Owning, Traversing
  <1>2. /\ cur[w] \in 1 .. Len(steps) /\ steps[cur[w]].node = Current(w)
        /\ steps[cur[w]].status = "RUNNING"
        /\ ctx[w] = ContextOf(steps) /\ status = "RUNNING" /\ ctx[w][Current(w)] = NoOutput
    BY <1>1 DEF SoloInv, IInv, OwnRowInv, FailInv, SessionInv, Current
  <1>3. steps[cur[w]] \in Step
    BY <1>0, <1>2
  <1>4. Current(w) \in Nodes
    BY <1>2, <1>3 DEF Step
  <1>5. ~ \E i \in 1 .. Len(steps) : Succeeds(steps, Current(w), i)
    BY <1>0, <1>2, <1>4, ContextHolds
  <1>6. QED
    BY <1>2, <1>4, <1>5 DEF Succeeds

\* A failed row leaves the outputs alone.
LEMMA FailGrows ==
  ASSUME SoloInv, TypeOK', NEW w \in Workers, NEW row, Fails(w, row)
  PROVE  /\ Grows /\ ContextOf(steps') = ContextOf(steps) /\ Len(steps') = Len(steps)
         /\ steps'[cur[w]].status = "FAILED"
         /\ \A i \in 1 .. Len(steps) : i # cur[w] => steps'[i] = steps[i]
  <1>0. steps \in Seq(Step) /\ steps' \in Seq(Step) /\ Len(steps) \in Nat /\ Filled(steps)
    BY DEF SoloInv, IInv, TypeOK, TableInv
  <1>1. pc[w] \in Owning
    BY DEF Fails, Owning, Busy
  <1>2. /\ cur[w] \in 1 .. Len(steps) /\ steps[cur[w]].node = Current(w)
        /\ steps[cur[w]].status = "RUNNING"
    BY <1>1, OwnRow
  <1>3. row \in Step /\ row.node = steps[cur[w]].node /\ row.status = "FAILED"
    BY <1>2 DEF Fails
  <1>4. /\ Len(steps') = Len(steps) /\ steps'[cur[w]] = row
        /\ \A i \in 1 .. Len(steps) : i # cur[w] => steps'[i] = steps[i]
    BY <1>0, <1>2, <1>3 DEF Fails
  <1>5. \A n \in Nodes : ContextOf(steps')[n] = ContextOf(steps)[n]
    BY <1>0, <1>2, <1>3, <1>4, ContextUpdate
  <1>6. ContextOf(steps') = ContextOf(steps)
    BY <1>5 DEF ContextOf
  <1>7. Filled(steps')
    BY <1>0, <1>3, <1>4 DEF Filled
  <1>8. QED
    BY <1>0, <1>2, <1>3, <1>4, <1>5, <1>6, <1>7 DEF Grows

\* A completed row adds the output of its node.
LEMMA SuccessGrows ==
  ASSUME SoloInv, TypeOK', NEW w \in Workers, NEW row, Succeeded(w, row)
  PROVE  /\ Grows /\ Len(steps') = Len(steps) /\ steps'[cur[w]] = row
         /\ \A i \in 1 .. Len(steps) : i # cur[w] => steps'[i] = steps[i]
         /\ ContextOf(steps') = [ContextOf(steps) EXCEPT ![Current(w)] = row.output]
         /\ ContextOf(steps)[Current(w)] = NoOutput
  <1>0. steps \in Seq(Step) /\ steps' \in Seq(Step) /\ Len(steps) \in Nat /\ Filled(steps)
    BY DEF SoloInv, IInv, TypeOK, TableInv
  <1>1. pc[w] \in Owning
    BY DEF Succeeded, Owning, Busy
  <1>2. /\ cur[w] \in 1 .. Len(steps) /\ steps[cur[w]].node = Current(w)
        /\ steps[cur[w]].status = "RUNNING" /\ Current(w) \in Nodes
        /\ \A i : ~ Succeeds(steps, Current(w), i)
    BY <1>1, OwnRow
  <1>3. row \in Step /\ row.node = steps[cur[w]].node /\ row.node = Current(w) /\ row.status = "SUCCESS"
        /\ row.output \in Outputs
    BY <1>2 DEF Succeeded
  <1>a. /\ Len(steps') = Len(steps) /\ steps'[cur[w]] = row
        /\ \A i \in 1 .. Len(steps) : i # cur[w] => steps'[i] = steps[i]
    BY <1>0, <1>2, <1>3 DEF Succeeded
  <1>4. /\ \A n \in Nodes \ {Current(w)} : ContextOf(steps')[n] = ContextOf(steps)[n]
        /\ ContextOf(steps')[Current(w)] = row.output
    <2>1. \A i : ~ Succeeds(steps, row.node, i)
      BY <1>2, <1>3
    <2>2. /\ \A n \in Nodes \ {row.node} : ContextOf(steps')[n] = ContextOf(steps)[n]
          /\ (\A i : ~ Succeeds(steps, row.node, i)) => ContextOf(steps')[row.node] = row.output
      <3>1. cur[w] \in 1 .. Len(steps) /\ row \in Step /\ row.node = steps[cur[w]].node
            /\ steps[cur[w]].status # "SUCCESS" /\ row.status = "SUCCESS"
        BY <1>2, <1>3
      <3>2. QED
        BY <1>0, <1>a, <3>1, ContextUpdate
    <2>3. QED
      BY <1>3, <2>1, <2>2
  <1>5. ContextOf(steps)[Current(w)] = NoOutput
    BY <1>0, <1>2, ContextNone
  <1>6. ContextOf(steps') = [ContextOf(steps) EXCEPT ![Current(w)] = row.output]
    <2>1. \A u : DOMAIN ContextOf(u) = Nodes /\ ContextOf(u) = [n \in Nodes |-> ContextOf(u)[n]]
      BY DEF ContextOf
    <2>2. QED
      BY <1>2, <1>4, <2>1
  <1>7. Filled(steps')
    BY <1>0, <1>3, <1>a DEF Filled
  <1>8. \A n \in Nodes : ContextOf(steps)[n] \in Truthy => ContextOf(steps')[n] \in Truthy
    BY <1>4, <1>5, NodesAssumption
  <1>9. QED
    BY <1>0, <1>2, <1>3, <1>a, <1>5, <1>6, <1>7, <1>8 DEF Grows

\* A decision completes a parked row, with an output that is true, or rejects it.
LEMMA DecisionGrows ==
  ASSUME SoloInv, TypeOK', NEW w \in Workers, NEW i, NEW row, DecidedRow(w, i, row)
  PROVE  /\ Grows /\ Len(steps') = Len(steps) /\ steps'[i] = row
         /\ \A k \in 1 .. Len(steps) : k # i => steps'[k] = steps[k]
  <1>0. steps \in Seq(Step) /\ steps' \in Seq(Step) /\ Len(steps) \in Nat /\ Filled(steps)
    BY DEF SoloInv, IInv, TypeOK, TableInv
  <1>1. /\ i \in 1 .. Len(steps) /\ row \in Step /\ row.node = steps[i].node
        /\ steps[i].status = "WAITING_APPROVAL"
        /\ row.status \in {"SUCCESS", "REJECTED"} /\ (row.status = "SUCCESS" => row.output \in Truthy)
    BY DEF DecidedRow
  <1>2. /\ Len(steps') = Len(steps) /\ steps'[i] = row
        /\ \A k \in 1 .. Len(steps) : k # i => steps'[k] = steps[k]
    BY <1>0, <1>1 DEF DecidedRow
  <1>3. Filled(steps')
    BY <1>0, <1>1, <1>2, NodesAssumption DEF Filled
  <1>4. /\ row.status # "SUCCESS" => \A n \in Nodes : ContextOf(steps')[n] = ContextOf(steps)[n]
        /\ row.status = "SUCCESS" =>
              /\ \A n \in Nodes \ {row.node} : ContextOf(steps')[n] = ContextOf(steps)[n]
              /\ \/ ContextOf(steps')[row.node] = row.output
                 \/ ContextOf(steps')[row.node] = ContextOf(steps)[row.node]
    BY <1>0, <1>1, <1>2, ContextUpdate
  <1>5. \A n \in Nodes : ContextOf(steps)[n] \in Truthy => ContextOf(steps')[n] \in Truthy
    BY <1>1, <1>4
  <1>6. QED
    BY <1>0, <1>1, <1>2, <1>3, <1>5 DEF Grows

\* So does a step that leaves it alone.
LEMMA SameGrows ==
  ASSUME SoloInv, UNCHANGED steps
  PROVE  Grows
  BY DEF SoloInv, IInv, TypeOK, TableInv, Grows

\* Every step grows the table.
LEMMA SoloGrows ==
  ASSUME SoloInv, TypeOK', NEW w \in Workers, SoloStep(w)
  PROVE  Grows
  <1>1. CASE Ends(w) \/ Loads(w) \/ Rereads(w) \/ Enters(w) \/ Skips(w) \/ Works(w) \/ Letters(w)
    <2>1. UNCHANGED steps
      BY <1>1 DEF Ends, Loads, Rereads, Enters, Skips, Works, Letters
    <2>2. QED
      BY <2>1, SameGrows
  <1>2. CASE Decides(w)
    BY <1>2, DecisionGrows, SameGrows DEF Decides
  <1>3. CASE \E n : Inserts(w, n)
    BY <1>3, InsertGrows
  <1>4. CASE \E row : Fails(w, row)
    BY <1>4, FailGrows
  <1>5. CASE \E row : Succeeded(w, row)
    BY <1>5, SuccessGrows
  <1>6. QED
    BY <1>1, <1>2, <1>3, <1>4, <1>5 DEF SoloStep

\* Every step of the one worker keeps what its session holds true.
LEMMA SoloSession ==
  ASSUME Solo, SoloInv, TypeOK', NEW w \in Workers, SoloStep(w)
  PROVE  TableInv' /\ SessionInv'
  <1>0. TableInv /\ SessionInv
    BY DEF SoloInv
  <1>1. Filled(steps')
    BY SoloGrows DEF Grows
  <1> DEFINE Session ==
          /\ pc'[w] \in {"approve", "reject", "rejectRun"} => status' = "WAITING_APPROVAL"
          /\ pc'[w] \in Deciding => view'[w] = steps' /\ seen'[w] = status'
          /\ pc'[w] \in Traversing => status' = "RUNNING" /\ ctx'[w] = ContextOf(steps')
          /\ pc'[w] \in Owning => ctx'[w][steps'[cur'[w]].node] = NoOutput
  <1>2. SUFFICES Session /\ (status' = "NONE" => steps' = <<>>)
    <2>1. \A u \in Workers : u = w
      BY DEF Solo
    <2>2. QED
      BY <1>1, <1>2, <2>1 DEF TableInv, SessionInv, Current
  <1>3. /\ pc[w] \in {"approve", "reject", "rejectRun"} => status = "WAITING_APPROVAL"
        /\ pc[w] \in Deciding => view[w] = steps /\ seen[w] = status
        /\ pc[w] \in Traversing => status = "RUNNING" /\ ctx[w] = ContextOf(steps)
        /\ pc[w] \in Owning => ctx[w][steps[cur[w]].node] = NoOutput
        /\ status = "NONE" => steps = <<>>
    BY <1>0 DEF SessionInv, TableInv, Current
  <1>4. CASE Ends(w)
    BY <1>3, <1>4 DEF Ends, Deciding, Traversing, Owning, Busy
  <1>5. CASE Loads(w)
    BY <1>3, <1>5 DEF Loads, Deciding, Traversing, Owning, Busy
  <1>6. CASE Decides(w)
    BY <1>3, <1>6 DEF Decides, Deciding, Traversing, Owning, Busy
  <1>7. CASE Rereads(w)
    BY <1>3, <1>7 DEF Rereads, Deciding, Traversing, Owning, Busy
  <1>8. CASE Enters(w)
    BY <1>3, <1>8 DEF Enters, Deciding, Traversing, Owning, Busy
  <1>9. CASE Skips(w)
    BY <1>3, <1>9 DEF Skips, Deciding, Traversing, Owning, Busy
  <1>10. ASSUME NEW n, Inserts(w, n) PROVE Session /\ (status' = "NONE" => steps' = <<>>)
    <2>1. /\ ContextOf(steps') = ContextOf(steps) /\ steps'[Len(steps) + 1].node = n
      BY <1>10, InsertGrows
    <2>2. pc[w] = "loop" /\ ctx[w][n] = NoOutput /\ UNCHANGED <<status, ctx>>
          /\ pc'[w] \in {"parkRun", "guard", "dispatch"}
          /\ (pc'[w] # "parkRun" => cur'[w] = Len(steps) + 1)
      BY <1>10 DEF Inserts, AtHead
    <2>3. QED
      BY <1>3, <2>1, <2>2 DEF Deciding, Traversing, Owning, Busy
  <1>11. CASE Works(w)
    BY <1>3, <1>11 DEF Works, Deciding, Traversing, Owning, Busy
  <1>12. ASSUME NEW row, Fails(w, row) PROVE Session /\ (status' = "NONE" => steps' = <<>>)
    <2>1. ContextOf(steps') = ContextOf(steps)
      BY <1>12, FailGrows
    <2>2. QED
      BY <1>3, <1>12, <2>1 DEF Fails, Deciding, Traversing, Owning, Busy
  <1>13. CASE Letters(w)
    BY <1>3, <1>13 DEF Letters, Deciding, Traversing, Owning, Busy
  <1>14. ASSUME NEW row, Succeeded(w, row) PROVE Session /\ (status' = "NONE" => steps' = <<>>)
    <2>1. ContextOf(steps') = [ContextOf(steps) EXCEPT ![Current(w)] = row.output]
      BY <1>14, SuccessGrows
    <2>2. QED
      BY <1>3, <1>14, <2>1 DEF Succeeded, Deciding, Traversing, Owning, Busy
  <1>15. QED
    BY <1>4, <1>5, <1>6, <1>7, <1>8, <1>9, <1>10, <1>11, <1>12, <1>13, <1>14 DEF SoloStep

LEMMA InitSolo == Init => SoloInv
  <1> SUFFICES ASSUME Init PROVE TableInv /\ SessionInv
    BY InitInv, InitFail DEF SoloInv
  <1>1. \A w \in Workers : pc[w] = "idle"
    BY DEF Init
  <1>2. QED
    BY <1>1 DEF Init, TableInv, Filled, SessionInv, Deciding, Traversing, Owning, Busy

LEMMA NextSolo ==
  ASSUME Solo, SoloInv, [Next]_vars
  PROVE  SoloInv'
  <1>1. IInv' /\ FailInv' /\ TypeOK'
    BY NextInv, NextFail DEF SoloInv, IInv
  <1>2. CASE Next
    <2>1. PICK w \in Workers : AnyStep(w)
      BY <1>2 DEF Next, AnyStep
    <2>2. TableInv' /\ SessionInv'
      BY <1>1, <2>1, SoloKinds, SoloSession
    <2>3. QED
      BY <1>1, <2>2 DEF SoloInv
  <1>3. CASE UNCHANGED vars
    <2>1. TableInv' /\ SessionInv'
      BY <1>3 DEF vars, dbVars, travVars, nodeVars, reqVars, SoloInv, TableInv, Filled, SessionInv, Current
    <2>2. QED
      BY <1>1, <2>1 DEF SoloInv
  <1>4. QED
    BY <1>2, <1>3

\* When requests are served one after the other, a completed step stays completed,
\* for every workflow graph, whatever crashes, faults, decisions and replays come
\* in between.
THEOREM SoloStepsStay == Solo => (Spec => CompletedStepsStay)
  <1> SUFFICES ASSUME Solo PROVE Spec => CompletedStepsStay
    OBVIOUS
  <1>1. SoloInv /\ [Next]_vars => SoloInv'
    BY NextSolo
  <1>2. SoloInv /\ [Next]_vars =>
          [\A i \in 1 .. Len(steps) : steps[i].status = "SUCCESS" => steps'[i].status = "SUCCESS"]_vars
    <2> SUFFICES ASSUME SoloInv, Next
                 PROVE  \A i \in 1 .. Len(steps) :
                          steps[i].status = "SUCCESS" => steps'[i].status = "SUCCESS"
      OBVIOUS
    <2>1. PICK w \in Workers : AnyStep(w)
      BY DEF Next, AnyStep
    <2>2. TypeOK'
      BY NextInv DEF SoloInv, IInv
    <2>3. Grows
      BY <2>1, <2>2, SoloKinds, SoloGrows
    <2>4. QED
      BY <2>3 DEF Grows
  <1>3. QED
    BY InitSolo, <1>1, <1>2, PTL DEF Spec, CompletedStepsStay
-----------------------------------------------------------------------------
(* Dispatches and parked rows, one request at a time *)

\* A step kind that is not about the dispatched node.
Aside(w) ==
    \/ Loads(w) \/ Decides(w) \/ Rereads(w) \/ Enters(w) \/ Skips(w)
    \/ (\E n : Inserts(w, n)) \/ (\E row : Fails(w, row)) \/ Letters(w)

LEMMA AsideIdle ==
  ASSUME NEW w \in Workers, Aside(w)
  PROVE  UNCHANGED effects /\ pc[w] # "snapshot"
  BY DEF Aside, Loads, Decides, Rereads, Enters, Skips, Inserts, AtHead, Fails, Letters

\* A completed step stays among the completed ones.
LEMMA SucceededGrow ==
  ASSUME SoloInv, TypeOK', Grows
  PROVE  SucceededNodes \subseteq SucceededNodes'
  <1>1. Len(steps) \in Nat /\ Len(steps') \in Nat
    BY DEF SoloInv, IInv, TypeOK
  <1>2. \A i \in 1 .. Len(steps) :
           steps[i].status = "SUCCESS" =>
              i \in 1 .. Len(steps') /\ steps'[i].status = "SUCCESS" /\ steps'[i].node = steps[i].node
    BY <1>1 DEF Grows
  <1>3. QED
    BY <1>2 DEF SucceededNodes

\* What a node's dispatches have left behind: the SUCCESS row, or a request
\* about to write it.
OnceInv ==
    \A n \in Nodes :
      /\ effects[n] <= 1
      /\ effects[n] = 1 => \/ n \in SucceededNodes
                           \/ \E w \in Workers : pc[w] = "snapshot" /\ Current(w) = n

\* Every dispatch that takes effect is recorded before the request ends.
Recorded == ~ CrashAllowed /\ ~ StoreFaults

LEMMA OnceKept ==
  ASSUME Solo, Recorded, SoloInv, OnceInv, TypeOK', NEW w \in Workers, SoloStep(w)
  PROVE  OnceInv'
  <1>0. /\ effects \in [Nodes -> Nat] /\ \A u \in Workers : u = w
    BY DEF SoloInv, IInv, TypeOK, Solo
  <1>1. SucceededNodes \subseteq SucceededNodes'
    BY SoloGrows, SucceededGrow
  <1>2. \A n \in Nodes : /\ effects[n] <= 1
                         /\ effects[n] = 1 => \/ n \in SucceededNodes
                                              \/ pc[w] = "snapshot" /\ Current(w) = n
    BY <1>0 DEF OnceInv
  <1>3. SUFFICES \A n \in Nodes : /\ effects'[n] <= 1
                                  /\ effects'[n] = 1 => \/ n \in SucceededNodes'
                                                        \/ pc'[w] = "snapshot" /\ Current(w)' = n
    BY DEF OnceInv
  <1>4. ASSUME UNCHANGED effects, pc[w] # "snapshot"
        PROVE  \A n \in Nodes : /\ effects'[n] <= 1
                                /\ effects'[n] = 1 => n \in SucceededNodes'
    BY <1>1, <1>2, <1>4
  <1>5. CASE Aside(w)
    BY <1>4, <1>5, AsideIdle
  <1>6. CASE Ends(w)
    BY <1>4, <1>6 DEF Ends, Recorded
  <1>7. CASE Works(w)
    <2>1. pc[w] \in {"guard", "dispatch"} /\ UNCHANGED <<steps, cur>>
          /\ \/ UNCHANGED effects
             \/ pc'[w] = "snapshot" /\ effects' = [effects EXCEPT ![Current(w)] = @ + 1]
      BY <1>7 DEF Works, Recorded
    <2>2. pc[w] \in Owning /\ pc[w] # "snapshot"
      BY <2>1 DEF Owning, Busy
    <2>3. Current(w) \in Nodes /\ \A i : ~ Succeeds(steps, Current(w), i)
      BY <2>2, OwnRow
    <2>4. Current(w) \notin SucceededNodes
      BY <2>3 DEF SucceededNodes, Succeeds
    <2>5. effects[Current(w)] = 0
      BY <1>0, <1>2, <2>2, <2>3, <2>4
    <2>6. Current(w)' = Current(w)
      BY <2>1 DEF Current
    <2>7. CASE UNCHANGED effects
      BY <1>4, <2>2, <2>7
    <2>8. CASE pc'[w] = "snapshot" /\ effects' = [effects EXCEPT ![Current(w)] = @ + 1]
      <3>1. effects'[Current(w)] = 1 /\ \A n \in Nodes : n # Current(w) => effects'[n] = effects[n]
        BY <1>0, <2>3, <2>5, <2>8
      <3>2. QED
        BY <1>1, <1>2, <2>2, <2>6, <2>8, <3>1
    <2>9. QED
      BY <2>1, <2>7, <2>8
  <1>8. ASSUME NEW row, Succeeded(w, row)
        PROVE  \A n \in Nodes : /\ effects'[n] <= 1
                                /\ effects'[n] = 1 => n \in SucceededNodes'
    <2>1. cur[w] \in 1 .. Len(steps)
      <3>1. pc[w] \in Owning
        BY <1>8 DEF Succeeded, Owning, Busy
      <3>2. QED
        BY <3>1, OwnRow
    <2>2. UNCHANGED effects /\ row.status = "SUCCESS" /\ row.node = Current(w)
      BY <1>8 DEF Succeeded
    <2>3. Len(steps') = Len(steps) /\ steps'[cur[w]] = row
      BY <1>8, SuccessGrows
    <2>4. Current(w) \in SucceededNodes'
      BY <2>1, <2>2, <2>3 DEF SucceededNodes
    <2>5. QED
      BY <1>1, <1>2, <2>2, <2>4
  <1>9. QED
    BY <1>5, <1>6, <1>7, <1>8 DEF SoloStep, Aside

\* When requests are served one after the other and every dispatch is recorded,
\* skipping the completed steps gives what the engine promises: no node takes
\* effect twice, for every workflow graph, every retry budget and any sequence of
\* approvals, rejections and replays.
THEOREM RecordedOnce == Solo /\ Recorded => (Spec => []ExactOnce)
  <1> SUFFICES ASSUME Solo, Recorded PROVE Spec => []ExactOnce
    OBVIOUS
  <1>1. Init => SoloInv /\ OnceInv
    BY InitSolo DEF Init, OnceInv
  <1>2. SoloInv /\ OnceInv /\ [Next]_vars => SoloInv' /\ OnceInv'
    <2> SUFFICES ASSUME SoloInv, OnceInv, [Next]_vars PROVE SoloInv' /\ OnceInv'
      OBVIOUS
    <2>1. SoloInv' /\ TypeOK'
      BY NextSolo, NextInv DEF SoloInv, IInv
    <2>2. CASE Next
      <3>1. PICK w \in Workers : AnyStep(w)
        BY <2>2 DEF Next, AnyStep
      <3>2. QED
        BY <2>1, <3>1, SoloKinds, OnceKept
    <2>3. CASE UNCHANGED vars
      BY <2>1, <2>3 DEF vars, dbVars, nodeVars, reqVars, histVars, OnceInv, SucceededNodes, Current
    <2>4. QED
      BY <2>2, <2>3
  <1>3. OnceInv => ExactOnce
    BY DEF OnceInv, ExactOnce
  <1>4. QED
    BY <1>1, <1>2, <1>3, PTL DEF Spec

ParkedRow == \E i \in 1 .. Len(steps) : steps[i].status = "WAITING_APPROVAL"

\* A parked run has its parked row, unless a request is carrying on from the
\* decision on it.
GateRowInv ==
    /\ status = "WAITING_APPROVAL" =>
          ParkedRow \/ \E w \in Workers : pc[w] \in {"rejectRun", "reload", "mark"}
    /\ \A w \in Workers : pc[w] = "parkRun" => ParkedRow

\* A request that has recorded a decision carries on.
CarriesOn == ~ CrashAllowed /\ ~ LookupFaults

LEMMA GateRowKept ==
  ASSUME Solo, CarriesOn, SoloInv, GateRowInv, TypeOK', NEW w \in Workers, SoloStep(w)
  PROVE  GateRowInv'
  <1>0. \A u \in Workers : u = w
    BY DEF Solo
  <1>1. /\ status = "WAITING_APPROVAL" => ParkedRow \/ pc[w] \in {"rejectRun", "reload", "mark"}
        /\ pc[w] = "parkRun" => ParkedRow
        /\ pc[w] \in Traversing => status = "RUNNING"
    BY <1>0 DEF GateRowInv, SoloInv, SessionInv
  <1>2. SUFFICES /\ status' = "WAITING_APPROVAL" => ParkedRow' \/ pc'[w] \in {"rejectRun", "reload", "mark"}
                 /\ pc'[w] = "parkRun" => ParkedRow'
    BY <1>0 DEF GateRowInv
  <1>3. CASE Ends(w)
    <2>1. ParkedRow' = ParkedRow
      BY <1>3 DEF Ends, ParkedRow
    <2>2. QED
      BY <1>1, <1>3, <2>1 DEF Ends, CarriesOn, Deciding, Traversing, Busy
  <1>4. CASE Loads(w)
    <2>1. ParkedRow' = ParkedRow
      BY <1>4 DEF Loads, ParkedRow
    <2>2. QED
      BY <1>1, <1>4, <2>1 DEF Loads
  <1>5. CASE Decides(w) \/ Rereads(w) \/ Enters(w)
    BY <1>5 DEF Decides, Rereads, Enters
  <1>6. CASE Skips(w) \/ Works(w) \/ (\E row : Fails(w, row)) \/ Letters(w) \/ (\E row : Succeeded(w, row))
    BY <1>1, <1>6 DEF Skips, Works, Fails, Letters, Succeeded, Traversing, Owning, Busy
  <1>7. ASSUME NEW n, Inserts(w, n)
        PROVE  status' = "RUNNING" /\ (pc'[w] = "parkRun" => ParkedRow')
    <2>1. /\ Len(steps') = Len(steps) + 1
          /\ pc'[w] = "parkRun" => steps'[Len(steps) + 1].status = "WAITING_APPROVAL"
      BY <1>7, InsertGrows
    <2>2. Len(steps) + 1 \in 1 .. Len(steps')
      BY <2>1 DEF SoloInv, IInv, TypeOK
    <2>3. status' = "RUNNING"
      BY <1>1, <1>7 DEF Inserts, AtHead, Traversing
    <2>4. QED
      BY <2>1, <2>2, <2>3 DEF ParkedRow
  <1>8. QED
    BY <1>3, <1>4, <1>5, <1>6, <1>7 DEF SoloStep

\* When requests are served one after the other and none that has recorded a
\* decision is cut short, a run at rest in WAITING_APPROVAL has a parked row, so
\* an operator can always move it on.
THEOREM ParkedHasGate == Solo /\ CarriesOn => (Spec => []ParkedRunHasGate)
  <1> SUFFICES ASSUME Solo, CarriesOn PROVE Spec => []ParkedRunHasGate
    OBVIOUS
  <1>1. Init => SoloInv /\ GateRowInv
    BY InitSolo DEF Init, GateRowInv
  <1>2. SoloInv /\ GateRowInv /\ [Next]_vars => SoloInv' /\ GateRowInv'
    <2> SUFFICES ASSUME SoloInv, GateRowInv, [Next]_vars PROVE SoloInv' /\ GateRowInv'
      OBVIOUS
    <2>1. SoloInv' /\ TypeOK'
      BY NextSolo, NextInv DEF SoloInv, IInv
    <2>2. CASE Next
      <3>1. PICK w \in Workers : AnyStep(w)
        BY <2>2 DEF Next, AnyStep
      <3>2. QED
        BY <2>1, <3>1, SoloKinds, GateRowKept
    <2>3. CASE UNCHANGED vars
      BY <2>1, <2>3 DEF vars, dbVars, reqVars, GateRowInv, ParkedRow
    <2>4. QED
      BY <2>2, <2>3
  <1>3. GateRowInv => ParkedRunHasGate
    BY DEF GateRowInv, ParkedRunHasGate, ParkedRow, Quiet
  <1>4. QED
    BY <1>1, <1>2, <1>3, PTL DEF Spec
-----------------------------------------------------------------------------
(* The queue, one request at a time *)

\* n waits in queue q.
In(n, q) == \E k \in 1 .. Len(q) : q[k] = n

LEMMA InTail ==
  ASSUME NEW S, NEW q \in Seq(S), q # <<>>
  PROVE  /\ In(Head(q), q) /\ Tail(q) \in Seq(S)
         /\ \A n : In(n, Tail(q)) => In(n, q)
         /\ \A n : In(n, q) => n = Head(q) \/ In(n, Tail(q))
  <1>1. /\ Len(q) \in Nat /\ Len(q) >= 1 /\ Head(q) = q[1] /\ Tail(q) \in Seq(S)
        /\ Len(Tail(q)) = Len(q) - 1 /\ \A k \in 1 .. Len(q) - 1 : Tail(q)[k] = q[k + 1]
    OBVIOUS
  <1>2. 1 \in 1 .. Len(q)
    BY <1>1
  <1>3. ASSUME NEW n, In(n, Tail(q)) PROVE In(n, q)
    <2>1. PICK k \in 1 .. Len(q) - 1 : Tail(q)[k] = n
      BY <1>1, <1>3 DEF In
    <2>2. k + 1 \in 1 .. Len(q) /\ q[k + 1] = n
      BY <1>1, <2>1
    <2>3. QED
      BY <2>2 DEF In
  <1>4. ASSUME NEW n, In(n, q), n # Head(q) PROVE In(n, Tail(q))
    <2>1. PICK k \in 1 .. Len(q) : q[k] = n
      BY <1>4 DEF In
    <2>2. k - 1 \in 1 .. Len(q) - 1 /\ (k - 1) + 1 = k
      BY <1>1, <1>4, <2>1
    <2>3. Tail(q)[k - 1] = n
      BY <1>1, <2>1, <2>2
    <2>4. QED
      BY <1>1, <2>2, <2>3 DEF In
  <1>5. QED
    BY <1>1, <1>2, <1>3, <1>4 DEF In

LEMMA InConcat ==
  ASSUME NEW S, NEW q \in Seq(S), NEW r \in Seq(S), NEW n
  PROVE  In(n, q \o r) <=> In(n, q) \/ In(n, r)
  <1>1. /\ Len(q) \in Nat /\ Len(r) \in Nat /\ Len(q \o r) = Len(q) + Len(r)
        /\ \A k \in 1 .. Len(q) + Len(r) :
              (q \o r)[k] = IF k <= Len(q) THEN q[k] ELSE r[k - Len(q)]
    OBVIOUS
  <1>2. ASSUME In(n, q \o r) PROVE In(n, q) \/ In(n, r)
    <2>1. PICK k \in 1 .. Len(q) + Len(r) : (q \o r)[k] = n
      BY <1>1, <1>2 DEF In
    <2>2. CASE k <= Len(q)
      BY <1>1, <2>1, <2>2 DEF In
    <2>3. CASE ~ (k <= Len(q))
      <3>1. k - Len(q) \in 1 .. Len(r) /\ r[k - Len(q)] = n
        BY <1>1, <2>1, <2>3
      <3>2. QED
        BY <3>1 DEF In
    <2>4. QED
      BY <2>2, <2>3
  <1>3. ASSUME In(n, q) PROVE In(n, q \o r)
    <2>1. PICK k \in 1 .. Len(q) : q[k] = n
      BY <1>3 DEF In
    <2>2. k \in 1 .. Len(q) + Len(r) /\ k <= Len(q)
      BY <1>1, <2>1
    <2>3. QED
      BY <1>1, <2>1, <2>2 DEF In
  <1>4. ASSUME In(n, r) PROVE In(n, q \o r)
    <2>1. PICK k \in 1 .. Len(r) : r[k] = n
      BY <1>4 DEF In
    <2>2. /\ Len(q) + k \in 1 .. Len(q) + Len(r) /\ ~ (Len(q) + k <= Len(q))
          /\ (Len(q) + k) - Len(q) = k
      BY <1>1, <2>1
    <2>3. (q \o r)[Len(q) + k] = n
      BY <1>1, <2>1, <2>2
    <2>4. QED
      BY <1>1, <2>2, <2>3 DEF In
  <1>5. QED
    BY <1>2, <1>3, <1>4

\* An edge whose condition holds on the outputs of rows v leads from p to n.
Reaches(v, p, n) ==
    \E i \in 1 .. Len(Out[p]) : Out[p][i].target = n /\ Holds(Out[p][i], ContextOf(v))

\* What the engine appends to the queue after n.
LEMMA InSuccessors ==
  ASSUME NEW n \in Nodes, NEW v
  PROVE  /\ Successors(n, ContextOf(v)) \in Seq(Nodes)
         /\ \A m : In(m, Successors(n, ContextOf(v))) => m = n \/ Reaches(v, n, m)
         /\ \A m : Reaches(v, n, m) => In(m, Successors(n, ContextOf(v)))
  <1> DEFINE c == ContextOf(v)
             s == Successors(n, c)
  <1>0. Out[n] \in Seq(Edges) /\ Len(Out[n]) \in Nat
    BY NodesAssumption
  <1>a. \A i \in 1 .. Len(Out[n]) : Out[n][i].target \in Nodes
    <2>1. \A i \in 1 .. Len(Out[n]) : Out[n][i] \in Edges
      BY <1>0
    <2>2. \A e \in Edges : e.target \in Nodes
      BY DEF Edges
    <2>3. QED
      BY <2>1, <2>2
  <1>1. s = [i \in 1 .. Len(Out[n]) |-> IF Holds(Out[n][i], c) THEN Out[n][i].target ELSE n]
    BY DEF Successors
  <1>2. s \in Seq(Nodes) /\ Len(s) = Len(Out[n])
    BY <1>0, <1>a, <1>1
  <1>3. \A i \in 1 .. Len(Out[n]) : s[i] = IF Holds(Out[n][i], c) THEN Out[n][i].target ELSE n
    BY <1>1
  <1> HIDE DEF c, s
  <1>4. /\ \A m : In(m, s) => m = n \/ \E i \in 1 .. Len(Out[n]) : Out[n][i].target = m /\ Holds(Out[n][i], c)
        /\ \A m : (\E i \in 1 .. Len(Out[n]) : Out[n][i].target = m /\ Holds(Out[n][i], c)) => In(m, s)
    BY <1>2, <1>3 DEF In
  <1>5. QED
    BY <1>2, <1>4 DEF c, s, Reaches

\* Edges that lead on keep leading on while the table grows.
LEMMA ReachesGrow ==
  ASSUME Grows, NEW p \in Nodes, NEW n, Reaches(steps, p, n)
  PROVE  Reaches(steps', p, n)
  <1>1. PICK i \in 1 .. Len(Out[p]) : Out[p][i].target = n /\ Holds(Out[p][i], ContextOf(steps))
    BY DEF Reaches
  <1>2. Out[p] \in Seq(Edges)
    BY NodesAssumption
  <1>3. Out[p][i] \in Edges
    BY <1>1, <1>2
  <1>4. Out[p][i].cond \in Nodes \cup {Always}
    BY <1>3 DEF Edges
  <1>5. Holds(Out[p][i], ContextOf(steps'))
    BY <1>1, <1>4 DEF Holds, Grows
  <1>6. QED
    BY <1>1, <1>5 DEF Reaches

IsStart(n) == \E i \in 1 .. Len(StartNodes) : StartNodes[i] = n

\* n has its place in the run: it is a start node, or one of the first k rows is
\* completed and leads to it.
Supported(v, k, n) ==
    \/ IsStart(n)
    \/ \E j \in 1 .. k : v[j].status = "SUCCESS" /\ Reaches(v, v[j].node, n)

LEMMA SupportedGrow ==
  ASSUME SoloInv, Grows, NEW k \in 0 .. Len(steps), NEW n, Supported(steps, k, n)
  PROVE  Supported(steps', k, n)
  <1>0. steps \in Seq(Step)
    BY DEF SoloInv, IInv, TypeOK
  <1>1. ASSUME NEW j \in 1 .. k, steps[j].status = "SUCCESS", Reaches(steps, steps[j].node, n)
        PROVE  steps'[j].status = "SUCCESS" /\ Reaches(steps', steps'[j].node, n)
    <2>1. j \in 1 .. Len(steps)
      BY <1>0, <1>1
    <2>2. steps[j] \in Step
      BY <1>0, <2>1
    <2>3. steps[j].node \in Nodes
      BY <2>2 DEF Step
    <2>4. steps'[j] = steps[j]
      BY <1>1, <2>1 DEF Grows
    <2>5. QED
      BY <1>1, <2>3, <2>4, ReachesGrow
  <1>2. QED
    BY <1>1 DEF Supported

\* Every row, and every node that waits in the queue of the traversal, has its
\* place in the run.
SupportInv ==
    /\ \A i \in 1 .. Len(steps) : Supported(steps, i - 1, steps[i].node)
    /\ \A w \in Workers : pc[w] \in Traversing =>
          \A n : In(n, queue[w]) => n \in visited[w] \/ Supported(steps, Len(steps), n)

\* Rows are of nodes.
LEMMA StepNodes ==
  ASSUME NEW v \in Seq(Step), NEW i \in 1 .. Len(v)
  PROVE  v[i].node \in Nodes
  <1>1. v[i] \in Step
    OBVIOUS
  <1>2. QED
    BY <1>1 DEF Step

\* A node the session holds an output for has a completed row.
LEMMA CompletedRow ==
  ASSUME SoloInv, NEW w \in Workers, pc[w] \in Traversing, NEW n \in Nodes, ctx[w][n] # NoOutput
  PROVE  \E j \in 1 .. Len(steps) : Succeeds(steps, n, j)
  <1>1. steps \in Seq(Step) /\ Filled(steps) /\ ctx[w] = ContextOf(steps)
    BY DEF SoloInv, IInv, TypeOK, TableInv, SessionInv
  <1>2. QED
    BY <1>1, ContextHolds

\* Rows stay supported; only Inserts adds one, for the head of the queue.
LEMMA RowsSupported ==
  ASSUME SoloInv, SupportInv, TypeOK', NEW w \in Workers, SoloStep(w)
  PROVE  /\ \A i \in 1 .. Len(steps') : Supported(steps', i - 1, steps'[i].node)
         /\ Len(steps') > Len(steps) => /\ Len(steps') = Len(steps) + 1
                                        /\ Supported(steps, Len(steps), steps'[Len(steps) + 1].node)
  <1>0. Grows /\ Len(steps) \in Nat /\ Len(steps') \in Nat
    <2>1. Grows
      BY SoloGrows
    <2>2. QED
      BY <2>1 DEF SoloInv, IInv, TypeOK
  <1>1. ASSUME NEW i \in 1 .. Len(steps) PROVE Supported(steps', i - 1, steps'[i].node)
    <2>1. i - 1 \in 0 .. Len(steps)
      BY <1>0
    <2>2. Supported(steps', i - 1, steps[i].node)
      BY <1>0, <2>1, SupportedGrow DEF SupportInv
    <2>3. QED
      BY <1>0, <2>2 DEF Grows
  <1>2. CASE \E n : Inserts(w, n)
    <2>1. PICK n : Inserts(w, n)
      BY <1>2
    <2>2. Len(steps') = Len(steps) + 1 /\ steps'[Len(steps) + 1].node = n
      BY <2>1, InsertGrows
    <2>3. pc[w] = "loop" /\ queue[w] # <<>> /\ n = Head(queue[w]) /\ n \notin visited[w]
      BY <2>1 DEF Inserts, AtHead
    <2>4. queue[w] \in Seq(Nodes)
      BY DEF SoloInv, IInv, TypeOK
    <2>5. In(n, queue[w])
      BY <2>3, <2>4, InTail
    <2>6. Supported(steps, Len(steps), n)
      BY <2>3, <2>5 DEF SupportInv, Traversing
    <2>7. Supported(steps', Len(steps), n)
      BY <1>0, <2>6, SupportedGrow
    <2>8. \A i \in 1 .. Len(steps') : i \in 1 .. Len(steps) \/ i = Len(steps) + 1
      BY <1>0, <2>2
    <2>9. (Len(steps) + 1) - 1 = Len(steps)
      BY <1>0
    <2>10. QED
      BY <1>1, <2>2, <2>6, <2>7, <2>8, <2>9
  <1>3. ASSUME ~ \E n : Inserts(w, n) PROVE Len(steps') = Len(steps)
    <2>1. CASE Ends(w) \/ Loads(w) \/ Rereads(w) \/ Enters(w) \/ Skips(w) \/ Works(w) \/ Letters(w)
      BY <2>1 DEF Ends, Loads, Rereads, Enters, Skips, Works, Letters
    <2>2. CASE Decides(w)
      BY <2>2, DecisionGrows DEF Decides
    <2>3. CASE \E row : Fails(w, row)
      BY <2>3, FailGrows
    <2>4. CASE \E row : Succeeded(w, row)
      BY <2>4, SuccessGrows
    <2>5. QED
      BY <1>3, <2>1, <2>2, <2>3, <2>4 DEF SoloStep
  <1>4. CASE ~ \E n : Inserts(w, n)
    BY <1>0, <1>1, <1>3, <1>4
  <1>5. QED
    BY <1>2, <1>4

\* What waits in the queue stays supported, with what is appended to it.
LEMMA QueueSupported ==
  ASSUME SoloInv, SupportInv, TypeOK', NEW w \in Workers, SoloStep(w), pc'[w] \in Traversing,
         NEW m, In(m, queue'[w])
  PROVE  m \in visited'[w] \/ Supported(steps', Len(steps'), m)
  <1>0. Grows /\ Len(steps) \in Nat /\ Len(steps') \in Nat /\ Len(steps) <= Len(steps')
    <2>1. Grows
      BY SoloGrows
    <2>2. QED
      BY <2>1 DEF SoloInv, IInv, TypeOK, Grows
  <1>1. queue[w] \in Seq(Nodes) /\ queue'[w] \in Seq(Nodes) /\ steps \in Seq(Step)
        /\ visited[w] \subseteq Nodes
    BY DEF SoloInv, IInv, TypeOK
  <1>2. ASSUME Supported(steps, Len(steps), m) PROVE Supported(steps', Len(steps'), m)
    <2>1. Supported(steps', Len(steps), m)
      BY <1>0, <1>2, SupportedGrow
    <2>2. \A j \in 1 .. Len(steps) : j \in 1 .. Len(steps')
      BY <1>0
    <2>3. QED
      BY <2>1, <2>2 DEF Supported
  <1>3. ASSUME pc[w] \in Traversing, In(m, queue[w]), visited[w] \subseteq visited'[w]
        PROVE  m \in visited'[w] \/ Supported(steps', Len(steps'), m)
    BY <1>2, <1>3 DEF SupportInv
  <1>4. ASSUME NEW n \in Nodes, NEW j \in 1 .. Len(steps'), Succeeds(steps', n, j), Reaches(steps', n, m)
        PROVE  Supported(steps', Len(steps'), m)
    BY <1>4 DEF Supported, Succeeds
  <1>5. CASE Ends(w) \/ Loads(w) \/ Decides(w) \/ Rereads(w)
    BY <1>5 DEF Ends, Loads, Decides, Rereads, Traversing, Busy
  <1>6. CASE Enters(w)
    <2>1. IsStart(m)
      BY <1>6 DEF Enters, In, IsStart
    <2>2. QED
      BY <2>1 DEF Supported
  <1>7. CASE Works(w) \/ Letters(w) \/ \E row : Fails(w, row)
    <2>1. pc[w] \in Traversing /\ queue'[w] = queue[w] /\ visited'[w] = visited[w]
      BY <1>7 DEF Works, Letters, Fails, Traversing, Busy
    <2>2. QED
      BY <1>3, <2>1
  <1>8. CASE \E n : Inserts(w, n)
    <2>1. pc[w] = "loop" /\ queue[w] # <<>> /\ queue'[w] = Tail(queue[w]) /\ visited[w] \subseteq visited'[w]
      BY <1>8 DEF Inserts, AtHead
    <2>2. In(m, queue[w])
      BY <1>1, <2>1, InTail
    <2>3. QED
      BY <1>3, <2>1, <2>2 DEF Traversing
  <1>9. CASE Skips(w)
    <2>1. pc[w] = "loop" /\ queue[w] # <<>> /\ UNCHANGED steps
      BY <1>9 DEF Skips
    <2>2. CASE visited'[w] = visited[w] /\ queue'[w] = Tail(queue[w])
      <3>1. In(m, queue[w])
        BY <1>1, <2>1, <2>2, InTail
      <3>2. QED
        BY <1>3, <2>1, <2>2, <3>1 DEF Traversing
    <2>3. ASSUME NEW n \in Nodes, n = Head(queue[w]), ctx[w][n] # NoOutput,
                 visited'[w] = visited[w] \cup {n},
                 queue'[w] = Tail(queue[w]) \o Successors(n, ctx[w])
          PROVE  m \in visited'[w] \/ Supported(steps', Len(steps'), m)
      <3>1. ctx[w] = ContextOf(steps)
        BY <2>1 DEF SoloInv, SessionInv, Traversing
      <3>2. PICK j \in 1 .. Len(steps) : Succeeds(steps, n, j)
        BY <2>1, <2>3, CompletedRow DEF Traversing
      <3>3. Tail(queue[w]) \in Seq(Nodes) /\ Successors(n, ContextOf(steps)) \in Seq(Nodes)
        BY <1>1, <2>1, <2>3, InTail, InSuccessors
      <3>4. In(m, Tail(queue[w])) \/ In(m, Successors(n, ContextOf(steps)))
        <4>1. In(m, Tail(queue[w]) \o Successors(n, ContextOf(steps)))
          BY <2>3, <3>1
        <4>2. QED
          BY <3>3, <4>1, InConcat
      <3>5. CASE In(m, Tail(queue[w]))
        <4>1. In(m, queue[w])
          BY <1>1, <2>1, <3>5, InTail
        <4>2. QED
          BY <1>3, <2>1, <2>3, <4>1 DEF Traversing
      <3>6. CASE In(m, Successors(n, ContextOf(steps)))
        <4>1. m = n \/ Reaches(steps, n, m)
          BY <2>3, <3>6, InSuccessors
        <4>2. QED
          BY <1>4, <2>1, <2>3, <3>2, <4>1
      <3>7. QED
        BY <3>4, <3>5, <3>6
    <2>4. QED
      BY <1>9, <2>2, <2>3 DEF Skips
  <1>10. ASSUME NEW row, Succeeded(w, row)
         PROVE  m \in visited'[w] \/ Supported(steps', Len(steps'), m)
    <2> DEFINE n == Current(w)
    <2>1. pc[w] \in Owning /\ pc[w] \in Traversing
      BY <1>10 DEF Succeeded, Owning, Busy, Traversing
    <2>2. cur[w] \in 1 .. Len(steps) /\ n \in Nodes /\ ctx[w] = ContextOf(steps) /\ steps[cur[w]].node = n
      BY <2>1, OwnRow
    <2>3. /\ ContextOf(steps') = [ContextOf(steps) EXCEPT ![n] = row.output]
          /\ Len(steps') = Len(steps) /\ steps'[cur[w]] = row
      BY <1>10, SuccessGrows
    <2>4. /\ row.node = n /\ row.status = "SUCCESS" /\ ctx'[w] = [ctx[w] EXCEPT ![n] = row.output]
          /\ queue'[w] = queue[w] \o Successors(n, ctx'[w]) /\ visited'[w] = visited[w]
      BY <1>10 DEF Succeeded
    <2>5. queue'[w] = queue[w] \o Successors(n, ContextOf(steps'))
      BY <2>2, <2>3, <2>4
    <2>6. Succeeds(steps', n, cur[w]) /\ cur[w] \in 1 .. Len(steps')
      BY <2>2, <2>3, <2>4 DEF Succeeds
    <2>7. Supported(steps, Len(steps), n)
      <3>1. Supported(steps, cur[w] - 1, n)
        BY <2>2 DEF SupportInv
      <3>2. \A j \in 1 .. cur[w] - 1 : j \in 1 .. Len(steps)
        BY <1>0, <2>2
      <3>3. QED
        BY <3>1, <3>2 DEF Supported
    <2> HIDE DEF n
    <2>8. In(m, queue[w]) \/ In(m, Successors(n, ContextOf(steps')))
      <3>1. Successors(n, ContextOf(steps')) \in Seq(Nodes)
        BY <2>2, InSuccessors
      <3>2. QED
        BY <1>1, <2>5, <3>1, InConcat
    <2>9. CASE In(m, queue[w])
      BY <1>3, <2>1, <2>4, <2>9
    <2>10. CASE In(m, Successors(n, ContextOf(steps')))
      <3>1. m = n \/ Reaches(steps', n, m)
        BY <2>2, <2>10, InSuccessors
      <3>2. CASE m = n
        BY <1>2, <2>7, <3>2
      <3>3. CASE Reaches(steps', n, m)
        BY <1>4, <2>2, <2>6, <3>3
      <3>4. QED
        BY <3>1, <3>2, <3>3
    <2>11. QED
      BY <2>8, <2>9, <2>10
  <1>11. QED
    BY <1>5, <1>6, <1>7, <1>8, <1>9, <1>10 DEF SoloStep

LEMMA InitSupport == Init => SoloInv /\ SupportInv
  <1> SUFFICES ASSUME Init PROVE SupportInv
    BY InitSolo
  <1>1. \A w \in Workers : pc[w] = "idle"
    BY DEF Init
  <1>2. QED
    BY <1>1 DEF Init, SupportInv, Traversing, Busy

LEMMA NextSupport ==
  ASSUME Solo, SoloInv, SupportInv, [Next]_vars
  PROVE  SoloInv' /\ SupportInv'
  <1>1. SoloInv' /\ TypeOK'
    BY NextSolo, NextInv DEF SoloInv, IInv
  <1>2. CASE Next
    <2>1. PICK w \in Workers : AnyStep(w)
      BY <1>2 DEF Next, AnyStep
    <2>2. SoloStep(w) /\ \A u \in Workers : u = w
      BY <2>1, SoloKinds DEF Solo
    <2>3. \A i \in 1 .. Len(steps') : Supported(steps', i - 1, steps'[i].node)
      BY <1>1, <2>2, RowsSupported
    <2>4. pc'[w] \in Traversing =>
            \A n : In(n, queue'[w]) => n \in visited'[w] \/ Supported(steps', Len(steps'), n)
      BY <1>1, <2>2, QueueSupported
    <2>5. QED
      BY <1>1, <2>2, <2>3, <2>4 DEF SupportInv
  <1>3. CASE UNCHANGED vars
    BY <1>1, <1>3 DEF vars, dbVars, reqVars, travVars, SupportInv
  <1>4. QED
    BY <1>2, <1>3

\* When requests are served one after the other, a resumed execution gives a row
\* only to a start node or to a node that a completed one leads to, for every
\* workflow graph, whatever crashes, faults, decisions and replays come in between.
THEOREM SoloFollowsEdges == Solo => (Spec => StepsFollowEdges)
  <1> SUFFICES ASSUME Solo PROVE Spec => StepsFollowEdges
    OBVIOUS
  <1> DEFINE Placed == LET n == steps'[Len(steps')].node IN
         \/ \E i \in 1 .. Len(StartNodes) : StartNodes[i] = n
         \/ \E p \in SucceededNodes : \E i \in 1 .. Len(Out[p]) :
               Out[p][i].target = n /\ Holds(Out[p][i], ContextOf(steps))
  <1>1. SoloInv /\ SupportInv /\ [Next]_vars => SoloInv' /\ SupportInv'
    BY NextSupport
  <1>2. SoloInv /\ SupportInv /\ [Next]_vars => [Len(steps') > Len(steps) => Placed]_vars
    <2> SUFFICES ASSUME SoloInv, SupportInv, Next, Len(steps') > Len(steps) PROVE Placed
      OBVIOUS
    <2>1. PICK w \in Workers : AnyStep(w)
      BY DEF Next, AnyStep
    <2>2. TypeOK'
      BY NextInv DEF SoloInv, IInv
    <2>3. Len(steps') = Len(steps) + 1 /\ Supported(steps, Len(steps), steps'[Len(steps) + 1].node)
      BY <2>1, <2>2, SoloKinds, RowsSupported
    <2>4. QED
      BY <2>3 DEF Supported, IsStart, Reaches, SucceededNodes
  <1>3. QED
    BY InitSupport, <1>1, <1>2, PTL DEF Spec, StepsFollowEdges
-----------------------------------------------------------------------------
(* A run that succeeds is complete, one request at a time *)

\* Edge conditions test the output of the node the edge starts at.
LocalConditions ==
    \A n \in Nodes : \A i \in 1 .. Len(Out[n]) : Out[n][i].cond \in {Always, n}

Done(v) == {n \in Nodes : \E i : Succeeds(v, n, i)}

LEMMA DoneIs ==
  ASSUME NEW v \in Seq(Step)
  PROVE  Done(v) = {v[i].node : i \in {j \in 1 .. Len(v) : v[j].status = "SUCCESS"}}
  <1>1. \A i \in 1 .. Len(v) : v[i] \in Step
    OBVIOUS
  <1>2. \A i \in 1 .. Len(v) : v[i].node \in Nodes
    BY <1>1 DEF Step
  <1>3. QED
    BY <1>2 DEF Done, Succeeds

\* Nothing is missing in rows v.
Complete(v) ==
    /\ \A n \in Nodes : IsStart(n) => n \in Done(v)
    /\ \A n \in Done(v), m \in Nodes : Reaches(v, n, m) => m \in Done(v)

\* The traversal has been at n, or will come to it.
Ahead(w, n) == n \in visited[w] \/ In(n, queue[w])

Covering == {"loop"} \cup Busy

\* The traversal misses nothing: start nodes and what a node it has been at leads
\* to are ahead, and it has been at completed nodes only, and the one in progress.
CoverInv ==
    /\ \A w \in Workers : pc[w] \in Covering =>
         /\ \A n \in Nodes : IsStart(n) => Ahead(w, n)
         /\ \A n \in visited[w] : n \in Done(steps) \/ (pc[w] \in Busy /\ n = Current(w))
         /\ \A n \in visited[w] \cap Done(steps) : \A m \in Nodes : Reaches(steps, n, m) => Ahead(w, m)
    /\ status = "SUCCESS" => Complete(steps)

\* With an empty queue the traversal has been at every completed node: the first
\* one it missed would be a start node, or an earlier one would lead to it.
LEMMA AllVisited ==
  ASSUME SoloInv, SupportInv, CoverInv, NEW w \in Workers, pc[w] = "loop", queue[w] = <<>>
  PROVE  Complete(steps)
  <1>0. steps \in Seq(Step) /\ Len(steps) \in Nat
    BY DEF SoloInv, IInv, TypeOK
  <1>1. \A n : Ahead(w, n) => n \in visited[w]
    BY DEF Ahead, In
  <1>2. /\ \A n \in Nodes : IsStart(n) => n \in visited[w]
        /\ \A n \in visited[w] : n \in Done(steps)
        /\ \A n \in visited[w] \cap Done(steps) : \A m \in Nodes : Reaches(steps, n, m) => m \in visited[w]
    BY <1>1 DEF CoverInv, Covering, Busy
  <1> DEFINE Missed == {i \in 1 .. Len(steps) : steps[i].status = "SUCCESS" /\ steps[i].node \notin visited[w]}
  <1>3. ASSUME Missed # {} PROVE FALSE
    <2>1. Missed \in SUBSET Nat
      BY <1>0
    <2> HIDE DEF Missed
    <2>2. PICK i \in Missed : \A j \in Missed : i <= j
      BY <1>3, <2>1, LeastNatural
    <2>3. i \in 1 .. Len(steps) /\ steps[i].node \notin visited[w]
      BY <2>2 DEF Missed
    <2>4. steps[i].node \in Nodes
      BY <1>0, <2>3, StepNodes
    <2>5. Supported(steps, i - 1, steps[i].node)
      BY <2>3 DEF SupportInv
    <2>6. PICK j \in 1 .. i - 1 : steps[j].status = "SUCCESS" /\ Reaches(steps, steps[j].node, steps[i].node)
      BY <1>2, <2>3, <2>4, <2>5 DEF Supported
    <2>7. j \in 1 .. Len(steps) /\ ~ (i <= j)
      BY <1>0, <2>3, <2>6
    <2>8. steps[j].node \in visited[w]
      BY <2>2, <2>6, <2>7 DEF Missed
    <2>9. QED
      BY <1>2, <2>3, <2>4, <2>6, <2>8
  <1>4. \A n \in Done(steps) : n \in visited[w]
    BY <1>3 DEF Done, Succeeds
  <1>5. QED
    BY <1>2, <1>4 DEF Complete

\* Rows that hold the same outputs.
LEMMA SameDone ==
  ASSUME NEW v \in Seq(Step), NEW u \in Seq(Step), Filled(v), Filled(u),
         ContextOf(u) = ContextOf(v)
  PROVE  /\ Done(u) = Done(v)
         /\ \A p, n : Reaches(u, p, n) <=> Reaches(v, p, n)
  <1>1. ASSUME NEW n \in Nodes PROVE n \in Done(u) <=> n \in Done(v)
    <2>1. ContextOf(u)[n] # NoOutput <=> \E i \in 1 .. Len(u) : Succeeds(u, n, i)
      BY ContextHolds
    <2>2. ContextOf(v)[n] # NoOutput <=> \E i \in 1 .. Len(v) : Succeeds(v, n, i)
      BY ContextHolds
    <2>3. QED
      BY <2>1, <2>2 DEF Done, Succeeds
  <1>2. Done(u) = Done(v)
    BY <1>1 DEF Done
  <1>3. QED
    BY <1>2 DEF Reaches

\* A step keeps nothing missing ahead of it.
LEMMA CoverKept ==
  ASSUME Solo, LocalConditions, SoloInv, SupportInv, CoverInv, TypeOK', NEW w \in Workers, SoloStep(w)
  PROVE  CoverInv'
  <1>0. /\ steps \in Seq(Step) /\ steps' \in Seq(Step) /\ Len(steps) \in Nat /\ Filled(steps)
        /\ queue[w] \in Seq(Nodes) /\ visited[w] \subseteq Nodes
    BY DEF SoloInv, IInv, TypeOK, TableInv
  <1>1. Grows /\ Filled(steps')
    BY SoloGrows DEF Grows
  <1> DEFINE Was(n) == n \in visited[w] \/ In(n, queue[w])
             Is(n)  == n \in visited'[w] \/ In(n, queue'[w])
             Cover  == pc'[w] \in Covering =>
                /\ \A n \in Nodes : IsStart(n) => Is(n)
                /\ \A n \in visited'[w] : n \in Done(steps') \/ (pc'[w] \in Busy /\ n = steps'[cur'[w]].node)
                /\ \A n \in visited'[w] \cap Done(steps') : \A m \in Nodes : Reaches(steps', n, m) => Is(m)
             Whole  == status' = "SUCCESS" => Complete(steps')
  <1>2. SUFFICES Cover /\ Whole
    <2>1. \A u \in Workers : u = w
      BY DEF Solo
    <2>2. QED
      BY <1>2, <2>1 DEF CoverInv, Ahead, Current
  <1>3. /\ pc[w] \in Covering =>
             /\ \A n \in Nodes : IsStart(n) => Was(n)
             /\ \A n \in visited[w] : n \in Done(steps) \/ (pc[w] \in Busy /\ n = Current(w))
             /\ \A n \in visited[w] \cap Done(steps) : \A m \in Nodes : Reaches(steps, n, m) => Was(m)
        /\ status = "SUCCESS" => Complete(steps)
    BY DEF CoverInv, Ahead
  <1>4. /\ pc[w] \in Traversing => status = "RUNNING" /\ ctx[w] = ContextOf(steps)
        /\ pc[w] \in {"approve", "reject", "rejectRun"} => status = "WAITING_APPROVAL"
    BY DEF SoloInv, SessionInv
  <1>5. CASE Ends(w)
    <2>1. pc'[w] \notin Covering /\ UNCHANGED steps
      BY <1>5 DEF Ends, Covering, Busy
    <2>2. \/ status' # "SUCCESS" \/ status' = status
          \/ pc[w] = "loop" /\ queue[w] = <<>>
      BY <1>5 DEF Ends
    <2>3. Whole
      BY <1>3, <2>1, <2>2, AllVisited
    <2>4. QED
      BY <2>1, <2>3
  <1>6. CASE Loads(w) \/ Rereads(w)
    <2>1. pc'[w] \notin Covering /\ UNCHANGED <<status, steps>>
      BY <1>6 DEF Loads, Rereads, Covering, Busy
    <2>2. QED
      BY <1>3, <2>1
  <1>7. CASE Decides(w)
    <2>1. pc'[w] \notin Covering /\ status' # "SUCCESS"
      BY <1>4, <1>7 DEF Decides, Covering, Busy
    <2>2. QED
      BY <2>1
  <1>8. CASE Enters(w)
    <2>1. status' = "RUNNING" /\ visited'[w] = {} /\ queue'[w] = StartNodes
      BY <1>8 DEF Enters
    <2>2. \A n : IsStart(n) => Is(n)
      BY <2>1 DEF IsStart, In
    <2>3. QED
      BY <2>1, <2>2
  <1>9. CASE Letters(w)
    <2>1. pc'[w] \notin Covering /\ status' # "SUCCESS"
      BY <1>4, <1>9 DEF Letters, Covering, Traversing, Busy
    <2>2. QED
      BY <2>1
  <1>10. CASE Works(w)
    <2>1. /\ pc[w] \in Covering /\ pc'[w] \in Busy /\ status' = "RUNNING"
          /\ queue'[w] = queue[w] /\ visited'[w] = visited[w] /\ steps'[cur'[w]].node = Current(w)
          /\ UNCHANGED steps
      BY <1>4, <1>10 DEF Works, Covering, Traversing, Owning, Busy, Current
    <2>2. QED
      BY <1>3, <2>1
  <1>11. ASSUME NEW row, Fails(w, row) PROVE Cover /\ Whole
    <2>1. /\ pc[w] \in Covering /\ pc'[w] \in Busy /\ status' = "RUNNING"
          /\ queue'[w] = queue[w] /\ visited'[w] = visited[w] /\ UNCHANGED cur /\ pc[w] \in Owning
      BY <1>4, <1>11 DEF Fails, Covering, Traversing, Owning, Busy
    <2>2. ContextOf(steps') = ContextOf(steps)
      BY <1>11, FailGrows
    <2>3. Done(steps') = Done(steps) /\ \A p, n : Reaches(steps', p, n) <=> Reaches(steps, p, n)
      BY <1>0, <1>1, <2>2, SameDone
    <2>4. cur[w] \in 1 .. Len(steps)
      BY <2>1, OwnRow
    <2>5. steps'[cur'[w]].node = Current(w)
      BY <1>1, <2>1, <2>4 DEF Grows, Current
    <2>6. QED
      BY <1>3, <2>1, <2>3, <2>5
  <1>12. ASSUME NEW n, Inserts(w, n) PROVE Cover /\ Whole
    <2>1. /\ pc[w] = "loop" /\ queue[w] # <<>> /\ n = Head(queue[w]) /\ n \in Nodes
          /\ ctx[w][n] = NoOutput /\ status' = "RUNNING"
          /\ visited'[w] = visited[w] \cup {n} /\ queue'[w] = Tail(queue[w])
          /\ pc'[w] \in Covering => pc'[w] \in Busy /\ cur'[w] = Len(steps) + 1
      BY <1>4, <1>12 DEF Inserts, AtHead, Covering, Traversing, Busy
    <2>2. ContextOf(steps') = ContextOf(steps) /\ steps'[Len(steps) + 1].node = n
      BY <1>12, InsertGrows
    <2>3. Done(steps') = Done(steps) /\ \A p, m : Reaches(steps', p, m) <=> Reaches(steps, p, m)
      BY <1>0, <1>1, <2>2, SameDone
    <2>4. n \notin Done(steps)
      <3>1. ContextOf(steps)[n] = NoOutput
        BY <1>4, <2>1 DEF Traversing
      <3>2. ~ \E i \in 1 .. Len(steps) : Succeeds(steps, n, i)
        BY <1>0, <2>1, <3>1, ContextHolds
      <3>3. QED
        BY <3>2 DEF Done, Succeeds
    <2>5. \A m : Was(m) => Is(m)
      BY <1>0, <2>1, InTail
    <2>6. pc[w] \in Covering /\ pc[w] \notin Busy
      BY <2>1 DEF Covering, Busy
    <2> HIDE DEF Was, Is
    <2>7. QED
      BY <1>3, <2>1, <2>2, <2>3, <2>4, <2>5, <2>6
  <1>13. CASE Skips(w)
    <2>1. /\ pc[w] = "loop" /\ pc'[w] = "loop" /\ queue[w] # <<>> /\ UNCHANGED steps /\ status' = "RUNNING"
          /\ ctx[w] = ContextOf(steps)
      BY <1>4, <1>13 DEF Skips, Traversing
    <2>2. pc[w] \in Covering /\ pc[w] \notin Busy
      BY <2>1 DEF Covering, Busy
    <2>3. CASE Head(queue[w]) \in visited[w] /\ visited'[w] = visited[w] /\ queue'[w] = Tail(queue[w])
      <3>1. \A m : Was(m) => Is(m)
        BY <1>0, <2>1, <2>3, InTail
      <3> HIDE DEF Was, Is
      <3>2. QED
        BY <1>3, <2>1, <2>2, <2>3, <3>1
    <2>4. ASSUME NEW n \in Nodes, n = Head(queue[w]), ctx[w][n] # NoOutput,
                 visited'[w] = visited[w] \cup {n},
                 queue'[w] = Tail(queue[w]) \o Successors(n, ctx[w])
          PROVE  Cover /\ Whole
      <3>1. n \in Done(steps)
        BY <2>1, <2>4, CompletedRow DEF Traversing, Done
      <3>2. queue'[w] = Tail(queue[w]) \o Successors(n, ContextOf(steps))
        BY <2>1, <2>4
      <3>3. Tail(queue[w]) \in Seq(Nodes) /\ Successors(n, ContextOf(steps)) \in Seq(Nodes)
        BY <1>0, <2>1, <2>4, InTail, InSuccessors
      <3>4. \A m : In(m, queue'[w]) <=> In(m, Tail(queue[w])) \/ In(m, Successors(n, ContextOf(steps)))
        <4>1. \A m : In(m, Tail(queue[w]) \o Successors(n, ContextOf(steps)))
                       <=> In(m, Tail(queue[w])) \/ In(m, Successors(n, ContextOf(steps)))
          BY <3>3, InConcat
        <4>2. QED
          BY <3>2, <4>1
      <3>5. \A m : In(m, queue[w]) => m = n \/ In(m, Tail(queue[w]))
        BY <1>0, <2>1, <2>4, InTail
      <3>6. \A m : Was(m) => Is(m)
        BY <2>4, <3>4, <3>5
      <3>7. \A m : Reaches(steps, n, m) => Is(m)
        BY <2>4, <3>4, InSuccessors
      <3> HIDE DEF Was, Is
      <3>8. QED
        BY <1>3, <2>1, <2>2, <2>4, <3>1, <3>6, <3>7
    <2>5. QED
      BY <1>13, <2>3, <2>4 DEF Skips
  <1>14. ASSUME NEW row, Succeeded(w, row) PROVE Cover /\ Whole
    <2> DEFINE n == Current(w)
    <2>1. /\ pc[w] \in Owning /\ pc[w] \in Covering /\ pc'[w] = "loop" /\ status' = "RUNNING"
          /\ visited'[w] = visited[w] /\ row.node = n /\ row.status = "SUCCESS"
      BY <1>4, <1>14 DEF Succeeded, Owning, Covering, Traversing, Busy
    <2>2. /\ cur[w] \in 1 .. Len(steps) /\ n \in Nodes /\ ctx[w] = ContextOf(steps)
          /\ steps[cur[w]].node = n /\ steps[cur[w]].status = "RUNNING" /\ \A i : ~ Succeeds(steps, n, i)
      BY <2>1, OwnRow
    <2>3. /\ ContextOf(steps') = [ContextOf(steps) EXCEPT ![n] = row.output]
          /\ Len(steps') = Len(steps) /\ steps'[cur[w]] = row
          /\ \A i \in 1 .. Len(steps) : i # cur[w] => steps'[i] = steps[i]
      BY <1>14, SuccessGrows
    <2>4. queue'[w] = queue[w] \o Successors(n, ContextOf(steps'))
      BY <1>14, <2>2, <2>3 DEF Succeeded
    <2> HIDE DEF n
    <2>5. n \in Done(steps') /\ n \notin Done(steps)
      BY <2>1, <2>2, <2>3 DEF Done, Succeeds
    <2>6. \A m : m \in Done(steps') <=> m \in Done(steps) \/ m = n
      <3>1. \A m, i : m # n => (Succeeds(steps', m, i) <=> Succeeds(steps, m, i))
        BY <2>1, <2>2, <2>3 DEF Succeeds
      <3>2. QED
        BY <2>5, <3>1 DEF Done
    <2>7. ASSUME NEW p \in Nodes, p # n, NEW m, Reaches(steps', p, m) PROVE Reaches(steps, p, m)
      <3>1. PICK i \in 1 .. Len(Out[p]) : Out[p][i].target = m /\ Holds(Out[p][i], ContextOf(steps'))
        BY <2>7 DEF Reaches
      <3>2. Out[p][i].cond \in {Always, p}
        BY <2>7, <3>1 DEF LocalConditions
      <3>3. ContextOf(steps')[p] = ContextOf(steps)[p]
        <4>1. DOMAIN ContextOf(steps) = Nodes
          BY DEF ContextOf
        <4>2. QED
          BY <2>3, <2>7, <4>1
      <3>4. Holds(Out[p][i], ContextOf(steps))
        BY <3>1, <3>2, <3>3 DEF Holds
      <3>5. QED
        BY <3>1, <3>4 DEF Reaches
    <2>8. \A m : In(m, queue'[w]) <=> In(m, queue[w]) \/ In(m, Successors(n, ContextOf(steps')))
      <3>1. Successors(n, ContextOf(steps')) \in Seq(Nodes)
        BY <2>2, InSuccessors
      <3>2. \A m : In(m, queue[w] \o Successors(n, ContextOf(steps')))
                     <=> In(m, queue[w]) \/ In(m, Successors(n, ContextOf(steps')))
        BY <1>0, <3>1, InConcat
      <3>3. QED
        BY <2>4, <3>2
    <2>9. \A m : Was(m) => Is(m)
      BY <2>1, <2>8
    <2>10. \A m : Reaches(steps', n, m) => Is(m)
      BY <2>2, <2>8, InSuccessors
    <2>11. \A p \in visited[w] : p \in Done(steps) \/ p = n
      BY <1>3, <2>1 DEF n
    <2> HIDE DEF Was, Is
    <2>12. \A p \in visited[w] \cap Done(steps') : \A m \in Nodes : Reaches(steps', p, m) => Is(m)
      BY <1>0, <1>3, <2>1, <2>6, <2>7, <2>9, <2>10
    <2>13. QED
      BY <1>3, <2>1, <2>6, <2>9, <2>11, <2>12
  <1>15. QED
    BY <1>5, <1>6, <1>7, <1>8, <1>9, <1>10, <1>11, <1>12, <1>13, <1>14 DEF SoloStep

\* When requests are served one after the other and edge conditions test the node
\* they start at, a run that ends SUCCESS has a completed row for every start node
\* and for every node a completed one leads to, for every workflow graph and any
\* number of crashes, faults, decisions and replays on the way.
THEOREM SuccessComplete == Solo /\ LocalConditions => (Spec => []SuccessIsComplete)
  <1> SUFFICES ASSUME Solo, LocalConditions PROVE Spec => []SuccessIsComplete
    OBVIOUS
  <1> DEFINE J == SoloInv /\ SupportInv /\ CoverInv
  <1>1. Init => J
    <2> SUFFICES ASSUME Init PROVE CoverInv
      BY InitSupport
    <2>1. \A w \in Workers : pc[w] = "idle"
      BY DEF Init
    <2>2. QED
      BY <2>1 DEF Init, CoverInv, Covering, Busy
  <1>2. J /\ [Next]_vars => J'
    <2> SUFFICES ASSUME J, [Next]_vars PROVE J'
      OBVIOUS
    <2>1. SoloInv' /\ SupportInv' /\ TypeOK'
      BY NextSupport, NextInv DEF SoloInv, IInv
    <2>2. CASE Next
      <3>1. PICK w \in Workers : AnyStep(w)
        BY <2>2 DEF Next, AnyStep
      <3>2. QED
        BY <2>1, <3>1, SoloKinds, CoverKept
    <2>3. CASE UNCHANGED vars
      BY <2>1, <2>3 DEF vars, dbVars, reqVars, travVars, nodeVars, CoverInv, Ahead, Current
    <2>4. QED
      BY <2>2, <2>3
  <1>3. J => SuccessIsComplete
    <2> SUFFICES ASSUME J, status = "SUCCESS"
                 PROVE  /\ \A i \in 1 .. Len(StartNodes) : StartNodes[i] \in SucceededNodes
                        /\ \A n \in SucceededNodes : \A i \in 1 .. Len(Out[n]) :
                              Holds(Out[n][i], ContextOf(steps)) => Out[n][i].target \in SucceededNodes
      BY DEF SuccessIsComplete
    <2>1. steps \in Seq(Step)
      BY DEF SoloInv, IInv, TypeOK
    <2>2. SucceededNodes = Done(steps)
      BY <2>1, DoneIs DEF SucceededNodes
    <2>3. Complete(steps) /\ \A n \in Done(steps) : n \in Nodes
      BY DEF CoverInv, Done
    <2>4. \A i \in 1 .. Len(StartNodes) : StartNodes[i] \in Nodes
      BY NodesAssumption
    <2>5. \A n \in Nodes : \A i \in 1 .. Len(Out[n]) : Out[n][i].target \in Nodes
      <3>1. \A n \in Nodes : Out[n] \in Seq(Edges)
        BY NodesAssumption
      <3>2. \A n \in Nodes : \A i \in 1 .. Len(Out[n]) : Out[n][i] \in Edges
        BY <3>1
      <3>3. \A e \in Edges : e.target \in Nodes
        BY DEF Edges
      <3>4. QED
        BY <3>2, <3>3
    <2>6. QED
      BY <2>2, <2>3, <2>4, <2>5 DEF Complete, IsStart, Reaches
  <1>4. QED
    BY <1>1, <1>2, <1>3, PTL DEF Spec
=============================================================================
