-------------------------- MODULE WorkflowEngineProps --------------------------
(***************************************************************************)
(* What WorkflowEngine is checked for.                                     *)
(***************************************************************************)
EXTENDS WorkflowEngine

TypeOK ==
    /\ status \in RunStatus
    /\ steps \in Seq(Step)
    /\ dlq \in Seq(DeadLetter)
    /\ pc \in [Workers -> Labels]
    /\ seen \in [Workers -> RunStatus]
    /\ view \in [Workers -> Seq(Step)]
    /\ queue \in [Workers -> Seq(Nodes)]
    /\ visited \in [Workers -> SUBSET Nodes]
    /\ ctx \in [Workers -> Context]
    /\ cur \in [Workers -> Nat]
    /\ attempt \in [Workers -> 1 .. MaxAttempts]
    /\ item \in [Workers -> Nat]
    /\ effects \in [Nodes -> Nat]
    /\ approved \subseteq Approvals
    /\ requests \in 0 .. MaxRequests

\* Approval gates hold: whatever the interleaving of approvals, rejections,
\* replays, crashes and retries, a node that is only reachable through an
\* approval node has no effect before an operator has approved that node.
GateSafety ==
    \A a \in Approvals : \A n \in Gated[a] : effects[n] > 0 => a \in approved

\* A run is never left FAILED without a dead letter of one of its failed nodes
\* for the operator to replay (_execute_node routes before execute writes FAILED).
FailureIsDeadLettered ==
    status = "FAILED" => \E d \in 1 .. Len(dlq), i \in 1 .. Len(steps) :
                            steps[i].node = dlq[d].node /\ steps[i].status = "FAILED"

Quiet == \A w \in Workers : pc[w] = "idle"

SucceededNodes == {steps[i].node : i \in {j \in 1 .. Len(steps) : steps[j].status = "SUCCESS"}}

\* A SUCCESS run really is complete: every start node has a SUCCESS row, and so
\* has every node an edge leads to whose condition holds on the recorded
\* outputs, even when the run took several resumed executions.
SuccessIsComplete ==
    Quiet /\ status = "SUCCESS" =>
        /\ \A i \in 1 .. Len(StartNodes) : StartNodes[i] \in SucceededNodes
        /\ \A n \in SucceededNodes : \A i \in 1 .. Len(Out[n]) :
              Holds(Out[n][i], ContextOf(steps)) => Out[n][i].target \in SucceededNodes

\* A run parked for approval has a parked step for the decision to land on.
ParkedRunHasGate ==
    Quiet /\ status = "WAITING_APPROVAL" =>
        \E i \in 1 .. Len(steps) : steps[i].status = "WAITING_APPROVAL"

\* engine.py:15 "Skips already-completed steps to guarantee exact-once execution
\* upon recovery": no node of a run is dispatched to completion twice.
ExactOnce == \A n \in Nodes : effects[n] <= 1

\* A completed step row is never taken back to another status.
CompletedStepsStay ==
    [][\A i \in 1 .. Len(steps) : steps[i].status = "SUCCESS" => steps'[i].status = "SUCCESS"]_vars

\* A resumed execution never runs a node ahead of its place: a node gets its
\* first row only if it is a start node or an edge leads to it from a node that
\* has already succeeded.
StepsFollowEdges ==
    [][Len(steps') > Len(steps) =>
         LET n == steps'[Len(steps')].node IN
         \/ \E i \in 1 .. Len(StartNodes) : StartNodes[i] = n
         \/ \E p \in SucceededNodes : \E i \in 1 .. Len(Out[p]) :
               Out[p][i].target = n /\ Holds(Out[p][i], ContextOf(steps))]_vars

\* ARCHITECTURE.md:215 "Steps without unmet dependencies are dispatched
\* concurrently": a node starts only after every node with an edge to it.
DependenciesMet ==
    [][Len(steps') > Len(steps) =>
         LET n == steps'[Len(steps')].node IN
         \A p \in Nodes : (\E i \in 1 .. Len(Out[p]) : Out[p][i].target = n)
                             => p \in SucceededNodes]_vars

\* A run does not stay RUNNING for ever: it parks, succeeds, fails or is rejected.
RunSettles == (status = "RUNNING") ~> (status # "RUNNING")
=============================================================================
