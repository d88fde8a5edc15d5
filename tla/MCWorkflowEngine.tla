--------------------------- MODULE MCWorkflowEngine ---------------------------
(***************************************************************************)
(* Workflow definitions for the runs of WorkflowEngine.                    *)
(***************************************************************************)
EXTENDS WorkflowEngineProps, FiniteSets, TLC

Edge(t, c) == [target |-> t, cond |-> c]

\* A trigger, a connected step, a gate taken when the step's output is true,
\* and a connected step behind the gate.
GateNodes == {"trigger", "charge", "gate", "ship"}
GateOut == [trigger |-> <<Edge("charge", Always)>>,
            charge  |-> <<Edge("gate", "charge")>>,
            gate    |-> <<Edge("ship", Always)>>,
            ship    |-> <<>>]

\* A join: "merge" has an edge from the trigger and one from the end of a branch.
JoinNodes == {"trigger", "branch", "merge"}
JoinOut == [trigger |-> <<Edge("branch", Always), Edge("merge", Always)>>,
            branch  |-> <<Edge("merge", Always)>>,
            merge   |-> <<>>]

\* The same with the edge to the join first: it is queued ahead of the branch.
EarlyJoinOut == [JoinOut EXCEPT !.trigger = <<Edge("merge", Always), Edge("branch", Always)>>]

OneStart == <<"trigger">>

\* The nodes every path to which passes a: those no path avoiding a reaches.
Targets(n) == {Out[n][i].target : i \in 1 .. Len(Out[n])}
Avoiding(a) ==
    LET R[k \in 0 .. Cardinality(Nodes)] ==
          IF k = 0 THEN {StartNodes[i] : i \in 1 .. Len(StartNodes)}
          ELSE R[k - 1] \cup UNION {Targets(n) : n \in R[k - 1] \ {a}}
    IN R[Cardinality(Nodes)]
Dominated == [a \in Approvals |-> Nodes \ (Avoiding(a) \cup {a})]

Symmetry == Permutations(Workers)
=============================================================================
