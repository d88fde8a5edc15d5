--------------------------- MODULE ConnectorCalls ---------------------------
(***************************************************************************)
(* One call of a connector against another system that can refuse it, lose *)
(* the request, lose the answer or be unreachable: Connector.test,         *)
(* Connector.execute and, for the types a node reaches without a           *)
(* connection, the retry loop of the engine around it.                     *)
(*                                                                         *)
(* The other system counts how often it served each record of the call.    *)
(* Only PostgresConnector's insert sends more than one request: one        *)
(* autocommitted INSERT per record.                                        *)
(***************************************************************************)
EXTENDS ConnectorSuite, Integers

CONSTANTS
    Configurations, \* configurations of a call, their operation left "unknown"
    Unadvertised,   \* operations to be asked for that operations() does not list
    MaxRecords,     \* bound: records of one insert
    MaxAttempts     \* retry.max_attempts of the node

ASSUME CallsAssumption ==
    /\ \A cfg \in Configurations : cfg.op = "unknown"
    /\ MaxRecords \in Nat \ {0}
    /\ MaxAttempts \in Nat \ {0}

VARIABLES
    call,       \* the call made: type, configuration c, number of records
    health,     \* what Connector.test said of the connection
    phase,      \* of the caller
    attempt,    \* attempts made
    pos,        \* records the present attempt has been answered for
    served,     \* how often the other system served each record
    lost,       \* answers that never arrived
    open,       \* connections nobody closes
    report      \* OperationResult.success of the last attempt

vars == <<call, health, phase, attempt, pos, served, lost, open, report>>

Links == {"up", "refusing", "down"}

\* Node types _dispatch_node_type hands to a connector; through a connection
\* it fails before it reaches one (get_by_connection_id does not exist).
EngineTypes ==
    {"rest", "postgres", "mysql", "mongodb", "mssql", "oracle", "datalake", "airflow", "aws",
     "aws_s3", "aws_sqs", "aws_sns", "aws_lambda", "aws_dynamodb", "aws_eventbridge",
     "aws_secrets_manager", "aws_cloudwatch", "aws_step_functions", "aws_kms",
     "local", "notification"}

Types == RegisteredTypes \cup {"ibmmq", "local", "notification"}

\* An advertised operation or another name.
CallsOf(type) ==
    [type : {type},
     c : {[cfg EXCEPT !.op = op] : cfg \in Configurations, op \in Operations(type) \cup Unadvertised},
     records : IF type = "postgres" THEN 1..MaxRecords ELSE {1}]

plan == Execute(call.type, call.c)

TypeOK ==
    /\ call.type \in Types
    /\ health \in {"untested", "passed", "failed"}
    /\ phase \in {"idle", "busy", "answered", "done"}
    /\ attempt \in 0..MaxAttempts
    /\ pos \in 0..call.records
    /\ served \in [1..call.records -> 0..MaxAttempts]
    /\ lost \in 0..MaxAttempts
    /\ open \in 0..MaxAttempts
    /\ report \in BOOLEAN

Init ==
    /\ \E type \in Types : call \in CallsOf(type)
    /\ call.records > 1 => call.c.op = "insert"
    /\ health = "untested"
    /\ phase = "idle"
    /\ attempt = 0
    /\ pos = 0
    /\ served = [r \in 1..call.records |-> 0]
    /\ lost = 0
    /\ open = 0
    /\ report = FALSE
-----------------------------------------------------------------------------
\* test() of a connector an operator tries.
TestConnection(link) ==
    /\ phase = "idle"
    /\ health = "untested"
    /\ call.type \notin {"local", "notification"}
    /\ health' = IF Test(call.type, call.c, link).passes THEN "passed" ELSE "failed"
    /\ UNCHANGED <<call, phase, attempt, pos, served, lost, open, report>>

\* Mutant: the retry loop does not count.
AttemptWithoutEnd ==
    /\ phase = "idle" \/ (phase = "answered" /\ ~ report)
    /\ phase' = "busy"
    /\ attempt' = attempt + 1
    /\ pos' = 0
    /\ UNCHANGED <<call, health, served, lost, open, report>>

\* Mutant: a success is tried again.
AttemptAgain ==
    /\ phase = "idle" \/ (phase = "answered" /\ attempt < MaxAttempts)
    /\ phase' = "busy"
    /\ attempt' = attempt + 1
    /\ pos' = 0
    /\ UNCHANGED <<call, health, served, lost, open, report>>

\* The first attempt, or the next turn of the retry loop after a failure that
\* categorize_error did not call permanent.
Attempt ==
    /\ \/ phase = "idle"
       \/ /\ phase = "answered"
          /\ ~ report
          /\ call.type \in EngineTypes
          /\ attempt < MaxAttempts
    /\ phase' = "busy"
    /\ attempt' = attempt + 1
    /\ pos' = 0
    /\ UNCHANGED <<call, health, served, lost, open, report>>

\* OperationResult.success
Report(success) ==
    /\ phase' = "answered"
    /\ report' = success

\* execute returns without sending anything; PostgreSQL may have been
\* connected to all the same.
AnswerLocally(connected) ==
    /\ phase = "busy"
    /\ ~ plan.live
    /\ open' = open + (IF plan.leaks /\ connected THEN 1 ELSE 0)
    /\ Report(plan.otherwise)
    /\ UNCHANGED <<call, health, attempt, pos, served, lost>>

\* A request is served and answered; the last one completes the call.
Serve ==
    /\ phase = "busy"
    /\ plan.live
    /\ served' = [served EXCEPT ![pos + 1] = @ + 1]
    /\ pos' = pos + 1
    /\ IF pos + 1 = call.records THEN Report(TRUE) ELSE UNCHANGED <<phase, report>>
    /\ UNCHANGED <<call, health, attempt, lost, open>>

Refuse ==
    /\ phase = "busy"
    /\ plan.live
    /\ \E success \in plan.refused : Report(success)
    /\ UNCHANGED <<call, health, attempt, pos, served, lost, open>>

\* A timeout or a broken connection before the request was served
LoseRequest ==
    /\ phase = "busy"
    /\ plan.live
    /\ \E success \in plan.lost : Report(success)
    /\ UNCHANGED <<call, health, attempt, pos, served, lost, open>>

\* ... and after.
LoseAnswer ==
    /\ phase = "busy"
    /\ plan.live
    /\ served' = [served EXCEPT ![pos + 1] = @ + 1]
    /\ lost' = lost + 1
    /\ \E success \in plan.lost : Report(success)
    /\ UNCHANGED <<call, health, attempt, pos, open>>

\* No connection can be opened.
Unreachable ==
    /\ phase = "busy"
    /\ plan.live
    /\ pos = 0
    /\ \E success \in plan.down : Report(success)
    /\ UNCHANGED <<call, health, attempt, pos, served, lost, open>>

\* The caller takes the result: a success, a permanent failure or the last
\* attempt's.
Finish ==
    /\ phase = "answered"
    /\ phase' = "done"
    /\ UNCHANGED <<call, health, attempt, pos, served, lost, open, report>>

Next ==
    \/ \E link \in Links : TestConnection(link)
    \/ Attempt
    \/ \E connected \in BOOLEAN : AnswerLocally(connected)
    \/ Serve
    \/ Refuse
    \/ LoseRequest
    \/ LoseAnswer
    \/ Unreachable
    \/ Finish

Spec == Init /\ [][Next]_vars
-----------------------------------------------------------------------------
(* Properties *)

\* A call with real configuration: nothing in it asks for the sandbox.
Real(k) ==
    /\ k.c.production /\ k.c.target /\ k.c.creds /\ k.c.sound /\ k.c.tool
    /\ ~ k.c.mock
    /\ ~ k.c.example

\* Operations that reach out and check the answer.
CheckedOperations(type) ==
    CASE type = "postgres" -> PostgresOperations
      [] type \in {"oracle", "mssql", "mysql"} -> {"query", "insert"}
      [] type = "mongodb" -> MongoDbOperations
      [] type = "datalake" -> DataLakeOperations
      [] type = "aws_s3" -> AwsS3Operations
      [] type = "aws_sqs" -> AwsSqsOperations
      [] type = "aws_sns" -> AwsSnsOperations
      [] type = "aws_kms" -> AwsKmsOperations
      [] type = "aws_dynamodb" -> {"dynamodb.get_item", "dynamodb.put_item"}
      [] type = "rest" -> RestOperations
      [] type = "stripe" -> StripeOperations
      [] type = "power_platform" -> {"trigger_flow"}
      [] type = "ssh" -> {"exec_command"}
      [] type = "ansible" -> {"run_playbook"}
      [] type = "windows_admin" -> {"manage_service", "execute_powershell_script"}
      [] OTHER -> {}

\* In production, with a real configuration, a checked operation that reports
\* success has been served, every record of it, in one attempt or another:
\* no refusal, lost answer or fallback to sample data turns into a success.
SuccessIsServed ==
    phase \in {"answered", "done"} /\ report /\ Real(call)
        /\ call.c.op \in CheckedOperations(call.type)
    => \A r \in 1..call.records : served[r] > 0

\* A single request is repeated only because an answer was lost; of an insert
\* of several records, whatever fails, a later record is never served more
\* often than an earlier one (records are inserted in order, from the first,
\* in every attempt).
RepeatsAreExplained ==
    /\ call.records = 1 => served[1] <= lost + 1
    /\ \A r \in 1..call.records - 1 : served[r + 1] <= served[r]

\* With the required parameters present and a known operation, execute closes
\* the database connection it opened, however many attempts there are.
NoLeak ==
    call.c.given /\ call.c.op \in Operations(call.type) => open = 0

\* In production, with a real configuration, the tests that ask the other
\* system notice that it does not answer: AWS and Stripe when it refuses or
\* cannot be reached, PostgreSQL when it refuses (without a connection its
\* network step passes).  The other tests look at the configuration only.
UnreachableFailsTest ==
    [][\A link \in {"refusing", "down"} :
          /\ TestConnection(link)
          /\ Real(call)
          /\ call.type \in {"aws", "stripe"} \/ (call.type = "postgres" /\ link = "refusing")
          => health' = "failed"]_vars
=============================================================================
