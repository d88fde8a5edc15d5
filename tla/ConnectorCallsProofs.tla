------------------------ MODULE ConnectorCallsProofs ------------------------
(***************************************************************************)
(* Proofs about connector calls, for any set of configurations, any number *)
(* of records and attempts: type correctness, that a success of a checked  *)
(* operation was served, what a repeated record means, and that no         *)
(* connection is left open.                                                *)
(***************************************************************************)
EXTENDS ConnectorCalls, TLAPS

\* What a plan may report is a Boolean.
WellFormed(p) ==
    p.refused \subseteq BOOLEAN /\ p.lost \subseteq BOOLEAN /\ p.down \subseteq BOOLEAN
    /\ p.otherwise \in BOOLEAN

\* Only a served request is reported as a success.
Honest(p) ==
    /\ p.live => TRUE \notin p.refused /\ TRUE \notin p.lost /\ TRUE \notin p.down
    /\ ~ p.live => ~ p.otherwise
-----------------------------------------------------------------------------
(* The connectors *)

\* Which connector a type means.
LEMMA Dispatch ==
  ASSUME NEW c
  PROVE  /\ Execute("postgres", c) = PostgresExecute(c)
         /\ Execute("rest", c) = RestExecute(c)
         /\ Execute("stripe", c) = StripeExecute(c)
         /\ Execute("servicenow", c) = ServiceNowExecute(c)
         /\ Execute("active_directory", c) = ActiveDirectoryExecute(c)
         /\ Execute("windows_admin", c) = WindowsAdminExecute(c)
         /\ Execute("ssh", c) = SshExecute(c)
         /\ Execute("ansible", c) = AnsibleExecute(c)
         /\ Execute("azure_automation", c) = AzureAutomationExecute(c)
         /\ Execute("power_platform", c) = PowerPlatformExecute(c)
         /\ Execute("aws", c) = AwsExecute(c)
         /\ Execute("aws_s3", c) = AwsS3Execute(c)
         /\ Execute("aws_sqs", c) = AwsSqsExecute(c)
         /\ Execute("aws_sns", c) = AwsSnsExecute(c)
         /\ Execute("aws_lambda", c) = AwsLambdaExecute(c)
         /\ Execute("aws_dynamodb", c) = AwsDynamoDbExecute(c)
         /\ Execute("aws_eventbridge", c) = AwsEventBridgeExecute(c)
         /\ Execute("aws_secrets_manager", c) = AwsSecretsManagerExecute(c)
         /\ Execute("aws_cloudwatch", c) = AwsCloudWatchExecute(c)
         /\ Execute("aws_step_functions", c) = AwsStepFunctionsExecute(c)
         /\ Execute("aws_kms", c) = AwsKmsExecute(c)
         /\ Execute("mysql", c) = MySqlExecute(c)
         /\ Execute("mongodb", c) = MongoDbExecute(c)
         /\ Execute("mssql", c) = MsSqlExecute(c)
         /\ Execute("oracle", c) = OracleExecute(c)
         /\ Execute("datalake", c) = DataLakeExecute(c)
         /\ Execute("airflow", c) = AirflowExecute(c)
         /\ Execute("ibmmq", c) = IbmMqExecute(c)
         /\ Execute("local", c) = LocalNode(c)
         /\ Execute("notification", c) = NotificationNode(c)
  BY DEF Execute

\* Whatever a connector does, success is TRUE or FALSE; only PostgreSQL's can
\* return with its connection open, and not from an advertised operation that
\* has its parameters.
LEMMA ConnectorPlans ==
  ASSUME NEW c
  PROVE  /\ WellFormed(PostgresExecute(c))
         /\ c.given /\ c.op \in PostgresOperations => ~ PostgresExecute(c).leaks
         /\ WellFormed(RestExecute(c)) /\ ~ RestExecute(c).leaks
         /\ WellFormed(StripeExecute(c)) /\ ~ StripeExecute(c).leaks
         /\ WellFormed(ServiceNowExecute(c)) /\ ~ ServiceNowExecute(c).leaks
         /\ WellFormed(ActiveDirectoryExecute(c)) /\ ~ ActiveDirectoryExecute(c).leaks
         /\ WellFormed(WindowsAdminExecute(c)) /\ ~ WindowsAdminExecute(c).leaks
         /\ WellFormed(SshExecute(c)) /\ ~ SshExecute(c).leaks
         /\ WellFormed(AnsibleExecute(c)) /\ ~ AnsibleExecute(c).leaks
         /\ WellFormed(AzureAutomationExecute(c)) /\ ~ AzureAutomationExecute(c).leaks
         /\ WellFormed(PowerPlatformExecute(c)) /\ ~ PowerPlatformExecute(c).leaks
         /\ WellFormed(AwsExecute(c)) /\ ~ AwsExecute(c).leaks
         /\ WellFormed(AwsS3Execute(c)) /\ ~ AwsS3Execute(c).leaks
         /\ WellFormed(AwsSqsExecute(c)) /\ ~ AwsSqsExecute(c).leaks
         /\ WellFormed(AwsSnsExecute(c)) /\ ~ AwsSnsExecute(c).leaks
         /\ WellFormed(AwsLambdaExecute(c)) /\ ~ AwsLambdaExecute(c).leaks
         /\ WellFormed(AwsDynamoDbExecute(c)) /\ ~ AwsDynamoDbExecute(c).leaks
         /\ WellFormed(AwsEventBridgeExecute(c)) /\ ~ AwsEventBridgeExecute(c).leaks
         /\ WellFormed(AwsSecretsManagerExecute(c)) /\ ~ AwsSecretsManagerExecute(c).leaks
         /\ WellFormed(AwsCloudWatchExecute(c)) /\ ~ AwsCloudWatchExecute(c).leaks
         /\ WellFormed(AwsStepFunctionsExecute(c)) /\ ~ AwsStepFunctionsExecute(c).leaks
         /\ WellFormed(AwsKmsExecute(c)) /\ ~ AwsKmsExecute(c).leaks
         /\ WellFormed(MySqlExecute(c)) /\ ~ MySqlExecute(c).leaks
         /\ WellFormed(MongoDbExecute(c)) /\ ~ MongoDbExecute(c).leaks
         /\ WellFormed(MsSqlExecute(c)) /\ ~ MsSqlExecute(c).leaks
         /\ WellFormed(OracleExecute(c)) /\ ~ OracleExecute(c).leaks
         /\ WellFormed(DataLakeExecute(c)) /\ ~ DataLakeExecute(c).leaks
         /\ WellFormed(AirflowExecute(c)) /\ ~ AirflowExecute(c).leaks
         /\ WellFormed(IbmMqExecute(c)) /\ ~ IbmMqExecute(c).leaks
         /\ WellFormed(LocalNode(c)) /\ ~ LocalNode(c).leaks
         /\ WellFormed(NotificationNode(c)) /\ ~ NotificationNode(c).leaks
  <1> USE DEF WellFormed, Plan, Checked, Simulated, Unsupported, Fails, Pretends
  <1>1. /\ WellFormed(PostgresExecute(c))
        /\ c.given /\ c.op \in PostgresOperations => ~ PostgresExecute(c).leaks
    BY DEF PostgresExecute, PostgresSandbox, PostgresOperations
  <1>2. WellFormed(RestExecute(c)) /\ ~ RestExecute(c).leaks
    BY DEF RestExecute
  <1>3. WellFormed(StripeExecute(c)) /\ ~ StripeExecute(c).leaks
    BY DEF StripeExecute, BaseExecute
  <1>4. WellFormed(ServiceNowExecute(c)) /\ ~ ServiceNowExecute(c).leaks
    BY DEF ServiceNowExecute
  <1>5. WellFormed(ActiveDirectoryExecute(c)) /\ ~ ActiveDirectoryExecute(c).leaks
    BY DEF ActiveDirectoryExecute
  <1>6. WellFormed(WindowsAdminExecute(c)) /\ ~ WindowsAdminExecute(c).leaks
    BY DEF WindowsAdminExecute, ExecuteScript, QueryScript
  <1>7. WellFormed(SshExecute(c)) /\ ~ SshExecute(c).leaks
    BY DEF SshExecute
  <1>8. WellFormed(AnsibleExecute(c)) /\ ~ AnsibleExecute(c).leaks
    BY DEF AnsibleExecute
  <1>9. WellFormed(AzureAutomationExecute(c)) /\ ~ AzureAutomationExecute(c).leaks
    BY DEF AzureAutomationExecute
  <1>10. WellFormed(PowerPlatformExecute(c)) /\ ~ PowerPlatformExecute(c).leaks
    BY DEF PowerPlatformExecute
  <1>11. WellFormed(AwsExecute(c)) /\ ~ AwsExecute(c).leaks
    BY DEF AwsExecute
  <1>12. WellFormed(AwsS3Execute(c)) /\ ~ AwsS3Execute(c).leaks
    BY DEF AwsS3Execute
  <1>13. WellFormed(AwsSqsExecute(c)) /\ ~ AwsSqsExecute(c).leaks
    BY DEF AwsSqsExecute
  <1>14. WellFormed(AwsSnsExecute(c)) /\ ~ AwsSnsExecute(c).leaks
    BY DEF AwsSnsExecute
  <1>15. WellFormed(AwsLambdaExecute(c)) /\ ~ AwsLambdaExecute(c).leaks
    BY DEF AwsLambdaExecute
  <1>16. WellFormed(AwsDynamoDbExecute(c)) /\ ~ AwsDynamoDbExecute(c).leaks
    BY DEF AwsDynamoDbExecute
  <1>17. WellFormed(AwsEventBridgeExecute(c)) /\ ~ AwsEventBridgeExecute(c).leaks
    BY DEF AwsEventBridgeExecute
  <1>18. WellFormed(AwsSecretsManagerExecute(c)) /\ ~ AwsSecretsManagerExecute(c).leaks
    BY DEF AwsSecretsManagerExecute
  <1>19. WellFormed(AwsCloudWatchExecute(c)) /\ ~ AwsCloudWatchExecute(c).leaks
    BY DEF AwsCloudWatchExecute
  <1>20. WellFormed(AwsStepFunctionsExecute(c)) /\ ~ AwsStepFunctionsExecute(c).leaks
    BY DEF AwsStepFunctionsExecute
  <1>21. WellFormed(AwsKmsExecute(c)) /\ ~ AwsKmsExecute(c).leaks
    BY DEF AwsKmsExecute
  <1>22. WellFormed(MySqlExecute(c)) /\ ~ MySqlExecute(c).leaks
    BY DEF MySqlExecute, LiveUnlessSandboxed
  <1>23. WellFormed(MongoDbExecute(c)) /\ ~ MongoDbExecute(c).leaks
    BY DEF MongoDbExecute, LiveUnlessSandboxed
  <1>24. WellFormed(MsSqlExecute(c)) /\ ~ MsSqlExecute(c).leaks
    BY DEF MsSqlExecute, LiveUnlessSandboxed
  <1>25. WellFormed(OracleExecute(c)) /\ ~ OracleExecute(c).leaks
    BY DEF OracleExecute, LiveUnlessSandboxed
  <1>26. WellFormed(DataLakeExecute(c)) /\ ~ DataLakeExecute(c).leaks
    BY DEF DataLakeExecute
  <1>27. WellFormed(AirflowExecute(c)) /\ ~ AirflowExecute(c).leaks
    BY DEF AirflowExecute
  <1>28. WellFormed(IbmMqExecute(c)) /\ ~ IbmMqExecute(c).leaks
    BY DEF IbmMqExecute
  <1>29. WellFormed(LocalNode(c)) /\ ~ LocalNode(c).leaks
    BY DEF LocalNode
  <1>30. WellFormed(NotificationNode(c)) /\ ~ NotificationNode(c).leaks
    BY DEF NotificationNode
  <1> HIDE DEF WellFormed
  <1> QED
    BY <1>1, <1>2, <1>3, <1>4, <1>5, <1>6, <1>7, <1>8, <1>9, <1>10, <1>11, <1>12, <1>13,
       <1>14, <1>15, <1>16, <1>17, <1>18, <1>19, <1>20, <1>21, <1>22, <1>23, <1>24, <1>25,
       <1>26, <1>27, <1>28, <1>29, <1>30

LEMMA PlanType ==
  ASSUME NEW type \in Types, NEW c
  PROVE  /\ WellFormed(Execute(type, c))
         /\ c.given /\ c.op \in Operations(type) => ~ Execute(type, c).leaks
  <1>1. Operations("postgres") = PostgresOperations
    BY DEF Operations
  <1>2. CASE type = "postgres"
    BY <1>1, <1>2, Dispatch, ConnectorPlans, Zenon
  <1>3. CASE type = "rest"
    BY <1>3, Dispatch, ConnectorPlans, Zenon
  <1>4. CASE type = "stripe"
    BY <1>4, Dispatch, ConnectorPlans, Zenon
  <1>5. CASE type = "servicenow"
    BY <1>5, Dispatch, ConnectorPlans, Zenon
  <1>6. CASE type = "active_directory"
    BY <1>6, Dispatch, ConnectorPlans, Zenon
  <1>7. CASE type = "windows_admin"
    BY <1>7, Dispatch, ConnectorPlans, Zenon
  <1>8. CASE type = "ssh"
    BY <1>8, Dispatch, ConnectorPlans, Zenon
  <1>9. CASE type = "ansible"
    BY <1>9, Dispatch, ConnectorPlans, Zenon
  <1>10. CASE type = "azure_automation"
    BY <1>10, Dispatch, ConnectorPlans, Zenon
  <1>11. CASE type = "power_platform"
    BY <1>11, Dispatch, ConnectorPlans, Zenon
  <1>12. CASE type = "aws"
    BY <1>12, Dispatch, ConnectorPlans, Zenon
  <1>13. CASE type = "aws_s3"
    BY <1>13, Dispatch, ConnectorPlans, Zenon
  <1>14. CASE type = "aws_sqs"
    BY <1>14, Dispatch, ConnectorPlans, Zenon
  <1>15. CASE type = "aws_sns"
    BY <1>15, Dispatch, ConnectorPlans, Zenon
  <1>16. CASE type = "aws_lambda"
    BY <1>16, Dispatch, ConnectorPlans, Zenon
  <1>17. CASE type = "aws_dynamodb"
    BY <1>17, Dispatch, ConnectorPlans, Zenon
  <1>18. CASE type = "aws_eventbridge"
    BY <1>18, Dispatch, ConnectorPlans, Zenon
  <1>19. CASE type = "aws_secrets_manager"
    BY <1>19, Dispatch, ConnectorPlans, Zenon
  <1>20. CASE type = "aws_cloudwatch"
    BY <1>20, Dispatch, ConnectorPlans, Zenon
  <1>21. CASE type = "aws_step_functions"
    BY <1>21, Dispatch, ConnectorPlans, Zenon
  <1>22. CASE type = "aws_kms"
    BY <1>22, Dispatch, ConnectorPlans, Zenon
  <1>23. CASE type = "mysql"
    BY <1>23, Dispatch, ConnectorPlans, Zenon
  <1>24. CASE type = "mongodb"
    BY <1>24, Dispatch, ConnectorPlans, Zenon
  <1>25. CASE type = "mssql"
    BY <1>25, Dispatch, ConnectorPlans, Zenon
  <1>26. CASE type = "oracle"
    BY <1>26, Dispatch, ConnectorPlans, Zenon
  <1>27. CASE type = "datalake"
    BY <1>27, Dispatch, ConnectorPlans, Zenon
  <1>28. CASE type = "airflow"
    BY <1>28, Dispatch, ConnectorPlans, Zenon
  <1>29. CASE type = "ibmmq"
    BY <1>29, Dispatch, ConnectorPlans, Zenon
  <1>30. CASE type = "local"
    BY <1>30, Dispatch, ConnectorPlans, Zenon
  <1>31. CASE type = "notification"
    BY <1>31, Dispatch, ConnectorPlans, Zenon
  <1> QED
    BY <1>2, <1>3, <1>4, <1>5, <1>6, <1>7, <1>8, <1>9, <1>10, <1>11, <1>12, <1>13, <1>14,
       <1>15, <1>16, <1>17, <1>18, <1>19, <1>20, <1>21, <1>22, <1>23, <1>24, <1>25, <1>26,
       <1>27, <1>28, <1>29, <1>30, <1>31 DEF Types, RegisteredTypes

\* A checked operation with a real configuration, in production, is honest:
\* no branch of its connector answers from a sandbox or hides a refusal.
LEMMA RealIsHonest ==
  ASSUME NEW k, Real(k), k.c.op \in CheckedOperations(k.type)
  PROVE  Honest(Execute(k.type, k.c))
  <1> DEFINE c == k.c
  <1>0. /\ c.production /\ c.target /\ c.creds /\ c.sound /\ c.tool
        /\ ~ c.mock /\ ~ c.example
    BY DEF Real
  <1> HIDE DEF c
  <1> USE <1>0 DEF Honest, Plan, Checked, Simulated, Unsupported, Fails, Pretends
  <1>1. ASSUME k.type = "postgres" PROVE Honest(PostgresExecute(c))
    <2>1. c.op \in CheckedOperations("postgres")
      BY <1>1 DEF c
    <2> QED
      BY <2>1 DEF CheckedOperations, PostgresExecute, PostgresOperations, PostgresSandbox
  <1>2. ASSUME k.type = "rest" PROVE Honest(RestExecute(c))
    <2>1. c.op \in CheckedOperations("rest")
      BY <1>2 DEF c
    <2> QED
      BY <2>1 DEF CheckedOperations, RestExecute
  <1>3. ASSUME k.type = "stripe" PROVE Honest(StripeExecute(c))
    <2>1. c.op \in CheckedOperations("stripe")
      BY <1>3 DEF c
    <2> QED
      BY <2>1 DEF CheckedOperations, StripeExecute, BaseExecute, StripeOperations
  <1>4. ASSUME k.type = "windows_admin" PROVE Honest(WindowsAdminExecute(c))
    <2>1. c.op \in CheckedOperations("windows_admin")
      BY <1>4 DEF c
    <2> QED
      BY <2>1 DEF CheckedOperations, WindowsAdminExecute, ExecuteScript, QueryScript
  <1>5. ASSUME k.type = "ssh" PROVE Honest(SshExecute(c))
    <2>1. c.op \in CheckedOperations("ssh")
      BY <1>5 DEF c
    <2> QED
      BY <2>1 DEF CheckedOperations, SshExecute
  <1>6. ASSUME k.type = "ansible" PROVE Honest(AnsibleExecute(c))
    <2>1. c.op \in CheckedOperations("ansible")
      BY <1>6 DEF c
    <2> QED
      BY <2>1 DEF CheckedOperations, AnsibleExecute
  <1>7. ASSUME k.type = "power_platform" PROVE Honest(PowerPlatformExecute(c))
    <2>1. c.op \in CheckedOperations("power_platform")
      BY <1>7 DEF c
    <2> QED
      BY <2>1 DEF CheckedOperations, PowerPlatformExecute
  <1>8. ASSUME k.type = "aws_s3" PROVE Honest(AwsS3Execute(c))
    <2>1. c.op \in CheckedOperations("aws_s3")
      BY <1>8 DEF c
    <2> QED
      BY <2>1 DEF CheckedOperations, AwsS3Execute, AwsS3Operations, IsDummyKey
  <1>9. ASSUME k.type = "aws_sqs" PROVE Honest(AwsSqsExecute(c))
    <2>1. c.op \in CheckedOperations("aws_sqs")
      BY <1>9 DEF c
    <2> QED
      BY <2>1 DEF CheckedOperations, AwsSqsExecute, AwsSqsOperations, IsDummyKey
  <1>10. ASSUME k.type = "aws_sns" PROVE Honest(AwsSnsExecute(c))
    <2>1. c.op \in CheckedOperations("aws_sns")
      BY <1>10 DEF c
    <2> QED
      BY <2>1 DEF CheckedOperations, AwsSnsExecute, IsDummyKey
  <1>11. ASSUME k.type = "aws_dynamodb" PROVE Honest(AwsDynamoDbExecute(c))
    <2>1. c.op \in CheckedOperations("aws_dynamodb")
      BY <1>11 DEF c
    <2> QED
      BY <2>1 DEF CheckedOperations, AwsDynamoDbExecute, IsDummyKey
  <1>12. ASSUME k.type = "aws_kms" PROVE Honest(AwsKmsExecute(c))
    <2>1. c.op \in CheckedOperations("aws_kms")
      BY <1>12 DEF c
    <2> QED
      BY <2>1 DEF CheckedOperations, AwsKmsExecute, AwsKmsOperations, IsDummyKey
  <1>13. ASSUME k.type = "mysql" PROVE Honest(MySqlExecute(c))
    <2>1. c.op \in CheckedOperations("mysql")
      BY <1>13 DEF c
    <2> QED
      BY <2>1 DEF CheckedOperations, MySqlExecute, LiveUnlessSandboxed
  <1>14. ASSUME k.type = "mongodb" PROVE Honest(MongoDbExecute(c))
    <2>1. c.op \in CheckedOperations("mongodb")
      BY <1>14 DEF c
    <2> QED
      BY <2>1 DEF CheckedOperations, MongoDbExecute, LiveUnlessSandboxed, MongoDbOperations
  <1>15. ASSUME k.type = "mssql" PROVE Honest(MsSqlExecute(c))
    <2>1. c.op \in CheckedOperations("mssql")
      BY <1>15 DEF c
    <2> QED
      BY <2>1 DEF CheckedOperations, MsSqlExecute, LiveUnlessSandboxed
  <1>16. ASSUME k.type = "oracle" PROVE Honest(OracleExecute(c))
    <2>1. c.op \in CheckedOperations("oracle")
      BY <1>16 DEF c
    <2> QED
      BY <2>1 DEF CheckedOperations, OracleExecute, LiveUnlessSandboxed
  <1>17. ASSUME k.type = "datalake" PROVE Honest(DataLakeExecute(c))
    <2>1. c.op \in CheckedOperations("datalake")
      BY <1>17 DEF c
    <2> QED
      BY <2>1 DEF CheckedOperations, DataLakeExecute, DataLakeOperations
  <1> HIDE DEF Honest
  <1> QED
    BY <1>1, <1>2, <1>3, <1>4, <1>5, <1>6, <1>7, <1>8, <1>9, <1>10, <1>11, <1>12, <1>13,
       <1>14, <1>15, <1>16, <1>17, Dispatch DEF CheckedOperations, c
-----------------------------------------------------------------------------
(* Calls *)

\* What an attempt that is under way leaves room for: no count exceeds the
\* attempts, and the records not yet reached have one serving less.
Progress ==
    /\ call.records \in Nat \ {0}
    /\ phase = "idle" => attempt = 0
    /\ phase \in {"idle", "busy"} => ~ report
    /\ lost <= attempt /\ open <= attempt
    /\ \A r \in 1..call.records : served[r] <= attempt
    /\ phase = "busy" =>
          /\ pos < call.records
          /\ lost < attempt /\ open < attempt
          /\ \A r \in 1..call.records : r > pos => served[r] < attempt

\* Records are served in order: an attempt under way has served the records
\* before pos once more than the one at pos.
InOrder ==
    /\ \A r \in 1..call.records - 1 : served[r + 1] <= served[r]
    /\ phase = "busy" /\ pos > 0 => served[pos + 1] < served[pos]
    /\ phase = "busy" => \A r \in 1..call.records : r <= pos => served[r] > 0
    /\ call.records = 1 => served[1] <= lost + 1 /\ (~ report => served[1] <= lost)

CallInv == TypeOK /\ Progress /\ InOrder /\ SuccessIsServed /\ NoLeak

LEMMA InitCall == Init => CallInv
  <1> SUFFICES ASSUME Init PROVE CallInv
    OBVIOUS
  <1>1. MaxRecords \in Nat \ {0} /\ MaxAttempts \in Nat \ {0}
    BY CallsAssumption
  <1>2. PICK type \in Types : call \in CallsOf(type)
    BY DEF Init
  <1>3. call.type \in Types /\ call.records \in Nat \ {0}
    BY <1>1, <1>2 DEF CallsOf
  <1>4. TypeOK
    <2>1. report \in BOOLEAN
      BY Zenon DEF Init
    <2>2. pos \in 0..call.records /\ served \in [1..call.records -> 0..MaxAttempts]
      BY <1>1, <1>3 DEF Init
    <2>3. attempt \in 0..MaxAttempts /\ lost \in 0..MaxAttempts /\ open \in 0..MaxAttempts
      BY <1>1 DEF Init
    <2>4. health = "untested" /\ phase = "idle"
      BY DEF Init
    <2> QED
      BY <1>3, <2>1, <2>2, <2>3, <2>4, Zenon DEF TypeOK
  <1>5. Progress
    BY <1>3 DEF Init, Progress
  <1>6. InOrder
    BY <1>3 DEF Init, InOrder
  <1>7. SuccessIsServed /\ NoLeak
    BY DEF Init, SuccessIsServed, NoLeak
  <1> QED
    BY <1>4, <1>5, <1>6, <1>7 DEF CallInv

\* Serving the record at pos keeps the counts in order.
LEMMA ServeInOrder ==
  ASSUME CallInv, phase = "busy", served' = [served EXCEPT ![pos + 1] = @ + 1], UNCHANGED <<call, attempt>>
  PROVE  /\ pos + 1 \in 1..call.records
         /\ served' \in [1..call.records -> 0..MaxAttempts]
         /\ served'[pos + 1] = served[pos + 1] + 1
         /\ \A r \in 1..call.records : r # pos + 1 => served'[r] = served[r]
         /\ \A r \in 1..call.records : served'[r] <= attempt /\ served[r] <= served'[r]
         /\ \A r \in 1..call.records - 1 : served'[r + 1] <= served'[r]
  <1>1. /\ pos \in Nat /\ call.records \in Nat \ {0} /\ pos < call.records
        /\ attempt \in Nat /\ attempt <= MaxAttempts /\ MaxAttempts \in Nat
        /\ \A r \in 1..call.records : served[r] \in Nat /\ served[r] <= attempt
        /\ served \in [1..call.records -> 0..MaxAttempts]
    BY CallsAssumption DEF CallInv, Progress, TypeOK
  <1>2. pos + 1 \in 1..call.records
    BY <1>1
  <1>3. served[pos + 1] < attempt
    <2>1. \A r \in 1..call.records : r > pos => served[r] < attempt
      BY DEF CallInv, Progress
    <2> QED
      BY <1>1, <1>2, <2>1
  <1>4. served'[pos + 1] = served[pos + 1] + 1
    BY <1>1, <1>2
  <1>5. \A r \in 1..call.records : r # pos + 1 => served'[r] = served[r]
    BY <1>1, <1>2
  <1>6. \A r \in 1..call.records : served'[r] <= attempt /\ served[r] <= served'[r]
    BY <1>1, <1>3, <1>4, <1>5
  <1>7. served' \in [1..call.records -> 0..MaxAttempts]
    <2>1. served[pos + 1] + 1 \in 0..MaxAttempts
      BY <1>1, <1>2, <1>3
    <2> QED
      BY <1>1, <2>1
  <1>8. ASSUME NEW r \in 1..call.records - 1 PROVE served'[r + 1] <= served'[r]
    <2>1. r \in 1..call.records /\ r + 1 \in 1..call.records
      BY <1>1
    <2>2. served[r + 1] <= served[r]
      BY DEF CallInv, InOrder
    <2>3. CASE r = pos
      <3>1. served[pos + 1] < served[pos]
        BY <1>1, <2>1, <2>3 DEF CallInv, InOrder
      <3> QED
        BY <1>1, <1>4, <1>5, <2>1, <2>3, <3>1
    <2>4. CASE r # pos
      <3>1. served'[r + 1] = served[r + 1]
        BY <1>1, <1>5, <2>1, <2>4
      <3>2. served[r] <= served'[r] /\ served'[r] \in Nat
        BY <1>6, <1>7, <2>1
      <3> QED
        BY <1>1, <2>1, <2>2, <3>1, <3>2
    <2> QED
      BY <2>3, <2>4
  <1> QED
    BY <1>2, <1>4, <1>5, <1>6, <1>7, <1>8

\* An answer that is not the end of a successful call.
LEMMA AnsweredInv ==
  ASSUME CallInv, phase = "busy", phase' = "answered", report' \in BOOLEAN,
         Real(call) /\ call.c.op \in CheckedOperations(call.type) => ~ report',
         UNCHANGED <<call, health, attempt, pos, open>>,
         \/ UNCHANGED <<served, lost>>
         \/ served' = [served EXCEPT ![pos + 1] = @ + 1] /\ lost' = lost + 1
  PROVE  CallInv'
  <1>1. /\ attempt \in Nat /\ lost \in Nat /\ call.records \in Nat \ {0} /\ pos \in 0..call.records
        /\ attempt <= MaxAttempts /\ MaxAttempts \in Nat /\ lost < attempt /\ open < attempt
        /\ open \in Nat /\ ~ report
    BY CallsAssumption DEF CallInv, Progress, TypeOK
  <1>2. /\ served' \in [1..call.records -> 0..MaxAttempts]
        /\ \A r \in 1..call.records : served'[r] <= attempt
        /\ \A r \in 1..call.records - 1 : served'[r + 1] <= served'[r]
    <2>1. CASE UNCHANGED <<served, lost>>
      BY <2>1 DEF CallInv, TypeOK, Progress, InOrder
    <2>2. CASE served' = [served EXCEPT ![pos + 1] = @ + 1]
      BY <2>2, ServeInOrder
    <2> QED
      BY <2>1, <2>2
  <1>3. lost' \in 0..MaxAttempts /\ lost' <= attempt
    BY <1>1
  <1>4. TypeOK'
    BY <1>2, <1>3 DEF CallInv, TypeOK
  <1>5. Progress'
    BY <1>1, <1>2, <1>3 DEF Progress
  <1>6. call.records = 1 => served'[1] <= lost'
    <2> SUFFICES ASSUME call.records = 1 PROVE served'[1] <= lost'
      OBVIOUS
    <2>1. served[1] <= lost /\ served[1] \in Nat
      BY <1>1 DEF CallInv, InOrder, TypeOK
    <2>2. pos = 0
      BY <1>1 DEF CallInv, Progress
    <2>3. CASE UNCHANGED <<served, lost>>
      BY <2>1, <2>3
    <2>4. CASE served' = [served EXCEPT ![pos + 1] = @ + 1] /\ lost' = lost + 1
      <3>1. served'[1] = served[1] + 1
        BY <2>2, <2>4, ServeInOrder
      <3> QED
        BY <1>1, <2>1, <2>4, <3>1
    <2> QED
      BY <2>3, <2>4
  <1>7. InOrder'
    <2>1. call.records = 1 => served'[1] <= lost' + 1
      <3> SUFFICES ASSUME call.records = 1 PROVE served'[1] <= lost' + 1
        OBVIOUS
      <3>1. served'[1] \in Nat /\ lost' \in Nat
        BY <1>1, <1>2, <1>3
      <3> QED
        BY <1>6, <3>1
    <2> QED
      BY <1>2, <1>6, <2>1 DEF InOrder
  <1>8. SuccessIsServed' /\ NoLeak'
    BY DEF CallInv, SuccessIsServed, NoLeak, Real
  <1> QED
    BY <1>4, <1>5, <1>7, <1>8 DEF CallInv

\* Every step keeps the invariant.
LEMMA NextCall == CallInv /\ [Next]_vars => CallInv'
  <1> SUFFICES ASSUME CallInv, [Next]_vars PROVE CallInv'
    OBVIOUS
  <1>0. TypeOK /\ Progress /\ InOrder /\ SuccessIsServed /\ NoLeak
    BY DEF CallInv
  <1>1. /\ attempt \in Nat /\ lost \in Nat /\ open \in Nat /\ call.records \in Nat \ {0}
        /\ pos \in 0..call.records /\ MaxAttempts \in Nat \ {0} /\ attempt <= MaxAttempts
        /\ call.type \in Types
    BY <1>0, CallsAssumption DEF Progress, TypeOK
  <1>2. /\ WellFormed(plan)
        /\ call.c.given /\ call.c.op \in Operations(call.type) => ~ plan.leaks
        /\ Real(call) /\ call.c.op \in CheckedOperations(call.type) => Honest(plan)
    BY <1>1, PlanType, RealIsHonest DEF plan
  <1> HIDE DEF plan
  <1>3. ASSUME NEW link \in Links, TestConnection(link) PROVE CallInv'
    <2>1. /\ health' \in {"passed", "failed"}
          /\ UNCHANGED <<call, phase, attempt, pos, served, lost, open, report>>
      BY <1>3 DEF TestConnection
    <2>2. TypeOK'
      BY <1>0, <2>1 DEF TypeOK
    <2> QED
      BY <1>0, <2>1, <2>2 DEF CallInv, Progress, InOrder, SuccessIsServed, NoLeak, Real
  <1>4. CASE Attempt
    <2>1. /\ phase' = "busy" /\ attempt' = attempt + 1 /\ pos' = 0 /\ ~ report
          /\ UNCHANGED <<call, health, served, lost, open, report>>
          /\ attempt + 1 <= MaxAttempts
      <3>1. phase = "idle" => attempt + 1 <= MaxAttempts /\ ~ report
        BY <1>0, <1>1 DEF Progress
      <3>2. attempt < MaxAttempts => attempt + 1 <= MaxAttempts
        BY <1>1
      <3> QED
        BY <1>4, <3>1, <3>2 DEF Attempt
    <2>2. TypeOK'
      BY <1>0, <1>1, <2>1 DEF TypeOK
    <2>3. \A r \in 1..call.records : served[r] \in Nat /\ served[r] <= attempt
      BY <1>0 DEF Progress, TypeOK
    <2>4. lost <= attempt /\ open <= attempt
      BY <1>0 DEF Progress
    <2>5. Progress'
      BY <1>1, <2>1, <2>3, <2>4 DEF Progress
    <2>6. InOrder'
      <3>1. \A r \in 1..call.records : ~ (r <= 0)
        BY <1>1
      <3>2. ~ (pos' > 0)
        BY <2>1
      <3> QED
        BY <1>0, <2>1, <3>1, <3>2 DEF InOrder
    <2>7. SuccessIsServed' /\ NoLeak'
      BY <1>0, <2>1 DEF SuccessIsServed, NoLeak
    <2> QED
      BY <2>2, <2>5, <2>6, <2>7 DEF CallInv
  <1>5. ASSUME NEW connected \in BOOLEAN, AnswerLocally(connected) PROVE CallInv'
    <2>1. /\ phase = "busy" /\ ~ plan.live /\ phase' = "answered" /\ report' = plan.otherwise
          /\ UNCHANGED <<call, health, attempt, pos, served, lost>>
      BY <1>5 DEF AnswerLocally, Report
    <2>2. /\ report' \in BOOLEAN /\ ~ report
          /\ Real(call) /\ call.c.op \in CheckedOperations(call.type) => ~ report'
      BY <1>0, <1>2, <2>1 DEF WellFormed, Honest, Progress
    <2>3. open' \in {open, open + 1} /\ (~ plan.leaks => open' = open)
      BY <1>1, <1>5 DEF AnswerLocally
    <2>4. lost < attempt /\ open < attempt
      BY <1>0, <2>1 DEF Progress
    <2>5. open' \in 0..MaxAttempts /\ open' <= attempt
      BY <1>1, <2>3, <2>4
    <2>6. TypeOK'
      BY <1>0, <2>1, <2>2, <2>5 DEF TypeOK
    <2>7. Progress'
      BY <1>0, <1>1, <2>1, <2>4, <2>5 DEF Progress
    <2>8. InOrder'
      BY <1>0, <2>1, <2>2 DEF InOrder
    <2>9. SuccessIsServed' /\ NoLeak'
      BY <1>0, <1>2, <2>1, <2>2, <2>3 DEF SuccessIsServed, NoLeak, Real
    <2> QED
      BY <2>6, <2>7, <2>8, <2>9 DEF CallInv
  <1>6. CASE Serve
    <2>1. /\ phase = "busy" /\ served' = [served EXCEPT ![pos + 1] = @ + 1] /\ pos' = pos + 1
          /\ UNCHANGED <<call, health, attempt, lost, open>>
          /\ IF pos + 1 = call.records THEN phase' = "answered" /\ report' = TRUE
             ELSE UNCHANGED <<phase, report>>
      BY <1>6 DEF Serve, Report
    <2>2. /\ pos + 1 \in 1..call.records
          /\ served' \in [1..call.records -> 0..MaxAttempts]
          /\ served'[pos + 1] = served[pos + 1] + 1
          /\ \A r \in 1..call.records : r # pos + 1 => served'[r] = served[r]
          /\ \A r \in 1..call.records : served'[r] <= attempt /\ served[r] <= served'[r]
          /\ \A r \in 1..call.records - 1 : served'[r + 1] <= served'[r]
      BY <2>1, ServeInOrder
    <2>3. /\ ~ report /\ lost < attempt /\ open < attempt
          /\ \A r \in 1..call.records : r > pos => served[r] < attempt
          /\ \A r \in 1..call.records : served[r] \in Nat /\ served'[r] \in Nat
      BY <1>0, <2>1, <2>2 DEF Progress, TypeOK
    <2>4. TypeOK'
      <3>1. report' \in BOOLEAN /\ phase' \in {"idle", "busy", "answered", "done"}
        BY <1>0, <2>1, Zenon DEF TypeOK
      <3>2. pos' \in 0..call.records
        BY <1>1, <2>1, <2>2
      <3> QED
        BY <1>0, <2>1, <2>2, <3>1, <3>2, Zenon DEF TypeOK
    <2>5. Progress'
      <3>1. phase' = "busy" => pos' < call.records /\ ~ report'
        BY <1>1, <2>1, <2>2, <2>3
      <3>2. \A r \in 1..call.records : r > pos' => served'[r] < attempt
        BY <1>1, <2>1, <2>2, <2>3
      <3>3. phase' # "idle"
        BY <2>1
      <3>4. lost <= attempt /\ open <= attempt
        BY <1>1, <2>3
      <3> QED
        BY <1>1, <2>1, <2>2, <2>3, <3>1, <3>2, <3>3, <3>4 DEF Progress
    <2>6. \A r \in 1..call.records : r <= pos' => served'[r] > 0
      <3>1. \A r \in 1..call.records : r <= pos => served[r] > 0
        BY <1>0, <2>1 DEF InOrder
      <3> QED
        BY <1>1, <2>1, <2>2, <2>3, <3>1
    <2>7. ASSUME phase' = "busy" PROVE served'[pos' + 1] < served'[pos']
      <3>1. pos + 1 \in 1..call.records - 1 /\ pos + 2 \in 1..call.records /\ pos' + 1 = pos + 2
        BY <1>1, <2>1, <2>2, <2>7
      <3>2. served[pos + 2] <= served[pos + 1]
        BY <1>0, <1>1, <3>1 DEF InOrder
      <3>3. served'[pos + 2] = served[pos + 2]
        BY <1>1, <2>2, <3>1
      <3> QED
        BY <1>1, <2>1, <2>2, <2>3, <3>1, <3>2, <3>3
    <2>8. call.records = 1 => served'[1] <= lost' + 1 /\ report'
      <3> SUFFICES ASSUME call.records = 1 PROVE served'[1] <= lost' + 1 /\ report'
        OBVIOUS
      <3>1. pos = 0
        BY <1>1, <2>2
      <3>2. served[1] <= lost
        BY <1>0, <2>3 DEF InOrder
      <3> QED
        BY <1>1, <2>1, <2>2, <2>3, <3>1, <3>2
    <2>9. InOrder'
      BY <2>1, <2>2, <2>6, <2>7, <2>8 DEF InOrder
    <2>10. SuccessIsServed'
      <3>1. phase' \in {"answered", "done"} => \A r \in 1..call.records : r <= pos'
        BY <1>1, <2>1, <2>2
      <3> QED
        BY <2>1, <2>6, <3>1 DEF SuccessIsServed
    <2>11. NoLeak'
      BY <1>0, <2>1 DEF NoLeak
    <2> QED
      BY <2>4, <2>5, <2>9, <2>10, <2>11 DEF CallInv
  <1>7. CASE Refuse \/ LoseRequest \/ LoseAnswer \/ Unreachable
    <2>1. PICK success \in plan.refused \cup plan.lost \cup plan.down :
              phase' = "answered" /\ report' = success
      BY <1>7 DEF Refuse, LoseRequest, LoseAnswer, Unreachable, Report
    <2>2. /\ phase = "busy" /\ plan.live /\ UNCHANGED <<call, health, attempt, pos, open>>
          /\ \/ UNCHANGED <<served, lost>>
             \/ served' = [served EXCEPT ![pos + 1] = @ + 1] /\ lost' = lost + 1
      BY <1>7 DEF Refuse, LoseRequest, LoseAnswer, Unreachable
    <2>3. /\ success \in BOOLEAN
          /\ Real(call) /\ call.c.op \in CheckedOperations(call.type) => ~ success
      BY <1>2, <2>1, <2>2 DEF WellFormed, Honest
    <2> QED
      BY <2>1, <2>2, <2>3, AnsweredInv
  <1>8. CASE Finish
    <2>1. /\ phase = "answered" /\ phase' = "done"
          /\ UNCHANGED <<call, health, attempt, pos, served, lost, open, report>>
      BY <1>8 DEF Finish
    <2>2. TypeOK'
      BY <1>0, <2>1 DEF TypeOK
    <2>3. SuccessIsServed'
      BY <1>0, <2>1 DEF SuccessIsServed, Real
    <2> QED
      BY <1>0, <2>1, <2>2, <2>3 DEF CallInv, Progress, InOrder, NoLeak
  <1>9. CASE UNCHANGED vars
    BY <1>0, <1>9 DEF vars, CallInv, TypeOK, Progress, InOrder, SuccessIsServed, NoLeak, Real
  <1> QED
    BY <1>3, <1>4, <1>5, <1>6, <1>7, <1>8, <1>9 DEF Next
-----------------------------------------------------------------------------
(* Theorems *)

LEMMA CallInvariance == Spec => []CallInv
  BY InitCall, NextCall, PTL DEF Spec

\* The counts of a call stay within its attempts and records.
THEOREM TypeCorrect == Spec => []TypeOK
  <1>1. CallInv => TypeOK
    BY DEF CallInv
  <1> QED
    BY CallInvariance, <1>1, PTL

\* In production, with a real configuration, a checked operation that reports
\* success was served, whichever of its requests and answers were lost.
THEOREM ServedSuccess == Spec => []SuccessIsServed
  <1>1. CallInv => SuccessIsServed
    BY DEF CallInv
  <1> QED
    BY CallInvariance, <1>1, PTL

\* Duplicates have a lost answer behind them and grow from the first record.
THEOREM ExplainedRepeats == Spec => []RepeatsAreExplained
  <1>1. CallInv => RepeatsAreExplained
    BY DEF CallInv, InOrder, RepeatsAreExplained
  <1> QED
    BY CallInvariance, <1>1, PTL

\* An advertised operation with its parameters leaves no connection open,
\* however often it is tried.
THEOREM ConnectionsClosed == Spec => []NoLeak
  <1>1. CallInv => NoLeak
    BY DEF CallInv
  <1> QED
    BY CallInvariance, <1>1, PTL

\* The tests of AWS, Stripe and PostgreSQL notice the refusal they promise to.
THEOREM TestsNotice == Spec => UnreachableFailsTest
  <1>1. ASSUME NEW link \in {"refusing", "down"}, TestConnection(link), Real(call),
               call.type \in {"aws", "stripe"} \/ (call.type = "postgres" /\ link = "refusing")
        PROVE  health' = "failed"
    <2> DEFINE c == call.c
    <2>1. ~ c.mock /\ ~ c.example
      BY <1>1 DEF Real
    <2> HIDE DEF c
    <2>2. /\ Test("aws", c, link) = AwsProbe(c, link)
          /\ Test("stripe", c, link) = StripeProbe(c, link)
          /\ Test("postgres", c, link) = PostgresProbe(c, link)
      BY Zenon DEF Test
    <2>3. ~ AwsProbe(c, link).passes
      BY <1>1, <2>1 DEF AwsProbe, Probe, AwsTest, IsDummyKey
    <2>4. ~ StripeProbe(c, link).passes
      BY <1>1, <2>1 DEF StripeProbe, Probe, StripeTest, BaseTest
    <2>5. link = "refusing" => ~ PostgresProbe(c, link).passes
      BY DEF PostgresProbe, Probe, PostgresTest
    <2>6. ~ Test(call.type, c, link).passes
      <3>1. CASE call.type = "aws"
        BY <2>2, <2>3, <3>1, Zenon
      <3>2. CASE call.type = "stripe"
        BY <2>2, <2>4, <3>2, Zenon
      <3>3. CASE call.type = "postgres" /\ link = "refusing"
        BY <2>2, <2>5, <3>3, Zenon
      <3> QED
        BY <1>1, <3>1, <3>2, <3>3
    <2>7. health' = IF Test(call.type, c, link).passes THEN "passed" ELSE "failed"
      BY <1>1 DEF TestConnection, c
    <2> QED
      BY <2>6, <2>7, Zenon
  <1>2. [Next]_vars =>
          [\A link \in {"refusing", "down"} :
              /\ TestConnection(link)
              /\ Real(call)
              /\ call.type \in {"aws", "stripe"} \/ (call.type = "postgres" /\ link = "refusing")
              => health' = "failed"]_vars
    BY <1>1
  <1> QED
    BY <1>2, PTL DEF Spec, UnreachableFailsTest
=============================================================================
