-------------------------- MODULE MCConnectorCalls --------------------------
EXTENDS ConnectorCalls

\* The switches in any combination, and at most one of the things a
\* connection needs missing.
MCConfigurations ==
    {cfg \in Call({"unknown"}) :
        Cardinality({f \in {"target", "creds", "sound", "tool"} : ~ cfg[f]}) <= 1}

\* Names execute understands besides those it lists, and one nobody knows.
MCUnadvertised ==
    {"execute_sql", "merge", "bulk_insert", "upsert", "insert", "query", "pipeline",
     "write_partition", "read_metadata", "s3", "sqs", "lambda", "dynamo",
     "sqs.receive_messages", "get_service_status", "execute_command", "run_dag", "status",
     "publish", "consume", "unknown"}
=============================================================================
