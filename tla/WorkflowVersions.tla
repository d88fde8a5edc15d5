--------------------------- MODULE WorkflowVersions ---------------------------
(***************************************************************************)
(* Workflows, their versions, and the runs that are started from them:     *)
(* create, deploy, rollback and version listing (routers/workflows.py),    *)
(* webhook ingress with idempotency keys (routers/webhooks.py), run replay *)
(* (routers/runs.py), and the choice of the definition with which an       *)
(* approved or a replayed run continues.                                   *)
(*                                                                         *)
(* A session is one request.  It loads rows, computes, and commits in a    *)
(* later step; other sessions commit in between.  The execution of a run   *)
(* is one step here and is the subject of WorkflowEngine.                  *)
(***************************************************************************)
EXTENDS Naturals, Sequences

CONSTANTS
    Sessions,           \* requests in flight
    Workflows,          \* workflow ids
    DefaultWorkflow,    \* the id "wf_order_processing", which no request gives out
    Definitions,        \* definitions that pass validation and policy
    DefaultDefinition,  \* the built-in webhook workflow
    IdOf,               \* IdOf[d]: the optional id inside definition d
    SchemaVersion,      \* SchemaVersion[d]: its schema_version field
    Keys,               \* idempotency keys
    ForeignKeys,        \* does the database enforce them (PostgreSQL) or not (SQLite)?
    MaxVersion,         \* bound: highest version number
    MaxRuns,            \* bound: runs started in one behaviour
    MaxRequests,        \* bound: requests made in one behaviour
    Absent, NoId, NoKey \* no row, no id, no key

Versions == 1 .. MaxVersion

ASSUME VersionsAssumption ==
    /\ DefaultWorkflow \in Workflows
    /\ DefaultDefinition \in Definitions
    /\ IdOf \in [Definitions -> Workflows \cup {NoId}]
    /\ SchemaVersion \in [Definitions -> Nat]
    /\ ForeignKeys \in BOOLEAN
    /\ MaxVersion \in Nat \ {0}
    /\ MaxRuns \in Nat
    /\ MaxRequests \in Nat
    /\ NoKey \notin Keys
    /\ NoId \notin Workflows

VARIABLES
    wf,         \* wf[w]: the WorkflowRecord of w, or Absent
    newest,     \* the workflow created last, or NoId
    rows,       \* rows[w][v]: the WorkflowVersionRecord, or Absent
    runs,       \* RunRecords, in the order they were created
    job,        \* what each session is doing
    requests    \* requests made so far

vars == <<wf, newest, rows, runs, job, requests>>

Workflow == [version : Versions, def : Definitions, status : {"draft", "active"}]
Row      == [def : Definitions, active : BOOLEAN]
Outcome  == {"RUNNING", "WAITING_APPROVAL", "FAILED", "SUCCESS"}
\* pinned: the definition a run was started with; used: all it was executed
\* with; dead: it has left a dead letter.
Run      == [workflow : Workflows, version : Nat, key : Keys \cup {NoKey},
             status : Outcome, dead : BOOLEAN,
             pinned : Definitions, used : SUBSET Definitions]
Op       == {"idle", "firstVersion", "deploy", "rollback", "baseVersion", "ingest", "start"}
Job      == [op : Op, workflow : Workflows, loaded : Workflow \cup {Absent},
             def : Definitions, target : Versions, key : Keys \cup {NoKey}]

ASSUME AbsentAssumption == Absent \notin Workflow /\ Absent \notin Row

Idle == [op |-> "idle", workflow |-> DefaultWorkflow, loaded |-> Absent,
         def |-> DefaultDefinition, target |-> 1, key |-> NoKey]
-----------------------------------------------------------------------------
HasRows(w) == \E v \in Versions : rows[w][v] # Absent

Become(s, j) == job' = [job EXCEPT ![s] = j]

NewRequest(s) ==
    /\ job[s].op = "idle"
    /\ requests < MaxRequests
    /\ requests' = requests + 1

\* What a flush makes of a row: columns whose new value equals the one the
\* session loaded are not written.
Written(current, loaded, new) ==
    [version |-> IF new.version = loaded.version THEN current.version ELSE new.version,
     def     |-> IF new.def = loaded.def THEN current.def ELSE new.def,
     status  |-> IF new.status = loaded.status THEN current.status ELSE new.status]

\* Version v of w becomes the active one, every other one inactive.
Activate(w, v, def) ==
    [u \in Versions |->
        IF u = v THEN [def |-> def, active |-> TRUE]
        ELSE IF rows[w][u] = Absent THEN Absent
        ELSE [rows[w][u] EXCEPT !.active = FALSE]]
-----------------------------------------------------------------------------
(* Creating and deploying *)

\* Mutant: a new workflow starts at version 0.
CreateAtZero(s) ==
    /\ NewRequest(s)
    /\ \E w \in Workflows, d \in Definitions :
          LET row == [version |-> 0, def |-> d, status |-> "draft"] IN
          /\ w # DefaultWorkflow /\ wf[w] = Absent
          /\ wf' = [wf EXCEPT ![w] = row]
          /\ newest' = w
          /\ Become(s, [Idle EXCEPT !.op = "firstVersion", !.workflow = w, !.loaded = row])
    /\ UNCHANGED <<rows, runs>>

\* create_workflow commits the draft, and its first version row separately.
CreateWorkflow(s) ==
    /\ NewRequest(s)
    /\ \E w \in Workflows, d \in Definitions :
          LET row == [version |-> 1, def |-> d, status |-> "draft"] IN
          /\ w # DefaultWorkflow /\ wf[w] = Absent
          /\ wf' = [wf EXCEPT ![w] = row]
          /\ newest' = w
          /\ Become(s, [Idle EXCEPT !.op = "firstVersion", !.workflow = w, !.loaded = row])
    /\ UNCHANGED <<rows, runs>>

\* Insert the row of the loaded version unless its unique key is taken; a
\* violated key ends the request with an error and leaves everything as it is.
InsertVersion(s, active) ==
    LET j == job[s] IN
    /\ rows' = IF rows[j.workflow][j.loaded.version] # Absent THEN rows
               ELSE [rows EXCEPT ![j.workflow][j.loaded.version] =
                        [def |-> j.loaded.def, active |-> active]]
    /\ Become(s, Idle)
    /\ UNCHANGED <<wf, newest, runs, requests>>

AddFirstVersion(s) == job[s].op = "firstVersion" /\ InsertVersion(s, FALSE)

\* deploy_workflow loads the workflow and validates the definition: the one in
\* the request, or the current one.
LoadForDeploy(s) ==
    /\ NewRequest(s)
    /\ \E w \in Workflows, d \in Definitions :
          /\ wf[w] # Absent
          /\ wf[w].version < MaxVersion
          /\ Become(s, [Idle EXCEPT !.op = "deploy", !.workflow = w,
                                    !.loaded = wf[w], !.def = d])
    /\ UNCHANGED <<wf, newest, rows, runs>>

\* Mutant: a deployment overwrites the version row that is in its way.
DeployOverwrites(s) ==
    LET j == job[s]
        v == j.loaded.version + 1
        new == [version |-> v, def |-> j.def, status |-> "active"] IN
    /\ j.op = "deploy"
    /\ rows' = [rows EXCEPT ![j.workflow] = Activate(j.workflow, v, j.def)]
    /\ wf' = [wf EXCEPT ![j.workflow] = Written(@, j.loaded, new)]
    /\ Become(s, Idle)
    /\ UNCHANGED <<newest, runs, requests>>

\* deploy_version commits version N + 1 of the N the session loaded; if that
\* version exists the unique index refuses the transaction.
CommitDeploy(s) ==
    LET j == job[s]
        v == j.loaded.version + 1
        new == [version |-> v, def |-> j.def, status |-> "active"] IN
    /\ j.op = "deploy"
    /\ \/ /\ rows[j.workflow][v] = Absent
          /\ rows' = [rows EXCEPT ![j.workflow] = Activate(j.workflow, v, j.def)]
          /\ wf' = [wf EXCEPT ![j.workflow] = Written(@, j.loaded, new)]
       \/ /\ rows[j.workflow][v] # Absent
          /\ UNCHANGED <<wf, rows>>
    /\ Become(s, Idle)
    /\ UNCHANGED <<newest, runs, requests>>

\* rollback_to_version loads the workflow and the target row (400 without one).
LoadForRollback(s) ==
    /\ NewRequest(s)
    /\ \E w \in Workflows, v \in Versions :
          /\ wf[w] # Absent
          /\ rows[w][v] # Absent
          /\ Become(s, [Idle EXCEPT !.op = "rollback", !.workflow = w, !.loaded = wf[w],
                                    !.def = rows[w][v].def, !.target = v])
    /\ UNCHANGED <<wf, newest, rows, runs>>

\* Mutant: the rollback does not deactivate the other versions.
RollbackKeepsActive(s) ==
    LET j == job[s]
        new == [version |-> j.target, def |-> j.def, status |-> "active"] IN
    /\ j.op = "rollback"
    /\ rows' = [rows EXCEPT ![j.workflow][j.target].active = TRUE]
    /\ wf' = [wf EXCEPT ![j.workflow] = Written(@, j.loaded, new)]
    /\ Become(s, Idle)
    /\ UNCHANGED <<newest, runs, requests>>

CommitRollback(s) ==
    LET j == job[s]
        new == [version |-> j.target, def |-> j.def, status |-> "active"] IN
    /\ j.op = "rollback"
    /\ rows' = [rows EXCEPT ![j.workflow] = Activate(j.workflow, j.target, j.def)]
    /\ wf' = [wf EXCEPT ![j.workflow] = Written(@, j.loaded, new)]
    /\ Become(s, Idle)
    /\ UNCHANGED <<newest, runs, requests>>

\* list_workflow_versions invents an active row for a workflow without any.
ListVersions(s) ==
    /\ NewRequest(s)
    /\ \E w \in Workflows :
          /\ wf[w] # Absent
          /\ ~ HasRows(w)
          /\ Become(s, [Idle EXCEPT !.op = "baseVersion", !.workflow = w, !.loaded = wf[w]])
    /\ UNCHANGED <<wf, newest, rows, runs>>

AddBaseVersion(s) == job[s].op = "baseVersion" /\ InsertVersion(s, TRUE)
-----------------------------------------------------------------------------
(* Starting runs *)

\* Mutant: the key is not looked up.
DeliverUnchecked(s) ==
    /\ NewRequest(s)
    /\ \E k \in Keys \cup {NoKey} : Become(s, [Idle EXCEPT !.op = "ingest", !.key = k])
    /\ UNCHANGED <<wf, newest, rows, runs>>

\* handle_webhook_ingress: a delivery whose key has a run is answered from that
\* run (or, if it has several, with an error); the others go on.
Deliver(s) ==
    /\ NewRequest(s)
    /\ \E k \in Keys \cup {NoKey} :
          /\ k # NoKey => \A r \in 1 .. Len(runs) : runs[r].key # k
          /\ Become(s, [Idle EXCEPT !.op = "ingest", !.key = k])
    /\ UNCHANGED <<wf, newest, rows, runs>>

\* An active workflow whose trigger matches the path; when none does, the
\* built-in workflow is stored under a new id, active and without a version row.
Ingest(s) ==
    /\ job[s].op = "ingest"
    /\ \E w \in Workflows :
          \/ /\ wf[w] # Absent /\ wf[w].status = "active"
             /\ Become(s, [job[s] EXCEPT !.op = "start", !.def = wf[w].def])
             /\ UNCHANGED <<wf, newest>>
          \/ /\ w # DefaultWorkflow /\ wf[w] = Absent
             /\ wf' = [wf EXCEPT ![w] = [version |-> 1, def |-> DefaultDefinition,
                                         status |-> "active"]]
             /\ newest' = w
             /\ Become(s, [job[s] EXCEPT !.op = "start", !.def = DefaultDefinition])
    /\ UNCHANGED <<rows, runs, requests>>

\* replay_run starts a new run from the workflow's current definition.
ReplayRun(s) ==
    /\ NewRequest(s)
    /\ \E r \in 1 .. Len(runs) :
          /\ wf[runs[r].workflow] # Absent
          /\ Become(s, [Idle EXCEPT !.op = "start", !.def = wf[runs[r].workflow].def])
    /\ UNCHANGED <<wf, newest, rows, runs>>

\* execute under a fresh run id.  The workflow id is the one inside the
\* definition or the default one; the version is the definition's
\* schema_version.
NewRun(d, key, outcome) ==
    [workflow |-> IF IdOf[d] # NoId THEN IdOf[d] ELSE DefaultWorkflow,
     version |-> SchemaVersion[d], key |-> key,
     status |-> outcome, dead |-> outcome = "FAILED",
     pinned |-> d, used |-> {d}]

\* A run of a workflow that does not exist violates a foreign key; where those
\* are enforced the request ends with an error.
StartRun(s) ==
    /\ job[s].op = "start"
    /\ Len(runs) < MaxRuns
    /\ \E outcome \in Outcome :
          LET run == NewRun(job[s].def, job[s].key, outcome) IN
          runs' = IF ForeignKeys /\ wf[run.workflow] = Absent THEN runs
                  ELSE Append(runs, run)
    /\ Become(s, Idle)
    /\ UNCHANGED <<wf, newest, rows, requests>>
-----------------------------------------------------------------------------
(* Continuing runs *)

\* execute on run r with definition d.
Continue(r, d) ==
    \E outcome \in Outcome :
    runs' = [runs EXCEPT ![r].status = outcome,
                         ![r].dead = @ \/ outcome = "FAILED",
                         ![r].used = @ \cup {d}]

\* The definition resume_approval takes: the version row the run names, or else
\* the workflow's current definition.
ResumeDefinition(r) ==
    LET w == runs[r].workflow
        v == runs[r].version IN
    IF v \in Versions /\ rows[w][v] # Absent THEN rows[w][v].def ELSE wf[w].def

\* Without version row and workflow the request ends with an error.
ResumeApproval(s) ==
    /\ NewRequest(s)
    /\ \E r \in 1 .. Len(runs) :
          /\ runs[r].status = "WAITING_APPROVAL"
          /\ wf[runs[r].workflow] # Absent
          /\ Continue(r, ResumeDefinition(r))
    /\ UNCHANGED <<wf, newest, rows, job>>

\* replay_dead_letter takes the current definition of the run's workflow; if
\* that workflow does not exist, of the newest one.
ReplayDeadLetter(s) ==
    /\ NewRequest(s)
    /\ \E r \in 1 .. Len(runs) :
          LET w == IF wf[runs[r].workflow] # Absent THEN runs[r].workflow ELSE newest IN
          /\ runs[r].dead
          /\ w # NoId
          /\ Continue(r, wf[w].def)
    /\ UNCHANGED <<wf, newest, rows, job>>

\* The replica dies: what the session has not committed is lost.
Crash(s) ==
    /\ job[s].op # "idle"
    /\ Become(s, Idle)
    /\ UNCHANGED <<wf, newest, rows, runs, requests>>
-----------------------------------------------------------------------------
Init ==
    /\ wf = [w \in Workflows |-> Absent]
    /\ newest = NoId
    /\ rows = [w \in Workflows |-> [v \in Versions |-> Absent]]
    /\ runs = <<>>
    /\ job = [s \in Sessions |-> Idle]
    /\ requests = 0

Next == \E s \in Sessions :
    \/ CreateWorkflow(s) \/ AddFirstVersion(s)
    \/ LoadForDeploy(s) \/ CommitDeploy(s)
    \/ LoadForRollback(s) \/ CommitRollback(s)
    \/ ListVersions(s) \/ AddBaseVersion(s)
    \/ Deliver(s) \/ Ingest(s) \/ ReplayRun(s) \/ StartRun(s)
    \/ ResumeApproval(s) \/ ReplayDeadLetter(s)
    \/ Crash(s)

Spec == Init /\ [][Next]_vars
-----------------------------------------------------------------------------
TypeOK ==
    /\ wf \in [Workflows -> Workflow \cup {Absent}]
    /\ newest \in {NoId} \cup {w \in Workflows : wf[w] # Absent}
    /\ rows \in [Workflows -> [Versions -> Row \cup {Absent}]]
    /\ runs \in Seq(Run)
    /\ job \in [Sessions -> Job]
    /\ requests \in 0 .. MaxRequests

\* An active workflow executes what its versions table says: its current
\* version has a row, with the definition the workflow holds, and that row is
\* the only active one (unless the workflow was stored by ingress and has no
\* rows at all).
PointerConsistent ==
    \A w \in Workflows :
      wf[w] # Absent /\ wf[w].status = "active" /\ HasRows(w) =>
        \A v \in Versions :
          IF v = wf[w].version
          THEN rows[w][v] = [def |-> wf[w].def, active |-> TRUE]
          ELSE rows[w][v] # Absent => ~ rows[w][v].active

\* However often an event is delivered, its idempotency key has one run.
OneRunPerKey ==
    \A q, r \in 1 .. Len(runs) :
      runs[q].key = runs[r].key /\ runs[q].key # NoKey => q = r

\* ADR-0004: deployed definitions are immutable, whoever deploys and rolls back
\* at the same time.
VersionsImmutable ==
    [][\A w \in Workflows, v \in Versions : rows[w][v] # Absent =>
          rows'[w][v] # Absent /\ rows'[w][v].def = rows[w][v].def]_vars

\* ADR-0004 "In-flight runs complete against their pinned version": a run is
\* only ever executed with the definition it was started with.
PinnedDefinition == \A r \in 1 .. Len(runs) : runs[r].used = {runs[r].pinned}
=============================================================================
