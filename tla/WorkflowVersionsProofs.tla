------------------------ MODULE WorkflowVersionsProofs ------------------------
(***************************************************************************)
(* Deployed versions are immutable for any number of sessions, workflows   *)
(* and definitions; with one session at a time the workflow and its        *)
(* versions table agree and a key starts one run.                          *)
(***************************************************************************)
EXTENDS WorkflowVersions, TLAPS

\* A session that is about to commit has loaded its workflow; a rollback's
\* target row exists, with the definition the session has loaded.
Loading == {"firstVersion", "deploy", "rollback", "baseVersion"}

JobInv ==
    \A s \in Sessions :
      /\ job[s].op \in Loading => wf[job[s].workflow] # Absent /\ job[s].loaded # Absent
      /\ job[s].op = "deploy" => job[s].loaded.version < MaxVersion
      /\ job[s].op = "rollback" =>
            /\ rows[job[s].workflow][job[s].target] # Absent
            /\ rows[job[s].workflow][job[s].target].def = job[s].def

IInv == TypeOK /\ JobInv

\* What a step may do to the workflows and the version rows.
Kept ==
    /\ \A w \in Workflows : wf[w] # Absent => wf'[w] # Absent
    /\ \A w \in Workflows, v \in Versions : rows[w][v] # Absent =>
          rows'[w][v] # Absent /\ rows'[w][v].def = rows[w][v].def
-----------------------------------------------------------------------------
\* The idle job is a job.
LEMMA IdleType == Idle \in Job
  BY VersionsAssumption DEF Idle, Job, Op, Versions

\* A flush of a workflow row yields a workflow row.
LEMMA WrittenType ==
  ASSUME NEW c \in Workflow, NEW l \in Workflow, NEW n \in Workflow
  PROVE  Written(c, l, n) \in Workflow
  BY DEF Written, Workflow

\* Activating a version yields a versions table in which only the activated
\* version may have changed its definition.
LEMMA ActivateFacts ==
  ASSUME TypeOK, NEW w \in Workflows, NEW v \in Versions, NEW d \in Definitions
  PROVE  /\ Activate(w, v, d) \in [Versions -> Row \cup {Absent}]
         /\ Activate(w, v, d)[v] = [def |-> d, active |-> TRUE]
         /\ \A u \in Versions \ {v} : rows[w][u] # Absent =>
               /\ Activate(w, v, d)[u] # Absent
               /\ Activate(w, v, d)[u].def = rows[w][u].def
  <1>1. \A u \in Versions : rows[w][u] \in Row \cup {Absent}
    BY DEF TypeOK
  <1>2. \A r \in Row : [r EXCEPT !.active = FALSE] \in Row /\ [r EXCEPT !.active = FALSE].def = r.def
    BY DEF Row
  <1>3. [def |-> d, active |-> TRUE] \in Row
    BY DEF Row
  <1>4. QED
    BY <1>1, <1>2, <1>3, AbsentAssumption DEF Activate

\* The version after the loaded one is within the bound of a deploying session.
LEMMA NextVersion ==
  ASSUME NEW n \in Versions, n < MaxVersion
  PROVE  n + 1 \in Versions
  BY VersionsAssumption DEF Versions
-----------------------------------------------------------------------------
\* A new request counts and keeps to the bound.
LEMMA RequestType ==
  ASSUME TypeOK, NEW s \in Sessions, NewRequest(s)
  PROVE  requests' \in 0 .. MaxRequests
  BY VersionsAssumption DEF TypeOK, NewRequest

\* Inserting a version row keeps types and existing rows.
LEMMA InsertStep ==
  ASSUME IInv, NEW s \in Sessions, job[s].op \in Loading,
         NEW active \in BOOLEAN, InsertVersion(s, active)
  PROVE  TypeOK' /\ Kept
  <1> DEFINE w == job[s].workflow
             v == job[s].loaded.version
             r == [def |-> job[s].loaded.def, active |-> active]
  <1>1. job[s] \in Job /\ w \in Workflows /\ job[s].loaded \in Workflow
    BY DEF IInv, TypeOK, JobInv, Job
  <1>2. v \in Versions /\ r \in Row
    BY <1>1 DEF Workflow, Row
  <1>3. rows \in [Workflows -> [Versions -> Row \cup {Absent}]]
    BY DEF IInv, TypeOK
  <1>4. \/ rows' = rows
        \/ rows[w][v] = Absent /\ rows' = [rows EXCEPT ![w][v] = r]
    BY DEF InsertVersion
  <1>5. rows' \in [Workflows -> [Versions -> Row \cup {Absent}]]
    BY <1>1, <1>2, <1>3, <1>4
  <1>6. \A x \in Workflows, u \in Versions : rows[x][u] # Absent => rows'[x][u] = rows[x][u]
    BY <1>1, <1>2, <1>3, <1>4
  <1>7. job' \in [Sessions -> Job] /\ UNCHANGED <<wf, newest, runs, requests>>
    BY IdleType DEF InsertVersion, Become, IInv, TypeOK
  <1>8. QED
    BY <1>5, <1>6, <1>7 DEF IInv, TypeOK, Kept

\* A committed deployment or rollback keeps types and existing definitions.
LEMMA ActivateStep ==
  ASSUME IInv, NEW s \in Sessions, NEW w \in Workflows, NEW v \in Versions,
         NEW d \in Definitions, NEW l \in Workflow,
         wf[w] # Absent,
         rows[w][v] # Absent => rows[w][v].def = d,
         rows' = [rows EXCEPT ![w] = Activate(w, v, d)],
         wf' = [wf EXCEPT ![w] =
                  Written(@, l, [version |-> v, def |-> d, status |-> "active"])],
         Become(s, Idle), UNCHANGED <<newest, runs, requests>>
  PROVE  TypeOK' /\ Kept
  <1>1. rows \in [Workflows -> [Versions -> Row \cup {Absent}]] /\ TypeOK
    BY DEF IInv, TypeOK
  <1>2. rows' \in [Workflows -> [Versions -> Row \cup {Absent}]]
    BY <1>1, ActivateFacts
  <1>3. \A x \in Workflows, u \in Versions : rows[x][u] # Absent =>
            rows'[x][u] # Absent /\ rows'[x][u].def = rows[x][u].def
    <2> SUFFICES ASSUME NEW x \in Workflows, NEW u \in Versions, rows[x][u] # Absent
                 PROVE  rows'[x][u] # Absent /\ rows'[x][u].def = rows[x][u].def
      OBVIOUS
    <2>1. CASE x # w
      BY <2>1, <1>1
    <2>2. CASE x = w /\ u # v
      <3>1. rows'[x][u] = Activate(w, v, d)[u]
        BY <2>2, <1>1
      <3>2. \A y \in Versions \ {v} : rows[w][y] # Absent =>
               Activate(w, v, d)[y] # Absent /\ Activate(w, v, d)[y].def = rows[w][y].def
        BY <1>1, ActivateFacts
      <3>3. Activate(w, v, d)[u] # Absent /\ Activate(w, v, d)[u].def = rows[w][u].def
        BY <2>2, <3>2
      <3>4. QED
        BY <2>2, <3>1, <3>3
    <2>3. CASE x = w /\ u = v
      <3>1. rows'[x][u] = [def |-> d, active |-> TRUE]
        BY <2>3, <1>1, ActivateFacts
      <3>2. [def |-> d, active |-> TRUE] \in Row
        BY DEF Row
      <3>3. QED
        BY <2>3, <3>1, <3>2, AbsentAssumption
    <2>4. QED
      BY <2>1, <2>2, <2>3
  <1>4. [version |-> v, def |-> d, status |-> "active"] \in Workflow
    BY DEF Workflow
  <1>5. wf[w] \in Workflow
    BY DEF IInv, TypeOK
  <1>6. Written(wf[w], l, [version |-> v, def |-> d, status |-> "active"]) \in Workflow
    BY <1>4, <1>5, WrittenType
  <1>7. wf' \in [Workflows -> Workflow \cup {Absent}]
        /\ \A x \in Workflows : wf[x] # Absent => wf'[x] # Absent
    BY <1>6, AbsentAssumption DEF IInv, TypeOK
  <1>8. job' \in [Sessions -> Job]
    BY IdleType DEF Become, IInv, TypeOK
  <1>9. QED
    BY <1>2, <1>3, <1>7, <1>8 DEF IInv, TypeOK, Kept
-----------------------------------------------------------------------------
(* One lemma per group of operations: types and rows are kept. *)

\* create_workflow adds a workflow, loads and listings change no row.
LEMMA LoadStep ==
  ASSUME IInv, NEW s \in Sessions,
         \/ CreateWorkflow(s) \/ LoadForDeploy(s) \/ LoadForRollback(s) \/ ListVersions(s)
         \/ Deliver(s) \/ ReplayRun(s)
  PROVE  TypeOK' /\ Kept
  <1>0. TypeOK /\ wf \in [Workflows -> Workflow \cup {Absent}]
        /\ rows \in [Workflows -> [Versions -> Row \cup {Absent}]]
    BY DEF IInv, TypeOK
  <1>1. CASE CreateWorkflow(s)
    <2>1. PICK w \in Workflows, d \in Definitions :
            LET row == [version |-> 1, def |-> d, status |-> "draft"] IN
            /\ wf[w] = Absent
            /\ wf' = [wf EXCEPT ![w] = row]
            /\ newest' = w
            /\ Become(s, [Idle EXCEPT !.op = "firstVersion", !.workflow = w, !.loaded = row])
      BY <1>1 DEF CreateWorkflow
    <2>2. [version |-> 1, def |-> d, status |-> "draft"] \in Workflow
      BY VersionsAssumption DEF Workflow, Versions
    <2>3. [Idle EXCEPT !.op = "firstVersion", !.workflow = w,
                       !.loaded = [version |-> 1, def |-> d, status |-> "draft"]] \in Job
      BY <2>2, IdleType DEF Job, Op
    <2>4. wf' \in [Workflows -> Workflow \cup {Absent}]
          /\ \A x \in Workflows : wf[x] # Absent => wf'[x] # Absent
      BY <2>1, <2>2, <1>0
    <2>a. newest' \in {NoId} \cup {x \in Workflows : wf'[x] # Absent}
      BY <2>1, <2>2, <1>0, AbsentAssumption
    <2>5. job' \in [Sessions -> Job]
      BY <2>1, <2>3 DEF Become, IInv, TypeOK
    <2>6. requests' \in 0 .. MaxRequests /\ UNCHANGED <<rows, runs>>
      BY <1>0, <1>1, RequestType DEF CreateWorkflow
    <2>7. QED
      BY <2>4, <2>5, <2>6, <2>a DEF IInv, TypeOK, Kept
  <1>2. ASSUME NEW j \in Job, Become(s, j), UNCHANGED <<wf, newest, rows, runs>>, NewRequest(s)
        PROVE  TypeOK' /\ Kept
    <2>1. job' \in [Sessions -> Job]
      BY <1>2 DEF Become, IInv, TypeOK
    <2>2. requests' \in 0 .. MaxRequests
      BY <1>0, <1>2, RequestType
    <2>3. QED
      BY <1>2, <2>1, <2>2 DEF IInv, TypeOK, Kept
  <1>3. CASE LoadForDeploy(s)
    <2>1. PICK w \in Workflows, d \in Definitions :
            /\ wf[w] # Absent
            /\ Become(s, [Idle EXCEPT !.op = "deploy", !.workflow = w,
                                      !.loaded = wf[w], !.def = d])
      BY <1>3 DEF LoadForDeploy
    <2>2. [Idle EXCEPT !.op = "deploy", !.workflow = w, !.loaded = wf[w], !.def = d] \in Job
      BY <1>0, IdleType DEF Job, Op
    <2>3. QED
      BY <1>2, <1>3, <2>1, <2>2 DEF LoadForDeploy
  <1>4. CASE LoadForRollback(s)
    <2>1. PICK w \in Workflows, v \in Versions :
            /\ wf[w] # Absent
            /\ rows[w][v] # Absent
            /\ Become(s, [Idle EXCEPT !.op = "rollback", !.workflow = w, !.loaded = wf[w],
                                      !.def = rows[w][v].def, !.target = v])
      BY <1>4 DEF LoadForRollback
    <2>2. rows[w][v].def \in Definitions
      BY <1>0, <2>1 DEF Row
    <2>3. [Idle EXCEPT !.op = "rollback", !.workflow = w, !.loaded = wf[w],
                       !.def = rows[w][v].def, !.target = v] \in Job
      BY <1>0, <2>2, IdleType DEF Job, Op
    <2>4. QED
      BY <1>2, <1>4, <2>1, <2>3 DEF LoadForRollback
  <1>5. CASE ListVersions(s)
    <2>1. PICK w \in Workflows :
            /\ wf[w] # Absent
            /\ Become(s, [Idle EXCEPT !.op = "baseVersion", !.workflow = w, !.loaded = wf[w]])
      BY <1>5 DEF ListVersions
    <2>2. [Idle EXCEPT !.op = "baseVersion", !.workflow = w, !.loaded = wf[w]] \in Job
      BY <1>0, IdleType DEF Job, Op
    <2>3. QED
      BY <1>2, <1>5, <2>1, <2>2 DEF ListVersions
  <1>6. CASE Deliver(s)
    <2>1. PICK k \in Keys \cup {NoKey} : Become(s, [Idle EXCEPT !.op = "ingest", !.key = k])
      BY <1>6 DEF Deliver
    <2>2. [Idle EXCEPT !.op = "ingest", !.key = k] \in Job
      BY IdleType DEF Job, Op
    <2>3. QED
      BY <1>2, <1>6, <2>1, <2>2 DEF Deliver
  <1>7. CASE ReplayRun(s)
    <2>1. PICK r \in 1 .. Len(runs) :
            /\ wf[runs[r].workflow] # Absent
            /\ Become(s, [Idle EXCEPT !.op = "start", !.def = wf[runs[r].workflow].def])
      BY <1>7 DEF ReplayRun
    <2>2. runs[r] \in Run
      BY <1>0 DEF TypeOK
    <2>3. runs[r].workflow \in Workflows
      BY <2>2 DEF Run
    <2>4. wf[runs[r].workflow].def \in Definitions
      BY <1>0, <2>1, <2>3 DEF Workflow
    <2>5. [Idle EXCEPT !.op = "start", !.def = wf[runs[r].workflow].def] \in Job
      BY <2>4, IdleType DEF Job, Op
    <2>6. QED
      BY <1>2, <1>7, <2>1, <2>5 DEF ReplayRun
  <1>8. QED
    BY <1>1, <1>3, <1>4, <1>5, <1>6, <1>7

\* Commits of versions.
LEMMA CommitStep ==
  ASSUME IInv, NEW s \in Sessions,
         AddFirstVersion(s) \/ AddBaseVersion(s) \/ CommitDeploy(s) \/ CommitRollback(s)
  PROVE  TypeOK' /\ Kept
  <1> DEFINE j == job[s]
  <1>1. CASE AddFirstVersion(s)
    BY <1>1, InsertStep DEF AddFirstVersion, Loading
  <1>2. CASE AddBaseVersion(s)
    BY <1>2, InsertStep DEF AddBaseVersion, Loading
  <1>3. j \in Job /\ j.workflow \in Workflows /\ j.def \in Definitions /\ j.target \in Versions
    BY DEF IInv, TypeOK, Job
  <1>4. j.op \in Loading => wf[j.workflow] # Absent /\ j.loaded \in Workflow
    BY <1>3 DEF IInv, JobInv, Job
  <1>5. CASE CommitDeploy(s)
    <2>1. j.loaded \in Workflow /\ wf[j.workflow] # Absent /\ j.loaded.version < MaxVersion
      BY <1>4, <1>5 DEF CommitDeploy, Loading, IInv, JobInv
    <2>2. j.loaded.version + 1 \in Versions
      BY <2>1, NextVersion DEF Workflow
    <2>3. CASE rows[j.workflow][j.loaded.version + 1] = Absent
      <3>1. /\ rows' = [rows EXCEPT ![j.workflow] =
                           Activate(j.workflow, j.loaded.version + 1, j.def)]
            /\ wf' = [wf EXCEPT ![j.workflow] = Written(@, j.loaded,
                        [version |-> j.loaded.version + 1, def |-> j.def, status |-> "active"])]
            /\ Become(s, Idle) /\ UNCHANGED <<newest, runs, requests>>
        BY <1>5, <2>3 DEF CommitDeploy
      <3>2. QED
        BY <3>1, <2>1, <2>2, <2>3, <1>3, ActivateStep
    <2>4. CASE rows[j.workflow][j.loaded.version + 1] # Absent
      BY <1>5, <2>4, IdleType DEF CommitDeploy, Become, IInv, TypeOK, Kept
    <2>5. QED
      BY <2>3, <2>4
  <1>6. CASE CommitRollback(s)
    <2>1. /\ j.loaded \in Workflow /\ wf[j.workflow] # Absent
          /\ rows[j.workflow][j.target].def = j.def
      BY <1>4, <1>6 DEF CommitRollback, Loading, IInv, JobInv
    <2>2. /\ rows' = [rows EXCEPT ![j.workflow] = Activate(j.workflow, j.target, j.def)]
          /\ wf' = [wf EXCEPT ![j.workflow] = Written(@, j.loaded,
                      [version |-> j.target, def |-> j.def, status |-> "active"])]
          /\ Become(s, Idle) /\ UNCHANGED <<newest, runs, requests>>
      BY <1>6 DEF CommitRollback
    <2>3. QED
      BY <2>1, <2>2, <1>3, ActivateStep
  <1>7. QED
    BY <1>1, <1>2, <1>5, <1>6

\* Continuing a run with a definition yields a sequence of runs.
LEMMA ContinueType ==
  ASSUME TypeOK, NEW r \in 1 .. Len(runs), NEW d \in Definitions, Continue(r, d)
  PROVE  runs' \in Seq(Run)
  <1>1. PICK outcome \in Outcome :
          runs' = [runs EXCEPT ![r].status = outcome,
                               ![r].dead = @ \/ outcome = "FAILED",
                               ![r].used = @ \cup {d}]
    BY DEF Continue
  <1>2. runs \in Seq(Run) /\ runs[r] \in Run
    BY DEF TypeOK
  <1> DEFINE new == [[[runs[r] EXCEPT !.status = outcome]
                               EXCEPT !.dead = @ \/ outcome = "FAILED"]
                               EXCEPT !.used = @ \cup {d}]
  <1>3. new \in Run
    BY <1>2 DEF Run
  <1>4. runs' = [runs EXCEPT ![r] = new]
    BY <1>1, <1>2
  <1>5. QED
    BY <1>2, <1>3, <1>4

\* Steps of runs.
LEMMA RunStep ==
  ASSUME IInv, NEW s \in Sessions,
         Ingest(s) \/ StartRun(s) \/ ResumeApproval(s) \/ ReplayDeadLetter(s) \/ Crash(s)
  PROVE  TypeOK' /\ Kept
  <1>0. TypeOK /\ wf \in [Workflows -> Workflow \cup {Absent}] /\ job[s] \in Job
        /\ rows \in [Workflows -> [Versions -> Row \cup {Absent}]]
    BY DEF IInv, TypeOK
  <1>1. CASE Ingest(s)
    <2>1. \A d \in Definitions : [job[s] EXCEPT !.op = "start", !.def = d] \in Job
      BY <1>0 DEF Job, Op
    <2>2. PICK w \in Workflows :
          \/ /\ wf[w] # Absent
             /\ Become(s, [job[s] EXCEPT !.op = "start", !.def = wf[w].def])
             /\ UNCHANGED <<wf, newest>>
          \/ /\ wf[w] = Absent
             /\ wf' = [wf EXCEPT ![w] = [version |-> 1, def |-> DefaultDefinition,
                                         status |-> "active"]]
             /\ newest' = w
             /\ Become(s, [job[s] EXCEPT !.op = "start", !.def = DefaultDefinition])
      BY <1>1 DEF Ingest
    <2>3. wf[w] # Absent => wf[w].def \in Definitions
      BY <1>0 DEF Workflow
    <2>4. job' \in [Sessions -> Job]
      BY <2>1, <2>2, <2>3, VersionsAssumption DEF Become, IInv, TypeOK
    <2>5. [version |-> 1, def |-> DefaultDefinition, status |-> "active"] \in Workflow
      BY VersionsAssumption DEF Workflow, Versions
    <2>6. wf' \in [Workflows -> Workflow \cup {Absent}]
          /\ \A x \in Workflows : wf[x] # Absent => wf'[x] # Absent
      BY <1>0, <2>2, <2>5
    <2>7. newest' \in {NoId} \cup {x \in Workflows : wf'[x] # Absent}
      BY <1>0, <2>2, <2>5, AbsentAssumption DEF TypeOK
    <2>8. QED
      BY <1>1, <2>4, <2>6, <2>7 DEF Ingest, IInv, TypeOK, Kept
  <1>2. CASE StartRun(s)
    <2>1. PICK outcome \in Outcome :
            runs' = runs \/ runs' = Append(runs, NewRun(job[s].def, job[s].key, outcome))
      BY <1>2 DEF StartRun
    <2>2. job[s].def \in Definitions /\ job[s].key \in Keys \cup {NoKey}
      BY <1>0 DEF Job
    <2>3. \A d \in Definitions :
             /\ (IF IdOf[d] # NoId THEN IdOf[d] ELSE DefaultWorkflow) \in Workflows
             /\ SchemaVersion[d] \in Nat
      BY VersionsAssumption
    <2>4. NewRun(job[s].def, job[s].key, outcome) \in Run
      BY <2>2, <2>3 DEF NewRun, Run
    <2>5. runs' \in Seq(Run)
      BY <1>0, <2>1, <2>4 DEF TypeOK
    <2>6. QED
      BY <1>2, <2>5, IdleType DEF StartRun, Become, IInv, TypeOK, Kept
  <1>3. ASSUME NEW r \in 1 .. Len(runs), NEW d \in Definitions, Continue(r, d),
               NewRequest(s), UNCHANGED <<wf, newest, rows, job>>
        PROVE  TypeOK' /\ Kept
    <2>1. runs' \in Seq(Run)
      BY <1>0, <1>3, ContinueType
    <2>2. requests' \in 0 .. MaxRequests
      BY <1>0, <1>3, RequestType
    <2>3. QED
      BY <1>3, <2>1, <2>2 DEF IInv, TypeOK, Kept
  <1>4. CASE ResumeApproval(s)
    <2>1. PICK r \in 1 .. Len(runs) :
            wf[runs[r].workflow] # Absent /\ Continue(r, ResumeDefinition(r))
      BY <1>4 DEF ResumeApproval
    <2>2. runs[r] \in Run
      BY <1>0 DEF TypeOK
    <2>3. runs[r].workflow \in Workflows
      BY <2>2 DEF Run
    <2>4. ResumeDefinition(r) \in Definitions
      BY <1>0, <2>1, <2>3 DEF ResumeDefinition, Workflow, Row
    <2>5. QED
      BY <1>3, <1>4, <2>1, <2>4 DEF ResumeApproval
  <1>5. CASE ReplayDeadLetter(s)
    <2>1. PICK r \in 1 .. Len(runs) :
            LET w == IF wf[runs[r].workflow] # Absent THEN runs[r].workflow ELSE newest IN
            w # NoId /\ Continue(r, wf[w].def)
      BY <1>5 DEF ReplayDeadLetter
    <2> DEFINE w == IF wf[runs[r].workflow] # Absent THEN runs[r].workflow ELSE newest
    <2>a. runs[r] \in Run
      BY <1>0 DEF TypeOK
    <2>b. w \in Workflows /\ wf[w] # Absent
      BY <1>0, <2>1, <2>a DEF TypeOK, Run
    <2>2. wf[w].def \in Definitions
      BY <1>0, <2>b DEF Workflow
    <2>3. QED
      BY <1>3, <1>5, <2>1, <2>2 DEF ReplayDeadLetter
  <1>6. CASE Crash(s)
    BY <1>6, IdleType DEF Crash, Become, IInv, TypeOK, Kept
  <1>7. QED
    BY <1>1, <1>2, <1>4, <1>5, <1>6
-----------------------------------------------------------------------------
(* JobInv is inductive *)

\* JobInv for a session with job j.
JobOK(j) ==
    /\ j.op \in Loading => wf[j.workflow] # Absent /\ j.loaded # Absent
    /\ j.op = "deploy" => j.loaded.version < MaxVersion
    /\ j.op = "rollback" =>
          rows[j.workflow][j.target] # Absent /\ rows[j.workflow][j.target].def = j.def

\* A step of s leaves the other sessions' loaded rows in place.
LEMMA JobStep ==
  ASSUME IInv, Kept, NEW s \in Sessions, NEW j, Become(s, j), JobOK(j)'
  PROVE  JobInv'
  <1> SUFFICES ASSUME NEW t \in Sessions PROVE JobOK(job[t])'
    BY DEF JobInv, JobOK
  <1>1. job' = [job EXCEPT ![s] = j] /\ job \in [Sessions -> Job]
    BY DEF Become, IInv, TypeOK
  <1>2. CASE t = s
    BY <1>1, <1>2 DEF JobOK
  <1>3. CASE t # s
    <2>1. job'[t] = job[t] /\ JobOK(job[t])
      BY <1>1, <1>3 DEF IInv, JobInv, JobOK
    <2>2. job[t] \in Job
      BY <1>1
    <2>3. job[t].workflow \in Workflows /\ job[t].target \in Versions
      BY <2>2 DEF Job
    <2>4. QED
      BY <2>1, <2>3 DEF JobOK, Kept
  <1>4. QED
    BY <1>2, <1>3

\* Idle sessions have loaded nothing.
LEMMA IdleOK == JobOK(Idle)'
  BY DEF JobOK, Idle, Loading

LEMMA NextStep ==
  ASSUME IInv, NEW s \in Sessions,
         \/ CreateWorkflow(s) \/ AddFirstVersion(s)
         \/ LoadForDeploy(s) \/ CommitDeploy(s)
         \/ LoadForRollback(s) \/ CommitRollback(s)
         \/ ListVersions(s) \/ AddBaseVersion(s)
         \/ Deliver(s) \/ Ingest(s) \/ ReplayRun(s) \/ StartRun(s)
         \/ ResumeApproval(s) \/ ReplayDeadLetter(s)
         \/ Crash(s)
  PROVE  IInv' /\ Kept
  <1>1. TypeOK' /\ Kept
    BY LoadStep, CommitStep, RunStep
  <1>2. CASE \/ AddFirstVersion(s) \/ CommitDeploy(s) \/ CommitRollback(s)
             \/ AddBaseVersion(s) \/ StartRun(s) \/ Crash(s)
    <2>1. Become(s, Idle)
      BY <1>2 DEF AddFirstVersion, CommitDeploy, CommitRollback, AddBaseVersion,
                  InsertVersion, StartRun, Crash
    <2>2. QED
      BY <1>1, <2>1, JobStep, IdleOK DEF IInv
  <1>3. CASE ResumeApproval(s) \/ ReplayDeadLetter(s)
    BY <1>1, <1>3 DEF ResumeApproval, ReplayDeadLetter, IInv, JobInv
  <1>4. CASE Deliver(s) \/ ReplayRun(s) \/ Ingest(s)
    <2>1. job[s] \in Job /\ Idle \in Job
      BY IdleType DEF IInv, TypeOK
    <2>2. PICK k, op, d, y :
            /\ k \in Job /\ op \in {"ingest", "start"}
            /\ \/ Become(s, [k EXCEPT !.op = op, !.def = d])
               \/ Become(s, [k EXCEPT !.op = op, !.key = y])
      BY <1>4, <2>1 DEF Deliver, ReplayRun, Ingest
    <2>a. /\ [k EXCEPT !.op = op, !.def = d].op = op
          /\ [k EXCEPT !.op = op, !.key = y].op = op
      BY <2>2 DEF Job
    <2>b. PICK a, b : a = [k EXCEPT !.op = op, !.def = d] /\ b = [k EXCEPT !.op = op, !.key = y]
      OBVIOUS
    <2>3. PICK j \in {a, b} : Become(s, j) /\ j.op \in {"ingest", "start"}
      BY <2>2, <2>a, <2>b
    <2>4. JobOK(j)'
      BY <2>3 DEF JobOK, Loading
    <2>5. QED
      BY <1>1, <2>3, <2>4, JobStep DEF IInv
  <1>5. CASE CreateWorkflow(s)
    <2>1. PICK w \in Workflows, d \in Definitions :
            LET row == [version |-> 1, def |-> d, status |-> "draft"] IN
            /\ wf' = [wf EXCEPT ![w] = row]
            /\ Become(s, [Idle EXCEPT !.op = "firstVersion", !.workflow = w, !.loaded = row])
      BY <1>5 DEF CreateWorkflow
    <2> DEFINE row == [version |-> 1, def |-> d, status |-> "draft"]
    <2>2. row \in Workflow
      BY VersionsAssumption DEF Workflow, Versions
    <2>3. wf'[w] = row /\ row # Absent
      BY <2>1, <2>2, AbsentAssumption DEF IInv, TypeOK
    <2>a. PICK j : j = [Idle EXCEPT !.op = "firstVersion", !.workflow = w, !.loaded = row]
      OBVIOUS
    <2>4. Become(s, j) /\ j.op = "firstVersion" /\ j.workflow = w /\ j.loaded = row
      BY <2>1, <2>a DEF Idle
    <2>5. JobOK(j)'
      BY <2>3, <2>4 DEF JobOK
    <2>6. QED
      BY <1>1, <2>4, <2>5, JobStep DEF IInv
  <1>6. CASE LoadForDeploy(s)
    <2>1. PICK w \in Workflows, d \in Definitions :
            /\ wf[w] # Absent
            /\ wf[w].version < MaxVersion
            /\ Become(s, [Idle EXCEPT !.op = "deploy", !.workflow = w,
                                      !.loaded = wf[w], !.def = d])
      BY <1>6 DEF LoadForDeploy
    <2>a. PICK j : j = [Idle EXCEPT !.op = "deploy", !.workflow = w,
                                    !.loaded = wf[w], !.def = d]
      OBVIOUS
    <2>2. Become(s, j) /\ j.op = "deploy" /\ j.workflow = w /\ j.loaded = wf[w]
      BY <2>1, <2>a DEF Idle
    <2>3. wf' = wf
      BY <1>6 DEF LoadForDeploy
    <2>4. JobOK(j)'
      BY <2>1, <2>2, <2>3 DEF JobOK
    <2>5. QED
      BY <1>1, <2>2, <2>4, JobStep DEF IInv
  <1>7. CASE LoadForRollback(s)
    <2>1. PICK w \in Workflows, v \in Versions :
            /\ wf[w] # Absent
            /\ rows[w][v] # Absent
            /\ Become(s, [Idle EXCEPT !.op = "rollback", !.workflow = w, !.loaded = wf[w],
                                      !.def = rows[w][v].def, !.target = v])
      BY <1>7 DEF LoadForRollback
    <2>a. PICK j : j = [Idle EXCEPT !.op = "rollback", !.workflow = w, !.loaded = wf[w],
                                    !.def = rows[w][v].def, !.target = v]
      OBVIOUS
    <2>2. /\ Become(s, j)
          /\ j.op = "rollback" /\ j.workflow = w /\ j.loaded = wf[w]
          /\ j.def = rows[w][v].def /\ j.target = v
      BY <2>1, <2>a DEF Idle
    <2>3. wf' = wf /\ rows' = rows
      BY <1>7 DEF LoadForRollback
    <2>4. JobOK(j)'
      BY <2>1, <2>2, <2>3 DEF JobOK
    <2>5. QED
      BY <1>1, <2>2, <2>4, JobStep DEF IInv
  <1>8. CASE ListVersions(s)
    <2>1. PICK w \in Workflows :
            /\ wf[w] # Absent
            /\ Become(s, [Idle EXCEPT !.op = "baseVersion", !.workflow = w, !.loaded = wf[w]])
      BY <1>8 DEF ListVersions
    <2>a. PICK j : j = [Idle EXCEPT !.op = "baseVersion", !.workflow = w, !.loaded = wf[w]]
      OBVIOUS
    <2>2. Become(s, j) /\ j.op = "baseVersion" /\ j.workflow = w /\ j.loaded = wf[w]
      BY <2>1, <2>a DEF Idle
    <2>3. wf' = wf
      BY <1>8 DEF ListVersions
    <2>4. JobOK(j)'
      BY <2>1, <2>2, <2>3 DEF JobOK
    <2>5. QED
      BY <1>1, <2>2, <2>4, JobStep DEF IInv
  <1>9. QED
    BY <1>2, <1>3, <1>4, <1>5, <1>6, <1>7, <1>8

LEMMA InitInv == Init => IInv
  <1> SUFFICES ASSUME Init PROVE IInv
    OBVIOUS
  <1>1. TypeOK
    BY IdleType, VersionsAssumption DEF Init, TypeOK
  <1>2. JobInv
    BY DEF Init, JobInv, Idle, Loading
  <1>3. QED
    BY <1>1, <1>2 DEF IInv

LEMMA NextInv == IInv /\ [Next]_vars => IInv' /\ Kept
  <1> SUFFICES ASSUME IInv, [Next]_vars PROVE IInv' /\ Kept
    OBVIOUS
  <1>1. CASE Next
    BY <1>1, NextStep DEF Next
  <1>2. CASE UNCHANGED vars
    BY <1>2 DEF vars, IInv, TypeOK, JobInv, Kept
  <1>3. QED
    BY <1>1, <1>2

\* Types are kept by every operation on workflows, versions and runs, whatever
\* the interleaving of sessions.
THEOREM TypeCorrect == Spec => []TypeOK
  <1>1. IInv => TypeOK
    BY DEF IInv
  <1>2. QED
    BY InitInv, NextInv, <1>1, PTL DEF Spec

\* No deployment, rollback or listing, however many run at the same time, ever
\* removes a version or changes the definition it holds.
THEOREM ImmutableVersions == Spec => VersionsImmutable
  <1>1. IInv /\ [Next]_vars =>
          [\A w \in Workflows, v \in Versions : rows[w][v] # Absent =>
              rows'[w][v] # Absent /\ rows'[w][v].def = rows[w][v].def]_vars
    BY NextInv DEF Kept
  <1>2. QED
    BY InitInv, NextInv, <1>1, PTL DEF Spec, VersionsImmutable
-----------------------------------------------------------------------------
(* One session at a time *)

Solo == \A s, t \in Sessions : s = t

\* What a lone session has loaded is what the tables hold, and it adds a first
\* or a base row only where there is none.
SoloOK(j) ==
    /\ j.op \in Loading => j.loaded = wf[j.workflow]
    /\ j.op \in {"firstVersion", "baseVersion"} => ~ HasRows(j.workflow)
    /\ j.op = "firstVersion" => j.loaded.status = "draft"

RowsHaveWorkflow == \A w \in Workflows : wf[w] = Absent => ~ HasRows(w)

SoloInv == RowsHaveWorkflow /\ \A s \in Sessions : SoloOK(job[s])

\* Workflow w and its versions table agree.
Agrees(w) ==
    wf[w] # Absent /\ wf[w].status = "active" /\ HasRows(w) =>
      \A v \in Versions :
        IF v = wf[w].version
        THEN rows[w][v] = [def |-> wf[w].def, active |-> TRUE]
        ELSE rows[w][v] # Absent => ~ rows[w][v].active

LEMMA PointerIsAgreement == PointerConsistent <=> \A w \in Workflows : Agrees(w)
  BY DEF PointerConsistent, Agrees

\* The only session there is takes up job j.
LEMMA SoloBecome ==
  ASSUME IInv, Solo, NEW s \in Sessions, NEW j, Become(s, j), SoloOK(j)', RowsHaveWorkflow'
  PROVE  SoloInv'
  <1>1. job' = [job EXCEPT ![s] = j] /\ job \in [Sessions -> Job]
    BY DEF Become, IInv, TypeOK
  <1>2. \A t \in Sessions : job'[t] = j
    BY <1>1 DEF Solo
  <1>3. SUFFICES ASSUME NEW t \in Sessions PROVE SoloOK(job[t])'
    BY DEF SoloInv
  <1>4. QED
    BY <1>2 DEF SoloOK

\* Idle sessions have loaded nothing.
LEMMA SoloIdle ==
  ASSUME NEW j, j.op \notin Loading
  PROVE  SoloOK(j)'
  BY DEF SoloOK, Loading

\* Steps that commit neither workflows nor versions.
LEMMA SoloLoads ==
  ASSUME IInv, SoloInv, PointerConsistent, Solo, NEW s \in Sessions,
         \/ LoadForDeploy(s) \/ LoadForRollback(s) \/ ListVersions(s)
         \/ Deliver(s) \/ ReplayRun(s) \/ StartRun(s)
         \/ ResumeApproval(s) \/ ReplayDeadLetter(s) \/ Crash(s)
  PROVE  SoloInv' /\ PointerConsistent'
  <1>1. UNCHANGED <<wf, rows>>
    BY DEF LoadForDeploy, LoadForRollback, ListVersions, Deliver, ReplayRun, StartRun,
           ResumeApproval, ReplayDeadLetter, Crash
  <1>2. PointerConsistent' /\ RowsHaveWorkflow'
    BY <1>1 DEF PointerConsistent, HasRows, SoloInv, RowsHaveWorkflow
  <1>3. CASE LoadForDeploy(s)
    <2>1. PICK w \in Workflows, d \in Definitions :
            Become(s, [Idle EXCEPT !.op = "deploy", !.workflow = w, !.loaded = wf[w], !.def = d])
      BY <1>3 DEF LoadForDeploy
    <2>2. PICK j : j = [Idle EXCEPT !.op = "deploy", !.workflow = w, !.loaded = wf[w], !.def = d]
      OBVIOUS
    <2>3. Become(s, j) /\ j.op = "deploy" /\ j.workflow = w /\ j.loaded = wf[w]
      BY <2>1, <2>2 DEF Idle
    <2>4. SoloOK(j)'
      BY <2>3, <1>1 DEF SoloOK
    <2>5. QED
      BY <1>2, <2>3, <2>4, SoloBecome
  <1>4. CASE LoadForRollback(s)
    <2>1. PICK w \in Workflows, v \in Versions :
            Become(s, [Idle EXCEPT !.op = "rollback", !.workflow = w, !.loaded = wf[w],
                                   !.def = rows[w][v].def, !.target = v])
      BY <1>4 DEF LoadForRollback
    <2>2. PICK j : j = [Idle EXCEPT !.op = "rollback", !.workflow = w, !.loaded = wf[w],
                                    !.def = rows[w][v].def, !.target = v]
      OBVIOUS
    <2>3. Become(s, j) /\ j.op = "rollback" /\ j.workflow = w /\ j.loaded = wf[w]
      BY <2>1, <2>2 DEF Idle
    <2>4. SoloOK(j)'
      BY <2>3, <1>1 DEF SoloOK
    <2>5. QED
      BY <1>2, <2>3, <2>4, SoloBecome
  <1>5. CASE ListVersions(s)
    <2>1. PICK w \in Workflows :
            /\ ~ HasRows(w)
            /\ Become(s, [Idle EXCEPT !.op = "baseVersion", !.workflow = w, !.loaded = wf[w]])
      BY <1>5 DEF ListVersions
    <2>2. PICK j : j = [Idle EXCEPT !.op = "baseVersion", !.workflow = w, !.loaded = wf[w]]
      OBVIOUS
    <2>3. Become(s, j) /\ j.op = "baseVersion" /\ j.workflow = w /\ j.loaded = wf[w]
      BY <2>1, <2>2 DEF Idle
    <2>4. SoloOK(j)'
      BY <2>1, <2>3, <1>1 DEF SoloOK, HasRows
    <2>5. QED
      BY <1>2, <2>3, <2>4, SoloBecome
  <1>6. CASE Deliver(s)
    <2>1. PICK k : Become(s, [Idle EXCEPT !.op = "ingest", !.key = k])
      BY <1>6 DEF Deliver
    <2>2. PICK j : j = [Idle EXCEPT !.op = "ingest", !.key = k]
      OBVIOUS
    <2>3. Become(s, j) /\ j.op \notin Loading
      BY <2>1, <2>2 DEF Idle, Loading
    <2>4. QED
      BY <1>2, <2>3, SoloIdle, SoloBecome
  <1>7. CASE ReplayRun(s)
    <2>1. PICK r \in 1 .. Len(runs) :
             Become(s, [Idle EXCEPT !.op = "start", !.def = wf[runs[r].workflow].def])
      BY <1>7 DEF ReplayRun
    <2>2. PICK j : j = [Idle EXCEPT !.op = "start", !.def = wf[runs[r].workflow].def]
      OBVIOUS
    <2>3. Become(s, j) /\ j.op \notin Loading
      BY <2>1, <2>2 DEF Idle, Loading
    <2>4. QED
      BY <1>2, <2>3, SoloIdle, SoloBecome
  <1>8. CASE StartRun(s) \/ Crash(s)
    <2>1. Become(s, Idle) /\ Idle.op \notin Loading
      BY <1>8 DEF StartRun, Crash, Idle, Loading
    <2>2. QED
      BY <1>2, <2>1, SoloIdle, SoloBecome
  <1>9. CASE ResumeApproval(s) \/ ReplayDeadLetter(s)
    <2>1. job' = job
      BY <1>9 DEF ResumeApproval, ReplayDeadLetter
    <2>2. QED
      BY <1>1, <1>2, <2>1 DEF SoloInv, SoloOK, HasRows
  <1>10. QED
    BY <1>3, <1>4, <1>5, <1>6, <1>7, <1>8, <1>9

\* Steps that add a workflow: it has no version rows yet.
LEMMA SoloCreates ==
  ASSUME IInv, SoloInv, PointerConsistent, Solo, NEW s \in Sessions,
         CreateWorkflow(s) \/ Ingest(s)
  PROVE  SoloInv' /\ PointerConsistent'
  <1>0. /\ wf \in [Workflows -> Workflow \cup {Absent}] /\ RowsHaveWorkflow
        /\ job[s] \in Job
    BY DEF IInv, TypeOK, SoloInv
  <1>1. rows' = rows
    BY DEF CreateWorkflow, Ingest
  <1>2. ASSUME NEW w \in Workflows, NEW row \in Workflow, wf[w] = Absent,
               wf' = [wf EXCEPT ![w] = row]
        PROVE  RowsHaveWorkflow' /\ PointerConsistent' /\ ~ HasRows(w)'
    <2>1. \A x \in Workflows : HasRows(x)' <=> HasRows(x)
      BY <1>1 DEF HasRows
    <2>2. ~ HasRows(w)'
      BY <1>0, <1>2, <2>1 DEF RowsHaveWorkflow
    <2>3. \A x \in Workflows : x # w => wf'[x] = wf[x]
      BY <1>0, <1>2
    <2>4. wf'[w] = row /\ row # Absent
      BY <1>0, <1>2, AbsentAssumption
    <2>5. RowsHaveWorkflow'
      BY <1>0, <2>1, <2>3, <2>4 DEF RowsHaveWorkflow
    <2>6. SUFFICES ASSUME NEW x \in Workflows PROVE Agrees(x)'
      BY <2>2, <2>5, PointerIsAgreement DEF PointerConsistent, Agrees
    <2>7. Agrees(x)
      BY PointerIsAgreement
    <2>8. QED
      BY <1>1, <2>1, <2>2, <2>3, <2>7 DEF Agrees
  <1>3. CASE CreateWorkflow(s)
    <2>1. PICK w \in Workflows, d \in Definitions :
            LET row == [version |-> 1, def |-> d, status |-> "draft"] IN
            /\ wf[w] = Absent
            /\ wf' = [wf EXCEPT ![w] = row]
            /\ Become(s, [Idle EXCEPT !.op = "firstVersion", !.workflow = w, !.loaded = row])
      BY <1>3 DEF CreateWorkflow
    <2> DEFINE row == [version |-> 1, def |-> d, status |-> "draft"]
    <2>2. row \in Workflow
      BY VersionsAssumption DEF Workflow, Versions
    <2>3. RowsHaveWorkflow' /\ PointerConsistent' /\ ~ HasRows(w)'
      BY <1>2, <2>1, <2>2
    <2>4. PICK j : j = [Idle EXCEPT !.op = "firstVersion", !.workflow = w, !.loaded = row]
      OBVIOUS
    <2>5. Become(s, j) /\ j.op = "firstVersion" /\ j.workflow = w /\ j.loaded = row
      BY <2>1, <2>4 DEF Idle
    <2>6. wf'[w] = row /\ row.status = "draft"
      BY <1>0, <2>1
    <2>7. SoloOK(j)'
      BY <2>3, <2>5, <2>6 DEF SoloOK
    <2>8. QED
      BY <2>3, <2>5, <2>7, SoloBecome
  <1>4. CASE Ingest(s)
    <2> DEFINE row == [version |-> 1, def |-> DefaultDefinition, status |-> "active"]
    <2>1. PICK w \in Workflows :
          \/ /\ Become(s, [job[s] EXCEPT !.op = "start", !.def = wf[w].def])
             /\ UNCHANGED wf
          \/ /\ wf[w] = Absent
             /\ wf' = [wf EXCEPT ![w] = row]
             /\ Become(s, [job[s] EXCEPT !.op = "start", !.def = DefaultDefinition])
      BY <1>4 DEF Ingest
    <2>2. row \in Workflow
      BY VersionsAssumption DEF Workflow, Versions
    <2>3. RowsHaveWorkflow' /\ PointerConsistent'
      <3>1. CASE UNCHANGED wf
        BY <3>1, <1>0, <1>1 DEF RowsHaveWorkflow, PointerConsistent, HasRows
      <3>2. CASE wf[w] = Absent /\ wf' = [wf EXCEPT ![w] = row]
        BY <3>2, <1>2, <2>2
      <3>3. QED
        BY <2>1, <3>1, <3>2
    <2>4. PICK a, b : /\ a = [job[s] EXCEPT !.op = "start", !.def = wf[w].def]
                      /\ b = [job[s] EXCEPT !.op = "start", !.def = DefaultDefinition]
      OBVIOUS
    <2>5. a.op \notin Loading /\ b.op \notin Loading
      BY <1>0, <2>4 DEF Loading, Job
    <2>6. Become(s, a) \/ Become(s, b)
      BY <2>1, <2>4
    <2>7. QED
      BY <2>3, <2>5, <2>6, SoloIdle, SoloBecome
  <1>5. QED
    BY <1>3, <1>4

\* The row of the loaded version is inserted into an empty versions table.
LEMMA SoloInserts ==
  ASSUME IInv, SoloInv, PointerConsistent, Solo, NEW s \in Sessions,
         AddFirstVersion(s) \/ AddBaseVersion(s)
  PROVE  SoloInv' /\ PointerConsistent'
  <1> DEFINE w == job[s].workflow
  <1>1. PICK active \in BOOLEAN : InsertVersion(s, active) /\ (AddBaseVersion(s) => active)
    BY DEF AddFirstVersion, AddBaseVersion
  <1>2. job[s].op \in {"firstVersion", "baseVersion"}
    BY DEF AddFirstVersion, AddBaseVersion
  <1>3. /\ w \in Workflows /\ wf[w] # Absent /\ wf[w] \in Workflow
        /\ job[s].loaded = wf[w] /\ ~ HasRows(w)
        /\ AddFirstVersion(s) => wf[w].status = "draft"
    BY <1>2 DEF IInv, TypeOK, JobInv, Job, SoloInv, SoloOK, Loading, AddFirstVersion
  <1>4. wf[w].version \in Versions
    BY <1>3 DEF Workflow
  <1>5. \A v \in Versions : rows[w][v] = Absent
    BY <1>3 DEF HasRows
  <1>6. /\ rows' = [rows EXCEPT ![w][wf[w].version] = [def |-> wf[w].def, active |-> active]]
        /\ wf' = wf /\ Become(s, Idle)
    BY <1>1, <1>3, <1>4, <1>5 DEF InsertVersion
  <1>7. rows \in [Workflows -> [Versions -> Row \cup {Absent}]]
    BY DEF IInv, TypeOK
  <1>8. \A x \in Workflows : x # w => rows'[x] = rows[x]
    BY <1>6, <1>7
  <1>9. /\ rows'[w][wf[w].version] = [def |-> wf[w].def, active |-> active]
        /\ \A v \in Versions : v # wf[w].version => rows'[w][v] = Absent
    BY <1>3, <1>4, <1>5, <1>6, <1>7
  <1>10. RowsHaveWorkflow'
    <2> SUFFICES ASSUME NEW x \in Workflows, wf'[x] = Absent PROVE ~ HasRows(x)'
      BY DEF RowsHaveWorkflow
    <2>1. x # w /\ wf[x] = Absent
      BY <1>3, <1>6
    <2>2. ~ HasRows(x)
      BY <2>1 DEF SoloInv, RowsHaveWorkflow
    <2>3. QED
      BY <1>8, <2>1, <2>2 DEF HasRows
  <1>11. PointerConsistent'
    <2> SUFFICES ASSUME NEW x \in Workflows PROVE Agrees(x)'
      BY DEF PointerConsistent, Agrees
    <2>1. Agrees(x)
      BY PointerIsAgreement
    <2>2. CASE x # w
      BY <1>6, <1>8, <2>1, <2>2 DEF Agrees, HasRows
    <2>3. CASE x = w /\ wf[w].status = "draft"
      BY <1>6, <2>3 DEF Agrees
    <2>4. CASE x = w /\ AddBaseVersion(s)
      <3>1. active = TRUE
        BY <1>1, <2>4
      <3>2. QED
        BY <1>6, <1>9, <2>4, <3>1 DEF Agrees
    <2>5. QED
      BY <1>3, <2>2, <2>3, <2>4
  <1>12. Idle.op \notin Loading
    BY DEF Idle, Loading
  <1>13. QED
    BY <1>6, <1>10, <1>11, <1>12, SoloIdle, SoloBecome

\* What deploy_version and rollback_to_version leave behind when nobody has
\* changed the workflow since it was loaded.
LEMMA SoloActivates ==
  ASSUME IInv, SoloInv, PointerConsistent, NEW w \in Workflows, NEW v \in Versions,
         NEW d \in Definitions, wf[w] \in Workflow,
         rows' = [rows EXCEPT ![w] = Activate(w, v, d)],
         wf' = [wf EXCEPT ![w] =
                  Written(@, wf[w], [version |-> v, def |-> d, status |-> "active"])]
  PROVE  RowsHaveWorkflow' /\ PointerConsistent'
  <1> DEFINE new == [version |-> v, def |-> d, status |-> "active"]
  <1>1. /\ rows \in [Workflows -> [Versions -> Row \cup {Absent}]]
        /\ wf \in [Workflows -> Workflow \cup {Absent}] /\ TypeOK
    BY DEF IInv, TypeOK
  <1>2. Written(wf[w], wf[w], new) = new
    BY DEF Written, Workflow
  <1>3. wf'[w] = new /\ \A x \in Workflows : x # w => wf'[x] = wf[x] /\ rows'[x] = rows[x]
    BY <1>1, <1>2
  <1>4. new # Absent
    <2>1. new \in Workflow
      BY DEF Workflow
    <2>2. QED
      BY <2>1, AbsentAssumption
  <1>5. \A u \in Versions : rows'[w][u] =
           IF u = v THEN [def |-> d, active |-> TRUE]
           ELSE IF rows[w][u] = Absent THEN Absent ELSE [rows[w][u] EXCEPT !.active = FALSE]
    BY <1>1 DEF Activate
  <1>6. \A u \in Versions : u # v /\ rows'[w][u] # Absent => ~ rows'[w][u].active
    <2> SUFFICES ASSUME NEW u \in Versions, u # v, rows'[w][u] # Absent
                 PROVE  ~ rows'[w][u].active
      OBVIOUS
    <2>1. rows[w][u] # Absent /\ rows[w][u] \in Row
      <3>1. rows[w][u] \in Row \cup {Absent}
        BY <1>1
      <3>2. rows[w][u] = Absent => rows'[w][u] = Absent
        BY <1>5
      <3>3. QED
        BY <3>1, <3>2
    <2>2. rows'[w][u] = [rows[w][u] EXCEPT !.active = FALSE]
      BY <1>5, <2>1
    <2>3. QED
      BY <2>1, <2>2 DEF Row
  <1>7. rows'[w][v] = [def |-> d, active |-> TRUE]
    BY <1>5
  <1>8. RowsHaveWorkflow'
    <2> SUFFICES ASSUME NEW x \in Workflows, wf'[x] = Absent PROVE ~ HasRows(x)'
      BY DEF RowsHaveWorkflow
    <2>1. x # w /\ wf[x] = Absent
      BY <1>3, <1>4
    <2>2. ~ HasRows(x)
      BY <2>1 DEF SoloInv, RowsHaveWorkflow
    <2>3. QED
      BY <1>3, <2>1, <2>2 DEF HasRows
  <1>9. PointerConsistent'
    <2> SUFFICES ASSUME NEW x \in Workflows PROVE Agrees(x)'
      BY DEF PointerConsistent, Agrees
    <2>1. Agrees(x)
      BY PointerIsAgreement
    <2>2. CASE x # w
      BY <1>3, <2>1, <2>2 DEF Agrees, HasRows
    <2>3. CASE x = w
      <3>1. wf'[w].version = v /\ wf'[w].def = d
        BY <1>3
      <3>2. QED
        BY <1>6, <1>7, <2>3, <3>1 DEF Agrees
    <2>4. QED
      BY <2>2, <2>3
  <1>10. QED
    BY <1>8, <1>9

\* Commits of a deployment or a rollback.
LEMMA SoloCommits ==
  ASSUME IInv, SoloInv, PointerConsistent, Solo, NEW s \in Sessions,
         CommitDeploy(s) \/ CommitRollback(s)
  PROVE  SoloInv' /\ PointerConsistent'
  <1> DEFINE j == job[s]
  <1>1. j \in Job /\ j.op \in Loading
    BY DEF CommitDeploy, CommitRollback, Loading, IInv, TypeOK
  <1>2. j.workflow \in Workflows /\ j.def \in Definitions /\ j.target \in Versions
    BY <1>1 DEF Job
  <1>3. wf[j.workflow] # Absent /\ j.loaded = wf[j.workflow]
    BY <1>1 DEF IInv, JobInv, SoloInv, SoloOK
  <1>4. wf[j.workflow] \in Workflow
    BY <1>2, <1>3 DEF IInv, TypeOK
  <1>5. Become(s, Idle) /\ Idle.op \notin Loading
    BY DEF CommitDeploy, CommitRollback, Idle, Loading
  <1>6. RowsHaveWorkflow' /\ PointerConsistent'
    <2>1. CASE CommitRollback(s)
      <3>1. /\ rows' = [rows EXCEPT ![j.workflow] = Activate(j.workflow, j.target, j.def)]
            /\ wf' = [wf EXCEPT ![j.workflow] = Written(@, wf[j.workflow],
                        [version |-> j.target, def |-> j.def, status |-> "active"])]
        BY <1>3, <2>1 DEF CommitRollback
      <3>2. QED
        BY <1>2, <1>4, <3>1, SoloActivates
    <2>2. CASE CommitDeploy(s) /\ rows[j.workflow][j.loaded.version + 1] = Absent
      <3>1. /\ rows' = [rows EXCEPT ![j.workflow] =
                           Activate(j.workflow, j.loaded.version + 1, j.def)]
            /\ wf' = [wf EXCEPT ![j.workflow] = Written(@, wf[j.workflow],
                        [version |-> j.loaded.version + 1, def |-> j.def, status |-> "active"])]
        BY <1>3, <2>2 DEF CommitDeploy
      <3>2. j.loaded.version \in Versions /\ j.loaded.version < MaxVersion
        BY <1>3, <1>4, <2>2 DEF CommitDeploy, IInv, JobInv, Workflow
      <3>3. j.loaded.version + 1 \in Versions
        BY <3>2, NextVersion
      <3>4. QED
        BY <1>2, <1>4, <3>1, <3>3, SoloActivates
    <2>3. CASE CommitDeploy(s) /\ rows[j.workflow][j.loaded.version + 1] # Absent
      <3>1. UNCHANGED <<wf, rows>>
        BY <2>3 DEF CommitDeploy
      <3>2. QED
        BY <3>1 DEF SoloInv, RowsHaveWorkflow, PointerConsistent, HasRows
    <2>4. QED
      BY <2>1, <2>2, <2>3
  <1>7. QED
    BY <1>5, <1>6, SoloIdle, SoloBecome

LEMMA NextSolo ==
  ASSUME IInv, SoloInv, PointerConsistent, Solo, [Next]_vars
  PROVE  SoloInv' /\ PointerConsistent'
  <1>1. CASE Next
    BY <1>1, SoloLoads, SoloCreates, SoloInserts, SoloCommits DEF Next
  <1>2. CASE UNCHANGED vars
    BY <1>2 DEF vars, SoloInv, SoloOK, RowsHaveWorkflow, PointerConsistent, HasRows
  <1>3. QED
    BY <1>1, <1>2

\* When requests are handled one after the other, with crashes between their
\* commits, an active workflow and its versions table always agree, for any
\* number of workflows, definitions, versions and requests.
THEOREM SoloPointer == Solo => (Spec => []PointerConsistent)
  <1> SUFFICES ASSUME Solo PROVE Spec => []PointerConsistent
    OBVIOUS
  <1> DEFINE Inv == IInv /\ SoloInv /\ PointerConsistent
  <1>1. Init => Inv
    <2> SUFFICES ASSUME Init PROVE Inv
      OBVIOUS
    <2>1. SoloInv
      BY DEF Init, SoloInv, SoloOK, RowsHaveWorkflow, HasRows, Idle, Loading
    <2>2. PointerConsistent
      BY DEF Init, PointerConsistent
    <2>3. QED
      BY <2>1, <2>2, InitInv
  <1>2. Inv /\ [Next]_vars => Inv'
    BY NextInv, NextSolo
  <1>3. Inv => PointerConsistent
    OBVIOUS
  <1> HIDE DEF Inv
  <1>4. QED
    BY <1>1, <1>2, <1>3, PTL DEF Spec
-----------------------------------------------------------------------------
(* Idempotency keys *)

\* A session that is to start a run for a key found no run of that key.
KeyUnused(j) == j.key # NoKey => \A r \in 1 .. Len(runs) : runs[r].key # j.key

KeyInv == OneRunPerKey /\ \A s \in Sessions : KeyUnused(job[s])

\* A step that keeps the keys of the runs and gives its session the job j.
LEMMA KeysKept ==
  ASSUME IInv, KeyInv, Solo, NEW s \in Sessions,
         Len(runs') = Len(runs), \A r \in 1 .. Len(runs) : runs'[r].key = runs[r].key,
         UNCHANGED job \/ \E j : Become(s, j) /\ KeyUnused(j)
  PROVE  KeyInv'
  <1>1. OneRunPerKey'
    BY DEF KeyInv, OneRunPerKey
  <1>2. ASSUME NEW j, KeyUnused(j) PROVE KeyUnused(j)'
    BY <1>2 DEF KeyUnused
  <1>3. ASSUME NEW t \in Sessions PROVE KeyUnused(job[t])'
    <2>1. t = s
      BY DEF Solo
    <2>2. CASE UNCHANGED job
      <3>1. KeyUnused(job[t])
        BY DEF KeyInv
      <3>2. QED
        BY <2>2, <3>1 DEF KeyUnused
    <2>3. ASSUME NEW j, Become(s, j), KeyUnused(j) PROVE KeyUnused(job[t])'
      <3>1. job'[t] = j
        BY <2>1, <2>3 DEF Become, IInv, TypeOK
      <3>2. QED
        BY <2>3, <3>1 DEF KeyUnused
    <2>4. QED
      BY <2>2, <2>3
  <1>4. QED
    BY <1>1, <1>3 DEF KeyInv

\* Continuing a run leaves the keys alone.
LEMMA ContinueKeys ==
  ASSUME TypeOK, NEW r \in 1 .. Len(runs), NEW d, Continue(r, d)
  PROVE  Len(runs') = Len(runs) /\ \A q \in 1 .. Len(runs) : runs'[q].key = runs[q].key
  <1>1. PICK outcome \in Outcome :
          runs' = [runs EXCEPT ![r].status = outcome,
                               ![r].dead = @ \/ outcome = "FAILED",
                               ![r].used = @ \cup {d}]
    BY DEF Continue
  <1>2. runs \in Seq(Run) /\ runs[r] \in Run
    BY DEF TypeOK
  <1> DEFINE new == [[[runs[r] EXCEPT !.status = outcome]
                               EXCEPT !.dead = @ \/ outcome = "FAILED"]
                               EXCEPT !.used = @ \cup {d}]
  <1>3. new.key = runs[r].key
    BY <1>2 DEF Run
  <1>4. runs' = [runs EXCEPT ![r] = new]
    BY <1>1, <1>2
  <1> HIDE DEF new
  <1>5. QED
    BY <1>2, <1>3, <1>4

\* Every step of a system that handles one request at a time.
LEMMA NextKeys ==
  ASSUME IInv, KeyInv, Solo, [Next]_vars
  PROVE  KeyInv'
  <1>0. /\ runs \in Seq(Run) /\ Len(runs) \in Nat /\ Idle.key = NoKey
        /\ \A s \in Sessions : job[s] \in Job
    BY DEF IInv, TypeOK, Idle
  <1>1. ASSUME NEW s \in Sessions,
               \/ CreateWorkflow(s) \/ AddFirstVersion(s) \/ LoadForDeploy(s) \/ CommitDeploy(s)
               \/ LoadForRollback(s) \/ CommitRollback(s) \/ ListVersions(s) \/ AddBaseVersion(s)
               \/ ReplayRun(s) \/ Crash(s)
        PROVE  KeyInv'
    <2>1. UNCHANGED runs
      BY <1>1 DEF CreateWorkflow, AddFirstVersion, LoadForDeploy, CommitDeploy, LoadForRollback,
         CommitRollback, ListVersions, AddBaseVersion, ReplayRun, Crash, InsertVersion
    <2>2. \E j : Become(s, j) /\ j.key = NoKey
      <3>1. CASE CreateWorkflow(s)
        <4>1. PICK w, l : Become(s, [Idle EXCEPT !.op = "firstVersion", !.workflow = w, !.loaded = l])
          BY <3>1 DEF CreateWorkflow
        <4>2. [Idle EXCEPT !.op = "firstVersion", !.workflow = w, !.loaded = l].key = NoKey
          BY DEF Idle
        <4>3. QED
          BY <4>1, <4>2
      <3>2. CASE LoadForDeploy(s)
        <4>1. PICK w, d, l : Become(s, [Idle EXCEPT !.op = "deploy", !.workflow = w, !.loaded = l, !.def = d])
          BY <3>2 DEF LoadForDeploy
        <4>2. [Idle EXCEPT !.op = "deploy", !.workflow = w, !.loaded = l, !.def = d].key = NoKey
          BY DEF Idle
        <4>3. QED
          BY <4>1, <4>2
      <3>3. CASE LoadForRollback(s)
        <4>1. PICK w, v, l, d : Become(s, [Idle EXCEPT !.op = "rollback", !.workflow = w, !.loaded = l, !.def = d, !.target = v])
          BY <3>3 DEF LoadForRollback
        <4>2. [Idle EXCEPT !.op = "rollback", !.workflow = w, !.loaded = l, !.def = d, !.target = v].key = NoKey
          BY DEF Idle
        <4>3. QED
          BY <4>1, <4>2
      <3>4. CASE ListVersions(s)
        <4>1. PICK w, l : Become(s, [Idle EXCEPT !.op = "baseVersion", !.workflow = w, !.loaded = l])
          BY <3>4 DEF ListVersions
        <4>2. [Idle EXCEPT !.op = "baseVersion", !.workflow = w, !.loaded = l].key = NoKey
          BY DEF Idle
        <4>3. QED
          BY <4>1, <4>2
      <3>5. CASE ReplayRun(s)
        <4>1. PICK d : Become(s, [Idle EXCEPT !.op = "start", !.def = d])
          BY <3>5 DEF ReplayRun
        <4>2. [Idle EXCEPT !.op = "start", !.def = d].key = NoKey
          BY DEF Idle
        <4>3. QED
          BY <4>1, <4>2
      <3>6. CASE AddFirstVersion(s) \/ AddBaseVersion(s) \/ CommitDeploy(s) \/ CommitRollback(s)
                 \/ Crash(s)
        <4>1. Become(s, Idle)
          BY <3>6 DEF AddFirstVersion, AddBaseVersion, InsertVersion, CommitDeploy,
             CommitRollback, Crash
        <4>2. QED
          BY <1>0, <4>1
      <3>7. QED
        BY <1>1, <3>1, <3>2, <3>3, <3>4, <3>5, <3>6
    <2>3. \E j : Become(s, j) /\ KeyUnused(j)
      BY <2>2 DEF KeyUnused
    <2>4. QED
      BY <2>1, <2>3, KeysKept
  <1>2. ASSUME NEW s \in Sessions, Deliver(s) PROVE KeyInv'
    <2>1. PICK k \in Keys \cup {NoKey} :
            /\ k # NoKey => \A r \in 1 .. Len(runs) : runs[r].key # k
            /\ Become(s, [Idle EXCEPT !.op = "ingest", !.key = k])
      BY <1>2 DEF Deliver
    <2>2. [Idle EXCEPT !.op = "ingest", !.key = k].key = k
      BY DEF Idle
    <2>3. KeyUnused([Idle EXCEPT !.op = "ingest", !.key = k])
      BY <2>1, <2>2 DEF KeyUnused
    <2>4. UNCHANGED runs
      BY <1>2 DEF Deliver
    <2>5. QED
      BY <2>1, <2>3, <2>4, KeysKept
  <1>3. ASSUME NEW s \in Sessions, Ingest(s) PROVE KeyInv'
    <2>1. PICK d : Become(s, [job[s] EXCEPT !.op = "start", !.def = d])
      BY <1>3 DEF Ingest
    <2>2. [job[s] EXCEPT !.op = "start", !.def = d].key = job[s].key
      BY <1>0 DEF Job
    <2>3. KeyUnused([job[s] EXCEPT !.op = "start", !.def = d])
      BY <2>2 DEF KeyInv, KeyUnused
    <2>4. UNCHANGED runs
      BY <1>3 DEF Ingest
    <2>5. QED
      BY <2>1, <2>3, <2>4, KeysKept
  <1>4. ASSUME NEW s \in Sessions, StartRun(s) PROVE KeyInv'
    <2>1. Become(s, Idle)
      BY <1>4 DEF StartRun
    <2>2. PICK outcome \in Outcome :
            runs' = runs \/ runs' = Append(runs, NewRun(job[s].def, job[s].key, outcome))
      BY <1>4 DEF StartRun
    <2>3. CASE runs' = runs
      <3>1. KeyUnused(Idle)
        BY <1>0 DEF KeyUnused
      <3>2. QED
        BY <2>1, <2>3, <3>1, KeysKept
    <2>4. CASE runs' = Append(runs, NewRun(job[s].def, job[s].key, outcome))
      <3>1. /\ Len(runs') = Len(runs) + 1
            /\ \A r \in 1 .. Len(runs) : runs'[r] = runs[r]
            /\ runs'[Len(runs) + 1].key = job[s].key
        BY <1>0, <2>4 DEF NewRun
      <3>2. KeyUnused(job[s])
        BY DEF KeyInv
      <3>3. ASSUME NEW q \in 1 .. Len(runs'), NEW r \in 1 .. Len(runs'),
                   runs'[q].key = runs'[r].key, runs'[q].key # NoKey
            PROVE  q = r
        <4>1. CASE q \in 1 .. Len(runs) /\ r \in 1 .. Len(runs)
          BY <3>1, <3>3, <4>1 DEF KeyInv, OneRunPerKey
        <4>2. CASE q \in 1 .. Len(runs) /\ r = Len(runs) + 1
          BY <3>1, <3>2, <3>3, <4>2 DEF KeyUnused
        <4>3. CASE q = Len(runs) + 1 /\ r \in 1 .. Len(runs)
          BY <3>1, <3>2, <3>3, <4>3 DEF KeyUnused
        <4>4. QED
          BY <1>0, <3>1, <3>3, <4>1, <4>2, <4>3
      <3>4. OneRunPerKey'
        BY <3>3 DEF OneRunPerKey
      <3>5. ASSUME NEW t \in Sessions PROVE KeyUnused(job[t])'
        <4>1. job'[t] = Idle
          BY <2>1 DEF Solo, Become, IInv, TypeOK
        <4>2. QED
          BY <1>0, <4>1 DEF KeyUnused
      <3>6. QED
        BY <3>4, <3>5 DEF KeyInv
    <2>5. QED
      BY <2>2, <2>3, <2>4
  <1>5. ASSUME NEW s \in Sessions, ResumeApproval(s) \/ ReplayDeadLetter(s) PROVE KeyInv'
    <2>1. PICK r \in 1 .. Len(runs) : \E d : Continue(r, d)
      BY <1>5 DEF ResumeApproval, ReplayDeadLetter
    <2>2. Len(runs') = Len(runs) /\ \A q \in 1 .. Len(runs) : runs'[q].key = runs[q].key
      BY <2>1, ContinueKeys DEF IInv
    <2>3. UNCHANGED job
      BY <1>5 DEF ResumeApproval, ReplayDeadLetter
    <2>4. QED
      BY <2>2, <2>3, KeysKept
  <1>6. CASE UNCHANGED vars
    BY <1>6 DEF vars, KeyInv, KeyUnused, OneRunPerKey
  <1>7. QED
    BY <1>1, <1>2, <1>3, <1>4, <1>5, <1>6 DEF Next

\* When requests are handled one after the other, an event that is delivered
\* again and again, with crashes, replays and resumed runs in between, has at
\* most one run, for any number of keys, workflows and requests.
THEOREM SoloKeys == Solo => (Spec => []OneRunPerKey)
  <1> SUFFICES ASSUME Solo PROVE Spec => []OneRunPerKey
    OBVIOUS
  <1>1. Init => IInv /\ KeyInv
    BY InitInv DEF Init, KeyInv, KeyUnused, OneRunPerKey, Idle
  <1>2. IInv /\ KeyInv /\ [Next]_vars => (IInv /\ KeyInv)'
    BY NextInv, NextKeys
  <1>3. KeyInv => OneRunPerKey
    BY DEF KeyInv
  <1>4. QED
    BY <1>1, <1>2, <1>3, PTL DEF Spec
=============================================================================
