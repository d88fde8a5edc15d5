--------------------------- MODULE EdgeAgentProofs ---------------------------
(***************************************************************************)
(* Proofs about the edge agent and its control plane, for any number of    *)
(* commands, poll handlers in flight and crashes, any deployment and any   *)
(* limits: type correctness, that no command is executed twice, and that   *)
(* a recorded result is the one the agent computed.                        *)
(***************************************************************************)
EXTENDS EdgeAgent, Extrema, FiniteSetTheorems, TLAPS

\* The agent waits for one poll at a time, and only while it polls.
Waiting ==
    \A h \in Handlers : handler[h].waited =>
        /\ handler[h].busy /\ proc = "polling"
        /\ \A g \in Handlers : handler[g].waited => g = h

\* What the agent may still receive or process it has not decided yet, and
\* what it has received is no longer queued.
Fresh ==
    /\ \A h \in Handlers : handler[h].waited =>
          /\ \A c \in handler[h].todo \cup handler[h].answer : outcome[c] = "NONE"
          /\ \A c \in handler[h].answer : cmds[c] \notin {"NONE", "QUEUED"}
    /\ \A c \in inbox : outcome[c] = "NONE" /\ cmds[c] \notin {"NONE", "QUEUED"}
    /\ inbox # {} => proc \in {"working", "reporting"}
    /\ proc = "working" => inbox # {}

\* A result under way, in the loop or in the spool, is the one computed.
Genuine ==
    /\ proc = "reporting" =>
          /\ result.cmd \in Commands /\ result.status \in Final
          /\ result.status = outcome[result.cmd]
    /\ \A i \in 1..Len(spool) : spool[i].kind = "command_result" =>
          /\ spool[i].cmd \in Commands /\ spool[i].status \in Final
          /\ spool[i].status = outcome[spool[i].cmd]

\* A decided command is never queued again.
Decided ==
    \A c \in Commands :
        /\ outcome[c] # "NONE" => cmds[c] \notin {"NONE", "QUEUED"}
        /\ cmds[c] \in Final => cmds[c] = outcome[c]
        /\ outcome[c] = "NONE" => executed[c] = 0
        /\ executed[c] <= 1

AgentInv == TypeOK /\ Waiting /\ Fresh /\ Genuine /\ Decided
-----------------------------------------------------------------------------
LEMMA Constants ==
  /\ Commands \subseteq Nat /\ None \notin Commands
  /\ PollLimit \in Nat /\ PeekLimit \in Nat \ {0} /\ MaxCrashes \in Nat
  BY CommandsAssumption, LimitsAssumption

LEMMA InitAgent == Init => AgentInv
  <1> SUFFICES ASSUME Init PROVE AgentInv
    OBVIOUS
  <1>1. TypeOK
    <2>1. /\ drained \subseteq 1 .. PeekLimit /\ cursor \in 1 .. PeekLimit + 1 /\ crashes \in 0 .. MaxCrashes
      BY Constants DEF Init
    <2>2. handler \in [Handlers -> [busy : BOOLEAN, waited : BOOLEAN,
                                    todo : SUBSET Commands, answer : SUBSET Commands]]
      BY DEF Init, Idle
    <2>3. known \in BOOLEAN /\ keyed \in BOOLEAN
      BY Zenon DEF Init
    <2> QED
      BY <2>1, <2>2, <2>3 DEF Init, TypeOK, AgentRow, CommandStatus, ProcState
  <1>2. Waiting /\ Fresh
    BY DEF Init, Waiting, Fresh, Idle
  <1>3. Genuine /\ Decided
    BY DEF Init, Genuine, Decided, Final
  <1> QED
    BY <1>1, <1>2, <1>3 DEF AgentInv

\* The oldest command of a set.
LEMMA Oldest ==
  ASSUME NEW S \in SUBSET Commands, S # {}
  PROVE  Min(S) \in S
  BY Constants, MinElement

\* ProcessCommand ends in a final status.
LEMMA OutcomesAreFinal ==
  ASSUME NEW cmd
  PROVE  Outcomes(cmd) \subseteq Final
  BY DEF Outcomes, Refused, Final

\* Deleting rows leaves rows that were there.
LEMMA KeptRows ==
  ASSUME TypeOK, NEW at \in Kept, NEW new, new = [i \in DOMAIN at |-> spool[at[i]]]
  PROVE  /\ new \in Seq(Event)
         /\ \A i \in 1..Len(new) : \E j \in 1..Len(spool) : new[i] = spool[j]
  <1> DEFINE keep == (1 .. Len(spool)) \ drained
             n == Cardinality(keep)
  <1>1. spool \in Seq(Event) /\ Len(spool) \in Nat
    BY DEF TypeOK
  <1>2. n \in Nat
    <2>1. IsFiniteSet(1 .. Len(spool))
      BY <1>1, FS_Interval
    <2>2. IsFiniteSet(keep)
      BY <2>1, FS_Subset
    <2> QED
      BY <2>2, FS_CardinalityType
  <1>3. at \in [1 .. n -> keep]
    BY DEF Kept
  <1> HIDE DEF n
  <1>4. DOMAIN at = 1 .. n /\ \A i \in 1 .. n : at[i] \in 1 .. Len(spool)
    BY <1>3
  <1>5. new \in [1 .. n -> Event]
    BY <1>1, <1>4
  <1>6. new \in Seq(Event) /\ Len(new) = n
    BY <1>2, <1>5
  <1> QED
    BY <1>4, <1>6
-----------------------------------------------------------------------------
(* The control plane *)

LEMMA ControlPlane ==
  ASSUME AgentInv,
         \/ GenerateEnrollmentToken
         \/ \E c \in Commands : DispatchCommand(c)
         \/ \E h \in Handlers : MarkDispatched(h) \/ AnswerNobody(h) \/ LosePoll(h)
  PROVE  AgentInv'
  <1> USE DEF AgentInv
  <1>1. CASE GenerateEnrollmentToken
    <2>1. agentRow' \in AgentRow
      BY <1>1 DEF GenerateEnrollmentToken, TypeOK, AgentRow
    <2> QED
      BY <1>1, <2>1 DEF GenerateEnrollmentToken, TypeOK, Waiting, Fresh, Genuine, Decided, agentVars
  <1>2. ASSUME NEW c \in Commands, DispatchCommand(c) PROVE AgentInv'
    <2>1. cmds[c] = "NONE" /\ cmds' = [cmds EXCEPT ![c] = "QUEUED"]
      BY <1>2 DEF DispatchCommand
    <2>2. UNCHANGED <<config, agentRow, handler, proc, known, keyed, inbox, result, drained, cursor,
                      spool, executed, outcome, recorded, crashes>>
      BY <1>2 DEF DispatchCommand, agentVars
    <2>3. cmds' \in [Commands -> CommandStatus]
      BY <2>1 DEF TypeOK, CommandStatus
    <2>4. \A d \in Commands : d # c => cmds'[d] = cmds[d]
      BY <2>1 DEF TypeOK
    <2>5. cmds'[c] = "QUEUED" /\ outcome[c] = "NONE"
      BY <2>1 DEF TypeOK, Decided
    <2>6. TypeOK'
      BY <2>2, <2>3 DEF TypeOK
    <2>7. Waiting' /\ Genuine'
      BY <2>2 DEF Waiting, Genuine
    <2>8. Fresh'
      <3>1. \A h \in Handlers : handler[h].answer \subseteq Commands
        BY DEF TypeOK
      <3>2. inbox \subseteq Commands
        BY DEF TypeOK
      <3> QED
        BY <2>1, <2>2, <2>4, <3>1, <3>2 DEF Fresh
    <2>9. Decided'
      BY <2>2, <2>4, <2>5 DEF Decided, Final
    <2> QED
      BY <2>6, <2>7, <2>8, <2>9
  <1>3. ASSUME NEW h \in Handlers, MarkDispatched(h) PROVE AgentInv'
    <2> DEFINE c == Min(handler[h].todo)
    <2>1. handler[h].todo \in SUBSET Commands /\ handler[h].todo # {}
      BY <1>3 DEF MarkDispatched, TypeOK
    <2>2. c \in handler[h].todo /\ c \in Commands
      BY <2>1, Oldest
    <2> HIDE DEF c
    <2>3. /\ cmds' = [cmds EXCEPT ![c] = "DISPATCHED"]
          /\ handler' = [handler EXCEPT ![h].todo = @ \ {c}, ![h].answer = @ \cup {c}]
          /\ UNCHANGED <<config, agentRow, proc, known, keyed, inbox, result, drained, cursor,
                         spool, executed, outcome, recorded, crashes>>
      BY <1>3 DEF MarkDispatched, agentVars, c
    <2>4. /\ handler'[h] = [handler[h] EXCEPT !.todo = @ \ {c}, !.answer = @ \cup {c}]
          /\ \A g \in Handlers \ {h} : handler'[g] = handler[g]
      BY <2>3 DEF TypeOK
    <2>5. /\ handler'[h].todo = handler[h].todo \ {c} /\ handler'[h].answer = handler[h].answer \cup {c}
          /\ handler'[h].waited = handler[h].waited /\ handler'[h].busy = handler[h].busy
      BY <2>4 DEF TypeOK
    <2>6. TypeOK'
      <3>1. cmds' \in [Commands -> CommandStatus]
        BY <2>3 DEF TypeOK, CommandStatus
      <3>2. handler' \in [Handlers -> [busy : BOOLEAN, waited : BOOLEAN,
                                       todo : SUBSET Commands, answer : SUBSET Commands]]
        BY <2>2, <2>3 DEF TypeOK
      <3> QED
        BY <2>3, <3>1, <3>2 DEF TypeOK
    <2>7. \A g \in Handlers : handler'[g].waited = handler[g].waited /\ handler'[g].busy = handler[g].busy
      BY <2>4, <2>5
    <2>8. Waiting'
      BY <2>3, <2>7 DEF Waiting
    <2>9. \A d \in Commands : cmds'[d] = IF d = c THEN "DISPATCHED" ELSE cmds[d]
      BY <2>2, <2>3 DEF TypeOK
    <2>10. Fresh'
      <3>1. \A g \in Handlers : handler[g].answer \subseteq Commands /\ inbox \subseteq Commands
        BY DEF TypeOK
      <3>2. ASSUME NEW g \in Handlers, handler'[g].waited
            PROVE  /\ \A d \in handler'[g].todo \cup handler'[g].answer : outcome[d] = "NONE"
                   /\ \A d \in handler'[g].answer : cmds'[d] \notin {"NONE", "QUEUED"}
        <4>1. CASE g = h
          BY <2>2, <2>5, <2>9, <3>1, <3>2, <4>1 DEF Fresh
        <4>2. CASE g # h
          BY <2>4, <2>9, <3>1, <3>2, <4>2 DEF Fresh
        <4> QED
          BY <4>1, <4>2
      <3>3. \A d \in inbox : outcome[d] = "NONE" /\ cmds'[d] \notin {"NONE", "QUEUED"}
        BY <2>9, <3>1 DEF Fresh
      <3>4. /\ inbox # {} => proc \in {"working", "reporting"}
            /\ proc = "working" => inbox # {}
        BY DEF Fresh
      <3> QED
        BY <2>3, <3>2, <3>3, <3>4 DEF Fresh
    <2>11. Genuine'
      BY <2>3 DEF Genuine
    <2>12. Decided'
      BY <2>3, <2>9 DEF Decided, Final
    <2> QED
      BY <2>6, <2>8, <2>10, <2>11, <2>12
  <1>4. ASSUME NEW h \in Handlers, AnswerNobody(h) \/ LosePoll(h) PROVE AgentInv'
    <2>1. /\ handler' = [handler EXCEPT ![h] = Idle] /\ inbox' = inbox
          /\ UNCHANGED <<config, agentRow, cmds, known, keyed, result, drained, cursor,
                         spool, executed, outcome, recorded, crashes>>
      BY <1>4 DEF AnswerNobody, LosePoll, EndPoll
    <2>2. proc' = proc \/ (handler[h].waited /\ proc' = "idle")
      BY <1>4 DEF AnswerNobody, LosePoll
    <2>3. handler'[h] = Idle /\ \A g \in Handlers \ {h} : handler'[g] = handler[g]
      BY <2>1 DEF TypeOK
    <2>4. TypeOK'
      <3>1. handler' \in [Handlers -> [busy : BOOLEAN, waited : BOOLEAN,
                                       todo : SUBSET Commands, answer : SUBSET Commands]]
        BY <2>1 DEF TypeOK, Idle
      <3>2. proc' \in ProcState
        BY <2>2 DEF TypeOK, ProcState
      <3> QED
        BY <2>1, <3>1, <3>2 DEF TypeOK
    <2>5. ~ handler'[h].waited
      BY <2>3 DEF Idle
    <2>6. handler[h].waited => proc = "polling" /\ \A g \in Handlers : handler[g].waited => g = h
      BY DEF Waiting
    <2>7. Waiting'
      BY <2>2, <2>3, <2>5, <2>6 DEF Waiting
    <2>8. Fresh'
      <3>1. handler[h].waited => inbox = {}
        BY <2>6 DEF Fresh
      <3> QED
        BY <2>1, <2>2, <2>3, <2>5, <3>1 DEF Fresh
    <2>9. Genuine' /\ Decided'
      BY <2>1, <2>2 DEF Genuine, Decided
    <2> QED
      BY <2>4, <2>7, <2>8, <2>9
  <1> QED
    BY <1>1, <1>2, <1>3, <1>4
-----------------------------------------------------------------------------
(* The agent *)

\* Steps of an agent that is down or idle and that start neither a poll nor
\* anything with a result.
LEMMA AgentIdle ==
  ASSUME AgentInv, proc \in {"down", "idle"}, proc' \in {"idle", "draining"},
         UNCHANGED <<config, cmds, handler, inbox, result, spool, executed, outcome, recorded, crashes>>,
         agentRow' \in AgentRow, known' \in BOOLEAN, keyed' \in BOOLEAN,
         drained' \subseteq 1 .. PeekLimit, cursor' \in 1 .. PeekLimit + 1
  PROVE  AgentInv'
  <1> USE DEF AgentInv
  <1>1. TypeOK'
    BY DEF TypeOK, ProcState
  <1>2. \A h \in Handlers : ~ handler[h].waited
    BY DEF Waiting
  <1>3. Waiting' /\ Fresh'
    BY <1>2 DEF Waiting, Fresh
  <1>4. Genuine' /\ Decided'
    BY DEF Genuine, Decided
  <1> QED
    BY <1>1, <1>3, <1>4

LEMMA AgentStarts ==
  ASSUME AgentInv, Boot \/ Enroll \/ EnrollFails \/ SendHeartbeat \/ DrainBuffer
  PROVE  AgentInv'
  <1>0. TypeOK
    BY DEF AgentInv
  <1>1. /\ agentRow \in AgentRow /\ [token |-> "used", status |-> "ONLINE"] \in AgentRow
        /\ known \in BOOLEAN /\ keyed \in BOOLEAN /\ config.flagId \in BOOLEAN
    BY <1>0, CommandsAssumption DEF TypeOK, AgentRow
  <1>2. 1 \in 1 .. PeekLimit + 1 /\ drained \subseteq 1 .. PeekLimit /\ cursor \in 1 .. PeekLimit + 1
    BY <1>0, Constants DEF TypeOK
  <1>3. UpdateHeartbeat \in AgentRow
    BY <1>1 DEF UpdateHeartbeat, AgentRow
  <1>4. CASE Boot
    BY <1>1, <1>2, <1>4, AgentIdle DEF Boot, Start
  <1>5. CASE Enroll
    BY <1>1, <1>2, <1>5, AgentIdle DEF Enroll, Start
  <1>6. CASE EnrollFails
    <2>1. agentRow' \in AgentRow
      BY <1>1, <1>6 DEF EnrollFails
    <2> QED
      BY <1>1, <1>2, <1>6, <2>1, AgentIdle DEF EnrollFails, Start
  <1>7. CASE SendHeartbeat
    BY <1>1, <1>2, <1>3, <1>7, AgentIdle DEF SendHeartbeat, agentVars
  <1>8. CASE DrainBuffer
    BY <1>1, <1>2, <1>8, AgentIdle DEF DrainBuffer
  <1> QED
    BY <1>4, <1>5, <1>6, <1>7, <1>8

LEMMA AgentSpoolsHeartbeat ==
  ASSUME AgentInv, SpoolHeartbeat
  PROVE  AgentInv'
  <1> USE DEF AgentInv
  <1> DEFINE e == [kind |-> "heartbeat", cmd |-> None, status |-> "NONE"]
  <1>1. /\ spool' = Append(spool, e) /\ agentRow' \in {agentRow, UpdateHeartbeat}
        /\ UNCHANGED <<config, cmds, handler, proc, known, keyed, inbox, result, drained, cursor,
                       executed, outcome, recorded, crashes>>
    BY DEF SpoolHeartbeat, agentVars
  <1>2. e \in Event /\ e.kind # "command_result"
    BY DEF Event
  <1> HIDE DEF e
  <1>3. /\ spool' \in Seq(Event) /\ Len(spool') = Len(spool) + 1 /\ spool'[Len(spool) + 1] = e
        /\ \A i \in 1..Len(spool) : spool'[i] = spool[i]
        /\ Len(spool) \in Nat
    BY <1>1, <1>2 DEF TypeOK
  <1>4. agentRow' \in AgentRow
    BY <1>1 DEF TypeOK, AgentRow, UpdateHeartbeat
  <1>5. TypeOK'
    BY <1>1, <1>3, <1>4 DEF TypeOK
  <1>6. Waiting' /\ Fresh' /\ Decided'
    BY <1>1 DEF Waiting, Fresh, Decided
  <1>7. Genuine'
    <2>1. \A i \in 1..Len(spool') : i \in 1..Len(spool) \/ spool'[i] = e
      BY <1>3
    <2> QED
      BY <1>1, <1>2, <1>3, <2>1 DEF Genuine
  <1> QED
    BY <1>5, <1>6, <1>7

\* A poll, its timeout and its answer.
LEMMA AgentPolls ==
  ASSUME AgentInv, NEW h \in Handlers, PollCommands(h) \/ PollTimeout(h) \/ PollAnswer(h)
  PROVE  AgentInv'
  <1> USE DEF AgentInv
  <1> DEFINE HandlerType == [busy : BOOLEAN, waited : BOOLEAN,
                             todo : SUBSET Commands, answer : SUBSET Commands]
  <1>0. handler \in [Handlers -> HandlerType]
    BY DEF TypeOK
  <1>1. CASE PollCommands(h)
    <2> DEFINE todo == GetPendingCommands
               new == [busy |-> TRUE, waited |-> TRUE, todo |-> todo, answer |-> {}]
    <2>1. todo \in SUBSET Commands /\ \A c \in todo : cmds[c] = "QUEUED"
      BY DEF GetPendingCommands
    <2>2. /\ handler' = [handler EXCEPT ![h] = new]
          /\ proc = "idle" /\ proc' = "polling"
          /\ UNCHANGED <<config, agentRow, cmds, known, keyed, inbox, result, drained, cursor,
                         spool, executed, outcome, recorded, crashes>>
      BY <1>1 DEF PollCommands
    <2> HIDE DEF todo
    <2>3. new \in HandlerType /\ new.busy /\ new.waited /\ new.todo = todo /\ new.answer = {}
      BY <2>1
    <2> HIDE DEF new, HandlerType
    <2>4. handler'[h] = new /\ \A g \in Handlers \ {h} : handler'[g] = handler[g]
      BY <1>0, <2>2
    <2>5. handler' \in [Handlers -> HandlerType]
      BY <1>0, <2>2, <2>3
    <2>6. TypeOK'
      BY <2>2, <2>5 DEF TypeOK, HandlerType, ProcState
    <2>7. \A g \in Handlers : ~ handler[g].waited
      BY <2>2 DEF Waiting
    <2>8. Waiting'
      BY <2>2, <2>3, <2>4, <2>7 DEF Waiting
    <2>9. \A c \in todo : outcome[c] = "NONE"
      BY <2>1 DEF Decided
    <2>10. Fresh'
      BY <2>2, <2>3, <2>4, <2>7, <2>9 DEF Fresh
    <2>11. Genuine' /\ Decided'
      BY <2>2 DEF Genuine, Decided
    <2> QED
      BY <2>6, <2>8, <2>10, <2>11
  <1>2. CASE PollTimeout(h)
    <2>1. /\ handler' = [handler EXCEPT ![h].waited = FALSE] /\ handler[h].waited
          /\ proc' = "idle"
          /\ UNCHANGED <<config, agentRow, cmds, known, keyed, inbox, result, drained, cursor,
                         spool, executed, outcome, recorded, crashes>>
      BY <1>2 DEF PollTimeout
    <2>2. handler'[h] = [handler[h] EXCEPT !.waited = FALSE] /\ \A g \in Handlers \ {h} : handler'[g] = handler[g]
      BY <1>0, <2>1
    <2>3. ~ handler'[h].waited
      BY <1>0, <2>2
    <2>4. handler' \in [Handlers -> HandlerType]
      BY <1>0, <2>1
    <2>5. TypeOK'
      BY <2>1, <2>4 DEF TypeOK, ProcState
    <2>6. proc = "polling" /\ \A g \in Handlers : ~ handler'[g].waited
      BY <2>1, <2>2, <2>3 DEF Waiting
    <2>7. inbox = {}
      BY <2>6 DEF Fresh
    <2>8. Waiting' /\ Fresh'
      BY <2>1, <2>6, <2>7 DEF Waiting, Fresh
    <2>9. Genuine' /\ Decided'
      BY <2>1 DEF Genuine, Decided
    <2> QED
      BY <2>5, <2>8, <2>9
  <1>3. CASE PollAnswer(h)
    <2>1. /\ handler' = [handler EXCEPT ![h] = Idle] /\ handler[h].waited
          /\ inbox' = handler[h].answer
          /\ proc' = IF inbox' = {} THEN "idle" ELSE "working"
          /\ UNCHANGED <<config, agentRow, cmds, known, keyed, result, drained, cursor,
                         spool, executed, outcome, recorded, crashes>>
      BY <1>3 DEF PollAnswer, EndPoll, AfterCommand
    <2>2. handler'[h] = Idle /\ \A g \in Handlers \ {h} : handler'[g] = handler[g]
      BY <1>0, <2>1
    <2>3. ~ handler'[h].waited /\ Idle \in HandlerType
      BY <2>2 DEF Idle
    <2>4. handler' \in [Handlers -> HandlerType]
      BY <1>0, <2>1, <2>3
    <2>5. TypeOK'
      BY <1>0, <2>1, <2>4 DEF TypeOK, ProcState
    <2>6. \A g \in Handlers : ~ handler'[g].waited
      BY <2>1, <2>2, <2>3 DEF Waiting
    <2>7. \A c \in inbox' : outcome[c] = "NONE" /\ cmds[c] \notin {"NONE", "QUEUED"}
      BY <2>1 DEF Fresh
    <2>8. Waiting' /\ Fresh'
      BY <2>1, <2>6, <2>7 DEF Waiting, Fresh
    <2>9. Genuine' /\ Decided'
      BY <2>1 DEF Genuine, Decided
    <2> QED
      BY <2>5, <2>8, <2>9
  <1> QED
    BY <1>1, <1>2, <1>3

\* The one step that decides a command.
LEMMA AgentProcesses ==
  ASSUME AgentInv, ProcessCommand
  PROVE  AgentInv'
  <1> USE DEF AgentInv
  <1> DEFINE c == Min(inbox)
  <1>1. proc = "working" /\ inbox # {} /\ inbox \in SUBSET Commands
    BY DEF ProcessCommand, Fresh, TypeOK
  <1>2. c \in inbox /\ c \in Commands
    BY <1>1, Oldest
  <1>3. outcome[c] = "NONE" /\ cmds[c] \notin {"NONE", "QUEUED"} /\ executed[c] = 0
    BY <1>2 DEF Fresh, Decided
  <1> HIDE DEF c
  <1>4. PICK s \in Outcomes(Params[c]) :
            /\ result' = [cmd |-> c, status |-> s]
            /\ outcome' = [outcome EXCEPT ![c] = s]
            /\ executed' = [executed EXCEPT ![c] = IF Refused(Params[c]) = {} THEN @ + 1 ELSE @]
    BY DEF ProcessCommand, c
  <1>5. s \in Final
    BY OutcomesAreFinal
  <1>6. /\ inbox' = inbox \ {c} /\ proc' = "reporting"
        /\ UNCHANGED <<config, agentRow, cmds, handler, known, keyed, drained, cursor, spool,
                       recorded, crashes>>
    BY DEF ProcessCommand, c
  <1>7. /\ outcome'[c] = s /\ \A d \in Commands \ {c} : outcome'[d] = outcome[d]
        /\ executed'[c] \in {0, 1} /\ \A d \in Commands \ {c} : executed'[d] = executed[d]
    BY <1>2, <1>3, <1>4 DEF TypeOK
  <1>8. TypeOK'
    <2>1. outcome' \in [Commands -> Final \cup {"NONE"}]
      BY <1>4, <1>5 DEF TypeOK
    <2>2. executed' \in [Commands -> Nat]
      <3>1. executed \in [Commands -> Nat]
        BY DEF TypeOK
      <3>2. executed' = [executed EXCEPT ![c] = executed'[c]]
        BY <1>2, <1>4, <3>1
      <3> QED
        BY <1>7, <3>1, <3>2
    <2>3. result' \in [cmd : Commands, status : Final]
      BY <1>2, <1>4, <1>5
    <2> QED
      BY <1>6, <2>1, <2>2, <2>3 DEF TypeOK, ProcState
  <1>9. \A h \in Handlers : ~ handler[h].waited
    BY <1>1 DEF Waiting
  <1>10. Waiting'
    BY <1>6, <1>9 DEF Waiting
  <1>11. Fresh'
    <2>1. \A d \in inbox' : outcome'[d] = "NONE" /\ cmds[d] \notin {"NONE", "QUEUED"}
      BY <1>1, <1>6, <1>7 DEF Fresh
    <2> QED
      BY <1>6, <1>9, <2>1 DEF Fresh
  <1>12. Genuine'
    <2>1. result'.cmd = c /\ result'.status = s
      BY <1>4
    <2>2. \A i \in 1..Len(spool) : spool[i].kind = "command_result" => spool[i].cmd # c
      BY <1>3 DEF Genuine, Final
    <2> QED
      BY <1>2, <1>5, <1>6, <1>7, <2>1, <2>2 DEF Genuine
  <1>13. Decided'
    <2>1. cmds[c] \notin Final /\ s # "NONE"
      BY <1>2, <1>3, <1>5 DEF Decided, Final
    <2>2. executed'[c] <= 1
      BY <1>7
    <2> QED
      BY <1>3, <1>6, <1>7, <2>1, <2>2 DEF Decided
  <1> QED
    BY <1>8, <1>10, <1>11, <1>12, <1>13

\* Recording the computed status of a decided command, or nothing.
LEMMA Recording ==
  ASSUME AgentInv, NEW c \in Commands, outcome[c] \in Final,
         RecordResult(c, outcome[c]) \/ UNCHANGED <<cmds, recorded>>,
         UNCHANGED <<outcome, executed>>
  PROVE  /\ cmds' \in [Commands -> CommandStatus] /\ recorded' \subseteq Commands
         /\ \A d \in Commands : cmds[d] \notin {"NONE", "QUEUED"} => cmds'[d] \notin {"NONE", "QUEUED"}
         /\ Decided'
  <1> USE DEF AgentInv
  <1>1. CASE UNCHANGED <<cmds, recorded>>
    BY <1>1 DEF TypeOK, Decided
  <1>2. CASE RecordResult(c, outcome[c])
    <2>1. cmds' = [cmds EXCEPT ![c] = outcome[c]] /\ recorded' = recorded \cup {c}
      BY <1>2 DEF RecordResult
    <2>2. cmds'[c] = outcome[c] /\ \A d \in Commands \ {c} : cmds'[d] = cmds[d]
      BY <2>1 DEF TypeOK
    <2>3. cmds'[c] \notin {"NONE", "QUEUED"}
      BY <2>2 DEF Final
    <2>4. cmds' \in [Commands -> CommandStatus] /\ recorded' \subseteq Commands
      BY <2>1 DEF TypeOK, CommandStatus
    <2>5. Decided'
      BY <2>2, <2>3 DEF Decided
    <2> QED
      BY <2>2, <2>3, <2>4, <2>5
  <1> QED
    BY <1>1, <1>2

LEMMA AgentReports ==
  ASSUME AgentInv, ReportResult \/ BufferResult
  PROVE  AgentInv'
  <1> USE DEF AgentInv
  <1> DEFINE e == [kind |-> "command_result", cmd |-> result.cmd, status |-> result.status]
  <1>1. /\ proc = "reporting" /\ proc' = (IF inbox = {} THEN "idle" ELSE "working")
        /\ result' = NoResult
        /\ UNCHANGED <<config, agentRow, handler, known, keyed, inbox, drained, cursor,
                       executed, outcome, crashes>>
    BY DEF ReportResult, BufferResult, Reported, AfterCommand
  <1>2. /\ result.cmd \in Commands /\ result.status \in Final /\ result.status = outcome[result.cmd]
    BY <1>1 DEF Genuine
  <1>3. RecordResult(result.cmd, result.status) \/ UNCHANGED <<cmds, recorded>>
    BY DEF ReportResult, BufferResult
  <1>4. spool' = spool \/ spool' = Append(spool, e)
    BY DEF ReportResult, BufferResult
  <1>5. /\ cmds' \in [Commands -> CommandStatus] /\ recorded' \subseteq Commands
        /\ \A d \in Commands : cmds[d] \notin {"NONE", "QUEUED"} => cmds'[d] \notin {"NONE", "QUEUED"}
        /\ Decided'
    BY <1>1, <1>2, <1>3, Recording
  <1>6. /\ e \in Event /\ e.cmd = result.cmd /\ e.status = result.status
    BY <1>2 DEF Event
  <1> HIDE DEF e
  <1>7. /\ spool' \in Seq(Event)
        /\ \A i \in 1..Len(spool') : (i \in 1..Len(spool) /\ spool'[i] = spool[i]) \/ spool'[i] = e
    <2>1. CASE spool' = spool
      BY <2>1 DEF TypeOK
    <2>2. CASE spool' = Append(spool, e)
      BY <1>6, <2>2 DEF TypeOK
    <2> QED
      BY <1>4, <2>1, <2>2
  <1>8. TypeOK'
    BY <1>1, <1>5, <1>7 DEF TypeOK, ProcState
  <1>9. \A h \in Handlers : ~ handler[h].waited
    BY <1>1 DEF Waiting
  <1>10. Waiting' /\ Fresh'
    <2>1. inbox \subseteq Commands
      BY DEF TypeOK
    <2> QED
      BY <1>1, <1>5, <1>9, <2>1 DEF Waiting, Fresh
  <1>11. Genuine'
    <2>1. \A i \in 1..Len(spool') : spool'[i].kind = "command_result" =>
              /\ spool'[i].cmd \in Commands /\ spool'[i].status \in Final
              /\ spool'[i].status = outcome[spool'[i].cmd]
      BY <1>2, <1>6, <1>7 DEF Genuine
    <2> QED
      BY <1>1, <2>1 DEF Genuine
  <1> QED
    BY <1>5, <1>8, <1>10, <1>11

LEMMA AgentDrains ==
  ASSUME AgentInv, DrainHeartbeat \/ DrainResult \/ DrainFails
  PROVE  AgentInv'
  <1> USE DEF AgentInv
  <1>1. /\ proc = "draining" /\ cursor \in 1..Len(spool) /\ cursor <= PeekLimit
    <2>1. DrainMore
      BY DEF DrainHeartbeat, DrainResult, DrainFails
    <2> QED
      BY <2>1, Constants DEF DrainMore, TypeOK
  <1>2. /\ UNCHANGED <<config, agentRow, handler, proc, known, keyed, inbox, result,
                       spool, executed, outcome, crashes>>
        /\ cursor' = cursor + 1 /\ drained' \in {drained, drained \cup {cursor}}
    BY DEF DrainHeartbeat, DrainResult, DrainFails, DrainStep
  <1>3. cursor' \in 1 .. PeekLimit + 1 /\ drained' \subseteq 1 .. PeekLimit
    BY <1>1, <1>2, Constants DEF TypeOK
  <1>4. /\ cmds' \in [Commands -> CommandStatus] /\ recorded' \subseteq Commands
        /\ \A d \in Commands : cmds[d] \notin {"NONE", "QUEUED"} => cmds'[d] \notin {"NONE", "QUEUED"}
        /\ Decided'
    <2>1. CASE UNCHANGED <<cmds, recorded>>
      BY <1>2, <2>1 DEF TypeOK, Decided
    <2>2. CASE ~ UNCHANGED <<cmds, recorded>>
      <3>1. /\ spool[cursor].kind = "command_result"
            /\ RecordResult(spool[cursor].cmd, spool[cursor].status)
        BY <2>2 DEF DrainHeartbeat, DrainResult, DrainFails
      <3>2. /\ spool[cursor].cmd \in Commands /\ spool[cursor].status \in Final
            /\ spool[cursor].status = outcome[spool[cursor].cmd]
        BY <1>1, <3>1 DEF Genuine
      <3> QED
        BY <1>2, <3>1, <3>2, Recording
    <2> QED
      BY <2>1, <2>2
  <1>5. TypeOK'
    BY <1>2, <1>3, <1>4 DEF TypeOK
  <1>6. \A h \in Handlers : ~ handler[h].waited
    BY <1>1 DEF Waiting
  <1>7. Waiting' /\ Fresh'
    <2>1. inbox = {}
      BY <1>1 DEF Fresh
    <2> QED
      BY <1>1, <1>2, <1>6, <2>1 DEF Waiting, Fresh
  <1>8. Genuine'
    BY <1>2 DEF Genuine
  <1> QED
    BY <1>4, <1>5, <1>7, <1>8

LEMMA AgentDeletes ==
  ASSUME AgentInv, DeleteDrained
  PROVE  AgentInv'
  <1> USE DEF AgentInv
  <1>1. /\ proc = "draining" /\ proc' = "idle" /\ drained' = {} /\ cursor' = 1
        /\ UNCHANGED <<config, agentRow, cmds, handler, known, keyed, inbox, result,
                       executed, outcome, recorded, crashes>>
    BY DEF DeleteDrained
  <1>2. PICK at \in Kept : spool' = [i \in DOMAIN at |-> spool[at[i]]]
    BY DEF DeleteDrained
  <1>3. /\ spool' \in Seq(Event)
        /\ \A i \in 1..Len(spool') : \E j \in 1..Len(spool) : spool'[i] = spool[j]
    BY <1>2, KeptRows
  <1>4. TypeOK'
    <2>1. drained' \subseteq 1 .. PeekLimit /\ cursor' \in 1 .. PeekLimit + 1
      BY <1>1, Constants
    <2> QED
      BY <1>1, <1>3, <2>1 DEF TypeOK, ProcState
  <1>5. \A h \in Handlers : ~ handler[h].waited
    BY <1>1 DEF Waiting
  <1>6. Waiting' /\ Fresh' /\ Decided'
    BY <1>1, <1>5 DEF Waiting, Fresh, Decided
  <1>7. Genuine'
    BY <1>1, <1>3 DEF Genuine
  <1> QED
    BY <1>4, <1>6, <1>7

LEMMA AgentCrashes ==
  ASSUME AgentInv, Crash
  PROVE  AgentInv'
  <1> USE DEF AgentInv
  <1>1. /\ proc' = "down" /\ known' = FALSE /\ keyed' = FALSE
        /\ inbox' = {} /\ result' = NoResult /\ drained' = {} /\ cursor' = 1
        /\ handler' = [h \in Handlers |-> [handler[h] EXCEPT !.waited = FALSE]]
        /\ crashes < MaxCrashes /\ crashes' = crashes + 1
        /\ UNCHANGED <<config, agentRow, cmds, spool, executed, outcome, recorded>>
    BY DEF Crash
  <1>2. \A h \in Handlers : ~ handler'[h].waited
    BY <1>1 DEF TypeOK
  <1>3. TypeOK'
    <2>1. /\ drained' \subseteq 1 .. PeekLimit /\ cursor' \in 1 .. PeekLimit + 1
          /\ crashes' \in 0 .. MaxCrashes
      BY <1>1, Constants DEF TypeOK
    <2>2. handler' \in [Handlers -> [busy : BOOLEAN, waited : BOOLEAN,
                                     todo : SUBSET Commands, answer : SUBSET Commands]]
      BY <1>1 DEF TypeOK
    <2>3. known' \in BOOLEAN /\ keyed' \in BOOLEAN
      BY <1>1, Zenon
    <2> QED
      BY <1>1, <2>1, <2>2, <2>3 DEF TypeOK, ProcState
  <1>4. Waiting' /\ Fresh'
    BY <1>1, <1>2 DEF Waiting, Fresh
  <1>5. Genuine' /\ Decided'
    BY <1>1 DEF Genuine, Decided
  <1> QED
    BY <1>3, <1>4, <1>5
-----------------------------------------------------------------------------
(* Theorems *)

LEMMA AgentInvariance == Spec => []AgentInv
  <1>1. AgentInv /\ [Next]_vars => AgentInv'
    <2> SUFFICES ASSUME AgentInv, [Next]_vars PROVE AgentInv'
      OBVIOUS
    <2>1. CASE UNCHANGED vars
      BY <2>1 DEF vars, agentVars, AgentInv, TypeOK, Waiting, Fresh, Genuine, Decided
    <2>2. CASE Next
      BY <2>2, ControlPlane, AgentStarts, AgentSpoolsHeartbeat, AgentPolls, AgentProcesses,
         AgentReports, AgentDrains, AgentDeletes, AgentCrashes DEF Next
    <2> QED
      BY <2>1, <2>2
  <1> QED
    BY InitAgent, <1>1, PTL DEF Spec

\* Agent and control plane stay well typed: the drain never looks past what
\* it peeked.
THEOREM TypeCorrect == Spec => []TypeOK
  <1>1. AgentInv => TypeOK
    BY DEF AgentInv
  <1> QED
    BY AgentInvariance, <1>1, PTL

\* No command is executed twice, however many polls overlap, whichever answers
\* get lost and however often the agent restarts.
THEOREM ExecutedOnce == Spec => []AtMostOnce
  <1>1. AgentInv => AtMostOnce
    BY DEF AgentInv, Decided, AtMostOnce
  <1> QED
    BY AgentInvariance, <1>1, PTL

\* The status the control plane shows for a finished command is the agent's.
THEOREM GenuineResults == Spec => []ResultIsGenuine
  <1>1. AgentInv => ResultIsGenuine
    BY DEF AgentInv, Decided, ResultIsGenuine
  <1> QED
    BY AgentInvariance, <1>1, PTL
=============================================================================
