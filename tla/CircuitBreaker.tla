---------------------------- MODULE CircuitBreaker ----------------------------
(***************************************************************************)
(* The circuit breaker of one connection: the keys the state store keeps   *)
(* for it (packages/state-store), the retry loop of _execute_node that     *)
(* consults and feeds it, and the incidents the engine reports about it    *)
(* (services/incident-manager).                                            *)
(*                                                                         *)
(* A caller is one execution of a connected step, in any run.  With Remote *)
(* FALSE the store is MemoryStateStore: each operation is one step of the  *)
(* event loop.  With Remote TRUE it is RedisStateStore: a caller reads its *)
(* clock, then the script runs, and record_circuit_success is three        *)
(* separate commands.                                                      *)
(*                                                                         *)
(* Time is kept as ages: a stored timestamp is how long ago it was taken,  *)
(* which stops growing once no comparison can tell the difference.         *)
(***************************************************************************)
EXTENDS Naturals, Sequences

CONSTANTS
    Callers,        \* step executions in flight on the connection
    Threshold,      \* consecutive failures that trip the breaker
    Cooldown,       \* default_cooldown_seconds
    MaxAttempts,    \* retry.max_attempts
    Remote,         \* Redis (TRUE) or memory (FALSE)
    MaxDelay,       \* bound: age a clock reading has when its script runs
    MaxIncidents,   \* bound: no incident is resolved once there are this many
    CrashAllowed,   \* may a process die?
    Unset           \* opened_at is absent

ASSUME BreakerAssumption ==
    /\ Threshold \in Nat \ {0}
    /\ Cooldown \in Nat
    /\ MaxAttempts \in Nat \ {0}
    /\ Remote \in BOOLEAN
    /\ MaxDelay \in Nat
    /\ MaxIncidents \in Nat
    /\ CrashAllowed \in BOOLEAN
    /\ Unset \notin Nat

VARIABLES
    \* the store
    state,      \* cb:<connection>:state
    failures,   \* cb:<connection>:failures; Threshold stands for all above it
    openedAge,  \* age of cb:<connection>:opened_at
    \* the database
    incidents,  \* statuses of the connection's incidents, oldest first
    \* the callers
    pc,
    attempt,    \* attempt of the retry loop, 0 once the step failed fast
    delay,      \* age of the clock reading sent with the pending script
    found,      \* index of the incident being marked recovered
    \* history
    trippedAge  \* time since the breaker was last set to OPEN

storeVars == <<state, failures, openedAge, trippedAge>>
callVars  == <<attempt, found>>
vars == <<storeVars, incidents, callVars, pc, delay>>

State    == {"CLOSED", "OPEN", "HALF-OPEN"}
Incident == {"OPEN", "RECOVERED", "RESOLVED"}
MaxAge   == Cooldown + MaxDelay
Labels   == {"idle", "ask", "call", "fail", "tripped", "create", "success",
             "setClosed", "delOpened", "recovered", "markRecovered"}

Capped(n, max) == IF n > max THEN max ELSE n
Goto(c, label) == pc' = [pc EXCEPT ![c] = label]
-----------------------------------------------------------------------------
(* The caller asks the store *)

\* A connected step is about to run: the caller reads its clock.
Send(c) ==
    /\ pc[c] = "idle"
    /\ Goto(c, "ask")
    /\ attempt' = [attempt EXCEPT ![c] = 1]
    /\ delay' = [delay EXCEPT ![c] = 0]
    /\ UNCHANGED <<storeVars, incidents, found>>

\* Mutant: the cooldown is not tested.
AlwaysCool(c) == TRUE

\* The cooldown has passed, as far as the caller's clock reading shows; an
\* absent opened_at counts as the epoch.
CooledDown(c) == openedAge # Unset => openedAge >= Cooldown + delay[c]

\* Mutant: asking an open breaker restarts its cooldown.
AskRestarts(c) ==
    /\ pc[c] = "ask"
    /\ \/ /\ state = "OPEN" /\ ~ CooledDown(c)
          /\ Goto(c, "tripped")
          /\ attempt' = [attempt EXCEPT ![c] = 0]
          /\ openedAge' = 0
          /\ UNCHANGED state
       \/ /\ state = "OPEN" => CooledDown(c)
          /\ state' = IF state = "OPEN" THEN "HALF-OPEN" ELSE state
          /\ Goto(c, "call")
          /\ UNCHANGED <<attempt, openedAge>>
    /\ UNCHANGED <<failures, trippedAge, incidents, found, delay>>

\* get_circuit_breaker_state: an open breaker refuses the step until the
\* cooldown is over, then lets callers through as HALF-OPEN.
Ask(c) ==
    /\ pc[c] = "ask"
    /\ \/ /\ state = "OPEN" /\ ~ CooledDown(c)
          /\ Goto(c, "tripped")
          /\ attempt' = [attempt EXCEPT ![c] = 0]
          /\ UNCHANGED state
       \/ /\ state = "OPEN" => CooledDown(c)
          /\ state' = IF state = "OPEN" THEN "HALF-OPEN" ELSE state
          /\ Goto(c, "call")
          /\ UNCHANGED attempt
    /\ UNCHANGED <<failures, openedAge, trippedAge, incidents, found, delay>>

\* The connector's call returns, or raises a transient error (counted, with a
\* new clock reading) or a permanent one (not counted, not retried).
Call(c) ==
    /\ pc[c] = "call"
    /\ \E result \in {"success", "fail", "idle"} : Goto(c, result)
    /\ delay' = [delay EXCEPT ![c] = 0]
    /\ UNCHANGED <<storeVars, incidents, callVars>>
-----------------------------------------------------------------------------
(* The caller reports to the store *)

\* Mutant: one retry too many.
ContinueOffByOne(c) ==
    \/ /\ attempt[c] \in 1 .. MaxAttempts
       /\ attempt' = [attempt EXCEPT ![c] = @ + 1]
       /\ Goto(c, "call")
    \/ /\ attempt[c] = 0
       /\ Goto(c, "idle")
       /\ UNCHANGED attempt

\* Back in the retry loop: the breaker is not asked again.
Continue(c) ==
    \/ /\ attempt[c] \in 1 .. MaxAttempts - 1
       /\ attempt' = [attempt EXCEPT ![c] = @ + 1]
       /\ Goto(c, "call")
    \/ /\ attempt[c] \in {0, MaxAttempts}
       /\ Goto(c, "idle")
       /\ UNCHANGED attempt

Trip(c) ==
    /\ state' = "OPEN"
    /\ openedAge' = delay[c]
    /\ trippedAge' = 0
    /\ Goto(c, "tripped")
    /\ UNCHANGED attempt

\* Mutant: the breaker trips one failure late.
TripsLate(count) == count > Threshold

Trips(count) == count >= Threshold

\* record_circuit_failure: one failure reopens a HALF-OPEN breaker; otherwise
\* the count decides.
RecordFailure(c) ==
    /\ pc[c] = "fail"
    /\ \/ /\ state = "HALF-OPEN"
          /\ Trip(c)
          /\ UNCHANGED failures
       \/ /\ state # "HALF-OPEN"
          /\ failures' = Capped(failures + 1, Threshold)
          /\ IF Trips(failures + 1)
             THEN Trip(c)
             ELSE Continue(c) /\ UNCHANGED <<state, openedAge, trippedAge>>
    /\ UNCHANGED <<incidents, found, delay>>

\* record_circuit_success in memory: from any state, straight to CLOSED.
RecordSuccess(c) ==
    /\ ~ Remote
    /\ pc[c] = "success"
    /\ state' = "CLOSED"
    /\ failures' = 0
    /\ openedAge' = Unset
    /\ Goto(c, "recovered")
    /\ UNCHANGED <<trippedAge, incidents, callVars, delay>>

\* record_circuit_success in Redis: three commands other callers' scripts run
\* between.
DeleteFailures(c) ==
    /\ Remote
    /\ pc[c] = "success"
    /\ failures' = 0
    /\ Goto(c, "setClosed")
    /\ UNCHANGED <<state, openedAge, trippedAge, incidents, callVars, delay>>

SetClosed(c) ==
    /\ pc[c] = "setClosed"
    /\ state' = "CLOSED"
    /\ Goto(c, "delOpened")
    /\ UNCHANGED <<failures, openedAge, trippedAge, incidents, callVars, delay>>

DeleteOpenedAt(c) ==
    /\ pc[c] = "delOpened"
    /\ openedAge' = Unset
    /\ Goto(c, "recovered")
    /\ UNCHANGED <<state, failures, trippedAge, incidents, callVars, delay>>
-----------------------------------------------------------------------------
(* Incidents *)

\* get_open_for_connection: the newest incident that is not RESOLVED.
IsNewestUnresolved(i) ==
    /\ incidents[i] # "RESOLVED"
    /\ \A j \in i + 1 .. Len(incidents) : incidents[j] = "RESOLVED"

Unresolved == {i \in 1 .. Len(incidents) : IsNewestUnresolved(i)}

\* report_circuit_breaker_tripped: an unresolved incident only gets a line in
\* its timeline, its status stays; without one, an incident is created.
ReportTripped(c) ==
    /\ pc[c] = "tripped"
    /\ \/ Unresolved # {} /\ Continue(c)
       \/ Unresolved = {} /\ Goto(c, "create") /\ UNCHANGED attempt
    /\ UNCHANGED <<storeVars, incidents, found, delay>>

\* Mutant: the new incident is not added to the session.
CreateNothing(c) ==
    /\ pc[c] = "create"
    /\ Continue(c)
    /\ UNCHANGED <<storeVars, incidents, found, delay>>

CreateIncident(c) ==
    /\ pc[c] = "create"
    /\ incidents' = Append(incidents, "OPEN")
    /\ Continue(c)
    /\ UNCHANGED <<storeVars, found, delay>>

\* report_circuit_breaker_recovered runs after every success.
ReportRecovered(c) ==
    /\ pc[c] = "recovered"
    /\ \/ /\ Unresolved = {}
          /\ Goto(c, "idle")
          /\ UNCHANGED found
       \/ \E i \in Unresolved :
          /\ found' = [found EXCEPT ![c] = i]
          /\ Goto(c, "markRecovered")
    /\ UNCHANGED <<storeVars, incidents, attempt, delay>>

MarkRecovered(c) ==
    /\ pc[c] = "markRecovered"
    /\ incidents' = [incidents EXCEPT ![found[c]] = "RECOVERED"]
    /\ found' = [found EXCEPT ![c] = 0]
    /\ Goto(c, "idle")
    /\ UNCHANGED <<storeVars, attempt, delay>>

\* resolve_incident: an operator, at any time.
ResolveIncident ==
    /\ Len(incidents) < MaxIncidents
    /\ \E i \in 1 .. Len(incidents) :
          /\ incidents[i] # "RESOLVED"
          /\ incidents' = [incidents EXCEPT ![i] = "RESOLVED"]
    /\ UNCHANGED <<storeVars, callVars, pc, delay>>
-----------------------------------------------------------------------------
\* Time passes.  Clock readings on their way to Redis grow old.
Waiting(c) == Remote /\ pc[c] \in {"ask", "fail"}

Older(age) == IF age = Unset THEN Unset ELSE Capped(age + 1, MaxAge)

Tick ==
    /\ \A c \in Callers : Waiting(c) => delay[c] < MaxDelay
    /\ openedAge' = Older(openedAge)
    /\ trippedAge' = Older(trippedAge)
    /\ delay' = [c \in Callers |-> IF Waiting(c) THEN delay[c] + 1 ELSE delay[c]]
    /\ UNCHANGED <<state, failures, incidents, callVars, pc>>

\* A replica dies; Redis keeps what it has.
Crash(c) ==
    /\ CrashAllowed /\ Remote
    /\ pc[c] # "idle"
    /\ Goto(c, "idle")
    /\ found' = [found EXCEPT ![c] = 0]
    /\ UNCHANGED <<storeVars, incidents, attempt, delay>>

\* The process that holds the memory store restarts: every caller and the
\* store are gone, the incidents are in the database.
Restart ==
    /\ CrashAllowed /\ ~ Remote
    /\ state' = "CLOSED"
    /\ failures' = 0
    /\ openedAge' = Unset
    /\ trippedAge' = Unset
    /\ pc' = [c \in Callers |-> "idle"]
    /\ found' = [c \in Callers |-> 0]
    /\ UNCHANGED <<incidents, attempt, delay>>
-----------------------------------------------------------------------------
Init ==
    /\ state = "CLOSED"
    /\ failures = 0
    /\ openedAge = Unset
    /\ trippedAge = Unset
    /\ incidents = <<>>
    /\ pc = [c \in Callers |-> "idle"]
    /\ attempt = [c \in Callers |-> 1]
    /\ delay = [c \in Callers |-> 0]
    /\ found = [c \in Callers |-> 0]

\* What a caller does once its step has started.
Proceed(c) ==
    \/ Ask(c) \/ Call(c) \/ RecordFailure(c)
    \/ RecordSuccess(c) \/ DeleteFailures(c) \/ SetClosed(c) \/ DeleteOpenedAt(c)
    \/ ReportTripped(c) \/ CreateIncident(c) \/ ReportRecovered(c) \/ MarkRecovered(c)

Next ==
    \/ \E c \in Callers : Send(c) \/ Proceed(c) \/ Crash(c)
    \/ ResolveIncident
    \/ Tick
    \/ Restart

Spec == Init /\ [][Next]_vars

\* Callers in flight keep being scheduled and the clock does not stop.
FairSpec == Spec /\ WF_vars(Tick) /\ \A c \in Callers : WF_vars(Proceed(c))
-----------------------------------------------------------------------------
TypeOK ==
    /\ state \in State
    /\ failures \in 0 .. Threshold
    /\ openedAge \in (0 .. MaxAge) \cup {Unset}
    /\ trippedAge \in (0 .. MaxAge) \cup {Unset}
    /\ incidents \in Seq(Incident)
    /\ pc \in [Callers -> Labels]
    /\ attempt \in [Callers -> 0 .. MaxAttempts]
    /\ delay \in [Callers -> 0 .. MaxDelay]
    /\ found \in [Callers -> Nat]

Quiet == \A c \in Callers : pc[c] = "idle"

\* The three keys of a breaker agree however callers' reports interleave: it is
\* CLOSED exactly while fewer than Threshold failures are counted, and when it
\* is not there is a time it was opened at.
KeysAgree ==
    /\ state = "CLOSED" <=> failures < Threshold
    /\ state = "CLOSED" <=> openedAge = Unset

\* An open breaker admits a caller only when the cooldown has passed since the
\* last time it was set to OPEN, late failures of admitted callers included.
CooldownRespected ==
    [][state = "OPEN" /\ state' = "HALF-OPEN" => trippedAge # Unset /\ trippedAge >= Cooldown]_vars

\* A breaker never stays open for ever on a connection that is still used.
NeverStuckOpen ==
    ([]<><<\E c \in Callers : Ask(c)>>_vars) => []<>(state # "OPEN")

\* No trip goes unreported: with every caller done, a breaker that is not closed
\* has an incident the operator has yet to resolve (checked where nobody resolves).
TripIsReported ==
    Quiet /\ state # "CLOSED" => Unresolved # {}
=============================================================================
