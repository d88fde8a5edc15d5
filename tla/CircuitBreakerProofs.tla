------------------------- MODULE CircuitBreakerProofs -------------------------
(***************************************************************************)
(* Proofs about the circuit breaker, for any number of callers, threshold, *)
(* cooldown and retry limit: type correctness with either store, and with  *)
(* the memory store the agreement of the breaker's keys and the cooldown;  *)
(* and, while nobody resolves incidents, that every trip is reported.      *)
(***************************************************************************)
EXTENDS CircuitBreaker, TLAPS

\* The memory store's operations are single steps: no caller is between the
\* commands of a success, and no clock reading is older than its operation.
\* An open breaker's cooldown is counted from its last trip.
MemoryInv ==
    /\ \A c \in Callers : pc[c] \notin {"setClosed", "delOpened"} /\ delay[c] = 0
    /\ state = "OPEN" => openedAge = trippedAge

IInv == TypeOK /\ KeysAgree /\ MemoryInv
-----------------------------------------------------------------------------
\* A counter that is capped stays in its range.
LEMMA CappedRange ==
  ASSUME NEW n \in Nat, NEW max \in Nat
  PROVE  Capped(n, max) \in 0 .. max
  BY DEF Capped

\* An age one tick later is an age, and is set exactly if it was.
LEMMA OlderFacts ==
  ASSUME NEW age \in (0 .. MaxAge) \cup {Unset}
  PROVE  /\ Older(age) \in (0 .. MaxAge) \cup {Unset}
         /\ Older(age) = Unset <=> age = Unset
  <1>1. MaxAge \in Nat
    BY BreakerAssumption DEF MaxAge
  <1>2. CASE age = Unset
    BY <1>2 DEF Older
  <1>3. CASE age # Unset
    <2>1. age + 1 \in Nat /\ Older(age) = Capped(age + 1, MaxAge)
      BY <1>1, <1>3 DEF Older
    <2>2. Older(age) \in 0 .. MaxAge
      BY <1>1, <2>1, CappedRange
    <2>3. QED
      BY <1>3, <2>2, BreakerAssumption
  <1>4. QED
    BY <1>2, <1>3

\* Returning to the retry loop keeps the caller well typed.
LEMMA ContinueType ==
  ASSUME TypeOK, NEW c \in Callers, Continue(c)
  PROVE  /\ pc' \in [Callers -> Labels] /\ attempt' \in [Callers -> 0 .. MaxAttempts]
         /\ \E l \in {"call", "idle"} : pc' = [pc EXCEPT ![c] = l]
  <1>1. MaxAttempts \in Nat \ {0} /\ attempt[c] \in 0 .. MaxAttempts
    BY BreakerAssumption DEF TypeOK
  <1>2. attempt[c] \in 1 .. MaxAttempts - 1 => attempt[c] + 1 \in 0 .. MaxAttempts
    BY <1>1
  <1>3. attempt' \in [Callers -> 0 .. MaxAttempts]
    BY <1>2 DEF Continue, TypeOK
  <1>4. QED
    BY <1>3 DEF Continue, Goto, TypeOK, Labels

\* Tripping keeps the store well typed.
LEMMA TripType ==
  ASSUME TypeOK, NEW c \in Callers, Trip(c)
  PROVE  /\ state' \in State /\ openedAge' \in (0 .. MaxAge) \cup {Unset}
         /\ trippedAge' \in (0 .. MaxAge) \cup {Unset}
         /\ pc' \in [Callers -> Labels] /\ attempt' \in [Callers -> 0 .. MaxAttempts]
  <1>1. delay[c] \in 0 .. MaxAge /\ 0 \in 0 .. MaxAge
    BY BreakerAssumption DEF TypeOK, MaxAge
  <1>2. QED
    BY <1>1 DEF Trip, Goto, TypeOK, Labels, State

\* Every step keeps the types, with either store.
LEMMA NextType == TypeOK /\ [Next]_vars => TypeOK'
  <1> SUFFICES ASSUME TypeOK, [Next]_vars PROVE TypeOK'
    OBVIOUS
  <1>1. /\ Threshold \in Nat \ {0} /\ MaxAttempts \in Nat \ {0} /\ MaxDelay \in Nat
        /\ 0 \in 0 .. Threshold /\ 0 \in 0 .. MaxAttempts /\ 1 \in 0 .. MaxAttempts
        /\ 0 \in 0 .. MaxDelay
    BY BreakerAssumption
  <1>2. ASSUME NEW c \in Callers, Send(c) PROVE TypeOK'
    BY <1>1, <1>2 DEF Send, Goto, TypeOK, Labels, storeVars
  <1>3. ASSUME NEW c \in Callers, Ask(c) PROVE TypeOK'
    <2>1. state' \in State
      BY <1>3 DEF Ask, TypeOK, State
    <2>2. pc' \in [Callers -> Labels] /\ attempt' \in [Callers -> 0 .. MaxAttempts]
      BY <1>1, <1>3 DEF Ask, Goto, TypeOK, Labels
    <2>3. QED
      BY <1>3, <2>1, <2>2 DEF Ask, TypeOK
  <1>4. ASSUME NEW c \in Callers, Call(c) PROVE TypeOK'
    BY <1>1, <1>4 DEF Call, Goto, TypeOK, Labels, storeVars, callVars
  <1>5. ASSUME NEW c \in Callers, RecordFailure(c) PROVE TypeOK'
    <2>1. UNCHANGED <<incidents, found, delay>>
      BY <1>5 DEF RecordFailure
    <2>2. failures + 1 \in Nat /\ Threshold \in Nat
      BY <1>1 DEF TypeOK
    <2>3. Capped(failures + 1, Threshold) \in 0 .. Threshold
      BY <2>2, CappedRange
    <2>4. failures' \in 0 .. Threshold
      BY <1>5, <2>3 DEF RecordFailure, TypeOK
    <2>5. CASE Trip(c)
      BY <2>1, <2>4, <2>5, TripType DEF TypeOK
    <2>6. CASE Continue(c) /\ UNCHANGED <<state, openedAge, trippedAge>>
      BY <2>1, <2>4, <2>6, ContinueType DEF TypeOK
    <2>7. QED
      BY <1>5, <2>5, <2>6 DEF RecordFailure
  <1>6. ASSUME NEW c \in Callers,
               RecordSuccess(c) \/ DeleteFailures(c) \/ SetClosed(c) \/ DeleteOpenedAt(c)
        PROVE  TypeOK'
    BY <1>1, <1>6 DEF RecordSuccess, DeleteFailures, SetClosed, DeleteOpenedAt, Goto, TypeOK,
       Labels, State, callVars
  <1>7. ASSUME NEW c \in Callers, ReportTripped(c) PROVE TypeOK'
    <2>1. pc' \in [Callers -> Labels] /\ attempt' \in [Callers -> 0 .. MaxAttempts]
      <3>1. CASE Continue(c)
        BY <3>1, ContinueType
      <3>2. CASE Goto(c, "create") /\ UNCHANGED attempt
        BY <3>2 DEF Goto, TypeOK, Labels
      <3>3. QED
        BY <1>7, <3>1, <3>2 DEF ReportTripped
    <2>2. QED
      BY <1>7, <2>1 DEF ReportTripped, TypeOK, storeVars
  <1>8. ASSUME NEW c \in Callers, CreateIncident(c) PROVE TypeOK'
    <2>1. incidents' \in Seq(Incident)
      BY <1>8 DEF CreateIncident, TypeOK, Incident
    <2>2. pc' \in [Callers -> Labels] /\ attempt' \in [Callers -> 0 .. MaxAttempts]
      BY <1>8, ContinueType DEF CreateIncident
    <2>3. QED
      BY <1>8, <2>1, <2>2 DEF CreateIncident, TypeOK, storeVars
  <1>9. ASSUME NEW c \in Callers, ReportRecovered(c) PROVE TypeOK'
    <2>1. \A i \in Unresolved : i \in Nat
      BY DEF Unresolved, TypeOK
    <2>2. found' \in [Callers -> Nat]
      BY <1>9, <2>1 DEF ReportRecovered, TypeOK
    <2>3. pc' \in [Callers -> Labels]
      BY <1>9 DEF ReportRecovered, Goto, TypeOK, Labels
    <2>4. QED
      BY <1>9, <2>2, <2>3 DEF ReportRecovered, TypeOK, storeVars
  <1>10. ASSUME NEW i, NEW s \in Incident, incidents' = [incidents EXCEPT ![i] = s]
         PROVE  incidents' \in Seq(Incident)
    <2>1. incidents \in [1 .. Len(incidents) -> Incident] /\ Len(incidents) \in Nat
      BY DEF TypeOK
    <2>2. incidents' \in [1 .. Len(incidents) -> Incident]
      BY <1>10, <2>1
    <2>3. QED
      BY <2>1, <2>2
  <1>11. ASSUME NEW c \in Callers, MarkRecovered(c) PROVE TypeOK'
    <2>1. incidents' \in Seq(Incident)
      BY <1>10, <1>11 DEF MarkRecovered, Incident
    <2>2. QED
      BY <1>11, <2>1 DEF MarkRecovered, Goto, TypeOK, Labels, storeVars
  <1>12. CASE ResolveIncident
    <2>1. incidents' \in Seq(Incident)
      BY <1>10, <1>12 DEF ResolveIncident, Incident
    <2>2. QED
      BY <1>12, <2>1 DEF ResolveIncident, TypeOK, storeVars, callVars
  <1>13. CASE Tick
    <2>1. openedAge' \in (0 .. MaxAge) \cup {Unset} /\ trippedAge' \in (0 .. MaxAge) \cup {Unset}
      BY <1>13, OlderFacts DEF Tick, TypeOK
    <2>2. \A c \in Callers : delay[c] \in 0 .. MaxDelay /\ (Waiting(c) => delay[c] + 1 \in 0 .. MaxDelay)
      BY <1>1, <1>13 DEF Tick, TypeOK
    <2>3. delay' \in [Callers -> 0 .. MaxDelay]
      BY <1>13, <2>2 DEF Tick
    <2>4. QED
      BY <1>13, <2>1, <2>3 DEF Tick, TypeOK, callVars
  <1>14. ASSUME NEW c \in Callers, Crash(c) PROVE TypeOK'
    BY <1>14 DEF Crash, Goto, TypeOK, Labels, storeVars
  <1>15. CASE Restart
    BY <1>1, <1>15 DEF Restart, TypeOK, Labels, State
  <1>16. CASE UNCHANGED vars
    BY <1>16 DEF vars, storeVars, callVars, TypeOK
  <1>17. QED
    BY <1>2, <1>3, <1>4, <1>5, <1>6, <1>7, <1>8, <1>9, <1>11, <1>12, <1>13, <1>14, <1>15, <1>16
    DEF Next, Proceed

\* The initial state is well typed.
LEMMA InitType == Init => TypeOK
  <1>1. 0 \in 0 .. Threshold /\ 1 \in 0 .. MaxAttempts /\ 0 \in 0 .. MaxDelay
    BY BreakerAssumption
  <1>2. QED
    BY <1>1 DEF Init, TypeOK, State, Labels

\* With either store, counters, ages and statuses stay in their ranges whatever
\* callers, operators, time and crashes do.
THEOREM TypeCorrect == Spec => []TypeOK
  BY InitType, NextType, PTL DEF Spec
-----------------------------------------------------------------------------
(* The memory store *)

\* Setting the breaker to OPEN leaves its keys in agreement, provided enough
\* failures are counted.
LEMMA TripInv ==
  ASSUME IInv, NEW c \in Callers, Trip(c), UNCHANGED delay, failures' = Threshold
  PROVE  KeysAgree' /\ MemoryInv'
  <1>1. Threshold \in Nat \ {0} /\ Unset \notin Nat /\ delay[c] = 0
    BY BreakerAssumption DEF IInv, MemoryInv
  <1>2. state' = "OPEN" /\ openedAge' = 0 /\ trippedAge' = 0 /\ pc' = [pc EXCEPT ![c] = "tripped"]
    BY <1>1 DEF Trip, Goto
  <1>3. KeysAgree'
    BY <1>1, <1>2 DEF KeysAgree
  <1>4. MemoryInv'
    BY <1>2 DEF IInv, TypeOK, MemoryInv
  <1>5. QED
    BY <1>3, <1>4

\* A step that leaves the store and the clock readings alone and moves no caller
\* between the commands of a success keeps the agreement.
LEMMA LocalInv ==
  ASSUME IInv, UNCHANGED <<state, failures, openedAge, trippedAge>>,
         \A c \in Callers : delay'[c] = 0,
         \/ UNCHANGED pc
         \/ \E c \in Callers : \E l \in Labels \ {"setClosed", "delOpened"} :
               pc' = [pc EXCEPT ![c] = l]
  PROVE  KeysAgree' /\ MemoryInv'
  BY DEF IInv, TypeOK, KeysAgree, MemoryInv

\* Every step of a system with the memory store keeps the keys in agreement.
LEMMA NextMemory ==
  ASSUME ~ Remote, IInv, [Next]_vars
  PROVE  KeysAgree' /\ MemoryInv'
  <1> USE DEF IInv
  <1>1. \A c \in Callers : delay[c] = 0 /\ pc[c] \notin {"setClosed", "delOpened"}
    BY DEF MemoryInv
  <1>2. ASSUME NEW c \in Callers, Send(c) \/ Call(c) \/ ReportRecovered(c) \/ MarkRecovered(c)
        PROVE  KeysAgree' /\ MemoryInv'
    <2>1. UNCHANGED <<state, failures, openedAge, trippedAge>>
      BY <1>2 DEF Send, Call, ReportRecovered, MarkRecovered, storeVars
    <2>2. \A b \in Callers : delay'[b] = 0
      BY <1>1, <1>2 DEF Send, Call, ReportRecovered, MarkRecovered, TypeOK
    <2>3. \E l \in Labels \ {"setClosed", "delOpened"} : pc' = [pc EXCEPT ![c] = l]
      BY <1>2 DEF Send, Call, ReportRecovered, MarkRecovered, Goto, Labels
    <2>4. QED
      BY <2>1, <2>2, <2>3, LocalInv
  <1>3. ASSUME NEW c \in Callers, ReportTripped(c) \/ CreateIncident(c)
        PROVE  KeysAgree' /\ MemoryInv'
    <2>1. UNCHANGED <<state, failures, openedAge, trippedAge, delay>>
      BY <1>3 DEF ReportTripped, CreateIncident, storeVars
    <2>2. \E l \in Labels \ {"setClosed", "delOpened"} : pc' = [pc EXCEPT ![c] = l]
      BY <1>3, ContinueType DEF ReportTripped, CreateIncident, Goto, Labels
    <2>3. QED
      BY <1>1, <2>1, <2>2, LocalInv
  <1>4. ASSUME NEW c \in Callers, Ask(c) PROVE KeysAgree' /\ MemoryInv'
    <2>1. UNCHANGED <<failures, openedAge, trippedAge, delay>>
      BY <1>4 DEF Ask
    <2>2. state' = state \/ (state = "OPEN" /\ state' = "HALF-OPEN")
      BY <1>4 DEF Ask
    <2>3. KeysAgree'
      BY <2>1, <2>2 DEF KeysAgree
    <2>4. \A b \in Callers : pc'[b] \notin {"setClosed", "delOpened"}
      BY <1>1, <1>4 DEF Ask, Goto, TypeOK
    <2>5. MemoryInv'
      BY <1>1, <2>1, <2>2, <2>4 DEF MemoryInv
    <2>6. QED
      BY <2>3, <2>5
  <1>5. ASSUME NEW c \in Callers, RecordFailure(c) PROVE KeysAgree' /\ MemoryInv'
    <2>1. /\ Threshold \in Nat \ {0} /\ failures \in 0 .. Threshold
          /\ UNCHANGED delay
      BY <1>5, BreakerAssumption DEF RecordFailure, TypeOK
    <2>2. CASE state = "HALF-OPEN"
      <3>1. failures = Threshold
        BY <2>1, <2>2 DEF KeysAgree
      <3>2. Trip(c) /\ UNCHANGED failures
        BY <1>5, <2>2 DEF RecordFailure
      <3>3. QED
        BY <2>1, <3>1, <3>2, TripInv
    <2>3. CASE state # "HALF-OPEN" /\ failures + 1 >= Threshold
      <3>1. Trip(c) /\ failures' = Capped(failures + 1, Threshold)
        BY <1>5, <2>3 DEF RecordFailure, Trips
      <3>2. failures' = Threshold
        BY <2>1, <2>3, <3>1 DEF Capped
      <3>3. QED
        BY <2>1, <3>1, <3>2, TripInv
    <2>4. CASE state # "HALF-OPEN" /\ ~ (failures + 1 >= Threshold)
      <3>1. /\ failures' = Capped(failures + 1, Threshold)
            /\ Continue(c) /\ UNCHANGED <<state, openedAge, trippedAge>>
        BY <1>5, <2>4 DEF RecordFailure, Trips
      <3>2. failures < Threshold /\ failures' < Threshold
        BY <2>1, <2>4, <3>1 DEF Capped
      <3>3. KeysAgree'
        BY <3>1, <3>2 DEF KeysAgree
      <3>4. \A b \in Callers : pc'[b] \notin {"setClosed", "delOpened"}
        BY <1>1, <3>1, ContinueType DEF TypeOK
      <3>5. MemoryInv'
        BY <1>1, <2>1, <3>1, <3>4 DEF MemoryInv
      <3>6. QED
        BY <3>3, <3>5
    <2>5. QED
      BY <2>2, <2>3, <2>4
  <1>6. ASSUME NEW c \in Callers, RecordSuccess(c) PROVE KeysAgree' /\ MemoryInv'
    BY <1>1, <1>6, BreakerAssumption DEF RecordSuccess, Goto, TypeOK, KeysAgree, MemoryInv
  <1>7. ASSUME NEW c \in Callers,
               DeleteFailures(c) \/ SetClosed(c) \/ DeleteOpenedAt(c) \/ Crash(c)
        PROVE  FALSE
    BY <1>1, <1>7 DEF DeleteFailures, SetClosed, DeleteOpenedAt, Crash
  <1>8. CASE ResolveIncident
    BY <1>1, <1>8, LocalInv DEF ResolveIncident, storeVars
  <1>9. CASE Tick
    <2>1. /\ openedAge' = Older(openedAge) /\ trippedAge' = Older(trippedAge)
          /\ UNCHANGED <<state, failures, pc>>
      BY <1>9 DEF Tick
    <2>2. \A c \in Callers : delay'[c] = 0
      BY <1>1, <1>9 DEF Tick, Waiting
    <2>3. openedAge' = Unset <=> openedAge = Unset
      BY <2>1, OlderFacts DEF TypeOK
    <2>4. KeysAgree'
      BY <2>1, <2>3 DEF KeysAgree
    <2>5. MemoryInv'
      BY <1>1, <2>1, <2>2 DEF MemoryInv
    <2>6. QED
      BY <2>4, <2>5
  <1>10. CASE Restart
    BY <1>1, <1>10, BreakerAssumption DEF Restart, KeysAgree, MemoryInv
  <1>11. CASE UNCHANGED vars
    BY <1>1, <1>11, LocalInv DEF vars, storeVars
  <1>12. QED
    BY <1>2, <1>3, <1>4, <1>5, <1>6, <1>7, <1>8, <1>9, <1>10, <1>11 DEF Next, Proceed

\* The invariant of the memory store, as one formula of the specification.
LEMMA MemoryCorrect == ~ Remote => (Spec => []IInv)
  <1> SUFFICES ASSUME ~ Remote PROVE Spec => []IInv
    OBVIOUS
  <1>1. Init => IInv
    <2> SUFFICES ASSUME Init PROVE IInv
      OBVIOUS
    <2>1. KeysAgree
      BY BreakerAssumption DEF Init, KeysAgree
    <2>2. MemoryInv
      BY DEF Init, MemoryInv
    <2>3. QED
      BY <2>1, <2>2, InitType DEF IInv
  <1>2. IInv /\ [Next]_vars => IInv'
    BY NextType, NextMemory DEF IInv
  <1>3. QED
    BY <1>1, <1>2, PTL DEF Spec

\* With the memory store a breaker is CLOSED exactly while fewer than Threshold
\* failures are counted, and otherwise has an opening time, for any number of
\* callers whose failures and successes arrive in any order.
THEOREM MemoryKeysAgree == ~ Remote => (Spec => []KeysAgree)
  <1>1. IInv => KeysAgree
    BY DEF IInv
  <1>2. QED
    BY <1>1, MemoryCorrect, PTL

\* With the memory store no caller is admitted by an open breaker before the
\* cooldown has passed since its last trip.
THEOREM MemoryCooldown == ~ Remote => (Spec => CooldownRespected)
  <1> SUFFICES ASSUME ~ Remote PROVE Spec => CooldownRespected
    OBVIOUS
  <1>1. IInv /\ [Next]_vars =>
          [state = "OPEN" /\ state' = "HALF-OPEN" => trippedAge # Unset /\ trippedAge >= Cooldown]_vars
    <2> SUFFICES ASSUME IInv, Next, state = "OPEN", state' = "HALF-OPEN"
                 PROVE  trippedAge # Unset /\ trippedAge >= Cooldown
      OBVIOUS
    <2>1. PICK c \in Callers : Ask(c)
      BY DEF Next, Proceed, Send, Call, RecordFailure, Trip, RecordSuccess, DeleteFailures,
         SetClosed, DeleteOpenedAt, ReportTripped, CreateIncident, ReportRecovered,
         MarkRecovered, Crash, ResolveIncident, Tick, Restart, storeVars
    <2>2. CooledDown(c)
      BY <2>1 DEF Ask
    <2>3. openedAge # Unset /\ openedAge = trippedAge /\ delay[c] = 0 /\ Cooldown \in Nat
      BY BreakerAssumption DEF IInv, KeysAgree, MemoryInv
    <2>4. openedAge >= Cooldown + delay[c]
      BY <2>2, <2>3 DEF CooledDown
    <2>5. QED
      BY <2>3, <2>4
  <1>2. QED
    BY <1>1, MemoryCorrect, PTL DEF Spec, CooldownRespected
-----------------------------------------------------------------------------
(* Trips and their incidents *)

\* Nobody resolves, and no process dies between tripping the shared breaker and
\* reporting it.
Unattended == MaxIncidents = 0 /\ (~ Remote \/ ~ CrashAllowed)

\* A breaker that is not closed has an incident, or the caller that has yet to
\* report it; none is resolved.
ReportInv ==
    /\ \A i \in 1 .. Len(incidents) : incidents[i] # "RESOLVED"
    /\ state # "CLOSED" =>
          Len(incidents) > 0 \/ \E c \in Callers : pc[c] \in {"tripped", "create"}

\* While none is resolved, the newest incident is the one a lookup finds.
LEMMA LookupFinds ==
  ASSUME incidents \in Seq(Incident), \A i \in 1 .. Len(incidents) : incidents[i] # "RESOLVED"
  PROVE  Unresolved # {} <=> Len(incidents) > 0
  <1>1. Len(incidents) \in Nat
    OBVIOUS
  <1>2. ASSUME Len(incidents) > 0 PROVE Unresolved # {}
    <2>1. Len(incidents) \in 1 .. Len(incidents) /\ Len(incidents) + 1 .. Len(incidents) = {}
      BY <1>1, <1>2
    <2>2. IsNewestUnresolved(Len(incidents))
      BY <2>1 DEF IsNewestUnresolved
    <2>3. QED
      BY <2>1, <2>2 DEF Unresolved
  <1>3. ASSUME Unresolved # {} PROVE Len(incidents) > 0
    BY <1>1, <1>3 DEF Unresolved
  <1>4. QED
    BY <1>2, <1>3

\* Every step of an unattended system keeps the invariant.
LEMMA NextReport ==
  ASSUME Unattended, TypeOK, ReportInv, [Next]_vars
  PROVE  ReportInv'
  <1>1. /\ Len(incidents) \in Nat /\ incidents \in [1 .. Len(incidents) -> Incident]
        /\ pc \in [Callers -> Labels]
        /\ Unresolved # {} <=> Len(incidents) > 0
    BY LookupFinds DEF TypeOK, ReportInv
  <1>2. ASSUME NEW c \in Callers,
               Send(c) \/ Call(c) \/ ReportRecovered(c) \/ DeleteFailures(c) \/ DeleteOpenedAt(c)
        PROVE  ReportInv'
    <2>1. UNCHANGED <<state, incidents>> /\ pc[c] \notin {"tripped", "create"}
      BY <1>2 DEF Send, Call, ReportRecovered, DeleteFailures, DeleteOpenedAt, storeVars
    <2>2. PICK l \in Labels : pc' = [pc EXCEPT ![c] = l]
      BY <1>2 DEF Send, Call, ReportRecovered, DeleteFailures, DeleteOpenedAt, Goto, Labels
    <2>3. \A b \in Callers : b # c => pc'[b] = pc[b]
      BY <1>1, <2>2
    <2>4. QED
      BY <2>1, <2>3 DEF ReportInv
  <1>3. ASSUME NEW c \in Callers, RecordSuccess(c) \/ SetClosed(c)
        PROVE  ReportInv'
    BY <1>3 DEF RecordSuccess, SetClosed, ReportInv
  <1>4. ASSUME NEW c \in Callers, Ask(c) PROVE ReportInv'
    <2>1. UNCHANGED incidents /\ pc[c] = "ask" /\ (state' # "CLOSED" => state # "CLOSED")
      BY <1>4 DEF Ask
    <2>2. PICK l \in Labels : pc' = [pc EXCEPT ![c] = l]
      BY <1>4 DEF Ask, Goto, Labels
    <2>3. \A b \in Callers : b # c => pc'[b] = pc[b]
      BY <1>1, <2>2
    <2>4. QED
      BY <2>1, <2>3 DEF ReportInv
  <1>5. ASSUME NEW c \in Callers, RecordFailure(c) PROVE ReportInv'
    <2>1. UNCHANGED incidents /\ pc[c] = "fail"
      BY <1>5 DEF RecordFailure
    <2>2. CASE Trip(c)
      <3>1. pc'[c] = "tripped"
        BY <1>1, <2>2 DEF Trip, Goto
      <3>2. QED
        BY <2>1, <3>1 DEF ReportInv
    <2>3. CASE Continue(c) /\ UNCHANGED state
      <3>1. \A b \in Callers : b # c => pc'[b] = pc[b]
        BY <1>1, <2>3 DEF Continue, Goto
      <3>2. QED
        BY <2>1, <2>3, <3>1 DEF ReportInv
    <2>4. QED
      BY <1>5, <2>2, <2>3 DEF RecordFailure
  <1>6. ASSUME NEW c \in Callers, ReportTripped(c) PROVE ReportInv'
    <2>1. UNCHANGED <<state, incidents>>
      BY <1>6 DEF ReportTripped, storeVars
    <2>2. CASE Unresolved # {}
      BY <1>1, <2>1, <2>2 DEF ReportInv
    <2>3. CASE Unresolved = {}
      <3>1. pc'[c] = "create"
        BY <1>1, <1>6, <2>3 DEF ReportTripped, Goto
      <3>2. QED
        BY <2>1, <3>1 DEF ReportInv
    <2>4. QED
      BY <2>2, <2>3
  <1>7. ASSUME NEW c \in Callers, CreateIncident(c) PROVE ReportInv'
    <2>1. incidents' = Append(incidents, "OPEN") /\ incidents \in Seq(Incident)
      BY <1>7 DEF CreateIncident, TypeOK
    <2>2. Len(incidents') = Len(incidents) + 1
      BY <2>1
    <2>3. \A i \in 1 .. Len(incidents') : incidents'[i] # "RESOLVED"
      BY <2>1, <2>2 DEF ReportInv
    <2>4. QED
      BY <1>1, <2>2, <2>3 DEF ReportInv
  <1>8. ASSUME NEW c \in Callers, MarkRecovered(c) PROVE ReportInv'
    <2>1. /\ incidents' = [incidents EXCEPT ![found[c]] = "RECOVERED"]
          /\ UNCHANGED state /\ pc[c] = "markRecovered" /\ pc' = [pc EXCEPT ![c] = "idle"]
      BY <1>8 DEF MarkRecovered, Goto, storeVars
    <2>2. incidents' \in [1 .. Len(incidents) -> Incident]
      BY <1>1, <2>1 DEF Incident
    <2>3. Len(incidents') = Len(incidents)
      BY <1>1, <2>2
    <2>4. \A i \in 1 .. Len(incidents) : incidents'[i] # "RESOLVED"
      BY <1>1, <2>1 DEF ReportInv
    <2>5. \A b \in Callers : b # c => pc'[b] = pc[b]
      BY <1>1, <2>1
    <2>6. QED
      BY <2>1, <2>3, <2>4, <2>5 DEF ReportInv
  <1>9. ~ ResolveIncident
    BY <1>1 DEF ResolveIncident, Unattended
  <1>10. CASE Tick
    BY <1>10 DEF Tick, ReportInv
  <1>11. \A c \in Callers : ~ Crash(c)
    BY DEF Crash, Unattended
  <1>12. CASE Restart
    BY <1>12 DEF Restart, ReportInv
  <1>13. CASE UNCHANGED vars
    BY <1>13 DEF vars, storeVars, ReportInv
  <1>14. QED
    BY <1>2, <1>3, <1>4, <1>5, <1>6, <1>7, <1>8, <1>9, <1>10, <1>11, <1>12, <1>13
    DEF Next, Proceed

\* With either store, when nobody resolves incidents and no replica dies in the
\* middle of a report, every trip of the breaker ends up reported, however the
\* callers that trip it, are refused by it and close it again interleave.
THEOREM TripsReported == Unattended => (Spec => []TripIsReported)
  <1> SUFFICES ASSUME Unattended PROVE Spec => []TripIsReported
    OBVIOUS
  <1>1. Init => TypeOK /\ ReportInv
    BY InitType DEF Init, ReportInv
  <1>2. TypeOK /\ ReportInv /\ [Next]_vars => (TypeOK /\ ReportInv)'
    BY NextType, NextReport
  <1>3. TypeOK /\ ReportInv => TripIsReported
    BY LookupFinds DEF TypeOK, ReportInv, TripIsReported, Quiet
  <1>4. QED
    BY <1>1, <1>2, <1>3, PTL DEF Spec
=============================================================================
