----------------------- MODULE EnterpriseWorkerProofs -----------------------
(***************************************************************************)
(* Proofs about the Java worker for any number of threads, any capacity,   *)
(* rate and batch size and any number of crashes: type correctness, the    *)
(* order and completeness of the outbox, and that the lock-free limiter    *)
(* implements the token budget.                                            *)
(***************************************************************************)
EXTENDS EnterpriseWorker, Extrema, FiniteSetTheorems, TLAPS

\* What a thread in the limiter has read.  A claim that was won lies before
\* lastRefill and overlaps no other claim; one that is tried starts no later
\* than lastRefill; a token that is about to be taken was there.
Reading(t) ==
    /\ pc[t] \in {"casLast", "readForAdd", "casAdd"} =>
          last[t] < now[t] /\ toAdd[t] = TokensToAdd(now[t] - last[t])
    /\ pc[t] = "casLast" => last[t] <= lastRefill
    /\ pc[t] \in {"readForAdd", "casAdd"} => now[t] <= lastRefill
    /\ pc[t] = "casTake" => current[t] > 0

Adding(t) == pc[t] \in {"readForAdd", "casAdd"}

ClaimsApart ==
    \A t, u \in Threads :
        Adding(t) /\ Adding(u) /\ t # u => now[t] <= last[u] \/ now[u] <= last[t]

LimiterInv == (\A t \in Threads : Reading(t)) /\ ClaimsApart

\* Only the stripe's holder records, and what it has recorded is the newest
\* transaction, newer than every event.
StripeInv ==
    /\ \A t \in Threads : pc[t] \in {"persist", "append"} => stripe = t
    /\ \A t \in Threads : pc[t] = "append" =>
          /\ current[t] = Len(txns) /\ Len(txns) > 0
          /\ \A i \in 1..Len(outbox) : outbox[i] < Len(txns)
    /\ Len(txns) <= MaxTxns
    /\ \A i \in 1..Len(txns) : txns[i] = i
    /\ \A i \in 1..Len(outbox) : outbox[i] <= Len(txns)

\* An event marked, committed or not, was handed to the producer.
MarkedInv == \A t \in Threads : marked[t] \subseteq sent \cup swallowed

RecordInv ==
    /\ StripeInv /\ OutboxFollowsCommits
    /\ answered \subseteq {outbox[i] : i \in 1..Len(outbox)}

PublishInv == MarkedInv /\ ProcessedWasPublished

IInv == TypeOK /\ LimiterInv /\ RecordInv /\ PublishInv
-----------------------------------------------------------------------------
\* The tokens due for a time that passed are a natural number.
LEMMA TokensToAddType ==
  ASSUME NEW n \in Nat
  PROVE  TokensToAdd(n) \in Nat
  <1>1. Rate \in Nat /\ Unit \in Nat \ {0}
    BY WorkerAssumption
  <1>2. n * Rate \in Nat
    BY <1>1
  <1>3. \A k \in Nat : k \div Unit \in Nat
    BY <1>1
  <1> QED
    BY <1>2, <1>3 DEF TokensToAdd

LEMMA InitInv == Init => IInv
  <1> SUFFICES ASSUME Init PROVE IInv
    OBVIOUS
  <1>1. Capacity \in Nat /\ MaxTxns \in Nat /\ MaxClock \in Nat
    BY WorkerAssumption
  <1>2. TypeOK
    BY <1>1 DEF Init, TypeOK, Zero, Labels, Txns
  <1>3. LimiterInv
    BY DEF Init, LimiterInv, Reading, ClaimsApart, Adding
  <1>4. RecordInv
    BY <1>1 DEF Init, RecordInv, StripeInv, OutboxFollowsCommits
  <1>5. PublishInv
    BY DEF Init, PublishInv, MarkedInv, ProcessedWasPublished
  <1> QED
    BY <1>2, <1>3, <1>4, <1>5 DEF IInv

LEMMA GoToType ==
  ASSUME TypeOK, NEW t \in Threads, NEW l \in Labels, GoTo(t, l)
  PROVE  pc' \in [Threads -> Labels]
  BY DEF GoTo, TypeOK

\* Every step keeps the types.
LEMMA NextType == IInv /\ [Next]_vars => TypeOK'
  <1> SUFFICES ASSUME IInv, [Next]_vars PROVE TypeOK'
    OBVIOUS
  <1>0. TypeOK /\ LimiterInv /\ StripeInv
    BY DEF IInv, RecordInv
  <1> USE <1>0
  <1>1. /\ Capacity \in Nat \ {0} /\ MaxTxns \in Nat /\ MaxClock \in Nat
        /\ None \notin Threads /\ Rate \in Nat /\ Unit \in Nat \ {0}
    BY WorkerAssumption
  <1>2. CASE Tick
    BY <1>1, <1>2 DEF Tick, TypeOK, bucket, locals, batches, database, outside
  <1>3. CASE Crash
    BY <1>1, <1>3 DEF Crash, TypeOK, Zero, Labels, database, outside
  <1>4. ASSUME NEW t \in Threads, TryConsume(t) PROVE TypeOK'
    BY <1>4 DEF TryConsume, GoTo, TypeOK, Labels, bucket, batches, database, outside
  <1>5. ASSUME NEW t \in Threads, ReadLastRefill(t) PROVE TypeOK'
    <2>1. /\ now[t] \in Nat /\ lastRefill \in Nat /\ lastRefill \in 0..clock
      BY DEF TypeOK
    <2>2. now[t] > lastRefill => TokensToAdd(now[t] - lastRefill) \in Nat
      BY <2>1, TokensToAddType
    <2>3. toAdd' \in [Threads -> Nat] /\ last' \in [Threads -> 0..clock]
      BY <1>5, <2>1, <2>2 DEF ReadLastRefill, TypeOK
    <2> QED
      BY <1>5, <2>3 DEF ReadLastRefill, GoTo, TypeOK, Labels, bucket, batches, database, outside
  <1>6. ASSUME NEW t \in Threads, CasLastRefill(t) PROVE TypeOK'
    <2>1. pc' \in [Threads -> Labels]
      BY <1>6, GoToType DEF CasLastRefill, Labels
    <2>2. lastRefill' \in 0..clock /\ clock' = clock
      BY <1>6 DEF CasLastRefill, TypeOK
    <2> QED
      BY <1>6, <2>1, <2>2 DEF CasLastRefill, TypeOK, locals, batches, database, outside
  <1>7. ASSUME NEW t \in Threads, ReadForAdd(t) PROVE TypeOK'
    BY <1>1, <1>7 DEF ReadForAdd, ReadTokens, From, GoTo, TypeOK, Labels, bucket, batches, database, outside
  <1>8. ASSUME NEW t \in Threads, CasAdd(t) PROVE TypeOK'
    <2>1. availableTokens' \in 0..Capacity
      <3>1. current[t] + toAdd[t] \in Nat
        BY DEF TypeOK
      <3>2. Min({Capacity, current[t] + toAdd[t]}) \in 0..Capacity
        BY <1>1, <3>1, MinOfPair
      <3> QED
        BY <1>8, <3>2 DEF CasAdd, TypeOK
    <2> QED
      BY <1>8, <2>1 DEF CasAdd, GoTo, TypeOK, Labels, locals, batches, database, outside
  <1>9. ASSUME NEW t \in Threads, ReadForTake(t) PROVE TypeOK'
    <2>1. CASE availableTokens = 0
      BY <1>9, <2>1 DEF ReadForTake, From, GoTo, TypeOK, Labels, bucket, locals, batches, database, outside
    <2>2. CASE availableTokens # 0
      <3>1. pc' \in [Threads -> Labels]
        BY <1>9, <2>2, GoToType DEF ReadForTake, ReadTokens, From, Labels
      <3>2. current' \in [Threads -> Nat] /\ clock' = clock
        BY <1>1, <1>9, <2>2 DEF ReadForTake, ReadTokens, TypeOK
      <3> QED
        BY <1>9, <2>2, <3>1, <3>2 DEF ReadForTake, ReadTokens, TypeOK, bucket, batches, database, outside
    <2> QED
      BY <2>1, <2>2
  <1>10. ASSUME NEW t \in Threads, CasTake(t) PROVE TypeOK'
    <2>1. current[t] \in Nat /\ current[t] > 0
      BY <1>10 DEF CasTake, TypeOK, LimiterInv, Reading
    <2>2. availableTokens' \in 0..Capacity
      BY <1>1, <1>10, <2>1 DEF CasTake, TypeOK
    <2> QED
      <3>1. pc' \in [Threads -> Labels]
        BY <1>10, GoToType DEF CasTake, Labels
      <3>2. now' = now \/ now' = [now EXCEPT ![t] = clock]
        BY <1>10 DEF CasTake
      <3>3. clock \in 0..clock /\ now \in [Threads -> 0..clock] /\ clock' = clock
        BY <1>1, <1>10 DEF CasTake, TypeOK
      <3>4. now' \in [Threads -> 0..clock]
        BY <3>2, <3>3
      <3> QED
        BY <1>10, <2>2, <3>1, <3>3, <3>4 DEF CasTake, TypeOK, locals, batches, database, outside
  <1>11. ASSUME NEW t \in Threads, EnterStripe(t) PROVE TypeOK'
    BY <1>11 DEF EnterStripe, From, GoTo, TypeOK, Labels, bucket, locals, batches, database, outside
  <1>12. ASSUME NEW t \in Threads, PersistTransaction(t) PROVE TypeOK'
    <2>1. Len(txns) + 1 \in Txns /\ Len(txns) + 1 \in Nat
      BY <1>1, <1>12 DEF PersistTransaction, TypeOK, Txns
    <2>2. txns' \in Seq(Txns) /\ current' \in [Threads -> Nat]
      BY <1>12, <2>1 DEF PersistTransaction, TypeOK
    <2> QED
      BY <1>12, <2>2 DEF PersistTransaction, From, GoTo, TypeOK, Labels, bucket, batches, outside
  <1>13. ASSUME NEW t \in Threads, AppendOutboxEvent(t) PROVE TypeOK'
    <2>1. current[t] \in Txns
      BY <1>1, <1>13 DEF AppendOutboxEvent, From, StripeInv, TypeOK, Txns
    <2>2. outbox' \in Seq(Txns) /\ Len(outbox') = Len(outbox) + 1 /\ Len(outbox) \in Nat
      BY <1>13, <2>1 DEF AppendOutboxEvent, TypeOK
    <2>3. \A u \in Threads : batch[u] \in SUBSET (1..Len(outbox'))
      BY <2>2 DEF TypeOK
    <2>4. batch' \in [Threads -> SUBSET (1..Len(outbox'))]
      BY <1>13, <2>3 DEF AppendOutboxEvent, TypeOK, batches
    <2> QED
      BY <1>13, <2>1, <2>2, <2>4 DEF AppendOutboxEvent, From, GoTo, TypeOK, Labels, bucket, locals, batches
  <1>14. ASSUME NEW t \in Threads, Fail(t) PROVE TypeOK'
    BY <1>14 DEF Fail, GoTo, TypeOK, Labels, bucket, locals, batches, database, outside
  <1>15. ASSUME NEW t \in Threads, FindPendingEvents(t) PROVE TypeOK'
    <2>1. Pending \in SUBSET (1..Len(outbox))
      BY DEF Pending
    <2> HIDE DEF Pending
    <2> QED
      BY <1>15, <2>1 DEF FindPendingEvents, GoTo, TypeOK, Labels, bucket, locals, database, outside
  <1>16. ASSUME NEW t \in Threads, NEW taken \in BOOLEAN, PublishEvent(t, taken) PROVE TypeOK'
    <2>1. batch[t] \in SUBSET (1..Len(outbox)) /\ batch[t] # {} /\ Len(outbox) \in Nat
      BY <1>16 DEF PublishEvent, TypeOK
    <2>2. Min(batch[t]) \in 1..Len(outbox)
      BY <2>1, MinElement
    <2>3. outbox[Min(batch[t])] \in Txns
      BY <2>2 DEF TypeOK
    <2>4. sent' \subseteq Txns /\ swallowed' \subseteq Txns /\ marked' \in [Threads -> SUBSET Txns]
      BY <1>16, <2>3 DEF PublishEvent, TypeOK
    <2>5. batch' \in [Threads -> SUBSET (1..Len(outbox))]
      BY <1>16 DEF PublishEvent, TypeOK
    <2> QED
      BY <1>16, <2>4, <2>5 DEF PublishEvent, TypeOK, Labels, bucket, locals, database
  <1>17. ASSUME NEW t \in Threads, CommitProcessed(t) \/ RollBackBatch(t) PROVE TypeOK'
    BY <1>17 DEF CommitProcessed, RollBackBatch, EndBatch, From, GoTo, TypeOK, Labels, bucket, locals,
       batches, outside
  <1>18. CASE UNCHANGED vars
    BY <1>18 DEF vars, TypeOK, bucket, locals, batches, database, outside
  <1> QED
    BY <1>2, <1>3, <1>4, <1>5, <1>6, <1>7, <1>8, <1>9, <1>10, <1>11, <1>12, <1>13, <1>14, <1>15,
       <1>16, <1>17, <1>18 DEF Next, Step
-----------------------------------------------------------------------------
(* The limiter *)

\* A thread that goes where nothing is claimed leaves the claims as they are.
LEMMA LimiterAside ==
  ASSUME TypeOK, LimiterInv, NEW t \in Threads,
         NEW l \in Labels \ {"casLast", "readForAdd", "casAdd", "casTake"}, GoTo(t, l),
         lastRefill' = lastRefill,
         \A u \in Threads \ {t} :
            now'[u] = now[u] /\ last'[u] = last[u] /\ toAdd'[u] = toAdd[u] /\ current'[u] = current[u]
  PROVE  LimiterInv'
  <1>1. pc'[t] = l /\ \A u \in Threads \ {t} : pc'[u] = pc[u]
    BY DEF GoTo, TypeOK
  <1>2. ASSUME NEW u \in Threads PROVE Reading(u)'
    <2>1. CASE u = t
      BY <1>1, <2>1 DEF Reading
    <2>2. CASE u # t
      <3>1. Reading(u)
        BY DEF LimiterInv
      <3> QED
        BY <1>1, <2>2, <3>1 DEF Reading, TokensToAdd
    <2> QED
      BY <2>1, <2>2
  <1>3. \A u \in Threads : Adding(u)' => u # t /\ Adding(u)
    BY <1>1 DEF Adding
  <1>4. ClaimsApart'
    <2> SUFFICES ASSUME NEW u \in Threads, NEW v \in Threads, Adding(u)', Adding(v)', u # v
                 PROVE  now'[u] <= last'[v] \/ now'[v] <= last'[u]
      BY DEF ClaimsApart
    <2>1. u # t /\ v # t /\ Adding(u) /\ Adding(v)
      BY <1>3
    <2>2. now[u] <= last[v] \/ now[v] <= last[u]
      BY <2>1 DEF LimiterInv, ClaimsApart
    <2> QED
      BY <2>1, <2>2
  <1> QED
    BY <1>2, <1>4 DEF LimiterInv

\* So does a step that touches neither the limiter nor where the threads are.
LEMMA LimiterElsewhere ==
  ASSUME LimiterInv, UNCHANGED <<lastRefill, pc, now, last, toAdd, current>>
  PROVE  LimiterInv'
  <1>1. ASSUME NEW u \in Threads PROVE Reading(u)'
    BY DEF LimiterInv, Reading, TokensToAdd
  <1>2. ClaimsApart'
    BY DEF LimiterInv, ClaimsApart, Adding
  <1> QED
    BY <1>1, <1>2 DEF LimiterInv

\* No interleaving of the compare-and-set loops lets two claims overlap.
LEMMA NextLimiter == IInv /\ [Next]_vars => LimiterInv'
  <1> SUFFICES ASSUME IInv, [Next]_vars PROVE LimiterInv'
    OBVIOUS
  <1>0. TypeOK /\ LimiterInv
    BY DEF IInv
  <1> USE <1>0
  <1>1. /\ \A t \in Threads : now[t] \in Nat /\ last[t] \in Nat /\ now[t] <= clock
        /\ lastRefill \in Nat /\ clock \in Nat /\ availableTokens \in Nat
    <2>1. Capacity \in Nat /\ MaxClock \in Nat
      BY WorkerAssumption
    <2> QED
      BY <2>1 DEF TypeOK
  <1>2. CASE Tick
    BY <1>2, LimiterElsewhere DEF Tick, bucket, locals
  <1>3. CASE Crash
    BY <1>3 DEF Crash, LimiterInv, Reading, ClaimsApart, Adding
  <1>4. ASSUME NEW t \in Threads, TryConsume(t) PROVE LimiterInv'
    BY <1>4, LimiterAside DEF TryConsume, Labels, bucket, TypeOK
  <1>5. ASSUME NEW t \in Threads, ReadLastRefill(t) PROVE LimiterInv'
    <2>1. CASE now[t] > lastRefill /\ TokensToAdd(now[t] - lastRefill) > 0
      <3>1. /\ pc' = [pc EXCEPT ![t] = "casLast"]
            /\ last' = [last EXCEPT ![t] = lastRefill]
            /\ toAdd' = [toAdd EXCEPT ![t] = TokensToAdd(now[t] - lastRefill)]
            /\ UNCHANGED <<lastRefill, now, current>>
        BY <1>5, <2>1 DEF ReadLastRefill, GoTo, bucket
      <3>2. \A u \in Threads \ {t} : pc'[u] = pc[u] /\ last'[u] = last[u] /\ toAdd'[u] = toAdd[u]
        BY <3>1 DEF TypeOK
      <3>3. /\ pc'[t] = "casLast" /\ last'[t] = lastRefill
            /\ toAdd'[t] = TokensToAdd(now[t] - lastRefill)
        BY <3>1 DEF TypeOK
      <3>4. ASSUME NEW u \in Threads PROVE Reading(u)'
        <4>1. CASE u = t
          BY <1>1, <2>1, <3>1, <3>3, <4>1 DEF Reading, TokensToAdd
        <4>2. CASE u # t
          <5>1. Reading(u)
            BY DEF LimiterInv
          <5> QED
            BY <3>1, <3>2, <4>2, <5>1 DEF Reading, TokensToAdd
        <4> QED
          BY <4>1, <4>2
      <3>5. ClaimsApart'
        BY <3>1, <3>2, <3>3 DEF LimiterInv, ClaimsApart, Adding
      <3> QED
        BY <3>4, <3>5 DEF LimiterInv
    <2>2. CASE ~ (now[t] > lastRefill /\ TokensToAdd(now[t] - lastRefill) > 0)
      <3>1. GoTo(t, "readForTake") /\ UNCHANGED <<last, toAdd, lastRefill, now, current>>
        BY <1>5, <2>2 DEF ReadLastRefill, bucket
      <3> QED
        BY <3>1, LimiterAside DEF Labels
    <2> QED
      BY <2>1, <2>2
  <1>6. ASSUME NEW t \in Threads, CasLastRefill(t) PROVE LimiterInv'
    <2>1. CASE lastRefill = last[t]
      <3>1. /\ pc[t] = "casLast" /\ pc' = [pc EXCEPT ![t] = "readForAdd"] /\ lastRefill' = now[t]
            /\ UNCHANGED <<now, last, toAdd, current>>
        BY <1>6, <2>1 DEF CasLastRefill, GoTo, locals
      <3>2. pc'[t] = "readForAdd" /\ \A u \in Threads \ {t} : pc'[u] = pc[u]
        BY <3>1 DEF TypeOK
      <3>3. last[t] < now[t] /\ lastRefill < now[t] /\ toAdd[t] = TokensToAdd(now[t] - last[t])
        BY <2>1, <3>1 DEF LimiterInv, Reading
      <3>4. ASSUME NEW u \in Threads PROVE Reading(u)'
        <4>1. CASE u = t
          BY <1>1, <3>1, <3>2, <3>3, <4>1 DEF Reading, TokensToAdd
        <4>2. CASE u # t
          <5>1. Reading(u)
            BY DEF LimiterInv
          <5> QED
            BY <1>1, <3>1, <3>2, <3>3, <4>2, <5>1 DEF Reading, TokensToAdd
        <4> QED
          BY <4>1, <4>2
      <3>5. \A u \in Threads \ {t} : Adding(u)' => Adding(u) /\ now[u] <= last[t]
        BY <2>1, <3>2 DEF LimiterInv, Reading, Adding
      <3>6. ClaimsApart'
        <4> SUFFICES ASSUME NEW u \in Threads, NEW v \in Threads, Adding(u)', Adding(v)', u # v
                     PROVE  now'[u] <= last'[v] \/ now'[v] <= last'[u]
          BY DEF ClaimsApart
        <4>1. CASE u = t \/ v = t
          BY <3>1, <3>5, <4>1
        <4>2. CASE u # t /\ v # t
          BY <3>1, <3>5, <4>2 DEF LimiterInv, ClaimsApart
        <4> QED
          BY <4>1, <4>2
      <3> QED
        BY <3>4, <3>6 DEF LimiterInv
    <2>2. CASE lastRefill # last[t]
      <3>1. GoTo(t, "readForTake") /\ UNCHANGED <<last, toAdd, lastRefill, now, current>>
        BY <1>6, <2>2 DEF CasLastRefill, locals
      <3> QED
        BY <3>1, LimiterAside DEF Labels
    <2> QED
      BY <2>1, <2>2
  <1>7. ASSUME NEW t \in Threads, NEW l \in {"readForAdd", "casAdd"},
               Adding(t), GoTo(t, l), UNCHANGED <<lastRefill, now, last, toAdd>>,
               \A u \in Threads \ {t} : current'[u] = current[u]
        PROVE  LimiterInv'
    <2>1. pc'[t] = l /\ \A u \in Threads \ {t} : pc'[u] = pc[u]
      BY <1>7 DEF GoTo, TypeOK
    <2>2. ASSUME NEW u \in Threads PROVE Reading(u)'
      <3>1. Reading(u)
        BY DEF LimiterInv
      <3>2. CASE u = t
        BY <1>7, <2>1, <3>1, <3>2 DEF Reading, Adding, TokensToAdd
      <3>3. CASE u # t
        BY <1>7, <2>1, <3>1, <3>3 DEF Reading, TokensToAdd
      <3> QED
        BY <3>2, <3>3
    <2>3. \A u \in Threads : Adding(u)' <=> Adding(u)
      BY <1>7, <2>1 DEF Adding
    <2>4. ClaimsApart'
      BY <1>7, <2>3 DEF LimiterInv, ClaimsApart
    <2> QED
      BY <2>2, <2>4 DEF LimiterInv
  <1>8. ASSUME NEW t \in Threads, ReadForAdd(t) PROVE LimiterInv'
    <2>1. /\ Adding(t) /\ GoTo(t, "casAdd") /\ UNCHANGED <<lastRefill, now, last, toAdd>>
          /\ \A u \in Threads \ {t} : current'[u] = current[u]
      BY <1>8 DEF ReadForAdd, ReadTokens, From, Adding, bucket, TypeOK
    <2> QED
      BY <1>7, <2>1
  <1>9. ASSUME NEW t \in Threads, CasAdd(t) PROVE LimiterInv'
    <2>1. /\ Adding(t) /\ UNCHANGED <<lastRefill, now, last, toAdd, current>>
          /\ GoTo(t, "readForTake") \/ GoTo(t, "readForAdd")
      BY <1>9 DEF CasAdd, Adding, locals
    <2>2. CASE GoTo(t, "readForTake")
      BY <2>1, <2>2, LimiterAside DEF Labels
    <2>3. CASE GoTo(t, "readForAdd")
      BY <1>7, <2>1, <2>3
    <2> QED
      BY <2>1, <2>2, <2>3
  <1>10. ASSUME NEW t \in Threads, ReadForTake(t) PROVE LimiterInv'
    <2>1. CASE availableTokens = 0
      <3>1. GoTo(t, "idle") /\ UNCHANGED <<last, toAdd, lastRefill, now, current>>
        BY <1>10, <2>1 DEF ReadForTake, From, bucket, locals
      <3> QED
        BY <3>1, LimiterAside DEF Labels
    <2>2. CASE availableTokens # 0
      <3>1. /\ pc' = [pc EXCEPT ![t] = "casTake"] /\ pc[t] = "readForTake"
            /\ current' = [current EXCEPT ![t] = availableTokens]
            /\ UNCHANGED <<last, toAdd, lastRefill, now>>
        BY <1>10, <2>2 DEF ReadForTake, ReadTokens, From, GoTo, bucket
      <3>2. \A u \in Threads \ {t} : pc'[u] = pc[u] /\ current'[u] = current[u]
        BY <3>1 DEF TypeOK
      <3>3. pc'[t] = "casTake" /\ current'[t] > 0
        BY <1>1, <2>2, <3>1 DEF TypeOK
      <3>4. ASSUME NEW u \in Threads PROVE Reading(u)'
        <4>1. CASE u = t
          BY <3>3, <4>1 DEF Reading
        <4>2. CASE u # t
          <5>1. Reading(u)
            BY DEF LimiterInv
          <5> QED
            BY <3>1, <3>2, <4>2, <5>1 DEF Reading, TokensToAdd
        <4> QED
          BY <4>1, <4>2
      <3>5. ClaimsApart'
        BY <3>1, <3>2, <3>3 DEF LimiterInv, ClaimsApart, Adding
      <3> QED
        BY <3>4, <3>5 DEF LimiterInv
    <2> QED
      BY <2>1, <2>2
  <1>11. ASSUME NEW t \in Threads, CasTake(t) PROVE LimiterInv'
    <2>1. UNCHANGED <<last, toAdd, lastRefill, current>>
      BY <1>11 DEF CasTake
    <2>2. \A u \in Threads \ {t} : now'[u] = now[u]
      BY <1>11 DEF CasTake, TypeOK
    <2>3. CASE GoTo(t, "lock")
      BY <2>1, <2>2, <2>3, LimiterAside DEF Labels
    <2>4. CASE GoTo(t, "readLast")
      BY <2>1, <2>2, <2>4, LimiterAside DEF Labels
    <2> QED
      BY <1>11, <2>3, <2>4 DEF CasTake
  <1>12. ASSUME NEW t \in Threads, EnterStripe(t) PROVE LimiterInv'
    <2>1. GoTo(t, "persist") /\ UNCHANGED <<last, toAdd, lastRefill, now, current>>
      BY <1>12 DEF EnterStripe, From, bucket, locals
    <2> QED
      BY <2>1, LimiterAside DEF Labels
  <1>13. ASSUME NEW t \in Threads, PersistTransaction(t) PROVE LimiterInv'
    <2>1. /\ GoTo(t, "append") /\ UNCHANGED <<last, toAdd, lastRefill, now>>
          /\ \A u \in Threads \ {t} : current'[u] = current[u]
      BY <1>13 DEF PersistTransaction, From, bucket, TypeOK
    <2> QED
      BY <2>1, LimiterAside DEF Labels
  <1>14. ASSUME NEW t \in Threads, AppendOutboxEvent(t) \/ Fail(t) PROVE LimiterInv'
    <2>1. GoTo(t, "idle") /\ UNCHANGED <<last, toAdd, lastRefill, now, current>>
      BY <1>14 DEF AppendOutboxEvent, Fail, From, bucket, locals
    <2> QED
      BY <2>1, LimiterAside DEF Labels
  <1>15. ASSUME NEW t \in Threads, FindPendingEvents(t) PROVE LimiterInv'
    <2>1. GoTo(t, "publish") /\ UNCHANGED <<last, toAdd, lastRefill, now, current>>
      BY <1>15 DEF FindPendingEvents, bucket, locals
    <2> QED
      BY <2>1, LimiterAside DEF Labels
  <1>16. ASSUME NEW t \in Threads, NEW taken \in BOOLEAN, PublishEvent(t, taken) PROVE LimiterInv'
    BY <1>16, LimiterElsewhere DEF PublishEvent, bucket, locals
  <1>17. ASSUME NEW t \in Threads, CommitProcessed(t) \/ RollBackBatch(t) PROVE LimiterInv'
    <2>1. GoTo(t, "idle") /\ UNCHANGED <<last, toAdd, lastRefill, now, current>>
      BY <1>17 DEF CommitProcessed, RollBackBatch, EndBatch, From, bucket, locals
    <2> QED
      BY <2>1, LimiterAside DEF Labels
  <1>18. CASE UNCHANGED vars
    BY <1>18, LimiterElsewhere DEF vars, bucket, locals
  <1> QED
    BY <1>2, <1>3, <1>4, <1>5, <1>6, <1>8, <1>9, <1>10, <1>11, <1>12, <1>13, <1>14, <1>15, <1>16,
       <1>17, <1>18 DEF Next, Step
-----------------------------------------------------------------------------
(* The database *)

\* A thread that is not recording, before or after, leaves the rows alone.
LEMMA RecordAside ==
  ASSUME TypeOK, RecordInv, NEW t \in Threads,
         NEW l \in Labels \ {"persist", "append"}, GoTo(t, l), pc[t] \notin {"persist", "append"},
         UNCHANGED <<stripe, txns, outbox, answered>>,
         \A u \in Threads \ {t} : current'[u] = current[u]
  PROVE  RecordInv'
  <1>1. pc'[t] = l /\ \A u \in Threads \ {t} : pc'[u] = pc[u]
    BY DEF GoTo, TypeOK
  <1>2. \A u \in Threads : pc'[u] \in {"persist", "append"} => u # t /\ pc'[u] = pc[u]
    BY <1>1
  <1>3. StripeInv'
    BY <1>2 DEF RecordInv, StripeInv
  <1> QED
    BY <1>3 DEF RecordInv, OutboxFollowsCommits

LEMMA RecordElsewhere ==
  ASSUME RecordInv, UNCHANGED <<pc, stripe, txns, outbox, answered, current>>
  PROVE  RecordInv'
  BY DEF RecordInv, StripeInv, OutboxFollowsCommits

\* The stripe keeps the outbox in the order of the transactions.
LEMMA NextRecord == IInv /\ [Next]_vars => RecordInv'
  <1> SUFFICES ASSUME IInv, [Next]_vars PROVE RecordInv'
    OBVIOUS
  <1>0. TypeOK /\ RecordInv
    BY DEF IInv
  <1> USE <1>0
  <1>1. None \notin Threads /\ MaxTxns \in Nat /\ Len(txns) \in Nat /\ Len(outbox) \in Nat
    BY WorkerAssumption DEF TypeOK
  <1>2. CASE Tick
    BY <1>2, RecordElsewhere DEF Tick, locals, database, outside
  <1>3. CASE Crash
    <2>1. /\ UNCHANGED <<txns, outbox, answered>>
          /\ \A u \in Threads : pc'[u] \notin {"persist", "append"}
      BY <1>3 DEF Crash, database, outside
    <2> QED
      BY <2>1 DEF RecordInv, StripeInv, OutboxFollowsCommits
  <1>4. ASSUME NEW t \in Threads, TryConsume(t) PROVE RecordInv'
    BY <1>4, RecordAside DEF TryConsume, Labels, database, outside
  <1>5. ASSUME NEW t \in Threads, ReadLastRefill(t) PROVE RecordInv'
    <2>1. /\ pc[t] = "readLast" /\ UNCHANGED <<stripe, txns, outbox, answered, current>>
          /\ GoTo(t, "casLast") \/ GoTo(t, "readForTake")
      BY <1>5 DEF ReadLastRefill, database, outside
    <2> QED
      BY <2>1, RecordAside DEF Labels
  <1>6. ASSUME NEW t \in Threads, CasLastRefill(t) \/ CasAdd(t) PROVE RecordInv'
    <2>1. /\ pc[t] \in {"casLast", "casAdd"} /\ UNCHANGED <<stripe, txns, outbox, answered, current>>
          /\ GoTo(t, "readForAdd") \/ GoTo(t, "readForTake")
      BY <1>6 DEF CasLastRefill, CasAdd, locals, database, outside
    <2> QED
      BY <2>1, RecordAside DEF Labels
  <1>7. ASSUME NEW t \in Threads, ReadForAdd(t) PROVE RecordInv'
    <2>1. /\ pc[t] = "readForAdd" /\ UNCHANGED <<stripe, txns, outbox, answered>> /\ GoTo(t, "casAdd")
          /\ \A u \in Threads \ {t} : current'[u] = current[u]
      BY <1>7 DEF ReadForAdd, ReadTokens, From, TypeOK, database, outside
    <2> QED
      BY <2>1, RecordAside DEF Labels
  <1>8. ASSUME NEW t \in Threads, ReadForTake(t) PROVE RecordInv'
    <2>1. /\ pc[t] = "readForTake" /\ UNCHANGED <<stripe, txns, outbox, answered>>
          /\ GoTo(t, "idle") \/ GoTo(t, "casTake")
          /\ \A u \in Threads \ {t} : current'[u] = current[u]
      BY <1>8 DEF ReadForTake, ReadTokens, From, TypeOK, locals, database, outside
    <2> QED
      BY <2>1, RecordAside DEF Labels
  <1>9. ASSUME NEW t \in Threads, CasTake(t) PROVE RecordInv'
    <2>1. /\ pc[t] = "casTake" /\ UNCHANGED <<stripe, txns, outbox, answered, current>>
          /\ GoTo(t, "lock") \/ GoTo(t, "readLast")
      BY <1>9 DEF CasTake, database, outside
    <2> QED
      BY <2>1, RecordAside DEF Labels
  <1>10. ASSUME NEW t \in Threads, EnterStripe(t) PROVE RecordInv'
    <2>1. \A u \in Threads : pc[u] \notin {"persist", "append"}
      BY <1>1, <1>10 DEF EnterStripe, RecordInv, StripeInv
    <2>2. pc'[t] = "persist" /\ \A u \in Threads \ {t} : pc'[u] = pc[u]
      BY <1>10 DEF EnterStripe, From, GoTo, TypeOK
    <2>3. StripeInv'
      BY <1>10, <2>1, <2>2 DEF EnterStripe, RecordInv, StripeInv, database
    <2> QED
      BY <1>10, <2>3 DEF EnterStripe, RecordInv, OutboxFollowsCommits, database, outside
  <1>11. ASSUME NEW t \in Threads, PersistTransaction(t) PROVE RecordInv'
    <2>1. stripe = t /\ \A u \in Threads \ {t} : pc[u] \notin {"persist", "append"}
      BY <1>11 DEF PersistTransaction, From, RecordInv, StripeInv
    <2>2. pc'[t] = "append" /\ \A u \in Threads \ {t} : pc'[u] = pc[u]
      BY <1>11 DEF PersistTransaction, From, GoTo, TypeOK
    <2>3. /\ Len(txns') = Len(txns) + 1 /\ txns'[Len(txns) + 1] = Len(txns) + 1
          /\ \A i \in 1..Len(txns) : txns'[i] = txns[i]
          /\ current'[t] = Len(txns) + 1 /\ Len(txns) < MaxTxns
          /\ UNCHANGED <<outbox, stripe, answered>>
      BY <1>11 DEF PersistTransaction, TypeOK, outside
    <2>4. \A i \in 1..Len(txns') : txns'[i] = i
      BY <1>1, <2>3 DEF RecordInv, StripeInv
    <2>5. \A i \in 1..Len(outbox) : outbox[i] \in Nat /\ outbox[i] < Len(txns')
      <3>1. \A i \in 1..Len(outbox) : outbox[i] <= Len(txns)
        BY DEF RecordInv, StripeInv
      <3>2. \A i \in 1..Len(outbox) : outbox[i] \in Txns
        BY DEF TypeOK
      <3> QED
        BY <1>1, <2>3, <3>1, <3>2 DEF Txns
    <2>6. StripeInv'
      <3>1. \A u \in Threads : pc'[u] \in {"persist", "append"} => u = t
        BY <2>1, <2>2
      <3>2. \A i \in 1..Len(outbox') : outbox'[i] <= Len(txns')
        BY <1>1, <2>3, <2>5
      <3>3. Len(txns') > 0 /\ Len(txns') <= MaxTxns
        BY <1>1, <2>3
      <3> QED
        BY <2>1, <2>3, <2>4, <2>5, <3>1, <3>2, <3>3 DEF StripeInv
    <2> QED
      BY <2>3, <2>6 DEF RecordInv, OutboxFollowsCommits
  <1>12. ASSUME NEW t \in Threads, AppendOutboxEvent(t) PROVE RecordInv'
    <2>1. /\ stripe = t /\ current[t] = Len(txns)
          /\ \A i \in 1..Len(outbox) : outbox[i] < Len(txns)
          /\ \A u \in Threads \ {t} : pc[u] \notin {"persist", "append"}
      BY <1>12 DEF AppendOutboxEvent, From, RecordInv, StripeInv
    <2>2. pc'[t] = "idle" /\ \A u \in Threads \ {t} : pc'[u] = pc[u]
      BY <1>12 DEF AppendOutboxEvent, From, GoTo, TypeOK
    <2>3. \A u \in Threads : pc'[u] \notin {"persist", "append"}
      BY <2>1, <2>2
    <2>4. Len(txns) \in Txns
      BY <1>1, <1>12 DEF AppendOutboxEvent, From, RecordInv, StripeInv, TypeOK, Txns
    <2>5. /\ Len(outbox') = Len(outbox) + 1 /\ outbox'[Len(outbox) + 1] = Len(txns)
          /\ \A i \in 1..Len(outbox) : outbox'[i] = outbox[i]
          /\ txns' = txns /\ answered' = answered \cup {Len(txns)}
      BY <1>12, <2>1, <2>4 DEF AppendOutboxEvent, TypeOK
    <2>6. \A i \in 1..Len(outbox') : outbox'[i] <= Len(txns)
      <3>1. \A i \in 1..Len(outbox) : outbox[i] <= Len(txns)
        BY DEF RecordInv, StripeInv
      <3> QED
        BY <1>1, <2>5, <3>1
    <2>7. StripeInv'
      BY <2>3, <2>5, <2>6 DEF RecordInv, StripeInv
    <2>8. OutboxFollowsCommits'
      <3>1. \A i, j \in 1..Len(outbox) : i < j => outbox[i] < outbox[j]
        BY DEF RecordInv, OutboxFollowsCommits
      <3> SUFFICES ASSUME NEW i \in 1..Len(outbox'), NEW j \in 1..Len(outbox'), i < j
                   PROVE  outbox'[i] < outbox'[j]
        BY DEF OutboxFollowsCommits
      <3>2. i \in 1..Len(outbox)
        BY <1>1, <2>5
      <3>3. CASE j = Len(outbox) + 1
        BY <2>1, <2>5, <3>2, <3>3
      <3>4. CASE j # Len(outbox) + 1
        <4>1. j \in 1..Len(outbox)
          BY <1>1, <2>5, <3>4
        <4> QED
          BY <2>5, <3>1, <3>2, <4>1
      <3> QED
        BY <3>3, <3>4
    <2>9. answered' \subseteq {outbox'[i] : i \in 1..Len(outbox')}
      <3> SUFFICES ASSUME NEW a \in answered' PROVE \E i \in 1..Len(outbox') : outbox'[i] = a
        OBVIOUS
      <3>1. CASE a = Len(txns)
        BY <1>1, <2>5, <3>1
      <3>2. CASE a \in answered
        <4>1. PICK i \in 1..Len(outbox) : outbox[i] = a
          BY <3>2 DEF RecordInv
        <4> QED
          BY <1>1, <2>5, <4>1
      <3> QED
        BY <2>5, <3>1, <3>2
    <2> QED
      BY <2>7, <2>8, <2>9 DEF RecordInv
  <1>13. ASSUME NEW t \in Threads, Fail(t) PROVE RecordInv'
    <2>1. /\ stripe = t
          /\ \A u \in Threads \ {t} : pc[u] \notin {"persist", "append"}
      BY <1>13 DEF Fail, RecordInv, StripeInv
    <2>2. pc'[t] = "idle" /\ \A u \in Threads \ {t} : pc'[u] = pc[u]
      BY <1>13 DEF Fail, GoTo, TypeOK
    <2>3. \A u \in Threads : pc'[u] \notin {"persist", "append"}
      BY <2>1, <2>2
    <2>4. UNCHANGED <<txns, outbox, answered>>
      BY <1>13 DEF Fail, database, outside
    <2> QED
      BY <2>3, <2>4 DEF RecordInv, StripeInv, OutboxFollowsCommits
  <1>14. ASSUME NEW t \in Threads, FindPendingEvents(t) PROVE RecordInv'
    <2>1. /\ pc[t] = "idle" /\ UNCHANGED <<stripe, txns, outbox, answered, current>>
          /\ GoTo(t, "publish")
      BY <1>14 DEF FindPendingEvents, locals, database, outside
    <2> QED
      BY <2>1, RecordAside DEF Labels
  <1>15. ASSUME NEW t \in Threads, NEW taken \in BOOLEAN, PublishEvent(t, taken) PROVE RecordInv'
    BY <1>15, RecordElsewhere DEF PublishEvent, locals, database
  <1>16. ASSUME NEW t \in Threads, CommitProcessed(t) \/ RollBackBatch(t) PROVE RecordInv'
    <2>1. /\ pc[t] = "publish" /\ UNCHANGED <<stripe, txns, outbox, answered, current>>
          /\ GoTo(t, "idle")
      BY <1>16 DEF CommitProcessed, RollBackBatch, EndBatch, From, locals, outside
    <2> QED
      BY <2>1, RecordAside DEF Labels
  <1>17. CASE UNCHANGED vars
    BY <1>17, RecordElsewhere DEF vars, locals, database, outside
  <1> QED
    BY <1>2, <1>3, <1>4, <1>5, <1>6, <1>7, <1>8, <1>9, <1>10, <1>11, <1>12, <1>13, <1>14, <1>15,
       <1>16, <1>17 DEF Next, Step

\* A mark follows a publication, and only marks of this batch are committed.
LEMMA NextPublish == IInv /\ [Next]_vars => PublishInv'
  <1> SUFFICES ASSUME IInv, [Next]_vars PROVE PublishInv'
    OBVIOUS
  <1>0. TypeOK /\ PublishInv
    BY DEF IInv
  <1> USE <1>0 DEF PublishInv, MarkedInv, ProcessedWasPublished
  <1>1. ASSUME UNCHANGED <<batches, processed, sent, swallowed>> PROVE PublishInv'
    BY <1>1 DEF batches
  <1>2. CASE Tick
    BY <1>1, <1>2 DEF Tick, database, outside
  <1>3. CASE Crash
    BY <1>3 DEF Crash, database, outside
  <1>4. ASSUME NEW t \in Threads, TryConsume(t) \/ ReadLastRefill(t) \/ CasLastRefill(t)
        PROVE  PublishInv'
    BY <1>1, <1>4 DEF TryConsume, ReadLastRefill, CasLastRefill, database, outside
  <1>5. ASSUME NEW t \in Threads, ReadForAdd(t) \/ CasAdd(t) \/ ReadForTake(t) \/ CasTake(t)
        PROVE  PublishInv'
    BY <1>1, <1>5 DEF ReadForAdd, ReadTokens, CasAdd, ReadForTake, CasTake, database, outside
  <1>6. ASSUME NEW t \in Threads,
               EnterStripe(t) \/ PersistTransaction(t) \/ AppendOutboxEvent(t) \/ Fail(t)
        PROVE  PublishInv'
    BY <1>1, <1>6 DEF EnterStripe, PersistTransaction, AppendOutboxEvent, Fail, database, outside
  <1>7. ASSUME NEW t \in Threads, FindPendingEvents(t) PROVE PublishInv'
    BY <1>7 DEF FindPendingEvents, TypeOK, database, outside
  <1>8. ASSUME NEW t \in Threads, NEW taken \in BOOLEAN, PublishEvent(t, taken) PROVE PublishInv'
    <2> DEFINE e == outbox[Min(batch[t])]
    <2>1. /\ sent' \cup swallowed' = sent \cup swallowed \cup {e} /\ processed' = processed
          /\ marked' = [marked EXCEPT ![t] = @ \cup {e}]
      BY <1>8 DEF PublishEvent, database
    <2> HIDE DEF e
    <2>2. MarkedInv'
      BY <2>1 DEF TypeOK
    <2>3. ProcessedWasPublished'
      BY <2>1
    <2> QED
      BY <2>2, <2>3
  <1>9. ASSUME NEW t \in Threads, CommitProcessed(t) \/ RollBackBatch(t) PROVE PublishInv'
    <2>1. /\ processed' \subseteq processed \cup marked[t] /\ UNCHANGED <<sent, swallowed>>
          /\ marked' = [marked EXCEPT ![t] = {}]
      BY <1>9 DEF CommitProcessed, RollBackBatch, EndBatch, outside
    <2> QED
      BY <2>1 DEF TypeOK
  <1>10. CASE UNCHANGED vars
    BY <1>1, <1>10 DEF vars, database, outside
  <1> QED
    BY <1>2, <1>3, <1>4, <1>5, <1>6, <1>7, <1>8, <1>9, <1>10 DEF Next, Step
-----------------------------------------------------------------------------
(* Theorems *)

LEMMA Invariance == Spec => []IInv
  <1>1. IInv /\ [Next]_vars => IInv'
    BY NextType, NextLimiter, NextRecord, NextPublish DEF IInv
  <1> QED
    BY InitInv, <1>1, PTL DEF Spec

\* The worker's state stays well typed: the bucket between empty and full, and
\* batches made of positions the outbox has.
THEOREM TypeCorrect == Spec => []TypeOK
  <1>1. IInv => TypeOK
    BY DEF IInv
  <1> QED
    BY Invariance, <1>1, PTL

\* The outbox follows the commits of the transactions, for any number of
\* threads recording at once and any failed save or crash between the two rows.
THEOREM OutboxOrder == Spec => []OutboxFollowsCommits
  <1>1. IInv => OutboxFollowsCommits
    BY DEF IInv, RecordInv
  <1> QED
    BY Invariance, <1>1, PTL

\* No event is marked processed that was not handed to the producer, however
\* many processors share the pending events.
THEOREM PublishedBeforeProcessed == Spec => []ProcessedWasPublished
  <1>1. IInv => ProcessedWasPublished
    BY DEF IInv, PublishInv
  <1> QED
    BY Invariance, <1>1, PTL

\* A transaction whose request was answered with success has its event, and
\* every event has its transaction.
THEOREM AnsweredEvents == Spec => []AnsweredHasEvent
  <1>1. IInv => AnsweredHasEvent
    <2> SUFFICES ASSUME IInv PROVE AnsweredHasEvent
      OBVIOUS
    <2>1. answered \subseteq {outbox[i] : i \in 1..Len(outbox)}
      BY DEF IInv, RecordInv
    <2>2. ASSUME NEW i \in 1..Len(outbox) PROVE \E j \in 1..Len(txns) : txns[j] = outbox[i]
      <3>1. outbox[i] \in 1..Len(txns)
        BY WorkerAssumption DEF IInv, RecordInv, StripeInv, TypeOK, Txns
      <3> QED
        BY <3>1 DEF IInv, RecordInv, StripeInv
    <2> QED
      BY <2>1, <2>2 DEF AnsweredHasEvent
  <1> QED
    BY Invariance, <1>1, PTL
-----------------------------------------------------------------------------
(* The limiter implements the token budget *)

\* Steps that neither move a claim nor the bucket leave the unpaid ticks.
LEMMA UnpaidAside ==
  ASSUME TypeOK, NEW t \in Threads, ~ Adding(t),
         NEW l \in Labels \ {"readForAdd", "casAdd"}, GoTo(t, l),
         UNCHANGED <<lastRefill, clock>>,
         \A u \in Threads \ {t} : now'[u] = now[u] /\ last'[u] = last[u]
  PROVE  Unpaid' = Unpaid
  <1>1. pc'[t] = l /\ \A u \in Threads \ {t} : pc'[u] = pc[u]
    BY DEF GoTo, TypeOK
  <1>2. ASSUME NEW u \in Threads PROVE Claim(u)' = Claim(u)
    <2>1. CASE u = t
      BY <1>1, <2>1 DEF Claim, Adding
    <2>2. CASE u # t
      BY <1>1, <2>2 DEF Claim
    <2> QED
      BY <2>1, <2>2
  <1> QED
    BY <1>2 DEF Unpaid

LEMMA UnpaidElsewhere ==
  ASSUME UNCHANGED <<lastRefill, clock, now, last>>,
         \A t \in Threads : Adding(t)' <=> Adding(t)
  PROVE  Unpaid' = Unpaid
  <1>1. ASSUME NEW u \in Threads PROVE Claim(u)' = Claim(u)
    BY DEF Claim, Adding
  <1> QED
    BY <1>1 DEF Unpaid

\* Moving lastRefill turns ticks since the last refill into claimed ones.
LEMMA UnpaidClaimed ==
  ASSUME IInv, NEW t \in Threads, CasLastRefill(t), lastRefill = last[t]
  PROVE  Unpaid' = Unpaid
  <1>0. TypeOK /\ LimiterInv
    BY DEF IInv
  <1>1. /\ now[t] \in Nat /\ last[t] \in Nat /\ clock \in Nat /\ lastRefill \in Nat
        /\ last[t] < now[t] /\ now[t] <= clock
    <2>1. MaxClock \in Nat
      BY WorkerAssumption
    <2>2. Reading(t) /\ pc[t] = "casLast"
      BY <1>0 DEF LimiterInv, CasLastRefill
    <2> QED
      BY <1>0, <2>1, <2>2 DEF TypeOK, Reading
  <1>2. /\ pc' = [pc EXCEPT ![t] = "readForAdd"] /\ pc[t] = "casLast" /\ lastRefill' = now[t]
        /\ UNCHANGED <<clock, now, last>>
    BY DEF CasLastRefill, GoTo, locals
  <1>3. Claim(t)' = (lastRefill + 1)..now[t] /\ Claim(t) = {}
    BY <1>0, <1>2 DEF Claim, TypeOK
  <1>4. \A u \in Threads \ {t} : Claim(u)' = Claim(u)
    BY <1>0, <1>2 DEF Claim, TypeOK
  <1>5. (lastRefill + 1)..clock = ((lastRefill' + 1)..clock') \cup ((lastRefill + 1)..now[t])
    BY <1>1, <1>2
  <1>6. UNION {Claim(u)' : u \in Threads} = (UNION {Claim(u) : u \in Threads}) \cup Claim(t)'
    BY <1>3, <1>4
  <1>7. Unpaid' = ((lastRefill' + 1)..clock') \cup UNION {Claim(u)' : u \in Threads}
    BY DEF Unpaid
  <1> HIDE DEF Claim
  <1> QED
    BY <1>3, <1>5, <1>6, <1>7 DEF Unpaid

\* Adding the tokens pays exactly the ticks this thread had claimed.
LEMMA UnpaidPaid ==
  ASSUME IInv, NEW t \in Threads, CasAdd(t), availableTokens = current[t]
  PROVE  Unpaid' = Unpaid \ Claim(t) /\ Claim(t) \subseteq Unpaid
  <1>0. TypeOK /\ LimiterInv
    BY DEF IInv
  <1>1. /\ clock \in Nat /\ lastRefill \in Nat
        /\ \A u \in Threads : now[u] \in Nat /\ last[u] \in Nat
    BY <1>0, WorkerAssumption DEF TypeOK
  <1>2. /\ pc' = [pc EXCEPT ![t] = "readForTake"] /\ pc[t] = "casAdd"
        /\ UNCHANGED <<clock, lastRefill, now, last>>
    BY DEF CasAdd, GoTo, locals
  <1>3. Claim(t)' = {} /\ Claim(t) = (last[t] + 1)..now[t]
    BY <1>0, <1>2 DEF Claim, TypeOK
  <1>4. \A u \in Threads \ {t} : Claim(u)' = Claim(u)
    BY <1>0, <1>2 DEF Claim, TypeOK
  <1>5. ASSUME NEW u \in Threads \ {t} PROVE Claim(u) \cap Claim(t) = {}
    <2>1. Adding(t)
      BY <1>2 DEF Adding
    <2>2. CASE Adding(u)
      <3>1. now[t] <= last[u] \/ now[u] <= last[t]
        BY <1>0, <2>1, <2>2 DEF LimiterInv, ClaimsApart
      <3>2. Claim(u) = (last[u] + 1)..now[u]
        BY <2>2 DEF Claim, Adding
      <3> QED
        BY <1>1, <1>3, <3>1, <3>2
    <2>3. CASE ~ Adding(u)
      BY <2>3 DEF Claim, Adding
    <2> QED
      BY <2>2, <2>3
  <1>6. ((lastRefill + 1)..clock) \cap Claim(t) = {}
    <2>1. now[t] <= lastRefill
      BY <1>0, <1>2 DEF LimiterInv, Reading
    <2> QED
      BY <1>1, <1>3, <2>1
  <1>7. Unpaid' = ((lastRefill + 1)..clock) \cup UNION {Claim(u)' : u \in Threads}
    BY <1>2 DEF Unpaid
  <1>8. UNION {Claim(u)' : u \in Threads} = (UNION {Claim(u) : u \in Threads}) \ Claim(t)
    BY <1>3, <1>4, <1>5
  <1> HIDE DEF Claim
  <1> QED
    BY <1>6, <1>7, <1>8 DEF Unpaid

\* Every step of a process is a step of the budget in service or leaves it alone.
LEMMA NextServes ==
  ASSUME IInv, [Next]_vars, ~ Crash
  PROVE  Budget!Serve \/ UNCHANGED Budget!vars
  <1>0. TypeOK /\ LimiterInv
    BY DEF IInv
  <1> USE <1>0
  <1>1. /\ clock \in Nat /\ lastRefill \in Nat /\ lastRefill <= clock
        /\ availableTokens \in 0..Capacity /\ Capacity \in Nat
        /\ \A u \in Threads : now[u] \in Nat /\ last[u] \in Nat /\ now[u] <= clock
    BY WorkerAssumption DEF TypeOK
  <1>2. ASSUME UNCHANGED <<clock, availableTokens>>, Unpaid' = Unpaid
        PROVE  Budget!Serve \/ UNCHANGED Budget!vars
    BY <1>2 DEF Budget!vars
  <1>3. CASE Tick
    <2>1. /\ clock' = clock + 1 /\ UNCHANGED <<availableTokens, lastRefill, pc, now, last>>
      BY <1>3 DEF Tick, bucket, locals
    <2>2. \A u \in Threads : Claim(u)' = Claim(u)
      BY <2>1 DEF Claim
    <2>3. (lastRefill + 1)..clock' = ((lastRefill + 1)..clock) \cup {clock + 1}
      BY <1>1, <2>1
    <2>4. Unpaid' = ((lastRefill + 1)..clock') \cup UNION {Claim(u) : u \in Threads}
      BY <2>1, <2>2 DEF Unpaid
    <2>5. Unpaid' = Unpaid \cup {clock + 1}
      BY <2>3, <2>4 DEF Unpaid
    <2> QED
      BY <2>1, <2>5 DEF Budget!Serve, Budget!Elapse
  <1>5. ASSUME NEW t \in Threads, TryConsume(t) PROVE Budget!Serve \/ UNCHANGED Budget!vars
    <2>1. /\ ~ Adding(t) /\ GoTo(t, "readLast") /\ UNCHANGED <<clock, availableTokens, lastRefill, last>>
          /\ \A u \in Threads \ {t} : now'[u] = now[u]
      BY <1>5 DEF TryConsume, Adding, bucket, TypeOK
    <2> QED
      BY <1>2, <2>1, UnpaidAside DEF Labels
  <1>6. ASSUME NEW t \in Threads, ReadLastRefill(t) PROVE Budget!Serve \/ UNCHANGED Budget!vars
    <2>1. /\ ~ Adding(t) /\ UNCHANGED <<clock, availableTokens, lastRefill, now>>
          /\ GoTo(t, "casLast") \/ GoTo(t, "readForTake")
          /\ \A u \in Threads \ {t} : last'[u] = last[u]
      BY <1>6 DEF ReadLastRefill, Adding, bucket, TypeOK
    <2> QED
      BY <1>2, <2>1, UnpaidAside DEF Labels
  <1>7. ASSUME NEW t \in Threads, CasLastRefill(t) PROVE Budget!Serve \/ UNCHANGED Budget!vars
    <2>1. UNCHANGED <<clock, availableTokens, now, last>> /\ ~ Adding(t)
      BY <1>7 DEF CasLastRefill, Adding, locals
    <2>2. CASE lastRefill = last[t]
      BY <1>2, <1>7, <2>1, <2>2, UnpaidClaimed
    <2>3. CASE lastRefill # last[t]
      <3>1. GoTo(t, "readForTake") /\ UNCHANGED lastRefill
        BY <1>7, <2>3 DEF CasLastRefill
      <3> QED
        BY <1>2, <2>1, <3>1, UnpaidAside DEF Labels
    <2> QED
      BY <2>2, <2>3
  <1>8. ASSUME NEW t \in Threads, ReadForAdd(t) PROVE Budget!Serve \/ UNCHANGED Budget!vars
    <2>1. /\ UNCHANGED <<clock, availableTokens, lastRefill, now, last>>
          /\ pc[t] = "readForAdd" /\ pc' = [pc EXCEPT ![t] = "casAdd"]
      BY <1>8 DEF ReadForAdd, ReadTokens, From, GoTo, bucket
    <2>2. \A u \in Threads : Adding(u)' <=> Adding(u)
      BY <2>1 DEF Adding, TypeOK
    <2> QED
      BY <1>2, <2>1, <2>2, UnpaidElsewhere
  <1>9. ASSUME NEW t \in Threads, CasAdd(t) PROVE Budget!Serve \/ UNCHANGED Budget!vars
    <2>1. CASE availableTokens = current[t]
      <3>1. /\ pc[t] = "casAdd" /\ clock' = clock
            /\ availableTokens' = Min({Capacity, current[t] + toAdd[t]})
        BY <1>9, <2>1 DEF CasAdd
      <3>2. last[t] < now[t] /\ toAdd[t] = TokensToAdd(now[t] - last[t])
        BY <3>1 DEF LimiterInv, Reading
      <3>3. Claim(t) = (last[t] + 1)..now[t]
        BY <3>1 DEF Claim
      <3>4. Cardinality(Claim(t)) = now[t] - last[t]
        <4>1. last[t] + 1 \in Int /\ now[t] \in Int /\ ~ (last[t] + 1 > now[t])
          BY <1>1, <3>2
        <4>2. Cardinality((last[t] + 1)..now[t]) = now[t] - (last[t] + 1) + 1
          BY <4>1, FS_Interval
        <4> QED
          BY <1>1, <3>3, <4>2
      <3>5. toAdd[t] = Budget!Due(Cardinality(Claim(t)))
        BY <3>2, <3>4 DEF Budget!Due, TokensToAdd
      <3>6. toAdd[t] \in Nat /\ current[t] \in Nat
        BY DEF TypeOK
      <3>7. /\ availableTokens' \in availableTokens..Capacity
            /\ availableTokens' <= availableTokens + toAdd[t]
        <4>1. Min({Capacity, current[t] + toAdd[t]}) =
                IF Capacity <= current[t] + toAdd[t] THEN Capacity ELSE current[t] + toAdd[t]
          BY <1>1, <3>6, MinOfPair
        <4> QED
          BY <1>1, <2>1, <3>1, <3>6, <4>1
      <3>8. Unpaid' = Unpaid \ Claim(t) /\ Claim(t) \in SUBSET Unpaid
        BY <1>9, <2>1, UnpaidPaid
      <3>9. Budget!Cardinality(Claim(t)) = Cardinality(Claim(t))
        BY Zenon DEF Budget!Cardinality, Cardinality
      <3>10. Budget!Pay(Claim(t))
        BY <3>1, <3>5, <3>7, <3>8, <3>9 DEF Budget!Pay
      <3> QED
        BY <3>8, <3>10 DEF Budget!Serve
    <2>2. CASE availableTokens # current[t]
      <3>1. /\ UNCHANGED <<clock, availableTokens, lastRefill, now, last>>
            /\ pc[t] = "casAdd" /\ pc' = [pc EXCEPT ![t] = "readForAdd"]
        BY <1>9, <2>2 DEF CasAdd, GoTo, locals
      <3>2. \A u \in Threads : Adding(u)' <=> Adding(u)
        BY <3>1 DEF Adding, TypeOK
      <3> QED
        BY <1>2, <3>1, <3>2, UnpaidElsewhere
    <2> QED
      BY <2>1, <2>2
  <1>10. ASSUME NEW t \in Threads, ReadForTake(t) PROVE Budget!Serve \/ UNCHANGED Budget!vars
    <2>1. /\ ~ Adding(t) /\ UNCHANGED <<clock, availableTokens, lastRefill, now, last>>
          /\ GoTo(t, "idle") \/ GoTo(t, "casTake")
      BY <1>10 DEF ReadForTake, ReadTokens, From, Adding, bucket, locals
    <2> QED
      BY <1>2, <2>1, UnpaidAside DEF Labels
  <1>11. ASSUME NEW t \in Threads, CasTake(t) PROVE Budget!Serve \/ UNCHANGED Budget!vars
    <2>1. /\ pc[t] = "casTake" /\ ~ Adding(t) /\ UNCHANGED <<clock, lastRefill, last>>
          /\ GoTo(t, "lock") \/ GoTo(t, "readLast")
          /\ \A u \in Threads \ {t} : now'[u] = now[u]
      BY <1>11 DEF CasTake, Adding, TypeOK
    <2>2. Unpaid' = Unpaid
      BY <2>1, UnpaidAside DEF Labels
    <2>3. CASE availableTokens = current[t]
      <3>1. availableTokens' = availableTokens - 1 /\ current[t] > 0
        BY <1>11, <2>1, <2>3 DEF CasTake, LimiterInv, Reading
      <3>2. Budget!Grant(1)
        BY <1>1, <2>1, <2>2, <2>3, <3>1 DEF Budget!Grant
      <3> QED
        BY <3>2 DEF Budget!Serve
    <2>4. CASE availableTokens # current[t]
      <3>1. UNCHANGED availableTokens
        BY <1>11, <2>4 DEF CasTake
      <3> QED
        BY <1>2, <2>1, <2>2, <3>1
    <2> QED
      BY <2>3, <2>4
  <1>12. ASSUME NEW t \in Threads,
                EnterStripe(t) \/ PersistTransaction(t) \/ AppendOutboxEvent(t) \/ Fail(t)
         PROVE  Budget!Serve \/ UNCHANGED Budget!vars
    <2>1. /\ ~ Adding(t) /\ UNCHANGED <<clock, availableTokens, lastRefill, now, last>>
          /\ GoTo(t, "persist") \/ GoTo(t, "append") \/ GoTo(t, "idle")
      BY <1>12 DEF EnterStripe, PersistTransaction, AppendOutboxEvent, Fail, From, Adding, bucket, locals
    <2> QED
      BY <1>2, <2>1, UnpaidAside DEF Labels
  <1>13. ASSUME NEW t \in Threads, FindPendingEvents(t) \/ CommitProcessed(t) \/ RollBackBatch(t)
         PROVE  Budget!Serve \/ UNCHANGED Budget!vars
    <2>1. /\ ~ Adding(t) /\ UNCHANGED <<clock, availableTokens, lastRefill, now, last>>
          /\ GoTo(t, "publish") \/ GoTo(t, "idle")
      BY <1>13 DEF FindPendingEvents, CommitProcessed, RollBackBatch, EndBatch, From, Adding, bucket, locals
    <2> QED
      BY <1>2, <2>1, UnpaidAside DEF Labels
  <1>14. ASSUME NEW t \in Threads, NEW taken \in BOOLEAN, PublishEvent(t, taken)
         PROVE  Budget!Serve \/ UNCHANGED Budget!vars
    <2>1. UNCHANGED <<clock, availableTokens, lastRefill, now, last, pc>>
      BY <1>14 DEF PublishEvent, bucket, locals
    <2> QED
      BY <1>2, <2>1, UnpaidElsewhere DEF Adding
  <1>15. CASE UNCHANGED vars
    <2>1. UNCHANGED <<clock, availableTokens, lastRefill, now, last, pc>>
      BY <1>15 DEF vars, bucket, locals
    <2> QED
      BY <1>2, <2>1, UnpaidElsewhere DEF Adding
  <1> QED
    BY <1>3, <1>5, <1>6, <1>7, <1>8, <1>9, <1>10, <1>11, <1>12, <1>13, <1>14, <1>15
    DEF Next, Step

\* A new process starts with a full bucket and owes nothing.
LEMMA CrashRestarts ==
  ASSUME IInv, Crash
  PROVE  Budget!Restart
  <1>1. clock \in Nat
    BY WorkerAssumption DEF IInv, TypeOK
  <1>2. /\ availableTokens' = Capacity /\ lastRefill' = clock /\ clock' = clock
        /\ \A u \in Threads : pc'[u] = "idle"
    BY DEF Crash
  <1>3. \A u \in Threads : Claim(u)' = {}
    BY <1>2 DEF Claim
  <1>4. (lastRefill' + 1)..clock' = {}
    BY <1>1, <1>2
  <1>5. Unpaid' = {}
    BY <1>3, <1>4 DEF Unpaid
  <1> QED
    BY <1>2, <1>5 DEF Budget!Restart

\* The lock-free limiter implements the token budget for any number of threads,
\* any capacity and rate: every permit takes a token that was there, every tick is
\* turned into tokens at most once, and only a new process fills the bucket for free.
THEOREM LimiterRefines == Spec => LimiterKeepsBudget
  <1>1. Init => Budget!Init
    <2> SUFFICES ASSUME Init PROVE Budget!Init
      OBVIOUS
    <2>1. \A t \in Threads : Claim(t) = {}
      BY DEF Init, Claim
    <2>2. (lastRefill + 1)..clock = {}
      BY DEF Init
    <2> QED
      BY <2>1, <2>2 DEF Init, Budget!Init, Unpaid
  <1>2. IInv /\ [Next]_vars => [Budget!Next]_(Budget!vars)
    BY NextServes, CrashRestarts DEF Budget!Next
  <1>3. IInv /\ [Next]_vars => [Crash \/ Budget!Serve \/ UNCHANGED Budget!vars]_vars
    BY NextServes
  <1> QED
    BY Invariance, <1>1, <1>2, <1>3, PTL DEF Spec, LimiterKeepsBudget, Budget!Spec
=============================================================================
