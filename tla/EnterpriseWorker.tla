-------------------------- MODULE EnterpriseWorker --------------------------
(***************************************************************************)
(* The Java worker (services/enterprise-worker): threads of one process    *)
(* that record transactions of one tenant (rate limiter, concurrency       *)
(* stripe, transaction row, outbox row) or publish pending outbox events.  *)
(*                                                                         *)
(* The limiter is modelled read by read and compare-and-set by             *)
(* compare-and-set.  The process may die at any time: the database keeps   *)
(* what was committed, the limiter and the locks start afresh.  Amounts,   *)
(* references and messages are left out.                                   *)
(***************************************************************************)
EXTENDS Integers, Sequences, FiniteSets, FiniteSetsExt

CONSTANTS
    Threads,
    Capacity, Rate, Unit,   \* of the token bucket: Rate tokens every Unit ticks
    BatchSize,              \* batchSize of processPendingEvents
    MaxClock,               \* bound: ticks of the clock
    MaxTxns,                \* bound: transactions recorded
    None

ASSUME WorkerAssumption ==
    /\ Capacity \in Nat \ {0} /\ Rate \in Nat \ {0} /\ Unit \in Nat \ {0}
    /\ BatchSize \in Nat \ {0}
    /\ MaxClock \in Nat /\ MaxTxns \in Nat
    /\ None \notin Threads

VARIABLES
    clock,          \* System.nanoTime()
    \* AtomicBucketState
    availableTokens, lastRefill,
    \* the threads
    pc,
    now, last,      \* what refillTokens read
    toAdd,          \* tokensToAdd
    current,        \* availableTokens as read, then the id of the row saved
    batch,          \* positions in the outbox still to publish
    marked,         \* events marked processed, not yet committed
    stripe,         \* holder of the tenant's ReentrantLock
    \* the database
    txns,           \* transaction rows, in the order of their commits
    outbox,         \* outbox rows, in the order of their commits
    processed,      \* outbox rows with processed = true
    \* the broker and history
    sent,           \* events the broker has received
    swallowed,      \* events whose publication failed without the caller knowing
    answered        \* transactions whose request was answered with success

bucket   == <<availableTokens, lastRefill>>
locals   == <<now, last, toAdd, current>>
batches  == <<batch, marked>>
database == <<txns, outbox, processed>>
outside  == <<sent, swallowed, answered>>
vars == <<clock, bucket, pc, locals, batches, stripe, database, outside>>

Txns == 1..MaxTxns
Labels ==
    {"idle", "readLast", "casLast", "readForAdd", "casAdd", "readForTake", "casTake",
     "lock", "persist", "append", "publish"}

TypeOK ==
    /\ clock \in 0..MaxClock
    /\ availableTokens \in 0..Capacity
    /\ lastRefill \in 0..clock
    /\ pc \in [Threads -> Labels]
    /\ now \in [Threads -> 0..clock] /\ last \in [Threads -> 0..clock]
    /\ toAdd \in [Threads -> Nat] /\ current \in [Threads -> Nat]
    /\ batch \in [Threads -> SUBSET (1..Len(outbox))]
    /\ marked \in [Threads -> SUBSET Txns]
    /\ stripe \in Threads \cup {None}
    /\ txns \in Seq(Txns) /\ outbox \in Seq(Txns)
    /\ processed \subseteq Txns
    /\ sent \subseteq Txns /\ swallowed \subseteq Txns /\ answered \subseteq Txns

Zero == [t \in Threads |-> 0]

Init ==
    /\ clock = 0
    /\ availableTokens = Capacity /\ lastRefill = 0
    /\ pc = [t \in Threads |-> "idle"]
    /\ now = Zero /\ last = Zero /\ toAdd = Zero /\ current = Zero
    /\ batch = [t \in Threads |-> {}] /\ marked = [t \in Threads |-> {}]
    /\ stripe = None
    /\ txns = <<>> /\ outbox = <<>> /\ processed = {}
    /\ sent = {} /\ swallowed = {} /\ answered = {}

GoTo(t, label) == pc' = [pc EXCEPT ![t] = label]
From(t, label, next) == pc[t] = label /\ GoTo(t, next)

Tick ==
    /\ clock < MaxClock
    /\ clock' = clock + 1
    /\ UNCHANGED <<bucket, pc, locals, batches, stripe, database, outside>>
-----------------------------------------------------------------------------
(* LockFreeTokenBucketRateLimiter *)

\* recordTransaction asks for one permit: tryConsume calls refillTokens, which
\* reads the clock.
TryConsume(t) ==
    /\ pc[t] = "idle"
    /\ Len(txns) < MaxTxns
    /\ GoTo(t, "readLast")
    /\ now' = [now EXCEPT ![t] = clock]
    /\ UNCHANGED <<clock, bucket, last, toAdd, current, batches, stripe, database, outside>>

TokensToAdd(elapsed) == (elapsed * Rate) \div Unit

\* A refill that is not due goes straight on to taking the token.
ReadLastRefill(t) ==
    LET due == TokensToAdd(now[t] - lastRefill) IN
    /\ pc[t] = "readLast"
    /\ IF now[t] > lastRefill /\ due > 0
       THEN /\ GoTo(t, "casLast")
            /\ last' = [last EXCEPT ![t] = lastRefill]
            /\ toAdd' = [toAdd EXCEPT ![t] = due]
       ELSE GoTo(t, "readForTake") /\ UNCHANGED <<last, toAdd>>
    /\ UNCHANGED <<clock, bucket, now, current, batches, stripe, database, outside>>

\* Mutant: set instead of compareAndSet.
SetLastRefill(t) ==
    /\ From(t, "casLast", "readForAdd")
    /\ lastRefill' = now[t]
    /\ UNCHANGED <<clock, availableTokens, locals, batches, stripe, database, outside>>

\* Only the thread whose compare-and-set moves lastRefill adds the tokens.
CasLastRefill(t) ==
    /\ pc[t] = "casLast"
    /\ IF lastRefill = last[t]
       THEN GoTo(t, "readForAdd") /\ lastRefill' = now[t]
       ELSE GoTo(t, "readForTake") /\ UNCHANGED lastRefill
    /\ UNCHANGED <<clock, availableTokens, locals, batches, stripe, database, outside>>

ReadTokens(t, label, next) ==
    /\ From(t, label, next)
    /\ current' = [current EXCEPT ![t] = availableTokens]
    /\ UNCHANGED <<clock, bucket, now, last, toAdd, batches, stripe, database, outside>>

ReadForAdd(t) == ReadTokens(t, "readForAdd", "casAdd")

\* Mutant: the capacity is forgotten.
CasAddUncapped(t) ==
    /\ pc[t] = "casAdd"
    /\ IF availableTokens = current[t]
       THEN GoTo(t, "readForTake") /\ availableTokens' = current[t] + toAdd[t]
       ELSE GoTo(t, "readForAdd") /\ UNCHANGED availableTokens
    /\ UNCHANGED <<clock, lastRefill, locals, batches, stripe, database, outside>>

CasAdd(t) ==
    /\ pc[t] = "casAdd"
    /\ IF availableTokens = current[t]
       THEN /\ GoTo(t, "readForTake")
            /\ availableTokens' = Min({Capacity, current[t] + toAdd[t]})
       ELSE GoTo(t, "readForAdd") /\ UNCHANGED availableTokens
    /\ UNCHANGED <<clock, lastRefill, locals, batches, stripe, database, outside>>

\* Too few tokens: the request is answered 429.
ReadForTake(t) ==
    IF availableTokens = 0
    THEN /\ From(t, "readForTake", "idle")
         /\ UNCHANGED <<clock, bucket, locals, batches, stripe, database, outside>>
    ELSE ReadTokens(t, "readForTake", "casTake")

\* A lost race starts tryConsume over, the refill included.
CasTake(t) ==
    /\ pc[t] = "casTake"
    /\ IF availableTokens = current[t]
       THEN /\ GoTo(t, "lock")
            /\ availableTokens' = current[t] - 1
            /\ UNCHANGED now
       ELSE /\ GoTo(t, "readLast")
            /\ now' = [now EXCEPT ![t] = clock]
            /\ UNCHANGED availableTokens
    /\ UNCHANGED <<clock, lastRefill, last, toAdd, current, batches, stripe, database, outside>>
-----------------------------------------------------------------------------
(* TransactionProcessingService.processTransaction *)

\* Mutant: the stripe is not waited for.
EnterAnyway(t) ==
    /\ From(t, "lock", "persist")
    /\ stripe' = t
    /\ UNCHANGED <<clock, bucket, locals, batches, database, outside>>

\* TenantConcurrencyStripingManager.executeInTenantStripe
EnterStripe(t) ==
    /\ stripe = None
    /\ From(t, "lock", "persist")
    /\ stripe' = t
    /\ UNCHANGED <<clock, bucket, locals, batches, database, outside>>

\* persistTransaction: called on this, so @Transactional does not apply and
\* save commits by itself.  current now holds the row's id.
PersistTransaction(t) ==
    /\ Len(txns) < MaxTxns
    /\ From(t, "persist", "append")
    /\ txns' = Append(txns, Len(txns) + 1)
    /\ current' = [current EXCEPT ![t] = Len(txns) + 1]
    /\ UNCHANGED <<clock, bucket, now, last, toAdd, batches, stripe, outbox, processed, outside>>

\* Mutant: the event is not stored.
AnswerOnly(t) ==
    /\ From(t, "append", "idle")
    /\ answered' = answered \cup {current[t]}
    /\ stripe' = None
    /\ UNCHANGED <<clock, bucket, locals, batches, database, sent, swallowed>>

\* appendOutboxEvent: a database transaction of its own
AppendOutboxEvent(t) ==
    /\ From(t, "append", "idle")
    /\ outbox' = Append(outbox, current[t])
    /\ answered' = answered \cup {current[t]}
    /\ stripe' = None
    /\ UNCHANGED <<clock, bucket, locals, batches, txns, processed, sent, swallowed>>

\* A save that raises, or no row left to record in this model: the request
\* fails, the stripe is unlocked, a transaction row that exists stays.
Fail(t) ==
    /\ pc[t] \in {"persist", "append"}
    /\ GoTo(t, "idle")
    /\ stripe' = None
    /\ UNCHANGED <<clock, bucket, locals, batches, database, outside>>
-----------------------------------------------------------------------------
(* TransactionalOutboxService.processPendingEvents *)

\* findPendingEvents: positions of the oldest unprocessed rows, at most BatchSize
Pending ==
    LET waiting == {i \in 1..Len(outbox) : outbox[i] \notin processed}
    IN  {i \in waiting : Cardinality({j \in waiting : j < i}) < BatchSize}

FindPendingEvents(t) ==
    /\ pc[t] = "idle"
    /\ Pending # {}
    /\ GoTo(t, "publish")
    /\ batch' = [batch EXCEPT ![t] = Pending]
    /\ marked' = [marked EXCEPT ![t] = {}]
    /\ UNCHANGED <<clock, bucket, locals, stripe, database, outside>>

\* Mutant: an event is marked before it is published.
MarkUnsent(t, taken) ==
    /\ pc[t] = "publish"
    /\ batch[t] # {}
    /\ processed' = processed \cup {outbox[Min(batch[t])]}
    /\ batch' = [batch EXCEPT ![t] = @ \ {Min(batch[t])}]
    /\ UNCHANGED <<clock, bucket, pc, locals, marked, stripe, txns, outbox, outside>>

\* The oldest event of the batch goes to the producer, whose publish returns
\* true whether or not the broker took the message.
PublishEvent(t, taken) ==
    LET e == outbox[Min(batch[t])] IN
    /\ pc[t] = "publish"
    /\ batch[t] # {}
    /\ IF taken THEN sent' = sent \cup {e} /\ UNCHANGED swallowed
       ELSE swallowed' = swallowed \cup {e} /\ UNCHANGED sent
    /\ marked' = [marked EXCEPT ![t] = @ \cup {e}]
    /\ batch' = [batch EXCEPT ![t] = @ \ {Min(batch[t])}]
    /\ UNCHANGED <<clock, bucket, pc, locals, stripe, database, answered>>

EndBatch(t) ==
    /\ From(t, "publish", "idle")
    /\ batch' = [batch EXCEPT ![t] = {}]
    /\ marked' = [marked EXCEPT ![t] = {}]
    /\ UNCHANGED <<clock, bucket, locals, stripe, txns, outbox, outside>>

\* At the end of the batch, or where building a message raised, what is marked
\* commits.
CommitProcessed(t) ==
    /\ processed' = processed \cup marked[t]
    /\ EndBatch(t)

\* A save that raised leaves the transaction rollback-only, or the commit
\* fails: every mark of the batch is undone, every message is out.
RollBackBatch(t) ==
    /\ UNCHANGED processed
    /\ EndBatch(t)
-----------------------------------------------------------------------------
\* The process dies and another one starts.
Crash ==
    /\ availableTokens' = Capacity
    /\ lastRefill' = clock
    /\ pc' = [t \in Threads |-> "idle"]
    /\ now' = Zero /\ last' = Zero /\ toAdd' = Zero /\ current' = Zero
    /\ batch' = [t \in Threads |-> {}] /\ marked' = [t \in Threads |-> {}]
    /\ stripe' = None
    /\ UNCHANGED <<clock, database, outside>>

Step(t) ==
    \/ TryConsume(t) \/ ReadLastRefill(t) \/ CasLastRefill(t) \/ ReadForAdd(t) \/ CasAdd(t)
    \/ ReadForTake(t) \/ CasTake(t)
    \/ EnterStripe(t) \/ PersistTransaction(t) \/ AppendOutboxEvent(t) \/ Fail(t)
    \/ FindPendingEvents(t) \/ CommitProcessed(t) \/ RollBackBatch(t)
    \/ \E taken \in BOOLEAN : PublishEvent(t, taken)

Next == Tick \/ Crash \/ \E t \in Threads : Step(t)

Spec == Init /\ [][Next]_vars
-----------------------------------------------------------------------------
(* Properties *)

\* The ticks thread t has claimed by moving lastRefill and has still to add.
Claim(t) == IF pc[t] \in {"readForAdd", "casAdd"} THEN (last[t] + 1)..now[t] ELSE {}

\* Ticks not yet turned into tokens: those claimed, and those since the last
\* refill.
Unpaid == ((lastRefill + 1)..clock) \cup UNION {Claim(t) : t \in Threads}

Budget == INSTANCE TokenBudget WITH tokens <- availableTokens, time <- clock, unpaid <- Unpaid

\* The limiter implements a token budget: however its compare-and-set loops
\* interleave, no permit is granted twice and no tick is paid out twice, and
\* nothing but the start of a new process fills the bucket for free.
LimiterKeepsBudget ==
    /\ Budget!Spec
    /\ [][Crash \/ Budget!Serve \/ UNCHANGED Budget!vars]_vars

\* Events of one tenant enter the outbox in the order its transactions were
\* committed (the stripe is held from before the one to after the other).
OutboxFollowsCommits ==
    \A i, j \in 1..Len(outbox) : i < j => outbox[i] < outbox[j]

\* An event is marked processed only when it was published, or when publish
\* hid a broker's failure: a crash, a batch cut short and processors working on
\* the same events repeat publications and lose none.
ProcessedWasPublished == processed \subseteq sent \cup swallowed

\* A request answered with success has its event in the outbox, and an event
\* belongs to a committed transaction.
AnsweredHasEvent ==
    /\ answered \subseteq {outbox[i] : i \in 1..Len(outbox)}
    /\ \A i \in 1..Len(outbox) : \E j \in 1..Len(txns) : txns[j] = outbox[i]
=============================================================================
