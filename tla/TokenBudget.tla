----------------------------- MODULE TokenBudget -----------------------------
(***************************************************************************)
(* What a token bucket promises, whatever its implementation: it hands out *)
(* tokens it has, holds at most Capacity of them, and makes new ones from  *)
(* time that passed, every tick at most once.  Rounding may lose tokens.   *)
(***************************************************************************)
EXTENDS Integers, FiniteSets

CONSTANTS
    Capacity,   \* tokens of a full bucket
    Rate, Unit  \* Rate tokens are due every Unit ticks

VARIABLES
    tokens,
    time,       \* ticks so far: 1..time
    unpaid      \* ticks not yet turned into tokens

vars == <<tokens, time, unpaid>>

Init == tokens = Capacity /\ time = 0 /\ unpaid = {}

Elapse ==
    /\ time' = time + 1
    /\ unpaid' = unpaid \cup {time + 1}
    /\ UNCHANGED tokens

Grant(n) ==
    /\ n <= tokens
    /\ tokens' = tokens - n
    /\ UNCHANGED <<time, unpaid>>

\* The tokens due for a number of ticks.
Due(n) == (n * Rate) \div Unit

\* Ticks are turned into at most the tokens due for them.
Pay(ticks) ==
    /\ ticks \subseteq unpaid
    /\ unpaid' = unpaid \ ticks
    /\ tokens' \in tokens .. Capacity
    /\ tokens' <= tokens + Due(Cardinality(ticks))
    /\ UNCHANGED time

\* A new process starts with a full bucket.
Restart == tokens' = Capacity /\ unpaid' = {} /\ UNCHANGED time

Serve ==
    \/ Elapse
    \/ Grant(1)
    \/ \E ticks \in SUBSET unpaid : Pay(ticks)

Next == Serve \/ Restart

Spec == Init /\ [][Next]_vars
=============================================================================
