---------------------------- MODULE RateLimiter -----------------------------
(***************************************************************************)
(* The per-client token bucket of internal/transport/ratelimit.go that     *)
(* guards the writes of the HTTP gateway.                                  *)
(*                                                                         *)
(* Time advances in ticks.  The code's fractional tokens are whole parts   *)
(* here: a write costs Cost parts and Rate parts flow in per tick, so that *)
(* any rational -write-rate can be expressed; float64 rounding is not      *)
(* modelled.                                                               *)
(***************************************************************************)
EXTENDS Integers, Sequences, FiniteSets, FiniteSetsExt

CONSTANTS Client,   \* what clientIP tells apart
          Rate,     \* parts per tick
          Cost,     \* parts per write
          Burst,    \* -write-burst, 0 for the default
          Second,   \* ticks per second
          Sweep,    \* ticks between two sweeps (a minute)
          MaxTime   \* bound: the last tick

VARIABLES now,        \* the clock, which never goes back
          buckets,    \* the bucket of each client that has one
          lastSweep,
          granted,    \* history: when each client was allowed a write
          refusedAt   \* history: when its last attempt was refused, -1 if it was not

vars == <<now, buckets, lastSweep, granted, refusedAt>>

\* newRateLimiter: a burst of 0 stands for the rate per second, rounded up.
BurstParts ==
    Cost * (IF Burst > 0 THEN Burst ELSE (Rate * Second + Cost - 1) \div Cost)

\* Validate: the server does not start unless a bucket refills within a day.
Validate == Rate > 0 /\ Burst >= 0 /\ BurstParts <= Rate * 86400 * Second

ASSUME LimiterAssumption ==
    /\ IsFiniteSet(Client)
    /\ {Rate, Cost, Second, Sweep} \subseteq Nat \ {0} /\ {Burst, MaxTime} \subseteq Nat
    /\ Validate

RefillTime == BurstParts \div Rate

Init == /\ now = 0
        /\ buckets = [c \in {} |-> [tokens |-> 0, last |-> 0]]
        /\ lastSweep = 0
        /\ granted = [c \in Client |-> <<>>]
        /\ refusedAt = [c \in Client |-> -1]

-----------------------------------------------------------------------------
\* Mutant: every bucket goes, whether it has refilled or not.
SweepLockedAll(bs) ==
    IF now - lastSweep < Sweep THEN bs ELSE [c \in {} |-> [tokens |-> 0, last |-> 0]]

\* sweepLocked: once a minute the buckets that have had the time to refill go.
SweepLocked(bs) ==
    IF now - lastSweep < Sweep THEN bs
    ELSE [c \in {d \in DOMAIN bs : now - bs[d].last <= RefillTime} |-> bs[c]]

\* Mutant: tokens pile up without end.
RefilledUncapped(bs, c) ==
    IF c \in DOMAIN bs THEN bs[c].tokens + (now - bs[c].last) * Rate ELSE BurstParts

\* What the bucket of c holds now; a client without one gets a full one.
Refilled(bs, c) ==
    IF c \in DOMAIN bs THEN Min({BurstParts, bs[c].tokens + (now - bs[c].last) * Rate})
    ELSE BurstParts

\* Mutant: a refused write is charged for too.
AllowCharges(c) ==
    LET swept == SweepLocked(buckets)
        tokens == Refilled(swept, c)
        left == tokens - Cost
    IN  /\ buckets' = [d \in DOMAIN swept \cup {c} |->
                          IF d = c THEN [tokens |-> left, last |-> now] ELSE swept[d]]
        /\ lastSweep' = IF now - lastSweep < Sweep THEN lastSweep ELSE now
        /\ granted' = IF tokens < Cost THEN granted ELSE [granted EXCEPT ![c] = Append(@, now)]
        /\ refusedAt' = [refusedAt EXCEPT ![c] = IF tokens < Cost THEN now ELSE -1]
        /\ UNCHANGED now

\* allow: one write of client c is allowed or refused.
Allow(c) ==
    LET swept == SweepLocked(buckets)
        tokens == Refilled(swept, c)
        left == IF tokens < Cost THEN tokens ELSE tokens - Cost
    IN  /\ buckets' = [d \in DOMAIN swept \cup {c} |->
                          IF d = c THEN [tokens |-> left, last |-> now] ELSE swept[d]]
        /\ lastSweep' = IF now - lastSweep < Sweep THEN lastSweep ELSE now
        /\ granted' = IF tokens < Cost THEN granted ELSE [granted EXCEPT ![c] = Append(@, now)]
        /\ refusedAt' = [refusedAt EXCEPT ![c] = IF tokens < Cost THEN now ELSE -1]
        /\ UNCHANGED now

Tick == /\ now < MaxTime
        /\ now' = now + 1
        /\ UNCHANGED <<buckets, lastSweep, granted, refusedAt>>

Next == Tick \/ \E c \in Client : Allow(c)

Spec == Init /\ [][Next]_vars

-----------------------------------------------------------------------------
(* Properties.                                                               *)

\* README, -write-rate and -write-burst: between any two of a client's writes
\* no more were allowed than a full bucket and what flowed in meanwhile,
\* whatever was swept in between.
WindowBound ==
    \A c \in Client : \A j \in 1..Len(granted[c]) : \A i \in 1..j :
        (j - i + 1) * Cost <= BurstParts + Rate * (granted[c][j] - granted[c][i])

\* The least that is left of a full bucket after each of the client's last
\* writes: what a limiter that never forgot anything would have.
Available(c) ==
    LET n == Len(granted[c])
    IN  Min({BurstParts} \cup {BurstParts - Cost * (n - i + 1) + Rate * (now - granted[c][i]) : i \in 1..n})

\* sweepLocked, "a fresh bucket would be identical", and allow: at every moment
\* each client has exactly the tokens that its allowed writes leave it.
\* Neither sweeping nor a refusal gives or takes any.
LimiterExact == \A c \in Client : Refilled(SweepLocked(buckets), c) = Available(c)

\* enforceWriteLimits answers a refused write with "Retry-After: 1": a client
\* that does nothing for a second after it was refused is not refused again.
RetryAfterHonoured ==
    [][\A c \in Client :
          refusedAt[c] >= 0 /\ refusedAt'[c] > refusedAt[c]
          => refusedAt'[c] - refusedAt[c] < Second]_vars
=============================================================================
