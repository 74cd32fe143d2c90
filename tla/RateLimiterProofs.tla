-------------------------- MODULE RateLimiterProofs --------------------------
(***************************************************************************)
(* The token bucket keeps its bounds for any number of clients, any rate   *)
(* and any burst that Validate lets through, whatever is swept and when.   *)
(***************************************************************************)
EXTENDS RateLimiter, TLAPS

-----------------------------------------------------------------------------
(* The inductive invariant.                                                  *)

\* What k writes since time t leave of a full bucket at time u.
Rest(k, t, u) == BurstParts - Cost * k + Rate * (u - t)

\* What the last writes of c, from the i-th on, leave.
Drain(c, i) == Rest(Len(granted[c]) - i + 1, granted[c][i], now)

\* The tokens of c now.
Level(c) == Refilled(buckets, c)

\* They are the least that is left.
Exact(c) ==
    /\ Level(c) \in 0..BurstParts
    /\ \A i \in 1..Len(granted[c]) : Level(c) <= Drain(c, i)
    /\ Level(c) = BurstParts \/ \E i \in 1..Len(granted[c]) : Level(c) = Drain(c, i)

LimiterType ==
    /\ now \in Nat
    /\ DOMAIN buckets \subseteq Client
    /\ \A c \in DOMAIN buckets : buckets[c].tokens \in 0..BurstParts /\ buckets[c].last \in 0..now
    /\ granted \in [Client -> Seq(Nat)]
    /\ \A c \in Client : \A i \in 1..Len(granted[c]) : granted[c][i] <= now
    /\ refusedAt \in [Client -> Int] /\ \A c \in Client : refusedAt[c] <= now

\* A client that was refused last has the bucket of that moment, if it has one.
RefusalRemembered ==
    \A c \in DOMAIN buckets : refusedAt[c] >= 0 => buckets[c].last = refusedAt[c]

LimiterInv ==
    /\ LimiterType
    /\ \A c \in Client : Exact(c)
    /\ WindowBound
    /\ RefusalRemembered

-----------------------------------------------------------------------------
(* Arithmetic.                                                               *)

LEMMA MinOfTwo ==
    ASSUME NEW a \in Int, NEW b \in Int
    PROVE  Min({a, b}) = IF a <= b THEN a ELSE b
  <1>. DEFINE v == IF a <= b THEN a ELSE b
  <1>1. v \in {a, b} /\ \A y \in {a, b} : v <= y
    OBVIOUS
  <1>2. \A x \in {a, b} : (\A y \in {a, b} : x <= y) => x = v
    OBVIOUS
  <1>. HIDE DEF v
  <1>3. (CHOOSE x \in {a, b} : \A y \in {a, b} : x <= y) = v
    BY <1>1, <1>2
  <1>. QED BY <1>3 DEF Min, v

\* Division as multiplication.
LEMMA Quotient ==
    ASSUME NEW a \in Nat, NEW b \in Nat \ {0}
    PROVE  /\ a \div b \in Nat
           /\ \A d \in Nat : d > a \div b => a <= d * b
           /\ a >= b => a \div b >= 1
  <1>. DEFINE q == a \div b
              r == a % b
  <1>1. q \in Int /\ r \in 0..(b - 1) /\ a = b * q + r
    OBVIOUS
  <1>. HIDE DEF q, r
  <1>2. q \in Nat
    <2>. SUFFICES ASSUME q <= -1 PROVE FALSE
      BY <1>1
    <2>1. b * q <= b * (-1)
      BY <1>1
    <2>. QED BY <1>1, <2>1
  <1>3. ASSUME NEW d \in Nat, d > q PROVE a <= d * b
    <2>1. (q + 1) * b <= d * b
      BY <1>2, <1>3
    <2>2. (q + 1) * b = b * q + b
      BY <1>2
    <2>. QED BY <1>1, <1>2, <2>1, <2>2
  <1>4. a >= b => q >= 1
    <2>. SUFFICES ASSUME a >= b, q = 0 PROVE FALSE
      BY <1>2
    <2>1. b * q = 0
      OBVIOUS
    <2>. QED BY <1>1, <2>1
  <1>. QED BY <1>2, <1>3, <1>4 DEF q

\* A full bucket is worth a write.
LEMMA BurstIsWorthAWrite ==
    /\ Rate \in Nat /\ Rate > 0 /\ Cost \in Nat /\ Cost > 0 /\ Second \in Nat /\ Second > 0
    /\ BurstParts \in Nat /\ Cost <= BurstParts
  <1>1. /\ Rate \in Nat /\ Rate > 0 /\ Cost \in Nat /\ Cost > 0 /\ Second \in Nat /\ Second > 0
        /\ Burst \in Nat
    BY LimiterAssumption
  <1>2. Rate * Second \in Nat /\ Rate * Second >= 1
    BY <1>1
  <1>. DEFINE s == Rate * Second + Cost - 1
              k == IF Burst > 0 THEN Burst ELSE s \div Cost
  <1>3. s \in Nat /\ s >= Cost
    BY <1>1, <1>2
  <1>. HIDE DEF s
  <1>4. k \in Nat /\ k >= 1
    BY <1>1, <1>3, Quotient
  <1>5. BurstParts = Cost * k
    BY DEF BurstParts, s
  <1>. HIDE DEF k
  <1>6. Cost * k >= Cost /\ Cost * k \in Nat
    BY <1>1, <1>4
  <1>. QED BY <1>1, <1>5, <1>6

-----------------------------------------------------------------------------
(* What a bucket holds.                                                      *)

\* What flowed into a bucket that held x parts at time t, by time u.
Filled(x, t, u) == IF BurstParts <= x + (u - t) * Rate THEN BurstParts ELSE x + (u - t) * Rate

LEMMA FilledValue ==
    ASSUME NEW u \in Nat, NEW t \in 0..u, NEW x \in 0..BurstParts
    PROVE  Min({BurstParts, x + (u - t) * Rate}) = Filled(x, t, u)
  <1>. DEFINE y == x + (u - t) * Rate
  <1>1. y \in Int /\ BurstParts \in Int
    BY BurstIsWorthAWrite
  <1>2. Filled(x, t, u) = IF BurstParts <= y THEN BurstParts ELSE y
    BY DEF Filled
  <1>. HIDE DEF y
  <1>3. Min({BurstParts, y}) = IF BurstParts <= y THEN BurstParts ELSE y
    BY <1>1, MinOfTwo
  <1>. QED BY <1>2, <1>3 DEF y

LEMMA FilledFlows ==
    ASSUME NEW u \in Nat, NEW t \in 0..u, NEW x \in 0..BurstParts
    PROVE  Filled(x, t, u + 1) = IF BurstParts <= Filled(x, t, u) + Rate THEN BurstParts
                                 ELSE Filled(x, t, u) + Rate
  <1>. DEFINE f == (u - t) * Rate
  <1>1. ((u + 1) - t) * Rate = f + Rate /\ f \in Nat /\ BurstParts \in Nat /\ Rate \in Nat
    BY BurstIsWorthAWrite
  <1>2. Filled(x, t, u) = IF BurstParts <= x + f THEN BurstParts ELSE x + f
    BY DEF Filled
  <1>3. Filled(x, t, u + 1) = IF BurstParts <= x + (f + Rate) THEN BurstParts ELSE x + (f + Rate)
    BY <1>1 DEF Filled
  <1>. HIDE DEF f
  <1>. QED BY <1>1, <1>2, <1>3

LEMMA RefilledValue ==
    ASSUME NEW bs, NEW c \in DOMAIN bs, now \in Nat,
           bs[c].tokens \in 0..BurstParts, bs[c].last \in 0..now
    PROVE  Refilled(bs, c) = Filled(bs[c].tokens, bs[c].last, now)
  BY FilledValue DEF Refilled

\* Nobody's tokens change when buckets are swept: those that go are full.
LEMMA SweepKeeps ==
    ASSUME LimiterType
    PROVE  /\ DOMAIN SweepLocked(buckets) \subseteq DOMAIN buckets
           /\ \A d \in DOMAIN SweepLocked(buckets) : SweepLocked(buckets)[d] = buckets[d]
           /\ \A c \in Client : Refilled(SweepLocked(buckets), c) = Refilled(buckets, c)
           /\ \A c \in DOMAIN buckets \ DOMAIN SweepLocked(buckets) : Level(c) = BurstParts
  <1>. DEFINE swept == SweepLocked(buckets)
  <1>1. DOMAIN swept \subseteq DOMAIN buckets /\ \A d \in DOMAIN swept : swept[d] = buckets[d]
    BY DEF SweepLocked
  <1>2. \A d \in DOMAIN buckets \ DOMAIN swept : now - buckets[d].last > RefillTime
    <2>1. RefillTime \in Nat
      BY Quotient, BurstIsWorthAWrite DEF RefillTime
    <2>2. \A d \in DOMAIN buckets : now - buckets[d].last \in Int
      BY DEF LimiterType
    <2>. QED BY <2>1, <2>2 DEF SweepLocked
  <1>. HIDE DEF swept
  <1>3. ASSUME NEW c \in DOMAIN buckets, c \notin DOMAIN swept
        PROVE  Refilled(buckets, c) = BurstParts
    <2>. DEFINE d == now - buckets[c].last
    <2>1. /\ now \in Nat /\ buckets[c].last \in 0..now /\ buckets[c].tokens \in 0..BurstParts
      BY DEF LimiterType
    <2>2. d \in Nat /\ d > BurstParts \div Rate
      BY <1>2, <1>3, <2>1 DEF RefillTime
    <2>. HIDE DEF d
    <2>3. BurstParts <= d * Rate /\ d * Rate \in Nat /\ BurstParts \in Nat
      BY <2>2, Quotient, BurstIsWorthAWrite
    <2>4. Filled(buckets[c].tokens, buckets[c].last, now) = BurstParts
      BY <2>1, <2>3 DEF Filled, d
    <2>. QED BY <2>1, <2>4, RefilledValue
  <1>4. ASSUME NEW c \in Client PROVE Refilled(swept, c) = Refilled(buckets, c)
    <2>1. CASE c \in DOMAIN swept
      BY <1>1, <2>1 DEF Refilled
    <2>2. CASE c \notin DOMAIN swept
      BY <1>3, <2>2 DEF Refilled
    <2>. QED BY <2>1, <2>2
  <1>. QED BY <1>1, <1>3, <1>4 DEF swept, Level

LEMMA LevelIsANumber ==
    ASSUME LimiterType, NEW c \in Client
    PROVE  Level(c) \in 0..BurstParts
  <1>1. CASE c \in DOMAIN buckets
    <2>. DEFINE f == (now - buckets[c].last) * Rate
    <2>1. now \in Nat /\ buckets[c].last \in 0..now /\ buckets[c].tokens \in 0..BurstParts
      BY <1>1 DEF LimiterType
    <2>2. f \in Nat /\ BurstParts \in Nat
      BY <2>1, BurstIsWorthAWrite
    <2>3. Filled(buckets[c].tokens, buckets[c].last, now) \in 0..BurstParts
      BY <2>1, <2>2 DEF Filled
    <2>. QED BY <1>1, <2>1, <2>3, RefilledValue DEF Level
  <1>2. CASE c \notin DOMAIN buckets
    BY <1>2, BurstIsWorthAWrite DEF Level, Refilled
  <1>. QED BY <1>1, <1>2

-----------------------------------------------------------------------------
(* The steps.                                                                *)

LEMMA RestFlows ==
    ASSUME NEW k \in Int, NEW t \in Int, NEW u \in Int
    PROVE  /\ Rest(k, t, u) \in Int
           /\ Rest(k, t, u + 1) = Rest(k, t, u) + Rate
           /\ Rest(k + 1, t, u) = Rest(k, t, u) - Cost
           /\ Rest(1, t, t) = BurstParts - Cost
  <1>1. Rate \in Int /\ Cost \in Int /\ BurstParts \in Int
    BY BurstIsWorthAWrite
  <1>2. Rate * ((u + 1) - t) = Rate * (u - t) + Rate /\ Rate * (u - t) \in Int /\ Rate * (t - t) = 0
    BY <1>1
  <1>3. Cost * (k + 1) = Cost * k + Cost /\ Cost * k \in Int /\ Cost * 1 = Cost
    BY <1>1
  <1>. QED BY <1>1, <1>2, <1>3 DEF Rest

LEMMA DrainIsANumber ==
    ASSUME LimiterType, NEW c \in Client, NEW i \in 1..Len(granted[c])
    PROVE  Drain(c, i) \in Int
  <1>1. /\ now \in Int /\ granted[c][i] \in Int /\ Len(granted[c]) \in Int /\ i \in Int
    BY DEF LimiterType
  <1>. DEFINE k == Len(granted[c]) - i + 1
  <1>2. k \in Int
    BY <1>1
  <1>3. Drain(c, i) = Rest(k, granted[c][i], now)
    BY DEF Drain
  <1>. HIDE DEF k
  <1>4. Rest(k, granted[c][i], now) \in Int
    BY <1>1, <1>2, RestFlows
  <1>. QED BY <1>3, <1>4

LEMMA TickKeeps ==
    ASSUME LimiterInv, Tick
    PROVE  LimiterInv'
  <1>1. /\ LimiterType /\ now' = now + 1 /\ now \in Nat
        /\ buckets' = buckets /\ granted' = granted /\ refusedAt' = refusedAt
    BY DEF LimiterInv, LimiterType, Tick
  <1>2. LimiterType'
    <2>1. \A c \in Client : Len(granted[c]) \in Nat /\ \A i \in 1..Len(granted[c]) : granted[c][i] \in Nat
      BY <1>1 DEF LimiterType
    <2>. QED BY <1>1, <2>1 DEF LimiterType
  <1>3. WindowBound' /\ RefusalRemembered'
    BY <1>1 DEF LimiterInv, WindowBound, RefusalRemembered
  <1>4. ASSUME NEW c \in Client PROVE Exact(c)'
    <2>1. Level(c)' = IF BurstParts <= Level(c) + Rate THEN BurstParts ELSE Level(c) + Rate
      <3>1. CASE c \in DOMAIN buckets
        <4>. DEFINE x == buckets[c].tokens
                    t == buckets[c].last
        <4>1. x \in Nat /\ t \in 0..now /\ BurstParts \in Nat /\ Rate \in Nat
          BY <1>1, <3>1, BurstIsWorthAWrite DEF LimiterType
        <4>2. x \in 0..BurstParts /\ t \in 0..now /\ t \in 0..(now + 1) /\ now + 1 \in Nat
          BY <1>1, <3>1 DEF LimiterType
        <4>3. Level(c) = Filled(x, t, now)
          BY <1>1, <3>1, RefilledValue DEF LimiterType, Level
        <4>4. Level(c)' = Min({BurstParts, x + ((now + 1) - t) * Rate})
          BY <1>1, <3>1 DEF Level, Refilled
        <4>. HIDE DEF x, t
        <4>5. Level(c)' = Filled(x, t, now + 1)
          BY <4>2, <4>4, FilledValue
        <4>. QED BY <1>1, <4>2, <4>3, <4>5, FilledFlows
      <3>2. CASE c \notin DOMAIN buckets
        BY <1>1, <3>2, BurstIsWorthAWrite DEF Level, Refilled
      <3>. QED BY <3>1, <3>2
    <2>2. ASSUME NEW i \in 1..Len(granted[c]) PROVE Drain(c, i)' = Drain(c, i) + Rate
      <3>1. granted[c][i] \in Nat /\ Len(granted[c]) \in Nat /\ Rate \in Nat /\ Cost \in Nat /\ BurstParts \in Nat
        BY <1>1, BurstIsWorthAWrite DEF LimiterType
      <3>. DEFINE k == Len(granted[c]) - i + 1
      <3>2. Drain(c, i) = Rest(k, granted[c][i], now) /\ Drain(c, i)' = Rest(k, granted[c][i], now + 1)
        BY <1>1 DEF Drain
      <3>3. k \in Int
        BY <3>1
      <3>. HIDE DEF k
      <3>4. now \in Int /\ granted[c][i] \in Int
        BY <1>1, <3>1
      <3>5. Rest(k, granted[c][i], now + 1) = Rest(k, granted[c][i], now) + Rate
        BY <3>3, <3>4, RestFlows
      <3>. QED BY <3>2, <3>5
    <2>3. Exact(c) /\ BurstParts \in Nat /\ Rate \in Nat
      BY BurstIsWorthAWrite DEF LimiterInv
    <2>4. \A i \in 1..Len(granted[c]) : Drain(c, i) \in Int
      BY <1>1, DrainIsANumber
    <2>. QED BY <1>1, <2>1, <2>2, <2>3, <2>4 DEF Exact
  <1>. QED BY <1>2, <1>3, <1>4 DEF LimiterInv

LEMMA FilledNow ==
    ASSUME NEW u \in Nat, NEW x \in 0..BurstParts
    PROVE  Filled(x, u, u) = x
  <1>1. (u - u) * Rate = 0 /\ BurstParts \in Nat
    BY BurstIsWorthAWrite
  <1>. QED BY <1>1 DEF Filled

LEMMA RestWindow ==
    ASSUME NEW k \in Int, NEW t \in Int, NEW u \in Int, 0 <= Rest(k, t, u)
    PROVE  k * Cost <= BurstParts + Rate * (u - t)
  <1>1. Rate \in Int /\ Cost \in Int /\ BurstParts \in Int
    BY BurstIsWorthAWrite
  <1>2. k * Cost = Cost * k /\ Cost * k \in Int /\ Rate * (u - t) \in Int
    BY <1>1
  <1>. QED BY <1>1, <1>2 DEF Rest

\* What Allow does to the buckets.
LEMMA AllowLevels ==
    ASSUME LimiterType, NEW c \in Client, Allow(c)
    PROVE  LET left == IF Level(c) < Cost THEN Level(c) ELSE Level(c) - Cost
           IN  /\ DOMAIN buckets' \subseteq DOMAIN buckets \cup {c} /\ c \in DOMAIN buckets'
               /\ buckets'[c] = [tokens |-> left, last |-> now]
               /\ \A d \in DOMAIN buckets' \ {c} : buckets'[d] = buckets[d]
               /\ \A d \in Client \ {c} : Level(d)' = Level(d)
               /\ Level(c)' = left /\ left \in 0..BurstParts
  <1>. DEFINE swept == SweepLocked(buckets)
              left == IF Level(c) < Cost THEN Level(c) ELSE Level(c) - Cost
  <1>1. /\ buckets' = [d \in DOMAIN swept \cup {c} |->
                          IF d = c THEN [tokens |-> left, last |-> now] ELSE swept[d]]
        /\ now' = now
    BY SweepKeeps, Zenon DEF Allow, Level
  <1>2. now \in Nat /\ Level(c) \in 0..BurstParts /\ BurstParts \in Nat /\ Cost \in Nat
    BY LevelIsANumber, BurstIsWorthAWrite DEF LimiterType
  <1>3. left \in 0..BurstParts
    BY <1>2
  <1>4. /\ DOMAIN swept \subseteq DOMAIN buckets
        /\ \A d \in DOMAIN swept : swept[d] = buckets[d]
        /\ \A d \in Client : Refilled(swept, d) = Level(d)
    BY SweepKeeps DEF Level
  <1>. HIDE DEF swept, left
  <1>5. DOMAIN buckets' = DOMAIN swept \cup {c} /\ buckets'[c] = [tokens |-> left, last |-> now]
        /\ \A d \in DOMAIN swept \ {c} : buckets'[d] = swept[d]
    BY <1>1
  <1>6. ASSUME NEW d \in Client \ {c} PROVE Level(d)' = Level(d)
    <2>1. Level(d)' = Refilled(swept, d)
      BY <1>1, <1>5 DEF Level, Refilled
    <2>. QED BY <1>4, <2>1
  <1>7. Level(c)' = left
    <2>1. Level(c)' = Min({BurstParts, left + (now - now) * Rate})
      BY <1>1, <1>5 DEF Level, Refilled
    <2>. QED BY <1>2, <1>3, <2>1, FilledValue, FilledNow
  <1>. QED BY <1>3, <1>4, <1>5, <1>6, <1>7 DEF left

\* One write more.
LEMMA GrantDrains ==
    ASSUME LimiterType, NEW c \in Client, now' = now, granted' = [granted EXCEPT ![c] = Append(@, now)]
    PROVE  /\ granted' \in [Client -> Seq(Nat)]
           /\ \A d \in Client \ {c} : granted'[d] = granted[d]
           /\ Len(granted[c]) \in Nat /\ Len(granted'[c]) = Len(granted[c]) + 1
           /\ \A i \in 1..Len(granted[c]) : granted'[c][i] = granted[c][i]
           /\ granted'[c][Len(granted[c]) + 1] = now
           /\ \A i \in 1..Len(granted[c]) : Drain(c, i)' = Drain(c, i) - Cost
           /\ \A i : i = Len(granted[c]) + 1 => Drain(c, i)' = BurstParts - Cost
           /\ \A i : Drain(c, i)' = Rest((Len(granted[c]) + 1) - i + 1, granted'[c][i], now)
  <1>. DEFINE n == Len(granted[c])
  <1>1. granted[c] \in Seq(Nat) /\ now \in Nat /\ granted \in [Client -> Seq(Nat)]
    BY DEF LimiterType
  <1>2. granted'[c] = Append(granted[c], now) /\ \A d \in Client \ {c} : granted'[d] = granted[d]
    BY <1>1
  <1>3. granted' \in [Client -> Seq(Nat)]
    BY <1>1
  <1>4. /\ n \in Nat /\ Len(granted'[c]) = n + 1 /\ granted'[c][n + 1] = now
        /\ \A i \in 1..n : granted'[c][i] = granted[c][i] /\ granted[c][i] \in Nat
    BY <1>1, <1>2
  <1>5. \A i : Drain(c, i)' = Rest((n + 1) - i + 1, granted'[c][i], now)
    <2>. SUFFICES ASSUME NEW i PROVE Drain(c, i)' = Rest((n + 1) - i + 1, granted'[c][i], now)
      OBVIOUS
    <2>1. Drain(c, i)' = Rest(Len(granted'[c]) - i + 1, granted'[c][i], now')
      BY DEF Drain
    <2>2. Len(granted'[c]) = n + 1 /\ now' = now
      BY <1>4
    <2>. HIDE DEF n
    <2>. QED BY <2>1, <2>2
  <1>6. ASSUME NEW i \in 1..n PROVE Drain(c, i)' = Drain(c, i) - Cost
    <2>. DEFINE k == n - i + 1
                t == granted[c][i]
    <2>1. k \in Int /\ t \in Int /\ now \in Int /\ (n + 1) - i + 1 = k + 1
      BY <1>1, <1>4
    <2>2. Drain(c, i) = Rest(k, t, now)
      BY DEF Drain
    <2>3. Drain(c, i)' = Rest(k + 1, t, now)
      BY <1>4, <1>5, <2>1
    <2>. HIDE DEF k, t
    <2>4. Rest(k + 1, t, now) = Rest(k, t, now) - Cost
      BY <2>1, RestFlows
    <2>. QED BY <2>2, <2>3, <2>4
  <1>7. ASSUME NEW i, i = n + 1 PROVE Drain(c, i)' = BurstParts - Cost
    <2>1. (n + 1) - i + 1 = 1 /\ now \in Int
      BY <1>1, <1>4, <1>7
    <2>2. Drain(c, i)' = Rest(1, now, now)
      BY <1>4, <1>5, <1>7, <2>1
    <2>3. Rest(1, now, now) = BurstParts - Cost
      BY <2>1, RestFlows
    <2>. QED BY <2>2, <2>3
  <1>. QED BY <1>2, <1>3, <1>4, <1>5, <1>6, <1>7

LEMMA AllowKeeps ==
    ASSUME LimiterInv, NEW c \in Client, Allow(c)
    PROVE  LimiterInv'
  <1>. DEFINE left == IF Level(c) < Cost THEN Level(c) ELSE Level(c) - Cost
              n == Len(granted[c])
  <1>1. LimiterType /\ WindowBound /\ RefusalRemembered /\ \A d \in Client : Exact(d)
    BY DEF LimiterInv
  <1>2. /\ DOMAIN buckets' \subseteq DOMAIN buckets \cup {c} /\ c \in DOMAIN buckets'
        /\ buckets'[c] = [tokens |-> left, last |-> now]
        /\ \A d \in DOMAIN buckets' \ {c} : buckets'[d] = buckets[d]
        /\ \A d \in Client \ {c} : Level(d)' = Level(d)
        /\ Level(c)' = left /\ left \in 0..BurstParts
    BY <1>1, AllowLevels
  <1>3. /\ now' = now
        /\ granted' = IF Level(c) < Cost THEN granted ELSE [granted EXCEPT ![c] = Append(@, now)]
        /\ refusedAt' = [refusedAt EXCEPT ![c] = IF Level(c) < Cost THEN now ELSE -1]
    BY <1>1, SweepKeeps, Zenon DEF Allow, Level
  <1>4. /\ now \in Nat /\ Cost \in Nat /\ Cost > 0 /\ BurstParts \in Nat
        /\ Level(c) \in 0..BurstParts /\ refusedAt \in [Client -> Int]
        /\ granted \in [Client -> Seq(Nat)]
    BY <1>1, LevelIsANumber, BurstIsWorthAWrite DEF LimiterType
  <1>5. /\ refusedAt' \in [Client -> Int] /\ \A d \in Client : refusedAt'[d] <= now
        /\ \A d \in Client \ {c} : refusedAt'[d] = refusedAt[d]
        /\ refusedAt'[c] \in {now, -1}
    BY <1>1, <1>3, <1>4 DEF LimiterType
  <1>6. RefusalRemembered'
    <2>1. \A d \in DOMAIN buckets' \ {c} : d \in Client /\ d \in DOMAIN buckets
      BY <1>1, <1>2 DEF LimiterType
    <2>. QED BY <1>1, <1>2, <1>5, <2>1 DEF RefusalRemembered
  <1>7. ASSUME NEW d \in DOMAIN buckets'
        PROVE  d \in Client /\ buckets'[d].tokens \in 0..BurstParts /\ buckets'[d].last \in 0..now
    <2>. HIDE DEF left
    <2>1. CASE d = c
      BY <1>2, <1>4, <2>1
    <2>2. CASE d # c
      BY <1>1, <1>2, <2>2 DEF LimiterType
    <2>. QED BY <2>1, <2>2
  <1>. HIDE DEF left
  <1>8. CASE Level(c) < Cost
    <2>1. granted' = granted /\ left = Level(c)
      BY <1>3, <1>8 DEF left
    <2>2. LimiterType'
      BY <1>1, <1>3, <1>5, <1>7, <2>1 DEF LimiterType
    <2>3. WindowBound'
      BY <1>1, <2>1 DEF WindowBound
    <2>4. \A d \in Client : \A i : Drain(d, i)' = Drain(d, i)
      BY <1>3, <2>1 DEF Drain
    <2>5. \A d \in Client : Level(d)' = Level(d)
      BY <1>2, <2>1
    <2>6. ASSUME NEW d \in Client PROVE Exact(d)'
      BY <1>1, <2>1, <2>4, <2>5 DEF Exact
    <2>. QED BY <1>6, <2>2, <2>3, <2>6 DEF LimiterInv
  <1>9. CASE ~(Level(c) < Cost)
    <2>1. granted' = [granted EXCEPT ![c] = Append(@, now)] /\ left = Level(c) - Cost
      BY <1>3, <1>9 DEF left
    <2>2. /\ granted' \in [Client -> Seq(Nat)]
          /\ \A d \in Client \ {c} : granted'[d] = granted[d]
          /\ n \in Nat /\ Len(granted'[c]) = n + 1
          /\ \A i \in 1..n : granted'[c][i] = granted[c][i]
          /\ granted'[c][n + 1] = now
          /\ \A i \in 1..n : Drain(c, i)' = Drain(c, i) - Cost
          /\ \A i : i = n + 1 => Drain(c, i)' = BurstParts - Cost
          /\ \A i : Drain(c, i)' = Rest((n + 1) - i + 1, granted'[c][i], now)
      BY <1>1, <1>3, <2>1, GrantDrains
    <2>. HIDE DEF n
    <2>3. \A i \in 1..(n + 1) : granted'[c][i] \in Nat /\ granted'[c][i] <= now
      <3>1. \A i \in 1..n : granted[c][i] <= now
        BY <1>1 DEF LimiterType, n
      <3>2. granted'[c] \in Seq(Nat)
        BY <2>2
      <3>3. ASSUME NEW i \in 1..(n + 1) PROVE granted'[c][i] \in Nat
        <4>1. i \in 1..Len(granted'[c])
          BY <2>2
        <4>. QED BY <3>2, <4>1
      <3>4. ASSUME NEW i \in 1..(n + 1) PROVE granted'[c][i] <= now
        <4>1. CASE i \in 1..n
          BY <2>2, <3>1, <4>1
        <4>2. CASE i = n + 1
          BY <1>4, <2>2, <4>2
        <4>. QED BY <2>2, <4>1, <4>2
      <3>. QED BY <3>3, <3>4
    <2>4. LimiterType'
      <3>1. \A d \in Client : \A i \in 1..Len(granted'[d]) : granted'[d][i] <= now
        BY <1>1, <2>2, <2>3 DEF LimiterType
      <3>. QED BY <1>1, <1>3, <1>5, <1>7, <2>2, <3>1 DEF LimiterType
    <2>5. /\ \A i \in 1..n : Drain(c, i) \in Int /\ Level(c) <= Drain(c, i)
          /\ Level(c) = BurstParts \/ \E i \in 1..n : Level(c) = Drain(c, i)
      BY <1>1, DrainIsANumber DEF Exact, n
    <2>6. ASSUME NEW i \in 1..(n + 1) PROVE left <= Drain(c, i)' /\ Drain(c, i)' \in Int
      <3>0. left = Level(c) - Cost /\ Level(c) \in Int /\ Cost \in Int /\ BurstParts \in Int
            /\ Level(c) <= BurstParts
        BY <1>4, <2>1
      <3>1. CASE i \in 1..n
        <4>1. Drain(c, i)' = Drain(c, i) - Cost
          BY <2>2, <3>1
        <4>2. Drain(c, i) \in Int /\ Level(c) <= Drain(c, i)
          BY <2>5, <3>1
        <4>. QED BY <3>0, <4>1, <4>2
      <3>2. CASE i = n + 1
        <4>1. Drain(c, i)' = BurstParts - Cost
          BY <2>2, <3>2
        <4>. QED BY <3>0, <4>1
      <3>. QED BY <2>2, <3>1, <3>2
    <2>7. Exact(c)'
      <3>1. left = BurstParts \/ \E i \in 1..(n + 1) : left = Drain(c, i)'
        <4>1. CASE Level(c) = BurstParts
          <5>1. n + 1 \in 1..(n + 1)
            BY <2>2
          <5>. QED BY <2>1, <2>2, <4>1, <5>1
        <4>2. CASE \E i \in 1..n : Level(c) = Drain(c, i)
          BY <2>1, <2>2, <4>2
        <4>. QED BY <2>5, <4>1, <4>2
      <3>. QED BY <1>2, <2>2, <2>6, <3>1 DEF Exact
    <2>8. ASSUME NEW d \in Client PROVE Exact(d)'
      <3>1. CASE d = c
        BY <2>7, <3>1
      <3>2. CASE d # c
        <4>1. granted'[d] = granted[d] /\ Level(d)' = Level(d)
          BY <1>2, <2>2, <3>2
        <4>2. \A i : Drain(d, i)' = Drain(d, i)
          BY <1>3, <4>1 DEF Drain
        <4>. QED BY <1>1, <4>1, <4>2 DEF Exact
      <3>. QED BY <3>1, <3>2
    <2>9. WindowBound'
      <3>1. ASSUME NEW i \in 1..(n + 1)
            PROVE  ((n + 1) - i + 1) * Cost <= BurstParts + Rate * (now - granted'[c][i])
        <4>1. 0 <= Rest((n + 1) - i + 1, granted'[c][i], now)
          <5>1. 0 <= Drain(c, i)'
            BY <1>2, <1>4, <2>6
          <5>. QED BY <2>2, <5>1
        <4>2. (n + 1) - i + 1 \in Int /\ granted'[c][i] \in Int /\ now \in Int
          BY <1>4, <2>2, <2>3
        <4>. QED BY <4>1, <4>2, RestWindow
      <3>2. ASSUME NEW d \in Client, NEW j \in 1..Len(granted'[d]), NEW i \in 1..j
            PROVE  (j - i + 1) * Cost <= BurstParts + Rate * (granted'[d][j] - granted'[d][i])
        <4>1. CASE d # c
          BY <1>1, <2>2, <4>1 DEF WindowBound
        <4>2. CASE d = c /\ j \in 1..n
          <5>1. i \in 1..n
            BY <2>2, <4>2
          <5>. QED BY <1>1, <2>2, <4>2, <5>1 DEF WindowBound, n
        <4>3. CASE d = c /\ j = n + 1
          BY <2>2, <3>1, <4>3
        <4>. QED BY <2>2, <4>1, <4>2, <4>3
      <3>. QED BY <3>2 DEF WindowBound
    <2>. QED BY <1>6, <2>4, <2>8, <2>9 DEF LimiterInv
  <1>. QED BY <1>8, <1>9

LEMMA InitLimiter == Init => LimiterInv
  <1>. SUFFICES ASSUME Init PROVE LimiterInv
    OBVIOUS
  <1>1. /\ now = 0 /\ DOMAIN buckets = {} /\ granted \in [Client -> Seq(Nat)]
        /\ \A c \in Client : Len(granted[c]) = 0
        /\ refusedAt = [c \in Client |-> -1]
    BY DEF Init
  <1>2. LimiterType
    BY <1>1 DEF LimiterType
  <1>3. \A c \in Client : Level(c) = BurstParts
    BY <1>1 DEF Level, Refilled
  <1>4. \A c \in Client : Exact(c)
    BY <1>1, <1>3, BurstIsWorthAWrite DEF Exact
  <1>5. WindowBound /\ RefusalRemembered
    BY <1>1 DEF WindowBound, RefusalRemembered
  <1>. QED BY <1>2, <1>4, <1>5 DEF LimiterInv

LEMMA StutterLimiter ==
    ASSUME LimiterInv, UNCHANGED vars
    PROVE  LimiterInv'
  <1>1. /\ now' = now /\ buckets' = buckets /\ granted' = granted /\ refusedAt' = refusedAt
    BY DEF vars
  <1>2. LimiterType' /\ WindowBound' /\ RefusalRemembered'
    BY <1>1 DEF LimiterInv, LimiterType, WindowBound, RefusalRemembered
  <1>3. \A c \in Client : Level(c)' = Level(c)
    BY <1>1 DEF Level, Refilled
  <1>4. \A c \in Client : \A i : Drain(c, i)' = Drain(c, i)
    BY <1>1 DEF Drain
  <1>5. ASSUME NEW c \in Client PROVE Exact(c)'
    BY <1>1, <1>3, <1>4 DEF LimiterInv, Exact
  <1>. QED BY <1>2, <1>5 DEF LimiterInv

\* A client that has waited for a second is not refused.
LEMMA WaitPays ==
    ASSUME LimiterInv, Cost <= Rate * Second, NEW c \in Client, NEW d \in Client, Allow(d),
           refusedAt[c] >= 0, refusedAt'[c] > refusedAt[c]
    PROVE  refusedAt'[c] - refusedAt[c] < Second
  <1>1. LimiterType /\ RefusalRemembered
    BY DEF LimiterInv
  <1>2. refusedAt' = [refusedAt EXCEPT ![d] = IF Level(d) < Cost THEN now ELSE -1]
    BY <1>1, SweepKeeps, Zenon DEF Allow, Level
  <1>3. /\ now \in Nat /\ refusedAt \in [Client -> Int] /\ refusedAt[c] <= now
        /\ Cost \in Nat /\ Rate \in Nat /\ Second \in Nat /\ BurstParts \in Nat /\ Cost <= BurstParts
    BY <1>1, BurstIsWorthAWrite DEF LimiterType
  <1>4. d = c /\ Level(c) < Cost /\ refusedAt'[c] = now
    BY <1>2, <1>3
  <1>5. c \in DOMAIN buckets
    BY <1>3, <1>4 DEF Level, Refilled
  <1>. DEFINE w == now - refusedAt[c]
  <1>6. /\ buckets[c].last = refusedAt[c] /\ buckets[c].tokens \in 0..BurstParts
        /\ buckets[c].last \in 0..now /\ w \in Nat
    BY <1>1, <1>3, <1>5 DEF RefusalRemembered, LimiterType
  <1>7. Level(c) = Filled(buckets[c].tokens, buckets[c].last, now)
    BY <1>3, <1>5, <1>6, RefilledValue DEF Level
  <1>8. Level(c) = IF BurstParts <= buckets[c].tokens + w * Rate THEN BurstParts
                   ELSE buckets[c].tokens + w * Rate
    BY <1>6, <1>7 DEF Filled
  <1>. HIDE DEF w
  <1>9. ASSUME w >= Second PROVE FALSE
    <2>1. w * Rate >= Second * Rate /\ Second * Rate = Rate * Second /\ w * Rate \in Nat
      BY <1>3, <1>6, <1>9
    <2>2. w * Rate >= Cost
      BY <1>3, <2>1
    <2>. QED BY <1>3, <1>4, <1>6, <1>8, <2>1, <2>2
  <1>. QED BY <1>3, <1>4, <1>6, <1>9 DEF w

-----------------------------------------------------------------------------
(* The theorems.                                                             *)

\* Every bucket, swept or not, holds what the allowed writes of its client
\* leave of a full one, at any rate and for any number of clients.
THEOREM LimiterInvariant == Spec => []LimiterInv
  <1>1. LimiterInv /\ [Next]_vars => LimiterInv'
    BY TickKeeps, AllowKeeps, StutterLimiter DEF Next
  <1>. QED BY InitLimiter, <1>1, PTL DEF Spec

\* -write-rate and -write-burst: between any two of a client's writes no more
\* were allowed than a full bucket and what flowed in meanwhile.
THEOREM WindowIsBounded == Spec => []WindowBound
  <1>1. LimiterInv => WindowBound
    BY DEF LimiterInv
  <1>. QED BY <1>1, LimiterInvariant, PTL

\* sweepLocked, "a fresh bucket would be identical": sweeping neither gives a
\* client tokens nor takes any.
THEOREM LimiterIsExact == Spec => []LimiterExact
  <1>1. LimiterInv => LimiterExact
    <2>. SUFFICES ASSUME LimiterInv, NEW c \in Client
                  PROVE  Refilled(SweepLocked(buckets), c) = Available(c)
      BY DEF LimiterExact
    <2>. DEFINE n == Len(granted[c])
                S == {BurstParts} \cup {BurstParts - Cost * (n - i + 1) + Rate * (now - granted[c][i]) : i \in 1..n}
    <2>1. LimiterType /\ Exact(c) /\ Level(c) \in Int /\ BurstParts \in Int
      BY LevelIsANumber, BurstIsWorthAWrite DEF LimiterInv
    <2>2. S = {BurstParts} \cup {Drain(c, i) : i \in 1..n}
      BY DEF Drain, Rest
    <2>3. \A i \in 1..n : Drain(c, i) \in Int
      BY <2>1, DrainIsANumber
    <2>4. Level(c) \in S /\ \A y \in S : Level(c) <= y /\ y \in Int
      <3>1. /\ \A i \in 1..n : Level(c) <= Drain(c, i) /\ Level(c) <= BurstParts
            /\ Level(c) = BurstParts \/ \E i \in 1..n : Level(c) = Drain(c, i)
        BY <2>1 DEF Exact
      <3>. HIDE DEF S, n
      <3>. QED BY <2>1, <2>2, <2>3, <3>1
    <2>5. Available(c) = Min(S)
      BY DEF Available
    <2>. HIDE DEF S
    <2>6. \A x \in S : (\A y \in S : x <= y) => x = Level(c)
      BY <2>1, <2>4
    <2>7. (CHOOSE x \in S : \A y \in S : x <= y) = Level(c)
      BY <2>4, <2>6
    <2>8. Min(S) = Level(c)
      BY <2>7 DEF Min
    <2>. QED BY <2>1, <2>5, <2>8, SweepKeeps DEF Level
  <1>. QED BY <1>1, LimiterInvariant, PTL

\* enforceWriteLimits, "Retry-After: 1": a client that waits for a second after
\* it was refused is served, provided the rate is at least one write a second.
THEOREM RetryAfterIsHonoured ==
    ASSUME Cost <= Rate * Second
    PROVE  Spec => RetryAfterHonoured
  <1>. DEFINE Waits == \A c \in Client :
          refusedAt[c] >= 0 /\ refusedAt'[c] > refusedAt[c]
          => refusedAt'[c] - refusedAt[c] < Second
  <1>1. LimiterInv /\ [Next]_vars => [Waits]_vars
    <2>. SUFFICES ASSUME LimiterInv, Next, NEW c \in Client,
                         refusedAt[c] >= 0, refusedAt'[c] > refusedAt[c]
                  PROVE  refusedAt'[c] - refusedAt[c] < Second
      OBVIOUS
    <2>1. CASE Tick
      BY <2>1 DEF Tick, LimiterInv, LimiterType
    <2>2. ASSUME NEW d \in Client, Allow(d) PROVE refusedAt'[c] - refusedAt[c] < Second
      BY <2>2, WaitPays
    <2>. QED BY <2>1, <2>2 DEF Next
  <1>. QED BY <1>1, LimiterInvariant, PTL DEF Spec, RetryAfterHonoured
=============================================================================
