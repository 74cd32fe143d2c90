--------------------------- MODULE LogStoreProofs ---------------------------
(***************************************************************************)
(* The log as it is stored, for any width of the keys and any length of    *)
(* the log that the keys can hold: big-endian keys keep the order of the   *)
(* indexes, so that the bucket is a sequence without gaps, the slice the   *)
(* node keeps beside it is the same sequence, and both behave as the log   *)
(* of RaftNode, whatever transactions fail and wherever the process dies.  *)
(***************************************************************************)
EXTENDS LogStore, FiniteSetTheorems, SequenceTheorems, WellFoundedInduction, TLAPS

-----------------------------------------------------------------------------
(* Numbers.                                                                  *)

\* A set of natural numbers has a least element, which Min returns.
LEMMA LeastNumber ==
    ASSUME NEW S \in SUBSET Nat, S # {}
    PROVE  Min(S) \in S /\ \A x \in S : Min(S) <= x
  <1>. DEFINE less == OpToRel(<, Nat)
  <1>1. IsWellFoundedOn(less, Nat)
    BY NatLessThanWellFounded
  <1>2. PICK y \in S : \A z \in S : ~ (<<z, y>> \in less)
    <2>. HIDE DEF less
    <2>. QED BY <1>1, WFMin
  <1>3. \A z \in S : ~(z < y)
    BY <1>2 DEF OpToRel
  <1>4. \E x \in S : \A z \in S : x <= z
    BY <1>3
  <1>. QED BY <1>4 DEF Min

LEMMA DivisionBounds ==
    ASSUME NEW x \in Nat, NEW d \in Nat, d > 0
    PROVE  /\ x \div d \in Nat /\ d * (x \div d) <= x /\ x < d * (x \div d) + d
           /\ x % d \in 0..(d - 1) /\ x = d * (x \div d) + (x % d)
  <1>1. x % d = x - d * (x \div d)
    OBVIOUS
  <1>2. x \div d \in Nat /\ d * (x \div d) <= x /\ x < d * (x \div d) + d
    OBVIOUS
  <1>3. x % d \in 0..(d - 1)
    OBVIOUS
  <1>4. x = d * (x \div d) + (x % d)
    <2>1. PICK p \in Nat : p = x \div d
      BY <1>2
    <2>2. PICK y \in Nat : y = d * p
      OBVIOUS
    <2>3. PICK r \in Nat : r = x % d
      BY <1>3
    <2>4. r = x - y
      BY <1>1, <2>1, <2>2, <2>3, Zenon
    <2>5. x = y + r
      BY <2>4
    <2>6. x = d * p + r
      BY <2>2, <2>5
    <2>. QED BY <2>1, <2>3, <2>6, Zenon
  <1>. QED BY <1>2, <1>3, <1>4

LEMMA QuotientIsUnique ==
    ASSUME NEW x \in Nat, NEW d \in Nat, d > 0, NEW q \in Nat, d * q <= x, x < d * q + d
    PROVE  x \div d = q
  <1>1. x \div d \in Nat /\ d * (x \div d) <= x /\ x < d * (x \div d) + d
    BY DivisionBounds
  <1>. DEFINE p == x \div d
  <1>. HIDE DEF p
  <1>2. p \in Nat /\ d * p <= x /\ x < d * p + d
    BY <1>1 DEF p
  <1>3. \A a, b \in Nat : a < b => d * a + d <= d * b
    <2>. SUFFICES ASSUME NEW a \in Nat, NEW b \in Nat, a < b PROVE d * a + d <= d * b
      OBVIOUS
    <2>1. PICK c \in Nat : b = a + 1 + c
      <3>1. b - a - 1 \in Nat /\ b = a + 1 + (b - a - 1)
        OBVIOUS
      <3>. QED BY <3>1
    <2>2. d * b = d * a + d + d * c /\ d * c >= 0
      BY <2>1
    <2>. QED BY <2>2
  <1>4. p = q
    <2>1. PICK y \in Nat : y = d * p
      BY <1>2
    <2>2. PICK z \in Nat : z = d * q
      OBVIOUS
    <2>3. ~(p < q) /\ ~(q < p)
      BY <1>2, <1>3, <2>1, <2>2
    <2>. QED BY <1>2, <2>3
  <1>. QED BY <1>4 DEF p

\* Shifting by one more digit.
LEMMA DivideTwice ==
    ASSUME NEW x \in Nat, NEW d \in Nat, d > 0, NEW b \in Nat, b > 0
    PROVE  x \div (b * d) = (x \div d) \div b
  <1>1. PICK q \in Nat : q = x \div d
    BY DivisionBounds
  <1>2. PICK p \in Nat : p = q \div b
    BY DivisionBounds
  <1>3. d * q <= x /\ x < d * q + d
    BY <1>1, DivisionBounds
  <1>4. b * p <= q /\ q < b * p + b
    BY <1>2, DivisionBounds
  <1>5. PICK e \in Nat : e = b * d /\ e > 0
    OBVIOUS
  <1>6. e * p <= x /\ x < e * p + e
    <2>1. PICK r \in Nat : q = b * p + r /\ r + 1 <= b
      <3>1. PICK y \in Nat : y = b * p
        OBVIOUS
      <3>2. q - y \in Nat /\ q = y + (q - y) /\ (q - y) + 1 <= b
        BY <1>4, <3>1
      <3>. QED BY <3>1, <3>2
    <2>2. d * q = e * p + d * r
      BY <1>5, <2>1
    <2>3. d * r + d <= e
      <3>1. PICK c \in Nat : b = r + 1 + c
        <4>1. b - r - 1 \in Nat /\ b = r + 1 + (b - r - 1)
          BY <2>1
        <4>. QED BY <4>1
      <3>2. e = d * r + d + d * c /\ d * c >= 0
        BY <1>5, <3>1
      <3>. QED BY <3>2
    <2>4. PICK y \in Nat : y = e * p
      OBVIOUS
    <2>5. PICK z \in Nat : z = d * r
      OBVIOUS
    <2>. QED BY <1>3, <2>2, <2>3, <2>4, <2>5
  <1>. QED BY <1>1, <1>2, <1>5, <1>6, QuotientIsUnique

-----------------------------------------------------------------------------
(* Keys.                                                                     *)

LEMMA PlaceValues ==
    /\ Place \in [0..Width -> Nat] /\ Place[0] = 1
    /\ \A d \in 1..Width : Place[d] = Base * Place[d - 1]
    /\ \A d \in 0..Width : Place[d] > 0
  <1>0. Base \in Nat /\ Base > 1 /\ Width \in Nat /\ Width > 0
    BY StoreAssumption
  <1>. DEFINE Is(f, n) == /\ f \in [0..n -> Nat \ {0}]
                          /\ f = [d \in 0..n |-> IF d = 0 THEN 1 ELSE Base * f[d - 1]]
              Missing == {n \in 0..Width : ~\E f : Is(f, n)}
  <1>1. Missing = {}
    <2>. SUFFICES ASSUME Missing # {} PROVE FALSE
      OBVIOUS
    <2>1. Missing \in SUBSET Nat
      OBVIOUS
    <2>2. PICK n \in Missing : \A m \in Missing : n <= m
      <3>. HIDE DEF Missing
      <3>. QED BY <2>1, LeastNumber
    <2>a. n \in 0..Width /\ n \in Nat
      OBVIOUS
    <2>3. CASE n = 0
      <3>1. Is([d \in 0..0 |-> 1], 0)
        OBVIOUS
      <3>. QED BY <2>2, <2>3, <3>1
    <2>4. CASE n # 0
      <3>1. n - 1 \in 0..Width /\ n - 1 \notin Missing
        <4>. HIDE DEF Missing
        <4>. QED BY <2>a, <2>2, <2>4, <1>0
      <3>2. PICK f : Is(f, n - 1)
        BY <3>1
      <3>. DEFINE g == [d \in 0..n |-> IF d = 0 THEN 1 ELSE Base * f[d - 1]]
      <3>3. \A d \in 0..n : g[d] = IF d = 0 THEN 1 ELSE Base * f[d - 1]
        OBVIOUS
      <3>4. \A d \in 0..(n - 1) : g[d] = f[d] /\ f[d] \in Nat \ {0}
        <4>1. f = [d \in 0..(n - 1) |-> IF d = 0 THEN 1 ELSE Base * f[d - 1]]
          BY <3>2, Zenon
        <4>2. f \in [0..(n - 1) -> Nat \ {0}]
          BY <3>2, Zenon
        <4>3. \A d \in 0..(n - 1) : f[d] = IF d = 0 THEN 1 ELSE Base * f[d - 1]
          BY <4>1, Zenon
        <4>4. \A d \in 0..(n - 1) : d \in 0..n
          BY <2>a
        <4>. HIDE DEF g, Is, Missing
        <4>. QED BY <3>3, <4>2, <4>3, <4>4
      <3>5. \A d \in 0..n : g[d] \in Nat \ {0} /\ g[d] = IF d = 0 THEN 1 ELSE Base * g[d - 1]
        <4>1. \A k \in Nat \ {0} : Base * k \in Nat \ {0}
          BY <1>0
        <4>2. \A d \in 0..n : d # 0 => d - 1 \in 0..(n - 1)
          BY <2>a
        <4>. HIDE DEF g, Is, Missing
        <4>. QED BY <3>3, <3>4, <4>1, <4>2
      <3>b. DOMAIN g = 0..n /\ g = [d \in 0..n |-> g[d]]
        OBVIOUS
      <3>c. g \in [0..n -> Nat \ {0}]
        <4>. HIDE DEF g, Is, Missing
        <4>. QED BY <3>5, <3>b
      <3>d. g = [d \in 0..n |-> IF d = 0 THEN 1 ELSE Base * g[d - 1]]
        <4>. HIDE DEF g, Is, Missing
        <4>. QED BY <3>5, <3>b
      <3>6. Is(g, n)
        BY <3>c, <3>d, Zenon
      <3>. QED BY <2>2, <3>6, Zenon
    <2>. HIDE DEF Missing
    <2>. QED BY <2>a, <2>3, <2>4, Zenon
  <1>2. \E f : Is(f, Width)
    <2>1. Width \in 0..Width
      BY <1>0
    <2>2. Width \notin Missing
      <3>. HIDE DEF Missing
      <3>. QED BY <1>1
    <2>. HIDE DEF Is
    <2>. QED BY <2>1, <2>2
  <1>3. Place = CHOOSE f : f = [d \in 0..Width |-> IF d = 0 THEN 1 ELSE Base * f[d - 1]]
    BY Zenon DEF Place
  <1>4. Place = [d \in 0..Width |-> IF d = 0 THEN 1 ELSE Base * Place[d - 1]]
    BY <1>2, <1>3, Zenon
  <1>5. \A d \in 0..Width : Place[d] = IF d = 0 THEN 1 ELSE Base * Place[d - 1]
    BY <1>4, Zenon
  <1>6. \A d \in 0..Width : Place[d] \in Nat \ {0}
    <2>. DEFINE Bad == {d \in 0..Width : Place[d] \notin Nat \ {0}}
    <2>1. Bad = {}
      <3>. SUFFICES ASSUME Bad # {} PROVE FALSE
        OBVIOUS
      <3>1. PICK n \in Bad : \A m \in Bad : n <= m
        <4>1. Bad \in SUBSET Nat
          OBVIOUS
        <4>. HIDE DEF Bad
        <4>. QED BY <4>1, LeastNumber
      <3>2. n # 0 /\ n \in 0..Width
        BY <1>5, <3>1
      <3>3. n - 1 \in 0..Width /\ n - 1 \notin Bad
        <4>. HIDE DEF Bad
        <4>. QED BY <1>0, <3>1, <3>2
      <3>4. Place[n - 1] \in Nat \ {0} /\ Place[n] = Base * Place[n - 1]
        BY <1>5, <3>1, <3>2, <3>3
      <3>5. Place[n] \in Nat \ {0}
        BY <1>0, <3>4
      <3>. QED BY <3>1, <3>5
    <2>. QED BY <2>1
  <1>7. Place \in [0..Width -> Nat]
    <2>. DEFINE h == [d \in 0..Width |-> IF d = 0 THEN 1 ELSE Base * Place[d - 1]]
    <2>1. Place = h /\ \A d \in 0..Width : h[d] \in Nat
      BY <1>4, <1>6, Zenon
    <2>2. h \in [0..Width -> Nat]
      BY <2>1
    <2>. QED BY <2>1, <2>2, Zenon
  <1>. QED BY <1>0, <1>5, <1>6, <1>7

\* What is left of n when all but its d highest digits are shifted out.
Shift(n, d) == n \div Place[Width - d]

LEMMA ShiftStep ==
    ASSUME NEW n \in Nat
    PROVE  /\ \A d \in 0..Width : Shift(n, d) \in Nat
           /\ \A d \in 1..Width :
                 /\ uint64ToBytes(n)[d] \in 0..(Base - 1)
                 /\ uint64ToBytes(n)[d] = Shift(n, d) % Base
                 /\ Shift(n, d) = Base * Shift(n, d - 1) + uint64ToBytes(n)[d]
           /\ Shift(n, Width) = n
           /\ n < Place[Width] => Shift(n, 0) = 0
  <1>0. Base \in Nat /\ Base > 1 /\ Width \in Nat /\ Width > 0
    BY StoreAssumption
  <1>1. \A d \in 0..Width : Width - d \in 0..Width /\ Place[Width - d] \in Nat \ {0}
    BY <1>0, PlaceValues
  <1>2. \A d \in 0..Width : Shift(n, d) \in Nat
    BY <1>1, DivisionBounds DEF Shift
  <1>3. ASSUME NEW d \in 1..Width
        PROVE  /\ uint64ToBytes(n)[d] \in 0..(Base - 1)
               /\ uint64ToBytes(n)[d] = Shift(n, d) % Base
               /\ Shift(n, d) = Base * Shift(n, d - 1) + uint64ToBytes(n)[d]
    <2>1. d \in 0..Width /\ d - 1 \in 0..Width /\ Width - d + 1 \in 1..Width
          /\ Width - (d - 1) = Width - d + 1 /\ (Width - d + 1) - 1 = Width - d
      BY <1>0
    <2>2. PICK p \in Nat : p = Place[Width - d] /\ p > 0
      BY <1>1, <2>1
    <2>3. Place[Width - (d - 1)] = Base * p
      BY <2>1, <2>2, PlaceValues
    <2>4. Shift(n, d - 1) = Shift(n, d) \div Base
      <3>1. n \div (Base * p) = (n \div p) \div Base
        BY <1>0, <2>2, DivideTwice
      <3>. QED BY <2>2, <2>3, <3>1, Zenon DEF Shift
    <2>5. uint64ToBytes(n)[d] = Shift(n, d) % Base
      BY Zenon DEF uint64ToBytes, Shift
    <2>6. PICK q \in Nat : q = Shift(n, d)
      BY <1>2, <2>1
    <2>7. q % Base \in 0..(Base - 1) /\ q = Base * (q \div Base) + (q % Base)
      BY <1>0, DivisionBounds
    <2>8. Shift(n, d) = Base * (Shift(n, d) \div Base) + (Shift(n, d) % Base)
      BY <2>6, <2>7, Zenon
    <2>9. Shift(n, d) % Base \in 0..(Base - 1)
      BY <2>6, <2>7, Zenon
    <2>10. Shift(n, d) = Base * Shift(n, d - 1) + uint64ToBytes(n)[d]
      BY <2>4, <2>5, <2>8, Zenon
    <2>. QED BY <2>5, <2>9, <2>10, Zenon
  <1>4. Shift(n, Width) = n
    <2>1. Width - Width = 0 /\ n \div 1 = n
      BY <1>0
    <2>. QED BY <2>1, PlaceValues, Zenon DEF Shift
  <1>5. ASSUME n < Place[Width] PROVE Shift(n, 0) = 0
    <2>1. Width - 0 = Width
      BY <1>0
    <2>2. PICK p \in Nat : p = Place[Width] /\ p > 0 /\ n < p
      BY <1>0, <1>5, PlaceValues
    <2>3. n \div p = 0
      BY <2>2, QuotientIsUnique
    <2>. QED BY <2>1, <2>2, <2>3, Zenon DEF Shift
  <1>. QED BY <1>2, <1>3, <1>4, <1>5

\* The indexes that a key is made for.
Index == 0..(MaxIndex + 1)

LEMMA IndexFits == \A n \in Index : n \in Nat /\ n < Place[Width]
  <1>1. Place[Width] \in Nat
    BY StoreAssumption, PlaceValues
  <1>. QED BY <1>1, StoreAssumption DEF Index

\* The order of the keys is that of the indexes.
LEMMA KeysInOrder ==
    ASSUME NEW a \in Index, NEW b \in Index, a < b
    PROVE  /\ Before(uint64ToBytes(a), uint64ToBytes(b))
           /\ ~Before(uint64ToBytes(b), uint64ToBytes(a))
  <1>. DEFINE A == uint64ToBytes(a)
              B == uint64ToBytes(b)
              Differ == {d \in 0..Width : Shift(a, d) # Shift(b, d)}
  <1>0. Base \in Nat /\ Base > 1 /\ Width \in Nat /\ Width > 0 /\ a \in Nat /\ b \in Nat
    BY StoreAssumption, IndexFits
  <1>1. /\ \A d \in 0..Width : Shift(a, d) \in Nat /\ Shift(b, d) \in Nat
        /\ \A d \in 1..Width :
              /\ A[d] \in 0..(Base - 1) /\ B[d] \in 0..(Base - 1)
              /\ A[d] = Shift(a, d) % Base /\ B[d] = Shift(b, d) % Base
              /\ Shift(a, d) = Base * Shift(a, d - 1) + A[d]
              /\ Shift(b, d) = Base * Shift(b, d - 1) + B[d]
        /\ Shift(a, Width) = a /\ Shift(b, Width) = b
        /\ Shift(a, 0) = 0 /\ Shift(b, 0) = 0
    BY <1>0, IndexFits, ShiftStep
  <1>2. \A d \in 0..Width : Shift(a, d) <= Shift(b, d)
    <2>. SUFFICES ASSUME NEW d \in 0..Width PROVE Shift(a, d) <= Shift(b, d)
      OBVIOUS
    <2>1. Width - d \in 0..Width
      BY <1>0
    <2>2. PICK p \in Nat : p = Place[Width - d] /\ p > 0
      BY <2>1, PlaceValues
    <2>3. a \div p <= b \div p
      <3>1. PICK x \in Nat : x = a \div p /\ p * x <= a
        BY <1>0, <2>2, DivisionBounds
      <3>2. PICK y \in Nat : y = b \div p /\ b < p * y + p
        BY <1>0, <2>2, DivisionBounds
      <3>3. ASSUME y < x PROVE FALSE
        <4>1. PICK c \in Nat : x = y + 1 + c
          <5>1. x - y - 1 \in Nat /\ x = y + 1 + (x - y - 1)
            BY <3>3
          <5>. QED BY <5>1
        <4>2. p * x = p * y + p + p * c /\ p * c >= 0 /\ p * y \in Nat
          BY <2>2, <4>1
        <4>. QED BY <1>0, <3>1, <3>2, <4>2
      <3>. QED BY <3>1, <3>2, <3>3
    <2>. QED BY <2>2, <2>3, Zenon DEF Shift
  <1>3. PICK d \in Differ : \A e \in Differ : d <= e
    <2>1. Width \in Differ
      BY <1>0, <1>1
    <2>2. Differ \in SUBSET Nat
      OBVIOUS
    <2>. HIDE DEF Differ
    <2>. QED BY <2>1, <2>2, LeastNumber
  <1>4. d \in 1..Width /\ d - 1 \in 0..Width /\ Shift(a, d) # Shift(b, d)
    BY <1>0, <1>1, <1>3
  <1>5. \A e \in 0..(d - 1) : Shift(a, e) = Shift(b, e) /\ e \in 0..Width
    <2>1. \A e \in 0..(d - 1) : e \in 0..Width /\ ~(d <= e)
      BY <1>0, <1>4
    <2>. QED BY <1>3, <2>1
  <1>. HIDE DEF A, B, Differ
  <1>6. A[d] < B[d]
    <2>1. PICK s \in Nat : s = Shift(a, d - 1) /\ s = Shift(b, d - 1)
      BY <1>1, <1>4, <1>5
    <2>2. PICK t \in Nat : t = Base * s
      BY <1>0
    <2>3. Shift(a, d) = t + A[d] /\ Shift(b, d) = t + B[d]
      BY <1>1, <1>4, <2>1, <2>2
    <2>4. Shift(a, d) <= Shift(b, d) /\ Shift(a, d) # Shift(b, d)
      BY <1>2, <1>4
    <2>. QED BY <1>1, <1>4, <2>3, <2>4
  <1>7. \A e \in 1..(d - 1) : A[e] = B[e]
    <2>1. \A e \in 1..(d - 1) : e \in 1..Width /\ Shift(a, e) = Shift(b, e)
      BY <1>4, <1>5
    <2>. QED BY <1>1, <2>1
  <1>8. \A e \in 1..Width : A[e] \in Int /\ B[e] \in Int
    BY <1>0, <1>1
  <1>9. Before(A, B)
    BY <1>4, <1>6, <1>7 DEF Before
  <1>10. ~Before(B, A)
    <2>. SUFFICES ASSUME NEW f \in 1..Width, B[f] < A[f], \A e \in 1..(f - 1) : B[e] = A[e]
                  PROVE  FALSE
      BY DEF Before
    <2>1. f < d \/ f = d \/ d < f
      BY <1>4
    <2>. QED BY <1>4, <1>6, <1>7, <1>8, <2>1
  <1>. QED BY <1>9, <1>10 DEF A, B

LEMMA KeyOrder ==
    ASSUME NEW a \in Index, NEW b \in Index
    PROVE  /\ Before(uint64ToBytes(a), uint64ToBytes(b)) <=> a < b
           /\ uint64ToBytes(a) = uint64ToBytes(b) => a = b
  <1>0. a \in Nat /\ b \in Nat
    BY IndexFits
  <1>1. a < b \/ a = b \/ b < a
    BY <1>0
  <1>2. ~Before(uint64ToBytes(a), uint64ToBytes(a))
    <2>1. \A d \in 1..Width : uint64ToBytes(a)[d] \in 0..(Base - 1)
      BY <1>0, ShiftStep
    <2>2. \A k \in 0..(Base - 1) : ~(k < k)
      BY StoreAssumption
    <2>. QED BY <2>1, <2>2 DEF Before
  <1>3. CASE a < b
    BY <1>0, <1>2, <1>3, KeysInOrder
  <1>4. CASE a = b
    BY <1>0, <1>2, <1>4
  <1>5. CASE b < a
    BY <1>0, <1>2, <1>5, KeysInOrder
  <1>. QED BY <1>1, <1>3, <1>4, <1>5

\* A key is decoded to its index.
LEMMA KeyDecoded == \A n \in Index : bytesToUint64(uint64ToBytes(n)) = n
  <1>. SUFFICES ASSUME NEW n \in Index PROVE bytesToUint64(uint64ToBytes(n)) = n
    OBVIOUS
  <1>. DEFINE b == uint64ToBytes(n)
              Is(f) == f = [d \in 0..Width |-> IF d = 0 THEN 0 ELSE Base * f[d - 1] + b[d]]
              w == [d \in 0..Width |-> Shift(n, d)]
  <1>0. /\ n \in Nat /\ n < Place[Width] /\ Width \in Nat /\ Width > 0 /\ Base \in Nat
        /\ \A d \in 1..Width : d - 1 \in 0..Width /\ d \in 0..Width
        /\ Width \in 0..Width /\ 0 \in 0..Width
    BY StoreAssumption, IndexFits
  <1>1. /\ \A d \in 1..Width : Shift(n, d) = Base * Shift(n, d - 1) + b[d]
        /\ Shift(n, Width) = n /\ Shift(n, 0) = 0
    BY <1>0, ShiftStep
  <1>. HIDE DEF b
  <1>2. Is(w)
    <2>1. \A d \in 0..Width : d # 0 => d \in 1..Width
      OBVIOUS
    <2>2. \A d \in 0..Width : w[d] = Shift(n, d)
      OBVIOUS
    <2>3. w = [d \in 0..Width |-> w[d]]
      OBVIOUS
    <2>. HIDE DEF w
    <2>4. \A d \in 0..Width : w[d] = IF d = 0 THEN 0 ELSE Base * w[d - 1] + b[d]
      BY <1>0, <1>1, <2>1, <2>2
    <2>. QED BY <2>3, <2>4
  <1>3. ASSUME NEW f, Is(f) PROVE f[Width] = n
    <2>. DEFINE Wrong == {d \in 0..Width : f[d] # Shift(n, d)}
    <2>1. \A d \in 0..Width : f[d] = IF d = 0 THEN 0 ELSE Base * f[d - 1] + b[d]
      BY <1>3, Zenon
    <2>2. Wrong = {}
      <3>. SUFFICES ASSUME Wrong # {} PROVE FALSE
        OBVIOUS
      <3>1. PICK d \in Wrong : \A e \in Wrong : d <= e
        <4>1. Wrong \in SUBSET Nat
          OBVIOUS
        <4>. HIDE DEF Wrong
        <4>. QED BY <4>1, LeastNumber
      <3>2. d \in 0..Width /\ f[d] # Shift(n, d)
        OBVIOUS
      <3>3. d # 0
        BY <1>0, <1>1, <2>1, <3>2
      <3>4. d \in 1..Width /\ d - 1 \in 0..Width /\ ~(d <= d - 1)
        BY <1>0, <3>2, <3>3
      <3>5. f[d - 1] = Shift(n, d - 1)
        BY <3>1, <3>4
      <3>6. f[d] = Base * f[d - 1] + b[d]
        BY <2>1, <3>2, <3>3, Zenon
      <3>. HIDE DEF Wrong
      <3>. QED BY <1>1, <3>2, <3>4, <3>5, <3>6
    <2>. QED BY <1>0, <1>1, <2>2
  <1>4. bytesToUint64(b) = (CHOOSE f : Is(f))[Width]
    BY Zenon DEF bytesToUint64
  <1>. HIDE DEF Is
  <1>5. bytesToUint64(b) = n
    BY <1>2, <1>3, <1>4, Zenon
  <1>. QED BY <1>5 DEF b

-----------------------------------------------------------------------------
(* A bucket that holds a sequence.                                           *)

StoredEntry == [index : Nat, term : Nat]

\* The bucket b holds sequence s, the k-th element at the key of index k - 1.
Holds(b, s) ==
    /\ s \in Seq(StoredEntry) /\ Len(s) <= MaxIndex + 1
    /\ b = [k \in {uint64ToBytes(x) : x \in 0..(Len(s) - 1)} |-> s[bytesToUint64(k) + 1]]

LEMMA HoldsFacts ==
    ASSUME NEW b, NEW s, Holds(b, s)
    PROVE  /\ Len(s) \in Nat /\ 0..(Len(s) - 1) \subseteq Index
           /\ \A x \in 0..(Len(s) - 1) : /\ uint64ToBytes(x) \in DOMAIN b
                                         /\ GetEntry(b, x) = s[x + 1]
           /\ DOMAIN b = {uint64ToBytes(x) : x \in 0..(Len(s) - 1)}
           /\ \A x \in Index : Found(b, x) <=> x < Len(s)
  <1>1. Len(s) \in Nat /\ MaxIndex \in Nat /\ Len(s) <= MaxIndex + 1
    BY StoreAssumption DEF Holds
  <1>2. 0..(Len(s) - 1) \subseteq Index /\ \A x \in 0..(Len(s) - 1) : x \in Index
    BY <1>1 DEF Index
  <1>. DEFINE D == {uint64ToBytes(x) : x \in 0..(Len(s) - 1)}
  <1>3. DOMAIN b = D /\ \A k \in D : b[k] = s[bytesToUint64(k) + 1]
    BY DEF Holds
  <1>4. \A x \in 0..(Len(s) - 1) : uint64ToBytes(x) \in D
    OBVIOUS
  <1>5. \A x \in Index : uint64ToBytes(x) \in D => x \in 0..(Len(s) - 1)
    BY <1>2, KeyOrder
  <1>. HIDE DEF D
  <1>6. \A x \in 0..(Len(s) - 1) : GetEntry(b, x) = s[x + 1]
    BY <1>2, <1>3, <1>4, KeyDecoded DEF GetEntry
  <1>7. \A x \in Index : Found(b, x) <=> x < Len(s)
    <2>1. \A x \in Index : x \in 0..(Len(s) - 1) <=> x < Len(s)
      BY <1>1 DEF Index
    <2>. QED BY <1>3, <1>4, <1>5, <2>1 DEF Found
  <1>. QED BY <1>1, <1>2, <1>3, <1>4, <1>6, <1>7 DEF D

\* What makes a bucket hold a sequence.
LEMMA HoldsIs ==
    ASSUME NEW D, NEW b, b = [k \in D |-> b[k]], NEW s \in Seq(StoredEntry), Len(s) <= MaxIndex + 1,
           D = {uint64ToBytes(x) : x \in 0..(Len(s) - 1)},
           \A x \in 0..(Len(s) - 1) : b[uint64ToBytes(x)] = s[x + 1]
    PROVE  Holds(b, s)
  <1>1. \A x \in 0..(Len(s) - 1) : x \in Index
    BY StoreAssumption DEF Index
  <1>2. \A k \in D : b[k] = s[bytesToUint64(k) + 1]
    BY <1>1, KeyDecoded
  <1>. DEFINE g == [k \in D |-> s[bytesToUint64(k) + 1]]
  <1>3. b = g
    BY <1>2
  <1>. QED BY <1>3, Zenon DEF Holds

\* A cursor meets the keys of the indexes from k on, in their order.
LEMMA ScanFinds ==
    ASSUME NEW b, NEW s, Holds(b, s), NEW k \in Index
    PROVE  Scan(b, uint64ToBytes(k)) = [p \in 1..(IF k < Len(s) THEN Len(s) - k ELSE 0) |->
                                           uint64ToBytes(k + p - 1)]
  <1>. DEFINE met == {l \in DOMAIN b : ~Before(l, uint64ToBytes(k))}
              n == IF k < Len(s) THEN Len(s) - k ELSE 0
              below(l) == {j \in met : Before(j, l)}
              keys(f, t) == {uint64ToBytes(x) : x \in f..t}
  <1>0. /\ k \in Nat /\ Len(s) \in Nat /\ n \in Nat
        /\ \A x \in k..(Len(s) - 1) : x \in Index /\ x \in Nat
        /\ \A x \in 0..(Len(s) - 1) : x \in Index /\ x \in Nat
    <2>1. k \in Nat /\ Len(s) \in Nat
      BY HoldsFacts, IndexFits
    <2>2. \A x \in 0..(Len(s) - 1) : x \in Index /\ x \in Nat
      BY HoldsFacts, IndexFits
    <2>3. \A x \in k..(Len(s) - 1) : x \in 0..(Len(s) - 1)
      BY <2>1
    <2>. QED BY <2>1, <2>2, <2>3
  <1>1. met = keys(k, Len(s) - 1)
    <2>1. DOMAIN b = keys(0, Len(s) - 1)
      BY HoldsFacts
    <2>2. \A x \in 0..(Len(s) - 1) : ~Before(uint64ToBytes(x), uint64ToBytes(k))
                                     <=> x \in k..(Len(s) - 1)
      BY <1>0, KeyOrder
    <2>3. \A x \in k..(Len(s) - 1) : x \in 0..(Len(s) - 1)
      BY <1>0
    <2>. QED BY <2>1, <2>2, <2>3
  <1>2. \A f, t \in Nat : t <= Len(s) => /\ IsFiniteSet(keys(f, t - 1))
                                         /\ Cardinality(keys(f, t - 1)) = IF f < t THEN t - f ELSE 0
    <2>. SUFFICES ASSUME NEW f \in Nat, NEW t \in Nat, t <= Len(s)
                  PROVE  /\ IsFiniteSet(keys(f, t - 1))
                         /\ Cardinality(keys(f, t - 1)) = IF f < t THEN t - f ELSE 0
      OBVIOUS
    <2>. DEFINE S == f..(t - 1)
                T == keys(f, t - 1)
                h == [x \in S |-> uint64ToBytes(x)]
    <2>1. IsFiniteSet(S) /\ Cardinality(S) = IF f < t THEN t - f ELSE 0
      <3>1. IsFiniteSet(S) /\ Cardinality(S) = IF f > t - 1 THEN 0 ELSE (t - 1) - f + 1
        BY FS_Interval
      <3>. QED BY <3>1
    <2>2. \A x \in S : x \in Index
      BY <1>0
    <2>3. h \in Bijection(S, T)
      <3>1. h \in [S -> T]
        OBVIOUS
      <3>2. \A x, y \in S : h[x] = h[y] => x = y
        BY <2>2, KeyOrder
      <3>3. \A y \in T : \E x \in S : h[x] = y
        OBVIOUS
      <3>. QED BY <3>1, <3>2, <3>3 DEF Bijection, Injection, Surjection, IsInjective
    <2>. HIDE DEF S, T, h
    <2>4. IsFiniteSet(T) /\ Cardinality(T) = Cardinality(S)
      BY <2>1, <2>3, FS_Bijection DEF ExistsBijection
    <2>. QED BY <2>1, <2>4 DEF T
  <1>3. \A x \in k..(Len(s) - 1) : below(uint64ToBytes(x)) = keys(k, x - 1)
    <2>. SUFFICES ASSUME NEW x \in k..(Len(s) - 1)
                  PROVE  below(uint64ToBytes(x)) = keys(k, x - 1)
      OBVIOUS
    <2>1. \A y \in k..(Len(s) - 1) : Before(uint64ToBytes(y), uint64ToBytes(x)) <=> y \in k..(x - 1)
      BY <1>0, KeyOrder
    <2>2. \A y \in k..(x - 1) : y \in k..(Len(s) - 1)
      BY <1>0
    <2>. HIDE DEF met
    <2>. QED BY <1>1, <2>1, <2>2
  <1>4. Cardinality(met) = n
    <2>. HIDE DEF met, keys
    <2>. QED BY <1>0, <1>1, <1>2
  <1>5. \A x \in k..(Len(s) - 1) : Cardinality(below(uint64ToBytes(x))) = x - k
    <2>. SUFFICES ASSUME NEW x \in k..(Len(s) - 1)
                  PROVE  Cardinality(below(uint64ToBytes(x))) = x - k
      OBVIOUS
    <2>1. Cardinality(keys(k, x - 1)) = IF k < x THEN x - k ELSE 0
      <3>1. x \in Nat /\ x <= Len(s)
        BY <1>0
      <3>. HIDE DEF keys
      <3>. QED BY <1>0, <1>2, <3>1
    <2>2. below(uint64ToBytes(x)) = keys(k, x - 1)
      BY <1>3
    <2>. HIDE DEF below, keys
    <2>. QED BY <1>0, <2>1, <2>2
  <1>. HIDE DEF met, below
  <1>6. \A p \in 1..n : (CHOOSE l \in met : Cardinality(below(l)) = p - 1) = uint64ToBytes(k + p - 1)
    <2>. SUFFICES ASSUME NEW p \in 1..n
                  PROVE  (CHOOSE l \in met : Cardinality(below(l)) = p - 1) = uint64ToBytes(k + p - 1)
      OBVIOUS
    <2>1. k + p - 1 \in k..(Len(s) - 1) /\ (k + p - 1) - k = p - 1
      BY <1>0
    <2>2. /\ uint64ToBytes(k + p - 1) \in met
          /\ Cardinality(below(uint64ToBytes(k + p - 1))) = p - 1
      BY <1>1, <1>5, <2>1
    <2>3. ASSUME NEW l \in met, Cardinality(below(l)) = p - 1 PROVE l = uint64ToBytes(k + p - 1)
      <3>1. PICK x \in k..(Len(s) - 1) : l = uint64ToBytes(x)
        BY <1>1
      <3>2. x - k = p - 1
        BY <1>5, <2>3, <3>1
      <3>3. x = k + p - 1
        BY <1>0, <3>2
      <3>. QED BY <3>1, <3>3
    <2>. QED BY <2>2, <2>3
  <1>7. Scan(b, uint64ToBytes(k)) = [p \in 1..Cardinality(met) |->
                                        CHOOSE l \in met : Cardinality(below(l)) = p - 1]
    BY Zenon DEF Scan, met, below
  <1>8. Scan(b, uint64ToBytes(k)) = [p \in 1..n |-> uint64ToBytes(k + p - 1)]
    BY <1>4, <1>6, <1>7
  <1>. QED BY <1>8 DEF n

\* What the queries answer: what the slice does.
LEMMA QueriesAnswer ==
    ASSUME NEW b, NEW s, Holds(b, s)
    PROVE  /\ \A k \in Index : GetEntriesFrom(b, k) = SliceGetEntriesFrom(s, k)
           /\ LoadAllEntries(b) = s
           /\ LastIndex(b) = IF s = <<>> THEN 0 ELSE Len(s) - 1
           /\ LastTerm(b) = SliceLastTerm(s)
  <1>0. s \in Seq(StoredEntry) /\ Len(s) \in Nat /\ 0 \in Index
    BY HoldsFacts, StoreAssumption DEF Holds, Index
  <1>1. ASSUME NEW k \in Index PROVE GetEntriesFrom(b, k) = SliceGetEntriesFrom(s, k)
    <2>. DEFINE n == IF k < Len(s) THEN Len(s) - k ELSE 0
                keys == Scan(b, uint64ToBytes(k))
                all == Values(b, keys)
                r == SliceGetEntriesFrom(s, k)
    <2>0. k \in Nat /\ n \in Nat /\ \A p \in 1..n : k + p - 1 \in 0..(Len(s) - 1) /\ k + p \in 1..Len(s)
      BY <1>0, IndexFits
    <2>1. keys = [p \in 1..n |-> uint64ToBytes(k + p - 1)]
      BY ScanFinds
    <2>2. DOMAIN keys = 1..n /\ \A p \in 1..n : keys[p] = uint64ToBytes(k + p - 1)
      BY <2>1
    <2>3. all = [p \in 1..n |-> b[keys[p]]]
      BY <2>2 DEF Values
    <2>4. \A p \in 1..n : b[keys[p]] = s[k + p]
      <3>1. \A p \in 1..n : k + p - 1 \in 0..(Len(s) - 1) /\ (k + p - 1) + 1 = k + p
        BY <2>0
      <3>2. \A x \in 0..(Len(s) - 1) : b[uint64ToBytes(x)] = s[x + 1]
        BY HoldsFacts DEF GetEntry
      <3>. QED BY <2>2, <3>1, <3>2
    <2>5. \A p \in 1..n : s[k + p] \in StoredEntry
      BY <1>0, <2>0
    <2>. HIDE DEF n
    <2>6. all \in Seq(StoredEntry) /\ Len(all) = n /\ \A p \in 1..n : all[p] = s[k + p]
      <3>1. all = [p \in 1..n |-> s[k + p]]
        BY <2>3, <2>4
      <3>. HIDE DEF all
      <3>. QED BY <2>0, <2>5, <3>1
    <2>7. r \in Seq(StoredEntry) /\ Len(r) = n /\ \A p \in 1..n : r[p] = s[k + p]
      <3>1. CASE k < Len(s)
        <4>1. r = SubSeq(s, k + 1, Len(s))
          BY <1>0, <2>0, <3>1 DEF SliceGetEntriesFrom
        <4>2. /\ k + 1 \in Int /\ Len(s) \in Int /\ \A i \in (k + 1)..Len(s) : s[i] \in StoredEntry
              /\ Len(s) - (k + 1) + 1 = n /\ k + 1 <= Len(s)
              /\ \A p \in 1..n : (k + 1) + p - 1 = k + p
          BY <1>0, <2>0, <3>1 DEF n
        <4>3. /\ SubSeq(s, k + 1, Len(s)) \in Seq(StoredEntry)
              /\ Len(SubSeq(s, k + 1, Len(s))) = Len(s) - (k + 1) + 1
              /\ \A i \in 1..(Len(s) - (k + 1) + 1) : SubSeq(s, k + 1, Len(s))[i] = s[(k + 1) + i - 1]
          BY <4>2, SubSeqProperties
        <4>. QED BY <4>1, <4>2, <4>3
      <3>2. CASE ~(k < Len(s))
        BY <1>0, <2>0, <3>2 DEF SliceGetEntriesFrom, n
      <3>. QED BY <3>1, <3>2
    <2>. HIDE DEF all, r
    <2>8. all = r
      BY <2>6, <2>7, SeqEqual
    <2>. QED BY <2>8 DEF all, r, keys, GetEntriesFrom
  <1>2. LoadAllEntries(b) = s
    <2>1. LoadAllEntries(b) = SliceGetEntriesFrom(s, 0)
      BY <1>0, <1>1 DEF LoadAllEntries
    <2>2. CASE s = <<>>
      BY <1>0, <2>1, <2>2 DEF SliceGetEntriesFrom
    <2>3. CASE s # <<>>
      <3>1. Len(s) > 0
        BY <1>0, <2>3, EmptySeq
      <3>2. SubSeq(s, 0 + 1, Len(s)) = s
        BY <1>0, SubSeqFull
      <3>. QED BY <1>0, <2>1, <3>1, <3>2 DEF SliceGetEntriesFrom
    <2>. QED BY <2>2, <2>3
  <1>3. LastIndex(b) = IF s = <<>> THEN 0 ELSE Len(s) - 1
    <2>. DEFINE n == Len(s)
                keys == Scan(b, uint64ToBytes(0))
    <2>1. keys = [p \in 1..n |-> uint64ToBytes(p - 1)]
      <3>1. (IF 0 < Len(s) THEN Len(s) - 0 ELSE 0) = n /\ \A p \in 1..n : 0 + p - 1 = p - 1
        BY <1>0
      <3>2. keys = [p \in 1..(IF 0 < Len(s) THEN Len(s) - 0 ELSE 0) |-> uint64ToBytes(0 + p - 1)]
        BY <1>0, ScanFinds
      <3>. QED BY <3>1, <3>2
    <2>2. LastIndex(b) = IF keys = <<>> THEN 0 ELSE bytesToUint64(Last(keys))
      BY Zenon DEF LastIndex
    <2>. HIDE DEF keys
    <2>3. CASE n = 0
      BY <1>0, <2>1, <2>2, <2>3
    <2>4. CASE n > 0
      <3>1. keys # <<>> /\ Len(keys) = n /\ keys[n] = uint64ToBytes(n - 1)
        BY <1>0, <2>1, <2>4
      <3>2. n - 1 \in Index
        <4>1. n - 1 \in 0..(Len(s) - 1)
          BY <1>0, <2>4
        <4>. QED BY <4>1, HoldsFacts
      <3>3. Last(keys) = uint64ToBytes(n - 1) /\ s # <<>>
        BY <1>0, <2>4, <3>1 DEF Last
      <3>. QED BY <2>2, <3>1, <3>2, <3>3, KeyDecoded
    <2>. QED BY <1>0, <2>3, <2>4
  <1>4. LastTerm(b) = SliceLastTerm(s)
    BY <1>2 DEF LastTerm, SliceLastTerm
  <1>. QED BY <1>1, <1>2, <1>3, <1>4

\* Entries put behind the last.
LEMMA AppendHolds ==
    ASSUME NEW b, NEW s, Holds(b, s), NEW entries \in Seq(StoredEntry),
           \A l \in 1..Len(entries) : entries[l].index = Len(s) + l - 1,
           Len(s) + Len(entries) <= MaxIndex + 1
    PROVE  Holds(AppendEntries(b, entries), s \o entries)
  <1>. DEFINE put == {uint64ToBytes(entries[l].index) : l \in DOMAIN entries}
              old == DOMAIN b
              at(k) == {l \in DOMAIN entries : uint64ToBytes(entries[l].index) = k}
              D == old \cup put
              new == [k \in D |-> IF k \in put THEN entries[Max(at(k))] ELSE b[k]]
              e == Len(entries)
              t == s \o entries
  <1>0. /\ s \in Seq(StoredEntry) /\ Len(s) \in Nat /\ e \in Nat /\ DOMAIN entries = 1..e
        /\ MaxIndex \in Nat
    BY HoldsFacts, StoreAssumption DEF Holds
  <1>1. /\ t \in Seq(StoredEntry) /\ Len(t) = Len(s) + e
        /\ \A i \in 1..(Len(s) + e) : t[i] = IF i <= Len(s) THEN s[i] ELSE entries[i - Len(s)]
    BY <1>0, ConcatProperties
  <1>2. \A l \in 1..e : Len(s) + l - 1 \in Index /\ entries[l].index = Len(s) + l - 1
    BY <1>0 DEF Index
  <1>3. \A x \in 0..(Len(s) - 1) : x \in Index /\ b[uint64ToBytes(x)] = s[x + 1]
    BY HoldsFacts DEF GetEntry
  <1>4. old = {uint64ToBytes(x) : x \in 0..(Len(s) - 1)}
    BY HoldsFacts
  <1>5. put = {uint64ToBytes(x) : x \in Len(s)..(Len(s) + e - 1)}
    <2>1. \A l \in 1..e : Len(s) + l - 1 \in Len(s)..(Len(s) + e - 1)
      BY <1>0
    <2>2. \A x \in Len(s)..(Len(s) + e - 1) : x - Len(s) + 1 \in 1..e
                                              /\ Len(s) + (x - Len(s) + 1) - 1 = x
      BY <1>0
    <2>3. put = {uint64ToBytes(Len(s) + l - 1) : l \in 1..e}
      BY <1>0, <1>2
    <2>. HIDE DEF put
    <2>. QED BY <2>1, <2>2, <2>3
  <1>6. \A x \in 0..(Len(t) - 1) : x \in Index /\ (x < Len(s) \/ x \in Len(s)..(Len(s) + e - 1))
    BY <1>0, <1>1 DEF Index
  <1>. HIDE DEF put, old, t, e
  <1>7. D = {uint64ToBytes(x) : x \in 0..(Len(t) - 1)}
    <2>1. 0..(Len(t) - 1) = (0..(Len(s) - 1)) \cup (Len(s)..(Len(s) + e - 1))
      BY <1>0, <1>1
    <2>. QED BY <1>4, <1>5, <2>1
  <1>8. \A x \in 0..(Len(s) - 1) : uint64ToBytes(x) \notin put
    <2>1. \A x \in 0..(Len(s) - 1), y \in Len(s)..(Len(s) + e - 1) : x # y /\ x \in Index /\ y \in Index
      BY <1>0, <1>3, <1>1, <1>6
    <2>. QED BY <1>5, <2>1, KeyOrder
  <1>9. \A l \in 1..e : Max(at(uint64ToBytes(Len(s) + l - 1))) = l
    <2>. SUFFICES ASSUME NEW l \in 1..e PROVE Max(at(uint64ToBytes(Len(s) + l - 1))) = l
      OBVIOUS
    <2>1. \A k \in 1..e : uint64ToBytes(entries[k].index) = uint64ToBytes(Len(s) + l - 1) => k = l
      <3>1. \A k \in 1..e : uint64ToBytes(Len(s) + k - 1) = uint64ToBytes(Len(s) + l - 1)
                               => Len(s) + k - 1 = Len(s) + l - 1
        BY <1>2, KeyOrder
      <3>2. \A k \in 1..e : Len(s) + k - 1 = Len(s) + l - 1 => k = l
        BY <1>0
      <3>. QED BY <1>2, <3>1, <3>2
    <2>2. at(uint64ToBytes(Len(s) + l - 1)) = {l}
      BY <1>0, <1>2, <2>1 DEF e
    <2>3. Max({l}) = l
      <3>1. l >= l
        BY <1>0
      <3>. QED BY <3>1 DEF Max
    <2>. QED BY <2>2, <2>3
  <1>. HIDE DEF at
  <1>10. \A x \in 0..(Len(t) - 1) : new[uint64ToBytes(x)] = t[x + 1]
    <2>. SUFFICES ASSUME NEW x \in 0..(Len(t) - 1) PROVE new[uint64ToBytes(x)] = t[x + 1]
      OBVIOUS
    <2>1. uint64ToBytes(x) \in D
      BY <1>7
    <2>2. CASE x < Len(s)
      <3>1. x \in 0..(Len(s) - 1) /\ x + 1 \in 1..(Len(s) + e) /\ x + 1 <= Len(s)
        BY <1>0, <2>2
      <3>. QED BY <1>1, <1>3, <1>8, <2>1, <3>1
    <2>3. CASE x \in Len(s)..(Len(s) + e - 1)
      <3>. DEFINE l == x - Len(s) + 1
      <3>1. /\ l \in 1..e /\ Len(s) + l - 1 = x /\ x + 1 \in 1..(Len(s) + e)
            /\ ~(x + 1 <= Len(s)) /\ x + 1 - Len(s) = l
        BY <1>0, <2>3
      <3>2. uint64ToBytes(x) \in put
        BY <1>5, <2>3
      <3>3. Max(at(uint64ToBytes(x))) = l
        <4>. HIDE DEF l
        <4>. QED BY <1>9, <3>1
      <3>4. t[x + 1] = entries[l]
        <4>. HIDE DEF l
        <4>. QED BY <1>1, <3>1
      <3>. HIDE DEF l
      <3>. QED BY <2>1, <3>2, <3>3, <3>4
    <2>. QED BY <1>6, <2>2, <2>3
  <1>11. new = [k \in D |-> new[k]] /\ Len(t) <= MaxIndex + 1
    BY <1>0, <1>1 DEF e
  <1>. HIDE DEF new, D
  <1>12. Holds(new, t)
    BY <1>1, <1>7, <1>10, <1>11, HoldsIs
  <1>. QED BY <1>12, Zenon DEF AppendEntries, new, D, at, put, old, t

\* The entries from index k on are deleted.
LEMMA TruncateHolds ==
    ASSUME NEW b, NEW s, Holds(b, s), NEW k \in 0..Len(s)
    PROVE  Holds(TruncateFrom(b, k), SubSeq(s, 1, k))
  <1>. DEFINE n == IF k < Len(s) THEN Len(s) - k ELSE 0
              keys == Scan(b, uint64ToBytes(k))
              D == DOMAIN b \ ToSet(keys)
              new == [x \in D |-> b[x]]
              t == SubSeq(s, 1, k)
  <1>0. /\ s \in Seq(StoredEntry) /\ Len(s) \in Nat /\ Len(s) <= MaxIndex + 1 /\ k \in Index
        /\ k \in Nat /\ n \in Nat /\ MaxIndex \in Nat
    BY HoldsFacts, StoreAssumption DEF Holds, Index
  <1>1. t \in Seq(StoredEntry) /\ Len(t) = k /\ \A i \in 1..k : t[i] = s[i]
    <2>1. 1 \in Int /\ k \in Int /\ \A i \in 1..k : s[i] \in StoredEntry
      BY <1>0
    <2>2. /\ SubSeq(s, 1, k) \in Seq(StoredEntry)
          /\ Len(SubSeq(s, 1, k)) = IF 1 <= k THEN k - 1 + 1 ELSE 0
          /\ \A i \in 1..(k - 1 + 1) : SubSeq(s, 1, k)[i] = s[1 + i - 1]
      BY <2>1, SubSeqProperties
    <2>. QED BY <1>0, <2>2
  <1>2. ToSet(keys) = {uint64ToBytes(x) : x \in k..(Len(s) - 1)}
    <2>1. keys = [p \in 1..n |-> uint64ToBytes(k + p - 1)]
      BY <1>0, ScanFinds
    <2>2. ToSet(keys) = {uint64ToBytes(k + p - 1) : p \in 1..n}
      BY <2>1 DEF ToSet
    <2>3. \A p \in 1..n : k + p - 1 \in k..(Len(s) - 1)
      BY <1>0
    <2>4. \A x \in k..(Len(s) - 1) : x - k + 1 \in 1..n /\ k + (x - k + 1) - 1 = x
      BY <1>0
    <2>. HIDE DEF keys, n
    <2>. QED BY <2>2, <2>3, <2>4
  <1>3. DOMAIN b = {uint64ToBytes(x) : x \in 0..(Len(s) - 1)}
    BY HoldsFacts
  <1>4. \A x \in 0..(Len(s) - 1) : x \in Index /\ b[uint64ToBytes(x)] = s[x + 1]
    BY HoldsFacts DEF GetEntry
  <1>. HIDE DEF keys, n, t
  <1>5. D = {uint64ToBytes(x) : x \in 0..(Len(t) - 1)}
    <2>1. \A x \in 0..(k - 1) : x \in 0..(Len(s) - 1) /\ x \notin k..(Len(s) - 1)
      BY <1>0
    <2>2. \A x \in 0..(Len(s) - 1) : x \in 0..(k - 1) \/ x \in k..(Len(s) - 1)
      BY <1>0
    <2>3. \A x \in k..(Len(s) - 1) : x \in 0..(Len(s) - 1)
      BY <1>0
    <2>4. \A x \in 0..(k - 1) : uint64ToBytes(x) \notin ToSet(keys)
      BY <1>2, <1>4, <2>1, <2>3, KeyOrder
    <2>5. D = {uint64ToBytes(x) : x \in 0..(k - 1)}
      BY <1>2, <1>3, <2>1, <2>2, <2>4
    <2>. HIDE DEF D
    <2>. QED BY <1>1, <2>5
  <1>6. \A x \in 0..(Len(t) - 1) : new[uint64ToBytes(x)] = t[x + 1]
    <2>1. \A x \in 0..(Len(t) - 1) : /\ uint64ToBytes(x) \in D /\ x \in 0..(Len(s) - 1)
                                     /\ x + 1 \in 1..k
      BY <1>0, <1>1, <1>5
    <2>. HIDE DEF D
    <2>. QED BY <1>1, <1>4, <2>1
  <1>7. new = [x \in D |-> new[x]] /\ Len(t) <= MaxIndex + 1
    BY <1>0, <1>1
  <1>. HIDE DEF new, D
  <1>8. Holds(new, t)
    BY <1>1, <1>5, <1>6, <1>7, HoldsIs
  <1>. QED BY <1>8, Zenon DEF TruncateFrom, new, D, keys, t

-----------------------------------------------------------------------------
(* What a handler keeps.                                                     *)

\* The indexes of s are consecutive, its terms do not fall and it begins with
\* the sentinel.
Dense(s) ==
    /\ \A k \in 1..Len(s) : s[k].index = k - 1 /\ (k > 1 => s[k - 1].term <= s[k].term)
    /\ Len(s) > 0 => s[1] = Sentinel

\* The bucket and the slice of n hold the same log, which is not empty.
Kept(n) == Holds(n.bucket, n.slice) /\ Dense(n.slice) /\ n.slice # <<>>

\* entries can follow the last of s.
Follows(s, entries) ==
    /\ entries \in Seq(StoredEntry) /\ Len(s) + Len(entries) <= MaxIndex + 1
    /\ \A l \in 1..Len(entries) :
          /\ entries[l].index = Len(s) + l - 1
          /\ IF l = 1 THEN s[Len(s)].term <= entries[l].term
                      ELSE entries[l - 1].term <= entries[l].term

LEMMA StoreKeeps ==
    ASSUME NEW n, Kept(n), NEW entries, Follows(n.slice, entries)
    PROVE  /\ Kept(Store(n, entries))
           /\ Store(n, entries).slice = IF n.quota = 0 THEN n.slice ELSE n.slice \o entries
  <1>. DEFINE s == n.slice
              t == s \o entries
              e == Len(entries)
  <1>0. /\ s \in Seq(StoredEntry) /\ Len(s) \in Nat /\ entries \in Seq(StoredEntry) /\ e \in Nat
        /\ Len(s) > 0 /\ Dense(s) /\ Holds(n.bucket, s)
    BY EmptySeq DEF Kept, Holds, Follows
  <1>1. /\ t \in Seq(StoredEntry) /\ Len(t) = Len(s) + e
        /\ \A i \in 1..(Len(s) + e) : t[i] = IF i <= Len(s) THEN s[i] ELSE entries[i - Len(s)]
    BY <1>0, ConcatProperties
  <1>2. Holds(AppendEntries(n.bucket, entries), t)
    BY <1>0, AppendHolds DEF Follows
  <1>. HIDE DEF t
  <1>3. Dense(t) /\ t # <<>>
    <2>1. ASSUME NEW k \in 1..Len(t)
          PROVE  t[k].index = k - 1 /\ (k > 1 => t[k - 1].term <= t[k].term)
      <3>1. CASE k <= Len(s)
        <4>1. k \in 1..Len(s) /\ (k > 1 => k - 1 \in 1..Len(s)) /\ k \in 1..(Len(s) + e)
              /\ (k > 1 => k - 1 \in 1..(Len(s) + e))
          BY <1>0, <1>1, <3>1
        <4>2. t[k] = s[k] /\ (k > 1 => t[k - 1] = s[k - 1])
          BY <1>0, <1>1, <4>1
        <4>. QED BY <1>0, <4>1, <4>2 DEF Dense
      <3>2. CASE k > Len(s)
        <4>1. PICK l \in 1..e : k = Len(s) + l
          <5>1. k - Len(s) \in 1..e /\ k = Len(s) + (k - Len(s))
            BY <1>0, <1>1, <3>2
          <5>. QED BY <5>1
        <4>2. t[k] = entries[l] /\ entries[l].index = k - 1
          <5>1. k \in 1..(Len(s) + e) /\ ~(k <= Len(s)) /\ k - Len(s) = l /\ Len(s) + l - 1 = k - 1
            BY <1>0, <4>1
          <5>2. entries[l].index = Len(s) + l - 1
            BY <4>1 DEF Follows
          <5>3. t[k] = entries[k - Len(s)]
            BY <1>1, <5>1
          <5>. QED BY <5>1, <5>2, <5>3
        <4>3. CASE l = 1
          <5>1. k - 1 \in 1..(Len(s) + e) /\ k - 1 <= Len(s) /\ k - 1 = Len(s)
            BY <1>0, <4>1, <4>3
          <5>2. t[k - 1] = s[Len(s)]
            BY <1>1, <5>1
          <5>3. s[Len(s)].term <= entries[l].term
            BY <4>1, <4>3 DEF Follows
          <5>. QED BY <4>2, <5>2, <5>3
        <4>4. CASE l # 1
          <5>1. /\ k - 1 \in 1..(Len(s) + e) /\ ~(k - 1 <= Len(s)) /\ k - 1 - Len(s) = l - 1
            BY <1>0, <4>1, <4>4
          <5>2. t[k - 1] = entries[k - 1 - Len(s)]
            BY <1>1, <5>1
          <5>3. entries[l - 1].term <= entries[l].term
            BY <4>1, <4>4 DEF Follows
          <5>. QED BY <4>2, <5>1, <5>2, <5>3
        <4>. QED BY <4>3, <4>4
      <3>. QED BY <1>0, <1>1, <3>1, <3>2
    <2>2. t[1] = Sentinel
      <3>1. 1 \in 1..(Len(s) + e) /\ 1 <= Len(s)
        BY <1>0
      <3>. QED BY <1>0, <1>1, <3>1 DEF Dense
    <2>3. t # <<>>
      BY <1>0, <1>1
    <2>. QED BY <2>1, <2>2, <2>3 DEF Dense
  <1>4. CASE n.quota = 0
    BY <1>4 DEF Store
  <1>5. CASE n.quota # 0
    <2>1. Store(n, entries).slice = t /\ Store(n, entries).bucket = AppendEntries(n.bucket, entries)
      BY <1>5 DEF Store, SliceAppendEntries, t
    <2>. QED BY <1>2, <1>3, <1>5, <2>1 DEF Kept, t
  <1>. QED BY <1>4, <1>5

LEMMA CutKeeps ==
    ASSUME NEW n, Kept(n), NEW k \in 1..(Len(n.slice) - 1)
    PROVE  /\ Kept(Cut(n, k))
           /\ Cut(n, k).slice = IF n.quota = 0 THEN n.slice ELSE SubSeq(n.slice, 1, k)
  <1>. DEFINE s == n.slice
              t == SubSeq(s, 1, k)
  <1>0. /\ s \in Seq(StoredEntry) /\ Len(s) \in Nat /\ Len(s) > 0 /\ Dense(s)
        /\ Holds(n.bucket, s) /\ k \in Nat /\ k >= 1 /\ k < Len(s) /\ k \in 0..Len(s)
    BY EmptySeq DEF Kept, Holds
  <1>1. t \in Seq(StoredEntry) /\ Len(t) = k /\ \A i \in 1..k : t[i] = s[i]
    <2>1. 1 \in Int /\ k \in Int /\ \A i \in 1..k : s[i] \in StoredEntry
      BY <1>0
    <2>2. /\ SubSeq(s, 1, k) \in Seq(StoredEntry)
          /\ Len(SubSeq(s, 1, k)) = IF 1 <= k THEN k - 1 + 1 ELSE 0
          /\ \A i \in 1..(k - 1 + 1) : SubSeq(s, 1, k)[i] = s[1 + i - 1]
      BY <2>1, SubSeqProperties
    <2>. QED BY <1>0, <2>2
  <1>2. Holds(TruncateFrom(n.bucket, k), t)
    BY <1>0, TruncateHolds
  <1>3. SliceTruncateFrom(s, k) = t
    BY <1>0 DEF SliceTruncateFrom
  <1>. HIDE DEF t
  <1>4. Dense(t) /\ t # <<>>
    <2>1. ASSUME NEW i \in 1..k
          PROVE  t[i].index = i - 1 /\ (i > 1 => t[i - 1].term <= t[i].term)
      <3>1. i \in 1..Len(s) /\ (i > 1 => i - 1 \in 1..k)
        BY <1>0
      <3>2. t[i] = s[i] /\ (i > 1 => t[i - 1] = s[i - 1])
        BY <1>1, <3>1
      <3>. QED BY <1>0, <3>1, <3>2 DEF Dense
    <2>2. t[1] = Sentinel /\ t # <<>>
      <3>1. 1 \in 1..k
        BY <1>0
      <3>2. t[1] = s[1] /\ s[1] = Sentinel
        BY <1>0, <1>1, <3>1 DEF Dense
      <3>. QED BY <1>0, <1>1, <3>2
    <2>. QED BY <1>1, <2>1, <2>2 DEF Dense
  <1>5. CASE n.quota = 0
    BY <1>5 DEF Cut
  <1>6. CASE n.quota # 0
    <2>1. Cut(n, k).slice = t /\ Cut(n, k).bucket = TruncateFrom(n.bucket, k)
      BY <1>3, <1>6 DEF Cut
    <2>. QED BY <1>2, <1>4, <1>6, <2>1 DEF Kept, t
  <1>. QED BY <1>5, <1>6

\* becomeLeader and ProposeCommand.
LEMMA LeaderAppendKeeps ==
    ASSUME NEW n, Kept(n), NEW t \in Nat, LastTerm(n.bucket) <= t, LastIndex(n.bucket) < MaxIndex
    PROVE  Kept(LeaderAppend(n, t))
  <1>. DEFINE s == n.slice
              e == [index |-> LastIndex(n.bucket) + 1, term |-> t]
  <1>0. s \in Seq(StoredEntry) /\ Len(s) \in Nat /\ Len(s) > 0 /\ s # <<>> /\ MaxIndex \in Nat
    BY EmptySeq, StoreAssumption DEF Kept, Holds
  <1>1. LastIndex(n.bucket) = Len(s) - 1 /\ LastTerm(n.bucket) = s[Len(s)].term
    BY <1>0, QueriesAnswer DEF Kept, SliceLastTerm, Last
  <1>2. e \in StoredEntry /\ e.index = Len(s) /\ e.term = t
    BY <1>0, <1>1 DEF StoredEntry
  <1>. HIDE DEF e
  <1>3. Follows(s, <<e>>)
    <2>1. <<e>> \in Seq(StoredEntry) /\ Len(<<e>>) = 1 /\ <<e>>[1] = e
      BY <1>2
    <2>. QED BY <1>0, <1>1, <1>2, <2>1 DEF Follows
  <1>4. LeaderAppend(n, t) = Store(n, <<e>>)
    BY DEF LeaderAppend, e
  <1>. QED BY <1>3, <1>4, StoreKeeps

\* The batch of a leader.
LEMMA BatchFacts ==
    ASSUME NEW m \in Batch
    PROVE  LET r == Request(m)
           IN  /\ r.prevLogIndex \in Nat /\ r.prevLogTerm \in Nat
               /\ r.prevLogIndex = 0 <=> r.prevLogTerm = 0
               /\ r.entries \in Seq(StoredEntry) /\ r.prevLogIndex + Len(r.entries) <= MaxIndex
               /\ \A k \in 1..Len(r.entries) :
                     /\ r.entries[k].index = r.prevLogIndex + k
                     /\ r.prevLogTerm <= r.entries[k].term
                     /\ k > 1 => r.entries[k - 1].term <= r.entries[k].term
  <1>. DEFINE r == Request(m)
  <1>1. PICK j \in 0..2 : m.terms \in [1..j -> 1..MaxTerm]
    BY DEF Batch
  <1>2. j \in Nat /\ DOMAIN m.terms = 1..j /\ Len(m.terms) = j /\ MaxTerm \in Nat /\ MaxIndex \in Nat
    BY <1>1, StoreAssumption
  <1>3. /\ m.prevLogIndex \in Nat /\ m.prevLogTerm \in Nat
        /\ m.prevLogIndex = 0 <=> m.prevLogTerm = 0
        /\ m.prevLogIndex + j <= MaxIndex
        /\ \A k \in 1..j : /\ m.terms[k] \in Nat /\ m.prevLogTerm <= m.terms[k]
                           /\ k > 1 => m.terms[k - 1] <= m.terms[k]
    BY <1>1, <1>2 DEF Batch
  <1>. DEFINE entries == [k \in 1..j |-> [index |-> m.prevLogIndex + k, term |-> m.terms[k]]]
  <1>4. r.prevLogIndex = m.prevLogIndex /\ r.prevLogTerm = m.prevLogTerm /\ r.entries = entries
    BY <1>2 DEF Request
  <1>5. /\ entries \in Seq(StoredEntry) /\ Len(entries) = j
        /\ \A k \in 1..j : entries[k].index = m.prevLogIndex + k /\ entries[k].term = m.terms[k]
    BY <1>2, <1>3 DEF StoredEntry
  <1>. HIDE DEF entries, r
  <1>6. /\ r.prevLogIndex \in Nat /\ r.prevLogTerm \in Nat
        /\ r.prevLogIndex = 0 <=> r.prevLogTerm = 0
        /\ r.entries \in Seq(StoredEntry) /\ r.prevLogIndex + Len(r.entries) <= MaxIndex
        /\ \A k \in 1..Len(r.entries) :
              /\ r.entries[k].index = r.prevLogIndex + k
              /\ r.prevLogTerm <= r.entries[k].term
              /\ k > 1 => r.entries[k - 1].term <= r.entries[k].term
    BY <1>3, <1>4, <1>5
  <1>. QED BY <1>6 DEF r

\* HandleAppendEntries told with the slice s alone: whether the entry before the
\* batch is there, and which entries of the batch are not.
Matches(s, r) ==
    r.prevLogIndex > 0 => r.prevLogIndex < Len(s) /\ s[r.prevLogIndex + 1].term = r.prevLogTerm

Differing(s, r) ==
    {k \in 1..Len(r.entries) :
        r.prevLogIndex + k >= Len(s) \/ s[r.prevLogIndex + k + 1].term # r.entries[k].term}

\* The log that Reconcile leaves when q transactions succeed.
Reconciled(s, r, q) ==
    LET first == Min(Differing(s, r))
        from == r.prevLogIndex + first
        rest == SubSeq(r.entries, first, Len(r.entries))
    IN  IF ~Matches(s, r) \/ Differing(s, r) = {} \/ q = 0 THEN s
        ELSE IF from >= Len(s) THEN s \o rest
        ELSE IF q = 1 THEN SubSeq(s, 1, from) ELSE SubSeq(s, 1, from) \o rest

LEMMA SliceDecides ==
    ASSUME NEW n, Kept(n), NEW m \in Batch
    PROVE  LET r == Request(m)
           IN  /\ PrevMatches(n, r) <=> Matches(n.slice, r)
               /\ Unstored(n, r) = Differing(n.slice, r)
               /\ \A k \in 1..Len(r.entries) :
                     Found(n.bucket, r.prevLogIndex + k) <=> r.prevLogIndex + k < Len(n.slice)
  <1>. DEFINE r == Request(m)
              s == n.slice
              b == n.bucket
  <1>0. /\ r.prevLogIndex \in Nat /\ r.entries \in Seq(StoredEntry) /\ Len(r.entries) \in Nat
        /\ r.prevLogIndex + Len(r.entries) <= MaxIndex /\ MaxIndex \in Nat
    BY BatchFacts, StoreAssumption
  <1>1. /\ Len(s) \in Nat /\ \A x \in Index : Found(b, x) <=> x < Len(s)
        /\ \A x \in 0..(Len(s) - 1) : GetEntry(b, x) = s[x + 1]
    BY HoldsFacts DEF Kept
  <1>. HIDE DEF r, s, b
  <1>2. r.prevLogIndex \in Index /\ \A k \in 1..Len(r.entries) : r.prevLogIndex + k \in Index
    BY <1>0 DEF Index
  <1>3. \A x \in Index : Found(b, x) => GetEntry(b, x) = s[x + 1]
    BY <1>0, <1>1 DEF Index
  <1>4. PrevMatches(n, r) <=> Matches(s, r)
    BY <1>1, <1>2, <1>3 DEF PrevMatches, Matches, b
  <1>5. ASSUME NEW k \in 1..Len(r.entries)
        PROVE  /\ Found(b, r.prevLogIndex + k) <=> r.prevLogIndex + k < Len(s)
               /\ \/ ~Found(b, r.prevLogIndex + k)
                  \/ GetEntry(b, r.prevLogIndex + k).term # r.entries[k].term
                  <=>
                  (r.prevLogIndex + k >= Len(s) \/ s[r.prevLogIndex + k + 1].term # r.entries[k].term)
    <2>. DEFINE x == r.prevLogIndex + k
    <2>1. x \in Index /\ x \in Nat
      BY <1>0, <1>2
    <2>. HIDE DEF x
    <2>2. (Found(b, x) <=> x < Len(s)) /\ (Found(b, x) => GetEntry(b, x) = s[x + 1])
      BY <1>1, <1>3, <2>1
    <2>3. Found(b, x) <=> ~(x >= Len(s))
      BY <1>1, <2>1, <2>2
    <2>4. (~Found(b, x) \/ GetEntry(b, x).term # r.entries[k].term)
          <=> (x >= Len(s) \/ s[x + 1].term # r.entries[k].term)
      BY <2>2, <2>3, Zenon
    <2>. QED BY <2>2, <2>4 DEF x
  <1>6. Unstored(n, r) = Differing(s, r)
    BY <1>0, <1>5, Zenon DEF Unstored, Differing, b
  <1>. QED BY <1>4, <1>5, <1>6 DEF r, s, b

\* Where the batch departs from the log, the log reaches at least up to there
\* and the rest of the batch can follow.
LEMMA RestFollows ==
    ASSUME NEW s \in Seq(StoredEntry), s # <<>>, Dense(s), Len(s) <= MaxIndex + 1, NEW m \in Batch,
           Matches(s, Request(m)), Differing(s, Request(m)) # {}
    PROVE  LET r == Request(m)
               first == Min(Differing(s, r))
               from == r.prevLogIndex + first
               rest == SubSeq(r.entries, first, Len(r.entries))
           IN  /\ first \in 1..Len(r.entries) /\ from \in 1..Len(s)
               /\ Follows(SubSeq(s, 1, from), rest)
  <1>. DEFINE r == Request(m)
              prev == r.prevLogIndex
              U == Differing(s, r)
              f == Min(U)
              from == prev + f
              rest == SubSeq(r.entries, f, Len(r.entries))
              c == SubSeq(s, 1, from)
              e == Len(r.entries)
  <1>0. /\ prev \in Nat /\ r.entries \in Seq(StoredEntry) /\ e \in Nat /\ prev + e <= MaxIndex
        /\ MaxIndex \in Nat /\ Len(s) \in Nat /\ Len(s) > 0 /\ s[1] = Sentinel
        /\ prev = 0 => r.prevLogTerm = 0
        /\ \A k \in 1..e : /\ r.entries[k].index = prev + k /\ r.prevLogTerm <= r.entries[k].term
                           /\ r.entries[k] \in StoredEntry
                           /\ k > 1 => r.entries[k - 1].term <= r.entries[k].term
    <2>1. /\ prev \in Nat /\ r.entries \in Seq(StoredEntry) /\ prev + e <= MaxIndex
          /\ prev = 0 => r.prevLogTerm = 0
          /\ \A k \in 1..e : /\ r.entries[k].index = prev + k /\ r.prevLogTerm <= r.entries[k].term
                             /\ k > 1 => r.entries[k - 1].term <= r.entries[k].term
      BY BatchFacts, Zenon
    <2>2. MaxIndex \in Nat /\ Len(s) \in Nat /\ Len(s) > 0 /\ s[1] = Sentinel
      BY EmptySeq, StoreAssumption DEF Dense
    <2>. HIDE DEF r
    <2>3. e \in Nat /\ \A k \in 1..e : r.entries[k] \in StoredEntry
      BY <2>1
    <2>. QED BY <2>1, <2>2, <2>3
  <1>. HIDE DEF r
  <1>1. f \in U /\ (\A x \in U : f <= x) /\ f \in 1..e
    <2>1. U \subseteq 1..e
      BY DEF Differing
    <2>2. U # {}
      BY DEF r
    <2>. HIDE DEF U, e
    <2>3. U \in SUBSET Nat
      BY <1>0, <2>1
    <2>. QED BY <2>1, <2>2, <2>3, LeastNumber
  <1>. HIDE DEF U, f, e, prev
  <1>9. prev \in Nat /\ f \in Nat /\ e \in Nat /\ f <= e /\ f >= 1 /\ from = prev + f
    <2>1. e \in Nat /\ prev \in Nat
      BY <1>0
    <2>. QED BY <1>1, <2>1
  <1>2. ASSUME NEW k \in 1..e, k < f PROVE prev + k < Len(s) /\ s[prev + k + 1].term = r.entries[k].term
    <2>0. k \in Nat
      BY <1>9
    <2>1. k \notin U
      BY <1>9, <1>1, <1>2, <2>0
    <2>2. ~(prev + k >= Len(s)) /\ s[prev + k + 1].term = r.entries[k].term
      BY <2>1 DEF U, Differing, prev, e
    <2>. QED BY <1>0, <1>9, <2>0, <2>2
  <1>10. prev > 0 => prev < Len(s) /\ s[prev + 1].term = r.prevLogTerm
    BY DEF Matches, prev, r
  <1>3. from \in 1..Len(s) /\ f \in Nat
    <2>1. CASE f = 1
      BY <1>0, <1>10, <1>9, <2>1
    <2>2. CASE f > 1
      <3>1. f - 1 \in 1..e /\ f - 1 < f
        BY <1>0, <1>1, <2>2
      <3>2. prev + (f - 1) < Len(s)
        BY <1>2, <3>1
      <3>. QED BY <1>0, <1>1, <3>2
    <2>. QED BY <1>0, <1>1, <2>1, <2>2
  <1>4. s[from].term <= r.entries[f].term
    <2>1. CASE f = 1
      <3>1. s[prev + 1].term = r.prevLogTerm
        <4>1. CASE prev = 0
          BY <1>0, <4>1 DEF Sentinel
        <4>2. CASE prev > 0
          BY <1>10, <4>2
        <4>. QED BY <1>9, <4>1, <4>2
      <3>. QED BY <1>0, <1>1, <2>1, <3>1
    <2>2. CASE f > 1
      <3>1. f - 1 \in 1..e /\ f - 1 < f /\ prev + (f - 1) + 1 = from
        BY <1>9, <2>2
      <3>2. s[prev + (f - 1) + 1].term = r.entries[f - 1].term
        BY <1>2, <3>1
      <3>3. r.entries[f - 1].term <= r.entries[f].term
        BY <1>0, <1>1, <2>2
      <3>. QED BY <3>1, <3>2, <3>3
    <2>. QED BY <1>0, <1>1, <2>1, <2>2
  <1>5. /\ rest \in Seq(StoredEntry) /\ Len(rest) = e - f + 1
        /\ \A l \in 1..(e - f + 1) : rest[l] = r.entries[f + l - 1]
    <2>1. f \in Int /\ e \in Int /\ \A i \in f..e : r.entries[i] \in StoredEntry
      BY <1>0, <1>1
    <2>2. /\ SubSeq(r.entries, f, e) \in Seq(StoredEntry)
          /\ Len(SubSeq(r.entries, f, e)) = IF f <= e THEN e - f + 1 ELSE 0
          /\ \A i \in 1..(e - f + 1) : SubSeq(r.entries, f, e)[i] = r.entries[f + i - 1]
      BY <2>1, SubSeqProperties
    <2>. QED BY <1>0, <1>1, <2>2 DEF e
  <1>6. Len(c) = from /\ c[from] = s[from]
    <2>1. 1 \in Int /\ from \in Int /\ \A i \in 1..from : s[i] \in StoredEntry
      BY <1>3
    <2>2. /\ Len(SubSeq(s, 1, from)) = IF 1 <= from THEN from - 1 + 1 ELSE 0
          /\ \A i \in 1..(from - 1 + 1) : SubSeq(s, 1, from)[i] = s[1 + i - 1]
      BY <2>1, SubSeqProperties
    <2>. QED BY <1>3, <2>2
  <1>. HIDE DEF rest, c, from
  <1>8. Follows(c, rest)
    <2>1. Len(c) + Len(rest) <= MaxIndex + 1
      BY <1>0, <1>5, <1>6, <1>9
    <2>2. ASSUME NEW l \in 1..Len(rest)
          PROVE  /\ rest[l].index = Len(c) + l - 1
                 /\ IF l = 1 THEN c[Len(c)].term <= rest[l].term
                             ELSE rest[l - 1].term <= rest[l].term
      <3>1. f + l - 1 \in 1..e /\ l \in 1..(e - f + 1) /\ (l # 1 => l - 1 \in 1..(e - f + 1))
            /\ (l # 1 => f + l - 1 > 1 /\ f + (l - 1) - 1 = f + l - 1 - 1)
            /\ prev + (f + l - 1) = from + l - 1 /\ (l = 1 => f + l - 1 = f)
        BY <1>5, <1>9
      <3>2. rest[l] = r.entries[f + l - 1] /\ (l # 1 => rest[l - 1] = r.entries[f + (l - 1) - 1])
        BY <1>5, <3>1
      <3>3. r.entries[f + l - 1].index = from + l - 1
        BY <1>0, <3>1
      <3>4. ASSUME l # 1 PROVE rest[l - 1].term <= rest[l].term
        <4>. DEFINE k == f + l - 1
        <4>1. k \in 1..e /\ k > 1 /\ f + (l - 1) - 1 = k - 1
          BY <1>9, <3>1, <3>4
        <4>2. rest[l] = r.entries[k] /\ rest[l - 1] = r.entries[k - 1]
          BY <3>2, <3>4, <4>1
        <4>. HIDE DEF k
        <4>3. r.entries[k - 1].term <= r.entries[k].term
          BY <1>0, <4>1
        <4>. QED BY <4>2, <4>3
      <3>. QED BY <1>4, <1>6, <3>1, <3>2, <3>3, <3>4
    <2>. QED BY <1>5, <2>1, <2>2 DEF Follows
  <1>. QED BY <1>1, <1>3, <1>8 DEF r, U, f, from, rest, c, e, prev

\* The loop over req.Entries, for every batch and every number of transactions
\* that succeed.
LEMMA ReconcileKeeps ==
    ASSUME NEW n, Kept(n), n.quota \in Nat, NEW m \in Batch
    PROVE  LET d == Reconcile(n, Request(m))
           IN  Kept(d) /\ d.slice = Reconciled(n.slice, Request(m), n.quota)
  <1>. DEFINE r == Request(m)
              s == n.slice
              first == Min(Differing(s, r))
              from == r.prevLogIndex + first
              rest == SubSeq(r.entries, first, Len(r.entries))
              cut == SubSeq(s, 1, from)
              whole == ~Matches(s, r) \/ Differing(s, r) = {}
  <1>0. s \in Seq(StoredEntry) /\ s # <<>> /\ Dense(s) /\ Len(s) <= MaxIndex + 1 /\ Len(s) \in Nat
    BY DEF Kept, Holds
  <1>1. Reconcile(n, r) = IF whole THEN n
                          ELSE IF ~Found(n.bucket, from) THEN Store(n, rest)
                          ELSE Store(Cut(n, from), rest)
    <2>1. (PrevMatches(n, r) <=> Matches(s, r)) /\ Unstored(n, r) = Differing(s, r)
      BY SliceDecides
    <2>. QED BY <2>1, Zenon DEF Reconcile
  <1>2. Reconciled(s, r, n.quota) =
           IF whole \/ n.quota = 0 THEN s
           ELSE IF from >= Len(s) THEN s \o rest
           ELSE IF n.quota = 1 THEN cut ELSE cut \o rest
    BY Zenon DEF Reconciled
  <1>3. CASE whole
    BY <1>1, <1>2, <1>3, Zenon
  <1>4. CASE ~whole
    <2>1. first \in 1..Len(r.entries) /\ from \in 1..Len(s) /\ Follows(cut, rest)
      BY <1>0, <1>4, RestFollows
    <2>2. Found(n.bucket, from) <=> from < Len(s)
      BY <2>1, SliceDecides
    <2>. HIDE DEF from, first, r, rest, whole
    <2>3. CASE n.quota = 0
      <3>1. Cut(n, from) = n /\ Store(n, rest) = n
        BY <2>3 DEF Cut, Store
      <3>2. Reconcile(n, r) = n
        BY <1>1, <3>1, Zenon
      <3>3. Reconciled(s, r, n.quota) = s
        BY <1>2, <2>3, Zenon
      <3>. QED BY <3>2, <3>3, Zenon DEF r
    <2>4. CASE n.quota # 0 /\ from >= Len(s)
      <3>1. from = Len(s) /\ ~(from < Len(s))
        BY <1>0, <2>1, <2>4
      <3>2. cut = s
        BY <1>0, <3>1
      <3>3. Reconcile(n, r) = Store(n, rest)
        BY <1>1, <1>4, <2>2, <3>1, Zenon
      <3>4. Kept(Store(n, rest)) /\ Store(n, rest).slice = s \o rest
        BY <2>1, <2>4, <3>2, StoreKeeps, Zenon
      <3>5. Reconciled(s, r, n.quota) = s \o rest
        BY <1>2, <1>4, <2>4, Zenon
      <3>. QED BY <3>3, <3>4, <3>5, Zenon DEF r
    <2>5. CASE n.quota # 0 /\ ~(from >= Len(s))
      <3>1. from < Len(s) /\ from \in 1..(Len(s) - 1)
        BY <1>0, <2>1, <2>5
      <3>. DEFINE c == Cut(n, from)
      <3>2. Kept(c) /\ c.slice = cut
        BY <2>5, <3>1, CutKeeps, Zenon
      <3>3. c.quota = n.quota - 1
        BY <2>5 DEF Cut
      <3>. HIDE DEF c
      <3>4. /\ Kept(Store(c, rest))
            /\ Store(c, rest).slice = IF c.quota = 0 THEN c.slice ELSE c.slice \o rest
        BY <2>1, <3>2, StoreKeeps, Zenon
      <3>5. Reconcile(n, r) = Store(c, rest)
        BY <1>1, <1>4, <2>2, <3>1, Zenon DEF c
      <3>6. c.quota = 0 <=> n.quota = 1
        BY <3>3
      <3>7. Reconciled(s, r, n.quota) = IF n.quota = 1 THEN cut ELSE cut \o rest
        BY <1>2, <1>4, <2>5, Zenon
      <3>. QED BY <3>2, <3>4, <3>5, <3>6, <3>7, Zenon DEF r
    <2>. QED BY <2>3, <2>4, <2>5, Zenon
  <1>. QED BY <1>3, <1>4, Zenon

-----------------------------------------------------------------------------
(* The inductive invariant.                                                  *)

\* The bucket holds a log, and while the node runs the slice is that log.
StoreInv ==
    LET s == LoadAllEntries(bucket)
    IN  Holds(bucket, s) /\ Dense(s) /\ up \in BOOLEAN /\ (up => slice = s /\ s # <<>>)

LEMMA RunningNodeIsKept ==
    ASSUME StoreInv, up, NEW w
    PROVE  Kept(With(w)) /\ With(w).quota = w /\ With(w).slice = slice /\ With(w).bucket = bucket
  BY DEF StoreInv, Kept, With

\* A handler that keeps the two together restores the invariant, whether or not
\* the process dies at its end.
LEMMA EndsKeepInv ==
    ASSUME NEW n, Kept(n), Ends(n)
    PROVE  StoreInv'
  <1>1. bucket' = n.bucket /\ ((slice' = n.slice /\ up' = TRUE) \/ up' = FALSE)
    BY DEF Ends
  <1>2. LoadAllEntries(n.bucket) = n.slice
    BY QueriesAnswer DEF Kept
  <1>3. LoadAllEntries(bucket') = n.slice
    BY <1>1, <1>2, Zenon
  <1>. QED BY <1>1, <1>3, Zenon DEF StoreInv, Kept

LEMMA EmptyLog == Holds([k \in {} |-> Sentinel], <<>>) /\ Dense(<<>>)
  <1>. DEFINE b == [k \in {} |-> Sentinel]
  <1>1. <<>> \in Seq(StoredEntry) /\ Len(<<>>) = 0 /\ MaxIndex \in Nat
    BY StoreAssumption
  <1>2. {uint64ToBytes(x) : x \in 0..(Len(<<>>) - 1)} = {}
    BY <1>1
  <1>3. Holds(b, <<>>)
    <2>1. b = [k \in {} |-> b[k]] /\ Len(<<>>) <= MaxIndex + 1 /\ 0..(Len(<<>>) - 1) = {}
      BY <1>1
    <2>2. b = [k \in {uint64ToBytes(x) : x \in 0..(Len(<<>>) - 1)} |-> <<>>[bytesToUint64(k) + 1]]
      BY <1>2, <2>1
    <2>. HIDE DEF b
    <2>. QED BY <1>1, <2>1, <2>2 DEF Holds
  <1>. QED BY <1>1, <1>3 DEF Dense

LEMMA OpenedLog ==
    ASSUME NEW b, NEW s, Holds(b, s), Dense(s)
    PROVE  \E t : Holds(NewBboltStore(b), t) /\ Dense(t) /\ t # <<>>
  <1>0. s \in Seq(StoredEntry) /\ Len(s) \in Nat /\ 0 \in Index /\ MaxIndex \in Nat
    BY HoldsFacts, StoreAssumption DEF Holds, Index
  <1>1. Found(b, 0) <=> 0 < Len(s)
    BY <1>0, HoldsFacts
  <1>2. CASE Len(s) > 0
    BY <1>0, <1>1, <1>2 DEF NewBboltStore
  <1>3. CASE s = <<>>
    <2>1. <<Sentinel>> \in Seq(StoredEntry) /\ Len(<<Sentinel>>) = 1 /\ <<Sentinel>>[1] = Sentinel
          /\ Sentinel.index = 0
      BY DEF Sentinel, StoredEntry
    <2>2. Len(s) = 0 /\ Len(s) + 1 <= MaxIndex + 1
      BY <1>0, <1>3
    <2>6. s \o <<Sentinel>> = <<Sentinel>>
      BY <1>3, <2>1, ConcatEmptySeq
    <2>7. /\ Len(s) + Len(<<Sentinel>>) <= MaxIndex + 1
          /\ \A l \in 1..Len(<<Sentinel>>) : <<Sentinel>>[l].index = Len(s) + l - 1
      <3>1. ASSUME NEW l \in 1..Len(<<Sentinel>>) PROVE <<Sentinel>>[l].index = Len(s) + l - 1
        <4>1. l = 1 /\ Len(s) + l - 1 = 0
          BY <2>1, <2>2
        <4>. QED BY <2>1, <4>1
      <3>. QED BY <2>1, <2>2, <3>1
    <2>3. Holds(AppendEntries(b, <<Sentinel>>), s \o <<Sentinel>>)
      BY <2>1, <2>7, AppendHolds
    <2>4. Holds(NewBboltStore(b), <<Sentinel>>)
      BY <1>1, <2>2, <2>3, <2>6 DEF NewBboltStore
    <2>5. Dense(<<Sentinel>>) /\ <<Sentinel>> # <<>>
      BY <2>1 DEF Dense
    <2>. QED BY <2>4, <2>5
  <1>. QED BY <1>0, <1>2, <1>3, EmptySeq

LEMMA StoreInvHolds == Spec => []StoreInv
  <1>1. Init => StoreInv
    <2>. SUFFICES ASSUME Init PROVE StoreInv
      OBVIOUS
    <2>1. LoadAllEntries(bucket) = <<>>
      BY EmptyLog, QueriesAnswer DEF Init
    <2>. QED BY <2>1, EmptyLog DEF Init, StoreInv
  <1>2. StoreInv /\ [Next]_vars => StoreInv'
    <2>. SUFFICES ASSUME StoreInv, [Next]_vars PROVE StoreInv'
      OBVIOUS
    <2>1. CASE Open
      <3>1. PICK t : Holds(NewBboltStore(bucket), t) /\ Dense(t) /\ t # <<>>
        BY OpenedLog DEF StoreInv
      <3>2. LoadAllEntries(NewBboltStore(bucket)) = t
        BY <3>1, QueriesAnswer
      <3>3. bucket' = NewBboltStore(bucket) /\ slice' = LoadAllEntries(bucket') /\ up' = TRUE
        BY <2>1 DEF Open
      <3>4. LoadAllEntries(bucket') = t
        BY <3>2, <3>3, Zenon
      <3>. QED BY <3>1, <3>3, <3>4, Zenon DEF StoreInv
    <2>2. ASSUME NEW t \in 1..MaxTerm, Lead(t) PROVE StoreInv'
      <3>1. PICK w \in Quota : Ends(LeaderAppend(With(w), t))
        BY <2>2 DEF Lead
      <3>2. up /\ t \in Nat /\ LastTerm(bucket) <= t /\ LastIndex(bucket) < MaxIndex
        BY <2>2, StoreAssumption DEF Lead
      <3>3. Kept(With(w)) /\ With(w).bucket = bucket
        BY <3>2, RunningNodeIsKept
      <3>4. Kept(LeaderAppend(With(w), t))
        BY <3>2, <3>3, LeaderAppendKeeps
      <3>. QED BY <3>1, <3>4, EndsKeepInv
    <2>3. ASSUME NEW m \in Batch, Follow(m) PROVE StoreInv'
      <3>1. PICK w \in Quota : Ends(Reconcile(With(w), Request(m)))
        BY <2>3 DEF Follow
      <3>2. up /\ w \in Nat
        BY <2>3 DEF Follow, Quota
      <3>3. Kept(With(w)) /\ With(w).quota = w
        BY <3>2, RunningNodeIsKept
      <3>4. Kept(Reconcile(With(w), Request(m)))
        BY <3>2, <3>3, ReconcileKeeps
      <3>. QED BY <3>1, <3>4, EndsKeepInv
    <2>4. CASE UNCHANGED vars
      BY <2>4 DEF StoreInv, vars
    <2>. QED BY <2>1, <2>2, <2>3, <2>4 DEF Next
  <1>. QED BY <1>1, <1>2, PTL DEF Spec

-----------------------------------------------------------------------------
(* What holds of the stored log.                                             *)

\* A cursor of bbolt meets the sentinel and then the entries 1, 2, 3, ... with no
\* gap and terms that never fall: AppendEntries and TruncateFrom keep it so.
THEOREM StoredLogIsDense == Spec => []LogDense
  <1>1. StoreInv => LogDense
    <2>. SUFFICES ASSUME StoreInv PROVE LogDense
      OBVIOUS
    <2>. DEFINE s == LoadAllEntries(bucket)
    <2>1. Holds(bucket, s) /\ Dense(s) /\ (up => s # <<>>) /\ s \in Seq(StoredEntry)
      BY DEF StoreInv, Holds
    <2>2. Len(s) \in Nat /\ \A x \in 0..(Len(s) - 1) : GetEntry(bucket, x) = s[x + 1]
      BY <2>1, HoldsFacts
    <2>. HIDE DEF s
    <2>3. up => Len(s) > 0
      BY <2>1, <2>2, EmptySeq
    <2>4. ASSUME NEW k \in 1..Len(s) PROVE GetEntry(bucket, k - 1) = s[k]
      <3>1. k - 1 \in 0..(Len(s) - 1) /\ (k - 1) + 1 = k
        BY <2>2
      <3>. QED BY <2>2, <3>1
    <2>5. /\ up => Len(s) > 0
          /\ \A k \in 1..Len(s) : /\ s[k].index = k - 1
                                  /\ GetEntry(bucket, k - 1) = s[k]
                                  /\ k > 1 => s[k - 1].term <= s[k].term
          /\ Len(s) > 0 => s[1] = Sentinel
      BY <2>1, <2>3, <2>4 DEF Dense
    <2>. QED BY <2>5, Zenon DEF LogDense, s
  <1>. QED BY <1>1, StoreInvHolds, PTL

\* bbolt_store.go and memory_store.go answer every query alike, beyond the ends
\* of the log too, whatever transactions have failed and wherever the process
\* has died.
THEOREM TheBackendsAgree == Spec => []BackendsAgree
  <1>1. StoreInv => BackendsAgree
    <2>. SUFFICES ASSUME StoreInv, up PROVE BackendsAgree
      BY DEF BackendsAgree
    <2>1. /\ Holds(bucket, slice) /\ Dense(slice) /\ slice # <<>> /\ slice \in Seq(StoredEntry)
          /\ LoadAllEntries(bucket) = slice
      BY DEF StoreInv, Holds
    <2>2. Len(slice) \in Nat /\ Len(slice) > 0 /\ slice[1] = Sentinel
      BY <2>1, EmptySeq DEF Dense
    <2>3. IsPrefix(NewMemoryStore, slice)
      <3>1. 1 \in Int /\ \A i \in 1..1 : slice[i] = Sentinel /\ Sentinel \in StoredEntry
        BY <2>2 DEF Sentinel, StoredEntry
      <3>2. \A i \in 1..1 : slice[i] \in StoredEntry /\ <<Sentinel>>[i] \in StoredEntry
        BY <3>1
      <3>3. /\ SubSeq(slice, 1, 1) \in Seq(StoredEntry) /\ Len(SubSeq(slice, 1, 1)) = 1
            /\ SubSeq(slice, 1, 1)[1] = Sentinel
        <4>1. /\ SubSeq(slice, 1, 1) \in Seq(StoredEntry)
              /\ Len(SubSeq(slice, 1, 1)) = IF 1 <= 1 THEN 1 - 1 + 1 ELSE 0
              /\ \A i \in 1..(1 - 1 + 1) : SubSeq(slice, 1, 1)[i] = slice[1 + i - 1]
          BY <3>1, <3>2, SubSeqProperties
        <4>. QED BY <3>1, <4>1
      <3>4. /\ SubSeq(<<Sentinel>>, 1, 1) \in Seq(StoredEntry)
            /\ Len(SubSeq(<<Sentinel>>, 1, 1)) = 1
            /\ SubSeq(<<Sentinel>>, 1, 1)[1] = Sentinel
        <4>1. /\ SubSeq(<<Sentinel>>, 1, 1) \in Seq(StoredEntry)
              /\ Len(SubSeq(<<Sentinel>>, 1, 1)) = IF 1 <= 1 THEN 1 - 1 + 1 ELSE 0
              /\ \A i \in 1..(1 - 1 + 1) : SubSeq(<<Sentinel>>, 1, 1)[i] = <<Sentinel>>[1 + i - 1]
          BY <3>1, <3>2, SubSeqProperties
        <4>. QED BY <3>1, <4>1
      <3>5. SubSeq(<<Sentinel>>, 1, 1) = SubSeq(slice, 1, 1)
        <4>1. \A a, b \in Seq(StoredEntry) : Len(a) = 1 /\ Len(b) = 1 /\ a[1] = b[1] => a = b
          <5>1. ASSUME NEW a \in Seq(StoredEntry), NEW b \in Seq(StoredEntry),
                       Len(a) = 1, Len(b) = 1, a[1] = b[1]
                PROVE  a = b
            <6>1. \A i \in 1..Len(a) : a[i] = b[i]
              BY <5>1
            <6>. QED BY <5>1, <6>1, SeqEqual
          <5>. QED BY <5>1
        <4>. QED BY <3>3, <3>4, <4>1
      <3>6. Len(NewMemoryStore) = 1 /\ NewMemoryStore = <<Sentinel>>
        BY DEF NewMemoryStore
      <3>. QED BY <2>2, <3>5, <3>6 DEF IsPrefix
    <2>4. LastIndex(bucket) = SliceLastIndex(slice) /\ LastTerm(bucket) = SliceLastTerm(slice)
      BY <2>1, QueriesAnswer DEF SliceLastIndex
    <2>5. ASSUME NEW k \in 0..(MaxIndex + 1)
          PROVE  /\ Found(bucket, k) <=> SliceFound(slice, k)
                 /\ Found(bucket, k) => GetEntry(bucket, k) = SliceGetEntry(slice, k)
                 /\ GetEntriesFrom(bucket, k) = SliceGetEntriesFrom(slice, k)
      <3>1. k \in Index /\ k \in Nat
        BY StoreAssumption DEF Index
      <3>2. Found(bucket, k) <=> SliceFound(slice, k)
        BY <2>1, <3>1, HoldsFacts DEF SliceFound
      <3>3. k < Len(slice) => k \in 0..(Len(slice) - 1)
        BY <2>2, <3>1
      <3>4. Found(bucket, k) => GetEntry(bucket, k) = SliceGetEntry(slice, k)
        BY <2>1, <3>2, <3>3, HoldsFacts DEF SliceFound, SliceGetEntry
      <3>5. GetEntriesFrom(bucket, k) = SliceGetEntriesFrom(slice, k)
        BY <2>1, <3>1, QueriesAnswer
      <3>. QED BY <3>2, <3>4, <3>5
    <2>. QED BY <2>1, <2>3, <2>4, <2>5, Zenon DEF BackendsAgree
  <1>. QED BY <1>1, StoreInvHolds, PTL

-----------------------------------------------------------------------------
(* The log of RaftNode.                                                      *)

SequenceEntry == [term : Nat, command : {"noop"}]

\* The log of RaftNode that the slice s stands for: the sentinel is left out.
View(s) == LogOf(Tail(s))

LEMMA LogOfFacts ==
    ASSUME NEW s \in Seq(StoredEntry)
    PROVE  /\ LogOf(s) \in Seq(SequenceEntry) /\ Len(LogOf(s)) = Len(s) /\ Len(s) \in Nat
           /\ \A k \in 1..Len(s) : LogOf(s)[k] = [term |-> s[k].term, command |-> "noop"]
  <1>1. Len(s) \in Nat /\ \A k \in 1..Len(s) : s[k].term \in Nat
    <2>1. Len(s) \in Nat /\ \A k \in 1..Len(s) : s[k] \in StoredEntry
      OBVIOUS
    <2>. QED BY <2>1 DEF StoredEntry
  <1>2. \A k \in 1..Len(s) : [term |-> s[k].term, command |-> "noop"] \in SequenceEntry
    BY <1>1 DEF SequenceEntry
  <1>. QED BY <1>1, <1>2 DEF LogOf

LEMMA ViewFacts ==
    ASSUME NEW s \in Seq(StoredEntry), s # <<>>
    PROVE  /\ View(s) \in Seq(SequenceEntry) /\ Len(View(s)) = Len(s) - 1 /\ Len(s) \in Nat
           /\ \A k \in 1..(Len(s) - 1) : View(s)[k] = [term |-> s[k + 1].term, command |-> "noop"]
  <1>1. /\ Tail(s) \in Seq(StoredEntry) /\ Len(Tail(s)) = Len(s) - 1
        /\ \A k \in 1..Len(Tail(s)) : Tail(s)[k] = s[k + 1]
    BY HeadTailProperties
  <1>2. /\ View(s) \in Seq(SequenceEntry) /\ Len(View(s)) = Len(Tail(s))
        /\ \A k \in 1..Len(Tail(s)) : View(s)[k] = [term |-> Tail(s)[k].term, command |-> "noop"]
    BY <1>1, LogOfFacts DEF View
  <1>. QED BY <1>1, <1>2

LEMMA PartFacts ==
    ASSUME NEW S, NEW s \in Seq(S), NEW a \in Nat, NEW k \in Nat, a >= 1, k <= Len(s), a <= k + 1
    PROVE  /\ SubSeq(s, a, k) \in Seq(S) /\ Len(SubSeq(s, a, k)) = k - a + 1
           /\ \A i \in 1..(k - a + 1) : SubSeq(s, a, k)[i] = s[a + i - 1]
  <1>1. a \in Int /\ k \in Int /\ \A i \in a..k : s[i] \in S
    OBVIOUS
  <1>2. /\ SubSeq(s, a, k) \in Seq(S)
        /\ Len(SubSeq(s, a, k)) = IF a <= k THEN k - a + 1 ELSE 0
        /\ \A i \in 1..(k - a + 1) : SubSeq(s, a, k)[i] = s[a + i - 1]
    BY <1>1, SubSeqProperties
  <1>. QED BY <1>2

LEMMA ViewOfConcat ==
    ASSUME NEW s \in Seq(StoredEntry), s # <<>>, NEW t \in Seq(StoredEntry)
    PROVE  View(s \o t) = View(s) \o LogOf(t)
  <1>. DEFINE u == s \o t
              v == View(s) \o LogOf(t)
  <1>0. Len(s) \in Nat /\ Len(t) \in Nat /\ Len(s) > 0
    BY EmptySeq
  <1>1. /\ u \in Seq(StoredEntry) /\ Len(u) = Len(s) + Len(t)
        /\ \A i \in 1..(Len(s) + Len(t)) : u[i] = IF i <= Len(s) THEN s[i] ELSE t[i - Len(s)]
    BY ConcatProperties
  <1>2. /\ View(s) \in Seq(SequenceEntry) /\ Len(View(s)) = Len(s) - 1
        /\ \A k \in 1..(Len(s) - 1) : View(s)[k] = [term |-> s[k + 1].term, command |-> "noop"]
    BY ViewFacts
  <1>3. /\ LogOf(t) \in Seq(SequenceEntry) /\ Len(LogOf(t)) = Len(t)
        /\ \A k \in 1..Len(t) : LogOf(t)[k] = [term |-> t[k].term, command |-> "noop"]
    BY LogOfFacts
  <1>4. /\ v \in Seq(SequenceEntry) /\ Len(v) = (Len(s) - 1) + Len(t)
        /\ \A i \in 1..((Len(s) - 1) + Len(t)) :
              v[i] = IF i <= Len(s) - 1 THEN View(s)[i] ELSE LogOf(t)[i - (Len(s) - 1)]
    <2>. DEFINE x == View(s)
                y == LogOf(t)
                n == Len(s) - 1
                l == Len(t)
    <2>2. x \in Seq(SequenceEntry) /\ y \in Seq(SequenceEntry) /\ Len(x) = n /\ Len(y) = l
      BY <1>2, <1>3, Zenon
    <2>. HIDE DEF x, y, n, l
    <2>3. /\ x \o y \in Seq(SequenceEntry) /\ Len(x \o y) = n + l
          /\ \A i \in 1..(n + l) : (x \o y)[i] = IF i <= n THEN x[i] ELSE y[i - n]
      <3>1. /\ x \o y \in Seq(SequenceEntry) /\ Len(x \o y) = Len(x) + Len(y)
            /\ \A i \in 1..(Len(x) + Len(y)) :
                  (x \o y)[i] = IF i <= Len(x) THEN x[i] ELSE y[i - Len(x)]
        BY <2>2, ConcatProperties
      <3>. QED BY <2>2, <3>1
    <2>. QED BY <2>3 DEF x, y, n, l
  <1>. HIDE DEF u, v
  <1>5. /\ View(u) \in Seq(SequenceEntry) /\ Len(View(u)) = Len(u) - 1
        /\ \A k \in 1..(Len(u) - 1) : View(u)[k] = [term |-> u[k + 1].term, command |-> "noop"]
    BY <1>0, <1>1, ViewFacts
  <1>6. Len(View(u)) = Len(v)
    BY <1>0, <1>1, <1>4, <1>5
  <1>7. ASSUME NEW k \in 1..Len(View(u)) PROVE View(u)[k] = v[k]
    <2>1. /\ k \in 1..(Len(u) - 1) /\ k + 1 \in 1..(Len(s) + Len(t)) /\ k \in Nat
          /\ k \in 1..((Len(s) - 1) + Len(t))
      BY <1>0, <1>1, <1>5
    <2>2. CASE k <= Len(s) - 1
      <3>1. k + 1 <= Len(s) /\ k \in 1..(Len(s) - 1)
        BY <1>0, <2>1, <2>2
      <3>2. u[k + 1] = s[k + 1] /\ v[k] = View(s)[k]
        BY <1>1, <1>4, <2>1, <2>2, <3>1
      <3>. QED BY <1>2, <1>5, <2>1, <3>1, <3>2
    <2>3. CASE ~(k <= Len(s) - 1)
      <3>1. /\ ~(k + 1 <= Len(s)) /\ k + 1 - Len(s) \in 1..Len(t)
            /\ k - (Len(s) - 1) = k + 1 - Len(s)
        BY <1>0, <2>1, <2>3
      <3>2. u[k + 1] = t[k + 1 - Len(s)] /\ v[k] = LogOf(t)[k + 1 - Len(s)]
        <4>1. u[k + 1] = t[k + 1 - Len(s)]
          BY <1>1, <2>1, <3>1
        <4>2. v[k] = LogOf(t)[k - (Len(s) - 1)]
          BY <1>4, <2>1, <2>3
        <4>. QED BY <3>1, <4>1, <4>2
      <3>. QED BY <1>3, <1>5, <2>1, <3>1, <3>2
    <2>. QED BY <2>2, <2>3
  <1>8. View(u) = v
    BY <1>4, <1>5, <1>6, <1>7, SeqEqual
  <1>. QED BY <1>8 DEF u, v

LEMMA ViewOfCut ==
    ASSUME NEW s \in Seq(StoredEntry), s # <<>>, NEW k \in 1..Len(s)
    PROVE  View(SubSeq(s, 1, k)) = SubSeq(View(s), 1, k - 1)
  <1>. DEFINE u == SubSeq(s, 1, k)
              v == SubSeq(View(s), 1, k - 1)
  <1>0. Len(s) \in Nat /\ k \in Nat /\ k >= 1 /\ k <= Len(s) /\ k - 1 \in Nat
    OBVIOUS
  <1>1. /\ u \in Seq(StoredEntry) /\ Len(u) = k - 1 + 1 /\ \A i \in 1..(k - 1 + 1) : u[i] = s[1 + i - 1]
    BY <1>0, PartFacts
  <1>2. /\ View(s) \in Seq(SequenceEntry) /\ Len(View(s)) = Len(s) - 1
        /\ \A i \in 1..(Len(s) - 1) : View(s)[i] = [term |-> s[i + 1].term, command |-> "noop"]
    BY ViewFacts
  <1>3. /\ v \in Seq(SequenceEntry) /\ Len(v) = k - 1 - 1 + 1
        /\ \A i \in 1..(k - 1 - 1 + 1) : v[i] = View(s)[1 + i - 1]
    <2>1. k - 1 <= Len(View(s)) /\ 1 <= k - 1 + 1
      BY <1>0, <1>2
    <2>. QED BY <1>0, <1>2, <2>1, PartFacts
  <1>. HIDE DEF u, v
  <1>4. Len(u) = k /\ u # <<>> /\ Len(v) = k - 1
    BY <1>0, <1>1, <1>3
  <1>5. /\ View(u) \in Seq(SequenceEntry) /\ Len(View(u)) = k - 1
        /\ \A i \in 1..(k - 1) : View(u)[i] = [term |-> u[i + 1].term, command |-> "noop"]
    BY <1>1, <1>4, ViewFacts
  <1>6. ASSUME NEW i \in 1..Len(View(u)) PROVE View(u)[i] = v[i]
    <2>1. /\ i \in 1..(k - 1) /\ i + 1 \in 1..(k - 1 + 1) /\ i \in 1..(Len(s) - 1) /\ i \in Nat
          /\ i \in 1..(k - 1 - 1 + 1) /\ 1 + (i + 1) - 1 = i + 1 /\ 1 + i - 1 = i
      BY <1>0, <1>5
    <2>2. u[i + 1] = s[i + 1] /\ v[i] = View(s)[i]
      BY <1>1, <1>3, <2>1
    <2>. QED BY <1>2, <1>5, <2>1, <2>2
  <1>7. View(u) = v
    BY <1>3, <1>4, <1>5, <1>6, SeqEqual
  <1>. QED BY <1>7 DEF u, v

LEMMA LogOfPart ==
    ASSUME NEW s \in Seq(StoredEntry), NEW a \in 1..Len(s)
    PROVE  SubSeq(LogOf(s), a, Len(s)) = LogOf(SubSeq(s, a, Len(s)))
  <1>. DEFINE u == SubSeq(LogOf(s), a, Len(s))
              v == SubSeq(s, a, Len(s))
              e == Len(s)
  <1>0. e \in Nat /\ a \in Nat /\ a >= 1 /\ a <= e
    OBVIOUS
  <1>1. /\ LogOf(s) \in Seq(SequenceEntry) /\ Len(LogOf(s)) = e
        /\ \A k \in 1..e : LogOf(s)[k] = [term |-> s[k].term, command |-> "noop"]
    BY LogOfFacts
  <1>2. /\ u \in Seq(SequenceEntry) /\ Len(u) = e - a + 1
        /\ \A i \in 1..(e - a + 1) : u[i] = LogOf(s)[a + i - 1]
    BY <1>0, <1>1, PartFacts
  <1>3. /\ v \in Seq(StoredEntry) /\ Len(v) = e - a + 1
        /\ \A i \in 1..(e - a + 1) : v[i] = s[a + i - 1]
    BY <1>0, PartFacts
  <1>. HIDE DEF u, v, e
  <1>4. /\ LogOf(v) \in Seq(SequenceEntry) /\ Len(LogOf(v)) = Len(v)
        /\ \A k \in 1..Len(v) : LogOf(v)[k] = [term |-> v[k].term, command |-> "noop"]
    BY <1>3, LogOfFacts
  <1>5. ASSUME NEW i \in 1..Len(u) PROVE u[i] = LogOf(v)[i]
    <2>1. a + i - 1 \in 1..e /\ i \in 1..(e - a + 1) /\ i \in 1..Len(v)
      BY <1>0, <1>2, <1>3
    <2>. QED BY <1>1, <1>2, <1>3, <1>4, <2>1
  <1>6. u = LogOf(v)
    BY <1>2, <1>3, <1>4, <1>5, SeqEqual
  <1>. QED BY <1>6 DEF u, v, e

\* Every query of RaftNode that HandleAppendEntries makes answers as the slice.
LEMMA SequenceAnswers ==
    ASSUME NEW s \in Seq(StoredEntry), s # <<>>, Dense(s), NEW m \in Batch, NEW w
    PROVE  LET r == Request(m)
               seq == [log |-> View(s), quota |-> w]
               req == [r EXCEPT !.entries = LogOf(@)]
           IN  /\ N!LastIndex(seq) = Len(s) - 1 /\ N!LastTerm(seq) = s[Len(s)].term
               /\ N!PrevMatches(seq, req) <=> Matches(s, r)
               /\ N!Unstored(seq, req) = Differing(s, r)
  <1>. DEFINE r == Request(m)
              seq == [log |-> View(s), quota |-> w]
              req == [r EXCEPT !.entries = LogOf(@)]
              prev == r.prevLogIndex
              e == Len(r.entries)
  <1>0. Len(s) \in Nat /\ Len(s) > 0
    BY EmptySeq
  <1>9. s[1].term = 0
    BY <1>0 DEF Dense, Sentinel
  <1>1. /\ prev \in Nat /\ r.entries \in Seq(StoredEntry) /\ e \in Nat
        /\ LogOf(r.entries) \in Seq(SequenceEntry) /\ Len(LogOf(r.entries)) = e
        /\ \A k \in 1..e : LogOf(r.entries)[k] = [term |-> r.entries[k].term, command |-> "noop"]
    <2>1. prev \in Nat /\ r.entries \in Seq(StoredEntry)
      BY BatchFacts, Zenon
    <2>. HIDE DEF r
    <2>. QED BY <2>1, LogOfFacts
  <1>2. /\ req.prevLogIndex = prev /\ req.prevLogTerm = r.prevLogTerm
        /\ req.entries = LogOf(r.entries)
    BY DEF Request
  <1>. HIDE DEF r, req
  <1>3. /\ Len(View(s)) = Len(s) - 1
        /\ \A k \in 1..(Len(s) - 1) : View(s)[k].term = s[k + 1].term
    <2>1. /\ Len(View(s)) = Len(s) - 1
          /\ \A k \in 1..(Len(s) - 1) : View(s)[k] = [term |-> s[k + 1].term, command |-> "noop"]
      BY ViewFacts, Zenon
    <2>2. \A a : [term |-> a, command |-> "noop"].term = a
      OBVIOUS
    <2>. QED BY <2>1, <2>2, Zenon
  <1>4. N!LastIndex(seq) = Len(s) - 1
    BY <1>3 DEF N!LastIndex
  <1>5. \A k \in Nat : /\ k \in 1..(Len(s) - 1) => N!TermAt(seq, k) = s[k + 1].term
                       /\ k \notin 1..(Len(s) - 1) => N!TermAt(seq, k) = 0
    BY <1>3 DEF N!TermAt
  <1>. HIDE DEF seq
  <1>6. N!LastTerm(seq) = s[Len(s)].term
    <2>1. Len(s) - 1 \in Nat /\ (Len(s) - 1) + 1 = Len(s)
      BY <1>0
    <2>2. CASE Len(s) = 1
      <3>1. Len(s) - 1 \notin 1..(Len(s) - 1)
        BY <2>2
      <3>. QED BY <1>9, <1>4, <1>5, <2>1, <2>2, <3>1 DEF N!LastTerm
    <2>3. CASE Len(s) # 1
      <3>1. Len(s) - 1 \in 1..(Len(s) - 1)
        <4>1. \A l \in Nat : l > 0 /\ l # 1 => l - 1 \in 1..(l - 1)
          OBVIOUS
        <4>. QED BY <1>0, <2>3, <4>1, Zenon
      <3>2. N!TermAt(seq, Len(s) - 1) = s[(Len(s) - 1) + 1].term
        BY <1>5, <2>1, <3>1
      <3>. QED BY <1>4, <2>1, <3>2 DEF N!LastTerm
    <2>. QED BY <2>2, <2>3
  <1>. HIDE DEF prev, e
  <1>7. N!PrevMatches(seq, req) <=> Matches(s, r)
    <2>1. N!PrevMatches(seq, req) <=> (prev > 0 => /\ prev <= Len(s) - 1
                                                  /\ N!TermAt(seq, prev) = r.prevLogTerm)
      BY <1>2, <1>4, Zenon DEF N!PrevMatches
    <2>2. Matches(s, r) <=> (prev > 0 => prev < Len(s) /\ s[prev + 1].term = r.prevLogTerm)
      BY Zenon DEF Matches, prev
    <2>3. prev > 0 /\ prev < Len(s) => N!TermAt(seq, prev) = s[prev + 1].term
      <3>1. prev \in Nat
        BY <1>1
      <3>2. prev > 0 /\ prev < Len(s) => prev \in 1..(Len(s) - 1)
        BY <1>0, <3>1
      <3>. QED BY <1>5, <3>1, <3>2, Zenon
    <2>4. prev <= Len(s) - 1 <=> prev < Len(s)
      BY <1>0, <1>1
    <2>. QED BY <2>1, <2>2, <2>3, <2>4, Zenon
  <1>8. N!Unstored(seq, req) = Differing(s, r)
    <2>1. N!Unstored(seq, req) = {k \in 1..e : \/ prev + k > Len(s) - 1
                                               \/ N!TermAt(seq, prev + k) # LogOf(r.entries)[k].term}
      BY <1>1, <1>2, <1>4, Zenon DEF N!Unstored
    <2>2. Differing(s, r) = {k \in 1..e : prev + k >= Len(s) \/ s[prev + k + 1].term # r.entries[k].term}
      BY Zenon DEF Differing, prev, e
    <2>3. ASSUME NEW k \in 1..e
          PROVE  /\ prev + k > Len(s) - 1 <=> prev + k >= Len(s)
                 /\ ~(prev + k >= Len(s)) => N!TermAt(seq, prev + k) = s[prev + k + 1].term
                 /\ LogOf(r.entries)[k].term = r.entries[k].term
      <3>1. prev + k \in Nat /\ prev + k >= 1
        BY <1>1
      <3>2. ~(prev + k >= Len(s)) => prev + k \in 1..(Len(s) - 1)
        BY <1>0, <3>1
      <3>3. prev + k > Len(s) - 1 <=> prev + k >= Len(s)
        BY <1>0, <3>1
      <3>4. LogOf(r.entries)[k].term = r.entries[k].term
        <4>1. LogOf(r.entries)[k] = [term |-> r.entries[k].term, command |-> "noop"]
          BY <1>1, Zenon
        <4>. QED BY <4>1
      <3>. QED BY <1>5, <3>1, <3>2, <3>3, <3>4, Zenon
    <2>. QED BY <2>1, <2>2, <2>3, Zenon
  <1>. QED BY <1>4, <1>6, <1>7, <1>8 DEF r, seq, req

\* RaftNode's loop over req.Entries leaves the log that the bucket stands for.
LEMMA SequenceReconciled ==
    ASSUME NEW s \in Seq(StoredEntry), s # <<>>, Dense(s), Len(s) <= MaxIndex + 1,
           NEW m \in Batch, NEW w \in Nat
    PROVE  LET r == Request(m)
               seq == [log |-> View(s), quota |-> w]
               req == [r EXCEPT !.entries = LogOf(@)]
               done == IF N!PrevMatches(seq, req) THEN N!Reconcile(seq, req) ELSE seq
           IN  done.log = View(Reconciled(s, r, w))
  <1>. DEFINE r == Request(m)
              seq == [log |-> View(s), quota |-> w]
              req == [r EXCEPT !.entries = LogOf(@)]
              done == IF N!PrevMatches(seq, req) THEN N!Reconcile(seq, req) ELSE seq
              f == Min(Differing(s, r))
              from == r.prevLogIndex + f
              rest == SubSeq(r.entries, f, Len(r.entries))
              cut == SubSeq(s, 1, from)
              batch == SubSeq(LogOf(r.entries), f, Len(r.entries))
  <1>0. Len(s) \in Nat /\ Len(s) > 0 /\ r.entries \in Seq(StoredEntry) /\ r.prevLogIndex \in Nat
    <2>1. Len(s) \in Nat /\ Len(s) > 0
      BY EmptySeq
    <2>2. r.entries \in Seq(StoredEntry) /\ r.prevLogIndex \in Nat
      BY BatchFacts, Zenon
    <2>. QED BY <2>1, <2>2, Zenon
  <1>1. /\ N!LastIndex(seq) = Len(s) - 1
        /\ N!PrevMatches(seq, req) <=> Matches(s, r)
        /\ N!Unstored(seq, req) = Differing(s, r)
    BY SequenceAnswers
  <1>2. /\ req.prevLogIndex = r.prevLogIndex /\ req.entries = LogOf(r.entries)
        /\ seq.log = View(s) /\ seq.quota = w
    BY DEF Request
  <1>3. Reconciled(s, r, w) =
           IF ~Matches(s, r) \/ Differing(s, r) = {} \/ w = 0 THEN s
           ELSE IF from >= Len(s) THEN s \o rest
           ELSE IF w = 1 THEN cut ELSE cut \o rest
    BY Zenon DEF Reconciled
  <1>4. Len(LogOf(r.entries)) = Len(r.entries)
    BY <1>0, LogOfFacts
  <1>5. N!Reconcile(seq, req) =
           IF Differing(s, r) = {} THEN seq
           ELSE IF from > Len(s) - 1 THEN N!AppendEntries(seq, batch)
           ELSE IF N!CanWrite(seq) THEN N!AppendEntries(N!TruncateFrom(seq, from), batch) ELSE seq
    <2>1. N!Min(Differing(s, r)) = f
      BY Zenon DEF N!Min, Min
    <2>. HIDE DEF seq, req, r, f
    <2>. QED BY <1>1, <1>2, <1>4, <2>1, Zenon DEF N!Reconcile
  <1>6. CASE ~Matches(s, r) \/ Differing(s, r) = {}
    BY <1>1, <1>2, <1>3, <1>5, <1>6, Zenon
  <1>7. CASE Matches(s, r) /\ Differing(s, r) # {}
    <2>1. f \in 1..Len(r.entries) /\ from \in 1..Len(s) /\ rest \in Seq(StoredEntry)
      BY <1>7, RestFollows DEF Follows
    <2>2. batch = LogOf(rest)
      BY <1>0, <2>1, LogOfPart
    <2>3. View(cut) = SubSeq(View(s), 1, from - 1) /\ cut \in Seq(StoredEntry) /\ cut # <<>>
      <3>1. from \in Nat /\ from >= 1 /\ from <= Len(s) /\ 1 <= from + 1
        BY <1>0, <2>1
      <3>2. cut \in Seq(StoredEntry) /\ Len(cut) = from - 1 + 1
        BY <3>1, PartFacts
      <3>. QED BY <2>1, <3>1, <3>2, ViewOfCut
    <2>4. View(s \o rest) = View(s) \o batch /\ View(cut \o rest) = View(cut) \o batch
      BY <2>1, <2>2, <2>3, ViewOfConcat
    <2>5. from > Len(s) - 1 <=> from >= Len(s)
      BY <1>0, <2>1
    <2>6. done = N!Reconcile(seq, req)
      BY <1>1, <1>7, Zenon
    <2>. HIDE DEF from, f, rest, cut, batch, r, req, done
    <2>7. CASE w = 0
      <3>1. N!AppendEntries(seq, batch) = seq /\ ~N!CanWrite(seq)
        BY <2>7 DEF N!AppendEntries, N!CanWrite
      <3>2. N!Reconcile(seq, req) = seq
        BY <1>5, <3>1, Zenon
      <3>3. Reconciled(s, r, w) = s
        BY <1>3, <2>7, Zenon
      <3>. QED BY <1>2, <2>6, <3>2, <3>3, Zenon DEF done, r, req
    <2>8. CASE w > 0 /\ from >= Len(s)
      <3>1. N!AppendEntries(seq, batch).log = View(s) \o batch
        BY <2>8 DEF N!AppendEntries, N!CanWrite
      <3>2. N!Reconcile(seq, req) = N!AppendEntries(seq, batch)
        BY <1>5, <1>7, <2>5, <2>8, Zenon
      <3>3. w # 0
        BY <2>8
      <3>4. Reconciled(s, r, w) = s \o rest
        BY <1>3, <1>7, <2>8, <3>3, Zenon
      <3>. QED BY <2>4, <2>6, <3>1, <3>2, <3>4, Zenon DEF done, r, req
    <2>9. CASE w > 0 /\ ~(from >= Len(s))
      <3>0. w # 0
        BY <2>9
      <3>1. /\ N!CanWrite(seq)
            /\ N!TruncateFrom(seq, from) = [log |-> SubSeq(View(s), 1, from - 1), quota |-> w - 1]
        BY <2>9 DEF N!TruncateFrom, N!CanWrite
      <3>. DEFINE c == [log |-> SubSeq(View(s), 1, from - 1), quota |-> w - 1]
      <3>2. N!AppendEntries(c, batch).log = IF w = 1 THEN c.log ELSE c.log \o batch
        BY <2>9 DEF N!AppendEntries, N!CanWrite
      <3>3. c.log = View(cut)
        BY <2>3
      <3>. HIDE DEF c
      <3>4. N!Reconcile(seq, req) = N!AppendEntries(c, batch)
        BY <1>5, <1>7, <2>5, <2>9, <3>1, Zenon DEF c
      <3>5. Reconciled(s, r, w) = IF w = 1 THEN cut ELSE cut \o rest
        BY <1>3, <1>7, <2>9, <3>0, Zenon
      <3>. QED BY <2>4, <2>6, <3>2, <3>3, <3>4, <3>5, Zenon DEF done, r, req
    <2>. QED BY <2>7, <2>8, <2>9
  <1>. QED BY <1>6, <1>7

\* HandleAppendEntries over the bucket is HandleAppendEntries over the sequence:
\* for every batch, and however many transactions succeed, the bucket ends as the
\* log that RaftNode computes.
THEOREM TheSequenceIsFaithful == Spec => []SequenceFaithful
  <1>1. StoreInv => SequenceFaithful
    <2>. SUFFICES ASSUME StoreInv, up, NEW m \in Batch, NEW w \in Quota
                  PROVE  LET r == Request(m)
                             seq == [log |-> Sequence(bucket), quota |-> w]
                             req == [r EXCEPT !.entries = LogOf(@)]
                             done == IF N!PrevMatches(seq, req) THEN N!Reconcile(seq, req) ELSE seq
                         IN  /\ PrevMatches(With(w), r) <=> N!PrevMatches(seq, req)
                             /\ Sequence(Reconcile(With(w), r).bucket) = done.log
                             /\ LastIndex(bucket) = N!LastIndex(seq)
                             /\ LastTerm(bucket) = N!LastTerm(seq)
      BY Zenon DEF SequenceFaithful
    <2>. DEFINE r == Request(m)
                seq == [log |-> Sequence(bucket), quota |-> w]
                req == [r EXCEPT !.entries = LogOf(@)]
                done == IF N!PrevMatches(seq, req) THEN N!Reconcile(seq, req) ELSE seq
                s == slice
                d == Reconcile(With(w), r)
    <2>1. w \in Nat /\ Kept(With(w)) /\ With(w).quota = w /\ With(w).slice = s /\ With(w).bucket = bucket
      BY RunningNodeIsKept DEF Quota
    <2>2. /\ Holds(bucket, s) /\ Dense(s) /\ s # <<>> /\ s \in Seq(StoredEntry)
          /\ Len(s) <= MaxIndex + 1 /\ LoadAllEntries(bucket) = s
      BY DEF StoreInv, Holds
    <2>3. seq = [log |-> View(s), quota |-> w]
      BY <2>2, Zenon DEF Sequence, View
    <2>4. Kept(d) /\ d.slice = Reconciled(s, r, w)
      BY <2>1, ReconcileKeeps, Zenon
    <2>5. LoadAllEntries(d.bucket) = Reconciled(s, r, w)
      BY <2>4, QueriesAnswer DEF Kept
    <2>6. Sequence(d.bucket) = View(Reconciled(s, r, w))
      BY <2>5, Zenon DEF Sequence, View
    <2>7. done.log = View(Reconciled(s, r, w))
      BY <2>1, <2>2, <2>3, SequenceReconciled, Zenon
    <2>8. PrevMatches(With(w), r) <=> Matches(s, r)
      BY <2>1, SliceDecides, Zenon
    <2>9. /\ N!LastIndex(seq) = Len(s) - 1 /\ N!LastTerm(seq) = s[Len(s)].term
          /\ N!PrevMatches(seq, req) <=> Matches(s, r)
      BY <2>2, <2>3, SequenceAnswers, Zenon
    <2>10. LastIndex(bucket) = Len(s) - 1 /\ LastTerm(bucket) = s[Len(s)].term
      BY <2>2, QueriesAnswer DEF SliceLastTerm, Last
    <2>. QED BY <2>6, <2>7, <2>8, <2>9, <2>10, Zenon
  <1>. QED BY <1>1, StoreInvHolds, PTL
=============================================================================
