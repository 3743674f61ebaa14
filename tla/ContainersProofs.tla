-------------------------- MODULE ContainersProofs --------------------------
(***************************************************************************)
(* The two containers of a workspace, for any windows, infos and hash      *)
(* function.  First the hash table: the probes of a search reach every     *)
(* bucket, every key lies on its path, and putting, deleting and rehashing *)
(* keep it so.  Then the linked list of hidden windows, with one lemma for *)
(* each function hidden_..., and the invariant of Containers.              *)
(***************************************************************************)
EXTENDS Containers, QueueProofs, FiniteSetTheorems, Integers

-----------------------------------------------------------------------------
(***************************************************************************)
(* Numbers, as the table needs them: remainders, and the sizes it can      *)
(* have.                                                                   *)
(***************************************************************************)

(* What multiplying and dividing do to numbers, and to an inequality. *)
LEMMA Product ==
  ASSUME NEW a \in Nat, NEW b \in Nat
  PROVE  a * b \in Nat
OBVIOUS

LEMMA LessTimes ==
  ASSUME NEW a \in Nat, NEW b \in Nat, NEW n \in Nat, a < b
  PROVE  a * n + n <= b * n
PROOF
  <1>1. PICK c \in Nat : b = a + 1 + c
    <2>1. b - a - 1 \in Nat /\ b = a + 1 + (b - a - 1)
      OBVIOUS
    <2> QED
      BY <2>1
  <1>2. b * n = a * n + n + c * n /\ c * n \in Nat /\ a * n \in Nat
    BY <1>1
  <1> QED
    BY <1>2

LEMMA Remainder ==
  ASSUME NEW a \in Nat, NEW n \in Nat, n > 0
  PROVE  /\ a % n \in 0..(n - 1)
         /\ \E q \in Nat : a = q * n + (a % n)
PROOF
  <1>1. a % n \in 0..(n - 1) /\ a \div n \in Nat /\ a = (a \div n) * n + (a % n)
    OBVIOUS
  <1> QED
    BY <1>1

LEMMA RemainderIsOne ==
  ASSUME NEW n \in Nat, NEW q \in Nat, NEW r \in 0..(n - 1)
  PROVE  (q * n + r) % n = r
PROOF
  <1> DEFINE a == q * n + r
  <1>1. a \in Nat /\ n > 0
    OBVIOUS
  <1> HIDE DEF a
  <1>2. PICK p \in Nat : a = p * n + (a % n)
    BY <1>1, Remainder
  <1>3. a % n \in 0..(n - 1)
    BY <1>1, Remainder
  <1>4. q * n \in Nat /\ p * n \in Nat
    OBVIOUS
  <1>5. CASE p < q
    <2>1. p * n + n <= q * n
      BY <1>5, LessTimes
    <2> QED
      BY <2>1, <1>2, <1>3, <1>4 DEF a
  <1>6. CASE q < p
    <2>1. q * n + n <= p * n
      BY <1>6, LessTimes
    <2> QED
      BY <2>1, <1>2, <1>3, <1>4 DEF a
  <1>7. CASE p = q
    BY <1>2, <1>3, <1>4, <1>7 DEF a
  <1> QED
    BY <1>5, <1>6, <1>7 DEF a

LEMMA SumRemainder ==
  ASSUME NEW a \in Nat, NEW b \in Nat, NEW n \in Nat, n > 0
  PROVE  ((a % n) + b) % n = (a + b) % n
PROOF
  <1>1. PICK q \in Nat : a = q * n + (a % n)
    BY Remainder
  <1> DEFINE c == (a % n) + b
  <1>2. a % n \in Nat
    BY Remainder
  <1>3. c \in Nat
    BY <1>2
  <1>4. PICK p \in Nat : c = p * n + (c % n)
    BY <1>3, Remainder
  <1>5. c % n \in 0..(n - 1)
    BY <1>3, Remainder
  <1>6. a + b = (q + p) * n + (c % n)
    <2>1. a + b = q * n + c
      BY <1>1, <1>2
    <2>2. (q + p) * n = q * n + p * n /\ q * n \in Nat /\ p * n \in Nat
      OBVIOUS
    <2> HIDE DEF c
    <2> QED
      BY <2>1, <2>2, <1>4, <1>5, <1>3
  <1> HIDE DEF c
  <1>7. ((q + p) * n + (c % n)) % n = (c % n)
    <2>1. q + p \in Nat
      OBVIOUS
    <2> QED
      BY <2>1, <1>5, RemainderIsOne
  <1> QED
    BY <1>6, <1>7 DEF c

LEMMA SameRemainder ==
  ASSUME NEW a \in Nat, NEW b \in Nat, a <= b, NEW n \in Nat, n > 0,
         a % n = b % n
  PROVE  \E q \in Nat : b - a = q * n
PROOF
  <1>1. PICK p \in Nat : a = p * n + (a % n)
    BY Remainder
  <1>2. PICK q \in Nat : b = q * n + (b % n)
    BY Remainder
  <1>3. a % n \in Nat
    BY Remainder
  <1>4. p * n \in Nat /\ q * n \in Nat
    OBVIOUS
  <1>5. p <= q
    <2> SUFFICES ASSUME q < p PROVE FALSE
      OBVIOUS
    <2>1. q * n + n <= p * n
      BY LessTimes
    <2> QED
      BY <2>1, <1>1, <1>2, <1>3, <1>4
  <1>6. q - p \in Nat /\ (q - p) * n = q * n - p * n
    BY <1>5
  <1>7. b - a = (q - p) * n
    BY <1>1, <1>2, <1>3, <1>4, <1>6
  <1> QED
    BY <1>6, <1>7

-----------------------------------------------------------------------------
(* The powers of two from 4 on: the least set that holds 4 and the double   *)
(* of each of its members.                                                  *)
Sizes == {n \in Nat : \A S \in SUBSET Nat :
            4 \in S /\ (\A k \in S : 2 * k \in S) => n \in S}

(* What that says, and that such a number is even. *)
LEMMA SizesDouble == 4 \in Sizes /\ \A n \in Sizes : 2 * n \in Sizes
BY DEF Sizes

LEMMA SizesLeast ==
  ASSUME NEW S \in SUBSET Nat, 4 \in S, \A k \in S : 2 * k \in S
  PROVE  Sizes \subseteq S
BY DEF Sizes

LEMMA SizesEven == \A n \in Sizes : n \in Nat /\ n >= 4 /\ \E m \in Nat : n = 2 * m
PROOF
  <1> DEFINE S == {n \in Nat : n >= 4 /\ \E m \in Nat : n = 2 * m}
  <1>1. 4 \in S /\ \A k \in S : 2 * k \in S
    <2>1. 4 = 2 * 2
      OBVIOUS
    <2> QED
      BY <2>1
  <1>2. S \in SUBSET Nat
    OBVIOUS
  <1> HIDE DEF S
  <1>3. Sizes \subseteq S
    BY <1>1, <1>2, SizesLeast
  <1> QED
    BY <1>3 DEF S

(* A power of two that divides a product divides the factor beside an odd   *)
(* one.                                                                     *)
LEMMA OddTimesOdd ==
  ASSUME NEW r \in Nat, NEW y \in Nat, NEW q \in Nat, y % 2 = 1, r * y = 2 * q
  PROVE  \E s \in Nat : r = 2 * s
PROOF
  <1>1. PICK u \in Nat : y = 2 * u + 1
    <2>1. y = 2 * (y \div 2) + 1 /\ y \div 2 \in Nat
      OBVIOUS
    <2> QED
      BY <2>1
  <1>2. CASE r % 2 = 0
    <2>1. r = 2 * (r \div 2) /\ r \div 2 \in Nat
      BY <1>2
    <2> QED
      BY <2>1
  <1>3. CASE r % 2 # 0
    <2>1. PICK v \in Nat : r = 2 * v + 1
      <3>1. r = 2 * (r \div 2) + 1 /\ r \div 2 \in Nat
        BY <1>3
      <3> QED
        BY <3>1
    <2>2. r * y = 2 * (2 * (v * u) + v + u) + 1 /\ v * u \in Nat
      BY <1>1, <2>1
    <2> DEFINE w == 2 * (v * u) + v + u
    <2>3. w \in Nat /\ 2 * w + 1 = 2 * q
      BY <2>2
    <2> HIDE DEF w
    <2> QED
      BY <2>3
  <1> QED
    BY <1>2, <1>3

LEMMA OddFactor ==
  ASSUME NEW n \in Sizes, NEW x \in Nat, NEW y \in Nat, NEW q \in Nat,
         y % 2 = 1, x * y = q * n
  PROVE  \E r \in Nat : x = r * n
PROOF
  <1> DEFINE Divides(k) == \A a, b, c \in Nat :
                 b % 2 = 1 /\ a * b = c * k => \E r \in Nat : a = r * k
             S == {k \in Nat : k > 0 /\ Divides(k)}
  <1>1. 1 \in S
    <2>1. \A a \in Nat : a = a * 1
      OBVIOUS
    <2> QED
      BY <2>1
  <1>2. ASSUME NEW k \in S PROVE 2 * k \in S
    <2>1. k \in Nat /\ k > 0 /\ Divides(k) /\ 2 * k \in Nat /\ 2 * k > 0
      OBVIOUS
    <2>2. ASSUME NEW a \in Nat, NEW b \in Nat, NEW c \in Nat, b % 2 = 1,
                 a * b = c * (2 * k)
          PROVE  \E r \in Nat : a = r * (2 * k)
      <3>1. a * b = (2 * c) * k /\ 2 * c \in Nat
        BY <2>1, <2>2
      <3>2. PICK r \in Nat : a = r * k
        BY <2>1, <2>2, <3>1
      <3>3. (r * b) * k = (2 * c) * k /\ r * b \in Nat
        BY <2>1, <3>1, <3>2
      <3>4. r * b = 2 * c
        <4> DEFINE d == r * b
                   e == 2 * c
        <4>1. d \in Nat /\ e \in Nat /\ d * k = e * k
          BY <3>1, <3>3
        <4> HIDE DEF d, e
        <4>2. ~(d < e) /\ ~(e < d)
          BY <2>1, <4>1, LessTimes
        <4>3. d = e
          BY <4>1, <4>2
        <4> QED
          BY <4>3 DEF d, e
      <3>5. PICK s \in Nat : r = 2 * s
        <4> HIDE DEF S, Divides
        <4> QED
          BY <2>2, <3>4, OddTimesOdd, Zenon
      <3>6. a = s * (2 * k)
        BY <2>1, <3>2, <3>5
      <3> QED
        BY <3>6
    <2> QED
      BY <2>1, <2>2
  <1>3. S \in SUBSET Nat
    OBVIOUS
  <1>4. Divides(n)
    <2> HIDE DEF S, Divides
    <2>1. 2 * (2 * 1) = 4
      OBVIOUS
    <2>2. 4 \in S
      BY <1>1, <1>2, <2>1
    <2>3. n \in S
      BY <1>2, <1>3, <2>2, SizesLeast
    <2> QED
      BY <2>3 DEF S
  <1> QED
    BY <1>4

-----------------------------------------------------------------------------
(***************************************************************************)
(* The buckets that a search probes.  Its steps grow by one, so that the   *)
(* k-th probe is off by the k-th triangular number; in a table of a power  *)
(* of two no two of the first n probes are the same bucket, and so they    *)
(* reach every bucket.                                                     *)
(***************************************************************************)

(* The k-th probe of a search that begins at s, among n buckets. *)
Triangle(k) == (k * (k + 1)) \div 2
Probe(s, k, n) == (s + Triangle(k)) % n

(* A probe is a bucket, and the next one is where the code steps to. *)
LEMMA TriangleIs ==
  ASSUME NEW k \in Nat
  PROVE  /\ Triangle(k) \in Nat /\ 2 * Triangle(k) = k * (k + 1)
         /\ Triangle(k + 1) = Triangle(k) + k + 1
PROOF
  <1> DEFINE S == {i \in Nat : \E t \in Nat : 2 * t = i * (i + 1)}
  <1>1. 0 \in S
    OBVIOUS
  <1>2. \A i \in Nat : i \in S => i + 1 \in S
    <2> SUFFICES ASSUME NEW i \in Nat, i \in S PROVE i + 1 \in S
      OBVIOUS
    <2>1. PICK t \in Nat : 2 * t = i * (i + 1)
      OBVIOUS
    <2>2. 2 * (t + i + 1) = (i + 1) * (i + 1 + 1) /\ t + i + 1 \in Nat
      BY <2>1
    <2>3. \E u \in Nat : 2 * u = (i + 1) * (i + 1 + 1)
      BY <2>2
    <2> QED
      BY <2>3
  <1> HIDE DEF S
  <1>3. \A i \in Nat : i \in S
    BY <1>1, <1>2, Induction
  <1>4. ASSUME NEW i \in Nat
        PROVE  Triangle(i) \in Nat /\ 2 * Triangle(i) = i * (i + 1)
    <2>1. PICK t \in Nat : 2 * t = i * (i + 1)
      BY <1>3 DEF S
    <2>2. (2 * t) \div 2 = t
      OBVIOUS
    <2> QED
      BY <2>1, <2>2 DEF Triangle
  <1>5. (k + 1) * (k + 1 + 1) = k * (k + 1) + 2 * (k + 1)
    OBVIOUS
  <1>6. 2 * Triangle(k + 1) = 2 * Triangle(k) + 2 * (k + 1)
    BY <1>4, <1>5
  <1>7. Triangle(k + 1) = Triangle(k) + k + 1
    <2>1. Triangle(k + 1) \in Nat /\ Triangle(k) \in Nat
      BY <1>4
    <2> DEFINE a == Triangle(k)
               b == Triangle(k + 1)
    <2>2. a \in Nat /\ b \in Nat /\ 2 * b = 2 * a + 2 * (k + 1)
      BY <1>6, <2>1
    <2> HIDE DEF a, b
    <2>3. b = a + k + 1
      BY <2>2
    <2> QED
      BY <2>3 DEF a, b
  <1> QED
    BY <1>4, <1>7

LEMMA ProbeNext ==
  ASSUME NEW s \in Nat, NEW k \in Nat, NEW n \in Nat, n > 0
  PROVE  /\ Probe(s, k, n) \in 0..(n - 1)
         /\ After(Probe(s, k, n), k, n) = Probe(s, k + 1, n)
PROOF
  <1> DEFINE a == s + Triangle(k)
             b == k + 1
  <1>1. a \in Nat /\ b \in Nat /\ s + Triangle(k + 1) = a + b
    <2>1. Triangle(k) \in Nat /\ Triangle(k + 1) = Triangle(k) + k + 1
      BY TriangleIs
    <2> QED
      BY <2>1
  <1>2. After(Probe(s, k, n), k, n) = ((a % n) + b) % n
    <2>1. a % n \in Nat
      <3> HIDE DEF a
      <3> QED BY <1>1, Remainder
    <2>2. (a % n) + k + 1 = (a % n) + b
      <3> HIDE DEF a
      <3> QED BY <2>1
    <2> QED
      BY <2>2 DEF After, Probe
  <1>3. Probe(s, k + 1, n) = (a + b) % n /\ Probe(s, k, n) = a % n
    BY <1>1 DEF Probe
  <1> HIDE DEF a, b
  <1>4. a % n \in 0..(n - 1)
    BY <1>1, Remainder
  <1>5. ((a % n) + b) % n = (a + b) % n
    BY <1>1, SumRemainder
  <1> QED
    BY <1>2, <1>3, <1>4, <1>5

LEMMA FirstProbe ==
  ASSUME NEW s \in Nat, NEW n \in Nat, s < n
  PROVE  Probe(s, 0, n) = s
PROOF
  <1>1. Triangle(0) = 0
    BY TriangleIs DEF Triangle
  <1>2. (0 * n + s) % n = s
    <2>1. s \in 0..(n - 1)
      OBVIOUS
    <2> QED
      BY <2>1, RemainderIsOne
  <1>3. s + Triangle(0) = 0 * n + s
    BY <1>1
  <1> QED
    BY <1>2, <1>3 DEF Probe

(* Two probes are never the same bucket: twice their distance is a product  *)
(* of an even and an odd number, both too small for a power of two to       *)
(* divide.                                                                  *)
LEMMA ProbesDiffer ==
  ASSUME NEW s \in Nat, NEW n \in Sizes, NEW j \in Nat, NEW k \in Nat, j < k, k < n
  PROVE  Probe(s, j, n) # Probe(s, k, n)
PROOF
  <1> SUFFICES ASSUME Probe(s, j, n) = Probe(s, k, n) PROVE FALSE
    OBVIOUS
  <1>1. n \in Nat /\ n > 0 /\ 2 * n \in Sizes
    BY SizesEven, SizesDouble
  <1>2. /\ Triangle(j) \in Nat /\ 2 * Triangle(j) = j * (j + 1)
        /\ Triangle(k) \in Nat /\ 2 * Triangle(k) = k * (k + 1)
    BY TriangleIs
  <1> DEFINE a == k - j
             b == k + j + 1
  <1>3. a * b = 2 * Triangle(k) - 2 * Triangle(j)
    <2>1. a * b = k * (k + 1) - j * (j + 1)
      OBVIOUS
    <2> QED
      BY <2>1, <1>2
  <1>4. a \in Nat /\ b \in Nat /\ 0 < a /\ a < n /\ 0 < b /\ b < 2 * n
    BY <1>1
  <1>5. Triangle(j) <= Triangle(k)
    <2>1. a * b \in Nat
      BY <1>4, Product
    <2> HIDE DEF a, b
    <2> QED
      BY <2>1, <1>2, <1>3
  <1>6. PICK q \in Nat : Triangle(k) - Triangle(j) = q * n
    <2> DEFINE A == s + Triangle(j)
               B == s + Triangle(k)
    <2>1. A \in Nat /\ B \in Nat /\ A <= B /\ B - A = Triangle(k) - Triangle(j)
      BY <1>2, <1>5
    <2>2. A % n = B % n
      BY DEF Probe
    <2> HIDE DEF A, B
    <2>3. \E q \in Nat : B - A = q * n
      BY <1>1, <2>1, <2>2, SameRemainder
    <2> QED
      BY <2>1, <2>3
  <1>7. a * b = q * (2 * n) /\ b * a = q * (2 * n)
    <2>1. a * b = 2 * (q * n) /\ q * n \in Nat
      <3> HIDE DEF a, b
      <3> QED BY <1>1, <1>2, <1>3, <1>6
    <2>2. q * (2 * n) = 2 * (q * n)
      BY <1>1
    <2>3. b * a = a * b
      OBVIOUS
    <2> QED
      BY <2>1, <2>2, <2>3
  <1>8. a % 2 = 1 \/ b % 2 = 1
    OBVIOUS
  <1> HIDE DEF a, b
  <1>9. ASSUME NEW r \in Nat, NEW x \in Nat, 0 < x, x < 2 * n, x = r * (2 * n)
        PROVE  FALSE
    <2>1. r # 0
      BY <1>1, <1>9
    <2>2. 0 * (2 * n) + 2 * n <= r * (2 * n)
      <3>1. 0 < r /\ 2 * n \in Nat
        BY <1>1, <2>1
      <3> QED
        BY <3>1, LessTimes
    <2> QED
      BY <1>1, <1>9, <2>2
  <1>10. CASE b % 2 = 1
    <2> DEFINE m == 2 * n
    <2>0. m \in Sizes /\ a \in Nat /\ b \in Nat /\ a * b = q * m
      BY <1>1, <1>4, <1>7
    <2> HIDE DEF m
    <2>1. PICK r \in Nat : a = r * m
      BY <1>10, <2>0, OddFactor
    <2>2. a < 2 * n
      BY <1>1, <1>4
    <2> QED
      BY <1>4, <1>9, <2>1, <2>2 DEF m
  <1>11. CASE a % 2 = 1
    <2> DEFINE m == 2 * n
    <2>0. m \in Sizes /\ a \in Nat /\ b \in Nat /\ b * a = q * m
      BY <1>1, <1>4, <1>7
    <2> HIDE DEF m
    <2>1. PICK r \in Nat : b = r * m
      BY <1>11, <2>0, OddFactor
    <2> QED
      BY <1>4, <1>9, <2>1 DEF m
  <1> QED
    BY <1>8, <1>10, <1>11

(* As many probes as there are buckets, all different, reach each of them. *)
LEMMA ProbesCover ==
  ASSUME NEW s \in Nat, NEW n \in Sizes, NEW i \in 0..(n - 1)
  PROVE  \E k \in 0..(n - 1) : Probe(s, k, n) = i
PROOF
  <1> DEFINE S == 0..(n - 1)
             f == [k \in S |-> Probe(s, k, n)]
  <1>1. n \in Nat /\ n > 0
    BY SizesEven
  <1>2. f \in [S -> S]
    <2>1. \A k \in S : k \in Nat
      OBVIOUS
    <2>2. \A k \in S : Probe(s, k, n) \in S
      BY <1>1, <2>1, ProbeNext
    <2> QED
      BY <2>2
  <1>3. \A j, k \in S : f[j] = f[k] => j = k
    <2> SUFFICES ASSUME NEW j \in S, NEW k \in S, Probe(s, j, n) = Probe(s, k, n), j # k
                 PROVE  FALSE
      OBVIOUS
    <2>1. j \in Nat /\ k \in Nat /\ j < n /\ k < n /\ (j < k \/ k < j)
      BY <1>1
    <2> QED
      BY <2>1, ProbesDiffer
  <1>4. IsFiniteSet(S)
    BY <1>1, FS_Interval
  <1> HIDE DEF f, S
  <1>5. f \in Injection(S, S)
    BY <1>2, <1>3 DEF Injection, IsInjective
  <1>6. f \in Surjection(S, S)
    BY <1>4, <1>5, FS_Injection
  <1>7. \E k \in S : f[k] = i
    <2>1. i \in S
      BY DEF S
    <2> QED
      BY <1>6, <2>1 DEF Surjection
  <1> QED
    BY <1>7 DEF f, S

-----------------------------------------------------------------------------
(***************************************************************************)
(* A search, and where it ends.                                            *)
(***************************************************************************)

(* The search of khash.h, as a function from a probe, its step and the      *)
(* deleted bucket that was seen; the recursion of Search() has that         *)
(* solution because the step only grows up to the number of buckets.        *)
Look(h, key, from, at) ==
  LET n    == h.n_buckets
      i    == at[1]
      next == After(i, at[2], n)
      seen == IF i \in h.deleted THEN i ELSE at[3]
  IN  IF i \in Stops(h, key) THEN [at |-> i, site |-> at[3], round |-> FALSE]
      ELSE IF next = Home(key, n) THEN [at |-> next, site |-> seen, round |-> TRUE]
      ELSE from[<<next, at[2] + 1, seen>>]

Places == Nat \X Nat \X Nat

Looking(h, key) ==
  CHOOSE from : from = [at \in Places |-> Look(h, key, from, at)]

LEMMA SearchLooks ==
  ASSUME NEW h, NEW key
  PROVE  Search(h, key) = Looking(h, key)[<<Home(key, h.n_buckets), 0, h.n_buckets>>]
BY DEF Search, Looking, Look, Places

LEMMA LookingIsWalk ==
  ASSUME NEW h, NEW key, h.n_buckets \in Nat, h.n_buckets > 0,
         h.deleted \subseteq Nat,
         NEW from, from = Looking(h, key)
  PROVE  from = [at \in Places |-> Look(h, key, from, at)]
PROOF
  <1> DEFINE n == h.n_buckets
             E == Places
             next(at) == After(at[1], at[2], n)
             seen(at) == IF at[1] \in h.deleted THEN at[1] ELSE at[3]
             Ends == {at \in E : at[1] \in Stops(h, key) \/ next(at) = Home(key, n)}
             out == [at \in E |->
               IF at[1] \in Stops(h, key)
                 THEN [at |-> at[1], site |-> at[3], round |-> FALSE]
                 ELSE [at |-> next(at), site |-> seen(at), round |-> TRUE]]
             then == [at \in E |-> <<next(at), at[2] + 1, seen(at)>>]
  <1>1. ASSUME NEW at \in E
        PROVE  then[at] \in E
    <2>1. at[1] \in Nat /\ at[2] \in Nat /\ at[3] \in Nat
      BY DEF Places
    <2>2. next(at) \in Nat
      <3> DEFINE a == at[1] + at[2] + 1
      <3>1. a \in Nat
        BY <2>1
      <3> HIDE DEF a
      <3>2. a % n \in 0..(n - 1)
        BY <3>1, Remainder
      <3> QED
        BY <3>2 DEF After, a
    <2>3. seen(at) \in Nat
      BY <2>1
    <2> HIDE DEF next, seen
    <2> QED
      BY <2>1, <2>2, <2>3 DEF Places
  <1>2. ASSUME NEW v, NEW at \in E
        PROVE  (IF at \in Ends THEN out[at] ELSE v[then[at]]) = Look(h, key, v, at)
    <2>1. CASE at[1] \in Stops(h, key)
      BY <2>1 DEF Look
    <2>2. CASE at[1] \notin Stops(h, key) /\ next(at) = Home(key, n)
      BY <2>2 DEF Look
    <2>3. CASE at[1] \notin Stops(h, key) /\ next(at) # Home(key, n)
      BY <2>3 DEF Look
    <2> QED
      BY <2>1, <2>2, <2>3
  <1>3. PICK v : Solves(v, E, Ends, out, then)
    <2> HIDE DEF E, Ends, out, then
    <2> QED BY <1>1, TailRecursion
  <1>4. v = [at \in E |-> Look(h, key, v, at)]
    <2>1. v = [at \in E |-> IF at \in Ends THEN out[at] ELSE v[then[at]]]
      BY <1>3 DEF Solves
    <2> HIDE DEF E, Ends, out, then
    <2> QED BY <1>2, <2>1
  <1> QED
    BY <1>4 DEF Looking

(* The probes meet a set of buckets, and one of them does so first. *)
LEMMA FirstMeeting ==
  ASSUME NEW s \in Nat, NEW n \in Sizes, NEW S, NEW i \in 0..(n - 1), i \in S
  PROVE  \E k \in 0..(n - 1) : /\ Probe(s, k, n) \in S
                               /\ \A j \in 0..(k - 1) : Probe(s, j, n) \notin S
PROOF
  <1> DEFINE T == {k \in 0..(n - 1) : Probe(s, k, n) \in S}
  <1>1. PICK k \in 0..(n - 1) : Probe(s, k, n) = i
    BY ProbesCover
  <1>2. T # {} /\ T \in SUBSET Nat
    BY <1>1
  <1>3. PICK m \in T : \A j \in T : m <= j
    <2> HIDE DEF T
    <2> QED BY <1>2, LeastNumber
  <1>4. m \in 0..(n - 1) /\ n \in Nat
    BY SizesEven
  <1>5. ASSUME NEW j \in 0..(m - 1) PROVE Probe(s, j, n) \notin S
    <2>1. j \in 0..(n - 1) /\ ~(m <= j)
      BY <1>4
    <2> QED
      BY <1>3, <2>1
  <1> QED
    BY <1>4, <1>5

(* A search begins at a bucket. *)
LEMMA HomeIs ==
  ASSUME NEW key \in Window, NEW n \in Nat, n > 0
  PROVE  Home(key, n) \in 0..(n - 1) /\ Probe(Home(key, n), 0, n) = Home(key, n)
PROOF
  <1>1. Hash[key] \in Nat
    BY HashIsNumber
  <1>2. Home(key, n) \in 0..(n - 1)
    BY <1>1, Remainder DEF Home
  <1> QED
    BY <1>2, FirstProbe

(* The search ends at the k-th probe: that bucket stops it and none before  *)
(* did; it never came round, and the deleted bucket it remembers is one     *)
(* that it passed.                                                          *)
EndsAt(h, key, s, n, found, k) ==
  /\ Probe(s, k, n) \in Stops(h, key)
  /\ \A j \in 0..(k - 1) : Probe(s, j, n) \notin Stops(h, key)
  /\ found.at = Probe(s, k, n) /\ found.round = FALSE
  /\ \/ found.site = n
     \/ /\ found.site \in h.deleted
        /\ \E j \in 0..(k - 1) : found.site = Probe(s, j, n)

(* It always ends so, in a table that has an empty bucket. *)
LEMMA SearchStops ==
  ASSUME NEW h, NEW key \in Window, h.n_buckets \in Sizes,
         h.deleted \subseteq Buckets(h), Empty(h) # {},
         NEW s, s = Home(key, h.n_buckets), NEW n, n = h.n_buckets,
         NEW found, found = Search(h, key)
  PROVE  \E k \in 0..(n - 1) : EndsAt(h, key, s, n, found, k)
PROOF
  <1> DEFINE from == Looking(h, key)
  <1>1. n \in Nat /\ n > 0 /\ n \in Sizes /\ s \in 0..(n - 1) /\ s \in Nat
        /\ Probe(s, 0, n) = s
    BY SizesEven, HomeIs
  <1>2. from = [at \in Places |-> Look(h, key, from, at)]
    <2>1. h.deleted \subseteq Nat
      BY DEF Buckets
    <2> HIDE DEF from
    <2> QED BY <1>1, <2>1, LookingIsWalk DEF from
  <1>3. found = from[<<s, 0, n>>]
    BY SearchLooks
  <1> HIDE DEF from
  <1>4. PICK i \in 0..(n - 1) : i \in Stops(h, key)
    BY DEF Empty, Buckets, Stops
  <1>5. PICK k \in 0..(n - 1) :
          /\ Probe(s, k, n) \in Stops(h, key)
          /\ \A j \in 0..(k - 1) : Probe(s, j, n) \notin Stops(h, key)
    BY <1>1, <1>4, FirstMeeting
  <1> DEFINE Site(j) == {n} \cup {b \in h.deleted : \E l \in 0..(j - 1) : b = Probe(s, l, n)}
             Found(j) == \E site \in Site(j) : found = from[<<Probe(s, j, n), j, site>>]
             P == {j \in Nat : j <= k => Found(j)}
  <1>a. ASSUME NEW j \in Nat PROVE Probe(s, j, n) \in Nat
    <2>1. Probe(s, j, n) \in 0..(n - 1)
      BY <1>1, ProbeNext
    <2> QED
      BY <1>1, <2>1
  <1>b. ASSUME NEW j \in Nat, NEW site \in Site(j) PROVE site \in Nat
    BY <1>1, <1>a
  <1>6. 0 \in P
    BY <1>1, <1>3
  <1>7. ASSUME NEW j \in Nat, j \in P, j + 1 <= k
        PROVE  Found(j + 1)
    <2>0. j <= k
      BY <1>7
    <2>1. PICK site \in Site(j) : found = from[<<Probe(s, j, n), j, site>>]
      <3> HIDE DEF Site
      <3> QED
        BY <1>7, <2>0
    <2> DEFINE b == Probe(s, j, n)
               at == <<b, j, site>>
               seen == IF b \in h.deleted THEN b ELSE site
    <2>2. b \in Nat /\ After(b, j, n) = Probe(s, j + 1, n)
      <3>1. b \in Nat
        BY <1>a
      <3>2. s \in Nat /\ n \in Nat /\ n > 0
        BY <1>1
      <3>3. After(Probe(s, j, n), j, n) = Probe(s, j + 1, n)
        BY <3>2, ProbeNext
      <3> QED
        BY <3>1, <3>3
    <2>3. site \in Nat
      BY <1>b
    <2>4. at \in Places
      BY <2>2, <2>3 DEF Places
    <2>5. b \notin Stops(h, key)
      <3>1. j \in 0..(k - 1)
        BY <1>7
      <3> QED
        BY <1>5, <3>1
    <2>6. After(b, j, n) # s
      <3>1. 0 \in Nat /\ j + 1 \in Nat /\ 0 < j + 1 /\ j + 1 < n
        BY <1>1, <1>7
      <3>2. Probe(s, 0, n) # Probe(s, j + 1, n)
        BY <1>1, <3>1, ProbesDiffer
      <3> QED
        BY <1>1, <2>2, <3>2
    <2>7. from[at] = Look(h, key, from, at)
      BY <1>2, <2>4
    <2>8. at[1] = b /\ at[2] = j /\ at[3] = site
      OBVIOUS
    <2> HIDE DEF at, b
    <2>9. from[at] = from[<<After(b, j, n), j + 1, seen>>]
      BY <2>5, <2>6, <2>7, <2>8 DEF Look
    <2>10. seen \in Site(j + 1)
      <3>1. j \in 0..((j + 1) - 1) /\ \A l \in 0..(j - 1) : l \in 0..((j + 1) - 1)
        OBVIOUS
      <3> QED
        BY <3>1 DEF b
    <2> HIDE DEF seen
    <2> QED
      BY <2>1, <2>2, <2>9, <2>10 DEF at, b
  <1>8. \A j \in Nat : j \in P => j + 1 \in P
    <2> HIDE DEF Found
    <2> QED BY <1>7
  <1>9. k \in P
    <2> HIDE DEF P
    <2> QED BY <1>6, <1>8, Induction
  <1>10. PICK site \in Site(k) : found = from[<<Probe(s, k, n), k, site>>]
    <2>1. k \in Nat /\ k <= k
      BY <1>1
    <2> HIDE DEF Site
    <2> QED
      BY <1>9, <2>1
  <1> DEFINE b == Probe(s, k, n)
             at == <<b, k, site>>
  <1>11. b \in Nat /\ k \in Nat
    BY <1>1, <1>a
  <1>12. site \in Nat
    BY <1>11, <1>b
  <1>13. at \in Places
    BY <1>11, <1>12 DEF Places
  <1>14. from[at] = Look(h, key, from, at)
    BY <1>2, <1>13
  <1>15. at[1] = b /\ at[2] = k /\ at[3] = site
    OBVIOUS
  <1> HIDE DEF at
  <1>16. found = [at |-> b, site |-> site, round |-> FALSE]
    BY <1>5, <1>10, <1>14, <1>15 DEF Look, at
  <1>17. found.at = b /\ found.site = site /\ found.round = FALSE
    BY <1>16
  <1> QED
    BY <1>5, <1>10, <1>17 DEF EndsAt

-----------------------------------------------------------------------------
(***************************************************************************)
(* The invariant of the table, with what a search finds in it and what     *)
(* deleting leaves.                                                        *)
(***************************************************************************)

(* The tables there can be. *)
Arrays == UNION {[0..(n - 1) -> Cell] : n \in Nat}

Tables == [ n_buckets : Nat, size : Nat, n_occupied : Nat, upper_bound : Nat,
            live : SUBSET Nat, deleted : SUBSET Nat, cells : Arrays ]

Taken(h) == h.live \cup h.deleted

(* The bucket i is probed for the key, and all that is probed before is     *)
(* taken.                                                                   *)
OnPath(key, i, n, taken) ==
  \E k \in 0..(n - 1) : /\ Probe(Home(key, n), k, n) = i
                        /\ \A j \in 0..(k - 1) : Probe(Home(key, n), j, n) \in taken

(* Every live cell lies on the path of its own key, and no key is there     *)
(* twice.                                                                   *)
Filled(live, cells, n, taken) ==
  /\ \A i \in live : cells[i] \in Element
  /\ \A i, j \in live : cells[i][1] = cells[j][1] => i = j
  /\ \A i \in live : OnPath(cells[i][1], i, n, taken)

(* The invariant: how the buckets lie, and what the counters count. *)
Layout(h) ==
  /\ h \in Tables
  /\ h.n_buckets = 0 \/ h.n_buckets \in Sizes
  /\ h.live \subseteq Buckets(h) /\ h.deleted \subseteq Buckets(h) \ h.live
  /\ h.cells \in [Buckets(h) -> Cell]
  /\ \A i \in Buckets(h) \ h.live : h.cells[i] = NULL
  /\ Filled(h.live, h.cells, h.n_buckets, Taken(h))

Counted(h) ==
  /\ h.size = Cardinality(h.live)
  /\ h.n_occupied = Cardinality(h.live) + Cardinality(h.deleted)
  /\ h.upper_bound = IF h.n_buckets = 0 THEN 0 ELSE UpperBound(h.n_buckets)
  /\ h.n_occupied <= h.upper_bound

HashOK(h) == Layout(h) /\ Counted(h)

Content(h) == {h.cells[i] : i \in h.live}

(* A cell is a window and the info of it; and 77 percent of the buckets,    *)
(* rounded, are fewer than all, but more than half.                         *)
LEMMA CellParts ==
  /\ \A c \in Element : c[1] \in Window /\ c[2] \in Info /\ c = <<c[1], c[2]>>
  /\ \A w \in Window, x \in Info : <<w, x>> \in Element
BY DEF Element

LEMMA UpperBoundIs ==
  /\ UpperBound(0) = 0
  /\ \A n \in Nat : n >= 4 =>
       /\ UpperBound(n) \in Nat /\ UpperBound(n) < n
       /\ UpperBound(2 * n) \in Nat /\ n < UpperBound(2 * n)
       /\ \A m \in Nat : 2 * m < n => m < UpperBound(n)
  /\ 0 < UpperBound(4)
BY DEF UpperBound

(* Counting buckets; some of them are neither live nor deleted. *)
LEMMA BucketsFinite ==
  ASSUME NEW h, Layout(h)
  PROVE  /\ IsFiniteSet(Buckets(h)) /\ IsFiniteSet(h.live) /\ IsFiniteSet(h.deleted)
         /\ Cardinality(Buckets(h)) = h.n_buckets
         /\ Cardinality(h.live) \in Nat /\ Cardinality(h.deleted) \in Nat
         /\ Cardinality(h.live) + Cardinality(h.deleted) = Cardinality(Taken(h))
PROOF
  <1>1. h.n_buckets \in Nat /\ h.live \subseteq Buckets(h)
        /\ h.deleted \subseteq Buckets(h) /\ h.live \cap h.deleted = {}
    BY DEF Layout, Tables
  <1>2. IsFiniteSet(Buckets(h)) /\ Cardinality(Buckets(h)) = h.n_buckets
    <2>1. 0 \in Int /\ h.n_buckets - 1 \in Int
      BY <1>1
    <2>2. /\ IsFiniteSet(0..(h.n_buckets - 1))
          /\ Cardinality(0..(h.n_buckets - 1))
               = IF 0 > h.n_buckets - 1 THEN 0 ELSE (h.n_buckets - 1) - 0 + 1
      BY <2>1, FS_Interval
    <2> QED
      BY <1>1, <2>2 DEF Buckets
  <1>3. IsFiniteSet(h.live) /\ IsFiniteSet(h.deleted)
    BY <1>1, <1>2, FS_Subset
  <1>4. Cardinality(h.live) \in Nat /\ Cardinality(h.deleted) \in Nat
    BY <1>3, FS_CardinalityType
  <1>5. Cardinality(Taken(h)) = Cardinality(h.live) + Cardinality(h.deleted) - Cardinality({})
    BY <1>1, <1>3, FS_Union DEF Taken
  <1>6. Cardinality(Taken(h)) = Cardinality(h.live) + Cardinality(h.deleted)
    BY <1>4, <1>5, FS_EmptySet
  <1> QED
    BY <1>2, <1>3, <1>4, <1>6

LEMMA SomeBucketIsEmpty ==
  ASSUME NEW h, HashOK(h), h.n_buckets # 0
  PROVE  Empty(h) # {}
PROOF
  <1> SUFFICES ASSUME Empty(h) = {} PROVE FALSE
    OBVIOUS
  <1>1. Layout(h) /\ Counted(h) /\ h.n_buckets \in Sizes
    BY DEF HashOK, Layout
  <1>2. Taken(h) = Buckets(h)
    BY <1>1 DEF Empty, Taken, Layout
  <1>3. h.n_occupied = h.n_buckets
    BY <1>1, <1>2, BucketsFinite DEF Counted
  <1>4. h.n_buckets \in Nat /\ h.n_buckets >= 4
    BY <1>1, SizesEven
  <1>5. h.n_buckets <= UpperBound(h.n_buckets)
    BY <1>1, <1>3 DEF Counted
  <1> QED
    BY <1>4, <1>5, UpperBoundIs

(* kh_get() returns the bucket of the key, and n_buckets if there is none. *)
LEMMA GetFinds ==
  ASSUME NEW h, HashOK(h), NEW key \in Window
  PROVE  /\ \A i \in h.live : h.cells[i][1] = key => kh_get(h, key) = i
         /\ (\A i \in h.live : h.cells[i][1] # key) => kh_get(h, key) = h.n_buckets
PROOF
  <1> DEFINE n == h.n_buckets
             s == Home(key, n)
             found == Search(h, key)
  <1>1. /\ n = 0 \/ n \in Sizes
        /\ h.live \subseteq Buckets(h) /\ h.deleted \subseteq Buckets(h) \ h.live
        /\ Filled(h.live, h.cells, n, Taken(h))
    BY DEF HashOK, Layout
  <1>2. CASE n = 0
    <2>1. h.live = {}
      BY <1>1, <1>2 DEF Buckets
    <2> QED
      BY <1>2, <2>1 DEF kh_get
  <1>3. CASE n # 0
    <2>0. n \in Sizes /\ n \in Nat
      BY <1>1, <1>3, SizesEven
    <2>1. Empty(h) # {} /\ h.deleted \subseteq Buckets(h)
      BY <1>1, <1>3, SomeBucketIsEmpty
    <2>2. PICK k \in 0..(n - 1) :
            /\ Probe(s, k, n) \in Stops(h, key)
            /\ \A j \in 0..(k - 1) : Probe(s, j, n) \notin Stops(h, key)
            /\ found.at = Probe(s, k, n) /\ found.round = FALSE
      <3>1. \E k \in 0..(n - 1) : EndsAt(h, key, s, n, found, k)
        BY <2>0, <2>1, SearchStops
      <3> HIDE DEF found, s, n
      <3> QED
        BY <3>1 DEF EndsAt
    <2> HIDE DEF found
    <2>3. kh_get(h, key) = IF found.at \in h.live THEN found.at ELSE n
      BY <1>3, <2>2 DEF kh_get, found
    <2>4. ASSUME NEW i \in h.live, h.cells[i][1] = key
          PROVE  found.at = i
      <3>1. OnPath(key, i, n, Taken(h))
        BY <1>1, <2>4 DEF Filled
      <3>2. PICK m \in 0..(n - 1) :
              /\ Probe(s, m, n) = i
              /\ \A j \in 0..(m - 1) : Probe(s, j, n) \in Taken(h)
        BY <3>1 DEF OnPath
      <3>3. i \in Stops(h, key)
        BY <2>4 DEF Stops
      <3>4. ~(m < k)
        <4>1. m < k => m \in 0..(k - 1)
          BY <2>0
        <4> QED
          BY <2>2, <3>2, <3>3, <4>1
      <3>5. CASE m = k
        BY <2>2, <3>2, <3>5
      <3>6. CASE k < m
        <4>1. k \in 0..(m - 1)
          BY <2>0, <3>6
        <4>2. found.at \in Taken(h)
          BY <2>2, <3>2, <4>1
        <4>3. found.at \in h.live /\ h.cells[found.at][1] = key
          BY <2>2, <4>2 DEF Stops, Empty, Taken
        <4> QED
          BY <1>1, <2>4, <4>3 DEF Filled
      <3> QED
        BY <2>0, <3>4, <3>5, <3>6
    <2>5. found.at \in h.live => h.cells[found.at][1] = key
      BY <2>2 DEF Stops, Empty
    <2> QED
      BY <2>3, <2>4, <2>5
  <1> QED
    BY <1>2, <1>3

(* kh_del() keeps every path: the bucket stays taken. *)
LEMMA DelKeeps ==
  ASSUME NEW h, HashOK(h), NEW x \in h.live, NEW m, m = kh_del(h, x)
  PROVE  /\ HashOK(m) /\ m.n_buckets = h.n_buckets
         /\ m.live = h.live \ {x}
         /\ \A i \in m.live : m.cells[i] = h.cells[i]
         /\ Content(m) = Content(h) \ {h.cells[x]}
PROOF
  <1>1. /\ h \in Tables
        /\ h.n_buckets = 0 \/ h.n_buckets \in Sizes
        /\ h.live \subseteq Buckets(h) /\ h.deleted \subseteq Buckets(h) \ h.live
        /\ h.cells \in [Buckets(h) -> Cell]
        /\ \A i \in Buckets(h) \ h.live : h.cells[i] = NULL
        /\ Filled(h.live, h.cells, h.n_buckets, Taken(h))
        /\ Counted(h)
    BY DEF HashOK, Layout
  <1> DEFINE n == h.n_buckets
             live == h.live \ {x}
             deleted == h.deleted \cup {x}
             cells == [h.cells EXCEPT ![x] = NULL]
  <1>2. /\ n \in Nat /\ h.size \in Nat /\ h.n_occupied \in Nat /\ h.upper_bound \in Nat
        /\ x \in 0..(n - 1) /\ x # n
    BY <1>1 DEF Tables, Buckets
  <1>3. m = [n_buckets |-> n, size |-> h.size - 1, n_occupied |-> h.n_occupied,
             upper_bound |-> h.upper_bound, live |-> live, deleted |-> deleted,
             cells |-> cells]
    BY <1>1, <1>2 DEF kh_del, Tables
  <1>4. m.n_buckets = n /\ m.size = h.size - 1 /\ m.n_occupied = h.n_occupied
        /\ m.upper_bound = h.upper_bound /\ m.live = live /\ m.deleted = deleted
        /\ m.cells = cells /\ Buckets(m) = Buckets(h)
    BY <1>3 DEF Buckets
  <1>5. cells \in [0..(n - 1) -> Cell] /\ cells \in Arrays
    <2>1. cells \in [0..(n - 1) -> Cell]
      BY <1>1, <1>2 DEF Buckets, Cell
    <2> HIDE DEF cells
    <2> QED
      BY <1>2, <2>1 DEF Arrays
  <1>6. \A i \in live : cells[i] = h.cells[i]
    BY <1>1
  <1>7. cells[x] = NULL /\ \A i \in Buckets(h) \ live : cells[i] = NULL
    BY <1>1
  <1>8. Taken(m) = Taken(h)
    BY <1>4 DEF Taken
  <1> HIDE DEF cells
  <1>9. Filled(live, cells, n, Taken(m))
    BY <1>1, <1>6, <1>8 DEF Filled
  <1>10. Cardinality(live) = Cardinality(h.live) - 1 /\ Cardinality(h.live) >= 1
         /\ Cardinality(deleted) = Cardinality(h.deleted) + 1
    <2>1. IsFiniteSet(h.live) /\ IsFiniteSet(h.deleted)
      BY BucketsFinite DEF HashOK
    <2>2. Cardinality(live) = Cardinality(h.live) - 1 /\ IsFiniteSet(live)
      BY <2>1, FS_RemoveElement
    <2>3. x \notin h.deleted
      BY <1>1
    <2>4. Cardinality(deleted) = Cardinality(h.deleted) + 1
      BY <2>1, <2>3, FS_AddElement
    <2>5. Cardinality(live) \in Nat /\ Cardinality(h.live) \in Nat
      BY <2>1, <2>2, FS_CardinalityType
    <2> QED
      BY <2>2, <2>4, <2>5
  <1>11. m \in Tables
    <2>1. h.size - 1 \in Nat
      BY <1>1, <1>2, <1>10 DEF Counted
    <2>2. live \in SUBSET Nat /\ deleted \in SUBSET Nat
      BY <1>1, <1>2 DEF Tables
    <2> HIDE DEF live, deleted, n
    <2> QED
      BY <1>2, <1>3, <1>5, <2>1, <2>2 DEF Tables, n
  <1>12. Layout(m)
    <2>1. m.live \subseteq Buckets(m) /\ m.deleted \subseteq Buckets(m) \ m.live
      BY <1>1, <1>4
    <2>2. m.cells \in [Buckets(m) -> Cell]
      BY <1>4, <1>5 DEF Buckets
    <2>3. \A i \in Buckets(m) \ m.live : m.cells[i] = NULL
      BY <1>4, <1>7
    <2> QED
      BY <1>1, <1>4, <1>9, <1>11, <2>1, <2>2, <2>3 DEF Layout
  <1>13. Counted(m)
    <2>1. Cardinality(h.live) \in Nat /\ Cardinality(h.deleted) \in Nat
      BY BucketsFinite DEF HashOK
    <2> QED
      BY <1>1, <1>4, <1>10, <2>1 DEF Counted
  <1>14. Content(m) = Content(h) \ {h.cells[x]}
    <2>1. \A i \in live : h.cells[i] # h.cells[x]
      BY <1>1 DEF Filled
    <2>2. \A c \in Content(m) : c \in Content(h) \ {h.cells[x]}
      BY <1>4, <1>6, <2>1 DEF Content
    <2>3. \A c \in Content(h) \ {h.cells[x]} : c \in Content(m)
      BY <1>4, <1>6 DEF Content
    <2> QED
      BY <2>2, <2>3
  <1> QED
    BY <1>4, <1>6, <1>12, <1>13, <1>14 DEF HashOK

-----------------------------------------------------------------------------
(***************************************************************************)
(* Making room: the size that is chosen, and the place that a cell is      *)
(* given.                                                                  *)
(***************************************************************************)

(* kroundup32(): the loop doubles until it is enough. *)
Rounding(wanted) ==
  CHOOSE from : from = [n \in Nat |-> IF n >= wanted THEN n ELSE from[2 * n]]

LEMMA RoundsUp ==
  ASSUME NEW n \in Sizes, NEW wanted \in Nat, n >= wanted, n < 2 * wanted \/ n = 4
  PROVE  roundup(wanted) = n
PROOF
  <1> DEFINE from == Rounding(wanted)
             Ends == {k \in Nat : k >= wanted}
             out == [k \in Nat |-> k]
             next == [k \in Nat |-> 2 * k]
  <1>1. PICK v : Solves(v, Nat, Ends, out, next)
    <2>1. \A k \in Nat \ Ends : next[k] \in Nat
      OBVIOUS
    <2> HIDE DEF Ends, next, out
    <2> QED BY <2>1, TailRecursion
  <1>2. v = [k \in Nat |-> IF k >= wanted THEN k ELSE v[2 * k]]
    <2>1. v = [k \in Nat |-> IF k \in Ends THEN out[k] ELSE v[next[k]]]
      BY <1>1 DEF Solves
    <2>2. \A k \in Nat : (IF k \in Ends THEN out[k] ELSE v[next[k]])
                         = IF k >= wanted THEN k ELSE v[2 * k]
      OBVIOUS
    <2> HIDE DEF Ends, next, out
    <2> QED
      BY <2>1, <2>2
  <1>3. from = [k \in Nat |-> IF k >= wanted THEN k ELSE from[2 * k]]
    BY <1>2 DEF Rounding
  <1>4. roundup(wanted) = from[4]
    BY DEF roundup, Rounding
  <1> HIDE DEF from
  <1> DEFINE S == {k \in Nat : k < 2 * wanted \/ k = 4 => from[4] = from[k]}
  <1>5. \A k \in S : 2 * k \in S
    <2> SUFFICES ASSUME NEW k \in S, 2 * k < 2 * wanted \/ 2 * k = 4
                 PROVE  from[4] = from[2 * k]
      OBVIOUS
    <2>1. CASE 2 * k = 4
      BY <2>1
    <2>2. CASE 2 * k < 2 * wanted
      <3>1. k \in Nat /\ k < wanted /\ k < 2 * wanted /\ ~(k >= wanted)
        BY <2>2
      <3> QED
        BY <1>3, <3>1
    <2> QED
      BY <2>1, <2>2
  <1>6. 4 \in S /\ S \in SUBSET Nat
    OBVIOUS
  <1>7. n \in S
    <2> HIDE DEF S
    <2> QED BY <1>5, <1>6, SizesLeast
  <1>8. n \in Nat /\ from[4] = from[n]
    BY <1>7
  <1> QED
    BY <1>3, <1>4, <1>8

(* free_bucket() is the first probe that is not taken in the new table. *)
Freeing(n, new) ==
  CHOOSE from : from = [at \in Nat \X Nat |->
    IF at[1] \notin new THEN at[1]
    ELSE from[<<After(at[1], at[2], n), at[2] + 1>>]]

LEMMA FreeingIsWalk ==
  ASSUME NEW n \in Nat, n > 0, NEW new, NEW from, from = Freeing(n, new)
  PROVE  from = [at \in Nat \X Nat |->
           IF at[1] \notin new THEN at[1]
           ELSE from[<<After(at[1], at[2], n), at[2] + 1>>]]
PROOF
  <1> DEFINE E == Nat \X Nat
             Ends == {at \in E : at[1] \notin new}
             out == [at \in E |-> at[1]]
             next == [at \in E |-> <<After(at[1], at[2], n), at[2] + 1>>]
             Here(v, at) == IF at[1] \notin new THEN at[1]
                            ELSE v[<<After(at[1], at[2], n), at[2] + 1>>]
  <1>1. ASSUME NEW at \in E PROVE next[at] \in E
    <2> DEFINE a == at[1] + at[2] + 1
    <2>1. a \in Nat /\ at[2] + 1 \in Nat
      OBVIOUS
    <2>2. a % n \in Nat
      <3> HIDE DEF a
      <3> QED BY <2>1, Remainder
    <2> QED
      BY <2>1, <2>2 DEF After
  <1>2. ASSUME NEW v, NEW at \in E
        PROVE  (IF at \in Ends THEN out[at] ELSE v[next[at]]) = Here(v, at)
    OBVIOUS
  <1>3. PICK v : Solves(v, E, Ends, out, next)
    <2> HIDE DEF E, Ends, out, next
    <2> QED BY <1>1, TailRecursion
  <1>4. v = [at \in E |-> Here(v, at)]
    <2>1. v = [at \in E |-> IF at \in Ends THEN out[at] ELSE v[next[at]]]
      BY <1>3 DEF Solves
    <2> HIDE DEF E, Ends, out, next, Here
    <2> QED BY <1>2, <2>1
  <1> QED
    BY <1>4 DEF Freeing

LEMMA FreeBucketIs ==
  ASSUME NEW key \in Window, NEW n \in Sizes, NEW new, NEW j \in 0..(n - 1), j \notin new,
         NEW i, i = free_bucket(key, n, new)
  PROVE  i \in 0..(n - 1) /\ i \notin new /\ OnPath(key, i, n, new)
PROOF
  <1> DEFINE from == Freeing(n, new)
             s == Home(key, n)
             b(l) == Probe(s, l, n)
  <1>1. n \in Nat /\ n > 0
    BY SizesEven
  <1>2. s \in 0..(n - 1) /\ b(0) = s /\ s \in Nat
    BY <1>1, HomeIs
  <1>3. from = [at \in Nat \X Nat |->
           IF at[1] \notin new THEN at[1]
           ELSE from[<<After(at[1], at[2], n), at[2] + 1>>]]
    BY <1>1, FreeingIsWalk
  <1>4. i = from[<<s, 0>>]
    BY DEF free_bucket, Freeing
  <1> HIDE DEF from, s
  <1>5. PICK k \in 0..(n - 1) : /\ b(k) \notin new
                                /\ \A l \in 0..(k - 1) : b(l) \in new
    <2> DEFINE S == Nat \ new
    <2>1. j \in S
      OBVIOUS
    <2>2. PICK k \in 0..(n - 1) : b(k) \in S /\ \A l \in 0..(k - 1) : b(l) \notin S
      <3> HIDE DEF S
      <3> QED BY <1>2, <2>1, FirstMeeting
    <2>3. ASSUME NEW l \in 0..(k - 1) PROVE b(l) \in Nat
      <3>1. l \in Nat
        OBVIOUS
      <3>2. b(l) \in 0..(n - 1)
        BY <1>1, <1>2, <3>1, ProbeNext
      <3> QED
        BY <1>1, <3>2
    <2> QED
      BY <2>2, <2>3
  <1>6. ASSUME NEW l \in Nat
        PROVE  b(l) \in 0..(n - 1) /\ b(l) \in Nat /\ After(b(l), l, n) = b(l + 1)
    <2>1. b(l) \in 0..(n - 1) /\ After(b(l), l, n) = b(l + 1)
      BY <1>1, <1>2, ProbeNext
    <2> QED
      BY <1>1, <2>1
  <1> DEFINE P == {l \in Nat : l <= k => i = from[<<b(l), l>>]}
  <1>7. 0 \in P
    BY <1>2, <1>4
  <1>8. \A l \in Nat : l \in P => l + 1 \in P
    <2> SUFFICES ASSUME NEW l \in Nat, l \in P, l + 1 <= k
                 PROVE  i = from[<<b(l + 1), l + 1>>]
      OBVIOUS
    <2>1. l \in 0..(k - 1) /\ l <= k
      OBVIOUS
    <2>2. b(l) \in new /\ i = from[<<b(l), l>>]
      BY <1>5, <2>1
    <2>3. b(l) \in Nat /\ After(b(l), l, n) = b(l + 1)
      BY <1>6
    <2> HIDE DEF b
    <2>4. <<b(l), l>> \in Nat \X Nat
      BY <2>3
    <2>5. from[<<b(l), l>>] = from[<<After(b(l), l, n), l + 1>>]
      BY <1>3, <2>2, <2>4
    <2> QED
      BY <2>2, <2>3, <2>5
  <1>9. k \in P
    <2>1. k \in Nat
      BY <1>1
    <2> HIDE DEF P
    <2> QED BY <1>7, <1>8, <2>1, Induction
  <1>10. k \in Nat /\ i = from[<<b(k), k>>] /\ b(k) \in 0..(n - 1) /\ b(k) \in Nat
    BY <1>1, <1>6, <1>9
  <1>11. i = b(k)
    <2> HIDE DEF b
    <2>1. <<b(k), k>> \in Nat \X Nat
      BY <1>10
    <2> QED
      BY <1>3, <1>5, <1>10, <2>1
  <1> QED
    BY <1>5, <1>10, <1>11 DEF OnPath, s

(* While a table is rehashed: hand holds the cell that is on its way, if    *)
(* there is one.  Every cell is in one place only, the new ones lie on      *)
(* their paths, and together they are all the cells there were.             *)
InHand(m, hand, n, all) ==
  /\ m \in Moving(n)
  /\ m.old \cap m.new = {}
  /\ Filled(m.old \cup m.new, m.cells, n, 0..(n - 1))
  /\ Filled(m.new, m.cells, n, m.new)
  /\ hand \subseteq Element
  /\ \A c \in hand, i \in m.old \cup m.new : c[1] # m.cells[i][1]
  /\ all = hand \cup {m.cells[i] : i \in m.old \cup m.new}

(* kick_out(), as a function from the cell in hand and the moving table. *)
OneKick(from, n, at) ==
  LET m    == at[2]
      i    == free_bucket(at[1][1], n, m.new)
      kept == [m EXCEPT !.old = @ \ {i}, !.new = @ \cup {i}, !.cells[i] = at[1]]
  IN  IF i \in m.old THEN from[<<m.cells[i], kept>>] ELSE kept

Kicking(n) ==
  CHOOSE from : from = [at \in Cell \X Moving(n) |-> OneKick(from, n, at)]

LEMMA KickOutKicks ==
  ASSUME NEW cell, NEW n, NEW m
  PROVE  kick_out(cell, n, m) = Kicking(n)[<<cell, m>>]
BY DEF kick_out, Kicking, OneKick

(* The cell is placed in bucket i. *)
Placed(m, i, cell) ==
  [m EXCEPT !.old = @ \ {i}, !.new = @ \cup {i}, !.cells[i] = cell]

LEMMA PlacedIs ==
  ASSUME NEW n, NEW m \in Moving(n), NEW i \in 0..(n - 1), NEW cell \in Cell,
         NEW p, p = Placed(m, i, cell)
  PROVE  /\ p \in Moving(n) /\ p.old = m.old \ {i} /\ p.new = m.new \cup {i}
         /\ p.cells[i] = cell
         /\ \A j \in (0..(n - 1)) \ {i} : p.cells[j] = m.cells[j]
PROOF
  <1> DEFINE B == 0..(n - 1)
             M == [old : SUBSET B, new : SUBSET B, cells : [B -> Cell]]
             cells == [m.cells EXCEPT ![i] = cell]
  <1>1. m \in M /\ i \in B /\ Moving(n) = M
    BY DEF Moving
  <1> HIDE DEF B
  <1>2. /\ m.old \in SUBSET B /\ m.new \in SUBSET B /\ m.cells \in [B -> Cell]
    BY <1>1
  <1>3. p = [old |-> m.old \ {i}, new |-> m.new \cup {i}, cells |-> cells]
    BY <1>1, <1>2 DEF Placed
  <1>4. cells \in [B -> Cell] /\ cells[i] = cell /\ \A j \in B \ {i} : cells[j] = m.cells[j]
    BY <1>1, <1>2
  <1> HIDE DEF cells
  <1> QED
    BY <1>1, <1>2, <1>3, <1>4 DEF B

(* The recursion has a solution: each round takes one from the old buckets. *)
LEMMA KickingIsWalk ==
  ASSUME NEW n
  PROVE  Kicking(n) = [at \in Cell \X Moving(n) |-> OneKick(Kicking(n), n, at)]
PROOF
  <1> DEFINE E == Cell \X Moving(n)
             to(at) == free_bucket(at[1][1], n, at[2].new)
             Ends == {at \in E : to(at) \notin at[2].old}
             out == [at \in E |-> Placed(at[2], to(at), at[1])]
             next == [at \in E |-> <<at[2].cells[to(at)], Placed(at[2], to(at), at[1])>>]
  <1>1. ASSUME NEW at \in E, at \notin Ends PROVE next[at] \in E
    <2>1. at[1] \in Cell /\ at[2] \in Moving(n) /\ to(at) \in at[2].old
      BY <1>1
    <2> HIDE DEF to
    <2>2. to(at) \in 0..(n - 1) /\ at[2].cells[to(at)] \in Cell
      BY <2>1 DEF Moving
    <2>3. Placed(at[2], to(at), at[1]) \in Moving(n)
      BY <2>1, <2>2, PlacedIs
    <2> QED
      BY <2>2, <2>3
  <1>2. ASSUME NEW v, NEW at \in E
        PROVE  (IF at \in Ends THEN out[at] ELSE v[next[at]]) = OneKick(v, n, at)
    BY DEF OneKick, Placed
  <1>3. PICK v : Solves(v, E, Ends, out, next)
    <2> HIDE DEF E, Ends, out, next
    <2> QED BY <1>1, TailRecursion
  <1>4. v = [at \in E |-> OneKick(v, n, at)]
    <2>1. v = [at \in E |-> IF at \in Ends THEN out[at] ELSE v[next[at]]]
      BY <1>3 DEF Solves
    <2> HIDE DEF E, Ends, out, next
    <2> QED BY <1>2, <2>1
  <1> QED
    BY <1>4 DEF Kicking

(* More may be taken, and the path stays. *)
LEMMA PathStays ==
  ASSUME NEW key, NEW i, NEW n, NEW S, NEW T, S \subseteq T, OnPath(key, i, n, S)
  PROVE  OnPath(key, i, n, T)
BY DEF OnPath

(* One round: the cell is placed, and the one that was there is in hand. *)
LEMMA KickKeeps ==
  ASSUME NEW n \in Sizes, NEW m, NEW c, NEW all, InHand(m, {c}, n, all),
         m.new # 0..(n - 1),
         NEW i, i = free_bucket(c[1], n, m.new), NEW p, p = Placed(m, i, c)
  PROVE  /\ i \in 0..(n - 1)
         /\ i \in m.old => InHand(p, {m.cells[i]}, n, all)
         /\ i \notin m.old => InHand(p, {}, n, all)
PROOF
  <1> DEFINE B == 0..(n - 1)
             hand == IF i \in m.old THEN {m.cells[i]} ELSE {}
             here == m.old \cup m.new
  <1>1. /\ m \in Moving(n) /\ m.old \cap m.new = {}
        /\ Filled(here, m.cells, n, B) /\ Filled(m.new, m.cells, n, m.new)
        /\ c \in Element
        /\ \A j \in here : c[1] # m.cells[j][1]
        /\ all = {c} \cup {m.cells[j] : j \in here}
    BY DEF InHand
  <1>2. m.old \subseteq B /\ m.new \subseteq B
    BY <1>1 DEF Moving
  <1>3. c[1] \in Window /\ c \in Cell
    BY <1>1, CellParts DEF Cell
  <1>4. i \in B /\ i \notin m.new /\ OnPath(c[1], i, n, m.new)
    <2>1. PICK j \in B : j \notin m.new
      BY <1>2
    <2> QED
      BY <1>3, <2>1, FreeBucketIs
  <1>5. /\ p \in Moving(n) /\ p.old = m.old \ {i} /\ p.new = m.new \cup {i}
        /\ p.cells[i] = c /\ \A j \in B \ {i} : p.cells[j] = m.cells[j]
    BY <1>1, <1>3, <1>4, PlacedIs
  <1> HIDE DEF B
  <1>6. p.old \cup p.new = here \cup {i} /\ p.old \cap p.new = {}
    BY <1>1, <1>5
  <1>7. \A j \in here \ {i} : p.cells[j] = m.cells[j]
    BY <1>2, <1>5
  <1>8. \A j \in here \cup {i} : p.cells[j] \in Element
    BY <1>1, <1>5, <1>7 DEF Filled
  <1>9. ASSUME NEW j \in here \cup {i}, NEW l \in here \cup {i},
               p.cells[j][1] = p.cells[l][1]
        PROVE  j = l
    BY <1>1, <1>5, <1>7, <1>9 DEF Filled
  <1>10. \A j \in p.new : OnPath(p.cells[j][1], j, n, p.new)
    <2>1. ASSUME NEW j \in m.new PROVE OnPath(p.cells[j][1], j, n, p.new)
      <3>1. p.cells[j] = m.cells[j] /\ m.new \subseteq p.new
        BY <1>4, <1>5, <1>7
      <3>2. OnPath(m.cells[j][1], j, n, m.new)
        BY <1>1 DEF Filled
      <3> QED
        BY <3>1, <3>2, PathStays
    <2>2. OnPath(p.cells[i][1], i, n, p.new)
      <3>1. m.new \subseteq p.new
        BY <1>5
      <3> QED
        BY <1>4, <1>5, <3>1, PathStays
    <2> QED
      BY <1>5, <2>1, <2>2
  <1>11. ASSUME NEW j \in here \cup {i} PROVE OnPath(p.cells[j][1], j, n, B)
    <2>1. CASE j = i
      <3>1. m.new \subseteq B
        BY <1>2
      <3> QED
        BY <1>4, <1>5, <2>1, <3>1, PathStays
    <2>2. CASE j # i
      BY <1>1, <1>7, <2>2 DEF Filled
    <2> QED
      BY <2>1, <2>2
  <1>12. Filled(p.old \cup p.new, p.cells, n, B) /\ Filled(p.new, p.cells, n, p.new)
    <2>1. Filled(here \cup {i}, p.cells, n, B)
      BY <1>8, <1>9, <1>11 DEF Filled
    <2>2. p.new \subseteq here \cup {i}
      BY <1>6
    <2>3. Filled(p.new, p.cells, n, p.new)
      BY <1>8, <1>9, <1>10, <2>2 DEF Filled
    <2> QED
      BY <1>6, <2>1, <2>3
  <1>13. /\ hand \subseteq Element
         /\ \A d \in hand, j \in p.old \cup p.new : d[1] # p.cells[j][1]
    <2>1. CASE i \notin m.old
      BY <2>1
    <2>2. CASE i \in m.old
      <3>1. m.cells[i] \in Element /\ m.cells[i][1] # c[1]
        BY <1>1, <2>2 DEF Filled
      <3>2. \A j \in here \ {i} : m.cells[i][1] # m.cells[j][1]
        BY <1>1, <2>2 DEF Filled
      <3> QED
        BY <1>5, <1>6, <1>7, <2>2, <3>1, <3>2
    <2> QED
      BY <2>1, <2>2
  <1>14. all = hand \cup {p.cells[j] : j \in p.old \cup p.new}
    <2>1. i \in here <=> i \in m.old
      BY <1>4
    <2>2. {p.cells[j] : j \in p.old \cup p.new}
            = {c} \cup {m.cells[j] : j \in here \ {i}}
      <3>1. \A d \in {p.cells[j] : j \in p.old \cup p.new} :
              d \in {c} \cup {m.cells[j] : j \in here \ {i}}
        BY <1>5, <1>6, <1>7
      <3>2. \A d \in {c} \cup {m.cells[j] : j \in here \ {i}} :
              d \in {p.cells[j] : j \in p.old \cup p.new}
        BY <1>5, <1>6, <1>7
      <3> QED
        BY <3>1, <3>2
    <2> QED
      BY <1>1, <2>1, <2>2
  <1>15. InHand(p, hand, n, all)
    BY <1>5, <1>6, <1>12, <1>13, <1>14 DEF InHand, B
  <1> QED
    BY <1>4, <1>5, <1>15 DEF B

(* No bucket is free only when as many cells are placed as there are        *)
(* buckets.                                                                 *)
LEMMA RoomLeft ==
  ASSUME NEW n \in Nat, NEW m, NEW c, NEW all, InHand(m, {c}, n, all),
         IsFiniteSet(all), Cardinality(all) < n
  PROVE  m.new # 0..(n - 1)
PROOF
  <1> SUFFICES ASSUME m.new = 0..(n - 1) PROVE FALSE
    OBVIOUS
  <1> DEFINE B == 0..(n - 1)
             f == [i \in B |-> m.cells[i]]
  <1>1. IsFiniteSet(B) /\ Cardinality(B) = n
    <2>1. 0 \in Int /\ n - 1 \in Int
      OBVIOUS
    <2>2. IsFiniteSet(0..(n - 1))
          /\ Cardinality(0..(n - 1)) = IF 0 > n - 1 THEN 0 ELSE (n - 1) - 0 + 1
      BY <2>1, FS_Interval
    <2> QED
      BY <2>2
  <1>2. f \in [B -> all]
    BY DEF InHand
  <1>3. \A i, j \in B : f[i] = f[j] => i = j
    BY DEF InHand, Filled
  <1> HIDE DEF B, f
  <1>4. f \in Injection(B, all)
    BY <1>2, <1>3 DEF Injection, IsInjective
  <1>5. Cardinality(B) <= Cardinality(all)
    BY <1>4, FS_Injection
  <1>6. Cardinality(all) \in Nat
    BY FS_CardinalityType
  <1> QED
    BY <1>1, <1>5, <1>6

(* In the end all cells are placed, none is in hand and none moved back. *)
LEMMA KickOutPlaces ==
  ASSUME NEW n \in Sizes, NEW all, IsFiniteSet(all), Cardinality(all) < n,
         NEW m, NEW c, InHand(m, {c}, n, all),
         NEW r, r = kick_out(c, n, m)
  PROVE  InHand(r, {}, n, all) /\ r.old \subseteq m.old
PROOF
  <1> DEFINE from == Kicking(n)
             Good(x, d, y) == InHand(y, {}, n, all) /\ y.old \subseteq x.old
             P == {k \in Nat : \A x \in Moving(n), d \in Cell :
                     InHand(x, {d}, n, all) /\ Cardinality(x.old) <= k
                       => Good(x, d, from[<<d, x>>])}
  <1>1. n \in Nat
    BY SizesEven
  <1>2. from = [at \in Cell \X Moving(n) |-> OneKick(from, n, at)]
    BY KickingIsWalk
  <1>3. r = from[<<c, m>>]
    BY KickOutKicks
  <1> HIDE DEF from
  <1>4. ASSUME NEW x \in Moving(n), NEW d \in Cell, InHand(x, {d}, n, all)
        PROVE  \E i \in 0..(n - 1), y \in Moving(n) :
                 /\ y.old = x.old \ {i}
                 /\ i \in x.old => /\ InHand(y, {x.cells[i]}, n, all)
                                   /\ from[<<d, x>>] = from[<<x.cells[i], y>>]
                 /\ i \notin x.old => InHand(y, {}, n, all) /\ from[<<d, x>>] = y
    <2>1. x.new # 0..(n - 1)
      BY <1>1, <1>4, RoomLeft
    <2>2. PICK i : i = free_bucket(d[1], n, x.new)
      OBVIOUS
    <2>3. PICK y : y = Placed(x, i, d)
      OBVIOUS
    <2>4. /\ i \in 0..(n - 1)
          /\ i \in x.old => InHand(y, {x.cells[i]}, n, all)
          /\ i \notin x.old => InHand(y, {}, n, all)
      BY <1>4, <2>1, <2>2, <2>3, KickKeeps
    <2>a. y \in Moving(n) /\ y.old = x.old \ {i}
      BY <2>3, <2>4, PlacedIs
    <2>5. from[<<d, x>>] = OneKick(from, n, <<d, x>>)
      BY <1>2
    <2>6. OneKick(from, n, <<d, x>>) = IF i \in x.old THEN from[<<x.cells[i], y>>] ELSE y
      BY <2>2, <2>3 DEF OneKick, Placed
    <2> QED
      BY <2>4, <2>a, <2>5, <2>6
  <1>5. ASSUME NEW x \in Moving(n)
        PROVE  IsFiniteSet(x.old) /\ Cardinality(x.old) \in Nat
    <2>1. x.old \subseteq 0..(n - 1)
      BY DEF Moving
    <2>2. IsFiniteSet(0..(n - 1))
      <3>1. 0 \in Int /\ n - 1 \in Int
        BY <1>1
      <3> QED
        BY <3>1, FS_Interval
    <2>3. IsFiniteSet(x.old)
      BY <2>1, <2>2, FS_Subset
    <2> QED
      BY <2>3, FS_CardinalityType
  <1>6. 0 \in P
    <2> SUFFICES ASSUME NEW x \in Moving(n), NEW d \in Cell, InHand(x, {d}, n, all),
                        Cardinality(x.old) <= 0
                 PROVE  Good(x, d, from[<<d, x>>])
      OBVIOUS
    <2>1. x.old = {}
      <3>1. Cardinality(x.old) = 0
        BY <1>5
      <3> QED
        BY <1>5, <3>1, FS_EmptySet
    <2> QED
      BY <1>4, <2>1
  <1>7. \A k \in Nat : k \in P => k + 1 \in P
    <2> SUFFICES ASSUME NEW k \in Nat, k \in P, NEW x \in Moving(n), NEW d \in Cell,
                        InHand(x, {d}, n, all), Cardinality(x.old) <= k + 1
                 PROVE  Good(x, d, from[<<d, x>>])
      OBVIOUS
    <2>1. PICK i \in 0..(n - 1), y \in Moving(n) :
            /\ y.old = x.old \ {i}
            /\ i \in x.old => /\ InHand(y, {x.cells[i]}, n, all)
                              /\ from[<<d, x>>] = from[<<x.cells[i], y>>]
            /\ i \notin x.old => InHand(y, {}, n, all) /\ from[<<d, x>>] = y
      BY <1>4
    <2> DEFINE e == x.cells[i]
    <2>2. CASE i \notin x.old
      BY <2>1, <2>2
    <2>3. CASE i \in x.old
      <3>1. Cardinality(y.old) = Cardinality(x.old) - 1
        BY <1>5, <2>1, <2>3, FS_RemoveElement
      <3>2. Cardinality(y.old) <= k
        BY <1>5, <2>1, <3>1
      <3>3. e \in Cell
        BY DEF Moving
      <3> HIDE DEF e
      <3>4. InHand(y, {e}, n, all) /\ from[<<d, x>>] = from[<<e, y>>]
        BY <2>1, <2>3 DEF e
      <3>5. Good(y, e, from[<<e, y>>])
        <4> HIDE DEF Good
        <4> QED BY <3>2, <3>3, <3>4
      <3> QED
        BY <2>1, <3>4, <3>5
    <2> QED
      BY <2>2, <2>3
  <1>8. Cardinality(m.old) \in P
    <2>1. m \in Moving(n)
      BY DEF InHand
    <2> HIDE DEF P
    <2> QED BY <1>5, <1>6, <1>7, <2>1, Induction
  <1>9. m \in Moving(n) /\ c \in Cell
    BY DEF InHand, Cell
  <1>10. Cardinality(m.old) <= Cardinality(m.old)
    BY <1>5, <1>9
  <1>11. Good(m, c, from[<<c, m>>])
    <2> HIDE DEF Good
    <2> QED BY <1>8, <1>9, <1>10
  <1> QED
    BY <1>3, <1>11

(* Every bucket is on the path of every key, if all of them may be taken. *)
LEMMA AnyPath ==
  ASSUME NEW key \in Window, NEW n \in Sizes, NEW i \in 0..(n - 1)
  PROVE  OnPath(key, i, n, 0..(n - 1))
PROOF
  <1>1. n \in Nat /\ n > 0
    BY SizesEven
  <1> DEFINE s == Home(key, n)
  <1>2. s \in Nat
    BY <1>1, HomeIs
  <1> HIDE DEF s
  <1>3. PICK k \in 0..(n - 1) : Probe(s, k, n) = i
    BY <1>2, ProbesCover
  <1>4. ASSUME NEW j \in 0..(k - 1) PROVE Probe(s, j, n) \in 0..(n - 1)
    <2>1. j \in Nat
      OBVIOUS
    <2> QED
      BY <1>1, <1>2, <2>1, ProbeNext
  <1> QED
    BY <1>3, <1>4 DEF OnPath, s

(* There are as many cells as live buckets. *)
LEMMA AsManyCells ==
  ASSUME NEW live, IsFiniteSet(live), NEW cells,
         \A i, j \in live : cells[i][1] = cells[j][1] => i = j,
         NEW all, all = {cells[i] : i \in live}
  PROVE  IsFiniteSet(all) /\ Cardinality(all) = Cardinality(live)
PROOF
  <1> DEFINE f == [i \in live |-> cells[i]]
  <1>1. f \in [live -> all]
    OBVIOUS
  <1>2. \A i, j \in live : f[i] = f[j] => i = j
    OBVIOUS
  <1>3. \A c \in all : \E i \in live : f[i] = c
    OBVIOUS
  <1> HIDE DEF f
  <1>4. f \in Bijection(live, all)
    BY <1>1, <1>2, <1>3 DEF Bijection, Injection, IsInjective, Surjection
  <1>5. ExistsBijection(live, all)
    BY <1>4 DEF ExistsBijection
  <1> QED
    BY <1>5, FS_Bijection

(* The loop of rehash(), as a function from the bucket that it has reached. *)
Start(h, n) ==
  [ old |-> h.live, new |-> {},
    cells |-> [i \in 0..(n - 1) |-> IF i \in h.live THEN h.cells[i] ELSE NULL] ]

OneRound(h, n, moved, j) ==
  IF j = 0 THEN Start(h, n)
  ELSE LET m == moved[j - 1]
       IN  IF j - 1 \notin m.old THEN m
           ELSE kick_out(m.cells[j - 1], n, [m EXCEPT !.old = @ \ {j - 1}])

Moved(h, n) ==
  CHOOSE moved : moved = [j \in 0..h.n_buckets |-> OneRound(h, n, moved, j)]

LEMMA RehashMoves ==
  ASSUME NEW h, NEW n
  PROVE  rehash(h, n) =
           LET done == Moved(h, n)[h.n_buckets]
           IN  [h EXCEPT !.live  = done.new,
                         !.cells = [i \in 0..(n - 1) |->
                                      IF i \in done.new THEN done.cells[i] ELSE NULL]]
BY DEF rehash, Moved, OneRound, Start

(* It begins with all cells old, takes one after the other, and ends with   *)
(* none.                                                                    *)
LEMMA StartIs ==
  ASSUME NEW h, Layout(h), NEW n \in Sizes, h.n_buckets <= n,
         NEW m, m = Start(h, n)
  PROVE  InHand(m, {}, n, Content(h)) /\ m.old = h.live
PROOF
  <1> DEFINE B == 0..(n - 1)
             cells == [i \in B |-> IF i \in h.live THEN h.cells[i] ELSE NULL]
  <1>1. /\ h.live \subseteq B /\ h.n_buckets \in Nat
        /\ Filled(h.live, h.cells, h.n_buckets, Taken(h))
    BY SizesEven DEF Layout, Tables, Buckets
  <1> HIDE DEF B
  <1>2. \A i \in h.live : cells[i] = h.cells[i]
    BY <1>1
  <1>3. cells \in [B -> Cell]
    BY <1>1 DEF Filled, Cell
  <1> HIDE DEF cells
  <1>4. m = [old |-> h.live, new |-> {}, cells |-> cells]
    BY DEF Start, cells, B
  <1>5. m.old = h.live /\ m.new = {} /\ m.cells = cells /\ m \in Moving(n)
    BY <1>1, <1>3, <1>4 DEF Moving, B
  <1>6. Filled(h.live, cells, n, B)
    <2>1. \A i \in h.live : cells[i] \in Element
      BY <1>1, <1>2 DEF Filled
    <2>2. \A i \in h.live : OnPath(cells[i][1], i, n, B)
      <3>1. \A i \in h.live : cells[i][1] \in Window /\ i \in B
        BY <1>1, <2>1, CellParts
      <3> QED
        BY <3>1, AnyPath DEF B
    <2> QED
      BY <1>1, <1>2, <2>1, <2>2 DEF Filled
  <1>7. Filled(m.new, m.cells, n, m.new)
    BY <1>5 DEF Filled
  <1>8. Content(h) = {cells[i] : i \in h.live}
    BY <1>2 DEF Content
  <1>9. m.old \cup m.new = h.live
    BY <1>5
  <1> QED
    BY <1>5, <1>6, <1>7, <1>8, <1>9 DEF InHand, B

LEMMA TakeOut ==
  ASSUME NEW n, NEW m, NEW all, InHand(m, {}, n, all), NEW i \in m.old,
         NEW t, t = [m EXCEPT !.old = @ \ {i}]
  PROVE  InHand(t, {m.cells[i]}, n, all) /\ t.old = m.old \ {i}
PROOF
  <1>1. /\ m \in Moving(n) /\ m.old \cap m.new = {}
        /\ Filled(m.old \cup m.new, m.cells, n, 0..(n - 1))
        /\ Filled(m.new, m.cells, n, m.new)
        /\ all = {m.cells[j] : j \in m.old \cup m.new}
    BY DEF InHand
  <1> DEFINE B == 0..(n - 1)
             M == [old : SUBSET B, new : SUBSET B, cells : [B -> Cell]]
  <1>2. m \in M /\ Moving(n) = M
    BY <1>1 DEF Moving
  <1> HIDE DEF B
  <1>3. t = [old |-> m.old \ {i}, new |-> m.new, cells |-> m.cells]
    BY <1>2
  <1>4. t \in M /\ t.old = m.old \ {i} /\ t.new = m.new /\ t.cells = m.cells
    BY <1>2, <1>3
  <1>5. i \notin m.new
    BY <1>1
  <1>6. t.old \cup t.new = (m.old \cup m.new) \ {i}
    BY <1>4, <1>5
  <1> DEFINE here == m.old \cup m.new
  <1>7. Filled(here \ {i}, m.cells, n, B)
    BY <1>1 DEF Filled, B
  <1>8. m.cells[i] \in Element
    BY <1>1 DEF Filled
  <1>9. \A j \in here \ {i} : m.cells[i][1] # m.cells[j][1]
    BY <1>1 DEF Filled
  <1>10. all = {m.cells[i]} \cup {m.cells[j] : j \in here \ {i}}
    BY <1>1
  <1>11. /\ Filled(t.old \cup t.new, t.cells, n, B) /\ Filled(t.new, t.cells, n, t.new)
         /\ t \in Moving(n) /\ t.old \cap t.new = {}
    BY <1>1, <1>2, <1>4, <1>5, <1>6, <1>7
  <1>12. /\ \A c \in {m.cells[i]}, j \in t.old \cup t.new : c[1] # t.cells[j][1]
         /\ all = {m.cells[i]} \cup {t.cells[j] : j \in t.old \cup t.new}
         /\ {m.cells[i]} \subseteq Element
    BY <1>4, <1>6, <1>8, <1>9, <1>10
  <1> QED
    BY <1>4, <1>11, <1>12 DEF InHand, B

LEMMA MovedIs ==
  ASSUME NEW h, Layout(h), NEW n \in Sizes, h.n_buckets <= n, Cardinality(h.live) < n,
         NEW done, done = Moved(h, n)[h.n_buckets]
  PROVE  InHand(done, {}, n, Content(h)) /\ done.old = {}
PROOF
  <1> DEFINE N == h.n_buckets
             all == Content(h)
             T == {m \in Moving(n) : InHand(m, {}, n, all)}
             Take(m, j) == kick_out(m.cells[j - 1], n, [m EXCEPT !.old = @ \ {j - 1}])
             step == [p \in T \X (1..N) |->
                        IF p[2] - 1 \notin p[1].old THEN p[1] ELSE Take(p[1], p[2])]
  <1>1. N \in Nat /\ h.live \subseteq 0..(N - 1) /\ n \in Nat
    BY SizesEven DEF Layout, Tables, Buckets
  <1>2. IsFiniteSet(all) /\ Cardinality(all) < n
    <2>1. IsFiniteSet(h.live)
      BY BucketsFinite
    <2>2. \A i, j \in h.live : h.cells[i][1] = h.cells[j][1] => i = j
      BY DEF Layout, Filled
    <2> QED
      BY <2>1, <2>2, AsManyCells DEF Content
  <1>3. Start(h, n) \in T /\ Start(h, n).old = h.live
    BY StartIs DEF InHand
  <1> HIDE DEF all
  <1>4. ASSUME NEW m \in T, NEW j \in 1..N, j - 1 \in m.old
        PROVE  Take(m, j) \in T /\ Take(m, j).old \subseteq m.old \ {j - 1}
    <2>1. PICK t : t = [m EXCEPT !.old = @ \ {j - 1}]
      OBVIOUS
    <2>2. InHand(t, {m.cells[j - 1]}, n, all) /\ t.old = m.old \ {j - 1}
      BY <1>4, <2>1, TakeOut
    <2>3. PICK c : c = m.cells[j - 1]
      OBVIOUS
    <2>4. PICK r : r = kick_out(c, n, t)
      OBVIOUS
    <2>5. InHand(r, {}, n, all) /\ r.old \subseteq t.old
      BY <1>2, <2>2, <2>3, <2>4, KickOutPlaces
    <2>6. r = Take(m, j)
      BY <2>1, <2>3, <2>4
    <2>7. r \in Moving(n)
      BY <2>5 DEF InHand
    <2> HIDE DEF Take
    <2> QED
      BY <2>2, <2>5, <2>6, <2>7
  <1>5. ASSUME NEW m \in T, NEW j \in 1..N
        PROVE  /\ step[<<m, j>>] = IF j - 1 \notin m.old THEN m ELSE Take(m, j)
               /\ step[<<m, j>>] \in T
    <2>1. step[<<m, j>>] = IF j - 1 \notin m.old THEN m ELSE Take(m, j)
      <3> HIDE DEF T
      <3> QED OBVIOUS
    <2> HIDE DEF T, Take, step
    <2> QED
      BY <1>4, <2>1
  <1> HIDE DEF T, step
  <1>6. PICK f \in [0..N -> T] : Unrolls(f, N, Start(h, n), step)
    BY <1>1, <1>3, <1>5, Recursion
  <1>7. f = [j \in 0..N |-> OneRound(h, n, f, j)]
    <2>1. ASSUME NEW j \in 0..N PROVE f[j] = OneRound(h, n, f, j)
      <3>1. CASE j = 0
        BY <1>6, <3>1 DEF Unrolls, OneRound
      <3>2. CASE j # 0
        <4>1. j \in 1..N /\ j - 1 \in 0..N
          BY <1>1, <3>2
        <4>2. f[j - 1] \in T
          BY <4>1
        <4>3. f[j] = step[<<f[j - 1], j>>]
          BY <1>6, <4>1 DEF Unrolls
        <4> QED
          BY <1>5, <3>2, <4>1, <4>2, <4>3 DEF OneRound
      <3> QED
        BY <3>1, <3>2
    <2>2. f = [j \in 0..N |-> f[j]]
      OBVIOUS
    <2> QED
      BY <2>1, <2>2
  <1> DEFINE moved == Moved(h, n)
  <1>8. moved = [j \in 0..N |-> OneRound(h, n, moved, j)]
    BY <1>7 DEF Moved
  <1> HIDE DEF moved
  <1> DEFINE Good(j) == /\ moved[j] \in T /\ moved[j].old \subseteq h.live
                        /\ moved[j].old \cap 0..(j - 1) = {}
             P == {j \in Nat : j <= N => Good(j)}
  <1>9. 0 \in P
    <2>1. 0 \in 0..N
      BY <1>1
    <2>2. moved[0] = Start(h, n)
      BY <1>8, <2>1 DEF OneRound
    <2> QED
      BY <1>3, <2>2
  <1>10. \A j \in Nat : j \in P => j + 1 \in P
    <2> SUFFICES ASSUME NEW j \in Nat, Good(j), j + 1 <= N PROVE Good(j + 1)
      <3>1. \A j \in Nat : j + 1 <= N => j <= N
        BY <1>1
      <3> HIDE DEF Good
      <3> QED BY <3>1
    <2>1. j + 1 \in 0..N /\ j + 1 \in 1..N /\ j + 1 # 0 /\ (j + 1) - 1 = j
      BY <1>1
    <2>2. moved[j + 1] = OneRound(h, n, moved, j + 1)
      BY <1>8, <2>1
    <2> DEFINE k == j + 1
    <2>a. k \in 1..N /\ k # 0 /\ k - 1 = j
      BY <2>1
    <2> HIDE DEF k
    <2>b. OneRound(h, n, moved, k) = IF j \notin moved[j].old THEN moved[j]
                                     ELSE Take(moved[j], k)
      BY <2>a DEF OneRound
    <2>3. CASE j \notin moved[j].old
      <3>1. moved[j + 1] = moved[j]
        BY <2>2, <2>3, <2>b DEF k
      <3>2. \A l \in 0..((j + 1) - 1) : l \in 0..(j - 1) \/ l = j
        OBVIOUS
      <3> QED
        BY <2>3, <3>1, <3>2
    <2>4. CASE j \in moved[j].old
      <3>1. Take(moved[j], k) \in T /\ Take(moved[j], k).old \subseteq moved[j].old \ {j}
        BY <1>4, <2>4, <2>a
      <3>2. moved[j + 1] = Take(moved[j], k)
        BY <2>2, <2>4, <2>b DEF k
      <3>3. \A l \in 0..((j + 1) - 1) : l \in 0..(j - 1) \/ l = j
        OBVIOUS
      <3> HIDE DEF Take
      <3> QED
        BY <3>1, <3>2, <3>3
    <2> QED
      BY <2>3, <2>4
  <1>11. N \in P
    <2> HIDE DEF P
    <2> QED BY <1>1, <1>9, <1>10, Induction
  <1>12. done = moved[N] /\ Good(N)
    BY <1>1, <1>11 DEF moved
  <1> QED
    BY <1>1, <1>12 DEF T, all

-----------------------------------------------------------------------------
(***************************************************************************)
(* What makes room, and what kh_put() does.                                *)
(***************************************************************************)

(* The empty table. *)
LEMMA InitOK == HashOK(kh_init) /\ Content(kh_init) = {} /\ kh_init.live = {}
PROOF
  <1> DEFINE h == kh_init
  <1>1. /\ h.n_buckets = 0 /\ h.size = 0 /\ h.n_occupied = 0 /\ h.upper_bound = 0
        /\ h.live = {} /\ h.deleted = {} /\ h.cells = [i \in {} |-> NULL]
    BY DEF kh_init
  <1>2. 0..(0 - 1) = {} /\ Buckets(h) = {}
    BY <1>1 DEF Buckets
  <1>3. h.cells \in [0..(0 - 1) -> Cell] /\ h.cells \in [Buckets(h) -> Cell]
    BY <1>1, <1>2
  <1>4. h.cells \in Arrays
    BY <1>3 DEF Arrays
  <1>5. h \in Tables
    BY <1>4 DEF kh_init, Tables
  <1> HIDE DEF h
  <1>6. Cardinality({}) = 0
    BY FS_EmptySet
  <1> QED
    BY <1>1, <1>2, <1>3, <1>5, <1>6 DEF HashOK, Layout, Counted, Filled, Content, h

(* kh_resize(), to a size that is enough, keeps what the table holds. *)
LEMMA ResizeKeeps ==
  ASSUME NEW h, HashOK(h), NEW wanted, NEW n \in Sizes, n = roundup(wanted),
         h.n_buckets <= n, h.size < UpperBound(n),
         NEW r, r = kh_resize(h, wanted)
  PROVE  /\ HashOK(r) /\ r.n_buckets = n /\ r.n_occupied < r.upper_bound
         /\ Content(r) = Content(h)
PROOF
  <1> DEFINE B == 0..(n - 1)
             done == Moved(h, n)[h.n_buckets]
             cells == [i \in B |-> IF i \in done.new THEN done.cells[i] ELSE NULL]
  <1>1. /\ Layout(h) /\ h.size \in Nat /\ h.n_occupied \in Nat
        /\ h.size = Cardinality(h.live) /\ h \in Tables
    BY DEF HashOK, Layout, Tables, Counted
  <1>2. n \in Nat /\ n >= 4 /\ UpperBound(n) \in Nat /\ UpperBound(n) < n
    BY SizesEven, UpperBoundIs
  <1>3. InHand(done, {}, n, Content(h)) /\ done.old = {}
    <2>1. Cardinality(h.live) < n
      BY <1>1, <1>2
    <2> HIDE DEF done
    <2> QED BY <1>1, <2>1, MovedIs DEF done
  <1>4. r = [n_buckets |-> n, size |-> h.size, n_occupied |-> h.size,
             upper_bound |-> UpperBound(n), live |-> done.new, deleted |-> {},
             cells |-> cells]
    <2>1. r = [rehash(h, n) EXCEPT !.n_buckets = n, !.deleted = {},
                                   !.n_occupied = h.size,
                                   !.upper_bound = UpperBound(n)]
      BY <1>1, <1>2 DEF kh_resize
    <2>2. rehash(h, n) = [h EXCEPT !.live = done.new, !.cells = cells]
      BY RehashMoves
    <2> HIDE DEF done, cells
    <2>3. rehash(h, n) = [n_buckets |-> h.n_buckets, size |-> h.size,
                          n_occupied |-> h.n_occupied, upper_bound |-> h.upper_bound,
                          live |-> done.new, deleted |-> h.deleted, cells |-> cells]
      BY <1>1, <2>2 DEF Tables
    <2>4. PICK g : g = rehash(h, n)
      OBVIOUS
    <2>5. r = [g EXCEPT !.n_buckets = n, !.deleted = {}, !.n_occupied = h.size,
                        !.upper_bound = UpperBound(n)]
      BY <2>1, <2>4
    <2>6. g = [n_buckets |-> h.n_buckets, size |-> h.size,
               n_occupied |-> h.n_occupied, upper_bound |-> h.upper_bound,
               live |-> done.new, deleted |-> h.deleted, cells |-> cells]
      BY <2>3, <2>4
    <2> QED
      BY <2>5, <2>6
  <1> HIDE DEF done
  <1>5. /\ done.new \subseteq B /\ done.cells \in [B -> Cell]
        /\ Filled(done.new, done.cells, n, done.new)
        /\ Content(h) = {done.cells[i] : i \in done.new}
    BY <1>3 DEF InHand, Moving
  <1>6. cells \in [B -> Cell] /\ \A i \in done.new : cells[i] = done.cells[i]
    BY <1>5 DEF Cell
  <1>7. \A i \in B \ done.new : cells[i] = NULL
    OBVIOUS
  <1> HIDE DEF cells
  <1>8. /\ r.n_buckets = n /\ r.size = h.size /\ r.n_occupied = h.size
        /\ r.upper_bound = UpperBound(n) /\ r.live = done.new /\ r.deleted = {}
        /\ r.cells = cells /\ Buckets(r) = B /\ Taken(r) = done.new
    BY <1>4 DEF Buckets, Taken
  <1>9. r \in Tables
    <2>1. cells \in Arrays
      BY <1>2, <1>6 DEF Arrays
    <2>2. done.new \in SUBSET Nat
      BY <1>2, <1>5
    <2> QED
      BY <1>1, <1>2, <1>4, <2>1, <2>2 DEF Tables
  <1>10. Filled(done.new, cells, n, done.new)
    BY <1>5, <1>6 DEF Filled
  <1>11. Content(r) = Content(h)
    <2>1. \A c \in Content(r) : c \in Content(h)
      BY <1>5, <1>6, <1>8 DEF Content
    <2>2. \A c \in Content(h) : c \in Content(r)
      BY <1>5, <1>6, <1>8 DEF Content
    <2> QED
      BY <2>1, <2>2
  <1> HIDE DEF B
  <1>12. Layout(r)
    BY <1>5, <1>6, <1>7, <1>8, <1>9, <1>10 DEF Layout
  <1>13. Cardinality(r.live) = h.size
    <2>1. IsFiniteSet(h.live) /\ IsFiniteSet(r.live)
      BY <1>1, <1>12, BucketsFinite
    <2>2. Cardinality(Content(h)) = Cardinality(h.live)
      <3>1. \A i, j \in h.live : h.cells[i][1] = h.cells[j][1] => i = j
        BY <1>1 DEF Layout, Filled
      <3> QED
        BY <2>1, <3>1, AsManyCells DEF Content
    <2>3. Cardinality(Content(r)) = Cardinality(r.live)
      <3>1. \A i, j \in r.live : r.cells[i][1] = r.cells[j][1] => i = j
        BY <1>12 DEF Layout, Filled
      <3> QED
        BY <2>1, <3>1, AsManyCells DEF Content
    <2> QED
      BY <1>1, <1>11, <2>2, <2>3
  <1>14. Counted(r) /\ r.n_occupied < r.upper_bound
    <2>1. Cardinality(r.deleted) = 0
      BY <1>8, FS_EmptySet
    <2> QED
      BY <1>1, <1>2, <1>8, <1>13, <2>1 DEF Counted
  <1> QED
    BY <1>8, <1>11, <1>12, <1>14 DEF HashOK

(* So does making room, which leaves a bucket free below the 77 percent,    *)
(* whether it clears the deleted buckets or grows.                          *)
LEMMA MakeRoomKeeps ==
  ASSUME NEW h, HashOK(h), NEW r, r = make_room(h)
  PROVE  /\ HashOK(r) /\ r.n_buckets \in Sizes /\ r.n_occupied < r.upper_bound
         /\ Content(r) = Content(h)
PROOF
  <1> DEFINE n == h.n_buckets
  <1>1. /\ n = 0 \/ n \in Sizes
        /\ n \in Nat /\ h.size \in Nat /\ h.n_occupied \in Nat /\ h.upper_bound \in Nat
        /\ h.upper_bound = IF n = 0 THEN 0 ELSE UpperBound(n)
        /\ h.size <= h.n_occupied /\ h.n_occupied <= h.upper_bound
    <2>1. h.n_occupied = h.size + Cardinality(h.deleted) /\ Cardinality(h.deleted) \in Nat
      BY BucketsFinite DEF HashOK, Counted
    <2>2. h.size \in Nat /\ h.n_occupied \in Nat
      BY DEF HashOK, Layout, Tables
    <2>3. h.size <= h.n_occupied
      BY <2>1, <2>2
    <2> QED
      BY <2>3 DEF HashOK, Layout, Tables, Counted
  <1>2. CASE h.n_occupied < h.upper_bound
    <2>1. r = h
      BY <1>2 DEF make_room
    <2>2. n # 0
      BY <1>1, <1>2
    <2> QED
      BY <1>1, <1>2, <2>1, <2>2
  <1>3. CASE ~(h.n_occupied < h.upper_bound) /\ n = 0
    <2>1. r = kh_resize(h, n + 1) /\ h.size = 0
      BY <1>1, <1>3 DEF make_room
    <2>2. 4 \in Sizes /\ roundup(1) = 4
      BY SizesDouble, RoundsUp
    <2>3. 4 = roundup(n + 1)
      BY <1>3, <2>2
    <2>4. n <= 4 /\ h.size < UpperBound(4)
      BY <1>3, <2>1, UpperBoundIs
    <2> HIDE DEF n
    <2>5. HashOK(r) /\ r.n_buckets = 4 /\ r.n_occupied < r.upper_bound
          /\ Content(r) = Content(h)
      BY <2>1, <2>2, <2>3, <2>4, ResizeKeeps DEF n
    <2> QED
      BY <2>2, <2>5
  <1>4. CASE ~(h.n_occupied < h.upper_bound) /\ n # 0 /\ n > 2 * h.size
    <2>1. r = kh_resize(h, n - 1)
      BY <1>4 DEF make_room
    <2>2. n \in Sizes /\ n >= 4 /\ n - 1 \in Nat /\ n >= n - 1 /\ n < 2 * (n - 1)
      BY <1>1, <1>4, SizesEven
    <2>3. n = roundup(n - 1)
      BY <2>2, RoundsUp
    <2>4. h.size < UpperBound(n)
      BY <1>1, <1>4, <2>2, UpperBoundIs
    <2> HIDE DEF n
    <2>5. HashOK(r) /\ r.n_buckets = n /\ r.n_occupied < r.upper_bound
          /\ Content(r) = Content(h)
      BY <1>1, <2>1, <2>2, <2>3, <2>4, ResizeKeeps DEF n
    <2> QED
      BY <2>2, <2>5
  <1>5. CASE ~(h.n_occupied < h.upper_bound) /\ n # 0 /\ ~(n > 2 * h.size)
    <2>1. r = kh_resize(h, n + 1)
      BY <1>5 DEF make_room
    <2>2. n \in Sizes /\ n >= 4 /\ 2 * n \in Sizes /\ n + 1 \in Nat
          /\ 2 * n >= n + 1 /\ 2 * n < 2 * (n + 1)
      BY <1>1, <1>5, SizesEven, SizesDouble
    <2>3. 2 * n = roundup(n + 1)
      BY <2>2, RoundsUp
    <2>4. h.size < UpperBound(2 * n)
      <3>1. UpperBound(n) < n /\ n < UpperBound(2 * n)
            /\ UpperBound(n) \in Nat /\ UpperBound(2 * n) \in Nat
        BY <1>1, <2>2, UpperBoundIs
      <3> QED
        BY <1>1, <1>5, <3>1
    <2> DEFINE m == 2 * n
    <2>5. m \in Sizes /\ n <= m /\ m = roundup(n + 1) /\ h.size < UpperBound(m)
      BY <1>1, <2>2, <2>3, <2>4
    <2> HIDE DEF n, m
    <2>6. HashOK(r) /\ r.n_buckets = m /\ r.n_occupied < r.upper_bound
          /\ Content(r) = Content(h)
      BY <2>1, <2>5, ResizeKeeps DEF n
    <2> QED
      BY <2>5, <2>6
  <1> QED
    BY <1>2, <1>3, <1>4, <1>5

(* kh_put() of a new key adds its cell. *)
LEMMA PutKeeps ==
  ASSUME NEW h, HashOK(h), NEW key \in Window, NEW val \in Info,
         \A c \in Content(h) : c[1] # key,
         NEW m, m = kh_put(h, key, val)
  PROVE  HashOK(m) /\ Content(m) = Content(h) \cup {<<key, val>>}
PROOF
  <1>1. PICK r : r = make_room(h)
    OBVIOUS
  <1>2. /\ HashOK(r) /\ r.n_buckets \in Sizes /\ r.n_occupied < r.upper_bound
        /\ Content(r) = Content(h)
    BY <1>1, MakeRoomKeeps
  <1> DEFINE n == r.n_buckets
             s == Home(key, n)
             cell == <<key, val>>
  <1>3. PICK found : found = Search(r, key)
    OBVIOUS
  <1>4. /\ r \in Tables /\ Layout(r) /\ Counted(r) /\ n \in Sizes
        /\ r.live \subseteq Buckets(r) /\ r.deleted \subseteq Buckets(r) \ r.live
        /\ r.cells \in [Buckets(r) -> Cell]
        /\ \A i \in Buckets(r) \ r.live : r.cells[i] = NULL
        /\ Filled(r.live, r.cells, n, Taken(r))
    BY <1>2 DEF HashOK, Layout
  <1>5. n \in Nat /\ n > 0 /\ s \in Nat
    BY <1>4, SizesEven, HomeIs
  <1>6. PICK k \in 0..(n - 1) :
          /\ Probe(s, k, n) \in Stops(r, key)
          /\ \A j \in 0..(k - 1) : Probe(s, j, n) \notin Stops(r, key)
          /\ found.at = Probe(s, k, n) /\ found.round = FALSE
          /\ \/ found.site = n
             \/ /\ found.site \in r.deleted
                /\ \E j \in 0..(k - 1) : found.site = Probe(s, j, n)
    <2>1. Empty(r) # {} /\ r.deleted \subseteq Buckets(r)
      BY <1>2, <1>4, <1>5, SomeBucketIsEmpty
    <2>2. \E k \in 0..(n - 1) : EndsAt(r, key, s, n, found, k)
      BY <1>3, <1>4, <2>1, SearchStops
    <2> HIDE DEF n, s
    <2> QED
      BY <2>2 DEF EndsAt
  <1>7. \A i \in r.live : r.cells[i][1] # key
    BY <1>2 DEF Content
  <1>8. found.at \in Empty(r)
    BY <1>6, <1>7 DEF Stops
  <1>9. PICK x : x = IF found.site # n THEN found.site ELSE found.at
    OBVIOUS
  <1> HIDE DEF s
  <1>10. PICK l \in 0..k : x = Probe(s, l, n)
    <2>1. k \in 0..k /\ \A j \in 0..(k - 1) : j \in 0..k
      BY <1>5
    <2> QED
      BY <1>6, <1>9, <2>1
  <1>11. x \in Empty(r) \/ x \in r.deleted
    BY <1>6, <1>8, <1>9
  <1>12. /\ x \in Buckets(r) /\ x \notin r.live /\ x \in 0..(n - 1)
         /\ x \in Empty(r) <=> x \notin r.deleted
    BY <1>4, <1>11 DEF Empty, Buckets
  <1> DEFINE live == r.live \cup {x}
             deleted == r.deleted \ {x}
             cells == [r.cells EXCEPT ![x] = cell]
             size == r.size + 1
             occupied == IF x \in Empty(r) THEN r.n_occupied + 1 ELSE r.n_occupied
  <1>13. m = [n_buckets |-> n, size |-> size, n_occupied |-> occupied,
              upper_bound |-> r.upper_bound, live |-> live, deleted |-> deleted,
              cells |-> cells]
    <2>1. x = IF found.site # n /\ (found.round \/ found.at \in Empty(r))
                THEN found.site ELSE found.at
      BY <1>8, <1>9
    <2> DEFINE put == [r EXCEPT !.cells[x] = cell, !.live = @ \cup {x},
                                !.deleted = @ \ {x}]
    <2>2. m = IF x \in Empty(r)
                THEN [put EXCEPT !.size = @ + 1, !.n_occupied = @ + 1]
              ELSE IF x \in r.deleted THEN [put EXCEPT !.size = @ + 1]
              ELSE put
      BY <1>1, <1>3, <2>1 DEF kh_put
    <2>3. put = [n_buckets |-> n, size |-> r.size, n_occupied |-> r.n_occupied,
                 upper_bound |-> r.upper_bound, live |-> live, deleted |-> deleted,
                 cells |-> cells]
      <3>1. r = [n_buckets |-> n, size |-> r.size, n_occupied |-> r.n_occupied,
                 upper_bound |-> r.upper_bound, live |-> r.live,
                 deleted |-> r.deleted, cells |-> r.cells]
        BY <1>4 DEF Tables
      <3>2. put = [r EXCEPT !.cells = cells, !.live = live, !.deleted = deleted]
        BY <3>1
      <3> HIDE DEF put, live, deleted, cells
      <3> QED
        BY <3>1, <3>2
    <2> HIDE DEF put, live, deleted, cells, n
    <2>4. CASE x \in Empty(r)
      BY <2>2, <2>3, <2>4
    <2>5. CASE x \notin Empty(r)
      <3>1. x \in r.deleted
        BY <1>12, <2>5
      <3> QED
        BY <2>2, <2>3, <2>5, <3>1
    <2> QED
      BY <2>4, <2>5
  <1>14. /\ m.n_buckets = n /\ m.size = size /\ m.n_occupied = occupied
         /\ m.upper_bound = r.upper_bound /\ m.live = live /\ m.deleted = deleted
         /\ m.cells = cells /\ Buckets(m) = Buckets(r)
    BY <1>13 DEF Buckets
  <1>15. cell \in Element /\ cell \in Cell /\ cell[1] = key
    BY CellParts DEF Cell
  <1> HIDE DEF cell
  <1>16. cells \in [0..(n - 1) -> Cell]
    BY <1>4, <1>12, <1>15 DEF Buckets
  <1>17. cells[x] = cell /\ \A i \in r.live : cells[i] = r.cells[i]
    BY <1>4, <1>12
  <1>18. \A i \in Buckets(r) \ live : cells[i] = NULL
    BY <1>4
  <1> HIDE DEF cells
  <1>19. Taken(m) = Taken(r) \cup {x} /\ Taken(r) \subseteq Taken(m)
    BY <1>14 DEF Taken
  <1>20. Filled(live, cells, n, Taken(m))
    <2>1. \A i \in live : cells[i] \in Element
      BY <1>4, <1>15, <1>17 DEF Filled
    <2>2. \A i, j \in live : cells[i][1] = cells[j][1] => i = j
      BY <1>4, <1>7, <1>15, <1>17 DEF Filled
    <2>3. ASSUME NEW i \in r.live PROVE OnPath(cells[i][1], i, n, Taken(m))
      <3>1. OnPath(r.cells[i][1], i, n, Taken(r))
        BY <1>4 DEF Filled
      <3> QED
        BY <1>17, <1>19, <3>1, PathStays
    <2>4. OnPath(key, x, n, Taken(m))
      <3>1. ASSUME NEW j \in 0..(l - 1) PROVE Probe(s, j, n) \in Taken(m)
        <4>1. j \in 0..(k - 1) /\ j \in Nat
          BY <1>5
        <4>2. Probe(s, j, n) \notin Empty(r)
          BY <1>6, <4>1 DEF Stops, s
        <4>3. Probe(s, j, n) \in Buckets(r)
          BY <1>5, <4>1, ProbeNext DEF Buckets
        <4> QED
          BY <1>19, <4>2, <4>3 DEF Empty, Taken
      <3>2. l \in 0..(n - 1)
        BY <1>5
      <3> QED
        BY <1>10, <3>1, <3>2 DEF OnPath, s
    <2> QED
      BY <1>15, <1>17, <2>1, <2>2, <2>3, <2>4 DEF Filled
  <1>21. /\ r.size \in Nat /\ r.n_occupied \in Nat /\ r.upper_bound \in Nat
         /\ r.live \subseteq Nat /\ r.deleted \subseteq Nat
    BY <1>4 DEF Tables
  <1>22. m \in Tables
    <2>1. cells \in Arrays
      BY <1>5, <1>16 DEF Arrays
    <2>2. live \in SUBSET Nat /\ deleted \in SUBSET Nat /\ size \in Nat /\ occupied \in Nat
      BY <1>5, <1>12, <1>21
    <2> HIDE DEF live, deleted, size, occupied
    <2> QED
      BY <1>5, <1>13, <1>21, <2>1, <2>2 DEF Tables
  <1>23. Layout(m)
    <2>1. m.live \subseteq Buckets(m) /\ m.deleted \subseteq Buckets(m) \ m.live
      BY <1>4, <1>12, <1>14
    <2>2. m.cells \in [Buckets(m) -> Cell]
      BY <1>14, <1>16 DEF Buckets
    <2>3. \A i \in Buckets(m) \ m.live : m.cells[i] = NULL
      BY <1>14, <1>18
    <2> QED
      BY <1>4, <1>14, <1>20, <1>22, <2>1, <2>2, <2>3 DEF Layout
  <1>24. Counted(m)
    <2>1. IsFiniteSet(r.live) /\ IsFiniteSet(r.deleted)
          /\ Cardinality(r.live) \in Nat /\ Cardinality(r.deleted) \in Nat
      BY <1>4, BucketsFinite
    <2>2. Cardinality(live) = Cardinality(r.live) + 1
      BY <1>12, <2>1, FS_AddElement
    <2>3. Cardinality(deleted) = IF x \in r.deleted THEN Cardinality(r.deleted) - 1
                                                  ELSE Cardinality(r.deleted)
      BY <2>1, FS_RemoveElement
    <2> HIDE DEF live, deleted
    <2>4. /\ r.size = Cardinality(r.live)
          /\ r.n_occupied = Cardinality(r.live) + Cardinality(r.deleted)
          /\ r.upper_bound = UpperBound(n)
      BY <1>4, <1>5 DEF Counted
    <2>5. CASE x \in Empty(r)
      BY <1>2, <1>5, <1>12, <1>14, <1>21, <2>1, <2>2, <2>3, <2>4, <2>5 DEF Counted
    <2>6. CASE x \notin Empty(r)
      BY <1>2, <1>5, <1>12, <1>14, <1>21, <2>1, <2>2, <2>3, <2>4, <2>6 DEF Counted
    <2> QED
      BY <2>5, <2>6
  <1>25. Content(m) = Content(r) \cup {cell}
    <2>1. \A c \in Content(m) : c \in Content(r) \cup {cell}
      BY <1>14, <1>17 DEF Content
    <2>2. \A c \in Content(r) \cup {cell} : c \in Content(m)
      BY <1>14, <1>17 DEF Content
    <2> QED
      BY <2>1, <2>2
  <1> QED
    BY <1>2, <1>23, <1>24, <1>25 DEF HashOK, cell

-----------------------------------------------------------------------------
(***************************************************************************)
(* The linked list: one lemma for each function on it.                     *)
(***************************************************************************)

LEMMA LinksFields ==
  ASSUME NEW l \in Links
  PROVE  /\ l.first \in Pointer /\ l.last \in Pointer
         /\ l.prev \in [Info -> Pointer] /\ l.next \in [Info -> Pointer]
BY DEF Links

LEMMA AloneFields ==
  ASSUME NEW l \in Links, NEW x \in Info
  PROVE  /\ Alone(l, x) \in Links
         /\ Alone(l, x).first = x /\ Alone(l, x).last = x
         /\ Alone(l, x).prev = [l.prev EXCEPT ![x] = NULL]
         /\ Alone(l, x).next = [l.next EXCEPT ![x] = NULL]
PROOF
  <1>1. x \in Pointer /\ NULL \in Pointer
    BY DEF Pointer
  <1>2. /\ [l.prev EXCEPT ![x] = NULL] \in [Info -> Pointer]
        /\ [l.next EXCEPT ![x] = NULL] \in [Info -> Pointer]
    BY <1>1, LinksFields
  <1> QED
    BY <1>1, <1>2 DEF Alone, Links

LEMMA AppendRepresents ==
  ASSUME NEW l \in Links, NEW q \in Seq(Info), NEW x \in Info,
         Represents(l, q), x \notin Elems(q)
  PROVE  /\ hidden_append(l, x) \in Links
         /\ Represents(hidden_append(l, x), Append(q, x))
PROOF
  <1> DEFINE r == Append(q, x)
             m == hidden_append(l, x)
  <1>0. Len(q) \in Nat /\ \A i \in 1..Len(q) : q[i] \in Info /\ q[i] # x
    BY DEF Elems
  <1>1. /\ Len(r) = Len(q) + 1 /\ r[Len(q) + 1] = x /\ r # <<>>
        /\ \A i \in 1..Len(q) : r[i] = q[i]
    OBVIOUS
  <1>2. Distinct(r) /\ Elems(r) = Elems(q) \cup {x}
    BY ElemsOfAppend DEF Represents
  <1>3. CASE q = <<>>
    <2>1. Len(q) = 0 /\ l.last = NULL
      BY <1>3 DEF Represents
    <2>2. m = Alone(l, x)
      BY <2>1 DEF hidden_append
    <2> HIDE DEF m, r
    <2>3. /\ m \in Links /\ m.first = x /\ m.last = x
          /\ m.prev = [l.prev EXCEPT ![x] = NULL]
          /\ m.next = [l.next EXCEPT ![x] = NULL]
      BY <2>2, AloneFields
    <2>4. /\ m.prev[x] = NULL /\ m.next[x] = NULL
          /\ \A y \in Info \ {x} : m.prev[y] = NULL /\ m.next[y] = NULL
      BY <2>1, <2>3, LinksFields DEF Represents, Elems
    <2>5. r[1] = x /\ Len(r) = 1 /\ \A i \in 1..Len(r) : i = 1
      BY <2>1, <1>1
    <2>6. \A y \in Info : m.prev[y] = NULL /\ m.next[y] = NULL
      BY <2>4
    <2>7. r[1] \in Info
      BY <2>5
    <2> QED
      BY <2>3, <2>5, <2>6, <2>7, <1>1, <1>2 DEF Represents, m, r
  <1>4. CASE q # <<>>
    <2>1. /\ Len(q) \in 1..Len(q) /\ l.last = q[Len(q)] /\ l.last \in Info
          /\ l.last # NULL /\ l.last # x /\ l.first = q[1] /\ q[1] = r[1]
      BY <1>4, <1>0, <1>1, NullIsNoInfo DEF Represents
    <2>2. m = [l EXCEPT !.prev = [@ EXCEPT ![x] = l.last],
                        !.next = [@ EXCEPT ![l.last] = x, ![x] = NULL],
                        !.last = x]
      BY <2>1 DEF hidden_append
    <2> HIDE DEF m, r
    <2>b. /\ [l.prev EXCEPT ![x] = l.last] \in [Info -> Pointer]
          /\ [l.next EXCEPT ![l.last] = x, ![x] = NULL] \in [Info -> Pointer]
      BY <2>1, LinksFields DEF Pointer
    <2>a. /\ m \in Links /\ m.first = l.first /\ m.last = x
          /\ m.prev = [l.prev EXCEPT ![x] = l.last]
          /\ m.next = [l.next EXCEPT ![l.last] = x, ![x] = NULL]
      BY <2>2, <2>b DEF Links, Pointer
    <2>3. /\ m \in Links /\ m.first = l.first /\ m.last = x
          /\ m.prev[x] = l.last /\ m.next[x] = NULL /\ m.next[l.last] = x
          /\ \A y \in Info \ {x} : m.prev[y] = l.prev[y]
          /\ \A y \in Info \ {x, l.last} : m.next[y] = l.next[y]
      BY <2>1, <2>a, LinksFields
    <2>4. \A i \in 1..Len(r) : i \in 1..Len(q) \/ i = Len(q) + 1
      BY <1>0, <1>1
    <2>5. ASSUME NEW i \in 1..Len(r)
          PROVE  /\ m.prev[r[i]] = IF i = 1 THEN NULL ELSE r[i - 1]
                 /\ m.next[r[i]] = IF i = Len(r) THEN NULL ELSE r[i + 1]
      <3>1. CASE i = Len(q) + 1
        BY <3>1, <1>0, <1>1, <2>1, <2>3
      <3>2. CASE i \in 1..Len(q)
        <4>1. /\ l.prev[q[i]] = IF i = 1 THEN NULL ELSE q[i - 1]
              /\ l.next[q[i]] = IF i = Len(q) THEN NULL ELSE q[i + 1]
          BY <3>2 DEF Represents
        <4>2. m.prev[r[i]] = IF i = 1 THEN NULL ELSE r[i - 1]
          <5>1. m.prev[r[i]] = l.prev[q[i]]
            BY <3>2, <1>0, <1>1, <2>3
          <5>2. i # 1 => i - 1 \in 1..Len(q)
            BY <3>2, <1>0
          <5> QED
            BY <4>1, <5>1, <5>2, <1>1
        <4>3. m.next[r[i]] = IF i = Len(r) THEN NULL ELSE r[i + 1]
          <5>1. CASE i = Len(q)
            BY <5>1, <3>2, <1>0, <1>1, <2>1, <2>3
          <5>2. CASE i # Len(q)
            <6>1. q[i] # l.last /\ i + 1 \in 1..Len(q) /\ i # Len(r)
              BY <5>2, <3>2, <2>1, <1>0, <1>1 DEF Represents, Distinct
            <6> QED
              BY <6>1, <5>2, <4>1, <3>2, <1>0, <1>1, <2>3
          <5> QED
            BY <5>1, <5>2
        <4> QED
          BY <4>2, <4>3
      <3> QED
        BY <3>1, <3>2, <2>4
    <2>6. \A y \in Info \ Elems(r) : m.prev[y] = NULL /\ m.next[y] = NULL
      <3> SUFFICES ASSUME NEW y \in Info \ Elems(r)
                   PROVE  m.prev[y] = NULL /\ m.next[y] = NULL
        OBVIOUS
      <3>1. y \in Info \ Elems(q) /\ y # x /\ y # l.last
        BY <1>2, <2>1 DEF Elems
      <3> QED
        BY <3>1, <2>3 DEF Represents
    <2>7. m.last = r[Len(r)] /\ m.first = r[1] /\ r # <<>>
      BY <1>0, <1>1, <2>1, <2>3
    <2> QED
      BY <2>3, <2>5, <2>6, <2>7, <1>2 DEF Represents, m, r
  <1> QED
    BY <1>3, <1>4

LEMMA PrependRepresents ==
  ASSUME NEW l \in Links, NEW q \in Seq(Info), NEW x \in Info,
         Represents(l, q), x \notin Elems(q)
  PROVE  /\ hidden_prepend(l, x) \in Links
         /\ Represents(hidden_prepend(l, x), <<x>> \o q)
PROOF
  <1> DEFINE r == <<x>> \o q
             m == hidden_prepend(l, x)
  <1>0. Len(q) \in Nat /\ \A i \in 1..Len(q) : q[i] \in Info /\ q[i] # x
    BY DEF Elems
  <1>1. /\ Len(r) = Len(q) + 1 /\ r[1] = x /\ r # <<>>
        /\ \A i \in 1..Len(q) : r[i + 1] = q[i]
    OBVIOUS
  <1>2. Distinct(r) /\ Elems(r) = Elems(q) \cup {x}
    <2>1. <<x>> \in Seq(Info) /\ Elems(<<x>>) = {x} /\ Distinct(<<x>>)
      BY ElemsOfOne
    <2>2. Distinct(q)
      BY DEF Represents
    <2>3. ASSUME NEW p \in Seq(Info), Elems(p) = {x}, Distinct(p)
          PROVE  Distinct(p \o q) /\ Elems(p \o q) = Elems(q) \cup {x}
      BY <2>2, <2>3, ElemsOfConcat
    <2> QED
      BY <2>1, <2>3
  <1>3. CASE q = <<>>
    <2>1. Len(q) = 0 /\ l.first = NULL
      BY <1>3 DEF Represents
    <2>2. m = Alone(l, x)
      BY <2>1 DEF hidden_prepend
    <2> HIDE DEF m, r
    <2>3. /\ m \in Links /\ m.first = x /\ m.last = x
          /\ m.prev = [l.prev EXCEPT ![x] = NULL]
          /\ m.next = [l.next EXCEPT ![x] = NULL]
      BY <2>2, AloneFields
    <2>4. \A y \in Info : m.prev[y] = NULL /\ m.next[y] = NULL
      BY <2>1, <2>3, LinksFields DEF Represents, Elems
    <2>5. r[1] = x /\ Len(r) = 1 /\ \A i \in 1..Len(r) : i = 1
      BY <2>1, <1>1
    <2> QED
      BY <2>3, <2>4, <2>5, <1>1, <1>2 DEF Represents, m, r
  <1>4. CASE q # <<>>
    <2>1. /\ 1 \in 1..Len(q) /\ l.first = q[1] /\ l.first \in Info
          /\ l.first # NULL /\ l.first # x /\ l.last = q[Len(q)]
          /\ Len(q) \in 1..Len(q)
      BY <1>4, <1>0, NullIsNoInfo DEF Represents
    <2>2. m = [l EXCEPT !.next = [@ EXCEPT ![x] = l.first],
                        !.prev = [@ EXCEPT ![l.first] = x, ![x] = NULL],
                        !.first = x]
      BY <2>1 DEF hidden_prepend
    <2> HIDE DEF m, r
    <2>3. /\ [l.next EXCEPT ![x] = l.first] \in [Info -> Pointer]
          /\ [l.prev EXCEPT ![l.first] = x, ![x] = NULL] \in [Info -> Pointer]
      BY <2>1, LinksFields DEF Pointer
    <2>4. /\ m \in Links /\ m.first = x /\ m.last = l.last
          /\ m.next = [l.next EXCEPT ![x] = l.first]
          /\ m.prev = [l.prev EXCEPT ![l.first] = x, ![x] = NULL]
      BY <2>2, <2>3 DEF Links, Pointer
    <2>5. /\ m.next[x] = l.first /\ m.prev[x] = NULL /\ m.prev[l.first] = x
          /\ \A y \in Info \ {x} : m.next[y] = l.next[y]
          /\ \A y \in Info \ {x, l.first} : m.prev[y] = l.prev[y]
      BY <2>1, <2>4, LinksFields
    <2>6. ASSUME NEW i \in 1..Len(r)
          PROVE  /\ m.prev[r[i]] = IF i = 1 THEN NULL ELSE r[i - 1]
                 /\ m.next[r[i]] = IF i = Len(r) THEN NULL ELSE r[i + 1]
      <3>1. CASE i = 1
        <4>1. Len(r) # 1 /\ r[1 + 1] = q[1]
          BY <1>0, <1>1, <2>1
        <4> QED
          BY <3>1, <4>1, <1>1, <2>1, <2>5
      <3>2. CASE i - 1 \in 1..Len(q)
        <4> DEFINE j == i - 1
        <4>0. j \in 1..Len(q) /\ i = j + 1 /\ r[i] = q[j]
          BY <3>2, <1>1
        <4> HIDE DEF j
        <4>1. /\ l.prev[q[j]] = IF j = 1 THEN NULL ELSE q[j - 1]
              /\ l.next[q[j]] = IF j = Len(q) THEN NULL ELSE q[j + 1]
          BY <4>0 DEF Represents
        <4>2. m.next[r[i]] = IF i = Len(r) THEN NULL ELSE r[i + 1]
          <5>1. m.next[r[i]] = l.next[q[j]]
            BY <4>0, <1>0, <2>5
          <5>2. j # Len(q) => j + 1 \in 1..Len(q) /\ r[i + 1] = q[j + 1]
            BY <4>0, <1>0, <1>1
          <5> QED
            BY <4>0, <4>1, <5>1, <5>2, <1>0, <1>1
        <4>3. m.prev[r[i]] = IF i = 1 THEN NULL ELSE r[i - 1]
          <5>1. CASE j = 1
            BY <5>1, <4>0, <1>1, <2>1, <2>5
          <5>2. CASE j # 1
            <6>1. q[j] # l.first /\ j - 1 \in 1..Len(q) /\ i # 1
              BY <5>2, <4>0, <2>1, <1>0 DEF Represents, Distinct
            <6>2. r[i - 1] = q[j - 1]
              BY <6>1, <4>0, <1>1
            <6> QED
              BY <6>1, <6>2, <5>2, <4>0, <4>1, <1>0, <2>5
          <5> QED
            BY <5>1, <5>2
        <4> QED
          BY <4>2, <4>3
      <3> QED
        BY <3>1, <3>2, <1>0, <1>1
    <2>7. \A y \in Info \ Elems(r) : m.prev[y] = NULL /\ m.next[y] = NULL
      <3> SUFFICES ASSUME NEW y \in Info \ Elems(r)
                   PROVE  m.prev[y] = NULL /\ m.next[y] = NULL
        OBVIOUS
      <3>1. y \in Info \ Elems(q) /\ y # x /\ y # l.first
        BY <1>2, <2>1 DEF Elems
      <3> QED
        BY <3>1, <2>5 DEF Represents
    <2>8. m.first = r[1] /\ m.last = r[Len(r)]
      BY <1>0, <1>1, <2>1, <2>4
    <2> QED
      BY <2>4, <2>6, <2>7, <2>8, <1>1, <1>2 DEF Represents, m, r
  <1> QED
    BY <1>3, <1>4

(* Both pops leave an element alone, or take it off one end. *)
LEMMA Ends ==
  ASSUME NEW l \in Links, NEW q \in Seq(Info), Represents(l, q)
  PROVE  /\ l.first = NULL <=> q = <<>>
         /\ l.last = NULL <=> q = <<>>
         /\ q # <<>> => /\ l.first = q[1] /\ l.first \in Info
                        /\ l.last = q[Len(q)] /\ l.last \in Info
                        /\ l.first = l.last <=> Len(q) = 1
PROOF
  <1>1. q # <<>> => 1 \in 1..Len(q) /\ Len(q) \in 1..Len(q)
    OBVIOUS
  <1>2. q # <<>> => q[1] \in Info /\ q[Len(q)] \in Info
    BY <1>1
  <1>3. q # <<>> => (q[1] = q[Len(q)] <=> Len(q) = 1)
    BY <1>1 DEF Represents, Distinct
  <1> QED
    BY <1>2, <1>3, NullIsNoInfo DEF Represents

LEMMA PopFirstRepresents ==
  ASSUME NEW l \in Links, NEW q \in Seq(Info), Represents(l, q), q # <<>>
  PROVE  /\ hidden_pop_first(l) \in Links
         /\ Represents(hidden_pop_first(l), Tail(q))
PROOF
  <1> DEFINE r   == Tail(q)
             m   == hidden_pop_first(l)
             out == q[1]
  <1>0. /\ Len(q) \in Nat /\ Len(q) > 0 /\ 1 \in 1..Len(q)
        /\ \A i \in 1..Len(q) : q[i] \in Info
        /\ l.first = out /\ out \in Info /\ l.last = q[Len(q)]
    BY Ends
  <1>1. /\ Len(r) = Len(q) - 1 /\ r \in Seq(Info)
        /\ \A i \in 1..Len(r) : r[i] = q[i + 1] /\ i + 1 \in 1..Len(q)
    OBVIOUS
  <1>2. Distinct(r) /\ Elems(r) = Elems(q) \ {out}
    BY ElemsOfTail DEF Represents
  <1> HIDE DEF r, out
  <1>3. CASE Len(q) = 1
    <2>1. m = [l EXCEPT !.first = NULL, !.last = NULL,
                        !.prev[out] = NULL, !.next[out] = NULL]
      BY <1>3, <1>0, Ends, NullIsNoInfo DEF hidden_pop_first
    <2> HIDE DEF m
    <2>2. /\ [l.prev EXCEPT ![out] = NULL] \in [Info -> Pointer]
          /\ [l.next EXCEPT ![out] = NULL] \in [Info -> Pointer]
      BY LinksFields DEF Pointer
    <2>3. /\ m \in Links /\ m.first = NULL /\ m.last = NULL
          /\ m.prev = [l.prev EXCEPT ![out] = NULL]
          /\ m.next = [l.next EXCEPT ![out] = NULL]
      BY <2>1, <2>2 DEF Links, Pointer
    <2>4. r = <<>> /\ Elems(r) = {} /\ Elems(q) = {out} /\ Len(r) = 0
      <3>1. Len(r) = 0
        BY <1>1, <1>3
      <3>2. Elems(r) = {}
        BY <3>1 DEF Elems
      <3>3. Elems(q) = {out}
        BY <1>3 DEF Elems, out
      <3> QED
        BY <3>1, <3>2, <3>3, <1>1
    <2>5. \A y \in Info : m.prev[y] = NULL /\ m.next[y] = NULL
      BY <2>3, <2>4, LinksFields DEF Represents
    <2>6. Represents(m, r)
      BY <2>3, <2>4, <2>5, <1>2 DEF Represents
    <2> QED
      BY <2>3, <2>6 DEF m, r
  <1>4. CASE Len(q) # 1
    <2>0. /\ 2 \in 1..Len(q) /\ q[2] = r[1] /\ q[2] # out /\ l.next[out] = q[2]
          /\ 1 \in 1..Len(r) /\ q[2] \in Info
      BY <1>0, <1>1, <1>4 DEF Represents, Distinct, out
    <2>1. m = [l EXCEPT !.first = q[2],
                        !.prev = [@ EXCEPT ![q[2]] = NULL, ![out] = NULL],
                        !.next[out] = NULL]
      BY <2>0, <1>4, <1>0, Ends, NullIsNoInfo DEF hidden_pop_first
    <2> HIDE DEF m
    <2>2. /\ [l.prev EXCEPT ![q[2]] = NULL, ![out] = NULL] \in [Info -> Pointer]
          /\ [l.next EXCEPT ![out] = NULL] \in [Info -> Pointer]
      BY LinksFields DEF Pointer
    <2>3. /\ m \in Links /\ m.first = q[2] /\ m.last = l.last
          /\ m.prev = [l.prev EXCEPT ![q[2]] = NULL, ![out] = NULL]
          /\ m.next = [l.next EXCEPT ![out] = NULL]
      BY <2>1, <2>2, <2>0 DEF Links, Pointer
    <2>4. /\ m.prev[out] = NULL /\ m.next[out] = NULL /\ m.prev[q[2]] = NULL
          /\ \A y \in Info \ {out} : m.next[y] = l.next[y]
          /\ \A y \in Info \ {out, q[2]} : m.prev[y] = l.prev[y]
      BY <2>0, <2>3, <1>0, LinksFields
    <2>5. ASSUME NEW i \in 1..Len(r)
          PROVE  /\ m.prev[r[i]] = IF i = 1 THEN NULL ELSE r[i - 1]
                 /\ m.next[r[i]] = IF i = Len(r) THEN NULL ELSE r[i + 1]
      <3> DEFINE j == i + 1
      <3>0. j \in 1..Len(q) /\ r[i] = q[j] /\ i = j - 1 /\ i \in Nat \ {0}
        BY <1>0, <1>1
      <3> HIDE DEF j
      <3>1. /\ l.prev[q[j]] = IF j = 1 THEN NULL ELSE q[j - 1]
            /\ l.next[q[j]] = IF j = Len(q) THEN NULL ELSE q[j + 1]
        BY <3>0 DEF Represents
      <3>2. q[j] # out /\ q[j] \in Info /\ j # 1
        BY <3>0, <1>0 DEF Represents, Distinct, out
      <3>3. m.next[r[i]] = IF i = Len(r) THEN NULL ELSE r[i + 1]
        <4>1. j # Len(q) => i + 1 \in 1..Len(r) /\ r[i + 1] = q[j + 1]
          BY <3>0, <1>0, <1>1
        <4> QED
          BY <4>1, <3>0, <3>1, <3>2, <2>4, <1>0, <1>1
      <3>4. m.prev[r[i]] = IF i = 1 THEN NULL ELSE r[i - 1]
        <4>1. CASE i = 1
          BY <4>1, <2>0, <2>4
        <4>2. CASE i # 1
          <5>1. q[j] # q[2] /\ i - 1 \in 1..Len(r)
            BY <4>2, <3>0, <2>0, <1>0, <1>1 DEF Represents, Distinct
          <5>2. r[i - 1] = q[j - 1]
            BY <5>1, <3>0, <1>1
          <5> QED
            BY <5>1, <5>2, <4>2, <3>0, <3>1, <3>2, <2>4
        <4> QED
          BY <4>1, <4>2
      <3> QED
        BY <3>3, <3>4
    <2>6. \A y \in Info \ Elems(r) : m.prev[y] = NULL /\ m.next[y] = NULL
      <3> SUFFICES ASSUME NEW y \in Info \ Elems(r)
                   PROVE  m.prev[y] = NULL /\ m.next[y] = NULL
        OBVIOUS
      <3>1. q[2] \in Elems(r)
        BY <2>0 DEF Elems
      <3>2. y = out \/ y \in Info \ Elems(q)
        BY <1>2
      <3> QED
        BY <3>1, <3>2, <2>4 DEF Represents
    <2>7. m.first = r[1] /\ m.last = r[Len(r)] /\ r # <<>>
      BY <1>0, <1>1, <2>0, <2>3
    <2> QED
      BY <2>3, <2>5, <2>6, <2>7, <1>2 DEF Represents, m, r
  <1> QED
    BY <1>3, <1>4

LEMMA PopLastRepresents ==
  ASSUME NEW l \in Links, NEW q \in Seq(Info), Represents(l, q), q # <<>>
  PROVE  /\ hidden_pop_last(l) \in Links
         /\ Represents(hidden_pop_last(l), SubSeq(q, 1, Len(q) - 1))
PROOF
  <1> DEFINE r   == SubSeq(q, 1, Len(q) - 1)
             m   == hidden_pop_last(l)
             n   == Len(q)
             out == q[n]
  <1>0. /\ n \in Nat /\ n > 0 /\ n \in 1..n /\ 1 \in 1..n
        /\ \A i \in 1..n : q[i] \in Info
        /\ l.last = out /\ out \in Info /\ l.first = q[1]
    BY Ends
  <1>1. r \in Seq(Info) /\ Len(r) = n - 1 /\ \A i \in 1..Len(r) : r[i] = q[i]
    <2>1. r \in Seq(Info) /\ Len(r) = n - 1
      BY ElemsOfFront
    <2> QED
      BY <2>1, <1>0, SubSeqProperties
  <1>2. Distinct(r) /\ Elems(r) = Elems(q) \ {out}
    BY ElemsOfFront DEF Represents
  <1> HIDE DEF r, out
  <1>3. CASE n = 1
    <2>1. m = [l EXCEPT !.first = NULL, !.last = NULL,
                        !.prev[out] = NULL, !.next[out] = NULL]
      BY <1>3, <1>0, Ends, NullIsNoInfo DEF hidden_pop_last
    <2> HIDE DEF m
    <2>2. /\ [l.prev EXCEPT ![out] = NULL] \in [Info -> Pointer]
          /\ [l.next EXCEPT ![out] = NULL] \in [Info -> Pointer]
      BY LinksFields DEF Pointer
    <2>3. /\ m \in Links /\ m.first = NULL /\ m.last = NULL
          /\ m.prev = [l.prev EXCEPT ![out] = NULL]
          /\ m.next = [l.next EXCEPT ![out] = NULL]
      BY <2>1, <2>2 DEF Links, Pointer
    <2>4. r = <<>> /\ Elems(r) = {} /\ Elems(q) = {out} /\ Len(r) = 0
      <3>1. Len(r) = 0
        BY <1>1, <1>3
      <3>2. Elems(r) = {}
        BY <3>1 DEF Elems
      <3>3. Elems(q) = {out}
        BY <1>3 DEF Elems, out
      <3> QED
        BY <3>1, <3>2, <3>3, <1>1
    <2>5. \A y \in Info : m.prev[y] = NULL /\ m.next[y] = NULL
      BY <2>3, <2>4, LinksFields DEF Represents
    <2>6. Represents(m, r)
      BY <2>3, <2>4, <2>5, <1>2 DEF Represents
    <2> QED
      BY <2>3, <2>6 DEF m, r
  <1>4. CASE n # 1
    <2> DEFINE new == q[n - 1]
    <2>0. /\ n - 1 \in 1..n /\ new = r[n - 1] /\ new # out /\ l.prev[out] = new
          /\ n - 1 \in 1..Len(r) /\ new \in Info /\ q[1] = r[1]
      BY <1>0, <1>1, <1>4 DEF Represents, Distinct, out
    <2> HIDE DEF new
    <2>1. m = [l EXCEPT !.last = new,
                        !.next = [@ EXCEPT ![new] = NULL, ![out] = NULL],
                        !.prev[out] = NULL]
      BY <2>0, <1>4, <1>0, Ends, NullIsNoInfo DEF hidden_pop_last
    <2> HIDE DEF m
    <2>2. /\ [l.next EXCEPT ![new] = NULL, ![out] = NULL] \in [Info -> Pointer]
          /\ [l.prev EXCEPT ![out] = NULL] \in [Info -> Pointer]
      BY LinksFields DEF Pointer
    <2>3. /\ m \in Links /\ m.last = new /\ m.first = l.first
          /\ m.next = [l.next EXCEPT ![new] = NULL, ![out] = NULL]
          /\ m.prev = [l.prev EXCEPT ![out] = NULL]
      BY <2>1, <2>2, <2>0 DEF Links, Pointer
    <2>4. /\ m.prev[out] = NULL /\ m.next[out] = NULL /\ m.next[new] = NULL
          /\ \A y \in Info \ {out} : m.prev[y] = l.prev[y]
          /\ \A y \in Info \ {out, new} : m.next[y] = l.next[y]
      BY <2>0, <2>3, <1>0, LinksFields
    <2>5. ASSUME NEW i \in 1..Len(r)
          PROVE  /\ m.prev[r[i]] = IF i = 1 THEN NULL ELSE r[i - 1]
                 /\ m.next[r[i]] = IF i = Len(r) THEN NULL ELSE r[i + 1]
      <3>0. i \in 1..n /\ r[i] = q[i] /\ i # n /\ q[i] # out /\ q[i] \in Info
        BY <1>0, <1>1 DEF Represents, Distinct, out
      <3>1. /\ l.prev[q[i]] = IF i = 1 THEN NULL ELSE q[i - 1]
            /\ l.next[q[i]] = IF i = n THEN NULL ELSE q[i + 1]
        BY <3>0 DEF Represents
      <3>2. m.prev[r[i]] = IF i = 1 THEN NULL ELSE r[i - 1]
        <4>1. i # 1 => i - 1 \in 1..Len(r) /\ r[i - 1] = q[i - 1]
          BY <1>0, <1>1
        <4> QED
          BY <4>1, <3>0, <3>1, <2>4
      <3>3. m.next[r[i]] = IF i = Len(r) THEN NULL ELSE r[i + 1]
        <4>1. CASE i = Len(r)
          BY <4>1, <2>0, <2>4, <1>1
        <4>2. CASE i # Len(r)
          <5>1. i + 1 \in 1..Len(r) /\ r[i + 1] = q[i + 1] /\ i # n - 1
            BY <4>2, <1>0, <1>1
          <5>2. q[i] # new
            BY <5>1, <3>0, <2>0, <1>0 DEF Represents, Distinct, new
          <5> QED
            BY <5>1, <5>2, <4>2, <3>0, <3>1, <2>4
        <4> QED
          BY <4>1, <4>2
      <3> QED
        BY <3>2, <3>3
    <2>6. \A y \in Info \ Elems(r) : m.prev[y] = NULL /\ m.next[y] = NULL
      <3> SUFFICES ASSUME NEW y \in Info \ Elems(r)
                   PROVE  m.prev[y] = NULL /\ m.next[y] = NULL
        OBVIOUS
      <3>1. new \in Elems(r)
        BY <2>0 DEF Elems
      <3>2. y = out \/ y \in Info \ Elems(q)
        BY <1>2
      <3> QED
        BY <3>1, <3>2, <2>4 DEF Represents
    <2>7. m.first = r[1] /\ m.last = r[Len(r)] /\ r # <<>>
      BY <1>0, <1>1, <2>0, <2>3
    <2>8. Represents(m, r)
      BY <2>3, <2>5, <2>6, <2>7, <1>2 DEF Represents
    <2> QED
      BY <2>3, <2>8 DEF m, r
  <1> QED
    BY <1>3, <1>4

LEMMA RemoveFields ==
  ASSUME NEW l \in Links, NEW x \in Info
  PROVE  LET m == hidden_remove(l, x)
         IN  /\ m \in Links
             /\ m.first = IF l.first = x THEN l.next[x] ELSE l.first
             /\ m.last = IF l.last = x THEN l.prev[x] ELSE l.last
             /\ m.prev[x] = NULL /\ m.next[x] = NULL
             /\ \A y \in Info \ {x} :
                  /\ m.next[y] = IF y = l.prev[x] THEN l.next[x] ELSE l.next[y]
                  /\ m.prev[y] = IF y = l.next[x] THEN l.prev[x] ELSE l.prev[y]
PROOF
  <1> DEFINE nexts == [y \in Info |-> IF y = x THEN NULL
                         ELSE IF y = l.prev[x] THEN l.next[x] ELSE l.next[y]]
             prevs == [y \in Info |-> IF y = x THEN NULL
                         ELSE IF y = l.next[x] THEN l.prev[x] ELSE l.prev[y]]
             m     == hidden_remove(l, x)
  <1>1. /\ l.next[x] \in Pointer /\ l.prev[x] \in Pointer /\ NULL \in Pointer
        /\ \A y \in Info : l.next[y] \in Pointer /\ l.prev[y] \in Pointer
        /\ l.first \in Pointer /\ l.last \in Pointer
    BY LinksFields DEF Pointer
  <1>2. nexts \in [Info -> Pointer] /\ prevs \in [Info -> Pointer]
    BY <1>1
  <1>3. /\ nexts[x] = NULL /\ prevs[x] = NULL
        /\ \A y \in Info \ {x} :
             /\ nexts[y] = IF y = l.prev[x] THEN l.next[x] ELSE l.next[y]
             /\ prevs[y] = IF y = l.next[x] THEN l.prev[x] ELSE l.prev[y]
    OBVIOUS
  <1>4. m = [l EXCEPT !.first = IF @ = x THEN l.next[x] ELSE @,
                      !.last = IF @ = x THEN l.prev[x] ELSE @,
                      !.next = nexts, !.prev = prevs]
    BY DEF hidden_remove
  <1> HIDE DEF nexts, prevs, m
  <1>5. /\ m \in Links /\ m.next = nexts /\ m.prev = prevs
        /\ m.first = IF l.first = x THEN l.next[x] ELSE l.first
        /\ m.last = IF l.last = x THEN l.prev[x] ELSE l.last
    BY <1>1, <1>2, <1>4 DEF Links
  <1> QED
    BY <1>3, <1>5 DEF m

LEMMA RemoveRepresents ==
  ASSUME NEW l \in Links, NEW q \in Seq(Info), NEW x \in Info, Represents(l, q)
  PROVE  /\ hidden_remove(l, x) \in Links
         /\ Represents(hidden_remove(l, x), Without(q, x))
PROOF
  <1> DEFINE m == hidden_remove(l, x)
             n == Len(q)
  <1>0. n \in Nat /\ \A i \in 1..n : q[i] \in Info /\ q[i] # NULL
    BY NullIsNoInfo
  <1>1. /\ m \in Links
        /\ m.first = IF l.first = x THEN l.next[x] ELSE l.first
        /\ m.last = IF l.last = x THEN l.prev[x] ELSE l.last
        /\ m.prev[x] = NULL /\ m.next[x] = NULL
        /\ \A y \in Info \ {x} :
             /\ m.next[y] = IF y = l.prev[x] THEN l.next[x] ELSE l.next[y]
             /\ m.prev[y] = IF y = l.next[x] THEN l.prev[x] ELSE l.prev[y]
    BY RemoveFields
  <1> HIDE DEF m
  <1>2. CASE x \notin Elems(q)
    <2>1. Without(q, x) = q /\ l.prev[x] = NULL /\ l.next[x] = NULL
      BY <1>2 DEF Without, Represents
    <2>2. l.first # x /\ l.last # x
      <3>1. q # <<>> => 1 \in 1..n /\ n \in 1..n
        OBVIOUS
      <3>2. \A i \in 1..n : q[i] # x
        BY <1>2 DEF Elems
      <3> QED
        BY <3>1, <3>2, NullIsNoInfo DEF Represents
    <2>3. \A y \in Info : m.next[y] = l.next[y] /\ m.prev[y] = l.prev[y]
      BY <2>1, <1>1, NullIsNoInfo
    <2>4. m.first = l.first /\ m.last = l.last
      BY <2>2, <1>1
    <2>5. Represents(m, q)
      <3>1. \A i \in 1..n : /\ m.prev[q[i]] = l.prev[q[i]]
                            /\ m.next[q[i]] = l.next[q[i]]
        BY <2>3, <1>0
      <3>2. \A y \in Info \ Elems(q) : m.prev[y] = NULL /\ m.next[y] = NULL
        BY <2>3 DEF Represents
      <3> QED
        BY <3>1, <3>2, <2>4 DEF Represents
    <2> QED
      BY <2>1, <2>5, <1>1 DEF m
  <1>3. CASE x \in Elems(q)
    <2> DEFINE at == CHOOSE i \in 1..n : q[i] = x
               r  == [j \in 1..(n - 1) |-> IF j < at THEN q[j] ELSE q[j + 1]]
    <2>1. at \in 1..n /\ q[at] = x
      BY <1>3 DEF Elems
    <2>2. Without(q, x) = r
      BY <1>3 DEF Without
    <2> HIDE DEF at
    <2>3. /\ n - 1 \in Nat
          /\ \A j \in 1..(n - 1) : r[j] = IF j < at THEN q[j] ELSE q[j + 1]
      BY <2>1, <1>0
    <2> HIDE DEF r
    <2>4. r \in Seq(Info) /\ Len(r) = n - 1 /\ Distinct(r)
          /\ Elems(r) = Elems(q) \ {x}
      <3>1. Distinct(q)
        BY DEF Represents
      <3> QED
        BY <3>1, <2>2, <1>3, ElemsOfWithout
    <2>5. /\ l.prev[x] = IF at = 1 THEN NULL ELSE q[at - 1]
          /\ l.next[x] = IF at = n THEN NULL ELSE q[at + 1]
          /\ at # 1 => at - 1 \in 1..n
          /\ at # n => at + 1 \in 1..n
      BY <2>1, <1>0 DEF Represents
    <2>6. \A i, j \in 1..n : q[i] = q[j] => i = j
      BY DEF Represents, Distinct
    <2>7. ASSUME NEW j \in 1..(n - 1)
          PROVE  /\ m.prev[r[j]] = IF j = 1 THEN NULL ELSE r[j - 1]
                 /\ m.next[r[j]] = IF j = n - 1 THEN NULL ELSE r[j + 1]
      <3> DEFINE i == IF j < at THEN j ELSE j + 1
      <3>0. i \in 1..n /\ r[j] = q[i] /\ i # at
        BY <2>1, <2>3, <1>0
      <3>a. (j < at /\ i = j) \/ (j >= at /\ i = j + 1)
        <4>1. j \in Int /\ at \in Int
          BY <2>1, <1>0
        <4> QED
          BY <4>1
      <3> HIDE DEF i
      <3>1. /\ l.prev[q[i]] = IF i = 1 THEN NULL ELSE q[i - 1]
            /\ l.next[q[i]] = IF i = n THEN NULL ELSE q[i + 1]
        BY <3>0 DEF Represents
      <3>2. q[i] \in Info \ {x} /\ q[i] # NULL
        BY <3>0, <2>1, <2>6, <1>0
      <3>3. /\ m.next[q[i]] = IF q[i] = l.prev[x] THEN l.next[x] ELSE l.next[q[i]]
            /\ m.prev[q[i]] = IF q[i] = l.next[x] THEN l.prev[x] ELSE l.prev[q[i]]
        BY <3>2, <1>1
      <3>4. m.next[q[i]] = IF j = n - 1 THEN NULL ELSE r[j + 1]
        <4>1. CASE i = at - 1
          <5>1. q[i] = l.prev[x] /\ j = at - 1
            BY <4>1, <3>0, <3>a, <2>1, <2>5, <1>0
          <5>2. at # n => r[j + 1] = q[at + 1]
            BY <5>1, <2>1, <2>3, <1>0
          <5> QED
            BY <5>1, <5>2, <3>3, <2>1, <2>5, <1>0
        <4>2. CASE i # at - 1
          <5>1. q[i] # l.prev[x]
            BY <4>2, <3>0, <3>2, <2>1, <2>5, <2>6, <1>0
          <5>2. m.next[q[i]] = IF i = n THEN NULL ELSE q[i + 1]
            BY <5>1, <3>1, <3>3
          <5>3. i = n <=> j = n - 1
            BY <4>2, <3>0, <3>a, <2>1, <1>0
          <5>4. ASSUME j # n - 1 PROVE r[j + 1] = q[i + 1]
            <6>1. j + 1 \in 1..(n - 1)
              BY <5>4, <1>0
            <6>2. r[j + 1] = IF j + 1 < at THEN q[j + 1] ELSE q[j + 1 + 1]
              BY <6>1, <2>3
            <6> QED
              BY <6>2, <4>2, <3>a, <2>1, <1>0
          <5> QED
            BY <5>2, <5>3, <5>4
        <4> QED
          BY <4>1, <4>2
      <3>5. m.prev[q[i]] = IF j = 1 THEN NULL ELSE r[j - 1]
        <4>1. CASE i = at + 1
          <5>1. q[i] = l.next[x] /\ j = at
            BY <4>1, <3>0, <3>a, <2>1, <2>5, <1>0
          <5>2. at # 1 => r[j - 1] = q[at - 1]
            BY <5>1, <2>1, <2>3, <1>0
          <5> QED
            BY <5>1, <5>2, <3>3, <2>1, <2>5, <1>0
        <4>2. CASE i # at + 1
          <5>1. q[i] # l.next[x]
            BY <4>2, <3>0, <3>2, <2>1, <2>5, <2>6, <1>0
          <5>2. m.prev[q[i]] = IF i = 1 THEN NULL ELSE q[i - 1]
            BY <5>1, <3>1, <3>3
          <5>3. i = 1 <=> j = 1
            BY <4>2, <3>0, <3>a, <2>1, <1>0
          <5>4. j # 1 => r[j - 1] = q[i - 1]
            BY <4>2, <3>0, <3>a, <2>1, <2>3, <1>0
          <5> QED
            BY <5>2, <5>3, <5>4
        <4> QED
          BY <4>1, <4>2
      <3> QED
        BY <3>0, <3>4, <3>5
    <2>8. ASSUME NEW y \in Info \ Elems(r) PROVE m.prev[y] = NULL /\ m.next[y] = NULL
      <3>1. CASE y = x
        BY <3>1, <1>1
      <3>2. CASE y # x
        <4>1. y \in Info \ Elems(q)
          BY <3>2, <2>4
        <4>2. y # l.prev[x] /\ y # l.next[x]
          BY <4>1, <2>5, NullIsNoInfo DEF Elems
        <4> QED
          BY <4>1, <4>2, <3>2, <1>1 DEF Represents
      <3> QED
        BY <3>1, <3>2
    <2>9. m.first = IF r = <<>> THEN NULL ELSE r[1]
      <3>1. q # <<>> /\ 1 \in 1..n /\ l.first = q[1]
        BY <2>1, <1>0 DEF Represents
      <3>2. CASE at = 1
        BY <3>1, <3>2, <2>1, <2>3, <2>4, <2>5, <1>0, <1>1
      <3>3. CASE at # 1
        <4>1. q[1] # x /\ r # <<>> /\ r[1] = q[1]
          BY <3>3, <3>1, <2>1, <2>3, <2>4, <2>6, <1>0
        <4> QED
          BY <4>1, <3>1, <1>1
      <3> QED
        BY <3>2, <3>3
    <2>10. m.last = IF r = <<>> THEN NULL ELSE r[n - 1]
      <3>1. q # <<>> /\ n \in 1..n /\ l.last = q[n]
        BY <2>1, <1>0 DEF Represents
      <3>2. CASE at = n
        BY <3>1, <3>2, <2>1, <2>3, <2>4, <2>5, <1>0, <1>1
      <3>3. CASE at # n
        <4>1. q[n] # x /\ r # <<>> /\ r[n - 1] = q[n]
          BY <3>3, <3>1, <2>1, <2>3, <2>4, <2>6, <1>0
        <4> QED
          BY <4>1, <3>1, <1>1
      <3> QED
        BY <3>2, <3>3
    <2>11. Represents(m, r)
      BY <2>4, <2>7, <2>8, <2>9, <2>10 DEF Represents
    <2> QED
      BY <2>2, <2>11, <1>1 DEF m
  <1> QED
    BY <1>2, <1>3

-----------------------------------------------------------------------------
(* What a handler does to list and frames keeps every info in one of them.  *)

Holdings == [list : Links, queue : Seq(Info), framed : SUBSET Info]

HoldOK(s) ==
  /\ s \in Holdings
  /\ Represents(s.list, s.queue)
  /\ Elems(s.queue) \cap s.framed = {}

AllOf(s) == Elems(s.queue) \cup s.framed

LEMMA HideLastKeeps ==
  ASSUME NEW s, HoldOK(s), NEW x \in Info, x \notin Elems(s.queue)
  PROVE  /\ HoldOK(hide_last(s, x)) /\ AllOf(hide_last(s, x)) = AllOf(s) \cup {x}
         /\ Elems(hide_last(s, x).queue) = Elems(s.queue) \cup {x}
PROOF
  <1>1. /\ s.list \in Links /\ s.queue \in Seq(Info) /\ s.framed \in SUBSET Info
        /\ Represents(s.list, s.queue) /\ Elems(s.queue) \cap s.framed = {}
    BY DEF HoldOK, Holdings
  <1>2. hide_last(s, x) = [list |-> hidden_append(s.list, x),
                           queue |-> Append(s.queue, x), framed |-> s.framed \ {x}]
    BY NullIsNoInfo DEF hide_last
  <1>3. /\ hidden_append(s.list, x) \in Links
        /\ Represents(hidden_append(s.list, x), Append(s.queue, x))
    BY <1>1, AppendRepresents
  <1>4. /\ Append(s.queue, x) \in Seq(Info)
        /\ Elems(Append(s.queue, x)) = Elems(s.queue) \cup {x}
    BY <1>1, ElemsOfAppend
  <1> QED
    BY <1>1, <1>2, <1>3, <1>4 DEF HoldOK, Holdings, AllOf

LEMMA HideFirstKeeps ==
  ASSUME NEW s, HoldOK(s), NEW x \in Info, x \notin Elems(s.queue)
  PROVE  HoldOK(hide_first(s, x)) /\ AllOf(hide_first(s, x)) = AllOf(s) \cup {x}
PROOF
  <1>1. /\ s.list \in Links /\ s.queue \in Seq(Info) /\ s.framed \in SUBSET Info
        /\ Represents(s.list, s.queue) /\ Elems(s.queue) \cap s.framed = {}
    BY DEF HoldOK, Holdings
  <1> DEFINE l == hidden_prepend(s.list, x)
             q == <<x>> \o s.queue
  <1>2. hide_first(s, x) = [list |-> l, queue |-> q, framed |-> s.framed \ {x}]
    BY NullIsNoInfo DEF hide_first
  <1>3. l \in Links /\ Represents(l, q)
    BY <1>1, PrependRepresents
  <1>4. q \in Seq(Info) /\ Elems(q) = Elems(s.queue) \cup {x}
    <2>1. <<x>> \in Seq(Info) /\ Elems(<<x>>) = {x}
      BY ElemsOfOne
    <2>2. ASSUME NEW p \in Seq(Info), Elems(p) = {x}
          PROVE  p \o s.queue \in Seq(Info) /\ Elems(p \o s.queue) = Elems(s.queue) \cup {x}
      BY <2>2, <1>1, ElemsOfConcat
    <2> QED
      BY <2>1, <2>2
  <1> HIDE DEF l, q
  <1> QED
    BY <1>1, <1>2, <1>3, <1>4 DEF HoldOK, Holdings, AllOf

LEMMA ShowFirstKeeps ==
  ASSUME NEW s, HoldOK(s)
  PROVE  HoldOK(show_first(s)) /\ AllOf(show_first(s)) = AllOf(s)
PROOF
  <1>1. /\ s.list \in Links /\ s.queue \in Seq(Info) /\ s.framed \in SUBSET Info
        /\ Represents(s.list, s.queue) /\ Elems(s.queue) \cap s.framed = {}
    BY DEF HoldOK, Holdings
  <1>2. CASE s.list.first = NULL
    BY <1>2 DEF show_first
  <1>3. CASE s.list.first # NULL
    <2> DEFINE l == hidden_pop_first(s.list)
               q == Tail(s.queue)
    <2>1. s.queue # <<>> /\ s.list.first = s.queue[1] /\ s.list.first \in Info
      BY <1>1, <1>3, Ends
    <2>2. l \in Links /\ Represents(l, q)
      BY <1>1, <2>1, PopFirstRepresents
    <2>3. /\ q \in Seq(Info) /\ s.list.first \in Elems(s.queue)
          /\ Elems(q) = Elems(s.queue) \ {s.list.first}
      <3>1. Distinct(s.queue) /\ Head(s.queue) = s.queue[1]
        BY <1>1, <2>1 DEF Represents
      <3> QED
        BY <3>1, <1>1, <2>1, ElemsOfTail
    <2>4. show_first(s) = [list |-> l, queue |-> q,
                           framed |-> s.framed \cup {s.list.first}]
      BY <1>3 DEF show_first
    <2> HIDE DEF l, q
    <2> QED
      BY <1>1, <2>1, <2>2, <2>3, <2>4 DEF HoldOK, Holdings, AllOf
  <1> QED
    BY <1>2, <1>3

LEMMA ShowLastKeeps ==
  ASSUME NEW s, HoldOK(s)
  PROVE  HoldOK(show_last(s)) /\ AllOf(show_last(s)) = AllOf(s)
PROOF
  <1>1. /\ s.list \in Links /\ s.queue \in Seq(Info) /\ s.framed \in SUBSET Info
        /\ Represents(s.list, s.queue) /\ Elems(s.queue) \cap s.framed = {}
    BY DEF HoldOK, Holdings
  <1>2. CASE s.list.last = NULL
    BY <1>2 DEF show_last
  <1>3. CASE s.list.last # NULL
    <2> DEFINE l == hidden_pop_last(s.list)
               q == SubSeq(s.queue, 1, Len(s.queue) - 1)
    <2>1. /\ s.queue # <<>> /\ s.list.last = s.queue[Len(s.queue)]
          /\ s.list.last \in Info
      BY <1>1, <1>3, Ends
    <2>2. l \in Links /\ Represents(l, q)
      BY <1>1, <2>1, PopLastRepresents
    <2>3. /\ q \in Seq(Info) /\ s.list.last \in Elems(s.queue)
          /\ Elems(q) = Elems(s.queue) \ {s.list.last}
      <3>1. Distinct(s.queue)
        BY <1>1 DEF Represents
      <3> QED
        BY <3>1, <1>1, <2>1, ElemsOfFront
    <2>4. show_last(s) = [list |-> l, queue |-> q,
                          framed |-> s.framed \cup {s.list.last}]
      BY <1>3 DEF show_last
    <2> HIDE DEF l, q
    <2> QED
      BY <1>1, <2>1, <2>2, <2>3, <2>4 DEF HoldOK, Holdings, AllOf
  <1> QED
    BY <1>2, <1>3

LEMMA LetGoKeeps ==
  ASSUME NEW s, HoldOK(s), NEW x \in Info
  PROVE  HoldOK(let_go(s, x)) /\ AllOf(let_go(s, x)) = AllOf(s) \ {x}
PROOF
  <1> DEFINE t == IF x \in s.framed THEN hide_last(s, x) ELSE s
  <1>1. HoldOK(t) /\ x \notin t.framed /\ AllOf(t) \ {x} = AllOf(s) \ {x}
    <2>1. CASE x \in s.framed
      <3>1. x \notin Elems(s.queue)
        BY <2>1 DEF HoldOK
      <3>2. x \notin hide_last(s, x).framed
        BY NullIsNoInfo DEF hide_last
      <3> QED
        BY <2>1, <3>1, <3>2, HideLastKeeps
    <2>2. CASE x \notin s.framed
      BY <2>2
    <2> QED
      BY <2>1, <2>2
  <1>2. let_go(s, x) = [t EXCEPT !.list = hidden_remove(@, x),
                                 !.queue = Without(@, x)]
    BY DEF let_go
  <1> HIDE DEF t
  <1>3. /\ t.list \in Links /\ t.queue \in Seq(Info) /\ t.framed \in SUBSET Info
        /\ Represents(t.list, t.queue) /\ Elems(t.queue) \cap t.framed = {}
        /\ t \in Holdings
    BY <1>1 DEF HoldOK, Holdings
  <1> DEFINE l == hidden_remove(t.list, x)
             q == Without(t.queue, x)
  <1>4. l \in Links /\ Represents(l, q)
    BY <1>3, RemoveRepresents
  <1>5. q \in Seq(Info) /\ Elems(q) = Elems(t.queue) \ {x}
    <2>1. Distinct(t.queue)
      BY <1>3 DEF Represents
    <2> QED
      BY <2>1, <1>3, ElemsOfWithout
  <1> HIDE DEF l, q
  <1>6. let_go(s, x) = [list |-> l, queue |-> q, framed |-> t.framed]
    BY <1>2, <1>3 DEF Holdings, l, q
  <1> QED
    BY <1>1, <1>3, <1>4, <1>5, <1>6 DEF HoldOK, Holdings, AllOf

-----------------------------------------------------------------------------
(* The invariant, as long as the workspace is not freed: what the loop of   *)
(* workspace_free() leaves takes induction over the buckets.                *)

-----------------------------------------------------------------------------
(***************************************************************************)
(* The invariant.  What the list, the frames, the infos and the table say  *)
(* of each other is stated of any of them, so that it can be followed      *)
(* along the loop of workspace_free().                                     *)
(***************************************************************************)

Allocated(own) == {x \in Info : own[x] # NULL}

CellsOf(own) == {<<own[x], x>> : x \in Allocated(own)}

Agree(hold, own, tab) ==
  /\ HoldOK(hold)
  /\ own \in [Info -> Window \cup {NULL}]
  /\ Allocated(own) = AllOf(hold)
  /\ HashOK(tab)
  /\ Content(tab) = CellsOf(own)

OwnersOf(own) == {own[x] : x \in Allocated(own)}

IInv ==
  /\ Agree(Held, owner, table)
  /\ windows = OwnersOf(owner)
  /\ freed => table.live = {}

(* How it goes on in the next state. *)
LEMMA AgreeNext ==
  ASSUME NEW hold, NEW own, NEW tab, Agree(hold, own, tab),
         Hold(hold), owner' = own, table' = tab, windows' = OwnersOf(own),
         freed' => tab.live = {}
  PROVE  IInv'
PROOF
  <1>1. Held' = hold
    BY DEF Agree, HoldOK, Holdings, Held, Hold
  <1>2. Agree(Held, owner, table)' = Agree(hold, own, tab)
    BY <1>1
  <1> QED
    BY <1>2 DEF IInv, OwnersOf, Allocated

(* An info is in the cell of its window, and two windows have not the same. *)
LEMMA CellsAreOwners ==
  ASSUME NEW hold, NEW own, NEW tab, Agree(hold, own, tab)
  PROVE  /\ \A x \in Info : own[x] # NULL => \E i \in tab.live : tab.cells[i] = <<own[x], x>>
         /\ \A i \in tab.live : /\ tab.cells[i][1] \in Window /\ tab.cells[i][2] \in Info
                                /\ own[tab.cells[i][2]] = tab.cells[i][1]
         /\ \A i, j \in tab.live : tab.cells[i][1] = tab.cells[j][1] => i = j
         /\ \A x, y \in Info : own[x] # NULL /\ own[x] = own[y] => x = y
PROOF
  <1>1. /\ \A i \in tab.live : tab.cells[i] \in Element
        /\ \A i, j \in tab.live : tab.cells[i][1] = tab.cells[j][1] => i = j
        /\ Content(tab) = CellsOf(own)
    BY DEF Agree, HashOK, Layout, Filled
  <1>2. \A x \in Info : own[x] # NULL => \E i \in tab.live : tab.cells[i] = <<own[x], x>>
    <2> TAKE x \in Info
    <2> HAVE own[x] # NULL
    <2>1. <<own[x], x>> \in CellsOf(own)
      BY DEF CellsOf, Allocated
    <2> QED
      BY <1>1, <2>1 DEF Content
  <1>3. ASSUME NEW i \in tab.live
        PROVE  /\ tab.cells[i][1] \in Window /\ tab.cells[i][2] \in Info
               /\ own[tab.cells[i][2]] = tab.cells[i][1]
    <2>1. tab.cells[i] \in CellsOf(own)
      BY <1>1 DEF Content
    <2>2. PICK x \in Info : tab.cells[i] = <<own[x], x>>
      BY <2>1 DEF CellsOf, Allocated
    <2> QED
      BY <1>1, <2>2, CellParts
  <1>4. ASSUME NEW x \in Info, NEW y \in Info, own[x] # NULL, own[x] = own[y]
        PROVE  x = y
    <2>1. PICK i \in tab.live : tab.cells[i] = <<own[x], x>>
      BY <1>2, <1>4
    <2>2. PICK j \in tab.live : tab.cells[j] = <<own[y], y>>
      BY <1>2, <1>4
    <2>3. i = j
      BY <1>1, <1>4, <2>1, <2>2
    <2> QED
      BY <2>1, <2>2, <2>3
  <1> QED
    BY <1>1, <1>2, <1>3, <1>4

(* With no live bucket there is no info. *)
LEMMA NothingLive ==
  ASSUME NEW hold, NEW own, NEW tab, Agree(hold, own, tab), tab.live = {}
  PROVE  Allocated(own) = {} /\ OwnersOf(own) = {}
PROOF
  <1>1. \A x \in Info : ~(own[x] # NULL)
    BY CellsAreOwners
  <1> QED
    BY <1>1 DEF Allocated, OwnersOf

LEMMA InitHolds == Init => IInv
PROOF
  <1> SUFFICES ASSUME Init PROVE IInv
    OBVIOUS
  <1>1. Elems(<<>>) = {} /\ Distinct(<<>>) /\ <<>> \in Seq(Info)
    BY DEF Elems, Distinct
  <1>2. NoLinks \in Links
    BY DEF NoLinks, Links, Pointer
  <1>3. Represents(NoLinks, <<>>)
    BY <1>1 DEF Represents, NoLinks
  <1>4. Held = [list |-> NoLinks, queue |-> <<>>, framed |-> {}]
    BY DEF Init, Held
  <1>5. HoldOK(Held) /\ AllOf(Held) = {}
    BY <1>1, <1>2, <1>3, <1>4 DEF HoldOK, Holdings, AllOf
  <1>6. /\ owner \in [Info -> Window \cup {NULL}] /\ Allocated(owner) = {}
        /\ windows = {} /\ ~freed /\ table = kh_init
    BY DEF Init, Allocated
  <1>7. CellsOf(owner) = {} /\ OwnersOf(owner) = {}
    BY <1>6 DEF CellsOf, OwnersOf, Allocated
  <1>8. HashOK(table) /\ Content(table) = {}
    BY <1>6, InitOK
  <1> QED
    BY <1>5, <1>6, <1>7, <1>8 DEF IInv, Agree

(* A handler that only moves infos between list and frames. *)
LEMMA MovingKeeps ==
  ASSUME IInv, NEW s, HoldOK(s), Hold(s), AllOf(s) = AllOf(Held),
         UNCHANGED <<table, owner, windows, freed>>
  PROVE  IInv'
PROOF
  <1>1. Agree(s, owner, table)
    BY DEF IInv, Agree
  <1>2. windows' = OwnersOf(owner) /\ (freed' => table.live = {})
    BY DEF IInv
  <1> QED
    BY <1>1, <1>2, AgreeNext

(* A frame's info, or none, is hidden. *)
LEMMA HiddenOrNone ==
  ASSUME NEW s, HoldOK(s), NEW old \in s.framed \cup {NULL}
  PROVE  /\ HoldOK(hide_last(s, old)) /\ AllOf(hide_last(s, old)) = AllOf(s)
         /\ HoldOK(hide_first(s, old)) /\ AllOf(hide_first(s, old)) = AllOf(s)
PROOF
  <1>1. CASE old = NULL
    BY <1>1 DEF hide_last, hide_first
  <1>2. CASE old \in s.framed
    <2>1. old \in Info /\ old \notin Elems(s.queue) /\ old \in AllOf(s)
      BY <1>2 DEF HoldOK, Holdings, AllOf
    <2> QED
      BY <2>1, HideLastKeeps, HideFirstKeeps
  <1> QED
    BY <1>1, <1>2

(* An info is allocated for a window, or freed. *)
Owned(own, x, w) == [own EXCEPT ![x] = w]

LEMMA OwnerAdds ==
  ASSUME NEW own \in [Info -> Window \cup {NULL}], NEW x \in Info, own[x] = NULL,
         NEW w \in Window, NEW new, new = Owned(own, x, w)
  PROVE  /\ new \in [Info -> Window \cup {NULL}]
         /\ Allocated(new) = Allocated(own) \cup {x}
         /\ CellsOf(new) = CellsOf(own) \cup {<<w, x>>}
         /\ OwnersOf(new) = OwnersOf(own) \cup {w}
PROOF
  <1>1. /\ new \in [Info -> Window \cup {NULL}] /\ new[x] = w /\ w # NULL
        /\ \A y \in Info \ {x} : new[y] = own[y]
    BY NullIsNoWindow DEF Owned
  <1>2. Allocated(new) = Allocated(own) \cup {x}
    BY <1>1 DEF Allocated
  <1>3. CellsOf(new) = CellsOf(own) \cup {<<w, x>>}
    <2>1. \A c \in CellsOf(new) : c \in CellsOf(own) \cup {<<w, x>>}
      BY <1>1 DEF CellsOf, Allocated
    <2>2. \A c \in CellsOf(own) \cup {<<w, x>>} : c \in CellsOf(new)
      BY <1>1 DEF CellsOf, Allocated
    <2> QED
      BY <2>1, <2>2
  <1>4. OwnersOf(new) = OwnersOf(own) \cup {w}
    <2>1. \A c \in OwnersOf(new) : c \in OwnersOf(own) \cup {w}
      BY <1>1 DEF OwnersOf, Allocated
    <2>2. \A c \in OwnersOf(own) \cup {w} : c \in OwnersOf(new)
      BY <1>1 DEF OwnersOf, Allocated
    <2> QED
      BY <2>1, <2>2
  <1> QED
    BY <1>1, <1>2, <1>3, <1>4

LEMMA OwnerFrees ==
  ASSUME NEW own \in [Info -> Window \cup {NULL}], NEW x \in Info, own[x] # NULL,
         \A y \in Info : own[x] = own[y] => x = y,
         NEW new, new = Owned(own, x, NULL)
  PROVE  /\ new \in [Info -> Window \cup {NULL}]
         /\ Allocated(new) = Allocated(own) \ {x}
         /\ CellsOf(new) = CellsOf(own) \ {<<own[x], x>>}
         /\ OwnersOf(new) = OwnersOf(own) \ {own[x]}
PROOF
  <1>1. /\ new \in [Info -> Window \cup {NULL}] /\ new[x] = NULL
        /\ \A y \in Info \ {x} : new[y] = own[y] /\ own[y] # own[x]
    BY DEF Owned
  <1>2. Allocated(new) = Allocated(own) \ {x}
    BY <1>1 DEF Allocated
  <1>3. CellsOf(new) = CellsOf(own) \ {<<own[x], x>>}
    <2>1. \A c \in CellsOf(new) : c \in CellsOf(own) \ {<<own[x], x>>}
      BY <1>1 DEF CellsOf, Allocated
    <2>2. \A c \in CellsOf(own) \ {<<own[x], x>>} : c \in CellsOf(new)
      BY <1>1 DEF CellsOf, Allocated
    <2> QED
      BY <2>1, <2>2
  <1>4. OwnersOf(new) = OwnersOf(own) \ {own[x]}
    <2>1. \A c \in OwnersOf(new) : c \in OwnersOf(own) \ {own[x]}
      BY <1>1 DEF OwnersOf, Allocated
    <2>2. \A c \in OwnersOf(own) \ {own[x]} : c \in OwnersOf(new)
      BY <1>1 DEF OwnersOf, Allocated
    <2> QED
      BY <2>1, <2>2
  <1> QED
    BY <1>1, <1>2, <1>3, <1>4

LEMMA AddKeeps ==
  ASSUME IInv, NEW w \in Window, NEW x \in Info, NEW old \in framed \cup {NULL},
         workspace_add_window(w, x, old)
  PROVE  IInv'
PROOF
  <1> DEFINE s == hide_last(Held, old)
             t == [s EXCEPT !.framed = @ \cup {x}]
  <1>1. /\ ~freed /\ ~freed' /\ owner[x] = NULL /\ owner' = [owner EXCEPT ![x] = w]
        /\ w \notin windows /\ windows' = windows \cup {w}
        /\ table' = kh_put(table, w, x) /\ Hold(t)
    BY DEF workspace_add_window
  <1>2. /\ HoldOK(Held) /\ owner \in [Info -> Window \cup {NULL}]
        /\ Allocated(owner) = AllOf(Held)
        /\ HashOK(table) /\ Content(table) = CellsOf(owner)
        /\ windows = OwnersOf(owner)
    BY DEF IInv, Agree
  <1>3. HoldOK(s) /\ AllOf(s) = AllOf(Held)
    BY <1>2, HiddenOrNone DEF Held
  <1> HIDE DEF s
  <1>4. x \notin AllOf(s)
    BY <1>1, <1>2, <1>3 DEF Allocated
  <1>5. HoldOK(t) /\ AllOf(t) = AllOf(s) \cup {x}
    <2>1. /\ t \in Holdings /\ t.list = s.list /\ t.queue = s.queue
          /\ t.framed = s.framed \cup {x}
      BY <1>3 DEF HoldOK, Holdings
    <2> HIDE DEF t
    <2> QED
      BY <2>1, <1>3, <1>4 DEF HoldOK, AllOf
  <1> HIDE DEF t
  <1>6. PICK own : own = Owned(owner, x, w)
    OBVIOUS
  <1>7. /\ own \in [Info -> Window \cup {NULL}]
        /\ Allocated(own) = Allocated(owner) \cup {x}
        /\ CellsOf(own) = CellsOf(owner) \cup {<<w, x>>}
        /\ OwnersOf(own) = OwnersOf(owner) \cup {w}
    <2>1. owner[x] = NULL /\ owner \in [Info -> Window \cup {NULL}]
      BY <1>1, <1>2
    <2> QED
      BY <2>1, <1>6, OwnerAdds
  <1>8. PICK tab : tab = kh_put(table, w, x)
    OBVIOUS
  <1>9. HashOK(tab) /\ Content(tab) = Content(table) \cup {<<w, x>>}
    <2>1. \A c \in CellsOf(owner) : c[1] \in OwnersOf(owner)
      BY DEF CellsOf, OwnersOf, Allocated
    <2>2. \A c \in Content(table) : c[1] # w
      BY <1>1, <1>2, <2>1
    <2> QED
      BY <1>2, <1>8, <2>2, PutKeeps
  <1>10. Agree(t, own, tab)
    BY <1>2, <1>3, <1>5, <1>7, <1>9 DEF Agree
  <1> QED
    BY <1>1, <1>2, <1>6, <1>7, <1>8, <1>10, AgreeNext DEF Owned

(* A bucket is deleted, and the info in it is let go and freed. *)
LEMMA FreeingKeeps ==
  ASSUME NEW hold, NEW own, NEW tab, Agree(hold, own, tab),
         NEW k \in tab.live, NEW x, x = tab.cells[k][2],
         NEW h, h = let_go(hold, x),
         NEW o, o = Owned(own, x, NULL),
         NEW t, t = kh_del(tab, k)
  PROVE  /\ Agree(h, o, t) /\ x \in Info
         /\ OwnersOf(o) = OwnersOf(own) \ {tab.cells[k][1]}
         /\ t.n_buckets = tab.n_buckets /\ t.live = tab.live \ {k}
PROOF
  <1>1. /\ HoldOK(hold) /\ own \in [Info -> Window \cup {NULL}]
        /\ Allocated(own) = AllOf(hold)
        /\ HashOK(tab) /\ Content(tab) = CellsOf(own)
    BY DEF Agree
  <1>2. /\ x \in Info /\ own[x] = tab.cells[k][1] /\ own[x] \in Window
        /\ \A y \in Info : own[x] = own[y] => x = y
    BY CellsAreOwners, NullIsNoWindow
  <1>3. tab.cells[k] = <<own[x], x>>
    BY <1>1, <1>2, CellParts DEF HashOK, Layout, Filled
  <1>4. own[x] # NULL
    BY <1>2, NullIsNoWindow
  <1>5. HoldOK(h) /\ AllOf(h) = AllOf(hold) \ {x}
    BY <1>1, <1>2, LetGoKeeps
  <1>6. /\ o \in [Info -> Window \cup {NULL}]
        /\ Allocated(o) = Allocated(own) \ {x}
        /\ CellsOf(o) = CellsOf(own) \ {<<own[x], x>>}
        /\ OwnersOf(o) = OwnersOf(own) \ {own[x]}
    <2>1. /\ own \in [Info -> Window \cup {NULL}] /\ own[x] # NULL /\ x \in Info
          /\ \A y \in Info : own[x] = own[y] => x = y
      BY <1>1, <1>2, <1>4
    <2> QED
      BY <2>1, OwnerFrees
  <1>7. /\ HashOK(t) /\ t.n_buckets = tab.n_buckets /\ t.live = tab.live \ {k}
        /\ Content(t) = Content(tab) \ {tab.cells[k]}
    BY <1>1, DelKeeps
  <1>8. Agree(h, o, t)
    BY <1>1, <1>3, <1>5, <1>6, <1>7 DEF Agree
  <1> QED
    BY <1>2, <1>6, <1>7, <1>8

LEMMA RemoveKeeps ==
  ASSUME IInv, NEW w \in Window, NEW x \in Info, workspace_remove_window(w, x)
  PROVE  IInv'
PROOF
  <1>1. PICK k : k = kh_get(table, w)
    OBVIOUS
  <1>2. PICK s : s = let_go(Held, x)
    OBVIOUS
  <1>3. PICK own : own = Owned(owner, x, NULL)
    OBVIOUS
  <1>4. PICK tab : tab = kh_del(table, k)
    OBVIOUS
  <1> DEFINE t == IF x \in framed THEN show_first(s) ELSE s
  <1>5. /\ ~freed' /\ owner' = own /\ Hold(t) /\ table' = tab
        /\ k # table.n_buckets /\ x = table.cells[k][2] /\ windows' = windows \ {w}
    BY <1>1, <1>2, <1>3, <1>4 DEF workspace_remove_window, Owned
  <1>6. Agree(Held, owner, table) /\ HashOK(table) /\ windows = OwnersOf(owner)
    BY DEF IInv, Agree
  <1>7. k \in table.live /\ table.cells[k][1] = w
    BY <1>1, <1>5, <1>6, GetFinds
  <1>8. Agree(s, own, tab) /\ OwnersOf(own) = OwnersOf(owner) \ {table.cells[k][1]}
    <2>1. Agree(Held, owner, table) /\ k \in table.live /\ x = table.cells[k][2]
      BY <1>5, <1>6, <1>7
    <2> QED
      BY <2>1, <1>2, <1>3, <1>4, FreeingKeeps
  <1>9. HoldOK(t) /\ AllOf(t) = AllOf(s)
    BY <1>8, ShowFirstKeeps DEF Agree
  <1> HIDE DEF t
  <1>10. Agree(t, own, tab)
    BY <1>8, <1>9 DEF Agree
  <1> QED
    BY <1>5, <1>6, <1>7, <1>8, <1>10, AgreeNext

(* The loop of workspace_free(), as a function from the bucket that it has  *)
(* reached.                                                                 *)
StartFreeing == [hold |-> Held, owner |-> owner, table |-> table]

OneFreed(s, k) ==
  LET freeing == free_info([hold |-> s.hold, owner |-> s.owner], s.table.cells[k - 1][2])
  IN  IF k - 1 \notin s.table.live THEN s
      ELSE [hold |-> freeing.hold, owner |-> freeing.owner,
            table |-> kh_del(s.table, k - 1)]

Freed ==
  CHOOSE from : from = [k \in 0..table.n_buckets |->
    IF k = 0 THEN StartFreeing ELSE OneFreed(from[k - 1], k)]

LEMMA FreeIsLoop ==
  ASSUME workspace_free, NEW done, done = Freed[table.n_buckets]
  PROVE  Hold(done.hold) /\ owner' = done.owner /\ table' = done.table
BY DEF workspace_free, Freed, OneFreed, StartFreeing

(* What holds in every round, whatever was freed before. *)
Rest(n) ==
  {s \in [hold : Holdings, owner : [Info -> Window \cup {NULL}], table : Tables] :
     Agree(s.hold, s.owner, s.table) /\ s.table.n_buckets = n}

LEMMA RestIs ==
  ASSUME NEW hold, NEW own, NEW tab, Agree(hold, own, tab), NEW s,
         s = [hold |-> hold, owner |-> own, table |-> tab]
  PROVE  s \in Rest(tab.n_buckets)
BY DEF Rest, Agree, HoldOK, HashOK, Layout

LEMMA OneFreedIs ==
  ASSUME NEW n, NEW s \in Rest(n), NEW k, NEW r, r = OneFreed(s, k)
  PROVE  r \in Rest(n) /\ r.table.live = s.table.live \ {k - 1}
PROOF
  <1>1. Agree(s.hold, s.owner, s.table) /\ s.table.n_buckets = n
    BY DEF Rest
  <1>2. CASE k - 1 \notin s.table.live
    BY <1>2 DEF OneFreed
  <1>3. CASE k - 1 \in s.table.live
    <2>1. PICK x : x = s.table.cells[k - 1][2]
      OBVIOUS
    <2>2. PICK h : h = let_go(s.hold, x)
      OBVIOUS
    <2>3. PICK o : o = Owned(s.owner, x, NULL)
      OBVIOUS
    <2>4. PICK t : t = kh_del(s.table, k - 1)
      OBVIOUS
    <2>5. /\ Agree(h, o, t) /\ t.n_buckets = n /\ t.live = s.table.live \ {k - 1}
      BY <1>1, <1>3, <2>1, <2>2, <2>3, <2>4, FreeingKeeps
    <2>6. r = [hold |-> h, owner |-> o, table |-> t]
      BY <1>3, <2>1, <2>2, <2>3, <2>4 DEF OneFreed, free_info, Owned
    <2> QED
      BY <2>5, <2>6, RestIs
  <1> QED
    BY <1>2, <1>3

(* It ends with no live bucket. *)
LEMMA FreedIs ==
  ASSUME Agree(Held, owner, table), NEW done, done = Freed[table.n_buckets]
  PROVE  Agree(done.hold, done.owner, done.table) /\ done.table.live = {}
PROOF
  <1>1. PICK N : N = table.n_buckets
    OBVIOUS
  <1>2. N \in Nat /\ table.live \subseteq 0..(N - 1)
    BY <1>1 DEF Agree, HashOK, Layout, Tables, Buckets
  <1> DEFINE T == Rest(N)
             step == [p \in T \X (1..N) |-> OneFreed(p[1], p[2])]
  <1>3. StartFreeing \in T /\ StartFreeing.table = table
    BY <1>1, RestIs DEF StartFreeing
  <1>4. ASSUME NEW s \in T, NEW j \in 1..N
        PROVE  step[<<s, j>>] = OneFreed(s, j) /\ step[<<s, j>>] \in T
    <2>1. step[<<s, j>>] = OneFreed(s, j)
      <3> HIDE DEF T
      <3> QED OBVIOUS
    <2> HIDE DEF step
    <2> QED
      BY <2>1, OneFreedIs
  <1> HIDE DEF T, step
  <1>5. PICK f \in [0..N -> T] : Unrolls(f, N, StartFreeing, step)
    BY <1>2, <1>3, <1>4, Recursion
  <1>6. f = [k \in 0..N |-> IF k = 0 THEN StartFreeing ELSE OneFreed(f[k - 1], k)]
    <2>1. ASSUME NEW k \in 0..N
          PROVE  f[k] = IF k = 0 THEN StartFreeing ELSE OneFreed(f[k - 1], k)
      <3>1. CASE k = 0
        BY <1>5, <3>1 DEF Unrolls
      <3>2. CASE k # 0
        <4>1. k \in 1..N /\ k - 1 \in 0..N
          BY <1>2, <3>2
        <4>2. f[k - 1] \in T /\ f[k] = step[<<f[k - 1], k>>]
          BY <1>5, <4>1 DEF Unrolls
        <4> QED
          BY <1>4, <3>2, <4>1, <4>2
      <3> QED
        BY <3>1, <3>2
    <2>2. f = [k \in 0..N |-> f[k]]
      OBVIOUS
    <2> QED
      BY <2>1, <2>2
  <1> DEFINE freeing == Freed
  <1>7. freeing = [k \in 0..N |->
                     IF k = 0 THEN StartFreeing ELSE OneFreed(freeing[k - 1], k)]
    BY <1>1, <1>6 DEF Freed
  <1> HIDE DEF freeing
  <1> DEFINE Good(k) == /\ freeing[k] \in T
                        /\ freeing[k].table.live \subseteq table.live
                        /\ freeing[k].table.live \cap 0..(k - 1) = {}
             P == {k \in Nat : k <= N => Good(k)}
  <1>8. 0 \in P
    <2>1. 0 \in 0..N
      BY <1>2
    <2>2. freeing[0] = StartFreeing
      BY <1>7, <2>1
    <2> QED
      BY <1>3, <2>2
  <1>9. \A k \in Nat : k \in P => k + 1 \in P
    <2> SUFFICES ASSUME NEW k \in Nat, Good(k), k + 1 <= N PROVE Good(k + 1)
      <3>1. \A j \in Nat : j + 1 <= N => j <= N
        BY <1>2
      <3> HIDE DEF Good
      <3> QED BY <3>1
    <2>1. k + 1 \in 0..N /\ k + 1 # 0 /\ (k + 1) - 1 = k
      BY <1>2
    <2>2. freeing[k + 1] = OneFreed(freeing[k], k + 1)
      BY <1>7, <2>1
    <2>3. /\ freeing[k + 1] \in T
          /\ freeing[k + 1].table.live = freeing[k].table.live \ {k}
      BY <2>1, <2>2, OneFreedIs DEF T
    <2>4. \A l \in 0..((k + 1) - 1) : l \in 0..(k - 1) \/ l = k
      OBVIOUS
    <2> QED
      BY <2>3, <2>4
  <1>10. N \in P
    <2> HIDE DEF P
    <2> QED BY <1>2, <1>8, <1>9, Induction
  <1>11. done = freeing[N] /\ Good(N)
    BY <1>1, <1>2, <1>10 DEF freeing
  <1> QED
    BY <1>2, <1>11 DEF T, Rest

LEMMA FreeKeeps ==
  ASSUME IInv, workspace_free
  PROVE  IInv'
PROOF
  <1>1. PICK done : done = Freed[table.n_buckets]
    OBVIOUS
  <1>2. Hold(done.hold) /\ owner' = done.owner /\ table' = done.table
    BY <1>1, FreeIsLoop
  <1>3. Agree(done.hold, done.owner, done.table) /\ done.table.live = {}
    BY <1>1, FreedIs DEF IInv
  <1>4. OwnersOf(done.owner) = {}
    BY <1>3, NothingLive
  <1>5. windows' = {}
    BY DEF workspace_free
  <1> QED
    BY <1>2, <1>3, <1>4, <1>5, AgreeNext

LEMMA NextKeeps == IInv /\ [Next]_vars => IInv'
PROOF
  <1> SUFFICES ASSUME IInv, [Next]_vars PROVE IInv'
    OBVIOUS
  <1>0. HoldOK(Held) /\ Held.framed = framed /\ Held.list = list
    BY DEF IInv, Agree, Held
  <1>1. ASSUME NEW w \in Window, NEW x \in Info, NEW old \in framed \cup {NULL},
               workspace_add_window(w, x, old)
        PROVE  IInv'
    BY <1>1, AddKeeps
  <1>2. ASSUME NEW w \in Window, NEW x \in Info, workspace_remove_window(w, x)
        PROVE  IInv'
    BY <1>2, RemoveKeeps
  <1>3. ASSUME NEW old \in framed, hide(old) PROVE IInv'
    <2>1. Hold(hide_last(Held, old)) /\ UNCHANGED <<table, owner, windows, freed>>
      BY <1>3 DEF hide
    <2> QED
      BY <2>1, <1>0, HiddenOrNone, MovingKeeps
  <1>4. ASSUME NEW old \in framed \cup {NULL}, workspace_next_hidden_win_at(old)
        PROVE  IInv'
    <2> DEFINE s == show_first(Held)
    <2>1. Hold(hide_last(s, old)) /\ UNCHANGED <<table, owner, windows, freed>>
      BY <1>4 DEF workspace_next_hidden_win_at
    <2>2. HoldOK(s) /\ AllOf(s) = AllOf(Held)
      BY <1>0, ShowFirstKeeps
    <2>3. old \in s.framed \cup {NULL}
      BY <1>0 DEF show_first
    <2> HIDE DEF s
    <2>4. HoldOK(hide_last(s, old)) /\ AllOf(hide_last(s, old)) = AllOf(Held)
      BY <2>2, <2>3, HiddenOrNone
    <2> QED
      BY <2>1, <2>4, MovingKeeps
  <1>5. ASSUME NEW old \in framed \cup {NULL}, workspace_prev_hidden_win_at(old)
        PROVE  IInv'
    <2> DEFINE s == show_last(Held)
    <2>1. Hold(hide_first(s, old)) /\ UNCHANGED <<table, owner, windows, freed>>
      BY <1>5 DEF workspace_prev_hidden_win_at
    <2>2. HoldOK(s) /\ AllOf(s) = AllOf(Held)
      BY <1>0, ShowLastKeeps
    <2>3. old \in s.framed \cup {NULL}
      BY <1>0 DEF show_last
    <2> HIDE DEF s
    <2>4. HoldOK(hide_first(s, old)) /\ AllOf(hide_first(s, old)) = AllOf(Held)
      BY <2>2, <2>3, HiddenOrNone
    <2> QED
      BY <2>1, <2>4, MovingKeeps
  <1>6. ASSUME uncover PROVE IInv'
    <2>1. Hold(show_first(Held)) /\ UNCHANGED <<table, owner, windows, freed>>
      BY <1>6 DEF uncover
    <2> QED
      BY <2>1, <1>0, ShowFirstKeeps, MovingKeeps
  <1>7. ASSUME workspace_free PROVE IInv'
    BY <1>7, FreeKeeps
  <1>8. ASSUME UNCHANGED vars PROVE IInv'
    <2>1. Hold(Held) /\ UNCHANGED <<table, owner, windows, freed>>
      BY <1>8 DEF vars, Hold, Held
    <2> QED
      BY <2>1, <1>0, MovingKeeps
  <1> QED
    BY <1>1, <1>2, <1>3, <1>4, <1>5, <1>6, <1>7, <1>8 DEF Next

-----------------------------------------------------------------------------

(* The linked list is the queue, forwards and backwards, for any number of  *)
(* infos and windows: no order of adding, removing, cycling, splitting and  *)
(* hiding leaves a stale neighbour, nor does workspace_free().              *)
THEOREM ListStaysQueue == Spec => []ListIsQueue
PROOF
  <1>1. IInv => ListIsQueue
    BY DEF IInv, Agree, HoldOK, Held, ListIsQueue
  <1> QED
    BY <1>1, InitHolds, NextKeeps, PTL DEF Spec

(* Every info that is allocated is in a frame or in the list, never in      *)
(* both, and none of those was freed; and workspace_free(), which deletes   *)
(* from the table while it walks through it, leaves no info, no link and no *)
(* live bucket.                                                             *)
THEOREM InfosHaveOnePlace == Spec => []NothingLeft
PROOF
  <1>1. ASSUME IInv PROVE NothingLeft
    <2>1. /\ Held.list \in Links /\ Represents(list, queue) /\ queue \in Seq(Info)
          /\ Elems(queue) \cap framed = {} /\ list \in Links
          /\ Allocated(owner) = Elems(queue) \cup framed
      BY <1>1 DEF IInv, Agree, HoldOK, Holdings, Held, AllOf
    <2>2. ASSUME freed
          PROVE  framed = {} /\ list = NoLinks /\ table.live = {}
      <3>1. table.live = {} /\ Allocated(owner) = {}
        BY <1>1, <2>2, NothingLive DEF IInv
      <3>2. framed = {} /\ Elems(queue) = {}
        BY <2>1, <3>1
      <3>3. queue = <<>>
        BY <2>1, <3>2 DEF Elems
      <3>4. /\ list.first = NULL /\ list.last = NULL
            /\ \A x \in Info : list.prev[x] = NULL /\ list.next[x] = NULL
        BY <2>1, <3>2, <3>3 DEF Represents
      <3>5. /\ list = [first |-> list.first, last |-> list.last,
                       prev |-> list.prev, next |-> list.next]
            /\ list.prev \in [Info -> Pointer] /\ list.next \in [Info -> Pointer]
        BY <2>1 DEF Links
      <3>6. list.prev = [x \in Info |-> NULL] /\ list.next = [x \in Info |-> NULL]
        BY <3>4, <3>5
      <3> QED
        BY <3>1, <3>2, <3>4, <3>5, <3>6 DEF NoLinks
    <2> QED
      BY <2>1, <2>2 DEF NothingLeft, Allocated
  <1> QED
    BY <1>1, InitHolds, NextKeeps, PTL DEF Spec

(* kh_get() finds every window of the workspace, with its own info, and no  *)
(* other window, for any hash function: whatever was put, deleted, cleared  *)
(* or moved, no other key has broken the path to it.                        *)
THEOREM TableFindsWindows == Spec => []TableIsWindows
PROOF
  <1>1. ASSUME IInv PROVE TableIsWindows
    <2>1. Agree(Held, owner, table) /\ HashOK(table) /\ windows = OwnersOf(owner)
          /\ table.live \subseteq Buckets(table) /\ table \in Tables
      BY <1>1 DEF IInv, Agree, HashOK, Layout
    <2>2. table.n_buckets \notin table.live
      BY <2>1 DEF Buckets, Tables
    <2>3. ASSUME NEW x \in Info, owner[x] # NULL
          PROVE  /\ owner[x] \in windows /\ owner[x] \in Window
                 /\ kh_get(table, owner[x]) \in table.live
                 /\ table.cells[kh_get(table, owner[x])][2] = x
      <3>1. owner[x] \in windows /\ owner[x] \in Window
        BY <2>1, <2>3 DEF OwnersOf, Allocated, Agree
      <3>2. PICK i \in table.live : table.cells[i] = <<owner[x], x>>
        BY <2>1, <2>3, CellsAreOwners
      <3>3. kh_get(table, owner[x]) = i
        BY <2>1, <3>1, <3>2, GetFinds
      <3> QED
        BY <3>1, <3>2, <3>3
    <2>4. ASSUME NEW w \in Window
          PROVE  LET k == kh_get(table, w)
                 IN  /\ k # table.n_buckets <=> w \in windows
                     /\ w \in windows => owner[table.cells[k][2]] = w
      <3>1. CASE w \in windows
        <4>1. PICK x \in Info : owner[x] # NULL /\ owner[x] = w
          BY <2>1, <3>1 DEF OwnersOf, Allocated
        <4> QED
          BY <2>2, <2>3, <3>1, <4>1
      <3>2. CASE w \notin windows
        <4>1. ASSUME NEW i \in table.live PROVE table.cells[i][1] # w
          <5>1. /\ owner[table.cells[i][2]] = table.cells[i][1]
                /\ table.cells[i][1] \in Window /\ table.cells[i][2] \in Info
            BY <2>1, CellsAreOwners
          <5> QED
            BY <2>1, <3>2, <5>1, NullIsNoWindow DEF OwnersOf, Allocated
        <4> QED
          BY <2>1, <3>2, <4>1, GetFinds
      <3> QED
        BY <3>1, <3>2
    <2> QED
      BY <2>3, <2>4 DEF TableIsWindows
  <1> QED
    BY <1>1, InitHolds, NextKeeps, PTL DEF Spec

(* Every search ends, for any number of windows and any hash function: the  *)
(* counters that decide when to make room count what is in the buckets, and *)
(* they leave one empty.                                                    *)
THEOREM SearchesAlwaysEnd == Spec => []SearchesEnd
PROOF
  <1>1. ASSUME IInv PROVE SearchesEnd
    <2>1. Layout(table) /\ Counted(table) /\ HashOK(table)
      BY <1>1 DEF IInv, Agree, HashOK
    <2>2. TableOK(table)
      BY <2>1 DEF TableOK, Layout, Tables, Filled
    <2>3. table.n_buckets > 0 => Empty(table) # {}
      <3>1. table.n_buckets > 0 => table.n_buckets # 0
        BY <2>1 DEF Layout, Tables
      <3> QED
        BY <2>1, <3>1, SomeBucketIsEmpty
    <2> QED
      BY <2>1, <2>2, <2>3 DEF SearchesEnd, Counted
  <1> QED
    BY <1>1, InitHolds, NextKeeps, PTL DEF Spec
=============================================================================
