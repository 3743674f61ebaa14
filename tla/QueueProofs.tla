---------------------------- MODULE QueueProofs -----------------------------
(***************************************************************************)
(* What appending, joining, popping at either end and taking out of the    *)
(* middle do to the elements of a list, and that they duplicate none.      *)
(* Then what the proofs about recursive functions share: induction over a  *)
(* set of numbers, and that a recursion has a solution.                    *)
(***************************************************************************)
EXTENDS Queues, SequenceTheorems, WellFoundedInduction, TLAPS

LEMMA ElemsOfAppend ==
  ASSUME NEW T, NEW q \in Seq(T), NEW x \in T
  PROVE  /\ Append(q, x) \in Seq(T)
         /\ Elems(Append(q, x)) = Elems(q) \cup {x}
         /\ Distinct(q) /\ x \notin Elems(q) => Distinct(Append(q, x))
PROOF
  <1>1. /\ Append(q, x) \in Seq(T) /\ Len(Append(q, x)) = Len(q) + 1
        /\ Append(q, x)[Len(q) + 1] = x
        /\ \A i \in 1..Len(q) : Append(q, x)[i] = q[i]
    OBVIOUS
  <1>2. Len(q) \in Nat
    OBVIOUS
  <1> QED
    BY <1>1, <1>2 DEF Elems, Distinct

LEMMA ElemsOfConcat ==
  ASSUME NEW T, NEW p \in Seq(T), NEW q \in Seq(T)
  PROVE  /\ p \o q \in Seq(T)
         /\ Elems(p \o q) = Elems(p) \cup Elems(q)
         /\ Distinct(p) /\ Distinct(q) /\ Elems(p) \cap Elems(q) = {}
              => Distinct(p \o q)
PROOF
  <1>1. /\ p \o q \in Seq(T) /\ Len(p \o q) = Len(p) + Len(q)
        /\ Len(p) \in Nat /\ Len(q) \in Nat
        /\ \A i \in 1..Len(p) : (p \o q)[i] = p[i]
        /\ \A i \in 1..Len(q) : (p \o q)[Len(p) + i] = q[i]
    OBVIOUS
  <1>2. \A i \in 1..Len(p \o q) :
          \/ i \in 1..Len(p)
          \/ i - Len(p) \in 1..Len(q) /\ i = Len(p) + (i - Len(p))
    BY <1>1
  <1>3. Elems(p \o q) = Elems(p) \cup Elems(q)
    <2>1. \A i \in 1..Len(p \o q) : (p \o q)[i] \in Elems(p) \cup Elems(q)
      BY <1>1, <1>2 DEF Elems
    <2>2. \A i \in 1..Len(p) : p[i] \in Elems(p \o q)
      BY <1>1 DEF Elems
    <2>3. \A i \in 1..Len(q) : q[i] \in Elems(p \o q)
      <3> SUFFICES ASSUME NEW i \in 1..Len(q) PROVE q[i] \in Elems(p \o q)
        OBVIOUS
      <3>1. Len(p) + i \in 1..Len(p \o q) /\ (p \o q)[Len(p) + i] = q[i]
        BY <1>1
      <3> QED
        BY <3>1 DEF Elems
    <2> QED
      BY <2>1, <2>2, <2>3 DEF Elems
  <1>4. ASSUME Distinct(p), Distinct(q), Elems(p) \cap Elems(q) = {}
        PROVE  Distinct(p \o q)
    <2> SUFFICES ASSUME NEW i \in 1..Len(p \o q), NEW j \in 1..Len(p \o q),
                        (p \o q)[i] = (p \o q)[j]
                 PROVE  i = j
      BY DEF Distinct
    <2>1. CASE i \in 1..Len(p) /\ j \in 1..Len(p)
      BY <2>1, <1>1, <1>4 DEF Distinct
    <2>2. CASE i \in 1..Len(p) /\ j - Len(p) \in 1..Len(q)
      <3>1. (p \o q)[i] \in Elems(p) /\ (p \o q)[j] \in Elems(q)
        BY <2>2, <1>1, <1>2 DEF Elems
      <3> QED
        BY <3>1, <1>4
    <2>3. CASE i - Len(p) \in 1..Len(q) /\ j \in 1..Len(p)
      <3>1. (p \o q)[i] \in Elems(q) /\ (p \o q)[j] \in Elems(p)
        BY <2>3, <1>1, <1>2 DEF Elems
      <3> QED
        BY <3>1, <1>4
    <2>4. CASE i - Len(p) \in 1..Len(q) /\ j - Len(p) \in 1..Len(q)
      <3>1. q[i - Len(p)] = q[j - Len(p)]
        BY <2>4, <1>1, <1>2
      <3>2. i - Len(p) = j - Len(p)
        BY <2>4, <3>1, <1>4 DEF Distinct
      <3> QED
        BY <3>2, <1>1
    <2> QED
      BY <1>2, <2>1, <2>2, <2>3, <2>4
  <1> QED
    BY <1>1, <1>3, <1>4

LEMMA ElemsOfOne ==
  ASSUME NEW T, NEW x \in T
  PROVE  <<x>> \in Seq(T) /\ Elems(<<x>>) = {x} /\ Distinct(<<x>>)
BY DEF Elems, Distinct

LEMMA ElemsOfTail ==
  ASSUME NEW T, NEW q \in Seq(T), q # <<>>
  PROVE  /\ Head(q) \in T /\ Head(q) \in Elems(q)
         /\ Tail(q) \in Seq(T)
         /\ Distinct(q) => /\ Distinct(Tail(q))
                           /\ Elems(Tail(q)) = Elems(q) \ {Head(q)}
PROOF
  <1>1. /\ Len(q) \in Nat /\ Len(q) > 0 /\ Head(q) = q[1]
        /\ Tail(q) \in Seq(T) /\ Len(Tail(q)) = Len(q) - 1
        /\ \A i \in 1..Len(Tail(q)) : Tail(q)[i] = q[i + 1]
        /\ 1 \in 1..Len(q) /\ q[1] \in T
    OBVIOUS
  <1>2. ASSUME Distinct(q) PROVE Elems(Tail(q)) = Elems(q) \ {Head(q)}
    <2>1. \A i \in 1..Len(Tail(q)) : Tail(q)[i] \in Elems(q) \ {Head(q)}
      BY <1>1, <1>2 DEF Elems, Distinct
    <2>2. \A i \in 1..Len(q) : q[i] # q[1] => q[i] \in Elems(Tail(q))
      <3> SUFFICES ASSUME NEW i \in 1..Len(q), q[i] # q[1]
                   PROVE  q[i] \in Elems(Tail(q))
        OBVIOUS
      <3>1. i - 1 \in 1..Len(Tail(q)) /\ Tail(q)[i - 1] = q[i]
        BY <1>1
      <3> QED
        BY <3>1 DEF Elems
    <2> QED
      BY <1>1, <2>1, <2>2 DEF Elems
  <1>3. ASSUME Distinct(q) PROVE Distinct(Tail(q))
    BY <1>1, <1>3 DEF Distinct
  <1> QED
    BY <1>1, <1>2, <1>3 DEF Elems

LEMMA ElemsOfFront ==
  ASSUME NEW T, NEW q \in Seq(T), q # <<>>
  PROVE  /\ q[Len(q)] \in T /\ q[Len(q)] \in Elems(q)
         /\ SubSeq(q, 1, Len(q) - 1) \in Seq(T)
         /\ Len(SubSeq(q, 1, Len(q) - 1)) = Len(q) - 1
         /\ \A i \in 1..(Len(q) - 1) : SubSeq(q, 1, Len(q) - 1)[i] = q[i]
         /\ Distinct(q) => /\ Distinct(SubSeq(q, 1, Len(q) - 1))
                           /\ Elems(SubSeq(q, 1, Len(q) - 1)) = Elems(q) \ {q[Len(q)]}
PROOF
  <1> DEFINE front == SubSeq(q, 1, Len(q) - 1)
  <1>0. Len(q) \in Nat /\ Len(q) > 0 /\ Len(q) \in 1..Len(q) /\ q[Len(q)] \in T
    OBVIOUS
  <1>1. /\ front \in Seq(T) /\ Len(front) = Len(q) - 1
        /\ \A i \in 1..Len(front) : front[i] = q[i]
    <2>1. 1 \in Int /\ Len(q) - 1 \in Int /\ \A i \in 1..(Len(q) - 1) : q[i] \in T
      BY <1>0
    <2>2. /\ front \in Seq(T)
          /\ Len(front) = IF 1 <= Len(q) - 1 THEN Len(q) - 1 - 1 + 1 ELSE 0
          /\ \A i \in 1..(Len(q) - 1 - 1 + 1) : front[i] = q[1 + i - 1]
      BY <2>1, SubSeqProperties
    <2>3. Len(front) = Len(q) - 1
      <3>1. \A n \in Nat : n > 0 => (IF 1 <= n - 1 THEN n - 1 - 1 + 1 ELSE 0) = n - 1
        OBVIOUS
      <3> QED
        BY <1>0, <2>2, <3>1
    <2>4. ASSUME NEW i \in 1..Len(front) PROVE front[i] = q[i]
      <3>1. i \in 1..(Len(q) - 1 - 1 + 1) /\ 1 + i - 1 = i
        BY <1>0, <2>3
      <3> QED
        BY <3>1, <2>2
    <2> QED
      BY <2>2, <2>3, <2>4
  <1> HIDE DEF front
  <1>2. ASSUME Distinct(q) PROVE Elems(front) = Elems(q) \ {q[Len(q)]}
    BY <1>0, <1>1, <1>2 DEF Elems, Distinct
  <1>3. ASSUME Distinct(q) PROVE Distinct(front)
    BY <1>0, <1>1, <1>3 DEF Distinct
  <1> QED
    BY <1>0, <1>1, <1>2, <1>3 DEF Elems, front

LEMMA ElemsOfWithout ==
  ASSUME NEW T, NEW q \in Seq(T), NEW x, Distinct(q)
  PROVE  /\ Without(q, x) \in Seq(T)
         /\ Elems(Without(q, x)) = Elems(q) \ {x}
         /\ Distinct(Without(q, x))
         /\ x \in Elems(q) => Len(Without(q, x)) = Len(q) - 1
PROOF
  <1>1. CASE x \notin Elems(q)
    BY <1>1 DEF Without
  <1>2. CASE x \in Elems(q)
    <2> DEFINE at == CHOOSE i \in 1..Len(q) : q[i] = x
               rest == [j \in 1..(Len(q) - 1) |-> IF j < at THEN q[j] ELSE q[j + 1]]
    <2>1. Without(q, x) = rest
      BY <1>2 DEF Without
    <2>2. at \in 1..Len(q) /\ q[at] = x
      BY <1>2 DEF Elems
    <2> HIDE DEF at
    <2>3. Len(q) \in Nat /\ Len(q) > 0 /\ \A i \in 1..Len(q) : q[i] \in T
      BY <2>2
    <2>4. rest \in [1..(Len(q) - 1) -> T]
      BY <2>2, <2>3
    <2>5. rest \in Seq(T) /\ Len(rest) = Len(q) - 1
      BY <2>3, <2>4
    <2>6. \A j \in 1..(Len(q) - 1) :
            rest[j] = IF j < at THEN q[j] ELSE q[j + 1]
      OBVIOUS
    <2> HIDE DEF rest
    <2>7. \A j \in 1..(Len(q) - 1) : rest[j] \in Elems(q) /\ rest[j] # x
      BY <2>2, <2>3, <2>6 DEF Elems, Distinct
    <2>8. \A i \in 1..Len(q) : q[i] # x => q[i] \in Elems(rest)
      <3> SUFFICES ASSUME NEW i \in 1..Len(q), q[i] # x
                   PROVE  q[i] \in Elems(rest)
        OBVIOUS
      <3>1. CASE i < at
        BY <3>1, <2>2, <2>3, <2>5, <2>6 DEF Elems
      <3>2. CASE i > at
        <4>1. i - 1 \in 1..(Len(q) - 1) /\ rest[i - 1] = q[i]
          BY <3>2, <2>2, <2>3, <2>6
        <4> QED
          BY <4>1, <2>5 DEF Elems
      <3> QED
        BY <2>2, <3>1, <3>2
    <2>9. Distinct(rest)
      <3> SUFFICES ASSUME NEW i \in 1..(Len(q) - 1), NEW j \in 1..(Len(q) - 1), i # j
                   PROVE  rest[i] # rest[j]
        BY <2>5 DEF Distinct
      <3> DEFINE I == IF i < at THEN i ELSE i + 1
                 J == IF j < at THEN j ELSE j + 1
      <3>1. I \in 1..Len(q) /\ J \in 1..Len(q) /\ I # J
        BY <2>2, <2>3
      <3>2. rest[i] = q[I] /\ rest[j] = q[J]
        BY <2>6
      <3> HIDE DEF I, J
      <3> QED
        BY <3>1, <3>2 DEF Distinct
    <2>10. Elems(rest) = Elems(q) \ {x}
      <3>1. \A y \in Elems(rest) : y \in Elems(q) \ {x}
        BY <2>5, <2>7 DEF Elems
      <3>2. \A y \in Elems(q) \ {x} : y \in Elems(rest)
        BY <2>8 DEF Elems
      <3> QED
        BY <3>1, <3>2
    <2> QED
      BY <2>1, <2>5, <2>9, <2>10
  <1> QED
    BY <1>1, <1>2

(* Taking out what was appended last gives the queue back. *)
LEMMA WithoutLast ==
  ASSUME NEW T, NEW q \in Seq(T), NEW x \in T, x \notin Elems(q)
  PROVE  Without(Append(q, x), x) = q
PROOF
  <1> DEFINE p  == Append(q, x)
             at == CHOOSE i \in 1..Len(p) : p[i] = x
  <1>1. /\ p \in Seq(T) /\ Len(p) = Len(q) + 1 /\ Len(q) \in Nat
        /\ p[Len(q) + 1] = x
        /\ \A i \in 1..Len(q) : p[i] = q[i] /\ q[i] # x
    BY DEF Elems
  <1>2. x \in Elems(p)
    BY <1>1 DEF Elems
  <1> HIDE DEF p
  <1>3. at = Len(q) + 1
    BY <1>1
  <1>4. Without(p, x) = [j \in 1..(Len(p) - 1) |-> IF j < at THEN p[j] ELSE p[j + 1]]
    BY <1>2 DEF Without
  <1> HIDE DEF at
  <1>5. Without(p, x) = [j \in 1..Len(q) |-> q[j]]
    BY <1>1, <1>3, <1>4
  <1> QED
    BY <1>5 DEF p

-----------------------------------------------------------------------------
(* Induction and recursion.                                                 *)

LEMMA LeastNumber ==
  ASSUME NEW S \in SUBSET Nat, S # {}
  PROVE  \E i \in S : \A j \in S : i <= j
PROOF
  <1> DEFINE R == {p \in Nat \X Nat : p[1] < p[2]}
  <1>1. IsWellFoundedOn(R, Nat)
    BY NatLessThanWellFounded DEF OpToRel
  <1>2. PICK i \in S : \A j \in S : <<j, i>> \notin R
    BY <1>1, WFMin
  <1>3. ASSUME NEW j \in Nat, NEW k \in Nat, j < k
        PROVE  <<j, k>> \in R
    BY <1>3
  <1> HIDE DEF R
  <1>4. \A j \in S : ~(j < i)
    BY <1>2, <1>3
  <1> QED
    BY <1>4

(* A set that holds zero and with a number the next one holds them all.     *)
LEMMA Induction ==
  ASSUME NEW S, 0 \in S, \A k \in Nat : k \in S => k + 1 \in S
  PROVE  Nat \subseteq S
PROOF
  <1> DEFINE Out == Nat \ S
  <1> SUFFICES ASSUME Out # {} PROVE FALSE
    OBVIOUS
  <1>1. PICK i \in Out : \A j \in Out : i <= j
    BY LeastNumber
  <1>2. i \in Nat /\ i # 0 /\ i \notin S
    OBVIOUS
  <1>3. i - 1 \in Nat /\ (i - 1) + 1 = i /\ ~(i <= i - 1)
    BY <1>2
  <1>4. i - 1 \in S
    BY <1>1, <1>3
  <1>5. (i - 1) + 1 \in S
    BY <1>3, <1>4
  <1> QED
    BY <1>2, <1>3, <1>5

(* A recursion along the numbers up to n has a solution, of which every     *)
(* value is a T.                                                            *)
Unrolls(f, n, a, step) ==
  /\ DOMAIN f = 0..n
  /\ f[0] = a
  /\ \A i \in 1..n : f[i] = step[<<f[i - 1], i>>]

LEMMA Recursion ==
  ASSUME NEW T, NEW a \in T, NEW step, NEW n \in Nat,
         \A x \in T, i \in 1..n : step[<<x, i>>] \in T
  PROVE  \E f \in [0..n -> T] : Unrolls(f, n, a, step)
PROOF
  <1> DEFINE S == {k \in Nat : k <= n => \E f \in [0..k -> T] : Unrolls(f, k, a, step)}
  <1>1. 0 \in S
    <2> DEFINE f == [i \in 0..0 |-> a]
    <2>1. f \in [0..0 -> T] /\ Unrolls(f, 0, a, step)
      BY DEF Unrolls
    <2> HIDE DEF f
    <2> QED
      BY <2>1
  <1>2. ASSUME NEW k \in Nat, k \in S, k + 1 <= n
        PROVE  \E f \in [0..(k + 1) -> T] : Unrolls(f, k + 1, a, step)
    <2>1. PICK f \in [0..k -> T] : Unrolls(f, k, a, step)
      BY <1>2
    <2> DEFINE last == step[<<f[k], k + 1>>]
               g == [i \in 0..(k + 1) |-> IF i = k + 1 THEN last ELSE f[i]]
    <2>2. last \in T
      BY <1>2
    <2>3. g \in [0..(k + 1) -> T]
      <3> HIDE DEF last
      <3>1. \A i \in 0..(k + 1) : i # k + 1 => i \in 0..k
        OBVIOUS
      <3> QED
        BY <2>2, <3>1
    <2>4. g[0] = a
      BY <2>1 DEF Unrolls
    <2>5. ASSUME NEW i \in 1..(k + 1)
          PROVE  g[i] = step[<<g[i - 1], i>>]
      <3> HIDE DEF last
      <3>1. i - 1 \in 0..(k + 1) /\ i - 1 \in 0..k /\ i - 1 # k + 1 /\ i \in 0..(k + 1)
        OBVIOUS
      <3>2. g[i - 1] = f[i - 1]
        BY <3>1
      <3>3. CASE i = k + 1
        BY <3>1, <3>2, <3>3 DEF last
      <3>4. CASE i # k + 1
        <4>1. i \in 1..k
          BY <3>4
        <4>2. g[i] = f[i]
          BY <3>1, <3>4
        <4> QED
          BY <2>1, <3>2, <4>1, <4>2 DEF Unrolls
      <3> QED
        BY <3>3, <3>4
    <2>6. DOMAIN g = 0..(k + 1)
      OBVIOUS
    <2> HIDE DEF g
    <2>7. Unrolls(g, k + 1, a, step)
      BY <2>4, <2>5, <2>6 DEF Unrolls
    <2> QED
      BY <2>3, <2>7
  <1>3. \A k \in Nat : k \in S => k + 1 \in S
    BY <1>2
  <1> HIDE DEF S
  <1>4. n \in S
    BY <1>1, <1>3, Induction
  <1> QED
    BY <1>4 DEF S

(* The same along the places of a list.                                     *)
Passes(f, n, a, step) ==
  f = [i \in 1..n |-> IF i = 1 THEN a ELSE step[<<f[i - 1], i>>]]

LEMMA RecursionFromOne ==
  ASSUME NEW T, NEW a \in T, NEW step, NEW n \in Nat,
         \A x \in T, i \in 2..n : step[<<x, i>>] \in T
  PROVE  \E f \in [1..n -> T] : Passes(f, n, a, step)
PROOF
  <1> DEFINE later == [x \in T \X (1..(n - 1)) |-> step[<<x[1], x[2] + 1>>]]
  <1>1. CASE n = 0
    <2> DEFINE f == [i \in 1..n |-> a]
    <2>1. f \in [1..n -> T]
      OBVIOUS
    <2>2. f = [i \in 1..n |-> IF i = 1 THEN a ELSE step[<<f[i - 1], i>>]]
      BY <1>1
    <2> QED
      BY <2>1, <2>2 DEF Passes
  <1>2. CASE n # 0
    <2>1. n - 1 \in Nat
      BY <1>2
    <2>2. ASSUME NEW x \in T, NEW i \in 1..(n - 1)
          PROVE  later[<<x, i>>] = step[<<x, i + 1>>] /\ later[<<x, i>>] \in T
      OBVIOUS
    <2> HIDE DEF later
    <2>3. PICK g \in [0..(n - 1) -> T] : Unrolls(g, n - 1, a, later)
      BY <2>1, <2>2, Recursion
    <2> DEFINE f == [i \in 1..n |-> g[i - 1]]
    <2>4. f \in [1..n -> T]
      OBVIOUS
    <2>5. ASSUME NEW i \in 1..n
          PROVE  f[i] = IF i = 1 THEN a ELSE step[<<f[i - 1], i>>]
      <3>1. CASE i = 1
        BY <2>3, <3>1 DEF Unrolls
      <3>2. CASE i # 1
        <4>1. /\ i - 1 \in 1..(n - 1) /\ i - 1 \in 1..n /\ (i - 1) + 1 = i
          BY <3>2
        <4>2. f[i] = g[i - 1] /\ f[i - 1] = g[(i - 1) - 1]
          BY <4>1
        <4>3. g[i - 1] = later[<<g[(i - 1) - 1], i - 1>>]
          BY <2>3, <4>1 DEF Unrolls
        <4>4. g[(i - 1) - 1] \in T
          BY <4>1
        <4>5. later[<<g[(i - 1) - 1], i - 1>>] = step[<<g[(i - 1) - 1], i>>]
          BY <2>2, <4>1, <4>4
        <4> QED
          BY <3>2, <4>2, <4>3, <4>5
      <3> QED
        BY <3>1, <3>2
    <2>6. f = [i \in 1..n |-> f[i]]
      OBVIOUS
    <2> HIDE DEF f
    <2>7. f = [i \in 1..n |-> IF i = 1 THEN a ELSE step[<<f[i - 1], i>>]]
      BY <2>5, <2>6
    <2> QED
      BY <2>4, <2>7 DEF Passes
  <1> QED
    BY <1>1, <1>2

(* A tail recursion over E has a solution, whether or not it ends.          *)
Solves(v, E, Ends, out, next) ==
  v = [y \in E |-> IF y \in Ends THEN out[y] ELSE v[next[y]]]

LEMMA TailRecursion ==
  ASSUME NEW E, NEW Ends, NEW out, NEW next, \A y \in E \ Ends : next[y] \in E
  PROVE  \E v : Solves(v, E, Ends, out, next)
PROOF
  <1> DEFINE Closed(S) == \A y \in S \ Ends : next[y] \in S
             Reached(x) == {z \in E : \A S \in SUBSET E :
                              x \in S /\ Closed(S) => z \in S}
             End(x) == Reached(x) \cap Ends
             v == [x \in E |-> out[CHOOSE z : z \in End(x)]]
  <1>1. ASSUME NEW x \in E \cap Ends PROVE End(x) = {x}
    <2>1. {x} \in SUBSET E /\ Closed({x})
      OBVIOUS
    <2>2. x \in Reached(x)
      OBVIOUS
    <2>3. \A z \in Reached(x) : z = x
      BY <2>1
    <2> QED
      BY <2>2, <2>3
  <1>2. ASSUME NEW x \in E \ Ends PROVE End(x) = End(next[x])
    <2>1. ASSUME NEW S \in SUBSET E, x \in S, Closed(S) PROVE next[x] \in S
      BY <2>1
    <2>2. Reached(next[x]) \subseteq Reached(x)
      BY <2>1
    <2>3. ASSUME NEW z \in End(x) PROVE z \in Reached(next[x])
      <3>1. SUFFICES ASSUME NEW S \in SUBSET E, next[x] \in S, Closed(S)
                     PROVE  z \in S
        OBVIOUS
      <3>2. Closed(S \cup {x}) /\ S \cup {x} \in SUBSET E
        BY <3>1
      <3>3. z \in S \cup {x}
        BY <3>2
      <3> QED
        BY <3>3
    <2> QED
      BY <2>2, <2>3
  <1>3. ASSUME NEW y \in E
        PROVE  v[y] = IF y \in Ends THEN out[y] ELSE v[next[y]]
    <2>1. CASE y \in Ends
      <3>1. (CHOOSE z : z \in End(y)) = y
        <4> HIDE DEF End
        <4> QED BY <1>1, <2>1
      <3> QED
        BY <2>1, <3>1
    <2>2. CASE y \notin Ends
      <3>1. End(y) = End(next[y]) /\ next[y] \in E
        BY <1>2, <2>2
      <3> HIDE DEF End
      <3> QED
        BY <2>2, <3>1
    <2> QED
      BY <2>1, <2>2
  <1> HIDE DEF End
  <1>4. v = [y \in E |-> v[y]]
    OBVIOUS
  <1> HIDE DEF v
  <1>5. v = [y \in E |-> IF y \in Ends THEN out[y] ELSE v[next[y]]]
    BY <1>3, <1>4
  <1> QED
    BY <1>5 DEF Solves
=============================================================================
